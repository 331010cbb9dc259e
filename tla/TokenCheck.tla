----------------------------- MODULE TokenCheck -----------------------------
(***************************************************************************)
(* How the gateway's answer to the token is classified                     *)
(* (gateway/client.py, _authenticate and its helpers).  The connection     *)
(* loop and the forms both end a token check with one of the four          *)
(* outcomes below.                                                         *)
(*                                                                         *)
(* A reply stands for one message read from the socket: its frame type,    *)
(* its close code, and the JSON object the text or the close reason holds. *)
(* The object is reduced to its "type" and its "message".                  *)
(***************************************************************************)

AUTH_OK == "ok"
AUTH_INVALID == "invalid_auth"
AUTH_INTEGRATION_DISABLED == "integration_disabled"
AUTH_CANNOT_CONNECT == "cannot_connect"
Outcomes ==
  {AUTH_OK, AUTH_INVALID, AUTH_INTEGRATION_DISABLED, AUTH_CANNOT_CONNECT}

REFUSED_CLOSE_CODE == 1008
OtherCloseCode == 1011          \* any code that is not the refusal's

\* The JSON objects an answer can hold; Unreadable is text that is not one.
Unreadable == [type |-> "unreadable", message |-> ""]
AuthOkBody == [type |-> "auth_ok", message |-> ""]
AuthFailed(message) == [type |-> "auth_failed", message |-> message]
OtherBody == [type |-> "something_else", message |-> ""]
Messages == {"Invalid token", "Integration is disabled", "anything else"}
Bodies == {Unreadable, AuthOkBody, OtherBody}
            \cup {AuthFailed(message) : message \in Messages}

\* The replies a socket can yield: a text frame, a close frame, a frame of
\* another type, or nothing before AUTH_TIMEOUT_S.
Text(body) == [frame |-> "TEXT", code |-> 0, body |-> body]
Close(code, body) == [frame |-> "CLOSE", code |-> code, body |-> body]
OtherFrame == [frame |-> "OTHER", code |-> 0, body |-> Unreadable]
Silence == [frame |-> "NONE", code |-> 0, body |-> Unreadable]
Replies ==
  {Text(body) : body \in Bodies}
    \cup {Close(code, body) : code \in {REFUSED_CLOSE_CODE, OtherCloseCode},
                              body \in Bodies}
    \cup {OtherFrame, Silence}

\* Slip: every refusal but a disabled integration is held against the token.
BlameToken(message) ==
  IF message = "Integration is disabled" THEN AUTH_INTEGRATION_DISABLED
  ELSE AUTH_INVALID

\* Only "Invalid token" is about the token.
Refusal(message) ==
  IF message = "Invalid token" THEN AUTH_INVALID
  ELSE IF message = "Integration is disabled" THEN AUTH_INTEGRATION_DISABLED
  ELSE AUTH_CANNOT_CONNECT

ClassifyText(body) ==
  IF body.type = "auth_ok" THEN AUTH_OK
  ELSE IF body.type = "auth_failed" THEN Refusal(body.message)
  ELSE AUTH_CANNOT_CONNECT

\* A refusal's close code without a readable reason counts against the token.
ClassifyClose(code, body) ==
  IF code # REFUSED_CLOSE_CODE THEN AUTH_CANNOT_CONNECT
  ELSE IF body = Unreadable THEN AUTH_INVALID
  ELSE IF body.type = "auth_failed" THEN Refusal(body.message)
  ELSE AUTH_CANNOT_CONNECT

Authenticate(reply) ==
  IF reply.frame = "TEXT" THEN ClassifyText(reply.body)
  ELSE IF reply.frame = "CLOSE" THEN ClassifyClose(reply.code, reply.body)
  ELSE AUTH_CANNOT_CONNECT
=============================================================================
