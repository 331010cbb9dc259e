--------------------------- MODULE MCGatewayClient ---------------------------
(***************************************************************************)
(* Instances of GatewayClient for model checking.                          *)
(***************************************************************************)
EXTENDS GatewayClient

\* A gateway that accepts the token, rejects it in each of its ways, answers
\* something else, or is out of reach.
EveryMood ==
  {Text(AuthOkBody),
   Text(AuthFailed("Invalid token")),
   Text(AuthFailed("Integration is disabled")),
   Close(REFUSED_CLOSE_CODE, Unreadable),
   Close(REFUSED_CLOSE_CODE, AuthFailed("anything else")),
   Down}

\* A gateway that accepts the token or is out of reach.
PlainMoods == {Text(AuthOkBody), Down}
=============================================================================
