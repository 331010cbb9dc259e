----------------------------- MODULE ConfigFlow ------------------------------
(***************************************************************************)
(* config_flow.py: the forms that give a Staykey entry its gateway token.  *)
(*                                                                         *)
(* Adding an entry and answering a prompt for a new token check the token  *)
(* with the gateway (probe_token) between the look at the other entries    *)
(* and the saving; the options form saves at once.  Home Assistant, which  *)
(* keeps entries and forms, is external.  An input that is refused shows   *)
(* the form again and is no step; the options form requires some token.    *)
(***************************************************************************)
CONSTANTS Entries,          \* entries there can be
          Forms,            \* open forms to add an entry or to answer a prompt
          Tokens,
          None,             \* no token, or no entry
          Blank             \* a token of spaces, which only the options keep

ASSUME NoTokens == None \notin Tokens /\ Blank \notin Tokens /\ None # Blank
ASSUME NoName == None \notin Entries \cup Forms

VARIABLES
  entry,        \* data and options token, and unique ID, of each entry
  form,         \* the token each form checks, and the entry it is for
  crossed       \* auxiliary: tokens saved while another form checked them

vars == <<entry, form, crossed>>

Entry == [data : Tokens \cup {None}, options : Tokens \cup {None, Blank},
          unique : Tokens \cup {None}]
ASSUME NoRecord == None \notin Entry

Closed == [token |-> None, for |-> None]

TypeOK ==
  /\ entry \in [Entries -> Entry \cup {None}]
  /\ form \in [Forms -> [token : Tokens \cup {None}, for : Entries \cup {None}]]
  /\ crossed \subseteq Tokens

Present == {e \in Entries : entry[e] # None}

\* Slip: spaces are stripped before the choice.
StrippedFirst(it) == IF it.options \in {None, Blank} THEN it.data ELSE it.options

\* _current_token: the options come first, spaces are stripped last.
Current(it) ==
  IF it.options = None THEN it.data
  ELSE IF it.options = Blank THEN None ELSE it.options

\* Entries of older versions: the unique ID may have stayed behind, and a
\* webhook entry has neither token nor unique ID.
Init ==
  /\ entry \in [Entries -> Entry \cup {None}]
  /\ \A e, f \in Present : e # f =>
       /\ Current(entry[e]) # None => Current(entry[e]) # Current(entry[f])
       /\ entry[e].unique # None => entry[e].unique # entry[f].unique
  /\ form = [f \in Forms |-> Closed]
  /\ crossed = {}
-----------------------------------------------------------------------------
\* Slip: entries are known by their unique IDs alone.
KnownById(token, e) == \E other \in Present \ {e} : entry[other].unique = token

\* _token_in_use_elsewhere
InUseElsewhere(token, e) ==
  \E other \in Present \ {e} : token \in {Current(entry[other]), entry[other].unique}

Checking(f) == form[f].token # None

\* The forms but f go on, except those for an entry that is gone.
FormsWithout(f, gone) ==
  [g \in Forms |-> IF g = f \/ form[g].for \in gone THEN Closed ELSE form[g]]

\* A token is saved by form f, or by the options form if f is None.
Saved(token, f) ==
  crossed' = IF \E g \in Forms \ {f} : form[g].token = token
               THEN crossed \cup {token} ELSE crossed

\* Home Assistant keeps two forms from adding one unique ID.
AlreadyInProgress(f, token) ==
  \E g \in Forms \ {f} : form[g] = [token |-> token, for |-> None]

\* async_step_user, up to probe_token.
UserSubmits(f, token) ==
  /\ ~Checking(f)
  /\ ~AlreadyInProgress(f, token)
  /\ ~InUseElsewhere(token, None)
  /\ form' = [form EXCEPT ![f] = [token |-> token, for |-> None]]
  /\ UNCHANGED <<entry, crossed>>

\* async_step_reauth_confirm; the entry's own token is only tried again.  The
\* prompt, one at a time, is for an entry that has had a token.
ReauthSubmits(f, e, token) ==
  /\ ~Checking(f) /\ \A g \in Forms : form[g].for # e
  /\ e \in Present /\ {entry[e].data, entry[e].options} # {None}
  /\ token # Current(entry[e])
  /\ ~InUseElsewhere(token, e)
  /\ form' = [form EXCEPT ![f] = [token |-> token, for |-> e]]
  /\ UNCHANGED <<entry, crossed>>

\* probe_token returns anything but AUTH_OK.
ProbeFails(f) ==
  /\ Checking(f)
  /\ form' = FormsWithout(f, {})
  /\ UNCHANGED <<entry, crossed>>

\* The new entry replaces one that has its unique ID by now.
EntryCreated(f, e) ==
  LET token == form[f].token
      known == {other \in Present : entry[other].unique = token}
  IN  /\ Checking(f) /\ form[f].for = None
      /\ e \in IF known = {} THEN Entries \ Present ELSE known
      /\ entry' = [entry EXCEPT ![e] = [data |-> token, options |-> None, unique |-> token]]
      /\ form' = FormsWithout(f, {e})
      /\ Saved(token, f)

\* Slip: the token saved in the options stays.
OptionsKept(it, token) == [it EXCEPT !.data = token, !.unique = token]

Reauthed(it, token) ==
  [data |-> token, unique |-> token,
   options |-> IF it.options = None THEN None ELSE token]

ReauthDone(f) ==
  LET e == form[f].for
  IN  /\ Checking(f) /\ e # None
      /\ entry' = [entry EXCEPT ![e] = Reauthed(@, form[f].token)]
      /\ form' = FormsWithout(f, {})
      /\ Saved(form[f].token, f)

\* Slip: spaces pass for a new token.
BlankAsToken(it, typed) == [it EXCEPT !.options = typed, !.unique = typed]

\* Slip: the unique ID stays behind.
UniqueStays(it, typed) == [it EXCEPT !.options = typed]

Configured(it, typed) ==
  [it EXCEPT !.options = typed,
             !.unique = IF typed \in {Blank, Current(it)} THEN @ ELSE typed]

\* StaykeyOptionsFlowHandler.async_step_init: nothing is checked with the gateway.
OptionsSaved(e, typed) ==
  /\ e \in Present
  /\ typed # Blank => ~InUseElsewhere(typed, e)
  /\ entry' = [entry EXCEPT ![e] = Configured(@, typed)]
  /\ Saved(typed, None)
  /\ UNCHANGED form

EntryRemoved(e) ==
  /\ e \in Present
  /\ entry' = [entry EXCEPT ![e] = None]
  /\ form' = FormsWithout(None, {e})
  /\ UNCHANGED crossed

Next ==
  \/ \E f \in Forms : \/ ProbeFails(f) \/ ReauthDone(f)
                      \/ \E token \in Tokens : UserSubmits(f, token)
                      \/ \E e \in Entries : EntryCreated(f, e)
                      \/ \E e \in Entries, token \in Tokens : ReauthSubmits(f, e, token)
  \/ \E e \in Entries, typed \in Tokens \cup {Blank} : OptionsSaved(e, typed)
  \/ \E e \in Entries : EntryRemoved(e)

Spec == Init /\ [][Next]_vars
-----------------------------------------------------------------------------
\* "saving it would give two entries the same unique ID" (config_flow.py:42):
\* two entries come to share a token, or a unique ID, only by one saving it
\* while the other one's form checks it.
OneEntryPerToken ==
  \A e, f \in Present : e # f =>
    /\ Current(entry[e]) \in Tokens \ crossed => Current(entry[e]) # Current(entry[f])
    /\ entry[e].unique \in Tokens \ crossed => entry[e].unique # entry[f].unique

\* "never check a token a running entry uses" (client.py:139): a form checks
\* such a token only if an entry took it on while the check ran.
ChecksSpareEntries ==
  \A f \in Forms : Checking(f) /\ form[f].token \notin crossed =>
    \A e \in Present : Current(entry[e]) # form[f].token

\* "a token saved there is replaced too" (config_flow.py:207): an entry runs on
\* the token its prompt was answered with.
ReauthTakesEffect ==
  [][\A f \in Forms : ReauthDone(f) =>
       Current(entry'[form[f].for]) = form[f].token]_vars

\* "The entry's unique ID follows the token it uses." (config_flow.py:78)
UniqueFollows ==
  [][\A e \in Present \cap Present' :
       Current(entry'[e]) \notin {Current(entry[e]), None} =>
         entry'[e].unique = Current(entry'[e])]_vars
=============================================================================
