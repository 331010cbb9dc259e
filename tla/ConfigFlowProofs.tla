-------------------------- MODULE ConfigFlowProofs ---------------------------
(***************************************************************************)
(* What is proved of ConfigFlow for any number of entries, forms, tokens.  *)
(***************************************************************************)
EXTENDS ConfigFlow, TLAPS

\* A check whose token nobody saved meanwhile is of a token that no other
\* entry has, and that its own entry, if it has one, does not run on.
ChecksSpare == \A f \in Forms : Checking(f) /\ form[f].token \notin crossed =>
  \A e \in Present :
    /\ Current(entry[e]) # form[f].token
    /\ e # form[f].for => entry[e].unique # form[f].token

IInv == TypeOK /\ ChecksSpare /\ OneEntryPerToken
-----------------------------------------------------------------------------
LEMMA InitHolds == Init => IInv
<1> SUFFICES ASSUME Init PROVE IInv
  OBVIOUS
<1>1. TypeOK
  BY DEF Init, TypeOK, Closed
<1>2. \A f \in Forms : ~Checking(f)
  BY DEF Init, Checking, Closed
<1>3. OneEntryPerToken
  BY NoTokens DEF Init, OneEntryPerToken
<1> QED
  BY <1>1, <1>2, <1>3 DEF IInv, ChecksSpare

\* Nothing is saved: forms close, or one begins the check of a spare token.
LEMMA FormsChange ==
  ASSUME IInv, UNCHANGED crossed,
         form' \in [Forms -> [token : Tokens \cup {None}, for : Entries \cup {None}]],
         entry' \in [Entries -> Entry \cup {None}],
         \A e \in Entries : entry'[e] \in {entry[e], None},
         \A f \in Forms : Checking(f)' /\ form'[f] # form[f] =>
           \A e \in Present :
             /\ Current(entry[e]) # form'[f].token
             /\ e # form'[f].for => entry[e].unique # form'[f].token
  PROVE  IInv'
<1>1. TypeOK'
  BY DEF IInv, TypeOK
<1>2. Present' \subseteq Present /\ \A e \in Present' : entry'[e] = entry[e]
  BY DEF Present
<1>3. ChecksSpare'
  BY <1>2 DEF IInv, ChecksSpare, Checking
<1>4. OneEntryPerToken'
  BY <1>2 DEF IInv, OneEntryPerToken
<1> QED
  BY <1>1, <1>3, <1>4 DEF IInv

\* One entry takes on a token that no other entry has, or is left without one.
LEMMA TokenSaved ==
  ASSUME IInv, NEW e \in Entries, NEW f \in Forms \cup {None},
         NEW token \in Tokens \cup {Blank}, Saved(token, f),
         NEW it \in Entry, entry' = [entry EXCEPT ![e] = it],
         Current(it) = IF token = Blank THEN None ELSE token,
         it.unique = token \/ (e \in Present /\ it.unique = entry[e].unique),
         token = Blank => it.unique # Blank,
         form' \in [Forms -> [token : Tokens \cup {None}, for : Entries \cup {None}]],
         \A g \in Forms : form'[g] \in {form[g], Closed},
         f \in Forms => form'[f] = Closed,
         token \in Tokens \ crossed =>
           \A other \in Present \ {e} :
             token # Current(entry[other]) /\ token # entry[other].unique
  PROVE  IInv'
<1>1. crossed \subseteq crossed' /\ crossed' \subseteq Tokens
  <2>1. token = Blank => \A g \in Forms : form[g].token # token
    BY NoTokens DEF IInv, TypeOK
  <2>2. CASE token = Blank
    BY <2>1, <2>2 DEF Saved, IInv, TypeOK
  <2>3. CASE token # Blank
    BY <2>3 DEF Saved, IInv, TypeOK
  <2> QED
    BY <2>2, <2>3
<1>2. TypeOK'
  BY <1>1 DEF IInv, TypeOK
<1>3. /\ Present' = Present \cup {e} /\ entry'[e] = it
      /\ \A other \in Present' \ {e} : other \in Present /\ entry'[other] = entry[other]
  BY NoRecord DEF Present, IInv, TypeOK
<1>4. ASSUME NEW g \in Forms, Checking(g)', form'[g].token \notin crossed'
      PROVE  /\ form'[g] = form[g] /\ Checking(g) /\ form[g].token \notin crossed
             /\ form[g].token # token
  <2>1. form'[g] # Closed
    BY <1>4 DEF Checking, Closed
  <2>2. form'[g] = form[g] /\ g # f
    BY <2>1
  <2> QED
    BY <1>1, <1>4, <2>2 DEF Checking, Saved
<1>5. ChecksSpare'
  <2> SUFFICES ASSUME NEW g \in Forms, Checking(g)', form'[g].token \notin crossed',
                      NEW other \in Present'
               PROVE  /\ Current(entry'[other]) # form[g].token
                      /\ other # form[g].for => entry'[other].unique # form[g].token
    BY <1>4 DEF ChecksSpare
  <2>1. Checking(g) /\ form[g].token \notin crossed /\ form[g].token # token
    BY <1>4
  <2>2. CASE other # e
    BY <1>3, <2>1, <2>2 DEF IInv, ChecksSpare
  <2>3. CASE other = e
    BY <1>3, <2>1, <2>3 DEF IInv, ChecksSpare, Checking
  <2> QED
    BY <2>2, <2>3
<1>6. OneEntryPerToken'
  <2> SUFFICES ASSUME NEW x \in Present', NEW y \in Present', x # y
               PROVE  /\ Current(entry'[x]) \in Tokens \ crossed' =>
                           Current(entry'[x]) # Current(entry'[y])
                      /\ entry'[x].unique \in Tokens \ crossed' =>
                           entry'[x].unique # entry'[y].unique
    BY DEF OneEntryPerToken
  <2>1. CASE x # e /\ y # e
    BY <1>1, <1>3, <2>1 DEF IInv, OneEntryPerToken
  <2>2. CASE x = e
    BY <1>1, <1>3, <2>2, NoTokens DEF IInv, OneEntryPerToken
  <2>3. CASE y = e
    BY <1>1, <1>3, <2>3, NoTokens DEF IInv, OneEntryPerToken
  <2> QED
    BY <2>1, <2>2, <2>3
<1> QED
  BY <1>2, <1>5, <1>6 DEF IInv
-----------------------------------------------------------------------------
LEMMA FormsClose ==
  ASSUME TypeOK, NEW f, NEW gone, form' = FormsWithout(f, gone)
  PROVE  /\ form' \in [Forms -> [token : Tokens \cup {None}, for : Entries \cup {None}]]
         /\ \A g \in Forms : form'[g] \in {form[g], Closed}
         /\ f \in Forms => form'[f] = Closed
         /\ \A g \in Forms : ~(Checking(g)' /\ form'[g] # form[g])
<1>1. Closed \in [token : Tokens \cup {None}, for : Entries \cup {None}]
  BY DEF Closed
<1>2. form' \in [Forms -> [token : Tokens \cup {None}, for : Entries \cup {None}]]
  BY <1>1 DEF FormsWithout, TypeOK
<1>3. \A g \in Forms : form'[g] \in {form[g], Closed}
  BY DEF FormsWithout
<1>4. \A g \in Forms : ~(Checking(g)' /\ form'[g] # form[g])
  BY <1>3 DEF Checking, Closed
<1> QED
  BY <1>2, <1>3, <1>4 DEF FormsWithout

LEMMA StepHolds == IInv /\ [Next]_vars => IInv'
<1> SUFFICES ASSUME IInv, [Next]_vars PROVE IInv'
  OBVIOUS
<1>0. TypeOK
  BY DEF IInv
<1>1. ASSUME NEW f \in Forms, ProbeFails(f) PROVE IInv'
  <2>1. form' = FormsWithout(f, {}) /\ UNCHANGED <<entry, crossed>>
    BY <1>1 DEF ProbeFails
  <2> QED
    BY <1>0, <2>1, FormsClose, FormsChange DEF TypeOK
<1>2. ASSUME NEW f \in Forms, ReauthDone(f) PROVE IInv'
  <2> DEFINE e == form[f].for
             it == Reauthed(entry[e], form[f].token)
  <2>1. Checking(f) /\ form[f].token \in Tokens /\ e \in Entries
    BY <1>0, <1>2 DEF ReauthDone, Checking, TypeOK
  <2>2. it \in Entry /\ Current(it) = form[f].token /\ it.unique = form[f].token
    BY <2>1, NoTokens DEF Reauthed, Entry, Current
  <2>3. entry' = [entry EXCEPT ![e] = it] /\ Saved(form[f].token, f)
    BY <1>2 DEF ReauthDone
  <2>4. form[f].token \notin crossed => \A other \in Present \ {e} :
          form[f].token # Current(entry[other]) /\ form[f].token # entry[other].unique
    BY <2>1 DEF IInv, ChecksSpare
  <2>5. form' = FormsWithout(f, {})
    BY <1>2 DEF ReauthDone
  <2>6. /\ form' \in [Forms -> [token : Tokens \cup {None}, for : Entries \cup {None}]]
        /\ \A g \in Forms : form'[g] \in {form[g], Closed}
        /\ form'[f] = Closed
    BY <1>0, <2>5, FormsClose
  <2> HIDE DEF e, it
  <2> QED
    BY <2>1, <2>2, <2>3, <2>4, <2>6, TokenSaved, NoTokens
<1>3. ASSUME NEW f \in Forms, NEW token \in Tokens, UserSubmits(f, token) PROVE IInv'
  <2>1. /\ form' = [form EXCEPT ![f] = [token |-> token, for |-> None]]
        /\ UNCHANGED <<entry, crossed>>
        /\ \A other \in Present :
             token # Current(entry[other]) /\ token # entry[other].unique
    BY <1>3, NoName DEF UserSubmits, InUseElsewhere, Present
  <2>2. form' \in [Forms -> [token : Tokens \cup {None}, for : Entries \cup {None}]]
    BY <1>0, <2>1 DEF TypeOK
  <2>3. \A g \in Forms : form'[g] # form[g] => form'[g].token = token
    BY <1>0, <2>1 DEF TypeOK
  <2> QED
    BY <1>0, <2>1, <2>2, <2>3, FormsChange DEF TypeOK
<1>4. ASSUME NEW f \in Forms, NEW e \in Entries, EntryCreated(f, e) PROVE IInv'
  <2> DEFINE token == form[f].token
             it == [data |-> token, options |-> None, unique |-> token]
  <2>1. Checking(f) /\ token \in Tokens /\ form[f].for = None
    BY <1>0, <1>4 DEF EntryCreated, Checking, TypeOK
  <2>2. it \in Entry /\ Current(it) = token /\ it.unique = token
    BY <2>1, NoTokens DEF Entry, Current
  <2>3. /\ entry' = [entry EXCEPT ![e] = it] /\ Saved(token, f)
        /\ form' = FormsWithout(f, {e})
    BY <1>4 DEF EntryCreated
  <2>4. token \notin crossed => \A other \in Present \ {e} :
          token # Current(entry[other]) /\ token # entry[other].unique
    BY <2>1, NoName DEF IInv, ChecksSpare, Present
  <2>5. /\ form' \in [Forms -> [token : Tokens \cup {None}, for : Entries \cup {None}]]
        /\ \A g \in Forms : form'[g] \in {form[g], Closed}
        /\ form'[f] = Closed
    BY <1>0, <2>3, FormsClose
  <2>6. Current(it) = IF token = Blank THEN None ELSE token
    BY <2>1, <2>2, NoTokens
  <2>7. token \in Tokens \cup {Blank} /\ (token = Blank => it.unique # Blank)
    BY <2>1, NoTokens
  <2>8. token \in Tokens \ crossed => \A other \in Present \ {e} :
          token # Current(entry[other]) /\ token # entry[other].unique
    BY <2>4
  <2> HIDE DEF token, it
  <2> QED
    BY <2>2, <2>3, <2>5, <2>6, <2>7, <2>8, TokenSaved
<1>5. ASSUME NEW f \in Forms, NEW e \in Entries, NEW token \in Tokens,
             ReauthSubmits(f, e, token)
      PROVE  IInv'
  <2>1. /\ form' = [form EXCEPT ![f] = [token |-> token, for |-> e]]
        /\ UNCHANGED <<entry, crossed>>
        /\ token # Current(entry[e])
        /\ \A other \in Present \ {e} :
             token # Current(entry[other]) /\ token # entry[other].unique
    BY <1>5 DEF ReauthSubmits, InUseElsewhere
  <2>2. form' \in [Forms -> [token : Tokens \cup {None}, for : Entries \cup {None}]]
    BY <1>0, <2>1 DEF TypeOK
  <2>3. \A g \in Forms : form'[g] # form[g] => form'[g].token = token /\ form'[g].for = e
    BY <1>0, <2>1 DEF TypeOK
  <2> QED
    BY <1>0, <2>1, <2>2, <2>3, FormsChange DEF TypeOK
<1>6. ASSUME NEW e \in Entries, NEW typed \in Tokens \cup {Blank}, OptionsSaved(e, typed)
      PROVE  IInv'
  <2> DEFINE it == Configured(entry[e], typed)
  <2>1. e \in Present /\ entry[e] \in Entry
    BY <1>0, <1>6 DEF OptionsSaved, Present, TypeOK
  <2>2. it \in Entry /\ Current(it) = IF typed = Blank THEN None ELSE typed
    <3>1. PICK u \in Tokens \cup {None} : it = [entry[e] EXCEPT !.options = typed, !.unique = u]
      <4>1. CASE typed \in {Blank, Current(entry[e])}
        BY <2>1, <4>1 DEF Configured, Entry
      <4>2. CASE typed \notin {Blank, Current(entry[e])}
        BY <2>1, <4>2 DEF Configured, Entry
      <4> QED
        BY <4>1, <4>2
    <3> HIDE DEF it
    <3>2. it \in Entry /\ it.options = typed
      BY <2>1, <3>1 DEF Entry
    <3> QED
      BY <3>2, NoTokens DEF Current
  <2>3. it.unique = typed \/ it.unique = entry[e].unique
    BY <2>1 DEF Configured, Entry
  <2>4. typed = Blank => it.unique # Blank
    BY <2>1, NoTokens DEF Configured, Entry
  <2>5. /\ entry' = [entry EXCEPT ![e] = it] /\ Saved(typed, None)
        /\ form' = form
        /\ typed # Blank => \A other \in Present \ {e} :
             typed # Current(entry[other]) /\ typed # entry[other].unique
    BY <1>6 DEF OptionsSaved, InUseElsewhere
  <2>6. /\ form' \in [Forms -> [token : Tokens \cup {None}, for : Entries \cup {None}]]
        /\ \A g \in Forms : form'[g] \in {form[g], Closed}
    BY <1>0, <2>5 DEF TypeOK
  <2>7. typed \in Tokens \ crossed => \A other \in Present \ {e} :
          typed # Current(entry[other]) /\ typed # entry[other].unique
    BY <2>5, NoTokens
  <2> HIDE DEF it
  <2> QED
    BY <2>1, <2>2, <2>3, <2>4, <2>5, <2>6, <2>7, TokenSaved, NoName
<1>7. ASSUME NEW e \in Entries, EntryRemoved(e) PROVE IInv'
  <2>1. /\ form' = FormsWithout(None, {e}) /\ UNCHANGED crossed
        /\ entry' = [entry EXCEPT ![e] = None]
    BY <1>7 DEF EntryRemoved
  <2>2. entry' \in [Entries -> Entry \cup {None}]
    BY <1>0, <2>1 DEF TypeOK
  <2>3. \A other \in Entries : entry'[other] \in {entry[other], None}
    BY <1>0, <2>1 DEF TypeOK
  <2> QED
    BY <1>0, <2>1, <2>2, <2>3, FormsClose, FormsChange
<1>8. CASE UNCHANGED vars
  <2>1. UNCHANGED <<entry, form, crossed>>
    BY <1>8 DEF vars
  <2> QED
    BY <1>0, <2>1, FormsChange DEF TypeOK
<1> QED
  BY <1>1, <1>2, <1>3, <1>4, <1>5, <1>6, <1>7, <1>8 DEF Next

\* What the proofs below rest on, in every state of the flows.
THEOREM Invariance == Spec => []IInv
BY InitHolds, StepHolds, PTL DEF Spec

\* Two entries come to share a token, or a unique ID, only by one saving it
\* while the other one's form checks it, for any number of entries and forms.
THEOREM OneEntry == Spec => []OneEntryPerToken
<1>1. IInv => OneEntryPerToken
  BY DEF IInv
<1> QED
  BY Invariance, <1>1, PTL

\* No form checks, and so cuts off, the token an entry runs on, unless that
\* entry took it on while the check ran.
THEOREM SpareChecked == Spec => []ChecksSpareEntries
<1>1. IInv => ChecksSpareEntries
  BY DEF IInv, ChecksSpare, ChecksSpareEntries
<1> QED
  BY Invariance, <1>1, PTL

\* An answered prompt puts its entry on the token it was answered with,
\* whatever the options held.
THEOREM ReauthEffective == Spec => ReauthTakesEffect
<1>1. IInv => \A f \in Forms : ReauthDone(f) =>
        Current(entry'[form[f].for]) = form[f].token
  <2> SUFFICES ASSUME IInv, NEW f \in Forms, ReauthDone(f)
               PROVE  Current(entry'[form[f].for]) = form[f].token
    OBVIOUS
  <2>1. form[f].token \in Tokens /\ form[f].for \in Entries
    BY DEF IInv, TypeOK, ReauthDone, Checking
  <2>2. entry'[form[f].for] = Reauthed(entry[form[f].for], form[f].token)
    BY <2>1 DEF IInv, TypeOK, ReauthDone
  <2> QED
    BY <2>1, <2>2, NoTokens DEF Reauthed, Current
<1> QED
  BY Invariance, <1>1, PTL DEF ReauthTakesEffect
\* Entries and forms stay what they should be, for any number of them.
THEOREM TypeCorrect == Spec => []TypeOK
<1>1. IInv => TypeOK
  BY DEF IInv
<1> QED
  BY Invariance, <1>1, PTL

\* An entry that runs on another token than before, whichever form saved it,
\* has this token for its unique ID.
THEOREM UniqueIdFollows == Spec => UniqueFollows
<1> DEFINE Follows(e) == Current(entry'[e]) \notin {Current(entry[e]), None} =>
                           entry'[e].unique = Current(entry'[e])
<1>1. IInv /\ [Next]_vars => [\A e \in Present \cap Present' : Follows(e)]_vars
  <2> SUFFICES ASSUME IInv, Next, NEW e \in Present \cap Present'
               PROVE  Follows(e)
    OBVIOUS
  <2>0. e \in Entries /\ entry \in [Entries -> Entry \cup {None}] /\ entry[e] # None
    BY DEF IInv, TypeOK, Present
  <2>1. CASE entry'[e] = entry[e]
    BY <2>1
  <2>2. ASSUME NEW f \in Forms, NEW x \in Entries, EntryCreated(f, x) PROVE Follows(e)
    <3>1. CASE x = e
      BY <2>0, <2>2, <3>1 DEF EntryCreated, Current
    <3>2. CASE x # e
      BY <2>0, <2>1, <2>2, <3>2 DEF EntryCreated
    <3> QED
      BY <3>1, <3>2
  <2>3. ASSUME NEW f \in Forms, ReauthDone(f) PROVE Follows(e)
    <3>1. CASE form[f].for = e
      <4>1. entry'[e] = Reauthed(entry[e], form[f].token)
        BY <2>0, <2>3, <3>1 DEF ReauthDone
      <4>2. form[f].token \in Tokens
        BY <2>3 DEF IInv, TypeOK, ReauthDone, Checking
      <4> QED
        BY <4>1, <4>2, NoTokens DEF Reauthed, Current
    <3>2. CASE form[f].for # e
      BY <2>0, <2>1, <2>3, <3>2 DEF ReauthDone
    <3> QED
      BY <3>1, <3>2
  <2>4. ASSUME NEW x \in Entries, NEW typed \in Tokens \cup {Blank}, OptionsSaved(x, typed)
        PROVE  Follows(e)
    <3>1. CASE x = e
      <4>1. entry'[e] = Configured(entry[e], typed) /\ entry[e] \in Entry
        BY <2>0, <2>4, <3>1 DEF OptionsSaved
      <4> QED
        BY <4>1, NoTokens DEF Configured, Current, Entry
    <3>2. CASE x # e
      BY <2>0, <2>1, <2>4, <3>2 DEF OptionsSaved
    <3> QED
      BY <3>1, <3>2
  <2>5. ASSUME NEW x \in Entries, EntryRemoved(x) PROVE Follows(e)
    <3>1. x # e
      BY <2>0, <2>5 DEF EntryRemoved, Present
    <3> QED
      BY <2>0, <2>1, <2>5, <3>1 DEF EntryRemoved
  <2>6. CASE UNCHANGED entry
    BY <2>1, <2>6
  <2> HIDE DEF Follows
  <2> QED
    BY <2>2, <2>3, <2>4, <2>5, <2>6 DEF Next, ProbeFails, UserSubmits, ReauthSubmits
<1> QED
  BY Invariance, <1>1, PTL DEF Spec, UniqueFollows

=============================================================================
