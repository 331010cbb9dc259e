--------------------------- MODULE CommandsProofs ---------------------------
(***************************************************************************)
(* What is proved of Commands for any number of requests, any length of a  *)
(* batch, any interval and any bounds.                                     *)
(***************************************************************************)
EXTENDS Commands, FiniteSetTheorems, SequenceTheorems, TLAPS

-----------------------------------------------------------------------------
(***************************************************************************)
(* Jobs and their records.                                                 *)
(***************************************************************************)
JobRecords == [kind : Kinds \cup {None},
               place : Places, entity : Entities \cup {None},
               target : States \cup {None}, timer : Nat, left : Nat,
               pulse : 0..PulseInterval, seen : States \cup {Gone, None},
               result : States \cup {Gone, None, "ok", "error", "raised"}]
Lists == Seq(Types \cup {MATCH_ALL})
Rows == Nat \X Nat
TapRecords == [types : Lists, listens : Lists, max : 0..MaxTapEvents, fired : Nat,
               waiting : SUBSET Rows, writing : SUBSET Rows, captured : Seq(Rows),
               truncated : BOOLEAN]

LEMMA JobIs ==
  ASSUME NEW j \in Jobs
  PROVE  /\ j[1] \in Requests /\ j[2] \in 0..MaxCommands
         /\ IsMember(j) => j \in Members(j[1]) /\ j # Own(j[1])
         /\ ~IsMember(j) => j = Own(j[1])
BY CommandsAssumption DEF Jobs, IsMember, Members, Own

LEMMA RequestIs ==
  ASSUME NEW r \in Requests
  PROVE  /\ Own(r) \in Jobs /\ ~IsMember(Own(r)) /\ Own(r)[1] = r
         /\ Members(r) \subseteq Jobs /\ Own(r) \notin Members(r)
         /\ \A j \in Members(r) : j[1] = r /\ IsMember(j)
BY CommandsAssumption DEF Jobs, IsMember, Members, Own

LEMMA MembersFinite ==
  ASSUME NEW r
  PROVE  IsFiniteSet(Members(r))
<1>1. IsFiniteSet({r})
  BY FS_Singleton
<1>2. IsFiniteSet(1..MaxCommands)
  <2>1. 1 \in Int /\ MaxCommands \in Int
    BY CommandsAssumption
  <2> QED
    BY <2>1, FS_Interval
<1> QED
  BY <1>1, <1>2, FS_Product DEF Members

\* What the place of a job says of the rest of it.
Fits(w) ==
  /\ w.place = "gathering" => w.kind = "batch"
  /\ w.kind = "batch" => w.place \in {"gathering", "ended", "cancelled"}
  /\ w.place = "tapping" => w.kind = "tap"
  /\ w.place \in {"polling", "pulsing"} => w.kind = "wait" /\ w.seen # w.target
  /\ w.kind = "wait" /\ w.place \in {"calling", "polling", "pulsing"} =>
       w.entity \in Entities /\ w.target \in States

Busy(w) == w.place \in {"calling", "polling", "pulsing", "tapping"}

\* The longest silence before a pulse is due and its poll has come.
Budget == ServiceTime + PulseInterval + PollInterval

\* The silence so far and the time left of what the request is suspended in.
Hushed(w, q) ==
  /\ w.place # "queued" /\ (w.place = "none" => q = 0)
  /\ w.place = "calling" => q + w.timer <= ServiceTime
  /\ w.place = "tapping" => q + w.timer <= MaxDuration
  /\ w.place = "pulsing" => q + w.timer <= Budget + MaxStall
  /\ w.place = "polling" => q + w.timer <= Budget
  /\ w.place = "polling" /\ w.pulse < PulseInterval => q <= ServiceTime + w.pulse
  /\ w.kind # "batch" => q <= SilenceLimit

\* A service call, the time to the next pulse, a poll and a pulse that stays
\* suspended fit into the limit, and so does the longest tap.
Quick == Budget + MaxStall <= SilenceLimit /\ MaxDuration <= SilenceLimit

-----------------------------------------------------------------------------
(***************************************************************************)
(* The invariant.                                                          *)
(***************************************************************************)
Typed ==
  /\ job \in [Jobs -> JobRecords]
  /\ tap \in [Jobs -> TapRecords]
  /\ limit \in [Requests -> 0..MaxConcurrency]
  /\ free \in [Requests -> Nat]
  /\ quiet \in [Requests -> Nat]
  /\ state \in [Entities -> States \cup {Gone}]
  /\ allowed \in BOOLEAN

JobsFit == \A j \in Jobs : Fits(job[j])
TapsFit == \A j \in Jobs : job[j].place # "tapping" => tap[j].listens = <<>>
MembersOfBatches ==
  \A r \in Requests : job[Own(r)].kind # "batch" =>
    \A j \in Members(r) : job[j].place = "none"
Slots == \A r \in Requests : free[r] + Cardinality(Running(r)) = limit[r]
Silence == Quick => \A r \in Requests : Hushed(job[Own(r)], quiet[r])

IInv == Typed /\ JobsFit /\ TapsFit /\ MembersOfBatches /\ Slots /\ Silence

LEMMA RunningIs ==
  ASSUME NEW r
  PROVE  /\ Running(r) = {j \in Members(r) : Busy(job[j])}
         /\ IsFiniteSet(Running(r)) /\ Cardinality(Running(r)) \in Nat
<1>1. Running(r) = {j \in Members(r) : Busy(job[j])}
  BY DEF Running, Suspended, Busy
<1>2. Running(r) \subseteq Members(r)
  BY <1>1
<1> QED
  BY <1>1, <1>2, MembersFinite, FS_Subset, FS_CardinalityType

LEMMA IInvImplies ==
  IInv => TypeOK /\ SlotsAccounted /\ ListenersGone /\ (Quick => QuickRequestsHeard)
<1> SUFFICES ASSUME IInv
             PROVE  TypeOK /\ SlotsAccounted /\ ListenersGone /\ (Quick => QuickRequestsHeard)
  OBVIOUS
<1>1. free \in [Requests -> 0..MaxConcurrency]
  <2>1. ASSUME NEW r \in Requests PROVE free[r] \in 0..MaxConcurrency
    <3>1. Cardinality(Running(r)) \in Nat
      BY RunningIs
    <3>2. /\ free[r] \in Nat /\ limit[r] \in 0..MaxConcurrency
          /\ free[r] + Cardinality(Running(r)) = limit[r]
      BY DEF IInv, Typed, Slots
    <3> QED
      BY <3>1, <3>2, CommandsAssumption
  <2> QED
    BY <2>1 DEF IInv, Typed
<1>2. TypeOK
  BY <1>1 DEF IInv, Typed, TypeOK, JobRecords, TapRecords, Lists, Rows
<1>3. SlotsAccounted
  BY DEF IInv, Slots, SlotsAccounted
<1>4. ListenersGone
  BY DEF IInv, TapsFit, ListenersGone
<1>5. Quick => QuickRequestsHeard
  BY DEF IInv, Silence, Hushed, QuickRequestsHeard
<1> QED
  BY <1>2, <1>3, <1>4, <1>5

LEMMA NoJobIs ==
  /\ NoJob \in JobRecords /\ Fits(NoJob) /\ NoJob.place = "none" /\ NoJob.kind = None
  /\ None # "batch"
  /\ NoTap \in TapRecords /\ NoTap.listens = <<>>
<1>1. NoJob \in JobRecords /\ None # "batch"
  BY WaitAssumption, CommandsAssumption DEF NoJob, JobRecords, Places, Kinds
<1>2. NoTap \in TapRecords
  <2>1. <<>> \in Lists /\ <<>> \in Seq(Rows)
    BY DEF Lists
  <2> QED
    BY <2>1, TapAssumption DEF NoTap, TapRecords
<1>3. NoJob.place = "none" /\ NoJob.kind = None /\ NoTap.listens = <<>>
  BY DEF NoJob, NoTap
<1> QED
  BY <1>1, <1>2, <1>3 DEF Fits

LEMMA InitIInv == Init => IInv
<1> SUFFICES ASSUME Init PROVE IInv
  OBVIOUS
<1>1. /\ job = [j \in Jobs |-> NoJob] /\ tap = [j \in Jobs |-> NoTap]
      /\ limit = [r \in Requests |-> 0] /\ free = [r \in Requests |-> 0]
      /\ quiet = [r \in Requests |-> 0]
  BY DEF Init
<1>2. Typed
  BY <1>1, NoJobIs, CommandsAssumption DEF Init, Typed
<1>3. JobsFit /\ TapsFit /\ MembersOfBatches
  <2>1. \A r \in Requests : Members(r) \subseteq Jobs
    BY RequestIs
  <2> QED
    BY <1>1, <2>1, NoJobIs DEF JobsFit, TapsFit, MembersOfBatches
<1>4. Slots
  <2>1. ASSUME NEW r \in Requests PROVE free[r] + Cardinality(Running(r)) = limit[r]
    <3>1. Running(r) = {}
      BY <1>1, NoJobIs, RequestIs, RunningIs DEF Busy
    <3> QED
      BY <1>1, <3>1, FS_EmptySet
  <2> QED
    BY <2>1 DEF Slots
<1>5. Silence
  BY <1>1, NoJobIs, RequestIs, CommandsAssumption, TapAssumption DEF Silence, Hushed, Quick
<1> QED
  BY <1>2, <1>3, <1>4, <1>5 DEF IInv

-----------------------------------------------------------------------------
(***************************************************************************)
(* A step of one job.                                                      *)
(***************************************************************************)

\* The slots after job j has become v.
SlotOf(j, v) ==
  \/ free' = free /\ (Busy(v) <=> Busy(job[j]))
  \/ free' = Taken(j) /\ Busy(v) /\ ~Busy(job[j]) /\ (IsMember(j) => free[j[1]] > 0)
  \/ /\ free' = IF IsMember(j) THEN [free EXCEPT ![j[1]] = @ + 1] ELSE free
     /\ ~Busy(v) /\ (IsMember(j) => Busy(job[j]))

LEMMA SlotsKept ==
  ASSUME IInv, NEW j \in Jobs, NEW v, job' = [job EXCEPT ![j] = v], SlotOf(j, v),
         UNCHANGED limit
  PROVE  Slots' /\ free' \in [Requests -> Nat]
<1>1. /\ job \in [Jobs -> JobRecords] /\ free \in [Requests -> Nat]
      /\ j[1] \in Requests
  BY JobIs DEF IInv, Typed
<1>2. /\ job'[j] = v /\ \A k \in Jobs \ {j} : job'[k] = job[k]
  BY <1>1
<1>3. free' \in [Requests -> Nat]
  BY <1>1 DEF SlotOf, Taken
<1>4. ASSUME NEW r \in Requests PROVE (free[r] + Cardinality(Running(r)) = limit[r])'
  <2> DEFINE before == Running(r)
             after == Running(r)'
  <2>1. /\ before = {k \in Members(r) : Busy(job[k])} /\ after = {k \in Members(r) : Busy(job'[k])}
        /\ IsFiniteSet(before) /\ Cardinality(before) \in Nat
    <3>1. after = {k \in Members(r) : Busy(job'[k])}
      BY DEF Running, Suspended, Busy
    <3> QED
      BY <3>1, RunningIs
  <2>2. free[r] + Cardinality(before) = limit[r] /\ limit'[r] = limit[r]
    BY DEF IInv, Slots
  <2>3. \A k \in Members(r) : k \in Jobs /\ k[1] = r /\ IsMember(k)
    BY RequestIs
  <2>4. CASE j \notin Members(r)
    <3>1. after = before
      BY <1>2, <2>1, <2>3, <2>4
    <3>2. free'[r] = free[r]
      <4>1. IsMember(j) => j[1] # r
        BY <2>4, JobIs
      <4> QED
        BY <1>1, <4>1 DEF SlotOf, Taken
    <3> HIDE DEF before, after
    <3>3. Running(r)' = Running(r)
      BY <3>1 DEF before, after
    <3> QED
      BY <2>2, <3>2, <3>3 DEF before
  <2>5. CASE j \in Members(r)
    <3>1. j[1] = r /\ IsMember(j)
      BY <2>3, <2>5
    <3> HIDE DEF before, after
    <3>2. CASE free' = free /\ (Busy(v) <=> Busy(job[j]))
      <4>1. after = before
        BY <1>2, <2>1, <2>3, <3>2
      <4>2. free'[r] + Cardinality(after) = limit'[r]
        BY <2>2, <3>2, <4>1
      <4> QED
        BY <4>2 DEF after
    <3>3. CASE free' = Taken(j) /\ Busy(v) /\ ~Busy(job[j]) /\ free[r] > 0
      <4>1. after = before \cup {j} /\ j \notin before
        BY <1>2, <2>1, <2>3, <2>5, <3>3
      <4>2. Cardinality(after) = Cardinality(before) + 1
        BY <2>1, <4>1, FS_AddElement
      <4>3. free'[r] = free[r] - 1
        BY <1>1, <3>1, <3>3 DEF Taken
      <4>4. free'[r] + Cardinality(after) = limit'[r]
        BY <1>1, <2>1, <2>2, <4>2, <4>3
      <4> QED
        BY <4>4 DEF after
    <3>4. CASE free' = [free EXCEPT ![r] = @ + 1] /\ ~Busy(v) /\ Busy(job[j])
      <4>1. after = before \ {j} /\ j \in before
        BY <1>2, <2>1, <2>3, <2>5, <3>4
      <4>2. Cardinality(after) = Cardinality(before) - 1
        <5>1. before = after \cup {j} /\ j \notin after /\ after \subseteq before
          BY <4>1
        <5>2. IsFiniteSet(after) /\ Cardinality(after) \in Nat
          BY <2>1, <5>1, FS_Subset, FS_CardinalityType
        <5>3. Cardinality(before) = Cardinality(after) + 1
          BY <5>1, <5>2, FS_AddElement
        <5> QED
          BY <5>2, <5>3
      <4>3. free'[r] = free[r] + 1
        BY <1>1, <3>4
      <4>4. free'[r] + Cardinality(after) = limit'[r]
        BY <1>1, <2>1, <2>2, <4>2, <4>3
      <4> QED
        BY <4>4 DEF after
    <3> QED
      BY <3>1, <3>2, <3>3, <3>4 DEF SlotOf
  <2> QED
    BY <2>4, <2>5
<1> QED
  BY <1>3, <1>4 DEF Slots

LEMMA HushedAnew ==
  ASSUME NEW w \in JobRecords, NEW q \in Nat, Hushed(w, q)
  PROVE  Hushed(w, 0)
<1>1. w.timer \in Nat /\ w.pulse \in Nat
  BY WaitAssumption DEF JobRecords
<1> QED
  BY <1>1, WaitAssumption, TapAssumption, CommandsAssumption DEF Hushed, Budget

\* Job j, which may not be a command nobody asked for, becomes v.
LEMMA OneJob ==
  ASSUME IInv, NEW j \in Jobs, NEW v \in JobRecords, job' = [job EXCEPT ![j] = v], Fits(v),
         tap' \in [Jobs -> TapRecords], v.place # "tapping" => tap'[j].listens = <<>>,
         \A k \in Jobs \ {j} : tap'[k] = tap[k],
         UNCHANGED <<limit, state, allowed>>, SlotOf(j, v),
         quiet' = quiet \/ quiet' = [quiet EXCEPT ![j[1]] = 0],
         IsMember(j) => job[j].place # "none",
         ~IsMember(j) => (v.kind = "batch" <=> job[j].kind = "batch"),
         Quick /\ ~IsMember(j) => Hushed(v, quiet'[j[1]])
  PROVE  IInv'
<1>1. /\ job \in [Jobs -> JobRecords] /\ quiet \in [Requests -> Nat] /\ j[1] \in Requests
  BY JobIs DEF IInv, Typed
<1>2. /\ job'[j] = v /\ \A k \in Jobs \ {j} : job'[k] = job[k]
      /\ job' \in [Jobs -> JobRecords]
  BY <1>1
<1>3. Slots' /\ free' \in [Requests -> Nat]
  BY SlotsKept
<1>4. Typed'
  <2>1. quiet' \in [Requests -> Nat]
    BY <1>1
  <2>2. limit' \in [Requests -> 0..MaxConcurrency] /\ allowed' \in BOOLEAN
        /\ state' \in [Entities -> States \cup {Gone}]
    BY DEF IInv, Typed
  <2> QED
    BY <1>2, <1>3, <2>1, <2>2 DEF Typed
<1>5. JobsFit'
  BY <1>2 DEF IInv, JobsFit
<1>6. TapsFit'
  BY <1>2 DEF IInv, TapsFit
<1>7. MembersOfBatches'
  <2>1. SUFFICES ASSUME NEW r \in Requests, job'[Own(r)].kind # "batch", NEW k \in Members(r)
                 PROVE  job'[k].place = "none"
    BY DEF MembersOfBatches
  <2>2. /\ Own(r) \in Jobs /\ k \in Jobs /\ k # Own(r) /\ k[1] = r /\ IsMember(k)
        /\ ~IsMember(Own(r)) /\ Own(r)[1] = r
    BY RequestIs
  <2>3. job[Own(r)].kind # "batch" => job[k].place = "none"
    BY DEF IInv, MembersOfBatches
  <2>4. CASE j = Own(r)
    BY <1>2, <2>1, <2>2, <2>3, <2>4
  <2>5. CASE j # Own(r)
    BY <1>2, <2>1, <2>2, <2>3, <2>5
  <2> QED
    BY <2>4, <2>5
<1>8. Silence'
  <2>1. SUFFICES ASSUME Quick, NEW r \in Requests PROVE Hushed(job'[Own(r)], quiet'[r])
    BY DEF Silence, Quick
  <2>2. Own(r) \in Jobs /\ ~IsMember(Own(r)) /\ Own(r)[1] = r
    BY RequestIs
  <2>3. CASE j = Own(r)
    BY <1>2, <2>1, <2>2, <2>3
  <2>4. CASE j # Own(r)
    <3>1. quiet'[r] \in {quiet[r], 0}
      BY <1>1, <2>4
    <3>2. Hushed(job[Own(r)], quiet[r])
      BY <2>1 DEF IInv, Silence
    <3>3. Hushed(job[Own(r)], 0)
      BY <1>1, <2>2, <3>2, HushedAnew
    <3> QED
      BY <1>2, <2>2, <2>4, <3>1, <3>2, <3>3
  <2> QED
    BY <2>3, <2>4
<1> QED
  BY <1>3, <1>4, <1>5, <1>6, <1>7, <1>8 DEF IInv

-----------------------------------------------------------------------------
(***************************************************************************)
(* The steps of a job that keep the taps.                                  *)
(***************************************************************************)

\* The record of a job that has ended.
LEMMA EndedIs ==
  ASSUME IInv, NEW j \in Jobs, job[j].place # "none", job[j].place # "queued",
         NEW result \in States \cup {Gone, None, "ok", "error"}
  PROVE  /\ Ended(j, result) \in JobRecords
         /\ Ended(j, result).kind = job[j].kind /\ Ended(j, result).place = "ended"
         /\ Ended(j, result).result = result
         /\ Fits(Ended(j, result)) /\ ~Busy(Ended(j, result))
<1>1. job[j] \in JobRecords /\ NoJob \in JobRecords
  BY NoJobIs DEF IInv, Typed
<1>2. Ended(j, result) \in JobRecords
  BY <1>1 DEF Ended, JobRecords, Places
<1>3. /\ Ended(j, result).kind = job[j].kind /\ Ended(j, result).place = "ended"
      /\ Ended(j, result).result = result
  BY DEF Ended, NoJob
<1> QED
  BY <1>2, <1>3 DEF Fits, Busy

LEMMA EndSteps ==
  ASSUME IInv, NEW j \in Jobs, NEW result \in States \cup {Gone, None, "ok", "error"},
         Ends(j, result), Busy(job[j]) \/ (job[j].place = "gathering" /\ ~IsMember(j)),
         tap' \in [Jobs -> TapRecords], tap'[j].listens = <<>>,
         \A k \in Jobs \ {j} : tap'[k] = tap[k]
  PROVE  IInv'
<1> DEFINE v == Ended(j, result)
<1>1. /\ v \in JobRecords /\ v.kind = job[j].kind /\ v.place = "ended"
      /\ Fits(v) /\ ~Busy(v)
  BY EndedIs DEF Busy
<1>2. /\ job' = [job EXCEPT ![j] = v] /\ UNCHANGED <<limit, quiet, state, allowed>>
      /\ free' = IF IsMember(j) THEN [free EXCEPT ![j[1]] = @ + 1] ELSE free
  BY DEF Ends, Given
<1> HIDE DEF v
<1>3. SlotOf(j, v)
  BY <1>1, <1>2 DEF SlotOf
<1>4. ASSUME Quick, ~IsMember(j) PROVE Hushed(v, quiet'[j[1]])
  <2>1. j = Own(j[1]) /\ j[1] \in Requests
    BY <1>4, JobIs
  <2>2. Hushed(job[j], quiet[j[1]])
    BY <1>4, <2>1 DEF IInv, Silence
  <2> QED
    BY <1>1, <1>2, <2>2 DEF Hushed
<1>5. IsMember(j) => job[j].place # "none"
  BY DEF Busy
<1> QED
  BY <1>1, <1>2, <1>3, <1>4, <1>5, OneJob

LEMMA ReadIs ==
  ASSUME IInv, NEW j \in Jobs, job[j].kind = "wait", Busy(job[j])
  PROVE  Read(j) \in States \cup {Gone} /\ job[j].target \in States
<1>1. job[j].entity \in Entities /\ job[j].target \in States
  BY DEF IInv, JobsFit, Fits, Busy
<1> QED
  BY <1>1 DEF IInv, Typed, Read

\* A job that may begin.
LEMMA ReadyIs ==
  ASSUME IInv, NEW j \in Jobs, Ready(j)
  PROVE  /\ ~Busy(job[j]) /\ job[j].kind # "batch" /\ tap[j].listens = <<>>
         /\ IsMember(j) => job[j].place # "none" /\ free[j[1]] > 0
         /\ Quick /\ ~IsMember(j) => quiet[j[1]] = 0
<1>1. /\ job[j].place \in {"none", "queued"}
      /\ IsMember(j) => job[j].place = "queued" /\ free[j[1]] > 0
      /\ ~IsMember(j) => job[j].place = "none"
  BY DEF Ready
<1>2. Fits(job[j]) /\ (job[j].place # "tapping" => tap[j].listens = <<>>)
  BY DEF IInv, JobsFit, TapsFit
<1>3. Quick /\ ~IsMember(j) => Hushed(job[j], quiet[j[1]])
  BY JobIs DEF IInv, Silence
<1> QED
  BY <1>1, <1>2, <1>3 DEF Busy, Fits, Hushed

\* What the tap operators make of a tap.
LEMMA OpenedIs ==
  ASSUME NEW c \in Taps
  PROVE  /\ Opened(c) \in TapRecords
         /\ Opened(c).types = c.types /\ Opened(c).listens = Listeners(c.types)
         /\ Opened(c).max = TapMaxEvents(c.max) /\ Opened(c).fired = 0
         /\ Opened(c).waiting = {} /\ Opened(c).writing = {} /\ Opened(c).captured = <<>>
         /\ Opened(c).truncated = FALSE
<1>1. c.types \in Lists /\ c.max \in 1..MaxWanted
  BY CommandsAssumption DEF Taps, Lists
<1>2. TapMaxEvents(c.max) \in 0..MaxTapEvents
  BY <1>1, TapAssumption, CommandsAssumption DEF TapMaxEvents, AtMost
<1>3. Listeners(c.types) \in Lists
  <2>1. <<MATCH_ALL>> \in Lists
    BY DEF Lists
  <2> QED
    BY <1>1, <2>1 DEF Listeners
<1>4. NoTap \in TapRecords
  BY NoJobIs
<1> QED
  BY <1>1, <1>2, <1>3, <1>4 DEF Opened, NoTap, TapRecords

LEMMA ClosedIs ==
  ASSUME NEW t \in TapRecords
  PROVE  /\ Closed(t) \in TapRecords /\ Closed(t).listens = <<>>
         /\ Closed(t).max = t.max /\ Closed(t).fired = t.fired
         /\ Closed(t).waiting = t.waiting /\ Closed(t).writing = t.writing
         /\ Closed(t).captured = t.captured /\ Closed(t).truncated = t.truncated
<1>1. <<>> \in Lists
  BY DEF Lists
<1> QED
  BY <1>1 DEF Closed, TapRecords

LEMMA HeardIs ==
  ASSUME NEW listens \in Lists, NEW type, NEW n \in Nat
  PROVE  /\ Heard(listens, type, n) \subseteq Rows
         /\ \A row \in Heard(listens, type, n) : row[1] = n
<1>1. DOMAIN listens \subseteq Nat
  BY DEF Lists
<1> QED
  BY <1>1 DEF Heard, Rows

LEMMA TappedIs ==
  ASSUME NEW t \in TapRecords, NEW type, t.listens # <<>>
  PROVE  LET n == IF AskedFor(t.types, type) THEN t.fired + 1 ELSE t.fired
         IN  /\ Tapped(t, type) \in TapRecords
             /\ Tapped(t, type).types = t.types /\ Tapped(t, type).listens = t.listens
             /\ Tapped(t, type).max = t.max /\ Tapped(t, type).fired = n
             /\ Tapped(t, type).waiting = t.waiting \cup Heard(t.listens, type, n)
             /\ Tapped(t, type).writing = t.writing /\ Tapped(t, type).captured = t.captured
             /\ Tapped(t, type).truncated = t.truncated
<1> DEFINE n == IF AskedFor(t.types, type) THEN t.fired + 1 ELSE t.fired
           w == t.waiting \cup Heard(t.listens, type, n)
<1>1. n \in Nat
  BY DEF TapRecords
<1>2. Tapped(t, type) = [t EXCEPT !.fired = n, !.waiting = w]
  BY DEF Tapped
<1> HIDE DEF n
<1>3. w \in SUBSET Rows
  BY <1>1, HeardIs DEF TapRecords
<1> HIDE DEF w
<1>4. /\ Tapped(t, type) \in TapRecords
      /\ Tapped(t, type).types = t.types /\ Tapped(t, type).listens = t.listens
      /\ Tapped(t, type).max = t.max /\ Tapped(t, type).fired = n
      /\ Tapped(t, type).waiting = w
      /\ Tapped(t, type).writing = t.writing /\ Tapped(t, type).captured = t.captured
      /\ Tapped(t, type).truncated = t.truncated
  BY <1>1, <1>2, <1>3 DEF TapRecords
<1> QED
  BY <1>4 DEF n, w

LEMMA CheckedIs ==
  ASSUME NEW t \in TapRecords, NEW row \in t.waiting
  PROVE  /\ Checked(t, row) \in TapRecords
         /\ Checked(t, row).types = t.types /\ Checked(t, row).listens = t.listens
         /\ Checked(t, row).max = t.max /\ Checked(t, row).fired = t.fired
         /\ Checked(t, row).waiting = t.waiting \ {row}
         /\ Checked(t, row).writing = IF HasRoom(t) THEN t.writing \cup {row} ELSE t.writing
         /\ Checked(t, row).captured = t.captured
         /\ Checked(t, row).truncated = (t.truncated \/ ~HasRoom(t))
<1> DEFINE a == t.waiting \ {row}
           b == IF HasRoom(t) THEN t.writing \cup {row} ELSE t.writing
           c == t.truncated \/ ~HasRoom(t)
<1>1. a \in SUBSET Rows /\ b \in SUBSET Rows /\ c \in BOOLEAN
  BY DEF TapRecords
<1>2. Checked(t, row) = [t EXCEPT !.waiting = a, !.writing = b, !.truncated = c]
  BY DEF Checked
<1> HIDE DEF a, b, c
<1>3. /\ Checked(t, row) \in TapRecords
      /\ Checked(t, row).types = t.types /\ Checked(t, row).listens = t.listens
      /\ Checked(t, row).max = t.max /\ Checked(t, row).fired = t.fired
      /\ Checked(t, row).waiting = a /\ Checked(t, row).writing = b
      /\ Checked(t, row).captured = t.captured /\ Checked(t, row).truncated = c
  BY <1>1, <1>2 DEF TapRecords
<1> QED
  BY <1>3 DEF a, b, c

LEMMA WrittenIs ==
  ASSUME NEW t \in TapRecords, NEW row \in t.writing
  PROVE  /\ Written(t, row) \in TapRecords
         /\ Written(t, row).types = t.types /\ Written(t, row).listens = t.listens
         /\ Written(t, row).max = t.max /\ Written(t, row).fired = t.fired
         /\ Written(t, row).waiting = t.waiting /\ Written(t, row).writing = t.writing \ {row}
         /\ Written(t, row).captured = Append(t.captured, row)
         /\ Written(t, row).truncated = t.truncated
<1>1. row \in Rows /\ t.captured \in Seq(Rows) /\ t.writing \ {row} \in SUBSET Rows
  BY DEF TapRecords
<1>2. Append(t.captured, row) \in Seq(Rows)
  BY <1>1, AppendProperties
<1> QED
  BY <1>1, <1>2 DEF Written, TapRecords

LEMMA StartSteps ==
  ASSUME IInv, NEW j \in Jobs, Starts(j)
  PROVE  IInv'
<1>1. /\ NoJob \in JobRecords /\ None # "batch" /\ tap \in [Jobs -> TapRecords]
      /\ ServiceTime \in Nat /\ SilenceLimit \in Nat
  BY NoJobIs, CommandsAssumption DEF IInv, Typed
<1>2. ASSUME NEW c \in Plain, c.kind \in {"bad", "read"}, Immediate(j, c) PROVE IInv'
  <2> DEFINE v == [NoJob EXCEPT !.kind = c.kind, !.place = "ended",
                                !.result = IF c.kind = "bad" THEN "error" ELSE "ok"]
  <2>1. /\ job' = [job EXCEPT ![j] = v] /\ Ready(j)
        /\ UNCHANGED <<tap, limit, free, quiet, state, allowed>>
    BY <1>2 DEF Immediate
  <2>2. v \in JobRecords
    BY <1>1, <1>2 DEF JobRecords, Places, Kinds
  <2>3. v.kind = c.kind /\ v.place = "ended"
    BY DEF NoJob
  <2> HIDE DEF v
  <2>4. Fits(v) /\ ~Busy(v) /\ v.kind # "batch" /\ v.place # "tapping"
    BY <1>2, <2>3 DEF Fits, Busy
  <2>5. SlotOf(j, v)
    BY <2>1, <2>4, ReadyIs DEF SlotOf
  <2>6. ASSUME Quick, ~IsMember(j) PROVE Hushed(v, quiet'[j[1]])
    <3>1. quiet'[j[1]] = 0
      BY <2>1, <2>6, ReadyIs
    <3> QED
      BY <1>1, <2>3, <3>1 DEF Hushed
  <2>7. tap' = tap /\ tap[j].listens = <<>> /\ quiet' = quiet
        /\ (IsMember(j) => job[j].place # "none") /\ job[j].kind # "batch"
    BY <2>1, ReadyIs
  <2> QED
    BY <1>1, <2>1, <2>2, <2>4, <2>5, <2>6, <2>7, OneJob
<1>3. ASSUME NEW c, Calls(j, c),
             (c \in Plain /\ c.kind = "call") \/ c \in Waits
      PROVE  IInv'
  <2> DEFINE entity == IF c.kind = "wait" THEN c.entity ELSE None
             target == IF c.kind = "wait" THEN c.target ELSE None
             v == [NoJob EXCEPT !.kind = c.kind, !.place = "calling", !.timer = ServiceTime,
                                !.entity = entity, !.target = target]
  <2>1. /\ job' = [job EXCEPT ![j] = v] /\ Ready(j) /\ free' = Taken(j)
        /\ UNCHANGED <<tap, limit, quiet, state, allowed>>
    BY <1>3 DEF Calls
  <2>2. /\ c.kind \in {"call", "wait"}
        /\ entity \in Entities \cup {None} /\ target \in States \cup {None}
        /\ c.kind = "wait" => entity \in Entities /\ target \in States
    BY <1>3, CommandsAssumption DEF Waits, Plain
  <2> HIDE DEF entity, target
  <2>3. v \in JobRecords
    BY <1>1, <2>2 DEF JobRecords, Places, Kinds
  <2>4. /\ v.kind = c.kind /\ v.place = "calling" /\ v.timer = ServiceTime
        /\ v.entity = entity /\ v.target = target
    BY DEF NoJob
  <2> HIDE DEF v
  <2>5. Fits(v) /\ Busy(v) /\ v.kind # "batch" /\ v.place # "tapping"
    BY <2>2, <2>4 DEF Fits, Busy
  <2>6. SlotOf(j, v)
    BY <2>1, <2>5, ReadyIs DEF SlotOf
  <2>7. ASSUME Quick, ~IsMember(j) PROVE Hushed(v, quiet'[j[1]])
    <3>1. quiet'[j[1]] = 0
      BY <2>1, <2>7, ReadyIs
    <3> QED
      BY <1>1, <2>4, <3>1 DEF Hushed
  <2>8. tap' = tap /\ tap[j].listens = <<>> /\ quiet' = quiet
        /\ (IsMember(j) => job[j].place # "none") /\ job[j].kind # "batch"
    BY <2>1, ReadyIs
  <2> QED
    BY <1>1, <2>1, <2>3, <2>5, <2>6, <2>7, <2>8, OneJob
<1>4. ASSUME NEW c \in Taps, TapOpens(j, c) PROVE IInv'
  <2> DEFINE v == [NoJob EXCEPT !.kind = "tap", !.place = "tapping",
                                !.timer = TapDuration(c.duration)]
  <2>1. /\ job' = [job EXCEPT ![j] = v] /\ Ready(j) /\ free' = Taken(j)
        /\ tap' = [tap EXCEPT ![j] = Opened(c)]
        /\ UNCHANGED <<limit, quiet, state, allowed>>
    BY <1>4 DEF TapOpens
  <2>2. TapDuration(c.duration) \in Nat /\ TapDuration(c.duration) <= MaxDuration
    <3>1. c.duration \in Nat
      BY CommandsAssumption DEF Taps
    <3> QED
      BY <3>1, TapAssumption DEF TapDuration, AtMost
  <2>3. v \in JobRecords
    BY <1>1, <2>2 DEF JobRecords, Places, Kinds
  <2>4. v.kind = "tap" /\ v.place = "tapping" /\ v.timer = TapDuration(c.duration)
    BY DEF NoJob
  <2> HIDE DEF v
  <2>5. Fits(v) /\ Busy(v) /\ v.kind # "batch"
    BY <2>4 DEF Fits, Busy
  <2>6. SlotOf(j, v)
    BY <2>1, <2>5, ReadyIs DEF SlotOf
  <2>7. ASSUME Quick, ~IsMember(j) PROVE Hushed(v, quiet'[j[1]])
    <3>1. quiet'[j[1]] = 0
      BY <2>1, <2>7, ReadyIs
    <3> QED
      BY <1>1, <2>2, <2>4, <3>1 DEF Hushed
  <2>8. Opened(c) \in TapRecords
    BY OpenedIs
  <2>9. tap' \in [Jobs -> TapRecords] /\ \A k \in Jobs \ {j} : tap'[k] = tap[k]
    BY <1>1, <2>1, <2>8
  <2>10. quiet' = quiet /\ (IsMember(j) => job[j].place # "none") /\ job[j].kind # "batch"
    BY <2>1, ReadyIs
  <2> QED
    BY <1>1, <2>1, <2>3, <2>4, <2>5, <2>6, <2>7, <2>9, <2>10, OneJob
<1> QED
  BY <1>2, <1>3, <1>4 DEF Starts

\* A wait goes on, in the round it is in or in the next.
LEMMA WaitSteps ==
  ASSUME IInv, NEW j \in Jobs, WaitBegins(j) \/ SendsPulse(j) \/ PollsOn(j) \/ PulseSent(j)
  PROVE  IInv'
<1> DEFINE w == job[j]
<1>1. /\ w \in JobRecords /\ Fits(w) /\ Busy(w) /\ tap \in [Jobs -> TapRecords]
      /\ w.kind = "wait" /\ tap[j].listens = <<>> /\ w.place \in {"calling", "polling", "pulsing"}
  <2>1. /\ w \in JobRecords /\ Fits(w) /\ tap \in [Jobs -> TapRecords]
        /\ w.place # "tapping" => tap[j].listens = <<>>
    BY DEF IInv, Typed, JobsFit, TapsFit
  <2>2. w.place \in {"calling", "polling", "pulsing"} /\ (w.place = "calling" => w.kind = "wait")
    BY DEF WaitBegins, SendsPulse, PollsOn, PulseSent, Polls
  <2> QED
    BY <2>1, <2>2 DEF Fits, Busy
<1>2. Read(j) \in States \cup {Gone} /\ w.target \in States
  BY <1>1, ReadIs
<1>3. /\ ServiceTime \in Nat /\ SilenceLimit \in Nat /\ PollInterval \in Nat
      /\ PulseInterval \in Nat /\ StateTimeout \in Nat /\ MaxStall \in Nat
  BY WaitAssumption, CommandsAssumption
<1>4. ASSUME Quick, ~IsMember(j) PROVE Hushed(w, quiet[j[1]]) /\ quiet[j[1]] \in Nat
  BY <1>4, JobIs DEF IInv, Silence, Typed
<1>5. /\ w.timer \in Nat /\ w.pulse \in 0..PulseInterval /\ w.kind # "batch"
  BY <1>1 DEF JobRecords
\* What each of them makes of the job suffices.
<1>6. ASSUME NEW v \in JobRecords, job' = [job EXCEPT ![j] = v],
             v.kind = "wait", v.place \in {"polling", "pulsing"}, v.seen # v.target,
             v.entity = w.entity, v.target = w.target,
             UNCHANGED <<tap, limit, free, state, allowed>>,
             quiet' = quiet \/ quiet' = [quiet EXCEPT ![j[1]] = 0],
             Quick /\ ~IsMember(j) => Hushed(v, quiet'[j[1]])
      PROVE  IInv'
  <2>1. Fits(v) /\ Busy(v) /\ v.kind # "batch" /\ w.place # "none"
    BY <1>1, <1>6 DEF Fits, Busy
  <2>2. SlotOf(j, v)
    BY <1>1, <1>6, <2>1 DEF SlotOf
  <2> QED
    BY <1>1, <1>5, <1>6, <2>1, <2>2, OneJob
<1>7. CASE WaitBegins(j)
  <2> DEFINE v == WaitBegun(w, Read(j))
  <2>1. /\ job' = [job EXCEPT ![j] = v] /\ w.place = "calling" /\ Read(j) # w.target
        /\ UNCHANGED <<tap, limit, free, quiet, state, allowed>>
    BY <1>7 DEF WaitBegins
  <2>2. v \in JobRecords
    <3>1. 0 \in 0..PulseInterval /\ Read(j) \in States \cup {Gone, None} /\ "polling" \in Places
      BY <1>2, <1>3 DEF Places
    <3> HIDE DEF w
    <3> QED
      BY <1>1, <1>3, <3>1 DEF WaitBegun, JobRecords
  <2>3. /\ v.kind = "wait" /\ v.place = "polling" /\ v.seen = Read(j) /\ v.target = w.target
        /\ v.entity = w.entity /\ v.timer = PollInterval /\ v.pulse = 0
    BY <1>1 DEF WaitBegun, JobRecords
  <2> HIDE DEF v
  <2>4. ASSUME Quick, ~IsMember(j) PROVE Hushed(v, quiet'[j[1]])
    <3> DEFINE q == quiet[j[1]]
    <3>1. q \in Nat /\ q <= ServiceTime /\ quiet' = quiet
      BY <1>3, <1>4, <1>5, <2>1, <2>4 DEF Hushed
    <3> HIDE DEF q
    <3>2. q + PollInterval <= Budget /\ q <= SilenceLimit /\ q <= ServiceTime + 0
      BY <1>3, <2>4, <3>1 DEF Quick, Budget
    <3>3. Hushed(v, q)
      BY <1>3, <2>3, <3>1, <3>2 DEF Hushed
    <3> QED
      BY <3>1, <3>3 DEF q
  <2> QED
    BY <1>6, <2>1, <2>2, <2>3, <2>4
<1>8. CASE SendsPulse(j)
  <2> DEFINE v == PolledJob(j)
  <2>1. /\ job' = [job EXCEPT ![j] = v] /\ w.place = "polling" /\ v.place = "pulsing"
        /\ Read(j) # w.target /\ w.timer = 0
        /\ UNCHANGED <<tap, limit, free, quiet, state, allowed>>
    BY <1>8 DEF SendsPulse, Polls
  <2>2. PulseDue(w, ~IsMember(j))
    BY <1>1, <2>1 DEF PolledJob, Polled, JobRecords
  <2>3. ~IsMember(j)
    BY <2>2 DEF PulseDue
  <2>4. v = [w EXCEPT !.place = "pulsing", !.timer = MaxStall, !.pulse = 0, !.seen = Read(j)]
    BY <2>2 DEF PolledJob, Polled
  <2> HIDE DEF v
  <2>5. v \in JobRecords
    <3>1. 0 \in 0..PulseInterval /\ Read(j) \in States \cup {Gone, None} /\ "pulsing" \in Places
      BY <1>2, <1>3 DEF Places
    <3> HIDE DEF w
    <3> QED
      BY <1>1, <1>3, <2>4, <3>1 DEF JobRecords
  <2>6. /\ v.kind = "wait" /\ v.place = "pulsing" /\ v.seen = Read(j) /\ v.target = w.target
        /\ v.entity = w.entity /\ v.timer = MaxStall /\ v.pulse = 0
    BY <1>1, <2>4 DEF JobRecords
  <2>7. ASSUME Quick PROVE Hushed(v, quiet'[j[1]])
    <3> DEFINE q == quiet[j[1]]
    <3>1. q \in Nat /\ q <= Budget /\ quiet' = quiet
      BY <1>4, <2>1, <2>3, <2>7 DEF Hushed
    <3> HIDE DEF q
    <3>2. q + MaxStall <= Budget + MaxStall /\ q <= SilenceLimit
      BY <1>3, <2>7, <3>1 DEF Quick, Budget
    <3>3. Hushed(v, q)
      BY <2>6, <3>2 DEF Hushed
    <3> QED
      BY <3>1, <3>3 DEF q
  <2> QED
    BY <1>6, <2>1, <2>3, <2>5, <2>6, <2>7
<1>9. CASE PollsOn(j)
  <2> DEFINE v == Again(PolledJob(j))
  <2>1. /\ job' = [job EXCEPT ![j] = v] /\ w.place = "polling" /\ PolledJob(j).place = "polling"
        /\ Read(j) # w.target /\ UNCHANGED <<tap, limit, free, quiet, state, allowed>>
    BY <1>9 DEF PollsOn, Polls
  <2>2. ~PulseDue(w, ~IsMember(j))
    BY <1>1, <2>1 DEF PolledJob, Polled, JobRecords
  <2>3. PolledJob(j) = [w EXCEPT !.seen = Read(j)]
    BY <2>2 DEF PolledJob, Polled
  <2>4. v = [w EXCEPT !.place = "polling", !.timer = PollInterval, !.seen = Read(j)]
    BY <1>1, <2>3 DEF Again, JobRecords
  <2> HIDE DEF v
  <2>5. v \in JobRecords
    BY <1>1, <1>2, <1>3, <2>4 DEF JobRecords, Places
  <2>6. /\ v.kind = "wait" /\ v.place = "polling" /\ v.seen = Read(j) /\ v.target = w.target
        /\ v.entity = w.entity /\ v.timer = PollInterval /\ v.pulse = w.pulse
    BY <1>1, <2>4 DEF JobRecords
  <2>7. ASSUME Quick, ~IsMember(j) PROVE Hushed(v, quiet'[j[1]])
    <3> DEFINE q == quiet[j[1]]
    <3>1. w.pulse < PulseInterval
      BY <1>3, <1>5, <2>2, <2>7 DEF PulseDue
    <3>2. q \in Nat /\ q <= ServiceTime + w.pulse /\ quiet' = quiet
      BY <1>4, <2>1, <2>7, <3>1 DEF Hushed
    <3> HIDE DEF q
    <3>3. q + PollInterval <= Budget /\ q <= SilenceLimit
      BY <1>3, <1>5, <2>7, <3>1, <3>2 DEF Quick, Budget
    <3>4. Hushed(v, q)
      BY <1>3, <2>6, <3>2, <3>3 DEF Hushed
    <3> QED
      BY <3>2, <3>4 DEF q
  <2> QED
    BY <1>6, <2>1, <2>5, <2>6, <2>7
<1>10. CASE PulseSent(j)
  <2> DEFINE v == Again(w)
  <2>1. /\ job' = [job EXCEPT ![j] = v] /\ w.place = "pulsing"
        /\ quiet' = [quiet EXCEPT ![j[1]] = 0]
        /\ UNCHANGED <<tap, limit, free, state, allowed>>
    BY <1>10 DEF PulseSent
  <2>2. v \in JobRecords
    BY <1>1, <1>3 DEF Again, JobRecords, Places
  <2>3. /\ v.kind = "wait" /\ v.place = "polling" /\ v.seen = w.seen /\ v.target = w.target
        /\ v.entity = w.entity /\ v.timer = PollInterval /\ v.pulse = w.pulse
    BY <1>1 DEF Again, JobRecords
  <2> HIDE DEF v
  <2>4. w.seen # w.target
    BY <1>1, <2>1 DEF Fits
  <2>5. ASSUME Quick PROVE Hushed(v, quiet'[j[1]])
    <3>1. quiet'[j[1]] = 0
      BY <2>1, JobIs DEF IInv, Typed
    <3>2. 0 + PollInterval <= Budget /\ 0 <= ServiceTime + w.pulse /\ 0 <= SilenceLimit
      BY <1>3, <1>5 DEF Budget
    <3> QED
      BY <2>3, <3>1, <3>2 DEF Hushed
  <2> QED
    BY <1>6, <2>1, <2>2, <2>3, <2>4, <2>5
<1> QED
  BY <1>7, <1>8, <1>9, <1>10

\* A job ends.
LEMMA ProceedSteps ==
  ASSUME IInv, NEW j \in Jobs, Proceeds(j)
  PROVE  IInv'
<1>1. CASE WaitBegins(j) \/ SendsPulse(j) \/ PollsOn(j) \/ PulseSent(j)
  BY <1>1, WaitSteps
<1>2. /\ job[j] \in JobRecords /\ Fits(job[j]) /\ tap \in [Jobs -> TapRecords]
      /\ job[j].place # "tapping" => tap[j].listens = <<>>
  BY DEF IInv, Typed, JobsFit, TapsFit
<1>3. ASSUME NEW result \in States \cup {Gone, None, "ok", "error"}, Ends(j, result),
             job[j].place \in {"calling", "polling", "pulsing"}, UNCHANGED tap
      PROVE  IInv'
  <2>1. Busy(job[j])
    BY <1>3 DEF Busy
  <2>2. tap' \in [Jobs -> TapRecords] /\ tap'[j].listens = <<>>
        /\ \A k \in Jobs \ {j} : tap'[k] = tap[k]
    BY <1>2, <1>3
  <2> QED
    BY <1>3, <2>1, <2>2, EndSteps
<1>4. CASE CallFails(j) \/ CallReturns(j)
  BY <1>3, <1>4 DEF CallFails, CallReturns
<1>5. CASE Reached(j)
  <2>1. /\ job[j].place \in {"calling", "polling"} /\ job[j].kind = "wait"
        /\ Ends(j, job[j].target) /\ UNCHANGED tap
    BY <1>2, <1>5 DEF Reached, Fits
  <2>2. job[j].target \in States
    BY <2>1, ReadIs DEF Busy
  <2> QED
    BY <1>3, <2>1, <2>2
<1>6. CASE GivesUp(j)
  <2>1. CASE Polls(j) /\ Ends(j, Read(j)) /\ UNCHANGED tap
    <3>1. job[j].place = "polling" /\ job[j].kind = "wait"
      BY <1>2, <2>1 DEF Polls, Fits
    <3>2. Read(j) \in States \cup {Gone}
      BY <3>1, ReadIs DEF Busy
    <3> QED
      BY <1>3, <2>1, <3>1, <3>2
  <2>2. CASE job[j].place = "pulsing" /\ Ends(j, job[j].seen) /\ UNCHANGED tap
    <3>1. job[j].seen \in States \cup {Gone, None}
      BY <1>2 DEF JobRecords
    <3> QED
      BY <1>3, <2>2, <3>1
  <2> QED
    BY <1>6, <2>1, <2>2 DEF GivesUp
<1>7. CASE TapEnds(j)
  <2>1. Ends(j, "ok") /\ tap' = [tap EXCEPT ![j] = Closed(tap[j])] /\ Busy(job[j])
    BY <1>7 DEF TapEnds, Busy
  <2>2. tap' \in [Jobs -> TapRecords] /\ tap'[j].listens = <<>>
        /\ \A k \in Jobs \ {j} : tap'[k] = tap[k]
    BY <1>2, <2>1, ClosedIs
  <2> QED
    BY <2>1, <2>2, EndSteps
<1> QED
  BY <1>1, <1>4, <1>5, <1>6, <1>7 DEF Proceeds

LEMMA BatchEndSteps ==
  ASSUME IInv, NEW r \in Requests, BatchEnds(r)
  PROVE  IInv'
<1>1. /\ Own(r) \in Jobs /\ ~IsMember(Own(r)) /\ job[Own(r)].place = "gathering"
      /\ Ends(Own(r), "ok") \/ Ends(Own(r), "error")
      /\ UNCHANGED tap
  BY RequestIs DEF BatchEnds
<1>2. tap \in [Jobs -> TapRecords] /\ tap[Own(r)].listens = <<>>
  BY <1>1 DEF IInv, Typed, TapsFit
<1> QED
  BY <1>1, <1>2, EndSteps

-----------------------------------------------------------------------------
(***************************************************************************)
(* The steps of a whole request, of Home Assistant and of time.            *)
(***************************************************************************)

\* Jobs of different requests are different.
LEMMA Apart ==
  ASSUME NEW r \in Requests, NEW q \in Requests, q # r
  PROVE  Own(q)[1] # r /\ \A k \in Members(q) : k[1] # r
BY RequestIs

LEMMA RunningNext ==
  ASSUME NEW r
  PROVE  Running(r)' = {k \in Members(r) : Busy(job'[k])}
BY DEF Running, Suspended, Busy

\* A step in which only jobs of request r change, of which none is suspended
\* then, and every slot of the request is free.
LEMMA OneRequest ==
  ASSUME IInv, NEW r \in Requests, NEW n \in 0..MaxConcurrency,
         job' \in [Jobs -> JobRecords], JobsFit', TapsFit',
         tap' \in [Jobs -> TapRecords],
         \A j \in Jobs : j[1] # r => job'[j] = job[j],
         \A j \in Members(r) : ~Busy(job'[j]),
         job'[Own(r)].kind # "batch" => \A j \in Members(r) : job'[j].place = "none",
         Quick => Hushed(job'[Own(r)], quiet[r]),
         limit' = [limit EXCEPT ![r] = n], free' = [free EXCEPT ![r] = n],
         UNCHANGED <<quiet, state, allowed>>
  PROVE  IInv'
<1>1. Typed'
  <2>1. n \in Nat
    BY CommandsAssumption
  <2> QED
    BY <2>1 DEF IInv, Typed
<1>2. MembersOfBatches'
  <2>1. SUFFICES ASSUME NEW q \in Requests, job'[Own(q)].kind # "batch", NEW k \in Members(q)
                 PROVE  job'[k].place = "none"
    BY DEF MembersOfBatches
  <2>2. CASE q # r
    <3>1. job'[Own(q)] = job[Own(q)] /\ job'[k] = job[k]
      BY <2>2, Apart, RequestIs
    <3> QED
      BY <2>1, <3>1 DEF IInv, MembersOfBatches
  <2> QED
    BY <2>1, <2>2
<1>3. Slots'
  <2>1. SUFFICES ASSUME NEW q \in Requests
                 PROVE  free'[q] + Cardinality(Running(q)') = limit'[q]
    BY DEF Slots
  <2>2. CASE q = r
    <3>1. Running(q)' = {}
      BY <2>2, RunningNext
    <3>2. Cardinality(Running(q)') = 0
      BY <3>1, FS_EmptySet
    <3>3. free'[q] = n /\ limit'[q] = n
      BY <2>2 DEF IInv, Typed
    <3> QED
      BY <3>2, <3>3, CommandsAssumption
  <2>3. CASE q # r
    <3>1. Running(q)' = Running(q)
      <4>1. \A k \in Members(q) : job'[k] = job[k]
        BY <2>3, Apart, RequestIs
      <4> QED
        BY <4>1, RunningNext, RunningIs
    <3>2. free'[q] = free[q] /\ limit'[q] = limit[q]
      BY <2>3 DEF IInv, Typed
    <3>3. free[q] + Cardinality(Running(q)) = limit[q]
      BY DEF IInv, Slots
    <3> QED
      BY <3>1, <3>2, <3>3
  <2> QED
    BY <2>2, <2>3
<1>4. Silence'
  <2>1. SUFFICES ASSUME Quick, NEW q \in Requests PROVE Hushed(job'[Own(q)], quiet[q])
    BY DEF Silence, Quick
  <2>2. CASE q # r
    <3>1. job'[Own(q)] = job[Own(q)]
      BY <2>2, Apart, RequestIs
    <3> QED
      BY <2>1, <3>1 DEF IInv, Silence
  <2> QED
    BY <2>1, <2>2
<1> QED
  BY <1>1, <1>2, <1>3, <1>4 DEF IInv

LEMMA BatchBeginSteps ==
  ASSUME IInv, NEW r \in Requests, NEW n \in 1..MaxCommands, NEW wanted \in Limits,
         NEW odd \in SUBSET (1..n), BatchBegins(r, n, wanted, odd)
  PROVE  IInv'
<1> DEFINE begun == [NoJob EXCEPT !.kind = "batch", !.place = "gathering"]
           raised == [NoJob EXCEPT !.kind = "bad", !.place = "ended", !.result = "raised"]
           queued == [NoJob EXCEPT !.place = "queued"]
           slots == AtMost(wanted, MaxConcurrency)
<1>1. /\ Own(r) \in Jobs /\ ~IsMember(Own(r)) /\ Own(r) \notin Members(r) /\ Own(r)[1] = r
      /\ Members(r) \subseteq Jobs /\ \A j \in Members(r) : j[1] = r
  BY RequestIs
<1>2. /\ job' = [j \in Jobs |->
               IF j = Own(r) THEN begun
               ELSE IF j \in Members(r) /\ j[2] \in odd THEN raised
               ELSE IF j \in Members(r) /\ j[2] <= n THEN queued ELSE job[j]]
      /\ limit' = [limit EXCEPT ![r] = slots] /\ free' = [free EXCEPT ![r] = slots]
      /\ UNCHANGED <<tap, quiet, state, allowed>>
      /\ Ready(Own(r))
  BY DEF BatchBegins
<1>3. slots \in 0..MaxConcurrency
  BY CommandsAssumption DEF AtMost
<1>4. /\ begun \in JobRecords /\ queued \in JobRecords /\ raised \in JobRecords
      /\ begun.kind = "batch" /\ begun.place = "gathering"
      /\ queued.kind = None /\ queued.place = "queued"
      /\ raised.kind = "bad" /\ raised.place = "ended"
  <2>1. begun \in JobRecords /\ queued \in JobRecords /\ raised \in JobRecords
    BY NoJobIs DEF JobRecords, Places, Kinds
  <2> QED
    BY <2>1 DEF NoJob
<1> HIDE DEF begun, queued, raised, slots
<1>5. Fits(begun) /\ Fits(queued) /\ Fits(raised)
  BY <1>4, NoJobIs, CommandsAssumption DEF Fits, Busy, Kinds
<1>6. /\ job \in [Jobs -> JobRecords] /\ tap \in [Jobs -> TapRecords]
      /\ tap[Own(r)].listens = <<>>
      /\ \A j \in Members(r) : job[j].place = "none" /\ tap[j].listens = <<>>
  <2>1. job[Own(r)].kind # "batch" /\ tap[Own(r)].listens = <<>>
    BY <1>1, <1>2, ReadyIs
  <2>2. \A j \in Members(r) : job[j].place = "none"
    BY <2>1 DEF IInv, MembersOfBatches
  <2> QED
    BY <1>1, <2>1, <2>2 DEF IInv, Typed, TapsFit
<1>7. /\ job' \in [Jobs -> JobRecords] /\ job'[Own(r)] = begun
      /\ \A j \in Jobs : j[1] # r => job'[j] = job[j]
      /\ \A j \in Members(r) : job'[j].place \in {"none", "queued", "ended"}
      /\ \A j \in Jobs : j # Own(r) /\ j \notin Members(r) => job'[j] = job[j]
  BY <1>1, <1>2, <1>4, <1>6
<1>8. JobsFit'
  <2>1. SUFFICES ASSUME NEW j \in Jobs PROVE Fits(job'[j])
    BY DEF JobsFit
  <2>2. job'[j] \in {begun, raised, queued, job[j]}
    BY <1>2
  <2>3. Fits(job[j])
    BY DEF IInv, JobsFit
  <2> QED
    BY <1>5, <2>2, <2>3
<1>9. TapsFit'
  <2>1. SUFFICES ASSUME NEW j \in Jobs, job'[j].place # "tapping" PROVE tap'[j].listens = <<>>
    BY DEF TapsFit
  <2>2. CASE j = Own(r) \/ j \in Members(r)
    BY <1>2, <1>6, <2>2
  <2>3. CASE ~(j = Own(r) \/ j \in Members(r))
    BY <1>2, <1>7, <2>1, <2>3 DEF IInv, TapsFit
  <2> QED
    BY <2>2, <2>3
<1>10. \A j \in Members(r) : ~Busy(job'[j])
  <2>1. SUFFICES ASSUME NEW j \in Members(r) PROVE ~Busy(job'[j])
    OBVIOUS
  <2>2. job'[j].place \in {"none", "queued", "ended"}
    BY <1>7
  <2> QED
    BY <2>2 DEF Busy
<1>11. Hushed(job'[Own(r)], quiet[r])
  <2>1. Hushed(begun, quiet[r])
    BY <1>4 DEF Hushed
  <2> QED
    BY <1>7, <2>1
<1>12. tap' \in [Jobs -> TapRecords] /\ job'[Own(r)].kind = "batch"
  BY <1>2, <1>4, <1>6, <1>7
<1>13. /\ job' \in [Jobs -> JobRecords] /\ \A j \in Jobs : j[1] # r => job'[j] = job[j]
       /\ limit' = [limit EXCEPT ![r] = slots] /\ free' = [free EXCEPT ![r] = slots]
       /\ UNCHANGED <<quiet, state, allowed>>
  BY <1>2, <1>7
<1> QED
  BY <1>3, <1>8, <1>9, <1>10, <1>11, <1>12, <1>13, OneRequest

LEMMA CancelSteps ==
  ASSUME IInv, NEW r \in Requests, Cancelled(r)
  PROVE  IInv'
<1> DEFINE gone(j) == [NoJob EXCEPT !.kind = job[j].kind, !.place = "cancelled"]
           n == limit[r]
<1>1. /\ Own(r) \in Jobs /\ Own(r)[1] = r /\ Members(r) \subseteq Jobs
      /\ \A j \in Members(r) : j[1] = r
  BY RequestIs
<1>2. /\ job' = [j \in Jobs |->
               IF j[1] = r /\ job[j].place \notin {"none", "ended"} THEN gone(j) ELSE job[j]]
      /\ tap' = [j \in Jobs |-> IF j[1] = r THEN Closed(tap[j]) ELSE tap[j]]
      /\ free' = [free EXCEPT ![r] = @ + Cardinality(Running(r))]
      /\ UNCHANGED <<limit, quiet, state, allowed>>
  BY DEF Cancelled, TapsCancelled
<1>3. /\ job \in [Jobs -> JobRecords] /\ tap \in [Jobs -> TapRecords]
      /\ free \in [Requests -> Nat] /\ limit \in [Requests -> 0..MaxConcurrency]
      /\ free[r] + Cardinality(Running(r)) = limit[r]
  BY DEF IInv, Typed, Slots
<1>4. free' = [free EXCEPT ![r] = n] /\ limit' = [limit EXCEPT ![r] = n] /\ n \in 0..MaxConcurrency
  BY <1>2, <1>3
<1>5. ASSUME NEW j \in Jobs
      PROVE  /\ gone(j) \in JobRecords /\ gone(j).kind = job[j].kind
             /\ gone(j).place = "cancelled" /\ Fits(gone(j))
  <2>1. gone(j) \in JobRecords
    BY <1>3, NoJobIs DEF JobRecords, Places
  <2>2. gone(j).kind = job[j].kind /\ gone(j).place = "cancelled"
    BY DEF NoJob
  <2> HIDE DEF gone
  <2> QED
    BY <2>1, <2>2 DEF Fits
<1> HIDE DEF gone, n
<1>6. /\ job' \in [Jobs -> JobRecords]
      /\ \A j \in Jobs : j[1] # r => job'[j] = job[j]
      /\ \A j \in Jobs : job'[j].kind = job[j].kind
      /\ \A j \in Jobs : j[1] = r => \/ job'[j] = gone(j) /\ job[j].place # "none"
                                     \/ job'[j] = job[j] /\ job[j].place \in {"none", "ended"}
  BY <1>2, <1>3, <1>5
<1>7. tap' \in [Jobs -> TapRecords]
  BY <1>2, <1>3, ClosedIs
<1>8. JobsFit'
  <2>1. SUFFICES ASSUME NEW j \in Jobs PROVE Fits(job'[j])
    BY DEF JobsFit
  <2>2. Fits(job[j])
    BY DEF IInv, JobsFit
  <2> QED
    BY <1>5, <1>6, <2>2
<1>9. TapsFit'
  <2>1. SUFFICES ASSUME NEW j \in Jobs, job'[j].place # "tapping" PROVE tap'[j].listens = <<>>
    BY DEF TapsFit
  <2>2. CASE j[1] = r
    BY <1>2, <1>3, <2>2, ClosedIs
  <2>3. CASE j[1] # r
    BY <1>2, <1>6, <2>1, <2>3 DEF IInv, TapsFit
  <2> QED
    BY <2>2, <2>3
<1>10. \A j \in Members(r) : ~Busy(job'[j])
  BY <1>1, <1>5, <1>6 DEF Busy
<1>11. job'[Own(r)].kind # "batch" => \A j \in Members(r) : job'[j].place = "none"
  <2>1. job[Own(r)].kind # "batch" => \A j \in Members(r) : job[j].place = "none"
    BY DEF IInv, MembersOfBatches
  <2> QED
    BY <1>1, <1>6, <2>1
<1>12. Quick => Hushed(job'[Own(r)], quiet[r])
  <2>1. Quick => Hushed(job[Own(r)], quiet[r])
    BY DEF IInv, Silence
  <2> QED
    BY <1>1, <1>5, <1>6, <2>1 DEF Hushed
<1> QED
  BY <1>2, <1>4, <1>6, <1>7, <1>8, <1>9, <1>10, <1>11, <1>12, OneRequest

\* Steps that touch no more of a tap than what it records.
LEMMA TapSteps ==
  ASSUME IInv, tap' \in [Jobs -> TapRecords], \A j \in Jobs : tap'[j].listens = tap[j].listens,
         UNCHANGED <<job, limit, free, quiet, allowed>>,
         state' \in [Entities -> States \cup {Gone}]
  PROVE  IInv'
<1>1. Typed' /\ TapsFit'
  BY DEF IInv, Typed, TapsFit
<1>2. JobsFit' /\ MembersOfBatches' /\ Silence'
  BY DEF IInv, JobsFit, MembersOfBatches, Silence, Quick
<1>3. Slots'
  BY RunningNext, RunningIs DEF IInv, Slots
<1> QED
  BY <1>1, <1>2, <1>3 DEF IInv

LEMMA FireSteps ==
  ASSUME IInv, NEW type, Fires(type), UNCHANGED <<job, limit, free, quiet, allowed>>,
         state' \in [Entities -> States \cup {Gone}]
  PROVE  IInv'
<1>1. tap' = [j \in Jobs |-> Tapped(tap[j], type)] /\ tap \in [Jobs -> TapRecords]
  BY DEF Fires, IInv, Typed
<1>2. ASSUME NEW t \in TapRecords
      PROVE  Tapped(t, type) \in TapRecords /\ Tapped(t, type).listens = t.listens
  <2>1. CASE t.listens = <<>>
    BY <2>1 DEF Tapped
  <2>2. CASE t.listens # <<>>
    BY <2>2, TappedIs
  <2> QED
    BY <2>1, <2>2
<1>3. tap' \in [Jobs -> TapRecords] /\ \A j \in Jobs : tap'[j].listens = tap[j].listens
  BY <1>1, <1>2
<1> QED
  BY <1>3, TapSteps

\* A thread goes on with a recording.
LEMMA ThreadSteps ==
  ASSUME IInv, NEW j \in Jobs, Checks(j) \/ Appends(j)
  PROVE  IInv'
<1>1. tap \in [Jobs -> TapRecords] /\ state \in [Entities -> States \cup {Gone}]
  BY DEF IInv, Typed
<1>2. PICK t : /\ tap' = [tap EXCEPT ![j] = t]
               /\ \/ \E row \in tap[j].waiting : t = Checked(tap[j], row)
                  \/ \E row \in tap[j].writing : t = Written(tap[j], row)
  BY DEF Checks, Appends
<1>3. t \in TapRecords /\ t.listens = tap[j].listens
  <2>1. tap[j] \in TapRecords
    BY <1>1
  <2>2. ASSUME NEW row \in tap[j].waiting, t = Checked(tap[j], row)
        PROVE  t \in TapRecords /\ t.listens = tap[j].listens
    BY <2>1, <2>2, CheckedIs
  <2>3. ASSUME NEW row \in tap[j].writing, t = Written(tap[j], row)
        PROVE  t \in TapRecords /\ t.listens = tap[j].listens
    BY <2>1, <2>3, WrittenIs
  <2> QED
    BY <1>2, <2>2, <2>3
<1>4. tap' \in [Jobs -> TapRecords] /\ \A k \in Jobs : tap'[k].listens = tap[k].listens
  BY <1>1, <1>2, <1>3
<1>5. UNCHANGED <<job, limit, free, quiet, state, allowed>>
  BY DEF Checks, Appends
<1> QED
  BY <1>1, <1>4, <1>5, TapSteps

LEMMA TickSteps ==
  ASSUME IInv, Tick
  PROVE  IInv'
<1>1. /\ \A j \in Jobs : ~Due(j)
      /\ job' = [j \in Jobs |-> IF Busy(job[j]) THEN Ticked(job[j]) ELSE job[j]]
      /\ quiet' = [r \in Requests |->
                     IF Open(r) THEN AtMost(quiet[r] + 1, SilenceLimit + 1) ELSE quiet[r]]
      /\ UNCHANGED <<tap, limit, free, state, allowed>>
  BY DEF Tick, Suspended, Busy
<1>2. job \in [Jobs -> JobRecords] /\ quiet \in [Requests -> Nat]
      /\ PulseInterval \in Nat /\ SilenceLimit \in Nat /\ ServiceTime \in Nat
  BY WaitAssumption, CommandsAssumption DEF IInv, Typed
<1>3. ASSUME NEW w \in JobRecords
      PROVE  /\ Ticked(w) \in JobRecords
             /\ Ticked(w).kind = w.kind /\ Ticked(w).place = w.place
             /\ Ticked(w).entity = w.entity /\ Ticked(w).target = w.target
             /\ Ticked(w).seen = w.seen
             /\ w.timer \in Nat /\ (w.timer # 0 => Ticked(w).timer = w.timer - 1)
             /\ Ticked(w).pulse = IF w.pulse < PulseInterval THEN w.pulse + 1 ELSE w.pulse
             /\ w.pulse \in 0..PulseInterval
  <2>1. /\ w.timer \in Nat /\ w.left \in Nat /\ w.pulse \in 0..PulseInterval
    BY DEF JobRecords
  <2>2. /\ Monus(w.timer, 1) \in Nat /\ Monus(w.left, 1) \in Nat
        /\ w.timer # 0 => Monus(w.timer, 1) = w.timer - 1
    BY <2>1 DEF Monus
  <2>3. (IF w.pulse < PulseInterval THEN w.pulse + 1 ELSE w.pulse) \in 0..PulseInterval
    BY <1>2, <2>1
  <2> DEFINE p == IF w.pulse < PulseInterval THEN w.pulse + 1 ELSE w.pulse
             a == Monus(w.timer, 1)
             b == Monus(w.left, 1)
  <2>4. Ticked(w) = [w EXCEPT !.timer = a, !.left = b, !.pulse = p]
    BY DEF Ticked
  <2>5. p \in 0..PulseInterval /\ a \in Nat /\ b \in Nat /\ (w.timer # 0 => a = w.timer - 1)
    BY <2>2, <2>3
  <2> HIDE DEF p, a, b
  <2>6. /\ Ticked(w) \in JobRecords
        /\ Ticked(w).kind = w.kind /\ Ticked(w).place = w.place
        /\ Ticked(w).entity = w.entity /\ Ticked(w).target = w.target
        /\ Ticked(w).seen = w.seen /\ Ticked(w).timer = a /\ Ticked(w).pulse = p
    BY <2>4, <2>5 DEF JobRecords
  <2> QED
    BY <2>1, <2>5, <2>6 DEF p
<1>4. /\ job' \in [Jobs -> JobRecords]
      /\ \A j \in Jobs : job'[j].place = job[j].place /\ job'[j].kind = job[j].kind
  BY <1>1, <1>2, <1>3
<1>5. quiet' \in [Requests -> Nat]
  <2>1. ASSUME NEW r \in Requests PROVE quiet'[r] \in Nat /\ quiet'[r] <= quiet[r] + 1
    BY <1>1, <1>2 DEF AtMost
  <2> QED
    BY <1>1, <2>1
<1>6. Typed' /\ TapsFit' /\ MembersOfBatches'
  <2>1. Typed' /\ TapsFit'
    BY <1>1, <1>4, <1>5 DEF IInv, Typed, TapsFit
  <2>2. MembersOfBatches'
    BY <1>4, RequestIs DEF IInv, MembersOfBatches
  <2> QED
    BY <2>1, <2>2
<1>7. JobsFit'
  <2>1. SUFFICES ASSUME NEW j \in Jobs PROVE Fits(job'[j])
    BY DEF JobsFit
  <2>2. job'[j] \in {job[j], Ticked(job[j])} /\ Fits(job[j]) /\ job[j] \in JobRecords
    BY <1>1, <1>2 DEF IInv, JobsFit
  <2> QED
    BY <1>3, <2>2 DEF Fits
<1>8. Slots'
  <2>1. SUFFICES ASSUME NEW r \in Requests
                 PROVE  free'[r] + Cardinality(Running(r)') = limit'[r]
    BY DEF Slots
  <2>2. Running(r)' = Running(r)
    <3>1. \A k \in Members(r) : Busy(job'[k]) <=> Busy(job[k])
      BY <1>4, RequestIs DEF Busy
    <3> QED
      BY <3>1, RunningNext, RunningIs
  <2> QED
    BY <1>1, <2>2 DEF IInv, Slots
<1>9. Silence'
  <2>1. SUFFICES ASSUME Quick, NEW r \in Requests PROVE Hushed(job'[Own(r)], quiet'[r])
    BY DEF Silence, Quick
  <2> DEFINE w == job[Own(r)]
             q == quiet[r]
  <2>2. Own(r) \in Jobs /\ w \in JobRecords /\ Hushed(w, q) /\ Fits(w) /\ q \in Nat
    BY <1>2, <2>1, RequestIs DEF IInv, Silence, JobsFit
  <2>3. CASE Busy(w)
    <3>1. w.timer # 0 /\ job'[Own(r)] = Ticked(w)
      BY <1>1, <2>2, <2>3 DEF Due, Suspended, Busy
    <3>2. quiet'[r] \in Nat /\ quiet'[r] <= q + 1
      BY <1>1, <1>2, <1>5 DEF AtMost
    <3> DEFINE v == Ticked(w)
               p == quiet'[r]
    <3>3. /\ v.kind = w.kind /\ v.place = w.place /\ w.timer \in Nat /\ v.timer = w.timer - 1
          /\ v.pulse = IF w.pulse < PulseInterval THEN w.pulse + 1 ELSE w.pulse
          /\ w.pulse \in 0..PulseInterval
      BY <1>3, <2>2, <3>1
    <3> HIDE DEF v, p, w, q
    <3>4. p \in Nat /\ p <= q + 1
      BY <3>2 DEF p
    <3>5. p + v.timer <= q + w.timer /\ p <= q + w.timer
      BY <2>2, <3>1, <3>3, <3>4
    <3>6. v.pulse < PulseInterval => w.pulse < PulseInterval /\ v.pulse = w.pulse + 1
      BY <1>2, <3>3
    <3>7. /\ w.place = "calling" => p + v.timer <= ServiceTime /\ p <= ServiceTime
          /\ w.place = "tapping" => p + v.timer <= MaxDuration /\ p <= MaxDuration
          /\ w.place = "pulsing" => p + v.timer <= Budget + MaxStall /\ p <= Budget + MaxStall
          /\ w.place = "polling" => p + v.timer <= Budget /\ p <= Budget
      BY <1>2, <2>2, <3>1, <3>3, <3>4, <3>5, WaitAssumption, TapAssumption DEF Hushed, Budget
    <3>8. p <= SilenceLimit
      BY <1>2, <2>1, <2>3, <3>4, <3>7, WaitAssumption, TapAssumption DEF Busy, Quick, Budget
    <3>9. v.place = "polling" /\ v.pulse < PulseInterval => p <= ServiceTime + v.pulse
      BY <1>2, <2>2, <3>3, <3>4, <3>6 DEF Hushed
    <3>10. Hushed(v, p)
      BY <2>3, <3>3, <3>7, <3>8, <3>9 DEF Hushed, Busy
    <3> QED
      BY <3>1, <3>10 DEF v, p
  <2>4. CASE ~Busy(w)
    <3>1. job'[Own(r)] = w
      BY <1>1, <2>2, <2>4
    <3>2. CASE Open(r)
      <4>1. w.place = "gathering"
        BY <2>2, <2>4, <3>2 DEF Open, UnderWay, Busy, JobRecords, Places, Hushed
      <4>2. w.kind = "batch"
        BY <2>2, <4>1 DEF Fits
      <4> HIDE DEF w
      <4> QED
        BY <3>1, <4>1, <4>2 DEF Hushed
    <3>3. CASE ~Open(r)
      BY <1>1, <2>2, <3>1, <3>3
    <3> QED
      BY <3>2, <3>3
  <2> QED
    BY <2>3, <2>4
<1> QED
  BY <1>6, <1>7, <1>8, <1>9 DEF IInv

LEMMA NextIInv == IInv /\ [Next]_vars => IInv'
<1> SUFFICES ASSUME IInv, [Next]_vars PROVE IInv'
  OBVIOUS
<1>1. CASE UNCHANGED vars
  <2>1. Slots'
    BY <1>1, RunningNext, RunningIs DEF vars, IInv, Slots
  <2> QED
    BY <1>1, <2>1 DEF vars, IInv, Typed, JobsFit, TapsFit, MembersOfBatches, Silence, Quick
<1>2. ASSUME NEW j \in Jobs, Starts(j) \/ Proceeds(j) PROVE IInv'
  BY <1>2, StartSteps, ProceedSteps
<1>3. ASSUME NEW r \in Requests,
             \/ \E n \in 1..MaxCommands, wanted \in Limits :
                  \E odd \in SUBSET (1..n) : BatchBegins(r, n, wanted, odd)
             \/ BatchEnds(r) \/ Cancelled(r)
      PROVE  IInv'
  BY <1>3, BatchBeginSteps, BatchEndSteps, CancelSteps
<1>4. ASSUME NEW entity \in Entities, NEW s \in States \cup {Gone}, StateChanges(entity, s)
      PROVE  IInv'
  <2>1. state' \in [Entities -> States \cup {Gone}]
    BY <1>4 DEF StateChanges, IInv, Typed
  <2> QED
    BY <1>4, <2>1, FireSteps DEF StateChanges
<1>5. ASSUME NEW type \in EventTypes, OtherEvent(type) PROVE IInv'
  <2>1. state' \in [Entities -> States \cup {Gone}]
    BY <1>5 DEF OtherEvent, IInv, Typed
  <2> QED
    BY <1>5, <2>1, FireSteps DEF OtherEvent
<1>6. CASE Tick
  BY <1>6, TickSteps
<1>7. ASSUME NEW j \in Jobs, Checks(j) \/ Appends(j) PROVE IInv'
  BY <1>7, ThreadSteps
<1> QED
  BY <1>1, <1>2, <1>3, <1>4, <1>5, <1>6, <1>7 DEF Next

-----------------------------------------------------------------------------
(***************************************************************************)
(* The theorems.                                                           *)
(***************************************************************************)

\* Every state is of its type; in particular a batch never has more slots free
\* than the 10 a batch gets.
THEOREM TypeCorrect == Spec => []TypeOK
<1>1. Init => IInv
  BY InitIInv
<1>2. IInv /\ [Next]_vars => IInv'
  BY NextIInv
<1>3. IInv => TypeOK
  BY IInvImplies
<1> QED
  BY <1>1, <1>2, <1>3, PTL DEF Spec

\* However its commands begin, fail, return and are cancelled, a batch of any
\* length loses and gains no slot.
THEOREM SlotsKeptInBatch == Spec => []SlotsAccounted
<1>1. Init => IInv
  BY InitIInv
<1>2. IInv /\ [Next]_vars => IInv'
  BY NextIInv
<1>3. IInv => SlotsAccounted
  BY IInvImplies
<1> QED
  BY <1>1, <1>2, <1>3, PTL DEF Spec

\* A tap leaves no listener behind, in whatever way it ends.
THEOREM TapsCleared == Spec => []ListenersGone
<1>1. Init => IInv
  BY InitIInv
<1>2. IInv /\ [Next]_vars => IInv'
  BY NextIInv
<1>3. IInv => ListenersGone
  BY IInvImplies
<1> QED
  BY <1>1, <1>2, <1>3, PTL DEF Spec

\* What the intervals of utils.py and event_tap.py have to satisfy so that no
\* request but a batch goes silent.
THEOREM NoLongSilence ==
  ASSUME Quick
  PROVE  Spec => []QuickRequestsHeard
<1>1. Init => IInv
  BY InitIInv
<1>2. IInv /\ [Next]_vars => IInv'
  BY NextIInv
<1>3. IInv => QuickRequestsHeard
  BY IInvImplies
<1> QED
  BY <1>1, <1>2, <1>3, PTL DEF Spec

-----------------------------------------------------------------------------
(***************************************************************************)
(* Taps.                                                                   *)
(***************************************************************************)

\* An open tap listens for what it was asked for.  Rows are of events that fired,
\* each in one place, and there is one of every event unless the tap is full.
Faithful(t) ==
  /\ t.listens = <<>> \/ t.listens = Listeners(t.types)
  /\ \A row \in Recordings(t) : row[1] <= t.fired
  /\ t.waiting \cap t.writing = {}
  /\ \A a \in DOMAIN t.captured : t.captured[a] \notin t.waiting \cup t.writing
  /\ \A a, b \in DOMAIN t.captured : t.captured[a] = t.captured[b] => a = b
  /\ t.truncated => Len(t.captured) >= t.max
  /\ ~t.truncated => \A n \in 1..t.fired : \E row \in Recordings(t) : row[1] = n

\* Threads that have found room are no more than there are; the last of them
\* found it when the others had already.
Roomy(t) ==
  /\ IsFiniteSet(t.writing)
  /\ Len(t.captured) + Cardinality(t.writing) <= t.max + (Workers - 1)

LEMMA RecordingsAre ==
  ASSUME NEW t, NEW row
  PROVE  row \in Recordings(t) <=> \/ \E a \in DOMAIN t.captured : row = t.captured[a]
                                   \/ row \in t.waiting \/ row \in t.writing
BY DEF Recordings

LEMMA RecordingRows ==
  ASSUME NEW t \in TapRecords, NEW row \in Recordings(t)
  PROVE  row[1] \in Nat
<1>1. t.waiting \subseteq Rows /\ t.writing \subseteq Rows /\ t.captured \in Seq(Rows)
  BY DEF TapRecords
<1>2. row \in Rows
  BY <1>1 DEF Recordings
<1> QED
  BY <1>2 DEF Rows

LEMMA OpenedFaithful ==
  ASSUME NEW c \in Taps
  PROVE  Faithful(Opened(c)) /\ Roomy(Opened(c))
<1> DEFINE t == Opened(c)
<1>1. /\ t.listens = Listeners(t.types) /\ t.fired = 0 /\ t.waiting = {} /\ t.writing = {}
      /\ t.captured = <<>> /\ t.truncated = FALSE /\ t.max \in Nat
  <2>1. /\ t \in TapRecords /\ t.types = c.types /\ t.listens = Listeners(c.types)
        /\ t.fired = 0 /\ t.waiting = {} /\ t.writing = {} /\ t.captured = <<>>
        /\ t.truncated = FALSE
    BY OpenedIs
  <2> HIDE DEF t
  <2>2. t.max \in Nat
    BY <2>1, TapAssumption DEF TapRecords
  <2> QED
    BY <2>1, <2>2
<1> HIDE DEF t
<1>2. Recordings(t) = {} /\ DOMAIN t.captured = {} /\ Len(t.captured) = 0
  BY <1>1 DEF Recordings
<1>3. Faithful(t)
  BY <1>1, <1>2 DEF Faithful
<1>4. Roomy(t)
  BY <1>1, <1>2, FS_EmptySet, TapAssumption DEF Roomy
<1> QED
  BY <1>3, <1>4 DEF t

LEMMA NoTapFaithful == Faithful(NoTap) /\ Roomy(NoTap)
<1>1. /\ NoTap.listens = <<>> /\ NoTap.fired = 0 /\ NoTap.waiting = {} /\ NoTap.writing = {}
      /\ NoTap.captured = <<>> /\ NoTap.truncated = FALSE /\ NoTap.max = 0
  BY DEF NoTap
<1>2. Recordings(NoTap) = {} /\ DOMAIN NoTap.captured = {} /\ Len(NoTap.captured) = 0
  BY <1>1 DEF Recordings
<1> QED
  BY <1>1, <1>2, FS_EmptySet, TapAssumption DEF Faithful, Roomy

LEMMA ClosedFaithful ==
  ASSUME NEW t \in TapRecords, Faithful(t), Roomy(t)
  PROVE  Faithful(Closed(t)) /\ Roomy(Closed(t))
<1>1. Recordings(Closed(t)) = Recordings(t)
  BY ClosedIs DEF Recordings
<1> QED
  BY <1>1, ClosedIs DEF Faithful, Roomy

\* The listeners of an open tap hear exactly what was asked for.
LEMMA HeardIfAsked ==
  ASSUME NEW types \in Lists, NEW type, NEW n \in Nat
  PROVE  Heard(Listeners(types), type, n) # {} <=> AskedFor(types, type)
<1>1. CASE types = <<>>
  <2>1. Listeners(types) = <<MATCH_ALL>> /\ 1 \in DOMAIN Listeners(types)
    BY <1>1 DEF Listeners
  <2>2. <<n, 1>> \in Heard(Listeners(types), type, n)
    BY <2>1 DEF Heard, Hears
  <2> QED
    BY <1>1, <2>2 DEF AskedFor
<1>2. CASE types # <<>>
  BY <1>2 DEF Listeners, Heard, Hears, AskedFor
<1> QED
  BY <1>1, <1>2

LEMMA TappedFaithful ==
  ASSUME NEW t \in TapRecords, NEW type, Faithful(t), Roomy(t)
  PROVE  Faithful(Tapped(t, type)) /\ Roomy(Tapped(t, type))
<1>1. CASE t.listens = <<>>
  BY <1>1 DEF Tapped
<1>2. CASE t.listens # <<>>
  <2> DEFINE n == IF AskedFor(t.types, type) THEN t.fired + 1 ELSE t.fired
             new == Heard(t.listens, type, n)
             v == Tapped(t, type)
  <2>1. /\ v.types = t.types /\ v.listens = t.listens /\ v.max = t.max /\ v.fired = n
        /\ v.waiting = t.waiting \cup new /\ v.writing = t.writing
        /\ v.captured = t.captured /\ v.truncated = t.truncated
    BY <1>2, TappedIs
  <2>2. t.listens = Listeners(t.types) /\ t.types \in Lists /\ t.listens \in Lists
        /\ t.fired \in Nat
    BY <1>2 DEF Faithful, TapRecords
  <2>3. n \in Nat /\ t.fired <= n
    BY <2>2
  <2>4. /\ new # {} <=> AskedFor(t.types, type)
        /\ \A row \in new : row[1] = n
    BY <2>2, <2>3, HeardIfAsked, HeardIs
  <2>5. AskedFor(t.types, type) => n = t.fired + 1
    OBVIOUS
  <2>6. ~AskedFor(t.types, type) => n = t.fired /\ new = {}
    BY <2>4
  <2> HIDE DEF n, new, v
  <2>7. CASE ~AskedFor(t.types, type)
    <3>1. v.waiting = t.waiting /\ v.fired = t.fired
      BY <2>1, <2>6, <2>7
    <3>2. Recordings(v) = Recordings(t)
      BY <2>1, <3>1 DEF Recordings
    <3>3. Faithful(v) /\ Roomy(v)
      BY <2>1, <3>1, <3>2 DEF Faithful, Roomy
    <3> QED
      BY <3>3 DEF v
  <2>8. CASE AskedFor(t.types, type)
    <3>1. n = t.fired + 1 /\ new # {}
      BY <2>4, <2>5, <2>8
    <3>2. Recordings(v) = Recordings(t) \cup new
      BY <2>1 DEF Recordings
    <3>3. \A row \in Recordings(t) : row[1] <= t.fired
      BY DEF Faithful
    <3>4. \A row \in new : row \notin Recordings(t)
      <4>1. SUFFICES ASSUME NEW row \in new, row \in Recordings(t) PROVE FALSE
        OBVIOUS
      <4>2. row[1] = t.fired + 1 /\ row[1] <= t.fired
        BY <2>4, <3>1, <3>3, <4>1
      <4> QED
        BY <2>2, <4>2
    <3>5. \A row \in Recordings(v) : row[1] <= v.fired
      <4>1. SUFFICES ASSUME NEW row \in Recordings(v) PROVE row[1] <= t.fired + 1
        BY <2>1, <3>1
      <4>2. CASE row \in new
        BY <2>2, <2>4, <3>1, <4>2
      <4>3. CASE row \in Recordings(t)
        <5>1. row[1] \in Nat /\ row[1] <= t.fired
          BY <3>3, <4>3, RecordingRows
        <5> QED
          BY <2>2, <5>1
      <4> QED
        BY <3>2, <4>1, <4>2, <4>3
    <3>6. v.waiting \cap v.writing = {}
      BY <2>1, <3>4 DEF Faithful, Recordings
    <3>7. \A a \in DOMAIN v.captured : v.captured[a] \notin v.waiting \cup v.writing
      BY <2>1, <3>4 DEF Faithful, Recordings
    <3>8. ~v.truncated => \A i \in 1..v.fired : \E row \in Recordings(v) : row[1] = i
      <4>1. SUFFICES ASSUME ~t.truncated, NEW i \in 1..(t.fired + 1)
                     PROVE  \E row \in Recordings(v) : row[1] = i
        BY <2>1, <3>1
      <4>2. CASE i = t.fired + 1
        BY <2>4, <3>1, <3>2, <4>2
      <4>3. CASE i # t.fired + 1
        <5>1. i \in 1..t.fired
          BY <2>2, <4>1, <4>3
        <5> QED
          BY <3>2, <4>1, <5>1 DEF Faithful
      <4> QED
        BY <4>2, <4>3
    <3>9. Faithful(v)
      BY <2>1, <2>2, <3>5, <3>6, <3>7, <3>8 DEF Faithful
    <3>10. Roomy(v)
      BY <2>1 DEF Roomy
    <3> QED
      BY <3>9, <3>10 DEF v
  <2> QED
    BY <2>7, <2>8
<1> QED
  BY <1>1, <1>2

LEMMA CheckedFaithful ==
  ASSUME NEW t \in TapRecords, NEW row \in t.waiting, Faithful(t), Roomy(t),
         Cardinality(t.writing) < Workers
  PROVE  Faithful(Checked(t, row)) /\ Roomy(Checked(t, row))
<1> DEFINE v == Checked(t, row)
<1>1. /\ v.types = t.types /\ v.listens = t.listens /\ v.max = t.max /\ v.fired = t.fired
      /\ v.waiting = t.waiting \ {row}
      /\ v.writing = IF HasRoom(t) THEN t.writing \cup {row} ELSE t.writing
      /\ v.captured = t.captured /\ v.truncated = (t.truncated \/ ~HasRoom(t))
  BY CheckedIs
<1>2. /\ t.max \in Nat /\ t.captured \in Seq(Rows) /\ Len(t.captured) \in Nat
      /\ t.truncated \in BOOLEAN
  BY TapAssumption DEF TapRecords
<1>3. /\ IsFiniteSet(t.writing) /\ Cardinality(t.writing) \in Nat /\ row \notin t.writing
      /\ Len(t.captured) + Cardinality(t.writing) <= t.max + (Workers - 1)
  BY FS_CardinalityType DEF Roomy, Faithful
<1> HIDE DEF v
<1>4. CASE HasRoom(t)
  <2>1. v.writing = t.writing \cup {row} /\ v.truncated = t.truncated
    BY <1>1, <1>2, <1>4
  <2>2. Recordings(v) = Recordings(t)
    BY <1>1, <2>1 DEF Recordings
  <2>3. v.waiting \cap v.writing = {}
    BY <1>1, <2>1 DEF Faithful
  <2>4. \A a \in DOMAIN v.captured : v.captured[a] \notin v.waiting \cup v.writing
    BY <1>1, <2>1 DEF Faithful
  <2>5. Faithful(v)
    BY <1>1, <2>1, <2>2, <2>3, <2>4 DEF Faithful
  <2>6. IsFiniteSet(v.writing) /\ Cardinality(v.writing) = Cardinality(t.writing) + 1
    <3>1. /\ IsFiniteSet(t.writing \cup {row})
          /\ Cardinality(t.writing \cup {row}) = Cardinality(t.writing) + 1
      BY <1>3, FS_AddElement
    <3> QED
      BY <2>1, <3>1
  <2>7. Len(v.captured) + Cardinality(v.writing) <= v.max + (Workers - 1)
    BY <1>1, <1>2, <1>3, <1>4, <2>6, TapAssumption DEF HasRoom
  <2> QED
    BY <2>5, <2>6, <2>7 DEF Roomy, v
<1>5. CASE ~HasRoom(t)
  <2>1. v.writing = t.writing /\ v.truncated = TRUE
    BY <1>1, <1>5
  <2>2. Recordings(v) \subseteq Recordings(t)
    BY <1>1, <2>1 DEF Recordings
  <2>3. Len(v.captured) >= v.max
    BY <1>1, <1>2, <1>5 DEF HasRoom
  <2>4. \A a \in DOMAIN v.captured : v.captured[a] \notin v.waiting \cup v.writing
    BY <1>1, <2>1 DEF Faithful
  <2>5. v.waiting \cap v.writing = {}
    BY <1>1, <2>1 DEF Faithful
  <2>6. \A one \in Recordings(v) : one[1] <= v.fired
    BY <1>1, <2>2 DEF Faithful
  <2>7. Faithful(v)
    BY <1>1, <2>1, <2>3, <2>4, <2>5, <2>6 DEF Faithful
  <2>8. Roomy(v)
    BY <1>1, <2>1 DEF Roomy
  <2> QED
    BY <2>7, <2>8 DEF v
<1> QED
  BY <1>4, <1>5

LEMMA WrittenFaithful ==
  ASSUME NEW t \in TapRecords, NEW row \in t.writing, Faithful(t), Roomy(t)
  PROVE  Faithful(Written(t, row)) /\ Roomy(Written(t, row))
<1> DEFINE v == Written(t, row)
<1>1. /\ v.types = t.types /\ v.listens = t.listens /\ v.max = t.max /\ v.fired = t.fired
      /\ v.waiting = t.waiting /\ v.writing = t.writing \ {row}
      /\ v.captured = Append(t.captured, row) /\ v.truncated = t.truncated
  BY WrittenIs
<1>2. /\ t.max \in Nat /\ t.captured \in Seq(Rows) /\ Len(t.captured) \in Nat
      /\ t.truncated \in BOOLEAN /\ row \in Rows
  BY TapAssumption DEF TapRecords
<1>3. /\ Len(v.captured) = Len(t.captured) + 1
      /\ DOMAIN t.captured = 1..Len(t.captured) /\ DOMAIN v.captured = 1..(Len(t.captured) + 1)
      /\ \A a \in 1..Len(t.captured) : v.captured[a] = t.captured[a]
      /\ v.captured[Len(t.captured) + 1] = row
  BY <1>1, <1>2, AppendProperties, LenProperties
<1> HIDE DEF v
<1>4. \A a \in DOMAIN v.captured : \/ a \in DOMAIN t.captured /\ v.captured[a] = t.captured[a]
                                   \/ a = Len(t.captured) + 1 /\ v.captured[a] = row
  BY <1>2, <1>3
<1>5. DOMAIN t.captured \subseteq DOMAIN v.captured
  BY <1>2, <1>3
<1>6. Recordings(v) = Recordings(t)
  <2>1. ASSUME NEW one \in Recordings(v) PROVE one \in Recordings(t)
    BY <1>1, <1>4, <2>1 DEF Recordings
  <2>2. ASSUME NEW one \in Recordings(t) PROVE one \in Recordings(v)
    <3>1. CASE one = row
      <4>1. Len(t.captured) + 1 \in DOMAIN v.captured
        BY <1>2, <1>3
      <4> QED
        BY <1>3, <3>1, <4>1 DEF Recordings
    <3>2. CASE one # row
      <4>1. CASE \E a \in DOMAIN t.captured : one = t.captured[a]
        BY <1>3, <1>5, <4>1 DEF Recordings
      <4>2. CASE one \in t.waiting \/ one \in t.writing
        BY <1>1, <3>2, <4>2 DEF Recordings
      <4> QED
        BY <2>2, <4>1, <4>2, RecordingsAre
    <3> QED
      BY <3>1, <3>2
  <2> QED
    BY <2>1, <2>2
<1>7. \A a \in DOMAIN t.captured : t.captured[a] # row
  BY DEF Faithful
<1>8. \A a, b \in DOMAIN v.captured : v.captured[a] = v.captured[b] => a = b
  BY <1>4, <1>7 DEF Faithful
<1>9. v.waiting \cap v.writing = {}
  BY <1>1 DEF Faithful
<1>10. \A a \in DOMAIN v.captured : v.captured[a] \notin v.waiting \cup v.writing
  <2>1. SUFFICES ASSUME NEW a \in DOMAIN v.captured
                 PROVE  v.captured[a] \notin v.waiting \cup v.writing
    OBVIOUS
  <2>2. CASE a \in DOMAIN t.captured /\ v.captured[a] = t.captured[a]
    BY <1>1, <2>2 DEF Faithful
  <2>3. CASE v.captured[a] = row
    BY <1>1, <2>3 DEF Faithful
  <2> QED
    BY <1>4, <2>1, <2>2, <2>3
<1>11. v.truncated => Len(v.captured) >= v.max
  BY <1>1, <1>2, <1>3 DEF Faithful
<1>12. Faithful(v)
  BY <1>1, <1>6, <1>8, <1>9, <1>10, <1>11 DEF Faithful
<1>13. Roomy(v)
  <2>1. IsFiniteSet(v.writing) /\ Cardinality(t.writing) = Cardinality(v.writing) + 1
        /\ Cardinality(v.writing) \in Nat
    <3>1. t.writing = v.writing \cup {row} /\ row \notin v.writing /\ IsFiniteSet(v.writing)
      BY <1>1, FS_Subset DEF Roomy
    <3> QED
      BY <3>1, FS_AddElement, FS_CardinalityType
  <2>2. Len(t.captured) + Cardinality(t.writing) <= t.max + (Workers - 1)
    BY DEF Roomy
  <2>3. Len(v.captured) + Cardinality(v.writing) <= v.max + (Workers - 1)
    BY <1>1, <1>2, <1>3, <2>1, <2>2, TapAssumption
  <2> QED
    BY <2>1, <2>3 DEF Roomy
<1> QED
  BY <1>12, <1>13 DEF v

\* What a step does to the tap of a job.
LEMMA TapMoves ==
  ASSUME IInv, [Next]_vars, NEW j \in Jobs
  PROVE  \/ tap'[j] \in {tap[j], Closed(tap[j])}
         \/ \E c \in Taps : tap'[j] = Opened(c)
         \/ \E type : tap'[j] = Tapped(tap[j], type)
         \/ /\ Cardinality(tap[j].writing) < Workers
            /\ \E row \in tap[j].waiting : tap'[j] = Checked(tap[j], row)
         \/ \E row \in tap[j].writing : tap'[j] = Written(tap[j], row)
<1>1. tap \in [Jobs -> TapRecords]
  BY DEF IInv, Typed
<1>2. CASE tap' = tap
  BY <1>2
<1>3. ASSUME NEW k \in Jobs, NEW c \in Taps, TapOpens(k, c)
      PROVE  tap'[j] = tap[j] \/ tap'[j] = Opened(c)
  BY <1>1, <1>3 DEF TapOpens
<1>4. ASSUME NEW k \in Jobs, TapEnds(k) PROVE tap'[j] \in {tap[j], Closed(tap[j])}
  BY <1>1, <1>4 DEF TapEnds
<1>5. ASSUME NEW r \in Requests, Cancelled(r) PROVE tap'[j] \in {tap[j], Closed(tap[j])}
  BY <1>1, <1>5 DEF Cancelled, TapsCancelled
<1>6. ASSUME NEW type, Fires(type) PROVE tap'[j] = Tapped(tap[j], type)
  BY <1>6 DEF Fires
<1>7. ASSUME NEW k \in Jobs, Starts(k) \/ Proceeds(k)
      PROVE  tap' = tap \/ (\E c \in Taps : TapOpens(k, c)) \/ TapEnds(k)
  BY <1>7 DEF Starts, Immediate, Calls, Proceeds, CallFails, CallReturns, WaitBegins,
              Reached, SendsPulse, PollsOn, PulseSent, GivesUp
<1>8. ASSUME NEW r \in Requests,
             \/ BatchEnds(r)
             \/ \E n \in 1..MaxCommands, wanted \in Limits :
                  \E odd \in SUBSET (1..n) : BatchBegins(r, n, wanted, odd)
      PROVE  tap' = tap
  BY <1>8 DEF BatchBegins, BatchEnds
<1>9. ASSUME \/ \E entity \in Entities, s \in States \cup {Gone} : StateChanges(entity, s)
             \/ \E type \in EventTypes : OtherEvent(type)
      PROVE  \E type : Fires(type)
  BY <1>9 DEF StateChanges, OtherEvent
<1>10. CASE Tick \/ UNCHANGED vars
  BY <1>10 DEF Tick, vars
<1>11. ASSUME NEW k \in Jobs, Checks(k)
       PROVE  \/ tap'[j] = tap[j]
              \/ /\ Cardinality(tap[j].writing) < Workers
                 /\ \E row \in tap[j].waiting : tap'[j] = Checked(tap[j], row)
  BY <1>1, <1>11 DEF Checks
<1>12. ASSUME NEW k \in Jobs, Appends(k)
       PROVE  \/ tap'[j] = tap[j]
              \/ \E row \in tap[j].writing : tap'[j] = Written(tap[j], row)
  BY <1>1, <1>12 DEF Appends
<1> QED
  BY <1>2, <1>3, <1>4, <1>5, <1>6, <1>7, <1>8, <1>9, <1>10, <1>11, <1>12 DEF Next

TapsSound == IInv /\ \A j \in Jobs : Faithful(tap[j]) /\ Roomy(tap[j])

LEMMA InitTaps == Init => TapsSound
BY InitIInv, NoTapFaithful DEF Init, TapsSound

LEMMA NextTaps == TapsSound /\ [Next]_vars => TapsSound'
<1> SUFFICES ASSUME TapsSound, [Next]_vars PROVE TapsSound'
  OBVIOUS
<1>1. IInv /\ IInv'
  BY NextIInv DEF TapsSound
<1>2. ASSUME NEW j \in Jobs PROVE Faithful(tap'[j]) /\ Roomy(tap'[j])
  <2>1. tap[j] \in TapRecords /\ Faithful(tap[j]) /\ Roomy(tap[j])
    BY DEF TapsSound, IInv, Typed
  <2> QED
    BY <1>1, <2>1, TapMoves, OpenedFaithful, ClosedFaithful, TappedFaithful, CheckedFaithful,
       WrittenFaithful
<1> QED
  BY <1>1, <1>2 DEF TapsSound

\* However late and in whatever order the threads of the pool record, with any
\* number of them, of listeners and of events: a tap that is not full has or
\* awaits a row of each event, and none twice.
THEOREM TapsTell == Spec => []TapTells
<1>1. Init => TapsSound
  BY InitTaps
<1>2. TapsSound /\ [Next]_vars => TapsSound'
  BY NextTaps
<1>3. TapsSound => TapTells
  BY DEF TapsSound, Faithful, TapTells
<1> QED
  BY <1>1, <1>2, <1>3, PTL DEF Spec

\* For any bound and any number of threads.
THEOREM TapsBounded == Spec => []TapBounded
<1>1. Init => TapsSound
  BY InitTaps
<1>2. TapsSound /\ [Next]_vars => TapsSound'
  BY NextTaps
<1>3. TapsSound => TapBounded
  <2> SUFFICES ASSUME TapsSound, NEW j \in Jobs
               PROVE  Len(tap[j].captured) <= tap[j].max + (Workers - 1)
    BY DEF TapBounded
  <2>1. tap[j] \in TapRecords /\ Roomy(tap[j])
    BY DEF TapsSound, IInv, Typed
  <2>2. Len(tap[j].captured) \in Nat /\ tap[j].max \in Nat
    BY <2>1, TapAssumption DEF TapRecords
  <2>3. Cardinality(tap[j].writing) \in Nat
    BY <2>1, FS_CardinalityType DEF Roomy
  <2> QED
    BY <2>1, <2>2, <2>3, TapAssumption DEF Roomy
<1> QED
  BY <1>1, <1>2, <1>3, PTL DEF Spec

\* What a wait may answer.
LEMMA StepTells ==
  ASSUME IInv, [Next]_vars, NEW j \in Jobs, job[j].kind = "wait", Suspended(j),
         job'[j].place = "ended", job'[j].result # "error"
  PROVE  /\ job'[j].result # job[j].target => job[j].left = 0
         /\ job'[j].result # Read(j) =>
              job[j].place = "pulsing" /\ job'[j].result # job[j].target
<1> DEFINE w == job[j]
           Goal == /\ job'[j].result # w.target => w.left = 0
                   /\ job'[j].result # Read(j) => w.place = "pulsing" /\ job'[j].result # w.target
<1>1. /\ job \in [Jobs -> JobRecords] /\ Fits(w) /\ w.kind = "wait" /\ Busy(w)
      /\ w.place \in {"calling", "polling", "pulsing"}
  BY DEF IInv, Typed, JobsFit, Fits, Suspended, Busy
<1>2. job'[j] # w
  BY <1>1 DEF Busy
<1>3. ASSUME NEW k \in Jobs, NEW result \in States \cup {Gone, None, "ok", "error"}, Ends(k, result),
             Busy(job[k]) \/ job[k].place = "gathering"
      PROVE  k = j /\ job'[j].result = result
  <2>1. job' = [job EXCEPT ![k] = Ended(k, result)]
    BY <1>3 DEF Ends
  <2>2. k = j
    BY <1>1, <1>2, <2>1
  <2>3. Ended(k, result).result = result
    BY <1>3, EndedIs DEF Busy
  <2> QED
    BY <1>1, <2>1, <2>2, <2>3
<1>4. ASSUME NEW k \in Jobs, Starts(k) PROVE FALSE
  <2>1. /\ \E v : job' = [job EXCEPT ![k] = v]
        /\ Ready(k)
    BY <1>4 DEF Starts, Immediate, Calls, TapOpens
  <2>2. k = j
    BY <1>1, <1>2, <2>1
  <2> QED
    BY <1>1, <2>1, <2>2, ReadyIs
<1>5. ASSUME NEW k \in Jobs, Proceeds(k) PROVE Goal
  <2>1. CASE CallFails(k)
    BY <1>3, <2>1 DEF CallFails, Busy
  <2>2. CASE CallReturns(k)
    BY <1>1, <1>3, <2>2 DEF CallReturns, Busy
  <2>3. CASE WaitBegins(k) \/ SendsPulse(k) \/ PollsOn(k) \/ PulseSent(k)
    <3>1. job[k] \in JobRecords
      BY <1>1
    <3>2. PICK v : job' = [job EXCEPT ![k] = v] /\ v.place \in {"polling", "pulsing"}
      <4>1. CASE WaitBegins(k)
        <5>1. WaitBegun(job[k], Read(k)).place = "polling"
          BY <3>1 DEF WaitBegun, JobRecords
        <5> QED
          BY <4>1, <5>1 DEF WaitBegins
      <4>2. CASE SendsPulse(k)
        BY <4>2 DEF SendsPulse
      <4>3. CASE PollsOn(k)
        <5>1. Again(PolledJob(k)).place = "polling"
          <6>1. CASE PulseDue(job[k], ~IsMember(k))
            BY <3>1, <6>1 DEF Again, PolledJob, Polled, JobRecords
          <6>2. CASE ~PulseDue(job[k], ~IsMember(k))
            BY <3>1, <6>2 DEF Again, PolledJob, Polled, JobRecords
          <6> QED
            BY <6>1, <6>2
        <5> QED
          BY <4>3, <5>1 DEF PollsOn
      <4>4. CASE PulseSent(k)
        <5>1. Again(job[k]).place = "polling"
          BY <3>1 DEF Again, JobRecords
        <5> QED
          BY <4>4, <5>1 DEF PulseSent
      <4> QED
        BY <2>3, <4>1, <4>2, <4>3, <4>4
    <3>3. k = j
      BY <1>1, <1>2, <3>2
    <3> QED
      BY <1>1, <3>2, <3>3
  <2>4. CASE Reached(k)
    <3>1. /\ job[k].place \in {"calling", "polling"} /\ Ends(k, job[k].target)
          /\ Read(k) = job[k].target
      BY <2>4 DEF Reached
    <3>2. job[k].target \in States \cup {None}
      BY <1>1 DEF JobRecords
    <3>3. k = j /\ job'[j].result = job[k].target
      BY <1>3, <3>1, <3>2 DEF Busy
    <3> QED
      BY <3>1, <3>3
  <2>5. CASE GivesUp(k)
    <3>1. job[k].left = 0 /\ job[k].place \in {"polling", "pulsing"}
      BY <2>5 DEF GivesUp, TimedOut, Polls
    <3>2. CASE job[k].place = "polling" /\ Ends(k, Read(k))
      <4>1. Read(k) \in States \cup {Gone}
        BY <3>2, ReadIs DEF IInv, JobsFit, Fits, Busy
      <4>2. k = j /\ job'[j].result = Read(k)
        BY <1>3, <3>2, <4>1 DEF Busy
      <4> QED
        BY <3>1, <4>2
    <3>3. CASE job[k].place = "pulsing" /\ Ends(k, job[k].seen)
      <4>1. job[k].seen \in States \cup {Gone, None} /\ job[k].seen # job[k].target
        BY <1>1, <3>3 DEF JobRecords, IInv, JobsFit, Fits
      <4>2. k = j /\ job'[j].result = job[k].seen
        BY <1>3, <3>3, <4>1 DEF Busy
      <4> QED
        BY <3>1, <3>3, <4>1, <4>2
    <3> QED
      BY <2>5, <3>2, <3>3 DEF GivesUp, Polls
  <2>6. CASE TapEnds(k)
    <3>1. k = j /\ job[k].place = "tapping"
      BY <1>3, <2>6 DEF TapEnds, Busy
    <3> QED
      BY <1>1, <3>1
  <2> QED
    BY <1>5, <2>1, <2>2, <2>3, <2>4, <2>5, <2>6 DEF Proceeds
<1>6. ASSUME NEW r \in Requests, NEW n, NEW wanted, NEW odd, BatchBegins(r, n, wanted, odd)
      PROVE  FALSE
  <2>1. Ready(Own(r)) /\ Own(r) \in Jobs
    BY <1>6, RequestIs DEF BatchBegins
  <2>2. ~Busy(job[Own(r)]) /\ \A k \in Members(r) : job[k].place = "none"
    BY <2>1, ReadyIs DEF IInv, MembersOfBatches
  <2>3. j # Own(r) /\ j \notin Members(r)
    BY <1>1, <2>2 DEF Busy
  <2>4. job'[j] = job[j]
    BY <1>6, <2>3 DEF BatchBegins
  <2> QED
    BY <1>2, <2>4
<1>7. ASSUME NEW r \in Requests, BatchEnds(r) PROVE FALSE
  <2>1. Own(r) = j /\ job[Own(r)].place = "gathering"
    BY <1>3, <1>7, RequestIs DEF BatchEnds
  <2> QED
    BY <1>1, <2>1
<1>8. ASSUME NEW r \in Requests, Cancelled(r) PROVE FALSE
  <2>1. job'[j] \in {[NoJob EXCEPT !.kind = job[j].kind, !.place = "cancelled"], job[j]}
    BY <1>8 DEF Cancelled
  <2> QED
    BY <1>2, <2>1 DEF NoJob
<1>9. ~Tick
  <2>1. ASSUME Tick PROVE job'[j] = Ticked(w)
    BY <1>1, <2>1 DEF Tick, Suspended, Busy
  <2>2. Ticked(w).place = w.place
    BY <1>1 DEF Ticked, JobRecords
  <2> QED
    BY <1>1, <2>1, <2>2
<1>10. UNCHANGED job => FALSE
  BY <1>2
<1>11. Goal
  BY <1>4, <1>5, <1>6, <1>7, <1>8, <1>9, <1>10
     DEF Next, Checks, Appends, StateChanges, OtherEvent, vars
<1> QED
  BY <1>11

\* A wait never takes a state that has passed for the one the entity is in, for
\* any interval of polls and pulses and any timeout.
THEOREM WaitsTellNow == Spec => WaitTellsNow
<1>1. Init => IInv
  BY InitIInv
<1>2. IInv /\ [Next]_vars => IInv'
  BY NextIInv
<1>3. IInv /\ [Next]_vars =>
        [\A j \in Jobs :
           job[j].kind = "wait" /\ Suspended(j) /\ job'[j].place = "ended"
             /\ job'[j].result # "error" =>
           /\ job'[j].result # job[j].target => job[j].left = 0
           /\ job'[j].result # Read(j) =>
                job[j].place = "pulsing" /\ job'[j].result # job[j].target]_vars
  BY StepTells
<1> QED
  BY <1>1, <1>2, <1>3, PTL DEF Spec, WaitTellsNow

-----------------------------------------------------------------------------
(***************************************************************************)
(* How long a command takes.                                               *)
(***************************************************************************)

\* A wait ends this long after the last look before its deadline, at most.
Over == PollInterval + MaxStall

\* Ticks until a suspended command has ended, at most.
TimeLeft(w) ==
  CASE w.place = "calling" -> IF w.kind = "wait" THEN w.timer + (StateTimeout - 1) + Over
                              ELSE w.timer
    [] w.place = "polling" -> IF w.left > 0 THEN (w.left - 1) + Over ELSE w.timer + MaxStall
    [] w.place = "pulsing" -> IF w.left > 0 THEN (w.left - 1) + Over ELSE w.timer
    [] OTHER -> w.timer

\* Steps it may take before the next tick, or its end.
StepsLeft(w) ==
  CASE w.place = "calling" -> 3
    [] w.place = "polling" /\ w.timer = 0 -> 2
    [] w.place = "pulsing" -> 1
    [] OTHER -> 0

\* What a command may take from its first await: a service call and a wait with
\* what it goes beyond its timeout, or the longest tap.
Longest ==
  LET longestWait == ServiceTime + (StateTimeout - 1) + Over
  IN  IF longestWait >= MaxDuration THEN longestWait ELSE MaxDuration

\* Every command, alone or in a batch, ends within Longest of its first await
\* (utils.py:47, event_tap.py:40): a tick lowers the time it has left, nothing
\* adds to it, and between two ticks its steps run out.
EndsInTime ==
  [][\A j \in Jobs :
       /\ ~Suspended(j) /\ Suspended(j)' => TimeLeft(job'[j]) <= Longest
       /\ Suspended(j) =>
            \/ ~Suspended(j)'
            \/ TimeLeft(job'[j]) \in Nat /\ TimeLeft(job'[j]) < TimeLeft(job[j])
            \/ /\ ~Tick /\ TimeLeft(job'[j]) = TimeLeft(job[j])
               /\ job'[j] # job[j] => StepsLeft(job'[j]) < StepsLeft(job[j])]_vars

\* A sleep of a wait is a poll's, and its pulse may stall no longer than allowed.
Timed(w) ==
  /\ w.place = "polling" => w.timer <= PollInterval
  /\ w.place = "pulsing" => w.timer <= MaxStall

TimesFit == IInv /\ \A j \in Jobs : Timed(job[j])

\* A suspended command gets on with its time, or else with its steps.
Closer(v, w) ==
  \/ TimeLeft(v) \in Nat /\ TimeLeft(v) < TimeLeft(w)
  \/ TimeLeft(v) = TimeLeft(w) /\ StepsLeft(v) < StepsLeft(w)

LEMMA Times ==
  /\ PollInterval \in Nat \ {0} /\ PulseInterval \in Nat /\ StateTimeout \in Nat \ {0}
  /\ MaxStall \in Nat /\ ServiceTime \in Nat /\ MaxDuration \in Nat
BY WaitAssumption, CommandsAssumption, TapAssumption

LEMMA TickCloser ==
  ASSUME NEW w \in JobRecords, Timed(w), Busy(w), w.timer > 0
  PROVE  /\ Ticked(w).place = w.place /\ Timed(Ticked(w))
         /\ TimeLeft(Ticked(w)) \in Nat /\ TimeLeft(Ticked(w)) < TimeLeft(w)
<1> DEFINE v == Ticked(w)
<1>1. /\ v.place = w.place /\ v.kind = w.kind /\ v.timer = w.timer - 1
      /\ v.left = IF w.left > 0 THEN w.left - 1 ELSE 0
      /\ w.timer \in Nat /\ w.left \in Nat
  BY DEF Ticked, Monus, JobRecords
<1> HIDE DEF v
<1>2. Timed(v)
  BY <1>1, Times DEF Timed
<1>3. CASE w.place = "calling" \/ w.place = "tapping"
  <2>1. TimeLeft(v) = TimeLeft(w) - 1
    BY <1>1, <1>3, Times DEF TimeLeft, Over
  <2>2. TimeLeft(w) \in Nat /\ TimeLeft(w) > 0
    BY <1>1, <1>3, Times DEF TimeLeft, Over
  <2> QED
    BY <1>1, <1>2, <2>1, <2>2 DEF v
<1>4. CASE w.place \in {"polling", "pulsing"}
  <2>1. TimeLeft(v) \in Nat /\ TimeLeft(v) < TimeLeft(w)
    BY <1>1, <1>4, Times DEF TimeLeft, Over, Timed
  <2> QED
    BY <1>1, <1>2, <2>1 DEF v
<1> QED
  BY <1>3, <1>4 DEF Busy

\* A wait that goes on.
LEMMA WaitCloser ==
  ASSUME TimesFit, NEW j \in Jobs, WaitBegins(j) \/ SendsPulse(j) \/ PollsOn(j) \/ PulseSent(j)
  PROVE  \E v : job' = [job EXCEPT ![j] = v] /\ Timed(v) /\ Closer(v, job[j])
<1> DEFINE w == job[j]
<1>1. /\ w \in JobRecords /\ Timed(w) /\ w.timer \in Nat /\ w.left \in Nat
  BY DEF TimesFit, IInv, Typed, JobRecords
<1>2. CASE WaitBegins(j)
  <2> DEFINE v == WaitBegun(w, Read(j))
  <2>1. job' = [job EXCEPT ![j] = v] /\ w.place = "calling" /\ w.kind = "wait"
    BY <1>2 DEF WaitBegins
  <2>2. v.place = "polling" /\ v.timer = PollInterval /\ v.left = StateTimeout
    BY <1>1 DEF WaitBegun, JobRecords
  <2> HIDE DEF v
  <2>3. Timed(v) /\ Closer(v, w)
    BY <1>1, <2>1, <2>2, Times DEF Timed, Closer, TimeLeft, StepsLeft, Over
  <2> QED
    BY <2>1, <2>3
<1>3. CASE SendsPulse(j)
  <2> DEFINE v == PolledJob(j)
  <2>1. /\ job' = [job EXCEPT ![j] = v] /\ w.place = "polling" /\ w.timer = 0
        /\ v.place = "pulsing"
    BY <1>3 DEF SendsPulse, Polls
  <2>2. v.timer = MaxStall /\ v.left = w.left
    BY <1>1, <2>1 DEF PolledJob, Polled, JobRecords
  <2> HIDE DEF v
  <2>3. Timed(v) /\ Closer(v, w)
    BY <1>1, <2>1, <2>2, Times DEF Timed, Closer, TimeLeft, StepsLeft, Over
  <2> QED
    BY <2>1, <2>3
<1>4. CASE PollsOn(j)
  <2> DEFINE v == Again(PolledJob(j))
  <2>1. /\ job' = [job EXCEPT ![j] = v] /\ w.place = "polling" /\ w.timer = 0
        /\ PolledJob(j).place = "polling" /\ w.left # 0
    BY <1>4 DEF PollsOn, Polls, TimedOut
  <2>2. v.place = "polling" /\ v.timer = PollInterval /\ v.left = w.left
    <3>1. CASE PulseDue(w, ~IsMember(j))
      BY <1>1, <2>1, <3>1 DEF PolledJob, Polled, JobRecords
    <3>2. CASE ~PulseDue(w, ~IsMember(j))
      BY <1>1, <3>2 DEF Again, PolledJob, Polled, JobRecords
    <3> QED
      BY <3>1, <3>2
  <2> HIDE DEF v
  <2>3. Timed(v) /\ Closer(v, w)
    BY <1>1, <2>1, <2>2, Times DEF Timed, Closer, TimeLeft, StepsLeft, Over
  <2> QED
    BY <2>1, <2>3
<1>5. CASE PulseSent(j)
  <2> DEFINE v == Again(w)
  <2>1. job' = [job EXCEPT ![j] = v] /\ w.place = "pulsing" /\ w.left # 0
    BY <1>5 DEF PulseSent, TimedOut
  <2>2. v.place = "polling" /\ v.timer = PollInterval /\ v.left = w.left
    BY <1>1 DEF Again, JobRecords
  <2> HIDE DEF v
  <2>3. Timed(v) /\ Closer(v, w)
    BY <1>1, <2>1, <2>2, Times DEF Timed, Closer, TimeLeft, StepsLeft, Over
  <2> QED
    BY <2>1, <2>3
<1> QED
  BY <1>2, <1>3, <1>4, <1>5

\* What a step may make of a job w.
InTime(w, v) ==
  /\ Timed(v)
  /\ ~Busy(w) /\ Busy(v) => TimeLeft(v) <= Longest
  /\ Busy(w) => ~Busy(v) \/ v = w \/ Closer(v, w)

LEMMA InTimeIs ==
  ASSUME NEW w, NEW v, ~Busy(v) \/ (v = w /\ Timed(w))
  PROVE  InTime(w, v)
BY DEF InTime, Timed, Busy

LEMMA OneInTime ==
  ASSUME TimesFit, NEW k \in Jobs, NEW v, job' = [job EXCEPT ![k] = v], InTime(job[k], v)
  PROVE  \A j \in Jobs : InTime(job[j], job'[j])
<1>1. job'[k] = v /\ \A j \in Jobs \ {k} : job'[j] = job[j] /\ Timed(job[j])
  BY DEF TimesFit, IInv, Typed
<1> QED
  BY <1>1, InTimeIs

\* Any command takes no longer than Longest when it begins.
LEMMA StartsInTime ==
  ASSUME TimesFit, NEW k \in Jobs, Starts(k)
  PROVE  \A j \in Jobs : InTime(job[j], job'[j])
<1>1. ASSUME NEW c \in Plain, c.kind \in {"bad", "read"}, Immediate(k, c)
      PROVE  \A j \in Jobs : InTime(job[j], job'[j])
  <2> DEFINE v == [NoJob EXCEPT !.kind = c.kind, !.place = "ended",
                                !.result = IF c.kind = "bad" THEN "error" ELSE "ok"]
  <2>1. job' = [job EXCEPT ![k] = v] /\ v.place = "ended"
    BY <1>1 DEF Immediate, NoJob
  <2> HIDE DEF v
  <2>2. InTime(job[k], v)
    BY <2>1, InTimeIs DEF Busy
  <2> QED
    BY <2>1, <2>2, OneInTime
<1>2. ASSUME NEW c, Calls(k, c)
      PROVE  \A j \in Jobs : InTime(job[j], job'[j])
  <2> DEFINE v == [NoJob EXCEPT !.kind = c.kind, !.place = "calling", !.timer = ServiceTime,
                     !.entity = IF c.kind = "wait" THEN c.entity ELSE None,
                     !.target = IF c.kind = "wait" THEN c.target ELSE None]
  <2>1. job' = [job EXCEPT ![k] = v] /\ Ready(k) /\ v.place = "calling" /\ v.timer = ServiceTime
    BY <1>2 DEF Calls, NoJob
  <2> HIDE DEF v
  <2>2. ~Busy(job[k])
    BY <2>1, ReadyIs DEF TimesFit
  <2>3. TimeLeft(v) <= Longest
    BY <2>1, Times DEF TimeLeft, Longest, Over
  <2>4. InTime(job[k], v)
    BY <2>1, <2>2, <2>3 DEF InTime, Timed
  <2> QED
    BY <2>1, <2>4, OneInTime
<1>3. ASSUME NEW c \in Taps, TapOpens(k, c)
      PROVE  \A j \in Jobs : InTime(job[j], job'[j])
  <2> DEFINE v == [NoJob EXCEPT !.kind = "tap", !.place = "tapping",
                                !.timer = TapDuration(c.duration)]
  <2>1. /\ job' = [job EXCEPT ![k] = v] /\ Ready(k) /\ v.place = "tapping"
        /\ v.timer = TapDuration(c.duration)
    BY <1>3 DEF TapOpens, NoJob
  <2> HIDE DEF v
  <2>2. ~Busy(job[k])
    BY <2>1, ReadyIs DEF TimesFit
  <2>3. TapDuration(c.duration) \in Nat /\ TapDuration(c.duration) <= MaxDuration
    <3>1. c.duration \in Nat
      BY CommandsAssumption DEF Taps
    <3> QED
      BY <3>1, TapAssumption DEF TapDuration, AtMost
  <2>4. TimeLeft(v) <= Longest
    BY <2>1, <2>3, Times DEF TimeLeft, Longest, Over
  <2>5. InTime(job[k], v)
    BY <2>1, <2>2, <2>4 DEF InTime, Timed
  <2> QED
    BY <2>1, <2>5, OneInTime
<1> QED
  BY <1>1, <1>2, <1>3 DEF Starts

\* A command that ends.
LEMMA EndInTime ==
  ASSUME TimesFit, NEW k \in Jobs, NEW result, Ends(k, result)
  PROVE  \A j \in Jobs : InTime(job[j], job'[j])
<1> DEFINE v == Ended(k, result)
<1>1. job' = [job EXCEPT ![k] = v] /\ v.place = "ended"
  BY DEF Ends, Ended, NoJob
<1> HIDE DEF v
<1>2. InTime(job[k], v)
  BY <1>1, InTimeIs DEF Busy
<1> QED
  BY <1>1, <1>2, OneInTime

LEMMA ProceedsInTime ==
  ASSUME TimesFit, NEW k \in Jobs, Proceeds(k)
  PROVE  \A j \in Jobs : InTime(job[j], job'[j])
<1>1. CASE WaitBegins(k) \/ SendsPulse(k) \/ PollsOn(k) \/ PulseSent(k)
  <2>1. PICK v : job' = [job EXCEPT ![k] = v] /\ Timed(v) /\ Closer(v, job[k])
    BY <1>1, WaitCloser
  <2>2. Busy(job[k])
    BY <1>1 DEF WaitBegins, SendsPulse, PollsOn, PulseSent, Polls, Busy
  <2>3. InTime(job[k], v)
    BY <2>1, <2>2 DEF InTime
  <2> QED
    BY <2>1, <2>3, OneInTime
<1>2. CASE CallFails(k) \/ CallReturns(k) \/ Reached(k) \/ GivesUp(k) \/ TapEnds(k)
  <2>1. \E result : Ends(k, result)
    BY <1>2 DEF CallFails, CallReturns, Reached, GivesUp, TapEnds
  <2> QED
    BY <2>1, EndInTime
<1> QED
  BY <1>1, <1>2 DEF Proceeds

\* The steps of a batch, of Home Assistant and of the states.
LEMMA OthersInTime ==
  ASSUME TimesFit, [Next]_vars, ~Tick,
         \A k \in Jobs : ~Starts(k) /\ ~Proceeds(k)
  PROVE  \A j \in Jobs : InTime(job[j], job'[j])
<1>1. \A j \in Jobs : Timed(job[j])
  BY DEF TimesFit
<1>2. ASSUME UNCHANGED job PROVE \A j \in Jobs : InTime(job[j], job'[j])
  BY <1>1, <1>2, InTimeIs
<1>3. ASSUME NEW r \in Requests, NEW n \in 1..MaxCommands, NEW wanted \in Limits,
             NEW odd, BatchBegins(r, n, wanted, odd)
      PROVE  \A j \in Jobs : InTime(job[j], job'[j])
  <2>1. \A j \in Jobs : \/ job'[j] = job[j]
                       \/ job'[j].place \in {"gathering", "queued", "ended"}
    BY <1>3 DEF BatchBegins, NoJob
  <2>2. \A j \in Jobs : ~Busy(job'[j]) \/ (job'[j] = job[j] /\ Timed(job[j]))
    BY <1>1, <2>1 DEF Busy
  <2> QED
    BY <2>2, InTimeIs
<1>4. ASSUME NEW r \in Requests, Cancelled(r)
      PROVE  \A j \in Jobs : InTime(job[j], job'[j])
  <2>1. \A j \in Jobs : job'[j] = job[j] \/ job'[j].place = "cancelled"
    BY <1>4 DEF Cancelled, NoJob
  <2>2. \A j \in Jobs : ~Busy(job'[j]) \/ (job'[j] = job[j] /\ Timed(job[j]))
    BY <1>1, <2>1 DEF Busy
  <2> QED
    BY <2>2, InTimeIs
<1>5. ASSUME NEW r \in Requests, BatchEnds(r)
      PROVE  \A j \in Jobs : InTime(job[j], job'[j])
  BY <1>5, EndInTime, RequestIs DEF BatchEnds
<1>6. ASSUME NEW entity \in Entities, NEW s \in States \cup {Gone}, StateChanges(entity, s)
      PROVE  UNCHANGED job
  BY <1>6 DEF StateChanges
<1>7. ASSUME NEW type \in EventTypes, OtherEvent(type)
      PROVE  UNCHANGED job
  BY <1>7 DEF OtherEvent
<1>8. ASSUME UNCHANGED vars PROVE UNCHANGED job
  BY <1>8 DEF vars
<1>9. ASSUME NEW k \in Jobs, Checks(k) \/ Appends(k) PROVE UNCHANGED job
  BY <1>9 DEF Checks, Appends
<1> QED
  BY <1>2, <1>3, <1>4, <1>5, <1>6, <1>7, <1>8, <1>9 DEF Next

\* A tick takes from the time of every suspended command.
LEMMA TicksInTime ==
  ASSUME TimesFit, Tick, NEW j \in Jobs
  PROVE  /\ InTime(job[j], job'[j])
         /\ Busy(job[j]) => TimeLeft(job'[j]) \in Nat /\ TimeLeft(job'[j]) < TimeLeft(job[j])
<1>1. job[j] \in JobRecords /\ Timed(job[j]) /\ ~Due(j)
  BY DEF TimesFit, IInv, Typed, Tick
<1>2. job'[j] = IF Busy(job[j]) THEN Ticked(job[j]) ELSE job[j]
  BY DEF Tick, Suspended, Busy
<1>3. CASE Busy(job[j])
  <2>1. job[j].timer \in Nat /\ job[j].timer > 0
    BY <1>1, <1>3 DEF JobRecords, Due, Suspended, Busy
  <2>2. /\ Timed(Ticked(job[j])) /\ TimeLeft(Ticked(job[j])) \in Nat
        /\ TimeLeft(Ticked(job[j])) < TimeLeft(job[j])
    BY <1>1, <1>3, <2>1, TickCloser
  <2>3. /\ Timed(job'[j]) /\ TimeLeft(job'[j]) \in Nat
        /\ TimeLeft(job'[j]) < TimeLeft(job[j])
    BY <1>2, <1>3, <2>2
  <2> QED
    BY <1>3, <2>3 DEF InTime, Closer
<1>4. CASE ~Busy(job[j])
  BY <1>1, <1>2, <1>4, InTimeIs
<1> QED
  BY <1>3, <1>4

LEMMA StepInTime ==
  ASSUME TimesFit, [Next]_vars
  PROVE  /\ \A j \in Jobs : InTime(job[j], job'[j])
         /\ Tick => \A j \in Jobs : Busy(job[j]) =>
              TimeLeft(job'[j]) \in Nat /\ TimeLeft(job'[j]) < TimeLeft(job[j])
<1>1. Tick => \A j \in Jobs :
        /\ InTime(job[j], job'[j])
        /\ Busy(job[j]) => TimeLeft(job'[j]) \in Nat /\ TimeLeft(job'[j]) < TimeLeft(job[j])
  BY TicksInTime
<1>2. ASSUME NEW k \in Jobs, Starts(k) \/ Proceeds(k)
      PROVE  \A j \in Jobs : InTime(job[j], job'[j])
  BY <1>2, StartsInTime, ProceedsInTime
<1>3. CASE ~Tick /\ \A k \in Jobs : ~Starts(k) /\ ~Proceeds(k)
  BY <1>3, OthersInTime
<1> QED
  BY <1>1, <1>2, <1>3

\* The time and the steps a command has left are an upper bound of what it still
\* takes, whatever the states, the other commands and Home Assistant do.
THEOREM CommandsEndInTime == Spec => EndsInTime
<1>1. Init => TimesFit
  <2>1. ASSUME Init PROVE \A j \in Jobs : Timed(job[j])
    BY <2>1, NoJobIs DEF Init, Timed
  <2> QED
    BY <2>1, InitIInv DEF TimesFit
<1>2. TimesFit /\ [Next]_vars => TimesFit'
  <2>1. ASSUME TimesFit, [Next]_vars PROVE \A j \in Jobs : Timed(job'[j])
    BY <2>1, StepInTime DEF InTime
  <2> QED
    BY <2>1, NextIInv DEF TimesFit
<1>3. TimesFit /\ [Next]_vars =>
        [\A j \in Jobs :
           /\ ~Suspended(j) /\ Suspended(j)' => TimeLeft(job'[j]) <= Longest
           /\ Suspended(j) =>
                \/ ~Suspended(j)'
                \/ TimeLeft(job'[j]) \in Nat /\ TimeLeft(job'[j]) < TimeLeft(job[j])
                \/ /\ ~Tick /\ TimeLeft(job'[j]) = TimeLeft(job[j])
                   /\ job'[j] # job[j] => StepsLeft(job'[j]) < StepsLeft(job[j])]_vars
  <2> SUFFICES ASSUME TimesFit, [Next]_vars, NEW j \in Jobs
               PROVE  /\ ~Suspended(j) /\ Suspended(j)' => TimeLeft(job'[j]) <= Longest
                      /\ Suspended(j) =>
                           \/ ~Suspended(j)'
                           \/ /\ TimeLeft(job'[j]) \in Nat
                              /\ TimeLeft(job'[j]) < TimeLeft(job[j])
                           \/ /\ ~Tick /\ TimeLeft(job'[j]) = TimeLeft(job[j])
                              /\ job'[j] # job[j] =>
                                   StepsLeft(job'[j]) < StepsLeft(job[j])
    OBVIOUS
  <2>1. /\ Suspended(j) <=> Busy(job[j])
        /\ Suspended(j)' <=> Busy(job'[j])
    BY DEF Suspended, Busy
  <2>2. InTime(job[j], job'[j])
    BY StepInTime
  <2>3. Tick /\ Busy(job[j]) => TimeLeft(job'[j]) \in Nat /\ TimeLeft(job'[j]) < TimeLeft(job[j])
    BY StepInTime
  <2> QED
    BY <2>1, <2>2, <2>3 DEF InTime, Closer
<1> QED
  BY <1>1, <1>2, <1>3, PTL DEF Spec, EndsInTime

=============================================================================
