------------------------- MODULE WorkflowEngineProof -------------------------
(***************************************************************************)
(* Theorems about WorkflowEngine: types, the operations that nobody waits  *)
(* for any more, how a run ends, and that the engine keeps the promise of  *)
(* StepGraph.                                                              *)
(***************************************************************************)
EXTENDS WorkflowEngine, FiniteSetTheorems, NaturalsInduction, WellFoundedInduction, TLAPS

Statuses == {"pending", "running"} \cup Settled
Places   == {"none", "announced", "executing", "reporting", "done"}

\* What the scheduler holds of a step and what the step's promise is doing agree.
Agree(st, pr) ==
  \A s \in Steps :
    /\ pr[s] = "none" <=> st[s] \in {"pending", "blocked"}
    /\ pr[s] \in {"announced", "executing"} <=> st[s] = "running"

InStep == Agree(status, promise)

\* The steps at these positions wait for nothing but their turn.
MayFollow(st, positions) ==
  \A i \in positions : /\ st[Order[i]] = "pending"
                       /\ \A d \in flow.needs[Order[i]] : st[d] = "succeeded"

\* A step is announced only while its event is awaited, one at a time, and what is on the
\* ready list behind it may still start.
ReadyFit ==
  /\ \A s \in Steps : promise[s] = "announced" => pc = "launching" /\ s = Foremost(ready)
  /\ pc = "launching" => /\ promise[Foremost(ready)] = "announced"
                         /\ MayFollow(status, Rest(ready))

\* An error is remembered exactly when a step failed.
FatalFit == fatal <=> \E s \in Steps : status[s] = "failed"

\* A run that is over is over for the reason it gives.
EndFit ==
  /\ pc = "ended" <=> outcome # "none"
  /\ outcome = "fatal" => fatal
  /\ outcome \in {"summary", "fatal"} => ~Open
  /\ outcome = "stalled" => Busy = {}

Fit == TypeOK /\ InStep /\ ReadyFit /\ FatalFit /\ EndFit
-----------------------------------------------------------------------------
(* The operators of the scheduler.                                         *)

\* A list of positions that is not empty has a first one.
LEMMA FirstInside ==
  ASSUME NEW S, S \subseteq Nat, S # {}
  PROVE  First(S) \in S /\ \A k \in S : First(S) <= k
<1>1. PICK i \in S : \A k \in S : ~ (<<k, i>> \in OpToRel(<, Nat))
  BY WFMin, NatLessThanWellFounded, Zenon
<1>2. \A k \in S : <<k, i>> \in Nat \X Nat
  OBVIOUS
<1>3. \A k \in S : ~ (k < i)
  BY <1>1, <1>2 DEF OpToRel
<1>4. \A k \in S : i <= k
  BY <1>3
<1> QED
  BY <1>4 DEF First

\* The first of the ready list is a step.
LEMMA ForemostStep ==
  ASSUME NEW S, S \subseteq DOMAIN Order, S # {}
  PROVE  /\ First(S) \in S /\ First(S) \in Nat /\ Rest(S) \subseteq DOMAIN Order
         /\ Foremost(S) \in Steps /\ Foremost(S) = Order[First(S)]
         /\ \A i \in Rest(S) : Order[i] \in Steps /\ Order[i] # Foremost(S)
<1>1. Order \in Seq(Steps)
  BY EngineAssumption
<1>2. S \subseteq Nat
  BY <1>1
<1>3. First(S) \in S
  BY <1>2, FirstInside
<1> QED
  BY <1>1, <1>2, <1>3, EngineAssumption DEF Rest, Foremost

\* There are as many steps as the definition lists.
LEMMA StepsFinite == IsFiniteSet(Steps)
<1>1. Order \in Seq(Steps)
  BY EngineAssumption
<1>2. DOMAIN Order = 1 .. Len(Order) /\ Len(Order) \in Nat
  BY <1>1
<1>3. Order \in [1 .. Len(Order) -> Steps]
  BY <1>1, <1>2
<1>4. Order \in Surjection(1 .. Len(Order), Steps)
  BY <1>2, <1>3, EngineAssumption DEF Surjection
<1>5. IsFiniteSet(1 .. Len(Order))
  BY <1>2, FS_Interval
<1> QED
  BY <1>4, <1>5, FS_Surjection

\* The steps a stretch of the scheduler finds under way, and the guard of the next launch.
UnderWay(pr) == {s \in Steps : pr[s] \in {"executing", "reporting"}}

\* Where a stretch of the scheduler stands when it comes to launch: the statuses st and the
\* promises pr it has in hand agree, nothing is announced, and rest may start.
Launchable(st, pr, rest) ==
  /\ st \in [Steps -> Statuses] /\ pr \in [Steps -> Places]
  /\ rest \subseteq DOMAIN Order
  /\ Agree(st, pr) /\ MayFollow(st, rest)
  /\ \A s \in Steps : pr[s] # "announced"
  /\ fatal <=> \E s \in Steps : st[s] = "failed"

LaunchTyped ==
  /\ pc' \in {"top", "scanning", "launching", "racing", "ended"}
  /\ status' \in [Steps -> Statuses] /\ promise' \in [Steps -> Places]
  /\ ready' \subseteq DOMAIN Order /\ (pc' = "launching" => ready' # {})
  /\ cursor' \in Nat \ {0} /\ raced' \subseteq Steps
  /\ outcome' \in {"none", "summary", "fatal", "aborted", "stalled"}

\* A launch announces the first of the list, or waits, or gives up; in each case what holds of
\* the scheduler holds again.
LEMMA LaunchFits ==
  ASSUME TypeOK, outcome = "none", NEW st, NEW pr, NEW rest,
         Launchable(st, pr, rest), Launch(st, pr, rest), UNCHANGED <<flow, fatal, aborted>>
  PROVE  LaunchTyped /\ InStep' /\ ReadyFit' /\ FatalFit' /\ EndFit'
<1>1. CASE rest # {} /\ Announce(st, pr, rest)
  <2> DEFINE s == Foremost(rest)
  <2>1. /\ s \in Steps /\ First(rest) \in rest /\ s = Order[First(rest)]
        /\ \A i \in Rest(rest) : Order[i] \in Steps /\ Order[i] # s
        /\ Rest(rest) \subseteq rest
    BY <1>1, ForemostStep DEF Launchable, Rest
  <2>2. /\ status' = [st EXCEPT ![s] = "running"] /\ promise' = [pr EXCEPT ![s] = "announced"]
        /\ pc' = "launching" /\ ready' = rest /\ UNCHANGED <<flow, fatal, cursor, raced, outcome>>
    BY <1>1 DEF Announce
  <2>3. st[s] = "pending" /\ \A d \in flow.needs[s] : st[d] = "succeeded"
    BY <2>1 DEF Launchable, MayFollow
  <2>4. LaunchTyped
    BY <1>1, <2>1, <2>2 DEF LaunchTyped, Launchable, TypeOK, Statuses, Places
  <2>5. InStep'
    BY <2>1, <2>2 DEF InStep, Agree, Launchable
  <2>6. MayFollow(status, Rest(ready))'
    <3> SUFFICES ASSUME NEW i \in Rest(rest)
                 PROVE  /\ status'[Order[i]] = "pending"
                        /\ \A d \in flow.needs[Order[i]] : status'[d] = "succeeded"
      BY <2>2 DEF MayFollow, Rest, First
    <3>1. Order[i] \in Steps /\ Order[i] # s /\ i \in rest
      BY <2>1
    <3>2. flow.needs[Order[i]] \subseteq Steps
      BY <3>1, EngineAssumption DEF TypeOK
    <3> QED
      BY <2>1, <2>2, <2>3, <3>1, <3>2 DEF Launchable, MayFollow
  <2>7. ReadyFit'
    <3>1. Foremost(ready)' = s
      BY <2>2 DEF Foremost, First
    <3> QED
      BY <2>1, <2>2, <2>6, <3>1 DEF ReadyFit, Launchable
  <2>8. FatalFit'
    BY <2>1, <2>2, <2>3 DEF FatalFit, Launchable
  <2>9. EndFit'
    BY <2>2 DEF EndFit
  <2> QED
    BY <2>4, <2>5, <2>7, <2>8, <2>9
<1>2. CASE Await(st, pr, UnderWay(pr))
  <2>1. /\ status' = st /\ promise' = pr /\ UNCHANGED <<flow, fatal>>
        /\ \/ /\ pc' \in {"racing", "top"} /\ ready' = {} /\ raced' \in {UnderWay(pr), raced}
              /\ UNCHANGED <<cursor, outcome>>
           \/ /\ pc' = "ended" /\ outcome' = "stalled" /\ UnderWay(pr) = {}
              /\ UNCHANGED <<ready, cursor, raced>>
    BY <1>2 DEF Await, End
  <2>2. LaunchTyped
    BY <2>1 DEF LaunchTyped, Launchable, TypeOK, UnderWay
  <2>3. InStep' /\ ReadyFit' /\ FatalFit'
    BY <2>1 DEF InStep, ReadyFit, FatalFit, Launchable, Agree
  <2>4. EndFit'
    BY <2>1 DEF EndFit, Busy, Launchable, UnderWay
  <2> QED
    BY <2>2, <2>3, <2>4
<1> QED
  BY <1>1, <1>2 DEF Launch, UnderWay

\* A launch starts one step, whose dependencies have succeeded and for which there is room, or
\* leaves the statuses as it found them.
LEMMA LaunchStarts ==
  ASSUME TypeOK, NEW st, NEW pr, NEW rest, Launchable(st, pr, rest), Launch(st, pr, rest)
  PROVE  \/ status' = st
         \/ \E s \in Steps : /\ st[s] = "pending"
                             /\ \A d \in flow.needs[s] : st[d] = "succeeded"
                             /\ Cardinality({i \in Steps : st[i] = "running"}) < Concurrency
                             /\ ~Stopped
                             /\ status' = [st EXCEPT ![s] = "running"]
<1>1. CASE rest # {} /\ MayStart(UnderWay(pr)) /\ Announce(st, pr, rest)
  <2>1. Foremost(rest) \in Steps /\ First(rest) \in rest /\ Foremost(rest) = Order[First(rest)]
    BY <1>1, ForemostStep DEF Launchable
  <2>2. {i \in Steps : st[i] = "running"} \subseteq UnderWay(pr) /\ UnderWay(pr) \subseteq Steps
    BY DEF Launchable, Agree, UnderWay
  <2>3. IsFiniteSet(UnderWay(pr))
    BY <2>2, StepsFinite, FS_Subset
  <2>4. /\ Cardinality({i \in Steps : st[i] = "running"}) <= Cardinality(UnderWay(pr))
        /\ Cardinality({i \in Steps : st[i] = "running"}) \in Nat
        /\ Cardinality(UnderWay(pr)) \in Nat
    BY <2>2, <2>3, FS_Subset, FS_CardinalityType
  <2>5. Cardinality({i \in Steps : st[i] = "running"}) < Concurrency /\ ~Stopped
    BY <1>1, <2>4, EngineAssumption DEF MayStart
  <2> QED
    BY <1>1, <2>1, <2>5 DEF Announce, Launchable, MayFollow
<1>2. CASE Await(st, pr, UnderWay(pr))
  BY <1>2 DEF Await
<1> QED
  BY <1>1, <1>2 DEF Launch, UnderWay

\* The statuses after fail-fast, and the steps that then need nothing but their turn.
AfterStop == [s \in Steps |-> IF Stopped /\ status[s] = "pending" THEN "blocked" ELSE status[s]]
ReadyNow  == {i \in DOMAIN Order : /\ AfterStop[Order[i]] = "pending"
                                   /\ \A d \in flow.needs[Order[i]] : AfterStop[d] = "succeeded"}

\* The scan of a turn ends in a launch ...
LEMMA DispatchLaunches ==
  ASSUME Fit, pc # "launching"
  PROVE  /\ Dispatch <=> Launch(AfterStop, promise, ReadyNow)
         /\ Launchable(AfterStop, promise, ReadyNow)
<1>1. Dispatch <=> Launch(AfterStop, promise, ReadyNow)
  BY DEF Dispatch, AfterStop, ReadyNow
<1>2. AfterStop \in [Steps -> Statuses] /\ promise \in [Steps -> Places]
  BY DEF Fit, TypeOK, AfterStop, Statuses, Places, Settled
<1>3. MayFollow(AfterStop, ReadyNow) /\ ReadyNow \subseteq DOMAIN Order
  BY DEF MayFollow, ReadyNow
<1>4. \A s \in Steps : promise[s] # "announced"
  BY DEF Fit, ReadyFit
<1>5. Agree(AfterStop, promise)
  BY DEF Fit, InStep, Agree, AfterStop
<1>6. fatal <=> \E s \in Steps : AfterStop[s] = "failed"
  BY DEF Fit, FatalFit, AfterStop
<1> QED
  BY <1>1, <1>2, <1>3, <1>4, <1>5, <1>6 DEF Launchable

\* ... or blocks one step that needs a step that did not succeed.
LEMMA ScanBlocks ==
  ASSUME Fit, NEW c \in Nat \ {0}, Scan(c), ~Dispatch
  PROVE  \E s \in Steps : /\ Doomed(s)
                          /\ status' = [status EXCEPT ![s] = "blocked"]
                          /\ pc' = "scanning" /\ cursor' \in Nat \ {0}
                          /\ UNCHANGED <<ready, raced, promise, outcome>>
<1> DEFINE found == {i \in c..Len(Order) : Doomed(Order[i])}
<1>1. Order \in Seq(Steps) /\ Len(Order) \in Nat
  BY EngineAssumption
<1>2. found \subseteq Nat /\ found \subseteq DOMAIN Order /\ found # {}
  BY <1>1 DEF Scan
<1>3. First(found) \in found
  BY <1>2, FirstInside
<1>4. Foremost(found) \in Steps /\ First(found) \in Nat /\ Doomed(Foremost(found))
  BY <1>1, <1>2, <1>3 DEF Foremost
<1> QED
  BY <1>1, <1>2, <1>4 DEF Scan, Foremost

-----------------------------------------------------------------------------
(* The invariant.                                                          *)

LEMMA InitFits == Init => Fit /\ UnwatchedWereTold
<1> SUFFICES ASSUME Init PROVE Fit /\ UnwatchedWereTold
  OBVIOUS
<1>1. TypeOK
  <2>1. /\ status \in [Steps -> {"pending", "running"} \cup Settled]
        /\ promise \in [Steps -> Places] /\ attempt \in [Steps -> Nat]
    BY DEF Init, Places
  <2>2. fatal \in BOOLEAN /\ aborted \in BOOLEAN
    BY Zenon DEF Init
  <2>3. /\ pc = "top" /\ ready = {} /\ cursor \in Nat \ {0} /\ outcome = "none"
        /\ flow \in Flows /\ raced \subseteq Steps
        /\ working \subseteq Attempts /\ told \subseteq Attempts
    BY DEF Init
  <2> QED
    BY <2>1, <2>2, <2>3, Zenon DEF TypeOK, Places
<1>2. InStep /\ ReadyFit /\ FatalFit /\ EndFit
  BY DEF Init, InStep, Agree, ReadyFit, FatalFit, EndFit
<1> QED
  BY <1>1, <1>2 DEF Fit, Init, UnwatchedWereTold

\* A scan leaves everything as it should be, wherever it begins.
LEMMA ScanFits ==
  ASSUME Fit, pc # "launching", pc # "ended", NEW c \in Nat \ {0}, Scan(c),
         UNCHANGED <<flow, fatal, aborted>>
  PROVE  LaunchTyped /\ InStep' /\ ReadyFit' /\ FatalFit' /\ EndFit'
<1>1. CASE Dispatch
  BY <1>1, DispatchLaunches, LaunchFits DEF Fit, EndFit
<1>2. CASE ~Dispatch
  <2>1. PICK s \in Steps : /\ Doomed(s)
                           /\ status' = [status EXCEPT ![s] = "blocked"]
                           /\ pc' = "scanning" /\ cursor' \in Nat \ {0}
                           /\ UNCHANGED <<ready, raced, promise, outcome>>
    BY <1>2, ScanBlocks
  <2>2. LaunchTyped
    BY <2>1 DEF LaunchTyped, Fit, TypeOK, Statuses, Settled, Places
  <2>3. InStep'
    BY <2>1 DEF Fit, TypeOK, InStep, Agree, Doomed
  <2>4. ReadyFit' /\ EndFit'
    BY <2>1 DEF Fit, ReadyFit, EndFit
  <2>5. FatalFit'
    BY <2>1 DEF Fit, TypeOK, FatalFit, Doomed
  <2> QED
    BY <2>2, <2>3, <2>4, <2>5
<1> QED
  BY <1>1, <1>2

\* The event about a step's start is out, and the next launch is due.
LEMMA BeginLaunches ==
  ASSUME Fit, Begin
  PROVE  LET s == Foremost(ready)
             pr == [promise EXCEPT ![s] = "executing"]
         IN  /\ s \in Steps /\ promise[s] = "announced"
             /\ Launch(status, pr, Rest(ready))
             /\ Launchable(status, pr, Rest(ready))
             /\ attempt' = [attempt EXCEPT ![s] = 1]
             /\ working' = working \cup {<<s, 1>>}
             /\ UNCHANGED <<flow, fatal, aborted, told>>
<1> DEFINE s == Foremost(ready)
           pr == [promise EXCEPT ![s] = "executing"]
<1>1. pc = "launching" /\ ready # {} /\ ready \subseteq DOMAIN Order
  BY DEF Begin, Fit, TypeOK
<1>2. s \in Steps /\ Rest(ready) \subseteq DOMAIN Order
  BY <1>1, ForemostStep
<1>3. promise[s] = "announced" /\ MayFollow(status, Rest(ready))
  BY <1>1 DEF Fit, ReadyFit
<1>4. status \in [Steps -> Statuses] /\ pr \in [Steps -> Places]
  BY DEF Fit, TypeOK, Statuses, Settled, Places
<1>5. Agree(status, pr) /\ \A i \in Steps : pr[i] # "announced"
  BY <1>2, <1>3 DEF Fit, TypeOK, InStep, Agree, ReadyFit
<1>6. Launchable(status, pr, Rest(ready))
  BY <1>2, <1>3, <1>4, <1>5 DEF Launchable, Fit, FatalFit
<1> QED
  BY <1>2, <1>3, <1>6 DEF Begin

\* The ways in which a step's promise goes on, as the scheduler can tell them apart.
KeepsAtIt(s) == UNCHANGED <<status, promise, fatal>>

Settles(s) ==
  /\ promise[s] = "executing"
  /\ \E end \in {"succeeded", "failed"} :
       /\ status' = [status EXCEPT ![s] = end]
       /\ fatal' = (fatal \/ end = "failed")
  /\ promise' = [promise EXCEPT ![s] = "reporting"]

Leaves(s) ==
  /\ promise[s] = "reporting"
  /\ promise' = [promise EXCEPT ![s] = "done"]
  /\ UNCHANGED <<status, fatal>>

LEMMA RecoverCases ==
  ASSUME Fit, NEW s \in Steps, NEW left, promise[s] = "executing", Recover(s, left)
  PROVE  KeepsAtIt(s) \/ Settles(s)
<1>1. fatal \in BOOLEAN
  BY DEF Fit, TypeOK
<1>2. CASE ~aborted /\ attempt[s] <= flow.retries
  BY <1>2 DEF Recover, KeepsAtIt
<1>3. CASE ~(~aborted /\ attempt[s] <= flow.retries)
  <2>1. fatal' = (fatal \/ "failed" = "failed")
    BY <1>3, <1>1, Zenon DEF Recover
  <2> QED
    BY <1>3, <2>1, Zenon DEF Recover, Settles
<1> QED
  BY <1>2, <1>3

LEMMA StepCases ==
  ASSUME Fit, NEW s \in Steps, Step(s)
  PROVE  /\ KeepsAtIt(s) \/ Settles(s) \/ Leaves(s)
         /\ UNCHANGED <<flow, aborted, schedulerVars>>
<1>1. fatal \in BOOLEAN
  BY DEF Fit, TypeOK
<1>2. CASE Succeed(s)
  <2>1. fatal' = (fatal \/ "succeeded" = "failed")
    BY <1>1, <1>2 DEF Succeed
  <2> QED
    BY <1>2, <2>1, Zenon DEF Succeed, Settles
<1>3. CASE Throw(s)
  BY <1>3, RecoverCases DEF Throw, Recover
<1>4. CASE Expire(s)
  BY <1>4, RecoverCases DEF Expire, Recover
<1>5. CASE Interrupted(s)
  BY <1>5, RecoverCases DEF Interrupted, Recover
<1>6. CASE Reported(s)
  BY <1>6 DEF Reported, Leaves
<1> QED
  BY <1>2, <1>3, <1>4, <1>5, <1>6 DEF Step

\* Whatever a step's promise does, what holds of the scheduler holds again.
LEMMA StepFits ==
  ASSUME Fit, NEW s \in Steps, KeepsAtIt(s) \/ Settles(s) \/ Leaves(s),
         UNCHANGED <<flow, aborted, schedulerVars>>
  PROVE  /\ status' \in [Steps -> Statuses] /\ promise' \in [Steps -> Places] /\ fatal' \in BOOLEAN
         /\ InStep' /\ ReadyFit' /\ FatalFit' /\ EndFit'
<1> USE DEF schedulerVars
<1>0. /\ status \in [Steps -> Statuses] /\ promise \in [Steps -> Places] /\ fatal \in BOOLEAN
      /\ Foremost(ready)' = Foremost(ready) /\ Rest(ready)' = Rest(ready)
  BY DEF Fit, TypeOK, Statuses, Settled, Places, Foremost, Rest, First
<1>1. CASE KeepsAtIt(s)
  <2>1. InStep' /\ FatalFit' /\ EndFit'
    BY <1>1 DEF KeepsAtIt, Fit, InStep, FatalFit, EndFit, Open, Busy
  <2>2. ReadyFit'
    BY <1>1, <1>0 DEF KeepsAtIt, Fit, ReadyFit, MayFollow
  <2> QED
    BY <1>0, <1>1, <2>1, <2>2 DEF KeepsAtIt
<1>2. CASE Leaves(s)
  <2>1. promise' \in [Steps -> Places]
    BY <1>0, <1>2 DEF Leaves, Places
  <2>2. InStep' /\ FatalFit'
    BY <1>0, <1>2 DEF Leaves, Fit, InStep, Agree, FatalFit
  <2>3. EndFit'
    BY <1>0, <1>2 DEF Leaves, Fit, EndFit, Open, Busy
  <2>4. ReadyFit'
    BY <1>0, <1>2 DEF Leaves, Fit, ReadyFit, MayFollow
  <2> QED
    BY <1>0, <1>2, <2>1, <2>2, <2>3, <2>4 DEF Leaves
<1>3. CASE Settles(s)
  <2>1. PICK end \in {"succeeded", "failed"} :
          /\ status' = [status EXCEPT ![s] = end]
          /\ fatal' = (fatal \/ end = "failed")
    BY <1>3 DEF Settles
  <2>2. /\ promise[s] = "executing" /\ status[s] = "running"
        /\ promise' = [promise EXCEPT ![s] = "reporting"]
    BY <1>3 DEF Settles, Fit, InStep, Agree
  <2>3. status' \in [Steps -> Statuses] /\ promise' \in [Steps -> Places]
    BY <1>0, <2>1, <2>2 DEF Statuses, Settled, Places
  <2>4. fatal' \in BOOLEAN
    BY <1>0, <2>1
  <2>5. InStep'
    BY <1>0, <2>1, <2>2 DEF Fit, InStep, Agree
  <2>6. FatalFit'
    BY <1>0, <2>1, <2>2 DEF Fit, FatalFit
  <2>7. MayFollow(status, Rest(ready)) => MayFollow(status, Rest(ready))'
    <3> SUFFICES ASSUME MayFollow(status, Rest(ready)), NEW i \in Rest(ready)
                 PROVE  /\ status'[Order[i]] = "pending"
                        /\ \A d \in flow.needs[Order[i]] : status'[d] = "succeeded"
      BY <1>0 DEF MayFollow
    <3> QED
      BY <1>0, <2>1, <2>2 DEF MayFollow
  <2>8. ReadyFit'
    BY <1>0, <2>2, <2>7 DEF Fit, ReadyFit
  <2>9. EndFit'
    <3>1. Open
      BY <2>2 DEF Open
    <3>2. Busy' \subseteq Busy
      BY <1>0, <2>2 DEF Busy
    <3> QED
      BY <2>1, <3>1, <3>2 DEF Fit, EndFit
  <2> QED
    BY <2>3, <2>4, <2>5, <2>6, <2>8, <2>9
<1> QED
  BY <1>1, <1>2, <1>3

\* Attempts are numbered from one.
AttemptsTyped == attempt \in [Steps -> Nat] /\ working \subseteq Attempts /\ told \subseteq Attempts

LEMMA RecoverTyped ==
  ASSUME Fit, NEW s \in Steps, NEW left \in SUBSET Attempts, Recover(s, left)
  PROVE  attempt' \in [Steps -> Nat] /\ working' \subseteq Attempts
  BY DEF Recover, Fit, TypeOK, Attempts

LEMMA AttemptsStayTyped ==
  ASSUME Fit, [Next]_vars
  PROVE  AttemptsTyped'
<1>0. AttemptsTyped
  BY DEF Fit, TypeOK, AttemptsTyped
<1>1. CASE UNCHANGED <<attempt, working, told>>
  BY <1>0, <1>1 DEF AttemptsTyped
<1>2. CASE Begin
  BY <1>0, <1>2, BeginLaunches DEF AttemptsTyped, Attempts
<1>3. ASSUME NEW s \in Steps, Step(s) PROVE AttemptsTyped'
  <2>1. CASE Succeed(s)
    BY <1>0, <2>1 DEF Succeed, AttemptsTyped
  <2>2. CASE Throw(s)
    BY <1>0, <2>2, RecoverTyped DEF Throw, AttemptsTyped
  <2>3. CASE Expire(s)
    BY <1>0, <2>3, RecoverTyped DEF Expire, AttemptsTyped
  <2>4. CASE Interrupted(s)
    BY <1>0, <2>4, RecoverTyped DEF Interrupted, AttemptsTyped
  <2>5. CASE Reported(s)
    BY <1>0, <2>5 DEF Reported, AttemptsTyped
  <2> QED
    BY <1>3, <2>1, <2>2, <2>3, <2>4, <2>5 DEF Step
<1>4. CASE (\E a \in working : Fade(a)) \/ Abort
  BY <1>0, <1>4 DEF Fade, Abort, AttemptsTyped, Current
<1> QED
  BY <1>1, <1>2, <1>3, <1>4
     DEF Next, Scheduler, Turn, ContinueScan, Wake, Over, vars, stepVars

\* Every step of the run leaves what fits fitting.
LEMMA NextFits ==
  ASSUME Fit, [Next]_vars
  PROVE  Fit'
<1>0. AttemptsTyped'
  BY AttemptsStayTyped
<1>1. ASSUME LaunchTyped, UNCHANGED <<flow, fatal, aborted>> PROVE TypeOK'
  BY <1>0, <1>1 DEF LaunchTyped, AttemptsTyped, Fit, TypeOK, Statuses, Places
<1>2. CASE Turn
  <2>1. CASE ~Open \/ aborted
    <3>1. /\ pc' = "ended" /\ UNCHANGED <<ready, cursor, raced, status, promise, flow, fatal, aborted>>
          /\ \/ outcome' = "aborted"
             \/ ~Open /\ outcome' = "summary"
             \/ ~Open /\ outcome' = "fatal" /\ fatal
      BY <1>2, <2>1 DEF Turn, End, Stopped
    <3>2. LaunchTyped
      BY <3>1 DEF Fit, TypeOK, LaunchTyped, Statuses, Places
    <3>3. ReadyFit'
      BY <1>2, <3>1 DEF Turn, Fit, ReadyFit
    <3>4. InStep' /\ FatalFit' /\ EndFit'
      BY <3>1 DEF Fit, InStep, FatalFit, EndFit, Open
    <3> QED
      BY <1>1, <3>1, <3>2, <3>3, <3>4 DEF Fit
  <2>2. CASE Open /\ ~aborted
    BY <1>1, <1>2, <2>2, ScanFits DEF Turn, Fit
  <2> QED
    BY <2>1, <2>2
<1>3. CASE ContinueScan
  BY <1>1, <1>3, ScanFits DEF ContinueScan, Fit, TypeOK
<1>4. CASE Begin
  <2>1. pc = "launching" /\ outcome = "none"
    BY <1>4 DEF Begin, Fit, EndFit
  <2>2. LaunchTyped /\ InStep' /\ ReadyFit' /\ FatalFit' /\ EndFit' /\ UNCHANGED <<flow, fatal, aborted>>
    BY <1>4, <2>1, BeginLaunches, LaunchFits DEF Fit
  <2> QED
    BY <1>1, <2>2 DEF Fit
<1>5. CASE Wake
  <2>1. LaunchTyped /\ UNCHANGED <<flow, fatal, aborted>>
    BY <1>5 DEF Wake, stepVars, Fit, TypeOK, LaunchTyped, Statuses, Places
  <2>2. InStep' /\ ReadyFit' /\ FatalFit' /\ EndFit'
    BY <1>5 DEF Wake, stepVars, Fit, InStep, ReadyFit, FatalFit, EndFit, Open, Busy
  <2> QED
    BY <1>1, <2>1, <2>2 DEF Fit
<1>6. ASSUME NEW s \in Steps, Step(s) PROVE Fit'
  <2>1. /\ status' \in [Steps -> Statuses] /\ promise' \in [Steps -> Places] /\ fatal' \in BOOLEAN
        /\ InStep' /\ ReadyFit' /\ FatalFit' /\ EndFit'
        /\ UNCHANGED <<flow, aborted, schedulerVars>>
    BY <1>6, StepCases, StepFits
  <2>2. TypeOK'
    BY <1>0, <2>1 DEF schedulerVars, AttemptsTyped, Fit, TypeOK, Statuses, Places
  <2> QED
    BY <2>1, <2>2 DEF Fit
<1>7. ASSUME UNCHANGED <<flow, status, fatal, promise, pc, ready, cursor, raced, outcome>>,
             aborted' \in BOOLEAN
      PROVE  Fit'
  <2>1. TypeOK'
    BY <1>0, <1>7 DEF AttemptsTyped, Fit, TypeOK
  <2>2. InStep' /\ FatalFit' /\ EndFit'
    BY <1>7 DEF Fit, InStep, FatalFit, EndFit, Open, Busy
  <2>3. ReadyFit'
    BY <1>7 DEF Fit, ReadyFit, MayFollow, Rest, Foremost, First
  <2> QED
    BY <2>1, <2>2, <2>3 DEF Fit
<1>8. CASE (\E a \in working : Fade(a)) \/ Abort \/ UNCHANGED vars
  <2>1. aborted \in BOOLEAN
    BY DEF Fit, TypeOK
  <2> QED
    BY <1>7, <1>8, <2>1 DEF Fade, Abort, schedulerVars, vars
<1> QED
  BY <1>2, <1>3, <1>4, <1>5, <1>6, <1>8 DEF Next, Scheduler, Over

\* The model stays within its types: what the scheduler, the steps and their attempts hold.
THEOREM TypeCorrect == Spec => []TypeOK
<1>1. Init => Fit
  BY InitFits
<1>2. Fit /\ [Next]_vars => Fit'
  BY NextFits
<1>3. Fit => TypeOK
  BY DEF Fit
<1> QED
  BY <1>1, <1>2, <1>3, PTL DEF Spec

\* What is said of a run once it is over is true, and final: unless it was aborted no step is at
\* work when run() returns, and the verdict is what the steps came to (engine.js, run).
THEOREM EndsTruly == Spec => []EndsHonestly
<1>1. Fit => EndsHonestly
  <2> SUFFICES ASSUME Fit PROVE EndsHonestly
    OBVIOUS
  <2>1. ~Open => Busy = {}
    BY DEF Fit, InStep, Agree, Open, Busy
  <2> QED
    BY <2>1 DEF Fit, FatalFit, EndFit, EndsHonestly, QuietEnd, VerdictHonest
<1> QED
  BY <1>1, InitFits, NextFits, PTL DEF Spec

-----------------------------------------------------------------------------
(* Operations that nobody waits for.                                       *)

\* An attempt that failed, timed out or was interrupted is no operation any more, or was told.
LEMMA RecoverTells ==
  ASSUME Fit, UnwatchedWereTold, NEW s \in Steps, promise[s] = "executing",
         NEW left \in SUBSET working, Recover(s, left), told \subseteq told',
         Latest(s) \in left => Latest(s) \in told'
  PROVE  UnwatchedWereTold'
<1>1. /\ promise \in [Steps -> Places] /\ attempt \in [Steps -> Nat]
      /\ working \subseteq Attempts
  BY DEF Fit, TypeOK, Places
<1>2. \A a \in working : a \in Current \/ a \in told
  BY DEF UnwatchedWereTold
<1>3. ASSUME NEW a \in left, a \notin told' PROVE a \in Current /\ a[1] # s
  <2>1. a \in Attempts /\ a = <<a[1], a[2]>> /\ a \in Current
    BY <1>1, <1>2, <1>3 DEF Attempts
  <2> QED
    BY <1>3, <2>1 DEF Current, Latest
<1>4. CASE ~aborted /\ attempt[s] <= flow.retries
  <2>1. /\ attempt' = [attempt EXCEPT ![s] = @ + 1] /\ promise' = promise
        /\ working' = left \cup {<<s, attempt[s] + 1>>}
    BY <1>4 DEF Recover
  <2>2. <<s, attempt[s] + 1>> \in Current'
    BY <1>1, <2>1 DEF Current
  <2>3. ASSUME NEW a \in left, a \notin told' PROVE a \in Current'
    BY <1>1, <1>3, <2>1, <2>3 DEF Current, Attempts
  <2> QED
    BY <2>1, <2>2, <2>3 DEF UnwatchedWereTold
<1>5. CASE ~(~aborted /\ attempt[s] <= flow.retries)
  <2>1. /\ attempt' = attempt /\ promise' = [promise EXCEPT ![s] = "reporting"]
        /\ working' = left
    BY <1>5 DEF Recover
  <2>2. ASSUME NEW a \in left, a \notin told' PROVE a \in Current'
    BY <1>1, <1>3, <2>1, <2>2 DEF Current, Attempts
  <2> QED
    BY <2>1, <2>2 DEF UnwatchedWereTold
<1> QED
  BY <1>4, <1>5

\* A launch makes no step execute that was not executing in what it had in hand.
LEMMA LaunchExecutes ==
  ASSUME NEW st, NEW pr, NEW rest, Launchable(st, pr, rest), Launch(st, pr, rest)
  PROVE  \A i \in Steps : promise'[i] = "executing" <=> pr[i] = "executing"
<1>1. CASE rest # {} /\ Announce(st, pr, rest)
  <2>1. /\ Foremost(rest) \in Steps /\ First(rest) \in rest
        /\ Foremost(rest) = Order[First(rest)]
    BY <1>1, ForemostStep DEF Launchable
  <2>2. pr[Foremost(rest)] # "executing"
    BY <2>1 DEF Launchable, MayFollow, Agree
  <2> QED
    BY <1>1, <2>1, <2>2 DEF Announce, Launchable
<1>2. CASE Await(st, pr, UnderWay(pr))
  BY <1>2 DEF Await
<1> QED
  BY <1>1, <1>2 DEF Launch, UnderWay

LEMMA ScanExecutes ==
  ASSUME Fit, pc # "launching", NEW c \in Nat \ {0}, Scan(c)
  PROVE  \A i \in Steps : promise'[i] = "executing" <=> promise[i] = "executing"
<1>1. CASE Dispatch
  BY <1>1, DispatchLaunches, LaunchExecutes
<1>2. CASE ~Dispatch
  BY <1>2, ScanBlocks
<1> QED
  BY <1>1, <1>2

LEMMA UnwatchedStayTold ==
  ASSUME Fit, UnwatchedWereTold, [Next]_vars
  PROVE  UnwatchedWereTold'
<1>1. /\ promise \in [Steps -> Places] /\ attempt \in [Steps -> Nat]
      /\ working \subseteq Attempts
  BY DEF Fit, TypeOK, Places
<1>2. ASSUME UNCHANGED <<promise, attempt, working, told>> PROVE UnwatchedWereTold'
  BY <1>2 DEF UnwatchedWereTold, Current
<1>3. ASSUME \A i \in Steps : promise'[i] = "executing" <=> promise[i] = "executing",
             UNCHANGED <<attempt, working, told>>
      PROVE  UnwatchedWereTold'
  BY <1>1, <1>3 DEF UnwatchedWereTold, Current, Attempts
<1>4. CASE Turn \/ ContinueScan
  BY <1>2, <1>3, <1>4, ScanExecutes DEF Turn, ContinueScan, Fit, TypeOK, End
<1>5. CASE Begin
  <2> DEFINE s == Foremost(ready)
  <2>1. /\ s \in Steps /\ promise[s] = "announced" /\ told' = told
        /\ attempt' = [attempt EXCEPT ![s] = 1]
        /\ working' = working \cup {<<s, 1>>}
        /\ \A i \in Steps : promise'[i] = "executing" <=> promise[i] = "executing" \/ i = s
    <3> DEFINE pr == [promise EXCEPT ![s] = "executing"]
    <3>1. \A i \in Steps : promise'[i] = "executing" <=> pr[i] = "executing"
      BY <1>5, BeginLaunches, LaunchExecutes
    <3>2. \A i \in Steps : pr[i] = "executing" <=> promise[i] = "executing" \/ i = s
      BY <1>1
    <3>3. /\ s \in Steps /\ promise[s] = "announced" /\ told' = told
          /\ attempt' = [attempt EXCEPT ![s] = 1]
          /\ working' = working \cup {<<s, 1>>}
      BY <1>5, BeginLaunches
    <3> QED
      BY <3>1, <3>2, <3>3
  <2>2. <<s, 1>> \in Current'
    BY <1>1, <2>1 DEF Current
  <2>3. ASSUME NEW a \in working, a \notin told PROVE a \in Current'
    BY <1>1, <2>1, <2>3 DEF UnwatchedWereTold, Current, Attempts
  <2> QED
    BY <2>1, <2>2, <2>3 DEF UnwatchedWereTold
<1>6. CASE Wake \/ Over \/ UNCHANGED vars
  BY <1>2, <1>6 DEF Wake, Over, stepVars, vars
<1>7. ASSUME NEW s \in Steps, Step(s) PROVE UnwatchedWereTold'
  <2>1. CASE Succeed(s)
    BY <1>1, <2>1 DEF Succeed, UnwatchedWereTold, Current, Latest, Attempts
  <2>2. CASE Throw(s)
    BY <2>2, RecoverTells DEF Throw
  <2>3. CASE Expire(s)
    BY <2>3, RecoverTells DEF Expire
  <2>4. CASE Interrupted(s)
    BY <2>4, RecoverTells DEF Interrupted
  <2>5. CASE Reported(s)
    BY <1>1, <1>3, <2>5 DEF Reported
  <2> QED
    BY <1>7, <2>1, <2>2, <2>3, <2>4, <2>5 DEF Step
<1>8. CASE Abort \/ \E a \in working : Fade(a)
  BY <1>8 DEF Abort, Fade, UnwatchedWereTold, Current
<1> QED
  BY <1>4, <1>5, <1>6, <1>7, <1>8 DEF Next, Scheduler

\* An operation that goes on after its step stopped waiting for it has been told to stop
\* (engine.js, withTimeout).
THEOREM ToldToStop == Spec => []UnwatchedWereTold
<1>1. Init => Fit /\ UnwatchedWereTold
  BY InitFits
<1>2. Fit /\ UnwatchedWereTold /\ [Next]_vars => (Fit /\ UnwatchedWereTold)'
  BY NextFits, UnwatchedStayTold
<1> QED
  BY <1>1, <1>2, PTL DEF Spec

-----------------------------------------------------------------------------
(* The promise of StepGraph.                                               *)

LEMMA StartsAsPromised ==
  ASSUME Fit, NEW s \in Steps, status[s] = "pending", UNCHANGED flow, ~Stopped,
         \A d \in flow.needs[s] : status[d] = "succeeded",
         Cardinality({i \in Steps : status[i] = "running"}) < Concurrency,
         status' = [status EXCEPT ![s] = "running"]
  PROVE  Promise!Next
<1>1. flow.needs[s] \subseteq Promise!StepsWith("succeeded")
  BY EngineAssumption DEF Fit, TypeOK, Promise!StepsWith
<1>2. ~Promise!Halted
  BY DEF Fit, FatalFit, Stopped, Promise!Halted, Promise!StepsWith
<1>3. \A S : Promise!Cardinality(S) = Cardinality(S)
  BY Zenon DEF Cardinality, Promise!Cardinality
<1>4. Promise!Start(s)
  BY <1>1, <1>2, <1>3 DEF Promise!Start, Promise!StepsWith
<1> QED
  BY <1>4 DEF Promise!Next

LEMMA ScanKeepsPromise ==
  ASSUME Fit, pc # "launching", NEW c \in Nat \ {0}, Scan(c), UNCHANGED flow
  PROVE  Promise!Next \/ status' = status
<1>1. CASE Dispatch
  <2>1. CASE status' = AfterStop
    <3>1. CASE ~Stopped
      BY <2>1, <3>1 DEF AfterStop, Fit, TypeOK
    <3>2. CASE Stopped
      <4> DEFINE S == Promise!StepsWith("pending")
      <4>1. Promise!Halted
        BY <3>2 DEF Stopped, Fit, FatalFit, Promise!Halted, Promise!StepsWith
      <4>2. status' = [s \in Steps |-> IF s \in S THEN "blocked" ELSE status[s]]
        BY <2>1, <3>2 DEF AfterStop, Promise!StepsWith
      <4>3. Promise!Block(S) /\ S \in SUBSET Steps
        BY <4>1, <4>2 DEF Promise!Block, Promise!StepsWith
      <4> QED
        BY <4>3 DEF Promise!Next
    <3> QED
      BY <3>1, <3>2
  <2>2. CASE status' # AfterStop
    <3>1. PICK s \in Steps : /\ AfterStop[s] = "pending"
                             /\ \A d \in flow.needs[s] : AfterStop[d] = "succeeded"
                             /\ Cardinality({i \in Steps : AfterStop[i] = "running"}) < Concurrency
                             /\ ~Stopped
                             /\ status' = [AfterStop EXCEPT ![s] = "running"]
      BY <1>1, <2>2, DispatchLaunches, LaunchStarts DEF Fit
    <3>2. AfterStop = status
      BY <3>1 DEF AfterStop, Fit, TypeOK
    <3> QED
      BY <3>1, <3>2, StartsAsPromised
  <2> QED
    BY <2>1, <2>2
<1>2. CASE ~Dispatch
  <2>1. PICK s \in Steps : Doomed(s) /\ status' = [status EXCEPT ![s] = "blocked"]
    BY <1>2, ScanBlocks
  <2>2. {s} \subseteq Promise!StepsWith("pending") /\ {s} \in SUBSET Steps
    BY <2>1 DEF Doomed, Promise!StepsWith
  <2>3. flow.needs[s] \subseteq Steps
    BY EngineAssumption DEF Fit, TypeOK
  <2>4. flow.needs[s] \cap (Promise!StepsWith("failed") \cup Promise!StepsWith("blocked")) # {}
    BY <2>1, <2>3 DEF Doomed, Failing, Promise!StepsWith
  <2>5. status' = [i \in Steps |-> IF i \in {s} THEN "blocked" ELSE status[i]]
    BY <2>1 DEF Fit, TypeOK
  <2>6. Promise!Block({s})
    BY <2>2, <2>4, <2>5 DEF Promise!Block
  <2> QED
    BY <2>2, <2>6 DEF Promise!Next
<1> QED
  BY <1>1, <1>2

\* Each step of the engine starts, ends or blocks steps as StepGraph has it, or changes no status.
LEMMA NextKeepsPromise ==
  ASSUME Fit, [Next]_vars
  PROVE  [Promise!Next]_<<flow, status>>
<1>1. flow' = flow
  BY StepCases, BeginLaunches
     DEF Next, Scheduler, Turn, ContinueScan, Wake, Over, Fade, Abort, vars
<1>2. CASE Turn \/ ContinueScan
  BY <1>1, <1>2, ScanKeepsPromise DEF Turn, ContinueScan, Fit, TypeOK
<1>3. CASE Begin
  <2> DEFINE pr == [promise EXCEPT ![Foremost(ready)] = "executing"]
  <2>1. Launchable(status, pr, Rest(ready)) /\ Launch(status, pr, Rest(ready))
    BY <1>3, BeginLaunches
  <2>2. CASE status' = status
    BY <1>1, <2>2
  <2>3. CASE status' # status
    BY <1>1, <2>1, <2>3, LaunchStarts, StartsAsPromised DEF Fit
  <2> QED
    BY <2>2, <2>3
<1>4. ASSUME NEW s \in Steps, Step(s) PROVE Promise!Next \/ status' = status
  <2>1. CASE Settles(s)
    <3>1. status[s] = "running"
      BY <2>1 DEF Settles, Fit, InStep, Agree
    <3>2. Promise!Finish(s)
      BY <2>1, <3>1 DEF Settles, Promise!Finish
    <3> QED
      BY <1>1, <3>2 DEF Promise!Next
  <2>2. CASE KeepsAtIt(s) \/ Leaves(s)
    BY <2>2 DEF KeepsAtIt, Leaves
  <2> QED
    BY <1>4, <2>1, <2>2, StepCases
<1>5. CASE Wake \/ Over \/ Abort \/ (\E a \in working : Fade(a)) \/ UNCHANGED vars
  BY <1>5 DEF Wake, Over, Abort, Fade, vars
<1> QED
  BY <1>1, <1>2, <1>3, <1>4, <1>5 DEF Next, Scheduler

\* The engine keeps the promise of StepGraph: a step starts when its dependencies have succeeded
\* and there is room, ends once, and is blocked only when it cannot start any more.
THEOREM Implements == Spec => StepsInOrder
<1>1. Init => Promise!Init
  BY DEF Init, Promise!Init
<1>2. Init => Fit
  BY InitFits
<1>3. Fit /\ [Next]_vars => Fit' /\ [Promise!Next]_<<flow, status>>
  BY NextFits, NextKeepsPromise
<1> QED
  BY <1>1, <1>2, <1>3, PTL DEF Spec, StepsInOrder, Promise!Spec
=============================================================================
