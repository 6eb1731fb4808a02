--------------------------- MODULE WorkflowEngine ----------------------------
(***************************************************************************)
(* The workflow scheduler: WorkflowEngine.run, the promise of every step   *)
(* it starts (executeWithRetry), and the attempts those make (withTimeout).*)
(*                                                                         *)
(* JavaScript interleaves at an await only, so an action runs from one     *)
(* await to the next.  The scheduler awaits the events it emits (a plugin  *)
(* in its own process may be listening) and the race of the running steps; *)
(* a step awaits its attempt and the event that reports its end.           *)
(***************************************************************************)
EXTENDS Naturals, Sequences, FiniteSets

CONSTANTS
  Steps,
  Order,        \* the steps in the order the definition lists them
  Flows,        \* definitions that may be run: [needs, failFast, retries]
  Concurrency

\* What validateSteps lets through: known dependencies that form no cycle.
Acyclic(needs) ==
  \A S \in SUBSET Steps : S # {} => \E s \in S : needs[s] \cap S = {}

ASSUME EngineAssumption ==
  /\ Order \in Seq(Steps) /\ \A s \in Steps : \E i \in DOMAIN Order : Order[i] = s
  /\ \A i, k \in DOMAIN Order : Order[i] = Order[k] => i = k
  /\ Concurrency \in Nat \ {0}
  /\ Flows \subseteq [needs : [Steps -> SUBSET Steps], failFast : BOOLEAN, retries : Nat]
  /\ \A f \in Flows : Acyclic(f.needs)

VARIABLES
  flow,         \* the definition this run executes
  pc,           \* where run() is suspended
  status,       \* states.get(id).status
  ready,        \* rest of the ready list, as positions in Order; its first is being
                \* announced while "launching"
  cursor,       \* where the scan for blocked steps goes on
  raced,        \* the steps whose promises Promise.race waits for
  fatal,        \* fatalError is set
  aborted,      \* the run's signal is aborted
  promise,      \* what a step's promise is doing
  attempt,      \* state.attempts
  working,      \* operations <<step, attempt>> still executing, watched or not
  told,         \* operations whose own signal was aborted
  outcome       \* how run() ended

vars == <<flow, pc, status, ready, cursor, raced, fatal, aborted, promise, attempt,
          working, told, outcome>>

schedulerVars == <<pc, ready, cursor, raced, outcome>>
stepVars      == <<promise, attempt, working, told>>

Failing  == {"failed", "blocked"}
Settled  == {"succeeded", "failed", "blocked"}
Attempts == Steps \X (Nat \ {0})

Current == {a \in working : promise[a[1]] = "executing" /\ attempt[a[1]] = a[2]}

TypeOK ==
  /\ flow \in Flows
  /\ pc \in {"top", "scanning", "launching", "racing", "ended"}
  /\ status \in [Steps -> {"pending", "running"} \cup Settled]
  /\ ready \subseteq DOMAIN Order /\ (pc = "launching" => ready # {})
  /\ cursor \in Nat \ {0}
  /\ raced \subseteq Steps
  /\ fatal \in BOOLEAN /\ aborted \in BOOLEAN
  /\ promise \in [Steps -> {"none", "announced", "executing", "reporting", "done"}]
  /\ attempt \in [Steps -> Nat]
  /\ working \subseteq Attempts
  /\ told \subseteq Attempts
  /\ outcome \in {"none", "summary", "fatal", "aborted", "stalled"}

Init ==
  /\ flow \in Flows
  /\ pc = "top"
  /\ status = [s \in Steps |-> "pending"]
  /\ ready = {}
  /\ cursor = 1
  /\ raced = {}
  /\ fatal = FALSE
  /\ aborted = FALSE
  /\ promise = [s \in Steps |-> "none"]
  /\ attempt = [s \in Steps |-> 0]
  /\ working = {}
  /\ told = {}
  /\ outcome = "none"

-----------------------------------------------------------------------------
(* (Slip...: faulty variants of the definitions that follow them, each     *)
(* noticed by a property.)                                                 *)
(* The scheduler. st and pr stand for status and promise as the running    *)
(* stretch of synchronous code has left them so far.                       *)

Stopped == fatal /\ flow.failFast

First(positions)    == CHOOSE i \in positions : \A k \in positions : i <= k
Rest(positions)     == positions \ {First(positions)}
Foremost(positions) == Order[First(positions)]

End(how) == pc' = "ended" /\ outcome' = how /\ UNCHANGED <<ready, cursor, raced>>

SlipStartsAfterFailure(run) == Cardinality(run) < Concurrency

MayStart(run) == Cardinality(run) < Concurrency /\ ~Stopped

SlipDropsHead(st, pr, rest) ==
  /\ pc' = "launching"
  /\ ready' = Rest(rest)
  /\ status' = [st EXCEPT ![Foremost(rest)] = "running"]
  /\ promise' = [pr EXCEPT ![Foremost(rest)] = "announced"]
  /\ UNCHANGED <<cursor, raced, outcome>>

Announce(st, pr, rest) ==
  /\ pc' = "launching"
  /\ ready' = rest
  /\ status' = [st EXCEPT ![Foremost(rest)] = "running"]
  /\ promise' = [pr EXCEPT ![Foremost(rest)] = "announced"]
  /\ UNCHANGED <<cursor, raced, outcome>>

\* Nothing more can be started: wait for what runs, or find that nothing ever will.
Await(st, pr, run) ==
  /\ status' = st
  /\ promise' = pr
  /\ CASE run # {} -> /\ pc' = "racing" /\ raced' = run /\ ready' = {}
                      /\ UNCHANGED <<cursor, outcome>>
       [] run = {} /\ (\E s \in Steps : st[s] = "pending") -> End("stalled")
       [] OTHER -> pc' = "top" /\ ready' = {} /\ UNCHANGED <<cursor, raced, outcome>>

\* The inner while, the race, and the test for a stall.
Launch(st, pr, rest) ==
  LET run == {s \in Steps : pr[s] \in {"executing", "reporting"}} IN
  IF rest # {} /\ MayStart(run) THEN Announce(st, pr, rest) ELSE Await(st, pr, run)

\* Fail-fast blocks what is pending; the rest of the pending steps may be ready.
Dispatch ==
  LET st == [s \in Steps |-> IF Stopped /\ status[s] = "pending" THEN "blocked" ELSE status[s]]
      IsReady(s) == st[s] = "pending" /\ \A d \in flow.needs[s] : st[d] = "succeeded"
  IN  Launch(st, promise, {i \in DOMAIN Order : IsReady(Order[i])})

Doomed(s) == status[s] = "pending" /\ \E d \in flow.needs[s] : status[d] \in Failing

\* The scan from position c: block the first doomed step and await its event.
Scan(c) ==
  LET found == {i \in c..Len(Order) : Doomed(Order[i])} IN
  IF found = {}
    THEN Dispatch
    ELSE /\ status' = [status EXCEPT ![Foremost(found)] = "blocked"]
         /\ pc' = "scanning"
         /\ cursor' = First(found) + 1
         /\ UNCHANGED <<ready, raced, promise, outcome>>

SlipPendingOnly == \E s \in Steps : status[s] = "pending"

Open == \E s \in Steps : status[s] \in {"pending", "running"}

Turn ==
  /\ pc = "top"
  /\ IF ~Open THEN End(IF Stopped THEN "fatal" ELSE "summary") /\ UNCHANGED <<status, promise>>
     ELSE IF aborted THEN End("aborted") /\ UNCHANGED <<status, promise>>
     ELSE Scan(1)
  /\ UNCHANGED <<flow, fatal, aborted, attempt, working, told>>

ContinueScan ==
  /\ pc = "scanning"
  /\ Scan(cursor)
  /\ UNCHANGED <<flow, fatal, aborted, attempt, working, told>>

\* The event "workflow.step.started" is out: the first attempt begins. A listener added
\* to a signal that is already aborted never hears of it.
Begin ==
  /\ pc = "launching"
  /\ LET s == Foremost(ready) IN
     /\ attempt' = [attempt EXCEPT ![s] = 1]
     /\ working' = working \cup {<<s, 1>>}
     /\ Launch(status, [promise EXCEPT ![s] = "executing"], Rest(ready))
  /\ UNCHANGED <<flow, fatal, aborted, told>>

Wake ==
  /\ pc = "racing"
  /\ \E s \in raced : promise[s] = "done"
  /\ pc' = "top"
  /\ UNCHANGED <<flow, status, ready, cursor, raced, fatal, aborted, stepVars, outcome>>

-----------------------------------------------------------------------------
(* The promise of a step.                                                  *)

Latest(s) == <<s, attempt[s]>>

Succeed(s) ==
  /\ promise[s] = "executing" /\ Latest(s) \in working \ told
  /\ working' = working \ {Latest(s)}
  /\ status' = [status EXCEPT ![s] = "succeeded"]
  /\ promise' = [promise EXCEPT ![s] = "reporting"]
  /\ UNCHANGED <<flow, fatal, aborted, attempt, told, schedulerVars>>

SlipForgetsError(s, left) ==
  /\ working' = left
  /\ status' = [status EXCEPT ![s] = "failed"]
  /\ promise' = [promise EXCEPT ![s] = "reporting"]
  /\ UNCHANGED <<flow, fatal, aborted, attempt, schedulerVars>>

\* The catch of executeWithRetry: give up when aborted or out of attempts.
Recover(s, left) ==
  /\ IF ~aborted /\ attempt[s] <= flow.retries
       THEN /\ attempt' = [attempt EXCEPT ![s] = @ + 1]
            /\ working' = left \cup {<<s, attempt[s] + 1>>}
            /\ UNCHANGED <<status, promise, fatal>>
       ELSE /\ working' = left
            /\ status' = [status EXCEPT ![s] = "failed"]
            /\ promise' = [promise EXCEPT ![s] = "reporting"]
            /\ fatal' = TRUE
            /\ UNCHANGED attempt
  /\ UNCHANGED <<flow, aborted, schedulerVars>>

Throw(s) ==
  /\ promise[s] = "executing" /\ Latest(s) \in working \ told
  /\ Recover(s, working \ {Latest(s)})
  /\ UNCHANGED told

SlipOnlyRejects(s) ==
  /\ promise[s] = "executing" /\ Latest(s) \in working \ told
  /\ Recover(s, working)
  /\ UNCHANGED told

\* The timer aborts the attempt's signal; whether the operation stops is its own affair.
Expire(s) ==
  /\ promise[s] = "executing" /\ Latest(s) \in working \ told
  /\ told' = told \cup {Latest(s)}
  /\ Recover(s, working)

\* The run's signal was aborted while the attempt listened.
Interrupted(s) ==
  /\ promise[s] = "executing" /\ Latest(s) \in told
  /\ Recover(s, working)
  /\ UNCHANGED told

SlipStaysInMap(s) == promise[s] = "reporting" /\ UNCHANGED vars

\* The event about the end of the step is out: it leaves the running map.
Reported(s) ==
  /\ promise[s] = "reporting"
  /\ promise' = [promise EXCEPT ![s] = "done"]
  /\ UNCHANGED <<flow, status, fatal, aborted, attempt, working, told, schedulerVars>>

\* An operation that its step no longer waits for comes to an end.
Fade(a) ==
  /\ a \in working \ Current
  /\ working' = working \ {a}
  /\ UNCHANGED <<flow, status, fatal, aborted, promise, attempt, told, schedulerVars>>

Abort ==
  /\ ~aborted /\ outcome = "none"
  /\ aborted' = TRUE
  /\ told' = told \cup Current
  /\ UNCHANGED <<flow, status, fatal, promise, attempt, working, schedulerVars>>

-----------------------------------------------------------------------------

Scheduler == Turn \/ ContinueScan \/ Begin \/ Wake

Step(s) == Succeed(s) \/ Throw(s) \/ Expire(s) \/ Interrupted(s) \/ Reported(s)

Over == pc = "ended" /\ UNCHANGED vars

Next == Scheduler \/ (\E s \in Steps : Step(s)) \/ (\E a \in working : Fade(a)) \/ Abort \/ Over

Spec == Init /\ [][Next]_vars

\* The scheduler's code runs on, events are delivered or time out, and an attempt that
\* nothing else ends is ended by its timer (timeoutMs is 30 minutes by default).
Fairness == /\ WF_vars(Scheduler)
            /\ \A s \in Steps : WF_vars(Step(s))

FairSpec == Spec /\ Fairness
-----------------------------------------------------------------------------
(* Safety.                                                                 *)

Busy == {s \in Steps : promise[s] \in {"announced", "executing"}}

\* An operation that goes on after its step stopped waiting for it - an expired attempt
\* that ignores its signal while the retry runs - has at least been told to stop.
UnwatchedWereTold == working \ Current \subseteq told

\* Unless it was aborted, run() returns only when no step executes any more, so the
\* terminal receipt its caller seals then really is the last word.
QuietEnd == outcome \in {"summary", "fatal", "stalled"} => Busy = {}

\* The verdict that publishing, exit codes and commit statuses key off is right: a run
\* ends as failed exactly when some step failed, and then nothing is left open.
VerdictHonest ==
  /\ fatal <=> \E s \in Steps : status[s] = "failed"
  /\ outcome = "fatal" => fatal
  /\ outcome \in {"summary", "fatal"} => ~Open

\* What is said of a run once it is over is final, and true.
EndsHonestly == QuietEnd /\ VerdictHonest

\* The promise made by StepGraph: of all the engine keeps, it sees the flow and the statuses.
Promise == INSTANCE StepGraph WITH flow <- flow, status <- status

StepsInOrder == Promise!Spec

\* Under FairSpec every run ends, whichever steps fail, hang until their timeout or are
\* aborted, in whatever order.
RunEnds == <>(outcome # "none")

(* What the documentation says, and what the code does not always do.       *)

\* docs/architecture.md: "The workflow engine returns a summary rather than throwing
\* when failFast is disabled." (An aborted run aside.)
ReturnsSummary == ~flow.failFast => outcome # "stalled"

\* docs/workflow-queue.md: "cancel_requested: the worker is propagating cancellation" -
\* through this signal, to every operation under way.
CancellationPropagates == aborted => Current \subseteq told

-----------------------------------------------------------------------------
(* Values the runs give to Order and Flows.                                *)

ThreeSteps == <<1, 2, 3>>

\* Every dependency graph on the steps, listed in every order relative to it.
Graphs == {needs \in [Steps -> SUBSET Steps] : Acyclic(needs)}

OnceOrTwice == [needs : Graphs, failFast : BOOLEAN, retries : {0, 1}]
Once        == [needs : Graphs, failFast : BOOLEAN, retries : {0}]
=============================================================================
