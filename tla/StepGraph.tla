------------------------------ MODULE StepGraph ------------------------------
(***************************************************************************)
(* What a workflow run promises about its steps, whatever the scheduler    *)
(* does to keep the promise: a step starts when its dependencies have      *)
(* succeeded and a place is free, it ends once, and what cannot start any  *)
(* more is blocked.  WorkflowEngine implements this specification.         *)
(***************************************************************************)
EXTENDS Naturals, FiniteSets

CONSTANTS Steps, Flows, Concurrency

VARIABLES flow, status

StepsWith(s) == {i \in Steps : status[i] = s}

Halted == flow.failFast /\ StepsWith("failed") # {}

Init == flow \in Flows /\ status = [s \in Steps |-> "pending"]

Start(s) ==
  /\ status[s] = "pending"
  /\ flow.needs[s] \subseteq StepsWith("succeeded")
  /\ Cardinality(StepsWith("running")) < Concurrency
  /\ ~Halted
  /\ status' = [status EXCEPT ![s] = "running"]

Finish(s) ==
  /\ status[s] = "running"
  /\ \E end \in {"succeeded", "failed"} : status' = [status EXCEPT ![s] = end]

Block(S) ==
  /\ S \subseteq StepsWith("pending")
  /\ Halted \/ \A s \in S : flow.needs[s] \cap (StepsWith("failed") \cup StepsWith("blocked")) # {}
  /\ status' = [s \in Steps |-> IF s \in S THEN "blocked" ELSE status[s]]

Next == /\ \/ \E s \in Steps : Start(s) \/ Finish(s)
           \/ \E S \in SUBSET Steps : Block(S)
        /\ UNCHANGED flow

Spec == Init /\ [][Next]_<<flow, status>>
=============================================================================
