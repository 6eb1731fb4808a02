------------------------------ MODULE StepKinds ------------------------------
(***************************************************************************)
(* What one step of a workflow does, for every kind of step that is more   *)
(* than one agent: the ladder (workflow/ladder.js), the quorum             *)
(* (workflow/quorum.js) and the gate, as runtime/project-runner.js runs    *)
(* them, and the validation a workflow made in the page goes through       *)
(* (workflow/definition.js).  A workflow file written by hand is loaded as *)
(* it is: only its graph and its agents' names are looked at.              *)
(*                                                                         *)
(* A command is a member of Commands, every other verifier is a reviewer.  *)
(* work says how each command would end on the workspace as it is:         *)
(* "ok", an honest failure ("bad"), or "absent", the tool is not there.    *)
(***************************************************************************)
EXTENDS Naturals, Sequences, FiniteSets, SequencesExt

CONSTANTS Files,         \* workflow files: sequences of steps
          Commands,      \* what a verifier may run
          Agents,        \* the agents the project has
          ProviderOf,    \* [Agents -> providers]
          MaxTiers,      \* LADDER_LIMITS.tiers
          MaxVerifiers   \* LADDER_LIMITS.verifiers

VARIABLES file,     \* the file the run follows
          made,     \* "page" when the page's check accepted it, "hand" otherwise
          step,     \* the step that runs
          pc, work, stop,
          triage,   \* what the classifier answered
          note,     \* the baseline failed, and how
          tried,    \* the ladder's attempts, as recorded
          previous, \* the last verification failure's signature
          votes,    \* the quorum's verdicts, by the position of the agent
          answers,  \* the gate's answers
          outcome   \* how the step ended

vars == <<file, made, step, pc, work, stop, triage, note, tried, previous, votes, answers, outcome>>

Ends == {"ok", "bad", "absent"}
Works == [Commands -> Ends]
Unread == [difficulty |-> "unreadable", risk |-> "unreadable"]
NoFailure == [name |-> "none", end |-> "ok"]

-----------------------------------------------------------------------------
(* The page's check of a workflow.                                         *)

CleanVerifiers(list) ==
  /\ Len(list) <= MaxVerifiers
  /\ Range(list) \subseteq Commands \cup Agents

(* A plausible fault: a ladder need not say how its work is verified.      *)
SlipNothingToVerify(s) ==
  /\ s.agent \in Agents
  /\ s.tiers \in 1 .. MaxTiers
  /\ CleanVerifiers(s.verify) /\ CleanVerifiers(s.verifyLight)

CleanLadder(s) ==
  /\ s.agent \in Agents
  /\ s.tiers \in 1 .. MaxTiers
  /\ s.verify # <<>>
  /\ CleanVerifiers(s.verify) /\ CleanVerifiers(s.verifyLight)
  /\ s.router \in Agents \cup {"none"}
  /\ s.maxAttempts \in 1 .. MaxTiers

(* A cleaned quorum keeps its agents and how many must approve; that its    *)
(* reviewers go in turn, or count twice, only a hand-written file can say.  *)
CleanQuorum(s) ==
  /\ s.distinct /\ ~s.sequential
  /\ Len(s.agents) >= 2
  /\ Range(s.agents) \subseteq Agents
  /\ s.required \in 0 .. Len(s.agents)      \* 0: not given, a majority

CleanStep(s) == CASE s.type = "ladder" -> CleanLadder(s)
                  [] s.type = "quorum" -> CleanQuorum(s)
                  [] s.type = "agent"  -> s.agent \in Agents
                  [] s.type = "check"  -> s.command \in Commands
                  [] OTHER             -> TRUE

Ids(f) == {f[i].id : i \in DOMAIN f}

(* A plausible fault: a wait is undone once for every step that is done,   *)
(* however many the step still waits for.                                  *)
SlipAnyDependency(f) ==
  LET Freed[n \in 0 .. Len(f)] ==
        IF n = 0 THEN {i \in DOMAIN f : f[i].needs = <<>>}
        ELSE Freed[n - 1] \cup {i \in DOMAIN f : \E d \in Range(f[i].needs) :
                                   \E j \in Freed[n - 1] : f[j].id = d}
  IN  Freed[Len(f)] # DOMAIN f

(* Kahn's algorithm, a layer at a time: a step is visited once as many     *)
(* visits as it has entries in needs have counted down its indegree; each  *)
(* dependency counts down once, so a name listed twice is never worked off. *)
HasCycle(f) ==
  LET Visited[n \in 0 .. Len(f)] ==
        IF n = 0 THEN {i \in DOMAIN f : f[i].needs = <<>>}
        ELSE Visited[n - 1] \cup
             {i \in DOMAIN f : Cardinality({j \in Visited[n - 1] : f[j].id \in Range(f[i].needs)})
                               = Len(f[i].needs)}
  IN  Visited[Len(f)] # DOMAIN f

Validates(f) ==
  /\ f # <<>>
  /\ Cardinality(Ids(f)) = Len(f)
  /\ \A i \in DOMAIN f : /\ CleanStep(f[i])
                         /\ Range(f[i].needs) \subseteq Ids(f) \ {f[i].id}
  /\ ~HasCycle(f)

(* What a run asks of the file it loads: the agents its steps name exist.  *)
NamesOf(s) == CASE s.type = "ladder" -> ({s.agent, s.router} \cup Range(s.verify) \cup Range(s.verifyLight))
                                        \ ({"none"} \cup Commands)
                [] s.type = "quorum" -> Range(s.agents)
                [] s.type = "agent"  -> {s.agent}
                [] OTHER             -> {}

AssertWorkflowAgents(f) == \A i \in DOMAIN f : NamesOf(f[i]) \subseteq Agents

-----------------------------------------------------------------------------
(* The ladder.                                                             *)

(* A plausible fault: an answer that says nothing of the risk is taken as  *)
(* a low one.                                                              *)
SlipReadsLow(answer) ==
  [difficulty |-> IF answer.difficulty = "unreadable" THEN "unknown" ELSE answer.difficulty,
   risk |-> IF answer.risk = "high" THEN "high" ELSE "low"]

ParseTriage(answer) ==
  [difficulty |-> IF answer.difficulty = "unreadable" THEN "unknown" ELSE answer.difficulty,
   risk |-> IF answer.risk = "low" THEN "low" ELSE "high"]

Route == ParseTriage(triage)

StartTier ==
  CASE Route.difficulty = "complex" -> step.tiers - 1
    [] Route.difficulty = "medium"  -> IF step.tiers \div 2 < step.tiers - 1
                                        THEN step.tiers \div 2 ELSE step.tiers - 1
    [] OTHER -> 0

Verifiers == IF Route.risk = "low" /\ step.verifyLight # <<>> THEN step.verifyLight ELSE step.verify

Limit == LET left == step.tiers - StartTier
         IN  IF step.maxAttempts < left THEN step.maxAttempts ELSE left

CommandsOf(list) == SelectSeq(list, LAMBDA v : v \in Commands)

(* verifyLadderCommand: everything that goes wrong with the check, a stop  *)
(* of the run included, is a check that is not ok.                         *)
VerifyCommand(v) == IF stop THEN "bad" ELSE work[v]

(* checkBaseline: the commands in turn, up to the first that is not ok.    *)
CheckBaseline ==
  LET failing == SelectSeq(CommandsOf(Verifiers), LAMBDA v : VerifyCommand(v) # "ok")
  IN  IF failing = <<>> THEN NoFailure ELSE [name |-> failing[1], end |-> VerifyCommand(failing[1])]

EndStep(how) == outcome' = how /\ pc' = "done"
Attempt == Len(tried)
Entry(status, checks) == [tier |-> StartTier + Attempt, status |-> status, verify |-> checks]

(* A classifier that fails ends the step; what it answers is read.         *)
Classify ==
  /\ pc = "triage"
  /\ \/ \E d \in {"simple", "medium", "complex", "unreadable"}, r \in {"low", "high", "unreadable"} :
          triage' = [difficulty |-> d, risk |-> r]
        /\ pc' = "baseline" /\ UNCHANGED outcome
     \/ EndStep("failed") /\ UNCHANGED triage
  /\ UNCHANGED <<file, made, step, work, stop, note, tried, previous, votes, answers>>

Baseline ==
  /\ pc = "baseline"
  /\ IF step.baseline /\ CommandsOf(Verifiers) # <<>>
     THEN /\ note' = CheckBaseline
          /\ IF note'.end = "absent" THEN EndStep("environment")
             ELSE pc' = "attempt" /\ UNCHANGED outcome
     ELSE pc' = "attempt" /\ UNCHANGED <<note, outcome>>
  /\ UNCHANGED <<file, made, step, work, stop, triage, tried, previous, votes, answers>>

(* The next tier, with what it leaves in the workspace whether it answers  *)
(* or stops with an error; a stopped run tries no further tier.            *)
Climb ==
  /\ pc = "attempt"
  /\ IF Attempt = Limit THEN EndStep("exhausted") /\ UNCHANGED <<work, tried>>
     ELSE IF stop THEN EndStep("stopped") /\ UNCHANGED <<work, tried>>
     ELSE /\ work' \in Works
          /\ \/ pc' = "verify" /\ tried' = Append(tried, Entry("failed", <<>>))
             \/ pc' = "attempt" /\ tried' = Append(tried, Entry("error", <<>>))
          /\ UNCHANGED outcome
  /\ UNCHANGED <<file, made, step, stop, triage, note, previous, votes, answers>>

Current == tried[Attempt]
Noted(v, ok) == [tried EXCEPT ![Attempt].verify = Append(@, [name |-> v, ok |-> ok])]
Turn == Len(Current.verify) + 1

(* The same command failing the same way as the last verification that     *)
(* failed ends the step, unless this was the last attempt.                 *)
Fails(v, end) ==
  LET now == [name |-> v, end |-> end]
  IN  /\ tried' = Noted(v, FALSE)
      /\ previous' = now
      /\ IF v \in Commands /\ now = previous /\ Attempt < Limit THEN EndStep("stuck")
         ELSE pc' = "attempt" /\ UNCHANGED outcome

(* A plausible fault: a failed verifier is noted and the next one decides. *)
SlipGoesOn ==
  /\ pc = "verify" /\ Turn <= Len(Verifiers)
  /\ \E ok \in BOOLEAN : tried' = Noted(Verifiers[Turn], ok)
  /\ UNCHANGED <<file, made, step, pc, work, stop, triage, note, previous, votes, answers, outcome>>

(* The next verifier of this attempt.  A reviewer is an agent with tools:  *)
(* it may change the workspace, it approves, rejects or abstains, and if   *)
(* its run fails the step fails with it.                                   *)
Verify ==
  /\ pc = "verify" /\ Turn <= Len(Verifiers)
  /\ LET v == Verifiers[Turn]
     IN  \/ /\ v \in Commands
            /\ IF VerifyCommand(v) = "ok"
               THEN tried' = Noted(v, TRUE) /\ UNCHANGED <<pc, previous, outcome>>
               ELSE Fails(v, VerifyCommand(v))
            /\ UNCHANGED work
         \/ /\ v \notin Commands
            /\ work' \in Works
            /\ \/ tried' = Noted(v, TRUE) /\ UNCHANGED <<pc, previous, outcome>>
               \/ Fails(v, "bad")
               \/ EndStep("failed") /\ UNCHANGED <<tried, previous>>
  /\ UNCHANGED <<file, made, step, stop, triage, note, votes, answers>>

(* Every verifier approved: the attempt passed, and the step with it.      *)
Pass ==
  /\ pc = "verify" /\ Turn > Len(Verifiers)
  /\ tried' = [tried EXCEPT ![Attempt].status = "passed"]
  /\ EndStep("passed")
  /\ UNCHANGED <<file, made, step, work, stop, triage, note, previous, votes, answers>>

-----------------------------------------------------------------------------
(* The quorum.                                                             *)

Threshold == IF step.required = 0 THEN Len(step.agents) \div 2 + 1 ELSE step.required

Approvals == {i \in DOMAIN votes : votes[i] = "approve"}

(* A plausible fault: every approval counts, whoever gave it.              *)
SlipCountsVoices == Approvals

(* One approval per provider, the first in the order of the agents.        *)
Counted == {i \in Approvals : \A j \in Approvals :
              j < i => ~step.distinct \/ ProviderOf[step.agents[j]] # ProviderOf[step.agents[i]]}

Satisfied == /\ Cardinality(Counted) >= Threshold
             /\ \A i \in DOMAIN votes : votes[i] # "reject"

(* Reviewers run together, or in turn when the step says so; a reviewer    *)
(* without a readable verdict abstains, one whose run fails ends the step, *)
(* and those that were asked with it run on.                               *)
Review ==
  /\ pc = "quorum"
  /\ \E i \in DOMAIN votes :
       /\ votes[i] = "asked"
       /\ step.sequential => \A j \in 1 .. i - 1 : votes[j] # "asked"
       /\ \/ \E v \in {"approve", "reject", "abstain"} : votes' = [votes EXCEPT ![i] = v]
             /\ UNCHANGED <<pc, outcome>>
          \/ votes' = votes /\ EndStep("failed")
  /\ UNCHANGED <<file, made, step, work, stop, triage, note, tried, previous, answers>>

Tally ==
  /\ pc = "quorum"
  /\ \A i \in DOMAIN votes : votes[i] # "asked"
  /\ EndStep(IF Satisfied THEN "passed" ELSE "failed")
  /\ UNCHANGED <<file, made, step, work, stop, triage, note, tried, previous, votes, answers>>

-----------------------------------------------------------------------------
(* The gate: the open questions of the steps before, one at a time, then   *)
(* the decision.  A question may stay unanswered.                          *)

AskQuestion ==
  /\ pc = "gate" /\ Len(answers) < step.open
  /\ \E a \in {"answer", "none"} : answers' = Append(answers, a)
  /\ UNCHANGED <<file, made, step, pc, work, stop, triage, note, tried, previous, votes, outcome>>

DecideGate ==
  /\ pc = "gate" /\ Len(answers) = step.open
  /\ \E yes \in BOOLEAN : EndStep(IF yes THEN "passed" ELSE "failed")
  /\ UNCHANGED <<file, made, step, work, stop, triage, note, tried, previous, votes, answers>>

-----------------------------------------------------------------------------
(* An agent's step that expects tool use passes only if a call was not     *)
(* refused; a check passes when its command does.                          *)
AssertStepExpectation(calls) == step.expect => "ok" \in calls

RunAgent ==
  /\ pc = "agent"
  /\ work' \in Works
  /\ \E calls \in SUBSET {"ok", "refused"} :
       EndStep(IF AssertStepExpectation(calls) THEN "passed" ELSE "failed")
  /\ UNCHANGED <<file, made, step, stop, triage, note, tried, previous, votes, answers>>

RunCheck ==
  /\ pc = "check"
  /\ EndStep(IF VerifyCommand(step.command) = "ok" THEN "passed" ELSE "failed")
  /\ UNCHANGED <<file, made, step, work, stop, triage, note, tried, previous, votes, answers>>

-----------------------------------------------------------------------------
(* The run's cancellation, seen by the ladder and by what it runs.         *)
Abort == /\ pc \notin {"done", "gate", "quorum", "agent"} /\ ~stop /\ stop' = TRUE
         /\ UNCHANGED <<file, made, step, pc, work, triage, note, tried, previous, votes, answers, outcome>>

(* Where the runner goes with a step, by its type.                         *)
RunStep(s) == CASE s.type = "ladder" -> IF s.router = "none" THEN "baseline" ELSE "triage"
                [] OTHER             -> s.type

Init ==
  /\ file \in Files
  /\ made \in IF Validates(file) THEN {"page", "hand"} ELSE {"hand"}
  /\ AssertWorkflowAgents(file)
  /\ step \in Range(file)
  /\ pc = RunStep(step)
  /\ work \in Works
  /\ stop = FALSE
  /\ triage = Unread /\ note = NoFailure /\ tried = <<>> /\ previous = NoFailure
  /\ votes = IF step.type = "quorum" THEN [i \in DOMAIN step.agents |-> "asked"] ELSE <<>>
  /\ answers = <<>> /\ outcome = "none"

Next == \/ Classify \/ Baseline \/ Climb \/ Verify \/ Pass
        \/ Review \/ Tally \/ AskQuestion \/ DecideGate
        \/ RunAgent \/ RunCheck \/ Abort

Spec == Init /\ [][Next]_vars

-----------------------------------------------------------------------------
TypeOK ==
  /\ file \in Files /\ made \in {"page", "hand"}
  /\ work \in Works
  /\ pc \in {"triage", "baseline", "attempt", "verify", "quorum", "gate", "agent",
             "check", "done"}
  /\ outcome \in {"none", "passed", "failed", "environment", "exhausted", "stopped", "stuck"}
  /\ (pc = "done") <=> (outcome # "none")
  /\ \A i \in DOMAIN tried : tried[i].status \in {"failed", "error", "passed"}

(* A ladder step passes only on an attempt that every verifier approved,   *)
(* the light list instead of the full one only when the classifier said in *)
(* so many words that the risk is low.                                     *)
PassedIsVerified ==
  step.type = "ladder" /\ outcome = "passed" =>
    LET full == triage.risk # "low" \/ step.verifyLight = <<>>
    IN  /\ [i \in DOMAIN Current.verify |-> Current.verify[i].name]
           = IF full THEN step.verify ELSE step.verifyLight
        /\ \A i \in DOMAIN Current.verify : Current.verify[i].ok

(* A step whose job is to pass verification cannot pass without one: what  *)
(* the check of a workflow definition is for.                              *)
SomethingVerified ==
  step.type = "ladder" /\ outcome = "passed" => Current.verify # <<>>

CheckedIsVerified == made = "page" => SomethingVerified

(* Two reviewers on one provider are one opinion: a quorum that counts     *)
(* providers passes only when enough different ones approved and none of   *)
(* the reviewers rejected.                                                 *)
CountsOpinions ==
  step.type = "quorum" /\ outcome = "passed" =>
    /\ \A i \in DOMAIN votes : votes[i] \in {"approve", "abstain"}
    /\ LET voices == {step.agents[i] : i \in Approvals}
       IN  step.distinct => Cardinality({ProviderOf[a] : a \in voices}) >= Threshold

(* What the page's check accepts has an order to run in: no step waits,    *)
(* through others, for itself.                                             *)
AcceptedHasAnOrder ==
  made = "page" =>
    \E order \in SetToSeqs(DOMAIN file) :
      \A k \in DOMAIN order : Range(file[order[k]].needs)
                              \subseteq {file[order[j]].id : j \in 1 .. k - 1}
=============================================================================
