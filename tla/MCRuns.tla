-------------------------------- MODULE MCRuns --------------------------------
(* What a run leaves behind. A behaviour is that of the component `part`   *)
(* names: project runs on one worktree (the constants of the               *)
(* configuration, or three that contend for it); issues that GitLab sends; *)
(* agents and their receipts; the kinds of steps; costs and their spans.   *)
EXTENDS ProjectRun

CONSTANTS
  r1, r2, r3,
  Deliveries, Issues, IssueOf, IssueFailFast, IssuePublishing, AwaitPipeline,
  PublishOnConflict, MaxSends, MaxMishaps,  \* of the issues that GitLab sends
  Names, Entrances, Subagents, MaxDepth, StrictSpans, Dates, Window, MaxInvocations,
  MaxFailures,                              \* of the agents; Entrances: those that steps call
  WorkflowFiles, Commands, ProjectAgents, ProviderOf, MaxTiers, MaxVerifiers,
                                            \* of the kinds of steps
  Procs, MaxTokens, MaxAsked, RotateAt, MaxTime   \* of the costs and their spans

ASSUME IssueAssumption ==
  /\ IssueOf \in [Deliveries -> Issues]
  /\ MaxSends \in Nat /\ MaxMishaps \in Nat

ASSUME AgentsAssumption ==
  /\ Entrances \subseteq Names /\ Subagents \in [Names -> SUBSET Names]
  /\ MaxDepth \in Nat \ {0} /\ MaxInvocations \in Nat /\ MaxFailures \in Nat

\* A step is of a kind the runner knows, and its lists name commands and agents of the project.
ASSUME WorkflowAssumption ==
  \A f \in WorkflowFiles : \A i \in DOMAIN f :
    /\ f[i].type \in {"ladder", "quorum", "gate", "agent", "check"}
    /\ f[i].type = "ladder" => /\ f[i].verify \in Seq(Commands \cup ProjectAgents)
                              /\ f[i].verifyLight \in Seq(Commands \cup ProjectAgents)
                              /\ f[i].tiers \in Nat
    /\ f[i].type = "quorum" => f[i].agents \in Seq(ProjectAgents) /\ f[i].required \in Int

ASSUME SpansAssumption ==
  MaxTokens \in Nat /\ MaxAsked \in [Procs -> Nat] /\ MaxTime \in Nat \ {0}

VARIABLES
  part,   \* the component whose behaviour this is
  sent, mishaps, handling, issueTold, job, at, result, started, resumed, pushed, opened,
  verdict, noted, ci,
  chainFile, half, tail, pending, line, signed, refused, run,
  kindFile, made, step, kindPc, work, stop, triage, note, tried, previous, votes, answers,
  outcome,
  meter, asked, ledger, spanTold, queue, writer, spanFile, archives, clock, reading,
  spanPlan, kept

\* An agent step, and a check and another agent step that need it.
Forked == <<"s1", "c", "s2">>
Fork   == [s \in {"s1", "c", "s2"} |-> IF s = "s1" THEN {} ELSE {"s1"}]

\* Two agent steps in a row.
TwoSteps == <<"s1", "s2">>
Chain    == [s \in {"s1", "s2"} |-> IF s = "s2" THEN {"s1"} ELSE {}]
Agents   == {"s1", "s2"}

\* Workflow files: ladders that verify with a command, with a reviewer, and (by hand) with
\* nothing; steps with and without an expectation; gates and quorums that need each other.
Ladder(verify, light, router, baseline, attempts) ==
  [id |-> "b", type |-> "ladder", needs |-> <<>>, agent |-> "a", tiers |-> 3, verify |-> verify,
   verifyLight |-> light, router |-> router, baseline |-> baseline, maxAttempts |-> attempts]
Gate(id, needs, open) == [id |-> id, type |-> "gate", needs |-> needs, open |-> open]
Review(required, inTurn, needs) ==
  [id |-> "q", type |-> "quorum", needs |-> needs, agents |-> <<"a", "b", "r">>,
   required |-> required, distinct |-> ~inTurn, sequential |-> inTurn]
Ladders == {<<Ladder(<<"test", "r">>, <<>>, "none", TRUE, 3)>>,
            <<Ladder(<<"test", "lint">>, <<"lint">>, "a", FALSE, 2)>>,
            <<Ladder(<<>>, <<>>, "none", TRUE, 3)>>}
Plain   == <<[id |-> "w", type |-> "agent", needs |-> <<>>, agent |-> "a", expect |-> TRUE],
             [id |-> "c", type |-> "check", needs |-> <<"w">>, command |-> "test"]>>
Reviews == {<<Gate("g", g, 2), Gate("h", h, 0), Review(required, inTurn, q)>> :
              g \in {<<>>, <<"h">>, <<"h", "q">>}, h \in {<<>>, <<"g">>, <<"q">>},
              required \in {0, 3}, inTurn \in BOOLEAN, q \in {<<"h">>, <<"h", "g">>}}
AllKinds == Ladders \cup {Plain} \cup Reviews
TwoProviders == [a \in ProjectAgents |-> IF a = "r" THEN "p2" ELSE "p1"]

\* Three runs that want the same worktree.
Contending == INSTANCE ProjectRun WITH
  Runs <- {r1, r2, r3}, First <- r1, Mortal <- {r2}, Cut <- {}, Editing <- FALSE,
  Steps <- {"s1"}, StepList <- <<"s1">>, Needs <- [s \in {"s1"} |-> {}],
  AgentSteps <- {"s1"}, FailFast <- FALSE, Cleanup <- "on-success",
  Indexed <- FALSE

\* Every delivery is about one issue.
OneIssue == [d \in Deliveries |-> 1]

Trigger == INSTANCE IssueTrigger WITH
  FailFast <- IssueFailFast, Publishing <- IssuePublishing, told <- issueTold

\* Agents that name each other, and themselves.
Mutual == [a \in Names |-> Names]

Invocations == INSTANCE AgentRun WITH
  Steps <- Entrances, MaxRuns <- MaxInvocations, file <- chainFile

Kinds == INSTANCE StepKinds WITH
  Files <- WorkflowFiles, Agents <- ProjectAgents, file <- kindFile, pc <- kindPc

\* Of two processes, one ends a call, the other two.
FewAsked == [p \in Procs |-> IF p = "p" THEN 1 ELSE 2]

Spans == INSTANCE Telemetry WITH
  told <- spanTold, file <- spanFile, plan <- spanPlan

projectVars == <<lock, taking, tries, tree, receipt, pc, plan, status, call, digest,
                 published, meddled, looked, unsent>>
issueVars == <<sent, mishaps, handling, issueTold, job, at, result, started, resumed,
               pushed, opened, verdict, noted, ci>>
agentsVars == <<chainFile, half, tail, pending, line, signed, refused, run>>
stepsVars == <<kindFile, made, step, kindPc, work, stop, triage, note, tried, previous,
               votes, answers, outcome>>
spansVars == <<meter, asked, ledger, spanTold, queue, writer, spanFile, archives, clock,
               reading, spanPlan, kept>>
runsVars == <<part, projectVars, issueVars, agentsVars, stepsVars, spansVars>>

Parts == {"project", "contend", "issue", "agents", "steps", "spans"}

\* The others rest in an initial state, one and the same.
RunsInit ==
  /\ part \in Parts
  /\ IF part = "contend" THEN Contending!Init ELSE Init
  /\ Trigger!Init
  /\ Invocations!Init
  /\ Kinds!Init
  /\ part # "steps" => /\ kindFile = Plain /\ made = "hand" /\ step = Plain[1]
                      /\ work = [c \in Commands |-> "ok"]
  /\ Spans!Init

ProjectStep ==
  /\ part = "project" /\ Next
  /\ UNCHANGED <<part, issueVars, agentsVars, stepsVars, spansVars>>

ContendingStep ==
  /\ part = "contend" /\ Contending!Next
  /\ UNCHANGED <<part, issueVars, agentsVars, stepsVars, spansVars>>

TriggerStep ==
  /\ part = "issue" /\ Trigger!Next
  /\ UNCHANGED <<part, projectVars, agentsVars, stepsVars, spansVars>>

InvocationsStep ==
  /\ part = "agents" /\ Invocations!Next
  /\ UNCHANGED <<part, projectVars, issueVars, stepsVars, spansVars>>

KindsStep ==
  /\ part = "steps" /\ Kinds!Next
  /\ UNCHANGED <<part, projectVars, issueVars, agentsVars, spansVars>>

SpansStep ==
  /\ part = "spans" /\ Spans!Next
  /\ UNCHANGED <<part, projectVars, issueVars, agentsVars, stepsVars>>

RunsNext ==
  \/ ProjectStep \/ ContendingStep \/ TriggerStep \/ InvocationsStep \/ KindsStep
  \/ SpansStep

RunsSpec == RunsInit /\ [][RunsNext]_runsVars
-----------------------------------------------------------------------------
\* The component at work stays within the states and values its module names.
WellTyped ==
  /\ part = "project" => TypeOK
  /\ part = "contend" => Contending!TypeOK
  /\ part = "issue" => Trigger!TypeOK
  /\ part = "agents" => Invocations!TypeOK
  /\ part = "steps" => Kinds!TypeOK
  /\ part = "spans" => Spans!TypeOK

\* A receipt tells what happened, whichever of process, provider, telemetry and file fails: a
\* run that began one and lives leaves it sealed, unless it failed and then could not export its
\* telemetry, and a success holds the evidence of every step; what an agent's caller was told is
\* on record, an interrupted or altered record shows as such, and no agent works for itself
\* (project-runner.js, harness.js, receipt-store.js).
ReceiptsTell ==
  /\ part = "project" => SealsItsReceipt /\ SuccessIsComplete
  /\ part = "agents" => /\ Invocations!ToldAsRecorded /\ Invocations!TamperingShows
                        /\ Invocations!NoAgentBelowItself

\* A run that continues another finds the ground it planned on, with the work of the steps it
\* carries over, and does not stay outside a lock that nobody will release (resume-plan.js); and
\* a file the page accepted has an order to run in (definition.js).
KnownGrounds ==
  /\ part = "project" => KnownGround /\ CarriedIsThere /\ NoneLockedOut
  /\ part = "contend" => Contending!KnownGround /\ Contending!NoneLockedOut
  /\ part = "steps" => Kinds!AcceptedHasAnOrder

\* A delivery is run once, however often GitLab sends it and whatever fails, and what is pushed
\* has passed its review (webhook-server.js, issue-trigger.js, publisher.js).
DeliveriesHold == part = "issue" => Trigger!DeliveriesHold

\* A step that passed was verified, in the way and by the number its file asks for (ladder.js,
\* quorum.js, definition.js).
PassedIsVerified ==
  part = "steps" => Kinds!PassedIsVerified /\ Kinds!CheckedIsVerified /\ Kinds!CountsOpinions

\* Tokens are charged once, however an answer streams, fails and is retried; what is written
\* stays until gc takes it away or two processes move the file aside in one millisecond; and a
\* report counts nothing twice, and misses only what was moved or taken away while it read the
\* pieces (usage-meter.js, telemetry.js).
CostsAreCounted == part = "spans" => Spans!ChargedOnce /\ Spans!CostsAreKept

\* The commit status and the publisher key off the same verdict (docs/architecture.md:171).
StatusEarned == part = "issue" => Trigger!SuccessIsEarned
==============================================================================
