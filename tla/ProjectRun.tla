------------------------------ MODULE ProjectRun ------------------------------
(***************************************************************************)
(* Runs in one worktree: the run that made it, and runs that continue it   *)
(* from the receipt of an earlier one.  A run is planned, takes the lock   *)
(* (only when it continues), opens the worktree, begins its receipt, lets  *)
(* the engine work its steps, seals, publishes, cleans up and releases.    *)
(* A step's attempt may outlive the engine's patience; a process may die   *)
(* between any two steps; a person may edit the worktree at any time.      *)
(*                                                                         *)
(* Of the engine only what the receipt sees is kept (retries are in        *)
(* WorkflowEngine).  Going back to a digest, and taking one and appending  *)
(* it when the run begins, are single steps; an append meets no I/O error. *)
(*                                                                         *)
(* The lock file of a worktree is opened with exclusive creation and       *)
(* filled afterwards; whoever finds it opened reads it, and removes it     *)
(* when what is in it names no live process.  The file is told apart from  *)
(* its successors by the run that created it, since a removed file still   *)
(* takes the bytes its creator writes.                                     *)
(***************************************************************************)
EXTENDS Naturals, Sequences, SequencesExt, FiniteSets

CONSTANTS
  Runs, NoRun,
  Steps, StepList,    \* the steps of the workflow, and the order of its file
  Needs,              \* Needs[s]: the steps s needs
  AgentSteps,         \* steps of type "agent"
  First,              \* the run that makes the worktree; the others continue it
  Mortal,             \* bound: runs whose process may die
  Cut,                \* bound: runs whose attempts run out of time, or whose signal is aborted
  Editing,            \* bound: whether a person edits the worktree (once)
  Patient,            \* nobody continues a run that is still working
  Hand,               \* the file a person edits; each step has a file of its own
  NoTree,
  Concurrency, FailFast,
  Publishing,         \* run with --publish
  Cleanup,            \* workspace.cleanup
  Indexed,            \* the worktree holds ignorable files (the index of CodeGraph)
  TelemetryFails      \* observability.failureMode "fail", and an export that fails

ASSUME RunAssumption ==
  /\ NoRun \notin Runs
  /\ First \in Runs /\ Mortal \subseteq Runs /\ Cut \subseteq Runs
  /\ Hand \notin Steps
  /\ Concurrency \in Nat \ {0}
  /\ {Editing, Patient, FailFast, Publishing, Indexed, TelemetryFails} \subseteq BOOLEAN
  /\ Cleanup \in {"never", "on-success", "after-publish"}

ASSUME ReceiptAssumption ==
  /\ StepList # <<>> /\ IsInjective(StepList) /\ Steps = ToSet(StepList)
  /\ Needs \in [Steps -> SUBSET Steps]
  /\ AgentSteps \subseteq Steps

\* assertAcyclic: the engine refuses steps that need each other in a circle.
ASSUME OrderAssumption == \A S \in SUBSET Steps : S # {} => \E s \in S : Needs[s] \cap S = {}

-----------------------------------------------------------------------------
(* The receipt of a run as a sequence of entries: what may be appended,    *)
(* and what planResume reads in it.  An entry is tied to the one before it *)
(* by its place in the sequence (a hash, in the file), and a digest of the *)
(* worktree is the worktree itself.                                        *)

Start(tree)    == [kind |-> "start", tree |-> tree]
Result(s)      == [kind |-> "result", step |-> s]
Evidence(s, t) == [kind |-> "step", step |-> s, tree |-> t]
End(status)    == [kind |-> "end", status |-> status]

Sealed(file)    == file # <<>> /\ Last(file).kind = "end"
Succeeded(file) == Sealed(file) /\ Last(file).status = "succeeded"

\* append(): a sealed chain refuses.
Appended(file, entry) == IF Sealed(file) THEN file ELSE Append(file, entry)

\* Steps with an entry of this kind.
With(kind, file) == {s \in Steps : \E i \in DOMAIN file : file[i].kind = kind /\ file[i].step = s}

\* The worktree as the step that finished last left it, or as the run found it.
LastLeft(file) ==
  LET seen == {i \in DOMAIN file : file[i].kind \in {"start", "step"}}
  IN  file[Max(seen)].tree

SlipCarriesAnyway(file) == With("result", file) \cap AgentSteps

\* planSteps: an agent step that finished is carried over if all it needs is, by its place in the list.
Carried(file) ==
  LET carried[i \in 0..Len(StepList)] ==
        IF i = 0 THEN {}
        ELSE LET s == StepList[i]
             IN  carried[i - 1] \cup
                 {t \in {s} : /\ t \in With("step", file) \cap With("result", file) \cap AgentSteps
                              /\ Needs[t] \subseteq carried[i - 1]}
  IN  carried[Len(StepList)]

-----------------------------------------------------------------------------
VARIABLES
  lock,           \* the lock file: its creator, whether its text is there, whether it is a day old
  taking,         \* taking[r]: where acquireWorktreeLock of r stands
  tries,          \* tries[r]: attempts that found a file already
  tree,           \* the worktree: its files, and those of its last commit
  receipt,        \* receipt[r]: the entries of its file
  pc,             \* pc[r]: where executeProject of r stands
  plan,           \* plan[r]: the resumption planned
  status,         \* status[r][s]: what the engine holds of step s
  call,           \* call[r][s]: where its attempt stands
  digest,         \* digest[r][s]: the digest taken for its evidence
  published,      \* runs whose work was published
  meddled,        \* history: runs that planned, and then another hand changed the worktree
  looked,         \* looked[r]: the worktree as r found it when it decided to remove it
  unsent          \* history: runs that failed, and whose telemetry failed after that

lockVars == <<lock, taking, tries>>
runVars == <<pc, plan, status, call, digest>>
histories == <<meddled, looked, unsent>>
vars    == <<lockVars, tree, receipt, runVars, published, histories>>

-----------------------------------------------------------------------------
(* The lock of the worktree.                                               *)

NoFile == [by |-> NoRun, written |-> FALSE, old |-> FALSE]
Taking == {"no", "create", "write", "look", "remove", "held", "busy"}
Attempts == 2

LockTypeOK ==
  /\ lock \in [by : Runs \cup {NoRun}, written : BOOLEAN, old : BOOLEAN]
  /\ taking \in [Runs -> Taking]
  /\ tries \in [Runs -> 0..Attempts]

LockInit ==
  /\ lock = NoFile
  /\ taking = [r \in Runs |-> "no"]
  /\ tries = [r \in Runs |-> 0]

Step(r, where) == taking' = [taking EXCEPT ![r] = where]

\* worktreeLockHolder: no text, a dead process and an old date all mean that nobody holds it.
Held(alive) == lock.written /\ lock.by \in alive /\ ~lock.old

BeginTaking(r) ==
  /\ taking[r] = "no" /\ Step(r, "create")
  /\ UNCHANGED <<lock, tries>>

\* writeFile with flag "wx" opens the file, or finds it opened.
CreateLock(r) ==
  /\ taking[r] = "create"
  /\ IF lock = NoFile
     THEN lock' = [NoFile EXCEPT !.by = r] /\ Step(r, "write")
     ELSE UNCHANGED lock /\ Step(r, "look")
  /\ UNCHANGED tries

\* ... and then writes into the file it opened, which may have been removed since.
WriteLock(r) ==
  /\ taking[r] = "write" /\ Step(r, "held")
  /\ lock' = IF lock.by = r THEN [lock EXCEPT !.written = TRUE] ELSE lock
  /\ tries' = [tries EXCEPT ![r] = 0]

LookAtLock(r, alive) ==
  /\ taking[r] = "look"
  /\ Step(r, IF Held(alive) THEN "busy" ELSE "remove")
  /\ UNCHANGED <<lock, tries>>

RemoveStale(r) ==
  /\ taking[r] = "remove"
  /\ lock' = NoFile
  /\ tries' = [tries EXCEPT ![r] = @ + 1]
  /\ Step(r, IF tries[r] + 1 < Attempts THEN "create" ELSE "busy")

TakeLock(r, alive) ==
  BeginTaking(r) \/ CreateLock(r) \/ WriteLock(r) \/ LookAtLock(r, alive) \/ RemoveStale(r)

\* release(): rm with force, whoever created the file.
GiveBack(r) ==
  /\ taking[r] = "held" /\ Step(r, "no")
  /\ lock' = NoFile
  /\ UNCHANGED tries

\* A day passes while the file is there.
AgeLock ==
  /\ lock.written /\ ~lock.old
  /\ lock' = [lock EXCEPT !.old = TRUE]
  /\ UNCHANGED <<taking, tries>>
-----------------------------------------------------------------------------
(* The run.                                                                *)

Part   == {"none", "half", "whole"}
Files  == [Steps \cup {Hand} -> Part]
Tree   == [files : Files, head : Files]
Blank  == [f \in Steps \cup {Hand} |-> "none"]
Clean  == tree.files = tree.head

ASSUME TreeAssumption == NoTree \notin Tree

Fresh  == [from |-> NoRun, carried |-> {}, reset |-> FALSE, expected |-> NoTree]
Removing == {"discarding", "removing"}
Within == {"opened", "running", "failing", "finishing", "sealed", "cleaning"} \cup Removing
Stages == {"idle", "planned", "releasing", "ended", "dead"} \cup Within
Alive  == {r \in Runs : pc[r] # "dead"}

Entries == [kind : {"start"}, tree : Tree \cup {NoTree}] \cup [kind : {"result"}, step : Steps]
           \cup [kind : {"step"}, step : Steps, tree : Tree \cup {NoTree}]
           \cup [kind : {"end"}, status : {"succeeded", "failed"}]
Plans   == [from : Runs \cup {NoRun}, carried : SUBSET Steps, reset : BOOLEAN, expected : Tree \cup {NoTree}]

TypeOK ==
  /\ LockTypeOK
  /\ tree \in Tree \cup {NoTree}
  /\ receipt \in [Runs -> Seq(Entries)]
  /\ pc \in [Runs -> Stages]
  /\ plan \in [Runs -> Plans]
  /\ status \in [Runs -> [Steps -> {"pending", "running", "succeeded", "failed"}]]
  /\ call \in [Runs -> [Steps -> {"none", "working", "returned", "measured"}]]
  /\ digest \in [Runs -> [Steps -> Tree \cup {NoTree}]]
  /\ published \subseteq Runs /\ meddled \subseteq Runs /\ unsent \subseteq Runs
  /\ looked \in [Runs -> Tree \cup {NoTree}]

Init ==
  /\ LockInit
  /\ tree = NoTree
  /\ receipt = [r \in Runs |-> <<>>]
  /\ pc = [r \in Runs |-> "idle"]
  /\ plan = [r \in Runs |-> Fresh]
  /\ status = [r \in Runs |-> [s \in Steps |-> "pending"]]
  /\ call = [r \in Runs |-> [s \in Steps |-> "none"]]
  /\ digest = [r \in Runs |-> [s \in Steps |-> NoTree]]
  /\ published = {} /\ meddled = {} /\ unsent = {}
  /\ looked = [r \in Runs |-> NoTree]

Goto(r, stage)      == pc' = [pc EXCEPT ![r] = stage]
Write(r, entry)     == receipt' = [receipt EXCEPT ![r] = Appended(@, entry)]
Engine(r, s, value) == status' = [status EXCEPT ![r][s] = value]
Call(r, s, value)   == call' = [call EXCEPT ![r][s] = value]

\* Whoever changes the worktree meddles with the runs that have planned by then.
Touch(who, new) ==
  /\ tree' = new
  /\ meddled' = IF new = tree THEN meddled
                ELSE meddled \cup {r \in Runs \ {who} : pc[r] \in Within \cup {"planned"}}
  /\ UNCHANGED <<looked, unsent>>

\* The variables of executeProject go out of scope; an attempt may still be under way.
Leave(r, stage) ==
  /\ Goto(r, stage)
  /\ plan' = [plan EXCEPT ![r] = Fresh]
  /\ status' = [status EXCEPT ![r] = [s \in Steps |-> "pending"]]
  /\ meddled' = meddled \ {r}
  /\ looked' = [looked EXCEPT ![r] = NoTree]
  /\ UNCHANGED unsent

-----------------------------------------------------------------------------
(* Before the first step.                                                  *)

\* The reasons planResume finds in the receipt of o not to continue it.
Refused(o) ==
  \/ receipt[o] = <<>>
  \/ Succeeded(receipt[o])
  \/ Carried(receipt[o]) = Steps

\* (Slip...: faulty variants of the definitions that follow them.)
SlipAnyState(o, reset) == ~reset

\* checkWorkspace: as the last finished step left it, or to be put back, on the same commit.
AsLeft(o, reset) ==
  LET left == LastLeft(receipt[o])
  IN  IF reset THEN tree # left /\ left # NoTree /\ tree.head = left.head ELSE tree = left

PlanResume(r) ==
  /\ pc[r] = "idle" /\ r # First /\ Goto(r, "planned")
  /\ \E o \in Runs \ {r}, reset \in BOOLEAN :
       /\ ~Refused(o) /\ (Patient => pc[o] \in {"ended", "dead"})
       /\ ~Held(Alive)
       /\ tree # NoTree /\ AsLeft(o, reset)
       /\ plan' = [plan EXCEPT ![r] = [from |-> o, carried |-> Carried(receipt[o]),
                                       reset |-> reset, expected |-> LastLeft(receipt[o])]]
  /\ UNCHANGED <<lockVars, tree, receipt, status, call, digest, published, histories>>

Lock(r) ==
  /\ pc[r] = "planned" /\ TakeLock(r, Alive)
  /\ UNCHANGED <<tree, receipt, runVars, published, histories>>

\* acquireWorktreeLock throws before the try: nothing is released.
TurnedAway(r) ==
  /\ pc[r] = "planned" /\ taking[r] = "busy"
  /\ Leave(r, "ended") /\ Step(r, "no")
  /\ tries' = [tries EXCEPT ![r] = 0]
  /\ UNCHANGED <<lock, tree, receipt, call, digest, published>>

SlipNeverResets(r) == Touch(r, tree)

\* restoreWorkspace, when the person asked for it.
GoBack(r) == Touch(r, IF plan[r].reset THEN plan[r].expected ELSE tree)

\* openWorkspace of a run that continues: the worktree must still be git's, its HEAD where it was.
Adopt(r) ==
  /\ pc[r] = "planned" /\ taking[r] = "held"
  /\ tree # NoTree
  /\ plan[r].reset => tree.head = plan[r].expected.head
  /\ GoBack(r) /\ Goto(r, "opened")
  /\ UNCHANGED <<lockVars, receipt, plan, status, call, digest, published>>

Create(r) ==
  /\ pc[r] = "idle" /\ r = First
  /\ tree' = [files |-> Blank, head |-> Blank] /\ Goto(r, "opened")
  /\ UNCHANGED <<lockVars, receipt, plan, status, call, digest, published, histories>>

\* removeIfClean asks git status first, and removes the worktree in a command after it.
Look(r, stage) ==
  /\ Goto(r, stage)
  /\ looked' = [looked EXCEPT ![r] = tree]
  /\ UNCHANGED <<tree, meddled, unsent>>

SlipForces(r) == tree # NoTree

\* git status says that nothing would be lost.
Removable(r) == tree # NoTree /\ Clean

SlipKeepsLock(r) == Goto(r, "ended")

\* A throw runs to the finally of executeProject.
Unwind(r) == Goto(r, "releasing")

\* Setting up fails before or after the worktree is open; no receipt was begun.  A worktree
\* of its own, with nothing in it to lose, is discarded.
SetUpFails(r) ==
  /\ \/ pc[r] = "planned" /\ taking[r] = "held"
     \/ pc[r] = "opened"
  /\ IF pc[r] = "opened" /\ plan[r].from = NoRun /\ Removable(r)
     THEN Look(r, "discarding")
     ELSE Unwind(r) /\ UNCHANGED <<tree, histories>>
  /\ UNCHANGED <<lockVars, receipt, plan, status, call, digest, published>>

-----------------------------------------------------------------------------
(* The steps.                                                              *)

\* The first entry of the receipt; from here on a failure is sealed.
Begin(r) ==
  /\ pc[r] = "opened"
  /\ Write(r, Start(tree)) /\ Goto(r, "running")
  /\ UNCHANGED <<lockVars, tree, plan, status, call, digest, published, histories>>

Running(r)   == {s \in Steps : status[r][s] = "running"}
Failed(r)    == {s \in Steps : status[r][s] = "failed"}
Startable(r) == {s \in Steps : /\ status[r][s] = "pending"
                               /\ \A n \in Needs[s] : status[r][n] = "succeeded"
                               /\ FailFast => Failed(r) = {}}

\* resume.reuse[step.id]
IsCarried(r, s) == s \in plan[r].carried

\* The engine starts a step; the result of one that is carried over is there at once.
StartStep(r, s) ==
  /\ pc[r] = "running" /\ s \in Startable(r)
  /\ Cardinality(Running(r)) < Concurrency
  /\ Engine(r, s, "running")
  /\ IF IsCarried(r, s)
     THEN Call(r, s, "returned") /\ UNCHANGED <<tree, histories>>
     ELSE /\ Call(r, s, "working")
          /\ Touch(r, IF tree # NoTree /\ s \in AgentSteps THEN [tree EXCEPT !.files[s] = "half"] ELSE tree)
  /\ UNCHANGED <<lockVars, receipt, pc, plan, digest, published>>

\* The work of the step is done; an agent leaves its result in the receipt.
Return(r, s) ==
  /\ call[r][s] = "working"
  /\ Call(r, s, "returned")
  /\ IF s \in AgentSteps
     THEN /\ Touch(r, IF tree # NoTree THEN [tree EXCEPT !.files[s] = "whole"] ELSE tree)
          /\ Write(r, Result(s))
     ELSE UNCHANGED <<tree, histories, receipt>>
  /\ UNCHANGED <<lockVars, pc, plan, status, digest, published>>

\* recordStepEvidence: the digest first,
Measure(r, s) ==
  /\ call[r][s] = "returned"
  /\ Call(r, s, "measured")
  /\ digest' = [digest EXCEPT ![r][s] = tree]
  /\ UNCHANGED <<lockVars, tree, receipt, pc, plan, status, published, histories>>

\* the entry after it.  The engine takes the result unless it gave the attempt up before.
Record(r, s) ==
  /\ call[r][s] = "measured"
  /\ Call(r, s, "none")
  /\ Write(r, Evidence(s, digest[r][s]))
  /\ digest' = [digest EXCEPT ![r][s] = NoTree]
  /\ IF status[r][s] = "running" THEN Engine(r, s, "succeeded") ELSE UNCHANGED status
  /\ UNCHANGED <<lockVars, tree, pc, plan, published, histories>>

\* An attempt that fails, or stops as it was told to, leaves its half done work.
StopCall(r, s) ==
  /\ call[r][s] = "working"
  /\ Call(r, s, "none")
  /\ IF status[r][s] = "running" THEN Engine(r, s, "failed") ELSE UNCHANGED status
  /\ UNCHANGED <<lockVars, tree, receipt, pc, plan, digest, published, histories>>

SlipTakesLate(r, s) == Engine(r, s, "succeeded")
SlipTimedOut(r, s) == Engine(r, s, "timed out")
SlipWaitsOn(r, s) == UNCHANGED status

\* Out of time: the step has failed for the engine, whatever its attempt still does.
GiveUp(r, s) == Engine(r, s, "failed")

TimeOut(r, s) ==
  /\ pc[r] = "running" /\ status[r][s] = "running" /\ r \in Cut
  /\ GiveUp(r, s)
  /\ UNCHANGED <<lockVars, tree, receipt, pc, plan, call, digest, published, histories>>

\* The signal of the run is aborted: the engine throws at the top of its loop.
Abort(r) ==
  /\ pc[r] = "running" /\ Goto(r, "failing") /\ r \in Cut
  /\ status' = [status EXCEPT ![r] = [s \in Steps |-> IF @[s] = "running" THEN "failed" ELSE @[s]]]
  /\ UNCHANGED <<lockVars, tree, receipt, plan, call, digest, published, histories>>

\* The engine throws (fail fast) or returns; the contents are verified, which may throw too.
WorkflowEnds(r) ==
  /\ pc[r] = "running" /\ Running(r) = {} /\ Startable(r) = {}
  /\ \/ Goto(r, "failing")
     \/ (FailFast => Failed(r) = {}) /\ Goto(r, "finishing")
  /\ UNCHANGED <<lockVars, tree, receipt, plan, status, call, digest, published, histories>>

-----------------------------------------------------------------------------
(* After the last step.                                                    *)

\* The catch of runWorkflow: telemetry, which may throw, and the entry that seals the receipt.
SealFailed(r) ==
  /\ pc[r] = "failing"
  /\ \/ Write(r, End("failed")) /\ UNCHANGED unsent
     \/ TelemetryFails /\ unsent' = unsent \cup {r} /\ UNCHANGED receipt
  /\ Unwind(r)
  /\ UNCHANGED <<lockVars, tree, plan, status, call, digest, published, meddled, looked>>

Verdict(r) == IF Failed(r) = {} THEN "succeeded" ELSE "failed"

Finish(r) ==
  /\ pc[r] = "finishing"
  /\ Write(r, End(Verdict(r))) /\ Goto(r, "sealed")
  /\ UNCHANGED <<lockVars, tree, plan, status, call, digest, published, histories>>

SlipLeavesOpen(r) == UNCHANGED receipt

\* catch: the receipt is sealed if it is not.
SealAnyway(r) == Write(r, End("failed"))

\* What is gathered before the entry fails.
FinishFails(r) ==
  /\ pc[r] = "finishing"
  /\ SealAnyway(r) /\ Unwind(r)
  /\ UNCHANGED <<lockVars, tree, plan, status, call, digest, published, histories>>

\* publishRun: only of a workflow that succeeded.
Publishable(r) == Publishing /\ tree # NoTree /\ Verdict(r) = "succeeded"

\* The work is committed and pushed, and the push or the merge request may fail after the commit;
\* or nothing is left to publish, or the remote is wrong; or the branch conflicts with its target.
Publish(r) ==
  /\ pc[r] = "sealed"
  /\ \/ /\ Publishable(r) /\ ~Clean
        /\ Touch(r, [tree EXCEPT !.head = tree.files])
        /\ \/ Goto(r, "cleaning") /\ published' = published \cup {r}
           \/ Unwind(r) /\ UNCHANGED published
     \/ Publishable(r) /\ Unwind(r) /\ UNCHANGED <<tree, histories, published>>
     \/ Goto(r, "cleaning") /\ UNCHANGED <<tree, histories, published>>
  /\ UNCHANGED <<lockVars, receipt, plan, status, call, digest>>

CleanUp(r) ==
  /\ pc[r] = "cleaning"
  /\ LET requested == Cleanup = "on-success" \/ (Cleanup = "after-publish" /\ r \in published)
     IN  IF requested /\ Removable(r) THEN Look(r, "removing")
         ELSE Unwind(r) /\ UNCHANGED <<tree, histories>>
  /\ UNCHANGED <<lockVars, receipt, plan, status, call, digest, published>>

\* git worktree remove: git refuses what is not clean, unless ignorable files made it --force.
RemoveTree(r) ==
  /\ pc[r] \in Removing /\ Unwind(r)
  /\ Touch(r, IF tree # NoTree /\ (Indexed \/ Clean) THEN NoTree ELSE tree)
  /\ UNCHANGED <<lockVars, receipt, plan, status, call, digest, published>>

\* finally
Release(r) ==
  /\ pc[r] = "releasing" /\ Leave(r, "ended")
  /\ IF plan[r].from # NoRun THEN GiveBack(r) ELSE UNCHANGED lockVars
  /\ UNCHANGED <<tree, receipt, call, digest, published>>

-----------------------------------------------------------------------------
(* Around the runs.                                                        *)

Kill(r) ==
  /\ r \in Mortal /\ pc[r] \in Within \cup {"planned", "releasing"}
  /\ Leave(r, "dead") /\ Step(r, "no")
  /\ call' = [call EXCEPT ![r] = [s \in Steps |-> "none"]]
  /\ digest' = [digest EXCEPT ![r] = [s \in Steps |-> NoTree]]
  /\ tries' = [tries EXCEPT ![r] = 0]
  /\ UNCHANGED <<lock, tree, receipt, published>>

Edit ==
  /\ tree # NoTree /\ tree.files[Hand] = "none" /\ Editing
  /\ Touch(NoRun, [tree EXCEPT !.files[Hand] = "whole"])
  /\ UNCHANGED <<lockVars, receipt, runVars, published>>

Ages == AgeLock /\ UNCHANGED <<tree, receipt, runVars, published, histories>>

Attempt(r, s) == Return(r, s) \/ Measure(r, s) \/ Record(r, s)

Proceed(r) ==
  \/ Lock(r) \/ TurnedAway(r) \/ Adopt(r) \/ SetUpFails(r) \/ Begin(r)
  \/ \E s \in Steps : StartStep(r, s)
  \/ WorkflowEnds(r) \/ SealFailed(r) \/ Finish(r) \/ FinishFails(r)
  \/ Publish(r) \/ CleanUp(r) \/ RemoveTree(r) \/ Release(r)

Next ==
  \/ \E r \in Runs :
       \/ PlanResume(r) \/ Create(r) \/ Proceed(r) \/ Abort(r) \/ Kill(r)
       \/ \E s \in Steps : Attempt(r, s) \/ StopCall(r, s) \/ TimeOut(r, s)
  \/ Edit \/ Ages

Spec == Init /\ [][Next]_vars

\* A process goes on; an attempt may hang for ever, and then the clock of the engine ends the wait.
Fairness == \A r \in Runs :
  /\ WF_vars(Proceed(r))
  /\ \A s \in Steps : WF_vars(Measure(r, s) \/ Record(r, s)) /\ WF_vars(TimeOut(r, s))
FairSpec == Spec /\ Fairness

-----------------------------------------------------------------------------
(* Properties.                                                             *)

Begun(r) == receipt[r] # <<>>

\* A run that began its receipt and was not killed leaves it sealed, whatever failed
\* (project-runner.js:266-268 and 451-453), but for one thing: a run that failed and then could
\* not export its telemetry either throws before the entry that seals (:411).
SealsItsReceipt ==
  \A r \in Runs \ unsent : pc[r] = "ended" /\ Begun(r) => Sealed(receipt[r])

\* A run that continues another finds the worktree as the receipt says the last finished step
\* left it, unless someone changed it after the plan (resume-plan.js:78-85).
KnownGround ==
  \A r \in Runs \ meddled : plan[r].from # NoRun /\ Begun(r) => Head(receipt[r]).tree = plan[r].expected

\* While it works, the work of each step it carries over is there, and no step a carried result
\* was made from runs again (resume-plan.js:205-232).
CarriedIsThere ==
  \A r \in Runs \ meddled : pc[r] \in Within /\ tree # NoTree =>
    \A s \in plan[r].carried : tree.files[s] = "whole" /\ Needs[s] \subseteq plan[r].carried

\* A receipt sealed "succeeded" holds the evidence of every step (project-runner.js:387-396).
SuccessIsComplete ==
  \A r \in Runs : Succeeded(receipt[r]) => With("step", receipt[r]) = Steps

\* The worktree is removed only by a run that looked and found nothing to lose; what is lost
\* nevertheless came into it since, where the removal is a forced one (worktrees.js:171-185);
\* and a run that continues another leaves that run's worktree where it is until it has finished
\* (project-runner.js:768-780).
LosesNothing ==
  tree # NoTree /\ tree' = NoTree =>
    \E r \in DOMAIN pc :
      /\ pc[r] \in Removing /\ pc'[r] = "releasing"
      /\ pc[r] = "discarding" => plan[r].from = NoRun
      /\ Clean \/ Indexed
      /\ \A f \in DOMAIN tree.files : tree.files[f] # tree.head[f] =>
           tree.files[f] # looked[r].files[f] \/ tree.head[f] # looked[r].head[f]
NothingLost == [][LosesNothing]_vars

\* The lock file of a live process belongs to a run that is opening it or will release it
\* (project-runner.js:63-67).
NoneLockedOut == lock.by \in Alive => pc[lock.by] \in Within \cup {"planned", "releasing"}

\* Nobody else is working in the worktree that a plan finds fit to be continued (resume-plan.js:163).
WorksAlone ==
  [][\A r \in Runs : pc[r] = "idle" /\ pc'[r] = "planned" =>
       \A q \in Runs \ {r} : pc[q] \notin Within]_vars

\* Every run that sets out comes to an end, unless its process dies.
Underway(r) == pc[r] \notin {"idle", "ended", "dead"}
RunEnds == \A r \in Runs : Underway(r) ~> ~Underway(r)
=============================================================================
