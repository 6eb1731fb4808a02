------------------------------- MODULE RunsProof -------------------------------
(***************************************************************************)
(* Proofs about what a run leaves behind (MCRuns).                         *)
(*                                                                         *)
(* Project runs, for any workflow and any number of runs that want the     *)
(* worktree: who removes it found nothing to lose when it looked, a run    *)
(* leaves its receipt sealed, a success holds the evidence of every step,  *)
(* a run that continues another finds the ground it planned on, and the    *)
(* lock of a live process is of one that will release it.                  *)
(*                                                                         *)
(* Issues that GitLab sends, for any deliveries and every setting of       *)
(* publishing: a delivery is run once per enqueueing or forced resumption, *)
(* and what is published is a run that succeeded.                          *)
(***************************************************************************)
EXTENDS MCRuns, SequenceTheorems, WellFoundedInduction, TLAPS

\* Every entry of the state has its form (what Carried computes is left open).
ShapeFit ==
  /\ lock \in [by : Runs \cup {NoRun}, written : BOOLEAN, old : BOOLEAN]
  /\ taking \in [Runs -> Taking]
  /\ tree \in Tree \cup {NoTree}
  /\ receipt \in [Runs -> Seq(Entries)]
  /\ pc \in [Runs -> Stages]
  /\ DOMAIN plan = Runs
  /\ \A r \in Runs : plan[r].from \in Runs \cup {NoRun} /\ plan[r].reset \in BOOLEAN
  /\ status \in [Runs -> [Steps -> {"pending", "running", "succeeded", "failed"}]]
  /\ call \in [Runs -> [Steps -> {"none", "working", "returned", "measured"}]]
  /\ digest \in [Runs -> [Steps -> Tree \cup {NoTree}]]
  /\ looked \in [Runs -> Tree \cup {NoTree}]

\* A lock file names the run that is filling it or holds it, and who takes or holds it continues
\* another run and has not ended; the lock is held from the opening of the worktree to its release.
LockOf(r) ==
  /\ lock.by = r => pc[r] = "dead" \/ taking[r] \in {"write", "held"}
  /\ taking[r] # "no" => plan[r].from # NoRun /\ pc[r] \in Within \cup {"planned", "releasing"}
  /\ taking[r] \notin {"no", "held"} => pc[r] = "planned"
  /\ pc[r] = "planned" => plan[r].from # NoRun
  /\ pc[r] \in {"idle", "ended", "dead"} => plan[r].from = NoRun
  /\ pc[r] \in Within \cup {"releasing"} /\ plan[r].from # NoRun => taking[r] = "held"
LockFit == \A r \in Runs : LockOf(r)

\* A receipt is begun before the first step, and sealed on the way out only.
StageOf(r) ==
  /\ pc[r] \in {"idle", "planned", "opened", "discarding"} => receipt[r] = <<>>
  /\ receipt[r] = <<>> => \A s \in Steps : call[r][s] = "none"
  /\ pc[r] \in {"running", "failing", "finishing", "sealed", "cleaning", "removing"} => receipt[r] # <<>>
  /\ receipt[r] # <<>> => receipt[r][1].kind = "start"
  /\ Sealed(receipt[r]) => pc[r] \in {"sealed", "cleaning", "removing", "releasing", "ended", "dead"}
  /\ pc[r] \in {"sealed", "cleaning", "removing"} => Sealed(receipt[r])
  /\ r \notin unsent /\ pc[r] \in {"releasing", "ended"} /\ receipt[r] # <<>> => Sealed(receipt[r])
StageFit == \A r \in Runs : StageOf(r)

\* A step the engine counts as done has its evidence, and the engine is done when no step is left.
StepOf(r) ==
  /\ \A s \in Steps : status[r][s] = "running" => pc[r] = "running"
  /\ \A s \in Steps : status[r][s] = "succeeded" => s \in With("step", receipt[r])
  /\ pc[r] = "finishing" => Running(r) = {} /\ Startable(r) = {} /\ (FailFast => Failed(r) = {})
  /\ Succeeded(receipt[r]) => With("step", receipt[r]) = Steps
StepFit == \A r \in Runs : StepOf(r)

\* A plan that nobody meddled with is still true of the worktree when the receipt begins.
GroundOf(r) ==
  /\ plan[r].reset => plan[r].expected \in Tree
  /\ r \notin meddled /\ plan[r].from # NoRun =>
       /\ pc[r] = "planned" /\ ~plan[r].reset => tree = plan[r].expected
       /\ pc[r] = "opened" => tree = plan[r].expected
       /\ receipt[r] # <<>> => receipt[r][1].tree = plan[r].expected
GroundFit == \A r \in Runs : GroundOf(r)

\* Before the first run has made the worktree, there is none and nobody has set out.
BirthFit == pc[First] = "idle" => tree = NoTree /\ \A r \in Runs : pc[r] = "idle"

\* Who is about to remove the worktree found nothing in it to lose, and who discards it made it.
LookFit ==
  \A r \in Runs :
    /\ pc[r] \in Removing => looked[r] \in Tree /\ looked[r].files = looked[r].head
    /\ pc[r] = "discarding" => plan[r].from = NoRun

Fit == ShapeFit /\ LockFit /\ StageFit /\ StepFit /\ GroundFit /\ BirthFit /\ LookFit

-----------------------------------------------------------------------------
(* Receipts.                                                               *)

\* What the run appends are entries.
LEMMA EntriesKnown ==
  /\ \A t \in Tree \cup {NoTree} : Start(t) \in Entries /\ Start(t).kind = "start" /\ Start(t).tree = t
  /\ \A s \in Steps : Result(s) \in Entries /\ Result(s).kind = "result"
  /\ \A s \in Steps, t \in Tree \cup {NoTree} :
       Evidence(s, t) \in Entries /\ Evidence(s, t).kind = "step" /\ Evidence(s, t).step = s
  /\ \A v \in {"succeeded", "failed"} : End(v) \in Entries /\ End(v).kind = "end" /\ End(v).status = v
BY DEF Start, Result, Evidence, End, Entries

\* An append: the entries before it stay, a sealed receipt refuses, and an end seals it.
LEMMA AppendKeeps ==
  ASSUME NEW file \in Seq(Entries), NEW entry \in Entries
  PROVE  LET new == Appended(file, entry)
         IN  /\ new \in Seq(Entries) /\ new # <<>>
             /\ file # <<>> => new[1] = file[1]
             /\ file = <<>> => new[1] = entry
             /\ Sealed(file) => new = file
             /\ ~Sealed(file) => (Sealed(new) <=> entry.kind = "end")
             /\ ~Sealed(file) => (Succeeded(new) <=> entry.kind = "end" /\ entry.status = "succeeded")
             /\ \A kind : With(kind, file) \subseteq With(kind, new)
             /\ ~Sealed(file) /\ entry.kind = "step" /\ entry.step \in Steps =>
                  entry.step \in With("step", new)
<1>1. CASE Sealed(file)
  BY <1>1 DEF Appended, Sealed
<1>2. CASE ~Sealed(file)
  <2> DEFINE new == Append(file, entry)
  <2>1. /\ new \in Seq(Entries) /\ Len(new) = Len(file) + 1 /\ new # <<>>
        /\ \A i \in 1..Len(file) : new[i] = file[i]
        /\ new[Len(file) + 1] = entry
        /\ DOMAIN new = 1..(Len(file) + 1) /\ DOMAIN file = 1..Len(file)
    BY AppendProperties, LenProperties
  <2>2. Last(new) = entry
    BY <2>1 DEF Last
  <2>3. \A kind : With(kind, file) \subseteq With(kind, new)
    BY <2>1 DEF With
  <2>4. entry.kind = "step" /\ entry.step \in Steps => entry.step \in With("step", new)
    BY <2>1 DEF With
  <2>5. file # <<>> => new[1] = file[1]
    BY <2>1, EmptySeq
  <2>6. file = <<>> => new[1] = entry
    BY <2>1, EmptySeq
  <2>7. Appended(file, entry) = new
    BY <1>2 DEF Appended
  <2> HIDE DEF new
  <2> QED
    BY <1>2, <2>1, <2>2, <2>3, <2>4, <2>5, <2>6, <2>7 DEF Sealed, Succeeded
<1> QED
  BY <1>1, <1>2

\* The same of a step that appends to the receipt of one run.
LEMMA WriteKeeps ==
  ASSUME receipt \in [Runs -> Seq(Entries)], NEW r \in Runs, NEW entry \in Entries, Write(r, entry)
  PROVE  /\ receipt' \in [Runs -> Seq(Entries)]
         /\ \A q \in Runs \ {r} : receipt'[q] = receipt[q]
         /\ receipt'[r] # <<>>
         /\ receipt[r] # <<>> => receipt'[r][1] = receipt[r][1]
         /\ receipt[r] = <<>> => receipt'[r][1] = entry
         /\ Sealed(receipt[r]) => receipt'[r] = receipt[r]
         /\ ~Sealed(receipt[r]) => (Sealed(receipt'[r]) <=> entry.kind = "end")
         /\ ~Sealed(receipt[r]) =>
              (Succeeded(receipt'[r]) <=> entry.kind = "end" /\ entry.status = "succeeded")
         /\ \A kind : With(kind, receipt[r]) \subseteq With(kind, receipt'[r])
         /\ ~Sealed(receipt[r]) /\ entry.kind = "step" /\ entry.step \in Steps =>
              entry.step \in With("step", receipt'[r])
<1> DEFINE file == receipt[r]
           new == Appended(file, entry)
<1>1. file \in Seq(Entries)
  OBVIOUS
<1>2. receipt' = [receipt EXCEPT ![r] = new]
  BY DEF Write
<1>3. /\ new \in Seq(Entries) /\ new # <<>>
      /\ file # <<>> => new[1] = file[1]
      /\ file = <<>> => new[1] = entry
      /\ Sealed(file) => new = file
      /\ ~Sealed(file) => (Sealed(new) <=> entry.kind = "end")
      /\ ~Sealed(file) => (Succeeded(new) <=> entry.kind = "end" /\ entry.status = "succeeded")
      /\ \A kind : With(kind, file) \subseteq With(kind, new)
      /\ ~Sealed(file) /\ entry.kind = "step" /\ entry.step \in Steps =>
           entry.step \in With("step", new)
  BY <1>1, AppendKeeps
<1> HIDE DEF new
<1>4. /\ receipt' \in [Runs -> Seq(Entries)]
      /\ \A q \in Runs \ {r} : receipt'[q] = receipt[q]
      /\ receipt'[r] = new
  BY <1>2, <1>3
<1> QED
  BY <1>3, <1>4

\* In a receipt that was begun, the worktree as last left is a worktree or none.
LEMMA LeftIsTree ==
  ASSUME NEW file \in Seq(Entries), file # <<>>, file[1].kind = "start"
  PROVE  LastLeft(file) \in Tree \cup {NoTree}
<1> DEFINE seen == {i \in DOMAIN file : file[i].kind \in {"start", "step"}}
<1>1. DOMAIN file = 1..Len(file) /\ Len(file) \in Nat /\ 1 \in DOMAIN file
  BY EmptySeq, LenProperties
<1>2. seen \subseteq 1..Len(file) /\ 1 \in seen
  BY <1>1
<1>3. \E m \in seen : \A i \in seen : m >= i
  <2> DEFINE after == {Len(file) - i : i \in seen}
  <2>1. after \subseteq Nat /\ after # {}
    BY <1>1, <1>2
  <2>2. \E n \in after : \A k \in after : ~(<<k, n>> \in OpToRel(<, Nat))
    BY <2>1, WFMin, NatLessThanWellFounded, Zenon
  <2>3. PICK n \in after : \A k \in after : n <= k
    <3>1. PICK n \in after : \A k \in after : ~(<<k, n>> \in OpToRel(<, Nat))
      BY <2>2
    <3>2. \A k \in after : <<k, n>> \in Nat \X Nat
      BY <2>1
    <3>3. \A k \in after : ~(k < n)
      BY <3>1, <3>2 DEF OpToRel
    <3> HIDE DEF after
    <3> QED
      BY <2>1, <3>3
  <2>4. PICK m \in seen : n = Len(file) - m
    BY <2>3
  <2>5. \A i \in seen : Len(file) - m <= Len(file) - i
    BY <2>3, <2>4
  <2> HIDE DEF seen
  <2> QED
    BY <1>1, <1>2, <2>4, <2>5
<1>4. Max(seen) \in seen
  BY <1>3 DEF Max
<1>5. file[Max(seen)] \in Entries /\ file[Max(seen)].kind \in {"start", "step"}
  BY <1>4, <1>1, ElementOfSeq
<1> HIDE DEF seen
<1>6. file[Max(seen)].tree \in Tree \cup {NoTree}
  BY <1>5 DEF Entries
<1> QED
  BY <1>6 DEF LastLeft, seen

\* A worktree with another state of one file, or with its files committed, is a worktree.
LEMMA EditedIsTree ==
  ASSUME NEW t \in Tree
  PROVE  /\ \A f \in Steps \cup {Hand}, entry \in Part : [t EXCEPT !.files[f] = entry] \in Tree
         /\ [t EXCEPT !.head = t.files] \in Tree
BY DEF Tree, Files

\* What the engine holds of a step, and where an attempt stands, change for that step only.
LEMMA NestedUpdate ==
  ASSUME NEW S, NEW f \in [Runs -> [Steps -> S]], NEW r \in Runs, NEW s \in Steps, NEW v \in S
  PROVE  /\ [f EXCEPT ![r][s] = v] \in [Runs -> [Steps -> S]]
         /\ [f EXCEPT ![r][s] = v][r][s] = v
         /\ \A t \in Steps \ {s} : [f EXCEPT ![r][s] = v][r][t] = f[r][t]
         /\ \A q \in Runs \ {r} : [f EXCEPT ![r][s] = v][q] = f[q]
OBVIOUS

LEMMA EngineGives ==
  ASSUME ShapeFit, NEW r \in Runs, NEW s \in Steps, NEW v \in {"pending", "running", "succeeded", "failed"},
         Engine(r, s, v)
  PROVE  /\ status' \in [Runs -> [Steps -> {"pending", "running", "succeeded", "failed"}]]
         /\ status'[r][s] = v
         /\ \A t \in Steps \ {s} : status'[r][t] = status[r][t]
         /\ \A q \in Runs \ {r} : status'[q] = status[q]
<1>1. status' = [status EXCEPT ![r][s] = v]
  BY DEF Engine
<1> QED
  BY <1>1, NestedUpdate DEF ShapeFit

LEMMA CallGives ==
  ASSUME ShapeFit, NEW r \in Runs, NEW s \in Steps, NEW v \in {"none", "working", "returned", "measured"},
         Call(r, s, v)
  PROVE  /\ call' \in [Runs -> [Steps -> {"none", "working", "returned", "measured"}]]
         /\ call'[r][s] = v
         /\ \A t \in Steps \ {s} : call'[r][t] = call[r][t]
         /\ \A q \in Runs \ {r} : call'[q] = call[q]
<1>1. call' = [call EXCEPT ![r][s] = v]
  BY DEF Call
<1> QED
  BY <1>1, NestedUpdate DEF ShapeFit

\* Where a run stands with the lock.
LEMMA StepGives ==
  ASSUME ShapeFit, NEW r \in Runs, NEW where \in Taking, Step(r, where)
  PROVE  /\ taking' \in [Runs -> Taking] /\ taking'[r] = where
         /\ \A q \in Runs \ {r} : taking'[q] = taking[q]
BY DEF Step, ShapeFit

\* What becomes of the lock file is a lock file.
LEMMA LockTyped ==
  ASSUME ShapeFit, NEW r \in Runs
  PROVE  LET File == [by : Runs \cup {NoRun}, written : BOOLEAN, old : BOOLEAN]
         IN  /\ NoFile \in File /\ [NoFile EXCEPT !.by = r] \in File /\ [NoFile EXCEPT !.by = r].by = r
             /\ [lock EXCEPT !.written = TRUE] \in File /\ [lock EXCEPT !.written = TRUE].by = lock.by
             /\ [lock EXCEPT !.old = TRUE] \in File /\ [lock EXCEPT !.old = TRUE].by = lock.by
BY DEF ShapeFit, NoFile

\* Whoever changes the worktree meddles with all others that have planned.
LEMMA TouchGives ==
  ASSUME NEW who, NEW new, Touch(who, new)
  PROVE  /\ tree' = new /\ meddled \subseteq meddled'
         /\ \A q \in Runs \ {who} : q \notin meddled' =>
              new = tree \/ pc[q] \notin Within \cup {"planned"}
BY DEF Touch

\* A run that leaves has no plan any more, and no step under way for its engine.
LEMMA LeaveGives ==
  ASSUME ShapeFit, NEW r \in Runs, NEW stage \in Stages, Leave(r, stage)
  PROVE  /\ pc' \in [Runs -> Stages] /\ pc'[r] = stage
         /\ DOMAIN plan' = Runs /\ plan'[r].from = NoRun /\ plan'[r].reset = FALSE
         /\ status' \in [Runs -> [Steps -> {"pending", "running", "succeeded", "failed"}]]
         /\ \A s \in Steps : status'[r][s] = "pending"
         /\ \A q \in Runs \ {r} : /\ pc'[q] = pc[q] /\ plan'[q] = plan[q] /\ status'[q] = status[q]
                                  /\ q \in meddled' <=> q \in meddled
<1>1. plan' = [plan EXCEPT ![r] = Fresh] /\ Fresh.from = NoRun /\ Fresh.reset = FALSE
  BY DEF Leave, Fresh
<1>2. DOMAIN plan' = Runs /\ plan'[r] = Fresh /\ \A q \in Runs \ {r} : plan'[q] = plan[q]
  BY <1>1, Zenon DEF ShapeFit
<1>3. pc' \in [Runs -> Stages] /\ pc'[r] = stage /\ \A q \in Runs \ {r} : pc'[q] = pc[q]
  BY DEF Leave, Goto, ShapeFit
<1>4. /\ status' \in [Runs -> [Steps -> {"pending", "running", "succeeded", "failed"}]]
      /\ \A s \in Steps : status'[r][s] = "pending"
      /\ \A q \in Runs \ {r} : status'[q] = status[q]
  BY DEF Leave, ShapeFit
<1>5. \A q \in Runs \ {r} : q \in meddled' <=> q \in meddled
  BY DEF Leave
<1> QED
  BY <1>1, <1>2, <1>3, <1>4, <1>5

\* A plan to continue a run names that run, and what its receipt says of the worktree.
LEMMA PlanGives ==
  ASSUME ShapeFit, StageFit, NEW r \in Runs, PlanResume(r)
  PROVE  /\ pc[r] = "idle" /\ pc'[r] = "planned" /\ pc' \in [Runs -> Stages]
         /\ DOMAIN plan' = Runs /\ plan'[r].from \in Runs /\ plan'[r].reset \in BOOLEAN
         /\ plan'[r].reset => plan'[r].expected \in Tree
         /\ ~plan'[r].reset => tree = plan'[r].expected
         /\ \A q \in Runs \ {r} : pc'[q] = pc[q] /\ plan'[q] = plan[q]
<1>1. PICK o \in Runs \ {r}, reset \in BOOLEAN :
        /\ ~Refused(o) /\ AsLeft(o, reset)
        /\ plan' = [plan EXCEPT ![r] = [from |-> o, carried |-> Carried(receipt[o]),
                                        reset |-> reset, expected |-> LastLeft(receipt[o])]]
  BY DEF PlanResume
<1> DEFINE new == [from |-> o, carried |-> Carried(receipt[o]),
                   reset |-> reset, expected |-> LastLeft(receipt[o])]
<1>2. new.from = o /\ new.reset = reset /\ new.expected = LastLeft(receipt[o])
  OBVIOUS
<1>3. plan' = [plan EXCEPT ![r] = new]
  BY <1>1
<1> HIDE DEF new
<1>4. DOMAIN plan' = Runs /\ plan'[r] = new /\ \A q \in Runs \ {r} : plan'[q] = plan[q]
  BY <1>3, Zenon DEF ShapeFit
<1>5. receipt[o] # <<>> /\ receipt[o] \in Seq(Entries) /\ receipt[o][1].kind = "start"
  BY <1>1 DEF Refused, ShapeFit, StageFit, StageOf
<1>6. LastLeft(receipt[o]) \in Tree \cup {NoTree}
  BY <1>5, LeftIsTree
<1>7. /\ reset => LastLeft(receipt[o]) \in Tree
      /\ ~reset => tree = LastLeft(receipt[o])
  BY <1>1, <1>6 DEF AsLeft
<1>8. pc[r] = "idle" /\ pc'[r] = "planned" /\ pc' \in [Runs -> Stages] /\ \A q \in Runs \ {r} : pc'[q] = pc[q]
  BY DEF PlanResume, Goto, ShapeFit, Stages
<1> QED
  BY <1>1, <1>2, <1>4, <1>7, <1>8

\* A run of which nothing changes keeps its entry of the invariant about steps.
LEMMA StepsKept ==
  ASSUME NEW q \in Runs, StepOf(q), receipt'[q] = receipt[q], status'[q] = status[q], pc'[q] = pc[q]
  PROVE  StepOf(q)'
<1>1. Running(q)' = Running(q) /\ Failed(q)' = Failed(q) /\ Startable(q)' = Startable(q)
  BY DEF Running, Failed, Startable
<1> QED
  BY <1>1 DEF StepOf

\* A run that is not touched keeps its ground, unless somebody meddled with it.
LEMMA GroundKept ==
  ASSUME NEW q \in Runs, GroundOf(q),
         plan'[q] = plan[q], pc'[q] = pc[q], receipt'[q] = receipt[q],
         q \notin meddled' => q \notin meddled /\ (tree' = tree \/ pc[q] \notin Within \cup {"planned"})
  PROVE  GroundOf(q)'
BY DEF GroundOf, Within, Removing

\* A run that fails to set up, or cleans up, changes nothing but where it stands: it looks at the
\* worktree to remove it, or goes straight to the release.
LEMMA LookGives ==
  ASSUME ShapeFit, NEW r \in Runs, SetUpFails(r) \/ CleanUp(r)
  PROVE  /\ UNCHANGED <<lockVars, tree, receipt, plan, status, call, digest, meddled, unsent>>
         /\ pc' \in [Runs -> Stages] /\ looked' \in [Runs -> Tree \cup {NoTree}]
         /\ \A q \in Runs \ {r} : pc'[q] = pc[q]
         /\ pc[r] \in {"planned", "opened", "cleaning"}
         /\ pc[r] = "planned" => taking[r] = "held" /\ pc'[r] = "releasing"
         /\ pc[r] = "opened" => pc'[r] \in {"discarding", "releasing"}
         /\ pc[r] = "cleaning" => pc'[r] \in {"removing", "releasing"}
<1>1. CASE SetUpFails(r)
  <2>1. UNCHANGED <<lockVars, tree, receipt, plan, status, call, digest, meddled, unsent>>
    BY <1>1 DEF SetUpFails, Look, histories
  <2>2. looked' \in [Runs -> Tree \cup {NoTree}]
    BY <1>1 DEF SetUpFails, Look, histories, ShapeFit
  <2>3. \/ pc[r] = "planned" /\ taking[r] = "held" /\ Goto(r, "releasing")
        \/ pc[r] = "opened" /\ (Goto(r, "discarding") \/ Goto(r, "releasing"))
    BY <1>1 DEF SetUpFails, Look, Unwind
  <2> QED
    BY <2>1, <2>2, <2>3 DEF Goto, ShapeFit, Stages, Within, Removing
<1>2. CASE CleanUp(r)
  <2>1. UNCHANGED <<lockVars, tree, receipt, plan, status, call, digest, meddled, unsent>>
    BY <1>2 DEF CleanUp, Look, histories
  <2>2. looked' \in [Runs -> Tree \cup {NoTree}]
    BY <1>2 DEF CleanUp, Look, histories, ShapeFit
  <2>3. pc[r] = "cleaning" /\ (Goto(r, "removing") \/ Goto(r, "releasing"))
    BY <1>2 DEF CleanUp, Look, Unwind
  <2> QED
    BY <2>1, <2>2, <2>3 DEF Goto, ShapeFit, Stages, Within, Removing
<1> QED
  BY <1>1, <1>2

\* What a run noted of the worktree is a worktree or none.
LEMMA LookedTyped ==
  ASSUME ShapeFit, [Next]_vars
  PROVE  looked' \in [Runs -> Tree \cup {NoTree}]
<1>1. ASSUME NEW r \in Runs, PlanResume(r) \/ Create(r) \/ Lock(r) \/ Begin(r) \/ WorkflowEnds(r) \/ Finish(r)
              \/ FinishFails(r) \/ Abort(r) \/ SealFailed(r)
      PROVE  looked' = looked
  BY <1>1 DEF PlanResume, Create, Lock, Begin, WorkflowEnds, Finish, FinishFails, Abort, SealFailed, histories
<1>2. ASSUME NEW r \in Runs, TurnedAway(r) \/ Release(r) \/ Kill(r)
      PROVE  looked' = [looked EXCEPT ![r] = NoTree]
  BY <1>2 DEF TurnedAway, Release, Kill, Leave
<1>3. ASSUME NEW r \in Runs, Adopt(r) \/ Publish(r) \/ RemoveTree(r)
      PROVE  looked' = looked
  BY <1>3 DEF Adopt, GoBack, Publish, RemoveTree, Touch, histories
<1>4. ASSUME NEW r \in Runs, NEW s \in Steps,
             StartStep(r, s) \/ Return(r, s) \/ Measure(r, s) \/ Record(r, s) \/ StopCall(r, s) \/ TimeOut(r, s)
      PROVE  looked' = looked
  BY <1>4 DEF StartStep, Return, Measure, Record, StopCall, TimeOut, Touch, histories
<1>5. ASSUME NEW r \in Runs, SetUpFails(r) \/ CleanUp(r)
      PROVE  looked' \in [Runs -> Tree \cup {NoTree}]
  BY <1>5, LookGives
<1>6. CASE Edit \/ Ages \/ UNCHANGED vars
  <2>1. looked' = looked
    BY <1>6 DEF Edit, Ages, Touch, vars, histories
  <2> QED
    BY <2>1 DEF ShapeFit
<1>7. ASSUME NEW r \in Runs, looked' = looked \/ looked' = [looked EXCEPT ![r] = NoTree]
      PROVE  looked' \in [Runs -> Tree \cup {NoTree}]
  BY <1>7 DEF ShapeFit
<1> QED
  BY <1>1, <1>2, <1>3, <1>4, <1>5, <1>6, <1>7 DEF Next, Proceed, Attempt

-----------------------------------------------------------------------------
(* The parts of the invariant, action by action.                           *)

\* Every step keeps the form of the state.
LEMMA NextShape ==
  ASSUME Fit, [Next]_vars
  PROVE  ShapeFit'
<1>0. Fit /\ ShapeFit /\ LockFit /\ StageFit /\ StepFit /\ GroundFit /\ BirthFit /\ LookFit
  BY DEF Fit
<1>. looked' \in [Runs -> Tree \cup {NoTree}]
  BY <1>0, LookedTyped
<1>1. CASE UNCHANGED vars
  BY <1>0, <1>1 DEF ShapeFit, vars, lockVars, runVars
<1>2. ASSUME NEW r \in Runs, Lock(r) PROVE ShapeFit'
  <2>1. /\ lock' \in [by : Runs \cup {NoRun}, written : BOOLEAN, old : BOOLEAN]
        /\ taking' \in [Runs -> Taking]
    <3>1. CASE BeginTaking(r)
      BY <1>0, <3>1, StepGives DEF ShapeFit, BeginTaking, Taking
    <3>2. CASE CreateLock(r)
      BY <1>0, <3>2, StepGives, LockTyped DEF ShapeFit, CreateLock, Taking
    <3>3. CASE WriteLock(r)
      BY <1>0, <3>3, StepGives, LockTyped DEF ShapeFit, WriteLock, Taking
    <3>4. CASE LookAtLock(r, Alive)
      BY <1>0, <3>4, StepGives DEF ShapeFit, LookAtLock, Taking
    <3>5. CASE RemoveStale(r)
      BY <1>0, <3>5, StepGives, LockTyped DEF ShapeFit, RemoveStale, Taking
    <3> QED
      BY <1>0, <1>2, <3>1, <3>2, <3>3, <3>4, <3>5 DEF Lock, TakeLock
  <2> QED
    BY <1>0, <1>2, <2>1 DEF ShapeFit, Lock, runVars
<1>3. ASSUME NEW r \in Runs, PlanResume(r) PROVE ShapeFit'
  BY <1>0, <1>3, PlanGives DEF ShapeFit, PlanResume, lockVars
<1>4. ASSUME NEW r \in Runs, TurnedAway(r) PROVE ShapeFit'
  <2>1. Leave(r, "ended") /\ "ended" \in Stages
    BY <1>0, <1>4 DEF TurnedAway, Stages
  <2> QED
    BY <1>0, <1>4, <2>1, LeaveGives DEF ShapeFit, TurnedAway, Step, Taking
<1>5. ASSUME NEW r \in Runs, Adopt(r) PROVE ShapeFit'
  <2>1. tree' \in Tree \cup {NoTree}
    BY <1>0, <1>5, TouchGives DEF ShapeFit, Adopt, GoBack, GroundFit, GroundOf
  <2> QED
    BY <1>0, <1>5, <2>1 DEF ShapeFit, Adopt, Goto, Stages, Within, Removing, lockVars
<1>6. ASSUME NEW r \in Runs, Create(r) PROVE ShapeFit'
  <2>1. tree' \in Tree
    BY <1>0, <1>6 DEF Create, Blank, Tree, Files, Part
  <2> QED
    BY <1>0, <1>6, <2>1 DEF ShapeFit, Create, Goto, Stages, Within, Removing, lockVars
<1>7. ASSUME NEW r \in Runs, SetUpFails(r) PROVE ShapeFit'
  BY <1>0, <1>7, LookGives DEF ShapeFit, lockVars
<1>8. ASSUME NEW r \in Runs, Begin(r) PROVE ShapeFit'
  <2>1. Write(r, Start(tree)) /\ Start(tree) \in Entries
    BY <1>0, <1>8, EntriesKnown DEF ShapeFit, Begin
  <2> QED
    BY <1>0, <1>8, <2>1, WriteKeeps DEF ShapeFit, Begin, Goto, Stages, Within, Removing, lockVars
<1>9. ASSUME NEW r \in Runs, NEW s \in Steps, StartStep(r, s) PROVE ShapeFit'
  <2>1. tree' \in Tree \cup {NoTree}
    <3>1. \A entry \in Part : tree # NoTree => [tree EXCEPT !.files[s] = entry] \in Tree
      BY <1>0, EditedIsTree DEF ShapeFit
    <3> QED
      BY <1>0, <1>9, <3>1, TouchGives DEF ShapeFit, StartStep, Part
  <2> QED
    BY <1>0, <1>9, <2>1, EngineGives, CallGives DEF ShapeFit, StartStep, lockVars
<1>10. ASSUME NEW r \in Runs, NEW s \in Steps, Return(r, s) PROVE ShapeFit'
  <2>1. tree' \in Tree \cup {NoTree}
    <3>1. \A entry \in Part : tree # NoTree => [tree EXCEPT !.files[s] = entry] \in Tree
      BY <1>0, EditedIsTree DEF ShapeFit
    <3> QED
      BY <1>0, <1>10, <3>1, TouchGives DEF ShapeFit, Return, Part
  <2>2. receipt' \in [Runs -> Seq(Entries)]
    BY <1>0, <1>10, EntriesKnown, WriteKeeps DEF ShapeFit, Return
  <2> QED
    BY <1>0, <1>10, <2>1, <2>2 DEF ShapeFit, Return, Call, lockVars
<1>11. ASSUME NEW r \in Runs, NEW s \in Steps, Measure(r, s) PROVE ShapeFit'
  BY <1>0, <1>11 DEF ShapeFit, Measure, Call, lockVars
<1>12. ASSUME NEW r \in Runs, NEW s \in Steps, Record(r, s) PROVE ShapeFit'
  <2>1. Write(r, Evidence(s, digest[r][s])) /\ Evidence(s, digest[r][s]) \in Entries
    BY <1>0, <1>12, EntriesKnown DEF ShapeFit, Record
  <2>2. receipt' \in [Runs -> Seq(Entries)]
    BY <1>0, <2>1, WriteKeeps DEF ShapeFit
  <2>3. digest' \in [Runs -> [Steps -> Tree \cup {NoTree}]]
    BY <1>0, <1>12, NestedUpdate DEF ShapeFit, Record
  <2> QED
    BY <1>0, <1>12, <2>2, <2>3, EngineGives, CallGives DEF ShapeFit, Record, lockVars
<1>13. ASSUME NEW r \in Runs, NEW s \in Steps, StopCall(r, s) PROVE ShapeFit'
  <2>1. call' \in [Runs -> [Steps -> {"none", "working", "returned", "measured"}]]
    BY <1>0, <1>13, CallGives DEF ShapeFit, StopCall
  <2>2. status' \in [Runs -> [Steps -> {"pending", "running", "succeeded", "failed"}]]
    BY <1>0, <1>13, EngineGives DEF ShapeFit, StopCall
  <2> QED
    BY <1>0, <1>13, <2>1, <2>2 DEF ShapeFit, StopCall, lockVars
<1>14. ASSUME NEW r \in Runs, NEW s \in Steps, TimeOut(r, s) PROVE ShapeFit'
  BY <1>0, <1>14 DEF ShapeFit, TimeOut, GiveUp, Engine, lockVars
<1>15. ASSUME NEW r \in Runs, Abort(r) PROVE ShapeFit'
  BY <1>0, <1>15 DEF ShapeFit, Abort, Goto, lockVars, Stages, Within, Removing
<1>16. ASSUME NEW r \in Runs, WorkflowEnds(r) PROVE ShapeFit'
  BY <1>0, <1>16 DEF ShapeFit, WorkflowEnds, Goto, lockVars, runVars, Stages, Within, Removing
<1>17. ASSUME NEW r \in Runs, SealFailed(r) PROVE ShapeFit'
  <2>1. receipt' \in [Runs -> Seq(Entries)]
    BY <1>0, <1>17, EntriesKnown, WriteKeeps DEF ShapeFit, SealFailed
  <2> QED
    BY <1>0, <1>17, <2>1 DEF ShapeFit, SealFailed, Unwind, Goto, Stages, Within, Removing, lockVars
<1>18. ASSUME NEW r \in Runs, Finish(r) PROVE ShapeFit'
  <2>1. receipt' \in [Runs -> Seq(Entries)]
    BY <1>0, <1>18, EntriesKnown, WriteKeeps DEF ShapeFit, Finish, Verdict
  <2> QED
    BY <1>0, <1>18, <2>1 DEF ShapeFit, Finish, Goto, Stages, Within, Removing, lockVars
<1>19. ASSUME NEW r \in Runs, FinishFails(r) PROVE ShapeFit'
  <2>1. receipt' \in [Runs -> Seq(Entries)]
    BY <1>0, <1>19, EntriesKnown, WriteKeeps DEF ShapeFit, FinishFails, SealAnyway
  <2> QED
    BY <1>0, <1>19, <2>1 DEF ShapeFit, FinishFails, Unwind, Goto, Stages, Within, Removing, lockVars
<1>20. ASSUME NEW r \in Runs, Publish(r) PROVE ShapeFit'
  <2>1. tree' \in Tree \cup {NoTree}
    BY <1>0, <1>20, EditedIsTree, TouchGives DEF ShapeFit, Publish, Publishable
  <2> QED
    BY <1>0, <1>20, <2>1 DEF ShapeFit, Publish, Unwind, Goto, Stages, Within, Removing, lockVars
<1>21. ASSUME NEW r \in Runs, CleanUp(r) PROVE ShapeFit'
  BY <1>0, <1>21, LookGives DEF ShapeFit, lockVars
<1>26. ASSUME NEW r \in Runs, RemoveTree(r) PROVE ShapeFit'
  <2>1. tree' \in Tree \cup {NoTree}
    BY <1>0, <1>26, TouchGives DEF ShapeFit, RemoveTree
  <2>2. looked' = looked /\ Goto(r, "releasing") /\ UNCHANGED <<lockVars, receipt, plan, status, call, digest>>
    BY <1>26 DEF RemoveTree, Touch, Unwind
  <2> QED
    BY <1>0, <2>1, <2>2 DEF ShapeFit, Goto, Stages, Within, Removing, lockVars
<1>22. ASSUME NEW r \in Runs, Release(r) PROVE ShapeFit'
  <2>1. Leave(r, "ended") /\ "ended" \in Stages
    BY <1>0, <1>22 DEF Release, Stages
  <2>2. /\ lock' \in [by : Runs \cup {NoRun}, written : BOOLEAN, old : BOOLEAN]
        /\ taking' \in [Runs -> Taking]
    BY <1>0, <1>22, StepGives, LockTyped DEF ShapeFit, Release, GiveBack, Taking, lockVars
  <2> QED
    BY <1>0, <1>22, <2>1, <2>2, LeaveGives DEF ShapeFit, Release
<1>23. ASSUME NEW r \in Runs, Kill(r) PROVE ShapeFit'
  <2>1. Leave(r, "dead") /\ "dead" \in Stages
    BY <1>0, <1>23 DEF Kill, Stages
  <2> QED
    BY <1>0, <1>23, <2>1, LeaveGives DEF ShapeFit, Kill, Step, Taking
<1>24. CASE Edit
  <2>1. tree' \in Tree \cup {NoTree}
    <3>1. tree # NoTree => [tree EXCEPT !.files[Hand] = "whole"] \in Tree
      BY <1>0, EditedIsTree DEF ShapeFit, Part
    <3> QED
      BY <1>0, <1>24, <3>1, TouchGives DEF ShapeFit, Edit
  <2> QED
    BY <1>0, <1>24, <2>1 DEF ShapeFit, Edit, lockVars, runVars
<1>25. CASE Ages
  BY <1>0, <1>25 DEF ShapeFit, Ages, AgeLock, lockVars, runVars, Stages, Within, Removing
<1> QED
  BY <1>1, <1>2, <1>3, <1>4, <1>5, <1>6, <1>7, <1>8, <1>9, <1>10, <1>11, <1>12, <1>13, <1>14,
     <1>15, <1>16, <1>17, <1>18, <1>19, <1>20, <1>21, <1>22, <1>23, <1>24, <1>25, <1>26 DEF Next,
     Proceed, Attempt

\* A lock is given back by whoever holds it, and by nobody that does not.
LEMMA NextLock ==
  ASSUME Fit, [Next]_vars
  PROVE  LockFit'
<1>0. Fit /\ ShapeFit /\ LockFit /\ StageFit /\ StepFit /\ GroundFit /\ BirthFit /\ LookFit
  BY DEF Fit
<1>1. CASE UNCHANGED vars
  BY <1>0, <1>1 DEF LockFit, LockOf, vars, lockVars, runVars
<1>2. ASSUME NEW r \in Runs, Lock(r) PROVE LockFit'
  <2> DEFINE File == [by : Runs \cup {NoRun}, written : BOOLEAN, old : BOOLEAN]
  <2>1. pc[r] = "planned" /\ UNCHANGED <<pc, plan>>
    BY <1>0, <1>2 DEF Lock, runVars
  <2>2. CASE BeginTaking(r)
    BY <1>0, <2>1, <2>2, StepGives DEF LockFit, LockOf, BeginTaking, Taking
  <2>3. CASE CreateLock(r)
    <3>1. CASE lock = NoFile /\ lock' = [NoFile EXCEPT !.by = r] /\ Step(r, "write")
      BY <1>0, <2>1, <2>3, <3>1, StepGives, LockTyped DEF LockFit, LockOf, Taking, Within, Removing
    <3>2. CASE UNCHANGED lock /\ Step(r, "look")
      BY <1>0, <2>1, <2>3, <3>2, StepGives DEF LockFit, LockOf, CreateLock, Taking
    <3> QED
      BY <1>0, <2>3, <3>1, <3>2 DEF CreateLock
  <2>4. CASE WriteLock(r)
    <3>1. lock'.by = lock.by /\ Step(r, "held") /\ taking[r] = "write"
      BY <1>0, <2>4, LockTyped DEF WriteLock
    <3> QED
      BY <1>0, <2>1, <3>1, StepGives DEF LockFit, LockOf, Taking
  <2>5. CASE LookAtLock(r, Alive)
    <3>1. taking[r] = "look" /\ lock' = lock /\ (Step(r, "busy") \/ Step(r, "remove"))
      BY <1>0, <2>5 DEF LookAtLock
    <3> QED
      BY <1>0, <2>1, <3>1, StepGives DEF LockFit, LockOf, Taking
  <2>6. CASE RemoveStale(r)
    <3>1. taking[r] = "remove" /\ lock'.by = NoRun /\ (Step(r, "busy") \/ Step(r, "create"))
      BY <1>0, <2>6 DEF RemoveStale, NoFile
    <3> QED
      BY <1>0, <2>1, <3>1, StepGives, RunAssumption DEF LockFit, LockOf, Taking
  <2> QED
    BY <1>0, <1>2, <2>2, <2>3, <2>4, <2>5, <2>6 DEF Lock, TakeLock
<1>3. ASSUME NEW r \in Runs, PlanResume(r) PROVE LockFit'
  <2>1. taking[r] = "no" /\ UNCHANGED <<lock, taking>>
    BY <1>0, <1>3 DEF LockFit, LockOf, PlanResume, lockVars
  <2>2. /\ pc[r] = "idle" /\ pc'[r] = "planned" /\ plan'[r].from \in Runs
        /\ \A q \in Runs \ {r} : pc'[q] = pc[q] /\ plan'[q] = plan[q]
    BY <1>0, <1>3, PlanGives
  <2>3. LockOf(r)'
    BY <1>0, <2>1, <2>2, RunAssumption DEF LockFit, LockOf, Within, Removing
  <2>4. ASSUME NEW q \in Runs \ {r} PROVE LockOf(q)'
    BY <1>0, <2>1, <2>2 DEF LockFit, LockOf
  <2> QED
    BY <2>3, <2>4 DEF LockFit
<1>4. ASSUME NEW r \in Runs, TurnedAway(r) PROVE LockFit'
  <2>1. Leave(r, "ended") /\ "ended" \in Stages /\ Step(r, "no") /\ "no" \in Taking
    BY <1>0, <1>4 DEF TurnedAway, Stages, Taking
  <2>2. taking[r] = "busy" /\ lock' = lock
    BY <1>0, <1>4 DEF TurnedAway
  <2>3. /\ pc'[r] = "ended" /\ plan'[r].from = NoRun
        /\ \A q \in Runs \ {r} : pc'[q] = pc[q] /\ plan'[q] = plan[q]
    BY <1>0, <2>1, LeaveGives
  <2>4. taking'[r] = "no" /\ \A q \in Runs \ {r} : taking'[q] = taking[q]
    BY <1>0, <2>1, StepGives
  <2> QED
    BY <1>0, <1>4, <2>2, <2>3, <2>4 DEF LockFit, LockOf
<1>5. ASSUME NEW r \in Runs, Adopt(r) PROVE LockFit'
  BY <1>0, <1>5 DEF LockFit, LockOf, Adopt, Goto, lockVars, Within, Removing
<1>6. ASSUME NEW r \in Runs, Create(r) PROVE LockFit'
  <2>1. pc[r] = "idle" /\ UNCHANGED <<lock, taking, plan>> /\ Goto(r, "opened")
    BY <1>0, <1>6 DEF Create, lockVars
  <2>2. plan[r].from = NoRun
    BY <1>0, <2>1, <1>6 DEF LockFit, LockOf
  <2> QED
    BY <1>0, <2>1, <2>2 DEF LockFit, LockOf, Goto
<1>7. ASSUME NEW r \in Runs, SetUpFails(r) PROVE LockFit'
  BY <1>0, <1>7, LookGives DEF LockFit, LockOf, lockVars, Within, Removing
<1>8. ASSUME NEW r \in Runs, Begin(r) PROVE LockFit'
  BY <1>0, <1>8 DEF LockFit, LockOf, Begin, Goto, lockVars, Within, Removing
<1>9. ASSUME NEW r \in Runs, NEW s \in Steps, StartStep(r, s) PROVE LockFit'
  BY <1>0, <1>9 DEF LockFit, LockOf, StartStep, lockVars
<1>10. ASSUME NEW r \in Runs, NEW s \in Steps, Return(r, s) PROVE LockFit'
  BY <1>0, <1>10 DEF LockFit, LockOf, Return, lockVars
<1>11. ASSUME NEW r \in Runs, NEW s \in Steps, Measure(r, s) PROVE LockFit'
  BY <1>0, <1>11 DEF LockFit, LockOf, Measure, lockVars
<1>12. ASSUME NEW r \in Runs, NEW s \in Steps, Record(r, s) PROVE LockFit'
  BY <1>0, <1>12 DEF LockFit, LockOf, Record, lockVars
<1>13. ASSUME NEW r \in Runs, NEW s \in Steps, StopCall(r, s) PROVE LockFit'
  BY <1>0, <1>13 DEF LockFit, LockOf, StopCall, lockVars
<1>14. ASSUME NEW r \in Runs, NEW s \in Steps, TimeOut(r, s) PROVE LockFit'
  BY <1>0, <1>14 DEF LockFit, LockOf, TimeOut, lockVars
<1>15. ASSUME NEW r \in Runs, Abort(r) PROVE LockFit'
  BY <1>0, <1>15 DEF LockFit, LockOf, Abort, Goto, lockVars, Within, Removing
<1>16. ASSUME NEW r \in Runs, WorkflowEnds(r) PROVE LockFit'
  BY <1>0, <1>16 DEF ShapeFit, LockFit, LockOf, WorkflowEnds, Goto, lockVars, Within, Removing
<1>17. ASSUME NEW r \in Runs, SealFailed(r) PROVE LockFit'
  BY <1>0, <1>17 DEF LockFit, LockOf, SealFailed, Unwind, Goto, lockVars, Within, Removing
<1>18. ASSUME NEW r \in Runs, Finish(r) PROVE LockFit'
  BY <1>0, <1>18 DEF LockFit, LockOf, Finish, Goto, lockVars, Within, Removing
<1>19. ASSUME NEW r \in Runs, FinishFails(r) PROVE LockFit'
  BY <1>0, <1>19 DEF LockFit, LockOf, FinishFails, Unwind, Goto, lockVars, Within, Removing
<1>20. ASSUME NEW r \in Runs, Publish(r) PROVE LockFit'
  BY <1>0, <1>20 DEF ShapeFit, LockFit, LockOf, Publish, Goto, Unwind, lockVars, Within, Removing
<1>21. ASSUME NEW r \in Runs, CleanUp(r) PROVE LockFit'
  BY <1>0, <1>21, LookGives DEF LockFit, LockOf, lockVars, Within, Removing
<1>26. ASSUME NEW r \in Runs, RemoveTree(r) PROVE LockFit'
  BY <1>0, <1>26 DEF LockFit, LockOf, RemoveTree, Unwind, Goto, lockVars, Within, Removing
<1>22. ASSUME NEW r \in Runs, Release(r) PROVE LockFit'
  <2>1. Leave(r, "ended") /\ "ended" \in Stages
    BY <1>0, <1>22 DEF Release, Stages
  <2>4. /\ pc'[r] = "ended" /\ plan'[r].from = NoRun
        /\ \A q \in Runs \ {r} : pc'[q] = pc[q] /\ plan'[q] = plan[q]
    BY <1>0, <2>1, LeaveGives
  <2>2. CASE plan[r].from = NoRun
    <3>1. UNCHANGED <<lock, taking>> /\ taking[r] = "no"
      BY <1>0, <1>22, <2>2 DEF LockFit, LockOf, Release, lockVars
    <3> QED
      BY <1>0, <1>22, <2>2, <2>4, <3>1 DEF LockFit, LockOf, Release
  <2>3. CASE plan[r].from # NoRun
    <3>1. lock'.by = NoRun /\ Step(r, "no") /\ "no" \in Taking
      BY <1>0, <1>22, <2>3 DEF Release, GiveBack, NoFile, Taking
    <3>2. taking'[r] = "no" /\ \A q \in Runs \ {r} : taking'[q] = taking[q]
      BY <1>0, <3>1, StepGives
    <3> QED
      <4>1. LockOf(r)'
        BY <1>0, <2>4, <3>1, <3>2, RunAssumption DEF LockOf
      <4>2. ASSUME NEW q \in Runs \ {r} PROVE LockOf(q)'
        BY <1>0, <2>4, <3>1, <3>2, RunAssumption DEF LockFit, LockOf
      <4> QED
        BY <4>1, <4>2 DEF LockFit
  <2> QED
    BY <1>0, <2>2, <2>3
<1>23. ASSUME NEW r \in Runs, Kill(r) PROVE LockFit'
  <2>1. Leave(r, "dead") /\ "dead" \in Stages /\ Step(r, "no") /\ "no" \in Taking /\ lock' = lock
    BY <1>0, <1>23 DEF Kill, Stages, Taking
  <2>2. /\ pc'[r] = "dead" /\ plan'[r].from = NoRun
        /\ \A q \in Runs \ {r} : pc'[q] = pc[q] /\ plan'[q] = plan[q]
    BY <1>0, <2>1, LeaveGives
  <2>3. taking'[r] = "no" /\ \A q \in Runs \ {r} : taking'[q] = taking[q]
    BY <1>0, <2>1, StepGives
  <2> QED
    <3>1. LockOf(r)'
      BY <1>0, <2>1, <2>2, <2>3 DEF LockOf
    <3>2. ASSUME NEW q \in Runs \ {r} PROVE LockOf(q)'
      BY <1>0, <2>1, <2>2, <2>3 DEF LockFit, LockOf
    <3> QED
      BY <3>1, <3>2 DEF LockFit
<1>24. CASE Edit
  BY <1>0, <1>24 DEF LockFit, LockOf, Edit, lockVars, runVars
<1>25. CASE Ages
  BY <1>0, <1>25 DEF LockFit, LockOf, Ages, AgeLock, runVars
<1> QED
  BY <1>1, <1>2, <1>3, <1>4, <1>5, <1>6, <1>7, <1>8, <1>9, <1>10, <1>11, <1>12, <1>13, <1>14,
     <1>15, <1>16, <1>17, <1>18, <1>19, <1>20, <1>21, <1>22, <1>23, <1>24, <1>25, <1>26 DEF Next,
     Proceed, Attempt

\* Once a run is known to have failed to export its telemetry, it stays known.
LEMMA UnsentStays ==
  ASSUME [Next]_vars
  PROVE  unsent \subseteq unsent'
<1>1. ASSUME NEW r \in Runs, PlanResume(r) \/ Create(r) \/ Lock(r) \/ Begin(r) \/ WorkflowEnds(r) \/ Finish(r)
              \/ FinishFails(r) \/ Abort(r)
      PROVE  unsent' = unsent
  BY <1>1 DEF PlanResume, Create, Lock, Begin, WorkflowEnds, Finish, FinishFails, Abort, histories
<1>2. ASSUME NEW r \in Runs, TurnedAway(r) \/ Release(r) \/ Kill(r)
      PROVE  unsent' = unsent
  BY <1>2 DEF TurnedAway, Release, Kill, Leave
<1>3. ASSUME NEW r \in Runs, Adopt(r) \/ SetUpFails(r) \/ Publish(r) \/ CleanUp(r) \/ RemoveTree(r)
      PROVE  unsent' = unsent
  BY <1>3 DEF Adopt, GoBack, SetUpFails, Publish, CleanUp, RemoveTree, Look, Touch, histories
<1>4. ASSUME NEW r \in Runs, NEW s \in Steps,
             StartStep(r, s) \/ Return(r, s) \/ Measure(r, s) \/ Record(r, s) \/ StopCall(r, s) \/ TimeOut(r, s)
      PROVE  unsent' = unsent
  BY <1>4 DEF StartStep, Return, Measure, Record, StopCall, TimeOut, Touch, histories
<1>5. ASSUME NEW r \in Runs, SealFailed(r) PROVE unsent \subseteq unsent'
  BY <1>5 DEF SealFailed
<1>6. CASE Edit \/ Ages \/ UNCHANGED vars
  BY <1>6 DEF Edit, Ages, Touch, vars, histories
<1> QED
  BY <1>1, <1>2, <1>3, <1>4, <1>5, <1>6 DEF Next, Proceed, Attempt

\* No way out of a run that began its receipt leaves it open, but for telemetry that failed.
LEMMA NextStages ==
  ASSUME Fit, [Next]_vars
  PROVE  StageFit'
<1>0. Fit /\ ShapeFit /\ LockFit /\ StageFit /\ StepFit /\ GroundFit /\ BirthFit /\ LookFit
  BY DEF Fit
<1>. unsent \subseteq unsent'
  BY UnsentStays
<1>1. CASE UNCHANGED vars
  BY <1>0, <1>1 DEF StageFit, StageOf, vars, runVars
<1>2. ASSUME NEW r \in Runs, Lock(r) PROVE StageFit'
  BY <1>0, <1>2 DEF StageFit, StageOf, Lock, runVars
<1>3. ASSUME NEW r \in Runs, PlanResume(r) PROVE StageFit'
  BY <1>0, <1>3 DEF StageFit, StageOf, PlanResume, Goto
<1>4. ASSUME NEW r \in Runs, TurnedAway(r) PROVE StageFit'
  <2>1. Leave(r, "ended") /\ "ended" \in Stages /\ pc[r] = "planned" /\ UNCHANGED <<receipt, call>>
    BY <1>0, <1>4 DEF TurnedAway, Stages
  <2>2. pc'[r] = "ended" /\ \A q \in Runs \ {r} : pc'[q] = pc[q]
    BY <1>0, <2>1, LeaveGives
  <2>7. StageOf(r)'
    BY <1>0, <2>1, <2>2 DEF StageFit, StageOf
  <2>8. ASSUME NEW q \in Runs \ {r} PROVE StageOf(q)'
    BY <1>0, <2>1, <2>2 DEF StageFit, StageOf
  <2> QED
    BY <2>7, <2>8 DEF StageFit
<1>5. ASSUME NEW r \in Runs, Adopt(r) PROVE StageFit'
  BY <1>0, <1>5 DEF StageFit, StageOf, Adopt, Goto
<1>6. ASSUME NEW r \in Runs, Create(r) PROVE StageFit'
  BY <1>0, <1>6 DEF StageFit, StageOf, Create, Goto
<1>7. ASSUME NEW r \in Runs, SetUpFails(r) PROVE StageFit'
  <2>1. SetUpFails(r)
    BY <1>7
  <2>2. StageOf(r)'
    BY <1>0, <2>1, LookGives DEF StageFit, StageOf, SetUpFails, CleanUp
  <2>3. ASSUME NEW q \in Runs \ {r} PROVE StageOf(q)'
    BY <1>0, <2>1, LookGives DEF StageFit, StageOf
  <2> QED
    BY <2>2, <2>3 DEF StageFit
<1>8. ASSUME NEW r \in Runs, Begin(r) PROVE StageFit'
  <2>1. /\ Write(r, Start(tree)) /\ Start(tree) \in Entries /\ Start(tree).kind = "start"
        /\ pc[r] = "opened" /\ Goto(r, "running") /\ call' = call
    BY <1>0, <1>8, EntriesKnown DEF ShapeFit, Begin
  <2>2. /\ receipt'[r] # <<>> /\ (receipt[r] # <<>> => receipt'[r][1] = receipt[r][1])
        /\ (receipt[r] = <<>> => receipt'[r][1] = Start(tree))
        /\ (Sealed(receipt[r]) => receipt'[r] = receipt[r])
        /\ (~Sealed(receipt[r]) => (Sealed(receipt'[r]) <=> Start(tree).kind = "end"))
        /\ \A q \in Runs \ {r} : receipt'[q] = receipt[q]
    BY <1>0, <2>1, WriteKeeps DEF ShapeFit
  <2>3. receipt[r] = <<>> /\ ~Sealed(receipt[r])
    BY <1>0, <2>1 DEF StageFit, StageOf
  <2>7. StageOf(r)'
    BY <1>0, <2>1, <2>2, <2>3 DEF ShapeFit, StageOf, Goto
  <2>8. ASSUME NEW q \in Runs \ {r} PROVE StageOf(q)'
    BY <1>0, <2>1, <2>2 DEF StageFit, StageOf, Goto
  <2> QED
    BY <2>7, <2>8 DEF StageFit
<1>9. ASSUME NEW r \in Runs, NEW s \in Steps, StartStep(r, s) PROVE StageFit'
  <2>1. pc[r] = "running" /\ UNCHANGED <<pc, receipt>> /\ (Call(r, s, "returned") \/ Call(r, s, "working"))
    BY <1>0, <1>9 DEF StartStep
  <2>2. \A q \in Runs \ {r} : call'[q] = call[q]
    BY <1>0, <2>1, CallGives
  <2>7. StageOf(r)'
    BY <1>0, <2>1 DEF StageFit, StageOf
  <2>8. ASSUME NEW q \in Runs \ {r} PROVE StageOf(q)'
    BY <1>0, <2>1, <2>2 DEF StageFit, StageOf
  <2> QED
    BY <2>7, <2>8 DEF StageFit
<1>10. ASSUME NEW r \in Runs, NEW s \in Steps, Return(r, s) PROVE StageFit'
  <2>1. call[r][s] = "working" /\ Call(r, s, "returned") /\ pc' = pc /\ receipt[r] # <<>>
    BY <1>0, <1>10 DEF StageFit, StageOf, Return
  <2>2. \A q \in Runs \ {r} : call'[q] = call[q]
    BY <1>0, <2>1, CallGives
  <2>3. CASE receipt' = receipt
    <3>7. StageOf(r)'
      BY <1>0, <2>1, <2>3 DEF StageFit, StageOf
    <3>8. ASSUME NEW q \in Runs \ {r} PROVE StageOf(q)'
      BY <1>0, <2>1, <2>2, <2>3 DEF StageFit, StageOf
    <3> QED
      BY <3>7, <3>8 DEF StageFit
  <2>4. CASE Write(r, Result(s))
    <3>1. Result(s) \in Entries /\ Result(s).kind = "result"
      BY <1>0, EntriesKnown
    <3>2. /\ receipt'[r] # <<>> /\ (receipt[r] # <<>> => receipt'[r][1] = receipt[r][1])
        /\ (receipt[r] = <<>> => receipt'[r][1] = Result(s))
        /\ (Sealed(receipt[r]) => receipt'[r] = receipt[r])
        /\ (~Sealed(receipt[r]) => (Sealed(receipt'[r]) <=> Result(s).kind = "end"))
        /\ \A q \in Runs \ {r} : receipt'[q] = receipt[q]
      BY <1>0, <2>4, <3>1, WriteKeeps DEF ShapeFit
    <3>7. StageOf(r)'
      BY <1>0, <2>1, <3>1, <3>2 DEF StageFit, StageOf
    <3>8. ASSUME NEW q \in Runs \ {r} PROVE StageOf(q)'
      BY <1>0, <2>1, <2>2, <3>2 DEF StageFit, StageOf
    <3> QED
      BY <3>7, <3>8 DEF StageFit
  <2> QED
    BY <1>10, <2>3, <2>4 DEF Return
<1>11. ASSUME NEW r \in Runs, NEW s \in Steps, Measure(r, s) PROVE StageFit'
  BY <1>0, <1>11 DEF StageFit, StageOf, Measure, Call
<1>12. ASSUME NEW r \in Runs, NEW s \in Steps, Record(r, s) PROVE StageFit'
  <2> DEFINE entry == Evidence(s, digest[r][s])
  <2>1. /\ call[r][s] = "measured" /\ Call(r, s, "none") /\ pc' = pc /\ receipt[r] # <<>>
        /\ Write(r, entry) /\ entry \in Entries /\ entry.kind = "step"
    BY <1>0, <1>12, EntriesKnown DEF ShapeFit, StageFit, StageOf, Record
  <2> HIDE DEF entry
  <2>2. \A q \in Runs \ {r} : call'[q] = call[q]
    BY <1>0, <2>1, CallGives
  <2>3. /\ receipt'[r] # <<>> /\ (receipt[r] # <<>> => receipt'[r][1] = receipt[r][1])
        /\ (receipt[r] = <<>> => receipt'[r][1] = entry)
        /\ (Sealed(receipt[r]) => receipt'[r] = receipt[r])
        /\ (~Sealed(receipt[r]) => (Sealed(receipt'[r]) <=> entry.kind = "end"))
        /\ \A q \in Runs \ {r} : receipt'[q] = receipt[q]
    BY <1>0, <2>1, WriteKeeps DEF ShapeFit
  <2>7. StageOf(r)'
    BY <1>0, <2>1, <2>3 DEF StageFit, StageOf
  <2>8. ASSUME NEW q \in Runs \ {r} PROVE StageOf(q)'
    BY <1>0, <2>1, <2>2, <2>3 DEF StageFit, StageOf
  <2> QED
    BY <2>7, <2>8 DEF StageFit
<1>13. ASSUME NEW r \in Runs, NEW s \in Steps, StopCall(r, s) PROVE StageFit'
  BY <1>0, <1>13 DEF StageFit, StageOf, StopCall, Call
<1>14. ASSUME NEW r \in Runs, NEW s \in Steps, TimeOut(r, s) PROVE StageFit'
  BY <1>0, <1>14 DEF StageFit, StageOf, TimeOut
<1>15. ASSUME NEW r \in Runs, Abort(r) PROVE StageFit'
  BY <1>0, <1>15 DEF StageFit, StageOf, Abort, Goto
<1>16. ASSUME NEW r \in Runs, WorkflowEnds(r) PROVE StageFit'
  BY <1>0, <1>16 DEF ShapeFit, StageFit, StageOf, WorkflowEnds, Goto
<1>17. ASSUME NEW r \in Runs, SealFailed(r) PROVE StageFit'
  <2>1. pc[r] = "failing" /\ Goto(r, "releasing") /\ call' = call /\ receipt[r] # <<>> /\ ~Sealed(receipt[r])
    BY <1>0, <1>17 DEF StageFit, StageOf, SealFailed, Unwind
  <2>2. CASE r \in unsent' /\ receipt' = receipt
    <3>7. StageOf(r)'
      BY <1>0, <2>1, <2>2 DEF StageFit, StageOf, Goto
    <3>8. ASSUME NEW q \in Runs \ {r} PROVE StageOf(q)'
      BY <1>0, <2>1, <2>2 DEF StageFit, StageOf, Goto
    <3> QED
      BY <3>7, <3>8 DEF StageFit
  <2>3. CASE Write(r, End("failed"))
    <3>1. End("failed") \in Entries /\ End("failed").kind = "end"
      BY <1>0, EntriesKnown
    <3>2. /\ receipt'[r] # <<>> /\ (receipt[r] # <<>> => receipt'[r][1] = receipt[r][1])
        /\ (receipt[r] = <<>> => receipt'[r][1] = End("failed"))
        /\ (Sealed(receipt[r]) => receipt'[r] = receipt[r])
        /\ (~Sealed(receipt[r]) => (Sealed(receipt'[r]) <=> End("failed").kind = "end"))
        /\ \A q \in Runs \ {r} : receipt'[q] = receipt[q]
      BY <1>0, <2>3, <3>1, WriteKeeps DEF ShapeFit
    <3>7. StageOf(r)'
      BY <1>0, <2>1, <3>1, <3>2 DEF ShapeFit, StageFit, StageOf, Goto
    <3>8. ASSUME NEW q \in Runs \ {r} PROVE StageOf(q)'
      BY <1>0, <2>1, <3>2 DEF StageFit, StageOf, Goto
    <3> QED
      BY <3>7, <3>8 DEF StageFit
  <2> QED
    BY <1>17, <2>2, <2>3 DEF SealFailed
<1>18. ASSUME NEW r \in Runs, Finish(r) PROVE StageFit'
  <2> DEFINE entry == End(Verdict(r))
  <2>1. /\ pc[r] = "finishing" /\ Goto(r, "sealed") /\ call' = call /\ receipt[r] # <<>>
        /\ Write(r, entry) /\ entry \in Entries /\ entry.kind = "end" /\ ~Sealed(receipt[r])
    BY <1>0, <1>18, EntriesKnown DEF StageFit, StageOf, Finish, Verdict
  <2> HIDE DEF entry
  <2>2. /\ receipt'[r] # <<>> /\ (receipt[r] # <<>> => receipt'[r][1] = receipt[r][1])
        /\ (receipt[r] = <<>> => receipt'[r][1] = entry)
        /\ (Sealed(receipt[r]) => receipt'[r] = receipt[r])
        /\ (~Sealed(receipt[r]) => (Sealed(receipt'[r]) <=> entry.kind = "end"))
        /\ \A q \in Runs \ {r} : receipt'[q] = receipt[q]
    BY <1>0, <2>1, WriteKeeps DEF ShapeFit
  <2>7. StageOf(r)'
    BY <1>0, <2>1, <2>2 DEF ShapeFit, StageFit, StageOf, Goto
  <2>8. ASSUME NEW q \in Runs \ {r} PROVE StageOf(q)'
    BY <1>0, <2>1, <2>2 DEF StageFit, StageOf, Goto
  <2> QED
    BY <2>7, <2>8 DEF StageFit
<1>19. ASSUME NEW r \in Runs, FinishFails(r) PROVE StageFit'
  <2> DEFINE entry == End("failed")
  <2>1. /\ pc[r] = "finishing" /\ Goto(r, "releasing") /\ call' = call /\ receipt[r] # <<>>
        /\ Write(r, entry) /\ entry \in Entries /\ entry.kind = "end" /\ ~Sealed(receipt[r])
    BY <1>0, <1>19, EntriesKnown DEF StageFit, StageOf, FinishFails, SealAnyway, Unwind
  <2> HIDE DEF entry
  <2>2. /\ receipt'[r] # <<>> /\ (receipt[r] # <<>> => receipt'[r][1] = receipt[r][1])
        /\ (receipt[r] = <<>> => receipt'[r][1] = entry)
        /\ (Sealed(receipt[r]) => receipt'[r] = receipt[r])
        /\ (~Sealed(receipt[r]) => (Sealed(receipt'[r]) <=> entry.kind = "end"))
        /\ \A q \in Runs \ {r} : receipt'[q] = receipt[q]
    BY <1>0, <2>1, WriteKeeps DEF ShapeFit
  <2>7. StageOf(r)'
    BY <1>0, <2>1, <2>2 DEF ShapeFit, StageFit, StageOf, Goto
  <2>8. ASSUME NEW q \in Runs \ {r} PROVE StageOf(q)'
    BY <1>0, <2>1, <2>2 DEF StageFit, StageOf, Goto
  <2> QED
    BY <2>7, <2>8 DEF StageFit
<1>20. ASSUME NEW r \in Runs, Publish(r) PROVE StageFit'
  BY <1>0, <1>20 DEF ShapeFit, StageFit, StageOf, Publish, Goto, Unwind
<1>21. ASSUME NEW r \in Runs, CleanUp(r) PROVE StageFit'
  <2>1. CleanUp(r)
    BY <1>21
  <2>2. StageOf(r)'
    BY <1>0, <2>1, LookGives DEF StageFit, StageOf, SetUpFails, CleanUp
  <2>3. ASSUME NEW q \in Runs \ {r} PROVE StageOf(q)'
    BY <1>0, <2>1, LookGives DEF StageFit, StageOf
  <2> QED
    BY <2>2, <2>3 DEF StageFit
<1>26. ASSUME NEW r \in Runs, RemoveTree(r) PROVE StageFit'
  BY <1>0, <1>26 DEF StageFit, StageOf, RemoveTree, Unwind, Goto, Removing
<1>22. ASSUME NEW r \in Runs, Release(r) PROVE StageFit'
  <2>1. Leave(r, "ended") /\ "ended" \in Stages /\ pc[r] = "releasing" /\ UNCHANGED <<receipt, call>>
    BY <1>0, <1>22 DEF Release, Stages
  <2>2. pc'[r] = "ended" /\ \A q \in Runs \ {r} : pc'[q] = pc[q]
    BY <1>0, <2>1, LeaveGives
  <2>7. StageOf(r)'
    BY <1>0, <2>1, <2>2 DEF StageFit, StageOf
  <2>8. ASSUME NEW q \in Runs \ {r} PROVE StageOf(q)'
    BY <1>0, <2>1, <2>2 DEF StageFit, StageOf
  <2> QED
    BY <2>7, <2>8 DEF StageFit
<1>23. ASSUME NEW r \in Runs, Kill(r) PROVE StageFit'
  <2>1. /\ Leave(r, "dead") /\ "dead" \in Stages /\ receipt' = receipt
        /\ call' = [call EXCEPT ![r] = [s \in Steps |-> "none"]]
    BY <1>0, <1>23 DEF Kill, Stages
  <2>2. pc'[r] = "dead" /\ \A q \in Runs \ {r} : pc'[q] = pc[q]
    BY <1>0, <2>1, LeaveGives
  <2>7. StageOf(r)'
    BY <1>0, <2>1, <2>2 DEF StageFit, StageOf
  <2>8. ASSUME NEW q \in Runs \ {r} PROVE StageOf(q)'
    BY <1>0, <2>1, <2>2 DEF StageFit, StageOf
  <2> QED
    BY <2>7, <2>8 DEF StageFit
<1>24. CASE Edit
  BY <1>0, <1>24 DEF StageFit, StageOf, Edit, runVars
<1>25. CASE Ages
  BY <1>0, <1>25 DEF StageFit, StageOf, Ages, runVars
<1> QED
  BY <1>1, <1>2, <1>3, <1>4, <1>5, <1>6, <1>7, <1>8, <1>9, <1>10, <1>11, <1>12, <1>13, <1>14,
     <1>15, <1>16, <1>17, <1>18, <1>19, <1>20, <1>21, <1>22, <1>23, <1>24, <1>25, <1>26 DEF Next,
     Proceed, Attempt

\* The engine takes a step as done only with its evidence.
LEMMA NextSteps ==
  ASSUME Fit, [Next]_vars
  PROVE  StepFit'
<1>0. Fit /\ ShapeFit /\ LockFit /\ StageFit /\ StepFit /\ GroundFit /\ BirthFit /\ LookFit
  BY DEF Fit
<1>1. CASE UNCHANGED vars
  BY <1>0, <1>1 DEF StepFit, StepOf, vars, runVars, Running, Startable, Failed
<1>2. ASSUME NEW r \in Runs, Lock(r) PROVE StepFit'
  <2>1. UNCHANGED <<receipt, status, pc>>
    BY <1>2 DEF Lock, runVars
  <2> QED
    BY <1>0, <2>1, StepsKept DEF StepFit
<1>3. ASSUME NEW r \in Runs, PlanResume(r) PROVE StepFit'
  <2>0. StepOf(r) /\ StageOf(r) /\ pc[r] \in Stages /\ r \in DOMAIN pc
    BY <1>0 DEF StepFit, StageFit, ShapeFit
  <2>1. UNCHANGED <<receipt, status>>
    BY <1>0, <1>3 DEF PlanResume
  <2>2. pc[r] = "idle" /\ pc'[r] = "planned" /\ \A q \in Runs \ {r} : pc'[q] = pc[q]
    BY <1>0, <1>3, PlanGives
  <2>7. StepOf(r)'
    BY <2>0, <2>1, <2>2 DEF StepOf
  <2>8. ASSUME NEW q \in Runs \ {r} PROVE StepOf(q)'
    BY <1>0, <2>1, <2>2, StepsKept DEF StepFit
  <2> QED
    BY <2>7, <2>8 DEF StepFit
<1>4. ASSUME NEW r \in Runs, TurnedAway(r) PROVE StepFit'
  <2>0. StepOf(r) /\ StageOf(r) /\ pc[r] \in Stages /\ r \in DOMAIN pc
    BY <1>0 DEF StepFit, StageFit, ShapeFit
  <2>1. Leave(r, "ended") /\ "ended" \in Stages /\ UNCHANGED <<receipt, call>>
    BY <1>0, <1>4 DEF TurnedAway, Stages
  <2>2. /\ pc'[r] = "ended" /\ \A q \in Runs \ {r} : pc'[q] = pc[q] /\ status'[q] = status[q]
        /\ \A s \in Steps : status'[r][s] = "pending"
    BY <1>0, <2>1, LeaveGives
  <2>7. StepOf(r)'
    BY <2>0, <2>1, <2>2 DEF StepOf
  <2>8. ASSUME NEW q \in Runs \ {r} PROVE StepOf(q)'
    BY <1>0, <2>1, <2>2, StepsKept DEF StepFit
  <2> QED
    BY <2>7, <2>8 DEF StepFit
<1>5. ASSUME NEW r \in Runs, Adopt(r) PROVE StepFit'
  BY <1>0, <1>5 DEF StepFit, StepOf, Adopt, Goto, Running, Startable, Failed
<1>6. ASSUME NEW r \in Runs, Create(r) PROVE StepFit'
  BY <1>0, <1>6 DEF StepFit, StepOf, Create, Goto, Running, Startable, Failed
<1>7. ASSUME NEW r \in Runs, SetUpFails(r) PROVE StepFit'
  <2>1. StepOf(r)'
    BY <1>0, <1>7, LookGives DEF StepFit, StepOf
  <2>2. ASSUME NEW q \in Runs \ {r} PROVE StepOf(q)'
    BY <1>0, <1>7, LookGives, StepsKept DEF StepFit
  <2> QED
    BY <2>1, <2>2 DEF StepFit
<1>8. ASSUME NEW r \in Runs, Begin(r) PROVE StepFit'
  <2>0. StepOf(r) /\ StageOf(r) /\ pc[r] \in Stages /\ r \in DOMAIN pc
    BY <1>0 DEF StepFit, StageFit, ShapeFit
  <2> DEFINE entry == Start(tree)
  <2>1. /\ Write(r, entry) /\ entry \in Entries /\ entry.kind = "start"
        /\ pc[r] = "opened" /\ Goto(r, "running") /\ status' = status
    BY <1>0, <1>8, EntriesKnown DEF ShapeFit, Begin
  <2> HIDE DEF entry
  <2>2. /\ (Sealed(receipt[r]) => receipt'[r] = receipt[r])
        /\ (~Sealed(receipt[r]) =>
              (Succeeded(receipt'[r]) <=> entry.kind = "end" /\ entry.status = "succeeded"))
        /\ With("step", receipt[r]) \subseteq With("step", receipt'[r])
        /\ \A q \in Runs \ {r} : receipt'[q] = receipt[q]
    BY <1>0, <2>1, WriteKeeps DEF ShapeFit
  <2>7. StepOf(r)'
    BY <2>0, <2>1, <2>2 DEF StepOf, Goto
  <2>8. ASSUME NEW q \in Runs \ {r} PROVE StepOf(q)'
    BY <1>0, <2>1, <2>2, StepsKept DEF StepFit, Goto
  <2> QED
    BY <2>7, <2>8 DEF StepFit
<1>9. ASSUME NEW r \in Runs, NEW s \in Steps, StartStep(r, s) PROVE StepFit'
  <2>0. StepOf(r) /\ StageOf(r) /\ pc[r] \in Stages /\ r \in DOMAIN pc
    BY <1>0 DEF StepFit, StageFit, ShapeFit
  <2>1. pc[r] = "running" /\ UNCHANGED <<pc, receipt>> /\ Engine(r, s, "running")
    BY <1>0, <1>9 DEF StartStep
  <2>2. /\ status'[r][s] = "running" /\ (\A t \in Steps \ {s} : status'[r][t] = status[r][t])
        /\ \A q \in Runs \ {r} : status'[q] = status[q]
    BY <1>0, <2>1, EngineGives
  <2>7. StepOf(r)'
    BY <2>0, <2>1, <2>2 DEF StepOf
  <2>8. ASSUME NEW q \in Runs \ {r} PROVE StepOf(q)'
    BY <1>0, <2>1, <2>2, StepsKept DEF StepFit
  <2> QED
    BY <2>7, <2>8 DEF StepFit
<1>10. ASSUME NEW r \in Runs, NEW s \in Steps, Return(r, s) PROVE StepFit'
  <2>0. StepOf(r) /\ StageOf(r) /\ pc[r] \in Stages /\ r \in DOMAIN pc
    BY <1>0 DEF StepFit, StageFit, ShapeFit
  <2>1. pc' = pc /\ status' = status
    BY <1>0, <1>10 DEF Return
  <2>3. CASE receipt' = receipt
    BY <1>0, <2>1, <2>3 DEF StepFit, StepOf, Running, Startable, Failed
  <2>4. CASE Write(r, Result(s))
    <3>1. Result(s) \in Entries /\ Result(s).kind = "result"
      BY <1>0, EntriesKnown
    <3>2. /\ (Sealed(receipt[r]) => receipt'[r] = receipt[r])
        /\ (~Sealed(receipt[r]) =>
              (Succeeded(receipt'[r]) <=> Result(s).kind = "end" /\ Result(s).status = "succeeded"))
        /\ With("step", receipt[r]) \subseteq With("step", receipt'[r])
        /\ \A q \in Runs \ {r} : receipt'[q] = receipt[q]
      BY <1>0, <2>4, <3>1, WriteKeeps DEF ShapeFit
    <3>7. StepOf(r)'
      BY <2>0, <2>1, <3>1, <3>2 DEF StepOf, Running, Startable, Failed
    <3>8. ASSUME NEW q \in Runs \ {r} PROVE StepOf(q)'
      BY <1>0, <2>1, <3>2, StepsKept DEF StepFit
    <3> QED
      BY <3>7, <3>8 DEF StepFit
  <2> QED
    BY <1>10, <2>3, <2>4 DEF Return
<1>11. ASSUME NEW r \in Runs, NEW s \in Steps, Measure(r, s) PROVE StepFit'
  BY <1>0, <1>11 DEF StepFit, StepOf, Measure, Running, Startable, Failed
<1>12. ASSUME NEW r \in Runs, NEW s \in Steps, Record(r, s) PROVE StepFit'
  <2>0. StepOf(r) /\ StageOf(r) /\ pc[r] \in Stages /\ r \in DOMAIN pc
    BY <1>0 DEF StepFit, StageFit, ShapeFit
  <2> DEFINE entry == Evidence(s, digest[r][s])
  <2>1. pc' = pc /\ Write(r, entry) /\ entry \in Entries /\ entry.kind = "step" /\ entry.step = s
    BY <1>0, <1>12, EntriesKnown DEF ShapeFit, Record
  <2> HIDE DEF entry
  <2>2. /\ (Sealed(receipt[r]) => receipt'[r] = receipt[r])
        /\ (~Sealed(receipt[r]) =>
              (Succeeded(receipt'[r]) <=> entry.kind = "end" /\ entry.status = "succeeded"))
        /\ With("step", receipt[r]) \subseteq With("step", receipt'[r])
        /\ \A q \in Runs \ {r} : receipt'[q] = receipt[q]
    BY <1>0, <2>1, WriteKeeps DEF ShapeFit
  <2>3. ~Sealed(receipt[r]) => s \in With("step", receipt'[r])
    BY <1>0, <2>1, WriteKeeps DEF ShapeFit
  <2>4. CASE status[r][s] = "running" /\ Engine(r, s, "succeeded")
    <3>1. pc[r] = "running" /\ ~Sealed(receipt[r])
      BY <2>0, <2>4 DEF StepOf, StageOf
    <3>2. /\ status'[r][s] = "succeeded" /\ (\A t \in Steps \ {s} : status'[r][t] = status[r][t])
        /\ \A q \in Runs \ {r} : status'[q] = status[q]
      BY <1>0, <2>4, EngineGives
    <3>7. StepOf(r)'
      BY <2>0, <2>1, <2>2, <2>3, <3>1, <3>2 DEF StepOf
    <3>8. ASSUME NEW q \in Runs \ {r} PROVE StepOf(q)'
      BY <1>0, <2>1, <2>2, <3>2, StepsKept DEF StepFit
    <3> QED
      BY <3>7, <3>8 DEF StepFit
  <2>5. CASE status' = status
    <3>7. StepOf(r)'
      BY <2>0, <2>1, <2>2, <2>5 DEF StepOf, Running, Startable, Failed
    <3>8. ASSUME NEW q \in Runs \ {r} PROVE StepOf(q)'
      BY <1>0, <2>1, <2>2, <2>5, StepsKept DEF StepFit
    <3> QED
      BY <3>7, <3>8 DEF StepFit
  <2> QED
    BY <1>12, <2>4, <2>5 DEF Record
<1>13. ASSUME NEW r \in Runs, NEW s \in Steps, StopCall(r, s) PROVE StepFit'
  <2>0. StepOf(r) /\ StageOf(r) /\ pc[r] \in Stages /\ r \in DOMAIN pc
    BY <1>0 DEF StepFit, StageFit, ShapeFit
  <2>1. UNCHANGED <<pc, receipt>>
    BY <1>0, <1>13 DEF StopCall
  <2>2. CASE status[r][s] = "running" /\ Engine(r, s, "failed")
    <3>1. pc[r] = "running"
      BY <1>0, <2>2 DEF StepFit, StepOf
    <3>2. /\ status'[r][s] = "failed" /\ (\A t \in Steps \ {s} : status'[r][t] = status[r][t])
        /\ \A q \in Runs \ {r} : status'[q] = status[q]
      BY <1>0, <2>2, EngineGives
    <3>7. StepOf(r)'
      BY <2>0, <2>1, <3>1, <3>2 DEF StepOf
    <3>8. ASSUME NEW q \in Runs \ {r} PROVE StepOf(q)'
      BY <1>0, <2>1, <3>2, StepsKept DEF StepFit
    <3> QED
      BY <3>7, <3>8 DEF StepFit
  <2>3. CASE status' = status
    BY <1>0, <2>1, <2>3 DEF StepFit, StepOf, Running, Startable, Failed
  <2> QED
    BY <1>13, <2>2, <2>3 DEF StopCall
<1>14. ASSUME NEW r \in Runs, NEW s \in Steps, TimeOut(r, s) PROVE StepFit'
  <2>0. StepOf(r) /\ StageOf(r) /\ pc[r] \in Stages /\ r \in DOMAIN pc
    BY <1>0 DEF StepFit, StageFit, ShapeFit
  <2>1. UNCHANGED <<pc, receipt>> /\ pc[r] = "running" /\ Engine(r, s, "failed")
    BY <1>0, <1>14 DEF TimeOut, GiveUp
  <2>2. /\ status'[r][s] = "failed" /\ (\A t \in Steps \ {s} : status'[r][t] = status[r][t])
        /\ \A q \in Runs \ {r} : status'[q] = status[q]
    BY <1>0, <2>1, EngineGives
  <2>7. StepOf(r)'
    BY <2>0, <2>1, <2>2 DEF StepOf
  <2>8. ASSUME NEW q \in Runs \ {r} PROVE StepOf(q)'
    BY <1>0, <2>1, <2>2, StepsKept DEF StepFit
  <2> QED
    BY <2>7, <2>8 DEF StepFit
<1>15. ASSUME NEW r \in Runs, Abort(r) PROVE StepFit'
  BY <1>0, <1>15 DEF ShapeFit, StepFit, StepOf, Abort, Goto, Running, Startable, Failed
<1>16. ASSUME NEW r \in Runs, WorkflowEnds(r) PROVE StepFit'
  <2>0. StepOf(r) /\ StageOf(r) /\ pc[r] \in Stages /\ r \in DOMAIN pc
    BY <1>0 DEF StepFit, StageFit, ShapeFit
  <2>1. /\ UNCHANGED <<status, receipt>> /\ Running(r) = {} /\ Startable(r) = {}
        /\ Goto(r, "failing") \/ (Goto(r, "finishing") /\ (FailFast => Failed(r) = {}))
    BY <1>0, <1>16 DEF WorkflowEnds
  <2>2. Running(r)' = Running(r) /\ Startable(r)' = Startable(r) /\ Failed(r)' = Failed(r)
    BY <1>0, <2>1 DEF Running, Startable, Failed
  <2>3. pc'[r] \in {"failing", "finishing"} /\ \A q \in Runs \ {r} : pc'[q] = pc[q]
    BY <1>0, <2>1 DEF ShapeFit, Goto
  <2>4. \A t \in Steps : status[r][t] # "running"
    BY <1>0, <2>1 DEF Running
  <2>5. pc'[r] = "finishing" => (FailFast => Failed(r) = {})
    BY <1>0, <2>1 DEF ShapeFit, Goto
  <2>7. StepOf(r)'
    BY <2>0, <2>1, <2>2, <2>3, <2>4, <2>5 DEF StepOf
  <2>8. ASSUME NEW q \in Runs \ {r} PROVE StepOf(q)'
    BY <1>0, <2>1, <2>3, StepsKept DEF StepFit
  <2> QED
    BY <2>7, <2>8 DEF StepFit
<1>17. ASSUME NEW r \in Runs, SealFailed(r) PROVE StepFit'
  <2>0. StepOf(r) /\ StageOf(r) /\ pc[r] \in Stages /\ r \in DOMAIN pc
    BY <1>0 DEF StepFit, StageFit, ShapeFit
  <2>1. pc[r] = "failing" /\ Goto(r, "releasing") /\ status' = status /\ ~Sealed(receipt[r])
    BY <1>0, <1>17 DEF StageFit, StageOf, SealFailed, Unwind
  <2>2. CASE receipt' = receipt
    BY <1>0, <2>1, <2>2 DEF StepFit, StepOf, Goto, Running, Startable, Failed
  <2>3. CASE Write(r, End("failed"))
    <3>1. End("failed") \in Entries /\ End("failed").status = "failed"
      BY <1>0, EntriesKnown
    <3>2. /\ (Sealed(receipt[r]) => receipt'[r] = receipt[r])
        /\ (~Sealed(receipt[r]) =>
              (Succeeded(receipt'[r]) <=> End("failed").kind = "end" /\ End("failed").status = "succeeded"))
        /\ With("step", receipt[r]) \subseteq With("step", receipt'[r])
        /\ \A q \in Runs \ {r} : receipt'[q] = receipt[q]
      BY <1>0, <2>3, <3>1, WriteKeeps DEF ShapeFit
    <3>7. StepOf(r)'
      BY <2>0, <2>1, <3>1, <3>2 DEF StepOf, Goto
    <3>8. ASSUME NEW q \in Runs \ {r} PROVE StepOf(q)'
      BY <1>0, <2>1, <3>2, StepsKept DEF StepFit, Goto
    <3> QED
      BY <3>7, <3>8 DEF StepFit
  <2> QED
    BY <1>17, <2>2, <2>3 DEF SealFailed
<1>18. ASSUME NEW r \in Runs, Finish(r) PROVE StepFit'
  <2>0. StepOf(r) /\ StageOf(r) /\ pc[r] \in Stages /\ r \in DOMAIN pc
    BY <1>0 DEF StepFit, StageFit, ShapeFit
  <2> DEFINE entry == End(Verdict(r))
  <2>1. /\ pc[r] = "finishing" /\ Goto(r, "sealed") /\ status' = status
        /\ Write(r, entry) /\ entry \in Entries /\ ~Sealed(receipt[r])
        /\ entry.status = "succeeded" => Failed(r) = {}
    BY <1>0, <1>18, EntriesKnown DEF StageFit, StageOf, Finish, Verdict
  <2> HIDE DEF entry
  <2>2. /\ (Sealed(receipt[r]) => receipt'[r] = receipt[r])
        /\ (~Sealed(receipt[r]) =>
              (Succeeded(receipt'[r]) <=> entry.kind = "end" /\ entry.status = "succeeded"))
        /\ With("step", receipt[r]) \subseteq With("step", receipt'[r])
        /\ \A q \in Runs \ {r} : receipt'[q] = receipt[q]
    BY <1>0, <2>1, WriteKeeps DEF ShapeFit
  <2>3. Failed(r) = {} => \A t \in Steps : status[r][t] = "succeeded"
    <3> SUFFICES ASSUME Failed(r) = {} PROVE \A t \in Steps : status[r][t] = "succeeded"
      OBVIOUS
    <3> DEFINE left == {t \in Steps : status[r][t] = "pending"}
    <3>1. \A t \in Steps \ left : status[r][t] = "succeeded"
      BY <1>0, <2>1 DEF ShapeFit, StepFit, StepOf, Failed
    <3>2. ASSUME left # {} PROVE FALSE
      <4>1. PICK t \in left : Needs[t] \cap left = {}
        BY <3>2, OrderAssumption, left \in SUBSET Steps
      <4>2. Needs[t] \subseteq Steps
        BY <4>1, ReceiptAssumption
      <4>3. \A n \in Needs[t] : status[r][n] = "succeeded"
        BY <4>1, <4>2, <3>1
      <4>4. t \in Startable(r)
        BY <4>1, <4>3 DEF Startable
      <4> QED
        BY <1>0, <4>4, <2>1 DEF StepFit, StepOf
    <3> QED
      BY <3>1, <3>2
  <2>4. Failed(r) = {} => With("step", receipt[r]) = Steps
    BY <1>0, <2>3 DEF StepFit, StepOf, With
  <2>5. With("step", receipt'[r]) \subseteq Steps
    BY DEF With
  <2>6. Succeeded(receipt'[r]) => With("step", receipt'[r]) = Steps
    BY <2>1, <2>2, <2>4, <2>5
  <2>7. StepOf(r)'
    BY <2>0, <2>1, <2>2, <2>6 DEF StepOf, Goto
  <2>8. ASSUME NEW q \in Runs \ {r} PROVE StepOf(q)'
    BY <1>0, <2>1, <2>2, StepsKept DEF StepFit, Goto
  <2> QED
    BY <2>7, <2>8 DEF StepFit
<1>19. ASSUME NEW r \in Runs, FinishFails(r) PROVE StepFit'
  <2>0. StepOf(r) /\ StageOf(r) /\ pc[r] \in Stages /\ r \in DOMAIN pc
    BY <1>0 DEF StepFit, StageFit, ShapeFit
  <2> DEFINE entry == End("failed")
  <2>1. /\ pc[r] = "finishing" /\ Goto(r, "releasing") /\ status' = status
        /\ Write(r, entry) /\ entry \in Entries /\ entry.status = "failed" /\ ~Sealed(receipt[r])
    BY <1>0, <1>19, EntriesKnown DEF StageFit, StageOf, FinishFails, SealAnyway, Unwind
  <2> HIDE DEF entry
  <2>2. /\ (Sealed(receipt[r]) => receipt'[r] = receipt[r])
        /\ (~Sealed(receipt[r]) =>
              (Succeeded(receipt'[r]) <=> entry.kind = "end" /\ entry.status = "succeeded"))
        /\ With("step", receipt[r]) \subseteq With("step", receipt'[r])
        /\ \A q \in Runs \ {r} : receipt'[q] = receipt[q]
    BY <1>0, <2>1, WriteKeeps DEF ShapeFit
  <2>7. StepOf(r)'
    BY <2>0, <2>1, <2>2 DEF StepOf, Goto
  <2>8. ASSUME NEW q \in Runs \ {r} PROVE StepOf(q)'
    BY <1>0, <2>1, <2>2, StepsKept DEF StepFit, Goto
  <2> QED
    BY <2>7, <2>8 DEF StepFit
<1>20. ASSUME NEW r \in Runs, Publish(r) PROVE StepFit'
  <2>1. UNCHANGED <<receipt, status>> /\ pc[r] = "sealed" /\ (Goto(r, "cleaning") \/ Goto(r, "releasing"))
    BY <1>0, <1>20 DEF Publish, Unwind
  <2>2. pc'[r] \in {"cleaning", "releasing"} /\ \A q \in Runs \ {r} : pc'[q] = pc[q]
    BY <1>0, <2>1 DEF ShapeFit, Goto
  <2>7. StepOf(r)'
    BY <1>0, <2>1, <2>2 DEF StepFit, StepOf
  <2>8. ASSUME NEW q \in Runs \ {r} PROVE StepOf(q)'
    BY <1>0, <2>1, <2>2, StepsKept DEF StepFit
  <2> QED
    BY <2>7, <2>8 DEF StepFit
<1>21. ASSUME NEW r \in Runs, CleanUp(r) PROVE StepFit'
  <2>1. StepOf(r)'
    BY <1>0, <1>21, LookGives DEF StepFit, StepOf
  <2>2. ASSUME NEW q \in Runs \ {r} PROVE StepOf(q)'
    BY <1>0, <1>21, LookGives, StepsKept DEF StepFit
  <2> QED
    BY <2>1, <2>2 DEF StepFit
<1>26. ASSUME NEW r \in Runs, RemoveTree(r) PROVE StepFit'
  BY <1>0, <1>26 DEF StepFit, StepOf, RemoveTree, Unwind, Goto, Removing, Running, Startable, Failed
<1>22. ASSUME NEW r \in Runs, Release(r) PROVE StepFit'
  <2>0. StepOf(r) /\ StageOf(r) /\ pc[r] \in Stages /\ r \in DOMAIN pc
    BY <1>0 DEF StepFit, StageFit, ShapeFit
  <2>1. Leave(r, "ended") /\ "ended" \in Stages /\ UNCHANGED <<receipt, call>>
    BY <1>0, <1>22 DEF Release, Stages
  <2>2. /\ pc'[r] = "ended" /\ \A q \in Runs \ {r} : pc'[q] = pc[q] /\ status'[q] = status[q]
        /\ \A s \in Steps : status'[r][s] = "pending"
    BY <1>0, <2>1, LeaveGives
  <2>7. StepOf(r)'
    BY <2>0, <2>1, <2>2 DEF StepOf
  <2>8. ASSUME NEW q \in Runs \ {r} PROVE StepOf(q)'
    BY <1>0, <2>1, <2>2, StepsKept DEF StepFit
  <2> QED
    BY <2>7, <2>8 DEF StepFit
<1>23. ASSUME NEW r \in Runs, Kill(r) PROVE StepFit'
  <2>0. StepOf(r) /\ StageOf(r) /\ pc[r] \in Stages /\ r \in DOMAIN pc
    BY <1>0 DEF StepFit, StageFit, ShapeFit
  <2>1. Leave(r, "dead") /\ "dead" \in Stages /\ receipt' = receipt
    BY <1>0, <1>23 DEF Kill, Stages
  <2>2. /\ pc'[r] = "dead" /\ \A q \in Runs \ {r} : pc'[q] = pc[q] /\ status'[q] = status[q]
        /\ \A s \in Steps : status'[r][s] = "pending"
    BY <1>0, <2>1, LeaveGives
  <2>7. StepOf(r)'
    BY <2>0, <2>1, <2>2 DEF StepOf
  <2>8. ASSUME NEW q \in Runs \ {r} PROVE StepOf(q)'
    BY <1>0, <2>1, <2>2, StepsKept DEF StepFit
  <2> QED
    BY <2>7, <2>8 DEF StepFit
<1>24. CASE Edit
  BY <1>0, <1>24 DEF StepFit, StepOf, Edit, runVars, Running, Startable, Failed
<1>25. CASE Ages
  BY <1>0, <1>25 DEF StepFit, StepOf, Ages, runVars, Running, Startable, Failed
<1> QED
  BY <1>1, <1>2, <1>3, <1>4, <1>5, <1>6, <1>7, <1>8, <1>9, <1>10, <1>11, <1>12, <1>13, <1>14,
     <1>15, <1>16, <1>17, <1>18, <1>19, <1>20, <1>21, <1>22, <1>23, <1>24, <1>25, <1>26 DEF Next,
     Proceed, Attempt

\* Whoever touches the worktree spoils the plans of the others, and a run keeps to its own.
LEMMA NextGround ==
  ASSUME Fit, [Next]_vars
  PROVE  GroundFit'
<1>0. Fit /\ ShapeFit /\ LockFit /\ StageFit /\ StepFit /\ GroundFit /\ BirthFit /\ LookFit
  BY DEF Fit
<1>1. CASE UNCHANGED vars
  BY <1>0, <1>1 DEF GroundFit, GroundOf, vars, runVars, histories
<1>2. ASSUME NEW r \in Runs, Lock(r) PROVE GroundFit'
  BY <1>0, <1>2 DEF GroundFit, GroundOf, Lock, runVars, histories
<1>3. ASSUME NEW r \in Runs, PlanResume(r) PROVE GroundFit'
  <2>0. GroundOf(r) /\ StageOf(r) /\ r \in DOMAIN pc
    BY <1>0 DEF GroundFit, StageFit, ShapeFit
  <2>1. UNCHANGED <<tree, receipt, meddled>>
    BY <1>0, <1>3 DEF PlanResume, histories
  <2>2. /\ pc[r] = "idle" /\ pc'[r] = "planned" /\ plan'[r].reset \in BOOLEAN
        /\ plan'[r].reset => plan'[r].expected \in Tree
        /\ ~plan'[r].reset => tree = plan'[r].expected
        /\ \A q \in Runs \ {r} : pc'[q] = pc[q] /\ plan'[q] = plan[q]
    BY <1>0, <1>3, PlanGives
  <2>7. GroundOf(r)'
    BY <2>0, <2>1, <2>2 DEF GroundOf, StageOf
  <2>8. ASSUME NEW q \in Runs \ {r} PROVE GroundOf(q)'
    BY <1>0, <2>1, <2>2, GroundKept DEF GroundFit, Within, Removing
  <2> QED
    BY <2>7, <2>8 DEF GroundFit
<1>4. ASSUME NEW r \in Runs, TurnedAway(r) PROVE GroundFit'
  <2>0. GroundOf(r) /\ StageOf(r) /\ r \in DOMAIN pc
    BY <1>0 DEF GroundFit, StageFit, ShapeFit
  <2>1. Leave(r, "ended") /\ "ended" \in Stages /\ UNCHANGED <<receipt, tree>>
    BY <1>0, <1>4 DEF TurnedAway, Stages
  <2>2. /\ pc'[r] = "ended" /\ plan'[r].from = NoRun /\ plan'[r].reset = FALSE
        /\ \A q \in Runs \ {r} : /\ pc'[q] = pc[q] /\ plan'[q] = plan[q]
                                 /\ q \in meddled' <=> q \in meddled
    BY <1>0, <2>1, LeaveGives
  <2>7. GroundOf(r)'
    BY <2>1, <2>2 DEF GroundOf
  <2>8. ASSUME NEW q \in Runs \ {r} PROVE GroundOf(q)'
    BY <1>0, <2>1, <2>2, GroundKept DEF GroundFit, Within, Removing
  <2> QED
    BY <2>7, <2>8 DEF GroundFit
<1>5. ASSUME NEW r \in Runs, Adopt(r) PROVE GroundFit'
  <2>0. GroundOf(r) /\ StageOf(r) /\ r \in DOMAIN pc
    BY <1>0 DEF GroundFit, StageFit, ShapeFit
  <2>1. /\ pc[r] = "planned" /\ UNCHANGED <<plan, receipt>> /\ Goto(r, "opened")
        /\ Touch(r, IF plan[r].reset THEN plan[r].expected ELSE tree)
    BY <1>0, <1>5 DEF Adopt, GoBack
  <2>2. pc'[r] = "opened" /\ \A q \in Runs \ {r} : pc'[q] = pc[q]
    BY <1>0, <2>1 DEF Goto, ShapeFit
  <2>7. GroundOf(r)'
    BY <2>0, <2>1, <2>2, TouchGives DEF GroundOf, StageOf
  <2>8. ASSUME NEW q \in Runs \ {r} PROVE GroundOf(q)'
    BY <1>0, <2>1, <2>2, TouchGives, GroundKept DEF GroundFit, Within, Removing
  <2> QED
    BY <2>7, <2>8 DEF GroundFit
<1>6. ASSUME NEW r \in Runs, Create(r) PROVE GroundFit'
  <2>0. GroundOf(r) /\ StageOf(r) /\ r \in DOMAIN pc
    BY <1>0 DEF GroundFit, StageFit, ShapeFit
  <2>1. /\ pc[r] = "idle" /\ r = First /\ UNCHANGED <<plan, receipt, meddled>>
        /\ pc'[r] = "opened" /\ \A q \in Runs \ {r} : pc'[q] = pc[q]
    BY <1>0, <1>6 DEF ShapeFit, Create, Goto, histories
  <2>2. plan[r].from = NoRun
    BY <1>0, <2>1 DEF LockFit, LockOf
  <2>3. \A q \in Runs : pc[q] = "idle"
    BY <1>0, <2>1 DEF BirthFit
  <2>7. GroundOf(r)'
    BY <2>0, <2>1, <2>2 DEF GroundOf
  <2>8. ASSUME NEW q \in Runs \ {r} PROVE GroundOf(q)'
    BY <1>0, <2>1, <2>3, GroundKept DEF GroundFit, Within, Removing
  <2> QED
    BY <2>7, <2>8 DEF GroundFit
<1>7. ASSUME NEW r \in Runs, SetUpFails(r) PROVE GroundFit'
  <2>0. GroundOf(r) /\ StageOf(r) /\ r \in DOMAIN pc
    BY <1>0 DEF GroundFit, StageFit, ShapeFit
  <2>1. /\ pc[r] \in {"planned", "opened"} /\ UNCHANGED <<plan, receipt, tree, meddled>>
        /\ Goto(r, "discarding") \/ Goto(r, "releasing")
    BY <1>0, <1>7 DEF SetUpFails, Look, Unwind, histories
  <2>2. pc'[r] \in {"discarding", "releasing"} /\ \A q \in Runs \ {r} : pc'[q] = pc[q]
    BY <1>0, <2>1 DEF Goto, ShapeFit
  <2>7. GroundOf(r)'
    BY <2>0, <2>1, <2>2 DEF GroundOf, StageOf
  <2>8. ASSUME NEW q \in Runs \ {r} PROVE GroundOf(q)'
    BY <1>0, <2>1, <2>2, TouchGives, GroundKept DEF GroundFit, Within, Removing
  <2> QED
    BY <2>7, <2>8 DEF GroundFit
<1>8. ASSUME NEW r \in Runs, Begin(r) PROVE GroundFit'
  <2>0. GroundOf(r) /\ StageOf(r) /\ r \in DOMAIN pc
    BY <1>0 DEF GroundFit, StageFit, ShapeFit
  <2> DEFINE entry == Start(tree)
  <2>1. /\ Write(r, entry) /\ entry \in Entries /\ entry.tree = tree
        /\ pc[r] = "opened" /\ Goto(r, "running") /\ UNCHANGED <<tree, plan, meddled>>
    BY <1>0, <1>8, EntriesKnown DEF ShapeFit, Begin, histories
  <2> HIDE DEF entry
  <2>2. /\ (receipt[r] # <<>> => receipt'[r][1] = receipt[r][1])
        /\ (receipt[r] = <<>> => receipt'[r][1] = entry)
        /\ \A q \in Runs \ {r} : receipt'[q] = receipt[q]
    BY <1>0, <2>1, WriteKeeps DEF ShapeFit
  <2>3. pc'[r] = "running" /\ \A q \in Runs \ {r} : pc'[q] = pc[q]
    BY <1>0, <2>1 DEF Goto, ShapeFit
  <2>7. GroundOf(r)'
    BY <2>0, <2>1, <2>2, <2>3 DEF GroundOf, StageOf
  <2>8. ASSUME NEW q \in Runs \ {r} PROVE GroundOf(q)'
    BY <1>0, <2>1, <2>2, <2>3, GroundKept DEF GroundFit, Within, Removing
  <2> QED
    BY <2>7, <2>8 DEF GroundFit
<1>9. ASSUME NEW r \in Runs, NEW s \in Steps, StartStep(r, s) PROVE GroundFit'
  <2>0. GroundOf(r) /\ StageOf(r) /\ r \in DOMAIN pc
    BY <1>0 DEF GroundFit, StageFit, ShapeFit
  <2>1. /\ pc[r] = "running" /\ UNCHANGED <<plan, receipt, pc>>
        /\ UNCHANGED <<tree, meddled>> \/ \E new : Touch(r, new)
    BY <1>0, <1>9 DEF StartStep, histories
  <2>7. GroundOf(r)'
    BY <2>0, <2>1, TouchGives DEF GroundOf
  <2>8. ASSUME NEW q \in Runs \ {r} PROVE GroundOf(q)'
    BY <1>0, <2>1, TouchGives, GroundKept DEF GroundFit, Within, Removing
  <2> QED
    BY <2>7, <2>8 DEF GroundFit
<1>10. ASSUME NEW r \in Runs, NEW s \in Steps, Return(r, s) PROVE GroundFit'
  <2>0. GroundOf(r) /\ StageOf(r) /\ r \in DOMAIN pc
    BY <1>0 DEF GroundFit, StageFit, ShapeFit
  <2>1. /\ receipt[r] # <<>> /\ UNCHANGED <<plan, pc>>
        /\ UNCHANGED <<tree, meddled>> \/ \E new : Touch(r, new)
    BY <1>0, <1>10 DEF StageFit, StageOf, Return, histories
  <2>2. /\ receipt'[r][1] = receipt[r][1]
        /\ \A q \in Runs \ {r} : receipt'[q] = receipt[q]
    BY <1>0, <1>10, <2>1, WriteKeeps, EntriesKnown DEF ShapeFit, Return, histories
  <2>3. pc[r] \notin {"planned", "opened"}
    BY <2>0, <2>1 DEF StageOf
  <2>7. GroundOf(r)'
    BY <2>0, <2>1, <2>2, <2>3, TouchGives DEF GroundOf
  <2>8. ASSUME NEW q \in Runs \ {r} PROVE GroundOf(q)'
    BY <1>0, <2>1, <2>2, TouchGives, GroundKept DEF GroundFit, Within, Removing
  <2> QED
    BY <2>7, <2>8 DEF GroundFit
<1>11. ASSUME NEW r \in Runs, NEW s \in Steps, Measure(r, s) PROVE GroundFit'
  BY <1>0, <1>11 DEF GroundFit, GroundOf, Measure, histories
<1>12. ASSUME NEW r \in Runs, NEW s \in Steps, Record(r, s) PROVE GroundFit'
  <2>0. GroundOf(r) /\ StageOf(r) /\ r \in DOMAIN pc
    BY <1>0 DEF GroundFit, StageFit, ShapeFit
  <2> DEFINE entry == Evidence(s, digest[r][s])
  <2>1. /\ receipt[r] # <<>> /\ Write(r, entry) /\ entry \in Entries
        /\ UNCHANGED <<plan, pc, tree, meddled>>
    BY <1>0, <1>12, EntriesKnown DEF ShapeFit, StageFit, StageOf, Record, histories
  <2> HIDE DEF entry
  <2>2. /\ (receipt[r] # <<>> => receipt'[r][1] = receipt[r][1])
        /\ (receipt[r] = <<>> => receipt'[r][1] = entry)
        /\ \A q \in Runs \ {r} : receipt'[q] = receipt[q]
    BY <1>0, <2>1, WriteKeeps DEF ShapeFit
  <2>7. GroundOf(r)'
    BY <2>0, <2>1, <2>2 DEF GroundOf
  <2>8. ASSUME NEW q \in Runs \ {r} PROVE GroundOf(q)'
    BY <1>0, <2>1, <2>2, GroundKept DEF GroundFit, Within, Removing
  <2> QED
    BY <2>7, <2>8 DEF GroundFit
<1>13. ASSUME NEW r \in Runs, NEW s \in Steps, StopCall(r, s) PROVE GroundFit'
  BY <1>0, <1>13 DEF GroundFit, GroundOf, StopCall, histories
<1>14. ASSUME NEW r \in Runs, NEW s \in Steps, TimeOut(r, s) PROVE GroundFit'
  BY <1>0, <1>14 DEF GroundFit, GroundOf, TimeOut, histories
<1>15. ASSUME NEW r \in Runs, Abort(r) PROVE GroundFit'
  BY <1>0, <1>15 DEF GroundFit, GroundOf, Abort, Goto, histories
<1>16. ASSUME NEW r \in Runs, WorkflowEnds(r) PROVE GroundFit'
  BY <1>0, <1>16 DEF ShapeFit, GroundFit, GroundOf, WorkflowEnds, Goto, histories
<1>17. ASSUME NEW r \in Runs, SealFailed(r) PROVE GroundFit'
  <2>0. GroundOf(r) /\ StageOf(r) /\ r \in DOMAIN pc
    BY <1>0 DEF GroundFit, StageFit, ShapeFit
  <2>1. /\ pc[r] = "failing" /\ receipt[r] # <<>> /\ Goto(r, "releasing")
        /\ UNCHANGED <<plan, tree, meddled>>
    BY <1>0, <1>17 DEF StageFit, StageOf, SealFailed, Unwind
  <2>2. receipt'[r][1] = receipt[r][1] /\ \A q \in Runs \ {r} : receipt'[q] = receipt[q]
    BY <1>0, <1>17, <2>1, WriteKeeps, EntriesKnown DEF ShapeFit, SealFailed
  <2>3. pc'[r] = "releasing" /\ \A q \in Runs \ {r} : pc'[q] = pc[q]
    BY <1>0, <2>1 DEF Goto, ShapeFit
  <2>7. GroundOf(r)'
    BY <2>0, <2>1, <2>2, <2>3 DEF GroundOf
  <2>8. ASSUME NEW q \in Runs \ {r} PROVE GroundOf(q)'
    BY <1>0, <2>1, <2>2, <2>3, GroundKept DEF GroundFit, Within, Removing
  <2> QED
    BY <2>7, <2>8 DEF GroundFit
<1>18. ASSUME NEW r \in Runs, Finish(r) PROVE GroundFit'
  <2>0. GroundOf(r) /\ StageOf(r) /\ r \in DOMAIN pc
    BY <1>0 DEF GroundFit, StageFit, ShapeFit
  <2>1. /\ pc[r] = "finishing" /\ receipt[r] # <<>> /\ Goto(r, "sealed")
        /\ UNCHANGED <<plan, tree, meddled>>
    BY <1>0, <1>18 DEF StageFit, StageOf, Finish, histories
  <2>2. receipt'[r][1] = receipt[r][1] /\ \A q \in Runs \ {r} : receipt'[q] = receipt[q]
    BY <1>0, <1>18, <2>1, WriteKeeps, EntriesKnown DEF ShapeFit, Finish, Verdict, histories
  <2>3. pc'[r] = "sealed" /\ \A q \in Runs \ {r} : pc'[q] = pc[q]
    BY <1>0, <2>1 DEF Goto, ShapeFit
  <2>7. GroundOf(r)'
    BY <2>0, <2>1, <2>2, <2>3 DEF GroundOf
  <2>8. ASSUME NEW q \in Runs \ {r} PROVE GroundOf(q)'
    BY <1>0, <2>1, <2>2, <2>3, GroundKept DEF GroundFit, Within, Removing
  <2> QED
    BY <2>7, <2>8 DEF GroundFit
<1>19. ASSUME NEW r \in Runs, FinishFails(r) PROVE GroundFit'
  <2>0. GroundOf(r) /\ StageOf(r) /\ r \in DOMAIN pc
    BY <1>0 DEF GroundFit, StageFit, ShapeFit
  <2>1. /\ pc[r] = "finishing" /\ receipt[r] # <<>> /\ Goto(r, "releasing")
        /\ UNCHANGED <<plan, tree, meddled>>
    BY <1>0, <1>19 DEF StageFit, StageOf, FinishFails, Unwind, histories
  <2>2. receipt'[r][1] = receipt[r][1] /\ \A q \in Runs \ {r} : receipt'[q] = receipt[q]
    BY <1>0, <1>19, <2>1, WriteKeeps, EntriesKnown DEF ShapeFit, FinishFails, SealAnyway, histories
  <2>3. pc'[r] = "releasing" /\ \A q \in Runs \ {r} : pc'[q] = pc[q]
    BY <1>0, <2>1 DEF Goto, ShapeFit
  <2>7. GroundOf(r)'
    BY <2>0, <2>1, <2>2, <2>3 DEF GroundOf
  <2>8. ASSUME NEW q \in Runs \ {r} PROVE GroundOf(q)'
    BY <1>0, <2>1, <2>2, <2>3, GroundKept DEF GroundFit, Within, Removing
  <2> QED
    BY <2>7, <2>8 DEF GroundFit
<1>20. ASSUME NEW r \in Runs, Publish(r) PROVE GroundFit'
  <2>0. GroundOf(r) /\ StageOf(r) /\ r \in DOMAIN pc
    BY <1>0 DEF GroundFit, StageFit, ShapeFit
  <2>1. /\ pc[r] = "sealed" /\ UNCHANGED <<plan, receipt>> /\ (Goto(r, "cleaning") \/ Goto(r, "releasing"))
        /\ UNCHANGED <<tree, meddled>> \/ \E new : Touch(r, new)
    BY <1>0, <1>20 DEF Publish, Unwind, histories
  <2>2. pc'[r] \in {"cleaning", "releasing"} /\ \A q \in Runs \ {r} : pc'[q] = pc[q]
    BY <1>0, <2>1 DEF Goto, ShapeFit
  <2>7. GroundOf(r)'
    BY <2>0, <2>1, <2>2, TouchGives DEF GroundOf
  <2>8. ASSUME NEW q \in Runs \ {r} PROVE GroundOf(q)'
    BY <1>0, <2>1, <2>2, TouchGives, GroundKept DEF GroundFit, Within, Removing
  <2> QED
    BY <2>7, <2>8 DEF GroundFit
<1>21. ASSUME NEW r \in Runs, CleanUp(r) PROVE GroundFit'
  <2>0. GroundOf(r) /\ StageOf(r) /\ r \in DOMAIN pc
    BY <1>0 DEF GroundFit, StageFit, ShapeFit
  <2>1. /\ pc[r] = "cleaning" /\ UNCHANGED <<plan, receipt, tree, meddled>>
        /\ Goto(r, "removing") \/ Goto(r, "releasing")
    BY <1>0, <1>21 DEF CleanUp, Look, Unwind, histories
  <2>2. pc'[r] \in {"removing", "releasing"} /\ \A q \in Runs \ {r} : pc'[q] = pc[q]
    BY <1>0, <2>1 DEF Goto, ShapeFit
  <2>7. GroundOf(r)'
    BY <2>0, <2>1, <2>2, TouchGives DEF GroundOf
  <2>8. ASSUME NEW q \in Runs \ {r} PROVE GroundOf(q)'
    BY <1>0, <2>1, <2>2, TouchGives, GroundKept DEF GroundFit, Within, Removing
  <2> QED
    BY <2>7, <2>8 DEF GroundFit
<1>26. ASSUME NEW r \in Runs, RemoveTree(r) PROVE GroundFit'
  <2>0. GroundOf(r) /\ StageOf(r) /\ r \in DOMAIN pc
    BY <1>0 DEF GroundFit, StageFit, ShapeFit
  <2>1. /\ pc[r] \in Removing /\ UNCHANGED <<plan, receipt>> /\ Goto(r, "releasing")
        /\ \E new : Touch(r, new)
    BY <1>0, <1>26 DEF RemoveTree, Unwind
  <2>2. pc'[r] = "releasing" /\ \A q \in Runs \ {r} : pc'[q] = pc[q]
    BY <1>0, <2>1 DEF Goto, ShapeFit
  <2>7. GroundOf(r)'
    BY <2>0, <2>1, <2>2, TouchGives DEF GroundOf, StageOf
  <2>8. ASSUME NEW q \in Runs \ {r} PROVE GroundOf(q)'
    BY <1>0, <2>1, <2>2, TouchGives, GroundKept DEF GroundFit, Within, Removing
  <2> QED
    BY <2>7, <2>8 DEF GroundFit
<1>22. ASSUME NEW r \in Runs, Release(r) PROVE GroundFit'
  <2>0. GroundOf(r) /\ StageOf(r) /\ r \in DOMAIN pc
    BY <1>0 DEF GroundFit, StageFit, ShapeFit
  <2>1. Leave(r, "ended") /\ "ended" \in Stages /\ UNCHANGED <<receipt, tree>>
    BY <1>0, <1>22 DEF Release, Stages
  <2>2. /\ pc'[r] = "ended" /\ plan'[r].from = NoRun /\ plan'[r].reset = FALSE
        /\ \A q \in Runs \ {r} : /\ pc'[q] = pc[q] /\ plan'[q] = plan[q]
                                 /\ q \in meddled' <=> q \in meddled
    BY <1>0, <2>1, LeaveGives
  <2>7. GroundOf(r)'
    BY <2>1, <2>2 DEF GroundOf
  <2>8. ASSUME NEW q \in Runs \ {r} PROVE GroundOf(q)'
    BY <1>0, <2>1, <2>2, GroundKept DEF GroundFit, Within, Removing
  <2> QED
    BY <2>7, <2>8 DEF GroundFit
<1>23. ASSUME NEW r \in Runs, Kill(r) PROVE GroundFit'
  <2>0. GroundOf(r) /\ StageOf(r) /\ r \in DOMAIN pc
    BY <1>0 DEF GroundFit, StageFit, ShapeFit
  <2>1. Leave(r, "dead") /\ "dead" \in Stages /\ UNCHANGED <<receipt, tree>>
    BY <1>0, <1>23 DEF Kill, Stages
  <2>2. /\ pc'[r] = "dead" /\ plan'[r].from = NoRun /\ plan'[r].reset = FALSE
        /\ \A q \in Runs \ {r} : /\ pc'[q] = pc[q] /\ plan'[q] = plan[q]
                                 /\ q \in meddled' <=> q \in meddled
    BY <1>0, <2>1, LeaveGives
  <2>7. GroundOf(r)'
    BY <2>1, <2>2 DEF GroundOf
  <2>8. ASSUME NEW q \in Runs \ {r} PROVE GroundOf(q)'
    BY <1>0, <2>1, <2>2, GroundKept DEF GroundFit, Within, Removing
  <2> QED
    BY <2>7, <2>8 DEF GroundFit
<1>24. CASE Edit
  <2>1. UNCHANGED <<plan, receipt, pc>> /\ \E new : Touch(NoRun, new)
    BY <1>0, <1>24 DEF Edit, runVars
  <2>2. ASSUME NEW q \in Runs PROVE GroundOf(q)'
    BY <1>0, <2>1, TouchGives, GroundKept, RunAssumption DEF GroundFit
  <2> QED
    BY <2>2 DEF GroundFit
<1>25. CASE Ages
  BY <1>0, <1>25 DEF GroundFit, GroundOf, Ages, runVars, histories
<1> QED
  BY <1>1, <1>2, <1>3, <1>4, <1>5, <1>6, <1>7, <1>8, <1>9, <1>10, <1>11, <1>12, <1>13, <1>14,
     <1>15, <1>16, <1>17, <1>18, <1>19, <1>20, <1>21, <1>22, <1>23, <1>24, <1>25, <1>26 DEF Next,
     Proceed, Attempt

\* Only the first run makes the worktree.
LEMMA NextBirth ==
  ASSUME Fit, [Next]_vars
  PROVE  BirthFit'
<1>0. Fit /\ ShapeFit /\ LockFit /\ StageFit /\ StepFit /\ GroundFit /\ BirthFit /\ LookFit
  BY DEF Fit
<1>1. CASE UNCHANGED vars
  BY <1>0, <1>1 DEF BirthFit, vars, runVars
<1>2. ASSUME NEW r \in Runs, Lock(r) PROVE BirthFit'
  BY <1>0, <1>2 DEF BirthFit, Lock, runVars
<1>3. ASSUME NEW r \in Runs, PlanResume(r) PROVE BirthFit'
  BY <1>0, <1>3 DEF BirthFit, PlanResume, Goto
<1>4. ASSUME NEW r \in Runs, TurnedAway(r) PROVE BirthFit'
  <2>1. Leave(r, "ended") /\ "ended" \in Stages /\ pc[r] # "idle" /\ First \in Runs
    BY <1>4, RunAssumption DEF TurnedAway, Stages
  <2>2. pc'[r] = "ended" /\ \A q \in Runs \ {r} : pc'[q] = pc[q]
    BY <1>0, <2>1, LeaveGives
  <2>3. pc[First] # "idle"
    BY <1>0, <2>1 DEF BirthFit
  <2>4. pc'[First] # "idle"
    BY <2>1, <2>2, <2>3
  <2> QED
    BY <2>4 DEF BirthFit
<1>5. ASSUME NEW r \in Runs, Adopt(r) PROVE BirthFit'
  BY <1>0, <1>5 DEF BirthFit, Adopt, Goto
<1>6. ASSUME NEW r \in Runs, Create(r) PROVE BirthFit'
  BY <1>0, <1>6 DEF ShapeFit, BirthFit, Create, Goto
<1>7. ASSUME NEW r \in Runs, SetUpFails(r) PROVE BirthFit'
  <2>1. First = r => pc[First] # "idle"
    BY <1>0, <1>7, LookGives
  <2>2. pc'[First] = "idle" => pc[First] = "idle" /\ First # r
    BY <1>0, <1>7, LookGives, RunAssumption
  <2>3. pc[First] = "idle" => pc[r] = "idle"
    BY <1>0 DEF BirthFit
  <2>4. pc[r] # "idle"
    BY <1>0, <1>7, LookGives
  <2> QED
    BY <2>2, <2>3, <2>4 DEF BirthFit
<1>8. ASSUME NEW r \in Runs, Begin(r) PROVE BirthFit'
  BY <1>0, <1>8 DEF BirthFit, Begin, Goto
<1>9. ASSUME NEW r \in Runs, NEW s \in Steps, StartStep(r, s) PROVE BirthFit'
  BY <1>0, <1>9 DEF BirthFit, StartStep
<1>10. ASSUME NEW r \in Runs, NEW s \in Steps, Return(r, s) PROVE BirthFit'
  BY <1>0, <1>10 DEF BirthFit, Return, Touch
<1>11. ASSUME NEW r \in Runs, NEW s \in Steps, Measure(r, s) PROVE BirthFit'
  BY <1>0, <1>11 DEF BirthFit, Measure
<1>12. ASSUME NEW r \in Runs, NEW s \in Steps, Record(r, s) PROVE BirthFit'
  BY <1>0, <1>12 DEF BirthFit, Record
<1>13. ASSUME NEW r \in Runs, NEW s \in Steps, StopCall(r, s) PROVE BirthFit'
  BY <1>0, <1>13 DEF BirthFit, StopCall
<1>14. ASSUME NEW r \in Runs, NEW s \in Steps, TimeOut(r, s) PROVE BirthFit'
  BY <1>0, <1>14 DEF BirthFit, TimeOut
<1>15. ASSUME NEW r \in Runs, Abort(r) PROVE BirthFit'
  BY <1>0, <1>15 DEF BirthFit, Abort, Goto
<1>16. ASSUME NEW r \in Runs, WorkflowEnds(r) PROVE BirthFit'
  <2>1. /\ pc[r] # "idle" /\ First \in Runs
        /\ pc' = pc \/ \E stage \in Stages \ {"idle"} : pc' = [pc EXCEPT ![r] = stage]
    BY <1>16, RunAssumption DEF WorkflowEnds, Goto, Stages, Within, Removing
  <2>2. pc[First] # "idle"
    BY <1>0, <2>1 DEF BirthFit
  <2>3. pc'[First] # "idle"
    BY <1>0, <2>1, <2>2 DEF ShapeFit
  <2> QED
    BY <2>3 DEF BirthFit
<1>17. ASSUME NEW r \in Runs, SealFailed(r) PROVE BirthFit'
  BY <1>0, <1>17 DEF BirthFit, SealFailed, Unwind, Goto
<1>18. ASSUME NEW r \in Runs, Finish(r) PROVE BirthFit'
  BY <1>0, <1>18 DEF BirthFit, Finish, Goto
<1>19. ASSUME NEW r \in Runs, FinishFails(r) PROVE BirthFit'
  BY <1>0, <1>19 DEF BirthFit, FinishFails, Unwind, Goto
<1>20. ASSUME NEW r \in Runs, Publish(r) PROVE BirthFit'
  <2>1. /\ pc[r] # "idle" /\ First \in Runs
        /\ pc' = pc \/ \E stage \in Stages \ {"idle"} : pc' = [pc EXCEPT ![r] = stage]
    BY <1>20, RunAssumption DEF Publish, Goto, Unwind, Stages, Within, Removing
  <2>2. pc[First] # "idle"
    BY <1>0, <2>1 DEF BirthFit
  <2>3. pc'[First] # "idle"
    BY <1>0, <2>1, <2>2 DEF ShapeFit
  <2> QED
    BY <2>3 DEF BirthFit
<1>21. ASSUME NEW r \in Runs, CleanUp(r) PROVE BirthFit'
  <2>1. First = r => pc[First] # "idle"
    BY <1>0, <1>21, LookGives
  <2>2. pc'[First] = "idle" => pc[First] = "idle" /\ First # r
    BY <1>0, <1>21, LookGives, RunAssumption
  <2>3. pc[First] = "idle" => pc[r] = "idle"
    BY <1>0 DEF BirthFit
  <2>4. pc[r] # "idle"
    BY <1>0, <1>21, LookGives
  <2> QED
    BY <2>2, <2>3, <2>4 DEF BirthFit
<1>26. ASSUME NEW r \in Runs, RemoveTree(r) PROVE BirthFit'
  BY <1>0, <1>26 DEF BirthFit, RemoveTree, Unwind, Goto, Removing
<1>22. ASSUME NEW r \in Runs, Release(r) PROVE BirthFit'
  <2>1. Leave(r, "ended") /\ "ended" \in Stages /\ pc[r] # "idle" /\ First \in Runs
    BY <1>22, RunAssumption DEF Release, Stages
  <2>2. pc'[r] = "ended" /\ \A q \in Runs \ {r} : pc'[q] = pc[q]
    BY <1>0, <2>1, LeaveGives
  <2>3. pc[First] # "idle"
    BY <1>0, <2>1 DEF BirthFit
  <2>4. pc'[First] # "idle"
    BY <2>1, <2>2, <2>3
  <2> QED
    BY <2>4 DEF BirthFit
<1>23. ASSUME NEW r \in Runs, Kill(r) PROVE BirthFit'
  <2>1. Leave(r, "dead") /\ "dead" \in Stages /\ pc[r] # "idle" /\ First \in Runs
    BY <1>23, RunAssumption DEF Kill, Stages, Within, Removing
  <2>2. pc'[r] = "dead" /\ \A q \in Runs \ {r} : pc'[q] = pc[q]
    BY <1>0, <2>1, LeaveGives
  <2>3. pc[First] # "idle"
    BY <1>0, <2>1 DEF BirthFit
  <2>4. pc'[First] # "idle"
    BY <2>1, <2>2, <2>3
  <2> QED
    BY <2>4 DEF BirthFit
<1>24. CASE Edit
  BY <1>0, <1>24 DEF BirthFit, Edit, runVars
<1>25. CASE Ages
  BY <1>0, <1>25 DEF BirthFit, Ages, runVars
<1> QED
  BY <1>1, <1>2, <1>3, <1>4, <1>5, <1>6, <1>7, <1>8, <1>9, <1>10, <1>11, <1>12, <1>13, <1>14,
     <1>15, <1>16, <1>17, <1>18, <1>19, <1>20, <1>21, <1>22, <1>23, <1>24, <1>25, <1>26 DEF Next,
     Proceed, Attempt

\* Only a way out that keeps the worktree's promises makes it go.
LEMMA NextLosesNothing ==
  ASSUME Fit, [Next]_vars
  PROVE  LosesNothing
<1>0. Fit /\ ShapeFit /\ LockFit /\ StageFit /\ StepFit /\ GroundFit /\ BirthFit /\ LookFit
  BY DEF Fit
<1>1. CASE UNCHANGED vars
  BY <1>0, <1>1 DEF LosesNothing, vars
<1>2. ASSUME NEW r \in Runs, Lock(r) PROVE LosesNothing
  BY <1>0, <1>2 DEF LosesNothing, Lock
<1>3. ASSUME NEW r \in Runs, PlanResume(r) PROVE LosesNothing
  BY <1>0, <1>3 DEF LosesNothing, PlanResume
<1>4. ASSUME NEW r \in Runs, TurnedAway(r) PROVE LosesNothing
  BY <1>0, <1>4 DEF LosesNothing, TurnedAway
<1>5. ASSUME NEW r \in Runs, Adopt(r) PROVE LosesNothing
  <2>9. tree' # NoTree
    BY <1>0, <1>5, TouchGives, TreeAssumption DEF Adopt, GoBack, GroundFit, GroundOf
  <2> QED
    BY <2>9, TreeAssumption DEF LosesNothing
<1>6. ASSUME NEW r \in Runs, Create(r) PROVE LosesNothing
  <2>9. tree' \in Tree
    BY <1>6 DEF Create, Blank, Tree, Files, Part
  <2> QED
    BY <2>9, TreeAssumption DEF LosesNothing
<1>7. ASSUME NEW r \in Runs, SetUpFails(r) PROVE LosesNothing
  BY <1>0, <1>7 DEF LosesNothing, SetUpFails, Look
<1>8. ASSUME NEW r \in Runs, Begin(r) PROVE LosesNothing
  BY <1>0, <1>8 DEF LosesNothing, Begin
<1>9. ASSUME NEW r \in Runs, NEW s \in Steps, StartStep(r, s) PROVE LosesNothing
  <2>1. tree # NoTree => [tree EXCEPT !.files[s] = "half"] \in Tree
    BY <1>0, EditedIsTree DEF ShapeFit, Part
  <2>9. tree # NoTree => tree' # NoTree
    BY <1>9, <2>1, TouchGives, TreeAssumption DEF StartStep
  <2> QED
    BY <2>9, TreeAssumption DEF LosesNothing
<1>10. ASSUME NEW r \in Runs, NEW s \in Steps, Return(r, s) PROVE LosesNothing
  <2>1. tree # NoTree => [tree EXCEPT !.files[s] = "whole"] \in Tree
    BY <1>0, EditedIsTree DEF ShapeFit, Part
  <2>9. tree # NoTree => tree' # NoTree
    BY <1>10, <2>1, TouchGives, TreeAssumption DEF Return
  <2> QED
    BY <2>9, TreeAssumption DEF LosesNothing
<1>11. ASSUME NEW r \in Runs, NEW s \in Steps, Measure(r, s) PROVE LosesNothing
  BY <1>0, <1>11 DEF LosesNothing, Measure
<1>12. ASSUME NEW r \in Runs, NEW s \in Steps, Record(r, s) PROVE LosesNothing
  BY <1>0, <1>12 DEF LosesNothing, Record
<1>13. ASSUME NEW r \in Runs, NEW s \in Steps, StopCall(r, s) PROVE LosesNothing
  BY <1>0, <1>13 DEF LosesNothing, StopCall
<1>14. ASSUME NEW r \in Runs, NEW s \in Steps, TimeOut(r, s) PROVE LosesNothing
  BY <1>0, <1>14 DEF LosesNothing, TimeOut
<1>15. ASSUME NEW r \in Runs, Abort(r) PROVE LosesNothing
  BY <1>0, <1>15 DEF LosesNothing, Abort
<1>16. ASSUME NEW r \in Runs, WorkflowEnds(r) PROVE LosesNothing
  BY <1>0, <1>16 DEF LosesNothing, WorkflowEnds
<1>17. ASSUME NEW r \in Runs, SealFailed(r) PROVE LosesNothing
  BY <1>0, <1>17 DEF LosesNothing, SealFailed
<1>18. ASSUME NEW r \in Runs, Finish(r) PROVE LosesNothing
  BY <1>0, <1>18 DEF LosesNothing, Finish
<1>19. ASSUME NEW r \in Runs, FinishFails(r) PROVE LosesNothing
  BY <1>0, <1>19 DEF LosesNothing, FinishFails
<1>20. ASSUME NEW r \in Runs, Publish(r) PROVE LosesNothing
  <2>1. tree # NoTree => [tree EXCEPT !.head = tree.files] \in Tree
    BY <1>0, EditedIsTree DEF ShapeFit
  <2>9. tree # NoTree => tree' # NoTree
    BY <1>20, <2>1, TouchGives, TreeAssumption DEF Publish
  <2> QED
    BY <2>9, TreeAssumption DEF LosesNothing
<1>21. ASSUME NEW r \in Runs, CleanUp(r) PROVE LosesNothing
  BY <1>0, <1>21 DEF LosesNothing, CleanUp, Look
<1>26. ASSUME NEW r \in Runs, RemoveTree(r) PROVE LosesNothing
  <2>1. /\ r \in DOMAIN pc /\ pc[r] \in Removing /\ pc'[r] = "releasing"
        /\ looked[r].files = looked[r].head
        /\ pc[r] = "discarding" => plan[r].from = NoRun
    BY <1>0, <1>26 DEF RemoveTree, Unwind, Goto, ShapeFit, LookFit
  <2>2. tree' = tree \/ (Clean \/ Indexed)
    BY <1>26, TouchGives DEF RemoveTree
  <2>3. \A f : tree.files[f] # tree.head[f] =>
          tree.files[f] # looked[r].files[f] \/ tree.head[f] # looked[r].head[f]
    BY <2>1
  <2> QED
    BY <2>1, <2>2, <2>3 DEF LosesNothing
<1>22. ASSUME NEW r \in Runs, Release(r) PROVE LosesNothing
  BY <1>0, <1>22 DEF LosesNothing, Release
<1>23. ASSUME NEW r \in Runs, Kill(r) PROVE LosesNothing
  BY <1>0, <1>23 DEF LosesNothing, Kill
<1>24. CASE Edit
  <2>1. tree # NoTree => [tree EXCEPT !.files[Hand] = "whole"] \in Tree
    BY <1>0, EditedIsTree DEF ShapeFit, Part
  <2>9. tree # NoTree => tree' # NoTree
    BY <1>24, <2>1, TouchGives, TreeAssumption DEF Edit
  <2> QED
    BY <2>9, TreeAssumption DEF LosesNothing

<1>25. CASE Ages
  BY <1>0, <1>25 DEF LosesNothing, Ages
<1> QED
  BY <1>1, <1>2, <1>3, <1>4, <1>5, <1>6, <1>7, <1>8, <1>9, <1>10, <1>11, <1>12, <1>13, <1>14,
     <1>15, <1>16, <1>17, <1>18, <1>19, <1>20, <1>21, <1>22, <1>23, <1>24, <1>25, <1>26 DEF Next,
     Proceed, Attempt

\* Whoever goes on to remove the worktree has looked at it, and found what it has committed.
LEMMA NextLook ==
  ASSUME Fit, [Next]_vars
  PROVE  LookFit'
<1>0. ShapeFit /\ LookFit
  BY DEF Fit
<1>1. ASSUME NEW r \in Runs, PlanResume(r) PROVE LookFit'
  <2>1. /\ pc'[r] = "planned" /\ looked' = looked
        /\ \A q \in Runs \ {r} : pc'[q] = pc[q] /\ plan'[q] = plan[q]
    BY <1>0, <1>1, PlanGives DEF Fit, PlanResume, histories
  <2> QED
    BY <1>0, <2>1 DEF LookFit, Removing
<1>2. ASSUME NEW r \in Runs, NEW stage \in {"ended", "dead"}, Leave(r, stage) PROVE LookFit'
  <2>1. /\ stage \in Stages /\ pc'[r] = stage
        /\ \A q \in Runs \ {r} : pc'[q] = pc[q] /\ plan'[q] = plan[q]
    BY <1>0, <1>2, LeaveGives DEF Stages
  <2>2. \A q \in Runs \ {r} : looked'[q] = looked[q]
    BY <1>0, <1>2 DEF Leave, ShapeFit
  <2>3. pc'[r] \notin Removing /\ pc'[r] # "discarding"
    BY <2>1 DEF Removing
  <2> QED
    BY <1>0, <2>1, <2>2, <2>3 DEF LookFit
<1>3. ASSUME NEW r \in Runs, NEW stage \in Stages \ Removing, Goto(r, stage), UNCHANGED <<plan, looked>> PROVE LookFit'
  BY <1>0, <1>3 DEF ShapeFit, LookFit, Goto, Removing
<1>4. ASSUME UNCHANGED <<pc, plan, looked>> PROVE LookFit'
  BY <1>0, <1>4 DEF LookFit
<1>5. ASSUME NEW r \in Runs, NEW stage \in Removing, Look(r, stage), plan' = plan, Removable(r),
             stage = "discarding" => plan[r].from = NoRun
      PROVE  LookFit'
  <2>1. /\ pc'[r] = stage /\ looked'[r] = tree
        /\ \A q \in Runs \ {r} : pc'[q] = pc[q] /\ looked'[q] = looked[q]
    BY <1>0, <1>5 DEF ShapeFit, Look, Goto
  <2>2. tree \in Tree /\ tree.files = tree.head
    BY <1>0, <1>5 DEF ShapeFit, Removable, Clean
  <2> QED
    BY <1>0, <1>5, <2>1, <2>2 DEF LookFit
<1>6. ASSUME NEW r \in Runs, TurnedAway(r) \/ Release(r) \/ Kill(r) PROVE LookFit'
  <2>1. \E stage \in {"ended", "dead"} : Leave(r, stage)
    BY <1>6 DEF TurnedAway, Release, Kill
  <2> QED
    BY <1>2, <2>1
<1>7. ASSUME NEW r \in Runs,
             Create(r) \/ Adopt(r) \/ Begin(r) \/ Abort(r) \/ WorkflowEnds(r) \/ SealFailed(r) \/ Finish(r)
               \/ FinishFails(r)
      PROVE  LookFit'
  <2>1. \E stage \in {"opened", "running", "failing", "finishing", "releasing", "sealed"} : Goto(r, stage)
    BY <1>7 DEF Create, Adopt, Begin, Abort, WorkflowEnds, SealFailed, Finish, FinishFails, Unwind
  <2>2. UNCHANGED <<plan, looked>>
    BY <1>7 DEF Create, Adopt, GoBack, Touch, Begin, Abort, WorkflowEnds, SealFailed, Finish, FinishFails, histories
  <2>3. {"opened", "running", "failing", "finishing", "releasing", "sealed"} \subseteq Stages \ Removing
    BY DEF Stages, Within, Removing
  <2> QED
    BY <1>3, <2>1, <2>2, <2>3
<1>8. ASSUME NEW r \in Runs, Publish(r) \/ RemoveTree(r) PROVE LookFit'
  <2>1. Goto(r, "cleaning") \/ Goto(r, "releasing")
    BY <1>8 DEF Publish, RemoveTree, Unwind
  <2>2. UNCHANGED <<plan, looked>>
    BY <1>8 DEF Publish, RemoveTree, Touch, histories
  <2>3. {"cleaning", "releasing"} \subseteq Stages \ Removing
    BY DEF Stages, Within, Removing
  <2> QED
    BY <1>3, <2>1, <2>2, <2>3
<1>9. ASSUME NEW r \in Runs, SetUpFails(r) \/ CleanUp(r) PROVE LookFit'
  <2>1. plan' = plan /\ "releasing" \in Stages \ Removing
    BY <1>9 DEF SetUpFails, CleanUp, Stages, Within, Removing
  <2>2. \/ Goto(r, "releasing") /\ looked' = looked
        \/ \E stage \in Removing : Look(r, stage) /\ Removable(r) /\ (stage = "discarding" => plan[r].from = NoRun)
    BY <1>9 DEF SetUpFails, CleanUp, Unwind, histories, Removing
  <2> QED
    BY <1>3, <1>5, <2>1, <2>2
<1>10. ASSUME NEW r \in Runs, NEW s \in Steps,
              StartStep(r, s) \/ Return(r, s) \/ Measure(r, s) \/ Record(r, s) \/ StopCall(r, s) \/ TimeOut(r, s)
       PROVE  LookFit'
  <2>1. UNCHANGED <<pc, plan, looked>>
    BY <1>10 DEF StartStep, Return, Measure, Record, StopCall, TimeOut, Touch, histories
  <2> QED
    BY <1>4, <2>1
<1>11. ASSUME (\E r \in Runs : Lock(r)) \/ Edit \/ Ages \/ UNCHANGED vars PROVE LookFit'
  <2>1. UNCHANGED <<pc, plan, looked>>
    BY <1>11 DEF Lock, Edit, Ages, Touch, vars, runVars, histories
  <2> QED
    BY <1>4, <2>1
<1> QED
  BY <1>1, <1>6, <1>7, <1>8, <1>9, <1>10, <1>11 DEF Next, Proceed, Attempt

\* Every step keeps all parts of the invariant.
LEMMA NextFits ==
  ASSUME Fit, [Next]_vars
  PROVE  Fit'
BY NextShape, NextLock, NextStages, NextSteps, NextGround, NextBirth, NextLook DEF Fit

\* Nobody has set out, and there is neither a lock nor a worktree.
LEMMA InitFits == Init => Fit
<1> SUFFICES ASSUME Init PROVE Fit
  OBVIOUS
<1>1. /\ NoFile \in [by : Runs \cup {NoRun}, written : BOOLEAN, old : BOOLEAN] /\ NoFile.by = NoRun
      /\ "no" \in Taking /\ "idle" \in Stages /\ Fresh.from = NoRun /\ Fresh.reset = FALSE
  BY DEF NoFile, Taking, Stages, Fresh
<1>2. /\ lock = NoFile /\ tree = NoTree /\ DOMAIN plan = Runs
      /\ \A r \in Runs : /\ taking[r] = "no" /\ receipt[r] = <<>> /\ pc[r] = "idle" /\ plan[r] = Fresh
                         /\ \A s \in Steps : status[r][s] = "pending" /\ call[r][s] = "none"
  BY DEF Init, LockInit
<1>3. ShapeFit
  <2>1. receipt \in [Runs -> Seq(Entries)] /\ pc \in [Runs -> Stages] /\ taking \in [Runs -> Taking]
    BY <1>1, EmptySeq DEF Init, LockInit
  <2>2. /\ status \in [Runs -> [Steps -> {"pending", "running", "succeeded", "failed"}]]
        /\ call \in [Runs -> [Steps -> {"none", "working", "returned", "measured"}]]
        /\ digest \in [Runs -> [Steps -> Tree \cup {NoTree}]]
        /\ looked \in [Runs -> Tree \cup {NoTree}]
    BY DEF Init
  <2>3. \A r \in Runs : plan[r].from \in Runs \cup {NoRun} /\ plan[r].reset \in BOOLEAN
    BY <1>1, <1>2
  <2>4. lock \in [by : Runs \cup {NoRun}, written : BOOLEAN, old : BOOLEAN] /\ tree = NoTree /\ DOMAIN plan = Runs
    BY <1>1, <1>2
  <2> QED
    BY <2>1, <2>2, <2>3, <2>4 DEF ShapeFit
<1>4. LockFit
  BY <1>1, <1>2, RunAssumption DEF LockFit, LockOf
<1>5. ~Sealed(<<>>) /\ ~Succeeded(<<>>)
  BY DEF Sealed, Succeeded
<1>6. StageFit
  BY <1>2, <1>5 DEF StageFit, StageOf
<1>7. StepFit
  BY <1>2, <1>5 DEF StepFit, StepOf
<1>8. GroundFit
  BY <1>1, <1>2 DEF GroundFit, GroundOf
<1>9. BirthFit
  BY <1>2 DEF BirthFit
<1>10. LookFit
  BY <1>2 DEF LookFit, Removing
<1> QED
  BY <1>3, <1>4, <1>6, <1>7, <1>8, <1>9, <1>10 DEF Fit

-----------------------------------------------------------------------------
(* What holds of every run.                                                *)

\* The invariant holds always.
THEOREM AlwaysFits == Spec => []Fit
<1>1. Fit /\ [Next]_vars => Fit'
  BY NextFits
<1> QED
  BY InitFits, <1>1, PTL DEF Spec

\* No way out of a run leaves the receipt it began without an end, but that of a run which failed
\* and whose telemetry then failed too (executeProject, project-runner.js).
THEOREM SealedAlways == Spec => []SealsItsReceipt
<1>1. Fit => SealsItsReceipt
  BY DEF Fit, StageFit, StageOf, SealsItsReceipt, Begun
<1> QED
  BY AlwaysFits, <1>1, PTL

\* A receipt that says the run succeeded holds the evidence of every step of the workflow.
THEOREM CompleteSuccess == Spec => []SuccessIsComplete
<1>1. Fit => SuccessIsComplete
  BY DEF Fit, StepFit, StepOf, SuccessIsComplete
<1> QED
  BY AlwaysFits, <1>1, PTL

\* A run that continues another begins its receipt on the tree it planned on, or somebody
\* touched the worktree in between (resumeProject).
THEOREM Grounded == Spec => []KnownGround
<1>1. Fit => KnownGround
  <2> SUFFICES ASSUME Fit, NEW r \in Runs \ meddled, plan[r].from # NoRun, Begun(r)
               PROVE  Head(receipt[r]).tree = plan[r].expected
    BY DEF KnownGround
  <2>1. receipt[r] # <<>> /\ receipt[r] \in Seq(Entries)
    BY DEF Begun, Fit, ShapeFit
  <2>2. Head(receipt[r]) = receipt[r][1]
    BY <2>1
  <2> QED
    BY <2>1, <2>2 DEF Fit, GroundFit, GroundOf
<1> QED
  BY AlwaysFits, <1>1, PTL

\* A lock file of a live process belongs to a run that is still on its way to the release.
THEOREM NotLockedOut == Spec => []NoneLockedOut
<1>1. Fit => NoneLockedOut
  BY RunAssumption DEF Fit, LockFit, LockOf, NoneLockedOut, Alive
<1> QED
  BY AlwaysFits, <1>1, PTL

\* The worktree goes only by a run that looked before and found nothing in it uncommitted, on the
\* way out of a failed set-up only if that run made it; and what is lost with it was not there when
\* that run looked, and only where git is forced (removeIfClean, worktrees.js).
THEOREM LosslessRemoval == Spec => NothingLost
<1>1. Fit /\ [Next]_vars => [LosesNothing]_vars
  BY NextLosesNothing
<1> QED
  BY AlwaysFits, <1>1, PTL DEF Spec, NothingLost

-----------------------------------------------------------------------------
(* The issues that GitLab sends.                                           *)

\* An executor is at work only on a job that its worker was given and has not ended.
WorkFit == \A d \in Deliveries : at[d] # "idle" => job[d] \in {"running", "cancel_requested"}

\* A request that is being answered, or was, has its row.
RowFit ==
  \A d \in Deliveries :
    issueTold[d] \in {"accepted", "duplicate"} \/ (\E fresh \in BOOLEAN : <<d, fresh>> \in handling) =>
      job[d] # "absent"

\* A start is owed for each time the row was put in the queue, and spent by Starting only.
Owed(d) == job[d] \in {"absent", "queued"} \/ at[d] \in {"fetch", "begun", "starting"}
StartFit ==
  \A d \in Deliveries :
    /\ Owed(d) => started[d] <= resumed[d]
    /\ started[d] <= 1 + resumed[d]

\* What is on its way to GitLab may be published, and its branch goes first.
BranchFit ==
  \A d \in Deliveries :
    /\ at[d] \in {"publish", "pushed"} => Trigger!MayPublish(result[d])
    /\ at[d] = "pushed" => <<d, started[d]>> \in pushed

\* Merge requests belong to attempts that were started; the present one has none while it runs.
RequestFit ==
  /\ opened \subseteq pushed
  /\ opened \subseteq Deliveries \X Nat
  /\ \A d \in Deliveries, n \in Nat : <<d, n>> \in opened => n <= started[d]
  /\ \A d \in Deliveries : at[d] = "run" => ~Trigger!HasRequest(d)
  /\ \A d \in Deliveries : Trigger!HasRequest(d) /\ at[d] \in Trigger!AfterRun =>
       result[d].status = "succeeded" /\ (result[d].clean \/ PublishOnConflict)

IssueFit == Trigger!TypeOK /\ WorkFit /\ RowFit /\ StartFit /\ BranchFit /\ RequestFit

(* Every step is one of these.                                             *)

\* A call that reports a state leaves a state that GitLab knows, or counts as a mishap.
LEMMA StatusTyped ==
  ASSUME Trigger!TypeOK, NEW d \in Deliveries,
         NEW state \in {"running", "success", "failed"}, Trigger!SyncStatus(d, state)
  PROVE  /\ verdict' \in [Issues -> [state : {"none", "running", "success", "failed"},
                                     by : Deliveries \cup {"none"}]]
         /\ mishaps' \in 0..MaxMishaps
<1> USE IssueAssumption
<1>1. IssueOf[d] \in Issues /\ [state |-> state, by |-> d] \in
        [state : {"none", "running", "success", "failed"}, by : Deliveries \cup {"none"}]
  BY DEF IssueAssumption
<1>2. CASE Trigger!Mishap /\ UNCHANGED verdict
  BY <1>2 DEF Trigger!Mishap, Trigger!TypeOK, IssueAssumption
<1>3. CASE verdict' = [verdict EXCEPT ![IssueOf[d]] = [state |-> state, by |-> d]] /\ UNCHANGED
     mishaps
  BY <1>1, <1>3 DEF Trigger!TypeOK
<1> QED
  BY <1>2, <1>3 DEF Trigger!SyncStatus

\* Every step keeps the types.
LEMMA IssueTyped ==
  ASSUME IssueFit, [Trigger!Next]_(Trigger!vars)
  PROVE  Trigger!TypeOK'
<1> USE IssueAssumption
<1> USE DEF IssueFit, IssueAssumption, Trigger!TypeOK
<1>1. CASE UNCHANGED Trigger!vars
  BY <1>1 DEF Trigger!vars, Trigger!asks, Trigger!gitlab
<1>2. ASSUME NEW d \in Deliveries, NEW r \in Trigger!Requests, Trigger!Refuse(d, r)
      PROVE  Trigger!TypeOK'
  BY <1>2 DEF Trigger!Refuse, Trigger!Receive, Trigger!gitlab
<1>3. ASSUME NEW d \in Deliveries, NEW r \in Trigger!Requests, Trigger!Deliver(d, r)
      PROVE  Trigger!TypeOK'
  <2>1. (job[d] = "absent") \in BOOLEAN /\ <<d, job[d] = "absent">> \in Deliveries \X BOOLEAN
    OBVIOUS
  <2>2. handling' \subseteq Deliveries \X BOOLEAN
    BY <1>3, <2>1 DEF Trigger!Deliver
  <2>3. job' \in [Deliveries -> {"absent", "queued", "running", "cancel_requested", "succeeded",
                                "failed", "canceled", "orphaned"}]
    BY <1>3 DEF Trigger!Deliver, Trigger!Enqueue
  <2> QED
    BY <1>3, <2>2, <2>3 DEF Trigger!Deliver, Trigger!Receive, Trigger!gitlab
<1>4. ASSUME NEW d \in Deliveries, NEW fresh \in BOOLEAN, Trigger!Respond(d, fresh)
      PROVE  Trigger!TypeOK'
  BY <1>4 DEF Trigger!Respond, Trigger!gitlab
<1>5. ASSUME NEW d \in Deliveries, Trigger!Cancel(d) PROVE Trigger!TypeOK'
  BY <1>5 DEF Trigger!Cancel, Trigger!Mishap, Trigger!asks, Trigger!gitlab
<1>6. ASSUME NEW d \in Deliveries, Trigger!Resume(d) PROVE Trigger!TypeOK'
  BY <1>6 DEF Trigger!Resume, Trigger!Mishap, Trigger!asks, Trigger!gitlab
<1>7. ASSUME NEW d \in Deliveries, Trigger!PipelineMoves(d) PROVE Trigger!TypeOK'
  BY <1>7 DEF Trigger!PipelineMoves, Trigger!asks
<1>8. ASSUME NEW d \in Deliveries, Trigger!Claim(d) PROVE Trigger!TypeOK'
  BY <1>8 DEF Trigger!Claim, Trigger!Goes, Trigger!NoSummary, Trigger!asks, Trigger!gitlab,
       Trigger!Stations
<1>9. ASSUME NEW d \in Deliveries, Trigger!Begin(d) PROVE Trigger!TypeOK'
  <2>1. Trigger!SyncStatus(d, "running")
    BY <1>9 DEF Trigger!Begin
  <2> QED
    BY <1>9, <2>1, StatusTyped DEF Trigger!Begin, Trigger!Goes, Trigger!asks, Trigger!Stations
<1>10. ASSUME NEW d \in Deliveries, Trigger!Begun(d) PROVE Trigger!TypeOK'
  BY <1>10 DEF Trigger!Begun, Trigger!Goes, Trigger!Checkpoint, Trigger!asks, Trigger!gitlab,
       Trigger!Stations
<1>11. ASSUME NEW d \in Deliveries, Trigger!Starting(d) PROVE Trigger!TypeOK'
  BY <1>11 DEF Trigger!Starting, Trigger!Goes, Trigger!Checkpoint, Trigger!asks, Trigger!gitlab,
       Trigger!Stations
<1>12. ASSUME NEW d \in Deliveries, Trigger!RunReturns(d) PROVE Trigger!TypeOK'
  BY <1>12 DEF Trigger!RunReturns, Trigger!Goes, Trigger!asks, Trigger!gitlab, Trigger!AfterRun,
       Trigger!Stations
<1>13. ASSUME NEW d \in Deliveries, Trigger!RunThrows(d) PROVE Trigger!TypeOK'
  BY <1>13 DEF Trigger!RunThrows, Trigger!Goes, Trigger!asks, Trigger!gitlab, Trigger!Stations
<1>14. ASSUME NEW d \in Deliveries, Trigger!PublishRefused(d) PROVE Trigger!TypeOK'
  BY <1>14 DEF Trigger!PublishRefused, Trigger!Goes, Trigger!Mishap, Trigger!asks,
       Trigger!gitlab, Trigger!Stations
<1>15. ASSUME NEW d \in Deliveries, Trigger!Push(d) PROVE Trigger!TypeOK'
  BY <1>15 DEF Trigger!Push, Trigger!Goes, Trigger!asks, Trigger!AfterRun, Trigger!Stations
<1>16. ASSUME NEW d \in Deliveries, Trigger!CreateMergeRequest(d) PROVE Trigger!TypeOK'
  <2>0. "returned" \in Trigger!Stations /\ "caught" \in Trigger!Stations
    BY DEF Trigger!Stations, Trigger!AfterRun
  <2>1. at' \in [Deliveries -> Trigger!Stations]
    BY <1>16, <2>0 DEF Trigger!CreateMergeRequest, Trigger!Goes
  <2>2. mishaps' \in 0..MaxMishaps
    BY <1>16 DEF Trigger!CreateMergeRequest, Trigger!Mishap
  <2> QED
    BY <1>16, <2>1, <2>2 DEF Trigger!CreateMergeRequest, Trigger!asks, Trigger!gitlab
<1>17. ASSUME NEW d \in Deliveries, Trigger!Returned(d) PROVE Trigger!TypeOK'
  BY <1>17 DEF Trigger!Returned, Trigger!Goes, Trigger!Checkpoint, Trigger!asks, Trigger!gitlab,
       Trigger!AfterRun, Trigger!Stations
<1>18. ASSUME NEW d \in Deliveries, Trigger!Waited(d) PROVE Trigger!TypeOK'
  BY <1>18 DEF Trigger!Waited, Trigger!Goes, Trigger!asks, Trigger!gitlab, Trigger!AfterRun,
       Trigger!Stations
<1>19. ASSUME NEW d \in Deliveries, Trigger!WaitedEnough(d) PROVE Trigger!TypeOK'
  BY <1>19 DEF Trigger!WaitedEnough, Trigger!Goes, Trigger!asks, Trigger!gitlab,
       Trigger!AfterRun, Trigger!Stations
<1>20. ASSUME NEW d \in Deliveries, Trigger!Judge(d) PROVE Trigger!TypeOK'
  <2>1. Trigger!StateOf(d) \in {"running", "success", "failed"}
    BY DEF Trigger!StateOf
  <2>2. at' = [at EXCEPT ![d] = "commenting"]
    BY <1>20 DEF Trigger!Judge, Trigger!Goes
  <2>3. Trigger!SyncStatus(d, Trigger!StateOf(d)) \/ Trigger!SyncStatus(d, "success")
    BY <1>20 DEF Trigger!Judge
  <2>4. at' \in [Deliveries -> Trigger!Stations]
    BY <2>2 DEF Trigger!Stations, Trigger!AfterRun
  <2> QED
    BY <1>20, <2>1, <2>3, <2>4, StatusTyped DEF Trigger!Judge, Trigger!asks
<1>21. ASSUME NEW d \in Deliveries, Trigger!Tell(d) PROVE Trigger!TypeOK'
  BY <1>21 DEF Trigger!Tell, Trigger!Goes, Trigger!Comment, Trigger!Mishap, Trigger!asks,
       Trigger!AfterRun, Trigger!Stations
<1>22. ASSUME NEW d \in Deliveries, Trigger!Finalize(d) PROVE Trigger!TypeOK'
  BY <1>22 DEF Trigger!Finalize, Trigger!Goes, Trigger!asks, Trigger!gitlab, Trigger!AfterRun,
       Trigger!Stations, Trigger!Settled
<1>23. ASSUME NEW d \in Deliveries, Trigger!Caught(d) PROVE Trigger!TypeOK'
  <2>1. Trigger!SyncStatus(d, "failed")
    BY <1>23 DEF Trigger!Caught
  <2> QED
    BY <1>23, <2>1, StatusTyped DEF Trigger!Caught, Trigger!Goes, Trigger!asks, Trigger!Stations
<1>24. ASSUME NEW d \in Deliveries, Trigger!Apologize(d) PROVE Trigger!TypeOK'
  BY <1>24 DEF Trigger!Apologize, Trigger!Goes, Trigger!Comment, Trigger!Mishap, Trigger!asks,
       Trigger!Stations
<1>25. ASSUME NEW d \in Deliveries, Trigger!Thrown(d) PROVE Trigger!TypeOK'
  BY <1>25 DEF Trigger!Thrown, Trigger!Goes, Trigger!asks, Trigger!gitlab, Trigger!Stations
<1>26. CASE Trigger!Crash
  BY <1>26 DEF Trigger!Crash, Trigger!Mishap, Trigger!gitlab, Trigger!Stations
<1> HIDE DEF IssueFit, IssueAssumption, Trigger!TypeOK
<1> QED
  BY <1>1, <1>2, <1>3, <1>4, <1>5, <1>6, <1>7, <1>8, <1>9, <1>10, <1>11, <1>12, <1>13, <1>14,
       <1>15, <1>16, <1>17, <1>18, <1>19, <1>20, <1>21, <1>22, <1>23, <1>24, <1>25, <1>26 DEF
            Trigger!Next, Trigger!Execute

\* No step leaves an executor at work on a job that is over.
LEMMA IssueWorks ==
  ASSUME IssueFit, [Trigger!Next]_(Trigger!vars)
  PROVE  WorkFit'
<1> USE IssueAssumption
<1> USE DEF IssueFit, IssueAssumption, Trigger!TypeOK, WorkFit
<1>1. CASE UNCHANGED Trigger!vars
  BY <1>1 DEF Trigger!vars
<1>2. ASSUME NEW d \in Deliveries, NEW r \in Trigger!Requests, Trigger!Refuse(d, r) PROVE WorkFit'
  BY <1>2 DEF Trigger!Refuse
<1>3. ASSUME NEW d \in Deliveries, NEW r \in Trigger!Requests, Trigger!Deliver(d, r) PROVE WorkFit'
  BY <1>3 DEF Trigger!Deliver, Trigger!Enqueue
<1>4. ASSUME NEW d \in Deliveries, NEW fresh \in BOOLEAN, Trigger!Respond(d, fresh) PROVE WorkFit'
  BY <1>4 DEF Trigger!Respond
<1>5. ASSUME NEW d \in Deliveries, Trigger!Cancel(d) PROVE WorkFit'
  BY <1>5 DEF Trigger!Cancel
<1>6. ASSUME NEW d \in Deliveries, Trigger!Resume(d) PROVE WorkFit'
  BY <1>6 DEF Trigger!Resume
<1>7. ASSUME NEW d \in Deliveries, Trigger!PipelineMoves(d) PROVE WorkFit'
  BY <1>7 DEF Trigger!PipelineMoves
<1>8. ASSUME NEW d \in Deliveries, Trigger!Claim(d) PROVE WorkFit'
  BY <1>8 DEF Trigger!Claim, Trigger!Goes
<1>9. ASSUME NEW d \in Deliveries, Trigger!Begin(d) PROVE WorkFit'
  BY <1>9 DEF Trigger!Begin, Trigger!Goes
<1>10. ASSUME NEW d \in Deliveries, Trigger!Begun(d) PROVE WorkFit'
  BY <1>10 DEF Trigger!Begun, Trigger!Goes, Trigger!Checkpoint
<1>11. ASSUME NEW d \in Deliveries, Trigger!Starting(d) PROVE WorkFit'
  BY <1>11 DEF Trigger!Starting, Trigger!Goes, Trigger!Checkpoint
<1>12. ASSUME NEW d \in Deliveries, Trigger!RunReturns(d) PROVE WorkFit'
  BY <1>12 DEF Trigger!RunReturns, Trigger!Goes
<1>13. ASSUME NEW d \in Deliveries, Trigger!RunThrows(d) PROVE WorkFit'
  BY <1>13 DEF Trigger!RunThrows, Trigger!Goes
<1>14. ASSUME NEW d \in Deliveries, Trigger!PublishRefused(d) PROVE WorkFit'
  BY <1>14 DEF Trigger!PublishRefused, Trigger!Goes
<1>15. ASSUME NEW d \in Deliveries, Trigger!Push(d) PROVE WorkFit'
  BY <1>15 DEF Trigger!Push, Trigger!Goes
<1>16. ASSUME NEW d \in Deliveries, Trigger!CreateMergeRequest(d) PROVE WorkFit'
  BY <1>16 DEF Trigger!CreateMergeRequest, Trigger!Goes
<1>17. ASSUME NEW d \in Deliveries, Trigger!Returned(d) PROVE WorkFit'
  BY <1>17 DEF Trigger!Returned, Trigger!Goes, Trigger!Checkpoint
<1>18. ASSUME NEW d \in Deliveries, Trigger!Waited(d) PROVE WorkFit'
  BY <1>18 DEF Trigger!Waited, Trigger!Goes
<1>19. ASSUME NEW d \in Deliveries, Trigger!WaitedEnough(d) PROVE WorkFit'
  BY <1>19 DEF Trigger!WaitedEnough, Trigger!Goes
<1>20. ASSUME NEW d \in Deliveries, Trigger!Judge(d) PROVE WorkFit'
  BY <1>20 DEF Trigger!Judge, Trigger!Goes
<1>21. ASSUME NEW d \in Deliveries, Trigger!Tell(d) PROVE WorkFit'
  BY <1>21 DEF Trigger!Tell, Trigger!Goes
<1>22. ASSUME NEW d \in Deliveries, Trigger!Finalize(d) PROVE WorkFit'
  BY <1>22 DEF Trigger!Finalize, Trigger!Goes
<1>23. ASSUME NEW d \in Deliveries, Trigger!Caught(d) PROVE WorkFit'
  BY <1>23 DEF Trigger!Caught, Trigger!Goes
<1>24. ASSUME NEW d \in Deliveries, Trigger!Apologize(d) PROVE WorkFit'
  BY <1>24 DEF Trigger!Apologize, Trigger!Goes
<1>25. ASSUME NEW d \in Deliveries, Trigger!Thrown(d) PROVE WorkFit'
  BY <1>25 DEF Trigger!Thrown, Trigger!Goes
<1>26. CASE Trigger!Crash
  BY <1>26 DEF Trigger!Crash
<1> HIDE DEF IssueFit, IssueAssumption, Trigger!TypeOK, WorkFit
<1> QED
  BY <1>1, <1>2, <1>3, <1>4, <1>5, <1>6, <1>7, <1>8, <1>9, <1>10, <1>11, <1>12, <1>13, <1>14,
       <1>15, <1>16, <1>17, <1>18, <1>19, <1>20, <1>21, <1>22, <1>23, <1>24, <1>25, <1>26 DEF
            Trigger!Next, Trigger!Execute

\* No row goes away.
LEMMA IssueRows ==
  ASSUME IssueFit, [Trigger!Next]_(Trigger!vars)
  PROVE  RowFit'
<1> USE IssueAssumption
<1> USE DEF IssueFit, IssueAssumption, Trigger!TypeOK, WorkFit, RowFit
<1>1. CASE UNCHANGED Trigger!vars
  BY <1>1 DEF Trigger!vars, Trigger!asks, Trigger!gitlab
<1>2. ASSUME NEW d \in Deliveries, NEW r \in Trigger!Requests, Trigger!Refuse(d, r) PROVE RowFit'
  BY <1>2 DEF Trigger!Refuse, Trigger!Receive
<1>3. ASSUME NEW d \in Deliveries, NEW r \in Trigger!Requests, Trigger!Deliver(d, r) PROVE RowFit'
  BY <1>3 DEF Trigger!Deliver, Trigger!Receive, Trigger!Enqueue, Trigger!asks, Trigger!gitlab
<1>4. ASSUME NEW d \in Deliveries, NEW fresh \in BOOLEAN, Trigger!Respond(d, fresh) PROVE RowFit'
  BY <1>4 DEF Trigger!Respond, Trigger!asks, Trigger!gitlab
<1>5. ASSUME NEW d \in Deliveries, Trigger!Cancel(d) PROVE RowFit'
  BY <1>5 DEF Trigger!Cancel, Trigger!Mishap, Trigger!asks, Trigger!gitlab
<1>6. ASSUME NEW d \in Deliveries, Trigger!Resume(d) PROVE RowFit'
  BY <1>6 DEF Trigger!Resume, Trigger!asks, Trigger!gitlab
<1>7. ASSUME NEW d \in Deliveries, Trigger!PipelineMoves(d) PROVE RowFit'
  BY <1>7 DEF Trigger!PipelineMoves, Trigger!asks
<1>8. ASSUME NEW d \in Deliveries, Trigger!Claim(d) PROVE RowFit'
  BY <1>8 DEF Trigger!Claim, Trigger!Goes, Trigger!NoSummary, Trigger!asks
<1>9. ASSUME NEW d \in Deliveries, Trigger!Begin(d) PROVE RowFit'
  BY <1>9 DEF Trigger!Begin, Trigger!asks
<1>10. ASSUME NEW d \in Deliveries, Trigger!Begun(d) PROVE RowFit'
  BY <1>10 DEF Trigger!Begun, Trigger!Goes, Trigger!Checkpoint, Trigger!asks
<1>11. ASSUME NEW d \in Deliveries, Trigger!Starting(d) PROVE RowFit'
  BY <1>11 DEF Trigger!Starting, Trigger!asks, Trigger!gitlab
<1>12. ASSUME NEW d \in Deliveries, Trigger!RunReturns(d) PROVE RowFit'
  BY <1>12 DEF Trigger!RunReturns, Trigger!Goes, Trigger!MayPublish, Trigger!asks, Trigger!gitlab
<1>13. ASSUME NEW d \in Deliveries, Trigger!RunThrows(d) PROVE RowFit'
  BY <1>13 DEF Trigger!RunThrows, Trigger!asks, Trigger!gitlab
<1>14. ASSUME NEW d \in Deliveries, Trigger!PublishRefused(d) PROVE RowFit'
  BY <1>14 DEF Trigger!PublishRefused, Trigger!Mishap, Trigger!asks, Trigger!gitlab
<1>15. ASSUME NEW d \in Deliveries, Trigger!Push(d) PROVE RowFit'
  BY <1>15 DEF Trigger!Push, Trigger!Goes, Trigger!asks, Trigger!gitlab
<1>16. ASSUME NEW d \in Deliveries, Trigger!CreateMergeRequest(d) PROVE RowFit'
  BY <1>16 DEF Trigger!CreateMergeRequest, Trigger!Goes, Trigger!asks
<1>17. ASSUME NEW d \in Deliveries, Trigger!Returned(d) PROVE RowFit'
  BY <1>17 DEF Trigger!Returned, Trigger!Goes, Trigger!Checkpoint, Trigger!asks
<1>18. ASSUME NEW d \in Deliveries, Trigger!Waited(d) PROVE RowFit'
  BY <1>18 DEF Trigger!Waited, Trigger!asks
<1>19. ASSUME NEW d \in Deliveries, Trigger!WaitedEnough(d) PROVE RowFit'
  BY <1>19 DEF Trigger!WaitedEnough, Trigger!Goes, Trigger!asks, Trigger!gitlab
<1>20. ASSUME NEW d \in Deliveries, Trigger!Judge(d) PROVE RowFit'
  BY <1>20 DEF Trigger!Judge, Trigger!asks
<1>21. ASSUME NEW d \in Deliveries, Trigger!Tell(d) PROVE RowFit'
  BY <1>21 DEF Trigger!Tell, Trigger!Comment, Trigger!asks
<1>22. ASSUME NEW d \in Deliveries, Trigger!Finalize(d) PROVE RowFit'
  <2>1. job' = job \/ job' = [job EXCEPT ![d] = "succeeded"]
    BY <1>22 DEF Trigger!Finalize
  <2>2. issueTold' = issueTold /\ handling' = handling
    BY <1>22 DEF Trigger!Finalize, Trigger!asks
  <2> QED
    BY <2>1, <2>2
<1>23. ASSUME NEW d \in Deliveries, Trigger!Caught(d) PROVE RowFit'
  BY <1>23 DEF Trigger!Caught, Trigger!asks
<1>24. ASSUME NEW d \in Deliveries, Trigger!Apologize(d) PROVE RowFit'
  BY <1>24 DEF Trigger!Apologize, Trigger!Comment, Trigger!Mishap, Trigger!asks
<1>25. ASSUME NEW d \in Deliveries, Trigger!Thrown(d) PROVE RowFit'
  BY <1>25 DEF Trigger!Thrown, Trigger!Goes, Trigger!asks, Trigger!gitlab
<1>26. CASE Trigger!Crash
  BY <1>26 DEF Trigger!Crash
<1> HIDE DEF IssueFit, IssueAssumption, Trigger!TypeOK, WorkFit, RowFit
<1> QED
  BY <1>1, <1>2, <1>3, <1>4, <1>5, <1>6, <1>7, <1>8, <1>9, <1>10, <1>11, <1>12, <1>13, <1>14,
       <1>15, <1>16, <1>17, <1>18, <1>19, <1>20, <1>21, <1>22, <1>23, <1>24, <1>25, <1>26 DEF
            Trigger!Next, Trigger!Execute

\* Each start is owed to one enqueueing or one resumption.
LEMMA IssueStarts ==
  ASSUME IssueFit, [Trigger!Next]_(Trigger!vars)
  PROVE  StartFit'
<1> USE IssueAssumption
<1> USE DEF IssueFit, IssueAssumption, Trigger!TypeOK, WorkFit, StartFit, Owed
<1>1. CASE UNCHANGED Trigger!vars
  BY <1>1 DEF Trigger!vars
<1>2. ASSUME NEW d \in Deliveries, NEW r \in Trigger!Requests, Trigger!Refuse(d, r) PROVE StartFit'
  BY <1>2 DEF Trigger!Refuse
<1>3. ASSUME NEW d \in Deliveries, NEW r \in Trigger!Requests, Trigger!Deliver(d, r) PROVE StartFit'
  BY <1>3 DEF Trigger!Deliver, Trigger!Enqueue
<1>4. ASSUME NEW d \in Deliveries, NEW fresh \in BOOLEAN, Trigger!Respond(d, fresh) PROVE StartFit'
  BY <1>4 DEF Trigger!Respond
<1>5. ASSUME NEW d \in Deliveries, Trigger!Cancel(d) PROVE StartFit'
  BY <1>5 DEF Trigger!Cancel
<1>6. ASSUME NEW d \in Deliveries, Trigger!Resume(d) PROVE StartFit'
  BY <1>6 DEF Trigger!Resume
<1>7. ASSUME NEW d \in Deliveries, Trigger!PipelineMoves(d) PROVE StartFit'
  BY <1>7 DEF Trigger!PipelineMoves
<1>8. ASSUME NEW d \in Deliveries, Trigger!Claim(d) PROVE StartFit'
  BY <1>8 DEF Trigger!Claim, Trigger!Goes
<1>9. ASSUME NEW d \in Deliveries, Trigger!Begin(d) PROVE StartFit'
  BY <1>9 DEF Trigger!Begin, Trigger!Goes
<1>10. ASSUME NEW d \in Deliveries, Trigger!Begun(d) PROVE StartFit'
  BY <1>10 DEF Trigger!Begun, Trigger!Goes, Trigger!Checkpoint
<1>11. ASSUME NEW d \in Deliveries, Trigger!Starting(d) PROVE StartFit'
  BY <1>11 DEF Trigger!Starting, Trigger!Goes, Trigger!Checkpoint
<1>12. ASSUME NEW d \in Deliveries, Trigger!RunReturns(d) PROVE StartFit'
  BY <1>12 DEF Trigger!RunReturns, Trigger!Goes
<1>13. ASSUME NEW d \in Deliveries, Trigger!RunThrows(d) PROVE StartFit'
  BY <1>13 DEF Trigger!RunThrows, Trigger!Goes
<1>14. ASSUME NEW d \in Deliveries, Trigger!PublishRefused(d) PROVE StartFit'
  BY <1>14 DEF Trigger!PublishRefused, Trigger!Goes
<1>15. ASSUME NEW d \in Deliveries, Trigger!Push(d) PROVE StartFit'
  BY <1>15 DEF Trigger!Push, Trigger!Goes
<1>16. ASSUME NEW d \in Deliveries, Trigger!CreateMergeRequest(d) PROVE StartFit'
  BY <1>16 DEF Trigger!CreateMergeRequest, Trigger!Goes
<1>17. ASSUME NEW d \in Deliveries, Trigger!Returned(d) PROVE StartFit'
  BY <1>17 DEF Trigger!Returned, Trigger!Goes, Trigger!Checkpoint
<1>18. ASSUME NEW d \in Deliveries, Trigger!Waited(d) PROVE StartFit'
  BY <1>18 DEF Trigger!Waited, Trigger!Goes
<1>19. ASSUME NEW d \in Deliveries, Trigger!WaitedEnough(d) PROVE StartFit'
  BY <1>19 DEF Trigger!WaitedEnough, Trigger!Goes
<1>20. ASSUME NEW d \in Deliveries, Trigger!Judge(d) PROVE StartFit'
  BY <1>20 DEF Trigger!Judge, Trigger!Goes
<1>21. ASSUME NEW d \in Deliveries, Trigger!Tell(d) PROVE StartFit'
  BY <1>21 DEF Trigger!Tell, Trigger!Goes
<1>22. ASSUME NEW d \in Deliveries, Trigger!Finalize(d) PROVE StartFit'
  BY <1>22 DEF Trigger!Finalize, Trigger!Goes
<1>23. ASSUME NEW d \in Deliveries, Trigger!Caught(d) PROVE StartFit'
  BY <1>23 DEF Trigger!Caught, Trigger!Goes
<1>24. ASSUME NEW d \in Deliveries, Trigger!Apologize(d) PROVE StartFit'
  BY <1>24 DEF Trigger!Apologize, Trigger!Goes
<1>25. ASSUME NEW d \in Deliveries, Trigger!Thrown(d) PROVE StartFit'
  BY <1>25 DEF Trigger!Thrown, Trigger!Goes
<1>26. CASE Trigger!Crash
  BY <1>26 DEF Trigger!Crash
<1> HIDE DEF IssueFit, IssueAssumption, Trigger!TypeOK, WorkFit, StartFit, Owed
<1> QED
  BY <1>1, <1>2, <1>3, <1>4, <1>5, <1>6, <1>7, <1>8, <1>9, <1>10, <1>11, <1>12, <1>13, <1>14,
       <1>15, <1>16, <1>17, <1>18, <1>19, <1>20, <1>21, <1>22, <1>23, <1>24, <1>25, <1>26 DEF
            Trigger!Next, Trigger!Execute

\* Only what may be published reaches GitLab.
LEMMA IssueBranches ==
  ASSUME IssueFit, [Trigger!Next]_(Trigger!vars)
  PROVE  BranchFit'
<1> USE IssueAssumption
<1> USE DEF IssueFit, IssueAssumption, Trigger!TypeOK, BranchFit, Trigger!MayPublish
<1>1. CASE UNCHANGED Trigger!vars
  BY <1>1 DEF Trigger!vars, Trigger!gitlab
<1>2. ASSUME NEW d \in Deliveries, NEW r \in Trigger!Requests, Trigger!Refuse(d, r) PROVE BranchFit'
  BY <1>2 DEF Trigger!Refuse, Trigger!gitlab
<1>3. ASSUME NEW d \in Deliveries, NEW r \in Trigger!Requests, Trigger!Deliver(d, r)
      PROVE  BranchFit'
  BY <1>3 DEF Trigger!Deliver, Trigger!gitlab
<1>4. ASSUME NEW d \in Deliveries, NEW fresh \in BOOLEAN, Trigger!Respond(d, fresh) PROVE BranchFit'
  BY <1>4 DEF Trigger!Respond, Trigger!gitlab
<1>5. ASSUME NEW d \in Deliveries, Trigger!Cancel(d) PROVE BranchFit'
  BY <1>5 DEF Trigger!Cancel, Trigger!gitlab
<1>6. ASSUME NEW d \in Deliveries, Trigger!Resume(d) PROVE BranchFit'
  BY <1>6 DEF Trigger!Resume, Trigger!gitlab
<1>7. ASSUME NEW d \in Deliveries, Trigger!PipelineMoves(d) PROVE BranchFit'
  BY <1>7 DEF Trigger!PipelineMoves
<1>8. ASSUME NEW d \in Deliveries, Trigger!Claim(d) PROVE BranchFit'
  BY <1>8 DEF Trigger!Claim, Trigger!Goes, Trigger!gitlab
<1>9. ASSUME NEW d \in Deliveries, Trigger!Begin(d) PROVE BranchFit'
  BY <1>9 DEF Trigger!Begin, Trigger!Goes
<1>10. ASSUME NEW d \in Deliveries, Trigger!Begun(d) PROVE BranchFit'
  BY <1>10 DEF Trigger!Begun, Trigger!Goes, Trigger!Checkpoint, Trigger!gitlab
<1>11. ASSUME NEW d \in Deliveries, Trigger!Starting(d) PROVE BranchFit'
  BY <1>11 DEF Trigger!Starting, Trigger!Goes, Trigger!Checkpoint, Trigger!gitlab
<1>12. ASSUME NEW d \in Deliveries, Trigger!RunReturns(d) PROVE BranchFit'
  BY <1>12 DEF Trigger!RunReturns, Trigger!Goes, Trigger!gitlab
<1>13. ASSUME NEW d \in Deliveries, Trigger!RunThrows(d) PROVE BranchFit'
  BY <1>13 DEF Trigger!RunThrows, Trigger!Goes, Trigger!gitlab
<1>14. ASSUME NEW d \in Deliveries, Trigger!PublishRefused(d) PROVE BranchFit'
  BY <1>14 DEF Trigger!PublishRefused, Trigger!Goes, Trigger!gitlab
<1>15. ASSUME NEW d \in Deliveries, Trigger!Push(d) PROVE BranchFit'
  BY <1>15 DEF Trigger!Push, Trigger!Goes
<1>16. ASSUME NEW d \in Deliveries, Trigger!CreateMergeRequest(d) PROVE BranchFit'
  BY <1>16 DEF Trigger!CreateMergeRequest, Trigger!Goes, Trigger!gitlab
<1>17. ASSUME NEW d \in Deliveries, Trigger!Returned(d) PROVE BranchFit'
  BY <1>17 DEF Trigger!Returned, Trigger!Goes, Trigger!Checkpoint, Trigger!gitlab
<1>18. ASSUME NEW d \in Deliveries, Trigger!Waited(d) PROVE BranchFit'
  BY <1>18 DEF Trigger!Waited, Trigger!Goes, Trigger!gitlab
<1>19. ASSUME NEW d \in Deliveries, Trigger!WaitedEnough(d) PROVE BranchFit'
  BY <1>19 DEF Trigger!WaitedEnough, Trigger!Goes, Trigger!gitlab
<1>20. ASSUME NEW d \in Deliveries, Trigger!Judge(d) PROVE BranchFit'
  BY <1>20 DEF Trigger!Judge, Trigger!Goes
<1>21. ASSUME NEW d \in Deliveries, Trigger!Tell(d) PROVE BranchFit'
  BY <1>21 DEF Trigger!Tell, Trigger!Goes
<1>22. ASSUME NEW d \in Deliveries, Trigger!Finalize(d) PROVE BranchFit'
  BY <1>22 DEF Trigger!Finalize, Trigger!Goes, Trigger!gitlab
<1>23. ASSUME NEW d \in Deliveries, Trigger!Caught(d) PROVE BranchFit'
  BY <1>23 DEF Trigger!Caught, Trigger!Goes
<1>24. ASSUME NEW d \in Deliveries, Trigger!Apologize(d) PROVE BranchFit'
  BY <1>24 DEF Trigger!Apologize, Trigger!Goes
<1>25. ASSUME NEW d \in Deliveries, Trigger!Thrown(d) PROVE BranchFit'
  BY <1>25 DEF Trigger!Thrown, Trigger!Goes, Trigger!gitlab
<1>26. CASE Trigger!Crash
  BY <1>26 DEF Trigger!Crash
<1> HIDE DEF IssueFit, IssueAssumption, Trigger!TypeOK, BranchFit, Trigger!MayPublish
<1> QED
  BY <1>1, <1>2, <1>3, <1>4, <1>5, <1>6, <1>7, <1>8, <1>9, <1>10, <1>11, <1>12, <1>13, <1>14,
       <1>15, <1>16, <1>17, <1>18, <1>19, <1>20, <1>21, <1>22, <1>23, <1>24, <1>25, <1>26 DEF
            Trigger!Next, Trigger!Execute

\* Merge requests keep to attempts that were started and passed.
LEMMA IssueRequests ==
  ASSUME IssueFit, [Trigger!Next]_(Trigger!vars)
  PROVE  RequestFit'
<1> USE IssueAssumption
<1> USE DEF IssueFit, IssueAssumption, Trigger!TypeOK, StartFit, BranchFit, RequestFit,
     Trigger!MayPublish
<1>1. CASE UNCHANGED Trigger!vars
  BY <1>1 DEF Trigger!vars, Trigger!gitlab, Trigger!HasRequest
<1>2. ASSUME NEW d \in Deliveries, NEW r \in Trigger!Requests, Trigger!Refuse(d, r)
      PROVE  RequestFit'
  BY <1>2 DEF Trigger!Refuse, Trigger!gitlab, Trigger!HasRequest
<1>3. ASSUME NEW d \in Deliveries, NEW r \in Trigger!Requests, Trigger!Deliver(d, r)
      PROVE  RequestFit'
  BY <1>3 DEF Trigger!Deliver, Trigger!gitlab, Trigger!HasRequest
<1>4. ASSUME NEW d \in Deliveries, NEW fresh \in BOOLEAN, Trigger!Respond(d, fresh)
      PROVE  RequestFit'
  BY <1>4 DEF Trigger!Respond, Trigger!gitlab, Trigger!HasRequest
<1>5. ASSUME NEW d \in Deliveries, Trigger!Cancel(d) PROVE RequestFit'
  BY <1>5 DEF Trigger!Cancel, Trigger!gitlab, Trigger!HasRequest
<1>6. ASSUME NEW d \in Deliveries, Trigger!Resume(d) PROVE RequestFit'
  BY <1>6 DEF Trigger!Resume, Trigger!gitlab, Trigger!HasRequest
<1>7. ASSUME NEW d \in Deliveries, Trigger!PipelineMoves(d) PROVE RequestFit'
  BY <1>7 DEF Trigger!PipelineMoves, Trigger!HasRequest
<1>8. ASSUME NEW d \in Deliveries, Trigger!Claim(d) PROVE RequestFit'
  BY <1>8 DEF Trigger!Claim, Trigger!Goes, Trigger!gitlab, Trigger!HasRequest, Trigger!AfterRun
<1>9. ASSUME NEW d \in Deliveries, Trigger!Begin(d) PROVE RequestFit'
  BY <1>9 DEF Trigger!Begin, Trigger!Goes, Trigger!HasRequest, Trigger!AfterRun
<1>10. ASSUME NEW d \in Deliveries, Trigger!Begun(d) PROVE RequestFit'
  BY <1>10 DEF Trigger!Begun, Trigger!Goes, Trigger!Checkpoint, Trigger!gitlab,
       Trigger!HasRequest, Trigger!AfterRun
<1>11. ASSUME NEW d \in Deliveries, Trigger!Starting(d) PROVE RequestFit'
  BY <1>11 DEF Trigger!Starting, Trigger!Goes, Trigger!Checkpoint, Trigger!gitlab,
       Trigger!HasRequest, Trigger!AfterRun
<1>12. ASSUME NEW d \in Deliveries, Trigger!RunReturns(d) PROVE RequestFit'
  BY <1>12 DEF Trigger!RunReturns, Trigger!Goes, Trigger!gitlab, Trigger!HasRequest
<1>13. ASSUME NEW d \in Deliveries, Trigger!RunThrows(d) PROVE RequestFit'
  BY <1>13 DEF Trigger!RunThrows, Trigger!Goes, Trigger!gitlab, Trigger!HasRequest
<1>14. ASSUME NEW d \in Deliveries, Trigger!PublishRefused(d) PROVE RequestFit'
  BY <1>14 DEF Trigger!PublishRefused, Trigger!Goes, Trigger!gitlab, Trigger!HasRequest
<1>15. ASSUME NEW d \in Deliveries, Trigger!Push(d) PROVE RequestFit'
  BY <1>15 DEF Trigger!Push, Trigger!Goes, Trigger!HasRequest
<1>16. ASSUME NEW d \in Deliveries, Trigger!CreateMergeRequest(d) PROVE RequestFit'
  <2>1. CASE /\ Trigger!Goes(d, "pushed", "returned") /\ opened' = opened \cup {<<d, started[d]>>}
             /\ UNCHANGED <<result, started, pushed>>
    <3>1. <<d, started[d]>> \in pushed /\ Trigger!MayPublish(result[d])
      BY <2>1 DEF Trigger!Goes
    <3>2. \A e \in Deliveries \ {d} : Trigger!HasRequest(e)' = Trigger!HasRequest(e) /\ at'[e] = at[e]
      BY <2>1 DEF Trigger!Goes, Trigger!HasRequest
    <3> QED
      BY <2>1, <3>1, <3>2 DEF Trigger!Goes
  <2>2. CASE Trigger!Goes(d, "pushed", "caught") /\ UNCHANGED <<result, started, Trigger!gitlab>>
    BY <2>2 DEF Trigger!Goes, Trigger!gitlab, Trigger!HasRequest
  <2> QED
    BY <1>16, <2>1, <2>2 DEF Trigger!CreateMergeRequest
<1>17. ASSUME NEW d \in Deliveries, Trigger!Returned(d) PROVE RequestFit'
  BY <1>17 DEF Trigger!Returned, Trigger!Goes, Trigger!Checkpoint, Trigger!gitlab,
       Trigger!HasRequest, Trigger!AfterRun
<1>18. ASSUME NEW d \in Deliveries, Trigger!Waited(d) PROVE RequestFit'
  BY <1>18 DEF Trigger!Waited, Trigger!Goes, Trigger!gitlab, Trigger!HasRequest, Trigger!AfterRun
<1>19. ASSUME NEW d \in Deliveries, Trigger!WaitedEnough(d) PROVE RequestFit'
  BY <1>19 DEF Trigger!WaitedEnough, Trigger!Goes, Trigger!gitlab, Trigger!HasRequest,
       Trigger!AfterRun
<1>20. ASSUME NEW d \in Deliveries, Trigger!Judge(d) PROVE RequestFit'
  BY <1>20 DEF Trigger!Judge, Trigger!Goes, Trigger!HasRequest, Trigger!AfterRun
<1>21. ASSUME NEW d \in Deliveries, Trigger!Tell(d) PROVE RequestFit'
  BY <1>21 DEF Trigger!Tell, Trigger!Goes, Trigger!HasRequest, Trigger!AfterRun
<1>22. ASSUME NEW d \in Deliveries, Trigger!Finalize(d) PROVE RequestFit'
  BY <1>22 DEF Trigger!Finalize, Trigger!Goes, Trigger!gitlab, Trigger!HasRequest, Trigger!AfterRun
<1>23. ASSUME NEW d \in Deliveries, Trigger!Caught(d) PROVE RequestFit'
  BY <1>23 DEF Trigger!Caught, Trigger!Goes, Trigger!HasRequest, Trigger!AfterRun
<1>24. ASSUME NEW d \in Deliveries, Trigger!Apologize(d) PROVE RequestFit'
  BY <1>24 DEF Trigger!Apologize, Trigger!Goes, Trigger!HasRequest, Trigger!AfterRun
<1>25. ASSUME NEW d \in Deliveries, Trigger!Thrown(d) PROVE RequestFit'
  BY <1>25 DEF Trigger!Thrown, Trigger!Goes, Trigger!gitlab, Trigger!HasRequest, Trigger!AfterRun
<1>26. CASE Trigger!Crash
  BY <1>26 DEF Trigger!Crash, Trigger!gitlab, Trigger!AfterRun
<1> HIDE DEF IssueFit, IssueAssumption, Trigger!TypeOK, StartFit, BranchFit, RequestFit,
     Trigger!MayPublish
<1> QED
  BY <1>1, <1>2, <1>3, <1>4, <1>5, <1>6, <1>7, <1>8, <1>9, <1>10, <1>11, <1>12, <1>13, <1>14,
       <1>15, <1>16, <1>17, <1>18, <1>19, <1>20, <1>21, <1>22, <1>23, <1>24, <1>25, <1>26 DEF
            Trigger!Next, Trigger!Execute

\* The parts of the invariant hold together.
LEMMA IssueGoes == ASSUME IssueFit, [Trigger!Next]_(Trigger!vars) PROVE IssueFit'
BY IssueAssumption, IssueTyped, IssueWorks, IssueRows, IssueStarts, IssueBranches, IssueRequests
     DEF IssueFit

LEMMA IssueBegins == ASSUME Trigger!Init PROVE IssueFit
<1> USE IssueAssumption
<1>1. Trigger!TypeOK
  BY DEF Trigger!Init, Trigger!TypeOK, IssueAssumption, Trigger!Stations, Trigger!AfterRun,
       Trigger!NoSummary
<1>2. WorkFit /\ RowFit /\ StartFit
  BY DEF Trigger!Init, WorkFit, RowFit, StartFit, Owed
<1>3. BranchFit /\ RequestFit
  BY DEF Trigger!Init, BranchFit, RequestFit, Trigger!HasRequest, Trigger!AfterRun
<1> QED
  BY <1>1, <1>2, <1>3 DEF IssueFit

-----------------------------------------------------------------------------
\* Every reachable state is well typed.
THEOREM IssueTypeCorrect == Trigger!Spec => []Trigger!TypeOK
<1>1. IssueFit => Trigger!TypeOK
  BY DEF IssueFit
<1> QED
  BY <1>1, IssueBegins, IssueGoes, PTL DEF Trigger!Spec

\* A delivery that was answered is in the queue, and is run at most once and once more for
\* each forced resumption (webhook-server.js, issue-trigger.js).
THEOREM RunOnce == Trigger!Spec => []Trigger!RunOncePerDelivery
<1>1. IssueFit => Trigger!RunOncePerDelivery
  BY DEF IssueFit, RowFit, StartFit, Trigger!RunOncePerDelivery
<1> QED
  BY <1>1, IssueBegins, IssueGoes, PTL DEF Trigger!Spec

\* What is opened on GitLab was pushed first, for a run that succeeded and merged cleanly or was
\* wanted in spite of a conflict (issue-trigger.js, publisher.js).
THEOREM Reviewed == Trigger!Spec => []Trigger!PublishedIsReviewed
<1>1. IssueFit => Trigger!PublishedIsReviewed
  BY DEF IssueFit, RequestFit, Trigger!PublishedIsReviewed
<1> QED
  BY <1>1, IssueBegins, IssueGoes, PTL DEF Trigger!Spec

\* The two together: what a delivery may cost and what it may publish.
THEOREM DeliveriesKept == Trigger!Spec => []Trigger!DeliveriesHold
<1>1. Trigger!RunOncePerDelivery /\ Trigger!PublishedIsReviewed => Trigger!DeliveriesHold
  BY DEF Trigger!DeliveriesHold
<1> QED
  BY <1>1, RunOnce, Reviewed, PTL

\* The issues take their own steps in the composition: a delivery is run once, however often
\* GitLab sends it and whatever fails, and what is pushed has passed its review.
THEOREM DeliveriesAlwaysHold == RunsSpec => []DeliveriesHold
<1>1. RunsInit => Trigger!Init
  BY DEF RunsInit
<1>2. [RunsNext]_runsVars => [Trigger!Next]_(Trigger!vars)
  BY DEF RunsNext, ProjectStep, ContendingStep, TriggerStep, InvocationsStep, KindsStep, SpansStep,
     runsVars, issueVars, Trigger!vars, Trigger!asks, Trigger!gitlab
<1>3. IssueFit => DeliveriesHold
  BY DEF IssueFit, RowFit, StartFit, RequestFit, DeliveriesHold, Trigger!DeliveriesHold,
     Trigger!RunOncePerDelivery, Trigger!PublishedIsReviewed
<1> QED
  BY <1>1, <1>2, <1>3, IssueBegins, IssueGoes, PTL DEF RunsSpec
================================================================================
