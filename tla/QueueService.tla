---------------------------- MODULE QueueService -----------------------------
(***************************************************************************)
(* The queue in use: worker loops (WorkflowQueueWorker.#loop and #run),    *)
(* operators that cancel and resume from other processes (CLI, terminal,   *)
(* page), the webhook receiver that enqueues, and the passing of time.     *)
(* Every SQL statement is a step; between a worker's or an operator's read *)
(* and the write that follows it, any other process may step.              *)
(***************************************************************************)
EXTENDS WorkflowQueue

CONSTANTS
  Operators,    \* processes that call requestCancel and resume
  Mortal,       \* workers whose process may die
  NoJob

ASSUME ServiceAssumption == Mortal \subseteq Workers /\ NoJob \notin Jobs

VARIABLES
  pc,           \* pc[w]: where worker w is in #loop and #run
  job,          \* job[w]: activeJobId
  aborted,      \* aborted[w]: activeController.signal.aborted
  safe,         \* safe[w]: safeToRetry of the error that #run caught
  stopping,     \* stopping[w]
  opc,          \* opc[o]: "idle", or the write operator o is about to issue
  target,       \* target[o]: the job that o has read
  seen,         \* seen[o]: the status o has read
  forced,       \* history: orphaned jobs an operator resumed with --force
  stale,        \* history: jobs an operator wrote after its read went out of date
  touched       \* history: jobs whose executor passed its side-effect checkpoint

workerVars   == <<pc, job, aborted, safe, stopping>>
operatorVars == <<opc, target, seen, forced, stale>>
vars         == <<queueVars, workerVars, operatorVars, touched>>

WorkerPc == {"idle", "executing", "working", "returned", "complete", "cancel",
             "caught", "settleCancel", "abandon", "fail", "gone"}

TypeOK ==
  /\ QueueTypeOK
  /\ pc \in [Workers -> WorkerPc]
  /\ job \in [Workers -> Jobs \cup {NoJob}]
  /\ \A w \in Workers : pc[w] \notin {"idle", "gone"} => job[w] \in Jobs
  /\ aborted \in [Workers -> BOOLEAN]
  /\ safe \in [Workers -> BOOLEAN]
  /\ stopping \in [Workers -> BOOLEAN]
  /\ opc \in [Operators -> {"idle", "cancel", "resume"}]
  /\ target \in [Operators -> Jobs \cup {NoJob}]
  /\ seen \in [Operators -> {"absent"} \cup Claimable \cup Active \cup Terminal]
  /\ \A o \in Operators : opc[o] # "idle" => target[o] \in Jobs
  /\ forced \subseteq Jobs
  /\ stale \subseteq Jobs
  /\ touched \subseteq Jobs

Init ==
  /\ QueueInit
  /\ pc = [w \in Workers |-> "idle"]
  /\ job = [w \in Workers |-> NoJob]
  /\ aborted = [w \in Workers |-> FALSE]
  /\ safe = [w \in Workers |-> FALSE]
  /\ stopping = [w \in Workers |-> FALSE]
  /\ opc = [o \in Operators |-> "idle"]
  /\ target = [o \in Operators |-> NoJob]
  /\ seen = [o \in Operators |-> "absent"]
  /\ forced = {}
  /\ stale = {}
  /\ touched = {}

Engaged(w) == pc[w] \in {"executing", "working"}

-----------------------------------------------------------------------------
(* Worker loop.                                                            *)

Goto(w, label) == pc' = [pc EXCEPT ![w] = label]

\* The end of #run: back to the loop, which ends when the worker is stopping.
Rest(w) ==
  /\ Goto(w, IF stopping[w] THEN "gone" ELSE "idle")
  /\ job' = [job EXCEPT ![w] = NoJob]
  /\ aborted' = [aborted EXCEPT ![w] = FALSE]
  /\ safe' = [safe EXCEPT ![w] = FALSE]
  /\ UNCHANGED stopping

\* A throw inside #run's try block: the error carries safeToRetry or it does not.
Throw(w, safeToRetry) ==
  /\ Goto(w, "caught")
  /\ safe' = [safe EXCEPT ![w] = safeToRetry]
  /\ UNCHANGED <<job, aborted, stopping>>

ClaimJob(w) ==
  /\ pc[w] = "idle" /\ ~stopping[w]
  /\ \E j \in Jobs : Claim(w, j) /\ job' = [job EXCEPT ![w] = j]
  /\ Goto(w, "executing")
  /\ UNCHANGED <<aborted, safe, stopping, operatorVars, touched>>

Poll(w) ==
  /\ pc[w] = "idle" /\ ~stopping[w]
  /\ ClaimNothing
  /\ UNCHANGED <<workerVars, operatorVars, touched>>

\* The interval timer. Not renewed, or the statement failed: abort the execution.
Beat(w) ==
  /\ Engaged(w)
  /\ \/ Heartbeat(w, job[w]) /\ UNCHANGED aborted
     \/ aborted' = [aborted EXCEPT ![w] = TRUE] /\ UNCHANGED queueVars
  /\ UNCHANGED <<pc, job, safe, stopping, operatorVars, touched>>

\* The executor records its phase. The checkpoint before the run announces side
\* effects, the ones before and after it do not mention them. A worker that no
\* longer owns the row gets an error instead.
Advance(w) ==
  /\ Engaged(w)
  /\ \/ /\ pc[w] = "executing" /\ Checkpoint(w, job[w], TRUE)
        /\ Goto(w, "working")
        /\ touched' = touched \cup {job[w]}
        /\ UNCHANGED <<job, aborted, safe, stopping>>
     \/ /\ Checkpoint(w, job[w], FALSE)
        /\ UNCHANGED <<workerVars, touched>>
     \/ /\ ~Owns(w, job[w])
        /\ Throw(w, FALSE)
        /\ UNCHANGED <<queueVars, touched>>
  /\ UNCHANGED operatorVars

ExecutionReturns(w) ==
  /\ pc[w] = "working"
  /\ Goto(w, "returned")
  /\ UNCHANGED <<queueVars, job, aborted, safe, stopping, operatorVars, touched>>

ExecutionThrows(w) ==
  /\ Engaged(w)
  /\ \E safeToRetry \in BOOLEAN : Throw(w, safeToRetry)
  /\ UNCHANGED <<queueVars, operatorVars, touched>>

\* const current = this.queue.get(job.id) after a normal return.
ReadAfterReturn(w) ==
  /\ pc[w] = "returned"
  /\ Goto(w, IF row[job[w]].status = "cancel_requested" THEN "cancel" ELSE "complete")
  /\ UNCHANGED <<queueVars, job, aborted, safe, stopping, operatorVars, touched>>

\* complete and markCanceled throw lease_lost when their UPDATE changes no row.
CompleteJob(w) ==
  /\ pc[w] = "complete"
  /\ \/ Complete(w, job[w]) /\ Rest(w)
     \/ ~Owns(w, job[w]) /\ Throw(w, FALSE) /\ UNCHANGED queueVars
  /\ UNCHANGED <<operatorVars, touched>>

CancelReturned(w) ==
  /\ pc[w] = "cancel"
  /\ \/ MarkCanceled(w, job[w]) /\ Rest(w)
     \/ /\ ~(row[job[w]].status = "cancel_requested" /\ row[job[w]].owner = w)
        /\ Throw(w, FALSE) /\ UNCHANGED queueVars
  /\ UNCHANGED <<operatorVars, touched>>

\* const current = this.queue.get(job.id) in the catch block, and its three branches.
ReadAfterThrow(w) ==
  /\ pc[w] = "caught"
  /\ Goto(w, IF row[job[w]].status = "cancel_requested" THEN "settleCancel"
             ELSE IF stopping[w] \/ aborted[w] THEN "abandon" ELSE "fail")
  /\ UNCHANGED <<queueVars, job, aborted, safe, stopping, operatorVars, touched>>

\* In the catch block an UPDATE that changes no row is reported and forgotten.
SettleCanceled(w) ==
  /\ pc[w] = "settleCancel"
  /\ \/ MarkCanceled(w, job[w])
     \/ /\ ~(row[job[w]].status = "cancel_requested" /\ row[job[w]].owner = w)
        /\ UNCHANGED queueVars
  /\ Rest(w)
  /\ UNCHANGED <<operatorVars, touched>>

AbandonJob(w) ==
  /\ pc[w] = "abandon"
  /\ \/ Abandon(w, job[w])
     \/ ~(row[job[w]].status \in Active /\ row[job[w]].owner = w) /\ UNCHANGED queueVars
  /\ Rest(w)
  /\ UNCHANGED <<operatorVars, touched>>

FailJob(w) ==
  /\ pc[w] = "fail"
  /\ \/ Fail(w, job[w], safe[w])
     \/ ~Owns(w, job[w]) /\ UNCHANGED queueVars
  /\ Rest(w)
  /\ UNCHANGED <<operatorVars, touched>>

SlipForgetsJob(w) ==
  /\ w \in Mortal /\ (Engaged(w) \/ pc[w] = "idle") /\ ~stopping[w]
  /\ stopping' = [stopping EXCEPT ![w] = TRUE]
  /\ aborted' = [aborted EXCEPT ![w] = job[w] # NoJob]
  /\ job' = [job EXCEPT ![w] = NoJob]
  /\ Goto(w, IF pc[w] = "idle" THEN "gone" ELSE pc[w])
  /\ UNCHANGED <<queueVars, safe, operatorVars, touched>>

\* stop(): no further claim, and whatever is executing is aborted. The worker's
\* own process calls it, so never within the synchronous code after an execution.
Stop(w) ==
  /\ w \in Mortal /\ (Engaged(w) \/ pc[w] = "idle") /\ ~stopping[w]
  /\ stopping' = [stopping EXCEPT ![w] = TRUE]
  /\ aborted' = [aborted EXCEPT ![w] = job[w] # NoJob]
  /\ Goto(w, IF pc[w] = "idle" THEN "gone" ELSE pc[w])
  /\ UNCHANGED <<queueVars, job, safe, operatorVars, touched>>

\* The process dies. A restarted service polls under a new worker id.
Crash(w) ==
  /\ w \in Mortal /\ pc[w] # "gone"
  /\ Goto(w, "gone")
  /\ job' = [job EXCEPT ![w] = NoJob]
  /\ UNCHANGED <<queueVars, aborted, safe, stopping, operatorVars, touched>>

-----------------------------------------------------------------------------
(* Operators: each call reads the row, decides, and writes.                *)

Read(o, j, write) ==
  /\ opc[o] = "idle"
  /\ opc' = [opc EXCEPT ![o] = write]
  /\ target' = [target EXCEPT ![o] = j]
  /\ seen' = [seen EXCEPT ![o] = row[j].status]
  /\ UNCHANGED <<queueVars, workerVars, forced, stale, touched>>

ReadToCancel(o, j) == row[j].status \in Cancelable /\ Read(o, j, "cancel")

\* An orphaned job is only read for resumption with --force.
ReadToResume(o, j) == row[j].status \in Resumable /\ Read(o, j, "resume")

\* What was read no longer describes the row that is written.
CancelOutdated(o, j) == (seen[o] \in Active) # (row[j].status \in Active)

ResumeOutdated(o, j) == \/ row[j].status \notin Resumable
                        \/ row[j].status = "orphaned" /\ seen[o] # "orphaned"

Written(o) == /\ opc' = [opc EXCEPT ![o] = "idle"]
              /\ target' = [target EXCEPT ![o] = NoJob]
              /\ seen' = [seen EXCEPT ![o] = "absent"]
              /\ UNCHANGED workerVars

CancelJob(o) ==
  LET j == target[o] IN
  /\ opc[o] = "cancel"
  /\ \/ /\ CancelWrite(j, seen[o] \in Active)
        /\ stale' = IF CancelOutdated(o, j) THEN stale \cup {j} ELSE stale
     \/ row[j].status \notin Cancelable /\ UNCHANGED <<queueVars, stale>>
  /\ Written(o)
  /\ UNCHANGED <<forced, touched>>

ResumeJob(o) ==
  LET j == target[o] IN
  /\ opc[o] = "resume"
  /\ ResumeWrite(j)
  /\ stale' = IF ResumeOutdated(o, j) THEN stale \cup {j} ELSE stale
  /\ forced' = IF seen[o] = "orphaned" THEN forced \cup {j} ELSE forced
  /\ touched' = touched \ {j}
  /\ Written(o)

-----------------------------------------------------------------------------

WorkerStep(w) ==
  \/ ClaimJob(w) \/ Poll(w) \/ Advance(w) \/ ExecutionReturns(w) \/ ExecutionThrows(w)
  \/ ReadAfterReturn(w) \/ CompleteJob(w) \/ CancelReturned(w) \/ ReadAfterThrow(w)
  \/ SettleCanceled(w) \/ AbandonJob(w) \/ FailJob(w) \/ Beat(w) \/ Stop(w) \/ Crash(w)

OperatorStep(o) ==
  \/ \E j \in Jobs : ReadToCancel(o, j) \/ ReadToResume(o, j)
  \/ CancelJob(o) \/ ResumeJob(o)

Outside(j) == /\ Enqueue(j) \/ BecomeDue(j) \/ Lapse(j)
              /\ UNCHANGED <<workerVars, operatorVars, touched>>

Next == \/ \E w \in Workers : WorkerStep(w)
        \/ \E o \in Operators : OperatorStep(o)
        \/ \E j \in Jobs : Outside(j)

Spec == Init /\ [][Next]_vars

(***************************************************************************)
(* Fairness. A living worker's loop keeps turning: it polls every          *)
(* pollIntervalMs, an execution ends (every workflow step has a timeout),  *)
(* and what follows is synchronous code. Time passes: a retry delay ends,  *)
(* and a lease nobody can renew expires. Nothing is assumed of operators,  *)
(* of the receiver, or that a worker's heartbeat ever comes late.          *)
(***************************************************************************)
Unrenewed(j) == Lapse(j) /\ ~(\E w \in Workers : Engaged(w) /\ job[w] = j /\ Owns(w, j))
                         /\ UNCHANGED <<workerVars, operatorVars, touched>>

Due(j) == BecomeDue(j) /\ UNCHANGED <<workerVars, operatorVars, touched>>

Settles(w) == \/ ReadAfterReturn(w) \/ CompleteJob(w) \/ CancelReturned(w) \/ ReadAfterThrow(w)
              \/ SettleCanceled(w) \/ AbandonJob(w) \/ FailJob(w)

Fairness ==
  /\ \A w \in Workers : /\ WF_vars(ClaimJob(w) \/ Poll(w))
                        /\ WF_vars(ExecutionReturns(w) \/ ExecutionThrows(w))
                        /\ WF_vars(Settles(w))
  /\ \A j \in Jobs : WF_vars(Unrenewed(j)) /\ WF_vars(Due(j))

FairSpec == Spec /\ Fairness
-----------------------------------------------------------------------------
(* Safety.                                                                 *)

\* A row's lease belongs to the states that have one: a job that is running
\* has an owner, a job that can be claimed or has ended has none, and a
\* cancellation in progress has the owner that will carry it out - unless an
\* operator wrote the row after its read went out of date.
LeaseOwnership ==
  \A j \in Jobs :
    /\ row[j].status = "running" => row[j].owner # NoOwner
    /\ row[j].status \notin Active \cup {"canceled"} => row[j].owner = NoOwner
    /\ j \notin stale => /\ row[j].status = "cancel_requested" => row[j].owner # NoOwner
                         /\ row[j].status = "canceled" => row[j].owner = NoOwner

\* Two workers execute one job at the same time only after an operator forced
\* the replay of an orphaned job, or wrote on an outdated read: claims, leases,
\* recovery, retries, cancellation and crashes alone never do it.
SoleExecution ==
  \A v, w \in DOMAIN pc :
    Engaged(v) /\ Engaged(w) /\ job[v] = job[w] /\ v # w => job[v] \in forced \cup stale

\* No job is tried more often than maxAttempts between two resumptions, in
\* whatever order workers, operators and the clock act.
AttemptsBounded == \A j \in Jobs : row[j].attempts <= MaxAttempts

\* What docs/workflow-queue.md tells an operator to inspect before forcing a
\* replay is true: a job whose executor got past its side-effect checkpoint
\* says so in its row, including after a crash or a lapsed lease.
CheckpointTruthful ==
  \A j \in touched \ (forced \cup stale) : row[j].effects

\* An orphaned job - its side effects are unknown - is replayed only because an
\* operator forced it; recovery, retry and an unforced resume never do.
NoSilentReplay ==
  [][\A j \in Jobs : row[j].status = "orphaned" /\ row'[j].status # "orphaned"
                       => j \in forced' \cup stale']_vars

\* Once a cancellation is recorded the job ends canceled or orphaned: the worker
\* that finishes a moment later cannot turn it into a success, failure or retry.
CancelHonoured ==
  [][\A j \in Jobs : row[j].status = "cancel_requested" /\ j \notin stale'
                       => row'[j].status \in {"cancel_requested", "canceled", "orphaned"}]_vars

(* Liveness: what must not last, under FairSpec and some worker that lives. *)

\* A claimable job, however often others are resumed.
PassedOver(j) == row[j].status \in Claimable

\* A requested cancellation, also when its worker has died.
CancelPending(j) == row[j].status = "cancel_requested" /\ j \notin stale

\* A job that stays running though its worker died running it.
CrashUnnoticed(j) ==
  \E w \in Mortal : row[j].status = "running" /\ row[j].owner = w /\ pc[w] = "gone"

(* What the documentation says without the qualification above.             *)

\* queue-worker.js: "Claims are atomic in the queue, so workers never take the
\* same job." Even when nobody has forced a replay.
WorkersNeverShare ==
  \A v, w \in Workers :
    Engaged(v) /\ Engaged(w) /\ job[v] = job[w] /\ v # w => job[v] \in forced
=============================================================================
