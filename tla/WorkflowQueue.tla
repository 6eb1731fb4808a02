---------------------------- MODULE WorkflowQueue ----------------------------
(***************************************************************************)
(* The durable workflow queue: the table workflow_jobs, and one operator   *)
(* per SQL statement (or BEGIN IMMEDIATE transaction) that changes it.     *)
(* A statement is atomic; what a caller reads before it is not, so the     *)
(* reads live in the modules that use this one.                            *)
(*                                                                         *)
(* A job is identified with its delivery: delivery_id is UNIQUE and the    *)
(* only producer, the webhook receiver, always gives one.  Time appears as *)
(* two facts about a row: its lease has expired ("lapsed") and its         *)
(* available_at has passed ("due").  Of the checkpoint only the flag       *)
(* sideEffectsPossible is kept ("effects").                                *)
(***************************************************************************)
EXTENDS Naturals

CONSTANTS
  Jobs,         \* deliveries that may be enqueued
  Workers,      \* worker ids; every worker has a fresh one (randomUUID)
  NoOwner,      \* lease_owner IS NULL
  MaxAttempts   \* queue.maxAttempts

ASSUME QueueAssumption == MaxAttempts \in Nat \ {0} /\ NoOwner \notin Workers

VARIABLES
  row,          \* row[j]: the job's row; status "absent" before it is inserted
  ahead         \* ahead[j]: the claimable jobs ORDER BY available_at puts before j

queueVars == <<row, ahead>>

\* (Definitions whose name starts with Slip are faulty variants of the definition
\* that follows them: each shows that some property notices the fault.)
SlipClaimsOrphans == {"queued", "retry_scheduled", "orphaned"}

Claimable  == {"queued", "retry_scheduled"}
Active     == {"running", "cancel_requested"}
Terminal   == {"succeeded", "failed", "canceled", "orphaned"}
Resumable  == {"failed", "canceled", "orphaned"}
Cancelable == Claimable \cup Active

Row == [status   : {"absent"} \cup Claimable \cup Active \cup Terminal,
        attempts : Nat,
        owner    : Workers \cup {NoOwner},
        lapsed   : BOOLEAN,
        due      : BOOLEAN,
        effects  : BOOLEAN]

QueueTypeOK == /\ row \in [Jobs -> Row]
               /\ ahead \in [Jobs -> SUBSET Jobs]

QueueInit ==
  /\ row = [j \in Jobs |-> [status |-> "absent", attempts |-> 0, owner |-> NoOwner,
                            lapsed |-> FALSE, due |-> TRUE, effects |-> FALSE]]
  /\ ahead = [j \in Jobs |-> {}]

Ready(j)   == row[j].status \in Claimable /\ row[j].due

SlipIgnoresStatus(w, j) == row[j].status \in Active /\ row[j].owner = w

Owns(w, j) == row[j].status = "running" /\ row[j].owner = w

-----------------------------------------------------------------------------
(* The order in which claims take ready jobs.                              *)

LeaveLine(j) == ahead' = [i \in Jobs |-> IF i = j THEN {} ELSE ahead[i] \ {j}]

SlipNewestFirst(j) ==
  ahead' = [i \in Jobs |-> IF i = j THEN {} ELSE IF Ready(i) THEN ahead[i] \cup {j} ELSE {}]

JoinLine(j) == ahead' = [i \in Jobs |-> IF i = j THEN {k \in Jobs \ {j} : Ready(k)}
                                                 ELSE ahead[i] \ {j}]

-----------------------------------------------------------------------------
(* Statements. Each is the UPDATE with its WHERE clause as the guard.      *)

\* enqueue: INSERT OR IGNORE; a redelivery of a known delivery changes nothing.
Enqueue(j) ==
  /\ row[j].status = "absent"
  /\ row' = [row EXCEPT ![j].status = "queued"]
  /\ JoinLine(j)

\* Time reaches available_at of a scheduled retry.
BecomeDue(j) ==
  /\ row[j].status \in Claimable /\ ~row[j].due
  /\ row' = [row EXCEPT ![j].due = TRUE]
  /\ JoinLine(j)

\* Time passes lease_expires_at without a heartbeat.
Lapse(j) ==
  /\ row[j].status \in Active /\ row[j].owner # NoOwner /\ ~row[j].lapsed
  /\ row' = [row EXCEPT ![j].lapsed = TRUE]
  /\ UNCHANGED ahead

SlipRequeues(r) == [r EXCEPT !.status = "queued", !.owner = NoOwner, !.lapsed = FALSE]

\* #recoverExpiredLeases: NULL <= now is not true, so a row without a lease stays.
Orphan(r) == [r EXCEPT !.status = "orphaned", !.owner = NoOwner, !.lapsed = FALSE]

SlipRunningOnly(j) == row[j].status = "running" /\ row[j].owner # NoOwner /\ row[j].lapsed

Expired(j) == row[j].status \in Active /\ row[j].owner # NoOwner /\ row[j].lapsed

Recovered == [j \in Jobs |-> IF Expired(j) THEN Orphan(row[j]) ELSE row[j]]

\* claim: recover expired leases, then take the first ready job, in one transaction.
Claim(w, j) ==
  /\ Ready(j) /\ ahead[j] = {}
  /\ LET taken == [row[j] EXCEPT !.status = "running", !.attempts = row[j].attempts + 1,
                                 !.owner = w, !.lapsed = FALSE]
     IN  row' = [Recovered EXCEPT ![j] = taken]
  /\ LeaveLine(j)

SlipNoSweep == (\A j \in Jobs : ~Ready(j)) /\ UNCHANGED queueVars

ClaimNothing ==
  /\ \A j \in Jobs : ~Ready(j)
  /\ row' = Recovered
  /\ UNCHANGED ahead

\* heartbeat: renews even a lapsed lease, as long as nobody has recovered it.
Heartbeat(w, j) ==
  /\ Owns(w, j)
  /\ row' = [row EXCEPT ![j].lapsed = FALSE]
  /\ UNCHANGED ahead

SlipReplaces(w, j, sideEffectsPossible) ==
  /\ Owns(w, j)
  /\ row' = [row EXCEPT ![j].effects = sideEffectsPossible]
  /\ UNCHANGED ahead

\* checkpoint: merges what the executor reports into checkpoint_json, so a later
\* phase does not erase sideEffectsPossible.
Checkpoint(w, j, sideEffectsPossible) ==
  /\ Owns(w, j)
  /\ row' = [row EXCEPT ![j].effects = @ \/ sideEffectsPossible]
  /\ UNCHANGED ahead

Release(j, status) ==
  row' = [row EXCEPT ![j] = [@ EXCEPT !.status = status, !.owner = NoOwner, !.lapsed = FALSE]]

\* complete
Complete(w, j) ==
  /\ Owns(w, j)
  /\ Release(j, "succeeded")
  /\ UNCHANGED ahead

\* fail: a safe error with an attempt left is scheduled again, retryDelayMs later.
Fail(w, j, safeToRetry) ==
  /\ Owns(w, j)
  /\ IF safeToRetry /\ row[j].attempts < MaxAttempts
       THEN row' = [row EXCEPT ![j] = [@ EXCEPT !.status = "retry_scheduled", !.owner = NoOwner,
                                                !.lapsed = FALSE, !.due = FALSE]]
       ELSE Release(j, "failed")
  /\ UNCHANGED ahead

\* markCanceled
MarkCanceled(w, j) ==
  /\ row[j].status = "cancel_requested" /\ row[j].owner = w
  /\ Release(j, "canceled")
  /\ UNCHANGED ahead

\* abandon
Abandon(w, j) ==
  /\ row[j].status \in Active /\ row[j].owner = w
  /\ Release(j, "orphaned")
  /\ UNCHANGED ahead

\* requestCancel: which status is written was decided by an earlier read, the
\* WHERE clause admits all four live states, and the lease columns are kept.
CancelWrite(j, sawActive) ==
  /\ row[j].status \in Cancelable
  /\ row' = [row EXCEPT ![j].status = IF sawActive THEN "cancel_requested" ELSE "canceled"]
  /\ LeaveLine(j)

\* resume: WHERE id = ?, whatever the status has become since it was read.
ResumeWrite(j) ==
  /\ row' = [row EXCEPT ![j] = [status |-> "queued", attempts |-> 0, owner |-> NoOwner,
                                lapsed |-> FALSE, due |-> TRUE, effects |-> FALSE]]
  /\ JoinLine(j)
=============================================================================
