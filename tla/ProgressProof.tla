---------------------------- MODULE ProgressProof ----------------------------
(***************************************************************************)
(* Theorems about MCProgress, whatever the numbers of its jobs, workers,   *)
(* agents, providers, requests, plugins and calls.                         *)
(*                                                                         *)
(* The queue: who executes a job, which attempts are counted, and what a   *)
(* recovery, a cancellation and a forced resumption may do.  The calls of  *)
(* agents to models: what is sent is counted, and what is asked of tools   *)
(* is asked once.  Whoever asks a tool server or a plugin is answered by   *)
(* nobody else, and neither is left behind.                                *)
(*                                                                         *)
(* Each part has an invariant of its own; the theorems about the calls,    *)
(* servers and plugins are of the composition, those about the queue of    *)
(* its own specification.                                                  *)
(***************************************************************************)
EXTENDS MCProgress, SequenceTheorems, FiniteSetTheorems, TLAPS

\* Attempts are reset by a resumption, and a retry is scheduled only while one is left.
AttemptsFit(r) ==
  /\ r.attempts <= MaxAttempts
  /\ r.status \in {"absent", "queued"} => r.attempts = 0
  /\ r.status = "retry_scheduled" => r.attempts < MaxAttempts

AttemptsLeft == \A j \in Jobs : AttemptsFit(row[j])

\* A worker that executes a job holds its lease, or recovery has orphaned the job.
Holds ==
  \A w \in Workers :
    Engaged(w) /\ job[w] \notin forced \cup stale
      => \/ row[job[w]].status \in Active /\ row[job[w]].owner = w
         \/ row[job[w]].status = "orphaned"

-----------------------------------------------------------------------------
(* Type correctness.                                                       *)

Statuses == {"absent"} \cup Claimable \cup Active \cup Terminal

\* The record updates the statements make stay within Row.
LEMMA RecordsTyped ==
  ASSUME NEW r \in Row
  PROVE  /\ \A s \in Statuses : [r EXCEPT !.status = s] \in Row
         /\ \A b \in BOOLEAN : [r EXCEPT !.lapsed = b] \in Row
         /\ \A b \in BOOLEAN : [r EXCEPT !.due = b] \in Row
         /\ \A b \in BOOLEAN : [r EXCEPT !.effects = b] \in Row
         /\ \A s \in Statuses, o \in Workers \cup {NoOwner}, b \in BOOLEAN :
              [r EXCEPT !.status = s, !.owner = o, !.lapsed = b] \in Row
         /\ \A s \in Statuses, n \in Nat, o \in Workers \cup {NoOwner}, b \in BOOLEAN :
              [r EXCEPT !.status = s, !.attempts = n, !.owner = o, !.lapsed = b] \in Row
         /\ \A s \in Statuses, o \in Workers \cup {NoOwner}, b, d \in BOOLEAN :
              [r EXCEPT !.status = s, !.owner = o, !.lapsed = b, !.due = d] \in Row
  BY Zenon DEF Row, Statuses

LEMMA RowWritten ==
  ASSUME QueueTypeOK, NEW j \in Jobs, NEW r \in Row, row' = [row EXCEPT ![j] = r]
  PROVE  row' \in [Jobs -> Row]
  BY DEF QueueTypeOK

\* Recovery of expired leases keeps the type.
LEMMA SweepTyped ==
  ASSUME QueueTypeOK
  PROVE  Recovered \in [Jobs -> Row] /\ (ClaimNothing => QueueTypeOK')
<1>1. ASSUME NEW i \in Jobs PROVE Recovered[i] \in Row
  <2>1. row[i] \in Row
    BY DEF QueueTypeOK
  <2>2. Orphan(row[i]) \in Row
    BY <2>1, RecordsTyped DEF Orphan, Statuses, Terminal
  <2> QED
    BY <2>1, <2>2 DEF Recovered
<1>2. Recovered \in [Jobs -> Row]
  BY <1>1 DEF Recovered
<1> QED
  BY <1>2 DEF ClaimNothing, QueueTypeOK

\* What the statements of the table do to its type.
LEMMA StatementsTyped ==
  ASSUME QueueTypeOK, NEW j \in Jobs
  PROVE  /\ Enqueue(j) => QueueTypeOK'
         /\ BecomeDue(j) => QueueTypeOK'
         /\ Lapse(j) => QueueTypeOK'
         /\ \A w \in Workers : Claim(w, j) => QueueTypeOK'
         /\ \A w \in Workers : Heartbeat(w, j) => QueueTypeOK'
         /\ \A w \in Workers, b \in BOOLEAN : Checkpoint(w, j, b) => QueueTypeOK'
         /\ \A w \in Workers : Complete(w, j) => QueueTypeOK'
         /\ \A w \in Workers, b \in BOOLEAN : Fail(w, j, b) => QueueTypeOK'
         /\ \A w \in Workers : MarkCanceled(w, j) => QueueTypeOK'
         /\ \A w \in Workers : Abandon(w, j) => QueueTypeOK'
         /\ \A b \in BOOLEAN : CancelWrite(j, b) => QueueTypeOK'
         /\ ResumeWrite(j) => QueueTypeOK'
<1>r. row[j] \in Row
  BY DEF QueueTypeOK
<1>s. {"absent", "queued", "retry_scheduled", "running", "cancel_requested", "succeeded",
       "failed", "canceled", "orphaned"} \subseteq Statuses
  BY DEF Statuses, Claimable, Active, Terminal
<1>l. LeaveLine(j) \/ JoinLine(j) \/ ahead' = ahead => ahead' \in [Jobs -> SUBSET Jobs]
  BY DEF LeaveLine, JoinLine, QueueTypeOK
<1>rel. \A s \in Statuses : Release(j, s) => row' \in [Jobs -> Row]
  <2>1. TAKE s \in Statuses
  <2>2. [row[j] EXCEPT !.status = s, !.owner = NoOwner, !.lapsed = FALSE] \in Row
    BY <1>r, RecordsTyped
  <2> QED
    BY <2>2, RowWritten DEF Release
<1>rec. Recovered \in [Jobs -> Row]
  BY SweepTyped
<1>1. Enqueue(j) => QueueTypeOK'
  <2>1. [row[j] EXCEPT !.status = "queued"] \in Row
    BY <1>r, <1>s, RecordsTyped
  <2> QED
    BY <2>1, <1>l, RowWritten DEF Enqueue, QueueTypeOK
<1>2. BecomeDue(j) => QueueTypeOK'
  <2>1. [row[j] EXCEPT !.due = TRUE] \in Row
    BY <1>r, RecordsTyped, Zenon
  <2> QED
    BY <2>1, <1>l, RowWritten DEF BecomeDue, QueueTypeOK
<1>3. Lapse(j) => QueueTypeOK'
  <2>1. [row[j] EXCEPT !.lapsed = TRUE] \in Row
    BY <1>r, RecordsTyped, Zenon
  <2> QED
    BY <2>1, <1>l, RowWritten DEF Lapse, QueueTypeOK
<1>4. ASSUME NEW w \in Workers, Claim(w, j) PROVE QueueTypeOK'
  <2> DEFINE taken == [row[j] EXCEPT !.status = "running", !.attempts = row[j].attempts + 1,
                                     !.owner = w, !.lapsed = FALSE]
  <2>1. row[j].attempts + 1 \in Nat
    BY <1>r DEF Row
  <2>2. taken \in Row
    BY <1>r, <2>1, <1>s, RecordsTyped, Zenon
  <2> HIDE DEF taken
  <2>3. [Recovered EXCEPT ![j] = taken] \in [Jobs -> Row]
    BY <2>2, <1>rec
  <2> QED
    BY <1>4, <2>3, <1>l DEF Claim, QueueTypeOK, taken
<1>6. ASSUME NEW w \in Workers, Heartbeat(w, j) PROVE QueueTypeOK'
  <2>1. [row[j] EXCEPT !.lapsed = FALSE] \in Row
    BY <1>r, RecordsTyped, Zenon
  <2> QED
    BY <1>6, <2>1, <1>l, RowWritten DEF Heartbeat, QueueTypeOK
<1>7. ASSUME NEW w \in Workers, NEW b \in BOOLEAN, Checkpoint(w, j, b) PROVE QueueTypeOK'
  <2>2. (row[j].effects \/ b) \in BOOLEAN
    OBVIOUS
  <2>3. [row[j] EXCEPT !.effects = @ \/ b] \in Row
    BY <1>r, <2>2, RecordsTyped, Zenon
  <2> QED
    BY <1>7, <2>3, <1>l, RowWritten DEF Checkpoint, QueueTypeOK
<1>8. ASSUME NEW w \in Workers, Complete(w, j) PROVE QueueTypeOK'
  BY <1>8, <1>rel, <1>s, <1>l DEF Complete, QueueTypeOK
<1>9. ASSUME NEW w \in Workers, NEW b \in BOOLEAN, Fail(w, j, b) PROVE QueueTypeOK'
  <2>2. [row[j] EXCEPT !.status = "retry_scheduled", !.owner = NoOwner,
                       !.lapsed = FALSE, !.due = FALSE] \in Row
    BY <1>r, <1>s, RecordsTyped
  <2> QED
    BY <1>9, <2>2, <1>rel, <1>s, <1>l, RowWritten DEF Fail, QueueTypeOK
<1>10. ASSUME NEW w \in Workers, MarkCanceled(w, j) PROVE QueueTypeOK'
  BY <1>10, <1>rel, <1>s, <1>l DEF MarkCanceled, QueueTypeOK
<1>11. ASSUME NEW w \in Workers, Abandon(w, j) PROVE QueueTypeOK'
  BY <1>11, <1>rel, <1>s, <1>l DEF Abandon, QueueTypeOK
<1>12. \A b \in BOOLEAN : CancelWrite(j, b) => QueueTypeOK'
  <2>1. TAKE b \in BOOLEAN
  <2>2. [row[j] EXCEPT !.status = IF b THEN "cancel_requested" ELSE "canceled"] \in Row
    BY <1>r, <1>s, RecordsTyped
  <2> QED
    BY <2>2, <1>l, RowWritten DEF CancelWrite, QueueTypeOK
<1>13. ResumeWrite(j) => QueueTypeOK'
  <2>1. [status |-> "queued", attempts |-> 0, owner |-> NoOwner,
         lapsed |-> FALSE, due |-> TRUE, effects |-> FALSE] \in Row
    BY <1>s DEF Row, Statuses
  <2> QED
    BY <2>1, <1>l, RowWritten DEF ResumeWrite, QueueTypeOK
<1> QED
  BY <1>1, <1>2, <1>3, <1>4, <1>6, <1>7, <1>8, <1>9, <1>10, <1>11, <1>12, <1>13

\* A worker's own step keeps the type of everything that is not the table.
LEMMA WorkerTyped ==
  ASSUME TypeOK, NEW w \in Workers, WorkerStep(w)
  PROVE  TypeOK'
<1> USE DEF TypeOK, WorkerPc, Goto, Engaged
<1>q. QueueTypeOK /\ UNCHANGED queueVars => QueueTypeOK'
  BY DEF QueueTypeOK, queueVars
<1>j. pc[w] \notin {"idle", "gone"} => job[w] \in Jobs
  OBVIOUS
<1>rest. ASSUME QueueTypeOK', Rest(w), UNCHANGED <<operatorVars, touched>> PROVE TypeOK'
  BY <1>rest DEF Rest, operatorVars
<1>throw. ASSUME QueueTypeOK', NEW b \in BOOLEAN, Throw(w, b), job[w] \in Jobs,
                 UNCHANGED <<operatorVars, touched>>
          PROVE  TypeOK'
  BY <1>throw DEF Throw, operatorVars
<1>1. CASE ClaimJob(w)
  <2>1. PICK j \in Jobs : Claim(w, j) /\ job' = [job EXCEPT ![w] = j]
    BY <1>1 DEF ClaimJob
  <2>2. QueueTypeOK'
    BY <2>1, StatementsTyped
  <2> QED
    BY <1>1, <2>1, <2>2 DEF ClaimJob, operatorVars
<1>2. CASE Poll(w)
  <2>1. QueueTypeOK'
    BY <1>2, SweepTyped DEF Poll
  <2> QED
    BY <1>2, <2>1 DEF Poll, workerVars, operatorVars
<1>3. CASE Advance(w)
  <2>1. job[w] \in Jobs
    BY <1>3, <1>j DEF Advance
  <2>2. QueueTypeOK'
    <3>1. \A b \in BOOLEAN : Checkpoint(w, job[w], b) => QueueTypeOK'
      BY <2>1, StatementsTyped
    <3>2. (Checkpoint(w, job[w], TRUE) => QueueTypeOK') /\ (Checkpoint(w, job[w], FALSE) => QueueTypeOK')
      BY <3>1, Zenon
    <3> QED
      BY <1>3, <3>2, <1>q, Zenon DEF Advance
  <2>3. CASE ~Owns(w, job[w]) /\ Throw(w, FALSE) /\ UNCHANGED <<queueVars, touched>>
    BY <1>3, <2>1, <2>2, <2>3, <1>throw DEF Advance
  <2>4. CASE Goto(w, "working") /\ touched' = touched \cup {job[w]}
             /\ UNCHANGED <<job, aborted, safe, stopping>>
    BY <1>3, <2>1, <2>2, <2>4 DEF Advance, operatorVars
  <2>5. CASE UNCHANGED <<workerVars, touched>>
    BY <1>3, <2>2, <2>5 DEF Advance, operatorVars, workerVars
  <2> QED
    BY <1>3, <2>3, <2>4, <2>5 DEF Advance
<1>4. CASE ExecutionReturns(w)
  BY <1>4, <1>q DEF ExecutionReturns, operatorVars
<1>5. CASE ExecutionThrows(w)
  BY <1>5, <1>q, <1>j, <1>throw DEF ExecutionThrows
<1>6. CASE ReadAfterReturn(w)
  BY <1>6, <1>q DEF ReadAfterReturn, operatorVars
<1>7. CASE CompleteJob(w)
  <2>1. QueueTypeOK' /\ job[w] \in Jobs
    BY <1>7, <1>j, <1>q, StatementsTyped DEF CompleteJob
  <2> QED
    BY <1>7, <2>1, <1>rest, <1>throw DEF CompleteJob
<1>8. CASE CancelReturned(w)
  <2>1. QueueTypeOK' /\ job[w] \in Jobs
    BY <1>8, <1>j, <1>q, StatementsTyped DEF CancelReturned
  <2> QED
    BY <1>8, <2>1, <1>rest, <1>throw DEF CancelReturned
<1>9. CASE ReadAfterThrow(w)
  BY <1>9, <1>q DEF ReadAfterThrow, operatorVars
<1>10. CASE SettleCanceled(w)
  <2>1. QueueTypeOK'
    BY <1>10, <1>j, <1>q, StatementsTyped DEF SettleCanceled
  <2> QED
    BY <1>10, <2>1, <1>rest DEF SettleCanceled
<1>11. CASE AbandonJob(w)
  <2>1. QueueTypeOK'
    BY <1>11, <1>j, <1>q, StatementsTyped DEF AbandonJob
  <2> QED
    BY <1>11, <2>1, <1>rest DEF AbandonJob
<1>12. CASE FailJob(w)
  <2>1. QueueTypeOK'
    BY <1>12, <1>j, <1>q, StatementsTyped DEF FailJob
  <2> QED
    BY <1>12, <2>1, <1>rest DEF FailJob
<1>13. CASE Beat(w)
  <2>1. QueueTypeOK'
    BY <1>13, <1>j, <1>q, StatementsTyped DEF Beat
  <2> QED
    BY <1>13, <2>1 DEF Beat, operatorVars
<1>14. CASE Stop(w)
  BY <1>14, <1>q DEF Stop, operatorVars
<1>15. CASE Crash(w)
  BY <1>15, <1>q DEF Crash, operatorVars
<1> QED
  BY <1>1, <1>2, <1>3, <1>4, <1>5, <1>6, <1>7, <1>8, <1>9, <1>10, <1>11, <1>12, <1>13,
     <1>14, <1>15 DEF WorkerStep

LEMMA OperatorTyped ==
  ASSUME TypeOK, NEW o \in Operators, OperatorStep(o)
  PROVE  TypeOK'
<1> USE DEF TypeOK
<1>q. QueueTypeOK /\ UNCHANGED queueVars => QueueTypeOK'
  BY DEF QueueTypeOK, queueVars
<1>1. ASSUME NEW j \in Jobs, ReadToCancel(o, j) \/ ReadToResume(o, j) PROVE TypeOK'
  <2>1. row[j].status \in {"absent"} \cup Claimable \cup Active \cup Terminal
    BY DEF QueueTypeOK, Row
  <2> QED
    BY <1>1, <2>1, <1>q DEF ReadToCancel, ReadToResume, Read, workerVars
<1>2. CASE CancelJob(o)
  <2>1. target[o] \in Jobs /\ (seen[o] \in Active) \in BOOLEAN
    BY <1>2 DEF CancelJob
  <2>2. QueueTypeOK'
    BY <1>2, <2>1, <1>q, StatementsTyped DEF CancelJob
  <2> QED
    BY <1>2, <2>1, <2>2 DEF CancelJob, Written, workerVars
<1>3. CASE ResumeJob(o)
  <2>1. target[o] \in Jobs
    BY <1>3 DEF ResumeJob
  <2>2. QueueTypeOK'
    BY <1>3, <2>1, StatementsTyped DEF ResumeJob
  <2> QED
    BY <1>3, <2>1, <2>2 DEF ResumeJob, Written, workerVars
<1> QED
  BY <1>1, <1>2, <1>3 DEF OperatorStep

LEMMA OutsideTyped ==
  ASSUME TypeOK, NEW j \in Jobs, Outside(j)
  PROVE  TypeOK'
<1>1. QueueTypeOK'
  BY StatementsTyped DEF Outside, TypeOK
<1> QED
  BY <1>1 DEF Outside, TypeOK, workerVars, operatorVars

\* Every variable keeps its type, and a worker that is in #run has a job.
THEOREM TypeCorrect == Spec => []TypeOK
<1>1. Init => TypeOK
  BY DEF Init, TypeOK, QueueInit, QueueTypeOK, Row, WorkerPc
<1>2. TypeOK /\ [Next]_vars => TypeOK'
  <2>1. TypeOK /\ UNCHANGED vars => TypeOK'
    BY DEF TypeOK, QueueTypeOK, vars, queueVars, workerVars, operatorVars
  <2> QED
    BY <2>1, WorkerTyped, OperatorTyped, OutsideTyped DEF Next
<1> QED
  BY <1>1, <1>2, PTL DEF Spec
-----------------------------------------------------------------------------
(* What a step does to the table: nothing, one statement of the worker w,  *)
(* one of the outside world, or one of an operator.                        *)

Settlement(w, j) ==
  Complete(w, j) \/ MarkCanceled(w, j) \/ Abandon(w, j) \/ \E b \in BOOLEAN : Fail(w, j, b)

WorkerStatement(w, j) ==
  \/ ~Engaged(w) /\ (Claim(w, j) \/ Settlement(w, j))
  \/ Heartbeat(w, j)
  \/ \E b \in BOOLEAN : Checkpoint(w, j, b)

OutsideStatement(j) == Enqueue(j) \/ BecomeDue(j) \/ Lapse(j)

QuietStep == /\ UNCHANGED <<forced, stale>>
             /\ \/ row' = row
                \/ ClaimNothing
                \/ \E j \in Jobs : OutsideStatement(j)
                \/ \E w \in Workers, j \in Jobs : WorkerStatement(w, j)

LEMMA StepKinds ==
  ASSUME TypeOK, [Next]_vars
  PROVE  QuietStep \/ \E o \in Operators : CancelJob(o) \/ ResumeJob(o)
<1> USE DEF operatorVars, queueVars
<1>1. ASSUME NEW w \in Workers, WorkerStep(w) PROVE QuietStep
  <2>j. pc[w] \notin {"idle", "gone"} => job[w] \in Jobs
    BY DEF TypeOK
  <2>1. CASE ClaimJob(w)
    BY <2>1 DEF ClaimJob, QuietStep, WorkerStatement, Settlement, Engaged
  <2>2. CASE Poll(w)
    BY <2>2 DEF Poll, QuietStep
  <2>3. CASE Advance(w)
    <3>1. job[w] \in Jobs /\ UNCHANGED <<forced, stale>>
      BY <2>3, <2>j DEF Advance, Engaged
    <3>2. row' = row \/ Checkpoint(w, job[w], TRUE) \/ Checkpoint(w, job[w], FALSE)
      BY <2>3, Zenon DEF Advance
    <3>3. (Checkpoint(w, job[w], TRUE) => WorkerStatement(w, job[w]))
          /\ (Checkpoint(w, job[w], FALSE) => WorkerStatement(w, job[w]))
      BY Zenon DEF WorkerStatement
    <3> QED
      BY <3>1, <3>2, <3>3 DEF QuietStep
  <2>4. CASE ExecutionReturns(w) \/ ExecutionThrows(w) \/ ReadAfterReturn(w)
             \/ ReadAfterThrow(w) \/ Stop(w) \/ Crash(w)
    BY <2>4 DEF ExecutionReturns, ExecutionThrows, ReadAfterReturn, ReadAfterThrow, Stop,
                Crash, QuietStep
  <2>5. CASE CompleteJob(w)
    BY <2>5, <2>j DEF CompleteJob, QuietStep, WorkerStatement, Settlement, Engaged
  <2>6. CASE CancelReturned(w) \/ SettleCanceled(w)
    BY <2>6, <2>j DEF CancelReturned, SettleCanceled, QuietStep, WorkerStatement, Settlement, Engaged
  <2>7. CASE AbandonJob(w)
    BY <2>7, <2>j DEF AbandonJob, QuietStep, WorkerStatement, Settlement, Engaged
  <2>8. CASE FailJob(w)
    <3>1. job[w] \in Jobs /\ safe[w] \in BOOLEAN
      BY <2>8, <2>j DEF FailJob, TypeOK
    <3>2. row' = row \/ Fail(w, job[w], safe[w])
      BY <2>8 DEF FailJob
    <3> QED
      BY <2>8, <3>1, <3>2 DEF FailJob, QuietStep, WorkerStatement, Settlement, Engaged
  <2>9. CASE Beat(w)
    BY <2>9, <2>j DEF Beat, Engaged, QuietStep, WorkerStatement
  <2> QED
    BY <1>1, <2>1, <2>2, <2>3, <2>4, <2>5, <2>6, <2>7, <2>8, <2>9 DEF WorkerStep
<1>2. ASSUME NEW o \in Operators, OperatorStep(o)
      PROVE  QuietStep \/ CancelJob(o) \/ ResumeJob(o)
  BY <1>2 DEF OperatorStep, ReadToCancel, ReadToResume, Read, QuietStep
<1>3. ASSUME NEW j \in Jobs, Outside(j) PROVE QuietStep
  BY <1>3 DEF Outside, QuietStep, OutsideStatement
<1>4. ASSUME UNCHANGED vars PROVE QuietStep
  BY <1>4 DEF vars, QuietStep
<1> QED
  BY <1>1, <1>2, <1>3, <1>4 DEF Next

\* The row a statement writes, and the rows it leaves alone.
LEMMA ReleaseEffect ==
  ASSUME QueueTypeOK, NEW j \in Jobs, NEW s \in Statuses, Release(j, s)
  PROVE  /\ \A i \in Jobs \ {j} : row'[i] = row[i]
         /\ row'[j].status = s /\ row'[j].owner = NoOwner /\ row'[j].attempts = row[j].attempts
<1>t. row \in [Jobs -> Row] /\ row[j] \in Row
  BY DEF QueueTypeOK
<1> DEFINE r == [row[j] EXCEPT !.status = s, !.owner = NoOwner, !.lapsed = FALSE]
<1>1. r.status = s /\ r.owner = NoOwner /\ r.attempts = row[j].attempts
  BY <1>t, Zenon DEF Row
<1> HIDE DEF r
<1>2. row' = [row EXCEPT ![j] = r]
  BY DEF Release, r
<1> QED
  BY <1>t, <1>1, <1>2

LEMMA FailEffect ==
  ASSUME QueueTypeOK, NEW w \in Workers, NEW j \in Jobs, NEW b \in BOOLEAN, Fail(w, j, b)
  PROVE  /\ \A i \in Jobs \ {j} : row'[i] = row[i]
         /\ row'[j].owner = NoOwner /\ row'[j].attempts = row[j].attempts
         /\ \/ row'[j].status = "failed"
            \/ row'[j].status = "retry_scheduled" /\ row[j].attempts < MaxAttempts
<1>t. row \in [Jobs -> Row] /\ row[j] \in Row
  BY DEF QueueTypeOK
<1> DEFINE r == [row[j] EXCEPT !.status = "retry_scheduled", !.owner = NoOwner,
                               !.lapsed = FALSE, !.due = FALSE]
<1>1. r.status = "retry_scheduled" /\ r.owner = NoOwner /\ r.attempts = row[j].attempts
  BY <1>t, Zenon DEF Row
<1> HIDE DEF r
<1>2. CASE Release(j, "failed")
  BY <1>2, ReleaseEffect DEF Statuses, Terminal
<1>3. CASE row' = [row EXCEPT ![j] = r] /\ row[j].attempts < MaxAttempts
  BY <1>t, <1>1, <1>3
<1> QED
  BY <1>2, <1>3 DEF Fail, r

LEMMA ClaimEffect ==
  ASSUME QueueTypeOK, NEW w \in Workers, NEW j \in Jobs, Claim(w, j)
  PROVE  /\ \A i \in Jobs \ {j} : row'[i] = Recovered[i]
         /\ row'[j].status = "running" /\ row'[j].owner = w
         /\ row'[j].attempts = row[j].attempts + 1
<1>t. Recovered \in [Jobs -> Row] /\ row[j] \in Row
  BY SweepTyped DEF QueueTypeOK
<1> DEFINE r == [row[j] EXCEPT !.status = "running", !.attempts = row[j].attempts + 1,
                               !.owner = w, !.lapsed = FALSE]
<1>1. r.status = "running" /\ r.owner = w /\ r.attempts = row[j].attempts + 1
  BY <1>t, Zenon DEF Row
<1> HIDE DEF r
<1>2. row' = [Recovered EXCEPT ![j] = r]
  BY DEF Claim, r
<1> QED
  BY <1>t, <1>1, <1>2

\* Where recovery changes a row, its lease had expired and it is orphaned now.
LEMMA SweepEffect ==
  ASSUME QueueTypeOK, NEW i \in Jobs
  PROVE  \/ Recovered[i] = row[i]
         \/ /\ row[i].status \in Active
            /\ Recovered[i].status = "orphaned" /\ Recovered[i].owner = NoOwner
            /\ Recovered[i].attempts = row[i].attempts
<1>t. row[i] \in Row
  BY DEF QueueTypeOK
<1>1. Orphan(row[i]).status = "orphaned" /\ Orphan(row[i]).owner = NoOwner
      /\ Orphan(row[i]).attempts = row[i].attempts
  BY <1>t, Zenon DEF Row, Orphan
<1> QED
  BY <1>1 DEF Recovered, Expired

\* Heartbeats, checkpoints and a lapsing lease leave status, owner and attempts alone.
LEMMA RenewEffect ==
  ASSUME QueueTypeOK, NEW w, NEW j \in Jobs, NEW i \in Jobs,
         Heartbeat(w, j) \/ Lapse(j) \/ \E b \in BOOLEAN : Checkpoint(w, j, b)
  PROVE  row'[i].status = row[i].status /\ row'[i].owner = row[i].owner
<1>t. row \in [Jobs -> Row] /\ row[i] \in Row
  BY DEF QueueTypeOK
<1>1. CASE Heartbeat(w, j)
  BY <1>t, <1>1 DEF Heartbeat, Row
<1>2. CASE Lapse(j)
  BY <1>t, <1>2 DEF Lapse, Row
<1>3. ASSUME NEW b \in BOOLEAN, Checkpoint(w, j, b)
      PROVE  row'[i].status = row[i].status /\ row'[i].owner = row[i].owner
  BY <1>t, <1>3 DEF Checkpoint, Row
<1> QED
  BY <1>1, <1>2, <1>3

LEMMA CancelEffect ==
  ASSUME QueueTypeOK, NEW j \in Jobs, NEW b \in BOOLEAN, CancelWrite(j, b)
  PROVE  /\ \A i \in Jobs \ {j} : row'[i] = row[i]
         /\ row[j].status \in Cancelable
         /\ row'[j].status = IF b THEN "cancel_requested" ELSE "canceled"
         /\ row'[j].owner = row[j].owner
  BY DEF CancelWrite, QueueTypeOK, Row

\* A settlement ends a job whose lease carries the worker's name.
LEMMA SettlementEffect ==
  ASSUME QueueTypeOK, NEW w \in Workers, NEW j \in Jobs, Settlement(w, j)
  PROVE  /\ \A i \in Jobs \ {j} : row'[i] = row[i]
         /\ row[j].status \in Active /\ row[j].owner = w
         /\ row'[j].status \in {"succeeded", "failed", "canceled", "orphaned", "retry_scheduled"}
         /\ row'[j].owner = NoOwner
<1>1. ASSUME NEW b \in BOOLEAN, Fail(w, j, b)
      PROVE  /\ \A i \in Jobs \ {j} : row'[i] = row[i]
             /\ row[j].status \in Active /\ row[j].owner = w
             /\ row'[j].status \in {"failed", "retry_scheduled"} /\ row'[j].owner = NoOwner
  BY <1>1, FailEffect DEF Fail, Owns, Active
<1>2. ASSUME Complete(w, j) \/ MarkCanceled(w, j) \/ Abandon(w, j)
      PROVE  /\ row[j].status \in Active /\ row[j].owner = w
             /\ \E s \in {"succeeded", "canceled", "orphaned"} : Release(j, s)
  BY <1>2 DEF Complete, MarkCanceled, Abandon, Owns, Active
<1> QED
  BY <1>1, <1>2, ReleaseEffect DEF Settlement, Statuses, Terminal

-----------------------------------------------------------------------------
(* Attempts and leases.                                                    *)

LEMMA AttemptsStep ==
  ASSUME TypeOK, AttemptsLeft, [Next]_vars
  PROVE  AttemptsLeft'
<1> SUFFICES ASSUME NEW i \in Jobs PROVE AttemptsFit(row'[i])
  BY DEF AttemptsLeft
<1>t. row \in [Jobs -> Row] /\ row[i].attempts \in Nat /\ AttemptsFit(row[i])
  BY DEF TypeOK, QueueTypeOK, Row, AttemptsLeft
<1>q. QueueTypeOK
  BY DEF TypeOK
<1>m. MaxAttempts \in Nat \ {0}
  BY QueueAssumption DEF QueueAssumption
<1> USE DEF AttemptsFit, Claimable, Active
<1>o. AttemptsFit(Recovered[i])
  BY <1>t, <1>q, SweepEffect
<1>1. CASE row' = row
  BY <1>1, <1>t
<1>2. CASE ClaimNothing
  BY <1>2, <1>o DEF ClaimNothing
<1>3. ASSUME NEW j \in Jobs, OutsideStatement(j) PROVE AttemptsFit(row'[i])
  <2>1. CASE i # j \/ BecomeDue(j) \/ Lapse(j)
    BY <1>3, <2>1, <1>t DEF OutsideStatement, Enqueue, BecomeDue, Lapse, Row
  <2>2. CASE i = j /\ Enqueue(j)
    BY <2>2, <1>t DEF Enqueue, Row
  <2> QED
    BY <1>3, <2>1, <2>2 DEF OutsideStatement
<1>4. ASSUME NEW w \in Workers, NEW j \in Jobs, WorkerStatement(w, j) PROVE AttemptsFit(row'[i])
  <2>1. CASE Claim(w, j)
    <3>1. i = j => row[i].attempts < MaxAttempts
      BY <2>1, <1>t, <1>m DEF Claim, Ready
    <3> QED
      BY <2>1, <3>1, <1>t, <1>q, <1>o, <1>m, ClaimEffect
  <2>2. CASE Heartbeat(w, j)
    BY <2>2, <1>t DEF Heartbeat, Owns, Row
  <2>3. CASE Complete(w, j) \/ MarkCanceled(w, j) \/ Abandon(w, j)
    <3>1. PICK s \in Terminal : Release(j, s)
      BY <2>3 DEF Complete, MarkCanceled, Abandon, Terminal
    <3>2. \A k \in Jobs \ {j} : row'[k] = row[k]
      BY <3>1, <1>q, ReleaseEffect DEF Statuses
    <3>3. row'[j].status \in Terminal /\ row'[j].attempts = row[j].attempts
      BY <3>1, <1>q, ReleaseEffect DEF Statuses
    <3> QED
      BY <3>2, <3>3, <1>t DEF Terminal
  <2>4. ASSUME NEW b \in BOOLEAN, Checkpoint(w, j, b) PROVE AttemptsFit(row'[i])
    BY <2>4, <1>t DEF Checkpoint, Owns, Row
  <2>5. ASSUME NEW b \in BOOLEAN, Fail(w, j, b) PROVE AttemptsFit(row'[i])
    BY <2>5, <1>t, <1>q, FailEffect
  <2> QED
    BY <1>4, <2>1, <2>2, <2>3, <2>4, <2>5 DEF WorkerStatement, Settlement
<1>5. ASSUME NEW o \in Operators, CancelJob(o) PROVE AttemptsFit(row'[i])
  BY <1>5, <1>t DEF CancelJob, CancelWrite, queueVars, Row
<1>6. ASSUME NEW o \in Operators, ResumeJob(o) PROVE AttemptsFit(row'[i])
  BY <1>6, <1>t, <1>m DEF ResumeJob, ResumeWrite
<1> QED
  BY <1>1, <1>2, <1>3, <1>4, <1>5, <1>6, StepKinds DEF QuietStep

\* A job is never tried more often than maxAttempts between two resumptions.
THEOREM AttemptsBound == Spec => []AttemptsBounded
<1>1. Init => AttemptsLeft
  <2> SUFFICES ASSUME Init, NEW j \in Jobs PROVE AttemptsFit(row[j])
    BY DEF AttemptsLeft
  <2> QED
    BY QueueAssumption DEF QueueAssumption, Init, QueueInit, AttemptsFit
<1>2. TypeOK /\ AttemptsLeft /\ [Next]_vars => AttemptsLeft'
  BY AttemptsStep
<1>3. AttemptsLeft => AttemptsBounded
  BY DEF AttemptsLeft, AttemptsFit, AttemptsBounded
<1> QED
  BY <1>1, <1>2, <1>3, TypeCorrect, PTL DEF Spec

\* A row's part of LeaseOwnership.
LeaseFit(r, outdated) ==
  /\ r.status = "running" => r.owner # NoOwner
  /\ r.status \notin Active \cup {"canceled"} => r.owner = NoOwner
  /\ ~outdated => /\ r.status = "cancel_requested" => r.owner # NoOwner
                  /\ r.status = "canceled" => r.owner = NoOwner

LEMMA LeaseStep ==
  ASSUME TypeOK, LeaseOwnership, [Next]_vars
  PROVE  LeaseOwnership'
<1> SUFFICES ASSUME NEW i \in Jobs PROVE LeaseFit(row'[i], i \in stale')
  BY DEF LeaseOwnership, LeaseFit
<1>f. LeaseFit(row[i], i \in stale)
  BY DEF LeaseOwnership, LeaseFit
<1>q. QueueTypeOK /\ NoOwner \notin Workers
  BY QueueAssumption DEF QueueAssumption, TypeOK
<1> USE DEF LeaseFit, Active, Claimable
<1>o. LeaseFit(Recovered[i], i \in stale)
  BY <1>f, <1>q, SweepEffect
<1>1. CASE QuietStep
  <2>s. stale' = stale
    BY <1>1 DEF QuietStep
  <2>1. CASE row' = row
    BY <2>1, <2>s, <1>f
  <2>2. CASE ClaimNothing
    BY <2>2, <2>s, <1>o DEF ClaimNothing
  <2>3. ASSUME NEW j \in Jobs, OutsideStatement(j) PROVE LeaseFit(row'[i], i \in stale')
    <3>1. CASE Lapse(j)
      BY <3>1, <2>s, <1>f, <1>q, RenewEffect
    <3>2. CASE Enqueue(j)
      BY <3>2, <2>s, <1>f, <1>q DEF Enqueue, QueueTypeOK, Row
    <3>3. CASE BecomeDue(j)
      BY <3>3, <2>s, <1>f, <1>q DEF BecomeDue, QueueTypeOK, Row
    <3> QED
      BY <2>3, <3>1, <3>2, <3>3 DEF OutsideStatement
  <2>4. ASSUME NEW w \in Workers, NEW j \in Jobs, WorkerStatement(w, j)
        PROVE  LeaseFit(row'[i], i \in stale')
    <3>1. CASE Claim(w, j)
      BY <3>1, <2>s, <1>o, <1>q, ClaimEffect
    <3>2. CASE Settlement(w, j)
      BY <3>2, <2>s, <1>f, <1>q, SettlementEffect
    <3>3. CASE Heartbeat(w, j) \/ \E b \in BOOLEAN : Checkpoint(w, j, b)
      BY <3>3, <2>s, <1>f, <1>q, RenewEffect
    <3> QED
      BY <2>4, <3>1, <3>2, <3>3 DEF WorkerStatement
  <2> QED
    BY <1>1, <2>1, <2>2, <2>3, <2>4 DEF QuietStep
<1>2. ASSUME NEW o \in Operators, CancelJob(o) PROVE LeaseFit(row'[i], i \in stale')
  <2> DEFINE j == target[o]
             b == seen[o] \in Active
  <2>1. j \in Jobs /\ b \in BOOLEAN
    BY <1>2 DEF CancelJob, TypeOK
  <2>2. CASE UNCHANGED <<queueVars, stale>>
    BY <2>2, <1>f DEF queueVars
  <2>3. CASE CancelWrite(j, b)
    <3>1. stale' = IF b # (row[j].status \in Active) THEN stale \cup {j} ELSE stale
      BY <1>2, <2>3 DEF CancelJob, CancelOutdated, CancelWrite, Cancelable
    <3> HIDE DEF j, b
    <3>2. /\ \A k \in Jobs \ {j} : row'[k] = row[k]
          /\ row[j].status \in Cancelable
          /\ row'[j].status = IF b THEN "cancel_requested" ELSE "canceled"
          /\ row'[j].owner = row[j].owner
      BY <2>1, <2>3, <1>q, CancelEffect
    <3> QED
      BY <2>1, <3>1, <3>2, <1>f DEF Cancelable
  <2> QED
    BY <1>2, <2>2, <2>3 DEF CancelJob
<1>3. ASSUME NEW o \in Operators, ResumeJob(o) PROVE LeaseFit(row'[i], i \in stale')
  <2>1. target[o] \in Jobs /\ (i \in stale => i \in stale')
    BY <1>3 DEF ResumeJob, TypeOK
  <2>2. i = target[o] => row'[i].status = "queued" /\ row'[i].owner = NoOwner
    BY <1>3, <1>q DEF ResumeJob, ResumeWrite, QueueTypeOK
  <2>3. i # target[o] => row'[i] = row[i]
    BY <1>3, <1>q DEF ResumeJob, ResumeWrite, QueueTypeOK
  <2> QED
    BY <2>1, <2>2, <2>3, <1>f
<1> QED
  BY <1>1, <1>2, <1>3, StepKinds

\* A row names an owner exactly as long as there is someone to carry the job out.
THEOREM LeasesOwned == Spec => []LeaseOwnership
<1>1. Init => LeaseOwnership
  <2> SUFFICES ASSUME Init, NEW j \in Jobs PROVE row[j].status = "absent" /\ row[j].owner = NoOwner
    BY DEF LeaseOwnership, Active
  <2> QED
    BY DEF Init, QueueInit
<1>2. TypeOK /\ LeaseOwnership /\ [Next]_vars => LeaseOwnership'
  BY LeaseStep
<1> QED
  BY <1>1, <1>2, TypeCorrect, PTL DEF Spec
-----------------------------------------------------------------------------
(* Sole execution.                                                         *)

\* A worker comes to execute a job by claiming it, and by nothing else.
LEMMA EngagedStep ==
  ASSUME TypeOK, [Next]_vars, NEW w \in Workers, Engaged(w)'
  PROVE  \/ Engaged(w) /\ job'[w] = job[w]
         \/ /\ job'[w] \in Jobs /\ Claim(w, job'[w]) /\ ~Engaged(w)
            /\ UNCHANGED <<forced, stale>>
            /\ \A v \in Workers \ {w} : pc'[v] = pc[v] /\ job'[v] = job[v]
<1> USE DEF Engaged, Goto, TypeOK
<1>1. ASSUME NEW v \in Workers, WorkerStep(v), v # w PROVE pc'[w] = pc[w] /\ job'[w] = job[w]
  BY <1>1 DEF WorkerStep, ClaimJob, Poll, Advance, ExecutionReturns, ExecutionThrows,
     ReadAfterReturn, CompleteJob, CancelReturned, ReadAfterThrow, SettleCanceled, AbandonJob,
     FailJob, Beat, Stop, Crash, Rest, Throw, workerVars
<1>2. CASE ClaimJob(w)
  <2>1. PICK j \in Jobs : Claim(w, j) /\ job' = [job EXCEPT ![w] = j]
    BY <1>2 DEF ClaimJob
  <2> QED
    BY <1>2, <2>1 DEF ClaimJob, operatorVars
<1>3. CASE Poll(w) \/ Advance(w) \/ Beat(w) \/ Stop(w)
  BY <1>3 DEF Poll, Advance, Throw, Beat, Stop, workerVars
<1>4. CASE \/ ExecutionReturns(w) \/ ExecutionThrows(w) \/ ReadAfterReturn(w)
           \/ ReadAfterThrow(w) \/ Crash(w)
  BY <1>4 DEF ExecutionReturns, ExecutionThrows, ReadAfterReturn, ReadAfterThrow, Crash, Throw
<1>5. CASE CompleteJob(w) \/ CancelReturned(w) \/ SettleCanceled(w) \/ AbandonJob(w) \/ FailJob(w)
  BY <1>5 DEF CompleteJob, CancelReturned, SettleCanceled, AbandonJob, FailJob, Rest, Throw
<1>6. ASSUME NEW o \in Operators, OperatorStep(o) PROVE UNCHANGED <<pc, job>>
  BY <1>6 DEF OperatorStep, ReadToCancel, ReadToResume, Read, CancelJob, ResumeJob, Written,
     workerVars
<1>7. ASSUME NEW j \in Jobs, Outside(j) PROVE UNCHANGED <<pc, job>>
  BY <1>7 DEF Outside, workerVars
<1>8. ASSUME UNCHANGED vars PROVE UNCHANGED <<pc, job>>
  BY <1>8 DEF vars, workerVars
<1>9. CASE WorkerStep(w)
  BY <1>2, <1>3, <1>4, <1>5, <1>9 DEF WorkerStep
<1> QED
  BY <1>1, <1>6, <1>7, <1>8, <1>9 DEF Next

\* Worker w keeps job j, or j has been orphaned.
Keeps(r, w) == (r.status \in Active /\ r.owner = w) \/ r.status = "orphaned"

\* While w executes, no step but a forced resumption or an outdated write takes its job away.
LEMMA KeepsStep ==
  ASSUME TypeOK, [Next]_vars, NEW w \in Workers, Engaged(w), NEW i \in Jobs,
         Keeps(row[i], w), i \notin forced' \cup stale'
  PROVE  Keeps(row'[i], w)
<1>q. QueueTypeOK /\ NoOwner \notin Workers
  BY QueueAssumption DEF QueueAssumption, TypeOK
<1> USE DEF Keeps, Active
<1>o. Keeps(Recovered[i], w)
  BY <1>q, SweepEffect
<1>n. row[i].status \notin {"absent", "queued", "retry_scheduled", "failed", "canceled"}
  OBVIOUS
<1>1. CASE QuietStep
  <2>1. CASE row' = row
    BY <2>1
  <2>2. CASE ClaimNothing
    BY <2>2, <1>o DEF ClaimNothing
  <2>3. ASSUME NEW j \in Jobs, OutsideStatement(j) PROVE Keeps(row'[i], w)
    <3>1. CASE Lapse(j)
      BY <3>1, <1>q, RenewEffect
    <3>2. CASE Enqueue(j)
      BY <3>2, <1>q, <1>n DEF Enqueue, QueueTypeOK, Row
    <3>3. CASE BecomeDue(j)
      BY <3>3, <1>q, <1>n DEF BecomeDue, QueueTypeOK, Row, Claimable
    <3> QED
      BY <2>3, <3>1, <3>2, <3>3 DEF OutsideStatement
  <2>4. ASSUME NEW v \in Workers, NEW j \in Jobs, WorkerStatement(v, j) PROVE Keeps(row'[i], w)
    <3>1. CASE Claim(v, j)
      <4>1. j # i
        BY <3>1, <1>n DEF Claim, Ready, Claimable
      <4> QED
        BY <3>1, <4>1, <1>o, <1>q, ClaimEffect
    <3>2. CASE Settlement(v, j) /\ ~Engaged(v)
      <4>1. v # w
        BY <3>2
      <4>2. /\ \A k \in Jobs \ {j} : row'[k] = row[k]
            /\ row[j].status \in Active /\ row[j].owner = v
        BY <3>2, <1>q, SettlementEffect
      <4> QED
        BY <4>1, <4>2
    <3>3. CASE Heartbeat(v, j) \/ \E b \in BOOLEAN : Checkpoint(v, j, b)
      BY <3>3, <1>q, RenewEffect
    <3> QED
      BY <2>4, <3>1, <3>2, <3>3 DEF WorkerStatement
  <2> QED
    BY <1>1, <2>1, <2>2, <2>3, <2>4 DEF QuietStep
<1>2. ASSUME NEW o \in Operators, CancelJob(o) PROVE Keeps(row'[i], w)
  <2> DEFINE j == target[o]
             b == seen[o] \in Active
  <2>1. j \in Jobs /\ b \in BOOLEAN
    BY <1>2 DEF CancelJob, TypeOK
  <2>2. CASE UNCHANGED <<queueVars, stale>>
    BY <2>2 DEF queueVars
  <2>3. CASE CancelWrite(j, b)
    <3>1. stale' = IF b # (row[j].status \in Active) THEN stale \cup {j} ELSE stale
      BY <1>2, <2>3 DEF CancelJob, CancelOutdated, CancelWrite, Cancelable
    <3> HIDE DEF j, b
    <3>2. /\ \A k \in Jobs \ {j} : row'[k] = row[k]
          /\ row[j].status \in Cancelable
          /\ row'[j].status = IF b THEN "cancel_requested" ELSE "canceled"
          /\ row'[j].owner = row[j].owner
      BY <2>1, <2>3, <1>q, CancelEffect
    <3> QED
      BY <2>1, <3>1, <3>2, <1>n DEF Cancelable, Claimable
  <2> QED
    BY <1>2, <2>2, <2>3 DEF CancelJob
<1>3. ASSUME NEW o \in Operators, ResumeJob(o) PROVE Keeps(row'[i], w)
  <2>1. i # target[o]
    BY <1>3, <1>n DEF ResumeJob, ResumeOutdated, Resumable
  <2> QED
    BY <1>3, <2>1, <1>q DEF ResumeJob, ResumeWrite, QueueTypeOK
<1> QED
  BY <1>1, <1>2, <1>3, StepKinds

LEMMA GhostsGrow ==
  ASSUME TypeOK, [Next]_vars
  PROVE  forced \subseteq forced' /\ stale \subseteq stale'
<1>1. ASSUME NEW o \in Operators, CancelJob(o) \/ ResumeJob(o)
      PROVE  forced \subseteq forced' /\ stale \subseteq stale'
  BY <1>1 DEF CancelJob, ResumeJob
<1> QED
  BY <1>1, StepKinds DEF QuietStep

LEMMA HoldsStep ==
  ASSUME TypeOK, TypeOK', Holds, SoleExecution, [Next]_vars
  PROVE  Holds' /\ SoleExecution'
<1>g. forced \subseteq forced' /\ stale \subseteq stale'
  BY GhostsGrow
<1>h. ASSUME NEW w \in Workers, Engaged(w), job[w] \notin forced' \cup stale'
      PROVE  job[w] \in Jobs /\ Keeps(row[job[w]], w)
  BY <1>h, <1>g DEF Holds, Keeps, TypeOK, Engaged
<1>1. ASSUME NEW w \in Workers, Engaged(w)', job'[w] \notin forced' \cup stale'
      PROVE  Keeps(row'[job'[w]], w)
  <2>1. CASE Engaged(w) /\ job'[w] = job[w]
    BY <1>1, <2>1, <1>h, KeepsStep
  <2>2. CASE job'[w] \in Jobs /\ Claim(w, job'[w])
    BY <2>2, ClaimEffect DEF Keeps, Active, TypeOK
  <2> QED
    BY <1>1, <2>1, <2>2, EngagedStep
<1>2. Holds'
  BY <1>1 DEF Holds, Keeps
\* A claim cannot take a job that somebody executes: its row is not claimable.
<1>3. ASSUME NEW v \in Workers, NEW w \in Workers \ {v}, Engaged(v)', Engaged(w)',
             job'[v] = job'[w], job'[v] \notin forced' \cup stale',
             Claim(v, job'[v]), \A u \in Workers \ {v} : pc'[u] = pc[u] /\ job'[u] = job[u]
      PROVE  FALSE
  <2>1. Engaged(w) /\ job[w] = job'[v]
    BY <1>3 DEF Engaged
  <2>2. Keeps(row[job'[v]], w)
    BY <1>3, <2>1, <1>h
  <2>3. row[job'[v]].status \in Claimable
    BY <1>3 DEF Claim, Ready
  <2> QED
    BY <2>2, <2>3 DEF Keeps, Active, Claimable
<1>4. ASSUME NEW v \in Workers, NEW w \in Workers \ {v}, Engaged(v)', Engaged(w)',
             job'[v] = job'[w], job'[v] \notin forced' \cup stale'
      PROVE  FALSE
  <2>1. CASE Engaged(v) /\ job'[v] = job[v] /\ Engaged(w) /\ job'[w] = job[w]
    BY <1>4, <2>1, <1>g DEF SoleExecution, TypeOK
  <2> QED
    BY <1>3, <1>4, <2>1, EngagedStep
<1>5. SoleExecution'
  BY <1>4 DEF SoleExecution, TypeOK
<1> QED
  BY <1>2, <1>5

\* Whatever claims, lapses, recoveries, retries, crashes and cancellations do, two workers
\* execute one job only after a forced replay or an operator's outdated write.
THEOREM ExecutionSole == Spec => []SoleExecution
<1>1. Init => Holds /\ SoleExecution
  BY DEF Init, Holds, SoleExecution, Engaged
<1>2. TypeOK /\ TypeOK' /\ (Holds /\ SoleExecution) /\ [Next]_vars => (Holds /\ SoleExecution)'
  BY HoldsStep
<1> QED
  BY <1>1, <1>2, TypeCorrect, PTL DEF Spec
-----------------------------------------------------------------------------
(* What no step does to a row.                                             *)

LEMMA OrphansKept ==
  ASSUME TypeOK, [Next]_vars, NEW i \in Jobs, row[i].status = "orphaned",
         i \notin forced' \cup stale'
  PROVE  row'[i].status = "orphaned"
<1>q. QueueTypeOK
  BY DEF TypeOK
<1> USE DEF Active, Claimable
<1>o. Recovered[i].status = "orphaned"
  BY <1>q, SweepEffect
<1>1. CASE QuietStep
  <2>1. CASE row' = row \/ ClaimNothing
    BY <2>1, <1>o DEF ClaimNothing
  <2>2. ASSUME NEW j \in Jobs, OutsideStatement(j) PROVE row'[i].status = "orphaned"
    BY <2>2, <1>q DEF OutsideStatement, Enqueue, BecomeDue, Lapse, QueueTypeOK
  <2>3. ASSUME NEW v \in Workers, NEW j \in Jobs, WorkerStatement(v, j)
        PROVE  row'[i].status = "orphaned"
    <3>1. CASE Claim(v, j)
      <4>1. i # j
        BY <3>1 DEF Claim, Ready
      <4> QED
        BY <3>1, <4>1, <1>o, <1>q, ClaimEffect
    <3>2. CASE Settlement(v, j)
      BY <3>2, <1>q, SettlementEffect
    <3>3. CASE Heartbeat(v, j) \/ \E b \in BOOLEAN : Checkpoint(v, j, b)
      BY <3>3, <1>q, RenewEffect
    <3> QED
      BY <2>3, <3>1, <3>2, <3>3 DEF WorkerStatement
  <2> QED
    BY <1>1, <2>1, <2>2, <2>3 DEF QuietStep
<1>2. ASSUME NEW o \in Operators, CancelJob(o) PROVE row'[i].status = "orphaned"
  BY <1>2, <1>q DEF CancelJob, CancelWrite, Cancelable, queueVars, QueueTypeOK
<1>3. ASSUME NEW o \in Operators, ResumeJob(o) PROVE row'[i].status = "orphaned"
  <2>1. i # target[o]
    BY <1>3 DEF ResumeJob, ResumeOutdated
  <2> QED
    BY <1>3, <2>1, <1>q DEF ResumeJob, ResumeWrite, QueueTypeOK
<1> QED
  BY <1>1, <1>2, <1>3, StepKinds

\* An orphaned job is never replayed behind the operator's back.
THEOREM ReplayForced == Spec => NoSilentReplay
<1>1. TypeOK /\ [Next]_vars =>
        [\A j \in Jobs : row[j].status = "orphaned" /\ row'[j].status # "orphaned"
                           => j \in forced' \cup stale']_vars
  BY OrphansKept
<1> QED
  BY <1>1, TypeCorrect, PTL DEF Spec, NoSilentReplay

LEMMA CancelKept ==
  ASSUME TypeOK, [Next]_vars, NEW i \in Jobs, row[i].status = "cancel_requested", i \notin stale'
  PROVE  row'[i].status \in {"cancel_requested", "canceled", "orphaned"}
<1>q. QueueTypeOK
  BY DEF TypeOK
<1> DEFINE Kept(s) == s \in {"cancel_requested", "canceled", "orphaned"}
<1>o. Kept(Recovered[i].status)
  BY <1>q, SweepEffect
<1>1. CASE QuietStep
  <2>1. CASE row' = row \/ ClaimNothing
    BY <2>1, <1>o DEF ClaimNothing
  <2>2. ASSUME NEW j \in Jobs, OutsideStatement(j) PROVE Kept(row'[i].status)
    <3>1. CASE Lapse(j)
      BY <3>1, <1>q, RenewEffect
    <3>2. CASE Enqueue(j) \/ BecomeDue(j)
      BY <3>2, <1>q DEF Enqueue, BecomeDue, Claimable, QueueTypeOK
    <3> QED
      BY <2>2, <3>1, <3>2 DEF OutsideStatement
  <2>3. ASSUME NEW v \in Workers, NEW j \in Jobs, WorkerStatement(v, j)
        PROVE  Kept(row'[i].status)
    <3>1. CASE Claim(v, j)
      <4>1. i # j
        BY <3>1 DEF Claim, Ready, Claimable
      <4> QED
        BY <3>1, <4>1, <1>o, <1>q, ClaimEffect
    <3>2. CASE Complete(v, j) \/ \E b \in BOOLEAN : Fail(v, j, b)
      <4>1. i # j
        BY <3>2 DEF Complete, Fail, Owns
      <4>2. row'[i] = row[i]
        BY <3>2, <4>1, <1>q, SettlementEffect DEF Settlement
      <4> QED
        BY <4>2
    <3>3. CASE MarkCanceled(v, j) \/ Abandon(v, j)
      BY <3>3, <1>q, ReleaseEffect DEF MarkCanceled, Abandon, Statuses, Terminal
    <3>4. CASE Heartbeat(v, j) \/ \E b \in BOOLEAN : Checkpoint(v, j, b)
      BY <3>4, <1>q, RenewEffect
    <3> QED
      BY <2>3, <3>1, <3>2, <3>3, <3>4 DEF WorkerStatement, Settlement
  <2> QED
    BY <1>1, <2>1, <2>2, <2>3 DEF QuietStep
<1>2. ASSUME NEW o \in Operators, CancelJob(o) PROVE Kept(row'[i].status)
  <2> DEFINE j == target[o]
             b == seen[o] \in Active
  <2>1. j \in Jobs /\ b \in BOOLEAN
    BY <1>2 DEF CancelJob, TypeOK
  <2>2. CASE UNCHANGED <<queueVars, stale>>
    BY <2>2 DEF queueVars
  <2>3. CASE CancelWrite(j, b)
    <3> HIDE DEF b
    <3>1. row'[i] = row[i] \/ row'[i].status \in {"cancel_requested", "canceled"}
      BY <2>1, <2>3, <1>q, CancelEffect
    <3> QED
      BY <3>1
  <2> QED
    BY <1>2, <2>2, <2>3 DEF CancelJob
<1>3. ASSUME NEW o \in Operators, ResumeJob(o) PROVE Kept(row'[i].status)
  <2>1. i # target[o]
    BY <1>3 DEF ResumeJob, ResumeOutdated, Resumable
  <2> QED
    BY <1>3, <2>1, <1>q DEF ResumeJob, ResumeWrite, QueueTypeOK
<1> QED
  BY <1>1, <1>2, <1>3, StepKinds

\* A recorded cancellation is never overtaken by a success, a failure or a retry.
THEOREM CancelKeepsItsWord == Spec => CancelHonoured
<1>1. TypeOK /\ [Next]_vars =>
        [\A j \in Jobs : row[j].status = "cancel_requested" /\ j \notin stale'
                           => row'[j].status \in {"cancel_requested", "canceled", "orphaned"}]_vars
  BY CancelKept
<1> QED
  BY <1>1, TypeCorrect, PTL DEF Spec, CancelHonoured
-----------------------------------------------------------------------------
(* What the row says of side effects.                                      *)

\* Only a resumption resets what the row says; every other statement keeps it.
LEMMA EffectsKept ==
  ASSUME TypeOK, QuietStep, NEW i \in Jobs, row[i].effects
  PROVE  row'[i].effects
<1>t. row \in [Jobs -> Row] /\ row[i] \in Row /\ QueueTypeOK
  BY DEF TypeOK, QueueTypeOK
<1>o. Recovered[i].effects /\ Recovered \in [Jobs -> Row]
  <2>1. Orphan(row[i]).effects
    BY <1>t, Zenon DEF Row, Orphan
  <2> QED
    BY <1>t, <2>1, SweepTyped DEF Recovered
<1>1. ASSUME NEW j \in Jobs, OutsideStatement(j) PROVE row'[i].effects
  BY <1>t, <1>1 DEF OutsideStatement, Enqueue, BecomeDue, Lapse, Row
<1>2. ASSUME NEW w \in Workers, NEW j \in Jobs, WorkerStatement(w, j) PROVE row'[i].effects
  <2>1. CASE Claim(w, j)
    BY <2>1, <1>t, <1>o DEF Claim, Row
  <2>2. CASE Heartbeat(w, j)
    BY <2>2, <1>t DEF Heartbeat, Row
  <2>3. ASSUME NEW b \in BOOLEAN, Checkpoint(w, j, b) PROVE row'[i].effects
    BY <2>3, <1>t DEF Checkpoint, Row
  <2>4. ASSUME NEW s \in Statuses, Release(j, s) PROVE row'[i].effects
    <3> DEFINE r == [row[j] EXCEPT !.status = s, !.owner = NoOwner, !.lapsed = FALSE]
    <3>1. r.effects = row[j].effects
      BY <1>t, Zenon DEF Row, QueueTypeOK
    <3> HIDE DEF r
    <3>2. row' = [row EXCEPT ![j] = r]
      BY <2>4 DEF Release, r
    <3> QED
      BY <1>t, <3>1, <3>2
  <2>5. ASSUME NEW b \in BOOLEAN, Fail(w, j, b) PROVE row'[i].effects
    <3> DEFINE r == [row[j] EXCEPT !.status = "retry_scheduled", !.owner = NoOwner,
                                   !.lapsed = FALSE, !.due = FALSE]
    <3>1. r.effects = row[j].effects
      BY <1>t, Zenon DEF Row, QueueTypeOK
    <3> HIDE DEF r
    <3>2. row' = [row EXCEPT ![j] = r] \/ Release(j, "failed")
      BY <2>5 DEF Fail, r
    <3> QED
      BY <1>t, <2>4, <3>1, <3>2 DEF Statuses, Terminal
  <2>6. CASE Complete(w, j) \/ MarkCanceled(w, j) \/ Abandon(w, j)
    BY <2>4, <2>6 DEF Complete, MarkCanceled, Abandon, Statuses, Terminal
  <2> QED
    BY <1>2, <2>1, <2>2, <2>3, <2>5, <2>6 DEF WorkerStatement, Settlement
<1> QED
  BY <1>1, <1>2, <1>o DEF QuietStep, ClaimNothing

LEMMA TruthStep ==
  ASSUME TypeOK, CheckpointTruthful, [Next]_vars
  PROVE  CheckpointTruthful'
<1>t. QueueTypeOK /\ row \in [Jobs -> Row] /\ touched \subseteq Jobs
  BY DEF TypeOK, QueueTypeOK
<1>g. forced \subseteq forced' /\ stale \subseteq stale'
  BY GhostsGrow
<1>1. ASSUME NEW w \in Workers, Advance(w), touched' # touched
      PROVE  /\ touched' = touched \cup {job[w]} /\ job[w] \in Jobs
             /\ row'[job[w]].effects
  <2>1. /\ Checkpoint(w, job[w], TRUE) /\ touched' = touched \cup {job[w]}
        /\ job[w] \in Jobs /\ row[job[w]] \in Row
    BY <1>1, <1>t DEF Advance, Engaged, TypeOK
  <2>2. row'[job[w]].effects = (row[job[w]].effects \/ TRUE)
    BY <1>t, <2>1 DEF Checkpoint, Row
  <2> QED
    BY <2>1, <2>2
<1>2. CASE \E o \in Operators : ResumeJob(o)
  <2>1. PICK o \in Operators : ResumeJob(o)
    BY <1>2
  <2>2. touched' = touched \ {target[o]}
        /\ row' = [row EXCEPT ![target[o]] = [status |-> "queued", attempts |-> 0, owner |-> NoOwner,
                                lapsed |-> FALSE, due |-> TRUE, effects |-> FALSE]]
    BY <2>1 DEF ResumeJob, ResumeWrite
  <2> QED
    BY <1>t, <1>g, <2>2 DEF CheckpointTruthful
<1>3. CASE \E o \in Operators : CancelJob(o)
  BY <1>t, <1>g, <1>3 DEF CancelJob, CancelWrite, CheckpointTruthful, queueVars, Row
<1>4. CASE QuietStep /\ touched' = touched
  BY <1>t, <1>g, <1>4, EffectsKept DEF CheckpointTruthful
<1>5. CASE QuietStep /\ \E w \in Workers : Advance(w) /\ touched' # touched
  <2>1. PICK w \in Workers : Advance(w) /\ touched' # touched
    BY <1>5
  <2> QED
    BY <1>t, <1>g, <1>1, <1>5, <2>1, EffectsKept DEF CheckpointTruthful
<1>6. \/ touched' = touched
      \/ \E w \in Workers : Advance(w)
      \/ \E o \in Operators : ResumeJob(o)
  BY DEF Next, vars, WorkerStep, OperatorStep, Outside, ClaimJob, Poll, Beat, ExecutionReturns,
         ExecutionThrows, ReadAfterReturn, CompleteJob, CancelReturned, ReadAfterThrow,
         SettleCanceled, AbandonJob, FailJob, Stop, Crash, ReadToCancel, ReadToResume, Read, CancelJob
<1> QED
  BY <1>2, <1>3, <1>4, <1>5, <1>6, StepKinds

\* A job whose executor got past its side-effect checkpoint says so in its row, through every
\* crash, lapse, recovery and retry, until it is resumed (docs/workflow-queue.md).
THEOREM EffectsTold == Spec => []CheckpointTruthful
<1>1. Init => CheckpointTruthful
  BY DEF Init, CheckpointTruthful
<1>2. TypeOK /\ CheckpointTruthful /\ [Next]_vars => CheckpointTruthful'
  BY TruthStep
<1> QED
  BY <1>1, <1>2, TypeCorrect, PTL DEF Spec
-----------------------------------------------------------------------------
(* The calls of agents to models.                                          *)

Places == {"route", "request", "sent", "backoff", "tools"} \cup Provider!Ends

\* Where a call may be: with a provider of the route, a try and a round left for what comes next.
PlaceFit ==
  \A a \in Agents :
    /\ providerPc[a] \notin {"route"} \cup Provider!Ends => providerAt[a] \in Route
    /\ providerPc[a] = "backoff" => providerTries[a] < MaxTries
    /\ providerPc[a] = "tools" => round[a] < MaxRounds

\* The agents whose next request the meter has seen before, under the API given up since.
Owed == {a \in Agents : used[a] < metered[a]}

SpendFit ==
  /\ sent \in Nat /\ switches \in Nat
  /\ \A a \in Agents : used[a] <= metered[a] /\ (providerPc[a] = "sent" => used[a] = metered[a])
  /\ sent + Cardinality(Owed) <= counted + switches

\* Unless its connection broke after tools had run, the tools that an agent ran were asked for
\* where its call is now, in a conversation that holds their results.
OnceFit ==
  \A a \in Agents \ cutOff :
    /\ did[a] \subseteq {<<providerAt[a], api[a]>>}
    /\ did[a] # {} => ran[a] /\ providerPc[a] # "route"

CallFit == Provider!TypeOK /\ PlaceFit

\* The calls of other agents stay where they are.
Elsewhere(a) ==
  \A b \in Agents \ {a} : providerPc'[b] = providerPc[b] /\ providerAt'[b] = providerAt[b]

USE DEF Places, Elsewhere
-----------------------------------------------------------------------------
\* The components count as their composition does.
LEMMA SameCount == \A S : Provider!Cardinality(S) = Cardinality(S)
BY Zenon DEF Cardinality, Provider!Cardinality

LEMMA RouteLength == /\ Cardinality(Route) \in Nat /\ Route = 1..Cardinality(Route)
                     /\ Provider!Cardinality(Route) = Cardinality(Route)
BY CallAssumption, SameCount, FS_CardinalityType

LEMMA GivenUp ==
  ASSUME CallFit, NEW a \in Agents, NEW replayable \in BOOLEAN, providerAt[a] \in Route,
         Provider!GiveUp(a, replayable)
  PROVE  /\ providerAt' \in [Agents -> 1..Cardinality(Route) + 1]
         /\ providerPc' \in [Agents -> Places]
         /\ providerPc'[a] \in {"route", "failed"}
         /\ (~replayable => providerPc'[a] = "failed" /\ providerAt' = providerAt)
         /\ Elsewhere(a)
<1>1. providerAt[a] + 1 \in 1..Cardinality(Route) + 1
  BY RouteLength
<1> QED
  BY <1>1, RouteLength DEF Provider!GiveUp, Provider!Goto, CallFit, Provider!TypeOK, Provider!Ends

\* withRetry tries again where a try is left, or gives up.
LEMMA FailedFits ==
  ASSUME CallFit, NEW a \in Agents, NEW replayable \in BOOLEAN, providerPc[a] = "sent",
         Provider!Failed(a, replayable),
         cutOff' \subseteq Agents
  PROVE  /\ CallFit'
         /\ UNCHANGED <<calls, providerTries, round, ran, api, Provider!meter, speaks, stopped, sent, switches, did>>
         /\ providerPc'[a] # "sent"
         /\ Elsewhere(a)
         /\ ~replayable => providerPc'[a] = "failed" /\ providerAt' = providerAt
         /\ providerPc'[a] = "backoff" => providerAt' = providerAt
<1>1. providerAt[a] \in Route
  BY DEF CallFit, PlaceFit, Provider!Ends
<1>2. CASE replayable /\ providerTries[a] < MaxTries /\ Provider!Goto(a, "backoff") /\ UNCHANGED providerAt
  BY <1>1, <1>2
     DEF Provider!Failed, Provider!Goto, CallFit, Provider!TypeOK, PlaceFit, Provider!meter,
         Provider!Ends
<1>3. CASE Provider!GiveUp(a, replayable)
  <2>1. /\ providerAt' \in [Agents -> 1..Cardinality(Route) + 1]
        /\ providerPc' \in [Agents -> Places]
        /\ providerPc'[a] \in {"route", "failed"}
        /\ (~replayable => providerPc'[a] = "failed" /\ providerAt' = providerAt)
        /\ Elsewhere(a)
    BY <1>1, <1>3, GivenUp
  <2> QED
    BY <2>1, RouteLength
       DEF Provider!Failed, CallFit, Provider!TypeOK, PlaceFit, Provider!meter, Provider!Ends
<1> QED
  BY <1>2, <1>3 DEF Provider!Failed

LEMMA CallStep ==
  ASSUME CallFit, [Provider!Next]_(Provider!vars)
  PROVE  CallFit'
<1> USE CallAssumption DEF CallFit
<1>r. /\ Cardinality(Route) \in Nat /\ Route = 1..Cardinality(Route)
      /\ Provider!Cardinality(Route) = Cardinality(Route)
  BY RouteLength
<1>1. ASSUME NEW a \in Agents, Provider!PassOver(a) \/ Provider!NoneLeft(a) PROVE CallFit'
  <2>1. CASE Provider!PassOver(a)
    <3>1. providerAt[a] + 1 \in 1..Cardinality(Route) + 1
      BY <1>r, <2>1 DEF Provider!PassOver
    <3> QED
      BY <1>r, <2>1, <3>1
         DEF Provider!PassOver, Provider!TypeOK, PlaceFit, Provider!meter, Provider!history,
             Provider!Ends
  <2>2. CASE Provider!NoneLeft(a)
    BY <2>2
       DEF Provider!NoneLeft, Provider!Goto, Provider!TypeOK, PlaceFit, Provider!meter,
           Provider!history, Provider!Ends
  <2> QED
    BY <1>1, <2>1, <2>2
<1>2. ASSUME NEW a \in Agents, Provider!Invoke(a) PROVE CallFit'
  <2>1. speaks[providerAt[a]] \in Provider!APIs /\ calls[a] + 1 \in 0..MaxCalls /\ 1 \in 1..MaxTries
    BY <1>2 DEF Provider!Invoke, Provider!TypeOK
  <2> QED
    BY <1>2, <2>1, SMTT(30)
       DEF Provider!Invoke, Provider!Goto, Provider!TypeOK, PlaceFit, Provider!history,
           Provider!Ends
<1>3. ASSUME NEW a \in Agents, Provider!Send(a) PROVE CallFit'
  BY <1>3, SMTT(30) DEF Provider!Send, Provider!Goto, Provider!TypeOK, PlaceFit, Provider!Ends
<1>4. ASSUME NEW a \in Agents, Provider!OverBudget(a) \/ Provider!Interrupted(a) PROVE CallFit'
  <2>1. providerAt[a] \in Route /\ Provider!GiveUp(a, FALSE)
    BY <1>4 DEF Provider!OverBudget, Provider!Interrupted, PlaceFit, Provider!Ends
  <2>2. providerAt' = providerAt /\ providerPc' = [providerPc EXCEPT ![a] = "failed"]
    BY <2>1 DEF Provider!GiveUp, Provider!Goto
  <2> QED
    BY <1>4, <2>2
       DEF Provider!OverBudget, Provider!Interrupted, Provider!TypeOK, PlaceFit, Provider!meter,
           Provider!history, Provider!Ends
<1>5. ASSUME NEW a \in Agents, Provider!ConnectionFails(a) PROVE CallFit'
  BY <1>5, FailedFits DEF Provider!ConnectionFails, Provider!TypeOK
<1>6. ASSUME NEW a \in Agents, Provider!StatusFails(a) PROVE CallFit'
  BY <1>6, FailedFits DEF Provider!StatusFails, Provider!TypeOK
<1>7. ASSUME NEW a \in Agents, Provider!SwitchAPI(a) PROVE CallFit'
  <2>1. providerAt[a] \in Route /\ 1 \in 1..MaxTries /\ {"responses", "chat"} \subseteq Provider!APIs
    BY <1>7 DEF Provider!SwitchAPI, PlaceFit, Provider!Ends, Provider!APIs
  <2> QED
    BY <1>7, <2>1 DEF Provider!SwitchAPI, Provider!Goto, Provider!TypeOK, PlaceFit, Provider!Ends
<1>8. ASSUME NEW a \in Agents, Provider!Answer(a) PROVE CallFit'
  BY <1>8
     DEF Provider!Answer, Provider!Goto, Provider!TypeOK, PlaceFit, Provider!meter,
         Provider!history, Provider!Ends
<1>9. ASSUME NEW a \in Agents, Provider!AskForTools(a) PROVE CallFit'
  <2>1. providerAt[a] \in Route /\ providerAt' = providerAt
        /\ \/ round[a] < MaxRounds /\ providerPc' = [providerPc EXCEPT ![a] = "tools"]
           \/ providerPc' = [providerPc EXCEPT ![a] = "failed"]
    BY <1>9 DEF Provider!AskForTools, PlaceFit, Provider!Ends, Provider!GiveUp, Provider!Goto
  <2> QED
    BY <1>9, <2>1
       DEF Provider!AskForTools, Provider!TypeOK, PlaceFit, Provider!meter, Provider!history,
           Provider!Ends
<1>10. ASSUME NEW a \in Agents, Provider!RunTools(a) PROVE CallFit'
  <2>1. providerAt[a] \in Route /\ round[a] + 1 \in 0..MaxRounds /\ 1 \in 1..MaxTries
    <3>1. providerAt[a] \in Route /\ round[a] < MaxRounds /\ round[a] \in 0..MaxRounds
      BY <1>10 DEF Provider!RunTools, PlaceFit, Provider!TypeOK, Provider!Ends
    <3> QED
      BY <3>1
  <2>2. did' \in [Agents -> SUBSET (Route \X Provider!APIs)]
    BY <1>10, <2>1 DEF Provider!RunTools, Provider!TypeOK
  <2> QED
    BY <1>10, <2>1, <2>2
       DEF Provider!RunTools, Provider!Goto, Provider!TypeOK, PlaceFit, Provider!meter,
           Provider!Ends
<1>11. ASSUME NEW a \in Agents, Provider!TryAgain(a) PROVE CallFit'
  <2>1. providerTries[a] + 1 \in 1..MaxTries
    BY <1>11 DEF Provider!TryAgain, PlaceFit, Provider!TypeOK
  <2> QED
    BY <1>11, <2>1
       DEF Provider!TryAgain, Provider!Goto, Provider!TypeOK, PlaceFit, Provider!meter,
           Provider!history, Provider!Ends
<1>12. ASSUME NEW a \in Agents, Provider!Stop(a) PROVE CallFit'
  BY <1>12
     DEF Provider!Stop, Provider!TypeOK, PlaceFit, Provider!place, Provider!meter,
         Provider!history, Provider!Ends
<1>13. ASSUME UNCHANGED Provider!vars PROVE CallFit'
  BY <1>13
     DEF Provider!vars, Provider!TypeOK, PlaceFit, Provider!place, Provider!meter,
         Provider!history, Provider!Ends
<1> QED
  BY <1>1, <1>2, <1>3, <1>4, <1>5, <1>6, <1>7, <1>8, <1>9, <1>10, <1>11, <1>12, <1>13
     DEF Provider!Next, Provider!Router, Provider!Response, Provider!Adapter
-----------------------------------------------------------------------------
(* What is sent.                                                           *)

\* Agents that stop owing, or one more that owes.
LEMMA OwedCounted ==
  ASSUME NEW a, Owed' \subseteq Owed \cup {a}
  PROVE  /\ Cardinality(Owed) \in Nat /\ Cardinality(Owed') \in Nat
         /\ Cardinality(Owed') <= Cardinality(Owed) + 1
         /\ Owed' \subseteq Owed => Cardinality(Owed') <= Cardinality(Owed)
         /\ a \in Owed /\ a \notin Owed' => Cardinality(Owed') <= Cardinality(Owed) - 1
<1>1. IsFiniteSet(Owed) /\ Cardinality(Owed) \in Nat
  BY CallAssumption, FS_Subset, FS_CardinalityType DEF Owed
<1>2. IsFiniteSet(Owed \cup {a}) /\ Cardinality(Owed \cup {a}) <= Cardinality(Owed) + 1
      /\ Cardinality(Owed \cup {a}) \in Nat
  BY <1>1, FS_AddElement, FS_CardinalityType
<1>3. Cardinality(Owed') \in Nat /\ Cardinality(Owed') <= Cardinality(Owed \cup {a})
  BY <1>2, FS_Subset, FS_CardinalityType
<1>4. Owed' \subseteq Owed => Cardinality(Owed') <= Cardinality(Owed)
  BY <1>1, FS_Subset
<1>5. ASSUME a \in Owed, a \notin Owed' PROVE Cardinality(Owed') <= Cardinality(Owed) - 1
  <2>1. IsFiniteSet(Owed \ {a}) /\ Cardinality(Owed \ {a}) = Cardinality(Owed) - 1
    BY <1>1, <1>5, FS_RemoveElement
  <2>2. Owed' \subseteq Owed \ {a}
    BY <1>5
  <2> QED
    BY <2>1, <2>2, FS_Subset
<1> QED
  BY <1>1, <1>2, <1>3, <1>4, <1>5

LEMMA SpendStep ==
  ASSUME CallFit, SpendFit, [Provider!Next]_(Provider!vars)
  PROVE  SpendFit'
<1>t. /\ used \in [Agents -> Nat] /\ metered \in [Agents -> Nat] /\ counted \in Nat
      /\ providerPc \in [Agents -> Places]
      /\ sent \in Nat /\ switches \in Nat
      /\ \A b \in Agents : used[b] <= metered[b] /\ (providerPc[b] = "sent" => used[b] = metered[b])
      /\ sent + Cardinality(Owed) <= counted + switches
  BY CallAssumption DEF CallFit, Provider!TypeOK, SpendFit
<1>1. ASSUME UNCHANGED <<Provider!meter, sent, switches>>, \A b \in Agents : providerPc'[b] = "sent" => providerPc[b] = "sent"
      PROVE  SpendFit'
  BY <1>t, <1>1 DEF SpendFit, Owed, Provider!meter
<1>2. ASSUME NEW a \in Agents, Provider!Invoke(a) PROVE SpendFit'
  <2>1. /\ used' = [used EXCEPT ![a] = 0] /\ metered' = [metered EXCEPT ![a] = 0]
        /\ UNCHANGED <<sent, switches, counted>>
        /\ providerPc' = [providerPc EXCEPT ![a] = "request"]
    BY <1>2 DEF Provider!Invoke, Provider!Goto, Provider!history
  <2>2. Owed' \subseteq Owed
    BY <1>t, <2>1 DEF Owed
  <2> QED
    BY <1>t, <2>1, <2>2, OwedCounted DEF SpendFit
<1>3. ASSUME NEW a \in Agents, Provider!Send(a) PROVE SpendFit'
  <2>1. /\ sent' = sent + 1 /\ switches' = switches
        /\ used' = [used EXCEPT ![a] = used[a] + 1]
        /\ metered' = [metered EXCEPT ![a] = used[a] + 1]
        /\ counted' = IF used[a] + 1 > metered[a] THEN counted + 1 ELSE counted
        /\ providerPc' = [providerPc EXCEPT ![a] = "sent"]
    BY <1>3 DEF Provider!Send, Provider!Goto
  <2>2. Owed' = Owed \ {a}
    BY <1>t, <2>1 DEF Owed
  <2>3. \A b \in Agents : used'[b] <= metered'[b] /\ (providerPc'[b] = "sent" => used'[b] = metered'[b])
    BY <1>t, <2>1
  <2>4. CASE a \in Owed
    <3>1. counted' = counted
      BY <1>t, <2>1, <2>4 DEF Owed
    <3>2. Cardinality(Owed') <= Cardinality(Owed) - 1
          /\ Cardinality(Owed) \in Nat /\ Cardinality(Owed') \in Nat
      BY <2>2, <2>4, OwedCounted
    <3> QED
      BY <1>t, <2>1, <2>3, <3>1, <3>2 DEF SpendFit
  <2>5. CASE a \notin Owed
    <3>1. counted' = counted + 1
      BY <1>t, <2>1, <2>5 DEF Owed
    <3>2. Owed' = Owed
      BY <2>2, <2>5
    <3> QED
      BY <1>t, <2>1, <2>3, <3>1, <3>2, OwedCounted DEF SpendFit
  <2> QED
    BY <2>4, <2>5
<1>4. ASSUME NEW a \in Agents, Provider!SwitchAPI(a) PROVE SpendFit'
  <2>1. /\ sent' = sent /\ switches' = switches + 1 /\ used' = [used EXCEPT ![a] = 0]
        /\ UNCHANGED <<metered, counted>> /\ providerPc' = [providerPc EXCEPT ![a] = "request"]
    BY <1>4 DEF Provider!SwitchAPI, Provider!Goto
  <2>2. Owed' \subseteq Owed \cup {a}
    BY <1>t, <2>1 DEF Owed
  <2>3. Cardinality(Owed') <= Cardinality(Owed) + 1
        /\ Cardinality(Owed) \in Nat /\ Cardinality(Owed') \in Nat
    BY <2>2, OwedCounted
  <2>4. \A b \in Agents : used'[b] <= metered'[b] /\ (providerPc'[b] = "sent" => used'[b] = metered'[b])
    BY <1>t, <2>1
  <2> QED
    BY <1>t, <2>1, <2>3, <2>4 DEF SpendFit
<1>5. ASSUME NEW a \in Agents, Provider!GiveUp(a, FALSE)
      PROVE  \A b \in Agents : providerPc'[b] = "sent" => providerPc[b] = "sent"
  BY <1>t, <1>5 DEF Provider!GiveUp, Provider!Goto
<1>6. ASSUME NEW a \in Agents, Provider!ConnectionFails(a) \/ Provider!StatusFails(a)
      PROVE  SpendFit'
  <2>1. PICK replayable \in BOOLEAN : Provider!Failed(a, replayable)
    BY <1>6 DEF Provider!ConnectionFails, Provider!StatusFails
  <2>2. providerPc[a] = "sent" /\ cutOff' \subseteq Agents
    BY <1>6 DEF Provider!ConnectionFails, Provider!StatusFails, CallFit, Provider!TypeOK
  <2> QED
    BY <1>1, <2>1, <2>2, FailedFits
<1>7. ASSUME NEW a \in Agents,
             \/ Provider!PassOver(a) \/ Provider!NoneLeft(a) \/ Provider!Answer(a)
             \/ Provider!RunTools(a) \/ Provider!TryAgain(a) \/ Provider!Stop(a)
      PROVE  SpendFit'
  BY <1>t, <1>1, <1>7
     DEF Provider!PassOver, Provider!NoneLeft, Provider!Answer, Provider!RunTools,
         Provider!TryAgain, Provider!Stop, Provider!Goto, Provider!history, Provider!place
<1>8. ASSUME NEW a \in Agents,
             Provider!OverBudget(a) \/ Provider!Interrupted(a) \/ Provider!AskForTools(a)
      PROVE  SpendFit'
  BY <1>t, <1>1, <1>5, <1>8
     DEF Provider!OverBudget, Provider!Interrupted, Provider!AskForTools, Provider!Goto,
         Provider!history
<1>9. ASSUME UNCHANGED Provider!vars PROVE SpendFit'
  BY <1>1, <1>9 DEF Provider!vars, Provider!place, Provider!history
<1> QED
  BY <1>2, <1>3, <1>4, <1>6, <1>7, <1>8, <1>9
     DEF Provider!Next, Provider!Router, Provider!Response, Provider!Adapter
-----------------------------------------------------------------------------
(* What was asked for.                                                     *)

LEMMA OnceStep ==
  ASSUME CallFit, OnceFit, [Provider!Next]_(Provider!vars)
  PROVE  OnceFit'
<1>t. /\ providerAt \in [Agents -> 1..Cardinality(Route) + 1] /\ ran \in [Agents -> BOOLEAN]
      /\ providerPc \in [Agents -> Places]
      /\ api \in [Agents -> Provider!APIs] /\ did \in [Agents -> SUBSET (Route \X Provider!APIs)]
  BY SameCount DEF CallFit, Provider!TypeOK
\* A call that stays with its provider and API, and in its conversation.
<1>1. ASSUME NEW a \in Agents, UNCHANGED <<ran, did>>, cutOff \subseteq cutOff',
             Elsewhere(a), \A b \in Agents \ {a} : api'[b] = api[b],
             \/ a \in cutOff'
             \/ ~ran[a]
             \/ providerAt'[a] = providerAt[a] /\ api'[a] = api[a] /\ providerPc'[a] # "route"
      PROVE  OnceFit'
  BY <1>1 DEF OnceFit
<1>2. ASSUME NEW a \in Agents, Provider!PassOver(a) \/ Provider!NoneLeft(a) PROVE OnceFit'
  BY <1>t, <1>2 DEF Provider!PassOver, Provider!NoneLeft, Provider!Goto, Provider!history, OnceFit
<1>3. ASSUME NEW a \in Agents, Provider!Invoke(a) PROVE OnceFit'
  BY <1>t, <1>3 DEF Provider!Invoke, Provider!Goto, Provider!history, OnceFit
<1>4. ASSUME NEW a \in Agents, Provider!ConnectionFails(a) PROVE OnceFit'
  <2>1. cutOff' \subseteq Agents
    BY <1>4 DEF Provider!ConnectionFails, CallFit, Provider!TypeOK
  <2>2. UNCHANGED <<api, ran, did>> /\ Elsewhere(a)
    BY <1>4, <2>1, FailedFits DEF Provider!ConnectionFails
  <2> QED
    BY <1>1, <1>4, <2>2 DEF Provider!ConnectionFails
<1>5. ASSUME NEW a \in Agents, Provider!StatusFails(a) PROVE OnceFit'
  <2>1. PICK retryable \in BOOLEAN : Provider!Failed(a, retryable /\ ~ran[a])
    BY <1>5 DEF Provider!StatusFails
  <2>2. (retryable /\ ~ran[a]) \in BOOLEAN /\ cutOff' \subseteq Agents
    BY <1>5 DEF Provider!StatusFails, CallFit, Provider!TypeOK
  <2>3. /\ UNCHANGED <<api, ran, did>>
        /\ Elsewhere(a)
        /\ ~(retryable /\ ~ran[a]) => providerPc'[a] = "failed" /\ providerAt' = providerAt
    <3>1. PICK replayable \in BOOLEAN : replayable = (retryable /\ ~ran[a])
      BY <2>2
    <3>2. Provider!Failed(a, replayable) /\ providerPc[a] = "sent"
      BY <1>5, <2>1, <3>1 DEF Provider!StatusFails
    <3> QED
      BY <2>2, <3>1, <3>2, FailedFits
  <2> QED
    BY <1>1, <1>5, <2>3 DEF Provider!StatusFails
<1>6. ASSUME NEW a \in Agents, Provider!SwitchAPI(a) PROVE OnceFit'
  BY <1>t, <1>1, <1>6 DEF Provider!SwitchAPI, Provider!Goto
<1>7. ASSUME NEW a \in Agents, Provider!RunTools(a) PROVE OnceFit'
  BY <1>t, <1>7 DEF Provider!RunTools, Provider!Goto, OnceFit
<1>8. ASSUME NEW a \in Agents, Provider!GiveUp(a, FALSE)
      PROVE  providerAt' = providerAt /\ providerPc' = [providerPc EXCEPT ![a] = "failed"]
  BY <1>8 DEF Provider!GiveUp, Provider!Goto
<1>9. ASSUME NEW a \in Agents,
             Provider!OverBudget(a) \/ Provider!Interrupted(a) \/ Provider!AskForTools(a)
      PROVE  OnceFit'
  BY <1>t, <1>1, <1>8, <1>9
     DEF Provider!OverBudget, Provider!Interrupted, Provider!AskForTools, Provider!Goto,
         Provider!history
<1>10. ASSUME NEW a \in Agents,
              Provider!Send(a) \/ Provider!Answer(a) \/ Provider!TryAgain(a) \/ Provider!Stop(a)
      PROVE  OnceFit'
  BY <1>t, <1>10
     DEF Provider!Send, Provider!Answer, Provider!TryAgain, Provider!Stop, Provider!Goto,
         Provider!history, Provider!place, OnceFit
<1>11. ASSUME UNCHANGED Provider!vars PROVE OnceFit'
  BY <1>11 DEF Provider!vars, Provider!place, Provider!history, OnceFit
<1> QED
  BY <1>2, <1>3, <1>4, <1>5, <1>6, <1>7, <1>9, <1>10, <1>11
     DEF Provider!Next, Provider!Router, Provider!Response, Provider!Adapter
-----------------------------------------------------------------------------
\* In the composition, the calls to models take their own steps only.
LEMMA CallsMove == [ProgressNext]_progressVars => [Provider!Next]_(Provider!vars)
BY DEF ProgressNext, QueueStep, AskingStep, RunningStep, PluginsStep, ProviderStep, ServerStep,
   progressVars,
   providerVars, Provider!vars, Provider!place, Provider!meter, Provider!history

LEMMA StartsFit ==
  ASSUME Provider!Init
  PROVE  CallFit /\ SpendFit /\ OnceFit
<1>r. /\ Cardinality(Route) \in Nat /\ Route = 1..Cardinality(Route)
      /\ Provider!Cardinality(Route) = Cardinality(Route)
  BY RouteLength
<1>1. PlaceFit /\ OnceFit
  BY DEF Provider!Init, PlaceFit, OnceFit, Provider!Ends
<1>2. Provider!TypeOK
  BY <1>r, CallAssumption DEF Provider!Init, Provider!TypeOK, Provider!APIs, Provider!Ends
<1>3. SpendFit
  <2>1. Owed = {}
    BY DEF Provider!Init, Owed
  <2> QED
    BY <2>1, FS_EmptySet DEF Provider!Init, SpendFit
<1> QED
  BY <1>1, <1>2, <1>3 DEF CallFit

\* What the invariants say of the counts.
LEMMA Counted == ASSUME CallFit, SpendFit, OnceFit PROVE Provider!CallsAreCounted
<1>1. Provider!SpendingBounded
  <2>1. Cardinality(Owed) \in Nat /\ counted \in 0..Limit
    <3>1. Cardinality(Owed) \in Nat
      BY CallAssumption, FS_Subset, FS_CardinalityType DEF Owed
    <3> QED
      BY <3>1 DEF CallFit, Provider!TypeOK
  <2> QED
    BY <2>1, CallAssumption DEF SpendFit, Provider!SpendingBounded
<1>2. Provider!ToolsRunOnce
  <2> SUFFICES ASSUME NEW a \in Agents, a \notin cutOff PROVE Cardinality(did[a]) \in {0, 1}
    BY SameCount DEF Provider!ToolsRunOnce
  <2>1. did[a] \subseteq {<<providerAt[a], api[a]>>}
    BY DEF OnceFit
  <2>2. did[a] = {} \/ did[a] = {<<providerAt[a], api[a]>>}
    BY <2>1
  <2> QED
    BY <2>2, FS_EmptySet, FS_Singleton
<1> QED
  BY <1>1, <1>2 DEF Provider!CallsAreCounted

\* Every reachable state of the calls is well typed, and no count passes its limit.
THEOREM CallsTypeCorrect == ProgressSpec => []Provider!TypeOK
<1>1. ProgressInit => CallFit
  BY StartsFit DEF ProgressInit
<1>2. CallFit /\ [ProgressNext]_progressVars => CallFit'
  <2>1. [ProgressNext]_progressVars => [Provider!Next]_(Provider!vars)
    BY CallsMove
  <2> QED
    BY <2>1, CallStep
<1>3. CallFit => Provider!TypeOK
  BY DEF CallFit
<1> QED
  BY <1>1, <1>2, <1>3, PTL DEF ProgressSpec

\* All agents of a workflow together send at most its limit of requests, and one for each change
\* of API; and the tools of a task are asked for once, unless the connection broke after they had
\* run (usage-meter.js, retry.js, openai-compatible.js).
THEOREM CallsAlwaysCounted == ProgressSpec => []CallsAreCounted
<1>1. ProgressInit => CallFit /\ SpendFit /\ OnceFit
  BY StartsFit DEF ProgressInit
<1>2. CallFit /\ SpendFit /\ OnceFit /\ [ProgressNext]_progressVars => CallFit' /\ SpendFit' /\ OnceFit'
  <2>1. [ProgressNext]_progressVars => [Provider!Next]_(Provider!vars)
    BY CallsMove
  <2> QED
    BY <2>1, CallStep, SpendStep, OnceStep
<1>3. CallFit /\ SpendFit /\ OnceFit => CallsAreCounted
  BY Counted DEF CallsAreCounted
<1> QED
  BY <1>1, <1>2, <1>3, PTL DEF ProgressSpec
-----------------------------------------------------------------------------
(* The tool server of a run.                                               *)

Requesting == {"initialize", "list", "call"}

USE DEF Requesting

\* A request belongs to its caller, who waits for it; a server that is stopped is closed, and one
\* that is gone was killed, unless it never started.
ServerFit ==
  /\ mcpAt \in [Server!Callers -> Server!Stages]
  /\ heard \in [Server!Callers -> [asked : Nat, got : Nat]]
  /\ nextId \in Nat
  /\ \A i \in DOMAIN pending :
       pending[i] \in Server!Callers /\ heard[pending[i]].asked = i /\ mcpAt[pending[i]] \in Requesting
  /\ \A c \in Server!Callers : heard[c].got \in {0, heard[c].asked}
  /\ child = "none" => DOMAIN pending = {} /\ pipe = <<>>
  /\ stop # "no" => closed
  /\ stop = "kill" => killed
  /\ stop = "done" => child = "unstarted" \/ (killed /\ child # "running")

\* Whoever waits hears an error.
LEMMA ErrorHeard ==
  ASSUME ServerFit,
         heard' = [c \in Server!Callers |->
                     IF Server!Waiting(c) THEN [heard[c] EXCEPT !.got = 0] ELSE heard[c]]
  PROVE  /\ heard' \in [Server!Callers -> [asked : Nat, got : Nat]]
         /\ \A c \in Server!Callers : heard'[c].got \in {0, heard'[c].asked}
<1>1. ASSUME NEW c \in Server!Callers
      PROVE  heard'[c] \in [asked : Nat, got : Nat] /\ heard'[c].got \in {0, heard'[c].asked}
  <2>1. heard[c] \in [asked : Nat, got : Nat] /\ heard[c].got \in {0, heard[c].asked}
    BY DEF ServerFit
  <2>2. heard'[c] \in {[heard[c] EXCEPT !.got = 0], heard[c]}
    OBVIOUS
  <2> QED
    BY <2>1, <2>2
<1> QED
  BY <1>1

\* Everybody who waits hears an error; the rest is as it was.
LEMMA ClosedFits ==
  ASSUME ServerFit, Server!Close, UNCHANGED <<child, killed, nextId>>, child # "none"
  PROVE  ServerFit'
<1>1. DOMAIN pending' = {}
  BY DEF Server!Close, Server!NoPending
<1>2. mcpAt' \in [Server!Callers -> Server!Stages]
  BY DEF Server!Close, ServerFit, Server!After, Server!Stages
<1>3. /\ heard' \in [Server!Callers -> [asked : Nat, got : Nat]]
      /\ \A c \in Server!Callers : heard'[c].got \in {0, heard'[c].asked}
  BY ErrorHeard DEF Server!Close
<1> QED
  <2>1. /\ closed' = TRUE /\ stop' \in {stop, "done", "term"}
        /\ stop' = "done" => stop = "done" \/ child = "unstarted"
    BY DEF Server!Close, ServerFit
  <2> QED
    BY <1>1, <1>2, <1>3, <2>1 DEF ServerFit, Server!Asking

\* The request with this id, if there is one, has its answer.
LEMMA SettledFits ==
  ASSUME ServerFit, NEW i, Server!Settle(i, i),
         UNCHANGED <<killed, nextId, closed, stop, child>>, child # "none"
  PROVE  ServerFit'
<1>1. CASE i \notin DOMAIN pending
  BY <1>1 DEF Server!Settle, ServerFit, Server!Asking
<1>2. CASE i \in DOMAIN pending
  <2>1. PICK c \in Server!Callers : c = pending[i] /\ heard[c].asked = i
    BY <1>2 DEF ServerFit
  <2>2. /\ pending' = [j \in DOMAIN pending \ {i} |-> pending[j]]
        /\ mcpAt' = [mcpAt EXCEPT ![c] = Server!After(c, i # 0)]
        /\ heard' = [heard EXCEPT ![c].got = i]
    BY <1>2, <2>1 DEF Server!Settle
  <2>3. heard[c] \in [asked : Nat, got : Nat] /\ i \in Nat
    BY <2>1 DEF ServerFit
  <2>4. /\ heard' \in [Server!Callers -> [asked : Nat, got : Nat]]
        /\ \A d \in Server!Callers : heard'[d].got \in {0, heard'[d].asked}
        /\ \A d \in Server!Callers : heard'[d].asked = heard[d].asked
    BY <2>1, <2>2, <2>3 DEF ServerFit
  <2>5. mcpAt' \in [Server!Callers -> Server!Stages]
    BY <2>2 DEF ServerFit, Server!After, Server!Stages
  <2>6. ASSUME NEW j \in DOMAIN pending'
        PROVE  pending'[j] \in Server!Callers /\ heard'[pending'[j]].asked = j /\ mcpAt'[pending'[j]] \in Requesting
    <3>1. j \in DOMAIN pending \ {i} /\ pending'[j] = pending[j]
      BY <2>2
    <3>2. pending[j] \in Server!Callers /\ heard[pending[j]].asked = j /\ mcpAt[pending[j]] \in Requesting
      BY <3>1 DEF ServerFit
    <3>3. pending[j] # c
      BY <2>1, <3>1, <3>2
    <3> QED
      BY <2>2, <2>4, <3>1, <3>2, <3>3 DEF Server!Asking, ServerFit
  <2> QED
    BY <1>2, <2>4, <2>5, <2>6 DEF ServerFit, Server!Asking
<1> QED
  BY <1>1, <1>2

\* A request that is sent by one who waits for no other.
LEMMA SentFits ==
  ASSUME ServerFit, NEW c \in Server!Callers, NEW stage \in {"list", "call"}, Server!Send(c, stage),
         \A i \in DOMAIN pending : pending[i] # c,
         UNCHANGED <<killed, closed, stop, child, pipe>>
  PROVE  ServerFit'
<1>1. CASE closed \/ child = "none" \/ Server!Cardinality(DOMAIN pending) >= MaxPending
  <2>1. /\ mcpAt' = [mcpAt EXCEPT ![c] = IF stage = "call" THEN "idle" ELSE "failed"]
        /\ heard' = [heard EXCEPT ![c] = [asked |-> 0, got |-> 0]]
        /\ UNCHANGED <<pending, nextId>>
    BY <1>1 DEF Server!Send
  <2>2. mcpAt' \in [Server!Callers -> Server!Stages]
    BY <2>1 DEF ServerFit, Server!Stages
  <2> QED
    BY <2>1, <2>2 DEF ServerFit, Server!Asking
<1>2. CASE ~(closed \/ child = "none" \/ Server!Cardinality(DOMAIN pending) >= MaxPending)
  <2>1. /\ nextId' = nextId + 1
        /\ pending' = [i \in DOMAIN pending \cup {nextId} |-> IF i = nextId THEN c ELSE pending[i]]
        /\ mcpAt' = [mcpAt EXCEPT ![c] = stage]
        /\ heard' = [heard EXCEPT ![c] = [asked |-> nextId, got |-> 0]]
    BY <1>2 DEF Server!Send
  <2>2. mcpAt' \in [Server!Callers -> Server!Stages]
    BY <2>1 DEF ServerFit, Server!Stages
  <2>3. heard' \in [Server!Callers -> [asked : Nat, got : Nat]]
        /\ \A d \in Server!Callers : heard'[d].got \in {0, heard'[d].asked}
    BY <2>1 DEF ServerFit
  <2>4. \A i \in DOMAIN pending' :
           pending'[i] \in Server!Callers /\ heard'[pending'[i]].asked = i /\ mcpAt'[pending'[i]] \in Requesting
    BY <2>1 DEF ServerFit, Server!Asking
  <2> QED
    BY <1>2, <2>1, <2>2, <2>3, <2>4 DEF ServerFit, Server!Asking
<1> QED
  BY <1>1, <1>2

LEMMA ServerFitStep ==
  ASSUME ServerFit, [Server!Next]_(Server!vars)
  PROVE  ServerFit'
<1>1. CASE Server!Initialize
  <2>1. "session" \in Server!Callers
    BY DEF Server!Callers
  <2> QED
    BY <1>1, <2>1 DEF Server!Initialize, ServerFit, Server!Asking, Server!Stages
<1>2. CASE Server!ListTools
  <2>1. "session" \in Server!Callers /\ \A i \in DOMAIN pending : pending[i] # "session"
    BY <1>2 DEF Server!ListTools, Server!Waiting, Server!Callers
  <2> QED
    BY <1>2, <2>1, SentFits DEF Server!ListTools
<1>3. ASSUME Server!TakeList \/ \E c \in Agents : Server!Ask(c) PROVE ServerFit'
  <2>1. PICK c \in Server!Callers, to \in {"ready", "failed", "asking"} :
          ~Server!Asking(c) /\ mcpAt' = [mcpAt EXCEPT ![c] = to]
    BY <1>3 DEF Server!TakeList, Server!Ask, Server!Callers, Server!Asking
  <2>2. UNCHANGED <<child, killed, closed, pending, nextId, stop, pipe, heard>>
    BY <1>3 DEF Server!TakeList, Server!Ask
  <2> QED
    BY <2>1, <2>2 DEF ServerFit, Server!Asking, Server!Stages
<1>4. ASSUME NEW c \in Agents, Server!CallTool(c) PROVE ServerFit'
  <2>1. c \in Server!Callers /\ \A i \in DOMAIN pending : pending[i] # c
    BY <1>4 DEF Server!CallTool, Server!Callers, ServerFit, Server!Asking
  <2>2. CASE Server!Send(c, "call")
    BY <1>4, <2>1, <2>2, SentFits DEF Server!CallTool
  <2>3. CASE mcpAt' = [mcpAt EXCEPT ![c] = "idle"] /\ UNCHANGED <<pending, nextId, inbox, heard>>
    BY <1>4, <2>1, <2>3 DEF Server!CallTool, ServerFit, Server!Asking, Server!Stages
  <2> QED
    BY <1>4, <2>2, <2>3 DEF Server!CallTool
<1>5. ASSUME NEW c \in Server!Callers, Server!GiveUp(c) PROVE ServerFit'
  <2>1. child # "none"
    BY <1>5 DEF Server!GiveUp, Server!Waiting, ServerFit
  <2> QED
    BY <1>5, <2>1, ClosedFits DEF Server!GiveUp
<1>6. CASE Server!Deliver
  <2>1. child # "none"
    BY <1>6 DEF Server!Deliver, ServerFit
  <2>2. PICK i : i = Head(pipe)
    OBVIOUS
  <2>3. CASE i = 0
    <3>1. Server!Close
      BY <1>6, <2>2, <2>3 DEF Server!Deliver
    <3> QED
      BY <1>6, <2>1, <3>1, ClosedFits DEF Server!Deliver
  <2>4. CASE i # 0
    BY <1>6, <2>1, <2>2, <2>4, SettledFits DEF Server!Deliver
  <2> QED
    BY <2>3, <2>4
<1>7. CASE Server!ExitNoticed
  BY <1>7, ClosedFits DEF Server!ExitNoticed
<1>8. CASE Server!Leave
  <2>1. mcpAt' \in [Server!Callers -> Server!Stages]
    BY <1>8 DEF Server!Leave, ServerFit, Server!After, Server!Stages
  <2>2. /\ heard' \in [Server!Callers -> [asked : Nat, got : Nat]]
        /\ \A c \in Server!Callers : heard'[c].got \in {0, heard'[c].asked}
    BY <1>8, ErrorHeard DEF Server!Leave
  <2>3. DOMAIN pending' = {}
    BY <1>8 DEF Server!Leave, Server!NoPending
  <2> QED
    <3>1. /\ closed' = TRUE /\ stop' \in {stop, "done", "term"}
          /\ stop' = "done" => stop = "done" \/ child = "unstarted"
          /\ UNCHANGED <<child, killed, nextId, pipe>>
      BY <1>8 DEF Server!Leave, ServerFit
    <3> QED
      BY <2>1, <2>2, <2>3, <3>1 DEF ServerFit, Server!Asking
<1>9. CASE Server!Kill \/ Server!Stopped
  BY <1>9 DEF Server!Kill, Server!Stopped, ServerFit, Server!Asking
<1>10. CASE Server!Answer \/ Server!BadOutput
  BY <1>10 DEF Server!Answer, Server!BadOutput, ServerFit, Server!Asking
<1>11. CASE Server!Exit
  BY <1>11 DEF Server!Exit, ServerFit, Server!Asking
<1>12. CASE UNCHANGED Server!vars
  BY <1>12 DEF Server!vars, ServerFit, Server!Asking
<1> QED
  BY <1>1, <1>2, <1>3, <1>4, <1>5, <1>6, <1>7, <1>8, <1>9, <1>10, <1>11, <1>12 DEF Server!Next
-----------------------------------------------------------------------------
(* The plugins of a harness.                                               *)

Lives     == {"unborn", "up", "closing", "killed", "gone"}
Questions == {"none", "inspect", "setup", "event", "shutdown"}

USE DEF Lives, Questions

\* A call of a plugin; whoever waits for an answer waits for a worker.
HostedCall ==
  {k \in [to : Hosted \cup {0}, is : {"idle", "pending", "answered", "failed"}] :
     k.is = "pending" => k.to \in Hosted}

\* While plugins are loaded, every worker that was started is kept; whoever has to answer is held.
HostFit ==
  /\ loader.phase \in {"start", "setup", "emit", "done", "failed"}
  /\ life \in [Hosted -> Lives]
  /\ asked \in [Hosted -> Questions]
  /\ pluginCall \in [HostCalls -> HostedCall]
  /\ loader.phase \notin {"done", "failed"} => \A p \in Hosted : life[p] # "unborn" => p \in kept
  /\ kept \subseteq pluginHeld
  /\ \A p \in Hosted :
       life[p] \in Plugins!Open /\ (Plugins!Waiting(p) # {} \/ asked[p] # "none") => p \in pluginHeld

\* A host that ends its worker fails what it waits for.
LEMMA TerminatedFits ==
  ASSUME HostFit, NEW P \in SUBSET Hosted, NEW also \in SUBSET HostCalls, Plugins!Terminate(P, also)
  PROVE  /\ life' \in [Hosted -> Lives]
         /\ asked' \in [Hosted -> Questions]
         /\ pluginCall' \in [HostCalls -> HostedCall]
         /\ \A p \in Hosted : /\ life'[p] \in Plugins!Open => p \notin P /\ life[p] = life'[p]
                              /\ life'[p] # "unborn" => life[p] # "unborn"
                              /\ asked'[p] \in {"none", asked[p]}
                              /\ Plugins!Waiting(p)' \subseteq Plugins!Waiting(p)
<1>1. life' \in [Hosted -> Lives]
      /\ asked' \in [Hosted -> Questions]
  BY DEF HostFit, Plugins!Terminate
<1>2. PICK S : pluginCall' = [c \in HostCalls |->
                                IF c \in S THEN [pluginCall[c] EXCEPT !.is = "failed"] ELSE pluginCall[c]]
  BY DEF Plugins!Terminate, Plugins!Settle
<1>3. /\ pluginCall' \in [HostCalls -> HostedCall]
      /\ \A p \in Hosted : Plugins!Waiting(p)' \subseteq Plugins!Waiting(p)
  BY <1>2 DEF HostFit, Plugins!Waiting, HostedCall
<1>4. \A p \in Hosted : /\ life'[p] \in Plugins!Open => p \notin P /\ life[p] = life'[p]
                        /\ life'[p] # "unborn" => life[p] # "unborn"
                        /\ asked'[p] \in {"none", asked[p]}
  BY DEF HostFit, Plugins!Terminate, Plugins!Open
<1> QED
  BY <1>1, <1>3, <1>4

\* A worker on which something came to an end, and what had to be said to others.
LEMMA IdleFits ==
  ASSUME HostFit, NEW S, Plugins!Idle(S, {}), UNCHANGED <<loader, kept>>,
         life' \in [Hosted -> Lives],
         asked' \in [Hosted -> Questions],
         pluginCall' \in [HostCalls -> HostedCall],
         \A p \in Hosted : /\ life'[p] \in Plugins!Open => life[p] = life'[p]
                           /\ life'[p] # "unborn" => life[p] # "unborn"
                           /\ asked'[p] \in {"none", asked[p]}
                           /\ Plugins!Waiting(p)' \subseteq Plugins!Waiting(p)
  PROVE  HostFit'
<1>1. kept' \subseteq pluginHeld'
  BY DEF HostFit, Plugins!Idle
<1>2. ASSUME NEW p \in Hosted, life'[p] \in Plugins!Open,
             Plugins!Waiting(p)' # {} \/ asked'[p] # "none"
      PROVE  p \in pluginHeld'
  <2>1. p \in pluginHeld
    BY <1>2 DEF HostFit
  <2> QED
    BY <1>2, <2>1 DEF Plugins!Idle
<1> QED
  BY <1>1, <1>2 DEF HostFit

\* The same where nothing is let go, and who is asked more is held.
LEMMA HeldFits ==
  ASSUME HostFit, pluginHeld \subseteq pluginHeld', kept' \subseteq pluginHeld',
         loader'.phase \in {"start", "setup", "emit", "done", "failed"},
         loader'.phase \notin {"done", "failed"} =>
           loader.phase \notin {"done", "failed"} /\ kept \subseteq kept',
         life' \in [Hosted -> Lives],
         asked' \in [Hosted -> Questions],
         pluginCall' \in [HostCalls -> HostedCall],
         \A p \in Hosted : \/ p \in pluginHeld' /\ (life'[p] # "unborn" => life[p] # "unborn" \/ p \in kept')
                           \/ /\ life'[p] \in Plugins!Open => life[p] \in Plugins!Open
                              /\ life'[p] # "unborn" => life[p] # "unborn"
                              /\ asked'[p] \in {"none", asked[p]}
                              /\ Plugins!Waiting(p)' \subseteq Plugins!Waiting(p)
  PROVE  HostFit'
<1>1. ASSUME NEW p \in Hosted, life'[p] \in Plugins!Open,
             Plugins!Waiting(p)' # {} \/ asked'[p] # "none"
      PROVE  p \in pluginHeld'
  BY <1>1 DEF HostFit
<1>2. ASSUME NEW p \in Hosted, life'[p] # "unborn", loader'.phase \notin {"done", "failed"}
      PROVE  p \in kept'
  BY <1>2 DEF HostFit
<1> QED
  BY <1>1, <1>2 DEF HostFit

LEMMA HostFitStep ==
  ASSUME HostFit, [Plugins!Next]_(Plugins!vars)
  PROVE  HostFit'
<1> USE DEF Plugins!Ask
<1>t. /\ loader.phase \in {"start", "setup", "emit", "done", "failed"}
      /\ life \in [Hosted -> Lives]
      /\ asked \in [Hosted -> Questions]
      /\ pluginCall \in [HostCalls -> HostedCall]
      /\ kept \subseteq pluginHeld
  BY DEF HostFit
\* A worker is asked by nobody but its own host's loader.
<1>1. ASSUME Plugins!StartWorker PROVE HostFit'
  <2>1. /\ life' = [life EXCEPT ![loader.at] = "up"]
        /\ asked' = [asked EXCEPT ![loader.at] = "inspect"]
        /\ kept' = kept \cup {loader.at} /\ pluginHeld' = pluginHeld \cup {loader.at}
        /\ loader' = loader /\ loader.phase = "start" /\ pluginCall' = pluginCall
    BY <1>1 DEF Plugins!StartWorker
  <2>2. \A p \in Hosted : p # loader.at => life'[p] = life[p] /\ asked'[p] = asked[p]
    BY <1>t, <2>1
  <2>3. life' \in [Hosted -> Lives]
        /\ asked' \in [Hosted -> Questions]
    BY <1>t, <2>1
  <2>4. \A p \in Hosted : Plugins!Waiting(p)' = Plugins!Waiting(p)
    BY <2>1 DEF Plugins!Waiting
  <2> QED
    BY <1>t, <2>1, <2>2, <2>3, <2>4, HeldFits
<1>2. ASSUME Plugins!Inspected \/ Plugins!SetUp \/ (\E p \in Hosted : Plugins!Heard(p) \/ Plugins!ShutDown(p))
      PROVE  HostFit'
  <2>1. PICK q : asked' = [asked EXCEPT ![q] = "none"]
    BY <1>2 DEF Plugins!Inspected, Plugins!SetUp, Plugins!Heard, Plugins!ShutDown
  <2>2. /\ \/ loader'.phase \in {"start", "setup", "emit"} /\ loader.phase \in {"start", "setup"}
           \/ loader' = loader
        /\ UNCHANGED <<life, pluginCall, kept, pluginHeld>>
    <3>1. CASE Plugins!Inspected
      BY <3>1 DEF Plugins!Inspected
    <3>2. CASE Plugins!SetUp
      <4>1. /\ loader' = [loader EXCEPT !.at = loader.at + 1] \/ loader' = [phase |-> "emit", at |-> 1]
            /\ loader.phase = "setup" /\ UNCHANGED <<life, pluginCall, kept, pluginHeld>>
        BY <3>2 DEF Plugins!SetUp
      <4>2. loader' = [loader EXCEPT !.at = loader.at + 1] => loader'.phase = loader.phase
        OBVIOUS
      <4>3. loader' = [phase |-> "emit", at |-> 1] => loader'.phase = "emit"
        OBVIOUS
      <4> QED
        BY <4>1, <4>2, <4>3
    <3> QED
      BY <1>2, <3>1, <3>2 DEF Plugins!Heard, Plugins!ShutDown
  <2>3. \A p \in Hosted : asked'[p] \in {"none", asked[p]} /\ Plugins!Waiting(p)' = Plugins!Waiting(p)
    BY <1>t, <2>1, <2>2 DEF Plugins!Waiting
  <2>4. asked' \in [Hosted -> Questions]
    BY <1>t, <2>1
  <2> QED
    BY <1>t, <2>2, <2>3, <2>4, HeldFits
<1>3. ASSUME Plugins!BeginSetup PROVE HostFit'
  <2>1. /\ loader' = loader /\ loader.phase = "setup" /\ life[loader.at] = "up"
        /\ asked' = [asked EXCEPT ![loader.at] = "setup"]
        /\ UNCHANGED <<life, pluginCall, kept, pluginHeld>>
    BY <1>3 DEF Plugins!BeginSetup
  <2>2. \A p \in Hosted : Plugins!Waiting(p)' = Plugins!Waiting(p)
    BY <2>1 DEF Plugins!Waiting
  <2>3. asked' \in [Hosted -> Questions]
    BY <1>t, <2>1
  <2>4. \A p \in Hosted : p = loader.at => p \in pluginHeld
    BY <2>1 DEF HostFit
  <2>5. \A p \in Hosted : p # loader.at => asked'[p] = asked[p]
    BY <1>t, <2>1
  <2> QED
    BY <1>t, <2>1, <2>2, <2>3, <2>4, <2>5, HeldFits
<1>4. ASSUME Plugins!LoadFails PROVE HostFit'
  <2>1. PICK P \in SUBSET Hosted : Plugins!Terminate(P, {})
    BY <1>4 DEF Plugins!LoadFails
  <2>2. UNCHANGED <<kept, pluginHeld>> /\ loader' = [loader EXCEPT !.phase = "failed"]
    BY <1>4 DEF Plugins!LoadFails
  <2>3. loader'.phase = "failed" \/ loader'.phase = loader.phase
    BY <2>2
  <2> QED
    BY <1>t, <2>1, <2>2, <2>3, TerminatedFits, HeldFits
<1>5. ASSUME Plugins!EmitLoaded PROVE HostFit'
  <2>1. /\ loader.phase = "emit" /\ loader' = [loader EXCEPT !.at = @ + 1]
        /\ asked' \in [Hosted -> {"event", "none"}]
        /\ UNCHANGED <<life, pluginCall, kept, pluginHeld>>
    BY <1>5 DEF Plugins!EmitLoaded
  <2>2. loader'.phase = loader.phase
    BY <2>1
  <2>3. \A p \in Hosted : /\ Plugins!Waiting(p)' = Plugins!Waiting(p)
                          /\ life[p] # "unborn" => p \in pluginHeld
    BY <2>1 DEF Plugins!Waiting, HostFit
  <2>4. \A p \in Hosted : life'[p] \in Plugins!Open => p \in pluginHeld'
    BY <2>1, <2>3 DEF Plugins!Open
  <2>5. asked' \in [Hosted -> Questions]
    BY <2>1
  <2> QED
    BY <2>1, <2>2, <2>4, <2>5 DEF HostFit
<1>6. ASSUME Plugins!Release PROVE HostFit'
  <2>1. /\ loader' = [loader EXCEPT !.phase = "done"] /\ loader.phase = "emit" /\ kept' = {}
        /\ UNCHANGED <<life, pluginCall, asked>>
        /\ \A p \in Hosted : asked[p] = "none"
        /\ Plugins!Idle(Hosted, {})
    BY <1>6 DEF Plugins!Release
  <2>2. loader'.phase = "done" \/ loader'.phase = loader.phase
    BY <2>1
  <2>3. ASSUME NEW p \in Hosted, life'[p] \in Plugins!Open,
             Plugins!Waiting(p)' # {} \/ asked'[p] # "none"
        PROVE  p \in pluginHeld'
    <3>1. p \in pluginHeld
      BY <2>1, <2>3 DEF HostFit, Plugins!Waiting
    <3> QED
      BY <2>1, <2>3, <3>1 DEF Plugins!Idle
  <2>4. \A p \in Hosted : life[p] # "unborn" => p \in kept
    BY <2>1 DEF HostFit
  <2> QED
    BY <1>t, <2>1, <2>2, <2>3 DEF HostFit
<1>7. ASSUME NEW c \in HostCalls, NEW p \in Hosted, Plugins!Request(c, p) PROVE HostFit'
  <2>1. UNCHANGED <<loader, kept>>
    BY <1>7 DEF Plugins!Request
  <2>2. CASE Plugins!Send(c, p)
    <3>1. /\ pluginCall' = [pluginCall EXCEPT ![c] = [to |-> p, is |-> "pending"]]
          /\ pluginHeld' = pluginHeld \cup {p} /\ UNCHANGED <<life, asked>>
      BY <2>2 DEF Plugins!Send
    <3>2. pluginCall' \in [HostCalls -> HostedCall]
      BY <1>t, <3>1 DEF HostedCall
    <3>3. \A q \in Hosted : q # p => Plugins!Waiting(q)' \subseteq Plugins!Waiting(q)
      BY <1>t, <3>1 DEF Plugins!Waiting
    <3> QED
      BY <1>t, <2>1, <3>1, <3>2, <3>3, HeldFits
  <2>3. CASE Plugins!Refuse(c, p)
    <3>1. Plugins!Terminate({p}, {}) /\ pluginHeld' = pluginHeld
      BY <2>3 DEF Plugins!Refuse
    <3> QED
      BY <1>t, <2>1, <3>1, TerminatedFits, HeldFits
  <2> QED
    BY <1>7, <2>2, <2>3 DEF Plugins!Request
<1>8. ASSUME NEW c \in HostCalls, Plugins!Answered(c) PROVE HostFit'
  <2>1. /\ UNCHANGED <<loader, kept, life, asked>> /\ Plugins!Settle({c}, "answered")
        /\ Plugins!Idle({pluginCall[c].to}, {})
    BY <1>8 DEF Plugins!Answered
  <2>2. pluginCall' = [d \in HostCalls |->
                       IF d \in {c} THEN [pluginCall[d] EXCEPT !.is = "answered"] ELSE pluginCall[d]]
    BY <2>1 DEF Plugins!Settle
  <2>3. /\ pluginCall' \in [HostCalls -> HostedCall]
        /\ \A p \in Hosted : Plugins!Waiting(p)' \subseteq Plugins!Waiting(p)
    BY <1>t, <2>2 DEF Plugins!Waiting, HostedCall
  <2> QED
    BY <1>t, <2>1, <2>3, IdleFits
\* A host that ends its worker.
<1>9. ASSUME NEW P \in SUBSET Hosted, NEW also \in SUBSET HostCalls, NEW S,
             Plugins!Terminate(P, also), Plugins!Idle(S, {}), UNCHANGED <<loader, kept>>
      PROVE  HostFit'
  BY <1>9, TerminatedFits, IdleFits
<1>10. ASSUME NEW c \in HostCalls, Plugins!GivenUp(c) PROVE HostFit'
  <2>1. pluginCall[c].to \in Hosted
    BY <1>t, <1>10 DEF Plugins!GivenUp, HostedCall
  <2>2. /\ Plugins!Terminate({pluginCall[c].to}, {c}) /\ Plugins!Idle({pluginCall[c].to}, {})
        /\ UNCHANGED <<loader, kept>>
    BY <1>10 DEF Plugins!GivenUp
  <2> QED
    BY <1>9, <2>1, <2>2
<1>11. ASSUME NEW p \in Hosted, Plugins!AskedGivenUp(p) \/ Plugins!Misbehave(p) PROVE HostFit'
  <2>1. Plugins!Idle({p}, {}) /\ UNCHANGED <<loader, kept>>
    BY <1>11 DEF Plugins!AskedGivenUp, Plugins!Misbehave
  <2>2. CASE Plugins!Terminate({p}, {})
    BY <1>9, <2>1, <2>2
  <2>3. CASE asked' = [asked EXCEPT ![p] = "none"] /\ UNCHANGED <<life, pluginCall, hears, hostCall>>
    <3>1. \A q \in Hosted : asked'[q] \in {"none", asked[q]} /\ Plugins!Waiting(q)' = Plugins!Waiting(q)
      BY <1>t, <2>3 DEF Plugins!Waiting
    <3>2. asked' \in [Hosted -> Questions]
      BY <1>t, <2>3
    <3> QED
      BY <1>t, <2>1, <2>3, <3>1, <3>2, IdleFits
  <2> QED
    BY <1>11, <2>2, <2>3 DEF Plugins!AskedGivenUp, Plugins!Misbehave
<1>12. ASSUME NEW p \in Hosted, Plugins!Authorized(p) \/ Plugins!Fetched(p) PROVE HostFit'
  <2>1. Plugins!Idle({p}, {}) /\ UNCHANGED <<loader, kept, life, asked, pluginCall>>
    BY <1>12 DEF Plugins!Authorized, Plugins!Fetched
  <2>2. \A q \in Hosted : Plugins!Waiting(q)' = Plugins!Waiting(q)
    BY <2>1 DEF Plugins!Waiting
  <2> QED
    BY <1>t, <2>1, <2>2, IdleFits
<1>13. ASSUME Plugins!Close PROVE HostFit'
  <2>1. /\ UNCHANGED loader /\ loader.phase = "done"
        /\ kept' = kept \cup {p \in Hosted : life[p] # "gone"}
        /\ pluginHeld' = pluginHeld \cup {p \in Hosted : life[p] # "gone"}
    BY <1>13 DEF Plugins!Close
  <2>2. PICK full \in SUBSET Hosted :
          /\ life' = [p \in Hosted |-> IF p \in full THEN "killed"
                                    ELSE IF life[p] = "up" THEN "closing" ELSE life[p]]
          /\ asked' \in [Hosted -> {"shutdown", "none"}]
          /\ pluginCall' = [c \in HostCalls |->
                              IF c \in Plugins!Rejected(full) THEN [pluginCall[c] EXCEPT !.is = "failed"] ELSE pluginCall[c]]
    BY <1>13 DEF Plugins!Close, Plugins!Settle
  <2>3. life' \in [Hosted -> Lives]
        /\ asked' \in [Hosted -> Questions]
    BY <1>t, <2>2
  <2>4. pluginCall' \in [HostCalls -> HostedCall]
    BY <1>t, <2>2 DEF HostedCall
  <2>5. \A p \in Hosted : life'[p] \in Plugins!Open => p \in pluginHeld'
    BY <1>t, <2>1, <2>2 DEF Plugins!Open
  <2> QED
    BY <1>t, <2>1, <2>3, <2>4, <2>5 DEF HostFit
<1>14. ASSUME NEW p \in Hosted, Plugins!Exit(p) PROVE HostFit'
  <2>1. /\ Plugins!Idle({p}, {}) /\ UNCHANGED <<loader, kept>> /\ life[p] # "unborn"
        /\ life' = [life EXCEPT ![p] = "gone"]
        /\ \/ asked' = [asked EXCEPT ![p] = "none"] /\ Plugins!Settle(Plugins!Waiting(p), "failed")
           \/ UNCHANGED <<asked, pluginCall>>
    BY <1>14 DEF Plugins!Exit
  <2>2. /\ life' \in [Hosted -> Lives]
        /\ asked' \in [Hosted -> Questions]
        /\ \A q \in Hosted : /\ life'[q] \in Plugins!Open => life[q] = life'[q]
                             /\ life'[q] # "unborn" => life[q] # "unborn"
                             /\ asked'[q] \in {"none", asked[q]}
    BY <1>t, <2>1 DEF Plugins!Open
  <2>3. /\ pluginCall' \in [HostCalls -> HostedCall]
        /\ \A q \in Hosted : Plugins!Waiting(q)' \subseteq Plugins!Waiting(q)
    <3>1. CASE Plugins!Settle(Plugins!Waiting(p), "failed")
      BY <1>t, <3>1 DEF Plugins!Settle, Plugins!Waiting, HostedCall
    <3>2. CASE UNCHANGED pluginCall
      BY <1>t, <3>2 DEF Plugins!Waiting
    <3> QED
      BY <2>1, <3>1, <3>2
  <2> QED
    BY <2>1, <2>2, <2>3, IdleFits
<1>15. ASSUME \/ \E p \in Hosted : Plugins!CallBack(p) \/ Plugins!Die(p)
              \/ UNCHANGED Plugins!vars
       PROVE  HostFit'
  BY <1>15 DEF Plugins!CallBack, Plugins!Die, Plugins!vars, HostFit, Plugins!Waiting
<1> QED
  BY <1>1, <1>2, <1>3, <1>4, <1>5, <1>6, <1>7, <1>8, <1>10, <1>11, <1>12, <1>13, <1>14, <1>15
     DEF Plugins!Next, Plugins!Loading, Plugins!Worker, Plugins!Host
-----------------------------------------------------------------------------
LEMMA AnswersStart ==
  ASSUME Server!Init, Plugins!Init
  PROVE  ServerFit /\ HostFit
<1>1. ServerFit
  BY DEF Server!Init, ServerFit, Server!NoPending, Server!Stages
<1>2. HostFit
  BY DEF Plugins!Init, HostFit, Plugins!Waiting, Plugins!Open, HostedCall
<1> QED
  BY <1>1, <1>2

\* In the composition, servers and plugins take their own steps only.
LEMMA AnswersMove == [ProgressNext]_progressVars => [Server!Next]_(Server!vars) /\ [Plugins!Next]_(Plugins!vars)
BY DEF ProgressNext, QueueStep, AskingStep, RunningStep, PluginsStep, ProviderStep, ServerStep,
   progressVars,
   mcpVars, pluginsVars, Server!vars, Plugins!vars

\* Nobody is given the answer to another's request; a tool server that is closed has no process
\* left; and a worker that owes an answer keeps its host alive (mcp-client.js, worker-host.js).
THEOREM AnswersAlwaysReach == ProgressSpec => []AnswersReachTheirCallers
<1>1. ProgressInit => ServerFit /\ HostFit
  BY AnswersStart DEF ProgressInit
<1>2. ServerFit /\ HostFit /\ [ProgressNext]_progressVars => ServerFit' /\ HostFit'
  <2>1. [ProgressNext]_progressVars => [Server!Next]_(Server!vars) /\ [Plugins!Next]_(Plugins!vars)
    BY AnswersMove
  <2> QED
    BY <2>1, ServerFitStep, HostFitStep
<1>3. ServerFit /\ HostFit => AnswersReachTheirCallers
  <2>1. ServerFit => Server!AnswerIsOwn /\ Server!ClosedIsGone
    BY DEF ServerFit, Server!AnswerIsOwn, Server!ClosedIsGone
  <2>2. ASSUME HostFit, NEW p \in Hosted, life[p] \in Plugins!Open, Plugins!Load(p) > 0 PROVE p \in pluginHeld
    <3>1. CASE asked[p] # "none"
      BY <2>2, <3>1 DEF HostFit
    <3>2. CASE asked[p] = "none"
      <4>1. \A S : Plugins!Cardinality(S) = Cardinality(S)
        BY Zenon DEF Cardinality, Plugins!Cardinality
      <4>2. Plugins!Waiting(p) # {}
        BY <2>2, <3>2, <4>1, FS_EmptySet DEF Plugins!Load
      <4> QED
        BY <2>2, <4>2 DEF HostFit
    <3> QED
      BY <3>1, <3>2
  <2> QED
    BY <2>1, <2>2 DEF AnswersReachTheirCallers, Plugins!BusyIsHeld
<1> QED
  BY <1>1, <1>2, <1>3, PTL DEF ProgressSpec
=============================================================================
