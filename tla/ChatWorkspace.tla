---------------------------- MODULE ChatWorkspace ----------------------------
(***************************************************************************)
(* Conversations in a shared workspace: the workspace lease, the turns     *)
(* that write files under it, undo by journal, compaction, and what a      *)
(* crash, a stop, or a person with an editor does in between.              *)
(*                                                                         *)
(* A process runs one operation at a time, and holds the lease from before *)
(* it reads the conversation until after it has appended its line.         *)
(* Comparing a file with what was found in it and writing it is one step   *)
(* (docs/threat-model.md leaves the race of that last write out), and a    *)
(* file operation of an undo meets no I/O error.                           *)
(***************************************************************************)
EXTENDS Naturals, Sequences, Functions

CONSTANTS
  Processes,      \* command line, terminal, page: each has the project open
  Mortal,         \* processes that may die
  Sessions,       \* conversations
  Files, Contents,
  Absent,         \* content of a file that does not exist
  NoProcess, NoWrite,
  Limit           \* chat.budget.maxTotalTokens; a run costs one unit or two

ASSUME ChatAssumption ==
  /\ Mortal \subseteq Processes /\ NoProcess \notin Processes
  /\ Absent \in Contents
  /\ Limit \in Nat

VARIABLES
  lease,          \* owner in the row of workspace_lease, or NoProcess
  files,          \* the workspace
  turns,          \* turns[s]: the turns readSession returns
  summary,        \* summary[s]: upToTurn of the newest compaction, or 0
  spent,          \* spent[s]: tokens of the turns and compactions
  pc,             \* pc[p]: where the operation of p stands
  session,        \* session[p]: its conversation
  number,         \* number[p]: the turn it makes, takes back, or summarises up to
  journal,        \* journal[p]: effects it recorded, or has still to take back
  pending,        \* pending[p]: a write that waits for its approval
  late,           \* late[p]: a write that outlived its turn
  foreign         \* history: foreign[s]: files changed outside the journal of s

convVars == <<turns, summary, spent>>
opVars   == <<session, number, journal>>
vars     == <<lease, files, convVars, pc, opVars, pending, late, foreign>>

\* A journal entry; first and wrote are history: the content the turn found, and all it wrote.
Effect   == [before : Contents, after : Contents, first : Contents, wrote : SUBSET Contents]
Journals == UNION {[F -> Effect] : F \in SUBSET Files}
NoEffect == [f \in {} |-> f]
Writes   == [file : Files, found : Contents, new : Contents \ {Absent}] \cup {NoWrite}
Turn     == [number : Nat, ok : BOOLEAN, snapshot : BOOLEAN, journal : Journals, undone : BOOLEAN]

Working == {"turn", "undo", "compact", "writing", "undoing", "summarising", "leaving"}

TypeOK ==
  /\ lease \in Processes \cup {NoProcess}
  /\ files \in [Files -> Contents]
  /\ turns \in [Sessions -> Seq(Turn)]
  /\ summary \in [Sessions -> Nat] /\ spent \in [Sessions -> Nat]
  /\ pc \in [Processes -> Working \cup {"idle", "gone"}]
  /\ session \in [Processes -> Sessions] /\ number \in [Processes -> Nat]
  /\ journal \in [Processes -> Journals]
  /\ pending \in [Processes -> Writes] /\ late \in [Processes -> Writes]
  /\ foreign \in [Sessions -> SUBSET Files]

Init ==
  /\ lease = NoProcess
  /\ files \in [Files -> Contents]
  /\ turns = [s \in Sessions |-> <<>>]
  /\ summary = [s \in Sessions |-> 0] /\ spent = [s \in Sessions |-> 0]
  /\ pc = [p \in Processes |-> "idle"]
  /\ session \in [Processes -> Sessions]
  /\ number = [p \in Processes |-> 0]
  /\ journal = [p \in Processes |-> NoEffect]
  /\ pending = [p \in Processes |-> NoWrite]
  /\ late = [p \in Processes |-> NoWrite]
  /\ foreign = [s \in Sessions |-> {}]

Goto(p, where) == pc' = [pc EXCEPT ![p] = where]

\* The operation's variables go out of scope.
Forget(p) == /\ number' = [number EXCEPT ![p] = 0]
             /\ journal' = [journal EXCEPT ![p] = NoEffect]
             /\ UNCHANGED session

-----------------------------------------------------------------------------
(* The lease.                                                              *)

\* (Slip...: faulty variants of the definitions that follow them.)
SlipShares(p, s, kind) ==
  /\ pc[p] = "idle" /\ lease' = p
  /\ session' = [session EXCEPT ![p] = s]
  /\ Goto(p, kind)
  /\ UNCHANGED <<files, convVars, number, journal, pending, late, foreign>>

\* INSERT OR IGNORE; a busy workspace is a conflict, and the operation does not begin.
Acquire(p, s, kind) ==
  /\ pc[p] = "idle"
  /\ lease = NoProcess /\ lease' = p
  /\ session' = [session EXCEPT ![p] = s]
  /\ Goto(p, kind)
  /\ UNCHANGED <<files, convVars, number, journal, pending, late, foreign>>

\* finally: lease.release()
Release(p) ==
  /\ pc[p] = "leaving"
  /\ lease' = IF lease = p THEN NoProcess ELSE lease
  /\ Goto(p, "idle")
  /\ Forget(p)
  /\ UNCHANGED <<files, convVars, pending, late, foreign>>

SlipRecoversLive(p) ==
  /\ lease = p /\ lease' = NoProcess
  /\ UNCHANGED <<files, convVars, pc, opVars, pending, late, foreign>>

\* lease recover, which names the owner, and whose process must be gone.
Recover(p) ==
  /\ lease = p /\ pc[p] = "gone"
  /\ lease' = NoProcess
  /\ UNCHANGED <<files, convVars, pc, opVars, pending, late, foreign>>

-----------------------------------------------------------------------------
(* A turn.                                                                 *)

\* readSession and assertWithinBudget; a refusal, here or in what a surface checks
\* while it holds the lease, ends the operation.
ReadTurn(p) ==
  /\ pc[p] = "turn"
  /\ \/ Goto(p, "leaving") /\ UNCHANGED <<number, journal>>
     \/ /\ spent[session[p]] < Limit
        /\ number' = [number EXCEPT ![p] = Len(turns[session[p]]) + 1]
        /\ journal' = [journal EXCEPT ![p] = NoEffect]
        /\ Goto(p, "writing")
  /\ UNCHANGED <<lease, files, convVars, session, pending, late, foreign>>

SlipWritesAbsent(p, f, content) ==
  /\ pc[p] = "writing" /\ pending[p] = NoWrite
  /\ pending' = [pending EXCEPT ![p] = [file |-> f, found |-> files[f], new |-> content]]
  /\ UNCHANGED <<lease, files, convVars, pc, opVars, late, foreign>>

\* write_file and edit_file read the file and ask for the approval of a difference.
OpenFile(p, f, content) ==
  /\ pc[p] = "writing" /\ pending[p] = NoWrite /\ content # Absent
  /\ pending' = [pending EXCEPT ![p] = [file |-> f, found |-> files[f], new |-> content]]
  /\ UNCHANGED <<lease, files, convVars, pc, opVars, late, foreign>>

SlipLastWriteOnly(entries, w) ==
  LET entry == [before |-> w.found, after |-> w.new, wrote |-> {w.new},
                first |-> IF w.file \in DOMAIN entries THEN entries[w.file].first ELSE w.found]
  IN [g \in DOMAIN entries \cup {w.file} |-> IF g = w.file THEN entry ELSE entries[g]]

\* recordFileEffect: an effect that does not continue the one before it is not recorded.
Recorded(entries, w) ==
  LET f == w.file
      entry == IF f \in DOMAIN entries
               THEN [entries[f] EXCEPT !.after = w.new, !.wrote = @ \cup {w.new}]
               ELSE [before |-> w.found, after |-> w.new, first |-> w.found, wrote |-> {w.new}]
  IN IF f \in DOMAIN entries /\ entries[f].after # w.found THEN entries
     ELSE [g \in DOMAIN entries \cup {f} |-> IF g = f THEN entry ELSE entries[g]]

\* Files changed by somebody whose work session s does not record.
ForeignTo(others, F) == foreign' = [s \in Sessions |-> IF s \in others THEN foreign[s] \cup F ELSE foreign[s]]

\* file.write, once approved, and the tool's answer; or the approval is refused.
WriteFile(p) ==
  LET w == pending[p] IN
  /\ pc[p] = "writing" /\ w # NoWrite
  /\ pending' = [pending EXCEPT ![p] = NoWrite]
  /\ \/ UNCHANGED <<files, journal, foreign>>
     \/ /\ files[w.file] = w.found
        /\ files' = [files EXCEPT ![w.file] = w.new]
        /\ journal' = [journal EXCEPT ![p] = Recorded(@, w)]
        /\ ForeignTo(Sessions \ {session[p]}, {w.file})
  /\ UNCHANGED <<lease, convVars, pc, session, number, late>>

\* appendTurn
AppendTurn(p, ok, snapshot, cost) ==
  LET s == session[p]
      turn == [number |-> number[p], ok |-> ok, snapshot |-> snapshot,
               journal |-> IF ok THEN journal[p] ELSE NoEffect, undone |-> FALSE]
  IN /\ turns' = [turns EXCEPT ![s] = Append(@, turn)]
     /\ spent' = [spent EXCEPT ![s] = @ + cost]
     /\ UNCHANGED summary

EndTurn(p, snapshot, cost) ==
  /\ pc[p] = "writing" /\ pending[p] = NoWrite
  /\ AppendTurn(p, TRUE, snapshot, cost)
  /\ Goto(p, "leaving")
  /\ UNCHANGED <<lease, files, opVars, pending, late, foreign>>

SlipNoFinally(p, cost) ==
  /\ pc[p] = "writing" /\ late[p] = NoWrite
  /\ AppendTurn(p, FALSE, FALSE, cost)
  /\ late' = [late EXCEPT ![p] = pending[p]]
  /\ pending' = [pending EXCEPT ![p] = NoWrite]
  /\ ForeignTo(Sessions, DOMAIN journal[p])
  /\ Goto(p, "idle")
  /\ UNCHANGED <<lease, files, opVars>>

\* The run fails, or is stopped: a write that was already approved goes on without it.
FailTurn(p, cost) ==
  /\ pc[p] = "writing" /\ late[p] = NoWrite
  /\ AppendTurn(p, FALSE, FALSE, cost)
  /\ late' = [late EXCEPT ![p] = pending[p]]
  /\ pending' = [pending EXCEPT ![p] = NoWrite]
  /\ ForeignTo(Sessions, DOMAIN journal[p])
  /\ Goto(p, "leaving")
  /\ UNCHANGED <<lease, files, opVars>>

\* ... and what it records is recorded nowhere.
LateWrite(p) ==
  LET w == late[p] IN
  /\ w # NoWrite
  /\ late' = [late EXCEPT ![p] = NoWrite]
  /\ \/ UNCHANGED <<files, foreign>>
     \/ /\ files[w.file] = w.found
        /\ files' = [files EXCEPT ![w.file] = w.new]
        /\ ForeignTo(Sessions, {w.file})
  /\ UNCHANGED <<lease, convVars, pc, opVars, pending>>

-----------------------------------------------------------------------------
(* Undo.                                                                   *)

\* The turns an undo may take back, of which it takes the newest.
Undoable(s) == {i \in DOMAIN turns[s] : turns[s][i].ok /\ ~turns[s][i].undone}

Newest(s, i) == i \in Undoable(s) /\ \A j \in Undoable(s) : j <= i

ReadUndo(p) ==
  LET s == session[p] IN
  /\ pc[p] = "undo"
  /\ \/ /\ Undoable(s) = {} \/ \E i \in DOMAIN turns[s] : Newest(s, i) /\ ~turns[s][i].snapshot
        /\ Goto(p, "leaving") /\ UNCHANGED <<number, journal>>
     \/ \E i \in DOMAIN turns[s] :
          /\ Newest(s, i) /\ turns[s][i].snapshot
          /\ number' = [number EXCEPT ![p] = turns[s][i].number]
          /\ journal' = [journal EXCEPT ![p] = turns[s][i].journal]
          /\ Goto(p, "undoing")
  /\ UNCHANGED <<lease, files, convVars, session, pending, late, foreign>>

SlipOverwrites(p, f) ==
  /\ pc[p] = "undoing" /\ f \in DOMAIN journal[p]
  /\ files' = [files EXCEPT ![f] = journal[p][f].before]
  /\ journal' = [journal EXCEPT ![p] = Restrict(@, DOMAIN @ \ {f})]
  /\ ForeignTo(Sessions \ {session[p]}, {f})
  /\ UNCHANGED <<lease, convVars, pc, session, number, pending, late>>

\* undoFileEffects, one file: put back, or left alone because somebody changed it since.
TakeBack(p, f) ==
  /\ pc[p] = "undoing" /\ f \in DOMAIN journal[p]
  /\ files' = IF files[f] = journal[p][f].after THEN [files EXCEPT ![f] = journal[p][f].before] ELSE files
  /\ journal' = [journal EXCEPT ![p] = Restrict(@, DOMAIN @ \ {f})]
  /\ ForeignTo(Sessions \ {session[p]}, {f})
  /\ UNCHANGED <<lease, convVars, pc, session, number, pending, late>>

\* The line of the undo marks the first turn of that number.
FinishUndo(p) ==
  LET s == session[p]
      numbered == {i \in DOMAIN turns[s] : turns[s][i].number = number[p]}
      marked == CHOOSE i \in numbered : \A j \in numbered : i <= j
  IN
  /\ pc[p] = "undoing" /\ DOMAIN journal[p] = {}
  /\ turns' = [turns EXCEPT ![s][marked].undone = TRUE]
  /\ Goto(p, "leaving")
  /\ UNCHANGED <<lease, files, summary, spent, opVars, pending, late, foreign>>

-----------------------------------------------------------------------------
(* Compaction.                                                             *)

\* compactionCheck, which the operation repeats under the lease, and the budget.
ReadCompact(p) ==
  LET s == session[p]
      fresh == {i \in DOMAIN turns[s] : turns[s][i].ok /\ turns[s][i].number > summary[s]}
  IN
  /\ pc[p] = "compact"
  /\ IF (\A i, j \in fresh : i = j) \/ spent[s] >= Limit
     THEN Goto(p, "leaving") /\ UNCHANGED number
     ELSE /\ number' = [number EXCEPT ![p] = turns[s][Len(turns[s])].number]
          /\ Goto(p, "summarising")
  /\ UNCHANGED <<lease, files, convVars, session, journal, pending, late, foreign>>

\* The summary is written, or the run failed and the conversation stays as it was.
FinishCompact(p, cost) ==
  LET s == session[p] IN
  /\ pc[p] = "summarising"
  /\ \/ UNCHANGED <<summary, spent>>
     \/ /\ summary' = [summary EXCEPT ![s] = number[p]]
        /\ spent' = [spent EXCEPT ![s] = @ + cost]
  /\ Goto(p, "leaving")
  /\ UNCHANGED <<lease, files, turns, opVars, pending, late, foreign>>

-----------------------------------------------------------------------------

\* A person saves a file in an editor.
Edit(f, content) ==
  /\ files[f] # content
  /\ files' = [files EXCEPT ![f] = content]
  /\ ForeignTo(Sessions, {f})
  /\ UNCHANGED <<lease, convVars, pc, opVars, pending, late>>

\* The process dies; the lease stays until somebody recovers it.
Crash(p) ==
  /\ p \in Mortal /\ pc[p] # "gone"
  /\ Goto(p, "gone")
  /\ Forget(p)
  /\ pending' = [pending EXCEPT ![p] = NoWrite] /\ late' = [late EXCEPT ![p] = NoWrite]
  /\ ForeignTo(Sessions, IF pc[p] = "writing" THEN DOMAIN journal[p] ELSE {})
  /\ UNCHANGED <<lease, files, convVars>>

Operation(p) ==
  \/ ReadTurn(p) \/ WriteFile(p)
  \/ \E cost \in 1..2 : \/ \E snapshot \in BOOLEAN : EndTurn(p, snapshot, cost)
                        \/ FailTurn(p, cost) \/ FinishCompact(p, cost)
  \/ ReadUndo(p) \/ (\E f \in Files : TakeBack(p, f)) \/ FinishUndo(p)
  \/ ReadCompact(p)

Next ==
  \/ \E p \in Processes :
       \/ \E s \in Sessions, kind \in {"turn", "undo", "compact"} : Acquire(p, s, kind)
       \/ \E f \in Files, content \in Contents : OpenFile(p, f, content)
       \/ Operation(p) \/ Release(p) \/ LateWrite(p) \/ Recover(p) \/ Crash(p)
  \/ \E f \in Files, content \in Contents : Edit(f, content)

Spec == Init /\ [][Next]_vars

\* A living process gets on with its operation: a run ends, in success or by the timeouts
\* of its steps, however often its tools open files; the rest is the operation's own code.
RunEnds(p) ==
  /\ pc[p] = "writing"
  /\ \/ LateWrite(p)
     \/ \E cost \in 1..2 : FailTurn(p, cost) \/ \E snapshot \in BOOLEAN : EndTurn(p, snapshot, cost)

GetsOn(p) == \/ ReadTurn(p) \/ ReadUndo(p) \/ (\E f \in Files : TakeBack(p, f)) \/ FinishUndo(p)
             \/ ReadCompact(p) \/ (\E cost \in 1..2 : FinishCompact(p, cost)) \/ Release(p)

Fairness == \A p \in Processes : WF_vars(RunEnds(p)) /\ WF_vars(GetsOn(p))

FairSpec == Spec /\ Fairness
-----------------------------------------------------------------------------
(* Properties.                                                             *)

\* An operation keeps the lease from its first read to its last write: recovery, the
\* release of another operation and a crash elsewhere never take it away.
LeaseKept == \A p \in Processes : pc[p] \in Working => lease = p

\* docs/architecture.md: "Turn numbering, compaction and journal-based undo are serialized
\* under that lease." Turn n is the n-th turn, over crashes, stops and all processes.
TurnsInOrder == \A s \in Sessions : \A i \in DOMAIN turns[s] : turns[s][i].number = i

\* Turns are taken back newest first, and none twice.
NewestFirst ==
  [][\A p \in Processes : FinishUndo(p) =>
       LET done == turns[session[p]] IN
       /\ ~done[number[p]].undone
       /\ \A j \in DOMAIN done : j > number[p] /\ done[j].ok => done[j].undone]_vars

\* docs/review-hardening.md: "Changed files are left alone." What an undo overwrites was
\* written by the turn it takes back, and what it puts back is what that turn found.
UndoSpares ==
  [][\A p \in Processes, f \in Files : TakeBack(p, f) /\ files'[f] # files[f] =>
       files[f] \in journal[p][f].wrote /\ files'[f] = journal[p][f].first]_vars

\* Undo leaves nothing of the turn behind but in files that somebody else has changed.
UndoComplete ==
  [][\A p \in Processes, f \in Files : TakeBack(p, f) =>
       files'[f] = journal[p][f].first \/ f \in foreign[session[p]]]_vars

\* A conversation over its budget begins no run: it is exceeded by one run at most.
BudgetBound == \A s \in Sessions : spent[s] <= Limit + 1

\* A busy workspace becomes free again unless the process that holds it has died.
Occupied == lease \in Processes /\ pc[lease] # "gone"
LeaseReturned == Occupied ~> ~Occupied
=============================================================================
