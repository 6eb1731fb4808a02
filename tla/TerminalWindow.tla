--------------------------- MODULE TerminalWindow ---------------------------
(***************************************************************************)
(* The terminal interface (tui/app.js): lists read by a poll, one cursor,  *)
(* keys that act on the row under it, and a screen that is painted after   *)
(* each key and each poll.  The cursor is a position, so a list that       *)
(* changes under it puts another row there; what a key does is decided on  *)
(* the lists as read, what a person sees is what was painted last.         *)
(*                                                                         *)
(* Typing (messages, settings, filters, prompts) and scrolling are left    *)
(* out, and how a row looks; render.js is here only where it decides what  *)
(* is shown at all.  The merge requests and the checks have no key that    *)
(* acts on a row that may move.                                            *)
(***************************************************************************)
EXTENDS Naturals, Sequences, FiniteSets, SequencesExt

CONSTANTS
  Lists,       \* the lists there are: some of "approvals", "runs", "queue", "worktrees"
  MaxItems     \* bound: rows that ever come up

VARIABLES
  there,      \* the lists as they are now
  born,       \* rows so far; a row is its number
  snap,       \* the lists as read last
  view, cursor, detail,
  answering,  \* the conversation has a turn under way
  syncing,    \* a poll has read the lists and is still reading the conversation
  held,       \* receipt, verdict and plan read for a run, by the run they are about
  reading,    \* those asked for and not there yet
  screen,     \* painted last: the row, and which of the run's evidence
  acted       \* the last key that acted on a row: the row, and the one on the screen

world == <<there, born>>
keys  == <<view, cursor, detail>>
vars  == <<world, snap, keys, answering, syncing, held, reading, screen, acted>>

Views    == Lists \cup {"chat"}
Evidence == {"receipt", "verdict", "plan"}
NoRow    == 0
Polled   == Lists \ {"worktrees"}

(* The conversation answers the approvals.                                 *)
Selection(v, lists) == IF v = "chat" THEN lists["approvals"] ELSE lists[v]

Clamp(c, list) == IF list = <<>> THEN 0 ELSE IF c < Len(list) THEN c ELSE Len(list) - 1

Under(v, c, lists) ==
  LET list == Selection(v, lists) IN IF list = <<>> THEN NoRow ELSE list[Clamp(c, list) + 1]

Row == Under(view, cursor, snap)

SlipCursorKept(lists) == cursor
(* The cursor, kept inside a list that was read again.                      *)
CursorKept(lists) == Clamp(cursor, Selection(view, lists))

SlipBelongs(h, e, row) == h[e] # NoRow

(* renderRunDetail: what is held is shown for the run it was read for.     *)
Belongs(h, e, row) == h[e] = row /\ row # NoRow

(* renderApp.  The conversation shows a decision only while it has a turn  *)
(* under way.                                                              *)
Draw(v, c, lists, d, turn, h) ==
  LET row == IF v = "chat" /\ ~turn THEN NoRow ELSE Under(v, c, lists) IN
  [view |-> v, row |-> row,
   evidence |-> [e \in Evidence |-> IF v = "runs" /\ d /\ Belongs(h, e, row) THEN h[e] ELSE NoRow]]

Paint == screen' = Draw(view', cursor', snap', detail', answering', held')

NoEvidence == [e \in Evidence |-> NoRow]
Quiet == [what |-> "none", on |-> NoRow, drawn |-> NoRow, in |-> "none"]

Init ==
  /\ there = [l \in Lists |-> <<>>] /\ snap = [l \in Lists |-> <<>>] /\ born = 0
  /\ view = "approvals" /\ cursor = 0 /\ detail = FALSE
  /\ answering = FALSE /\ syncing = FALSE
  /\ held = NoEvidence /\ reading = {}
  /\ screen = Draw("approvals", 0, snap, FALSE, FALSE, held)
  /\ acted = Quiet

-----------------------------------------------------------------------------
(* What happens elsewhere: a request, run, job or worktree comes up, newest *)
(* first, or goes, and a turn of the conversation begins or ends.           *)

Comes(l) ==
  /\ born < MaxItems /\ born' = born + 1
  /\ there' = [there EXCEPT ![l] = <<born + 1>> \o @]
  /\ UNCHANGED <<snap, keys, answering, syncing, held, reading, screen, acted>>

Goes(l) ==
  /\ l # "runs"
  /\ \E n \in DOMAIN there[l] : there' = [there EXCEPT ![l] = RemoveAt(@, n)]
  /\ UNCHANGED <<born, snap, keys, answering, syncing, held, reading, screen, acted>>

(* A message is sent from the window, which is painted with it.            *)
TurnBegins ==
  /\ view = "chat" /\ ~answering /\ answering' = TRUE
  /\ UNCHANGED <<world, snap, keys, syncing, held, reading, acted>>
  /\ Paint

-----------------------------------------------------------------------------
(* The poll.                                                               *)

Collected == [l \in Lists |-> IF l \in Polled THEN there[l] ELSE snap[l]]

SlipPaintsAfter(v) == TRUE

(* The lists are replaced at once; the conversation, where it is shown, is *)
(* read after that, and the screen painted at the end.                     *)
PaintsLater(v) == v = "chat"

Refresh ==
  /\ ~syncing
  /\ snap' = Collected
  /\ cursor' = CursorKept(Collected)
  /\ syncing' = PaintsLater(view)
  /\ UNCHANGED <<world, view, detail, answering, held, reading, acted>>
  /\ IF PaintsLater(view) THEN UNCHANGED screen ELSE Paint

Synced ==
  /\ syncing /\ syncing' = FALSE
  /\ answering' \in {answering, FALSE}
  /\ UNCHANGED <<world, snap, keys, held, reading, acted>>
  /\ Paint

(* load: the worktrees are read for their own view, and the cursor kept    *)
(* within whatever list is selected when they arrive.                      *)
LoadWorktrees ==
  /\ "worktrees" \in Lists
  /\ snap' = [snap EXCEPT !["worktrees"] = there["worktrees"]]
  /\ cursor' = CursorKept(snap')
  /\ UNCHANGED <<world, view, detail, answering, syncing, held, reading, acted>>
  /\ Paint

-----------------------------------------------------------------------------
(* Keys.  Each ends with a paint, once what it awaits is there.            *)

Show(v) ==
  /\ v # view /\ view' = v /\ cursor' = 0 /\ detail' = FALSE
  /\ UNCHANGED <<world, snap, answering, syncing, held, reading, acted>>
  /\ Paint

Move(c) ==
  /\ c # cursor /\ cursor' = Clamp(c, Selection(view, snap))
  /\ UNCHANGED <<world, snap, view, detail, answering, syncing, held, reading, acted>>
  /\ Paint

(* Enter on a run: nothing held of another one, and nothing painted until  *)
(* the receipt is there.                                                   *)
OpenRun ==
  /\ view = "runs" /\ ~detail /\ Row # NoRow
  /\ detail' = TRUE /\ held' = NoEvidence
  /\ reading' = reading \cup {<<"receipt", Row>>}
  /\ UNCHANGED <<world, snap, view, cursor, answering, syncing, screen, acted>>

(* 'v' and 'p': asked for the run under the cursor, and painted as asked.  *)
AskEvidence(e) ==
  /\ view = "runs" /\ detail /\ Row # NoRow
  /\ e \in {"verdict", "plan"}
  /\ reading' = reading \cup {<<e, Row>>}
  /\ held' = [held EXCEPT ![e] = NoRow]
  /\ UNCHANGED <<world, snap, keys, answering, syncing, acted>>
  /\ Paint

EvidenceArrives(e, run) ==
  /\ <<e, run>> \in reading /\ reading' = reading \ {<<e, run>>}
  /\ \/ held' = [held EXCEPT ![e] = run] /\ UNCHANGED detail
     \/ held' = [held EXCEPT ![e] = IF e = "receipt" THEN @ ELSE NoRow]
        /\ detail' = (detail /\ e # "receipt")
  /\ UNCHANGED <<world, snap, view, cursor, answering, syncing, acted>>
  /\ Paint

Back ==
  /\ detail /\ detail' = FALSE
  /\ UNCHANGED <<world, snap, view, cursor, answering, syncing, held, reading, acted>>
  /\ Paint

Acts(what) ==
  /\ Row # NoRow
  /\ acted' = [what |-> what, on |-> Row, drawn |-> screen.row, in |-> view]

(* 'a' and 'r': decided, unless it was decided elsewhere, and the lists    *)
(* read again.                                                             *)
Decide ==
  /\ view \in {"approvals", "chat"}
  /\ Acts("decide")
  /\ there' = [there EXCEPT !["approvals"] = SelectSeq(@, LAMBDA a : a # Row)]
  /\ UNCHANGED <<born, snap, keys, answering, syncing, held, reading, screen>>

(* 'c' and 'R' on a job of the queue.                                      *)
CancelJob ==
  /\ view = "queue" /\ Acts("cancel")
  /\ UNCHANGED <<world, snap, keys, answering, syncing, held, reading, screen>>

ResumeJob ==
  /\ view = "queue" /\ Acts("resume job")
  /\ UNCHANGED <<world, snap, keys, answering, syncing, held, reading, screen>>

(* 'x' on a worktree: gone where it is ETNPilot's, not locked and clean;   *)
(* the list is read again either way.                                      *)
RemoveWorktree ==
  /\ view = "worktrees" /\ Acts("remove")
  /\ there' \in {there, [there EXCEPT !["worktrees"] = SelectSeq(@, LAMBDA w : w # Row)]}
  /\ UNCHANGED <<born, snap, keys, answering, syncing, held, reading, screen>>

(* 'x' on an open run that is still working.                               *)
StopRun ==
  /\ view = "runs" /\ detail /\ Acts("stop")
  /\ UNCHANGED <<world, snap, keys, answering, syncing, held, reading, screen>>

SlipMayResume == held["plan"] # NoRow

(* 'R' on a run: only with the plan of the run under the cursor, and only  *)
(* one that said yes.                                                      *)
MayResume == held["plan"] = Row

ResumeRun ==
  /\ view = "runs" /\ detail /\ MayResume
  /\ Row # NoRow
  /\ acted' = [what |-> "resume", on |-> Row, drawn |-> held["plan"], in |-> "runs"]
  /\ held' = [held EXCEPT !["plan"] = NoRow] /\ detail' = FALSE
  /\ UNCHANGED <<world, snap, view, cursor, answering, syncing, reading>>
  /\ Paint

Next ==
  \/ \E l \in Lists : Comes(l) \/ Goes(l)
  \/ TurnBegins \/ Refresh \/ Synced \/ LoadWorktrees
  \/ \E v \in Views : Show(v)
  \/ \E c \in 0..MaxItems : Move(c)
  \/ OpenRun \/ Back \/ Decide \/ CancelJob \/ ResumeJob \/ RemoveWorktree \/ StopRun \/ ResumeRun
  \/ \E e \in Evidence : AskEvidence(e) \/ \E run \in 1..MaxItems : EvidenceArrives(e, run)

Spec == Init /\ [][Next]_vars

-----------------------------------------------------------------------------
TypeOK ==
  /\ born \in 0..MaxItems
  /\ \A l \in Lists : Range(there[l]) \subseteq 1..born /\ Range(snap[l]) \subseteq 1..born
  /\ view \in Views /\ detail \in BOOLEAN /\ cursor = Clamp(cursor, Selection(view, snap))
  /\ held \in [Evidence -> 0..born] /\ reading \subseteq Evidence \X (1..born)
  /\ screen.row \in 0..born

(* A key acts on the row the person has on the screen, and what is shown   *)
(* of a run - receipt, verification, plan - was read for that run, however *)
(* the list moved and however late the answer came.  (In the conversation  *)
(* a decision may be taken on a request that is not shown: see             *)
(* DecidesWhatIsShown.)                                                    *)
ActsOnWhatIsDrawn ==
  /\ acted.in # "chat" => acted.on = acted.drawn
  /\ \A e \in Evidence : screen.evidence[e] \in {NoRow, screen.row}

(* "The chat view shows the same pending decisions, so it answers them":   *)
(* a request approved or rejected is one that was on the screen.           *)
DecidesWhatIsShown == acted.what = "decide" => acted.on = acted.drawn
=============================================================================
