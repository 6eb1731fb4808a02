------------------------------- MODULE RunsPage -------------------------------
(***************************************************************************)
(* The page that shows where the runs are: the poll and what it draws      *)
(* (ui/client/core.js, shell.js) over the runs the server tracks           *)
(* (runtime/project-run-start.js, runtime/project-state.js).               *)
(*                                                                         *)
(* Requests are answered in any order, or not at all.  The state a request *)
(* is answered with is put together in three steps: what is tracked and    *)
(* what failed, then the receipts, then the marks of what is running.      *)
(***************************************************************************)
EXTENDS Naturals

CONSTANTS Runs, MaxFlight, None

VARIABLES
  disk,     \* each run's receipt file: "absent", "open" or "sealed"
  tracked,  \* the runs the server started and has not seen the end of
  errors,   \* runs that ended with an error, told to the page
  accepted, \* runs whose start was answered
  flight,   \* requests without an answer, and answers not yet read
  held,     \* the state the page was given last, None at first
  drawn,    \* the state on the screen
  hidden,   \* nobody looks at the page
  field     \* what has the focus: "none", "view" or "dialog"

vars == <<disk, tracked, errors, accepted, flight, held, drawn, hidden, field>>
server == <<disk, tracked, errors, accepted>>
page == <<held, drawn, hidden, field>>

Slots == 1..MaxFlight
Pending == [step |-> "asked", told |-> {}, rows |-> None]
Free == [kind |-> "none", force |-> FALSE, then |-> "none", ans |-> Pending]
Request(kind, force, then) ==
  [kind |-> kind, force |-> force, then |-> then, ans |-> Pending]
Send(r) == \E i \in Slots : /\ flight[i] = Free /\ \A j \in 1..(i - 1) : flight[j] # Free
                            /\ flight' = [flight EXCEPT ![i] = r]
Reply(i, ans) == flight' = [flight EXCEPT ![i].ans = ans]
Read(i) == flight' = [flight EXCEPT ![i] = Free]
Answered(r) == r.kind # "none" /\ r.ans.step \in {"ok", "error"}

-----------------------------------------------------------------------------
(* The server: collectState.                                               *)

Row(x, file) == IF file # "open" THEN file
                ELSE IF x \in tracked THEN "running" ELSE "incomplete"

(* A plausible fault: the receipts are read before what is tracked.        *)
SlipReadsFirst(i) ==
  \/ /\ flight[i].ans.step = "asked"
     /\ Reply(i, [flight[i].ans EXCEPT !.step = "looked", !.rows = disk])
  \/ /\ flight[i].ans.step = "looked"
     /\ Reply(i, [flight[i].ans EXCEPT !.step = "read", !.told = tracked \cup errors])

Collect(i) ==
  \/ /\ flight[i].ans.step = "asked"
     /\ Reply(i, [flight[i].ans EXCEPT !.step = "looked", !.told = tracked \cup errors])
  \/ /\ flight[i].ans.step = "looked"
     /\ Reply(i, [flight[i].ans EXCEPT !.step = "read", !.rows = disk])

CollectState(i) == flight[i].kind = "state" /\ Collect(i) /\ UNCHANGED <<server, page>>

MarkRunning(i) ==
  /\ flight[i].ans.step = "read"
  /\ Reply(i, [flight[i].ans EXCEPT !.step = "ok", !.rows = [x \in Runs |-> Row(x, flight[i].ans.rows[x])]])
  /\ UNCHANGED <<server, page>>

(* startProjectRun: the run is tracked before the start is answered.       *)
StartProjectRun(i) ==
  /\ flight[i].kind = "start" /\ flight[i].ans = Pending
  /\ \E x \in Runs \ accepted :
       /\ tracked' = tracked \cup {x} /\ accepted' = accepted \cup {x}
       /\ Reply(i, [Pending EXCEPT !.step = "ok"])
  /\ UNCHANGED <<disk, errors, page>>

Lose(i) == /\ flight[i].kind # "none" /\ ~Answered(flight[i])
           /\ Reply(i, [Pending EXCEPT !.step = "error"])
           /\ UNCHANGED <<server, page>>

(* A tracked run opens its receipt and seals it; it is forgotten when it   *)
(* ends, an error of its being kept, and may fail before it has a receipt. *)
RunMoves(x) ==
  /\ x \in tracked
  /\ \/ disk[x] = "absent" /\ disk' = [disk EXCEPT ![x] = "open"] /\ UNCHANGED <<tracked, errors>>
     \/ disk[x] = "open" /\ disk' = [disk EXCEPT ![x] = "sealed"] /\ UNCHANGED <<tracked, errors>>
     \/ /\ disk[x] = "sealed" /\ tracked' = tracked \ {x} /\ UNCHANGED <<disk, errors>>
     \/ tracked' = tracked \ {x} /\ errors' = errors \cup {x} /\ UNCHANGED disk
  /\ UNCHANGED <<accepted, flight, page>>

-----------------------------------------------------------------------------
(* The poll.                                                               *)

Busy == field # "none"

Refresh == /\ ~hidden /\ ~Busy
           /\ Send(Request("state", FALSE, "none"))
           /\ UNCHANGED <<server, page>>

(* The page is looked at again: it asks at once, busy or not.              *)
Hide == hidden' = TRUE /\ ~hidden /\ UNCHANGED <<server, flight, held, drawn, field>>
ShowAgain == /\ hidden /\ hidden' = FALSE
             /\ Send(Request("state", TRUE, "none"))
             /\ UNCHANGED <<server, held, drawn, field>>

Focus == /\ \/ field = "none" /\ held # None /\ field' = "view"
            \/ field = "view" /\ field' = "none"
         /\ UNCHANGED <<server, flight, held, drawn, hidden>>

Seen(i) == [rows |-> flight[i].ans.rows, told |-> flight[i].ans.told]

(* A plausible fault: the state is remembered, but not drawn while the     *)
(* page is used.                                                           *)
SlipSkipsDrawing(i) ==
  /\ held' = Seen(i)
  /\ drawn' = IF (held = Seen(i) /\ ~flight[i].force) \/ Busy THEN drawn ELSE Seen(i)

(* What has not changed is not drawn again.                                *)
Take(i) ==
  /\ held' = Seen(i)
  /\ drawn' = IF held = Seen(i) /\ ~flight[i].force THEN drawn ELSE Seen(i)

(* Drawing takes the focus from a field of the view.                       *)
Drawn == field' = IF field = "view" /\ drawn' # drawn THEN "none" ELSE field

StateArrives(i) ==
  /\ flight[i].kind = "state" /\ Answered(flight[i])
  /\ Read(i)
  /\ IF flight[i].ans.step = "ok" THEN Take(i) /\ Drawn ELSE UNCHANGED <<held, drawn, field>>
  /\ UNCHANGED <<server, hidden>>

-----------------------------------------------------------------------------
(* The dialog that starts a run: a start that worked closes it and asks    *)
(* for the state at once, whatever has the focus.                          *)

OpenModal == /\ field # "dialog" /\ field' = "dialog"
             /\ UNCHANGED <<server, flight, held, drawn, hidden>>
CloseModal == /\ field = "dialog" /\ field' = "none"
              /\ UNCHANGED <<server, flight, held, drawn, hidden>>

StartRun ==
  /\ field = "dialog" /\ accepted # Runs
  /\ \A i \in Slots : flight[i].kind # "start"
  /\ Send(Request("start", FALSE, "none"))
  /\ UNCHANGED <<server, page>>

StartArrives(i) ==
  /\ flight[i].kind = "start" /\ Answered(flight[i])
  /\ IF flight[i].ans.step = "ok"
     THEN /\ flight' = [flight EXCEPT ![i] = Request("state", TRUE, "start")]
          /\ field' = "none"
     ELSE Read(i) /\ UNCHANGED field
  /\ UNCHANGED <<server, held, drawn, hidden>>

-----------------------------------------------------------------------------
Empty == [x \in Runs |-> "absent"]

Init ==
  /\ disk = Empty /\ tracked = {} /\ errors = {} /\ accepted = {}
  /\ flight = [i \in Slots |-> IF i = 1 THEN Request("state", FALSE, "none") ELSE Free]
  /\ held = None /\ drawn = None /\ hidden = FALSE /\ field = "none"

Arrives(i) == StateArrives(i) \/ StartArrives(i)
Handle(i) == CollectState(i) \/ MarkRunning(i) \/ StartProjectRun(i)

Next == \/ \E i \in Slots : Arrives(i) \/ Handle(i) \/ Lose(i)
        \/ \E x \in Runs : RunMoves(x)
        \/ Refresh \/ Hide \/ ShowAgain \/ Focus
        \/ OpenModal \/ CloseModal \/ StartRun

(* The page polls while it is looked at, what was asked is answered and    *)
(* read; nobody has to press anything.                                     *)
Fairness ==
  /\ WF_vars(Refresh)
  /\ \A i \in Slots : WF_vars(Arrives(i) \/ Handle(i))

Spec == Init /\ [][Next]_vars
FairSpec == Spec /\ Fairness

-----------------------------------------------------------------------------
TypeOK ==
  /\ disk \in [Runs -> {"absent", "open", "sealed"}]
  /\ tracked \subseteq accepted /\ errors \subseteq accepted /\ accepted \subseteq Runs
  /\ DOMAIN flight = Slots
  /\ held # None => held.rows \in [Runs -> {"absent", "sealed", "running", "incomplete"}]
  /\ field \in {"none", "view", "dialog"} /\ hidden \in BOOLEAN

(* A run whose start was answered is never missing from a state the page   *)
(* is given: it is among what is running, has a receipt, or has left its   *)
(* error (collectState, startProjectRun).                                  *)
Mentioned(s) == s.told \cup {x \in Runs : s.rows[x] # "absent"}
NothingVanishes ==
  [][\A i \in Slots : flight[i].then = "start" /\ StateArrives(i) /\ flight[i].ans.step = "ok"
        => Mentioned(held') # {}]_vars

(* A page that is looked at, and not in use, comes to show what the server *)
(* knows, in whatever order the answers come, once they stop being lost    *)
(* (shell.js refresh, busy).                                               *)
Truth == [rows |-> [x \in Runs |-> Row(x, disk[x])], told |-> tracked \cup errors]
Quiet == ~hidden /\ ~Busy /\ \A i \in Slots : flight[i].ans.step # "error"
PageCatchesUp == <>[]Quiet => <>[](drawn = Truth)
=============================================================================
