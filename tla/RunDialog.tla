------------------------------ MODULE RunDialog ------------------------------
(***************************************************************************)
(* The dialog a run is started from (ui/client/shell.js): whether a run    *)
(* could start is asked while a person chooses, and decided again by the   *)
(* server when the run is asked for (ui/server.js,                         *)
(* runtime/project-reads.js checkRunReadiness).                            *)
(***************************************************************************)
EXTENDS Requests

VARIABLES
  checkout, \* [inside, committed, locked]: what the project on disk is
  modal,    \* the dialog is on the screen
  ready,    \* what it was last told: "ready", or the way out
  boxed,    \* "work in this directory" was chosen
  disabled, \* the button that starts a run does nothing
  runs      \* how the runs that were started work: "worktree" or "in place"

vars == <<flight, checkout, modal, ready, boxed, disabled, runs>>
dialog == <<modal, ready, boxed, disabled>>

-----------------------------------------------------------------------------
(* The server.  Content that is not locked leaves no way out; a project    *)
(* that is not committed can still be worked on in place.                  *)

CheckRunReadiness ==
  CASE checkout.inside /\ checkout.committed /\ checkout.locked -> "ready"
    [] checkout.locked /\ ~(checkout.inside /\ checkout.committed) -> "in place"
    [] OTHER -> "not locked"

PostStart(i) ==
  IF flight[i].arg = "in place" \/ CheckRunReadiness = "ready"
  THEN runs' = runs \cup {flight[i].arg} /\ Answer(i, "started")
  ELSE UNCHANGED runs /\ Answer(i, CheckRunReadiness)

Handle(i) ==
  /\ Asked(i)
  /\ \/ flight[i].kind = "readiness" /\ UNCHANGED runs /\ Answer(i, CheckRunReadiness)
     \/ flight[i].kind = "state" /\ UNCHANGED runs /\ Answer(i, "read")
     \/ flight[i].kind = "start" /\ PostStart(i)
  /\ UNCHANGED <<checkout, dialog>>

Lose(i) == Fails(i) /\ UNCHANGED <<checkout, dialog, runs>>

(* The person follows the commands of the banner, or edits content.        *)
Shell ==
  /\ \/ checkout' = [checkout EXCEPT !.inside = TRUE]
     \/ checkout.inside /\ checkout' = [checkout EXCEPT !.committed = TRUE]
     \/ checkout' = [checkout EXCEPT !.locked = ~@]
  /\ UNCHANGED <<flight, dialog, runs>>

-----------------------------------------------------------------------------
(* The page.                                                               *)

PrepareRunModal == /\ modal' = TRUE /\ Ask("readiness", "none")
                   /\ UNCHANGED <<checkout, ready, boxed, disabled, runs>>

CloseModal == modal /\ modal' = FALSE /\ UNCHANGED <<flight, checkout, ready, boxed, disabled, runs>>

ShowRunReadiness(told) == ready' = told /\ boxed' = FALSE /\ disabled' = (told # "ready")

(* A readiness that cannot be read stops nobody.                           *)
ReadinessArrives(i) ==
  /\ flight[i].kind = "readiness" /\ Read(i)
  /\ ShowRunReadiness(IF Failed(i) THEN "ready" ELSE flight[i].ans)
  /\ UNCHANGED <<checkout, modal, runs>>

ChooseInPlace ==
  /\ modal /\ ready = "in place" /\ ~boxed
  /\ boxed' = TRUE /\ disabled' = FALSE
  /\ UNCHANGED <<flight, checkout, modal, ready, runs>>

StartRun ==
  /\ modal /\ ~disabled
  /\ Ask("start", IF boxed THEN "in place" ELSE "worktree")
  /\ disabled' = TRUE
  /\ UNCHANGED <<checkout, modal, ready, boxed, runs>>

Restored == disabled' = (ready' # "ready" /\ ~boxed')

(* A plausible fault: an error leaves the button as the start left it.     *)
SlipForgetsTheButton(i) == Read(i) /\ UNCHANGED <<modal, ready, boxed, disabled>>

FailedStart(i) == Read(i) /\ UNCHANGED <<modal, ready, boxed>> /\ Restored

(* A run that was started closes the dialog; the button is given back when *)
(* the state that is then asked for has been read.                         *)
StartArrives(i) ==
  /\ flight[i].kind = "start"
  /\ CASE flight[i].ans = "started" ->
            modal' = FALSE /\ UNCHANGED <<ready, boxed, disabled>> /\ Follow(i, "state", "none")
       [] flight[i].ans = "error" -> FailedStart(i)
       [] OTHER ->
            Read(i) /\ UNCHANGED modal /\ ready' = flight[i].ans /\ boxed' = FALSE /\ Restored
  /\ UNCHANGED <<checkout, runs>>

StateArrives(i) ==
  /\ flight[i].kind = "state" /\ Read(i)
  /\ UNCHANGED <<checkout, modal, ready, boxed, runs>> /\ Restored

Arrives(i) == /\ Answered(i)
              /\ (ReadinessArrives(i) \/ StartArrives(i) \/ StateArrives(i))

-----------------------------------------------------------------------------
Init == /\ NoneAsked /\ checkout \in [inside : BOOLEAN, committed : {FALSE}, locked : BOOLEAN]
        /\ modal = FALSE /\ ready = "ready"
        /\ boxed = FALSE /\ disabled = FALSE /\ runs = {}

Next == \/ \E i \in Slots : Handle(i) \/ Lose(i) \/ Arrives(i)
        \/ Shell \/ PrepareRunModal \/ CloseModal \/ ChooseInPlace \/ StartRun

Spec == Init /\ [][Next]_vars

-----------------------------------------------------------------------------
TypeOK == /\ checkout \in [inside : BOOLEAN, committed : BOOLEAN, locked : BOOLEAN]
          /\ ready \in {"ready", "in place", "not locked"}
          /\ modal \in BOOLEAN /\ boxed \in BOOLEAN /\ disabled \in BOOLEAN
          /\ runs \subseteq {"worktree", "in place"}

(* The button that starts a run is disabled only while a start is under    *)
(* way, or while the page has been told that a run cannot start and the    *)
(* person has not chosen to work in place: no order of readiness answers,  *)
(* refusals and errors leaves it dead (startRun, showRunReadiness).        *)
ButtonComesBack == disabled => (ready # "ready" /\ ~boxed) \/ Under({"start", "state"})
=============================================================================
