----------------------------- MODULE ReceiptPanel -----------------------------
(***************************************************************************)
(* One receipt on the screen, what is found out about it, and the checks   *)
(* of the project (ui/client/runs.js, resume-plan.js, worktrees.js), over  *)
(* what the server reads and starts (runtime/project-state.js).            *)
(***************************************************************************)
EXTENDS Requests

CONSTANTS Receipts, Intact, Resumable, Checks, None

VARIABLES
  taken,    \* receipts whose run was taken up again by another run
  open,     \* the receipt on the screen
  verdict,  \* what Verify said, of which receipt
  plan,     \* whether the run could be resumed, by which receipt
  checking  \* the checks that are shown as running

vars == <<flight, taken, open, verdict, plan, checking>>

Nothing == [file |-> None, says |-> "nothing"]
About(file, says) == [file |-> file, says |-> says]

-----------------------------------------------------------------------------
(* The server.  A resumption is planned again before it is started.        *)

Verifies(file) == IF file \in Intact THEN "valid" ELSE "invalid"
Plans(file) == IF file \in Resumable \ taken THEN "could" ELSE "cannot"

Handle(i) ==
  /\ Asked(i)
  /\ LET r == flight[i]
     IN  \/ r.kind = "open" /\ Answer(i, "read") /\ UNCHANGED taken
         \/ r.kind = "verify" /\ Answer(i, Verifies(r.arg)) /\ UNCHANGED taken
         \/ r.kind = "plan" /\ Answer(i, Plans(r.arg)) /\ UNCHANGED taken
         \/ /\ r.kind = "resume"
            /\ IF Plans(r.arg) = "could" THEN Answer(i, "started") /\ taken' = taken \cup {r.arg}
               ELSE Answer(i, "error") /\ UNCHANGED taken
         \/ r.kind = "check" /\ Answer(i, "found") /\ UNCHANGED taken
  /\ UNCHANGED <<open, verdict, plan, checking>>

Lose(i) == Fails(i) /\ UNCHANGED <<taken, open, verdict, plan, checking>>

-----------------------------------------------------------------------------
OpenReceipt(f) == Ask("open", f) /\ UNCHANGED <<taken, open, verdict, plan, checking>>

(* One receipt's verdict, or plan, is not left standing under another.     *)
Opens(i) ==
  /\ flight[i].kind = "open" /\ Answered(i) /\ Read(i)
  /\ IF Failed(i) THEN UNCHANGED <<open, verdict, plan>>
     ELSE open' = flight[i].arg /\ verdict' = Nothing /\ plan' = Nothing
  /\ UNCHANGED <<taken, checking>>

Close == /\ open # None /\ open' = None /\ verdict' = Nothing /\ plan' = Nothing
         /\ UNCHANGED <<flight, taken, checking>>

(* A plausible fault: whatever was found is what is shown.                 *)
SlipShown(found) == found.says \notin {"nothing", "pending"}

Shown(found) == found.says \notin {"nothing", "pending"} /\ found.file = open

VerifyOpenReceipt ==
  /\ open # None /\ ~Shown(verdict) /\ verdict.says # "pending"
  /\ Ask("verify", open) /\ verdict' = About(None, "pending")
  /\ UNCHANGED <<taken, open, plan, checking>>

(* A plausible fault: a verification that fails is left as it is.          *)
SlipVerified(i) ==
  /\ flight[i].kind = "verify" /\ Answered(i) /\ Read(i)
  /\ verdict' = IF Failed(i) THEN verdict ELSE About(flight[i].arg, flight[i].ans)
  /\ UNCHANGED <<taken, open, plan, checking>>

Verified(i) ==
  /\ flight[i].kind = "verify" /\ Answered(i) /\ Read(i)
  /\ verdict' = IF Failed(i) THEN Nothing ELSE About(flight[i].arg, flight[i].ans)
  /\ UNCHANGED <<taken, open, plan, checking>>

LoadResumePlan ==
  /\ open # None /\ plan.file # open
  /\ Ask("plan", open) /\ plan' = About(open, "pending")
  /\ UNCHANGED <<taken, open, verdict, checking>>

Planned(i) ==
  /\ flight[i].kind = "plan" /\ Answered(i) /\ Read(i)
  /\ plan' = IF Failed(i) THEN Nothing ELSE About(flight[i].arg, flight[i].ans)
  /\ UNCHANGED <<taken, open, verdict, checking>>

StartResume ==
  /\ Shown(plan) /\ plan.says = "could"
  /\ Ask("resume", open)
  /\ UNCHANGED <<taken, open, verdict, plan, checking>>

Resumed(i) ==
  /\ flight[i].kind = "resume" /\ Answered(i) /\ Read(i)
  /\ plan' = Nothing /\ open' = IF Failed(i) THEN open ELSE None
  /\ UNCHANGED <<taken, verdict, checking>>

(* One check is run, or all of them, one after the other; the next is      *)
(* asked when the one before has been answered, whatever it found.         *)
RunChecks(c, rest) ==
  /\ c \notin checking /\ (rest # {} => checking = {})
  /\ checking' = checking \cup {c}
  /\ Ask("check", [id |-> c, rest |-> rest])
  /\ UNCHANGED <<taken, open, verdict, plan>>

Checked(i) ==
  /\ flight[i].kind = "check" /\ Answered(i)
  /\ LET c == flight[i].arg.id
         rest == flight[i].arg.rest
     IN  IF rest = {} THEN Read(i) /\ checking' = checking \ {c}
         ELSE \E n \in rest : /\ Follow(i, "check", [id |-> n, rest |-> rest \ {n}])
                              /\ checking' = (checking \ {c}) \cup {n}
  /\ UNCHANGED <<taken, open, verdict, plan>>

-----------------------------------------------------------------------------
Init == /\ NoneAsked /\ taken = {} /\ open = None /\ verdict = Nothing /\ plan = Nothing
        /\ checking = {}

Arrives(i) == Opens(i) \/ Verified(i) \/ Planned(i) \/ Resumed(i) \/ Checked(i)

Next == \/ \E i \in Slots : Handle(i) \/ Lose(i) \/ Arrives(i)
        \/ \E f \in Receipts : OpenReceipt(f)
        \/ Close \/ VerifyOpenReceipt \/ LoadResumePlan \/ StartResume
        \/ \E c \in Checks, rest \in {{}, Checks} : RunChecks(c, rest \ {c})

Spec == Init /\ [][Next]_vars

-----------------------------------------------------------------------------
TypeOK == /\ open \in Receipts \cup {None} /\ taken \subseteq Resumable
          /\ verdict.says \in {"nothing", "pending", "valid", "invalid"}
          /\ plan.says \in {"nothing", "pending", "could", "cannot"}
          /\ checking \subseteq Checks

(* What stands beside a receipt is what was found of that receipt, in      *)
(* whatever order receipts are opened and answers come (runs.js            *)
(* openReceipt: "One run's verdict must never be left attached to another  *)
(* run's file").                                                           *)
VerdictBelongs ==
  /\ Shown(verdict) => verdict.says = Verifies(open)
  /\ Shown(plan) => (plan.says = "could" => open \in Resumable)

(* A sign that something is being read or run stands only while a request  *)
(* for it is out: no order of answers and errors leaves it there for good, *)
(* with the button that would ask again disabled (verifyOpenReceipt,       *)
(* loadResumePlan, runChecks).                                             *)
SignsHaveRequests ==
  /\ verdict.says = "pending" => Under({"verify"})
  /\ plan.says = "pending" => \E i \in Slots : flight[i].kind = "plan" /\ flight[i].arg = plan.file
  /\ checking # {} => Under({"check"})
=============================================================================
