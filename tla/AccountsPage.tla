----------------------------- MODULE AccountsPage -----------------------------
(***************************************************************************)
(* Signing in from the page (ui/client/accounts.js): a key is checked and  *)
(* stored, or a device code is shown and "done yet?" is asked until the    *)
(* person has confirmed it elsewhere.  The flows are kept by the server    *)
(* (ui/accounts.js, auth/login.js, auth/device-flow.js).                   *)
(***************************************************************************)
EXTENDS Requests, Sequences

CONSTANTS Services,   \* those with a browser sign-in
          Ids,        \* a sequence: the ids flows are given, in order
          MaxFlows,   \* flows the server keeps
          None

VARIABLES
  code,     \* what has become of the code of each flow: pending, confirmed, ...
  flows,    \* the flows the server keeps, oldest first
  stored,   \* the services that have a login
  box,      \* deviceSignIn: the flow whose code is on the page
  timer,    \* the next poll is scheduled
  busy,     \* the services whose buttons do nothing
  shown     \* the services the page shows as connected

vars == <<flight, code, flows, stored, box, timer, busy, shown>>
server == <<code, flows, stored>>
page == <<box, timer, busy, shown>>

NoFlow == [id |-> None, service |-> None]
Known == {flows[n].id : n \in 1..Len(flows)}
Without(id) == SelectSeq(flows, LAMBDA f : f.id # id)
Cardinal == Len(SelectSeq(Ids, LAMBDA id : code[id] # "none"))

-----------------------------------------------------------------------------
(* The person and the service.                                             *)
Confirms(id) == /\ code[id] = "pending"
                /\ \E to \in {"confirmed", "denied"} : code' = [code EXCEPT ![id] = to]
                /\ UNCHANGED <<flight, flows, stored, page>>

Expires(id) == /\ code[id] \in {"pending", "confirmed"} /\ code' = [code EXCEPT ![id] = "expired"]
               /\ UNCHANGED <<flight, flows, stored, page>>

(* Flows that ran out are dropped, and the oldest when there are too many. *)
Prune ==
  LET alive == SelectSeq(flows, LAMBDA f : code[f.id] # "expired")
  IN  IF Len(alive) < MaxFlows THEN alive ELSE SubSeq(alive, Len(alive) - MaxFlows + 2, Len(alive))

BeginDeviceLogin(i) ==
  /\ flight[i].kind = "start" /\ Asked(i) /\ Cardinal < Len(Ids)
  /\ LET id == Ids[Cardinal + 1]
     IN  /\ code' = [code EXCEPT ![id] = "pending"] /\ Answer(i, id)
         /\ flows' = Append(Prune, [id |-> id, service |-> flight[i].arg])
  /\ UNCHANGED <<stored, page>>

CheckDeviceFlow(i) ==
  /\ flight[i].kind = "poll" /\ Asked(i)
  /\ LET id == flight[i].arg.id
         says == code[id]
     IN  IF id \notin Known THEN Answer(i, "error") /\ UNCHANGED <<code, flows>>
         ELSE IF says = "pending" THEN Answer(i, "pending") /\ UNCHANGED <<code, flows>>
         ELSE /\ flows' = Without(id)
              /\ Answer(i, IF says = "confirmed" THEN "finishing" ELSE says)
              /\ code' = [code EXCEPT ![id] = IF says = "confirmed" THEN "used" ELSE says]
  /\ UNCHANGED <<stored, page>>

(* The service could not be asked: the flow is given up.                   *)
CheckFails(i) ==
  /\ flight[i].kind = "poll" /\ Asked(i) /\ Answer(i, "error")
  /\ flows' = Without(flight[i].arg.id)
  /\ UNCHANGED <<code, stored, page>>

FinishDeviceLogin(i) ==
  /\ flight[i].ans = "finishing"
  /\ \/ Answer(i, "done") /\ stored' = stored \cup {flight[i].arg.service}
     \/ Answer(i, "error") /\ UNCHANGED stored
  /\ UNCHANGED <<code, flows, page>>

SaveKey(i) ==
  /\ flight[i].kind = "key" /\ Asked(i)
  /\ \/ Answer(i, "saved") /\ stored' = stored \cup {flight[i].arg}
     \/ Answer(i, "error") /\ UNCHANGED stored
  /\ UNCHANGED <<code, flows, page>>

Logout(i) ==
  /\ flight[i].kind = "sign out" /\ Asked(i) /\ Answer(i, "done")
  /\ stored' = stored \ {flight[i].arg}
  /\ UNCHANGED <<code, flows, page>>

AuthStatus(i) ==
  /\ flight[i].kind = "load" /\ Asked(i)
  /\ flight' = [flight EXCEPT ![i].ans = "read", ![i].arg = stored]
  /\ UNCHANGED <<server, page>>

Lose(i) == Fails(i) /\ UNCHANGED <<server, page>>

-----------------------------------------------------------------------------
(* The page.                                                               *)
SaveAccountKey(s) ==
  /\ s \notin busy /\ busy' = busy \cup {s} /\ Ask("key", s)
  /\ UNCHANGED <<server, box, timer, shown>>

KeySaved(i) ==
  /\ flight[i].kind = "key" /\ flight[i].ans \in {"saved", "error"}
  /\ busy' = busy \ {flight[i].arg}
  /\ IF Failed(i) THEN Read(i) ELSE Follow(i, "load", {})
  /\ UNCHANGED <<server, box, timer, shown>>

SignOut(s) ==
  /\ s \in shown \ busy /\ Ask("sign out", s) /\ UNCHANGED <<server, page>>

SignedOut(i) ==
  /\ flight[i].kind = "sign out" /\ flight[i].ans \in {"done", "error"}
  /\ IF Failed(i) THEN Read(i) ELSE Follow(i, "load", {})
  /\ UNCHANGED <<server, page>>

LoadAccounts == Ask("load", {}) /\ UNCHANGED <<server, page>>

Loaded(i) ==
  /\ flight[i].kind = "load" /\ flight[i].ans \in {"read", "error"} /\ Read(i)
  /\ shown' = IF Failed(i) THEN shown ELSE flight[i].arg
  /\ UNCHANGED <<server, box, timer, busy>>

StartDeviceSignIn(s) ==
  /\ s \notin busy /\ box.service # s /\ busy' = busy \cup {s} /\ Ask("start", s)
  /\ UNCHANGED <<server, box, timer, shown>>

(* The timer that was running for another flow is cleared (schedulePoll).  *)
DeviceStarted(i) ==
  /\ flight[i].kind = "start" /\ Answered(i) /\ Read(i)
  /\ busy' = busy \ {flight[i].arg}
  /\ IF Failed(i) THEN UNCHANGED <<box, timer>>
     ELSE box' = [id |-> flight[i].ans, service |-> flight[i].arg] /\ timer' = TRUE
  /\ UNCHANGED <<server, shown>>

PollDeviceSignIn ==
  /\ timer /\ timer' = FALSE
  /\ IF box = NoFlow THEN UNCHANGED flight ELSE Ask("poll", box)
  /\ UNCHANGED <<server, box, busy, shown>>

(* A plausible fault: an answer is taken for the flow on the page.         *)
SlipMine(i) == box # NoFlow

Mine(i) == flight[i].arg = box

(* A plausible fault: a service that says "slow down" is not asked again.  *)
SlipPollAnswered(i) ==
  /\ flight[i].kind = "poll" /\ flight[i].ans \notin {"asked", "finishing", "error"} /\ Mine(i)
  /\ box' = IF flight[i].ans = "pending" THEN box ELSE NoFlow
  /\ IF flight[i].ans = "pending" THEN Read(i) /\ timer' \in BOOLEAN
     ELSE Follow(i, "load", {}) /\ UNCHANGED timer
  /\ UNCHANGED <<server, busy, shown>>

PollAnswered(i) ==
  /\ flight[i].kind = "poll" /\ flight[i].ans \notin {"asked", "finishing", "error"} /\ Mine(i)
  /\ box' = IF flight[i].ans = "pending" THEN box ELSE NoFlow
  /\ IF flight[i].ans = "pending" THEN Read(i) /\ timer' = TRUE
     ELSE Follow(i, "load", {}) /\ UNCHANGED timer
  /\ UNCHANGED <<server, busy, shown>>

(* An answer for a sign-in that was cancelled, or replaced, says nothing.  *)
PollDropped(i) ==
  /\ flight[i].kind = "poll" /\ flight[i].ans \notin {"asked", "finishing", "error"} /\ ~Mine(i) /\ Read(i)
  /\ UNCHANGED <<server, page>>

(* An error ends the sign-in on the page, whichever it belongs to.         *)
PollFailed(i) ==
  /\ flight[i].kind = "poll" /\ Failed(i) /\ Read(i) /\ box' = NoFlow
  /\ UNCHANGED <<server, timer, busy, shown>>

CancelDeviceSignIn ==
  /\ box # NoFlow /\ box' = NoFlow /\ timer' = FALSE
  /\ UNCHANGED <<flight, server, busy, shown>>

-----------------------------------------------------------------------------
Init == /\ NoneAsked /\ code = [n \in {Ids[k] : k \in 1..Len(Ids)} |-> "none"]
        /\ flows = <<>> /\ stored = {}
        /\ box = NoFlow /\ timer = FALSE /\ busy = {} /\ shown = {}

Next ==
  \/ \E i \in Slots : \/ BeginDeviceLogin(i) \/ CheckDeviceFlow(i) \/ CheckFails(i)
                      \/ FinishDeviceLogin(i) \/ SaveKey(i) \/ Logout(i) \/ AuthStatus(i) \/ Lose(i)
                      \/ KeySaved(i) \/ SignedOut(i) \/ Loaded(i) \/ DeviceStarted(i)
                      \/ PollAnswered(i) \/ PollDropped(i) \/ PollFailed(i)
  \/ \E s \in Services : SaveAccountKey(s) \/ SignOut(s) \/ StartDeviceSignIn(s)
  \/ \E id \in DOMAIN code : Confirms(id) \/ Expires(id)
  \/ LoadAccounts \/ PollDeviceSignIn \/ CancelDeviceSignIn

Spec == Init /\ [][Next]_vars

-----------------------------------------------------------------------------
TypeOK == /\ \A n \in 1..Len(flows) : flows[n].service \in Services
          /\ stored \subseteq Services /\ shown \subseteq Services /\ busy \subseteq Services
          /\ box.service \in Services \cup {None} /\ timer \in BOOLEAN /\ Len(flows) <= MaxFlows

Polls(f) == {i \in Slots : flight[i].kind = "poll" /\ flight[i].arg = f}

(* "Waiting for you to confirm..." is true: while a code is on the page,   *)
(* its sign-in is asked about by exactly one poll, scheduled or on its     *)
(* way - however cancels, second sign-ins, late answers and lost ones      *)
(* overlap (accounts.js 170-201).                                          *)
CodeIsWatched ==
  box # NoFlow => \/ timer /\ Polls(box) = {}
                  \/ ~timer /\ \E i \in Slots : Polls(box) = {i}

(* Not so: only its own end closes a sign-in. A poll of an earlier one     *)
(* that fails closes the one that is on the page (190-193).                *)
OwnEndOnly ==
  [][\A i \in Slots : PollFailed(i) => flight[i].arg = box]_vars
=============================================================================
