------------------------------- MODULE Requests -------------------------------
(***************************************************************************)
(* What a page has asked its server: up to MaxFlight requests, each        *)
(* handled on its own, answered in any order or not at all, and read when  *)
(* the page gets to it (the api function of ui/client/core.js).  A page's  *)
(* module adds what handling and reading do.                               *)
(***************************************************************************)
EXTENDS Naturals

CONSTANT MaxFlight
VARIABLE flight

Slots == 1..MaxFlight
Free == [kind |-> "none", arg |-> "none", ans |-> "none"]

(* Which slot a request takes tells nothing: the first that is free.       *)
Ask(kind, arg) ==
  \E i \in Slots : /\ flight[i] = Free /\ \A j \in 1..(i - 1) : flight[j] # Free
                   /\ flight' = [flight EXCEPT ![i] = [kind |-> kind, arg |-> arg, ans |-> "asked"]]

(* A request that follows from an answer takes the answer's place.         *)
Follow(i, kind, arg) == flight' = [flight EXCEPT ![i] = [kind |-> kind, arg |-> arg, ans |-> "asked"]]

Asked(i) == flight[i].ans = "asked"
Answer(i, what) == flight' = [flight EXCEPT ![i].ans = what]

(* The server is gone, or refuses: the page is given an error.             *)
Failed(i) == flight[i].ans = "error"
Fails(i) == Asked(i) /\ Answer(i, "error")
Answered(i) == flight[i].ans \notin {"none", "asked"}
Read(i) == flight' = [flight EXCEPT ![i] = Free]

Under(kinds) == \E i \in Slots : flight[i].kind \in kinds
NoneAsked == flight = [i \in Slots |-> Free]
=============================================================================
