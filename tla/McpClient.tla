----------------------------- MODULE McpClient -----------------------------
(***************************************************************************)
(* One MCP server of a run (src/providers/mcp-client.js): a child process  *)
(* that answers numbered requests on its stdout in any order.  The session *)
(* initializes it and lists its tools, the run's agents call them side by  *)
(* side, and anything that goes wrong (a timeout, an abort, output that is *)
(* not a response, an exit) closes the client for everybody and stops the  *)
(* process group (src/runtime/child-process.js, `stopChild`).              *)
(*                                                                         *)
(* What a message says is left out; the byte limits are one way of being   *)
(* output that ends the client (`BadOutput`).                              *)
(***************************************************************************)
EXTENDS Naturals, Sequences, FiniteSets

CONSTANTS Agents,       \* callers of the server's tools, running side by side
          MaxIds,       \* bound: requests sent
          MaxPending    \* limits.maxPendingRequests

VARIABLES child,    \* the process: "none", "unstarted", "running", "leaderGone", "gone"
          noticed,  \* the exit event has been handled
          killed,   \* the process group was sent SIGKILL
          pending,  \* id |-> caller of a request without an answer
          nextId, closed,
          stop,     \* stopChild: "no", "term", "kill", "done"
          inbox,    \* requests the server has not answered
          pipe,     \* its stdout: ids answered, 0 for output that is no response
          at,       \* where each caller is
          heard     \* what its last request brought: an id's answer, or 0 for an error

vars == <<child, noticed, killed, pending, nextId, closed, stop, inbox, pipe, at, heard>>

Callers == Agents \cup {"session"}
Ids == 1..MaxIds
Stages == {"idle", "asking", "initialize", "list", "listed", "call", "ready", "failed", "left"}

TypeOK ==
    /\ child \in {"none", "unstarted", "running", "leaderGone", "gone"}
    /\ noticed \in BOOLEAN /\ killed \in BOOLEAN /\ closed \in BOOLEAN
    /\ DOMAIN pending \subseteq Ids /\ \A i \in DOMAIN pending : pending[i] \in Callers
    /\ Cardinality(DOMAIN pending) =< MaxPending
    /\ nextId \in 1..(MaxIds + 1)
    /\ stop \in {"no", "term", "kill", "done"}
    /\ inbox \subseteq Ids
    /\ pipe \in Seq(0..MaxIds) /\ Len(pipe) =< MaxIds + 1
    /\ at \in [Callers -> Stages]
    /\ heard \in [Callers -> [asked : 0..MaxIds, got : 0..MaxIds]]

NoPending == [i \in {} |-> "session"]

Init ==
    /\ child = "none" /\ noticed = FALSE /\ killed = FALSE /\ closed = FALSE
    /\ pending = NoPending /\ nextId = 1 /\ stop = "no"
    /\ inbox = {} /\ pipe = <<>>
    /\ at = [c \in Callers |-> "idle"]
    /\ heard = [c \in Callers |-> [asked |-> 0, got |-> 0]]

Asking(c) == at[c] \in {"initialize", "list", "call"}
----------------------------------------------------------------------------
(* Where a caller goes when its request settles, and the client's close.   *)

After(c, ok) ==
    CASE at[c] = "call" -> "idle"
      [] at[c] = "initialize" /\ ok -> "initialize"   \* goes on to the list
      [] at[c] = "list" /\ ok -> "listed"
      [] OTHER -> "failed"

SlipSettle(i, got) ==
    IF DOMAIN pending = {} THEN UNCHANGED <<pending, at, heard>>
    ELSE LET first == CHOOSE j \in DOMAIN pending : \A k \in DOMAIN pending : j =< k
             c == pending[first]
         IN /\ pending' = [j \in DOMAIN pending \ {first} |-> pending[j]]
            /\ at' = [at EXCEPT ![c] = After(c, got # 0)]
            /\ heard' = [heard EXCEPT ![c].got = got]
\* settle: the request of this id, if it still waits, and nobody else's.
Settle(i, got) ==
    IF i \notin DOMAIN pending THEN UNCHANGED <<pending, at, heard>>
    ELSE LET c == pending[i]
         IN /\ pending' = [j \in DOMAIN pending \ {i} |-> pending[j]]
            /\ at' = [at EXCEPT ![c] = After(c, got # 0)]
            /\ heard' = [heard EXCEPT ![c].got = got]

Waiting(c) == \E i \in DOMAIN pending : pending[i] = c

SlipClose ==
    /\ pending' = NoPending
    /\ closed' = TRUE
    /\ stop' = IF stop # "no" THEN stop ELSE IF child \in {"none", "unstarted"} THEN "done" ELSE "term"
    /\ UNCHANGED <<at, heard>>
\* close: everybody who waits hears an error, the process group gets SIGTERM.
\* connectMcpTools gives up a server whose initialization or list failed.
Close ==
    /\ pending' = NoPending
    /\ at' = [c \in Callers |-> IF Waiting(c) THEN After(c, FALSE) ELSE at[c]]
    /\ heard' = [c \in Callers |-> IF Waiting(c) THEN [heard[c] EXCEPT !.got = 0] ELSE heard[c]]
    /\ closed' = TRUE
    /\ stop' = IF stop # "no" THEN stop ELSE IF child \in {"none", "unstarted"} THEN "done" ELSE "term"
----------------------------------------------------------------------------
(* The client.                                                             *)

\* send: a request gets the next number, unless the client is closed or full.
Send(c, stage) ==
    IF closed \/ child = "none" \/ Cardinality(DOMAIN pending) >= MaxPending
    THEN /\ at' = [at EXCEPT ![c] = IF stage = "call" THEN "idle" ELSE "failed"]
         /\ heard' = [heard EXCEPT ![c] = [asked |-> 0, got |-> 0]]
         /\ UNCHANGED <<pending, nextId, inbox>>
    ELSE /\ nextId \in Ids
         /\ nextId' = nextId + 1
         /\ pending' = [i \in DOMAIN pending \cup {nextId} |->
                           IF i = nextId THEN c ELSE pending[i]]
         /\ at' = [at EXCEPT ![c] = stage]
         /\ heard' = [heard EXCEPT ![c] = [asked |-> nextId, got |-> 0]]
         /\ inbox' = inbox \cup {nextId}

\* initialize: the process is started and asked in one go; that it could not be
\* started is an event that comes later.
Initialize ==
    /\ at["session"] = "idle" /\ child = "none" /\ ~closed
    /\ child' \in {"running", "unstarted"}
    /\ nextId' = 2
    /\ pending' = [i \in {1} |-> "session"]
    /\ at' = [at EXCEPT !["session"] = "initialize"]
    /\ heard' = [heard EXCEPT !["session"] = [asked |-> 1, got |-> 0]]
    /\ inbox' = {1}
    /\ UNCHANGED <<noticed, killed, closed, stop, pipe>>

ListTools ==
    /\ at["session"] = "initialize" /\ ~Waiting("session")
    /\ Send("session", "list")
    /\ UNCHANGED <<child, noticed, killed, closed, stop, pipe>>

\* A list that is too long or names a tool badly is no list.
TakeList == /\ at["session"] = "listed"
            /\ \E next \in {"ready", "failed"} : at' = [at EXCEPT !["session"] = next]
            /\ UNCHANGED <<child, noticed, killed, closed, pending, nextId, stop, inbox, pipe, heard>>

\* A tool is offered once the list is there; its use is decided about first,
\* and the client may have closed by then.
Ask(c) == /\ c \in Agents /\ at[c] = "idle" /\ at["session"] = "ready"
          /\ at' = [at EXCEPT ![c] = "asking"]
          /\ UNCHANGED <<child, noticed, killed, closed, pending, nextId, stop, inbox, pipe, heard>>

CallTool(c) == /\ at[c] = "asking"
               /\ \/ Send(c, "call")
                  \/ /\ at' = [at EXCEPT ![c] = "idle"]    \* refused
                     /\ UNCHANGED <<pending, nextId, inbox, heard>>
               /\ UNCHANGED <<child, noticed, killed, closed, stop, pipe>>

\* stdout: read in order, nothing of it once the client is closed.
Deliver ==
    /\ pipe # <<>> /\ ~closed
    /\ pipe' = Tail(pipe)
    /\ IF Head(pipe) = 0 THEN Close ELSE Settle(Head(pipe), Head(pipe)) /\ UNCHANGED <<closed, stop>>
    /\ UNCHANGED <<child, noticed, killed, nextId, inbox>>

\* A timer, or the caller's own signal, ends the client for every caller.
GiveUp(c) ==
    /\ Asking(c) /\ Waiting(c)
    /\ Close
    /\ UNCHANGED <<child, noticed, killed, nextId, inbox, pipe>>

ExitNoticed ==
    /\ child \in {"unstarted", "leaderGone", "gone"} /\ ~noticed
    /\ noticed' = TRUE
    /\ Close
    /\ UNCHANGED <<child, killed, nextId, inbox, pipe>>

\* connectMcpTools: a server that did not get ready is closed; and the end of
\* the run closes every server.
Leave ==
    /\ at["session"] \in {"ready", "failed"}
    /\ pending' = NoPending /\ closed' = TRUE
    /\ at' = [c \in Callers |-> IF c = "session" THEN "left"
                                ELSE IF Waiting(c) THEN After(c, FALSE) ELSE at[c]]
    /\ heard' = [c \in Callers |-> IF Waiting(c) THEN [heard[c] EXCEPT !.got = 0] ELSE heard[c]]
    /\ stop' = IF stop # "no" THEN stop ELSE IF child = "unstarted" THEN "done" ELSE "term"
    /\ UNCHANGED <<child, noticed, killed, nextId, inbox, pipe>>
----------------------------------------------------------------------------
(* stopChild: SIGTERM, a grace time or the end of the pipes, then SIGKILL  *)
(* for whatever the leader left behind.                                    *)

SlipKill ==
    /\ stop = "term"
    /\ stop' = IF child = "running" THEN "kill" ELSE "done"
    /\ killed' = (child = "running")
    /\ UNCHANGED <<child, noticed, pending, nextId, closed, inbox, pipe, at, heard>>
Kill ==
    /\ stop = "term"
    /\ stop' = IF child = "running" THEN "kill" ELSE "done"
    /\ killed' = TRUE
    /\ UNCHANGED <<child, noticed, pending, nextId, closed, inbox, pipe, at, heard>>

Stopped ==
    /\ stop = "kill" /\ child = "gone"
    /\ stop' = "done"
    /\ UNCHANGED <<child, noticed, killed, pending, nextId, closed, inbox, pipe, at, heard>>
----------------------------------------------------------------------------
(* The server: it answers what it likes, when it likes, or something else. *)

Answer ==
    /\ child = "running"
    /\ \E i \in inbox : inbox' = inbox \ {i} /\ pipe' = Append(pipe, i)
    /\ UNCHANGED <<child, noticed, killed, pending, nextId, closed, stop, at, heard>>

BadOutput ==
    /\ child = "running" /\ ~\E n \in 1..Len(pipe) : pipe[n] = 0
    /\ pipe' = Append(pipe, 0)
    /\ UNCHANGED <<child, noticed, killed, pending, nextId, closed, stop, inbox, at, heard>>

\* It exits by itself or on SIGTERM, leaving descendants or none; SIGKILL ends all.
Exit ==
    /\ \/ child = "running" /\ child' \in {"leaderGone", "gone"}
       \/ child = "leaderGone" /\ child' = "gone"
    /\ UNCHANGED <<noticed, killed, pending, nextId, closed, stop, inbox, pipe, at, heard>>

Next ==
    \/ Initialize \/ ListTools \/ TakeList \/ Leave
    \/ \E c \in Agents : Ask(c) \/ CallTool(c)
    \/ \E c \in Callers : GiveUp(c)
    \/ Deliver \/ ExitNoticed \/ Kill \/ Stopped
    \/ Answer \/ BadOutput \/ Exit

Spec == Init /\ [][Next]_vars

\* Timers come due, events are handled, SIGKILL ends a process.
Fairness ==
    /\ \A c \in Callers : WF_vars(GiveUp(c))
    /\ WF_vars(ListTools) /\ WF_vars(Kill) /\ WF_vars(Stopped)
    /\ WF_vars(killed /\ Exit)
FairSpec == Spec /\ Fairness
----------------------------------------------------------------------------
(* Nobody is given the answer to another's request, however the answers    *)
(* are ordered and however late they come: ids decide.                     *)
AnswerIsOwn == \A c \in Callers : heard[c].got \in {0, heard[c].asked}

(* Once `close` has returned, the server is gone, and what it left behind  *)
(* has been killed: no process of the run outlives it.                     *)
ClosedIsGone ==
    stop = "done" => child = "unstarted" \/ (killed /\ child # "running")

(* Every request is answered or fails, and a closed client's process ends: *)
(* nobody waits for a server that is silent, dead or ignoring SIGTERM.     *)
Unheard == (\E c \in Callers : Asking(c)) \/ (closed /\ stop # "done")
EverybodyHears == Unheard ~> ~Unheard
============================================================================
