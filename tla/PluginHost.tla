----------------------------- MODULE PluginHost ------------------------------
(***************************************************************************)
(* Plugins in processes of their own: the loader that starts, sets up and  *)
(* registers them in order, the host side of every worker (requests,       *)
(* deadlines, forced and graceful termination), and what the worker        *)
(* process may do meanwhile: answer, call back, misbehave or die.          *)
(***************************************************************************)
EXTENDS Naturals, FiniteSets

CONSTANTS
  Plugins,        \* 1..N, in the order of their dependencies
  Calls,          \* provider invocations, secret look-ups and events of a run
  MaxPending      \* limits.maxPendingRequests

VARIABLES
  loader,         \* loadPlugins: its phase, and the plugin it is at
  life,           \* life[p]: the host object: closing, fatal, closed
  running,        \* worker processes that exist
  asked,          \* asked[p]: the request that the host itself has pending
  call,           \* call[c]: whom it asks, and how that went
  hostCall,       \* hostCall[p]: the fetch that the worker asked for
  registered,     \* plugins whose providers, agents and skills the harness has
  hears,          \* plugins subscribed to the harness's events
  armed,          \* plugins whose clean-up was handed to the host
  kept,           \* keepAlive
  held,           \* workers that keep the event loop of the host alive
  ended           \* harness.close was called

vars == <<loader, life, running, asked, call, hostCall, registered, hears, armed, kept,
          held, ended>>

Last == Cardinality(Plugins)
Open == {"up", "closing"}

TypeOK ==
  /\ loader \in [phase : {"start", "setup", "emit", "done", "failed"}, at : 1..Last + 1]
  /\ life \in [Plugins -> {"unborn", "up", "closing", "killed", "gone"}]
  /\ running \subseteq Plugins
  /\ asked \in [Plugins -> {"none", "inspect", "setup", "event", "shutdown"}]
  /\ call \in [Calls -> [to : Plugins \cup {0}, is : {"idle", "pending", "answered", "failed"}]]
  /\ hostCall \in [Plugins -> {"none", "authorizing", "fetching"}]
  /\ \A S \in {registered, hears, armed, kept, held} : S \subseteq Plugins
  /\ ended \in BOOLEAN

Init ==
  /\ loader = [phase |-> "start", at |-> 1]
  /\ life = [p \in Plugins |-> "unborn"] /\ running = {}
  /\ asked = [p \in Plugins |-> "none"]
  /\ call = [c \in Calls |-> [to |-> 0, is |-> "idle"]]
  /\ hostCall = [p \in Plugins |-> "none"]
  /\ registered = {} /\ hears = {} /\ armed = {} /\ kept = {} /\ held = {}
  /\ ended = FALSE

Waiting(p) == {c \in Calls : call[c] = [to |-> p, is |-> "pending"]}
Load(p)    == Cardinality(Waiting(p)) + (IF asked[p] = "none" THEN 0 ELSE 1)

\* (Slip...: faulty variants of the definitions that follow them.)
SlipIdleWhenReleased(S, more) == held' = (held \cup more) \ (S \ kept')

\* unrefIfIdle, for the workers S on which something came to an end.
Idle(S, more) ==
  held' = (held \cup more) \
    {p \in S \ kept' : Waiting(p)' = {} /\ asked'[p] = "none" /\ hostCall'[p] = "none"}

Settle(S, how) ==
  call' = [c \in Calls |-> IF c \in S THEN [call[c] EXCEPT !.is = how] ELSE call[c]]

\* The calls on hosts P that a kill rejects.
Rejected(P) == UNION {Waiting(p) : p \in P}

\* terminate: once, and not after the exit. The process gets a SIGKILL; its exit comes later.
Terminate(P, also) ==
  LET killed == {p \in P : life[p] \in Open} IN
  /\ life' = [p \in Plugins |-> IF p \in killed THEN "killed" ELSE life[p]]
  /\ Settle(Rejected(killed) \cup also, "failed")
  /\ asked' = [p \in Plugins |-> IF p \in killed THEN "none" ELSE asked[p]]
  /\ hears' = hears \ killed
  /\ hostCall' = [p \in Plugins |-> IF p \in killed /\ hostCall[p] = "fetching"
                                    THEN "none" ELSE hostCall[p]]

Ask(p, what) == asked' = [asked EXCEPT ![p] = what]
-----------------------------------------------------------------------------
(* The loader.                                                             *)

StartWorker ==
  LET p == loader.at IN
  /\ loader.phase = "start" /\ life[p] = "unborn"
  /\ life' = [life EXCEPT ![p] = "up"] /\ running' = running \cup {p}
  /\ Ask(p, "inspect")
  /\ kept' = kept \cup {p} /\ held' = held \cup {p}
  /\ UNCHANGED <<loader, call, hostCall, registered, hears, armed, ended>>

Inspected ==
  LET p == loader.at IN
  /\ loader.phase = "start" /\ asked[p] = "inspect" /\ p \in running
  /\ Ask(p, "none")
  /\ loader' = IF p < Last THEN [loader EXCEPT !.at = p + 1] ELSE [phase |-> "setup", at |-> 1]
  /\ UNCHANGED <<life, running, call, hostCall, registered, hears, armed, kept, held, ended>>

BeginSetup ==
  /\ loader.phase = "setup" /\ asked[loader.at] = "none" /\ life[loader.at] = "up"
  /\ Ask(loader.at, "setup")
  /\ UNCHANGED <<loader, life, running, call, hostCall, registered, hears, armed, kept, held,
                 ended>>

\* validateActions and applyPlugin; after the last one all are attached, and their hosts
\* get the clean-up - those included whose worker is gone by then.
SetUp ==
  LET p == loader.at IN
  /\ loader.phase = "setup" /\ asked[p] = "setup" /\ p \in running
  /\ Ask(p, "none")
  /\ registered' = registered \cup {p} /\ hears' = hears \cup {p}
  /\ IF p < Last
     THEN loader' = [loader EXCEPT !.at = p + 1] /\ UNCHANGED armed
     ELSE loader' = [phase |-> "emit", at |-> 1] /\ armed' = Plugins
  /\ UNCHANGED <<life, running, call, hostCall, kept, held, ended>>

\* A plugin that cannot be found, that is refused - its manifest, its name, its actions - or that failed meanwhile
\* takes the whole load with it.
LoadFails ==
  /\ loader.phase \in {"start", "setup"}
  /\ \/ life[loader.at] \in {"unborn", "killed", "gone"}
     \/ asked[loader.at] # "none" /\ loader.at \in running
  /\ loader' = [loader EXCEPT !.phase = "failed"]
  /\ Terminate({p \in Plugins : life[p] # "unborn"}, {})
  /\ registered' = {}
  /\ UNCHANGED <<running, armed, kept, held, ended>>

\* plugin.loaded, for one plugin after the other, to all that listen.
EmitLoaded ==
  /\ loader.phase = "emit" /\ loader.at <= Last
  /\ \A p \in Plugins : asked[p] = "none"
  /\ loader' = [loader EXCEPT !.at = @ + 1]
  /\ asked' = [p \in Plugins |-> IF p \in hears THEN "event" ELSE "none"]
  /\ UNCHANGED <<life, running, call, hostCall, registered, hears, armed, kept, held, ended>>

\* emit has settled the last time: the workers no longer keep the host alive.
Release ==
  /\ loader.phase = "emit" /\ loader.at > Last
  /\ \A p \in Plugins : asked[p] = "none"
  /\ loader' = [loader EXCEPT !.phase = "done"]
  /\ kept' = {} /\ UNCHANGED <<call, asked, hostCall>> /\ Idle(Plugins, {})
  /\ UNCHANGED <<life, running, registered, hears, armed, ended>>

Heard(p) ==
  /\ asked[p] = "event" /\ p \in running
  /\ Ask(p, "none")
  /\ UNCHANGED <<loader, life, running, call, hostCall, registered, hears, armed, kept, held,
                 ended>>
-----------------------------------------------------------------------------
(* A host and its worker.                                                  *)

\* request, on a host that is neither closed nor failed and has room.
Send(c, p) ==
  /\ Load(p) < MaxPending /\ life[p] \in Open
  /\ call' = [call EXCEPT ![c] = [to |-> p, is |-> "pending"]]
  /\ held' = held \cup {p}
  /\ UNCHANGED <<life, asked, hears, hostCall>>

\* ... that is closed or failed, or whose limit is reached.
Refuse(c, p) ==
  /\ Load(p) >= MaxPending \/ life[p] \notin Open
  /\ Terminate({p}, {}) /\ UNCHANGED held

Request(c, p) ==
  /\ call[c].is = "idle" /\ loader.phase = "done" /\ p \in registered \cup hears
  /\ Send(c, p) \/ Refuse(c, p)
  /\ UNCHANGED <<loader, running, registered, armed, kept, ended>>

\* The worker's response is delivered.
Answered(c) ==
  LET p == call[c].to IN
  /\ call[c].is = "pending" /\ p \in running
  /\ Settle({c}, "answered")
  /\ UNCHANGED <<loader, life, running, asked, hostCall, registered, hears, armed, kept, ended>>
  /\ Idle({p}, {})

\* The deadline passes, the signal is aborted, or the response breaks the protocol.
GivenUp(c) ==
  LET p == call[c].to IN
  /\ call[c].is = "pending"
  /\ Terminate({p}, {c})
  /\ UNCHANGED <<loader, running, registered, armed, kept, ended>>
  /\ Idle({p}, {})

SlipNoShutdownDeadline(p) ==
  /\ asked[p] \in {"inspect", "setup", "event"}
  /\ Terminate({p}, {})
  /\ UNCHANGED <<loader, running, registered, armed, kept, ended>>
  /\ Idle({p}, {})

\* The same for what the host itself asked; a shutdown that takes too long only ends there.
AskedGivenUp(p) ==
  /\ asked[p] # "none"
  /\ IF asked[p] = "shutdown"
     THEN Ask(p, "none") /\ UNCHANGED <<life, call, hears, hostCall>>
     ELSE Terminate({p}, {})
  /\ UNCHANGED <<loader, running, registered, armed, kept, ended>>
  /\ Idle({p}, {})

\* Too much output, memory that cannot be measured, too many callbacks, a broken message.
Misbehave(p) ==
  /\ p \in running /\ life[p] \in Open
  /\ Terminate({p}, {})
  /\ UNCHANGED <<loader, running, registered, armed, kept, ended>>
  /\ Idle({p}, {})

\* The worker asks for a fetch; one at a time here.
CallBack(p) ==
  /\ p \in running /\ life[p] \in Open /\ hostCall[p] = "none" /\ p \in registered
  /\ hostCall' = [hostCall EXCEPT ![p] = "authorizing"]
  /\ UNCHANGED <<loader, life, running, asked, call, registered, hears, armed, kept, held, ended>>

\* authorizeNetwork has decided; whether the worker still exists is not asked.
Authorized(p) ==
  /\ hostCall[p] = "authorizing"
  /\ \E next \in {"none", "fetching"} : hostCall' = [hostCall EXCEPT ![p] = next]
  /\ UNCHANGED <<loader, life, running, asked, call, registered, hears, armed, kept, ended>>
  /\ Idle({p}, {})

Fetched(p) ==
  /\ hostCall[p] = "fetching"
  /\ hostCall' = [hostCall EXCEPT ![p] = "none"]
  /\ UNCHANGED <<loader, life, running, asked, call, registered, hears, armed, kept, ended>>
  /\ Idle({p}, {})

\* Harness.close: every attached host asks its worker to shut down, if it has room to ask.
Close ==
  LET full == {p \in Plugins : life[p] = "up" /\ Load(p) >= MaxPending} IN
  /\ loader.phase = "done" /\ ~ended
  /\ ended' = TRUE
  /\ life' = [p \in Plugins |-> IF p \in full THEN "killed"
                                ELSE IF life[p] = "up" THEN "closing" ELSE life[p]]
  /\ asked' = [p \in Plugins |-> IF life[p] = "up" /\ p \notin full THEN "shutdown" ELSE "none"]
  /\ Settle(Rejected(full), "failed")
  /\ hostCall' = [p \in Plugins |-> IF p \in full /\ hostCall[p] = "fetching"
                                    THEN "none" ELSE hostCall[p]]
  /\ hears' = {}
  /\ LET there == {p \in Plugins : life[p] # "gone"} IN
     kept' = kept \cup there /\ held' = held \cup there
  /\ UNCHANGED <<loader, running, registered, armed>>

ShutDown(p) ==
  /\ asked[p] = "shutdown" /\ p \in running
  /\ Ask(p, "none")
  /\ UNCHANGED <<loader, life, running, call, hostCall, registered, hears, armed, kept, held,
                 ended>>

\* The process ends: by itself, on the signal, or after its shutdown.
Die(p) ==
  /\ p \in running
  /\ running' = running \ {p}
  /\ UNCHANGED <<loader, life, asked, call, hostCall, registered, hears, armed, kept, held, ended>>

\* Its exit event. After a graceful end nobody rejects what is pending: the deadlines do.
Exit(p) ==
  /\ life[p] \in {"up", "closing", "killed"} /\ p \notin running
  /\ life' = [life EXCEPT ![p] = "gone"]
  /\ IF life[p] = "up"
     THEN Ask(p, "none") /\ Settle(Waiting(p), "failed")
     ELSE UNCHANGED <<asked, call>>
  /\ hears' = hears \ {p}
  /\ registered' = IF p \in armed THEN registered \ {p} ELSE registered
  /\ hostCall' = IF hostCall[p] = "fetching" THEN [hostCall EXCEPT ![p] = "none"] ELSE hostCall
  /\ UNCHANGED <<loader, running, armed, kept, ended>>
  /\ Idle({p}, {})
-----------------------------------------------------------------------------
Loading == StartWorker \/ Inspected \/ BeginSetup \/ SetUp \/ LoadFails \/ EmitLoaded \/ Release

Worker(p) == Heard(p) \/ Misbehave(p) \/ CallBack(p) \/ ShutDown(p) \/ Die(p)

Host(p) == AskedGivenUp(p) \/ Authorized(p) \/ Fetched(p) \/ Exit(p)

Next ==
  \/ Loading \/ Close
  \/ \E p \in Plugins : Worker(p) \/ Host(p)
  \/ \E c \in Calls, p \in Plugins : Request(c, p)
  \/ \E c \in Calls : Answered(c) \/ GivenUp(c)

\* A process that was killed, or asked to go and then killed, does end.
Dies(p) == Die(p) /\ (life[p] = "killed" \/ (life[p] = "closing" /\ asked[p] = "none"))

\* Every request has a deadline, exit events arrive, the loader's code runs on. Nothing is
\* assumed of the workers.
LoaderGoesOn == StartWorker \/ BeginSetup \/ LoadFails \/ EmitLoaded \/ Release

Fairness ==
  /\ WF_vars(LoaderGoesOn)
  /\ \A p \in Plugins : WF_vars(AskedGivenUp(p)) /\ WF_vars(Dies(p)) /\ WF_vars(Exit(p))
  /\ \A c \in Calls : WF_vars(GivenUp(c))

Spec == Init /\ [][Next]_vars
FairSpec == Spec /\ Fairness
-----------------------------------------------------------------------------
\* A host process that has nothing else to do does not end over a pending request: the
\* worker that has to answer keeps it alive, in whatever order calls and releases come.
BusyIsHeld == \A p \in Plugins : life[p] \in Open /\ Load(p) > 0 => p \in held

\* docs/plugin-isolation.md: timeout, abort and unexpected exit fail the active operation,
\* and every worker that is to go is reaped. No call waits for a worker for ever, no worker
\* outlives its host's decision, and the loader comes to an end.
Unsettled == \/ \E c \in Calls : call[c].is = "pending"
             \/ \E p \in Plugins : life[p] \in {"closing", "killed"}
             \/ running # {} /\ loader.phase \notin {"done", "failed"}
EverythingEnds == Unsettled ~> ~Unsettled

\* docs/plugin-isolation.md: "forced termination still reaps the process and removes all
\* host registrations."
GoneIsUnregistered ==
  \A p \in Plugins : loader.phase = "done" /\ life[p] = "gone" => p \notin registered
=============================================================================
