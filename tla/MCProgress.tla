------------------------------ MODULE MCProgress ------------------------------
(* Does what must happen happen? A behaviour is that of the component that *)
(* `part` names, on an instance small enough for temporal properties.      *)
EXTENDS QueueService, Sequences, FiniteSets

CONSTANTS
  None, NoTree,
  Agents,                                         \* at work at the same time
  Route, MaxCalls, MaxTries, MaxRounds, Limit,    \* of their calls to models
  MaxIds,                                         \* of their tool server
  Hosted, HostCalls,                              \* plugins, and calls of them
  MaxPending

\* At least one try of a request (config/schema.js), and a route that is a list.
ASSUME CallAssumption ==
  /\ IsFiniteSet(Agents) /\ IsFiniteSet(Route) /\ Route = 1..Cardinality(Route)
  /\ MaxCalls \in Nat /\ MaxTries \in Nat \ {0} /\ MaxRounds \in Nat /\ Limit \in Nat

ASSUME ServerAssumption == "session" \notin Agents /\ MaxIds \in Nat /\ MaxPending \in Nat \ {0}

ASSUME HostAssumption ==
  IsFiniteSet(Hosted) /\ Hosted = 1..Cardinality(Hosted) /\ IsFiniteSet(HostCalls)

VARIABLES
  part,   \* the component whose behaviour this is
  record, overdue, wait, got, cut, answer, covered, grants, tainted, outside, runAborted,
  comment, deciding,
  lock, taking, runTries, tree, receipt, runPc, plan, status, runCall, digest, published,
  meddled, looked, unsent,
  loader, life, running, asked, pluginCall, hostCall, registered, hears, armed, kept,
  pluginHeld, ended,
  providerAt, providerPc, calls, providerTries, round, ran, api, used, metered, counted,
  speaks, stopped, sent, switches, did, cutOff,
  child, noticed, killed, pending, nextId, closed, stop, inbox, pipe, mcpAt, heard

\* The queue at work, of the constants' jobs and workers, cancels; here two jobs compete for one
\* worker: does either wait for ever?
Starving == INSTANCE QueueService WITH
  Jobs <- {"j1", "j2"}, Workers <- {"w1"}, Mortal <- {}, Operators <- {"o1"},
  NoOwner <- "nobody", NoJob <- "no job", MaxAttempts <- 1

\* Two operators, whose resumptions and cancellations overlap.
Operating == INSTANCE QueueService WITH
  Jobs <- {"j1"}, Workers <- {"w1"}, Mortal <- {}, Operators <- {"o1", "o2"},
  NoOwner <- "nobody", NoJob <- "no job", MaxAttempts <- 2

\* A request that may be decided on the issue as well.
Asking == INSTANCE RunApprovals WITH
  Requests <- {1}, Invocations <- {"first"}, InvocationOf <- [r \in {1} |-> "first"],
  WorkflowOf <- [i \in {"first"} |-> "workflow"], Scopes <- {"scope"},
  ScopeOf <- [r \in {1} |-> "scope"], Reviewers <- {"cli"}, Door <- "gitlab",
  aborted <- runAborted

\* A run, and one that continues it.
Running == INSTANCE ProjectRun WITH
  Runs <- {"r1", "r2"}, NoRun <- "no run", First <- "r1", Mortal <- {"r1"},
  Cut <- {"r1", "r2"}, Editing <- FALSE, Patient <- TRUE, Hand <- "hand",
  Steps <- {"s1", "s2"}, StepList <- <<"s1", "s2">>,
  Needs <- [s \in {"s1", "s2"} |-> IF s = "s2" THEN {"s1"} ELSE {}],
  AgentSteps <- {"s1", "s2"}, Concurrency <- 1, FailFast <- TRUE, Publishing <- TRUE,
  Cleanup <- "after-publish", Indexed <- FALSE, TelemetryFails <- FALSE,
  tries <- runTries, pc <- runPc, call <- runCall

Plugins == INSTANCE PluginHost WITH
  Plugins <- Hosted, Calls <- HostCalls, call <- pluginCall, held <- pluginHeld

Provider == INSTANCE ProviderCall WITH
  at <- providerAt, pc <- providerPc, tries <- providerTries

Server == INSTANCE McpClient WITH at <- mcpAt

gitlabVars == <<record, overdue, wait, got, cut, answer, covered, grants, tainted, outside,
                runAborted, comment, deciding>>
runsVars == <<lock, taking, runTries, tree, receipt, runPc, plan, status, runCall, digest,
              published, meddled, looked, unsent>>
pluginsVars == <<loader, life, running, asked, pluginCall, hostCall, registered, hears,
                 armed, kept, pluginHeld, ended>>
providerVars == <<providerAt, providerPc, calls, providerTries, round, ran, api, used,
                  metered, counted, speaks, stopped, sent, switches, did, cutOff>>
mcpVars == <<child, noticed, killed, pending, nextId, closed, stop, inbox, pipe, mcpAt,
             heard>>
progressVars == <<part, vars, gitlabVars, runsVars, pluginsVars, providerVars, mcpVars>>

Parts == {"starve", "cancel", "operate", "gitlab", "runs", "plugins", "provider", "mcp"}

\* The others rest in an initial state.
ProgressInit ==
  /\ part \in Parts
  /\ CASE part = "cancel"  -> Init
       [] part = "operate" -> Operating!Init
       [] OTHER            -> Starving!Init
  /\ Asking!Init
  /\ Running!Init
  /\ Plugins!Init
  /\ Provider!Init
  /\ Server!Init

QueueStep ==
  /\ \/ part = "starve" /\ Starving!Next
     \/ part = "cancel" /\ Next
     \/ part = "operate" /\ Operating!Next
  /\ UNCHANGED <<part, gitlabVars, runsVars, pluginsVars, providerVars, mcpVars>>

AskingStep ==
  /\ part = "gitlab" /\ Asking!Next
  /\ UNCHANGED <<part, vars, runsVars, pluginsVars, providerVars, mcpVars>>

RunningStep ==
  /\ part = "runs" /\ Running!Next
  /\ UNCHANGED <<part, vars, gitlabVars, pluginsVars, providerVars, mcpVars>>

PluginsStep ==
  /\ part = "plugins" /\ Plugins!Next
  /\ UNCHANGED <<part, vars, gitlabVars, runsVars, providerVars, mcpVars>>

ProviderStep ==
  /\ part = "provider" /\ Provider!Next
  /\ UNCHANGED <<part, vars, gitlabVars, runsVars, pluginsVars, mcpVars>>

ServerStep ==
  /\ part = "mcp" /\ Server!Next
  /\ UNCHANGED <<part, vars, gitlabVars, runsVars, pluginsVars, providerVars>>

ProgressNext ==
  \/ QueueStep \/ AskingStep \/ RunningStep \/ PluginsStep \/ ProviderStep \/ ServerStep

\* The fairness of each component, as its module states it, while it is the one at work.
\* An action of the queue, of the instance that is at work.
Either(S, C) == \/ part = "starve" /\ S
                \/ part = "cancel" /\ C

QueueFairness ==
  /\ \A w \in Workers :
       /\ WF_vars(Either(w = "w1" /\ (Starving!ClaimJob("w1") \/ Starving!Poll("w1")),
                         ClaimJob(w) \/ Poll(w)))
       /\ WF_vars(Either(w = "w1" /\ (Starving!ExecutionReturns("w1")
                                         \/ Starving!ExecutionThrows("w1")),
                         ExecutionReturns(w) \/ ExecutionThrows(w)))
       /\ WF_vars(Either(w = "w1" /\ Starving!Settles("w1"), Settles(w)))
  /\ \A j \in {"j1", "j2"} :
       /\ WF_vars(Either(Starving!Unrenewed(j), j \in Jobs /\ Unrenewed(j)))
       /\ WF_vars(Either(Starving!Due(j), j \in Jobs /\ Due(j)))

RunFairness ==
  \A r \in {"r1", "r2"} :
    /\ WF_runsVars(part = "runs" /\ Running!Proceed(r))
    /\ \A s \in {"s1", "s2"} :
         /\ WF_runsVars(part = "runs" /\ (Running!Measure(r, s) \/ Running!Record(r, s)))
         /\ WF_runsVars(part = "runs" /\ Running!TimeOut(r, s))

PluginFairness ==
  /\ WF_pluginsVars(part = "plugins" /\ Plugins!LoaderGoesOn)
  /\ \A p \in Hosted : /\ WF_pluginsVars(part = "plugins" /\ Plugins!AskedGivenUp(p))
                        /\ WF_pluginsVars(part = "plugins" /\ Plugins!Dies(p))
                        /\ WF_pluginsVars(part = "plugins" /\ Plugins!Exit(p))
  /\ \A c \in HostCalls : WF_pluginsVars(part = "plugins" /\ Plugins!GivenUp(c))

CallFairness ==
  /\ \A a \in Agents :
       /\ WF_providerVars(part = "provider" /\ (Provider!Router(a) \/ Provider!Adapter(a)))
       /\ WF_providerVars(part = "provider" /\ Provider!Stop(a))
  /\ \A c \in Server!Callers : WF_mcpVars(part = "mcp" /\ Server!GiveUp(c))
  /\ WF_mcpVars(part = "mcp" /\ Server!ListTools)
  /\ WF_mcpVars(part = "mcp" /\ Server!Kill)
  /\ WF_mcpVars(part = "mcp" /\ Server!Stopped)
  /\ WF_mcpVars(part = "mcp" /\ killed /\ Server!Exit)

ProgressFairness ==
  /\ WF_gitlabVars(part = "gitlab" /\ Asking!Handler(1))
  /\ QueueFairness /\ RunFairness /\ PluginFairness /\ CallFairness

ProgressSpec == ProgressInit /\ [][ProgressNext]_progressVars /\ ProgressFairness
-----------------------------------------------------------------------------
\* What was started ends, whoever else is silent: the wait of a stopped run, and for a request
\* whose time is up; a project run, though attempts hang, time out, are cut off or lose their
\* process; a plugin call, and a worker that is to go; a provider's call; a request to a tool
\* server, and the server of a client that closed. Whatever others do with it, a job that can
\* be claimed is not passed over for ever (j1 and j2 are alike), a cancellation is carried out
\* even if its worker has died, and a job does not stay running when its worker died (queue.js
\* claim and #recover; queue-worker.js #loop).
Unfinished ==
  \/ part = "starve" /\ Starving!PassedOver("j1")
  \/ part = "cancel" /\ \E j \in Jobs : CancelPending(j) \/ CrashUnnoticed(j)
  \/ part = "gitlab" /\ Asking!WaitsInVain(1)
  \/ part = "runs" /\ \E r \in {"r1", "r2"} : Running!Underway(r)
  \/ part = "plugins" /\ Plugins!Unsettled
  \/ part = "provider" /\ Provider!Called
  \/ part = "mcp" /\ Server!Unheard
WorkEnds == Unfinished ~> ~Unfinished

\* The component at work stays within the states and values its module names.
WellTyped ==
  /\ part = "starve" => Starving!TypeOK
  /\ part = "cancel" => TypeOK
  /\ part = "operate" => Operating!TypeOK
  /\ part = "gitlab" => Asking!TypeOK
  /\ part = "runs" => Running!TypeOK
  /\ part = "plugins" => Plugins!TypeOK
  /\ part = "provider" => Provider!TypeOK
  /\ part = "mcp" => Server!TypeOK

\* The tools of a task are asked for once, and all agents of a workflow together stay within
\* its number of requests, however they are retried and fall back (retry.js, openai-compatible.js).
CallsAreCounted == part = "provider" => Provider!CallsAreCounted

\* docs/architecture.md:57-58: fallback only after an error that is safe to replay "prevents
\* duplicate file changes or tool calls after an ambiguous failure" (a run expects this violated).
ToolsNotRepeated == part = "provider" => Provider!NoDuplicateToolCalls

\* Nobody is given another's answer, a closed tool server has no process left, and a plugin's
\* worker that owes an answer keeps its host alive (mcp-client.js, worker-host.js).
AnswersReachTheirCallers ==
  /\ part = "mcp" => Server!AnswerIsOwn /\ Server!ClosedIsGone
  /\ part = "plugins" => Plugins!BusyIsHeld
==============================================================================
