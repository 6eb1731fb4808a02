---------------------------- MODULE ProviderCall -----------------------------
(***************************************************************************)
(* One agent's call to a model: the router goes along its route of         *)
(* providers, the adapter turns answers into tool calls and new requests,  *)
(* withRetry repeats a request, and the meter counts what was sent against *)
(* the budget that all agents of a workflow share.  Of a conversation is   *)
(* kept whether it holds tool results.                                     *)
(***************************************************************************)
EXTENDS Naturals, FiniteSets

CONSTANTS
  Agents,         \* agents of one workflow, at work at the same time
  Route,          \* providers 1..N, in the order of the route
  MaxCalls,       \* routing.fallback.maxAttempts
  MaxTries,       \* retry.attempts
  MaxRounds,      \* maxToolIterations
  Limit           \* maxProviderRequestsPerWorkflow

VARIABLES
  at,             \* at[a]: position in the route
  pc,             \* pc[a]: the await that the call of a is at, or its end
  calls,          \* calls[a]: providers invoked (invocationCount)
  tries,          \* tries[a]: attempts of the present request
  round,          \* round[a]: iteration of the tool loop
  ran,            \* ran[a]: the conversation holds tool results
  api,            \* api[a]: the API that the conversation uses
  used, metered,  \* requests as the adapter counts them, and as the meter last saw them
  counted,        \* the workflow's total in the telemetry
  speaks,         \* speaks[p]: the API that provider p uses (useResponses)
  stopped,        \* agents whose signal is aborted
  sent,           \* history: requests that went out
  switches,       \* history: how often a call changed the API
  did,            \* history: did[a]: who asked for tools that ran, <<provider, API>>
  cutOff          \* history: agents whose connection failed after tools had run

place   == <<at, pc, calls, tries, round, ran, api>>
meter   == <<used, metered, counted>>
history == <<sent, switches, did, cutOff>>
vars    == <<place, meter, speaks, stopped, history>>

Ends == {"answered", "failed", "ineligible"}
APIs == {"chat", "responses"}

TypeOK ==
  /\ at \in [Agents -> 1..Cardinality(Route) + 1]
  /\ pc \in [Agents -> {"route", "request", "sent", "backoff", "tools"} \cup Ends]
  /\ calls \in [Agents -> 0..MaxCalls] /\ tries \in [Agents -> 1..MaxTries]
  /\ round \in [Agents -> 0..MaxRounds]
  /\ ran \in [Agents -> BOOLEAN] /\ api \in [Agents -> APIs]
  /\ used \in [Agents -> Nat] /\ metered \in [Agents -> Nat] /\ counted \in 0..Limit
  /\ speaks \in [Route -> APIs]
  /\ stopped \subseteq Agents /\ cutOff \subseteq Agents
  /\ did \in [Agents -> SUBSET (Route \X APIs)]

Init ==
  /\ at = [a \in Agents |-> 1] /\ pc = [a \in Agents |-> "route"]
  /\ calls = [a \in Agents |-> 0] /\ tries = [a \in Agents |-> 1]
  /\ round = [a \in Agents |-> 0] /\ ran = [a \in Agents |-> FALSE]
  /\ used = [a \in Agents |-> 0] /\ metered = [a \in Agents |-> 0] /\ counted = 0
  /\ api = [a \in Agents |-> "chat"]
  /\ speaks = [p \in Route |-> "chat"] /\ stopped = {}
  /\ sent = 0 /\ switches = 0 /\ did = [a \in Agents |-> {}] /\ cutOff = {}

Goto(a, where) == pc' = [pc EXCEPT ![a] = where]
-----------------------------------------------------------------------------
(* The router.                                                             *)

\* Denied by policy, not registered, without a required capability, or unavailable.
PassOver(a) ==
  /\ pc[a] = "route" /\ at[a] \in Route
  /\ at' = [at EXCEPT ![a] = @ + 1]
  /\ UNCHANGED <<pc, calls, tries, round, ran, api, meter, speaks, stopped, history>>

NoneLeft(a) ==
  /\ pc[a] = "route" /\ at[a] \notin Route
  /\ Goto(a, "ineligible")
  /\ UNCHANGED <<at, calls, tries, round, ran, api, meter, speaks, stopped, history>>

\* provider.invoke begins a conversation of its own, with a fresh meter.
Invoke(a) ==
  /\ pc[a] = "route" /\ at[a] \in Route /\ calls[a] < MaxCalls
  /\ Goto(a, "request")
  /\ calls' = [calls EXCEPT ![a] = @ + 1]
  /\ tries' = [tries EXCEPT ![a] = 1]
  /\ round' = [round EXCEPT ![a] = 0] /\ ran' = [ran EXCEPT ![a] = FALSE]
  /\ api' = [api EXCEPT ![a] = speaks[at[a]]]
  /\ used' = [used EXCEPT ![a] = 0] /\ metered' = [metered EXCEPT ![a] = 0]
  /\ UNCHANGED <<at, counted, speaks, stopped, history>>

SlipAnyFailure(a, safe) ==
  IF calls[a] < MaxCalls
  THEN Goto(a, "route") /\ at' = [at EXCEPT ![a] = @ + 1]
  ELSE Goto(a, "failed") /\ UNCHANGED at

\* provider.invoke throws: on to the next provider only when the error is safe to replay.
GiveUp(a, safe) ==
  IF safe /\ calls[a] < MaxCalls
  THEN Goto(a, "route") /\ at' = [at EXCEPT ![a] = @ + 1]
  ELSE Goto(a, "failed") /\ UNCHANGED at
-----------------------------------------------------------------------------
(* The adapter.                                                            *)

SlipCountsLate(a) ==
  /\ pc[a] = "request" /\ a \notin stopped /\ counted < Limit
  /\ Goto(a, "sent") /\ sent' = sent + 1
  /\ used' = [used EXCEPT ![a] = @ + 1]
  /\ UNCHANGED <<at, calls, tries, round, ran, api, metered, counted, speaks, stopped, switches,
                 did, cutOff>>

\* accountRequest: beforeProviderRequest lets it pass, and it is counted before it goes
\* out - as far as the adapter's count exceeds the one the meter saw last.
Send(a) ==
  /\ pc[a] = "request" /\ a \notin stopped /\ counted < Limit
  /\ Goto(a, "sent") /\ sent' = sent + 1
  /\ used' = [used EXCEPT ![a] = @ + 1]
  /\ metered' = [metered EXCEPT ![a] = used[a] + 1]
  /\ counted' = IF used[a] + 1 > metered[a] THEN counted + 1 ELSE counted
  /\ UNCHANGED <<at, calls, tries, round, ran, api, speaks, stopped, switches, did, cutOff>>

OverBudget(a) ==
  /\ pc[a] = "request" /\ a \notin stopped /\ counted >= Limit
  /\ GiveUp(a, FALSE)
  /\ UNCHANGED <<calls, tries, round, ran, api, meter, speaks, stopped, history>>

\* withRetry: again after a pause, or the error goes to the router.
Failed(a, safe) ==
  /\ IF safe /\ tries[a] < MaxTries THEN Goto(a, "backoff") /\ UNCHANGED at ELSE GiveUp(a, safe)
  /\ UNCHANGED <<calls, tries, round, ran, api, meter, speaks, stopped, sent, switches, did>>

\* fetch rejects: "retryable" and "safeToRetry", whatever the conversation holds.
ConnectionFails(a) ==
  /\ pc[a] = "sent" /\ a \notin stopped
  /\ Failed(a, TRUE)
  /\ cutOff' = IF ran[a] THEN cutOff \cup {a} ELSE cutOff

SlipStatusSafe(a) ==
  /\ pc[a] = "sent" /\ a \notin stopped
  /\ \E retryable \in BOOLEAN : Failed(a, retryable)
  /\ UNCHANGED cutOff

\* A status of 429 or 5xx or a broken stream is worth a retry, other failures are not;
\* neither is replayed once tools have run.
StatusFails(a) ==
  /\ pc[a] = "sent" /\ a \notin stopped
  /\ \E retryable \in BOOLEAN : Failed(a, retryable /\ ~ran[a])
  /\ UNCHANGED cutOff

\* The server names the other API, and no tool has run yet: the adapter begins anew with
\* it, counting from zero under the same meter, and keeps to it from now on.
SwitchAPI(a) ==
  /\ pc[a] = "sent" /\ a \notin stopped
  /\ ~ran[a] /\ api[a] = "chat"
  /\ api' = [api EXCEPT ![a] = "responses"]
  /\ speaks' = [speaks EXCEPT ![at[a]] = "responses"]
  /\ Goto(a, "request") /\ tries' = [tries EXCEPT ![a] = 1]
  /\ used' = [used EXCEPT ![a] = 0]
  /\ switches' = switches + 1
  /\ UNCHANGED <<at, calls, round, ran, metered, counted, stopped, sent, did, cutOff>>

Answer(a) ==
  /\ pc[a] = "sent" /\ a \notin stopped
  /\ Goto(a, "answered")
  /\ UNCHANGED <<at, calls, tries, round, ran, api, meter, speaks, stopped, history>>

\* The answer asks for tools; after the last round, or over the token budget, it is an error.
AskForTools(a) ==
  /\ pc[a] = "sent" /\ a \notin stopped
  /\ \/ round[a] < MaxRounds /\ Goto(a, "tools") /\ UNCHANGED at
     \/ GiveUp(a, FALSE)
  /\ UNCHANGED <<calls, tries, round, ran, api, meter, speaks, stopped, history>>

\* workspaceTools.invoke; its results join the conversation, which may be compacted.
RunTools(a) ==
  /\ pc[a] = "tools" /\ a \notin stopped
  /\ Goto(a, "request") /\ tries' = [tries EXCEPT ![a] = 1]
  /\ round' = [round EXCEPT ![a] = @ + 1] /\ ran' = [ran EXCEPT ![a] = TRUE]
  /\ did' = [did EXCEPT ![a] = @ \cup {<<at[a], api[a]>>}]
  /\ UNCHANGED <<at, calls, api, meter, speaks, stopped, sent, switches, cutOff>>

TryAgain(a) ==
  /\ pc[a] = "backoff" /\ a \notin stopped
  /\ Goto(a, "request") /\ tries' = [tries EXCEPT ![a] = @ + 1]
  /\ UNCHANGED <<at, calls, round, ran, api, meter, speaks, stopped, history>>

SlipSleepsOn(a) ==
  /\ a \in stopped /\ pc[a] \in {"request", "sent", "tools"}
  /\ GiveUp(a, FALSE)
  /\ UNCHANGED <<calls, tries, round, ran, api, meter, speaks, stopped, history>>

\* The signal reaches the request, the pause between two tries, and the tools.
Interrupted(a) ==
  /\ a \in stopped /\ pc[a] \in {"request", "sent", "backoff", "tools"}
  /\ GiveUp(a, FALSE)
  /\ UNCHANGED <<calls, tries, round, ran, api, meter, speaks, stopped, history>>

\* The step's timeout, or the run's.
Stop(a) ==
  /\ a \notin stopped /\ pc[a] \notin Ends
  /\ stopped' = stopped \cup {a}
  /\ UNCHANGED <<place, meter, speaks, history>>
-----------------------------------------------------------------------------
Router(a) == PassOver(a) \/ NoneLeft(a) \/ Invoke(a)

Response(a) == ConnectionFails(a) \/ StatusFails(a) \/ SwitchAPI(a) \/ Answer(a) \/ AskForTools(a)

Adapter(a) == Send(a) \/ OverBudget(a) \/ RunTools(a) \/ TryAgain(a) \/ Interrupted(a)

Next == \E a \in Agents : Router(a) \/ Response(a) \/ Adapter(a) \/ Stop(a)

\* No server has to answer: a step that takes too long is stopped by its timer.
Fairness == \A a \in Agents : WF_vars(Router(a) \/ Adapter(a)) /\ WF_vars(Stop(a))

Spec == Init /\ [][Next]_vars
FairSpec == Spec /\ Fairness
-----------------------------------------------------------------------------
\* maxProviderRequestsPerWorkflow bounds what all agents of a workflow send together,
\* however they interleave, retry and fall back - but for one request per change of API.
SpendingBounded == sent <= Limit + switches

\* retry.js: "A request that already ran tools is never repeated here." The tools of one
\* task are asked for by one provider over one API - unless the connection broke later.
ToolsRunOnce == \A a \in Agents : Cardinality(did[a]) > 1 => a \in cutOff

\* Neither is lost to the other: what a retry or a fallback sends again stays within the
\* number of requests and asks for no tool twice (retry.js, router.js, usage-meter.js).
CallsAreCounted == ToolsRunOnce /\ SpendingBounded

\* Every call ends, whatever the servers do: no await of router, retry, request or tools
\* outlasts the step's signal.
Called == \E a \in Agents : pc[a] \notin Ends
CallEnds == Called ~> ~Called

\* docs/architecture.md: fallback "only proceeds after a structured provider error declares
\* the operation retryable and safe to replay. This prevents duplicate file changes or tool
\* calls after an ambiguous failure."
NoDuplicateToolCalls == \A a \in Agents : Cardinality(did[a]) <= 1
=============================================================================
