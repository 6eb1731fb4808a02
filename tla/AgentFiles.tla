------------------------------ MODULE AgentFiles -----------------------------
(***************************************************************************)
(* Agents and workflows made, changed and removed in the page              *)
(* (runtime/project-content.js): what points at what is checked first, the *)
(* files are written after, one by one, and other requests come between.   *)
(***************************************************************************)
EXTENDS Naturals, FiniteSets

CONSTANTS Names,     \* what agents, and the prompts they read, may be called
          Flows,     \* names of workflows
          Configured, \* agents that the project's configuration names
          Pages,     \* pages with a request at a time each
          MaxAsked   \* bound: requests

VARIABLES agents,    \* an agent's name -> whom it hands work to, and the prompt it reads
          prompts,   \* the prompts there are
          flows,     \* a workflow's name -> the agents of its steps
          request,   \* a page -> what it asked for, and how far that is
          asked,
          crossed    \* history: what a request wrote or removed after another had written
                     \* between its check and that

vars == <<agents, prompts, flows, request, asked, crossed>>

NoRequest == [op |-> "none", name |-> "", subs |-> {}, ref |-> "", at |-> "idle",
         raced |-> FALSE]

Has(n) == n \in DOMAIN agents
Uses(f) == flows[f]

(* Who can be handed work from S, in as many steps as there are agents.    *)
Onward(graph, S) == S \cup UNION {graph[n] : n \in S \cap DOMAIN graph}
Reached(graph, S) ==
  LET far[k \in 0..Cardinality(Names)] == IF k = 0 THEN S ELSE Onward(graph, far[k - 1])
  IN  far[Cardinality(Names)]

Graph == [n \in DOMAIN agents |-> agents[n].subs]

(* A plausible fault: only the agents that are handed work are asked.      *)
SlipHandingInCircle(name, subs) == \E n \in subs : Has(n) /\ name \in agents[n].subs

HandingInCircle(name, subs) ==
  LET graph == [Graph EXCEPT ![name] = subs]
  IN  \E n \in subs : n \in DOMAIN graph /\ name \in Reached(graph, graph[n])

-----------------------------------------------------------------------------
(* What is refused, for each thing that may be asked.                      *)

CheckCreateAgent(r) ==
  /\ ~Has(r.name) /\ r.name \notin prompts
  /\ r.subs \subseteq DOMAIN agents

CheckAgentInput(r) ==
  /\ Has(r.name)
  /\ r.subs \subseteq DOMAIN agents /\ r.name \notin r.subs
  /\ ~HandingInCircle(r.name, r.subs)

(* A plausible fault: who hands work to the agent is not looked at.        *)
SlipBlockers(name) == {f \in DOMAIN flows : name \in Uses(f)}

Blockers(name) == {f \in DOMAIN flows : name \in Uses(f)}
                  \cup {n \in DOMAIN agents \ {name} : name \in agents[n].subs}

CheckRemoveAgent(r) == Has(r.name) /\ Blockers(r.name) = {} /\ r.name \notin Configured

CheckWorkflow(r) == r.subs # {} /\ r.subs \subseteq DOMAIN agents

Checked(r) ==
  CASE r.op = "create agent"    -> CheckCreateAgent(r)
    [] r.op = "update agent"    -> CheckAgentInput(r)
    [] r.op = "remove agent"    -> CheckRemoveAgent(r)
    [] r.op = "create workflow" -> CheckWorkflow(r)
    [] r.op = "update workflow" -> r.name \in DOMAIN flows /\ CheckWorkflow(r)
    [] r.op = "remove workflow" -> r.name \in DOMAIN flows

(* A plausible fault: the prompt goes whoever else reads it.               *)
SlipOrphaned(name) == {agents[name].ref}

(* The prompt goes with the agent unless another agent reads the same.     *)
Orphaned(name) == {agents[name].ref} \ {agents[n].ref : n \in DOMAIN agents \ {name}}

(* The first file that is written, and whether a prompt follows.           *)
FirstStep(r) == IF r.op = "create agent" THEN "prompt" ELSE "file"

Operations ==
  [op : {"create agent", "update agent", "create workflow", "update workflow"},
   name : Names \cup Flows, subs : SUBSET Names, ref : {""}, at : {"asked"}, raced : {FALSE}]
  \cup [op : {"remove agent", "remove workflow"},
        name : Names \cup Flows, subs : {{}}, ref : {""}, at : {"asked"}, raced : {FALSE}]

(* A request is read and checked against the files as they are then.       *)
Ask(p) ==
  /\ request[p] = NoRequest /\ asked < MaxAsked /\ asked' = asked + 1
  /\ \E r \in Operations :
       /\ r.name \in (IF r.op \in {"create workflow", "update workflow", "remove workflow"}
                      THEN Flows ELSE Names)
       /\ Checked(r)
       /\ request' = [request EXCEPT ![p] = [r EXCEPT !.at = FirstStep(r),
            !.ref = IF Has(r.name) THEN agents[r.name].ref ELSE r.name,
            !.subs = IF r.op = "remove agent" THEN Orphaned(r.name) ELSE @]]
  /\ UNCHANGED <<agents, prompts, flows, crossed>>

-----------------------------------------------------------------------------
Request(p, op, at) == request[p].op = op /\ request[p].at = at

Crossed(p) == crossed' = crossed \cup (IF request[p].raced THEN {request[p].name} ELSE {})

(* p wrote, and goes on at `next`; who was checked before that is late.    *)
Wrote(p, next) ==
  /\ request' = [q \in Pages |->
                   IF q = p THEN IF next = "done" THEN NoRequest ELSE [request[p] EXCEPT !.at = next]
                   ELSE [request[q] EXCEPT !.raced = @ \/ request[q].at # "idle"]]
  /\ Crossed(p) /\ UNCHANGED asked

(* The file is there by now ("wx"), or may not be written.                 *)
Refuses(p) ==
  /\ request[p].op \in {"create agent", "create workflow"}
  /\ CASE request[p].at = "prompt"      -> request[p].name \in prompts
       [] request[p].op = "create agent" -> Has(request[p].name)
       [] OTHER                          -> request[p].name \in DOMAIN flows
  /\ request' = [request EXCEPT ![p] = NoRequest]
  /\ UNCHANGED <<agents, prompts, flows, asked, crossed>>

Put(f, k, v) == [n \in DOMAIN f \cup {k} |-> IF n = k THEN v ELSE f[n]]
Drop(f, k) == [n \in DOMAIN f \ {k} |-> f[n]]

CreateAgent(p) ==
  LET r == request[p] IN
  \/ /\ Request(p, "create agent", "prompt") /\ r.name \notin prompts
     /\ prompts' = prompts \cup {r.name} /\ Wrote(p, "file") /\ UNCHANGED <<agents, flows>>
  \/ /\ Request(p, "create agent", "file") /\ ~Has(r.name)
     /\ agents' = Put(agents, r.name, [subs |-> r.subs, ref |-> r.ref])
     /\ Wrote(p, "done") /\ UNCHANGED <<prompts, flows>>

(* What the form does not know of stays as it was read.                    *)
ApplyAgentInput(r) == [subs |-> r.subs, ref |-> r.ref]

(* The manifest is rewritten from what was read when the request was       *)
(* checked; the prompt, when the form has one, after it.                   *)
UpdateAgent(p) ==
  LET r == request[p] IN
  \/ /\ Request(p, "update agent", "file")
     /\ agents' = Put(agents, r.name, ApplyAgentInput(r))
     /\ \E next \in {"done", "prompt"} : Wrote(p, next)
     /\ UNCHANGED <<prompts, flows>>
  \/ /\ Request(p, "update agent", "prompt")
     /\ prompts' = prompts \cup {r.ref}
     /\ Wrote(p, "done") /\ UNCHANGED <<agents, flows>>

RemoveAgent(p) ==
  LET r == request[p] IN
  \/ /\ Request(p, "remove agent", "file") /\ Has(r.name)
     /\ agents' = Drop(agents, r.name) /\ Wrote(p, "prompt") /\ UNCHANGED <<prompts, flows>>
  \/ /\ Request(p, "remove agent", "prompt")
     /\ prompts' = prompts \ r.subs /\ Wrote(p, "done") /\ UNCHANGED <<agents, flows>>
  \/ /\ Request(p, "remove agent", "file") /\ ~Has(r.name)     \* somebody else was faster
     /\ Wrote(p, "done") /\ UNCHANGED <<agents, prompts, flows>>

CreateWorkflow(p) ==
  /\ Request(p, "create workflow", "file") /\ request[p].name \notin DOMAIN flows
  /\ flows' = Put(flows, request[p].name, request[p].subs)
  /\ Wrote(p, "done") /\ UNCHANGED <<agents, prompts>>

UpdateWorkflow(p) ==
  /\ Request(p, "update workflow", "file")
  /\ flows' = Put(flows, request[p].name, request[p].subs)
  /\ Wrote(p, "done") /\ UNCHANGED <<agents, prompts>>

RemoveWorkflow(p) ==
  /\ Request(p, "remove workflow", "file")
  /\ flows' = Drop(flows, request[p].name)
  /\ Wrote(p, "done") /\ UNCHANGED <<agents, prompts>>

(* The server ends between two writes.                                     *)
ServerEnds ==
  /\ \E p \in Pages : request[p] # NoRequest
  /\ request' = [p \in Pages |-> NoRequest]
  /\ UNCHANGED <<agents, prompts, flows, asked, crossed>>

Init == /\ \E S \in SUBSET Names :
             /\ Configured \subseteq S
             /\ agents = [n \in S |-> [subs |-> {}, ref |-> CHOOSE m \in S : TRUE]]
             /\ prompts = {agents[n].ref : n \in S}
        /\ flows = [f \in {} |-> {}] /\ request = [p \in Pages |-> NoRequest]
        /\ asked = 0 /\ crossed = {}

Next == \/ \E p \in Pages : \/ Ask(p) \/ Refuses(p)
                            \/ CreateAgent(p) \/ UpdateAgent(p) \/ RemoveAgent(p)
                            \/ CreateWorkflow(p) \/ UpdateWorkflow(p) \/ RemoveWorkflow(p)
        \/ ServerEnds

Spec == Init /\ [][Next]_vars

-----------------------------------------------------------------------------
TypeOK == /\ \A n \in DOMAIN agents : n \in Names /\ agents[n].subs \subseteq Names /\ agents[n].ref \in Names
          /\ prompts \subseteq Names /\ DOMAIN flows \subseteq Flows /\ asked \in 0..MaxAsked
          /\ \A p \in Pages : request[p].at \in {"idle", "prompt", "file"}

(* "A workflow that names a deleted agent, or an agent that hands work to  *)
(* one, would only fail at the next run" (project-content.js 411-413), and *)
(* "work handed round in a circle would never end" (360): whatever was     *)
(* made, changed and removed, however requests overlap and wherever the    *)
(* server ends, what points at an agent or a prompt points at one that is  *)
(* there, and no agent is handed its own work - but for what a request     *)
(* wrote or removed on a check that another had made old, which the code   *)
(* does not look at again: a pointer may hang that such a request wrote or *)
(* whose end it removed, and every circle goes through such an agent.      *)
WholeUnlessRaced ==
  LET Kept == [n \in DOMAIN agents \ crossed |-> agents[n].subs] IN
  /\ \A n \in DOMAIN agents \ crossed :
       /\ agents[n].subs \ crossed \subseteq DOMAIN agents
       /\ agents[n].ref \in prompts
       /\ n \notin Reached(Kept, Kept[n])
  /\ \A f \in DOMAIN flows \ crossed : flows[f] \ crossed \subseteq DOMAIN agents
  /\ Configured \subseteq DOMAIN agents

(* The same of any requests, whoever comes between.                        *)
AlwaysWhole == \A n \in DOMAIN agents : n \notin Reached(Graph, agents[n].subs)
=============================================================================
