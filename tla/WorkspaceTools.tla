--------------------------- MODULE WorkspaceTools ----------------------------
(***************************************************************************)
(* The tools that agents of one run use on their common workspace, each    *)
(* effect behind a decision of its own: reading, searching, writing and    *)
(* editing files, the command after a write, commands, fetches that are    *)
(* redirected.  Decisions take their time, files and policy facts do not   *)
(* wait for them.                                                          *)
(***************************************************************************)
EXTENDS PolicyEngine, FiniteSets

CONSTANTS
  Agents,
  Policies,       \* the policies a project may have
  Files,          \* files that git tracks
  Hosts, Commands,
  Hook,           \* the command hooks.afterWrite names, or None
  MaxRedirects,
  MaxWrites       \* bound: contents that the workspace goes through

VARIABLES
  policy,         \* the policy of the run
  disk,           \* disk[f]: number of the content that the file has, 0 when it is missing
  writes,         \* contents that were written
  call,           \* call[a]: the tool call of agent a
  did,            \* history: effects of the last step: whose, what, and if a person said yes
  crossed,        \* history: agents whose file changed between last comparison and write
  landed          \* history: what the last write was shown to replace, and what it replaced

vars == <<policy, disk, writes, call, did, crossed, landed>>

Idle == [tool |-> "none", pc |-> "idle", op |-> None, next |-> "none", before |-> 0, hops |-> 0,
         said |-> {}]

Op(kind, what) == [kind |-> kind, what |-> what]

Tools == {"read_file", "list_files", "search_files", "write_file", "edit_file", "fetch_url",
          "web_search", "run_command"}

TypeOK ==
  /\ policy \in Policies
  /\ disk \in [Files -> 0..MaxWrites]
  /\ writes \in 0..MaxWrites
  /\ \A a \in Agents :
       /\ call[a].tool \in Tools \cup {"none"}
       /\ call[a].pc \in {"idle", "asked", "due", "verified", "written"}
       /\ call[a].before \in 0..MaxWrites /\ call[a].hops \in 0..MaxRedirects
       /\ (call[a].pc = "idle") = (call[a] = Idle)
  /\ crossed \subseteq Agents

Init ==
  /\ policy \in {p \in Policies : Loads(p)}
  /\ disk \in [Files -> {0, 1}] /\ writes = 1
  /\ call = [a \in Agents |-> Idle]
  /\ did = {} /\ crossed = {} /\ landed = {}

Effect(a, op) == Decide(policy, Facts(a, op))

\* context.approve is called; what comes after a yes is in "next".
Ask(a, op, next) ==
  call' = [call EXCEPT ![a] = [@ EXCEPT !.pc = "asked", !.op = op, !.next = next]]

End(a) == call' = [call EXCEPT ![a] = Idle]

Due(a, what) == call[a].pc = "due" /\ call[a].next = what

\* File f gets other content, from agent a or from somebody else (None).
Change(a, f, content) ==
  /\ disk' = [disk EXCEPT ![f] = content]
  /\ crossed' = (crossed \cup {b \in Agents : call[b].pc = "verified" /\ call[b].op.what = f})
              \ {a}

Done(a, ops) == did' = {[by |-> a, op |-> op, yes |-> op \in call[a].said] : op \in ops}
Do(a, ops) == Done(a, ops) /\ landed' = {}
Quiet == did' = {} /\ landed' = {}
-----------------------------------------------------------------------------
\* What a tool asks about first, and what it does after a yes.
Beginnings(tool) ==
  CASE tool = "read_file"    -> {Op("read", f) : f \in Files} \X {"read"}
    [] tool = "list_files"   -> {<<Op("read", "."), "read">>}
    [] tool = "search_files" -> {<<Op("read", "."), "search">>}
    [] tool = "write_file"   -> {Op("read", f) : f \in Files} \X {"snapshot"}
    [] tool = "edit_file"    -> {Op("read", f) : f \in Files} \X {"snapshot"}
    [] tool = "fetch_url"    -> {Op("network", h) : h \in Hosts} \X {"fetch"}
    [] tool = "web_search"   -> {<<Op("network", "brave"), "query">>}
    [] tool = "run_command"  -> {Op("shell", c) : c \in Commands} \X {"run"}

\* invoke, for a tool that the agent may use and arguments that make sense.
Invoke(a) ==
  /\ call[a] = Idle
  /\ \E tool \in Tools : \E b \in Beginnings(tool) :
       call' = [call EXCEPT ![a] = [Idle EXCEPT !.tool = tool, !.pc = "asked", !.op = b[1],
                                                !.next = b[2]]]
  /\ Quiet /\ UNCHANGED <<policy, disk, writes, crossed>>

\* The policy answers, or a person does.
Answered(a) ==
  /\ call[a].pc = "asked"
  /\ \/ /\ Effect(a, call[a].op) = "allow"
        /\ call' = [call EXCEPT ![a].pc = "due"]
     \/ /\ Effect(a, call[a].op) = "human"
        /\ call' = [call EXCEPT ![a].pc = "due", ![a].said = @ \cup {call[a].op}]
     \/ Effect(a, call[a].op) # "allow" /\ End(a)
  /\ Quiet /\ UNCHANGED <<policy, disk, writes, crossed>>

Read(a) ==
  /\ Due(a, "read") /\ End(a)
  /\ \/ call[a].op.what = "." /\ Do(a, {call[a].op})
     \/ call[a].op.what # "." /\ Do(a, {op \in {call[a].op} : disk[op.what] > 0})
  /\ UNCHANGED <<policy, disk, writes, crossed>>

\* (Slip...: faulty variants of the definitions that follow them.)
SlipSearchAll(a) ==
  /\ Due(a, "search")
  /\ Do(a, {Op("read", f) : f \in {g \in Files : disk[g] > 0}})
  /\ End(a)
  /\ UNCHANGED <<policy, disk, writes, crossed>>

\* One question for the whole search; every path is held to the policy (canRead), and one
\* that would need a person is left out.
Search(a) ==
  /\ Due(a, "search")
  /\ Do(a, {op \in {Op("read", f) : f \in {g \in Files : disk[g] > 0}} : Effect(a, op) = "allow"})
  /\ End(a)
  /\ UNCHANGED <<policy, disk, writes, crossed>>

\* What the file holds now is what the diff of the question shows. An edit needs a file
\* with the text to replace in it.
Snapshot(a) ==
  LET f == call[a].op.what IN
  /\ Due(a, "snapshot")
  /\ \/ /\ call[a].tool = "write_file" \/ disk[f] > 0
        /\ call' = [call EXCEPT ![a] = [@ EXCEPT !.pc = "asked", !.op = Op("write", f),
                                                 !.next = "write", !.before = disk[f]]]
     \/ call[a].tool = "edit_file" /\ End(a)
  /\ Quiet /\ UNCHANGED <<policy, disk, writes, crossed>>

SlipNoCompare(a) ==
  /\ Due(a, "write")
  /\ call' = [call EXCEPT ![a].pc = "verified"] /\ crossed' = crossed \ {a}
  /\ Quiet /\ UNCHANGED <<policy, disk, writes>>

\* file.write opens the same file and compares it with what was shown.
Verify(a) ==
  /\ Due(a, "write")
  /\ IF disk[call[a].op.what] = call[a].before
     THEN call' = [call EXCEPT ![a].pc = "verified"] ELSE End(a)
  /\ crossed' = crossed \ {a}
  /\ Quiet /\ UNCHANGED <<policy, disk, writes>>

\* truncate and writeFile. A write that comes between the comparison and this one is lost.
Write(a) ==
  LET f == call[a].op.what IN
  /\ call[a].pc = "verified" /\ writes < MaxWrites
  /\ writes' = writes + 1
  /\ Change(a, f, writes + 1)
  /\ Done(a, {call[a].op})
  /\ landed' = {[shown |-> call[a].before, was |-> disk[f], raced |-> a \in crossed]}
  /\ call' = [call EXCEPT ![a].pc = "written"]
  /\ UNCHANGED policy

SlipHookUnasked(a) ==
  /\ call[a].pc = "written"
  /\ IF Hook = None THEN End(a)
     ELSE call' = [call EXCEPT ![a] = [@ EXCEPT !.pc = "due", !.op = Op("shell", Hook), !.next = "run"]]
  /\ Quiet /\ UNCHANGED <<policy, disk, writes, crossed>>

\* recordFileEffect, then runAfterWrite; when the first throws, the call has failed.
AfterWrite(a) ==
  /\ call[a].pc = "written"
  /\ \/ Hook # None /\ Ask(a, Op("shell", Hook), "run")
     \/ End(a)
  /\ Quiet /\ UNCHANGED <<policy, disk, writes, crossed>>

\* A command may change what it likes in the workspace.
Run(a) ==
  /\ Due(a, "run")
  /\ Do(a, {call[a].op}) /\ End(a)
  /\ \/ UNCHANGED <<disk, writes, crossed>>
     \/ /\ writes < MaxWrites /\ writes' = writes + 1
        /\ \E f \in Files : Change(a, f, writes + 1)
  /\ UNCHANGED policy

SlipFollows(a) ==
  /\ Due(a, "fetch") /\ End(a)
  /\ \E h \in Hosts : Do(a, {call[a].op, Op("network", h)})
  /\ UNCHANGED <<policy, disk, writes, crossed>>

\* One hop of fetch_url: it leads to a host that is asked about anew, or is the last one.
Fetch(a) ==
  /\ Due(a, "fetch")
  /\ Do(a, {call[a].op})
  /\ \/ End(a)
     \/ /\ call[a].hops < MaxRedirects
        /\ \E h \in Hosts :
             call' = [call EXCEPT ![a].pc = "asked", ![a].op = Op("network", h), ![a].hops = @ + 1]
  /\ UNCHANGED <<policy, disk, writes, crossed>>

Query(a) ==
  /\ Due(a, "query")
  /\ Do(a, {call[a].op}) /\ End(a)
  /\ UNCHANGED <<policy, disk, writes, crossed>>

\* Somebody else writes or removes a file.
Edit ==
  /\ writes < MaxWrites /\ writes' = writes + 1
  /\ \E f \in Files, c \in {0, writes + 1} : disk[f] # c /\ Change(None, f, c)
  /\ Quiet /\ UNCHANGED <<policy, call>>
-----------------------------------------------------------------------------
FileCall(a) == Read(a) \/ Search(a) \/ Snapshot(a) \/ Verify(a) \/ Write(a) \/ AfterWrite(a)

Next ==
  \/ Edit
  \/ \E a \in Agents : Invoke(a) \/ Answered(a) \/ FileCall(a) \/ Run(a) \/ Fetch(a) \/ Query(a)

Spec == Init /\ [][Next]_vars
-----------------------------------------------------------------------------
\* "every effect goes through the approval path before it happens": a file that is shown
\* by whatever tool, a file written, a host at the end of a redirect, the command after a
\* write - no deny rule matches it, and what a person decides had that person's yes.
NothingUnasked ==
  \A e \in did :
    /\ \A r \in policy.rules : r.effect = "deny" => ~Matches(r, Facts(e.by, e.op))
    /\ Decide(policy, Facts(e.by, e.op)) = "allow" \/ e.yes

\* The person decides on a diff. A write replaces what that diff was made from, whoever
\* else wrote while the question waited - but for the moment between the comparison and
\* the write itself.
WrittenAsShown == \A l \in landed : l.was = l.shown \/ l.raced
=============================================================================
