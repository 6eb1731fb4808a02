----------------------------- MODULE AskingProof -----------------------------
(***************************************************************************)
(* Theorems about what a person is asked (MCAsking): of the approvals, by  *)
(* the lemmas of RunApprovalsProof for each of its three instances; of the *)
(* tools in a workspace, for any agents, policies, files, hosts and        *)
(* commands; of the trust in a project, for any projects and commands.     *)
(***************************************************************************)
EXTENDS MCAsking, TLAPS

-----------------------------------------------------------------------------
(* The policy: a rule that denies stands.                                  *)

LEMMA DenyIsStrictest ==
  ASSUME NEW rules, \A r \in rules : r.effect \in Tools!Effects,
         NEW d \in rules, d.effect = "deny"
  PROVE  Tools!Strictest(rules) = "deny"
<1> USE DEF Tools!Effects, Tools!Priority
<1> DEFINE strongest(r) == \A s \in rules : Tools!Priority[s.effect] <= Tools!Priority[r.effect]
           chosen == CHOOSE r \in rules : strongest(r)
<1>1. strongest(d)
  OBVIOUS
<1>2. chosen \in rules /\ strongest(chosen)
  BY <1>1
<1>3. Tools!Priority[chosen.effect] >= 3 /\ chosen.effect \in Tools!Effects
  BY <1>2
<1>4. chosen.effect = "deny"
  BY <1>3
<1> QED
  BY <1>4 DEF Tools!Strictest

LEMMA DenyStands ==
  ASSUME NEW section, Tools!Loads(section), NEW facts, Tools!Decide(section, facts) # "deny"
  PROVE  \A r \in section.rules : r.effect = "deny" => ~Tools!Matches(r, facts)
<1> SUFFICES ASSUME NEW d \in section.rules, d.effect = "deny", Tools!Matches(d, facts)
             PROVE  Tools!Decide(section, facts) = "deny"
  OBVIOUS
<1> DEFINE matching == {r \in section.rules : Tools!Matches(r, facts)}
<1>1. d \in matching /\ \A r \in matching : r.effect \in Tools!Effects
  BY DEF Tools!Loads
<1> HIDE DEF matching
<1>2. Tools!Strictest(matching) = "deny"
  BY <1>1, DenyIsStrictest
<1> QED
  BY <1>1, <1>2 DEF Tools!Decide, matching

-----------------------------------------------------------------------------
(* The tools: what an agent is about to do was allowed, or a person said   *)
(* yes to it; and a file that was compared is as it was shown, unless      *)
(* somebody has changed it since.                                          *)

Permitted(a, op) ==
  Tools!Effect(a, op) = "allow" \/ (Tools!Effect(a, op) = "human" /\ op \in call[a].said)

Ops == [kind : {"read", "write", "network", "shell"},
        what : Files \cup Hosts \cup Commands \cup {Hook, ".", "brave"}]
Steps == {"none", "read", "search", "snapshot", "write", "run", "fetch", "query"}

Call == [tool : Tools!Tools \cup {"none"}, pc : {"idle", "asked", "due", "verified", "written"},
         op : Ops \cup {None}, next : Steps, before : 0..MaxWrites, hops : 0..MaxRedirects,
         said : SUBSET Ops]

CallsTyped ==
  /\ call \in [Agents -> Call]
  /\ disk \in [Files -> 0..MaxWrites] /\ writes \in 0..MaxWrites
  /\ \A a \in Agents :
       /\ call[a].next \in {"snapshot", "write"} => call[a].op.what \in Files
       /\ call[a].pc \in {"asked", "due", "verified"} => call[a].op \in Ops
       /\ call[a].pc = "verified" => call[a].next = "write"

CallsFit ==
  \A a \in Agents :
    /\ call[a].pc \in {"due", "verified"} => Permitted(a, call[a].op)
    /\ call[a].pc = "verified" => disk[call[a].op.what] = call[a].before \/ a \in toolCrossed

ToolsFit ==
  /\ Tools!Loads(policy) /\ CallsTyped /\ CallsFit
  /\ Tools!NothingUnasked /\ Tools!WrittenAsShown

LEMMA RestIsCall == Tools!Idle \in Call /\ Tools!Idle.pc = "idle" /\ Tools!Idle.next = "none"
<1>1. 0 \in 0..MaxWrites /\ 0 \in 0..MaxRedirects
  BY AskingAssumption
<1>2. {} \in SUBSET Ops
  OBVIOUS
<1> HIDE DEF Ops
<1> QED
  BY <1>1, <1>2 DEF Tools!Idle, Call, Steps

LEMMA ToolsStart == ASSUME Tools!Init PROVE ToolsFit
<1>1. CallsTyped
  <2>1. disk \in [Files -> 0..MaxWrites] /\ writes \in 0..MaxWrites
    BY AskingAssumption DEF Tools!Init
  <2>2. call \in [Agents -> Call] /\ \A a \in Agents : call[a].pc = "idle" /\ call[a].next = "none"
    BY RestIsCall DEF Tools!Init, Tools!Idle
  <2> QED
    BY <2>1, <2>2 DEF CallsTyped
<1>2. CallsFit
  BY DEF Tools!Init, Tools!Idle, CallsFit
<1>3. Tools!Loads(policy) /\ Tools!NothingUnasked /\ Tools!WrittenAsShown
  BY DEF Tools!Init, Tools!NothingUnasked, Tools!WrittenAsShown
<1> QED
  BY <1>1, <1>2, <1>3 DEF ToolsFit

\* What the agent that takes a step becomes; the others' calls stay as they are.
LEMMA CallBecomes ==
  ASSUME CallsTyped, NEW a \in Agents, NEW c \in Call, call' = [call EXCEPT ![a] = c],
         disk' \in [Files -> 0..MaxWrites], writes' \in 0..MaxWrites,
         c.next \in {"snapshot", "write"} => c.op.what \in Files,
         c.pc \in {"asked", "due", "verified"} => c.op \in Ops,
         c.pc = "verified" => c.next = "write"
  PROVE  /\ CallsTyped' /\ call'[a] = c
         /\ \A b \in Agents \ {a} : call'[b] = call[b]
<1>1. call' \in [Agents -> Call] /\ call'[a] = c /\ \A b \in Agents \ {a} : call'[b] = call[b]
  BY DEF CallsTyped
<1> QED
  BY <1>1 DEF CallsTyped

\* What is done is permitted: then nothing happens unasked.
LEMMA DoneWasPermitted ==
  ASSUME Tools!Loads(policy), policy' = policy, NEW a \in Agents, NEW ops,
         \A op \in ops : Permitted(a, op), Tools!Done(a, ops)
  PROVE  Tools!NothingUnasked'
<1>1. \A e \in did' : e.by = a /\ Permitted(a, e.op) /\ e.yes = (e.op \in call[a].said)
  BY DEF Tools!Done
<1>2. ASSUME NEW e \in did'
      PROVE  /\ \A r \in policy.rules :
                  r.effect = "deny" => ~Tools!Matches(r, Tools!Facts(e.by, e.op))
             /\ Tools!Decide(policy, Tools!Facts(e.by, e.op)) = "allow" \/ e.yes
  <2>1. e.by = a /\ Permitted(a, e.op) /\ e.yes = (e.op \in call[a].said)
    BY <1>1
  <2>2. Tools!Decide(policy, Tools!Facts(e.by, e.op)) \in {"allow", "human"}
    BY <2>1 DEF Permitted, Tools!Effect
  <2>3. \A r \in policy.rules : r.effect = "deny" => ~Tools!Matches(r, Tools!Facts(e.by, e.op))
    BY <2>2, DenyStands
  <2> QED
    BY <2>1, <2>3 DEF Permitted, Tools!Effect
<1> QED
  BY <1>2 DEF Tools!NothingUnasked

LEMMA QuietKeeps == ASSUME Tools!Quiet PROVE Tools!NothingUnasked' /\ Tools!WrittenAsShown'
BY DEF Tools!Quiet, Tools!NothingUnasked, Tools!WrittenAsShown

\* A step that changes no file: only the agent's own call has to fit.
LEMMA OwnStep ==
  ASSUME CallsFit, policy' = policy, disk' = disk, NEW a \in Agents,
         \A b \in Agents \ {a} : call'[b] = call[b] /\ (b \in toolCrossed => b \in toolCrossed'),
         call'[a].pc \in {"due", "verified"} => Permitted(a, call[a].op)',
         call'[a].pc = "verified" => disk[call'[a].op.what] = call'[a].before
  PROVE  CallsFit'
<1>1. ASSUME NEW b \in Agents \ {a}
      PROVE  /\ call'[b].pc \in {"due", "verified"} => Permitted(b, call[b].op)'
             /\ call'[b].pc = "verified" =>
                  disk'[call'[b].op.what] = call'[b].before \/ b \in toolCrossed'
  BY DEF CallsFit, Permitted, Tools!Effect
<1> QED
  BY <1>1 DEF CallsFit

\* A file that changes crosses every call that was compared with it.
LEMMA ChangeFits ==
  ASSUME CallsFit, CallsTyped, policy' = policy, NEW a \in Agents \cup {None},
         NEW f \in Files, NEW content,
         Tools!Change(a, f, content),
         \A b \in Agents \ {a} : call'[b] = call[b],
         a \in Agents => call'[a].pc \notin {"due", "verified"}
  PROVE  CallsFit'
<1>1. ASSUME NEW b \in Agents \ {a}
      PROVE  /\ call'[b].pc \in {"due", "verified"} => Permitted(b, call[b].op)'
             /\ call'[b].pc = "verified" =>
                  disk'[call'[b].op.what] = call'[b].before \/ b \in toolCrossed'
  <2>1. call'[b].pc \in {"due", "verified"} => Permitted(b, call[b].op)'
    BY DEF CallsFit, Permitted, Tools!Effect
  <2>2. ASSUME call'[b].pc = "verified"
        PROVE  disk'[call'[b].op.what] = call'[b].before \/ b \in toolCrossed'
    <3>1. call[b].pc = "verified" /\ call[b].op.what \in Files /\ call'[b] = call[b]
      BY <2>2 DEF CallsTyped
    <3>2. disk[call[b].op.what] = call[b].before \/ b \in toolCrossed
      BY <3>1 DEF CallsFit
    <3>3. b \in toolCrossed \/ call[b].op.what = f => b \in toolCrossed'
      BY <3>1 DEF Tools!Change
    <3>4. call[b].op.what # f => disk'[call[b].op.what] = disk[call[b].op.what]
      BY <3>1 DEF Tools!Change, CallsTyped
    <3> QED
      BY <3>1, <3>2, <3>3, <3>4
  <2> QED
    BY <2>1, <2>2
<1> QED
  BY <1>1 DEF CallsFit

LEMMA ToolsNext == ASSUME ToolsFit, Tools!Next PROVE ToolsFit'
<1>0. /\ Tools!Loads(policy) /\ CallsTyped /\ CallsFit
      /\ policy' = policy /\ Tools!Loads(policy')
      /\ disk \in [Files -> 0..MaxWrites] /\ writes \in 0..MaxWrites /\ Tools!Idle \in Call
  <2>1. policy' = policy
    BY DEF Tools!Next, Tools!Edit, Tools!Invoke, Tools!Answered, Tools!FileCall, Tools!Read,
       Tools!Search, Tools!Snapshot, Tools!Verify, Tools!Write, Tools!AfterWrite, Tools!Run,
       Tools!Fetch, Tools!Query
  <2> QED
    BY <2>1, RestIsCall DEF ToolsFit, CallsTyped
<1> USE <1>0
<1>1. ASSUME NEW a \in Agents, Tools!End(a), UNCHANGED <<disk, writes, toolCrossed>>
      PROVE  CallsTyped' /\ CallsFit'
  <2>1. /\ CallsTyped' /\ call'[a].pc = "idle" /\ \A b \in Agents \ {a} : call'[b] = call[b]
    BY <1>1, RestIsCall, CallBecomes DEF Tools!End
  <2> QED
    BY <1>1, <2>1, OwnStep
<1>2. ASSUME NEW a \in Agents, Tools!Invoke(a) PROVE ToolsFit'
  <2>0. PICK tool \in Tools!Tools : \E b \in Tools!Beginnings(tool) :
          call' = [call EXCEPT ![a] = [Tools!Idle EXCEPT !.tool = tool, !.pc = "asked", !.op = b[1],
                                                         !.next = b[2]]]
    BY <1>2 DEF Tools!Invoke
  <2>1. PICK b \in Tools!Beginnings(tool) :
          call' = [call EXCEPT ![a] = [Tools!Idle EXCEPT !.tool = tool, !.pc = "asked", !.op = b[1],
                                                         !.next = b[2]]]
    BY <2>0
  <2>2. b[1] \in Ops /\ b[2] \in Steps \ {"write"} /\ (b[2] = "snapshot" => b[1].what \in Files)
    BY <2>1 DEF Tools!Beginnings, Tools!Tools, Tools!Op, Ops, Steps
  <2> DEFINE c == [Tools!Idle EXCEPT !.tool = tool, !.pc = "asked", !.op = b[1], !.next = b[2]]
  <2>3. c \in Call /\ c.pc = "asked" /\ c.op = b[1] /\ c.next = b[2]
    BY <2>2 DEF Call, Tools!Idle
  <2> HIDE DEF c
  <2>4. CallsTyped' /\ call'[a] = c /\ \A d \in Agents \ {a} : call'[d] = call[d]
    BY <1>2, <2>1, <2>2, <2>3, CallBecomes DEF Tools!Invoke, c
  <2>5. CallsFit'
    BY <1>2, <2>3, <2>4, OwnStep DEF Tools!Invoke
  <2> QED
    BY <1>2, <2>4, <2>5, QuietKeeps DEF Tools!Invoke, ToolsFit
<1>3. ASSUME NEW a \in Agents, Tools!Answered(a) PROVE ToolsFit'
  <2>1. CASE Tools!End(a)
    BY <1>1, <1>3, <2>1, QuietKeeps DEF Tools!Answered, ToolsFit
  <2>2. CASE \/ Tools!Effect(a, call[a].op) = "allow" /\ call' = [call EXCEPT ![a].pc = "due"]
             \/ /\ Tools!Effect(a, call[a].op) = "human"
                /\ call' = [call EXCEPT ![a].pc = "due", ![a].said = @ \cup {call[a].op}]
    <3>1. call[a].op \in Ops
      BY <1>3 DEF Tools!Answered, CallsTyped
    <3>2. PICK said \in SUBSET Ops :
            /\ call' = [call EXCEPT ![a] = [call[a] EXCEPT !.pc = "due", !.said = said]]
            /\ \/ Tools!Effect(a, call[a].op) = "allow" 
               \/ Tools!Effect(a, call[a].op) = "human" /\ call[a].op \in said
      <4>1. call[a] \in Call
        BY DEF CallsTyped
      <4>2. CASE Tools!Effect(a, call[a].op) = "allow" /\ call' = [call EXCEPT ![a].pc = "due"]
        <5>1. /\ call[a].said \in SUBSET Ops
              /\ [call[a] EXCEPT !.pc = "due", !.said = call[a].said] =
                   [call[a] EXCEPT !.pc = "due"]
          BY <4>1 DEF Call
        <5> QED
          BY <4>2, <5>1
      <4>3. CASE /\ Tools!Effect(a, call[a].op) = "human"
                 /\ call' = [call EXCEPT ![a].pc = "due", ![a].said = @ \cup {call[a].op}]
        <5>1. call[a].said \cup {call[a].op} \in SUBSET Ops
          BY <3>1, <4>1 DEF Call
        <5> DEFINE yes == call[a].said \cup {call[a].op}
        <5>2. call' = [call EXCEPT ![a] = [call[a] EXCEPT !.pc = "due", !.said = yes]]
          BY <4>3
        <5>3. call[a].op \in yes
          OBVIOUS
        <5> HIDE DEF yes
        <5> QED
          BY <4>3, <5>1, <5>2, <5>3 DEF yes
      <4> QED
        BY <2>2, <4>2, <4>3
    <3> DEFINE c == [call[a] EXCEPT !.pc = "due", !.said = said]
    <3>3. c \in Call /\ c.pc = "due" /\ c.op = call[a].op /\ c.next = call[a].next /\ c.said = said
      BY DEF CallsTyped, Call
    <3> HIDE DEF c
    <3>4. c.next \in {"snapshot", "write"} => c.op.what \in Files
      BY <3>3 DEF CallsTyped
    <3>5. CallsTyped' /\ call'[a] = c /\ \A d \in Agents \ {a} : call'[d] = call[d]
      BY <1>3, <3>1, <3>2, <3>3, <3>4, CallBecomes DEF Tools!Answered, c
    <3>6. Permitted(a, call[a].op)'
      BY <3>2, <3>3, <3>5 DEF Permitted, Tools!Effect
    <3>7. CallsFit'
      BY <1>3, <3>3, <3>5, <3>6, OwnStep DEF Tools!Answered
    <3> QED
      BY <1>3, <3>5, <3>7, QuietKeeps DEF Tools!Answered, ToolsFit
  <2> QED
    BY <1>3, <2>1, <2>2 DEF Tools!Answered
<1>4. ASSUME NEW a \in Agents, NEW ops, \A op \in ops : Permitted(a, op), Tools!Do(a, ops)
      PROVE  Tools!NothingUnasked' /\ Tools!WrittenAsShown'
  BY <1>4, DoneWasPermitted DEF Tools!Do, Tools!WrittenAsShown
<1>5. ASSUME NEW a \in Agents, call[a].pc \in {"due", "verified"} PROVE Permitted(a, call[a].op)
  BY <1>5 DEF CallsFit
<1>6. ASSUME NEW a \in Agents, Tools!Read(a) \/ Tools!Query(a) PROVE ToolsFit'
  <2>1. call[a].pc = "due" /\ Tools!End(a) /\ UNCHANGED <<disk, writes, toolCrossed>>
        /\ \E ops \in SUBSET {call[a].op} : Tools!Do(a, ops)
    BY <1>6 DEF Tools!Read, Tools!Query, Tools!Due
  <2> QED
    BY <1>1, <1>4, <1>5, <2>1 DEF ToolsFit
<1>7. ASSUME NEW a \in Agents, Tools!Search(a) PROVE ToolsFit'
  <2> DEFINE ops == {op \in {Tools!Op("read", f) : f \in {g \in Files : disk[g] > 0}} :
                       Tools!Effect(a, op) = "allow"}
  <2>1. Tools!End(a) /\ UNCHANGED <<disk, writes, toolCrossed>> /\ Tools!Do(a, ops)
    BY <1>7 DEF Tools!Search
  <2>2. \A op \in ops : Permitted(a, op)
    BY DEF Permitted
  <2> HIDE DEF ops
  <2> QED
    BY <1>1, <1>4, <2>1, <2>2 DEF ToolsFit
<1>8. ASSUME NEW a \in Agents, Tools!Snapshot(a) PROVE ToolsFit'
  <2>1. CASE Tools!End(a)
    BY <1>1, <1>8, <2>1, QuietKeeps DEF Tools!Snapshot, ToolsFit
  <2>2. CASE ~Tools!End(a)
    <3> DEFINE f == call[a].op.what
               c == [call[a] EXCEPT !.pc = "asked", !.op = Tools!Op("write", f),
                                    !.next = "write", !.before = disk[f]]
    <3>1. f \in Files /\ call' = [call EXCEPT ![a] = c]
      BY <1>8, <2>2 DEF Tools!Snapshot, Tools!Due, CallsTyped
    <3>2. /\ Tools!Op("write", f) \in Ops /\ Tools!Op("write", f).what \in Files
          /\ disk[f] \in 0..MaxWrites
      BY <3>1 DEF Tools!Op, Ops
    <3>3. c \in Call /\ c.pc = "asked" /\ c.op = Tools!Op("write", f)
      BY <3>2 DEF CallsTyped, Call, Steps
    <3> HIDE DEF c
    <3>4. CallsTyped' /\ call'[a] = c /\ \A d \in Agents \ {a} : call'[d] = call[d]
      BY <1>8, <3>1, <3>2, <3>3, CallBecomes DEF Tools!Snapshot
    <3>5. CallsFit'
      BY <1>8, <3>3, <3>4, OwnStep DEF Tools!Snapshot
    <3> QED
      BY <1>8, <3>4, <3>5, QuietKeeps DEF Tools!Snapshot, ToolsFit
  <2> QED
    BY <2>1, <2>2
<1>9. ASSUME NEW a \in Agents, Tools!Verify(a) PROVE ToolsFit'
  <2>0. /\ UNCHANGED <<disk, writes>>
        /\ \A b \in Agents \ {a} : b \in toolCrossed => b \in toolCrossed'
        /\ call[a].pc = "due" /\ call[a].next = "write"
    BY <1>9 DEF Tools!Verify, Tools!Due
  <2>1. CASE Tools!End(a)
    <3>1. /\ CallsTyped' /\ call'[a].pc = "idle" /\ \A b \in Agents \ {a} : call'[b] = call[b]
      BY <2>0, <2>1, RestIsCall, CallBecomes DEF Tools!End
    <3>2. CallsFit'
      BY <2>0, <3>1, OwnStep
    <3> QED
      BY <1>9, <3>1, <3>2, QuietKeeps DEF Tools!Verify, ToolsFit
  <2>2. CASE disk[call[a].op.what] = call[a].before /\ call' = [call EXCEPT ![a].pc = "verified"]
    <3> DEFINE c == [call[a] EXCEPT !.pc = "verified"]
    <3>1. /\ c \in Call /\ c.pc = "verified" /\ c.op = call[a].op /\ c.next = "write"
          /\ c.before = call[a].before /\ c.said = call[a].said /\ call' = [call EXCEPT ![a] = c]
      BY <2>0, <2>2 DEF CallsTyped, Call
    <3>2. call[a].op \in Ops /\ call[a].op.what \in Files
      BY <2>0 DEF CallsTyped
    <3> HIDE DEF c
    <3>3. CallsTyped' /\ call'[a] = c /\ \A d \in Agents \ {a} : call'[d] = call[d]
      BY <2>0, <3>1, <3>2, CallBecomes
    <3>4. Permitted(a, call[a].op)'
      BY <1>5, <2>0, <3>1, <3>3 DEF Permitted, Tools!Effect
    <3>5. CallsFit'
      BY <2>0, <2>2, <3>1, <3>3, <3>4, OwnStep
    <3> QED
      BY <1>9, <3>3, <3>5, QuietKeeps DEF Tools!Verify, ToolsFit
  <2> QED
    BY <1>9, <2>1, <2>2 DEF Tools!Verify
<1>10. ASSUME NEW a \in Agents, Tools!Write(a) PROVE ToolsFit'
  <2> DEFINE c == [call[a] EXCEPT !.pc = "written"]
  <2>1. /\ c \in Call /\ c.pc = "written" /\ c.op = call[a].op /\ c.next = call[a].next
        /\ call' = [call EXCEPT ![a] = c]
    BY <1>10 DEF Tools!Write, CallsTyped, Call
  <2>2. call[a].pc = "verified" /\ call[a].op.what \in Files /\ Permitted(a, call[a].op)
    BY <1>5, <1>10 DEF Tools!Write, CallsTyped
  <2>3. writes' \in 0..MaxWrites /\ disk' \in [Files -> 0..MaxWrites]
    BY <1>10, <2>2, AskingAssumption DEF Tools!Write, Tools!Change
  <2> HIDE DEF c
  <2>4. CallsTyped' /\ call'[a] = c /\ \A d \in Agents \ {a} : call'[d] = call[d]
    BY <2>1, <2>2, <2>3, CallBecomes
  <2>5. CallsFit'
    BY <1>10, <2>1, <2>2, <2>4, ChangeFits DEF Tools!Write
  <2>6. Tools!NothingUnasked'
    BY <1>10, <2>2, DoneWasPermitted DEF Tools!Write
  <2>8. disk[call[a].op.what] = call[a].before \/ a \in toolCrossed
    BY <2>2 DEF CallsFit
  <2>7. Tools!WrittenAsShown'
    <3>1. ASSUME NEW l \in landed'
          PROVE  /\ l.was = disk[call[a].op.what] /\ l.shown = call[a].before
                 /\ l.raced = (a \in toolCrossed)
      <4>1. l = [shown |-> call[a].before, was |-> disk[call[a].op.what],
                 raced |-> a \in toolCrossed]
        BY <1>10, <3>1, Zenon DEF Tools!Write
      <4>2. l.was = disk[call[a].op.what] /\ l.shown = call[a].before
        BY <4>1
      <4>3. l.raced = (a \in toolCrossed)
        BY <4>1, Zenon
      <4> QED
        BY <4>2, <4>3
    <3>2. ASSUME NEW l \in landed' PROVE l.was = l.shown \/ l.raced
      BY <2>8, <3>1
    <3> QED
      BY <3>2 DEF Tools!WrittenAsShown
  <2> QED
    BY <2>4, <2>5, <2>6, <2>7 DEF ToolsFit
<1>11. ASSUME NEW a \in Agents, Tools!AfterWrite(a) PROVE ToolsFit'
  <2>1. CASE Tools!End(a)
    BY <1>1, <1>11, <2>1, QuietKeeps DEF Tools!AfterWrite, ToolsFit
  <2>2. CASE Tools!Ask(a, Tools!Op("shell", Hook), "run")
    <3> DEFINE c == [call[a] EXCEPT !.pc = "asked", !.op = Tools!Op("shell", Hook), !.next = "run"]
    <3>1. Tools!Op("shell", Hook) \in Ops
      BY DEF Tools!Op, Ops
    <3>2. /\ c \in Call /\ c.pc = "asked" /\ c.op \in Ops /\ c.next = "run"
          /\ call' = [call EXCEPT ![a] = c]
      BY <2>2, <3>1 DEF Tools!Ask, CallsTyped, Call, Steps
    <3> HIDE DEF c
    <3>3. CallsTyped' /\ call'[a] = c /\ \A d \in Agents \ {a} : call'[d] = call[d]
      BY <1>11, <3>2, CallBecomes DEF Tools!AfterWrite
    <3>4. CallsFit'
      BY <1>11, <3>2, <3>3, OwnStep DEF Tools!AfterWrite
    <3> QED
      BY <1>11, <3>3, <3>4, QuietKeeps DEF Tools!AfterWrite, ToolsFit
  <2> QED
    BY <1>11, <2>1, <2>2 DEF Tools!AfterWrite
<1>12. ASSUME NEW a \in Agents, Tools!Run(a) PROVE ToolsFit'
  <2>1. Tools!NothingUnasked' /\ Tools!WrittenAsShown' /\ Tools!End(a)
    BY <1>4, <1>5, <1>12 DEF Tools!Run, Tools!Due
  <2>2. CASE UNCHANGED <<disk, writes, toolCrossed>>
    BY <1>1, <2>1, <2>2 DEF ToolsFit
  <2>3. CASE /\ writes < MaxWrites /\ writes' = writes + 1
             /\ \E f \in Files : Tools!Change(a, f, writes + 1)
    <3>1. writes' \in 0..MaxWrites /\ disk' \in [Files -> 0..MaxWrites]
      BY <2>3, AskingAssumption DEF Tools!Change
    <3>2. CallsTyped' /\ call'[a].pc = "idle" /\ \A d \in Agents \ {a} : call'[d] = call[d]
      BY <2>1, <3>1, RestIsCall, CallBecomes DEF Tools!End
    <3>3. CallsFit'
      BY <2>3, <3>2, ChangeFits
    <3> QED
      BY <2>1, <3>2, <3>3 DEF ToolsFit
  <2> QED
    BY <1>12, <2>2, <2>3 DEF Tools!Run
<1>13. ASSUME NEW a \in Agents, Tools!Fetch(a) PROVE ToolsFit'
  <2>1. Tools!NothingUnasked' /\ Tools!WrittenAsShown'
    BY <1>4, <1>5, <1>13 DEF Tools!Fetch, Tools!Due
  <2>2. CASE Tools!End(a)
    BY <1>1, <1>13, <2>1, <2>2 DEF Tools!Fetch, ToolsFit
  <2>3. CASE ~Tools!End(a)
    <3>1. PICK h \in Hosts : /\ call[a].hops < MaxRedirects
                             /\ call' = [call EXCEPT ![a] = [call[a] EXCEPT !.pc = "asked",
                                   !.op = Tools!Op("network", h), !.hops = call[a].hops + 1]]
      BY <1>13, <2>3 DEF Tools!Fetch
    <3> DEFINE c == [call[a] EXCEPT !.pc = "asked", !.op = Tools!Op("network", h),
                                    !.hops = call[a].hops + 1]
    <3>2. call[a] \in Call /\ call[a].next = "fetch"
      BY <1>13 DEF Tools!Fetch, Tools!Due, CallsTyped
    <3>8. call[a].hops + 1 \in 0..MaxRedirects
      BY <3>1, <3>2, AskingAssumption DEF Call
    <3>3. Tools!Op("network", h) \in Ops
      BY DEF Tools!Op, Ops
    <3>4. c \in Call /\ c.pc = "asked" /\ c.op \in Ops /\ c.next = "fetch"
      BY <3>2, <3>3, <3>8 DEF Call
    <3>5. call' = [call EXCEPT ![a] = c]
      BY <3>1
    <3> HIDE DEF c
    <3>6. CallsTyped' /\ call'[a] = c /\ \A d \in Agents \ {a} : call'[d] = call[d]
      BY <1>13, <3>4, <3>5, CallBecomes DEF Tools!Fetch
    <3>7. CallsFit'
      BY <1>13, <3>4, <3>6, OwnStep DEF Tools!Fetch
    <3> QED
      BY <2>1, <3>6, <3>7 DEF ToolsFit
  <2> QED
    BY <2>2, <2>3
<1>14. ASSUME Tools!Edit PROVE ToolsFit'
  <2>1. PICK f \in Files, c \in {0, writes + 1} : Tools!Change(None, f, c)
    BY <1>14 DEF Tools!Edit
  <2>2. call' = call /\ writes' \in 0..MaxWrites /\ disk' \in [Files -> 0..MaxWrites]
    BY <1>14, <2>1, AskingAssumption DEF Tools!Edit, Tools!Change
  <2>3. CallsFit'
    BY <2>1, <2>2, AskingAssumption, ChangeFits
  <2>4. CallsTyped'
    BY <2>2 DEF CallsTyped
  <2> QED
    BY <1>14, <2>3, <2>4, QuietKeeps DEF Tools!Edit, ToolsFit
<1> QED
  BY <1>2, <1>3, <1>6, <1>7, <1>8, <1>9, <1>10, <1>11, <1>12, <1>13, <1>14
     DEF Tools!Next, Tools!FileCall

-----------------------------------------------------------------------------
(* The trust in a project.                                                 *)

Stages == {"idle", "guard", "shown", "keep", "record", "revoke"}
Writing(c) == at[c] \in {"keep", "record", "revoke"}

\* Whatever is in the file, or in a copy of it that a command holds, was agreed to.
AgreedFit ==
    /\ \A p \in Trusting : trusted[p] # 0 => Guard!Agreed(p, trusted[p])
    /\ \A c \in Asking, p \in Trusting : known[c][p] # 0 => Guard!Agreed(p, known[c][p])
    /\ \A c \in Asking : at[c] = "record" => Guard!Agreed(Guard!Here(c), seen[c])

\* A command that is going to write holds the file as it is, unless two writers crossed.
CopyFit == \A c \in Asking : Writing(c) => trustCrossed \/ known[c] = trusted

WithdrawnFit == \A p \in withdrawn : trustCrossed \/ trusted[p] = 0

PlaceFit ==
    \A c \in Asking : at[c] # "idle" =>
        /\ Guard!Here(c) \in Trusting
        /\ at[c] # "revoke" => seen[c] \in Guard!Versions

TrustFit == Guard!TypeOK /\ PlaceFit /\ AgreedFit /\ CopyFit /\ WithdrawnFit

LEMMA LeavesTyped ==
    ASSUME Guard!TypeOK, NEW c \in Asking, NEW from, Guard!Leaves(c, from)
    PROVE  /\ at[c] = from /\ at' = [at EXCEPT ![c] = "idle"]
           /\ at' \in [Asking -> Stages]
           /\ project' \in [Asking -> Trusting \cup {Guard!Nowhere}]
           /\ known' \in [Asking -> [Trusting -> 0..MaxVersions]]
           /\ seen' \in [Asking -> 0..MaxVersions]
           /\ \A d \in Asking \ {c} :
                /\ at'[d] = at[d] /\ project'[d] = project[d]
                /\ known'[d] = known[d] /\ seen'[d] = seen[d]
           /\ at'[c] = "idle" /\ known'[c] = Guard!Nothing
<1> USE AskingAssumption
<1>1. Guard!Nothing \in [Trusting -> 0..MaxVersions]
  BY DEF Guard!Nothing
<1>2. 0 \in 0..MaxVersions
  OBVIOUS
<1> QED
  BY <1>1, <1>2 DEF Guard!Leaves, Guard!Goes, Guard!TypeOK, Stages

LEMMA TrustStarts == ASSUME Guard!Init PROVE TrustFit
<1> USE AskingAssumption
<1>1. Guard!Nothing \in [Trusting -> 0..MaxVersions] /\ \A p \in Trusting : Guard!Nothing[p] = 0
  BY DEF Guard!Nothing
<1>2. Guard!TypeOK
  <2>1. version \in [Trusting -> Guard!Versions] /\ revokes \in 0..MaxRevokes
    BY DEF Guard!Init, Guard!Versions
  <2>2. seen \in [Asking -> 0..MaxVersions]
    BY DEF Guard!Init
  <2>3. agreed \in [Trusting -> SUBSET Guard!Versions]
    BY DEF Guard!Init
  <2> QED
    BY <1>1, <2>1, <2>2, <2>3, Zenon DEF Guard!Init, Guard!TypeOK, Guard!Nowhere
<1> QED
  BY <1>1, <1>2 DEF Guard!Init, TrustFit, PlaceFit, AgreedFit, CopyFit, WithdrawnFit, Writing

\* What was agreed to stays so.
LEMMA AgreedStays ==
    ASSUME Guard!TypeOK, [Guard!Next]_(Guard!vars)
    PROVE  /\ \A p \in Trusting : agreed[p] \subseteq agreed'[p]
           /\ raced \subseteq raced' /\ (trustCrossed => trustCrossed')
  BY DEF Guard!Next, Guard!vars, Guard!file, Guard!command, Guard!history, Guard!Passes,
       Guard!Shows, Guard!Refuses, Guard!Agrees, Guard!Keeps, Guard!TrustProject,
         Guard!RevokeTrust, Guard!GuardProject, Guard!Revoke, Guard!Changes, Guard!TypeOK

LEMMA TrustTyped ==
    ASSUME Guard!TypeOK, PlaceFit, [Guard!Next]_(Guard!vars)
    PROVE  Guard!TypeOK' /\ PlaceFit'
<1> USE AskingAssumption
<1> USE DEF Guard!Here
<1>1. ASSUME NEW c \in Asking, Guard!Passes(c) \/ Guard!Refuses(c) PROVE Guard!TypeOK' /\ PlaceFit'
  BY <1>1, LeavesTyped DEF Guard!Passes, Guard!Refuses, Guard!file, Guard!history, Guard!TypeOK,
       PlaceFit, Stages
<1>2. ASSUME NEW c \in Asking, Guard!Shows(c) PROVE Guard!TypeOK' /\ PlaceFit'
  BY <1>2 DEF Guard!Shows, Guard!Goes, Guard!file, Guard!history, Guard!TypeOK, PlaceFit
<1>3. ASSUME NEW c \in Asking, Guard!Agrees(c) PROVE Guard!TypeOK' /\ PlaceFit'
  <2>1. Guard!Here(c) \in Trusting /\ seen[c] \in Guard!Versions
    BY <1>3 DEF Guard!Agrees, Guard!Goes, PlaceFit
  <2> QED
    BY <1>3, <2>1 DEF Guard!Agrees, Guard!Goes, Guard!ReadTrusted, Guard!file,
       Guard!TypeOK, PlaceFit
<1>4. ASSUME NEW c \in Asking, Guard!Keeps(c) PROVE Guard!TypeOK' /\ PlaceFit'
  <2>1. Guard!Here(c) \in Trusting /\ version[Guard!Here(c)] \in Guard!Versions /\ Guard!Versions
       \subseteq 0..MaxVersions
    BY <1>4 DEF Guard!Keeps, Guard!Goes, PlaceFit, Guard!TypeOK, Guard!Versions
  <2> QED
    BY <1>4, <2>1 DEF Guard!Keeps, Guard!Goes, Guard!ProjectAuthority, Guard!file, Guard!TypeOK,
         PlaceFit
<1>5. ASSUME NEW c \in Asking, Guard!TrustProject(c) PROVE Guard!TypeOK' /\ PlaceFit'
  <2>1. Guard!Record(c) \in [Trusting -> 0..MaxVersions]
    BY <1>5 DEF Guard!TrustProject, Guard!Leaves, Guard!Goes, Guard!Record, PlaceFit, Guard!TypeOK,
         Guard!Versions
  <2> QED
    BY <1>5, <2>1, LeavesTyped DEF Guard!TrustProject, Guard!TypeOK, PlaceFit, Stages
<1>6. ASSUME NEW c \in Asking, Guard!RevokeTrust(c) PROVE Guard!TypeOK' /\ PlaceFit'
  <2>1. trusted' \in [Trusting -> 0..MaxVersions] /\ Guard!Here(c) \in Trusting
    BY <1>6 DEF Guard!RevokeTrust, Guard!Leaves, Guard!Goes, PlaceFit, Guard!TypeOK
  <2> QED
    BY <1>6, <2>1, LeavesTyped DEF Guard!RevokeTrust, Guard!TypeOK, PlaceFit, Stages
<1>7. ASSUME NEW c \in Asking, NEW p \in Trusting, Guard!GuardProject(c, p)
      PROVE  Guard!TypeOK' /\ PlaceFit'
  <2>1. version[p] \in Guard!Versions /\ Guard!Versions \subseteq 0..MaxVersions
    BY DEF Guard!TypeOK, Guard!Versions
  <2> QED
    BY <1>7, <2>1 DEF Guard!GuardProject, Guard!Goes, Guard!ReadTrusted, Guard!ProjectAuthority,
         Guard!file, Guard!history, Guard!TypeOK, PlaceFit
<1>8. ASSUME NEW c \in Asking, NEW p \in Trusting, Guard!Revoke(c, p)
      PROVE  Guard!TypeOK' /\ PlaceFit'
  <2>1. revokes' \in 0..MaxRevokes
    BY <1>8 DEF Guard!Revoke, Guard!TypeOK
  <2> QED
    BY <1>8, <2>1 DEF Guard!Revoke, Guard!Goes, Guard!ReadTrusted, Guard!file, Guard!history,
         Guard!TypeOK, PlaceFit
<1>9. ASSUME NEW p \in Trusting, Guard!Changes(p) PROVE Guard!TypeOK' /\ PlaceFit'
  <2>1. version' \in [Trusting -> Guard!Versions]
    BY <1>9 DEF Guard!Changes, Guard!TypeOK, Guard!Versions
  <2> QED
    BY <1>9, <2>1 DEF Guard!Changes, Guard!command, Guard!history, Guard!TypeOK, PlaceFit
<1>10. ASSUME UNCHANGED Guard!vars PROVE Guard!TypeOK' /\ PlaceFit'
  BY <1>10 DEF Guard!vars, Guard!file, Guard!command, Guard!history, Guard!TypeOK, PlaceFit
<1> QED
  BY <1>1, <1>2, <1>3, <1>4, <1>5, <1>6, <1>7, <1>8, <1>9, <1>10 DEF Guard!Next

\* A copy of the file is a copy of what was agreed to; a write puts back such a copy, and the
\* fingerprint that was agreed to.
LEMMA NextAgreed ==
    ASSUME TrustFit, [Guard!Next]_(Guard!vars)
    PROVE  AgreedFit'
<1> USE AskingAssumption
<1> USE DEF Guard!Here
<1>0. Guard!TypeOK /\ PlaceFit /\ AgreedFit
  BY DEF TrustFit
<1>1. /\ \A p \in Trusting : agreed[p] \subseteq agreed'[p]
      /\ raced \subseteq raced' /\ (trustCrossed => trustCrossed')
  BY <1>0, AgreedStays
\* A step after which the file holds what was agreed to, and every copy is as before, gone,
\* or the file's.
<1>2. ASSUME \A p \in Trusting : trusted'[p] # 0 => Guard!Agreed(p, trusted[p])',
             \A d \in Asking :
                \/ known'[d] = known[d]
                \/ known'[d] = Guard!Nothing \/ known'[d] = trusted,
             \A d \in Asking : at'[d] = "record" =>
                at[d] = "record" /\ project'[d] = project[d] /\ seen'[d] = seen[d]
      PROVE  AgreedFit'
  <2>1. ASSUME NEW d \in Asking, NEW p \in Trusting, known'[d][p] # 0
        PROVE  Guard!Agreed(p, known[d][p])'
    <3>1. known'[d] = known[d] \/ known'[d] = trusted
      BY <1>2, <2>1 DEF Guard!Nothing
    <3>2. trustCrossed \/ p \in raced \/ known'[d][p] \in agreed[p]
      BY <1>0, <2>1, <3>1 DEF AgreedFit, Guard!Agreed
    <3> QED
      BY <1>1, <3>2 DEF Guard!Agreed
  <2>2. ASSUME NEW d \in Asking, at'[d] = "record"
        PROVE  Guard!Agreed(Guard!Here(d), seen[d])'
    <3>1. at[d] = "record" /\ project'[d] = project[d] /\ seen'[d] = seen[d]
      BY <1>2, <2>2
    <3>2. project[d] \in Trusting /\ (trustCrossed \/ project[d] \in raced \/ seen[d] \in
         agreed[project[d]])
      BY <1>0, <3>1 DEF AgreedFit, PlaceFit, Guard!Agreed
    <3> QED
      BY <1>1, <3>1, <3>2 DEF Guard!Agreed
  <2> QED
    BY <1>2, <2>1, <2>2 DEF AgreedFit
<1>3. ASSUME trusted' = trusted
      PROVE  \A p \in Trusting : trusted'[p] # 0 => Guard!Agreed(p, trusted[p])'
  BY <1>0, <1>1, <1>3 DEF AgreedFit, Guard!Agreed
<1>4. ASSUME NEW c \in Asking, Guard!Passes(c) \/ Guard!Refuses(c) PROVE AgreedFit'
  BY <1>0, <1>2, <1>3, <1>4, LeavesTyped DEF Guard!Passes, Guard!Refuses, Guard!file
<1>5. ASSUME NEW c \in Asking, Guard!Shows(c) PROVE AgreedFit'
  BY <1>0, <1>2, <1>3, <1>5 DEF Guard!Shows, Guard!Goes, Guard!file, Guard!TypeOK
<1>6. ASSUME NEW c \in Asking, Guard!Agrees(c) PROVE AgreedFit'
  BY <1>0, <1>2, <1>3, <1>6 DEF Guard!Agrees, Guard!Goes, Guard!ReadTrusted, Guard!file,
       Guard!TypeOK
<1>7. ASSUME NEW c \in Asking, Guard!Keeps(c) PROVE AgreedFit'
  <2>1. /\ Guard!Here(c) \in Trusting /\ trusted' = trusted /\ known' = known
        /\ at' = [at EXCEPT ![c] = "record"] /\ project' = project
        /\ seen' = [seen EXCEPT ![c] = version[Guard!Here(c)]]
        /\ version[Guard!Here(c)] \in agreed[Guard!Here(c)] \/ Guard!Here(c) \in raced'
    BY <1>0, <1>7 DEF Guard!Keeps, Guard!Goes, Guard!ProjectAuthority, Guard!file, PlaceFit
  <2>2. ASSUME NEW d \in Asking, at'[d] = "record"
        PROVE  Guard!Agreed(Guard!Here(d), seen[d])'
    <3>1. CASE d = c
      BY <1>0, <1>1, <2>1, <3>1 DEF Guard!Agreed, Guard!TypeOK
    <3>2. CASE d # c
      <4>1. at[d] = "record" /\ seen'[d] = seen[d]
        BY <1>0, <2>1, <2>2, <3>2 DEF Guard!TypeOK
      <4>2. project[d] \in Trusting
            /\ (trustCrossed \/ project[d] \in raced \/ seen[d] \in agreed[project[d]])
        BY <1>0, <4>1 DEF AgreedFit, PlaceFit, Guard!Agreed
      <4> QED
        BY <1>1, <2>1, <4>1, <4>2 DEF Guard!Agreed
    <3> QED
      BY <3>1, <3>2
  <2>3. \A d \in Asking, p \in Trusting : known'[d][p] # 0 => Guard!Agreed(p, known[d][p])'
    BY <1>0, <1>1, <2>1 DEF AgreedFit, Guard!Agreed
  <2> QED
    BY <1>3, <2>1, <2>2, <2>3 DEF AgreedFit
<1>8. ASSUME NEW c \in Asking, Guard!TrustProject(c) PROVE AgreedFit'
  <2>1. /\ at[c] = "record" /\ Guard!Here(c) \in Trusting /\ trusted' = Guard!Record(c)
        /\ known[c] \in [Trusting -> 0..MaxVersions]
    BY <1>0, <1>8 DEF Guard!TrustProject, Guard!Leaves, Guard!Goes, PlaceFit, Guard!TypeOK
  <2>2. ASSUME NEW p \in Trusting, trusted'[p] # 0
        PROVE  Guard!Agreed(p, trusted[p])'
    <3>1. CASE p = Guard!Here(c)
      <4>1. trusted'[p] = seen[c] /\ (trustCrossed \/ p \in raced \/ seen[c] \in agreed[p])
        BY <1>0, <2>1, <3>1 DEF Guard!Record, AgreedFit, Guard!Agreed
      <4> QED
        BY <1>1, <4>1 DEF Guard!Agreed
    <3>2. CASE p # Guard!Here(c)
      <4>1. trusted'[p] = known[c][p]
        BY <2>1, <3>2 DEF Guard!Record
      <4>2. trustCrossed \/ p \in raced \/ known[c][p] \in agreed[p]
        BY <1>0, <2>2, <4>1 DEF AgreedFit, Guard!Agreed
      <4> QED
        BY <1>1, <4>1, <4>2 DEF Guard!Agreed
    <3> QED
      BY <3>1, <3>2
  <2> QED
    BY <1>0, <1>2, <1>8, <2>2, LeavesTyped DEF Guard!TrustProject
<1>9. ASSUME NEW c \in Asking, Guard!RevokeTrust(c) PROVE AgreedFit'
  <2>1. Guard!Here(c) \in Trusting /\ known[c] \in [Trusting -> 0..MaxVersions]
    BY <1>0, <1>9 DEF Guard!RevokeTrust, Guard!Leaves, Guard!Goes, PlaceFit, Guard!TypeOK
  <2>2. ASSUME NEW p \in Trusting, trusted'[p] # 0
        PROVE  Guard!Agreed(p, trusted[p])'
    <3>1. trusted'[p] = trusted[p] \/ trusted'[p] = known[c][p]
      BY <1>9, <2>1, <2>2 DEF Guard!RevokeTrust
    <3>2. trustCrossed \/ p \in raced \/ trusted'[p] \in agreed[p]
      BY <1>0, <2>2, <3>1 DEF AgreedFit, Guard!Agreed
    <3> QED
      BY <1>1, <3>2 DEF Guard!Agreed
  <2> QED
    BY <1>0, <1>2, <1>9, <2>2, LeavesTyped DEF Guard!RevokeTrust
<1>10. ASSUME NEW c \in Asking, NEW p \in Trusting, Guard!GuardProject(c, p) \/ Guard!Revoke(c, p)
       PROVE  AgreedFit'
  <2>1. /\ trusted' = trusted /\ known' = [known EXCEPT ![c] = trusted]
        /\ \A d \in Asking : at'[d] = "record" =>
              at[d] = "record" /\ project'[d] = project[d] /\ seen'[d] = seen[d]
    BY <1>0, <1>10 DEF Guard!GuardProject, Guard!Revoke, Guard!Goes, Guard!ReadTrusted,
         Guard!ProjectAuthority, Guard!file, Guard!TypeOK
  <2> QED
    BY <1>0, <1>2, <1>3, <2>1 DEF Guard!TypeOK
<1>11. ASSUME (\E p \in Trusting : Guard!Changes(p)) \/ UNCHANGED Guard!vars PROVE AgreedFit'
  BY <1>0, <1>2, <1>3, <1>11 DEF Guard!Changes, Guard!vars, Guard!file, Guard!command
<1> QED
  BY <1>4, <1>5, <1>6, <1>7, <1>8, <1>9, <1>10, <1>11 DEF Guard!Next

\* Two writers that both hold the file as it is have crossed as soon as one of them writes;
\* so a write takes no project back that was revoked meanwhile.
LEMMA NextWritten ==
    ASSUME TrustFit, [Guard!Next]_(Guard!vars)
    PROVE  CopyFit' /\ WithdrawnFit'
<1> USE AskingAssumption
<1> USE DEF Guard!Here, Writing
<1>0. Guard!TypeOK /\ PlaceFit /\ CopyFit /\ WithdrawnFit /\ (trustCrossed => trustCrossed')
  BY AgreedStays DEF TrustFit
<1>1. ASSUME trusted' = trusted, withdrawn' = withdrawn,
             \A d \in Asking : Writing(d)' =>
                \/ known'[d] = trusted
                \/ Writing(d) /\ known'[d] = known[d]
      PROVE  CopyFit' /\ WithdrawnFit'
  BY <1>0, <1>1 DEF CopyFit, WithdrawnFit
<1>2. ASSUME NEW c \in Asking, Guard!Passes(c) \/ Guard!Refuses(c) PROVE CopyFit' /\ WithdrawnFit'
  BY <1>0, <1>1, <1>2, LeavesTyped DEF Guard!Passes, Guard!Refuses, Guard!file, Guard!history
<1>3. ASSUME NEW c \in Asking, Guard!Shows(c) \/ Guard!Keeps(c) PROVE CopyFit' /\ WithdrawnFit'
  BY <1>0, <1>1, <1>3 DEF Guard!Shows, Guard!Keeps, Guard!Goes, Guard!file, Guard!history,
       Guard!TypeOK
<1>4. ASSUME NEW c \in Asking, Guard!Agrees(c) PROVE CopyFit' /\ WithdrawnFit'
  BY <1>0, <1>1, <1>4 DEF Guard!Agrees, Guard!Goes, Guard!ReadTrusted, Guard!file,
       Guard!TypeOK
<1>5. ASSUME NEW c \in Asking, Guard!TrustProject(c) \/ Guard!RevokeTrust(c) PROVE CopyFit'
  <2>1. /\ \A d \in Asking \ {c} : at'[d] = at[d]
        /\ at'[c] = "idle" /\ trustCrossed' = (trustCrossed \/ Guard!Crosses(c))
    BY <1>0, <1>5, LeavesTyped DEF Guard!TrustProject, Guard!RevokeTrust
  <2>2. ASSUME NEW d \in Asking, Writing(d)' PROVE trustCrossed'
    <3>1. d \in Asking \ {c} /\ Writing(d)
      BY <2>1, <2>2
    <3> QED
      BY <2>1, <3>1 DEF Guard!Crosses
  <2> QED
    BY <2>2 DEF CopyFit
<1>6. ASSUME NEW c \in Asking, Guard!TrustProject(c) PROVE WithdrawnFit'
  <2>1. /\ Guard!Here(c) \in Trusting /\ known[c] \in [Trusting -> 0..MaxVersions]
        /\ trusted' = Guard!Record(c) /\ withdrawn' = withdrawn \ {Guard!Here(c)}
        /\ trustCrossed \/ known[c] = trusted
    BY <1>0, <1>6 DEF Guard!TrustProject, Guard!Leaves, Guard!Goes, PlaceFit, Guard!TypeOK, CopyFit
  <2> QED
    BY <1>0, <2>1 DEF WithdrawnFit, Guard!Record, Guard!TypeOK
<1>7. ASSUME NEW c \in Asking, Guard!RevokeTrust(c) PROVE WithdrawnFit'
  <2>1. /\ Guard!Here(c) \in Trusting /\ known[c] \in [Trusting -> 0..MaxVersions]
        /\ withdrawn' = withdrawn \cup {Guard!Here(c)}
        /\ trustCrossed \/ known[c] = trusted
        /\ trusted' = IF known[c][Guard!Here(c)] = 0 THEN trusted ELSE [known[c] EXCEPT
             ![Guard!Here(c)] = 0]
    BY <1>0, <1>7 DEF Guard!RevokeTrust, Guard!Leaves, Guard!Goes, PlaceFit, Guard!TypeOK, CopyFit
  <2> QED
    BY <1>0, <2>1 DEF WithdrawnFit, Guard!TypeOK
<1>8. ASSUME NEW c \in Asking, NEW p \in Trusting, Guard!GuardProject(c, p) \/ Guard!Revoke(c, p)
      PROVE  CopyFit' /\ WithdrawnFit'
  BY <1>0, <1>1, <1>8 DEF Guard!GuardProject, Guard!Revoke, Guard!Goes, Guard!ReadTrusted,
       Guard!file, Guard!history, Guard!TypeOK
<1>9. ASSUME (\E p \in Trusting : Guard!Changes(p)) \/ UNCHANGED Guard!vars
      PROVE  CopyFit' /\ WithdrawnFit'
  BY <1>1, <1>9 DEF Guard!Changes, Guard!vars, Guard!file, Guard!command, Guard!history
<1> QED
  BY <1>2, <1>3, <1>4, <1>5, <1>6, <1>7, <1>8, <1>9 DEF Guard!Next

\* A command goes on only where what the file says is what it took the fingerprint of.
LEMMA PassesAgreed ==
    ASSUME TrustFit, [Guard!Next]_(Guard!vars), NEW c \in Asking, at[c] = "guard", at'[c] = "idle"
    PROVE  Guard!Agreed(Guard!Here(c), seen[c])
<1>0. Guard!TypeOK /\ PlaceFit /\ AgreedFit
  BY DEF TrustFit
<1>1. Guard!Passes(c)
  <2>1. ASSUME NEW d \in Asking,
               \/ Guard!Passes(d) \/ Guard!Shows(d) \/ Guard!Refuses(d) \/ Guard!Agrees(d)
               \/ Guard!Keeps(d) \/ Guard!TrustProject(d) \/ Guard!RevokeTrust(d)
        PROVE  Guard!Passes(c)
    BY <1>0, <2>1 DEF Guard!TypeOK, Guard!Passes, Guard!Shows, Guard!Refuses, Guard!Agrees,
         Guard!Keeps, Guard!TrustProject, Guard!RevokeTrust,
         Guard!Leaves, Guard!Goes
  <2>2. ASSUME NEW d \in Asking, NEW p \in Trusting, Guard!GuardProject(d, p) \/ Guard!Revoke(d, p)
        PROVE  FALSE
    BY <1>0, <2>2 DEF Guard!TypeOK, Guard!GuardProject, Guard!Revoke, Guard!Goes
  <2> QED
    BY <2>1, <2>2 DEF Guard!Next, Guard!Changes, Guard!vars, Guard!command
<1> QED
  BY <1>0, <1>1 DEF Guard!Passes, Guard!Trusts, PlaceFit, AgreedFit, Guard!Here, Guard!Versions

-----------------------------------------------------------------------------
(* The approvals: what RunApprovalsProof shows of one desk, of the three.  *)

Desk == INSTANCE RunApprovalsProof

GitLabDesk == INSTANCE RunApprovalsProof WITH
  Scopes <- {"scope1"}, ScopeOf <- OneScope, Reviewers <- {"cli"}, Door <- "gitlab"

SharingDesk == INSTANCE RunApprovalsProof WITH
  Scopes <- {"scope1"}, ScopeOf <- OneScope, Reviewers <- {"cli"}

LEMMA DeskStarts == ASSUME Init PROVE Desk!Fit
<1>1. Desk!ApprovalAssumption
  BY ApprovalAssumption DEF Desk!ApprovalAssumption
<1>2. Desk!Init
  BY DEF Init, Desk!Init
<1> QED
  BY <1>1, <1>2, Desk!InitFits

LEMMA GitLabStarts == ASSUME GitLab!Init PROVE GitLabDesk!Fit
<1>1. GitLabDesk!ApprovalAssumption
  BY ApprovalAssumption DEF GitLabDesk!ApprovalAssumption, ApprovalAssumption, OneScope
<1>2. GitLabDesk!Init
  BY DEF GitLab!Init, GitLabDesk!Init
<1> QED
  BY <1>1, <1>2, GitLabDesk!InitFits

LEMMA SharingStarts == ASSUME Sharing!Init PROVE SharingDesk!Fit
<1>1. SharingDesk!ApprovalAssumption
  BY ApprovalAssumption DEF SharingDesk!ApprovalAssumption, ApprovalAssumption, OneScope
<1>2. SharingDesk!Init
  BY DEF Sharing!Init, SharingDesk!Init
<1> QED
  BY <1>1, <1>2, SharingDesk!InitFits

LEMMA DeskSteps ==
  ASSUME Next \/ UNCHANGED deskVars
  PROVE  Desk!ApprovalAssumption /\ [Desk!Next]_(Desk!vars)
<1>1. Desk!ApprovalAssumption
  BY ApprovalAssumption DEF Desk!ApprovalAssumption, ApprovalAssumption, OneScope
<1>2. [Desk!Next]_(Desk!vars)
  BY DEF deskVars,
     AskCovered, AskPerson, Announced, LeaseLost, Poll, Fetched, Cut, Answer, Tick, Taint,
     Consider, Decide, Comment, Refresh, Abort, Handler, Next, Create, BecomeOverdue, Swept,
     Decided, Goto, Tell, GrantKey, TaintKey, Covering, Grant, Leave, Look, Yes, Decisions,
     Granted, inboxVars, handlerVars, harnessVars, vars, Desk!AskCovered, Desk!AskPerson,
     Desk!Announced, Desk!LeaseLost, Desk!Poll, Desk!Fetched, Desk!Cut, Desk!Answer,
     Desk!Tick, Desk!Taint, Desk!Consider, Desk!Decide, Desk!Comment, Desk!Refresh,
     Desk!Abort, Desk!Handler, Desk!Next, Desk!Create, Desk!BecomeOverdue, Desk!Swept,
     Desk!Decided, Desk!Goto, Desk!Tell, Desk!GrantKey, Desk!TaintKey, Desk!Covering,
     Desk!Grant, Desk!Leave, Desk!Look, Desk!Yes, Desk!Decisions, Desk!Granted,
     Desk!inboxVars, Desk!handlerVars, Desk!harnessVars, Desk!vars
<1> QED
  BY <1>1, <1>2

LEMMA DeskGoes ==
  ASSUME Desk!Fit, Next \/ UNCHANGED deskVars
  PROVE  Desk!Fit'
  BY DeskSteps, Desk!NextFits

LEMMA GitLabSteps ==
  ASSUME GitLab!Next \/ UNCHANGED deskVars
  PROVE  GitLabDesk!ApprovalAssumption /\ [GitLabDesk!Next]_(GitLabDesk!vars)
<1>1. GitLabDesk!ApprovalAssumption
  BY ApprovalAssumption DEF GitLabDesk!ApprovalAssumption, ApprovalAssumption, OneScope
<1>2. [GitLabDesk!Next]_(GitLabDesk!vars)
  BY DEF deskVars,
     GitLab!AskCovered, GitLab!AskPerson, GitLab!Announced, GitLab!LeaseLost, GitLab!Poll,
     GitLab!Fetched, GitLab!Cut, GitLab!Answer, GitLab!Tick, GitLab!Taint, GitLab!Consider,
     GitLab!Decide, GitLab!Comment, GitLab!Refresh, GitLab!Abort, GitLab!Handler,
     GitLab!Next, GitLab!Create, GitLab!BecomeOverdue, GitLab!Swept, GitLab!Decided,
     GitLab!Goto, GitLab!Tell, GitLab!GrantKey, GitLab!TaintKey, GitLab!Covering,
     GitLab!Grant, GitLab!Leave, GitLab!Look, GitLab!Yes, GitLab!Decisions, GitLab!Granted,
     GitLab!inboxVars, GitLab!handlerVars, GitLab!harnessVars, GitLab!vars,
     GitLabDesk!AskCovered, GitLabDesk!AskPerson, GitLabDesk!Announced,
     GitLabDesk!LeaseLost, GitLabDesk!Poll, GitLabDesk!Fetched, GitLabDesk!Cut,
     GitLabDesk!Answer, GitLabDesk!Tick, GitLabDesk!Taint, GitLabDesk!Consider,
     GitLabDesk!Decide, GitLabDesk!Comment, GitLabDesk!Refresh, GitLabDesk!Abort,
     GitLabDesk!Handler, GitLabDesk!Next, GitLabDesk!Create, GitLabDesk!BecomeOverdue,
     GitLabDesk!Swept, GitLabDesk!Decided, GitLabDesk!Goto, GitLabDesk!Tell,
     GitLabDesk!GrantKey, GitLabDesk!TaintKey, GitLabDesk!Covering, GitLabDesk!Grant,
     GitLabDesk!Leave, GitLabDesk!Look, GitLabDesk!Yes, GitLabDesk!Decisions,
     GitLabDesk!Granted, GitLabDesk!inboxVars, GitLabDesk!handlerVars,
     GitLabDesk!harnessVars, GitLabDesk!vars
<1> QED
  BY <1>1, <1>2

LEMMA GitLabGoes ==
  ASSUME GitLabDesk!Fit, GitLab!Next \/ UNCHANGED deskVars
  PROVE  GitLabDesk!Fit'
  BY GitLabSteps, GitLabDesk!NextFits

LEMMA SharingSteps ==
  ASSUME Sharing!Next \/ UNCHANGED deskVars
  PROVE  SharingDesk!ApprovalAssumption /\ [SharingDesk!Next]_(SharingDesk!vars)
<1>1. SharingDesk!ApprovalAssumption
  BY ApprovalAssumption DEF SharingDesk!ApprovalAssumption, ApprovalAssumption, OneScope
<1>2. [SharingDesk!Next]_(SharingDesk!vars)
  BY DEF deskVars,
     Sharing!AskCovered, Sharing!AskPerson, Sharing!Announced, Sharing!LeaseLost,
     Sharing!Poll, Sharing!Fetched, Sharing!Cut, Sharing!Answer, Sharing!Tick,
     Sharing!Taint, Sharing!Consider, Sharing!Decide, Sharing!Comment, Sharing!Refresh,
     Sharing!Abort, Sharing!Handler, Sharing!Next, Sharing!Create, Sharing!BecomeOverdue,
     Sharing!Swept, Sharing!Decided, Sharing!Goto, Sharing!Tell, Sharing!GrantKey,
     Sharing!TaintKey, Sharing!Covering, Sharing!Grant, Sharing!Leave, Sharing!Look,
     Sharing!Yes, Sharing!Decisions, Sharing!Granted, Sharing!inboxVars,
     Sharing!handlerVars, Sharing!harnessVars, Sharing!vars, SharingDesk!AskCovered,
     SharingDesk!AskPerson, SharingDesk!Announced, SharingDesk!LeaseLost, SharingDesk!Poll,
     SharingDesk!Fetched, SharingDesk!Cut, SharingDesk!Answer, SharingDesk!Tick,
     SharingDesk!Taint, SharingDesk!Consider, SharingDesk!Decide, SharingDesk!Comment,
     SharingDesk!Refresh, SharingDesk!Abort, SharingDesk!Handler, SharingDesk!Next,
     SharingDesk!Create, SharingDesk!BecomeOverdue, SharingDesk!Swept, SharingDesk!Decided,
     SharingDesk!Goto, SharingDesk!Tell, SharingDesk!GrantKey, SharingDesk!TaintKey,
     SharingDesk!Covering, SharingDesk!Grant, SharingDesk!Leave, SharingDesk!Look,
     SharingDesk!Yes, SharingDesk!Decisions, SharingDesk!Granted, SharingDesk!inboxVars,
     SharingDesk!handlerVars, SharingDesk!harnessVars, SharingDesk!vars
<1> QED
  BY <1>1, <1>2

LEMMA SharingGoes ==
  ASSUME SharingDesk!Fit, Sharing!Next \/ UNCHANGED deskVars
  PROVE  SharingDesk!Fit'
  BY SharingSteps, SharingDesk!NextFits

\* What each desk's invariant means for the properties of the composition.
LEMMA DesksMean ==
  /\ Desk!Fit => OnlyWhatWasApproved /\ NoneLeftPending /\ (Door = "inbox" => DecisionCounts)
  /\ GitLabDesk!Fit => GitLab!OnlyWhatWasApproved /\ GitLab!NoneLeftPending
  /\ SharingDesk!Fit => /\ Sharing!OnlyWhatWasApproved /\ Sharing!NoneLeftPending
                        /\ Door = "inbox" => Sharing!DecisionCounts
<1> USE DEF Decisions, Granted, Closed, GitLab!Decisions, GitLab!Granted, GitLab!Closed,
     Sharing!Decisions, Sharing!Granted, Sharing!Closed, Desk!Decisions, Desk!Granted,
     Desk!Closed, GitLabDesk!Decisions, GitLabDesk!Granted, GitLabDesk!Closed,
     SharingDesk!Decisions, SharingDesk!Granted, SharingDesk!Closed
<1>1. /\ Desk!ApprovalAssumption /\ GitLabDesk!ApprovalAssumption
      /\ SharingDesk!ApprovalAssumption
  BY ApprovalAssumption DEF Desk!ApprovalAssumption, GitLabDesk!ApprovalAssumption,
     SharingDesk!ApprovalAssumption, ApprovalAssumption, OneScope
<1>2. ASSUME Desk!Fit
      PROVE  OnlyWhatWasApproved /\ NoneLeftPending /\ (Door = "inbox" => DecisionCounts)
  <2>1. Desk!OnlyWhatWasApproved /\ Desk!NoneLeftPending /\ (Door = "inbox" => Desk!DecisionCounts)
    BY <1>1, <1>2, Desk!FitMeans
  <2> QED
    BY <2>1 DEF Desk!OnlyWhatWasApproved, OnlyWhatWasApproved, Desk!DecisionCounts, DecisionCounts,
       Desk!NoneLeftPending, NoneLeftPending
<1>3. ASSUME GitLabDesk!Fit PROVE GitLab!OnlyWhatWasApproved /\ GitLab!NoneLeftPending
  <2>1. GitLabDesk!OnlyWhatWasApproved /\ GitLabDesk!NoneLeftPending
    BY <1>1, <1>3, GitLabDesk!FitMeans
  <2> QED
    BY <2>1 DEF GitLabDesk!OnlyWhatWasApproved, GitLab!OnlyWhatWasApproved,
       GitLabDesk!NoneLeftPending, GitLab!NoneLeftPending
<1>4. ASSUME SharingDesk!Fit
      PROVE  /\ Sharing!OnlyWhatWasApproved /\ Sharing!NoneLeftPending
             /\ Door = "inbox" => Sharing!DecisionCounts
  <2>1. /\ SharingDesk!OnlyWhatWasApproved /\ SharingDesk!NoneLeftPending
        /\ Door = "inbox" => SharingDesk!DecisionCounts
    BY <1>1, <1>4, SharingDesk!FitMeans
  <2> QED
    BY <2>1 DEF SharingDesk!OnlyWhatWasApproved, Sharing!OnlyWhatWasApproved,
       SharingDesk!DecisionCounts, Sharing!DecisionCounts, SharingDesk!NoneLeftPending,
       Sharing!NoneLeftPending
<1> QED
  BY <1>2, <1>3, <1>4

-----------------------------------------------------------------------------
(* Together: a step is one of the component that `part` names.             *)

AskingFit ==
  /\ part \in Parts
  /\ part = "desk" => Desk!Fit
  /\ part = "gitlab" => GitLabDesk!Fit
  /\ part = "sharing" => SharingDesk!Fit
  /\ part = "tools" => ToolsFit
  /\ TrustFit

LEMMA AskingStarts == ASSUME AskingInit PROVE AskingFit
<1>1. part = "desk" => Init
  BY DEF AskingInit
<1>2. part = "gitlab" => GitLab!Init
  BY DEF AskingInit
<1>3. part = "sharing" => Sharing!Init
  BY DEF AskingInit
<1>4. part \in Parts /\ Tools!Init /\ Guard!Init
  BY DEF AskingInit
<1> QED
  BY <1>1, <1>2, <1>3, <1>4, DeskStarts, GitLabStarts, SharingStarts, ToolsStart, TrustStarts
     DEF AskingFit

\* A step of the whole is a step of each component, or leaves it as it is.
LEMMA OneMoves ==
  ASSUME part \in Parts, [AskingNext]_askingVars
  PROVE  /\ part' = part
         /\ part = "desk" => Next \/ UNCHANGED deskVars
         /\ part = "gitlab" => GitLab!Next \/ UNCHANGED deskVars
         /\ part = "sharing" => Sharing!Next \/ UNCHANGED deskVars
         /\ part = "tools" => Tools!Next \/ UNCHANGED toolsVars
         /\ Guard!Next \/ UNCHANGED trustVars
         /\ part \in {"tools", "settings", "trust"} => UNCHANGED deskVars
<1> USE DEF Parts
<1>1. CASE UNCHANGED askingVars
  BY <1>1 DEF askingVars
<1>2. CASE DeskStep
  BY <1>2 DEF DeskStep
<1>3. CASE GitLabStep
  BY <1>3 DEF GitLabStep
<1>4. CASE SharingStep
  BY <1>4 DEF SharingStep
<1>5. CASE ToolsStep
  BY <1>5 DEF ToolsStep
<1>6. CASE LayersStep
  BY <1>6 DEF LayersStep
<1>7. CASE GuardStep
  BY <1>7 DEF GuardStep
<1> QED
  BY <1>1, <1>2, <1>3, <1>4, <1>5, <1>6, <1>7 DEF AskingNext

LEMMA ToolsRest == ASSUME ToolsFit, UNCHANGED toolsVars PROVE ToolsFit'
  BY DEF toolsVars, ToolsFit, CallsTyped, CallsFit, Permitted, Tools!NothingUnasked,
     Tools!WrittenAsShown, Tools!Effect, Tools!Facts, Tools!Loads

LEMMA TrustGoes == ASSUME TrustFit, Guard!Next \/ UNCHANGED trustVars PROVE TrustFit'
<1>1. [Guard!Next]_(Guard!vars)
  BY DEF trustVars, Guard!vars, Guard!file, Guard!command, Guard!history
<1>2. Guard!TypeOK' /\ PlaceFit'
  BY <1>1, TrustTyped DEF TrustFit
<1> QED
  BY <1>1, <1>2, NextAgreed, NextWritten DEF TrustFit

LEMMA AskingGoes == ASSUME AskingFit, [AskingNext]_askingVars PROVE AskingFit'
<1>1. part' = part /\ part \in Parts
  BY OneMoves DEF AskingFit
<1>2. part = "desk" => Desk!Fit'
  BY <1>1, OneMoves, DeskGoes DEF AskingFit
<1>3. part = "gitlab" => GitLabDesk!Fit'
  BY <1>1, OneMoves, GitLabGoes DEF AskingFit
<1>4. part = "sharing" => SharingDesk!Fit'
  BY <1>1, OneMoves, SharingGoes DEF AskingFit
<1>5. part = "tools" => ToolsFit'
  BY <1>1, OneMoves, ToolsNext, ToolsRest DEF AskingFit
<1>6. TrustFit'
  BY <1>1, OneMoves, TrustGoes DEF AskingFit
<1> QED
  BY <1>1, <1>2, <1>3, <1>4, <1>5, <1>6 DEF AskingFit

-----------------------------------------------------------------------------
(* The theorems.                                                           *)

\* Nothing happens that needs a yes and has none, for any requests, invocations and scopes, for
\* any agents, policies, files, hosts and commands: an operation let through was approved or
\* covered by a yes for the run; an effect of a tool is allowed or was approved, and what is
\* written replaces what the person was shown (harness.js, workspace-tools.js, policy/engine.js).
THEOREM EffectsApproved == AskingSpec => []AsApproved
<1>1. AskingFit => AsApproved
  BY DesksMean DEF AskingFit, AsApproved, ToolsFit
<1> QED
  BY <1>1, AskingStarts, AskingGoes, PTL DEF AskingSpec

\* At the inbox who approves is obeyed, also under a yes that covers several requests, and there
\* and on GitLab no wait leaves a request behind (approval-inbox.js, approvals.js).
THEOREM DecisionsReach == ASSUME Door = "inbox" PROVE AskingSpec => []DecisionsHold
<1>1. AskingFit => DecisionsHold
  BY DesksMean DEF AskingFit, DecisionsHold
<1> QED
  BY <1>1, AskingStarts, AskingGoes, PTL DEF AskingSpec

\* For any number of projects and of commands that cross: what is trusted was agreed to and not
\* revoked since, and no command goes on with anything else (requireTrust, trustProject,
\* revokeTrust).
THEOREM TrustIsAgreed == AskingSpec => OnlyWhatWasAgreed
<1>1. AskingFit => \A p \in Trusting : trusted[p] # 0 => Guard!Agreed(p, trusted[p])
  BY DEF AskingFit, TrustFit, AgreedFit
<1>2. AskingFit => \A p \in withdrawn : trustCrossed \/ trusted[p] = 0
  BY DEF AskingFit, TrustFit, WithdrawnFit
<1>3. AskingFit /\ [AskingNext]_askingVars =>
        [\A c \in Asking : at[c] = "guard" /\ at'[c] = "idle" =>
            Guard!Agreed(Guard!Here(c), seen[c])]_(Guard!vars)
  <2> SUFFICES ASSUME AskingFit, [AskingNext]_askingVars,
                      NEW c \in Asking, at[c] = "guard", at'[c] = "idle"
               PROVE  Guard!Agreed(Guard!Here(c), seen[c])
    OBVIOUS
  <2>1. [Guard!Next]_(Guard!vars)
    BY OneMoves DEF AskingFit, trustVars, Guard!vars, Guard!file, Guard!command, Guard!history
  <2> QED
    BY <2>1, PassesAgreed DEF AskingFit
<1> QED
  BY <1>1, <1>2, <1>3, AskingStarts, AskingGoes, PTL
     DEF AskingSpec, OnlyWhatWasAgreed, Guard!OnlyWhatWasAgreed
=============================================================================
