------------------------- MODULE ConversationsProof --------------------------
(***************************************************************************)
(* Theorems about conversations: the workspace they share, for any number  *)
(* of processes, conversations, files and contents and any budget, the     *)
(* chat in a terminal, for any agents, providers and policy, and the chat  *)
(* on a page, for any number of messages, conversations and requests.      *)
(***************************************************************************)
EXTENDS MCConversations, SequenceTheorems, TLAPS

-----------------------------------------------------------------------------
(* Type correctness.                                                       *)

LEMMA EffectExtended ==
  ASSUME NEW e \in Effect, NEW c \in Contents
  PROVE  [e EXCEPT !.after = c, !.wrote = @ \cup {c}] \in Effect
<1>1. e.wrote \cup {c} \in SUBSET Contents
  BY DEF Effect
<1> QED
  BY <1>1, Zenon DEF Effect

\* A journal stays a journal when a write is recorded in it or an entry is taken out.
LEMMA JournalTyped ==
  ASSUME NEW entries \in Journals
  PROVE  /\ \A w \in Writes \ {NoWrite} : Recorded(entries, w) \in Journals
         /\ \A f \in Files : Restrict(entries, DOMAIN entries \ {f}) \in Journals
         /\ NoEffect \in Journals
         /\ DOMAIN entries \subseteq Files
         /\ \A f \in DOMAIN entries : entries[f] \in Effect
<1>1. PICK F \in SUBSET Files : entries \in [F -> Effect]
  BY DEF Journals
<1>2. ASSUME NEW w \in Writes \ {NoWrite} PROVE Recorded(entries, w) \in Journals
  <2>1. w \in [file : Files, found : Contents, new : Contents \ {Absent}]
    BY <1>2 DEF Writes
  <2>2. CASE w.file \in F /\ entries[w.file].after # w.found
    BY <1>1, <2>2 DEF Recorded
  <2>3. CASE w.file \in F /\ entries[w.file].after = w.found
    <3> DEFINE e == [entries[w.file] EXCEPT !.after = w.new, !.wrote = @ \cup {w.new}]
    <3>1. e \in Effect
      BY <1>1, <2>1, <2>3, EffectExtended
    <3>2. Recorded(entries, w) = [g \in F \cup {w.file} |-> IF g = w.file THEN e ELSE entries[g]]
      BY <1>1, <2>3, Zenon DEF Recorded
    <3>3. F \cup {w.file} \in SUBSET Files
      BY <2>1
    <3> HIDE DEF e
    <3>4. Recorded(entries, w) \in [F \cup {w.file} -> Effect]
      BY <1>1, <3>1, <3>2
    <3> QED
      BY <3>3, <3>4 DEF Journals
  <2>4. CASE w.file \notin F
    <3> DEFINE e == [before |-> w.found, after |-> w.new, first |-> w.found, wrote |-> {w.new}]
    <3>1. e \in Effect
      BY <2>1 DEF Effect
    <3>2. Recorded(entries, w) = [g \in F \cup {w.file} |-> IF g = w.file THEN e ELSE entries[g]]
      BY <1>1, <2>4, Zenon DEF Recorded
    <3>3. F \cup {w.file} \in SUBSET Files
      BY <2>1
    <3> HIDE DEF e
    <3>4. Recorded(entries, w) \in [F \cup {w.file} -> Effect]
      BY <1>1, <3>1, <3>2
    <3> QED
      BY <3>3, <3>4 DEF Journals
  <2> QED
    BY <2>2, <2>3, <2>4
<1>3. ASSUME NEW f \in Files PROVE Restrict(entries, DOMAIN entries \ {f}) \in Journals
  <2>1. Restrict(entries, DOMAIN entries \ {f}) \in [F \ {f} -> Effect]
    BY <1>1 DEF Restrict
  <2> QED
    BY <2>1 DEF Journals
<1>4. NoEffect \in [{} -> Effect]
  BY DEF NoEffect
<1>5. NoEffect \in Journals
  BY <1>4 DEF Journals
<1> QED
  BY <1>1, <1>2, <1>3, <1>5

LEMMA TurnTyped ==
  ASSUME TypeOK, NEW p \in Processes, NEW ok \in BOOLEAN, NEW snapshot \in BOOLEAN, NEW cost \in Nat,
         AppendTurn(p, ok, snapshot, cost)
  PROVE  /\ turns' \in [Sessions -> Seq(Turn)]
         /\ spent' \in [Sessions -> Nat]
         /\ summary' \in [Sessions -> Nat]
<1> DEFINE ended == [number |-> number[p], ok |-> ok, snapshot |-> snapshot,
                    journal |-> IF ok THEN journal[p] ELSE NoEffect, undone |-> FALSE]
<1>1. session[p] \in Sessions /\ number[p] \in Nat /\ journal[p] \in Journals
  BY DEF TypeOK
<1>2. ended.journal \in Journals
  BY <1>1, JournalTyped
<1>3. ended \in Turn
  BY <1>1, <1>2 DEF Turn
<1>4. turns' = [turns EXCEPT ![session[p]] = Append(@, ended)]
  BY DEF AppendTurn
<1> HIDE DEF ended
<1>5. Append(turns[session[p]], ended) \in Seq(Turn)
  BY <1>1, <1>3 DEF TypeOK
<1> QED
  BY <1>1, <1>4, <1>5 DEF AppendTurn, TypeOK

LEMMA ForeignTyped ==
  ASSUME TypeOK, NEW others, NEW F \in SUBSET Files, ForeignTo(others, F)
  PROVE  foreign' \in [Sessions -> SUBSET Files]
BY DEF ForeignTo, TypeOK

\* Every step keeps the type.
LEMMA TypeStep == TypeOK /\ [Next]_vars => TypeOK'
<1> SUFFICES ASSUME TypeOK, [Next]_vars PROVE TypeOK'
  OBVIOUS
<1> USE ChatAssumption DEF ChatAssumption
<1>1. ASSUME NEW p \in Processes, NEW s \in Sessions, NEW kind \in {"turn", "undo", "compact"}, Acquire(p, s, kind)
      PROVE TypeOK'
  BY <1>1 DEF TypeOK, Acquire, Goto, Working, convVars
<1>2. ASSUME NEW p \in Processes, Release(p) PROVE TypeOK'
  BY <1>2, JournalTyped DEF TypeOK, Release, Goto, Forget, convVars
<1>3. ASSUME NEW p \in Processes, Recover(p) PROVE TypeOK'
  BY <1>3 DEF TypeOK, Recover, convVars, opVars
<1>4. ASSUME NEW p \in Processes, ReadTurn(p) PROVE TypeOK'
  <2>1. NoEffect \in Journals
    BY JournalTyped DEF TypeOK
  <2>2. session[p] \in Sessions /\ turns[session[p]] \in Seq(Turn)
    BY DEF TypeOK
  <2>3. Len(turns[session[p]]) + 1 \in Nat
    BY <2>2
  <2>4. number \in [Processes -> Nat] /\ journal \in [Processes -> Journals]
    BY DEF TypeOK
  <2>5. number' \in [Processes -> Nat]
    <3>1. number' = number \/ number' = [number EXCEPT ![p] = Len(turns[session[p]]) + 1]
      BY <1>4, Zenon DEF ReadTurn
    <3> QED
      BY <2>3, <2>4, <3>1
  <2>6. journal' \in [Processes -> Journals]
    <3>1. journal' = journal \/ journal' = [journal EXCEPT ![p] = NoEffect]
      BY <1>4, Zenon DEF ReadTurn
    <3> QED
      BY <2>1, <2>4, <3>1
  <2> QED
    BY <1>4, <2>5, <2>6 DEF TypeOK, ReadTurn, Goto, Working, convVars
<1>5. ASSUME NEW p \in Processes, NEW f \in Files, NEW content \in Contents, OpenFile(p, f, content) PROVE TypeOK'
  <2>1. [file |-> f, found |-> files[f], new |-> content] \in Writes
    BY <1>5 DEF TypeOK, OpenFile, Writes
  <2> QED
    BY <1>5, <2>1 DEF TypeOK, OpenFile, convVars, opVars
<1>6. ASSUME NEW p \in Processes, WriteFile(p) PROVE TypeOK'
  <2>1. pending[p] \in Writes \ {NoWrite} /\ journal[p] \in Journals
    BY <1>6 DEF TypeOK, WriteFile
  <2>2. pending[p].file \in Files /\ pending[p].new \in Contents
    BY <2>1 DEF Writes
  <2>3. Recorded(journal[p], pending[p]) \in Journals
    BY <2>1, JournalTyped
  <2>4. NoWrite \in Writes
    BY DEF Writes
  <2>5. foreign' \in [Sessions -> SUBSET Files]
    BY <1>6, <2>2, ForeignTyped DEF WriteFile, TypeOK
  <2>6. journal' \in [Processes -> Journals]
    BY <1>6, <2>3 DEF WriteFile, TypeOK
  <2> QED
    BY <1>6, <2>2, <2>4, <2>5, <2>6 DEF TypeOK, WriteFile, convVars
<1>7. ASSUME NEW p \in Processes, NEW snapshot \in BOOLEAN, NEW cost \in 1..2, EndTurn(p, snapshot, cost) PROVE TypeOK'
  <2>0. AppendTurn(p, TRUE, snapshot, cost)
    BY <1>7, Zenon DEF EndTurn
  <2>c. cost \in Nat
    OBVIOUS
  <2>1. turns' \in [Sessions -> Seq(Turn)] /\ spent' \in [Sessions -> Nat] /\ summary' \in [Sessions -> Nat]
    BY <2>0, <2>c, TurnTyped, Zenon
  <2> QED
    BY <1>7, <2>1 DEF TypeOK, EndTurn, Goto, Working, opVars
<1>8. ASSUME NEW p \in Processes, NEW cost \in 1..2, FailTurn(p, cost) PROVE TypeOK'
  <2>0. AppendTurn(p, FALSE, FALSE, cost)
    BY <1>8, Zenon DEF FailTurn
  <2>c. cost \in Nat
    OBVIOUS
  <2>1. turns' \in [Sessions -> Seq(Turn)] /\ spent' \in [Sessions -> Nat] /\ summary' \in [Sessions -> Nat]
    BY <2>0, <2>c, TurnTyped, Zenon
  <2>2. DOMAIN journal[p] \in SUBSET Files
    BY JournalTyped DEF TypeOK
  <2>3. foreign' \in [Sessions -> SUBSET Files]
    BY <1>8, <2>2, ForeignTyped DEF FailTurn
  <2> QED
    BY <1>8, <2>1, <2>3 DEF TypeOK, FailTurn, Goto, Working, opVars, Writes
<1>9. ASSUME NEW p \in Processes, LateWrite(p) PROVE TypeOK'
  <2>1. late[p] \in Writes \ {NoWrite}
    BY <1>9 DEF TypeOK, LateWrite
  <2>2. late[p].file \in Files /\ late[p].new \in Contents
    BY <2>1 DEF Writes
  <2>3. foreign' \in [Sessions -> SUBSET Files]
    BY <1>9, <2>2, ForeignTyped DEF LateWrite, TypeOK
  <2> QED
    BY <1>9, <2>2, <2>3 DEF TypeOK, LateWrite, convVars, opVars, Writes
<1>10. ASSUME NEW p \in Processes, ReadUndo(p) PROVE TypeOK'
  <2>1. session[p] \in Sessions /\ turns[session[p]] \in Seq(Turn)
    BY DEF TypeOK
  <2>2. \A i \in DOMAIN turns[session[p]] : turns[session[p]][i] \in Turn
    BY <2>1
  <2>3. \A i \in DOMAIN turns[session[p]] :
           turns[session[p]][i].number \in Nat /\ turns[session[p]][i].journal \in Journals
    BY <2>2 DEF Turn
  <2> QED
    BY <1>10, <2>3 DEF TypeOK, ReadUndo, Goto, Working, convVars
<1>11. ASSUME NEW p \in Processes, NEW f \in Files, TakeBack(p, f) PROVE TypeOK'
  <2>1. journal[p] \in Journals
    BY DEF TypeOK
  <2>2. journal[p][f] \in Effect /\ Restrict(journal[p], DOMAIN journal[p] \ {f}) \in Journals
    BY <1>11, <2>1, JournalTyped DEF TakeBack
  <2>3. journal[p][f].before \in Contents
    BY <2>2 DEF Effect
  <2>4. foreign' \in [Sessions -> SUBSET Files]
    BY <1>11, ForeignTyped DEF TakeBack
  <2> QED
    BY <1>11, <2>2, <2>3, <2>4 DEF TypeOK, TakeBack, convVars
<1>12. ASSUME NEW p \in Processes, FinishUndo(p) PROVE TypeOK'
  <2> DEFINE s == session[p]
  <2>1. s \in Sessions /\ turns[s] \in Seq(Turn)
    BY DEF TypeOK
  <2>2. PICK marked : turns' = [turns EXCEPT ![s][marked].undone = TRUE]
    BY <1>12 DEF FinishUndo
  <2>3. [turns[s] EXCEPT ![marked].undone = TRUE] \in Seq(Turn)
    <3>1. ASSUME NEW i \in DOMAIN turns[s] PROVE [turns[s][i] EXCEPT !.undone = TRUE] \in Turn
      <4>1. turns[s][i] \in Turn
        BY <2>1
      <4> QED
        BY <4>1 DEF Turn
    <3> DEFINE u == [turns[s] EXCEPT ![marked].undone = TRUE]
               v == [turns[s][marked] EXCEPT !.undone = TRUE]
    <3>2. u = [i \in DOMAIN turns[s] |-> IF i = marked THEN v ELSE turns[s][i]]
      BY Zenon
    <3>a. DOMAIN turns[s] = 1..Len(turns[s])
      BY <2>1
    <3>3. \A i \in DOMAIN turns[s] : (IF i = marked THEN v ELSE turns[s][i]) \in Turn
      <4> HIDE DEF v
      <4>1. \A i \in DOMAIN turns[s] : turns[s][i] \in Turn
        BY <2>1
      <4>2. marked \in DOMAIN turns[s] => v \in Turn
        BY <3>1, Zenon DEF v
      <4> QED
        BY <4>1, <4>2, Zenon
    <3> HIDE DEF u
    <3>5. u \in [1..Len(turns[s]) -> Turn]
      <4> HIDE DEF v
      <4> QED
        BY <3>2, <3>a, <3>3
    <3>6. Len(turns[s]) \in Nat
      BY <2>1
    <3>7. u \in Seq(Turn)
      BY <3>5, <3>6, SeqDef, Zenon
    <3> QED
      BY <3>7 DEF u
  <2>4. turns' \in [Sessions -> Seq(Turn)]
    BY <2>1, <2>2, <2>3 DEF TypeOK
  <2> QED
    BY <1>12, <2>4 DEF TypeOK, FinishUndo, Goto, Working, opVars
<1>13. ASSUME NEW p \in Processes, ReadCompact(p) PROVE TypeOK'
  <2> DEFINE s == session[p]
  <2>1. s \in Sessions /\ turns[s] \in Seq(Turn)
    BY DEF TypeOK
  <2>2. \A i \in DOMAIN turns[s] : turns[s][i].number \in Nat
    <3>1. \A i \in DOMAIN turns[s] : turns[s][i] \in Turn
      BY <2>1
    <3> QED
      BY <3>1 DEF Turn
  <2>3. turns[s] # <<>> => Len(turns[s]) \in DOMAIN turns[s]
    BY <2>1
  <2>4. turns[s] = <<>> => DOMAIN turns[s] = {}
    OBVIOUS
  <2> QED
    BY <1>13, <2>1, <2>2, <2>3, <2>4 DEF TypeOK, ReadCompact, Goto, Working, convVars
<1>14. ASSUME NEW p \in Processes, NEW cost \in 1..2, FinishCompact(p, cost) PROVE TypeOK'
  <2>1. session[p] \in Sessions /\ number[p] \in Nat /\ spent[session[p]] + cost \in Nat
    BY <1>14 DEF TypeOK
  <2>2. summary \in [Sessions -> Nat] /\ spent \in [Sessions -> Nat]
    BY DEF TypeOK
  <2>3. summary' \in [Sessions -> Nat]
    <3>1. summary' = summary \/ summary' = [summary EXCEPT ![session[p]] = number[p]]
      BY <1>14, Zenon DEF FinishCompact
    <3> QED
      BY <2>1, <2>2, <3>1
  <2>4. spent' \in [Sessions -> Nat]
    <3>1. spent' = spent \/ spent' = [spent EXCEPT ![session[p]] = spent[session[p]] + cost]
      BY <1>14, Zenon DEF FinishCompact
    <3> QED
      BY <2>1, <2>2, <3>1
  <2> QED
    BY <1>14, <2>3, <2>4 DEF TypeOK, FinishCompact, Goto, Working, opVars
<1>15. ASSUME NEW f \in Files, NEW content \in Contents, Edit(f, content) PROVE TypeOK'
  <2>1. foreign' \in [Sessions -> SUBSET Files]
    BY <1>15, ForeignTyped DEF Edit
  <2> QED
    BY <1>15, <2>1 DEF TypeOK, Edit, convVars, opVars
<1>16. ASSUME NEW p \in Processes, Crash(p) PROVE TypeOK'
  <2>1. DOMAIN journal[p] \in SUBSET Files /\ NoEffect \in Journals
    BY JournalTyped DEF TypeOK
  <2>2. foreign' \in [Sessions -> SUBSET Files]
    BY <1>16, <2>1, ForeignTyped DEF Crash
  <2> QED
    BY <1>16, <2>1, <2>2 DEF TypeOK, Crash, Forget, Goto, convVars, Writes
<1>17. CASE UNCHANGED vars
  BY <1>17 DEF TypeOK, vars, convVars, opVars
<1> QED
  BY <1>1, <1>2, <1>3, <1>4, <1>5, <1>6, <1>7, <1>8, <1>9, <1>10, <1>11, <1>12, <1>13, <1>14, <1>15, <1>16, <1>17
     DEF Next, Operation

LEMMA InitTyped == Init => TypeOK
<1> SUFFICES ASSUME Init PROVE TypeOK
  OBVIOUS
<1>1. NoEffect \in [{} -> Effect]
  BY DEF NoEffect
<1>2. NoEffect \in Journals
  BY <1>1 DEF Journals
<1> QED
  BY <1>2 DEF Init, TypeOK, Writes, Working

\* TypeOK: every variable has its type in every reachable state.
THEOREM TypeCorrect == Spec => []TypeOK
BY InitTyped, TypeStep, PTL DEF Spec

-----------------------------------------------------------------------------
(* The lease.                                                              *)

\* Who works holds the lease, so nobody works beside him.
LEMMA OthersRest ==
  ASSUME LeaseKept, NEW p \in Processes, NEW q \in Processes, pc[p] \in Working, pc[q] \in Working
  PROVE  p = q
BY DEF LeaseKept

\* A step of a process that works, or dies, disturbs nobody's hold on the lease.
LEMMA MovedOn ==
  ASSUME TypeOK, LeaseKept, NEW p \in Processes, NEW where,
         pc[p] \in Working \/ where \notin Working, Goto(p, where), UNCHANGED lease
  PROVE  LeaseKept'
<1> SUFFICES ASSUME NEW q \in Processes, pc'[q] \in Working PROVE lease' = q
  BY DEF LeaseKept
<1>1. CASE q = p
  BY <1>1 DEF TypeOK, Goto, LeaseKept
<1>2. CASE q # p
  BY <1>2 DEF TypeOK, Goto, LeaseKept
<1> QED
  BY <1>1, <1>2

LEMMA LeaseStep == TypeOK /\ LeaseKept /\ [Next]_vars => LeaseKept'
<1> SUFFICES ASSUME TypeOK, LeaseKept, [Next]_vars PROVE LeaseKept'
  OBVIOUS
<1> USE ChatAssumption DEF ChatAssumption
<1>1. ASSUME NEW p \in Processes, NEW s \in Sessions, NEW kind \in {"turn", "undo", "compact"}, Acquire(p, s, kind)
      PROVE LeaseKept'
  \* The lease was free, so nobody worked.
  BY <1>1 DEF TypeOK, Acquire, Goto, LeaseKept
<1>2. ASSUME NEW p \in Processes, Release(p) PROVE LeaseKept'
  <2>1. pc[p] \in Working
    BY <1>2 DEF Release, Working
  <2>2. pc' = [pc EXCEPT ![p] = "idle"]
    BY <1>2 DEF Release, Goto
  <2> QED
    BY <2>1, <2>2, OthersRest DEF TypeOK, LeaseKept, Working
<1>3. ASSUME NEW p \in Processes, Recover(p) PROVE LeaseKept'
  \* The owner is gone, so nobody works.
  BY <1>3 DEF Recover, LeaseKept, Working
<1>4. ASSUME NEW p \in Processes, ReadTurn(p) PROVE LeaseKept'
  BY <1>4, MovedOn DEF ReadTurn, Working
<1>5. ASSUME NEW p \in Processes, NEW snapshot \in BOOLEAN, NEW cost \in 1..2, EndTurn(p, snapshot, cost) PROVE LeaseKept'
  BY <1>5, MovedOn DEF EndTurn, Working
<1>6. ASSUME NEW p \in Processes, NEW cost \in 1..2, FailTurn(p, cost) PROVE LeaseKept'
  BY <1>6, MovedOn DEF FailTurn, Working
<1>7. ASSUME NEW p \in Processes, ReadUndo(p) PROVE LeaseKept'
  BY <1>7, MovedOn DEF ReadUndo, Working
<1>8. ASSUME NEW p \in Processes, FinishUndo(p) PROVE LeaseKept'
  BY <1>8, MovedOn DEF FinishUndo, Working
<1>9. ASSUME NEW p \in Processes, ReadCompact(p) PROVE LeaseKept'
  BY <1>9, MovedOn DEF ReadCompact, Working
<1>10. ASSUME NEW p \in Processes, NEW cost \in 1..2, FinishCompact(p, cost) PROVE LeaseKept'
  BY <1>10, MovedOn DEF FinishCompact, Working
<1>11. ASSUME NEW p \in Processes, Crash(p) PROVE LeaseKept'
  BY <1>11, MovedOn DEF Crash, Working
<1>12. CASE UNCHANGED <<lease, pc>>
  BY <1>12 DEF LeaseKept
<1>13. \A p \in Processes : WriteFile(p) \/ LateWrite(p) => UNCHANGED <<lease, pc>>
  BY DEF WriteFile, LateWrite, opVars, convVars
<1>14. \A p \in Processes, f \in Files : TakeBack(p, f) => UNCHANGED <<lease, pc>>
  BY DEF TakeBack
<1>15. \A p \in Processes, f \in Files, content \in Contents :
          OpenFile(p, f, content) \/ Edit(f, content) => UNCHANGED <<lease, pc>>
  BY DEF OpenFile, Edit
<1>16. UNCHANGED vars => UNCHANGED <<lease, pc>>
  BY DEF vars
<1> QED
  BY <1>1, <1>2, <1>3, <1>4, <1>5, <1>6, <1>7, <1>8, <1>9, <1>10, <1>11, <1>12, <1>13, <1>14, <1>15, <1>16
     DEF Next, Operation, Edit

\* LeaseKept: a chat operation or a run owns the workspace's lease from its first read to
\* its last write, whoever else begins, ends, dies or is recovered meanwhile.
THEOREM LeaseHeld == Spec => []LeaseKept
<1>1. Init => LeaseKept
  BY DEF Init, LeaseKept, Working
<1> QED
  BY <1>1, LeaseStep, TypeCorrect, PTL DEF Spec
-----------------------------------------------------------------------------
(* What an operation read still fits the conversation when it writes.      *)

Fits(p) ==
  LET s == session[p] IN
  /\ pc[p] = "writing" => number[p] = Len(turns[s]) + 1 /\ spent[s] < Limit
  /\ pc[p] = "summarising" => spent[s] < Limit
  /\ pc[p] = "undoing" => Newest(s, number[p])

OpFits == \A p \in Processes : Fits(p)

Conversations == TypeOK /\ LeaseKept /\ TurnsInOrder /\ BudgetBound /\ OpFits

\* A process that works is alone, so only what it read itself can stop fitting.
LEMMA FitsOn ==
  ASSUME TypeOK, LeaseKept, OpFits, NEW p \in Processes, NEW where, pc[p] \in Working, Goto(p, where),
         UNCHANGED session, where \in {"leaving", "idle", "gone"} \/ Fits(p)'
  PROVE  OpFits'
<1> SUFFICES ASSUME NEW q \in Processes PROVE Fits(q)'
  BY DEF OpFits
<1>1. CASE q = p
  BY <1>1 DEF TypeOK, Goto, Fits
<1>2. CASE q # p
  <2>1. pc'[q] = pc[q] /\ pc[q] \notin Working
    BY <1>2, OthersRest DEF TypeOK, Goto
  <2> QED
    BY <2>1 DEF Fits, Working
<1> QED
  BY <1>1, <1>2

\* A line appended under the next number keeps the order, and the budget's one run.
LEMMA AppendedFits ==
  ASSUME Conversations, NEW p \in Processes, NEW ok \in BOOLEAN, NEW snapshot \in BOOLEAN, NEW cost \in 1..2,
         pc[p] = "writing", AppendTurn(p, ok, snapshot, cost)
  PROVE  TurnsInOrder' /\ BudgetBound'
<1> USE ChatAssumption DEF ChatAssumption
<1> DEFINE s == session[p]
           ended == [number |-> number[p], ok |-> ok, snapshot |-> snapshot,
                    journal |-> IF ok THEN journal[p] ELSE NoEffect, undone |-> FALSE]
<1>1. s \in Sessions /\ turns[s] \in Seq(Turn) /\ spent[s] \in Nat
  BY DEF Conversations, TypeOK
<1>2. number[p] = Len(turns[s]) + 1 /\ spent[s] < Limit
  BY DEF Conversations, OpFits, Fits
<1>3. turns' = [turns EXCEPT ![s] = Append(turns[s], ended)] /\ ended.number = Len(turns[s]) + 1
  BY <1>2 DEF AppendTurn
<1>4. spent' = [spent EXCEPT ![s] = spent[s] + cost]
  BY DEF AppendTurn
<1> HIDE DEF ended
<1>5. TurnsInOrder'
  <2> SUFFICES ASSUME NEW r \in Sessions, NEW i \in DOMAIN turns'[r] PROVE turns'[r][i].number = i
    BY DEF TurnsInOrder
  <2>1. CASE r # s
    BY <1>1, <1>3, <2>1 DEF Conversations, TypeOK, TurnsInOrder
  <2>2. CASE r = s
    <3>1. turns'[r] = Append(turns[s], ended)
      BY <1>1, <1>3, <2>2 DEF Conversations, TypeOK
    <3>2. CASE i = Len(turns[s]) + 1
      BY <1>1, <1>3, <3>1, <3>2
    <3>3. CASE i \in DOMAIN turns[s]
      BY <1>1, <3>1, <3>3 DEF Conversations, TurnsInOrder
    <3> QED
      BY <1>1, <3>1, <3>2, <3>3
  <2> QED
    BY <2>1, <2>2
<1>6. BudgetBound'
  BY <1>1, <1>2, <1>4 DEF Conversations, TypeOK, BudgetBound
<1> QED
  BY <1>5, <1>6

\* A step that leaves the conversations alone and moves nobody into a run, an undo or a
\* summary keeps the rest of the invariant.
LEMMA SameConversations ==
  ASSUME Conversations, UNCHANGED convVars, UNCHANGED <<session, number>>, UNCHANGED pc
  PROVE  TurnsInOrder' /\ BudgetBound' /\ OpFits'
BY DEF Conversations, convVars, TurnsInOrder, BudgetBound, OpFits, Fits, Newest, Undoable

LEMMA ConversationsStep ==
  Conversations /\ [Next]_vars => TurnsInOrder' /\ BudgetBound' /\ OpFits'
<1> SUFFICES ASSUME Conversations, [Next]_vars PROVE TurnsInOrder' /\ BudgetBound' /\ OpFits'
  OBVIOUS
<1> USE ChatAssumption DEF ChatAssumption
<1>a. TypeOK /\ LeaseKept /\ OpFits
  BY DEF Conversations
<1>b. UNCHANGED <<turns, spent>> => TurnsInOrder' /\ BudgetBound'
  BY DEF Conversations, TurnsInOrder, BudgetBound
<1>1. ASSUME NEW p \in Processes, NEW s \in Sessions, NEW kind \in {"turn", "undo", "compact"}, Acquire(p, s, kind)
      PROVE TurnsInOrder' /\ BudgetBound' /\ OpFits'
  <2>1. \A q \in Processes : pc[q] \notin Working
    BY <1>1, <1>a DEF Acquire, LeaseKept
  <2>2. \A q \in Processes : pc'[q] \notin {"writing", "summarising", "undoing"}
    BY <1>1, <1>a, <2>1 DEF Acquire, Goto, TypeOK, Working
  <2> QED
    BY <1>1, <1>b, <2>2 DEF Acquire, convVars, OpFits, Fits
<1>2. ASSUME NEW p \in Processes, Release(p) PROVE TurnsInOrder' /\ BudgetBound' /\ OpFits'
  BY <1>2, <1>a, <1>b, FitsOn DEF Release, Forget, convVars, Working
<1>3. ASSUME NEW p \in Processes, Crash(p) PROVE TurnsInOrder' /\ BudgetBound' /\ OpFits'
  <2>1. CASE pc[p] \in Working
    BY <1>3, <1>a, <1>b, <2>1, FitsOn DEF Crash, Forget, convVars
  <2>2. CASE pc[p] \notin Working
    <3> SUFFICES ASSUME NEW q \in Processes PROVE Fits(q)'
      BY <1>3, <1>b DEF Crash, convVars, OpFits
    <3>1. CASE q = p
      BY <1>3, <1>a, <3>1 DEF Crash, Goto, TypeOK, Fits
    <3>2. CASE q # p
      BY <1>3, <1>a, <3>2 DEF Crash, Goto, Forget, TypeOK, OpFits, Fits, convVars, Newest, Undoable
    <3> QED
      BY <3>1, <3>2
  <2> QED
    BY <2>1, <2>2
<1>4. ASSUME NEW p \in Processes, ReadTurn(p) PROVE TurnsInOrder' /\ BudgetBound' /\ OpFits'
  <2>1. CASE Goto(p, "leaving")
    BY <1>4, <1>a, <1>b, <2>1, FitsOn DEF ReadTurn, convVars, Working
  <2>2. CASE /\ spent[session[p]] < Limit
             /\ number' = [number EXCEPT ![p] = Len(turns[session[p]]) + 1]
             /\ Goto(p, "writing")
    <3>1. UNCHANGED <<session, convVars>> /\ pc[p] \in Working
      BY <1>4 DEF ReadTurn, Working
    <3>2. Fits(p)'
      BY <1>a, <2>2, <3>1 DEF Fits, convVars, Goto, TypeOK
    <3> QED
      BY <1>a, <1>b, <2>2, <3>1, <3>2, FitsOn DEF convVars
  <2> QED
    BY <1>4, <2>1, <2>2 DEF ReadTurn
<1>5. ASSUME NEW p \in Processes, NEW snapshot \in BOOLEAN, NEW cost \in 1..2, EndTurn(p, snapshot, cost)
      PROVE TurnsInOrder' /\ BudgetBound' /\ OpFits'
  <2>1. AppendTurn(p, TRUE, snapshot, cost) /\ pc[p] = "writing"
    BY <1>5, Zenon DEF EndTurn
  <2>2. TurnsInOrder' /\ BudgetBound'
    BY <2>1, AppendedFits, Zenon
  <2> QED
    BY <1>5, <1>a, <2>2, FitsOn DEF EndTurn, opVars, Working
<1>6. ASSUME NEW p \in Processes, NEW cost \in 1..2, FailTurn(p, cost)
      PROVE TurnsInOrder' /\ BudgetBound' /\ OpFits'
  <2>1. AppendTurn(p, FALSE, FALSE, cost) /\ pc[p] = "writing"
    BY <1>6, Zenon DEF FailTurn
  <2>2. TurnsInOrder' /\ BudgetBound'
    BY <2>1, AppendedFits, Zenon
  <2> QED
    BY <1>6, <1>a, <2>2, FitsOn DEF FailTurn, opVars, Working
<1>7. ASSUME NEW p \in Processes, ReadUndo(p) PROVE TurnsInOrder' /\ BudgetBound' /\ OpFits'
  <2>1. UNCHANGED <<session, convVars>> /\ pc[p] \in Working
    BY <1>7 DEF ReadUndo, Working
  <2>2. CASE Goto(p, "leaving")
    BY <1>a, <1>b, <2>1, <2>2, FitsOn DEF convVars
  <2>3. ASSUME NEW i \in DOMAIN turns[session[p]], Newest(session[p], i), Goto(p, "undoing"),
               number' = [number EXCEPT ![p] = turns[session[p]][i].number]
        PROVE  TurnsInOrder' /\ BudgetBound' /\ OpFits'
    <3>1. turns[session[p]][i].number = i
      BY <1>a, <2>3 DEF Conversations, TurnsInOrder, TypeOK
    <3>2. number'[p] = i /\ pc'[p] = "undoing"
      BY <1>a, <2>3, <3>1 DEF TypeOK, Goto
    <3>3. Fits(p)'
      BY <2>1, <2>3, <3>2 DEF Fits, convVars, Newest, Undoable
    <3> QED
      BY <1>a, <1>b, <2>1, <2>3, <3>3, FitsOn DEF convVars
  <2> QED
    BY <1>7, <2>2, <2>3 DEF ReadUndo
<1>8. ASSUME NEW p \in Processes, FinishUndo(p) PROVE TurnsInOrder' /\ BudgetBound' /\ OpFits'
  <2> DEFINE s == session[p]
  <2>1. s \in Sessions /\ turns[s] \in Seq(Turn)
    BY <1>a DEF TypeOK
  <2>2. PICK marked : turns' = [turns EXCEPT ![s][marked].undone = TRUE]
    BY <1>8 DEF FinishUndo
  <2>3. TurnsInOrder'
    <3> SUFFICES ASSUME NEW r \in Sessions, NEW i \in DOMAIN turns'[r] PROVE turns'[r][i].number = i
      BY DEF TurnsInOrder
    <3>1. CASE r # s
      BY <1>a, <2>1, <2>2, <3>1 DEF Conversations, TypeOK, TurnsInOrder
    <3>2. CASE r = s
      <4> DEFINE v == [turns[s][marked] EXCEPT !.undone = TRUE]
      <4>1. turns'[r] = [j \in DOMAIN turns[s] |-> IF j = marked THEN v ELSE turns[s][j]]
        <5>1. turns \in [Sessions -> Seq(Turn)]
          BY <1>a DEF TypeOK
        <5>2. turns'[r] = [turns[s] EXCEPT ![marked].undone = TRUE]
          BY <2>1, <2>2, <3>2, <5>1, Zenon
        <5> QED
          BY <5>2, Zenon
      <4>2. i \in DOMAIN turns[s] /\ turns[s][i].number = i
        BY <2>1, <4>1 DEF Conversations, TurnsInOrder
      <4>3. turns[s][i] \in Turn
        BY <2>1, <4>2
      <4>4. i = marked => v.number = i
        BY <4>2, <4>3 DEF Turn
      <4> HIDE DEF v
      <4> QED
        BY <4>1, <4>2, <4>4
    <3> QED
      BY <3>1, <3>2
  <2>4. BudgetBound'
    BY <1>8 DEF FinishUndo, Conversations, BudgetBound
  <2> QED
    BY <1>8, <1>a, <2>3, <2>4, FitsOn DEF FinishUndo, opVars, Working
<1>9. ASSUME NEW p \in Processes, ReadCompact(p) PROVE TurnsInOrder' /\ BudgetBound' /\ OpFits'
  <2>1. UNCHANGED <<session, convVars>> /\ pc[p] \in Working
    BY <1>9 DEF ReadCompact, Working
  <2>2. CASE Goto(p, "leaving")
    BY <1>a, <1>b, <2>1, <2>2, FitsOn DEF convVars
  <2>3. CASE spent[session[p]] < Limit /\ Goto(p, "summarising")
    <3>1. Fits(p)'
      BY <1>a, <2>1, <2>3 DEF Fits, convVars, Goto, TypeOK
    <3> QED
      BY <1>a, <1>b, <2>1, <2>3, <3>1, FitsOn DEF convVars
  <2>4. session[p] \in Sessions /\ spent[session[p]] \in Nat
    BY <1>a DEF TypeOK
  <2> QED
    BY <1>9, <2>2, <2>3, <2>4 DEF ReadCompact
<1>10. ASSUME NEW p \in Processes, NEW cost \in 1..2, FinishCompact(p, cost)
       PROVE TurnsInOrder' /\ BudgetBound' /\ OpFits'
  <2>1. UNCHANGED <<session, turns>> /\ pc[p] \in Working /\ Goto(p, "leaving")
    BY <1>10 DEF FinishCompact, opVars, Working
  <2>2. session[p] \in Sessions /\ spent[session[p]] \in Nat /\ spent[session[p]] < Limit
    BY <1>10, <1>a DEF FinishCompact, TypeOK, OpFits, Fits
  <2>3. spent' = spent \/ spent' = [spent EXCEPT ![session[p]] = spent[session[p]] + cost]
    BY <1>10, Zenon DEF FinishCompact
  <2>4. BudgetBound'
    <3> SUFFICES ASSUME NEW r \in Sessions PROVE spent'[r] <= Limit + 1
      BY DEF BudgetBound
    <3>1. spent \in [Sessions -> Nat] /\ spent[r] <= Limit + 1
      BY <1>a DEF Conversations, TypeOK, BudgetBound
    <3>2. CASE spent' = spent
      BY <3>1, <3>2
    <3>3. CASE spent' = [spent EXCEPT ![session[p]] = spent[session[p]] + cost]
      BY <2>2, <3>1, <3>3
    <3> QED
      BY <2>3, <3>2, <3>3
  <2>5. TurnsInOrder'
    BY <2>1 DEF Conversations, TurnsInOrder
  <2> QED
    BY <1>a, <2>1, <2>4, <2>5, FitsOn
<1>11. ASSUME NEW p \in Processes, WriteFile(p) \/ LateWrite(p) \/ Recover(p)
       PROVE TurnsInOrder' /\ BudgetBound' /\ OpFits'
  BY <1>11, SameConversations DEF WriteFile, LateWrite, Recover, opVars
<1>12. ASSUME NEW p \in Processes, NEW f \in Files, TakeBack(p, f)
       PROVE TurnsInOrder' /\ BudgetBound' /\ OpFits'
  BY <1>12, SameConversations DEF TakeBack
<1>13. ASSUME NEW p \in Processes, NEW f \in Files, NEW content \in Contents, OpenFile(p, f, content)
       PROVE TurnsInOrder' /\ BudgetBound' /\ OpFits'
  BY <1>13, SameConversations DEF OpenFile, opVars
<1>14. ASSUME NEW f \in Files, NEW content \in Contents, Edit(f, content)
       PROVE TurnsInOrder' /\ BudgetBound' /\ OpFits'
  BY <1>14, SameConversations DEF Edit, opVars
<1>15. CASE UNCHANGED vars
  BY <1>15, SameConversations DEF vars, opVars
<1> QED
  BY <1>1, <1>2, <1>3, <1>4, <1>5, <1>6, <1>7, <1>8, <1>9, <1>10, <1>11, <1>12, <1>13, <1>14, <1>15
     DEF Next, Operation

LEMMA ConversationsAlways == Spec => []Conversations
<1>1. Init => TurnsInOrder /\ BudgetBound /\ OpFits
  BY ChatAssumption DEF Init, TurnsInOrder, BudgetBound, OpFits, Fits, ChatAssumption
<1>2. Init => Conversations
  BY <1>1, InitTyped DEF Conversations, Init, LeaseKept, Working
<1>3. Conversations /\ [Next]_vars => Conversations'
  BY TypeStep, LeaseStep, ConversationsStep DEF Conversations
<1> QED
  BY <1>2, <1>3, PTL DEF Spec

\* TurnsInOrder: turn n is the n-th turn, whatever processes, crashes and stops came between
\* the reading of the conversation and the appending of its line.
THEOREM NumberedInOrder == Spec => []TurnsInOrder
BY ConversationsAlways, PTL DEF Conversations

\* BudgetBound: a conversation exceeds its token budget by one run at most.
THEOREM WithinBudget == Spec => []BudgetBound
BY ConversationsAlways, PTL DEF Conversations

\* NewestFirst: an undo that ends marks a turn that was not undone, and every later
\* successful turn was undone before it, however much time and how many others lay
\* between the choice of the turn and the mark.
THEOREM UndoneInOrder == Spec => NewestFirst
<1>1. Conversations /\ [Next]_vars =>
        [\A p \in Processes : FinishUndo(p) =>
           LET done == turns[session[p]] IN
           /\ ~done[number[p]].undone
           /\ \A j \in DOMAIN done : j > number[p] /\ done[j].ok => done[j].undone]_vars
  <2> SUFFICES ASSUME Conversations, NEW p \in Processes, FinishUndo(p)
               PROVE  /\ ~turns[session[p]][number[p]].undone
                      /\ \A j \in DOMAIN turns[session[p]] :
                           j > number[p] /\ turns[session[p]][j].ok => turns[session[p]][j].undone
    BY Zenon
  <2>1. Newest(session[p], number[p])
    BY DEF Conversations, OpFits, Fits, FinishUndo
  <2>2. ~turns[session[p]][number[p]].undone
    BY <2>1 DEF Newest, Undoable
  <2>3. ASSUME NEW j \in DOMAIN turns[session[p]], j > number[p], turns[session[p]][j].ok,
               ~turns[session[p]][j].undone
        PROVE  FALSE
    <3>1. j \in Undoable(session[p])
      BY <2>3 DEF Undoable
    <3>2. j <= number[p]
      BY <2>1, <3>1 DEF Newest
    <3>3. j \in Nat /\ number[p] \in Nat
      BY DEF Conversations, TypeOK
    <3> QED
      BY <2>3, <3>2, <3>3
  <2> QED
    BY <2>2, <2>3
<1> QED
  BY <1>1, ConversationsAlways, PTL DEF Spec, NewestFirst

-----------------------------------------------------------------------------
(* What a journal says of its turn.                                        *)

\* Its entries keep the content the turn found, and end with one the turn wrote.
Truthful(entries) ==
  \A f \in DOMAIN entries : entries[f].before = entries[f].first /\ entries[f].after \in entries[f].wrote

Sound ==
  /\ \A p \in Processes : Truthful(journal[p])
  /\ \A s \in Sessions : \A i \in DOMAIN turns[s] : Truthful(turns[s][i].journal)

LEMMA RecordedTruthful ==
  ASSUME NEW entries \in Journals, NEW w \in Writes \ {NoWrite}, Truthful(entries)
  PROVE  Truthful(Recorded(entries, w))
<1>1. w \in [file : Files, found : Contents, new : Contents \ {Absent}]
  BY DEF Writes
<1>2. CASE w.file \in DOMAIN entries /\ entries[w.file].after # w.found
  BY <1>2 DEF Recorded
<1>3. CASE w.file \in DOMAIN entries /\ entries[w.file].after = w.found
  <2> DEFINE e == [entries[w.file] EXCEPT !.after = w.new, !.wrote = @ \cup {w.new}]
  <2>1. entries[w.file] \in Effect
    BY <1>3, JournalTyped
  <2>2. e.before = entries[w.file].before /\ e.first = entries[w.file].first
    BY <2>1, Zenon DEF Effect
  <2>3. e.after = w.new /\ e.wrote = entries[w.file].wrote \cup {w.new}
    BY <2>1, Zenon DEF Effect
  <2>4. Recorded(entries, w) = [g \in DOMAIN entries \cup {w.file} |-> IF g = w.file THEN e ELSE entries[g]]
    BY <1>3, Zenon DEF Recorded
  <2> HIDE DEF e
  <2> QED
    BY <1>3, <2>2, <2>3, <2>4 DEF Truthful
<1>4. CASE w.file \notin DOMAIN entries
  <2> DEFINE e == [before |-> w.found, after |-> w.new, first |-> w.found, wrote |-> {w.new}]
  <2>1. Recorded(entries, w) = [g \in DOMAIN entries \cup {w.file} |-> IF g = w.file THEN e ELSE entries[g]]
    BY <1>4, Zenon DEF Recorded
  <2>2. e.before = e.first /\ e.after \in e.wrote
    OBVIOUS
  <2> HIDE DEF e
  <2> QED
    BY <2>1, <2>2 DEF Truthful
<1> QED
  BY <1>2, <1>3, <1>4

LEMMA FewerTruthful ==
  ASSUME NEW entries, NEW f, Truthful(entries)
  PROVE  Truthful(Restrict(entries, DOMAIN entries \ {f}))
BY DEF Truthful, Restrict

LEMMA NothingTruthful == Truthful(NoEffect)
BY DEF Truthful, NoEffect

LEMMA AppendedSound ==
  ASSUME TypeOK, Sound, NEW p \in Processes, NEW ok \in BOOLEAN, NEW snapshot \in BOOLEAN, NEW cost,
         AppendTurn(p, ok, snapshot, cost), UNCHANGED journal
  PROVE  Sound'
<1> DEFINE s == session[p]
           ended == [number |-> number[p], ok |-> ok, snapshot |-> snapshot,
                    journal |-> IF ok THEN journal[p] ELSE NoEffect, undone |-> FALSE]
<1>1. s \in Sessions /\ turns[s] \in Seq(Turn)
  BY DEF TypeOK
<1>2. Truthful(ended.journal)
  BY NothingTruthful DEF Sound
<1>3. turns' = [turns EXCEPT ![s] = Append(turns[s], ended)]
  BY DEF AppendTurn
<1> HIDE DEF ended
<1> SUFFICES ASSUME NEW r \in Sessions, NEW i \in DOMAIN turns'[r] PROVE Truthful(turns'[r][i].journal)
  BY DEF Sound
<1>4. CASE r # s
  BY <1>1, <1>3, <1>4 DEF TypeOK, Sound
<1>5. CASE r = s
  <2>1. turns'[r] = Append(turns[s], ended)
    BY <1>1, <1>3, <1>5 DEF TypeOK
  <2>2. CASE i = Len(turns[s]) + 1
    BY <1>1, <1>2, <2>1, <2>2
  <2>3. CASE i \in DOMAIN turns[s]
    BY <1>1, <2>1, <2>3 DEF Sound
  <2> QED
    BY <1>1, <2>1, <2>2, <2>3
<1> QED
  BY <1>4, <1>5

LEMMA SoundStep == TypeOK /\ Sound /\ [Next]_vars => Sound'
<1> SUFFICES ASSUME TypeOK, Sound, [Next]_vars PROVE Sound'
  OBVIOUS
<1>a. UNCHANGED <<turns, journal>> => Sound'
  BY DEF Sound
<1>b. ASSUME NEW p \in Processes, NEW entries, Truthful(entries), UNCHANGED turns,
             journal' = [journal EXCEPT ![p] = entries]
      PROVE  Sound'
  <2>1. ASSUME NEW q \in Processes PROVE Truthful(journal'[q])
    BY <1>b DEF TypeOK, Sound
  <2> QED
    BY <1>b, <2>1 DEF Sound
<1>1. ASSUME NEW p \in Processes, Forget(p), UNCHANGED turns PROVE Sound'
  BY <1>1, <1>b, NothingTruthful DEF Forget
<1>2. ASSUME NEW p \in Processes, ReadTurn(p) PROVE Sound'
  <2>1. UNCHANGED journal \/ journal' = [journal EXCEPT ![p] = NoEffect]
    BY <1>2, Zenon DEF ReadTurn
  <2> QED
    BY <1>2, <1>a, <1>b, <2>1, NothingTruthful DEF ReadTurn, convVars
<1>3. ASSUME NEW p \in Processes, WriteFile(p) PROVE Sound'
  <2>1. pending[p] \in Writes \ {NoWrite} /\ journal[p] \in Journals /\ Truthful(journal[p])
    BY <1>3 DEF TypeOK, WriteFile, Sound
  <2>2. Truthful(Recorded(journal[p], pending[p]))
    BY <2>1, RecordedTruthful
  <2>3. UNCHANGED journal \/ journal' = [journal EXCEPT ![p] = Recorded(journal[p], pending[p])]
    BY <1>3, Zenon DEF WriteFile
  <2> QED
    BY <1>3, <1>a, <1>b, <2>2, <2>3 DEF WriteFile, convVars
<1>4. ASSUME NEW p \in Processes, NEW snapshot \in BOOLEAN, NEW cost \in 1..2, EndTurn(p, snapshot, cost) PROVE Sound'
  <2>1. AppendTurn(p, TRUE, snapshot, cost) /\ UNCHANGED journal
    BY <1>4, Zenon DEF EndTurn, opVars
  <2> QED
    BY <2>1, AppendedSound, Zenon
<1>5. ASSUME NEW p \in Processes, NEW cost \in 1..2, FailTurn(p, cost) PROVE Sound'
  <2>1. AppendTurn(p, FALSE, FALSE, cost) /\ UNCHANGED journal
    BY <1>5, Zenon DEF FailTurn, opVars
  <2> QED
    BY <2>1, AppendedSound, Zenon
<1>6. ASSUME NEW p \in Processes, ReadUndo(p) PROVE Sound'
  <2>1. CASE UNCHANGED journal
    BY <1>6, <1>a, <2>1 DEF ReadUndo, convVars
  <2>2. ASSUME NEW i \in DOMAIN turns[session[p]],
               journal' = [journal EXCEPT ![p] = turns[session[p]][i].journal]
        PROVE  Sound'
    <3>1. Truthful(turns[session[p]][i].journal)
      BY DEF TypeOK, Sound
    <3> QED
      BY <1>6, <1>b, <2>2, <3>1 DEF ReadUndo, convVars
  <2> QED
    BY <1>6, <2>1, <2>2 DEF ReadUndo
<1>7. ASSUME NEW p \in Processes, NEW f \in Files, TakeBack(p, f) PROVE Sound'
  <2>1. Truthful(Restrict(journal[p], DOMAIN journal[p] \ {f}))
    BY FewerTruthful DEF Sound
  <2> QED
    BY <1>7, <1>b, <2>1 DEF TakeBack, convVars
<1>8. ASSUME NEW p \in Processes, FinishUndo(p) PROVE Sound'
  <2> DEFINE s == session[p]
  <2>1. s \in Sessions /\ turns \in [Sessions -> Seq(Turn)]
    BY DEF TypeOK
  <2>2. PICK marked : turns' = [turns EXCEPT ![s][marked].undone = TRUE]
    BY <1>8 DEF FinishUndo
  <2> SUFFICES ASSUME NEW r \in Sessions, NEW i \in DOMAIN turns'[r] PROVE Truthful(turns'[r][i].journal)
    BY <1>8 DEF FinishUndo, opVars, Sound
  <2>3. CASE r # s
    BY <2>1, <2>2, <2>3 DEF Sound
  <2>4. CASE r = s
    <3> DEFINE v == [turns[s][marked] EXCEPT !.undone = TRUE]
    <3>1. turns'[r] = [turns[s] EXCEPT ![marked].undone = TRUE]
      BY <2>1, <2>2, <2>4, Zenon
    <3>2. turns'[r] = [j \in DOMAIN turns[s] |-> IF j = marked THEN v ELSE turns[s][j]]
      BY <3>1, Zenon
    <3>3. i \in DOMAIN turns[s]
      BY <3>2
    <3>4. turns[s][i] \in Turn /\ Truthful(turns[s][i].journal)
      BY <2>1, <3>3 DEF Sound
    <3>5. i = marked => v.journal = turns[s][i].journal
      BY <3>4, Zenon DEF Turn
    <3> HIDE DEF v
    <3>6. turns'[r][i].journal = turns[s][i].journal
      BY <3>2, <3>3, <3>5
    <3> QED
      BY <3>4, <3>6
  <2> QED
    BY <2>3, <2>4
<1>9. ASSUME NEW p \in Processes, ReadCompact(p) \/ LateWrite(p) \/ Recover(p) PROVE Sound'
  BY <1>9, <1>a DEF ReadCompact, LateWrite, Recover, convVars, opVars
<1>10. ASSUME NEW p \in Processes, NEW cost \in 1..2, FinishCompact(p, cost) PROVE Sound'
  BY <1>10, <1>a DEF FinishCompact, opVars
<1>11. ASSUME NEW p \in Processes, NEW s \in Sessions, NEW kind \in {"turn", "undo", "compact"}, Acquire(p, s, kind)
       PROVE Sound'
  BY <1>11, <1>a DEF Acquire, convVars
<1>12. ASSUME NEW p \in Processes, Release(p) \/ Crash(p) PROVE Sound'
  BY <1>12, <1>1 DEF Release, Crash, convVars
<1>13. ASSUME NEW f \in Files, NEW content \in Contents,
              Edit(f, content) \/ \E p \in Processes : OpenFile(p, f, content)
       PROVE Sound'
  BY <1>13, <1>a DEF Edit, OpenFile, convVars, opVars
<1>14. CASE UNCHANGED vars
  BY <1>14, <1>a DEF vars, convVars, opVars
<1> QED
  BY <1>2, <1>3, <1>4, <1>5, <1>6, <1>7, <1>8, <1>9, <1>10, <1>11, <1>12, <1>13, <1>14
     DEF Next, Operation

\* UndoSpares: an undo only overwrites a content its turn wrote, and puts back the content
\* its turn found: what anybody wrote in between is not lost to it.
THEOREM SparesOthers == Spec => UndoSpares
<1>1. Init => Sound
  BY NothingTruthful DEF Init, Sound
<1>2. TypeOK /\ Sound /\ [Next]_vars => Sound'
  BY SoundStep
<1>3. TypeOK /\ Sound /\ [Next]_vars =>
        [\A p \in Processes, f \in Files : TakeBack(p, f) /\ files'[f] # files[f] =>
           files[f] \in journal[p][f].wrote /\ files'[f] = journal[p][f].first]_vars
  <2> SUFFICES ASSUME TypeOK, Sound, NEW p \in Processes, NEW f \in Files,
                      TakeBack(p, f), files'[f] # files[f]
               PROVE  files[f] \in journal[p][f].wrote /\ files'[f] = journal[p][f].first
    BY Zenon
  <2>1. f \in DOMAIN journal[p] /\ Truthful(journal[p])
    BY DEF TakeBack, Sound
  <2>2. files[f] = journal[p][f].after /\ files'[f] = journal[p][f].before
    BY DEF TakeBack, TypeOK
  <2> QED
    BY <2>1, <2>2 DEF Truthful
<1> QED
  BY <1>1, <1>2, <1>3, TypeCorrect, PTL DEF Spec, UndoSpares
-----------------------------------------------------------------------------
(* What an undo finds. A file that nobody else has changed stands where    *)
(* the newest turn that wrote it, and was not taken back, found or left    *)
(* it; and so does each such turn upon the one before.                     *)

Live(s, f) == {i \in Undoable(s) : f \in DOMAIN turns[s][i].journal}

Ends(s, i, f) == {turns[s][i].journal[f].first, turns[s][i].journal[f].after}

Last(s, f, i) == i \in Live(s, f) /\ \A k \in Live(s, f) : k <= i

Follows(s, f, i, j) == i < j /\ \A k \in Live(s, f) : k <= i \/ j <= k

Linked(s, f) ==
  \A i, j \in Live(s, f) : Follows(s, f, i, j) => turns[s][j].journal[f].first \in Ends(s, i, f)

\* A process in a turn of the conversation has written the file, and ...
Writer(p, s, f) == pc[p] = "writing" /\ session[p] = s /\ f \in DOMAIN journal[p]

Stands(s, f) ==
  \A i \in Live(s, f) : Last(s, f, i) =>
    /\ \A p \in Processes : Writer(p, s, f) => journal[p][f].first \in Ends(s, i, f)
    /\ (\A p \in Processes : ~Writer(p, s, f)) => files[f] \in Ends(s, i, f)

WriterFit(s, f) == \A p \in Processes : Writer(p, s, f) => files[f] = journal[p][f].after

\* ... or takes a turn of it back, and has the file before or behind it.
UndoerFit(s, f) ==
  \A p \in Processes : pc[p] = "undoing" /\ session[p] = s =>
    LET kept == turns[s][number[p]].journal IN
    /\ f \in DOMAIN journal[p] => f \in DOMAIN kept /\ journal[p][f] = kept[f]
    /\ f \in DOMAIN kept \ DOMAIN journal[p] => files[f] = kept[f].first

Traced(s, f) == Linked(s, f) /\ Stands(s, f) /\ WriterFit(s, f) /\ UndoerFit(s, f)

AllTraced == \A s \in Sessions, f \in Files : f \notin foreign[s] => Traced(s, f)

Traces == Conversations /\ Sound /\ AllTraced

\* A process that a step passes by, as far as operations on conversations go.
Same(p) == /\ pc'[p] = pc[p] /\ session'[p] = session[p]
           /\ number'[p] = number[p] /\ journal'[p] = journal[p]

LEMMA ForeignGrows ==
  ASSUME TypeOK, [Next]_vars, NEW s \in Sessions
  PROVE  foreign[s] \subseteq foreign'[s]
<1>1. ASSUME NEW others, NEW F, ForeignTo(others, F) PROVE foreign[s] \subseteq foreign'[s]
  BY <1>1 DEF ForeignTo
<1> QED
  BY <1>1, ZenonT(40) DEF Next, Operation, vars, Acquire, OpenFile, ReadTurn, WriteFile, EndTurn, FailTurn,
     FinishCompact, ReadUndo, TakeBack, FinishUndo, ReadCompact, Release, LateWrite, Recover, Crash, Edit

\* A step that leaves the conversations and the file alone, and makes no process begin to
\* write the file, or stop, or begin to take a turn back.
LEMMA Aside ==
  ASSUME NEW s \in Sessions, NEW f \in Files, Traced(s, f), UNCHANGED turns, files'[f] = files[f],
         \A p \in Processes :
           Same(p) \/ (pc'[p] # "undoing" /\ ~Writer(p, s, f) /\ ~Writer(p, s, f)')
  PROVE  Traced(s, f)'
<1>1. Linked(s, f)'
  BY DEF Traced, Linked, Live, Undoable, Ends, Follows
<1>2. \A p \in Processes : /\ Writer(p, s, f)' <=> Writer(p, s, f)
                           /\ Writer(p, s, f) => journal'[p] = journal[p]
  BY DEF Same, Writer
<1>3. Stands(s, f)'
  BY <1>2 DEF Traced, Stands, Last, Live, Undoable, Ends
<1>4. WriterFit(s, f)'
  BY <1>2 DEF Traced, WriterFit
<1>5. UndoerFit(s, f)'
  BY DEF Traced, UndoerFit, Same
<1> QED
  BY <1>1, <1>3, <1>4, <1>5 DEF Traced

\* The turn that ends is the newest; what it wrote, it found where the turns before it left it.
LEMMA AppendedLive ==
  ASSUME Conversations, NEW p \in Processes, NEW ok \in BOOLEAN, NEW snapshot \in BOOLEAN, NEW cost \in 1..2,
         pc[p] = "writing", AppendTurn(p, ok, snapshot, cost), NEW r \in Sessions, NEW f \in Files
  PROVE  LET n == Len(turns[r]) + 1 IN
         /\ \A i \in Live(r, f) : i \in Nat /\ i < n
         /\ Live(r, f)' = IF r = session[p] /\ ok /\ f \in DOMAIN journal[p]
                          THEN Live(r, f) \cup {n} ELSE Live(r, f)
         /\ \A i \in Live(r, f) : turns'[r][i] = turns[r][i]
         /\ r = session[p] /\ ok => turns'[r][n].journal = journal[p]
<1> DEFINE s == session[p]
           n == Len(turns[r]) + 1
           ended == [number |-> number[p], ok |-> ok, snapshot |-> snapshot,
                    journal |-> IF ok THEN journal[p] ELSE NoEffect, undone |-> FALSE]
<1>1. s \in Sessions /\ turns[s] \in Seq(Turn) /\ turns[r] \in Seq(Turn)
      /\ turns \in [Sessions -> Seq(Turn)]
  BY DEF Conversations, TypeOK
<1>2. turns' = [turns EXCEPT ![s] = Append(turns[s], ended)]
  BY DEF AppendTurn
<1>3. ended.ok = ok /\ ~ended.undone /\ (ok => ended.journal = journal[p])
  OBVIOUS
<1> HIDE DEF ended
<1>4. \A i \in DOMAIN turns[r] : i \in Nat /\ i < n
  BY <1>1
<1>5. CASE r # s
  BY <1>1, <1>2, <1>4, <1>5 DEF Live, Undoable
<1>6. CASE r = s
  <2>1. turns'[r] = Append(turns[r], ended)
    BY <1>1, <1>2, <1>6
  <2>2. /\ DOMAIN turns'[r] = DOMAIN turns[r] \cup {n}
        /\ \A i \in DOMAIN turns[r] : turns'[r][i] = turns[r][i]
        /\ turns'[r][n] = ended
    BY <1>1, <2>1
  <2>3. n \notin DOMAIN turns[r]
    BY <1>4
  <2> QED
    BY <1>3, <1>4, <1>6, <2>2, <2>3 DEF Live, Undoable
<1> QED
  BY <1>5, <1>6

LEMMA EndTraced ==
  ASSUME Traces, NEW p \in Processes, NEW snapshot \in BOOLEAN, NEW cost \in 1..2, EndTurn(p, snapshot, cost),
         NEW s \in Sessions, NEW f \in Files, Traced(s, f)
  PROVE  Traced(s, f)'
<1> DEFINE n == Len(turns[s]) + 1
<1>0. Conversations /\ TypeOK /\ LeaseKept
  BY DEF Traces, Conversations
<1>1. pc[p] = "writing" /\ AppendTurn(p, TRUE, snapshot, cost) /\ Goto(p, "leaving")
      /\ UNCHANGED <<files, session, number, journal>>
  BY DEF EndTurn, opVars
<1>2. /\ \A i \in Live(s, f) : i \in Nat /\ i < n
      /\ Live(s, f)' = IF s = session[p] /\ f \in DOMAIN journal[p] THEN Live(s, f) \cup {n} ELSE Live(s, f)
      /\ \A i \in Live(s, f) : turns'[s][i] = turns[s][i]
      /\ s = session[p] => turns'[s][n].journal = journal[p]
  <2>1. /\ \A i \in Live(s, f) : i \in Nat /\ i < n
        /\ Live(s, f)' = IF s = session[p] /\ TRUE /\ f \in DOMAIN journal[p]
                         THEN Live(s, f) \cup {n} ELSE Live(s, f)
        /\ \A i \in Live(s, f) : turns'[s][i] = turns[s][i]
        /\ s = session[p] /\ TRUE => turns'[s][n].journal = journal[p]
    BY <1>0, <1>1, AppendedLive, Zenon
  <2> QED
    BY <2>1
<1>3. \A q \in Processes : pc'[q] \notin {"writing", "undoing"} /\ (q # p => ~Writer(q, s, f))
  BY <1>0, <1>1, OthersRest DEF Goto, TypeOK, Working, Writer
<1>4. WriterFit(s, f)' /\ UndoerFit(s, f)' /\ \A q \in Processes : ~Writer(q, s, f)'
  BY <1>3 DEF WriterFit, UndoerFit, Writer
<1>5. CASE ~Writer(p, s, f)
  <2>1. Live(s, f)' = Live(s, f)
    BY <1>1, <1>2, <1>5 DEF Writer
  <2>2. Linked(s, f)'
    BY <1>2, <2>1 DEF Traced, Linked, Ends, Follows
  <2>3. Stands(s, f)'
    BY <1>1, <1>2, <1>3, <1>4, <1>5, <2>1 DEF Traced, Stands, Last, Ends
  <2> QED
    BY <1>4, <2>2, <2>3 DEF Traced
<1>6. CASE Writer(p, s, f)
  <2>1. Live(s, f)' = Live(s, f) \cup {n} /\ n \in Nat /\ turns'[s][n].journal = journal[p]
    BY <1>0, <1>2, <1>6 DEF Writer, TypeOK
  <2>2. ASSUME NEW i \in Live(s, f)', NEW j \in Live(s, f)', Follows(s, f, i, j)'
        PROVE  turns'[s][j].journal[f].first \in Ends(s, i, f)'
    <3>1. i # n /\ i \in Live(s, f)
      BY <1>2, <2>1, <2>2 DEF Follows
    <3>2. CASE j \in Live(s, f)
      BY <1>2, <2>1, <2>2, <3>1, <3>2 DEF Traced, Linked, Follows, Ends
    <3>3. CASE j = n
      <4>1. Last(s, f, i)
        BY <1>2, <2>1, <2>2, <3>1, <3>3 DEF Follows, Last
      <4>2. journal[p][f].first \in Ends(s, i, f)
        BY <1>6, <3>1, <4>1 DEF Traced, Stands
      <4> QED
        BY <1>2, <2>1, <3>1, <3>3, <4>2 DEF Ends
    <3> QED
      BY <2>1, <3>2, <3>3
  <2>3. ASSUME NEW i \in Live(s, f)', Last(s, f, i)'
        PROVE  files'[f] \in Ends(s, i, f)'
    <3>1. i = n
      BY <1>2, <2>1, <2>3 DEF Last
    <3>2. files[f] = journal[p][f].after
      BY <1>6 DEF Traced, WriterFit
    <3> QED
      BY <1>1, <2>1, <3>1, <3>2 DEF Ends
  <2> QED
    BY <1>4, <2>2, <2>3 DEF Traced, Linked, Stands
<1> QED
  BY <1>5, <1>6

\* A turn that fails leaves nothing to take back; what it wrote counts as another's.
LEMMA FailTraced ==
  ASSUME Traces, NEW p \in Processes, NEW cost \in 1..2, FailTurn(p, cost),
         NEW s \in Sessions, NEW f \in Files, f \notin foreign'[s], Traced(s, f)
  PROVE  Traced(s, f)'
<1>0. Conversations /\ TypeOK /\ LeaseKept
  BY DEF Traces, Conversations
<1>1. pc[p] = "writing" /\ AppendTurn(p, FALSE, FALSE, cost) /\ Goto(p, "leaving")
      /\ UNCHANGED <<files, session, number, journal>> /\ ForeignTo(Sessions, DOMAIN journal[p])
  BY DEF FailTurn, opVars
<1>2. /\ Live(s, f)' = Live(s, f)
      /\ \A i \in Live(s, f) : turns'[s][i] = turns[s][i]
  <2>1. ASSUME NEW ok \in BOOLEAN, ~ok, NEW snapshot \in BOOLEAN, AppendTurn(p, ok, snapshot, cost)
        PROVE  Live(s, f)' = Live(s, f) /\ \A i \in Live(s, f) : turns'[s][i] = turns[s][i]
    BY <1>0, <1>1, <2>1, AppendedLive
  <2> QED
    BY <1>1, <2>1, Zenon
<1>3. \A q \in Processes : pc'[q] \notin {"writing", "undoing"} /\ (q # p => ~Writer(q, s, f))
  BY <1>0, <1>1, OthersRest DEF Goto, TypeOK, Working, Writer
<1>4. \A q \in Processes : ~Writer(q, s, f) /\ ~Writer(q, s, f)'
  BY <1>1, <1>3 DEF ForeignTo, Writer
<1>5. Linked(s, f)'
  BY <1>2 DEF Traced, Linked, Ends, Follows
<1>6. Stands(s, f)'
  BY <1>1, <1>2, <1>4 DEF Traced, Stands, Last, Ends
<1> QED
  BY <1>3, <1>4, <1>5, <1>6 DEF Traced, WriterFit, UndoerFit

\* A write continues what its turn has written, or begins where the turns before it ended.
LEMMA WriteTraced ==
  ASSUME Traces, NEW p \in Processes, WriteFile(p),
         NEW s \in Sessions, NEW f \in Files, f \notin foreign'[s], Traced(s, f)
  PROVE  Traced(s, f)'
<1> DEFINE w == pending[p]
<1>0. TypeOK /\ LeaseKept
  BY DEF Traces, Conversations
<1>1. /\ pc[p] = "writing" /\ w \in Writes \ {NoWrite} /\ UNCHANGED <<turns, pc, session, number>>
      /\ journal[p] \in Journals
  BY <1>0 DEF WriteFile, TypeOK, convVars
<1>2. \A q \in Processes \ {p} : pc[q] \notin {"writing", "undoing"}
  BY <1>0, <1>1, OthersRest DEF Working
<1>3. CASE UNCHANGED <<files, journal, foreign>>
  BY <1>1, <1>3, Aside DEF Same
<1>4. CASE /\ files[w.file] = w.found /\ files' = [files EXCEPT ![w.file] = w.new]
           /\ journal' = [journal EXCEPT ![p] = Recorded(journal[p], w)]
           /\ ForeignTo(Sessions \ {session[p]}, {w.file})
  <2>1. w.file \in Files
    BY <1>1 DEF Writes
  <2>2. \A q \in Processes : /\ q # p => Same(q)
                             /\ Same(q) \/ (pc'[q] # "undoing")
    BY <1>0, <1>1, <1>4 DEF Same, TypeOK
  <2>3. CASE s # session[p]
    <3>1. f # w.file
      BY <1>4, <2>3 DEF ForeignTo
    <3>2. files'[f] = files[f]
      BY <1>0, <1>4, <3>1 DEF TypeOK
    <3>3. ~Writer(p, s, f) /\ ~Writer(p, s, f)'
      BY <1>1, <2>3 DEF Writer
    <3> QED
      BY <1>1, <2>2, <3>2, <3>3, Aside
  <2>4. CASE s = session[p] /\ f # w.file
    <3>1. files'[f] = files[f]
      BY <1>0, <1>4, <2>4 DEF TypeOK
    <3>2. journal'[p] = Recorded(journal[p], w)
      BY <1>0, <1>4 DEF TypeOK
    <3>3. /\ f \in DOMAIN journal'[p] <=> f \in DOMAIN journal[p]
          /\ f \in DOMAIN journal[p] => journal'[p][f] = journal[p][f]
      BY <2>4, <3>2 DEF Recorded
    <3>4. \A q \in Processes : /\ Writer(q, s, f)' <=> Writer(q, s, f)
                               /\ Writer(q, s, f) => journal'[q][f] = journal[q][f]
      BY <1>1, <2>2, <3>3 DEF Same, Writer
    <3>5. Linked(s, f)'
      BY <1>1 DEF Traced, Linked, Live, Undoable, Ends, Follows
    <3>6. Stands(s, f)'
      BY <1>1, <3>1, <3>4 DEF Traced, Stands, Last, Live, Undoable, Ends
    <3>7. WriterFit(s, f)'
      BY <3>1, <3>4 DEF Traced, WriterFit
    <3>8. UndoerFit(s, f)'
      BY <1>1, <1>2, <2>2 DEF Traced, UndoerFit, Same
    <3> QED
      BY <3>5, <3>6, <3>7, <3>8 DEF Traced
  <2>5. CASE s = session[p] /\ f = w.file
    <3>1. files'[f] = w.new
      BY <1>0, <1>4, <2>1, <2>5 DEF TypeOK
    <3>2. journal'[p] = Recorded(journal[p], w)
      BY <1>0, <1>4 DEF TypeOK
    <3>3. f \in DOMAIN journal[p] => journal[p][f].after = w.found
      BY <1>1, <1>4, <2>5 DEF Traced, WriterFit, Writer
    <3>4. /\ f \in DOMAIN journal'[p] /\ journal'[p][f].after = w.new
          /\ journal'[p][f].first = IF f \in DOMAIN journal[p] THEN journal[p][f].first ELSE files[f]
      <4>1. CASE f \in DOMAIN journal[p]
        <5> DEFINE e == [journal[p][f] EXCEPT !.after = w.new, !.wrote = @ \cup {w.new}]
        <5>1. journal[p][f] \in Effect
          BY <1>1, <4>1, JournalTyped
        <5>2. e.first = journal[p][f].first /\ e.after = w.new
          BY <5>1, Zenon DEF Effect
        <5>3. Recorded(journal[p], w)
                = [g \in DOMAIN journal[p] \cup {f} |-> IF g = f THEN e ELSE journal[p][g]]
          BY <2>5, <3>3, <4>1, Zenon DEF Recorded
        <5> HIDE DEF e
        <5> QED
          BY <3>2, <4>1, <5>2, <5>3
      <4>2. CASE f \notin DOMAIN journal[p]
        <5> DEFINE e == [before |-> w.found, after |-> w.new, first |-> w.found, wrote |-> {w.new}]
        <5>1. e.first = w.found /\ e.after = w.new
          OBVIOUS
        <5>2. Recorded(journal[p], w)
                = [g \in DOMAIN journal[p] \cup {f} |-> IF g = f THEN e ELSE journal[p][g]]
          BY <2>5, <4>2, Zenon DEF Recorded
        <5> HIDE DEF e
        <5> QED
          BY <1>4, <2>5, <3>2, <4>2, <5>1, <5>2
      <4> QED
        BY <4>1, <4>2
    <3>5. \A q \in Processes : q # p => ~Writer(q, s, f) /\ ~Writer(q, s, f)'
      BY <1>1, <1>2 DEF Writer
    <3>6. Writer(p, s, f)' /\ (Writer(p, s, f) <=> f \in DOMAIN journal[p])
      BY <1>1, <2>5, <3>4 DEF Writer
    <3>7. Linked(s, f)'
      BY <1>1 DEF Traced, Linked, Live, Undoable, Ends, Follows
    <3>8. ASSUME NEW i \in Live(s, f), Last(s, f, i)
          PROVE  journal'[p][f].first \in Ends(s, i, f)
      BY <3>4, <3>5, <3>6, <3>8 DEF Traced, Stands
    <3>9. Stands(s, f)'
      BY <1>1, <3>5, <3>6, <3>8 DEF Stands, Last, Live, Undoable, Ends
    <3>10. WriterFit(s, f)'
      BY <3>1, <3>4, <3>5 DEF WriterFit
    <3>11. UndoerFit(s, f)'
      BY <1>1, <1>2 DEF UndoerFit
    <3> QED
      BY <3>7, <3>9, <3>10, <3>11 DEF Traced
  <2> QED
    BY <2>3, <2>4, <2>5
<1> QED
  BY <1>3, <1>4 DEF WriteFile

\* An undo begins with the journal of the newest turn, whole.
LEMMA ReadUndoTraced ==
  ASSUME Traces, NEW p \in Processes, ReadUndo(p), NEW s \in Sessions, NEW f \in Files, Traced(s, f)
  PROVE  Traced(s, f)'
<1>0. TypeOK /\ LeaseKept /\ TurnsInOrder
  BY DEF Traces, Conversations
<1>1. pc[p] = "undo" /\ UNCHANGED <<turns, files, session>>
  BY DEF ReadUndo, convVars
<1>2. \A q \in Processes \ {p} : pc[q] \notin {"writing", "undoing"}
  BY <1>0, <1>1, OthersRest DEF Working
<1>3. CASE Goto(p, "leaving") /\ UNCHANGED <<number, journal>>
  BY <1>0, <1>1, <1>3, Aside DEF Same, Goto, TypeOK, Writer
<1>4. ASSUME NEW n \in DOMAIN turns[session[p]],
             number' = [number EXCEPT ![p] = turns[session[p]][n].number],
             journal' = [journal EXCEPT ![p] = turns[session[p]][n].journal],
             Goto(p, "undoing")
      PROVE  Traced(s, f)'
  <2>1. /\ pc'[p] = "undoing" /\ number'[p] = n /\ journal'[p] = turns[session[p]][n].journal
        /\ \A q \in Processes \ {p} : Same(q)
    BY <1>0, <1>1, <1>4 DEF Goto, TypeOK, TurnsInOrder, Same
  <2>2. \A q \in Processes : ~Writer(q, s, f) /\ ~Writer(q, s, f)'
    BY <1>1, <1>2, <2>1 DEF Writer, Same
  <2>3. Linked(s, f)'
    BY <1>1 DEF Traced, Linked, Live, Undoable, Ends, Follows
  <2>4. Stands(s, f)'
    BY <1>1, <2>2 DEF Traced, Stands, Last, Live, Undoable, Ends
  <2>5. WriterFit(s, f)'
    BY <2>2 DEF WriterFit
  <2>6. UndoerFit(s, f)'
    BY <1>1, <1>2, <2>1 DEF UndoerFit, Same
  <2> QED
    BY <2>3, <2>4, <2>5, <2>6 DEF Traced
<1> QED
  BY <1>3, <1>4 DEF ReadUndo

\* A file that is taken back stands where its turn had found it.
LEMMA TakenBack ==
  ASSUME Traces, NEW p \in Processes, NEW f \in Files, TakeBack(p, f), Traced(session[p], f)
  PROVE  LET kept == turns[session[p]][number[p]].journal IN
         /\ f \in DOMAIN kept /\ journal[p][f] = kept[f]
         /\ files'[f] = kept[f].first
<1> DEFINE s == session[p]
           n == number[p]
<1>0. TypeOK /\ LeaseKept /\ OpFits /\ Truthful(journal[p])
  BY DEF Traces, Conversations, Sound
<1>1. pc[p] = "undoing" /\ f \in DOMAIN journal[p] /\ s \in Sessions
  BY <1>0 DEF TakeBack, TypeOK
<1>2. Newest(s, n)
  BY <1>0, <1>1 DEF OpFits, Fits
<1>3. f \in DOMAIN turns[s][n].journal /\ journal[p][f] = turns[s][n].journal[f]
  BY <1>1 DEF Traced, UndoerFit
<1>4. n \in Live(s, f) /\ Last(s, f, n)
  BY <1>2, <1>3 DEF Newest, Live, Last
<1>5. \A q \in Processes : ~Writer(q, s, f)
  BY <1>0, <1>1, OthersRest DEF Working, Writer
<1>6. files[f] \in {journal[p][f].first, journal[p][f].after}
  BY <1>3, <1>4, <1>5 DEF Traced, Stands, Ends
<1>7. journal[p][f].before = journal[p][f].first
  BY <1>0, <1>1 DEF Truthful
<1>8. files'[f] = IF files[f] = journal[p][f].after THEN journal[p][f].before ELSE files[f]
  BY <1>0 DEF TakeBack, TypeOK
<1> QED
  BY <1>3, <1>6, <1>7, <1>8

LEMMA TakeBackTraced ==
  ASSUME Traces, NEW p \in Processes, NEW g \in Files, TakeBack(p, g),
         NEW s \in Sessions, NEW f \in Files, f \notin foreign'[s], Traced(s, f)
  PROVE  Traced(s, f)'
<1>0. TypeOK /\ LeaseKept /\ OpFits
  BY DEF Traces, Conversations
<1>1. /\ pc[p] = "undoing" /\ UNCHANGED <<turns, pc, session, number>>
      /\ journal'[p] = Restrict(journal[p], DOMAIN journal[p] \ {g})
      /\ \A q \in Processes \ {p} : Same(q)
      /\ \A h \in Files \ {g} : files'[h] = files[h]
  BY <1>0 DEF TakeBack, TypeOK, convVars, Same
<1>2. \A q \in Processes : ~Writer(q, s, f) /\ ~Writer(q, s, f)'
  BY <1>0, <1>1, OthersRest DEF Working, Writer
<1>3. \A q \in Processes \ {p} : pc[q] # "undoing"
  BY <1>0, <1>1, OthersRest DEF Working
<1>4. s # session[p] => f # g
  BY DEF TakeBack, ForeignTo
<1>5. Linked(s, f)'
  BY <1>1 DEF Traced, Linked, Live, Undoable, Ends, Follows
<1>6. WriterFit(s, f)'
  BY <1>2 DEF WriterFit
<1>7. CASE f # g
  <2>1. Stands(s, f)'
    BY <1>1, <1>2, <1>7 DEF Traced, Stands, Last, Live, Undoable, Ends
  <2>2. UndoerFit(s, f)'
    BY <1>1, <1>3, <1>7 DEF Traced, UndoerFit, Restrict
  <2> QED
    BY <1>5, <1>6, <2>1, <2>2 DEF Traced
<1>8. CASE f = g
  <2>1. s = session[p]
    BY <1>4, <1>8
  <2>2. /\ f \in DOMAIN turns[s][number[p]].journal
        /\ files'[f] = turns[s][number[p]].journal[f].first
    BY <1>8, <2>1, TakenBack
  <2>3. UndoerFit(s, f)'
    BY <1>1, <1>3, <1>8, <2>1, <2>2 DEF UndoerFit, Restrict
  <2>4. Newest(s, number[p])
    BY <1>0, <1>1, <2>1 DEF OpFits, Fits
  <2>5. ASSUME NEW i \in Live(s, f), Last(s, f, i) PROVE i = number[p]
    <3>1. number[p] \in Live(s, f) /\ \A k \in Live(s, f) : k <= number[p]
      BY <2>2, <2>4 DEF Newest, Live
    <3>2. Live(s, f) \subseteq Nat
      BY <1>0 DEF Live, Undoable, TypeOK
    <3> QED
      BY <2>5, <3>1, <3>2 DEF Last
  <2>6. Stands(s, f)'
    BY <1>1, <1>2, <2>2, <2>5 DEF Stands, Last, Live, Undoable, Ends
  <2> QED
    BY <1>5, <1>6, <2>3, <2>6 DEF Traced
<1> QED
  BY <1>7, <1>8

\* An undo that ends leaves each file where the turns before it had left it, or found it.
LEMMA FinishUndoTraced ==
  ASSUME Traces, NEW p \in Processes, FinishUndo(p),
         NEW s \in Sessions, NEW f \in Files, Traced(s, f)
  PROVE  Traced(s, f)'
<1> DEFINE n == number[p]
<1>0. TypeOK /\ LeaseKept /\ OpFits /\ TurnsInOrder /\ turns \in [Sessions -> Seq(Turn)]
  BY DEF Traces, Conversations, TypeOK
<1>1. pc[p] = "undoing" /\ DOMAIN journal[p] = {} /\ Goto(p, "leaving")
      /\ UNCHANGED <<files, session, number, journal>> /\ session[p] \in Sessions
  BY <1>0 DEF FinishUndo, opVars, TypeOK
<1>2. \A q \in Processes : /\ ~Writer(q, s, f) /\ ~Writer(q, s, f)'
                           /\ pc'[q] \notin {"writing", "undoing"}
  BY <1>0, <1>1, OthersRest DEF Working, Writer, Goto, TypeOK
<1>3. Newest(session[p], n) /\ n \in DOMAIN turns[session[p]]
  BY <1>0, <1>1 DEF OpFits, Fits, Newest, Undoable
<1>4. turns' = [turns EXCEPT ![session[p]][n].undone = TRUE]
  <2> DEFINE numbered == {i \in DOMAIN turns[session[p]] : turns[session[p]][i].number = n}
  <2>1. numbered = {n}
    BY <1>0, <1>1, <1>3 DEF TurnsInOrder
  <2>2. (CHOOSE i \in numbered : \A j \in numbered : i <= j) = n
    <3>1. n <= n
      BY <1>0 DEF TypeOK
    <3> QED
      BY <2>1, <3>1
  <2> QED
    BY <2>2, Zenon DEF FinishUndo
<1>5. WriterFit(s, f)' /\ UndoerFit(s, f)'
  BY <1>2 DEF WriterFit, UndoerFit
<1>6. CASE s # session[p]
  <2>1. turns'[s] = turns[s]
    BY <1>0, <1>4, <1>6
  <2>2. Linked(s, f)'
    BY <2>1 DEF Traced, Linked, Live, Undoable, Ends, Follows
  <2>3. Stands(s, f)'
    BY <1>1, <1>2, <2>1 DEF Traced, Stands, Last, Live, Undoable, Ends
  <2> QED
    BY <1>5, <2>2, <2>3 DEF Traced
<1>7. CASE s = session[p]
  <2> DEFINE v == [turns[s][n] EXCEPT !.undone = TRUE]
  <2>1. turns'[s] = [turns[s] EXCEPT ![n].undone = TRUE]
    BY <1>0, <1>4, <1>7, Zenon
  <2>2. turns'[s] = [j \in DOMAIN turns[s] |-> IF j = n THEN v ELSE turns[s][j]]
    BY <2>1, Zenon
  <2>3. turns[s][n] \in Turn
    BY <1>0, <1>3, <1>7
  <2>4. v.undone /\ v.journal = turns[s][n].journal
    BY <2>3, Zenon DEF Turn
  <2> HIDE DEF v
  <2>5. Live(s, f)' = Live(s, f) \ {n} /\ \A i \in Live(s, f) : turns'[s][i].journal = turns[s][i].journal
    BY <1>3, <1>7, <2>2, <2>4 DEF Live, Undoable
  <2>6. Live(s, f) \subseteq Nat /\ \A i \in Live(s, f) : i <= n
    BY <1>0, <1>3, <1>7 DEF Live, Undoable, Newest
  <2>7. Linked(s, f)'
    <3> SUFFICES ASSUME NEW i \in Live(s, f)', NEW j \in Live(s, f)', Follows(s, f, i, j)'
                 PROVE  turns'[s][j].journal[f].first \in Ends(s, i, f)'
      BY DEF Linked
    <3>1. Follows(s, f, i, j)
      BY <2>5, <2>6 DEF Follows
    <3> QED
      BY <2>5, <3>1 DEF Traced, Linked, Ends
  <2>8. ASSUME NEW i \in Live(s, f)', Last(s, f, i)'
        PROVE  files'[f] \in Ends(s, i, f)'
    <3>1. CASE n \notin Live(s, f)
      <4>1. Last(s, f, i)
        BY <2>5, <2>8, <3>1 DEF Last
      <4> QED
        BY <1>1, <1>2, <2>5, <4>1 DEF Traced, Stands, Last, Ends
    <3>2. CASE n \in Live(s, f)
      <4>1. files[f] = turns[s][n].journal[f].first
        BY <1>1, <1>7, <3>2 DEF Traced, UndoerFit, Live
      <4>2. i < n /\ \A k \in Live(s, f) : k <= i \/ n <= k
        BY <2>5, <2>6, <2>8, <3>2 DEF Last
      <4>3. turns[s][n].journal[f].first \in Ends(s, i, f)
        BY <2>5, <3>2, <4>2 DEF Traced, Linked, Follows
      <4> QED
        BY <1>1, <2>5, <4>1, <4>3 DEF Ends
    <3> QED
      BY <3>1, <3>2
  <2>9. Stands(s, f)'
    BY <1>2, <2>8 DEF Stands
  <2> QED
    BY <1>5, <2>7, <2>9 DEF Traced
<1> QED
  BY <1>6, <1>7

LEMMA TracedStep ==
  ASSUME Traces, [Next]_vars
  PROVE  AllTraced'
<1> SUFFICES ASSUME NEW s \in Sessions, NEW f \in Files, f \notin foreign'[s] PROVE Traced(s, f)'
  BY DEF AllTraced
<1>0. TypeOK /\ LeaseKept
  BY DEF Traces, Conversations
<1>f. Traced(s, f)
  BY <1>0, ForeignGrows DEF Traces, AllTraced
<1>1. ASSUME NEW p \in Processes, NEW r \in Sessions, NEW kind \in {"turn", "undo", "compact"}, Acquire(p, r, kind)
      PROVE  Traced(s, f)'
  BY <1>0, <1>1, <1>f, Aside DEF Acquire, Goto, Same, Writer, TypeOK, convVars
<1>2. ASSUME NEW p \in Processes, ReadTurn(p) PROVE Traced(s, f)'
  <2>1. CASE Goto(p, "leaving") /\ UNCHANGED <<number, journal>>
    BY <1>0, <1>2, <1>f, <2>1, Aside DEF ReadTurn, Goto, Same, Writer, TypeOK, convVars
  <2>2. CASE Goto(p, "writing") /\ journal' = [journal EXCEPT ![p] = NoEffect]
             /\ \E n : number' = [number EXCEPT ![p] = n]
    <3>1. ~Writer(p, s, f) /\ ~Writer(p, s, f)' /\ pc'[p] # "undoing"
      BY <1>0, <1>2, <2>2 DEF ReadTurn, Goto, Writer, TypeOK, NoEffect
    <3>2. \A q \in Processes \ {p} : Same(q)
      BY <1>0, <1>2, <2>2 DEF ReadTurn, Goto, Same, TypeOK
    <3> QED
      BY <1>2, <1>f, <3>1, <3>2, Aside DEF ReadTurn, convVars
  <2> QED
    BY <1>2, <2>1, <2>2 DEF ReadTurn
<1>3. ASSUME NEW p \in Processes, ReadCompact(p) PROVE Traced(s, f)'
  <2>1. /\ pc[p] = "compact" /\ UNCHANGED <<turns, files, session, journal>>
        /\ Goto(p, "leaving") \/ Goto(p, "summarising")
        /\ \A q \in Processes \ {p} : number'[q] = number[q]
    BY <1>0, <1>3 DEF ReadCompact, convVars, TypeOK
  <2>2. ~Writer(p, s, f) /\ ~Writer(p, s, f)' /\ pc'[p] # "undoing"
    BY <1>0, <2>1 DEF Goto, Writer, TypeOK
  <2>3. \A q \in Processes \ {p} : Same(q)
    BY <1>0, <2>1 DEF Goto, Same, TypeOK
  <2> QED
    BY <1>f, <2>1, <2>2, <2>3, Aside
<1>4. ASSUME NEW p \in Processes, NEW cost \in 1..2, FinishCompact(p, cost) PROVE Traced(s, f)'
  BY <1>0, <1>4, <1>f, Aside DEF FinishCompact, Goto, Same, Writer, TypeOK, opVars
<1>5. ASSUME NEW p \in Processes, Release(p) PROVE Traced(s, f)'
  BY <1>0, <1>5, <1>f, Aside DEF Release, Goto, Forget, Same, Writer, TypeOK, convVars
<1>6. ASSUME NEW p \in Processes, Recover(p) PROVE Traced(s, f)'
  BY <1>6, <1>f, Aside DEF Recover, Same, convVars, opVars
<1>7. ASSUME NEW p \in Processes, Crash(p) PROVE Traced(s, f)'
  <2>1. ~Writer(p, s, f)
    BY <1>7 DEF Crash, ForeignTo, Writer
  <2>2. pc'[p] = "gone" /\ (\A q \in Processes \ {p} : Same(q)) /\ UNCHANGED <<turns, files>>
    BY <1>0, <1>7 DEF Crash, Goto, Forget, Same, TypeOK, convVars
  <2> QED
    BY <1>f, <2>1, <2>2, Aside DEF Writer
<1>8. ASSUME NEW p \in Processes, NEW g \in Files, NEW content \in Contents, OpenFile(p, g, content)
      PROVE  Traced(s, f)'
  BY <1>8, <1>f, Aside DEF OpenFile, Same, convVars, opVars
<1>9. ASSUME NEW p \in Processes, LateWrite(p) PROVE Traced(s, f)'
  <2>1. late[p] \in Writes \ {NoWrite} /\ UNCHANGED <<turns, pc, session, number, journal>>
    BY <1>0, <1>9 DEF LateWrite, TypeOK, convVars, opVars
  <2>2. files'[f] = files[f]
    BY <1>0, <1>9, <2>1 DEF LateWrite, ForeignTo, Writes, TypeOK
  <2> QED
    BY <1>f, <2>1, <2>2, Aside DEF Same
<1>10. ASSUME NEW g \in Files, NEW content \in Contents, Edit(g, content) PROVE Traced(s, f)'
  <2>1. files'[f] = files[f]
    BY <1>0, <1>10 DEF Edit, ForeignTo, TypeOK
  <2> QED
    BY <1>10, <1>f, <2>1, Aside DEF Edit, Same, convVars, opVars
<1>11. CASE UNCHANGED vars
  BY <1>11, <1>f, Aside DEF vars, Same, convVars, opVars
<1>12. ASSUME NEW p \in Processes,
              \/ WriteFile(p) \/ ReadUndo(p) \/ FinishUndo(p) \/ \E g \in Files : TakeBack(p, g)
              \/ \E cost \in 1..2 : FailTurn(p, cost) \/ \E snapshot \in BOOLEAN : EndTurn(p, snapshot, cost)
       PROVE  Traced(s, f)'
  BY <1>12, <1>f, WriteTraced, ReadUndoTraced, FinishUndoTraced, TakeBackTraced, FailTraced, EndTraced
<1> QED
  BY <1>1, <1>2, <1>3, <1>4, <1>5, <1>6, <1>7, <1>8, <1>9, <1>10, <1>11, <1>12 DEF Next, Operation

\* UndoComplete: what an undo takes back stands where its turn had found it, or somebody else
\* has changed the file, through any number of turns, undos, crashes between two files, and
\* processes (undoFileEffects).
THEOREM UndoneWhole == Spec => UndoComplete
<1>1. Init => Sound /\ AllTraced
  BY NothingTruthful DEF Init, Sound, AllTraced, Traced, Linked, Stands, WriterFit, UndoerFit,
     Live, Undoable, Writer
<1>2. Conversations /\ Sound /\ AllTraced /\ [Next]_vars => Sound' /\ AllTraced'
  BY SoundStep, TracedStep DEF Traces, Conversations
<1>3. Conversations /\ Sound /\ AllTraced /\ [Next]_vars =>
        [\A p \in Processes, f \in Files : TakeBack(p, f) =>
           files'[f] = journal[p][f].first \/ f \in foreign[session[p]]]_vars
  <2> SUFFICES ASSUME Conversations, Sound, AllTraced, NEW p \in Processes, NEW f \in Files,
                      TakeBack(p, f), f \notin foreign[session[p]]
               PROVE  files'[f] = journal[p][f].first
    BY Zenon
  <2>1. Traced(session[p], f)
    BY DEF AllTraced, Conversations, TypeOK
  <2> QED
    BY <2>1, TakenBack DEF Traces
<1> QED
  BY <1>1, <1>2, <1>3, ConversationsAlways, PTL DEF Spec, UndoComplete
-----------------------------------------------------------------------------
(* The chat in a terminal.                                                 *)

TypedLines == [text : Terminal!Texts, at : 0..MaxQuestions]
Outcomes   == [what : {"none", "approve", "reject"}, at : 0..(MaxQuestions + 1)]
Choices    == [agent : ChatAgents, provider : ChatProviders \cup {"none"}]

AskedTyped ==
  /\ prompt \in 0..MaxQuestions /\ asked \in 0..MaxQuestions
  /\ queue \in Seq(1..asked) /\ open \in 0..asked
  /\ ofTurn \in [1..MaxQuestions -> 0..terminalTurns]
  /\ answer \in [1..MaxQuestions -> Outcomes]

TalkTyped ==
  /\ terminalTurns \in Nat /\ turn \in {0, terminalTurns}
  /\ lines \in Seq(TypedLines) /\ choice \in Choices

\* Those who wait for a line are the loop, though not during a turn, and the question on the
\* screen; a line is kept only when nobody waits, or for the loop that takes it at once.
WaitingFit ==
  /\ waiting \in {<<>>, <<0>>} \/ (open # 0 /\ waiting \in {<<open>>, <<0, open>>, <<open, 0>>})
  /\ turn # 0 => waiting = <<>> \/ (open # 0 /\ waiting = <<open>>)
  /\ lines # <<>> => waiting \in {<<>>, <<0>>}

\* While its turn runs, the prompt on the screen is that of the open question; and what was not
\* asked has no answer.
QuestionFit ==
  /\ open # 0 /\ turn # 0 /\ ofTurn[open] = turn => prompt = open
  /\ \A q \in 1..MaxQuestions : q > asked => answer[q] = Terminal!Unanswered
  /\ \A q \in 1..MaxQuestions :
       ofTurn[q] = turn /\ turn # 0 /\ answer[q].what = "approve" => answer[q].at = q

TerminalFit ==
  TalkTyped /\ AskedTyped /\ WaitingFit /\ QuestionFit /\ Terminal!ChoiceIsAllowed

LEMMA SecondAppended ==
  ASSUME NEW x \in Nat, NEW y \in Nat
  PROVE  /\ Append(<<>>, y) = <<y>> /\ Append(<<x>>, y) = <<x, y>>
         /\ Tail(<<x>>) = <<>> /\ Tail(<<x, y>>) = <<y>>
         /\ Head(<<x>>) = x /\ Head(<<x, y>>) = x /\ <<x>> # <<>> /\ <<x, y>> # <<>>
<1>1. <<x>> \in Seq(Nat) /\ <<x, y>> \in Seq(Nat) /\ Len(<<x, y>>) = 2
  OBVIOUS
<1>2. /\ Append(<<x>>, y) \in Seq(Nat) /\ Len(Append(<<x>>, y)) = 2
      /\ Append(<<x>>, y)[1] = x /\ Append(<<x>>, y)[2] = y
  BY <1>1, AppendProperties
<1>3. \A i \in 1..Len(<<x, y>>) : <<x, y>>[i] = Append(<<x>>, y)[i]
  BY <1>1, <1>2
<1>4. <<x, y>> = Append(<<x>>, y)
  BY <1>1, <1>2, <1>3, SeqEqual
<1>5. /\ Append(<<>>, y) = <<y>> /\ Tail(<<x>>) = <<>> /\ Head(<<x>>) = x /\ <<x>> # <<>>
  OBVIOUS
<1>6. Tail(<<x, y>>) = <<y>> /\ Head(<<x, y>>) = x /\ <<x, y>> # <<>>
  OBVIOUS
<1> QED
  BY <1>4, <1>5, <1>6

\* The shapes of the line: who is first, and who is left when the first or the last has gone.
LEMMA WaitingShapes ==
  ASSUME TerminalFit, waiting # <<>>
  PROVE  /\ Head(waiting) = 0 => /\ turn = 0
                                 /\ Tail(waiting) = <<>> \/ (open # 0 /\ Tail(waiting) = <<open>>)
         /\ Head(waiting) # 0 => /\ Head(waiting) = open /\ open # 0
                                 /\ Tail(waiting) = <<>> \/ (turn = 0 /\ Tail(waiting) = <<0>>)
         /\ turn # 0 => open # 0 /\ waiting = <<open>>
<1>1. open \in Nat
  BY DEF TerminalFit, AskedTyped
<1>2. CASE waiting = <<0>>
  <2>1. Head(waiting) = 0 /\ Tail(waiting) = <<>>
    BY <1>2
  <2>2. waiting = <<open>> => open = 0
    BY <1>2
  <2>3. turn = 0 \/ (waiting = <<open>> /\ open # 0)
    BY <1>1, <2>2 DEF TerminalFit, WaitingFit
  <2> QED
    BY <2>1, <2>2, <2>3
<1>3. CASE open # 0 /\ waiting = <<open>>
  BY <1>3
<1>4. CASE open # 0 /\ waiting = <<0, open>>
  <2>1. Head(waiting) = 0 /\ Tail(waiting) = <<open>> /\ waiting # <<open>>
    BY <1>4
  <2> QED
    BY <1>4, <2>1 DEF TerminalFit, WaitingFit
<1>5. CASE open # 0 /\ waiting = <<open, 0>>
  <2>1. Head(waiting) = open /\ Tail(waiting) = <<0>> /\ waiting # <<open>>
    BY <1>5
  <2> QED
    BY <1>5, <2>1 DEF TerminalFit, WaitingFit
<1> QED
  BY <1>2, <1>3, <1>4, <1>5 DEF TerminalFit, WaitingFit

LEMMA CommandsAllowed ==
  ASSUME TerminalFit, NEW c \in Terminal!Commanded
  PROVE  c \in Choices /\ (c.provider # "none" => <<c.agent, c.provider>> \in Allowed)
<1> USE DEF Choices
<1>0. choice \in Choices /\ (choice.provider # "none" => <<choice.agent, choice.provider>> \in Allowed)
  BY DEF TerminalFit, TalkTyped, Terminal!ChoiceIsAllowed
<1>1. ASSUME NEW a \in ChatAgents, c = Terminal!ChooseAgent(choice, a)
      PROVE  c \in Choices /\ c.provider = "none"
  BY <1>1 DEF Terminal!ChooseAgent
<1>2. ASSUME NEW p \in ChatProviders, c = Terminal!SetModel(choice, p)
      PROVE  c \in Choices /\ (c = choice \/ <<c.agent, c.provider>> \in Allowed)
  BY <1>0, <1>2 DEF Terminal!SetModel
<1>3. ASSUME c = [choice EXCEPT !.provider = "none"] \/ c = choice
      PROVE  c \in Choices /\ (c = choice \/ c.provider = "none")
  BY <1>0, <1>3
<1> QED
  BY <1>0, <1>1, <1>2, <1>3 DEF Terminal!Commanded

\* A line that comes to the loop ends it, or changes the choice, or begins a turn of its own.
LEMMA LoopFits ==
  ASSUME TerminalFit, turn = 0, NEW l \in TypedLines, NEW rest \in Seq(TypedLines), NEW others,
         Terminal!Loop(l, rest, others), UNCHANGED Terminal!approvals,
         others = <<>> \/ (open # 0 /\ others = <<open>>), rest # <<>> => others = <<>>
  PROVE  TerminalFit'
<1>1. /\ asked' = asked /\ queue' = queue /\ open' = open /\ ofTurn' = ofTurn /\ answer' = answer
      /\ lines' = rest
  BY DEF Terminal!approvals, Terminal!Loop
<1>2. CASE l.text = "/exit"
  <2>1. waiting' = <<>> /\ UNCHANGED <<prompt, turn, terminalTurns, choice>>
    BY <1>2 DEF Terminal!Loop
  <2> QED
    BY <1>1, <2>1 DEF TerminalFit, TalkTyped, AskedTyped, WaitingFit, QuestionFit, Terminal!ChoiceIsAllowed
<1>3. CASE l.text = "/help"
  <2>1. /\ choice' \in Terminal!Commanded /\ prompt' = 0 /\ waiting' = Append(others, 0)
        /\ turn' = 0 /\ terminalTurns' = terminalTurns
    BY <1>3 DEF Terminal!Loop, Terminal!You
  <2>2. choice' \in Choices /\ Terminal!ChoiceIsAllowed'
    BY <2>1, CommandsAllowed DEF Terminal!ChoiceIsAllowed
  <2>3. waiting' = <<0>> \/ (open # 0 /\ rest = <<>> /\ waiting' = <<open, 0>>)
    <3>1. open \in Nat
      BY DEF TerminalFit, AskedTyped
    <3> QED
      BY <2>1, <3>1, SecondAppended
  <2>4. TalkTyped' /\ QuestionFit'
    BY <1>1, <2>1, <2>2 DEF TerminalFit, TalkTyped, QuestionFit
  <2>5. AskedTyped'
    BY <1>1, <2>1, TerminalAssumption DEF TerminalFit, AskedTyped
  <2>6. WaitingFit'
    BY <1>1, <2>1, <2>3 DEF WaitingFit
  <2> QED
    BY <2>2, <2>4, <2>5, <2>6 DEF TerminalFit
<1>4. CASE l.text \notin {"/exit", "/help"}
  <2>1. /\ turn' = terminalTurns + 1 /\ terminalTurns' = terminalTurns + 1 /\ waiting' = others
        /\ prompt' = prompt /\ choice' = choice
    BY <1>4 DEF Terminal!Loop
  <2>2. \A q \in 1..MaxQuestions : ofTurn[q] # turn' /\ ofTurn[q] \in 0..terminalTurns'
    <3>1. ofTurn \in [1..MaxQuestions -> 0..terminalTurns] /\ terminalTurns \in Nat
      BY DEF TerminalFit, AskedTyped, TalkTyped
    <3> QED
      BY <2>1, <3>1
  <2>3. TalkTyped'
    BY <1>1, <2>1 DEF TerminalFit, TalkTyped
  <2>4. AskedTyped'
    BY <1>1, <2>1, <2>2 DEF TerminalFit, AskedTyped
  <2>5. WaitingFit'
    BY <1>1, <2>1 DEF WaitingFit
  <2>6. open = 0 \/ open \in 1..MaxQuestions
    BY TerminalAssumption DEF TerminalFit, AskedTyped
  <2>7. QuestionFit'
    BY <1>1, <2>1, <2>2, <2>6 DEF TerminalFit, QuestionFit, Terminal!Unanswered, Terminal!Nobody
  <2> QED
    BY <2>1, <2>3, <2>4, <2>5, <2>7 DEF TerminalFit, Terminal!ChoiceIsAllowed
<1> QED
  BY <1>2, <1>3, <1>4

LEMMA LineFits ==
  ASSUME TerminalFit, NEW text \in Terminal!Texts, Terminal!Line(text) PROVE TerminalFit'
<1> DEFINE l == [text |-> text, at |-> prompt]
<1>1. l \in TypedLines /\ l.at = prompt
  BY DEF TerminalFit, AskedTyped, TypedLines
<1>2. lines \in Seq(TypedLines) /\ (lines = <<>> \/ waiting = <<>>)
  BY DEF Terminal!Line, Terminal!TypedAhead, TerminalFit, TalkTyped
<1> HIDE DEF l
<1>3. CASE waiting = <<>>
  <2>1. lines' = Append(lines, l)
        /\ UNCHANGED <<waiting, prompt, turn, terminalTurns, choice, Terminal!approvals>>
    BY <1>3 DEF Terminal!Line, l
  <2>2. lines' \in Seq(TypedLines)
    BY <1>1, <1>2, <2>1
  <2> QED
    BY <1>3, <2>1, <2>2 DEF TerminalFit, TalkTyped, AskedTyped, WaitingFit, QuestionFit,
       Terminal!ChoiceIsAllowed, Terminal!approvals
<1>4. CASE waiting # <<>> /\ Head(waiting) = 0
  <2>1. Terminal!Loop(l, lines, Tail(waiting)) /\ UNCHANGED Terminal!approvals
    BY <1>4 DEF Terminal!Line, Terminal!You, l
  <2>2. turn = 0 /\ (Tail(waiting) = <<>> \/ (open # 0 /\ Tail(waiting) = <<open>>))
    BY <1>4, WaitingShapes
  <2> QED
    BY <1>1, <1>2, <1>4, <2>1, <2>2, LoopFits
<1>5. CASE waiting # <<>> /\ Head(waiting) # 0
  <2>1. /\ Terminal!AnswerQuestion(Head(waiting), l) /\ waiting' = Tail(waiting)
        /\ UNCHANGED <<lines, prompt, turn, terminalTurns, choice>>
    BY <1>5 DEF Terminal!Line, Terminal!You, l
  <2>2. /\ Head(waiting) = open /\ open # 0 /\ (waiting' = <<>> \/ (turn = 0 /\ waiting' = <<0>>))
    BY <1>5, <2>1, WaitingShapes
  <2>3. PICK w \in {"approve", "reject"} : answer' = [answer EXCEPT ![open] = [what |-> w, at |-> prompt]]
    BY <1>1, <2>1, <2>2 DEF Terminal!AnswerQuestion
  <2>4. open' = 0 /\ UNCHANGED <<asked, ofTurn, queue>>
    BY <2>1 DEF Terminal!AnswerQuestion
  <2>5. open \in 1..asked /\ asked \in 0..MaxQuestions /\ prompt \in 0..MaxQuestions
        /\ answer \in [1..MaxQuestions -> Outcomes]
    BY <2>2 DEF TerminalFit, AskedTyped
  <2>6. answer' \in [1..MaxQuestions -> Outcomes]
    BY <2>3, <2>5, TerminalAssumption DEF Outcomes
  <2>7. AskedTyped' /\ TalkTyped'
    BY <2>1, <2>4, <2>5, <2>6 DEF TerminalFit, AskedTyped, TalkTyped
  <2>8. WaitingFit'
    BY <1>2, <1>5, <2>1, <2>2, <2>4 DEF WaitingFit
  <2>9. QuestionFit'
    BY <2>1, <2>3, <2>4, <2>5, <2>2 DEF TerminalFit, QuestionFit, Terminal!Unanswered, Terminal!Nobody
  <2> QED
    BY <2>1, <2>7, <2>8, <2>9 DEF TerminalFit, Terminal!ChoiceIsAllowed
<1> QED
  BY <1>3, <1>4, <1>5

LEMMA TakeFits == ASSUME TerminalFit, Terminal!TakeTypedAhead PROVE TerminalFit'
<1>1. /\ Terminal!Loop(Head(lines), Tail(lines), SubSeq(waiting, 1, Len(waiting) - 1))
      /\ UNCHANGED Terminal!approvals /\ lines # <<>> /\ waiting # <<>>
  BY DEF Terminal!TakeTypedAhead, Terminal!TypedAhead
<1>2. waiting = <<0>> /\ turn = 0
  <2>1. waiting = <<0>>
    BY <1>1 DEF TerminalFit, WaitingFit
  <2> QED
    BY <2>1, WaitingShapes
<1>3. SubSeq(waiting, 1, Len(waiting) - 1) = <<>>
  BY <1>2
<1>4. Head(lines) \in TypedLines /\ Tail(lines) \in Seq(TypedLines)
  BY <1>1 DEF TerminalFit, TalkTyped
<1> QED
  BY <1>1, <1>2, <1>3, <1>4, LoopFits

LEMMA RequestFits == ASSUME TerminalFit, Terminal!RequestApproval PROVE TerminalFit'
<1>1. /\ turn # 0 /\ asked < MaxQuestions /\ asked' = asked + 1 /\ queue' = Append(queue, asked + 1)
      /\ ofTurn' = [ofTurn EXCEPT ![asked + 1] = turn]
      /\ UNCHANGED <<waiting, prompt, lines, turn, terminalTurns, open, answer, choice>>
  BY DEF Terminal!RequestApproval, Terminal!input
<1>2. /\ asked \in 0..MaxQuestions /\ open \in 0..asked /\ queue \in Seq(1..asked)
      /\ ofTurn \in [1..MaxQuestions -> 0..terminalTurns] /\ turn \in {0, terminalTurns}
      /\ terminalTurns \in Nat
  BY DEF TerminalFit, AskedTyped, TalkTyped
<1>3. queue' \in Seq(1..asked')
  <2>1. queue \in Seq(1..(asked + 1))
    BY <1>2, \A x : x \in 1..asked => x \in 1..(asked + 1), SeqMonotonic
  <2> QED
    BY <1>1, <1>2, <2>1
<1>4. AskedTyped' /\ TalkTyped'
  BY <1>1, <1>2, <1>3, TerminalAssumption DEF TerminalFit, AskedTyped, TalkTyped
<1>5. QuestionFit'
  BY <1>1, <1>2, TerminalAssumption DEF TerminalFit, QuestionFit, Terminal!Unanswered, Terminal!Nobody
<1> QED
  BY <1>1, <1>4, <1>5 DEF TerminalFit, WaitingFit, Terminal!ChoiceIsAllowed

LEMMA AskFits == ASSUME TerminalFit, Terminal!AskApproval PROVE TerminalFit'
<1> DEFINE q == Head(queue)
<1>1. /\ queue # <<>> /\ open = 0 /\ prompt' = q /\ queue' = Tail(queue)
      /\ UNCHANGED <<turn, terminalTurns, asked, ofTurn, choice>>
      /\ lines = <<>> \/ waiting = <<>>
  BY DEF Terminal!AskApproval, Terminal!MayAsk, Terminal!TypedAhead
<1>2. /\ q \in 1..asked /\ asked \in 0..MaxQuestions /\ queue' \in Seq(1..asked)
      /\ answer \in [1..MaxQuestions -> Outcomes]
  BY <1>1 DEF TerminalFit, AskedTyped
<1> HIDE DEF q
<1>3. CASE closed
  <2>1. answer' = [answer EXCEPT ![q] = [what |-> "reject", at |-> q]] /\ UNCHANGED <<lines, waiting, open>>
    BY <1>3 DEF Terminal!AskApproval, q
  <2>2. answer' \in [1..MaxQuestions -> Outcomes]
    BY <1>2, <2>1, TerminalAssumption DEF Outcomes
  <2>3. AskedTyped'
    BY <1>1, <1>2, <2>1, <2>2, TerminalAssumption DEF TerminalFit, AskedTyped
  <2>5. TalkTyped'
    BY <1>1, <2>1 DEF TerminalFit, TalkTyped
  <2>4. QuestionFit'
    BY <1>1, <1>2, <2>1 DEF TerminalFit, QuestionFit, Terminal!Unanswered, Terminal!Nobody
  <2> QED
    BY <1>1, <2>1, <2>3, <2>4, <2>5 DEF TerminalFit, WaitingFit, Terminal!ChoiceIsAllowed
<1>4. CASE ~closed
  <2>1. lines' = <<>> /\ waiting' = Append(waiting, q) /\ open' = q /\ answer' = answer
    BY <1>4 DEF Terminal!AskApproval, Terminal!KeptAhead, q
  <2>2. AskedTyped'
    BY <1>1, <1>2, <2>1, TerminalAssumption DEF TerminalFit, AskedTyped
  <2>5. TalkTyped'
    BY <1>1, <2>1 DEF TerminalFit, TalkTyped
  <2>3. QuestionFit'
    BY <1>1, <1>2, <2>1 DEF TerminalFit, QuestionFit, Terminal!Unanswered, Terminal!Nobody
  <2>4. WaitingFit'
    <3>1. CASE waiting = <<>>
      <4>1. waiting' = <<q>>
        BY <2>1, <3>1
      <4> QED
        BY <1>2, <2>1, <4>1 DEF WaitingFit
    <3>2. CASE waiting # <<>>
      <4>1. waiting = <<0>> /\ turn = 0
        BY <1>1, <3>2, WaitingShapes DEF TerminalFit, WaitingFit
      <4>2. q \in Nat /\ q # 0
        BY <1>2
      <4>3. waiting' = <<0, open'>>
        BY <2>1, <4>1, <4>2, SecondAppended
      <4> QED
        BY <1>1, <2>1, <4>1, <4>2, <4>3 DEF WaitingFit
    <3> QED
      BY <3>1, <3>2
  <2> QED
    BY <1>1, <2>2, <2>5, <2>3, <2>4 DEF TerminalFit, Terminal!ChoiceIsAllowed
<1> QED
  BY <1>3, <1>4

LEMMA EndFits == ASSUME TerminalFit, Terminal!TurnEnds \/ Terminal!Interrupt PROVE TerminalFit'
<1>1. /\ turn # 0 /\ turn' = 0 /\ prompt' = 0 /\ waiting' = Append(waiting, 0)
      /\ UNCHANGED <<lines, terminalTurns, choice, asked, queue, open, ofTurn, answer>>
  BY DEF Terminal!TurnEnds, Terminal!Interrupt, Terminal!AskYou, Terminal!You, Terminal!approvals
<1>2. waiting' = <<0>> \/ (open # 0 /\ lines = <<>> /\ waiting' = <<open, 0>>)
  <2>1. CASE waiting = <<>>
    <3>1. waiting' = <<0>>
      BY <1>1, <2>1
    <3> QED
      BY <3>1
  <2>2. CASE waiting # <<>>
    <3>1. open \in Nat /\ open # 0 /\ waiting = <<open>>
      BY <1>1, <2>2, WaitingShapes DEF TerminalFit, AskedTyped
    <3>2. waiting' = <<open, 0>>
      BY <1>1, <3>1, SecondAppended
    <3>3. lines = <<>>
      BY <3>1 DEF TerminalFit, WaitingFit
    <3> QED
      BY <3>1, <3>2, <3>3
  <2> QED
    BY <2>1, <2>2
<1>3. WaitingFit'
  BY <1>1, <1>2 DEF WaitingFit
<1> QED
  BY <1>1, <1>3, TerminalAssumption
  DEF TerminalFit, TalkTyped, AskedTyped, QuestionFit, Terminal!ChoiceIsAllowed

LEMMA CloseFits == ASSUME TerminalFit, Terminal!Close PROVE TerminalFit'
<1>1. /\ waiting' = <<>> /\ lines' = <<>> /\ turn' = 0
      /\ UNCHANGED <<prompt, terminalTurns, asked, queue, ofTurn, choice>>
      /\ \/ open # 0 /\ open' = 0 /\ answer' = [answer EXCEPT ![open] = [what |-> "reject", at |-> open]]
         \/ UNCHANGED <<answer, open>>
  BY DEF Terminal!Close
<1>2. /\ open \in 0..asked /\ asked \in 0..MaxQuestions /\ answer \in [1..MaxQuestions -> Outcomes]
  BY DEF TerminalFit, AskedTyped
<1>3. answer' \in [1..MaxQuestions -> Outcomes]
  BY <1>1, <1>2, TerminalAssumption DEF Outcomes
<1>4. AskedTyped'
  BY <1>1, <1>2, <1>3, TerminalAssumption DEF TerminalFit, AskedTyped
<1>6. TalkTyped' /\ WaitingFit'
  BY <1>1 DEF TerminalFit, TalkTyped, WaitingFit
<1>5. QuestionFit'
  <2>1. \A q \in 1..MaxQuestions : q > asked => q # open /\ answer'[q] = answer[q]
    <3> SUFFICES ASSUME NEW q \in 1..MaxQuestions, q > asked PROVE q # open /\ answer'[q] = answer[q]
      OBVIOUS
    <3>1. q # open
      BY <1>2
    <3> QED
      BY <1>1, <1>2, <3>1
  <2> QED
    BY <1>1, <2>1 DEF TerminalFit, QuestionFit
<1> QED
  BY <1>1, <1>4, <1>5, <1>6 DEF TerminalFit, Terminal!ChoiceIsAllowed

\* The terminal takes its own steps in the composition: what a running turn is allowed was
\* typed at the prompt of that very question, whatever was typed ahead, interrupted or asked in
\* between; and the next turn has a provider the policy allows its agent (cli/chat.js).
THEOREM LinesAlwaysMeant == ConversationsSpec => []LinesAreMeant
<1>1. ConversationsInit => TerminalFit
  <2> SUFFICES ASSUME Terminal!Init PROVE TerminalFit
    BY DEF ConversationsInit
  <2>1. TalkTyped
    BY DEF Terminal!Init, TalkTyped, Choices
  <2>2. AskedTyped
    BY TerminalAssumption DEF Terminal!Init, Terminal!Questions, Terminal!You, AskedTyped, Outcomes,
       Terminal!Unanswered, Terminal!Nobody
  <2> QED
    BY <2>1, <2>2 DEF Terminal!Init, Terminal!Questions, Terminal!You, TerminalFit, WaitingFit,
       QuestionFit, Terminal!ChoiceIsAllowed, Terminal!Unanswered, Terminal!Nobody
<1>2. TerminalFit /\ [ConversationsNext]_conversationsVars => TerminalFit'
  <2>1. [ConversationsNext]_conversationsVars => [Terminal!Next]_(Terminal!vars)
    BY DEF ConversationsNext, ChatStep, ViewStep, TerminalStep, PageStep, conversationsVars,
       terminalVars, Terminal!vars, Terminal!input, Terminal!approvals
  <2>2. TerminalFit /\ Terminal!Next => TerminalFit'
    BY LineFits, TakeFits, RequestFits, AskFits, EndFits, CloseFits DEF Terminal!Next
  <2>3. TerminalFit /\ UNCHANGED Terminal!vars => TerminalFit'
    BY DEF Terminal!vars, Terminal!input, Terminal!approvals, TerminalFit, TalkTyped, AskedTyped,
       WaitingFit, QuestionFit, Terminal!ChoiceIsAllowed
  <2> QED
    BY <2>1, <2>2, <2>3
<1>3. TerminalFit => LinesAreMeant
  BY DEF TerminalFit, QuestionFit, LinesAreMeant, Terminal!YesIsMeant, Terminal!Questions
<1> QED
  BY <1>1, <1>2, <1>3, PTL DEF ConversationsSpec

-----------------------------------------------------------------------------
(* The chat on a page.                                                     *)

Talks    == 1..MaxSessions
Replies  == [ok : BOOLEAN, session : 0..MaxSessions, turns : Seq(Nat), on : BOOLEAN]
Requests == [kind : {"none", "send", "read", "compact"}, session : 0..MaxSessions, text : Nat,
             answer : Replies]
Pendings == [text : Nat, since : Nat, quiet : BOOLEAN, lost : BOOLEAN]

\* The answers that wait to be read, in their order.
Got(n)     == flight[line[n]]
ReadAt(n)  == Got(n).kind = "read"
TakenAt(n) == Got(n).kind = "send" /\ Got(n).answer.ok
NoneTaken  == \A n \in 1..Len(line) : ~TakenAt(n)

ViewTyped ==
  /\ recorded \in [Talks -> Seq(Nat)] /\ running \in [Talks -> Nat] /\ created \in 0..MaxSessions
  /\ viewSession \in 0..created /\ viewTurns \in Seq(Nat) /\ viewPending \in Pendings
  /\ on \in BOOLEAN /\ box \in Nat /\ viewTyped \in Nat /\ last \in Nat
  /\ flight \in [1..MaxFlight -> Requests] /\ line \in Seq(1..MaxFlight)

\* A slot is empty, waits for its answer, or is once among the answers that wait.
SlotFit ==
  /\ \A n \in 1..Len(line) : Got(n).kind # "none" /\ (ReadAt(n) => Got(n).answer.ok)
  /\ \A m, n \in 1..Len(line) : m # n => line[m] # line[n]
  /\ \A i \in 1..MaxFlight : /\ flight[i].kind = "none" => flight[i] = View!Free
                             /\ (\A n \in 1..Len(line) : line[n] # i) => flight[i].answer = View!NoAnswer

\* All that is under way is about the conversation shown, and one message at most, the one in
\* the box.
FlightFit ==
  /\ \A i \in 1..MaxFlight : flight[i].kind # "none" => flight[i].session = viewSession
  /\ \A i \in 1..MaxFlight : flight[i].kind = "send" => flight[i].text = box /\ box # 0
  /\ \A i, j \in 1..MaxFlight : flight[i].kind = "send" /\ flight[j].kind = "send" => i = j
  /\ viewSession = 0 => /\ viewTurns = <<>> /\ last = 0
                        /\ \A i \in 1..MaxFlight : flight[i].kind \in {"none", "send"}

\* The message in the box is new to every conversation until it is accepted, and a conversation
\* that was not created is empty.
FreshFit ==
  /\ box <= viewTyped /\ last <= viewTyped /\ (box # 0 => box # last)
  /\ \A s \in Talks : /\ running[s] <= viewTyped
                      /\ \A n \in DOMAIN recorded[s] : recorded[s][n] \in 1..viewTyped
                      /\ s > created => recorded[s] = <<>> /\ running[s] = 0 /\ s \notin compacting
  /\ box # 0 /\ NoneTaken => \A s \in Talks : /\ running[s] # box
                                              /\ \A n \in DOMAIN recorded[s] : recorded[s][n] # box

\* The conversation stands where the page shows it; or message c is being answered there, or
\* was, with or without a record.
Resting(s) == recorded[s] = viewTurns /\ running[s] = 0
Course(s, c) ==
  \/ running[s] = c /\ recorded[s] = viewTurns
  \/ running[s] = 0 /\ recorded[s] \in {viewTurns, Append(viewTurns, c)}

\* The answers behind place p have seen that course, the later ones no less of it.
Following(s, c, p) ==
  /\ Course(s, c)
  /\ \A n \in 1..Len(line) : p < n /\ ReadAt(n) =>
       /\ Got(n).answer.turns \in {viewTurns, recorded[s]}
       /\ ~Got(n).answer.on => Got(n).answer.turns = recorded[s] /\ running[s] = 0
  /\ \A m, n \in 1..Len(line) : p < m /\ m < n /\ ReadAt(m) /\ ReadAt(n) =>
       (Got(m).answer.turns # viewTurns => Got(n).answer.turns # viewTurns)

SameBefore(p) == \A n \in 1..Len(line) : n < p /\ ReadAt(n) => Got(n).answer.turns = viewTurns
AllSame == \A n \in 1..Len(line) : ReadAt(n) => Got(n).answer.turns = viewTurns

TakenFit ==
  \A p \in 1..Len(line) : TakenAt(p) =>
    /\ Got(p).answer.session \in 1..created /\ viewSession \in {0, Got(p).answer.session}
    /\ \A n \in DOMAIN viewTurns : viewTurns[n] # box
    /\ Following(Got(p).answer.session, box, p) /\ SameBefore(p)

PendingFit ==
  NoneTaken /\ last # 0 /\ viewPending.text = last =>
    Following(viewSession, last, 0) /\ (~on \/ viewPending.lost => Resting(viewSession))

ShownFit ==
  NoneTaken /\ last # 0 /\ viewPending.text # last => Resting(viewSession) /\ AllSame

IdleFit ==
  NoneTaken /\ last = 0 /\ viewSession # 0 =>
    /\ \A n \in 1..Len(line) : ReadAt(n) /\ ~Got(n).answer.on =>
         Got(n).answer.turns = recorded[viewSession] /\ running[viewSession] = 0
    /\ ~on => Resting(viewSession) \/ \E i \in 1..MaxFlight : flight[i].kind = "read"

WaitFit ==
  NoneTaken /\ viewSession # 0 /\ (\E i \in 1..MaxFlight : flight[i].kind = "send") =>
    Resting(viewSession) /\ AllSame

SightFit ==
  /\ last = 0 => viewPending = View!NoPending
  /\ last # 0 => \/ /\ viewPending.text = last /\ viewPending.since = Len(viewTurns)
                    /\ ~View!Shown(last)
                 \/ viewPending = View!NoPending /\ View!Shown(last)
  /\ viewPending.lost => running[viewSession] # last

ViewFit ==
  /\ ViewTyped /\ SlotFit /\ FlightFit /\ FreshFit
  /\ TakenFit /\ PendingFit /\ ShownFit /\ IdleFit /\ WaitFit /\ SightFit

\* What a request and its answer are, seen through the line.
LEMMA GotTyped ==
  ASSUME ViewTyped
  PROVE  /\ Len(line) \in Nat /\ DOMAIN line = 1..Len(line)
         /\ \A n \in 1..Len(line) : line[n] \in 1..MaxFlight /\ Got(n) \in Requests
<1>1. line \in Seq(1..MaxFlight) /\ flight \in [1..MaxFlight -> Requests]
  BY DEF ViewTyped
<1>2. Len(line) \in Nat /\ DOMAIN line = 1..Len(line)
  BY <1>1
<1>3. \A n \in 1..Len(line) : line[n] \in 1..MaxFlight
  BY <1>1, ElementOfSeq
<1> QED
  BY <1>1, <1>2, <1>3 DEF Got

\* The empty slot, and what stands in a slot before the answer.
LEMMA NoAnswerTyped == View!NoAnswer \in Replies /\ View!Free \in Requests
<1>1. <<>> \in Seq(Nat) /\ 0 \in 0..MaxSessions
  BY ViewAssumption
<1>2. View!NoAnswer \in Replies
  BY <1>1 DEF View!NoAnswer, View!Blank, Replies
<1> QED
  BY <1>1, <1>2 DEF View!Free, View!Blank, Requests

\* Only the head of the line is read, while orderly holds; the others move up.
LEMMA LineTaken ==
  ASSUME ViewTyped, SlotFit, NEW i \in 1..MaxFlight, View!TakeAnswer(i), orderly'
  PROVE  /\ orderly /\ 1 \in 1..Len(line) /\ Got(1) = flight[i] /\ line[1] = i
         /\ line' \in Seq(1..MaxFlight) /\ Len(line') = Len(line) - 1
         /\ \A n \in 1..Len(line') : /\ n + 1 \in 1..Len(line) /\ line'[n] = line[n + 1]
                                      /\ flight'[line'[n]] = flight[line[n + 1]]
         /\ flight' \in [1..MaxFlight -> Requests] /\ flight'[i] = View!Free
         /\ \A j \in 1..MaxFlight \ {i} : flight'[j] = flight[j]
         /\ SlotFit'
<1>1. PICK n \in DOMAIN line :
        /\ line[n] = i /\ line' = SubSeq(line, 1, n - 1) \o SubSeq(line, n + 1, Len(line))
        /\ flight' = [flight EXCEPT ![i] = View!Free] /\ orderly' = (orderly /\ n = 1)
  BY DEF View!TakeAnswer
<1>2. n = 1 /\ orderly
  BY <1>1
<1>3. line \in Seq(1..MaxFlight) /\ 1 \in 1..Len(line) /\ Len(line) \in Nat
  BY <1>1, <1>2 DEF ViewTyped
<1>4. line' = <<>> \o SubSeq(line, 2, Len(line))
  <2>1. SubSeq(line, 1, 0) \in Seq(1..MaxFlight) /\ Len(SubSeq(line, 1, 0)) = 0
    BY <1>3, SubSeqProperties
  <2>2. SubSeq(line, 1, 0) = <<>>
    BY <2>1
  <2>3. line' = SubSeq(line, 1, 0) \o SubSeq(line, 2, Len(line))
    BY <1>1, <1>2
  <2> QED
    BY <2>2, <2>3
<1>5. line' \in Seq(1..MaxFlight) /\ Len(line') = Len(line) - 1
      /\ \A k \in 1..Len(line') : line'[k] = line[k + 1]
  <2> DEFINE rest == SubSeq(line, 2, Len(line))
  <2>1. /\ rest \in Seq(1..MaxFlight) /\ Len(rest) = Len(line) - 1
        /\ \A k \in 1..(Len(line) - 1) : rest[k] = line[2 + k - 1]
    <3>1. \A k \in 2..Len(line) : line[k] \in 1..MaxFlight
      <4>1. \A k \in 2..Len(line) : k \in 1..Len(line)
        BY <1>3
      <4> QED
        BY <1>3, <4>1, ElementOfSeq
    <3>2. 2 \in Int /\ Len(line) \in Int /\ Len(line) >= 1
      BY <1>3
    <3>3. /\ rest \in Seq(1..MaxFlight)
          /\ Len(rest) = IF 2 <= Len(line) THEN Len(line) - 2 + 1 ELSE 0
          /\ \A k \in 1..(Len(line) - 2 + 1) : rest[k] = line[2 + k - 1]
      BY <3>1, <3>2, SubSeqProperties
    <3> HIDE DEF rest
    <3>4. Len(line) - 2 + 1 = Len(line) - 1
      BY <3>2
    <3>5. Len(rest) = Len(line) - 1
      <4>1. CASE 2 <= Len(line)
        BY <3>3, <3>4, <4>1
      <4>2. CASE ~(2 <= Len(line))
        <5>1. Len(line) = 1 /\ Len(line) - 1 = 0
          BY <3>2, <4>2
        <5>2. Len(rest) = 0
          BY <3>3, <4>2
        <5> QED
          BY <5>1, <5>2
      <4> QED
        BY <4>1, <4>2
    <3> QED
      BY <3>3, <3>4, <3>5
  <2>2. line' = rest
    BY <1>4, <2>1, ConcatEmptySeq
  <2> HIDE DEF rest
  <2> QED
    BY <1>3, <2>1, <2>2
<1>6. \A k \in 1..Len(line') : k + 1 \in 1..Len(line) /\ line'[k] # i
  BY <1>1, <1>2, <1>3, <1>5 DEF SlotFit
<1>7. View!Free \in Requests
  BY NoAnswerTyped
<1>8. /\ flight' \in [1..MaxFlight -> Requests] /\ flight'[i] = View!Free
      /\ \A j \in 1..MaxFlight \ {i} : flight'[j] = flight[j]
  BY <1>1, <1>7 DEF ViewTyped
<1>9. ASSUME NEW k \in 1..Len(line')
      PROVE  line'[k] \in 1..MaxFlight /\ flight'[line'[k]] = flight[line[k + 1]]
  <2>1. k + 1 \in 1..Len(line) /\ line'[k] = line[k + 1] /\ line[k + 1] # i
    BY <1>5, <1>6
  <2>2. line[k + 1] \in 1..MaxFlight \ {i}
    BY <2>1, GotTyped
  <2> QED
    BY <1>8, <2>1, <2>2
<1>10. SlotFit'
  <2>1. ASSUME NEW k \in 1..Len(line')
        PROVE  /\ flight'[line'[k]].kind # "none"
               /\ flight'[line'[k]].kind = "read" => flight'[line'[k]].answer.ok
    <3>1. k + 1 \in 1..Len(line) /\ flight'[line'[k]] = Got(k + 1)
      BY <1>6, <1>9 DEF Got
    <3> QED
      BY <3>1 DEF SlotFit, ReadAt
  <2>2. \A k, m \in 1..Len(line') : m # k => line'[m] # line'[k]
    BY <1>3, <1>5, <1>6 DEF SlotFit
  <2>3. ASSUME NEW j \in 1..MaxFlight
        PROVE  /\ flight'[j].kind = "none" => flight'[j] = View!Free
               /\ (\A k \in 1..Len(line') : line'[k] # j) => flight'[j].answer = View!NoAnswer
    <3>1. CASE j = i
      BY <1>8, <3>1 DEF View!Free
    <3>2. ASSUME j # i, \A k \in 1..Len(line') : line'[k] # j PROVE flight'[j].answer = View!NoAnswer
      <4>1. ASSUME NEW m \in 1..Len(line), line[m] = j PROVE FALSE
        <5>1. m # 1 /\ m - 1 \in 1..Len(line')
          BY <1>1, <1>2, <1>3, <1>5, <3>2, <4>1
        <5>2. line'[m - 1] = line[m]
          BY <1>3, <1>5, <5>1
        <5> QED
          BY <3>2, <4>1, <5>1, <5>2
      <4> QED
        BY <1>8, <3>2, <4>1 DEF SlotFit
    <3>3. j # i /\ flight'[j].kind = "none" => flight'[j] = View!Free
      BY <1>8 DEF SlotFit
    <3> QED
      BY <3>1, <3>2, <3>3
  <2> QED
    BY <2>1, <2>2, <2>3 DEF SlotFit, Got, ReadAt
<1> QED
  BY <1>1, <1>2, <1>3, <1>5, <1>6, <1>8, <1>9, <1>10 DEF Got

\* An answer goes to the end of the line.
LEMMA LineAnswered ==
  ASSUME ViewTyped, SlotFit, NEW i \in 1..MaxFlight, NEW a \in Replies, View!Waiting(i), View!Answer(i, a),
         flight[i].kind = "read" => a.ok
  PROVE  /\ flight[i].kind # "none" /\ flight[i].answer = View!NoAnswer
         /\ line' \in Seq(1..MaxFlight) /\ Len(line') = Len(line) + 1
         /\ \A n \in 1..Len(line) : /\ n \in 1..Len(line') /\ line'[n] = line[n] /\ line[n] # i
                                     /\ flight'[line'[n]] = flight[line[n]]
         /\ line'[Len(line) + 1] = i
         /\ flight' \in [1..MaxFlight -> Requests] /\ flight'[i] = [flight[i] EXCEPT !.answer = a]
         /\ \A j \in 1..MaxFlight \ {i} : flight'[j] = flight[j]
         /\ SlotFit'
<1>1. /\ flight[i] # View!Free /\ \A n \in 1..Len(line) : line[n] # i
      /\ flight' = [flight EXCEPT ![i].answer = a] /\ line' = Append(line, i)
  BY GotTyped DEF View!Waiting, View!Unread, View!Answer
<1>2. line \in Seq(1..MaxFlight) /\ Len(line) \in Nat /\ flight[i] \in Requests
  BY GotTyped DEF ViewTyped
<1>3. /\ line' \in Seq(1..MaxFlight) /\ Len(line') = Len(line) + 1 /\ line'[Len(line) + 1] = i
      /\ \A n \in 1..Len(line) : line'[n] = line[n]
  BY <1>1, <1>2
<1>4. [flight[i] EXCEPT !.answer = a] \in Requests
  BY <1>2 DEF Requests
<1>5. /\ flight' \in [1..MaxFlight -> Requests] /\ flight'[i] = [flight[i] EXCEPT !.answer = a]
      /\ \A j \in 1..MaxFlight \ {i} : flight'[j] = flight[j]
  BY <1>1, <1>4 DEF ViewTyped
<1>6. ASSUME NEW n \in 1..Len(line)
      PROVE  line[n] \in 1..MaxFlight /\ flight'[line'[n]] = flight[line[n]]
  <2>1. line[n] \in 1..MaxFlight \ {i} /\ line'[n] = line[n]
    BY <1>1, <1>3, GotTyped
  <2> QED
    BY <1>5, <2>1
<1>7. flight[i].kind # "none" /\ flight[i].answer = View!NoAnswer
  BY <1>1 DEF SlotFit
<1>8. flight'[i].kind = flight[i].kind /\ flight'[i].answer = a
  BY <1>2, <1>5 DEF Requests
<1>9. SlotFit'
  <2>1. ASSUME NEW n \in 1..Len(line')
        PROVE  /\ flight'[line'[n]].kind # "none"
               /\ flight'[line'[n]].kind = "read" => flight'[line'[n]].answer.ok
    <3>1. CASE n \in 1..Len(line)
      BY <1>6, <3>1 DEF SlotFit, Got, ReadAt
    <3>2. CASE n = Len(line) + 1
      BY <1>3, <1>7, <1>8, <3>2
    <3> QED
      BY <1>2, <1>3, <3>1, <3>2
  <2>2. \A n, m \in 1..Len(line') : m # n => line'[m] # line'[n]
    <3>1. \A n \in 1..Len(line') : n \in 1..Len(line) \/ n = Len(line) + 1
      BY <1>2, <1>3
    <3> QED
      BY <1>1, <1>3, <3>1 DEF SlotFit
  <2>3. ASSUME NEW j \in 1..MaxFlight
        PROVE  /\ flight'[j].kind = "none" => flight'[j] = View!Free
               /\ (\A n \in 1..Len(line') : line'[n] # j) => flight'[j].answer = View!NoAnswer
    <3>1. CASE j = i
      <4>1. Len(line) + 1 \in 1..Len(line')
        BY <1>2, <1>3
      <4> QED
        BY <1>3, <1>7, <1>8, <3>1, <4>1
    <3>2. CASE j # i
      <4>1. \A n \in 1..Len(line) : n \in 1..Len(line')
        BY <1>2, <1>3
      <4> QED
        BY <1>3, <1>5, <3>2, <4>1 DEF SlotFit
    <3> QED
      BY <3>1, <3>2
  <2> QED
    BY <2>1, <2>2, <2>3 DEF SlotFit, Got, ReadAt
<1>10. \A n \in 1..Len(line) : n \in 1..Len(line')
  BY <1>2, <1>3
<1> QED
  BY <1>1, <1>3, <1>5, <1>6, <1>7, <1>9, <1>10

\* A request takes an empty slot, which no answer in the line stands in.
LEMMA LineAsked ==
  ASSUME ViewTyped, SlotFit, NEW kind \in {"send", "read", "compact"}, NEW s \in 0..MaxSessions,
         NEW text \in Nat, View!Ask(kind, s, text), line' = line
  PROVE  \E i \in 1..MaxFlight :
           /\ flight[i] = View!Free /\ \A n \in 1..Len(line) : line[n] # i
           /\ flight' \in [1..MaxFlight -> Requests]
           /\ flight'[i] = [kind |-> kind, session |-> s, text |-> text, answer |-> View!NoAnswer]
           /\ \A j \in 1..MaxFlight \ {i} : flight'[j] = flight[j]
           /\ \A n \in 1..Len(line) : flight'[line'[n]] = flight[line[n]]
           /\ SlotFit'
<1> DEFINE request == [kind |-> kind, session |-> s, text |-> text, answer |-> View!NoAnswer]
<1>1. PICK i \in 1..MaxFlight : flight[i] = View!Free /\ flight' = [flight EXCEPT ![i] = request]
  BY DEF View!Ask, View!Slots
<1>2. request \in Requests /\ request.kind = kind /\ request.answer = View!NoAnswer
  BY NoAnswerTyped DEF Requests
<1> HIDE DEF request
<1>3. \A n \in 1..Len(line) : line[n] # i /\ line[n] \in 1..MaxFlight
  <2>1. View!Free.kind = "none"
    BY DEF View!Free
  <2> QED
    BY <1>1, <2>1, GotTyped DEF SlotFit, Got
<1>4. /\ flight' \in [1..MaxFlight -> Requests] /\ flight'[i] = request
      /\ \A j \in 1..MaxFlight \ {i} : flight'[j] = flight[j]
  BY <1>1, <1>2 DEF ViewTyped
<1>5. \A n \in 1..Len(line) : flight'[line'[n]] = flight[line[n]]
  BY <1>3, <1>4
<1>6. SlotFit'
  <2>1. \A n \in 1..Len(line) : flight'[line'[n]].kind # "none"
          /\ (flight'[line'[n]].kind = "read" => flight'[line'[n]].answer.ok)
    BY <1>5 DEF SlotFit, Got, ReadAt
  <2>2. ASSUME NEW j \in 1..MaxFlight
        PROVE  /\ flight'[j].kind = "none" => flight'[j] = View!Free
               /\ (\A n \in 1..Len(line) : line[n] # j) => flight'[j].answer = View!NoAnswer
    BY <1>2, <1>4 DEF SlotFit
  <2> QED
    BY <2>1, <2>2 DEF SlotFit, Got, ReadAt
<1> QED
  BY <1>1, <1>3, <1>4, <1>5, <1>6 DEF request

\* Answers that moved up k places, and did so without a word that matters here.
LEMMA DullStep ==
  ASSUME ViewFit, ViewTyped',
         UNCHANGED <<recorded, running, created, viewSession, viewTurns, viewPending, on, box, last>>,
         NEW k \in {0, 1},
         \A n \in 1..Len(line') : ReadAt(n)' \/ TakenAt(n)' => n + k \in 1..Len(line) /\ Got(n)' = Got(n + k),
         \A n \in 1..Len(line) : ReadAt(n) \/ TakenAt(n) => \/ k = 0 /\ n \in 1..Len(line') /\ Got(n)' = Got(n)
                                                            \/ k = 1 /\ n - 1 \in 1..Len(line')
                                                               /\ flight'[line'[n - 1]] = Got(n),
         (\E i \in 1..MaxFlight : flight[i].kind = "read") => \E i \in 1..MaxFlight : flight'[i].kind = "read",
         (\E i \in 1..MaxFlight : flight'[i].kind = "send") =>
           \/ \E i \in 1..MaxFlight : flight[i].kind = "send"
           \/ viewSession # 0 => Resting(viewSession) /\ AllSame
  PROVE  (TakenFit /\ PendingFit /\ ShownFit /\ IdleFit /\ WaitFit /\ SightFit)'
<1>1. Len(line) \in Nat /\ Len(line') \in Nat
  BY GotTyped DEF ViewFit, ViewTyped
<1>2. \A n \in 1..Len(line') : /\ ReadAt(n)' => ReadAt(n + k)
                               /\ TakenAt(n)' => TakenAt(n + k)
  BY DEF ReadAt, TakenAt
<1>3. NoneTaken' => NoneTaken
  <2>1. ASSUME NEW n \in 1..Len(line), TakenAt(n)
        PROVE  \E m \in 1..Len(line') : TakenAt(m)'
    <3>1. CASE k = 0 /\ n \in 1..Len(line') /\ Got(n)' = Got(n)
      <4>1. TakenAt(n)'
        BY <2>1, <3>1 DEF TakenAt
      <4> QED
        BY <3>1, <4>1
    <3>2. CASE k = 1 /\ n - 1 \in 1..Len(line') /\ flight'[line'[n - 1]] = Got(n)
      <4>1. TakenAt(n - 1)'
        BY <2>1, <3>2 DEF TakenAt, Got
      <4> QED
        BY <3>2, <4>1
    <3> QED
      BY <2>1, <3>1, <3>2
  <2> QED
    BY <2>1 DEF NoneTaken
<1>4. \A s, c : Course(s, c)' <=> Course(s, c)
  BY DEF Course
<1>5. \A s : Resting(s)' <=> Resting(s)
  BY DEF Resting
<1>6. ASSUME NEW s, NEW c, NEW p \in Nat, Following(s, c, p + k)
      PROVE  Following(s, c, p)'
  <2>1. Course(s, c)'
    BY <1>4, <1>6 DEF Following
  <2>2. ASSUME NEW n \in 1..Len(line'), p < n, ReadAt(n)'
        PROVE  /\ Got(n)'.answer.turns \in {viewTurns', recorded'[s]}
               /\ ~Got(n)'.answer.on => Got(n)'.answer.turns = recorded'[s] /\ running'[s] = 0
    <3>1. n + k \in 1..Len(line) /\ p + k < n + k /\ ReadAt(n + k) /\ Got(n)' = Got(n + k)
      BY <1>2, <2>2
    <3> QED
      BY <1>6, <3>1 DEF Following
  <2>3. ASSUME NEW m \in 1..Len(line'), NEW n \in 1..Len(line'), p < m, m < n, ReadAt(m)', ReadAt(n)'
        PROVE  Got(m)'.answer.turns # viewTurns' => Got(n)'.answer.turns # viewTurns'
    <3>1. n + k \in 1..Len(line) /\ ReadAt(n + k) /\ Got(n)' = Got(n + k)
      BY <1>2, <2>3
    <3>2. m + k \in 1..Len(line) /\ ReadAt(m + k) /\ Got(m)' = Got(m + k)
      BY <1>2, <2>3
    <3>3. p + k < m + k /\ m + k < n + k
      BY <2>3
    <3> QED
      BY <1>6, <3>1, <3>2, <3>3 DEF Following
  <2> QED
    BY <2>1, <2>2, <2>3 DEF Following
<1>7. AllSame => AllSame'
  BY <1>2 DEF AllSame
<1>8. TakenFit'
  <2>1. ASSUME NEW p \in 1..Len(line'), TakenAt(p)'
        PROVE  (/\ Got(p).answer.session \in 1..created /\ viewSession \in {0, Got(p).answer.session}
                /\ \A n \in DOMAIN viewTurns : viewTurns[n] # box
                /\ Following(Got(p).answer.session, box, p) /\ SameBefore(p))'
    <3>1. p + k \in 1..Len(line) /\ TakenAt(p + k) /\ Got(p)' = Got(p + k) /\ p \in Nat
      BY <1>2, <2>1
    <3>2. /\ Got(p + k).answer.session \in 1..created
          /\ viewSession \in {0, Got(p + k).answer.session}
          /\ \A n \in DOMAIN viewTurns : viewTurns[n] # box
          /\ Following(Got(p + k).answer.session, box, p + k) /\ SameBefore(p + k)
      BY <3>1 DEF ViewFit, TakenFit
    <3>3. SameBefore(p)'
      <4>1. ASSUME NEW n \in 1..Len(line'), n < p, ReadAt(n)'
            PROVE  Got(n)'.answer.turns = viewTurns'
        <5>1. n + k \in 1..Len(line) /\ ReadAt(n + k) /\ Got(n)' = Got(n + k) /\ n + k < p + k
          BY <1>2, <4>1
        <5> QED
          BY <3>2, <5>1 DEF SameBefore
      <4> QED
        BY <4>1 DEF SameBefore
    <3>4. Following(Got(p).answer.session, box, p)'
      <4>1. PICK s \in {Got(p + k).answer.session}, c \in {box} : s = Got(p + k).answer.session /\ c = box
        OBVIOUS
      <4>2. Following(s, c, p)'
        BY <1>6, <3>1, <3>2, <4>1
      <4> QED
        BY <3>1, <4>1, <4>2 DEF Following, Course
    <3> QED
      BY <3>1, <3>2, <3>3, <3>4
  <2> QED
    BY <2>1 DEF TakenFit
<1>9. PendingFit'
  <2>1. ASSUME NoneTaken', last' # 0, viewPending'.text = last'
        PROVE  Following(viewSession, last, 0)' /\ (~on' \/ viewPending'.lost => Resting(viewSession)')
    <3>1. Following(viewSession, last, 0) /\ (~on \/ viewPending.lost => Resting(viewSession))
      BY <1>3, <2>1 DEF ViewFit, PendingFit
    <3>2. Following(viewSession, last, 0 + k)
      BY <3>1 DEF Following
    <3>3. PICK s \in {viewSession}, c \in {last} : s = viewSession /\ c = last
      OBVIOUS
    <3>4. Following(s, c, 0)'
      BY <1>6, <3>2, <3>3
    <3>5. Following(viewSession, last, 0)'
      BY <3>3, <3>4 DEF Following, Course
    <3> QED
      BY <1>5, <3>1, <3>5 DEF Resting
  <2> QED
    BY <2>1 DEF PendingFit
<1>10. ShownFit'
  BY <1>3, <1>7 DEF ViewFit, ShownFit, Resting
<1>11. IdleFit'
  <2>1. ASSUME NoneTaken', last' = 0, viewSession' # 0
        PROVE  /\ \A n \in 1..Len(line') : ReadAt(n)' /\ ~Got(n)'.answer.on =>
                    Got(n)'.answer.turns = recorded'[viewSession'] /\ running'[viewSession'] = 0
               /\ ~on' => Resting(viewSession)' \/ \E i \in 1..MaxFlight : flight'[i].kind = "read"
    BY <1>2, <1>3, <2>1 DEF ViewFit, IdleFit, Resting
  <2> QED
    BY <2>1 DEF IdleFit
<1>12. WaitFit'
  BY <1>3, <1>7 DEF ViewFit, WaitFit, Resting
<1>13. SightFit'
  BY DEF ViewFit, SightFit, View!Shown, View!NoPending
<1> QED
  BY <1>8, <1>9, <1>10, <1>11, <1>12, <1>13

\* Nothing was asked, answered or read.
LEMMA LineKept ==
  ASSUME UNCHANGED <<flight, line>>
  PROVE  /\ \A n : Got(n)' = Got(n) /\ ReadAt(n)' = ReadAt(n) /\ TakenAt(n)' = TakenAt(n)
         /\ NoneTaken' = NoneTaken /\ (SlotFit => SlotFit')
<1>1. \A n : Got(n)' = Got(n)
  BY DEF Got
<1>2. \A n : ReadAt(n)' = ReadAt(n) /\ TakenAt(n)' = TakenAt(n)
  BY <1>1 DEF ReadAt, TakenAt
<1> QED
  BY <1>1, <1>2 DEF NoneTaken, SlotFit

\* A summary tells nothing of turns.
LEMMA SummaryStep ==
  ASSUME ViewFit, NEW s \in Talks, View!SummaryEnds(s)
  PROVE  ViewFit'
<1> USE DEF View!SummaryEnds, View!page
<1>1. ViewTyped' /\ SlotFit' /\ FlightFit' /\ FreshFit'
  BY LineKept DEF ViewFit, ViewTyped, FlightFit, FreshFit
<1>2. (TakenFit /\ PendingFit /\ ShownFit /\ IdleFit /\ WaitFit /\ SightFit)'
  BY <1>1, DullStep, LineKept, 0 \in {0, 1} DEF ViewFit
<1> QED
  BY <1>1, <1>2 DEF ViewFit

\* What is typed is new.
LEMMA TypingStep ==
  ASSUME ViewFit, View!Type
  PROVE  ViewFit'
<1> USE DEF View!Type, View!server, View!Blank
<1>1. ViewTyped' /\ SlotFit' /\ FlightFit' /\ FreshFit'
  BY LineKept DEF ViewFit, ViewTyped, FlightFit, FreshFit
<1>2. NoneTaken /\ NoneTaken'
  BY LineKept, GotTyped DEF ViewFit, FlightFit, NoneTaken, TakenAt, Got
<1>3. PendingFit' /\ ShownFit' /\ IdleFit' /\ WaitFit' /\ SightFit' /\ TakenFit'
  BY <1>2, LineKept DEF ViewFit, PendingFit, ShownFit, IdleFit, WaitFit, SightFit, TakenFit, NoneTaken,
     Following, Course, Resting, AllSame, View!Shown
<1> QED
  BY <1>1, <1>3 DEF ViewFit

\* A turn that ends has been seen running by every answer given so far.
LEMMA TurnStep ==
  ASSUME ViewFit, NEW s \in Talks, View!TurnEnds(s)
  PROVE  ViewFit'
<1> USE DEF View!page, View!Blank
<1>1. /\ running[s] # 0 /\ running' = [running EXCEPT ![s] = 0]
      /\ recorded' \in {recorded, [recorded EXCEPT ![s] = Append(@, running[s])]}
      /\ UNCHANGED <<compacting, created, viewSession, viewTurns, viewPending, on, box, viewTyped, flight,
                     line, last>>
  BY DEF View!TurnEnds
<1>2. /\ \A t \in Talks \ {s} : running'[t] = running[t] /\ recorded'[t] = recorded[t]
      /\ running'[s] = 0 /\ recorded'[s] \in {recorded[s], Append(recorded[s], running[s])}
  BY <1>1 DEF ViewFit, ViewTyped
<1>3. ViewTyped'
  <2>1. recorded[s] \in Seq(Nat) /\ running[s] \in Nat
    BY DEF ViewFit, ViewTyped
  <2>2. Append(recorded[s], running[s]) \in Seq(Nat)
    BY <2>1, AppendProperties
  <2>3. recorded' \in [Talks -> Seq(Nat)] /\ running' \in [Talks -> Nat]
    BY <1>1, <2>2 DEF ViewFit, ViewTyped
  <2> QED
    BY <1>1, <2>3 DEF ViewFit, ViewTyped
<1>4. ASSUME NEW t \in Talks, NEW m \in DOMAIN recorded'[t]
      PROVE  \/ m \in DOMAIN recorded[t] /\ recorded'[t][m] = recorded[t][m]
             \/ t = s /\ recorded'[t][m] = running[s]
  <2>1. CASE recorded'[t] = recorded[t]
    BY <1>4, <2>1
  <2>2. CASE t = s /\ recorded'[t] = Append(recorded[s], running[s])
    <3>1. recorded[s] \in Seq(Nat) /\ running[s] \in Nat
      BY DEF ViewFit, ViewTyped
    <3>2. /\ Append(recorded[s], running[s]) \in Seq(Nat)
          /\ Len(Append(recorded[s], running[s])) = Len(recorded[s]) + 1
          /\ \A n \in 1..Len(recorded[s]) : Append(recorded[s], running[s])[n] = recorded[s][n]
          /\ Append(recorded[s], running[s])[Len(recorded[s]) + 1] = running[s]
      BY <3>1, AppendProperties
    <3>3. m \in 1..(Len(recorded[s]) + 1) /\ DOMAIN recorded[s] = 1..Len(recorded[s])
          /\ Len(recorded[s]) \in Nat
      BY <1>4, <2>2, <3>1, <3>2
    <3> QED
      BY <2>2, <3>2, <3>3
  <2> QED
    BY <1>2, <1>4, <2>1, <2>2
<1>5. SlotFit' /\ FlightFit'
  BY <1>1, LineKept DEF ViewFit, FlightFit
<1>6. FreshFit'
  <2>1. \A t \in Talks : /\ running'[t] <= viewTyped'
                         /\ \A n \in DOMAIN recorded'[t] : recorded'[t][n] \in 1..viewTyped'
                         /\ t > created' => recorded'[t] = <<>> /\ running'[t] = 0 /\ t \notin compacting'
    BY <1>1, <1>2, <1>4 DEF ViewFit, ViewTyped, FreshFit
  <2>2. box' # 0 /\ NoneTaken' => \A t \in Talks : /\ running'[t] # box'
                                                   /\ \A n \in DOMAIN recorded'[t] : recorded'[t][n] # box'
    <3>1. SUFFICES ASSUME box # 0, NoneTaken, NEW t \in Talks
                   PROVE  running'[t] # box /\ \A n \in DOMAIN recorded'[t] : recorded'[t][n] # box
      BY <1>1, LineKept
    <3>2. running[t] # box /\ running[s] # box /\ \A n \in DOMAIN recorded[t] : recorded[t][n] # box
      BY <3>1 DEF ViewFit, FreshFit
    <3> QED
      BY <1>2, <1>4, <3>1, <3>2
  <2> QED
    BY <1>1, <2>1, <2>2 DEF ViewFit, FreshFit
<1>7. ASSUME NEW t \in Talks, Resting(t)
      PROVE  Resting(t)'
  BY <1>1, <1>2, <1>7 DEF Resting
<1>8. ASSUME NEW t \in Talks, NEW c, NEW p, Following(t, c, p)
      PROVE  Following(t, c, p)'
  <2>1. Course(t, c)'
    BY <1>1, <1>2, <1>8 DEF Following, Course
  <2>2. \A n \in 1..Len(line) : p < n /\ ReadAt(n) =>
          /\ Got(n).answer.turns \in {viewTurns, recorded'[t]}
          /\ ~Got(n).answer.on => Got(n).answer.turns = recorded'[t] /\ running'[t] = 0
    BY <1>1, <1>2, <1>8 DEF Following, Course
  <2> QED
    BY <1>1, <1>8, <2>1, <2>2, LineKept DEF Following
<1>9. TakenFit'
  <2>1. 1..created \subseteq Talks
    BY ViewAssumption DEF ViewFit, ViewTyped, Talks
  <2>2. ASSUME NEW p \in 1..Len(line), TakenAt(p)
        PROVE  (/\ Got(p).answer.session \in 1..created /\ viewSession \in {0, Got(p).answer.session}
                /\ \A n \in DOMAIN viewTurns : viewTurns[n] # box
                /\ Following(Got(p).answer.session, box, p) /\ SameBefore(p))'
    <3>1. /\ Got(p).answer.session \in 1..created /\ viewSession \in {0, Got(p).answer.session}
          /\ \A n \in DOMAIN viewTurns : viewTurns[n] # box
          /\ Following(Got(p).answer.session, box, p) /\ SameBefore(p)
      BY <2>2 DEF ViewFit, TakenFit
    <3>2. Following(Got(p).answer.session, box, p)'
      <4>1. PICK t \in Talks, c \in {box} : t = Got(p).answer.session /\ c = box
        BY <2>1, <3>1
      <4>2. Got(p)' = Got(p) /\ box' = box
        BY <1>1, LineKept
      <4>3. Following(t, c, p)'
        BY <1>8, <3>1, <4>1
      <4> QED
        BY <4>1, <4>2, <4>3 DEF Following, Course
    <3>3. SameBefore(p)'
      BY <1>1, <3>1, LineKept DEF SameBefore
    <3> QED
      BY <1>1, <3>1, <3>2, <3>3, LineKept
  <2> QED
    BY <1>1, <2>2, LineKept DEF TakenFit
<1>10. viewSession # 0 => viewSession \in Talks
  BY ViewAssumption DEF ViewFit, ViewTyped, Talks
<1>11. last # 0 => viewSession # 0
  BY DEF ViewFit, FlightFit
<1>12. PendingFit' /\ ShownFit'
  BY <1>1, <1>7, <1>8, <1>10, <1>11, LineKept DEF ViewFit, PendingFit, ShownFit, AllSame
<1>13. IdleFit' /\ WaitFit'
  BY <1>1, <1>2, <1>7, <1>10, LineKept DEF ViewFit, IdleFit, WaitFit, AllSame
<1>14. SightFit'
  BY <1>1, <1>2, <1>10, <1>11 DEF ViewFit, SightFit, View!Shown, View!NoPending
<1> QED
  BY <1>3, <1>5, <1>6, <1>9, <1>12, <1>13, <1>14 DEF ViewFit

\* An answer changes no request, and comes last.
LEMMA AnswerKept ==
  ASSUME ViewTyped, SlotFit, NEW i \in 1..MaxFlight, NEW a \in Replies, View!Waiting(i), View!Answer(i, a),
         flight[i].kind = "read" => a.ok
  PROVE  /\ Len(line) \in Nat /\ Len(line') = Len(line) + 1 /\ line' \in Seq(1..MaxFlight)
         /\ flight' \in [1..MaxFlight -> Requests]
         /\ \A n \in 1..Len(line) : /\ n \in 1..Len(line') /\ line[n] # i /\ Got(n)' = Got(n)
                                     /\ ReadAt(n)' = ReadAt(n) /\ TakenAt(n)' = TakenAt(n)
         /\ line'[Len(line) + 1] = i /\ flight'[i].answer = a
         /\ flight[i].kind # "none"
         /\ \A j \in 1..MaxFlight : /\ flight'[j].kind = flight[j].kind /\ flight'[j].text = flight[j].text
                                    /\ flight'[j].session = flight[j].session
         /\ SlotFit'
<1>1. /\ line' \in Seq(1..MaxFlight) /\ Len(line') = Len(line) + 1 /\ line'[Len(line) + 1] = i
      /\ flight' \in [1..MaxFlight -> Requests] /\ flight'[i] = [flight[i] EXCEPT !.answer = a]
      /\ \A j \in 1..MaxFlight \ {i} : flight'[j] = flight[j]
      /\ flight[i].kind # "none" /\ SlotFit'
      /\ \A n \in 1..Len(line) : /\ n \in 1..Len(line') /\ line[n] # i
                                  /\ flight'[line'[n]] = flight[line[n]]
  BY LineAnswered
<1>2. \A n \in 1..Len(line) : Got(n)' = Got(n)
  BY <1>1 DEF Got
<1>3. \A n \in 1..Len(line) : ReadAt(n)' = ReadAt(n) /\ TakenAt(n)' = TakenAt(n)
  BY <1>2 DEF ReadAt, TakenAt
<1>4. flight[i] \in Requests /\ Len(line) \in Nat
  BY GotTyped DEF ViewTyped
<1>5. /\ flight'[i].answer = a /\ flight'[i].kind = flight[i].kind
      /\ flight'[i].text = flight[i].text /\ flight'[i].session = flight[i].session
  BY <1>1, <1>4 DEF Requests
<1> QED
  BY <1>1, <1>2, <1>3, <1>4, <1>5

\* An answer that says nothing of the conversation: a summary begun or refused, a message refused,
\* a server out of reach.
LEMMA DullAnswer ==
  ASSUME ViewFit, NEW i \in 1..MaxFlight, NEW a \in Replies, View!Waiting(i), View!Answer(i, a),
         flight[i].kind # "read", flight[i].kind = "send" => ~a.ok,
         compacting' \subseteq compacting \cup 1..created,
         UNCHANGED <<recorded, running, created, viewSession, viewTurns, viewPending, on, box, viewTyped, last>>
  PROVE  ViewFit'
<1>1. /\ Len(line) \in Nat /\ Len(line') = Len(line) + 1 /\ line' \in Seq(1..MaxFlight)
      /\ flight' \in [1..MaxFlight -> Requests]
      /\ \A n \in 1..Len(line) : /\ n \in 1..Len(line') /\ line[n] # i /\ Got(n)' = Got(n)
                                  /\ ReadAt(n)' = ReadAt(n) /\ TakenAt(n)' = TakenAt(n)
      /\ line'[Len(line) + 1] = i /\ flight'[i].answer = a
      /\ \A j \in 1..MaxFlight : /\ flight'[j].kind = flight[j].kind /\ flight'[j].text = flight[j].text
                                 /\ flight'[j].session = flight[j].session
      /\ SlotFit'
  BY AnswerKept DEF ViewFit
<1>2. ViewTyped'
  BY <1>1 DEF ViewFit, ViewTyped
<1>3. ASSUME NEW n \in 1..Len(line'), ReadAt(n)' \/ TakenAt(n)'
      PROVE  n \in 1..Len(line) /\ Got(n)' = Got(n)
  <2>1. CASE n = Len(line) + 1
    <3>1. Got(n)' = flight'[i]
      BY <1>1, <2>1 DEF Got
    <3> QED
      BY <1>1, <1>3, <3>1 DEF ReadAt, TakenAt
  <2> QED
    BY <1>1, <2>1
<1>4. NoneTaken' => NoneTaken
  BY <1>1 DEF NoneTaken
<1>5. FlightFit' /\ FreshFit'
  <2>1. FlightFit'
    BY <1>1 DEF ViewFit, FlightFit
  <2>2. \A s \in Talks : s > created' => s \notin compacting'
    BY ViewAssumption DEF ViewFit, ViewTyped, FreshFit, Talks
  <2> QED
    BY <1>4, <2>1, <2>2 DEF ViewFit, FreshFit
<1>6. /\ \A n \in 1..Len(line') : ReadAt(n)' \/ TakenAt(n)' => n + 0 \in 1..Len(line) /\ Got(n)' = Got(n + 0)
      /\ \A n \in 1..Len(line) : ReadAt(n) \/ TakenAt(n) => 0 = 0 /\ n \in 1..Len(line') /\ Got(n)' = Got(n)
      /\ (\E j \in 1..MaxFlight : flight[j].kind = "read") => \E j \in 1..MaxFlight : flight'[j].kind = "read"
      /\ (\E j \in 1..MaxFlight : flight'[j].kind = "send") => \E j \in 1..MaxFlight : flight[j].kind = "send"
  BY <1>1, <1>3
<1>7. (TakenFit /\ PendingFit /\ ShownFit /\ IdleFit /\ WaitFit /\ SightFit)'
  BY <1>2, <1>6, DullStep, 0 \in {0, 1}
<1> QED
  BY <1>1, <1>2, <1>5, <1>7 DEF ViewFit

\* A poll sees what is recorded now, so no less than those before it.
LEMMA HandleReadStep ==
  ASSUME ViewFit, NEW i \in 1..MaxFlight, View!HandleRead(i)
  PROVE  ViewFit'
<1> DEFINE s == flight[i].session
           a == [ok |-> TRUE, session |-> s, turns |-> recorded[s], on |-> View!Active(s)]
<1>1. /\ flight[i].kind = "read" /\ View!Waiting(i) /\ View!Answer(i, a)
      /\ UNCHANGED <<recorded, running, compacting, created, viewSession, viewTurns, viewPending, on, box,
                     viewTyped, last>>
  BY DEF View!HandleRead, View!server, View!page
<1>2. s = viewSession /\ viewSession # 0
  BY <1>1 DEF ViewFit, FlightFit
<1>3. viewSession \in Talks
  BY <1>2, ViewAssumption DEF ViewFit, ViewTyped, Talks
<1>4. a \in Replies /\ a.ok /\ a.turns = recorded[viewSession] /\ (~a.on => running[viewSession] = 0)
  <2>1. s \in 0..MaxSessions /\ recorded[s] \in Seq(Nat) /\ View!Active(s) \in BOOLEAN
    BY <1>2, <1>3, ViewAssumption DEF ViewFit, ViewTyped, View!Active, Talks
  <2> QED
    BY <1>2, <2>1 DEF Replies, View!Active, View!Blank
<1> HIDE DEF a, s
<1>5. /\ Len(line) \in Nat /\ Len(line') = Len(line) + 1 /\ line' \in Seq(1..MaxFlight)
      /\ flight' \in [1..MaxFlight -> Requests]
      /\ \A n \in 1..Len(line) : /\ n \in 1..Len(line') /\ line[n] # i /\ Got(n)' = Got(n)
                                  /\ ReadAt(n)' = ReadAt(n) /\ TakenAt(n)' = TakenAt(n)
      /\ line'[Len(line) + 1] = i /\ flight'[i].answer = a
      /\ \A j \in 1..MaxFlight : /\ flight'[j].kind = flight[j].kind /\ flight'[j].text = flight[j].text
                                 /\ flight'[j].session = flight[j].session
      /\ SlotFit'
  BY <1>1, <1>4, AnswerKept DEF ViewFit
<1>6. ViewTyped'
  BY <1>1, <1>5 DEF ViewFit, ViewTyped
<1>7. PICK new \in Nat : new = Len(line) + 1 /\ \A n \in 1..Len(line') : n \in 1..Len(line) \/ n = new
  BY <1>5
<1>8. Got(new)'.answer = a /\ ~TakenAt(new)'
  BY <1>1, <1>5, <1>7 DEF Got, TakenAt
<1>9. NoneTaken' = NoneTaken
  BY <1>5, <1>7, <1>8 DEF NoneTaken
<1>10. FlightFit' /\ FreshFit'
  BY <1>1, <1>5, <1>9 DEF ViewFit, FlightFit, FreshFit
<1>11. ASSUME NEW c, NEW p, Following(viewSession, c, p)
       PROVE  Following(viewSession, c, p)'
  <2>1. Course(viewSession, c)'
    BY <1>1, <1>11 DEF Following, Course
  <2>2. ASSUME NEW n \in 1..Len(line'), p < n, ReadAt(n)'
        PROVE  /\ Got(n)'.answer.turns \in {viewTurns', recorded'[viewSession']}
               /\ ~Got(n)'.answer.on => Got(n)'.answer.turns = recorded'[viewSession'] /\ running'[viewSession'] = 0
    <3>1. CASE n \in 1..Len(line)
      BY <1>1, <1>5, <1>11, <2>2, <3>1 DEF Following
    <3>2. CASE n = new
      BY <1>1, <1>4, <1>8, <3>2
    <3> QED
      BY <1>7, <3>1, <3>2
  <2>3. ASSUME NEW m \in 1..Len(line'), NEW n \in 1..Len(line'), p < m, m < n, ReadAt(m)', ReadAt(n)'
        PROVE  Got(m)'.answer.turns # viewTurns' => Got(n)'.answer.turns # viewTurns'
    <3>1. m \in 1..Len(line)
      BY <1>5, <2>3
    <3>2. CASE n \in 1..Len(line)
      BY <1>1, <1>5, <1>11, <2>3, <3>1, <3>2 DEF Following
    <3>3. CASE n = new
      BY <1>1, <1>4, <1>5, <1>8, <1>11, <2>3, <3>1, <3>3 DEF Following
    <3> QED
      BY <1>7, <3>2, <3>3
  <2> QED
    BY <1>1, <2>1, <2>2, <2>3 DEF Following
<1>12. TakenFit'
  <2>1. ASSUME NEW p \in 1..Len(line'), TakenAt(p)'
        PROVE  (/\ Got(p).answer.session \in 1..created /\ viewSession \in {0, Got(p).answer.session}
                /\ \A n \in DOMAIN viewTurns : viewTurns[n] # box
                /\ Following(Got(p).answer.session, box, p) /\ SameBefore(p))'
    <3>1. p \in 1..Len(line) /\ TakenAt(p) /\ Got(p)' = Got(p)
      BY <1>5, <1>7, <1>8, <2>1
    <3>2. /\ Got(p).answer.session \in 1..created /\ viewSession = Got(p).answer.session
          /\ \A n \in DOMAIN viewTurns : viewTurns[n] # box
          /\ Following(viewSession, box, p) /\ SameBefore(p)
      BY <1>2, <3>1 DEF ViewFit, TakenFit
    <3>3. Following(Got(p).answer.session, box, p)'
      <4>1. PICK c \in {box} : c = box
        OBVIOUS
      <4>2. Following(viewSession, c, p)'
        BY <1>11, <3>2, <4>1
      <4> QED
        BY <1>1, <3>1, <3>2, <4>1, <4>2 DEF Following, Course
    <3>4. SameBefore(p)'
      <4>1. \A n \in 1..Len(line') : n < p => n \in 1..Len(line)
        BY <1>5, <3>1
      <4> QED
        BY <1>1, <1>5, <3>2, <4>1 DEF SameBefore
    <3> QED
      BY <1>1, <3>1, <3>2, <3>3, <3>4
  <2> QED
    BY <2>1 DEF TakenFit
<1>13. Resting(viewSession) => Resting(viewSession)'
  BY <1>1 DEF Resting
<1>14. Resting(viewSession) /\ AllSame => AllSame'
  BY <1>1, <1>4, <1>5, <1>7, <1>8 DEF AllSame, Resting
<1>15. PendingFit'
  <2>1. SUFFICES ASSUME NoneTaken, last # 0, viewPending.text = last
                 PROVE  Following(viewSession, last, 0)'
                        /\ (~on \/ viewPending.lost => Resting(viewSession)')
    BY <1>1, <1>9 DEF PendingFit
  <2>2. Following(viewSession, last, 0) /\ (~on \/ viewPending.lost => Resting(viewSession))
    BY <2>1 DEF ViewFit, PendingFit
  <2>3. PICK c \in {last} : c = last
    OBVIOUS
  <2>4. Following(viewSession, c, 0)'
    BY <1>11, <2>2, <2>3
  <2> QED
    BY <1>1, <1>13, <2>2, <2>3, <2>4 DEF Following, Course
<1>16. ShownFit' /\ WaitFit'
  BY <1>1, <1>5, <1>9, <1>13, <1>14 DEF ViewFit, ShownFit, WaitFit
<1>17. IdleFit'
  <2>1. SUFFICES ASSUME NoneTaken, last = 0, viewSession # 0
                 PROVE  /\ \A n \in 1..Len(line') : ReadAt(n)' /\ ~Got(n)'.answer.on =>
                             Got(n)'.answer.turns = recorded[viewSession] /\ running[viewSession] = 0
                        /\ \E j \in 1..MaxFlight : flight'[j].kind = "read"
    BY <1>1, <1>9 DEF IdleFit
  <2>2. \A n \in 1..Len(line') : ReadAt(n)' /\ ~Got(n)'.answer.on =>
          Got(n)'.answer.turns = recorded[viewSession] /\ running[viewSession] = 0
    BY <1>4, <1>5, <1>7, <1>8, <2>1 DEF ViewFit, IdleFit
  <2> QED
    BY <1>1, <1>5, <2>2
<1>18. SightFit'
  BY <1>1 DEF ViewFit, SightFit, View!Shown, View!NoPending
<1> QED
  BY <1>5, <1>6, <1>10, <1>12, <1>15, <1>16, <1>17, <1>18 DEF ViewFit

\* A summary is begun only where there is a turn, so where there is a conversation.
LEMMA HandleCompactStep ==
  ASSUME ViewFit, NEW i \in 1..MaxFlight, View!HandleCompact(i)
  PROVE  ViewFit'
<1> DEFINE s == flight[i].session
           ok == recorded[s] # <<>> /\ ~View!Active(s)
           a == [View!NoAnswer EXCEPT !.ok = ok]
<1>1. /\ flight[i].kind = "compact" /\ View!Waiting(i) /\ View!Answer(i, a)
      /\ compacting' = IF ok THEN compacting \cup {s} ELSE compacting
      /\ UNCHANGED <<recorded, running, created, viewSession, viewTurns, viewPending, on, box, viewTyped, last>>
  BY DEF View!HandleCompact, View!page
<1>2. s = viewSession /\ viewSession # 0
  BY <1>1 DEF ViewFit, FlightFit
<1>3. viewSession \in 1..created
  BY <1>2, ViewAssumption DEF ViewFit, ViewTyped
<1>4. ok \in BOOLEAN
  OBVIOUS
<1>5. a \in Replies
  BY <1>4, NoAnswerTyped DEF Replies
<1> HIDE DEF ok, a
<1>6. compacting' \subseteq compacting \cup 1..created
  BY <1>1, <1>2, <1>3
<1> QED
  BY <1>1, <1>5, <1>6, DullAnswer

\* While orderly holds, what fails is no poll.
LEMMA FailStep ==
  ASSUME ViewFit, NEW i \in 1..MaxFlight, View!Fail(i), orderly'
  PROVE  ViewFit'
<1>1. /\ flight[i].kind # "read" /\ View!Waiting(i) /\ View!Answer(i, View!NoAnswer)
      /\ UNCHANGED <<compacting, recorded, running, created, viewSession, viewTurns, viewPending, on, box,
                     viewTyped, last>>
  BY DEF View!Fail, View!page, View!server, View!Refused
<1>2. View!NoAnswer \in Replies /\ ~View!NoAnswer.ok
  BY NoAnswerTyped DEF View!NoAnswer
<1>3. compacting' \subseteq compacting \cup 1..created
  BY <1>1
<1> QED
  BY <1>1, <1>2, <1>3, DullAnswer

\* A message is accepted where nothing runs: the page has seen all that is recorded there.
LEMMA HandleSendStep ==
  ASSUME ViewFit, NEW i \in 1..MaxFlight, View!HandleSend(i)
  PROVE  ViewFit'
<1> DEFINE id == IF flight[i].session = 0 THEN created + 1 ELSE flight[i].session
           a == [View!NoAnswer EXCEPT !.ok = TRUE, !.session = id]
<1>1. /\ flight[i].kind = "send" /\ View!Waiting(i) /\ id \in Talks
      /\ UNCHANGED <<viewSession, viewTurns, viewPending, on, box, viewTyped, last>>
  BY DEF View!HandleSend, View!page, View!Blank, View!Conversations, Talks
<1>2. CASE View!Answer(i, View!NoAnswer) /\ UNCHANGED <<recorded, running, compacting, created>>
  <2>1. View!NoAnswer \in Replies /\ ~View!NoAnswer.ok /\ compacting' \subseteq compacting \cup 1..created
    BY <1>2, NoAnswerTyped DEF View!NoAnswer
  <2> QED
    BY <1>1, <1>2, <2>1, DullAnswer
<1>3. CASE /\ ~View!LeaseHeld /\ created' = IF id > created THEN id ELSE created
           /\ running' = [running EXCEPT ![id] = flight[i].text] /\ View!Answer(i, a)
           /\ UNCHANGED <<recorded, compacting>>
  <2>1. /\ flight[i].text = box /\ flight[i].session = viewSession /\ box # 0 /\ box # last
        /\ box \in Nat /\ box <= viewTyped /\ created \in 0..MaxSessions /\ viewSession \in 0..created
    BY <1>1 DEF ViewFit, ViewTyped, FlightFit, FreshFit
  <2>2. id \in 1..MaxSessions /\ (viewSession # 0 => id = viewSession) /\ (viewSession = 0 => id = created + 1)
    BY <1>1, <2>1 DEF Talks
  <2>3. a \in Replies /\ a.ok /\ a.session = id
    <3>1. id \in 0..MaxSessions /\ View!NoAnswer \in Replies
      BY <2>2, NoAnswerTyped, ViewAssumption
    <3> HIDE DEF id
    <3> QED
      BY <3>1 DEF Replies
  <2>4. created' \in created..MaxSessions /\ id \in 1..created'
    BY <1>3, <2>1, <2>2, ViewAssumption
  <2>5. /\ running' \in [Talks -> Nat] /\ running'[id] = box
        /\ \A s \in Talks \ {id} : running'[s] = running[s]
    BY <1>1, <1>3, <2>1 DEF ViewFit, ViewTyped
  <2> HIDE DEF a, id
  <2>6. \A s \in Talks : running[s] = 0
    BY <1>3 DEF View!LeaseHeld, View!Conversations, View!Blank, Talks
  <2>7. /\ Len(line) \in Nat /\ Len(line') = Len(line) + 1 /\ line' \in Seq(1..MaxFlight)
        /\ flight' \in [1..MaxFlight -> Requests]
        /\ \A n \in 1..Len(line) : /\ n \in 1..Len(line') /\ line[n] # i /\ Got(n)' = Got(n)
                                    /\ ReadAt(n)' = ReadAt(n) /\ TakenAt(n)' = TakenAt(n)
        /\ line'[Len(line) + 1] = i /\ flight'[i].answer = a
        /\ \A j \in 1..MaxFlight : /\ flight'[j].kind = flight[j].kind /\ flight'[j].text = flight[j].text
                                   /\ flight'[j].session = flight[j].session
        /\ SlotFit'
    BY <1>1, <1>3, <2>3, AnswerKept DEF ViewFit
  <2>8. NoneTaken
    <3>1. ASSUME NEW n \in 1..Len(line), TakenAt(n) PROVE FALSE
      <4>1. line[n] \in 1..MaxFlight /\ flight[line[n]].kind = "send"
        BY <3>1, GotTyped DEF ViewFit, TakenAt, Got
      <4>2. line[n] = i
        BY <1>1, <4>1 DEF ViewFit, FlightFit
      <4> QED
        BY <2>7, <4>2
    <3> QED
      BY <3>1 DEF NoneTaken
  <2>9. PICK new \in Nat : new = Len(line) + 1 /\ \A n \in 1..Len(line') : n \in 1..Len(line) \/ n = new
    BY <2>7
  <2>10. /\ new \in 1..Len(line') /\ Got(new)'.answer = a /\ TakenAt(new)' /\ ~ReadAt(new)'
         /\ \A n \in 1..Len(line) : ~TakenAt(n)'
    BY <1>1, <2>3, <2>7, <2>8, <2>9 DEF Got, TakenAt, ReadAt, NoneTaken
  <2>11. ~NoneTaken'
    BY <2>10 DEF NoneTaken
  <2>12. recorded[id] = viewTurns /\ AllSame /\ \A n \in DOMAIN viewTurns : viewTurns[n] # box
    <3>1. CASE viewSession # 0
      <4>1. Resting(viewSession) /\ AllSame
        BY <1>1, <2>8, <3>1 DEF ViewFit, WaitFit
      <4>2. \A n \in DOMAIN recorded[id] : recorded[id][n] # box
        BY <2>1, <2>2, <2>8 DEF ViewFit, FreshFit, Talks
      <4> QED
        BY <2>2, <3>1, <4>1, <4>2 DEF Resting
    <3>2. CASE viewSession = 0
      <4>1. viewTurns = <<>> /\ recorded[id] = <<>>
        BY <2>1, <2>2, <3>2 DEF ViewFit, FlightFit, FreshFit, Talks
      <4>2. \A n \in 1..Len(line) : ~ReadAt(n)
        BY <3>2, GotTyped DEF ViewFit, FlightFit, ReadAt, Got
      <4> QED
        BY <4>1, <4>2 DEF AllSame
    <3> QED
      BY <3>1, <3>2
  <2>13. ViewTyped'
    BY <1>1, <1>3, <2>1, <2>4, <2>5, <2>7 DEF ViewFit, ViewTyped
  <2>14. FlightFit'
    BY <1>1, <2>7 DEF ViewFit, FlightFit
  <2>15. FreshFit'
    <3>1. ASSUME NEW s \in Talks
          PROVE  /\ running'[s] <= viewTyped'
                 /\ \A n \in DOMAIN recorded'[s] : recorded'[s][n] \in 1..viewTyped'
                 /\ s > created' => recorded'[s] = <<>> /\ running'[s] = 0 /\ s \notin compacting'
      <4>1. s > created' => s > created /\ s # id
        BY <2>1, <2>2, <2>4 DEF Talks
      <4>2. /\ running[s] <= viewTyped
            /\ \A n \in DOMAIN recorded[s] : recorded[s][n] \in 1..viewTyped
            /\ s > created => recorded[s] = <<>> /\ running[s] = 0 /\ s \notin compacting
        BY DEF ViewFit, FreshFit
      <4> QED
        BY <1>1, <1>3, <2>1, <2>5, <4>1, <4>2
    <3> QED
      BY <1>1, <2>1, <2>11, <3>1 DEF ViewFit, FreshFit
  <2>16. TakenFit'
    <3>1. ASSUME NEW p \in 1..Len(line'), TakenAt(p)'
          PROVE  (/\ Got(p).answer.session \in 1..created /\ viewSession \in {0, Got(p).answer.session}
                  /\ \A n \in DOMAIN viewTurns : viewTurns[n] # box
                  /\ Following(Got(p).answer.session, box, p) /\ SameBefore(p))'
      <4>1. p = new
        BY <2>9, <2>10, <3>1
      <4>2. Got(p)'.answer.session = id
        BY <2>3, <2>10, <4>1
      <4>3. SameBefore(p)'
        <5>1. \A n \in 1..Len(line') : n < p => n \in 1..Len(line)
          BY <2>7, <2>9, <4>1
        <5> QED
          BY <1>1, <2>7, <2>12, <5>1 DEF SameBefore, AllSame
      <4>4. \A n \in 1..Len(line') : ~(p < n)
        BY <2>7, <2>9, <4>1
      <4>5. running'[id] = box' /\ recorded'[id] = viewTurns'
        BY <1>1, <1>3, <2>5, <2>12
      <4>6. Following(Got(p).answer.session, box, p)'
        BY <4>2, <4>4, <4>5 DEF Following, Course
      <4> QED
        BY <1>1, <2>2, <2>4, <2>12, <4>2, <4>3, <4>6
    <3> QED
      BY <3>1 DEF TakenFit
  <2>17. PendingFit' /\ ShownFit' /\ IdleFit' /\ WaitFit'
    BY <2>11 DEF PendingFit, ShownFit, IdleFit, WaitFit
  <2>18. SightFit'
    <3>1. viewPending.lost => last # 0 /\ viewSession # 0
      BY DEF ViewFit, SightFit, FlightFit, View!NoPending
    <3>2. viewPending.lost => running'[viewSession] # last
      BY <2>1, <2>2, <2>5, <3>1
    <3> QED
      BY <1>1, <3>2 DEF ViewFit, SightFit, View!Shown, View!NoPending
  <2> QED
    BY <2>7, <2>13, <2>14, <2>15, <2>16, <2>17, <2>18 DEF ViewFit
<1> QED
  BY <1>2, <1>3 DEF View!HandleSend, View!server, View!Blank, View!Refused

\* A request changes no answer that waits.
LEMMA AskKept ==
  ASSUME ViewTyped, SlotFit, NEW kind \in {"send", "read", "compact"}, NEW s \in 0..MaxSessions,
         NEW text \in Nat, View!Ask(kind, s, text), line' = line
  PROVE  \E i \in 1..MaxFlight :
           /\ flight[i] = View!Free /\ flight' \in [1..MaxFlight -> Requests]
           /\ flight'[i].kind = kind /\ flight'[i].session = s /\ flight'[i].text = text
           /\ \A j \in 1..MaxFlight \ {i} : flight'[j] = flight[j]
           /\ Len(line) \in Nat
           /\ \A n \in 1..Len(line) : /\ Got(n)' = Got(n) /\ ReadAt(n)' = ReadAt(n)
                                       /\ TakenAt(n)' = TakenAt(n)
           /\ NoneTaken' = NoneTaken /\ SlotFit'
<1>1. PICK i \in 1..MaxFlight :
           /\ flight[i] = View!Free /\ \A n \in 1..Len(line) : line[n] # i
           /\ flight' \in [1..MaxFlight -> Requests]
           /\ flight'[i] = [kind |-> kind, session |-> s, text |-> text, answer |-> View!NoAnswer]
           /\ \A j \in 1..MaxFlight \ {i} : flight'[j] = flight[j]
           /\ \A n \in 1..Len(line) : flight'[line'[n]] = flight[line[n]]
           /\ SlotFit'
  BY LineAsked
<1>2. \A n \in 1..Len(line) : Got(n)' = Got(n)
  BY <1>1 DEF Got
<1>3. \A n \in 1..Len(line) : ReadAt(n)' = ReadAt(n) /\ TakenAt(n)' = TakenAt(n)
  BY <1>2 DEF ReadAt, TakenAt
<1>4. NoneTaken' = NoneTaken
  BY <1>3 DEF NoneTaken
<1> QED
  BY <1>1, <1>2, <1>3, <1>4, GotTyped

\* With nothing under way, no answer waits.
LEMMA NothingKept ==
  ASSUME ViewTyped, SlotFit, View!NothingUnderWay
  PROVE  Len(line) = 0 /\ NoneTaken /\ \A i \in 1..MaxFlight : flight[i] = View!Free /\ flight[i].kind = "none"
<1>1. \A i \in 1..MaxFlight : flight[i] = View!Free /\ flight[i].kind = "none"
  BY DEF View!NothingUnderWay, View!Slots, View!Free
<1>2. ASSUME NEW n \in 1..Len(line) PROVE FALSE
  BY <1>1, GotTyped DEF SlotFit, Got
<1> QED
  BY <1>1, <1>2, GotTyped DEF NoneTaken

\* A request about the conversation shown.
LEMMA AskStep ==
  ASSUME ViewFit, NEW kind \in {"send", "read", "compact"}, NEW text \in Nat,
         View!Ask(kind, viewSession, text),
         kind = "send" => /\ text = box /\ box # 0 /\ \A i \in 1..MaxFlight : flight[i].kind # "send"
                          /\ viewSession # 0 => Resting(viewSession) /\ AllSame,
         kind # "send" => viewSession # 0,
         UNCHANGED <<recorded, running, compacting, created, viewSession, viewTurns, viewPending, on, box,
                     viewTyped, line, last>>
  PROVE  ViewFit'
<1>1. PICK i \in 1..MaxFlight :
           /\ flight[i] = View!Free /\ flight' \in [1..MaxFlight -> Requests]
           /\ flight'[i].kind = kind /\ flight'[i].session = viewSession /\ flight'[i].text = text
           /\ \A j \in 1..MaxFlight \ {i} : flight'[j] = flight[j]
           /\ Len(line) \in Nat
           /\ \A n \in 1..Len(line) : /\ Got(n)' = Got(n) /\ ReadAt(n)' = ReadAt(n)
                                       /\ TakenAt(n)' = TakenAt(n)
           /\ NoneTaken' = NoneTaken /\ SlotFit'
  <2>1. viewSession \in 0..MaxSessions
    BY ViewAssumption DEF ViewFit, ViewTyped
  <2> QED
    BY <2>1, AskKept DEF ViewFit
<1>2. flight[i].kind = "none"
  BY <1>1 DEF View!Free
<1>3. ViewTyped' /\ FlightFit' /\ FreshFit'
  <2>1. ViewTyped'
    BY <1>1 DEF ViewFit, ViewTyped
  <2>2. FlightFit'
    BY <1>1 DEF ViewFit, FlightFit
  <2>3. FreshFit'
    BY <1>1 DEF ViewFit, FreshFit
  <2> QED
    BY <2>1, <2>2, <2>3
<1>4. /\ \A n \in 1..Len(line') : ReadAt(n)' \/ TakenAt(n)' => n + 0 \in 1..Len(line) /\ Got(n)' = Got(n + 0)
      /\ \A n \in 1..Len(line) : ReadAt(n) \/ TakenAt(n) => 0 = 0 /\ n \in 1..Len(line') /\ Got(n)' = Got(n)
  BY <1>1
<1>5. (\E j \in 1..MaxFlight : flight[j].kind = "read") => \E j \in 1..MaxFlight : flight'[j].kind = "read"
  BY <1>1, <1>2
<1>6. (\E j \in 1..MaxFlight : flight'[j].kind = "send") =>
        \/ \E j \in 1..MaxFlight : flight[j].kind = "send"
        \/ viewSession # 0 => Resting(viewSession) /\ AllSame
  BY <1>1
<1>7. (TakenFit /\ PendingFit /\ ShownFit /\ IdleFit /\ WaitFit /\ SightFit)'
  BY <1>3, <1>4, <1>5, <1>6, DullStep, 0 \in {0, 1}
<1> QED
  BY <1>1, <1>3, <1>7 DEF ViewFit

\* A poll or a summary may be asked for at any time.
LEMMA SyncStep ==
  ASSUME ViewFit, View!SyncChat \/ View!CompactChat
  PROVE  ViewFit'
<1>1. /\ viewSession # 0 /\ 0 \in Nat
      /\ UNCHANGED <<recorded, running, compacting, created, viewSession, viewTurns, viewPending, on, box,
                     viewTyped, line, last>>
  BY DEF View!SyncChat, View!CompactChat, View!server, View!page, View!Blank
<1>2. CASE View!SyncChat
  <2>1. View!Ask("read", viewSession, 0)
    BY <1>2 DEF View!SyncChat, View!Blank
  <2> QED
    BY <1>1, <2>1, AskStep
<1>3. CASE View!CompactChat
  <2>1. View!Ask("compact", viewSession, 0)
    BY <1>3 DEF View!CompactChat, View!Blank
  <2> QED
    BY <1>1, <2>1, AskStep
<1> QED
  BY <1>2, <1>3

\* A message is sent with nothing under way and nothing said to run, so with nothing left to see.
LEMMA SendStep ==
  ASSUME ViewFit, View!SendChat, orderly'
  PROVE  ViewFit'
<1>1. /\ box # 0 /\ ~on /\ View!NothingUnderWay /\ View!Ask("send", viewSession, box)
      /\ UNCHANGED <<recorded, running, compacting, created, viewSession, viewTurns, viewPending, on, box,
                     viewTyped, line, last>>
  BY DEF View!SendChat, View!server, View!page, View!Blank
<1>2. Len(line) = 0 /\ NoneTaken /\ \A i \in 1..MaxFlight : flight[i].kind = "none"
  BY <1>1, NothingKept DEF ViewFit
<1>3. AllSame
  BY <1>2 DEF AllSame
<1>4. viewSession # 0 => Resting(viewSession)
  BY <1>1, <1>2 DEF ViewFit, PendingFit, ShownFit, IdleFit
<1>5. box \in Nat
  BY DEF ViewFit, ViewTyped
<1> QED
  BY <1>1, <1>2, <1>3, <1>4, <1>5, AskStep

\* A conversation is picked with nothing under way, so the read that follows is alone.
LEMMA SwitchStep ==
  ASSUME ViewFit, NEW s \in Talks, View!Switch(s), orderly'
  PROVE  ViewFit'
<1>1. /\ View!NothingUnderWay /\ View!Ask("read", s, 0) /\ s <= created
      /\ viewSession' = s /\ viewTurns' = <<>> /\ viewPending' = View!NoPending /\ last' = 0
      /\ UNCHANGED <<recorded, running, compacting, created, on, box, viewTyped, line>>
  BY DEF View!Switch, View!server, View!Blank
<1>2. Len(line) = 0 /\ NoneTaken /\ \A i \in 1..MaxFlight : flight[i].kind = "none"
  BY <1>1, NothingKept DEF ViewFit
<1>3. PICK i \in 1..MaxFlight :
           /\ flight' \in [1..MaxFlight -> Requests]
           /\ flight'[i].kind = "read" /\ flight'[i].session = s
           /\ \A j \in 1..MaxFlight \ {i} : flight'[j] = flight[j]
           /\ NoneTaken' = NoneTaken /\ SlotFit'
  <2>1. s \in 0..MaxSessions /\ 0 \in Nat
    BY ViewAssumption DEF Talks
  <2> QED
    BY <1>1, <2>1, AskKept DEF ViewFit
<1>4. ViewTyped'
  <2>1. s \in 1..created /\ <<>> \in Seq(Nat)
    BY <1>1, ViewAssumption DEF ViewFit, ViewTyped, Talks
  <2>2. View!NoPending \in Pendings
    BY DEF View!NoPending, View!Blank, Pendings
  <2>3. viewSession' \in 0..created' /\ viewTurns' \in Seq(Nat) /\ viewPending' \in Pendings /\ last' \in Nat
    BY <1>1, <2>1, <2>2 DEF ViewFit, ViewTyped
  <2> QED
    BY <1>1, <1>3, <2>3 DEF ViewFit, ViewTyped
<1>5. s # 0
  BY DEF Talks
<1>6. FlightFit'
  BY <1>1, <1>2, <1>3, <1>5 DEF FlightFit
<1>7. FreshFit'
  BY <1>1, <1>3 DEF ViewFit, ViewTyped, FreshFit
<1>8. TakenFit' /\ PendingFit' /\ ShownFit' /\ IdleFit'
  BY <1>1, <1>2, <1>3 DEF TakenFit, PendingFit, ShownFit, IdleFit
<1>9. WaitFit'
  BY <1>2, <1>3 DEF WaitFit
<1>10. SightFit'
  BY <1>1 DEF SightFit, View!NoPending
<1> QED
  BY <1>3, <1>4, <1>6, <1>7, <1>8, <1>9, <1>10 DEF ViewFit

\* A new conversation has nothing to see.
LEMMA NewChatStep ==
  ASSUME ViewFit, View!StartNewChat, orderly'
  PROVE  ViewFit'
<1>1. /\ View!NothingUnderWay
      /\ viewSession' = 0 /\ viewTurns' = <<>> /\ viewPending' = View!NoPending /\ on' = FALSE /\ last' = 0
      /\ UNCHANGED <<recorded, running, compacting, created, box, viewTyped, flight, line>>
  BY DEF View!StartNewChat, View!server, View!Blank
<1>2. Len(line) = 0 /\ NoneTaken /\ \A i \in 1..MaxFlight : flight[i].kind = "none"
  BY <1>1, NothingKept DEF ViewFit
<1>3. ViewTyped'
  <2>1. View!NoPending \in Pendings /\ <<>> \in Seq(Nat)
    BY DEF View!NoPending, View!Blank, Pendings
  <2>2. /\ viewSession' \in 0..created' /\ viewTurns' \in Seq(Nat) /\ viewPending' \in Pendings
        /\ last' \in Nat /\ on' \in BOOLEAN
    <3>1. created' \in Nat
      BY <1>1, ViewAssumption DEF ViewFit, ViewTyped
    <3>2. viewSession' \in 0..created'
      BY <1>1, <3>1
    <3>3. on' \in BOOLEAN /\ last' \in Nat
      BY <1>1
    <3> QED
      BY <1>1, <2>1, <3>2, <3>3
  <2> QED
    BY <1>1, <2>2 DEF ViewFit, ViewTyped
<1>4. SlotFit' /\ FreshFit'
  BY <1>1, LineKept DEF ViewFit, ViewTyped, FreshFit
<1>5. FlightFit' /\ TakenFit' /\ PendingFit' /\ ShownFit' /\ IdleFit' /\ WaitFit'
  BY <1>1, <1>2 DEF FlightFit, TakenFit, PendingFit, ShownFit, IdleFit, WaitFit
<1>6. SightFit'
  BY <1>1 DEF SightFit, View!NoPending
<1> QED
  BY <1>3, <1>4, <1>5, <1>6 DEF ViewFit

\* The answer at the head is read, and the others move up.
LEMMA TakeKept ==
  ASSUME ViewTyped, SlotFit, NEW i \in 1..MaxFlight, View!TakeAnswer(i), orderly'
  PROVE  /\ 1 \in 1..Len(line) /\ Got(1) = flight[i] /\ Len(line) \in Nat
         /\ line' \in Seq(1..MaxFlight) /\ Len(line') = Len(line) - 1
         /\ \A n \in 1..Len(line') : /\ n + 1 \in 1..Len(line) /\ Got(n)' = Got(n + 1)
                                      /\ (ReadAt(n)' <=> ReadAt(n + 1)) /\ (TakenAt(n)' <=> TakenAt(n + 1))
         /\ \A n \in 1..Len(line) : n # 1 => n - 1 \in 1..Len(line') /\ flight'[line'[n - 1]] = Got(n)
         /\ \A n \in 1..Len(line) : n # 1 => line[n] # i
         /\ flight' \in [1..MaxFlight -> Requests] /\ flight'[i].kind = "none"
         /\ \A j \in 1..MaxFlight \ {i} : flight'[j] = flight[j]
         /\ SlotFit'
<1>1. /\ 1 \in 1..Len(line) /\ Got(1) = flight[i] /\ line[1] = i
      /\ line' \in Seq(1..MaxFlight) /\ Len(line') = Len(line) - 1
      /\ \A n \in 1..Len(line') : /\ n + 1 \in 1..Len(line)
                                   /\ flight'[line'[n]] = flight[line[n + 1]]
      /\ flight' \in [1..MaxFlight -> Requests] /\ flight'[i] = View!Free
      /\ \A j \in 1..MaxFlight \ {i} : flight'[j] = flight[j]
      /\ SlotFit'
  BY LineTaken
<1>2. Len(line) \in Nat
  BY GotTyped
<1>3. \A n \in 1..Len(line') : Got(n)' = Got(n + 1)
  BY <1>1 DEF Got
<1>4. \A n \in 1..Len(line') : (ReadAt(n)' <=> ReadAt(n + 1)) /\ (TakenAt(n)' <=> TakenAt(n + 1))
  BY <1>3 DEF ReadAt, TakenAt
<1>5. ASSUME NEW n \in 1..Len(line), n # 1
      PROVE  n - 1 \in 1..Len(line') /\ flight'[line'[n - 1]] = Got(n) /\ line[n] # i
  <2>1. n - 1 \in 1..Len(line') /\ (n - 1) + 1 = n
    BY <1>1, <1>2, <1>5
  <2>2. flight'[line'[n - 1]] = Got(n)
    BY <1>1, <2>1 DEF Got
  <2>3. line[n] # i
    BY <1>1, <1>5 DEF SlotFit
  <2> QED
    BY <2>1, <2>2, <2>3
<1>6. flight'[i].kind = "none"
  BY <1>1 DEF View!Free
<1> QED
  BY <1>1, <1>2, <1>3, <1>4, <1>5, <1>6

\* An answer is read that says nothing of the conversation.
LEMMA DullTake ==
  ASSUME ViewFit, NEW i \in 1..MaxFlight, View!TakeAnswer(i), orderly',
         flight[i].kind # "read", flight[i].kind = "send" => ~flight[i].answer.ok,
         UNCHANGED <<recorded, running, compacting, created, viewSession, viewTurns, viewPending, on, box,
                     viewTyped, last>>
  PROVE  ViewFit'
<1>1. /\ 1 \in 1..Len(line) /\ Got(1) = flight[i] /\ Len(line) \in Nat
      /\ line' \in Seq(1..MaxFlight) /\ Len(line') = Len(line) - 1
      /\ \A n \in 1..Len(line') : /\ n + 1 \in 1..Len(line) /\ Got(n)' = Got(n + 1)
                                   /\ (ReadAt(n)' <=> ReadAt(n + 1)) /\ (TakenAt(n)' <=> TakenAt(n + 1))
      /\ \A n \in 1..Len(line) : n # 1 => n - 1 \in 1..Len(line') /\ flight'[line'[n - 1]] = Got(n)
      /\ flight' \in [1..MaxFlight -> Requests] /\ flight'[i].kind = "none"
      /\ \A j \in 1..MaxFlight \ {i} : flight'[j] = flight[j]
      /\ SlotFit'
  BY TakeKept DEF ViewFit
<1>2. ~ReadAt(1) /\ ~TakenAt(1)
  BY <1>1 DEF ReadAt, TakenAt
<1>3. ViewTyped'
  BY <1>1 DEF ViewFit, ViewTyped
<1>4. /\ \A n \in 1..Len(line') : ReadAt(n)' \/ TakenAt(n)' => n + 1 \in 1..Len(line) /\ Got(n)' = Got(n + 1)
      /\ \A n \in 1..Len(line) : ReadAt(n) \/ TakenAt(n) =>
           1 = 1 /\ n - 1 \in 1..Len(line') /\ flight'[line'[n - 1]] = Got(n)
  BY <1>1, <1>2
<1>5. /\ (\E j \in 1..MaxFlight : flight[j].kind = "read") => \E j \in 1..MaxFlight : flight'[j].kind = "read"
      /\ (\E j \in 1..MaxFlight : flight'[j].kind = "send") => \E j \in 1..MaxFlight : flight[j].kind = "send"
  BY <1>1
<1>6. (TakenFit /\ PendingFit /\ ShownFit /\ IdleFit /\ WaitFit /\ SightFit)'
  BY <1>3, <1>4, <1>5, DullStep, 1 \in {0, 1}
<1>7. NoneTaken' => NoneTaken
  <2>1. ASSUME NEW n \in 1..Len(line), TakenAt(n)
        PROVE  \E m \in 1..Len(line') : TakenAt(m)'
    <3>1. n # 1 /\ n - 1 \in 1..Len(line') /\ (n - 1) + 1 = n
      BY <1>1, <1>2, <2>1
    <3>2. TakenAt(n - 1)'
      BY <1>1, <2>1, <3>1
    <3> QED
      BY <3>1, <3>2
  <2> QED
    BY <2>1 DEF NoneTaken
<1>8. FlightFit' /\ FreshFit'
  <2>1. FlightFit'
    BY <1>1 DEF ViewFit, FlightFit
  <2>2. FreshFit'
    BY <1>7 DEF ViewFit, FreshFit
  <2> QED
    BY <2>1, <2>2
<1> QED
  BY <1>1, <1>3, <1>6, <1>8 DEF ViewFit

\* The answer to a request for a summary changes nothing on the page.
LEMMA ReadCompactStep ==
  ASSUME ViewFit, NEW i \in 1..MaxFlight, View!ReadCompact(i), orderly'
  PROVE  ViewFit'
<1>1. /\ flight[i].kind = "compact" /\ View!TakeAnswer(i)
      /\ UNCHANGED <<recorded, running, compacting, created, viewSession, viewTurns, viewPending, on, box,
                     viewTyped, last>>
  BY DEF View!ReadCompact, View!server, View!page
<1> QED
  BY <1>1, DullTake

\* The message that was accepted becomes the pending one; the polls behind its answer fit it.
LEMMA ReadSendStep ==
  ASSUME ViewFit, NEW i \in 1..MaxFlight, View!ReadSend(i), orderly'
  PROVE  ViewFit'
<1>1. /\ flight[i].kind = "send" /\ View!TakeAnswer(i)
      /\ UNCHANGED <<recorded, running, compacting, created, viewTurns, viewTyped>>
  BY DEF View!ReadSend, View!server
<1>2. CASE ~flight[i].answer.ok
  <2>1. UNCHANGED <<viewSession, viewPending, on, box, last>>
    BY <1>2 DEF View!ReadSend
  <2> QED
    BY <1>1, <1>2, <2>1, DullTake
<1>3. CASE flight[i].answer.ok
  <2> DEFINE id == flight[i].answer.session
             c == flight[i].text
  <2>1. /\ viewSession' = id
        /\ viewPending' = [View!NoPending EXCEPT !.text = c, !.since = Len(viewTurns)]
        /\ on' = TRUE /\ box' = 0 /\ last' = c
    BY <1>3 DEF View!ReadSend, View!Blank
  <2>2. /\ 1 \in 1..Len(line) /\ Got(1) = flight[i] /\ Len(line) \in Nat
        /\ line' \in Seq(1..MaxFlight) /\ Len(line') = Len(line) - 1
        /\ \A n \in 1..Len(line') : /\ n + 1 \in 1..Len(line) /\ Got(n)' = Got(n + 1)
                                     /\ (ReadAt(n)' <=> ReadAt(n + 1)) /\ (TakenAt(n)' <=> TakenAt(n + 1))
        /\ \A n \in 1..Len(line) : n # 1 => line[n] # i
        /\ flight' \in [1..MaxFlight -> Requests] /\ flight'[i].kind = "none"
        /\ \A j \in 1..MaxFlight \ {i} : flight'[j] = flight[j]
        /\ SlotFit'
    BY <1>1, TakeKept DEF ViewFit
  <2>3. c = box /\ box # 0 /\ box \in Nat /\ box <= viewTyped
    BY <1>1 DEF ViewFit, ViewTyped, FlightFit, FreshFit
  <2>4. TakenAt(1)
    BY <1>1, <1>3, <2>2 DEF TakenAt
  <2>5. /\ id \in 1..created /\ viewSession \in {0, id}
        /\ \A n \in DOMAIN viewTurns : viewTurns[n] # c
        /\ Following(id, c, 1)
    BY <2>2, <2>3, <2>4 DEF ViewFit, TakenFit
  <2> HIDE DEF id, c
  <2>6. NoneTaken'
    <3>1. ASSUME NEW n \in 1..Len(line'), TakenAt(n)' PROVE FALSE
      <4>1. n + 1 \in 1..Len(line) /\ n + 1 # 1 /\ TakenAt(n + 1)
        BY <2>2, <3>1
      <4>2. line[n + 1] \in 1..MaxFlight /\ flight[line[n + 1]].kind = "send"
        BY <4>1, GotTyped DEF ViewFit, TakenAt, Got
      <4>3. line[n + 1] = i
        BY <1>1, <4>2 DEF ViewFit, FlightFit
      <4> QED
        BY <2>2, <4>1, <4>3
    <3> QED
      BY <3>1 DEF NoneTaken
  <2>7. /\ viewPending' \in Pendings /\ viewPending'.text = c /\ viewPending'.since = Len(viewTurns)
        /\ ~viewPending'.lost
    <3>1. Len(viewTurns) \in Nat
      BY DEF ViewFit, ViewTyped
    <3> QED
      BY <2>1, <2>3, <3>1 DEF View!NoPending, View!Blank, Pendings
  <2>8. ViewTyped'
    <3>1. viewSession' \in 0..created' /\ on' \in BOOLEAN /\ box' \in Nat /\ last' \in Nat
      BY <1>1, <2>1, <2>3, <2>5
    <3> QED
      BY <1>1, <2>2, <2>7, <3>1 DEF ViewFit, ViewTyped
  <2>9. id # 0 /\ \A j \in 1..MaxFlight : flight'[j].kind # "send"
    <3>1. \A j \in 1..MaxFlight : j # i => flight[j].kind # "send"
      BY <1>1 DEF ViewFit, FlightFit
    <3> QED
      BY <2>2, <2>5, <3>1
  <2>10. FlightFit'
    <3>1. ASSUME NEW j \in 1..MaxFlight, flight'[j].kind # "none"
          PROVE  flight'[j].session = id
      <4>1. j # i /\ flight'[j] = flight[j] /\ flight[j].kind # "send"
        BY <2>2, <2>9, <3>1
      <4>2. viewSession # 0
        BY <3>1, <4>1 DEF ViewFit, FlightFit
      <4>3. flight[j].session = viewSession
        BY <3>1, <4>1 DEF ViewFit, FlightFit
      <4> QED
        BY <2>5, <4>1, <4>2, <4>3
    <3> QED
      BY <2>1, <2>9, <3>1 DEF FlightFit
  <2>11. FreshFit'
    BY <1>1, <2>1, <2>3 DEF ViewFit, ViewTyped, FreshFit
  <2>12. TakenFit' /\ ShownFit' /\ IdleFit' /\ WaitFit'
    BY <2>1, <2>3, <2>6, <2>7, <2>9 DEF TakenFit, NoneTaken, ShownFit, IdleFit, WaitFit
  <2>13. Following(viewSession, last, 0)'
    <3>1. Course(viewSession, last)'
      BY <1>1, <2>1, <2>5 DEF Following, Course
    <3>2. ASSUME NEW n \in 1..Len(line'), ReadAt(n)'
          PROVE  /\ n + 1 \in 1..Len(line) /\ 1 < n + 1 /\ ReadAt(n + 1) /\ Got(n)' = Got(n + 1)
                 /\ Got(n)'.answer.turns \in {viewTurns, recorded[id]}
                 /\ ~Got(n)'.answer.on => Got(n)'.answer.turns = recorded[id] /\ running[id] = 0
      <4>1. n + 1 \in 1..Len(line) /\ 1 < n + 1 /\ ReadAt(n + 1) /\ Got(n)' = Got(n + 1)
        BY <2>2, <3>2
      <4> QED
        BY <2>5, <4>1 DEF Following
    <3>3. ASSUME NEW m \in 1..Len(line'), NEW n \in 1..Len(line'), m < n, ReadAt(m)', ReadAt(n)'
          PROVE  Got(m)'.answer.turns # viewTurns => Got(n)'.answer.turns # viewTurns
      <4>1. /\ n + 1 \in 1..Len(line) /\ 1 < n + 1 /\ ReadAt(n + 1) /\ Got(n)' = Got(n + 1)
            /\ m + 1 \in 1..Len(line) /\ 1 < m + 1 /\ ReadAt(m + 1) /\ Got(m)' = Got(m + 1)
        BY <3>2, <3>3
      <4>2. m + 1 < n + 1
        BY <3>3
      <4> QED
        BY <2>5, <4>1, <4>2 DEF Following
    <3> QED
      BY <1>1, <2>1, <3>1, <3>2, <3>3 DEF Following
  <2>14. PendingFit'
    BY <2>1, <2>7, <2>13 DEF PendingFit
  <2>15. SightFit'
    BY <1>1, <2>1, <2>3, <2>5, <2>7 DEF SightFit, View!Shown
  <2> QED
    BY <2>2, <2>8, <2>10, <2>11, <2>12, <2>14, <2>15 DEF ViewFit
<1> QED
  BY <1>2, <1>3

\* A poll shows either what was shown, or the record of the message that was pending.
LEMMA ReadReadStep ==
  ASSUME ViewFit, NEW i \in 1..MaxFlight, View!ReadRead(i), orderly'
  PROVE  ViewFit'
<1>1. /\ flight[i].kind = "read" /\ View!TakeAnswer(i)
      /\ UNCHANGED <<recorded, running, compacting, created, viewSession, box, viewTyped, last>>
  BY DEF View!ReadRead, View!server
<1>2. /\ 1 \in 1..Len(line) /\ Got(1) = flight[i] /\ Len(line) \in Nat
      /\ line' \in Seq(1..MaxFlight) /\ Len(line') = Len(line) - 1
      /\ \A n \in 1..Len(line') : /\ n + 1 \in 1..Len(line) /\ Got(n)' = Got(n + 1)
                                   /\ (ReadAt(n)' <=> ReadAt(n + 1)) /\ (TakenAt(n)' <=> TakenAt(n + 1))
      /\ \A n \in 1..Len(line) : n # 1 => n - 1 \in 1..Len(line') /\ flight'[line'[n - 1]] = Got(n)
      /\ flight' \in [1..MaxFlight -> Requests] /\ flight'[i].kind = "none"
      /\ \A j \in 1..MaxFlight \ {i} : flight'[j] = flight[j]
      /\ SlotFit'
  BY <1>1, TakeKept DEF ViewFit
<1> DEFINE got == flight[i].answer
<1>3. ReadAt(1) /\ ~TakenAt(1) /\ Got(1).answer = got /\ got.ok
  BY <1>1, <1>2 DEF ViewFit, SlotFit, ReadAt, TakenAt
<1>4. viewTurns' = got.turns /\ on' = got.on /\ viewPending' \in View!StillPending(got)
  BY <1>3 DEF View!ReadRead
<1>5. got \in Replies /\ got.turns \in Seq(Nat) /\ got.on \in BOOLEAN
  BY DEF ViewFit, ViewTyped, Requests, Replies
<1> HIDE DEF got
<1>6. viewSession \in Talks /\ viewSession # 0
  BY <1>1, ViewAssumption DEF ViewFit, ViewTyped, FlightFit, Talks
<1>7. \/ viewPending' = View!NoPending /\ (viewPending = View!NoPending \/ Len(got.turns) > viewPending.since)
      \/ /\ viewPending # View!NoPending /\ ~(Len(got.turns) > viewPending.since)
         /\ viewPending' \in Pendings /\ viewPending'.text = viewPending.text
         /\ viewPending'.since = viewPending.since
         /\ viewPending'.lost => viewPending.lost \/ ~got.on
  <2>1. viewPending \in Pendings
    BY DEF ViewFit, ViewTyped
  <2> QED
    BY <1>4, <2>1 DEF View!StillPending, View!Arrived, Pendings
<1>8. viewPending' \in Pendings
  <2>1. View!NoPending \in Pendings
    BY DEF View!NoPending, View!Blank, Pendings
  <2> QED
    BY <1>7, <2>1
<1>9. ViewTyped'
  <2>1. viewTurns' \in Seq(Nat) /\ on' \in BOOLEAN
    BY <1>4, <1>5
  <2> QED
    BY <1>1, <1>2, <1>8, <2>1 DEF ViewFit, ViewTyped
<1>10. FlightFit'
  BY <1>1, <1>2, <1>6 DEF ViewFit, FlightFit
<1>11. NoneTaken' <=> NoneTaken
  <2>1. ASSUME NEW n \in 1..Len(line), TakenAt(n)
        PROVE  \E m \in 1..Len(line') : TakenAt(m)'
    <3>1. n # 1 /\ n - 1 \in 1..Len(line') /\ (n - 1) + 1 = n
      BY <1>2, <1>3, <2>1
    <3>2. TakenAt(n - 1)'
      BY <1>2, <2>1, <3>1
    <3> QED
      BY <3>1, <3>2
  <2> QED
    BY <1>2, <2>1 DEF NoneTaken
<1>12. FreshFit'
  BY <1>1, <1>11 DEF ViewFit, FreshFit
<1>13. ASSUME viewTurns' = viewTurns, NEW s, NEW c, NEW p \in Nat,
              Following(s, c, p + 1) \/ (p = 0 /\ Following(s, c, 0))
       PROVE  Following(s, c, p)'
  <2>1. Course(s, c)'
    BY <1>1, <1>13 DEF Following, Course
  <2>2. ASSUME NEW n \in 1..Len(line'), p < n, ReadAt(n)'
        PROVE  /\ n + 1 \in 1..Len(line) /\ p + 1 < n + 1 /\ 0 < n + 1 /\ ReadAt(n + 1) /\ Got(n)' = Got(n + 1)
               /\ Got(n)'.answer.turns \in {viewTurns, recorded[s]}
               /\ ~Got(n)'.answer.on => Got(n)'.answer.turns = recorded[s] /\ running[s] = 0
    <3>1. n + 1 \in 1..Len(line) /\ p + 1 < n + 1 /\ 0 < n + 1 /\ ReadAt(n + 1) /\ Got(n)' = Got(n + 1)
      BY <1>2, <2>2
    <3> QED
      BY <1>13, <3>1 DEF Following
  <2>3. ASSUME NEW m \in 1..Len(line'), NEW n \in 1..Len(line'), p < m, m < n, ReadAt(m)', ReadAt(n)'
        PROVE  Got(m)'.answer.turns # viewTurns => Got(n)'.answer.turns # viewTurns
    <3>1. /\ n + 1 \in 1..Len(line) /\ ReadAt(n + 1) /\ Got(n)' = Got(n + 1)
          /\ m + 1 \in 1..Len(line) /\ p + 1 < m + 1 /\ 0 < m + 1 /\ ReadAt(m + 1) /\ Got(m)' = Got(m + 1)
      BY <1>2, <2>3
    <3>2. m + 1 < n + 1
      BY <2>3
    <3> QED
      BY <1>13, <3>1, <3>2 DEF Following
  <2> QED
    BY <1>1, <1>13, <2>1, <2>2, <2>3 DEF Following
<1>14. ASSUME viewTurns' = viewTurns, AllSame
       PROVE  AllSame'
  BY <1>2, <1>14 DEF AllSame
<1>15. ASSUME viewTurns' = viewTurns, Resting(viewSession)
       PROVE  Resting(viewSession)'
  BY <1>1, <1>15 DEF Resting
<1>16. CASE ~NoneTaken
  <2>1. PICK q \in 1..Len(line) : TakenAt(q)
    BY <1>16 DEF NoneTaken
  <2>2. q # 1 /\ 1 < q
    BY <1>2, <1>3, <2>1
  <2>3. /\ Got(q).answer.session = viewSession /\ Following(viewSession, box, q)
        /\ SameBefore(q)
    BY <1>6, <2>1 DEF ViewFit, TakenFit
  <2>4. got.turns = viewTurns
    BY <1>2, <1>3, <2>2, <2>3 DEF SameBefore
  <2>5. viewTurns' = viewTurns
    BY <1>4, <2>4
  <2>6. TakenFit'
    <3>1. ASSUME NEW p \in 1..Len(line'), TakenAt(p)'
          PROVE  (/\ Got(p).answer.session \in 1..created /\ viewSession \in {0, Got(p).answer.session}
                  /\ \A n \in DOMAIN viewTurns : viewTurns[n] # box
                  /\ Following(Got(p).answer.session, box, p) /\ SameBefore(p))'
      <4>1. p + 1 \in 1..Len(line) /\ TakenAt(p + 1) /\ Got(p)' = Got(p + 1) /\ p \in Nat
        BY <1>2, <3>1
      <4>2. /\ Got(p + 1).answer.session \in 1..created /\ viewSession = Got(p + 1).answer.session
            /\ \A n \in DOMAIN viewTurns : viewTurns[n] # box
            /\ Following(viewSession, box, p + 1) /\ SameBefore(p + 1)
        BY <1>6, <4>1 DEF ViewFit, TakenFit
      <4>3. SameBefore(p)'
        <5>1. ASSUME NEW n \in 1..Len(line'), n < p, ReadAt(n)'
              PROVE  Got(n)'.answer.turns = viewTurns'
          <6>1. n + 1 \in 1..Len(line) /\ ReadAt(n + 1) /\ Got(n)' = Got(n + 1) /\ n + 1 < p + 1
            BY <1>2, <5>1
          <6> QED
            BY <2>5, <4>2, <6>1 DEF SameBefore
        <5> QED
          BY <5>1 DEF SameBefore
      <4>4. Following(Got(p).answer.session, box, p)'
        <5>1. PICK c \in {box}, s \in {viewSession} : c = box /\ s = viewSession
          OBVIOUS
        <5>2. Following(s, c, p)'
          BY <1>13, <2>5, <4>1, <4>2, <5>1
        <5> QED
          BY <1>1, <4>1, <4>2, <5>1, <5>2 DEF Following, Course
      <4> QED
        BY <1>1, <2>5, <4>1, <4>2, <4>3, <4>4
    <3> QED
      BY <3>1 DEF TakenFit
  <2>7. PendingFit' /\ ShownFit' /\ IdleFit' /\ WaitFit'
    BY <1>11, <1>16 DEF PendingFit, ShownFit, IdleFit, WaitFit
  <2>8. SightFit'
    <3>1. last # 0 => running[viewSession] # last
      <4>1. running[viewSession] \in {0, box}
        BY <2>3 DEF Following, Course
      <4>2. box # last
        <5>1. box # 0
          <6>1. line[q] \in 1..MaxFlight /\ flight[line[q]].kind = "send"
            BY <2>1, GotTyped DEF ViewFit, TakenAt, Got
          <6> QED
            BY <6>1 DEF ViewFit, FlightFit
        <5> QED
          BY <5>1 DEF ViewFit, FreshFit
      <4> QED
        BY <4>1, <4>2
    <3>2. CASE last = 0
      <4>1. viewPending' = View!NoPending
        BY <1>7, <3>2 DEF ViewFit, SightFit
      <4> QED
        BY <1>1, <3>2, <4>1 DEF SightFit, View!NoPending
    <3>3. CASE last # 0
      <4>1. CASE viewPending = View!NoPending /\ View!Shown(last)
        <5>1. viewPending' = View!NoPending
          BY <1>7, <4>1
        <5> QED
          BY <1>1, <2>5, <3>3, <4>1, <5>1 DEF SightFit, View!NoPending, View!Shown
      <4>2. CASE viewPending.text = last /\ viewPending.since = Len(viewTurns) /\ ~View!Shown(last)
        <5>1. viewPending # View!NoPending
          BY <3>3, <4>2 DEF View!NoPending, View!Blank
        <5>2. Len(viewTurns) \in Nat
          BY DEF ViewFit, ViewTyped
        <5>3. ~(Len(got.turns) > viewPending.since)
          BY <2>4, <4>2, <5>2
        <5>4. viewPending'.text = last /\ viewPending'.since = Len(viewTurns)
          BY <1>7, <4>2, <5>1, <5>3
        <5> QED
          BY <1>1, <2>5, <3>1, <3>3, <4>2, <5>4 DEF SightFit, View!Shown
      <4> QED
        BY <3>3, <4>1, <4>2 DEF ViewFit, SightFit
    <3> QED
      BY <3>2, <3>3
  <2> QED
    BY <1>2, <1>9, <1>10, <1>12, <2>6, <2>7, <2>8 DEF ViewFit
<1>17. CASE NoneTaken
  <2>1. TakenFit'
    BY <1>11, <1>17 DEF TakenFit, NoneTaken
  <2>2. CASE last = 0
    <3>1. viewPending' = View!NoPending
      BY <1>7, <2>2 DEF ViewFit, SightFit
    <3>2. SightFit'
      BY <1>1, <2>2, <3>1 DEF SightFit, View!NoPending
    <3>3. PendingFit' /\ ShownFit'
      BY <1>1, <2>2 DEF PendingFit, ShownFit
    <3>4. IdleFit'
      <4>1. \A n \in 1..Len(line) : ReadAt(n) /\ ~Got(n).answer.on =>
              Got(n).answer.turns = recorded[viewSession] /\ running[viewSession] = 0
        BY <1>6, <1>17, <2>2 DEF ViewFit, IdleFit
      <4>2. ~on' => Resting(viewSession)'
        BY <1>1, <1>2, <1>3, <1>4, <4>1 DEF Resting
      <4>3. \A n \in 1..Len(line') : ReadAt(n)' /\ ~Got(n)'.answer.on =>
              Got(n)'.answer.turns = recorded'[viewSession'] /\ running'[viewSession'] = 0
        BY <1>1, <1>2, <4>1
      <4> QED
        BY <4>2, <4>3 DEF IdleFit
    <3>5. WaitFit'
      <4>1. SUFFICES ASSUME \E j \in 1..MaxFlight : flight'[j].kind = "send"
                     PROVE  Resting(viewSession)' /\ AllSame'
        BY <1>1 DEF WaitFit
      <4>2. \E j \in 1..MaxFlight : flight[j].kind = "send"
        BY <1>2, <4>1
      <4>3. Resting(viewSession) /\ AllSame
        BY <1>6, <1>17, <4>2 DEF ViewFit, WaitFit
      <4>4. viewTurns' = viewTurns
        BY <1>2, <1>3, <1>4, <4>3 DEF AllSame
      <4> QED
        BY <1>14, <1>15, <4>3, <4>4
    <3> QED
      BY <1>2, <1>9, <1>10, <1>12, <2>1, <3>2, <3>3, <3>4, <3>5 DEF ViewFit
  <2>3. CASE last # 0 /\ viewPending.text # last
    <3>1. viewPending = View!NoPending /\ View!Shown(last) /\ Resting(viewSession) /\ AllSame
      BY <1>17, <2>3 DEF ViewFit, SightFit, ShownFit
    <3>2. viewTurns' = viewTurns /\ viewPending' = View!NoPending
      BY <1>2, <1>3, <1>4, <1>7, <3>1 DEF AllSame
    <3>3. Resting(viewSession)' /\ AllSame'
      BY <1>14, <1>15, <3>1, <3>2
    <3>4. SightFit'
      BY <1>1, <2>3, <3>1, <3>2 DEF SightFit, View!Shown, View!NoPending
    <3>5. PendingFit' /\ ShownFit' /\ IdleFit' /\ WaitFit'
      BY <1>1, <2>3, <3>1, <3>2, <3>3 DEF PendingFit, ShownFit, IdleFit, WaitFit
    <3> QED
      BY <1>2, <1>9, <1>10, <1>12, <2>1, <3>4, <3>5 DEF ViewFit
  <2>4. CASE last # 0 /\ viewPending.text = last
    <3>1. Following(viewSession, last, 0) /\ (~on \/ viewPending.lost => Resting(viewSession))
      BY <1>17, <2>4 DEF ViewFit, PendingFit
    <3>2. viewPending # View!NoPending
      BY <2>4 DEF View!NoPending, View!Blank
    <3>3. viewPending.since = Len(viewTurns) /\ ~View!Shown(last) /\ Len(viewTurns) \in Nat
      BY <2>4, <3>2 DEF ViewFit, ViewTyped, SightFit
    <3>4. /\ got.turns \in {viewTurns, recorded[viewSession]}
          /\ ~got.on => got.turns = recorded[viewSession] /\ running[viewSession] = 0
      BY <1>2, <1>3, <3>1 DEF Following
    <3>5. CASE got.turns = viewTurns
      <4>1. viewTurns' = viewTurns
        BY <1>4, <3>5
      <4>2. /\ viewPending'.text = last /\ viewPending'.since = Len(viewTurns)
            /\ viewPending'.lost => viewPending.lost \/ ~got.on
        <5>1. ~(Len(got.turns) > viewPending.since)
          BY <3>3, <3>5
        <5> QED
          BY <1>7, <2>4, <3>2, <3>3, <5>1
      <4>3. ~on' \/ viewPending'.lost => Resting(viewSession)
        BY <1>4, <3>1, <3>4, <3>5, <4>2 DEF Resting
      <4>4. Following(viewSession, last, 0)'
        <5>1. PICK c \in {last}, s \in {viewSession} : c = last /\ s = viewSession
          OBVIOUS
        <5>2. Following(s, c, 0)'
          BY <1>13, <3>1, <4>1, <5>1
        <5> QED
          BY <1>1, <5>1, <5>2 DEF Following, Course
      <4>5. PendingFit'
        BY <1>15, <4>1, <4>3, <4>4 DEF PendingFit
      <4>6. ShownFit' /\ IdleFit'
        BY <1>1, <2>4, <4>2 DEF ShownFit, IdleFit
      <4>7. WaitFit'
        <5>1. SUFFICES ASSUME \E j \in 1..MaxFlight : flight'[j].kind = "send"
                       PROVE  Resting(viewSession)' /\ AllSame'
          BY <1>1 DEF WaitFit
        <5>2. \E j \in 1..MaxFlight : flight[j].kind = "send"
          BY <1>2, <5>1
        <5>3. Resting(viewSession) /\ AllSame
          BY <1>6, <1>17, <5>2 DEF ViewFit, WaitFit
        <5> QED
          BY <1>14, <1>15, <4>1, <5>3
      <4>8. SightFit'
        <5>1. viewPending'.lost => running[viewSession] # last
          BY <2>4, <4>3 DEF Resting
        <5> QED
          BY <1>1, <2>4, <3>3, <4>1, <4>2, <5>1 DEF SightFit, View!Shown
      <4> QED
        BY <1>2, <1>9, <1>10, <1>12, <2>1, <4>5, <4>6, <4>7, <4>8 DEF ViewFit
    <3>6. CASE got.turns # viewTurns
      <4>1. /\ got.turns = recorded[viewSession] /\ running[viewSession] = 0
            /\ recorded[viewSession] = Append(viewTurns, last)
        BY <3>1, <3>4, <3>6 DEF Following, Course
      <4>2. /\ viewTurns' = Append(viewTurns, last) /\ Len(viewTurns') = Len(viewTurns) + 1
            /\ viewTurns'[Len(viewTurns) + 1] = last /\ Len(viewTurns) + 1 \in DOMAIN viewTurns'
        <5>1. viewTurns \in Seq(Nat) /\ last \in Nat
          BY DEF ViewFit, ViewTyped
        <5>2. /\ Append(viewTurns, last) \in Seq(Nat)
              /\ Len(Append(viewTurns, last)) = Len(viewTurns) + 1
              /\ Append(viewTurns, last)[Len(viewTurns) + 1] = last
          BY <5>1, AppendProperties
        <5>3. viewTurns' = Append(viewTurns, last)
          BY <1>4, <4>1
        <5> QED
          BY <3>3, <5>2, <5>3
      <4>3. viewPending' = View!NoPending
        BY <1>4, <1>7, <3>3, <4>2
      <4>4. viewPending'.text # last /\ View!Shown(last)' /\ ~viewPending'.lost
        BY <1>1, <2>4, <4>2, <4>3 DEF View!NoPending, View!Blank, View!Shown
      <4>5. SightFit'
        BY <1>1, <2>4, <4>3, <4>4 DEF SightFit
      <4>6. Resting(viewSession)'
        BY <1>1, <1>4, <4>1 DEF Resting
      <4>7. AllSame'
        <5>1. ASSUME NEW n \in 1..Len(line'), ReadAt(n)'
              PROVE  Got(n)'.answer.turns = viewTurns'
          <6>1. n + 1 \in 1..Len(line) /\ 1 < n + 1 /\ ReadAt(n + 1) /\ Got(n)' = Got(n + 1)
            BY <1>2, <5>1
          <6>2. Got(n + 1).answer.turns # viewTurns
            BY <1>2, <1>3, <3>1, <3>6, <6>1 DEF Following
          <6>3. Got(n + 1).answer.turns \in {viewTurns, recorded[viewSession]}
            BY <3>1, <6>1 DEF Following
          <6> QED
            BY <1>4, <4>1, <6>1, <6>2, <6>3
        <5> QED
          BY <5>1 DEF AllSame
      <4>8. PendingFit' /\ ShownFit' /\ IdleFit' /\ WaitFit'
        BY <1>1, <2>4, <4>4, <4>6, <4>7 DEF PendingFit, ShownFit, IdleFit, WaitFit
      <4> QED
        BY <1>2, <1>9, <1>10, <1>12, <2>1, <4>5, <4>8 DEF ViewFit
    <3> QED
      BY <3>5, <3>6
  <2> QED
    BY <2>2, <2>3, <2>4
<1> QED
  BY <1>16, <1>17

\* Nothing of the page moves in a step of another component.
LEMMA ViewRests ==
  ASSUME ViewFit, UNCHANGED viewVars
  PROVE  ViewFit'
<1> USE DEF viewVars
<1>1. ViewTyped' /\ SlotFit' /\ FlightFit' /\ FreshFit'
  BY LineKept DEF ViewFit, ViewTyped, FlightFit, FreshFit
<1>2. (TakenFit /\ PendingFit /\ ShownFit /\ IdleFit /\ WaitFit /\ SightFit)'
  BY <1>1, DullStep, LineKept, 0 \in {0, 1} DEF ViewFit
<1> QED
  BY <1>1, <1>2 DEF ViewFit

\* orderly never comes back, so it held before a step after which it holds.
LEMMA ViewStepFit ==
  ASSUME orderly => ViewFit, View!Next, orderly'
  PROVE  ViewFit'
<1>1. View!Slots = 1..MaxFlight /\ View!Conversations = Talks
  BY DEF View!Slots, View!Conversations, Talks
<1>2. ASSUME NEW i \in 1..MaxFlight,
             \/ View!HandleSend(i) \/ View!HandleRead(i) \/ View!HandleCompact(i) \/ View!Fail(i)
             \/ View!ReadSend(i) \/ View!ReadRead(i) \/ View!ReadCompact(i)
      PROVE  ViewFit'
  <2>1. orderly
    BY <1>2 DEF View!HandleSend, View!HandleRead, View!HandleCompact, View!Fail, View!ReadSend,
       View!ReadRead, View!ReadCompact, View!TakeAnswer
  <2> QED
    BY <1>2, <2>1, HandleSendStep, HandleReadStep, HandleCompactStep, FailStep, ReadSendStep, ReadReadStep,
       ReadCompactStep
<1>3. ASSUME NEW s \in Talks, View!SummaryEnds(s) \/ View!TurnEnds(s) \/ View!Switch(s)
      PROVE  ViewFit'
  <2>1. orderly
    BY <1>3 DEF View!SummaryEnds, View!TurnEnds, View!Switch
  <2> QED
    BY <1>3, <2>1, SummaryStep, TurnStep, SwitchStep
<1>4. ASSUME View!Type \/ View!SendChat \/ View!SyncChat \/ View!CompactChat \/ View!StartNewChat
      PROVE  ViewFit'
  <2>1. orderly
    BY <1>4 DEF View!Type, View!SendChat, View!SyncChat, View!CompactChat, View!StartNewChat
  <2> QED
    BY <1>4, <2>1, TypingStep, SendStep, SyncStep, NewChatStep
<1> QED
  BY <1>1, <1>2, <1>3, <1>4 DEF View!Next

\* A page on nothing.
LEMMA ViewFitAtStart ==
  ASSUME ConversationsInit
  PROVE  ViewFit
<1>1. /\ recorded = [s \in Talks |-> <<>>] /\ running = [s \in Talks |-> 0] /\ compacting = {} /\ created = 0
      /\ viewSession = 0 /\ viewTurns = <<>> /\ viewPending = View!NoPending /\ on = FALSE /\ box = 0
      /\ viewTyped = 0 /\ flight = [i \in 1..MaxFlight |-> View!Free] /\ line = <<>> /\ last = 0
  BY DEF ConversationsInit, View!Init, View!Conversations, View!Slots, View!Blank, Talks
<1>2. \A S : <<>> \in Seq(S)
  BY EmptySeq
<1>3. ViewTyped
  <2>1. View!NoPending \in Pendings
    BY DEF View!NoPending, View!Blank, Pendings
  <2>2. recorded \in [Talks -> Seq(Nat)] /\ running \in [Talks -> Nat] /\ viewTurns \in Seq(Nat)
        /\ line \in Seq(1..MaxFlight)
    BY <1>1, <1>2
  <2>3. flight \in [1..MaxFlight -> Requests]
    BY <1>1, NoAnswerTyped
  <2>4. created \in 0..MaxSessions /\ viewSession \in 0..created
    BY <1>1, ViewAssumption
  <2> QED
    BY <1>1, <2>1, <2>2, <2>3, <2>4 DEF ViewTyped
<1>4. Len(line) = 0 /\ \A i \in 1..MaxFlight : /\ flight[i] = View!Free /\ flight[i].kind = "none"
                                               /\ flight[i].answer = View!NoAnswer
  BY <1>1 DEF View!Free
<1>5. SlotFit /\ FlightFit
  BY <1>1, <1>4 DEF SlotFit, FlightFit
<1>6. FreshFit
  BY <1>1 DEF FreshFit
<1>7. TakenFit /\ PendingFit /\ ShownFit /\ IdleFit /\ WaitFit
  BY <1>1, <1>4 DEF TakenFit, PendingFit, ShownFit, IdleFit, WaitFit
<1>8. SightFit
  BY <1>1 DEF SightFit, View!NoPending
<1> QED
  BY <1>3, <1>5, <1>6, <1>7, <1>8 DEF ViewFit

\* The message accepted last in the conversation shown stays in sight, exactly once: pending, or
\* among its turns, as long as answers are read in order and nothing is under way when a message
\* is sent or the conversation changed; and it is given up for lost only where it was left without
\* a record (client/chat.js: sendChat, syncChat, settlePending).
THEOREM ScreenAlwaysTrue == ConversationsSpec => []ScreenIsTrue
<1> DEFINE Fit == orderly => ViewFit
<1>1. ConversationsInit => Fit
  BY ViewFitAtStart
<1>2. Fit /\ [ConversationsNext]_conversationsVars => Fit'
  <2> SUFFICES ASSUME Fit, [ConversationsNext]_conversationsVars, orderly' PROVE ViewFit'
    OBVIOUS
  <2>1. CASE ViewStep
    BY <2>1, ViewStepFit DEF ViewStep
  <2>2. CASE UNCHANGED viewVars
    <3>1. orderly
      BY <2>2 DEF viewVars
    <3> QED
      BY <2>2, <3>1, ViewRests
  <2> QED
    BY <2>1, <2>2 DEF ConversationsNext, ChatStep, TerminalStep, PageStep, conversationsVars
<1>3. Fit => ScreenIsTrue
  <2> SUFFICES ASSUME ViewFit, orderly, last # 0
               PROVE  /\ View!Shown(last) # (viewPending.text = last)
                      /\ viewPending.lost => ~View!Shown(last) /\ running[viewSession] # last
    BY DEF ScreenIsTrue, View!MessageInSight, View!Blank
  <2>1. CASE viewPending.text = last /\ ~View!Shown(last)
    BY <2>1 DEF ViewFit, SightFit
  <2>2. CASE viewPending = View!NoPending /\ View!Shown(last)
    <3>1. viewPending.text = 0 /\ ~viewPending.lost
      BY <2>2 DEF View!NoPending, View!Blank
    <3>2. View!Shown(last) \in BOOLEAN
      BY DEF View!Shown
    <3> QED
      BY <2>2, <3>1, <3>2
  <2> QED
    BY <2>1, <2>2 DEF ViewFit, SightFit
<1> QED
  BY <1>1, <1>2, <1>3, PTL DEF ConversationsSpec
=============================================================================
