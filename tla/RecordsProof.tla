---------------------------- MODULE RecordsProof -----------------------------
(***************************************************************************)
(* Proofs about what is recorded while a run works (MCRuns).               *)
(*                                                                         *)
(* Costs, for any number of processes that append to one telemetry file    *)
(* and move it aside: a token is charged once, a span is in one place and  *)
(* is read once, and what a report does not count was moved or taken away  *)
(* while it read.                                                          *)
(*                                                                         *)
(* Receipts of agents, for any number of agents that ask one another: what *)
(* a caller was told is on record, an altered record shows as such, and no *)
(* agent works for itself.                                                 *)
(*                                                                         *)
(* The kinds of steps, for any workflow files, commands, agents and their  *)
(* providers: a step that passed was verified.                             *)
(***************************************************************************)
EXTENDS RunsProof, FiniteSetTheorems

(* Costs and their spans.                                                  *)

Span  == [of : Procs, at : Nat, tokens : Nat]
Meter == [op : {"idle", "asking", "between"}, usage : Nat, raw : Nat, previous : Nat]
Pen   == [op : {"idle", "rename", "append"}, at : Nat]
Pieces == 0..MaxTime
Piece  == [t \in Pieces |-> IF t = 0 THEN spanFile ELSE archives[t]]

\* Numbers of requests, each process within its bound.
Bounded(a) == a \in [Procs -> Nat] /\ \A p \in Procs : a[p] <= MaxAsked[p]

USE DEF Bounded

SpansTyped ==
  /\ meter \in [Procs -> Meter] /\ Bounded(asked)
  /\ ledger \in [Procs -> Nat] /\ spanTold \in [Procs -> Nat]
  /\ queue \in [Procs -> Seq(Span)] /\ writer \in [Procs -> Pen]
  /\ spanFile \in SUBSET Span /\ archives \in [1..MaxTime -> SUBSET Span]
  /\ clock \in 1..MaxTime /\ spanPlan \in SUBSET (1..MaxTime) /\ kept \in SUBSET Span
  /\ reading \in [todo : SUBSET Pieces, counted : SUBSET Span, twice : BOOLEAN, on : BOOLEAN,
                  due : SUBSET Span]

\* What was charged is what the provider told, and the meter remembers what it has passed on.
ChargeFit ==
  \A p \in Procs : /\ ledger[p] = spanTold[p]
                   /\ meter[p].previous = meter[p].usage + meter[p].raw
                   /\ meter[p].op # "asking" => meter[p].raw = 0

\* A process at the file goes by a time that was, and has a span to write.
WriterFit ==
  \A p \in Procs : writer[p].op # "idle" => writer[p].at \in 1..clock /\ queue[p] # <<>>

\* A span is numbered by the requests of its process, and is in one place.
Apart(s, p, n) ==
  \A i \in DOMAIN s : /\ s[i].of = p /\ s[i].at < n
                      /\ \A j \in DOMAIN s : i # j => s[i].at # s[j].at
Number == [p \in Procs |-> IF meter[p].op = "idle" THEN asked[p] + 1 ELSE asked[p]]
Seen   == reading.counted \cup Spans!Written
QueueFit ==
  \A p \in Procs : Apart(queue[p], p, Number[p]) /\ \A i \in DOMAIN queue[p] : queue[p][i] \notin Seen
SpanFit == \A s \in Seen : s.at < Number[s.of]
PieceFit == \A t, u \in Pieces : t # u => Piece[t] \cap Piece[u] = {}

KeptFit == kept \subseteq Spans!Written

\* What is still to be read holds nothing that was counted, and all that is owed; the file
\* itself is read last.
ReadFit ==
  /\ ~reading.twice
  /\ reading.todo # {} => 0 \in reading.todo
  /\ \A t \in reading.todo : reading.counted \cap Piece[t] = {}
  /\ \A s \in reading.due : \E t \in reading.todo : s \in Piece[t]

SpansFit ==
  /\ SpansTyped /\ ChargeFit /\ WriterFit /\ QueueFit /\ SpanFit /\ PieceFit /\ KeptFit /\ ReadFit

LEMMA SpansStart == ASSUME Spans!Init PROVE SpansFit
<1> USE SpansAssumption
<1>1. SpansTyped
  BY DEF Spans!Init, SpansTyped, Meter, Pen, Pieces, Spans!Resting, Spans!NoReading, Spans!Times
<1>2. ChargeFit /\ WriterFit /\ QueueFit
  BY DEF Spans!Init, ChargeFit, WriterFit, QueueFit, Apart, Spans!Resting
<1>3. SpanFit /\ PieceFit /\ KeptFit /\ ReadFit
  BY DEF Spans!Init, SpanFit, PieceFit, KeptFit, ReadFit, Seen, Piece, Pieces, Spans!NoReading,
     Spans!Times, Spans!Written
<1> QED
  BY <1>1, <1>2, <1>3 DEF SpansFit

\* A charge is what is new since the last one.
LEMMA MeterGoes ==
  ASSUME SpansTyped, ChargeFit, NEW p \in Procs, NEW usage \in Nat, NEW raw \in Nat, NEW new \in Nat,
         NEW op \in {"asking", "between"},
         Spans!Progress(p, op, usage, raw), usage + raw = meter[p].usage + meter[p].raw + new,
         spanTold' = [spanTold EXCEPT ![p] = @ + new],
         \/ asked' = asked /\ meter[p].op # "idle"
         \/ asked[p] < MaxAsked[p] /\ asked' = [asked EXCEPT ![p] = @ + 1],
         op = "asking" \/ raw = 0
  PROVE  /\ meter' \in [Procs -> Meter] /\ Bounded(asked')
         /\ ledger' \in [Procs -> Nat] /\ spanTold' \in [Procs -> Nat]
         /\ ChargeFit'
         /\ \A q \in Procs : Number'[q] \in Nat /\ Number'[q] >= Number[q]
<1> DEFINE m == [op |-> op, usage |-> usage, raw |-> raw, previous |-> usage + raw]
<1>1. m \in Meter /\ m.op = op /\ m.raw = raw /\ m.previous = m.usage + m.raw
  BY DEF Meter
<1>2. meter' = [meter EXCEPT ![p] = m]
  BY DEF Spans!Progress
<1> HIDE DEF m
<1>3. /\ meter' \in [Procs -> Meter] /\ meter'[p] = m
      /\ \A q \in Procs \ {p} : meter'[q] = meter[q]
  BY <1>1, <1>2 DEF SpansTyped
<1>4. Spans!New(meter[p], usage + raw) = new
  <2>1. /\ meter[p].usage \in Nat /\ meter[p].raw \in Nat
        /\ meter[p].previous = meter[p].usage + meter[p].raw
    BY DEF SpansTyped, ChargeFit, Meter
  <2> QED
    BY <2>1 DEF Spans!New, Spans!Monus
<1>5. ledger' = [ledger EXCEPT ![p] = @ + new]
  BY <1>4 DEF Spans!Progress
<1>6. /\ ledger \in [Procs -> Nat] /\ spanTold \in [Procs -> Nat] /\ Bounded(asked)
      /\ Bounded(asked') /\ ledger' \in [Procs -> Nat] /\ spanTold' \in [Procs -> Nat]
  <2>1. /\ ledger \in [Procs -> Nat] /\ spanTold \in [Procs -> Nat] /\ Bounded(asked)
    BY DEF SpansTyped
  <2>2. Bounded(asked')
    BY <2>1, SpansAssumption
  <2>3. ledger' \in [Procs -> Nat]
    BY <1>5, <2>1
  <2>4. spanTold' \in [Procs -> Nat]
    BY <2>1
  <2> QED
    BY <2>1, <2>2, <2>3, <2>4
<1>7. ASSUME NEW q \in Procs PROVE ledger'[q] = spanTold'[q]
  <2>1. ledger[q] = spanTold[q]
    BY DEF ChargeFit
  <2> QED
    BY <1>5, <1>6, <2>1
<1>8. ChargeFit'
  BY <1>1, <1>3, <1>7 DEF ChargeFit
<1>9. \A q \in Procs : Number'[q] \in Nat /\ Number'[q] >= Number[q]
  <2> TAKE q \in Procs
  <2>1. asked[q] \in Nat /\ asked'[q] \in Nat
    BY <1>6, SpansAssumption
  <2>2. CASE q = p
    BY <1>1, <1>3, <1>6, <2>1, <2>2 DEF Number
  <2>3. CASE q # p
    BY <1>3, <1>6, <2>1, <2>3 DEF Number
  <2> QED
    BY <2>2, <2>3
<1> QED
  BY <1>3, <1>6, <1>8, <1>9

LEMMA ChargeGoes ==
  ASSUME SpansTyped, ChargeFit, NEW p \in Procs,
         \/ Spans!AccountRequest(p) \/ Spans!OnStreamUsage(p) \/ Spans!Answered(p) \/ Spans!Failed(p)
  PROVE  /\ meter' \in [Procs -> Meter] /\ Bounded(asked')
         /\ ledger' \in [Procs -> Nat] /\ spanTold' \in [Procs -> Nat]
         /\ ChargeFit'
         /\ \A q \in Procs : Number'[q] \in Nat /\ Number'[q] >= Number[q]
<1>1. /\ meter[p].usage \in Nat /\ meter[p].raw \in Nat /\ MaxTokens \in Nat
      /\ meter[p].op # "asking" => meter[p].raw = 0
  BY SpansAssumption DEF SpansTyped, ChargeFit, Meter
<1>2. CASE Spans!AccountRequest(p)
  <2>1. spanTold' = [spanTold EXCEPT ![p] = @ + 0]
    BY <1>2 DEF Spans!AccountRequest, SpansTyped
  <2>2. /\ Spans!Progress(p, "asking", meter[p].usage, 0)
        /\ asked[p] < MaxAsked[p] /\ asked' = [asked EXCEPT ![p] = @ + 1] /\ meter[p].raw = 0
    BY <1>1, <1>2 DEF Spans!AccountRequest
  <2>3. meter[p].usage + 0 = meter[p].usage + meter[p].raw + 0
    BY <1>1, <2>2
  <2> QED
    BY <1>1, <2>1, <2>2, <2>3, MeterGoes
<1>3. CASE Spans!OnStreamUsage(p)
  <2>1. PICK raw \in (meter[p].raw + 1)..MaxTokens :
          /\ Spans!Progress(p, "asking", meter[p].usage, raw)
          /\ spanTold' = [spanTold EXCEPT ![p] = @ + (raw - meter[p].raw)]
    BY <1>3 DEF Spans!OnStreamUsage
  <2>2. /\ raw \in Nat /\ raw - meter[p].raw \in Nat
        /\ meter[p].usage + raw = meter[p].usage + meter[p].raw + (raw - meter[p].raw)
    BY <1>1
  <2>3. asked' = asked /\ meter[p].op # "idle"
    BY <1>3 DEF Spans!OnStreamUsage
  <2> QED
    BY <1>1, <2>1, <2>2, <2>3, MeterGoes
<1>4. CASE Spans!Answered(p)
  <2>1. PICK raw \in meter[p].raw..MaxTokens :
          /\ Spans!Progress(p, "between", meter[p].usage + raw, 0)
          /\ spanTold' = [spanTold EXCEPT ![p] = @ + (raw - meter[p].raw)]
    BY <1>4 DEF Spans!Answered
  <2>2. /\ raw \in Nat /\ raw - meter[p].raw \in Nat
    BY <1>1
  <2>3. asked' = asked /\ meter[p].op # "idle"
    BY <1>4 DEF Spans!Answered
  <2>4. PICK sum \in Nat : sum = meter[p].usage + raw
    BY <1>1, <2>2
  <2>5. Spans!Progress(p, "between", sum, 0)
    BY <2>1, <2>4
  <2>6. sum + 0 = meter[p].usage + meter[p].raw + (raw - meter[p].raw)
    BY <1>1, <2>2, <2>4
  <2> QED
    BY <2>1, <2>2, <2>3, <2>5, <2>6, MeterGoes
<1>5. CASE Spans!Failed(p)
  <2>1. spanTold' = [spanTold EXCEPT ![p] = @ + 0]
    BY <1>5 DEF Spans!Failed, SpansTyped
  <2>2. /\ Spans!Progress(p, "between", meter[p].usage + meter[p].raw, 0)
        /\ asked' = asked /\ meter[p].op # "idle"
    BY <1>5 DEF Spans!Failed
  <2>3. PICK sum \in Nat : sum = meter[p].usage + meter[p].raw
    BY <1>1
  <2>4. Spans!Progress(p, "between", sum, 0) /\ sum + 0 = meter[p].usage + meter[p].raw + 0
    BY <1>1, <2>2, <2>3
  <2> QED
    BY <2>1, <2>2, <2>4, MeterGoes
<1> QED
  BY <1>2, <1>3, <1>4, <1>5


-----------------------------------------------------------------------------
LEMMA Queued ==
  ASSUME SpansTyped, NEW q \in Procs
  PROVE  /\ queue[q] \in Seq(Span) /\ Len(queue[q]) \in Nat /\ DOMAIN queue[q] = 1..Len(queue[q])
         /\ \A i \in DOMAIN queue[q] :
              queue[q][i] \in Span /\ queue[q][i].at \in Nat /\ queue[q][i].of \in Procs
<1>1. queue[q] \in Seq(Span)
  BY DEF SpansTyped
<1>2. Len(queue[q]) \in Nat /\ DOMAIN queue[q] = 1..Len(queue[q])
  BY <1>1, LenProperties
<1>3. \A i \in 1..Len(queue[q]) : queue[q][i] \in Span
  BY <1>1, ElementOfSeq
<1> QED
  BY <1>1, <1>2, <1>3 DEF Span

LEMMA ApartAppend ==
  ASSUME NEW s \in Seq(Span), NEW p, NEW n \in Nat, NEW span \in Span, Apart(s, p, n),
         span.of = p, span.at = n
  PROVE  Apart(Append(s, span), p, n + 1)
<1> DEFINE t == Append(s, span)
<1>1. /\ Len(s) \in Nat /\ DOMAIN s = 1..Len(s) /\ DOMAIN t = 1..(Len(s) + 1)
      /\ t[Len(s) + 1] = span /\ \A i \in 1..Len(s) : t[i] = s[i]
  <2>1. /\ t \in Seq(Span) /\ Len(t) = Len(s) + 1
        /\ t[Len(s) + 1] = span /\ \A i \in 1..Len(s) : t[i] = s[i]
    BY AppendProperties
  <2>2. Len(s) \in Nat /\ DOMAIN s = 1..Len(s) /\ DOMAIN t = 1..Len(t)
    BY <2>1, LenProperties
  <2> QED
    BY <2>1, <2>2
<1>2. \A i \in 1..Len(s) : s[i] \in Span /\ s[i].at \in Nat
  <2>1. \A i \in 1..Len(s) : s[i] \in Span
    BY ElementOfSeq
  <2> QED
    BY <2>1 DEF Span
<1> HIDE DEF t
<1>3. \A i \in DOMAIN t : i \in 1..Len(s) \/ i = Len(s) + 1
  BY <1>1
<1> QED
  BY <1>1, <1>2, <1>3 DEF Apart, t

LEMMA ApartTail ==
  ASSUME NEW s \in Seq(Span), NEW p, NEW n \in Nat, Apart(s, p, n), s # <<>>
  PROVE  /\ Head(s) \in Span /\ Head(s).of = p /\ Head(s).at < n
         /\ Tail(s) \in Seq(Span) /\ Apart(Tail(s), p, n)
         /\ \A i \in DOMAIN Tail(s) : Tail(s)[i].at # Head(s).at
<1> DEFINE t == Tail(s)
<1>1. /\ Len(s) \in Nat /\ Len(s) # 0 /\ DOMAIN s = 1..Len(s) /\ DOMAIN t = 1..(Len(s) - 1)
      /\ t \in Seq(Span) /\ Head(s) \in Span
      /\ \A i \in 1..(Len(s) - 1) : t[i] = s[i + 1]
  BY HeadTailProperties, LenProperties, EmptySeq
<1>2. Head(s) = s[1]
  OBVIOUS
<1> HIDE DEF t
<1>3. 1 \in DOMAIN s /\ \A i \in DOMAIN t : i + 1 \in DOMAIN s /\ i + 1 # 1
  BY <1>1
<1>4. \A i, j \in DOMAIN t : i # j => i + 1 # j + 1
  BY <1>1
<1> QED
  BY <1>1, <1>2, <1>3, <1>4 DEF Apart, t

LEMMA Numbered ==
  ASSUME SpansTyped
  PROVE  Number \in [Procs -> Nat]
BY SpansAssumption DEF SpansTyped, Number

\* Where numbers stay used and nothing new is seen, the queues stay fresh.
LEMMA QueuesStay ==
  ASSUME SpansTyped, QueueFit, SpanFit, queue' = queue, Seen' \subseteq Seen,
         \A q \in Procs : Number'[q] \in Nat /\ Number'[q] >= Number[q]
  PROVE  QueueFit' /\ SpanFit'
<1>1. QueueFit'
  BY Queued, Numbered DEF QueueFit, Apart
<1>2. Seen \subseteq Span
  BY DEF Seen, Spans!Written, Spans!Times, SpansTyped
<1>3. SpanFit'
  BY <1>2, Numbered DEF SpanFit, Span
<1> QED
  BY <1>1, <1>3

LEMMA PenGoes ==
  ASSUME SpansTyped, NEW p \in Procs, NEW op \in {"idle", "rename", "append"},
         writer' = [writer EXCEPT ![p].op = op]
  PROVE  /\ writer' \in [Procs -> Pen]
         /\ writer'[p].op = op /\ writer'[p].at = writer[p].at
         /\ \A q \in Procs \ {p} : writer'[q] = writer[q]
BY DEF SpansTyped, Pen

\* What is written is in the pieces.
LEMMA InPieces ==
  /\ \A s : s \in Spans!Written <=> \E u \in Pieces : s \in Piece[u]
  /\ \A s : s \in Spans!Written' <=> \E u \in Pieces : s \in Piece'[u]
<1>1. 0 \in Pieces /\ Pieces \ {0} = 1..MaxTime
  BY SpansAssumption DEF Pieces
<1> QED
  BY <1>1 DEF Piece, Spans!Written, Spans!Times

\* Seen is seen still, where the pieces and what was counted stay.
LEMMA SeenStays ==
  ASSUME spanFile' = spanFile, archives' = archives, reading' = reading
  PROVE  /\ Seen' = Seen
         /\ PieceFit <=> PieceFit'
         /\ ReadFit <=> ReadFit'
         /\ Spans!Written' = Spans!Written
<1>1. Piece' = Piece
  BY DEF Piece
<1> QED
  BY <1>1 DEF Seen, PieceFit, ReadFit, Spans!Written

-----------------------------------------------------------------------------
LEMMA ChargingFits ==
  ASSUME SpansFit, NEW p \in Procs,
         \/ Spans!AccountRequest(p) \/ Spans!OnStreamUsage(p) \/ Spans!Answered(p) \/ Spans!Failed(p)
  PROVE  SpansFit'
<1>1. /\ meter' \in [Procs -> Meter] /\ Bounded(asked')
      /\ ledger' \in [Procs -> Nat] /\ spanTold' \in [Procs -> Nat]
      /\ ChargeFit'
      /\ \A q \in Procs : Number'[q] \in Nat /\ Number'[q] >= Number[q]
  BY ChargeGoes DEF SpansFit
<1>2. /\ queue' = queue /\ writer' = writer /\ spanFile' = spanFile /\ archives' = archives
      /\ clock' = clock /\ reading' = reading /\ spanPlan' = spanPlan /\ kept' = kept
  BY DEF Spans!AccountRequest, Spans!OnStreamUsage, Spans!Answered, Spans!Failed, Spans!pieces
<1>3. SpansTyped'
  BY <1>1, <1>2 DEF SpansFit, SpansTyped
<1>4. QueueFit' /\ SpanFit'
  BY <1>1, <1>2, SeenStays, QueuesStay DEF SpansFit
<1>5. WriterFit' /\ PieceFit' /\ KeptFit' /\ ReadFit'
  BY <1>2, SeenStays DEF SpansFit, WriterFit, KeptFit
<1> QED
  BY <1>1, <1>3, <1>4, <1>5 DEF SpansFit

\* The end of a call puts a span in its queue that has a number of its own.
LEMMA EndingFits ==
  ASSUME SpansFit, NEW p \in Procs, Spans!EndSpan(p) PROVE SpansFit'
<1> DEFINE span == [of |-> p, at |-> asked[p], tokens |-> meter[p].usage]
           n == Len(queue[p])
<1>1. /\ writer' = writer /\ spanFile' = spanFile /\ archives' = archives /\ asked' = asked
      /\ clock' = clock /\ reading' = reading /\ spanPlan' = spanPlan /\ kept' = kept
      /\ ledger' = ledger /\ spanTold' = spanTold /\ meter[p].op = "between"
      /\ queue' = [queue EXCEPT ![p] = Append(@, span)]
      /\ meter' = [meter EXCEPT ![p] = Spans!Resting]
  BY DEF Spans!EndSpan, Spans!pieces
<1>2. /\ Spans!Resting \in Meter /\ Spans!Resting.op = "idle" /\ Spans!Resting.raw = 0
      /\ Spans!Resting.previous = 0 /\ Spans!Resting.usage = 0
  BY DEF Spans!Resting, Meter
<1>3. meter' \in [Procs -> Meter] /\ meter'[p] = Spans!Resting
      /\ \A q \in Procs \ {p} : meter'[q] = meter[q]
  BY <1>1, <1>2 DEF SpansFit, SpansTyped
<1>4. asked[p] \in Nat /\ meter[p].usage \in Nat
  BY SpansAssumption DEF SpansFit, SpansTyped, Meter
<1>5. span \in Span /\ span.of = p /\ span.at = asked[p]
  BY <1>4 DEF Span
<1> HIDE DEF span
<1>6. queue[p] \in Seq(Span) /\ n \in Nat
  BY LenProperties DEF SpansFit, SpansTyped
<1>7. /\ queue'[p] \in Seq(Span) /\ Len(queue'[p]) = n + 1 /\ queue'[p][n + 1] = span
      /\ \A i \in 1..n : queue'[p][i] = queue[p][i]
      /\ \A q \in Procs \ {p} : queue'[q] = queue[q]
      /\ queue' \in [Procs -> Seq(Span)]
  BY <1>1, <1>5, <1>6, AppendProperties DEF SpansFit, SpansTyped
<1>8. SpansTyped'
  BY <1>1, <1>3, <1>7 DEF SpansFit, SpansTyped
<1>9. ChargeFit'
  BY <1>1, <1>2, <1>3 DEF SpansFit, ChargeFit
<1>10. /\ Number \in [Procs -> Nat] /\ Number' \in [Procs -> Nat]
       /\ Number[p] = asked[p] /\ Number'[p] = asked[p] + 1
       /\ \A q \in Procs \ {p} : Number'[q] = Number[q]
  BY <1>1, <1>2, <1>3, <1>4, <1>8, Numbered DEF SpansFit, Number, SpansTyped
<1>11. Seen' = Seen /\ Seen \subseteq Span
  BY <1>1, SeenStays DEF SpansFit, SpansTyped, Seen, Spans!Written, Spans!Times
<1>12. span \notin Seen
  BY <1>4, <1>5, <1>10 DEF SpansFit, SpanFit
<1>13. SpanFit'
  BY <1>4, <1>10, <1>11 DEF SpansFit, SpanFit, Span
<1>14. ASSUME NEW q \in Procs
       PROVE  /\ Apart(queue'[q], q, Number'[q])
              /\ \A i \in DOMAIN queue'[q] : queue'[q][i] \notin Seen
  <2>1. Apart(queue[q], q, Number[q]) /\ \A i \in DOMAIN queue[q] : queue[q][i] \notin Seen
    BY DEF SpansFit, QueueFit
  <2>2. CASE q # p
    BY <1>7, <1>10, <2>1, <2>2
  <2>3. CASE q = p
    <3>1. queue'[p] = Append(queue[p], span)
      BY <1>1 DEF SpansFit, SpansTyped
    <3>2. Apart(queue[p], p, asked[p])
      BY <1>10, <2>1, <2>3
    <3>3. Apart(Append(queue[p], span), p, asked[p] + 1)
      BY <1>4, <1>5, <1>6, <3>2, ApartAppend
    <3>4. Apart(queue'[q], q, Number'[q])
      BY <1>10, <2>3, <3>1, <3>3
    <3>5. DOMAIN queue[p] = 1..n /\ DOMAIN queue'[p] = 1..(n + 1)
      BY <1>6, <1>7, LenProperties
    <3>6. ASSUME NEW i \in 1..(n + 1) PROVE queue'[p][i] \notin Seen
      <4>1. CASE i = n + 1
        BY <1>7, <1>12, <4>1
      <4>2. CASE i \in 1..n
        BY <1>7, <2>1, <2>3, <3>5, <4>2
      <4> QED
        BY <1>6, <4>1, <4>2
    <3> QED
      BY <2>3, <3>4, <3>5, <3>6
  <2> QED
    BY <2>2, <2>3
<1>16. QueueFit'
  BY <1>11, <1>14 DEF QueueFit, Apart
<1>17. WriterFit'
  <2>1. ASSUME NEW q \in Procs, queue[q] # <<>> PROVE queue'[q] # <<>>
    <3>1. CASE q = p
      BY <1>1, <1>5, <1>6, <3>1, AppendProperties DEF SpansFit, SpansTyped
    <3>2. CASE q # p
      BY <1>7, <2>1, <3>2
    <3> QED
      BY <3>1, <3>2
  <2> QED
    BY <1>1, <2>1 DEF SpansFit, WriterFit
<1>18. PieceFit' /\ KeptFit' /\ ReadFit'
  BY <1>1, SeenStays DEF SpansFit, KeptFit
<1> QED
  BY <1>8, <1>9, <1>13, <1>16, <1>17, <1>18 DEF SpansFit

-----------------------------------------------------------------------------
\* A writer that begins takes the time of the clock.
LEMMA MeasuringFits ==
  ASSUME SpansFit, NEW p \in Procs, Spans!Measure(p) PROVE SpansFit'
<1>0. PICK op \in {"rename", "append"} : writer' = [writer EXCEPT ![p] = [op |-> op, at |-> clock]]
  BY DEF Spans!Measure
<1> DEFINE pen == [op |-> op, at |-> clock]
<1>1. /\ queue' = queue /\ spanFile' = spanFile /\ archives' = archives /\ asked' = asked
      /\ clock' = clock /\ reading' = reading /\ spanPlan' = spanPlan /\ kept' = kept
      /\ ledger' = ledger /\ spanTold' = spanTold /\ meter' = meter
      /\ queue[p] # <<>> /\ writer' = [writer EXCEPT ![p] = pen]
  BY <1>0 DEF Spans!Measure, Spans!pieces, Spans!metered
<1>2. clock \in 1..MaxTime
  BY DEF SpansFit, SpansTyped
<1>3. pen \in Pen /\ pen.at = clock
  <2>1. pen.op \in {"rename", "append"} /\ clock \in Nat
    BY <1>2, SpansAssumption
  <2> QED
    BY <2>1 DEF Pen
<1> HIDE DEF pen
<1>4. /\ writer' \in [Procs -> Pen] /\ writer'[p] = pen
      /\ \A q \in Procs \ {p} : writer'[q] = writer[q]
  BY <1>1, <1>3 DEF SpansFit, SpansTyped
<1>5. SpansTyped'
  BY <1>1, <1>4 DEF SpansFit, SpansTyped
<1>6. ChargeFit'
  BY <1>1 DEF SpansFit, ChargeFit
<1>7. Number' = Number /\ Number \in [Procs -> Nat]
  BY <1>1, Numbered DEF SpansFit, Number
<1>8. QueueFit' /\ SpanFit'
  BY <1>1, <1>7, SeenStays, QueuesStay DEF SpansFit
<1>9. WriterFit'
  <2>1. ASSUME NEW q \in Procs, writer'[q].op # "idle"
        PROVE  writer'[q].at \in 1..clock /\ queue[q] # <<>>
    <3>1. CASE q = p
      BY <1>1, <1>2, <1>3, <1>4, <3>1
    <3>2. CASE q # p
      BY <1>4, <2>1, <3>2 DEF SpansFit, WriterFit
    <3> QED
      BY <3>1, <3>2
  <2> QED
    BY <1>1, <2>1 DEF WriterFit
<1>10. PieceFit' /\ KeptFit' /\ ReadFit'
  BY <1>1, SeenStays DEF SpansFit, KeptFit
<1> QED
  BY <1>5, <1>6, <1>8, <1>9, <1>10 DEF SpansFit

\* The file becomes the piece of its writer's time, in place of what was there.
LEMMA RotatingFits ==
  ASSUME SpansFit, NEW p \in Procs, Spans!RotateIfLarge(p) PROVE SpansFit'
<1> DEFINE t == writer[p].at
<1>1. /\ queue' = queue /\ asked' = asked /\ clock' = clock /\ spanPlan' = spanPlan
      /\ ledger' = ledger /\ spanTold' = spanTold /\ meter' = meter
      /\ writer[p].op = "rename" /\ writer' = [writer EXCEPT ![p].op = "append"]
      /\ \/ spanFile' = spanFile /\ archives' = archives /\ kept' = kept /\ reading' = reading
         \/ /\ spanFile' = {} /\ archives' = [archives EXCEPT ![t] = spanFile]
            /\ kept' = kept \ archives[t]
            /\ reading' = [reading EXCEPT !.due = @ \ (spanFile \cup archives[t])]
  BY DEF Spans!RotateIfLarge, Spans!Aside, Spans!Shift, Spans!pieces, Spans!metered
<1>2. t \in 1..clock /\ t \in 1..MaxTime
  BY <1>1, SpansAssumption DEF SpansFit, WriterFit, SpansTyped
<1> HIDE DEF t
<1> DEFINE Reading == [todo : SUBSET Pieces, counted : SUBSET Span, twice : BOOLEAN, on : BOOLEAN,
                       due : SUBSET Span]
<1>3. /\ spanFile \in SUBSET Span /\ archives \in [1..MaxTime -> SUBSET Span]
      /\ kept \in SUBSET Span /\ kept' \in SUBSET Span
      /\ spanFile' \in SUBSET Span /\ archives' \in [1..MaxTime -> SUBSET Span]
      /\ reading \in Reading
  <2>1. /\ spanFile \in SUBSET Span /\ archives \in [1..MaxTime -> SUBSET Span]
        /\ kept \in SUBSET Span /\ reading \in Reading
    BY DEF SpansFit, SpansTyped
  <2>2. kept' \in SUBSET Span
    BY <1>1, <2>1
  <2>3. spanFile' \in SUBSET Span
    BY <1>1, <2>1
  <2>4. archives' \in [1..MaxTime -> SUBSET Span]
    BY <1>1, <1>2, <2>1
  <2> QED
    BY <2>1, <2>2, <2>3, <2>4
<1>4. /\ reading' \in Reading /\ reading'.todo = reading.todo /\ reading'.counted = reading.counted
      /\ reading'.twice = reading.twice
      /\ \/ reading' = reading
         \/ reading'.due = reading.due \ (spanFile \cup archives[t])
  BY <1>1, <1>3
<1>5. /\ writer' \in [Procs -> Pen] /\ writer'[p].op = "append" /\ writer'[p].at = t
      /\ \A q \in Procs \ {p} : writer'[q] = writer[q]
  BY <1>1, PenGoes DEF SpansFit, t
<1>6. SpansTyped'
  BY <1>1, <1>3, <1>4, <1>5 DEF SpansFit, SpansTyped
<1>7. ChargeFit'
  BY <1>1 DEF SpansFit, ChargeFit
<1>8. Number' = Number /\ Number \in [Procs -> Nat]
  BY <1>1, Numbered DEF SpansFit, Number
<1>9. QueueFit' /\ SpanFit'
  <2>1. Seen' \subseteq Seen
    BY <1>1, <1>2, <1>3, <1>4 DEF Seen, Spans!Written, Spans!Times
  <2> QED
    BY <1>1, <1>8, <2>1, QueuesStay DEF SpansFit
<1>10. WriterFit'
  <2>1. \A q \in Procs : writer'[q].at = writer[q].at /\ (writer'[q].op # "idle" => writer[q].op # "idle")
    BY <1>1, <1>5 DEF t
  <2> QED
    BY <1>1, <2>1 DEF SpansFit, WriterFit
<1>11. /\ 0 \in Pieces /\ t \in Pieces /\ t # 0 /\ Piece[0] = spanFile /\ Piece[t] = archives[t]
       /\ \/ Piece' = Piece /\ kept' = kept /\ reading' = reading
          \/ /\ Piece'[0] = {} /\ Piece'[t] = Piece[0]
             /\ \A u \in Pieces \ {0, t} : Piece'[u] = Piece[u]
             /\ kept' = kept \ Piece[t]
             /\ reading'.due = reading.due \ (Piece[0] \cup Piece[t])
  <2>1. 0 \in Pieces /\ t \in Pieces /\ t # 0 /\ \A u \in Pieces \ {0} : u \in 1..MaxTime
    BY <1>2, SpansAssumption DEF Pieces
  <2>2. Piece[0] = spanFile /\ Piece[t] = archives[t]
    BY <2>1 DEF Piece
  <2>3. CASE spanFile' = spanFile /\ archives' = archives /\ kept' = kept /\ reading' = reading
    BY <2>1, <2>2, <2>3 DEF Piece
  <2>4. CASE /\ spanFile' = {} /\ archives' = [archives EXCEPT ![t] = spanFile]
             /\ kept' = kept \ archives[t]
             /\ reading' = [reading EXCEPT !.due = @ \ (spanFile \cup archives[t])]
    <3>1. reading'.due = reading.due \ (spanFile \cup archives[t])
      BY <1>3, <2>4
    <3>2. /\ Piece'[0] = {} /\ Piece'[t] = spanFile
          /\ \A u \in Pieces \ {0, t} : Piece'[u] = Piece[u]
      BY <1>2, <1>3, <2>1, <2>4 DEF Piece
    <3> QED
      BY <2>1, <2>2, <2>4, <3>1, <3>2
  <2> QED
    BY <1>1, <2>3, <2>4
<1>12. PieceFit'
  BY <1>11 DEF SpansFit, PieceFit
<1>13. ReadFit'
  <2>1. reading.todo \subseteq Pieces
    BY <1>3
  <2>2. \A u \in reading.todo : reading.counted \cap Piece'[u] = {}
    BY <1>11, <2>1 DEF SpansFit, ReadFit
  <2>3. ASSUME NEW s \in reading'.due PROVE \E u \in reading.todo : s \in Piece'[u]
    BY <1>11, <2>1 DEF SpansFit, ReadFit
  <2> QED
    BY <1>4, <2>2, <2>3 DEF SpansFit, ReadFit
<1>14. KeptFit'
  <2>1. CASE Piece' = Piece /\ kept' = kept
    <3>1. \A u \in Pieces : Piece'[u] = Piece[u]
      BY <2>1
    <3> QED
      BY <2>1, <3>1, InPieces DEF SpansFit, KeptFit
  <2>2. CASE /\ Piece'[0] = {} /\ Piece'[t] = Piece[0]
             /\ \A u \in Pieces \ {0, t} : Piece'[u] = Piece[u]
             /\ kept' = kept \ Piece[t]
    BY <1>11, <2>2, InPieces DEF SpansFit, KeptFit
  <2> QED
    BY <1>11, <2>1, <2>2
<1> QED
  BY <1>6, <1>7, <1>9, <1>10, <1>12, <1>13, <1>14 DEF SpansFit

\* The head of a queue is new to every piece, and its number is spent.
LEMMA AppendingFits ==
  ASSUME SpansFit, NEW p \in Procs, Spans!AppendLine(p) PROVE SpansFit'
<1> DEFINE span == Head(queue[p])
<1>1. /\ archives' = archives /\ asked' = asked /\ meter' = meter
      /\ clock' = clock /\ reading' = reading /\ spanPlan' = spanPlan
      /\ ledger' = ledger /\ spanTold' = spanTold
      /\ writer[p].op = "append" /\ writer' = [writer EXCEPT ![p].op = "idle"]
      /\ spanFile' = spanFile \cup {span} /\ kept' = kept \cup {span}
      /\ queue' = [queue EXCEPT ![p] = Tail(@)]
  BY DEF Spans!AppendLine, Spans!metered
<1>2. queue[p] # <<>>
  BY <1>1 DEF SpansFit, WriterFit
<1>3. queue[p] \in Seq(Span) /\ Apart(queue[p], p, Number[p]) /\ Number[p] \in Nat
  BY Numbered DEF SpansFit, SpansTyped, QueueFit
<1>4. /\ span \in Span /\ span.of = p /\ span.at < Number[p]
      /\ Tail(queue[p]) \in Seq(Span) /\ Apart(Tail(queue[p]), p, Number[p])
      /\ \A i \in DOMAIN Tail(queue[p]) : Tail(queue[p])[i].at # span.at
  BY <1>2, <1>3, ApartTail
<1>5. span \notin Seen
  <2>1. span = queue[p][1] /\ 1 \in DOMAIN queue[p]
    BY <1>2, <1>3, EmptySeq, LenProperties
  <2> QED
    BY <2>1 DEF SpansFit, QueueFit
<1>6. \A i \in DOMAIN Tail(queue[p]) : Tail(queue[p])[i] \notin Seen
  <2>1. /\ DOMAIN Tail(queue[p]) = 1..(Len(queue[p]) - 1) /\ DOMAIN queue[p] = 1..Len(queue[p])
        /\ Len(queue[p]) \in Nat
        /\ \A i \in 1..(Len(queue[p]) - 1) : Tail(queue[p])[i] = queue[p][i + 1]
    BY <1>2, <1>3, HeadTailProperties, LenProperties
  <2>2. \A i \in DOMAIN Tail(queue[p]) : i + 1 \in DOMAIN queue[p]
    BY <2>1
  <2> QED
    BY <2>1, <2>2 DEF SpansFit, QueueFit
<1>7. /\ queue' \in [Procs -> Seq(Span)] /\ queue'[p] = Tail(queue[p])
      /\ \A q \in Procs \ {p} : queue'[q] = queue[q]
  BY <1>1, <1>4 DEF SpansFit, SpansTyped
<1> HIDE DEF span
<1>8. /\ writer' \in [Procs -> Pen] /\ writer'[p].op = "idle" /\ writer'[p].at = writer[p].at
      /\ \A q \in Procs \ {p} : writer'[q] = writer[q]
  BY <1>1, PenGoes DEF SpansFit
<1>9. SpansTyped'
  BY <1>1, <1>4, <1>7, <1>8 DEF SpansFit, SpansTyped
<1>10. ChargeFit'
  BY <1>1 DEF SpansFit, ChargeFit
<1>11. Number' = Number /\ Number \in [Procs -> Nat]
  BY <1>1, Numbered DEF SpansFit, Number
<1>12. Spans!Written' = Spans!Written \cup {span} /\ Seen' = Seen \cup {span}
  BY <1>1 DEF Seen, Spans!Written
<1>13. SpanFit'
  BY <1>4, <1>11, <1>12 DEF SpansFit, SpanFit
<1>14. ASSUME NEW q \in Procs
       PROVE  /\ Apart(queue'[q], q, Number[q])
              /\ \A i \in DOMAIN queue'[q] : queue'[q][i] \notin Seen \cup {span}
  <2>1. CASE q = p
    BY <1>4, <1>6, <1>7, <2>1
  <2>2. CASE q # p
    <3>1. Apart(queue[q], q, Number[q]) /\ \A i \in DOMAIN queue[q] : queue[q][i] \notin Seen
      BY DEF SpansFit, QueueFit
    <3>2. \A i \in DOMAIN queue[q] : queue[q][i].of = q
      BY <3>1 DEF Apart
    <3> QED
      BY <1>4, <1>7, <2>2, <3>1, <3>2
  <2> QED
    BY <2>1, <2>2
<1>15. QueueFit'
  BY <1>11, <1>12, <1>14 DEF QueueFit, Apart
<1>16. WriterFit'
  <2>1. \A q \in Procs : writer'[q].op # "idle" => q # p /\ writer'[q] = writer[q] /\ queue'[q] = queue[q]
    BY <1>7, <1>8
  <2> QED
    BY <1>1, <2>1 DEF SpansFit, WriterFit
<1>17. /\ 0 \in Pieces /\ Piece'[0] = Piece[0] \cup {span}
       /\ \A u \in Pieces \ {0} : Piece'[u] = Piece[u]
       /\ \A u \in Pieces : span \notin Piece[u]
  <2>1. 0 \in Pieces /\ \A u \in Pieces \ {0} : u \in 1..MaxTime
    BY SpansAssumption DEF Pieces
  <2> QED
    BY <1>1, <1>5, <2>1 DEF Piece, Seen, Spans!Written, Spans!Times
<1>18. PieceFit'
  BY <1>17 DEF SpansFit, PieceFit
<1>19. ReadFit'
  <2>1. reading.todo \subseteq Pieces /\ span \notin reading.counted
    BY <1>5 DEF SpansFit, SpansTyped, Seen
  <2>2. \A u \in reading.todo : reading.counted \cap Piece'[u] = {}
    BY <1>17, <2>1 DEF SpansFit, ReadFit
  <2>3. \A s \in reading.due : \E u \in reading.todo : s \in Piece'[u]
    BY <1>17, <2>1 DEF SpansFit, ReadFit
  <2> QED
    BY <1>1, <2>2, <2>3 DEF SpansFit, ReadFit
<1>20. KeptFit'
  BY <1>1, <1>12 DEF SpansFit, KeptFit
<1> QED
  BY <1>9, <1>10, <1>13, <1>15, <1>16, <1>18, <1>19, <1>20 DEF SpansFit

LEMMA CrashFits ==
  ASSUME SpansFit, NEW p \in Procs, Spans!Crash(p) PROVE SpansFit'
<1>1. /\ spanFile' = spanFile /\ archives' = archives
      /\ clock' = clock /\ reading' = reading /\ spanPlan' = spanPlan /\ kept' = kept
      /\ meter' = [meter EXCEPT ![p] = Spans!Resting] /\ queue' = [queue EXCEPT ![p] = <<>>]
      /\ ledger' = [ledger EXCEPT ![p] = 0] /\ spanTold' = [spanTold EXCEPT ![p] = 0]
      /\ asked' = [asked EXCEPT ![p] = MaxAsked[p]] /\ writer' = [writer EXCEPT ![p].op = "idle"]
  BY DEF Spans!Crash, Spans!pieces
<1>2. /\ Spans!Resting \in Meter /\ Spans!Resting.op = "idle" /\ Spans!Resting.raw = 0
      /\ Spans!Resting.previous = 0 /\ Spans!Resting.usage = 0
  BY DEF Spans!Resting, Meter
<1>3. /\ meter' \in [Procs -> Meter] /\ meter'[p] = Spans!Resting
      /\ \A q \in Procs \ {p} : meter'[q] = meter[q]
  BY <1>1, <1>2 DEF SpansFit, SpansTyped
<1>4. /\ writer' \in [Procs -> Pen] /\ writer'[p].op = "idle"
      /\ \A q \in Procs \ {p} : writer'[q] = writer[q]
  BY <1>1, PenGoes DEF SpansFit
<1>5. /\ queue' \in [Procs -> Seq(Span)] /\ queue'[p] = <<>>
      /\ \A q \in Procs \ {p} : queue'[q] = queue[q]
  BY <1>1, EmptySeq DEF SpansFit, SpansTyped
<1>6. /\ Bounded(asked) /\ Bounded(asked') /\ asked'[p] = MaxAsked[p]
      /\ \A q \in Procs \ {p} : asked'[q] = asked[q]
  <2>1. asked \in [Procs -> Nat] /\ \A q \in Procs : asked[q] <= MaxAsked[q]
    BY DEF SpansFit, SpansTyped
  <2>2. MaxAsked[p] \in Nat
    BY SpansAssumption
  <2>3. asked' = [asked EXCEPT ![p] = MaxAsked[p]]
    BY <1>1
  <2>4. asked' \in [Procs -> Nat]
    BY <2>1, <2>2, <2>3
  <2>5. asked'[p] = MaxAsked[p] /\ \A q \in Procs \ {p} : asked'[q] = asked[q]
    BY <2>1, <2>3
  <2>6. \A q \in Procs : asked'[q] <= MaxAsked[q]
    BY <2>1, <2>2, <2>5
  <2> QED
    BY <2>1, <2>4, <2>5, <2>6
<1>7. SpansTyped'
  BY <1>1, <1>3, <1>4, <1>5, <1>6 DEF SpansFit, SpansTyped
<1>8. ChargeFit'
  BY <1>1, <1>2, <1>3 DEF SpansFit, SpansTyped, ChargeFit
<1>9. ASSUME NEW q \in Procs PROVE Number'[q] >= Number[q]
  <2>1. CASE q = p
    BY <1>2, <1>3, <1>6, <2>1, SpansAssumption DEF Number
  <2>2. CASE q # p
    BY <1>3, <1>6, <2>2, SpansAssumption DEF Number
  <2> QED
    BY <2>1, <2>2
<1>10. Number \in [Procs -> Nat] /\ Number' \in [Procs -> Nat]
  <2>1. Number' \in [Procs -> Nat]
    BY <1>6, SpansAssumption DEF Number
  <2> QED
    BY <2>1, Numbered DEF SpansFit
<1>11. Seen' = Seen /\ Seen \subseteq Span
  BY <1>1, SeenStays DEF SpansFit, SpansTyped, Seen, Spans!Written, Spans!Times
<1>12. SpanFit'
  BY <1>9, <1>10, <1>11 DEF SpansFit, SpanFit, Span
<1>13. ASSUME NEW q \in Procs
       PROVE  Apart(queue'[q], q, Number'[q]) /\ \A i \in DOMAIN queue'[q] : queue'[q][i] \notin Seen
  <2>1. CASE q = p
    BY <1>5, <2>1 DEF Apart
  <2>2. CASE q # p
    <3>1. Apart(queue[q], q, Number[q]) /\ \A i \in DOMAIN queue[q] : queue[q][i] \notin Seen
      BY DEF SpansFit, QueueFit
    <3>2. \A i \in DOMAIN queue[q] : queue[q][i].at \in Nat
      BY Queued DEF SpansFit
    <3>3. Number[q] \in Nat /\ Number'[q] \in Nat /\ Number'[q] >= Number[q]
      BY <1>9, <1>10
    <3>4. Apart(queue[q], q, Number'[q])
      BY <3>1, <3>2, <3>3 DEF Apart
    <3> QED
      BY <1>5, <2>2, <3>1, <3>4
  <2> QED
    BY <2>1, <2>2
<1>14. QueueFit'
  BY <1>11, <1>13 DEF QueueFit, Apart
<1>15. WriterFit'
  <2>1. \A q \in Procs : writer'[q].op # "idle" => q # p /\ writer'[q] = writer[q] /\ queue'[q] = queue[q]
    BY <1>4, <1>5
  <2> QED
    BY <1>1, <1>4, <2>1 DEF SpansFit, WriterFit
<1>16. PieceFit' /\ KeptFit' /\ ReadFit'
  BY <1>1, SeenStays DEF SpansFit, KeptFit
<1> QED
  BY <1>7, <1>8, <1>12, <1>14, <1>15, <1>16 DEF SpansFit

LEMMA TickFits ==
  ASSUME SpansFit, Spans!Tick PROVE SpansFit'
<1>1. /\ queue' = queue /\ writer' = writer /\ spanFile' = spanFile /\ archives' = archives
      /\ asked' = asked /\ reading' = reading /\ spanPlan' = spanPlan /\ kept' = kept
      /\ ledger' = ledger /\ spanTold' = spanTold /\ meter' = meter
      /\ clock < MaxTime /\ clock' = clock + 1
  BY DEF Spans!Tick, Spans!pieces, Spans!metered
<1>2. clock \in 1..MaxTime /\ clock' \in 1..MaxTime /\ 1..clock \subseteq 1..clock'
  BY <1>1, SpansAssumption DEF SpansFit, SpansTyped
<1>3. SpansTyped'
  BY <1>1, <1>2 DEF SpansFit, SpansTyped
<1>4. Number' = Number
  BY <1>1 DEF Number
<1>5. ChargeFit' /\ QueueFit' /\ SpanFit' /\ PieceFit' /\ KeptFit' /\ ReadFit'
  BY <1>1, <1>4, SeenStays DEF SpansFit, ChargeFit, QueueFit, Apart, SpanFit, KeptFit
<1>6. WriterFit'
  BY <1>1, <1>2 DEF SpansFit, WriterFit
<1> QED
  BY <1>3, <1>5, <1>6 DEF SpansFit

\* What a reading has counted is in no piece it has still to read.
LEMMA ReadingFits ==
  ASSUME SpansFit, Spans!Summarize \/ Spans!ReadPart \/ Spans!Shown PROVE SpansFit'
<1>1. /\ queue' = queue /\ writer' = writer /\ spanFile' = spanFile /\ archives' = archives
      /\ asked' = asked /\ clock' = clock /\ spanPlan' = spanPlan /\ kept' = kept
      /\ ledger' = ledger /\ spanTold' = spanTold /\ meter' = meter
  BY DEF Spans!Summarize, Spans!ReadPart, Spans!Shown, Spans!pieces, Spans!metered
<1> DEFINE Reading == [todo : SUBSET Pieces, counted : SUBSET Span, twice : BOOLEAN, on : BOOLEAN,
                       due : SUBSET Span]
<1>2. reading \in Reading /\ 0 \in Pieces
  BY SpansAssumption DEF SpansFit, SpansTyped, Pieces
<1>3. /\ Piece' = Piece /\ Number' = Number /\ Spans!Written' = Spans!Written
      /\ \A u \in Pieces : Piece[u] \subseteq Spans!Written /\ Piece[u] \subseteq Span
  <2>1. \A u \in Pieces \ {0} : u \in 1..MaxTime
    BY SpansAssumption DEF Pieces
  <2> QED
    BY <1>1, <2>1 DEF Piece, Number, Spans!Written, Spans!Times, SpansFit, SpansTyped
<1>4. /\ reading' \in Reading /\ Seen' \subseteq Seen /\ ReadFit'
  <2>1. CASE Spans!Summarize
    <3>1. reading' = [todo |-> Spans!TelemetryParts, counted |-> {}, twice |-> FALSE, on |-> TRUE,
                      due |-> kept]
      BY <2>1 DEF Spans!Summarize, Spans!NoReading
    <3>2. Spans!TelemetryParts \subseteq Pieces /\ 0 \in Spans!TelemetryParts
      BY SpansAssumption DEF Spans!TelemetryParts, Spans!Present, Spans!Times, Pieces
    <3>3. \A s \in kept : \E u \in Spans!TelemetryParts : s \in Piece[u]
      <4> TAKE s \in kept
      <4>1. PICK u \in Pieces : s \in Piece[u]
        BY InPieces DEF SpansFit, KeptFit
      <4>2. u # 0 => u \in Spans!TelemetryParts
        BY <4>1, SpansAssumption
        DEF Piece, Pieces, Spans!TelemetryParts, Spans!Present, Spans!Times
      <4> QED
        BY <3>2, <4>1, <4>2
    <3>4. kept \subseteq Span
      BY DEF SpansFit, SpansTyped
    <3> QED
      BY <1>3, <3>1, <3>2, <3>3, <3>4 DEF Seen, ReadFit
  <2>2. CASE Spans!Shown
    <3>1. reading' = [todo |-> {}, counted |-> {}, twice |-> FALSE, on |-> FALSE, due |-> {}]
      BY <2>2 DEF Spans!Shown, Spans!NoReading
    <3> QED
      BY <1>3, <3>1 DEF Seen, ReadFit
  <2>3. CASE Spans!ReadPart
    <3>1. PICK u \in reading.todo :
            /\ Spans!ComesNext(u)
            /\ reading' = [reading EXCEPT !.todo = @ \ {u}, !.counted = @ \cup Spans!Holds(u),
                                          !.twice = @ \/ Spans!Holds(u) \cap reading.counted # {},
                                          !.due = @ \ Spans!Holds(u)]
      BY <2>3 DEF Spans!ReadPart
    <3>2. u \in Pieces /\ reading.todo \subseteq Pieces /\ reading.counted \subseteq Span
      BY <1>2
    <3>3. Spans!Holds(u) = Piece[u]
      BY <3>2 DEF Spans!Holds, Piece
    <3>4. reading.counted \cap Piece[u] = {} /\ ~reading.twice
      BY DEF SpansFit, ReadFit
    <3>5. /\ reading'.todo = reading.todo \ {u} /\ reading'.counted = reading.counted \cup Piece[u]
          /\ reading'.twice = FALSE /\ reading' \in Reading
          /\ reading'.due = reading.due \ Piece[u]
      BY <1>2, <1>3, <3>1, <3>2, <3>3, <3>4
    <3>6. reading'.todo # {} => 0 \in reading'.todo
      BY <3>1, <3>5 DEF SpansFit, ReadFit, Spans!ComesNext
    <3>7. \A t \in reading'.todo : reading'.counted \cap Piece[t] = {}
      <4> TAKE t \in reading'.todo
      <4>1. t \in Pieces /\ t # u /\ t \in reading.todo
        BY <3>2, <3>5
      <4>2. Piece[u] \cap Piece[t] = {} /\ reading.counted \cap Piece[t] = {}
        BY <3>2, <4>1 DEF SpansFit, PieceFit, ReadFit
      <4> QED
        BY <3>5, <4>2
    <3>8. Seen' \subseteq Seen
      BY <1>3, <3>2, <3>5 DEF Seen
    <3>9. \A s \in reading'.due : \E t \in reading'.todo : s \in Piece[t]
      BY <3>5 DEF SpansFit, ReadFit
    <3> QED
      BY <1>3, <3>5, <3>6, <3>7, <3>8, <3>9 DEF ReadFit
  <2> QED
    BY <2>1, <2>2, <2>3
<1>5. SpansTyped'
  BY <1>1, <1>4 DEF SpansFit, SpansTyped
<1>6. QueueFit' /\ SpanFit'
  BY <1>1, <1>3, <1>4, QueuesStay, Numbered DEF SpansFit
<1>7. ChargeFit' /\ WriterFit' /\ PieceFit' /\ KeptFit'
  BY <1>1, <1>3 DEF SpansFit, ChargeFit, WriterFit, PieceFit, KeptFit
<1> QED
  BY <1>4, <1>5, <1>6, <1>7 DEF SpansFit

LEMMA CollectingFits ==
  ASSUME SpansFit, Spans!PlanGc \/ Spans!ApplyGc PROVE SpansFit'
<1>1. /\ queue' = queue /\ writer' = writer /\ spanFile' = spanFile
      /\ asked' = asked /\ clock' = clock
      /\ ledger' = ledger /\ spanTold' = spanTold /\ meter' = meter
  BY DEF Spans!PlanGc, Spans!ApplyGc, Spans!pieces, Spans!metered
<1> DEFINE Reading == [todo : SUBSET Pieces, counted : SUBSET Span, twice : BOOLEAN, on : BOOLEAN,
                       due : SUBSET Span]
<1>2. /\ spanPlan \subseteq 1..MaxTime /\ kept \subseteq Span
      /\ archives \in [1..MaxTime -> SUBSET Span] /\ reading \in Reading
  BY DEF SpansFit, SpansTyped
<1>3. /\ spanPlan' \subseteq 1..MaxTime /\ kept' \subseteq Span
      /\ archives' \in [1..MaxTime -> SUBSET Span]
      /\ \A t \in 1..MaxTime : archives'[t] \subseteq archives[t]
      /\ kept' \subseteq Spans!Written'
      /\ reading' \in Reading /\ reading'.todo = reading.todo /\ reading'.counted = reading.counted
      /\ reading'.twice = reading.twice
      /\ \A s \in reading'.due : s \in reading.due /\ \A t \in 1..MaxTime :
           s \in archives[t] => s \in archives'[t]
  <2>1. CASE Spans!PlanGc
    <3>1. archives' = archives /\ kept' = kept /\ spanPlan' \subseteq 1..MaxTime /\ reading' = reading
      BY <2>1 DEF Spans!PlanGc, Spans!Present, Spans!Times, Spans!pieces
    <3> QED
      BY <1>1, <1>2, <3>1 DEF SpansFit, KeptFit, Spans!Written
  <2>2. CASE Spans!ApplyGc
    <3>1. PICK t \in spanPlan : /\ archives' = [archives EXCEPT ![t] = {}]
                                /\ spanPlan' = spanPlan \ {t} /\ kept' = kept \ archives[t]
                                /\ reading' = [reading EXCEPT !.due = @ \ archives[t]]
      BY <2>2 DEF Spans!ApplyGc, Spans!Shift
    <3>2. /\ reading' \in Reading /\ reading'.todo = reading.todo
          /\ reading'.counted = reading.counted /\ reading'.twice = reading.twice
          /\ reading'.due = reading.due \ archives[t]
      BY <1>2, <3>1
    <3>3. kept' \subseteq Spans!Written'
      BY <1>1, <1>2, <3>1 DEF SpansFit, KeptFit, Spans!Written, Spans!Times
    <3> QED
      BY <1>2, <3>1, <3>2, <3>3
  <2> QED
    BY <2>1, <2>2
<1>4. SpansTyped'
  BY <1>1, <1>3 DEF SpansFit, SpansTyped
<1>5. Number' = Number /\ Number \in [Procs -> Nat]
  BY <1>1, Numbered DEF SpansFit, Number
<1>6. Seen' \subseteq Seen
  BY <1>1, <1>3 DEF Seen, Spans!Written, Spans!Times
<1>7. QueueFit' /\ SpanFit'
  BY <1>1, <1>5, <1>6, QueuesStay DEF SpansFit
<1>8. \A u \in Pieces : Piece'[u] \subseteq Piece[u]
  <2>1. \A u \in Pieces \ {0} : u \in 1..MaxTime
    BY SpansAssumption DEF Pieces
  <2> QED
    BY <1>1, <1>3, <2>1 DEF Piece
<1>9. PieceFit'
  BY <1>8 DEF SpansFit, PieceFit
<1>10. ReadFit'
  <2>1. reading.todo \subseteq Pieces
    BY <1>2
  <2>2. \A s \in reading'.due : \A u \in Pieces : s \in Piece[u] => s \in Piece'[u]
    <3>1. \A u \in Pieces \ {0} : u \in 1..MaxTime
      BY SpansAssumption DEF Pieces
    <3> QED
      BY <1>1, <1>3, <3>1 DEF Piece
  <2> QED
    BY <1>3, <1>8, <2>1, <2>2 DEF SpansFit, ReadFit
<1>11. WriterFit'
  BY <1>1 DEF SpansFit, WriterFit
<1>12. ChargeFit' /\ KeptFit'
  BY <1>1, <1>3 DEF SpansFit, ChargeFit, KeptFit
<1> QED
  BY <1>4, <1>7, <1>9, <1>10, <1>11, <1>12 DEF SpansFit

-----------------------------------------------------------------------------
LEMMA SpansGoes == ASSUME SpansFit, Spans!Next PROVE SpansFit'
<1>1. CASE Spans!Tick \/ Spans!Summarize \/ Spans!ReadPart \/ Spans!Shown \/ Spans!PlanGc \/ Spans!ApplyGc
  BY <1>1, TickFits, ReadingFits, CollectingFits
<1>2. ASSUME NEW p \in Procs,
             \/ Spans!AccountRequest(p) \/ Spans!OnStreamUsage(p) \/ Spans!Answered(p)
             \/ Spans!Failed(p) \/ Spans!EndSpan(p) \/ Spans!Measure(p) \/ Spans!RotateIfLarge(p)
             \/ Spans!AppendLine(p) \/ Spans!Crash(p)
      PROVE  SpansFit'
  BY <1>2, ChargingFits, EndingFits, MeasuringFits, RotatingFits, AppendingFits, CrashFits
<1> QED
  BY <1>1, <1>2 DEF Spans!Next

LEMMA SpansRest ==
  ASSUME SpansFit, UNCHANGED Spans!vars PROVE SpansFit'
<1>1. /\ queue' = queue /\ writer' = writer /\ spanFile' = spanFile /\ archives' = archives
      /\ asked' = asked /\ clock' = clock /\ reading' = reading /\ spanPlan' = spanPlan
      /\ kept' = kept /\ ledger' = ledger /\ spanTold' = spanTold /\ meter' = meter
  BY DEF Spans!vars
<1>2. Number' = Number
  BY <1>1 DEF Number
<1>3. SpansTyped' /\ ChargeFit' /\ QueueFit' /\ SpanFit' /\ PieceFit' /\ KeptFit' /\ ReadFit'
  BY <1>1, <1>2, SeenStays DEF SpansFit, SpansTyped, ChargeFit, QueueFit, Apart, SpanFit, KeptFit
<1>4. WriterFit'
  BY <1>1 DEF SpansFit, WriterFit
<1> QED
  BY <1>3, <1>4 DEF SpansFit

\* The calls, their spans and the reports take their own steps in the composition: tokens are
\* charged once, however an answer streams, fails and is asked for again; what is written stays
\* in a piece until gc takes it away or a rotation in the same millisecond replaces it; and a
\* report counts nothing twice and misses only what was moved or taken away while it read
\* (usage-meter.js, telemetry.js).
THEOREM CostsAlwaysCounted == RunsSpec => []CostsAreCounted
<1>1. RunsInit => SpansFit
  BY SpansStart DEF RunsInit
<1>2. SpansFit /\ [RunsNext]_runsVars => SpansFit'
  <2>1. [RunsNext]_runsVars => [Spans!Next]_(Spans!vars)
    BY DEF RunsNext, ProjectStep, ContendingStep, TriggerStep, InvocationsStep, KindsStep, SpansStep,
       runsVars, spansVars, Spans!vars
  <2> QED
    BY <2>1, SpansGoes, SpansRest
<1>3. SpansFit => CostsAreCounted
  BY DEF SpansFit, ChargeFit, KeptFit, ReadFit, CostsAreCounted, Spans!ChargedOnce,
     Spans!CostsAreKept
<1> QED
  BY <1>1, <1>2, <1>3, PTL DEF RunsSpec
-----------------------------------------------------------------------------
(* Agents and their receipts.                                              *)

Payloads == [of : Nat, status : {"sealed", "succeeded", "failed"}]
Signings == [payload : Payloads, at : Dates]
Lines    == [payload : Payloads, at : Dates, previous : Seq(Signings)]
Written  == Lines \cup {Invocations!NoLine}
Stage    == {"asking", "ending", "appending", "endingFailed", "appendingFailed", "returned", "threw"}
Calls    == [agent : Names, parent : Nat, chain : Seq(Names), pc : Stage]

Elements(s) == {s[i] : i \in DOMAIN s}
Apiece(s)   == \A i, j \in DOMAIN s : i # j => s[i] # s[j]
OnFile == {chainFile[k].payload : k \in DOMAIN chainFile}
Waiting == Elements(pending)

\* What the store has taken, as the hash of the last entry says; and all that was ever sent.
Before == IF tail = Invocations!Unread THEN <<>> ELSE tail
Taken  == {Before[i].payload : i \in DOMAIN Before}
Sent   == Taken \cup Waiting \cup refused

ChainTyped ==
  /\ chainFile \in Seq(Written) /\ pending \in Seq(Payloads) /\ signed \in SUBSET Lines
  /\ refused \in SUBSET Payloads /\ line \in Written /\ half \in BOOLEAN
  /\ Before \in Seq(Signings) /\ (tail = Invocations!Unread => chainFile = <<>>)

\* A payload is in one place only.
PlaceFit ==
  /\ Apiece(pending)
  /\ Waiting \cap Taken = {} /\ Waiting \cap refused = {} /\ Taken \cap refused = {}

\* The entry being written is the next that waits, linked to the last that was taken.
LineFit ==
  line # Invocations!NoLine =>
    /\ line \in signed /\ pending # <<>> /\ line.payload = Head(pending)
    /\ line.previous = Before /\ ~Invocations!Terminal(Before)

\* The key signs a payload once.
SignedFit ==
  /\ \A e \in signed : e.payload \in Taken \cup refused \/ e = line
  /\ \A e, f \in signed : e.payload = f.payload => e = f

\* Nothing is taken behind the seal, and a line that parses was taken.
TakenFit ==
  /\ \A i \in DOMAIN Before : i < Len(Before) => Before[i].payload # Invocations!Seal
  /\ \A k \in DOMAIN chainFile :
       \/ chainFile[k] = Invocations!NoLine
       \/ chainFile[k] \in signed /\ chainFile[k].payload \in Taken

\* As long as no line is spoiled, all that was taken is there, each line follows the one before
\* it, and the seal is the last.
Sound == \A k \in DOMAIN chainFile : chainFile[k] # Invocations!NoLine
LinkFit ==
  Sound =>
    /\ Before = Invocations!LastHash(chainFile) /\ Taken \subseteq OnFile
    /\ \A k \in DOMAIN chainFile :
         /\ chainFile[k] \in signed
         /\ chainFile[k].previous = IF k = 1 THEN <<>> ELSE Invocations!Hash(chainFile[k - 1])
         /\ k < Len(chainFile) => chainFile[k].payload # Invocations!Seal

\* Where an invocation stands, and what is known of its receipt.
ToldOf(n) ==
  LET good == Invocations!Payload(n, "succeeded")
      bad  == Invocations!Payload(n, "failed")
  IN  /\ run[n].pc \in {"asking", "ending", "endingFailed"} => good \notin Sent /\ bad \notin Sent
      /\ run[n].pc = "appending" => good \in Sent /\ bad \notin Sent
      /\ run[n].pc = "returned" => good \in Taken /\ bad \notin Sent
      /\ run[n].pc \in {"appendingFailed", "threw"} => good \notin Taken \cup Waiting
ToldFit ==
  /\ \A n \in DOMAIN run : ToldOf(n)
  /\ \A p \in Sent : p = Invocations!Seal \/ p.of \in DOMAIN run

\* No agent is above itself, nor deeper than allowed.
Above(n) == Append(run[n].chain, run[n].agent)
DepthFit == \A n \in DOMAIN run : Len(Above(n)) <= MaxDepth /\ Apiece(Above(n))

ChainFit == ChainTyped /\ PlaceFit /\ LineFit /\ SignedFit /\ TakenFit /\ LinkFit
AgentFit == ChainFit /\ run \in Seq(Calls) /\ ToldFit /\ DepthFit

-----------------------------------------------------------------------------
LEMMA ElementsAppend ==
  ASSUME NEW S, NEW s \in Seq(S), NEW e \in S
  PROVE  /\ Elements(Append(s, e)) = Elements(s) \cup {e}
         /\ Apiece(s) /\ e \notin Elements(s) => Apiece(Append(s, e))
<1> DEFINE t == Append(s, e)
<1>1. /\ t \in Seq(S) /\ Len(t) = Len(s) + 1
      /\ t[Len(s) + 1] = e /\ \A i \in 1..Len(s) : t[i] = s[i]
  BY AppendProperties
<1>2. Len(s) \in Nat /\ DOMAIN s = 1..Len(s) /\ DOMAIN t = 1..(Len(s) + 1)
  BY <1>1, LenProperties
<1> HIDE DEF t
<1>3. \A i \in DOMAIN t : i \in DOMAIN s \/ i = Len(s) + 1
  BY <1>2
<1>4. \A i \in DOMAIN s : i \in DOMAIN t /\ i # Len(s) + 1 /\ t[i] = s[i]
  BY <1>1, <1>2
<1>5. Len(s) + 1 \in DOMAIN t
  BY <1>2
<1>6. Elements(t) = Elements(s) \cup {e}
  BY <1>1, <1>3, <1>4, <1>5 DEF Elements
<1>7. ASSUME Apiece(s), e \notin Elements(s) PROVE Apiece(t)
  BY <1>1, <1>3, <1>4, <1>7 DEF Apiece, Elements
<1> QED
  BY <1>6, <1>7 DEF t

LEMMA ElementsTail ==
  ASSUME NEW S, NEW s \in Seq(S), s # <<>>
  PROVE  /\ Tail(s) \in Seq(S) /\ Head(s) \in S /\ Head(s) \in Elements(s)
         /\ Elements(s) = Elements(Tail(s)) \cup {Head(s)}
         /\ Apiece(s) => Apiece(Tail(s)) /\ Head(s) \notin Elements(Tail(s))
<1> DEFINE t == Tail(s)
<1>1. /\ t \in Seq(S) /\ Head(s) \in S /\ Len(t) = Len(s) - 1
      /\ \A i \in 1..Len(t) : t[i] = s[i + 1]
  BY HeadTailProperties
<1>2. /\ Len(s) \in Nat /\ Len(s) # 0 /\ DOMAIN s = 1..Len(s) /\ DOMAIN t = 1..(Len(s) - 1)
      /\ Head(s) = s[1]
  BY <1>1, EmptySeq, LenProperties
<1> HIDE DEF t
<1>3. \A i \in DOMAIN t : i + 1 \in DOMAIN s /\ i + 1 # 1 /\ t[i] = s[i + 1]
  BY <1>1, <1>2
<1>4. \A j \in DOMAIN s : j = 1 \/ (j - 1 \in DOMAIN t /\ (j - 1) + 1 = j)
  BY <1>2
<1>5. 1 \in DOMAIN s
  BY <1>2
<1>6. Elements(s) = Elements(t) \cup {Head(s)}
  BY <1>2, <1>3, <1>4, <1>5 DEF Elements
<1>7. ASSUME Apiece(s) PROVE Apiece(t) /\ Head(s) \notin Elements(t)
  <2>1. \A i, j \in DOMAIN t : i # j => i + 1 # j + 1
    BY <1>2
  <2> QED
    BY <1>2, <1>3, <1>5, <1>7, <2>1 DEF Apiece, Elements
<1> QED
  BY <1>1, <1>6, <1>7 DEF t

LEMMA AgentsStart == ASSUME Invocations!Init PROVE AgentFit
<1> USE AgentsAssumption
<1>1. /\ chainFile = <<>> /\ tail = Invocations!Unread /\ pending = <<>> /\ signed = {}
      /\ line = Invocations!NoLine /\ refused = {} /\ run = <<>> /\ half = FALSE
  BY DEF Invocations!Init, Invocations!ChainInit
<1>2. Before = <<>> /\ Taken = {} /\ Invocations!LastHash(chainFile) = <<>>
  BY <1>1 DEF Before, Taken, Invocations!LastHash
<1>3. ChainTyped
  BY <1>1, <1>2, EmptySeq DEF ChainTyped, Written
<1>4. PlaceFit /\ LineFit /\ SignedFit /\ TakenFit /\ LinkFit /\ ToldFit /\ DepthFit
  BY <1>1, <1>2 DEF PlaceFit, LineFit, SignedFit, TakenFit, LinkFit, ToldFit, DepthFit, Apiece,
     Waiting, Elements, OnFile, Sent
<1> QED
  BY <1>1, <1>3, <1>4, EmptySeq DEF AgentFit, ChainFit

-----------------------------------------------------------------------------
\* The hash of an entry is never what stands for one not yet read.
LEMMA ReadApart == ASSUME NEW h \in Seq(Signings) PROVE h # Invocations!Unread
<1> DEFINE u == Invocations!Unread
<1>1. Len(u) = 1 /\ u[1].payload = Invocations!NoPayload
  BY DEF Invocations!Unread
<1>2. Invocations!NoPayload \notin Payloads
  BY DEF Invocations!NoPayload, Payloads
<1> HIDE DEF u
<1>3. ASSUME h = u PROVE FALSE
  <2>1. h[1] \in Signings
    BY <1>1, <1>3, ElementOfSeq
  <2> QED
    BY <1>1, <1>2, <1>3, <2>1 DEF Signings
<1> QED
  BY <1>3 DEF u

LEMMA NoLineApart ==
  Invocations!NoLine \notin Lines /\ \A e \in Lines : e.payload # Invocations!NoPayload
BY DEF Invocations!NoLine, Lines, Payloads, Invocations!NoPayload

\* A call of append puts its payload behind those that wait.
LEMMA CallFits ==
  ASSUME ChainFit, NEW p \in Payloads, p \notin Sent, Invocations!CallAppend(p),
         UNCHANGED <<chainFile, half, tail, line, signed, refused>>
  PROVE  ChainFit' /\ Taken' = Taken /\ Waiting' = Waiting \cup {p} /\ Sent' = Sent \cup {p}
<1>1. /\ pending' = Append(pending, p) /\ chainFile' = chainFile /\ tail' = tail /\ line' = line
      /\ signed' = signed /\ refused' = refused /\ half' = half
  BY DEF Invocations!CallAppend
<1>2. pending \in Seq(Payloads)
  BY DEF ChainFit, ChainTyped
<1>3. /\ pending' \in Seq(Payloads) /\ pending' # <<>>
      /\ pending # <<>> => Head(pending') = Head(pending)
  BY <1>1, <1>2, AppendProperties, HeadTailAppend
<1>4. /\ Elements(Append(pending, p)) = Elements(pending) \cup {p}
      /\ Apiece(pending) /\ p \notin Elements(pending) => Apiece(Append(pending, p))
  BY <1>2, ElementsAppend
<1>5. Before' = Before /\ OnFile' = OnFile /\ (Sound' <=> Sound)
  BY <1>1 DEF Before, OnFile, Sound
<1>6. Waiting' = Waiting \cup {p} /\ Taken' = Taken /\ Sent' = Sent \cup {p}
  BY <1>1, <1>4, <1>5 DEF Waiting, Taken, Sent
<1>7. PlaceFit'
  <2>1. Apiece(pending')
    BY <1>1, <1>4 DEF ChainFit, PlaceFit, Sent, Waiting
  <2> QED
    BY <1>1, <1>6, <2>1 DEF ChainFit, PlaceFit, Sent, Apiece
<1>8. LineFit'
  BY <1>1, <1>3, <1>5 DEF ChainFit, LineFit
<1>9. ChainTyped' /\ SignedFit' /\ TakenFit'
  BY <1>1, <1>3, <1>5, <1>6 DEF ChainFit, ChainTyped, SignedFit, TakenFit
<1>10. LinkFit'
  BY <1>1, <1>5, <1>6 DEF ChainFit, LinkFit
<1> QED
  BY <1>6, <1>7, <1>8, <1>9, <1>10 DEF ChainFit

\* What the file held stays; it has one line more.
LEMMA FileGrows ==
  ASSUME NEW s \in Seq(Written), NEW e \in Written
  PROVE  /\ Append(s, e) \in Seq(Written) /\ Len(Append(s, e)) = Len(s) + 1
         /\ Len(s) \in Nat /\ DOMAIN s = 1..Len(s) /\ DOMAIN Append(s, e) = 1..(Len(s) + 1)
         /\ Append(s, e)[Len(s) + 1] = e /\ \A i \in 1..Len(s) : Append(s, e)[i] = s[i]
         /\ Append(s, e) # <<>>
         /\ Invocations!LastHash(Append(s, e)) = Invocations!Hash(e)
         /\ s # <<>> => /\ Len(s) \in DOMAIN s
                        /\ Invocations!LastHash(s) = Invocations!Hash(s[Len(s)])
<1> DEFINE t == Append(s, e)
<1>1. /\ t \in Seq(Written) /\ Len(t) = Len(s) + 1 /\ t # <<>>
      /\ t[Len(s) + 1] = e /\ \A i \in 1..Len(s) : t[i] = s[i]
  BY AppendProperties
<1>2. Len(s) \in Nat /\ DOMAIN s = 1..Len(s) /\ DOMAIN t = 1..(Len(s) + 1)
  BY <1>1, LenProperties
<1> HIDE DEF t
<1>3. s # <<>> => Len(s) # 0
  BY EmptySeq
<1>4. Invocations!LastHash(t) = Invocations!Hash(e)
  BY <1>1, <1>2 DEF Invocations!LastHash
<1>5. s # <<>> => Len(s) \in DOMAIN s /\ Invocations!LastHash(s) = Invocations!Hash(s[Len(s)])
  BY <1>2, <1>3 DEF Invocations!LastHash
<1> QED
  BY <1>1, <1>2, <1>4, <1>5 DEF t

LEMMA HashOfLine ==
  ASSUME NEW e \in Lines
  PROVE  /\ Invocations!Hash(e) \in Seq(Signings) /\ Invocations!Hash(e) # <<>>
         /\ Len(Invocations!Hash(e)) = Len(e.previous) + 1 /\ Len(e.previous) \in Nat
         /\ Invocations!Hash(e)[Len(e.previous) + 1].payload = e.payload
         /\ \A i \in 1..Len(e.previous) : Invocations!Hash(e)[i] = e.previous[i]
         /\ Invocations!Terminal(Invocations!Hash(e)) <=> e.payload = Invocations!Seal
<1> DEFINE x == [payload |-> e.payload, at |-> e.at]
<1>1. e.previous \in Seq(Signings) /\ x \in Signings /\ x.payload = e.payload
  BY DEF Lines, Signings
<1>2. Invocations!Hash(e) = Append(e.previous, x)
  BY DEF Invocations!Hash
<1> HIDE DEF x
<1>3. /\ Invocations!Hash(e) \in Seq(Signings) /\ Invocations!Hash(e) # <<>>
      /\ Len(Invocations!Hash(e)) = Len(e.previous) + 1 /\ Len(e.previous) \in Nat
      /\ Invocations!Hash(e)[Len(e.previous) + 1] = x
      /\ \A i \in 1..Len(e.previous) : Invocations!Hash(e)[i] = e.previous[i]
  BY <1>1, <1>2, AppendProperties, LenProperties
<1> QED
  BY <1>1, <1>3 DEF Invocations!Terminal

\* An append is linked, or refused because the file is sealed.
LEMMA LinkFits ==
  ASSUME ChainFit, Invocations!Link
  PROVE  ChainFit' /\ Taken' = Taken /\ Waiting' \subseteq Waiting /\ Sent' = Sent
<1>1. /\ pending \in Seq(Payloads) /\ Before \in Seq(Signings)
      /\ signed \subseteq Lines /\ refused \subseteq Payloads
      /\ tail = Invocations!Unread => chainFile = <<>>
  BY DEF ChainFit, ChainTyped
<1>2. (IF tail = Invocations!Unread THEN Invocations!LastHash(chainFile) ELSE tail) = Before
  BY <1>1 DEF Before, Invocations!LastHash
<1>3. /\ pending # <<>> /\ line = Invocations!NoLine /\ chainFile' = chainFile /\ half' = half
      /\ tail' = Before
  BY <1>2 DEF Invocations!Link
<1>4. Before' = Before /\ tail' # Invocations!Unread
  BY <1>1, <1>3, ReadApart DEF Before
<1>5. Taken' = Taken /\ OnFile' = OnFile /\ (Sound' <=> Sound)
  BY <1>3, <1>4 DEF Taken, OnFile, Sound
<1>6. /\ Tail(pending) \in Seq(Payloads) /\ Head(pending) \in Payloads
      /\ Head(pending) \in Elements(pending)
      /\ Elements(pending) = Elements(Tail(pending)) \cup {Head(pending)}
      /\ Apiece(Tail(pending)) /\ Head(pending) \notin Elements(Tail(pending))
  BY <1>1, <1>3, ElementsTail DEF ChainFit, PlaceFit
<1>7. CASE Invocations!Terminal(Before)
  <2>1. /\ pending' = Tail(pending) /\ refused' = refused \cup {Head(pending)}
        /\ line' = line /\ signed' = signed
    BY <1>2, <1>7 DEF Invocations!Link
  <2>2. /\ Waiting' = Waiting \ {Head(pending)} /\ Sent' = Sent /\ Head(pending) \in Waiting
    BY <1>5, <1>6, <2>1 DEF Waiting, Sent
  <2>3. PlaceFit'
    BY <1>5, <1>6, <2>1, <2>2 DEF ChainFit, PlaceFit, Apiece
  <2>4. ChainTyped'
    BY <1>1, <1>3, <1>4, <1>6, <2>1 DEF ChainFit, ChainTyped
  <2>5. LineFit' /\ SignedFit' /\ TakenFit'
    BY <1>3, <1>4, <1>5, <2>1 DEF ChainFit, LineFit, SignedFit, TakenFit
  <2>6. LinkFit'
    BY <1>3, <1>4, <1>5, <2>1 DEF ChainFit, LinkFit
  <2> QED
    BY <1>5, <2>2, <2>3, <2>4, <2>5, <2>6 DEF ChainFit
<1>8. CASE ~Invocations!Terminal(Before)
  <2>1. /\ pending' = pending /\ refused' = refused
        /\ signed' = signed \cup {line'}
    BY <1>2, <1>8 DEF Invocations!Link
  <2>2. PICK d \in Dates : line' = [payload |-> Head(pending), at |-> d, previous |-> Before]
    BY <1>2, <1>8 DEF Invocations!Link
  <2>3. line' \in Lines /\ line'.payload = Head(pending) /\ line'.previous = Before
    BY <1>1, <1>6, <2>2 DEF Lines
  <2>4. Waiting' = Waiting /\ Sent' = Sent /\ Head(pending) \in Waiting
    BY <1>5, <1>6, <2>1 DEF Waiting, Sent
  <2>5. PlaceFit'
    BY <1>5, <2>1, <2>4 DEF ChainFit, PlaceFit, Apiece
  <2>6. ChainTyped'
    BY <1>1, <1>3, <1>4, <2>1, <2>3 DEF ChainFit, ChainTyped, Written
  <2>7. LineFit'
    BY <1>3, <1>4, <1>8, <2>1, <2>3 DEF LineFit
  <2>8. TakenFit'
    BY <1>3, <1>4, <1>5, <2>1 DEF ChainFit, TakenFit
  <2>9. LinkFit'
    BY <1>3, <1>4, <1>5, <2>1 DEF ChainFit, LinkFit
  <2>10. SignedFit'
    <3>1. \A e \in signed : e.payload \in Taken \cup refused
      BY <1>1, <1>3, NoLineApart DEF ChainFit, SignedFit
    <3>2. \A e \in signed : e.payload # Head(pending)
      BY <2>4, <3>1 DEF ChainFit, PlaceFit
    <3> QED
      BY <1>5, <2>1, <2>3, <3>1, <3>2 DEF ChainFit, SignedFit
  <2> QED
    BY <1>5, <2>4, <2>5, <2>6, <2>7, <2>8, <2>9, <2>10 DEF ChainFit
<1> QED
  BY <1>7, <1>8

\* One more payload is taken: the hash that the store remembers has one more to say.
LEMMA TakenGrows ==
  ASSUME Before \in Seq(Signings), NEW e \in Lines, e.previous = Before,
         tail' = Invocations!Hash(e)
  PROVE  /\ Before' = Invocations!Hash(e) /\ Before' \in Seq(Signings)
         /\ tail' # Invocations!Unread
         /\ Taken' = Taken \cup {e.payload}
         /\ Len(Before') = Len(Before) + 1 /\ Len(Before) \in Nat
         /\ DOMAIN Before = 1..Len(Before) /\ DOMAIN Before' = 1..(Len(Before) + 1)
         /\ \A i \in DOMAIN Before : Before'[i] = Before[i]
<1>1. /\ Invocations!Hash(e) \in Seq(Signings)
      /\ Len(Invocations!Hash(e)) = Len(Before) + 1 /\ Len(Before) \in Nat
      /\ Invocations!Hash(e)[Len(Before) + 1].payload = e.payload
      /\ \A i \in 1..Len(Before) : Invocations!Hash(e)[i] = Before[i]
  BY HashOfLine
<1>2. tail' # Invocations!Unread /\ Before' = Invocations!Hash(e)
  BY <1>1, ReadApart DEF Before
<1>3. /\ Before' \in Seq(Signings) /\ Len(Before') = Len(Before) + 1
      /\ Before'[Len(Before) + 1].payload = e.payload
      /\ \A i \in 1..Len(Before) : Before'[i] = Before[i]
  BY <1>1, <1>2
<1>4. DOMAIN Before = 1..Len(Before) /\ DOMAIN Before' = 1..(Len(Before) + 1)
  BY <1>3, LenProperties
<1>5. \A i : i \in DOMAIN Before' <=> i \in DOMAIN Before \/ i = Len(Before) + 1
  BY <1>1, <1>4
<1>6. Taken' = Taken \cup {e.payload}
  BY <1>3, <1>4, <1>5 DEF Taken
<1> QED
  BY <1>1, <1>2, <1>3, <1>4, <1>6

\* The line is written, whole or spoiled, or it is not and the next one takes its place.
LEMMA WriteFits ==
  ASSUME ChainFit, Invocations!WriteLine
  PROVE  /\ ChainFit' /\ Taken \subseteq Taken' /\ Waiting' \subseteq Waiting /\ Sent' = Sent
         /\ Taken' \cup Waiting' \subseteq Taken \cup Waiting
<1> DEFINE p == Head(pending)
<1>1. /\ line # Invocations!NoLine /\ pending' = Tail(pending) /\ line' = Invocations!NoLine
      /\ signed' = signed
  BY DEF Invocations!WriteLine
<1>2. \/ \E w \in {line, Invocations!NoLine} :
           /\ chainFile' = Append(chainFile, w) /\ tail' = Invocations!Hash(line)
           /\ refused' = refused /\ half' = FALSE
      \/ /\ refused' = refused \cup {line.payload} /\ chainFile' = chainFile /\ tail' = tail
         /\ half' \in {half, TRUE}
  BY DEF Invocations!WriteLine
<1>3. /\ line \in signed /\ pending # <<>> /\ line.payload = p /\ line \in Lines
      /\ line.previous = Before /\ ~Invocations!Terminal(Before)
  BY <1>1 DEF ChainFit, LineFit, ChainTyped, Written
<1>4. /\ pending \in Seq(Payloads) /\ chainFile \in Seq(Written) /\ Before \in Seq(Signings)
      /\ signed \subseteq Lines /\ refused \subseteq Payloads /\ half \in BOOLEAN
      /\ tail = Invocations!Unread => chainFile = <<>>
  BY DEF ChainFit, ChainTyped
<1>5. /\ Tail(pending) \in Seq(Payloads) /\ p \in Payloads /\ p \in Elements(pending)
      /\ Elements(pending) = Elements(Tail(pending)) \cup {p}
      /\ Apiece(Tail(pending)) /\ p \notin Elements(Tail(pending))
  BY <1>3, <1>4, ElementsTail DEF ChainFit, PlaceFit
<1> HIDE DEF p
<1>6. Waiting' = Waiting \ {p} /\ p \in Waiting
  BY <1>1, <1>5 DEF Waiting
<1>7. LineFit' /\ line' \in Written
  BY <1>1 DEF LineFit, Written
<1>8. CASE /\ refused' = refused \cup {line.payload} /\ chainFile' = chainFile /\ tail' = tail
           /\ half' \in {half, TRUE}
  <2>1. Before' = Before /\ OnFile' = OnFile /\ (Sound' <=> Sound)
    BY <1>8 DEF Before, OnFile, Sound
  <2>2. Taken' = Taken /\ Sent' = Sent
    BY <1>3, <1>6, <1>8, <2>1 DEF Taken, Sent
  <2>3. PlaceFit'
    BY <1>1, <1>3, <1>5, <1>6, <1>8, <2>2 DEF ChainFit, PlaceFit, Apiece
  <2>4. ChainTyped'
    BY <1>1, <1>3, <1>4, <1>5, <1>7, <1>8, <2>1 DEF ChainTyped
  <2>5. SignedFit'
    BY <1>1, <1>3, <1>8, <2>2 DEF ChainFit, SignedFit
  <2>6. TakenFit'
    BY <1>1, <1>8, <2>1, <2>2 DEF ChainFit, TakenFit
  <2>7. LinkFit'
    BY <1>1, <1>8, <2>1, <2>2 DEF ChainFit, LinkFit
  <2> QED
    BY <1>6, <1>7, <2>2, <2>3, <2>4, <2>5, <2>6, <2>7 DEF ChainFit
<1>9. ASSUME NEW w \in {line, Invocations!NoLine},
             chainFile' = Append(chainFile, w), tail' = Invocations!Hash(line),
             refused' = refused, half' = FALSE
      PROVE  /\ ChainFit' /\ Taken \subseteq Taken' /\ Waiting' \subseteq Waiting /\ Sent' = Sent
             /\ Taken' \cup Waiting' \subseteq Taken \cup Waiting
  <2> DEFINE n == Len(chainFile)
  <2>1. w \in Written
    BY <1>3 DEF Written
  <2>2. /\ chainFile' \in Seq(Written) /\ Len(chainFile') = n + 1
        /\ n \in Nat /\ DOMAIN chainFile = 1..n /\ DOMAIN chainFile' = 1..(n + 1)
        /\ chainFile'[n + 1] = w /\ \A i \in 1..n : chainFile'[i] = chainFile[i]
        /\ Invocations!LastHash(chainFile') = Invocations!Hash(w)
        /\ chainFile # <<>> => /\ n \in DOMAIN chainFile
                               /\ Invocations!LastHash(chainFile) = Invocations!Hash(chainFile[n])
    BY <1>4, <1>9, <2>1, FileGrows
  <2>3. chainFile = <<>> => n = 0
    BY EmptySeq
  <2> HIDE DEF n
  <2>4. \A k \in DOMAIN chainFile' : k \in DOMAIN chainFile \/ k = n + 1
    BY <2>2
  <2>5. /\ Before' = Invocations!Hash(line) /\ Before' \in Seq(Signings)
        /\ tail' # Invocations!Unread /\ Taken' = Taken \cup {p}
        /\ Len(Before') = Len(Before) + 1 /\ Len(Before) \in Nat
        /\ DOMAIN Before = 1..Len(Before) /\ DOMAIN Before' = 1..(Len(Before) + 1)
        /\ \A i \in DOMAIN Before : Before'[i] = Before[i]
    BY <1>3, <1>4, <1>9, TakenGrows
  <2>6. Sent' = Sent
    BY <1>6, <1>9, <2>5 DEF Sent
  <2>7. PlaceFit'
    BY <1>1, <1>5, <1>6, <1>9, <2>5 DEF ChainFit, PlaceFit, Apiece
  <2>8. ChainTyped'
    BY <1>1, <1>4, <1>5, <1>7, <1>9, <2>2, <2>5 DEF ChainTyped
  <2>9. SignedFit'
    BY <1>1, <1>3, <1>9, <2>5 DEF ChainFit, SignedFit
  <2>10. TakenFit'
    <3>1. ASSUME NEW i \in DOMAIN Before', i < Len(Before')
          PROVE  Before'[i].payload # Invocations!Seal
      <4>1. i \in DOMAIN Before /\ Before'[i] = Before[i]
        BY <2>5, <3>1
      <4>2. CASE i < Len(Before)
        BY <4>1, <4>2 DEF ChainFit, TakenFit
      <4>3. CASE i = Len(Before)
        <5>1. Before # <<>>
          BY <2>5, <4>1, EmptySeq
        <5> QED
          BY <1>3, <4>1, <4>3, <5>1 DEF Invocations!Terminal
      <4> QED
        BY <2>5, <4>1, <4>2, <4>3
    <3>2. ASSUME NEW k \in DOMAIN chainFile'
          PROVE  \/ chainFile'[k] = Invocations!NoLine
                 \/ chainFile'[k] \in signed /\ chainFile'[k].payload \in Taken'
      <4>1. CASE k = n + 1
        BY <1>3, <2>2, <2>5, <4>1
      <4>2. CASE k \in DOMAIN chainFile
        BY <2>2, <2>5, <4>2 DEF ChainFit, TakenFit
      <4> QED
        BY <2>4, <4>1, <4>2
    <3> QED
      BY <1>1, <3>1, <3>2 DEF TakenFit
  <2>11. LinkFit'
    <3> SUFFICES ASSUME Sound' PROVE LinkFit'
      BY DEF LinkFit
    <3>1. w = line
      BY <2>2 DEF Sound
    <3>2. Sound
      BY <2>2 DEF Sound
    <3>3. Before = Invocations!LastHash(chainFile) /\ Taken \subseteq OnFile
      BY <3>2 DEF ChainFit, LinkFit
    <3>4. Before' = Invocations!LastHash(chainFile)'
      <4>1. Invocations!LastHash(chainFile') = Before'
        BY <2>2, <2>5, <3>1
      <4> QED
        BY <4>1 DEF Invocations!LastHash, Invocations!Hash
    <3>5. Taken' \subseteq OnFile'
      <4>1. OnFile \subseteq OnFile'
        BY <2>2 DEF OnFile
      <4>2. p \in OnFile'
        BY <1>3, <2>2, <3>1 DEF OnFile
      <4> QED
        BY <2>5, <3>3, <4>1, <4>2
    <3>6. ASSUME NEW k \in DOMAIN chainFile'
          PROVE  /\ chainFile'[k] \in signed
                 /\ chainFile'[k].previous = IF k = 1 THEN <<>> ELSE Invocations!Hash(chainFile'[k - 1])
                 /\ k < n + 1 => chainFile'[k].payload # Invocations!Seal
      <4>1. CASE k = n + 1
        <5>1. CASE chainFile = <<>>
          BY <1>3, <2>2, <2>3, <3>1, <3>3, <4>1, <5>1 DEF Invocations!LastHash
        <5>2. CASE chainFile # <<>>
          BY <1>3, <2>2, <3>1, <3>3, <4>1, <5>2
        <5> QED
          BY <5>1, <5>2
      <4>2. CASE k \in DOMAIN chainFile
        <5>1. /\ chainFile[k] \in signed
              /\ chainFile[k].previous = IF k = 1 THEN <<>> ELSE Invocations!Hash(chainFile[k - 1])
              /\ k < n => chainFile[k].payload # Invocations!Seal
          BY <3>2, <4>2 DEF ChainFit, LinkFit, n
        <5>2. chainFile'[k] = chainFile[k] /\ (k # 1 => chainFile'[k - 1] = chainFile[k - 1])
          BY <2>2, <4>2
        <5>3. k = n => chainFile[k].payload # Invocations!Seal
          <6>1. CASE k = n
            <7>1. chainFile # <<>> /\ chainFile[n] \in Lines
              BY <1>4, <2>2, <2>3, <4>2, <6>1, <5>1
            <7>2. ~Invocations!Terminal(Invocations!Hash(chainFile[n]))
              BY <1>3, <2>2, <3>3, <7>1
            <7> QED
              BY <6>1, <7>1, <7>2, HashOfLine
          <6> QED
            BY <6>1
        <5> QED
          BY <2>2, <4>2, <5>1, <5>2, <5>3
      <4> QED
        BY <2>4, <3>6, <4>1, <4>2
    <3> QED
      BY <1>1, <2>2, <3>4, <3>5, <3>6 DEF LinkFit
  <2> QED
    BY <1>6, <1>7, <2>5, <2>6, <2>7, <2>8, <2>9, <2>10, <2>11 DEF ChainFit
<1> QED
  BY <1>2, <1>8, <1>9

-----------------------------------------------------------------------------
LEMMA PayloadsOf ==
  ASSUME NEW n \in Nat \ {0}
  PROVE  /\ Invocations!Payload(n, "succeeded") \in Payloads
         /\ Invocations!Payload(n, "failed") \in Payloads
         /\ Invocations!Payload(n, "succeeded").of = n /\ Invocations!Payload(n, "failed").of = n
         /\ Invocations!Payload(n, "succeeded") # Invocations!Payload(n, "failed")
         /\ Invocations!Payload(n, "succeeded") # Invocations!Seal
         /\ Invocations!Payload(n, "failed") # Invocations!Seal
BY DEF Invocations!Payload, Payloads, Invocations!Seal

LEMMA RunTyped ==
  ASSUME run \in Seq(Calls)
  PROVE  /\ DOMAIN run = 1..Len(run) /\ Len(run) \in Nat
         /\ \A n \in DOMAIN run : /\ run[n] \in Calls /\ n \in Nat \ {0} /\ run[n].pc \in Stage
                                  /\ run[n].agent \in Names /\ run[n].chain \in Seq(Names)
<1>1. DOMAIN run = 1..Len(run) /\ Len(run) \in Nat
  BY LenProperties
<1>2. \A n \in 1..Len(run) : run[n] \in Calls
  BY ElementOfSeq
<1> QED
  BY <1>1, <1>2 DEF Calls

\* An invocation goes on; who called whom stays.
LEMMA GotoGives ==
  ASSUME run \in Seq(Calls), NEW n \in DOMAIN run, NEW where \in Stage, Invocations!Goto(n, where)
  PROVE  /\ run' \in Seq(Calls) /\ DOMAIN run' = DOMAIN run /\ run'[n].pc = where
         /\ \A m \in DOMAIN run \ {n} : run'[m] = run[m]
         /\ DepthFit => DepthFit'
<1>1. run \in [1..Len(run) -> Calls] /\ DOMAIN run = 1..Len(run) /\ Len(run) \in Nat
  BY RunTyped, LenProperties
<1>2. run' = [run EXCEPT ![n].pc = where]
  BY DEF Invocations!Goto
<1>3. /\ run' \in [1..Len(run) -> Calls] /\ DOMAIN run' = DOMAIN run /\ run'[n].pc = where
      /\ \A m \in DOMAIN run \ {n} : run'[m] = run[m]
      /\ run'[n].agent = run[n].agent /\ run'[n].chain = run[n].chain
  BY <1>1, <1>2 DEF Calls
<1>5. run' \in Seq(Calls)
  BY <1>1, <1>3, SeqDef
<1>7. \A m \in DOMAIN run : run'[m].agent = run[m].agent /\ run'[m].chain = run[m].chain
  BY <1>3
<1>8. ASSUME DepthFit PROVE DepthFit'
  <2>1. ASSUME NEW m \in DOMAIN run
        PROVE  LET above == Append(run'[m].chain, run'[m].agent)
               IN  Len(above) <= MaxDepth /\ Apiece(above)
    BY <1>7, <1>8, <2>1 DEF DepthFit, Above
  <2> QED
    BY <1>3, <2>1 DEF DepthFit, Above, Apiece
<1> QED
  BY <1>3, <1>5, <1>8

\* What the others were told is as true as before, when only payloads of n have been added.
LEMMA OthersTold ==
  ASSUME run \in Seq(Calls), ToldFit, NEW n \in DOMAIN run, NEW p,
         DOMAIN run' = DOMAIN run, \A m \in DOMAIN run \ {n} : run'[m] = run[m],
         p \in {Invocations!Payload(n, "succeeded"), Invocations!Payload(n, "failed")},
         Taken' = Taken, Waiting' \in {Waiting, Waiting \cup {p}}, Sent' \in {Sent, Sent \cup {p}},
         ToldOf(n)'
  PROVE  ToldFit'
<1>1. \A m \in DOMAIN run : m \in Nat \ {0}
  BY RunTyped
<1>2. p.of = n
  BY <1>1, PayloadsOf
<1>3. ASSUME NEW m \in DOMAIN run \ {n} PROVE ToldOf(m)'
  <2>1. /\ p # Invocations!Payload(m, "succeeded") /\ p # Invocations!Payload(m, "failed")
        /\ run'[m].pc = run[m].pc /\ ToldOf(m)
    BY <1>1, <1>2, PayloadsOf DEF ToldFit
  <2> QED
    BY <2>1 DEF ToldOf
<1>4. \A q \in Sent' : q = Invocations!Seal \/ q.of \in DOMAIN run
  BY <1>2 DEF ToldFit
<1> QED
  BY <1>3, <1>4 DEF ToldFit

LEMMA DepthStays == ASSUME DepthFit, run' = run PROVE DepthFit'
BY DEF DepthFit, Above, Apiece

-----------------------------------------------------------------------------
\* The store goes on by itself.
LEMMA StoreFits ==
  ASSUME AgentFit, Invocations!Store, UNCHANGED run PROVE AgentFit'
<1>1. /\ ChainFit' /\ Taken \subseteq Taken' /\ Waiting' \subseteq Waiting /\ Sent' = Sent
      /\ Taken' \cup Waiting' \subseteq Taken \cup Waiting
  BY LinkFits, WriteFits DEF AgentFit, Invocations!Store
<1>2. run' = run
  OBVIOUS
<1>3. ToldFit'
  <2>1. ASSUME NEW n \in DOMAIN run PROVE ToldOf(n)'
    <3>1. ToldOf(n)
      BY DEF AgentFit, ToldFit
    <3> QED
      BY <1>1, <1>2, <3>1 DEF ToldOf
  <2> QED
    BY <1>1, <1>2, <2>1 DEF AgentFit, ToldFit
<1>4. DepthFit'
  BY <1>2, DepthStays DEF AgentFit
<1> QED
  BY <1>1, <1>2, <1>3, <1>4 DEF AgentFit

\* The file stays where no append is called.
LEMMA ChainStays ==
  ASSUME ChainFit, UNCHANGED <<chainFile, half, tail, pending, line, signed, refused>>
  PROVE  ChainFit' /\ Taken' = Taken /\ Waiting' = Waiting /\ Sent' = Sent
<1>1. /\ chainFile' = chainFile /\ tail' = tail /\ pending' = pending /\ line' = line
      /\ signed' = signed /\ refused' = refused /\ half' = half
  OBVIOUS
<1>2. Before' = Before /\ OnFile' = OnFile /\ (Sound' <=> Sound)
  BY <1>1 DEF Before, OnFile, Sound
<1>3. Taken' = Taken /\ Waiting' = Waiting /\ Sent' = Sent
  BY <1>1, <1>2 DEF Taken, Waiting, Sent
<1>4. ChainTyped' /\ PlaceFit' /\ LineFit' /\ SignedFit'
  BY <1>1, <1>2, <1>3 DEF ChainFit, ChainTyped, PlaceFit, LineFit, SignedFit, Apiece
<1>5. TakenFit' /\ LinkFit'
  BY <1>1, <1>2, <1>3 DEF ChainFit, TakenFit, LinkFit
<1> QED
  BY <1>3, <1>4, <1>5 DEF ChainFit

LEMMA WorkFits ==
  ASSUME AgentFit, NEW n \in DOMAIN run, Invocations!ProviderEnds(n) PROVE AgentFit'
<1>1. PICK where \in {"ending", "endingFailed"} : Invocations!Goto(n, where)
  BY DEF Invocations!ProviderEnds
<1>2. /\ UNCHANGED <<chainFile, half, tail, pending, line, signed, refused>> /\ run[n].pc = "asking"
  BY DEF Invocations!ProviderEnds, Invocations!At
<1>3. ChainFit' /\ Taken' = Taken /\ Waiting' = Waiting /\ Sent' = Sent
  BY <1>2, ChainStays DEF AgentFit
<1>4. /\ run' \in Seq(Calls) /\ DOMAIN run' = DOMAIN run /\ run'[n].pc = where
      /\ \A m \in DOMAIN run \ {n} : run'[m] = run[m]
      /\ DepthFit'
  BY <1>1, GotoGives DEF AgentFit, Stage
<1>5. ToldOf(n)'
  <2>1. ToldOf(n)
    BY DEF AgentFit, ToldFit
  <2> QED
    BY <1>2, <1>3, <1>4, <2>1 DEF ToldOf
<1>6. ToldFit'
  BY <1>3, <1>4, <1>5, OthersTold DEF AgentFit
<1> QED
  BY <1>3, <1>4, <1>6 DEF AgentFit

\* A receipt is called for that says what the caller will be told, or nothing is any more.
LEMMA SpanFits ==
  ASSUME AgentFit, NEW n \in DOMAIN run, Invocations!EndSpan(n) \/ Invocations!EndSpanFailed(n)
  PROVE  AgentFit'
<1> DEFINE good == Invocations!Payload(n, "succeeded")
           bad  == Invocations!Payload(n, "failed")
<1>1. /\ good \in Payloads /\ bad \in Payloads /\ good # bad /\ n \in Nat \ {0}
  BY RunTyped, PayloadsOf DEF AgentFit
<1>2. run[n].pc \in {"ending", "endingFailed"} /\ good \notin Sent /\ bad \notin Sent
  <2>1. run[n].pc \in {"ending", "endingFailed"}
    BY DEF Invocations!EndSpan, Invocations!EndSpanFailed, Invocations!At
  <2>2. ToldOf(n)
    BY DEF AgentFit, ToldFit
  <2> QED
    BY <2>1, <2>2 DEF ToldOf
<1>3. /\ UNCHANGED <<chainFile, half, tail, line, signed, refused>>
      /\ \/ Invocations!Goto(n, "appending") /\ Invocations!CallAppend(good)
         \/ Invocations!Goto(n, "appendingFailed") /\ Invocations!CallAppend(bad)
         \/ Invocations!Goto(n, "threw") /\ pending' = pending
  BY DEF Invocations!EndSpan, Invocations!EndSpanFailed
<1> HIDE DEF good, bad
<1>4. CASE Invocations!Goto(n, "appending") /\ Invocations!CallAppend(good)
  <2>1. ChainFit' /\ Taken' = Taken /\ Waiting' = Waiting \cup {good} /\ Sent' = Sent \cup {good}
    BY <1>1, <1>2, <1>3, <1>4, CallFits DEF AgentFit
  <2>2. /\ run' \in Seq(Calls) /\ DOMAIN run' = DOMAIN run /\ run'[n].pc = "appending"
        /\ \A m \in DOMAIN run \ {n} : run'[m] = run[m]
        /\ DepthFit'
    BY <1>4, GotoGives DEF AgentFit, Stage
  <2>3. ToldOf(n)'
    BY <1>1, <1>2, <2>1, <2>2 DEF ToldOf, good, bad
  <2>4. ToldFit'
    BY <2>1, <2>2, <2>3, OthersTold DEF AgentFit, good
  <2> QED
    BY <2>1, <2>2, <2>4 DEF AgentFit
<1>5. CASE Invocations!Goto(n, "appendingFailed") /\ Invocations!CallAppend(bad)
  <2>1. ChainFit' /\ Taken' = Taken /\ Waiting' = Waiting \cup {bad} /\ Sent' = Sent \cup {bad}
    BY <1>1, <1>2, <1>3, <1>5, CallFits DEF AgentFit
  <2>2. /\ run' \in Seq(Calls) /\ DOMAIN run' = DOMAIN run /\ run'[n].pc = "appendingFailed"
        /\ \A m \in DOMAIN run \ {n} : run'[m] = run[m]
        /\ DepthFit'
    BY <1>5, GotoGives DEF AgentFit, Stage
  <2>3. good \notin Taken' \cup Waiting'
    BY <1>1, <1>2, <2>1 DEF Sent
  <2>4. ToldOf(n)'
    BY <2>2, <2>3 DEF ToldOf, good
  <2>5. ToldFit'
    BY <2>1, <2>2, <2>4, OthersTold DEF AgentFit, bad
  <2> QED
    BY <2>1, <2>2, <2>5 DEF AgentFit
<1>6. CASE Invocations!Goto(n, "threw") /\ pending' = pending
  <2>1. ChainFit' /\ Taken' = Taken /\ Waiting' = Waiting /\ Sent' = Sent
    BY <1>3, <1>6, ChainStays DEF AgentFit
  <2>2. /\ run' \in Seq(Calls) /\ DOMAIN run' = DOMAIN run /\ run'[n].pc = "threw"
        /\ \A m \in DOMAIN run \ {n} : run'[m] = run[m]
        /\ DepthFit'
    BY <1>6, GotoGives DEF AgentFit, Stage
  <2>3. good \notin Taken' \cup Waiting'
    BY <1>2, <2>1 DEF Sent
  <2>4. ToldOf(n)'
    BY <2>2, <2>3 DEF ToldOf, good
  <2>5. ToldFit'
    BY <2>1, <2>2, <2>4, OthersTold DEF AgentFit
  <2> QED
    BY <2>1, <2>2, <2>5 DEF AgentFit
<1> QED
  BY <1>3, <1>4, <1>5, <1>6

\* An append has settled, one way or the other.
LEMMA ReceiptFits ==
  ASSUME AgentFit, NEW n \in DOMAIN run, Invocations!Receipted(n),
         UNCHANGED <<chainFile, half, tail, line, signed, refused>>
  PROVE  AgentFit'
<1> DEFINE good == Invocations!Payload(n, "succeeded")
           bad  == Invocations!Payload(n, "failed")
<1>1. /\ good \in Payloads /\ bad \in Payloads /\ good # bad /\ n \in Nat \ {0}
  BY RunTyped, PayloadsOf DEF AgentFit
<1>2. ToldOf(n)
  BY DEF AgentFit, ToldFit
<1>3. \/ /\ run[n].pc = "appending" /\ Invocations!Settled(good) /\ good \notin refused
         /\ pending' = pending /\ Invocations!Goto(n, "returned")
      \/ /\ run[n].pc = "appending" /\ good \in refused /\ Invocations!CallAppend(bad)
         /\ Invocations!Goto(n, "appendingFailed")
      \/ /\ run[n].pc = "appendingFailed" /\ pending' = pending
         /\ Invocations!Goto(n, "threw")
  BY DEF Invocations!Receipted, Invocations!At
<1> HIDE DEF good, bad
<1>4. CASE /\ run[n].pc = "appending" /\ Invocations!Settled(good) /\ good \notin refused
           /\ pending' = pending /\ Invocations!Goto(n, "returned")
  <2>1. ChainFit' /\ Taken' = Taken /\ Waiting' = Waiting /\ Sent' = Sent
    BY <1>4, ChainStays DEF AgentFit
  <2>2. /\ run' \in Seq(Calls) /\ DOMAIN run' = DOMAIN run /\ run'[n].pc = "returned"
        /\ \A m \in DOMAIN run \ {n} : run'[m] = run[m]
        /\ DepthFit'
    BY <1>4, GotoGives DEF AgentFit, Stage
  <2>3. good \in Taken
    BY <1>2, <1>4 DEF Invocations!Settled, ToldOf, Sent, Waiting, Elements, good
  <2>4. ToldOf(n)'
    BY <1>2, <1>4, <2>1, <2>2, <2>3 DEF ToldOf, good
  <2>5. ToldFit'
    BY <2>1, <2>2, <2>4, OthersTold DEF AgentFit
  <2> QED
    BY <2>1, <2>2, <2>5 DEF AgentFit
<1>5. CASE /\ run[n].pc = "appending" /\ good \in refused /\ Invocations!CallAppend(bad)
           /\ Invocations!Goto(n, "appendingFailed")
  <2>1. bad \notin Sent
    BY <1>2, <1>5 DEF ToldOf, bad
  <2>2. ChainFit' /\ Taken' = Taken /\ Waiting' = Waiting \cup {bad} /\ Sent' = Sent \cup {bad}
    BY <1>1, <1>5, <2>1, CallFits DEF AgentFit
  <2>3. /\ run' \in Seq(Calls) /\ DOMAIN run' = DOMAIN run /\ run'[n].pc = "appendingFailed"
        /\ \A m \in DOMAIN run \ {n} : run'[m] = run[m]
        /\ DepthFit'
    BY <1>5, GotoGives DEF AgentFit, Stage
  <2>4. good \notin Taken' \cup Waiting'
    BY <1>1, <1>5, <2>2 DEF AgentFit, ChainFit, PlaceFit
  <2>5. ToldOf(n)'
    BY <2>3, <2>4 DEF ToldOf, good
  <2>6. ToldFit'
    BY <2>2, <2>3, <2>5, OthersTold DEF AgentFit, bad
  <2> QED
    BY <2>2, <2>3, <2>6 DEF AgentFit
<1>6. CASE /\ run[n].pc = "appendingFailed" /\ pending' = pending
           /\ Invocations!Goto(n, "threw")
  <2>1. ChainFit' /\ Taken' = Taken /\ Waiting' = Waiting /\ Sent' = Sent
    BY <1>6, ChainStays DEF AgentFit
  <2>2. /\ run' \in Seq(Calls) /\ DOMAIN run' = DOMAIN run /\ run'[n].pc = "threw"
        /\ \A m \in DOMAIN run \ {n} : run'[m] = run[m]
        /\ DepthFit'
    BY <1>6, GotoGives DEF AgentFit, Stage
  <2>3. ToldOf(n)'
    BY <1>2, <1>6, <2>1, <2>2 DEF ToldOf
  <2>4. ToldFit'
    BY <2>1, <2>2, <2>3, OthersTold DEF AgentFit
  <2> QED
    BY <2>1, <2>2, <2>4 DEF AgentFit
<1> QED
  BY <1>3, <1>4, <1>5, <1>6

\* An invocation begins with nothing sent; its depth is what its caller looked at.
LEMMA InvokeFits ==
  ASSUME AgentFit, NEW name \in Names, NEW parent \in Nat, NEW chain \in Seq(Names),
         Invocations!Invoke(name, parent, chain),
         Len(Append(chain, name)) <= MaxDepth, Apiece(Append(chain, name))
  PROVE  AgentFit'
<1> DEFINE new == [agent |-> name, parent |-> parent, chain |-> chain, pc |-> "asking"]
<1>0. PICK n : n = Len(run) + 1
  OBVIOUS
<1>1. /\ run' = Append(run, new)
      /\ UNCHANGED <<chainFile, half, tail, pending, line, signed, refused>>
  BY DEF Invocations!Invoke
<1>2. new \in Calls /\ new.pc = "asking" /\ new.agent = name /\ new.chain = chain
  BY DEF Calls, Stage
<1> HIDE DEF new
<1>3. run \in Seq(Calls)
  BY DEF AgentFit
<1>4. /\ run' \in Seq(Calls) /\ Len(run') = n /\ run'[n] = new
      /\ \A m \in 1..Len(run) : run'[m] = run[m]
  BY <1>0, <1>1, <1>2, <1>3, AppendProperties
<1>5. DOMAIN run = 1..Len(run) /\ DOMAIN run' = 1..n /\ Len(run) \in Nat
  BY <1>3, <1>4, LenProperties
<1>6. /\ n \in Nat \ {0} /\ n \notin DOMAIN run /\ DOMAIN run \subseteq DOMAIN run'
      /\ \A m \in DOMAIN run' : m \in DOMAIN run \/ m = n
  BY <1>0, <1>5
<1>7. ChainFit' /\ Taken' = Taken /\ Waiting' = Waiting /\ Sent' = Sent
  BY <1>1, ChainStays DEF AgentFit
<1>12. \A q \in Sent : q = Invocations!Seal \/ q.of \in DOMAIN run
  BY DEF AgentFit, ToldFit
<1>8. ToldOf(n)'
  <2>1. /\ Invocations!Payload(n, "succeeded") \notin Sent
        /\ Invocations!Payload(n, "failed") \notin Sent
    <3> DEFINE good == Invocations!Payload(n, "succeeded")
               bad  == Invocations!Payload(n, "failed")
    <3>1. /\ good.of = n /\ bad.of = n /\ good # Invocations!Seal /\ bad # Invocations!Seal
      BY <1>6, PayloadsOf
    <3> HIDE DEF good, bad
    <3>2. good \notin Sent /\ bad \notin Sent
      BY <1>6, <1>12, <3>1
    <3> QED
      BY <3>2 DEF good, bad
  <2> QED
    BY <1>2, <1>4, <1>7, <2>1 DEF ToldOf
<1>9. ASSUME NEW m \in DOMAIN run PROVE ToldOf(m)'
  <2>1. ToldOf(m) /\ run'[m] = run[m]
    BY <1>4, <1>5 DEF AgentFit, ToldFit
  <2> QED
    BY <1>7, <2>1 DEF ToldOf
<1>10. ToldFit'
  <2>1. \A q \in Sent' : q = Invocations!Seal \/ q.of \in DOMAIN run'
    BY <1>6, <1>7, <1>12
  <2> QED
    BY <1>6, <1>8, <1>9, <2>1 DEF ToldFit
<1>11. DepthFit'
  <2>1. ASSUME NEW m \in DOMAIN run'
        PROVE  LET above == Append(run'[m].chain, run'[m].agent)
               IN  Len(above) <= MaxDepth /\ Apiece(above)
    <3>1. CASE m = n
      BY <1>2, <1>4, <3>1
    <3>2. CASE m \in DOMAIN run
      <4>1. run'[m] = run[m]
        BY <1>4, <1>5, <3>2
      <4> QED
        BY <3>2, <4>1 DEF AgentFit, DepthFit, Above
    <3> QED
      BY <1>6, <3>1, <3>2
  <2> QED
    BY <2>1 DEF DepthFit, Above, Apiece
<1> QED
  BY <1>4, <1>7, <1>10, <1>11 DEF AgentFit

LEMMA StartFits ==
  ASSUME AgentFit, Invocations!StartStep PROVE AgentFit'
<1>1. PICK a \in Entrances : Invocations!Invoke(a, 0, <<>>)
  BY DEF Invocations!StartStep
<1>2. a \in Names /\ <<>> \in Seq(Names) /\ MaxDepth \in Nat \ {0}
  BY AgentsAssumption, EmptySeq
<1>3. Len(Append(<<>>, a)) = 1 /\ DOMAIN Append(<<>>, a) = 1..1
  BY <1>2, AppendProperties, EmptySeq, LenProperties
<1>4. Len(Append(<<>>, a)) <= MaxDepth /\ Apiece(Append(<<>>, a))
  BY <1>2, <1>3 DEF Apiece
<1> QED
  BY <1>1, <1>2, <1>4, InvokeFits

LEMMA SpawnFits ==
  ASSUME AgentFit, NEW n \in DOMAIN run, Invocations!Spawn(n) PROVE AgentFit'
<1>1. PICK a \in Names : Invocations!MaySpawn(n, a) /\ Invocations!Invoke(a, n, Above(n))
  BY DEF Invocations!Spawn, Above
<1>2. /\ n \in Nat /\ Above(n) \in Seq(Names) /\ Apiece(Above(n)) /\ MaxDepth \in Nat
  BY RunTyped, AppendProperties, AgentsAssumption DEF AgentFit, DepthFit, Above
<1>3. /\ \A k \in DOMAIN Above(n) : Above(n)[k] # a
      /\ Len(Above(n)) < MaxDepth
  BY <1>1 DEF Invocations!MaySpawn, Above
<1> DEFINE up == Above(n)
<1> HIDE DEF up
<1>4. up \in Seq(Names) /\ a \notin Elements(up) /\ Len(up) < MaxDepth /\ Apiece(up)
  BY <1>2, <1>3 DEF Elements, up
<1>5. Apiece(Append(up, a)) /\ Len(Append(up, a)) = Len(up) + 1 /\ Len(up) \in Nat
  BY <1>4, ElementsAppend, AppendProperties, LenProperties
<1>6. Len(Append(up, a)) <= MaxDepth
  BY <1>2, <1>4, <1>5
<1>7. Invocations!Invoke(a, n, up)
  BY <1>1 DEF up
<1> QED
  BY <1>2, <1>4, <1>5, <1>6, <1>7, InvokeFits

LEMMA SealFits ==
  ASSUME AgentFit, Invocations!SealRun PROVE AgentFit'
<1> DEFINE seal == Invocations!Seal
<1>1. /\ Invocations!CallAppend(seal) /\ UNCHANGED <<chainFile, half, tail, line, signed, refused>>
      /\ run' = run /\ seal \in Payloads /\ run \in Seq(Calls)
  BY DEF Invocations!SealRun, Payloads, Invocations!Seal, AgentFit
<1>2. seal \notin Sent
  <2>1. seal \notin Waiting /\ seal \notin refused /\ ~Invocations!Terminal(tail)
    BY DEF Invocations!SealRun, Invocations!IsSealed, Invocations!Sealing, Waiting, Elements
  <2>2. Before \in Seq(Signings) /\ (tail = Before \/ Before = <<>>)
    BY DEF AgentFit, ChainFit, ChainTyped, Before
  <2>3. ASSUME NEW i \in DOMAIN Before PROVE Before[i].payload # seal
    <3>1. DOMAIN Before = 1..Len(Before) /\ Len(Before) \in Nat /\ Before # <<>>
      BY <2>2, LenProperties, EmptySeq
    <3>2. i < Len(Before) => Before[i].payload # seal
      BY DEF AgentFit, ChainFit, TakenFit
    <3>3. i = Len(Before) => Before[i].payload # seal
      BY <2>1, <2>2, <3>1 DEF Invocations!Terminal
    <3> QED
      BY <3>1, <3>2, <3>3
  <2> QED
    BY <2>1, <2>3 DEF Sent, Taken
<1> HIDE DEF seal
<1>3. ChainFit' /\ Taken' = Taken /\ Waiting' = Waiting \cup {seal} /\ Sent' = Sent \cup {seal}
  BY <1>1, <1>2, CallFits DEF AgentFit
<1>4. ASSUME NEW n \in DOMAIN run PROVE ToldOf(n)'
  <2>1. /\ seal # Invocations!Payload(n, "succeeded") /\ seal # Invocations!Payload(n, "failed")
    <3>1. n \in Nat \ {0}
      BY <1>1, RunTyped
    <3> QED
      BY <3>1, PayloadsOf DEF seal
  <2>2. ToldOf(n)
    BY DEF AgentFit, ToldFit
  <2> QED
    BY <1>1, <1>3, <2>1, <2>2 DEF ToldOf
<1>5. ToldFit'
  BY <1>1, <1>3, <1>4 DEF AgentFit, ToldFit, seal
<1>6. DepthFit'
  <2>1. run' = run
    BY <1>1
  <2> QED
    BY <2>1, DepthStays DEF AgentFit
<1> QED
  BY <1>1, <1>3, <1>5, <1>6 DEF AgentFit

LEMMA AgentsGo == ASSUME AgentFit, Invocations!Next PROVE AgentFit'
<1>1. ASSUME NEW n \in 1..MaxInvocations,
             \/ Invocations!Spawn(n) \/ Invocations!ProviderEnds(n)
             \/ Invocations!EndSpan(n) \/ Invocations!EndSpanFailed(n)
             \/ Invocations!Receipted(n) /\ UNCHANGED <<chainFile, half, tail, line, signed, refused>>
      PROVE  AgentFit'
  <2>1. n \in DOMAIN run
    BY <1>1 DEF Invocations!Spawn, Invocations!ProviderEnds, Invocations!EndSpan,
       Invocations!EndSpanFailed, Invocations!Receipted, Invocations!At
  <2> QED
    BY <1>1, <2>1, SpawnFits, WorkFits, SpanFits, ReceiptFits
<1> QED
  BY <1>1, StartFits, SealFits, StoreFits DEF Invocations!Next

LEMMA AgentsRest == ASSUME AgentFit, UNCHANGED Invocations!vars PROVE AgentFit'
<1>1. /\ UNCHANGED <<chainFile, half, tail, pending, line, signed, refused>> /\ run' = run
  BY DEF Invocations!vars
<1>2. ChainFit' /\ Taken' = Taken /\ Waiting' = Waiting /\ Sent' = Sent
  BY <1>1, ChainStays DEF AgentFit
<1>3. ToldFit'
  <2>1. ASSUME NEW n \in DOMAIN run PROVE ToldOf(n)'
    <3>1. ToldOf(n)
      BY DEF AgentFit, ToldFit
    <3> QED
      BY <1>1, <1>2, <3>1 DEF ToldOf
  <2> QED
    BY <1>1, <1>2, <2>1 DEF AgentFit, ToldFit
<1>4. DepthFit'
  <2>1. run' = run
    BY <1>1
  <2> QED
    BY <2>1, DepthStays DEF AgentFit
<1> QED
  BY <1>1, <1>2, <1>3, <1>4 DEF AgentFit

-----------------------------------------------------------------------------
\* A chain of lines, each with the hash of the line before it.
Chained(s) ==
  \A k \in DOMAIN s : s[k].previous = IF k = 1 THEN <<>> ELSE Invocations!Hash(s[k - 1])

LEMMA HashBefore ==
  ASSUME NEW s \in Seq(Lines), NEW k \in DOMAIN s
  PROVE  Invocations!LastHash(SubSeq(s, 1, k - 1))
           = IF k = 1 THEN <<>> ELSE Invocations!Hash(s[k - 1])
<1> DEFINE t == SubSeq(s, 1, k - 1)
<1>1. k \in Nat \ {0} /\ k <= Len(s) /\ Len(s) \in Nat
  BY LenProperties
<1>2. CASE k = 1
  <2>1. t = <<>>
    BY <1>2, SubSeqEmpty
  <2> QED
    BY <1>2, <2>1 DEF Invocations!LastHash
<1>3. CASE k # 1
  <2>1. k - 1 \in Int /\ 1 <= k - 1 /\ \A i \in 1..(k - 1) : i \in 1..Len(s) /\ s[i] \in Lines
    BY <1>1, <1>3, ElementOfSeq
  <2>2. /\ t \in Seq(Lines) /\ Len(t) = IF 1 <= k - 1 THEN (k - 1) - 1 + 1 ELSE 0
        /\ \A i \in 1..((k - 1) - 1 + 1) : t[i] = s[1 + i - 1]
    BY <2>1, SubSeqProperties
  <2> HIDE DEF t
  <2>3. Len(t) = k - 1 /\ t[k - 1] = s[k - 1] /\ t # <<>>
    BY <1>1, <1>3, <2>1, <2>2, EmptySeq
  <2>4. Invocations!LastHash(t) = Invocations!Hash(s[k - 1])
    BY <2>3 DEF Invocations!LastHash
  <2> QED
    BY <1>3, <2>4 DEF t
<1> QED
  BY <1>2, <1>3

\* What the line before it says of the ones further up, a line says too.
LEMMA LinkSays ==
  ASSUME NEW s \in Seq(Lines), Chained(s), NEW k \in DOMAIN s, k # 1,
         Len(s[k - 1].previous) = k - 2,
         \A i \in 1..(k - 2) : s[k - 1].previous[i].payload = s[i].payload
  PROVE  /\ Len(s[k].previous) = k - 1
         /\ \A i \in 1..(k - 1) : s[k].previous[i].payload = s[i].payload
<1>1. k \in Nat \ {0} /\ k - 1 \in 1..Len(s) /\ s[k - 1] \in Lines
  BY LenProperties, ElementOfSeq
<1> DEFINE e == s[k - 1]
<1>2. s[k].previous = Invocations!Hash(e)
  BY DEF Chained
<1>3. e \in Lines /\ Len(e.previous) = k - 2 /\ e.payload = s[k - 1].payload
      /\ \A i \in 1..(k - 2) : e.previous[i].payload = s[i].payload
  BY <1>1
<1> HIDE DEF e
<1>4. /\ Len(Invocations!Hash(e)) = Len(e.previous) + 1
      /\ Invocations!Hash(e)[Len(e.previous) + 1].payload = e.payload
      /\ \A i \in 1..Len(e.previous) : Invocations!Hash(e)[i] = e.previous[i]
  BY <1>3, HashOfLine
<1>5. \A i \in 1..(k - 1) : i = k - 1 \/ i \in 1..(k - 2)
  BY <1>1
<1>6. Len(e.previous) + 1 = k - 1
  BY <1>1, <1>3
<1>7. \A i \in 1..(k - 1) : Invocations!Hash(e)[i].payload = s[i].payload
  BY <1>3, <1>4, <1>5, <1>6
<1> QED
  BY <1>2, <1>4, <1>6, <1>7

\* A line tells how many are before it, and what they say.
LEMMA ChainSays ==
  ASSUME NEW s \in Seq(Lines), Chained(s)
  PROVE  \A k \in DOMAIN s : /\ Len(s[k].previous) = k - 1
                             /\ \A i \in 1..(k - 1) : s[k].previous[i].payload = s[i].payload
<1> DEFINE Says(k) == /\ Len(s[k].previous) = k - 1
                      /\ \A i \in 1..(k - 1) : s[k].previous[i].payload = s[i].payload
           wrong == {k \in DOMAIN s : ~Says(k)}
<1>1. DOMAIN s = 1..Len(s) /\ Len(s) \in Nat
  BY LenProperties
<1>2. SUFFICES ASSUME wrong # {} PROVE FALSE
  OBVIOUS
<1>3. wrong \subseteq Nat
  BY <1>1
<1> HIDE DEF wrong
<1>4. \E k \in wrong : \A j \in wrong : ~(<<j, k>> \in OpToRel(<, Nat))
  BY <1>2, <1>3, WFMin, NatLessThanWellFounded, Zenon
<1>5. PICK k \in wrong : \A j \in wrong : ~(j < k)
  <2>1. PICK k \in wrong : \A j \in wrong : ~(<<j, k>> \in OpToRel(<, Nat))
    BY <1>4
  <2>2. \A j \in wrong : <<j, k>> \in Nat \X Nat
    BY <1>3, <2>1
  <2> QED
    BY <2>1, <2>2 DEF OpToRel
<1>6. k \in DOMAIN s /\ ~Says(k)
  BY <1>5 DEF wrong
<1>7. k # 1
  <2>1. ASSUME k = 1 PROVE Says(k)
    <3>1. s[k].previous = <<>>
      BY <1>6, <2>1 DEF Chained
    <3>2. Len(s[k].previous) = 0
      BY <3>1, EmptySeq
    <3> QED
      BY <2>1, <3>2
  <2> QED
    BY <1>6, <2>1
<1>8. k - 1 \in DOMAIN s /\ k - 1 < k /\ (k - 1) - 1 = k - 2
  BY <1>1, <1>6, <1>7
<1>9. Says(k - 1)
  BY <1>5, <1>8 DEF wrong
<1>10. Says(k)
  BY <1>6, <1>7, <1>8, <1>9, LinkSays
<1> QED
  BY <1>6, <1>10

\* Lines with links in order are the file, when both are signed and end with the seal.
LEMMA OneChain ==
  ASSUME NEW s \in Seq(Lines), NEW t \in Seq(Lines), Chained(s), Chained(t),
         s # <<>>, t # <<>>, s[Len(s)] = t[Len(t)],
         \A i \in DOMAIN s, j \in DOMAIN t : s[i].payload = t[j].payload => s[i] = t[j]
  PROVE  s = t
<1>1. /\ DOMAIN s = 1..Len(s) /\ DOMAIN t = 1..Len(t) /\ Len(s) \in Nat \ {0} /\ Len(t) \in Nat \ {0}
  BY LenProperties, EmptySeq
<1>2. PICK e : e = s[Len(s)] /\ e = t[Len(t)]
  OBVIOUS
<1>3. /\ Len(e.previous) = Len(s) - 1
      /\ \A i \in 1..(Len(s) - 1) : e.previous[i].payload = s[i].payload
  <2>1. Len(s) \in DOMAIN s
    BY <1>1
  <2>2. \A k \in DOMAIN s : /\ Len(s[k].previous) = k - 1
                           /\ \A i \in 1..(k - 1) : s[k].previous[i].payload = s[i].payload
    BY ChainSays
  <2>3. PICK k \in DOMAIN s : k = Len(s) /\ e = s[k]
    BY <1>2, <2>1
  <2>4. Len(e.previous) = k - 1 /\ \A i \in 1..(k - 1) : e.previous[i].payload = s[i].payload
    BY <2>2, <2>3
  <2> QED
    BY <2>3, <2>4
<1>4. /\ Len(e.previous) = Len(t) - 1
      /\ \A i \in 1..(Len(t) - 1) : e.previous[i].payload = t[i].payload
  <2>1. Len(t) \in DOMAIN t
    BY <1>1
  <2>2. \A k \in DOMAIN t : /\ Len(t[k].previous) = k - 1
                           /\ \A i \in 1..(k - 1) : t[k].previous[i].payload = t[i].payload
    BY ChainSays
  <2>3. PICK k \in DOMAIN t : k = Len(t) /\ e = t[k]
    BY <1>2, <2>1
  <2>4. Len(e.previous) = k - 1 /\ \A i \in 1..(k - 1) : e.previous[i].payload = t[i].payload
    BY <2>2, <2>3
  <2> QED
    BY <2>3, <2>4
<1>5. Len(s) = Len(t)
  <2>1. PICK m \in Nat, n \in Nat : m = Len(s) /\ n = Len(t)
    BY <1>1
  <2>2. m - 1 = n - 1
    BY <1>3, <1>4, <2>1
  <2>3. m = n
    BY <2>2
  <2> QED
    BY <2>1, <2>3
<1>6. ASSUME NEW i \in 1..Len(s) PROVE s[i] = t[i]
  <2>1. CASE i = Len(s)
    BY <1>5, <2>1
  <2>2. CASE i # Len(s)
    <3>1. i \in 1..(Len(s) - 1) /\ i \in DOMAIN s /\ i \in DOMAIN t
      <4>1. PICK m \in Nat : m = Len(s)
        BY <1>1
      <4>2. i \in 1..(m - 1)
        BY <2>2, <4>1
      <4> QED
        BY <1>1, <1>5, <4>1, <4>2
    <3>2. s[i].payload = t[i].payload
      BY <1>3, <1>4, <1>5, <3>1
    <3> QED
      BY <3>1, <3>2
  <2> QED
    BY <2>1, <2>2
<1> QED
  BY <1>5, <1>6, SeqEqual

\* What a reader finds is the file, when every line of it parses.
LEMMA WholeFile ==
  ASSUME ChainFit, Invocations!Whole
  PROVE  /\ ~half /\ Invocations!Found = chainFile /\ Sound /\ chainFile \in Seq(Lines)
<1>1. chainFile \in Seq(Written) /\ half \in BOOLEAN
  BY DEF ChainFit, ChainTyped
<1>2. /\ DOMAIN Append(chainFile, Invocations!NoLine) = 1..(Len(chainFile) + 1)
      /\ Append(chainFile, Invocations!NoLine)[Len(chainFile) + 1] = Invocations!NoLine
      /\ Len(chainFile) \in Nat
  BY <1>1, FileGrows DEF Written
<1>3. ~half
  <2>1. ASSUME half PROVE FALSE
    <3>1. Invocations!Found = Append(chainFile, Invocations!NoLine)
      BY <2>1 DEF Invocations!Found
    <3>2. Len(chainFile) + 1 \in DOMAIN Invocations!Found
      BY <1>2, <3>1
    <3> QED
      BY <1>2, <3>1, <3>2 DEF Invocations!Whole
  <2> QED
    BY <2>1
<1>4. Invocations!Found = chainFile
  BY <1>3 DEF Invocations!Found
<1>5. Sound
  BY <1>4 DEF Invocations!Whole, Sound
<1>6. chainFile \in [1..Len(chainFile) -> Written] /\ Len(chainFile) \in Nat
  BY <1>1, LenProperties
<1>7. \A k \in 1..Len(chainFile) : chainFile[k] \in Lines
  BY <1>5, <1>6 DEF Sound, Written
<1>8. chainFile \in [1..Len(chainFile) -> Lines]
  BY <1>6, <1>7
<1>9. chainFile \in Seq(Lines)
  BY <1>6, <1>8, SeqDef
<1> QED
  BY <1>3, <1>4, <1>5, <1>9

\* Such a file is such a chain, and so is all that verifies.
LEMMA FileChained == ASSUME ChainFit, Sound PROVE Chained(chainFile)
BY DEF ChainFit, LinkFit, Chained

LEMMA VerifiedChained ==
  ASSUME NEW s \in Seq(Lines), NEW sealed, Invocations!Verifies(s, sealed)
  PROVE  Chained(s)
BY HashBefore DEF Invocations!Verifies, Chained

\* Where a chain ends with the seal, so says its last line.
LEMMA SealedLast ==
  ASSUME NEW s \in Seq(Lines), Invocations!Terminal(Invocations!LastHash(s))
  PROVE  s # <<>> /\ Len(s) \in DOMAIN s /\ s[Len(s)].payload = Invocations!Seal
<1>1. s # <<>>
  BY DEF Invocations!Terminal, Invocations!LastHash
<1>2. Len(s) \in DOMAIN s /\ s[Len(s)] \in Lines
  BY <1>1, EmptySeq, LenProperties, ElementOfSeq
<1>3. Invocations!LastHash(s) = Invocations!Hash(s[Len(s)])
  BY <1>1 DEF Invocations!LastHash
<1> QED
  BY <1>1, <1>2, <1>3, HashOfLine

LEMMA Tampering == ASSUME ChainFit PROVE Invocations!TamperingShows
<1> SUFFICES ASSUME Invocations!Whole, Invocations!Terminal(Invocations!LastHash(chainFile)),
                    NEW s \in Invocations!Rewritten, Invocations!Verifies(s, TRUE)
             PROVE  s = chainFile
  BY DEF Invocations!TamperingShows
<1>1. chainFile \in Seq(Lines) /\ signed \subseteq Lines /\ Sound
  BY WholeFile DEF ChainFit, ChainTyped
<1>2. s \in Seq(Lines) /\ \A i \in DOMAIN s : s[i] \in signed
  <2>1. PICK k \in 1..Len(chainFile) : s \in [1..k -> signed]
    BY DEF Invocations!Rewritten
  <2>2. k \in Nat /\ s \in [1..k -> Lines]
    BY <1>1, <2>1, LenProperties
  <2> QED
    BY <2>1, <2>2, SeqDef
<1>3. Chained(s) /\ Chained(chainFile)
  BY <1>1, <1>2, FileChained, VerifiedChained
<1>4. Invocations!Terminal(Invocations!LastHash(s))
  BY DEF Invocations!Verifies
<1>5. /\ s # <<>> /\ Len(s) \in DOMAIN s /\ s[Len(s)].payload = Invocations!Seal
      /\ chainFile # <<>> /\ Len(chainFile) \in DOMAIN chainFile
      /\ chainFile[Len(chainFile)].payload = Invocations!Seal
  BY <1>1, <1>2, <1>4, SealedLast
<1>6. \A i \in DOMAIN s, j \in DOMAIN chainFile :
        s[i].payload = chainFile[j].payload => s[i] = chainFile[j]
  BY <1>1, <1>2 DEF ChainFit, LinkFit, SignedFit
<1>7. s[Len(s)] = chainFile[Len(chainFile)]
  BY <1>5, <1>6
<1> QED
  BY <1>1, <1>2, <1>3, <1>5, <1>6, <1>7, OneChain

\* A reader finds the file valid when no line is spoiled and the key was trusted throughout.
LEMMA Valid ==
  ASSUME ChainFit
  PROVE  Invocations!Verifies(Invocations!Found, FALSE) <=>
           /\ chainFile # <<>> /\ Invocations!Whole
           /\ \A k \in DOMAIN chainFile : chainFile[k].at \in Window
<1>1. ASSUME Invocations!Verifies(Invocations!Found, FALSE)
      PROVE  /\ chainFile # <<>> /\ Invocations!Whole
             /\ \A k \in DOMAIN chainFile : chainFile[k].at \in Window
  <2>1. /\ Invocations!Found # <<>>
        /\ \A k \in DOMAIN Invocations!Found :
             Invocations!Found[k] \in signed /\ Invocations!Found[k].at \in Window
    BY <1>1 DEF Invocations!Verifies, Invocations!Genuine
  <2>2. Invocations!Whole
    BY <2>1, NoLineApart DEF Invocations!Whole, ChainFit, ChainTyped
  <2>3. Invocations!Found = chainFile
    BY <2>2, WholeFile
  <2> QED
    BY <2>1, <2>2, <2>3
<1>2. ASSUME chainFile # <<>>, Invocations!Whole,
             \A k \in DOMAIN chainFile : chainFile[k].at \in Window
      PROVE  Invocations!Verifies(Invocations!Found, FALSE)
  <2>1. /\ Invocations!Found = chainFile /\ Sound /\ chainFile \in Seq(Lines)
    BY <1>2, WholeFile
  <2>2. ASSUME NEW k \in DOMAIN chainFile
        PROVE  /\ Invocations!Genuine(chainFile[k])
               /\ chainFile[k].previous = Invocations!LastHash(SubSeq(chainFile, 1, k - 1))
               /\ k < Len(chainFile) => ~Invocations!Terminal(Invocations!Hash(chainFile[k]))
    <3>1. chainFile[k] \in signed /\ chainFile[k] \in Lines
      BY <2>1 DEF ChainFit, LinkFit, ChainTyped
    <3>2. Invocations!Genuine(chainFile[k])
      BY <1>2, <3>1 DEF Invocations!Genuine
    <3>3. chainFile[k].previous = Invocations!LastHash(SubSeq(chainFile, 1, k - 1))
      BY <2>1, HashBefore DEF ChainFit, LinkFit
    <3>4. k < Len(chainFile) => ~Invocations!Terminal(Invocations!Hash(chainFile[k]))
      BY <2>1, <3>1, HashOfLine DEF ChainFit, LinkFit
    <3> QED
      BY <3>2, <3>3, <3>4
  <2>3. Invocations!Verifies(chainFile, FALSE)
    BY <1>2, <2>2 DEF Invocations!Verifies
  <2> QED
    BY <2>1, <2>3
<1> QED
  BY <1>1, <1>2

LEMMA Told == ASSUME AgentFit PROVE Invocations!ToldAsRecorded
<1>1. \A p : Invocations!Kept(p) <=> p \in OnFile
  BY DEF Invocations!Kept, OnFile
<1>2. ASSUME NEW p \in Payloads, p \in OnFile PROVE p \in Taken
  <2>1. p # Invocations!NoPayload
    BY DEF Payloads, Invocations!NoPayload
  <2> QED
    BY <1>2, <2>1 DEF OnFile, AgentFit, ChainFit, TakenFit, Invocations!NoLine
<1>3. Invocations!Whole => Taken \subseteq OnFile
  BY WholeFile DEF AgentFit, ChainFit, LinkFit
<1>4. ASSUME NEW n \in DOMAIN run
      PROVE  /\ run[n].pc = "returned" =>
                  Invocations!Kept(Invocations!Payload(n, "succeeded")) \/ ~Invocations!Whole
             /\ run[n].pc = "threw" => ~Invocations!Kept(Invocations!Payload(n, "succeeded"))
             /\ ~(/\ Invocations!Kept(Invocations!Payload(n, "succeeded"))
                  /\ Invocations!Kept(Invocations!Payload(n, "failed")))
  <2> DEFINE good == Invocations!Payload(n, "succeeded")
             bad  == Invocations!Payload(n, "failed")
  <2>1. /\ run[n].pc = "returned" => good \in Taken /\ bad \notin Taken
        /\ run[n].pc # "returned" => good \notin Taken \/ bad \notin Taken
        /\ run[n].pc = "threw" => good \notin Taken
    <3>1. ToldOf(n)
      BY DEF AgentFit, ToldFit
    <3>2. run[n].pc \in Stage
      BY RunTyped DEF AgentFit
    <3> QED
      BY <3>1, <3>2 DEF ToldOf, Sent, Stage
  <2>2. good \in Payloads /\ bad \in Payloads
    BY RunTyped, PayloadsOf DEF AgentFit
  <2> HIDE DEF good, bad
  <2>3. /\ run[n].pc = "returned" => Invocations!Kept(good) \/ ~Invocations!Whole
        /\ run[n].pc = "threw" => ~Invocations!Kept(good)
        /\ ~(Invocations!Kept(good) /\ Invocations!Kept(bad))
    BY <1>1, <1>2, <1>3, <2>1, <2>2
  <2> QED
    BY <2>3 DEF good, bad
<1> QED
  BY <1>4, Valid DEF Invocations!ToldAsRecorded, AgentFit

LEMMA NoneBelowItself == ASSUME AgentFit PROVE Invocations!NoAgentBelowItself
<1>1. ASSUME NEW n \in DOMAIN run
      PROVE  /\ Len(Above(n)) <= MaxDepth
             /\ \A j, k \in DOMAIN Above(n) : Above(n)[j] = Above(n)[k] => j = k
  BY DEF AgentFit, DepthFit, Apiece
<1> QED
  BY <1>1 DEF Invocations!NoAgentBelowItself, Above

-----------------------------------------------------------------------------
\* The promises of a project run, and what holds of agents that work at the same time.
Recorded == (part = "project" => Fit) /\ AgentFit

\* A receipt tells what happened in every behaviour of the composition, whichever of process,
\* provider, telemetry and file fails, however late an attempt appends and whatever the clock
\* shows: a run that has begun leaves it sealed, it is complete when it says so, what the caller of
\* an agent was told is on record unless a line was spoiled, it is valid when no line was and the
\* key was trusted throughout, another order of what was signed does not verify, and no agent
\* works below itself (project-runner.js, harness.js, receipt-store.js).
THEOREM ReceiptsAlwaysTell == RunsSpec => []ReceiptsTell
<1>1. RunsInit => Recorded
  BY InitFits, AgentsStart DEF RunsInit, Recorded
<1>2. Recorded /\ [RunsNext]_runsVars => Recorded'
  <2> SUFFICES ASSUME Recorded, [RunsNext]_runsVars PROVE Recorded'
    OBVIOUS
  <2>1. AgentFit'
    <3>1. [Invocations!Next]_(Invocations!vars)
      BY DEF RunsNext, ProjectStep, ContendingStep, TriggerStep, InvocationsStep, KindsStep,
         SpansStep, runsVars, agentsVars, Invocations!vars
    <3> QED
      BY <3>1, AgentsGo, AgentsRest DEF Recorded
  <2>2. part' = part /\ (part = "project" => [Next]_vars)
    BY DEF RunsNext, ProjectStep, ContendingStep, TriggerStep, InvocationsStep, KindsStep,
       SpansStep, runsVars, projectVars, vars, lockVars, runVars, histories
  <2> QED
    BY <2>1, <2>2, NextFits DEF Recorded
<1>3. Recorded => ReceiptsTell
  <2>1. Fit => SealsItsReceipt /\ SuccessIsComplete
    BY DEF Fit, StageFit, StageOf, SealsItsReceipt, Begun, StepFit, StepOf, SuccessIsComplete
  <2>2. AgentFit => ChainFit
    BY DEF AgentFit
  <2> QED
    BY <2>1, <2>2, Told, Tampering, NoneBelowItself DEF Recorded, ReceiptsTell
<1> QED
  BY <1>1, <1>2, <1>3, PTL DEF RunsSpec
-----------------------------------------------------------------------------
(* The kinds of steps.                                                     *)

Verdicts == Seq([name : Commands \cup ProjectAgents, ok : BOOLEAN])
Climbs == [tier : Int, status : {"failed", "error", "passed"}, verify : Verdicts]

FileFit ==
  /\ kindFile \in WorkflowFiles /\ \E i \in DOMAIN kindFile : step = kindFile[i]
  /\ made = "page" /\ step.type = "ladder" => step.verify # <<>>

\* Where the step is fits its kind, and it has no outcome before it is done.
PointFit ==
  /\ kindPc \in {"triage", "baseline", "attempt", "verify"} => step.type = "ladder"
  /\ kindPc \in {"quorum", "gate", "agent", "check"} => step.type = kindPc
  /\ kindPc # "done" => outcome = "none"

\* What the current attempt was approved by is a beginning of the list it has to pass, and all
\* of it when the step passed.
VerdictsFit ==
  /\ tried \in Seq(Climbs)
  /\ kindPc = "verify" \/ (step.type = "ladder" /\ outcome = "passed") =>
       /\ tried # <<>>
       /\ Len(Kinds!Current.verify) <= Len(Kinds!Verifiers)
       /\ \A i \in 1..Len(Kinds!Current.verify) :
            Kinds!Current.verify[i].ok /\ Kinds!Current.verify[i].name = Kinds!Verifiers[i]
       /\ outcome = "passed" => Len(Kinds!Current.verify) = Len(Kinds!Verifiers)

VotesFit ==
  step.type = "quorum" =>
    /\ votes \in [DOMAIN step.agents -> {"asked", "approve", "reject", "abstain"}]
    /\ outcome = "passed" => Kinds!Satisfied /\ \A i \in DOMAIN votes : votes[i] # "asked"

KindFit == FileFit /\ PointFit /\ VerdictsFit /\ VotesFit

LEMMA StepShape ==
  ASSUME FileFit
  PROVE  /\ step.type \in {"ladder", "quorum", "gate", "agent", "check"}
         /\ step.type = "ladder" => /\ step.verify \in Seq(Commands \cup ProjectAgents)
                                    /\ step.verifyLight \in Seq(Commands \cup ProjectAgents)
                                    /\ step.tiers \in Nat
         /\ step.type = "quorum" => step.agents \in Seq(ProjectAgents) /\ step.required \in Int
BY WorkflowAssumption DEF FileFit

LEMMA VerifiersTyped ==
  ASSUME FileFit, step.type = "ladder" PROVE Kinds!Verifiers \in Seq(Commands \cup ProjectAgents)
BY StepShape DEF Kinds!Verifiers

LEMMA TierTyped == ASSUME FileFit, step.type = "ladder" PROVE Kinds!StartTier \in Int
<1>1. step.tiers \in Nat /\ step.tiers \div 2 \in Int /\ step.tiers - 1 \in Int
  BY StepShape
<1> QED
  BY <1>1 DEF Kinds!StartTier

LEMMA EntryTyped ==
  ASSUME FileFit, step.type = "ladder", tried \in Seq(Climbs), NEW how \in {"failed", "error"}
  PROVE  Kinds!Entry(how, <<>>) \in Climbs
<1>1. Kinds!StartTier + Kinds!Attempt \in Int
  BY TierTyped DEF Kinds!Attempt
<1>2. <<>> \in Verdicts
  BY DEF Verdicts
<1> QED
  BY <1>1, <1>2 DEF Kinds!Entry, Climbs

\* What is noted is noted last in the current attempt.
LEMMA NotedLast ==
  ASSUME tried \in Seq(Climbs), tried # <<>>, NEW v \in Commands \cup ProjectAgents, NEW ok \in BOOLEAN
  PROVE  /\ Kinds!Noted(v, ok) \in Seq(Climbs) /\ Kinds!Noted(v, ok) # <<>>
         /\ Len(Kinds!Noted(v, ok)) = Len(tried)
         /\ Kinds!Noted(v, ok)[Len(tried)].verify = Append(Kinds!Current.verify, [name |-> v, ok |-> ok])
         /\ Kinds!Current.verify \in Verdicts
<1> DEFINE n == Len(tried)
           e == [tried[n] EXCEPT !.verify = Append(@, [name |-> v, ok |-> ok])]
<1>1. n \in DOMAIN tried /\ tried[n] \in Climbs
  OBVIOUS
<1>2. tried[n].verify \in Verdicts /\ Append(tried[n].verify, [name |-> v, ok |-> ok]) \in Verdicts
  <2>1. tried[n].verify \in Verdicts
    BY <1>1 DEF Climbs
  <2>2. [name |-> v, ok |-> ok] \in [name : Commands \cup ProjectAgents, ok : BOOLEAN]
    OBVIOUS
  <2> QED
    BY <2>1, <2>2 DEF Verdicts
<1>3. e \in Climbs /\ e.verify = Append(tried[n].verify, [name |-> v, ok |-> ok])
  BY <1>1, <1>2 DEF Climbs
<1>4. Kinds!Noted(v, ok) = [tried EXCEPT ![n] = e]
  BY DEF Kinds!Noted, Kinds!Attempt
<1> HIDE DEF e, n
<1>5. [tried EXCEPT ![n] = e] \in Seq(Climbs) /\ Len([tried EXCEPT ![n] = e]) = Len(tried)
      /\ [tried EXCEPT ![n] = e][n] = e
  BY <1>1, <1>3
<1> QED
  BY <1>2, <1>3, <1>4, <1>5 DEF Kinds!Current, Kinds!Attempt, n

LEMMA ClimbingFits ==
  ASSUME KindFit, Kinds!Classify \/ Kinds!Baseline \/ Kinds!Climb PROVE KindFit'
<1>1. /\ kindPc \in {"triage", "baseline", "attempt"} /\ step.type = "ladder"
      /\ kindFile' = kindFile /\ step' = step /\ made' = made /\ votes' = votes
  BY DEF KindFit, PointFit, Kinds!Classify, Kinds!Baseline, Kinds!Climb
<1>2. \/ /\ tried' = tried
         /\ \/ kindPc' \in {"baseline", "attempt"} /\ outcome' = outcome
            \/ kindPc' = "done" /\ outcome' \in {"failed", "environment", "exhausted", "stopped"}
      \/ \E how \in {"failed", "error"} :
           /\ tried' = Append(tried, Kinds!Entry(how, <<>>))
           /\ kindPc' \in {"verify", "attempt"} /\ outcome' = outcome /\ triage' = triage
  BY DEF Kinds!Classify, Kinds!Baseline, Kinds!Climb, Kinds!EndStep
<1>3. FileFit' /\ PointFit' /\ VotesFit'
  BY <1>1, <1>2 DEF KindFit, FileFit, PointFit, VotesFit
<1>4. VerdictsFit'
  <2>1. CASE tried' = tried /\ kindPc' # "verify" /\ outcome' # "passed"
    BY <2>1 DEF KindFit, VerdictsFit
  <2>2. ASSUME NEW how \in {"failed", "error"}, tried' = Append(tried, Kinds!Entry(how, <<>>)),
               outcome' = outcome, step' = step, triage' = triage
        PROVE  VerdictsFit'
    <3>1. Kinds!Entry(how, <<>>) \in Climbs /\ Kinds!Entry(how, <<>>).verify = <<>>
      BY <1>1, EntryTyped DEF KindFit, VerdictsFit, Kinds!Entry
    <3>2. tried' \in Seq(Climbs) /\ Len(tried') = Len(tried) + 1
          /\ tried'[Len(tried) + 1] = Kinds!Entry(how, <<>>)
      BY <2>2, <3>1 DEF KindFit, VerdictsFit
    <3>3. Kinds!Current'.verify = <<>> /\ tried' # <<>>
      BY <3>1, <3>2 DEF Kinds!Current, Kinds!Attempt
    <3>4. Kinds!Verifiers' \in Seq(Commands \cup ProjectAgents)
      BY <1>1, <2>2, VerifiersTyped DEF KindFit, Kinds!Verifiers, Kinds!Route
    <3>5. outcome' # "passed"
      BY <1>1, <2>2 DEF KindFit, PointFit
    <3> QED
      BY <3>2, <3>3, <3>4, <3>5 DEF VerdictsFit
  <2>3. outcome # "passed"
    BY <1>1 DEF KindFit, PointFit
  <2> QED
    BY <1>1, <1>2, <2>1, <2>2, <2>3
<1> QED
  BY <1>3, <1>4 DEF KindFit

LEMMA VerifyingFits == ASSUME KindFit, Kinds!Verify PROVE KindFit'
<1> DEFINE v == Kinds!Verifiers[Kinds!Turn]
<1>1. /\ kindPc = "verify" /\ step.type = "ladder" /\ outcome = "none"
      /\ Kinds!Turn <= Len(Kinds!Verifiers)
      /\ kindFile' = kindFile /\ step' = step /\ made' = made /\ votes' = votes /\ triage' = triage
  BY DEF KindFit, PointFit, Kinds!Verify
<1>2. \/ tried' = Kinds!Noted(v, TRUE) /\ kindPc' = kindPc /\ outcome' = outcome
      \/ /\ tried' = Kinds!Noted(v, FALSE) \/ tried' = tried
         /\ kindPc' \in {"done", "attempt"} /\ outcome' \in {"none", "stuck", "failed"}
         /\ kindPc' # "done" => outcome' = "none"
  BY <1>1 DEF Kinds!Verify, Kinds!Fails, Kinds!EndStep
<1>3. FileFit' /\ PointFit' /\ VotesFit'
  BY <1>1, <1>2 DEF KindFit, FileFit, PointFit, VotesFit
<1>4. tried \in Seq(Climbs) /\ tried # <<>> /\ Kinds!Verifiers \in Seq(Commands \cup ProjectAgents)
      /\ Kinds!Verifiers' = Kinds!Verifiers
  BY <1>1, VerifiersTyped DEF KindFit, VerdictsFit, Kinds!Verifiers, Kinds!Route
<1>5. Kinds!Current.verify \in Verdicts
  <2>1. tried[Len(tried)] \in Climbs
    BY <1>4
  <2> QED
    BY <2>1 DEF Climbs, Kinds!Current, Kinds!Attempt
<1>6. Kinds!Turn = Len(Kinds!Current.verify) + 1 /\ Kinds!Turn \in 1..Len(Kinds!Verifiers)
      /\ v \in Commands \cup ProjectAgents
  BY <1>1, <1>4, <1>5 DEF Kinds!Turn, Verdicts
<1> HIDE DEF v
<1>7. VerdictsFit'
  <2>1. CASE tried' = Kinds!Noted(v, TRUE) /\ kindPc' = kindPc /\ outcome' = outcome
    <3>1. /\ tried' \in Seq(Climbs) /\ tried' # <<>> /\ Len(tried') = Len(tried)
          /\ tried'[Len(tried)].verify = Append(Kinds!Current.verify, [name |-> v, ok |-> TRUE])
      BY <1>4, <1>6, <2>1, NotedLast
    <3>2. Kinds!Current'.verify = Append(Kinds!Current.verify, [name |-> v, ok |-> TRUE])
      BY <3>1 DEF Kinds!Current, Kinds!Attempt
    <3>3. Len(Kinds!Current'.verify) = Kinds!Turn
          /\ \A i \in 1..Kinds!Turn : Kinds!Current'.verify[i] =
               IF i = Kinds!Turn THEN [name |-> v, ok |-> TRUE] ELSE Kinds!Current.verify[i]
      BY <1>5, <1>6, <3>2 DEF Verdicts
    <3>4. \A i \in 1..Len(Kinds!Current.verify) :
            Kinds!Current.verify[i].ok /\ Kinds!Current.verify[i].name = Kinds!Verifiers[i]
      BY <1>1 DEF KindFit, VerdictsFit
    <3>5. \A i \in 1..Kinds!Turn :
            Kinds!Current'.verify[i].ok /\ Kinds!Current'.verify[i].name = Kinds!Verifiers[i]
      BY <1>5, <1>6, <3>3, <3>4 DEF v, Verdicts
    <3> QED
      BY <1>1, <1>4, <1>6, <2>1, <3>1, <3>3, <3>5 DEF VerdictsFit
  <2>2. CASE /\ tried' = Kinds!Noted(v, FALSE) \/ tried' = tried
             /\ kindPc' # "verify" /\ outcome' # "passed"
    <3>1. tried' \in Seq(Climbs)
      BY <1>4, <1>6, <2>2, NotedLast
    <3> QED
      BY <2>2, <3>1 DEF VerdictsFit
  <2> QED
    BY <1>2, <2>1, <2>2
<1> QED
  BY <1>3, <1>7 DEF KindFit
LEMMA PassingFits == ASSUME KindFit, Kinds!Pass PROVE KindFit'
<1> DEFINE n == Len(tried)
<1>1. /\ kindPc = "verify" /\ step.type = "ladder" /\ outcome = "none" /\ outcome' = "passed"
      /\ Kinds!Turn > Len(Kinds!Verifiers) /\ kindPc' = "done"
      /\ tried' = [tried EXCEPT ![n].status = "passed"]
      /\ kindFile' = kindFile /\ step' = step /\ made' = made /\ votes' = votes /\ triage' = triage
  BY DEF KindFit, PointFit, Kinds!Pass, Kinds!EndStep, Kinds!Attempt
<1>2. FileFit' /\ PointFit' /\ VotesFit'
  BY <1>1 DEF KindFit, FileFit, PointFit, VotesFit
<1>3. /\ tried \in Seq(Climbs) /\ tried # <<>> /\ n \in DOMAIN tried /\ tried[n] \in Climbs
      /\ Kinds!Verifiers \in Seq(Commands \cup ProjectAgents) /\ Kinds!Verifiers' = Kinds!Verifiers
  BY <1>1, VerifiersTyped DEF KindFit, VerdictsFit, Kinds!Verifiers, Kinds!Route
<1>4. [tried[n] EXCEPT !.status = "passed"] \in Climbs
      /\ [tried[n] EXCEPT !.status = "passed"].verify = tried[n].verify
  BY <1>3 DEF Climbs
<1> HIDE DEF n
<1>5. tried' \in Seq(Climbs) /\ Len(tried') = n /\ tried'[n].verify = tried[n].verify
  <2> DEFINE e == [tried[n] EXCEPT !.status = "passed"]
  <2>1. tried' = [tried EXCEPT ![n] = e]
    BY <1>1
  <2>2. n = Len(tried) /\ e \in Climbs /\ e.verify = tried[n].verify
    BY <1>4 DEF n
  <2> HIDE DEF e
  <2> QED
    BY <1>3, <2>1, <2>2
<1>6. Kinds!Current'.verify = Kinds!Current.verify
  BY <1>5 DEF Kinds!Current, Kinds!Attempt, n
<1>7. tried' # <<>>
  BY <1>3, <1>5
<1>8. Len(Kinds!Current.verify) \in Nat
  BY <1>3 DEF Kinds!Current, Kinds!Attempt, n, Climbs, Verdicts
<1>9. VerdictsFit'
  BY <1>1, <1>3, <1>5, <1>6, <1>7, <1>8 DEF KindFit, VerdictsFit, Kinds!Turn
<1> QED
  BY <1>2, <1>9 DEF KindFit

LEMMA QuorumFits == ASSUME KindFit, Kinds!Review \/ Kinds!Tally PROVE KindFit'
<1>1. /\ kindPc = "quorum" /\ step.type = "quorum" /\ outcome = "none"
      /\ kindFile' = kindFile /\ step' = step /\ made' = made /\ triage' = triage /\ tried' = tried
      /\ \/ kindPc' = "quorum" /\ outcome' = outcome
         \/ kindPc' = "done" /\ outcome' \in {"failed", "passed"}
  BY DEF KindFit, PointFit, Kinds!Review, Kinds!Tally, Kinds!EndStep
<1>2. FileFit' /\ PointFit'
  BY <1>1 DEF KindFit, FileFit, PointFit
<1>3. VerdictsFit'
  BY <1>1 DEF KindFit, VerdictsFit
<1>4. VotesFit'
  <2>1. CASE Kinds!Review
    <3>1. PICK i \in DOMAIN votes :
            \/ /\ \E v \in {"approve", "reject", "abstain"} : votes' = [votes EXCEPT ![i] = v]
               /\ outcome' = outcome
            \/ votes' = votes /\ outcome' = "failed"
      BY <2>1 DEF Kinds!Review, Kinds!EndStep
    <3> QED
      BY <1>1, <3>1 DEF KindFit, VotesFit
  <2>2. CASE Kinds!Tally
    <3>1. /\ votes' = votes /\ \A i \in DOMAIN votes : votes[i] # "asked"
          /\ outcome' = "passed" => Kinds!Satisfied
      BY <2>2 DEF Kinds!Tally, Kinds!EndStep
    <3>2. Kinds!Satisfied' = Kinds!Satisfied
      BY <1>1, <3>1 DEF Kinds!Satisfied, Kinds!Counted, Kinds!Approvals, Kinds!Threshold
    <3> QED
      BY <1>1, <3>1, <3>2 DEF KindFit, VotesFit
  <2> QED
    BY <2>1, <2>2
<1> QED
  BY <1>2, <1>3, <1>4 DEF KindFit

\* The other kinds have one step each, and a stop only shows in what comes after.
LEMMA OthersFit ==
  ASSUME KindFit, Kinds!AskQuestion \/ Kinds!DecideGate \/ Kinds!RunAgent \/ Kinds!RunCheck \/ Kinds!Abort
                  \/ UNCHANGED Kinds!vars
  PROVE  KindFit'
<1>1. /\ kindFile' = kindFile /\ step' = step /\ made' = made /\ triage' = triage /\ tried' = tried
      /\ votes' = votes
      /\ \/ kindPc' = kindPc /\ outcome' = outcome
         \/ kindPc \in {"gate", "agent", "check"} /\ kindPc' = "done" /\ outcome' \in {"passed", "failed"}
  BY DEF Kinds!AskQuestion, Kinds!DecideGate, Kinds!RunAgent, Kinds!RunCheck, Kinds!Abort, Kinds!vars,
     Kinds!EndStep
<1>2. kindPc' # kindPc => step.type = kindPc
  BY <1>1 DEF KindFit, PointFit
<1>3. FileFit' /\ PointFit'
  BY <1>1 DEF KindFit, FileFit, PointFit
<1>4. VerdictsFit'
  BY <1>1, <1>2 DEF KindFit, VerdictsFit, Kinds!Verifiers, Kinds!Route, Kinds!Current, Kinds!Attempt
<1>5. VotesFit'
  BY <1>1, <1>2 DEF KindFit, VotesFit, Kinds!Satisfied, Kinds!Counted, Kinds!Approvals, Kinds!Threshold
<1> QED
  BY <1>3, <1>4, <1>5 DEF KindFit
LEMMA StepsCardinality == \A S : Kinds!Cardinality(S) = Cardinality(S)
BY Zenon DEF Cardinality, Kinds!Cardinality

\* Providers counted once each: as many as the approvals that count.
LEMMA OpinionsCounted ==
  ASSUME FileFit, VotesFit, step.type = "quorum", outcome = "passed"
  PROVE  Kinds!CountsOpinions
<1> DEFINE voices == {step.agents[i] : i \in Kinds!Approvals}
           opinions == {ProviderOf[a] : a \in voices}
           f == [i \in Kinds!Counted |-> ProviderOf[step.agents[i]]]
<1>1. step.agents \in Seq(ProjectAgents) /\ step.required \in Int
  BY StepShape
<1>2. /\ votes \in [DOMAIN step.agents -> {"asked", "approve", "reject", "abstain"}]
      /\ Kinds!Satisfied /\ \A i \in DOMAIN votes : votes[i] # "asked"
  BY DEF VotesFit
<1>3. \A i \in DOMAIN votes : votes[i] \in {"approve", "abstain"}
  BY <1>2 DEF Kinds!Satisfied
<1>4. Kinds!Threshold \in Int /\ Kinds!Cardinality(Kinds!Counted) >= Kinds!Threshold
  <2>1. Len(step.agents) \div 2 + 1 \in Int
    BY <1>1
  <2> QED
    BY <1>1, <1>2, <2>1 DEF Kinds!Threshold, Kinds!Satisfied
<1>5. ASSUME step.distinct
      PROVE  /\ Cardinality(opinions) >= Cardinality(Kinds!Counted)
             /\ Cardinality(opinions) \in Nat /\ Cardinality(Kinds!Counted) \in Nat
  <2>1. Kinds!Counted \subseteq Kinds!Approvals /\ Kinds!Approvals \subseteq 1..Len(step.agents)
    BY <1>1, <1>2 DEF Kinds!Counted, Kinds!Approvals
  <2>2. \A i, j \in Kinds!Counted : j < i => f[j] # f[i]
    BY <1>5 DEF Kinds!Counted
  <2>3. \A i, j \in Kinds!Counted : f[i] = f[j] => i = j
    <3> SUFFICES ASSUME NEW i \in Kinds!Counted, NEW j \in Kinds!Counted, i # j PROVE f[i] # f[j]
      OBVIOUS
    <3>1. i \in Int /\ j \in Int
      BY <1>1, <2>1
    <3>2. i < j \/ j < i
      BY <3>1
    <3> QED
      BY <2>2, <3>2
  <2>4. f \in [Kinds!Counted -> opinions]
    BY <2>1
  <2>5. f \in Injection(Kinds!Counted, opinions)
    BY <2>3, <2>4 DEF Injection, IsInjective
  <2>6. IsFiniteSet(opinions)
    <3>1. IsFiniteSet(1..Len(step.agents))
      BY <1>1, FS_Interval
    <3>2. IsFiniteSet(Kinds!Approvals)
      BY <2>1, <3>1, FS_Subset
    <3> DEFINE g == [i \in Kinds!Approvals |-> ProviderOf[step.agents[i]]]
    <3>3. g \in Surjection(Kinds!Approvals, opinions)
      <4>1. g \in [Kinds!Approvals -> opinions]
        OBVIOUS
      <4>2. ASSUME NEW o \in opinions PROVE \E i \in Kinds!Approvals : g[i] = o
        OBVIOUS
      <4> QED
        BY <4>1, <4>2 DEF Surjection
    <3> QED
      BY <3>2, <3>3, FS_Surjection
  <2>7. Cardinality(Kinds!Counted) <= Cardinality(opinions)
    BY <2>5, <2>6, FS_Injection
  <2>8. Cardinality(Kinds!Counted) \in Nat /\ Cardinality(opinions) \in Nat
    BY <2>5, <2>6, FS_Injection, FS_CardinalityType
  <2> QED
    BY <2>7, <2>8
<1>6. step.distinct => Kinds!Cardinality(opinions) >= Kinds!Threshold
  <2> HIDE DEF opinions
  <2>1. /\ Kinds!Cardinality(opinions) = Cardinality(opinions)
        /\ Kinds!Cardinality(Kinds!Counted) = Cardinality(Kinds!Counted)
    BY StepsCardinality
  <2>2. /\ step.distinct => Cardinality(opinions) \in Nat /\ Cardinality(Kinds!Counted) \in Nat
    BY <1>5
  <2> QED
    BY <1>4, <1>5, <2>1, <2>2
<1> QED
  BY <1>3, <1>6 DEF Kinds!CountsOpinions

\* The steps take their own steps in the composition: a ladder passes on an attempt that every
\* verifier approved, and a page's ladder has one; a quorum passes on enough different
\* providers' approvals and no rejection (ladder.js, quorum.js, definition.js).
THEOREM StepsAlwaysVerified == RunsSpec => []PassedIsVerified
<1>1. RunsInit => KindFit
  <2> SUFFICES ASSUME Kinds!Init PROVE KindFit
    BY DEF RunsInit
  <2>1. kindFile \in WorkflowFiles /\ \E i \in DOMAIN kindFile : step = kindFile[i]
    BY DEF Kinds!Init, Kinds!Range
  <2>2. made = "page" /\ step.type = "ladder" => step.verify # <<>>
    BY <2>1 DEF Kinds!Init, Kinds!Validates, Kinds!CleanStep, Kinds!CleanLadder
  <2>3. FileFit
    BY <2>1, <2>2 DEF FileFit
  <2>4. outcome = "none" /\ tried = <<>> /\ kindPc = Kinds!RunStep(step)
        /\ votes = IF step.type = "quorum" THEN [i \in DOMAIN step.agents |-> "asked"] ELSE <<>>
    BY DEF Kinds!Init
  <2>5. PointFit /\ VerdictsFit /\ VotesFit
    BY <2>3, <2>4, StepShape DEF PointFit, VerdictsFit, VotesFit, Kinds!RunStep
  <2> QED
    BY <2>3, <2>5 DEF KindFit
<1>2. KindFit /\ [RunsNext]_runsVars => KindFit'
  <2>1. [RunsNext]_runsVars => [Kinds!Next]_(Kinds!vars)
    BY DEF RunsNext, ProjectStep, ContendingStep, TriggerStep, InvocationsStep, KindsStep, SpansStep,
       runsVars, stepsVars, Kinds!vars
  <2> QED
    BY <2>1, ClimbingFits, VerifyingFits, PassingFits, QuorumFits, OthersFit DEF Kinds!Next
<1>3. KindFit => PassedIsVerified
  <2> SUFFICES ASSUME KindFit PROVE PassedIsVerified
    OBVIOUS
  <2>1. ASSUME step.type = "ladder", outcome = "passed"
        PROVE  Kinds!PassedIsVerified /\ Kinds!CheckedIsVerified
    <3> DEFINE list == Kinds!Current.verify
    <3>1. /\ tried \in Seq(Climbs) /\ tried # <<>> /\ Len(list) = Len(Kinds!Verifiers)
          /\ \A i \in 1..Len(list) : list[i].ok /\ list[i].name = Kinds!Verifiers[i]
      BY <2>1 DEF KindFit, VerdictsFit
    <3>2. list \in Verdicts
      <4>1. tried[Len(tried)] \in Climbs
        BY <3>1
      <4> QED
        BY <4>1 DEF Climbs, Kinds!Current, Kinds!Attempt
    <3>3. Kinds!Verifiers \in Seq(Commands \cup ProjectAgents)
      BY <2>1, VerifiersTyped DEF KindFit
    <3>4. Kinds!Verifiers = IF triage.risk # "low" \/ step.verifyLight = <<>> THEN step.verify ELSE step.verifyLight
      BY DEF Kinds!Verifiers, Kinds!Route, Kinds!ParseTriage
    <3> HIDE DEF list
    <3>5. DOMAIN list = 1..Len(list) /\ DOMAIN Kinds!Verifiers = 1..Len(list)
      BY <3>1, <3>2, <3>3 DEF Verdicts
    <3>6. [i \in DOMAIN list |-> list[i].name] = Kinds!Verifiers
      BY <3>1, <3>3, <3>5
    <3>7. Kinds!PassedIsVerified
      BY <3>1, <3>4, <3>5, <3>6 DEF Kinds!PassedIsVerified, list
    <3>8. made = "page" => list # <<>>
      <4>1. made = "page" => Kinds!Verifiers # <<>>
        BY <2>1, <3>4 DEF KindFit, FileFit
      <4> QED
        BY <3>1, <3>2, <3>3, <4>1 DEF Verdicts
    <3> QED
      BY <3>7, <3>8 DEF Kinds!CheckedIsVerified, Kinds!SomethingVerified, list
  <2> QED
    BY <2>1, OpinionsCounted
    DEF KindFit, PassedIsVerified, Kinds!PassedIsVerified, Kinds!CheckedIsVerified,
        Kinds!SomethingVerified, Kinds!CountsOpinions
<1> QED
  BY <1>1, <1>2, <1>3, PTL DEF RunsSpec
=============================================================================
