------------------------------- MODULE Telemetry -------------------------------
(***************************************************************************)
(* What a call to a provider cost, from the counters the provider reports  *)
(* to the sums a person is shown.  While an answer streams, the adapter    *)
(* passes the counters on as they grow; the meter (providers/              *)
(* usage-meter.js) adds what is new to the ledger of its process, which    *)
(* budgets are held against; the call's span carries the sums to a file    *)
(* that every process of the project appends to and that is moved aside    *)
(* when it gets large (observability/telemetry.js); a reading adds up all  *)
(* pieces; etnpilot gc removes old ones (runtime/gc.js).                   *)
(***************************************************************************)
EXTENDS Naturals, Sequences, FiniteSets

CONSTANTS Procs,      \* processes: runs, chats, the page
          MaxTokens,  \* bound: tokens of one request
          MaxAsked,   \* bound: requests of each process
          RotateAt,   \* spans that make a file large
          MaxTime     \* bound: milliseconds

VARIABLES
  meter,    \* per process, the call under way
  asked,    \* requests made so far
  ledger,   \* totals: the tokens a process has charged
  told,     \* history: the tokens the provider told it of
  queue,    \* pending: spans that are not in the file yet
  writer,   \* where the operation at its head is
  file,     \* the spans in the current file
  archives, \* those in the files moved aside, by the time in their names
  clock,
  reading,  \* a report in the making
  plan,     \* the archives etnpilot gc has listed
  kept      \* history: spans written, less those gc or a rotation in one millisecond removed

vars == <<meter, asked, ledger, told, queue, writer, file, archives, clock, reading, plan, kept>>
metered == <<meter, asked, ledger, told>>
pieces == <<file, archives>>

Times == 1..MaxTime
Resting == [op |-> "idle", usage |-> 0, raw |-> 0, previous |-> 0]
NoReading == [todo |-> {}, counted |-> {}, twice |-> FALSE, on |-> FALSE, due |-> {}]
Present == {t \in Times : archives[t] # {}}

-----------------------------------------------------------------------------
(* The meter.  What is passed on is cumulative within a call: the charge   *)
(* is what is new.                                                         *)
Monus(x, y) == IF x > y THEN x - y ELSE 0

(* A plausible fault: what was charged while the answer streamed is        *)
(* forgotten, so the whole is charged again.                               *)
SlipNew(m, usage) == usage - m.usage

New(m, usage) == Monus(usage, m.previous)

Progress(p, op, usage, raw) ==
  /\ ledger' = [ledger EXCEPT ![p] = @ + New(meter[p], usage + raw)]
  /\ meter' = [meter EXCEPT ![p] = [op |-> op, usage |-> usage, raw |-> raw, previous |-> usage + raw]]

(* accountRequest: a call begins, or goes on after tool results or a retry.*)
AccountRequest(p) ==
  /\ meter[p].op \in {"idle", "between"} /\ asked[p] < MaxAsked[p]
  /\ asked' = [asked EXCEPT ![p] = @ + 1]
  /\ Progress(p, "asking", meter[p].usage, 0)
  /\ UNCHANGED <<told, queue, writer, pieces, clock, reading, plan, kept>>

OnStreamUsage(p) ==
  /\ meter[p].op = "asking"
  /\ \E raw \in (meter[p].raw + 1)..MaxTokens :
       /\ Progress(p, "asking", meter[p].usage, raw)
       /\ told' = [told EXCEPT ![p] = @ + (raw - meter[p].raw)]
  /\ UNCHANGED <<asked, queue, writer, pieces, clock, reading, plan, kept>>

(* The answer is there: its counters are what the stream ended with, or    *)
(* come with it.                                                           *)
Answered(p) ==
  /\ meter[p].op = "asking"
  /\ \E raw \in meter[p].raw..MaxTokens :
       /\ Progress(p, "between", meter[p].usage + raw, 0)
       /\ told' = [told EXCEPT ![p] = @ + (raw - meter[p].raw)]
  /\ UNCHANGED <<asked, queue, writer, pieces, clock, reading, plan, kept>>

(* A request fails part of the way: what streamed is merged, exactly once. *)
Failed(p) ==
  /\ meter[p].op = "asking"
  /\ Progress(p, "between", meter[p].usage + meter[p].raw, 0)
  /\ UNCHANGED <<asked, told, queue, writer, pieces, clock, reading, plan, kept>>

(* finish, and the end of the call's span.                                 *)
EndSpan(p) ==
  /\ meter[p].op = "between"
  /\ queue' = [queue EXCEPT ![p] = Append(@, [of |-> p, at |-> asked[p], tokens |-> meter[p].usage])]
  /\ meter' = [meter EXCEPT ![p] = Resting]
  /\ UNCHANGED <<asked, ledger, told, writer, pieces, clock, reading, plan, kept>>

-----------------------------------------------------------------------------
(* emit: one operation at a time in a process, but processes share the     *)
(* file.                                                                   *)
Measure(p) ==
  /\ queue[p] # <<>> /\ writer[p].op = "idle"
  /\ writer' = [writer EXCEPT ![p] = [op |-> IF Cardinality(file) >= RotateAt THEN "rename" ELSE "append",
                                      at |-> clock]]
  /\ UNCHANGED <<metered, queue, pieces, clock, reading, plan, kept>>

(* A plausible fault: there is one name for what is moved aside.           *)
SlipAside(p) == 1

Aside(p) == writer[p].at

(* What a report under way no longer owes, as its piece goes (history).    *)
Shift(spans) == reading' = [reading EXCEPT !.due = @ \ spans]

(* A rename replaces what another process moved aside in that millisecond. *)
RotateIfLarge(p) ==
  /\ writer[p].op = "rename" /\ writer' = [writer EXCEPT ![p].op = "append"]
  /\ IF file = {} THEN UNCHANGED <<pieces, kept, reading>>
     ELSE /\ file' = {} /\ archives' = [archives EXCEPT ![Aside(p)] = file]
          /\ kept' = kept \ archives[writer[p].at]
          /\ Shift(file \cup archives[writer[p].at])
  /\ UNCHANGED <<metered, queue, clock, plan>>

AppendLine(p) ==
  /\ writer[p].op = "append" /\ writer' = [writer EXCEPT ![p].op = "idle"]
  /\ file' = file \cup {Head(queue[p])} /\ kept' = kept \cup {Head(queue[p])}
  /\ queue' = [queue EXCEPT ![p] = Tail(@)]
  /\ UNCHANGED <<metered, archives, clock, reading, plan>>

(* A process ends with spans that were never written.                      *)
Crash(p) ==
  /\ meter[p].op # "idle" \/ queue[p] # <<>>
  /\ meter' = [meter EXCEPT ![p] = Resting] /\ queue' = [queue EXCEPT ![p] = <<>>]
  /\ ledger' = [ledger EXCEPT ![p] = 0] /\ told' = [told EXCEPT ![p] = 0]
  /\ asked' = [asked EXCEPT ![p] = MaxAsked[p]] /\ writer' = [writer EXCEPT ![p].op = "idle"]
  /\ UNCHANGED <<pieces, clock, reading, plan, kept>>

Tick == clock < MaxTime /\ clock' = clock + 1
        /\ UNCHANGED <<metered, queue, writer, pieces, reading, plan, kept>>

-----------------------------------------------------------------------------
(* summarizeTelemetryFile.  The pieces are listed, and read one after the  *)
(* other: oldest first, the current file (here 0) last.                    *)

(* A plausible fault: only what was moved aside is listed.                 *)
SlipParts == Present

TelemetryParts == Present \cup {0}

Summarize ==
  /\ ~reading.on
  /\ reading' = [NoReading EXCEPT !.on = TRUE, !.todo = TelemetryParts, !.due = kept]
  /\ UNCHANGED <<metered, queue, writer, pieces, clock, plan, kept>>

Holds(part) == IF part = 0 THEN file ELSE archives[part]
ComesNext(part) == IF part = 0 THEN reading.todo = {0} ELSE \A t \in reading.todo \ {0} : part <= t

ReadPart ==
  /\ reading.on
  /\ \E part \in reading.todo :
       /\ ComesNext(part)
       /\ reading' = [reading EXCEPT !.todo = @ \ {part}, !.counted = @ \cup Holds(part),
                                     !.twice = @ \/ Holds(part) \cap reading.counted # {},
                                     !.due = @ \ Holds(part)]
  /\ UNCHANGED <<metered, queue, writer, pieces, clock, plan, kept>>

Shown == /\ reading.on /\ reading.todo = {} /\ reading' = NoReading
         /\ UNCHANGED <<metered, queue, writer, pieces, clock, plan, kept>>

-----------------------------------------------------------------------------
(* etnpilot gc: listed first, removed when the person adds --apply.        *)
PlanGc ==
  /\ \E cutoff \in Times : cutoff <= clock /\ plan' = {t \in Present : t <= cutoff}
  /\ plan' # {}
  /\ UNCHANGED <<metered, queue, writer, pieces, clock, reading, kept>>

ApplyGc ==
  /\ \E t \in plan : /\ archives' = [archives EXCEPT ![t] = {}] /\ plan' = plan \ {t}
                     /\ kept' = kept \ archives[t] /\ Shift(archives[t])
  /\ UNCHANGED <<metered, queue, writer, file, clock>>

-----------------------------------------------------------------------------
Init ==
  /\ meter = [p \in Procs |-> Resting] /\ asked = [p \in Procs |-> 0]
  /\ ledger = [p \in Procs |-> 0] /\ told = [p \in Procs |-> 0]
  /\ queue = [p \in Procs |-> <<>>] /\ writer = [p \in Procs |-> [op |-> "idle", at |-> 0]]
  /\ file = {} /\ archives = [t \in Times |-> {}] /\ clock = 1
  /\ reading = NoReading /\ plan = {} /\ kept = {}

Next ==
  \/ \E p \in Procs : \/ AccountRequest(p) \/ OnStreamUsage(p) \/ Answered(p) \/ Failed(p) \/ EndSpan(p)
                      \/ Measure(p) \/ RotateIfLarge(p) \/ AppendLine(p) \/ Crash(p)
  \/ Tick \/ Summarize \/ ReadPart \/ Shown \/ PlanGc \/ ApplyGc

Spec == Init /\ [][Next]_vars

-----------------------------------------------------------------------------
Written == file \cup UNION {archives[t] : t \in Times}

TypeOK == /\ \A p \in Procs : ledger[p] \in 0..(MaxTokens * MaxAsked[p]) /\ asked[p] \in 0..MaxAsked[p]
          /\ clock \in Times /\ plan \subseteq Times /\ reading.todo \subseteq 0..MaxTime
          /\ \A p \in Procs : Len(queue[p]) <= MaxAsked[p] /\ meter[p].op \in {"idle", "asking", "between"}

(* What is charged to a process's budgets is what the provider told it of, *)
(* each token once, however often its answer was reported on, cut off and  *)
(* asked for again (usage-meter.js:48-49).                                 *)
ChargedOnce == \A p \in Procs : ledger[p] = told[p]

(* What is written stays in some piece until gc takes the piece away, or   *)
(* another process moves the file aside in the same millisecond            *)
(* (telemetry.js:183-187); no report counts a span twice; and a report     *)
(* is done counted every span written before it began, but for those in    *)
(* pieces that were moved or taken away while it read: it lists the pieces *)
(* before it reads them (:190-207).                                        *)
CostsAreKept ==
  /\ kept \subseteq Written /\ ~reading.twice
  /\ reading.todo = {} => reading.due = {}
=============================================================================
