------------------------------ MODULE AgentRun -------------------------------
(***************************************************************************)
(* Invocations of agents in one run (Harness.run): steps of the workflow   *)
(* that run in parallel, subagents that agents hand work to, the span and  *)
(* the receipt with which an invocation ends - each of which may fail -    *)
(* and the entry that seals the run's receipt file.  Each entry is linked  *)
(* to the one before it and signed; the hash of an entry stands for all    *)
(* that it and the entries before it say: it is the sequence of these.     *)
(*                                                                         *)
(* An append that fails may leave a part of its line, which the next line  *)
(* is then appended to; what comes of that never parses.  A process that   *)
(* dies leaves the file as one whose agents do nothing more.  The runner   *)
(* seals once; that it tries again when that append fails is left out.     *)
(***************************************************************************)
EXTENDS Naturals, Sequences, FiniteSets

CONSTANTS
  Names,          \* agents
  Steps,          \* the agents that steps of the workflow call
  Subagents,      \* Subagents[a]: the agents that a may spawn
  MaxDepth,       \* maxSubagentDepth
  StrictSpans,    \* observability.failureMode = "fail"
  Dates,          \* what the clock of the signing machine may show
  Window,         \* the dates at which readers trust the key
  MaxRuns,        \* bound: invocations in a run
  MaxFailures     \* bound: appends to the file that fail

VARIABLES
  file,           \* the lines of the receipt file; NoLine is one that does not parse
  half,           \* whether a part of a line follows them
  tail,           \* the hash of the last entry as the store remembers it
  pending,        \* appends that were called, in their order
  line,           \* the entry whose line is being written
  signed,         \* entries that the key has signed
  refused,        \* payloads whose append was rejected
  run             \* run[n]: the n-th invocation

vars == <<file, half, tail, pending, line, signed, refused, run>>

Seal == [of |-> 0, status |-> "sealed"]         \* the payload that is terminal
NoPayload == [of |-> 0, status |-> "none"]
NoLine == [payload |-> NoPayload, at |-> 0, previous |-> <<>>]
Unread == <<[payload |-> NoPayload, at |-> 0]>>

ChainInit ==
  /\ file = <<>> /\ half = FALSE /\ tail = Unread
  /\ pending = <<>> /\ line = NoLine /\ signed = {} /\ refused = {}

Hash(entry) == Append(entry.previous, [payload |-> entry.payload, at |-> entry.at])

LastHash(lines) == IF lines = <<>> THEN <<>> ELSE Hash(lines[Len(lines)])

Terminal(hash) == hash # <<>> /\ hash[Len(hash)].payload = Seal

\* append: after everything that was called before, whether that worked or not.
CallAppend(payload) == pending' = Append(pending, payload)

\* (Slip...: faulty variants of the definitions that follow them.)
SlipForgets ==
  LET previous == IF tail = Unread THEN LastHash(file) ELSE tail IN
  /\ pending # <<>> /\ line = NoLine
  /\ \E d \in Dates : line' = [payload |-> Head(pending), at |-> d, previous |-> previous]
  /\ tail' = Hash(line') /\ signed' = signed \cup {line'}
  /\ UNCHANGED <<file, half, pending, refused>>

\* #append up to its write. The last entry is read once, then remembered.
Link ==
  LET previous == IF tail = Unread THEN LastHash(file) ELSE tail IN
  /\ pending # <<>> /\ line = NoLine
  /\ tail' = previous
  /\ IF Terminal(previous)
     THEN /\ pending' = Tail(pending) /\ refused' = refused \cup {Head(pending)}
          /\ UNCHANGED <<line, signed>>
     ELSE /\ \E d \in Dates : line' = [payload |-> Head(pending), at |-> d, previous |-> previous]
          /\ signed' = signed \cup {line'}
          /\ UNCHANGED <<pending, refused>>
  /\ UNCHANGED <<file, half>>

\* appendFile. It may fail, with a part of the line in the file or not, and the link stays
\* where it was; and it does not look what the file ends in.
WriteLine ==
  /\ line # NoLine
  /\ pending' = Tail(pending) /\ line' = NoLine
  /\ \/ /\ file' = Append(file, IF half THEN NoLine ELSE line) /\ half' = FALSE
        /\ tail' = Hash(line) /\ UNCHANGED refused
     \/ /\ Cardinality(refused) < MaxFailures /\ half' \in {half, TRUE}
        /\ refused' = refused \cup {line.payload} /\ UNCHANGED <<file, tail>>
  /\ UNCHANGED signed

Store == Link \/ WriteLine

\* verifyReceiptSignature, with the window of its key.
Genuine(entry) == entry \in signed /\ entry.at \in Window

SlipUnlinked(lines, requireTerminal) ==
  /\ lines # <<>>
  /\ \A k \in DOMAIN lines : Genuine(lines[k]) /\ (k < Len(lines) => ~Terminal(Hash(lines[k])))
  /\ requireTerminal => Terminal(LastHash(lines))

\* ChainVerifier: every line is signed and has the hash of the line before it, and nothing
\* follows the entry that seals the chain.
Verifies(lines, requireTerminal) ==
  /\ lines # <<>>
  /\ \A k \in DOMAIN lines :
       /\ Genuine(lines[k])
       /\ lines[k].previous = LastHash(SubSeq(lines, 1, k - 1))
       /\ k < Len(lines) => ~Terminal(Hash(lines[k]))
  /\ requireTerminal => Terminal(LastHash(lines))
-----------------------------------------------------------------------------
Running == {"asking", "ending", "appending", "endingFailed", "appendingFailed"}

TypeOK ==
  /\ run \in Seq([agent : Names, parent : 0..MaxRuns, chain : Seq(Names),
                  pc : Running \cup {"returned", "threw"}])
  /\ Len(run) <= MaxRuns
  /\ \A e \in signed : e.at \in Dates
  /\ \A k \in DOMAIN file : file[k] \in signed \cup {NoLine}
  /\ half \in BOOLEAN

Init == ChainInit /\ run = <<>>

Payload(n, status) == [of |-> n, status |-> status]
Children(n) == {c \in DOMAIN run : run[c].parent = n /\ run[c].pc \in Running}
At(n, where) == n \in DOMAIN run /\ run[n].pc = where
Goto(n, where) == run' = [run EXCEPT ![n].pc = where]

Sealing == \E k \in DOMAIN pending : pending[k] = Seal
IsSealed == Sealing \/ Seal \in refused \/ Terminal(tail)

Invoke(name, parent, chain) ==
  /\ Len(run) < MaxRuns
  /\ run' = Append(run, [agent |-> name, parent |-> parent, chain |-> chain, pc |-> "asking"])
  /\ UNCHANGED <<file, half, tail, pending, line, signed, refused>>
-----------------------------------------------------------------------------
\* A step of the workflow.
StartStep == ~IsSealed /\ \E a \in Steps : Invoke(a, 0, <<>>)

SlipSelfOnly(n, a) == a \in Subagents[run[n].agent] /\ a # run[n].agent

\* context.spawn: a subagent of this one that is not above it, down to a certain depth.
MaySpawn(n, a) ==
  LET above == Append(run[n].chain, run[n].agent) IN
  /\ a \in Subagents[run[n].agent]
  /\ \A k \in DOMAIN above : above[k] # a
  /\ Len(above) < MaxDepth

\* The agent waits for its subagent; a refusal is only an answer to it.
Spawn(n) ==
  /\ At(n, "asking") /\ Children(n) = {}
  /\ \E a \in Names : MaySpawn(n, a) /\ Invoke(a, n, Append(run[n].chain, run[n].agent))

ProviderEnds(n) ==
  /\ At(n, "asking") /\ Children(n) = {}
  /\ Goto(n, "ending") \/ Goto(n, "endingFailed")
  /\ UNCHANGED <<file, half, tail, pending, line, signed, refused>>

SlipAppendsFirst(n) ==
  /\ At(n, "ending")
  /\ \/ Goto(n, "appending") /\ CallAppend(Payload(n, "succeeded"))
     \/ StrictSpans /\ Goto(n, "threw") /\ CallAppend(Payload(n, "succeeded"))
  /\ UNCHANGED <<file, half, tail, line, signed, refused>>

\* The span ends before the receipt says "succeeded": a telemetry that must not fail still
\* turns the invocation into a failed one.
EndSpan(n) ==
  /\ At(n, "ending")
  /\ \/ Goto(n, "appending") /\ CallAppend(Payload(n, "succeeded"))
     \/ StrictSpans /\ Goto(n, "appendingFailed") /\ CallAppend(Payload(n, "failed"))
  /\ UNCHANGED <<file, half, tail, line, signed, refused>>

\* In the catch block; when the span cannot be ended there, the receipt is not written.
EndSpanFailed(n) ==
  /\ At(n, "endingFailed")
  /\ \/ Goto(n, "appendingFailed") /\ CallAppend(Payload(n, "failed"))
     \/ StrictSpans /\ Goto(n, "threw") /\ UNCHANGED pending
  /\ UNCHANGED <<file, half, tail, line, signed, refused>>

Settled(payload) == \A k \in DOMAIN pending : pending[k] # payload

SlipTakesBoth(n) ==
  /\ At(n, "appending") /\ Settled(Payload(n, "succeeded"))
  /\ Goto(n, "returned") /\ UNCHANGED pending

\* receiptStore.append has settled. A success that was rejected becomes a failure.
Receipted(n) ==
  \/ /\ At(n, "appending") /\ Settled(Payload(n, "succeeded")) /\ Payload(n, "succeeded") \notin refused
     /\ Goto(n, "returned") /\ UNCHANGED pending
  \/ /\ At(n, "appending") /\ Payload(n, "succeeded") \in refused
     /\ Goto(n, "appendingFailed") /\ CallAppend(Payload(n, "failed"))
  \/ /\ At(n, "appendingFailed") /\ Settled(Payload(n, "failed"))
     /\ Goto(n, "threw") /\ UNCHANGED pending

\* The runner seals the file when its engine is done; attempts that were given up may still
\* be at work, and what they append afterwards is refused.
SealRun ==
  /\ ~IsSealed /\ CallAppend(Seal)
  /\ UNCHANGED <<file, half, tail, line, signed, refused, run>>

Next ==
  \/ StartStep \/ SealRun
  \/ Store /\ UNCHANGED run
  \/ \E n \in 1..MaxRuns :
       \/ Spawn(n) \/ ProviderEnds(n) \/ EndSpan(n) \/ EndSpanFailed(n)
       \/ Receipted(n) /\ UNCHANGED <<file, half, tail, line, signed, refused>>

Spec == Init /\ [][Next]_vars
-----------------------------------------------------------------------------
Kept(payload) == \E k \in DOMAIN file : file[k].payload = payload

\* The lines that a reader finds.
Found == IF half THEN Append(file, NoLine) ELSE file
Whole == \A k \in DOMAIN Found : Found[k] # NoLine

\* harness.js: "A run contributes exactly one receipt. Anything that fails after the
\* success receipt was sealed is reported, never rewritten." What the caller was told and
\* what the file says agree, whichever of provider, telemetry and file fails and however
\* late an attempt appends; a success that is not in the file is one whose line was spoiled.
\* Agents that work at the same time do not break each other's links: a reader finds the
\* file valid unless a line of it is spoiled or was dated when the key is not trusted.
ToldAsRecorded ==
  /\ \A n \in DOMAIN run :
       /\ run[n].pc = "returned" => Kept(Payload(n, "succeeded")) \/ ~Whole
       /\ run[n].pc = "threw" => ~Kept(Payload(n, "succeeded"))
       /\ ~(Kept(Payload(n, "succeeded")) /\ Kept(Payload(n, "failed")))
  /\ Verifies(Found, FALSE) <=>
       file # <<>> /\ Whole /\ \A k \in DOMAIN file : file[k].at \in Window

\* Rewritten files: lines the key has signed once, in another order, or some of them.
Rewritten == UNION {[1..k -> signed] : k \in 1..Len(file)}

\* A reader who asks for a sealed chain and gets "valid" has the file as it was written,
\* unless a line of that was spoiled.
TamperingShows ==
  Whole /\ Terminal(LastHash(file)) =>
    \A lines \in Rewritten : Verifies(lines, TRUE) => lines = file

\* "Mutually referencing manifests would otherwise recurse until the process runs out of
\* memory": no agent works below itself, however agents name each other.
NoAgentBelowItself ==
  \A n \in DOMAIN run :
    LET above == Append(run[n].chain, run[n].agent) IN
    /\ Len(above) <= MaxDepth
    /\ \A j, k \in DOMAIN above : above[j] = above[k] => j = k
=============================================================================
