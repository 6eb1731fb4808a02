------------------------------ MODULE ChatView ------------------------------
(***************************************************************************)
(* The conversation page (ui/client/chat.js; tui/chat-controller.js keeps  *)
(* the same fields the same way) over the server's half of it              *)
(* (runtime/project-chat.js).  The message just sent is shown at once, as  *)
(* pending, until the server's record of its turn arrives by a poll; the   *)
(* page decides that by counting turns.  Requests are handled on their own *)
(* and answers are read in any order.                                      *)
(*                                                                         *)
(* What a turn does is ChatWorkspace.tla; undo, files and attachments are  *)
(* left out here.                                                          *)
(***************************************************************************)
EXTENDS Integers, Sequences, FiniteSets

CONSTANTS
  MaxMessages,   \* bound: messages typed, numbered in that order
  MaxSessions,   \* bound: conversations
  MaxFlight      \* bound: requests under way

VARIABLES
  recorded,      \* per conversation, the messages of the turns on disk
  running,       \* per conversation, the message being answered
  compacting,    \* conversations a summary is being written for
  created,       \* conversations there are
  session, turns, pending, on, box,   \* chatSession, chatTurns, chatPending, chatRunning, the text box
  typed,         \* messages typed so far
  flight,        \* requests under way
  line,          \* the ones answered and not read yet, in the order they were handled
  last,          \* the message accepted last in the conversation shown
  orderly        \* answers were read in order, no poll failed, and nothing was under way
                 \* when a message was sent or the conversation changed

server == <<recorded, running, compacting, created>>
page   == <<session, turns, pending, on, box>>
vars   == <<server, page, typed, flight, line, last, orderly>>

Conversations == 1..MaxSessions
Slots    == 1..MaxFlight
Blank    == 0

NoAnswer  == [ok |-> FALSE, session |-> Blank, turns |-> <<>>, on |-> FALSE]
Free      == [kind |-> "none", session |-> Blank, text |-> Blank, answer |-> NoAnswer]
NoPending == [text |-> Blank, since |-> 0, quiet |-> FALSE, lost |-> FALSE]

Init ==
  /\ recorded = [s \in Conversations |-> <<>>]
  /\ running = [s \in Conversations |-> Blank] /\ compacting = {} /\ created = 0
  /\ session = Blank /\ turns = <<>> /\ pending = NoPending /\ on = FALSE /\ box = Blank
  /\ typed = 0
  /\ flight = [i \in Slots |-> Free] /\ line = <<>>
  /\ last = Blank /\ orderly = TRUE

NothingUnderWay == flight = [i \in Slots |-> Free]

Unread(i) == \E n \in DOMAIN line : line[n] = i
Waiting(i) == flight[i] # Free /\ ~Unread(i)

Ask(kind, s, text) ==
  \E i \in Slots :
    /\ flight[i] = Free /\ \A j \in 1..(i - 1) : flight[j] # Free
    /\ flight' = [flight EXCEPT ![i] = [kind |-> kind, session |-> s, text |-> text, answer |-> NoAnswer]]

Answer(i, a) ==
  /\ flight' = [flight EXCEPT ![i].answer = a]
  /\ line' = Append(line, i)

TakeAnswer(i) ==
  \E n \in DOMAIN line :
    /\ line[n] = i
    /\ line' = SubSeq(line, 1, n - 1) \o SubSeq(line, n + 1, Len(line))
    /\ flight' = [flight EXCEPT ![i] = Free]
    /\ orderly' = (orderly /\ n = 1)

Refused == NoAnswer

-----------------------------------------------------------------------------
(* The server.                                                             *)

(* A turn or a summary of this conversation is among the runs.             *)
Active(s) == running[s] # Blank \/ s \in compacting

(* The lease on the workspace that send takes.                             *)
LeaseHeld == \E s \in Conversations : running[s] # Blank

(* send: refused while the conversation has a run or the workspace a       *)
(* lease; a message without a conversation begins one.                     *)
HandleSend(i) ==
  LET id == IF flight[i].session = Blank THEN created + 1 ELSE flight[i].session IN
  /\ flight[i].kind = "send" /\ Waiting(i)
  /\ id \in Conversations
  /\ IF Active(id) \/ LeaseHeld
     THEN Answer(i, Refused) /\ UNCHANGED server
     ELSE /\ created' = IF id > created THEN id ELSE created
          /\ running' = [running EXCEPT ![id] = flight[i].text]
          /\ Answer(i, [NoAnswer EXCEPT !.ok = TRUE, !.session = id])
          /\ UNCHANGED <<recorded, compacting>>
  /\ UNCHANGED <<page, typed, last, orderly>>

HandleRead(i) ==
  LET s == flight[i].session IN
  /\ flight[i].kind = "read" /\ Waiting(i)
  /\ Answer(i, [ok |-> TRUE, session |-> s, turns |-> recorded[s], on |-> Active(s)])
  /\ UNCHANGED <<server, page, typed, last, orderly>>

(* compact: a run of its own, under the conversation's id, with no lease   *)
(* and no turn to record.                                                  *)
HandleCompact(i) ==
  LET s == flight[i].session
      ok == recorded[s] # <<>> /\ ~Active(s) IN
  /\ flight[i].kind = "compact" /\ Waiting(i)
  /\ compacting' = IF ok THEN compacting \cup {s} ELSE compacting
  /\ Answer(i, [NoAnswer EXCEPT !.ok = ok])
  /\ UNCHANGED <<recorded, running, created, page, typed, last, orderly>>

SummaryEnds(s) ==
  /\ s \in compacting /\ compacting' = compacting \ {s}
  /\ UNCHANGED <<recorded, running, created, page, typed, flight, line, last, orderly>>

(* A turn ends, stopped or not, with its record, or without one where the  *)
(* run could not even start.                                               *)
TurnEnds(s) ==
  /\ running[s] # Blank
  /\ running' = [running EXCEPT ![s] = Blank]
  /\ recorded' \in {recorded, [recorded EXCEPT ![s] = Append(@, running[s])]}
  /\ UNCHANGED <<compacting, created, page, typed, flight, line, last, orderly>>

(* The server cannot be reached, or answers with an error.                 *)
Fail(i) ==
  /\ Waiting(i)
  /\ Answer(i, Refused)
  /\ orderly' = (orderly /\ flight[i].kind # "read")
  /\ UNCHANGED <<server, page, typed, last>>

-----------------------------------------------------------------------------
(* The page.                                                               *)

Type ==
  /\ box = Blank /\ typed < MaxMessages
  /\ typed' = typed + 1 /\ box' = typed + 1
  /\ UNCHANGED <<server, session, turns, pending, on, flight, line, last, orderly>>

(* Enter sends again while the first answer is under way; only the button  *)
(* is disabled meanwhile.  (Bound: with the last message only, and once.)  *)
SendChat ==
  /\ box # Blank /\ ~on
  /\ (typed = MaxMessages /\ orderly) \/ \A i \in Slots : flight[i].kind # "send"
  /\ Ask("send", session, box)
  /\ orderly' = (orderly /\ NothingUnderWay)
  /\ UNCHANGED <<server, page, typed, line, last>>

(* Accepted: shown as pending, and the box emptied.  Refused: kept in the  *)
(* box.                                                                    *)
ReadSend(i) ==
  LET a == flight[i].answer IN
  /\ flight[i].kind = "send" /\ TakeAnswer(i)
  /\ IF a.ok
     THEN /\ session' = a.session
          /\ pending' = [NoPending EXCEPT !.text = flight[i].text, !.since = Len(turns)]
          /\ on' = TRUE /\ box' = Blank /\ last' = flight[i].text
     ELSE UNCHANGED <<session, pending, on, box, last>>
  /\ UNCHANGED <<server, turns, typed>>

SyncChat ==
  /\ session # Blank
  /\ Ask("read", session, Blank)
  /\ UNCHANGED <<server, page, typed, line, last, orderly>>

SlipArrived(got) == Len(got) >= pending.since

(* The server's record of the pending turn is there.                       *)
Arrived(got) == Len(got) > pending.since

(* A pending message with nothing running starts a clock at the first such *)
(* poll; a later one may find the four seconds over.                       *)
StillPending(a) ==
  IF pending = NoPending \/ Arrived(a.turns) THEN {NoPending}
  ELSE IF a.on THEN {pending}
  ELSE {[pending EXCEPT !.quiet = TRUE]}
       \cup {[pending EXCEPT !.lost = TRUE] : q \in {TRUE} \cap {pending.quiet}}

ReadRead(i) ==
  LET a == flight[i].answer IN
  /\ flight[i].kind = "read" /\ TakeAnswer(i)
  /\ IF a.ok
     THEN turns' = a.turns /\ on' = a.on /\ pending' \in StillPending(a)
     ELSE UNCHANGED <<turns, on, pending>>
  /\ UNCHANGED <<server, session, box, typed, last>>

CompactChat ==
  /\ session # Blank
  /\ Ask("compact", session, Blank)
  /\ UNCHANGED <<server, page, typed, line, last, orderly>>

ReadCompact(i) ==
  /\ flight[i].kind = "compact" /\ TakeAnswer(i)
  /\ UNCHANGED <<server, page, typed, last>>

(* Another conversation is picked from the list, and read.                 *)
Switch(s) ==
  /\ s <= created /\ s # session
  /\ session' = s /\ turns' = <<>> /\ pending' = NoPending /\ last' = Blank
  /\ orderly' = (orderly /\ NothingUnderWay)
  /\ Ask("read", s, Blank)
  /\ UNCHANGED <<server, on, box, typed, line>>

StartNewChat ==
  /\ session # Blank
  /\ session' = Blank /\ turns' = <<>> /\ pending' = NoPending /\ on' = FALSE /\ last' = Blank
  /\ orderly' = (orderly /\ NothingUnderWay)
  /\ UNCHANGED <<server, box, typed, flight, line>>

Next ==
  \/ \E i \in Slots : \/ HandleSend(i) \/ HandleRead(i) \/ HandleCompact(i) \/ Fail(i)
                      \/ ReadSend(i) \/ ReadRead(i) \/ ReadCompact(i)
  \/ \E s \in Conversations : SummaryEnds(s) \/ TurnEnds(s) \/ Switch(s)
  \/ Type \/ SendChat \/ SyncChat \/ CompactChat \/ StartNewChat

Spec == Init /\ [][Next]_vars

-----------------------------------------------------------------------------
TypeOK ==
  /\ recorded \in [Conversations -> Seq(1..MaxMessages)]
  /\ running \in [Conversations -> 0..MaxMessages] /\ created \in 0..MaxSessions
  /\ compacting \subseteq 1..created
  /\ session \in 0..created /\ box \in 0..typed /\ last \in 0..typed
  /\ pending.text \in 0..typed /\ on \in BOOLEAN /\ orderly \in BOOLEAN

Shown(m) == \E n \in DOMAIN turns : turns[n] = m

(* As long as answers are read in the order they were given, no poll       *)
(* failed, and nothing else is under way when a message is sent or the     *)
(* conversation changed, the message accepted last in the conversation     *)
(* shown stays in sight, exactly once: pending, or among the turns.  And   *)
(* where the page says it left no record, it left none and is not being    *)
(* answered.                                                               *)
MessageInSight ==
  orderly /\ last # Blank =>
    /\ Shown(last) # (pending.text = last)
    /\ pending.lost => ~Shown(last) /\ running[session] # last
=============================================================================
