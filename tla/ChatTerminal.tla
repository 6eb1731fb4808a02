---------------------------- MODULE ChatTerminal ----------------------------
(***************************************************************************)
(* 'etnpilot chat' (cli/chat.js): one line of input, shared by the         *)
(* conversation and by the approvals of the turn it is running.  A person  *)
(* types when they like, turns end while their questions are still open,   *)
(* and every line goes to whoever has waited longest for one.  The slash   *)
(* commands (runtime/chat-commands.js) choose agent and provider of the    *)
(* next turn; what is printed, files and the turn itself are left out.     *)
(***************************************************************************)
EXTENDS Naturals, Sequences, FiniteSets

CONSTANTS
  Agents, Providers,     \* the project's agents, and the configured providers
  Allowed,               \* pairs <<agent, provider>> the policy allows
  NoProvider,
  MaxLines,              \* bound: lines typed
  MaxTurns,              \* bound: turns run
  MaxQuestions           \* bound: approvals asked for, numbered in that order

VARIABLES
  typed,      \* lines typed so far
  lines,      \* typed and taken by nobody yet: [text, at], at the prompt then shown
  waiting,    \* who waits for a line, longest first
  prompt,     \* the prompt on the screen
  turn,       \* the turn running, 0 for none
  turns,      \* turns begun
  asked,      \* approvals asked for so far
  queue,      \* those not yet put on the screen, in order
  open,       \* the one on the screen, 0 for none
  ofTurn,     \* the turn each belongs to
  answer,     \* what each came to, and the prompt shown when that was typed
  choice,     \* agent and provider of the next turn
  closed

input     == <<typed, lines, waiting, prompt, closed>>
approvals == <<asked, queue, open, ofTurn, answer>>
vars      == <<input, turn, turns, approvals, choice>>

Questions == 1..MaxQuestions
You       == 0                      \* the prompt "you> "
Nobody    == MaxQuestions + 1       \* no prompt yet

Texts == {"message", "yes", "no"} \cup {"/exit", "/help"}

Unanswered == [what |-> "none", at |-> Nobody]

Init ==
  /\ typed = 0 /\ lines = <<>> /\ closed = FALSE
  /\ waiting = <<You>> /\ prompt = You
  /\ turn = 0 /\ turns = 0
  /\ asked = 0 /\ queue = <<>> /\ open = 0
  /\ ofTurn = [q \in Questions |-> 0] /\ answer = [q \in Questions |-> Unanswered]
  /\ \E a \in Agents : choice = [agent |-> a, provider |-> NoProvider]

-----------------------------------------------------------------------------
(* runChatCommand: the model's own provider is asked of the policy before  *)
(* it is taken, for the agent that is chosen then.                         *)

SlipKeepsProvider(c, a) == [c EXCEPT !.agent = a]

(* /agent: another agent, and nothing chosen for the one before.           *)
ChooseAgent(c, a) == [agent |-> a, provider |-> NoProvider]

SetModel(c, p) == IF <<c.agent, p>> \in Allowed THEN [c EXCEPT !.provider = p] ELSE c

Commanded ==
  {ChooseAgent(choice, a) : a \in Agents} \cup {SetModel(choice, p) : p \in Providers}
  \cup {[choice EXCEPT !.provider = NoProvider], choice}

-----------------------------------------------------------------------------
(* Asking for a line.  Whoever asks writes a prompt, and takes the line    *)
(* that was typed first, or waits behind the others.                       *)

Approves == {"yes"}

(* The line arrives at a question.                                         *)
AnswerQuestion(q, line) ==
  /\ answer' = [answer EXCEPT ![q] = [what |-> IF line.text \in Approves THEN "approve" ELSE "reject",
                                      at |-> line.at]]
  /\ open' = 0
  /\ UNCHANGED <<asked, queue, ofTurn>>

(* The line arrives at the main loop, which runs a turn with it, or a      *)
(* command and asks again.                                                 *)
Loop(line, rest, others) ==
  CASE line.text = "/exit" ->
         /\ closed' = TRUE /\ lines' = rest /\ waiting' = <<>>
         /\ UNCHANGED <<prompt, turn, turns, choice>>
    [] line.text = "/help" ->
         /\ choice' \in Commanded
         /\ prompt' = You /\ lines' = rest /\ waiting' = Append(others, You)
         /\ UNCHANGED <<closed, turn, turns>>
    [] OTHER ->
         /\ turns < MaxTurns
         /\ turn' = turns + 1 /\ turns' = turns + 1
         /\ lines' = rest /\ waiting' = others
         /\ UNCHANGED <<closed, prompt, choice>>

(* The loop asked while a line was there: it has that one, and nothing     *)
(* comes between.                                                          *)
TypedAhead == lines # <<>> /\ waiting # <<>>

(* readline "line": the one who waited longest has it, else it is kept.    *)
Line(text) ==
  LET l == [text |-> text, at |-> prompt] IN
  /\ ~closed /\ ~TypedAhead /\ typed < MaxLines
  /\ typed' = typed + 1
  /\ IF waiting = <<>>
     THEN /\ lines' = Append(lines, l)
          /\ UNCHANGED <<waiting, prompt, closed, turn, turns, choice, approvals>>
     ELSE IF Head(waiting) = You
     THEN Loop(l, lines, Tail(waiting)) /\ UNCHANGED approvals
     ELSE /\ AnswerQuestion(Head(waiting), l)
          /\ waiting' = Tail(waiting)
          /\ UNCHANGED <<lines, prompt, closed, turn, turns, choice>>

(* The turn is over and the loop asks for the next message.                *)
AskYou ==
  /\ prompt' = You
  /\ waiting' = Append(waiting, You)

TakeTypedAhead ==
  /\ ~closed /\ TypedAhead
  /\ Loop(Head(lines), Tail(lines), SubSeq(waiting, 1, Len(waiting) - 1))
  /\ UNCHANGED <<typed, approvals>>

-----------------------------------------------------------------------------
(* A turn, as far as its approvals go.                                     *)

RequestApproval ==
  /\ turn # 0 /\ ~closed /\ asked < MaxQuestions
  /\ asked' = asked + 1 /\ queue' = Append(queue, asked + 1)
  /\ ofTurn' = [ofTurn EXCEPT ![asked + 1] = turn]
  /\ UNCHANGED <<input, turn, turns, open, answer, choice>>

SlipKeptAhead == lines

(* Whatever was typed ahead is not an answer.                              *)
KeptAhead == <<>>

SlipMayAsk == queue # <<>>

(* One question at a time, whichever turn it is of.                        *)
MayAsk == queue # <<>> /\ open = 0

AskApproval ==
  /\ MayAsk /\ ~TypedAhead
  /\ prompt' = Head(queue) /\ queue' = Tail(queue)
  /\ IF closed
     THEN /\ answer' = [answer EXCEPT ![Head(queue)] = [what |-> "reject", at |-> Head(queue)]]
          /\ UNCHANGED <<lines, waiting, open>>
     ELSE IF KeptAhead = <<>>
     THEN /\ lines' = <<>> /\ waiting' = Append(waiting, Head(queue)) /\ open' = Head(queue)
          /\ UNCHANGED answer
     ELSE /\ lines' = Tail(KeptAhead)
          /\ answer' = [answer EXCEPT ![Head(queue)] =
                          [what |-> IF Head(KeptAhead).text \in Approves THEN "approve" ELSE "reject",
                           at |-> Head(KeptAhead).at]]
          /\ UNCHANGED <<waiting, open>>
  /\ UNCHANGED <<typed, closed, turn, turns, asked, ofTurn, choice>>

Pending(t) == \E q \in Questions : ofTurn[q] = t /\ answer[q] = Unanswered

(* The turn ends with every answer it asked for.                           *)
TurnEnds ==
  /\ turn # 0 /\ ~closed /\ ~Pending(turn)
  /\ turn' = 0 /\ AskYou
  /\ UNCHANGED <<typed, lines, closed, turns, approvals, choice>>

(* Ctrl-C, a time limit or another step's failure ends it with questions   *)
(* still open.  Those keep their place in the queue and in the line.       *)
Interrupt ==
  /\ turn # 0 /\ ~closed /\ Pending(turn)
  /\ turn' = 0 /\ AskYou
  /\ UNCHANGED <<typed, lines, closed, turns, approvals, choice>>

(* Ctrl-D: every one who waits is given nothing, which is a no.            *)
Close ==
  /\ ~closed /\ ~TypedAhead /\ closed' = TRUE
  /\ waiting' = <<>> /\ lines' = <<>>
  /\ IF open # 0
     THEN answer' = [answer EXCEPT ![open] = [what |-> "reject", at |-> open]] /\ open' = 0
     ELSE UNCHANGED <<answer, open>>
  /\ turn' = 0
  /\ UNCHANGED <<typed, prompt, turns, asked, queue, ofTurn, choice>>

Next ==
  \/ \E text \in Texts : Line(text)
  \/ TakeTypedAhead \/ RequestApproval \/ AskApproval \/ TurnEnds \/ Interrupt \/ Close

Spec == Init /\ [][Next]_vars

-----------------------------------------------------------------------------
TypeOK ==
  /\ typed \in 0..MaxLines /\ Len(lines) <= MaxLines
  /\ \A n \in DOMAIN waiting : waiting[n] \in 0..MaxQuestions
  /\ prompt \in 0..MaxQuestions /\ turn \in 0..turns /\ turns \in 0..MaxTurns
  /\ open \in 0..asked /\ closed \in BOOLEAN
  /\ \A q \in Questions : answer[q].what \in {"none", "approve", "reject"}
  /\ choice.agent \in Agents /\ choice.provider \in Providers \cup {NoProvider}

(* A yes that a running turn is given was typed to that very question: its *)
(* prompt was the one on the screen.  Nothing typed ahead, and nothing     *)
(* meant for a question of a turn that is gone, approves anything.         *)
YesIsMeant ==
  \A q \in Questions :
    ofTurn[q] = turn /\ turn # 0 /\ answer[q].what = "approve" => answer[q].at = q

(* The provider chosen for the next turn is one the policy allows for the  *)
(* agent that will have it.                                                *)
ChoiceIsAllowed ==
  choice.provider # NoProvider => <<choice.agent, choice.provider>> \in Allowed
=============================================================================
