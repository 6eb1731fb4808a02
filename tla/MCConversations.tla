--------------------------- MODULE MCConversations ----------------------------
(* Conversations: the workspace they share, and where they are held. A     *)
(* behaviour is that of the component `part` names: the workspace (with    *)
(* the constants of the configuration), the chat of the page, a chat in a  *)
(* terminal, or the page that polls what runs and chats have become.       *)
EXTENDS ChatWorkspace

CONSTANTS
  None,
  ChatAgents, ChatProviders, Allowed,       \* whom the policy lets talk to whom
  MaxLines, MaxTurns, MaxQuestions,         \* of a chat in a terminal
  MaxMessages, MaxSessions, MaxFlight       \* of the chat on a page

\* "none" says that no provider is chosen, and 0 that nobody asks.
ASSUME TerminalAssumption ==
  /\ ChatAgents # {} /\ "none" \notin ChatProviders
  /\ MaxLines \in Nat /\ MaxTurns \in Nat /\ MaxQuestions \in Nat

ASSUME ViewAssumption == MaxMessages \in Nat /\ MaxSessions \in Nat /\ MaxFlight \in Nat

VARIABLES
  part,   \* the component whose behaviour this is
  recorded, running, compacting, created, viewSession, viewTurns, viewPending, on, box,
  viewTyped, flight, line, last, orderly,
  terminalTyped, lines, waiting, prompt, turn, terminalTurns, asked, queue, open, ofTurn,
  answer, choice, closed,
  disk, tracked, errors, accepted, pageFlight, pageHeld, drawn, hidden, field

\* One of the agents may use the provider.
OneAllowed == {<<"a", "p">>}

View == INSTANCE ChatView WITH
  session <- viewSession, turns <- viewTurns, pending <- viewPending, typed <- viewTyped

Terminal == INSTANCE ChatTerminal WITH
  Agents <- ChatAgents, Providers <- ChatProviders, NoProvider <- "none",
  typed <- terminalTyped, turns <- terminalTurns

Page == INSTANCE RunsPage WITH
  Runs <- {"r"}, MaxFlight <- 2, held <- pageHeld, flight <- pageFlight

chatVars == <<lease, files, turns, summary, spent, pc, session, number, journal, pending,
              late, foreign>>
viewVars == <<recorded, running, compacting, created, viewSession, viewTurns, viewPending,
              on, box, viewTyped, flight, line, last, orderly>>
terminalVars == <<terminalTyped, lines, waiting, prompt, turn, terminalTurns, asked, queue,
                  open, ofTurn, answer, choice, closed>>
pageVars == <<disk, tracked, errors, accepted, pageFlight, pageHeld, drawn, hidden, field>>
conversationsVars == <<part, chatVars, viewVars, terminalVars, pageVars>>

Parts == {"chat", "view", "terminal", "page"}

\* The others rest in an initial state, one and the same.
ConversationsInit ==
  /\ part \in Parts
  /\ Init
  /\ part # "chat" => files = [f \in Files |-> Absent]
  /\ View!Init
  /\ Terminal!Init
  /\ Page!Init
  /\ part # "terminal" => choice.agent = CHOOSE a \in ChatAgents : TRUE

ChatStep ==
  /\ part = "chat" /\ Next
  /\ UNCHANGED <<part, viewVars, terminalVars, pageVars>>

ViewStep ==
  /\ part = "view" /\ View!Next
  /\ UNCHANGED <<part, chatVars, terminalVars, pageVars>>

TerminalStep ==
  /\ part = "terminal" /\ Terminal!Next
  /\ UNCHANGED <<part, chatVars, viewVars, pageVars>>

PageStep ==
  /\ part = "page" /\ Page!Next
  /\ UNCHANGED <<part, chatVars, viewVars, terminalVars>>

ConversationsNext ==
  \/ ChatStep \/ ViewStep \/ TerminalStep \/ PageStep

\* The fairness of the workspace, and of the page that polls; in the others a person, and time,
\* may leave things as they are.
LeaseFairness ==
  \A p \in Processes : /\ WF_chatVars(part = "chat" /\ RunEnds(p))
                       /\ WF_chatVars(part = "chat" /\ GetsOn(p))

PageFairness ==
  /\ WF_pageVars(part = "page" /\ Page!Refresh)
  /\ \A i \in 1..2 : WF_pageVars(part = "page" /\ (Page!Arrives(i) \/ Page!Handle(i)))

ConversationsSpec == ConversationsInit /\ [][ConversationsNext]_conversationsVars
                     /\ LeaseFairness /\ PageFairness
-----------------------------------------------------------------------------
\* The component at work stays within the states and values its module names.
WellTyped ==
  /\ part = "chat" => TypeOK
  /\ part = "view" => View!TypeOK
  /\ part = "terminal" => Terminal!TypeOK
  /\ part = "page" => Page!TypeOK

\* The message that was accepted last is in the conversation on the page (client/chat.js).
ScreenIsTrue == part = "view" => View!MessageInSight

\* The page mentions every run whose start was answered, and while it is looked at it comes to
\* show what the server knows, in whatever order answers come (project-state.js, shell.js).
PageKeepsUp == Page!NothingVanishes /\ (part = "page" => Page!PageCatchesUp)

\* A line answers a question only if it was typed at that question's prompt, and a turn goes to
\* an agent and a provider the policy allows together (cli/chat.js).
LinesAreMeant == part = "terminal" => Terminal!YesIsMeant /\ Terminal!ChoiceIsAllowed
==============================================================================
