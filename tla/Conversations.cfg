SPECIFICATION ConversationsSpec
CONSTANTS
  None = None
  Processes = {"cli", "page"}
  Mortal = {"page"}
  Sessions = {"s1"}
  Files = {"f"}
  Contents = {Absent, a}
  Absent = Absent
  NoProcess = NoProcess
  NoWrite = NoWrite
  Limit = 3
  ChatAgents = {"a", "b"}
  ChatProviders = {"p"}
  Allowed <- OneAllowed
  MaxLines = 5
  MaxTurns = 2
  MaxQuestions = 3
  MaxMessages = 2
  MaxSessions = 2
  MaxFlight = 2
INVARIANTS
  WellTyped
  LeaseKept
  TurnsInOrder
  ScreenIsTrue
  LinesAreMeant
PROPERTIES
  UndoSpares
  UndoComplete
  LeaseReturned
  PageKeepsUp
CHECK_DEADLOCK FALSE
