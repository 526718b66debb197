SPECIFICATION Services
CONSTANTS
  Conn = {c1, c2}
  Channel = {"p1", "q1"}
  Pattern = {"p*"}
  Matches <- MCMatches
  UserDb = {2}
  MaxRequests = 2
  MaxPushes = 1
  MaxConnects = 3
  TimerDb = {0, 1}
  Name = {"a", "b", "c"}
  Deadline = {1, 2}
  Batch = 2
  Val = {"x", "y"}
  Empty = "undefined"
  InitialCapacity = 2
  MaxLength = 5
  Member = {1, 2, 3}
  Score = {1, 2}
  MaxLevel = 2
  Header = Header
  Nil = Nil
  GatewayClient = {1}
  Session <- MCSession
  Capacity = 2
  Refill = 1
  MaxEntries = 2
  MaxClock = 2
  MaxEvents = 5
  ConsoleDb = {0, 1}
  Bucket = 2
  FirstKeys <- MCFirstKeys
  MaxActs = 3
  Byte <- MCByte
  Digits <- MCDigits
  Message <- MCMessage
  MaxDepth = 3
  MaxMessages = 2
  MaxBuffer = 20
  MaxCount = 2
  MaxNesting = 1
INVARIANTS
  IndexExact LeftIsForgotten
  OwnReplies BelievedDb DestroyedIsFinal ShownStatus
  HeapExact SweepTakesEarliest
  ReadsExact
  RateBound AuditExact
  CallbacksRouted PatientUserSeesServer
  CutAnywhere
PROPERTIES EverySettled IsList
CHECK_DEADLOCK FALSE
