SPECIFICATION PartsSpec
CONSTANTS
  BusThreads = {t1, t2}
  Events = {"e"}
  MaxSubs = 3
  MaxDepth = 2
  Users = {"u1", "u2"}
  Idle = "idle"
  Transitions <- MCTransitions
  Spans = {0, 1, 3}
  Wrap = 4
  MaxTime = 5
  MaxNesting = 2
  Callers = {"ticker"}
  Intervals = {0, 2}
  Modulus = 4
  MaxTasks = 3
  MaxClock = 5
  ClockWrap = 16
  Second = 4
  MaxTurn = 6
  MaxSockets = 3
  MessageUnits = 2
  SocketRoom = 3
  MaxMessages = 3
  LookupTime = 20
INVARIANTS EnterExitBalanced CallbackHasLastWord FiresNotEarly NeverTooOften TelemetryKeepsComing
  TelemetryReadable NoSocketLeak OnlyLastCut NeverGivenUp
PROPERTIES PublishIsOneRound ImplementsAtomicMachine NothingDueAfterTick ProgramOfServiceComesBack
CHECK_DEADLOCK FALSE
