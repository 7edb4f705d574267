SPECIFICATION SchedulerSpec
CONSTANTS
  Callers = {"ticker", "other"}
  Intervals = {1, 3}
  Modulus = 16
  MaxTasks = 3
  MaxClock = 6
INVARIANT NeverTooOften
