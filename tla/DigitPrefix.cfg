SPECIFICATION IntakeSpec
CONSTANTS
  Filers = {f1, f2, f3, f4, f5}
  Syncs = {}
  Ticks = {}
  Messages = {}
  Replies = {}
  PrefixDigits = 3
  MaxInt = 2147483647
  MaxCalls = 5
  MaxRedelivered = 0
  MaxTickDeaths = 0
INVARIANTS
  SequenceNeverRunsOut
CHECK_DEADLOCK FALSE
