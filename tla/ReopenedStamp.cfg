\* Two requests at once, without automation, jobs or time.
SPECIFICATION DeskSafety
CONSTANTS
  Requests = {r1, r2}
  Sweepers = {}
  Closers = {}
  NoOne = NoOne
  Transitions <- DefaultTransitions
  Target <- SmallTarget
  RuleActions = {}
  MaxTime = 0
INVARIANT OpenHasNoStamp
CHECK_DEADLOCK FALSE
