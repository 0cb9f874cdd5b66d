\* One request at a time beside a sweeper and the auto-close job, without automation.
SPECIFICATION DeskSpec
CONSTANTS
  Requests = {r1}
  Sweepers = {w1}
  Closers = {c1}
  NoOne = NoOne
  Transitions <- DefaultTransitions
  Target <- SmallTarget
  RuleActions = {}
  MaxTime = 3
INVARIANT PauseCreditedOnce
PROPERTIES AutoCloseSparesReopened NothingIsForgotten
