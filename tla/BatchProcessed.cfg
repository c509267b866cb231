SPECIFICATION FairSpec
CONSTANTS
  e1 = e1
  e2 = e2
  e3 = e3
  r1 = r1
  r2 = r2
  w1 = w1
  Nil = Nil
  Events = {e1, e2}
  Invalid = {}
  RuleIds = {r1}
  WorkflowIds = {w1}
  Definitions = {}
  Preloaded <- NoRules
  MaxConcurrentProcessing = 2
  MaxCalls = 1
INVARIANT AllEventsProcessed
CHECK_DEADLOCK FALSE
