SPECIFICATION FairSpec
CONSTANTS
  e1 = e1
  e2 = e2
  e3 = e3
  r1 = r1
  r2 = r2
  w1 = w1
  Nil = Nil
  Events <- MCEvents
  Invalid <- MCInvalid
  RuleIds <- MCRules
  WorkflowIds <- MCWorkflows
  Definitions <- MCDefinitions
  Preloaded <- MCPreloaded
  MaxConcurrentProcessing = 2
  MaxCalls = 2
INVARIANTS TypeOK ConcurrencyBounded BatchAddsUp EveryRuleExecuted
PROPERTY BatchReturns
\* The batch ends.
CHECK_DEADLOCK FALSE
