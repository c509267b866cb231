SPECIFICATION Spec
CONSTANTS
  Requests = {"r1"}
  Loops = {"l1", "l2"}
  BatchSize = 2
  EnableMetrics = TRUE
  Nobody = "nobody"
INVARIANTS RunningMeansPolling
CHECK_DEADLOCK FALSE
