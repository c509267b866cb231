SPECIFICATION Spec
CONSTANTS
  Requests = {"r1"}
  Loops = {"l1", "l2"}
  BatchSize = 2
  EnableMetrics = TRUE
  Nobody = "nobody"
INVARIANTS TypeOK OneLoop StoppedMeansQuiet CleanShutdown
PROPERTIES ImplementsService ShutdownTerminates OnlyStopBlocks
CHECK_DEADLOCK FALSE
