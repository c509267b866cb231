SPECIFICATION Spec
CONSTANTS
  Backend = "sqlite"
  Addresses = {"token", "late"}
  InitialContracts = {"token"}
  BadAbi = {}
  Emits <- MCEmits
  EmitsAnonymous <- MCAnonymous
  Calls <- Operations
  ConfirmationBlocks = 1
  BatchSize = 2
  MaxReorgDepth = 2
  InitialHead = 2
  ForkDepth = 1
  WordSize = 16
  MaxHeight = 3
  MaxForks = 1
  MaxFaults = 1
  MaxCalls = 2
INVARIANTS TypeOK CompletedMeansSaved
PROPERTIES DeletionIsBounded 
