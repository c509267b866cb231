SPECIFICATION Spec
CONSTANTS
  Backend = "sqlite"
  Addresses = {"token", "late"}
  InitialContracts = {"token"}
  BadAbi = {}
  Emits <- MCEmits
  EmitsAnonymous = {}
  Calls = {"AddContract", "RemoveContract"}
  ConfirmationBlocks = 2
  BatchSize = 2
  MaxReorgDepth = 2
  InitialHead = 3
  ForkDepth = 2
  WordSize = 16
  MaxHeight = 5
  MaxForks = 1
  MaxFaults = 2
  MaxCalls = 2
INVARIANTS NoOrphanedEvents NoSilentLoss TableIsMonitored
PROPERTIES ImplementsBlockScan CatchesUp
