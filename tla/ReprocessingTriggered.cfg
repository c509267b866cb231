SPECIFICATION Spec
CONSTANTS
  Backend = "sqlite"
  Addresses = {"token", "late"}
  InitialContracts = {"token"}
  BadAbi = {}
  Emits <- MCEmits
  EmitsAnonymous = {}
  Calls = {"HandleReorg"}
  ConfirmationBlocks = 2
  BatchSize = 2
  MaxReorgDepth = 2
  InitialHead = 3
  ForkDepth = 2
  WordSize = 16
  MaxHeight = 5
  MaxForks = 1
  MaxFaults = 0
  MaxCalls = 1
INVARIANTS ReprocessingTriggered
