CONSTANTS
  Ids <- MCIds
  Cutoff = 2
  NoteIds = {n1}
  MaxAttempts = 1
  Addresses = {a1}
  Blocks = {1}
  Conns = {c1, c2}
  Batches <- MCBatches
CONSTRAINT AtMostTwoTables
SYMMETRY Symmetry
SPECIFICATION Spec
INVARIANTS TypeOK OneRowPerLog
PROPERTIES ImplementsStorage
CHECK_DEADLOCK FALSE
