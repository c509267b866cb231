CONSTANTS
  digits = digits
  letters = letters
  transfer = transfer
  approval = approval
  Logs <- MCLogs
  DigitsOnly <- MCDigitsOnly
  Any = Any
  Limits = {0, 1, 2}
  Retention = TRUE
CONSTRAINT OneReader
SPECIFICATION Spec
INVARIANTS TypeOK PagingSkipsNothing StatsAddUp QueriesAgree
CHECK_DEADLOCK FALSE
