SPECIFICATION FairSpec
CONSTANTS
  c1 = c1
  c2 = c2
  log = log
  None = None
  Callers <- MCCallers
  Orders <- MCOrders
  Channels <- MCChannels
  RetryAttempts = 4
  MaxAttempts = 2
  HasTimeout = TRUE
  Width = 6
  BaseDelay = 5
  MaxDelay = 12
CONSTRAINT OneEmail
INVARIANTS TypeOK SentMeansAnswered EmailAtMostOnce RequestsBounded CountersAgree PausesDouble
PROPERTIES QuietAfterEnd DeliveriesEnd
CHECK_DEADLOCK FALSE
