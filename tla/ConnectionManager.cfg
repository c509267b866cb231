SPECIFICATION Spec
CONSTANTS
  Callers = {"a", "b"}
  Names = {1, 2, 3}
  NoClient = NoClient
  NodeCount = 2
  Sockets = {0}
  WrongNetwork = {1}
  RetryAttempts = 2
  Nobody = "nobody"
INVARIANTS TypeOK SharedClientIsOpen FailoverFindsTheNode
