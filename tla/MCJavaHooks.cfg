SPECIFICATION CallSpec
CONSTANTS
  MaxAttempts = 3
  Clients = {"java"}
INVARIANTS ResponsesTold
CHECK_DEADLOCK FALSE
