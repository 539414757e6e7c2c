SPECIFICATION Spec
CONSTANTS
  Backends = {"b1"}
  Handlers <- OneBackend
  MaxSessions = 1
  MaxCrashes = 0
INVARIANT BuildTimeKept
CHECK_DEADLOCK FALSE
