SPECIFICATION Spec
CONSTANTS
  Backends = {"b1", "b2"}
  Handlers <- TwoBackends
  MaxSessions = 2
  MaxCrashes = 1
INVARIANTS TypeOK ReservationHeld GuardOwned
PROPERTY GuardNotStolen
CHECK_DEADLOCK FALSE
