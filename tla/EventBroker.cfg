SPECIFICATION Spec
CONSTANTS
  Streams = {"s1", "s2"}
  HistoryLimit = 3
  Capacity = 2
  MaxEvents = 4
  MaxRestarts = 1
INVARIANTS TypeOK NothingSkipped NoSendOnClosed
PROPERTY InOrderOnce
CHECK_DEADLOCK FALSE
