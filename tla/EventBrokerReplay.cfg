SPECIFICATION FairSpec
CONSTANTS
  Streams = {"s1"}
  HistoryLimit = 3
  Capacity = 2
  MaxEvents = 4
  MaxRestarts = 0
PROPERTY SubscriptionReplays
CHECK_DEADLOCK FALSE
