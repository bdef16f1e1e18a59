CONSTANTS
  Messages = {1, 2}
  Streams = {"stream"}
  Pulls = {"pull"}
  Others = {"timer", "call"}
  ExactlyOnce = TRUE
  MaxTries = 2
  IntLimit = 4
  IndexedBytes = 2
  OrderValues <- MCOrderValues
  DocFields <- MCDocFields
  Filters <- MCFilters
  Orders <- MCOrders
  MaxChanges = 2
  QueueDepth = 1
SPECIFICATION MCSpec
INVARIANTS NoneAsleep
PROPERTIES FormatsExact QueriesMeant RulesMeant SurfacesMeant DropsEnd
CHECK_DEADLOCK FALSE
