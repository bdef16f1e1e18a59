SPECIFICATION MCSpec
CONSTANTS
  QueueKeys = {k}
  Configs <- MCQueues
  Names = {n1, n2}
  QUEUE_CAPACITY = 1
  Second = 2
  Token = 10
  Free = Free
  Never = Never
  NoLimit = NoLimit
  Idle = Idle
  MaxRegistrations = 2
  Processes = {p1, p2}
  MaxSeeds = 2
  MaxStarts = 2
  MaxWrites = 1
  MaxExports = 2
  MaxFaults = 1
  Handlers = {h1, h2}
  MaxReloads = 2
SYMMETRY Symmetry
INVARIANTS SuiteKeeps RoutingFollowed FeedsUnbroken SlotsAccounted OutcomesAreOwn Paced
CHECK_DEADLOCK FALSE
