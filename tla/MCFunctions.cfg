SPECIFICATION MCSpec
CONSTANTS
  Sources <- MCSources
  Commits <- MCCommits
  Messages <- MCMessages
  Subscribable <- MCSubscribable
  MaxConcurrent = 1
  MaxAttempts = 2
  DedupeCapacity = 1
  MaxEdits = 1
  MaxSwitches = 2
  MaxCommits = 1
  MaxEnqueued = 2
  MaxFaults = 1
  Posts = {p1, p2}
  OnePost = {p1}
  Gets = {g1}
  MaxWebFaults = 1
INVARIANTS
  RoutingCurrent
  EventsRunOnce
  BrowsersServed
CHECK_DEADLOCK FALSE
