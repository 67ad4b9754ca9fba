\* Targets, and a filter whose first criterion none of them meets.
CONSTANTS
  MaxId = 2
  Name <- Segments
  Hosts = {h1, NoHost}
  NoHost = NoHost
  Tags <- SharedPrefix
  Sizes = {1}
  ErrLimit = 1
  QueueSize = 1
  PageLimit = 1
  MaxEvents = 2
  None = None
SPECIFICATION Spec
INVARIANT QueryMatches
CHECK_DEADLOCK FALSE
