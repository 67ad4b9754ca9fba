\* Two targets, two tags of which one is a prefix of the other, ids that are segments of
\* them, a host and a target without one, buffers of one and two samples; four polls and
\* requests in any order.
CONSTANTS
  MaxId = 2
  Name <- Segments
  Hosts = {h1, NoHost}
  NoHost = NoHost
  Tags <- SharedPrefix
  Sizes = {1, 2}
  ErrLimit = 2
  QueueSize = 1
  PageLimit = 1
  MaxEvents = 4
  None = None
SPECIFICATION Spec
INVARIANTS TypeOK IndicesAgree TagsAgree RingKeepsLatest QueryFinds BrowseReaches ListingComplete
CHECK_DEADLOCK FALSE
