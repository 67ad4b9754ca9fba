\* The queue has room for every key: every scheduled key is polled again, and
\* Stop ends every goroutine.
CONSTANTS
  Keys = {k1, k2}
  Tags = {t1}
  Workers = {w1, w2}
  QueueSize = 2
  Intervals = {1, 2}
  RequeueDelay = 1
  Removable = {}
  Pausable = {}
  MayStop = TRUE
  None = None
SPECIFICATION FairSpec
INVARIANT NoOversleep
PROPERTIES PolledAgain StopEndsAll
