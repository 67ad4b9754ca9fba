\* One key is removed and added again at any time, the other one is stable.
CONSTANTS
  Keys = {k1, k2}
  Tags = {t1, t2}
  Workers = {w1, w2}
  QueueSize = 1
  Intervals = {1}
  RequeueDelay = 1
  Removable = {k1}
  Pausable = {k1}
  MayStop = FALSE
  None = None
SPECIFICATION Spec
SYMMETRY Symmetry
INVARIANTS TypeOK NeverStranded NoLostWakeup StableOnce
