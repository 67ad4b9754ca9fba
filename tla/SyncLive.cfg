\* One poller, two results that time out, batches of two, a store that may fail,
\* a signal at any time, no crash.
CONSTANTS
  k1 = k1
  Keys = {k1}
  Samples = {s1, s2}
  KeyOf <- AllOfK1
  Outcomes = {"timeout"}
  Recs = {r1}
  BatchSize = 2
  MaxStarts = 0
  Deletable = {}
  StoreMayFail = TRUE
  None = None
SPECIFICATION FairSpec
PROPERTIES PendingSettles SignalEndsProcess
