\* One poller that is created and deleted, two results, batches of two, failing
\* statements, a signal at any time, one crash or restart.
CONSTANTS
  k1 = k1
  Keys = {k1}
  Samples = {s1, s2}
  KeyOf <- AllOfK1
  Outcomes = {"ok", "timeout"}
  Recs = {r1, r2, r3}
  BatchSize = 2
  MaxStarts = 1
  Deletable = {k1}
  StoreMayFail = TRUE
  None = None
SPECIFICATION Spec
SYMMETRY Symmetry
INVARIANTS TypeOK BufferBounded FlushedBeforeClose TotalsCovered StoredOnce
PROPERTIES ImplementsLog
