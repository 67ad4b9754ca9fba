\* One result, a store that never fails, a signal at any time, no crash.
CONSTANTS
  k1 = k1
  Keys = {k1}
  Samples = {s1}
  KeyOf <- AllOfK1
  Outcomes = {"ok"}
  Recs = {r1}
  BatchSize = 2
  MaxStarts = 0
  Deletable = {}
  StoreMayFail = FALSE
  None = None
SPECIFICATION Spec
INVARIANTS CleanExit
