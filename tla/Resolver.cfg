\* A worker and a client resolve the configuration while it changes three times; a cached
\* result expires after two ticks.
CONSTANTS
  Values = {v1, v2}
  ServerDefault = v1
  OwnTimeouts = {None}
  Fallback = v1
  BuiltIn = builtin
  Workers = {w1}
  Clients = {c1}
  TTL = 2
  MaxChanges = 3
  None = None
SPECIFICATION FairSpec
INVARIANTS
  TypeOK
  ResolvesEffective
PROPERTIES
  ConfigCatchesUp
