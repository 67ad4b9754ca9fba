\* A poller whose protocol configuration may set the timeout; no change is needed.
CONSTANTS
  Values = {v1, v2}
  ServerDefault = v1
  OwnTimeouts = {None, v2}
  Fallback = v1
  BuiltIn = builtin
  Workers = {w1}
  Clients = {c1}
  TTL = 1
  MaxChanges = 0
  None = None
SPECIFICATION Spec
INVARIANT UsesResolvedTimeout
