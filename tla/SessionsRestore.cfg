\* Three connections with two tokens, sessions restored, cleaned up and created
\* again, a window of two steps.
CONSTANTS
  t1 = t1
  t2 = t2
  n1 = n1
  n2 = n2
  Conns = {c1, c2, c3}
  Sessions = {s1, s2}
  Tokens = {t1, t2}
  Namespaces = {n1, n2}
  Allowed <- Allow
  Pollers = {p1}
  Window = 2
  None = None
SPECIFICATION FairSpec
INVARIANTS TypeOK OneConnection ServedIsRegistered BindingAllowed
PROPERTIES BoundOnce LostResolves
