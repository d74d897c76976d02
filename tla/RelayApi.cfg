\* Two agents whose connections overlap, one device each of which may carry
\* one name, a token scoped to a1 and a read-only one, two requests.
CONSTANTS
  a1 = a1
  a2 = a2
  c1 = c1
  c2 = c2
  n1 = n1
  d1 = d1
  s1 = s1
  q1 = q1
  q2 = q2
  t1 = t1
  t2 = t2
  None = None
  Agent = {a1, a2}
  Conn = {c1, c2}
  Name = {n1}
  Uuid = {d1}
  MaxResets = 2
  Sid = {s1}
  Request = {q1, q2}
  Token = {t1, t2}
  ReadOnly = {t2}
  Scoped = {t1}
  HomeAgents = {a1}
SPECIFICATION Spec
SYMMETRY Symmetry
INVARIANTS
  NewestConnWins
  AccessIsGranted
  NewsIsToldOnce
