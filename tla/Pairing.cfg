\* A token is minted, spent over an SSH connection, and its identity revoked.
SPECIFICATION Spec
CONSTANTS
  Cmd = {p1}
  Relay = relay
  Tok = {t1, t2}
  Id = {i1, i2}
  Absent = absent
  Torn = torn
  None = none
  Algo = {rsa, ed}
  MaxGen = 2
  NoKey = nokey
SYMMETRY Symmetric
INVARIANTS
  TypeOK
  TokenIsSpentOnce
  StoreIsSound
PROPERTIES
  VerdictIsRight
