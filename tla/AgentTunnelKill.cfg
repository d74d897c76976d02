\* One tunnel and one handler: the kill switch is pulled.
CONSTANTS
  t1 = t1
  u1 = u1
  None = None
  Tun = {t1}
  Ui = {u1}
SPECIFICATION Spec
INVARIANTS
  KillSwitchSevers
