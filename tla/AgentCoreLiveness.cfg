\* One device, one stream, one operator who exposes, hides and monitors it, a
\* rescan that may start its monitor as well and may fail to save, and a monitor
\* whose port may fail.
CONSTANTS
  d1 = d1
  s1 = s1
  m1 = m1
  o1 = o1
  u1 = u1
  Rescanner = Rescanner
  Tunnel = Tunnel
  Control = Control
  None = None
  Dev = {d1}
  Sid = {s1}
  Mon = {m1}
  Stream = {o1}
  Operator = {u1}
  Granted = {}
  Recorded = {d1}
  MaxSessions = 1
  OperatorOps = {"expose", "monitor"}
  SavesFail = {"rescan"}
  PortMayFail = TRUE
SPECIFICATION FairSpec
INVARIANTS
  PortHasOwner
PROPERTIES
  DeviceIsFreed
  DeadStreamLeaves
