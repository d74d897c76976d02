\* One device and one stream, and one operator who releases the device.
CONSTANTS
  d1 = d1
  s1 = s1
  s2 = s2
  o1 = o1
  u1 = u1
  Rescanner = Rescanner
  Tunnel = Tunnel
  Control = Control
  None = None
  Dev = {d1}
  Sid = {s1, s2}
  Mon = {}
  Stream = {o1}
  Operator = {u1}
  Granted = {}
  Recorded = {}
  MaxSessions = 1
  OperatorOps = {"release"}
  SavesFail = {}
  PortMayFail = FALSE
SPECIFICATION Spec
PROPERTIES
  ReleaseFreesClaim
