\* One device, two streams, and one operator who exposes, hides and releases it
\* and may pull the kill switch.
CONSTANTS
  d1 = d1
  s1 = s1
  s2 = s2
  s3 = s3
  o1 = o1
  o2 = o2
  u1 = u1
  Rescanner = Rescanner
  Tunnel = Tunnel
  Control = Control
  None = None
  Dev = {d1}
  Sid = {s1, s2, s3}
  Mon = {}
  Stream = {o1, o2}
  Operator = {u1}
  Granted = {}
  Recorded = {}
  MaxSessions = 1
  OperatorOps = {"expose", "release", "kill"}
  SavesFail = {"rescan"}
  PortMayFail = FALSE
SPECIFICATION Spec
SYMMETRY Symmetry
INVARIANTS
  ExclusiveClaims
  SessionIsServed
  HiddenDeviceIsReleased
PROPERTIES
  ImplementsAccess
