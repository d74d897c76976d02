\* Two tunnels, the second of which replaces the first, and two handlers.
CONSTANTS
  t1 = t1
  t2 = t2
  u1 = u1
  u2 = u2
  None = None
  Tun = {t1, t2}
  Ui = {u1, u2}
SPECIFICATION FairSpec
INVARIANTS
  ConnIsServed
PROPERTIES
  
  ResumeReconnects
  ReplacedTunnelEnds
