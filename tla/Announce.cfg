\* Two devices, two announcing goroutines and the one of the session.
CONSTANTS
  d1 = d1
  d2 = d2
  g1 = g1
  g2 = g2
  Dev = {d1, d2}
  Go = {g1, g2}
  Session = Session
  MaxWire = 2
SPECIFICATION FairAnnounceSpec
INVARIANTS
  HiddenStaysUnknown
PROPERTIES
  ListHeals
