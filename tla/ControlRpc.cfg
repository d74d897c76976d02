\* A connection and its successors, and a caller whose requests may time out
\* and be answered while the next one waits.
CONSTANTS
  c1 = c1
  c2 = c2
  q1 = q1
  k1 = k1
  k2 = k2
  None = None
  Conn = {c1, c2}
  Caller = {q1}
  Corr = {k1, k2}
SPECIFICATION FairSpec
INVARIANTS
  AnswerIsTrue
  PendingIsAwaited
  HealthyLinkIsKept
PROPERTIES
  StuckConnEnds
