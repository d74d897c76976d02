\* Two readers of a session whose buffer holds less than what is sent.
CONSTANTS
  r1 = r1
  r2 = r2
  Reader = {r1, r2}
  Bytes = 4
  LineEnds = {1, 3}
  Chunk = 2
  BufCap = 3
  MaxRead = 2
SPECIFICATION FairSpec
INVARIANTS
  TypeOK
  StreamIsIntact
  SleepersHaveReason
  EofIsLast
PROPERTIES
  ReadsReturn
  DrainedSessionIsReaped
\* A session that is over, with no read under way, has nothing left to do.
CHECK_DEADLOCK FALSE
