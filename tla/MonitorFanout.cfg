\* Two sessions, a history smaller than a session's buffer, and a device that
\* says more than both hold.
CONSTANTS
  s1 = s1
  s2 = s2
  Sub = {s1, s2}
  Bytes = 5
  Chunk = 2
  MaxRead = 2
  HistoryBytes = 2
  SubscriberBytes = 3
SPECIFICATION FairSpec
CHECK_DEADLOCK FALSE
INVARIANTS
  TypeOK
  HistoryIsRecent
  OnlyOverflowLoses
PROPERTIES
  ReadersReturn
