---------------------------- MODULE MonitorFanout ----------------------------
(***************************************************************************)
(* What a monitor does with the bytes of its device                        *)
(* (internal/agent/monitor.go): its pump records them in a bounded history *)
(* and hands them to the subscribers, the ports of the sessions on the     *)
(* device; Tunnel.bridge (internal/agent/tunnel.go) reads a subscriber and *)
(* sends to the consumer, who may stall.                                   *)
(*                                                                         *)
(* A byte is its position in what the device says.  An action is one       *)
(* critical section of monitor.mu, within which those of the subscribers'  *)
(* locks are not told apart, or of subscriber.mu.                          *)
(***************************************************************************)
EXTENDS Naturals, Sequences, SequencesExt

CONSTANTS
  Sub,      \* subscribers
  Bytes,    \* bound on what the device says
  Chunk,    \* bound on what one read of the port returns
  MaxRead,  \* size of the bridge's buffer
  HistoryBytes,
  SubscriberBytes

ASSUME FanoutAssumption ==
  /\ {Bytes, Chunk, MaxRead, HistoryBytes, SubscriberBytes} \subseteq Nat \ {0}
  /\ HistoryBytes <= SubscriberBytes

VARIABLES
  port,     \* TRUE while the port is open and works
  pump,     \* the pump: reading, with a chunk at hand, ended
  chunk,    \* what it has read and not recorded yet
  history,  \* monitor.history
  closed,   \* monitor.closed
  subs,     \* monitor.subs
  buf,      \* subscriber.buf
  over,     \* subscriber.closed
  reader,   \* where the bridge's reader of a subscriber stands
  got,      \* what it has read so far
  first     \* history: the first position a subscriber was to see

vars == <<port, pump, chunk, history, closed, subs, buf, over, reader, got, first>>
source == <<port, pump, chunk, history>>

(* "none": not attached yet; "ended" and "failed": the reader has returned *)
(* at the end of the data, or as the consumer is gone.                     *)
Reader == {"none", "ready", "asleep", "sending", "ended", "failed"}

Init == /\ port = TRUE /\ pump = "read" /\ chunk = <<>>
        /\ history = <<>> /\ closed = FALSE /\ subs = {}
        /\ buf = [s \in Sub |-> <<>>]
        /\ over = [s \in Sub |-> FALSE]
        /\ reader = [s \in Sub |-> "none"]
        /\ got = [s \in Sub |-> <<>>]
        /\ first = [s \in Sub |-> 0]

From(i, j) == [k \in 1..(j - i + 1) |-> i + k - 1]
Newest(b, n) == SubSeq(b, Len(b) - n + 1, Len(b))

(* The last position that is recorded.                                     *)
Recorded == IF history = <<>> THEN 0 ELSE Last(history)

(* Mutant: nothing is dropped.                                             *)
AppendAll(b, p, max) == b \o p

(* Mutant: a buffer that would overflow starts anew.                       *)
AppendAnew(b, p, max) == IF Len(b) + Len(p) > max THEN Newest(p, IF Len(p) > max THEN max ELSE Len(p))
                         ELSE b \o p

(* appendBounded keeps the newest max bytes.                               *)
AppendBounded(b, p, max) ==
  IF Len(p) >= max THEN Newest(p, max)
  ELSE IF Len(b) + Len(p) > max THEN SubSeq(b, Len(b) + Len(p) - max + 1, Len(b)) \o p
  ELSE b \o p

Woken(s) == IF reader[s] = "asleep" THEN "ready" ELSE reader[s]

-----------------------------------------------------------------------------
(* The pump.                                                               *)
PumpReads(n) == /\ pump = "read" /\ port
                /\ Recorded + n <= Bytes
                /\ chunk' = From(Recorded + 1, Recorded + n)
                /\ pump' = "record"
                /\ UNCHANGED <<port, history, closed, subs, buf, over, reader, got, first>>

Receivers == {s \in subs : ~over[s]}

(* Record, push to every subscriber, and wake it.                          *)
PumpRecords ==
  /\ pump = "record"
  /\ history' = AppendBounded(history, chunk, HistoryBytes)
  /\ buf' = [s \in Sub |-> IF s \in Receivers THEN AppendBounded(buf[s], chunk, SubscriberBytes)
                           ELSE buf[s]]
  /\ reader' = [s \in Sub |-> IF s \in Receivers THEN Woken(s) ELSE reader[s]]
  /\ chunk' = <<>> /\ pump' = "read"
  /\ UNCHANGED <<port, closed, subs, over, got, first>>

(* The port fails, is unplugged, or is closed by Close.                    *)
PortFails == /\ port /\ port' = FALSE
             /\ UNCHANGED <<pump, chunk, history, closed, subs, buf, over, reader, got, first>>

(* close marks the subscribers and wakes them.                             *)
CloseSubs == /\ over' = [s \in Sub |-> over[s] \/ s \in subs]
             /\ reader' = [s \in Sub |-> IF s \in subs THEN Woken(s) ELSE reader[s]]

(* A read error, also that of a closed port, ends the monitor.             *)
PumpEnds == /\ pump = "read" /\ ~port
            /\ pump' = "ended"
            /\ closed' = TRUE
            /\ CloseSubs
            /\ UNCHANGED <<port, chunk, history, subs, buf, got, first>>

(* Close ends monitoring, and closes the port after it unlocked.           *)
Close == /\ ~closed
         /\ closed' = TRUE
         /\ CloseSubs
         /\ UNCHANGED <<source, subs, buf, got, first>>

-----------------------------------------------------------------------------
(* Mutant: the backlog is copied in a critical section of its own.         *)
AttachCopies(s) == /\ reader[s] = "none" /\ buf[s] = <<>> /\ history # <<>>
                   /\ buf' = [buf EXCEPT ![s] = history]
                   /\ first' = [first EXCEPT ![s] = Head(history)]
                   /\ UNCHANGED <<source, closed, subs, over, reader, got>>
AttachInTwoSteps(s) ==
  \/ AttachCopies(s)
  \/ /\ reader[s] = "none"
     /\ subs' = subs \cup {s}
     /\ reader' = [reader EXCEPT ![s] = "ready"]
     /\ UNCHANGED <<source, closed, buf, over, got, first>>

(* Mutant: attach does not look at closed.                                 *)
AttachAnyway(s) ==
  /\ reader[s] = "none"
  /\ buf' = [buf EXCEPT ![s] = AppendBounded(<<>>, history, SubscriberBytes)]
  /\ first' = [first EXCEPT ![s] = IF history = <<>> THEN 1 ELSE Head(history)]
  /\ reader' = [reader EXCEPT ![s] = "ready"]
  /\ subs' = subs \cup {s}
  /\ UNCHANGED <<source, closed, over, got>>

(* attach: the backlog, then what comes; a monitor that has ended gives    *)
(* its backlog and the end.                                                *)
Attach(s) ==
  /\ reader[s] = "none"
  /\ buf' = [buf EXCEPT ![s] = AppendBounded(<<>>, history, SubscriberBytes)]
  /\ first' = [first EXCEPT ![s] = IF history = <<>> THEN 1 ELSE Head(history)]
  /\ reader' = [reader EXCEPT ![s] = "ready"]
  /\ IF closed THEN over' = [over EXCEPT ![s] = TRUE] /\ UNCHANGED subs
     ELSE subs' = subs \cup {s} /\ UNCHANGED over
  /\ UNCHANGED <<source, closed, got>>

(* subscriber.Close, by CloseSession: mark, wake, ...                      *)
Leave(s) == /\ reader[s] # "none" /\ ~over[s]
            /\ over' = [over EXCEPT ![s] = TRUE]
            /\ reader' = [reader EXCEPT ![s] = Woken(s)]
            /\ UNCHANGED <<source, closed, subs, buf, got, first>>

(* ... and detach, under the monitor's lock.                               *)
Detach(s) == /\ s \in subs /\ over[s]
             /\ subs' = subs \ {s}
             /\ UNCHANGED <<source, closed, buf, over, reader, got, first>>

-----------------------------------------------------------------------------
(* bridge, from the device to the consumer.                                *)
Smaller(m, n) == IF m < n THEN m ELSE n

ReaderTakes(s) == /\ reader[s] = "ready" /\ buf[s] # <<>>
                  /\ LET n == Smaller(MaxRead, Len(buf[s]))
                     IN /\ got' = [got EXCEPT ![s] = @ \o SubSeq(buf[s], 1, n)]
                        /\ buf' = [buf EXCEPT ![s] = SubSeq(@, n + 1, Len(@))]
                  /\ reader' = [reader EXCEPT ![s] = "sending"]
                  /\ UNCHANGED <<source, closed, subs, over, first>>

ReaderSleeps(s) == /\ reader[s] = "ready" /\ buf[s] = <<>> /\ ~over[s]
                   /\ reader' = [reader EXCEPT ![s] = "asleep"]
                   /\ UNCHANGED <<source, closed, subs, buf, over, got, first>>

(* EOF, once the buffer is empty.                                          *)
ReaderEnds(s) == /\ reader[s] = "ready" /\ buf[s] = <<>> /\ over[s]
                 /\ reader' = [reader EXCEPT ![s] = "ended"]
                 /\ UNCHANGED <<source, closed, subs, buf, over, got, first>>

(* The consumer takes what it is sent, if it ever does, or is gone.        *)
Sent(s) == /\ reader[s] = "sending"
           /\ \E r \in {"ready", "failed"} : reader' = [reader EXCEPT ![s] = r]
           /\ UNCHANGED <<source, closed, subs, buf, over, got, first>>

Reads(s) == ReaderTakes(s) \/ ReaderSleeps(s) \/ ReaderEnds(s)
Pumps == PumpRecords \/ PumpEnds

Next == \/ \E n \in 1..Chunk : PumpReads(n)
        \/ PumpRecords \/ PumpEnds \/ PortFails \/ Close
        \/ \E s \in Sub : \/ Attach(s) \/ Leave(s) \/ Detach(s)
                          \/ ReaderTakes(s) \/ ReaderSleeps(s) \/ ReaderEnds(s) \/ Sent(s)

Spec == Init /\ [][Next]_vars

(* The goroutines run, but a consumer need not take what it is sent.       *)
FairSpec == Spec /\ WF_vars(Pumps) /\ \A s \in Sub : WF_vars(Reads(s))

-----------------------------------------------------------------------------
(* Every variable stays within its type, and the buffers within their      *)
(* bounds.                                                                 *)
TypeOK == /\ {port, closed} \subseteq BOOLEAN /\ pump \in {"read", "record", "ended"}
          /\ chunk \in Seq(1..Bytes) /\ Len(chunk) <= Chunk
          /\ history \in Seq(1..Bytes) /\ Len(history) <= HistoryBytes
          /\ subs \subseteq Sub
          /\ buf \in [Sub -> Seq(1..Bytes)]
          /\ \A s \in Sub : Len(buf[s]) <= SubscriberBytes
          /\ over \in [Sub -> BOOLEAN] /\ reader \in [Sub -> Reader]
          /\ got \in [Sub -> Seq(1..Bytes)] /\ first \in [Sub -> 0..Bytes]

(* The history is the newest of what was recorded, and all of it while it  *)
(* fits (monitor.go:36-38).                                                *)
HistoryIsRecent ==
  history = Newest(From(1, Recorded), Smaller(HistoryBytes, Recorded))

(* The position a subscriber is to see next.                               *)
Due(s) == IF got[s] = <<>> THEN first[s] ELSE Last(got[s]) + 1
Contiguous(b) == b = <<>> \/ b = From(Head(b), Last(b))

(* A subscriber misses nothing between the backlog and the live output: as *)
(* long as it is attached, its buffer is one piece that reaches up to what *)
(* was recorded last, and comes after what it has read.                    *)
NothingIsMissed == \A s \in Sub : reader[s] # "none" =>
  /\ Contiguous(buf[s])
  /\ buf[s] # <<>> => Head(buf[s]) >= Due(s)
  /\ ~over[s] => Recorded = IF buf[s] = <<>> THEN Due(s) - 1 ELSE Last(buf[s])

(* A session that stops reading loses the oldest bytes, and only when its  *)
(* buffer is full (monitor.go:40-42).                                      *)
LossMeansFull == \A s \in Sub :
  buf[s] # <<>> /\ Head(buf[s]) # Due(s) => Len(buf[s]) = SubscriberBytes

(* What a reader sees of its device is one stream, from the backlog on,    *)
(* with gaps only where its full buffer dropped the oldest bytes.          *)
OnlyOverflowLoses == NothingIsMissed /\ LossMeansFull

(* A reader whose session has ended returns, unless its consumer stalls;   *)
(* sessions end with their monitor, also those that attach when it has     *)
(* ended (monitor.go:100).                                                 *)
ReadersReturn == \A s \in Sub :
  (over[s] \/ (closed /\ reader[s] # "none")) ~> reader[s] \in {"ended", "failed", "sending"}
=============================================================================
