---------------------------- MODULE SessionBuffer ----------------------------
(***************************************************************************)
(* One session of the relay's broker (internal/relayapi/broker.go): the    *)
(* pump that fills its buffer from the stream, the reads that empty it,    *)
(* the condition variable they share, and how the session ends and is      *)
(* forgotten.  Each action is one critical section of Session.mu, or one   *)
(* step outside of it.                                                     *)
(*                                                                         *)
(* A byte is its position in the device's output, so that a lost, repeated *)
(* or reordered byte shows; which bytes end a line is a constant.  A read  *)
(* copies what it takes (in the code it returns a slice of the array       *)
(* behind Session.buf; what becomes of that after the lock is left out).   *)
(***************************************************************************)
EXTENDS Integers, Sequences, FiniteSetsExt

CONSTANTS
  Reader,    \* callers that may read at the same time
  Bytes,     \* bound on the output of the device
  LineEnds,  \* positions of the newlines, or of any delimiter of one byte
  Chunk,     \* what one read of the stream returns at most, 32 KiB in the code
  BufCap,    \* sessionBufCap, 1 MiB in the code
  MaxRead    \* MaxReadBytes, 256 KiB in the code

ASSUME SizesAssumption == /\ Bytes \in Nat /\ LineEnds \subseteq 1..Bytes
                          /\ Chunk \in Nat \ {0} /\ MaxRead \in Nat \ {0}
                          /\ BufCap \in Nat /\ MaxRead <= BufCap

VARIABLES
  sent,     \* how many bytes the pump has read from the stream
  ended,    \* TRUE once the stream has ended
  pump,     \* where the pump stands
  chunk,    \* what it has read and not yet put into the buffer
  buf,      \* Session.buf
  closed,   \* Session.closed
  known,    \* TRUE while the broker's map holds the session
  closing,  \* TRUE while Broker.Close has deleted the entry only
  waiting,  \* who waits on Session.cond
  call,     \* the read a caller is executing
  time,     \* of each caller's read: before its deadline, past it, or its timer rang
  eof,      \* which callers' last read reported the end of the session
  got       \* history: the bytes all reads have taken, in order

vars == <<sent, ended, pump, chunk, buf, closed, known, closing, waiting, call, time,
          eof, got>>

stream == <<sent, ended, pump, chunk>>
entry == <<known, closing>>
reads == <<call, time, eof, got>>

Pump == "pump"
ASSUME ReadersAssumption == Pump \notin Reader

NoCall == [mode |-> "none", max |-> 0]
Call == [mode : {"plain", "delimiter", "lines"}, max : 1..MaxRead]

Init == /\ sent = 0 /\ ended = FALSE /\ pump = "check" /\ chunk = <<>>
        /\ buf = <<>> /\ closed = FALSE
        /\ known = TRUE /\ closing = FALSE
        /\ waiting = {}
        /\ call = [r \in Reader |-> NoCall]
        /\ time = [r \in Reader |-> "before"]
        /\ eof = [r \in Reader |-> FALSE]
        /\ got = <<>>

Broadcast == waiting' = {}

-----------------------------------------------------------------------------
(* The pump.                                                               *)

(* Mutant: a full buffer does not stop the pump.                           *)
PumpNeverWaits == /\ pump = "check"
                  /\ pump' = IF closed THEN "done" ELSE "read"
                  /\ UNCHANGED <<sent, ended, chunk, buf, closed, entry, waiting, reads>>

PumpChecks == /\ pump = "check" /\ Pump \notin waiting
              /\ IF Len(buf) >= BufCap /\ ~closed
                 THEN /\ waiting' = waiting \cup {Pump}
                      /\ UNCHANGED pump
                 ELSE /\ pump' = IF closed THEN "done" ELSE "read"
                      /\ UNCHANGED waiting
              /\ UNCHANGED <<sent, ended, chunk, buf, closed, entry, reads>>

(* Conn.Read, outside the lock: some bytes, or an error once it ended.     *)
PumpReads == /\ pump = "read"
             /\ \/ \E n \in 1..Chunk :
                     /\ sent + n <= Bytes
                     /\ chunk' = [i \in 1..n |-> sent + i]
                     /\ sent' = sent + n
                     /\ pump' = "put"
                \/ /\ ended
                   /\ pump' = "fail"
                   /\ UNCHANGED <<sent, chunk>>
             /\ UNCHANGED <<ended, buf, closed, entry, waiting, reads>>

(* Mutant: an error of the stream is not the end of the session.           *)
PumpCarriesOn == /\ pump = "put" \/ pump = "fail"
                 /\ buf' = buf \o chunk
                 /\ chunk' = <<>>
                 /\ pump' = "check"
                 /\ Broadcast
                 /\ UNCHANGED <<sent, ended, closed, entry, reads>>

PumpPuts == /\ pump = "put" \/ pump = "fail"
            /\ buf' = buf \o chunk
            /\ chunk' = <<>>
            /\ closed' = (closed \/ pump = "fail")
            /\ pump' = IF pump = "fail" THEN "done" ELSE "check"
            /\ Broadcast
            /\ UNCHANGED <<sent, ended, entry, reads>>

(* The grace period after the pump is over: the session is forgotten.      *)
Reap == /\ pump = "done"
        /\ known
        /\ known' = FALSE
        /\ UNCHANGED <<stream, buf, closed, closing, waiting, reads>>

-----------------------------------------------------------------------------
(* Reads.                                                                  *)

Newlines(b) == {i \in DOMAIN b : b[i] \in LineEnds}

(* takeLocked: how many bytes make a complete read; none to keep waiting.  *)
(* When no line fits and the buffer holds max bytes, these are returned.   *)
Taken(b, max, delimited) ==
  IF ~delimited THEN Min({Len(b), max})
  ELSE IF \E i \in Newlines(b) : i <= max THEN Min(Newlines(b))
  ELSE IF Len(b) >= max THEN max ELSE 0

(* With Lines, the read goes on while there is more to take: all whole     *)
(* lines, or, once the buffer holds max bytes, max bytes, the last of them *)
(* perhaps in the middle of a line, as takeLocked fills the room it is     *)
(* given.  (This is where its loop ends; the loop is in MCSessionBuffer.)  *)
TakenLines(b, max) == IF Len(b) >= max THEN max ELSE Max(Newlines(b) \cup {0})

Complete(r) ==
  IF call[r].mode = "lines" THEN TakenLines(buf, call[r].max)
  ELSE Taken(buf, call[r].max, call[r].mode = "delimiter")

(* A caller that found the session in the broker starts a read.            *)
StartRead(r, c) == /\ call[r] = NoCall
                   /\ known
                   /\ call' = [call EXCEPT ![r] = c]
                   /\ eof' = [eof EXCEPT ![r] = FALSE]
                   /\ UNCHANGED <<stream, buf, closed, entry, waiting, time, got>>

(* The deadline passes; the timer that wakes the sleepers rings later.     *)
DeadlinePasses(r) == /\ call[r] # NoCall
                     /\ time[r] = "before"
                     /\ time' = [time EXCEPT ![r] = "past"]
                     /\ UNCHANGED <<stream, buf, closed, entry, waiting, call, eof, got>>

TimerRings(r) == /\ call[r] # NoCall
                 /\ time[r] = "past"
                 /\ time' = [time EXCEPT ![r] = "rang"]
                 /\ Broadcast
                 /\ UNCHANGED <<stream, buf, closed, entry, call, eof, got>>

Answer(r, n, over) ==
  /\ got' = got \o SubSeq(buf, 1, n)
  /\ eof' = [eof EXCEPT ![r] = over]
  /\ call' = [call EXCEPT ![r] = NoCall]
  /\ time' = [time EXCEPT ![r] = "before"]
  /\ UNCHANGED <<stream, closed, entry>>

(* Mutant: the bytes are looked at and stay in the buffer.                 *)
PeekFirst(r, n, over) == Answer(r, n, over) /\ UNCHANGED buf

(* The read returns the first n bytes of the buffer and stops its timer.   *)
ReturnFirst(r, n, over) == /\ Answer(r, n, over)
                           /\ buf' = SubSeq(buf, n + 1, Len(buf))

Runs(r) == call[r] # NoCall /\ r \notin waiting

(* Mutant: the pump is not told that there is space again.                 *)
TakeSilently(r) == /\ Runs(r)
                   /\ Complete(r) > 0
                   /\ ReturnFirst(r, Complete(r), FALSE)
                   /\ UNCHANGED waiting

Take(r) == /\ Runs(r)
           /\ Complete(r) > 0
           /\ ReturnFirst(r, Complete(r), FALSE)
           /\ Broadcast

Rest(r) == Min({Len(buf), call[r].max})

(* Mutant: a read of a session that is over always reports EOF.            *)
TakeRestAndEnd(r) == /\ Runs(r)
                     /\ closed
                     /\ ReturnFirst(r, Rest(r), TRUE)
                     /\ UNCHANGED waiting

(* The session is over: what remains is returned, and EOF with the last.   *)
TakeRest(r) == /\ Runs(r)
               /\ Complete(r) = 0 /\ closed
               /\ ReturnFirst(r, Rest(r), Rest(r) = Len(buf))
               /\ UNCHANGED waiting

(* The deadline has passed: partial data is still data.                    *)
TimeOut(r) == /\ Runs(r)
              /\ Complete(r) = 0 /\ ~closed /\ time[r] # "before"
              /\ ReturnFirst(r, Rest(r), FALSE)
              /\ UNCHANGED waiting

(* Mutant: a read that was woken waits again whatever the time.            *)
WaitAgain(r) == /\ Runs(r)
                /\ Complete(r) = 0 /\ ~closed
                /\ waiting' = waiting \cup {r}
                /\ UNCHANGED <<stream, buf, closed, entry, reads>>

Wait(r) == /\ Runs(r)
           /\ Complete(r) = 0 /\ ~closed /\ time[r] = "before"
           /\ waiting' = waiting \cup {r}
           /\ UNCHANGED <<stream, buf, closed, entry, reads>>

Reading(r) == Take(r) \/ TakeRest(r) \/ TimeOut(r) \/ Wait(r)

-----------------------------------------------------------------------------
(* The end of the session.                                                 *)

(* The agent closed the stream, or its connection is gone.                 *)
EndStream == /\ ~ended
             /\ ended' = TRUE
             /\ UNCHANGED <<sent, pump, chunk, buf, closed, entry, waiting, reads>>

(* Broker.Close deletes the entry, ...                                     *)
Close == /\ known
         /\ known' = FALSE
         /\ closing' = TRUE
         /\ UNCHANGED <<stream, buf, closed, waiting, reads>>

(* ... then marks the session closed.  Its own side of the stream is shut; *)
(* reading from it ends when the agent answers (EndStream).                *)
MarkClosed == /\ closing
              /\ closing' = FALSE
              /\ closed' = TRUE
              /\ Broadcast
              /\ UNCHANGED <<stream, buf, known, reads>>

-----------------------------------------------------------------------------
Next == \/ PumpChecks \/ PumpReads \/ PumpPuts \/ Reap
        \/ \E r \in Reader : \/ \E c \in Call : StartRead(r, c)
                             \/ DeadlinePasses(r) \/ TimerRings(r) \/ Reading(r)
        \/ EndStream \/ Close \/ MarkClosed

(* Goroutines that can run do, timers fire and the grace period ends.      *)
(* Nobody has to read, and the device has nothing to say.                  *)
Fairness == /\ WF_vars(PumpChecks) /\ WF_vars(PumpReads /\ ended) /\ WF_vars(PumpPuts)
            /\ WF_vars(Reap) /\ WF_vars(MarkClosed)
            /\ \A r \in Reader : /\ WF_vars(Reading(r))
                               /\ WF_vars(DeadlinePasses(r)) /\ WF_vars(TimerRings(r))

Spec == Init /\ [][Next]_vars
FairSpec == Spec /\ Fairness

-----------------------------------------------------------------------------
(* Every variable stays within its type, and the receive buffer within its *)
(* bound: the pump has room whenever it reads (broker.go:28), although the *)
(* lock is not held then, so the cap is exceeded by less than one chunk.   *)
TypeOK == /\ sent \in 0..Bytes /\ ended \in BOOLEAN
          /\ pump \in {"check", "read", "put", "fail", "done"}
          /\ chunk \in Seq(1..Bytes) /\ buf \in Seq(1..Bytes) /\ got \in Seq(1..Bytes)
          /\ pump \in {"read", "put"} => Len(buf) < BufCap
          /\ Len(buf) < BufCap + Chunk
          /\ closed \in BOOLEAN /\ known \in BOOLEAN /\ closing \in BOOLEAN
          /\ waiting \subseteq Reader \cup {Pump}
          /\ call \in [Reader -> Call \cup {NoCall}]
          /\ time \in [Reader -> {"before", "past", "rang"}]
          /\ eof \in [Reader -> BOOLEAN]

(* Nothing the device says is lost, repeated or reordered between the      *)
(* stream and what the reads take, in whichever order reads, timeouts and  *)
(* the end come.                                                           *)
StreamIsIntact == got \o buf \o chunk = [i \in 1..sent |-> i]

(* No wakeup is lost: the pump sleeps only while the buffer is full, and a *)
(* reader only while there is nothing for it and its time is not over.     *)
SleepersHaveReason ==
  /\ Pump \in waiting => Len(buf) >= BufCap /\ ~closed
  /\ \A r \in Reader \cap waiting : Complete(r) = 0 /\ ~closed /\ time[r] # "rang"

(* EOF comes last: when a read of a session that its consumer has not      *)
(* closed reports EOF, everything the device sent has been returned        *)
(* (broker.go:284-288), to this reader or to another.                      *)
EofIsLast == \A r \in Reader : eof[r] /\ known => Len(got) = sent

(* A read never waits for ever (broker.go:199-201).                        *)
ReadsReturn == \A r \in Reader : call[r] # NoCall ~> call[r] = NoCall

(* A session that ended, and whose buffer has room, is forgotten.          *)
DrainedSessionIsReaped == <>[](ended /\ Len(buf) < BufCap) => <>~known
=============================================================================
