-------------------------- MODULE AgentCoreProofs --------------------------
(* Proofs about AgentCore for any devices, sessions, streams and operators. *)
EXTENDS AgentCore, TLAPS

USE DEF registry, access, mons, link

-----------------------------------------------------------------------------
(* Calls are well typed.                                                   *)

LEMMA CallTypes ==
  /\ \A s \in Sid : Call("close", s) \in Calls /\ Call("portclose", s) \in Calls
  /\ \A d \in Dev : \A op \in {"release", "stopmon", "startmon", "monopen"} :
        Call(op, d) \in Calls
  /\ \A m \in Mon : Call("monclose", m) \in Calls
  /\ CloseAllCall \in Calls
BY DEF Calls, Call, SessionCall, DeviceCall, MonitorCall, CloseAllCall

(* Giving a goroutine well-typed calls keeps todo well typed.              *)
LEMMA TodoType ==
  ASSUME todo \in [Thread -> SUBSET Calls], NEW t \in Thread,
         NEW more \in SUBSET Calls
  PROVE  /\ [todo EXCEPT ![t] = more] \in [Thread -> SUBSET Calls]
         /\ \A c : Return(t, c, more) => todo' \in [Thread -> SUBSET Calls]
BY DEF Return

(* What a stream has to hold at which step.                                *)
StreamShape ==
  \A o \in Stream :
    /\ stream[o].pc \in Opening \cup Registered => stream[o].sid \in Sid
    /\ stream[o].pc # "idle" => stream[o].dev \in Dev
    /\ stream[o].pc \in {"idle", "claim"} => stream[o].sid = None

LEMMA IdleType == Idle \in StreamState
BY DEF Idle, StreamState, Opening, Registered

(* A stream that moves on, with or without a new id, stays well typed.     *)
LEMMA StreamType ==
  ASSUME stream \in [Stream -> StreamState], NEW o \in Stream
  PROVE  /\ \A r \in StreamState : [stream EXCEPT ![o] = r] \in [Stream -> StreamState]
         /\ \A pc \in Opening \cup Registered :
              Goto(o, pc) => stream' \in [Stream -> StreamState]
BY DEF StreamState, Opening, Registered, Goto

LEMMA ThreadSets == /\ Stream \subseteq Thread
                    /\ Operator \subseteq Thread
                    /\ Rescanner \in Thread /\ Tunnel \in Thread /\ Control \in Thread
BY DEF Thread

LEMMA TypeStep == TypeOK /\ StreamShape /\ [Next]_vars => TypeOK'
<1> SUFFICES ASSUME TypeOK, StreamShape, [Next]_vars PROVE TypeOK'
  OBVIOUS
<1> USE CallTypes, ThreadSets
<1>1. ASSUME NEW d \in Dev, Plug(d) \/ Unplug(d) PROVE TypeOK'
  BY <1>1 DEF TypeOK, Plug, Unplug
<1>2. ASSUME NEW m \in Mon, PumpFails(m) PROVE TypeOK'
  BY <1>2 DEF TypeOK, PumpFails
<1>3. ASSUME Enumerate PROVE TypeOK'
  BY <1>3 DEF TypeOK, Enumerate
<1>4. CASE Reconcile
  <2>1. todo' \in [Thread -> SUBSET Calls]
    <3> DEFINE gone == Dev \ snap.present
               more == {Call("close", s) : s \in {claims[d] : d \in gone} \ {None}}
                        \cup {Call("stopmon", d) : d \in {d \in gone : monitors[d] # None}}
                        \cup {Call("startmon", d) : d \in
                               {d \in snap.present \cap monitored : monitors[d] = None}}
    <3>1. more \in SUBSET Calls
      BY <1>4 DEF TypeOK, Reconcile
    <3>2. todo' = [todo EXCEPT ![Rescanner] = more]
      BY <1>4 DEF Reconcile
    <3>3. QED BY <3>1, <3>2, TodoType DEF TypeOK
  <2>2. QED BY <1>4, <2>1 DEF TypeOK, Reconcile
<1>5. CASE ReconcileFails
  BY <1>5 DEF TypeOK, ReconcileFails
<1>6. ASSUME NEW u \in Operator, NEW d \in Dev, NEW on \in BOOLEAN,
             SetExposed(u, d, on) \/ SetMonitored(u, d, on)
      PROVE TypeOK'
  <2>1. \/ todo' = todo
        \/ \E more \in SUBSET Calls : todo' = [todo EXCEPT ![u] = more]
    BY <1>6 DEF SetExposed, SetMonitored
  <2>2. todo' \in [Thread -> SUBSET Calls]
    BY <2>1, TodoType DEF TypeOK
  <2>3. QED BY <1>6, <2>2 DEF TypeOK, SetExposed, SetMonitored
<1>7. ASSUME NEW u \in Operator, Request(u) PROVE TypeOK'
  <2>1. \E more \in SUBSET Calls : todo' = [todo EXCEPT ![u] = more]
    BY <1>7 DEF Request
  <2>2. QED BY <1>7, <2>1, TodoType DEF TypeOK, Request
<1>8. ASSUME NEW t \in Thread, Calling(t) PROVE TypeOK'
  <2>1. CASE CloseAll(t)
    <3>1. {Call("close", s) : s \in Sessions} \in SUBSET Calls
      BY DEF Sessions
    <3>2. QED BY <2>1, <3>1, TodoType DEF TypeOK, CloseAll
  <2>2. ASSUME NEW s \in Sid, CloseSession(t, s) PROVE TypeOK'
    <3>1. \E more \in SUBSET Calls : Return(t, Call("close", s), more)
      BY <2>2 DEF CloseSession
    <3>2. todo' \in [Thread -> SUBSET Calls]
      BY <3>1, TodoType DEF TypeOK
    <3>3. QED BY <2>2, <3>2 DEF TypeOK, CloseSession, Sessions
  <2>3. ASSUME NEW s \in Sid, ClosePort(t, s) PROVE TypeOK'
    BY <2>3, TodoType DEF TypeOK, ClosePort
  <2>4. ASSUME NEW d \in Dev, ReleaseDevice(t, d) PROVE TypeOK'
    <3>1. {Call("close", s) : s \in {claims[d]} \ {None}} \in SUBSET Calls
      BY DEF TypeOK
    <3>2. QED BY <2>4, <3>1, TodoType DEF TypeOK, ReleaseDevice
  <2>5. ASSUME NEW d \in Dev, StopMonitor(t, d) PROVE TypeOK'
    <3>1. {Call("monclose", m) : m \in {monitors[d]} \ {None}} \in SUBSET Calls
      BY DEF TypeOK
    <3>2. QED BY <2>5, <3>1, TodoType DEF TypeOK, StopMonitor
  <2>6. ASSUME NEW d \in Dev, StartMonitor(t, d) PROVE TypeOK'
    <3>1. \E more \in SUBSET Calls : Return(t, Call("startmon", d), more)
      BY <2>6 DEF StartMonitor
    <3>2. QED BY <2>6, <3>1, TodoType DEF TypeOK, StartMonitor
  <2>7. ASSUME NEW d \in Dev, OpenMonitor(t, d) PROVE TypeOK'
    <3>1. todo' \in [Thread -> SUBSET Calls]
      BY <2>7, TodoType DEF TypeOK, OpenMonitor
    <3>2. CASE UNCHANGED <<monitors, held>>
      BY <2>7, <3>1, <3>2 DEF TypeOK, OpenMonitor
    <3>3. ASSUME NEW m \in Mon, monitors' = [monitors EXCEPT ![d] = m],
                 held' = held \cup {m}
          PROVE  TypeOK'
      BY <2>7, <3>1, <3>3 DEF TypeOK, OpenMonitor
    <3>4. QED BY <2>7, <3>2, <3>3 DEF OpenMonitor
  <2>8. ASSUME NEW m \in Mon, CloseMonitor(t, m) PROVE TypeOK'
    BY <2>8, TodoType DEF TypeOK, CloseMonitor
  <2>9. QED BY <1>8, <2>1, <2>2, <2>3, <2>4, <2>5, <2>6, <2>7, <2>8 DEF Calling
<1>9. CASE Connect \/ Disconnect
  <2>1. todo' \in [Thread -> SUBSET Calls]
    BY <1>9, TodoType DEF TypeOK, Connect, Disconnect
  <2>2. QED BY <1>9, <2>1 DEF TypeOK, Connect, Disconnect
<1>10. ASSUME NEW s \in Sid, SessionClosed(s) PROVE TypeOK'
  BY <1>10, TodoType DEF TypeOK, SessionClosed
<1>11. ASSUME NEW o \in Stream, NEW d \in Dev, AcceptStream(o, d) PROVE TypeOK'
  <2>1. [Idle EXCEPT !.pc = "claim", !.dev = d] \in StreamState
    BY DEF Idle, StreamState, Opening, Registered
  <2>2. stream' \in [Stream -> StreamState]
    BY <1>11, <2>1, StreamType DEF TypeOK, AcceptStream
  <2>3. QED BY <1>11, <2>2 DEF TypeOK, AcceptStream
<1>12. ASSUME NEW o \in Stream, StreamEnds(o) PROVE TypeOK'
  <2>1. stream[o].sid \in Sid
    BY <1>12 DEF StreamShape, StreamEnds, At, Registered
  <2>2. todo' \in [Thread -> SUBSET Calls]
    BY <1>12, <2>1, TodoType DEF TypeOK, StreamEnds
  <2>3. stream' \in [Stream -> StreamState]
    BY <1>12, StreamType DEF TypeOK, StreamEnds, Registered
  <2>4. QED BY <1>12, <2>2, <2>3 DEF TypeOK, StreamEnds
<1>13. ASSUME NEW o \in Stream, Serving(o) PROVE TypeOK'
  <2> USE DEF TypeOK
  <2>1. ASSUME Leave(o) PROVE /\ stream' \in [Stream -> StreamState]
                              /\ alive' \subseteq Stream
    BY <2>1, StreamType, IdleType DEF Leave
  <2>2. CASE Refuse(o) \/ Finish(o)
    BY <2>1, <2>2 DEF Refuse, Finish
  <2>3. CASE Claim(o)
    <3>1. PICK s \in Sid : /\ claims' = [claims EXCEPT ![stream[o].dev] = s]
                           /\ stream' = [stream EXCEPT ![o] =
                                            [@ EXCEPT !.pc = "lookup", !.sid = s]]
      BY <2>3 DEF Claim
    <3>2. stream' \in [Stream -> StreamState]
      <4>1. [stream[o] EXCEPT !.pc = "lookup", !.sid = s] \in StreamState
        BY DEF StreamState, Opening
      <4>2. QED BY <3>1, <4>1, StreamType
    <3>3. claims' \in [Dev -> Sid \cup {None}]
      BY <3>1
    <3>4. QED BY <2>3, <3>2, <3>3 DEF Claim
  <2>4. CASE Lookup(o)
    <3>1. \E pc \in {"open", "attach"} : Goto(o, pc)
      BY <2>4 DEF Lookup
    <3>2. stream' \in [Stream -> StreamState]
      BY <3>1, StreamType DEF Opening
    <3>3. QED BY <2>4, <3>2 DEF Lookup
  <2>5. CASE ObtainPort(o)
    <3>1. stream[o].sid \in Sid
      BY <2>5 DEF StreamShape, ObtainPort, At, Opening
    <3>2. stream' \in [Stream -> StreamState]
      BY <2>5, StreamType DEF ObtainPort, Opening
    <3>3. QED BY <2>5, <3>1, <3>2 DEF ObtainPort
  <2>6. CASE OpenFails(o) \/ Abandon(o)
    <3>1. claims' \in [Dev -> Sid \cup {None}]
      BY <2>6 DEF OpenFails, Abandon
    <3>2. QED BY <2>1, <2>6, <3>1 DEF OpenFails, Abandon
  <2>7. CASE Register(o)
    <3>1. stream[o].dev \in Dev
      BY <2>7 DEF StreamShape, Register, At
    <3>2. stream' \in [Stream -> StreamState]
      BY <2>7, StreamType DEF Register, Registered
    <3>3. QED BY <2>7, <3>1, <3>2 DEF Register
  <2>8. CASE Respond(o)
    <3>1. stream[o].sid \in Sid
      BY <2>8 DEF StreamShape, Respond, At, Registered
    <3>2. todo' \in [Thread -> SUBSET Calls]
      BY <2>8, <3>1, TodoType DEF Respond
    <3>3. stream' \in [Stream -> StreamState]
      <4>1. Goto(o, "bridge") \/ Goto(o, "end")
        BY <2>8 DEF Respond
      <4>2. QED BY <4>1, StreamType DEF Registered
    <3>4. QED BY <2>8, <3>2, <3>3 DEF Respond
  <2>9. QED BY <1>13, <2>2, <2>3, <2>4, <2>5, <2>6, <2>7, <2>8 DEF Serving
<1>14. CASE UNCHANGED vars
  BY <1>14 DEF TypeOK, vars
<1>15. QED
  BY <1>1, <1>2, <1>3, <1>4, <1>5, <1>6, <1>7, <1>8, <1>9, <1>10, <1>11, <1>12,
     <1>13, <1>14 DEF Next, Environment, Rescan

-----------------------------------------------------------------------------
(* Only these steps touch a stream, the claims or the sessions.            *)

StreamStep(o) == Serving(o) \/ StreamEnds(o) \/ \E d \in Dev : AcceptStream(o, d)

LEMMA Frame ==
  ASSUME [Next]_vars
  PROVE  \/ UNCHANGED <<claims, sessions, stream>>
         \/ \E t \in Thread, s \in Sid : CloseSession(t, s)
         \/ \E o \in Stream : StreamStep(o)
<1>1. CASE UNCHANGED vars
  BY <1>1 DEF vars
<1>2. CASE Environment
  BY <1>2 DEF Environment, Plug, Unplug, PumpFails, Request, SetExposed, SetMonitored,
              Connect, Disconnect, SessionClosed, StreamStep
<1>3. CASE Rescan
  BY <1>3 DEF Rescan, Enumerate, Reconcile, ReconcileFails
<1>4. ASSUME NEW t \in Thread, Calling(t)
      PROVE  \/ UNCHANGED <<claims, sessions, stream>>
             \/ \E s \in Sid : CloseSession(t, s)
  BY <1>4 DEF Calling, CloseAll, ClosePort, ReleaseDevice, StopMonitor, StartMonitor,
              OpenMonitor, CloseMonitor
<1>5. QED BY <1>1, <1>2, <1>3, <1>4 DEF Next, StreamStep

(* What a step of stream o leaves alone, and what it may do to stream o.   *)
LEMMA OtherStreams ==
  ASSUME TypeOK, NEW o \in Stream, StreamStep(o)
  PROVE  /\ stream' = [stream EXCEPT ![o] = stream'[o]]
         /\ \A p \in Stream \ {o} : stream'[p] = stream[p]
BY DEF TypeOK, StreamStep, Serving, StreamEnds, AcceptStream, Refuse, Claim, Lookup,
       ObtainPort, OpenFails, Register, Abandon, Respond, Finish, Leave, Goto

LEMMA ShapeStep == TypeOK /\ StreamShape /\ [Next]_vars => StreamShape'
<1> SUFFICES ASSUME TypeOK, StreamShape, [Next]_vars PROVE StreamShape'
  OBVIOUS
<1>1. CASE UNCHANGED stream
  BY <1>1 DEF StreamShape
<1>2. ASSUME NEW o \in Stream, StreamStep(o) PROVE StreamShape'
  <2> DEFINE Shape(r) == /\ r.pc \in Opening \cup Registered => r.sid \in Sid
                         /\ r.pc # "idle" => r.dev \in Dev
                         /\ r.pc \in {"idle", "claim"} => r.sid = None
  <2> SUFFICES Shape(stream'[o])
    BY <1>2, OtherStreams DEF StreamShape
  <2>0. stream[o] \in StreamState /\ Shape(stream[o])
    BY DEF TypeOK, StreamShape
  <2>1. ASSUME NEW pc \in Opening \cup Registered, Goto(o, pc),
               stream[o].pc \in Opening \cup Registered
        PROVE  Shape(stream'[o])
    BY <2>0, <2>1 DEF TypeOK, Goto, StreamState, Opening, Registered
  <2>2. ASSUME Leave(o) PROVE Shape(stream'[o])
    BY <2>2 DEF TypeOK, Leave, Idle, Opening, Registered
  <2>3. CASE StreamEnds(o) \/ Lookup(o) \/ ObtainPort(o) \/ Register(o) \/ Respond(o)
    <3>1. /\ stream[o].pc \in Opening \cup Registered
          /\ \E pc \in Opening \cup Registered : Goto(o, pc)
      BY <2>3 DEF StreamEnds, Lookup, ObtainPort, Register, Respond, At, Opening, Registered
    <3>2. QED BY <3>1, <2>1
  <2>4. CASE Refuse(o) \/ OpenFails(o) \/ Abandon(o) \/ Finish(o)
    BY <2>2, <2>4 DEF Refuse, OpenFails, Abandon, Finish
  <2>5. CASE Claim(o)
    BY <2>0, <2>5 DEF TypeOK, Claim, At, Opening, Registered, StreamState
  <2>6. ASSUME NEW d \in Dev, AcceptStream(o, d) PROVE Shape(stream'[o])
    BY <2>6 DEF TypeOK, AcceptStream, Idle, Opening, Registered
  <2>7. QED BY <1>2, <2>3, <2>4, <2>5, <2>6 DEF StreamStep, Serving
<1>3. QED BY <1>1, <1>2, Frame DEF CloseSession

-----------------------------------------------------------------------------
(* Exclusive claims, made inductive: an open under way keeps the claim it  *)
(* took (so the test StillOurs of its registration never fails), its id is *)
(* not registered yet, and no two streams share an id.                     *)

OpenHoldsClaim == \A o \in Stream : stream[o].pc \in Opening => StillOurs(o)

OpenIsNotRegistered ==
  \A o \in Stream : stream[o].pc \in Opening => sessions[stream[o].sid] = None

IdsAreUnique ==
  \A o, p \in Stream : stream[o].sid # None /\ stream[o].sid = stream[p].sid => o = p

ClaimInv == /\ TypeOK /\ StreamShape
            /\ ExclusiveClaims /\ OpenHoldsClaim
            /\ OpenIsNotRegistered /\ IdsAreUnique

LEMMA ClaimStep == ClaimInv /\ [Next]_vars => ClaimInv'
<1> SUFFICES ASSUME ClaimInv, [Next]_vars PROVE ClaimInv'
  OBVIOUS
<1> USE DEF ClaimInv
<1>1. TypeOK' /\ StreamShape'
  BY TypeStep, ShapeStep
<1> DEFINE Goal == ExclusiveClaims' /\ OpenHoldsClaim' /\ OpenIsNotRegistered' /\ IdsAreUnique'
<1> SUFFICES Goal
  BY <1>1
<1> USE DEF ExclusiveClaims, SessionHoldsClaim, OpenHoldsClaim, ClaimHasHolder,
            OpenIsNotRegistered, IdsAreUnique, OpeningOf, StillOurs, Sessions
<1> USE ValuesAssumption
<1>2. CASE UNCHANGED <<claims, sessions, stream>>
  BY <1>2
<1>3. ASSUME NEW t \in Thread, NEW s \in Sid, CloseSession(t, s) PROVE Goal
  <2>1. CASE s \notin Sessions
    BY <1>2, <1>3, <2>1 DEF CloseSession
  <2>2. CASE s \in Sessions
    <3>1. /\ sessions[s] \in Dev /\ claims[sessions[s]] = s
          /\ sessions' = [sessions EXCEPT ![s] = None]
          /\ claims' = [claims EXCEPT ![sessions[s]] = None]
          /\ stream' = stream
      BY <1>3, <2>2 DEF CloseSession, TypeOK
    <3>2. \A o \in Stream : stream[o].pc \in Opening =>
             /\ stream[o].sid \in Sid /\ stream[o].dev \in Dev
             /\ stream[o].sid # s /\ stream[o].dev # sessions[s]
      BY <2>2, <3>1 DEF StreamShape, Opening
    <3>3. SessionHoldsClaim'
      BY <3>1 DEF TypeOK
    <3>4. OpenHoldsClaim' /\ OpenIsNotRegistered' /\ IdsAreUnique'
      BY <3>1, <3>2 DEF TypeOK
    <3>5. ClaimHasHolder'
      BY <3>1 DEF TypeOK
    <3>6. QED BY <3>3, <3>4, <3>5
  <2>3. QED BY <2>1, <2>2
<1>4. ASSUME NEW o \in Stream, StreamStep(o) PROVE Goal
  <2>0. \A p \in Stream \ {o} : stream'[p] = stream[p]
    BY <1>4, OtherStreams
  <2>1. CASE /\ UNCHANGED <<claims, sessions>>
             /\ stream'[o].sid = stream[o].sid /\ stream'[o].dev = stream[o].dev
             /\ stream'[o].pc \in Opening <=> stream[o].pc \in Opening
    BY <2>0, <2>1
  <2>2. CASE /\ UNCHANGED <<claims, sessions>>
             /\ stream[o].pc \notin Opening
             /\ stream'[o].pc \notin Opening /\ stream'[o].sid = None
    BY <2>0, <2>2
  <2>3. ASSUME Leave(o) PROVE stream'[o].sid = None /\ stream'[o].pc \notin Opening
    BY <2>3 DEF Leave, Idle, Opening, TypeOK
  <2>4. ASSUME NEW pc, Goto(o, pc)
        PROVE  /\ stream'[o].pc = pc
               /\ stream'[o].sid = stream[o].sid /\ stream'[o].dev = stream[o].dev
    BY <2>4 DEF Goto, TypeOK, StreamState
  <2>5. CASE Refuse(o) \/ Finish(o)
    BY <2>2, <2>3, <2>5 DEF Refuse, Finish, At, Opening
  <2>6. CASE Claim(o)
    <3>1. PICK s \in Sid : /\ Fresh(s)
                           /\ claims' = [claims EXCEPT ![stream[o].dev] = s]
                           /\ stream' = [stream EXCEPT ![o] =
                                            [@ EXCEPT !.pc = "lookup", !.sid = s]]
      BY <2>6 DEF Claim
    <3>2. /\ stream'[o].pc = "lookup" /\ stream'[o].sid = s
          /\ stream'[o].dev = stream[o].dev /\ stream[o].dev \in Dev
          /\ claims[stream[o].dev] = None /\ sessions' = sessions
          /\ stream[o].pc = "claim" /\ s # None
      BY <2>6, <3>1 DEF Claim, Claimable, TypeOK, StreamState, StreamShape, At
    <3>3. /\ \A d \in Dev : claims[d] # s
          /\ sessions[s] = None
          /\ \A p \in Stream : stream[p].sid # s
      BY <3>1 DEF Fresh
    <3>4. /\ claims'[stream[o].dev] = s
          /\ \A d \in Dev \ {stream[o].dev} : claims'[d] = claims[d]
      BY <3>1, <3>2 DEF TypeOK
    <3>5. SessionHoldsClaim'
      BY <3>2, <3>4 DEF TypeOK
    <3>6. OpenHoldsClaim'
      BY <2>0, <3>2, <3>4 DEF TypeOK, StreamShape
    <3>7. ClaimHasHolder'
      BY <2>0, <3>2, <3>4 DEF Opening
    <3>8. OpenIsNotRegistered' /\ IdsAreUnique'
      BY <2>0, <3>2, <3>3
    <3>9. QED BY <3>5, <3>6, <3>7, <3>8
  <2>7. CASE Lookup(o)
    <3>1. /\ stream'[o].sid = stream[o].sid /\ stream'[o].dev = stream[o].dev
          /\ stream'[o].pc \in {"open", "attach"} /\ stream[o].pc = "lookup"
          /\ UNCHANGED <<claims, sessions>>
      <4>1. \E pc \in {"open", "attach"} : Goto(o, pc)
        BY <2>7 DEF Lookup
      <4>2. QED BY <2>7, <4>1 DEF Lookup, At, Goto, TypeOK, StreamState
    <3>2. QED BY <2>1, <3>1 DEF Opening
  <2>8. CASE ObtainPort(o)
    BY <2>1, <2>4, <2>8 DEF ObtainPort, At, Opening
  <2>9. CASE OpenFails(o) \/ Abandon(o)
    <3>1. /\ stream[o].pc \in Opening
          /\ stream[o].sid \in Sid /\ stream[o].dev \in Dev
          /\ claims[stream[o].dev] = stream[o].sid
          /\ claims' = [claims EXCEPT ![stream[o].dev] = None]
          /\ sessions' = sessions
          /\ stream'[o].sid = None /\ stream'[o].pc \notin Opening
      BY <2>3, <2>9 DEF OpenFails, Abandon, At, Opening, StreamShape
    <3>2. /\ claims'[stream[o].dev] = None
          /\ \A d \in Dev \ {stream[o].dev} : claims'[d] = claims[d]
      BY <3>1 DEF TypeOK
    <3>3. SessionHoldsClaim'
      BY <3>1, <3>2 DEF TypeOK
    <3>4. OpenHoldsClaim'
      BY <2>0, <3>1, <3>2 DEF TypeOK, StreamShape
    <3>5. ClaimHasHolder'
      BY <2>0, <3>1, <3>2 DEF TypeOK
    <3>6. OpenIsNotRegistered' /\ IdsAreUnique'
      BY <2>0, <3>1
    <3>7. QED BY <3>3, <3>4, <3>5, <3>6
  <2>10. CASE Register(o)
    <3>1. /\ stream[o].pc \in Opening /\ stream'[o].pc \notin Opening
          /\ stream[o].sid \in Sid /\ stream[o].dev \in Dev
          /\ claims[stream[o].dev] = stream[o].sid /\ claims' = claims
          /\ sessions' = [sessions EXCEPT ![stream[o].sid] = stream[o].dev]
          /\ stream'[o].sid = stream[o].sid /\ stream'[o].dev = stream[o].dev
      BY <2>4, <2>10 DEF Register, At, Opening, StreamShape
    <3>2. /\ sessions'[stream[o].sid] = stream[o].dev
          /\ \A s \in Sid \ {stream[o].sid} : sessions'[s] = sessions[s]
      BY <3>1 DEF TypeOK
    <3>3. SessionHoldsClaim'
      BY <3>1, <3>2
    <3>4. OpenHoldsClaim' /\ IdsAreUnique'
      BY <2>0, <3>1
    <3>5. ClaimHasHolder'
      BY <2>0, <3>1, <3>2 DEF TypeOK
    <3>6. OpenIsNotRegistered'
      BY <2>0, <3>1, <3>2 DEF StreamShape
    <3>7. QED BY <3>3, <3>4, <3>5, <3>6
  <2>11. CASE Respond(o) \/ StreamEnds(o)
    <3>1. /\ UNCHANGED <<claims, sessions>> /\ stream[o].pc \notin Opening
          /\ Goto(o, "bridge") \/ Goto(o, "end")
      BY <2>11 DEF Respond, StreamEnds, At, Opening
    <3>2. QED BY <2>1, <2>4, <3>1 DEF Opening
  <2>12. ASSUME NEW d \in Dev, AcceptStream(o, d) PROVE Goal
    <3>1. /\ stream'[o].sid = None /\ stream'[o].pc = "claim" /\ stream[o].pc = "idle"
          /\ UNCHANGED <<claims, sessions>>
      BY <2>12 DEF AcceptStream, At, Idle, TypeOK
    <3>2. QED BY <2>2, <3>1 DEF Opening
  <2>13. QED
    BY <1>4, <2>5, <2>6, <2>7, <2>8, <2>9, <2>10, <2>11, <2>12 DEF StreamStep, Serving
<1>5. QED BY <1>2, <1>3, <1>4, Frame

LEMMA ClaimInit == Init => ClaimInv
<1> SUFFICES ASSUME Init PROVE ClaimInv
  OBVIOUS
<1>1. TypeOK
  BY IdleType, ValuesAssumption DEF Init, TypeOK
<1>2. StreamShape /\ OpenIsNotRegistered /\ IdsAreUnique
  BY DEF Init, StreamShape, OpenIsNotRegistered, IdsAreUnique, Idle, Opening, Registered
<1>3. ExclusiveClaims /\ OpenHoldsClaim
  BY DEF Init, ExclusiveClaims, SessionHoldsClaim, OpenHoldsClaim, ClaimHasHolder,
         Sessions, Idle, Opening
<1>4. QED BY <1>1, <1>2, <1>3 DEF ClaimInv

(* Every variable keeps its type: no map of the core ever holds an unknown *)
(* device, session or monitor, whatever the interleaving.                  *)
THEOREM TypesAreCorrect == Spec => []TypeOK
BY ClaimInit, ClaimStep, PTL DEF Spec, ClaimInv

(* Devices are exclusive: in every reachable state of OpenSession,         *)
(* CloseSession, ReleaseDevice and Rescan, whatever their interleaving, a  *)
(* session and an open under way hold the claim of their device, and every *)
(* claim has one of them behind it.                                        *)
THEOREM ClaimsAreExclusive == Spec => []ExclusiveClaims
BY ClaimInit, ClaimStep, PTL DEF Spec, ClaimInv

-----------------------------------------------------------------------------
(* Pending calls are not lost.  A goroutine is given new calls only when   *)
(* it has none, and a call goes away only when it is made.                 *)

OwnCalls == /\ snap # None => todo[Rescanner] = {}
            /\ up => todo[Tunnel] = {}
            /\ \A o \in Stream : stream[o].pc # "end" => todo[o] = {}

Made(t, c) ==
  \/ c = CloseAllCall /\ CloseAll(t)
  \/ \E s \in Sid : \/ c = Call("close", s) /\ CloseSession(t, s)
                    \/ c = Call("portclose", s) /\ ClosePort(t, s)
  \/ \E d \in Dev : \/ c = Call("release", d) /\ ReleaseDevice(t, d)
                    \/ c = Call("stopmon", d) /\ StopMonitor(t, d)
                    \/ c = Call("startmon", d) /\ StartMonitor(t, d)
                    \/ c = Call("monopen", d) /\ OpenMonitor(t, d)
  \/ \E m \in Mon : c = Call("monclose", m) /\ CloseMonitor(t, m)

LEMMA CallsStay ==
  ASSUME TypeOK, OwnCalls, [Next]_vars, NEW t \in Thread, NEW c \in todo[t]
  PROVE  c \in todo'[t] \/ Made(t, c)
<1> USE ThreadSets DEF TypeOK, OwnCalls
<1>1. CASE UNCHANGED vars
  BY <1>1 DEF vars
<1>2. ASSUME NEW x \in Thread, NEW more, todo[x] = {},
             todo' = [todo EXCEPT ![x] = more]
      PROVE  c \in todo'[t]
  BY <1>2
<1>3. CASE Environment
  <2>1. \/ todo' = todo
        \/ \E x \in Thread : \E more : todo[x] = {} /\ todo' = [todo EXCEPT ![x] = more]
    <3>1. ASSUME NEW d \in Dev, Plug(d) \/ Unplug(d) PROVE todo' = todo
      BY <3>1 DEF Plug, Unplug
    <3>2. ASSUME NEW m \in Mon, PumpFails(m) PROVE todo' = todo
      BY <3>2 DEF PumpFails
    <3>3. ASSUME NEW u \in Operator,
                 \/ Request(u)
                 \/ \E d \in Dev, on \in BOOLEAN : SetExposed(u, d, on) \/ SetMonitored(u, d, on)
          PROVE  \/ todo' = todo
                 \/ todo[u] = {} /\ \E more : todo' = [todo EXCEPT ![u] = more]
      BY <3>3 DEF Request, SetExposed, SetMonitored
    <3>4. ASSUME Connect \/ Disconnect
          PROVE  \/ todo' = todo
                 \/ todo[Tunnel] = {} /\ \E more : todo' = [todo EXCEPT ![Tunnel] = more]
      BY <3>4 DEF Connect, Disconnect
    <3>5. ASSUME NEW s \in Sid, SessionClosed(s)
          PROVE  todo[Control] = {} /\ \E more : todo' = [todo EXCEPT ![Control] = more]
      BY <3>5 DEF SessionClosed
    <3>6. ASSUME NEW o \in Stream, NEW d \in Dev, AcceptStream(o, d) PROVE todo' = todo
      BY <3>6 DEF AcceptStream
    <3>7. ASSUME NEW o \in Stream, StreamEnds(o)
          PROVE  todo[o] = {} /\ \E more : todo' = [todo EXCEPT ![o] = more]
      BY <3>7 DEF StreamEnds, At
    <3>8. QED BY <1>3, <3>1, <3>2, <3>3, <3>4, <3>5, <3>6, <3>7 DEF Environment
  <2>2. QED BY <1>2, <2>1
<1>4. CASE Rescan
  BY <1>2, <1>4 DEF Rescan, Enumerate, Reconcile, ReconcileFails
<1>5. ASSUME NEW x \in Thread, NEW k, NEW more, Return(x, k, more), c \notin todo'[t]
      PROVE  x = t /\ k = c
  BY <1>5 DEF Return
<1>6. ASSUME NEW x \in Thread, Calling(x), c \notin todo'[t] PROVE Made(t, c)
  <2>1. CASE CloseAll(x)
    <3>1. \E more : Return(x, CloseAllCall, more)
      BY <2>1 DEF CloseAll
    <3>2. x = t /\ c = CloseAllCall
      BY <1>5, <1>6, <3>1
    <3>3. QED BY <2>1, <3>2 DEF Made
  <2>2. ASSUME NEW s \in Sid, CloseSession(x, s) PROVE Made(t, c)
    <3>1. \E more : Return(x, Call("close", s), more)
      BY <2>2 DEF CloseSession
    <3>2. x = t /\ c = Call("close", s)
      BY <1>5, <1>6, <3>1
    <3>3. QED BY <2>2, <3>2 DEF Made
  <2>3. ASSUME NEW s \in Sid, ClosePort(x, s) PROVE Made(t, c)
    <3>1. \E more : Return(x, Call("portclose", s), more)
      BY <2>3 DEF ClosePort
    <3>2. x = t /\ c = Call("portclose", s)
      BY <1>5, <1>6, <3>1
    <3>3. QED BY <2>3, <3>2 DEF Made
  <2>4. ASSUME NEW d \in Dev, ReleaseDevice(x, d) PROVE Made(t, c)
    <3>1. \E more : Return(x, Call("release", d), more)
      BY <2>4 DEF ReleaseDevice
    <3>2. x = t /\ c = Call("release", d)
      BY <1>5, <1>6, <3>1
    <3>3. QED BY <2>4, <3>2 DEF Made
  <2>5. ASSUME NEW d \in Dev, StopMonitor(x, d) PROVE Made(t, c)
    <3>1. \E more : Return(x, Call("stopmon", d), more)
      BY <2>5 DEF StopMonitor
    <3>2. x = t /\ c = Call("stopmon", d)
      BY <1>5, <1>6, <3>1
    <3>3. QED BY <2>5, <3>2 DEF Made
  <2>6. ASSUME NEW d \in Dev, StartMonitor(x, d) PROVE Made(t, c)
    <3>1. \E more : Return(x, Call("startmon", d), more)
      BY <2>6 DEF StartMonitor
    <3>2. x = t /\ c = Call("startmon", d)
      BY <1>5, <1>6, <3>1
    <3>3. QED BY <2>6, <3>2 DEF Made
  <2>7. ASSUME NEW d \in Dev, OpenMonitor(x, d) PROVE Made(t, c)
    <3>1. \E more : Return(x, Call("monopen", d), more)
      BY <2>7 DEF OpenMonitor
    <3>2. x = t /\ c = Call("monopen", d)
      BY <1>5, <1>6, <3>1
    <3>3. QED BY <2>7, <3>2 DEF Made
  <2>8. ASSUME NEW m \in Mon, CloseMonitor(x, m) PROVE Made(t, c)
    <3>1. \E more : Return(x, Call("monclose", m), more)
      BY <2>8 DEF CloseMonitor
    <3>2. x = t /\ c = Call("monclose", m)
      BY <1>5, <1>6, <3>1
    <3>3. QED BY <2>8, <3>2 DEF Made
  <2>9. QED BY <1>6, <2>1, <2>2, <2>3, <2>4, <2>5, <2>6, <2>7, <2>8 DEF Calling
<1>7. ASSUME NEW o \in Stream, Serving(o) PROVE c \in todo'[t]
  <2>1. \/ todo' = todo
        \/ todo[o] = {} /\ \E more : todo' = [todo EXCEPT ![o] = more]
    BY <1>7 DEF Serving, Refuse, Claim, Lookup, ObtainPort, OpenFails, Register, Abandon,
                Respond, Finish, At
  <2>2. QED BY <1>2, <2>1
<1>8. QED BY <1>1, <1>3, <1>4, <1>6, <1>7 DEF Next

LEMMA OwnStep == TypeOK /\ OwnCalls /\ [Next]_vars => OwnCalls'
<1> SUFFICES ASSUME TypeOK, OwnCalls, [Next]_vars PROVE OwnCalls'
  OBVIOUS
<1> USE ThreadSets, ThreadsAssumption DEF TypeOK, OwnCalls
<1>1. CASE UNCHANGED <<snap, up, stream, todo>>
  BY <1>1
<1>2. ASSUME NEW u \in Operator, NEW more, todo' = [todo EXCEPT ![u] = more],
             UNCHANGED <<snap, up, stream>>
      PROVE  OwnCalls'
  BY <1>2
<1>3. CASE Environment
  <2>1. ASSUME NEW u \in Operator,
               \/ Request(u)
               \/ \E d \in Dev, on \in BOOLEAN : SetExposed(u, d, on) \/ SetMonitored(u, d, on)
        PROVE  OwnCalls'
    <3>1. /\ UNCHANGED <<snap, up, stream>>
          /\ todo' = todo \/ \E more : todo' = [todo EXCEPT ![u] = more]
      BY <2>1 DEF Request, SetExposed, SetMonitored
    <3>2. QED BY <1>1, <1>2, <3>1
  <2>2. CASE Connect \/ Disconnect
    BY <2>2 DEF Connect, Disconnect
  <2>3. ASSUME NEW s \in Sid, SessionClosed(s) PROVE OwnCalls'
    BY <2>3 DEF SessionClosed
  <2>4. ASSUME NEW o \in Stream, NEW d \in Dev, AcceptStream(o, d) PROVE OwnCalls'
    BY <2>4 DEF AcceptStream, At
  <2>5. ASSUME NEW o \in Stream, StreamEnds(o) PROVE OwnCalls'
    BY <2>5 DEF StreamEnds, Goto, StreamState
  <2>6. QED
    BY <1>1, <1>3, <2>1, <2>2, <2>3, <2>4, <2>5 DEF Environment, Plug, Unplug, PumpFails
<1>4. CASE Rescan
  BY <1>4 DEF Rescan, Enumerate, Reconcile, ReconcileFails
<1>5. ASSUME NEW t \in Thread, Calling(t) PROVE OwnCalls'
  <2> DEFINE OneCall == /\ UNCHANGED <<snap, up, stream>>
                        /\ \E c, more : c \in todo[t] /\ Return(t, c, more)
  <2>1. OneCall
    <3>1. CASE CloseAll(t)
      BY <3>1 DEF CloseAll, Turn
    <3>2. ASSUME NEW s \in Sid, CloseSession(t, s) \/ ClosePort(t, s) PROVE OneCall
      <4>1. CASE CloseSession(t, s)
        BY <4>1 DEF CloseSession, Turn
      <4>2. CASE ClosePort(t, s)
        BY <4>2 DEF ClosePort, Turn
      <4>3. QED BY <3>2, <4>1, <4>2
    <3>3. ASSUME NEW d \in Dev, ReleaseDevice(t, d) \/ StopMonitor(t, d) PROVE OneCall
      <4>1. CASE ReleaseDevice(t, d)
        BY <4>1 DEF ReleaseDevice, Turn
      <4>2. CASE StopMonitor(t, d)
        BY <4>2 DEF StopMonitor, Turn
      <4>3. QED BY <3>3, <4>1, <4>2
    <3>4. ASSUME NEW d \in Dev, StartMonitor(t, d) \/ OpenMonitor(t, d) PROVE OneCall
      <4>1. CASE StartMonitor(t, d)
        BY <4>1 DEF StartMonitor, Turn
      <4>2. CASE OpenMonitor(t, d)
        BY <4>2 DEF OpenMonitor, Turn
      <4>3. QED BY <3>4, <4>1, <4>2
    <3>5. ASSUME NEW m \in Mon, CloseMonitor(t, m) PROVE OneCall
      BY <3>5 DEF CloseMonitor, Turn
    <3>6. QED BY <1>5, <3>1, <3>2, <3>3, <3>4, <3>5 DEF Calling
  <2>2. QED BY <2>1 DEF Return
<1>6. ASSUME NEW o \in Stream, Serving(o) PROVE OwnCalls'
  <2>1. CASE Respond(o)
    BY <2>1 DEF Respond, Goto, At, StreamState
  <2>2. CASE Finish(o)
    BY <2>2 DEF Finish, Leave
  <2>3. CASE Refuse(o) \/ Claim(o) \/ Lookup(o) \/ ObtainPort(o) \/ OpenFails(o)
               \/ Register(o) \/ Abandon(o)
    <3>1. /\ UNCHANGED <<snap, up, todo>> /\ todo[o] = {}
          /\ \A x \in Stream \ {o} : stream'[x] = stream[x]
      BY <2>3 DEF Refuse, Claim, Lookup, ObtainPort, OpenFails, Register, Abandon,
                  Leave, Goto, At
    <3>2. QED BY <3>1
  <2>4. QED BY <1>6, <2>1, <2>2, <2>3 DEF Serving
<1>7. QED BY <1>1, <1>3, <1>4, <1>5, <1>6 DEF Next, vars

-----------------------------------------------------------------------------
(* What keeps a session registered or ends it.                             *)

LEMMA MadeIsClose ==
  ASSUME NEW t \in Thread, NEW s \in Sid, Made(t, Call("close", s))
  PROVE  CloseSession(t, s)
BY DEF Made, Call, CloseAllCall

LEMMA MadeIsRelease ==
  ASSUME NEW t \in Thread, NEW d \in Dev, Made(t, Call("release", d))
  PROVE  ReleaseDevice(t, d)
BY DEF Made, Call, CloseAllCall

(* A registered session was registered before, or by this step; a step     *)
(* that closes a session removes it.                                       *)
LEMMA SessionsChange ==
  ASSUME TypeOK, StreamShape, [Next]_vars, NEW s \in Sid, s \in Sessions'
  PROVE  /\ \A t \in Thread : ~CloseSession(t, s)
         /\ \/ s \in Sessions /\ sessions'[s] = sessions[s]
            \/ \E o \in Stream : Register(o) /\ stream[o].sid = s
<1> USE DEF TypeOK, Sessions
<1>1. ASSUME NEW t \in Thread, CloseSession(t, s) PROVE FALSE
  BY <1>1 DEF CloseSession
<1>2. ASSUME NEW t \in Thread, NEW r \in Sid, CloseSession(t, r), r # s
      PROVE  s \in Sessions /\ sessions'[s] = sessions[s]
  BY <1>2 DEF CloseSession
<1>3. ASSUME NEW o \in Stream, StreamStep(o)
      PROVE  UNCHANGED sessions \/ Register(o)
  BY <1>3 DEF StreamStep, Serving, StreamEnds, AcceptStream, Refuse, Claim, Lookup,
              ObtainPort, OpenFails, Abandon, Respond, Finish
<1>4. ASSUME NEW o \in Stream, Register(o), stream[o].sid # s
      PROVE  s \in Sessions /\ sessions'[s] = sessions[s]
  BY <1>4 DEF Register, StreamShape, At, Opening
<1>5. QED BY <1>1, <1>2, <1>3, <1>4, Frame

ServedInv == ClaimInv /\ OwnCalls /\ SessionIsServed

LEMMA ServedStep == ServedInv /\ [Next]_vars => SessionIsServed'
<1> SUFFICES ASSUME ServedInv, [Next]_vars, NEW s \in Sid, s \in Sessions'
             PROVE  \E o \in Stream :
                      /\ stream'[o].sid = s /\ stream'[o].dev = sessions'[s]
                      /\ \/ stream'[o].pc \in {"respond", "bridge"}
                         \/ Call("close", s) \in todo'[o]
  BY DEF SessionIsServed, Sessions, At
<1> DEFINE Serves(o) == /\ stream'[o].sid = s /\ stream'[o].dev = sessions'[s]
                        /\ \/ stream'[o].pc \in {"respond", "bridge"}
                           \/ Call("close", s) \in todo'[o]
<1> USE ThreadSets DEF ServedInv, ClaimInv, TypeOK
<1>1. ASSUME NEW o \in Stream, Register(o), stream[o].sid = s PROVE Serves(o)
  BY <1>1 DEF Register, Goto, StreamState, StreamShape, At, Opening
<1>2. ASSUME s \in Sessions, sessions'[s] = sessions[s] PROVE \E o \in Stream : Serves(o)
  <2>1. PICK o \in Stream : /\ stream[o].sid = s /\ stream[o].dev = sessions[s]
                            /\ At(o, "respond") \/ At(o, "bridge")
                                 \/ Call("close", s) \in todo[o]
    BY <1>2 DEF SessionIsServed
  <2>2. ASSUME Call("close", s) \in todo[o] PROVE Call("close", s) \in todo'[o]
    BY <2>2, CallsStay, MadeIsClose, SessionsChange
  <2>3. CASE stream'[o] = stream[o]
    BY <1>2, <2>1, <2>2, <2>3 DEF At
  <2>4. CASE StreamStep(o)
    <3>1. ASSUME At(o, "respond") \/ At(o, "bridge") PROVE Serves(o)
      <4>1. Respond(o) \/ StreamEnds(o)
        BY <2>4, <3>1 DEF StreamStep, Serving, AcceptStream, Refuse, Claim, Lookup,
                          ObtainPort, OpenFails, Register, Abandon, Finish, At
      <4>2. /\ stream'[o].sid = s /\ stream'[o].dev = sessions'[s]
            /\ stream'[o].pc = "bridge" \/ todo' = [todo EXCEPT ![o] = {Call("close", s)}]
        BY <1>2, <2>1, <4>1 DEF Respond, StreamEnds, Goto, StreamState
      <4>3. QED BY <4>2
    <3>2. ASSUME Call("close", s) \in todo[o] PROVE FALSE
      BY <2>4, <3>2 DEF OwnCalls, StreamStep, Serving, AcceptStream, Refuse, Claim, Lookup,
               ObtainPort, OpenFails, Register, Abandon, Respond, StreamEnds, Finish, At
    <3>3. QED BY <2>1, <3>1, <3>2
  <2>5. stream'[o] = stream[o] \/ StreamStep(o)
    BY Frame, OtherStreams DEF CloseSession
  <2>6. QED BY <2>3, <2>4, <2>5
<1>3. QED BY <1>1, <1>2, SessionsChange

LEMMA InitHolds == Init => ClaimInv /\ OwnCalls /\ Sessions = {}
BY ClaimInit, ThreadSets DEF Init, OwnCalls, Sessions

(* Every registered session has a serveStream that will close it: bridge   *)
(* and the reply never lose a session, however its end is caused.          *)
THEOREM SessionsAreServed == Spec => []SessionIsServed
<1>1. Init => ServedInv
  BY InitHolds DEF ServedInv, SessionIsServed
<1>2. ServedInv /\ [Next]_vars => ServedInv'
  BY ClaimStep, OwnStep, ServedStep DEF ServedInv, ClaimInv
<1>3. ServedInv => SessionIsServed
  BY DEF ServedInv
<1>4. QED BY <1>1, <1>2, <1>3, PTL DEF Spec

-----------------------------------------------------------------------------
(* Hiding a device, when the config can be saved.                          *)

(* Only the operator's toggle changes what is exposed.                     *)
LEMMA ExposedFrame ==
  ASSUME [Next]_vars
  PROVE  \/ UNCHANGED exposed
         \/ \E u \in Operator, d \in Dev, on \in BOOLEAN : SetExposed(u, d, on)
<1>1. CASE Environment
  BY <1>1 DEF Environment, Plug, Unplug, PumpFails, Request, SetMonitored, Connect,
              Disconnect, SessionClosed, AcceptStream, StreamEnds
<1>2. CASE Rescan
  BY <1>2 DEF Rescan, Enumerate, Reconcile, ReconcileFails
<1>3. ASSUME NEW t \in Thread, Calling(t) PROVE exposed' = exposed
  BY <1>3 DEF Calling, CloseAll, CloseSession, ClosePort, ReleaseDevice, StopMonitor,
              StartMonitor, OpenMonitor, CloseMonitor
<1>4. ASSUME NEW o \in Stream, Serving(o) PROVE exposed' = exposed
  BY <1>4 DEF Serving, Refuse, Claim, Lookup, ObtainPort, OpenFails, Register, Abandon,
              Respond, Finish
<1>5. QED BY <1>1, <1>2, <1>3, <1>4 DEF Next, vars

HiddenInv == ClaimInv /\ OwnCalls /\ HiddenDeviceIsReleased

LEMMA HiddenStep ==
  ASSUME "operator" \notin SavesFail, HiddenInv, [Next]_vars
  PROVE  HiddenDeviceIsReleased'
<1> USE ThreadSets DEF HiddenInv, ClaimInv, TypeOK
<1> DEFINE Doomed(s) == \E t \in Thread : \/ Call("close", s) \in todo'[t]
                                          \/ Call("release", sessions'[s]) \in todo'[t]
<1> SUFFICES ASSUME NEW s \in Sid, s \in Sessions', sessions'[s] \notin exposed'
             PROVE  Doomed(s)
  BY DEF HiddenDeviceIsReleased, Closing, Sessions
<1>1. ASSUME NEW o \in Stream, Register(o), stream[o].sid = s PROVE FALSE
  <2>1. sessions'[s] = stream[o].dev /\ exposed' = exposed /\ stream[o].dev \in exposed
    BY <1>1 DEF Register
  <2>2. QED BY <2>1
<1>2. s \in Sessions /\ sessions'[s] = sessions[s] /\ sessions[s] \in Dev
  BY <1>1, SessionsChange DEF Sessions
<1>3. CASE sessions[s] \in exposed
  <2>2. PICK u \in Operator, d \in Dev, on \in BOOLEAN : SetExposed(u, d, on)
    BY <1>2, <1>3, ExposedFrame
  <2>3. d = sessions[s] /\ on = FALSE
    BY <1>2, <1>3, <2>2 DEF SetExposed
  <2>4. todo' = [todo EXCEPT ![u] = {Call("release", d)}]
    BY <2>2, <2>3 DEF SetExposed
  <2>5. QED BY <1>2, <2>3, <2>4
<1>4. CASE sessions[s] \notin exposed
  <2>1. PICK t \in Thread : \/ Call("close", s) \in todo[t]
                            \/ Call("release", sessions[s]) \in todo[t]
    BY <1>2, <1>4 DEF HiddenDeviceIsReleased, Closing
  <2>2. CASE Call("close", s) \in todo[t]
    BY <2>2, CallsStay, MadeIsClose, SessionsChange
  <2>3. CASE Call("release", sessions[s]) \in todo[t]
    <3>1. CASE ReleaseDevice(t, sessions[s])
      <4>1. claims[sessions[s]] = s /\ s # None
        BY <1>2, ValuesAssumption DEF ExclusiveClaims, SessionHoldsClaim
      <4>2. Call("close", s) \in todo'[t]
        BY <3>1, <4>1 DEF ReleaseDevice, Return
      <4>3. QED BY <4>2
    <3>2. QED BY <1>2, <2>3, <3>1, CallsStay, MadeIsRelease
  <2>4. QED BY <2>1, <2>2, <2>3
<1>5. QED BY <1>3, <1>4

(* Hiding a device ends its session, and no open under way can slip one in *)
(* behind the release - as long as the config can be saved.                *)
THEOREM HiddenDevicesAreReleased ==
  ASSUME "operator" \notin SavesFail
  PROVE  Spec => []HiddenDeviceIsReleased
<1>1. Init => HiddenInv
  BY InitHolds DEF HiddenInv, HiddenDeviceIsReleased
<1>2. HiddenInv /\ [Next]_vars => HiddenInv'
  BY ClaimStep, OwnStep, HiddenStep DEF HiddenInv, ClaimInv
<1>3. HiddenInv => HiddenDeviceIsReleased
  BY DEF HiddenInv
<1>4. QED BY <1>1, <1>2, <1>3, PTL DEF Spec

-----------------------------------------------------------------------------
(* Open ports have an owner.                                               *)

(* The port of an open under way is not open yet.                          *)
OpenHasNoPort ==
  \A o \in Stream : stream[o].pc \in {"lookup", "attach", "open"} =>
    stream[o].sid \notin held

PortInv == /\ ClaimInv /\ OwnCalls
           /\ OpenHasNoPort
           /\ SessionPortHasOwner /\ MonitorPortHasOwner

LEMMA MadeIsMonitorClose ==
  ASSUME NEW t \in Thread, NEW m \in Mon, Made(t, Call("monclose", m))
  PROVE  CloseMonitor(t, m)
BY DEF Made, Call, CloseAllCall

(* The steps that touch ports and monitors.                                *)
LEMMA PortFrame ==
  ASSUME [Next]_vars
  PROVE  \/ UNCHANGED <<held, monitors>>
         \/ \E t \in Thread, s \in Sid : ClosePort(t, s)
         \/ \E t \in Thread, d \in Dev : StopMonitor(t, d) \/ OpenMonitor(t, d)
         \/ \E t \in Thread, m \in Mon : CloseMonitor(t, m)
         \/ \E o \in Stream : ObtainPort(o) \/ Abandon(o)
<1>1. CASE UNCHANGED vars
  BY <1>1 DEF vars
<1>2. CASE Environment
  BY <1>2 DEF Environment, Plug, Unplug, PumpFails, Request, SetExposed, SetMonitored,
              Connect, Disconnect, SessionClosed, AcceptStream, StreamEnds
<1>3. CASE Rescan
  BY <1>3 DEF Rescan, Enumerate, Reconcile, ReconcileFails
<1>4. ASSUME NEW t \in Thread, Calling(t)
      PROVE  \/ UNCHANGED <<held, monitors>>
             \/ \E s \in Sid : ClosePort(t, s)
             \/ \E d \in Dev : StopMonitor(t, d) \/ OpenMonitor(t, d)
             \/ \E m \in Mon : CloseMonitor(t, m)
  BY <1>4 DEF Calling, CloseAll, CloseSession, ReleaseDevice, StartMonitor
<1>5. ASSUME NEW o \in Stream, Serving(o)
      PROVE  UNCHANGED <<held, monitors>> \/ ObtainPort(o) \/ Abandon(o)
  BY <1>5 DEF Serving, Refuse, Claim, Lookup, OpenFails, Register, Respond, Finish
<1>6. QED BY <1>1, <1>2, <1>3, <1>4, <1>5 DEF Next

LEMMA MadeIsPortClose ==
  ASSUME NEW t \in Thread, NEW s \in Sid, Made(t, Call("portclose", s))
  PROVE  ClosePort(t, s)
BY DEF Made, Call, CloseAllCall

(* A session that is no longer registered was closed by this step.         *)
LEMMA SessionsStay ==
  ASSUME TypeOK, StreamShape, [Next]_vars, NEW s \in Sessions
  PROVE  s \in Sessions' \/ \E t \in Thread : CloseSession(t, s)
<1> USE DEF TypeOK, Sessions
<1>1. ASSUME NEW t \in Thread, NEW r \in Sid, CloseSession(t, r), r # s
      PROVE  s \in Sessions'
  BY <1>1 DEF CloseSession
<1>2. ASSUME NEW o \in Stream, StreamStep(o) PROVE UNCHANGED sessions \/ Register(o)
  BY <1>2 DEF StreamStep, Serving, StreamEnds, AcceptStream, Refuse, Claim, Lookup,
              ObtainPort, OpenFails, Abandon, Respond, Finish
<1>3. ASSUME NEW o \in Stream, Register(o) PROVE s \in Sessions'
  BY <1>3, ValuesAssumption DEF Register, StreamShape, At, Opening
<1>4. QED BY <1>1, <1>2, <1>3, Frame

LEMMA SessionPortStep ==
  ASSUME PortInv, [Next]_vars
  PROVE  OpenHasNoPort' /\ SessionPortHasOwner'
<1> USE ValuesAssumption DEF PortInv, ClaimInv, TypeOK
<1>0. TypeOK'
  BY TypeStep
<1>1. ASSUME NEW s \in Sid, s \in held', s \notin held
      PROVE  \E o \in Stream : ObtainPort(o) /\ stream[o].sid = s
  <2>1. CASE \/ UNCHANGED held
             \/ \E t \in Thread, r \in Sid : ClosePort(t, r)
             \/ \E t \in Thread, m \in Mon : CloseMonitor(t, m)
             \/ \E o \in Stream : Abandon(o)
    BY <1>1, <2>1 DEF ClosePort, CloseMonitor, Abandon
  <2>2. CASE \E t \in Thread, d \in Dev : StopMonitor(t, d) \/ OpenMonitor(t, d)
    BY <1>1, <2>2 DEF StopMonitor, OpenMonitor
  <2>3. CASE \E o \in Stream : ObtainPort(o)
    BY <1>1, <2>3 DEF ObtainPort
  <2>4. QED BY <2>1, <2>2, <2>3, PortFrame
<1>2. OpenHasNoPort'
  <2> SUFFICES ASSUME NEW o \in Stream, stream'[o].pc \in {"lookup", "attach", "open"},
                      stream'[o].sid \in held'
               PROVE  FALSE
    BY DEF OpenHasNoPort
  <2>1. CASE stream'[o] = stream[o]
    <3>1. stream[o].sid \notin held /\ stream[o].sid \in Sid
      BY <2>1 DEF OpenHasNoPort, StreamShape, Opening
    <3>2. PICK p \in Stream : ObtainPort(p) /\ stream[p].sid = stream[o].sid
      BY <1>1, <2>1, <3>1
    <3>3. p = o
      BY <3>1, <3>2 DEF IdsAreUnique
    <3>4. stream'[o].pc = "recheck"
      BY <3>2, <3>3 DEF ObtainPort, Goto, StreamState
    <3>5. QED BY <3>4
  <2>2. CASE StreamStep(o)
    <3>1. CASE Claim(o)
      <4>1. PICK s \in Sid : /\ Fresh(s)
                             /\ stream' = [stream EXCEPT ![o] =
                                            [@ EXCEPT !.pc = "lookup", !.sid = s]]
        BY <3>1 DEF Claim
      <4>2. stream'[o].sid = s /\ s \notin held
        BY <4>1 DEF Fresh, StreamState
      <4>3. QED BY <3>1, <4>2 DEF Claim
    <3>2. CASE Lookup(o)
      <4>1. stream'[o].sid = stream[o].sid /\ stream[o].sid \notin held /\ held' = held
        BY <3>2 DEF Lookup, Goto, At, OpenHasNoPort, StreamState
      <4>2. QED BY <4>1
    <3>3. stream'[o].pc \in {"lookup", "attach", "open"} => Claim(o) \/ Lookup(o)
      <4>1. Leave(o) => stream'[o].pc = "idle"
        BY DEF Leave, Idle
      <4>2. \A pc \in {"recheck", "respond", "bridge", "end"} :
              Goto(o, pc) => stream'[o].pc = pc
        BY DEF Goto, StreamState
      <4>3. \A d \in Dev : AcceptStream(o, d) => stream'[o].pc = "claim"
        BY DEF AcceptStream, Idle
      <4>4. QED BY <2>2, <4>1, <4>2, <4>3 DEF StreamStep, Serving, StreamEnds, Refuse,
                   ObtainPort, OpenFails, Register, Abandon, Respond, Finish
    <3>4. QED BY <3>1, <3>2, <3>3
  <2>3. QED BY <2>1, <2>2, Frame, OtherStreams DEF CloseSession
<1>3. SessionPortHasOwner'
  <2> DEFINE Owned(s) == \/ s \in Sessions'
                         \/ \E o \in Stream : stream'[o].pc = "recheck" /\ stream'[o].sid = s
                         \/ \E t \in Thread : Call("portclose", s) \in todo'[t]
  <2> SUFFICES ASSUME NEW s \in Sid, s \in held' PROVE Owned(s)
    BY DEF SessionPortHasOwner, At
  <2>1. CASE s \notin held
    <3>1. PICK o \in Stream : ObtainPort(o) /\ stream[o].sid = s
      BY <1>1, <2>1
    <3>2. stream'[o].sid = s /\ stream'[o].pc = "recheck"
      BY <3>1 DEF ObtainPort, Goto, StreamState
    <3>3. QED BY <3>2
  <2>2. CASE s \in Sessions
    <3>1. ASSUME NEW t \in Thread, CloseSession(t, s) PROVE Call("portclose", s) \in todo'[t]
      BY <2>2, <3>1 DEF CloseSession, Return
    <3>2. QED BY <2>2, <3>1, SessionsStay
  <2>3. ASSUME NEW o \in Stream, At(o, "recheck"), stream[o].sid = s PROVE Owned(s)
    <3>1. CASE StreamStep(o)
      <4>1. Register(o) \/ Abandon(o)
        BY <2>3, <3>1 DEF StreamStep, Serving, StreamEnds, AcceptStream, Refuse, Claim,
           Lookup, ObtainPort, OpenFails, Respond, Finish, At
      <4>2. ~Abandon(o)
        BY <2>3 DEF Abandon
      <4>3. Register(o) => s \in Sessions'
        BY <2>3 DEF Register, Sessions, StreamShape, At, Opening
      <4>4. QED BY <4>1, <4>2, <4>3
    <3>2. CASE ~StreamStep(o)
      <4>1. stream'[o] = stream[o]
        BY <3>2, Frame, OtherStreams DEF CloseSession
      <4>2. QED BY <2>3, <4>1 DEF At
    <3>3. QED BY <3>1, <3>2
  <2>4. ASSUME NEW t \in Thread, Call("portclose", s) \in todo[t]
        PROVE  Call("portclose", s) \in todo'[t]
    <3>1. ~ClosePort(t, s)
      BY DEF ClosePort
    <3>2. QED BY <2>4, <3>1, CallsStay, MadeIsPortClose
  <2>5. QED BY <2>1, <2>2, <2>3, <2>4 DEF SessionPortHasOwner
<1>4. QED BY <1>2, <1>3

LEMMA MonitorPortStep ==
  ASSUME PortInv, [Next]_vars
  PROVE  MonitorPortHasOwner'
<1> USE ValuesAssumption DEF PortInv, ClaimInv, TypeOK
<1>0. \A o \in Stream : ObtainPort(o) => stream[o].sid \in Sid
  BY DEF ObtainPort, StreamShape, At, Opening
<1>1. failed \subseteq failed'
  <2>1. ASSUME Environment PROVE failed \subseteq failed'
    BY <2>1 DEF Environment, mons, Plug, Unplug, PumpFails, Request, SetExposed, SetMonitored,
                Connect, Disconnect, SessionClosed, AcceptStream, StreamEnds
  <2>2. ASSUME Rescan PROVE UNCHANGED failed
    BY <2>2 DEF Rescan, mons, Enumerate, Reconcile, ReconcileFails
  <2>3. ASSUME NEW t \in Thread, Calling(t) PROVE UNCHANGED failed
    BY <2>3 DEF Calling, mons, CloseAll, CloseSession, ClosePort, ReleaseDevice, StopMonitor,
                StartMonitor, OpenMonitor, CloseMonitor
  <2>4. ASSUME NEW o \in Stream, Serving(o) PROVE UNCHANGED failed
    BY <2>4 DEF Serving, mons, Refuse, Claim, Lookup, ObtainPort, OpenFails, Register, Abandon,
                Respond, Finish
  <2>5. QED BY <2>1, <2>2, <2>3, <2>4 DEF Next, vars
<1>2. ASSUME NEW m \in Mon, m \in held'
      PROVE  \/ \E d \in Dev : monitors'[d] = m
             \/ \E t \in Thread : Call("monclose", m) \in todo'[t]
             \/ m \in failed'
  <2>1. CASE m \notin held
    <3>1. PICK t \in Thread, d \in Dev : OpenMonitor(t, d) /\ monitors'[d] = m
      <4>1. CASE \/ UNCHANGED held
                 \/ \E t \in Thread, r \in Sid : ClosePort(t, r)
                 \/ \E t \in Thread, x \in Mon : CloseMonitor(t, x)
                 \/ \E o \in Stream : ObtainPort(o) \/ Abandon(o)
        BY <1>0, <1>2, <2>1, <4>1 DEF ClosePort, CloseMonitor, ObtainPort, Abandon
      <4>2. CASE \E t \in Thread, d \in Dev : StopMonitor(t, d) \/ OpenMonitor(t, d)
        BY <1>2, <2>1, <4>2 DEF StopMonitor, OpenMonitor
      <4>3. QED BY <4>1, <4>2, PortFrame
    <3>2. QED BY <3>1
  <2>2. ASSUME NEW d \in Dev, monitors[d] = m, monitors'[d] # m
        PROVE  \E t \in Thread : Call("monclose", m) \in todo'[t]
    <3>1. PICK t \in Thread : StopMonitor(t, d)
      BY <2>2, PortFrame DEF ClosePort, StopMonitor, OpenMonitor, CloseMonitor,
                             ObtainPort, Abandon
    <3>2. Call("monclose", m) \in todo'[t]
      BY <2>2, <3>1 DEF StopMonitor, Return
    <3>3. QED BY <3>2
  <2>3. ASSUME NEW t \in Thread, Call("monclose", m) \in todo[t]
        PROVE  Call("monclose", m) \in todo'[t] \/ m \in failed'
    <3>1. ASSUME CloseMonitor(t, m) PROVE m \in failed'
      BY <1>1, <1>2, <3>1 DEF CloseMonitor
    <3>2. QED BY <2>3, <3>1, CallsStay, MadeIsMonitorClose
  <2>4. QED BY <1>1, <2>1, <2>2, <2>3 DEF MonitorPortHasOwner
<1>3. QED BY <1>2 DEF MonitorPortHasOwner

(* Whatever is unplugged, hidden, released or started twice, no port is    *)
(* lost but that of a monitor whose pump failed: a session's port has its  *)
(* stream, a monitor's port is registered or about to be closed.           *)
THEOREM PortsHaveOwners == Spec => []PortHasOwner
<1>1. Init => PortInv
  BY InitHolds, ValuesAssumption DEF Init, PortInv, OpenHasNoPort, SessionPortHasOwner,
                   MonitorPortHasOwner
<1>2. PortInv /\ [Next]_vars => PortInv'
  BY ClaimStep, OwnStep, SessionPortStep, MonitorPortStep DEF PortInv, ClaimInv
<1>3. PortInv => PortHasOwner
  BY DEF PortInv, PortHasOwner
<1>4. QED BY <1>1, <1>2, <1>3, PTL DEF Spec

-----------------------------------------------------------------------------
(* The core implements DeviceAccess.                                       *)

InUse == {sessions[s] : s \in Sessions}

LEMMA AccessStep == ClaimInv /\ [Next]_vars => [Access!Next]_(Access!vars)
<1> SUFFICES ASSUME ClaimInv, [Next]_vars
             PROVE  Access!Next \/ UNCHANGED <<claims, InUse, exposed>>
  BY DEF Access!vars, InUse
<1> USE ValuesAssumption DEF ClaimInv, TypeOK
<1>0. Access!Next <=> \E d \in Dev : \/ Access!Allow(d) \/ Access!Forbid(d)
                                     \/ Access!Grant(d) \/ Access!Free(d)
                                     \/ \E h \in Sid : Access!Hold(d, h)
  BY DEF Access!Next
<1>1. CASE UNCHANGED <<claims, sessions, exposed>>
  BY <1>1 DEF InUse, Sessions
<1>2. ASSUME NEW u \in Operator, NEW d \in Dev, NEW on \in BOOLEAN, SetExposed(u, d, on)
      PROVE  Access!Next
  <2>1. /\ UNCHANGED <<claims, InUse>>
        /\ exposed' = exposed \cup {d} \/ exposed' = exposed \ {d}
    BY <1>2 DEF SetExposed, InUse, Sessions
  <2>2. Access!Allow(d) \/ Access!Forbid(d)
    BY <2>1 DEF Access!Allow, Access!Forbid, InUse
  <2>3. QED BY <1>0, <2>2
<1>3. ASSUME NEW d \in Dev, claims[d] # None, claims' = [claims EXCEPT ![d] = None],
             exposed' = exposed, InUse' = InUse \ {d}
      PROVE  Access!Next
  <2>1. Access!Free(d)
    BY <1>3 DEF Access!Free, InUse
  <2>2. QED BY <1>0, <2>1
<1>4. ASSUME NEW t \in Thread, NEW s \in Sid, CloseSession(t, s)
      PROVE  Access!Next \/ UNCHANGED <<claims, InUse, exposed>>
  <2>1. CASE s \notin Sessions
    BY <1>1, <1>4, <2>1 DEF CloseSession
  <2>2. CASE s \in Sessions
    <3>1. /\ sessions[s] \in Dev /\ claims[sessions[s]] = s
          /\ sessions' = [sessions EXCEPT ![s] = None]
          /\ claims' = [claims EXCEPT ![sessions[s]] = None] /\ exposed' = exposed
      BY <1>4, <2>2 DEF CloseSession, Sessions, ExclusiveClaims, SessionHoldsClaim
    <3>2. InUse' = InUse \ {sessions[s]}
      <4>1. Sessions' = Sessions \ {s} /\ \A r \in Sessions' : sessions'[r] = sessions[r]
        BY <3>1 DEF Sessions
      <4>2. \A r \in Sessions : sessions[r] = sessions[s] => r = s
        BY <2>2 DEF ExclusiveClaims, SessionHoldsClaim
      <4>3. QED BY <2>2, <4>1, <4>2 DEF InUse
    <3>3. QED BY <1>3, <3>1, <3>2
  <2>3. QED BY <2>1, <2>2
<1>5. ASSUME NEW o \in Stream, stream[o].pc \in Opening
      PROVE  /\ stream[o].dev \in Dev /\ claims[stream[o].dev] = stream[o].sid
             /\ stream[o].sid \in Sid /\ stream[o].dev \notin InUse
  <2>1. /\ stream[o].dev \in Dev /\ claims[stream[o].dev] = stream[o].sid
        /\ stream[o].sid \in Sid
    BY <1>5 DEF StreamShape, OpenHoldsClaim, StillOurs
  <2>2. stream[o].sid \notin Sessions
    BY <1>5 DEF OpenIsNotRegistered, Sessions
  <2>3. QED BY <2>1, <2>2 DEF InUse, ExclusiveClaims, SessionHoldsClaim
<1>6. ASSUME NEW o \in Stream, StreamStep(o)
      PROVE  Access!Next \/ UNCHANGED <<claims, InUse, exposed>>
  <2>1. CASE Claim(o)
    <3>1. PICK s \in Sid : Fresh(s) /\ claims' = [claims EXCEPT ![stream[o].dev] = s]
      BY <2>1 DEF Claim
    <3>2. /\ stream[o].dev \in Dev /\ stream[o].dev \in exposed
          /\ claims[stream[o].dev] = None
          /\ UNCHANGED <<sessions, exposed>>
      BY <2>1 DEF Claim, Claimable, StreamShape, At
    <3>3. UNCHANGED InUse
      BY <3>2 DEF InUse, Sessions
    <3>4. Access!Hold(stream[o].dev, s)
      BY <3>1, <3>2, <3>3 DEF Access!Hold, Fresh, InUse
    <3>5. QED BY <1>0, <3>2, <3>4
  <2>2. CASE OpenFails(o) \/ Abandon(o)
    <3>1. /\ stream[o].pc \in Opening /\ UNCHANGED <<sessions, exposed>>
          /\ claims' = [claims EXCEPT ![stream[o].dev] = None]
      BY <2>2 DEF OpenFails, Abandon, At, Opening, OpenHoldsClaim, StillOurs
    <3>2. /\ stream[o].dev \in Dev /\ claims[stream[o].dev] \in Sid
          /\ claims[stream[o].dev] # None
      BY <1>5, <3>1, ValuesAssumption
    <3>3. InUse' = InUse \ {stream[o].dev}
      BY <1>5, <3>1 DEF InUse, Sessions
    <3>4. exposed' = exposed
      BY <3>1
    <3>5. QED BY <1>3, <3>1, <3>2, <3>3, <3>4
  <2>3. CASE Register(o)
    <3>1. /\ stream[o].pc \in Opening /\ stream[o].dev \in exposed
          /\ sessions' = [sessions EXCEPT ![stream[o].sid] = stream[o].dev]
          /\ UNCHANGED <<claims, exposed>>
      BY <2>3 DEF Register, At, Opening
    <3>2. InUse' = InUse \cup {stream[o].dev}
      <4>1. sessions[stream[o].sid] = None
        BY <3>1 DEF OpenIsNotRegistered
      <4>2. /\ Sessions' = Sessions \cup {stream[o].sid}
            /\ sessions'[stream[o].sid] = stream[o].dev
            /\ \A r \in Sessions : sessions'[r] = sessions[r]
        BY <1>5, <3>1, <4>1 DEF Sessions
      <4>3. QED BY <4>2 DEF InUse
    <3>3. /\ stream[o].dev \in Dev /\ stream[o].dev \notin InUse
          /\ claims[stream[o].dev] # None
      BY <1>5, <3>1
    <3>4. PICK d \in Dev : d = stream[o].dev
      BY <3>3
    <3>5. Access!Grant(d)
      BY <3>1, <3>2, <3>3, <3>4 DEF Access!Grant, InUse
    <3>6. QED BY <1>0, <3>5
  <2>4. Claim(o) \/ OpenFails(o) \/ Abandon(o) \/ Register(o)
          \/ UNCHANGED <<claims, sessions, exposed>>
    BY <1>6 DEF StreamStep, Serving, StreamEnds, AcceptStream, Refuse, Lookup, ObtainPort,
                Respond, Finish
  <2>5. QED BY <1>1, <2>1, <2>2, <2>3, <2>4
<1>7. \/ UNCHANGED exposed
      \/ \E u \in Operator, d \in Dev, on \in BOOLEAN : SetExposed(u, d, on)
  BY ExposedFrame
<1>8. QED BY <1>1, <1>2, <1>4, <1>6, <1>7, Frame

(* The registry keeps the promises of DeviceAccess: one holder at a time,  *)
(* access only to an exposed device, and a device that is free in between. *)
THEOREM CoreImplementsAccess == Spec => ImplementsAccess
<1>1. Init => Access!Init
  BY InitHolds DEF Init, Access!Init
<1>2. QED
  BY <1>1, ClaimInit, ClaimStep, AccessStep, PTL DEF Spec, ImplementsAccess, Access!Spec
=============================================================================
