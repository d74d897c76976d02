------------------------------ MODULE AgentCore ------------------------------
(***************************************************************************)
(* The agent's device registry, exclusive sessions and monitors, at the    *)
(* granularity of the critical sections of Core.mu (internal/agent/        *)
(* core.go) and with the goroutine that serves one device stream           *)
(* (serveStream and bridge of internal/agent/tunnel.go).                   *)
(*                                                                         *)
(* Goroutines.  A Stream is a goroutine of serveStream.  An Operator is an *)
(* HTTP handler of the web UI.  Rescanner is the main loop with its 3 s    *)
(* ticker, Tunnel the goroutine of Tunnel.session, Control the goroutine   *)
(* of Tunnel.controlLoop.  What a goroutine still has to do between two    *)
(* critical sections is its set of pending calls, todo[t]; the calls of    *)
(* one goroutine run in the order of their stages.                         *)
(*                                                                         *)
(* A device stands for its fingerprint key and its UUID at once: naming    *)
(* devices, and keeping the names, is a question of its own.               *)
(***************************************************************************)
EXTENDS Naturals, FiniteSets

CONSTANTS
  Dev,          \* devices of the config, by UUID
  Sid,          \* session ids; one is used again once nothing refers to it
  Mon,          \* monitors, likewise
  Stream,       \* goroutines of serveStream
  Operator,     \* handlers of the web UI that may run at the same time
  Rescanner, Tunnel, Control,   \* the three single goroutines
  None,         \* absence of a session, monitor or device
  Granted,      \* devices whose record says AllowControlLines
  MaxSessions,  \* core.go: MaxSessions, 16 in the code
  Recorded,     \* devices whose record may say Monitored when the agent starts
  OperatorOps,  \* which requests the operators make
  SavesFail,    \* whose config.Save may return an error
  PortMayFail   \* TRUE if the port of a monitor may fail while it is open

Thread == Stream \cup Operator \cup {Rescanner, Tunnel, Control}

Ops == {"expose", "release", "monitor", "kill"}
Savers == {"rescan", "operator"}

ASSUME ThreadsAssumption ==
  /\ Stream \cap Operator = {}
  /\ {Rescanner, Tunnel, Control} \cap (Stream \cup Operator) = {}
  /\ Rescanner # Tunnel /\ Rescanner # Control /\ Tunnel # Control

ASSUME ValuesAssumption ==
  /\ None \notin Dev \cup Sid \cup Mon
  /\ Sid \cap Mon = {}
  /\ Granted \subseteq Dev /\ Recorded \subseteq Dev
  /\ MaxSessions \in Nat \ {0}
  /\ OperatorOps \subseteq Ops
  /\ SavesFail \subseteq Savers /\ PortMayFail \in BOOLEAN

VARIABLES
  hw,         \* devices that are plugged in
  snap,       \* what enumerate() returned to the rescan under way, or None
  online,     \* devices whose deviceState says Online
  exposed,    \* devices whose record says Exposed
  monitored,  \* devices whose record says Monitored
  claims,     \* Core.claims: the session that claims a device
  sessions,   \* Core.sessions: the device of a registered session
  monitors,   \* Core.monitors: the monitor registered for a device
  failed,     \* monitors whose pump read an error and closed them
  held,       \* ports not closed yet: sessions' (direct or subscriber), monitors'
  stream,     \* the local state of every serveStream
  up,         \* TRUE while the tunnel session lasts
  alive,      \* streams whose connection still exists
  todo        \* the calls a goroutine has still to make

vars == <<hw, snap, online, exposed, monitored, claims, sessions, monitors,
          failed, held, stream, up, alive, todo>>

registry == <<snap, online, exposed, monitored>>
access == <<claims, sessions>>
mons == <<monitors, failed>>
link == <<up, alive>>

-----------------------------------------------------------------------------
(* Pending calls.                                                          *)

SessionCall == [op : {"close", "portclose"}, arg : Sid]
DeviceCall == [op : {"release", "stopmon", "startmon", "monopen"}, arg : Dev]
MonitorCall == [op : {"monclose"}, arg : Mon]
CloseAllCall == [op |-> "closeall", arg |-> None]
Calls == SessionCall \cup DeviceCall \cup MonitorCall \cup {CloseAllCall}

Call(op, a) == [op |-> op, arg |-> a]

(* The unlocked tail of a call comes first, then the calls in the order in *)
(* which Rescan makes them: sessions, monitors to stop, monitors to start. *)
Stage(c) == CASE c.op \in {"portclose", "monclose", "monopen"} -> 0
              [] c.op \in {"close", "release", "closeall"} -> 1
              [] c.op = "stopmon" -> 2
              [] c.op = "startmon" -> 3

Turn(t, c) == /\ c \in todo[t]
              /\ \A other \in todo[t] : Stage(c) <= Stage(other)

(* Goroutine t is done with call c and has the calls more to make.         *)
Return(t, c, more) == todo' = [todo EXCEPT ![t] = (@ \ {c}) \cup more]

Idle == [pc |-> "idle", dev |-> None, sid |-> None]

(* The steps of a stream during which its session id is only a claim.      *)
Opening == {"lookup", "attach", "open", "recheck"}

(* The steps during which it is, or was, a registered session.             *)
Registered == {"respond", "bridge", "end"}

StreamState == [pc : Opening \cup Registered \cup {"idle", "claim"},
                dev : Dev \cup {None}, sid : Sid \cup {None}]

Sessions == {s \in Sid : sessions[s] # None}

-----------------------------------------------------------------------------
(* uuid.NewString never returns an id that is still known anywhere.        *)
Fresh(s) == /\ \A d \in Dev : claims[d] # s
            /\ sessions[s] = None
            /\ s \notin held
            /\ \A o \in Stream : stream[o].sid # s
            /\ \A t \in Thread : \A c \in todo[t] : c.arg # s

FreshMonitor(m) == /\ \A d \in Dev : monitors[d] # m
                   /\ m \notin held
                   /\ \A t \in Thread : \A c \in todo[t] : c.arg # m

(* The config Load returns is any config; New starts with nothing seen.    *)
Init == /\ hw \in SUBSET Dev
        /\ snap = None
        /\ online = {}
        /\ exposed \in SUBSET Dev
        /\ monitored \in SUBSET Recorded
        /\ claims = [d \in Dev |-> None]
        /\ sessions = [s \in Sid |-> None]
        /\ monitors = [d \in Dev |-> None]
        /\ failed = {}
        /\ held = {}
        /\ stream = [o \in Stream |-> Idle]
        /\ up = FALSE
        /\ alive = {}
        /\ todo = [t \in Thread |-> {}]

-----------------------------------------------------------------------------
(* Hardware.                                                               *)

Plug(d) == /\ d \notin hw
           /\ hw' = hw \cup {d}
           /\ UNCHANGED <<registry, access, mons, held, stream, link, todo>>

Unplug(d) == /\ d \in hw
             /\ hw' = hw \ {d}
             /\ UNCHANGED <<registry, access, mons, held, stream, link, todo>>

(* monitor.pump: a read error ends the monitor and its subscribers, and    *)
(* leaves the port open.                                                   *)
PumpFails(m) == /\ PortMayFail
                /\ m \in held \ failed
                /\ failed' = failed \cup {m}
                /\ UNCHANGED <<hw, registry, access, monitors, held, stream, link, todo>>

-----------------------------------------------------------------------------
(* Rescan.                                                                 *)

(* enumerate() runs before the lock is taken.                              *)
Enumerate == /\ todo[Rescanner] = {}
             /\ snap = None
             /\ snap' = [present |-> hw]
             /\ UNCHANGED <<hw, online, exposed, monitored, access, mons, held, stream, link, todo>>

(* Mutant: a vanished device keeps its session.                            *)
ReconcileKeepsSessions ==
  /\ snap # None
  /\ snap' = None
  /\ online' = snap.present
  /\ LET stopMon == {d \in Dev \ snap.present : monitors[d] # None}
         startMon == {d \in snap.present \cap monitored : monitors[d] = None}
     IN todo' = [todo EXCEPT ![Rescanner] =
                   {Call("stopmon", d) : d \in stopMon}
                     \cup {Call("startmon", d) : d \in startMon}]
  /\ UNCHANGED <<hw, exposed, monitored, access, mons, held, stream, link>>

(* The critical section.  The sessions, monitors and devices it finds are  *)
(* handled after the lock is released, from these lists.                   *)
Reconcile ==
  /\ snap # None
  /\ snap' = None
  /\ online' = snap.present
  /\ LET gone == Dev \ snap.present
         orphaned == {claims[d] : d \in gone} \ {None}
         stopMon == {d \in gone : monitors[d] # None}
         startMon == {d \in snap.present \cap monitored : monitors[d] = None}
     IN todo' = [todo EXCEPT ![Rescanner] =
                   {Call("close", s) : s \in orphaned}
                     \cup {Call("stopmon", d) : d \in stopMon}
                     \cup {Call("startmon", d) : d \in startMon}]
  /\ UNCHANGED <<hw, exposed, monitored, access, mons, held, stream, link>>

(* The same scan also found a device the config does not know, and the     *)
(* config could not be saved, or no free word-id was found once the        *)
(* devices in seen had been recorded: Rescan returns the error at once.    *)
ReconcileFails ==
  /\ "rescan" \in SavesFail
  /\ snap # None
  /\ snap' = None
  /\ \/ online' = snap.present
     \/ \E seen \in SUBSET snap.present : online' = online \cup seen
  /\ UNCHANGED <<hw, exposed, monitored, access, mons, held, stream, link, todo>>

-----------------------------------------------------------------------------
(* The web UI.  updateRec changes the record in memory before it saves.    *)

SetExposed(u, d, on) ==
  /\ "expose" \in OperatorOps
  /\ todo[u] = {}
  /\ exposed' = IF on THEN exposed \cup {d} ELSE exposed \ {d}
  /\ \/ todo' = [todo EXCEPT ![u] = IF on THEN {} ELSE {Call("release", d)}]
     \/ /\ "operator" \in SavesFail
        /\ UNCHANGED todo
  /\ UNCHANGED <<hw, snap, online, monitored, access, mons, held, stream, link>>

SetMonitored(u, d, on) ==
  /\ "monitor" \in OperatorOps
  /\ todo[u] = {}
  /\ monitored' = IF on THEN monitored \cup {d} ELSE monitored \ {d}
  /\ \/ todo' = [todo EXCEPT
                   ![u] = {Call(IF on THEN "startmon" ELSE "stopmon", d)}]
     \/ /\ "operator" \in SavesFail
        /\ UNCHANGED todo
  /\ UNCHANGED <<hw, snap, online, exposed, access, mons, held, stream, link>>

(* The End session button, and the kill switch after Tunnel.Disconnect.    *)
Request(u) ==
  /\ todo[u] = {}
  /\ \/ /\ "release" \in OperatorOps
        /\ \E d \in Dev : todo' = [todo EXCEPT ![u] = {Call("release", d)}]
     \/ /\ "kill" \in OperatorOps
        /\ todo' = [todo EXCEPT ![u] = {CloseAllCall}]
  /\ UNCHANGED <<hw, registry, access, mons, held, stream, link>>

-----------------------------------------------------------------------------
(* The calls, as any goroutine makes them.                                 *)

(* ReleaseDevice: the claim is read under the lock, the session is closed  *)
(* after it.                                                               *)
ReleaseDevice(t, d) ==
  /\ Turn(t, Call("release", d))
  /\ Return(t, Call("release", d), {Call("close", s) : s \in {claims[d]} \ {None}})
  /\ UNCHANGED <<hw, registry, access, mons, held, stream, link>>

CloseAll(t) ==
  /\ Turn(t, CloseAllCall)
  /\ Return(t, CloseAllCall, {Call("close", s) : s \in Sessions})
  /\ UNCHANGED <<hw, registry, access, mons, held, stream, link>>

(* Mutant: the session's port is forgotten.                                *)
CloseSessionKeepsPort(t, s) ==
  /\ Turn(t, Call("close", s))
  /\ Return(t, Call("close", s), {})
  /\ IF s \in Sessions
     THEN /\ sessions' = [sessions EXCEPT ![s] = None]
          /\ claims' = [claims EXCEPT ![sessions[s]] = None]
     ELSE UNCHANGED <<sessions, claims>>
  /\ UNCHANGED <<hw, registry, mons, held, stream, link>>

(* CloseSession up to the unlock.  Nothing happens for an id that is not   *)
(* registered, which an open under way is not.                             *)
CloseSession(t, s) ==
  /\ Turn(t, Call("close", s))
  /\ IF s \in Sessions
     THEN /\ sessions' = [sessions EXCEPT ![s] = None]
          /\ claims' = [claims EXCEPT ![sessions[s]] = None]
          /\ Return(t, Call("close", s), {Call("portclose", s)})
     ELSE /\ Return(t, Call("close", s), {})
          /\ UNCHANGED <<sessions, claims>>
  /\ UNCHANGED <<hw, registry, mons, held, stream, link>>

(* s.Port.Close(): a direct port is released, a subscriber only detaches.  *)
ClosePort(t, s) ==
  /\ Turn(t, Call("portclose", s))
  /\ held' = held \ {s}
  /\ Return(t, Call("portclose", s), {})
  /\ UNCHANGED <<hw, registry, access, mons, stream, link>>

StopMonitor(t, d) ==
  /\ Turn(t, Call("stopmon", d))
  /\ monitors' = [monitors EXCEPT ![d] = None]
  /\ Return(t, Call("stopmon", d),
            {Call("monclose", m) : m \in {monitors[d]} \ {None}})
  /\ UNCHANGED <<hw, registry, access, failed, held, stream, link>>

(* monitor.Close returns early, its port still open, when pump has already *)
(* marked the monitor closed (monitor.go:103).                             *)
CloseMonitor(t, m) ==
  /\ Turn(t, Call("monclose", m))
  /\ held' = IF m \in failed THEN held ELSE held \ {m}
  /\ Return(t, Call("monclose", m), {})
  /\ UNCHANGED <<hw, registry, access, mons, stream, link>>

(* startMonitor up to the first unlock.                                    *)
StartMonitor(t, d) ==
  /\ Turn(t, Call("startmon", d))
  /\ Return(t, Call("startmon", d),
            IF monitors[d] = None /\ d \in online THEN {Call("monopen", d)} ELSE {})
  /\ UNCHANGED <<hw, registry, access, mons, held, stream, link>>

(* c.open and the second critical section of startMonitor: the port did    *)
(* not open or another call was faster, or the monitor is registered.      *)
OpenMonitor(t, d) ==
  /\ Turn(t, Call("monopen", d))
  /\ Return(t, Call("monopen", d), {})
  /\ \/ UNCHANGED <<monitors, held>>
     \/ /\ monitors[d] = None
        /\ \E m \in Mon :
             /\ FreshMonitor(m)
             /\ monitors' = [monitors EXCEPT ![d] = m]
             /\ held' = held \cup {m}
  /\ UNCHANGED <<hw, registry, access, failed, stream, link>>

Calling(t) ==
  \/ CloseAll(t)
  \/ \E s \in Sid : CloseSession(t, s) \/ ClosePort(t, s)
  \/ \E d \in Dev : \/ ReleaseDevice(t, d) \/ StopMonitor(t, d)
                    \/ StartMonitor(t, d) \/ OpenMonitor(t, d)
  \/ \E m \in Mon : CloseMonitor(t, m)

-----------------------------------------------------------------------------
(* The tunnel session, as far as the core notices it.                      *)

Connect == /\ ~up
           /\ todo[Tunnel] = {}
           /\ up' = TRUE
           /\ UNCHANGED <<hw, registry, access, mons, held, stream, alive, todo>>

(* The connection is gone, and with it every stream; the tail of           *)
(* Tunnel.session then closes all sessions.                                *)
Disconnect == /\ up
              /\ up' = FALSE
              /\ alive' = {}
              /\ todo' = [todo EXCEPT ![Tunnel] = {CloseAllCall}]
              /\ UNCHANGED <<hw, registry, access, mons, held, stream>>

(* controlLoop: the relay says that a session was closed.  An id that is   *)
(* not registered changes nothing.                                         *)
SessionClosed(s) == /\ up
                    /\ s \in Sessions
                    /\ todo[Control] = {}
                    /\ todo' = [todo EXCEPT ![Control] = {Call("close", s)}]
                    /\ UNCHANGED <<hw, registry, access, mons, held, stream, link>>

-----------------------------------------------------------------------------
(* serveStream(o): OpenSession, the reply, bridge.                         *)

At(o, pc) == stream[o].pc = pc
Goto(o, pc) == stream' = [stream EXCEPT ![o].pc = pc]

(* acceptLoop starts the goroutine, which reads the open header.           *)
AcceptStream(o, d) ==
  /\ up
  /\ At(o, "idle")
  /\ stream' = [stream EXCEPT ![o] = [Idle EXCEPT !.pc = "claim", !.dev = d]]
  /\ alive' = alive \cup {o}
  /\ UNCHANGED <<hw, registry, access, mons, held, up, todo>>

(* serveStream returns and its deferred stream.Close runs.                 *)
Leave(o) == /\ stream' = [stream EXCEPT ![o] = Idle]
            /\ alive' = alive \ {o}

(* Mutant: a device in use is claimed again.                               *)
ClaimableTwice(d) == d \in exposed \cap online /\ Cardinality(Sessions) < MaxSessions

(* The first critical section of OpenSession.                              *)
Claimable(d) == /\ d \in exposed \cap online
                /\ claims[d] = None
                /\ Cardinality(Sessions) < MaxSessions

Claim(o) ==
  /\ At(o, "claim")
  /\ Claimable(stream[o].dev)
  /\ \E s \in Sid :
       /\ Fresh(s)
       /\ claims' = [claims EXCEPT ![stream[o].dev] = s]
       /\ stream' = [stream EXCEPT ![o] = [@ EXCEPT !.pc = "lookup", !.sid = s]]
  /\ UNCHANGED <<hw, registry, sessions, mons, held, link, todo>>

(* The refusal goes out on the stream.  A claimable device is refused only *)
(* to a request that raises DTR or RTS without the grant.                  *)
Refuse(o) ==
  /\ At(o, "claim")
  /\ ~Claimable(stream[o].dev) \/ stream[o].dev \notin Granted
  /\ Leave(o)
  /\ UNCHANGED <<hw, registry, access, mons, held, up, todo>>

(* The second critical section: is the device monitored?                   *)
Lookup(o) ==
  /\ At(o, "lookup")
  /\ Goto(o, IF monitors[stream[o].dev] = None THEN "open" ELSE "attach")
  /\ UNCHANGED <<hw, registry, access, mons, held, link, todo>>

(* mon.attach on the monitor found before, which always gives a subscriber *)
(* (of a monitor that has ended, one that ends at once), or the slow open  *)
(* of the device itself.                                                   *)
ObtainPort(o) ==
  /\ At(o, "attach") \/ At(o, "open")
  /\ Goto(o, "recheck")
  /\ held' = held \cup {stream[o].sid}
  /\ UNCHANGED <<hw, registry, access, mons, link, todo>>

(* Mutant: a failed open keeps its claim.                                  *)
OpenFailsKeepsClaim(o) ==
  /\ At(o, "open")
  /\ Leave(o)
  /\ UNCHANGED <<hw, registry, access, mons, held, up, todo>>

(* The open failed: the claim is given up whoever holds it.                *)
OpenFails(o) ==
  /\ At(o, "open")
  /\ claims' = [claims EXCEPT ![stream[o].dev] = None]
  /\ Leave(o)
  /\ UNCHANGED <<hw, registry, sessions, mons, held, up, todo>>

StillOurs(o) == claims[stream[o].dev] = stream[o].sid

(* Mutant: exposure is not checked again after the slow open.              *)
RegisterUnchecked(o) ==
  /\ At(o, "recheck")
  /\ StillOurs(o)
  /\ sessions' = [sessions EXCEPT ![stream[o].sid] = stream[o].dev]
  /\ Goto(o, "respond")
  /\ UNCHANGED <<hw, registry, claims, mons, held, link, todo>>

(* The last critical section of OpenSession.                               *)
Register(o) ==
  /\ At(o, "recheck")
  /\ StillOurs(o)
  /\ stream[o].dev \in exposed
  /\ sessions' = [sessions EXCEPT ![stream[o].sid] = stream[o].dev]
  /\ Goto(o, "respond")
  /\ UNCHANGED <<hw, registry, claims, mons, held, link, todo>>

(* Mutant: the port that opened for nothing is not closed.                 *)
AbandonKeepsPort(o) ==
  /\ At(o, "recheck")
  /\ ~StillOurs(o) \/ stream[o].dev \notin exposed
  /\ claims' = IF StillOurs(o) THEN [claims EXCEPT ![stream[o].dev] = None]
                               ELSE claims
  /\ Leave(o)
  /\ UNCHANGED <<hw, registry, sessions, mons, held, up, todo>>

(* The open was overtaken: the port is closed, the claim given up if it is *)
(* this one's.                                                             *)
Abandon(o) ==
  /\ At(o, "recheck")
  /\ ~StillOurs(o) \/ stream[o].dev \notin exposed
  /\ claims' = IF StillOurs(o) THEN [claims EXCEPT ![stream[o].dev] = None]
                               ELSE claims
  /\ held' = held \ {stream[o].sid}
  /\ Leave(o)
  /\ UNCHANGED <<hw, registry, sessions, mons, up, todo>>

(* Mutant: a failed reply leaves the session registered.                   *)
RespondKeepsSession(o) ==
  /\ At(o, "respond")
  /\ \/ o \in alive /\ Goto(o, "bridge")
     \/ Goto(o, "end")
  /\ UNCHANGED <<hw, registry, access, mons, held, link, todo>>

(* The reply is written and bridge starts, or the write fails (the stream  *)
(* is dead, or the open took longer than the stream's deadline).           *)
Respond(o) ==
  /\ At(o, "respond")
  /\ \/ /\ o \in alive
        /\ Goto(o, "bridge")
        /\ UNCHANGED todo
     \/ /\ Goto(o, "end")
        /\ todo' = [todo EXCEPT ![o] = {Call("close", stream[o].sid)}]
  /\ UNCHANGED <<hw, registry, access, mons, held, link>>

(* One direction of bridge ended, for whatever reason.                     *)
StreamEnds(o) ==
  /\ At(o, "bridge")
  /\ Goto(o, "end")
  /\ todo' = [todo EXCEPT ![o] = {Call("close", stream[o].sid)}]
  /\ UNCHANGED <<hw, registry, access, mons, held, link>>

(* The second direction has ended as well, or the reply could not be       *)
(* written.  The port is still open if another goroutine is to close it.   *)
Finish(o) ==
  /\ At(o, "end")
  /\ todo[o] = {}
  /\ Leave(o)
  /\ UNCHANGED <<hw, registry, access, mons, held, up, todo>>

Serving(o) == \/ Refuse(o) \/ Claim(o) \/ Lookup(o) \/ ObtainPort(o)
              \/ OpenFails(o) \/ Register(o) \/ Abandon(o) \/ Respond(o)
              \/ Finish(o)

(* Both directions of bridge end with the stream, and only then for sure:  *)
(* while it lives, the one that reads the port may be blocked in           *)
(* stream.Write to a consumer that does not read, and the one that reads   *)
(* the stream waits for bytes to write.                                    *)
MustEnd(o) == o \notin alive

(* The second direction of bridge may still wait for bytes of the port.    *)
Waiting(o) == At(o, "end") /\ stream[o].sid \in held

-----------------------------------------------------------------------------
Environment ==
  \/ \E d \in Dev : Plug(d) \/ Unplug(d)
  \/ \E m \in Mon : PumpFails(m)
  \/ \E u \in Operator :
       \/ Request(u)
       \/ \E d \in Dev, on \in BOOLEAN : SetExposed(u, d, on) \/ SetMonitored(u, d, on)
  \/ Connect \/ Disconnect
  \/ \E s \in Sid : SessionClosed(s)
  \/ \E o \in Stream, d \in Dev : AcceptStream(o, d)
  \/ \E o \in Stream : StreamEnds(o)

Rescan == Enumerate \/ Reconcile \/ ReconcileFails

Next == \/ Environment
        \/ Rescan
        \/ \E t \in Thread : Calling(t)
        \/ \E o \in Stream : Serving(o)

(* A goroutine that can run does run, the ticker ticks, and hardware opens *)
(* and writes return.  Nobody has to ask for anything.  Rescans do not     *)
(* fail for ever: a device whose record could not be saved is known in     *)
(* memory, and the next rescan has nothing to save.                        *)
Fairness == /\ WF_vars(Enumerate) /\ SF_vars(Reconcile)
            /\ \A t \in Thread : WF_vars(Calling(t))
            /\ \A o \in Stream : /\ WF_vars(Serving(o) /\ ~Waiting(o))
                                 /\ WF_vars(StreamEnds(o) /\ MustEnd(o))

Spec == Init /\ [][Next]_vars
FairSpec == Spec /\ Fairness

-----------------------------------------------------------------------------
(* Every variable stays within its type: the maps of the core hold only    *)
(* known devices, sessions and monitors, and calls name what they act on.  *)
TypeOK ==
  /\ hw \subseteq Dev /\ online \subseteq Dev
  /\ exposed \subseteq Dev /\ monitored \subseteq Dev
  /\ snap \in [present : SUBSET Dev] \cup {None}
  /\ claims \in [Dev -> Sid \cup {None}]
  /\ sessions \in [Sid -> Dev \cup {None}]
  /\ monitors \in [Dev -> Mon \cup {None}]
  /\ failed \subseteq Mon
  /\ held \subseteq Sid \cup Mon
  /\ stream \in [Stream -> StreamState]
  /\ up \in BOOLEAN
  /\ alive \subseteq Stream
  /\ todo \in [Thread -> SUBSET Calls]

(* Devices are exclusive (README.md:164).  A registered session holds the  *)
(* claim of its device, so two sessions never share one, whatever is       *)
(* closed, released or reopened while the hardware opens; and a claim      *)
(* always has a session or an open behind it, so that no device stays busy *)
(* for nobody.                                                             *)
OpeningOf(o, d, s) == stream[o].pc \in Opening /\ stream[o].dev = d /\ stream[o].sid = s

SessionHoldsClaim == \A s \in Sessions : claims[sessions[s]] = s
ClaimHasHolder ==
  \A d \in Dev : claims[d] # None =>
    \/ sessions[claims[d]] = d
    \/ \E o \in Stream : OpeningOf(o, d, claims[d])
ExclusiveClaims == SessionHoldsClaim /\ ClaimHasHolder

(* What the comment at core.go:594-597 fears, "the operator may have ...   *)
(* released the claim in the meantime", asks of a release: when the        *)
(* operator's call has closed the session id it found, reported as success *)
(* by core.go:262-272, the device is no longer claimed by that id.  For an *)
(* open under way CloseSession does nothing, so the claim stays, the test  *)
(* stillOurs succeeds, and the open registers.                             *)
ReleaseFreesClaim ==
  [][\A u \in Operator, d \in Dev, s \in Sid :
       /\ Call("close", s) \in todo[u] /\ Call("close", s) \notin todo'[u]
       /\ claims[d] = s
       => claims'[d] # s]_vars

(* A registered session has a serveStream that will close it: it is being  *)
(* answered or bridged, or its stream has ended and is about to close it.  *)
SessionIsServed ==
  \A s \in Sessions : \E o \in Stream :
    /\ stream[o].sid = s /\ stream[o].dev = sessions[s]
    /\ At(o, "respond") \/ At(o, "bridge") \/ Call("close", s) \in todo[o]

(* Hiding a device ends the session that holds it (core.go:250-254), if    *)
(* the config can be saved: once the record says hidden, a session that is *)
(* still registered is about to be closed, and no open can add one.        *)
Closing(s) == \E t \in Thread : \/ Call("close", s) \in todo[t]
                                \/ Call("release", sessions[s]) \in todo[t]
HiddenDeviceIsReleased == \A s \in Sessions : sessions[s] \notin exposed => Closing(s)

(* No port is lost, except that of a failed monitor.  An open port belongs *)
(* to a session that is registered, to an open that has yet to decide, or  *)
(* to a registered monitor, or somebody is about to close it, or its       *)
(* monitor's pump has failed, which leaves it open for good (monitor.go:   *)
(* 103).  The owner may be a monitor nobody wants any more: startMonitor   *)
(* does not look at the record, and one that opens late is registered      *)
(* although monitoring was switched off meanwhile.                         *)
SessionPortHasOwner ==
  \A s \in held \cap Sid :
    \/ s \in Sessions
    \/ \E o \in Stream : At(o, "recheck") /\ stream[o].sid = s
    \/ \E t \in Thread : Call("portclose", s) \in todo[t]
MonitorPortHasOwner ==
  \A m \in held \cap Mon :
    \/ \E d \in Dev : monitors[d] = m
    \/ \E t \in Thread : Call("monclose", m) \in todo[t]
    \/ m \in failed
PortHasOwner == SessionPortHasOwner /\ MonitorPortHasOwner

(* A vanished device ends its session (README.md:182), also one that was   *)
(* still opening when the rescan looked; and a device that stays hidden is *)
(* not held for ever.                                                      *)
DeviceIsFreed ==
  \A d \in Dev : <>[](d \notin hw) \/ <>[](d \notin exposed) => <>[](claims[d] = None)

(* A stream whose connection is gone does not keep its device.             *)
DeadStreamLeaves ==
  \A o \in Stream : (~At(o, "idle") /\ o \notin alive) ~> At(o, "idle")

-----------------------------------------------------------------------------
(* The core implements the abstract access rules: the holder of a device   *)
(* is its claim, and access is granted while a session is registered.      *)
Access == INSTANCE DeviceAccess WITH
            Device <- Dev, Holder <- Sid, Nobody <- None,
            holder <- claims, granted <- {sessions[s] : s \in Sessions},
            allowed <- exposed
ImplementsAccess == Access!Spec
=============================================================================
