------------------------------ MODULE ControlRpc ------------------------------
(***************************************************************************)
(* Control requests between relay and agent: set_params and drain travel   *)
(* over the agent's control stream, next to the heartbeat                  *)
(* (internal/relay/hub.go, internal/agent/tunnel.go and core.go).          *)
(*                                                                         *)
(* One agent with one device.  A connection carries at most one session,   *)
(* which has its name.  A caller is a goroutine of the HTTP API or of the  *)
(* MCP tools; it waits for an answer or for its timeout.                   *)
(***************************************************************************)
EXTENDS Naturals, Sequences

CONSTANTS
  Conn,    \* connections of the agent
  Caller,  \* requests that may be under way at the same time
  Corr,    \* correlation ids
  None     \* no connection

ASSUME RpcAssumption == None \notin Conn

VARIABLES
  link,    \* the network below a connection; a silent one delivers nothing
  mine,    \* the connection the agent's Tunnel.session serves
  entry,   \* Hub.agents: the connection the relay reaches the agent by
  down,    \* control messages to the agent
  up,      \* control messages to the relay
  pending, \* agentConn.pending: correlation ids somebody waits for
  call,    \* the requests
  loop,    \* where the agent's controlLoop of a connection stands
  age,     \* heartbeats sent since the last pong was received
  grant,   \* the device's AllowControlLines
  live,    \* Core.sessions
  due      \* history: a request could have been granted since it was made

vars == <<link, mine, entry, down, up, pending, call, loop, age, grant, live, due>>
wires == <<link, mine, entry, age>>
device == <<grant, live>>

Kind == {"params", "drain"}
ToAgent == [type : Kind, corr : Corr, sess : Conn]
             \cup [type : {"pong"}]
ToRelay == [type : {"result"}, corr : Corr, ok : BOOLEAN] \cup [type : {"ping"}]

Ready == [pc |-> "recv"]
Busy == [pc : Kind, corr : Corr]
Idle == [pc |-> "idle"]
Calling == [pc : {"lookup"}, kind : Kind, sess : Conn]
             \cup [pc : {"send", "wait"}, kind : Kind, sess : Conn, conn : Conn, corr : Corr]
             \cup [pc : {"done"}, ok : BOOLEAN]

Init == /\ link = [c \in Conn |-> "cut"]
        /\ mine = None /\ entry = None
        /\ down = [c \in Conn |-> <<>>] /\ up = [c \in Conn |-> <<>>]
        /\ pending = [c \in Conn |-> {}]
        /\ call = [q \in Caller |-> Idle]
        /\ loop = [c \in Conn |-> Ready]
        /\ age = [c \in Conn |-> 0]
        /\ grant = FALSE /\ live = {}
        /\ due = [q \in Caller |-> FALSE]

At(q, pc) == call[q].pc = pc
Does(q, r) == call' = [call EXCEPT ![q] = r]
InUse(k) == \/ \E c \in Conn : \/ k \in pending[c]
                               \/ loop[c].pc # "recv" /\ loop[c].corr = k
                               \/ \E i \in DOMAIN down[c] :
                                    down[c][i].type \in Kind /\ down[c][i].corr = k
                               \/ \E i \in DOMAIN up[c] :
                                    up[c][i].type = "result" /\ up[c][i].corr = k
            \/ \E q \in Caller : call[q].pc \in {"send", "wait"} /\ call[q].corr = k

(* What is written to a silent network, or after the end, is lost.         *)
Put(wire, c, m) == IF link[c] = "up" THEN [wire EXCEPT ![c] = Append(@, m)] ELSE wire

-----------------------------------------------------------------------------
(* The connection.                                                         *)

(* A value of Conn stands for a new connection once nothing refers to it.  *)
Users(c) == {q \in Caller : \/ call[q].pc \in {"lookup", "send", "wait"} /\ call[q].sess = c
                            \/ At(q, "send") /\ call[q].conn = c}

(* The agent dials only after its last session returned; the relay makes   *)
(* the connection its entry.                                               *)
Connect(c) ==
  /\ mine = None /\ link[c] = "cut"
  /\ entry # c /\ loop[c] = Ready /\ pending[c] = {}
  /\ Users(c) = {}
  /\ link' = [link EXCEPT ![c] = "up"]
  /\ mine' = c /\ entry' = c
  /\ age' = [age EXCEPT ![c] = 0]
  /\ UNCHANGED <<down, up, pending, call, loop, device>>

(* The network stops delivering without a sign, or the connection breaks.  *)
(* What is in flight is lost.                                              *)
Lose(c, state) == /\ link' = [link EXCEPT ![c] = state]
                  /\ down' = [down EXCEPT ![c] = <<>>]
                  /\ up' = [up EXCEPT ![c] = <<>>]
                  /\ age' = [age EXCEPT ![c] = IF state = "cut" THEN 0 ELSE @]

Disturb(c) == /\ \/ link[c] = "up" /\ Lose(c, "silent")
                 \/ link[c] # "cut" /\ Lose(c, "cut")
              /\ UNCHANGED <<mine, entry, pending, call, loop, device>>

(* session returns and closes what it carried.  The control loop is left   *)
(* to itself: it may still be at work on a request.                        *)
AgentLeaves == /\ mine # None /\ link[mine] = "cut"
               /\ mine' = None /\ live' = {}
               /\ UNCHANGED <<link, entry, down, up, pending, call, loop, age, grant>>

(* HandleWS returns; the callers that wait for an answer are not woken.    *)
RelayLeaves == /\ entry # None /\ link[entry] = "cut"
               /\ entry' = None
               /\ UNCHANGED <<link, mine, age, down, up, pending, call, loop, device>>

-----------------------------------------------------------------------------
(* The heartbeat.                                                          *)

(* A message on a working wire is handled, by a loop that is not busy,     *)
(* long before the next tick.                                              *)
Prompt(c) == link[c] = "up" => up[c] = <<>> /\ (loop[c] = Ready => down[c] = <<>>)

(* Mutant: the heartbeat never gives up.                                   *)
TickForEver(c) == /\ mine = c /\ link[c] # "cut" /\ Prompt(c)
                  /\ age[c] < 3
                  /\ up' = Put(up, c, [type |-> "ping"])
                  /\ age' = [age EXCEPT ![c] = @ + 1]
                  /\ UNCHANGED <<link, mine, entry, down, pending, call, loop, device>>

(* Every tick sends a ping, and ends the connection when the last pong is  *)
(* more than two intervals and five seconds old: at the third tick after   *)
(* it or, when it came late after its tick, at the fourth.                 *)
Tick(c) == /\ mine = c /\ link[c] # "cut" /\ Prompt(c)
           /\ \/ /\ age[c] < 3
                 /\ up' = Put(up, c, [type |-> "ping"])
                 /\ age' = [age EXCEPT ![c] = @ + 1]
                 /\ UNCHANGED <<link, down>>
              \/ /\ age[c] >= 2
                 /\ Lose(c, "cut")
           /\ UNCHANGED <<mine, entry, pending, call, loop, device>>

-----------------------------------------------------------------------------
(* The session and its grant.                                              *)

Open(c) == /\ mine = c /\ entry = c /\ link[c] = "up" /\ live = {}
           /\ live' = {c}
           /\ UNCHANGED <<wires, down, up, pending, call, loop, grant>>

(* The data stream or the port ends, the operator releases the device, or  *)
(* the relay's notice arrives that the consumer closed the session.        *)
SessionEnds == /\ live # {} /\ live' = {}
               /\ UNCHANGED <<wires, down, up, pending, call, loop, grant>>

SetGrant == /\ grant' = ~grant
            /\ UNCHANGED <<wires, down, up, pending, call, loop, live>>

-----------------------------------------------------------------------------
(* The relay's side of a request: rpc.                                     *)

Returns(q, ok) == Does(q, [pc |-> "done", ok |-> ok])

(* The broker found the session; the agent may know better.                *)
Begin(q, kind, s) == /\ At(q, "idle")
                     /\ Does(q, [pc |-> "lookup", kind |-> kind, sess |-> s])
                     /\ UNCHANGED <<wires, down, up, pending, loop, device>>

(* The agent's connection is read under the hub's lock, and used after it. *)
LookUp(q) == /\ At(q, "lookup")
             /\ \/ /\ entry = None
                   /\ Returns(q, FALSE)
                \/ /\ entry # None
                   /\ \E k \in Corr : ~InUse(k) /\
                        Does(q, [pc |-> "send", kind |-> call[q].kind, sess |-> call[q].sess,
                                 conn |-> entry, corr |-> k])
             /\ UNCHANGED <<wires, down, up, pending, loop, device>>

(* add, then Send, which may fail once the connection has ended.           *)
Send(q) ==
  /\ At(q, "send")
  /\ LET c == call[q].conn  k == call[q].corr
     IN \/ /\ pending' = [pending EXCEPT ![c] = @ \cup {k}]
           /\ down' = Put(down, c, [type |-> call[q].kind, corr |-> k, sess |-> call[q].sess])
           /\ Does(q, [call[q] EXCEPT !.pc = "wait"])
        \/ /\ link[c] = "cut"
           /\ Returns(q, FALSE)
           /\ UNCHANGED <<pending, down>>
  /\ UNCHANGED <<wires, up, loop, device>>

(* Mutant: a request that gave up stays among the pending.                 *)
TimeoutKeeps(q) == /\ At(q, "wait")
                   /\ Returns(q, FALSE)
                   /\ UNCHANGED <<wires, down, up, pending, loop, device>>

(* No answer in time: drop.                                                *)
Timeout(q) == /\ At(q, "wait")
              /\ pending' = [pending EXCEPT ![call[q].conn] = @ \ {call[q].corr}]
              /\ Returns(q, FALSE)
              /\ UNCHANGED <<wires, down, up, loop, device>>

Respond(q) == /\ At(q, "done") /\ Does(q, Idle)
              /\ UNCHANGED <<wires, down, up, pending, loop, device>>

(* Mutant: any answer is good for any request of the connection.           *)
ResolveAny(c, k, ok) ==
  \/ /\ pending[c] = {} /\ UNCHANGED <<call, pending>>
  \/ \E q \in Caller : /\ At(q, "wait") /\ call[q].conn = c
                       /\ pending' = [pending EXCEPT ![c] = @ \ {call[q].corr}]
                       /\ Returns(q, ok)

(* pendingMap.resolve: the answer goes to the request that has its id, and *)
(* to nobody if that gave up.                                              *)
Resolve(c, k, ok) ==
  \/ /\ k \notin pending[c] /\ UNCHANGED <<call, pending>>
  \/ /\ k \in pending[c]
     /\ pending' = [pending EXCEPT ![c] = @ \ {k}]
     /\ \E q \in Caller : At(q, "wait") /\ call[q].corr = k /\ Returns(q, ok)

(* Mutant: pings are not answered.                                         *)
RelayRecvOnly(c) ==
  /\ up[c] # <<>>
  /\ up' = [up EXCEPT ![c] = Tail(@)]
  /\ LET m == Head(up[c])
     IN \/ /\ m.type = "ping" /\ UNCHANGED <<down, call, pending>>
        \/ /\ m.type = "result" /\ Resolve(c, m.corr, m.ok) /\ UNCHANGED down
  /\ UNCHANGED <<wires, loop, device>>

(* Hub.controlLoop: pings are answered, results resolved.                  *)
RelayRecv(c) ==
  /\ up[c] # <<>>
  /\ up' = [up EXCEPT ![c] = Tail(@)]
  /\ LET m == Head(up[c])
     IN \/ /\ m.type = "ping"
           /\ down' = Put(down, c, [type |-> "pong"])
           /\ UNCHANGED <<call, pending>>
        \/ /\ m.type = "result" /\ Resolve(c, m.corr, m.ok)
           /\ UNCHANGED down
  /\ UNCHANGED <<wires, loop, device>>

-----------------------------------------------------------------------------
(* The agent's side: controlLoop handles one message after the other.      *)

Answer(c, k, ok) == up' = Put(up, c, [type |-> "result", corr |-> k, ok |-> ok])

(* Core.SetParams and Core.Drain look up the session; set_params, one that  *)
(* changes something, needs the device's grant.  Both are read under the   *)
(* lock, the port is used after.                                           *)
Admitted(m) == m.sess \in live /\ (m.type = "params" => grant)

AgentRecv(c) ==
  /\ loop[c] = Ready /\ down[c] # <<>>
  /\ down' = [down EXCEPT ![c] = Tail(@)]
  /\ LET m == Head(down[c])
     IN \/ /\ m.type = "pong"
           /\ age' = [age EXCEPT ![c] = 0]
           /\ UNCHANGED <<up, loop>>
        \/ /\ m.type \in Kind /\ Admitted(m)
           /\ loop' = [loop EXCEPT ![c] = [pc |-> m.type, corr |-> m.corr]]
           /\ UNCHANGED <<up, age>>
        \/ /\ m.type \in Kind /\ ~Admitted(m)
           /\ Answer(c, m.corr, FALSE)
           /\ UNCHANGED <<loop, age>>
  /\ UNCHANGED <<link, mine, entry, pending, call, device>>

(* The port has taken the parameters or has drained, or has failed; there  *)
(* is no bound on how long a drain takes.                                  *)
PortDone(c) == /\ loop[c] # Ready
               /\ \E ok \in BOOLEAN : Answer(c, loop[c].corr, ok)
               /\ loop' = [loop EXCEPT ![c] = Ready]
               /\ UNCHANGED <<wires, down, pending, call, device>>

Handles(c) == RelayRecv(c) \/ AgentRecv(c) \/ (loop[c].pc # "drain" /\ PortDone(c))

Steps == \/ \E c \in Conn : \/ Connect(c) \/ Disturb(c)
                            \/ Tick(c) \/ Open(c) \/ RelayRecv(c) \/ AgentRecv(c)
                            \/ PortDone(c)
         \/ AgentLeaves \/ RelayLeaves \/ SessionEnds \/ SetGrant
         \/ \E q \in Caller : \/ \E s \in Conn, kind \in Kind : Begin(q, kind, s)
                              \/ LookUp(q) \/ Send(q) \/ Timeout(q) \/ Respond(q)

(* Whether a request could have been granted at some time since it began.  *)
Grantable(r) == /\ r.pc \in {"lookup", "send", "wait"}
                /\ r.sess \in live' /\ (r.kind = "params" => grant')
Watch == due' = [q \in Caller |-> call'[q].pc # "idle" /\ (due[q] \/ Grantable(call'[q]))]

Next == Steps /\ Watch
Spec == Init /\ [][Next]_vars

(* The goroutines of a connection run, and so does the ticker; a drain may *)
(* block for ever and a silent network stay silent.                        *)
FairSpec == /\ Spec
            /\ \A c \in Conn : /\ WF_vars(Handles(c) /\ Watch)
                               /\ WF_vars(Tick(c) /\ Watch)

-----------------------------------------------------------------------------
(* Every variable stays within its type.                                   *)
TypeOK == /\ link \in [Conn -> {"up", "silent", "cut"}]
          /\ mine \in Conn \cup {None} /\ entry \in Conn \cup {None}
          /\ down \in [Conn -> Seq(ToAgent)] /\ up \in [Conn -> Seq(ToRelay)]
          /\ pending \in [Conn -> SUBSET Corr]
          /\ call \in [Caller -> Calling \cup {Idle}]
          /\ loop \in [Conn -> Busy \cup {Ready}]
          /\ age \in [Conn -> 0..3]
          /\ grant \in BOOLEAN /\ live \subseteq Conn
          /\ due \in [Caller -> BOOLEAN]

(* A control request that succeeds was allowed: the session it names was   *)
(* live and, for line parameters, the operator's grant was given at some   *)
(* time while the request was under way (core.go:656-657), whatever was    *)
(* withdrawn or answered late, and over whichever connection.              *)
AnswerIsTrue == \A q \in Caller : At(q, "done") /\ call[q].ok => due[q]

(* The ids a connection waits for are those of requests that wait on it:   *)
(* one that gave up leaves nothing behind, and one that waits can be       *)
(* answered.                                                               *)
PendingIsAwaited == \A c \in Conn :
  pending[c] = {call[q].corr : q \in {p \in Caller : At(p, "wait") /\ call[p].conn = c}}

(* On a working network a control loop that is not busy keeps the          *)
(* connection: once nothing is in flight, the heartbeat has no cause to    *)
(* give up (tunnel.go:316).                                                *)
HealthyLinkIsKept == \A c \in Conn :
  mine = c /\ link[c] = "up" /\ loop[c] = Ready /\ Prompt(c) => age[c] < 2

(* A connection whose network has gone silent, or whose control loop a     *)
(* drain blocks, does not stay: it recovers, or the heartbeat ends it.     *)
Stuck(c) == mine = c /\ link[c] # "cut" /\ (link[c] = "silent" \/ loop[c].pc = "drain")
StuckConnEnds == \A c \in Conn : Stuck(c) ~> ~Stuck(c)
=============================================================================
