------------------------------- MODULE RelayHub -------------------------------
(***************************************************************************)
(* The relay's hub (internal/relay/hub.go): the connections of the agents  *)
(* and the device list each of them announced.  Connections of one agent   *)
(* may overlap, as an agent that lost its network dials again before the   *)
(* relay has noticed.                                                      *)
(*                                                                         *)
(* A connection stands for its epoch, its control stream and its mux       *)
(* session at once.  Which lists an agent announces is left open: Announce *)
(* says how they come about.                                               *)
(***************************************************************************)
EXTENDS Naturals, FiniteSets

CONSTANTS
  Agent,      \* ids of paired agents
  Conn,       \* connections, told apart by their epoch
  Name,       \* word-ids, unique within an agent
  Uuid,       \* identities of devices, which a new word-id does not change
  MaxResets,  \* bound on the resets an agent counts for a device
  None        \* no agent, no connection

ASSUME HubAssumption == /\ None \notin Agent \cup Conn \cup Name \cup Uuid
                        /\ MaxResets \in Nat

VARIABLES
  conn,    \* where HandleWS stands for a connection, and whether its mux is open
  agents,  \* Hub.agents: the connection that speaks for an agent
  devices  \* agentConn.devices

hubVars == <<conn, agents, devices>>

Gone == [pc |-> "gone", agent |-> None, open |-> FALSE]
Handling == [pc : {"accepted", "serving"}, agent : Agent, open : BOOLEAN]

Device == [id : Name, uuid : Uuid, resets : 0..MaxResets]

(* What an agent may announce: each device once, under one word-id.        *)
DeviceLists == {L \in SUBSET Device :
                  \A d, e \in L : d.id = e.id \/ d.uuid = e.uuid => d = e}

HubInit == /\ conn = [c \in Conn |-> Gone]
           /\ agents = [a \in Agent |-> None]
           /\ devices = [c \in Conn |-> {}]

(* HandleWS: the credential and the version are good, and the hello is     *)
(* answered; the connection takes its epoch before it takes the lock.      *)
Accept(c, a) == /\ conn[c] = Gone
                /\ conn' = [conn EXCEPT ![c] = [pc |-> "accepted", agent |-> a, open |-> TRUE]]
                /\ devices' = [devices EXCEPT ![c] = {}]
                /\ UNCHANGED agents

(* One live connection per agent; the one that registers last wins.        *)
Register(c) == /\ conn[c].pc = "accepted"
               /\ LET prev == agents[conn[c].agent]
                  IN conn' = [x \in Conn |->
                                CASE x = c    -> [conn[c] EXCEPT !.pc = "serving"]
                                  [] x = prev -> [conn[x] EXCEPT !.open = FALSE]
                                  [] OTHER    -> conn[x]]
               /\ agents' = [agents EXCEPT ![conn[c].agent] = c]
               /\ UNCHANGED devices

(* controlLoop replaces the list by the one that was announced.  What was  *)
(* received before the mux closed may still be read.                       *)
Announced(c, L) == /\ conn[c].pc = "serving"
                   /\ devices' = [devices EXCEPT ![c] = L]
                   /\ UNCHANGED <<conn, agents>>

(* The network fails, the keepalive gives up or the agent hangs up.        *)
Break(c) == /\ conn[c].open
            /\ conn' = [conn EXCEPT ![c].open = FALSE]
            /\ UNCHANGED <<agents, devices>>

(* Mutant: the end of a connection deletes whatever entry its agent has.   *)
LeaveAnyway(c) == /\ conn[c].pc = "serving" /\ ~conn[c].open
                  /\ agents' = [agents EXCEPT ![conn[c].agent] = None]
                  /\ conn' = [conn EXCEPT ![c] = Gone]
                  /\ UNCHANGED devices

(* Recv fails: HandleWS deletes the entry if it is its own, and returns.   *)
(* Requests that hold the connection still see its list.                   *)
Leave(c) == /\ conn[c].pc = "serving" /\ ~conn[c].open
            /\ agents' = [a \in Agent |-> IF agents[a] = c THEN None ELSE agents[a]]
            /\ conn' = [conn EXCEPT ![c] = Gone]
            /\ UNCHANGED devices

HubNext == \E c \in Conn : \/ \E a \in Agent : Accept(c, a)
                           \/ \E L \in DeviceLists : Announced(c, L)
                           \/ Register(c) \/ Break(c) \/ Leave(c)

HubSpec == HubInit /\ [][HubNext]_hubVars

-----------------------------------------------------------------------------
(* What the API asks of the hub.                                           *)

Connected == {c \in Conn : \E a \in Agent : agents[a] = c}
(* A token without a filter sees every agent.                              *)
Visible(c, filter) == filter = {} \/ conn[c].agent \in filter

(* resolve: the connections that list a word-id, of the agent it is        *)
(* qualified with, if any, and within the token's scope.  The caller gets  *)
(* an error unless there is exactly one.                                   *)
Candidates(name, want, filter) ==
  {c \in Connected : /\ want \in {None, conn[c].agent}
                     /\ Visible(c, filter)
                     /\ \E d \in devices[c] : d.id = name}

(* Open reads the identity of the device in a critical section of its own; *)
(* a list that was replaced in between yields the empty string.            *)
UuidOf(c, name) == IF \E d \in devices[c] : d.id = name
                   THEN (CHOOSE d \in devices[c] : d.id = name).uuid
                   ELSE None

(* ResetsFor, once it has its connection: the counts announced for a       *)
(* device, none if it is not listed.                                       *)
Counts(c, uuid) == {d.resets : d \in {e \in devices[c] : e.uuid = uuid}}

-----------------------------------------------------------------------------
(* Every variable stays within its type.                                   *)
HubTypeOK == /\ conn \in [Conn -> Handling \cup {Gone}]
             /\ agents \in [Agent -> Conn \cup {None}]
             /\ devices \in [Conn -> DeviceLists]

(* A connection that serves and whose mux is open is the one its agent is  *)
(* reached by, so no two of one agent are open.                            *)
OpenConnIsListed ==
  \A c \in Conn : conn[c].pc = "serving" /\ conn[c].open => agents[conn[c].agent] = c

(* The hub never routes to a connection whose handler has returned, or to  *)
(* another agent's.                                                        *)
EntryIsServed ==
  \A a \in Agent : agents[a] # None =>
    conn[agents[a]].pc = "serving" /\ conn[agents[a]].agent = a

(* One live connection per agent; newest wins (hub.go:166): the end of an  *)
(* older one never hides a newer one, and leaves nothing behind.           *)
NewestConnWins == OpenConnIsListed /\ EntryIsServed
=============================================================================
