------------------------------- MODULE RelayApi -------------------------------
(***************************************************************************)
(* The relay's consumers over the hub: the broker's sessions               *)
(* (internal/relayapi/broker.go), opened, read and closed through the HTTP *)
(* API (internal/relayapi/http.go) or the MCP tools (internal/mcp/mcp.go), *)
(* and the news of device resets, which travel with the device lists.      *)
(*                                                                         *)
(* A request is a goroutine; its actions are the critical sections of      *)
(* Hub.mu, agentConn.mu, Broker.mu and Session.mu it goes through.  What a *)
(* read returns is in SessionBuffer, control requests are in ControlRpc.   *)
(***************************************************************************)
EXTENDS RelayHub

CONSTANTS
  Sid,        \* session ids, which the agents assign
  Request,    \* requests that may be under way at the same time
  Token,      \* API tokens, told apart by their hash
  ReadOnly,   \* tokens that were minted read-only
  Scoped,     \* tokens that were minted for some agents only, ...
  HomeAgents  \* ... namely these

ASSUME ApiAssumption == /\ ReadOnly \subseteq Token /\ Scoped \subseteq Token
                        /\ HomeAgents \subseteq Agent /\ HomeAgents # {}
                        /\ None \notin Sid \cup Token

VARIABLES
  req,    \* what a request has found out so far
  sess,   \* the Session objects
  table,  \* Broker.sessions
  over,   \* sessions of the table whose stream has ended
  told,   \* history: how often reads of a session reported a reset
  most    \* history: the highest count its connection listed for it meanwhile

apiVars == <<req, sess, table, over, told, most>>
vars == <<hubVars, apiVars>>

NoSession == [owner |-> None, conn |-> None, agent |-> None, uuid |-> None, base |-> 0, seen |-> 0]
Session == [owner : Token, conn : Conn, agent : Agent, uuid : Uuid \cup {None},
            base : 0..MaxResets, seen : 0..MaxResets]

Idle == [pc |-> "idle", tok |-> None, name |-> None, conn |-> None, uuid |-> None,
         sid |-> None, entry |-> None, n |-> 0]
Step == {"uuid", "stream", "openentry", "opencount", "read", "readcount", "compare", "close"}
Asking == [pc : Step, tok : Token, name : Name \cup {None}, conn : Conn \cup {None},
           uuid : Uuid \cup {None}, sid : Sid \cup {None}, entry : Conn \cup {None},
           n : 0..MaxResets]

ApiInit == /\ req = [q \in Request |-> Idle]
           /\ sess = [s \in Sid |-> NoSession]
           /\ table = {} /\ over = {}
           /\ told = [s \in Sid |-> 0]
           /\ most = [s \in Sid |-> 0]

Init == HubInit /\ ApiInit

At(q, pc) == req[q].pc = pc
Does(q, r) == req' = [req EXCEPT ![q] = r]

(* Ids and epochs are never used twice: a value of Sid or Conn stands for  *)
(* a new one once nothing refers to the old one any more.                  *)
FreshSid(s) == s \notin table /\ \A q \in Request : req[q].sid # s
FreshConn(c) == /\ \A q \in Request : c \notin {req[q].conn, req[q].entry}
                /\ \A s \in Sid : FreshSid(s) \/ sess[s].conn # c

-----------------------------------------------------------------------------
(* Who may ask for what.                                                   *)

Filter(t) == IF t \in Scoped THEN HomeAgents ELSE {}

(* withAuth: routes that change something refuse read-only tokens.         *)
HttpGrants(t, needsWrite) == t \in Token /\ (needsWrite => t \notin ReadOnly)

(* mcp.Handler verifies the token; each tool that changes something checks *)
(* the read-only flag itself.                                              *)
McpGrants(t, changes) == t \in Token /\ ~(changes /\ t \in ReadOnly)

(* Mutant: any token finds any session.                                    *)
AnySession(t, s) == s \in table

(* sessionFor: sessions of other tokens are indistinguishable from unknown *)
(* ones, over HTTP ...                                                     *)
HttpSession(t, s) == s \in table /\ sess[s].owner = t

(* ... and over MCP.                                                       *)
McpSession(t, s) == s \in table /\ sess[s].owner = t

-----------------------------------------------------------------------------
Top(S, n) == CHOOSE m \in S \cup {n} : \A k \in S \cup {n} : k <= m

(* Opening a session: Hub.Open and Broker.Open.                            *)

(* The request has been let in; resolve finds the one connection.          *)
Resolve(q, t, name, want) ==
  /\ req[q] = Idle
  /\ \E c \in Conn : /\ Candidates(name, want, Filter(t)) = {c}
                     /\ Does(q, [Idle EXCEPT !.pc = "uuid", !.tok = t, !.name = name, !.conn = c])
  /\ UNCHANGED <<hubVars, sess, table, over, told, most>>

HttpOpen(q, t, name, want) == HttpGrants(t, TRUE) /\ Resolve(q, t, name, want)
McpOpen(q, t, name, want) == McpGrants(t, TRUE) /\ Resolve(q, t, name, want)

TakeUuid(q) == /\ At(q, "uuid")
               /\ Does(q, [req[q] EXCEPT !.pc = "stream", !.uuid = UuidOf(req[q].conn, req[q].name)])
               /\ UNCHANGED <<hubVars, sess, table, over, told, most>>

(* The agent opened the device and answered with its session id.           *)
Opened(q, s) ==
  /\ At(q, "stream") /\ conn[req[q].conn].open
  /\ FreshSid(s)
  /\ sess' = [sess EXCEPT ![s] = [owner |-> req[q].tok, conn |-> req[q].conn,
                                  agent |-> conn[req[q].conn].agent, uuid |-> req[q].uuid,
                                  base |-> 0, seen |-> 0]]
  /\ told' = [told EXCEPT ![s] = 0]
  /\ most' = [most EXCEPT ![s] = Top(Counts(req[q].conn, req[q].uuid), 0)]
  /\ Does(q, [req[q] EXCEPT !.pc = "openentry", !.sid = s])
  /\ UNCHANGED <<hubVars, table, over>>

(* No stream, no answer in time, or the agent refused.                     *)
OpenFails(q) == /\ At(q, "stream")
                /\ Does(q, Idle)
                /\ UNCHANGED <<hubVars, sess, table, over, told, most>>

(* ResetsFor, in two critical sections: the agent's entry, ...             *)
LookUpEntry(q) ==
  /\ At(q, "openentry") \/ At(q, "read")
  /\ Does(q, [req[q] EXCEPT !.pc = IF At(q, "read") THEN "readcount" ELSE "opencount",
                            !.entry = agents[sess[req[q].sid].agent]])
  /\ UNCHANGED <<hubVars, sess, table, over, told, most>>

(* Mutant: counts of any connection of the agent are compared.             *)
ComparableAlways(s, c) == TRUE

(* ... and the count it lists, if it has one.  A count of another epoch is *)
(* not this session's.                                                     *)
Comparable(s, c) == c = sess[s].conn
News(q) == LET s == req[q].sid  c == req[q].entry
           IN IF c # None /\ Comparable(s, c) THEN Counts(c, sess[s].uuid) ELSE {}

(* Broker.Open starts from the current count, and adds the session.        *)
AddSession(q) ==
  /\ At(q, "opencount")
  /\ \E n \in IF News(q) = {} THEN {0} ELSE News(q) :
       sess' = [sess EXCEPT ![req[q].sid].base = n, ![req[q].sid].seen = n]
  /\ table' = table \cup {req[q].sid}
  /\ Does(q, Idle)
  /\ UNCHANGED <<hubVars, over, told, most>>

-----------------------------------------------------------------------------
(* Reading: ReadWith asks for news of a reset once its data is complete.   *)

StartRead(q, t, s) == /\ req[q] = Idle
                      /\ Does(q, [Idle EXCEPT !.pc = "read", !.tok = t, !.sid = s])
                      /\ UNCHANGED <<hubVars, sess, table, over, told, most>>

HttpRead(q, t, s) == HttpGrants(t, FALSE) /\ HttpSession(t, s) /\ StartRead(q, t, s)
McpRead(q, t, s) == McpGrants(t, FALSE) /\ McpSession(t, s) /\ StartRead(q, t, s)

TakeCount(q) ==
  /\ At(q, "readcount")
  /\ \/ /\ News(q) = {}
        /\ Does(q, Idle)
     \/ \E n \in News(q) : Does(q, [req[q] EXCEPT !.pc = "compare", !.n = n])
  /\ UNCHANGED <<hubVars, sess, table, over, told, most>>

(* takeResetNews compares, and consumes the news, under the session's lock. *)
Compare(q) ==
  /\ At(q, "compare")
  /\ LET s == req[q].sid  n == req[q].n
     IN IF n <= sess[s].seen
        THEN UNCHANGED <<sess, told>>
        ELSE /\ sess' = [sess EXCEPT ![s].seen = n]
             /\ told' = [told EXCEPT ![s] = @ + 1]
  /\ Does(q, Idle)
  /\ UNCHANGED <<hubVars, table, over, most>>

-----------------------------------------------------------------------------
(* The end of a session.                                                   *)

StartClose(q, t, s) == /\ req[q] = Idle
                       /\ Does(q, [Idle EXCEPT !.pc = "close", !.tok = t, !.sid = s])
                       /\ UNCHANGED <<hubVars, sess, table, over, told, most>>

HttpClose(q, t, s) == HttpGrants(t, TRUE) /\ HttpSession(t, s) /\ StartClose(q, t, s)
McpClose(q, t, s) == McpGrants(t, TRUE) /\ McpSession(t, s) /\ StartClose(q, t, s)

(* Broker.Close: delete the entry, mark the session, close the stream and  *)
(* notify the agent; another request or the reaper may have been faster.   *)
Close(q) == /\ At(q, "close")
            /\ table' = table \ {req[q].sid}
            /\ over' = over \ {req[q].sid}
            /\ Does(q, Idle)
            /\ UNCHANGED <<hubVars, sess, told, most>>

(* The agent ends the stream, or it ends with the connection.              *)
StreamEnds(s) == /\ s \in table \ over
                 /\ over' = over \cup {s}
                 /\ UNCHANGED <<hubVars, req, sess, table, told, most>>

(* The pump has ended and the grace period is over.                        *)
Reap(s) == /\ s \in table \cap over
           /\ table' = table \ {s}
           /\ over' = over \ {s}
           /\ UNCHANGED <<hubVars, req, sess, told, most>>

-----------------------------------------------------------------------------
(* The hub's steps, with the history of the counts it listed.              *)
NewConn(c, a) == FreshConn(c) /\ Accept(c, a) /\ UNCHANGED apiVars

NewList(c, L) ==
  /\ Announced(c, L)
  /\ most' = [s \in Sid |->
       IF sess[s].conn = c
       THEN Top({d.resets : d \in {e \in L : e.uuid = sess[s].uuid}}, most[s])
       ELSE most[s]]
  /\ UNCHANGED <<req, sess, table, over, told>>

HubStep(c) == /\ Register(c) \/ Break(c) \/ Leave(c)
              /\ UNCHANGED apiVars

Serving(q) == \/ TakeUuid(q) \/ OpenFails(q) \/ \E s \in Sid : Opened(q, s)
              \/ LookUpEntry(q) \/ AddSession(q) \/ TakeCount(q) \/ Compare(q) \/ Close(q)

Asked(q) == \E t \in Token :
  \/ \E name \in Name, want \in Agent \cup {None} :
       HttpOpen(q, t, name, want) \/ McpOpen(q, t, name, want)
  \/ \E s \in Sid : \/ HttpRead(q, t, s) \/ McpRead(q, t, s)
                    \/ HttpClose(q, t, s) \/ McpClose(q, t, s)

Next == \/ \E c \in Conn : \/ \E a \in Agent : NewConn(c, a)
                           \/ \E L \in DeviceLists : NewList(c, L)
                           \/ HubStep(c)
        \/ \E q \in Request : Asked(q) \/ Serving(q)
        \/ \E s \in Sid : StreamEnds(s) \/ Reap(s)

Spec == Init /\ [][Next]_vars

-----------------------------------------------------------------------------
(* Every variable stays within its type; a listed session was opened.      *)
TypeOK == /\ HubTypeOK
          /\ req \in [Request -> Asking \cup {Idle}]
          /\ sess \in [Sid -> Session \cup {NoSession}]
          /\ table \subseteq Sid /\ over \subseteq table
          /\ told \in [Sid -> Nat]
          /\ most \in [Sid -> 0..MaxResets]
          /\ \A s \in table : sess[s] # NoSession

(* Only the owner of a session acts on it (broker.go:31-34), whichever     *)
(* surface the request came by and whatever ended the session meanwhile;   *)
(* and a read-only token is list-only (SECURITY.md:88-89): it never holds  *)
(* a session, so no request of it is ever at work on one.                  *)
OnlyOwnersAct == \A q \in Request :
  req[q].sid # None => /\ req[q].tok = sess[req[q].sid].owner
                       /\ req[q].tok \notin ReadOnly

(* A session is on an agent of its token's scope, over a connection that   *)
(* was this agent's.                                                       *)
SessionInScope == \A s \in table :
  /\ Filter(sess[s].owner) = {} \/ sess[s].agent \in Filter(sess[s].owner)
  /\ conn[sess[s].conn] # Gone => conn[sess[s].conn].agent = sess[s].agent

(* Access is what was granted: by the owner, and within its scope.         *)
AccessIsGranted == OnlyOwnersAct /\ SessionInScope

(* A reset is news once (broker.go:53-57): a session is told of at most as *)
(* many resets as its own connection announced beyond the count it started *)
(* from, however reads race and lists overtake each other; a count that    *)
(* was passed over has been told; and no other epoch's count is used.      *)
NewsIsToldOnce == \A s \in table :
  /\ sess[s].base + told[s] <= sess[s].seen
  /\ sess[s].seen > sess[s].base => told[s] > 0
  /\ sess[s].seen <= most[s]
=============================================================================
