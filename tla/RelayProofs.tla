----------------------------- MODULE RelayProofs -----------------------------
(* Proofs about RelayHub and RelayApi for any agents, connections, devices, *)
(* tokens, sessions and requests.                                          *)
EXTENDS RelayApi, TLAPS

USE HubAssumption, ApiAssumption

-----------------------------------------------------------------------------
(* The hub.  A live connection is the entry of its agent, because an entry *)
(* is always served: the two are inductive together.                       *)

HubInv == HubTypeOK /\ OpenConnIsListed /\ EntryIsServed

LEMMA NoDevices == {} \in DeviceLists
BY DEF DeviceLists

LEMMA GoneIsNotHandling == Gone \notin Handling
BY DEF Gone, Handling

LEMMA HubInvInit == HubInit => HubInv
BY NoDevices DEF HubInit, HubInv, HubTypeOK, OpenConnIsListed, EntryIsServed, Gone

(* Each step of the hub keeps its invariant.                               *)
LEMMA HubStepInv == HubInv /\ [HubNext]_hubVars => HubInv'
<1> SUFFICES ASSUME HubInv, [HubNext]_hubVars PROVE HubInv'
  OBVIOUS
<1> USE NoDevices DEF HubInv, HubTypeOK
<1>1. ASSUME NEW c \in Conn, NEW a \in Agent, Accept(c, a) PROVE HubInv'
  BY <1>1 DEF Accept, OpenConnIsListed, EntryIsServed, Gone, Handling
<1>2. ASSUME NEW c \in Conn, NEW L \in DeviceLists, Announced(c, L) PROVE HubInv'
  BY <1>2 DEF Announced, OpenConnIsListed, EntryIsServed
<1>3. ASSUME NEW c \in Conn, Register(c) PROVE HubInv'
  <2> DEFINE a == conn[c].agent
             prev == agents[a]
  <2>1. conn[c] \in Handling /\ a \in Agent /\ c # prev
    BY <1>3 DEF Register, EntryIsServed, Handling, Gone
  <2>2. HubTypeOK'
    <3>1. ASSUME NEW x \in Conn PROVE conn'[x] \in Handling \cup {Gone}
      <4>1. CASE x = c
        BY <1>3, <2>1, <4>1 DEF Register, Handling
      <4>2. CASE x # c /\ x = prev
        <5>1. conn[x] \in Handling
          BY <2>1, <4>2 DEF EntryIsServed, Gone
        <5> QED BY <1>3, <2>1, <4>2, <5>1 DEF Register, Handling
      <4>3. CASE x # c /\ x # prev
        BY <1>3, <4>3 DEF Register
      <4> QED BY <4>1, <4>2, <4>3
    <3>2. conn' \in [Conn -> Handling \cup {Gone}]
      <4>1. conn' = [x \in Conn |-> conn'[x]]
        BY <1>3 DEF Register
      <4> QED BY <3>1, <4>1, Zenon
    <3> QED BY <1>3, <2>1, <3>2 DEF Register
  <2>3. OpenConnIsListed'
    BY <1>3, <2>1 DEF Register, OpenConnIsListed, EntryIsServed, Handling, Gone
  <2>4. EntryIsServed'
    BY <1>3, <2>1 DEF Register, EntryIsServed, Handling, Gone
  <2> QED BY <2>2, <2>3, <2>4
<1>4. ASSUME NEW c \in Conn, Break(c) PROVE HubInv'
  <2>1. conn[c] \in Handling
    BY <1>4 DEF Break, Gone
  <2>2. /\ [conn[c] EXCEPT !.open = FALSE] \in Handling
        /\ conn' = [conn EXCEPT ![c] = [conn[c] EXCEPT !.open = FALSE]]
    BY <1>4, <2>1 DEF Break, Handling
  <2>3. HubTypeOK'
    BY <1>4, <2>2 DEF Break
  <2>4. \A x \in Conn : /\ conn'[x].pc = conn[x].pc /\ conn'[x].agent = conn[x].agent
                         /\ conn'[x].open => conn[x].open
    BY <2>1, <2>2 DEF Handling
  <2>5. OpenConnIsListed' /\ EntryIsServed'
    BY <1>4, <2>4 DEF Break, OpenConnIsListed, EntryIsServed
  <2> QED BY <2>3, <2>5
<1>5. ASSUME NEW c \in Conn, Leave(c) PROVE HubInv'
  BY <1>5 DEF Leave, OpenConnIsListed, EntryIsServed, Gone, Handling
<1>6. CASE UNCHANGED hubVars
  BY <1>6 DEF hubVars, OpenConnIsListed, EntryIsServed
<1> QED BY <1>1, <1>2, <1>3, <1>4, <1>5, <1>6 DEF HubNext

-----------------------------------------------------------------------------
(* Types of the API's variables.                                           *)

ApiTypeOK == /\ req \in [Request -> Asking \cup {Idle}]
             /\ sess \in [Sid -> Session \cup {NoSession}]
             /\ table \subseteq Sid /\ over \subseteq table
             /\ told \in [Sid -> Nat]
             /\ most \in [Sid -> 0..MaxResets]

(* What a request has found at which step.                                 *)
RequestShape ==
  \A q \in Request :
    /\ req[q].pc \in {"uuid", "stream"} => /\ req[q].conn \in Conn
                                          /\ req[q].sid = None
    /\ req[q].pc = "idle" => req[q].sid = None
    /\ req[q].pc \in Step \ {"uuid", "stream"} => /\ req[q].sid \in Sid
                                                 /\ sess[req[q].sid] # NoSession

TypeInv == ApiTypeOK /\ RequestShape /\ \A s \in table : sess[s] # NoSession

(* A request that is under way is at a step, an idle one is not.           *)
LEMMA IdleIsNotAsking == Idle.pc = "idle" /\ Idle.sid = None /\ "idle" \notin Step
BY DEF Idle, Step

LEMMA AskingType ==
  ASSUME ApiTypeOK, NEW q \in Request, req[q].pc \in Step
  PROVE  req[q] \in Asking
BY IdleIsNotAsking DEF ApiTypeOK

(* Records a request moves on to.                                          *)
LEMMA StepType ==
  ASSUME NEW r \in Asking, NEW pc \in Step
  PROVE  /\ \A u \in Uuid \cup {None} : [r EXCEPT !.pc = pc, !.uuid = u] \in Asking
         /\ \A s \in Sid : [r EXCEPT !.pc = pc, !.sid = s] \in Asking
         /\ \A c \in Conn \cup {None} : [r EXCEPT !.pc = pc, !.entry = c] \in Asking
         /\ \A n \in 0..MaxResets : [r EXCEPT !.pc = pc, !.n = n] \in Asking
BY DEF Asking

Unasked == [pc : {"idle"}, tok : {None}, name : {None}, conn : {None}, uuid : {None},
            sid : {None}, entry : {None}, n : {0}]

LEMMA IdleType == Idle \in Unasked
BY DEF Idle, Unasked

LEMMA FirstType ==
  ASSUME NEW t \in Token, NEW r \in Unasked, NEW pc \in Step
  PROVE  /\ \A name \in Name, c \in Conn :
              [r EXCEPT !.pc = pc, !.tok = t, !.name = name, !.conn = c] \in Asking
         /\ \A s \in Sid : [r EXCEPT !.pc = pc, !.tok = t, !.sid = s] \in Asking
<1>1. 0 \in 0..MaxResets
  OBVIOUS
<1> QED BY <1>1 DEF Unasked, Asking

LEMMA SessionType ==
  ASSUME NEW x \in Session
  PROVE  /\ x # NoSession /\ x.agent \in Agent
         /\ \A n \in 0..MaxResets : /\ [x EXCEPT !.seen = n] \in Session
                                    /\ [x EXCEPT !.base = n, !.seen = n] \in Session
<1>1. x # NoSession
  BY DEF Session, NoSession
<1>2. x.agent \in Agent
  BY DEF Session
<1>3. ASSUME NEW n \in 0..MaxResets
      PROVE  /\ [x EXCEPT !.seen = n] \in Session
             /\ [x EXCEPT !.base = n, !.seen = n] \in Session
  BY DEF Session
<1> QED BY <1>1, <1>2, <1>3

(* A list has one count for a device at most, within the bound.            *)
LEMMA CountsType ==
  ASSUME HubTypeOK, NEW c \in Conn, NEW u
  PROVE  /\ Counts(c, u) \subseteq 0..MaxResets
         /\ \A m, n \in Counts(c, u) : m = n
BY DEF HubTypeOK, DeviceLists, Device, Counts

LEMMA UuidType ==
  ASSUME HubTypeOK, NEW c \in Conn, NEW name
  PROVE  UuidOf(c, name) \in Uuid \cup {None}
<1>1. devices[c] \subseteq Device
  BY DEF HubTypeOK, DeviceLists
<1>2. CASE \E d \in devices[c] : d.id = name
  <2>1. (CHOOSE d \in devices[c] : d.id = name) \in devices[c]
    BY <1>2
  <2> QED BY <1>1, <1>2, <2>1 DEF UuidOf, Device
<1>3. CASE ~ \E d \in devices[c] : d.id = name
  BY <1>3 DEF UuidOf
<1> QED BY <1>2, <1>3

(* The greatest of at most one count and another number.                   *)
LEMMA TopOf ==
  ASSUME NEW S \in SUBSET (0..MaxResets), \A j, k \in S : j = k, NEW n \in 0..MaxResets
  PROVE  /\ Top(S, n) \in 0..MaxResets
         /\ n <= Top(S, n)
         /\ \A k \in S : k <= Top(S, n)
<1>1. \E m \in S \cup {n} : \A k \in S \cup {n} : k <= m
  <2>1. CASE S = {}
    BY <2>1
  <2>2. ASSUME NEW x \in S PROVE \E m \in S \cup {n} : \A k \in S \cup {n} : k <= m
    <3>1. S = {x}
      BY <2>2
    <3>2. CASE x <= n
      BY <3>1, <3>2
    <3>3. CASE ~(x <= n)
      BY <3>1, <3>3
    <3> QED BY <3>2, <3>3
  <2> QED BY <2>1, <2>2
<1>2. Top(S, n) \in S \cup {n} /\ \A k \in S \cup {n} : k <= Top(S, n)
  BY <1>1 DEF Top
<1> QED BY <1>2

-----------------------------------------------------------------------------
(* What a new request is: it is let in, and what it is about is its own.   *)
AllowedSessions == \A s \in table : sess[s].owner \notin ReadOnly

LEMMA AskedEffect ==
  ASSUME TypeInv, AllowedSessions, NEW q \in Request, Asked(q)
  PROVE  /\ UNCHANGED <<hubVars, sess, table, over, told, most>>
         /\ req[q] = Idle
         /\ \E r \in Asking :
              /\ Does(q, r) /\ r.tok \notin ReadOnly
              /\ \/ /\ r.pc = "uuid" /\ r.sid = None
                    /\ r.conn \in Connected /\ Visible(r.conn, Filter(r.tok))
                 \/ /\ r.pc \in {"read", "close"} /\ r.sid \in table
                    /\ sess[r.sid].owner = r.tok
<1> DEFINE Goal == /\ UNCHANGED <<hubVars, sess, table, over, told, most>>
                   /\ req[q] = Idle
                   /\ \E r \in Asking :
                        /\ Does(q, r) /\ r.tok \notin ReadOnly
                        /\ \/ /\ r.pc = "uuid" /\ r.sid = None
                              /\ r.conn \in Connected /\ Visible(r.conn, Filter(r.tok))
                           \/ /\ r.pc \in {"read", "close"} /\ r.sid \in table
                              /\ sess[r.sid].owner = r.tok
<1>1. ASSUME NEW t \in Token, NEW name \in Name, NEW want \in Agent \cup {None},
             t \notin ReadOnly, Resolve(q, t, name, want)
      PROVE  Goal
  <2>1. PICK c \in Conn :
          /\ Candidates(name, want, Filter(t)) = {c}
          /\ Does(q, [Idle EXCEPT !.pc = "uuid", !.tok = t, !.name = name, !.conn = c])
    BY <1>1 DEF Resolve
  <2> DEFINE r == [Idle EXCEPT !.pc = "uuid", !.tok = t, !.name = name, !.conn = c]
  <2>2. r \in Asking
    BY IdleType, FirstType DEF Step
  <2>3. r.pc = "uuid" /\ r.sid = None /\ r.conn = c /\ r.tok = t
    BY DEF Idle
  <2>4. c \in Connected /\ Visible(c, Filter(t))
    BY <2>1 DEF Candidates
  <2> QED BY <1>1, <2>1, <2>2, <2>3, <2>4 DEF Resolve
<1>2. ASSUME NEW t \in Token, NEW s \in table, sess[s].owner = t,
             StartRead(q, t, s) \/ StartClose(q, t, s)
      PROVE  Goal
  <2>1. s \in Sid /\ t \notin ReadOnly
    BY <1>2 DEF TypeInv, ApiTypeOK, AllowedSessions
  <2>2. PICK pc \in {"read", "close"} : Does(q, [Idle EXCEPT !.pc = pc, !.tok = t, !.sid = s])
    BY <1>2 DEF StartRead, StartClose
  <2> DEFINE r == [Idle EXCEPT !.pc = pc, !.tok = t, !.sid = s]
  <2>3. r \in Asking
    BY <2>1, IdleType, FirstType DEF Step
  <2>4. r.pc = pc /\ r.sid = s /\ r.tok = t
    BY DEF Idle
  <2> QED BY <1>2, <2>1, <2>2, <2>3, <2>4 DEF StartRead, StartClose
<1>3. PICK t \in Token :
        \/ \E name \in Name, want \in Agent \cup {None} :
              t \notin ReadOnly /\ Resolve(q, t, name, want)
        \/ \E s \in table : /\ sess[s].owner = t
                            /\ StartRead(q, t, s) \/ StartClose(q, t, s)
  BY DEF Asked, HttpOpen, McpOpen, HttpGrants, McpGrants, HttpRead, McpRead, HttpClose,
         McpClose, HttpSession, McpSession
<1> QED BY <1>1, <1>2, <1>3

(* Steps of a request that only find out more, or give up.                 *)
Learns(q) == TakeUuid(q) \/ OpenFails(q) \/ LookUpEntry(q) \/ TakeCount(q)

LEMMA LearnsEffect ==
  ASSUME TypeInv, HubTypeOK, NEW q \in Request, Learns(q)
  PROVE  /\ UNCHANGED <<hubVars, sess, table, over, told, most>>
         /\ req[q] \in Asking
         /\ \/ Does(q, Idle)
            \/ \E r \in Asking :
                 /\ Does(q, r)
                 /\ r.tok = req[q].tok /\ r.sid = req[q].sid /\ r.conn = req[q].conn
                 /\ \/ req[q].pc = "uuid" /\ r.pc = "stream"
                    \/ req[q].pc = "openentry" /\ r.pc = "opencount"
                    \/ req[q].pc = "read" /\ r.pc = "readcount"
                    \/ /\ req[q].pc = "readcount" /\ r.pc = "compare"
                       /\ r.n \in News(q)
<1> DEFINE Known == /\ UNCHANGED <<hubVars, sess, table, over, told, most>>
                    /\ req[q] \in Asking
           Goal == \/ Does(q, Idle)
                   \/ \E r \in Asking :
                        /\ Does(q, r)
                        /\ r.tok = req[q].tok /\ r.sid = req[q].sid /\ r.conn = req[q].conn
                        /\ \/ req[q].pc = "uuid" /\ r.pc = "stream"
                           \/ req[q].pc = "openentry" /\ r.pc = "opencount"
                           \/ req[q].pc = "read" /\ r.pc = "readcount"
                           \/ /\ req[q].pc = "readcount" /\ r.pc = "compare"
                              /\ r.n \in News(q)
<1>1. Known
  BY AskingType DEF Learns, TakeUuid, OpenFails, LookUpEntry, TakeCount, At, Step, TypeInv
<1>2. CASE TakeUuid(q)
  <2>1. req[q].conn \in Conn /\ req[q].pc = "uuid"
    BY <1>2 DEF TakeUuid, At, TypeInv, RequestShape
  <2> DEFINE u == UuidOf(req[q].conn, req[q].name)
             r == [req[q] EXCEPT !.pc = "stream", !.uuid = u]
  <2>2. u \in Uuid \cup {None}
    BY <2>1, UuidType
  <2> HIDE DEF u
  <2>3. r \in Asking
    BY <1>1, <2>2, StepType DEF Step
  <2>4. r.pc = "stream" /\ r.tok = req[q].tok /\ r.sid = req[q].sid /\ r.conn = req[q].conn
    BY <1>1 DEF Asking
  <2>5. Does(q, r)
    BY <1>2 DEF TakeUuid, u
  <2> HIDE DEF r
  <2> QED BY <1>1, <2>1, <2>3, <2>4, <2>5
<1>3. CASE LookUpEntry(q)
  <2>1. req[q].sid \in Sid /\ sess[req[q].sid] \in Session
    BY <1>3 DEF LookUpEntry, At, TypeInv, RequestShape, ApiTypeOK, Step
  <2> DEFINE e == agents[sess[req[q].sid].agent]
             pc == IF At(q, "read") THEN "readcount" ELSE "opencount"
             r == [req[q] EXCEPT !.pc = pc, !.entry = e]
  <2>2. e \in Conn \cup {None}
    BY <2>1, SessionType DEF HubTypeOK
  <2> HIDE DEF e
  <2>3. pc \in Step
    BY DEF Step
  <2>4. r \in Asking
    BY <1>1, <2>2, <2>3, StepType
  <2>5. r.pc = pc /\ r.tok = req[q].tok /\ r.sid = req[q].sid /\ r.conn = req[q].conn
    BY <1>1 DEF Asking
  <2>6. Does(q, r)
    BY <1>3 DEF LookUpEntry, e
  <2>7. \/ req[q].pc = "openentry" /\ pc = "opencount"
        \/ req[q].pc = "read" /\ pc = "readcount"
    BY <1>3 DEF LookUpEntry, At
  <2> HIDE DEF r
  <2> QED BY <1>1, <2>4, <2>5, <2>6, <2>7
<1>4. CASE TakeCount(q)
  <2>1. CASE News(q) = {}
    BY <1>1, <1>4, <2>1 DEF TakeCount
  <2>2. CASE \E n \in News(q) : Does(q, [req[q] EXCEPT !.pc = "compare", !.n = n])
    <3>1. PICK n \in News(q) : Does(q, [req[q] EXCEPT !.pc = "compare", !.n = n])
      BY <2>2
    <3>2. n \in 0..MaxResets
      <4>1. req[q].entry \in Conn \cup {None}
        BY <1>1 DEF Asking
      <4>2. req[q].entry \in Conn /\ n \in Counts(req[q].entry, sess[req[q].sid].uuid)
        BY <3>1, <4>1 DEF News
      <4> QED BY <4>2, CountsType
    <3> DEFINE r == [req[q] EXCEPT !.pc = "compare", !.n = n]
    <3>3. r \in Asking
      BY <1>1, <3>2, StepType DEF Step
    <3>4. /\ r.pc = "compare" /\ r.n = n
          /\ r.tok = req[q].tok /\ r.sid = req[q].sid /\ r.conn = req[q].conn
      BY <1>1 DEF Asking
    <3>5. req[q].pc = "readcount"
      BY <1>4 DEF TakeCount, At
    <3>6. Does(q, r)
      BY <3>1
    <3> HIDE DEF r
    <3> QED BY <1>1, <3>1, <3>3, <3>4, <3>5, <3>6
  <2> QED BY <1>4, <2>1, <2>2 DEF TakeCount
<1>5. CASE OpenFails(q)
  BY <1>1, <1>5 DEF OpenFails
<1> QED BY <1>1, <1>2, <1>3, <1>4, <1>5 DEF Learns

-----------------------------------------------------------------------------
(* The API's types hold in every step.                                     *)

(* A request that moves leaves the others where they are.                  *)
LEMMA Moved ==
  ASSUME ApiTypeOK, NEW q \in Request, NEW r \in Asking \cup {Idle}, Does(q, r)
  PROVE  /\ req' \in [Request -> Asking \cup {Idle}]
         /\ req'[q] = r
         /\ \A p \in Request \ {q} : req'[p] = req[p]
BY DEF ApiTypeOK, Does

LEMMA ShapeOf ==
  ASSUME TypeInv, NEW q \in Request, req[q].pc \in Step \ {"uuid", "stream"}
  PROVE  req[q].sid \in Sid /\ sess[req[q].sid] \in Session
BY DEF TypeInv, RequestShape, ApiTypeOK

(* Adding the session of an open that has found its count.                 *)
LEMMA Added ==
  ASSUME TypeInv, HubTypeOK, NEW q \in Request, AddSession(q)
  PROVE  \E n \in 0..MaxResets :
           /\ n = 0 \/ n \in News(q)
           /\ sess[req[q].sid] \in Session
           /\ sess' = [sess EXCEPT ![req[q].sid] = [sess[req[q].sid] EXCEPT !.base = n, !.seen = n]]
<1>1. req[q].pc = "opencount" /\ req[q] \in Asking
  BY AskingType DEF AddSession, At, Step, TypeInv
<1>2. req[q].sid \in Sid /\ sess[req[q].sid] \in Session
  BY <1>1, ShapeOf DEF Step
<1>3. News(q) \subseteq 0..MaxResets
  BY <1>1, CountsType DEF News, Asking
<1>4. PICK n \in IF News(q) = {} THEN {0} ELSE News(q) :
        sess' = [sess EXCEPT ![req[q].sid].base = n, ![req[q].sid].seen = n]
  BY DEF AddSession
<1>5. n \in 0..MaxResets /\ (n = 0 \/ n \in News(q))
  BY <1>3, <1>4
<1>6. sess' = [sess EXCEPT ![req[q].sid] = [sess[req[q].sid] EXCEPT !.base = n, !.seen = n]]
  BY <1>2, <1>4 DEF TypeInv, ApiTypeOK
<1> QED BY <1>2, <1>5, <1>6

(* Whatever the API does, the hub takes a step of its own or none.         *)
LEMMA HubSteps == [Next]_vars => [HubNext]_hubVars
<1> SUFFICES ASSUME [Next]_vars PROVE [HubNext]_hubVars
  OBVIOUS
<1>1. ASSUME NEW q \in Request, Asked(q) \/ Serving(q) PROVE UNCHANGED hubVars
  BY <1>1 DEF Asked, Serving, HttpOpen, McpOpen, Resolve, HttpRead, McpRead, StartRead, HttpClose,
              McpClose, StartClose, TakeUuid, OpenFails, Opened, LookUpEntry, AddSession,
              TakeCount, Compare, Close
<1>2. ASSUME NEW s \in Sid, StreamEnds(s) \/ Reap(s) PROVE UNCHANGED hubVars
  BY <1>2 DEF StreamEnds, Reap
<1>3. ASSUME NEW c \in Conn,
             \/ \E a \in Agent : NewConn(c, a)
             \/ \E L \in DeviceLists : NewList(c, L)
             \/ HubStep(c)
      PROVE  HubNext
  BY <1>3 DEF NewConn, NewList, HubStep, HubNext
<1>4. CASE UNCHANGED vars
  BY <1>4 DEF vars
<1> QED BY <1>1, <1>2, <1>3, <1>4 DEF Next

LEMMA TypeStep == TypeInv /\ HubTypeOK /\ AllowedSessions /\ [Next]_vars => TypeInv'
<1> SUFFICES ASSUME TypeInv, HubTypeOK, AllowedSessions, [Next]_vars PROVE TypeInv'
  OBVIOUS
<1>0. ApiTypeOK
  BY DEF TypeInv
<1>1. ASSUME NEW q \in Request, Asked(q) PROVE TypeInv'
  <2>1. PICK r \in Asking :
          /\ Does(q, r)
          /\ \/ r.pc = "uuid" /\ r.sid = None /\ r.conn \in Connected
             \/ r.pc \in {"read", "close"} /\ r.sid \in table
    BY <1>1, AskedEffect
  <2>2. UNCHANGED <<sess, table, over, told, most>>
    BY <1>1, AskedEffect
  <2>3. ApiTypeOK'
    BY <1>0, <2>1, <2>2, Moved DEF ApiTypeOK
  <2>4. RequestShape'
    BY <1>0, <2>1, <2>2, Moved DEF TypeInv, ApiTypeOK, RequestShape, Connected, Step
  <2> QED BY <2>2, <2>3, <2>4 DEF TypeInv
<1>2. ASSUME NEW q \in Request, Learns(q) PROVE TypeInv'
  <2>1. UNCHANGED <<sess, table, over, told, most>> /\ req[q] \in Asking
    BY <1>2, LearnsEffect
  <2>2. PICK r \in Asking \cup {Idle} :
          /\ Does(q, r)
          /\ \/ r = Idle
             \/ /\ r \in Asking /\ r.sid = req[q].sid /\ r.conn = req[q].conn
                /\ \/ req[q].pc = "uuid" /\ r.pc = "stream"
                   \/ req[q].pc = "openentry" /\ r.pc = "opencount"
                   \/ req[q].pc = "read" /\ r.pc = "readcount"
                   \/ req[q].pc = "readcount" /\ r.pc = "compare"
    BY <1>2, LearnsEffect
  <2>3. ApiTypeOK'
    BY <1>0, <2>1, <2>2, Moved DEF ApiTypeOK
  <2>4. RequestShape'
    BY <1>0, <2>1, <2>2, Moved, IdleIsNotAsking DEF TypeInv, RequestShape, Step, Idle
  <2> QED BY <2>1, <2>3, <2>4 DEF TypeInv
<1>3. ASSUME NEW q \in Request, AddSession(q) PROVE TypeInv'
  <2>1. PICK n \in 0..MaxResets :
          /\ sess[req[q].sid] \in Session
          /\ sess' = [sess EXCEPT ![req[q].sid] = [sess[req[q].sid] EXCEPT !.base = n, !.seen = n]]
    BY <1>3, Added
  <2>2. req[q].sid \in Sid
    BY <1>3, ShapeOf DEF AddSession, At, Step
  <2>3. /\ Does(q, Idle) /\ UNCHANGED <<over, told, most>>
        /\ table' = table \cup {req[q].sid}
    BY <1>3 DEF AddSession
  <2>4. /\ sess' \in [Sid -> Session \cup {NoSession}]
        /\ \A s \in Sid : sess[s] # NoSession => sess'[s] # NoSession
        /\ sess'[req[q].sid] # NoSession
    BY <1>0, <2>1, <2>2, SessionType DEF ApiTypeOK
  <2>5. ApiTypeOK'
    BY <1>0, <2>2, <2>3, <2>4, Moved DEF ApiTypeOK
  <2>6. RequestShape'
    BY <1>0, <2>3, <2>4, Moved, IdleIsNotAsking DEF TypeInv, RequestShape, Idle
  <2> QED BY <1>0, <2>2, <2>3, <2>4, <2>5, <2>6 DEF TypeInv, ApiTypeOK
<1>4. ASSUME NEW q \in Request, Compare(q) PROVE TypeInv'
  <2> DEFINE s == req[q].sid
             n == req[q].n
  <2>1. s \in Sid /\ sess[s] \in Session
    BY <1>4, ShapeOf DEF Compare, At, Step
  <2>2. n \in 0..MaxResets
    BY <1>4, <1>0, AskingType DEF Compare, At, Step, Asking
  <2>3. /\ Does(q, Idle) /\ UNCHANGED <<table, over, most>>
        /\ \/ UNCHANGED <<sess, told>>
           \/ /\ sess' = [sess EXCEPT ![s] = [sess[s] EXCEPT !.seen = n]]
              /\ told' = [told EXCEPT ![s] = told[s] + 1]
    BY <1>4 DEF Compare
  <2>4. /\ sess' \in [Sid -> Session \cup {NoSession}] /\ told' \in [Sid -> Nat]
        /\ \A x \in Sid : sess[x] # NoSession => sess'[x] # NoSession
    <3>1. CASE UNCHANGED <<sess, told>>
      BY <1>0, <3>1 DEF ApiTypeOK
    <3>2. CASE /\ sess' = [sess EXCEPT ![s] = [sess[s] EXCEPT !.seen = n]]
               /\ told' = [told EXCEPT ![s] = told[s] + 1]
      <4> DEFINE x == [sess[s] EXCEPT !.seen = n]
      <4>1. x \in Session /\ x # NoSession
        BY <2>1, <2>2, SessionType
      <4> HIDE DEF x
      <4>2. sess' \in [Sid -> Session \cup {NoSession}]
        BY <1>0, <3>2, <4>1 DEF ApiTypeOK, x
      <4>3. told' \in [Sid -> Nat]
        BY <1>0, <3>2, <2>1 DEF ApiTypeOK
      <4>4. \A y \in Sid : sess[y] # NoSession => sess'[y] # NoSession
        BY <1>0, <3>2, <4>1 DEF ApiTypeOK, x
      <4> QED BY <4>2, <4>3, <4>4
    <3> QED BY <2>3, <3>1, <3>2
  <2>5. ApiTypeOK'
    BY <1>0, <2>3, <2>4, Moved DEF ApiTypeOK
  <2>6. RequestShape'
    BY <1>0, <2>3, <2>4, Moved, IdleIsNotAsking DEF TypeInv, RequestShape, Idle
  <2> QED BY <1>0, <2>3, <2>4, <2>5, <2>6 DEF TypeInv, ApiTypeOK
<1>5. ASSUME NEW q \in Request, Close(q) PROVE TypeInv'
  <2>1. Does(q, Idle) /\ UNCHANGED <<sess, told, most>>
    BY <1>5 DEF Close
  <2>2. ApiTypeOK'
    BY <1>0, <1>5, <2>1, Moved DEF ApiTypeOK, Close
  <2>3. RequestShape'
    BY <1>0, <2>1, Moved, IdleIsNotAsking DEF TypeInv, RequestShape, Idle
  <2> QED BY <1>5, <2>1, <2>2, <2>3 DEF TypeInv, Close
<1>6. ASSUME NEW q \in Request, NEW s \in Sid, Opened(q, s) PROVE TypeInv'
  <2> DEFINE x == [owner |-> req[q].tok, conn |-> req[q].conn, agent |-> conn[req[q].conn].agent,
                   uuid |-> req[q].uuid, base |-> 0, seen |-> 0]
             r == [req[q] EXCEPT !.pc = "openentry", !.sid = s]
             m == Top(Counts(req[q].conn, req[q].uuid), 0)
  <2>1. req[q] \in Asking /\ req[q].conn \in Conn
    BY <1>6, AskingType DEF Opened, At, Step, TypeInv, RequestShape
  <2>2. conn[req[q].conn].agent \in Agent
    BY <1>6, <2>1 DEF Opened, HubTypeOK, Gone, Handling
  <2>3. x \in Session
    BY <2>1, <2>2 DEF Asking, Session
  <2>4. r \in Asking /\ r.sid = s /\ r.pc = "openentry"
    <3>1. "openentry" \in Step
      BY DEF Step
    <3>2. r.sid = s /\ r.pc = "openentry"
      BY <2>1 DEF Asking
    <3> QED BY <2>1, <3>1, <3>2, StepType
  <2>5. m \in 0..MaxResets
    BY <2>1, CountsType, TopOf
  <2>6. /\ Does(q, r) /\ UNCHANGED <<table, over>>
        /\ sess' = [sess EXCEPT ![s] = x] /\ told' = [told EXCEPT ![s] = 0]
        /\ most' = [most EXCEPT ![s] = m]
        /\ \A p \in Request : req[p].sid # s
    BY <1>6 DEF Opened, FreshSid
  <2> HIDE DEF x, r, m
  <2>7. ApiTypeOK'
    BY <1>0, <2>3, <2>4, <2>5, <2>6, Moved DEF ApiTypeOK
  <2>8. \A y \in Sid : sess[y] # NoSession => sess'[y] # NoSession
    BY <1>0, <2>3, <2>6, SessionType DEF ApiTypeOK
  <2>9. RequestShape'
    <3>1. req'[q] = r /\ \A p \in Request \ {q} : req'[p] = req[p]
      BY <1>0, <2>4, <2>6, Moved
    <3>2. sess'[s] # NoSession
      BY <1>0, <2>3, <2>6, SessionType DEF ApiTypeOK
    <3> QED BY <2>4, <2>8, <3>1, <3>2 DEF TypeInv, RequestShape
  <2> QED BY <1>0, <2>6, <2>7, <2>8, <2>9 DEF TypeInv, ApiTypeOK
<1>7. ASSUME NEW s \in Sid, StreamEnds(s) \/ Reap(s) PROVE TypeInv'
  BY <1>7 DEF StreamEnds, Reap, TypeInv, ApiTypeOK, RequestShape
<1>8. ASSUME NEW c \in Conn, NEW L \in DeviceLists, NewList(c, L) PROVE TypeInv'
  <2>1. UNCHANGED <<req, sess, table, over, told>>
    BY <1>8 DEF NewList
  <2>2. \A s \in Sid : most'[s] \in 0..MaxResets
    <3>1. ASSUME NEW s \in Sid
          PROVE  Top({d.resets : d \in {e \in L : e.uuid = sess[s].uuid}}, most[s]) \in 0..MaxResets
      <4> DEFINE S == {d.resets : d \in {e \in L : e.uuid = sess[s].uuid}}
      <4>1. S \subseteq 0..MaxResets /\ \A j, k \in S : j = k
        BY DEF DeviceLists, Device
      <4>2. most[s] \in 0..MaxResets
        BY <1>0 DEF ApiTypeOK
      <4> HIDE DEF S
      <4>3. Top(S, most[s]) \in 0..MaxResets
        BY <4>1, <4>2, TopOf
      <4> QED BY <4>3 DEF S
    <3> QED BY <1>0, <1>8, <3>1 DEF NewList, ApiTypeOK
  <2>3. most' \in [Sid -> 0..MaxResets]
    <3>1. most' = [s \in Sid |-> most'[s]]
      BY <1>8 DEF NewList
    <3> QED BY <2>2, <3>1, Zenon
  <2> QED BY <2>1, <2>3 DEF TypeInv, ApiTypeOK, RequestShape
<1>9. ASSUME NEW c \in Conn, (\E a \in Agent : NewConn(c, a)) \/ HubStep(c) PROVE TypeInv'
  BY <1>9 DEF NewConn, HubStep, apiVars, TypeInv, ApiTypeOK, RequestShape
<1>10. CASE UNCHANGED vars
  BY <1>10 DEF vars, apiVars, TypeInv, ApiTypeOK, RequestShape
<1>11. ASSUME NEW q \in Request, Serving(q) PROVE TypeInv'
  BY <1>2, <1>3, <1>4, <1>5, <1>6, <1>11 DEF Serving, Learns
<1> QED BY <1>1, <1>7, <1>8, <1>9, <1>10, <1>11 DEF Next

-----------------------------------------------------------------------------
(* Who acts on what.  A request that is under way was let in, so it never  *)
(* is of a read-only token; a session belongs to the token that opened it, *)
(* and a session id in use is not handed out again.                        *)

InScope(t, a) == Filter(t) = {} \/ a \in Filter(t)

Used(s) == s \in table \/ \E q \in Request : req[q].sid = s

AccessInv ==
  /\ AllowedSessions
  /\ \A q \in Request :
       /\ req[q].pc # "idle" => req[q].tok \notin ReadOnly
       /\ req[q].sid # None => req[q].tok = sess[req[q].sid].owner
       /\ req[q].pc \in {"uuid", "stream"} /\ conn[req[q].conn] # Gone =>
            InScope(req[q].tok, conn[req[q].conn].agent)
  /\ \A s \in Sid : Used(s) =>
       /\ InScope(sess[s].owner, sess[s].agent)
       /\ conn[sess[s].conn] # Gone => conn[sess[s].conn].agent = sess[s].agent

(* What the end of an open and the comparison of counts leave alone.       *)
LEMMA CountsOnly ==
  ASSUME TypeInv, HubTypeOK, NEW q \in Request, AddSession(q) \/ Compare(q)
  PROVE  /\ Does(q, Idle) /\ req[q].sid \in Sid /\ UNCHANGED <<hubVars, over, most>>
         /\ table' \subseteq table \cup {req[q].sid}
         /\ \A s \in Sid : /\ sess'[s].owner = sess[s].owner /\ sess'[s].conn = sess[s].conn
                           /\ sess'[s].agent = sess[s].agent /\ sess'[s].uuid = sess[s].uuid
<1>1. req[q].sid \in Sid /\ sess[req[q].sid] \in Session
  BY ShapeOf DEF AddSession, Compare, At, Step
<1>2. CASE AddSession(q)
  <2>1. PICK n \in 0..MaxResets :
          sess' = [sess EXCEPT ![req[q].sid] = [sess[req[q].sid] EXCEPT !.base = n, !.seen = n]]
    BY <1>2, Added
  <2> QED BY <1>1, <1>2, <2>1 DEF AddSession, TypeInv, ApiTypeOK, Session
<1>3. CASE Compare(q)
  <2>1. CASE UNCHANGED sess
    BY <1>1, <1>3, <2>1 DEF Compare
  <2>2. CASE sess' = [sess EXCEPT ![req[q].sid] = [sess[req[q].sid] EXCEPT !.seen = req[q].n]]
    BY <1>1, <1>3, <2>2 DEF Compare, TypeInv, ApiTypeOK, Session
  <2> QED BY <1>3, <2>1, <2>2 DEF Compare
<1> QED BY <1>2, <1>3

(* Only a new connection has an agent that its value did not have before.  *)
LEMMA AgentsStay ==
  ASSUME HubInv, NEW c \in Conn, HubStep(c) \/ \E L \in DeviceLists : NewList(c, L)
  PROVE  \A x \in Conn : conn'[x] # Gone => conn[x] # Gone /\ conn'[x].agent = conn[x].agent
<1>1. CASE Register(c)
  <2> DEFINE prev == agents[conn[c].agent]
  <2>1. conn[c] \in Handling /\ conn[c] # Gone
    BY <1>1, GoneIsNotHandling DEF Register, HubInv, HubTypeOK, Gone
  <2>2. prev \in Conn => conn[prev] \in Handling /\ conn[prev] # Gone
    BY <2>1, GoneIsNotHandling DEF HubInv, HubTypeOK, EntryIsServed, Handling, Gone
  <2>3. conn'[c].agent = conn[c].agent
    BY <1>1, <2>1 DEF Register, Handling
  <2>4. prev \in Conn \ {c} => conn'[prev].agent = conn[prev].agent
    BY <1>1, <2>2 DEF Register, Handling
  <2>5. \A x \in Conn \ {c, prev} : conn'[x] = conn[x]
    BY <1>1 DEF Register
  <2> QED BY <2>1, <2>2, <2>3, <2>4, <2>5
<1>2. CASE Break(c)
  <2>1. conn[c] \in Handling
    BY <1>2 DEF Break, Gone, HubInv, HubTypeOK
  <2>2. conn' = [conn EXCEPT ![c] = [conn[c] EXCEPT !.open = FALSE]]
    BY <1>2 DEF Break
  <2>3. conn[c] # Gone
    BY <2>1, GoneIsNotHandling
  <2> QED BY <2>1, <2>2, <2>3 DEF Handling, HubInv, HubTypeOK
<1>3. CASE Leave(c)
  BY <1>3 DEF Leave, HubInv, HubTypeOK
<1>4. ASSUME NEW L \in DeviceLists, NewList(c, L) PROVE UNCHANGED conn
  BY <1>4 DEF NewList, Announced
<1> QED BY <1>1, <1>2, <1>3, <1>4 DEF HubStep

LEMMA AccessStep == TypeInv /\ HubInv /\ AccessInv /\ [Next]_vars => AccessInv'
<1> SUFFICES ASSUME TypeInv, HubInv, AccessInv, [Next]_vars PROVE AccessInv'
  OBVIOUS
<1>0. ApiTypeOK /\ HubTypeOK /\ AllowedSessions
  BY DEF TypeInv, HubInv, AccessInv
<1>1. ASSUME NEW q \in Request, Asked(q) PROVE AccessInv'
  <2>1. PICK r \in Asking :
          /\ Does(q, r) /\ r.tok \notin ReadOnly
          /\ \/ /\ r.pc = "uuid" /\ r.sid = None
                /\ r.conn \in Connected /\ Visible(r.conn, Filter(r.tok))
             \/ /\ r.pc \in {"read", "close"} /\ r.sid \in table
                /\ sess[r.sid].owner = r.tok
    BY <1>0, <1>1, AskedEffect
  <2>2. UNCHANGED <<conn, sess, table>>
    BY <1>0, <1>1, AskedEffect DEF hubVars
  <2>3. req'[q] = r /\ \A p \in Request \ {q} : req'[p] = req[p]
    BY <1>0, <2>1, Moved
  <2>4. \A s \in Sid : Used(s)' => Used(s)
    BY <2>1, <2>2, <2>3 DEF Used
  <2> QED BY <2>1, <2>2, <2>3, <2>4 DEF AccessInv, AllowedSessions, Visible, InScope
<1>2. ASSUME NEW q \in Request, Learns(q) PROVE AccessInv'
  <2>1. UNCHANGED <<conn, sess, table>> /\ req[q] \in Asking
    BY <1>0, <1>2, LearnsEffect DEF hubVars
  <2>2. PICK r \in Asking \cup {Idle} :
          /\ Does(q, r)
          /\ \/ r = Idle
             \/ /\ r.tok = req[q].tok /\ r.sid = req[q].sid /\ r.conn = req[q].conn
                /\ r.pc = "stream" => req[q].pc = "uuid"
                /\ r.pc # "uuid"
    BY <1>0, <1>2, LearnsEffect
  <2>3. req'[q] = r /\ \A p \in Request \ {q} : req'[p] = req[p]
    BY <1>0, <2>2, Moved
  <2>4. \A s \in Sid : Used(s)' => Used(s)
    BY <2>1, <2>2, <2>3, IdleIsNotAsking DEF Used
  <2>5. req[q].pc # "idle"
    BY <2>1, IdleIsNotAsking DEF Asking
  <2> QED BY <2>1, <2>2, <2>3, <2>4, <2>5, IdleIsNotAsking DEF AccessInv, AllowedSessions, Idle
<1>3. ASSUME NEW q \in Request, AddSession(q) \/ Compare(q) PROVE AccessInv'
  <2>1. /\ Does(q, Idle) /\ req[q].sid \in Sid /\ UNCHANGED conn
        /\ table' \subseteq table \cup {req[q].sid}
        /\ \A s \in Sid : /\ sess'[s].owner = sess[s].owner /\ sess'[s].conn = sess[s].conn
                          /\ sess'[s].agent = sess[s].agent
    BY <1>0, <1>3, CountsOnly DEF hubVars
  <2>2. req'[q] = Idle /\ \A p \in Request \ {q} : req'[p] = req[p]
    BY <1>0, <2>1, Moved
  <2>3. \A s \in Sid : Used(s)' => Used(s)
    BY <2>1, <2>2, IdleIsNotAsking DEF Used
  <2>4. AllowedSessions'
    <3>1. req[q].pc # "idle" /\ req[q].sid # None
      BY <1>3, <2>1 DEF AddSession, Compare, At
    <3> QED BY <1>0, <2>1, <3>1 DEF AccessInv, AllowedSessions, ApiTypeOK
  <2>5. \A p \in Request : req'[p].sid # None => req'[p].sid \in Sid
    BY <1>0, <2>2, IdleIsNotAsking DEF ApiTypeOK, Asking, Idle
  <2> QED BY <2>1, <2>2, <2>3, <2>4, <2>5, IdleIsNotAsking DEF AccessInv
<1>4. ASSUME NEW q \in Request, Close(q) PROVE AccessInv'
  <2>1. /\ Does(q, Idle) /\ UNCHANGED <<conn, sess>> /\ table' \subseteq table
    BY <1>4 DEF Close, hubVars
  <2>2. req'[q] = Idle /\ \A p \in Request \ {q} : req'[p] = req[p]
    BY <1>0, <2>1, Moved
  <2>3. \A s \in Sid : Used(s)' => Used(s)
    BY <2>1, <2>2, IdleIsNotAsking DEF Used
  <2> QED BY <2>1, <2>2, <2>3, IdleIsNotAsking DEF AccessInv, AllowedSessions
<1>5. ASSUME NEW q \in Request, NEW s \in Sid, Opened(q, s) PROVE AccessInv'
  <2> DEFINE x == [owner |-> req[q].tok, conn |-> req[q].conn, agent |-> conn[req[q].conn].agent,
                   uuid |-> req[q].uuid, base |-> 0, seen |-> 0]
             r == [req[q] EXCEPT !.pc = "openentry", !.sid = s]
  <2>1. /\ req[q] \in Asking /\ req[q].conn \in Conn
        /\ req[q].pc = "stream"
    BY <1>0, <1>5, AskingType DEF Opened, At, Step, TypeInv, RequestShape
  <2>2. r.sid = s /\ r.pc = "openentry" /\ r.tok = req[q].tok
    BY <2>1 DEF Asking
  <2>3. r \in Asking
    <3>1. "openentry" \in Step
      BY DEF Step
    <3> QED BY <2>1, <3>1, StepType
  <2>4. /\ x.owner = req[q].tok /\ x.conn = req[q].conn /\ x.agent = conn[req[q].conn].agent
    OBVIOUS
  <2>5. /\ Does(q, r) /\ UNCHANGED <<conn, table>>
        /\ sess' = [sess EXCEPT ![s] = x]
        /\ s \notin table /\ \A p \in Request : req[p].sid # s
        /\ conn[req[q].conn].open
    BY <1>5 DEF Opened, FreshSid, hubVars
  <2> HIDE DEF x, r
  <2>6. req'[q] = r /\ \A p \in Request \ {q} : req'[p] = req[p]
    BY <1>0, <2>3, <2>5, Moved
  <2>7. sess'[s] = x /\ \A y \in Sid \ {s} : sess'[y] = sess[y]
    BY <1>0, <2>5 DEF ApiTypeOK
  <2>8. conn[req[q].conn] # Gone
    BY <2>5 DEF Gone
  <2>9. AllowedSessions'
    BY <1>0, <2>5, <2>7 DEF AllowedSessions, ApiTypeOK
  <2>10. \A y \in Sid \ {s} : Used(y)' => Used(y)
    BY <2>2, <2>5, <2>6 DEF Used
  <2>11. \A p \in Request : req[p].sid # None => req[p].sid \in Sid
    BY <1>0 DEF ApiTypeOK, Asking, Idle
  <2>12. \A p \in Request :
           /\ req'[p].pc # "idle" => req'[p].tok \notin ReadOnly
           /\ req'[p].sid # None => req'[p].tok = sess'[req'[p].sid].owner
           /\ req'[p].pc \in {"uuid", "stream"} /\ conn'[req'[p].conn] # Gone =>
                InScope(req'[p].tok, conn'[req'[p].conn].agent)
    BY <2>1, <2>2, <2>4, <2>5, <2>6, <2>7, <2>11 DEF AccessInv
  <2>13. \A y \in Sid : Used(y)' =>
           /\ InScope(sess'[y].owner, sess'[y].agent)
           /\ conn'[sess'[y].conn] # Gone => conn'[sess'[y].conn].agent = sess'[y].agent
    BY <2>1, <2>4, <2>5, <2>7, <2>8, <2>10 DEF AccessInv
  <2> QED BY <2>9, <2>12, <2>13 DEF AccessInv, InScope
<1>6. ASSUME NEW s \in Sid, StreamEnds(s) \/ Reap(s) PROVE AccessInv'
  <2>1. UNCHANGED <<conn, req, sess>> /\ table' \subseteq table
    BY <1>6 DEF StreamEnds, Reap, hubVars
  <2> QED BY <2>1 DEF AccessInv, AllowedSessions, Used
<1>7. ASSUME NEW c \in Conn,
             \/ \E a \in Agent : NewConn(c, a)
             \/ \E L \in DeviceLists : NewList(c, L)
             \/ HubStep(c)
      PROVE  AccessInv'
  <2>1. UNCHANGED <<req, sess, table>>
    BY <1>7 DEF NewConn, NewList, HubStep, apiVars
  <2>2. \A q \in Request : req[q].pc \in {"uuid", "stream"} => req[q].conn \in Conn
    BY DEF TypeInv, RequestShape
  <2>3. \A s \in Sid : Used(s) => sess[s].conn \in Conn
    <3>1. ASSUME NEW s \in Sid, Used(s) PROVE sess[s] # NoSession
      <4>1. CASE s \in table
        BY <4>1 DEF TypeInv
      <4>2. ASSUME NEW q \in Request, req[q].sid = s PROVE sess[s] # NoSession
        BY <1>0, <4>2 DEF TypeInv, RequestShape, ApiTypeOK, Asking, Idle
      <4> QED BY <3>1, <4>1, <4>2 DEF Used
    <3> QED BY <1>0, <3>1 DEF ApiTypeOK, Session
  <2>4. CASE \E a \in Agent : NewConn(c, a)
    <3>1. /\ \A q \in Request : req[q].conn # c
          /\ \A s \in Sid : Used(s) => sess[s].conn # c
      BY <2>4 DEF NewConn, FreshConn, FreshSid, Used
    <3>2. \A x \in Conn \ {c} : conn'[x] = conn[x]
      BY <1>0, <2>4 DEF NewConn, Accept, HubTypeOK
    <3> QED BY <2>1, <2>2, <2>3, <3>1, <3>2 DEF AccessInv, AllowedSessions, Used
  <2>5. CASE HubStep(c) \/ \E L \in DeviceLists : NewList(c, L)
    <3>1. \A x \in Conn : conn'[x] # Gone => conn[x] # Gone /\ conn'[x].agent = conn[x].agent
      BY <2>5, AgentsStay
    <3> QED BY <2>1, <2>2, <2>3, <3>1 DEF AccessInv, AllowedSessions, Used
  <2> QED BY <1>7, <2>4, <2>5
<1>8. CASE UNCHANGED vars
  BY <1>8 DEF vars, hubVars, apiVars, AccessInv, AllowedSessions, Used
<1>9. ASSUME NEW q \in Request, Serving(q) PROVE AccessInv'
  BY <1>2, <1>3, <1>4, <1>5, <1>9 DEF Serving, Learns
<1> QED BY <1>1, <1>6, <1>7, <1>8, <1>9 DEF Next

-----------------------------------------------------------------------------
(* News of resets.  A session that is being opened is nobody else's, so    *)
(* nothing is told of it before it has its count; and no count that its    *)
(* connection lists, or that a read has taken from it, is above most.      *)

NewsInv ==
  /\ \A s \in Sid : /\ sess[s].base + told[s] <= sess[s].seen
                    /\ sess[s].seen > sess[s].base => told[s] > 0
                    /\ sess[s].seen <= most[s]
  /\ \A q \in Request : req[q].pc \in {"openentry", "opencount"} =>
       /\ req[q].sid \notin table /\ told[req[q].sid] = 0
       /\ \A p \in Request \ {q} : req[p].sid # req[q].sid
  /\ \A q \in Request : req[q].pc = "compare" => req[q].n <= most[req[q].sid]
  /\ \A s \in Sid : Used(s) => \A n \in Counts(sess[s].conn, sess[s].uuid) : n <= most[s]

(* Types of what the invariant compares.                                   *)
LEMMA NumberTypes ==
  ASSUME TypeInv
  PROVE  /\ \A s \in Sid : /\ sess[s].base \in Nat /\ sess[s].seen \in Nat
                           /\ told[s] \in Nat /\ most[s] \in Nat
         /\ \A q \in Request : req[q].n \in Nat
         /\ \A q \in Request : req[q].sid # None => req[q].sid \in Sid
         /\ \A s \in Sid : Used(s) => sess[s] \in Session
<1>1. ASSUME NEW s \in Sid
      PROVE  sess[s].base \in Nat /\ sess[s].seen \in Nat /\ told[s] \in Nat /\ most[s] \in Nat
  <2>1. sess[s] \in Session \/ sess[s] = NoSession
    BY DEF TypeInv, ApiTypeOK
  <2>2. told[s] \in Nat /\ most[s] \in Nat
    BY DEF TypeInv, ApiTypeOK
  <2> QED BY <2>1, <2>2 DEF Session, NoSession
<1>2. ASSUME NEW q \in Request
      PROVE  req[q].n \in Nat /\ (req[q].sid # None => req[q].sid \in Sid)
  <2>1. req[q] \in Asking \/ req[q] = Idle
    BY DEF TypeInv, ApiTypeOK
  <2> QED BY <2>1 DEF Asking, Idle
<1>3. ASSUME NEW s \in Sid, Used(s) PROVE sess[s] \in Session
  <2>1. CASE s \in table
    BY <2>1 DEF TypeInv, ApiTypeOK
  <2>2. ASSUME NEW q \in Request, req[q].sid = s PROVE sess[s] \in Session
    <3>1. req[q] \in Asking \/ req[q] = Idle
      BY DEF TypeInv, ApiTypeOK
    <3>2. req[q].pc \in Step
      BY <2>2, <3>1 DEF Asking, Idle
    <3> QED BY <2>2, <3>2 DEF TypeInv, ApiTypeOK, RequestShape
  <2> QED BY <1>3, <2>1, <2>2 DEF Used
<1> QED BY <1>1, <1>2, <1>3

(* News is what the session's own connection lists.                        *)
LEMMA NewsIsOwn ==
  ASSUME NEW q \in Request, NEW n \in News(q)
  PROVE  n \in Counts(sess[req[q].sid].conn, sess[req[q].sid].uuid)
BY DEF News, Comparable

LEMMA NewsStep == TypeInv /\ HubInv /\ AccessInv /\ NewsInv /\ [Next]_vars => NewsInv'
<1> SUFFICES ASSUME TypeInv, HubInv, AccessInv, NewsInv, [Next]_vars PROVE NewsInv'
  OBVIOUS
<1>0. ApiTypeOK /\ HubTypeOK /\ AllowedSessions
  BY DEF TypeInv, HubInv, AccessInv
<1> USE NumberTypes
<1>1. ASSUME NEW q \in Request, Asked(q) PROVE NewsInv'
  <2>1. PICK r \in Asking :
          /\ Does(q, r)
          /\ \/ r.pc = "uuid" /\ r.sid = None
             \/ r.pc \in {"read", "close"} /\ r.sid \in table
    BY <1>0, <1>1, AskedEffect
  <2>2. UNCHANGED <<devices, sess, table, told, most>>
    BY <1>0, <1>1, AskedEffect DEF hubVars
  <2>3. req'[q] = r /\ \A p \in Request \ {q} : req'[p] = req[p]
    BY <1>0, <2>1, Moved
  <2>4. \A s \in Sid : Used(s)' => Used(s)
    BY <2>1, <2>2, <2>3 DEF Used
  <2>5. \A p \in Request : req[p].pc \in {"openentry", "opencount"} => req[p].sid \in Sid
    BY DEF TypeInv, RequestShape, Step
  <2> QED BY <2>1, <2>2, <2>3, <2>4, <2>5 DEF NewsInv, Counts
<1>2. ASSUME NEW q \in Request, Learns(q) PROVE NewsInv'
  <2>1. UNCHANGED <<devices, sess, table, told, most>> /\ req[q] \in Asking
    BY <1>0, <1>2, LearnsEffect DEF hubVars
  <2>2. PICK r \in Asking \cup {Idle} :
          /\ Does(q, r)
          /\ \/ r = Idle
             \/ /\ r.sid = req[q].sid
                /\ \/ req[q].pc = "uuid" /\ r.pc = "stream"
                   \/ req[q].pc = "openentry" /\ r.pc = "opencount"
                   \/ req[q].pc = "read" /\ r.pc = "readcount"
                   \/ req[q].pc = "readcount" /\ r.pc = "compare" /\ r.n \in News(q)
    BY <1>0, <1>2, LearnsEffect
  <2>3. req'[q] = r /\ \A p \in Request \ {q} : req'[p] = req[p]
    BY <1>0, <2>2, Moved
  <2>4. \A s \in Sid : Used(s)' => Used(s)
    BY <2>1, <2>2, <2>3, IdleIsNotAsking DEF Used
  <2>5. r.pc = "compare" => r.n <= most[r.sid]
    <3>1. SUFFICES ASSUME r.pc = "compare" PROVE r.n <= most[r.sid]
      OBVIOUS
    <3>2. req[q].pc = "readcount" /\ r.n \in News(q) /\ r.sid = req[q].sid
      BY <2>2, <3>1 DEF Idle
    <3>3. req[q].sid \in Sid /\ Used(req[q].sid)
      BY <3>2, ShapeOf DEF Used, Step
    <3> QED BY <3>2, <3>3, NewsIsOwn DEF NewsInv
  <2>6. \A p \in Request : req[p].pc \in {"openentry", "opencount"} => req[p].sid \in Sid
    BY DEF TypeInv, RequestShape, Step
  <2>7. \A p \in Request : req'[p].pc = "compare" => req'[p].n <= most[req'[p].sid]
    BY <2>3, <2>5 DEF NewsInv
  <2>8. \A p \in Request : req'[p].pc \in {"openentry", "opencount"} =>
          /\ req'[p].sid \notin table /\ told[req'[p].sid] = 0
          /\ \A x \in Request \ {p} : req'[x].sid # req'[p].sid
    BY <2>2, <2>3, <2>6, IdleIsNotAsking DEF NewsInv, Idle
  <2> QED BY <2>1, <2>4, <2>7, <2>8 DEF NewsInv, Counts
<1>3. ASSUME NEW q \in Request, AddSession(q) \/ Compare(q) PROVE NewsInv'
  <2> DEFINE t == req[q].sid
  <2>1. /\ Does(q, Idle) /\ t \in Sid /\ UNCHANGED <<devices, most>>
        /\ table' \subseteq table \cup {t}
        /\ \A s \in Sid : sess'[s].conn = sess[s].conn /\ sess'[s].uuid = sess[s].uuid
    BY <1>0, <1>3, CountsOnly DEF hubVars
  <2>2. req'[q] = Idle /\ \A p \in Request \ {q} : req'[p] = req[p]
    BY <1>0, <2>1, Moved
  <2>3. \A s \in Sid : Used(s)' => Used(s)
    BY <2>1, <2>2, IdleIsNotAsking DEF Used
  <2>4. sess[t] \in Session
    BY <1>3, ShapeOf DEF AddSession, Compare, At, Step
  <2>5. /\ \A s \in Sid \ {t} : sess'[s] = sess[s] /\ told'[s] = told[s]
        /\ sess'[t].base + told'[t] <= sess'[t].seen
        /\ sess'[t].seen > sess'[t].base => told'[t] > 0
        /\ sess'[t].seen <= most[t]
    <3>1. CASE AddSession(q)
      <4>1. PICK n \in 0..MaxResets :
              /\ n = 0 \/ n \in News(q)
              /\ sess' = [sess EXCEPT ![t] = [sess[t] EXCEPT !.base = n, !.seen = n]]
        BY <1>0, <3>1, Added
      <4>2. UNCHANGED told /\ told[t] = 0
        BY <3>1 DEF AddSession, At, NewsInv
      <4>3. n <= most[t]
        BY <2>1, <4>1, NewsIsOwn DEF NewsInv, Used
      <4>4. sess'[t].base = n /\ sess'[t].seen = n
        BY <1>0, <2>1, <2>4, <4>1 DEF ApiTypeOK, Session
      <4>5. \A s \in Sid \ {t} : sess'[s] = sess[s]
        BY <4>1
      <4> QED BY <2>1, <4>2, <4>3, <4>4, <4>5
    <3>2. CASE Compare(q)
      <4>1. req[q].n <= most[t]
        BY <3>2 DEF Compare, At, NewsInv
      <4>2. CASE req[q].n <= sess[t].seen
        BY <2>1, <3>2, <4>2 DEF Compare, NewsInv
      <4>3. CASE ~(req[q].n <= sess[t].seen)
        <5>1. /\ sess' = [sess EXCEPT ![t] = [sess[t] EXCEPT !.seen = req[q].n]]
              /\ told' = [told EXCEPT ![t] = told[t] + 1]
          BY <3>2, <4>3 DEF Compare
        <5>2. /\ sess'[t].base = sess[t].base /\ sess'[t].seen = req[q].n
              /\ told'[t] = told[t] + 1
          BY <1>0, <2>1, <2>4, <5>1 DEF ApiTypeOK, Session
        <5>3. \A s \in Sid \ {t} : sess'[s] = sess[s] /\ told'[s] = told[s]
          BY <5>1
        <5>4. sess[t].base + told[t] <= sess[t].seen
          BY <2>1 DEF NewsInv
        <5> QED BY <2>1, <4>1, <4>3, <5>2, <5>3, <5>4
      <4> QED BY <4>2, <4>3
    <3> QED BY <1>3, <3>1, <3>2
  <2>6. \A p \in Request : req'[p].pc \in {"openentry", "opencount"} =>
          /\ req'[p].sid \notin table' /\ told'[req'[p].sid] = 0
          /\ \A x \in Request \ {p} : req'[x].sid # req'[p].sid
    <3>1. SUFFICES ASSUME NEW p \in Request, req'[p].pc \in {"openentry", "opencount"}
                   PROVE  /\ req'[p].sid \notin table' /\ told'[req'[p].sid] = 0
                          /\ \A x \in Request \ {p} : req'[x].sid # req'[p].sid
      OBVIOUS
    <3>2. p # q /\ req'[p] = req[p]
      BY <2>2, <3>1 DEF Idle
    <3>3. req[p].sid \in Sid /\ req[p].sid # t
      BY <3>1, <3>2, ShapeOf DEF NewsInv, Step
    <3> QED BY <2>1, <2>2, <2>5, <3>1, <3>2, <3>3, IdleIsNotAsking DEF NewsInv
  <2>7. \A p \in Request : req'[p].pc = "compare" => req'[p].n <= most'[req'[p].sid]
    BY <2>1, <2>2 DEF NewsInv, Idle
  <2> QED BY <2>1, <2>3, <2>5, <2>6, <2>7 DEF NewsInv, Counts
<1>4. ASSUME NEW q \in Request, Close(q) PROVE NewsInv'
  <2>1. /\ Does(q, Idle) /\ UNCHANGED <<devices, sess, told, most>> /\ table' \subseteq table
    BY <1>4 DEF Close, hubVars
  <2>2. req'[q] = Idle /\ \A p \in Request \ {q} : req'[p] = req[p]
    BY <1>0, <2>1, Moved
  <2>3. \A s \in Sid : Used(s)' => Used(s)
    BY <2>1, <2>2, IdleIsNotAsking DEF Used
  <2>4. \A p \in Request : req[p].pc \in {"openentry", "opencount"} => req[p].sid \in Sid
    BY DEF TypeInv, RequestShape, Step
  <2> QED BY <2>1, <2>2, <2>3, <2>4 DEF NewsInv, Counts, Idle
<1>5. ASSUME NEW q \in Request, NEW s \in Sid, Opened(q, s) PROVE NewsInv'
  <2> DEFINE x == [owner |-> req[q].tok, conn |-> req[q].conn, agent |-> conn[req[q].conn].agent,
                   uuid |-> req[q].uuid, base |-> 0, seen |-> 0]
             r == [req[q] EXCEPT !.pc = "openentry", !.sid = s]
             C == Counts(req[q].conn, req[q].uuid)
  <2>1. req[q] \in Asking /\ req[q].conn \in Conn
    BY <1>0, <1>5, AskingType DEF Opened, At, Step, TypeInv, RequestShape
  <2>2. r.sid = s /\ r.pc = "openentry"
    BY <2>1 DEF Asking
  <2>3. r \in Asking
    <3>1. "openentry" \in Step
      BY DEF Step
    <3> QED BY <2>1, <3>1, StepType
  <2>4. x.base = 0 /\ x.seen = 0 /\ x.conn = req[q].conn /\ x.uuid = req[q].uuid
    OBVIOUS
  <2>5. C \subseteq 0..MaxResets /\ \A j, k \in C : j = k
    BY <1>0, <2>1, CountsType
  <2>6. /\ Does(q, r) /\ UNCHANGED <<devices, table>>
        /\ sess' = [sess EXCEPT ![s] = x] /\ told' = [told EXCEPT ![s] = 0]
        /\ most' = [most EXCEPT ![s] = Top(C, 0)]
        /\ s \notin table /\ \A p \in Request : req[p].sid # s
    BY <1>5 DEF Opened, FreshSid, hubVars
  <2>7. C = {d.resets : d \in {e \in devices'[req[q].conn] : e.uuid = req[q].uuid}}
    BY <2>6 DEF Counts
  <2> HIDE DEF x, r, C
  <2>8. Top(C, 0) \in 0..MaxResets /\ \A n \in C : n <= Top(C, 0)
    BY <2>5, TopOf
  <2>9. req'[q] = r /\ \A p \in Request \ {q} : req'[p] = req[p]
    BY <1>0, <2>3, <2>6, Moved
  <2>10. /\ sess'[s] = x /\ told'[s] = 0 /\ most'[s] = Top(C, 0)
         /\ \A y \in Sid \ {s} : sess'[y] = sess[y] /\ told'[y] = told[y] /\ most'[y] = most[y]
    BY <1>0, <2>6 DEF ApiTypeOK
  <2>11. \A y \in Sid \ {s} : Used(y)' => Used(y)
    BY <2>2, <2>6, <2>9 DEF Used
  <2>12. \A y \in Sid : /\ sess'[y].base + told'[y] <= sess'[y].seen
                        /\ sess'[y].seen > sess'[y].base => told'[y] > 0
                        /\ sess'[y].seen <= most'[y]
    BY <2>4, <2>8, <2>10 DEF NewsInv
  <2>13. \A p \in Request : req[p].pc \in Step \ {"uuid", "stream"} => req[p].sid \in Sid \ {s}
    BY <2>6 DEF TypeInv, RequestShape
  <2>14. \A p \in Request : req'[p].pc \in {"openentry", "opencount"} =>
           /\ req'[p].sid \notin table' /\ told'[req'[p].sid] = 0
           /\ \A z \in Request \ {p} : req'[z].sid # req'[p].sid
    BY <2>2, <2>6, <2>9, <2>10, <2>13 DEF NewsInv, Step
  <2>15. \A p \in Request : req'[p].pc = "compare" => req'[p].n <= most'[req'[p].sid]
    BY <2>2, <2>9, <2>10, <2>13 DEF NewsInv, Step
  <2>16. \A y \in Sid : Used(y)' => \A n \in Counts(sess[y].conn, sess[y].uuid)' : n <= most'[y]
    <3>1. ASSUME NEW y \in Sid \ {s}, Used(y)'
          PROVE  \A n \in Counts(sess[y].conn, sess[y].uuid)' : n <= most'[y]
      BY <2>6, <2>10, <2>11, <3>1 DEF NewsInv, Counts
    <3>2. \A n \in Counts(sess[s].conn, sess[s].uuid)' : n <= most'[s]
      <4>1. Counts(sess[s].conn, sess[s].uuid)'
              = {d.resets : d \in {e \in devices'[sess'[s].conn] : e.uuid = sess'[s].uuid}}
        BY DEF Counts
      <4>2. sess'[s].conn = req[q].conn /\ sess'[s].uuid = req[q].uuid
        BY <2>4, <2>10
      <4> QED BY <2>7, <2>8, <2>10, <4>1, <4>2
    <3> QED BY <3>1, <3>2
  <2> QED BY <2>12, <2>14, <2>15, <2>16 DEF NewsInv
<1>6. ASSUME NEW s \in Sid, StreamEnds(s) \/ Reap(s) PROVE NewsInv'
  <2>1. UNCHANGED <<devices, req, sess, told, most>> /\ table' \subseteq table
    BY <1>6 DEF StreamEnds, Reap, hubVars
  <2> QED BY <2>1 DEF NewsInv, Used, Counts
<1>7. ASSUME NEW c \in Conn, (\E a \in Agent : NewConn(c, a)) \/ HubStep(c) PROVE NewsInv'
  <2>1. UNCHANGED <<req, sess, table, told, most>>
    BY <1>7 DEF NewConn, HubStep, apiVars
  <2>2. ASSUME NEW s \in Sid, Used(s)
        PROVE  Counts(sess[s].conn, sess[s].uuid)' \subseteq Counts(sess[s].conn, sess[s].uuid)
    <3>1. sess[s].conn \in Conn
      BY <2>2 DEF Session
    <3>2. devices'[sess[s].conn] \subseteq devices[sess[s].conn]
      BY <1>0, <1>7, <3>1 DEF NewConn, Accept, HubStep, Register, Break, Leave, HubTypeOK
    <3> QED BY <2>1, <3>2 DEF Counts
  <2> QED BY <2>1, <2>2 DEF NewsInv, Used
<1>8. ASSUME NEW c \in Conn, NEW L \in DeviceLists, NewList(c, L) PROVE NewsInv'
  <2>1. UNCHANGED <<req, sess, table, told>> /\ devices' = [devices EXCEPT ![c] = L]
    BY <1>8 DEF NewList, Announced
  <2>2. ASSUME NEW s \in Sid
        PROVE  /\ most[s] <= most'[s] /\ most'[s] \in Nat
               /\ sess[s].conn = c =>
                    \A n \in {d.resets : d \in {e \in L : e.uuid = sess[s].uuid}} : n <= most'[s]
    <3> DEFINE S == {d.resets : d \in {e \in L : e.uuid = sess[s].uuid}}
    <3>1. S \subseteq 0..MaxResets /\ \A j, k \in S : j = k
      BY DEF DeviceLists, Device
    <3>2. most[s] \in 0..MaxResets
      BY <1>0 DEF ApiTypeOK
    <3>3. most'[s] = IF sess[s].conn = c THEN Top(S, most[s]) ELSE most[s]
      BY <1>8 DEF NewList
    <3> HIDE DEF S
    <3>4. /\ Top(S, most[s]) \in 0..MaxResets /\ most[s] <= Top(S, most[s])
          /\ \A n \in S : n <= Top(S, most[s])
      BY <3>1, <3>2, TopOf
    <3>5. /\ most[s] <= most'[s] /\ most'[s] \in Nat
          /\ sess[s].conn = c => \A n \in S : n <= most'[s]
      BY <3>2, <3>3, <3>4
    <3> QED BY <3>5 DEF S
  <2>3. ASSUME NEW s \in Sid, Used(s), NEW n \in Counts(sess[s].conn, sess[s].uuid)'
        PROVE  n <= most'[s]
    <3>1. sess[s].conn \in Conn
      BY <2>3 DEF Session
    <3>2. CASE sess[s].conn = c
      BY <1>0, <2>1, <2>2, <2>3, <3>1, <3>2 DEF Counts, HubTypeOK
    <3>3. CASE sess[s].conn # c
      <4>1. n \in Counts(sess[s].conn, sess[s].uuid)
        BY <1>0, <2>1, <2>3, <3>1, <3>3 DEF Counts, HubTypeOK
      <4>2. n \in 0..MaxResets /\ n <= most[s]
        BY <1>0, <2>3, <3>1, <4>1, CountsType DEF NewsInv
      <4> QED BY <2>2, <4>2
    <3> QED BY <3>2, <3>3
  <2>4. \A q \in Request : req[q].pc = "compare" => req[q].sid \in Sid
    BY DEF TypeInv, RequestShape, Step
  <2> QED BY <2>1, <2>2, <2>3, <2>4 DEF NewsInv, Used
<1>9. CASE UNCHANGED vars
  BY <1>9 DEF vars, hubVars, apiVars, NewsInv, Used, Counts
<1>10. ASSUME NEW q \in Request, Serving(q) PROVE NewsInv'
  BY <1>2, <1>3, <1>4, <1>5, <1>10 DEF Serving, Learns
<1> QED BY <1>1, <1>6, <1>7, <1>8, <1>9, <1>10 DEF Next

-----------------------------------------------------------------------------
(* The theorems.                                                           *)

RelayInv == TypeInv /\ HubInv /\ AccessInv /\ NewsInv

LEMMA RelayInvInit == Init => RelayInv
<1> SUFFICES ASSUME Init PROVE RelayInv
  OBVIOUS
<1>1. HubInv
  BY HubInvInit DEF Init
<1>2. 0 \in 0..MaxResets /\ Idle.pc = "idle" /\ Idle.sid = None
  BY IdleIsNotAsking
<1>3. TypeInv
  BY <1>2, IdleIsNotAsking DEF Init, ApiInit, TypeInv, ApiTypeOK, RequestShape
<1>4. AccessInv
  BY <1>2 DEF Init, ApiInit, AccessInv, AllowedSessions, Used
<1>5. NewsInv
  BY <1>2 DEF Init, ApiInit, NewsInv, NoSession, Used
<1> QED BY <1>1, <1>3, <1>4, <1>5 DEF RelayInv

LEMMA RelayInvStep == RelayInv /\ [Next]_vars => RelayInv'
<1> SUFFICES ASSUME RelayInv, [Next]_vars PROVE RelayInv'
  OBVIOUS
<1>1. HubInv'
  BY HubSteps, HubStepInv DEF RelayInv
<1>2. TypeInv' /\ AccessInv' /\ NewsInv'
  BY TypeStep, AccessStep, NewsStep DEF RelayInv, HubInv, AccessInv
<1> QED BY <1>1, <1>2 DEF RelayInv

(* The hub alone keeps one live connection per agent, and never loses or   *)
(* misroutes it, whatever its consumers do (hub.go:164-195).               *)
THEOREM HubKeepsNewest == HubSpec => []NewestConnWins
<1>1. HubInv => NewestConnWins
  BY DEF HubInv, NewestConnWins
<1> QED BY <1>1, HubInvInit, HubStepInv, PTL DEF HubSpec

(* The invariant holds of every behaviour of the relay and its consumers.  *)
THEOREM RelayInvariant == Spec => []RelayInv
BY RelayInvInit, RelayInvStep, PTL DEF Spec

(* Every variable stays within its type.                                   *)
THEOREM RelayTypes == Spec => []TypeOK
<1>1. RelayInv => TypeOK
  BY DEF RelayInv, HubInv, TypeInv, ApiTypeOK, TypeOK
<1> QED BY <1>1, RelayInvariant, PTL

(* Nor do the consumers disturb it: a connection that serves and is open   *)
(* is the one its agent is reached by, and the hub routes to no other.     *)
THEOREM RelayKeepsNewest == Spec => []NewestConnWins
<1>1. RelayInv => NewestConnWins
  BY DEF RelayInv, HubInv, NewestConnWins
<1> QED BY <1>1, RelayInvariant, PTL

(* No request is ever at work on another token's session, or on any        *)
(* session for a read-only token; and a session is on an agent of its      *)
(* token's scope.                                                          *)
THEOREM AccessGranted == Spec => []AccessIsGranted
<1>1. RelayInv => OnlyOwnersAct
  <2> SUFFICES ASSUME RelayInv, NEW q \in Request, req[q].sid # None
               PROVE  req[q].tok = sess[req[q].sid].owner /\ req[q].tok \notin ReadOnly
    BY DEF OnlyOwnersAct
  <2>1. req[q].pc # "idle"
    BY DEF RelayInv, TypeInv, RequestShape
  <2> QED BY <2>1 DEF RelayInv, AccessInv
<1>2. RelayInv => SessionInScope
  BY DEF RelayInv, AccessInv, InScope, Used, SessionInScope, TypeInv, ApiTypeOK
<1> QED BY <1>1, <1>2, RelayInvariant, PTL DEF AccessIsGranted

(* A reset is news at most once, and only of the session's own connection, *)
(* however many reads race and however many resets there are.              *)
THEOREM NewsOnce == Spec => []NewsIsToldOnce
<1>1. RelayInv => NewsIsToldOnce
  BY DEF RelayInv, NewsInv, NewsIsToldOnce, TypeInv, ApiTypeOK
<1> QED BY <1>1, RelayInvariant, PTL
=============================================================================
