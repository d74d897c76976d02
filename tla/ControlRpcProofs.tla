--------------------------- MODULE ControlRpcProofs ---------------------------
(* Proofs about ControlRpc for any connections, callers and ids.             *)
EXTENDS ControlRpc, TLAPS, SequenceTheorems

USE RpcAssumption

Msgs(w) == {w[i] : i \in DOMAIN w}

-----------------------------------------------------------------------------
(* The wires.                                                              *)

LEMMA EmptyMsgs == ASSUME NEW S, NEW w \in Seq(S)
                   PROVE  w = <<>> <=> Msgs(w) = {}
<1>1. DOMAIN w = 1..Len(w) /\ Len(w) \in Nat
  BY LenProperties
<1>2. CASE w = <<>>
  <2>1. Len(w) = 0
    BY <1>2, EmptySeq
  <2> QED BY <1>1, <1>2, <2>1 DEF Msgs
<1>3. CASE w # <<>>
  <2>1. Len(w) \in Nat \ {0}
    BY <1>3, EmptySeq
  <2>2. w[1] \in Msgs(w)
    BY <1>1, <2>1 DEF Msgs
  <2> QED BY <1>3, <2>2
<1> QED BY <1>2, <1>3

LEMMA NoMsgs == Msgs(<<>>) = {} /\ \A S : <<>> \in Seq(S)
BY EmptySeq, EmptyMsgs

LEMMA AppendMsgs == ASSUME NEW S, NEW w \in Seq(S), NEW m \in S
                    PROVE  Append(w, m) \in Seq(S) /\ Msgs(Append(w, m)) = Msgs(w) \cup {m}
<1>1. DOMAIN w = 1..Len(w) /\ Len(w) \in Nat
  BY LenProperties
<1>2. /\ Append(w, m) \in Seq(S) /\ Len(Append(w, m)) = Len(w) + 1
      /\ \A i \in 1..Len(w) : Append(w, m)[i] = w[i]
      /\ Append(w, m)[Len(w) + 1] = m
  OBVIOUS
<1>3. DOMAIN Append(w, m) = 1..(Len(w) + 1)
  BY <1>2, LenProperties
<1> QED BY <1>1, <1>2, <1>3 DEF Msgs

LEMMA TailMsgs == ASSUME NEW S, NEW w \in Seq(S), w # <<>>
                  PROVE  /\ Tail(w) \in Seq(S) /\ Head(w) \in S
                         /\ Msgs(w) = {Head(w)} \cup Msgs(Tail(w))
<1>1. DOMAIN w = 1..Len(w) /\ Len(w) \in Nat \ {0}
  BY LenProperties, EmptySeq
<1>2. /\ Head(w) \in S /\ Tail(w) \in Seq(S) /\ Len(Tail(w)) = Len(w) - 1
      /\ \A i \in 1..Len(Tail(w)) : Tail(w)[i] = w[i + 1]
  BY HeadTailProperties
<1>3. Head(w) = w[1] /\ DOMAIN Tail(w) = 1..(Len(w) - 1)
  BY <1>2, LenProperties
<1>4. Msgs(w) \subseteq {Head(w)} \cup Msgs(Tail(w))
  <2> SUFFICES ASSUME NEW i \in 1..Len(w), i # 1 PROVE w[i] \in Msgs(Tail(w))
    BY <1>1, <1>3 DEF Msgs
  <2>1. i - 1 \in 1..(Len(w) - 1) /\ Tail(w)[i - 1] = w[i]
    BY <1>1, <1>2
  <2> QED BY <1>3, <2>1 DEF Msgs
<1>5. {Head(w)} \cup Msgs(Tail(w)) \subseteq Msgs(w)
  <2>1. Head(w) \in Msgs(w)
    BY <1>1, <1>3 DEF Msgs
  <2>2. \A i \in 1..(Len(w) - 1) : Tail(w)[i] \in Msgs(w)
    BY <1>1, <1>2 DEF Msgs
  <2> QED BY <1>3, <2>1, <2>2 DEF Msgs
<1> QED BY <1>2, <1>4, <1>5

(* What is put on a wire arrives at its end, if the network works.         *)
LEMMA PutUp == ASSUME up \in [Conn -> Seq(ToRelay)], NEW c \in Conn, NEW m \in ToRelay,
                      up' = Put(up, c, m)
               PROVE  /\ up' \in [Conn -> Seq(ToRelay)]
                      /\ \A x \in Conn \ {c} : up'[x] = up[x]
                      /\ link[c] = "up" => Msgs(up'[c]) = Msgs(up[c]) \cup {m}
                      /\ link[c] # "up" => up'[c] = up[c]
BY AppendMsgs DEF Put

LEMMA PutDown == ASSUME down \in [Conn -> Seq(ToAgent)], NEW c \in Conn, NEW m \in ToAgent,
                        down' = Put(down, c, m)
                 PROVE  /\ down' \in [Conn -> Seq(ToAgent)]
                        /\ \A x \in Conn \ {c} : down'[x] = down[x]
                        /\ link[c] = "up" => Msgs(down'[c]) = Msgs(down[c]) \cup {m}
                        /\ link[c] # "up" => down'[c] = down[c]
BY AppendMsgs DEF Put

-----------------------------------------------------------------------------
(* Shapes.                                                                 *)

LEMMA CallShape ==
  /\ Idle.pc = "idle"
  /\ \A r \in Calling \cup {Idle} :
       /\ r.pc \in {"idle", "lookup", "send", "wait", "done"}
       /\ r.pc \in {"lookup", "send", "wait"} => r.kind \in Kind /\ r.sess \in Conn
       /\ r.pc \in {"send", "wait"} => r.conn \in Conn /\ r.corr \in Corr
       /\ r.pc = "done" => r.ok \in BOOLEAN
  /\ \A k \in Kind, s \in Conn : LET r == [pc |-> "lookup", kind |-> k, sess |-> s]
                                 IN r \in Calling /\ r.pc = "lookup"
  /\ \A ok \in BOOLEAN : LET r == [pc |-> "done", ok |-> ok]
                         IN r \in Calling /\ r.pc = "done" /\ r.ok = ok
BY DEF Calling, Idle, Kind

LEMMA SendShape ==
  ASSUME NEW k \in Kind, NEW s \in Conn, NEW c \in Conn, NEW i \in Corr
  PROVE  LET r == [pc |-> "send", kind |-> k, sess |-> s, conn |-> c, corr |-> i]
         IN r \in Calling /\ r.pc = "send" /\ r.conn = c /\ r.corr = i
BY DEF Calling

LEMMA WaitShape ==
  ASSUME NEW r \in Calling \cup {Idle}, r.pc = "send"
  PROVE  LET w == [r EXCEPT !.pc = "wait"]
         IN /\ w \in Calling /\ w.pc = "wait" /\ w.kind = r.kind /\ w.sess = r.sess
            /\ w.conn = r.conn /\ w.corr = r.corr
BY DEF Calling, Idle

LEMMA MessageShape ==
  /\ \A m \in ToAgent : /\ m.type \in Kind \cup {"pong"}
                        /\ m.type \in Kind => m.corr \in Corr /\ m.sess \in Conn
  /\ \A m \in ToRelay : /\ m.type \in {"result", "ping"}
                        /\ m.type = "result" => m.corr \in Corr /\ m.ok \in BOOLEAN
  /\ [type |-> "pong"] \in ToAgent /\ [type |-> "pong"].type = "pong"
  /\ [type |-> "ping"] \in ToRelay /\ [type |-> "ping"].type = "ping"
  /\ "pong" \notin Kind /\ "recv" \notin Kind
BY DEF ToAgent, ToRelay, Kind

LEMMA RequestShape ==
  ASSUME NEW k \in Kind, NEW i \in Corr, NEW s \in Conn
  PROVE  LET m == [type |-> k, corr |-> i, sess |-> s]
         IN m \in ToAgent /\ m.type = k /\ m.corr = i /\ m.sess = s
BY DEF ToAgent

LEMMA ResultShape ==
  ASSUME NEW i \in Corr, NEW ok \in BOOLEAN
  PROVE  LET m == [type |-> "result", corr |-> i, ok |-> ok]
         IN m \in ToRelay /\ m.type = "result" /\ m.corr = i /\ m.ok = ok
BY DEF ToRelay

LEMMA LoopShape ==
  /\ Ready.pc = "recv"
  /\ \A r \in Busy : r.pc \in Kind /\ r.corr \in Corr /\ r.pc # "recv" /\ r # Ready
  /\ \A k \in Kind, i \in Corr : LET r == [pc |-> k, corr |-> i]
                                 IN r \in Busy /\ r.pc = k /\ r.corr = i
BY DEF Ready, Busy, Kind

-----------------------------------------------------------------------------
(* The invariant.                                                          *)

Asks(q, k) == call[q].pc \in {"send", "wait"} /\ call[q].corr = k
Awaits(q, k) == Asks(q, k) /\ At(q, "wait")

(* An id belongs to one request, from the lookup to the answer.  What      *)
(* travels or is worked on under an id that is still asked for was sent by *)
(* that request, and an answer of success only when it had become due.     *)
IdsDiffer == \A p, q \in Caller : \A k \in Corr : Asks(p, k) /\ Asks(q, k) => p = q
RequestsAreAsked ==
  \A c \in Conn : \A m \in Msgs(down[c]) : m.type \in Kind =>
    \A q \in Caller : Asks(q, m.corr) =>
      At(q, "wait") /\ call[q].kind = m.type /\ call[q].sess = m.sess
LoopsAreDue ==
  \A c \in Conn : loop[c].pc # "recv" =>
    \A q \in Caller : Asks(q, loop[c].corr) => At(q, "wait") /\ due[q]
ResultsAreDue ==
  \A c \in Conn : \A m \in Msgs(up[c]) : m.type = "result" =>
    \A q \in Caller : Asks(q, m.corr) => At(q, "wait") /\ (m.ok => due[q])
CallInv == /\ IdsDiffer /\ RequestsAreAsked /\ LoopsAreDue /\ ResultsAreDue
           /\ PendingIsAwaited /\ AnswerIsTrue

(* While the network works, the pong that resets a heartbeat's age is on   *)
(* its way, or its ping is.                                                *)
HeartInv == \A c \in Conn : link[c] = "up" /\ age[c] > 0 =>
  \/ \E m \in Msgs(up[c]) : m.type = "ping"
  \/ \E m \in Msgs(down[c]) : m.type = "pong"

RpcInv == TypeOK /\ CallInv /\ HeartInv

LEMMA RpcInit == Init => RpcInv
<1> SUFFICES ASSUME Init PROVE RpcInv
  OBVIOUS
<1>1. TypeOK
  <2>1. down \in [Conn -> Seq(ToAgent)] /\ up \in [Conn -> Seq(ToRelay)]
    BY NoMsgs DEF Init
  <2>2. call \in [Caller -> Calling \cup {Idle}] /\ loop \in [Conn -> Busy \cup {Ready}]
    BY DEF Init
  <2>3. /\ link \in [Conn -> {"up", "silent", "cut"}]
        /\ mine \in Conn \cup {None} /\ entry \in Conn \cup {None}
    BY DEF Init
  <2>4. pending \in [Conn -> SUBSET Corr] /\ age \in [Conn -> 0..3]
    BY DEF Init
  <2>5. grant \in BOOLEAN /\ live \subseteq Conn /\ due \in [Caller -> BOOLEAN]
    BY DEF Init
  <2> QED BY <2>1, <2>2, <2>3, <2>4, <2>5 DEF TypeOK
<1>2. /\ \A q \in Caller : call[q].pc = "idle"
      /\ \A c \in Conn : loop[c].pc = "recv" /\ Msgs(down[c]) = {} /\ Msgs(up[c]) = {}
  BY CallShape, LoopShape, NoMsgs DEF Init
<1>3. CallInv
  <2>1. PendingIsAwaited
    <3>1. \A c \in Conn : {p \in Caller : At(p, "wait") /\ call[p].conn = c} = {}
      BY <1>2 DEF At
    <3>2. \A c \in Conn : pending[c] = {}
      BY DEF Init
    <3> QED BY <3>1, <3>2 DEF PendingIsAwaited
  <2> QED BY <1>2, <2>1 DEF CallInv, IdsDiffer, RequestsAreAsked, LoopsAreDue, ResultsAreDue,
                            AnswerIsTrue, Asks, At
<1>4. HeartInv
  BY DEF Init, HeartInv
<1> QED BY <1>1, <1>3, <1>4 DEF RpcInv

-----------------------------------------------------------------------------
(* The history: what was due stays due as long as the request lives.       *)

LEMMA DueStays ==
  ASSUME TypeOK, Watch
  PROVE  /\ due' \in [Caller -> BOOLEAN]
         /\ \A q \in Caller : call'[q].pc # "idle" /\ due[q] => due'[q]
         /\ \A q \in Caller : call'[q].pc # "idle" /\ Grantable(call'[q]) => due'[q]
<1>1. \A q \in Caller : due'[q] = (call'[q].pc # "idle" /\ (due[q] \/ Grantable(call'[q])))
  BY DEF Watch
<1>2. due' = [q \in Caller |-> due'[q]]
  BY DEF Watch
<1>3. \A q \in Caller : due'[q] \in BOOLEAN
  BY <1>1
<1>4. due' \in [Caller -> BOOLEAN]
  BY <1>2, <1>3
<1> QED BY <1>1, <1>4

LEMMA FreshId ==
  ASSUME NEW k \in Corr, ~InUse(k)
  PROVE  /\ \A q \in Caller : ~Asks(q, k)
         /\ \A c \in Conn : /\ k \notin pending[c]
                            /\ loop[c].pc # "recv" => loop[c].corr # k
                            /\ \A m \in Msgs(down[c]) : m.type \in Kind => m.corr # k
                            /\ \A m \in Msgs(up[c]) : m.type = "result" => m.corr # k
BY DEF InUse, Asks, Msgs

(* Steps that ask for nothing and answer nobody: what they send and begin  *)
(* to work on is due.                                                      *)
LEMMA AgentStep ==
  ASSUME TypeOK, CallInv, Watch, UNCHANGED <<call, pending>>,
         \A c \in Conn :
           /\ \A m \in Msgs(down'[c]) : m.type \in Kind => m \in Msgs(down[c])
           /\ \A m \in Msgs(up'[c]) : m.type = "result" =>
                \/ m \in Msgs(up[c])
                \/ \A q \in Caller : Asks(q, m.corr) => At(q, "wait") /\ (m.ok => due[q])
           /\ \/ loop'[c] = loop[c] \/ loop'[c] = Ready
              \/ \A q \in Caller : Asks(q, loop'[c].corr) => At(q, "wait") /\ due'[q]
  PROVE  CallInv'
<1>1. \A q \in Caller, k \in Corr : Asks(q, k)' <=> Asks(q, k)
  BY DEF Asks
<1>2. \A q \in Caller : call'[q].pc # "idle" /\ due[q] => due'[q]
  BY DueStays
<1>3. IdsDiffer' /\ PendingIsAwaited'
  BY <1>1 DEF CallInv, IdsDiffer, PendingIsAwaited, At
<1>4. AnswerIsTrue'
  BY <1>2 DEF CallInv, AnswerIsTrue, At
<1>5. RequestsAreAsked'
  BY DEF CallInv, RequestsAreAsked, Asks, At
<1>6. LoopsAreDue'
  BY <1>2, LoopShape DEF CallInv, LoopsAreDue, Asks, At
<1>7. ResultsAreDue'
  BY <1>2 DEF CallInv, ResultsAreDue, Asks, At
<1> QED BY <1>3, <1>4, <1>5, <1>6, <1>7 DEF CallInv

LEMMA QuietStep ==
  ASSUME TypeOK, CallInv, Watch, UNCHANGED <<call, pending>>,
         \A c \in Conn :
           /\ \A m \in Msgs(down'[c]) : m.type \in Kind => m \in Msgs(down[c])
           /\ \A m \in Msgs(up'[c]) : m.type = "result" => m \in Msgs(up[c])
           /\ loop'[c] = loop[c] \/ loop'[c] = Ready
  PROVE  CallInv'
BY AgentStep

(* Steps of one request that sends nothing and has no answer yet.          *)
LEMMA CallerMoves ==
  ASSUME TypeOK, NEW q \in Caller, NEW r \in Calling \cup {Idle}, Does(q, r)
  PROVE  /\ call' \in [Caller -> Calling \cup {Idle}]
         /\ call'[q] = r /\ \A p \in Caller \ {q} : call'[p] = call[p]
BY DEF TypeOK, Does

LEMMA CallerStep ==
  ASSUME TypeOK, CallInv, Watch, NEW q \in Caller, NEW r \in Calling \cup {Idle}, Does(q, r),
         UNCHANGED <<down, loop>>, \A c \in Conn : Msgs(up'[c]) \subseteq Msgs(up[c]),
         r.pc \in {"idle", "lookup", "done"}, r.pc = "done" /\ r.ok => due[q],
         \A c \in Conn : pending'[c] = IF At(q, "wait") /\ call[q].conn = c
                                       THEN pending[c] \ {call[q].corr} ELSE pending[c]
  PROVE  CallInv'
<1>1. call'[q] = r /\ \A p \in Caller \ {q} : call'[p] = call[p]
  BY CallerMoves
<1>2. \A p \in Caller, k \in Corr : Asks(p, k)' => p # q /\ Asks(p, k)
  BY <1>1 DEF Asks
<1>3. \A p \in Caller : call'[p].pc # "idle" /\ due[p] => due'[p]
  BY DueStays
<1>4. IdsDiffer'
  BY <1>2 DEF CallInv, IdsDiffer
<1>5. AnswerIsTrue'
  BY <1>1, <1>3 DEF CallInv, AnswerIsTrue, At
<1>6. RequestsAreAsked'
  BY <1>1 DEF CallInv, RequestsAreAsked, Asks, At
<1>7. LoopsAreDue'
  BY <1>1, <1>3 DEF CallInv, LoopsAreDue, Asks, At
<1>8. ResultsAreDue'
  BY <1>1, <1>3 DEF CallInv, ResultsAreDue, Asks, At
<1>9. PendingIsAwaited'
  <2> SUFFICES ASSUME NEW c \in Conn
               PROVE  pending'[c] = {call'[x].corr : x \in {p \in Caller : call'[p].pc = "wait"
                                                                    /\ call'[p].conn = c}}
    BY DEF PendingIsAwaited, At
  <2>1. pending[c] = {call[x].corr : x \in {p \in Caller : call[p].pc = "wait" /\ call[p].conn = c}}
    BY DEF CallInv, PendingIsAwaited, At
  <2>2. \A p \in Caller \ {q} : At(p, "wait") /\ At(q, "wait") => call[p].corr # call[q].corr
    BY CallShape DEF CallInv, IdsDiffer, Asks, At, TypeOK
  <2>3. r.pc # "wait"
    OBVIOUS
  <2>4. CASE At(q, "wait") /\ call[q].conn = c
    <3>1. pending'[c] = pending[c] \ {call[q].corr}
      BY <2>4
    <3>2. \A p \in Caller \ {q} : call[p].pc = "wait" => call[p].corr # call[q].corr
      BY <2>2, <2>4 DEF At
    <3> QED BY <1>1, <2>1, <2>3, <2>4, <3>1, <3>2
  <2>5. CASE ~(At(q, "wait") /\ call[q].conn = c)
    <3>1. pending'[c] = pending[c]
      BY <2>5
    <3>2. ~(call[q].pc = "wait" /\ call[q].conn = c)
      BY <2>5 DEF At
    <3>3. {p \in Caller : call'[p].pc = "wait" /\ call'[p].conn = c}
            = {p \in Caller : call[p].pc = "wait" /\ call[p].conn = c}
      BY <1>1, <2>3, <3>2
    <3>4. \A x \in {p \in Caller : call[p].pc = "wait" /\ call[p].conn = c} :
            call'[x].corr = call[x].corr
      BY <1>1, <3>2
    <3> QED BY <2>1, <3>1, <3>3, <3>4
  <2> QED BY <2>4, <2>5
<1> QED BY <1>4, <1>5, <1>6, <1>7, <1>8, <1>9 DEF CallInv

-----------------------------------------------------------------------------
(* The types of the wires, and what moves on them.                         *)

LEMMA LoseStep ==
  ASSUME TypeOK, NEW c \in Conn, NEW state \in {"silent", "cut"}, Lose(c, state)
  PROVE  /\ link' \in [Conn -> {"up", "silent", "cut"}] /\ age' \in [Conn -> 0..3]
         /\ down' \in [Conn -> Seq(ToAgent)] /\ up' \in [Conn -> Seq(ToRelay)]
         /\ Msgs(down'[c]) = {} /\ Msgs(up'[c]) = {} /\ link'[c] = state
         /\ \A x \in Conn \ {c} : /\ down'[x] = down[x] /\ up'[x] = up[x]
                                  /\ link'[x] = link[x] /\ age'[x] = age[x]
<1>1. /\ link' = [link EXCEPT ![c] = state]
      /\ down' = [down EXCEPT ![c] = <<>>] /\ up' = [up EXCEPT ![c] = <<>>]
  BY DEF Lose
<1>2. down' \in [Conn -> Seq(ToAgent)] /\ up' \in [Conn -> Seq(ToRelay)]
  BY <1>1, NoMsgs DEF TypeOK
<1>3. link' \in [Conn -> {"up", "silent", "cut"}] /\ link'[c] = state
  BY <1>1 DEF TypeOK
<1>4. Msgs(down'[c]) = {} /\ Msgs(up'[c]) = {}
  BY <1>1, NoMsgs DEF TypeOK
<1>5. age' \in [Conn -> 0..3] /\ \A x \in Conn \ {c} : age'[x] = age[x]
  BY DEF Lose, TypeOK
<1>6. \A x \in Conn \ {c} : down'[x] = down[x] /\ up'[x] = up[x] /\ link'[x] = link[x]
  BY <1>1 DEF TypeOK
<1> QED BY <1>2, <1>3, <1>4, <1>5, <1>6

(* The connection: what is lost is not answered.                           *)
LEMMA ConnectStep ==
  ASSUME RpcInv, Watch, NEW c \in Conn, Connect(c)
  PROVE  RpcInv'
<1>0. TypeOK /\ CallInv /\ HeartInv
  BY DEF RpcInv
<1>1. /\ link' = [link EXCEPT ![c] = "up"] /\ age' = [age EXCEPT ![c] = 0]
      /\ mine' = c /\ entry' = c /\ UNCHANGED <<down, up, pending, call, loop, grant, live>>
  BY DEF Connect, device
<1>2. TypeOK'
  BY <1>0, <1>1, DueStays DEF TypeOK
<1>3. CallInv'
  BY <1>0, <1>1, QuietStep
<1>4. HeartInv'
  <2>1. age'[c] = 0 /\ \A x \in Conn \ {c} : link'[x] = link[x] /\ age'[x] = age[x]
    BY <1>0, <1>1 DEF TypeOK
  <2> QED BY <1>0, <1>1, <2>1 DEF HeartInv
<1> QED BY <1>2, <1>3, <1>4 DEF RpcInv

LEMMA DisturbStep ==
  ASSUME RpcInv, Watch, NEW c \in Conn, NEW state \in {"silent", "cut"}, Lose(c, state),
         UNCHANGED <<mine, entry, pending, call, loop, device>>
  PROVE  RpcInv'
<1>0. TypeOK /\ CallInv /\ HeartInv
  BY DEF RpcInv
<1>1. /\ link' \in [Conn -> {"up", "silent", "cut"}] /\ age' \in [Conn -> 0..3]
      /\ down' \in [Conn -> Seq(ToAgent)] /\ up' \in [Conn -> Seq(ToRelay)]
      /\ Msgs(down'[c]) = {} /\ Msgs(up'[c]) = {} /\ link'[c] = state
      /\ \A x \in Conn \ {c} : /\ down'[x] = down[x] /\ up'[x] = up[x]
                               /\ link'[x] = link[x] /\ age'[x] = age[x]
  BY <1>0, LoseStep
<1>2. UNCHANGED <<mine, entry, pending, call, loop, grant, live>>
  BY DEF device
<1>3. TypeOK'
  BY <1>0, <1>1, <1>2, DueStays DEF TypeOK
<1>4. CallInv'
  <2>1. \A x \in Conn : Msgs(down'[x]) \subseteq Msgs(down[x]) /\ Msgs(up'[x]) \subseteq Msgs(up[x])
    BY <1>1
  <2> QED BY <1>0, <1>2, <2>1, QuietStep
<1>5. HeartInv'
  <2>1. link'[c] # "up"
    BY <1>1
  <2> QED BY <1>0, <1>1, <2>1 DEF HeartInv
<1> QED BY <1>3, <1>4, <1>5 DEF RpcInv

LEMMA TickStep ==
  ASSUME RpcInv, Watch, NEW c \in Conn, Tick(c)
  PROVE  RpcInv'
<1>0. TypeOK /\ CallInv /\ HeartInv
  BY DEF RpcInv
<1>1. UNCHANGED <<mine, entry, pending, call, loop, device>>
  BY DEF Tick
<1>2. CASE Lose(c, "cut")
  BY <1>1, <1>2, DisturbStep
<1>3. CASE /\ age[c] < 3
           /\ up' = Put(up, c, [type |-> "ping"])
           /\ age' = [age EXCEPT ![c] = @ + 1]
           /\ UNCHANGED <<link, down>>
  <2>1. /\ up' \in [Conn -> Seq(ToRelay)]
        /\ \A x \in Conn \ {c} : up'[x] = up[x]
        /\ link[c] = "up" => Msgs(up'[c]) = Msgs(up[c]) \cup {[type |-> "ping"]}
        /\ link[c] # "up" => up'[c] = up[c]
    BY <1>0, <1>3, PutUp, MessageShape DEF TypeOK
  <2>2. age' \in [Conn -> 0..3] /\ \A x \in Conn \ {c} : age'[x] = age[x]
    BY <1>0, <1>3 DEF TypeOK
  <2>3. UNCHANGED <<mine, entry, pending, call, loop, grant, live, link, down>>
    BY <1>1, <1>3 DEF device
  <2>4. TypeOK'
    BY <1>0, <2>1, <2>2, <2>3, DueStays DEF TypeOK
  <2>5. CallInv'
    <3>1. \A x \in Conn : \A m \in Msgs(up'[x]) : m.type = "result" => m \in Msgs(up[x])
      BY <2>1, MessageShape
    <3> QED BY <1>0, <2>3, <3>1, QuietStep
  <2>6. HeartInv'
    <3>1. link'[c] = "up" => \E m \in Msgs(up'[c]) : m.type = "ping"
      BY <2>1, <2>3, MessageShape
    <3>2. \A x \in Conn \ {c} : /\ link'[x] = link[x] /\ age'[x] = age[x]
                                /\ up'[x] = up[x] /\ down'[x] = down[x]
      BY <2>1, <2>2, <2>3
    <3> QED BY <1>0, <3>1, <3>2 DEF HeartInv
  <2> QED BY <2>4, <2>5, <2>6 DEF RpcInv
<1> QED BY <1>2, <1>3 DEF Tick

(* Steps of the connection and the device that leave the wires alone.      *)
LEMMA StillStep ==
  ASSUME RpcInv, Watch, UNCHANGED <<link, down, up, pending, call, loop, age>>,
         mine' \in Conn \cup {None}, entry' \in Conn \cup {None},
         grant' \in BOOLEAN, live' \subseteq Conn
  PROVE  RpcInv'
<1>0. TypeOK /\ CallInv /\ HeartInv
  BY DEF RpcInv
<1>1. TypeOK'
  BY <1>0, DueStays DEF TypeOK
<1>2. CallInv'
  BY <1>0, QuietStep
<1>3. HeartInv'
  BY <1>0 DEF HeartInv
<1> QED BY <1>1, <1>2, <1>3 DEF RpcInv

(* Steps of a request that leave the wires alone, but for what it waits for. *)
LEMMA CalmStep ==
  ASSUME RpcInv, Watch, NEW q \in Caller, NEW r \in Calling \cup {Idle}, Does(q, r),
         UNCHANGED <<wires, down, up, loop, device>>,
         r.pc \in {"idle", "lookup", "done"}, r.pc = "done" => ~r.ok,
         pending' \in [Conn -> SUBSET Corr],
         \A c \in Conn : pending'[c] = IF At(q, "wait") /\ call[q].conn = c
                                       THEN pending[c] \ {call[q].corr} ELSE pending[c]
  PROVE  RpcInv'
<1>0. TypeOK /\ CallInv /\ HeartInv
  BY DEF RpcInv
<1>1. UNCHANGED <<link, mine, entry, age, down, up, loop, grant, live>>
  BY DEF wires, device
<1>2. TypeOK'
  BY <1>0, <1>1, DueStays, CallerMoves DEF TypeOK
<1>3. CallInv'
  BY <1>0, <1>1, CallerStep
<1>4. HeartInv'
  BY <1>0, <1>1 DEF HeartInv
<1> QED BY <1>2, <1>3, <1>4 DEF RpcInv

-----------------------------------------------------------------------------
(* The relay's side.                                                       *)

LEMMA BeginStep ==
  ASSUME RpcInv, Watch, NEW q \in Caller, NEW kind \in Kind, NEW s \in Conn, Begin(q, kind, s)
  PROVE  RpcInv'
<1> DEFINE r == [pc |-> "lookup", kind |-> kind, sess |-> s]
<1>1. r \in Calling /\ r.pc = "lookup" /\ Does(q, r)
  BY CallShape DEF Begin
<1> HIDE DEF r
<1>2. UNCHANGED <<wires, down, up, pending, loop, device>> /\ ~At(q, "wait")
  BY DEF Begin, At
<1>3. pending' \in [Conn -> SUBSET Corr]
  BY <1>2 DEF RpcInv, TypeOK
<1> QED BY <1>1, <1>2, <1>3, CalmStep

(* A request that ends without an answer.                                  *)
LEMMA GiveUpStep ==
  ASSUME RpcInv, Watch, NEW q \in Caller, Returns(q, FALSE),
         UNCHANGED <<wires, down, up, loop, device>>,
         \/ At(q, "wait") /\ pending' = [pending EXCEPT ![call[q].conn] = @ \ {call[q].corr}]
         \/ ~At(q, "wait") /\ pending' = pending
  PROVE  RpcInv'
<1> DEFINE r == [pc |-> "done", ok |-> FALSE]
<1>1. r \in Calling /\ r.pc = "done" /\ ~r.ok /\ Does(q, r)
  BY CallShape DEF Returns
<1> HIDE DEF r
<1>2. At(q, "wait") => call[q].conn \in Conn
  BY CallShape DEF RpcInv, TypeOK, At
<1>3. pending' \in [Conn -> SUBSET Corr]
  <2>1. pending \in [Conn -> SUBSET Corr]
    BY DEF RpcInv, TypeOK
  <2>2. CASE At(q, "wait")
    <3> DEFINE c == call[q].conn
               s == pending[c] \ {call[q].corr}
    <3>1. c \in Conn /\ s \in SUBSET Corr /\ pending' = [pending EXCEPT ![c] = s]
      BY <1>2, <2>1, <2>2
    <3> HIDE DEF c, s
    <3> QED BY <2>1, <3>1
  <2>3. CASE ~At(q, "wait")
    BY <2>1, <2>3
  <2> QED BY <2>2, <2>3
<1>4. \A c \in Conn : pending'[c] = IF At(q, "wait") /\ call[q].conn = c
                                    THEN pending[c] \ {call[q].corr} ELSE pending[c]
  BY <1>2 DEF RpcInv, TypeOK
<1> QED BY <1>1, <1>3, <1>4, CalmStep

LEMMA RespondStep ==
  ASSUME RpcInv, Watch, NEW q \in Caller, Respond(q)
  PROVE  RpcInv'
<1>1. /\ Does(q, Idle) /\ UNCHANGED <<wires, down, up, pending, loop, device>>
      /\ ~At(q, "wait") /\ Idle.pc = "idle"
  BY CallShape DEF Respond, At
<1>2. pending' \in [Conn -> SUBSET Corr]
  BY <1>1 DEF RpcInv, TypeOK
<1> QED BY <1>1, <1>2, CalmStep

(* A request that takes an id of its own, which nothing refers to.         *)
LEMMA TakeIdStep ==
  ASSUME RpcInv, Watch, NEW q \in Caller, NEW k \in Corr, ~InUse(k), ~At(q, "wait"),
         NEW r \in Calling, Does(q, r), r.pc = "send", r.corr = k,
         UNCHANGED <<wires, down, up, pending, loop, device>>
  PROVE  RpcInv'
<1>0. TypeOK /\ CallInv /\ HeartInv
  BY DEF RpcInv
<1>1. UNCHANGED <<link, mine, entry, age, down, up, pending, loop, grant, live>>
  BY DEF wires, device
<1>2. /\ call' \in [Caller -> Calling \cup {Idle}]
      /\ call'[q] = r /\ \A p \in Caller \ {q} : call'[p] = call[p]
  BY <1>0, CallerMoves
<1>3. /\ \A p \in Caller : ~Asks(p, k)
      /\ \A c \in Conn : /\ k \notin pending[c]
                         /\ loop[c].pc # "recv" => loop[c].corr # k
                         /\ \A m \in Msgs(down[c]) : m.type \in Kind => m.corr # k
                         /\ \A m \in Msgs(up[c]) : m.type = "result" => m.corr # k
  BY FreshId
<1>4. \A p \in Caller, i \in Corr : Asks(p, i)' => IF p = q THEN i = k ELSE i # k /\ Asks(p, i)
  BY <1>2, <1>3 DEF Asks
<1>5. \A p \in Caller \ {q} : call'[p].pc # "idle" /\ due[p] => due'[p]
  BY <1>0, DueStays
<1>6. TypeOK'
  BY <1>0, <1>1, <1>2, DueStays DEF TypeOK
<1>7. IdsDiffer'
  BY <1>0, <1>4 DEF CallInv, IdsDiffer
<1>8. AnswerIsTrue'
  BY <1>0, <1>2, <1>5 DEF CallInv, AnswerIsTrue, At
<1>9. RequestsAreAsked'
  BY <1>0, <1>1, <1>2, <1>3 DEF CallInv, RequestsAreAsked, Asks, At
<1>10. LoopsAreDue'
  BY <1>0, <1>1, <1>2, <1>3, <1>5 DEF CallInv, LoopsAreDue, Asks, At
<1>11. ResultsAreDue'
  BY <1>0, <1>1, <1>2, <1>3, <1>5 DEF CallInv, ResultsAreDue, Asks, At
<1>12. PendingIsAwaited'
  <2> SUFFICES ASSUME NEW c \in Conn
               PROVE  pending'[c] = {call'[x].corr : x \in {p \in Caller : call'[p].pc = "wait"
                                                                    /\ call'[p].conn = c}}
    BY DEF PendingIsAwaited, At
  <2>1. pending[c] = {call[x].corr : x \in {p \in Caller : call[p].pc = "wait" /\ call[p].conn = c}}
    BY <1>0 DEF CallInv, PendingIsAwaited, At
  <2>2. {p \in Caller : call'[p].pc = "wait" /\ call'[p].conn = c}
          = {p \in Caller : call[p].pc = "wait" /\ call[p].conn = c}
    BY <1>2 DEF At
  <2>3. \A x \in {p \in Caller : call[p].pc = "wait" /\ call[p].conn = c} :
          call'[x].corr = call[x].corr
    BY <1>2 DEF At
  <2> QED BY <1>1, <2>1, <2>2, <2>3
<1>13. HeartInv'
  BY <1>0, <1>1 DEF HeartInv
<1> QED BY <1>6, <1>7, <1>8, <1>9, <1>10, <1>11, <1>12, <1>13 DEF RpcInv, CallInv

LEMMA LookUpStep ==
  ASSUME RpcInv, Watch, NEW q \in Caller, LookUp(q)
  PROVE  RpcInv'
<1>1. At(q, "lookup") /\ ~At(q, "wait") /\ UNCHANGED <<wires, down, up, pending, loop, device>>
  BY DEF LookUp, At
<1>2. CASE Returns(q, FALSE)
  BY <1>1, <1>2, GiveUpStep
<1>3. ASSUME NEW k \in Corr, entry # None, ~InUse(k),
             Does(q, [pc |-> "send", kind |-> call[q].kind, sess |-> call[q].sess,
                      conn |-> entry, corr |-> k])
      PROVE  RpcInv'
  <2> DEFINE r == [pc |-> "send", kind |-> call[q].kind, sess |-> call[q].sess,
                   conn |-> entry, corr |-> k]
  <2>1. call[q].kind \in Kind /\ call[q].sess \in Conn /\ entry \in Conn
    BY <1>1, <1>3, CallShape DEF RpcInv, TypeOK, At
  <2>2. r \in Calling /\ r.pc = "send" /\ r.corr = k
    BY <2>1, SendShape
  <2>3. Does(q, r)
    BY <1>3
  <2> HIDE DEF r
  <2> QED BY <1>1, <1>3, <2>2, <2>3, TakeIdStep
<1> QED BY <1>2, <1>3 DEF LookUp

(* A request is sent under the id it has taken.                            *)
LEMMA SendStep ==
  ASSUME RpcInv, Watch, NEW q \in Caller, Send(q)
  PROVE  RpcInv'
<1> DEFINE c == call[q].conn
           k == call[q].corr
           r == [call[q] EXCEPT !.pc = "wait"]
           m == [type |-> call[q].kind, corr |-> k, sess |-> call[q].sess]
<1>0. TypeOK /\ CallInv /\ HeartInv
  BY DEF RpcInv
<1>1. At(q, "send") /\ UNCHANGED <<wires, up, loop, device>>
  BY DEF Send
<1>2. /\ call[q] \in Calling \cup {Idle} /\ call[q].pc = "send"
      /\ c \in Conn /\ k \in Corr /\ call[q].kind \in Kind /\ call[q].sess \in Conn
  BY <1>0, <1>1, CallShape DEF TypeOK, At
<1>3. CASE Returns(q, FALSE) /\ UNCHANGED <<pending, down>>
  BY <1>1, <1>2, <1>3, GiveUpStep DEF At
<1>4. CASE /\ pending' = [pending EXCEPT ![c] = @ \cup {k}]
           /\ down' = Put(down, c, m)
           /\ Does(q, r)
  <2>1. UNCHANGED <<link, mine, entry, age, up, loop, grant, live>>
    BY <1>1 DEF wires, device
  <2>2. /\ r \in Calling /\ r.pc = "wait" /\ r.kind = call[q].kind /\ r.sess = call[q].sess
        /\ r.conn = c /\ r.corr = k
    BY <1>2, WaitShape
  <2>3. m \in ToAgent /\ m.type = call[q].kind /\ m.corr = k /\ m.sess = call[q].sess
    BY <1>2, RequestShape
  <2> HIDE DEF r, m
  <2>4. /\ call' \in [Caller -> Calling \cup {Idle}]
        /\ call'[q] = r /\ \A p \in Caller \ {q} : call'[p] = call[p]
    BY <1>0, <1>4, <2>2, CallerMoves
  <2>5. /\ down' \in [Conn -> Seq(ToAgent)]
        /\ \A x \in Conn : /\ Msgs(down[x]) \subseteq Msgs(down'[x])
                           /\ Msgs(down'[x]) \subseteq Msgs(down[x]) \cup {m}
    <3>1. /\ down' \in [Conn -> Seq(ToAgent)]
          /\ \A x \in Conn \ {c} : down'[x] = down[x]
          /\ link[c] = "up" => Msgs(down'[c]) = Msgs(down[c]) \cup {m}
          /\ link[c] # "up" => down'[c] = down[c]
      BY <1>0, <1>2, <1>4, <2>3, PutDown DEF TypeOK
    <3> QED BY <3>1
  <2> HIDE DEF c, k
  <2>6. /\ pending' \in [Conn -> SUBSET Corr] /\ pending'[c] = pending[c] \cup {k}
        /\ \A x \in Conn \ {c} : pending'[x] = pending[x]
    BY <1>0, <1>2, <1>4 DEF TypeOK
  <2>7. TypeOK'
    BY <1>0, <2>1, <2>4, <2>5, <2>6, DueStays DEF TypeOK
  <2>8. \A p \in Caller, i \in Corr : Asks(p, i)' <=> Asks(p, i)
    BY <1>2, <2>2, <2>4 DEF Asks, k
  <2>9. Asks(q, k) /\ ~At(q, "wait") /\ \A p \in Caller : Asks(p, k) => p = q
    BY <1>0, <1>2 DEF Asks, At, CallInv, IdsDiffer, k
  <2>10. \A p \in Caller : call'[p].pc # "idle" /\ due[p] => due'[p]
    BY <1>0, DueStays
  <2>11. IdsDiffer'
    BY <1>0, <2>8 DEF CallInv, IdsDiffer
  <2>12. AnswerIsTrue'
    BY <1>0, <2>2, <2>4, <2>10 DEF CallInv, AnswerIsTrue, At
  <2>13. RequestsAreAsked'
    <3> SUFFICES ASSUME NEW x \in Conn, NEW n \in Msgs(down'[x]), n.type \in Kind,
                        NEW p \in Caller, Asks(p, n.corr)'
                 PROVE  call'[p].pc = "wait" /\ call'[p].kind = n.type /\ call'[p].sess = n.sess
      BY DEF RequestsAreAsked, At
    <3>1. CASE n = m
      <4>1. Asks(p, k)
        BY <1>2, <2>3, <2>8, <3>1
      <4>2. p = q
        BY <2>9, <4>1
      <4> QED BY <2>2, <2>3, <2>4, <3>1, <4>2
    <3>2. CASE n \in Msgs(down[x])
      <4>1. n.corr = call'[p].corr /\ call'[p].corr \in Corr
        BY <2>4, CallShape DEF Asks
      <4>2. Asks(p, n.corr)
        BY <2>8, <4>1
      <4>3. At(p, "wait") /\ call[p].kind = n.type /\ call[p].sess = n.sess
        BY <1>0, <3>2, <4>2 DEF CallInv, RequestsAreAsked
      <4> QED BY <2>4, <2>9, <4>3 DEF At
    <3> QED BY <2>5, <3>1, <3>2
  <2>14. LoopsAreDue'
    BY <1>0, <1>2, <2>1, <2>2, <2>4, <2>9, <2>10 DEF CallInv, LoopsAreDue, Asks, At, k
  <2>15. ResultsAreDue'
    BY <1>0, <1>2, <2>1, <2>2, <2>4, <2>9, <2>10 DEF CallInv, ResultsAreDue, Asks, At, k
  <2>16. PendingIsAwaited'
    <3> SUFFICES ASSUME NEW x \in Conn
                 PROVE  pending'[x] = {call'[y].corr : y \in {p \in Caller : call'[p].pc = "wait"
                                                                      /\ call'[p].conn = x}}
      BY DEF PendingIsAwaited, At
    <3> DEFINE P == {p \in Caller : call[p].pc = "wait" /\ call[p].conn = x}
    <3>1. pending[x] = {call[y].corr : y \in P}
      BY <1>0 DEF CallInv, PendingIsAwaited, At
    <3>2. q \notin P /\ \A y \in P : call'[y] = call[y]
      BY <1>2, <2>4
    <3>3. CASE x = c
      <4>1. {p \in Caller : call'[p].pc = "wait" /\ call'[p].conn = x} = P \cup {q}
        BY <2>2, <2>4, <3>3
      <4> HIDE DEF P
      <4>2. {call'[y].corr : y \in P \cup {q}} = {call[y].corr : y \in P} \cup {k}
        BY <2>2, <2>4, <3>2
      <4> QED BY <2>6, <3>1, <3>3, <4>1, <4>2
    <3>4. CASE x # c
      <4>1. {p \in Caller : call'[p].pc = "wait" /\ call'[p].conn = x} = P
        BY <1>2, <2>2, <2>4, <3>4
      <4> HIDE DEF P
      <4>2. {call'[y].corr : y \in P} = {call[y].corr : y \in P}
        BY <3>2
      <4> QED BY <2>6, <3>1, <3>4, <4>1, <4>2
    <3> QED BY <3>3, <3>4
  <2>17. HeartInv'
    BY <1>0, <2>1, <2>5 DEF HeartInv
  <2> QED BY <2>7, <2>11, <2>12, <2>13, <2>14, <2>15, <2>16, <2>17 DEF RpcInv, CallInv
<1> QED BY <1>3, <1>4 DEF Send

(* What is taken off a wire was at its head.                               *)
LEMMA UpTail ==
  ASSUME TypeOK, NEW c \in Conn, up[c] # <<>>, up' = [up EXCEPT ![c] = Tail(@)]
  PROVE  /\ up' \in [Conn -> Seq(ToRelay)] /\ Head(up[c]) \in ToRelay
         /\ \A x \in Conn \ {c} : up'[x] = up[x]
         /\ Msgs(up[c]) = {Head(up[c])} \cup Msgs(up'[c])
<1>1. up[c] \in Seq(ToRelay) /\ up'[c] = Tail(up[c]) /\ \A x \in Conn \ {c} : up'[x] = up[x]
  BY DEF TypeOK
<1>2. /\ Tail(up[c]) \in Seq(ToRelay) /\ Head(up[c]) \in ToRelay
      /\ Msgs(up[c]) = {Head(up[c])} \cup Msgs(Tail(up[c]))
  BY <1>1, TailMsgs
<1>3. up' \in [Conn -> Seq(ToRelay)]
  BY <1>2 DEF TypeOK
<1> QED BY <1>1, <1>2, <1>3

LEMMA DownTail ==
  ASSUME TypeOK, NEW c \in Conn, down[c] # <<>>, down' = [down EXCEPT ![c] = Tail(@)]
  PROVE  /\ down' \in [Conn -> Seq(ToAgent)] /\ Head(down[c]) \in ToAgent
         /\ \A x \in Conn \ {c} : down'[x] = down[x]
         /\ Msgs(down[c]) = {Head(down[c])} \cup Msgs(down'[c])
<1>1. /\ down[c] \in Seq(ToAgent) /\ down'[c] = Tail(down[c])
      /\ \A x \in Conn \ {c} : down'[x] = down[x]
  BY DEF TypeOK
<1>2. /\ Tail(down[c]) \in Seq(ToAgent) /\ Head(down[c]) \in ToAgent
      /\ Msgs(down[c]) = {Head(down[c])} \cup Msgs(Tail(down[c]))
  BY <1>1, TailMsgs
<1>3. down' \in [Conn -> Seq(ToAgent)]
  BY <1>2 DEF TypeOK
<1> QED BY <1>1, <1>2, <1>3

(* An answer reaches the one request that has its id, and that is due.     *)
LEMMA RelayRecvStep ==
  ASSUME RpcInv, Watch, NEW c \in Conn, RelayRecv(c)
  PROVE  RpcInv'
<1> DEFINE m == Head(up[c])
<1>0. TypeOK /\ CallInv /\ HeartInv
  BY DEF RpcInv
<1>1. UNCHANGED <<link, mine, entry, age, loop, grant, live>>
  BY DEF RelayRecv, wires, device
<1>2. /\ up' \in [Conn -> Seq(ToRelay)] /\ m \in ToRelay
      /\ \A x \in Conn \ {c} : up'[x] = up[x]
      /\ Msgs(up[c]) = {m} \cup Msgs(up'[c])
  BY <1>0, UpTail DEF RelayRecv
<1>3. \/ /\ m.type = "ping"
         /\ down' = Put(down, c, [type |-> "pong"])
         /\ UNCHANGED <<call, pending>>
      \/ /\ m.type = "result" /\ Resolve(c, m.corr, m.ok)
         /\ UNCHANGED down
  BY DEF RelayRecv
<1>4. \A x \in Conn : Msgs(up'[x]) \subseteq Msgs(up[x])
  BY <1>2
<1> HIDE DEF m
<1>5. CASE m.type = "ping" /\ down' = Put(down, c, [type |-> "pong"]) /\ UNCHANGED <<call, pending>>
  <2>1. /\ down' \in [Conn -> Seq(ToAgent)]
        /\ \A x \in Conn \ {c} : down'[x] = down[x]
        /\ link[c] = "up" => Msgs(down'[c]) = Msgs(down[c]) \cup {[type |-> "pong"]}
        /\ link[c] # "up" => down'[c] = down[c]
    BY <1>0, <1>5, PutDown, MessageShape DEF TypeOK
  <2>2. TypeOK'
    BY <1>0, <1>1, <1>2, <1>5, <2>1, DueStays DEF TypeOK
  <2>3. CallInv'
    <3>1. \A x \in Conn : \A n \in Msgs(down'[x]) : n.type \in Kind => n \in Msgs(down[x])
      BY <2>1, MessageShape
    <3> QED BY <1>0, <1>1, <1>4, <1>5, <3>1, QuietStep
  <2>4. HeartInv'
    <3>1. link[c] = "up" => \E n \in Msgs(down'[c]) : n.type = "pong"
      BY <2>1, MessageShape
    <3> QED BY <1>0, <1>1, <1>2, <2>1, <3>1 DEF HeartInv
  <2> QED BY <2>2, <2>3, <2>4 DEF RpcInv
<1>6. ASSUME m.type = "result", Resolve(c, m.corr, m.ok), UNCHANGED down PROVE RpcInv'
  <2>1. m.corr \in Corr /\ m.ok \in BOOLEAN /\ m \in Msgs(up[c])
    BY <1>2, <1>6, MessageShape
  <2>2. HeartInv'
    BY <1>0, <1>1, <1>2, <1>6 DEF HeartInv
  <2>3. CASE UNCHANGED <<call, pending>>
    <3>1. TypeOK'
      BY <1>0, <1>1, <1>2, <1>6, <2>3, DueStays DEF TypeOK
    <3>2. CallInv'
      BY <1>0, <1>1, <1>4, <1>6, <2>3, QuietStep
    <3> QED BY <2>2, <3>1, <3>2 DEF RpcInv
  <2>4. ASSUME NEW q \in Caller, m.corr \in pending[c],
               pending' = [pending EXCEPT ![c] = @ \ {m.corr}],
               At(q, "wait"), call[q].corr = m.corr, Returns(q, m.ok)
        PROVE  RpcInv'
    <3> DEFINE r == [pc |-> "done", ok |-> m.ok]
    <3>1. r \in Calling /\ r.pc = "done" /\ r.ok = m.ok /\ Does(q, r)
      BY <2>1, <2>4, CallShape DEF Returns
    <3> HIDE DEF r
    <3>2. r.ok => due[q]
      BY <1>0, <1>6, <2>1, <2>4, <3>1 DEF CallInv, ResultsAreDue, Asks, At
    <3>3. call[q].conn = c
      <4>1. PICK p \in Caller : At(p, "wait") /\ call[p].conn = c /\ call[p].corr = m.corr
        BY <1>0, <2>4 DEF CallInv, PendingIsAwaited
      <4>2. p = q
        BY <1>0, <2>1, <2>4, <4>1 DEF CallInv, IdsDiffer, Asks, At
      <4> QED BY <4>1, <4>2
    <3>4. /\ pending' \in [Conn -> SUBSET Corr] /\ pending'[c] = pending[c] \ {m.corr}
          /\ \A x \in Conn \ {c} : pending'[x] = pending[x]
      BY <1>0, <2>4 DEF TypeOK
    <3>5. \A x \in Conn : pending'[x] = IF At(q, "wait") /\ call[q].conn = x
                                        THEN pending[x] \ {call[q].corr} ELSE pending[x]
      BY <2>4, <3>3, <3>4
    <3>6. CallInv'
      BY <1>0, <1>1, <1>4, <1>6, <3>1, <3>2, <3>5, CallerStep
    <3>7. TypeOK'
      BY <1>0, <1>1, <1>2, <1>6, <3>1, <3>4, DueStays, CallerMoves DEF TypeOK
    <3> QED BY <2>2, <3>6, <3>7 DEF RpcInv
  <2> QED BY <1>6, <2>3, <2>4 DEF Resolve
<1> QED BY <1>3, <1>5, <1>6

-----------------------------------------------------------------------------
(* The agent's side.                                                       *)

(* A message of the control loop's wire, in the three ways it is handled.  *)
LEMMA AgentRecvStep ==
  ASSUME RpcInv, Watch, NEW c \in Conn, AgentRecv(c)
  PROVE  RpcInv'
<1> DEFINE m == Head(down[c])
<1>0. TypeOK /\ CallInv /\ HeartInv
  BY DEF RpcInv
<1>1. UNCHANGED <<link, mine, entry, pending, call, grant, live>> /\ loop[c] = Ready
  BY DEF AgentRecv, device
<1>2. /\ down' \in [Conn -> Seq(ToAgent)] /\ m \in ToAgent
      /\ \A x \in Conn \ {c} : down'[x] = down[x]
      /\ Msgs(down[c]) = {m} \cup Msgs(down'[c])
  BY <1>0, DownTail DEF AgentRecv
<1>3. \/ /\ m.type = "pong" /\ age' = [age EXCEPT ![c] = 0] /\ UNCHANGED <<up, loop>>
      \/ /\ m.type \in Kind /\ Admitted(m)
         /\ loop' = [loop EXCEPT ![c] = [pc |-> m.type, corr |-> m.corr]]
         /\ UNCHANGED <<up, age>>
      \/ /\ m.type \in Kind /\ Answer(c, m.corr, FALSE) /\ UNCHANGED <<loop, age>>
  BY DEF AgentRecv
<1>4. \A x \in Conn : Msgs(down'[x]) \subseteq Msgs(down[x])
  BY <1>2
<1>5. m.type \in Kind => m.corr \in Corr /\ m.sess \in Conn /\ m \in Msgs(down[c])
  BY <1>2, MessageShape
<1> HIDE DEF m
<1>6. CASE m.type = "pong" /\ age' = [age EXCEPT ![c] = 0] /\ UNCHANGED <<up, loop>>
  <2>1. age' \in [Conn -> 0..3] /\ age'[c] = 0 /\ \A x \in Conn \ {c} : age'[x] = age[x]
    BY <1>0, <1>6 DEF TypeOK
  <2>2. TypeOK'
    BY <1>0, <1>1, <1>2, <1>6, <2>1, DueStays DEF TypeOK
  <2>3. CallInv'
    BY <1>0, <1>1, <1>4, <1>6, QuietStep
  <2>4. HeartInv'
    BY <1>0, <1>1, <1>2, <1>6, <2>1 DEF HeartInv
  <2> QED BY <2>2, <2>3, <2>4 DEF RpcInv
<1>7. ASSUME m.type \in Kind, UNCHANGED age, \A x \in Conn : Msgs(up[x]) \subseteq Msgs(up'[x])
      PROVE  HeartInv'
  <2>1. m.type # "pong"
    BY <1>7, MessageShape
  <2>2. \A x \in Conn : \A n \in Msgs(down[x]) : n.type = "pong" => n \in Msgs(down'[x])
    BY <1>2, <2>1
  <2> QED BY <1>0, <1>1, <1>7, <2>2 DEF HeartInv
<1>8. CASE /\ m.type \in Kind /\ Admitted(m)
           /\ loop' = [loop EXCEPT ![c] = [pc |-> m.type, corr |-> m.corr]]
           /\ UNCHANGED <<up, age>>
  <2> DEFINE r == [pc |-> m.type, corr |-> m.corr]
  <2>1. r \in Busy /\ r.pc = m.type /\ r.corr = m.corr
    BY <1>5, <1>8, LoopShape
  <2>2. loop' = [loop EXCEPT ![c] = r]
    BY <1>8
  <2> HIDE DEF r
  <2>3. /\ loop' \in [Conn -> Busy \cup {Ready}] /\ loop'[c] = r
        /\ \A x \in Conn \ {c} : loop'[x] = loop[x]
    BY <1>0, <2>1, <2>2 DEF TypeOK
  <2>4. ASSUME NEW q \in Caller, Asks(q, m.corr) PROVE At(q, "wait") /\ due'[q]
    <3>1. At(q, "wait") /\ call[q].kind = m.type /\ call[q].sess = m.sess
      BY <1>0, <1>5, <1>8, <2>4 DEF CallInv, RequestsAreAsked
    <3>2. Grantable(call'[q]) /\ call'[q].pc # "idle"
      BY <1>1, <1>8, <3>1 DEF Grantable, Admitted, At
    <3> QED BY <1>0, <3>1, <3>2, DueStays
  <2>5. TypeOK'
    BY <1>0, <1>1, <1>2, <1>8, <2>3, DueStays DEF TypeOK
  <2>6. CallInv'
    <3>1. \A x \in Conn : \/ loop'[x] = loop[x]
                          \/ \A q \in Caller : Asks(q, loop'[x].corr) => At(q, "wait") /\ due'[q]
      BY <2>1, <2>3, <2>4
    <3> QED BY <1>0, <1>1, <1>4, <1>8, <3>1, AgentStep
  <2> QED BY <1>7, <1>8, <2>5, <2>6 DEF RpcInv
<1>9. CASE m.type \in Kind /\ Answer(c, m.corr, FALSE) /\ UNCHANGED <<loop, age>>
  <2> DEFINE n == [type |-> "result", corr |-> m.corr, ok |-> FALSE]
  <2>1. n \in ToRelay /\ n.type = "result" /\ n.corr = m.corr /\ ~n.ok /\ up' = Put(up, c, n)
    BY <1>5, <1>9, ResultShape DEF Answer
  <2> HIDE DEF n
  <2>2. /\ up' \in [Conn -> Seq(ToRelay)]
        /\ \A x \in Conn \ {c} : up'[x] = up[x]
        /\ link[c] = "up" => Msgs(up'[c]) = Msgs(up[c]) \cup {n}
        /\ link[c] # "up" => up'[c] = up[c]
    BY <1>0, <2>1, PutUp DEF TypeOK
  <2>3. \A q \in Caller : Asks(q, n.corr) => At(q, "wait")
    BY <1>0, <1>5, <1>9, <2>1 DEF CallInv, RequestsAreAsked
  <2>4. TypeOK'
    BY <1>0, <1>1, <1>2, <1>9, <2>2, DueStays DEF TypeOK
  <2>5. CallInv'
    <3>1. \A x \in Conn : \A o \in Msgs(up'[x]) : o \in Msgs(up[x]) \/ o = n
      BY <2>2
    <3> QED BY <1>0, <1>1, <1>4, <1>9, <2>1, <2>3, <3>1, AgentStep
  <2>6. \A x \in Conn : Msgs(up[x]) \subseteq Msgs(up'[x])
    BY <2>2
  <2> QED BY <1>7, <1>9, <2>4, <2>5, <2>6 DEF RpcInv
<1> QED BY <1>3, <1>6, <1>8, <1>9

(* The answer of the port is due to the request it works for.              *)
LEMMA PortDoneStep ==
  ASSUME RpcInv, Watch, NEW c \in Conn, PortDone(c)
  PROVE  RpcInv'
<1>0. TypeOK /\ CallInv /\ HeartInv
  BY DEF RpcInv
<1>1. UNCHANGED <<link, mine, entry, age, down, pending, call, grant, live>>
  BY DEF PortDone, wires, device
<1>2. PICK ok \in BOOLEAN : Answer(c, loop[c].corr, ok)
  BY DEF PortDone
<1>3. /\ loop' \in [Conn -> Busy \cup {Ready}]
      /\ \A x \in Conn : loop'[x] = loop[x] \/ loop'[x] = Ready
  BY <1>0 DEF PortDone, TypeOK
<1>4. loop[c] \in Busy /\ loop[c].corr \in Corr /\ loop[c].pc # "recv"
  BY <1>0, LoopShape DEF PortDone, TypeOK
<1> DEFINE n == [type |-> "result", corr |-> loop[c].corr, ok |-> ok]
<1>5. n \in ToRelay /\ n.type = "result" /\ n.corr = loop[c].corr /\ up' = Put(up, c, n)
  BY <1>2, <1>4, ResultShape DEF Answer
<1> HIDE DEF n
<1>6. /\ up' \in [Conn -> Seq(ToRelay)]
      /\ \A x \in Conn \ {c} : up'[x] = up[x]
      /\ link[c] = "up" => Msgs(up'[c]) = Msgs(up[c]) \cup {n}
      /\ link[c] # "up" => up'[c] = up[c]
  BY <1>0, <1>5, PutUp DEF TypeOK
<1>7. \A q \in Caller : Asks(q, n.corr) => At(q, "wait") /\ due[q]
  BY <1>0, <1>4, <1>5 DEF CallInv, LoopsAreDue
<1>8. TypeOK'
  BY <1>0, <1>1, <1>3, <1>6, DueStays DEF TypeOK
<1>9. CallInv'
  <2>1. \A x \in Conn : \A o \in Msgs(up'[x]) : o \in Msgs(up[x]) \/ o = n
    BY <1>6
  <2> QED BY <1>0, <1>1, <1>3, <1>7, <2>1, AgentStep
<1>10. HeartInv'
  <2>1. \A x \in Conn : Msgs(up[x]) \subseteq Msgs(up'[x])
    BY <1>6
  <2> QED BY <1>0, <1>1, <2>1 DEF HeartInv
<1> QED BY <1>8, <1>9, <1>10 DEF RpcInv

-----------------------------------------------------------------------------
LEMMA RpcStep == RpcInv /\ [Next]_vars => RpcInv'
<1> SUFFICES ASSUME RpcInv, [Next]_vars PROVE RpcInv'
  OBVIOUS
<1>0. TypeOK
  BY DEF RpcInv
<1>1. ASSUME Watch, NEW c \in Conn, Disturb(c) PROVE RpcInv'
  <2>1. PICK state \in {"silent", "cut"} : Lose(c, state)
    BY <1>1 DEF Disturb
  <2>2. UNCHANGED <<mine, entry, pending, call, loop, device>>
    BY <1>1 DEF Disturb
  <2> QED BY <1>1, <2>1, <2>2, DisturbStep
<1>2. ASSUME Watch, NEW c \in Conn, Open(c) PROVE RpcInv'
  BY <1>0, <1>2, StillStep DEF Open, wires, TypeOK
<1>3. ASSUME Watch, AgentLeaves PROVE RpcInv'
  BY <1>0, <1>3, StillStep DEF AgentLeaves, TypeOK
<1>4. ASSUME Watch, RelayLeaves PROVE RpcInv'
  BY <1>0, <1>4, StillStep DEF RelayLeaves, device, TypeOK
<1>5. ASSUME Watch, SessionEnds PROVE RpcInv'
  BY <1>0, <1>5, StillStep DEF SessionEnds, wires, TypeOK
<1>6. ASSUME Watch, SetGrant PROVE RpcInv'
  BY <1>0, <1>6, StillStep DEF SetGrant, wires, TypeOK
<1>7. ASSUME Watch, NEW q \in Caller, Timeout(q) PROVE RpcInv'
  BY <1>7, GiveUpStep DEF Timeout
<1>8. CASE UNCHANGED vars
  <2>1. TypeOK'
    BY <1>0, <1>8 DEF vars, TypeOK
  <2>2. CallInv' /\ HeartInv'
    BY <1>8 DEF vars, RpcInv, CallInv, IdsDiffer, RequestsAreAsked, LoopsAreDue, ResultsAreDue,
                PendingIsAwaited, AnswerIsTrue, Asks, At, HeartInv
  <2> QED BY <2>1, <2>2 DEF RpcInv
<1>9. CASE Steps /\ Watch
  BY <1>1, <1>2, <1>3, <1>4, <1>5, <1>6, <1>7, <1>9, ConnectStep, TickStep, RelayRecvStep,
     AgentRecvStep, PortDoneStep, BeginStep, LookUpStep, SendStep, RespondStep DEF Steps
<1> QED BY <1>8, <1>9 DEF Next

(* The invariant holds of every behaviour, fair or not.                    *)
THEOREM RpcInvariant == Spec => []RpcInv
BY RpcInit, RpcStep, PTL DEF Spec

(* Every variable stays within its type.                                   *)
THEOREM RpcTypes == Spec => []TypeOK
<1>1. RpcInv => TypeOK
  BY DEF RpcInv
<1> QED BY <1>1, RpcInvariant, PTL

(* A control request succeeds only if it could have been granted while it  *)
(* was under way, however many are, and whatever happens to their wires.   *)
THEOREM AnswersAreTrue == Spec => []AnswerIsTrue
<1>1. RpcInv => AnswerIsTrue
  BY DEF RpcInv, CallInv
<1> QED BY <1>1, RpcInvariant, PTL

(* The relay waits for exactly the ids of the requests that wait for it.   *)
THEOREM NothingStaysPending == Spec => []PendingIsAwaited
<1>1. RpcInv => PendingIsAwaited
  BY DEF RpcInv, CallInv
<1> QED BY <1>1, RpcInvariant, PTL

(* The heartbeat ends no connection whose network and control loop work.   *)
THEOREM HealthyLinksStay == Spec => []HealthyLinkIsKept
<1>1. RpcInv => HealthyLinkIsKept
  <2> SUFFICES ASSUME RpcInv, NEW c \in Conn, link[c] = "up", loop[c] = Ready, Prompt(c)
               PROVE  age[c] < 2
    BY DEF HealthyLinkIsKept
  <2>1. Msgs(up[c]) = {} /\ Msgs(down[c]) = {}
    BY NoMsgs DEF Prompt
  <2>2. ~(age[c] > 0)
    BY <2>1 DEF RpcInv, HeartInv
  <2>3. age[c] \in 0..3
    BY DEF RpcInv, TypeOK
  <2> QED BY <2>2, <2>3
<1> QED BY <1>1, RpcInvariant, PTL
=============================================================================
