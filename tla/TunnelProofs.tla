---------------------------- MODULE TunnelProofs ----------------------------
(* Proofs about AgentTunnel, for any tunnels and handlers, and about       *)
(* Announce, for any devices, goroutines and sizes of the wire.            *)
EXTENDS AgentTunnel, Announce, SequenceTheorems, TLAPS

USE NoneAssumption, AnnounceAssumption DEF manager

-----------------------------------------------------------------------------
(* What a handler acts on when: a tunnel that was the manager's.           *)
TunnelInv == TypeOK /\ ConnIsServed

LEMMA JobType ==
  ASSUME NEW j \in Job, j.pc # "idle"
  PROVE  /\ j.tun \in Tun
         /\ \A b \in BOOLEAN :
              /\ [j EXCEPT !.live = b] \in Job
              /\ [j EXCEPT !.pc = "look"] \in Job
              /\ [j EXCEPT !.pc = "sever", !.live = b] \in Job
<1>1. j \in [pc : {"latch", "look", "sever", "signal"}, tun : Tun, live : BOOLEAN]
  BY DEF Job, NoJob
<1> QED BY <1>1 DEF Job

(* A handler that moves on stays well typed.                               *)
LEMMA JobMoves ==
  ASSUME job \in [Ui -> Job], NEW u \in Ui, NEW j \in Job, Does(u, j)
  PROVE  job' \in [Ui -> Job]
BY DEF Does

(* The loop moves to another step, which neither publishes nor withdraws   *)
(* the kill function, and ends its connection if the step has none.        *)
LEMMA LoopMoves ==
  ASSUME TunnelInv, NEW t \in Tun, NEW step \in Step \ {"new", "serve", "tail"},
         ~At(t, "new"), ~At(t, "serve"), ~At(t, "tail"), Goto(t, step),
         conn' \subseteq conn, t \in conn' => step = "hello",
         stopped' = stopped, kill' = kill, resume' \subseteq resume,
         UNCHANGED <<manager, job>>
  PROVE  TunnelInv'
<1>1. \A x \in Tun : pc'[x] = IF x = t THEN step ELSE pc[x]
  BY DEF Goto, TunnelInv, TypeOK
<1>2. pc' \in [Tun -> Step]
  BY DEF Goto, TunnelInv, TypeOK
<1>3. TypeOK'
  BY <1>1, <1>2 DEF TunnelInv, TypeOK, At
<1>4. ConnIsServed'
  BY <1>1 DEF TunnelInv, TypeOK, ConnIsServed, At
<1> QED BY <1>3, <1>4 DEF TunnelInv

LEMMA TunnelStep == TunnelInv /\ [Next]_vars => TunnelInv'
<1> SUFFICES ASSUME TunnelInv, [Next]_vars PROVE TunnelInv'
  OBVIOUS
<1> USE DEF TunnelInv
<1>1. ASSUME NEW t \in Tun, Check(t) \/ Resumed(t) \/ BackoffOver(t) \/ Return(t)
      PROVE  TunnelInv'
  <2>1. PICK step \in {"hold", "dial", "check", "done"} :
          Goto(t, step) /\ At(t, step)' 
    BY <1>1 DEF Check, Resumed, BackoffOver, Return, Goto, At, TypeOK
  <2>2. /\ At(t, "check") \/ At(t, "hold") \/ At(t, "wait")
        /\ conn' = conn /\ stopped' = stopped /\ kill' = kill /\ resume' \subseteq resume
        /\ UNCHANGED <<manager, job>>
    BY <1>1 DEF Check, Resumed, BackoffOver, Return
  <2>3. t \notin conn
    BY <2>2 DEF ConnIsServed, At
  <2> QED BY <2>1, <2>2, <2>3, LoopMoves DEF Step, At
<1>2. ASSUME NEW t \in Tun, Dialed(t) PROVE TunnelInv'
  <2>1. \A x \in Tun : pc'[x] = IF x = t THEN "hello" ELSE pc[x]
    BY <1>2 DEF Dialed, Goto, TypeOK
  <2>2. pc' \in [Tun -> Step]
    BY <1>2 DEF Dialed, Goto, TypeOK, Step
  <2>3. TypeOK'
    BY <1>2, <2>1, <2>2 DEF Dialed, TypeOK, At
  <2>4. ConnIsServed'
    BY <1>2, <2>1 DEF Dialed, TypeOK, ConnIsServed, At
  <2> QED BY <2>3, <2>4
<1>3. ASSUME NEW t \in Tun, AttemptFails(t) PROVE TunnelInv'
  <2>1. PICK step \in {"done", "wait"} : Goto(t, step)
    BY <1>3 DEF AttemptFails, Leave
  <2>2. /\ At(t, "dial") \/ At(t, "hello")
        /\ conn' = conn \ {t} /\ stopped' = stopped /\ kill' = kill /\ resume' = resume
        /\ UNCHANGED <<manager, job>>
    BY <1>3 DEF AttemptFails
  <2> QED BY <2>1, <2>2, LoopMoves DEF Step, At
<1>4. ASSUME NEW t \in Tun, Publish(t) \/ ServeEnds(t) \/ Withdraw(t) PROVE TunnelInv'
  <2>1. PICK step \in {"serve", "tail", "done", "wait"} :
          /\ Goto(t, step)
          /\ \/ step = "serve" /\ Publish(t)
             \/ step = "tail" /\ ServeEnds(t)
             \/ step \in {"done", "wait"} /\ Withdraw(t)
    BY <1>4 DEF Publish, ServeEnds, Withdraw, Leave
  <2>2. \A x \in Tun : pc'[x] = IF x = t THEN step ELSE pc[x]
    BY <2>1 DEF Goto, TypeOK
  <2>3. pc' \in [Tun -> Step]
    BY <2>1 DEF Goto, TypeOK, Step
  <2>4. job' \in [Ui -> Job]
    <3>1. CASE ServeEnds(t)
      <4>1. \A u \in Ui : job[u].tun = t => job[u].pc # "idle"
        BY DEF TypeOK, Job, NoJob
      <4>2. \A u \in Ui : job'[u] \in Job
        BY <3>1, <4>1, JobType DEF ServeEnds, TypeOK
      <4>3. job' = [u \in Ui |-> job'[u]]
        BY <3>1 DEF ServeEnds
      <4> QED BY <4>2, <4>3, Zenon
    <3>2. CASE Publish(t) \/ Withdraw(t)
      BY <3>2 DEF Publish, Withdraw, TypeOK
    <3> QED BY <2>1, <3>1, <3>2
  <2>5. kill' = {x \in Tun : At(x, "serve") \/ At(x, "tail")}'
    BY <2>1, <2>2 DEF Publish, ServeEnds, Withdraw, TypeOK, At
  <2>6. TypeOK'
    BY <2>1, <2>3, <2>4, <2>5 DEF Publish, ServeEnds, Withdraw, TypeOK
  <2>7. ConnIsServed'
    BY <2>1, <2>2 DEF Publish, ServeEnds, Withdraw, TypeOK, ConnIsServed, At
  <2> QED BY <2>6, <2>7
<1>5. ASSUME NEW t \in Tun, Break(t) PROVE TunnelInv'
  BY <1>5 DEF Break, TypeOK, ConnIsServed, At
<1>6. ASSUME NEW u \in Ui, NEW t \in Tun, Pair(u, t) PROVE TunnelInv'
  <2>1. PICK step \in {"check", "done"} : Goto(t, step)
    BY <1>6 DEF Pair
  <2>2. \A x \in Tun : pc'[x] = IF x = t THEN step ELSE pc[x]
    BY <2>1 DEF Goto, TypeOK
  <2>3. pc' \in [Tun -> Step]
    BY <2>1 DEF Goto, TypeOK, Step
  <2>4. TypeOK'
    BY <1>6, <2>2, <2>3 DEF Pair, TypeOK, At
  <2>5. ConnIsServed'
    BY <1>6, <2>2 DEF Pair, TypeOK, ConnIsServed, At
  <2> QED BY <2>4, <2>5
<1>7. ASSUME NEW u \in Ui, Disconnect(u) \/ Reconnect(u) \/ Handling(u) PROVE TunnelInv'
  <2>1. UNCHANGED <<manager, pc, kill>> /\ conn' \subseteq conn
    BY <1>7 DEF Disconnect, Reconnect, Handling, Latch, Look, Sever, Signal
  <2>2. PICK j \in Job : Does(u, j)
    <3>1. CASE Disconnect(u) \/ Reconnect(u)
      BY <3>1 DEF Disconnect, Reconnect, Job, TypeOK
    <3>2. CASE Latch(u) \/ Look(u)
      <4>1. job[u] \in Job /\ job[u].pc # "idle"
        BY <3>2 DEF Latch, Look, TypeOK
      <4> QED BY <3>2, <4>1, JobType DEF Latch, Look
    <3>3. CASE Sever(u) \/ Signal(u)
      BY <3>3 DEF Sever, Signal, Job
    <3> QED BY <1>7, <3>1, <3>2, <3>3 DEF Handling
  <2>3. job' \in [Ui -> Job]
    BY <2>2, JobMoves DEF TypeOK
  <2>4. stopped' \subseteq Tun /\ resume' \subseteq Tun
    <3>1. job[u].pc # "idle" => job[u].tun \in Tun
      BY DEF TypeOK, Job, NoJob
    <3> QED BY <1>7, <3>1 DEF Disconnect, Reconnect, Handling, Latch, Look, Sever, Signal, TypeOK
  <2>5. TypeOK'
    BY <2>1, <2>3, <2>4 DEF TypeOK, At
  <2> QED BY <2>1, <2>5 DEF ConnIsServed, At
<1>8. CASE UNCHANGED vars
  BY <1>8 DEF vars, TypeOK, ConnIsServed, At
<1> QED BY <1>1, <1>2, <1>3, <1>4, <1>5, <1>6, <1>7, <1>8 DEF Next, Running

LEMMA TunnelInit == Init => TunnelInv
BY DEF Init, TunnelInv, TypeOK, ConnIsServed, At, Step, Job

(* Every variable stays within its type, and a kill function is published  *)
(* exactly while its session serves or is being wound up.                  *)
THEOREM TunnelTypes == Spec => []TypeOK
BY TunnelInit, TunnelStep, PTL DEF Spec, TunnelInv

(* A tunnel is connected only while its session runs, and all tunnels but  *)
(* the manager's own have been cancelled.                                  *)
THEOREM ConnsAreServed == Spec => []ConnIsServed
BY TunnelInit, TunnelStep, PTL DEF Spec, TunnelInv

(* The kill switch is a latch: a loop never begins to dial while it is set. *)
THEOREM LatchHolds == Spec => StoppedNeverDials
<1>1. TunnelInv /\ [Next]_vars =>
        [\A t \in Tun : At(t, "dial")' /\ ~At(t, "dial") => t \notin stopped]_vars
  <2> SUFFICES ASSUME TunnelInv, [Next]_vars, NEW t \in Tun, At(t, "dial")', ~At(t, "dial")
               PROVE  t \notin stopped
    OBVIOUS
  <2> USE DEF TunnelInv, TypeOK, At
  <2>1. ASSUME NEW x \in Tun, Running(x) \/ Break(x) \/ ServeEnds(x) PROVE t \notin stopped
    <3>1. CASE Check(x)
      BY <3>1 DEF Check, Goto
    <3>2. CASE ~Check(x)
      BY <2>1, <3>2 DEF Running, Resumed, BackoffOver, Return, Dialed, AttemptFails, Publish,
                       Withdraw, Break, ServeEnds, Goto, Leave
    <3> QED BY <3>1, <3>2
  <2>2. ASSUME NEW u \in Ui, NEW x \in Tun, Pair(u, x) PROVE t \notin stopped
    BY <2>2 DEF Pair, Goto
  <2>3. ASSUME NEW u \in Ui, Disconnect(u) \/ Reconnect(u) \/ Handling(u) PROVE t \notin stopped
    BY <2>3 DEF Disconnect, Reconnect, Handling, Latch, Look, Sever, Signal
  <2>4. CASE UNCHANGED vars
    BY <2>4 DEF vars
  <2> QED BY <2>1, <2>2, <2>3, <2>4 DEF Next
<1> QED BY <1>1, TunnelInit, TunnelStep, PTL DEF Spec, StoppedNeverDials

-----------------------------------------------------------------------------
(* Lists travel: what a goroutine that may still send has taken, and what  *)
(* is on the wire, was shown.  A goroutine whose connection has ended may  *)
(* hold an old list, but nowhere to send it.                               *)
ListsInv ==
  /\ AnnounceTypeOK
  /\ up => exposed \subseteq shown
  /\ \A g \in Announcer : go[g].live => up /\ (go[g].pc = "send" => go[g].list \subseteq shown)
  /\ \A i \in 1..Len(wire) : wire[i] \subseteq shown
  /\ HiddenStaysUnknown

LEMMA GoTypes ==
  /\ NoAnnounce.pc = "idle" /\ ~NoAnnounce.live
  /\ \A r \in Announcing : /\ [r EXCEPT !.live = FALSE] \in Announcing
                           /\ \A l \in SUBSET Dev : [r EXCEPT !.pc = "send", !.list = l] \in Announcing
  /\ [NoAnnounce EXCEPT !.pc = "look"] \in Announcing /\ ~[NoAnnounce EXCEPT !.pc = "look"].live
  /\ \A b \in BOOLEAN : [pc |-> "snap", live |-> b, list |-> {}] \in Announcing
BY DEF NoAnnounce, Announcing

LEMMA IdleStays == [NoAnnounce EXCEPT !.live = FALSE] = NoAnnounce
<1> DEFINE S == [pc : {"idle"}, live : {FALSE}, list : {{}}]
<1>1. \A r \in S : r = [pc |-> r.pc, live |-> r.live, list |-> r.list]
  OBVIOUS
<1>2. \A r \in S : r = NoAnnounce
  BY <1>1 DEF NoAnnounce
<1>3. NoAnnounce \in S /\ \A r \in S : [r EXCEPT !.live = FALSE] \in S
  BY DEF NoAnnounce
<1> HIDE DEF S
<1> QED BY <1>2, <1>3

(* A goroutine that moves leaves the others where they are.                *)
LEMMA GoMoves ==
  ASSUME AnnounceTypeOK, NEW g \in Announcer, NEW r \in Announcing \cup {NoAnnounce}, Goes(g, r)
  PROVE  /\ go' \in [Announcer -> Announcing \cup {NoAnnounce}]
         /\ go'[g] = r /\ \A x \in Announcer \ {g} : go'[x] = go[x]
BY DEF AnnounceTypeOK, Goes

LEMMA ListsInit == AnnounceInit => ListsInv
<1> SUFFICES ASSUME AnnounceInit PROVE ListsInv
  OBVIOUS
<1>1. wire \in Seq(SUBSET Dev) /\ Len(wire) = 0
  BY EmptySeq DEF AnnounceInit
<1>2. \A g \in Announcer : ~go[g].live
  BY GoTypes DEF AnnounceInit
<1>3. AnnounceTypeOK
  <2>1. go \in [Announcer -> Announcing \cup {NoAnnounce}]
    BY DEF AnnounceInit
  <2>2. exposed \subseteq Dev /\ shown \subseteq Dev /\ listed \subseteq Dev
    BY DEF AnnounceInit
  <2>3. up \in BOOLEAN /\ (~up => listed = {} /\ wire = <<>>)
    BY DEF AnnounceInit
  <2> QED BY <1>1, <2>1, <2>2, <2>3 DEF AnnounceTypeOK
<1> QED BY <1>1, <1>2, <1>3 DEF AnnounceInit, ListsInv, HiddenStaysUnknown

LEMMA ListsStep == ListsInv /\ [AnnounceNext]_announceVars => ListsInv'
<1> SUFFICES ASSUME ListsInv, [AnnounceNext]_announceVars PROVE ListsInv'
  OBVIOUS
<1>0. AnnounceTypeOK /\ HiddenStaysUnknown
  BY DEF ListsInv
<1>1. ASSUME NEW g \in Go, NEW d \in Dev, NEW on \in BOOLEAN, Change(g, d, on) PROVE ListsInv'
  <2>1. /\ g \in Announcer /\ exposed' \subseteq Dev /\ shown' = shown \cup exposed'
        /\ UNCHANGED <<up, wire, listed>>
    BY <1>1, <1>0 DEF Change, Announcer, AnnounceTypeOK
  <2>2. CASE UNCHANGED go
    BY <2>1, <2>2, <1>0 DEF ListsInv, AnnounceTypeOK, HiddenStaysUnknown
  <2>3. CASE Start(g)
    <3>1. PICK r \in Announcing : Goes(g, r) /\ ~r.live
      BY <2>3, GoTypes DEF Start
    <3>2. /\ go' \in [Announcer -> Announcing \cup {NoAnnounce}]
          /\ go'[g] = r /\ \A x \in Announcer \ {g} : go'[x] = go[x]
      BY <1>0, <2>1, <3>1, GoMoves
    <3> QED BY <2>1, <3>1, <3>2 DEF ListsInv, AnnounceTypeOK, HiddenStaysUnknown
  <2> QED BY <1>1, <2>2, <2>3 DEF Change
<1>2. ASSUME NEW g \in Go, Report(g) PROVE ListsInv'
  <2>1. g \in Announcer /\ UNCHANGED <<exposed, up, wire, listed, shown>>
    BY <1>2 DEF Report, Announcer
  <2>2. PICK r \in Announcing : Goes(g, r) /\ ~r.live
    BY <1>2, GoTypes DEF Report, Start
  <2>3. /\ go' \in [Announcer -> Announcing \cup {NoAnnounce}]
        /\ go'[g] = r /\ \A x \in Announcer \ {g} : go'[x] = go[x]
    BY <1>0, <2>1, <2>2, GoMoves
  <2> QED BY <2>1, <2>2, <2>3 DEF ListsInv, AnnounceTypeOK, HiddenStaysUnknown
<1>3. ASSUME NEW g \in Announcer, ReadCtrl(g) PROVE ListsInv'
  <2>1. UNCHANGED <<exposed, up, wire, listed, shown>>
    BY <1>3 DEF ReadCtrl
  <2>2. PICK r \in Announcing \cup {NoAnnounce} : Goes(g, r) /\ (r.live => up /\ r.pc = "snap")
    <3> DEFINE r == [pc |-> "snap", live |-> TRUE, list |-> {}]
    <3>1. CASE up
      <4>1. r \in Announcing /\ r.pc = "snap" /\ Goes(g, r)
        BY <1>3, <3>1, GoTypes DEF ReadCtrl
      <4> QED BY <3>1, <4>1
    <3>2. CASE ~up
      BY <1>3, <3>2, GoTypes DEF ReadCtrl
    <3> QED BY <3>1, <3>2
  <2>3. /\ go' \in [Announcer -> Announcing \cup {NoAnnounce}]
        /\ go'[g] = r /\ \A x \in Announcer \ {g} : go'[x] = go[x]
    BY <1>0, <2>2, GoMoves
  <2> QED BY <2>1, <2>2, <2>3 DEF ListsInv, AnnounceTypeOK, HiddenStaysUnknown
<1>4. ASSUME NEW g \in Announcer, Snapshot(g) PROVE ListsInv'
  <2> DEFINE r == [go[g] EXCEPT !.pc = "send", !.list = exposed]
  <2>1. go[g] \in Announcing /\ UNCHANGED <<exposed, up, wire, listed, shown>>
    BY <1>0, <1>4, GoTypes DEF Snapshot, AnnounceTypeOK
  <2>2. r \in Announcing /\ r.live = go[g].live /\ r.list = exposed
    BY <1>0, <2>1, GoTypes DEF AnnounceTypeOK, Announcing
  <2>3. Goes(g, r)
    BY <1>4 DEF Snapshot
  <2> HIDE DEF r
  <2>4. /\ go' \in [Announcer -> Announcing \cup {NoAnnounce}]
        /\ go'[g] = r /\ \A x \in Announcer \ {g} : go'[x] = go[x]
    BY <1>0, <2>2, <2>3, GoMoves
  <2> QED BY <2>1, <2>2, <2>4 DEF ListsInv, AnnounceTypeOK, HiddenStaysUnknown
<1>5. ASSUME NEW g \in Announcer, Send(g) PROVE ListsInv'
  <2>1. Goes(g, NoAnnounce) /\ UNCHANGED <<exposed, up, listed, shown>>
    BY <1>5 DEF Send
  <2>2. /\ go' \in [Announcer -> Announcing \cup {NoAnnounce}]
        /\ go'[g] = NoAnnounce /\ \A x \in Announcer \ {g} : go'[x] = go[x]
    BY <1>0, <2>1, GoMoves
  <2>3. /\ wire' \in Seq(SUBSET Dev) /\ Len(wire') <= MaxWire
        /\ ~up => wire' = <<>>
        /\ \A i \in 1..Len(wire') : wire'[i] \subseteq shown
    <3>1. CASE go[g].live
      <4>1. /\ go[g].list \subseteq Dev /\ go[g].list \subseteq shown /\ up
            /\ wire \in Seq(SUBSET Dev) /\ Len(wire) < MaxWire
            /\ wire' = Append(wire, go[g].list)
        BY <1>0, <1>5, <3>1, GoTypes DEF Send, ListsInv, AnnounceTypeOK, Announcing
      <4>2. /\ wire' \in Seq(SUBSET Dev) /\ Len(wire') = Len(wire) + 1
            /\ \A i \in 1..Len(wire) : wire'[i] = wire[i]
            /\ wire'[Len(wire) + 1] = go[g].list
        BY <4>1, AppendProperties
      <4> QED BY <4>1, <4>2 DEF ListsInv
    <3>2. CASE ~go[g].live
      BY <1>0, <1>5, <3>2 DEF Send, ListsInv, AnnounceTypeOK
    <3> QED BY <3>1, <3>2
  <2> QED BY <2>1, <2>2, <2>3, GoTypes DEF ListsInv, AnnounceTypeOK, HiddenStaysUnknown
<1>6. CASE Receive
  <2>1. /\ wire \in Seq(SUBSET Dev) /\ wire # <<>> /\ up
        /\ listed' = Head(wire) /\ wire' = Tail(wire)
        /\ UNCHANGED <<exposed, up, go, shown>>
    BY <1>0, <1>6 DEF Receive, AnnounceTypeOK
  <2>2. /\ Head(wire) = wire[1] /\ Len(wire) \in Nat \ {0}
        /\ Tail(wire) \in Seq(SUBSET Dev) /\ Len(Tail(wire)) = Len(wire) - 1
        /\ \A i \in 1..Len(Tail(wire)) : Tail(wire)[i] = wire[i + 1]
    BY <2>1, HeadTailProperties, EmptySeq, LenProperties
  <2>3. listed' \subseteq Dev /\ listed' \subseteq shown
    BY <2>1, <2>2, ElementOfSeq DEF ListsInv
  <2>4. \A i \in 1..Len(wire') : wire'[i] \subseteq shown
    BY <2>1, <2>2 DEF ListsInv
  <2> QED BY <1>0, <2>1, <2>2, <2>3, <2>4 DEF ListsInv, AnnounceTypeOK, HiddenStaysUnknown
<1>7. CASE Connect
  <2>1. /\ ~up /\ up' /\ listed' = {} /\ shown' = exposed /\ Session \in Announcer
        /\ UNCHANGED <<exposed, wire>> /\ wire = <<>>
    BY <1>0, <1>7 DEF Connect, AnnounceTypeOK, Announcer
  <2>2. PICK r \in Announcing : Goes(Session, r) /\ ~r.live
    BY <1>7, GoTypes DEF Connect, Start
  <2>3. /\ go' \in [Announcer -> Announcing \cup {NoAnnounce}]
        /\ go'[Session] = r /\ \A x \in Announcer \ {Session} : go'[x] = go[x]
    BY <1>0, <2>1, <2>2, GoMoves
  <2>4. \A g \in Announcer : ~go'[g].live
    BY <2>1, <2>2, <2>3 DEF ListsInv
  <2>5. AnnounceTypeOK'
    BY <1>0, <1>7, <2>1, <2>3 DEF AnnounceTypeOK, Connect
  <2>6. Len(wire') = 0
    BY <2>1
  <2> QED BY <2>1, <2>4, <2>5, <2>6 DEF ListsInv, HiddenStaysUnknown
<1>8. CASE SessionEnds
  <2>1. /\ ~up' /\ up' \in BOOLEAN /\ listed' = {} /\ wire' = <<>>
        /\ UNCHANGED <<exposed, shown>>
    BY <1>8 DEF SessionEnds
  <2>2. \A g \in Announcer : go'[g] \in Announcing \cup {NoAnnounce} /\ ~go'[g].live
    <3>1. ASSUME NEW g \in Announcer PROVE go'[g] \in Announcing \cup {NoAnnounce} /\ ~go'[g].live
      <4>1. go'[g] = [go[g] EXCEPT !.live = FALSE]
        BY <1>8 DEF SessionEnds
      <4>2. CASE go[g] \in Announcing
        <5>1. [go[g] EXCEPT !.live = FALSE] \in Announcing
          BY <4>2, GoTypes
        <5>2. ~[go[g] EXCEPT !.live = FALSE].live
          BY <4>2 DEF Announcing
        <5> QED BY <4>1, <5>1, <5>2
      <4>3. CASE go[g] = NoAnnounce
        <5>1. [NoAnnounce EXCEPT !.live = FALSE] = NoAnnounce
          BY IdleStays
        <5> QED BY <4>1, <4>3, <5>1, GoTypes
      <4> QED BY <1>0, <4>2, <4>3 DEF AnnounceTypeOK
    <3> QED BY <3>1
  <2>3. go' \in [Announcer -> Announcing \cup {NoAnnounce}]
    <3>1. go' = [g \in Announcer |-> go'[g]]
      BY <1>8 DEF SessionEnds
    <3> QED BY <2>2, <3>1, Zenon
  <2>4. wire' \in Seq(SUBSET Dev) /\ Len(wire') = 0
    BY <2>1, EmptySeq
  <2> QED BY <1>0, <2>1, <2>2, <2>3, <2>4 DEF ListsInv, AnnounceTypeOK, HiddenStaysUnknown
<1>9. CASE UNCHANGED announceVars
  BY <1>9 DEF announceVars, ListsInv, AnnounceTypeOK, HiddenStaysUnknown
<1> QED BY <1>1, <1>2, <1>3, <1>4, <1>5, <1>6, <1>7, <1>8, <1>9 DEF AnnounceNext, Announces

(* Every variable stays within its type, and an agent that is not          *)
(* connected has no devices at the relay.                                  *)
THEOREM AnnounceTypes == AnnounceSpec => []AnnounceTypeOK
BY ListsInit, ListsStep, PTL DEF AnnounceSpec, ListsInv

(* The relay lists only what was exposed at some time of the connection,   *)
(* however late the goroutines that announce are.                          *)
THEOREM HiddenDevicesStayUnknown == AnnounceSpec => []HiddenStaysUnknown
BY ListsInit, ListsStep, PTL DEF AnnounceSpec, ListsInv
=============================================================================
