---------------------------- MODULE PairingProofs ----------------------------
(* Proofs about Pairing, CredentialStore and HostKeys, for any commands,   *)
(* tokens, identities and algorithms.                                      *)
EXTENDS Pairing, TLAPS

-----------------------------------------------------------------------------
(* The store's inductive invariant.                                        *)

Given(c) == {i \in Id : c.agent[i] # "none"}

(* In a copy a token stands for one agent, and is not to be used again.    *)
IsSpent(c) == /\ \A i \in Given(c) : origin[i] # None /\ c.token[origin[i]] # "fresh"
              /\ \A i, j \in Given(c) : origin[i] = origin[j] => i = j

Copies == {mem[p] : p \in Proc} \cup ({file, tmp} \ {Absent, Torn})
CopiesAreSpent == \A c \in Copies : IsSpent(c)

(* c has every agent the file has, and those that are revoked are so in c. *)
Carries(c) == \A i \in Given(Opened) : c.agent[i] \in {Opened.agent[i], "revoked"}

(* An operation is about an identity its copy has.                         *)
OpsAreReal == \A p \in Proc : Busy(p) =>
  /\ p = Relay => op[p].id \in Given(mem[p])
  /\ p # Relay /\ op[p].id # None => op[p].id \in Id /\ mem[p].agent[op[p].id] = "revoked"

(* While no operations have overlapped, one at most is under way.          *)
OneBusy == \A p, q \in Proc : Busy(p) /\ Busy(q) => p = q

(* How far it has come shows in the files, ...                             *)
SaveShows == \A p \in Proc : Busy(p) =>
  /\ op[p].pc = "open" => op[p].to = "none"
  /\ op[p].pc = "fill" => op[p].to = "tmp"
  /\ op[p].pc = "rename" => op[p].to = "tmp" /\ tmp = mem[p]
  /\ op[p].pc = "stamp" => op[p].to = "none" /\ file = mem[p]

(* ... it loses nothing that is in the file, ...                           *)
NothingIsLost == /\ \A p \in Proc : Busy(p) => Carries(mem[p])
                 /\ current => Carries(mem[Relay])
                 /\ ~current => file # Absent

(* ... and revocations that were reported are in the file.                 *)
RevokedIsStored == \A i \in confirmed : Opened.agent[i] = "revoked"

Alone == OneBusy /\ SaveShows /\ file # Torn /\ NothingIsLost /\ RevokedIsStored

StoreInv == StoreTypeOK /\ CopiesAreSpent /\ OpsAreReal /\ (clash \/ Alone)

-----------------------------------------------------------------------------
(* The agent's inductive invariant.                                        *)

(* A handshake is about the keys on file, which are one for an algorithm.  *)
DialIsCurrent ==
  /\ \A k, l \in known : k.algo = l.algo => k = l
  /\ dial.pc = "shake" => /\ dial.read = known
                          /\ dial.pinned # {} => dial.pinned = {k.algo : k \in known}

RequestIsReal == /\ inbox.tok \in born \cup {None}
                 /\ inbox.tok = None => inbox = NoRequest
                 /\ ~(serving /\ inbox.live)

IssuedIsStored == clash \/ issued \subseteq Given(Opened)

IdentityIsIssued == identity \in issued \cup {None}

PairingInv == /\ TypeOK /\ StoreInv /\ DialIsCurrent
              /\ RequestIsReal /\ IssuedIsStored /\ IdentityIsIssued

-----------------------------------------------------------------------------
(* Operations and copies.                                                  *)

LEMMA NoOpIs == NoOp.pc = "idle" /\ NoOp.id = None /\ NoOp.to = "none" /\ NoOp \in Ops
BY DEF NoOp, Ops

LEMMA OpIs ==
  ASSUME NEW o \in Ops
  PROVE  /\ o # NoOp <=> o.pc # "idle"
         /\ o # NoOp => o.pc \in {"open", "fill", "rename", "stamp"}
         /\ o.id \in Id \cup {None}
         /\ o # NoOp => o \in [pc : {"open", "fill", "rename", "stamp"}, id : Id \cup {None},
                             to : {"none", "tmp", "file", "gone"}]
BY NoOpIs DEF Ops

LEMMA OpAt ==
  ASSUME NEW o \in Ops, o # NoOp,
         NEW pc \in {"open", "fill", "rename", "stamp"}, NEW to \in {"none", "tmp", "file", "gone"}
  PROVE  LET n == [o EXCEPT !.pc = pc, !.to = to]
         IN n \in Ops /\ n # NoOp /\ n.pc = pc /\ n.id = o.id /\ n.to = to
<1> DEFINE R == [pc : {"open", "fill", "rename", "stamp"}, id : Id \cup {None},
                 to : {"none", "tmp", "file", "gone"}]
           n == [o EXCEPT !.pc = pc, !.to = to]
<1>1. o \in R
  BY OpIs
<1>2. \A m \in R : m \in Ops /\ m # NoOp
  BY NoOpIs DEF Ops
<1>3. n \in R /\ n.pc = pc /\ n.id = o.id /\ n.to = to
  BY <1>1
<1> HIDE DEF R
<1> QED BY <1>2, <1>3

LEMMA OpPc ==
  ASSUME NEW o \in Ops, o # NoOp, NEW pc \in {"open", "fill", "rename", "stamp"}
  PROVE  LET n == [o EXCEPT !.pc = pc]
         IN n \in Ops /\ n # NoOp /\ n.pc = pc /\ n.id = o.id /\ n.to = o.to
<1> DEFINE R == [pc : {"open", "fill", "rename", "stamp"}, id : Id \cup {None},
                 to : {"none", "tmp", "file", "gone"}]
           n == [o EXCEPT !.pc = pc]
<1>1. o \in R
  BY OpIs
<1>2. \A m \in R : m \in Ops /\ m # NoOp
  BY NoOpIs DEF Ops
<1>3. n \in R /\ n.pc = pc /\ n.id = o.id /\ n.to = o.to
  BY <1>1
<1> HIDE DEF R
<1> QED BY <1>2, <1>3

LEMMA OpTo ==
  ASSUME NEW o \in Ops, o # NoOp, NEW to \in {"none", "tmp", "file", "gone"}
  PROVE  LET n == [o EXCEPT !.to = to]
         IN n \in Ops /\ n # NoOp /\ n.pc = o.pc /\ n.id = o.id /\ n.to = to
<1> DEFINE R == [pc : {"open", "fill", "rename", "stamp"}, id : Id \cup {None},
                 to : {"none", "tmp", "file", "gone"}]
           n == [o EXCEPT !.to = to]
<1>1. o \in R
  BY OpIs
<1>2. \A m \in R : m \in Ops /\ m # NoOp
  BY NoOpIs DEF Ops
<1>3. n \in R /\ n.pc = o.pc /\ n.id = o.id /\ n.to = to
  BY <1>1
<1> HIDE DEF R
<1> QED BY <1>2, <1>3

LEMMA MovedIs ==
  ASSUME NEW o \in Ops
  PROVE  /\ Moved(o) \in Ops /\ Moved(o).id = o.id /\ Moved(o).pc = o.pc
         /\ Moved(o) = NoOp <=> o = NoOp
<1>1. CASE o = NoOp
  <2> DEFINE S == [pc : {"idle"}, id : {None}, to : {"none"}]
  <2>1. \A r \in S : r = [pc |-> r.pc, id |-> r.id, to |-> r.to]
    OBVIOUS
  <2>2. \A r \in S : r = NoOp
    <3> TAKE r \in S
    <3>1. r.pc = "idle" /\ r.id = None /\ r.to = "none"
      OBVIOUS
    <3>2. r = [pc |-> r.pc, id |-> r.id, to |-> r.to]
      BY <2>1
    <3> HIDE DEF S
    <3> QED BY <3>1, <3>2 DEF NoOp
  <2>3. NoOp \in S /\ \A r \in S : [r EXCEPT !.to = "none"] \in S
    BY DEF NoOp
  <2>4. Moved(NoOp) = [NoOp EXCEPT !.to = "none"]
    BY NoOpIs DEF Moved
  <2> HIDE DEF S
  <2>5. Moved(NoOp) = NoOp
    BY <2>2, <2>3, <2>4
  <2> QED BY <1>1, <2>5, NoOpIs
<1>2. CASE o # NoOp
  <2>1. o.to \in {"none", "tmp", "file", "gone"}
    BY <1>2, OpIs
  <2> DEFINE to == IF o.to = "tmp" THEN "file" ELSE IF o.to = "file" THEN "gone" ELSE o.to
  <2>2. to \in {"none", "tmp", "file", "gone"} /\ Moved(o) = [o EXCEPT !.to = to]
    BY <2>1 DEF Moved
  <2> HIDE DEF to
  <2>3. LET n == [o EXCEPT !.to = to]
        IN n \in Ops /\ n # NoOp /\ n.pc = o.pc /\ n.id = o.id
    BY <1>2, <2>2, OpTo
  <2> QED BY <1>2, <2>2, <2>3
<1> QED BY <1>1, <1>2

LEMMA ContentIs ==
  /\ Empty \in Content /\ Given(Empty) = {}
  /\ Absent \notin Content /\ Torn \notin Content /\ Absent # Torn
BY StoreAssumption DEF Empty, Content, Given

LEMMA AgentIs ==
  ASSUME NEW c \in Content, NEW i \in Id
  PROVE  c.agent[i] \in {"none", "live", "revoked"}
BY DEF Content

LEMMA OpenedIs ==
  ASSUME StoreTypeOK, file # Torn
  PROVE  /\ Opened \in Content
         /\ file # Absent => Opened = file
         /\ CopiesAreSpent => IsSpent(Opened)
<1>1. CASE file = Absent
  BY <1>1, ContentIs DEF Opened, IsSpent
<1>2. CASE file # Absent
  BY <1>2 DEF Opened, StoreTypeOK, CopiesAreSpent, Copies
<1> QED BY <1>1, <1>2

LEMMA LoadedIs ==
  ASSUME StoreInv
  PROVE  /\ Loaded \in Content /\ IsSpent(Loaded)
         /\ ~clash => Carries(Loaded)
<1>1. Relay \in Proc /\ mem[Relay] \in Content /\ IsSpent(mem[Relay])
  BY DEF Proc, StoreInv, StoreTypeOK, CopiesAreSpent, Copies
<1>2. CASE ~current /\ Readable
  <2>1. Loaded = file /\ file \in Content /\ file \in Copies /\ Opened = file
    BY <1>2 DEF Loaded, Readable, StoreInv, StoreTypeOK, Copies, Opened
  <2>2. Carries(file)
    BY <2>1 DEF Carries
  <2> QED BY <2>1, <2>2 DEF StoreInv, CopiesAreSpent
<1>3. CASE ~(~current /\ Readable)
  <2>1. Loaded = mem[Relay]
    BY <1>3 DEF Loaded
  <2>2. ~clash => current
    BY <1>3 DEF StoreInv, Alone, NothingIsLost, Readable
  <2>3. ~clash => Carries(mem[Relay])
    BY <2>2 DEF StoreInv, Alone, NothingIsLost
  <2> QED BY <1>1, <2>1, <2>3
<1> QED BY <1>2, <1>3

-----------------------------------------------------------------------------
(* Operations that change the copy.                                        *)

(* What was given out stays so.                                            *)
OriginsStay == /\ born \subseteq born' /\ born' \subseteq Tok
               /\ origin' \in [Id -> born' \cup {None}]
               /\ \A i \in Id : origin[i] # None => origin'[i] = origin[i]

LEMMA OperatesIs ==
  ASSUME StoreTypeOK, NEW p \in Proc, NEW c \in Content, NEW id \in Id \cup {None},
         Operates(p, c, id)
  PROVE  /\ ~Busy(p) /\ mem' \in [Proc -> Content] /\ op' \in [Proc -> Ops]
         /\ mem'[p] = c /\ op'[p] # NoOp
         /\ op'[p].pc = "open" /\ op'[p].id = id /\ op'[p].to = "none"
         /\ \A q \in Proc \ {p} : mem'[q] = mem[q] /\ op'[q] = op[q]
<1> DEFINE o == [pc |-> "open", id |-> id, to |-> "none"]
<1>1. o \in Ops /\ o # NoOp /\ o.pc = "open" /\ o.id = id /\ o.to = "none"
  BY NoOpIs DEF Ops
<1>2. op' = [op EXCEPT ![p] = o] /\ mem' = [mem EXCEPT ![p] = c] /\ ~Busy(p)
  BY DEF Operates
<1> HIDE DEF o
<1> QED BY <1>1, <1>2 DEF StoreTypeOK

LEMMA OperatesKeeps ==
  ASSUME StoreInv, NEW p \in Proc, NEW c \in Content, NEW id \in Id \cup {None},
         Operates(p, c, id), OriginsStay,
         \A d \in Copies : IsSpent(d)', IsSpent(c)',
         ~clash => Carries(c),
         p = Relay => id \in Given(c),
         p # Relay /\ id # None => id \in Id /\ c.agent[id] = "revoked"
  PROVE  StoreInv'
<1>1. /\ ~Busy(p) /\ mem' \in [Proc -> Content] /\ op' \in [Proc -> Ops]
      /\ mem'[p] = c /\ op'[p] # NoOp
      /\ op'[p].pc = "open" /\ op'[p].id = id /\ op'[p].to = "none"
      /\ \A q \in Proc \ {p} : mem'[q] = mem[q] /\ op'[q] = op[q]
  BY OperatesIs DEF StoreInv
<1>2. /\ file' = file /\ tmp' = tmp /\ confirmed' = confirmed
      /\ starting' = starting /\ issued' = issued
      /\ current' = IF p = Relay THEN Stamped ELSE current
      /\ clash' = (clash \/ \E q \in Proc \ {p} : Busy(q))
  BY DEF Operates
<1>3. StoreTypeOK'
  <2>1. current' \in BOOLEAN /\ clash' \in BOOLEAN
    BY <1>2 DEF Stamped, Readable, StoreInv, StoreTypeOK
  <2>2. /\ confirmed' \cup issued' \subseteq {i \in Id : origin'[i] # None}
        /\ starting' \in BOOLEAN
    BY <1>2 DEF StoreInv, StoreTypeOK, OriginsStay
  <2> QED BY <1>1, <1>2, <2>1, <2>2 DEF StoreInv, StoreTypeOK, OriginsStay
<1>4. CopiesAreSpent'
  <2>1. ASSUME NEW d \in Copies' PROVE d = c \/ d \in Copies
    BY <1>1, <1>2 DEF Copies
  <2> QED BY <2>1 DEF CopiesAreSpent
<1>5. OpsAreReal'
  <2> SUFFICES ASSUME NEW q \in Proc, op'[q] # NoOp
               PROVE  /\ q = Relay => op'[q].id \in Given(mem'[q])
                      /\ q # Relay /\ op'[q].id # None =>
                           op'[q].id \in Id /\ mem'[q].agent[op'[q].id] = "revoked"
    BY DEF OpsAreReal, Busy, Given
  <2>1. CASE q = p
    BY <1>1, <2>1
  <2>2. CASE q # p
    <3>1. mem'[q] = mem[q] /\ op'[q] = op[q] /\ Busy(q)
      BY <1>1, <2>2 DEF Busy
    <3> QED BY <3>1 DEF StoreInv, OpsAreReal
  <2> QED BY <2>1, <2>2
<1>6. clash' \/ Alone'
  <2> SUFFICES ASSUME ~clash' PROVE Alone'
    OBVIOUS
  <2>1. Alone /\ ~clash /\ \A q \in Proc \ {p} : op[q] = NoOp /\ op'[q] = NoOp
    BY <1>1, <1>2 DEF StoreInv, Busy
  <2>2. Opened' = Opened /\ \A d : Carries(d)' <=> Carries(d)
    BY <1>2 DEF Opened, Carries, Given
  <2>3. OneBusy'
    BY <2>1 DEF OneBusy, Busy
  <2>4. SaveShows'
    <3> SUFFICES ASSUME NEW q \in Proc, op'[q] # NoOp
                 PROVE  op'[q].pc = "open" /\ op'[q].to = "none"
      BY DEF SaveShows, Busy
    <3> QED BY <1>1, <2>1
  <2>5. NothingIsLost'
    <3>1. Carries(c) /\ Carries(mem'[p])
      BY <1>1, <2>1
    <3>2. \A q \in Proc : op'[q] # NoOp => Carries(mem'[q])
      BY <2>1, <3>1
    <3>3. current' => Carries(mem'[Relay])
      <4>1. CASE p = Relay
        BY <3>1, <4>1
      <4>2. CASE p # Relay
        BY <1>1, <1>2, <2>1, <4>2 DEF Alone, NothingIsLost, Proc
      <4> QED BY <4>1, <4>2
    <3>4. ~current' => file' # Absent
      BY <1>2, <2>1 DEF Alone, NothingIsLost, Stamped
    <3> QED BY <2>2, <3>2, <3>3, <3>4 DEF NothingIsLost, Busy, Carries, Given
  <2>6. RevokedIsStored'
    BY <1>2, <2>1, <2>2 DEF Alone, RevokedIsStored
  <2>7. file' # Torn
    BY <1>2, <2>1 DEF Alone
  <2> QED BY <2>3, <2>4, <2>5, <2>6, <2>7 DEF Alone
<1> QED BY <1>3, <1>4, <1>5, <1>6 DEF StoreInv

LEMMA MintKeeps ==
  ASSUME StoreInv, NEW p \in Cmd, NEW t \in Tok, Mint(p, t)
  PROVE  StoreInv'
<1>1. file # Torn /\ t \notin born /\ born' = born \cup {t} /\ origin' = origin
  BY DEF Mint
<1>2. PICK kept \in SUBSET Usable(Opened) :
        LET listed == [x \in Tok |-> IF x \in kept \cup {t} THEN "fresh" ELSE "none"]
        IN Operates(p, [Opened EXCEPT !.token = listed], None)
  BY DEF Mint
<1> DEFINE listed == [x \in Tok |-> IF x \in kept \cup {t} THEN "fresh" ELSE "none"]
           c == [Opened EXCEPT !.token = listed]
<1>3. Opened \in Content /\ IsSpent(Opened)
  BY <1>1, OpenedIs DEF StoreInv
<1>4. listed \in [Tok -> {"none", "fresh", "used"}]
  OBVIOUS
<1>5. c \in Content /\ c.agent = Opened.agent /\ c.token = listed
  <2> HIDE DEF listed
  <2> QED BY <1>3, <1>4 DEF Content
<1>6. \A x \in Tok : listed[x] = "fresh" => x = t \/ Opened.token[x] = "fresh"
  BY DEF Usable
<1>7. Operates(p, c, None)
  BY <1>2
<1> HIDE DEF c, listed
<1>8. OriginsStay
  BY <1>1 DEF OriginsStay, StoreInv, StoreTypeOK
<1>9. \A d : IsSpent(d)' <=> IsSpent(d)
  BY <1>1 DEF IsSpent, Given
<1>10. IsSpent(c)
  <2>1. Given(c) = Given(Opened)
    BY <1>5 DEF Given
  <2>2. ASSUME NEW i \in Given(c)
        PROVE  origin[i] # None /\ c.token[origin[i]] # "fresh"
    <3>1. i \in Id /\ origin[i] # None /\ Opened.token[origin[i]] # "fresh"
      BY <1>3, <2>1 DEF IsSpent, Given
    <3>2. origin[i] \in born /\ origin[i] \in Tok
      BY <3>1 DEF StoreInv, StoreTypeOK
    <3> QED BY <1>1, <1>5, <1>6, <3>1, <3>2
  <2> QED BY <1>3, <2>1, <2>2 DEF IsSpent
<1>11. Carries(c)
  BY <1>5 DEF Carries
<1>12. p \in Proc /\ p # Relay /\ None \in Id \cup {None}
  BY StoreAssumption DEF Proc
<1>13. \A d \in Copies : IsSpent(d)'
  BY <1>9 DEF StoreInv, CopiesAreSpent
<1> QED BY <1>5, <1>7, <1>8, <1>9, <1>10, <1>11, <1>12, <1>13, OperatesKeeps

LEMMA RevokeKeeps ==
  ASSUME StoreInv, NEW p \in Cmd, NEW i \in Id, Revoke(p, i)
  PROVE  StoreInv'
<1> DEFINE c == [Opened EXCEPT !.agent[i] = "revoked"]
<1>1. file # Torn /\ i \in Given(Opened) /\ born' = born /\ origin' = origin
  BY DEF Revoke, Given
<1>2. Operates(p, c, i)
  BY DEF Revoke
<1>3. Opened \in Content /\ IsSpent(Opened)
  BY <1>1, OpenedIs DEF StoreInv
<1>4. /\ c \in Content /\ c.token = Opened.token /\ c.agent[i] = "revoked"
      /\ \A j \in Id \ {i} : c.agent[j] = Opened.agent[j]
  BY <1>3 DEF Content
<1> HIDE DEF c
<1>5. OriginsStay
  BY <1>1 DEF OriginsStay, StoreInv, StoreTypeOK
<1>6. \A d : IsSpent(d)' <=> IsSpent(d)
  BY <1>1 DEF IsSpent, Given
<1>7. Given(c) = Given(Opened)
  BY <1>1, <1>4 DEF Given
<1>8. IsSpent(c)
  BY <1>3, <1>4, <1>7 DEF IsSpent
<1>9. Carries(c)
  BY <1>4 DEF Carries, Given
<1>10. p \in Proc /\ p # Relay
  BY StoreAssumption DEF Proc
<1>11. \A d \in Copies : IsSpent(d)'
  BY <1>6 DEF StoreInv, CopiesAreSpent
<1> QED BY <1>2, <1>4, <1>5, <1>6, <1>8, <1>9, <1>10, <1>11, OperatesKeeps

LEMMA ExchangeKeeps ==
  ASSUME StoreInv, NEW t \in born, NEW i \in Id, Exchange(t, i)
  PROVE  StoreInv'
<1> DEFINE next == [Loaded EXCEPT !.token[t] = "used", !.agent[i] = "live"]
<1>1. /\ t \in Tok /\ Loaded.token[t] = "fresh" /\ origin[i] = None
      /\ origin' = [origin EXCEPT ![i] = t] /\ born' = born
  BY DEF Exchange, Usable, StoreInv, StoreTypeOK
<1>2. Operates(Relay, next, i)
  BY DEF Exchange
<1>3. Loaded \in Content /\ IsSpent(Loaded) /\ (~clash => Carries(Loaded))
  BY LoadedIs
<1>4. PICK c \in Content :
        /\ c = next /\ c.token[t] = "used" /\ c.agent[i] = "live"
        /\ \A x \in Tok \ {t} : c.token[x] = Loaded.token[x]
        /\ \A j \in Id \ {i} : c.agent[j] = Loaded.agent[j]
  <2>1. /\ next \in Content /\ next.token[t] = "used" /\ next.agent[i] = "live"
        /\ \A x \in Tok \ {t} : next.token[x] = Loaded.token[x]
        /\ \A j \in Id \ {i} : next.agent[j] = Loaded.agent[j]
    BY <1>1, <1>3 DEF Content
  <2> HIDE DEF next
  <2> QED BY <2>1
<1> HIDE DEF next
<1>5. origin \in [Id -> born \cup {None}] /\ t # None /\ born \subseteq Tok
  BY <1>1, StoreAssumption DEF StoreInv, StoreTypeOK
<1>6. /\ origin'[i] = t /\ \A j \in Id \ {i} : origin'[j] = origin[j]
  BY <1>1, <1>5
<1>7. OriginsStay
  BY <1>1, <1>5, <1>6 DEF OriginsStay
<1>8. ASSUME NEW d, IsSpent(d)
      PROVE  i \notin Given(d) /\ IsSpent(d)'
  <2>1. i \notin Given(d)
    BY <1>1, <1>8 DEF IsSpent
  <2>2. \A j \in Given(d) : origin'[j] = origin[j]
    BY <1>6, <2>1 DEF Given
  <2> QED BY <1>8, <2>1, <2>2 DEF IsSpent, Given
<1>9. IsSpent(c)'
  <2>1. i \notin Given(Loaded)
    BY <1>3, <1>8
  <2>2. Given(c) = Given(Loaded) \cup {i}
    BY <1>4 DEF Given
  <2>3. ASSUME NEW j \in Given(Loaded)
        PROVE  /\ origin'[j] = origin[j] /\ origin[j] # None /\ origin[j] # t
               /\ c.token[origin[j]] # "fresh"
    <3>1. j \in Id \ {i} /\ origin[j] # None /\ Loaded.token[origin[j]] # "fresh"
      BY <1>3, <2>1 DEF IsSpent, Given
    <3>2. origin[j] \in Tok \ {t}
      BY <1>1, <1>5, <3>1
    <3> QED BY <1>4, <1>6, <3>1, <3>2
  <2>4. ASSUME NEW j \in Given(c)
        PROVE  origin'[j] # None /\ c.token[origin'[j]] # "fresh"
    BY <1>4, <1>5, <1>6, <2>2, <2>3
  <2>5. ASSUME NEW j \in Given(c), NEW k \in Given(c), origin'[j] = origin'[k]
        PROVE  j = k
    <3>1. CASE j \in Given(Loaded) /\ k \in Given(Loaded)
      BY <1>3, <2>3, <2>5, <3>1 DEF IsSpent
    <3>2. CASE j = i \/ k = i
      BY <1>6, <2>2, <2>3, <2>5, <3>2
    <3> QED BY <2>2, <3>1, <3>2
  <2> QED BY <2>4, <2>5 DEF IsSpent, Given
<1>10. ~clash => Carries(c)
  <2> SUFFICES ASSUME ~clash, NEW j \in Given(Opened)
               PROVE  c.agent[j] \in {Opened.agent[j], "revoked"}
    BY DEF Carries
  <2>1. Loaded.agent[j] \in {Opened.agent[j], "revoked"} /\ Opened.agent[j] # "none" /\ j \in Id
    BY <1>3 DEF Carries, Given
  <2>2. j \in Given(Loaded)
    BY <2>1 DEF Given
  <2>3. j # i
    BY <1>3, <1>8, <2>2
  <2> QED BY <1>4, <2>1, <2>3
<1>11. Relay \in Proc /\ i \in Id \cup {None} /\ i \in Given(c)
  BY <1>4 DEF Proc, Given
<1>12. \A d \in Copies : IsSpent(d)'
  BY <1>8 DEF StoreInv, CopiesAreSpent
<1> QED BY <1>2, <1>4, <1>7, <1>9, <1>10, <1>11, <1>12, OperatesKeeps

-----------------------------------------------------------------------------
(* Looking, saving, and ending.                                            *)

(* A copy that was there before, or is empty, is as sound as it was.       *)
LEMMA CopiesSettle ==
  ASSUME StoreInv, origin' = origin, \A d \in Copies' : d \in Copies \/ d = Empty
  PROVE  CopiesAreSpent'
<1>1. \A d : IsSpent(d)' <=> IsSpent(d)
  BY DEF IsSpent, Given
<1>2. IsSpent(Empty)
  BY ContentIs DEF IsSpent
<1> QED BY <1>1, <1>2 DEF StoreInv, CopiesAreSpent

(* An operation that goes on is about what it was about.                   *)
LEMMA OpsSettle ==
  ASSUME StoreInv,
         \A q \in Proc : op'[q] # NoOp =>
           op[q] # NoOp /\ op'[q].id = op[q].id /\ mem'[q] = mem[q]
  PROVE  OpsAreReal' /\ (OneBusy => OneBusy')
BY DEF StoreInv, OpsAreReal, OneBusy, Busy, Given

LEMMA LooksKeeps ==
  ASSUME StoreInv, Looks
  PROVE  StoreInv'
<1>1. /\ ~Busy(Relay) /\ mem' = [mem EXCEPT ![Relay] = Loaded] /\ current' = Stamped
      /\ UNCHANGED <<file, tmp, starting, op, born, origin, confirmed, issued, clash>>
  BY DEF Looks
<1>2. Loaded \in Content /\ IsSpent(Loaded) /\ (~clash => Carries(Loaded))
  BY LoadedIs
<1>3. /\ Relay \in Proc /\ mem' \in [Proc -> Content] /\ mem'[Relay] = Loaded
      /\ \A q \in Proc \ {Relay} : mem'[q] = mem[q]
  BY <1>1, <1>2 DEF StoreInv, StoreTypeOK, Proc
<1>4. StoreTypeOK'
  BY <1>1, <1>3 DEF StoreInv, StoreTypeOK, Stamped, Readable
<1>5. Loaded \in Copies
  BY <1>3 DEF Loaded, Copies, Readable
<1>6. CopiesAreSpent'
  <2>1. \A d \in Copies' : d \in Copies \/ d = Empty
    <3>1. ASSUME NEW d \in Copies' PROVE d \in Copies
      BY <1>1, <1>3, <1>5 DEF Copies
    <3> QED BY <3>1
  <2> QED BY <1>1, <2>1, CopiesSettle
<1>7. OpsAreReal'
  <2>1. \A q \in Proc : op'[q] # NoOp =>
          op[q] # NoOp /\ op'[q].id = op[q].id /\ mem'[q] = mem[q]
    BY <1>1, <1>3 DEF Busy
  <2> QED BY <2>1, OpsSettle
<1>8. clash' \/ Alone'
  <2> SUFFICES ASSUME ~clash PROVE Alone'
    BY <1>1
  <2>1. Alone
    BY DEF StoreInv
  <2>2. Opened' = Opened
    BY <1>1 DEF Opened
  <2>3. OneBusy' /\ file' # Torn /\ RevokedIsStored'
    BY <1>1, <2>1, <2>2 DEF Alone, OneBusy, Busy, RevokedIsStored
  <2>4. SaveShows'
    <3>1. ASSUME NEW q \in Proc, op'[q] # NoOp PROVE op[q] # NoOp /\ mem'[q] = mem[q]
      BY <1>1, <1>3, <3>1 DEF Busy
    <3> QED BY <1>1, <2>1, <3>1 DEF Alone, SaveShows, Busy
  <2>5. NothingIsLost'
    <3>1. ASSUME NEW q \in Proc, op'[q] # NoOp PROVE Carries(mem'[q])
      <4>1. op[q] # NoOp /\ mem'[q] = mem[q]
        BY <1>1, <1>3, <3>1 DEF Busy
      <4> QED BY <2>1, <4>1 DEF Alone, NothingIsLost, Busy
    <3>2. Carries(mem'[Relay])
      BY <1>2, <1>3
    <3>3. ~current' => file' # Absent
      BY <1>1, <2>1 DEF Alone, NothingIsLost, Stamped
    <3> QED BY <2>2, <3>1, <3>2, <3>3 DEF NothingIsLost, Busy, Carries, Given
  <2> QED BY <2>3, <2>4, <2>5 DEF Alone
<1> QED BY <1>4, <1>6, <1>7, <1>8 DEF StoreInv

LEMMA OpenTmpKeeps ==
  ASSUME StoreInv, NEW p \in Proc, OpenTmp(p)
  PROVE  StoreInv'
<1>1. /\ op[p] \in Ops /\ op[p].pc = "open" /\ tmp' = Torn
      /\ UNCHANGED <<file, mem, current, starting, born, origin, confirmed, issued, clash>>
  BY DEF OpenTmp, StoreInv, StoreTypeOK
<1>2. op[p] # NoOp
  BY <1>1, NoOpIs
<1> DEFINE n == [op[p] EXCEPT !.pc = "fill", !.to = "tmp"]
<1>3. op' = [op EXCEPT ![p] = n]
  BY DEF OpenTmp
<1>4. n \in Ops /\ n # NoOp /\ n.pc = "fill" /\ n.id = op[p].id /\ n.to = "tmp"
  BY <1>1, <1>2, OpAt
<1> HIDE DEF n
<1>5. /\ op' \in [Proc -> Ops] /\ op'[p] = n /\ \A q \in Proc \ {p} : op'[q] = op[q]
  BY <1>3, <1>4 DEF StoreInv, StoreTypeOK
<1>6. StoreTypeOK'
  BY <1>1, <1>5 DEF StoreInv, StoreTypeOK
<1>7. CopiesAreSpent'
  <2>1. \A d \in Copies' : d \in Copies
    BY <1>1 DEF Copies
  <2> QED BY <1>1, <2>1, CopiesSettle
<1>8. OpsAreReal' /\ (OneBusy => OneBusy')
  <2>1. \A q \in Proc : op'[q] # NoOp =>
          op[q] # NoOp /\ op'[q].id = op[q].id /\ mem'[q] = mem[q]
    BY <1>1, <1>2, <1>4, <1>5
  <2> QED BY <2>1, OpsSettle
<1>9. clash' \/ Alone'
  <2> SUFFICES ASSUME ~clash PROVE Alone'
    BY <1>1
  <2>1. Alone /\ \A q \in Proc \ {p} : op[q] = NoOp
    BY <1>2 DEF StoreInv, Alone, OneBusy, Busy
  <2>2. \A q \in Proc : op'[q] # NoOp => q = p
    BY <1>5, <2>1
  <2>3. SaveShows'
    BY <1>4, <1>5, <2>2 DEF SaveShows, Busy
  <2>4. NothingIsLost'
    BY <1>1, <1>2, <2>1, <2>2 DEF Alone, NothingIsLost, Busy, Carries, Given, Opened
  <2>5. RevokedIsStored'
    BY <1>1, <2>1 DEF Alone, RevokedIsStored, Opened
  <2> QED BY <1>1, <1>8, <2>1, <2>3, <2>4, <2>5 DEF Alone
<1> QED BY <1>6, <1>7, <1>8, <1>9 DEF StoreInv

LEMMA FillKeeps ==
  ASSUME StoreInv, NEW p \in Proc, Fill(p)
  PROVE  StoreInv'
<1>1. /\ op[p] \in Ops /\ op[p].pc = "fill"
      /\ tmp' = (IF op[p].to = "tmp" THEN mem[p] ELSE tmp)
      /\ file' = (IF op[p].to = "file" THEN mem[p] ELSE file)
      /\ current' = (IF op[p].to = "file" THEN FALSE ELSE current)
      /\ UNCHANGED <<mem, starting, born, origin, confirmed, issued, clash>>
  BY DEF Fill, StoreInv, StoreTypeOK
<1>2. op[p] # NoOp
  BY <1>1, NoOpIs
<1> DEFINE n == [op[p] EXCEPT !.pc = "rename"]
<1>3. op' = [op EXCEPT ![p] = n]
  BY DEF Fill, Step
<1>4. n \in Ops /\ n # NoOp /\ n.pc = "rename" /\ n.id = op[p].id /\ n.to = op[p].to
  BY <1>1, <1>2, OpPc
<1> HIDE DEF n
<1>5. /\ op' \in [Proc -> Ops] /\ op'[p] = n /\ \A q \in Proc \ {p} : op'[q] = op[q]
  BY <1>3, <1>4 DEF StoreInv, StoreTypeOK
<1>6. StoreTypeOK'
  BY <1>1, <1>5 DEF StoreInv, StoreTypeOK
<1>7. CopiesAreSpent'
  <2>1. \A d \in Copies' : d \in Copies
    BY <1>1 DEF Copies
  <2> QED BY <1>1, <2>1, CopiesSettle
<1>8. OpsAreReal' /\ (OneBusy => OneBusy')
  <2>1. \A q \in Proc : op'[q] # NoOp =>
          op[q] # NoOp /\ op'[q].id = op[q].id /\ mem'[q] = mem[q]
    BY <1>1, <1>2, <1>4, <1>5
  <2> QED BY <2>1, OpsSettle
<1>9. clash' \/ Alone'
  <2> SUFFICES ASSUME ~clash PROVE Alone'
    BY <1>1
  <2>1. Alone /\ \A q \in Proc \ {p} : op[q] = NoOp
    BY <1>2 DEF StoreInv, Alone, OneBusy, Busy
  <2>2. \A q \in Proc : op'[q] # NoOp => q = p
    BY <1>5, <2>1
  <2>3. op[p].to = "tmp" /\ tmp' = mem[p] /\ file' = file /\ current' = current
    BY <1>1, <1>2, <2>1 DEF Alone, SaveShows, Busy
  <2>4. SaveShows'
    BY <1>1, <1>4, <1>5, <2>2, <2>3 DEF SaveShows, Busy
  <2>5. NothingIsLost'
    BY <1>1, <1>2, <2>1, <2>2, <2>3 DEF Alone, NothingIsLost, Busy, Carries, Given, Opened
  <2>6. RevokedIsStored'
    BY <1>1, <2>1, <2>3 DEF Alone, RevokedIsStored, Opened
  <2> QED BY <1>8, <2>1, <2>3, <2>4, <2>5, <2>6 DEF Alone
<1> QED BY <1>6, <1>7, <1>8, <1>9 DEF StoreInv

LEMMA RenameKeeps ==
  ASSUME StoreInv, NEW p \in Proc, Rename(p)
  PROVE  StoreInv'
<1>1. /\ op[p] \in Ops /\ op[p].pc = "rename" /\ tmp # Absent
      /\ file' = tmp /\ tmp' = Absent /\ current' = FALSE
      /\ UNCHANGED <<mem, starting, born, origin, confirmed, issued, clash>>
  BY DEF Rename, StoreInv, StoreTypeOK
<1>2. op[p] # NoOp
  BY <1>1, NoOpIs
<1> DEFINE n == [op[p] EXCEPT !.pc = "stamp", !.to = "none"]
<1>3. op' = [q \in Proc |-> IF q = p THEN n ELSE Moved(op[q])]
  BY DEF Rename
<1>4. n \in Ops /\ n # NoOp /\ n.pc = "stamp" /\ n.id = op[p].id /\ n.to = "none"
  BY <1>1, <1>2, OpAt
<1>5. \A q \in Proc :
        /\ Moved(op[q]) \in Ops /\ Moved(op[q]).id = op[q].id
        /\ Moved(op[q]) = NoOp <=> op[q] = NoOp
  BY MovedIs DEF StoreInv, StoreTypeOK
<1> HIDE DEF n
<1>6. /\ op' \in [Proc -> Ops] /\ op'[p] = n /\ \A q \in Proc \ {p} : op'[q] = Moved(op[q])
  BY <1>3, <1>4, <1>5
<1>7. StoreTypeOK'
  BY <1>1, <1>6 DEF StoreInv, StoreTypeOK
<1>8. CopiesAreSpent'
  <2>1. \A d \in Copies' : d \in Copies
    BY <1>1 DEF Copies
  <2> QED BY <1>1, <2>1, CopiesSettle
<1>9. OpsAreReal' /\ (OneBusy => OneBusy')
  <2>1. \A q \in Proc : op'[q] # NoOp =>
          op[q] # NoOp /\ op'[q].id = op[q].id /\ mem'[q] = mem[q]
    BY <1>1, <1>2, <1>4, <1>5, <1>6
  <2> QED BY <2>1, OpsSettle
<1>10. clash' \/ Alone'
  <2> SUFFICES ASSUME ~clash PROVE Alone'
    BY <1>1
  <2>1. Alone /\ \A q \in Proc \ {p} : op[q] = NoOp
    BY <1>2 DEF StoreInv, Alone, OneBusy, Busy
  <2>2. \A q \in Proc : op'[q] # NoOp => q = p
    BY <1>5, <1>6, <2>1
  <2>3. file' = mem[p] /\ mem[p] \in Content /\ Carries(mem[p])
    BY <1>1, <1>2, <2>1 DEF Alone, SaveShows, NothingIsLost, Busy, StoreInv, StoreTypeOK
  <2>4. file' # Torn /\ file' # Absent /\ Opened' = mem[p]
    BY <2>3, ContentIs DEF Opened
  <2>5. SaveShows'
    BY <1>1, <1>4, <1>6, <2>2, <2>3 DEF SaveShows, Busy
  <2>6. NothingIsLost'
    <3>1. Carries(mem[p])'
      BY <1>1, <2>4 DEF Carries
    <3> QED BY <1>1, <2>2, <2>4, <3>1 DEF NothingIsLost, Busy
  <2>7. RevokedIsStored'
    BY <1>1, <2>1, <2>3, <2>4 DEF Alone, RevokedIsStored, Carries, Given, StoreInv, StoreTypeOK
  <2> QED BY <1>9, <2>1, <2>4, <2>5, <2>6, <2>7 DEF Alone
<1> QED BY <1>7, <1>8, <1>9, <1>10 DEF StoreInv

(* An operation that ends leaves the others and the file as they are.      *)
LEMMA EndKeeps ==
  ASSUME StoreInv, NEW p \in Proc,
         op' = [op EXCEPT ![p] = NoOp], mem' \in [Proc -> Content],
         \A q \in Proc \ {p} : mem'[q] = mem[q],
         mem'[p] \in Copies \cup {Empty},
         tmp' \in {tmp, Absent}, \A q \in Proc \ {p} : Busy(q) => tmp' = tmp,
         current' \in BOOLEAN, UNCHANGED <<file, born, origin, clash>>,
         confirmed' \cup issued' \subseteq {i \in Id : origin[i] # None},
         starting' \in BOOLEAN,
         ~clash => /\ RevokedIsStored'
                   /\ current' => Carries(mem'[Relay])
                   /\ ~current' => file # Absent
  PROVE  StoreInv'
<1>1. /\ op' \in [Proc -> Ops] /\ op'[p] = NoOp
      /\ \A q \in Proc \ {p} : op'[q] = op[q]
  BY NoOpIs DEF StoreInv, StoreTypeOK
<1>2. StoreTypeOK'
  BY <1>1 DEF StoreInv, StoreTypeOK
<1>3. CopiesAreSpent'
  <2>1. \A d \in Copies' : d \in Copies \/ d = Empty
    BY DEF Copies
  <2> QED BY <2>1, CopiesSettle
<1>4. OpsAreReal' /\ (OneBusy => OneBusy')
  <2>1. \A q \in Proc : op'[q] # NoOp =>
          op[q] # NoOp /\ op'[q].id = op[q].id /\ mem'[q] = mem[q]
    BY <1>1
  <2> QED BY <2>1, OpsSettle
<1>5. clash' \/ Alone'
  <2> SUFFICES ASSUME ~clash PROVE Alone'
    OBVIOUS
  <2>1. Alone /\ Opened' = Opened
    BY DEF StoreInv, Opened
  <2>2. ASSUME NEW q \in Proc, op'[q] # NoOp
        PROVE  op'[q] = op[q] /\ op[q] # NoOp /\ mem'[q] = mem[q] /\ tmp' = tmp /\ file' = file
    BY <1>1, <2>2 DEF Busy
  <2>3. SaveShows'
    <3> SUFFICES ASSUME NEW q \in Proc, op'[q] # NoOp
                 PROVE  /\ op'[q].pc = "open" => op'[q].to = "none"
                        /\ op'[q].pc = "fill" => op'[q].to = "tmp"
                        /\ op'[q].pc = "rename" => op'[q].to = "tmp" /\ tmp' = mem'[q]
                        /\ op'[q].pc = "stamp" => op'[q].to = "none" /\ file' = mem'[q]
      BY DEF SaveShows, Busy
    <3> QED BY <2>1, <2>2 DEF Alone, SaveShows, Busy
  <2>4. NothingIsLost'
    <3>1. \A q \in Proc : op'[q] # NoOp => Carries(mem'[q])
      BY <2>1, <2>2 DEF Alone, NothingIsLost, Busy
    <3> QED BY <2>1, <3>1 DEF NothingIsLost, Busy, Carries, Given
  <2> QED BY <1>4, <2>1, <2>3, <2>4 DEF Alone
<1> QED BY <1>2, <1>3, <1>4, <1>5 DEF StoreInv

LEMMA EmptyAfter ==
  ASSUME StoreInv, NEW p \in Proc,
         mem' = IF p \in Cmd THEN [mem EXCEPT ![p] = Empty] ELSE mem
  PROVE  /\ mem' \in [Proc -> Content] /\ \A q \in Proc \ {p} : mem'[q] = mem[q]
         /\ mem'[p] \in Copies \cup {Empty}
         /\ mem'[Relay] = mem[Relay]
BY ContentIs, StoreAssumption DEF StoreInv, StoreTypeOK, Copies, Proc

LEMMA SavedKeeps ==
  ASSUME StoreInv, NEW p \in Proc, Saved(p)
  PROVE  StoreInv'
<1>1. /\ op[p] \in Ops /\ op[p].pc = "stamp"
      /\ current' = (current \/ p = Relay) /\ op' = [op EXCEPT ![p] = NoOp]
      /\ confirmed' = (IF p \in Cmd /\ op[p].id # None THEN confirmed \cup {op[p].id}
                                                      ELSE confirmed)
      /\ mem' = (IF p \in Cmd THEN [mem EXCEPT ![p] = Empty] ELSE mem)
      /\ issued' = (IF p = Relay THEN issued \cup {op[p].id} ELSE issued)
      /\ UNCHANGED <<file, tmp, starting, born, origin, clash>>
  BY DEF Saved, StoreInv, StoreTypeOK
<1>2. op[p] # NoOp
  BY <1>1, NoOpIs
<1>3. /\ mem' \in [Proc -> Content] /\ \A q \in Proc \ {p} : mem'[q] = mem[q]
      /\ mem'[p] \in Copies \cup {Empty}
      /\ mem'[Relay] = mem[Relay]
  BY <1>1, EmptyAfter
<1>4. p \in Cmd /\ op[p].id # None =>
        op[p].id \in Id /\ mem[p].agent[op[p].id] = "revoked" /\ origin[op[p].id] # None
  <2> SUFFICES ASSUME p \in Cmd, op[p].id # None
               PROVE  op[p].id \in Id /\ mem[p].agent[op[p].id] = "revoked" /\ origin[op[p].id] # None
    OBVIOUS
  <2>1. op[p].id \in Id /\ mem[p].agent[op[p].id] = "revoked"
    BY <1>2, StoreAssumption DEF StoreInv, OpsAreReal, Busy
  <2>2. IsSpent(mem[p])
    BY DEF StoreInv, CopiesAreSpent, Copies
  <2> QED BY <2>1, <2>2 DEF IsSpent, Given
<1>5. confirmed' \cup issued' \subseteq {i \in Id : origin[i] # None}
  <2>1. p = Relay => op[p].id \in Id /\ origin[op[p].id] # None
    <3>1. p = Relay => op[p].id \in Given(mem[p])
      BY <1>2 DEF StoreInv, OpsAreReal, Busy
    <3>2. IsSpent(mem[p])
      BY DEF StoreInv, CopiesAreSpent, Copies
    <3> QED BY <3>1, <3>2 DEF IsSpent, Given
  <2> QED BY <1>1, <1>4, <2>1 DEF StoreInv, StoreTypeOK
<1>6. current' \in BOOLEAN /\ starting' \in BOOLEAN
  BY <1>1 DEF StoreInv, StoreTypeOK
<1>7. ASSUME ~clash
      PROVE  /\ RevokedIsStored'
             /\ current' => Carries(mem'[Relay])
             /\ ~current' => file # Absent
  <2>1. Alone /\ Opened' = Opened
    BY <1>1, <1>7 DEF StoreInv, Opened
  <2>2. file = mem[p] /\ Opened = mem[p] /\ Carries(mem[p])
    <3>1. file = mem[p] /\ Carries(mem[p]) /\ mem[p] \in Content
      BY <1>1, <1>2, <2>1 DEF Alone, SaveShows, NothingIsLost, Busy, StoreInv, StoreTypeOK
    <3> QED BY <3>1, ContentIs DEF Opened
  <2>3. RevokedIsStored'
    BY <1>1, <1>4, <2>1, <2>2 DEF Alone, RevokedIsStored
  <2>4. current' => Carries(mem'[Relay])
    BY <1>1, <1>3, <2>1, <2>2 DEF Alone, NothingIsLost
  <2>5. ~current' => file # Absent
    BY <1>1, <2>1 DEF Alone, NothingIsLost
  <2> QED BY <2>3, <2>4, <2>5
<1> QED BY <1>1, <1>3, <1>5, <1>6, <1>7, EndKeeps

LEMMA SaveFailsKeeps ==
  ASSUME StoreInv, NEW p \in Proc, SaveFails(p)
  PROVE  StoreInv'
<1>1. /\ op' = [op EXCEPT ![p] = NoOp]
      /\ mem' = (IF p \in Cmd THEN [mem EXCEPT ![p] = Empty] ELSE mem)
      /\ tmp' = Left(p)
      /\ UNCHANGED <<file, current, starting, born, origin, confirmed, issued, clash>>
  BY DEF SaveFails
<1>2. /\ mem' \in [Proc -> Content] /\ \A q \in Proc \ {p} : mem'[q] = mem[q]
      /\ mem'[p] \in Copies \cup {Empty}
      /\ mem'[Relay] = mem[Relay]
  BY <1>1, EmptyAfter
<1>3. tmp' \in {tmp, Absent} /\ \A q \in Proc \ {p} : Busy(q) => tmp' = tmp
  BY <1>1 DEF Left
<1>4. /\ confirmed' \cup issued' \subseteq {i \in Id : origin[i] # None}
      /\ current' \in BOOLEAN /\ starting' \in BOOLEAN
  BY <1>1 DEF StoreInv, StoreTypeOK
<1>5. ~clash => /\ RevokedIsStored'
                /\ current' => Carries(mem'[Relay])
                /\ ~current' => file # Absent
  BY <1>1, <1>2 DEF StoreInv, Alone, NothingIsLost, RevokedIsStored, Opened
<1> QED BY <1>1, <1>2, <1>3, <1>4, <1>5, EndKeeps

LEMMA KilledKeeps ==
  ASSUME StoreInv, NEW p \in Proc, Killed(p)
  PROVE  StoreInv'
<1> DEFINE c == IF p = Relay THEN Opened ELSE Empty
<1>1. /\ op' = [op EXCEPT ![p] = NoOp] /\ mem' = [mem EXCEPT ![p] = c]
      /\ p = Relay => file # Torn
      /\ current' = (current \/ p = Relay) /\ tmp' = Left(p)
      /\ starting' = (IF p = Relay THEN file # Absent ELSE starting)
      /\ UNCHANGED <<file, born, origin, confirmed, issued, clash>>
  BY DEF Killed
<1>2. c \in Content /\ c \in Copies \cup {Empty}
  <2>1. CASE p = Relay
    <3>1. file # Torn /\ Opened \in Content
      BY <1>1, <2>1, OpenedIs DEF StoreInv
    <3>2. Opened \in Copies \cup {Empty}
      BY <3>1 DEF Opened, Copies
    <3> QED BY <2>1, <3>1, <3>2
  <2>2. CASE p # Relay
    BY <2>2, ContentIs
  <2> QED BY <2>1, <2>2
<1>3. p = Relay => c = Opened
  OBVIOUS
<1> HIDE DEF c
<1>4. /\ mem' \in [Proc -> Content] /\ \A q \in Proc \ {p} : mem'[q] = mem[q]
      /\ mem'[p] = c /\ mem'[p] \in Copies \cup {Empty}
  BY <1>1, <1>2 DEF StoreInv, StoreTypeOK
<1>5. tmp' \in {tmp, Absent} /\ \A q \in Proc \ {p} : Busy(q) => tmp' = tmp
  BY <1>1 DEF Left
<1>6. /\ confirmed' \cup issued' \subseteq {i \in Id : origin[i] # None}
      /\ current' \in BOOLEAN /\ starting' \in BOOLEAN
  BY <1>1 DEF StoreInv, StoreTypeOK
<1>7. ASSUME ~clash
      PROVE  /\ RevokedIsStored'
             /\ current' => Carries(mem'[Relay])
             /\ ~current' => file # Absent
  <2>1. Alone /\ Opened' = Opened
    BY <1>1, <1>7 DEF StoreInv, Opened
  <2>2. RevokedIsStored'
    BY <1>1, <2>1 DEF Alone, RevokedIsStored
  <2>3. current' => Carries(mem'[Relay])
    <3>1. Carries(Opened)
      BY DEF Carries
    <3>2. CASE p = Relay
      BY <1>3, <1>4, <3>1, <3>2
    <3>3. CASE p # Relay
      BY <1>1, <1>4, <2>1, <3>3 DEF Alone, NothingIsLost, Proc
    <3> QED BY <3>2, <3>3
  <2>4. ~current' => file # Absent
    BY <1>1, <2>1 DEF Alone, NothingIsLost
  <2> QED BY <2>2, <2>3, <2>4
<1> QED BY <1>1, <1>4, <1>5, <1>6, <1>7, EndKeeps

(* The relay stamps what it has read; anything else counts as a clash.     *)
LEMMA StartedKeeps ==
  ASSUME StoreInv, Started
  PROVE  StoreInv'
<1>1. /\ starting' = FALSE /\ current' = TRUE /\ clash' = (clash \/ ~current)
      /\ UNCHANGED <<file, tmp, mem, op, born, origin, confirmed, issued>>
  BY DEF Started
<1>2. StoreTypeOK'
  BY <1>1 DEF StoreInv, StoreTypeOK
<1>3. CopiesAreSpent' /\ OpsAreReal'
  BY <1>1 DEF StoreInv, CopiesAreSpent, Copies, IsSpent, Given, OpsAreReal, Busy
<1>4. clash' \/ Alone'
  BY <1>1 DEF StoreInv, StoreTypeOK, Alone, OneBusy, SaveShows, NothingIsLost, RevokedIsStored,
              Carries, Given, Opened, Busy
<1> QED BY <1>2, <1>3, <1>4 DEF StoreInv

-----------------------------------------------------------------------------
(* What any step does to the store.                                        *)
StoreMoves == \/ UNCHANGED storeVars
              \/ Looks \/ Started
              \/ \E t \in born, i \in Id : Exchange(t, i)
              \/ \E p \in Cmd : (\E t \in Tok : Mint(p, t)) \/ (\E i \in Id : Revoke(p, i))
              \/ \E p \in Proc : \/ OpenTmp(p) \/ Fill(p) \/ Rename(p)
                                \/ Saved(p) \/ SaveFails(p) \/ Killed(p)

LEMMA StoreKeeps ==
  ASSUME StoreInv, StoreMoves
  PROVE  StoreInv'
<1>1. CASE UNCHANGED storeVars
  <2>1. StoreTypeOK'
    BY <1>1 DEF StoreInv, StoreTypeOK, storeVars
  <2>2. CopiesAreSpent' /\ OpsAreReal'
    BY <1>1 DEF StoreInv, CopiesAreSpent, Copies, IsSpent, Given, OpsAreReal, Busy, storeVars
  <2>3. clash' \/ Alone'
    BY <1>1 DEF StoreInv, Alone, OneBusy, SaveShows, NothingIsLost, RevokedIsStored, Carries,
                Given, Opened, Busy, storeVars
  <2> QED BY <2>1, <2>2, <2>3 DEF StoreInv
<1>2. CASE ~UNCHANGED storeVars
  BY <1>2, LooksKeeps, ExchangeKeeps, MintKeeps, RevokeKeeps, OpenTmpKeeps, FillKeeps,
     RenameKeeps, SavedKeeps, SaveFailsKeeps, KilledKeeps, StartedKeeps DEF StoreMoves
<1> QED BY <1>1, <1>2

(* While no operations overlap, an agent in the file stays there.          *)
LEMMA GivenStays ==
  ASSUME StoreInv, StoreMoves, ~clash', NEW i \in Given(Opened)
  PROVE  ~clash /\ i \in Given(Opened')
<1>1. ~clash
  BY DEF StoreMoves, storeVars, Looks, Exchange, Mint, Revoke, Operates, OpenTmp, Fill, Rename,
         Saved, SaveFails, Killed, Started
<1>2. Alone
  BY <1>1 DEF StoreInv
<1>3. file' = file => i \in Given(Opened')
  BY DEF Opened
<1>4. ASSUME NEW p \in Proc, Rename(p) PROVE i \in Given(Opened')
  <2>1. op[p] # NoOp /\ op[p].pc = "rename" /\ file' = tmp
    BY <1>4, NoOpIs DEF Rename
  <2>2. file' = mem[p] /\ mem[p] \in Content /\ Carries(mem[p])
    BY <1>2, <2>1 DEF Alone, SaveShows, NothingIsLost, Busy, StoreInv, StoreTypeOK
  <2>3. Opened' = mem[p]
    BY <2>2, ContentIs DEF Opened
  <2> QED BY <2>2, <2>3 DEF Carries, Given
<1>5. ASSUME NEW p \in Proc, Fill(p) PROVE file' = file
  <2>1. op[p] # NoOp /\ op[p].pc = "fill"
    BY <1>5, NoOpIs DEF Fill
  <2>2. op[p].to = "tmp"
    BY <1>2, <2>1 DEF Alone, SaveShows, Busy
  <2> QED BY <1>5, <2>2 DEF Fill
<1>6. \/ file' = file
      \/ \E p \in Proc : Fill(p) \/ Rename(p)
  BY DEF StoreMoves, storeVars, Looks, Exchange, Mint, Revoke, Operates, OpenTmp, Saved, SaveFails,
         Killed, Started
<1> QED BY <1>1, <1>3, <1>4, <1>5, <1>6

-----------------------------------------------------------------------------
(* What any step does to the trust in the server.                          *)
HostInv == HostTypeOK /\ DialIsCurrent

HostMoves == \/ UNCHANGED hostVars
             \/ Handshake \/ Authenticated \/ DialFails \/ World
             \/ /\ \/ \E accept \in BOOLEAN : Attempt({}, accept)
                   \/ dial' = NoDial
                /\ UNCHANGED <<offers, known>>

LEMMA OfferedIs ==
  ASSUME HostTypeOK, NEW a \in Algo
  PROVE  Offered(a) \in Key /\ Offered(a).algo = a
BY DEF HostTypeOK, Offered, Key

LEMMA EndsIs ==
  ASSUME NEW outcome \in Outcome, NEW key \in Key \cup {NoKey}, Ends(outcome, key)
  PROVE  dial' \in Dials /\ dial'.pc = outcome /\ dial'.key = key /\ dial'.pc # "shake"
<1> DEFINE n == [NoDial EXCEPT !.pc = outcome, !.key = key]
<1>1. n \in Dials /\ n.pc = outcome /\ n.key = key
  BY DEF NoDial, Dials, Outcome
<1>2. outcome # "shake"
  BY DEF Outcome
<1> HIDE DEF n
<1>3. dial' = n
  BY DEF Ends, n
<1> QED BY <1>1, <1>2, <1>3

LEMMA AcceptsIs ==
  ASSUME NEW key \in Key, Accepts(key)
  PROVE  dial' \in Dials /\ dial'.pc = "auth" /\ dial'.key = key
BY DEF Accepts, NoDial, Dials

LEMMA AttemptIs ==
  ASSUME NEW pinned \in SUBSET Algo, NEW accept \in BOOLEAN, known \subseteq Key,
         Attempt(pinned, accept)
  PROVE  /\ dial' \in Dials /\ dial'.pc = "shake" /\ dial'.read = known
         /\ dial'.pinned = pinned
BY DEF Attempt, Dials, Outcome

LEMMA NoDialIs == NoDial \in Dials /\ NoDial.pc = "idle"
BY DEF NoDial, Dials, Outcome

(* A handshake ends well, or badly, or is tried again.                     *)
LEMMA HandshakeIs ==
  ASSUME HostInv, Handshake
  PROVE  /\ dial.pc = "shake" /\ offers' = offers /\ dial' \in Dials
         /\ \E a \in Algo :
              \/ /\ Offered(a) \in known
                 /\ known' = known /\ dial'.pc = "auth" /\ dial'.key = Offered(a)
              \/ /\ known' = known /\ dial'.pc = "shake"
                 /\ dial'.read = known /\ dial'.pinned = {k.algo : k \in known}
              \/ /\ \E k \in known : k.algo = a
                 /\ Offered(a) \notin known
                 /\ known' = known /\ dial'.pc = "changed"
              \/ known' = known /\ dial'.pc = "unknown"
              \/ /\ known = {} /\ known' = {Offered(a)}
                 /\ dial'.pc = "auth" /\ dial'.key = Offered(a)
<1>1. /\ dial.pc = "shake" /\ dial \in Dials /\ dial.read = known /\ known \subseteq Key
      /\ dial.pinned # {} => dial.pinned = {k.algo : k \in known}
  BY DEF HostInv, HostTypeOK, DialIsCurrent, Handshake
<1>2. PICK a \in Algo : Negotiable(a) /\ (Trusted(a) \/ Mismatch(a) \/ Unfamiliar(a))
  BY DEF Handshake
<1>3. Offered(a) \in Key /\ Offered(a).algo = a
  BY OfferedIs DEF HostInv
<1>4. {"changed", "unknown"} \subseteq Outcome
  BY DEF Outcome
<1>5. CASE Trusted(a)
  <2>1. Offered(a) \in known /\ Accepts(Offered(a)) /\ UNCHANGED <<offers, known>>
    BY <1>1, <1>5 DEF Trusted
  <2>2. dial' \in Dials /\ dial'.pc = "auth" /\ dial'.key = Offered(a)
    BY <1>3, <2>1, AcceptsIs
  <2> QED BY <1>1, <2>1, <2>2
<1>6. CASE Mismatch(a)
  <2>1. known # {} /\ Offered(a) \notin known /\ UNCHANGED <<offers, known>>
    BY <1>1, <1>6 DEF Mismatch
  <2>2. CASE dial.pinned = {}
    <3>1. Attempt({k.algo : k \in known}, dial.accept)
      BY <1>1, <1>6, <2>2 DEF Mismatch
    <3>2. {k.algo : k \in known} \in SUBSET Algo /\ dial.accept \in BOOLEAN
      BY <1>1 DEF Key, Dials
    <3>3. /\ dial' \in Dials /\ dial'.pc = "shake" /\ dial'.read = known
          /\ dial'.pinned = {k.algo : k \in known}
      BY <1>1, <3>1, <3>2, AttemptIs
    <3> QED BY <1>1, <2>1, <3>3
  <2>3. CASE dial.pinned # {}
    <3>1. Ends("changed", Offered(a)) /\ a \in dial.pinned
      BY <1>2, <1>6, <2>3 DEF Mismatch, Negotiable
    <3>2. dial' \in Dials /\ dial'.pc = "changed"
      BY <1>3, <1>4, <3>1, EndsIs
    <3>3. \E k \in known : k.algo = a
      BY <1>1, <2>3, <3>1
    <3> QED BY <1>1, <2>1, <3>2, <3>3
  <2> QED BY <2>2, <2>3
<1>7. CASE Unfamiliar(a)
  <2>1. known = {} /\ offers' = offers
    BY <1>1, <1>7 DEF Unfamiliar
  <2>2. CASE ~dial.accept
    <3>1. Ends("unknown", Offered(a)) /\ known' = known
      BY <1>7, <2>2 DEF Unfamiliar
    <3>2. dial' \in Dials /\ dial'.pc = "unknown"
      BY <1>3, <1>4, <3>1, EndsIs
    <3> QED BY <1>1, <2>1, <3>1, <3>2
  <2>3. CASE dial.accept
    <3>1. Accepts(Offered(a)) /\ known' = {Offered(a)}
      BY <1>7, <2>1, <2>3 DEF Unfamiliar
    <3>2. dial' \in Dials /\ dial'.pc = "auth" /\ dial'.key = Offered(a)
      BY <1>3, <3>1, AcceptsIs
    <3> QED BY <1>1, <2>1, <3>1, <3>2
  <2> QED BY <2>2, <2>3
<1> QED BY <1>2, <1>5, <1>6, <1>7

LEMMA WorldKeeps ==
  ASSUME HostInv, World
  PROVE  HostInv' /\ dial' = dial
<1>1. /\ dial.pc # "shake" /\ dial \in Dials /\ known \subseteq Key
      /\ dial = NoDial /\ offers \in [Algo -> 1 .. MaxGen]
      /\ \A k, l \in known : k.algo = l.algo => k = l
  BY NoDialIs DEF HostInv, HostTypeOK, DialIsCurrent, World
<1>2. ASSUME known' \subseteq Key, \A k, l \in known' : k.algo = l.algo => k = l,
             offers' \in [Algo -> 1 .. MaxGen], dial' = dial
      PROVE  HostInv' /\ dial' = dial
  BY <1>1, <1>2 DEF HostInv, HostTypeOK, DialIsCurrent
<1>3. CASE Removed
  BY <1>1, <1>2, <1>3 DEF Removed
<1>4. ASSUME NEW a \in Algo, Replaced(a) PROVE HostInv' /\ dial' = dial
  <2>1. offers[a] \in 1 .. MaxGen /\ offers[a] < MaxGen
    BY <1>1, <1>4 DEF Replaced
  <2>2. offers[a] + 1 \in 1 .. MaxGen
    BY <2>1, HostKeysAssumption
  <2>3. offers' \in [Algo -> 1 .. MaxGen]
    BY <1>1, <1>4, <2>2 DEF Replaced
  <2> QED BY <1>1, <1>2, <1>4, <2>3 DEF Replaced
<1>5. ASSUME NEW a \in Algo, RecordedByOther(a) PROVE HostInv' /\ dial' = dial
  <2>1. /\ \A k \in known : k.algo # a
        /\ known' = known \cup {Offered(a)} /\ offers' = offers /\ dial' = dial
    BY <1>5 DEF RecordedByOther, Recorded
  <2>2. Offered(a) \in Key /\ Offered(a).algo = a
    BY OfferedIs DEF HostInv
  <2> QED BY <1>1, <1>2, <2>1, <2>2
<1> QED BY <1>3, <1>4, <1>5 DEF World

LEMMA HostKeeps ==
  ASSUME HostInv, HostMoves
  PROVE  HostInv' /\ DifferingKeyIsRefused /\ ChangeIsReal
<1>1. /\ dial \in Dials /\ known \subseteq Key /\ offers \in [Algo -> 1 .. MaxGen]
      /\ \A k, l \in known : k.algo = l.algo => k = l
  BY DEF HostInv, HostTypeOK, DialIsCurrent
<1>2. ASSUME dial'.pc \notin {"auth", "changed"} \/ dial'.pc = dial.pc
      PROVE  DifferingKeyIsRefused /\ ChangeIsReal
  BY <1>2 DEF DifferingKeyIsRefused, ChangeIsReal
<1>3. ASSUME known' = known, offers' = offers, dial' \in Dials, dial'.pc # "shake"
      PROVE  HostInv'
  BY <1>1, <1>3 DEF HostInv, HostTypeOK, DialIsCurrent
<1>4. CASE UNCHANGED hostVars
  <2>1. HostInv'
    BY <1>4 DEF HostInv, HostTypeOK, DialIsCurrent, hostVars
  <2> QED BY <1>2, <1>4, <2>1 DEF hostVars
<1>5. CASE Handshake
  <2>1. /\ dial.pc = "shake" /\ offers' = offers /\ dial' \in Dials
    BY <1>5, HandshakeIs
  <2>2. PICK a \in Algo :
          \/ /\ Offered(a) \in known
             /\ known' = known /\ dial'.pc = "auth" /\ dial'.key = Offered(a)
          \/ /\ known' = known /\ dial'.pc = "shake"
             /\ dial'.read = known /\ dial'.pinned = {k.algo : k \in known}
          \/ /\ \E k \in known : k.algo = a
             /\ Offered(a) \notin known
             /\ known' = known /\ dial'.pc = "changed"
          \/ known' = known /\ dial'.pc = "unknown"
          \/ /\ known = {} /\ known' = {Offered(a)}
             /\ dial'.pc = "auth" /\ dial'.key = Offered(a)
    BY <1>5, HandshakeIs
  <2>3. Offered(a) \in Key /\ Offered(a).algo = a
    BY OfferedIs DEF HostInv
  <2>4. CASE /\ Offered(a) \in known
             /\ known' = known /\ dial'.pc = "auth" /\ dial'.key = Offered(a)
    <3>1. HostInv'
      BY <1>3, <2>1, <2>4
    <3>2. DifferingKeyIsRefused
      BY <1>1, <2>3, <2>4 DEF DifferingKeyIsRefused
    <3>3. ChangeIsReal
      BY <2>4 DEF ChangeIsReal
    <3> QED BY <3>1, <3>2, <3>3
  <2>5. CASE /\ known' = known /\ dial'.pc = "shake"
             /\ dial'.read = known /\ dial'.pinned = {k.algo : k \in known}
    <3>1. HostInv'
      BY <1>1, <2>1, <2>5 DEF HostInv, HostTypeOK, DialIsCurrent
    <3> QED BY <1>2, <2>5, <3>1
  <2>6. CASE /\ \E k \in known : k.algo = a
             /\ Offered(a) \notin known
             /\ known' = known /\ dial'.pc = "changed"
    <3>1. HostInv'
      BY <1>3, <2>1, <2>6
    <3>2. DifferingKeyIsRefused
      BY <2>6 DEF DifferingKeyIsRefused
    <3>3. PICK k \in known : k.algo = a
      BY <2>6
    <3>4. k # Offered(k.algo)
      BY <2>6, <3>3
    <3>5. ChangeIsReal
      BY <3>4 DEF ChangeIsReal
    <3> QED BY <3>1, <3>2, <3>5
  <2>7. CASE known' = known /\ dial'.pc = "unknown"
    BY <1>2, <1>3, <2>1, <2>7
  <2>8. CASE /\ known = {} /\ known' = {Offered(a)}
             /\ dial'.pc = "auth" /\ dial'.key = Offered(a)
    <3>1. HostInv'
      BY <1>1, <2>1, <2>3, <2>8 DEF HostInv, HostTypeOK, DialIsCurrent
    <3>2. DifferingKeyIsRefused /\ ChangeIsReal
      BY <2>8 DEF DifferingKeyIsRefused, ChangeIsReal
    <3> QED BY <3>1, <3>2
  <2> QED BY <2>2, <2>4, <2>5, <2>6, <2>7, <2>8
<1>6. CASE DialFails
  <2>1. Ends("failed", NoKey) /\ UNCHANGED <<offers, known>>
    BY <1>6 DEF DialFails
  <2>2. dial' \in Dials /\ dial'.pc = "failed" /\ dial'.pc # "shake"
    <3>1. "failed" \in Outcome /\ NoKey \in Key \cup {NoKey}
      BY DEF Outcome
    <3> QED BY <2>1, <3>1, EndsIs
  <2> QED BY <1>2, <1>3, <2>1, <2>2
<1>7. CASE World
  BY <1>2, <1>7, WorldKeeps
<1>8. ASSUME NEW accept \in BOOLEAN, Attempt({}, accept), UNCHANGED <<offers, known>>
      PROVE  HostInv' /\ DifferingKeyIsRefused /\ ChangeIsReal
  <2>1. /\ dial' \in Dials /\ dial'.pc = "shake" /\ dial'.read = known /\ dial'.pinned = {}
    BY <1>1, <1>8, AttemptIs
  <2>2. HostInv'
    BY <1>1, <1>8, <2>1 DEF HostInv, HostTypeOK, DialIsCurrent
  <2> QED BY <1>2, <2>1, <2>2
<1>9. CASE dial' = NoDial /\ UNCHANGED <<offers, known>>
  BY <1>2, <1>3, <1>9, NoDialIs
<1>10. CASE Authenticated
  <2>1. dial.pc = "auth" /\ Ends("up", dial.key) /\ UNCHANGED <<offers, known>>
    BY <1>10 DEF Authenticated
  <2>2. dial' \in Dials /\ dial'.pc = "up" /\ dial'.pc # "shake"
    <3>1. "up" \in Outcome /\ dial.key \in Key \cup {NoKey}
      BY <1>1 DEF Outcome, Dials
    <3> QED BY <2>1, <3>1, EndsIs
  <2> QED BY <1>2, <1>3, <2>1, <2>2
<1> QED BY <1>4, <1>5, <1>6, <1>7, <1>8, <1>9, <1>10 DEF HostMoves

-----------------------------------------------------------------------------
(* The system.                                                             *)

LEMMA Moves ==
  ASSUME PairingInv, [Next]_vars
  PROVE  StoreMoves /\ HostMoves
<1>1. inbox # NoRequest => inbox.tok \in born
  BY DEF PairingInv, RequestIsReal
<1>2. Relay \in Proc /\ Cmd \subseteq Proc
  BY DEF Proc
<1>3. CASE UNCHANGED vars
  BY <1>3 DEF vars, StoreMoves, HostMoves
<1>4. CASE Grant
  BY <1>1, <1>4 DEF Grant, Take, StoreMoves, HostMoves
<1>5. CASE Refuse \/ Limited \/ Hello
  BY <1>5 DEF Refuse, Limited, Hello, StoreMoves, HostMoves
<1>6. CASE Answers \/ Fails
  BY <1>2, <1>6 DEF Answers, Fails, StoreMoves, HostMoves
<1>7. CASE Submit \/ Approve
  BY <1>7 DEF Submit, Approve, StoreMoves, HostMoves
<1>8. CASE Dialing
  BY <1>8 DEF Dialing, StoreMoves, HostMoves
<1>9. CASE Stops \/ \E t \in Tok : Post(t)
  BY <1>9 DEF Stops, Post, StoreMoves, HostMoves
<1>10. CASE GiveUp
  BY <1>10 DEF GiveUp, StoreMoves, HostMoves
<1>11. CASE StoreSteps
  BY <1>2, <1>11 DEF StoreSteps, Admin, Saving, StoreMoves, HostMoves
<1>12. CASE Around
  BY <1>12 DEF Around, StoreMoves, HostMoves
<1> QED BY <1>3, <1>4, <1>5, <1>6, <1>7, <1>8, <1>9, <1>10, <1>11, <1>12
        DEF Next, RelaySteps, AgentSteps

LEMMA RequestIs ==
  /\ NoRequest \in Requests /\ NoRequest.tok = None /\ NoRequest.live = FALSE
  /\ \A t \in Tok : LET r == [tok |-> t, live |-> TRUE]
                   IN r \in Requests /\ r.tok = t /\ t # None
BY StoreAssumption DEF NoRequest, Requests

(* A request that is given up is the same, but nobody waits for it.        *)
LEMMA GivenUpIs ==
  ASSUME NEW r \in Requests, r.tok = None => r = NoRequest
  PROVE  LET n == [r EXCEPT !.live = FALSE]
         IN /\ n \in Requests /\ n.tok = r.tok /\ n.live = FALSE
            /\ n.tok = None => n = NoRequest
<1>1. CASE r = NoRequest
  <2> DEFINE S == [tok : {None}, live : {FALSE}]
  <2>1. \A x \in S : x = NoRequest
    <3> TAKE x \in S
    <3>1. x.tok = None /\ x.live = FALSE
      OBVIOUS
    <3>2. x = [tok |-> x.tok, live |-> x.live]
      OBVIOUS
    <3> HIDE DEF S
    <3> QED BY <3>1, <3>2 DEF NoRequest
  <2>2. NoRequest \in S /\ \A x \in S : [x EXCEPT !.live = FALSE] \in S
    BY DEF NoRequest
  <2> HIDE DEF S
  <2>3. [NoRequest EXCEPT !.live = FALSE] = NoRequest
    BY <2>1, <2>2
  <2> QED BY <1>1, <2>3, RequestIs
<1>2. CASE r # NoRequest
  <2>1. r \in [tok : Tok, live : BOOLEAN] /\ r.tok # None
    BY <1>2 DEF Requests
  <2> DEFINE n == [r EXCEPT !.live = FALSE]
  <2>2. n \in [tok : Tok, live : BOOLEAN] /\ n.tok = r.tok /\ n.live = FALSE
    BY <2>1
  <2> QED BY <2>1, <2>2 DEF Requests
<1> QED BY <1>1, <1>2

AgentTypeOK == /\ ask \in {"idle", "asked", "dial", "wait"}
               /\ inbox \in Requests /\ serving \in BOOLEAN /\ identity \in Id \cup {None}
               /\ serving \/ inbox.live => ask = "wait"

LEMMA BornGrows ==
  ASSUME StoreMoves
  PROVE  born \subseteq born'
BY DEF StoreMoves, storeVars, Looks, Exchange, Mint, Revoke, OpenTmp, Fill, Rename, Saved,
       SaveFails, Killed, Started

LEMMA AnsweredIs ==
  ASSUME StoreInv, Saved(Relay)
  PROVE  /\ op[Relay].id \in Given(mem[Relay]) /\ file' = file /\ clash' = clash
         /\ ~clash => op[Relay].id \in Given(Opened')
<1>1. op[Relay] # NoOp /\ op[Relay].pc = "stamp" /\ file' = file /\ clash' = clash /\ Relay \in Proc
  BY NoOpIs DEF Saved, Proc
<1>2. op[Relay].id \in Given(mem[Relay])
  BY <1>1 DEF StoreInv, OpsAreReal, Busy
<1>3. ASSUME ~clash PROVE op[Relay].id \in Given(Opened')
  <2>1. file = mem[Relay] /\ mem[Relay] \in Content
    BY <1>1, <1>3 DEF StoreInv, Alone, SaveShows, Busy, StoreTypeOK
  <2>2. Opened' = mem[Relay]
    BY <1>1, <2>1, ContentIs DEF Opened
  <2> QED BY <1>2, <2>2
<1> QED BY <1>1, <1>2, <1>3

LEMMA AgentKeeps ==
  ASSUME PairingInv, [Next]_vars
  PROVE  AgentTypeOK' /\ RequestIsReal'
<1> DEFINE Goal == AgentTypeOK' /\ RequestIsReal'
<1>1. /\ ask \in {"idle", "asked", "dial", "wait"}
      /\ inbox \in Requests /\ serving \in BOOLEAN /\ identity \in Id \cup {None}
      /\ serving \/ inbox.live => ask = "wait"
      /\ inbox.tok \in born \cup {None} /\ (inbox.tok = None => inbox = NoRequest)
      /\ ~(serving /\ inbox.live)
      /\ inbox.live \in BOOLEAN
  BY RequestIs DEF PairingInv, TypeOK, RequestIsReal, Requests
<1>2. born \subseteq born'
  BY Moves, BornGrows
<1>3. CASE UNCHANGED agentVars
  BY <1>1, <1>2, <1>3 DEF AgentTypeOK, RequestIsReal, agentVars
<1>4. CASE /\ ask # "wait" /\ ask' \in {"idle", "asked", "dial", "wait"}
           /\ UNCHANGED <<inbox, serving, identity>>
  BY <1>1, <1>2, <1>4 DEF AgentTypeOK, RequestIsReal
<1>5. CASE Submit \/ Approve \/ Stops
  BY <1>4, <1>5 DEF Submit, Approve, Stops
<1>6. CASE \/ UNCHANGED vars \/ Hello \/ Dialing \/ StoreSteps
           \/ Around
  BY <1>3, <1>6 DEF vars, Hello, Dialing, StoreSteps, Around
<1>7. ASSUME NEW t \in Tok, Post(t) PROVE Goal
  <2>1. /\ t \in born /\ inbox' = [tok |-> t, live |-> TRUE] /\ ask = "dial" /\ ask' = "wait"
        /\ serving' = serving /\ identity' = identity
    BY <1>7 DEF Post
  <2>2. inbox' \in Requests /\ inbox'.tok = t /\ t # None
    BY <2>1, RequestIs
  <2>3. ~serving
    BY <1>1, <2>1
  <2> QED BY <1>1, <1>2, <2>1, <2>2, <2>3 DEF AgentTypeOK, RequestIsReal
<1>8. CASE GiveUp
  <2>1. /\ ask' = "idle" /\ inbox' = [inbox EXCEPT !.live = FALSE]
        /\ serving' = FALSE /\ identity' = identity
    BY <1>8 DEF GiveUp
  <2>2. /\ inbox' \in Requests /\ inbox'.tok = inbox.tok /\ inbox'.live = FALSE
        /\ inbox'.tok = None => inbox' = NoRequest
    BY <1>1, <2>1, GivenUpIs
  <2> QED BY <1>1, <1>2, <2>1, <2>2 DEF AgentTypeOK, RequestIsReal
<1>9. CASE Grant
  <2>1. /\ inbox' = NoRequest /\ serving' = inbox.live /\ ask' = ask /\ identity' = identity
    BY <1>9 DEF Grant, Take
  <2> QED BY <1>1, <2>1, RequestIs DEF AgentTypeOK, RequestIsReal
<1>10. CASE Refuse \/ Limited
  <2>1. /\ inbox' = NoRequest /\ serving' = serving /\ identity' = identity
        /\ ask' = IF inbox.live THEN "idle" ELSE ask
    BY <1>10 DEF Refuse, Limited, Take, Refused
  <2> QED BY <1>1, <2>1, RequestIs DEF AgentTypeOK, RequestIsReal
<1>11. CASE Answers \/ Fails
  <2>1. /\ inbox' = inbox /\ serving' = FALSE /\ ask' = IF serving THEN "idle" ELSE ask
    BY <1>11 DEF Answers, Fails
  <2>2. identity' \in Id \cup {None}
    <3>1. CASE Answers
      <4>1. op[Relay].id \in Id
        BY <3>1, AnsweredIs DEF Answers, PairingInv, Given
      <4> QED BY <1>1, <3>1, <4>1 DEF Answers
    <3>2. CASE Fails
      BY <1>1, <3>2 DEF Fails
    <3> QED BY <1>11, <3>1, <3>2
  <2> QED BY <1>1, <1>2, <2>1, <2>2 DEF AgentTypeOK, RequestIsReal
<1> QED BY <1>5, <1>6, <1>7, <1>8, <1>9, <1>10, <1>11 DEF Next, RelaySteps, AgentSteps

LEMMA IssuedIs ==
  ASSUME StoreMoves
  PROVE  \/ issued' = issued
         \/ Saved(Relay) /\ issued' = issued \cup {op[Relay].id}
BY DEF StoreMoves, storeVars, Looks, Exchange, Mint, Revoke, Operates, OpenTmp, Fill, Rename, Saved,
       SaveFails, Killed, Started

LEMMA IssuedKeeps ==
  ASSUME PairingInv, [Next]_vars
  PROVE  IssuedIsStored'
<1> SUFFICES ASSUME ~clash', NEW i \in issued' PROVE i \in Given(Opened')
  BY DEF IssuedIsStored, Given
<1>1. StoreInv /\ StoreMoves /\ IssuedIsStored
  BY Moves DEF PairingInv
<1>2. CASE i \in issued
  <2>1. ~clash
    BY <1>1 DEF StoreMoves, storeVars, Looks, Exchange, Mint, Revoke, Operates, OpenTmp, Fill,
                Rename, Saved, SaveFails, Killed, Started
  <2>2. i \in Given(Opened)
    BY <1>1, <1>2, <2>1 DEF IssuedIsStored
  <2> QED BY <1>1, <2>2, GivenStays
<1>3. CASE i \notin issued
  <2>1. Saved(Relay) /\ i = op[Relay].id
    BY <1>1, <1>3, IssuedIs
  <2> QED BY <1>1, <2>1, AnsweredIs
<1> QED BY <1>2, <1>3

LEMMA IdentityKeeps ==
  ASSUME PairingInv, [Next]_vars
  PROVE  IdentityIsIssued'
<1>1. issued \subseteq issued'
  BY Moves, IssuedIs
<1>2. CASE identity' = identity
  BY <1>1, <1>2 DEF PairingInv, IdentityIsIssued
<1>3. CASE identity' # identity
  <2>1. Answers /\ Saved(Relay) /\ identity' = op[Relay].id
    BY <1>3 DEF Next, RelaySteps, AgentSteps, StoreSteps, Grant, Refuse, Limited, Answers, Fails,
                Hello, Submit, Approve, Dialing, Stops, GiveUp, Post, Around, agentVars, vars
  <2>2. op[Relay].id \in issued'
    BY <2>1 DEF Saved
  <2> QED BY <2>1, <2>2 DEF IdentityIsIssued
<1> QED BY <1>2, <1>3

LEMMA PairingNext == PairingInv /\ [Next]_vars => PairingInv'
<1> SUFFICES ASSUME PairingInv, [Next]_vars PROVE PairingInv'
  OBVIOUS
<1>1. StoreInv'
  BY Moves, StoreKeeps DEF PairingInv
<1>2. HostInv
  BY DEF PairingInv, TypeOK, HostInv
<1>3. HostTypeOK' /\ DialIsCurrent'
  BY <1>2, Moves, HostKeeps DEF HostInv
<1>4. TypeOK'
  BY <1>1, <1>3, AgentKeeps DEF AgentTypeOK, TypeOK, StoreInv
<1> QED BY <1>1, <1>3, <1>4, AgentKeeps, IssuedKeeps, IdentityKeeps DEF PairingInv

LEMMA PairingInit == Init => PairingInv
<1> SUFFICES ASSUME Init PROVE PairingInv
  OBVIOUS
<1>1. StoreTypeOK
  <2>1. mem \in [Proc -> Content] /\ op \in [Proc -> Ops] /\ origin \in [Id -> born \cup {None}]
    BY ContentIs, NoOpIs DEF Init, StoreInit
  <2> QED BY <2>1 DEF Init, StoreInit, StoreTypeOK
<1>2. CopiesAreSpent
  <2>1. \A d \in Copies : d = Empty
    BY DEF Init, StoreInit, Copies
  <2> QED BY <2>1, ContentIs DEF CopiesAreSpent, IsSpent
<1>3. OpsAreReal /\ OneBusy /\ SaveShows
  BY DEF Init, StoreInit, OpsAreReal, OneBusy, SaveShows, Busy
<1>4. Opened = Empty
  BY DEF Init, StoreInit, Opened
<1>5. NothingIsLost /\ RevokedIsStored /\ file # Torn
  BY <1>4, ContentIs DEF Init, StoreInit, NothingIsLost, RevokedIsStored, Busy, Carries
<1>6. StoreInv
  BY <1>1, <1>2, <1>3, <1>5 DEF StoreInv, Alone
<1>7. HostTypeOK /\ DialIsCurrent
  BY NoDialIs, HostKeysAssumption DEF Init, HostInit, HostTypeOK, DialIsCurrent
<1>8. TypeOK /\ RequestIsReal /\ IssuedIsStored /\ IdentityIsIssued
  BY <1>1, <1>7, RequestIs DEF Init, StoreInit, TypeOK, RequestIsReal, IssuedIsStored,
                               IdentityIsIssued
<1> QED BY <1>6, <1>7, <1>8 DEF PairingInv

(* The invariant holds: besides what is said below, a copy of the store    *)
(* carries every agent and every revocation that is in the file, and an    *)
(* operation under way shows in the files, while none overlap.             *)
THEOREM PairingInvHolds == Spec => []PairingInv
BY PairingInit, PairingNext, PTL DEF Spec

(* Every variable stays within its type, and the relay's pair handler      *)
(* answers an agent that waits, never one that has given up (serve.go).    *)
THEOREM PairingTypes == Spec => []TypeOK
<1>1. PairingInv => TypeOK
  BY DEF PairingInv
<1> QED BY <1>1, PairingInvHolds, PTL

(* A pairing token is single use (auth.go:163): for any number of commands *)
(* and tokens, the relay never answers a token with two identities, as     *)
(* long as no operations overlap and none is saved while the relay starts: *)
(* every identity it answered is in the file, and a copy has one identity  *)
(* for a token at most.                                                    *)
THEOREM TokensAreSpentOnce == Spec => []TokenIsSpentOnce
<1>1. PairingInv => TokenIsSpentOnce
  <2> SUFFICES ASSUME PairingInv, ~clash, NEW i \in issued, NEW j \in issued,
                      origin[i] = origin[j]
               PROVE  i = j
    BY DEF TokenIsSpentOnce
  <2>1. i \in Given(Opened) /\ j \in Given(Opened)
    BY DEF PairingInv, IssuedIsStored
  <2>2. IsSpent(Opened)
    BY OpenedIs DEF PairingInv, StoreInv, Alone
  <2> QED BY <2>1, <2>2 DEF IsSpent
<1> QED BY <1>1, PairingInvHolds, PTL

(* Whatever save fails and whichever process ends, the relay's file can be *)
(* parsed, knows the identity the agent keeps, and has every revocation    *)
(* that was reported, as long as no operations overlap (auth.go:6, 47-51)  *)
(* and none is saved while the relay starts.                               *)
THEOREM StoreStaysSound == Spec => []StoreIsSound
<1>1. PairingInv => StoreIsSound
  <2> SUFFICES ASSUME PairingInv PROVE StoreIsSound
    OBVIOUS
  <2>1. FileIsReadable
    BY DEF PairingInv, StoreInv, Alone, FileIsReadable
  <2>2. IdentityIsKnown
    <3> SUFFICES ASSUME ~clash, identity # None PROVE file.agent[identity] # "none"
      BY DEF IdentityIsKnown
    <3>1. identity \in Given(Opened) /\ identity \notin Given(Empty)
      BY ContentIs DEF PairingInv, IssuedIsStored, IdentityIsIssued
    <3>2. Opened = file
      BY <3>1 DEF Opened
    <3> QED BY <3>1, <3>2 DEF Given
  <2>3. RevokedIsRefused
    <3> SUFFICES ASSUME ~clash, NEW i \in confirmed PROVE Loaded.agent[i] # "live"
      BY DEF RevokedIsRefused, Verifies
    <3>1. Opened.agent[i] = "revoked" /\ i \in Id
      BY DEF PairingInv, StoreInv, Alone, RevokedIsStored, StoreTypeOK
    <3>2. Carries(Loaded)
      BY LoadedIs DEF PairingInv
    <3> QED BY <3>1, <3>2 DEF Carries, Given
  <2> QED BY <2>1, <2>2, <2>3 DEF StoreIsSound
<1> QED BY <1>1, PairingInvHolds, PTL

(* What a dial decides about the server's key is right (sshtun.go:57,      *)
(* 158): a key that differs from the one on file is never accepted, and a  *)
(* changed key is reported only when one has changed.                      *)
THEOREM VerdictsAreRight == Spec => VerdictIsRight
<1>1. PairingInv /\ [Next]_vars => [DifferingKeyIsRefused /\ ChangeIsReal]_hostVars
  <2> SUFFICES ASSUME PairingInv, [Next]_vars PROVE DifferingKeyIsRefused /\ ChangeIsReal
    OBVIOUS
  <2>1. HostInv /\ HostMoves
    BY Moves DEF PairingInv, TypeOK, HostInv
  <2> QED BY <2>1, HostKeeps
<1> QED BY <1>1, PairingInvHolds, PTL DEF Spec, VerdictIsRight
=============================================================================
