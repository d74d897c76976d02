---------------------------- MODULE RegistryProofs ----------------------------
(* Proofs about Registry for any hardware, names, ports and bounds.          *)
EXTENDS Registry, TLAPS

USE RegistryAssumption, ValuesAssumption

-----------------------------------------------------------------------------
(* The records.  Every known device keeps its record, and new records are  *)
(* distinct from all others.                                               *)

Typed == /\ hw \in [Unit -> Path \cup {None}]
         /\ seen \subseteq Key /\ early \subseteq Key /\ returns \in [Key -> 0..MaxPlugs]
         /\ snap \in (SUBSET Key) \cup {None} /\ {up, unsaved} \subseteq BOOLEAN
         /\ cfg \in [Key -> DeviceRecord \cup {None}]
         /\ disk \in [Key -> DeviceRecord \cup {None}]
         /\ devices \in [Key -> DeviceState \cup {None}]

Repeats == \A k \in Key : devices[k] # None => devices[k].rec = cfg[k]

(* An agent that runs knows the devices of the file, under their UUIDs.    *)
Keeps == up => \A k \in Keys(disk) : cfg[k] # None /\ cfg[k].uuid = disk[k].uuid

Stopped == ~up => snap = None /\ devices = Nothing /\ cfg = Nothing

NamesInv == Typed /\ Repeats /\ Keeps /\ Stopped /\ NamesAreUnique /\ NothingIsUnsaved

LEMMA Fingerprints == \A u \in Unit, p \in Path : FingerprintOf(u, p) \in Key
BY DEF FingerprintOf, Key

LEMMA PresentType ==
  ASSUME hw \in [Unit -> Path \cup {None}] PROVE Present \in SUBSET Key
BY Fingerprints DEF Present

LEMMA NothingType ==
  /\ \A X : Nothing \in [Key -> X \cup {None}]
  /\ Keys(Nothing) = {} /\ \A k \in Key : Nothing[k] = None
BY DEF Nothing, Keys

(* What going through the ports in found does to the config.                *)
LEMMA SightedCfg ==
  ASSUME NamesInv, NEW found \in SUBSET Key, NEW r \in NewRecords(found \ Known), Sighted(found, r)
  PROVE  /\ cfg' \in [Key -> DeviceRecord \cup {None}]
         /\ \A k \in Key : /\ cfg[k] # None => cfg'[k] = cfg[k]
                           /\ k \in found => cfg'[k] # None
                           /\ k \in found \ Known => cfg'[k] = r[k]
         /\ Distinct(cfg')
         /\ found \subseteq Known => cfg' = cfg
<1>0. cfg \in [Key -> DeviceRecord \cup {None}] /\ Distinct(cfg)
  BY DEF NamesInv, Typed, NamesAreUnique
<1>1. cfg' = [k \in Key |-> IF k \in found \ Known THEN r[k] ELSE cfg[k]]
  BY DEF Sighted
<1>2. /\ \A k \in found \ Known : /\ r[k] \in DeviceRecord /\ r[k] # None
                                  /\ r[k].uuid \notin {x.uuid : x \in Records}
                                  /\ r[k].word \notin WordIDTaken
      /\ \A k, l \in found \ Known : k # l => r[k].uuid # r[l].uuid /\ r[k].word # r[l].word
  <2>1. r \in [found \ Known -> [uuid : Uuid \ {x.uuid : x \in Records}, word : Word \ WordIDTaken]]
    BY DEF NewRecords
  <2>2. \A k, l \in found \ Known : k # l => r[k].uuid # r[l].uuid /\ r[k].word # r[l].word
    BY DEF NewRecords
  <2>3. \A k \in found \ Known : r[k] \in [uuid : Uuid \ {x.uuid : x \in Records}, word : Word \ WordIDTaken]
    BY <2>1
  <2>4. \A k \in found \ Known : r[k] \in DeviceRecord
    BY <2>3 DEF DeviceRecord
  <2> QED BY <2>2, <2>3, <2>4
<1>3. \A k \in Key : k \in Known <=> cfg[k] # None
  BY DEF Known, Keys
<1>4. \A k \in Key : cfg[k] # None => /\ cfg[k].uuid \in {x.uuid : x \in Records}
                                      /\ cfg[k].word \in WordIDTaken
  BY DEF Records, WordIDTaken, Keys
<1>5. \A k \in Key : cfg'[k] \in DeviceRecord \cup {None}
  BY <1>0, <1>1, <1>2
<1>6. cfg' \in [Key -> DeviceRecord \cup {None}]
  BY <1>1, <1>5
<1>7. \A k \in Key : /\ cfg[k] # None => cfg'[k] = cfg[k]
                     /\ k \in found => cfg'[k] # None
                     /\ k \in found \ Known => cfg'[k] = r[k]
  BY <1>1, <1>2, <1>3
<1>8. Distinct(cfg')
  <2> SUFFICES ASSUME NEW k \in Key, NEW l \in Key, cfg'[k] # None, cfg'[l] # None, k # l
               PROVE  cfg'[k].word # cfg'[l].word /\ cfg'[k].uuid # cfg'[l].uuid
    BY DEF Distinct, Keys
  <2>1. CASE k \in found \ Known /\ l \in found \ Known
    BY <1>2, <1>7, <2>1
  <2>2. CASE k \in found \ Known /\ l \notin found \ Known
    BY <1>1, <1>2, <1>4, <1>7, <2>2
  <2>3. CASE k \notin found \ Known /\ l \in found \ Known
    BY <1>1, <1>2, <1>4, <1>7, <2>3
  <2>4. CASE k \notin found \ Known /\ l \notin found \ Known
    BY <1>0, <1>1, <2>4 DEF Distinct, Keys
  <2> QED BY <2>1, <2>2, <2>3, <2>4
<1>9. found \subseteq Known => cfg' = cfg
  BY <1>0, <1>1
<1> QED BY <1>6, <1>7, <1>8, <1>9

(* ... and to the file, whether it is saved or not.                        *)
LEMMA Saves ==
  ASSUME NamesInv, up' = up, up,
         cfg' \in [Key -> DeviceRecord \cup {None}], Distinct(cfg'),
         \A k \in Key : cfg[k] # None => cfg'[k] # None /\ cfg'[k].uuid = cfg[k].uuid,
         \/ Save
         \/ UNCHANGED disk /\ unsaved' = TRUE
         \/ UNCHANGED <<disk, unsaved>> /\ cfg' = cfg
  PROVE  /\ disk' \in [Key -> DeviceRecord \cup {None}]
         /\ Keeps' /\ NamesAreUnique' /\ NothingIsUnsaved'
<1>1. \/ disk' = cfg' /\ ~unsaved'
      \/ disk' = disk /\ (unsaved' \/ (cfg' = cfg /\ unsaved' = unsaved))
  BY DEF Save
<1>2. disk' \in [Key -> DeviceRecord \cup {None}]
  BY <1>1 DEF NamesInv, Typed
<1>3. NamesAreUnique'
  BY <1>1 DEF NamesInv, NamesAreUnique, Distinct, Keys
<1>4. Keeps'
  BY <1>1 DEF NamesInv, Keeps, Keys
<1>5. NothingIsUnsaved'
  BY <1>1 DEF NamesInv, NothingIsUnsaved
<1> QED BY <1>2, <1>3, <1>4, <1>5

LEMMA RecordType ==
  ASSUME NEW x \in DeviceState
  PROVE  /\ x.rec \in DeviceRecord /\ x.online \in BOOLEAN /\ x.resets \in 0..(MaxPlugs + 1)
         /\ x # None
         /\ [x EXCEPT !.online = FALSE] \in DeviceState
         /\ [x EXCEPT !.online = FALSE].rec = x.rec
         /\ [x EXCEPT !.online = FALSE].resets = x.resets
         /\ ~[x EXCEPT !.online = FALSE].online
BY DEF DeviceState

(* Of the registry.  The reset count of a device that was found, and whose  *)
(* count is within the bound.                                              *)
LEMMA StateType ==
  ASSUME NamesInv, NEW found \in SUBSET Key, NEW r \in NewRecords(found \ Known), Sighted(found, r),
         NEW k \in found, ResetsOf(k) \in 0..(MaxPlugs + 1)
  PROVE  /\ StateOf(k, r) \in DeviceState
         /\ StateOf(k, r).rec = cfg'[k] /\ StateOf(k, r).online
         /\ StateOf(k, r).resets = ResetsOf(k)
<1>1. cfg'[k] \in DeviceRecord /\ (IF k \in Known THEN cfg[k] ELSE r[k]) = cfg'[k]
  <2>1. /\ cfg' \in [Key -> DeviceRecord \cup {None}] /\ cfg'[k] # None
        /\ cfg[k] # None => cfg'[k] = cfg[k]
        /\ k \in found \ Known => cfg'[k] = r[k]
    BY SightedCfg
  <2>2. k \in Known <=> cfg[k] # None
    BY DEF Known, Keys
  <2> QED BY <2>1, <2>2
<1>2. StateOf(k, r) = [rec |-> cfg'[k], online |-> TRUE, resets |-> ResetsOf(k)]
  BY <1>1 DEF StateOf
<1> HIDE DEF StateOf
<1> QED BY <1>1, <1>2 DEF DeviceState

-----------------------------------------------------------------------------
(* The counts.  The sighting of a device that was touched before it was    *)
(* seen may count as well.  A USB device that is offline but present, or   *)
(* in the snapshot under way, has returned since its last count, or was    *)
(* touched early; so has one that a stale snapshot lacks.                  *)

Bound(k) == returns[k] + (IF k \in early THEN 1 ELSE 0)
Returned(k) == devices[k].resets + 1 <= Bound(k)

ResetsInv ==
  \A k \in Key : devices[k] # None =>
    /\ ~IsUsb(k) => devices[k].resets = 0
    /\ IsUsb(k) =>
         /\ k \in seen \/ (k \in early /\ ~devices[k].online /\ devices[k].resets = 0)
         /\ devices[k].resets <= Bound(k)
         /\ ~devices[k].online /\ k \in Present => Returned(k)
         /\ snap # None /\ ~devices[k].online /\ k \in snap => Returned(k)
         /\ snap # None /\ k \notin snap /\ k \in Present => Returned(k)

LEMMA PlugTypes ==
  ASSUME Typed
  PROVE  /\ MaxPlugs \in Nat
         /\ \A k \in Key : /\ returns[k] \in Nat /\ returns[k] <= MaxPlugs
                           /\ Bound(k) \in Nat /\ Bound(k) <= MaxPlugs + 1
                           /\ devices[k] # None => devices[k] \in DeviceState /\ devices[k].resets \in Nat
<1>1. MaxPlugs \in Nat
  OBVIOUS
<1>2. \A k \in Key : returns[k] \in 0..MaxPlugs
  BY DEF Typed
<1>3. ASSUME NEW k \in Key, devices[k] # None
      PROVE  devices[k] \in DeviceState /\ devices[k].resets \in Nat
  <2>1. devices[k] \in DeviceState
    BY <1>3 DEF Typed
  <2>2. devices[k].resets \in 0..(MaxPlugs + 1)
    BY <2>1, RecordType
  <2> QED BY <1>1, <2>1, <2>2
<1> QED BY <1>1, <1>2, <1>3 DEF Bound

(* A count that goes up is that of a return, or of an early touch.         *)
LEMMA CountedReturns ==
  ASSUME NamesInv, ResetsInv, snap # None, NEW k \in snap
  PROVE  /\ ResetsOf(k) \in 0..(MaxPlugs + 1)
         /\ ~IsUsb(k) => ResetsOf(k) = 0
         /\ IsUsb(k) => ResetsOf(k) <= Bound(k)
<1>1. k \in Key
  BY DEF NamesInv, Typed
<1>2. CASE devices[k] = None
  BY <1>1, <1>2, PlugTypes DEF NamesInv, ResetsOf
<1>3. CASE devices[k] # None /\ ~devices[k].online /\ IsUsb(k)
  BY <1>1, <1>3, PlugTypes DEF NamesInv, ResetsOf, ResetsInv, Returned
<1>4. CASE devices[k] # None /\ ~(~devices[k].online /\ IsUsb(k))
  BY <1>1, <1>4, PlugTypes DEF NamesInv, ResetsOf, ResetsInv
<1> QED BY <1>2, <1>3, <1>4

-----------------------------------------------------------------------------
RegistryInv == NamesInv /\ ResetsInv

LEMMA RegistryInit == Init => RegistryInv
<1> SUFFICES ASSUME Init PROVE RegistryInv
  OBVIOUS
<1>1. NamesInv
  <2>1. Typed
    <3>1. hw \in [Unit -> Path \cup {None}] /\ returns \in [Key -> 0..MaxPlugs]
          /\ seen = {} /\ early = {}
      BY DEF Init
    <3>2. snap \in (SUBSET Key) \cup {None} /\ {up, unsaved} \subseteq BOOLEAN
      BY DEF Init
    <3> QED BY <3>1, <3>2, NothingType DEF Init, Typed
  <2>2. Repeats /\ Keeps /\ Stopped
    BY NothingType DEF Init, Repeats, Keeps, Stopped
  <2>3. NamesAreUnique /\ NothingIsUnsaved
    BY NothingType DEF Init, NamesAreUnique, Distinct, NothingIsUnsaved
  <2> QED BY <2>1, <2>2, <2>3 DEF NamesInv
<1>2. ResetsInv
  BY NothingType DEF Init, ResetsInv
<1> QED BY <1>1, <1>2 DEF RegistryInv

LEMMA HardwareStep ==
  ASSUME RegistryInv,
         \/ \E u \in Unit : Unplug(u) \/ \E p \in Path : Plug(u, p)
         \/ Enumerate
  PROVE  RegistryInv'
<1>0. Typed /\ NamesInv /\ ResetsInv
  BY DEF RegistryInv, NamesInv
<1>1. ASSUME NEW u \in Unit, Unplug(u) PROVE RegistryInv'
  <2>1. UNCHANGED <<snap, up, cfg, devices, disk, unsaved, seen, returns, early>>
        /\ hw' \in [Unit -> Path \cup {None}]
        /\ \A v \in Unit : hw'[v] # None => hw'[v] = hw[v]
    BY <1>0, <1>1 DEF Unplug, Typed, sightings
  <2>2. Present' \subseteq Present
    BY <2>1 DEF Present
  <2>3. NamesInv'
    BY <1>0, <2>1 DEF NamesInv, Typed, Repeats, Keeps, Stopped, NamesAreUnique, Distinct, Keys,
                      NothingIsUnsaved
  <2>4. ResetsInv'
    BY <1>0, <2>1, <2>2 DEF ResetsInv, Returned, Bound
  <2> QED BY <2>3, <2>4 DEF RegistryInv
<1>2. ASSUME NEW u \in Unit, NEW p \in Path, Plug(u, p) PROVE RegistryInv'
  <2> DEFINE f == FingerprintOf(u, p)
  <2>0. f \in Key
    BY Fingerprints
  <2>1. /\ UNCHANGED <<snap, up, cfg, devices, disk, unsaved, seen, early>>
        /\ hw' = [hw EXCEPT ![u] = p] /\ hw' \in [Unit -> Path \cup {None}]
        /\ \/ f \notin seen /\ returns' = returns
           \/ f \in seen /\ returns[f] < MaxPlugs /\ returns' = [returns EXCEPT ![f] = returns[f] + 1]
    BY <1>0, <1>2 DEF Plug, Typed
  <2>2. Present' \subseteq Present \cup {f}
    BY <1>0, <2>1 DEF Present, Typed
  <2> HIDE DEF f
  <2>3. returns' \in [Key -> 0..MaxPlugs]
    BY <1>0, <2>0, <2>1, PlugTypes DEF Typed
  <2>4. NamesInv'
    BY <1>0, <2>1, <2>3 DEF NamesInv, Typed, Repeats, Keeps, Stopped, NamesAreUnique, Distinct,
                            Keys, NothingIsUnsaved
  <2>5. /\ f \in seen => returns'[f] = returns[f] + 1
        /\ f \notin seen => returns'[f] = returns[f]
        /\ \A k \in Key \ {f} : returns'[k] = returns[k]
    BY <1>0, <2>0, <2>1 DEF Typed
  <2>6. ResetsInv'
    <3>1. \A k \in Key : /\ devices[k] # None => devices[k].resets \in Nat
                        /\ returns[k] \in Nat
      BY <1>0, PlugTypes
    <3>2. ASSUME NEW k \in Key
          PROVE  /\ Bound(k)' = returns'[k] + (IF k \in early THEN 1 ELSE 0)
                 /\ Returned(k)' <=> devices[k].resets + 1 <= Bound(k)'
      BY <2>1 DEF Bound, Returned
    <3>3. ASSUME NEW k \in Key, devices[k] # None, IsUsb(k)
          PROVE  /\ devices[k].resets <= Bound(k)'
                 /\ Returned(k) => Returned(k)'
                 /\ k = f => Returned(k)'
      <4>1. Bound(k)' \in Nat /\ Bound(k) \in Nat /\ Bound(k) <= Bound(k)'
        BY <2>5, <3>1, <3>2 DEF Bound
      <4>2. devices[k].resets <= Bound(k) /\ devices[k].resets \in Nat
        BY <1>0, <3>1, <3>3 DEF ResetsInv
      <4>3. k = f /\ f \in seen => Bound(k)' = Bound(k) + 1
        BY <2>5, <3>1, <3>2 DEF Bound
      <4>4. k \notin seen => devices[k].resets = 0 /\ Bound(k)' >= 1
        BY <1>0, <2>5, <3>1, <3>2, <3>3 DEF ResetsInv
      <4> QED BY <3>2, <4>1, <4>2, <4>3, <4>4 DEF Returned
    <3> QED BY <1>0, <2>0, <2>1, <2>2, <3>3 DEF ResetsInv
  <2> QED BY <2>4, <2>6 DEF RegistryInv
<1>3. CASE Enumerate
  <2>1. /\ UNCHANGED <<hw, up, cfg, devices, disk, unsaved, seen, returns, early>>
        /\ up /\ snap = None /\ snap' = Present /\ Present \in SUBSET Key
    BY <1>0, <1>3, PresentType DEF Enumerate, Typed, sightings
  <2>2. NamesInv'
    BY <1>0, <2>1 DEF NamesInv, Typed, Repeats, Keeps, Stopped, NamesAreUnique, Distinct,
                      Keys, NothingIsUnsaved
  <2>3. Present' = Present
    BY <2>1 DEF Present
  <2>4. ResetsInv'
    BY <1>0, <2>1, <2>3 DEF ResetsInv, Returned, Bound
  <2> QED BY <2>2, <2>4 DEF RegistryInv
<1> QED BY <1>1, <1>2, <1>3

(* The process starts and stops: what it has read is what was saved.       *)
LEMMA ProcessStep ==
  ASSUME RegistryInv, Start \/ Stop
  PROVE  RegistryInv'
<1>0. NamesInv /\ ResetsInv
  BY DEF RegistryInv
<1>1. CASE Start
  <2>1. /\ up' = TRUE /\ cfg' = disk /\ devices' = Nothing /\ unsaved' = FALSE
        /\ UNCHANGED <<hw, snap, disk, seen, returns, early>>
    BY <1>1 DEF Start, sightings
  <2>2. Typed' /\ Repeats' /\ Stopped'
    BY <1>0, <2>1, NothingType DEF NamesInv, Typed, Repeats, Stopped
  <2>3. Keeps' /\ NamesAreUnique' /\ NothingIsUnsaved'
    BY <1>0, <2>1 DEF NamesInv, NamesAreUnique, Distinct, Keys, Keeps, NothingIsUnsaved
  <2>4. ResetsInv'
    BY <2>1, NothingType DEF ResetsInv
  <2> QED BY <2>2, <2>3, <2>4 DEF RegistryInv, NamesInv
<1>2. CASE Stop
  <2>1. /\ up' = FALSE /\ snap' = None /\ cfg' = Nothing /\ devices' = Nothing
        /\ seen' = {} /\ early' = {} /\ returns' \in [Key -> 0..MaxPlugs]
        /\ UNCHANGED <<hw, disk, unsaved>>
    BY <1>2 DEF Stop
  <2>2. Typed' /\ Repeats' /\ Stopped'
    BY <1>0, <2>1, NothingType DEF NamesInv, Typed, Repeats, Stopped
  <2>3. Keeps' /\ NamesAreUnique' /\ NothingIsUnsaved'
    BY <1>0, <2>1, NothingType DEF NamesInv, NamesAreUnique, Distinct, Keys, Keeps, NothingIsUnsaved
  <2>4. ResetsInv'
    BY <2>1, NothingType DEF ResetsInv
  <2> QED BY <2>2, <2>3, <2>4 DEF RegistryInv, NamesInv
<1> QED BY <1>1, <1>2

(* The critical section of Rescan, to its end or until it finds no name:   *)
(* found are the ports it has gone through.                                 *)
LEMMA RescanStep ==
  ASSUME RegistryInv, Rescan \/ RescanStops
  PROVE  RegistryInv'
<1>0. NamesInv /\ ResetsInv /\ Typed /\ snap # None /\ up
  BY DEF RegistryInv, NamesInv, Rescan, RescanStops, Stopped
<1>1. snap \in SUBSET Key
  BY <1>0 DEF Typed
<1>2. PICK found \in SUBSET snap :
        \E r \in NewRecords(found \ Known) :
          /\ Sighted(found, r)
          /\ devices' \in [Key -> {StateOf(k, r) : k \in found} \cup {Absent(k) : k \in Key}
                                  \cup {devices[k] : k \in Key}]
          /\ \A k \in found : devices'[k] = StateOf(k, r)
          /\ \A k \in Key \ found : \/ devices'[k] = devices[k]
                                    \/ k \notin snap /\ devices'[k] = Absent(k)
          /\ \/ Save
             \/ UNCHANGED disk /\ unsaved' = TRUE
             \/ UNCHANGED <<disk, unsaved>> /\ found \subseteq Known
  <2>1. CASE Rescan
    <3>1. PICK r \in NewRecords(snap \ Known) :
            /\ Sighted(snap, r)
            /\ devices' = [k \in Key |-> IF k \in snap THEN StateOf(k, r) ELSE Absent(k)]
      BY <2>1 DEF Rescan
    <3>2. \/ Save
          \/ UNCHANGED <<disk, unsaved>> /\ snap \subseteq Known
      BY <2>1 DEF Rescan
    <3> HIDE DEF StateOf, Absent, NewRecords, Sighted
    <3> QED BY <1>1, <3>1, <3>2
  <2>2. CASE RescanStops
    <3>1. PICK found \in SUBSET snap :
            /\ \E r \in NewRecords(found \ Known) :
                 /\ Sighted(found, r)
                 /\ devices' = [k \in Key |-> IF k \in found THEN StateOf(k, r) ELSE devices[k]]
            /\ unsaved' = (unsaved \/ ~(found \subseteq Known))
      BY <2>2 DEF RescanStops
    <3>2. UNCHANGED disk /\ unsaved \in BOOLEAN
      BY <1>0, <2>2 DEF RescanStops, Typed
    <3>3. PICK r \in NewRecords(found \ Known) :
            /\ Sighted(found, r)
            /\ devices' = [k \in Key |-> IF k \in found THEN StateOf(k, r) ELSE devices[k]]
      BY <3>1
    <3>4. /\ devices' \in [Key -> {StateOf(k, r) : k \in found} \cup {Absent(k) : k \in Key}
                                 \cup {devices[k] : k \in Key}]
          /\ \A k \in found : devices'[k] = StateOf(k, r)
          /\ \A k \in Key \ found : devices'[k] = devices[k]
      BY <1>1, <3>3
    <3>5. unsaved' = TRUE \/ (unsaved' = unsaved /\ found \subseteq Known)
      BY <3>1, <3>2
    <3>6. found \in SUBSET snap
      BY <3>1
    <3>7. \/ UNCHANGED disk /\ unsaved' = TRUE
          \/ UNCHANGED <<disk, unsaved>> /\ found \subseteq Known
      BY <3>2, <3>5
    <3> HIDE DEF StateOf, Absent, NewRecords, Sighted
    <3> QED BY <3>3, <3>4, <3>6, <3>7
  <2> QED BY <2>1, <2>2
<1>3. PICK r \in NewRecords(found \ Known) :
        /\ Sighted(found, r)
        /\ devices' \in [Key -> {StateOf(k, r) : k \in found} \cup {Absent(k) : k \in Key}
                                \cup {devices[k] : k \in Key}]
        /\ \A k \in found : devices'[k] = StateOf(k, r)
        /\ \A k \in Key \ found : \/ devices'[k] = devices[k]
                                  \/ k \notin snap /\ devices'[k] = Absent(k)
  BY <1>2
<1>4. found \in SUBSET Key
  BY <1>1
<1>5. /\ cfg' \in [Key -> DeviceRecord \cup {None}]
      /\ \A k \in Key : cfg[k] # None => cfg'[k] = cfg[k]
      /\ Distinct(cfg')
      /\ found \subseteq Known => cfg' = cfg
  BY <1>0, <1>3, <1>4, SightedCfg
<1>6. /\ UNCHANGED <<hw, up, returns, early>> /\ snap' = None
      /\ seen' = seen \cup {k \in found : IsUsb(k)}
  BY <1>3 DEF Rescan, RescanStops, Sighted
<1>7. ASSUME NEW k \in found
      PROVE  /\ devices'[k] \in DeviceState /\ devices'[k].rec = cfg'[k] /\ devices'[k].online
             /\ ~IsUsb(k) => devices'[k].resets = 0
             /\ IsUsb(k) => devices'[k].resets <= Bound(k)
  <2>1. /\ ResetsOf(k) \in 0..(MaxPlugs + 1) /\ (~IsUsb(k) => ResetsOf(k) = 0)
        /\ IsUsb(k) => ResetsOf(k) <= Bound(k)
    BY <1>0, CountedReturns
  <2>2. /\ StateOf(k, r) \in DeviceState /\ StateOf(k, r).rec = cfg'[k] /\ StateOf(k, r).online
        /\ StateOf(k, r).resets = ResetsOf(k)
    BY <1>0, <1>3, <1>4, <2>1, StateType
  <2> QED BY <1>3, <2>1, <2>2
<1>8. ASSUME NEW k \in Key \ found
      PROVE  /\ devices'[k] = None <=> devices[k] = None
             /\ devices[k] # None =>
                  /\ devices'[k] \in DeviceState /\ devices'[k].rec = devices[k].rec
                  /\ devices'[k].resets = devices[k].resets
                  /\ devices[k] \in DeviceState
                  /\ ~devices'[k].online => ~devices[k].online \/ k \notin snap
                  /\ ~devices[k].online => ~devices'[k].online
  <2>1. devices[k] # None => devices[k] \in DeviceState
    BY <1>0 DEF Typed
  <2>2. CASE devices'[k] = devices[k]
    BY <2>1, <2>2
  <2>3. CASE k \notin snap /\ devices'[k] = Absent(k)
    BY <2>1, <2>3, RecordType DEF Absent
  <2> QED BY <1>3, <2>2, <2>3
<1>9. devices' \in [Key -> DeviceState \cup {None}]
  <2>1. \A k \in Key : devices'[k] \in DeviceState \cup {None}
    BY <1>7, <1>8
  <2>2. DOMAIN devices' = Key /\ devices' = [k \in Key |-> devices'[k]]
    BY <1>3
  <2> QED BY <2>1, <2>2
<1>10. Repeats'
  <2> SUFFICES ASSUME NEW k \in Key, devices'[k] # None PROVE devices'[k].rec = cfg'[k]
    BY DEF Repeats
  <2>1. CASE k \in found
    BY <1>7, <2>1
  <2>2. CASE k \notin found
    <3>1. devices[k] # None /\ devices'[k].rec = devices[k].rec /\ devices[k] \in DeviceState
      BY <1>8, <2>2
    <3>2. devices[k].rec = cfg[k] /\ cfg[k] # None
      BY <1>0, <3>1, RecordType DEF NamesInv, Repeats
    <3> QED BY <1>5, <3>1, <3>2
  <2> QED BY <2>1, <2>2
<1>11. /\ disk' \in [Key -> DeviceRecord \cup {None}]
       /\ Keeps' /\ NamesAreUnique' /\ NothingIsUnsaved'
  BY <1>0, <1>2, <1>5, <1>6, Saves
<1>12. unsaved' \in BOOLEAN
  BY <1>0, <1>2 DEF Save, Typed
<1>13. Typed' /\ Stopped'
  BY <1>0, <1>4, <1>5, <1>6, <1>9, <1>11, <1>12 DEF Typed, Stopped
<1>14. ResetsInv'
  <2> SUFFICES ASSUME NEW k \in Key, devices'[k] # None
               PROVE  /\ ~IsUsb(k) => devices'[k].resets = 0
                      /\ IsUsb(k) =>
                           /\ \/ k \in seen'
                              \/ k \in early /\ ~devices'[k].online /\ devices'[k].resets = 0
                           /\ devices'[k].resets <= Bound(k)
                           /\ ~devices'[k].online /\ k \in Present => devices'[k].resets + 1 <= Bound(k)
    BY <1>6 DEF ResetsInv, Returned, Present, Bound
  <2>1. CASE k \in found
    BY <1>6, <1>7, <2>1
  <2>2. CASE k \notin found
    BY <1>0, <1>6, <1>8, <2>2 DEF ResetsInv, Returned
  <2> QED BY <2>1, <2>2
<1> QED BY <1>10, <1>11, <1>13, <1>14 DEF RegistryInv, NamesInv

(* A call of the operator changes at most the record of one device, which  *)
(* gets an entry if it has none.                                           *)
LEMMA EntryType ==
  ASSUME RegistryInv, NEW k \in Known
  PROVE  /\ k \in Key /\ cfg[k] \in DeviceRecord /\ cfg[k] # None
         /\ Entry(k) \in DeviceState /\ Entry(k).rec = cfg[k]
         /\ devices[k] = None => ~Entry(k).online /\ Entry(k).resets = 0
<1>1. k \in Key /\ cfg[k] \in DeviceRecord /\ cfg[k] # None
  BY DEF Known, Keys, RegistryInv, NamesInv, Typed
<1>2. CASE devices[k] = None
  <2>1. Entry(k) = [rec |-> cfg[k], online |-> FALSE, resets |-> 0]
    BY <1>2 DEF Entry
  <2> QED BY <1>1, <1>2, <2>1 DEF DeviceState
<1>3. CASE devices[k] # None
  BY <1>1, <1>3 DEF Entry, RegistryInv, NamesInv, Typed, Repeats
<1> QED BY <1>1, <1>2, <1>3

LEMMA TouchStep ==
  ASSUME RegistryInv, NEW k \in Key, NEW x \in DeviceState, Touch(k, x),
         x.online = Entry(k).online, x.resets = Entry(k).resets, x.rec = cfg'[k],
         cfg' \in [Key -> DeviceRecord \cup {None}], Distinct(cfg'),
         \A l \in Key \ {k} : cfg'[l] = cfg[l],
         cfg'[k] # None, cfg'[k].uuid = cfg[k].uuid,
         Save \/ (UNCHANGED <<disk, unsaved>> /\ cfg' = cfg)
  PROVE  RegistryInv'
<1>0. NamesInv /\ ResetsInv /\ Typed
  BY DEF RegistryInv, NamesInv
<1>1. /\ up /\ k \in Known /\ UNCHANGED <<hw, snap, up, seen, returns>>
      /\ devices' = [devices EXCEPT ![k] = x]
      /\ early' = IF devices[k] = None /\ IsUsb(k) THEN early \cup {k} ELSE early
  BY DEF Touch
<1>2. /\ devices' \in [Key -> DeviceState \cup {None}] /\ devices'[k] = x
      /\ \A l \in Key \ {k} : devices'[l] = devices[l]
  BY <1>0, <1>1 DEF Typed
<1>3. /\ disk' \in [Key -> DeviceRecord \cup {None}]
      /\ Keeps' /\ NamesAreUnique' /\ NothingIsUnsaved'
  BY <1>0, <1>1, Saves
<1>4. Typed' /\ Stopped'
  <2>1. unsaved' \in BOOLEAN
    BY <1>0 DEF Save, Typed
  <2> QED BY <1>0, <1>1, <1>2, <1>3, <2>1 DEF Typed, Stopped
<1>5. Repeats'
  BY <1>0, <1>2 DEF NamesInv, Repeats
<1>6. ResetsInv'
  <2>1. Present' = Present
    BY <1>1 DEF Present
  <2>2. ASSUME NEW l \in Key, devices[l] # None
        PROVE  /\ devices'[l].online = devices[l].online /\ devices'[l].resets = devices[l].resets
               /\ Bound(l)' = Bound(l)
    <3>1. l \in early' <=> l \in early
      BY <1>1, <2>2
    <3> QED BY <1>1, <1>2, <2>2, <3>1 DEF Entry, Bound
  <2>3. ASSUME NEW l \in Key, devices'[l] # None, devices[l] = None
        PROVE  /\ ~devices'[l].online /\ devices'[l].resets = 0
               /\ IsUsb(l) => l \in early' /\ Bound(l)' >= 1
    <3>1. l = k /\ ~devices'[l].online /\ devices'[l].resets = 0
      BY <1>1, <1>2, <2>3, EntryType
    <3>2. IsUsb(l) => l \in early'
      BY <1>1, <2>3, <3>1
    <3>3. returns'[l] \in Nat
      BY <1>0, <1>1, PlugTypes
    <3> QED BY <3>1, <3>2, <3>3 DEF Bound
  <2> SUFFICES ASSUME NEW l \in Key, devices'[l] # None
               PROVE  /\ ~IsUsb(l) => devices'[l].resets = 0
                      /\ IsUsb(l) =>
                           /\ \/ l \in seen
                              \/ l \in early' /\ ~devices'[l].online /\ devices'[l].resets = 0
                           /\ devices'[l].resets <= Bound(l)'
                           /\ ~devices'[l].online /\ l \in Present => devices'[l].resets + 1 <= Bound(l)'
                           /\ snap # None /\ ~devices'[l].online /\ l \in snap
                                => devices'[l].resets + 1 <= Bound(l)'
                           /\ snap # None /\ l \notin snap /\ l \in Present
                                => devices'[l].resets + 1 <= Bound(l)'
    BY <1>1, <2>1 DEF ResetsInv, Returned
  <2>4. CASE devices[l] # None
    <3>1. l \in early => l \in early'
      BY <1>1
    <3> QED BY <1>0, <2>2, <2>4, <3>1 DEF ResetsInv, Returned
  <2>5. CASE devices[l] = None
    <3>1. Typed'
      BY <1>4
    <3>2. Bound(l)' \in Nat
      BY <1>0, <1>1, PlugTypes DEF Bound
    <3> QED BY <2>3, <2>5, <3>2
  <2> QED BY <2>4, <2>5
<1> QED BY <1>3, <1>4, <1>5, <1>6 DEF RegistryInv, NamesInv

(* A new name for a device, which is not that of any other.                *)
LEMMA RenameStep ==
  ASSUME RegistryInv, NEW k \in Key, NEW w \in Word, RegenerateName(k, w)
  PROVE  RegistryInv'
<1> DEFINE e == Entry(k)
           c == [cfg[k] EXCEPT !.word = w]
           x == [e EXCEPT !.rec = c]
<1>0. Typed /\ Distinct(cfg)
  BY DEF RegistryInv, NamesInv, NamesAreUnique
<1>1. /\ w \notin WordIDTaken /\ Save /\ k \in Known
      /\ Touch(k, [Entry(k) EXCEPT !.rec.word = w])
      /\ cfg' = [cfg EXCEPT ![k] = c]
  BY DEF RegenerateName, Touch
<1>2. /\ e \in DeviceState /\ e.rec = cfg[k] /\ cfg[k] \in DeviceRecord /\ cfg[k] # None
  BY <1>1, EntryType
<1>3. c \in DeviceRecord /\ c.word = w /\ c.uuid = cfg[k].uuid /\ c # None
  BY <1>2 DEF DeviceRecord
<1>4. [Entry(k) EXCEPT !.rec.word = w] = x
  <2>1. [Entry(k) EXCEPT !.rec.word = w] = [e EXCEPT !.rec = [e.rec EXCEPT !.word = w]]
    OBVIOUS
  <2> QED BY <1>2, <2>1
<1> HIDE DEF c, e
<1>5. /\ x \in DeviceState /\ x.rec = c
      /\ x.resets = e.resets /\ x.online = e.online
  BY <1>2, <1>3 DEF DeviceState
<1>6. /\ cfg' \in [Key -> DeviceRecord \cup {None}] /\ cfg'[k] = c
      /\ \A l \in Key \ {k} : cfg'[l] = cfg[l]
  BY <1>0, <1>1, <1>3 DEF Typed
<1>7. Distinct(cfg')
  <2>1. \A l \in Key : cfg[l] # None => cfg[l].word # w
    BY <1>1 DEF WordIDTaken, Keys
  <2> QED BY <1>0, <1>2, <1>3, <1>6, <2>1 DEF Distinct, Keys
<1>8. Touch(k, x) /\ x.online = Entry(k).online /\ x.resets = Entry(k).resets
  BY <1>1, <1>4, <1>5 DEF e
<1> HIDE DEF x
<1> QED BY <1>1, <1>3, <1>5, <1>6, <1>7, <1>8, TouchStep

(* A name that could not be found, or another setting.                     *)
LEMMA SettingStep ==
  ASSUME RegistryInv, NEW k \in Key, RegenerateFails(k) \/ ChangeSetting(k)
  PROVE  RegistryInv'
<1>1. /\ Touch(k, Entry(k)) /\ cfg' = cfg
      /\ Save \/ (UNCHANGED <<disk, unsaved>> /\ cfg' = cfg)
  BY DEF RegenerateFails, ChangeSetting
<1>2. /\ Entry(k) \in DeviceState /\ Entry(k).rec = cfg'[k] /\ cfg'[k] # None
  BY <1>1, EntryType DEF Touch
<1>3. cfg' \in [Key -> DeviceRecord \cup {None}] /\ Distinct(cfg')
  BY <1>1 DEF RegistryInv, NamesInv, NamesAreUnique, Typed
<1> QED BY <1>1, <1>2, <1>3, TouchStep

LEMMA RegistryStep == RegistryInv /\ [Next]_vars => RegistryInv'
<1> SUFFICES ASSUME RegistryInv, [Next]_vars PROVE RegistryInv'
  OBVIOUS
<1>0. NamesInv /\ ResetsInv /\ Typed
  BY DEF RegistryInv, NamesInv
<1>1. CASE SetRelayIdentity
  <2>1. up /\ Save /\ UNCHANGED <<hw, snap, up, cfg, devices, seen, returns, early>>
    BY <1>1 DEF SetRelayIdentity, sightings
  <2>2. /\ disk' \in [Key -> DeviceRecord \cup {None}]
        /\ Keeps' /\ NamesAreUnique' /\ NothingIsUnsaved'
    BY <1>0, <2>1, Saves DEF Typed, NamesInv, NamesAreUnique
  <2>3. Typed' /\ Stopped' /\ Repeats'
    BY <1>0, <2>1, <2>2 DEF Save, Typed, NamesInv, Stopped, Repeats
  <2>4. ResetsInv'
    BY <1>0, <2>1 DEF ResetsInv, Returned, Bound, Present
  <2> QED BY <2>2, <2>3, <2>4 DEF RegistryInv, NamesInv
<1>2. CASE UNCHANGED vars
  <2>1. UNCHANGED <<hw, snap, up, cfg, devices, disk, unsaved, seen, returns, early>>
    BY <1>2 DEF vars, sightings
  <2>2. NamesInv'
    BY <1>0, <2>1 DEF NamesInv, Typed, Repeats, Keeps, Stopped, NamesAreUnique, Distinct, Keys,
                      NothingIsUnsaved
  <2>3. ResetsInv'
    BY <1>0, <2>1 DEF ResetsInv, Returned, Bound, Present
  <2> QED BY <2>2, <2>3 DEF RegistryInv
<1>3. ASSUME \/ \E u \in Unit : Unplug(u) \/ \E p \in Path : Plug(u, p)
             \/ Enumerate
      PROVE  RegistryInv'
  BY <1>3, HardwareStep
<1>4. ASSUME NEW k \in Key, NEW w \in Word, RegenerateName(k, w) PROVE RegistryInv'
  BY <1>4, RenameStep
<1>5. ASSUME NEW k \in Key, RegenerateFails(k) \/ ChangeSetting(k) PROVE RegistryInv'
  BY <1>5, SettingStep
<1> QED BY <1>1, <1>2, <1>3, <1>4, <1>5, ProcessStep, RescanStep DEF Next

-----------------------------------------------------------------------------
(* The theorems.                                                           *)

(* The invariant holds of every behaviour, restarts and failures included. *)
THEOREM RegistryInvariant == Spec => []RegistryInv
BY RegistryInit, RegistryStep, PTL DEF Spec

(* Every variable stays within its type, and the registry repeats the      *)
(* records of the config.                                                  *)
THEOREM RegistryTypes == Spec => []TypeOK
<1>1. RegistryInv => TypeOK
  BY DEF RegistryInv, NamesInv, Typed, Repeats, Keys, TypeOK
<1> QED BY <1>1, RegistryInvariant, PTL

(* Handles and UUIDs are unique, in memory and in the file.                *)
THEOREM NamesStayUnique == Spec => []NamesAreUnique
<1>1. RegistryInv => NamesAreUnique
  BY DEF RegistryInv, NamesInv
<1> QED BY <1>1, RegistryInvariant, PTL

(* A reset that is counted is a return of a device that was seen before,   *)
(* except for one count of a device the operator changed before it was     *)
(* seen.                                                                   *)
THEOREM CountsAreReturns == Spec => []ResetsAreReturns
<1>1. RegistryInv => ResetsAreReturns
  <2> SUFFICES ASSUME RegistryInv, NEW k \in Key, devices[k] # None
               PROVE  devices[k].resets <= IF IsUsb(k) THEN Bound(k) ELSE 0
    BY DEF ResetsAreReturns, Keys, Bound
  <2>1. CASE IsUsb(k)
    BY <2>1 DEF RegistryInv, ResetsInv
  <2>2. CASE ~IsUsb(k)
    BY <2>2 DEF RegistryInv, ResetsInv
  <2> QED BY <2>1, <2>2
<1> QED BY <1>1, RegistryInvariant, PTL

(* Unless a save failed, the file has what the agent has.                  *)
THEOREM FileIsCurrent == Spec => []NothingIsUnsaved
<1>1. RegistryInv => NothingIsUnsaved
  BY DEF RegistryInv, NamesInv
<1> QED BY <1>1, RegistryInvariant, PTL

(* A device that the file knows keeps its UUID for ever: a save writes     *)
(* what was read from the file and never changed since.                    *)
THEOREM UuidsAreForever == Spec => UuidIsForever
<1>1. RegistryInv /\ RegistryInv' /\ [Next]_vars =>
        [\A k \in Keys(disk) : disk'[k] # None /\ disk'[k].uuid = disk[k].uuid]_vars
  <2> SUFFICES ASSUME RegistryInv, RegistryInv', [Next]_vars, NEW k \in Keys(disk)
               PROVE  disk'[k] # None /\ disk'[k].uuid = disk[k].uuid
    OBVIOUS
  <2>1. k \in Key /\ disk[k] # None
    BY DEF Keys
  <2>2. CASE disk' = disk
    BY <2>1, <2>2
  <2>3. CASE disk' = cfg' /\ up /\ up'
    <3>1. cfg[k] # None /\ cfg[k].uuid = disk[k].uuid
      BY <2>3 DEF RegistryInv, NamesInv, Keeps
    <3>2. cfg'[k] # None /\ cfg'[k].uuid = cfg[k].uuid
      <4>1. CASE Rescan
        <5>1. PICK r \in NewRecords(snap \ Known) : Sighted(snap, r)
          BY <4>1 DEF Rescan
        <5>2. snap \in SUBSET Key
          BY <4>1 DEF Rescan, RegistryInv, NamesInv, Typed
        <5> QED BY <2>1, <3>1, <5>1, <5>2, SightedCfg DEF RegistryInv
      <4>2. CASE RescanStops
        <5>1. PICK found \in SUBSET snap : \E r \in NewRecords(found \ Known) : Sighted(found, r)
          BY <4>2 DEF RescanStops
        <5>2. found \in SUBSET Key
          BY <4>2 DEF RescanStops, RegistryInv, NamesInv, Typed
        <5> QED BY <2>1, <3>1, <5>1, <5>2, SightedCfg DEF RegistryInv
      <4>3. ASSUME NEW l \in Key, NEW w \in Word, RegenerateName(l, w) PROVE <3>2
        <5>1. /\ cfg' = [cfg EXCEPT ![l] = [cfg[l] EXCEPT !.word = w]]
              /\ cfg \in [Key -> DeviceRecord \cup {None}]
          BY <4>3 DEF RegenerateName, RegistryInv, NamesInv, Typed
        <5>2. [cfg[k] EXCEPT !.word = w] \in DeviceRecord /\ [cfg[k] EXCEPT !.word = w].uuid = cfg[k].uuid
          BY <2>1, <3>1, <5>1 DEF DeviceRecord
        <5>3. cfg'[k] = cfg[k] \/ cfg'[k] = [cfg[k] EXCEPT !.word = w]
          BY <2>1, <5>1
        <5> QED BY <3>1, <5>2, <5>3
      <4>4. CASE UNCHANGED cfg
        BY <3>1, <4>4
      <4> QED BY <2>3, <4>1, <4>2, <4>3, <4>4
              DEF Next, Unplug, Plug, Start, Stop, Enumerate, RegenerateFails, ChangeSetting, SetRelayIdentity, vars
    <3> QED BY <2>3, <3>1, <3>2
  <2>4. (disk' = disk) \/ (disk' = cfg' /\ up /\ up')
    BY DEF Next, Unplug, Plug, Start, Stop, Enumerate, Rescan, RescanStops, RegenerateFails,
           ChangeSetting, SetRelayIdentity, RegenerateName, Touch, Save, RegistryInv, NamesInv, Stopped, vars
  <2> QED BY <2>2, <2>3, <2>4
<1> QED BY <1>1, RegistryInvariant, PTL DEF Spec, UuidIsForever
=============================================================================
