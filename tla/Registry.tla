------------------------------- MODULE Registry -------------------------------
(***************************************************************************)
(* The names of the agent's devices: the registry that Core.Rescan         *)
(* reconciles with the hardware (internal/agent/core.go), the fingerprints *)
(* by which hardware is recognised (internal/serialdev/serialdev.go), the  *)
(* generated word-ids (internal/names/names.go) and the config file that   *)
(* keeps them over restarts (internal/config/config.go).                   *)
(*                                                                         *)
(* Everything a Core method does under Core.mu is one action, the save     *)
(* included.  Sessions, claims and monitors are in AgentCore.  A record's  *)
(* settings are left out, but the saves of all of the config that changing *)
(* them brings about are not.                                              *)
(***************************************************************************)
EXTENDS Naturals

CONSTANTS
  Unit,      \* pieces of hardware
  Serial,    \* those that report a USB serial number, each its own
  Usb,       \* those that are attached by USB
  Path,      \* names the system gives to ports
  Word,      \* handles names.Generate may find
  Uuid,      \* UUIDs; one that is neither in use nor in the file stands for a new one
  MaxPlugs,  \* bound on how often a device returns while an agent runs
  None       \* absence

ASSUME RegistryAssumption == /\ Serial \subseteq Usb /\ Usb \subseteq Unit
                             /\ MaxPlugs \in Nat
                             /\ None \notin Unit \cup Path \cup Word \cup Uuid

(* fingerprintFor: a serial number identifies a unit wherever it is; other *)
(* units are recognised by their port.                                     *)
Key == ({"usb-sn"} \X Serial) \cup ({"usb", "port"} \X Path)
FingerprintOf(u, p) == IF u \in Serial THEN <<"usb-sn", u>>
                       ELSE IF u \in Usb THEN <<"usb", p>> ELSE <<"port", p>>
IsUsb(k) == k[1] \in {"usb-sn", "usb"}

VARIABLES
  hw,      \* the port each unit is at
  snap,    \* what enumerate returned to the Rescan that is under way
  up,      \* the agent runs
  cfg,     \* Config.Devices
  devices, \* Core.devices
  disk,    \* agent.json
  unsaved, \* history: a save or a naming has failed since the last save
  seen,    \* history: USB keys that a rescan of this run of the agent found present
  returns, \* history: how often a key that was seen has appeared again
  early    \* history: USB keys the operator changed before this run had seen them

sightings == <<seen, returns, early>>
vars == <<hw, snap, up, cfg, devices, disk, unsaved, sightings>>

DeviceRecord == [uuid : Uuid, word : Word]
DeviceState == [rec : DeviceRecord, online : BOOLEAN, resets : 0..(MaxPlugs + 1)]

ASSUME ValuesAssumption == /\ None \notin DeviceRecord \cup DeviceState
                           /\ \A K \in SUBSET Key : None # K

Nothing == [k \in Key |-> None]
Keys(f) == {k \in Key : f[k] # None}

Init == /\ hw = [u \in Unit |-> None]
        /\ snap = None /\ up = FALSE
        /\ cfg = Nothing /\ devices = Nothing /\ disk = Nothing
        /\ unsaved = FALSE
        /\ seen = {} /\ early = {} /\ returns = [k \in Key |-> 0]

-----------------------------------------------------------------------------
(* The hardware, and the process.                                          *)
Present == {FingerprintOf(u, hw[u]) : u \in {v \in Unit : hw[v] # None}}

Plug(u, p) ==
  LET k == FingerprintOf(u, p)
  IN /\ hw[u] = None /\ \A v \in Unit : hw[v] # p
     /\ hw' = [hw EXCEPT ![u] = p]
     /\ IF k \in seen
        THEN returns[k] < MaxPlugs /\ returns' = [returns EXCEPT ![k] = @ + 1]
        ELSE UNCHANGED returns
     /\ UNCHANGED <<snap, up, cfg, devices, disk, unsaved, seen, early>>

Unplug(u) == /\ hw[u] # None
             /\ hw' = [hw EXCEPT ![u] = None]
             /\ UNCHANGED <<snap, up, cfg, devices, disk, unsaved, sightings>>

(* Load: what was renamed into place last.                                 *)
Start == /\ ~up
         /\ up' = TRUE
         /\ cfg' = disk /\ devices' = Nothing
         /\ unsaved' = FALSE
         /\ UNCHANGED <<hw, snap, disk, sightings>>

Stop == /\ up
        /\ up' = FALSE
        /\ snap' = None /\ cfg' = Nothing /\ devices' = Nothing
        /\ seen' = {} /\ early' = {} /\ returns' = [k \in Key |-> 0]
        /\ UNCHANGED <<hw, disk, unsaved>>

-----------------------------------------------------------------------------
(* Save writes a temporary file and renames it: all of the config or       *)
(* nothing reaches the file.                                               *)
Save == \/ disk' = cfg' /\ unsaved' = FALSE
        \/ UNCHANGED disk /\ unsaved' = TRUE

(* Mutant: only devices that were seen since the start keep their names.   *)
TakenByDevices == {devices[k].rec.word : k \in Keys(devices)}

(* wordIDTakenLocked.                                                      *)
WordIDTaken == {cfg[k].word : k \in Keys(cfg)}

(* Mutant: devices of an earlier run are unknown.                          *)
KnownDevices == Keys(devices)

(* Rescan knows the devices of the config.                                 *)
Known == Keys(cfg)

(* The hardware is enumerated before the lock is taken.                    *)
Enumerate == /\ up /\ snap = None
             /\ snap' = Present
             /\ UNCHANGED <<hw, up, cfg, devices, disk, unsaved, sightings>>

Records == {cfg[k] : k \in Keys(cfg)} \cup {disk[k] : k \in Keys(disk)}

(* The records of new devices: fresh UUIDs, and handles that are free and  *)
(* differ from each other.                                                 *)
NewRecords(new) ==
  {r \in [new -> [uuid : Uuid \ {rec.uuid : rec \in Records}, word : Word \ WordIDTaken]] :
     \A k, l \in new : k # l => r[k].uuid # r[l].uuid /\ r[k].word # r[l].word}

(* Mutant: the first sighting counts.                                      *)
ResetsOfSighting(k) == IF devices[k] = None THEN (IF IsUsb(k) THEN 1 ELSE 0)
                       ELSE devices[k].resets

(* A USB device that was gone and is back has been reset.                  *)
ResetsOf(k) == IF devices[k] = None THEN 0
               ELSE IF ~devices[k].online /\ IsUsb(k) THEN devices[k].resets + 1
               ELSE devices[k].resets

(* The ports of found have been gone through.                              *)
Sighted(found, r) ==
  /\ cfg' = [k \in Key |-> IF k \in found \ Known THEN r[k] ELSE cfg[k]]
  /\ seen' = seen \cup {k \in found : IsUsb(k)}

StateOf(k, r) == [rec |-> IF k \in Known THEN cfg[k] ELSE r[k], online |-> TRUE, resets |-> ResetsOf(k)]

Absent(k) == IF devices[k] = None THEN None ELSE [devices[k] EXCEPT !.online = FALSE]

(* Mutant: new devices do not make the config dirty.                       *)
RescanClean ==
  /\ snap # None
  /\ \E r \in NewRecords(snap \ Known) :
       /\ Sighted(snap, r)
       /\ devices' = [k \in Key |-> IF k \in snap THEN StateOf(k, r) ELSE Absent(k)]
  /\ snap' = None
  /\ UNCHANGED <<disk, unsaved>>
  /\ UNCHANGED <<hw, up, returns, early>>

(* The critical section: devices that are new get a record, and those that *)
(* are not present go offline; the config is saved if it has new records.  *)
Rescan ==
  /\ snap # None
  /\ \E r \in NewRecords(snap \ Known) :
       /\ Sighted(snap, r)
       /\ devices' = [k \in Key |-> IF k \in snap THEN StateOf(k, r) ELSE Absent(k)]
  /\ IF snap \subseteq Known THEN UNCHANGED <<disk, unsaved>> ELSE Save
  /\ snap' = None
  /\ UNCHANGED <<hw, up, returns, early>>

(* names.Generate finds no handle, for a device that is met before others: *)
(* Rescan returns, and what it has named so far is not saved.              *)
RescanStops ==
  /\ snap # None
  /\ \E found \in SUBSET snap :
       /\ ~(snap \ Known \subseteq found)
       /\ \E r \in NewRecords(found \ Known) :
            /\ Sighted(found, r)
            /\ devices' = [k \in Key |-> IF k \in found THEN StateOf(k, r) ELSE devices[k]]
       /\ unsaved' = (unsaved \/ ~(found \subseteq Known))
  /\ snap' = None
  /\ UNCHANGED <<hw, up, disk, returns, early>>

-----------------------------------------------------------------------------
(* The operator.  A save that fails is reported, and not undone.           *)

(* byUUIDLocked: a device of the config that this run has not seen gets an *)
(* entry that says it is offline.                                          *)
Entry(k) == IF devices[k] = None THEN [rec |-> cfg[k], online |-> FALSE, resets |-> 0]
            ELSE devices[k]

Touch(k, entry) == /\ up /\ k \in Known
                   /\ devices' = [devices EXCEPT ![k] = entry]
                   /\ early' = IF devices[k] = None /\ IsUsb(k) THEN early \cup {k} ELSE early
                   /\ UNCHANGED <<hw, snap, up, seen, returns>>

RegenerateName(k, w) ==
  /\ w \notin WordIDTaken
  /\ Touch(k, [Entry(k) EXCEPT !.rec.word = w])
  /\ cfg' = [cfg EXCEPT ![k].word = w]
  /\ Save

(* names.Generate finds no handle.                                         *)
RegenerateFails(k) == Touch(k, Entry(k)) /\ UNCHANGED <<cfg, disk, unsaved>>

(* updateRec, for a setting of a device, saves all of the config, ...      *)
ChangeSetting(k) == Touch(k, Entry(k)) /\ UNCHANGED cfg /\ Save

(* ... and so does changing the identity the relay gave to the agent.      *)
SetRelayIdentity == /\ up
                    /\ UNCHANGED cfg /\ Save
                    /\ UNCHANGED <<hw, snap, up, devices, sightings>>

Next == \/ \E u \in Unit : Unplug(u) \/ \E p \in Path : Plug(u, p)
        \/ Start \/ Stop \/ Enumerate \/ Rescan \/ RescanStops \/ SetRelayIdentity
        \/ \E k \in Key : \/ RegenerateFails(k) \/ ChangeSetting(k)
                          \/ \E w \in Word : RegenerateName(k, w)

Spec == Init /\ [][Next]_vars

-----------------------------------------------------------------------------
(* Every variable stays within its type, and the registry repeats the      *)
(* config's records.                                                       *)
TypeOK == /\ hw \in [Unit -> Path \cup {None}]
          /\ seen \subseteq Key /\ early \subseteq Key /\ returns \in [Key -> 0..MaxPlugs]
          /\ snap \in (SUBSET Key) \cup {None} /\ {up, unsaved} \subseteq BOOLEAN
          /\ cfg \in [Key -> DeviceRecord \cup {None}]
          /\ disk \in [Key -> DeviceRecord \cup {None}]
          /\ devices \in [Key -> DeviceState \cup {None}]
          /\ \A k \in Keys(devices) : devices[k].rec = cfg[k]

(* Handles and UUIDs are unique (names.go:3-4), among the devices of the   *)
(* config, seen or not, and among those a restart will find.               *)
Distinct(f) == \A k, l \in Keys(f) :
                 k # l => f[k].word # f[l].word /\ f[k].uuid # f[l].uuid
NamesAreUnique == Distinct(cfg) /\ Distinct(disk)

(* A reset is a return: what is counted for a USB device did disappear and *)
(* appear again after this run had first seen it, and nothing is counted   *)
(* for others.  One count too many there is for a device the operator      *)
(* changed before it was seen: its first sighting follows an entry that    *)
(* says offline, and counts, against core_test.go:104-107.                 *)
ResetsAreReturns == \A k \in Keys(devices) :
  devices[k].resets <= IF IsUsb(k) THEN returns[k] + (IF k \in early THEN 1 ELSE 0) ELSE 0

(* As long as no save failed, a restart finds what the agent has now: no   *)
(* name the relay or the operator was shown is lost.                       *)
NothingIsUnsaved == up /\ ~unsaved => disk = cfg

(* A device that the file knows keeps its UUID for ever, over restarts,    *)
(* failed saves, renames and ports; the durable identity of names.go:5-6.  *)
UuidIsForever == [][\A k \in Keys(disk) : disk'[k] # None /\ disk'[k].uuid = disk[k].uuid]_vars
=============================================================================
