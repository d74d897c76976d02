------------------------------- MODULE Announce -------------------------------
(***************************************************************************)
(* How the relay learns which devices an agent exposes.  Every change of   *)
(* the core starts a goroutine (Core.changed, internal/agent/core.go) that *)
(* runs Tunnel.announce (internal/agent/tunnel.go); the relay replaces its *)
(* list by each announce it receives (internal/relay/hub.go).  The         *)
(* goroutine of a new connection announces once by itself.                 *)
(*                                                                         *)
(* Its names are its own, so that one module can be about it and the       *)
(* tunnel it sends through.                                                *)
(***************************************************************************)
EXTENDS Naturals, Sequences

CONSTANTS
  Dev,      \* devices of the config
  Go,       \* goroutines that may run announce at the same time
  Session,  \* the goroutine of Tunnel.session
  MaxWire   \* bound on the announces under way, an unbounded TCP buffer in the code

ASSUME AnnounceAssumption == /\ Session \notin Go
                             /\ MaxWire \in Nat \ {0}

VARIABLES
  exposed,  \* devices whose record says Exposed
  up,       \* TRUE while ctrl is set
  go,       \* what a goroutine that runs announce has read so far
  wire,     \* announces on their way over the control stream, in order
  listed,   \* the relay's list for this agent, empty while it is not connected
  shown     \* history: devices that were exposed at some time of the connection

announceVars == <<exposed, up, go, wire, listed, shown>>

Announcer == Go \cup {Session}

(* live: the ctrl that was read is the one of the current connection.      *)
NoAnnounce == [pc |-> "idle", live |-> FALSE, list |-> {}]
Announcing == [pc : {"look", "snap", "send"}, live : BOOLEAN, list : SUBSET Dev]

AnnounceInit == /\ exposed \in SUBSET Dev
                /\ up = FALSE
                /\ go = [g \in Announcer |-> NoAnnounce]
                /\ wire = <<>>
                /\ listed = {}
                /\ shown = {}

Goes(g, r) == go' = [go EXCEPT ![g] = r]
Start(g) == Goes(g, [NoAnnounce EXCEPT !.pc = "look"])

(* SetExposed: changed() starts the goroutine under the lock of the core.  *)
(* If the config cannot be saved the device is exposed, or hidden, in      *)
(* memory, and nothing is announced.                                       *)
Change(g, d, on) == /\ go[g] = NoAnnounce
                    /\ exposed' = IF on THEN exposed \cup {d} ELSE exposed \ {d}
                    /\ shown' = shown \cup exposed'
                    /\ Start(g) \/ UNCHANGED go
                    /\ UNCHANGED <<up, wire, listed>>

(* Mutant: a rescan that found nothing new reports nothing.                *)
ReportNothing(g) == /\ go[g] = NoAnnounce
                    /\ UNCHANGED announceVars

(* Every rescan reports a change, and so do opens, closes and monitors.    *)
Report(g) == /\ go[g] = NoAnnounce
             /\ Start(g)
             /\ UNCHANGED <<exposed, up, wire, listed, shown>>

(* announce reads ctrl and returns if there is none, ...                   *)
ReadCtrl(g) == /\ go[g].pc = "look"
               /\ Goes(g, IF up THEN [pc |-> "snap", live |-> TRUE, list |-> {}] ELSE NoAnnounce)
               /\ UNCHANGED <<exposed, up, wire, listed, shown>>

(* ... takes the list of exposed devices, ...                              *)
Snapshot(g) == /\ go[g].pc = "snap"
               /\ Goes(g, [go[g] EXCEPT !.pc = "send", !.list = exposed])
               /\ UNCHANGED <<exposed, up, wire, listed, shown>>

(* Mutant: the list goes out on whichever connection is up by now.         *)
SendAnywhere(g) == /\ go[g].pc = "send"
                   /\ up => Len(wire) < MaxWire
                   /\ wire' = IF up THEN Append(wire, go[g].list) ELSE wire
                   /\ Goes(g, NoAnnounce)
                   /\ UNCHANGED <<exposed, up, listed, shown>>

(* ... and sends it over the ctrl it read, which may be dead by now.       *)
Send(g) == /\ go[g].pc = "send"
           /\ go[g].live => Len(wire) < MaxWire
           /\ wire' = IF go[g].live THEN Append(wire, go[g].list) ELSE wire
           /\ Goes(g, NoAnnounce)
           /\ UNCHANGED <<exposed, up, listed, shown>>

(* The hub's control loop replaces the list.                               *)
Receive == /\ wire # <<>>
           /\ listed' = Head(wire)
           /\ wire' = Tail(wire)
           /\ UNCHANGED <<exposed, up, go, shown>>

(* ctrl is published and session announces; the hub begins with no device. *)
Connect == /\ ~up
           /\ go[Session] = NoAnnounce
           /\ up' = TRUE
           /\ listed' = {}
           /\ shown' = exposed
           /\ Start(Session)
           /\ UNCHANGED <<exposed, wire>>

(* The session ends, but not while its goroutine still announces.          *)
SessionEnds == /\ up
               /\ go[Session] = NoAnnounce
               /\ up' = FALSE
               /\ listed' = {}
               /\ wire' = <<>>
               /\ go' = [g \in Announcer |-> [go[g] EXCEPT !.live = FALSE]]
               /\ UNCHANGED <<exposed, shown>>

Announces(g) == ReadCtrl(g) \/ Snapshot(g) \/ Send(g)

AnnounceNext == \/ \E g \in Go : \/ Report(g)
                                 \/ \E d \in Dev, on \in BOOLEAN : Change(g, d, on)
                \/ \E g \in Announcer : Announces(g)
                \/ Receive \/ Connect \/ SessionEnds

(* Goroutines run, the network delivers, and the ticker of the main loop   *)
(* rescans, and so reports, again and again.                               *)
AnnounceFairness == /\ WF_announceVars(\E g \in Go : Report(g))
                    /\ \A g \in Announcer : WF_announceVars(Announces(g))
                    /\ WF_announceVars(Receive)

AnnounceSpec == AnnounceInit /\ [][AnnounceNext]_announceVars
FairAnnounceSpec == AnnounceSpec /\ AnnounceFairness

-----------------------------------------------------------------------------
(* Every variable stays within its type, and the relay lists no device of  *)
(* an agent that is not connected (hub.go:168-179).                        *)
AnnounceTypeOK == /\ exposed \subseteq Dev /\ shown \subseteq Dev
                  /\ up \in BOOLEAN
                  /\ go \in [Announcer -> Announcing \cup {NoAnnounce}]
                  /\ wire \in Seq(SUBSET Dev) /\ Len(wire) <= MaxWire
                  /\ listed \subseteq Dev
                  /\ ~up => listed = {} /\ wire = <<>>

(* The relay never learns about hidden devices (core.go:411-412): whatever *)
(* goroutines are late, it lists only what was exposed at some time during *)
(* the connection, so a device hidden before it connected stays unknown.   *)
HiddenStaysUnknown == listed \subseteq shown

(* Announces may overtake each other, but once the operator leaves the     *)
(* devices alone the relay's list becomes right, and stays right.          *)
ListHeals == \A S \in SUBSET Dev : <>[](up /\ exposed = S) => <>[](listed = S)
=============================================================================
