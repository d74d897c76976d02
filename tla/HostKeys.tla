------------------------------ MODULE HostKeys ------------------------------
(***************************************************************************)
(* How the agent trusts the SSH server in front of the relay: Dial, dial,  *)
(* algosFor, hostKeyCallback and appendKnownHost                           *)
(* (internal/sshtun/sshtun.go).  A server has one host key per algorithm;  *)
(* known_hosts usually records only the one that was negotiated first.     *)
(*                                                                         *)
(* One server and one dial at a time; credentials, addresses and the       *)
(* network are left out, but for the dials they make fail.                 *)
(***************************************************************************)
EXTENDS Naturals

CONSTANTS
  Algo,    \* host key algorithms
  MaxGen,  \* bound: keys are replaced until one is of generation MaxGen
  NoKey    \* no key was presented

ASSUME HostKeysAssumption == MaxGen \in Nat \ {0}

VARIABLES
  offers,  \* the generation of the server's key of each algorithm
  known,   \* the entries of known_hosts for this server
  dial     \* the dial in progress, or the outcome of the last one

hostVars == <<offers, known, dial>>

Key == [algo : Algo, gen : 1 .. MaxGen]
Offered(a) == [algo |-> a, gen |-> offers[a]]
Recorded == {k.algo : k \in known}

Outcome == {"up", "unknown", "changed", "failed"}
NoDial == [pc |-> "idle", read |-> {}, pinned |-> {}, accept |-> FALSE, key |-> NoKey]
Dials == [pc : {"idle", "shake", "auth"} \cup Outcome, read : SUBSET Key,
          pinned : SUBSET Algo, accept : BOOLEAN, key : Key \cup {NoKey}]

HostInit == /\ offers = [a \in Algo |-> 1]
            /\ known = {}
            /\ dial = NoDial

-----------------------------------------------------------------------------
(* One handshake begins: the callback reads known_hosts, and the           *)
(* algorithms may be pinned to a set that is not empty.                    *)
Attempt(pinned, accept) ==
  dial' = [pc |-> "shake", read |-> known, pinned |-> pinned, accept |-> accept,
           key |-> NoKey]

Ends(outcome, key) == dial' = [NoDial EXCEPT !.pc = outcome, !.key = key]

(* The callback accepts the key; authentication is still to come.          *)
Accepts(key) == dial' = [NoDial EXCEPT !.pc = "auth", !.key = key]

(* The algorithms the two sides may agree on.                              *)
Negotiable(a) == dial.pinned # {} => a \in dial.pinned

Trusted(a) == /\ Offered(a) \in dial.read
              /\ Accepts(Offered(a))
              /\ UNCHANGED <<offers, known>>

(* Keys are on file, but not this one: the first time Dial tries again     *)
(* with the algorithms on file, the second time it believes it.            *)
Mismatch(a) ==
  /\ dial.read # {} /\ Offered(a) \notin dial.read
  /\ IF dial.pinned = {} THEN Attempt({k.algo : k \in dial.read}, dial.accept)
                         ELSE Ends("changed", Offered(a))
  /\ UNCHANGED <<offers, known>>

(* Mutant: the approval is looked at before the keys on file are.          *)
UnfamiliarFirst(a) ==
  /\ Offered(a) \notin dial.read
  /\ \/ /\ ~dial.accept /\ dial.read = {}
        /\ Ends("unknown", Offered(a))
        /\ UNCHANGED known
     \/ /\ dial.accept
        /\ Accepts(Offered(a))
        /\ known' = known \cup {Offered(a)}
  /\ UNCHANGED offers

(* No key is on file: a question for the human, or, once it is approved,   *)
(* the first entry.                                                        *)
Unfamiliar(a) ==
  /\ dial.read = {}
  /\ \/ /\ ~dial.accept
        /\ Ends("unknown", Offered(a))
        /\ UNCHANGED known
     \/ /\ dial.accept
        /\ Accepts(Offered(a))
        /\ known' = known \cup {Offered(a)}
  /\ UNCHANGED offers

Handshake == /\ dial.pc = "shake"
             /\ \E a \in Algo : /\ Negotiable(a)
                                /\ Trusted(a) \/ Mismatch(a) \/ Unfamiliar(a)

(* The server takes the credentials.                                       *)
Authenticated == /\ dial.pc = "auth"
                 /\ Ends("up", dial.key)
                 /\ UNCHANGED <<offers, known>>

(* The server is not reached, refuses the credentials, or has no algorithm *)
(* of those on file; or the entry cannot be written.  One that was written *)
(* stays.                                                                  *)
DialFails == /\ dial.pc \in {"shake", "auth"}
             /\ Ends("failed", NoKey)
             /\ UNCHANGED <<offers, known>>

-----------------------------------------------------------------------------
(* The world around: between two dials the server's key is replaced, the   *)
(* human removes the old entries, or another client records a key.         *)
Replaced(a) == /\ \A b \in Algo : offers[b] < MaxGen
               /\ offers' = [offers EXCEPT ![a] = @ + 1]
               /\ UNCHANGED <<known, dial>>

Removed == /\ known # {}
           /\ known' = {}
           /\ UNCHANGED <<offers, dial>>

RecordedByOther(a) == /\ a \notin Recorded
                      /\ \A k \in known : k = Offered(k.algo)
                      /\ known' = known \cup {Offered(a)}
                      /\ UNCHANGED <<offers, dial>>

World == /\ dial = NoDial
         /\ Removed \/ \E a \in Algo : Replaced(a) \/ RecordedByOther(a)

-----------------------------------------------------------------------------
HostTypeOK == /\ offers \in [Algo -> 1 .. MaxGen]
              /\ known \subseteq Key
              /\ dial \in Dials

(* "It never overrides a *changed* key" (sshtun.go:57): a key that differs *)
(* from the one on file for its algorithm is never accepted, approved or   *)
(* not.                                                                    *)
DifferingKeyIsRefused ==
  dial'.pc = "auth" /\ dial.pc # "auth"
    => \A k \in known : k.algo = dial'.key.algo => k = dial'.key

(* A mismatch is not yet evidence of a changed key (sshtun.go:158): when a *)
(* dial reports a changed key, a key on file really is not the server's    *)
(* any more; an algorithm nobody recorded is no change.                    *)
ChangeIsReal ==
  dial'.pc = "changed" /\ dial.pc # "changed"
    => \E k \in known : k # Offered(k.algo)

(* What a dial decides about the server's key is right, both ways.         *)
VerdictIsRight == [][DifferingKeyIsRefused /\ ChangeIsReal]_hostVars
=============================================================================
