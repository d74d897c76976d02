--------------------------- MODULE CredentialStore ---------------------------
(***************************************************************************)
(* The relay's credential store (internal/auth/auth.go).  Its file is      *)
(* shared by the relay, which holds a copy in memory for as long as it     *)
(* runs, and the admin commands (cmd/relay/main.go), each of which reads   *)
(* it, changes it once and ends.  Every operation reloads the file if its  *)
(* stamp has changed, and saves by writing auth.json.tmp and renaming it.  *)
(* Nothing locks the file, and all processes use the same temporary name.  *)
(*                                                                         *)
(* Hashes and names are left out; so are API tokens, which are only        *)
(* appended.  Any token may be found to have expired at any time.  Every   *)
(* write gives the file a stamp of its own.                                *)
(***************************************************************************)
EXTENDS Naturals, FiniteSets

CONSTANTS
  Cmd,     \* admin commands that may run at the same time
  Relay,   \* the relay's process
  Tok,     \* pairing tokens (bound: how many are ever minted)
  Id,      \* identities of agents (bound: how many are ever given out)
  Absent,  \* there is no such file
  Torn,    \* what a file holds while it is being written
  None     \* no identity, no token

VARIABLES
  file,       \* auth.json
  tmp,        \* auth.json.tmp
  mem,        \* each process's copy
  current,    \* the relay's stamp is the file's
  starting,   \* the relay has read the file, and has not stamped it yet
  op,         \* the operation of each process, between its reload and its end
  born,       \* tokens that were minted
  origin,     \* the token each identity was minted for, None if it was not
  confirmed,  \* identities whose revocation was reported to the operator
  issued,     \* identities the relay answered with
  clash       \* operations of different processes have overlapped, or one
              \* was saved between the two steps of the relay's start

storeVars == <<file, tmp, mem, current, starting, op,
               born, origin, confirmed, issued, clash>>

Proc == Cmd \cup {Relay}

Content == [token : [Tok -> {"none", "fresh", "used"}],
            agent : [Id -> {"none", "live", "revoked"}]]

ASSUME StoreAssumption == /\ Relay \notin Cmd /\ None \notin Id \cup Tok
                          /\ Absent \notin Content /\ Torn \notin Content \cup {Absent}

Empty == [token |-> [t \in Tok |-> "none"], agent |-> [i \in Id |-> "none"]]

NoOp == [pc |-> "idle", id |-> None, to |-> "none"]
Ops == [pc : {"open", "fill", "rename", "stamp"}, id : Id \cup {None},
        to : {"none", "tmp", "file", "gone"}] \cup {NoOp}

StoreInit == /\ file = Absent /\ tmp = Absent
             /\ mem = [p \in Proc |-> Empty]
             /\ current = TRUE /\ starting = FALSE
             /\ op = [p \in Proc |-> NoOp]
             /\ born = {} /\ confirmed = {} /\ issued = {}
             /\ origin = [i \in Id |-> None]
             /\ clash = FALSE

Busy(p) == op[p] # NoOp

-----------------------------------------------------------------------------
(* reloadLocked: what the relay holds once it has looked at the file.  A   *)
(* file that cannot be parsed leaves the copy alone.                       *)
Readable == file \notin {Absent, Torn}
Loaded == IF ~current /\ Readable THEN file ELSE mem[Relay]
Stamped == current \/ Readable

(* An operation of process p changes the copy to c, and goes on to save it. *)
Operates(p, c, id) ==
  /\ ~Busy(p)
  /\ p = Relay => ~starting
  /\ mem' = [mem EXCEPT ![p] = c]
  /\ current' = IF p = Relay THEN Stamped ELSE current
  /\ op' = [op EXCEPT ![p] = [pc |-> "open", id |-> id, to |-> "none"]]
  /\ clash' = (clash \/ \E q \in Proc \ {p} : Busy(q))
  /\ UNCHANGED <<file, tmp, starting, confirmed, issued>>

(* An operation only looks: the reload is all it does.                     *)
Looks ==
  /\ ~Busy(Relay) /\ ~starting
  /\ mem' = [mem EXCEPT ![Relay] = Loaded]
  /\ current' = Stamped
  /\ UNCHANGED <<file, tmp, starting, op, born, origin, confirmed, issued, clash>>

(* A command starts from nothing: Open reads the file, and refuses to go   *)
(* on if it cannot be parsed.                                              *)
Opened == IF file = Absent THEN Empty ELSE file

Usable(c) == {t \in Tok : c.token[t] = "fresh"}

(* MintPairingToken, run by pair-token: used tokens are pruned, and so are  *)
(* those among the others that have expired.                               *)
Mint(p, t) ==
  /\ p \in Cmd /\ file # Torn
  /\ t \notin born
  /\ \E kept \in SUBSET Usable(Opened) :
       LET listed == [x \in Tok |-> IF x \in kept \cup {t} THEN "fresh" ELSE "none"]
       IN Operates(p, [Opened EXCEPT !.token = listed], None)
  /\ born' = born \cup {t}
  /\ UNCHANGED origin

(* RevokeAgent, run by revoke-agent: it fails for an agent it cannot find. *)
Revoke(p, i) ==
  /\ p \in Cmd /\ file # Torn
  /\ Opened.agent[i] # "none"
  /\ Operates(p, [Opened EXCEPT !.agent[i] = "revoked"], i)
  /\ UNCHANGED <<born, origin>>

(* Mutant: the token is marked in a copy of its record.                    *)
ExchangeCopy(t, i) ==
  LET c == Loaded
  IN /\ t \in Usable(c)
     /\ origin[i] = None
     /\ origin' = [origin EXCEPT ![i] = t]
     /\ Operates(Relay, [c EXCEPT !.agent[i] = "live"], i)
     /\ UNCHANGED born

(* ExchangePairing: the token is spent, and a new identity takes its place. *)
Exchange(t, i) ==
  LET c == Loaded
  IN /\ t \in Usable(c)
     /\ origin[i] = None
     /\ origin' = [origin EXCEPT ![i] = t]
     /\ Operates(Relay, [c EXCEPT !.token[t] = "used", !.agent[i] = "live"], i)
     /\ UNCHANGED born

(* VerifyAgent: whether a credential is good, after the reload.            *)
Verifies(i) == Loaded.agent[i] = "live"

-----------------------------------------------------------------------------
(* saveLocked.                                                             *)

Step(p, pc) == op' = [op EXCEPT ![p].pc = pc]

(* The temporary file is opened, and emptied if it exists.                 *)
OpenTmp(p) ==
  /\ op[p].pc = "open"
  /\ tmp' = Torn
  /\ op' = [op EXCEPT ![p].pc = "fill", ![p].to = "tmp"]
  /\ UNCHANGED <<file, mem, current, starting, born, origin, confirmed, issued, clash>>

(* The bytes are written; another process may have renamed the file under  *)
(* this one's hands, or replaced it.                                       *)
Fill(p) ==
  /\ op[p].pc = "fill"
  /\ tmp' = IF op[p].to = "tmp" THEN mem[p] ELSE tmp
  /\ file' = IF op[p].to = "file" THEN mem[p] ELSE file
  /\ current' = IF op[p].to = "file" THEN FALSE ELSE current
  /\ Step(p, "rename")
  /\ UNCHANGED <<mem, starting, born, origin, confirmed, issued, clash>>

(* A writer whose file is renamed goes on writing to it under its new name. *)
Moved(o) == [o EXCEPT !.to = IF o.to = "tmp" THEN "file"
                             ELSE IF o.to = "file" THEN "gone" ELSE o.to]

Rename(p) ==
  /\ op[p].pc = "rename"
  /\ tmp # Absent
  /\ file' = tmp /\ tmp' = Absent
  /\ current' = FALSE
  /\ op' = [q \in Proc |-> IF q = p THEN [op[p] EXCEPT !.pc = "stamp", !.to = "none"]
                                    ELSE Moved(op[q])]
  /\ UNCHANGED <<mem, starting, born, origin, confirmed, issued, clash>>

(* Saved: the stamp of whatever is there now is taken, and the operation   *)
(* reports success.  A command ends.                                       *)
Saved(p) ==
  /\ op[p].pc = "stamp"
  /\ current' = (current \/ p = Relay)
  /\ op' = [op EXCEPT ![p] = NoOp]
  /\ confirmed' = IF p \in Cmd /\ op[p].id # None THEN confirmed \cup {op[p].id}
                                                 ELSE confirmed
  /\ issued' = IF p = Relay THEN issued \cup {op[p].id} ELSE issued
  /\ mem' = IF p \in Cmd THEN [mem EXCEPT ![p] = Empty] ELSE mem
  /\ UNCHANGED <<file, tmp, starting, born, origin, clash>>

(* What a process leaves in the temporary file matters only to those that  *)
(* write at the same time: the next to open it empties it.                 *)
Left(p) == IF \E q \in Proc \ {p} : Busy(q) THEN tmp ELSE Absent

(* The disk is full, or the temporary file is gone: the operation reports  *)
(* an error.  The relay keeps the copy it changed.                         *)
SaveFails(p) ==
  /\ \/ op[p].pc = "open"
     \/ op[p].pc = "rename" /\ tmp = Absent
  /\ op' = [op EXCEPT ![p] = NoOp]
  /\ mem' = IF p \in Cmd THEN [mem EXCEPT ![p] = Empty] ELSE mem
  /\ tmp' = Left(p)
  /\ UNCHANGED <<file, current, starting, born, origin, confirmed, issued, clash>>

(* A command is ended in the middle of its operation; or the relay is, and *)
(* is started again, which it refuses while the file cannot be parsed.     *)
(* Open reads the file, if there is one, and stamps it only afterwards.    *)
Killed(p) ==
  /\ Busy(p) \/ p = Relay
  /\ p = Relay => file # Torn
  /\ op' = [op EXCEPT ![p] = NoOp]
  /\ mem' = [mem EXCEPT ![p] = IF p = Relay THEN Opened ELSE Empty]
  /\ current' = (current \/ p = Relay)
  /\ starting' = IF p = Relay THEN file # Absent ELSE starting
  /\ tmp' = Left(p)
  /\ UNCHANGED <<file, born, origin, confirmed, issued, clash>>

(* Open stamps whatever is there now: a version it has not read counts as  *)
(* read, and is not reloaded.                                              *)
Started ==
  /\ starting
  /\ starting' = FALSE
  /\ current' = TRUE
  /\ clash' = (clash \/ ~current)
  /\ UNCHANGED <<file, tmp, mem, op, born, origin, confirmed, issued>>

(* Bound: no command starts after operations have overlapped.             *)
Admin == /\ ~clash
         /\ \E p \in Cmd : (\E t \in Tok : Mint(p, t)) \/ (\E i \in Id : Revoke(p, i))
Saving(p) == OpenTmp(p) \/ Fill(p) \/ Rename(p)

-----------------------------------------------------------------------------
StoreTypeOK ==
  /\ file \in Content \cup {Absent, Torn} /\ tmp \in Content \cup {Absent, Torn}
  /\ mem \in [Proc -> Content]
  /\ current \in BOOLEAN /\ starting \in BOOLEAN
  /\ op \in [Proc -> Ops]
  /\ born \subseteq Tok
  /\ origin \in [Id -> born \cup {None}]
  /\ confirmed \cup issued \subseteq {i \in Id : origin[i] # None}
  /\ clash \in BOOLEAN

(* The file is written atomically (auth.go:6): whichever process ends in   *)
(* the middle of a save, the file can be parsed, as long as no saves meet. *)
FileIsReadable == clash \/ file # Torn

(* A pairing token is single use (auth.go:163): whatever save fails and    *)
(* whenever the relay is ended and started again, the relay never answers  *)
(* the same token with two identities, as long as no operations overlap    *)
(* and none is saved while the relay starts (see clash: a command that had *)
(* read the file before the exchange puts the token back).                 *)
TokenIsSpentOnce ==
  clash \/ \A i, j \in issued : origin[i] = origin[j] => i = j
=============================================================================
