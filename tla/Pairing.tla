------------------------------- MODULE Pairing -------------------------------
(***************************************************************************)
(* How an agent gets and uses its identity: the pair handler of the web UI *)
(* (internal/webui/webui.go), over the SSH dial of HostKeys, the pair      *)
(* handler of the relay (cmd/relay/serve.go) over its CredentialStore, and *)
(* the hello with which a tunnel presents the identity.                    *)
(*                                                                         *)
(* The wording of answers, the relay's URL and the rate limit are left     *)
(* out: a limited attempt is one of those that are refused.                *)
(***************************************************************************)
EXTENDS CredentialStore, HostKeys

VARIABLES
  ask,       \* where the web UI's pair handler stands
  inbox,     \* the request on its way to the relay's pair handler
  serving,   \* the agent still waits for what the relay's exchange returns
  identity   \* the identity in the agent's config file

agentVars == <<ask, inbox, serving, identity>>
vars == <<storeVars, hostVars, agentVars>>

(* Bound: one request at a time is on its way, besides the one the relay   *)
(* serves; the agent waits for it, or has given it up.  It dials again     *)
(* once the relay has taken it.                                            *)
NoRequest == [tok |-> None, live |-> FALSE]
Requests == [tok : Tok, live : BOOLEAN] \cup {NoRequest}

Init == /\ StoreInit /\ HostInit
        /\ ask = "idle"
        /\ inbox = NoRequest
        /\ serving = FALSE
        /\ identity = None

-----------------------------------------------------------------------------
(* The agent: pair (webui.go).                                             *)

(* A form is submitted: the SSH server is dialed, without an approval.     *)
Submit == /\ ask \in {"idle", "asked"} /\ inbox = NoRequest
          /\ ask' = "dial"
          /\ Attempt({}, FALSE)
          /\ UNCHANGED <<storeVars, offers, known, inbox, serving, identity>>

(* The human was shown a fingerprint, and approves it: the same form again. *)
Approve == /\ ask = "asked" /\ inbox = NoRequest
           /\ ask' = "dial"
           /\ Attempt({}, TRUE)
           /\ UNCHANGED <<storeVars, offers, known, inbox, serving, identity>>

Dialing == /\ ask = "dial"
           /\ Handshake \/ Authenticated \/ DialFails
           /\ UNCHANGED <<storeVars, agentVars>>

(* The server is trusted: the token in the form, some token that was       *)
(* minted, is sent to the relay.                                           *)
Post(t) == /\ ask = "dial" /\ dial.pc = "up"
           /\ t \in born
           /\ inbox = NoRequest
           /\ inbox' = [tok |-> t, live |-> TRUE]
           /\ ask' = "wait"
           /\ dial' = NoDial
           /\ UNCHANGED <<storeVars, offers, known, serving, identity>>

(* It is not: a question for the human, or an error.                       *)
Stops == /\ ask = "dial" /\ dial.pc \in Outcome \ {"up"}
         /\ ask' = IF dial.pc = "unknown" THEN "asked" ELSE "idle"
         /\ dial' = NoDial
         /\ UNCHANGED <<storeVars, offers, known, inbox, serving, identity>>

(* Mutant: the request does not know that its agent has given up.          *)
GiveUpQuietly == /\ ask = "wait"
                 /\ ask' = "idle"
                 /\ UNCHANGED <<storeVars, hostVars, inbox, serving, identity>>

(* The time limit of pair, or a broken connection: the relay may still     *)
(* serve the request.                                                      *)
GiveUp == /\ ask = "wait"
          /\ ask' = "idle"
          /\ inbox' = [inbox EXCEPT !.live = FALSE]
          /\ serving' = FALSE
          /\ UNCHANGED <<storeVars, hostVars, identity>>

-----------------------------------------------------------------------------
(* The relay: pairHandler (serve.go), one request at a time.               *)

Take == /\ ~starting
        /\ inbox # NoRequest
        /\ inbox' = NoRequest

Grant == /\ Take
         /\ \E i \in Id : Exchange(inbox.tok, i)
         /\ serving' = inbox.live
         /\ UNCHANGED <<hostVars, ask, identity>>

(* An answer without a credential reaches the agent, if it waits.          *)
Refused == ask' = IF inbox.live THEN "idle" ELSE ask

(* ... or nothing matches: unknown, used and expired look the same.        *)
Refuse == /\ Take
          /\ Looks
          /\ Refused
          /\ UNCHANGED <<hostVars, serving, identity>>

(* The limiter turns the request away before the store is asked.           *)
Limited == /\ Take
           /\ Refused
           /\ UNCHANGED <<storeVars, hostVars, serving, identity>>

(* Mutant: the credential is sent before it is saved.                      *)
AnswersFirst ==
  /\ op[Relay].pc = "open"
  /\ serving
  /\ ask' = "idle"
  /\ identity' = op[Relay].id
  /\ serving' = FALSE
  /\ OpenTmp(Relay)
  /\ UNCHANGED <<hostVars, inbox>>

(* The exchange is saved, and the answer leaves.  An agent that waits for  *)
(* it stores its identity (SetRelayIdentity), unless the answer is lost or *)
(* its config file cannot be written.                                      *)
Answers == /\ Saved(Relay)
           /\ ask' = IF serving THEN "idle" ELSE ask
           /\ \/ UNCHANGED identity
              \/ serving /\ identity' = op[Relay].id
           /\ serving' = FALSE
           /\ UNCHANGED <<hostVars, inbox>>

(* The save fails or the relay goes down: the agent gets an error.         *)
Fails == /\ SaveFails(Relay) \/ Killed(Relay)
         /\ ask' = IF serving THEN "idle" ELSE ask
         /\ serving' = FALSE
         /\ UNCHANGED <<hostVars, inbox, identity>>

(* A tunnel says hello with the identity (hub.go, HandleWS): the relay     *)
(* looks whether Verifies holds of it.                                     *)
Hello == /\ identity # None
         /\ Looks
         /\ UNCHANGED <<hostVars, agentVars>>

-----------------------------------------------------------------------------
RelaySteps == Grant \/ Refuse \/ Limited \/ Answers \/ Fails \/ Hello

AgentSteps == \/ Submit \/ Approve \/ Dialing \/ Stops \/ GiveUp
              \/ \E t \in Tok : Post(t)

StoreSteps == /\ \/ Admin
                 \/ Started
                 \/ \E p \in Proc : Saving(p)
                 \/ \E p \in Cmd : Saved(p) \/ SaveFails(p) \/ Killed(p)
              /\ UNCHANGED <<hostVars, agentVars>>

(* Bound: the world changes before a form is submitted.                    *)
Around == /\ ask \in {"idle", "asked"}
          /\ World
          /\ UNCHANGED <<storeVars, agentVars>>

Next == RelaySteps \/ AgentSteps \/ StoreSteps \/ Around

Spec == Init /\ [][Next]_vars

-----------------------------------------------------------------------------
(* Every variable stays within its type; the relay's pair handler answers  *)
(* an agent that waits, never one that has given up.                       *)
TypeOK == /\ StoreTypeOK /\ HostTypeOK
          /\ ask \in {"idle", "asked", "dial", "wait"}
          /\ inbox \in Requests
          /\ serving \in BOOLEAN
          /\ identity \in Id \cup {None}
          /\ serving \/ inbox.live => ask = "wait"

(* An agent that has paired is known to the relay: whatever save fails,    *)
(* whichever process ends, and whenever the agent gives up, the identity   *)
(* it keeps is in the relay's file, as long as no operations overlap and   *)
(* none is saved while the relay starts.                                   *)
IdentityIsKnown ==
  clash \/ identity = None \/ file.agent[identity] # "none"

(* "Its next connection attempt will be rejected" (cmd/relay/main.go:282): *)
(* no change of another process is lost (auth.go:47-51), so once a         *)
(* revocation was reported no hello is accepted with the identity, as long *)
(* as no operations overlap and none is saved while the relay starts.      *)
RevokedIsRefused ==
  clash \/ \A i \in confirmed : ~Verifies(i)

(* What the relay's file says holds against every crash, failed save and   *)
(* late answer.                                                            *)
StoreIsSound == FileIsReadable /\ IdentityIsKnown /\ RevokedIsRefused
=============================================================================
