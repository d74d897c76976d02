----------------------------- MODULE AgentTunnel -----------------------------
(***************************************************************************)
(* The tunnels of an agent and their kill switch: Tunnel.Run and           *)
(* Tunnel.session (internal/agent/tunnel.go), the tunnelManager that       *)
(* replaces a tunnel when the operator pairs again (cmd/agent/main.go),    *)
(* and the handlers of the web UI that call it (internal/webui/webui.go).  *)
(*                                                                         *)
(* The CloseAll that follows the end of a connection, and the CloseAll of  *)
(* the kill switch, act on the core: they are actions of AgentCore.        *)
(***************************************************************************)
EXTENDS Naturals

CONSTANTS
  Tun,    \* the tunnels that Start may create
  Ui,     \* handlers of the web UI that may run at the same time
  None    \* no tunnel

ASSUME NoneAssumption == None \notin Tun

VARIABLES
  current,    \* tunnelManager.tun
  cancelled,  \* tunnels whose context is cancelled
  pc,         \* where Run, or the session it runs, stands
  stopped,    \* tunnels whose kill switch is latched
  resume,     \* tunnels with a signal in their resume channel, of capacity 1
  conn,       \* tunnels whose connection to the relay is up
  kill,       \* tunnels that published ctrl and kill
  job         \* what a handler of the web UI still has to do

vars == <<current, cancelled, pc, stopped, resume, conn, kill, job>>

manager == <<current, cancelled>>

Step == {"new", "check", "hold", "wait", "dial", "hello", "serve", "tail", "done"}

(* A handler between two steps: the tunnel it acts on, and whether the     *)
(* kill function it read still belongs to the connection that is up.       *)
NoJob == [pc |-> "idle", tun |-> None, live |-> FALSE]
Job == [pc : {"latch", "look", "sever", "signal"}, tun : Tun, live : BOOLEAN] \cup {NoJob}

Init == /\ current = None
        /\ cancelled = {} /\ stopped = {} /\ resume = {} /\ conn = {} /\ kill = {}
        /\ pc = [t \in Tun |-> "new"]
        /\ job = [u \in Ui |-> NoJob]

At(t, step) == pc[t] = step
Goto(t, step) == pc' = [pc EXCEPT ![t] = step]

-----------------------------------------------------------------------------
(* Run: the retry loop.                                                    *)

(* Mutant: the latch is only consulted by a loop that lost a connection.   *)
CheckIgnoresLatch(t) == /\ At(t, "check")
                        /\ Goto(t, "dial")
                        /\ UNCHANGED <<manager, stopped, resume, conn, kill, job>>

(* The top of the loop: hold while the kill switch is latched, or dial.    *)
Check(t) == /\ At(t, "check")
            /\ Goto(t, IF t \in stopped THEN "hold" ELSE "dial")
            /\ UNCHANGED <<manager, stopped, resume, conn, kill, job>>

(* Mutant: a signal ends the hold without a look at the latch.             *)
DialsWhenResumed(t) == /\ At(t, "hold") \/ At(t, "wait")
                       /\ t \in resume
                       /\ resume' = resume \ {t}
                       /\ Goto(t, "dial")
                       /\ UNCHANGED <<manager, stopped, conn, kill, job>>

(* A signal ends the hold, or the wait between two attempts; an old signal *)
(* may have been left in the channel.                                      *)
Resumed(t) == /\ At(t, "hold") \/ At(t, "wait")
              /\ t \in resume
              /\ resume' = resume \ {t}
              /\ Goto(t, "check")
              /\ UNCHANGED <<manager, stopped, conn, kill, job>>

BackoffOver(t) == /\ At(t, "wait")
                  /\ Goto(t, "check")
                  /\ UNCHANGED <<manager, stopped, resume, conn, kill, job>>

(* Mutant: a loop that holds does not watch its context.                   *)
HoldsForEver(t) == /\ At(t, "wait")
                   /\ t \in cancelled
                   /\ Goto(t, "done")
                   /\ UNCHANGED <<manager, stopped, resume, conn, kill, job>>

(* The context is cancelled while the loop holds or waits.                 *)
Return(t) == /\ At(t, "hold") \/ At(t, "wait")
             /\ t \in cancelled
             /\ Goto(t, "done")
             /\ UNCHANGED <<manager, stopped, resume, conn, kill, job>>

-----------------------------------------------------------------------------
(* session: one connection.                                                *)

(* session returned, and Run looks at its context.                         *)
Leave(t) == Goto(t, IF t \in cancelled THEN "done" ELSE "wait")

Dialed(t) == /\ At(t, "dial")
             /\ conn' = conn \cup {t}
             /\ Goto(t, "hello")
             /\ UNCHANGED <<manager, stopped, resume, kill, job>>

(* The dial failed, or the relay did not accept the hello.                 *)
AttemptFails(t) == /\ At(t, "dial") \/ At(t, "hello")
                   /\ conn' = conn \ {t}
                   /\ Leave(t)
                   /\ UNCHANGED <<manager, stopped, resume, kill, job>>

(* The relay accepted the hello: ctrl and kill are published, and the      *)
(* loops start.                                                            *)
Publish(t) == /\ At(t, "hello")
              /\ kill' = kill \cup {t}
              /\ Goto(t, "serve")
              /\ UNCHANGED <<manager, stopped, resume, conn, job>>

(* The connection breaks: network, relay, or the cancelled context.        *)
Break(t) == /\ t \in conn
            /\ conn' = conn \ {t}
            /\ UNCHANGED <<manager, pc, stopped, resume, kill, job>>

(* One of the loops returned, or the context is done: the mux session is   *)
(* closed.  A kill function that a handler still holds has no effect now.  *)
ServeEnds(t) == /\ At(t, "serve")
                /\ conn' = conn \ {t}
                /\ job' = [u \in Ui |-> IF job[u].tun = t
                                        THEN [job[u] EXCEPT !.live = FALSE] ELSE job[u]]
                /\ Goto(t, "tail")
                /\ UNCHANGED <<manager, stopped, resume, kill>>

(* CloseAll is done: the deferred function withdraws ctrl and kill.        *)
Withdraw(t) == /\ At(t, "tail")
               /\ kill' = kill \ {t}
               /\ Leave(t)
               /\ UNCHANGED <<manager, stopped, resume, conn, job>>

Running(t) == \/ Check(t) \/ Resumed(t) \/ BackoffOver(t) \/ Return(t)
              \/ Dialed(t) \/ AttemptFails(t) \/ Publish(t) \/ Withdraw(t)

-----------------------------------------------------------------------------
(* The handlers of the web UI.                                             *)

Idle(u) == job[u] = NoJob
Does(u, j) == job' = [job EXCEPT ![u] = j]

(* Mutant: the tunnel that is replaced goes on.                            *)
PairBeside(u, t) == /\ Idle(u)
                    /\ At(t, "new")
                    /\ current' = t
                    /\ Goto(t, "check") \/ Goto(t, "done")
                    /\ UNCHANGED <<cancelled, stopped, resume, conn, kill, job>>

(* pair: Start cancels the running tunnel and runs a new one, whose latch  *)
(* is off.  Run returns at once if it does not accept the relay's URL.     *)
Pair(u, t) == /\ Idle(u)
              /\ At(t, "new")
              /\ cancelled' = cancelled \cup ({current} \ {None})
              /\ current' = t
              /\ Goto(t, "check") \/ Goto(t, "done")
              /\ UNCHANGED <<stopped, resume, conn, kill, job>>

(* disconnect: the manager's tunnel is read first, then ...                *)
Disconnect(u) == /\ Idle(u)
                 /\ current # None
                 /\ Does(u, [pc |-> "latch", tun |-> current, live |-> FALSE])
                 /\ UNCHANGED <<manager, pc, stopped, resume, conn, kill>>

(* ... its latch is set, ...                                               *)
Latch(u) == /\ job[u].pc = "latch"
            /\ stopped' = stopped \cup {job[u].tun}
            /\ Does(u, [job[u] EXCEPT !.pc = "look"])
            /\ UNCHANGED <<manager, pc, resume, conn, kill>>

(* ... the kill function is read under the lock, ...                       *)
Look(u) == /\ job[u].pc = "look"
           /\ LET t == job[u].tun
              IN Does(u, [job[u] EXCEPT !.pc = "sever",
                                        !.live = t \in kill /\ At(t, "serve")])
           /\ UNCHANGED <<manager, pc, stopped, resume, conn, kill>>

(* ... and called, unless it was nil.                                      *)
Sever(u) == /\ job[u].pc = "sever"
            /\ conn' = IF job[u].live THEN conn \ {job[u].tun} ELSE conn
            /\ Does(u, NoJob)
            /\ UNCHANGED <<manager, pc, stopped, resume, kill>>

(* reconnect: the latch is cleared, ...                                    *)
Reconnect(u) == /\ Idle(u)
                /\ current # None
                /\ stopped' = stopped \ {current}
                /\ Does(u, [pc |-> "signal", tun |-> current, live |-> FALSE])
                /\ UNCHANGED <<manager, pc, resume, conn, kill>>

(* Mutant: the loop is not signalled.                                      *)
SignalNobody(u) == /\ job[u].pc = "signal"
                   /\ Does(u, NoJob)
                   /\ UNCHANGED <<manager, pc, stopped, resume, conn, kill>>

(* ... then the loop is signalled; a signal that is already waiting in the *)
(* channel is enough.                                                      *)
Signal(u) == /\ job[u].pc = "signal"
             /\ resume' = resume \cup {job[u].tun}
             /\ Does(u, NoJob)
             /\ UNCHANGED <<manager, pc, stopped, conn, kill>>

Handling(u) == Latch(u) \/ Look(u) \/ Sever(u) \/ Signal(u)

-----------------------------------------------------------------------------
Next == \/ \E t \in Tun : Running(t) \/ Break(t) \/ ServeEnds(t)
        \/ \E u \in Ui : \/ Disconnect(u) \/ Reconnect(u) \/ Handling(u)
                         \/ \E t \in Tun : Pair(u, t)

(* Goroutines that can run do; dials and hellos return, they have time     *)
(* limits; a connection is over once it broke or its context is cancelled. *)
Fairness == /\ \A t \in Tun :
                 /\ WF_vars(Running(t))
                 /\ WF_vars(ServeEnds(t) /\ (t \in cancelled \/ t \notin conn))
            /\ \A u \in Ui : WF_vars(Handling(u))

Spec == Init /\ [][Next]_vars
FairSpec == Spec /\ Fairness

-----------------------------------------------------------------------------
(* Every variable stays within its type, and a tunnel has published its    *)
(* kill function exactly while its loops run or are being wound up.        *)
TypeOK == /\ current \in Tun \cup {None}
          /\ cancelled \subseteq Tun
          /\ pc \in [Tun -> Step]
          /\ stopped \subseteq Tun /\ resume \subseteq Tun /\ conn \subseteq Tun
          /\ kill = {t \in Tun : At(t, "serve") \/ At(t, "tail")}
          /\ job \in [Ui -> Job]

(* A tunnel is connected only while its session runs, and all tunnels but  *)
(* the manager's own have been cancelled: the relay is never left with a   *)
(* connection that nobody would wind up (main.go:210-228).                 *)
ConnIsServed ==
  /\ \A t \in conn : At(t, "hello") \/ At(t, "serve")
  /\ \A t \in Tun : ~At(t, "new") /\ t # current => t \in cancelled

(* The kill switch is a latch, not a reconnect blip (ARCHITECTURE.md:338): *)
(* a loop never begins to dial while its latch is set, whatever signals    *)
(* are left in its channel.                                                *)
StoppedNeverDials ==
  [][\A t \in Tun : At(t, "dial")' /\ ~At(t, "dial") => t \notin stopped]_vars

(* Resume reconnects: a tunnel whose latch stays off does not hold for     *)
(* ever, even if the signal came before the loop began to hold.            *)
ResumeReconnects ==
  \A t \in Tun : <>[](t \notin stopped) => []<>~At(t, "hold")

(* A tunnel that was replaced ends, also while its kill switch holds it.   *)
ReplacedTunnelEnds == \A t \in Tun : t \in cancelled ~> At(t, "done")

(* Disconnect severs the tunnel and it stays severed until Resume is       *)
(* called (tunnel.go:90-91, ARCHITECTURE.md:338-340): once the handler is  *)
(* done, a latched tunnel does not serve devices over a connection.        *)
KillSwitchSevers ==
  \A t \in Tun : (t \in stopped /\ \A u \in Ui : job[u].tun # t)
                 => ~(At(t, "serve") /\ t \in conn)
=============================================================================
