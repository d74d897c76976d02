# tunnelhw in TLA+

tunnelhw lets a remote consumer (an HTTP client, or a language model through
MCP) use serial devices that are plugged into somebody else's machine. An
**agent** runs next to the hardware and dials out to a **relay**; the relay
offers the agent's exposed devices to authenticated consumers. The operator of
the agent decides in a local web UI which devices are exposed, and can take
each of them back at any time.

The modules here are translated from the Go source under `src/`, action by
action; `PROJECT.json` names the source lines of every definition. TLC checks
small instances, and TLAPS proves for every size what TLC checks of the safety
of all of them: each invariant, the action properties and the refinement. The
liveness properties are TLC's alone.

## 1. Inventory

| Component | State | Operations | What is hard | What makes it correct |
|---|---|---|---|---|
| Agent core (`internal/agent/core.go`) | devices and records, `claims`, `sessions`, `monitors` | Rescan, SetExposed, SetMonitored, ReleaseDevice, OpenSession, CloseSession, CloseAll, SetParams, Drain, RegenerateName | one mutex that is released around every slow call: opening and closing hardware | exclusive devices; revoked access stays revoked; no port without an owner |
| Monitors (`monitor.go`) | port, history, subscribers, `closed` | pump, attach, detach, Close | failure of the port while sessions attach and detach | a session sees the end of its monitor; the port is released |
| Tunnel (`tunnel.go`) | `stopped`, `resume`, `ctrl`, `kill`, last pong | Run, session, Disconnect, Resume, announce, three loops, serveStream, bridge | the kill switch against a loop that is just dialling; teardown order | the kill switch is a latch; nothing survives the connection |
| Tunnel manager (`cmd/agent/main.go`) | the current tunnel and its cancel function | Start, Disconnect, Resume, Status | pairing again replaces a running tunnel | a replaced tunnel ends |
| Web UI (`internal/webui`) | pairing lock | toggles, release, pair, reconnect, disconnect | handlers run concurrently | each operator request has its effect |
| Hub (`internal/relay`) | connected agents, their device lists, pending control requests | HandleWS, controlLoop, Devices, Open, rpc, NotifyClosed | connections of one agent overlap; late answers | the newest connection wins; an answer reaches its own request |
| Broker (`internal/relayapi/broker.go`) | sessions; per session a buffer, `closed`, reset count | Open, pump, ReadWith, Write, Close, reaper | one condition variable for the pump, the readers and their timers | every byte once and in order; reads return; ended sessions go |
| HTTP API and MCP (`relayapi/http.go`, `internal/mcp`) | none | one adapter per tool | ownership of sessions | a consumer touches only its own sessions |
| Credential store (`internal/auth`) | a file shared by the relay and the admin commands | mint, exchange, verify, revoke | two processes read, change and rewrite one file | a pairing token gives one identity; a revocation stays |
| Config and names (`internal/config`, `internal/names`) | `agent.json` | Load, Save, Generate | crash between memory and disk | names are unique and stable |
| Relay process (`cmd/relay`) | pairing limiter | serve, pair, mint, revoke | window boundaries | attempts are bounded |
| Protocol (`internal/proto`, `internal/mux`) | framing buffer | ReadFrame, Send, Negotiate | limits and versions | frames are delimited; both sides choose the same version |
| SSH transport (`internal/sshtun`) | known hosts | Dial, host-key decision | retry with other algorithms | a changed key is never accepted |
| Serial devices, classes, services, page (`serialdev`, `device`, `svc`, `web`) | hardware and OS state | I/O | outside of the program | |

How they interact. A consumer's open goes broker → hub → a yamux stream →
`serveStream` in the agent → `Core.OpenSession`. Bytes then flow through
`bridge` in both directions, into the broker's buffer on the relay's side. The
core reports every change to the tunnel, which announces the exposed devices;
the hub replaces its list. The relay closes a session by a control message; the
agent closes one by ending the stream. Within the agent, the web UI's handlers,
the rescan ticker, the tunnel's loops and one goroutine per stream call the
core concurrently, and the core calls nobody back but the announcer.

The hazards that follow are listed in `PROJECT.json`, each at the line where it
bites, with the properties that would catch it.

## 2. Modules

An arrow reads "is built on": `RelayApi` → `RelayHub`; `Pairing` →
`CredentialStore`, `HostKeys`; `AgentCore` → `DeviceAccess` (what it
implements). The other modules stand alone, each at the granularity its
properties need; section 5 says where their boundaries are. `MC*` modules add
the symmetry sets for TLC (`MCSessionBuffer` also compares a read's closed form
with the code's loop), `*Proofs` modules the theorems. `TunnelProofs` is about
AgentTunnel and Announce together, `RelayProofs` about RelayHub and RelayApi,
`PairingProofs` about CredentialStore, HostKeys and Pairing.

### AgentCore and DeviceAccess

`AgentCore` models the core at the granularity of the critical sections of
`Core.mu`. What a goroutine does between two of them is explicit:

* a stream's local state (`stream[o]`: program counter, device, session id)
  walks through `OpenSession`: `Claim`, `Lookup`, `ObtainPort` or
  `OpenFails`, `Register` or `Abandon`, then `Respond`, `StreamEnds`, `Finish`
  of `serveStream` and `bridge`;
* a set of pending calls `todo[t]` holds what any goroutine still has to do
  after it released the lock. `Rescan` thus leaves a list of sessions to close
  and of monitors to stop and to start, which go stale while other goroutines
  run, exactly as the lists in `core.go:203-215` do. `SetExposed` leaves a
  `ReleaseDevice`, which leaves a `CloseSession`, which leaves the closing of
  the port.

| State | Code |
|---|---|
| `hw`, `snap` | the plugged devices; what `enumerate()` returned before the lock |
| `online`, `exposed`, `monitored` | `deviceState.Online`, `Rec.Exposed`, `Rec.Monitored` |
| `claims`, `sessions`, `monitors` | the maps of `Core` |
| `failed`, `held` | monitors whose pump read an error and marked them closed; the ports that are open, by owner |
| `stream`, `up`, `alive` | the goroutines of `serveStream`; the tunnel's connection |
| `todo` | the rest of the calls that are under way |

A device stands for its fingerprint, UUID and word-id at once. Hardware opens
succeed or fail freely. Session ids are reused only once nothing refers to
them, which stands for `uuid.NewString`.

`DeviceAccess` is what the agent promises: a device has one holder, access is
granted only while the device is allowed, and a device becomes free before
somebody else holds it. `AgentCore` implements it with `holder <- claims` and
the devices of the registered sessions as `granted`.

### Registry

What `Rescan` does to the names: it reconciles what `enumerate` returned with
the records of the config, generates word-ids, counts returns of USB devices
as resets, and saves. A unit with a serial number has one fingerprint wherever
it is; another one is recognised by its port, so units that swap ports swap
records (`Key`, `FingerprintOf`). `Rescan` is one action, as the code holds the
lock throughout; `RescanStops` is its early return when no name is left or
saving fails. `Entry` is what `byUUIDLocked` finds or, for a device of the config
that this run has not seen, inserts; every change the operator makes goes
through it (`Touch`). `Start` and `Stop` may come at any time: `Stop` keeps
`agent.json` and loses the rest.

| State | Code |
|---|---|
| `hw`, `snap` | units and their ports; what `enumerate()` returned before the lock |
| `cfg`, `devices` | `Config.Devices`; `Core.devices` with `Online` and `Resets` |
| `disk` | `agent.json` |
| `seen`, `returns`, `early` | history, of USB devices: those this run's rescans found present, how often they appeared again, those the operator changed before |
| `unsaved` | history: whether a save or a naming failed |

### AgentTunnel

`Tunnel.Run` and `session` as a loop with steps `check, hold, wait, dial,
hello, serve, tail`; the tunnel manager's `current` tunnel; and the handlers of
the web UI, whose `Disconnect` is four steps (read the manager's tunnel, latch,
read `kill` under the lock, call it) and `Resume` two. A handler that has read
`kill` may call it late: `live` says whether the connection it belongs to is
still the one that is up. What the end of a connection does to the sessions is
in `AgentCore` (`Disconnect`, `CloseAllCall`).

### Announce

Every change of the core starts a goroutine; each reads `ctrl`, takes a
snapshot of the exposed devices and sends it, in three steps that others may
interleave with (`ReadCtrl`, `Snapshot`, `Send`). The wire is a FIFO that dies
with the connection (`SessionEnds`). `shown` is a history variable. The module's
specification is `AnnounceSpec`.

### RelayHub and RelayApi

`RelayHub` has the hub's three maps: `conn` is where `HandleWS` stands for each
connection and whether its mux is open, `agents` the entry of each agent,
`devices` the list a connection announced. `Accept` and `Register` are two
steps, as in the code, so connections of one agent may register in either
order; `Leave` is the deferred deletion that must not hit a newer entry. A
value of `Conn` stands for the epoch too.

`RelayApi` adds the consumers. A request (`req`) is a goroutine of the HTTP API
or of an MCP tool; its steps are the critical sections it passes through: an
open resolves the device, reads its UUID, opens the stream, looks up the
agent's entry and its reset count, and adds the session; a read looks up
entry and count and compares. Lists, connections and other requests change
between any two. `sess` are the `Session` objects, `table` is
`Broker.sessions`, `over` those of them whose stream has ended; `told` and
`most` are history.

### ControlRpc

`set_params` and `drain`: the relay's `rpc` with its `pending` map and timeout,
the control stream (`down`, `up`) that a silent network empties, the agent's
`controlLoop`, which handles one message at a time, and the heartbeat. A
connection carries at most one session. `loop` says which request the control
loop is working on; a drain may take for ever, which is why the heartbeat may
end a connection whose network is fine. `due` is history.

### SessionBuffer

One session of the broker. A byte is its position in the device's output. The
pump checks the buffer, reads the stream without the lock and puts the chunk
into the buffer; reads take bytes by the rules of `takeLocked`, return the rest
at EOF or at the deadline, or wait. `waiting` is the condition variable's wait
set, `Broadcast` empties it. A deadline that passes and the timer that wakes
the sleepers are two actions, as in the code. `got` is a history variable.
`Taken` is one `takeLocked`; `TakenLines` says in closed form where the loop of a
lines read over it ends, and `LinesLoop` in MCSessionBuffer is that loop.

### MonitorFanout

The bytes of a monitored device: `pump` reads and records, `history` is the
bounded backlog, `buf[s]` the bounded buffer of each subscriber, `reader[s]`
the goroutine of `bridge` that empties it and sends to a consumer who may
stall. Each action is one critical section of `monitor.mu` or `subscriber.mu`.
`Leave` and `Detach` are the two halves of `subscriber.Close`.
`AppendBounded` is `appendBounded`, which keeps the newest bytes.

### CredentialStore, HostKeys and Pairing

`CredentialStore` is `auth.json` with the processes that share it: the relay,
whose copy is reloaded when the file's stamp has changed (`current`), and admin
commands that read, change once and end. `saveLocked` is four steps (`open`,
`fill`, `rename`, `stamp`), as all processes write one temporary name and none
locks; `op[p].to` follows a writer whose file is renamed under its hands.
`Killed` ends a process between any two steps. The relay starts in two steps, as
`Open` reads the file and stamps it afterwards (`starting`, `Started`). `issued`
(the identities the relay answered with), `confirmed` and `clash` are history:
`clash` says that operations of two processes have overlapped, or that one was
saved between the two steps of the relay's start.

`HostKeys` is the host-key decision of `Dial`: the callback reads
`known_hosts`, accepts, asks, retries with the algorithms on file, or refuses; a
first key is recorded when it is accepted, before authentication, which may fail;
`Replaced`, `Removed` and `RecordedByOther` change the world between dials.

`Pairing` composes both with the web UI's pair handler (`ask`), the relay's
pair handler (`inbox`, `serving`) and the identity the agent keeps. An agent
may give up while the relay still serves its request.

## 3. Runs

| Run | Question | Result |
|---|---|---|
| `core_access` | Is a device exclusive, and does no session survive hiding, whatever an operator and a rescan that may fail do during two opens? | holds |
| `core_liveness` | Is no port lost but a failed monitor's, do unplugged and hidden devices become free, do dead streams leave? | holds |
| `core_release` | Does a release take the device from whoever claims it? (`core.go:594-597`) | violated |
| `tunnel` | Is the kill switch a latch for the loop, does only the current tunnel's session keep a connection, is Resume never lost, do replaced tunnels end? | holds |
| `tunnel_kill` | Does Disconnect sever the tunnel? (`tunnel.go:90-91`) | violated |
| `announce` | Does the relay know only what was shown to it, and does its list become right? | holds |
| `buffer` | Does every byte arrive once and in order, with a bounded buffer and no lost wakeup, do reads return, and does an ended session go? | holds |
| `relay` | Does the newest connection win, do sessions belong to their token and stay in its scope, is a reset news once? | holds |
| `control` | Does a success mean that the request was allowed, is nothing left pending, does the heartbeat end stuck connections only? | holds |
| `fanout` | Does a session miss no byte between backlog and live output, unless its buffer is full? | holds |
| `registry` | Are names unique and lasting over restarts, moves and failed saves, and are counted resets real? | holds, but for one reset after an early change |
| `pairing` | Is a token spent once, does a revocation hold, is a changed host key refused? | holds as long as operations on the file do not overlap, and none is saved into the relay's start; the host key always |

`tunnel_kill`: `session` publishes `kill` after the hello. A `Disconnect` that
comes between the check of the latch and that point finds nil; the connection
comes up and serves although the switch says stopped. The property looks only
at latched tunnels with no handler under way.

`core_release`: `ReleaseDevice` reads the claim of an open under way and calls
`CloseSession`, which knows registered sessions only. It does nothing,
`ReleaseDevice` returns true, the claim stays, and the open passes its check
`stillOurs` and registers: what the comment at `core.go:594-597` wants to rule
out, and against "reports whether a session was actually closed"
(`core.go:265-267`). Hiding is not affected, as the check looks at the record too
(`HiddenDeviceIsReleased`).

### Where the code and its words differ otherwise

These were met while modelling; the properties state what does hold.

* `startMonitor` opens the port without the lock (`core.go:331`). If monitoring
  is turned off meanwhile, `stopMonitor` finds nothing and the monitor is
  registered afterwards: the port stays taken until the operator turns
  monitoring off again or unplugs the device, against `README.md:166-169`.
  `PortHasOwner` counts such a monitor as an owner: it says that no port is lost,
  not that somebody wants it open.
* `pump` sets `closed` when a read fails, and `Close` returns early when
  `closed` is set (`monitor.go:103`): the port of a failed monitor is never
  closed, against `monitor.go:100`. `PortHasOwner` excepts the ports of monitors
  that have failed, and no others.
* `byUUIDLocked` inserts an entry that says offline for a device of the config
  that this run has not seen (`core.go:236-245`). If the operator changes such a
  device, its first sighting counts as a reset, against `core_test.go:104-107`.
  `ResetsAreReturns` allows exactly that one.
* Operations on `auth.json` are not locked against those of other processes.
  When they overlap, a revocation that was reported may be overwritten, against
  `auth.go:47-51`; and `pair-token`, having read the file before an exchange, puts
  the spent token back, which then gives a second identity, against `auth.go:163`.
  `StoreIsSound` and `TokenIsSpentOnce` hold until then.
* The relay's start reads `auth.json` (`auth.go:81`) and stamps it afterwards
  (`auth.go:94`). What another process saves in between counts as read: it is never
  reloaded (`auth.go:112`), so a revocation reported by then is not noticed, and
  the relay's next save overwrites it. Here, too, `clash` is set.
* The pump waits for room before it reads (`broker.go:147`), so with a full
  buffer and no reader it never sees the end of the stream, and its goroutine
  and entry stay for ever, against `broker.go:128-130`. `DrainedSessionIsReaped`
  is what holds.
* After a whole line a lines read asks `takeLocked` for the room that is left
  (`broker.go:275`); its rule "the delimiter never fit" then returns the first
  part of the next line, against `broker.go:193-194`.
* A read returns a slice of the array behind the session's buffer
  (`broker.go:286`, `291`, `303`, `308`, `315`), and the handlers encode it after
  the lock is released (`http.go:168`, `mcp.go:327`). A `Write` of the pump that
  finds no room at the array's end moves or resets the buffer and overwrites it
  meanwhile (`broker.go:158`): the consumer gets later bytes in the place of those it
  was due. `StreamIsIntact` is about the bytes a read takes under the lock.

### Bounds

* AgentCore: one device. All actions work on one device but for the ids, which
  are shared, and the cap on sessions; the proofs cover any number. Two streams
  make the hardware opens overlap, three session ids let a close of an old
  session be late. `core_liveness` has one stream, one session id and one monitor,
  which the operator and the rescan start and stop: a device that is to become
  free needs one holder, and late closes are covered by `core_access`. Two
  monitors and more operators are left to the theorem `PortsHaveOwners`, which
  has no hypothesis on them. `OperatorOps`, `Recorded`, `SavesFail` and
  `PortMayFail` select which requests, records and failures a run has. The
  operator's own saves fail in no run: the hidden device then keeps its session
  (`core.go:256`), and only theorems without that hypothesis speak of it.
* AgentTunnel: two tunnels, one that replaces the other, and two handlers, so
  that a disconnect meets a resume or a replacement. No counter is bounded.
* Announce: two devices, two announcing goroutines beside that of the session.
  `MaxWire` bounds the announces under way to two: `Send` waits, which only
  delays.
* SessionBuffer: two readers, four bytes in chunks of up to two through a
  buffer of three (`BufCap`), reads of up to two (`MaxRead`), lines that end at 1
  and 3. The pump sleeps and wakes, a line fits, does not fit and is cut. The
  sizes keep the order of the code's (`MaxRead <= BufCap`), on which the absence
  of lost wakeups rests: a read that times out takes bytes without waking the
  pump, and may do so because a full buffer would have completed it.
* RelayApi: two agents, two connections (which may be one agent's), one name and
  one UUID, counts up to two (`MaxResets`), one session id, two requests, a
  token scoped to one agent and a read-only one. Connections and ids are reused
  once nothing refers to them, so any number may follow each other.
* ControlRpc: a connection and its successor, one caller, two ids, so that the
  answer of a request that timed out meets the next request; the proofs have
  any number. `Tick` waits until what is on a working wire was handled
  (`Prompt`): 15 s are long against the handling of a message. Ages stop at 3,
  where the heartbeat has given up.
* MonitorFanout: two sessions, five bytes in chunks of two, a history of two, a
  subscriber's buffer of three: both overflow. The sizes keep the order of the
  code's (`HistoryBytes <= SubscriberBytes`).
* Registry: a unit with a serial number and one without USB, two ports, three
  handles and three UUIDs, so that names run out; a device that was seen appears
  again at most twice while the agent runs (`MaxPlugs`).
* Pairing: one command at a time beside the relay, two tokens, two identities,
  two algorithms, keys up to generation 2 (`MaxGen`). No command starts once
  operations have overlapped (`clash`); one request is on its way at a time, and
  the agent dials again once the relay has taken it; the server's keys and
  `known_hosts` change before a form is submitted, hence not between the check of
  a key and its recording (`sshtun.go:469-495`), and there is one dial at a time;
  every write has a stamp of its own.

`CHECK_DEADLOCK FALSE` is set for SessionBuffer and MonitorFanout: a session, or
a monitor, that is over has nothing left to do.

### Fairness

Weak fairness, of single goroutines, everywhere but in the rescan:

* a goroutine that can run does (`Calling`, `Serving`, `Running`, `Handling`,
  `Announces`, the pumps, the readers, the control loops);
* the agent's main loop rescans every 3 s (`Enumerate`, `Reconcile`, and
  `Report` in Announce). A rescan may fail any number of times in a row, but not
  for ever (strong fairness of `Reconcile`): a failed save leaves the new record
  in memory, so the next rescan has nothing to save, and a namespace that stays
  exhausted is excluded;
* dials and hellos have time limits (`helloTimeout`, contexts);
* the second direction of a bridge ends once the port is closed: the read of the
  port fails, and the closed yamux stream is cut after `StreamCloseTimeout`
  (10 s). While another goroutine has yet to close the port, `Finish` may happen
  but need not (`Waiting`);
* a bridge ends once its stream is gone (`StreamEnds /\ MustEnd`), and only then
  for sure: while the stream lives, the direction that reads the port may be
  blocked in its write to a consumer that stalls; a connection ends once it broke
  or was cancelled;
* timers fire, the heartbeat ticks, and the grace period of a session ends.

Nobody is obliged to ask for anything: consumers need not read or close, and may
stall while they are sent to (`Sent` has no fairness); operators need not act,
devices need not speak, a drain need not end, a silent network may stay silent,
and hardware may stay unplugged. RelayApi, Registry and Pairing state safety
only and assume no fairness.

## 4. Proofs

| Module | Theorem | Statement | Assumption |
|---|---|---|---|
| `AgentCoreProofs` | `TypesAreCorrect` | `Spec => []TypeOK` | |
| | `ClaimsAreExclusive` | `Spec => []ExclusiveClaims` | |
| | `SessionsAreServed` | `Spec => []SessionIsServed` | |
| | `HiddenDevicesAreReleased` | `Spec => []HiddenDeviceIsReleased` | `"operator" \notin SavesFail` |
| | `PortsHaveOwners` | `Spec => []PortHasOwner` | |
| | `CoreImplementsAccess` | `Spec => ImplementsAccess` | |
| `TunnelProofs` | `TunnelTypes`, `ConnsAreServed` | `Spec => []TypeOK`, `[]ConnIsServed` | |
| | `LatchHolds` | `Spec => StoppedNeverDials` | |
| | `AnnounceTypes`, `HiddenDevicesStayUnknown` | `AnnounceSpec => []AnnounceTypeOK`, `[]HiddenStaysUnknown` | |
| `SessionBufferProofs` | `BufferInvHolds`, `BufferIsBounded` | `Spec => []BufferInv`, `[]TypeOK` | |
| | `BytesArriveInOrder`, `NoWakeupIsLost`, `NothingFollowsEof` | `Spec => []StreamIsIntact`, `[]SleepersHaveReason`, `[]EofIsLast` | |
| | `LinesLoopTakesLines` | `TakenLines` satisfies the recursive equation of the loop | |
| `RelayProofs` | `HubKeepsNewest` | `HubSpec => []NewestConnWins` | |
| | `RelayKeepsNewest`, `RelayTypes` | the same under `Spec`, with the consumers; `Spec => []TypeOK` | |
| | `AccessGranted`, `NewsOnce` | `Spec => []AccessIsGranted`, `[]NewsIsToldOnce` | |
| `ControlRpcProofs` | `RpcTypes`, `AnswersAreTrue`, `NothingStaysPending`, `HealthyLinksStay` | `Spec => []TypeOK`, `[]AnswerIsTrue`, `[]PendingIsAwaited`, `[]HealthyLinkIsKept` | |
| `MonitorFanoutProofs` | `FanoutInvHolds`, `MonitorIsBounded` | `Spec => []FanoutInv`, `[]TypeOK` | |
| | `HistoryStaysRecent`, `SubscribersMissNothing` | `Spec => []HistoryIsRecent`, `[]OnlyOverflowLoses` | |
| `RegistryProofs` | `RegistryTypes`, `NamesStayUnique`, `CountsAreReturns`, `FileIsCurrent` | `Spec => []TypeOK`, `[]NamesAreUnique`, `[]ResetsAreReturns`, `[]NothingIsUnsaved` | |
| | `UuidsAreForever` | `Spec => UuidIsForever` | |
| `PairingProofs` | `PairingInvHolds`, `PairingTypes` | `Spec => []PairingInv`, `[]TypeOK` | |
| | `TokensAreSpentOnce`, `StoreStaysSound` | `Spec => []TokenIsSpentOnce`, `[]StoreIsSound` | |
| | `VerdictsAreRight` | `Spec => VerdictIsRight` | |

The runs check `TypeOK` where it says something about the code: the bound of the
session's buffer and of the monitor's, and that the relay's pair handler answers
an agent that waits. Elsewhere the types are proved only.

The theorems hold for any sets of devices, agents, connections, tokens, goroutines and
ids, and rest on the named assumptions of the modules on their constants only
(`ThreadsAssumption`, `HubAssumption`, `ApiAssumption`, `RpcAssumption`,
`RegistryAssumption`, `ValuesAssumption`, `ReadersAssumption`, `StoreAssumption` and so
on): goroutines and processes are distinct, `None` is no value, an absent or torn
file is no content, bounds are numbers. Three of them keep the order of the code's
sizes, and the proofs need them: `MaxRead <= BufCap`, `HistoryBytes <=
SubscriberBytes`, and at least one byte per read (`SizesAssumption`,
`FanoutAssumption`). TLC evaluates each of them on the runs. Each inductive
invariant was checked by TLC on the bounds of its run before it was proved.

**Core.** `ExclusiveClaims` alone is not inductive: a failed open deletes
the claim of its device unconditionally (`core.go:589`), which is right only if
the claim is the open's own. `ClaimInv` adds what the code relies on: the shape
of a stream's local state, that a session id being opened is not registered
yet, so that no `CloseSession` can touch its claim, and that ids are not
shared. `OwnCalls` and `ServedInv` add that a stream in its last step has its
own close pending until the session is gone. `HiddenInv` adds that the release
of a hidden device stays pending until its claim is closed. `PortInv` relates
open ports to registered sessions, to opens that hold the port but have not
decided yet, to pending `portclose` and `monclose` calls and to the monitors,
registered or failed.
One lemma per frame (`Frame`, `CallsStay`, `SessionsChange`, `ExposedFrame`,
`PortFrame`) says what most actions leave alone, and each step lemma has one
case per action. Refinement (`AccessStep`) maps `Claim` to `Hold`, `Register` to
`Grant`, `CloseSession`, `OpenFails` and `Abandon` to `Free`, and exposure to
`Allow` and `Forbid`; every other step stutters.

**Tunnel and announce.** `TypeOK /\ ConnIsServed` is inductive as it stands: a
connection's `kill` and its loop's step determine each other. `ListsInv` follows
the lists on their way: a goroutine that may still send belongs to the
connection that is up, and what it holds, and what is on the wire, was shown.

**Relay.** `OpenConnIsListed` and `EntryIsServed` are inductive only together
(`HubInv`): that a deferred `Leave` deletes nobody else's entry needs that an
entry is served, and that an open connection is listed. `AccessInv` says of
every request what it has established so far: its token may open in this scope,
and the session it works on is its own or one it is opening, which nobody else
refers to. `NewsInv` bounds every count a request carries, and every list of the
session's connection, by `most`; a count that was compared has been told.

**Control.** Ids tie everything together (`CallInv`): an id belongs to one
request from the lookup to the answer; what travels or is worked on under an id
that is still asked for was sent by that request, waiting; and an answer of
success, or a busy control loop, is there only once the request was due. An
answer to a request that gave up finds no owner, whichever connection it came
by. `HeartInv` says that on a working network the ping or its pong is on its
way whenever the age is not zero; once nothing is in flight the age is zero.

**Registry.** `Keeps` says that a key of the file stays in the config with
its UUID, `Stopped` that an agent that does not run has nothing in memory;
`ResetsInv` relates counts to returns through the snapshot of a rescan that may
be stale: a device that was seen, is offline in memory and present in the snapshot
has returned once more than was counted. An entry that the operator's change
inserted (`TouchStep`) is offline too, and accounts for the one count in `early`.

**Session buffer.** `BufferInv` adds three parts. `OneChunk`: the pump holds a
chunk only between reading and putting it, and the chunk is one read of the stream;
that is where the bound comes from. `PumpEndsLast`: as long as the consumer has not
closed the session, only the pump closes it, in its last step, and no read reports
EOF before; so EOF cannot overtake a chunk. `SleepersRead`: only readers with a
call sleep. The delicate step is `TimeOut`, which takes bytes and tells nobody:
the pump may sleep only while the buffer holds `BufCap` bytes, and then every
call would be complete, since no call asks for more (`MaxRead`). That a read
which takes the front of the buffer leaves the other sleepers without anything
to take is a lemma on `Complete` and what remains of the buffer.

**Monitor.** All bytes are pieces `From(i, j)` of one stream, and the lemmas
say how pieces join, split and lose their oldest bytes. `AppendKeepsNewest`:
what `appendBounded` makes of the newest bytes and the next piece is the newest
again. `ChunkFollows` says that the pump's chunk comes right after what is
recorded, `Membership` that who attached and has neither left nor been ended is in
`subs`; without the latter a push could pass a subscriber by. The replay at attach
fits into the subscriber's buffer because `HistoryBytes <= SubscriberBytes`.

**Pairing.** A token that gave an identity of a copy is not fresh in it, and gave
no other: in the file, in the temporary one, and in every process's memory
(`CopiesAreSpent`). This needs no order between processes, since a copy is only
ever replaced by another copy. Across copies it says nothing: an older copy, in
which the token is fresh, may replace one in which it is spent. That nothing is
lost holds while no operations have overlapped (`Alone`): then one operation at
most is under way, its step tells what is in the two files (`SaveShows`), and its
copy carries all that the file has (`NothingIsLost`), so the rename, whichever
process dies before or after it, removes nothing; a relay whose stamp is the
file's carries it too, unless its start stamped what it had not read, which is a
clash. `OpsAreReal` ties an operation to an identity of its copy, and
`IssuedIsStored` every identity the relay has answered to the file. Both together
give `TokenIsSpentOnce`: all that was issued is in one copy. `DialIsCurrent` says
that a handshake compares with the keys that are still on file, which the model's
world grants (it changes between dials), and that the second handshake asks for
the algorithms on file.

Only model-checked: the liveness properties (`DeviceIsFreed`, `DeadStreamLeaves`,
`ResumeReconnects`, `ReplacedTunnelEnds`, `ListHeals`,
`ReadsReturn`, `DrainedSessionIsReaped`, `StuckConnEnds`, `ReadersReturn`), as
fairness and ENABLED are out of the prover's reach. That the recursion
`LinesLoop` computes `TakenLines` for buffers of every length would be an
induction over data: the theorem proves the step, TLC evaluates `LoopAssumption`
for buffers of up to four bytes.

## 5. Left out

Not modelled:

* Formatting, logging and the activity log; the checks of hosts and origins in
  the web UI; the OS service manager; the web page; command-line parsing.
* yamux, WebSocket, SSH and the serial drivers: modelled by what the code uses
  of them (a stream ends, a connection breaks, an open fails).
* Frames and version negotiation: a frame is a message in the models.
* The bytes a consumer writes: `Session.Write`, `subscriber.Write` and the other
  direction of `bridge` change no state the properties speak of. A `SetParams`
  that changes nothing needs no grant and is left out.
* The pairing limiter's counter (a refusal may come at any time in Pairing) and
  API tokens in the store, which are only appended and looked up.

Boundaries between the modules: `AgentCore` has devices but not their names,
`Registry` names but no sessions. `RelayApi` leaves open which lists an agent
announces, `Announce` says how they come about. `ControlRpc` knows a session by
its connection only. The hardware of `MonitorFanout` has one monitor's life; that
a monitor is started and stopped is in `AgentCore`.

Three listed hazards have no property, for the reason their note gives: the
session cap while opens are under way, exposure when the config cannot be
saved, and the array behind a session's buffer. Left out, as the code promises nothing there: a port that is
reopened before its last session closed it (`core.go:631`; the open may fail),
the `CloseAll` of a replaced tunnel that meets sessions of its successor
(`tunnel.go:282`), the limiter at a window's edge (`serve.go:160`), the last
write of a released session (`monitor.go:180`), another unit at the path of the
last rescan (`core.go:567`) and two units with one serial number
(`serialdev.go:57`).

## 6. Plan

* Refinement: `SessionBuffer` implements a FIFO between the stream and the
  readers (`sent`, `got` as its state); `RelayHub` an access map from agents to
  connections; each step by step, as `AccessStep` for the core.
* Lemmas a composition needs: `RelayHub` with `SessionBuffer` (a session outlives
  its connection by its grace period), `Registry` with `Announce`.
* The array behind the session's buffer (see section 3), so that
  `StreamIsIntact` can be asked of what the handlers encode.
* `Frames` (`Negotiate`, frame limits against reference definitions) and
  `PairLimiter`.
