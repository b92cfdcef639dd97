# Backhaul-Pro in TLA+

Backhaul-Pro is a reverse tunnel. A *server* on a public host accepts user
connections on a set of ports; a *client* behind NAT dials the server and
carries each user connection to a service on its side. One process is either
of the two. This directory holds TLA+ modules for the parts of it where
goroutines, connections and counters can get out of step, the TLC
configurations that check them, and TLAPS proofs of what the checks suggest for
every size.

    tlc -workers 2 -config MCTcpMux.cfg MCTcpMux      # one run
    tlapm TcpMuxProofs.tla                            # one proof module

`PROJECT.json` lists components, runs, the mutated definitions that break each
property, the source lines behind every definition, findings, hazards and
theorems.

## 1. Inventory

| Part | State | Operations | Talks to |
|---|---|---|---|
| tcp server (`server/transport/tcp.go`) | `ctx`, `controlChannel`, `tunnelChannel`, `localChannel`, `reqNewConnChan`, `restartMutex` | `Start`, `Restart`, `channelHandshake`, `channelHandler` and its reader, `acceptTunnelConn`, `acceptLocalConn`, `handleLoop`, `parsePortMappings` | client by one control connection (SG_* bytes) and tunnel connections |
| tcp client (`client/transport/tcp.go`) | `ctx`, `controlChannel`, `controlFlow`, `poolConnections`, `loadConnections`, the locals of `poolMaintainer` | `Start`, `Restart`, `channelDialer`, `channelHandler` and its reader, `poolMaintainer`, `tunnelDialer`, `localDialer` | server; local services |
| tcpmux, both sides | as tcp, plus `streamCounter`, `sessionCounter` and one `counter` channel per session | as tcp; `handleSession`, `handleSessionError` | as tcp, streams in smux sessions |
| ws, wsmux | as tcp / tcpmux over HTTP upgrades; a ping channel and a write mutex per tunnel | HTTP handler instead of the accept loop, `keepAlive` per idle tunnel | as tcp |
| udp | tables of flows and of tunnels by address, a payload channel each | `localListener`, `acceptTunnelConn`, `handleLoop`, `udpCopy`, `keepAlive` | datagrams both ways; control link as tcp |
| accept_udp | `activeConnections`: address -> flow | `udpListener`, `handleUDPLoop`, `UDPConnectionHandler` | tunnels of the tcp pool |
| quic | `localChan`, `tunnelChan`, `getNewConnChan`, `coldStart`; the client's `activeConnections` | `handleTunConn`, `handleSession`, `keepalive`, `poolChecker` | streams in QUIC connections |
| relay (`utils/*ConnHandler.go`) | two copy goroutines | copy, close both | usage monitor |
| framing (`utils/binary.go`) | none | length-prefixed strings, tagged strings, bytes | every transport |
| usage monitor (`web/sniffer.go`) | counters per port, a log file | add, save every 15 s, serve HTML | relays |
| process (`main.go`, `cmd/cmd.go`) | globals `ctx`, `cancel`, `tuner`, under `mu` in part | start, `hotReload`, `handleShutdown`, `forceShutdown` | one server or client, one tuner |
| tuner (`tuning/`) | parameters, interval | sample, adjust | configuration object, not the running transport |
| configuration, defaults, transport selection | TOML values | load, fill defaults, choose a transport | process |
| kernel parameters, TLS, logging, installer | operating system | - | - |

What makes it hard. Every transport keeps its context and channels in struct
fields that `Restart` replaces two seconds after it cancelled the old ones,
while goroutines of the old run may still hold the old values or pick up the
new ones. Both sides restart on their own, so they meet in a handshake with
leftovers of the previous run in the queue. Tunnels are requested one per user
connection, swallowed by tokens and topped up by averages, and nobody counts
them end to end. Counters are reset under goroutines that will still decrement
them. A reload replaces the global context while a shutdown may be using it.

What correctness means for each part: requests, tunnels and tokens balance
(pool); no connection is held by two goroutines or used after it was closed, and
user connections are dropped only where the design says so (server); nothing of
one run acts on the account of the next (client); after any fault both sides
share a working control channel again, in bounded time (link); counters mean
what they are compared for, and every queued user connection is served (mux);
what a table holds is open and served (udp, accept_udp); the first message of a
tunnel is the address and idle tunnels are closed in the end (ws); sessions hand
over one at a time and keep their users (quic); traffic is neither doubled nor
lost (usage); every mapped port listens and only a wrong configuration ends the
process (ports); one instance runs, a signal ends the process, the last
configuration wins (process).

`PROJECT.json` lists the individual hazards at their lines.

## 2. Modules

### TunnelPool: the supply of tunnels between two restarts

One counter per place where a user connection, a request, a tunnel or a token
can be. `AcceptLocal`, `SendRequest`, `TakeLocal`, `AgeCheck`, `Handoff`,
`HandoffFails`, `AcceptTunnel` are the server's `acceptLocalConn`,
`channelHandler`, `handleLoop` and `acceptTunnelConn`; `ReceiveRequest`,
`DialTunnel`, `DialFails`, `ReceiveAddr`, `TunnelBreaks`, `SamplePool`,
`AdjustPool`, `SignalShrink` the client's. A tunnel that the server closes because
its address is not that of the control connection is a fault. `AdjustPool` computes with the
factors and the ceiling division of the code. `SignalShrink` is separate because
`controlFlow <- struct{}{}` can block. `Conservation` is the equation the code
never writes down: supply + lost = unserved + intended pool + tokens + expired.

### TcpServer: who owns a connection, across restarts

Here connections have identities and each `Start` a run number. A goroutine
keeps the context and channel it read when it entered its `select`; a run's
goroutines may be arbitrarily late. Connections are `outside`, `open` or
`closed`; the owners of one are the channels, goroutines, relays and the
`controlChannel` field that hold it. Channels are sets with a capacity. Time is
left out, so what is shown does not rest on the two seconds of `Restart`.

### Forwarding: what the users are promised

The abstract specification: a user connection is outside, waiting, relayed,
closed or lost; it joins one tunnel that no other user has; only a period that
ended loses one. `TcpServer!ServesUsers` is `Forwarding!Spec` under a refinement
mapping: waiting is being in a `localChannel` or in the hands of a `handleLoop`,
relayed is having a relay, lost is being open and neither, `accepted` is the run
whose `localChannel` the connection was put in, `ended` are the cancelled runs.
Steps of the handshake, of the control channel and of tunnels without a user are
stutters.

### TcpLink: both sides finding each other again

Both sides, connection by connection, with a clock in seconds: the unit of the
two second sleep and read deadlines, the retry interval, the reader's back-off
(1 s, 2 s), the back-off of `TcpDialer` and the restart delay of the service
unit. `Tick` is enabled only when no goroutine can run, so runnable goroutines
take no time and timers that expire together are served in every order.
Faults: `Cut` of a control connection or of a candidate still in its handshake;
`SilentLoss`, in which either end runs into the loss first and the other, reading
without a deadline perhaps, learns of it by keep-alive or a heartbeat of its own
(`Detect`); `Kill` of either process, in the sleep of its `Restart` too (phase
`sleep`; a process that is down is in phase `dead`); a failing token send. Most
actions take the side as a parameter, since the code of both sides is the same.
A silent loss stops the clock of `down` until it is detected.

### TcpClient: what one run of the client leaves to the next

`TunnelPool`'s client with `Restart`: dialers that survive it, a
`poolMaintainer` blocked in its send, tokens, counters that are reset. The
control channel is an environment that comes and goes.

### TcpMux: sessions, slots and counters of tcpmux

One record per `handleSession` goroutine: its program counter, the length of its
`counter` channel (`used`), the relays of this and of earlier runs, slots
leaked. `AcceptLocal`, `CountStream`, `CompareCounters` are the three steps of
`acceptLocalConn`; requests travel as in `TunnelPool`. A session waits for a slot
(`TakeSlot`), for a user connection (`TakeLocal`, `SessionCancelled`), opens a
stream (`OpenStream`), fails (`FailSession` = `handleSessionError`), sends the
address (`SendAddr`), re-queues (`Requeue`) and relays (`RelayEnds`). `Restart`
waits for every goroutine that is not blocked (`Blocked`) and resets the
counters; those blocked in `counter <-`, where no context is looked at, go on in
the next run (`Survivor`). The two loads of the comparison are one step;
`poolMaintainer` may resize whenever it likes.

### WsLink: the control link of ws and wss

The counterpart of `TcpLink` where the control channel is an HTTP upgrade: the
client asks for `/channel`, each request has a goroutine (`RequestChecks`,
`RequestSets`), a second request while the server believes to be linked closes
both connections and restarts it. Readers dereference the field anew on each
turn and end the process when they find nil (`ProcessDies`). Faults: cut, silent
loss that either end runs into first, kill and hot reload of either side, in the
middle of its `Restart` too. A client's `Restart` that a reload overtakes goes on,
on the parent context that is done, and starts nothing. A reader that a reload leaves in
`ReadMessage` holds its connection until the read returns (`ReaderLeaves`). The
clock is that of `TcpLink`, except that `Tick` names the condition under which
some goroutine can run (`Runnable`) instead of saying `ENABLED Urgent`, so that
the provers can use it; TLC found the two equal in every reachable state of the
run's instance and of one with two faults, four connections and four goroutines of
a kind.

### WsTunnels: an idle websocket and its users

`keepAlive` pings an idle tunnel under a mutex it only tries; `handleLoop` closes
the ping channel, takes the mutex for good and writes the address; the client's
`tunnelDialer` looks at its context before each read, skips pings and takes the
next message for the address. The wire
is a sequence of ping, addr and data. Both contexts may be cancelled at any time.

### QuicTunnels: sessions one at a time

`handleTunConn` starts a `handleSession` per tunnel and waits on `next` until it
is full or has failed. Goroutines keep the context and channels of the run in
which they entered their `select` and read them again on the next turn, so a
session or a loop may cross a restart. `QtActive` is the client's
`activeConnections`. Of the control connection there is whether the field is set
and how many handshakes and keepalives are under way (`qtLinks`): a connection
that finds the field nil starts a handshake (`QtCandidate`), and nothing keeps two
of them from succeeding (`QtLinkUp`). A process that has exited stays so. A
handshake that would succeed between the cancel of `Restart` and the end of
`TunnelListener` fails here.

### AcceptUdp and UdpFlows: tables of flows

Datagrams are counted. A flow or tunnel has a payload channel with a capacity,
an entry in a table and goroutines that read it; the reader that fills a table
inserts, queues and, when the queue is full, deletes in separate steps, as the
code does. `UdpFlows` also has the deletes outside the mutex: when another
goroutine uses the map meanwhile, the Go runtime may end the process or not.
`AuPacketAge` keeps the wrap-around of the time stamps.

### UsageStore: from relays to the log file

Counters in memory per `Usage` value, savers started by the ticker whether or
not the last is done, the file with its truncated intermediate state, the cleanup of a
file that cannot be decoded (remove, create, write, each of which may fail), the
panel that creates a missing file and then writes the empty list, `Restart` (which
makes a new `Usage`, monitored on the server only) and a crash. Who has the file
open when a cleanup removes it writes in vain. `usExcused` records the events
after which a loss is explained.

### PortMap: the user ports

A configuration is a sequence of mappings, each the form it has and the numbers
in it. `PmAdvance` walks it one port per millisecond, `PmOpen` binds or ends the
process, also because another process, the tunnel or the web page holds the port
at that moment (`PmForeign`: the ports this may happen to); `Restart` cancels and starts over 2000 ms later, with the walker of the
old run perhaps still at work.

### HotReload: the process

`main`, `hotReload`, `handleShutdown`, `cmd.Run` and the globals they share. An
instance is live while its context is not cancelled. Every reload creates one
context, whose number also names the goroutine that runs the instance under it.
A half-written file ends the process; the service manager starts it again
(`ServiceStarts`). The first `Stat` of `hotReload` is a step of its own.

### Composition

`TunnelPool` composes both sides of the tcp pool, `TcpLink` both sides of its
control link, `TcpMux` both sides of tcpmux; `TcpServer` and `TcpClient` each
take the other side as an environment that can do anything it can do there. The
MC modules only add the symmetry sets. `TcpMux`, `TcpServer` and `TcpClient`
treat the failing of the control channel as an event whose inside is in
`TcpLink`. `MCServices` puts six parts that share no state (`AcceptUdp`,
`UdpFlows`, `WsTunnels`, `QuicTunnels`, `UsageStore`, `PortMap`) into one
specification, in each behaviour of which one of them moves.

## 3. Runs

| Run | Question | Bounds |
|---|---|---|
| `pool` | books balance, supply suffices while nothing was lost, `poolConnections` exact | 2 user connections, channels of 1, pool up to 2, 1 fault, 2 samples per period |
| `pool_live` | every user connection is eventually handed over | channels of 4, 2 tokens, 1 sample per period, else as above |
| `server` | one owner, owned means open, and the server implements `Forwarding` | 2 users, 2 tunnels, 2 control candidates, 1 restart |
| `link` | recovery within 10 s of one fault, and `<>[]Linked` without a time bound | 1 idle tunnel left in the queue, 3 connections at a time |
| `link_twice` | recovery within 8 s of the second fault, whenever it falls: handshakes under way and the sleep of `Restart` included | no tunnels, 4 connections at a time |
| `client` | no run acts on the account of the next, the pool is never overcounted | 1 restart, 2 requests, pool up to 2 |
| `mux` | counters exact up to what earlier runs take off them, requests keep up with streams, the queue empties again whatever was swallowed or leaked | 2 sessions of 2 slots, 2 users, 1 fault, 1 restart |
| `ws_link` | one control channel at a time, recovery within 9 s of one fault, and `<>[]Linked` | 3 connections, 3 goroutines of a kind |
| `services` | six parts, each against its own races (below) | 2-3 users or flows, 2-3 tunnels, channels of 1, 2-3 runs |
| `reload` | one instance, signals end the process, the last file wins | 3 edits, each possibly in two steps, 2 signals |
| `mux_slots`, `reload_tuner` | disagreements, section 6 | |

The properties of `services`:

- accept_udp: the entry a user's datagrams go to is served (`AuTableServed`), a
  user has one uncongested flow (`AuOneFlow`), a flow is replaced only when a
  reply was late, also across the wrap of the time stamps (`AuNoFalseCongestion`);
- udp: no datagram goes to a closed channel (`UdEntriesOpen`), none to an entry
  without a reader but for the two exceptions the code makes (`UdEntriesServed`),
  no ping follows the address (`UdAddressLast`);
- ws: the client reads pings, one address, data (`WtFraming`); an idle tunnel has
  a goroutine that will close it (`WtIdleWatched`);
- quic: `handleTunConn` waits exactly for the session that owes it a signal
  (`QtHandover`), and no user is lost by sessions that fail (`QtUsersKept`);
- usage: nothing is counted twice (`UsNeverOvercounts`), nothing is lost unless
  savers overlapped, a write failed, the process ended or the panel created or
  filled the file meanwhile (`UsAccounted`);
- ports: the process exits only for the reasons listed (`PmExitExplained`), and a
  run that has walked its mappings listens on all of them (`PmAllListen`).

Why the bounds are enough to be interesting. Channels of size 1 or 2 are full,
empty and in between within three user connections. One restart gives two runs
side by side, which is all a goroutine can mix up (it holds the values of one
run and the struct fields hold another's); the client was also explored once
with two. Two slots per session distinguish a leaked slot from a full session.
One fault of each kind at every point of the life cycle reaches each error path;
`link_twice` adds a second one during recovery. In `HotReload` two edits overlap
one reload, a third follows them, and one shutdown overlaps all. The times of
`link`, `link_twice` and `ws_link` are tight: one second less is violated. In
`services` the payload channels, queues and the number space of the time stamps
are small enough to fill and wrap, a range has more ports than `Restart` sleeps
milliseconds, and of the loads of `UdpFlows` one has three flows, one three
tunnels. `link` was also explored with four
connections at a time, and `server` with two handle loops per run.

`CHECK_DEADLOCK FALSE` stands where the bounded environment runs out of user
connections, faults and restarts, or the process has exited. `TcpLink` runs check
for deadlock: its clock always ticks.

Fairness. `pool_live`, `mux`: weak fairness of each goroutine's step (Go's
scheduler runs runnable goroutines) and of `poolMaintainer`'s tickers; relays end
and dials complete or fail; a restart that began ends and the client links again.
Users and faults need not act. In `mux` `poolMaintainer` is required to act only
on an empty pool, where the condition of the code always holds. `link`,
`ws_link`: the clock, runnable goroutines, TCP keep-alive (the code enables it on
every connection) and the finaliser of unreachable connections. `reload`: the
ticker, the five second timer, the goroutines and the service manager
(`Restart=always`). No fairness is assumed of the environment's choices (which
timer first, which case of a `select`).

## 4. Proofs

TLAPS proves, for every value of the constants:

| Module | Theorem: what holds always |
|---|---|
| `TunnelPoolProofs` | `TypeCorrect`, `ConservationHolds`, `PoolCounterHolds`, `ProvisioningHolds`: `TypeOK`, `Conservation`, `PoolCounterExact`, `EveryLocalProvisioned` |
| `TcpClientProofs` | `OrdersHold`, `NeverOvercountsHolds`: `OrdersExact`, `NeverOvercounts` |
| `TcpServerProofs` | `TypeCorrect`, `OneOwnerAlways`, `OwnedIsOpenAlways`: `TypeOK`, `OneOwner`, `OwnedIsOpen`; and `Serves`: `Spec => ServesUsers`, the refinement of `Forwarding` |
| `TcpMuxProofs` | `MuxTypeCorrect`, `MuxProvisioned`, `MuxSessionCounter`, `MuxStreamCounter`: `TypeOK`, `Provisioned`, `SessionCounterExact`, `StreamCounterExact` |
| `HotReloadProofs` | `OneInstanceAlways`: `OneInstance` |
| `TunnelProofs` | `WtFramingAlways`, `WtIdleWatchedAlways` (ws); `QtHandoverAlways`, `QtUsersKeptAlways` (quic) |
| `ServiceProofs` | `AuTableServedAlways`, `AuOneFlowAlways`, `AuNoFalseCongestionAlways` (accept_udp); `UdEntriesOpenAlways`, `UdEntriesServedAlways`, `UdAddressLastAlways` (udp); `UsNeverOvercountsAlways`, `UsAccountedAlways` (usage); `PmAllListenAlways`, `PmExitExplainedAlways` (ports); `SvParts`, `SvTypeCorrect`, `SvSafe`: the composition, its `SvTypeOK` and all service properties together |
| `WsLinkProofs` | `OneControlHolds`: `OneControl`; `OneDialerHolds`, `OneHandlerHolds`: one `channelDialer`, and one `channelHandler` per side, at a time; `FieldNeverOverwritten`: the action property that `controlChannel` goes from nil to a connection and from a connection to nil only |

Assumptions are those of the `ASSUME` in each component module: capacities,
sizes and bounds are natural numbers, capacities and `mux_con` at least 1,
finitely many session names and savers. Beyond that: the sleeps of `Restart`, of
the service unit and of a reload are at least a second (`WsLink`: 2, 3 and 3 in
the code; with none, a dialer can start next to what it should replace); user connections, tunnels
and control candidates are different connections (`TcpServer`); the time stamps
of accept_udp wrap later than any delay (`AcceptUdp`: after 600000 ms, ten minutes, in the code); in
`PortMap` the numbers of a mapping are at most one above the highest port, that
one standing for all larger ones, and an address with port 0, where the kernel
chooses the port, is left out. Every `ASSUME` is evaluated by the run of its
module.

Each component has an inductive invariant, the property itself being too weak to
survive a step. TLC checked each before it was proved. What they add:

*TunnelPool.* `IInv` = `TypeOK`, `Conservation`, `PoolFloor`, `PoolCounterExact`.
Each step moves one unit between two terms of each equation. Provisioning follows:
with nothing lost the supply exceeds the unserved by the intended pool, which
`PoolFloor` keeps at `ConnPoolSize`.

*TcpClient.* `OrdersExact` says nothing while no run is on, so by itself a run
could start with tokens of the last; `StartsClean` adds that between runs there is
no handler, no maintainer and an empty `controlFlow`, which is what `Restart` must
establish.

*TcpServer.* `OneOwner` compares owners as a set of tags; `Owned` says the same
place by place (`TunnelApart`, `LocalApart`: what one queue, goroutine or relay
holds no other does) together with `HeldOpen`, whose point is that a connection
still `outside` is held by nobody: that is why the accept loops introduce no
second owner. The refinement needs `RunBook` as well: `ctx` is ahead of the
channels only inside `Restart`, the loops of a run do not exist before its
`Start` has finished, and a user connection is in a channel of the run it was
accepted for, or with a loop whose context is that run's or a later one. So a
loop that drops its user because its context is done does so in a period that
`Forwarding` has ended. Every action is then one step of `Forwarding` or a
stutter; the case analysis is by action, the tunnel of a user is a function of
the relays of that user.

*TcpMux.* `TypeOK` bounds the relays of a session by `mux_con`, which no action
checks; it holds because every relay holds a slot. `SlotBook` says so, leaked
slots included: used = relays + old relays + leaked + the one in hand.
`Provisioned` multiplies: streams <= (counted + under way + swallowed) * MuxCon +
those yet to compare. `Covered` names what nearly all steps do (total capacity
does not fall, uncompared streams do not rise); only `CompareCounters`, which may
spend an uncompared stream because the comparison showed a free slot, and
`RestartFinish` are done by hand. `SessionCounterExact` follows the set of counted
sessions through the two actions that change it. `StreamCounterExact` is a sum
over the sessions, written as the number of pairs of a session and one of its
relays: a step adds or removes one pair, and the cardinality theorems do the
rest. `StreamBook` adds that a name no session uses has nothing left of the last.

*HotReload.* `Single`: a reload makes one context and takes a newer modification
time, so contexts never outnumber edits (`Numbered`); every context but the
current one is cancelled, the current one too while a reload sleeps
(`Replaced`); the goroutine about to call `cmd.Run` is that of the current
context, which no instance has yet (`OneStart`). Two live instances would both
have the current context, and then they are one.

*WsTunnels.* `WtInv`: the mutex of a tunnel tells whether the address was written,
because `keepAlive` holds it for a ping and `handleLoop` for good (`WtShape`);
before that the wire holds only pings, after it what the dialer has yet to read
starts with pings and the address (`WtOrder`); a waiting tunnel is queued once
and one taken is with one loop (`WtPlaces`).

*QuicTunnels.* `QtInv`: a tunnel waits in one `tunnelChan`, once (`QtQueued`); a
session that has yet to signal is the only one of a `handleTunConn` that waits,
and looks at a context no older (`QtPaired`); `handleTunConn` starts once per run
(`QtStartedOnce`); users balance (`QtCounted`), again as a count of pairs, over
runs and over tunnels. The steps of the control connection touch none of this, but
for the first link of a run, which starts its `handleTunConn`.

*AcceptUdp.* `AuInv`: who owns a flow in each of its states, once; a table entry
and a flow in use name each other (`AuTabled`, `AuLinked`); and what the reading
goroutine found under the mutex still holds in its later steps without it
(`AuReaderKnows`). That congestion is never false is arithmetic: the difference
of two stamps reduced to the period is at most the delay, as long as that is
below the period.

*UdpFlows.* `UdInv`: the same for the flows, and for the tunnels that the lock
decides who writes: no ping is written once `handleLoop` has it. Once a race on
the map may have ended the process, nothing is claimed of the flows.

*UsageStore.* `UsInv`: for every saver, what it has read of the file and taken
out of memory, plus what is still in memory, is at most what was added; as long
as nothing excuses a loss there is one saver at most and equality.

*PortMap.* `PmInv`: what the opener of the live run has walked listens
(`PmListens`, which gives `PmAllListen`). The argument for exits is one of pace.
While `Restart` sleeps, each millisecond takes an opener that is not done one
port of a range further: ports ahead + milliseconds slept <= range ports
(`PmPace`). So with fewer range ports than `PmSleep` no opener outlives its run,
and what listens is what the opener of the live run has walked (`PmAlone`); the
port it finds bound then belongs to two mappings.

*WsLink.* `OneControl` speaks of the server, but its reason is on the client: the
server's check and assignment of the field are two steps, and what keeps a second
request from coming in between is that the client has one dialer, which waits for
the answer. `WsInv` says so (`OneDialer`, `OneRequest`, `DialsAlone`) and then why
a second dialer never starts. Restarts are asked for by readers and handlers, so
while a dialer is at work none of them may be left. That holds because a second
passes only when nothing can run: when the sleep of `Restart` is over, or the
service unit or a reload starts the transport again, everything of the old run
that could act has done so (`SleepsFirst`, `Settled`). That it
could run at all needs `CtxIdle` (the context is done, so a handler can leave) and
`ReadsControl` (a client's reader that is still in its read is reading the
connection that `Restart` closed, so the read fails). The proof has one lemma for
the many steps that only let something end (`Calmer`: no new request, handler or
reading, no field set, a restart asked for only by what was there) and one for each step that does more. The
dialer's back-off is left untyped: the provers know nothing of 2^n, and nothing
here depends on it.

*Composition.* `SvParts`: a behaviour of `SvSpec` is a behaviour of each of the
six specifications, a step of one part being a stutter of the others. So the
theorems about the parts hold of what the run `services` checks (`SvSafe`).

Model-checked only:

- liveness (`AllServed`, `Relinks`, `Exits`, `Converges`): needs fairness and
  ENABLED, beyond this prover;
- `RecoversInTime` of `TcpLink` and of `WsLink`: a statement about the timers and
  the number of faults of the instance, false for others (section 5), so there is
  no theorem for every value of the constants. In `TcpLink` the uniqueness that
  `WsLinkProofs` proves does not hold either: a tcp reader that slept through
  `Restart` can ask for another one while a dialer is at work (section 5);
- the two disagreements of section 6, which are counterexamples.

## 5. What the runs taught

- Recovery of the link depends on what the previous run left in `tunnelChannel`.
  Each silent leftover tunnel costs the server two seconds in the handshake; the
  client's candidate meanwhile times out and is given up, and its token, already
  sent, is accepted later on a dead connection. With two such tunnels recovery
  takes 16 to 18 seconds.
- A reader that slept through `Restart` acts on the new run; two `Start`s can then
  overlap, bind the same ports and end the process by `Fatalf`. The service unit
  starts it again, and `Relinks` still holds.
- A full `reqNewConnChan` drops requests silently; only an empty pool makes
  `poolMaintainer` notice. `AllServed` rests on it, with no bound on the wait: the
  3000 ms limit of a user connection is not checked while it waits.
- In tcpmux, two tokens in `controlFlow` can swallow the two requests that a user
  connection needed while all sessions are full: it waits until a relay ends or
  another user arrives. `AllServed` of `mux` therefore needs relays to end.
- A tcpmux session puts a user connection back with a blocking send whose only
  receivers are sessions; that they do not all block needs `ChannelSize` to be at
  least the number of slots, true of the defaults (2048, 8).
- `poolConnections` of the client and `streamCounter` of the tcpmux server fall
  below zero after a restart: dialers and relays of the previous run decrement
  counters that were reset. The first makes the pool too large; the second makes
  `acceptLocalConn` ask for a session too late, so that a queued user connection
  may have none requested (`StreamCounterExact` accounts for it as `streamDrift`).
- `controlFlow` full and no requests coming: `poolMaintainer` is blocked in its
  send and refills nothing, and a user connection whose request was lost waits. In
  the code that takes 100 shrinks without a request in between; `pool_live` has
  more tokens than its faults can fill.
- After a restart of tcpmux, sessions blocked in `counter <-` serve the new run
  without being counted.
- A signal during the three seconds of a reload cancels a context that the reload
  replaces (`src/main.go:229`); the new instance ends only with the five second
  `os.Exit(1)`, so `Exits` holds and a graceful end does not.
- An edit between the load of the configuration and the first `Stat` of
  `hotReload` is taken for the running version and never noticed. `Converges`
  excludes exactly that version (`missed`).
- ws: a nil control channel under a reader ends the process. With one fault the
  link is back in nine seconds. With two, a process that dies and is restarted in
  step with the peer's retries can be met by the peer's restart again: recovery
  may take more than twenty seconds, though `Relinks` still holds.
- ws: that two `/channel` requests never both find the field nil is not the
  server's doing; it rests on the client having one dialer at a time, and that on
  the two seconds of `Restart` being longer than its goroutines take to leave.
  Under that reading of time it holds for any number of faults (`OneControl`,
  proved).
- accept_udp: a flow refused by a full queue keeps its entry in the table for
  good; its user is not served until the server restarts. udp: so does a flow
  that timed out in the queue, and a tunnel the address could not be written to.
- udp: two deletes outside the mutex race with the goroutines that use the map.
- usage: after a restart the client's new counters are never saved, the old
  ticker goes on saving those of the previous run. Overlapping savers lose what
  the other wrote, and the panel, which truncates the file and writes the empty
  list in two steps, what a saver wrote meanwhile; none of the interleavings
  counts anything twice.
- ports: ranges of more than 2000 ports are still being opened when `Restart`
  begins the next run, which finds them bound and exits. Ports 1 and 65535 with a
  remote address are not recognised as ports.
- quic: a failed session puts its user back with a blocking send while
  `handleTunConn` waits for it; with `localChan` full nobody ever receives, in
  that run. A tunnel that arrives while the control connection is down is taken
  for a control candidate and stays in `channelHandshake` (the client opens no
  stream on it), yet counts in `activeConnections`: with half a pool of such
  tunnels `poolChecker` dials no more. Old sessions and loops that cross a
  restart serve the new run. Connections that arrive while there is no control
  connection are handshaken side by side: if two succeed before `keepalive` has
  cleared `coldStart`, the second starts the ports again and ends the process
  (`QtLinkUpTwice`); later, there are two keepalives, and when one forgets the
  control connection the other dereferences nil (`QtKeeperPanics`).

## 6. Disagreements between code and its comments or documentation

Each has a run that TLC must find violated; details are in `PROJECT.json`.

- `mux_slots`: a failed send of the address keeps the slot; after `mux_con` such
  failures a session is blocked for good and still counted.
- `reload_tuner`: two edits in quick succession leave two tuners.

## 7. Not modelled

Socket options, kernel parameters, TLS, logging, HTML, the menus of the
installer: no state the other parts read. wsmux repeats the sessions of tcpmux
over the control link of ws in files of its own; nothing in it is new, and no
definition is translated from it. The client file of the udp transport is dead
code (nothing calls `NewUDPClient`). The streams and tickers of quic's
`keepalive` are left out: one may lose the control connection at any time. The tuner's arithmetic changes a
configuration that the running transports have copied. The framing is whole
messages. Configuration, defaults and the choice of a transport are straight-line
assignments. The pool of ws is the code of tcp.

## 8. Plan

1. *Refinement*: `TcpMux` and `QuicTunnels` against `Forwarding`; `TcpClient`
   within one run against the client of `TunnelPool`.
2. *Proofs*: action properties of the counters across `Restart`; in `TcpLink`,
   that a token is accepted only on the connection it was sent on.
3. *quic*: the streams of the control connection and their missing deadlines.
4. *tcpmux*: the two loads of the comparison as two steps.
5. *Framing*: the length prefix with its width.
