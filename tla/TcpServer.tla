------------------------------ MODULE TcpServer ------------------------------
(***************************************************************************)
(* The server side of the tcp transport: who owns which connection.        *)
(*                                                                         *)
(* Restart replaces s.ctx and the server's channels while goroutines of    *)
(* the previous run may still be around: a goroutine reads s.ctx and       *)
(* s.tunnelChannel when it enters a select and keeps what it read until    *)
(* the select returns.  Each run of Start therefore has a number, and so   *)
(* do the context and the channels it made.  Time is left out: a goroutine *)
(* may be arbitrarily late, in particular it may sleep through the two     *)
(* seconds Restart waits.  What holds here holds under every scheduling.   *)
(*                                                                         *)
(* A channel of connections is a set with a capacity: the properties below *)
(* do not depend on the order in which it yields them.                     *)
(***************************************************************************)
EXTENDS Integers, FiniteSets

CONSTANTS
    Locals,       \* user connections
    Tunnels,      \* connections dialed by the client's tunnelDialer
    Candidates,   \* connections dialed by the client's channelDialer
    NoConn,       \* nil
    ChannelSize,  \* config.ChannelSize
    HandleLoops,  \* handleLoop goroutines per Start
    MaxRestarts   \* bound: completed restarts

ASSUME TcpServerAssumption ==
    /\ IsFiniteSet(Locals) /\ IsFiniteSet(Tunnels) /\ IsFiniteSet(Candidates)
    /\ Tunnels \cap Candidates = {}
    /\ Locals \cap (Tunnels \cup Candidates) = {}
    /\ NoConn \notin Locals \cup Tunnels \cup Candidates
    /\ ChannelSize \in Nat \ {0}
    /\ HandleLoops \in Nat \ {0}
    /\ MaxRestarts \in Nat

Conns == Tunnels \cup Candidates     \* what acceptTunnelConn accepts
Runs == 0..MaxRestarts
Loops == Runs \X (1..HandleLoops)

VARIABLES
    ctx,             \* the run s.ctx belongs to
    chan,            \* the run s.tunnelChannel, s.localChannel, ... belong to
    cancelled,       \* s.cancel() was called on s.ctx
    restart,         \* Restart under restartMutex: "idle", "sleep" or "swap"
    pending,         \* Restart goroutines spawned and not yet at TryLock
    controlChannel,
    tunnelChannel, localChannel, reqNewConnChan,   \* per run
    listening,       \* runs whose tunnel listener is open
    serving,         \* runs whose local listeners are open
    starter,         \* per run, the goroutine in Start / channelHandshake
    handler,         \* per run, the goroutine in channelHandler
    reader,          \* per run, channelHandler's reading goroutine
    loop,            \* per handleLoop goroutine
    connState,       \* connection -> "outside", "open" or "closed"
    relays,          \* pairs given to TCPConnectionHandler
    born             \* history: channel run a user connection was put in

lifeVars == <<ctx, chan, cancelled, restart, pending>>
queueVars == <<tunnelChannel, localChannel, reqNewConnChan>>
listenVars == <<listening, serving>>
vars == <<lifeVars, controlChannel, queueVars, listenVars, starter, handler,
          reader, loop, connState, relays, born>>

-----------------------------------------------------------------------------
(* ctx.Done() of run r is closed: contexts are replaced only after cancel. *)
Done(r) == r < ctx \/ (r = ctx /\ cancelled)

Gone == [pc |-> "gone", ctx |-> 0, chan |-> 0, conn |-> NoConn]
IdleLoop == [pc |-> "gone", ctx |-> 0, chan |-> 0, local |-> NoConn, tunnel |-> NoConn]

(* What a goroutine evaluates on entering a select. *)
Select(g, pc) == [g EXCEPT !.pc = pc, !.ctx = ctx, !.chan = chan]

Close(S) == [c \in DOMAIN connState |-> IF c \in S THEN "closed" ELSE connState[c]]

(* NewTCPServer and the first Start, up to the handshake's select. *)
Init ==
    /\ ctx = 0 /\ chan = 0 /\ cancelled = FALSE
    /\ restart = "idle" /\ pending = 0
    /\ controlChannel = NoConn
    /\ tunnelChannel = [r \in Runs |-> {}]
    /\ localChannel = [r \in Runs |-> {}]
    /\ reqNewConnChan = [r \in Runs |-> 0]
    /\ listening = {0} /\ serving = {}
    /\ starter = [r \in Runs |-> IF r = 0 THEN [Gone EXCEPT !.pc = "select"] ELSE Gone]
    /\ handler = [r \in Runs |-> Gone]
    /\ reader = [r \in Runs |-> "gone"]
    /\ loop = [g \in Loops |-> IdleLoop]
    /\ connState = [c \in Conns \cup Locals |-> "outside"]
    /\ relays = {}
    /\ born = [l \in Locals |-> -1]

-----------------------------------------------------------------------------
(* Listeners.  tunnelListener and localListener close theirs once the      *)
(* context they captured is done.                                          *)
CloseListeners(r) ==
    /\ r \in listening \cup serving
    /\ Done(r)
    /\ listening' = listening \ {r}
    /\ serving' = serving \ {r}
    /\ UNCHANGED <<lifeVars, controlChannel, queueVars, starter, handler,
                   reader, loop, connState, relays, born>>

(* acceptTunnelConn: a connection from the client's address is queued in   *)
(* whatever s.tunnelChannel is now; a full channel, or an address other    *)
(* than the control channel's, gets it closed.                             *)
AcceptTunnelConn(c) ==
    /\ listening # {}
    /\ connState[c] = "outside"
    /\ \/ /\ Cardinality(tunnelChannel[chan]) < ChannelSize
          /\ tunnelChannel' = [tunnelChannel EXCEPT ![chan] = @ \cup {c}]
          /\ connState' = [connState EXCEPT ![c] = "open"]
       \/ /\ Cardinality(tunnelChannel[chan]) = ChannelSize \/ controlChannel # NoConn
          /\ connState' = Close({c})
          /\ UNCHANGED tunnelChannel
    /\ UNCHANGED <<lifeVars, controlChannel, localChannel, reqNewConnChan,
                   listenVars, starter, handler, reader, loop, relays, born>>

(* Mutant: the request is pushed without looking at the capacity. *)
AcceptLocalConnUnbounded(l) ==
    /\ serving # {}
    /\ connState[l] = "outside"
    /\ Cardinality(localChannel[chan]) < ChannelSize
    /\ localChannel' = [localChannel EXCEPT ![chan] = @ \cup {l}]
    /\ reqNewConnChan' = [reqNewConnChan EXCEPT ![chan] = @ + 1]
    /\ connState' = [connState EXCEPT ![l] = "open"]
    /\ born' = [born EXCEPT ![l] = chan]
    /\ UNCHANGED <<lifeVars, controlChannel, tunnelChannel, listenVars,
                   starter, handler, reader, loop, relays>>

(* acceptLocalConn: queue the user connection and request a tunnel; a full *)
(* localChannel gets it closed, a full reqNewConnChan loses the request.   *)
AcceptLocalConn(l) ==
    /\ serving # {}
    /\ connState[l] = "outside"
    /\ \/ /\ Cardinality(localChannel[chan]) < ChannelSize
          /\ localChannel' = [localChannel EXCEPT ![chan] = @ \cup {l}]
          /\ reqNewConnChan' = [reqNewConnChan EXCEPT
                                 ![chan] = IF @ < ChannelSize THEN @ + 1 ELSE @]
          /\ connState' = [connState EXCEPT ![l] = "open"]
          /\ born' = [born EXCEPT ![l] = chan]
       \/ /\ Cardinality(localChannel[chan]) = ChannelSize
          /\ connState' = Close({l})
          /\ UNCHANGED <<localChannel, reqNewConnChan, born>>
    /\ UNCHANGED <<lifeVars, controlChannel, tunnelChannel, listenVars,
                   starter, handler, reader, loop, relays>>

-----------------------------------------------------------------------------
(* Start and channelHandshake *)

(* channelHandshake gives up when its context is done. *)
HandshakeCancelled(r) ==
    /\ starter[r].pc = "select" /\ Done(starter[r].ctx)
    /\ starter' = [starter EXCEPT ![r].pc = "finish"]
    /\ UNCHANGED <<lifeVars, controlChannel, queueVars, listenVars, handler,
                   reader, loop, connState, relays, born>>

(* It takes a connection and reads with a two second deadline. *)
HandshakeTake(r, c) ==
    /\ starter[r].pc = "select"
    /\ c \in tunnelChannel[starter[r].chan]
    /\ tunnelChannel' = [tunnelChannel EXCEPT ![starter[r].chan] = @ \ {c}]
    /\ starter' = [starter EXCEPT ![r].pc = "read", ![r].conn = c]
    /\ UNCHANGED <<lifeVars, controlChannel, localChannel, reqNewConnChan,
                   listenVars, handler, reader, loop, connState, relays, born>>

(* No SG_Chan in time, a bad token, or the echo cannot be sent.  A tunnel  *)
(* of the pool never speaks first, so it always ends here.                 *)
HandshakeReject(r) ==
    /\ starter[r].pc = "read"
    /\ connState' = Close({starter[r].conn})
    /\ starter' = [starter EXCEPT ![r] = [Select(starter[r], "select") EXCEPT !.conn = NoConn]]
    /\ UNCHANGED <<lifeVars, controlChannel, queueVars, listenVars, handler,
                   reader, loop, relays, born>>

HandshakeAccept(r) ==
    /\ starter[r].pc = "read" /\ starter[r].conn \in Candidates
    /\ controlChannel' = starter[r].conn
    /\ starter' = [starter EXCEPT ![r].pc = "finish", ![r].conn = NoConn]
    /\ UNCHANGED <<lifeVars, queueVars, listenVars, handler, reader, loop,
                   connState, relays, born>>

(* The rest of Start: with a control channel, the port listeners, the      *)
(* channelHandler with its reader, and the handleLoops are spawned.  As in  *)
(* RestartChannels, a port still bound by an older run ends the process.   *)
StartFinish(r) ==
    /\ starter[r].pc = "finish"
    /\ starter' = [starter EXCEPT ![r] = Gone]
    /\ \/ /\ controlChannel # NoConn /\ serving = {}
          /\ serving' = serving \cup {ctx}
          /\ handler' = [handler EXCEPT ![r] = Select(Gone, "select")]
          /\ reader' = [reader EXCEPT ![r] = "read"]
          /\ loop' = [g \in Loops |->
                        IF g[1] = r THEN Select(IdleLoop, "take") ELSE loop[g]]
       \/ controlChannel = NoConn /\ UNCHANGED <<serving, handler, reader, loop>>
    /\ UNCHANGED <<lifeVars, controlChannel, queueVars, listening, connState,
                   relays, born>>

-----------------------------------------------------------------------------
(* channelHandler *)

(* The context is done: SG_Closed is attempted and the goroutine ends. *)
HandlerCancelled(r) ==
    /\ handler[r].pc = "select" /\ Done(handler[r].ctx)
    /\ handler' = [handler EXCEPT ![r] = Gone]
    /\ UNCHANGED <<lifeVars, controlChannel, queueVars, listenVars, starter,
                   reader, loop, connState, relays, born>>

(* A request is taken and SG_Chan written, or the write fails. *)
HandlerRequest(r) ==
    /\ handler[r].pc = "select"
    /\ reqNewConnChan[handler[r].chan] > 0
    /\ reqNewConnChan' = [reqNewConnChan EXCEPT ![handler[r].chan] = @ - 1]
    /\ \/ /\ handler' = [handler EXCEPT ![r] = Select(handler[r], "select")]
          /\ UNCHANGED pending
       \/ /\ handler' = [handler EXCEPT ![r] = Gone]
          /\ pending' = pending + 1
    /\ UNCHANGED <<ctx, chan, cancelled, restart, controlChannel, tunnelChannel,
                   localChannel, listenVars, starter, reader, loop, connState,
                   relays, born>>

(* The RTT or heartbeat write fails, or the client sent SG_Closed. *)
HandlerGivesUp(r) ==
    /\ handler[r].pc = "select"
    /\ handler' = [handler EXCEPT ![r] = Gone]
    /\ pending' = pending + 1
    /\ UNCHANGED <<ctx, chan, cancelled, restart, controlChannel, queueVars,
                   listenVars, starter, reader, loop, connState, relays, born>>

(* The reading goroutine returns on a done context, or asks for a restart  *)
(* after its third failed read.                                            *)
ReaderEnds(r) ==
    /\ reader[r] = "read"
    /\ reader' = [reader EXCEPT ![r] = "gone"]
    /\ \/ cancelled /\ UNCHANGED pending
       \/ pending' = pending + 1
    /\ UNCHANGED <<ctx, chan, cancelled, restart, controlChannel, queueVars,
                   listenVars, starter, handler, loop, connState, relays, born>>

-----------------------------------------------------------------------------
(* Restart *)

(* TryLock succeeds: cancel the context and close the control channel. *)
RestartBegin ==
    /\ pending > 0 /\ restart = "idle"
    /\ pending' = pending - 1
    /\ restart' = "sleep"
    /\ cancelled' = TRUE
    /\ connState' = Close({controlChannel})
    /\ UNCHANGED <<ctx, chan, controlChannel, queueVars, listenVars, starter,
                   handler, reader, loop, relays, born>>

(* TryLock fails: this restart is skipped. *)
RestartSkip ==
    /\ pending > 0 /\ restart # "idle"
    /\ pending' = pending - 1
    /\ UNCHANGED <<ctx, chan, cancelled, restart, controlChannel, queueVars,
                   listenVars, starter, handler, reader, loop, connState, relays, born>>

(* After the sleep: a new context, then new channels and a nil control     *)
(* channel; the assignments are not synchronised with the goroutines that  *)
(* read the fields, hence two steps.  Start then listens again; were the   *)
(* old listener still open, net.Listen would fail and the process exit,    *)
(* which ends the behaviour.                                               *)
RestartContext ==
    /\ restart = "sleep" /\ ctx < MaxRestarts
    /\ restart' = "swap"
    /\ ctx' = ctx + 1
    /\ cancelled' = FALSE
    /\ UNCHANGED <<chan, pending, controlChannel, queueVars, listenVars, starter,
                   handler, reader, loop, connState, relays, born>>

RestartChannels ==
    /\ restart = "swap" /\ listening = {}
    /\ restart' = "idle"
    /\ chan' = ctx
    /\ controlChannel' = NoConn
    /\ listening' = listening \cup {ctx}
    /\ starter' = [starter EXCEPT
                     ![ctx] = [Gone EXCEPT !.pc = "select", !.ctx = ctx, !.chan = ctx]]
    /\ UNCHANGED <<ctx, cancelled, pending, queueVars, serving, handler,
                   reader, loop, connState, relays, born>>

-----------------------------------------------------------------------------
(* handleLoop *)

(* Either select returns on a done context; a user connection the loop     *)
(* holds is neither closed nor handed on.                                  *)
LoopCancelled(g) ==
    /\ loop[g].pc \in {"take", "wait"} /\ Done(loop[g].ctx)
    /\ loop' = [loop EXCEPT ![g] = IdleLoop]
    /\ UNCHANGED <<lifeVars, controlChannel, queueVars, listenVars, starter,
                   handler, reader, connState, relays, born>>

LoopTake(g, l) ==
    /\ loop[g].pc = "take"
    /\ l \in localChannel[loop[g].chan]
    /\ localChannel' = [localChannel EXCEPT ![loop[g].chan] = @ \ {l}]
    /\ loop' = [loop EXCEPT ![g].pc = "check", ![g].local = l]
    /\ UNCHANGED <<lifeVars, controlChannel, tunnelChannel, reqNewConnChan,
                   listenVars, starter, handler, reader, connState, relays, born>>

(* Mutant: "break loop" is missing after the close. *)
LoopCheckNoBreak(g) ==
    /\ loop[g].pc = "check"
    /\ loop' = [loop EXCEPT ![g] = Select(loop[g], "wait")]
    /\ connState' \in {connState, Close({loop[g].local})}
    /\ UNCHANGED <<lifeVars, controlChannel, queueVars, listenVars, starter,
                   handler, reader, relays, born>>

(* Older than 3000ms: closed.  Otherwise wait for a tunnel. *)
LoopCheck(g) ==
    /\ loop[g].pc = "check"
    /\ \/ /\ loop' = [loop EXCEPT ![g] = Select(loop[g], "wait")]
          /\ UNCHANGED connState
       \/ /\ connState' = Close({loop[g].local})
          /\ loop' = [loop EXCEPT ![g] = Select(IdleLoop, "take")]
    /\ UNCHANGED <<lifeVars, controlChannel, queueVars, listenVars, starter,
                   handler, reader, relays, born>>

LoopTunnel(g, c) ==
    /\ loop[g].pc = "wait"
    /\ c \in tunnelChannel[loop[g].chan]
    /\ tunnelChannel' = [tunnelChannel EXCEPT ![loop[g].chan] = @ \ {c}]
    /\ loop' = [loop EXCEPT ![g].pc = "send", ![g].tunnel = c]
    /\ UNCHANGED <<lifeVars, controlChannel, localChannel, reqNewConnChan,
                   listenVars, starter, handler, reader, connState, relays, born>>

(* Mutant: "break loop" is missing after the relay is started. *)
LoopSendNoBreak(g) ==
    /\ loop[g].pc = "send"
    /\ relays' = relays \cup {[local |-> loop[g].local, tunnel |-> loop[g].tunnel]}
    /\ loop' = [loop EXCEPT ![g].pc = "check", ![g].tunnel = NoConn]
    /\ UNCHANGED <<lifeVars, controlChannel, queueVars, listenVars, starter,
                   handler, reader, connState, born>>

(* Mutant: after a failed send the outer loop is continued, not the inner. *)
LoopSendContinuesOuter(g) ==
    /\ loop[g].pc = "send"
    /\ connState' = Close({loop[g].tunnel})
    /\ loop' = [loop EXCEPT ![g] = Select(IdleLoop, "take")]
    /\ UNCHANGED <<lifeVars, controlChannel, queueVars, listenVars, starter,
                   handler, reader, relays, born>>

(* The address is sent and the relay starts, or the tunnel is closed and   *)
(* the loop keeps the user connection for the next one.                    *)
LoopSend(g) ==
    /\ loop[g].pc = "send"
    /\ \/ /\ relays' = relays \cup {[local |-> loop[g].local, tunnel |-> loop[g].tunnel]}
          /\ loop' = [loop EXCEPT ![g] = Select(IdleLoop, "take")]
          /\ UNCHANGED connState
       \/ /\ connState' = Close({loop[g].tunnel})
          /\ loop' = [loop EXCEPT ![g].pc = "check", ![g].tunnel = NoConn]
          /\ UNCHANGED relays
    /\ UNCHANGED <<lifeVars, controlChannel, queueVars, listenVars, starter,
                   handler, reader, born>>

-----------------------------------------------------------------------------
AcceptStep == \/ \E c \in Conns : AcceptTunnelConn(c)
              \/ \E l \in Locals : AcceptLocalConn(l)
RunStep(r) == \/ CloseListeners(r)
              \/ HandshakeCancelled(r)
              \/ \E c \in Conns : HandshakeTake(r, c)
              \/ HandshakeReject(r)
              \/ HandshakeAccept(r)
              \/ StartFinish(r)
              \/ HandlerCancelled(r)
              \/ HandlerRequest(r)
              \/ HandlerGivesUp(r)
              \/ ReaderEnds(r)
RestartStep == RestartBegin \/ RestartSkip \/ RestartContext \/ RestartChannels
LoopStep(g) == \/ LoopCancelled(g)
               \/ \E l \in Locals : LoopTake(g, l)
               \/ LoopCheck(g)
               \/ \E c \in Conns : LoopTunnel(g, c)
               \/ LoopSend(g)

Next == \/ AcceptStep
        \/ \E r \in Runs : RunStep(r)
        \/ RestartStep
        \/ \E g \in Loops : LoopStep(g)

Spec == Init /\ [][Next]_vars

-----------------------------------------------------------------------------
Goroutine == [pc : {"gone", "select", "read", "finish"}, ctx : Runs, chan : Runs,
              conn : Conns \cup {NoConn}]
LoopState == [pc : {"gone", "take", "check", "wait", "send"}, ctx : Runs, chan : Runs,
              local : Locals \cup {NoConn}, tunnel : Conns \cup {NoConn}]

(* The shape of the state; the channels never exceed their capacity. *)
TypeOK ==
    /\ ctx \in Runs /\ chan \in Runs /\ cancelled \in BOOLEAN
    /\ restart \in {"idle", "sleep", "swap"} /\ pending \in Nat
    /\ controlChannel \in Candidates \cup {NoConn}
    /\ tunnelChannel \in [Runs -> SUBSET Conns]
    /\ localChannel \in [Runs -> SUBSET Locals]
    /\ reqNewConnChan \in [Runs -> 0..ChannelSize]
    /\ listening \in SUBSET Runs /\ serving \in SUBSET Runs
    /\ starter \in [Runs -> Goroutine]
    /\ handler \in [Runs -> Goroutine]
    /\ reader \in [Runs -> {"gone", "read"}]
    /\ loop \in [Loops -> LoopState]
    /\ connState \in [Conns \cup Locals -> {"outside", "open", "closed"}]
    /\ relays \in SUBSET [local : Locals, tunnel : Conns]
    /\ born \in [Locals -> Runs \cup {-1}]

(* Who can still use connection c: the owners are tagged so that two of    *)
(* them count as two.                                                      *)
TunnelOwners(c) ==
    {<<"queue", r>> : r \in {x \in Runs : c \in tunnelChannel[x]}}
      \cup {<<"handshake", r>> : r \in {x \in Runs : starter[x].conn = c}}
      \cup {<<"loop", g>> : g \in {x \in Loops : loop[x].tunnel = c}}
      \cup {<<"relay", p.local>> : p \in {x \in relays : x.tunnel = c}}
      \cup (IF controlChannel = c THEN {<<"control", NoConn>>} ELSE {})
LocalOwners(l) ==
    {<<"queue", r>> : r \in {x \in Runs : l \in localChannel[x]}}
      \cup {<<"loop", g>> : g \in {x \in Loops : loop[x].local = l}}
      \cup {<<"relay", p.tunnel>> : p \in {x \in relays : x.local = l}}

(* No two parts of the server ever hold the same connection, whatever      *)
(* Restart leaves behind: a tunnel carries one user connection, the        *)
(* control channel is never handed to a user, and a user connection is     *)
(* never sent down two tunnels by handleLoop's retry.                      *)
OneOwner ==
    /\ \A c \in Conns : \A o1, o2 \in TunnelOwners(c) : o1 = o2
    /\ \A l \in Locals : \A o1, o2 \in LocalOwners(l) : o1 = o2

(* A connection handed to a relay, or held by a handleLoop to be, has not  *)
(* been closed by the server.                                              *)
OwnedIsOpen ==
    /\ \A p \in relays : connState[p.local] = "open" /\ connState[p.tunnel] = "open"
    /\ \A g \in Loops : \A c \in {loop[g].local, loop[g].tunnel} \ {NoConn} :
            connState[c] = "open"

(* Where a user connection stands for its user: "lost" is left open with   *)
(* nobody to serve it.                                                     *)
RelaysOf(l) == {p \in relays : p.local = l}
Waits(l) == \/ \E r \in Runs : l \in localChannel[r]
            \/ \E g \in Loops : loop[g].local = l
UserState == [l \in Locals |-> IF connState[l] # "open" THEN connState[l]
                               ELSE IF Waits(l) THEN "waiting"
                               ELSE IF RelaysOf(l) # {} THEN "relayed" ELSE "lost"]
UserTunnel == [l \in Locals |-> IF RelaysOf(l) = {} THEN NoConn
                                ELSE (CHOOSE p \in RelaysOf(l) : TRUE).tunnel]

Service == INSTANCE Forwarding
    WITH Users <- Locals, Tunnels <- Conns, NoTunnel <- NoConn,
         user <- UserState, tunnel <- UserTunnel, accepted <- born,
         run <- chan, ended <- {r \in Runs : Done(r)}

(* The server implements the service of Forwarding: whatever a restart     *)
(* leaves behind, every step moves at most one user connection, forward,   *)
(* to a tunnel of its own; a connection the server has answered is not     *)
(* touched again; and only a run that was cancelled forgets one.           *)
ServesUsers == Service!Spec
=============================================================================
