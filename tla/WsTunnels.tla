------------------------------ MODULE WsTunnels ------------------------------
(***************************************************************************)
(* Tunnels of the ws and wss transports, both sides, within one run.       *)
(*                                                                         *)
(* A tunnel is a websocket the client's tunnelDialer opens and reads.  The *)
(* server queues it and keepAlive pings it until a handleLoop takes it for *)
(* a user: closes its ping channel, takes its mutex for good and writes    *)
(* the target address.  The first message that is not a ping is the        *)
(* address; from then on WSConnectionHandler relays on both sides.         *)
(*                                                                         *)
(* Either side's context may be cancelled at any time, which starts its    *)
(* Restart: the goroutines below are what is left to run.                  *)
(***************************************************************************)
EXTENDS Integers, Sequences, FiniteSets

CONSTANTS
    WtMaxTunnels,   \* bound: tunnels the client dials
    WtMaxLocals,    \* bound: connections of users
    WtLoops,        \* handleLoops: one per CPU, at most four
    WtNone,
    WtChannelSize,  \* config.ChannelSize
    WtWire          \* bound: messages under way to the client on a tunnel

ASSUME WsTunnelsAssumption ==
    /\ WtNone \notin Nat /\ {WtMaxTunnels, WtMaxLocals} \subseteq Nat
    /\ {WtChannelSize, WtWire} \subseteq Nat \ {0}

WtTunnels == 1..WtMaxTunnels
WtLocals == 1..WtMaxLocals

VARIABLES
    wtCtx,    \* side -> its context is live
    wtTun,    \* tunnel -> its state
    wtChan,   \* tunnelChannel
    wtLocal,  \* user connection -> its state
    wtQueue,  \* localChannel
    wtLoop    \* handleLoop -> pc, user connection, tunnel

wtVars == <<wtCtx, wtTun, wtChan, wtLocal, wtQueue, wtLoop>>

(* pc: the server's view; server, client: that end is open; keeper:        *)
(* keepAlive; dialer: the client's goroutine; wire: messages to the client.*)
WtNewTunnel == [pc |-> "none", server |-> FALSE, client |-> FALSE, keeper |-> "off",
                ping |-> TRUE, lock |-> "free", dialer |-> "none", wire |-> <<>>,
                local |-> WtNone]
WtIdleLoop == [pc |-> "idle", local |-> WtNone, tun |-> WtNone]

WtInit ==
    /\ wtCtx = [s \in {"server", "client"} |-> TRUE]
    /\ wtTun = [t \in WtTunnels |-> WtNewTunnel]
    /\ wtLocal = [l \in WtLocals |-> "outside"]
    /\ wtChan = <<>> /\ wtQueue = <<>>
    /\ wtLoop = [h \in WtLoops |-> WtIdleLoop]

WtCancel(s) ==
    /\ wtCtx[s]
    /\ wtCtx' = [wtCtx EXCEPT ![s] = FALSE]
    /\ UNCHANGED <<wtTun, wtChan, wtLocal, wtQueue, wtLoop>>

-----------------------------------------------------------------------------
(* The server's handler of a /tunnel request *)

(* tunnelDialer dials (the dialer gives up once its context is cancelled)  *)
(* and the server upgrades the connection.  Tunnels are numbered in the    *)
(* order they are dialled, users in the order they are accepted.           *)
WtDial(t) ==
    /\ wtTun[t].pc = "none" /\ wtCtx["client"]
    /\ \A u \in 1..(t - 1) : wtTun[u].pc # "none"
    /\ wtTun' = [wtTun EXCEPT ![t].pc = "arrived", ![t].server = TRUE, ![t].client = TRUE,
                   ![t].dialer = "check"]
    /\ UNCHANGED <<wtCtx, wtChan, wtLocal, wtQueue, wtLoop>>

WtQueueTunnel(t) ==
    /\ wtTun[t].pc = "arrived"
    /\ \/ /\ Len(wtChan) < WtChannelSize
          /\ wtChan' = Append(wtChan, t)
          /\ wtTun' = [wtTun EXCEPT ![t].pc = "idle", ![t].keeper = "start"]
       \/ /\ Len(wtChan) = WtChannelSize
          /\ wtTun' = [wtTun EXCEPT ![t].pc = "closed", ![t].server = FALSE]
          /\ UNCHANGED wtChan
    /\ UNCHANGED <<wtCtx, wtLocal, wtQueue, wtLoop>>

-----------------------------------------------------------------------------
(* keepAlive *)

WtSend(T, t, m) ==
    IF T[t].client THEN [T EXCEPT ![t].wire = Append(@, m)] ELSE T

WtKeeperStarts(t) ==
    /\ wtTun[t].keeper = "start"
    /\ wtTun' = [wtTun EXCEPT ![t].keeper = "wait"]
    /\ UNCHANGED <<wtCtx, wtChan, wtLocal, wtQueue, wtLoop>>

(* Mutant: the tunnel is left open. *)
WtKeeperLeaves(t) ==
    /\ wtTun[t].keeper = "wait" /\ ~wtCtx["server"]
    /\ wtTun' = [wtTun EXCEPT ![t].keeper = "off"]
    /\ UNCHANGED <<wtCtx, wtChan, wtLocal, wtQueue, wtLoop>>

WtKeeperCancelled(t) ==
    /\ wtTun[t].keeper = "wait" /\ ~wtCtx["server"]
    /\ wtTun' = [wtTun EXCEPT ![t].keeper = "off", ![t].server = FALSE]
    /\ UNCHANGED <<wtCtx, wtChan, wtLocal, wtQueue, wtLoop>>

WtKeeperEnds(t) ==
    /\ wtTun[t].keeper = "wait" /\ ~wtTun[t].ping
    /\ wtTun' = [wtTun EXCEPT ![t].keeper = "off"]
    /\ UNCHANGED <<wtCtx, wtChan, wtLocal, wtQueue, wtLoop>>

(* A tick: TryLock, or the end. *)
WtTick(t) ==
    /\ wtTun[t].keeper = "wait"
    /\ wtTun' = [wtTun EXCEPT
                   ![t].keeper = IF wtTun[t].lock = "free" THEN "write" ELSE "off",
                   ![t].lock = IF @ = "free" THEN "ping" ELSE @]
    /\ UNCHANGED <<wtCtx, wtChan, wtLocal, wtQueue, wtLoop>>

(* The ping is written; a write that fails closes the tunnel, which stays  *)
(* in tunnelChannel.                                                       *)
WtPing(t) ==
    /\ wtTun[t].keeper = "write"
    /\ \/ /\ wtTun[t].server /\ Len(wtTun[t].wire) < WtWire
          /\ wtTun' = WtSend([wtTun EXCEPT ![t].keeper = "wait", ![t].lock = "free"], t, "ping")
       \/ /\ ~wtTun[t].server \/ ~wtTun[t].client
          /\ wtTun' = [wtTun EXCEPT ![t].keeper = "off", ![t].lock = "free",
                         ![t].server = FALSE]
    /\ UNCHANGED <<wtCtx, wtChan, wtLocal, wtQueue, wtLoop>>

-----------------------------------------------------------------------------
(* acceptLocalConn and handleLoop *)

(* The listener is closed some time after its context is cancelled. *)
WtAccept(l) ==
    /\ wtLocal[l] = "outside" /\ \A k \in 1..(l - 1) : wtLocal[k] # "outside"
    /\ \/ /\ Len(wtQueue) < WtChannelSize
          /\ wtQueue' = Append(wtQueue, l)
          /\ wtLocal' = [wtLocal EXCEPT ![l] = "queued"]
       \/ /\ Len(wtQueue) = WtChannelSize
          /\ wtLocal' = [wtLocal EXCEPT ![l] = "closed"]
          /\ UNCHANGED wtQueue
    /\ UNCHANGED <<wtCtx, wtTun, wtChan, wtLoop>>

WtTakeLocal(h) ==
    /\ wtLoop[h].pc = "idle" /\ wtQueue # <<>>
    /\ wtQueue' = Tail(wtQueue)
    /\ wtLocal' = [wtLocal EXCEPT ![Head(wtQueue)] = "held"]
    /\ wtLoop' = [wtLoop EXCEPT ![h].pc = "check", ![h].local = Head(wtQueue)]
    /\ UNCHANGED <<wtCtx, wtTun, wtChan>>

(* Older than 3000 ms or not; only looked at here, not while waiting. *)
WtCheckAge(h) ==
    /\ wtLoop[h].pc = "check"
    /\ \/ /\ wtLocal' = [wtLocal EXCEPT ![wtLoop[h].local] = "closed"]
          /\ wtLoop' = [wtLoop EXCEPT ![h] = WtIdleLoop]
       \/ /\ wtLoop' = [wtLoop EXCEPT ![h].pc = "wait"]
          /\ UNCHANGED wtLocal
    /\ UNCHANGED <<wtCtx, wtTun, wtChan, wtQueue>>

(* The user's connection is neither served nor closed then. *)
WtLoopCancelled(h) ==
    /\ wtLoop[h].pc \in {"idle", "wait"} /\ ~wtCtx["server"]
    /\ wtLoop' = [wtLoop EXCEPT ![h] = [WtIdleLoop EXCEPT !.pc = "done"]]
    /\ wtLocal' = [l \in WtLocals |-> IF l = wtLoop[h].local THEN "dropped" ELSE wtLocal[l]]
    /\ UNCHANGED <<wtCtx, wtTun, wtChan, wtQueue>>

(* A tunnel is received and its ping channel closed. *)
WtTakeTunnel(h) ==
    /\ wtLoop[h].pc = "wait" /\ wtChan # <<>>
    /\ wtChan' = Tail(wtChan)
    /\ wtTun' = [wtTun EXCEPT ![Head(wtChan)].pc = "taken", ![Head(wtChan)].ping = FALSE]
    /\ wtLoop' = [wtLoop EXCEPT ![h].pc = "lock", ![h].tun = Head(wtChan)]
    /\ UNCHANGED <<wtCtx, wtLocal, wtQueue>>

(* What follows the lock: the address is written and the relay starts, or  *)
(* the tunnel is closed and the loop looks for another.                    *)
WtWriteAddress(h) ==
    LET t == wtLoop[h].tun
    IN  \/ /\ wtTun[t].server /\ Len(wtTun[t].wire) < WtWire
           /\ wtTun' = WtSend([wtTun EXCEPT ![t].pc = "relay", ![t].lock = "loop",
                               ![t].local = wtLoop[h].local], t, "addr")
           /\ wtLocal' = [wtLocal EXCEPT ![wtLoop[h].local] = "relay"]
           /\ wtLoop' = [wtLoop EXCEPT ![h] = WtIdleLoop]
        \/ /\ ~wtTun[t].server \/ ~wtTun[t].client
           /\ wtTun' = [wtTun EXCEPT ![t].pc = "closed", ![t].lock = "loop",
                          ![t].server = FALSE]
           /\ wtLoop' = [wtLoop EXCEPT ![h].pc = "check", ![h].tun = WtNone]
           /\ UNCHANGED wtLocal

(* Mutant: the address is written without the lock. *)
WtHandoffUnlocked(h) ==
    /\ wtLoop[h].pc = "lock"
    /\ WtWriteAddress(h)
    /\ UNCHANGED <<wtCtx, wtChan, wtQueue>>

(* mu.Lock() waits for a ping that is being written and is never undone. *)
WtHandoff(h) ==
    /\ wtLoop[h].pc = "lock" /\ wtTun[wtLoop[h].tun].lock = "free"
    /\ WtWriteAddress(h)
    /\ UNCHANGED <<wtCtx, wtChan, wtQueue>>

-----------------------------------------------------------------------------
(* WSConnectionHandler *)

WtRelayData(t) ==
    /\ wtTun[t].pc = "relay" /\ wtTun[t].server /\ wtTun[t].client
    /\ Len(wtTun[t].wire) < WtWire
    /\ wtTun' = WtSend(wtTun, t, "data")
    /\ UNCHANGED <<wtCtx, wtChan, wtLocal, wtQueue, wtLoop>>

(* The first direction to end closes both connections, and so does the     *)
(* second: the user may leave at any time, and keepAlive may have closed   *)
(* the tunnel.                                                             *)
WtRelayEnds(t) ==
    /\ wtTun[t].pc = "relay"
    /\ wtTun' = [wtTun EXCEPT ![t].pc = "closed", ![t].server = FALSE]
    /\ wtLocal' = [wtLocal EXCEPT ![wtTun[t].local] = "closed"]
    /\ UNCHANGED <<wtCtx, wtChan, wtQueue, wtLoop>>

-----------------------------------------------------------------------------
(* The client: tunnelDialer, localDialer and the relay of that side *)

WtFirst(t) == Head(wtTun[t].wire)

(* The context is looked at before each read: a tunnel is abandoned with   *)
(* its socket open.  A goroutine blocked in a read goes on reading.        *)
WtDialerChecks(t) ==
    /\ wtTun[t].dialer = "check"
    /\ wtTun' = [wtTun EXCEPT ![t].dialer = IF wtCtx["client"] THEN "read" ELSE "gone"]
    /\ UNCHANGED <<wtCtx, wtChan, wtLocal, wtQueue, wtLoop>>

WtDialerReads(t) ==
    /\ wtTun[t].dialer = "read" /\ wtTun[t].wire # <<>>
    /\ \/ /\ WtFirst(t) = "ping"
          /\ wtTun' = [wtTun EXCEPT ![t].wire = Tail(@), ![t].dialer = "check"]
       \/ /\ WtFirst(t) # "ping"
          /\ \/ wtTun' = [wtTun EXCEPT ![t].wire = Tail(@), ![t].dialer = "relay"]
             \/ wtTun' = [wtTun EXCEPT ![t].wire = <<>>, ![t].dialer = "gone", ![t].client = FALSE]
    /\ UNCHANGED <<wtCtx, wtChan, wtLocal, wtQueue, wtLoop>>

(* The read fails: the server closed its end. *)
WtDialerFails(t) ==
    /\ wtTun[t].dialer = "read" /\ wtTun[t].wire = <<>> /\ ~wtTun[t].server
    /\ wtTun' = [wtTun EXCEPT ![t].dialer = "gone", ![t].client = FALSE]
    /\ UNCHANGED <<wtCtx, wtChan, wtLocal, wtQueue, wtLoop>>

(* A message goes to the service, or the relay ends and closes both ends. *)
WtClientRelay(t) ==
    /\ wtTun[t].dialer = "relay"
    /\ \/ wtTun[t].wire # <<>> /\ wtTun' = [wtTun EXCEPT ![t].wire = Tail(@)]
       \/ wtTun' = [wtTun EXCEPT ![t].wire = <<>>, ![t].dialer = "gone", ![t].client = FALSE]
    /\ UNCHANGED <<wtCtx, wtChan, wtLocal, wtQueue, wtLoop>>

(* The collector closes an abandoned socket. *)
WtCollect(t) ==
    /\ wtTun[t].dialer = "gone" /\ wtTun[t].client
    /\ wtTun' = [wtTun EXCEPT ![t].client = FALSE, ![t].wire = <<>>]
    /\ UNCHANGED <<wtCtx, wtChan, wtLocal, wtQueue, wtLoop>>

-----------------------------------------------------------------------------
WtTunnelStep(t) ==
    \/ WtDial(t) \/ WtQueueTunnel(t)
    \/ WtKeeperStarts(t) \/ WtKeeperCancelled(t) \/ WtKeeperEnds(t) \/ WtTick(t) \/ WtPing(t)
    \/ WtRelayData(t) \/ WtRelayEnds(t)
    \/ WtDialerChecks(t) \/ WtDialerReads(t) \/ WtDialerFails(t)
    \/ WtClientRelay(t) \/ WtCollect(t)
WtLoopStep(h) == \/ WtTakeLocal(h) \/ WtCheckAge(h) \/ WtLoopCancelled(h)
                 \/ WtTakeTunnel(h) \/ WtHandoff(h)
WtNext == \/ \E s \in {"server", "client"} : WtCancel(s)
          \/ \E t \in WtTunnels : WtTunnelStep(t)
          \/ \E l \in WtLocals : WtAccept(l)
          \/ \E h \in WtLoops : WtLoopStep(h)

WtSpec == WtInit /\ [][WtNext]_wtVars

-----------------------------------------------------------------------------
WtTypeOK ==
    /\ wtCtx \in [{"server", "client"} -> BOOLEAN]
    /\ wtTun \in [WtTunnels ->
         [pc : {"none", "arrived", "idle", "taken", "relay", "closed"},
          server : BOOLEAN, client : BOOLEAN, keeper : {"off", "start", "wait", "write"},
          ping : BOOLEAN, lock : {"free", "ping", "loop"},
          dialer : {"none", "check", "read", "relay", "gone"}, local : WtLocals \cup {WtNone},
          wire : UNION {[1..n -> {"ping", "addr", "data"}] : n \in 0..WtWire}]]
    /\ wtChan \in Seq(WtTunnels) /\ Len(wtChan) <= WtChannelSize
    /\ wtLocal \in [WtLocals -> {"outside", "queued", "held", "relay", "closed", "dropped"}]
    /\ wtQueue \in Seq(WtLocals) /\ Len(wtQueue) <= WtChannelSize
    /\ wtLoop \in [WtLoops -> [pc : {"idle", "check", "wait", "lock", "done"},
                               local : WtLocals \cup {WtNone}, tun : WtTunnels \cup {WtNone}]]

(* Where tunnelDialer has yet to read the address. *)
WtAwaiting == {"check", "read"}

(* The client takes the first message that is not a ping for the address   *)
(* and all that follow for data: on every tunnel it reads pings, one       *)
(* address, data, in this order, however keepAlive and handleLoop meet.    *)
WtFraming ==
    \A t \in {x \in WtTunnels : wtTun[x].dialer # "gone"} : \A i \in 1..Len(wtTun[t].wire) :
        LET first == /\ wtTun[t].dialer \in WtAwaiting
                     /\ \A j \in 1..(i - 1) : wtTun[t].wire[j] = "ping"
        IN  first <=> wtTun[t].wire[i] \in {"ping", "addr"}

(* A tunnel that waits for a user has a goroutine that will close it when  *)
(* the run is cancelled: nothing else would, and the client's tunnelDialer *)
(* looks at no context while it reads.                                     *)
WtIdleWatched ==
    \A t \in WtTunnels : wtTun[t].pc = "idle" /\ wtTun[t].server => wtTun[t].keeper # "off"
=============================================================================
