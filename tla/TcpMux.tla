------------------------------- MODULE TcpMux -------------------------------
(***************************************************************************)
(* The server of the tcpmux transport and the supply of its sessions.      *)
(*                                                                         *)
(* A tunnel is a multiplexed session that serves up to MuxCon user         *)
(* connections at a time.  acceptLocalConn queues a user connection,       *)
(* counts it in streamCounter and asks the client for one more session     *)
(* when streamCounter reaches the capacity of the sessions counted in      *)
(* sessionCounter.  Each handleSession goroutine takes user connections    *)
(* for as long as it gets a slot in its "counter" channel, and puts one    *)
(* back when the session turns out to be dead.  Restart resets both        *)
(* counters while relays, and sessions whose slots are all taken, live on. *)
(*                                                                         *)
(* User connections, requests and queued sessions are interchangeable and  *)
(* counted.  poolMaintainer's averages are left out: it may grow or shrink *)
(* the pool at any time (TunnelPool has the decision).  Both sides restart *)
(* together; how they find each other again is in TcpLink.                 *)
(***************************************************************************)
EXTENDS Integers, FiniteSets

CONSTANTS
    Sessions,      \* names for handleSession goroutines, reused
    MuxCon,        \* config.MuxCon
    ChannelSize,   \* config.ChannelSize
    ConnPoolSize,  \* config.ConnPoolSize of the client
    FlowCap,       \* capacity of controlFlow (100 in the code)
    MaxLocals,     \* bound: user connections that arrive
    MaxPool,       \* bound: a pool that is not empty is not grown past it
    MaxFaults,     \* bound: dying sessions and failing dials
    MaxRestarts    \* bound: restarts

ASSUME TcpMuxAssumption ==
    /\ IsFiniteSet(Sessions)
    /\ {MuxCon, ChannelSize} \subseteq Nat \ {0}
    /\ {ConnPoolSize, FlowCap, MaxLocals, MaxPool, MaxFaults, MaxRestarts} \subseteq Nat

VARIABLES
    phase,        \* "running", "stopping" (in Restart), "linking"
    localCh,      \* length of localChannel
    counting,     \* acceptLocalConns between the push and the increment
    comparing,    \* acceptLocalConns between the increment and the comparison
    reqCh,        \* length of reqNewConnChan
    wire,         \* SG_Chan bytes under way
    dialing,      \* the client's tunnelDialers in TcpDialer
    backlog,      \* dialed sessions not yet accepted
    tunnelCh,     \* length of tunnelChannel
    tokens,       \* length of controlFlow
    newPoolSize,
    streamCounter, sessionCounter,
    sess,         \* the handleSession goroutines
    \* history and bounds
    lost,         \* requests dropped, dials failed, sessions discarded
    swallowed,    \* requests a token swallowed
    streamDrift,  \* streamCounter decrements for streams of an earlier run
    sessionDrift, \* sessionCounter decrements for sessions of an earlier run
    arrived, faults, restarts

supply == <<reqCh, wire, dialing, backlog, tunnelCh, tokens, newPoolSize>>
accepting == <<counting, comparing>>
drifts == <<streamDrift, sessionDrift>>
bounds == <<arrived, faults, restarts>>
vars == <<phase, localCh, accepting, supply, streamCounter, sessionCounter, sess,
          lost, swallowed, drifts, bounds>>

-----------------------------------------------------------------------------
(* relays and old are the relays begun since and before the last restart,  *)
(* used the length of "counter", leaked the slots nobody will give back.   *)
NoSession == [pc |-> "free", alive |-> FALSE, counted |-> FALSE,
              used |-> 0, relays |-> 0, old |-> 0, leaked |-> 0]

NewSession == [pc |-> "slot", alive |-> TRUE, counted |-> TRUE,
               used |-> 0, relays |-> 0, old |-> 0, leaked |-> 0]

(* The goroutine returned; its name is free once its relays have ended. *)
Ended(g) == IF g.relays + g.old = 0 THEN NoSession
            ELSE [g EXCEPT !.pc = "ended", !.alive = FALSE]

(* The client's poolConnections. *)
PoolConnections == backlog + tunnelCh + Cardinality({s \in Sessions : sess[s].alive})

Init ==
    /\ phase = "running"
    /\ localCh = 0 /\ counting = 0 /\ comparing = 0
    /\ reqCh = 0 /\ wire = 0 /\ dialing = ConnPoolSize /\ backlog = 0 /\ tunnelCh = 0
    /\ tokens = 0 /\ newPoolSize = ConnPoolSize
    /\ streamCounter = 0 /\ sessionCounter = 0
    /\ sess = [s \in Sessions |-> NoSession]
    /\ lost = 0 /\ swallowed = 0 /\ streamDrift = 0 /\ sessionDrift = 0
    /\ arrived = 0 /\ faults = 0 /\ restarts = 0

-----------------------------------------------------------------------------
(* acceptLocalConn; one goroutine per port. *)

(* The push, or the close when localChannel is full. *)
AcceptLocal ==
    /\ phase # "linking" /\ arrived < MaxLocals
    /\ arrived' = arrived + 1
    /\ \/ /\ localCh < ChannelSize
          /\ localCh' = localCh + 1 /\ counting' = counting + 1
       \/ localCh = ChannelSize /\ UNCHANGED <<localCh, counting>>
    /\ UNCHANGED <<phase, comparing, supply, streamCounter, sessionCounter, sess,
                   lost, swallowed, drifts, faults, restarts>>

CountStream ==
    /\ counting > 0
    /\ counting' = counting - 1 /\ comparing' = comparing + 1
    /\ streamCounter' = streamCounter + 1
    /\ UNCHANGED <<phase, localCh, supply, sessionCounter, sess, lost, swallowed,
                   drifts, bounds>>

(* A push to reqNewConnChan that gives up when it is full. *)
Request ==
    \/ reqCh < ChannelSize /\ reqCh' = reqCh + 1 /\ UNCHANGED lost
    \/ reqCh = ChannelSize /\ lost' = lost + 1 /\ UNCHANGED reqCh

NeedSessionLate ==        \* mutant: counts a session that is yet to come
    streamCounter >= (sessionCounter + 1) * MuxCon
NeedSession == streamCounter >= sessionCounter * MuxCon

(* The two atomic loads of the comparison are one step: a session that is  *)
(* counted between them was a request under way before.                    *)
CompareCounters ==
    /\ comparing > 0
    /\ comparing' = comparing - 1
    /\ IF NeedSession THEN Request ELSE UNCHANGED <<reqCh, lost>>
    /\ UNCHANGED <<phase, localCh, counting, wire, dialing, backlog, tunnelCh, tokens,
                   newPoolSize, streamCounter, sessionCounter, sess, swallowed,
                   drifts, bounds>>

-----------------------------------------------------------------------------
(* From a request to a session in handleSession *)

(* The server's channelHandler, case <-s.reqNewConnChan. *)
SendRequest ==
    /\ phase = "running" /\ reqCh > 0
    /\ reqCh' = reqCh - 1 /\ wire' = wire + 1
    /\ UNCHANGED <<phase, localCh, accepting, dialing, backlog, tunnelCh, tokens,
                   newPoolSize, streamCounter, sessionCounter, sess, lost, swallowed,
                   drifts, bounds>>

(* The client's channelHandler, case SG_Chan. *)
ReceiveRequest ==
    /\ phase = "running" /\ wire > 0
    /\ wire' = wire - 1
    /\ \/ /\ tokens > 0
          /\ tokens' = tokens - 1 /\ swallowed' = swallowed + 1
          /\ UNCHANGED dialing
       \/ tokens = 0 /\ dialing' = dialing + 1 /\ UNCHANGED <<tokens, swallowed>>
    /\ UNCHANGED <<phase, localCh, accepting, reqCh, backlog, tunnelCh, newPoolSize,
                   streamCounter, sessionCounter, sess, lost, drifts, bounds>>

(* The client's tunnelDialer. *)
DialTunnel ==
    /\ dialing > 0
    /\ dialing' = dialing - 1
    /\ \/ backlog' = backlog + 1 /\ UNCHANGED <<lost, faults>>
       \/ /\ faults < MaxFaults
          /\ faults' = faults + 1 /\ lost' = lost + 1
          /\ UNCHANGED backlog
    /\ UNCHANGED <<phase, localCh, accepting, reqCh, wire, tunnelCh, tokens,
                   newPoolSize, streamCounter, sessionCounter, sess, swallowed,
                   drifts, arrived, restarts>>

GrowPoolNotEmpty ==          \* mutant: no slack, so an empty pool looks large enough
    /\ phase = "running" /\ PoolConnections > 0
    /\ newPoolSize < MaxPool
    /\ newPoolSize' = newPoolSize + 1 /\ dialing' = dialing + 1
    /\ UNCHANGED <<phase, localCh, accepting, reqCh, wire, backlog, tunnelCh, tokens,
                   streamCounter, sessionCounter, sess, lost, swallowed, drifts, bounds>>

(* The client's poolMaintainer.  An empty pool is always grown (avg = 0). *)
GrowPool ==
    /\ phase = "running"
    /\ newPoolSize < MaxPool \/ (PoolConnections = 0 /\ dialing = 0)
    /\ newPoolSize' = newPoolSize + 1 /\ dialing' = dialing + 1
    /\ UNCHANGED <<phase, localCh, accepting, reqCh, wire, backlog, tunnelCh, tokens,
                   streamCounter, sessionCounter, sess, lost, swallowed, drifts, bounds>>

ShrinkPool ==
    /\ phase = "running" /\ newPoolSize > ConnPoolSize /\ tokens < FlowCap
    /\ newPoolSize' = newPoolSize - 1 /\ tokens' = tokens + 1
    /\ UNCHANGED <<phase, localCh, accepting, reqCh, wire, dialing, backlog, tunnelCh,
                   streamCounter, sessionCounter, sess, lost, swallowed, drifts, bounds>>

AcceptTunnelUnbounded ==     \* mutant: the capacity is not looked at
    /\ phase # "linking" /\ backlog > 0
    /\ backlog' = backlog - 1
    /\ tunnelCh' = tunnelCh + 1
    /\ UNCHANGED <<phase, localCh, accepting, reqCh, wire, dialing, tokens, newPoolSize,
                   streamCounter, sessionCounter, sess, lost, swallowed, drifts, bounds>>

(* acceptTunnelConn with a control channel: queue the session or close it. *)
AcceptTunnel ==
    /\ phase # "linking" /\ backlog > 0
    /\ backlog' = backlog - 1
    /\ \/ tunnelCh < ChannelSize /\ tunnelCh' = tunnelCh + 1 /\ UNCHANGED lost
       \/ tunnelCh = ChannelSize /\ lost' = lost + 1 /\ UNCHANGED tunnelCh
    /\ UNCHANGED <<phase, localCh, accepting, reqCh, wire, dialing, tokens, newPoolSize,
                   streamCounter, sessionCounter, sess, swallowed, drifts, bounds>>

HandleLoopUncounted(s) ==    \* mutant: the session is not counted
    /\ tunnelCh > 0 /\ sess[s].pc = "free"
    /\ tunnelCh' = tunnelCh - 1
    /\ sess' = [sess EXCEPT ![s] = NewSession]
    /\ UNCHANGED <<phase, localCh, accepting, reqCh, wire, dialing, backlog, tokens,
                   newPoolSize, streamCounter, sessionCounter, lost, swallowed, drifts, bounds>>

(* handleLoop. *)
HandleLoop(s) ==
    /\ tunnelCh > 0 /\ sess[s].pc = "free"
    /\ tunnelCh' = tunnelCh - 1
    /\ sessionCounter' = sessionCounter + 1
    /\ sess' = [sess EXCEPT ![s] = NewSession]
    /\ UNCHANGED <<phase, localCh, accepting, reqCh, wire, dialing, backlog, tokens,
                   newPoolSize, streamCounter, lost, swallowed, drifts, bounds>>

-----------------------------------------------------------------------------
(* handleSession *)

sessionOnly == <<phase, accepting, supply, swallowed, bounds>>

(* counter <- struct{}{}: blocks, whatever the context, with no slot free. *)
TakeSlot(s) ==
    /\ sess[s].pc = "slot" /\ sess[s].used < MuxCon
    /\ sess' = [sess EXCEPT ![s].pc = "select", ![s].used = @ + 1]
    /\ UNCHANGED <<localCh, streamCounter, sessionCounter, lost, drifts, sessionOnly>>

SessionCancelled(s) ==
    /\ sess[s].pc = "select" /\ phase = "stopping"
    /\ sess' = [sess EXCEPT ![s] = Ended(@)]
    /\ UNCHANGED <<localCh, streamCounter, sessionCounter, lost, drifts, sessionOnly>>

TakeLocalKeepsCount(s) ==    \* mutant: an expired stream stays counted
    /\ sess[s].pc = "select" /\ localCh > 0
    /\ localCh' = localCh - 1
    /\ \/ sess' = [sess EXCEPT ![s].pc = "open"]
       \/ sess' = [sess EXCEPT ![s].pc = "slot", ![s].used = @ - 1]
    /\ UNCHANGED <<streamCounter, sessionCounter, lost, drifts, sessionOnly>>

(* A user connection older than 3000ms is closed and its slot given back. *)
TakeLocal(s) ==
    /\ sess[s].pc = "select" /\ localCh > 0
    /\ localCh' = localCh - 1
    /\ \/ /\ sess' = [sess EXCEPT ![s].pc = "open"]
          /\ UNCHANGED streamCounter
       \/ /\ sess' = [sess EXCEPT ![s].pc = "slot", ![s].used = @ - 1]
          /\ streamCounter' = streamCounter - 1
    /\ UNCHANGED <<sessionCounter, lost, drifts, sessionOnly>>

(* session.OpenStream(); handleSessionError first gives up the session's   *)
(* count.                                                                  *)
OpenStream(s) ==
    /\ sess[s].pc = "open"
    /\ \/ /\ sess' = [sess EXCEPT ![s].pc = "send"]
          /\ UNCHANGED <<sessionCounter, sessionDrift>>
       \/ /\ ~sess[s].alive
          /\ sess' = [sess EXCEPT ![s].pc = "fail"]
          /\ sessionCounter' = sessionCounter - 1
          /\ sessionDrift' = IF sess[s].counted THEN sessionDrift ELSE sessionDrift + 1
    /\ UNCHANGED <<localCh, streamCounter, lost, streamDrift, sessionOnly>>

(* handleSessionError: the user connection goes back, blocking while       *)
(* localChannel is full; then another session is requested.                *)
FailSession(s) ==
    /\ sess[s].pc = "fail" /\ localCh < ChannelSize
    /\ localCh' = localCh + 1
    /\ Request
    /\ sess' = [sess EXCEPT ![s] = Ended(@)]
    /\ UNCHANGED <<phase, accepting, wire, dialing, backlog, tunnelCh, tokens,
                   newPoolSize, streamCounter, sessionCounter, swallowed, drifts, bounds>>

(* utils.SendBinaryString on the stream. *)
SendAddr(s) ==
    /\ sess[s].pc = "send"
    /\ \/ sess' = [sess EXCEPT ![s].pc = "slot", ![s].relays = @ + 1]
       \/ ~sess[s].alive /\ sess' = [sess EXCEPT ![s].pc = "requeue"]
    /\ UNCHANGED <<localCh, streamCounter, sessionCounter, lost, drifts, sessionOnly>>

(* After a failed send the connection goes back, blocking, and the loop    *)
(* asks for another slot; the one it had is not given back.                *)
Requeue(s) ==
    /\ sess[s].pc = "requeue" /\ localCh < ChannelSize
    /\ localCh' = localCh + 1
    /\ sess' = [sess EXCEPT ![s].pc = "slot", ![s].leaked = @ + 1]
    /\ UNCHANGED <<streamCounter, sessionCounter, lost, drifts, sessionOnly>>

(* TCPConnectionHandler returns: streamCounter-- and a slot is free. *)
RelayEnds(s) ==
    LET g == sess[s]
        Released(h) == IF h.pc = "ended" THEN Ended(h) ELSE h
    IN  /\ \/ /\ g.relays > 0
              /\ sess' = [sess EXCEPT ![s] =
                             Released([g EXCEPT !.relays = @ - 1, !.used = @ - 1])]
              /\ UNCHANGED streamDrift
           \/ /\ g.old > 0
              /\ sess' = [sess EXCEPT ![s] =
                             Released([g EXCEPT !.old = @ - 1, !.used = @ - 1])]
              /\ streamDrift' = streamDrift + 1
        /\ streamCounter' = streamCounter - 1
        /\ UNCHANGED <<localCh, sessionCounter, lost, sessionDrift, sessionOnly>>

(* The session's connection breaks, or the client's handleSession ends. *)
SessionDies(s) ==
    /\ sess[s].alive /\ faults < MaxFaults
    /\ faults' = faults + 1
    /\ sess' = [sess EXCEPT ![s].alive = FALSE]
    /\ UNCHANGED <<phase, localCh, accepting, supply, streamCounter, sessionCounter,
                   lost, swallowed, drifts, arrived, restarts>>

-----------------------------------------------------------------------------
(* Restart, of both sides *)

RestartBegin ==
    /\ phase = "running" /\ restarts < MaxRestarts
    /\ phase' = "stopping" /\ restarts' = restarts + 1
    /\ dialing' = 0
    /\ UNCHANGED <<localCh, accepting, reqCh, wire, backlog, tunnelCh, tokens, newPoolSize,
                   streamCounter, sessionCounter, sess, lost, swallowed, drifts,
                   arrived, faults>>

(* Two seconds are enough for every goroutine that is not blocked: what is *)
(* left waits for a slot, or for room in a localChannel that is about to   *)
(* be replaced (and then waits for ever).                                  *)
Blocked(s) == \/ sess[s].pc \in {"free", "ended", "stuck"}
              \/ sess[s].pc = "slot" /\ sess[s].used = MuxCon
              \/ sess[s].pc \in {"requeue", "fail"} /\ localCh = ChannelSize

Survivor(g) == [pc |-> IF g.pc \in {"requeue", "fail"} THEN "stuck" ELSE g.pc,
                alive |-> g.alive, counted |-> FALSE, used |-> g.used,
                relays |-> 0, old |-> g.old + g.relays, leaked |-> g.leaked]

RestartFinish ==
    /\ phase = "stopping" /\ counting = 0 /\ comparing = 0
    /\ \A s \in Sessions : Blocked(s)
    /\ phase' = "linking"
    /\ localCh' = 0 /\ reqCh' = 0 /\ wire' = 0 /\ backlog' = 0 /\ tunnelCh' = 0
    /\ tokens' = 0 /\ newPoolSize' = 0
    /\ streamCounter' = 0 /\ sessionCounter' = 0
    /\ sess' = [s \in Sessions |-> Survivor(sess[s])]
    /\ lost' = 0 /\ swallowed' = 0 /\ streamDrift' = 0 /\ sessionDrift' = 0
    /\ UNCHANGED <<accepting, dialing, bounds>>

(* Control channel and poolMaintainer of the next run. *)
LinkUp ==
    /\ phase = "linking"
    /\ phase' = "running"
    /\ newPoolSize' = ConnPoolSize /\ dialing' = dialing + ConnPoolSize
    /\ UNCHANGED <<localCh, accepting, reqCh, wire, backlog, tunnelCh, tokens,
                   streamCounter, sessionCounter, sess, lost, swallowed, drifts, bounds>>

-----------------------------------------------------------------------------
SupplyStep == \/ CountStream \/ CompareCounters \/ SendRequest \/ ReceiveRequest
              \/ DialTunnel \/ AcceptTunnel
SessionStep(s) == \/ HandleLoop(s) \/ TakeSlot(s) \/ TakeLocal(s) \/ OpenStream(s)
                  \/ SendAddr(s) \/ Requeue(s) \/ FailSession(s)
PoolStep == GrowPool \/ ShrinkPool
RestartStep == RestartBegin \/ RestartFinish \/ LinkUp

Next == \/ AcceptLocal \/ SupplyStep \/ PoolStep \/ RestartStep
        \/ \E s \in Sessions : \/ SessionStep(s) \/ SessionCancelled(s)
                               \/ RelayEnds(s) \/ SessionDies(s)

(* Goroutines run, relays end and a restart completes; poolMaintainer's    *)
(* period passes, and an empty pool is grown then.                          *)
Fairness ==
    /\ WF_vars(CountStream) /\ WF_vars(CompareCounters) /\ WF_vars(SendRequest)
    /\ WF_vars(ReceiveRequest) /\ WF_vars(DialTunnel) /\ WF_vars(AcceptTunnel)
    /\ WF_vars(PoolConnections = 0 /\ GrowPool)
    /\ WF_vars(RestartFinish) /\ WF_vars(LinkUp)
    /\ \A s \in Sessions : /\ WF_vars(SessionStep(s)) /\ WF_vars(RelayEnds(s))
                          /\ WF_vars(SessionCancelled(s))

Spec == Init /\ [][Next]_vars
FairSpec == Spec /\ Fairness

-----------------------------------------------------------------------------
Serving == {"slot", "select", "open", "send", "requeue"}
Holding == {"open", "send", "requeue", "fail"}
Failing == {s \in Sessions : sess[s].pc = "fail"}
Held == {s \in Sessions : sess[s].pc \in Holding}
Relayed == UNION {{<<s, k>> : k \in 1..sess[s].relays} : s \in Sessions}
CountedSessions == {s \in Sessions : sess[s].counted /\ sess[s].pc \in Serving}

(* Channels keep their capacity, a session its slots. *)
TypeOK ==
    /\ phase \in {"running", "stopping", "linking"}
    /\ localCh \in 0..ChannelSize /\ reqCh \in 0..ChannelSize
    /\ tunnelCh \in 0..ChannelSize /\ tokens \in 0..FlowCap
    /\ {counting, comparing, wire, dialing, backlog, newPoolSize} \subseteq Nat
    /\ {streamCounter, sessionCounter} \subseteq Int
    /\ sess \in [Sessions -> [pc : Serving \cup {"free", "fail", "stuck", "ended"},
                              alive : BOOLEAN, counted : BOOLEAN, used : 0..MuxCon,
                              relays : 0..MuxCon, old : 0..MuxCon, leaked : 0..MuxCon]]
    /\ {lost, swallowed, streamDrift, sessionDrift, arrived, faults, restarts} \subseteq Nat

(* streamCounter is the number of user connections queued, held by a       *)
(* session or relayed since the last restart, but for those acceptLocalConn *)
(* is about to add and those of earlier runs it was decremented for.       *)
StreamCounterExact ==
    streamCounter + streamDrift + counting
        = localCh + Cardinality(Held) + Cardinality(Relayed)

(* sessionCounter is the number of sessions of this run that take user     *)
(* connections, less the decrements for sessions of earlier runs.          *)
SessionCounterExact ==
    phase # "stopping" =>
        sessionCounter + sessionDrift = Cardinality(CountedSessions)

(* Sessions on their way. *)
Inflight == reqCh + wire + dialing + backlog + tunnelCh + Cardinality(Failing)

(* Every counted stream has a slot in a session that is counted or on its  *)
(* way, unless a request or session was lost or a token swallowed it.      *)
Provisioned ==
    phase # "stopping" /\ lost = 0 =>
        streamCounter <= (sessionCounter + Inflight + swallowed) * MuxCon + comparing

(* However requests are lost or swallowed, slots leak and restarts leave   *)
(* the counters short, the queue of user connections empties again and     *)
(* again: a relay ends, or the pool becomes empty and poolMaintainer dials. *)
AllServed == []<>(localCh = 0)

(* "+1 for mux connection counter": the slots taken of a session are its   *)
(* mux connections, and the one handleSession is about to make.            *)
SlotsExact ==
    \A s \in Sessions : sess[s].pc \in Serving =>
        sess[s].used = sess[s].relays + sess[s].old + (IF sess[s].pc = "slot" THEN 0 ELSE 1)
=============================================================================
