------------------------------ MODULE TcpClient ------------------------------
(***************************************************************************)
(* The client of the tcp transport across restarts: what the goroutines of *)
(* one run leave to the next.                                              *)
(*                                                                         *)
(* Restart cancels the context, sleeps two seconds, resets the counters,   *)
(* makes a new controlFlow and starts dialing again.  channelHandler and   *)
(* poolMaintainer see the cancellation in that time, unless poolMaintainer *)
(* is in its send on controlFlow, where it never looks at the context.     *)
(* A tunnelDialer looks at the context only while it dials: once connected *)
(* it waits for an address for as long as the server keeps the tunnel, and *)
(* then decrements poolConnections, which may have been reset meanwhile.   *)
(*                                                                         *)
(* As in TunnelPool, goroutines that differ in nothing are counted.  The   *)
(* control channel is an environment: it comes up (LinkUp), carries        *)
(* requests and fails (RestartBegin) at will; TcpLink has its inside.      *)
(***************************************************************************)
EXTENDS Integers

CONSTANTS
    ConnPoolSize,   \* config.ConnPoolSize
    FlowCap,        \* capacity of controlFlow (100 in the code)
    Window,         \* pool samples per load period (10 in the code)
    MaxRestarts,    \* bound: restarts
    MaxRequests,    \* bound: SG_Chan bytes received
    MaxPool         \* bound: newPoolSize is not grown past it

ASSUME TcpClientAssumption ==
    /\ ConnPoolSize \in Nat
    /\ FlowCap \in Nat
    /\ Window \in Nat \ {0}
    /\ {MaxRestarts, MaxRequests, MaxPool} \subseteq Nat

VARIABLES
    phase,       \* "dialing" (channelDialer), "running", "stopping" (in Restart)
    handler,     \* 1 while channelHandler runs
    maintainer,  \* poolMaintainer: "none", "loop", "send" (on controlFlow)
    newPoolSize, ticks, poolConnectionsSum,        \* poolMaintainer's locals
    poolConnections, loadConnections,
    tokens,      \* length of the current controlFlow
    dialing,     \* tunnelDialers in TcpDialer with the current context
    stale,       \* tunnelDialers in TcpDialer with a cancelled context
    connected,   \* tunnelDialers about to increment poolConnections
    counted,     \* tunnelDialers that incremented it since the last reset
    survivors,   \* tunnelDialers that incremented it before the last reset
    stuck,       \* poolMaintainers of earlier runs, still in their send
    \* history and bounds
    ordered,     \* tunnelDialers spawned in this run less the requests received
    restarts, requests

counters == <<poolConnections, loadConnections>>
dialers == <<dialing, stale, connected, counted, survivors>>
locals == <<newPoolSize, ticks, poolConnectionsSum>>
bounds == <<restarts, requests>>
vars == <<phase, handler, maintainer, locals, counters, tokens, dialers, stuck,
          ordered, bounds>>

-----------------------------------------------------------------------------
Init ==
    /\ phase = "dialing" /\ handler = 0 /\ maintainer = "none"
    /\ newPoolSize = 0 /\ ticks = 0 /\ poolConnectionsSum = 0
    /\ poolConnections = 0 /\ loadConnections = 0 /\ tokens = 0
    /\ dialing = 0 /\ stale = 0 /\ connected = 0 /\ counted = 0 /\ survivors = 0
    /\ stuck = 0 /\ ordered = 0 /\ restarts = 0 /\ requests = 0

(* channelDialer gets the token back: go poolMaintainer(), which first     *)
(* spawns ConnPoolSize tunnelDialers, and go channelHandler().             *)
LinkUp ==
    /\ phase = "dialing"
    /\ phase' = "running" /\ handler' = 1 /\ maintainer' = "loop"
    /\ newPoolSize' = ConnPoolSize /\ ticks' = 0 /\ poolConnectionsSum' = 0
    /\ dialing' = dialing + ConnPoolSize
    /\ ordered' = ConnPoolSize
    /\ UNCHANGED <<counters, tokens, stale, connected, counted, survivors, stuck, bounds>>

(* Restart: cancel() reaches the tunnelDialers that still dial. *)
RestartBegin ==
    /\ phase = "running" /\ restarts < MaxRestarts
    /\ phase' = "stopping"
    /\ restarts' = restarts + 1
    /\ dialing' = 0 /\ stale' = stale + dialing
    /\ UNCHANGED <<handler, maintainer, locals, counters, tokens, connected, counted,
                   survivors, stuck, ordered, requests>>

HandlerEnds ==
    /\ phase = "stopping" /\ handler = 1
    /\ handler' = 0
    /\ UNCHANGED <<phase, maintainer, locals, counters, tokens, dialers, stuck,
                   ordered, bounds>>

MaintainerEnds ==
    /\ phase = "stopping" /\ maintainer = "loop"
    /\ maintainer' = "none"
    /\ UNCHANGED <<phase, handler, locals, counters, tokens, dialers, stuck,
                   ordered, bounds>>

(* Mutant: the counters are not reset. *)
RestartFinishKeepsCounters ==
    /\ phase = "stopping" /\ handler = 0 /\ maintainer # "loop"
    /\ phase' = "dialing"
    /\ maintainer' = "none"
    /\ stuck' = IF maintainer = "send" THEN stuck + 1 ELSE stuck
    /\ tokens' = 0
    /\ counted' = 0 /\ survivors' = survivors + counted
    /\ UNCHANGED <<handler, locals, counters, dialing, stale, connected, ordered, bounds>>

(* Mutant: controlFlow is not made anew. *)
RestartFinishKeepsFlow ==
    /\ phase = "stopping" /\ handler = 0 /\ maintainer # "loop"
    /\ phase' = "dialing"
    /\ maintainer' = "none"
    /\ stuck' = IF maintainer = "send" THEN stuck + 1 ELSE stuck
    /\ poolConnections' = 0 /\ loadConnections' = 0
    /\ counted' = 0 /\ survivors' = survivors + counted
    /\ UNCHANGED <<handler, locals, tokens, dialing, stale, connected, ordered, bounds>>

(* Restart, after its sleep.  A poolMaintainer in its send keeps the old   *)
(* controlFlow, which nobody receives from any more.                       *)
RestartFinish ==
    /\ phase = "stopping" /\ handler = 0 /\ maintainer # "loop"
    /\ phase' = "dialing"
    /\ maintainer' = "none"
    /\ stuck' = IF maintainer = "send" THEN stuck + 1 ELSE stuck
    /\ poolConnections' = 0 /\ loadConnections' = 0
    /\ tokens' = 0
    /\ counted' = 0 /\ survivors' = survivors + counted
    /\ UNCHANGED <<handler, locals, dialing, stale, connected, ordered, bounds>>

-----------------------------------------------------------------------------
(* channelHandler, case SG_Chan; a tunnelDialer it spawns after cancel()   *)
(* gets the cancelled context.                                             *)
ReceiveRequest ==
    /\ handler = 1 /\ requests < MaxRequests
    /\ requests' = requests + 1
    /\ loadConnections' = loadConnections + 1
    /\ \/ /\ tokens > 0
          /\ tokens' = tokens - 1
          /\ ordered' = ordered - 1
          /\ UNCHANGED <<dialing, stale>>
       \/ /\ tokens = 0
          /\ \/ phase = "running" /\ dialing' = dialing + 1 /\ UNCHANGED stale
             \/ phase = "stopping" /\ stale' = stale + 1 /\ UNCHANGED dialing
          /\ UNCHANGED <<tokens, ordered>>
    /\ UNCHANGED <<phase, handler, maintainer, locals, poolConnections, connected,
                   counted, survivors, stuck, restarts>>

(* poolMaintainer. *)
SamplePool ==
    /\ maintainer = "loop" /\ ticks < Window
    /\ ticks' = ticks + 1
    /\ poolConnectionsSum' = poolConnectionsSum + poolConnections
    /\ UNCHANGED <<phase, handler, maintainer, newPoolSize, counters, tokens,
                   dialers, stuck, ordered, bounds>>

(* Go's division truncates toward zero; the sum can be negative. *)
Quotient(n, d) == IF n >= 0 THEN n \div d ELSE -((-n) \div d)
CeilAvg(n) == Quotient(n + Window - 1, Window)

(* The factors are those of AggressivePool, which the configuration always *)
(* turns on.  The tickers fire together every Window samples and are       *)
(* served in either order.                                                 *)
AdjustPool ==
    LET load == CeilAvg(loadConnections)
        avg  == CeilAvg(poolConnectionsSum)
        grow == load + 1 > avg * 2
        shrink == 4 * load < 3 * avg /\ newPoolSize > ConnPoolSize
    IN  /\ maintainer = "loop" /\ ticks \in {Window - 1, Window}
        /\ ticks' = ticks - Window /\ poolConnectionsSum' = 0 /\ loadConnections' = 0
        /\ \/ /\ grow /\ newPoolSize < MaxPool
              /\ newPoolSize' = newPoolSize + 1
              /\ ordered' = ordered + 1
              /\ \/ phase = "running" /\ dialing' = dialing + 1 /\ UNCHANGED stale
                 \/ phase = "stopping" /\ stale' = stale + 1 /\ UNCHANGED dialing
              /\ UNCHANGED maintainer
           \/ /\ ~grow /\ shrink
              /\ newPoolSize' = newPoolSize - 1
              /\ maintainer' = "send"
              /\ UNCHANGED <<ordered, dialing, stale>>
           \/ /\ IF grow THEN newPoolSize >= MaxPool ELSE ~shrink
              /\ UNCHANGED <<newPoolSize, ordered, dialing, stale, maintainer>>
        /\ UNCHANGED <<phase, handler, poolConnections, tokens, connected, counted,
                       survivors, stuck, bounds>>

(* poolMaintainer's send on controlFlow, which blocks while it is full. *)
SignalShrink ==
    /\ maintainer = "send" /\ tokens < FlowCap
    /\ tokens' = tokens + 1
    /\ maintainer' = "loop"
    /\ UNCHANGED <<phase, handler, locals, counters, dialers, stuck, ordered, bounds>>

-----------------------------------------------------------------------------
(* tunnelDialer *)

DialConnects ==
    /\ dialing > 0
    /\ dialing' = dialing - 1 /\ connected' = connected + 1
    /\ UNCHANGED <<phase, handler, maintainer, locals, counters, tokens, stale,
                   counted, survivors, stuck, ordered, bounds>>

DialFails ==
    /\ \/ dialing > 0 /\ dialing' = dialing - 1 /\ UNCHANGED stale
       \/ stale > 0 /\ stale' = stale - 1 /\ UNCHANGED dialing
    /\ UNCHANGED <<phase, handler, maintainer, locals, counters, tokens, connected,
                   counted, survivors, stuck, ordered, bounds>>

CountConn ==
    /\ connected > 0
    /\ connected' = connected - 1 /\ counted' = counted + 1
    /\ poolConnections' = poolConnections + 1
    /\ UNCHANGED <<phase, handler, maintainer, locals, loadConnections, tokens,
                   dialing, stale, survivors, stuck, ordered, bounds>>

(* The receive returns, with an address or an error. *)
ReceiveAddr ==
    /\ \/ counted > 0 /\ counted' = counted - 1 /\ UNCHANGED survivors
       \/ survivors > 0 /\ survivors' = survivors - 1 /\ UNCHANGED counted
    /\ poolConnections' = poolConnections - 1
    /\ UNCHANGED <<phase, handler, maintainer, locals, loadConnections, tokens,
                   dialing, stale, connected, stuck, ordered, bounds>>

-----------------------------------------------------------------------------
RunStep == \/ LinkUp \/ RestartBegin \/ HandlerEnds \/ MaintainerEnds \/ RestartFinish
PoolStep == \/ ReceiveRequest \/ SamplePool \/ AdjustPool \/ SignalShrink
            \/ DialConnects \/ DialFails \/ CountConn \/ ReceiveAddr

Next == RunStep \/ PoolStep

Spec == Init /\ [][Next]_vars

-----------------------------------------------------------------------------
(* The shape of the state.  poolConnections is an Int: dialers of an earlier *)
(* run take it below zero.                                                  *)
TypeOK ==
    /\ phase \in {"dialing", "running", "stopping"}
    /\ handler \in {0, 1} /\ maintainer \in {"none", "loop", "send"}
    /\ newPoolSize \in Int /\ ticks \in -1..Window /\ poolConnectionsSum \in Int
    /\ poolConnections \in Int /\ loadConnections \in Nat
    /\ tokens \in 0..FlowCap
    /\ dialing \in Nat /\ stale \in Nat /\ connected \in Nat
    /\ counted \in Nat /\ survivors \in Nat
    /\ stuck \in Nat /\ ordered \in Int
    /\ restarts \in Nat /\ requests \in Nat

Signalling == IF maintainer = "send" THEN 1 ELSE 0

(* However runs end, each run orders exactly the tunnels its own           *)
(* poolMaintainer and channelHandler account for: the pool it means to     *)
(* keep, one per request, and one for each request a token is going to     *)
(* swallow.  Neither a token of an earlier run nor a poolMaintainer that   *)
(* an earlier run left in its send swallows a request of this one.         *)
OrdersExact ==
    phase = "running" => ordered = newPoolSize + tokens + Signalling

(* A restart never makes poolMaintainer believe in tunnels that are not    *)
(* there: poolConnections is at most the tunnels of this run's count that  *)
(* wait for an address, so an empty pool is always seen as one and grown.  *)
NeverOvercounts == poolConnections <= counted
=============================================================================
