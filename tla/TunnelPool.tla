----------------------------- MODULE TunnelPool -----------------------------
(***************************************************************************)
(* How a tunnel connection comes to be there when a user connection needs  *)
(* one, in the tcp transport, between two restarts.                        *)
(*                                                                         *)
(* Each user connection the server accepts (acceptLocalConn) puts one      *)
(* request in reqNewConnChan; the server's channelHandler turns it into    *)
(* one SG_Chan byte on the control channel; the client's channelHandler    *)
(* answers each SG_Chan by dialing one tunnel, unless a token in           *)
(* controlFlow tells it to swallow the request; the server queues the      *)
(* dialed connection in tunnelChannel, where a handleLoop finds it.        *)
(* poolMaintainer resizes the pool: it grows it by dialing one more        *)
(* tunnel and shrinks it by leaving one token in controlFlow.  Nobody      *)
(* counts the tunnels end to end; this module does, with one counter per   *)
(* place where a connection, a request or a token can be.                  *)
(*                                                                         *)
(* Connections are interchangeable here, so a channel is its length.  The  *)
(* identity of connections is in TcpServer.                                *)
(***************************************************************************)
EXTENDS Integers

CONSTANTS
    ChannelSize,     \* config.ChannelSize: capacity of the server's channels
    HandleLoops,     \* handleLoop goroutines Start spawns (1..4)
    ConnPoolSize,    \* config.ConnPoolSize: tunnels dialed up front
    FlowCap,         \* capacity of controlFlow (100 in the code)
    Window,          \* pool samples per load period (10 in the code)
    AggressivePool,  \* config.AggressivePool
    MaxLocals,       \* bound: user connections that arrive
    MaxPool,         \* bound: newPoolSize is not grown past it
    MaxFaults        \* bound: failed dials, dying tunnels, failed sends

ASSUME ConstantsAssumption ==
    /\ ChannelSize \in Nat \ {0}
    /\ HandleLoops \in Nat \ {0}
    /\ ConnPoolSize \in Nat
    /\ FlowCap \in Nat
    /\ Window \in Nat \ {0}
    /\ AggressivePool \in BOOLEAN
    /\ MaxLocals \in Nat
    /\ MaxPool \in Nat
    /\ MaxFaults \in Nat

VARIABLES
    \* server
    arrived,    \* user connections accepted so far (bound only)
    localCh,    \* length of localChannel
    checking,   \* handleLoops holding a user connection, at the age check
    waiting,    \* handleLoops holding one, blocked on tunnelChannel
    reqCh,      \* length of reqNewConnChan
    backlog,    \* dialed tunnels not yet accepted by acceptTunnelConn
    idle,       \* tunnels in tunnelChannel whose client end is open
    dead,       \* tunnels in tunnelChannel whose client end is gone
    \* the control channel: SG_Chan bytes written and not yet handled
    wire,
    \* client
    dialing,    \* tunnelDialers inside TcpDialer
    addr,       \* tunnels whose target address is sent and not yet received
    closing,    \* tunnels the server closed and the client still waits on
    poolConnections, loadConnections,
    tokens,     \* length of controlFlow
    newPoolSize,
    signalling, \* 1 while poolMaintainer is in the send on controlFlow
    ticks,      \* samples taken in this load period
    poolConnectionsSum,
    \* history: what left the flow
    faults,     \* faults injected (bound only)
    lost,       \* requests and tunnels that vanished unused
    expired     \* user connections closed for their age

server == <<arrived, localCh, checking, waiting, reqCh, backlog, idle, dead>>
client == <<dialing, poolConnections, loadConnections, tokens, newPoolSize,
            signalling, ticks, poolConnectionsSum>>
network == <<wire, addr, closing>>
history == <<faults, lost, expired>>
maintainer == <<newPoolSize, signalling, ticks, poolConnectionsSum>>
vars == <<server, client, network, history>>

-----------------------------------------------------------------------------
(* poolMaintainer's factors; y is a float in the code, here in quarters. *)
FactorA == IF AggressivePool THEN 1 ELSE 4
FactorB == IF AggressivePool THEN 2 ELSE 5
FactorX == IF AggressivePool THEN 0 ELSE 3
FactorY4 == IF AggressivePool THEN 3 ELSE 16

(* (n + 9) / 10 in the code: the mean over the period, rounded up. *)
CeilAvg(n) == (n + Window - 1) \div Window

-----------------------------------------------------------------------------
(* poolMaintainer starts with ConnPoolSize dialers. *)
Init ==
    /\ arrived = 0 /\ localCh = 0 /\ checking = 0 /\ waiting = 0
    /\ reqCh = 0 /\ backlog = 0 /\ idle = 0 /\ dead = 0
    /\ wire = 0 /\ addr = 0 /\ closing = 0
    /\ dialing = ConnPoolSize
    /\ poolConnections = 0 /\ loadConnections = 0
    /\ tokens = 0 /\ newPoolSize = ConnPoolSize /\ signalling = 0
    /\ ticks = 0 /\ poolConnectionsSum = 0
    /\ faults = 0 /\ lost = 0 /\ expired = 0

-----------------------------------------------------------------------------
(* Server *)

(* Mutant: the user connection is queued and no tunnel is asked for. *)
AcceptLocalNoRequest ==
    /\ arrived < MaxLocals
    /\ arrived' = arrived + 1
    /\ localCh < ChannelSize
    /\ localCh' = localCh + 1
    /\ UNCHANGED <<checking, waiting, reqCh, backlog, idle, dead,
                   client, network, history>>

(* acceptLocalConn: the user connection is queued if localChannel has room *)
(* and closed otherwise; only after a successful push is a tunnel          *)
(* requested, and the request is silently dropped when reqNewConnChan is   *)
(* full.                                                                   *)
AcceptLocal ==
    /\ arrived < MaxLocals
    /\ arrived' = arrived + 1
    /\ \/ /\ localCh < ChannelSize
          /\ localCh' = localCh + 1
          /\ \/ reqCh < ChannelSize /\ reqCh' = reqCh + 1 /\ UNCHANGED lost
             \/ reqCh = ChannelSize /\ lost' = lost + 1 /\ UNCHANGED reqCh
       \/ localCh = ChannelSize /\ UNCHANGED <<localCh, reqCh, lost>>
    /\ UNCHANGED <<checking, waiting, backlog, idle, dead,
                   client, network, faults, expired>>

(* channelHandler, case <-s.reqNewConnChan. *)
SendRequest ==
    /\ reqCh > 0
    /\ reqCh' = reqCh - 1
    /\ wire' = wire + 1
    /\ UNCHANGED <<arrived, localCh, checking, waiting, backlog, idle, dead,
                   client, addr, closing, history>>

(* handleLoop takes the next user connection. *)
TakeLocal ==
    /\ localCh > 0
    /\ checking + waiting < HandleLoops
    /\ localCh' = localCh - 1
    /\ checking' = checking + 1
    /\ UNCHANGED <<arrived, waiting, reqCh, backlog, idle, dead,
                   client, network, history>>

(* handleLoop's age check: a connection older than 3000ms is closed, a     *)
(* younger one waits for a tunnel for as long as it takes.                 *)
AgeCheck ==
    /\ checking > 0
    /\ checking' = checking - 1
    /\ \/ waiting' = waiting + 1 /\ UNCHANGED expired
       \/ expired' = expired + 1 /\ UNCHANGED waiting
    /\ UNCHANGED <<arrived, localCh, reqCh, backlog, idle, dead,
                   client, network, faults, lost>>

(* handleLoop sends the target address over the next tunnel and starts the *)
(* relay.  A write on a connection whose peer is gone may still succeed    *)
(* (the kernel buffers it); the relay then ends at once.                   *)
Handoff ==
    /\ waiting > 0
    /\ waiting' = waiting - 1
    /\ \/ idle > 0 /\ idle' = idle - 1 /\ addr' = addr + 1 /\ UNCHANGED dead
       \/ dead > 0 /\ dead' = dead - 1 /\ UNCHANGED <<idle, addr>>
    /\ UNCHANGED <<arrived, localCh, checking, reqCh, backlog,
                   client, wire, closing, history>>

(* The send fails: the tunnel is closed and the loop starts over with the  *)
(* same user connection, age check included.                               *)
HandoffFails ==
    /\ waiting > 0
    /\ waiting' = waiting - 1
    /\ checking' = checking + 1
    /\ \/ /\ dead > 0
          /\ dead' = dead - 1
          /\ UNCHANGED <<idle, closing, faults>>
       \/ /\ idle > 0 /\ faults < MaxFaults
          /\ idle' = idle - 1
          /\ closing' = closing + 1
          /\ faults' = faults + 1
          /\ UNCHANGED dead
    /\ lost' = lost + 1
    /\ UNCHANGED <<arrived, localCh, reqCh, backlog, client, wire, addr, expired>>

(* Mutant: the tunnel is queued without looking at the capacity. *)
AcceptTunnelUnbounded ==
    /\ backlog > 0
    /\ backlog' = backlog - 1
    /\ idle' = idle + 1
    /\ UNCHANGED <<arrived, localCh, checking, waiting, reqCh, dead,
                   client, network, history>>

(* acceptTunnelConn: queue the tunnel, or close it when tunnelChannel is   *)
(* full, or when it comes from another address than the control connection *)
(* (a fault: a client of several addresses).                               *)
AcceptTunnel ==
    /\ backlog > 0
    /\ backlog' = backlog - 1
    /\ \/ /\ idle + dead < ChannelSize
          /\ idle' = idle + 1
          /\ UNCHANGED <<closing, lost, faults>>
       \/ /\ \/ idle + dead = ChannelSize /\ UNCHANGED faults
             \/ faults < MaxFaults /\ faults' = faults + 1
          /\ closing' = closing + 1
          /\ lost' = lost + 1
          /\ UNCHANGED idle
    /\ UNCHANGED <<arrived, localCh, checking, waiting, reqCh, dead,
                   client, wire, addr, expired>>

-----------------------------------------------------------------------------
(* Client *)

(* Mutant: a token is taken and the tunnel is dialed all the same. *)
ReceiveRequestDialsAnyway ==
    /\ wire > 0
    /\ wire' = wire - 1
    /\ loadConnections' = loadConnections + 1
    /\ tokens' = IF tokens > 0 THEN tokens - 1 ELSE tokens
    /\ dialing' = dialing + 1
    /\ UNCHANGED <<server, poolConnections, maintainer, addr, closing, history>>

(* channelHandler, case SG_Chan: a token swallows the request, otherwise a *)
(* tunnelDialer starts.                                                    *)
ReceiveRequest ==
    /\ wire > 0
    /\ wire' = wire - 1
    /\ loadConnections' = loadConnections + 1
    /\ \/ tokens > 0 /\ tokens' = tokens - 1 /\ UNCHANGED dialing
       \/ tokens = 0 /\ dialing' = dialing + 1 /\ UNCHANGED tokens
    /\ UNCHANGED <<server, poolConnections, maintainer, addr, closing, history>>

(* tunnelDialer: TcpDialer succeeds and the counter goes up, or all its    *)
(* attempts fail and the goroutine ends.                                   *)
DialTunnel ==
    /\ dialing > 0
    /\ dialing' = dialing - 1
    /\ backlog' = backlog + 1
    /\ poolConnections' = poolConnections + 1
    /\ UNCHANGED <<arrived, localCh, checking, waiting, reqCh, idle, dead,
                   loadConnections, tokens, maintainer, network, history>>

DialFails ==
    /\ dialing > 0 /\ faults < MaxFaults
    /\ dialing' = dialing - 1
    /\ faults' = faults + 1
    /\ lost' = lost + 1
    /\ UNCHANGED <<server, poolConnections, loadConnections, tokens,
                   maintainer, network, expired>>

(* Mutant: the early return on a failed receive skips the decrement. *)
ReceiveAddrLeaks ==
    /\ \/ /\ addr > 0 /\ addr' = addr - 1
          /\ poolConnections' = poolConnections - 1
          /\ UNCHANGED closing
       \/ closing > 0 /\ closing' = closing - 1 /\ UNCHANGED <<addr, poolConnections>>
    /\ UNCHANGED <<server, dialing, loadConnections, tokens, maintainer,
                   wire, history>>

(* tunnelDialer: the blocking receive returns with an address or an error; *)
(* either way the counter goes down.                                       *)
ReceiveAddr ==
    /\ \/ addr > 0 /\ addr' = addr - 1 /\ UNCHANGED closing
       \/ closing > 0 /\ closing' = closing - 1 /\ UNCHANGED addr
    /\ poolConnections' = poolConnections - 1
    /\ UNCHANGED <<server, dialing, loadConnections, tokens, maintainer,
                   wire, history>>

(* The client's end of a queued tunnel breaks while tunnelDialer waits on  *)
(* it; the server cannot tell until it writes.                             *)
TunnelBreaks ==
    /\ idle > 0 /\ faults < MaxFaults
    /\ idle' = idle - 1
    /\ dead' = dead + 1
    /\ poolConnections' = poolConnections - 1
    /\ faults' = faults + 1
    /\ UNCHANGED <<arrived, localCh, checking, waiting, reqCh, backlog, dialing,
                   loadConnections, tokens, maintainer, network, lost, expired>>

(* poolMaintainer, case <-tickerPool.C. *)
SamplePool ==
    /\ signalling = 0
    /\ ticks < Window
    /\ ticks' = ticks + 1
    /\ poolConnectionsSum' = poolConnectionsSum + poolConnections
    /\ UNCHANGED <<server, dialing, poolConnections, loadConnections, tokens,
                   newPoolSize, signalling, network, history>>

(* poolMaintainer's two comparisons. *)
GrowConditionNoSlack(load, avg) == load > avg * FactorB  \* mutant: "+ a" dropped
GrowCondition(load, avg) == load + FactorA > avg * FactorB
ShrinkCondition(load, avg) ==
    4 * (load + FactorX) < avg * FactorY4 /\ newPoolSize > ConnPoolSize

(* poolMaintainer, case <-tickerLoad.C.  The two tickers fire together     *)
(* every Window samples and the select takes them in either order.         *)
AdjustPool ==
    LET load == CeilAvg(loadConnections)
        avg  == CeilAvg(poolConnectionsSum)
        grow == GrowCondition(load, avg)
    IN  /\ signalling = 0
        /\ ticks \in {Window - 1, Window}
        /\ ticks' = ticks - Window
        /\ loadConnections' = 0
        /\ poolConnectionsSum' = 0
        /\ \/ /\ grow /\ newPoolSize < MaxPool
              /\ newPoolSize' = newPoolSize + 1
              /\ dialing' = dialing + 1
              /\ UNCHANGED signalling
           \/ /\ ~grow /\ ShrinkCondition(load, avg)
              /\ newPoolSize' = newPoolSize - 1
              /\ signalling' = 1
              /\ UNCHANGED dialing
           \/ /\ IF grow THEN newPoolSize >= MaxPool
                         ELSE ~ShrinkCondition(load, avg)
              /\ UNCHANGED <<newPoolSize, dialing, signalling>>
        /\ UNCHANGED <<server, poolConnections, tokens, network, history>>

(* poolMaintainer, c.controlFlow <- struct{}{}: blocks while controlFlow   *)
(* is full, and neither ticker is served meanwhile.                        *)
SignalShrink ==
    /\ signalling = 1
    /\ tokens < FlowCap
    /\ tokens' = tokens + 1
    /\ signalling' = 0
    /\ UNCHANGED <<server, dialing, poolConnections, loadConnections,
                   newPoolSize, ticks, poolConnectionsSum, network, history>>

-----------------------------------------------------------------------------
ServerStep == \/ AcceptLocal \/ SendRequest \/ TakeLocal \/ AgeCheck
              \/ Handoff \/ HandoffFails \/ AcceptTunnel
ClientStep == \/ ReceiveRequest \/ DialTunnel \/ DialFails \/ ReceiveAddr
              \/ TunnelBreaks \/ SamplePool \/ AdjustPool \/ SignalShrink

Next == ServerStep \/ ClientStep

(* Every goroutine that can run eventually does, and a dial that is not    *)
(* made to fail eventually completes.  User connections and faults need    *)
(* not happen.                                                             *)
Fairness ==
    /\ WF_vars(SendRequest) /\ WF_vars(TakeLocal) /\ WF_vars(AgeCheck)
    /\ WF_vars(Handoff) /\ WF_vars(AcceptTunnel)
    /\ WF_vars(ReceiveRequest) /\ WF_vars(DialTunnel) /\ WF_vars(ReceiveAddr)
    /\ WF_vars(SamplePool) /\ WF_vars(AdjustPool) /\ WF_vars(SignalShrink)

Spec == Init /\ [][Next]_vars
FairSpec == Spec /\ Fairness

-----------------------------------------------------------------------------
(* Every counter stays within the capacity of the channel it stands for.   *)
TypeOK ==
    /\ arrived \in Nat
    /\ localCh \in 0..ChannelSize
    /\ checking \in Nat /\ waiting \in Nat
    /\ checking + waiting <= HandleLoops
    /\ reqCh \in 0..ChannelSize
    /\ backlog \in Nat
    /\ idle \in Nat /\ dead \in Nat /\ idle + dead <= ChannelSize
    /\ wire \in Nat /\ addr \in Nat /\ closing \in Nat
    /\ dialing \in Nat
    /\ poolConnections \in Int /\ loadConnections \in Nat
    /\ tokens \in 0..FlowCap
    /\ newPoolSize \in Int
    /\ signalling \in {0, 1}
    /\ ticks \in Int /\ poolConnectionsSum \in Int
    /\ faults \in Nat /\ lost \in Nat /\ expired \in Nat

(* User connections the server has accepted and not yet handed over. *)
Unserved == localCh + checking + waiting

(* Tunnels available to them or on their way. *)
Supply == reqCh + wire + dialing + backlog + idle + dead

(* The books balance: what is available or on its way, plus what was lost, *)
(* is what user connections still wait for, plus the intended pool, plus   *)
(* the requests that tokens will swallow, plus one tunnel for each user    *)
(* connection that gave up after its tunnel was ordered.  It ties          *)
(* acceptLocalConn, channelHandler, handleLoop on the server to            *)
(* channelHandler, tunnelDialer and poolMaintainer on the client.          *)
Conservation ==
    Supply + lost = Unserved + newPoolSize + tokens + signalling + expired

(* While no dial failed and no request or tunnel was dropped, every user   *)
(* connection the server holds has a tunnel available or on its way, with  *)
(* ConnPoolSize to spare: swallowing requests (controlFlow) never eats     *)
(* into the configured pool.                                               *)
EveryLocalProvisioned ==
    lost = 0 => Supply >= Unserved + ConnPoolSize

(* poolConnections, which poolMaintainer's decisions rest on, is exactly   *)
(* the number of tunnels whose tunnelDialer waits for an address: those    *)
(* queued at the server and those whose answer is on its way.              *)
PoolCounterExact == poolConnections = backlog + idle + addr + closing

(* A user connection is not left waiting: whatever finite number of dials, *)
(* sends and tunnels fail, poolMaintainer sees an empty pool and dials     *)
(* until every connection the handleLoops hold has been handed over.       *)
AllServed == []<>(Unserved = 0)
=============================================================================
