------------------------------ MODULE UdpFlows ------------------------------
(***************************************************************************)
(* The udp transport of the server: flows of users and tunnels of the      *)
(* client, two tables of payload channels that one goroutine each fills.   *)
(*                                                                         *)
(* localListener's goroutine finds or makes the flow of a user's address   *)
(* and queues it for the handleLoop of its port; acceptTunnelConn does the *)
(* same for the address of a tunnel, which starts with the token.          *)
(* handleLoop writes the target address to a tunnel, which keepAlive pings *)
(* until then, and udpCopy runs both directions and clears both tables.    *)
(*                                                                         *)
(* Datagrams are counted, their contents left out.  One run of the server: *)
(* Restart replaces the tables.  Both tables are cleared without their     *)
(* mutex where a channel is full; another goroutine that writes to the map *)
(* meanwhile makes the runtime end the process, or not.                    *)
(***************************************************************************)
EXTENDS Integers, Sequences, FiniteSets

CONSTANTS
    UdUsers,       \* addresses users send from, to one port
    UdLoads,       \* bound: how many flows and tunnels a behaviour makes,
                   \* a set of pairs
    UdNone,        \* nil
    UdChannelSize, \* capacity of udpChan and tunnelChannel: config.ChannelSize
    UdPayload      \* capacity of a payload channel (100000 in the code)

ASSUME UdpFlowsAssumption ==
    /\ UdNone \notin Nat
    /\ UdLoads \subseteq Nat \X Nat /\ UdLoads # {} /\ IsFiniteSet(UdLoads)
    /\ {UdChannelSize, UdPayload} \subseteq Nat \ {0}

VARIABLES
    udLoad,    \* the pair of UdLoads
    udTable,   \* activeConnections of the port: user -> flow or nil
    udFlow,    \* flow -> its state
    udChan,    \* udpChan
    udReader,  \* localListener's goroutine: pc, user, its new flow
    udTun,     \* tunnel -> its state; listed: in s.activeConnections
    udIdle,    \* s.tunnelChannel
    udAccept,  \* acceptTunnelConn: pc, its new tunnel
    udLoop,    \* handleLoop: the flow and the tunnel it holds
    udUp       \* the process runs

UdFlows == 1..udLoad[1]
UdTunnels == 1..udLoad[2]  \* each has an address of its own

udVars == <<udLoad, udTable, udFlow, udChan, udReader, udTun, udIdle, udAccept, udLoop, udUp>>

UdNewFlow == [user |-> UdNone, pc |-> "unused", payload |-> 0, closed |-> FALSE,
              up |-> FALSE, down |-> FALSE]
(* lock: who holds the mutex; keeper: keepAlive; got: what the client was  *)
(* sent, "late" once a ping followed the address.                          *)
UdNewTun == [pc |-> "unused", listed |-> FALSE, payload |-> 0, closed |-> FALSE,
             lock |-> "free", keeper |-> "off", ping |-> TRUE, got |-> "none",
             flow |-> UdNone]
UdReading == [pc |-> "read", user |-> UdNone, flow |-> UdNone]
UdAccepting == [pc |-> "read", tun |-> UdNone]
UdFree == [flow |-> UdNone, tun |-> UdNone]

UdInit ==
    /\ udLoad \in UdLoads
    /\ udTable = [u \in UdUsers |-> UdNone]
    /\ udFlow = [f \in UdFlows |-> UdNewFlow]
    /\ udChan = <<>> /\ udIdle = <<>>
    /\ udReader = UdReading
    /\ udTun = [t \in UdTunnels |-> UdNewTun]
    /\ udAccept = UdAccepting
    /\ udLoop = UdFree
    /\ udUp = TRUE

(* Mutant: the channel has no capacity. *)
UdPushUnbounded(n) == n + 1
(* A send with a default: the datagram is dropped when the channel is full. *)
UdPush(n) == IF n < UdPayload THEN n + 1 ELSE n

-----------------------------------------------------------------------------
(* localListener *)

(* A known user's datagram is buffered, or dropped when the channel is     *)
(* full, under mu; an unknown user gets a flow.                            *)
UdReceive(u) ==
    LET f == udTable[u]
    IN  /\ udReader.pc = "read"
        /\ \/ /\ f # UdNone
              /\ udFlow' = [udFlow EXCEPT ![f].payload = UdPush(@)]
              /\ UNCHANGED udReader
           \/ /\ f = UdNone
              /\ udReader' = [UdReading EXCEPT !.pc = "insert", !.user = u]
              /\ UNCHANGED udFlow
        /\ UNCHANGED <<udTable, udChan, udTun, udIdle, udAccept, udLoop, udUp>>

(* Flows and tunnels are numbered in the order they are made. *)
UdMade(S) == Cardinality({x \in DOMAIN S : S[x].pc # "unused"})

UdInsert ==
    LET f == UdMade(udFlow) + 1
    IN  /\ udReader.pc = "insert" /\ f \in UdFlows
        /\ udFlow' = [udFlow EXCEPT ![f].pc = "new", ![f].user = udReader.user]
        /\ udTable' = [udTable EXCEPT ![udReader.user] = f]
        /\ udReader' = [udReader EXCEPT !.pc = "queue", !.flow = f]
        /\ UNCHANGED <<udChan, udTun, udIdle, udAccept, udLoop, udUp>>

(* A full udpChan closes the payload channel of the new flow. *)
UdQueue ==
    LET f == udReader.flow
    IN  /\ udReader.pc = "queue"
        /\ \/ /\ Len(udChan) < UdChannelSize
              /\ udChan' = Append(udChan, f)
              /\ udFlow' = [udFlow EXCEPT ![f].pc = "queued"]
              /\ udReader' = [udReader EXCEPT !.pc = "first"]
           \/ /\ Len(udChan) = UdChannelSize
              /\ udFlow' = [udFlow EXCEPT ![f].pc = "refused", ![f].closed = TRUE]
              /\ udReader' = [udReader EXCEPT !.pc = "delete"]
              /\ UNCHANGED udChan
        /\ UNCHANGED <<udTable, udTun, udIdle, udAccept, udLoop, udUp>>

(* The first datagram follows its flow; the request for a tunnel follows   *)
(* it (the tunnels come from UdAcceptTunnel).                              *)
UdFirst ==
    /\ udReader.pc = "first" /\ udFlow[udReader.flow].payload < UdPayload
    /\ udFlow' = [udFlow EXCEPT ![udReader.flow].payload = @ + 1]
    /\ udReader' = UdReading
    /\ UNCHANGED <<udTable, udChan, udTun, udIdle, udAccept, udLoop, udUp>>

(* The refused flow is deleted, without mu. *)
UdDeleteFlow ==
    /\ udReader.pc = "delete"
    /\ udTable' = [udTable EXCEPT ![udReader.user] = UdNone]
    /\ udReader' = UdReading
    /\ UNCHANGED <<udFlow, udChan, udTun, udIdle, udAccept, udLoop, udUp>>

-----------------------------------------------------------------------------
(* acceptTunnelConn *)

(* A datagram of a known tunnel is buffered or dropped, under activeMu. *)
UdTunnelData(t) ==
    /\ udAccept.pc = "read" /\ udTun[t].listed
    /\ udTun' = [udTun EXCEPT ![t].payload = UdPush(@)]
    /\ UNCHANGED <<udTable, udFlow, udChan, udReader, udIdle, udAccept, udLoop, udUp>>

(* The token from a new address: the tunnel is listed.  Anything else from *)
(* an address that is not listed is dropped and changes nothing.           *)
UdAcceptTunnel ==
    LET t == UdMade(udTun) + 1
    IN  /\ udAccept.pc = "read" /\ t \in UdTunnels
        /\ udTun' = [udTun EXCEPT ![t].pc = "new", ![t].listed = TRUE]
        /\ udAccept' = [pc |-> "queue", tun |-> t]
        /\ UNCHANGED <<udTable, udFlow, udChan, udReader, udIdle, udLoop, udUp>>

UdQueueTunnel ==
    LET t == udAccept.tun
    IN  /\ udAccept.pc = "queue"
        /\ \/ /\ Len(udIdle) < UdChannelSize
              /\ udIdle' = Append(udIdle, t)
              /\ udTun' = [udTun EXCEPT ![t].pc = "idle"]
              /\ udAccept' = [udAccept EXCEPT !.pc = "keep"]
           \/ /\ Len(udIdle) = UdChannelSize
              /\ udTun' = [udTun EXCEPT ![t].pc = "refused", ![t].closed = TRUE]
              /\ udAccept' = [udAccept EXCEPT !.pc = "delete"]
              /\ UNCHANGED udIdle
        /\ UNCHANGED <<udTable, udFlow, udChan, udReader, udLoop, udUp>>

(* go keepAlive; the tunnel may have been taken before. *)
UdStartKeeper ==
    /\ udAccept.pc = "keep"
    /\ udTun' = [udTun EXCEPT ![udAccept.tun].keeper = "wait"]
    /\ udAccept' = UdAccepting
    /\ UNCHANGED <<udTable, udFlow, udChan, udReader, udIdle, udLoop, udUp>>

UdDeleteTunnel ==
    /\ udAccept.pc = "delete"
    /\ udTun' = [udTun EXCEPT ![udAccept.tun].listed = FALSE]
    /\ udAccept' = UdAccepting
    /\ UNCHANGED <<udTable, udFlow, udChan, udReader, udIdle, udLoop, udUp>>

-----------------------------------------------------------------------------
(* keepAlive *)

(* A tick: TryLock, or the end of the goroutine. *)
UdTick(t) ==
    /\ udTun[t].keeper = "wait"
    /\ udTun' = [udTun EXCEPT
                   ![t].keeper = IF udTun[t].lock = "free" THEN "write" ELSE "off",
                   ![t].lock = IF @ = "free" THEN "ping" ELSE @]
    /\ UNCHANGED <<udTable, udFlow, udChan, udReader, udIdle, udAccept, udLoop, udUp>>

(* The ping is written, or not, which ends the goroutine. *)
UdPing(t) ==
    /\ udTun[t].keeper = "write"
    /\ \/ udTun' = [udTun EXCEPT ![t].keeper = "wait", ![t].lock = "free",
                      ![t].got = IF @ = "none" THEN @ ELSE "late"]
       \/ udTun' = [udTun EXCEPT ![t].keeper = "off", ![t].lock = "free"]
    /\ UNCHANGED <<udTable, udFlow, udChan, udReader, udIdle, udAccept, udLoop, udUp>>

(* The ping channel is closed. *)
UdKeeperEnds(t) ==
    /\ udTun[t].keeper = "wait" /\ ~udTun[t].ping
    /\ udTun' = [udTun EXCEPT ![t].keeper = "off"]
    /\ UNCHANGED <<udTable, udFlow, udChan, udReader, udIdle, udAccept, udLoop, udUp>>

-----------------------------------------------------------------------------
(* handleLoop *)

(* A flow that waited more than 3 s is dropped, and stays in the table. *)
UdTake ==
    /\ udLoop = UdFree /\ udChan # <<>>
    /\ udChan' = Tail(udChan)
    /\ \/ /\ udFlow' = [udFlow EXCEPT ![Head(udChan)].pc = "timedout"]
          /\ UNCHANGED udLoop
       \/ /\ udFlow' = [udFlow EXCEPT ![Head(udChan)].pc = "held"]
          /\ udLoop' = [udLoop EXCEPT !.flow = Head(udChan)]
    /\ UNCHANGED <<udTable, udReader, udTun, udIdle, udAccept, udUp>>

UdTakeTunnel ==
    /\ udLoop.flow # UdNone /\ udLoop.tun = UdNone /\ udIdle # <<>>
    /\ udIdle' = Tail(udIdle)
    /\ udTun' = [udTun EXCEPT ![Head(udIdle)].pc = "taken", ![Head(udIdle)].ping = FALSE]
    /\ udLoop' = [udLoop EXCEPT !.tun = Head(udIdle)]
    /\ UNCHANGED <<udTable, udFlow, udChan, udReader, udAccept, udUp>>

(* What follows the lock.  The address is written and the relay starts, or *)
(* the write fails and the tunnel is forgotten, still listed.              *)
UdWriteAddress ==
    LET f == udLoop.flow
        t == udLoop.tun
    IN  \/ /\ udTun' = [udTun EXCEPT ![t].pc = "relay", ![t].lock = "loop",
                          ![t].got = "address", ![t].flow = f]
           /\ udFlow' = [udFlow EXCEPT ![f].pc = "relay", ![f].up = TRUE, ![f].down = TRUE]
           /\ udLoop' = UdFree
        \/ /\ udTun' = [udTun EXCEPT ![t].pc = "broken", ![t].lock = "loop"]
           /\ udLoop' = [udLoop EXCEPT !.tun = UdNone]
           /\ UNCHANGED udFlow

(* Mutant: the address is written without the lock. *)
UdHandoffUnlocked ==
    /\ udLoop.tun # UdNone
    /\ UdWriteAddress
    /\ UNCHANGED <<udTable, udChan, udReader, udIdle, udAccept, udUp>>

(* tunnelConn.mu.Lock(), never unlocked. *)
UdHandoff ==
    /\ udLoop.tun # UdNone /\ udTun[udLoop.tun].lock = "free"
    /\ UdWriteAddress
    /\ UNCHANGED <<udTable, udChan, udReader, udIdle, udAccept, udUp>>

-----------------------------------------------------------------------------
(* udpCopy *)

(* udpLocalCopy forwards a datagram of the user, or ends: the write fails  *)
(* or the user was silent for 60 s, enough for the first datagram to come. *)
UdLocalCopy(f) ==
    /\ udFlow[f].up
    /\ \/ /\ udFlow[f].payload > 0
          /\ \E ok \in BOOLEAN :
               udFlow' = [udFlow EXCEPT ![f].payload = @ - 1, ![f].up = ok]
       \/ /\ udFlow[f].payload = 0 /\ udReader.flow # f
          /\ udFlow' = [udFlow EXCEPT ![f].up = FALSE]
    /\ UNCHANGED <<udTable, udChan, udReader, udTun, udIdle, udAccept, udLoop, udUp>>

(* udpTunnelCopy, for the datagrams of the tunnel. *)
UdTunnelCopy(t) ==
    LET f == udTun[t].flow
    IN  /\ f # UdNone /\ udFlow[f].down
        /\ \/ /\ udTun[t].payload > 0
              /\ udTun' = [udTun EXCEPT ![t].payload = @ - 1]
              /\ \E ok \in BOOLEAN : udFlow' = [udFlow EXCEPT ![f].down = ok]
           \/ /\ udTun[t].payload = 0
              /\ udFlow' = [udFlow EXCEPT ![f].down = FALSE]
              /\ UNCHANGED udTun
        /\ UNCHANGED <<udTable, udChan, udReader, udIdle, udAccept, udLoop, udUp>>

(* Mutant: the cleanup runs when the tunnel's direction has ended.         *)
UdFinishFlowEarly(f) ==
    /\ udFlow[f].pc = "relay" /\ ~udFlow[f].down
    /\ udFlow' = [udFlow EXCEPT ![f].pc = "ended", ![f].closed = TRUE, ![f].payload = 0]
    /\ \/ udTable' = [udTable EXCEPT ![udFlow[f].user] = UdNone] /\ UNCHANGED udUp
       \/ udReader.pc = "delete" /\ udUp' = FALSE /\ UNCHANGED udTable
    /\ UNCHANGED <<udChan, udReader, udTun, udIdle, udAccept, udLoop>>

(* Mutant: the channel is closed and the entry left. *)
UdFinishFlowKeeps(f) ==
    /\ udFlow[f].pc = "relay" /\ ~udFlow[f].up /\ ~udFlow[f].down
    /\ udFlow' = [udFlow EXCEPT ![f].pc = "ended", ![f].closed = TRUE, ![f].payload = 0]
    /\ UNCHANGED <<udTable, udChan, udReader, udTun, udIdle, udAccept, udLoop, udUp>>

(* Both directions have ended.  First the flow, under mu; a delete of the  *)
(* listener at the same time may end the process.                          *)
UdFinishFlow(f) ==
    /\ udFlow[f].pc = "relay" /\ ~udFlow[f].up /\ ~udFlow[f].down
    /\ udFlow' = [udFlow EXCEPT ![f].pc = "ended", ![f].closed = TRUE, ![f].payload = 0]
    /\ \/ udTable' = [udTable EXCEPT ![udFlow[f].user] = UdNone] /\ UNCHANGED udUp
       \/ udReader.pc = "delete" /\ udUp' = FALSE /\ UNCHANGED udTable
    /\ UNCHANGED <<udChan, udReader, udTun, udIdle, udAccept, udLoop>>

(* Then the tunnel, under activeMu. *)
UdFinishTunnel(t) ==
    /\ udTun[t].pc = "relay" /\ udFlow[udTun[t].flow].pc = "ended"
    /\ \/ /\ udTun' = [udTun EXCEPT ![t].pc = "ended", ![t].closed = TRUE, ![t].payload = 0,
                         ![t].listed = FALSE]
          /\ UNCHANGED udUp
       \/ udAccept.pc = "delete" /\ udUp' = FALSE /\ UNCHANGED udTun
    /\ UNCHANGED <<udTable, udFlow, udChan, udReader, udIdle, udAccept, udLoop>>

-----------------------------------------------------------------------------
UdListenerStep == \/ \E u \in UdUsers : UdReceive(u)
                  \/ UdInsert \/ UdQueue \/ UdFirst \/ UdDeleteFlow
UdAcceptStep == \/ \E t \in UdTunnels : UdTunnelData(t)
                \/ UdAcceptTunnel \/ UdQueueTunnel \/ UdStartKeeper \/ UdDeleteTunnel
UdTunnelStep(t) == \/ UdTick(t) \/ UdPing(t) \/ UdKeeperEnds(t)
                   \/ UdTunnelCopy(t) \/ UdFinishTunnel(t)
UdNext == /\ udUp /\ UNCHANGED udLoad
          /\ \/ UdListenerStep \/ UdAcceptStep
             \/ UdTake \/ UdTakeTunnel \/ UdHandoff
             \/ \E t \in UdTunnels : UdTunnelStep(t)
             \/ \E f \in UdFlows : UdLocalCopy(f) \/ UdFinishFlow(f)

UdSpec == UdInit /\ [][UdNext]_udVars

-----------------------------------------------------------------------------
UdTypeOK ==
    /\ udLoad \in UdLoads
    /\ udTable \in [UdUsers -> UdFlows \cup {UdNone}]
    /\ udFlow \in [UdFlows ->
         [user : UdUsers \cup {UdNone}, payload : 0..UdPayload, closed : BOOLEAN,
          pc : {"unused", "new", "queued", "refused", "timedout", "held", "relay", "ended"},
          up : BOOLEAN, down : BOOLEAN]]
    /\ udChan \in Seq(UdFlows) /\ Len(udChan) <= UdChannelSize
    /\ udReader \in [pc : {"read", "insert", "queue", "first", "delete"},
                     user : UdUsers \cup {UdNone}, flow : UdFlows \cup {UdNone}]
    /\ udTun \in [UdTunnels ->
         [pc : {"unused", "new", "idle", "refused", "taken", "broken", "relay", "ended"},
          listed : BOOLEAN, payload : 0..UdPayload, closed : BOOLEAN,
          lock : {"free", "ping", "loop"}, keeper : {"off", "wait", "write"},
          ping : BOOLEAN, got : {"none", "address", "late"}, flow : UdFlows \cup {UdNone}]]
    /\ udIdle \in Seq(UdTunnels) /\ Len(udIdle) <= UdChannelSize
    /\ udAccept \in [pc : {"read", "queue", "keep", "delete"}, tun : UdTunnels \cup {UdNone}]
    /\ udLoop \in [flow : UdFlows \cup {UdNone}, tun : UdTunnels \cup {UdNone}]
    /\ udUp \in BOOLEAN

(* A datagram is never sent on a closed channel, which would panic: what   *)
(* a table holds is open whenever the goroutine that fills it looks.       *)
UdEntriesOpen ==
    /\ udUp /\ udReader.pc = "read" =>
         \A u \in UdUsers : udTable[u] # UdNone => ~udFlow[udTable[u]].closed
    /\ udUp /\ udAccept.pc = "read" =>
         \A t \in UdTunnels : udTun[t].listed => ~udTun[t].closed

(* The flow a user's datagrams are put into has somebody to read them      *)
(* until both directions have ended, and a tunnel likewise.  The code      *)
(* makes two exceptions, and no others: a flow that timed out in the queue *)
(* stays in the table, and so does a tunnel the address could not be       *)
(* written to; their datagrams go nowhere until the server restarts.       *)
UdEntriesServed ==
    udUp =>
      /\ \A u \in UdUsers : udTable[u] # UdNone =>
           \/ udFlow[udTable[u]].pc \in {"new", "queued", "held", "relay", "timedout"}
           \/ udReader.pc = "delete" /\ udReader.flow = udTable[u]
      /\ \A f \in UdFlows : udFlow[f].up \/ udFlow[f].down => udTable[udFlow[f].user] = f
      /\ \A t \in UdTunnels : udTun[t].listed =>
           \/ udTun[t].pc \in {"new", "idle", "taken", "relay", "broken"}
           \/ udAccept.pc = "delete" /\ udAccept.tun = t

(* The client takes the first message of a tunnel that is not a ping for   *)
(* the address and everything after it for the user's data: no ping is     *)
(* written after the address, whatever the keeper was doing.               *)
UdAddressLast == \A t \in UdTunnels : udTun[t].got # "late"
=============================================================================
