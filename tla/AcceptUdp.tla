------------------------------ MODULE AcceptUdp ------------------------------
(***************************************************************************)
(* UDP carried over the tcp transport (accept_udp): the table of flows.    *)
(*                                                                         *)
(* udpListener has one reading goroutine, which finds the flow of a user's *)
(* address in activeConnections or makes one and queues it in udpChan;     *)
(* handleUDPLoop gives queued flows a tunnel; UDPConnectionHandler runs    *)
(* the two directions and, when both have ended, closes the flow's payload *)
(* channel and takes it out of the table.  A flow whose replies come late  *)
(* is marked congested: it keeps its tunnel, and the user's next datagram  *)
(* starts another flow in its place.                                       *)
(*                                                                         *)
(* Datagrams are counted, their contents left out.  Everything happens     *)
(* within one run of the server: the table belongs to it.  On the client,  *)
(* UDPDialer's two goroutines share a socket to the service.               *)
(***************************************************************************)
EXTENDS Integers, Sequences, FiniteSets

CONSTANTS
    AuUsers,       \* addresses datagrams come from
    AuMaxFlows,    \* bound: LocalAcceptUDPConn values made
    AuNone,        \* nil
    AuChannelSize, \* capacity of udpChan: config.ChannelSize
    AuPayload,     \* capacity of a payload channel (100000 in the code)
    AuTunnels,     \* bound: tunnels that arrive in tunnelChannel
    AuPeriod,      \* the timestamps wrap around at this value (600000 ms)
    AuLate,        \* 3 * rtt
    AuMaxDelay     \* bound: delay of a reply

ASSUME AcceptUdpAssumption ==
    /\ AuNone \notin Nat /\ AuMaxFlows \in Nat
    /\ {AuChannelSize, AuPayload} \subseteq Nat \ {0}
    /\ {AuTunnels, AuLate, AuMaxDelay} \subseteq Nat
    /\ AuPeriod \in Nat /\ AuPeriod > AuMaxDelay

AuFlows == 1..AuMaxFlows

VARIABLES
    auTable,    \* activeConnections: user -> flow or nil
    auFlow,     \* flow -> its state
    auChan,     \* udpChan
    auReader,   \* the reading goroutine: pc, the user it read from, its new flow
    auLoop,     \* the flow handleUDPLoop holds
    auIdle,     \* tunnels in tunnelChannel
    auArrived   \* tunnels that have arrived (bound)

auVars == <<auTable, auFlow, auChan, auReader, auLoop, auIdle, auArrived>>

(* up, down: the goroutines of UDPConnectionHandler; tcp: the server's end *)
(* of the tunnel is open; peer: the client's end is; late: a reply really  *)
(* was older than AuLate.                                                  *)
AuUnused == [user |-> AuNone, pc |-> "unused", payload |-> 0, closed |-> FALSE,
             congested |-> FALSE, up |-> FALSE, down |-> FALSE, tcp |-> FALSE,
             peer |-> FALSE, late |-> FALSE]
AuReading == [pc |-> "read", user |-> AuNone, flow |-> AuNone]

AuInit ==
    /\ auTable = [u \in AuUsers |-> AuNone]
    /\ auFlow = [f \in AuFlows |-> AuUnused]
    /\ auChan = <<>>
    /\ auReader = AuReading
    /\ auLoop = AuNone
    /\ auIdle = 0 /\ auArrived = 0

-----------------------------------------------------------------------------
(* udpListener *)

(* A datagram of a user with a flow that is not congested is buffered, or  *)
(* dropped when the payload channel is full, all under mu; any other user  *)
(* gets a new flow.                                                        *)
AuReceive(u) ==
    LET f == auTable[u]
        known == f # AuNone /\ ~auFlow[f].congested
    IN  /\ auReader.pc = "read"
        /\ \/ /\ known
              /\ auFlow' = [auFlow EXCEPT ![f].payload = IF @ < AuPayload THEN @ + 1 ELSE @]
              /\ UNCHANGED auReader
           \/ /\ ~known
              /\ auReader' = [AuReading EXCEPT !.pc = "insert", !.user = u]
              /\ UNCHANGED auFlow
        /\ UNCHANGED <<auTable, auChan, auLoop, auIdle, auArrived>>

(* Flows are numbered in the order they are made. *)
AuMade == Cardinality({f \in AuFlows : auFlow[f].pc # "unused"})

AuInsert ==
    LET f == AuMade + 1
    IN  /\ auReader.pc = "insert" /\ f <= AuMaxFlows
        /\ auFlow' = [auFlow EXCEPT ![f].pc = "new", ![f].user = auReader.user]
        /\ auTable' = [auTable EXCEPT ![auReader.user] = f]
        /\ auReader' = [auReader EXCEPT !.pc = "queue", !.flow = f]
        /\ UNCHANGED <<auChan, auLoop, auIdle, auArrived>>

(* A full udpChan drops the datagram.  The flow stays in the table. *)
AuQueue ==
    LET f == auReader.flow
    IN  /\ auReader.pc = "queue"
        /\ \/ /\ Len(auChan) < AuChannelSize
              /\ auChan' = Append(auChan, f)
              /\ auFlow' = [auFlow EXCEPT ![f].pc = "queued"]
              /\ auReader' = [auReader EXCEPT !.pc = "first"]
           \/ /\ Len(auChan) = AuChannelSize
              /\ auFlow' = [auFlow EXCEPT ![f].pc = "refused"]
              /\ auReader' = AuReading
              /\ UNCHANGED auChan
        /\ UNCHANGED <<auTable, auLoop, auIdle, auArrived>>

(* The first datagram is sent to the payload channel without the lock; the *)
(* request for a tunnel follows (AuTunnelArrives).                         *)
AuFirst ==
    /\ auReader.pc = "first"
    /\ auFlow[auReader.flow].payload < AuPayload
    /\ auFlow' = [auFlow EXCEPT ![auReader.flow].payload = @ + 1]
    /\ auReader' = AuReading
    /\ UNCHANGED <<auTable, auChan, auLoop, auIdle, auArrived>>

-----------------------------------------------------------------------------
(* handleUDPLoop *)

(* A tunnel is queued in s.tunnelChannel, which the handleLoops of the tcp *)
(* side share; a request of theirs or the pool's may have brought it.      *)
AuTunnelArrives ==
    /\ auArrived < AuTunnels
    /\ auArrived' = auArrived + 1
    /\ auIdle' = auIdle + 1
    /\ UNCHANGED <<auTable, auFlow, auChan, auReader, auLoop>>

AuTake ==
    /\ auLoop = AuNone /\ auChan # <<>>
    /\ auLoop' = Head(auChan)
    /\ auChan' = Tail(auChan)
    /\ auFlow' = [auFlow EXCEPT ![Head(auChan)].pc = "held"]
    /\ UNCHANGED <<auTable, auReader, auIdle, auArrived>>

(* Mutant: the flow is dropped when the address cannot be sent. *)
AuHandoffGivesUp ==
    /\ auLoop # AuNone /\ auIdle > 0
    /\ auIdle' = auIdle - 1
    /\ auLoop' = AuNone
    /\ \/ auFlow' = [auFlow EXCEPT ![auLoop].pc = "relay", ![auLoop].up = TRUE,
                       ![auLoop].down = TRUE, ![auLoop].tcp = TRUE, ![auLoop].peer = TRUE]
       \/ auFlow' = [auFlow EXCEPT ![auLoop].pc = "lost"]
    /\ UNCHANGED <<auTable, auChan, auReader, auArrived>>

(* SG_UDP and the address are sent and UDPConnectionHandler starts, or the *)
(* tunnel is closed and the loop waits for the next one, however long.     *)
AuHandoff ==
    /\ auLoop # AuNone /\ auIdle > 0
    /\ auIdle' = auIdle - 1
    /\ \/ /\ auFlow' = [auFlow EXCEPT ![auLoop].pc = "relay", ![auLoop].up = TRUE,
                          ![auLoop].down = TRUE, ![auLoop].tcp = TRUE, ![auLoop].peer = TRUE]
          /\ auLoop' = AuNone
       \/ UNCHANGED <<auFlow, auLoop>>
    /\ UNCHANGED <<auTable, auChan, auReader, auArrived>>

-----------------------------------------------------------------------------
(* UDPConnectionHandler *)

(* udpToTCP: a buffered datagram goes to the tunnel.  A write fails once   *)
(* this end is closed, and may fail when the other end is.                 *)
AuForward(f) ==
    /\ auFlow[f].up /\ auFlow[f].payload > 0
    /\ \/ /\ auFlow[f].tcp
          /\ auFlow' = [auFlow EXCEPT ![f].payload = @ - 1]
       \/ /\ ~(auFlow[f].tcp /\ auFlow[f].peer)
          /\ auFlow' = [auFlow EXCEPT ![f].payload = @ - 1, ![f].up = FALSE, ![f].tcp = FALSE]
    /\ UNCHANGED <<auTable, auChan, auReader, auLoop, auIdle, auArrived>>

(* udpToTCP: sixty seconds without a datagram.  They are enough for the    *)
(* reading goroutine to get from udpChan to the payload channel.           *)
AuQuiet(f) ==
    /\ auFlow[f].up /\ auFlow[f].payload = 0
    /\ auReader.flow # f
    /\ auFlow' = [auFlow EXCEPT ![f].up = FALSE, ![f].tcp = FALSE]
    /\ UNCHANGED <<auTable, auChan, auReader, auLoop, auIdle, auArrived>>

(* Mutant: the sender's clock is subtracted the wrong way round. *)
AuPacketAgeReversed(stamp, now) == (stamp % AuPeriod) - (now % AuPeriod)
(* The age tcpToUDP computes: both times are reduced to the period. *)
AuPacketAge(stamp, now) == (now % AuPeriod) - (stamp % AuPeriod)

(* tcpToUDP: a reply stamped by the client arrives delay later; the two    *)
(* clocks agree.  It is forwarded to the user, or the write fails.         *)
AuReply(f) ==
    /\ auFlow[f].down /\ auFlow[f].tcp /\ auFlow[f].peer
    /\ \E stamp \in 0..(AuPeriod - 1), delay \in 0..AuMaxDelay, written \in BOOLEAN :
         auFlow' = [auFlow EXCEPT
                      ![f].congested = @ \/ AuPacketAge(stamp, stamp + delay) > AuLate,
                      ![f].late = @ \/ delay > AuLate,
                      ![f].down = written, ![f].tcp = written]
    /\ UNCHANGED <<auTable, auChan, auReader, auLoop, auIdle, auArrived>>

(* tcpToUDP: the read fails, this end or the other being closed. *)
AuDownEnds(f) ==
    /\ auFlow[f].down
    /\ ~(auFlow[f].tcp /\ auFlow[f].peer)
    /\ auFlow' = [auFlow EXCEPT ![f].down = FALSE, ![f].tcp = FALSE]
    /\ UNCHANGED <<auTable, auChan, auReader, auLoop, auIdle, auArrived>>

(* Mutant: the entry is deleted whether or not the flow is congested. *)
AuFinishDeletes(f) ==
    /\ auFlow[f].pc = "relay" /\ ~auFlow[f].up /\ ~auFlow[f].down
    /\ auFlow' = [auFlow EXCEPT ![f].pc = "ended", ![f].closed = TRUE, ![f].payload = 0]
    /\ auTable' = [auTable EXCEPT ![auFlow[f].user] = AuNone]
    /\ UNCHANGED <<auChan, auReader, auLoop, auIdle, auArrived>>

(* Both directions have ended: under mu, the payload channel is closed,    *)
(* and the address is deleted from the table unless the flow is congested. *)
AuFinish(f) ==
    /\ auFlow[f].pc = "relay" /\ ~auFlow[f].up /\ ~auFlow[f].down
    /\ auFlow' = [auFlow EXCEPT ![f].pc = "ended", ![f].closed = TRUE, ![f].payload = 0]
    /\ auTable' = [auTable EXCEPT ![auFlow[f].user] = IF auFlow[f].congested THEN @ ELSE AuNone]
    /\ UNCHANGED <<auChan, auReader, auLoop, auIdle, auArrived>>

-----------------------------------------------------------------------------
(* The client's UDPDialer.  An error of the service's socket ends the      *)
(* goroutine that meets it and leaves the tunnel open, which nobody reads  *)
(* then; it is closed when the collector finds it or the client ends.      *)
AuPeerCloses(f) ==
    /\ auFlow[f].peer
    /\ auFlow' = [auFlow EXCEPT ![f].peer = FALSE]
    /\ UNCHANGED <<auTable, auChan, auReader, auLoop, auIdle, auArrived>>

-----------------------------------------------------------------------------
AuListenerStep == \/ \E u \in AuUsers : AuReceive(u)
                  \/ AuInsert \/ AuQueue \/ AuFirst
AuFlowStep(f) == \/ AuForward(f) \/ AuQuiet(f) \/ AuReply(f) \/ AuDownEnds(f)
                 \/ AuFinish(f) \/ AuPeerCloses(f)
AuNext == \/ AuListenerStep \/ AuTunnelArrives \/ AuTake \/ AuHandoff
          \/ \E f \in AuFlows : AuFlowStep(f)

AuSpec == AuInit /\ [][AuNext]_auVars

-----------------------------------------------------------------------------
AuPcs == {"unused", "new", "queued", "held", "relay", "ended", "refused", "lost"}

AuTypeOK ==
    /\ auTable \in [AuUsers -> AuFlows \cup {AuNone}]
    /\ auFlow \in [AuFlows -> [user : AuUsers \cup {AuNone}, pc : AuPcs,
                               payload : 0..AuPayload, closed : BOOLEAN,
                               congested : BOOLEAN, up : BOOLEAN, down : BOOLEAN,
                               tcp : BOOLEAN, peer : BOOLEAN,
                               late : BOOLEAN]]
    /\ auChan \in Seq(AuFlows) /\ Len(auChan) <= AuChannelSize
    /\ auReader \in [pc : {"read", "insert", "queue", "first"},
                     user : AuUsers \cup {AuNone}, flow : AuFlows \cup {AuNone}]
    /\ auLoop \in AuFlows \cup {AuNone}
    /\ auIdle \in 0..AuTunnels /\ auArrived \in 0..AuTunnels

(* The flow a user's next datagram is put into is one somebody serves: it  *)
(* is being queued, queued, held by handleUDPLoop or relayed, and its      *)
(* payload channel is open, so the push cannot panic.  The one exception   *)
(* the code makes is a flow refused by a full udpChan: its entry is never  *)
(* deleted, and the user's datagrams go nowhere until the server restarts. *)
AuTableServed ==
    \A u \in AuUsers : auTable[u] # AuNone /\ ~auFlow[auTable[u]].congested =>
        /\ auFlow[auTable[u]].pc \in {"new", "queued", "held", "relay", "refused"}
        /\ ~auFlow[auTable[u]].closed

(* A user has one flow at a time that is not congested: the end of an      *)
(* older, congested one does not unlink its successor, which would leave   *)
(* the user with two tunnels and two sockets at the service.               *)
AuOneFlow ==
    \A f \in AuFlows :
        auFlow[f].pc \in {"queued", "held", "relay"} /\ ~auFlow[f].congested
            => auTable[auFlow[f].user] = f

(* "If the packet age exceeds the threshold (3x RTT), flag the connection  *)
(* as congested": with clocks that agree, a flow is never replaced unless  *)
(* one of its replies was late, also when a timestamp wraps around.        *)
AuNoFalseCongestion == \A f \in AuFlows : auFlow[f].congested => auFlow[f].late
=============================================================================
