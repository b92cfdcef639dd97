--------------------------- MODULE ServiceProofs ---------------------------
(***************************************************************************)
(* Proofs about AcceptUdp (udp over the tcp transport), UdpFlows (the udp  *)
(* transport), the usage monitor and the port mappings, and about the      *)
(* composition of the six services: each behaviour of SvSpec is one of     *)
(* every part, so the theorems about the parts hold of it.                 *)
(*                                                                         *)
(* AcceptUdp and UdpFlows both keep a table from an address to a flow that *)
(* several goroutines write.  The inductive invariant says who owns a flow *)
(* in each state: the reading goroutine (new), the channel (queued, once), *)
(* the loop (held) or its relay; and that a table entry and a live flow    *)
(* name each other.                                                        *)
(***************************************************************************)
EXTENDS MCServices, TunnelProofs

-----------------------------------------------------------------------------
(* Channels, as both models use them *)

(* No element of a channel appears twice. *)
OnceIn(q) == \A i, j \in 1..Len(q) : q[i] = q[j] => i = j

(* A send: what was there, and the new element. *)
LEMMA Sent ==
    ASSUME NEW S, NEW q \in Seq(S), NEW x \in S
    PROVE  /\ Append(q, x) \in Seq(S) /\ Len(Append(q, x)) = Len(q) + 1
           /\ \A i \in 1..Len(Append(q, x)) :
                IF i = Len(q) + 1 THEN Append(q, x)[i] = x
                ELSE i \in 1..Len(q) /\ Append(q, x)[i] = q[i]
    OBVIOUS

(* A receive: the head is gone, the others keep their order. *)
LEMMA Received ==
    ASSUME NEW S, NEW q \in Seq(S), q # <<>>
    PROVE  /\ Head(q) \in S /\ Head(q) = q[1] /\ 1 \in 1..Len(q)
           /\ Tail(q) \in Seq(S) /\ Len(Tail(q)) = Len(q) - 1 /\ Len(q) \in Nat
           /\ \A i \in 1..Len(Tail(q)) :
                i + 1 \in 1..Len(q) /\ i + 1 # 1 /\ Tail(q)[i] = q[i + 1]
    OBVIOUS

(* Values are numbered as they are made: the next number is one more than  *)
(* how many there are.                                                     *)
LEMMA NextNumber ==
    ASSUME NEW N \in Nat, NEW U \in SUBSET (1..N), NEW n \in 0..N,
           \A x \in 1..N : x \in U <=> x <= n
    PROVE  Cardinality(U) = n
<1>1. U = 1..n
    <2>1. \A x \in U : x \in 1..N
        OBVIOUS
    <2>2. \A x \in 1..N : x <= n <=> x \in 1..n
        OBVIOUS
    <2>3. \A x \in 1..n : x \in 1..N
        OBVIOUS
    <2> QED
        BY <2>1, <2>2, <2>3
<1>2. Cardinality(1..n) = n
    BY FS_Interval
<1> QED
    BY <1>1, <1>2

-----------------------------------------------------------------------------
(* AcceptUdp *)

AuFlowState ==
    [user : AuUsers \cup {AuNone}, pc : AuPcs \ {"lost"}, payload : 0..AuPayload,
     closed : BOOLEAN, congested : BOOLEAN, up : BOOLEAN, down : BOOLEAN, tcp : BOOLEAN,
     peer : BOOLEAN, late : BOOLEAN]
AuReaderState ==
    [pc : {"read", "insert", "queue", "first"}, user : AuUsers \cup {AuNone},
     flow : AuFlows \cup {AuNone}]

AuRest ==
    /\ auTable \in [AuUsers -> AuFlows \cup {AuNone}]
    /\ auChan \in Seq(AuFlows) /\ Len(auChan) <= AuChannelSize
    /\ auReader \in AuReaderState
    /\ auLoop \in AuFlows \cup {AuNone}
    /\ auIdle \in 0..auArrived /\ auArrived \in 0..AuTunnels

(* A flow has its user, its directions run while it is relayed, its        *)
(* payload channel is closed at its end, and it is congested only after a  *)
(* late reply.                                                             *)
AuSound(x) ==
    /\ x.pc # "unused" => x.user \in AuUsers
    /\ x.closed => x.pc = "ended"
    /\ x.up \/ x.down => x.pc = "relay"
    /\ x.congested => x.late /\ x.pc \in {"relay", "ended"}
AuFlowsSound ==
    /\ auFlow \in [AuFlows -> AuFlowState]
    /\ \A f \in AuFlows : AuSound(auFlow[f])

(* The flows made so far have the first numbers. *)
AuNumbered == \E n \in 0..AuMaxFlows : \A f \in AuFlows : auFlow[f].pc # "unused" <=> f <= n

(* What the reading goroutine knows between its steps, though it has       *)
(* released mu: the user it makes a flow for still has none to use, and    *)
(* the flow it made is still the user's.                                   *)
AuReaderKnows ==
    /\ auReader.pc = "insert" =>
         /\ auReader.user \in AuUsers
         /\ auTable[auReader.user] # AuNone => auFlow[auTable[auReader.user]].congested
    /\ auReader.pc = "queue" =>
         auReader.flow \in AuFlows /\ auFlow[auReader.flow].pc = "new"
    /\ auReader.pc = "first" => auReader.flow \in AuFlows

(* A flow in use is its user's entry of the table, unless congested. *)
AuLinked ==
    \A f \in AuFlows :
        auFlow[f].pc \in {"new", "queued", "held", "relay"} /\ ~auFlow[f].congested
            => auTable[auFlow[f].user] = f

(* An entry is a flow of that user, and one that has ended is congested. *)
AuTabled ==
    \A u \in AuUsers : auTable[u] # AuNone =>
        /\ auFlow[auTable[u]].user = u /\ auFlow[auTable[u]].pc # "unused"
        /\ auFlow[auTable[u]].pc = "ended" => auFlow[auTable[u]].congested

(* A flow is in udpChan once, or with handleUDPLoop. *)
AuWaiting ==
    /\ OnceIn(auChan)
    /\ \A i \in 1..Len(auChan) : auFlow[auChan[i]].pc = "queued"
    /\ auLoop # AuNone => auFlow[auLoop].pc = "held"

AuInv == /\ AuRest /\ AuFlowsSound /\ AuNumbered /\ AuReaderKnows
         /\ AuLinked /\ AuTabled /\ AuWaiting

-----------------------------------------------------------------------------
(* The steps of AcceptUdp *)

(* A flow that the loop or its own relay works on without moving it:       *)
(* nothing about the table changes.                                        *)
LEMMA AuDataStep ==
    ASSUME AuInv, NEW f \in AuFlows, NEW x, x = auFlow[f], NEW y \in AuFlowState,
           auFlow' = [auFlow EXCEPT ![f] = y],
           AuSound(y), y.pc = x.pc, y.user = x.user, x.congested => y.congested,
           UNCHANGED <<auTable, auChan, auLoop, auIdle, auArrived>>,
           auReader' = auReader \/ auReader' = AuReading
    PROVE  AuInv'
<1>0. AuRest /\ AuFlowsSound /\ AuNumbered /\ AuReaderKnows /\ AuLinked /\ AuTabled /\ AuWaiting
    BY DEF AuInv
<1>1. /\ auFlow \in [AuFlows -> AuFlowState] /\ auFlow'[f] = y
      /\ \A g \in AuFlows : g # f => auFlow'[g] = auFlow[g]
    BY <1>0 DEF AuFlowsSound
<1>2. \A g \in AuFlows : /\ auFlow'[g].pc = auFlow[g].pc /\ auFlow'[g].user = auFlow[g].user
                         /\ auFlow[g].congested => auFlow'[g].congested
    BY <1>1
<1>3. AuFlowsSound'
    BY <1>0, <1>1 DEF AuFlowsSound
<1>4. AuRest'
    BY <1>0 DEF AuRest, AuReading, AuReaderState
<1>5. AuNumbered'
    BY <1>0, <1>2 DEF AuNumbered
<1>6. AuReaderKnows'
    <2>1. CASE auReader' = AuReading
        BY <2>1 DEF AuReaderKnows, AuReading
    <2>2. CASE auReader' = auReader
        BY <1>0, <1>2, <2>2 DEF AuReaderKnows, AuRest
    <2> QED
        BY <2>1, <2>2
<1>7. AuLinked'
    BY <1>0, <1>2 DEF AuLinked
<1>8. AuTabled'
    BY <1>0, <1>2 DEF AuTabled, AuRest
<1>9. AuWaiting'
    <2>1. \A i \in 1..Len(auChan) : auChan[i] \in AuFlows
        BY <1>0 DEF AuRest
    <2> QED
        BY <1>0, <1>2, <2>1 DEF AuWaiting, AuRest
<1> QED
    BY <1>3, <1>4, <1>5, <1>6, <1>7, <1>8, <1>9 DEF AuInv

(* The age of a reply is its delay, or negative when the timestamp has     *)
(* wrapped around on the way.                                              *)
LEMMA AuAge ==
    ASSUME NEW stamp \in 0..(AuPeriod - 1), NEW delay \in 0..AuMaxDelay,
           AuPacketAge(stamp, stamp + delay) > AuLate
    PROVE  delay > AuLate
<1>0. AuPeriod \in Nat /\ AuMaxDelay \in Nat /\ AuLate \in Nat /\ AuPeriod > AuMaxDelay
    BY AcceptUdpAssumption
<1>1. stamp % AuPeriod = stamp
    BY <1>0
<1>2. CASE stamp + delay < AuPeriod
    <2>1. (stamp + delay) % AuPeriod = stamp + delay
        BY <1>0, <1>2
    <2> QED
        BY <1>0, <1>1, <2>1 DEF AuPacketAge
<1>3. CASE stamp + delay >= AuPeriod
    <2>1. (stamp + delay) % AuPeriod = stamp + delay - AuPeriod
        BY <1>0, <1>3
    <2> QED
        BY <1>0, <1>1, <2>1 DEF AuPacketAge
<1> QED
    BY <1>0, <1>2, <1>3

(* The relay of a flow, its two goroutines and the client's end: AuDataStep *)
(* for each of them.                                                       *)
LEMMA AuRelaySteps ==
    ASSUME AuInv, NEW f \in AuFlows,
           AuForward(f) \/ AuQuiet(f) \/ AuReply(f) \/ AuDownEnds(f) \/ AuPeerCloses(f)
    PROVE  AuInv'
<1>x. PICK x : x = auFlow[f]
    OBVIOUS
<1>1. x \in AuFlowState /\ AuSound(x) /\ auFlow \in [AuFlows -> AuFlowState]
    BY <1>x DEF AuInv, AuFlowsSound
<1>2. UNCHANGED <<auTable, auChan, auLoop, auIdle, auArrived>> /\ auReader' = auReader
    BY DEF AuForward, AuQuiet, AuReply, AuDownEnds, AuPeerCloses
<1>3. ASSUME NEW y \in AuFlowState, auFlow' = [auFlow EXCEPT ![f] = y], AuSound(y),
             y.pc = x.pc, y.user = x.user, x.congested => y.congested
      PROVE  AuInv'
    BY <1>2, <1>3, <1>x, AuDataStep
<1>n. AuPayload \in Nat /\ x.payload \in 0..AuPayload
    BY <1>1, AcceptUdpAssumption DEF AuFlowState
<1>4. CASE AuForward(f)
    <2>1. PICK u \in BOOLEAN, c \in BOOLEAN :
            /\ x.up /\ x.payload > 0
            /\ auFlow' = [auFlow EXCEPT ![f] = [x EXCEPT !.payload = x.payload - 1, !.up = u,
                                                         !.tcp = c]]
        <3>1. CASE auFlow' = [auFlow EXCEPT ![f] = [x EXCEPT !.payload = x.payload - 1]]
            <4>1. [x EXCEPT !.payload = x.payload - 1]
                    = [x EXCEPT !.payload = x.payload - 1, !.up = x.up, !.tcp = x.tcp]
                BY <1>1 DEF AuFlowState
            <4>2. x.up \in BOOLEAN /\ x.tcp \in BOOLEAN
                BY <1>1 DEF AuFlowState
            <4> QED
                BY <1>4, <1>x, <3>1, <4>1, <4>2 DEF AuForward
        <3>2. CASE auFlow' = [auFlow EXCEPT ![f] = [x EXCEPT !.payload = x.payload - 1,
                                                             !.up = FALSE, !.tcp = FALSE]]
            BY <1>4, <1>x, <3>2 DEF AuForward
        <3> QED
            BY <1>1, <1>4, <1>x, <3>1, <3>2 DEF AuForward
    <2> DEFINE y == [x EXCEPT !.payload = x.payload - 1, !.up = u, !.tcp = c]
    <2>2. x.payload - 1 \in 0..AuPayload
        BY <1>n, <2>1
    <2>3. y \in AuFlowState /\ y.pc = x.pc /\ y.user = x.user /\ y.congested = x.congested
        BY <1>1, <2>2 DEF AuFlowState
    <2>4. AuSound(y)
        BY <1>1, <2>1, <2>2 DEF AuSound, AuFlowState
    <2> QED
        BY <1>3, <2>1, <2>3, <2>4
<1>5. CASE AuQuiet(f)
    <2> DEFINE y == [x EXCEPT !.up = FALSE, !.tcp = FALSE]
    <2>1. auFlow' = [auFlow EXCEPT ![f] = y]
        BY <1>1, <1>5, <1>x DEF AuQuiet
    <2>2. y \in AuFlowState /\ AuSound(y) /\ y.pc = x.pc /\ y.user = x.user
          /\ y.congested = x.congested
        BY <1>1 DEF AuFlowState, AuSound
    <2> QED
        BY <1>3, <2>1, <2>2
<1>6. CASE AuReply(f)
    <2>1. PICK stamp \in 0..(AuPeriod - 1), delay \in 0..AuMaxDelay, w \in BOOLEAN :
            auFlow' = [auFlow EXCEPT
                         ![f].congested = @ \/ AuPacketAge(stamp, stamp + delay) > AuLate,
                         ![f].late = @ \/ delay > AuLate,
                         ![f].down = w, ![f].tcp = w]
        BY <1>6 DEF AuReply
    <2> DEFINE c == x.congested \/ AuPacketAge(stamp, stamp + delay) > AuLate
               l == x.late \/ delay > AuLate
               y == [x EXCEPT !.congested = c, !.late = l, !.down = w, !.tcp = w]
    <2>2. auFlow' = [auFlow EXCEPT ![f] = y]
        BY <1>1, <1>x, <2>1
    <2>3. (c => l \/ x.congested) /\ (x.congested => c) /\ (x.late => l)
        BY AuAge
    <2>4. c \in BOOLEAN /\ l \in BOOLEAN
        OBVIOUS
    <2>5. x.down /\ x.pc = "relay"
        BY <1>1, <1>6, <1>x DEF AuReply, AuSound
    <2> HIDE DEF c, l
    <2>6. y \in AuFlowState /\ y.pc = x.pc /\ y.user = x.user /\ y.congested = c /\ y.late = l
          /\ y.closed = x.closed
        BY <1>1, <2>4, ZenonT(60) DEF AuFlowState
    <2>7. AuSound(y)
        BY <1>1, <2>3, <2>5, <2>6 DEF AuSound
    <2> QED
        BY <1>3, <2>2, <2>3, <2>6, <2>7
<1>7. CASE AuDownEnds(f)
    <2> DEFINE y == [x EXCEPT !.down = FALSE, !.tcp = FALSE]
    <2>1. auFlow' = [auFlow EXCEPT ![f] = y]
        BY <1>1, <1>7, <1>x DEF AuDownEnds
    <2>2. y \in AuFlowState /\ AuSound(y) /\ y.pc = x.pc /\ y.user = x.user
          /\ y.congested = x.congested
        BY <1>1 DEF AuFlowState, AuSound
    <2> QED
        BY <1>3, <2>1, <2>2
<1>8. CASE AuPeerCloses(f)
    <2> DEFINE y == [x EXCEPT !.peer = FALSE]
    <2>1. auFlow' = [auFlow EXCEPT ![f] = y]
        BY <1>1, <1>8, <1>x DEF AuPeerCloses
    <2>2. y \in AuFlowState /\ AuSound(y) /\ y.pc = x.pc /\ y.user = x.user
          /\ y.congested = x.congested
        BY <1>1 DEF AuFlowState, AuSound
    <2> QED
        BY <1>3, <2>1, <2>2
<1> QED
    BY <1>4, <1>5, <1>6, <1>7, <1>8

(* udpListener: a datagram of a known user, of a user that gets a flow,    *)
(* and the first datagram of a flow.                                       *)
LEMMA AuReceiveSteps ==
    ASSUME AuInv, AuFirst \/ \E u \in AuUsers : AuReceive(u)
    PROVE  AuInv'
<1>0. AuRest /\ AuFlowsSound /\ AuNumbered /\ AuReaderKnows /\ AuLinked /\ AuTabled /\ AuWaiting
    BY DEF AuInv
<1>1. UNCHANGED <<auTable, auChan, auLoop, auIdle, auArrived>>
    BY DEF AuFirst, AuReceive
<1>n. AuPayload \in Nat /\ auFlow \in [AuFlows -> AuFlowState]
    BY <1>0, AcceptUdpAssumption DEF AuFlowsSound
<1>2. ASSUME NEW f \in AuFlows, NEW n \in 0..AuPayload,
             auFlow' = [auFlow EXCEPT ![f].payload = n],
             auReader' = auReader \/ auReader' = AuReading
      PROVE  AuInv'
    <2>x. PICK x : x = auFlow[f]
        OBVIOUS
    <2> DEFINE y == [x EXCEPT !.payload = n]
    <2>1. auFlow' = [auFlow EXCEPT ![f] = y] /\ x \in AuFlowState /\ AuSound(x)
        BY <1>0, <1>2, <1>n, <2>x DEF AuFlowsSound
    <2>2. y \in AuFlowState /\ AuSound(y) /\ y.pc = x.pc /\ y.user = x.user
          /\ y.congested = x.congested
        BY <2>1 DEF AuFlowState, AuSound
    <2> QED
        BY <1>1, <1>2, <2>1, <2>2, <2>x, AuDataStep
<1>3. CASE AuFirst
    <2>1. auReader.flow \in AuFlows
        BY <1>0, <1>3 DEF AuFirst, AuReaderKnows
    <2>2. auFlow[auReader.flow].payload + 1 \in 0..AuPayload
        BY <1>3, <1>n, <2>1 DEF AuFirst, AuFlowState
    <2>3. auFlow' = [auFlow EXCEPT ![auReader.flow].payload = auFlow[auReader.flow].payload + 1]
          /\ auReader' = AuReading
        BY <1>3, <1>n, <2>1 DEF AuFirst
    <2> QED
        BY <1>2, <2>1, <2>2, <2>3
<1>4. ASSUME NEW u \in AuUsers, AuReceive(u)
      PROVE  AuInv'
    <2>f. PICK f : f = auTable[u]
        OBVIOUS
    <2>1. CASE f # AuNone /\ ~auFlow[f].congested
        <3>1. f \in AuFlows
            BY <1>0, <2>1, <2>f DEF AuRest
        <3>2. PICK n \in 0..AuPayload : auFlow' = [auFlow EXCEPT ![f].payload = n]
            <4>1. auFlow[f].payload \in 0..AuPayload
                BY <1>n, <3>1 DEF AuFlowState
            <4> DEFINE m == IF auFlow[f].payload < AuPayload THEN auFlow[f].payload + 1
                            ELSE auFlow[f].payload
            <4>2. m \in 0..AuPayload
                BY <1>n, <4>1
            <4>3. auFlow' = [auFlow EXCEPT ![f].payload = m]
                BY <1>4, <1>n, <2>1, <2>f, <3>1 DEF AuReceive
            <4> QED
                BY <4>2, <4>3
        <3>3. auReader' = auReader
            BY <1>4, <2>1, <2>f DEF AuReceive
        <3> QED
            BY <1>2, <3>1, <3>2, <3>3
    <2>2. CASE f = AuNone \/ auFlow[f].congested
        <3>1. /\ auReader' = [pc |-> "insert", user |-> u, flow |-> AuNone] /\ auFlow' = auFlow
            BY <1>4, <2>2, <2>f DEF AuReceive, AuReading
        <3>2. AuReaderKnows'
            BY <1>1, <2>2, <2>f, <3>1 DEF AuReaderKnows
        <3>3. AuRest'
            BY <1>0, <1>1, <3>1 DEF AuRest, AuReaderState
        <3>4. AuFlowsSound' /\ AuNumbered' /\ AuLinked' /\ AuTabled' /\ AuWaiting'
            BY <1>0, <1>1, <3>1 DEF AuFlowsSound, AuNumbered, AuLinked, AuTabled, AuWaiting
        <3> QED
            BY <3>2, <3>3, <3>4 DEF AuInv
    <2> QED
        BY <2>1, <2>2
<1> QED
    BY <1>3, <1>4

(* One flow moves. *)
LEMMA AuOneMoves ==
    ASSUME AuFlowsSound, NEW f \in AuFlows, NEW y \in AuFlowState, AuSound(y),
           auFlow' = [auFlow EXCEPT ![f] = y]
    PROVE  /\ AuFlowsSound' /\ auFlow'[f] = y
           /\ \A g \in AuFlows : g # f => auFlow'[g] = auFlow[g]
<1>1. auFlow'[f] = y /\ \A g \in AuFlows : g # f => auFlow'[g] = auFlow[g]
    BY DEF AuFlowsSound
<1> QED
    BY <1>1 DEF AuFlowsSound

(* A flow that was made stays made. *)
LEMMA AuNumberedSame ==
    ASSUME AuNumbered, \A g \in AuFlows : auFlow'[g].pc # "unused" <=> auFlow[g].pc # "unused"
    PROVE  AuNumbered'
BY DEF AuNumbered

(* The new flow enters the table in the place of nothing, or of a flow     *)
(* that is congested.                                                      *)
LEMMA AuInsertInv ==
    ASSUME AuInv, AuInsert
    PROVE  AuInv'
<1>0. AuRest /\ AuFlowsSound /\ AuNumbered /\ AuReaderKnows /\ AuLinked /\ AuTabled /\ AuWaiting
    BY DEF AuInv
<1>f. PICK f : f = AuMade + 1
    OBVIOUS
<1>1. PICK n \in 0..AuMaxFlows : \A g \in AuFlows : auFlow[g].pc # "unused" <=> g <= n
    BY <1>0 DEF AuNumbered
<1>2. AuMade = n /\ AuMaxFlows \in Nat
    <2> DEFINE U == {g \in AuFlows : auFlow[g].pc # "unused"}
    <2>1. AuMaxFlows \in Nat /\ U \in SUBSET (1..AuMaxFlows)
        BY AcceptUdpAssumption DEF AuFlows
    <2>2. \A g \in 1..AuMaxFlows : g \in U <=> g <= n
        BY <1>1 DEF AuFlows
    <2> HIDE DEF U
    <2>3. Cardinality(U) = n
        BY <2>1, <2>2, NextNumber
    <2> QED
        BY <2>1, <2>3 DEF AuMade, U
<1>3. /\ f \in AuFlows /\ auFlow[f].pc = "unused" /\ f # AuNone /\ f = n + 1
      /\ auReader.pc = "insert" /\ n + 1 \in 0..AuMaxFlows
    BY <1>1, <1>2, <1>f, AcceptUdpAssumption DEF AuInsert, AuFlows
<1>u. PICK u : u = auReader.user
    OBVIOUS
<1>4. u \in AuUsers /\ (auTable[u] # AuNone => auFlow[auTable[u]].congested)
    BY <1>0, <1>3, <1>u DEF AuReaderKnows
<1>x. PICK x : x = auFlow[f]
    OBVIOUS
<1> DEFINE y == [x EXCEPT !.pc = "new", !.user = u]
<1>5. /\ x \in AuFlowState /\ AuSound(x) /\ auFlow \in [AuFlows -> AuFlowState]
      /\ auTable \in [AuUsers -> AuFlows \cup {AuNone}] /\ auReader \in AuReaderState
    BY <1>0, <1>3, <1>x DEF AuFlowsSound, AuRest
<1>6. /\ auFlow' = [auFlow EXCEPT ![f] = y] /\ auTable' = [auTable EXCEPT ![u] = f]
      /\ auReader' = [auReader EXCEPT !.pc = "queue", !.flow = f]
      /\ UNCHANGED <<auChan, auLoop, auIdle, auArrived>>
    BY <1>3, <1>5, <1>f, <1>u, <1>x DEF AuInsert
<1>7. y \in AuFlowState /\ AuSound(y) /\ y.pc = "new" /\ y.user = u /\ ~y.congested
    BY <1>3, <1>4, <1>5, <1>x DEF AuFlowState, AuSound, AuPcs
<1>8. /\ AuFlowsSound' /\ auFlow'[f] = y
      /\ \A g \in AuFlows : g # f => auFlow'[g] = auFlow[g]
    BY <1>0, <1>3, <1>6, <1>7, AuOneMoves
<1>9. /\ auTable' \in [AuUsers -> AuFlows \cup {AuNone}] /\ auTable'[u] = f
      /\ \A v \in AuUsers : v # u => auTable'[v] = auTable[v]
      /\ auReader' \in AuReaderState /\ auReader'.pc = "queue" /\ auReader'.flow = f
    BY <1>3, <1>4, <1>5, <1>6 DEF AuReaderState
<1> HIDE DEF y
<1>10. AuRest'
    BY <1>0, <1>6, <1>9 DEF AuRest
<1>11. AuNumbered'
    <2>1. \A g \in AuFlows : auFlow'[g].pc # "unused" <=> g <= n + 1
        BY <1>1, <1>2, <1>3, <1>7, <1>8 DEF AuFlows
    <2> QED
        BY <1>3, <2>1 DEF AuNumbered
<1>12. AuReaderKnows'
    BY <1>3, <1>7, <1>8, <1>9 DEF AuReaderKnows
<1>13. AuLinked'
    <2> SUFFICES ASSUME NEW g \in AuFlows, ~auFlow'[g].congested,
                        auFlow'[g].pc \in {"new", "queued", "held", "relay"}
                 PROVE  auTable'[auFlow'[g].user] = g
        BY DEF AuLinked
    <2>1. CASE g = f
        BY <1>7, <1>8, <1>9, <2>1
    <2>2. CASE g # f
        <3>1. auTable[auFlow[g].user] = g /\ auFlow'[g] = auFlow[g] /\ auFlow[g].user \in AuUsers
            BY <1>0, <1>8, <2>2 DEF AuLinked, AuFlowsSound, AuSound
        <3>2. auFlow[g].user # u
            BY <1>4, <1>8, <2>2, <3>1, AcceptUdpAssumption DEF AuFlows
        <3> QED
            BY <1>9, <3>1, <3>2
    <2> QED
        BY <2>1, <2>2
<1>14. AuTabled'
    <2> SUFFICES ASSUME NEW v \in AuUsers, auTable'[v] # AuNone
                 PROVE  /\ auFlow'[auTable'[v]].user = v /\ auFlow'[auTable'[v]].pc # "unused"
                        /\ auFlow'[auTable'[v]].pc = "ended" => auFlow'[auTable'[v]].congested
        BY DEF AuTabled
    <2>1. CASE v = u
        BY <1>7, <1>8, <1>9, <2>1
    <2>2. CASE v # u
        <3>1. /\ auTable'[v] = auTable[v] /\ auTable[v] \in AuFlows
              /\ auFlow[auTable[v]].pc # "unused"
            BY <1>0, <1>5, <1>9, <2>2 DEF AuTabled
        <3>2. auFlow'[auTable[v]] = auFlow[auTable[v]]
            BY <1>3, <1>8, <3>1
        <3> QED
            BY <1>0, <3>1, <3>2 DEF AuTabled
    <2> QED
        BY <2>1, <2>2
<1>15. AuWaiting'
    <2>1. \A i \in 1..Len(auChan) : auChan[i] \in AuFlows
        BY <1>0 DEF AuRest
    <2>2. \A i \in 1..Len(auChan) : auFlow'[auChan[i]].pc = "queued"
        BY <1>0, <1>3, <1>8, <2>1 DEF AuWaiting
    <2>3. auLoop # AuNone => auFlow'[auLoop].pc = "held"
        BY <1>0, <1>3, <1>8 DEF AuWaiting, AuRest
    <2> QED
        BY <1>0, <1>6, <2>2, <2>3 DEF AuWaiting
<1> QED
    BY <1>8, <1>10, <1>11, <1>12, <1>13, <1>14, <1>15 DEF AuInv

(* A flow moves between its owners and its entry stays: from the reading   *)
(* goroutine to udpChan, to handleUDPLoop, to its relay.                   *)
LEMMA AuPassed ==
    ASSUME AuInv, NEW f \in AuFlows, NEW x, x = auFlow[f], NEW y \in AuFlowState, AuSound(y),
           auFlow' = [auFlow EXCEPT ![f] = y], auTable' = auTable,
           x.pc \in {"new", "queued", "held"},
           y.pc \in {"queued", "held", "relay", "refused"},
           y.user = x.user, ~x.congested, ~y.congested,
           auReader'.pc = "insert" => auReader' = auReader,
           auReader'.pc = "queue" => auReader' = auReader /\ x.pc # "new",
           auReader'.pc = "first" => auReader'.flow \in AuFlows
    PROVE  AuFlowsSound' /\ AuNumbered' /\ AuReaderKnows' /\ AuLinked' /\ AuTabled'
<1>0. AuRest /\ AuFlowsSound /\ AuNumbered /\ AuReaderKnows /\ AuLinked /\ AuTabled
    BY DEF AuInv
<1>1. /\ AuFlowsSound' /\ auFlow'[f] = y
      /\ \A g \in AuFlows : g # f => auFlow'[g] = auFlow[g]
    BY <1>0, AuOneMoves
<1>2. AuNumbered'
    BY <1>0, <1>1, AuNumberedSame
<1>3. AuReaderKnows'
    BY <1>0, <1>1 DEF AuReaderKnows
<1>4. AuLinked'
    BY <1>0, <1>1 DEF AuLinked
<1>5. AuTabled'
    BY <1>0, <1>1 DEF AuTabled, AuRest
<1> QED
    BY <1>1, <1>2, <1>3, <1>4, <1>5

(* udpChan and handleUDPLoop. *)
LEMMA AuPassSteps ==
    ASSUME AuInv, AuQueue \/ AuTake \/ AuHandoff \/ AuTunnelArrives
    PROVE  AuInv'
<1>0. AuRest /\ AuFlowsSound /\ AuNumbered /\ AuReaderKnows /\ AuLinked /\ AuTabled /\ AuWaiting
    BY DEF AuInv
<1>n. /\ AuNone \notin AuFlows /\ AuChannelSize \in Nat /\ AuTunnels \in Nat
      /\ auFlow \in [AuFlows -> AuFlowState] /\ auChan \in Seq(AuFlows) /\ Len(auChan) \in Nat
      /\ \A i \in 1..Len(auChan) : auChan[i] \in AuFlows
    BY <1>0, AcceptUdpAssumption, SMTT(30) DEF AuFlows, AuFlowsSound, AuRest
<1>c. \A f \in AuFlows : auFlow[f].pc \in {"new", "queued", "held"} =>
        /\ ~auFlow[f].congested /\ ~auFlow[f].closed /\ ~auFlow[f].up /\ ~auFlow[f].down
        /\ auFlow[f].user \in AuUsers
    BY <1>0 DEF AuFlowsSound, AuSound
<1>1. CASE AuQueue
    <2>f. PICK f : f = auReader.flow
        OBVIOUS
    <2>1. /\ auReader.pc = "queue" /\ f \in AuFlows /\ auFlow[f].pc = "new"
          /\ UNCHANGED <<auTable, auLoop, auIdle, auArrived>>
        BY <1>0, <1>1, <2>f DEF AuQueue, AuReaderKnows
    <2>x. PICK x : x = auFlow[f]
        OBVIOUS
    <2>2. x \in AuFlowState /\ x.pc = "new" /\ ~x.congested /\ ~x.closed /\ ~x.up /\ ~x.down
          /\ x.user \in AuUsers /\ auReader \in AuReaderState
        BY <1>0, <1>c, <1>n, <2>1, <2>x DEF AuRest
    <2>3. CASE Len(auChan) < AuChannelSize
        <3> DEFINE y == [x EXCEPT !.pc = "queued"]
        <3>1. /\ auChan' = Append(auChan, f) /\ auFlow' = [auFlow EXCEPT ![f] = y]
              /\ auReader' = [auReader EXCEPT !.pc = "first"]
            BY <1>1, <1>n, <2>1, <2>3, <2>f, <2>x DEF AuQueue
        <3>2. /\ y \in AuFlowState /\ AuSound(y) /\ y.pc = "queued" /\ ~y.congested
              /\ y.user = x.user
            BY <2>2 DEF AuFlowState, AuSound, AuPcs
        <3>3. auReader' \in AuReaderState /\ auReader'.pc = "first" /\ auReader'.flow = f
            BY <2>2, <2>f, <3>1 DEF AuReaderState
        <3>4. AuFlowsSound' /\ AuNumbered' /\ AuReaderKnows' /\ AuLinked' /\ AuTabled'
            BY <2>1, <2>2, <2>x, <3>1, <3>2, <3>3, AuPassed
        <3>5. auFlow'[f] = y /\ \A g \in AuFlows : g # f => auFlow'[g] = auFlow[g]
            BY <1>0, <2>1, <3>1, <3>2, AuOneMoves
        <3> HIDE DEF y
        <3>6. /\ auChan' \in Seq(AuFlows) /\ Len(auChan') = Len(auChan) + 1
              /\ \A i \in 1..Len(auChan') : IF i = Len(auChan) + 1 THEN auChan'[i] = f
                                            ELSE i \in 1..Len(auChan) /\ auChan'[i] = auChan[i]
            BY <1>n, <2>1, <3>1, Sent
        <3>7. AuRest'
            BY <1>0, <1>n, <2>1, <2>3, <3>3, <3>6 DEF AuRest
        <3>8. \A i \in 1..Len(auChan) : auChan[i] # f /\ auFlow'[auChan[i]].pc = "queued"
            BY <1>0, <1>n, <2>1, <3>5 DEF AuWaiting
        <3>9. OnceIn(auChan')
            BY <1>0, <3>6, <3>8 DEF AuWaiting, OnceIn
        <3>10. \A i \in 1..Len(auChan') : auFlow'[auChan'[i]].pc = "queued"
            BY <3>2, <3>5, <3>6, <3>8
        <3>11. auLoop' # AuNone => auFlow'[auLoop'].pc = "held"
            BY <1>0, <2>1, <3>5 DEF AuWaiting, AuRest
        <3>12. AuWaiting'
            BY <3>9, <3>10, <3>11 DEF AuWaiting, OnceIn
        <3> QED
            BY <3>4, <3>7, <3>12 DEF AuInv
    <2>4. CASE Len(auChan) = AuChannelSize
        <3> DEFINE y == [x EXCEPT !.pc = "refused"]
        <3>1. /\ auChan' = auChan /\ auFlow' = [auFlow EXCEPT ![f] = y] /\ auReader' = AuReading
            BY <1>1, <1>n, <2>1, <2>4, <2>f, <2>x DEF AuQueue
        <3>2. /\ y \in AuFlowState /\ AuSound(y) /\ y.pc = "refused" /\ ~y.congested
              /\ y.user = x.user
            BY <2>2 DEF AuFlowState, AuSound, AuPcs
        <3>3. auReader' \in AuReaderState /\ auReader'.pc = "read"
            BY <3>1 DEF AuReading, AuReaderState
        <3>4. AuFlowsSound' /\ AuNumbered' /\ AuReaderKnows' /\ AuLinked' /\ AuTabled'
            BY <2>1, <2>2, <2>x, <3>1, <3>2, <3>3, AuPassed
        <3>5. auFlow'[f] = y /\ \A g \in AuFlows : g # f => auFlow'[g] = auFlow[g]
            BY <1>0, <2>1, <3>1, <3>2, AuOneMoves
        <3>6. AuRest'
            BY <1>0, <2>1, <3>1, <3>3 DEF AuRest
        <3>7. AuWaiting'
            BY <1>0, <1>n, <2>1, <3>1, <3>5 DEF AuWaiting, AuRest
        <3> QED
            BY <3>4, <3>6, <3>7 DEF AuInv
    <2> QED
        BY <1>1, <2>3, <2>4 DEF AuQueue
<1>2. CASE AuTake
    <2>f. PICK f : f = Head(auChan)
        OBVIOUS
    <2>1. /\ auLoop = AuNone /\ auChan # <<>> /\ auLoop' = f /\ auChan' = Tail(auChan)
          /\ UNCHANGED <<auTable, auReader, auIdle, auArrived>>
        BY <1>2, <2>f DEF AuTake
    <2>2. /\ f \in AuFlows /\ f = auChan[1] /\ 1 \in 1..Len(auChan)
          /\ auChan' \in Seq(AuFlows) /\ Len(auChan') = Len(auChan) - 1
          /\ \A i \in 1..Len(auChan') :
                i + 1 \in 1..Len(auChan) /\ i + 1 # 1 /\ auChan'[i] = auChan[i + 1]
        BY <1>n, <2>1, <2>f, Received
    <2>x. PICK x : x = auFlow[f]
        OBVIOUS
    <2> DEFINE y == [x EXCEPT !.pc = "held"]
    <2>3. /\ x \in AuFlowState /\ x.pc = "queued" /\ ~x.congested /\ ~x.closed /\ ~x.up /\ ~x.down
          /\ x.user \in AuUsers
        BY <1>0, <1>c, <1>n, <2>2, <2>x DEF AuWaiting
    <2>4. auFlow' = [auFlow EXCEPT ![f] = y]
        BY <1>2, <1>n, <2>2, <2>f, <2>x DEF AuTake
    <2>5. /\ y \in AuFlowState /\ AuSound(y) /\ y.pc = "held" /\ ~y.congested
          /\ y.user = x.user
        BY <2>3 DEF AuFlowState, AuSound, AuPcs
    <2>6. AuFlowsSound' /\ AuNumbered' /\ AuReaderKnows' /\ AuLinked' /\ AuTabled'
        BY <1>0, <2>1, <2>2, <2>3, <2>4, <2>5, <2>x, AuPassed DEF AuReaderKnows
    <2>7. auFlow'[f] = y /\ \A g \in AuFlows : g # f => auFlow'[g] = auFlow[g]
        BY <1>0, <2>2, <2>4, <2>5, AuOneMoves
    <2> HIDE DEF y
    <2>8. AuRest'
        BY <1>0, <1>n, <2>1, <2>2 DEF AuRest
    <2>9. \A i \in 1..Len(auChan') : auChan'[i] # f /\ auChan'[i] \in AuFlows
                                     /\ auFlow'[auChan'[i]].pc = "queued"
        <3> SUFFICES ASSUME NEW i \in 1..Len(auChan')
                     PROVE  auChan'[i] # f /\ auChan'[i] \in AuFlows
                            /\ auFlow'[auChan'[i]].pc = "queued"
            OBVIOUS
        <3>1. i + 1 \in 1..Len(auChan) /\ i + 1 # 1 /\ auChan'[i] = auChan[i + 1]
            BY <2>2
        <3>2. auChan[i + 1] # auChan[1] /\ auChan[i + 1] \in AuFlows
              /\ auFlow[auChan[i + 1]].pc = "queued"
            BY <1>0, <1>n, <2>2, <3>1 DEF AuWaiting, OnceIn
        <3> QED
            BY <2>2, <2>7, <3>1, <3>2
    <2>10. OnceIn(auChan')
        <3> SUFFICES ASSUME NEW i \in 1..Len(auChan'), NEW j \in 1..Len(auChan'),
                            auChan'[i] = auChan'[j]
                     PROVE  i = j
            BY DEF OnceIn
        <3>1. /\ i + 1 \in 1..Len(auChan) /\ auChan'[i] = auChan[i + 1]
              /\ j + 1 \in 1..Len(auChan) /\ auChan'[j] = auChan[j + 1]
            BY <2>2
        <3>2. i + 1 = j + 1
            BY <1>0, <3>1 DEF AuWaiting, OnceIn
        <3> QED
            BY <3>2
    <2>11. AuWaiting'
        BY <2>1, <2>5, <2>7, <2>9, <2>10 DEF AuWaiting, OnceIn
    <2> QED
        BY <2>6, <2>8, <2>11 DEF AuInv
<1>3. CASE AuHandoff
    <2>f. PICK f : f = auLoop
        OBVIOUS
    <2>1. /\ f \in AuFlows /\ auFlow[f].pc = "held" /\ auIdle > 0 /\ auIdle' = auIdle - 1
          /\ UNCHANGED <<auTable, auChan, auReader, auArrived>>
        BY <1>0, <1>3, <2>f DEF AuHandoff, AuWaiting, AuRest
    <2>2. auIdle' \in 0..auArrived
        BY <1>0, <2>1 DEF AuRest
    <2>3. CASE UNCHANGED <<auFlow, auLoop>>
        <3>1. AuRest'
            BY <1>0, <2>1, <2>2, <2>3 DEF AuRest
        <3>2. AuFlowsSound' /\ AuNumbered' /\ AuReaderKnows' /\ AuLinked' /\ AuTabled' /\ AuWaiting'
            BY <1>0, <2>1, <2>3 DEF AuFlowsSound, AuNumbered, AuReaderKnows, AuLinked, AuTabled,
                                    AuWaiting
        <3> QED
            BY <3>1, <3>2 DEF AuInv
    <2>4. CASE ~UNCHANGED <<auFlow, auLoop>>
        <3>x. PICK x : x = auFlow[f]
            OBVIOUS
        <3> DEFINE y == [x EXCEPT !.pc = "relay", !.up = TRUE, !.down = TRUE, !.tcp = TRUE,
                                  !.peer = TRUE]
        <3>1. auFlow' = [auFlow EXCEPT ![f] = y] /\ auLoop' = AuNone
            BY <1>3, <1>n, <2>1, <2>4, <2>f, <3>x DEF AuHandoff
        <3>2. /\ x \in AuFlowState /\ x.pc = "held" /\ ~x.congested /\ ~x.closed
              /\ x.user \in AuUsers
            BY <1>c, <1>n, <2>1, <3>x
        <3>3. /\ y \in AuFlowState /\ AuSound(y) /\ y.pc = "relay" /\ ~y.congested
              /\ y.user = x.user
            BY <3>2 DEF AuFlowState, AuSound, AuPcs
        <3>4. AuFlowsSound' /\ AuNumbered' /\ AuReaderKnows' /\ AuLinked' /\ AuTabled'
            BY <1>0, <2>1, <3>1, <3>2, <3>3, <3>x, AuPassed DEF AuReaderKnows
        <3>5. auFlow'[f] = y /\ \A g \in AuFlows : g # f => auFlow'[g] = auFlow[g]
            BY <1>0, <2>1, <3>1, <3>3, AuOneMoves
        <3> HIDE DEF y
        <3>6. AuRest'
            BY <1>0, <2>1, <2>2, <3>1 DEF AuRest
        <3>7. AuWaiting'
            BY <1>0, <1>n, <2>1, <3>1, <3>5 DEF AuWaiting
        <3> QED
            BY <3>4, <3>6, <3>7 DEF AuInv
    <2> QED
        BY <2>3, <2>4
<1>4. CASE AuTunnelArrives
    <2>1. /\ UNCHANGED <<auTable, auFlow, auChan, auReader, auLoop>> /\ auArrived < AuTunnels
          /\ auArrived' = auArrived + 1 /\ auIdle' = auIdle + 1
        BY <1>4 DEF AuTunnelArrives
    <2>2. auIdle' \in 0..auArrived' /\ auArrived' \in 0..AuTunnels
        BY <1>0, <1>n, <2>1 DEF AuRest
    <2>3. AuRest'
        BY <1>0, <2>1, <2>2 DEF AuRest
    <2>4. AuFlowsSound' /\ AuNumbered' /\ AuReaderKnows' /\ AuLinked' /\ AuTabled' /\ AuWaiting'
        BY <1>0, <2>1 DEF AuFlowsSound, AuNumbered, AuReaderKnows, AuLinked, AuTabled, AuWaiting
    <2> QED
        BY <2>3, <2>4 DEF AuInv
<1> QED
    BY <1>1, <1>2, <1>3, <1>4

(* The end of a flow unlinks itself and nobody else: one that is not       *)
(* congested is its user's entry, one that is leaves the entry alone.      *)
LEMMA AuFinishInv ==
    ASSUME AuInv, NEW f \in AuFlows, AuFinish(f)
    PROVE  AuInv'
<1>0. AuRest /\ AuFlowsSound /\ AuNumbered /\ AuReaderKnows /\ AuLinked /\ AuTabled /\ AuWaiting
    BY DEF AuInv
<1>x. PICK x : x = auFlow[f]
    OBVIOUS
<1>u. PICK u : u = x.user
    OBVIOUS
<1> DEFINE y == [x EXCEPT !.pc = "ended", !.closed = TRUE, !.payload = 0]
<1>1. /\ x \in AuFlowState /\ AuSound(x) /\ auFlow \in [AuFlows -> AuFlowState]
      /\ auTable \in [AuUsers -> AuFlows \cup {AuNone}] /\ AuNone \notin AuFlows
      /\ 0 \in 0..AuPayload
    BY <1>0, <1>x, AcceptUdpAssumption, SMTT(30) DEF AuFlowsSound, AuRest, AuFlows
<1>2. /\ x.pc = "relay" /\ ~x.up /\ ~x.down /\ u \in AuUsers
      /\ auFlow' = [auFlow EXCEPT ![f] = y]
      /\ auTable' = [auTable EXCEPT ![u] = IF x.congested THEN auTable[u] ELSE AuNone]
      /\ UNCHANGED <<auChan, auReader, auLoop, auIdle, auArrived>>
    BY <1>1, <1>u, <1>x DEF AuFinish, AuSound
<1>3. /\ y \in AuFlowState /\ AuSound(y) /\ y.pc = "ended" /\ y.user = u
      /\ y.congested = x.congested
    BY <1>1, <1>2, <1>u DEF AuFlowState, AuSound, AuPcs
<1>4. /\ AuFlowsSound' /\ auFlow'[f] = y
      /\ \A g \in AuFlows : g # f => auFlow'[g] = auFlow[g]
    BY <1>0, <1>2, <1>3, AuOneMoves
<1> HIDE DEF y
<1>5. /\ auTable' \in [AuUsers -> AuFlows \cup {AuNone}]
      /\ \A v \in AuUsers : v # u => auTable'[v] = auTable[v]
      /\ x.congested => auTable'[u] = auTable[u]
      /\ ~x.congested => auTable'[u] = AuNone
    BY <1>1, <1>2
<1>6. ~x.congested => auTable[u] = f
    BY <1>0, <1>2, <1>u, <1>x DEF AuLinked
<1>7. AuRest'
    BY <1>0, <1>2, <1>5 DEF AuRest
<1>8. AuNumbered'
    BY <1>0, <1>2, <1>3, <1>4, <1>x, AuNumberedSame
<1>9. AuReaderKnows'
    <2>1. auReader.pc = "insert" /\ auTable'[auReader.user] # AuNone =>
            auFlow'[auTable'[auReader.user]].congested
        BY <1>0, <1>1, <1>3, <1>4, <1>5, <1>x DEF AuReaderKnows
    <2>2. auReader.pc = "queue" => auFlow'[auReader.flow].pc = "new"
        BY <1>0, <1>2, <1>4, <1>x DEF AuReaderKnows
    <2> QED
        BY <1>0, <1>2, <2>1, <2>2 DEF AuReaderKnows
<1>10. AuLinked'
    <2> SUFFICES ASSUME NEW g \in AuFlows, ~auFlow'[g].congested,
                        auFlow'[g].pc \in {"new", "queued", "held", "relay"}
                 PROVE  auTable'[auFlow'[g].user] = g
        BY DEF AuLinked
    <2>1. g # f /\ auFlow'[g] = auFlow[g]
        BY <1>3, <1>4
    <2>2. auTable[auFlow[g].user] = g /\ auFlow[g].user \in AuUsers
        BY <1>0, <2>1 DEF AuLinked, AuFlowsSound, AuSound
    <2> QED
        BY <1>5, <1>6, <2>1, <2>2
<1>11. AuTabled'
    <2> SUFFICES ASSUME NEW v \in AuUsers, auTable'[v] # AuNone
                 PROVE  /\ auFlow'[auTable'[v]].user = v /\ auFlow'[auTable'[v]].pc # "unused"
                        /\ auFlow'[auTable'[v]].pc = "ended" => auFlow'[auTable'[v]].congested
        BY DEF AuTabled
    <2>1. auTable'[v] = auTable[v] /\ auTable[v] \in AuFlows
        BY <1>1, <1>5
    <2>2. auFlow[auTable[v]].user = v /\ auFlow[auTable[v]].pc # "unused"
          /\ (auFlow[auTable[v]].pc = "ended" => auFlow[auTable[v]].congested)
        BY <1>0, <2>1 DEF AuTabled
    <2>3. CASE auTable[v] = f
        <3>1. v = u /\ x.congested
            BY <1>5, <1>u, <1>x, <2>1, <2>2, <2>3
        <3> QED
            BY <1>3, <1>4, <2>1, <2>3, <3>1
    <2>4. CASE auTable[v] # f
        BY <1>4, <2>1, <2>2, <2>4
    <2> QED
        BY <2>3, <2>4
<1>12. AuWaiting'
    <2>1. \A i \in 1..Len(auChan) : auChan[i] \in AuFlows
        BY <1>0 DEF AuRest
    <2> QED
        BY <1>0, <1>2, <1>4, <1>x, <2>1 DEF AuWaiting, AuRest
<1> QED
    BY <1>4, <1>7, <1>8, <1>9, <1>10, <1>11, <1>12 DEF AuInv

(* The server starts with an empty table and empty channels. *)
LEMMA AuInitInv == AuInit => AuInv
<1> SUFFICES ASSUME AuInit
             PROVE  AuInv
    OBVIOUS
<1>n. 0 \in 0..AuMaxFlows /\ 0 \in 0..AuPayload /\ 0 \in 0..AuTunnels /\ 0 \in 0..0
      /\ 0 <= AuChannelSize /\ AuMaxFlows \in Nat
    BY AcceptUdpAssumption
<1>1. AuUnused \in AuFlowState /\ AuSound(AuUnused) /\ AuUnused.pc = "unused"
    BY <1>n DEF AuUnused, AuFlowState, AuSound, AuPcs
<1>2. AuFlowsSound /\ \A f \in AuFlows : auFlow[f].pc = "unused"
    BY <1>1 DEF AuInit, AuFlowsSound
<1>3. AuRest
    <2>1. auChan \in Seq(AuFlows) /\ Len(auChan) = 0
        BY DEF AuInit
    <2>2. auReader \in AuReaderState
        BY DEF AuInit, AuReading, AuReaderState
    <2>3. auIdle \in 0..auArrived /\ auArrived \in 0..AuTunnels
        BY <1>n DEF AuInit
    <2> QED
        BY <1>n, <2>1, <2>2, <2>3 DEF AuInit, AuRest
<1>4. AuNumbered
    <2>1. \A f \in AuFlows : auFlow[f].pc # "unused" <=> f <= 0
        BY <1>2, <1>n DEF AuFlows
    <2> QED
        BY <1>n, <2>1 DEF AuNumbered
<1>5. AuReaderKnows
    BY DEF AuInit, AuReading, AuReaderKnows
<1>6. AuLinked /\ AuTabled
    BY <1>2 DEF AuInit, AuLinked, AuTabled
<1>7. AuWaiting
    BY DEF AuInit, AuWaiting, OnceIn
<1> QED
    BY <1>2, <1>3, <1>4, <1>5, <1>6, <1>7 DEF AuInv

(* Every step keeps the invariant. *)
LEMMA AuStepInv == AuInv /\ [AuNext]_auVars => AuInv'
<1> SUFFICES ASSUME AuInv, [AuNext]_auVars
             PROVE  AuInv'
    OBVIOUS
<1>1. CASE AuListenerStep
    BY <1>1, AuReceiveSteps, AuInsertInv, AuPassSteps DEF AuListenerStep
<1>2. CASE AuTunnelArrives \/ AuTake \/ AuHandoff
    BY <1>2, AuPassSteps
<1>3. ASSUME NEW f \in AuFlows, AuFlowStep(f)
      PROVE  AuInv'
    BY <1>3, AuRelaySteps, AuFinishInv DEF AuFlowStep
<1>4. CASE UNCHANGED auVars
    BY <1>4 DEF auVars, AuInv, AuRest, AuFlowsSound, AuNumbered, AuReaderKnows, AuLinked, AuTabled,
                AuWaiting, OnceIn
<1> QED
    BY <1>1, <1>2, <1>3, <1>4 DEF AuNext

(* The table of accept_udp, its flows and its channels keep AuInv, for any *)
(* number of users, flows and tunnels and any capacity of the channels.    *)
THEOREM AuInvAlways == AuSpec => []AuInv
<1> QED
    BY AuInitInv, AuStepInv, PTL DEF AuSpec

(* The variables of accept_udp hold what the code's types allow and no     *)
(* channel holds more than its capacity.                                   *)
THEOREM AuTypeCorrect == AuSpec => []AuTypeOK
<1>1. AuInv => AuTypeOK
    <2> SUFFICES ASSUME AuInv
                 PROVE  AuTypeOK
        OBVIOUS
    <2>1. auIdle \in 0..AuTunnels
        BY AcceptUdpAssumption DEF AuInv, AuRest
    <2> QED
        BY <2>1 DEF AuInv, AuRest, AuFlowsSound, AuFlowState, AuReaderState, AuTypeOK
<1> QED
    BY <1>1, AuInvAlways, PTL

(* activeConnections of udpListener: the entry a datagram is pushed into   *)
(* is served and its payload channel open, whatever the loop and the       *)
(* relays do between two locks of mu.                                      *)
THEOREM AuTableServedAlways == AuSpec => []AuTableServed
<1>1. AuInv => AuTableServed
    BY DEF AuInv, AuRest, AuFlowsSound, AuFlowState, AuSound, AuTabled, AuPcs, AuTableServed
<1> QED
    BY <1>1, AuInvAlways, PTL

(* UDPConnectionHandler's delete at the end of a flow: a user never has    *)
(* two flows that are not congested.                                       *)
THEOREM AuOneFlowAlways == AuSpec => []AuOneFlow
<1>1. AuInv => AuOneFlow
    BY DEF AuInv, AuLinked, AuOneFlow
<1> QED
    BY <1>1, AuInvAlways, PTL

(* The congestion test of tcpToUDP on timestamps that wrap around: no flow *)
(* is marked without a late reply, for any period longer than the delays.  *)
THEOREM AuNoFalseCongestionAlways == AuSpec => []AuNoFalseCongestion
<1>1. AuInv => AuNoFalseCongestion
    BY DEF AuInv, AuFlowsSound, AuSound, AuNoFalseCongestion
<1> QED
    BY <1>1, AuInvAlways, PTL

-----------------------------------------------------------------------------
(* UdpFlows *)

UdFlowState ==
    [user : UdUsers \cup {UdNone}, payload : 0..UdPayload, closed : BOOLEAN,
     pc : {"unused", "new", "queued", "refused", "timedout", "held", "relay", "ended"},
     up : BOOLEAN, down : BOOLEAN]
UdTunState ==
    [pc : {"unused", "new", "idle", "refused", "taken", "broken", "relay", "ended"},
     listed : BOOLEAN, payload : 0..UdPayload, closed : BOOLEAN,
     lock : {"free", "ping", "loop"}, keeper : {"off", "wait", "write"},
     ping : BOOLEAN, got : {"none", "address", "late"}, flow : UdFlows \cup {UdNone}]
UdReaderState ==
    [pc : {"read", "insert", "queue", "first", "delete"}, user : UdUsers \cup {UdNone},
     flow : UdFlows \cup {UdNone}]
UdAcceptState == [pc : {"read", "queue", "keep", "delete"}, tun : UdTunnels \cup {UdNone}]

(* The flows: localListener and the first half of handleLoop.              *)
UdFlowRest ==
    /\ udTable \in [UdUsers -> UdFlows \cup {UdNone}]
    /\ udChan \in Seq(UdFlows) /\ Len(udChan) <= UdChannelSize
    /\ udReader \in UdReaderState

UdSound(x) ==
    /\ x.pc # "unused" => x.user \in UdUsers
    /\ x.closed => x.pc \in {"refused", "ended"}
    /\ x.up \/ x.down => x.pc = "relay"
UdFlowsSound ==
    /\ udFlow \in [UdFlows -> UdFlowState]
    /\ \A f \in UdFlows : UdSound(udFlow[f])

UdNumbered == \E n \in 0..udLoad[1] : \A f \in UdFlows : udFlow[f].pc # "unused" <=> f <= n

(* What localListener's goroutine knows between its steps: it makes a flow *)
(* for a user that has none, and the entry it deletes is its own.          *)
UdReaderKnows ==
    /\ udReader.pc = "insert" => udReader.user \in UdUsers /\ udTable[udReader.user] = UdNone
    /\ udReader.pc = "queue" =>
         /\ udReader.flow \in UdFlows /\ udFlow[udReader.flow].pc = "new"
         /\ udReader.user = udFlow[udReader.flow].user
    /\ udReader.pc = "first" => udReader.flow \in UdFlows
    /\ udReader.pc = "delete" =>
         /\ udReader.flow \in UdFlows /\ udReader.user \in UdUsers
         /\ udTable[udReader.user] = udReader.flow
         /\ udFlow[udReader.flow].pc = "refused"

UdUsable == {"new", "queued", "held", "relay", "timedout"}
UdLinked ==
    \A f \in UdFlows : udFlow[f].pc \in UdUsable => udTable[udFlow[f].user] = f
UdTabled ==
    \A u \in UdUsers : udTable[u] # UdNone =>
        /\ udFlow[udTable[u]].user = u
        /\ \/ udFlow[udTable[u]].pc \in UdUsable
           \/ udReader.pc = "delete" /\ udReader.flow = udTable[u]
UdWaiting ==
    /\ OnceIn(udChan)
    /\ \A i \in 1..Len(udChan) : udFlow[udChan[i]].pc = "queued"
    /\ udLoop.flow # UdNone => udFlow[udLoop.flow].pc = "held"

(* The process may have ended in the middle of a delete. *)
UdFlowsInv == /\ UdFlowRest /\ UdFlowsSound
              /\ udUp => UdNumbered /\ UdReaderKnows /\ UdLinked /\ UdTabled /\ UdWaiting

(* The tunnels: acceptTunnelConn, keepAlive, the second half of handleLoop. *)
UdTunRest ==
    /\ udIdle \in Seq(UdTunnels) /\ Len(udIdle) <= UdChannelSize
    /\ udAccept \in UdAcceptState

(* keepAlive pings under the lock, which handleLoop takes for good before  *)
(* it writes the address.                                                  *)
UdTunSound(x) ==
    /\ x.closed => x.pc \in {"refused", "ended"}
    /\ x.listed => x.pc \notin {"unused", "ended"}
    /\ x.keeper = "write" => x.lock = "ping"
    /\ x.got # "none" => x.lock = "loop"
    /\ x.got # "late"
UdTunsSound ==
    /\ udTun \in [UdTunnels -> UdTunState]
    /\ \A t \in UdTunnels : UdTunSound(udTun[t])
UdTunNumbered == \E n \in 0..udLoad[2] : \A t \in UdTunnels : udTun[t].pc # "unused" <=> t <= n

UdAcceptKnows ==
    /\ udAccept.pc = "queue" => udAccept.tun \in UdTunnels /\ udTun[udAccept.tun].pc = "new"
    /\ udAccept.pc = "keep" => udAccept.tun \in UdTunnels
    /\ udAccept.pc = "delete" => udAccept.tun \in UdTunnels
UdListed ==
    \A t \in UdTunnels : udTun[t].listed /\ udTun[t].pc = "refused"
        => udAccept.pc = "delete" /\ udAccept.tun = t
UdIdling ==
    /\ OnceIn(udIdle)
    /\ \A i \in 1..Len(udIdle) : udTun[udIdle[i]].pc = "idle"
    /\ udLoop.tun # UdNone => udTun[udLoop.tun].pc = "taken"

UdTunnelsInv == /\ UdTunRest /\ UdTunsSound /\ UdTunNumbered /\ UdAcceptKnows /\ UdListed
                /\ UdIdling

UdCommon ==
    /\ udLoad \in UdLoads /\ udUp \in BOOLEAN
    /\ udLoop \in [flow : UdFlows \cup {UdNone}, tun : UdTunnels \cup {UdNone}]
    /\ udLoop.tun # UdNone => udLoop.flow # UdNone

UdInv == UdCommon /\ UdFlowsInv /\ UdTunnelsInv

-----------------------------------------------------------------------------
(* The steps of UdpFlows *)

(* How many flows and tunnels there can be does not change. *)
LEMMA UdSame ==
    ASSUME udLoad' = udLoad
    PROVE  /\ UdFlows' = UdFlows /\ UdTunnels' = UdTunnels /\ UdTunState' = UdTunState
           /\ UdReaderState' = UdReaderState /\ UdAcceptState' = UdAcceptState
BY DEF UdFlows, UdTunnels, UdTunState, UdReaderState, UdAcceptState

(* The loads, the capacities and the absent value are what the arithmetic  *)
(* below needs.                                                            *)
LEMMA UdNumbers ==
    ASSUME UdCommon
    PROVE  /\ udLoad[1] \in Nat /\ udLoad[2] \in Nat /\ UdNone \notin UdFlows
           /\ UdNone \notin UdTunnels /\ UdChannelSize \in Nat /\ UdPayload \in Nat
           /\ 0 \in 0..UdPayload
<1>1. udLoad \in Nat \X Nat
    BY UdpFlowsAssumption DEF UdCommon
<1>2. udLoad[1] \in Nat /\ udLoad[2] \in Nat
    BY <1>1
<1> QED
    BY <1>2, UdpFlowsAssumption DEF UdFlows, UdTunnels

(* A step of the tunnels leaves the flows alone, and the other way round. *)
LEMMA UdFlowsStay ==
    ASSUME UdFlowsInv, UNCHANGED <<udLoad, udTable, udFlow, udChan, udReader>>,
           udLoop'.flow = udLoop.flow, udUp' => udUp
    PROVE  UdFlowsInv'
<1>1. UdFlows' = UdFlows /\ UdReaderState' = UdReaderState
    BY UdSame
<1>2. UdFlowRest' /\ UdFlowsSound'
    BY <1>1 DEF UdFlowsInv, UdFlowRest, UdFlowsSound
<1>3. ASSUME udUp
      PROVE  UdNumbered' /\ UdReaderKnows' /\ UdLinked' /\ UdTabled' /\ UdWaiting'
    BY <1>1, <1>3 DEF UdFlowsInv, UdNumbered, UdReaderKnows, UdLinked, UdTabled, UdWaiting, OnceIn
<1> QED
    BY <1>2, <1>3 DEF UdFlowsInv

(* A step that leaves tunnels, idle list and acceptor alone keeps what is  *)
(* said of them.                                                           *)
LEMMA UdTunnelsStay ==
    ASSUME UdTunnelsInv, UNCHANGED <<udLoad, udTun, udIdle, udAccept>>, udLoop'.tun = udLoop.tun
    PROVE  UdTunnelsInv'
<1>1. UdTunnels' = UdTunnels /\ UdTunState' = UdTunState /\ UdAcceptState' = UdAcceptState
    BY UdSame
<1>2. UdTunRest' /\ UdTunsSound' /\ UdTunNumbered' /\ UdAcceptKnows' /\ UdListed' /\ UdIdling'
    BY <1>1 DEF UdTunnelsInv, UdTunRest, UdTunsSound, UdTunNumbered, UdAcceptKnows, UdListed,
                UdIdling, OnceIn
<1> QED
    BY <1>2 DEF UdTunnelsInv

(* One flow changes. *)
LEMMA UdOneFlow ==
    ASSUME UdFlowsSound, udLoad' = udLoad, NEW f \in UdFlows, NEW y \in UdFlowState, UdSound(y),
           udFlow' = [udFlow EXCEPT ![f] = y]
    PROVE  /\ UdFlowsSound' /\ udFlow'[f] = y
           /\ \A g \in UdFlows : g # f => udFlow'[g] = udFlow[g]
<1>1. udFlow'[f] = y /\ \A g \in UdFlows : g # f => udFlow'[g] = udFlow[g]
    BY DEF UdFlowsSound
<1>2. UdFlows' = UdFlows
    BY UdSame
<1> QED
    BY <1>1, <1>2 DEF UdFlowsSound

(* Flows that come neither into use nor out of it keep their numbering. *)
LEMMA UdNumberedSame ==
    ASSUME UdNumbered, udLoad' = udLoad,
           \A g \in UdFlows : udFlow'[g].pc # "unused" <=> udFlow[g].pc # "unused"
    PROVE  UdNumbered'
BY UdSame DEF UdNumbered

(* Datagrams of a flow come and go, and its directions end. *)
LEMMA UdFlowData ==
    ASSUME UdCommon, UdFlowsInv, NEW f \in UdFlows, NEW x, x = udFlow[f], NEW y \in UdFlowState,
           udFlow' = [udFlow EXCEPT ![f] = y], UdSound(y), y.pc = x.pc, y.user = x.user,
           udUp, UNCHANGED <<udLoad, udTable, udChan>>, udLoop'.flow = udLoop.flow,
           udReader' = udReader \/ (udReader.pc = "first" /\ udReader' = UdReading)
    PROVE  UdFlowsInv'
<1>0. /\ UdFlowRest /\ UdFlowsSound /\ UdNumbered /\ UdReaderKnows /\ UdLinked /\ UdTabled
      /\ UdWaiting
    BY DEF UdFlowsInv
<1>s. UdFlows' = UdFlows /\ UdReaderState' = UdReaderState
    BY UdSame
<1>1. /\ UdFlowsSound' /\ udFlow'[f] = y
      /\ \A g \in UdFlows : g # f => udFlow'[g] = udFlow[g]
    BY <1>0, UdOneFlow
<1>2. \A g \in UdFlows : udFlow'[g].pc = udFlow[g].pc /\ udFlow'[g].user = udFlow[g].user
    BY <1>1
<1>3. UdFlowRest'
    BY <1>0, <1>s DEF UdFlowRest, UdReading, UdReaderState
<1>4. UdNumbered'
    BY <1>0, <1>2, UdNumberedSame
<1>5. UdReaderKnows'
    <2>1. CASE udReader' = UdReading
        BY <2>1 DEF UdReaderKnows, UdReading
    <2>2. CASE udReader' = udReader
        BY <1>0, <1>2, <1>s, <2>2 DEF UdReaderKnows
    <2> QED
        BY <2>1, <2>2
<1>6. UdLinked'
    BY <1>0, <1>2, <1>s DEF UdLinked
<1>7. UdTabled'
    <2>1. \A u \in UdUsers : udTable[u] # UdNone => udTable[u] \in UdFlows
        BY <1>0 DEF UdFlowRest
    <2> QED
        BY <1>0, <1>2, <2>1 DEF UdTabled
<1>8. UdWaiting'
    <2>1. \A i \in 1..Len(udChan) : udChan[i] \in UdFlows
        BY <1>0 DEF UdFlowRest
    <2>2. udLoop.flow # UdNone => udLoop.flow \in UdFlows
        BY DEF UdCommon
    <2> QED
        BY <1>0, <1>2, <2>1, <2>2 DEF UdWaiting
<1> QED
    BY <1>1, <1>3, <1>4, <1>5, <1>6, <1>7, <1>8 DEF UdFlowsInv

(* localListener: a datagram of a known user, of a user that gets a flow,  *)
(* and the first datagram of a flow.                                       *)
LEMMA UdReceiveSteps ==
    ASSUME UdCommon, UdFlowsInv, udUp, udLoad' = udLoad, UdFirst \/ \E u \in UdUsers : UdReceive(u)
    PROVE  UdFlowsInv'
<1>0. /\ UdFlowRest /\ UdFlowsSound /\ UdNumbered /\ UdReaderKnows /\ UdLinked /\ UdTabled
      /\ UdWaiting /\ udFlow \in [UdFlows -> UdFlowState]
    BY DEF UdFlowsInv, UdFlowsSound
<1>s. UdFlows' = UdFlows /\ UdReaderState' = UdReaderState
    BY UdSame
<1>n. UdPayload \in Nat
    BY UdNumbers
<1>1. UNCHANGED <<udTable, udChan, udLoop, udUp>>
    BY DEF UdFirst, UdReceive
<1>2. ASSUME NEW f \in UdFlows, NEW n \in 0..UdPayload,
             udFlow' = [udFlow EXCEPT ![f].payload = n],
             udReader' = udReader \/ (udReader.pc = "first" /\ udReader' = UdReading)
      PROVE  UdFlowsInv'
    <2>x. PICK x : x = udFlow[f]
        OBVIOUS
    <2> DEFINE y == [x EXCEPT !.payload = n]
    <2>1. udFlow' = [udFlow EXCEPT ![f] = y] /\ x \in UdFlowState /\ UdSound(x)
        BY <1>0, <1>2, <2>x DEF UdFlowsSound
    <2>2. y \in UdFlowState /\ UdSound(y) /\ y.pc = x.pc /\ y.user = x.user
        BY <2>1 DEF UdFlowState, UdSound
    <2> QED
        BY <1>1, <1>2, <2>1, <2>2, <2>x, UdFlowData
<1>3. CASE UdFirst
    <2>1. udReader.flow \in UdFlows /\ udReader.pc = "first"
        BY <1>0, <1>3 DEF UdFirst, UdReaderKnows
    <2>2. udFlow[udReader.flow].payload + 1 \in 0..UdPayload
        BY <1>0, <1>3, <1>n, <2>1 DEF UdFirst, UdFlowState
    <2>3. udFlow' = [udFlow EXCEPT ![udReader.flow].payload = udFlow[udReader.flow].payload + 1]
          /\ udReader' = UdReading
        BY <1>0, <1>3, <2>1 DEF UdFirst
    <2> QED
        BY <1>2, <2>1, <2>2, <2>3
<1>4. ASSUME NEW u \in UdUsers, UdReceive(u)
      PROVE  UdFlowsInv'
    <2>f. PICK f : f = udTable[u]
        OBVIOUS
    <2>1. CASE f # UdNone
        <3>1. f \in UdFlows
            BY <1>0, <2>1, <2>f DEF UdFlowRest
        <3>2. udFlow[f].payload \in 0..UdPayload
            BY <1>0, <3>1 DEF UdFlowState
        <3>3. UdPush(udFlow[f].payload) \in 0..UdPayload
            BY <1>n, <3>2 DEF UdPush
        <3>4. udFlow' = [udFlow EXCEPT ![f].payload = UdPush(udFlow[f].payload)]
              /\ udReader' = udReader
            BY <1>0, <1>4, <2>1, <2>f, <3>1 DEF UdReceive
        <3> QED
            BY <1>2, <3>1, <3>3, <3>4
    <2>2. CASE f = UdNone
        <3>1. /\ udReader' = [pc |-> "insert", user |-> u, flow |-> UdNone] /\ udFlow' = udFlow
              /\ udReader.pc = "read"
            BY <1>4, <2>2, <2>f DEF UdReceive, UdReading
        <3>2. UdReaderKnows'
            BY <1>1, <2>2, <2>f, <3>1 DEF UdReaderKnows
        <3>3. UdFlowRest'
            BY <1>0, <1>1, <1>s, <3>1 DEF UdFlowRest, UdReaderState
        <3>4. UdFlowsSound' /\ UdNumbered' /\ UdLinked' /\ UdTabled' /\ UdWaiting'
            BY <1>0, <1>1, <1>s, <3>1 DEF UdFlowsSound, UdNumbered, UdLinked, UdTabled, UdWaiting
        <3> QED
            BY <3>2, <3>3, <3>4 DEF UdFlowsInv
    <2> QED
        BY <2>1, <2>2
<1> QED
    BY <1>3, <1>4

(* The new flow enters the table in the place of nothing. *)
LEMMA UdInsertInv ==
    ASSUME UdCommon, UdFlowsInv, udUp, udLoad' = udLoad, UdInsert
    PROVE  UdFlowsInv'
<1>0. /\ UdFlowRest /\ UdFlowsSound /\ UdNumbered /\ UdReaderKnows /\ UdLinked /\ UdTabled
      /\ UdWaiting
    BY DEF UdFlowsInv
<1>s. UdFlows' = UdFlows /\ UdReaderState' = UdReaderState
    BY UdSame
<1>n. udLoad[1] \in Nat /\ UdNone \notin UdFlows
    BY UdNumbers
<1>f. PICK f : f = UdMade(udFlow) + 1
    OBVIOUS
<1>1. PICK n \in 0..udLoad[1] : \A g \in UdFlows : udFlow[g].pc # "unused" <=> g <= n
    BY <1>0 DEF UdNumbered
<1>2. UdMade(udFlow) = n
    <2> DEFINE U == {g \in UdFlows : udFlow[g].pc # "unused"}
    <2>1. U \in SUBSET (1..udLoad[1]) /\ DOMAIN udFlow = UdFlows
        BY <1>0 DEF UdFlows, UdFlowsSound
    <2>2. \A g \in 1..udLoad[1] : g \in U <=> g <= n
        BY <1>1 DEF UdFlows
    <2>3. UdMade(udFlow) = Cardinality(U)
        BY <2>1 DEF UdMade
    <2> HIDE DEF U
    <2> QED
        BY <1>n, <2>1, <2>2, <2>3, NextNumber
<1>3. /\ f \in UdFlows /\ udFlow[f].pc = "unused" /\ f # UdNone /\ f = n + 1
      /\ udReader.pc = "insert" /\ n + 1 \in 0..udLoad[1]
    BY <1>1, <1>2, <1>f, <1>n DEF UdInsert, UdFlows
<1>u. PICK u : u = udReader.user
    OBVIOUS
<1>4. u \in UdUsers /\ udTable[u] = UdNone
    BY <1>0, <1>3, <1>u DEF UdReaderKnows
<1>x. PICK x : x = udFlow[f]
    OBVIOUS
<1> DEFINE y == [x EXCEPT !.pc = "new", !.user = u]
<1>5. /\ x \in UdFlowState /\ UdSound(x) /\ udFlow \in [UdFlows -> UdFlowState]
      /\ udTable \in [UdUsers -> UdFlows \cup {UdNone}] /\ udReader \in UdReaderState
    BY <1>0, <1>3, <1>x DEF UdFlowsSound, UdFlowRest
<1>6. /\ udFlow' = [udFlow EXCEPT ![f] = y] /\ udTable' = [udTable EXCEPT ![u] = f]
      /\ udReader' = [udReader EXCEPT !.pc = "queue", !.flow = f]
      /\ UNCHANGED <<udChan, udLoop, udUp>>
    BY <1>3, <1>5, <1>f, <1>u, <1>x DEF UdInsert
<1>7. y \in UdFlowState /\ UdSound(y) /\ y.pc = "new" /\ y.user = u
    BY <1>3, <1>4, <1>5, <1>x DEF UdFlowState, UdSound
<1>8. /\ UdFlowsSound' /\ udFlow'[f] = y
      /\ \A g \in UdFlows : g # f => udFlow'[g] = udFlow[g]
    BY <1>0, <1>3, <1>6, <1>7, UdOneFlow
<1>9. /\ udTable' \in [UdUsers -> UdFlows \cup {UdNone}] /\ udTable'[u] = f
      /\ \A v \in UdUsers : v # u => udTable'[v] = udTable[v]
      /\ udReader' \in UdReaderState /\ udReader'.pc = "queue" /\ udReader'.flow = f
      /\ udReader'.user = u
    BY <1>3, <1>4, <1>5, <1>6, <1>u DEF UdReaderState
<1> HIDE DEF y
<1>10. UdFlowRest'
    BY <1>0, <1>6, <1>9, <1>s DEF UdFlowRest
<1>11. UdNumbered'
    <2>1. \A g \in UdFlows : udFlow'[g].pc # "unused" <=> g <= n + 1
        BY <1>1, <1>3, <1>7, <1>8, <1>n DEF UdFlows
    <2> QED
        BY <1>3, <1>s, <2>1 DEF UdNumbered
<1>12. UdReaderKnows'
    BY <1>3, <1>7, <1>8, <1>9, <1>s DEF UdReaderKnows
<1>13. UdLinked'
    <2> SUFFICES ASSUME NEW g \in UdFlows, udFlow'[g].pc \in UdUsable
                 PROVE  udTable'[udFlow'[g].user] = g
        BY <1>s DEF UdLinked
    <2>1. CASE g = f
        BY <1>7, <1>8, <1>9, <2>1
    <2>2. CASE g # f
        <3>1. udTable[udFlow[g].user] = g /\ udFlow'[g] = udFlow[g] /\ udFlow[g].user \in UdUsers
            BY <1>0, <1>8, <2>2 DEF UdLinked, UdFlowsSound, UdSound, UdUsable
        <3> QED
            BY <1>4, <1>9, <1>n, <3>1
    <2> QED
        BY <2>1, <2>2
<1>14. UdTabled'
    <2> SUFFICES ASSUME NEW v \in UdUsers, udTable'[v] # UdNone
                 PROVE  udFlow'[udTable'[v]].user = v /\ udFlow'[udTable'[v]].pc \in UdUsable
        BY DEF UdTabled
    <2>1. CASE v = u
        BY <1>7, <1>8, <1>9, <2>1 DEF UdUsable
    <2>2. CASE v # u
        <3>1. /\ udTable'[v] = udTable[v] /\ udTable[v] \in UdFlows
              /\ udFlow[udTable[v]].pc \in UdUsable /\ udFlow[udTable[v]].user = v
            BY <1>0, <1>3, <1>5, <1>9, <2>2 DEF UdTabled
        <3>2. udFlow'[udTable[v]] = udFlow[udTable[v]]
            BY <1>3, <1>8, <3>1 DEF UdUsable
        <3> QED
            BY <3>1, <3>2
    <2> QED
        BY <2>1, <2>2
<1>15. UdWaiting'
    <2>1. \A i \in 1..Len(udChan) : udChan[i] \in UdFlows
        BY <1>0 DEF UdFlowRest
    <2>2. \A i \in 1..Len(udChan) : udFlow'[udChan[i]].pc = "queued"
        BY <1>0, <1>3, <1>8, <2>1 DEF UdWaiting
    <2>3. udLoop.flow # UdNone => udFlow'[udLoop.flow].pc = "held"
        BY <1>0, <1>3, <1>8 DEF UdWaiting, UdCommon
    <2> QED
        BY <1>0, <1>6, <2>2, <2>3 DEF UdWaiting
<1> QED
    BY <1>8, <1>10, <1>11, <1>12, <1>13, <1>14, <1>15 DEF UdFlowsInv

(* A flow goes to udpChan, to handleLoop, to its relay or out of the queue *)
(* when its time is over; its entry stays.                                 *)
LEMMA UdPassed ==
    ASSUME UdCommon, UdFlowsInv, udUp, udLoad' = udLoad,
           NEW f \in UdFlows, NEW x, x = udFlow[f], NEW y \in UdFlowState, UdSound(y),
           udFlow' = [udFlow EXCEPT ![f] = y], udTable' = udTable,
           x.pc \in {"new", "queued", "held"}, y.pc \in {"queued", "held", "relay", "timedout"},
           y.user = x.user,
           \/ udReader' = udReader /\ x.pc # "new"
           \/ udReader'.pc = "first" /\ udReader'.flow \in UdFlows /\ udReader.pc = "queue"
    PROVE  UdFlowsSound' /\ UdNumbered' /\ UdReaderKnows' /\ UdLinked' /\ UdTabled'
<1>0. UdFlowRest /\ UdFlowsSound /\ UdNumbered /\ UdReaderKnows /\ UdLinked /\ UdTabled
    BY DEF UdFlowsInv
<1>s. UdFlows' = UdFlows
    BY UdSame
<1>1. /\ UdFlowsSound' /\ udFlow'[f] = y
      /\ \A g \in UdFlows : g # f => udFlow'[g] = udFlow[g]
    BY <1>0, UdOneFlow
<1>2. UdNumbered'
    BY <1>0, <1>1, UdNumberedSame
<1>3. UdReaderKnows'
    <2>1. CASE udReader' = udReader /\ x.pc # "new"
        BY <1>0, <1>1, <1>s, <2>1 DEF UdReaderKnows
    <2>2. CASE udReader'.pc = "first" /\ udReader'.flow \in UdFlows
        BY <1>s, <2>2 DEF UdReaderKnows
    <2> QED
        BY <2>1, <2>2
<1>4. UdLinked'
    BY <1>0, <1>1, <1>s DEF UdLinked, UdUsable
<1>5. UdTabled'
    <2> SUFFICES ASSUME NEW v \in UdUsers, udTable[v] # UdNone
                 PROVE  /\ udFlow'[udTable[v]].user = v
                        /\ \/ udFlow'[udTable[v]].pc \in UdUsable
                           \/ udReader'.pc = "delete" /\ udReader'.flow = udTable[v]
        BY DEF UdTabled
    <2>1. /\ udFlow[udTable[v]].user = v /\ udTable[v] \in UdFlows
          /\ \/ udFlow[udTable[v]].pc \in UdUsable
             \/ udReader.pc = "delete" /\ udReader.flow = udTable[v]
        BY <1>0 DEF UdTabled, UdFlowRest
    <2>2. CASE udTable[v] = f
        BY <1>1, <2>1, <2>2 DEF UdUsable
    <2>3. CASE udTable[v] # f
        BY <1>1, <2>1, <2>3
    <2> QED
        BY <2>2, <2>3
<1> QED
    BY <1>1, <1>2, <1>3, <1>4, <1>5

(* localListener queues its flow, or closes it and deletes its entry. *)
LEMMA UdQueueSteps ==
    ASSUME UdCommon, UdFlowsInv, udUp, udLoad' = udLoad, UdQueue \/ UdDeleteFlow
    PROVE  UdFlowsInv'
<1>0. /\ UdFlowRest /\ UdFlowsSound /\ UdNumbered /\ UdReaderKnows /\ UdLinked /\ UdTabled
      /\ UdWaiting
    BY DEF UdFlowsInv
<1>s. UdFlows' = UdFlows /\ UdReaderState' = UdReaderState
    BY UdSame
<1>n. /\ UdNone \notin UdFlows /\ UdChannelSize \in Nat
      /\ udFlow \in [UdFlows -> UdFlowState] /\ udChan \in Seq(UdFlows) /\ Len(udChan) \in Nat
      /\ \A i \in 1..Len(udChan) : udChan[i] \in UdFlows
      /\ udReader \in UdReaderState /\ udTable \in [UdUsers -> UdFlows \cup {UdNone}]
      /\ udLoop.flow # UdNone => udLoop.flow \in UdFlows
    BY <1>0, UdNumbers DEF UdFlowsSound, UdFlowRest, UdCommon
<1>1. CASE UdQueue
    <2>f. PICK f : f = udReader.flow
        OBVIOUS
    <2>1. /\ udReader.pc = "queue" /\ f \in UdFlows /\ udFlow[f].pc = "new"
          /\ udReader.user = udFlow[f].user /\ UNCHANGED <<udTable, udLoop, udUp>>
        BY <1>0, <1>1, <2>f DEF UdQueue, UdReaderKnows
    <2>x. PICK x : x = udFlow[f]
        OBVIOUS
    <2>2. x \in UdFlowState /\ x.pc = "new" /\ ~x.closed /\ ~x.up /\ ~x.down /\ x.user \in UdUsers
          /\ udTable[x.user] = f
        BY <1>0, <1>n, <2>1, <2>x DEF UdFlowsSound, UdSound, UdLinked, UdUsable
    <2>3. CASE Len(udChan) < UdChannelSize
        <3> DEFINE y == [x EXCEPT !.pc = "queued"]
        <3>1. /\ udChan' = Append(udChan, f) /\ udFlow' = [udFlow EXCEPT ![f] = y]
              /\ udReader' = [udReader EXCEPT !.pc = "first"]
            BY <1>1, <1>n, <2>1, <2>3, <2>f, <2>x DEF UdQueue
        <3>2. y \in UdFlowState /\ UdSound(y) /\ y.pc = "queued" /\ y.user = x.user
            BY <2>2 DEF UdFlowState, UdSound
        <3>3. udReader' \in UdReaderState /\ udReader'.pc = "first" /\ udReader'.flow = f
            BY <1>n, <2>f, <3>1 DEF UdReaderState
        <3>4. UdFlowsSound' /\ UdNumbered' /\ UdReaderKnows' /\ UdLinked' /\ UdTabled'
            BY <2>1, <2>2, <2>x, <3>1, <3>2, <3>3, UdPassed
        <3>5. udFlow'[f] = y /\ \A g \in UdFlows : g # f => udFlow'[g] = udFlow[g]
            BY <1>0, <2>1, <3>1, <3>2, UdOneFlow
        <3> HIDE DEF y
        <3>6. /\ udChan' \in Seq(UdFlows) /\ Len(udChan') = Len(udChan) + 1
              /\ \A i \in 1..Len(udChan') : IF i = Len(udChan) + 1 THEN udChan'[i] = f
                                            ELSE i \in 1..Len(udChan) /\ udChan'[i] = udChan[i]
            BY <1>n, <2>1, <3>1, Sent
        <3>7. UdFlowRest'
            BY <1>0, <1>n, <1>s, <2>1, <2>3, <3>3, <3>6 DEF UdFlowRest
        <3>8. \A i \in 1..Len(udChan) : udChan[i] # f /\ udFlow'[udChan[i]].pc = "queued"
            BY <1>0, <1>n, <2>1, <3>5 DEF UdWaiting
        <3>9. OnceIn(udChan')
            BY <1>0, <3>6, <3>8 DEF UdWaiting, OnceIn
        <3>10. \A i \in 1..Len(udChan') : udFlow'[udChan'[i]].pc = "queued"
            BY <3>2, <3>5, <3>6, <3>8
        <3>11. udLoop'.flow # UdNone => udFlow'[udLoop'.flow].pc = "held"
            BY <1>0, <1>n, <2>1, <3>5 DEF UdWaiting
        <3>12. UdWaiting'
            BY <3>9, <3>10, <3>11 DEF UdWaiting, OnceIn
        <3> QED
            BY <3>4, <3>7, <3>12 DEF UdFlowsInv
    <2>4. CASE Len(udChan) = UdChannelSize
        <3> DEFINE y == [x EXCEPT !.pc = "refused", !.closed = TRUE]
        <3>1. /\ udChan' = udChan /\ udFlow' = [udFlow EXCEPT ![f] = y]
              /\ udReader' = [udReader EXCEPT !.pc = "delete"]
            <4>1. ~(Len(udChan) < UdChannelSize)
                BY <1>n, <2>4
            <4>2. /\ udFlow' = [udFlow EXCEPT ![f].pc = "refused", ![f].closed = TRUE]
                  /\ udReader' = [udReader EXCEPT !.pc = "delete"] /\ udChan' = udChan
                BY <1>1, <2>f, <4>1 DEF UdQueue
            <4> QED
                BY <1>n, <2>1, <2>x, <4>2
        <3>2. y \in UdFlowState /\ UdSound(y) /\ y.pc = "refused" /\ y.user = x.user
            BY <2>2 DEF UdFlowState, UdSound
        <3>3. /\ udReader' \in UdReaderState /\ udReader'.pc = "delete" /\ udReader'.flow = f
              /\ udReader'.user = x.user
            BY <1>n, <2>1, <2>f, <2>x, <3>1 DEF UdReaderState
        <3>4. /\ UdFlowsSound' /\ udFlow'[f] = y
              /\ \A g \in UdFlows : g # f => udFlow'[g] = udFlow[g]
            BY <1>0, <2>1, <3>1, <3>2, UdOneFlow
        <3> HIDE DEF y
        <3>5. UdFlowRest'
            BY <1>0, <1>s, <2>1, <3>1, <3>3 DEF UdFlowRest
        <3>6. UdNumbered'
            BY <1>0, <2>1, <3>2, <3>4, UdNumberedSame
        <3>7. UdReaderKnows'
            BY <1>s, <2>1, <2>2, <3>2, <3>3, <3>4 DEF UdReaderKnows
        <3>8. UdLinked'
            BY <1>0, <1>s, <2>1, <3>2, <3>4 DEF UdLinked, UdUsable
        <3>9. UdTabled'
            BY <1>0, <1>n, <2>1, <2>2, <2>x, <3>2, <3>3, <3>4 DEF UdTabled
        <3>10. UdWaiting'
            BY <1>0, <1>n, <2>1, <3>1, <3>4 DEF UdWaiting
        <3> QED
            BY <3>4, <3>5, <3>6, <3>7, <3>8, <3>9, <3>10 DEF UdFlowsInv
    <2> QED
        BY <1>1, <2>3, <2>4 DEF UdQueue
<1>2. CASE UdDeleteFlow
    <2>u. PICK u : u = udReader.user
        OBVIOUS
    <2>1. /\ udReader.pc = "delete" /\ u \in UdUsers /\ udReader.flow \in UdFlows
          /\ udTable[u] = udReader.flow /\ udFlow[udReader.flow].pc = "refused"
        BY <1>0, <1>2, <2>u DEF UdDeleteFlow, UdReaderKnows
    <2>2. /\ udTable' = [udTable EXCEPT ![u] = UdNone] /\ udReader' = UdReading
          /\ UNCHANGED <<udFlow, udChan, udLoop, udUp>>
        BY <1>2, <2>u DEF UdDeleteFlow
    <2>3. /\ udTable' \in [UdUsers -> UdFlows \cup {UdNone}] /\ udTable'[u] = UdNone
          /\ \A v \in UdUsers : v # u => udTable'[v] = udTable[v]
        BY <1>n, <2>1, <2>2
    <2>4. udReader' \in UdReaderState /\ udReader'.pc = "read"
        BY <2>2 DEF UdReading, UdReaderState
    <2>5. UdFlowRest' /\ UdFlowsSound' /\ UdNumbered' /\ UdReaderKnows' /\ UdWaiting'
        BY <1>0, <1>s, <2>2, <2>3, <2>4
           DEF UdFlowRest, UdFlowsSound, UdNumbered, UdReaderKnows, UdWaiting, OnceIn
    <2>6. UdLinked'
        <3> SUFFICES ASSUME NEW g \in UdFlows, udFlow[g].pc \in UdUsable
                     PROVE  udTable'[udFlow[g].user] = g
            BY <1>s, <2>2 DEF UdLinked
        <3>1. udTable[udFlow[g].user] = g /\ udFlow[g].user \in UdUsers
            BY <1>0 DEF UdLinked, UdUsable, UdFlowsSound, UdSound
        <3>2. udFlow[g].user # u
            BY <2>1, <3>1 DEF UdUsable
        <3> QED
            BY <2>3, <3>1, <3>2
    <2>7. UdTabled'
        <3> SUFFICES ASSUME NEW v \in UdUsers, udTable'[v] # UdNone
                     PROVE  /\ udFlow[udTable'[v]].user = v
                            /\ udFlow[udTable'[v]].pc \in UdUsable
            BY <2>2 DEF UdTabled
        <3>1. v # u /\ udTable'[v] = udTable[v] /\ udTable[v] # UdNone
            BY <2>3
        <3>2. udTable[v] # udReader.flow
            BY <1>0, <1>n, <2>1, <3>1 DEF UdTabled
        <3> QED
            BY <1>0, <3>1, <3>2 DEF UdTabled
    <2> QED
        BY <2>5, <2>6, <2>7 DEF UdFlowsInv
<1> QED
    BY <1>1, <1>2

(* handleLoop takes a flow from udpChan. *)
LEMMA UdTakeFlows ==
    ASSUME UdCommon, UdFlowsInv, udUp, udLoad' = udLoad, UdTake
    PROVE  UdFlowsInv' /\ udLoop'.tun = udLoop.tun /\ UdCommon'
<1>0. /\ UdFlowRest /\ UdFlowsSound /\ UdNumbered /\ UdReaderKnows /\ UdLinked /\ UdTabled
      /\ UdWaiting
    BY DEF UdFlowsInv
<1>s. UdFlows' = UdFlows /\ UdReaderState' = UdReaderState /\ UdTunnels' = UdTunnels
    BY UdSame
<1>n. /\ UdNone \notin UdFlows /\ UdChannelSize \in Nat
      /\ udFlow \in [UdFlows -> UdFlowState] /\ udChan \in Seq(UdFlows) /\ Len(udChan) \in Nat
      /\ \A i \in 1..Len(udChan) : udChan[i] \in UdFlows
    BY <1>0, UdNumbers DEF UdFlowsSound, UdFlowRest
<1>f. PICK f : f = Head(udChan)
    OBVIOUS
<1>1. /\ udLoop = UdFree /\ udChan # <<>> /\ udChan' = Tail(udChan)
      /\ UNCHANGED <<udTable, udReader, udUp>>
    BY DEF UdTake
<1>2. /\ f \in UdFlows /\ f = udChan[1] /\ 1 \in 1..Len(udChan)
      /\ udChan' \in Seq(UdFlows) /\ Len(udChan') = Len(udChan) - 1
      /\ \A i \in 1..Len(udChan') :
            i + 1 \in 1..Len(udChan) /\ i + 1 # 1 /\ udChan'[i] = udChan[i + 1]
    BY <1>1, <1>f, <1>n, Received
<1>x. PICK x : x = udFlow[f]
    OBVIOUS
<1>3. x \in UdFlowState /\ x.pc = "queued" /\ ~x.closed /\ ~x.up /\ ~x.down /\ x.user \in UdUsers
    BY <1>0, <1>2, <1>n, <1>x DEF UdWaiting, UdFlowsSound, UdSound
<1>p. PICK p \in {"held", "timedout"} :
        /\ udFlow' = [udFlow EXCEPT ![f] = [x EXCEPT !.pc = p]]
        /\ udLoop' = [flow |-> IF p = "held" THEN f ELSE UdNone, tun |-> UdNone]
    <2>1. CASE udFlow' = [udFlow EXCEPT ![Head(udChan)].pc = "timedout"] /\ udLoop' = udLoop
        BY <1>1, <1>2, <1>f, <1>n, <1>x, <2>1 DEF UdFree
    <2>2. CASE /\ udFlow' = [udFlow EXCEPT ![Head(udChan)].pc = "held"]
               /\ udLoop' = [udLoop EXCEPT !.flow = Head(udChan)]
        BY <1>1, <1>2, <1>f, <1>n, <1>x, <2>2 DEF UdFree
    <2> QED
        BY <2>1, <2>2 DEF UdTake
<1> DEFINE y == [x EXCEPT !.pc = p]
<1>4. y \in UdFlowState /\ UdSound(y) /\ y.pc = p /\ y.user = x.user
    BY <1>3 DEF UdFlowState, UdSound
<1>5. UdFlowsSound' /\ UdNumbered' /\ UdReaderKnows' /\ UdLinked' /\ UdTabled'
    BY <1>1, <1>2, <1>3, <1>4, <1>p, <1>x, UdPassed
<1>6. udFlow'[f] = y /\ \A g \in UdFlows : g # f => udFlow'[g] = udFlow[g]
    BY <1>0, <1>2, <1>4, <1>p, UdOneFlow, ZenonT(60)
<1> HIDE DEF y
<1>7. UdFlowRest'
    BY <1>0, <1>1, <1>2, <1>n, <1>s DEF UdFlowRest
<1>8. \A i \in 1..Len(udChan') : udFlow'[udChan'[i]].pc = "queued"
    <2> SUFFICES ASSUME NEW i \in 1..Len(udChan')
                 PROVE  udFlow'[udChan'[i]].pc = "queued"
        OBVIOUS
    <2>1. i + 1 \in 1..Len(udChan) /\ i + 1 # 1 /\ udChan'[i] = udChan[i + 1]
        BY <1>2
    <2>2. udChan[i + 1] # udChan[1] /\ udChan[i + 1] \in UdFlows
          /\ udFlow[udChan[i + 1]].pc = "queued"
        BY <1>0, <1>2, <1>n, <2>1 DEF UdWaiting, OnceIn
    <2> QED
        BY <1>2, <1>6, <2>1, <2>2
<1>9. OnceIn(udChan')
    <2> SUFFICES ASSUME NEW i \in 1..Len(udChan'), NEW j \in 1..Len(udChan'),
                        udChan'[i] = udChan'[j]
                 PROVE  i = j
        BY DEF OnceIn
    <2>1. /\ i + 1 \in 1..Len(udChan) /\ udChan'[i] = udChan[i + 1]
          /\ j + 1 \in 1..Len(udChan) /\ udChan'[j] = udChan[j + 1]
        BY <1>2
    <2>2. i + 1 = j + 1
        BY <1>0, <2>1 DEF UdWaiting, OnceIn
    <2> QED
        BY <2>2
<1>10. udLoop'.flow # UdNone => udFlow'[udLoop'.flow].pc = "held"
    BY <1>4, <1>6, <1>p
<1>11. UdWaiting'
    BY <1>8, <1>9, <1>10 DEF UdWaiting, OnceIn
<1>12. udLoop'.tun = UdNone /\ udLoop.tun = UdNone
    BY <1>1, <1>p DEF UdFree
<1>13. UdCommon'
    BY <1>1, <1>2, <1>12, <1>p, <1>s DEF UdCommon
<1> QED
    BY <1>5, <1>7, <1>11, <1>12, <1>13 DEF UdFlowsInv

(* handleLoop's flow gets a relay; udpLocalCopy and udpTunnelCopy work on  *)
(* it and end.                                                             *)
LEMMA UdRelayFlows ==
    ASSUME UdCommon, UdFlowsInv, udUp, udLoad' = udLoad,
           \/ UdHandoff
           \/ \E f \in UdFlows : UdLocalCopy(f)
           \/ \E t \in UdTunnels : UdTunnelCopy(t) /\ UdTunsSound
    PROVE  UdFlowsInv'
<1>0. /\ UdFlowRest /\ UdFlowsSound /\ UdNumbered /\ UdReaderKnows /\ UdLinked /\ UdTabled
      /\ UdWaiting /\ udFlow \in [UdFlows -> UdFlowState]
    BY DEF UdFlowsInv, UdFlowsSound
<1>s. UdFlows' = UdFlows /\ UdReaderState' = UdReaderState
    BY UdSame
<1>n. UdPayload \in Nat /\ UdNone \notin UdFlows
    BY UdNumbers
<1>1. UNCHANGED <<udTable, udChan, udReader, udUp>>
    BY DEF UdHandoff, UdLocalCopy, UdTunnelCopy
<1>2. CASE UdHandoff
    <2>f. PICK f : f = udLoop.flow
        OBVIOUS
    <2>1. f \in UdFlows /\ udFlow[f].pc = "held"
        BY <1>0, <1>2, <2>f DEF UdHandoff, UdCommon, UdWaiting
    <2>2. CASE udFlow' = udFlow
        <3>1. udLoop'.flow = udLoop.flow \/ udLoop'.flow = UdNone
            BY <1>2 DEF UdHandoff, UdWriteAddress, UdFree, UdCommon
        <3>2. UdWaiting'
            BY <1>0, <1>1, <2>2, <3>1 DEF UdWaiting, OnceIn
        <3>3. /\ UdFlowRest' /\ UdFlowsSound' /\ UdNumbered' /\ UdReaderKnows' /\ UdLinked'
              /\ UdTabled'
            BY <1>0, <1>1, <1>s, <2>2
               DEF UdFlowRest, UdFlowsSound, UdNumbered, UdReaderKnows, UdLinked, UdTabled
        <3> QED
            BY <3>2, <3>3 DEF UdFlowsInv
    <2>3. CASE udFlow' # udFlow
        <3>x. PICK x : x = udFlow[f]
            OBVIOUS
        <3> DEFINE y == [x EXCEPT !.pc = "relay", !.up = TRUE, !.down = TRUE]
        <3>1. udFlow' = [udFlow EXCEPT ![f].pc = "relay", ![f].up = TRUE, ![f].down = TRUE]
              /\ udLoop' = UdFree
            BY <1>2, <2>3, <2>f DEF UdHandoff, UdWriteAddress
        <3>2. udFlow' = [udFlow EXCEPT ![f] = y] /\ udLoop'.flow = UdNone
            BY <1>0, <2>1, <3>1, <3>x DEF UdFree
        <3>3. x \in UdFlowState /\ x.pc = "held" /\ ~x.closed /\ x.user \in UdUsers
            BY <1>0, <2>1, <3>x DEF UdFlowsSound, UdSound
        <3>4. y \in UdFlowState /\ UdSound(y) /\ y.pc = "relay" /\ y.user = x.user
            BY <3>3 DEF UdFlowState, UdSound
        <3>5. UdFlowsSound' /\ UdNumbered' /\ UdReaderKnows' /\ UdLinked' /\ UdTabled'
            BY <1>1, <2>1, <3>2, <3>3, <3>4, <3>x, UdPassed
        <3>6. udFlow'[f] = y /\ \A g \in UdFlows : g # f => udFlow'[g] = udFlow[g]
            BY <1>0, <2>1, <3>2, <3>4, UdOneFlow
        <3>7. UdFlowRest'
            BY <1>0, <1>1, <1>s DEF UdFlowRest
        <3>8. \A i \in 1..Len(udChan) : udChan[i] \in UdFlows /\ udChan[i] # f
            BY <1>0, <2>1 DEF UdFlowRest, UdWaiting
        <3>9. UdWaiting'
            BY <1>0, <1>1, <3>2, <3>6, <3>8 DEF UdWaiting, OnceIn
        <3> QED
            BY <3>5, <3>7, <3>9 DEF UdFlowsInv
    <2> QED
        BY <2>2, <2>3
<1>3. ASSUME NEW f \in UdFlows, UdLocalCopy(f)
      PROVE  UdFlowsInv'
    <2>x. PICK x : x = udFlow[f]
        OBVIOUS
    <2>1. x \in UdFlowState /\ UdSound(x) /\ x.up /\ x.payload \in 0..UdPayload
        BY <1>0, <1>3, <2>x DEF UdFlowsSound, UdLocalCopy, UdFlowState
    <2>2. PICK n \in 0..UdPayload, b \in BOOLEAN :
            udFlow' = [udFlow EXCEPT ![f] = [x EXCEPT !.payload = n, !.up = b]]
        <3>1. ASSUME NEW ok \in BOOLEAN, x.payload > 0,
                     udFlow' = [udFlow EXCEPT ![f].payload = @ - 1, ![f].up = ok]
              PROVE  \E n \in 0..UdPayload, b \in BOOLEAN :
                       udFlow' = [udFlow EXCEPT ![f] = [x EXCEPT !.payload = n, !.up = b]]
            <4>1. udFlow' = [udFlow EXCEPT ![f] = [x EXCEPT !.payload = x.payload - 1, !.up = ok]]
                BY <1>0, <2>x, <3>1
            <4>2. x.payload - 1 \in 0..UdPayload
                BY <1>n, <2>1, <3>1
            <4> QED
                BY <4>1, <4>2
        <3>2. CASE udFlow' = [udFlow EXCEPT ![f].up = FALSE]
            <4>1. udFlow' = [udFlow EXCEPT ![f] = [x EXCEPT !.up = FALSE]]
                BY <1>0, <2>x, <3>2
            <4>2. [x EXCEPT !.up = FALSE] = [x EXCEPT !.payload = x.payload, !.up = FALSE]
                BY <2>1 DEF UdFlowState
            <4> QED
                BY <2>1, <4>1, <4>2
        <3> QED
            BY <1>3, <2>x, <3>1, <3>2 DEF UdLocalCopy
    <2> DEFINE y == [x EXCEPT !.payload = n, !.up = b]
    <2>3. y \in UdFlowState /\ UdSound(y) /\ y.pc = x.pc /\ y.user = x.user
        BY <2>1 DEF UdFlowState, UdSound
    <2>4. udLoop' = udLoop
        BY <1>3 DEF UdLocalCopy
    <2> QED
        BY <1>1, <2>2, <2>3, <2>4, <2>x, UdFlowData
<1>4. ASSUME NEW t \in UdTunnels, UdTunnelCopy(t), UdTunsSound
      PROVE  UdFlowsInv'
    <2>f. PICK f : f = udTun[t].flow
        OBVIOUS
    <2>1. f \in UdFlows /\ udFlow[f].down
        BY <1>4, <2>f DEF UdTunnelCopy, UdTunsSound, UdTunState
    <2>x. PICK x : x = udFlow[f]
        OBVIOUS
    <2>2. x \in UdFlowState /\ UdSound(x) /\ x.down
        BY <1>0, <2>1, <2>x DEF UdFlowsSound
    <2>3. PICK b \in BOOLEAN : udFlow' = [udFlow EXCEPT ![f] = [x EXCEPT !.down = b]]
        <3>1. \E b \in BOOLEAN : udFlow' = [udFlow EXCEPT ![f].down = b]
            BY <1>4, <2>f DEF UdTunnelCopy
        <3> QED
            BY <1>0, <2>1, <2>x, <3>1
    <2> DEFINE y == [x EXCEPT !.down = b]
    <2>4. y \in UdFlowState /\ UdSound(y) /\ y.pc = x.pc /\ y.user = x.user
        BY <2>2 DEF UdFlowState, UdSound
    <2>5. udLoop' = udLoop
        BY <1>4 DEF UdTunnelCopy
    <2> QED
        BY <1>1, <2>1, <2>3, <2>4, <2>5, <2>x, UdFlowData
<1> QED
    BY <1>2, <1>3, <1>4

(* udpCopy's end closes the flow and deletes its own entry; with a delete  *)
(* of the listener at the same time, the process may end instead.          *)
LEMMA UdFinishFlows ==
    ASSUME UdCommon, UdFlowsInv, udUp, udLoad' = udLoad, NEW f \in UdFlows, UdFinishFlow(f)
    PROVE  UdFlowsInv'
<1>0. /\ UdFlowRest /\ UdFlowsSound /\ UdNumbered /\ UdReaderKnows /\ UdLinked /\ UdTabled
      /\ UdWaiting
    BY DEF UdFlowsInv
<1>s. UdFlows' = UdFlows /\ UdReaderState' = UdReaderState
    BY UdSame
<1>x. PICK x : x = udFlow[f]
    OBVIOUS
<1>u. PICK u : u = x.user
    OBVIOUS
<1> DEFINE y == [x EXCEPT !.pc = "ended", !.closed = TRUE, !.payload = 0]
<1>1. /\ x \in UdFlowState /\ UdSound(x) /\ udFlow \in [UdFlows -> UdFlowState]
      /\ udTable \in [UdUsers -> UdFlows \cup {UdNone}] /\ UdNone \notin UdFlows
      /\ 0 \in 0..UdPayload
    BY <1>0, <1>x, UdNumbers DEF UdFlowsSound, UdFlowRest
<1>2. /\ x.pc = "relay" /\ ~x.up /\ ~x.down /\ u \in UdUsers /\ udTable[u] = f
    BY <1>0, <1>1, <1>u, <1>x DEF UdFinishFlow, UdSound, UdLinked, UdUsable
<1>3. udFlow' = [udFlow EXCEPT ![f] = y] /\ UNCHANGED <<udChan, udReader, udLoop>>
    BY <1>1, <1>x DEF UdFinishFlow
<1>4. y \in UdFlowState /\ UdSound(y) /\ y.pc = "ended" /\ y.user = u
    BY <1>1, <1>2, <1>u DEF UdFlowState, UdSound
<1>5. /\ UdFlowsSound' /\ udFlow'[f] = y
      /\ \A g \in UdFlows : g # f => udFlow'[g] = udFlow[g]
    BY <1>0, <1>3, <1>4, UdOneFlow
<1> HIDE DEF y
<1>6. CASE udUp' = FALSE /\ udTable' = udTable
    <2>1. UdFlowRest'
        BY <1>0, <1>3, <1>6, <1>s DEF UdFlowRest
    <2> QED
        BY <1>5, <1>6, <2>1 DEF UdFlowsInv
<1>7. CASE udTable' = [udTable EXCEPT ![u] = UdNone] /\ udUp' = udUp
    <2>1. /\ udTable' \in [UdUsers -> UdFlows \cup {UdNone}] /\ udTable'[u] = UdNone
          /\ \A v \in UdUsers : v # u => udTable'[v] = udTable[v]
        BY <1>1, <1>2, <1>7
    <2>2. UdFlowRest'
        BY <1>0, <1>3, <1>s, <2>1 DEF UdFlowRest
    <2>3. UdNumbered'
        BY <1>0, <1>2, <1>4, <1>5, <1>x, UdNumberedSame
    <2>4. UdReaderKnows'
        <3>1. udReader.pc = "insert" => udTable'[udReader.user] = UdNone
            BY <1>0, <2>1 DEF UdReaderKnows
        <3>2. udReader.pc = "queue" => udReader.flow # f
            BY <1>0, <1>2, <1>x DEF UdReaderKnows
        <3>3. udReader.pc = "delete" => udReader.flow # f /\ udReader.user # u
            BY <1>0, <1>2, <1>x DEF UdReaderKnows
        <3> QED
            BY <1>0, <1>3, <1>5, <1>s, <2>1, <3>1, <3>2, <3>3 DEF UdReaderKnows
    <2>5. UdLinked'
        <3> SUFFICES ASSUME NEW g \in UdFlows, udFlow'[g].pc \in UdUsable
                     PROVE  udTable'[udFlow'[g].user] = g
            BY <1>s DEF UdLinked
        <3>1. g # f /\ udFlow'[g] = udFlow[g]
            BY <1>4, <1>5 DEF UdUsable
        <3>2. udTable[udFlow[g].user] = g /\ udFlow[g].user \in UdUsers
            BY <1>0, <3>1 DEF UdLinked, UdUsable, UdFlowsSound, UdSound
        <3> QED
            BY <1>2, <2>1, <3>1, <3>2
    <2>6. UdTabled'
        <3> SUFFICES ASSUME NEW v \in UdUsers, udTable'[v] # UdNone
                     PROVE  /\ udFlow'[udTable'[v]].user = v
                            /\ \/ udFlow'[udTable'[v]].pc \in UdUsable
                               \/ udReader.pc = "delete" /\ udReader.flow = udTable'[v]
            BY <1>3 DEF UdTabled
        <3>1. v # u /\ udTable'[v] = udTable[v] /\ udTable[v] \in UdFlows
            BY <1>1, <2>1
        <3>2. udFlow[udTable[v]].user = v
              /\ (\/ udFlow[udTable[v]].pc \in UdUsable
                  \/ udReader.pc = "delete" /\ udReader.flow = udTable[v])
            BY <1>0, <1>1, <3>1 DEF UdTabled
        <3>3. udTable[v] # f
            BY <1>u, <1>x, <3>1, <3>2
        <3> QED
            BY <1>5, <3>1, <3>2, <3>3
    <2>7. UdWaiting'
        <3>1. \A i \in 1..Len(udChan) : udChan[i] \in UdFlows
            BY <1>0 DEF UdFlowRest
        <3> QED
            BY <1>0, <1>2, <1>3, <1>5, <1>x, <3>1 DEF UdWaiting, OnceIn, UdCommon
    <2> QED
        BY <1>5, <2>2, <2>3, <2>4, <2>5, <2>6, <2>7 DEF UdFlowsInv
<1> QED
    BY <1>6, <1>7, <1>u, <1>x DEF UdFinishFlow

-----------------------------------------------------------------------------
(* The tunnels of UdpFlows *)

(* One tunnel changes. *)
LEMMA UdOneTun ==
    ASSUME UdTunsSound, udLoad' = udLoad, NEW t \in UdTunnels, NEW y \in UdTunState, UdTunSound(y),
           udTun' = [udTun EXCEPT ![t] = y]
    PROVE  /\ UdTunsSound' /\ udTun'[t] = y
           /\ \A s \in UdTunnels : s # t => udTun'[s] = udTun[s]
<1>1. udTun'[t] = y /\ \A s \in UdTunnels : s # t => udTun'[s] = udTun[s]
    BY DEF UdTunsSound
<1>2. UdTunnels' = UdTunnels /\ UdTunState' = UdTunState
    BY UdSame
<1> QED
    BY <1>1, <1>2 DEF UdTunsSound

(* Tunnels that come neither into use nor out of it keep their numbering. *)
LEMMA UdTunNumberedSame ==
    ASSUME UdTunNumbered, udLoad' = udLoad,
           \A s \in UdTunnels : udTun'[s].pc # "unused" <=> udTun[s].pc # "unused"
    PROVE  UdTunNumbered'
BY UdSame DEF UdTunNumbered

(* A tunnel stays where it is: a datagram, a ping, the keeper's start or   *)
(* end, or the delete of the tunnel that was refused.                      *)
LEMMA UdTunData ==
    ASSUME UdCommon, UdTunnelsInv, NEW t \in UdTunnels, NEW x, x = udTun[t], NEW y \in UdTunState,
           udTun' = [udTun EXCEPT ![t] = y], UdTunSound(y), y.pc = x.pc, y.listed => x.listed,
           UNCHANGED <<udLoad, udIdle>>, udLoop'.tun = udLoop.tun,
           \/ udAccept' = udAccept
           \/ udAccept.pc = "keep" /\ udAccept' = UdAccepting
           \/ udAccept.tun = t /\ ~y.listed /\ udAccept' = UdAccepting
    PROVE  UdTunnelsInv'
<1>0. UdTunRest /\ UdTunsSound /\ UdTunNumbered /\ UdAcceptKnows /\ UdListed /\ UdIdling
    BY DEF UdTunnelsInv
<1>s. UdTunnels' = UdTunnels /\ UdAcceptState' = UdAcceptState
    BY UdSame
<1>1. /\ UdTunsSound' /\ udTun'[t] = y
      /\ \A s \in UdTunnels : s # t => udTun'[s] = udTun[s]
    BY <1>0, UdOneTun
<1>2. \A s \in UdTunnels : udTun'[s].pc = udTun[s].pc /\ (udTun'[s].listed => udTun[s].listed)
    BY <1>1
<1>3. UdTunRest'
    BY <1>0, <1>s DEF UdTunRest, UdAccepting, UdAcceptState
<1>4. UdTunNumbered'
    BY <1>0, <1>2, UdTunNumberedSame
<1>5. UdAcceptKnows'
    <2>1. CASE udAccept' = UdAccepting
        BY <2>1 DEF UdAcceptKnows, UdAccepting
    <2>2. CASE udAccept' = udAccept
        BY <1>0, <1>2, <1>s, <2>2 DEF UdAcceptKnows
    <2> QED
        BY <2>1, <2>2
<1>6. UdListed'
    <2> SUFFICES ASSUME NEW s \in UdTunnels, udTun'[s].listed, udTun'[s].pc = "refused"
                 PROVE  udAccept'.pc = "delete" /\ udAccept'.tun = s
        BY <1>s DEF UdListed
    <2>1. udAccept.pc = "delete" /\ udAccept.tun = s
        BY <1>0, <1>2 DEF UdListed
    <2>2. udAccept' = udAccept
        BY <1>1, <2>1
    <2> QED
        BY <2>1, <2>2
<1>7. UdIdling'
    <2>1. \A i \in 1..Len(udIdle) : udIdle[i] \in UdTunnels
        BY <1>0 DEF UdTunRest
    <2>2. udLoop.tun # UdNone => udLoop.tun \in UdTunnels
        BY DEF UdCommon
    <2> QED
        BY <1>0, <1>2, <2>1, <2>2 DEF UdIdling, OnceIn
<1> QED
    BY <1>1, <1>3, <1>4, <1>5, <1>6, <1>7 DEF UdTunnelsInv

(* Datagrams of tunnels, keepAlive and its start, the delete of a refused  *)
(* tunnel.  A ping is written under the lock, before any address.          *)
LEMMA UdKeeperSteps ==
    ASSUME UdCommon, UdTunnelsInv, udLoad' = udLoad,
           \/ UdStartKeeper \/ UdDeleteTunnel
           \/ \E t \in UdTunnels : \/ UdTunnelData(t) \/ UdTick(t) \/ UdPing(t) \/ UdKeeperEnds(t)
                                   \/ UdTunnelCopy(t)
    PROVE  UdTunnelsInv'
<1>0. /\ UdTunRest /\ UdTunsSound /\ UdTunNumbered /\ UdAcceptKnows /\ UdListed /\ UdIdling
      /\ udTun \in [UdTunnels -> UdTunState]
    BY DEF UdTunnelsInv, UdTunsSound
<1>n. UdPayload \in Nat
    BY UdNumbers
<1>1. UNCHANGED <<udIdle, udLoop>>
    BY DEF UdStartKeeper, UdDeleteTunnel, UdTunnelData, UdTick, UdPing, UdKeeperEnds, UdTunnelCopy
<1>2. ASSUME NEW t \in UdTunnels, NEW x, x = udTun[t], NEW y \in UdTunState,
             udTun' = [udTun EXCEPT ![t] = y], UdTunSound(y), y.pc = x.pc, y.listed => x.listed,
             \/ udAccept' = udAccept
             \/ udAccept.pc = "keep" /\ udAccept' = UdAccepting
             \/ udAccept.tun = t /\ ~y.listed /\ udAccept' = UdAccepting
      PROVE  UdTunnelsInv'
    BY <1>1, <1>2, UdTunData
<1>3. CASE UdStartKeeper
    <2>t. PICK t : t = udAccept.tun
        OBVIOUS
    <2>1. t \in UdTunnels /\ udAccept.pc = "keep" /\ udAccept' = UdAccepting
        BY <1>0, <1>3, <2>t DEF UdStartKeeper, UdAcceptKnows
    <2>x. PICK x : x = udTun[t]
        OBVIOUS
    <2> DEFINE y == [x EXCEPT !.keeper = "wait"]
    <2>2. udTun' = [udTun EXCEPT ![t] = y] /\ x \in UdTunState /\ UdTunSound(x)
        BY <1>0, <1>3, <2>1, <2>t, <2>x DEF UdStartKeeper, UdTunsSound
    <2>3. y \in UdTunState /\ UdTunSound(y) /\ y.pc = x.pc /\ y.listed = x.listed
        BY <2>2 DEF UdTunState, UdTunSound
    <2> QED
        BY <1>2, <2>1, <2>2, <2>3, <2>x
<1>4. CASE UdDeleteTunnel
    <2>t. PICK t : t = udAccept.tun
        OBVIOUS
    <2>1. t \in UdTunnels /\ udAccept.pc = "delete" /\ udAccept' = UdAccepting
        BY <1>0, <1>4, <2>t DEF UdDeleteTunnel, UdAcceptKnows
    <2>x. PICK x : x = udTun[t]
        OBVIOUS
    <2> DEFINE y == [x EXCEPT !.listed = FALSE]
    <2>2. udTun' = [udTun EXCEPT ![t] = y] /\ x \in UdTunState /\ UdTunSound(x)
        BY <1>0, <1>4, <2>1, <2>t, <2>x DEF UdDeleteTunnel, UdTunsSound
    <2>3. y \in UdTunState /\ UdTunSound(y) /\ y.pc = x.pc /\ ~y.listed
        BY <2>2 DEF UdTunState, UdTunSound
    <2> QED
        BY <1>2, <2>1, <2>2, <2>3, <2>t, <2>x
<1>5. ASSUME NEW t \in UdTunnels,
             UdTunnelData(t) \/ UdTick(t) \/ UdPing(t) \/ UdKeeperEnds(t) \/ UdTunnelCopy(t)
      PROVE  UdTunnelsInv'
    <2>x. PICK x : x = udTun[t]
        OBVIOUS
    <2>1. x \in UdTunState /\ UdTunSound(x) /\ x.payload \in 0..UdPayload
        BY <1>0, <2>x DEF UdTunsSound, UdTunState
    <2>2. udAccept' = udAccept
        BY <1>5 DEF UdTunnelData, UdTick, UdPing, UdKeeperEnds, UdTunnelCopy
    <2>3. ASSUME NEW y \in UdTunState, udTun' = [udTun EXCEPT ![t] = y], UdTunSound(y),
                 y.pc = x.pc, y.listed = x.listed
          PROVE  UdTunnelsInv'
        BY <1>2, <2>2, <2>3, <2>x
    <2>4. ASSUME NEW n \in 0..UdPayload, udTun' = [udTun EXCEPT ![t] = [x EXCEPT !.payload = n]]
          PROVE  UdTunnelsInv'
        <3> DEFINE y == [x EXCEPT !.payload = n]
        <3>1. y \in UdTunState /\ UdTunSound(y) /\ y.pc = x.pc /\ y.listed = x.listed
            BY <2>1 DEF UdTunState, UdTunSound
        <3> QED
            BY <2>3, <2>4, <3>1
    <2>5. CASE UdTunnelData(t)
        <3>1. UdPush(x.payload) \in 0..UdPayload
            BY <1>n, <2>1 DEF UdPush
        <3>2. udTun' = [udTun EXCEPT ![t] = [x EXCEPT !.payload = UdPush(x.payload)]]
            BY <1>0, <2>5, <2>x DEF UdTunnelData
        <3> QED
            BY <2>4, <3>1, <3>2
    <2>6. CASE UdTick(t)
        <3>1. CASE x.lock = "free"
            <4> DEFINE y == [x EXCEPT !.keeper = "write", !.lock = "ping"]
            <4>1. udTun' = [udTun EXCEPT ![t] = y]
                BY <1>0, <2>6, <2>x, <3>1 DEF UdTick
            <4>2. y \in UdTunState /\ UdTunSound(y) /\ y.pc = x.pc /\ y.listed = x.listed
                BY <2>1, <3>1 DEF UdTunState, UdTunSound
            <4> QED
                BY <2>3, <4>1, <4>2
        <3>2. CASE x.lock # "free"
            <4> DEFINE y == [x EXCEPT !.keeper = "off", !.lock = x.lock]
            <4>1. udTun' = [udTun EXCEPT ![t] = y]
                BY <1>0, <2>6, <2>x, <3>2 DEF UdTick
            <4>2. y \in UdTunState /\ UdTunSound(y) /\ y.pc = x.pc /\ y.listed = x.listed
                BY <2>1 DEF UdTunState, UdTunSound
            <4> QED
                BY <2>3, <4>1, <4>2
        <3> QED
            BY <3>1, <3>2
    <2>7. CASE UdPing(t)
        <3>1. x.keeper = "write" /\ x.lock = "ping" /\ x.got = "none"
            BY <2>1, <2>7, <2>x DEF UdPing, UdTunSound, UdTunState
        <3>2. PICK k \in {"wait", "off"} :
                udTun' = [udTun EXCEPT ![t] = [x EXCEPT !.keeper = k, !.lock = "free"]]
            <4>1. CASE udTun' = [udTun EXCEPT ![t].keeper = "wait", ![t].lock = "free",
                                   ![t].got = IF @ = "none" THEN @ ELSE "late"]
                <5>1. udTun' = [udTun EXCEPT ![t] = [x EXCEPT !.keeper = "wait", !.lock = "free",
                                                              !.got = x.got]]
                    BY <1>0, <2>x, <3>1, <4>1
                <5>2. [x EXCEPT !.keeper = "wait", !.lock = "free", !.got = x.got]
                        = [x EXCEPT !.keeper = "wait", !.lock = "free"]
                    BY <2>1 DEF UdTunState
                <5> QED
                    BY <5>1, <5>2
            <4>2. CASE udTun' = [udTun EXCEPT ![t].keeper = "off", ![t].lock = "free"]
                BY <1>0, <2>x, <4>2
            <4> QED
                BY <2>7, <4>1, <4>2 DEF UdPing
        <3> DEFINE y == [x EXCEPT !.keeper = k, !.lock = "free"]
        <3>3. y \in UdTunState /\ UdTunSound(y) /\ y.pc = x.pc /\ y.listed = x.listed
            BY <2>1, <3>1 DEF UdTunState, UdTunSound
        <3> QED
            BY <2>3, <3>2, <3>3
    <2>8. CASE UdKeeperEnds(t)
        <3> DEFINE y == [x EXCEPT !.keeper = "off"]
        <3>1. udTun' = [udTun EXCEPT ![t] = y]
            BY <1>0, <2>8, <2>x DEF UdKeeperEnds
        <3>2. y \in UdTunState /\ UdTunSound(y) /\ y.pc = x.pc /\ y.listed = x.listed
            BY <2>1 DEF UdTunState, UdTunSound
        <3> QED
            BY <2>3, <3>1, <3>2
    <2>9. CASE UdTunnelCopy(t)
        <3>1. CASE x.payload > 0
            <4>1. udTun' = [udTun EXCEPT ![t] = [x EXCEPT !.payload = x.payload - 1]]
                BY <1>0, <1>n, <2>1, <2>9, <2>x, <3>1 DEF UdTunnelCopy
            <4>2. x.payload - 1 \in 0..UdPayload
                BY <1>n, <2>1, <3>1
            <4> QED
                BY <2>4, <4>1, <4>2
        <3>2. CASE x.payload = 0
            <4>1. udTun' = udTun
                BY <2>9, <2>x, <3>2 DEF UdTunnelCopy
            <4> QED
                BY <1>1, <2>2, <4>1, UdTunnelsStay
        <3> QED
            BY <1>n, <2>1, <3>1, <3>2
    <2> QED
        BY <1>5, <2>5, <2>6, <2>7, <2>8, <2>9
<1> QED
    BY <1>3, <1>4, <1>5

(* acceptTunnelConn lists a tunnel. *)
LEMMA UdAcceptInv ==
    ASSUME UdCommon, UdTunnelsInv, udLoad' = udLoad, UdAcceptTunnel
    PROVE  UdTunnelsInv'
<1>0. UdTunRest /\ UdTunsSound /\ UdTunNumbered /\ UdAcceptKnows /\ UdListed /\ UdIdling
    BY DEF UdTunnelsInv
<1>s. UdTunnels' = UdTunnels /\ UdAcceptState' = UdAcceptState
    BY UdSame
<1>n. udLoad[2] \in Nat /\ UdNone \notin UdTunnels
    BY UdNumbers
<1>t. PICK t : t = UdMade(udTun) + 1
    OBVIOUS
<1>1. PICK n \in 0..udLoad[2] : \A s \in UdTunnels : udTun[s].pc # "unused" <=> s <= n
    BY <1>0 DEF UdTunNumbered
<1>2. UdMade(udTun) = n
    <2> DEFINE U == {s \in UdTunnels : udTun[s].pc # "unused"}
    <2>1. U \in SUBSET (1..udLoad[2]) /\ DOMAIN udTun = UdTunnels
        BY <1>0 DEF UdTunnels, UdTunsSound
    <2>2. \A s \in 1..udLoad[2] : s \in U <=> s <= n
        BY <1>1 DEF UdTunnels
    <2>3. UdMade(udTun) = Cardinality(U)
        BY <2>1 DEF UdMade
    <2> HIDE DEF U
    <2> QED
        BY <1>n, <2>1, <2>2, <2>3, NextNumber
<1>3. /\ t \in UdTunnels /\ udTun[t].pc = "unused" /\ t = n + 1 /\ n + 1 \in 0..udLoad[2]
      /\ udAccept.pc = "read"
    BY <1>1, <1>2, <1>n, <1>t DEF UdAcceptTunnel, UdTunnels
<1>x. PICK x : x = udTun[t]
    OBVIOUS
<1> DEFINE y == [x EXCEPT !.pc = "new", !.listed = TRUE]
<1>4. x \in UdTunState /\ UdTunSound(x) /\ udTun \in [UdTunnels -> UdTunState]
    BY <1>0, <1>3, <1>x DEF UdTunsSound
<1>5. /\ udTun' = [udTun EXCEPT ![t] = y] /\ udAccept' = [pc |-> "queue", tun |-> t]
      /\ UNCHANGED <<udIdle, udLoop>>
    BY <1>3, <1>4, <1>t, <1>x DEF UdAcceptTunnel
<1>6. y \in UdTunState /\ UdTunSound(y) /\ y.pc = "new"
    BY <1>3, <1>4, <1>x DEF UdTunState, UdTunSound
<1>7. /\ UdTunsSound' /\ udTun'[t] = y
      /\ \A s \in UdTunnels : s # t => udTun'[s] = udTun[s]
    BY <1>0, <1>3, <1>5, <1>6, UdOneTun
<1> HIDE DEF y
<1>8. UdTunRest'
    BY <1>0, <1>3, <1>5, <1>s DEF UdTunRest, UdAcceptState
<1>9. UdTunNumbered'
    <2>1. \A s \in UdTunnels : udTun'[s].pc # "unused" <=> s <= n + 1
        BY <1>1, <1>3, <1>6, <1>7, <1>n DEF UdTunnels
    <2> QED
        BY <1>3, <1>s, <2>1 DEF UdTunNumbered
<1>10. UdAcceptKnows'
    BY <1>3, <1>5, <1>6, <1>7, <1>s DEF UdAcceptKnows
<1>11. UdListed'
    BY <1>0, <1>3, <1>6, <1>7, <1>s DEF UdListed
<1>12. UdIdling'
    <2>1. \A i \in 1..Len(udIdle) : udIdle[i] \in UdTunnels
        BY <1>0 DEF UdTunRest
    <2>2. udLoop.tun # UdNone => udLoop.tun \in UdTunnels
        BY DEF UdCommon
    <2> QED
        BY <1>0, <1>3, <1>5, <1>7, <2>1, <2>2 DEF UdIdling, OnceIn
<1> QED
    BY <1>7, <1>8, <1>9, <1>10, <1>11, <1>12 DEF UdTunnelsInv

(* It queues the tunnel, or closes it and goes on to delete it. *)
LEMMA UdQueueTunInv ==
    ASSUME UdCommon, UdTunnelsInv, udLoad' = udLoad, UdQueueTunnel
    PROVE  UdTunnelsInv'
<1>0. UdTunRest /\ UdTunsSound /\ UdTunNumbered /\ UdAcceptKnows /\ UdListed /\ UdIdling
    BY DEF UdTunnelsInv
<1>s. UdTunnels' = UdTunnels /\ UdAcceptState' = UdAcceptState
    BY UdSame
<1>n. /\ UdNone \notin UdTunnels /\ UdChannelSize \in Nat /\ udTun \in [UdTunnels -> UdTunState]
      /\ udIdle \in Seq(UdTunnels) /\ Len(udIdle) \in Nat /\ Len(udIdle) <= UdChannelSize
      /\ \A i \in 1..Len(udIdle) : udIdle[i] \in UdTunnels
      /\ udLoop.tun # UdNone => udLoop.tun \in UdTunnels
    BY <1>0, UdNumbers DEF UdTunRest, UdTunsSound, UdCommon
<1>t. PICK t : t = udAccept.tun
    OBVIOUS
<1>x. PICK x : x = udTun[t]
    OBVIOUS
<1>1. /\ udAccept.pc = "queue" /\ t \in UdTunnels /\ x.pc = "new" /\ udLoop' = udLoop
      /\ x \in UdTunState /\ UdTunSound(x) /\ udAccept \in UdAcceptState
    BY <1>0, <1>n, <1>t, <1>x DEF UdQueueTunnel, UdAcceptKnows, UdTunsSound, UdTunRest
<1>2. \A i \in 1..Len(udIdle) : udIdle[i] # t
    BY <1>0, <1>1, <1>x DEF UdIdling
<1>3. CASE Len(udIdle) < UdChannelSize
    <2> DEFINE y == [x EXCEPT !.pc = "idle"]
    <2>1. /\ udIdle' = Append(udIdle, t) /\ udTun' = [udTun EXCEPT ![t] = y]
          /\ udAccept' = [udAccept EXCEPT !.pc = "keep"]
        <3>1. Len(udIdle) # UdChannelSize
            BY <1>3, <1>n
        <3>2. /\ udIdle' = Append(udIdle, t) /\ udTun' = [udTun EXCEPT ![t].pc = "idle"]
              /\ udAccept' = [udAccept EXCEPT !.pc = "keep"]
            BY <1>t, <3>1 DEF UdQueueTunnel
        <3> QED
            BY <1>1, <1>n, <1>x, <3>2
    <2>2. y \in UdTunState /\ UdTunSound(y) /\ y.pc = "idle"
        BY <1>1 DEF UdTunState, UdTunSound
    <2>3. /\ UdTunsSound' /\ udTun'[t] = y
          /\ \A s \in UdTunnels : s # t => udTun'[s] = udTun[s]
        BY <1>0, <1>1, <2>1, <2>2, UdOneTun
    <2> HIDE DEF y
    <2>4. udAccept' \in UdAcceptState /\ udAccept'.pc = "keep" /\ udAccept'.tun = t
        BY <1>1, <1>t, <2>1 DEF UdAcceptState
    <2>5. /\ udIdle' \in Seq(UdTunnels) /\ Len(udIdle') = Len(udIdle) + 1
          /\ \A i \in 1..Len(udIdle') : IF i = Len(udIdle) + 1 THEN udIdle'[i] = t
                                        ELSE i \in 1..Len(udIdle) /\ udIdle'[i] = udIdle[i]
        BY <1>1, <1>n, <2>1, Sent
    <2>6. UdTunRest'
        BY <1>3, <1>n, <1>s, <2>4, <2>5 DEF UdTunRest
    <2>7. UdTunNumbered'
        BY <1>0, <1>1, <1>x, <2>2, <2>3, UdTunNumberedSame
    <2>8. UdAcceptKnows'
        BY <1>1, <1>s, <2>4 DEF UdAcceptKnows
    <2>9. UdListed'
        BY <1>0, <1>1, <1>s, <2>2, <2>3 DEF UdListed
    <2>10. OnceIn(udIdle')
        BY <1>0, <1>2, <2>5 DEF UdIdling, OnceIn
    <2>11. \A i \in 1..Len(udIdle') : udTun'[udIdle'[i]].pc = "idle"
        BY <1>0, <1>2, <1>n, <2>2, <2>3, <2>5 DEF UdIdling
    <2>12. udLoop'.tun # UdNone => udTun'[udLoop'.tun].pc = "taken"
        BY <1>0, <1>1, <1>n, <1>x, <2>3 DEF UdIdling
    <2>13. UdIdling'
        BY <2>10, <2>11, <2>12 DEF UdIdling, OnceIn
    <2> QED
        BY <2>3, <2>6, <2>7, <2>8, <2>9, <2>13 DEF UdTunnelsInv
<1>4. CASE Len(udIdle) = UdChannelSize
    <2> DEFINE y == [x EXCEPT !.pc = "refused", !.closed = TRUE]
    <2>1. /\ udIdle' = udIdle /\ udTun' = [udTun EXCEPT ![t] = y]
          /\ udAccept' = [udAccept EXCEPT !.pc = "delete"]
        <3>1. ~(Len(udIdle) < UdChannelSize)
            BY <1>4, <1>n
        <3>2. /\ udIdle' = udIdle /\ udAccept' = [udAccept EXCEPT !.pc = "delete"]
              /\ udTun' = [udTun EXCEPT ![t].pc = "refused", ![t].closed = TRUE]
            BY <1>t, <3>1 DEF UdQueueTunnel
        <3> QED
            BY <1>1, <1>n, <1>x, <3>2
    <2>2. y \in UdTunState /\ UdTunSound(y) /\ y.pc = "refused"
        BY <1>1 DEF UdTunState, UdTunSound
    <2>3. /\ UdTunsSound' /\ udTun'[t] = y
          /\ \A s \in UdTunnels : s # t => udTun'[s] = udTun[s]
        BY <1>0, <1>1, <2>1, <2>2, UdOneTun
    <2> HIDE DEF y
    <2>4. udAccept' \in UdAcceptState /\ udAccept'.pc = "delete" /\ udAccept'.tun = t
        BY <1>1, <1>t, <2>1 DEF UdAcceptState
    <2>5. UdTunRest'
        BY <1>0, <1>s, <2>1, <2>4 DEF UdTunRest
    <2>6. UdTunNumbered'
        BY <1>0, <1>1, <1>x, <2>2, <2>3, UdTunNumberedSame
    <2>7. UdAcceptKnows'
        BY <1>1, <1>s, <2>4 DEF UdAcceptKnows
    <2>8. UdListed'
        BY <1>0, <1>1, <1>s, <2>3, <2>4 DEF UdListed
    <2>9. UdIdling'
        BY <1>0, <1>1, <1>2, <1>n, <1>x, <2>1, <2>3 DEF UdIdling, OnceIn
    <2> QED
        BY <2>3, <2>5, <2>6, <2>7, <2>8, <2>9 DEF UdTunnelsInv
<1> QED
    BY <1>3, <1>4 DEF UdQueueTunnel

(* handleLoop takes a tunnel from tunnelChannel. *)
LEMMA UdTakeTunInv ==
    ASSUME UdCommon, UdTunnelsInv, udLoad' = udLoad, UdTakeTunnel
    PROVE  UdTunnelsInv' /\ UdCommon' /\ udLoop'.flow = udLoop.flow
<1>0. UdTunRest /\ UdTunsSound /\ UdTunNumbered /\ UdAcceptKnows /\ UdListed /\ UdIdling
    BY DEF UdTunnelsInv
<1>s. UdTunnels' = UdTunnels /\ UdAcceptState' = UdAcceptState /\ UdFlows' = UdFlows
    BY UdSame
<1>n. /\ UdNone \notin UdTunnels /\ UdChannelSize \in Nat /\ udTun \in [UdTunnels -> UdTunState]
      /\ udIdle \in Seq(UdTunnels) /\ Len(udIdle) \in Nat /\ Len(udIdle) <= UdChannelSize
      /\ \A i \in 1..Len(udIdle) : udIdle[i] \in UdTunnels
      /\ udLoop \in [flow : UdFlows \cup {UdNone}, tun : UdTunnels \cup {UdNone}]
    BY <1>0, UdNumbers DEF UdTunRest, UdTunsSound, UdCommon
<1>t. PICK t : t = Head(udIdle)
    OBVIOUS
<1>1. /\ udIdle # <<>> /\ udIdle' = Tail(udIdle) /\ udLoop' = [udLoop EXCEPT !.tun = t]
      /\ udLoop.flow # UdNone /\ UNCHANGED <<udAccept, udUp>>
    BY <1>t DEF UdTakeTunnel
<1>2. /\ t \in UdTunnels /\ t = udIdle[1] /\ 1 \in 1..Len(udIdle)
      /\ udIdle' \in Seq(UdTunnels) /\ Len(udIdle') = Len(udIdle) - 1
      /\ \A i \in 1..Len(udIdle') :
            i + 1 \in 1..Len(udIdle) /\ i + 1 # 1 /\ udIdle'[i] = udIdle[i + 1]
    BY <1>1, <1>n, <1>t, Received
<1>x. PICK x : x = udTun[t]
    OBVIOUS
<1> DEFINE y == [x EXCEPT !.pc = "taken", !.ping = FALSE]
<1>3. x \in UdTunState /\ UdTunSound(x) /\ x.pc = "idle"
    BY <1>0, <1>2, <1>n, <1>x DEF UdIdling, UdTunsSound
<1>4. udTun' = [udTun EXCEPT ![t] = y]
    <2>1. udTun' = [udTun EXCEPT ![t].pc = "taken", ![t].ping = FALSE]
        BY <1>t DEF UdTakeTunnel
    <2> QED
        BY <1>2, <1>n, <1>x, <2>1
<1>5. y \in UdTunState /\ UdTunSound(y) /\ y.pc = "taken"
    BY <1>3 DEF UdTunState, UdTunSound
<1>6. /\ UdTunsSound' /\ udTun'[t] = y
      /\ \A s \in UdTunnels : s # t => udTun'[s] = udTun[s]
    BY <1>0, <1>2, <1>4, <1>5, UdOneTun
<1> HIDE DEF y
<1>7. /\ udLoop' \in [flow : UdFlows \cup {UdNone}, tun : UdTunnels \cup {UdNone}]
      /\ udLoop'.tun = t /\ udLoop'.flow = udLoop.flow
    BY <1>1, <1>2, <1>n
<1>8. UdCommon'
    BY <1>1, <1>7, <1>s DEF UdCommon
<1>9. UdTunRest'
    BY <1>0, <1>1, <1>2, <1>n, <1>s DEF UdTunRest
<1>10. UdTunNumbered'
    BY <1>0, <1>3, <1>5, <1>6, <1>x, UdTunNumberedSame
<1>11. UdAcceptKnows' /\ UdListed'
    BY <1>0, <1>1, <1>3, <1>5, <1>6, <1>s, <1>x DEF UdAcceptKnows, UdListed
<1>12. \A i \in 1..Len(udIdle') : udTun'[udIdle'[i]].pc = "idle"
    <2> SUFFICES ASSUME NEW i \in 1..Len(udIdle')
                 PROVE  udTun'[udIdle'[i]].pc = "idle"
        OBVIOUS
    <2>1. i + 1 \in 1..Len(udIdle) /\ i + 1 # 1 /\ udIdle'[i] = udIdle[i + 1]
        BY <1>2
    <2>2. udIdle[i + 1] # udIdle[1] /\ udIdle[i + 1] \in UdTunnels
          /\ udTun[udIdle[i + 1]].pc = "idle"
        BY <1>0, <1>2, <1>n, <2>1 DEF UdIdling, OnceIn
    <2> QED
        BY <1>2, <1>6, <2>1, <2>2
<1>13. OnceIn(udIdle')
    <2> SUFFICES ASSUME NEW i \in 1..Len(udIdle'), NEW j \in 1..Len(udIdle'),
                        udIdle'[i] = udIdle'[j]
                 PROVE  i = j
        BY DEF OnceIn
    <2>1. /\ i + 1 \in 1..Len(udIdle) /\ udIdle'[i] = udIdle[i + 1]
          /\ j + 1 \in 1..Len(udIdle) /\ udIdle'[j] = udIdle[j + 1]
        BY <1>2
    <2>2. i + 1 = j + 1
        BY <1>0, <2>1 DEF UdIdling, OnceIn
    <2> QED
        BY <2>2
<1>14. UdIdling'
    BY <1>5, <1>6, <1>7, <1>12, <1>13 DEF UdIdling, OnceIn
<1> QED
    BY <1>6, <1>7, <1>8, <1>9, <1>10, <1>11, <1>14 DEF UdTunnelsInv

(* handleLoop writes the address to its tunnel, under the lock it keeps. *)
LEMMA UdHandoffInv ==
    ASSUME UdCommon, UdTunnelsInv, udLoad' = udLoad, UdHandoff
    PROVE  UdTunnelsInv' /\ UdCommon'
<1>0. UdTunRest /\ UdTunsSound /\ UdTunNumbered /\ UdAcceptKnows /\ UdListed /\ UdIdling
    BY DEF UdTunnelsInv
<1>s. UdTunnels' = UdTunnels /\ UdAcceptState' = UdAcceptState /\ UdFlows' = UdFlows
    BY UdSame
<1>n. /\ UdNone \notin UdTunnels /\ udTun \in [UdTunnels -> UdTunState]
      /\ \A i \in 1..Len(udIdle) : udIdle[i] \in UdTunnels
      /\ udLoop \in [flow : UdFlows \cup {UdNone}, tun : UdTunnels \cup {UdNone}]
    BY <1>0, UdNumbers DEF UdTunRest, UdTunsSound, UdCommon
<1>t. PICK t : t = udLoop.tun
    OBVIOUS
<1>f. PICK f : f = udLoop.flow
    OBVIOUS
<1>x. PICK x : x = udTun[t]
    OBVIOUS
<1>1. /\ t \in UdTunnels /\ x.pc = "taken" /\ x.lock = "free" /\ x \in UdTunState /\ UdTunSound(x)
      /\ f \in UdFlows \cup {UdNone} /\ UNCHANGED <<udIdle, udAccept, udUp>>
    BY <1>0, <1>f, <1>n, <1>t, <1>x DEF UdHandoff, UdIdling, UdTunsSound
<1>2. PICK y \in UdTunState :
        udTun' = [udTun EXCEPT ![t] = y] /\ UdTunSound(y) /\ y.pc \in {"relay", "broken"}
    <2>1. CASE udTun' = [udTun EXCEPT ![t].pc = "relay", ![t].lock = "loop",
                           ![t].got = "address", ![t].flow = f]
        <3> DEFINE y == [x EXCEPT !.pc = "relay", !.lock = "loop", !.got = "address", !.flow = f]
        <3>1. udTun' = [udTun EXCEPT ![t] = y]
            BY <1>1, <1>n, <1>x, <2>1
        <3>2. y \in UdTunState /\ UdTunSound(y) /\ y.pc = "relay"
            BY <1>1 DEF UdTunState, UdTunSound
        <3> QED
            BY <3>1, <3>2
    <2>2. CASE udTun' = [udTun EXCEPT ![t].pc = "broken", ![t].lock = "loop"]
        <3> DEFINE y == [x EXCEPT !.pc = "broken", !.lock = "loop"]
        <3>1. udTun' = [udTun EXCEPT ![t] = y]
            BY <1>1, <1>n, <1>x, <2>2
        <3>2. y \in UdTunState /\ UdTunSound(y) /\ y.pc = "broken"
            BY <1>1 DEF UdTunState, UdTunSound
        <3> QED
            BY <3>1, <3>2
    <2> QED
        BY <1>f, <1>t, <2>1, <2>2 DEF UdHandoff, UdWriteAddress
<1>3. /\ UdTunsSound' /\ udTun'[t] = y
      /\ \A s \in UdTunnels : s # t => udTun'[s] = udTun[s]
    BY <1>0, <1>1, <1>2, UdOneTun
<1>4. /\ udLoop' \in [flow : UdFlows \cup {UdNone}, tun : UdTunnels \cup {UdNone}]
      /\ udLoop'.tun = UdNone
    BY <1>n DEF UdHandoff, UdWriteAddress, UdFree
<1>5. UdCommon'
    BY <1>1, <1>4, <1>s DEF UdCommon
<1>6. UdTunRest'
    BY <1>0, <1>1, <1>s DEF UdTunRest
<1>7. UdTunNumbered'
    BY <1>0, <1>1, <1>2, <1>3, <1>x, UdTunNumberedSame
<1>8. UdAcceptKnows' /\ UdListed'
    BY <1>0, <1>1, <1>2, <1>3, <1>s, <1>x DEF UdAcceptKnows, UdListed
<1>9. UdIdling'
    BY <1>0, <1>1, <1>3, <1>4, <1>n, <1>x DEF UdIdling, OnceIn
<1> QED
    BY <1>3, <1>5, <1>6, <1>7, <1>8, <1>9 DEF UdTunnelsInv

(* udpCopy's end deletes the tunnel, or the process ends. *)
LEMMA UdFinishTunInv ==
    ASSUME UdCommon, UdTunnelsInv, udLoad' = udLoad, NEW t \in UdTunnels, UdFinishTunnel(t)
    PROVE  UdTunnelsInv'
<1>0. UdTunRest /\ UdTunsSound /\ UdTunNumbered /\ UdAcceptKnows /\ UdListed /\ UdIdling
    BY DEF UdTunnelsInv
<1>1. CASE udTun' = udTun
    BY <1>1, UdTunnelsStay DEF UdFinishTunnel
<1>2. CASE udTun' # udTun
    <2>s. UdTunnels' = UdTunnels /\ UdAcceptState' = UdAcceptState
        BY UdSame
    <2>n. /\ UdNone \notin UdTunnels /\ udTun \in [UdTunnels -> UdTunState] /\ 0 \in 0..UdPayload
          /\ \A i \in 1..Len(udIdle) : udIdle[i] \in UdTunnels
          /\ udLoop.tun # UdNone => udLoop.tun \in UdTunnels
        BY <1>0, UdNumbers DEF UdTunRest, UdTunsSound, UdCommon
    <2>x. PICK x : x = udTun[t]
        OBVIOUS
    <2> DEFINE y == [x EXCEPT !.pc = "ended", !.closed = TRUE, !.payload = 0, !.listed = FALSE]
    <2>1. /\ x.pc = "relay" /\ x \in UdTunState /\ UdTunSound(x)
          /\ UNCHANGED <<udIdle, udAccept, udLoop>>
        BY <1>0, <2>n, <2>x DEF UdFinishTunnel, UdTunsSound
    <2>2. udTun' = [udTun EXCEPT ![t] = y]
        <3>1. udTun' = [udTun EXCEPT ![t].pc = "ended", ![t].closed = TRUE, ![t].payload = 0,
                          ![t].listed = FALSE]
            BY <1>2 DEF UdFinishTunnel
        <3> QED
            BY <2>n, <2>x, <3>1
    <2>3. y \in UdTunState /\ UdTunSound(y) /\ y.pc = "ended"
        BY <2>1, <2>n DEF UdTunState, UdTunSound
    <2>4. /\ UdTunsSound' /\ udTun'[t] = y
          /\ \A s \in UdTunnels : s # t => udTun'[s] = udTun[s]
        BY <1>0, <2>2, <2>3, UdOneTun
    <2> HIDE DEF y
    <2>5. UdTunRest'
        BY <1>0, <2>1, <2>s DEF UdTunRest
    <2>6. UdTunNumbered'
        BY <1>0, <2>1, <2>3, <2>4, <2>x, UdTunNumberedSame
    <2>7. UdAcceptKnows' /\ UdListed'
        BY <1>0, <2>1, <2>3, <2>4, <2>s, <2>x DEF UdAcceptKnows, UdListed
    <2>8. UdIdling'
        BY <1>0, <2>1, <2>4, <2>n, <2>x DEF UdIdling, OnceIn
    <2> QED
        BY <2>4, <2>5, <2>6, <2>7, <2>8 DEF UdTunnelsInv
<1> QED
    BY <1>1, <1>2

-----------------------------------------------------------------------------
(* The invariant of the udp transport *)

(* The server starts with empty tables and channels. *)
LEMMA UdInitInv == UdInit => UdInv
<1> SUFFICES ASSUME UdInit
             PROVE  UdInv
    OBVIOUS
<1>1. UdCommon
    BY DEF UdInit, UdFree, UdCommon
<1>n. /\ udLoad[1] \in Nat /\ udLoad[2] \in Nat /\ UdChannelSize \in Nat /\ 0 \in 0..UdPayload
      /\ 0 \in 0..udLoad[1] /\ 0 \in 0..udLoad[2] /\ 0 <= UdChannelSize
    BY <1>1, UdNumbers
<1>c. /\ udChan \in Seq(UdFlows) /\ Len(udChan) = 0 /\ udIdle \in Seq(UdTunnels)
      /\ Len(udIdle) = 0 /\ udLoop.flow = UdNone /\ udLoop.tun = UdNone
    BY DEF UdInit, UdFree
<1>2. UdNewFlow \in UdFlowState /\ UdSound(UdNewFlow) /\ UdNewFlow.pc = "unused"
    BY <1>n DEF UdNewFlow, UdFlowState, UdSound
<1>3. UdNewTun \in UdTunState /\ UdTunSound(UdNewTun) /\ UdNewTun.pc = "unused"
    BY <1>n DEF UdNewTun, UdTunState, UdTunSound
<1>4. UdFlowsSound /\ \A f \in UdFlows : udFlow[f].pc = "unused"
    BY <1>2 DEF UdInit, UdFlowsSound
<1>5. UdTunsSound /\ \A t \in UdTunnels : udTun[t].pc = "unused"
    BY <1>3 DEF UdInit, UdTunsSound
<1>6. UdFlowRest
    BY <1>c, <1>n DEF UdInit, UdFlowRest, UdReading, UdReaderState
<1>7. UdTunRest
    BY <1>c, <1>n DEF UdInit, UdTunRest, UdAccepting, UdAcceptState
<1>8. UdNumbered /\ UdTunNumbered
    <2>1. /\ \A f \in UdFlows : udFlow[f].pc # "unused" <=> f <= 0
          /\ \A t \in UdTunnels : udTun[t].pc # "unused" <=> t <= 0
        BY <1>4, <1>5, <1>n DEF UdFlows, UdTunnels
    <2> QED
        BY <1>n, <2>1 DEF UdNumbered, UdTunNumbered
<1>9. UdReaderKnows /\ UdAcceptKnows
    BY DEF UdInit, UdReading, UdAccepting, UdReaderKnows, UdAcceptKnows
<1>10. UdLinked /\ UdTabled /\ UdListed
    BY <1>4, <1>5 DEF UdInit, UdLinked, UdTabled, UdListed, UdUsable
<1>11. UdWaiting /\ UdIdling
    BY <1>c DEF UdWaiting, UdIdling, OnceIn
<1> QED
    BY <1>1, <1>4, <1>5, <1>6, <1>7, <1>8, <1>9, <1>10, <1>11 DEF UdInv, UdFlowsInv, UdTunnelsInv

(* Every step keeps the invariant: most touch one half of it. *)
LEMMA UdStepInv == UdInv /\ [UdNext]_udVars => UdInv'
<1> SUFFICES ASSUME UdInv, [UdNext]_udVars
             PROVE  UdInv'
    OBVIOUS
<1>0. UdCommon /\ UdFlowsInv /\ UdTunnelsInv
    BY DEF UdInv
<1>1. CASE UNCHANGED udVars
    <2>1. UNCHANGED <<udLoad, udTable, udFlow, udChan, udReader, udTun, udIdle, udAccept, udLoop, udUp>>
        BY <1>1 DEF udVars
    <2>2. UdFlowsInv' /\ UdTunnelsInv'
        BY <1>0, <2>1, UdFlowsStay, UdTunnelsStay
    <2>3. UdCommon'
        BY <1>0, <2>1, UdSame DEF UdCommon
    <2> QED
        BY <2>2, <2>3 DEF UdInv
<1>2. CASE UdNext
    <2>0. udUp /\ udLoad' = udLoad /\ UdFlows' = UdFlows /\ UdTunnels' = UdTunnels
        BY <1>2, UdSame DEF UdNext
    <2>1. ASSUME udLoop' = udLoop, udUp' \in BOOLEAN
          PROVE  UdCommon'
        BY <1>0, <2>0, <2>1 DEF UdCommon
    <2>u. udUp \in BOOLEAN
        BY <1>0 DEF UdCommon
    <2>2. CASE UdListenerStep
        <3>1. UNCHANGED <<udTun, udIdle, udAccept, udLoop, udUp>>
            BY <2>2 DEF UdListenerStep, UdReceive, UdInsert, UdQueue, UdFirst, UdDeleteFlow
        <3>2. UdFlowsInv'
            BY <1>0, <2>0, <2>2, UdReceiveSteps, UdInsertInv, UdQueueSteps DEF UdListenerStep
        <3>3. UdTunnelsInv'
            BY <1>0, <2>0, <3>1, UdTunnelsStay
        <3> QED
            BY <2>1, <2>u, <3>1, <3>2, <3>3 DEF UdInv
    <2>3. CASE UdAcceptStep
        <3>1. UNCHANGED <<udTable, udFlow, udChan, udReader, udLoop, udUp>>
            BY <2>3 DEF UdAcceptStep, UdTunnelData, UdAcceptTunnel, UdQueueTunnel, UdStartKeeper,
                        UdDeleteTunnel
        <3>2. UdTunnelsInv'
            BY <1>0, <2>0, <2>3, UdKeeperSteps, UdAcceptInv, UdQueueTunInv DEF UdAcceptStep
        <3>3. UdFlowsInv'
            BY <1>0, <2>0, <3>1, UdFlowsStay
        <3> QED
            BY <2>1, <2>u, <3>1, <3>2, <3>3 DEF UdInv
    <2>4. CASE UdTake
        <3>1. UNCHANGED <<udTun, udIdle, udAccept>>
            BY <2>4 DEF UdTake
        <3>2. UdFlowsInv' /\ udLoop'.tun = udLoop.tun /\ UdCommon'
            BY <1>0, <2>0, <2>4, UdTakeFlows
        <3> QED
            BY <1>0, <2>0, <3>1, <3>2, UdTunnelsStay DEF UdInv
    <2>5. CASE UdTakeTunnel
        <3>1. UNCHANGED <<udTable, udFlow, udChan, udReader, udUp>>
            BY <2>5 DEF UdTakeTunnel
        <3>2. UdTunnelsInv' /\ UdCommon' /\ udLoop'.flow = udLoop.flow
            BY <1>0, <2>0, <2>5, UdTakeTunInv
        <3> QED
            BY <1>0, <2>0, <3>1, <3>2, UdFlowsStay DEF UdInv
    <2>6. CASE UdHandoff
        BY <1>0, <2>0, <2>6, UdRelayFlows, UdHandoffInv DEF UdInv
    <2>7. ASSUME NEW t \in UdTunnels, UdTunnelStep(t)
          PROVE  UdInv'
        <3>1. CASE UdTick(t) \/ UdPing(t) \/ UdKeeperEnds(t)
            <4>1. UNCHANGED <<udTable, udFlow, udChan, udReader, udLoop, udUp>>
                BY <3>1 DEF UdTick, UdPing, UdKeeperEnds
            <4>2. UdTunnelsInv'
                BY <1>0, <2>0, <3>1, UdKeeperSteps
            <4>3. UdFlowsInv'
                BY <1>0, <2>0, <4>1, UdFlowsStay
            <4> QED
                BY <2>1, <2>u, <4>1, <4>2, <4>3 DEF UdInv
        <3>2. CASE UdTunnelCopy(t)
            <4>1. UNCHANGED <<udLoop, udUp>> /\ UdTunsSound
                BY <1>0, <3>2 DEF UdTunnelCopy, UdTunnelsInv
            <4>2. UdTunnelsInv'
                BY <1>0, <2>0, <3>2, UdKeeperSteps
            <4>3. UdFlowsInv'
                BY <1>0, <2>0, <3>2, <4>1, UdRelayFlows
            <4> QED
                BY <2>1, <2>u, <4>1, <4>2, <4>3 DEF UdInv
        <3>3. CASE UdFinishTunnel(t)
            <4>1. UNCHANGED <<udTable, udFlow, udChan, udReader, udLoop>> /\ udUp' \in BOOLEAN
                BY <2>u, <3>3 DEF UdFinishTunnel
            <4>2. UdTunnelsInv'
                BY <1>0, <2>0, <3>3, UdFinishTunInv
            <4>3. UdFlowsInv'
                BY <1>0, <2>0, <4>1, UdFlowsStay
            <4> QED
                BY <2>1, <4>1, <4>2, <4>3 DEF UdInv
        <3> QED
            BY <2>7, <3>1, <3>2, <3>3 DEF UdTunnelStep
    <2>8. ASSUME NEW f \in UdFlows, UdLocalCopy(f) \/ UdFinishFlow(f)
          PROVE  UdInv'
        <3>1. UNCHANGED <<udTun, udIdle, udAccept, udLoop>> /\ udUp' \in BOOLEAN
            BY <2>8, <2>u DEF UdLocalCopy, UdFinishFlow
        <3>2. UdFlowsInv'
            BY <1>0, <2>0, <2>8, UdRelayFlows, UdFinishFlows
        <3>3. UdTunnelsInv'
            BY <1>0, <2>0, <3>1, UdTunnelsStay
        <3> QED
            BY <2>1, <3>1, <3>2, <3>3 DEF UdInv
    <2> QED
        BY <1>2, <2>2, <2>3, <2>4, <2>5, <2>6, <2>7, <2>8 DEF UdNext
<1> QED
    BY <1>1, <1>2

(* The udp server keeps UdInv, for any users, flows and tunnels and any    *)
(* capacity of the channels.                                               *)
THEOREM UdInvAlways == UdSpec => []UdInv
<1> QED
    BY UdInitInv, UdStepInv, PTL DEF UdSpec

(* The variables of the udp transport hold what the code's types allow and *)
(* no channel holds more than its capacity.                                *)
THEOREM UdTypeCorrect == UdSpec => []UdTypeOK
<1>1. UdInv => UdTypeOK
    BY DEF UdInv, UdCommon, UdFlowsInv, UdFlowRest, UdFlowsSound, UdFlowState, UdReaderState,
           UdTunnelsInv, UdTunRest, UdTunsSound, UdTunState, UdAcceptState, UdTypeOK
<1> QED
    BY <1>1, UdInvAlways, PTL

(* The sends of localListener and acceptTunnelConn to payload channels     *)
(* that udpCopy and the refusals close: never to a closed one.             *)
THEOREM UdEntriesOpenAlways == UdSpec => []UdEntriesOpen
<1>1. UdInv => UdEntriesOpen
    <2> SUFFICES ASSUME UdInv, udUp
                 PROVE  UdEntriesOpen
        BY DEF UdEntriesOpen
    <2>1. ASSUME udReader.pc = "read", NEW u \in UdUsers, udTable[u] # UdNone
          PROVE  ~udFlow[udTable[u]].closed
        <3>1. udTable[u] \in UdFlows /\ udFlow[udTable[u]].pc \in UdUsable
            BY <2>1 DEF UdInv, UdFlowsInv, UdFlowRest, UdTabled
        <3> QED
            BY <3>1 DEF UdInv, UdFlowsInv, UdFlowsSound, UdSound, UdUsable
    <2>2. ASSUME udAccept.pc = "read", NEW t \in UdTunnels, udTun[t].listed
          PROVE  ~udTun[t].closed
        BY <2>2 DEF UdInv, UdTunnelsInv, UdTunsSound, UdTunSound, UdListed
    <2> QED
        BY <2>1, <2>2 DEF UdEntriesOpen
<1> QED
    BY <1>1, UdInvAlways, PTL

(* Both activeConnections tables of the udp server: what is listed is      *)
(* served, but for the two exceptions the property names.                  *)
THEOREM UdEntriesServedAlways == UdSpec => []UdEntriesServed
<1>1. UdInv => UdEntriesServed
    <2> SUFFICES ASSUME UdInv, udUp
                 PROVE  UdEntriesServed
        BY DEF UdEntriesServed
    <2>1. ASSUME NEW u \in UdUsers, udTable[u] # UdNone
          PROVE  \/ udFlow[udTable[u]].pc \in {"new", "queued", "held", "relay", "timedout"}
                 \/ udReader.pc = "delete" /\ udReader.flow = udTable[u]
        BY <2>1 DEF UdInv, UdFlowsInv, UdTabled, UdUsable
    <2>2. ASSUME NEW f \in UdFlows, udFlow[f].up \/ udFlow[f].down
          PROVE  udTable[udFlow[f].user] = f
        BY <2>2 DEF UdInv, UdFlowsInv, UdFlowsSound, UdSound, UdLinked, UdUsable
    <2>3. ASSUME NEW t \in UdTunnels, udTun[t].listed
          PROVE  \/ udTun[t].pc \in {"new", "idle", "taken", "relay", "broken"}
                 \/ udAccept.pc = "delete" /\ udAccept.tun = t
        BY <2>3 DEF UdInv, UdTunnelsInv, UdTunsSound, UdTunState, UdTunSound, UdListed
    <2> QED
        BY <2>1, <2>2, <2>3 DEF UdEntriesServed
<1> QED
    BY <1>1, UdInvAlways, PTL

(* keepAlive's TryLock and handleLoop's Lock: no ping after the address on *)
(* any tunnel.                                                             *)
THEOREM UdAddressLastAlways == UdSpec => []UdAddressLast
<1>1. UdInv => UdAddressLast
    BY DEF UdInv, UdTunnelsInv, UdTunsSound, UdTunSound, UdAddressLast
<1> QED
    BY <1>1, UdInvAlways, PTL

-----------------------------------------------------------------------------
(* UsageStore: the invariant *)

UsFinite == \A p \in UsPorts : IsFiniteSet(UsUnits(usMem, p))

(* Only a file that was written whole shows any usage. *)
UsBlank == usFile.state # "ok" => usFile.usage = UsZero

(* A saver from its start to the moment it takes what is in memory. *)
UsCleaning == {"remove", "create", "fill"}
UsReading == UsCleaning \cup {"read", "collect"}

(* What the file shows, what a saver has read and what it is about to      *)
(* write are each, together with what is in memory, no more than was added. *)
UsSaverBounded(s, p) ==
    /\ usSaver[s].pc \in UsReading =>
         usSaver[s].seen[p] + UsInMemory(usMem, p) <= usAdded[p]
    /\ usSaver[s].pc \in {"truncate", "write"} =>
         usSaver[s].seen[p] + usSaver[s].took[p] + UsInMemory(usMem, p) <= usAdded[p]
UsBounded ==
    \A p \in UsPorts :
        /\ usFile.usage[p] + UsInMemory(usMem, p) <= usAdded[p]
        /\ \A s \in UsSavers : UsSaverBounded(s, p)

(* As long as nothing excuses a loss no file is cleaned up, there is one   *)
(* saver at most, what it read is still what the file shows, and it holds  *)
(* what the file and the memory do not.                                    *)
UsExactly ==
    /\ usFile.state # "partial" /\ \A s \in UsSavers : usSaver[s].pc \notin UsCleaning
    /\ \A r, s \in UsSavers : UsBusy(r) /\ UsBusy(s) => r = s
    /\ \A s \in UsSavers : usSaver[s].pc \in {"collect", "truncate"} =>
         usSaver[s].seen = usFile.usage
    /\ \A s \in UsSavers : usSaver[s].pc \in {"truncate", "write"} =>
         \A p \in UsPorts :
           usAdded[p] = UsInMemory(usMem, p) + usSaver[s].seen[p] + usSaver[s].took[p]
    /\ (\A s \in UsSavers : usSaver[s].pc \notin {"truncate", "write"}) =>
         \A p \in UsPorts : usAdded[p] = UsInMemory(usMem, p) + usFile.usage[p]

UsInv == UsTypeOK /\ UsFinite /\ UsBlank /\ UsBounded /\ (~usExcused => UsExactly)

-----------------------------------------------------------------------------
(* UsageStore: counting the units in memory *)

(* The memory after AddOrUpdatePort, and after collectUsageDataFromSyncMap. *)
UsOne(q, p) == IF q = p THEN 1 ELSE 0
UsAddedTo(mem, new, i, p) == new = [mem EXCEPT ![i][p] = @ + 1]
UsTakenFrom(mem, new, i) == new = [mem EXCEPT ![i] = UsZero]

(* The units 1 to n of a Usage value are n. *)
LEMMA UsColumn ==
    ASSUME NEW i, NEW n \in Nat
    PROVE  /\ IsFiniteSet({<<i, k>> : k \in 1..n})
           /\ Cardinality({<<i, k>> : k \in 1..n}) = n
<1> DEFINE S == {<<i, k>> : k \in 1..n}
           f == [k \in 1..n |-> <<i, k>>]
<1>0. /\ f \in [1..n -> S]
      /\ \A a, b \in 1..n : f[a] = f[b] => a = b
      /\ \A t \in S : \E a \in 1..n : f[a] = t
    OBVIOUS
<1> HIDE DEF f, S
<1>1. f \in Bijection(1..n, S)
    BY <1>0 DEF Bijection, Injection, Surjection, IsInjective
<1>2. ExistsBijection(1..n, S)
    BY <1>1 DEF ExistsBijection
<1> QED
    BY <1>2, FS_NatBijection, FS_CountingElements DEF S

(* Memory without a unit. *)
LEMMA UsNoUnits ==
    ASSUME NEW p \in UsPorts, NEW mem, mem = [i \in 1..UsInstances |-> UsZero]
    PROVE  IsFiniteSet(UsUnits(mem, p)) /\ UsInMemory(mem, p) = 0
<1>1. \A i \in 1..UsInstances : {<<i, k>> : k \in 1..mem[i][p]} = {}
    BY DEF UsZero
<1>2. UsUnits(mem, p) = {}
    BY <1>1 DEF UsUnits
<1> QED
    BY <1>2, FS_EmptySet DEF UsInMemory

(* AddOrUpdatePort puts one unit more in memory, of its port. *)
LEMMA UsOneMore ==
    ASSUME NEW mem \in [1..UsInstances -> UsUsage], NEW i \in 1..UsInstances, NEW p \in UsPorts,
           NEW q \in UsPorts, IsFiniteSet(UsUnits(mem, q)),
           NEW new, UsAddedTo(mem, new, i, p)
    PROVE  /\ IsFiniteSet(UsUnits(new, q))
           /\ UsInMemory(new, q) = UsInMemory(mem, q) + UsOne(q, p)
<1>0. UsInMemory(mem, q) \in Nat
    BY FS_CardinalityType DEF UsInMemory
<1>1. \A j \in 1..UsInstances : mem[j][q] \in Nat
                                /\ new[j][q] = IF j = i /\ q = p THEN mem[j][q] + 1 ELSE mem[j][q]
    BY DEF UsUsage, UsAddedTo
<1>2. CASE q = p
    <2>1. 1..new[i][q] = (1..mem[i][q]) \cup {mem[i][q] + 1}
        BY <1>1, <1>2
    <2>2. \A j \in 1..UsInstances : {<<j, k>> : k \in 1..new[j][q]}
            = IF j = i THEN {<<j, k>> : k \in 1..mem[j][q]} \cup {<<i, mem[i][q] + 1>>}
              ELSE {<<j, k>> : k \in 1..mem[j][q]}
        BY <1>1, <2>1
    <2>3. UsUnits(new, q) = UsUnits(mem, q) \cup {<<i, mem[i][q] + 1>>}
        BY <2>2 DEF UsUnits
    <2>4. <<i, mem[i][q] + 1>> \notin UsUnits(mem, q)
        BY <1>1 DEF UsUnits
    <2>5. IsFiniteSet(UsUnits(new, q)) /\ UsInMemory(new, q) = UsInMemory(mem, q) + 1
        BY <2>3, <2>4, FS_AddElement DEF UsInMemory
    <2> QED
        BY <2>5, <1>2 DEF UsOne
<1>3. CASE q # p
    <2>1. \A j \in 1..UsInstances : new[j][q] = mem[j][q]
        BY <1>1, <1>3
    <2>2. UsUnits(new, q) = UsUnits(mem, q)
        BY <2>1 DEF UsUnits
    <2> QED
        BY <2>2, <1>0, <1>3 DEF UsInMemory, UsOne
<1> QED
    BY <1>2, <1>3

(* collectUsageDataFromSyncMap takes from memory exactly what it returns. *)
LEMMA UsEmptied ==
    ASSUME NEW mem \in [1..UsInstances -> UsUsage], NEW i \in 1..UsInstances,
           NEW q \in UsPorts, IsFiniteSet(UsUnits(mem, q)),
           NEW new, UsTakenFrom(mem, new, i)
    PROVE  /\ IsFiniteSet(UsUnits(new, q))
           /\ UsInMemory(new, q) \in Nat
           /\ UsInMemory(mem, q) = UsInMemory(new, q) + mem[i][q]
<1> DEFINE C == {<<i, k>> : k \in 1..mem[i][q]}
<1>1. \A j \in 1..UsInstances : mem[j][q] \in Nat
                                /\ new[j][q] = IF j = i THEN 0 ELSE mem[j][q]
    BY DEF UsUsage, UsZero, UsTakenFrom
<1>2. \A j \in 1..UsInstances : {<<j, k>> : k \in 1..new[j][q]}
        = IF j = i THEN {} ELSE {<<j, k>> : k \in 1..mem[j][q]}
    BY <1>1
<1>3. UsUnits(mem, q) = UsUnits(new, q) \cup C
    BY <1>2 DEF UsUnits
<1>4. UsUnits(new, q) \cap C = {}
    BY <1>2 DEF UsUnits
<1>5. IsFiniteSet(C) /\ Cardinality(C) = mem[i][q]
    <2>1. mem[i][q] \in Nat
        BY <1>1
    <2> QED
        BY <2>1, UsColumn
<1>6. IsFiniteSet(UsUnits(new, q)) /\ Cardinality(UsUnits(new, q)) \in Nat
    BY <1>3, FS_Subset, FS_CardinalityType
<1>7. Cardinality(UsUnits(mem, q)) = Cardinality(UsUnits(new, q)) + mem[i][q]
    <2> HIDE DEF C
    <2>1. Cardinality(UsUnits(mem, q))
            = Cardinality(UsUnits(new, q)) + Cardinality(C) - Cardinality({})
        BY <1>3, <1>4, <1>5, <1>6, FS_Union
    <2> QED
        BY <2>1, <1>1, <1>5, <1>6, FS_EmptySet
<1> QED
    BY <1>6, <1>7 DEF UsInMemory

-----------------------------------------------------------------------------
(* UsageStore: the steps *)

UsPcs == {"off", "read", "remove", "create", "fill", "collect", "truncate", "write"}
UsSaverState == [pc : UsPcs, from : 1..UsInstances, seen : UsUsage, took : UsUsage]

(* What is in memory is a number. *)
LEMMA UsMemoryNat ==
    ASSUME UsFinite, NEW p \in UsPorts
    PROVE  UsInMemory(usMem, p) \in Nat
BY FS_CardinalityType DEF UsFinite, UsInMemory

(* All usage is in numbers. *)
LEMMA UsNumbers ==
    ASSUME UsTypeOK, NEW p \in UsPorts
    PROVE  /\ usFile.usage[p] \in Nat /\ usAdded[p] \in Nat
           /\ \A s \in UsSavers : usSaver[s].seen[p] \in Nat /\ usSaver[s].took[p] \in Nat
<1>1. /\ usFile.usage \in UsUsage /\ usAdded \in UsUsage
      /\ \A s \in UsSavers : usSaver[s].seen \in UsUsage /\ usSaver[s].took \in UsUsage
    BY DEF UsTypeOK
<1> QED
    BY <1>1 DEF UsUsage

(* UsZero is a usage, and UsOff the state of a saver. *)
LEMMA UsConstants ==
    /\ UsZero \in UsUsage /\ \A p \in UsPorts : UsZero[p] = 0
    /\ UsOff \in UsSaverState
<1>1. UsZero \in UsUsage /\ \A p \in UsPorts : UsZero[p] = 0
    BY DEF UsZero, UsUsage
<1>2. 1 \in 1..UsInstances
    BY UsageStoreAssumption
<1> QED
    BY <1>1, <1>2 DEF UsOff, UsSaverState, UsPcs

(* The invariant holds at the start. *)
LEMMA UsInitInv == UsInit => UsInv
<1> SUFFICES ASSUME UsInit PROVE UsInv
    OBVIOUS
<1>1. /\ usFile.state = "missing" /\ usFile.usage = UsZero
      /\ usFile \in [state : {"missing", "empty", "ok", "partial"}, usage : UsUsage]
    BY UsConstants DEF UsFileOf, UsInit
<1>2. usMem \in [1..UsInstances -> UsUsage] /\ usSaver \in [UsSavers -> UsSaverState]
    BY UsConstants DEF UsInit
<1>3. 1 \in 1..UsInstances
    BY UsageStoreAssumption
<1>4. UsTypeOK
    BY <1>1, <1>2, <1>3, UsConstants DEF UsTypeOK, UsSaverState, UsPcs, UsInit
<1>5. UsFinite /\ \A p \in UsPorts : UsInMemory(usMem, p) = 0
    BY UsNoUnits DEF UsFinite, UsInit
<1>6. \A s \in UsSavers : usSaver[s].pc = "off"
    BY DEF UsOff, UsInit
<1>7. \A p \in UsPorts : usFile.usage[p] = 0 /\ usAdded[p] = 0
    BY <1>1, UsConstants DEF UsInit
<1>8. UsBlank /\ UsBounded
    BY <1>1, <1>5, <1>6, <1>7 DEF UsBlank, UsBounded, UsSaverBounded, UsReading, UsCleaning
<1>9. UsExactly
    BY <1>1, <1>5, <1>6, <1>7 DEF UsExactly, UsBusy, UsCleaning
<1> QED
    BY <1>4, <1>5, <1>8, <1>9 DEF UsInv

(* AddOrUpdatePort. *)
LEMMA UsAddInv ==
    ASSUME UsInv, NEW i \in 1..UsInstances, NEW p \in UsPorts, UsAdd(i, p)
    PROVE  UsInv'
<1>0. /\ usMem' = [usMem EXCEPT ![i][p] = @ + 1] /\ usAdded' = [usAdded EXCEPT ![p] = @ + 1]
      /\ UNCHANGED <<usSide, usCurrent, usSaver, usFile, usPanel, usExcused>>
    BY DEF UsAdd
<1>1. UsTypeOK /\ UsFinite /\ UsBlank /\ UsBounded
    BY DEF UsInv
<1>2. /\ usMem \in [1..UsInstances -> UsUsage]
      /\ usMem' \in [1..UsInstances -> UsUsage]
      /\ usAdded \in UsUsage /\ usAdded' \in UsUsage
      /\ \A q \in UsPorts : usAdded'[q] = usAdded[q] + UsOne(q, p)
    <2>1. usMem \in [1..UsInstances -> UsUsage] /\ usAdded \in UsUsage
        BY <1>1 DEF UsTypeOK
    <2>2. usMem' \in [1..UsInstances -> UsUsage]
        BY <2>1, <1>0 DEF UsUsage
    <2>3. usAdded' \in UsUsage /\ \A q \in UsPorts : usAdded'[q] = usAdded[q] + UsOne(q, p)
        BY <2>1, <1>0 DEF UsUsage, UsOne
    <2> QED
        BY <2>1, <2>2, <2>3
<1>3. \A q \in UsPorts : /\ IsFiniteSet(UsUnits(usMem', q))
                         /\ UsInMemory(usMem', q) = UsInMemory(usMem, q) + UsOne(q, p)
                         /\ UsInMemory(usMem, q) \in Nat /\ usAdded[q] \in Nat
                         /\ UsOne(q, p) \in Nat
    <2> TAKE q \in UsPorts
    <2>1. IsFiniteSet(UsUnits(usMem, q)) /\ UsInMemory(usMem, q) \in Nat
        BY <1>1, UsMemoryNat DEF UsFinite
    <2>2. /\ IsFiniteSet(UsUnits(usMem', q))
          /\ UsInMemory(usMem', q) = UsInMemory(usMem, q) + UsOne(q, p)
        <3>1. UsAddedTo(usMem, usMem', i, p)
            BY <1>0 DEF UsAddedTo
        <3> QED
            BY <2>1, <3>1, <1>2, UsOneMore
    <2> QED
        BY <2>1, <2>2, <1>2 DEF UsUsage, UsOne
<1>4. UNCHANGED <<usSide, usCurrent, usSaver, usFile, usPanel, usExcused>>
    BY <1>0
<1>5. UsTypeOK'
    BY <1>1, <1>2, <1>4 DEF UsTypeOK
<1>6. UsFinite' /\ UsBlank'
    BY <1>1, <1>3, <1>4 DEF UsFinite, UsBlank
<1>7. UsBounded'
    <2> SUFFICES ASSUME NEW q \in UsPorts
                 PROVE  /\ usFile.usage[q] + UsInMemory(usMem', q) <= usAdded'[q]
                        /\ \A s \in UsSavers : UsSaverBounded(s, q)'
        BY <1>4 DEF UsBounded
    <2>1. \A n \in Nat : n + UsInMemory(usMem, q) <= usAdded[q]
            => n + UsInMemory(usMem', q) <= usAdded'[q]
        BY <1>2, <1>3
    <2>2. \A n, k \in Nat : n + k + UsInMemory(usMem, q) <= usAdded[q]
            => n + k + UsInMemory(usMem', q) <= usAdded'[q]
        BY <1>2, <1>3
    <2>3. /\ usFile.usage[q] + UsInMemory(usMem, q) <= usAdded[q]
          /\ \A s \in UsSavers : UsSaverBounded(s, q)
        BY <1>1 DEF UsBounded
    <2> QED
        BY <1>1, <1>4, <2>1, <2>2, <2>3, UsNumbers DEF UsSaverBounded, UsReading, UsCleaning
<1>8. ASSUME UsExactly PROVE UsExactly'
    <2>1. \A q \in UsPorts : \A n \in Nat :
            usAdded[q] = UsInMemory(usMem, q) + n => usAdded'[q] = UsInMemory(usMem', q) + n
        BY <1>2, <1>3
    <2>2. \A q \in UsPorts : \A n, k \in Nat :
            usAdded[q] = UsInMemory(usMem, q) + n + k => usAdded'[q] = UsInMemory(usMem', q) + n + k
        BY <1>2, <1>3
    <2> QED
        BY <1>1, <1>8, <1>4, <2>1, <2>2, UsNumbers DEF UsExactly, UsBusy, UsReading, UsCleaning
<1> QED
    BY <1>5, <1>6, <1>7, <1>8, <1>4 DEF UsInv

(* A saver starts. *)
LEMMA UsTickInv ==
    ASSUME UsInv, NEW s \in UsSavers, NEW i \in 1..UsInstances, UsTick(s, i)
    PROVE  UsInv'
<1> USE DEF UsTick
<1> DEFINE y == [UsOff EXCEPT !.pc = "read", !.from = i]
<1>1. UsTypeOK /\ UsFinite /\ UsBlank /\ UsBounded
    BY DEF UsInv
<1>2. y \in UsSaverState /\ y.pc = "read" /\ y.seen = UsZero
    BY UsConstants DEF UsOff, UsSaverState, UsPcs
<1>3. usSaver' = [usSaver EXCEPT ![s] = y] /\ usSaver \in [UsSavers -> UsSaverState]
    BY <1>1 DEF UsTypeOK, UsSaverState, UsPcs
<1> HIDE DEF y
<1>4. /\ usSaver' \in [UsSavers -> UsSaverState]
      /\ usSaver'[s].pc = "read" /\ usSaver'[s].seen = UsZero
      /\ \A r \in UsSavers : r # s => usSaver'[r] = usSaver[r]
    BY <1>2, <1>3
<1>5. UsTypeOK'
    BY <1>1, <1>4 DEF UsTypeOK, UsSaverState, UsPcs
<1>6. UsFinite' /\ UsBlank'
    BY <1>1 DEF UsFinite, UsBlank
<1>7. UsBounded'
    <2> SUFFICES ASSUME NEW q \in UsPorts
                 PROVE  /\ usFile.usage[q] + UsInMemory(usMem, q) <= usAdded[q]
                        /\ \A r \in UsSavers : UsSaverBounded(r, q)'
        BY DEF UsBounded
    <2>1. /\ usFile.usage[q] + UsInMemory(usMem, q) <= usAdded[q]
          /\ UsInMemory(usMem, q) \in Nat /\ usFile.usage[q] \in Nat /\ usAdded[q] \in Nat
          /\ UsZero[q] = 0
        BY <1>1, UsNumbers, UsMemoryNat, UsConstants DEF UsBounded
    <2>2. UsSaverBounded(s, q)'
        BY <1>4, <2>1 DEF UsSaverBounded
    <2>3. \A r \in UsSavers : r # s => UsSaverBounded(r, q)'
        BY <1>1, <1>4 DEF UsBounded, UsSaverBounded
    <2> QED
        BY <2>1, <2>2, <2>3
<1>8. ~usExcused' => ~usExcused /\ \A r \in UsSavers : usSaver[r].pc = "off"
    BY DEF UsBusy
<1>9. ~usExcused' => UsExactly'
    BY <1>4, <1>8 DEF UsExactly, UsBusy, UsInv, UsReading, UsCleaning
<1> QED
    BY <1>5, <1>6, <1>7, <1>9 DEF UsInv

(* A saver has read the file. *)
LEMMA UsReadInv ==
    ASSUME UsInv, NEW s \in UsSavers, UsRead(s)
    PROVE  UsInv'
<1> USE DEF UsRead
<1>1. UsTypeOK /\ UsFinite /\ UsBlank /\ UsBounded
    BY DEF UsInv
<1>2. usSaver \in [UsSavers -> UsSaverState] /\ usFile.usage \in UsUsage
    BY <1>1 DEF UsTypeOK, UsSaverState, UsPcs
<1>3. PICK y \in UsSaverState :
        /\ usSaver' = [usSaver EXCEPT ![s] = y]
        /\ y.pc \in {"off", "collect", "remove"}
        /\ y.pc = "collect" => y.seen = usFile.usage
        /\ y.pc = "remove" => usFile.state = "partial" /\ y.seen = usSaver[s].seen
    <2>1. CASE usSaver' = [usSaver EXCEPT ![s].pc = "collect", ![s].seen = usFile.usage]
        <3> DEFINE y == [usSaver[s] EXCEPT !.pc = "collect", !.seen = usFile.usage]
        <3>1. y \in UsSaverState /\ y.pc = "collect" /\ y.seen = usFile.usage
            BY <1>2 DEF UsSaverState, UsPcs
        <3>2. usSaver' = [usSaver EXCEPT ![s] = y]
            BY <2>1, <1>2
        <3> QED
            BY <3>1, <3>2
    <2>2. CASE usSaver' = [usSaver EXCEPT ![s] = UsOff]
        BY <2>2, UsConstants DEF UsOff
    <2>3. CASE usFile.state = "partial" /\ usSaver' = [usSaver EXCEPT ![s].pc = "remove"]
        <3> DEFINE y == [usSaver[s] EXCEPT !.pc = "remove"]
        <3>1. y \in UsSaverState /\ y.pc = "remove" /\ y.seen = usSaver[s].seen
            BY <1>2 DEF UsSaverState, UsPcs
        <3>2. usSaver' = [usSaver EXCEPT ![s] = y]
            BY <2>3, <1>2
        <3> QED
            BY <2>3, <3>1, <3>2
    <2> QED
        BY <2>1, <2>2, <2>3
<1>4. /\ usSaver' \in [UsSavers -> UsSaverState]
      /\ usSaver'[s] = y /\ \A r \in UsSavers : r # s => usSaver'[r] = usSaver[r]
    BY <1>2, <1>3
<1>6. UsTypeOK'
    BY <1>1, <1>4 DEF UsTypeOK, UsSaverState, UsPcs
<1>7. UsFinite' /\ UsBlank'
    BY <1>1 DEF UsFinite, UsBlank
<1>8. UsBounded'
    BY <1>1, <1>3, <1>4 DEF UsBounded, UsSaverBounded, UsReading, UsCleaning
<1>9. ~usExcused => UsExactly'
    BY <1>3, <1>4 DEF UsExactly, UsBusy, UsInv, UsCleaning
<1> QED
    BY <1>6, <1>7, <1>8, <1>9 DEF UsInv

(* A step of cleanupCorruptedFile, once the file is excused: savers that   *)
(* read or clean up go on with what they have seen, others stay or end,    *)
(* and the file is as it was or shows nothing.                             *)
LEMMA UsCleanupInv ==
    ASSUME UsInv, NEW s \in UsSavers, usSaver[s].pc \in UsCleaning,
           usSaver' \in [UsSavers -> UsSaverState], usPanel' \in {"idle", "create", "fill"},
           usFile' = usFile \/ \E state \in {"missing", "empty", "ok"} :
                                 usFile' = UsFileOf(state, UsZero),
           UNCHANGED <<usSide, usMem, usCurrent, usAdded, usExcused>>,
           \A r \in UsSavers :
             \/ usSaver'[r] = usSaver[r] \/ usSaver'[r] = UsOff
             \/ usSaver[r].pc \in UsReading /\ usSaver'[r].pc \in UsReading
                /\ usSaver'[r].seen = usSaver[r].seen
    PROVE  UsInv'
<1>1. UsTypeOK /\ UsFinite /\ UsBlank /\ UsBounded /\ usExcused
    BY DEF UsInv, UsExactly, UsTypeOK
<1>2. /\ usFile' \in [state : {"missing", "empty", "ok", "partial"}, usage : UsUsage]
      /\ usFile'.usage = usFile.usage \/ usFile'.usage = UsZero
      /\ usFile'.state # "ok" => usFile'.usage = UsZero
    BY <1>1, UsConstants DEF UsTypeOK, UsBlank, UsFileOf
<1>3. UsTypeOK' /\ UsFinite' /\ UsBlank'
    BY <1>1, <1>2 DEF UsTypeOK, UsSaverState, UsPcs, UsFinite, UsBlank
<1>4. UsBounded'
    <2> SUFFICES ASSUME NEW q \in UsPorts
                 PROVE  /\ usFile'.usage[q] + UsInMemory(usMem, q) <= usAdded[q]
                        /\ \A r \in UsSavers : UsSaverBounded(r, q)'
        BY DEF UsBounded
    <2>1. /\ usFile.usage[q] + UsInMemory(usMem, q) <= usAdded[q]
          /\ UsInMemory(usMem, q) \in Nat /\ usFile.usage[q] \in Nat /\ usAdded[q] \in Nat
        BY <1>1, UsNumbers, UsMemoryNat DEF UsBounded
    <2>2. UsZero[q] = 0
        BY UsConstants
    <2>3. \A r \in UsSavers : UsSaverBounded(r, q)'
        <3> SUFFICES ASSUME NEW r \in UsSavers PROVE UsSaverBounded(r, q)'
            OBVIOUS
        <3>1. UsSaverBounded(r, q)
            BY <1>1 DEF UsBounded
        <3>2. CASE usSaver'[r] = usSaver[r]
            BY <3>1, <3>2 DEF UsSaverBounded
        <3>3. CASE usSaver'[r] = UsOff
            BY <3>3 DEF UsSaverBounded, UsOff, UsReading, UsCleaning
        <3>4. CASE usSaver[r].pc \in UsReading /\ usSaver'[r].pc \in UsReading
                   /\ usSaver'[r].seen = usSaver[r].seen
            BY <3>1, <3>4 DEF UsSaverBounded, UsReading, UsCleaning
        <3> QED
            BY <3>2, <3>3, <3>4
    <2> QED
        BY <1>2, <2>1, <2>2, <2>3
<1> QED
    BY <1>1, <1>3, <1>4 DEF UsInv

(* The four steps of cleanupCorruptedFile. *)
LEMMA UsCleanupStepInv ==
    ASSUME UsInv, NEW s \in UsSavers,
           UsCleanupFails(s) \/ UsCleanupRemoves(s) \/ UsCleanupCreates(s) \/ UsCleanupFills(s)
    PROVE  UsInv'
<1>1. usSaver \in [UsSavers -> UsSaverState] /\ usPanel \in {"idle", "create", "fill"}
    BY DEF UsInv, UsTypeOK, UsSaverState, UsPcs
<1>2. UNCHANGED <<usSide, usMem, usCurrent, usAdded, usExcused>>
    BY DEF UsCleanupFails, UsCleanupRemoves, UsCleanupCreates, UsCleanupFills
<1>3. usSaver[s].pc \in UsCleaning
    BY DEF UsCleanupFails, UsCleanupRemoves, UsCleanupCreates, UsCleanupFills, UsCleaning
<1>4. /\ usPanel' \in {"idle", "create", "fill"}
      /\ usFile' = usFile \/ \E state \in {"missing", "empty", "ok"} :
                               usFile' = UsFileOf(state, UsZero)
    BY <1>1 DEF UsCleanupFails, UsCleanupRemoves, UsCleanupCreates, UsCleanupFills
<1>5. CASE UsCleanupRemoves(s)
    <2>1. \A r \in UsSavers :
            usSaver'[r] = CASE r = s -> [usSaver[r] EXCEPT !.pc = "create"]
                            [] usSaver[r].pc = "write" -> UsOff
                            [] usSaver[r].pc = "fill" -> [usSaver[r] EXCEPT !.pc = "collect"]
                            [] OTHER -> usSaver[r]
        BY <1>5 DEF UsCleanupRemoves
    <2>d. DOMAIN usSaver' = UsSavers /\ usSaver' = [r \in UsSavers |-> usSaver'[r]]
        BY <1>5 DEF UsCleanupRemoves
    <2>2. ASSUME NEW r \in UsSavers
          PROVE  /\ usSaver'[r] \in UsSaverState
                 /\ \/ usSaver'[r] = usSaver[r] \/ usSaver'[r] = UsOff
                    \/ usSaver[r].pc \in UsReading /\ usSaver'[r].pc \in UsReading
                       /\ usSaver'[r].seen = usSaver[r].seen
        <3>1. usSaver[r] \in UsSaverState
            BY <1>1
        <3>2. CASE r = s
            BY <1>3, <2>1, <3>1, <3>2 DEF UsSaverState, UsPcs, UsReading, UsCleaning
        <3>3. CASE r # s /\ usSaver[r].pc = "write"
            BY <2>1, <3>3, UsConstants
        <3>4. CASE r # s /\ usSaver[r].pc = "fill"
            BY <2>1, <3>1, <3>4 DEF UsSaverState, UsPcs, UsReading, UsCleaning
        <3>5. CASE r # s /\ usSaver[r].pc \notin {"write", "fill"}
            BY <2>1, <3>1, <3>5
        <3> QED
            BY <3>2, <3>3, <3>4, <3>5
    <2>3. usSaver' \in [UsSavers -> UsSaverState]
        BY <2>d, <2>2
    <2> QED
        BY <1>2, <1>3, <1>4, <2>2, <2>3, UsCleanupInv
<1>6. CASE \E pc \in UsReading : usSaver' = [usSaver EXCEPT ![s].pc = pc]
    <2>1. PICK pc \in UsReading : usSaver' = [usSaver EXCEPT ![s].pc = pc]
        BY <1>6
    <2> DEFINE y == [usSaver[s] EXCEPT !.pc = pc]
    <2>2. y \in UsSaverState /\ y.pc = pc /\ y.seen = usSaver[s].seen
        BY <1>1 DEF UsSaverState, UsPcs, UsReading, UsCleaning
    <2>3. usSaver' = [usSaver EXCEPT ![s] = y]
        BY <2>1
    <2> HIDE DEF y
    <2>4. /\ usSaver' \in [UsSavers -> UsSaverState]
          /\ usSaver'[s] = y /\ \A r \in UsSavers : r # s => usSaver'[r] = usSaver[r]
        BY <1>1, <2>2, <2>3
    <2>5. \A r \in UsSavers :
            \/ usSaver'[r] = usSaver[r] \/ usSaver'[r] = UsOff
            \/ usSaver[r].pc \in UsReading /\ usSaver'[r].pc \in UsReading
               /\ usSaver'[r].seen = usSaver[r].seen
        BY <1>3, <2>2, <2>4 DEF UsReading
    <2> QED
        BY <1>2, <1>3, <1>4, <2>4, <2>5, UsCleanupInv
<1> QED
    BY <1>5, <1>6 DEF UsCleanupFails, UsCleanupCreates, UsCleanupFills, UsReading, UsCleaning

(* A saver takes what is in memory. *)
LEMMA UsCollectInv ==
    ASSUME UsInv, NEW s \in UsSavers, UsCollect(s)
    PROVE  UsInv'
<1> DEFINE i == usSaver[s].from
           y == [usSaver[s] EXCEPT !.pc = "truncate", !.took = usMem[i]]
<1>1. UsTypeOK /\ UsFinite /\ UsBlank /\ UsBounded
    BY DEF UsInv
<1>2. /\ usSaver \in [UsSavers -> UsSaverState] /\ i \in 1..UsInstances
      /\ usMem \in [1..UsInstances -> UsUsage] /\ usSaver[s].pc = "collect"
      /\ UNCHANGED <<usSide, usCurrent, usFile, usPanel, usAdded, usExcused>>
    BY <1>1 DEF UsTypeOK, UsSaverState, UsPcs, UsCollect
<1>3. /\ y \in UsSaverState /\ y.pc = "truncate"
      /\ y.seen = usSaver[s].seen /\ y.took = usMem[i]
    BY <1>2 DEF UsSaverState, UsPcs
<1>4. usSaver' = [usSaver EXCEPT ![s] = y]
    BY <1>2 DEF UsCollect
<1>5. UsTakenFrom(usMem, usMem', i) /\ usMem' \in [1..UsInstances -> UsUsage]
    BY <1>2, UsConstants DEF UsTakenFrom, UsCollect
<1> HIDE DEF y, i
<1>6. /\ usSaver' \in [UsSavers -> UsSaverState]
      /\ usSaver'[s] = y /\ \A r \in UsSavers : r # s => usSaver'[r] = usSaver[r]
    BY <1>2, <1>3, <1>4
<1>7. \A q \in UsPorts : /\ IsFiniteSet(UsUnits(usMem', q))
                         /\ UsInMemory(usMem', q) \in Nat /\ usMem[i][q] \in Nat
                         /\ UsInMemory(usMem, q) = UsInMemory(usMem', q) + usMem[i][q]
    BY <1>1, <1>2, <1>5, UsEmptied DEF UsFinite, UsUsage
<1>8. UsTypeOK'
    BY <1>1, <1>2, <1>5, <1>6 DEF UsTypeOK, UsSaverState, UsPcs
<1>9. UsFinite' /\ UsBlank'
    BY <1>1, <1>2, <1>7 DEF UsFinite, UsBlank
<1>10. UsBounded'
    <2> SUFFICES ASSUME NEW q \in UsPorts
                 PROVE  /\ usFile.usage[q] + UsInMemory(usMem', q) <= usAdded[q]
                        /\ \A r \in UsSavers : UsSaverBounded(r, q)'
        BY <1>2 DEF UsBounded
    <2>1. \A n \in Nat : n + UsInMemory(usMem, q) <= usAdded[q]
            => n + UsInMemory(usMem', q) <= usAdded[q]
               /\ n + usMem[i][q] + UsInMemory(usMem', q) <= usAdded[q]
        BY <1>1, <1>7, UsNumbers
    <2>2. \A n, k \in Nat : n + k + UsInMemory(usMem, q) <= usAdded[q]
            => n + k + UsInMemory(usMem', q) <= usAdded[q]
        BY <1>1, <1>7, UsNumbers
    <2>3. /\ usFile.usage[q] + UsInMemory(usMem, q) <= usAdded[q]
          /\ \A r \in UsSavers : UsSaverBounded(r, q)
        BY <1>1 DEF UsBounded
    <2>4. \A r \in UsSavers : r # s => UsSaverBounded(r, q)'
        BY <1>1, <1>2, <1>6, <2>1, <2>2, <2>3, UsNumbers DEF UsSaverBounded, UsReading, UsCleaning
    <2>5. UsSaverBounded(s, q)'
        BY <1>1, <1>2, <1>3, <1>6, <2>1, <2>3, UsNumbers DEF UsSaverBounded, UsReading, UsCleaning
    <2> QED
        BY <1>1, <2>1, <2>3, <2>4, <2>5, UsNumbers
<1>11. ASSUME UsExactly PROVE UsExactly'
    <2>1. \A r \in UsSavers : r # s => usSaver[r].pc = "off"
        BY <1>2, <1>11 DEF UsExactly, UsBusy, UsReading, UsCleaning
    <2>2. usSaver[s].seen = usFile.usage
        BY <1>2, <1>11 DEF UsExactly, UsReading, UsCleaning
    <2>3. \A q \in UsPorts : usAdded[q] = UsInMemory(usMem, q) + usFile.usage[q]
        BY <1>2, <1>11, <2>1 DEF UsExactly, UsReading, UsCleaning
    <2>4. \A q \in UsPorts : usAdded'[q] = UsInMemory(usMem', q) + y.seen[q] + y.took[q]
        <3> TAKE q \in UsPorts
        <3>1. \A n \in Nat : UsInMemory(usMem, q) + n = UsInMemory(usMem', q) + n + usMem[i][q]
            BY <1>7
        <3> QED
            BY <1>1, <1>2, <1>3, <2>2, <2>3, <3>1, UsNumbers
    <2> QED
        BY <1>2, <1>3, <1>6, <1>11, <2>1, <2>2, <2>4 DEF UsExactly, UsBusy, UsCleaning
<1> QED
    BY <1>2, <1>8, <1>9, <1>10, <1>11 DEF UsInv

(* A saver truncates the file, or fails to. *)
LEMMA UsTruncateInv ==
    ASSUME UsInv, NEW s \in UsSavers, UsTruncate(s)
    PROVE  UsInv'
<1>1. UsTypeOK /\ UsFinite /\ UsBlank /\ UsBounded
    BY DEF UsInv
<1>2. /\ usSaver \in [UsSavers -> UsSaverState] /\ usSaver[s].pc = "truncate"
      /\ UNCHANGED <<usSide, usMem, usCurrent, usPanel, usAdded>>
    BY <1>1 DEF UsTypeOK, UsSaverState, UsPcs, UsTruncate
<1>3. CASE /\ usFile' = UsFileOf("empty", UsZero)
           /\ usSaver' = [usSaver EXCEPT ![s].pc = "write"]
           /\ UNCHANGED usExcused
    <2> DEFINE y == [usSaver[s] EXCEPT !.pc = "write"]
    <2>1. /\ y \in UsSaverState /\ y.pc = "write"
          /\ y.seen = usSaver[s].seen /\ y.took = usSaver[s].took
        BY <1>2 DEF UsSaverState, UsPcs
    <2>2. usSaver' = [usSaver EXCEPT ![s] = y]
        BY <1>3
    <2> HIDE DEF y
    <2>3. /\ usSaver' \in [UsSavers -> UsSaverState]
          /\ usSaver'[s] = y /\ \A r \in UsSavers : r # s => usSaver'[r] = usSaver[r]
        BY <1>2, <2>1, <2>2
    <2>4. /\ usFile' \in [state : {"missing", "empty", "ok", "partial"}, usage : UsUsage]
          /\ usFile'.usage = UsZero /\ usFile'.state = "empty"
        BY <1>3, UsConstants DEF UsFileOf
    <2>5. UsTypeOK' /\ UsFinite' /\ UsBlank'
        BY <1>1, <1>2, <1>3, <2>3, <2>4 DEF UsTypeOK, UsSaverState, UsPcs, UsFinite, UsBlank
    <2>6. UsBounded'
        <3> SUFFICES ASSUME NEW q \in UsPorts
                     PROVE  /\ UsZero[q] + UsInMemory(usMem, q) <= usAdded[q]
                            /\ \A r \in UsSavers : UsSaverBounded(r, q)'
            BY <1>2, <2>4 DEF UsBounded
        <3>1. \A r \in UsSavers : UsSaverBounded(r, q)
            BY <1>1 DEF UsBounded
        <3>2. \A r \in UsSavers : UsSaverBounded(r, q)'
            BY <3>1, <1>2, <2>1, <2>3 DEF UsSaverBounded, UsReading, UsCleaning
        <3>3. /\ usFile.usage[q] + UsInMemory(usMem, q) <= usAdded[q]
              /\ UsInMemory(usMem, q) \in Nat /\ usFile.usage[q] \in Nat /\ usAdded[q] \in Nat
            BY <1>1, UsNumbers, UsMemoryNat DEF UsBounded
        <3> QED
            BY <3>2, <3>3, UsConstants
    <2>7. ASSUME UsExactly PROVE UsExactly'
        BY <1>2, <2>1, <2>3, <2>4, <2>7 DEF UsExactly, UsBusy, UsCleaning
    <2> QED
        BY <1>3, <2>5, <2>6, <2>7 DEF UsInv
<1>4. CASE usSaver' = [usSaver EXCEPT ![s] = UsOff] /\ usExcused' = TRUE /\ UNCHANGED usFile
    <2>1. /\ usSaver' \in [UsSavers -> UsSaverState]
          /\ usSaver'[s].pc = "off" /\ \A r \in UsSavers : r # s => usSaver'[r] = usSaver[r]
        BY <1>2, <1>4, UsConstants DEF UsOff
    <2>2. UsTypeOK' /\ UsFinite' /\ UsBlank'
        BY <1>1, <1>2, <1>4, <2>1 DEF UsTypeOK, UsSaverState, UsPcs, UsFinite, UsBlank
    <2>3. UsBounded'
        BY <1>1, <1>2, <1>4, <2>1 DEF UsBounded, UsSaverBounded, UsReading, UsCleaning
    <2> QED
        BY <1>4, <2>2, <2>3 DEF UsInv
<1> QED
    BY <1>3, <1>4 DEF UsTruncate

(* A saver writes the file, or fails half-way. *)
LEMMA UsWriteInv ==
    ASSUME UsInv, NEW s \in UsSavers, UsWrite(s)
    PROVE  UsInv'
<1> DEFINE sum == UsMerge(usSaver[s].seen, usSaver[s].took)
<1>1. UsTypeOK /\ UsFinite /\ UsBlank /\ UsBounded
    BY DEF UsInv
<1>2. /\ usSaver \in [UsSavers -> UsSaverState] /\ usSaver[s].pc = "write"
      /\ usSaver' = [usSaver EXCEPT ![s] = UsOff]
      /\ UNCHANGED <<usSide, usMem, usCurrent, usPanel, usAdded>>
    BY <1>1 DEF UsTypeOK, UsSaverState, UsPcs, UsWrite
<1>3. /\ usSaver' \in [UsSavers -> UsSaverState]
      /\ usSaver'[s].pc = "off" /\ \A r \in UsSavers : r # s => usSaver'[r] = usSaver[r]
    BY <1>2, UsConstants DEF UsOff
<1>4. /\ sum \in UsUsage
      /\ \A q \in UsPorts : sum[q] = usSaver[s].seen[q] + usSaver[s].took[q]
    <2>1. \A q \in UsPorts : usSaver[s].seen[q] \in Nat /\ usSaver[s].took[q] \in Nat
        BY <1>1, UsNumbers
    <2> QED
        BY <2>1 DEF UsMerge, UsUsage
<1> HIDE DEF sum
<1>5. \/ usFile'.state = "ok" /\ usFile'.usage = sum /\ usExcused' = usExcused
      \/ usFile'.state = "partial" /\ usFile'.usage = UsZero /\ usExcused' = TRUE
    BY DEF UsWrite, UsFileOf, sum
<1>6. usFile' \in [state : {"missing", "empty", "ok", "partial"}, usage : UsUsage]
    BY <1>4, UsConstants DEF UsWrite, UsFileOf, sum
<1>7. UsTypeOK' /\ UsFinite' /\ UsBlank'
    BY <1>1, <1>2, <1>3, <1>5, <1>6 DEF UsTypeOK, UsSaverState, UsPcs, UsFinite, UsBlank
<1>8. UsBounded'
    <2> SUFFICES ASSUME NEW q \in UsPorts
                 PROVE  /\ usFile'.usage[q] + UsInMemory(usMem, q) <= usAdded[q]
                        /\ \A r \in UsSavers : UsSaverBounded(r, q)'
        BY <1>2 DEF UsBounded
    <2>1. /\ usFile.usage[q] + UsInMemory(usMem, q) <= usAdded[q]
          /\ UsInMemory(usMem, q) \in Nat /\ usFile.usage[q] \in Nat /\ usAdded[q] \in Nat
        BY <1>1, UsNumbers, UsMemoryNat DEF UsBounded
    <2>2. \A r \in UsSavers : UsSaverBounded(r, q)
        BY <1>1 DEF UsBounded
    <2>3. \A r \in UsSavers : UsSaverBounded(r, q)'
        BY <2>2, <1>2, <1>3 DEF UsSaverBounded, UsReading, UsCleaning
    <2>4. sum[q] + UsInMemory(usMem, q) <= usAdded[q]
        BY <2>2, <1>2, <1>4 DEF UsSaverBounded, UsReading, UsCleaning
    <2>5. UsZero[q] + UsInMemory(usMem, q) <= usAdded[q]
        BY <2>1, UsConstants
    <2> QED
        BY <1>5, <2>3, <2>4, <2>5
<1>9. ASSUME ~usExcused' PROVE UsExactly'
    <2>1. UsExactly /\ usFile'.usage = sum /\ usFile'.state = "ok"
        BY <1>5, <1>9 DEF UsInv
    <2>2. \A r \in UsSavers : usSaver'[r].pc = "off"
        BY <1>2, <1>3, <2>1 DEF UsExactly, UsBusy, UsReading, UsCleaning
    <2>3. \A q \in UsPorts : usAdded[q] = UsInMemory(usMem, q) + sum[q]
        <3> TAKE q \in UsPorts
        <3>1. usAdded[q] = UsInMemory(usMem, q) + usSaver[s].seen[q] + usSaver[s].took[q]
            BY <1>2, <2>1 DEF UsExactly, UsReading, UsCleaning
        <3> QED
            BY <3>1, <1>1, <1>4, UsNumbers, UsMemoryNat
    <2> QED
        BY <1>2, <2>1, <2>2, <2>3 DEF UsExactly, UsBusy, UsCleaning
<1> QED
    BY <1>7, <1>8, <1>9 DEF UsInv

(* The web panel creates the file, or writes the empty list. *)
LEMMA UsPanelInv ==
    ASSUME UsInv, UsPanelCreates \/ UsPanelFills
    PROVE  UsInv'
<1>1. UsTypeOK /\ UsFinite /\ UsBlank /\ UsBounded
    BY DEF UsInv
<1>2. /\ usFile'.state \in {"empty", "ok"} /\ usFile'.usage = UsZero
      /\ usFile' \in [state : {"missing", "empty", "ok", "partial"}, usage : UsUsage]
      /\ usPanel' \in {"idle", "fill"}
      /\ UNCHANGED <<usSide, usMem, usCurrent, usSaver, usAdded>>
    BY UsConstants DEF UsPanelCreates, UsPanelFills, UsFileOf
<1>3. /\ usExcused' \in BOOLEAN
      /\ ~usExcused' => /\ ~usExcused /\ usFile.state \in {"missing", "empty"}
                        /\ \A s \in UsSavers : usSaver[s].pc = "off"
    BY <1>1 DEF UsPanelCreates, UsPanelFills, UsBusy, UsTypeOK
<1>4. UsTypeOK' /\ UsFinite' /\ UsBlank'
    BY <1>1, <1>2, <1>3 DEF UsTypeOK, UsFinite, UsBlank
<1>5. UsBounded'
    <2> SUFFICES ASSUME NEW q \in UsPorts
                 PROVE  /\ UsZero[q] + UsInMemory(usMem, q) <= usAdded[q]
                        /\ \A r \in UsSavers : UsSaverBounded(r, q)'
        BY <1>2 DEF UsBounded
    <2>1. /\ usFile.usage[q] + UsInMemory(usMem, q) <= usAdded[q]
          /\ UsInMemory(usMem, q) \in Nat /\ usFile.usage[q] \in Nat /\ usAdded[q] \in Nat
        BY <1>1, UsNumbers, UsMemoryNat DEF UsBounded
    <2>2. \A r \in UsSavers : UsSaverBounded(r, q)'
        BY <1>1, <1>2 DEF UsBounded, UsSaverBounded, UsReading, UsCleaning
    <2> QED
        BY <2>1, <2>2, UsConstants
<1>6. ASSUME ~usExcused' PROVE UsExactly'
    <2>1. UsExactly /\ usFile.usage = UsZero
        BY <1>1, <1>3, <1>6 DEF UsInv, UsBlank
    <2> QED
        BY <1>2, <1>3, <1>6, <2>1 DEF UsExactly, UsBusy, UsReading, UsCleaning
<1> QED
    BY <1>4, <1>5, <1>6 DEF UsInv

(* The process ends and is started again. *)
LEMMA UsCrashInv ==
    ASSUME UsInv, UsCrash
    PROVE  UsInv'
<1>1. UsTypeOK /\ UsFinite /\ UsBlank /\ UsBounded
    BY DEF UsInv
<1>2. /\ usCurrent' = 1 /\ usPanel' = "idle" /\ usExcused' = TRUE
      /\ usSaver' \in [UsSavers -> UsSaverState]
      /\ \A s \in UsSavers : usSaver'[s].pc = "off"
      /\ UNCHANGED <<usSide, usFile, usAdded>>
    BY UsConstants DEF UsCrash, UsOff
<1>3. /\ usMem' \in [1..UsInstances -> UsUsage]
      /\ \A q \in UsPorts : IsFiniteSet(UsUnits(usMem', q)) /\ UsInMemory(usMem', q) = 0
    BY UsConstants, UsNoUnits DEF UsCrash
<1>4. 1 \in 1..UsInstances
    BY UsageStoreAssumption
<1>5. UsTypeOK' /\ UsFinite' /\ UsBlank'
    BY <1>1, <1>2, <1>3, <1>4 DEF UsTypeOK, UsSaverState, UsPcs, UsFinite, UsBlank
<1>6. UsBounded'
    <2> SUFFICES ASSUME NEW q \in UsPorts
                 PROVE  /\ usFile.usage[q] + UsInMemory(usMem', q) <= usAdded[q]
                        /\ \A r \in UsSavers : UsSaverBounded(r, q)'
        BY <1>2 DEF UsBounded
    <2>1. /\ usFile.usage[q] + UsInMemory(usMem, q) <= usAdded[q]
          /\ UsInMemory(usMem, q) \in Nat /\ usFile.usage[q] \in Nat /\ usAdded[q] \in Nat
        BY <1>1, UsNumbers, UsMemoryNat DEF UsBounded
    <2>2. \A r \in UsSavers : UsSaverBounded(r, q)'
        BY <1>2 DEF UsSaverBounded, UsReading, UsCleaning
    <2> QED
        BY <2>1, <2>2, <1>3
<1> QED
    BY <1>2, <1>5, <1>6 DEF UsInv

(* Steps that leave usage where it is. *)
LEMMA UsQuietInv ==
    ASSUME UsInv, usCurrent' \in 1..UsInstances, usPanel' \in {"idle", "create", "fill"},
           UNCHANGED <<usSide, usMem, usSaver, usFile, usAdded, usExcused>>
    PROVE  UsInv'
<1>1. UsTypeOK' /\ UsFinite' /\ UsBlank'
    BY DEF UsInv, UsTypeOK, UsFinite, UsBlank
<1>2. UsBounded'
    BY DEF UsInv, UsBounded, UsSaverBounded, UsReading, UsCleaning
<1>3. ~usExcused => UsExactly'
    BY DEF UsInv, UsExactly, UsBusy, UsReading, UsCleaning
<1> QED
    BY <1>1, <1>2, <1>3 DEF UsInv

(* Every step of the usage monitor keeps the invariant. *)
LEMMA UsStepInv == UsInv /\ [UsNext]_usVars => UsInv'
<1> SUFFICES ASSUME UsInv, [UsNext]_usVars PROVE UsInv'
    OBVIOUS
<1>0. /\ usCurrent \in 1..UsInstances /\ usPanel \in {"idle", "create", "fill"}
      /\ UsInstances \in Nat
    BY UsageStoreAssumption DEF UsInv, UsTypeOK
<1>1. CASE \E i \in 1..UsInstances, p \in UsPorts : UsAdd(i, p)
    BY <1>1, UsAddInv
<1>2. CASE \E s \in UsSavers : UsSaverStep(s)
    BY <1>2, UsTickInv, UsReadInv, UsCleanupStepInv, UsCollectInv, UsTruncateInv, UsWriteInv
    DEF UsSaverStep
<1>3. CASE UsPanelLooks \/ UsPanelFails
    BY <1>0, <1>3, UsQuietInv DEF UsPanelLooks, UsPanelFails
<1>4. CASE UsPanelCreates \/ UsPanelFills
    BY <1>4, UsPanelInv
<1>5. CASE UsRestart
    <2>1. usCurrent' \in 1..UsInstances
        BY <1>0, <1>5 DEF UsRestart
    <2> QED
        BY <1>0, <1>5, <2>1, UsQuietInv DEF UsRestart
<1>6. CASE UsCrash
    BY <1>6, UsCrashInv
<1>7. CASE UNCHANGED usVars
    BY <1>0, <1>7, UsQuietInv DEF usVars
<1> QED
    BY <1>1, <1>2, <1>3, <1>4, <1>5, <1>6, <1>7 DEF UsNext

(* The usage monitor: what the relays added bounds what the file, the      *)
(* memory and each saveUsageData hold, and equals it while nothing excuses *)
(* a loss.                                                                 *)
THEOREM UsInvAlways == UsSpec => []UsInv
<1>1. UsInit => UsInv
    BY UsInitInv
<1>2. UsInv /\ [UsNext]_usVars => UsInv'
    BY UsStepInv
<1> QED
    BY <1>1, <1>2, PTL DEF UsSpec

(* Types of the usage monitor's state. *)
THEOREM UsTypeCorrect == UsSpec => []UsTypeOK
<1>1. UsInv => UsTypeOK
    BY DEF UsInv
<1> QED
    BY <1>1, UsInvAlways, PTL

(* However saveUsageData goroutines, the web panel, failed writes, restarts *)
(* and crashes interleave, no unit of traffic is counted twice.            *)
THEOREM UsNeverOvercountsAlways == UsSpec => []UsNeverOvercounts
<1>1. UsInv => UsNeverOvercounts
    BY DEF UsInv, UsBounded, UsNeverOvercounts
<1> QED
    BY <1>1, UsInvAlways, PTL

(* While savers do not overlap, writes succeed and the panel does not      *)
(* create the file during a save, every unit added is in the file, in      *)
(* memory or with the saver, across restarts of the transport.             *)
THEOREM UsAccountedAlways == UsSpec => []UsAccounted
<1>1. UsInv => UsAccounted
    <2> SUFFICES ASSUME UsInv, ~usExcused, NEW p \in UsPorts
                 PROVE  usAdded[p] = UsInMemory(usMem, p)
                          + (IF \E s \in UsSavers : usSaver[s].pc \in {"truncate", "write"}
                             THEN LET s == CHOOSE s \in UsSavers :
                                             usSaver[s].pc \in {"truncate", "write"}
                                  IN  UsSum(usSaver[s].seen, usSaver[s].took)[p]
                             ELSE usFile.usage[p])
        BY DEF UsAccounted
    <2>0. UsExactly /\ UsTypeOK /\ UsFinite
        BY DEF UsInv
    <2>1. CASE \E s \in UsSavers : usSaver[s].pc \in {"truncate", "write"}
        <3> DEFINE s == CHOOSE r \in UsSavers : usSaver[r].pc \in {"truncate", "write"}
        <3>1. s \in UsSavers /\ usSaver[s].pc \in {"truncate", "write"}
            BY <2>1
        <3> HIDE DEF s
        <3>2. usAdded[p] = UsInMemory(usMem, p) + usSaver[s].seen[p] + usSaver[s].took[p]
            BY <2>0, <3>1 DEF UsExactly
        <3>3. UsSum(usSaver[s].seen, usSaver[s].took)[p] = usSaver[s].seen[p] + usSaver[s].took[p]
            BY DEF UsSum
        <3>4. usAdded[p] = UsInMemory(usMem, p) + UsSum(usSaver[s].seen, usSaver[s].took)[p]
            BY <2>0, <3>1, <3>2, <3>3, UsNumbers, UsMemoryNat
        <3> QED
            BY <2>1, <3>4 DEF s
    <2>2. CASE ~\E s \in UsSavers : usSaver[s].pc \in {"truncate", "write"}
        BY <2>0, <2>2 DEF UsExactly
    <2> QED
        BY <2>1, <2>2
<1> QED
    BY <1>1, UsInvAlways, PTL

-----------------------------------------------------------------------------
(* PortMap: the invariant *)

PmOpenerState ==
    [pc : {"none", "ready", "sleep", "done"}, at : 1..PmLength, next : 0..(PmTop + 1)]

(* A parsePortMappings goroutine is at a port of its mapping, or at the    *)
(* first one of a mapping it is about to refuse.                           *)
PmPlaced(ports, o) ==
    /\ o.at \in 1..Len(ports)
    /\ o.next >= ports[o.at].lo
    /\ PmIsRange(ports[o.at]) => o.next = ports[o.at].lo \/ o.next <= ports[o.at].hi
    /\ ~PmIsRange(ports[o.at]) => o.next = ports[o.at].lo

PmAllPorts(ports) == UNION {PmPortsOf(ports[i]) : i \in 1..Len(ports)}

(* The ports a goroutine has opened, and the ports of ranges that are      *)
(* still ahead of it.                                                      *)
PmWalked(ports, o) ==
    {p \in PmAllPorts(ports) :
       \E i \in 1..Len(ports) :
         /\ p \in PmPortsOf(ports[i])
         /\ o.pc = "done" \/ i < o.at \/ (i = o.at /\ p < o.next)}
PmAhead(ports, o) ==
    {x \in PmRangePorts(ports) : x[1] > o.at \/ (x[1] = o.at /\ x[2] >= o.next)}

PmShape ==
    /\ pmLive <=> pmRestart = -1
    /\ ~pmLive => pmRun < PmRuns
    /\ \A r \in 1..PmRuns : r > pmRun => pmOpener[r].pc = "none"
    /\ \A r \in 1..PmRuns : pmOpener[r].pc # "none" => PmPlaced(pmPorts, pmOpener[r])
    /\ pmBound \subseteq PmAllPorts(pmPorts)

(* What the goroutine of the live run has walked listens. *)
PmListens ==
    pmUp /\ pmLive /\ pmOpener[pmRun].pc # "none" =>
        PmWalked(pmPorts, pmOpener[pmRun]) \subseteq pmBound

(* Each millisecond of Restart's sleep takes a goroutine one port of a     *)
(* range further.                                                          *)
PmElapsed(restart) == IF restart >= 0 THEN PmSleep - restart ELSE 0
PmAll(ports) == Cardinality(PmRangePorts(ports))
PmPaced(ports, o, t) ==
    /\ o.pc = "ready" => Cardinality(PmAhead(ports, o)) + t <= PmAll(ports)
    /\ o.pc = "sleep" => Cardinality(PmAhead(ports, o)) + t + 1 <= PmAll(ports)
PmPace == \A r \in 1..PmRuns : PmPaced(pmPorts, pmOpener[r], PmElapsed(pmRestart))

(* With ranges that are opened within the sleep, no goroutine outlives its *)
(* run, and all that listens was opened by the one of the live run.        *)
PmAlone ==
    /\ \A r \in 1..PmRuns : r < pmRun => pmOpener[r].pc \in {"none", "done"}
    /\ pmUp /\ ~(pmLive /\ pmOpener[pmRun].pc # "none") => pmBound = {}
    /\ pmUp /\ pmLive /\ pmOpener[pmRun].pc # "none" =>
         pmBound \subseteq PmWalked(pmPorts, pmOpener[pmRun])

PmInv == /\ PmTypeOK /\ PmShape /\ PmListens /\ PmPace
         /\ PmAll(pmPorts) < PmSleep => PmAlone
         /\ PmExitExplained

-----------------------------------------------------------------------------
(* PortMap: lemmas about configurations and walks *)

(* A configuration lists mappings, with port numbers up to PmTop + 1. *)
LEMMA PmConfigFacts ==
    ASSUME NEW ports \in PmConfigs
    PROVE  /\ Len(ports) \in Nat /\ Len(ports) \in 1..PmLength
           /\ \A i \in 1..Len(ports) : /\ ports[i] \in PmMappings
                                       /\ ports[i].form \in PmForms
                                       /\ ports[i].lo \in 0..(PmTop + 1)
                                       /\ ports[i].hi \in 0..(PmTop + 1)
           /\ PmTop \in Nat /\ PmLength \in Nat /\ PmRuns \in Nat /\ PmSleep \in Nat
<1>0. PmTop \in Nat /\ PmLength \in Nat /\ PmRuns \in Nat /\ PmSleep \in Nat
    BY PortMapAssumption
<1>1. PICK n \in 1..PmLength : ports \in [1..n -> PmMappings]
    BY DEF PmConfigs
<1>2. n \in Nat /\ Len(ports) = n
    BY <1>0, <1>1
<1> QED
    BY <1>0, <1>1, <1>2, PortMapAssumption

(* The ports of a mapping are port numbers. *)
LEMMA PmPortNumbers ==
    ASSUME NEW ports \in PmConfigs, NEW i \in 1..Len(ports)
    PROVE  PmPortsOf(ports[i]) \subseteq 0..(PmTop + 1)
<1>1. /\ ports[i].lo \in 0..(PmTop + 1) /\ ports[i].hi \in 0..(PmTop + 1)
      /\ PmTop \in Nat
    BY PmConfigFacts
<1> QED
    BY <1>1 DEF PmPortsOf

(* The ports in ranges are finitely many. *)
LEMMA PmRangesFinite ==
    ASSUME NEW ports \in PmConfigs
    PROVE  /\ IsFiniteSet(PmRangePorts(ports))
           /\ \A o : IsFiniteSet(PmAhead(ports, o))
           /\ PmAll(ports) \in Nat
<1>1. IsFiniteSet(1..Len(ports)) /\ IsFiniteSet(0..(PmTop + 1))
    BY PmConfigFacts, FS_Interval
<1>2. IsFiniteSet((1..Len(ports)) \X (0..(PmTop + 1)))
    BY <1>1, FS_Product
<1>3. PmRangePorts(ports) \subseteq (1..Len(ports)) \X (0..(PmTop + 1))
    BY PmPortNumbers DEF PmRangePorts
<1>4. IsFiniteSet(PmRangePorts(ports))
    BY <1>2, <1>3, FS_Subset
<1>5. \A o : PmAhead(ports, o) \subseteq PmRangePorts(ports)
    BY DEF PmAhead
<1> QED
    BY <1>4, <1>5, FS_Subset, FS_CardinalityType DEF PmAll

(* Removing an element, or not, from what is ahead. *)
LEMMA PmFewer ==
    ASSUME NEW S, NEW T, NEW x \in S, IsFiniteSet(S), T \subseteq S \ {x}
    PROVE  Cardinality(T) + 1 <= Cardinality(S)
<1>1. /\ IsFiniteSet(S \ {x}) /\ Cardinality(S \ {x}) = Cardinality(S) - 1
      /\ Cardinality(S) \in Nat
    BY FS_RemoveElement, FS_CardinalityType
<1>2. Cardinality(T) <= Cardinality(S \ {x}) /\ IsFiniteSet(T)
    BY <1>1, FS_Subset
<1>3. Cardinality(T) \in Nat
    BY <1>2, FS_CardinalityType
<1> QED
    BY <1>1, <1>2, <1>3

(* A goroutine at a mapping that is not refused is at one of its ports. *)
LEMMA PmAtPort ==
    ASSUME NEW ports \in PmConfigs, NEW o \in PmOpenerState, PmPlaced(ports, o),
           ~PmRefused(ports[o.at])
    PROVE  /\ o.next \in PmPortsOf(ports[o.at])
           /\ PmIsRange(ports[o.at]) => o.next <= ports[o.at].hi
<1>1. /\ o.at \in 1..Len(ports) /\ o.next \in Nat
      /\ ports[o.at].lo \in 0..(PmTop + 1) /\ ports[o.at].hi \in 0..(PmTop + 1)
      /\ PmTop \in Nat
    BY PmConfigFacts DEF PmPlaced, PmOpenerState
<1> QED
    BY <1>1 DEF PmPlaced, PmPortsOf, PmRefused, PmIsRange

(* The three ways on from a port: the next of the range, the end, or the   *)
(* next mapping.                                                           *)
PmGoesOn(ports, o, n) ==
    \/ /\ PmIsRange(ports[o.at]) /\ o.next < ports[o.at].hi
       /\ n.pc = "sleep" /\ n.at = o.at /\ n.next = o.next + 1
    \/ /\ PmIsRange(ports[o.at]) => o.next >= ports[o.at].hi
       /\ o.at = Len(ports) /\ n.pc = "done" /\ n.at = o.at /\ n.next = o.next
    \/ /\ PmIsRange(ports[o.at]) => o.next >= ports[o.at].hi
       /\ o.at # Len(ports)
       /\ n.pc = IF PmIsRange(ports[o.at]) THEN "sleep" ELSE "ready"
       /\ n.at = o.at + 1 /\ n.next = ports[o.at + 1].lo

(* PmAdvance goes on in one of these ways. *)
LEMMA PmAdvanceGoesOn ==
    ASSUME pmPorts \in PmConfigs, NEW o \in PmOpenerState, PmPlaced(pmPorts, o)
    PROVE  PmGoesOn(pmPorts, o, PmAdvance(o)) /\ PmAdvance(o) \in PmOpenerState
<1>1. /\ o.at \in 1..Len(pmPorts) /\ o.next \in 0..(PmTop + 1) /\ o.at \in 1..PmLength
      /\ pmPorts[o.at].lo \in 0..(PmTop + 1) /\ pmPorts[o.at].hi \in 0..(PmTop + 1)
      /\ PmTop \in Nat /\ PmLength \in Nat /\ Len(pmPorts) \in 1..PmLength
      /\ \A i \in 1..Len(pmPorts) : pmPorts[i].lo \in 0..(PmTop + 1)
    BY PmConfigFacts DEF PmPlaced, PmOpenerState
<1>2. CASE PmIsRange(pmPorts[o.at]) /\ o.next < pmPorts[o.at].hi
    <2>1. PmAdvance(o) = [o EXCEPT !.pc = "sleep", !.next = o.next + 1]
        BY <1>2 DEF PmAdvance
    <2>2. o.next + 1 \in 0..(PmTop + 1)
        BY <1>1, <1>2
    <2>3. /\ PmAdvance(o) \in PmOpenerState
          /\ PmAdvance(o).pc = "sleep" /\ PmAdvance(o).at = o.at
          /\ PmAdvance(o).next = o.next + 1
        BY <2>1, <2>2 DEF PmOpenerState
    <2> QED
        BY <1>2, <2>3 DEF PmGoesOn
<1>3. CASE ~(PmIsRange(pmPorts[o.at]) /\ o.next < pmPorts[o.at].hi) /\ o.at = Len(pmPorts)
    <2>1. PmAdvance(o) = [o EXCEPT !.pc = "done"]
        BY <1>3 DEF PmAdvance
    <2>2. /\ PmAdvance(o) \in PmOpenerState
          /\ PmAdvance(o).pc = "done" /\ PmAdvance(o).at = o.at
          /\ PmAdvance(o).next = o.next
        BY <2>1 DEF PmOpenerState
    <2>3. PmIsRange(pmPorts[o.at]) => o.next >= pmPorts[o.at].hi
        BY <1>1, <1>3
    <2> QED
        BY <1>3, <2>2, <2>3 DEF PmGoesOn
<1>4. CASE ~(PmIsRange(pmPorts[o.at]) /\ o.next < pmPorts[o.at].hi) /\ o.at # Len(pmPorts)
    <2>1. PmAdvance(o) = [pc |-> IF PmIsRange(pmPorts[o.at]) THEN "sleep" ELSE "ready",
                          at |-> o.at + 1, next |-> pmPorts[o.at + 1].lo]
        BY <1>4 DEF PmAdvance
    <2>2. o.at + 1 \in 1..Len(pmPorts) /\ o.at + 1 \in 1..PmLength
        BY <1>1, <1>4
    <2>3. PmAdvance(o) \in PmOpenerState
        BY <1>1, <2>1, <2>2 DEF PmOpenerState
    <2>4. PmIsRange(pmPorts[o.at]) => o.next >= pmPorts[o.at].hi
        BY <1>1, <1>4
    <2> QED
        BY <1>4, <2>1, <2>3, <2>4 DEF PmGoesOn
<1> QED
    BY <1>2, <1>3, <1>4

(* What a step of a walk preserves: the goroutine is placed again, it has  *)
(* walked one port more, and one port of a range less is ahead of it when  *)
(* it sleeps.                                                              *)
LEMMA PmWalkStep ==
    ASSUME NEW ports \in PmConfigs, NEW o \in PmOpenerState, NEW n \in PmOpenerState,
           PmPlaced(ports, o), ~PmRefused(ports[o.at]), o.pc = "ready", PmGoesOn(ports, o, n)
    PROVE  /\ n.pc # "none" /\ PmPlaced(ports, n)
           /\ PmWalked(ports, n) = PmWalked(ports, o) \cup {o.next}
           /\ n.pc = "sleep" =>
                Cardinality(PmAhead(ports, n)) + 1 <= Cardinality(PmAhead(ports, o))
           /\ n.pc = "ready" => Cardinality(PmAhead(ports, n)) <= Cardinality(PmAhead(ports, o))
<1>1. /\ o.at \in 1..Len(ports) /\ o.next \in Nat
      /\ Len(ports) \in Nat
      /\ \A i \in 1..Len(ports) : ports[i].lo \in Nat /\ ports[i].hi \in Nat
    BY PmConfigFacts DEF PmPlaced, PmOpenerState
<1>2. /\ o.next \in PmPortsOf(ports[o.at])
      /\ PmIsRange(ports[o.at]) => o.next <= ports[o.at].hi /\ o.next >= ports[o.at].lo
      /\ ~PmIsRange(ports[o.at]) => o.next = ports[o.at].lo
    BY PmAtPort DEF PmPlaced
<1>3. n.pc # "none" /\ PmPlaced(ports, n)
    <2>1. CASE n.at = o.at
        <3>1. /\ n.pc # "none"
              /\ \/ PmIsRange(ports[o.at]) /\ o.next < ports[o.at].hi /\ n.next = o.next + 1
                 \/ n.next = o.next
            BY <1>1, <2>1 DEF PmGoesOn
        <3> QED
            BY <1>1, <1>2, <2>1, <3>1 DEF PmPlaced
    <2>2. CASE n.at # o.at
        <3>1. n.pc # "none" /\ o.at # Len(ports) /\ n.at = o.at + 1 /\ n.next = ports[o.at + 1].lo
            BY <2>2 DEF PmGoesOn
        <3>2. n.at \in 1..Len(ports) /\ n.next = ports[n.at].lo /\ ports[n.at].lo \in Nat
            BY <1>1, <3>1
        <3> QED
            BY <3>1, <3>2 DEF PmPlaced
    <2> QED
        BY <2>1, <2>2
<1>4. \A i \in 1..Len(ports) : \A p \in PmPortsOf(ports[i]) :
        /\ p \in Nat
        /\ (n.pc = "done" \/ i < n.at \/ (i = n.at /\ p < n.next))
             <=> (i < o.at \/ (i = o.at /\ p <= o.next))
    <2> TAKE i \in 1..Len(ports)
    <2> TAKE p \in PmPortsOf(ports[i])
    <2>1. /\ p \in Nat /\ p >= ports[i].lo
          /\ PmIsRange(ports[i]) => p <= ports[i].hi
          /\ ~PmIsRange(ports[i]) => p = ports[i].lo
        BY <1>1 DEF PmPortsOf
    <2>2. CASE n.at = o.at /\ n.next = o.next + 1 /\ n.pc # "done"
        BY <1>1, <2>1, <2>2
    <2>3. CASE /\ n.pc = "done" /\ o.at = Len(ports)
               /\ PmIsRange(ports[o.at]) => o.next >= ports[o.at].hi
        <3>1. i = o.at => p <= o.next
            BY <1>1, <1>2, <2>1, <2>3
        <3> QED
            BY <1>1, <2>1, <2>3, <3>1
    <2>4. CASE /\ n.pc # "done" /\ n.at = o.at + 1 /\ n.next = ports[o.at + 1].lo
               /\ o.at # Len(ports)
               /\ PmIsRange(ports[o.at]) => o.next >= ports[o.at].hi
        <3>1. i = o.at => p <= o.next
            BY <1>1, <1>2, <2>1, <2>4
        <3>2. ~(i = n.at /\ p < n.next)
            BY <1>1, <2>1, <2>4
        <3> QED
            BY <1>1, <2>1, <2>4, <3>1, <3>2
    <2> QED
        BY <2>2, <2>3, <2>4 DEF PmGoesOn
<1>5. PmWalked(ports, n) = PmWalked(ports, o) \cup {o.next}
    <2>1. PmWalked(ports, n)
            = {p \in PmAllPorts(ports) : \E i \in 1..Len(ports) :
                 p \in PmPortsOf(ports[i]) /\ (i < o.at \/ (i = o.at /\ p <= o.next))}
        BY <1>4 DEF PmWalked
    <2>2. PmWalked(ports, o)
            = {p \in PmAllPorts(ports) : \E i \in 1..Len(ports) :
                 p \in PmPortsOf(ports[i]) /\ (i < o.at \/ (i = o.at /\ p < o.next))}
        BY DEF PmWalked
    <2>3. o.next \in PmAllPorts(ports)
        BY <1>1, <1>2 DEF PmAllPorts
    <2>4. \A p : p \in PmWalked(ports, n) => p \in PmWalked(ports, o) \cup {o.next}
        BY <1>1, <1>4, <2>1, <2>2
    <2>5. \A p : p \in PmWalked(ports, o) \cup {o.next} => p \in PmWalked(ports, n)
        BY <1>1, <1>2, <1>4, <2>1, <2>2, <2>3
    <2> QED
        BY <2>4, <2>5
<1>6. \A x \in PmRangePorts(ports) :
        /\ x[1] \in 1..Len(ports) /\ x[2] \in Nat /\ x = <<x[1], x[2]>>
        /\ x[2] \in PmPortsOf(ports[x[1]]) /\ PmIsRange(ports[x[1]])
        /\ x[2] <= ports[x[1]].hi
    BY <1>1 DEF PmRangePorts, PmPortsOf
<1>7. PmAhead(ports, n) \subseteq PmAhead(ports, o)
    BY <1>1, <1>6 DEF PmAhead, PmGoesOn
<1>8. ASSUME n.pc = "sleep"
      PROVE  Cardinality(PmAhead(ports, n)) + 1 <= Cardinality(PmAhead(ports, o))
    <2> DEFINE x == <<o.at, o.next>>
    <2>1. PmIsRange(ports[o.at])
        BY <1>8 DEF PmGoesOn
    <2>2. x \in PmAhead(ports, o)
        BY <1>1, <1>2, <2>1 DEF PmAhead, PmRangePorts
    <2>3. x \notin PmAhead(ports, n)
        <3>1. x[1] = o.at /\ x[2] = o.next
            OBVIOUS
        <3>2. n.at = o.at + 1 \/ (n.at = o.at /\ n.next = o.next + 1)
            BY <1>8 DEF PmGoesOn
        <3>3. ~(x[1] > n.at \/ (x[1] = n.at /\ x[2] >= n.next))
            BY <1>1, <3>1, <3>2
        <3> QED
            BY <3>3 DEF PmAhead
    <2>4. IsFiniteSet(PmAhead(ports, o))
        BY PmRangesFinite
    <2> QED
        BY <1>7, <2>2, <2>3, <2>4, PmFewer
<1>9. Cardinality(PmAhead(ports, n)) <= Cardinality(PmAhead(ports, o))
    BY <1>7, PmRangesFinite, FS_Subset
<1> QED
    BY <1>3, <1>5, <1>8, <1>9

-----------------------------------------------------------------------------
(* PortMap: the steps *)

(* The type invariant, in terms of PmOpenerState. *)
PmTyped ==
    /\ pmPorts \in PmConfigs
    /\ pmRun \in 1..PmRuns /\ pmLive \in BOOLEAN /\ pmRestart \in -1..PmSleep
    /\ pmOpener \in [1..PmRuns -> PmOpenerState]
    /\ pmBound \subseteq 0..(PmTop + 1)
    /\ pmUp \in BOOLEAN
(* PmTyped is PmTypeOK with the states of the openers spelled out. *)
LEMMA PmTypedIs == PmTypeOK <=> PmTyped
BY DEF PmTypeOK, PmTyped, PmOpenerState

(* The bounds are numbers. *)
LEMMA PmBounds ==
    /\ PmTop \in Nat \ {0} /\ PmLength \in Nat \ {0} /\ PmRuns \in Nat \ {0}
    /\ PmSleep \in Nat
BY PortMapAssumption

(* Before a run has a goroutine, there is nothing walked. *)
LEMMA PmFirst ==
    ASSUME NEW ports \in PmConfigs, NEW y,
           y = [pc |-> "ready", at |-> 1, next |-> ports[1].lo]
    PROVE  /\ y \in PmOpenerState /\ y.pc = "ready" /\ PmPlaced(ports, y)
           /\ PmWalked(ports, y) = {}
           /\ Cardinality(PmAhead(ports, y)) <= PmAll(ports)
<1>1. /\ 1 \in 1..Len(ports) /\ 1 \in 1..PmLength /\ ports[1].lo \in 0..(PmTop + 1)
      /\ ports[1].hi \in 0..(PmTop + 1) /\ PmTop \in Nat
    BY PmConfigFacts
<1>2. y \in PmOpenerState /\ y.pc = "ready" /\ y.at = 1 /\ y.next = ports[1].lo
    BY <1>1 DEF PmOpenerState
<1>3. PmPlaced(ports, y)
    BY <1>1, <1>2 DEF PmPlaced
<1>4. PmWalked(ports, y) = {}
    BY <1>1, <1>2 DEF PmWalked, PmPortsOf
<1>5. PmAhead(ports, y) \subseteq PmRangePorts(ports)
    BY DEF PmAhead
<1>6. Cardinality(PmAhead(ports, y)) <= PmAll(ports)
    BY <1>5, PmRangesFinite, FS_Subset DEF PmAll
<1> QED
    BY <1>2, <1>3, <1>4, <1>6

(* Sleeping or not, a goroutine is where it is. *)
LEMMA PmWakes ==
    ASSUME NEW ports \in PmConfigs, NEW o, NEW n,
           o.pc = "sleep" /\ n.pc = "ready" /\ n.at = o.at /\ n.next = o.next
    PROVE  /\ PmPlaced(ports, n) <=> PmPlaced(ports, o)
           /\ PmWalked(ports, n) = PmWalked(ports, o)
           /\ PmAhead(ports, n) = PmAhead(ports, o)
BY DEF PmPlaced, PmWalked, PmAhead

(* The invariant holds at the start. *)
LEMMA PmInitInv == PmInit => PmInv
<1> SUFFICES ASSUME PmInit PROVE PmInv
    OBVIOUS
<1>1. /\ pmPorts \in PmConfigs /\ pmRun = 1 /\ pmLive = TRUE /\ pmRestart = -1
      /\ pmBound = {} /\ pmUp = TRUE
    BY DEF PmInit
<1>2. /\ pmOpener \in [1..PmRuns -> PmOpenerState]
      /\ \A r \in 1..PmRuns : pmOpener[r].pc = "none"
    BY PmBounds DEF PmInit, PmNoOpener, PmOpenerState
<1>3. PmTypeOK
    BY <1>1, <1>2, PmTypedIs, PmBounds DEF PmTyped
<1>4. PmShape /\ PmListens /\ PmPace /\ PmAlone
    BY <1>1, <1>2, PmBounds DEF PmShape, PmListens, PmPace, PmPaced, PmAlone
<1>5. PmExitExplained
    BY <1>1 DEF PmExitExplained
<1> QED
    BY <1>3, <1>4, <1>5 DEF PmInv

(* The control channel is up and parsePortMappings starts. *)
LEMMA PmLinkUpInv ==
    ASSUME PmInv, pmUp, PmLinkUp
    PROVE  PmInv'
<1> DEFINE y == [pc |-> "ready", at |-> 1, next |-> pmPorts[1].lo]
<1>1. /\ PmTyped /\ PmShape /\ PmListens /\ PmPace
      /\ PmAll(pmPorts) < PmSleep => PmAlone
    BY PmTypedIs DEF PmInv
<1>2. /\ pmLive /\ pmRestart = -1 /\ pmOpener[pmRun].pc = "none"
      /\ pmOpener' = [pmOpener EXCEPT ![pmRun] = y]
      /\ UNCHANGED <<pmPorts, pmRun, pmLive, pmRestart, pmBound, pmUp>>
    BY DEF PmLinkUp
<1>3. pmRun \in 1..PmRuns /\ pmRun \in Nat /\ pmPorts \in PmConfigs /\ PmAll(pmPorts) \in Nat
    BY <1>1, PmBounds, PmRangesFinite DEF PmTyped
<1>4. /\ y \in PmOpenerState /\ y.pc = "ready" /\ PmPlaced(pmPorts, y)
      /\ PmWalked(pmPorts, y) = {}
      /\ Cardinality(PmAhead(pmPorts, y)) <= PmAll(pmPorts)
    BY <1>3, PmFirst
<1> HIDE DEF y
<1>5. /\ pmOpener' \in [1..PmRuns -> PmOpenerState] /\ pmOpener'[pmRun] = y
      /\ \A r \in 1..PmRuns : r # pmRun => pmOpener'[r] = pmOpener[r]
    BY <1>1, <1>2, <1>3, <1>4 DEF PmTyped
<1>6. PmTypeOK'
    <2>1. PmTyped'
        BY <1>1, <1>2, <1>5 DEF PmTyped
    <2> QED
        BY <2>1 DEF PmTypeOK, PmTyped, PmOpenerState
<1>7. PmShape'
    BY <1>1, <1>2, <1>3, <1>4, <1>5 DEF PmShape
<1>8. PmListens'
    BY <1>1, <1>2, <1>3, <1>4, <1>5 DEF PmListens
<1>9. PmPace'
    <2>1. PmElapsed(pmRestart) = 0
        BY <1>2 DEF PmElapsed
    <2>2. Cardinality(PmAhead(pmPorts, y)) \in Nat
        BY <1>3, PmRangesFinite, FS_CardinalityType
    <2>3. PmPaced(pmPorts, y, PmElapsed(pmRestart))
        BY <1>4, <2>1, <2>2 DEF PmPaced
    <2> QED
        BY <1>1, <1>2, <1>5, <2>3 DEF PmPace
<1>10. PmAlone => PmAlone'
    BY <1>2, <1>3, <1>4, <1>5 DEF PmAlone
<1>11. PmExitExplained'
    BY <1>2 DEF PmExitExplained
<1> QED
    BY <1>1, <1>2, <1>6, <1>7, <1>8, <1>9, <1>10, <1>11 DEF PmInv

(* Restart cancels the context. *)
LEMMA PmRestartBeginsInv ==
    ASSUME PmInv, pmUp, PmRestartBegins
    PROVE  PmInv'
<1>1. /\ PmTyped /\ PmShape /\ PmListens /\ PmPace
      /\ PmAll(pmPorts) < PmSleep => PmAlone
    BY PmTypedIs DEF PmInv
<1>2. /\ pmLive /\ pmRestart = -1 /\ pmRun < PmRuns
      /\ pmLive' = FALSE /\ pmBound' = {} /\ pmRestart' = PmSleep
      /\ UNCHANGED <<pmPorts, pmRun, pmOpener, pmUp>>
    BY DEF PmRestartBegins
<1>3. PmTypeOK'
    <2>0. pmRestart' \in -1..PmSleep /\ pmBound' \subseteq 0..(PmTop + 1)
        BY <1>2, PmBounds
    <2>1. PmTyped'
        BY <1>1, <1>2, <2>0 DEF PmTyped
    <2> QED
        BY <2>1 DEF PmTypeOK, PmTyped, PmOpenerState
<1>4. PmShape' /\ PmListens'
    BY <1>1, <1>2, PmBounds DEF PmShape, PmListens
<1>5. PmPace'
    <2>1. PmElapsed(pmRestart) = 0 /\ PmElapsed(pmRestart') = 0
        BY <1>2, PmBounds DEF PmElapsed
    <2> QED
        BY <1>1, <1>2, <2>1 DEF PmPace
<1>6. PmAlone => PmAlone'
    BY <1>2 DEF PmAlone
<1>7. PmExitExplained'
    BY <1>2 DEF PmExitExplained
<1> QED
    BY <1>1, <1>2, <1>3, <1>4, <1>5, <1>6, <1>7 DEF PmInv

(* Restart has slept: with ranges that were opened within the sleep every  *)
(* goroutine is done.                                                      *)
LEMMA PmRestartEndsInv ==
    ASSUME PmInv, pmUp, PmRestartEnds
    PROVE  PmInv'
<1>1. /\ PmTyped /\ PmShape /\ PmListens /\ PmPace
      /\ PmAll(pmPorts) < PmSleep => PmAlone
    BY PmTypedIs DEF PmInv
<1>2. /\ pmRestart = 0 /\ pmRun' = pmRun + 1 /\ pmLive' = TRUE /\ pmRestart' = -1
      /\ UNCHANGED <<pmPorts, pmOpener, pmBound, pmUp>>
    BY DEF PmRestartEnds
<1>3. /\ ~pmLive /\ pmRun < PmRuns /\ pmRun \in Nat /\ pmPorts \in PmConfigs
      /\ pmRun' \in 1..PmRuns /\ pmRun' > pmRun
      /\ pmOpener \in [1..PmRuns -> PmOpenerState] /\ PmAll(pmPorts) \in Nat
    BY <1>1, <1>2, PmBounds, PmRangesFinite DEF PmTyped, PmShape
<1>4. \A r \in 1..PmRuns : pmOpener[r].pc \in {"none", "ready", "sleep", "done"}
    BY <1>3 DEF PmOpenerState
<1>5. PmTypeOK'
    <2>1. PmTyped'
        BY <1>1, <1>2, <1>3, PmBounds DEF PmTyped
    <2> QED
        BY <2>1 DEF PmTypeOK, PmTyped, PmOpenerState
<1>6. pmOpener[pmRun'].pc = "none" /\ \A r \in 1..PmRuns : r > pmRun' => pmOpener[r].pc = "none"
    BY <1>1, <1>2, <1>3 DEF PmShape
<1>7. PmShape' /\ PmListens'
    BY <1>1, <1>2, <1>6 DEF PmShape, PmListens
<1>8. /\ PmElapsed(pmRestart) = PmSleep /\ PmElapsed(pmRestart') = 0 /\ PmSleep \in Nat
      /\ \A r \in 1..PmRuns : Cardinality(PmAhead(pmPorts, pmOpener[r])) \in Nat
    BY <1>2, <1>3, PmBounds, PmRangesFinite, FS_CardinalityType DEF PmElapsed
<1>9. PmPace'
    BY <1>1, <1>2, <1>3, <1>8 DEF PmPace, PmPaced
<1>10. PmAll(pmPorts) < PmSleep => PmAlone'
    <2> SUFFICES ASSUME PmAll(pmPorts) < PmSleep PROVE PmAlone'
        OBVIOUS
    <2>1. \A r \in 1..PmRuns : pmOpener[r].pc \in {"none", "done"}
        BY <1>1, <1>3, <1>4, <1>8 DEF PmPace, PmPaced
    <2>2. pmBound = {}
        BY <1>1, <1>3 DEF PmAlone
    <2> QED
        BY <1>2, <1>6, <2>1, <2>2 DEF PmAlone
<1>11. PmExitExplained'
    BY <1>2 DEF PmExitExplained
<1> QED
    BY <1>2, <1>5, <1>7, <1>9, <1>10, <1>11 DEF PmInv

(* A millisecond: goroutines that sleep wake up. *)
LEMMA PmTickInv ==
    ASSUME PmInv, pmUp, PmTick
    PROVE  PmInv'
<1>1. /\ PmTyped /\ PmShape /\ PmListens /\ PmPace
      /\ PmAll(pmPorts) < PmSleep => PmAlone
    BY PmTypedIs DEF PmInv
<1>2. /\ pmRestart # 0 /\ \A r \in 1..PmRuns : pmOpener[r].pc # "ready"
      /\ pmRestart' = IF pmRestart > 0 THEN pmRestart - 1 ELSE pmRestart
      /\ UNCHANGED <<pmPorts, pmRun, pmLive, pmBound, pmUp>>
    BY DEF PmTick
<1>3. /\ pmPorts \in PmConfigs /\ pmOpener \in [1..PmRuns -> PmOpenerState]
      /\ pmRestart \in -1..PmSleep /\ pmRun \in 1..PmRuns /\ PmAll(pmPorts) \in Nat
    BY <1>1, PmRangesFinite DEF PmTyped
<1>4. pmOpener' \in [1..PmRuns -> PmOpenerState]
    BY <1>3 DEF PmTick, PmOpenerState
<1>5. \A r \in 1..PmRuns :
        \/ pmOpener[r].pc # "sleep" /\ pmOpener'[r] = pmOpener[r]
        \/ /\ pmOpener[r].pc = "sleep" /\ pmOpener'[r].pc = "ready"
           /\ pmOpener'[r].at = pmOpener[r].at /\ pmOpener'[r].next = pmOpener[r].next
    BY <1>3 DEF PmTick, PmOpenerState
<1>6. \A r \in 1..PmRuns :
        /\ PmPlaced(pmPorts, pmOpener'[r]) <=> PmPlaced(pmPorts, pmOpener[r])
        /\ PmWalked(pmPorts, pmOpener'[r]) = PmWalked(pmPorts, pmOpener[r])
        /\ PmAhead(pmPorts, pmOpener'[r]) = PmAhead(pmPorts, pmOpener[r])
        /\ pmOpener'[r].pc = "none" <=> pmOpener[r].pc = "none"
        /\ pmOpener[r].pc \in {"none", "done"} => pmOpener'[r] = pmOpener[r]
    <2> TAKE r \in 1..PmRuns
    <2>1. CASE pmOpener[r].pc # "sleep" /\ pmOpener'[r] = pmOpener[r]
        BY <2>1
    <2>2. CASE /\ pmOpener[r].pc = "sleep" /\ pmOpener'[r].pc = "ready"
               /\ pmOpener'[r].at = pmOpener[r].at /\ pmOpener'[r].next = pmOpener[r].next
        BY <1>3, <2>2, PmWakes
    <2> QED
        BY <1>5, <2>1, <2>2
<1>7. /\ pmRestart' \in -1..PmSleep /\ (pmRestart' = -1 <=> pmRestart = -1)
      /\ PmElapsed(pmRestart) \in Nat /\ PmElapsed(pmRestart') \in Nat
      /\ PmElapsed(pmRestart') <= PmElapsed(pmRestart) + 1
    BY <1>2, <1>3, PmBounds DEF PmElapsed
<1>8. PmTypeOK'
    <2>1. PmTyped'
        BY <1>1, <1>2, <1>4, <1>7 DEF PmTyped
    <2> QED
        BY <2>1 DEF PmTypeOK, PmTyped, PmOpenerState
<1>9. PmShape'
    BY <1>1, <1>2, <1>6, <1>7 DEF PmShape
<1>10. PmListens'
    BY <1>1, <1>2, <1>3, <1>6 DEF PmListens
<1>11. PmPace'
    <2> SUFFICES ASSUME NEW r \in 1..PmRuns
                 PROVE  PmPaced(pmPorts, pmOpener'[r], PmElapsed(pmRestart'))
        BY <1>2 DEF PmPace
    <2>1. PmPaced(pmPorts, pmOpener[r], PmElapsed(pmRestart)) /\ pmOpener[r].pc # "ready"
        BY <1>1, <1>2 DEF PmPace
    <2>2. Cardinality(PmAhead(pmPorts, pmOpener[r])) \in Nat
        BY <1>3, PmRangesFinite, FS_CardinalityType
    <2>3. /\ pmOpener'[r].pc # "sleep"
          /\ pmOpener'[r].pc = "ready" => pmOpener[r].pc = "sleep"
        BY <1>5, <2>1
    <2>4. pmOpener'[r].pc = "ready" =>
            Cardinality(PmAhead(pmPorts, pmOpener[r])) + PmElapsed(pmRestart) + 1 <= PmAll(pmPorts)
        BY <2>1, <2>3 DEF PmPaced
    <2>5. pmOpener'[r].pc = "ready" =>
            Cardinality(PmAhead(pmPorts, pmOpener[r])) + PmElapsed(pmRestart') <= PmAll(pmPorts)
        BY <1>3, <1>7, <2>2, <2>4
    <2> QED
        BY <1>6, <2>3, <2>5 DEF PmPaced
<1>12. PmAlone => PmAlone'
    BY <1>2, <1>3, <1>6 DEF PmAlone
<1>13. PmExitExplained'
    BY <1>2 DEF PmExitExplained
<1> QED
    BY <1>1, <1>2, <1>8, <1>9, <1>10, <1>11, <1>12, <1>13 DEF PmInv

(* Why a port ends the process, when others hold the ports of held. *)
PmFatal(r, held) == \/ PmRefused(pmPorts[pmOpener[r].at])
                    \/ ~PmHasAddress(pmPorts[pmOpener[r].at], pmOpener[r].next)
                    \/ pmOpener[r].next \in pmBound \cup held

(* A port that ends the process is explained: the mapping is refused, has  *)
(* no address, names a port of another mapping or of others, or the ranges *)
(* are too long.                                                           *)
LEMMA PmFatalExplained ==
    ASSUME PmInv, pmUp, NEW r \in 1..PmRuns, pmOpener[r].pc = "ready",
           NEW held \in SUBSET PmForeign, PmFatal(r, held)
    PROVE  \/ \E i \in 1..Len(pmPorts) :
                PmRefused(pmPorts[i]) \/ ~PmHasAddress(pmPorts[i], pmPorts[i].lo)
           \/ \E i, j \in 1..Len(pmPorts) :
                i # j /\ PmPortsOf(pmPorts[i]) \cap PmPortsOf(pmPorts[j]) # {}
           \/ \E i \in 1..Len(pmPorts) : PmPortsOf(pmPorts[i]) \cap PmForeign # {}
           \/ PmAll(pmPorts) >= PmSleep
<1> DEFINE o == pmOpener[r]
<1>1. /\ PmTyped /\ PmShape
      /\ PmAll(pmPorts) < PmSleep => PmAlone
    BY PmTypedIs DEF PmInv
<1>2. /\ pmPorts \in PmConfigs /\ o \in PmOpenerState /\ PmPlaced(pmPorts, o)
      /\ pmRun \in 1..PmRuns /\ PmAll(pmPorts) \in Nat
    BY <1>1, PmRangesFinite DEF PmTyped, PmShape
<1>3. o.at \in 1..Len(pmPorts) /\ o.next \in Nat /\ o.at \in Nat
    BY <1>2, PmConfigFacts DEF PmPlaced, PmOpenerState
<1>4. CASE PmRefused(pmPorts[o.at])
    BY <1>3, <1>4
<1>5. CASE ~PmHasAddress(pmPorts[o.at], o.next)
    <2>1. ~PmIsRange(pmPorts[o.at])
        BY <1>5 DEF PmHasAddress, PmIsRange
    <2>2. o.next = pmPorts[o.at].lo
        BY <1>2, <2>1 DEF PmPlaced
    <2> QED
        BY <1>3, <1>5, <2>2
<1>6. CASE o.next \in pmBound /\ ~PmRefused(pmPorts[o.at]) /\ PmAll(pmPorts) < PmSleep
    <2>1. PmAlone
        BY <1>1, <1>6
    <2>2. r = pmRun
        BY <1>1, <1>2, <2>1, PmBounds DEF PmAlone, PmShape
    <2>3. pmBound \subseteq PmWalked(pmPorts, o)
        BY <1>6, <2>1, <2>2 DEF PmAlone
    <2>4. o.next \in PmPortsOf(pmPorts[o.at])
        BY <1>2, <1>6, PmAtPort
    <2>5. PICK i \in 1..Len(pmPorts) :
            /\ o.next \in PmPortsOf(pmPorts[i])
            /\ i < o.at \/ (i = o.at /\ o.next < o.next)
        BY <1>6, <2>3 DEF PmWalked
    <2>6. i # o.at
        BY <1>3, <2>5
    <2> QED
        BY <1>3, <2>4, <2>5, <2>6
<1>7. CASE o.next \in held /\ ~PmRefused(pmPorts[o.at])
    <2>1. o.next \in PmPortsOf(pmPorts[o.at])
        BY <1>2, <1>7, PmAtPort
    <2> QED
        BY <1>3, <1>7, <2>1
<1>8. PmAll(pmPorts) < PmSleep \/ PmAll(pmPorts) >= PmSleep
    BY <1>2, PmBounds
<1>9. \/ PmRefused(pmPorts[o.at]) \/ ~PmHasAddress(pmPorts[o.at], o.next)
      \/ o.next \in pmBound \/ o.next \in held
    BY DEF PmFatal
<1> HIDE DEF o
<1> QED
    BY <1>4, <1>5, <1>6, <1>7, <1>8, <1>9

(* One port of a walk. *)
LEMMA PmOpenInv ==
    ASSUME PmInv, pmUp, NEW r \in 1..PmRuns, PmOpen(r)
    PROVE  PmInv'
<1> DEFINE o == pmOpener[r]
           n == PmAdvance(o)
<1>1. /\ PmTyped /\ PmShape /\ PmListens /\ PmPace
      /\ PmAll(pmPorts) < PmSleep => PmAlone
    BY PmTypedIs DEF PmInv
<1>2. /\ o.pc = "ready"
      /\ UNCHANGED <<pmPorts, pmRun, pmLive, pmRestart>>
    BY DEF PmOpen
<1>h. PICK held \in SUBSET PmForeign :
        /\ pmUp' = ~PmFatal(r, held)
        /\ pmBound' = IF PmFatal(r, held) THEN {}
                      ELSE IF pmLive THEN pmBound \cup {o.next} ELSE pmBound
        /\ pmOpener' = [pmOpener EXCEPT ![r] = IF PmFatal(r, held) THEN o ELSE n]
    <2> HIDE DEF n
    <2> QED
        BY DEF PmOpen, PmFatal, n
<1>3. /\ pmPorts \in PmConfigs /\ o \in PmOpenerState /\ PmPlaced(pmPorts, o)
      /\ pmOpener \in [1..PmRuns -> PmOpenerState]
      /\ pmRun \in 1..PmRuns /\ PmAll(pmPorts) \in Nat /\ pmRestart \in -1..PmSleep
    BY <1>1, <1>2, PmRangesFinite DEF PmTyped, PmShape
<1>4. CASE PmFatal(r, held)
    <2>1. pmUp' = FALSE /\ pmBound' = {} /\ pmOpener' = pmOpener
        BY <1>3, <1>4, <1>h
    <2>2. PmTypeOK'
        <3>1. PmTyped'
            BY <1>1, <1>2, <2>1 DEF PmTyped
        <3> QED
            BY <3>1 DEF PmTypeOK, PmTyped, PmOpenerState
    <2>3. PmShape' /\ PmListens' /\ PmPace'
        BY <1>1, <1>2, <2>1 DEF PmShape, PmListens, PmPace
    <2>4. PmAlone => PmAlone'
        BY <1>2, <2>1 DEF PmAlone
    <2>5. PmExitExplained'
        BY <1>2, <1>4, PmFatalExplained DEF PmExitExplained, PmAll
    <2> QED
        BY <1>1, <1>2, <2>2, <2>3, <2>4, <2>5 DEF PmInv
<1>5. CASE ~PmFatal(r, held)
    <2>1. /\ pmUp' = TRUE /\ pmOpener' = [pmOpener EXCEPT ![r] = n]
          /\ pmBound' = IF pmLive THEN pmBound \cup {o.next} ELSE pmBound
        BY <1>5, <1>h
    <2>2. PmGoesOn(pmPorts, o, n) /\ n \in PmOpenerState
        BY <1>3, PmAdvanceGoesOn
    <2> HIDE DEF n
    <2>3. /\ pmOpener' \in [1..PmRuns -> PmOpenerState] /\ pmOpener'[r] = n
          /\ \A q \in 1..PmRuns : q # r => pmOpener'[q] = pmOpener[q]
        BY <1>3, <2>1, <2>2
    <2>4. ~PmRefused(pmPorts[o.at])
        BY <1>5 DEF PmFatal
    <2>5. /\ n.pc # "none" /\ PmPlaced(pmPorts, n)
          /\ PmWalked(pmPorts, n) = PmWalked(pmPorts, o) \cup {o.next}
          /\ n.pc = "sleep" =>
               Cardinality(PmAhead(pmPorts, n)) + 1 <= Cardinality(PmAhead(pmPorts, o))
          /\ n.pc = "ready" =>
               Cardinality(PmAhead(pmPorts, n)) <= Cardinality(PmAhead(pmPorts, o))
        BY <1>2, <1>3, <2>2, <2>4, PmWalkStep
    <2>6. o.next \in PmAllPorts(pmPorts) /\ o.next \in 0..(PmTop + 1)
        BY <1>3, <2>4, PmAtPort DEF PmAllPorts, PmPlaced, PmOpenerState
    <2> HIDE DEF o
    <2>7. PmTypeOK'
        <3>1. PmTyped'
            BY <1>1, <1>2, <2>1, <2>3, <2>6 DEF PmTyped
        <3> QED
            BY <3>1 DEF PmTypeOK, PmTyped, PmOpenerState
    <2>8. r <= pmRun /\ r \in Nat /\ pmRun \in Nat
        BY <1>1, <1>2, <1>3, PmBounds DEF PmShape, o
    <2>9. PmShape'
        BY <1>1, <1>2, <1>3, <2>1, <2>3, <2>5, <2>6, <2>8 DEF PmShape
    <2>10. PmListens'
        <3>1. CASE r = pmRun
            <4>1. pmLive => PmWalked(pmPorts, o) \subseteq pmBound
                BY <1>1, <1>2, <3>1 DEF PmListens, o
            <4> QED
                BY <1>2, <2>1, <2>3, <2>5, <3>1, <4>1 DEF PmListens
        <3>2. CASE r # pmRun
            BY <1>1, <1>2, <1>3, <2>1, <2>3, <3>2 DEF PmListens
        <3> QED
            BY <3>1, <3>2
    <2>11. PmPace'
        <3>1. /\ PmElapsed(pmRestart) \in Nat
              /\ Cardinality(PmAhead(pmPorts, o)) \in Nat
              /\ Cardinality(PmAhead(pmPorts, n)) \in Nat
            BY <1>3, PmBounds, PmRangesFinite, FS_CardinalityType DEF PmElapsed
        <3>2. Cardinality(PmAhead(pmPorts, o)) + PmElapsed(pmRestart) <= PmAll(pmPorts)
            BY <1>1, <1>2 DEF PmPace, PmPaced, o
        <3>3. PmPaced(pmPorts, n, PmElapsed(pmRestart))
            BY <1>3, <2>5, <3>1, <3>2 DEF PmPaced
        <3> QED
            BY <1>1, <1>2, <2>3, <3>3 DEF PmPace
    <2>12. PmAll(pmPorts) < PmSleep => PmAlone'
        <3> SUFFICES ASSUME PmAll(pmPorts) < PmSleep PROVE PmAlone'
            OBVIOUS
        <3>1. PmAlone
            BY <1>1
        <3>2. r = pmRun
            BY <1>2, <2>8, <3>1 DEF PmAlone, o
        <3>3. pmLive => pmBound \subseteq PmWalked(pmPorts, o)
            BY <1>2, <3>1, <3>2 DEF PmAlone, o
        <3>4. ~pmLive => pmBound = {}
            BY <3>1 DEF PmAlone
        <3>5. pmLive' => pmBound' \subseteq PmWalked(pmPorts', pmOpener'[pmRun'])
            BY <1>2, <2>1, <2>3, <2>5, <3>2, <3>3
        <3>6. \A q \in 1..PmRuns : q < pmRun' => pmOpener'[q].pc \in {"none", "done"}
            BY <1>2, <1>3, <2>3, <2>8, <3>1, <3>2 DEF PmAlone
        <3>7. ~pmLive' => pmBound' = {}
            BY <1>2, <2>1, <3>4
        <3> QED
            BY <1>2, <2>3, <2>5, <3>2, <3>5, <3>6, <3>7 DEF PmAlone
    <2>13. PmExitExplained'
        BY <2>1 DEF PmExitExplained
    <2> QED
        BY <1>2, <2>7, <2>9, <2>10, <2>11, <2>12, <2>13 DEF PmInv
<1> QED
    BY <1>4, <1>5

(* A step that changes nothing. *)
LEMMA PmQuietInv ==
    ASSUME PmInv, UNCHANGED pmVars
    PROVE  PmInv'
<1>1. PmTypeOK' /\ PmShape' /\ PmListens' /\ PmPace'
    BY DEF PmInv, pmVars, PmTypeOK, PmShape, PmListens, PmPace
<1>2. PmAlone => PmAlone'
    BY DEF pmVars, PmAlone
<1>3. PmExitExplained'
    BY DEF PmInv, pmVars, PmExitExplained
<1> QED
    BY <1>1, <1>2, <1>3 DEF PmInv, pmVars

(* Every step of the port mappings keeps the invariant. *)
LEMMA PmStepInv == PmInv /\ [PmNext]_pmVars => PmInv'
BY PmLinkUpInv, PmRestartBeginsInv, PmRestartEndsInv, PmTickInv, PmOpenInv, PmQuietInv
   DEF PmNext

(* The port mappings: where each parsePortMappings goroutine is, what it   *)
(* has opened, and how far Restart's sleep has taken it.                   *)
THEOREM PmInvAlways == PmSpec => []PmInv
<1>1. PmInit => PmInv
    BY PmInitInv
<1>2. PmInv /\ [PmNext]_pmVars => PmInv'
    BY PmStepInv
<1> QED
    BY <1>1, <1>2, PTL DEF PmSpec

(* Types of the state of parsePortMappings and Restart. *)
THEOREM PmTypeCorrect == PmSpec => []PmTypeOK
<1>1. PmInv => PmTypeOK
    BY DEF PmInv
<1> QED
    BY <1>1, PmInvAlways, PTL

(* When parsePortMappings of the current run is done, every port of the    *)
(* configuration listens and no other does, whatever goroutines of earlier *)
(* runs were still doing.                                                  *)
THEOREM PmAllListenAlways == PmSpec => []PmAllListen
<1>1. PmInv => PmAllListen
    <2> SUFFICES ASSUME PmInv, pmUp, pmLive, pmOpener[pmRun].pc = "done"
                 PROVE  pmBound = PmAllPorts(pmPorts)
        BY DEF PmAllListen, PmAllPorts
    <2>1. /\ pmBound \subseteq PmAllPorts(pmPorts)
          /\ PmWalked(pmPorts, pmOpener[pmRun]) \subseteq pmBound
        BY DEF PmInv, PmShape, PmListens
    <2>2. PmAllPorts(pmPorts) \subseteq PmWalked(pmPorts, pmOpener[pmRun])
        BY DEF PmWalked, PmAllPorts
    <2> QED
        BY <2>1, <2>2
<1> QED
    BY <1>1, PmInvAlways, PTL

(* parsePortMappings ends the process only for what is wrong in the        *)
(* configuration, or for ranges with at least as many ports as Restart     *)
(* sleeps milliseconds.                                                    *)
THEOREM PmExitExplainedAlways == PmSpec => []PmExitExplained
<1>1. PmInv => PmExitExplained
    BY DEF PmInv
<1> QED
    BY <1>1, PmInvAlways, PTL

-----------------------------------------------------------------------------
(* The six parts together *)

(* In the composition each part behaves as its own specification says. *)
THEOREM SvParts == SvSpec => AuSpec /\ UdSpec /\ WtSpec /\ QtSpec /\ UsSpec /\ PmSpec
<1> DEFINE svVars == <<svPart, auVars, udVars, wtVars, qtVars, usVars, pmVars>>
<1>1. SvInit => AuInit /\ UdInit /\ WtInit /\ QtInit /\ UsInit /\ PmInit
    BY DEF SvInit
<1>2. [SvNext]_svVars => /\ [AuNext]_auVars /\ [UdNext]_udVars /\ [WtNext]_wtVars
                         /\ [QtNext]_qtVars /\ [UsNext]_usVars /\ [PmNext]_pmVars
    BY DEF SvNext
<1> QED
    BY <1>1, <1>2, PTL DEF SvSpec, AuSpec, UdSpec, WtSpec, QtSpec, UsSpec, PmSpec

(* The variables of all six parts hold what the code's types and the       *)
(* capacities of its channels allow, for every size of each part.          *)
THEOREM SvTypeCorrect == SvSpec => []SvTypeOK
BY SvParts, AuTypeCorrect, UdTypeCorrect, WtTypeCorrect, QtTypeCorrect, UsTypeCorrect,
   PmTypeCorrect, PTL DEF SvTypeOK

(* All that is claimed of the six services holds of the composition: no    *)
(* property of one depends on what the others do meanwhile.                *)
THEOREM SvSafe ==
    SvSpec => [](/\ AuTableServed /\ AuOneFlow /\ AuNoFalseCongestion
                 /\ UdEntriesOpen /\ UdEntriesServed /\ UdAddressLast
                 /\ WtFraming /\ WtIdleWatched /\ QtHandover /\ QtUsersKept
                 /\ UsNeverOvercounts /\ UsAccounted /\ PmExitExplained /\ PmAllListen)
BY SvParts, AuTableServedAlways, AuOneFlowAlways, AuNoFalseCongestionAlways,
   UdEntriesOpenAlways, UdEntriesServedAlways, UdAddressLastAlways, WtFramingAlways,
   WtIdleWatchedAlways, QtHandoverAlways, QtUsersKeptAlways, UsNeverOvercountsAlways,
   UsAccountedAlways, PmExitExplainedAlways, PmAllListenAlways, PTL
=============================================================================
