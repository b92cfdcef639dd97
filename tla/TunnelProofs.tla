---------------------------- MODULE TunnelProofs ----------------------------
(***************************************************************************)
(* The tunnels of the ws and of the quic transport, for every number of    *)
(* tunnels, users, handleLoops and restarts.                               *)
(***************************************************************************)
EXTENDS WsTunnels, QuicTunnels, FiniteSetTheorems, TLAPS

-----------------------------------------------------------------------------
(* WsTunnels: messages on their way to the client *)

WtMessages == {"ping", "addr", "data"}
WtFits == {w \in Seq(WtMessages) : Len(w) <= WtWire}
WtTunnelState ==
    [pc : {"none", "arrived", "idle", "taken", "relay", "closed"},
     server : BOOLEAN, client : BOOLEAN, keeper : {"off", "start", "wait", "write"},
     ping : BOOLEAN, lock : {"free", "ping", "loop"},
     dialer : {"none", "check", "read", "relay", "gone"}, local : WtLocals \cup {WtNone},
     wire : WtFits]
WtLoopState == [pc : {"idle", "check", "wait", "lock", "done"},
                local : WtLocals \cup {WtNone}, tun : WtTunnels \cup {WtNone}]

(* What the client will read is pings, one address, data, in this order;   *)
(* d says whether the address is still to come.                            *)
WtFramed(w, d) ==
    \A i \in 1..Len(w) :
        (d \in WtAwaiting /\ \A j \in 1..(i - 1) : w[j] = "ping") <=> w[i] \in {"ping", "addr"}
WtAllPings(w) == \A i \in 1..Len(w) : w[i] = "ping"
WtAnnounced(w) == \E i \in 1..Len(w) : w[i] = "addr"

(* The mutex tells whether the address was written: keepAlive holds it for *)
(* a ping, handleLoop keeps it for good.                                   *)
WtShape(x) ==
    /\ x.pc = "none" => x = WtNewTunnel
    /\ x.pc # "none" => x.dialer # "none"
    /\ x.dialer \in {"check", "read", "relay"} => x.client
    /\ x.lock = "ping" <=> x.keeper = "write"
    /\ x.lock = "loop" => x.pc \in {"relay", "closed"}
    /\ x.pc = "relay" => x.lock = "loop"
    /\ x.pc \in {"none", "arrived"} => x.keeper = "off" /\ x.ping
    /\ x.pc = "idle" => x.ping /\ (x.server => x.keeper # "off")
WtOrder(x) ==
    x.dialer # "gone" =>
        /\ WtFramed(x.wire, x.dialer)
        /\ x.lock # "loop" => WtAllPings(x.wire) /\ x.dialer # "relay"
        /\ x.pc = "relay" /\ x.dialer \in WtAwaiting => WtAnnounced(x.wire)
WtSound(x) == WtShape(x) /\ WtOrder(x)

(* A tunnel that waits is queued once; one that a handleLoop took is taken *)
(* by it alone.                                                            *)
WtPlaces ==
    /\ \A i \in 1..Len(wtChan) : wtTun[wtChan[i]].pc = "idle"
    /\ \A i, j \in 1..Len(wtChan) : wtChan[i] = wtChan[j] => i = j
    /\ \A h \in WtLoops : wtLoop[h].pc = "lock" =>
         wtLoop[h].tun \in WtTunnels /\ wtTun[wtLoop[h].tun].pc = "taken"
    /\ \A g, h \in WtLoops : wtLoop[g].pc = "lock" /\ wtLoop[h].pc = "lock"
         /\ wtLoop[g].tun = wtLoop[h].tun => g = h

WtRest ==
    /\ wtCtx \in [{"server", "client"} -> BOOLEAN]
    /\ wtChan \in Seq(WtTunnels) /\ Len(wtChan) <= WtChannelSize
    /\ wtLocal \in [WtLocals -> {"outside", "queued", "held", "relay", "closed", "dropped"}]
    /\ wtQueue \in Seq(WtLocals) /\ Len(wtQueue) <= WtChannelSize
    /\ wtLoop \in [WtLoops -> WtLoopState]
WtTunnelsSound ==
    /\ wtTun \in [WtTunnels -> WtTunnelState]
    /\ \A t \in WtTunnels : WtSound(wtTun[t])

WtInv == WtRest /\ WtTunnelsSound /\ WtPlaces

-----------------------------------------------------------------------------
(* Lemmas about the order of messages *)

(* A ping joins pings. *)
LEMMA WtPingSent ==
    ASSUME NEW w \in Seq(WtMessages), WtAllPings(w)
    PROVE  WtAllPings(Append(w, "ping")) /\ \A d \in WtAwaiting : WtFramed(Append(w, "ping"), d)
BY DEF WtAllPings, WtFramed

(* The address follows pings only. *)
LEMMA WtAddressSent ==
    ASSUME NEW w \in Seq(WtMessages), WtAllPings(w)
    PROVE  /\ WtAnnounced(Append(w, "addr"))
           /\ \A d \in WtAwaiting : WtFramed(Append(w, "addr"), d)
<1>1. Append(w, "addr") \in Seq(WtMessages) /\ Len(Append(w, "addr")) = Len(w) + 1
      /\ Append(w, "addr")[Len(w) + 1] = "addr"
      /\ \A i \in 1..Len(w) : Append(w, "addr")[i] = "ping"
    BY DEF WtAllPings, WtMessages
<1>2. WtAnnounced(Append(w, "addr"))
    BY <1>1 DEF WtAnnounced
<1>3. \A d \in WtAwaiting : WtFramed(Append(w, "addr"), d)
    BY <1>1 DEF WtFramed
<1> QED
    BY <1>2, <1>3

(* Data follows the address, or is all that comes. *)
LEMMA WtDataSent ==
    ASSUME NEW w \in Seq(WtMessages), NEW d, WtFramed(w, d), d \in WtAwaiting => WtAnnounced(w)
    PROVE  /\ WtFramed(Append(w, "data"), d)
           /\ d \in WtAwaiting => WtAnnounced(Append(w, "data"))
<1>1. Len(Append(w, "data")) = Len(w) + 1 /\ Append(w, "data")[Len(w) + 1] = "data"
      /\ \A i \in 1..Len(w) : Append(w, "data")[i] = w[i] /\ Len(w) \in Nat
    OBVIOUS
<1>2. d \in WtAwaiting => WtAnnounced(Append(w, "data"))
    BY <1>1 DEF WtAnnounced
<1>3. WtFramed(Append(w, "data"), d)
    BY <1>1 DEF WtFramed, WtAnnounced
<1> QED
    BY <1>2, <1>3

(* The client reads a ping, *)
LEMMA WtPingRead ==
    ASSUME NEW w \in Seq(WtMessages), w # <<>>, w[1] = "ping", WtFramed(w, "read")
    PROVE  /\ \A d \in WtAwaiting : WtFramed(Tail(w), d)
           /\ WtAllPings(w) => WtAllPings(Tail(w))
           /\ WtAnnounced(w) => WtAnnounced(Tail(w))
<1>1. /\ Len(w) \in Nat \ {0} /\ Len(Tail(w)) = Len(w) - 1
      /\ \A i \in 1..Len(Tail(w)) : Tail(w)[i] = w[i + 1]
    OBVIOUS
<1>2. WtAllPings(w) => WtAllPings(Tail(w))
    BY <1>1 DEF WtAllPings
<1>3. WtAnnounced(w) => WtAnnounced(Tail(w))
    <2> SUFFICES ASSUME WtAnnounced(w) PROVE WtAnnounced(Tail(w))
        OBVIOUS
    <2>1. PICK i \in 1..Len(w) : w[i] = "addr"
        BY DEF WtAnnounced
    <2>2. i - 1 \in 1..Len(Tail(w)) /\ Tail(w)[i - 1] = "addr"
        BY <1>1, <2>1
    <2> QED
        BY <2>2 DEF WtAnnounced
<1>4. \A d \in WtAwaiting : WtFramed(Tail(w), d)
    <2> SUFFICES ASSUME NEW i \in 1..Len(Tail(w))
                 PROVE  (\A j \in 1..(i - 1) : Tail(w)[j] = "ping")
                            <=> Tail(w)[i] \in {"ping", "addr"}
        BY DEF WtFramed
    <2>1. i + 1 \in 1..Len(w) /\ Tail(w)[i] = w[i + 1]
        BY <1>1
    <2>2. (\A j \in 1..(i - 1) : Tail(w)[j] = "ping") <=> \A j \in 1..i : w[j] = "ping"
        <3>1. ASSUME \A j \in 1..(i - 1) : Tail(w)[j] = "ping", NEW j \in 1..i
              PROVE  w[j] = "ping"
            <4>1. CASE j = 1
                BY <4>1
            <4>2. CASE j # 1
                <5>1. j - 1 \in 1..(i - 1) /\ j - 1 \in 1..Len(Tail(w)) /\ (j - 1) + 1 = j
                    BY <1>1, <4>2
                <5>2. Tail(w)[j - 1] = "ping"
                    BY <3>1, <5>1
                <5> QED
                    BY <1>1, <5>1, <5>2
            <4> QED
                BY <4>1, <4>2
        <3>2. ASSUME \A j \in 1..i : w[j] = "ping", NEW j \in 1..(i - 1)
              PROVE  Tail(w)[j] = "ping"
            BY <1>1, <3>2
        <3> QED
            BY <3>1, <3>2
    <2>3. (\A j \in 1..((i + 1) - 1) : w[j] = "ping") <=> w[i + 1] \in {"ping", "addr"}
        BY <2>1 DEF WtFramed, WtAwaiting
    <2>4. (i + 1) - 1 = i
        BY <1>1
    <2> QED
        BY <2>1, <2>2, <2>3, <2>4
<1> QED
    BY <1>2, <1>3, <1>4

(* the address, *)
LEMMA WtAddressRead ==
    ASSUME NEW w \in Seq(WtMessages), w # <<>>, w[1] # "ping", WtFramed(w, "read")
    PROVE  WtFramed(Tail(w), "relay")
<1>1. /\ Len(w) \in Nat \ {0} /\ Len(Tail(w)) = Len(w) - 1
      /\ \A i \in 1..Len(Tail(w)) : Tail(w)[i] = w[i + 1]
    OBVIOUS
<1>2. \A i \in 1..Len(w) : i # 1 => w[i] \notin {"ping", "addr"}
    BY <1>1 DEF WtFramed, WtAwaiting
<1> QED
    BY <1>1, <1>2 DEF WtFramed, WtAwaiting

(* or data. *)
LEMMA WtDataRead ==
    ASSUME NEW w \in Seq(WtMessages), w # <<>>, WtFramed(w, "relay")
    PROVE  WtFramed(Tail(w), "relay")
<1>1. /\ Len(w) \in Nat \ {0} /\ Len(Tail(w)) = Len(w) - 1
      /\ \A i \in 1..Len(Tail(w)) : Tail(w)[i] = w[i + 1]
    OBVIOUS
<1> QED
    BY <1>1 DEF WtFramed, WtAwaiting

(* Nothing on its way is in order and holds no address. *)
LEMMA WtNothing == \A d : WtFramed(<<>>, d) /\ WtAllPings(<<>>)
BY DEF WtFramed, WtAllPings

(* A message that fits, one read. *)
LEMMA WtRoom ==
    ASSUME NEW w \in WtFits
    PROVE  /\ w \in Seq(WtMessages) /\ <<>> \in WtFits
           /\ \A m \in WtMessages : Len(w) < WtWire => Append(w, m) \in WtFits
           /\ w # <<>> => Tail(w) \in WtFits /\ Head(w) = w[1] /\ w[1] \in WtMessages
BY WsTunnelsAssumption DEF WtFits

-----------------------------------------------------------------------------
(* WsTunnels: the steps *)

(* One tunnel changes and is sound afterwards. *)
LEMMA WtOneTunnel ==
    ASSUME WtTunnelsSound, NEW t \in WtTunnels, NEW y \in WtTunnelState, WtSound(y),
           wtTun' = [wtTun EXCEPT ![t] = y]
    PROVE  /\ WtTunnelsSound'
           /\ wtTun'[t] = y /\ \A u \in WtTunnels : u # t => wtTun'[u] = wtTun[u]
<1>1. /\ wtTun' \in [WtTunnels -> WtTunnelState]
      /\ wtTun'[t] = y /\ \A u \in WtTunnels : u # t => wtTun'[u] = wtTun[u]
    BY DEF WtTunnelsSound
<1>2. \A u \in WtTunnels : WtSound(wtTun'[u])
    BY <1>1 DEF WtTunnelsSound
<1> QED
    BY <1>1, <1>2 DEF WtTunnelsSound

(* A tunnel that is neither queued nor taken changes, or one that keeps    *)
(* its place.                                                              *)
LEMMA WtPlacesKept ==
    ASSUME WtRest, WtPlaces, UNCHANGED <<wtChan, wtLoop>>,
           \A u \in WtTunnels : wtTun[u].pc \in {"idle", "taken"} => wtTun'[u].pc = wtTun[u].pc
    PROVE  WtPlaces'
<1>1. \A i \in 1..Len(wtChan) : wtChan[i] \in WtTunnels
    BY DEF WtRest
<1> QED
    BY <1>1 DEF WtPlaces

(* The steps of one tunnel that change nothing else. *)
WtAlone(t) ==
    \/ WtDial(t) \/ WtKeeperStarts(t) \/ WtKeeperCancelled(t) \/ WtKeeperEnds(t) \/ WtTick(t)
    \/ WtPing(t) \/ WtRelayData(t) \/ WtDialerChecks(t) \/ WtDialerReads(t) \/ WtDialerFails(t)
    \/ WtClientRelay(t) \/ WtCollect(t)

(* A step of one ws tunnel leaves it sound, and in or out of the queue as  *)
(* it was.                                                                 *)
LEMMA WtAloneSound ==
    ASSUME WtRest, WtTunnelsSound, NEW t \in WtTunnels, WtAlone(t)
    PROVE  \E y \in WtTunnelState :
             /\ WtSound(y) /\ wtTun' = [wtTun EXCEPT ![t] = y]
             /\ wtTun[t].pc \in {"idle", "taken"} => y.pc = wtTun[t].pc
<1>x. PICK x : x = wtTun[t]
    OBVIOUS
<1>0. /\ x \in WtTunnelState /\ WtShape(x) /\ WtOrder(x)
      /\ x.wire \in WtFits /\ x.wire \in Seq(WtMessages)
      /\ wtTun \in [WtTunnels -> WtTunnelState]
    BY <1>x, WtRoom DEF WtTunnelsSound, WtSound, WtTunnelState
<1>1. CASE WtDial(t)
    <2> DEFINE y == [x EXCEPT !.pc = "arrived", !.server = TRUE, !.client = TRUE,
                              !.dialer = "check"]
    <2>1. x = WtNewTunnel /\ wtTun' = [wtTun EXCEPT ![t] = y]
        BY <1>0, <1>1, <1>x DEF WtDial, WtShape
    <2>2. y \in WtTunnelState /\ y.wire = <<>> /\ y.pc = "arrived"
        BY <1>0, <2>1 DEF WtTunnelState, WtNewTunnel
    <2>3. WtSound(y)
        BY <1>0, <2>1, <2>2, WtNothing DEF WtSound, WtShape, WtOrder, WtNewTunnel
    <2>4. x.pc \notin {"idle", "taken"}
        BY <2>1 DEF WtNewTunnel
    <2> QED
        BY <1>x, <2>1, <2>2, <2>3, <2>4
<1>2. CASE WtKeeperStarts(t)
    <2> DEFINE y == [x EXCEPT !.keeper = "wait"]
    <2>1. x.keeper = "start" /\ wtTun' = [wtTun EXCEPT ![t] = y]
        BY <1>0, <1>2, <1>x DEF WtKeeperStarts
    <2>2. y \in WtTunnelState
        BY <1>0 DEF WtTunnelState
    <2>3. WtSound(y)
        BY <1>0, <2>1 DEF WtSound, WtShape, WtOrder, WtTunnelState, WtNewTunnel
    <2>4. y.pc = x.pc
        BY <1>0 DEF WtTunnelState
    <2> QED
        BY <1>x, <2>1, <2>2, <2>3, <2>4
<1>3. CASE WtKeeperCancelled(t)
    <2> DEFINE y == [x EXCEPT !.keeper = "off", !.server = FALSE]
    <2>1. x.keeper = "wait" /\ wtTun' = [wtTun EXCEPT ![t] = y]
        BY <1>0, <1>3, <1>x DEF WtKeeperCancelled
    <2>2. y \in WtTunnelState
        BY <1>0 DEF WtTunnelState
    <2>3. WtSound(y)
        BY <1>0, <2>1 DEF WtSound, WtShape, WtOrder, WtTunnelState, WtNewTunnel
    <2>4. y.pc = x.pc
        BY <1>0 DEF WtTunnelState
    <2> QED
        BY <1>x, <2>1, <2>2, <2>3, <2>4
<1>4. CASE WtKeeperEnds(t)
    <2> DEFINE y == [x EXCEPT !.keeper = "off"]
    <2>1. x.keeper = "wait" /\ ~x.ping /\ wtTun' = [wtTun EXCEPT ![t] = y]
        BY <1>0, <1>4, <1>x DEF WtKeeperEnds
    <2>2. y \in WtTunnelState
        BY <1>0 DEF WtTunnelState
    <2>3. WtSound(y)
        BY <1>0, <2>1 DEF WtSound, WtShape, WtOrder, WtTunnelState, WtNewTunnel
    <2>4. y.pc = x.pc
        BY <1>0 DEF WtTunnelState
    <2> QED
        BY <1>x, <2>1, <2>2, <2>3, <2>4
<1>5. CASE WtTick(t)
    <2> DEFINE y == [x EXCEPT !.keeper = IF x.lock = "free" THEN "write" ELSE "off",
                              !.lock = IF x.lock = "free" THEN "ping" ELSE x.lock]
    <2>1. x.keeper = "wait" /\ wtTun' = [wtTun EXCEPT ![t] = y]
        BY <1>0, <1>5, <1>x DEF WtTick
    <2>2. y \in WtTunnelState
        BY <1>0 DEF WtTunnelState
    <2>3. WtSound(y)
        BY <1>0, <2>1 DEF WtSound, WtShape, WtOrder, WtTunnelState, WtNewTunnel
    <2>4. y.pc = x.pc
        BY <1>0 DEF WtTunnelState
    <2> QED
        BY <1>x, <2>1, <2>2, <2>3, <2>4
<1>6. CASE WtPing(t)
    <2>z. PICK z : z = [x EXCEPT !.keeper = "wait", !.lock = "free"]
        OBVIOUS
    <2>p. \/ x.server /\ Len(x.wire) < WtWire /\ wtTun' = WtSend([wtTun EXCEPT ![t] = z], t, "ping")
          \/ /\ ~x.server \/ ~x.client
             /\ wtTun' = [wtTun EXCEPT ![t] = [x EXCEPT !.keeper = "off", !.lock = "free",
                                                        !.server = FALSE]]
        BY <1>0, <1>6, <1>x, <2>z DEF WtPing
    <2>s. WtSend([wtTun EXCEPT ![t] = z], t, "ping")
            = [wtTun EXCEPT ![t] = IF x.client THEN [z EXCEPT !.wire = Append(x.wire, "ping")] ELSE z]
        <3>1. z \in WtTunnelState /\ z.client = x.client /\ z.wire = x.wire
            BY <1>0, <2>z DEF WtTunnelState
        <3>2. WtSend([wtTun EXCEPT ![t] = z], t, "ping")
                = [wtTun EXCEPT ![t] = IF z.client THEN [z EXCEPT !.wire = Append(z.wire, "ping")]
                                       ELSE z]
            BY <1>0, <3>1 DEF WtSend, WtTunnelState
        <3> QED
            BY <3>1, <3>2
    <2>1. CASE x.server /\ Len(x.wire) < WtWire /\ x.client
        <3> DEFINE y == [x EXCEPT !.keeper = "wait", !.lock = "free",
                                  !.wire = Append(x.wire, "ping")]
        <3>1. x.keeper = "write"
            BY <1>6, <1>x DEF WtPing
        <3>2. CASE wtTun' = [wtTun EXCEPT ![t] = y]
            <4>1. Append(x.wire, "ping") \in WtFits
                BY <1>0, <2>1, WtRoom DEF WtMessages
            <4>2. y \in WtTunnelState /\ y.pc = x.pc
                BY <1>0, <4>1 DEF WtTunnelState
            <4>3. /\ y.wire = Append(x.wire, "ping") /\ y.dialer = x.dialer /\ y.lock = "free"
                  /\ x.lock = "ping" /\ y.client = x.client /\ y.keeper = "wait"
                  /\ y.ping = x.ping /\ y.server = x.server
                BY <1>0, <3>1 DEF WtTunnelState, WtShape
            <4>4. x.pc \notin {"none", "arrived", "relay"}
                BY <1>0, <3>1, <4>3 DEF WtShape
            <4>5. WtShape(y)
                BY <1>0, <4>2, <4>3, <4>4 DEF WtShape
            <4>6. WtOrder(y)
                <5>1. CASE x.dialer = "gone"
                    BY <4>3, <5>1 DEF WtOrder
                <5>2. CASE x.dialer # "gone"
                    <6>1. x.dialer \in WtAwaiting /\ WtAllPings(x.wire)
                        BY <1>0, <4>3, <4>4, <5>2 DEF WtOrder, WtShape, WtTunnelState, WtAwaiting
                    <6>2. WtAllPings(y.wire) /\ WtFramed(y.wire, y.dialer)
                        BY <1>0, <4>3, <6>1, WtPingSent
                    <6> QED
                        BY <4>2, <4>3, <4>4, <6>1, <6>2 DEF WtOrder, WtAwaiting
                <5> QED
                    BY <5>1, <5>2
            <4> QED
                BY <1>x, <3>2, <4>2, <4>5, <4>6 DEF WtSound
        <3>3. [z EXCEPT !.wire = Append(x.wire, "ping")] = y
            BY <1>0, <2>z DEF WtTunnelState
        <3> QED
            BY <2>1, <2>p, <2>s, <3>2, <3>3
    <2>2. CASE ~x.server \/ ~x.client
        <3>1. x.keeper = "write"
            BY <1>6, <1>x DEF WtPing
        <3>2. ASSUME NEW k \in {"wait", "off"}, NEW b \in BOOLEAN,
                     k = "wait" => x.server /\ b, k = "off" => ~b,
                     wtTun' = [wtTun EXCEPT ![t] = [x EXCEPT !.keeper = k, !.lock = "free",
                                                             !.server = b]]
              PROVE  \E y \in WtTunnelState :
                       /\ WtSound(y) /\ wtTun' = [wtTun EXCEPT ![t] = y]
                       /\ wtTun[t].pc \in {"idle", "taken"} => y.pc = wtTun[t].pc
            <4> DEFINE y == [x EXCEPT !.keeper = k, !.lock = "free", !.server = b]
            <4>1. y \in WtTunnelState /\ y.pc = x.pc
                BY <1>0, <3>2 DEF WtTunnelState
            <4>2. WtSound(y)
                BY <1>0, <3>1, <3>2, <4>1 DEF WtSound, WtShape, WtOrder, WtTunnelState, WtNewTunnel
            <4> QED
                BY <1>x, <3>2, <4>1, <4>2
        <3>3. CASE x.server /\ wtTun' = [wtTun EXCEPT ![t] = [x EXCEPT !.keeper = "wait",
                                                       !.lock = "free", !.server = TRUE]]
            BY <3>2, <3>3
        <3>4. CASE wtTun' = [wtTun EXCEPT ![t] = [x EXCEPT !.keeper = "off", !.lock = "free",
                                                           !.server = FALSE]]
            BY <3>2, <3>4
        <3>5. CASE x.server /\ ~x.client
                   /\ wtTun' = [wtTun EXCEPT ![t] = [x EXCEPT !.keeper = "wait", !.lock = "free"]]
            <4>1. [x EXCEPT !.keeper = "wait", !.lock = "free"]
                    = [x EXCEPT !.keeper = "wait", !.lock = "free", !.server = TRUE]
                BY <1>0, <3>5 DEF WtTunnelState
            <4> QED
                BY <3>3, <3>5, <4>1
        <3> QED
            BY <2>2, <2>p, <2>s, <2>z, <3>4, <3>5
    <2> QED
        BY <1>6, <1>x, <2>1, <2>2 DEF WtPing
<1>7. CASE WtRelayData(t)
    <2> DEFINE y == [x EXCEPT !.wire = Append(x.wire, "data")]
    <2>1. /\ x.pc = "relay" /\ x.client /\ Len(x.wire) < WtWire
          /\ wtTun' = [wtTun EXCEPT ![t] = y]
        BY <1>0, <1>7, <1>x DEF WtRelayData, WtSend
    <2>2. Append(x.wire, "data") \in WtFits
        BY <1>0, <2>1, WtRoom DEF WtMessages
    <2>3. y \in WtTunnelState /\ y.pc = x.pc
        BY <1>0, <2>2 DEF WtTunnelState
    <2>4. WtShape(y)
        BY <1>0, <2>1 DEF WtShape, WtTunnelState
    <2>5. y.wire = Append(x.wire, "data") /\ y.dialer = x.dialer /\ y.lock = "loop"
        BY <1>0, <2>1 DEF WtTunnelState, WtShape
    <2>6. WtOrder(y)
        BY <1>0, <2>1, <2>3, <2>5, WtDataSent DEF WtOrder
    <2> QED
        BY <1>x, <2>1, <2>3, <2>4, <2>6 DEF WtSound
<1>8. CASE WtDialerReads(t)
    <2>1. x.dialer = "read" /\ x.wire # <<>>
        BY <1>8, <1>x DEF WtDialerReads
    <2>2. /\ Tail(x.wire) \in WtFits /\ Head(x.wire) = x.wire[1] /\ x.wire[1] \in WtMessages
          /\ <<>> \in WtFits /\ WtFramed(x.wire, "read")
        BY <1>0, <2>1, WtRoom DEF WtOrder
    <2>3. ASSUME x.wire[1] = "ping",
                 wtTun' = [wtTun EXCEPT ![t] = [x EXCEPT !.wire = Tail(x.wire), !.dialer = "check"]]
          PROVE  \E y \in WtTunnelState :
                   /\ WtSound(y) /\ wtTun' = [wtTun EXCEPT ![t] = y]
                   /\ wtTun[t].pc \in {"idle", "taken"} => y.pc = wtTun[t].pc
        <3> DEFINE y == [x EXCEPT !.wire = Tail(x.wire), !.dialer = "check"]
        <3>1. y \in WtTunnelState /\ y.pc = x.pc /\ y.wire = Tail(x.wire) /\ y.dialer = "check"
              /\ y.lock = x.lock
            BY <1>0, <2>2, <2>3 DEF WtTunnelState
        <3>2. WtShape(y)
            BY <1>0, <2>1, <2>3 DEF WtShape, WtTunnelState, WtNewTunnel
        <3>3. WtOrder(y)
            BY <1>0, <2>1, <2>2, <2>3, <3>1, WtPingRead DEF WtOrder, WtAwaiting
        <3> QED
            BY <1>x, <2>3, <3>1, <3>2, <3>3 DEF WtSound
    <2>4. ASSUME x.wire[1] # "ping",
                 wtTun' = [wtTun EXCEPT ![t] = [x EXCEPT !.wire = Tail(x.wire),
                                                         !.dialer = "relay"]]
          PROVE  \E y \in WtTunnelState :
                   /\ WtSound(y) /\ wtTun' = [wtTun EXCEPT ![t] = y]
                   /\ wtTun[t].pc \in {"idle", "taken"} => y.pc = wtTun[t].pc
        <3> DEFINE y == [x EXCEPT !.wire = Tail(x.wire), !.dialer = "relay"]
        <3>1. y \in WtTunnelState /\ y.pc = x.pc /\ y.wire = Tail(x.wire) /\ y.dialer = "relay"
              /\ y.lock = x.lock
            BY <1>0, <2>2 DEF WtTunnelState
        <3>2. WtShape(y)
            BY <1>0, <2>1, <2>4 DEF WtShape, WtTunnelState, WtNewTunnel
        <3>3. x.lock = "loop"
            <4>1. 1 \in 1..Len(x.wire)
                BY <1>0, <2>1
            <4> QED
                BY <1>0, <2>1, <2>4, <4>1 DEF WtOrder, WtAllPings
        <3>4. WtOrder(y)
            BY <1>0, <2>1, <2>2, <2>4, <3>1, <3>3, WtAddressRead DEF WtOrder, WtAwaiting
        <3> QED
            BY <1>x, <2>4, <3>1, <3>2, <3>4 DEF WtSound
    <2>5. ASSUME wtTun' = [wtTun EXCEPT ![t] = [x EXCEPT !.wire = <<>>, !.dialer = "gone",
                                                         !.client = FALSE]]
          PROVE  \E y \in WtTunnelState :
                   /\ WtSound(y) /\ wtTun' = [wtTun EXCEPT ![t] = y]
                   /\ wtTun[t].pc \in {"idle", "taken"} => y.pc = wtTun[t].pc
        <3> DEFINE y == [x EXCEPT !.wire = <<>>, !.dialer = "gone", !.client = FALSE]
        <3>1. y \in WtTunnelState /\ y.pc = x.pc
            BY <1>0, <2>2 DEF WtTunnelState
        <3>2. WtSound(y)
            BY <1>0, <2>1, <2>2, <3>1 DEF WtSound, WtShape, WtOrder, WtTunnelState, WtNewTunnel
        <3> QED
            BY <1>x, <2>5, <3>1, <3>2
    <2> QED
        BY <1>0, <1>8, <1>x, <2>2, <2>3, <2>4, <2>5 DEF WtDialerReads, WtFirst
<1>c. CASE WtDialerChecks(t)
    <2>1. PICK d \in {"read", "gone"} : wtTun' = [wtTun EXCEPT ![t] = [x EXCEPT !.dialer = d]]
        BY <1>0, <1>c, <1>x DEF WtDialerChecks
    <2>2. x.dialer = "check"
        BY <1>c, <1>x DEF WtDialerChecks
    <2> DEFINE y == [x EXCEPT !.dialer = d]
    <2>3. y \in WtTunnelState /\ y.pc = x.pc /\ y.wire = x.wire /\ y.dialer = d /\ y.lock = x.lock
        BY <1>0 DEF WtTunnelState
    <2>4. WtShape(y)
        BY <1>0, <2>2, <2>3 DEF WtShape, WtTunnelState, WtNewTunnel
    <2>5. WtOrder(y)
        BY <1>0, <2>2, <2>3 DEF WtOrder, WtFramed, WtAwaiting
    <2> QED
        BY <1>x, <2>1, <2>3, <2>4, <2>5 DEF WtSound
<1>9. CASE WtDialerFails(t)
    <2> DEFINE y == [x EXCEPT !.dialer = "gone", !.client = FALSE]
    <2>1. x.dialer = "read" /\ wtTun' = [wtTun EXCEPT ![t] = y]
        BY <1>0, <1>9, <1>x DEF WtDialerFails
    <2>2. y \in WtTunnelState /\ y.pc = x.pc
        BY <1>0 DEF WtTunnelState
    <2>3. WtSound(y)
        BY <1>0, <2>1 DEF WtSound, WtShape, WtOrder, WtTunnelState, WtNewTunnel
    <2> QED
        BY <1>x, <2>1, <2>2, <2>3
<1>10. CASE WtClientRelay(t)
    <2>1. x.dialer = "relay"
        BY <1>10, <1>x DEF WtClientRelay
    <2>2. CASE x.wire # <<>> /\ wtTun' = [wtTun EXCEPT ![t] = [x EXCEPT !.wire = Tail(x.wire)]]
        <3> DEFINE y == [x EXCEPT !.wire = Tail(x.wire)]
        <3>1. Tail(x.wire) \in WtFits
            BY <1>0, <2>2, WtRoom
        <3>2. y \in WtTunnelState /\ y.pc = x.pc /\ y.wire = Tail(x.wire)
              /\ y.dialer = "relay" /\ y.lock = x.lock
            BY <1>0, <2>1, <3>1 DEF WtTunnelState
        <3>3. WtShape(y)
            BY <1>0, <2>1 DEF WtShape, WtTunnelState, WtNewTunnel
        <3>4. WtOrder(y)
            BY <1>0, <2>1, <2>2, <3>2, WtDataRead DEF WtOrder, WtAwaiting
        <3> QED
            BY <1>x, <2>2, <3>2, <3>3, <3>4 DEF WtSound
    <2>3. CASE wtTun' = [wtTun EXCEPT ![t] = [x EXCEPT !.wire = <<>>, !.dialer = "gone",
                                                       !.client = FALSE]]
        <3> DEFINE y == [x EXCEPT !.wire = <<>>, !.dialer = "gone", !.client = FALSE]
        <3>1. y \in WtTunnelState /\ y.pc = x.pc
            BY <1>0, WtRoom DEF WtTunnelState
        <3>2. WtSound(y)
            BY <1>0, <2>1, <3>1 DEF WtSound, WtShape, WtOrder, WtTunnelState, WtNewTunnel
        <3> QED
            BY <1>x, <2>3, <3>1, <3>2
    <2> QED
        BY <1>0, <1>10, <1>x, <2>2, <2>3 DEF WtClientRelay
<1>11. CASE WtCollect(t)
    <2> DEFINE y == [x EXCEPT !.client = FALSE, !.wire = <<>>]
    <2>1. x.dialer = "gone" /\ wtTun' = [wtTun EXCEPT ![t] = y]
        BY <1>0, <1>11, <1>x DEF WtCollect
    <2>2. y \in WtTunnelState /\ y.pc = x.pc
        BY <1>0, WtRoom DEF WtTunnelState
    <2>3. WtSound(y)
        BY <1>0, <2>1 DEF WtSound, WtShape, WtOrder, WtTunnelState, WtNewTunnel
    <2> QED
        BY <1>x, <2>1, <2>2, <2>3
<1> QED
    BY <1>1, <1>2, <1>3, <1>4, <1>5, <1>6, <1>7, <1>8, <1>9, <1>10, <1>11, <1>c DEF WtAlone

(* Steps of one tunnel that also touch the queue or a user. *)
LEMMA WtTunnelStepInv ==
    ASSUME WtInv, NEW t \in WtTunnels, WtTunnelStep(t)
    PROVE  WtInv'
<1>0. WtRest /\ WtTunnelsSound /\ WtPlaces
    BY DEF WtInv
<1>1. CASE WtAlone(t)
    <2>1. UNCHANGED <<wtCtx, wtChan, wtLocal, wtQueue, wtLoop>>
        BY <1>1 DEF WtAlone, WtDial, WtKeeperStarts, WtKeeperCancelled, WtKeeperEnds, WtTick,
                    WtPing, WtRelayData, WtDialerChecks, WtDialerReads, WtDialerFails,
                    WtClientRelay, WtCollect
    <2>2. PICK y \in WtTunnelState :
            /\ WtSound(y) /\ wtTun' = [wtTun EXCEPT ![t] = y]
            /\ wtTun[t].pc \in {"idle", "taken"} => y.pc = wtTun[t].pc
        BY <1>0, <1>1, WtAloneSound
    <2>3. WtTunnelsSound' /\ wtTun'[t] = y /\ \A u \in WtTunnels : u # t => wtTun'[u] = wtTun[u]
        BY <1>0, <2>2, WtOneTunnel
    <2>4. \A u \in WtTunnels : wtTun[u].pc \in {"idle", "taken"} => wtTun'[u].pc = wtTun[u].pc
        BY <2>2, <2>3
    <2>5. WtPlaces'
        BY <1>0, <2>1, <2>4, WtPlacesKept
    <2>6. WtRest'
        BY <1>0, <2>1 DEF WtRest
    <2> QED
        BY <2>3, <2>5, <2>6 DEF WtInv
<1>x. PICK x : x = wtTun[t]
    OBVIOUS
<1>t. /\ x \in WtTunnelState /\ WtShape(x) /\ WtOrder(x)
      /\ wtTun \in [WtTunnels -> WtTunnelState]
    BY <1>0, <1>x DEF WtTunnelsSound, WtSound
<1>2. CASE WtQueueTunnel(t)
    <2>0. x.pc = "arrived" /\ UNCHANGED <<wtCtx, wtLocal, wtQueue, wtLoop>>
        BY <1>2, <1>x DEF WtQueueTunnel
    <2>1. CASE /\ Len(wtChan) < WtChannelSize /\ wtChan' = Append(wtChan, t)
               /\ wtTun' = [wtTun EXCEPT ![t] = [x EXCEPT !.pc = "idle", !.keeper = "start"]]
        <3> DEFINE y == [x EXCEPT !.pc = "idle", !.keeper = "start"]
        <3>1. y \in WtTunnelState /\ y.pc = "idle"
            BY <1>t DEF WtTunnelState
        <3>2. WtSound(y)
            BY <1>t, <2>0 DEF WtSound, WtShape, WtOrder, WtTunnelState
        <3>3. WtTunnelsSound' /\ wtTun'[t] = y /\ \A u \in WtTunnels : u # t => wtTun'[u] = wtTun[u]
            BY <1>0, <2>1, <3>1, <3>2, WtOneTunnel
        <3>4. \A i \in 1..Len(wtChan) : wtChan[i] \in WtTunnels /\ wtChan[i] # t
            BY <1>0, <1>x, <2>0 DEF WtRest, WtPlaces
        <3>5. /\ wtChan' \in Seq(WtTunnels) /\ Len(wtChan') = Len(wtChan) + 1
              /\ wtChan'[Len(wtChan) + 1] = t /\ Len(wtChan) \in Nat
              /\ \A i \in 1..Len(wtChan) : wtChan'[i] = wtChan[i]
            BY <1>0, <2>1 DEF WtRest
        <3>6. WtRest'
            BY <1>0, <2>0, <2>1, <3>5, WsTunnelsAssumption DEF WtRest
        <3>7. \A i \in 1..Len(wtChan') : wtTun'[wtChan'[i]].pc = "idle"
            <4>1. \A i \in 1..Len(wtChan) : wtTun'[wtChan'[i]].pc = "idle"
                BY <1>0, <3>3, <3>4, <3>5 DEF WtPlaces
            <4>2. wtTun'[wtChan'[Len(wtChan) + 1]].pc = "idle"
                BY <3>1, <3>3, <3>5
            <4> QED
                BY <3>5, <4>1, <4>2
        <3>8. \A i, j \in 1..Len(wtChan') : wtChan'[i] = wtChan'[j] => i = j
            BY <1>0, <3>4, <3>5 DEF WtPlaces
        <3>9. \A h \in WtLoops : wtLoop[h].pc = "lock" => wtLoop[h].tun # t
            BY <1>0, <1>x, <2>0 DEF WtPlaces
        <3>10. WtPlaces'
            BY <1>0, <2>0, <3>3, <3>7, <3>8, <3>9 DEF WtPlaces
        <3> QED
            BY <3>3, <3>6, <3>10 DEF WtInv
    <2>2. CASE /\ wtChan' = wtChan
               /\ wtTun' = [wtTun EXCEPT ![t] = [x EXCEPT !.pc = "closed", !.server = FALSE]]
        <3> DEFINE y == [x EXCEPT !.pc = "closed", !.server = FALSE]
        <3>1. y \in WtTunnelState
            BY <1>t DEF WtTunnelState
        <3>2. WtSound(y)
            BY <1>t, <2>0 DEF WtSound, WtShape, WtOrder, WtTunnelState
        <3>3. WtTunnelsSound' /\ \A u \in WtTunnels : u # t => wtTun'[u] = wtTun[u]
            BY <1>0, <2>2, <3>1, <3>2, WtOneTunnel
        <3>4. WtPlaces'
            BY <1>0, <1>x, <2>0, <2>2, <3>3, WtPlacesKept
        <3> QED
            BY <1>0, <2>0, <2>2, <3>3, <3>4 DEF WtInv, WtRest
    <2> QED
        BY <1>2, <1>t, <1>x, <2>1, <2>2 DEF WtQueueTunnel
<1>3. CASE WtRelayEnds(t)
    <2> DEFINE y == [x EXCEPT !.pc = "closed", !.server = FALSE]
    <2>0. /\ x.pc = "relay" /\ UNCHANGED <<wtCtx, wtChan, wtQueue, wtLoop>>
          /\ wtTun' = [wtTun EXCEPT ![t] = y]
        BY <1>3, <1>t, <1>x DEF WtRelayEnds
    <2>1. y \in WtTunnelState
        BY <1>t DEF WtTunnelState
    <2>2. WtSound(y)
        BY <1>t, <2>0 DEF WtSound, WtShape, WtOrder, WtTunnelState
    <2>3. WtTunnelsSound' /\ \A u \in WtTunnels : u # t => wtTun'[u] = wtTun[u]
        BY <1>0, <2>0, <2>1, <2>2, WtOneTunnel
    <2>4. WtPlaces'
        BY <1>0, <1>x, <2>0, <2>3, WtPlacesKept
    <2>5. WtRest'
        BY <1>0, <1>3, <2>0 DEF WtRest, WtRelayEnds
    <2> QED
        BY <2>3, <2>4, <2>5 DEF WtInv
<1> QED
    BY <1>1, <1>2, <1>3 DEF WtTunnelStep, WtAlone

(* A handleLoop takes a user or a tunnel, waits, gives up or writes the    *)
(* address.                                                                *)
LEMMA WtLoopStepInv ==
    ASSUME WtInv, NEW h \in WtLoops, WtLoopStep(h)
    PROVE  WtInv'
<1>0. WtRest /\ WtTunnelsSound /\ WtPlaces
    BY DEF WtInv
<1>1. CASE WtTakeLocal(h) \/ WtCheckAge(h) \/ WtLoopCancelled(h)
    <2>1. UNCHANGED <<wtCtx, wtTun, wtChan>>
        BY <1>1 DEF WtTakeLocal, WtCheckAge, WtLoopCancelled
    <2>2. WtRest'
        <3>1. CASE WtTakeLocal(h)
            <4>1. Head(wtQueue) \in WtLocals /\ wtQueue' \in Seq(WtLocals) /\ Len(wtQueue') <= WtChannelSize
                BY <1>0, <3>1, WsTunnelsAssumption DEF WtRest, WtTakeLocal
            <4> QED
                BY <1>0, <2>1, <3>1, <4>1, ZenonT(60) DEF WtRest, WtTakeLocal, WtLoopState
        <3>2. CASE WtCheckAge(h)
            <4>i. WtIdleLoop \in WtLoopState /\ wtLoop \in [WtLoops -> WtLoopState] /\ wtQueue' = wtQueue
                BY <1>0, <3>2 DEF WtRest, WtCheckAge, WtLoopState, WtIdleLoop
            <4>1. wtLoop' \in [WtLoops -> WtLoopState]
                <5>1. CASE wtLoop' = [wtLoop EXCEPT ![h] = WtIdleLoop]
                    BY <4>i, <5>1
                <5>2. CASE wtLoop' = [wtLoop EXCEPT ![h].pc = "wait"]
                    BY <4>i, <5>2 DEF WtLoopState
                <5> QED
                    BY <3>2, <5>1, <5>2 DEF WtCheckAge
            <4>2. wtLocal' \in [WtLocals -> {"outside", "queued", "held", "relay", "closed",
                                             "dropped"}]
                BY <1>0, <3>2 DEF WtRest, WtCheckAge
            <4> QED
                BY <1>0, <2>1, <4>i, <4>1, <4>2 DEF WtRest
        <3>3. CASE WtLoopCancelled(h)
            BY <1>0, <2>1, <3>3 DEF WtRest, WtLoopCancelled, WtLoopState, WtIdleLoop
        <3> QED
            BY <1>1, <3>1, <3>2, <3>3
    <2>3. \A g \in WtLoops : /\ wtLoop'[g].pc = "lock" <=> wtLoop[g].pc = "lock"
                             /\ wtLoop[g].pc = "lock" => wtLoop'[g].tun = wtLoop[g].tun
        <3>1. wtLoop \in [WtLoops -> WtLoopState] /\ wtLoop[h].pc # "lock"
            BY <1>0, <1>1 DEF WtRest, WtTakeLocal, WtCheckAge, WtLoopCancelled
        <3>2. \A g \in WtLoops : g # h => wtLoop'[g] = wtLoop[g]
            BY <1>1, <3>1 DEF WtTakeLocal, WtCheckAge, WtLoopCancelled
        <3>3. wtLoop'[h].pc # "lock"
            BY <1>1, <3>1 DEF WtTakeLocal, WtCheckAge, WtLoopCancelled, WtLoopState, WtIdleLoop
        <3> QED
            BY <3>1, <3>2, <3>3
    <2>4. WtPlaces'
        BY <1>0, <2>1, <2>3 DEF WtPlaces
    <2>5. WtTunnelsSound'
        BY <1>0, <2>1 DEF WtTunnelsSound
    <2> QED
        BY <2>2, <2>4, <2>5 DEF WtInv
<1>2. CASE WtTakeTunnel(h)
    <2>t. PICK t : t = Head(wtChan)
        OBVIOUS
    <2>1. /\ wtChan # <<>> /\ wtChan' = Tail(wtChan) /\ wtLoop[h].pc = "wait"
          /\ wtTun' = [wtTun EXCEPT ![t].pc = "taken", ![t].ping = FALSE]
          /\ wtLoop' = [wtLoop EXCEPT ![h].pc = "lock", ![h].tun = t]
          /\ UNCHANGED <<wtCtx, wtLocal, wtQueue>>
        BY <1>2, <2>t DEF WtTakeTunnel
    <2>2. t \in WtTunnels /\ wtTun[t].pc = "idle" /\ t = wtChan[1] /\ 1 \in 1..Len(wtChan)
        BY <1>0, <2>1, <2>t DEF WtRest, WtPlaces
    <2>x. PICK x : x = wtTun[t]
        OBVIOUS
    <2>3. /\ x \in WtTunnelState /\ WtShape(x) /\ WtOrder(x) /\ x.pc = "idle"
          /\ wtTun \in [WtTunnels -> WtTunnelState]
        BY <1>0, <2>2, <2>x DEF WtTunnelsSound, WtSound
    <2> DEFINE y == [x EXCEPT !.pc = "taken", !.ping = FALSE]
    <2>4. y \in WtTunnelState /\ y.pc = "taken"
        BY <2>3 DEF WtTunnelState
    <2>5. WtSound(y)
        BY <2>3 DEF WtSound, WtShape, WtOrder, WtTunnelState
    <2>6. wtTun' = [wtTun EXCEPT ![t] = y]
        BY <2>1, <2>2, <2>3, <2>x
    <2>7. WtTunnelsSound' /\ wtTun'[t] = y /\ \A u \in WtTunnels : u # t => wtTun'[u] = wtTun[u]
        BY <1>0, <2>2, <2>4, <2>5, <2>6, WtOneTunnel
    <2>8. /\ wtChan' \in Seq(WtTunnels) /\ Len(wtChan') = Len(wtChan) - 1 /\ Len(wtChan) \in Nat
          /\ \A i \in 1..Len(wtChan') : wtChan'[i] = wtChan[i + 1] /\ i + 1 \in 1..Len(wtChan)
        BY <1>0, <2>1 DEF WtRest
    <2>9. \A i \in 1..Len(wtChan') : wtChan'[i] \in WtTunnels /\ wtChan'[i] # t
                                     /\ wtTun[wtChan'[i]].pc = "idle"
        BY <1>0, <2>2, <2>8 DEF WtPlaces
    <2>10. WtRest'
        <3>1. wtLoop' \in [WtLoops -> WtLoopState]
            BY <1>0, <2>1, <2>2, ZenonT(60) DEF WtRest, WtLoopState
        <3>2. Len(wtChan') <= WtChannelSize
            BY <1>0, <2>8, WsTunnelsAssumption DEF WtRest
        <3> QED
            BY <1>0, <2>1, <2>8, <3>1, <3>2 DEF WtRest
    <2>11. /\ wtLoop'[h].pc = "lock" /\ wtLoop'[h].tun = t
           /\ \A g \in WtLoops : g # h => wtLoop'[g] = wtLoop[g]
        BY <1>0, <2>1 DEF WtRest, WtLoopState
    <2>12. \A g \in WtLoops : wtLoop[g].pc = "lock" => wtLoop[g].tun # t
        BY <1>0, <2>2 DEF WtPlaces
    <2>13. \A i, j \in 1..Len(wtChan') : wtChan'[i] = wtChan'[j] => i = j
        BY <1>0, <2>8 DEF WtPlaces
    <2>14. \A i \in 1..Len(wtChan') : wtTun'[wtChan'[i]].pc = "idle"
        BY <2>7, <2>9
    <2>15. \A g \in WtLoops : wtLoop'[g].pc = "lock" =>
             wtLoop'[g].tun \in WtTunnels /\ wtTun'[wtLoop'[g].tun].pc = "taken"
        <3>1. ASSUME NEW g \in WtLoops, g # h, wtLoop'[g].pc = "lock"
              PROVE  wtLoop'[g].tun \in WtTunnels /\ wtTun'[wtLoop'[g].tun].pc = "taken"
            <4>1. /\ wtLoop'[g] = wtLoop[g] /\ wtLoop[g].tun \in WtTunnels /\ wtLoop[g].tun # t
                  /\ wtTun[wtLoop[g].tun].pc = "taken"
                BY <1>0, <2>11, <2>12, <3>1 DEF WtPlaces
            <4> QED
                BY <2>7, <4>1
        <3>2. wtLoop'[h].tun \in WtTunnels /\ wtTun'[wtLoop'[h].tun].pc = "taken"
            BY <2>2, <2>4, <2>7, <2>11
        <3> QED
            BY <3>1, <3>2
    <2>16. WtPlaces'
        BY <1>0, <2>11, <2>12, <2>13, <2>14, <2>15 DEF WtPlaces
    <2> QED
        BY <2>7, <2>10, <2>16 DEF WtInv
<1>3. CASE WtHandoff(h)
    <2>t. PICK t : t = wtLoop[h].tun
        OBVIOUS
    <2>1. wtLoop[h].pc = "lock" /\ wtTun[t].lock = "free" /\ UNCHANGED <<wtCtx, wtChan, wtQueue>>
        BY <1>3, <2>t DEF WtHandoff
    <2>2. t \in WtTunnels /\ wtTun[t].pc = "taken"
        BY <1>0, <2>1, <2>t DEF WtPlaces
    <2>x. PICK x : x = wtTun[t]
        OBVIOUS
    <2>3. /\ x \in WtTunnelState /\ WtShape(x) /\ WtOrder(x) /\ x.pc = "taken" /\ x.lock = "free"
          /\ wtTun \in [WtTunnels -> WtTunnelState] /\ x.wire \in WtFits
          /\ x.wire \in Seq(WtMessages)
        BY <1>0, <2>1, <2>2, <2>x, WtRoom DEF WtTunnelsSound, WtSound, WtTunnelState
    (* Whatever is made of the tunnel, the loop lets go of it. *)
    <2>4. ASSUME NEW y \in WtTunnelState, WtSound(y), wtTun' = [wtTun EXCEPT ![t] = y],
                 wtLoop' \in [WtLoops -> WtLoopState], wtLoop'[h].pc # "lock",
                 \A g \in WtLoops : g # h => wtLoop'[g] = wtLoop[g],
                 wtLocal' \in [WtLocals -> {"outside", "queued", "held", "relay", "closed",
                                            "dropped"}]
          PROVE  WtInv'
        <3>1. WtTunnelsSound' /\ \A u \in WtTunnels : u # t => wtTun'[u] = wtTun[u]
            BY <1>0, <2>2, <2>4, WtOneTunnel
        <3>2. WtRest'
            BY <1>0, <2>1, <2>4 DEF WtRest
        <3>3. \A i \in 1..Len(wtChan) : wtChan[i] \in WtTunnels /\ wtChan[i] # t
            BY <1>0, <2>2 DEF WtRest, WtPlaces
        <3>4. \A g \in WtLoops : wtLoop'[g].pc = "lock" =>
                g # h /\ wtLoop[g].pc = "lock" /\ wtLoop[g].tun # t /\ wtLoop'[g] = wtLoop[g]
            BY <1>0, <2>1, <2>4, <2>t DEF WtPlaces
        <3>5. \A i \in 1..Len(wtChan) : wtTun'[wtChan[i]].pc = "idle"
            BY <1>0, <3>1, <3>3 DEF WtPlaces
        <3>6. \A g \in WtLoops : wtLoop'[g].pc = "lock" =>
                wtLoop'[g].tun \in WtTunnels /\ wtTun'[wtLoop'[g].tun].pc = "taken"
            BY <1>0, <3>1, <3>4 DEF WtPlaces
        <3>7. WtPlaces'
            BY <1>0, <2>1, <3>4, <3>5, <3>6 DEF WtPlaces
        <3> QED
            BY <3>1, <3>2, <3>7 DEF WtInv
    <2>l. wtLoop[h] \in WtLoopState /\ wtLoop[h].local \in WtLocals \cup {WtNone}
        BY <1>0 DEF WtRest, WtLoopState
    <2>5. CASE /\ x.server /\ Len(x.wire) < WtWire
               /\ wtTun' = WtSend([wtTun EXCEPT ![t].pc = "relay", ![t].lock = "loop",
                                     ![t].local = wtLoop[h].local], t, "addr")
               /\ wtLocal' = [wtLocal EXCEPT ![wtLoop[h].local] = "relay"]
               /\ wtLoop' = [wtLoop EXCEPT ![h] = WtIdleLoop]
        <3>z. PICK z : z = [x EXCEPT !.pc = "relay", !.lock = "loop", !.local = wtLoop[h].local]
            OBVIOUS
        <3>1. /\ z \in WtTunnelState /\ z.client = x.client /\ z.wire = x.wire /\ z.pc = "relay"
              /\ z.lock = "loop" /\ z.dialer = x.dialer /\ z.keeper = x.keeper
            BY <2>3, <2>l, <3>z DEF WtTunnelState
        <3>2. wtTun' = WtSend([wtTun EXCEPT ![t] = z], t, "addr")
            BY <2>2, <2>3, <2>5, <2>x, <3>z
        <3>3. wtTun' = [wtTun EXCEPT ![t] = IF z.client THEN [z EXCEPT !.wire = Append(z.wire, "addr")]
                                            ELSE z]
            BY <2>2, <2>3, <3>1, <3>2 DEF WtSend, WtTunnelState
        <3>4. WtShape(z)
            BY <2>3, <3>1 DEF WtShape
        <3>5. /\ wtLoop' \in [WtLoops -> WtLoopState] /\ wtLoop'[h].pc # "lock"
              /\ \A g \in WtLoops : g # h => wtLoop'[g] = wtLoop[g]
              /\ wtLocal' \in [WtLocals -> {"outside", "queued", "held", "relay", "closed",
                                            "dropped"}]
            BY <1>0, <2>5 DEF WtRest, WtLoopState, WtIdleLoop
        <3>6. CASE ~x.client
            <4>1. x.dialer = "gone"
                BY <2>3, <3>6 DEF WtShape, WtTunnelState
            <4>2. WtSound(z) /\ wtTun' = [wtTun EXCEPT ![t] = z]
                BY <3>1, <3>3, <3>4, <3>6, <4>1 DEF WtSound, WtOrder
            <4> QED
                BY <2>4, <3>1, <3>5, <4>2
        <3>7. CASE x.client
            <4> DEFINE y == [z EXCEPT !.wire = Append(z.wire, "addr")]
            <4>1. Append(z.wire, "addr") \in WtFits
                BY <2>3, <2>5, <3>1, WtRoom DEF WtMessages
            <4>2. y \in WtTunnelState
                BY <3>1, <4>1 DEF WtTunnelState
            <4>3. WtShape(y)
                BY <3>1, <3>4 DEF WtShape, WtTunnelState
            <4>4. y.wire = Append(x.wire, "addr") /\ y.dialer = x.dialer /\ y.lock = "loop"
                BY <3>1 DEF WtTunnelState
            <4>5. x.dialer # "gone" => x.dialer \in WtAwaiting /\ WtAllPings(x.wire)
                BY <2>3 DEF WtOrder, WtShape, WtTunnelState, WtAwaiting
            <4>6. WtOrder(y)
                BY <2>3, <4>4, <4>5, WtAddressSent DEF WtOrder
            <4>7. wtTun' = [wtTun EXCEPT ![t] = y]
                BY <3>1, <3>3, <3>7
            <4> QED
                BY <2>4, <3>5, <4>2, <4>3, <4>6, <4>7 DEF WtSound
        <3> QED
            BY <3>6, <3>7
    <2>6. CASE /\ wtTun' = [wtTun EXCEPT ![t].pc = "closed", ![t].lock = "loop",
                              ![t].server = FALSE]
               /\ wtLoop' = [wtLoop EXCEPT ![h].pc = "check", ![h].tun = WtNone]
               /\ UNCHANGED wtLocal
        <3> DEFINE y == [x EXCEPT !.pc = "closed", !.lock = "loop", !.server = FALSE]
        <3>1. y \in WtTunnelState
            BY <2>3 DEF WtTunnelState
        <3>2. WtSound(y)
            BY <2>3 DEF WtSound, WtShape, WtOrder, WtTunnelState
        <3>3. wtTun' = [wtTun EXCEPT ![t] = y]
            BY <2>2, <2>3, <2>6, <2>x
        <3>4. /\ wtLoop' \in [WtLoops -> WtLoopState] /\ wtLoop'[h].pc # "lock"
              /\ \A g \in WtLoops : g # h => wtLoop'[g] = wtLoop[g]
            BY <1>0, <2>6, ZenonT(60) DEF WtRest, WtLoopState
        <3>5. wtLocal' \in [WtLocals -> {"outside", "queued", "held", "relay", "closed",
                                         "dropped"}]
            BY <1>0, <2>6 DEF WtRest
        <3> QED
            BY <2>4, <3>1, <3>2, <3>3, <3>4, <3>5
    <2> QED
        BY <1>3, <2>5, <2>6, <2>t, <2>x DEF WtHandoff, WtWriteAddress
<1> QED
    BY <1>1, <1>2, <1>3 DEF WtLoopStep

(* At the start no ws tunnel exists. *)
LEMMA WtInitInv == WtInit => WtInv
<1> SUFFICES ASSUME WtInit PROVE WtInv
    OBVIOUS
<1>1. WtNewTunnel \in WtTunnelState
    BY WsTunnelsAssumption DEF WtNewTunnel, WtTunnelState, WtFits
<1>2. WtSound(WtNewTunnel)
    BY WtNothing DEF WtSound, WtShape, WtOrder, WtNewTunnel
<1>3. WtTunnelsSound
    BY <1>1, <1>2 DEF WtInit, WtTunnelsSound
<1>4. WtRest
    BY WsTunnelsAssumption DEF WtInit, WtRest, WtLoopState, WtIdleLoop
<1>5. WtPlaces
    BY DEF WtInit, WtPlaces, WtIdleLoop
<1> QED
    BY <1>3, <1>4, <1>5 DEF WtInv

(* Every step of the ws tunnels keeps the invariant. *)
LEMMA WtStepInv == WtInv /\ [WtNext]_wtVars => WtInv'
<1> SUFFICES ASSUME WtInv, [WtNext]_wtVars PROVE WtInv'
    OBVIOUS
<1>0. WtRest /\ WtTunnelsSound /\ WtPlaces
    BY DEF WtInv
<1>1. CASE UNCHANGED wtVars
    BY <1>1 DEF wtVars, WtInv, WtRest, WtTunnelsSound, WtPlaces
<1>2. CASE \E s \in {"server", "client"} : WtCancel(s)
    BY <1>0, <1>2 DEF WtCancel, WtInv, WtRest, WtTunnelsSound, WtPlaces
<1>3. CASE \E l \in WtLocals : WtAccept(l)
    <2>1. PICK l \in WtLocals : WtAccept(l)
        BY <1>3
    <2>2. UNCHANGED <<wtCtx, wtTun, wtChan, wtLoop>>
        BY <2>1 DEF WtAccept
    <2>3. /\ wtLocal' \in [WtLocals -> {"outside", "queued", "held", "relay", "closed", "dropped"}]
          /\ wtQueue' \in Seq(WtLocals) /\ Len(wtQueue') <= WtChannelSize
        <3>1. WtChannelSize \in Nat /\ WtRest
            BY <1>0, WsTunnelsAssumption
        <3>2. CASE Len(wtQueue) < WtChannelSize /\ wtQueue' = Append(wtQueue, l)
                   /\ wtLocal' = [wtLocal EXCEPT ![l] = "queued"]
            BY <3>1, <3>2 DEF WtRest
        <3>3. CASE wtQueue' = wtQueue /\ wtLocal' = [wtLocal EXCEPT ![l] = "closed"]
            BY <3>1, <3>3 DEF WtRest
        <3> QED
            BY <2>1, <3>2, <3>3 DEF WtAccept
    <2> QED
        BY <1>0, <2>2, <2>3 DEF WtInv, WtRest, WtTunnelsSound, WtPlaces
<1> QED
    BY <1>1, <1>2, <1>3, WtTunnelStepInv, WtLoopStepInv DEF WtNext

(* The invariant of the ws tunnels: what is queued and taken, and the      *)
(* mutex that separates pings from the address.                            *)
THEOREM WtInvAlways == WtSpec => []WtInv
<1> QED
    BY WtInitInv, WtStepInv, PTL DEF WtSpec

(* A sequence of bounded length is one of the functions of WtTypeOK. *)
LEMMA WtWireFunction == WtFits \subseteq UNION {[1..n -> {"ping", "addr", "data"}] : n \in 0..WtWire}
<1> SUFFICES ASSUME NEW w \in WtFits
             PROVE  \E n \in 0..WtWire : w \in [1..n -> {"ping", "addr", "data"}]
    OBVIOUS
<1>1. Len(w) \in 0..WtWire /\ w \in [1..Len(w) -> {"ping", "addr", "data"}]
    BY WsTunnelsAssumption DEF WtFits, WtMessages
<1> QED
    BY <1>1

(* The variables of the ws tunnels hold what the code's types allow and no *)
(* channel holds more than its capacity.                                   *)
THEOREM WtTypeCorrect == WtSpec => []WtTypeOK
<1>1. WtInv => WtTypeOK
    BY WtWireFunction DEF WtInv, WtRest, WtTunnelsSound, WtTunnelState, WtLoopState, WtTypeOK
<1> QED
    BY <1>1, WtInvAlways, PTL

(* WriteMessage of keepAlive and of handleLoop on one websocket, ReadMessage *)
(* of tunnelDialer: the client reads pings, one address, data, in this     *)
(* order, for every number of tunnels, handleLoops and messages under way. *)
THEOREM WtFramingAlways == WtSpec => []WtFraming
<1>1. WtInv => WtFraming
    <2> SUFFICES ASSUME WtInv, NEW t \in WtTunnels, wtTun[t].dialer # "gone"
                 PROVE  WtFramed(wtTun[t].wire, wtTun[t].dialer)
        BY DEF WtFraming, WtFramed
    <2> QED
        BY DEF WtInv, WtTunnelsSound, WtSound, WtOrder
<1> QED
    BY <1>1, WtInvAlways, PTL

(* A queued tunnel whose end is open has its keepAlive goroutine, which    *)
(* closes it when the server's context is cancelled.                       *)
THEOREM WtIdleWatchedAlways == WtSpec => []WtIdleWatched
<1>1. WtInv => WtIdleWatched
    BY DEF WtInv, WtTunnelsSound, WtSound, WtShape, WtIdleWatched
<1> QED
    BY <1>1, WtInvAlways, PTL

-----------------------------------------------------------------------------
(* QuicTunnels *)

QtTunnelState ==
    [client : {"none", "start", "dial", "open"}, dead : BOOLEAN,
     at : {"none", "wire", "handshake", "queue", "left", "session"},
     pc : {"none", "select", "open", "back", "fail", "signal", "request", "drain", "ended"},
     run : QtRuns, loop : QtRuns, count : 0..QtMuxCon, relays : 0..QtMuxCon]
QtLoopState == [pc : {"none", "select", "next", "ended"}, run : QtRuns]

(* Never more handshakes and keepalives than the bound. *)
QtLinksSound(x) ==
    /\ x \in [handshakes : Nat, starting : Nat, keeping : Nat]
    /\ x.handshakes + x.starting + x.keeping <= QtMaxLinks

QtRest ==
    /\ qtRun \in QtRuns /\ qtPhase \in {"live", "cancelled", "closed", "exited"}
    /\ QtLinksSound(qtLinks)
    /\ qtControl \in BOOLEAN /\ qtCold \in BOOLEAN /\ qtPool \in BOOLEAN
    /\ qtQueue \in [QtRuns -> Seq(QtTunnels)]
    /\ \A r \in QtRuns : Len(qtQueue[r]) <= QtChannelSize
    /\ qtLocal \in [QtRuns -> 0..QtChannelSize]
    /\ qtLoop \in [QtRuns -> QtLoopState]
    /\ qtRequests \in 0..QtChannelSize
    /\ qtAccepted \in 0..QtMaxLocals /\ qtEnded \in Nat

(* A tunnel is with the client, then with the server, then with a session; *)
(* a session opens at most MuxCon streams.                                 *)
QtSound(x) ==
    /\ x.client \in {"start", "dial"} => x.at = "none"
    /\ x.pc # "none" => x.at = "session"
    /\ x.pc = "none" => x.count = 0
    /\ x.pc # "ended" => x.relays <= x.count
    /\ x.pc \in {"select", "open"} => x.count < QtMuxCon
QtTunnelsSound ==
    /\ qtTun \in [QtTunnels -> QtTunnelState]
    /\ \A t \in QtTunnels : QtSound(qtTun[t])

(* A tunnel waits in one tunnelChan, once. *)
QtQueued ==
    /\ \A r \in QtRuns : \A i \in 1..Len(qtQueue[r]) : qtTun[qtQueue[r][i]].at = "queue"
    /\ \A r, s \in QtRuns : \A i \in 1..Len(qtQueue[r]), j \in 1..Len(qtQueue[s]) :
         qtQueue[r][i] = qtQueue[s][j] => r = s /\ i = j

QtOwes(x) == x.pc \in {"select", "open", "back", "fail", "signal"}

(* A session that has yet to signal is the only one of a handleTunConn     *)
(* that waits, and looks at a context that is no older than that one's.    *)
QtPaired ==
    /\ \A t \in QtTunnels : QtOwes(qtTun[t]) =>
         qtLoop[qtTun[t].loop].pc = "next" /\ qtTun[t].loop <= qtTun[t].run
    /\ \A t, u \in QtTunnels : QtOwes(qtTun[t]) /\ QtOwes(qtTun[u])
         /\ qtTun[t].loop = qtTun[u].loop => t = u
    /\ \A l \in QtRuns : qtLoop[l].pc = "next" =>
         QtDone(l) \/ \E t \in QtTunnels : QtOwes(qtTun[t]) /\ qtTun[t].loop = l

(* No handleTunConn belongs to a later run. *)
QtStartedOnce ==
    /\ \A l \in QtRuns : qtLoop[l].pc # "none" => l <= qtRun
    /\ qtPhase \in {"cancelled", "closed"} => qtRun < QtMaxRuns

(* The pairs that QtSumOver counts. *)
QtUnits(S, f) == UNION {{<<x, i>> : i \in 1..f[x]} : x \in S}
QtRelays == [t \in QtTunnels |-> qtTun[t].relays]
QtHeld == {t \in QtTunnels : qtTun[t].pc \in {"open", "back"}}

QtCounted ==
    /\ IsFiniteSet(QtUnits(QtRuns, qtLocal))
    /\ IsFiniteSet(QtUnits(QtTunnels, QtRelays))
    /\ qtAccepted = Cardinality(QtUnits(QtRuns, qtLocal)) + Cardinality(QtHeld)
                    + Cardinality(QtUnits(QtTunnels, QtRelays)) + qtEnded

QtInv == QtRest /\ QtTunnelsSound /\ QtQueued /\ QtPaired /\ QtStartedOnce /\ QtCounted

-----------------------------------------------------------------------------
(* Lemmas about counting *)

(* g counts one more than f, at x. *)
QtAdds(S, f, g, x) ==
    /\ f \in [S -> Nat] /\ g \in [S -> Nat] /\ x \in S
    /\ g[x] = f[x] + 1 /\ \A y \in S : y # x => g[y] = f[y]

(* One more at x is one pair more. *)
LEMMA QtOneMore ==
    ASSUME NEW S, NEW f, NEW g, NEW x, QtAdds(S, f, g, x)
    PROVE  \E p : QtUnits(S, g) = QtUnits(S, f) \cup {p} /\ p \notin QtUnits(S, f)
<1>0. /\ f \in [S -> Nat] /\ g \in [S -> Nat] /\ x \in S
      /\ g[x] = f[x] + 1 /\ \A y \in S : y # x => g[y] = f[y]
    BY DEF QtAdds
<1>1. \A y \in S : {<<y, i>> : i \in 1..g[y]}
        = IF y = x THEN {<<y, i>> : i \in 1..f[y]} \cup {<<x, f[x] + 1>>}
          ELSE {<<y, i>> : i \in 1..f[y]}
    <2> SUFFICES ASSUME NEW y \in S
                 PROVE  {<<y, i>> : i \in 1..g[y]}
                          = IF y = x THEN {<<y, i>> : i \in 1..f[y]} \cup {<<x, f[x] + 1>>}
                            ELSE {<<y, i>> : i \in 1..f[y]}
        OBVIOUS
    <2>1. CASE y = x
        <3>1. 1..g[x] = (1..f[x]) \cup {f[x] + 1}
            BY <1>0
        <3> QED
            BY <2>1, <3>1
    <2>2. CASE y # x
        BY <1>0, <2>2
    <2> QED
        BY <2>1, <2>2
<1>2. QtUnits(S, g) = QtUnits(S, f) \cup {<<x, f[x] + 1>>}
    BY <1>0, <1>1 DEF QtUnits
<1>3. <<x, f[x] + 1>> \notin QtUnits(S, f)
    BY <1>0 DEF QtUnits
<1> QED
    BY <1>2, <1>3

(* Counting one unit more makes the count one larger. *)
LEMMA QtCountUp ==
    ASSUME NEW S, NEW f, NEW g, NEW x, QtAdds(S, f, g, x), IsFiniteSet(QtUnits(S, f))
    PROVE  /\ IsFiniteSet(QtUnits(S, g))
           /\ Cardinality(QtUnits(S, g)) = Cardinality(QtUnits(S, f)) + 1
<1>1. PICK p : QtUnits(S, g) = QtUnits(S, f) \cup {p} /\ p \notin QtUnits(S, f)
    BY QtOneMore
<1> QED
    BY <1>1, FS_AddElement

(* Counting one unit less makes the count one smaller. *)
LEMMA QtCountDown ==
    ASSUME NEW S, NEW f, NEW g, NEW x, QtAdds(S, g, f, x), IsFiniteSet(QtUnits(S, f))
    PROVE  /\ IsFiniteSet(QtUnits(S, g))
           /\ Cardinality(QtUnits(S, g)) = Cardinality(QtUnits(S, f)) - 1
<1>1. PICK p : QtUnits(S, f) = QtUnits(S, g) \cup {p} /\ p \notin QtUnits(S, g)
    BY QtOneMore
<1>2. IsFiniteSet(QtUnits(S, g))
    BY <1>1, FS_Subset
<1>3. Cardinality(QtUnits(S, g)) \in Nat
    BY <1>2, FS_CardinalityType
<1>4. Cardinality(QtUnits(S, f)) = Cardinality(QtUnits(S, g)) + 1
    BY <1>1, <1>2, FS_AddElement
<1> QED
    BY <1>2, <1>3, <1>4

(* The sessions that hold a user are finitely many. *)
LEMMA QtHeldFinite == IsFiniteSet(QtHeld) /\ Cardinality(QtHeld) \in Nat
<1>n. QtMaxTunnels \in Nat
    BY QuicTunnelsAssumption
<1>1. IsFiniteSet(QtTunnels)
    BY <1>n, FS_Interval DEF QtTunnels
<1> QED
    BY <1>1, FS_Subset, FS_CardinalityType DEF QtHeld

-----------------------------------------------------------------------------
(* QuicTunnels: the steps *)

(* A quic tunnel that moves to a sound state leaves the others as they     *)
(* are.                                                                    *)
LEMMA QtOneTunnel ==
    ASSUME QtTunnelsSound, NEW t \in QtTunnels, NEW y \in QtTunnelState, QtSound(y),
           qtTun' = [qtTun EXCEPT ![t] = y]
    PROVE  /\ QtTunnelsSound'
           /\ qtTun'[t] = y /\ \A u \in QtTunnels : u # t => qtTun'[u] = qtTun[u]
<1>1. /\ qtTun' \in [QtTunnels -> QtTunnelState]
      /\ qtTun'[t] = y /\ \A u \in QtTunnels : u # t => qtTun'[u] = qtTun[u]
    BY DEF QtTunnelsSound
<1>2. \A u \in QtTunnels : QtSound(qtTun'[u])
    BY <1>1 DEF QtTunnelsSound
<1> QED
    BY <1>1, <1>2 DEF QtTunnelsSound

(* No user moves. *)
LEMMA QtCountedSame ==
    ASSUME QtCounted, UNCHANGED <<qtLocal, qtAccepted, qtEnded>>,
           \A t \in QtTunnels :
             /\ qtTun'[t].relays = qtTun[t].relays
             /\ qtTun'[t].pc \in {"open", "back"} <=> qtTun[t].pc \in {"open", "back"}
    PROVE  QtCounted'
<1>1. QtRelays' = QtRelays
    BY DEF QtRelays
<1>2. QtHeld' = QtHeld
    BY DEF QtHeld
<1> QED
    BY <1>1, <1>2 DEF QtCounted

(* No tunnel joins or leaves a tunnelChan. *)
LEMMA QtQueuedSame ==
    ASSUME QtQueued, QtRest, UNCHANGED qtQueue,
           \A t \in QtTunnels : qtTun[t].at = "queue" /\ QtInQueue(t) => qtTun'[t].at = "queue"
    PROVE  QtQueued'
<1>1. \A r \in QtRuns : \A i \in 1..Len(qtQueue[r]) :
        qtQueue[r][i] \in QtTunnels /\ QtInQueue(qtQueue[r][i])
    BY DEF QtRest, QtInQueue
<1> QED
    BY <1>1 DEF QtQueued

(* No session begins or signals. *)
LEMMA QtPairedSame ==
    ASSUME QtPaired, UNCHANGED qtLoop,
           \A l \in QtRuns : qtLoop[l].pc = "next" /\ QtDone(l) => QtDone(l)',
           \A t \in QtTunnels :
             /\ QtOwes(qtTun'[t]) <=> QtOwes(qtTun[t])
             /\ QtOwes(qtTun[t]) => /\ qtTun'[t].loop = qtTun[t].loop
                                    /\ qtTun'[t].loop <= qtTun'[t].run
    PROVE  QtPaired'
<1>1. \A t \in QtTunnels : QtOwes(qtTun'[t]) =>
        qtLoop'[qtTun'[t].loop].pc = "next" /\ qtTun'[t].loop <= qtTun'[t].run
    BY DEF QtPaired
<1>2. \A t, u \in QtTunnels : QtOwes(qtTun'[t]) /\ QtOwes(qtTun'[u])
        /\ qtTun'[t].loop = qtTun'[u].loop => t = u
    BY DEF QtPaired
<1>3. ASSUME NEW l \in QtRuns, qtLoop'[l].pc = "next"
      PROVE  QtDone(l)' \/ \E t \in QtTunnels : QtOwes(qtTun'[t]) /\ qtTun'[t].loop = l
    <2>1. QtDone(l) \/ \E t \in QtTunnels : QtOwes(qtTun[t]) /\ qtTun[t].loop = l
        BY <1>3 DEF QtPaired
    <2> QED
        BY <1>3, <2>1
<1> QED
    BY <1>1, <1>2, <1>3 DEF QtPaired

(* The steps of the control connection and of Restart. *)
QtServer == \/ QtCandidate \/ QtHandshakeFails \/ QtLinkUp \/ QtLinkUpTwice \/ QtKeeperStarts
            \/ QtKeeperPanics \/ QtLinkLost \/ QtRestartBegins \/ QtRestartEnds

(* They keep to the bound, *)
LEMMA QtLinksStep ==
    ASSUME QtLinksSound(qtLinks), QtServer
    PROVE  QtLinksSound(qtLinks')
<1>1. QtMaxLinks \in Nat
    BY QuicTunnelsAssumption
<1>2. CASE QtCandidate
    BY <1>1, <1>2 DEF QtCandidate, QtKeepers, QtLinksSound
<1>3. CASE QtHandshakeFails
    BY <1>1, <1>3 DEF QtHandshakeFails, QtLinksSound
<1>4. CASE QtLinkUp
    <2>1. /\ qtLinks \in [handshakes : Nat, starting : Nat, keeping : Nat]
          /\ qtLinks.handshakes + qtLinks.starting + qtLinks.keeping <= QtMaxLinks
          /\ qtLinks.handshakes > 0
        BY <1>4 DEF QtLinkUp, QtLinksSound
    <2>2. qtLinks' = [handshakes |-> qtLinks.handshakes - 1, starting |-> qtLinks.starting + 1,
                      keeping |-> qtLinks.keeping]
        BY <1>4, <2>1 DEF QtLinkUp
    <2> QED
        BY <1>1, <2>1, <2>2 DEF QtLinksSound
<1>5. CASE QtKeeperStarts
    <2>1. /\ qtLinks \in [handshakes : Nat, starting : Nat, keeping : Nat]
          /\ qtLinks.handshakes + qtLinks.starting + qtLinks.keeping <= QtMaxLinks
          /\ qtLinks.starting > 0
        BY <1>5 DEF QtKeeperStarts, QtLinksSound
    <2>2. qtLinks' = [handshakes |-> qtLinks.handshakes, starting |-> qtLinks.starting - 1,
                      keeping |-> qtLinks.keeping + 1]
        BY <1>5, <2>1 DEF QtKeeperStarts
    <2> QED
        BY <1>1, <2>1, <2>2 DEF QtLinksSound
<1>6. CASE QtLinkLost
    BY <1>1, <1>6 DEF QtLinkLost, QtLinksSound
<1>7. CASE QtRestartBegins
    <2>1. /\ qtLinks'.handshakes = qtLinks.handshakes
          /\ qtLinks'.starting = 0 /\ qtLinks'.keeping = 0
          /\ qtLinks' \in [handshakes : Nat, starting : Nat, keeping : Nat]
        BY <1>7 DEF QtRestartBegins, QtLinksSound
    <2> QED
        BY <1>1, <2>1 DEF QtLinksSound
<1>8. CASE QtLinkUpTwice \/ QtKeeperPanics \/ QtRestartEnds
    BY <1>8 DEF QtLinkUpTwice, QtKeeperPanics, QtRestartEnds
<1> QED
    BY <1>2, <1>3, <1>4, <1>5, <1>6, <1>7, <1>8 DEF QtServer

(* and preserve the invariant. *)
LEMMA QtServerStep ==
    ASSUME QtInv, QtServer
    PROVE  QtInv'
<1>0. QtRest /\ QtTunnelsSound /\ QtQueued /\ QtPaired /\ QtStartedOnce /\ QtCounted
    BY DEF QtInv
<1>n. QtMaxRuns \in Nat \ {0} /\ QtRuns = 1..QtMaxRuns /\ QtChannelSize \in Nat
    BY QuicTunnelsAssumption DEF QtRuns
<1>1. UNCHANGED <<qtTun, qtQueue, qtLocal, qtAccepted, qtEnded>>
    BY DEF QtServer, QtCandidate, QtHandshakeFails, QtLinkUp, QtLinkUpTwice, QtKeeperStarts,
           QtKeeperPanics, QtLinkLost, QtRestartBegins, QtRestartEnds
<1>k. QtLinksSound(qtLinks')
    BY <1>0, QtLinksStep DEF QtRest
<1>2. QtTunnelsSound' /\ QtQueued' /\ QtCounted'
    <2>1. QtTunnelsSound' /\ QtQueued'
        BY <1>0, <1>1 DEF QtTunnelsSound, QtQueued
    <2> QED
        BY <1>0, <1>1, <2>1, QtCountedSame
<1>3. CASE QtLinkUp
    <2>1. /\ qtRun' = qtRun /\ qtPhase' = qtPhase /\ qtCold' = qtCold /\ qtControl' = TRUE
          /\ qtPhase = "live" /\ qtPool' \in BOOLEAN /\ qtRequests' = qtRequests
        BY <1>0, <1>3 DEF QtLinkUp, QtRest
    <2>2. CASE qtCold /\ qtLoop' = [qtLoop EXCEPT ![qtRun] = [pc |-> "select", run |-> qtRun]]
        <3>1. /\ qtLoop' \in [QtRuns -> QtLoopState] /\ qtLoop'[qtRun].pc = "select"
              /\ \A l \in QtRuns : l # qtRun => qtLoop'[l] = qtLoop[l]
              /\ qtLoop[qtRun].pc = "none"
            BY <1>0, <1>3, <2>2 DEF QtRest, QtLoopState, QtLinkUp
        <3>2. QtRest'
            BY <1>0, <1>1, <1>k, <2>1, <3>1 DEF QtRest
        <3>3. \A l \in QtRuns : qtLoop'[l].pc = "next" <=> qtLoop[l].pc = "next"
            BY <1>0, <3>1 DEF QtRest
        <3>l. \A t \in QtTunnels : qtTun[t].loop \in QtRuns
            BY <1>0 DEF QtTunnelsSound, QtTunnelState
        <3>4. QtPaired'
            BY <1>0, <1>1, <2>1, <3>3, <3>l DEF QtPaired, QtDone
        <3>5. QtStartedOnce'
            BY <1>0, <1>n, <2>1, <3>1 DEF QtStartedOnce, QtRest
        <3> QED
            BY <1>2, <3>2, <3>4, <3>5 DEF QtInv
    <2>3. CASE qtLoop' = qtLoop
        <3>1. QtRest'
            BY <1>0, <1>1, <1>k, <2>1, <2>3 DEF QtRest
        <3>2. QtPaired'
            BY <1>0, <1>1, <2>1, <2>3 DEF QtPaired, QtDone
        <3>3. QtStartedOnce'
            BY <1>0, <2>1, <2>3 DEF QtStartedOnce
        <3> QED
            BY <1>2, <3>1, <3>2, <3>3 DEF QtInv
    <2> QED
        BY <1>3, <2>2, <2>3 DEF QtLinkUp
<1>4. CASE QtCandidate \/ QtHandshakeFails \/ QtKeeperStarts \/ QtLinkLost
    <2>1. /\ qtRun' = qtRun /\ qtPhase' = qtPhase /\ qtLoop' = qtLoop /\ qtPool' = qtPool
          /\ qtControl' \in BOOLEAN /\ qtCold' \in BOOLEAN
        BY <1>0, <1>4 DEF QtCandidate, QtHandshakeFails, QtKeeperStarts, QtLinkLost, QtRest
    <2>2. qtRequests' \in 0..QtChannelSize
        BY <1>0, <1>4, <1>n DEF QtCandidate, QtHandshakeFails, QtKeeperStarts, QtLinkLost, QtRest
    <2>3. QtRest'
        BY <1>0, <1>1, <1>k, <2>1, <2>2 DEF QtRest
    <2>4. QtPaired'
        BY <1>0, <1>1, <2>1 DEF QtPaired, QtDone
    <2>5. QtStartedOnce'
        BY <1>0, <2>1 DEF QtStartedOnce
    <2> QED
        BY <1>2, <2>3, <2>4, <2>5 DEF QtInv
<1>5. CASE QtRestartBegins \/ QtLinkUpTwice \/ QtKeeperPanics
    <2>1. /\ UNCHANGED <<qtRun, qtControl, qtCold, qtLoop, qtRequests, qtPool>>
          /\ qtPhase = "live"
          /\ qtPhase' = "exited" \/ (qtPhase' = "cancelled" /\ qtRun < QtMaxRuns)
        BY <1>5 DEF QtRestartBegins, QtLinkUpTwice, QtKeeperPanics
    <2>2. QtRest'
        BY <1>0, <1>1, <1>k, <2>1 DEF QtRest
    <2>3. QtPaired'
        BY <1>0, <1>1, <2>1 DEF QtPaired, QtDone
    <2>4. QtStartedOnce'
        BY <1>0, <2>1 DEF QtStartedOnce
    <2> QED
        BY <1>2, <2>2, <2>3, <2>4 DEF QtInv
<1>6. CASE QtRestartEnds
    <2>1. /\ UNCHANGED <<qtLoop, qtPool>> /\ qtPhase = "closed"
          /\ qtRun' = qtRun + 1 /\ qtPhase' = "live" /\ qtControl' = FALSE /\ qtCold' = TRUE
          /\ qtRequests' = 0
        BY <1>6 DEF QtRestartEnds
    <2>2. qtRun + 1 \in QtRuns /\ qtRun \in Nat
        BY <1>0, <1>n, <2>1 DEF QtRest, QtStartedOnce
    <2>z. 0 \in 0..QtChannelSize
        BY <1>n
    <2>3. QtRest'
        BY <1>0, <1>1, <1>k, <2>1, <2>2, <2>z DEF QtRest
    <2>4. \A l \in QtRuns : qtLoop[l].pc # "none" => l <= qtRun /\ l < qtRun + 1
        BY <1>0, <1>n, <2>2 DEF QtStartedOnce
    <2>5. QtPaired'
        BY <1>0, <1>1, <2>1, <2>4 DEF QtPaired, QtDone
    <2>6. QtStartedOnce'
        BY <1>0, <1>n, <2>1, <2>2, <2>4 DEF QtStartedOnce
    <2> QED
        BY <1>2, <2>3, <2>5, <2>6 DEF QtInv
<1> QED
    BY <1>3, <1>4, <1>5, <1>6 DEF QtServer

(* A tunnel moves, breaks or is forgotten without its session: it keeps    *)
(* what the session has, or it was free and is new.                        *)
QtBeside(t, x, y) ==
    \/ /\ y.pc = x.pc /\ y.run = x.run /\ y.loop = x.loop /\ y.relays = x.relays
       /\ x.at = "queue" => y.at = "queue"
    \/ QtFree(t) /\ y.pc = "none" /\ y.relays = 0

(* Steps of the client and of dying connections, beside the sessions of    *)
(* the server, keep the invariant.                                         *)
LEMMA QtBesideInv ==
    ASSUME QtInv, QtTunnelsSound', \A t \in QtTunnels : QtBeside(t, qtTun[t], qtTun'[t]),
           UNCHANGED <<qtRun, qtControl, qtCold, qtQueue, qtLocal, qtLoop, qtPool,
                       qtAccepted, qtEnded>>,
           QtLinksSound(qtLinks'), qtRequests' \in 0..QtChannelSize,
           qtPhase' = qtPhase \/ (qtPhase = "cancelled" /\ qtPhase' = "closed")
    PROVE  QtInv'
<1>0. QtRest /\ QtTunnelsSound /\ QtQueued /\ QtPaired /\ QtStartedOnce /\ QtCounted
    BY DEF QtInv
<1>1. QtRest'
    BY <1>0 DEF QtRest
<1>2. QtStartedOnce'
    BY <1>0 DEF QtStartedOnce
<1>3. \A t \in QtTunnels :
        /\ qtTun'[t].relays = qtTun[t].relays
        /\ qtTun'[t].pc \in {"open", "back"} <=> qtTun[t].pc \in {"open", "back"}
        /\ QtOwes(qtTun'[t]) <=> QtOwes(qtTun[t])
        /\ QtOwes(qtTun[t]) => qtTun'[t].loop = qtTun[t].loop /\ qtTun'[t].run = qtTun[t].run
        /\ qtTun[t].at = "queue" /\ QtInQueue(t) => qtTun'[t].at = "queue"
    BY DEF QtBeside, QtFree, QtOwes
<1>4. QtCounted'
    BY <1>0, <1>3, QtCountedSame
<1>5. QtQueued'
    BY <1>0, <1>3, QtQueuedSame
<1>6. \A l \in QtRuns : QtDone(l) => QtDone(l)'
    BY DEF QtDone
<1>7. \A t \in QtTunnels : QtOwes(qtTun[t]) => qtTun'[t].loop <= qtTun'[t].run
    BY <1>0, <1>3 DEF QtPaired
<1>8. QtPaired'
    BY <1>0, <1>3, <1>6, <1>7, QtPairedSame
<1> QED
    BY <1>1, <1>2, <1>4, <1>5, <1>8 DEF QtInv

(* A quic tunnel not yet dialed, or about to be, is sound. *)
LEMMA QtNewSound ==
    /\ QtNewTunnel \in QtTunnelState /\ QtSound(QtNewTunnel)
    /\ [QtNewTunnel EXCEPT !.client = "start"] \in QtTunnelState
    /\ QtSound([QtNewTunnel EXCEPT !.client = "start"])
<1>1. 1 \in QtRuns /\ 0 \in 0..QtMuxCon
    BY QuicTunnelsAssumption DEF QtRuns
<1>2. QtNewTunnel \in QtTunnelState /\ [QtNewTunnel EXCEPT !.client = "start"] \in QtTunnelState
    BY <1>1 DEF QtNewTunnel, QtTunnelState
<1>3. QtSound(QtNewTunnel) /\ QtSound([QtNewTunnel EXCEPT !.client = "start"])
    BY DEF QtNewTunnel, QtSound
<1> QED
    BY <1>2, <1>3

(* tunnelDialers are started. *)
LEMMA QtSpawnBeside ==
    ASSUME QtTunnelsSound, NEW n, QtSpawn(n)
    PROVE  QtTunnelsSound' /\ \A t \in QtTunnels : QtBeside(t, qtTun[t], qtTun'[t])
<1>1. /\ qtTun' = [t \in QtTunnels |-> qtTun'[t]]
      /\ \A t \in QtTunnels : \/ qtTun'[t] = qtTun[t]
                              \/ /\ QtFree(t)
                                 /\ qtTun'[t] \in {QtNewTunnel, [QtNewTunnel EXCEPT !.client = "start"]}
    BY DEF QtSpawn
<1>2. \A t \in QtTunnels : qtTun'[t] \in QtTunnelState /\ QtSound(qtTun'[t])
    BY <1>1, QtNewSound DEF QtTunnelsSound
<1>3. QtTunnelsSound'
    BY <1>1, <1>2 DEF QtTunnelsSound
<1>4. \A t \in QtTunnels : QtBeside(t, qtTun[t], qtTun'[t])
    BY <1>1 DEF QtBeside, QtNewTunnel
<1> QED
    BY <1>3, <1>4

(* Requests, poolChecker, the dialer and the client end of a tunnel keep   *)
(* the invariant.                                                          *)
LEMMA QtClientStep ==
    ASSUME QtInv,
           \/ QtSendRequest \/ QtPoolCheck \/ QtListenerEnds
           \/ \E t \in QtTunnels : QtDialStarts(t) \/ QtDials(t) \/ QtBreaks(t) \/ QtClientEnds(t)
    PROVE  QtInv'
<1>0. QtRest /\ QtTunnelsSound /\ QtChannelSize \in Nat /\ QtLinksSound(qtLinks)
    BY QuicTunnelsAssumption DEF QtInv, QtRest
<1>1. CASE QtSendRequest
    <2>1. /\ UNCHANGED <<qtRun, qtPhase, qtControl, qtCold, qtLinks, qtQueue, qtLocal, qtLoop,
                         qtPool, qtAccepted, qtEnded>>
          /\ qtRequests' \in 0..QtChannelSize
        BY <1>0, <1>1 DEF QtSendRequest, qtServer, QtRest
    <2>2. CASE QtSpawn(1)
        BY <1>0, <2>1, <2>2, QtSpawnBeside, QtBesideInv
    <2>3. CASE UNCHANGED qtTun
        <3>1. QtTunnelsSound' /\ \A t \in QtTunnels : QtBeside(t, qtTun[t], qtTun'[t])
            BY <1>0, <2>3 DEF QtTunnelsSound, QtBeside
        <3> QED
            BY <1>0, <2>1, <3>1, QtBesideInv
    <2> QED
        BY <1>1, <2>2, <2>3 DEF QtSendRequest
<1>2. CASE QtPoolCheck
    <2>1. /\ UNCHANGED <<qtRun, qtPhase, qtControl, qtCold, qtLinks, qtQueue, qtLocal, qtLoop,
                         qtPool, qtAccepted, qtEnded>>
          /\ qtRequests' \in 0..QtChannelSize /\ QtSpawn(QtPoolSize - QtActive)
        BY <1>0, <1>2 DEF QtPoolCheck, qtServer, QtRest
    <2>2. QtTunnelsSound' /\ \A t \in QtTunnels : QtBeside(t, qtTun[t], qtTun'[t])
        BY <1>0, <2>1, QtSpawnBeside
    <2> QED
        BY <1>0, <2>1, <2>2, QtBesideInv
<1>3. CASE QtListenerEnds
    <2>k. QtLinksSound(qtLinks')
        BY <1>3, QuicTunnelsAssumption DEF QtListenerEnds, QtNoLinks, QtLinksSound
    <2>1. /\ UNCHANGED <<qtRun, qtControl, qtCold, qtQueue, qtLocal, qtLoop,
                         qtPool, qtAccepted, qtEnded>>
          /\ qtPhase = "cancelled" /\ qtPhase' = "closed" /\ qtRequests' \in 0..QtChannelSize
        BY <1>0, <1>3 DEF QtListenerEnds, QtRest
    <2>2. /\ qtTun' = [t \in QtTunnels |-> [qtTun[t] EXCEPT !.dead = @ \/ qtTun[t].at # "none"]]
          /\ qtTun \in [QtTunnels -> QtTunnelState] /\ \A t \in QtTunnels : QtSound(qtTun[t])
        BY <1>0, <1>3 DEF QtListenerEnds, QtTunnelsSound
    <2>3. \A t \in QtTunnels : qtTun'[t] \in QtTunnelState /\ QtSound(qtTun'[t])
                               /\ QtBeside(t, qtTun[t], qtTun'[t])
        <3> SUFFICES ASSUME NEW t \in QtTunnels
                     PROVE  qtTun'[t] \in QtTunnelState /\ QtSound(qtTun'[t])
                            /\ QtBeside(t, qtTun[t], qtTun'[t])
            OBVIOUS
        <3>1. PICK b \in BOOLEAN : qtTun'[t] = [qtTun[t] EXCEPT !.dead = b]
            BY <2>2 DEF QtTunnelState
        <3>2. qtTun[t] \in QtTunnelState /\ QtSound(qtTun[t])
            BY <2>2
        <3> QED
            BY <3>1, <3>2 DEF QtTunnelState, QtSound, QtBeside
    <2>4. QtTunnelsSound'
        BY <2>2, <2>3 DEF QtTunnelsSound
    <2> QED
        BY <2>k, <2>1, <2>3, <2>4, QtBesideInv
<1>4. CASE \E t \in QtTunnels : QtDialStarts(t) \/ QtDials(t) \/ QtBreaks(t) \/ QtClientEnds(t)
    <2>1. PICK t \in QtTunnels : QtDialStarts(t) \/ QtDials(t) \/ QtBreaks(t) \/ QtClientEnds(t)
        BY <1>4
    <2>2. /\ UNCHANGED <<qtRun, qtPhase, qtControl, qtCold, qtLinks, qtQueue, qtLocal, qtLoop,
                         qtPool, qtAccepted, qtEnded>>
          /\ qtRequests' \in 0..QtChannelSize
        BY <1>0, <2>1 DEF QtDialStarts, QtDials, QtBreaks, QtClientEnds, qtServer, QtRest
    <2>x. PICK x : x = qtTun[t]
        OBVIOUS
    <2>3. x \in QtTunnelState /\ QtSound(x) /\ qtTun \in [QtTunnels -> QtTunnelState]
        BY <1>0, <2>x DEF QtTunnelsSound
    <2>4. ASSUME NEW y \in QtTunnelState, qtTun' = [qtTun EXCEPT ![t] = y], QtSound(y),
                 QtBeside(t, x, y)
          PROVE  QtInv'
        <3>1. QtTunnelsSound' /\ qtTun'[t] = y /\ \A u \in QtTunnels : u # t => qtTun'[u] = qtTun[u]
            BY <1>0, <2>4, QtOneTunnel
        <3>2. \A u \in QtTunnels : QtBeside(u, qtTun[u], qtTun'[u])
            <4>1. \A u \in QtTunnels : u # t => QtBeside(u, qtTun[u], qtTun'[u])
                BY <3>1 DEF QtBeside
            <4>2. QtBeside(t, qtTun[t], qtTun'[t])
                BY <2>4, <2>x, <3>1
            <4> QED
                BY <4>1, <4>2
        <3> QED
            BY <1>0, <2>2, <3>1, <3>2, QtBesideInv
    <2>5. CASE QtDialStarts(t)
        <3> DEFINE y == [x EXCEPT !.client = "dial"]
        <3>1. x.client = "start" /\ qtTun' = [qtTun EXCEPT ![t] = y]
            BY <2>3, <2>5, <2>x DEF QtDialStarts
        <3>2. y \in QtTunnelState /\ QtSound(y) /\ QtBeside(t, x, y)
            BY <2>3, <3>1 DEF QtTunnelState, QtSound, QtBeside
        <3> QED
            BY <2>4, <3>1, <3>2
    <2>6. CASE QtDials(t)
        <3>1. x.client = "dial" /\ x.pc = "none" /\ x.at = "none"
            BY <2>3, <2>6, <2>x DEF QtDials, QtSound
        <3>2. CASE qtTun' = [qtTun EXCEPT ![t] = [x EXCEPT !.client = "open", !.at = "wire"]]
            <4> DEFINE y == [x EXCEPT !.client = "open", !.at = "wire"]
            <4>1. y \in QtTunnelState /\ QtSound(y) /\ QtBeside(t, x, y)
                BY <2>3, <3>1 DEF QtTunnelState, QtSound, QtBeside
            <4> QED
                BY <2>4, <3>2, <4>1
        <3>3. CASE qtTun' = [qtTun EXCEPT ![t] = [x EXCEPT !.client = "none"]]
            <4> DEFINE y == [x EXCEPT !.client = "none"]
            <4>1. y \in QtTunnelState /\ QtSound(y) /\ QtBeside(t, x, y)
                BY <2>3, <3>1 DEF QtTunnelState, QtSound, QtBeside
            <4> QED
                BY <2>4, <3>3, <4>1
        <3> QED
            BY <2>3, <2>6, <2>x, <3>2, <3>3 DEF QtDials
    <2>7. CASE QtBreaks(t)
        <3> DEFINE y == [x EXCEPT !.dead = TRUE]
        <3>1. qtTun' = [qtTun EXCEPT ![t] = y]
            BY <2>3, <2>7, <2>x DEF QtBreaks
        <3>2. y \in QtTunnelState /\ QtSound(y) /\ QtBeside(t, x, y)
            BY <2>3 DEF QtTunnelState, QtSound, QtBeside
        <3> QED
            BY <2>4, <3>1, <3>2
    <2>8. CASE QtClientEnds(t)
        <3> DEFINE y == [x EXCEPT !.client = "none"]
        <3>1. qtTun' = [qtTun EXCEPT ![t] = y]
            BY <2>3, <2>8, <2>x DEF QtClientEnds
        <3>2. y \in QtTunnelState /\ QtSound(y) /\ QtBeside(t, x, y)
            BY <2>3 DEF QtTunnelState, QtSound, QtBeside
        <3> QED
            BY <2>4, <3>1, <3>2
    <2> QED
        BY <2>1, <2>5, <2>6, <2>7, <2>8
<1> QED
    BY <1>1, <1>2, <1>3, <1>4

(* acceptTunCon and acceptLocalCon. *)
LEMMA QtAcceptInv ==
    ASSUME QtInv, NEW t \in QtTunnels, QtAccept(t)
    PROVE  QtInv'
<1>0. QtRest /\ QtTunnelsSound /\ QtQueued /\ QtPaired /\ QtStartedOnce /\ QtCounted
    BY DEF QtInv
<1>x. PICK x : x = qtTun[t]
    OBVIOUS
<1>1. /\ x \in QtTunnelState /\ QtSound(x) /\ qtTun \in [QtTunnels -> QtTunnelState]
      /\ x.at = "wire" /\ x.pc = "none" /\ x.client \notin {"start", "dial"}
      /\ QtChannelSize \in Nat
    BY <1>0, <1>x, QuicTunnelsAssumption DEF QtTunnelsSound, QtAccept, QtSound
<1>2. /\ UNCHANGED <<qtRun, qtPhase, qtControl, qtCold, qtLinks, qtLocal, qtLoop, qtRequests,
                     qtPool, qtAccepted, qtEnded>>
    BY DEF QtAccept, qtServer
<1>3. ASSUME NEW a \in {"handshake", "queue", "left"},
             qtTun' = [qtTun EXCEPT ![t] = [x EXCEPT !.at = a]]
      PROVE  /\ QtTunnelsSound' /\ qtTun'[t].at = a
             /\ \A u \in QtTunnels : u # t => qtTun'[u] = qtTun[u]
             /\ \A u \in QtTunnels : QtBeside(u, qtTun[u], qtTun'[u])
    <2> DEFINE y == [x EXCEPT !.at = a]
    <2>1. y \in QtTunnelState /\ QtSound(y) /\ QtBeside(t, x, y) /\ y.at = a
        BY <1>1, <1>3 DEF QtTunnelState, QtSound, QtBeside
    <2>2. QtTunnelsSound' /\ qtTun'[t] = y /\ \A u \in QtTunnels : u # t => qtTun'[u] = qtTun[u]
        BY <1>0, <1>3, <2>1, QtOneTunnel
    <2>3. \A u \in QtTunnels : u # t => QtBeside(u, qtTun[u], qtTun'[u])
        BY <2>2 DEF QtBeside
    <2>4. QtBeside(t, qtTun[t], qtTun'[t])
        BY <1>x, <2>1, <2>2
    <2> QED
        BY <2>1, <2>2, <2>3, <2>4
<1>4. CASE qtQueue' = qtQueue
           /\ \E a \in {"handshake", "left"} : qtTun' = [qtTun EXCEPT ![t] = [x EXCEPT !.at = a]]
    <2>1. QtTunnelsSound' /\ \A u \in QtTunnels : QtBeside(u, qtTun[u], qtTun'[u])
        BY <1>3, <1>4
    <2>2. qtRequests' \in 0..QtChannelSize
        BY <1>0, <1>2 DEF QtRest
    <2>3. QtLinksSound(qtLinks')
        BY <1>0, <1>2 DEF QtRest
    <2> QED
        BY <1>2, <1>4, <2>1, <2>2, <2>3, QtBesideInv
<1>5. CASE /\ Len(qtQueue[qtRun]) < QtChannelSize
           /\ qtQueue' = [qtQueue EXCEPT ![qtRun] = Append(@, t)]
           /\ qtTun' = [qtTun EXCEPT ![t] = [x EXCEPT !.at = "queue"]]
    <2>1. /\ QtTunnelsSound' /\ qtTun'[t].at = "queue"
          /\ \A u \in QtTunnels : u # t => qtTun'[u] = qtTun[u]
          /\ \A u \in QtTunnels : QtBeside(u, qtTun[u], qtTun'[u])
        BY <1>3, <1>5
    <2>q. PICK q : q = qtQueue[qtRun]
        OBVIOUS
    <2>2. /\ q \in Seq(QtTunnels) /\ Len(q) < QtChannelSize /\ qtRun \in QtRuns
          /\ qtQueue \in [QtRuns -> Seq(QtTunnels)]
        BY <1>0, <1>5, <2>q DEF QtRest
    <2>3. /\ qtQueue'[qtRun] = Append(q, t) /\ qtQueue' \in [QtRuns -> Seq(QtTunnels)]
          /\ \A r \in QtRuns : r # qtRun => qtQueue'[r] = qtQueue[r]
        BY <1>5, <2>2, <2>q
    <2>4. /\ Len(qtQueue'[qtRun]) = Len(q) + 1 /\ qtQueue'[qtRun][Len(q) + 1] = t
          /\ \A i \in 1..Len(q) : qtQueue'[qtRun][i] = q[i] /\ Len(q) \in Nat
        BY <2>2, <2>3
    <2>5. QtRest'
        <3>1. \A r \in QtRuns : Len(qtQueue'[r]) <= QtChannelSize
            <4>1. Len(qtQueue'[qtRun]) <= QtChannelSize
                BY <1>1, <2>2, <2>4
            <4> QED
                BY <1>0, <2>3, <4>1 DEF QtRest
        <3> QED
            BY <1>0, <1>2, <2>3, <3>1 DEF QtRest
    (* The new entry is new; the others are the old ones. *)
    <2>6. \A r \in QtRuns : \A i \in 1..Len(qtQueue[r]) :
            qtQueue[r][i] \in QtTunnels /\ qtQueue[r][i] # t
        BY <1>0, <1>1, <1>x DEF QtRest, QtQueued
    <2>7. \A r \in QtRuns : \A i \in 1..Len(qtQueue'[r]) :
            \/ r = qtRun /\ i = Len(q) + 1 /\ qtQueue'[r][i] = t
            \/ i \in 1..Len(qtQueue[r]) /\ qtQueue'[r][i] = qtQueue[r][i]
        <3>1. \A i \in 1..Len(qtQueue'[qtRun]) : i = Len(q) + 1 \/ i \in 1..Len(q)
            BY <2>2, <2>4
        <3> QED
            BY <2>3, <2>4, <2>q, <3>1
    <2>8. \A r \in QtRuns : \A i \in 1..Len(qtQueue'[r]) : qtTun'[qtQueue'[r][i]].at = "queue"
        <3> SUFFICES ASSUME NEW r \in QtRuns, NEW i \in 1..Len(qtQueue'[r])
                     PROVE  qtTun'[qtQueue'[r][i]].at = "queue"
            OBVIOUS
        <3>1. CASE qtQueue'[r][i] = t
            BY <2>1, <3>1
        <3>2. CASE i \in 1..Len(qtQueue[r]) /\ qtQueue'[r][i] = qtQueue[r][i]
            BY <1>0, <2>1, <2>6, <3>2 DEF QtQueued
        <3> QED
            BY <2>7, <3>1, <3>2
    <2>9. ASSUME NEW r \in QtRuns, NEW k \in QtRuns, NEW i \in 1..Len(qtQueue'[r]),
                 NEW j \in 1..Len(qtQueue'[k]), qtQueue'[r][i] = qtQueue'[k][j]
          PROVE  r = k /\ i = j
        <3>1. CASE qtQueue'[r][i] = t
            <4>1. r = qtRun /\ i = Len(q) + 1
                BY <2>6, <2>7, <3>1
            <4>2. k = qtRun /\ j = Len(q) + 1
                BY <2>6, <2>7, <2>9, <3>1
            <4> QED
                BY <4>1, <4>2
        <3>2. CASE qtQueue'[r][i] # t
            <4>1. i \in 1..Len(qtQueue[r]) /\ qtQueue'[r][i] = qtQueue[r][i]
                BY <2>7, <3>2
            <4>2. j \in 1..Len(qtQueue[k]) /\ qtQueue'[k][j] = qtQueue[k][j]
                BY <2>7, <2>9, <3>2
            <4>3. qtQueue[r][i] = qtQueue[k][j]
                BY <2>9, <4>1, <4>2
            <4> QED
                BY <1>0, <4>1, <4>2, <4>3 DEF QtQueued
        <3> QED
            BY <3>1, <3>2
    <2>10. QtQueued'
        BY <2>8, <2>9 DEF QtQueued
    <2>11. \A u \in QtTunnels :
             /\ qtTun'[u].relays = qtTun[u].relays /\ qtTun'[u].pc = qtTun[u].pc
             /\ qtTun'[u].loop = qtTun[u].loop /\ qtTun'[u].run = qtTun[u].run
        <3>1. /\ qtTun'[t].relays = x.relays /\ qtTun'[t].pc = x.pc
              /\ qtTun'[t].loop = x.loop /\ qtTun'[t].run = x.run
            BY <1>1, <1>5 DEF QtTunnelState
        <3> QED
            BY <1>x, <2>1, <3>1
    <2>12. QtCounted'
        BY <1>0, <1>2, <2>11, QtCountedSame
    <2>13. QtPaired'
        BY <1>0, <1>2, <2>11 DEF QtPaired, QtOwes, QtDone
    <2>14. QtStartedOnce'
        BY <1>0, <1>2 DEF QtStartedOnce
    <2> QED
        BY <2>1, <2>5, <2>10, <2>12, <2>13, <2>14 DEF QtInv
<1> QED
    <2>1. qtQueue = [qtQueue EXCEPT ![qtRun] = @]
        BY <1>0 DEF QtRest
    <2> QED
        BY <1>4, <1>5, <1>1, <1>x, <2>1 DEF QtAccept

(* Accepting a user connection keeps the invariant: it is counted where it *)
(* is queued.                                                              *)
LEMMA QtAcceptLocalInv ==
    ASSUME QtInv, QtAcceptLocal
    PROVE  QtInv'
<1>0. QtRest /\ QtTunnelsSound /\ QtQueued /\ QtPaired /\ QtStartedOnce /\ QtCounted
    BY DEF QtInv
<1>1. /\ UNCHANGED <<qtRun, qtPhase, qtControl, qtCold, qtLinks, qtTun, qtQueue, qtLoop,
                     qtRequests, qtPool, qtEnded>>
      /\ qtAccepted' = qtAccepted + 1 /\ qtAccepted < QtMaxLocals
      /\ qtLocal[qtRun] < QtChannelSize
      /\ qtLocal' = [qtLocal EXCEPT ![qtRun] = qtLocal[qtRun] + 1]
    BY DEF QtAcceptLocal, qtServer
<1>2. QtMaxLocals \in Nat /\ QtChannelSize \in Nat
    BY QuicTunnelsAssumption
<1>3. QtRest'
    <2>1. qtLocal' \in [QtRuns -> 0..QtChannelSize]
        BY <1>0, <1>1, <1>2 DEF QtRest
    <2>2. qtAccepted' \in 0..QtMaxLocals
        BY <1>0, <1>1, <1>2 DEF QtRest
    <2> QED
        BY <1>0, <1>1, <2>1, <2>2 DEF QtRest
<1>4. QtTunnelsSound' /\ QtQueued' /\ QtPaired' /\ QtStartedOnce'
    BY <1>0, <1>1 DEF QtTunnelsSound, QtQueued, QtPaired, QtStartedOnce, QtDone
<1>5. QtAdds(QtRuns, qtLocal, qtLocal', qtRun)
    BY <1>0, <1>1, <1>2, <1>3 DEF QtAdds, QtRest
<1>6. /\ IsFiniteSet(QtUnits(QtRuns, qtLocal'))
      /\ Cardinality(QtUnits(QtRuns, qtLocal')) = Cardinality(QtUnits(QtRuns, qtLocal)) + 1
    BY <1>0, <1>5, QtCountUp DEF QtCounted
<1>7. QtRelays' = QtRelays /\ QtHeld' = QtHeld
    BY <1>1 DEF QtRelays, QtHeld
<1>8. /\ Cardinality(QtUnits(QtRuns, qtLocal)) \in Nat /\ Cardinality(QtHeld) \in Nat
      /\ Cardinality(QtUnits(QtTunnels, QtRelays)) \in Nat /\ qtEnded \in Nat
    BY <1>0, FS_CardinalityType, QtHeldFinite DEF QtCounted, QtRest
<1>9. QtCounted'
    BY <1>0, <1>1, <1>6, <1>7, <1>8 DEF QtCounted
<1> QED
    BY <1>3, <1>4, <1>9 DEF QtInv

(* handleTunConn takes the next tunnel, ends or reads its fields again. *)
LEMMA QtLoopInv ==
    ASSUME QtInv, NEW l \in QtRuns, QtLoopTakes(l) \/ QtLoopCancelled(l) \/ QtLoopTimer(l)
    PROVE  QtInv'
<1>0. QtRest /\ QtTunnelsSound /\ QtQueued /\ QtPaired /\ QtStartedOnce /\ QtCounted
    BY DEF QtInv
<1>n. QtRuns \subseteq Nat /\ qtRun \in QtRuns /\ QtChannelSize \in Nat
    BY <1>0, QuicTunnelsAssumption DEF QtRest, QtRuns
<1>1. /\ UNCHANGED <<qtRun, qtPhase, qtControl, qtCold, qtLinks, qtLocal, qtRequests, qtPool,
                     qtAccepted, qtEnded>>
      /\ qtLoop[l].pc = "select" /\ l <= qtRun /\ qtLoop \in [QtRuns -> QtLoopState]
    BY <1>0 DEF QtLoopTakes, QtLoopCancelled, QtLoopTimer, qtServer, QtStartedOnce, QtRest
<1>2. CASE QtLoopCancelled(l) \/ QtLoopTimer(l)
    <2>1. /\ UNCHANGED <<qtTun, qtQueue>>
          /\ qtLoop' \in [QtRuns -> QtLoopState]
          /\ \A k \in QtRuns : k # l => qtLoop'[k] = qtLoop[k]
          /\ qtLoop'[l].pc \in {"select", "ended"}
        BY <1>1, <1>2, <1>n DEF QtLoopCancelled, QtLoopTimer, QtLoopState
    <2>2. QtRest'
        BY <1>0, <1>1, <2>1 DEF QtRest
    <2>3. \A k \in QtRuns : qtLoop'[k].pc = "next" <=> qtLoop[k].pc = "next"
        BY <1>1, <2>1
    <2>4. \A t \in QtTunnels : qtTun[t].loop \in QtRuns
        BY <1>0 DEF QtTunnelsSound, QtTunnelState
    <2>5. QtPaired'
        BY <1>0, <1>1, <2>1, <2>3, <2>4 DEF QtPaired, QtDone
    <2>6. \A k \in QtRuns : qtLoop'[k].pc = "none" <=> qtLoop[k].pc = "none"
        BY <1>1, <2>1
    <2>7. QtStartedOnce'
        BY <1>0, <1>1, <1>n, <2>6 DEF QtStartedOnce
    <2>8. QtTunnelsSound' /\ QtQueued' /\ QtCounted'
        <3>1. QtTunnelsSound' /\ QtQueued'
            BY <1>0, <2>1 DEF QtTunnelsSound, QtQueued
        <3> QED
            BY <1>0, <1>1, <2>1, <3>1, QtCountedSame
    <2> QED
        BY <2>2, <2>5, <2>7, <2>8 DEF QtInv
<1>3. CASE QtLoopTakes(l)
    <2>r. PICK r : r = qtLoop[l].run
        OBVIOUS
    <2>q. PICK q : q = qtQueue[r]
        OBVIOUS
    <2>t. PICK t : t = Head(q)
        OBVIOUS
    <2>1. r \in QtRuns /\ q \in Seq(QtTunnels) /\ q # <<>> /\ qtQueue \in [QtRuns -> Seq(QtTunnels)]
        BY <1>0, <1>1, <1>3, <2>q, <2>r DEF QtRest, QtLoopTakes, QtLoopState
    <2>2. /\ qtQueue' = [qtQueue EXCEPT ![r] = Tail(qtQueue[r])]
          /\ qtLoop' = [qtLoop EXCEPT ![l].pc = "next"]
          /\ qtTun' = [qtTun EXCEPT ![t].at = "session", ![t].pc = "select", ![t].run = qtRun,
                                    ![t].loop = l]
        BY <1>3, <2>q, <2>r, <2>t DEF QtLoopTakes
    <2>3. t \in QtTunnels /\ t = q[1] /\ 1 \in 1..Len(q) /\ Len(q) \in Nat \ {0}
        BY <2>1, <2>t
    <2>x. PICK x : x = qtTun[t]
        OBVIOUS
    <2>4. /\ x \in QtTunnelState /\ QtSound(x) /\ x.at = "queue" /\ x.pc = "none"
          /\ qtTun \in [QtTunnels -> QtTunnelState]
        BY <1>0, <2>1, <2>3, <2>q, <2>x DEF QtTunnelsSound, QtSound, QtQueued
    <2> DEFINE y == [x EXCEPT !.at = "session", !.pc = "select", !.run = qtRun, !.loop = l]
    <2>5. /\ y \in QtTunnelState /\ y.pc = "select" /\ y.run = qtRun /\ y.loop = l
          /\ y.relays = x.relays /\ y.count = x.count /\ y.client = x.client /\ y.at = "session"
        BY <1>n, <2>4 DEF QtTunnelState
    <2>6. QtSound(y)
        <3>1. QtMuxCon \in Nat \ {0}
            BY QuicTunnelsAssumption
        <3> QED
            BY <2>4, <2>5, <3>1 DEF QtSound, QtTunnelState
    <2>7. qtTun' = [qtTun EXCEPT ![t] = y]
        BY <2>2, <2>3, <2>4, <2>x
    <2>8. QtTunnelsSound' /\ qtTun'[t] = y /\ \A u \in QtTunnels : u # t => qtTun'[u] = qtTun[u]
        BY <1>0, <2>3, <2>5, <2>6, <2>7, QtOneTunnel
    <2>9. /\ qtQueue'[r] = Tail(q) /\ qtQueue' \in [QtRuns -> Seq(QtTunnels)]
          /\ \A k \in QtRuns : k # r => qtQueue'[k] = qtQueue[k]
        BY <2>1, <2>2, <2>q
    <2>10. /\ Len(qtQueue'[r]) = Len(q) - 1
           /\ \A i \in 1..Len(qtQueue'[r]) : qtQueue'[r][i] = q[i + 1] /\ i + 1 \in 1..Len(q)
        BY <2>1, <2>3, <2>9
    <2>11. /\ qtLoop' \in [QtRuns -> QtLoopState] /\ qtLoop'[l].pc = "next"
           /\ \A k \in QtRuns : k # l => qtLoop'[k] = qtLoop[k]
        BY <1>1, <2>2 DEF QtLoopState
    <2>12. QtRest'
        <3>1. Len(qtQueue'[r]) <= QtChannelSize
            BY <1>0, <1>n, <2>1, <2>3, <2>10, <2>q DEF QtRest
        <3>2. \A k \in QtRuns : Len(qtQueue'[k]) <= QtChannelSize
            BY <1>0, <2>9, <3>1 DEF QtRest
        <3> QED
            BY <1>0, <1>1, <2>9, <2>11, <3>2 DEF QtRest
    (* An entry that stays is an old one, and not t. *)
    <2>13. \A k \in QtRuns : \A i \in 1..Len(qtQueue'[k]) :
             \E j \in 1..Len(qtQueue[k]) :
               /\ qtQueue'[k][i] = qtQueue[k][j] /\ j = IF k = r THEN i + 1 ELSE i
               /\ qtQueue[k][j] \in QtTunnels /\ qtQueue[k][j] # t
        <3> SUFFICES ASSUME NEW k \in QtRuns, NEW i \in 1..Len(qtQueue'[k])
                     PROVE  \E j \in 1..Len(qtQueue[k]) :
                              /\ qtQueue'[k][i] = qtQueue[k][j] /\ j = IF k = r THEN i + 1 ELSE i
                              /\ qtQueue[k][j] \in QtTunnels /\ qtQueue[k][j] # t
            OBVIOUS
        <3>1. CASE k = r
            <4>1. i + 1 \in 1..Len(q) /\ qtQueue'[k][i] = q[i + 1] /\ i + 1 # 1
                BY <2>3, <2>10, <3>1
            <4>2. q[i + 1] # q[1]
                BY <1>0, <2>1, <2>3, <2>q, <4>1 DEF QtQueued
            <4>3. q[i + 1] \in QtTunnels
                BY <2>1, <4>1
            <4> QED
                BY <2>3, <2>q, <3>1, <4>1, <4>2, <4>3
        <3>2. CASE k # r
            <4>1. qtQueue'[k] = qtQueue[k]
                BY <2>9, <3>2
            <4>2. qtQueue[k][i] # q[1] /\ qtQueue[k][i] \in QtTunnels
                BY <1>0, <2>1, <2>3, <2>q, <3>2, <4>1 DEF QtQueued
            <4> QED
                BY <2>3, <3>2, <4>1, <4>2
        <3> QED
            BY <3>1, <3>2
    <2>14. \A k \in QtRuns : \A i \in 1..Len(qtQueue'[k]) : qtTun'[qtQueue'[k][i]].at = "queue"
        <3> SUFFICES ASSUME NEW k \in QtRuns, NEW i \in 1..Len(qtQueue'[k])
                     PROVE  qtTun'[qtQueue'[k][i]].at = "queue"
            OBVIOUS
        <3>1. PICK j \in 1..Len(qtQueue[k]) :
                qtQueue'[k][i] = qtQueue[k][j] /\ qtQueue[k][j] \in QtTunnels /\ qtQueue[k][j] # t
            BY <2>13
        <3>2. qtTun[qtQueue[k][j]].at = "queue"
            BY <1>0 DEF QtQueued
        <3> QED
            BY <2>8, <3>1, <3>2
    <2>15. ASSUME NEW k \in QtRuns, NEW m \in QtRuns, NEW i \in 1..Len(qtQueue'[k]),
                  NEW j \in 1..Len(qtQueue'[m]), qtQueue'[k][i] = qtQueue'[m][j]
           PROVE  k = m /\ i = j
        <3>1. PICK a \in 1..Len(qtQueue[k]) :
                qtQueue'[k][i] = qtQueue[k][a] /\ a = IF k = r THEN i + 1 ELSE i
            BY <2>13
        <3>2. PICK b \in 1..Len(qtQueue[m]) :
                qtQueue'[m][j] = qtQueue[m][b] /\ b = IF m = r THEN j + 1 ELSE j
            BY <2>13
        <3>3. qtQueue[k][a] = qtQueue[m][b]
            BY <2>15, <3>1, <3>2
        <3>4. k = m /\ a = b
            BY <1>0, <3>3 DEF QtQueued
        <3>5. i \in Int /\ j \in Int
            OBVIOUS
        <3> QED
            BY <3>1, <3>2, <3>4, <3>5
    <2>16. QtQueued'
        BY <2>14, <2>15 DEF QtQueued
    <2>17. \A u \in QtTunnels :
             /\ qtTun'[u].relays = qtTun[u].relays
             /\ qtTun'[u].pc \in {"open", "back"} <=> qtTun[u].pc \in {"open", "back"}
        BY <2>4, <2>5, <2>8, <2>x
    <2>18. QtCounted'
        BY <1>0, <1>1, <2>17, QtCountedSame
    <2>19. \A u \in QtTunnels : QtOwes(qtTun[u]) => u # t /\ qtTun[u].loop # l /\ qtTun[u].loop \in QtRuns
        <3>1. \A u \in QtTunnels : qtTun[u].loop \in QtRuns
            BY <2>4 DEF QtTunnelState
        <3> QED
            BY <1>0, <1>1, <2>4, <2>x, <3>1 DEF QtPaired, QtOwes
    <2>20. QtOwes(y)
        BY <2>5 DEF QtOwes
    <2>21. QtPaired'
        <3>0. /\ qtTun'[t].loop = l /\ qtTun'[t].run = qtRun
              /\ \A u \in QtTunnels : u # t => qtTun'[u] = qtTun[u]
            BY <2>5, <2>8
        <3>1. \A u \in QtTunnels : QtOwes(qtTun'[u]) =>
                qtLoop'[qtTun'[u].loop].pc = "next" /\ qtTun'[u].loop <= qtTun'[u].run
            <4>1. \A u \in QtTunnels : u # t /\ QtOwes(qtTun[u]) =>
                    qtLoop'[qtTun[u].loop].pc = "next" /\ qtTun[u].loop <= qtTun[u].run
                BY <1>0, <2>11, <2>19 DEF QtPaired
            <4> QED
                BY <1>1, <2>11, <3>0, <4>1
        <3>2. \A u, v \in QtTunnels : QtOwes(qtTun'[u]) /\ QtOwes(qtTun'[v])
                /\ qtTun'[u].loop = qtTun'[v].loop => u = v
            <4>1. \A u, v \in QtTunnels : QtOwes(qtTun[u]) /\ QtOwes(qtTun[v])
                    /\ qtTun[u].loop = qtTun[v].loop => u = v
                BY <1>0 DEF QtPaired
            <4> QED
                BY <2>19, <3>0, <4>1
        <3>3. ASSUME NEW k \in QtRuns, qtLoop'[k].pc = "next"
              PROVE  QtDone(k)' \/ \E u \in QtTunnels : QtOwes(qtTun'[u]) /\ qtTun'[u].loop = k
            <4>1. CASE k = l
                BY <2>3, <2>5, <2>8, <2>20, <4>1
            <4>2. CASE k # l
                <5>1. QtDone(k) \/ \E u \in QtTunnels : QtOwes(qtTun[u]) /\ qtTun[u].loop = k
                    BY <1>0, <2>11, <3>3, <4>2 DEF QtPaired
                <5>2. QtDone(k)' <=> QtDone(k)
                    BY <1>1 DEF QtDone
                <5> QED
                    BY <2>8, <2>19, <5>1, <5>2
            <4> QED
                BY <4>1, <4>2
        <3> QED
            BY <3>1, <3>2, <3>3 DEF QtPaired
    <2>22. QtStartedOnce'
        BY <1>0, <1>1, <1>n, <2>11 DEF QtStartedOnce
    <2> QED
        BY <2>8, <2>12, <2>16, <2>18, <2>21, <2>22 DEF QtInv
<1> QED
    BY <1>2, <1>3

(* The session of t steps: what has to be shown besides its own tunnel. *)
LEMMA QtSessionUpdate ==
    ASSUME QtInv, NEW t \in QtTunnels, NEW y \in QtTunnelState, QtSound(y),
           qtTun' = [qtTun EXCEPT ![t] = y], y.at = qtTun[t].at,
           UNCHANGED <<qtRun, qtPhase, qtControl, qtCold, qtLinks, qtQueue, qtPool, qtAccepted>>,
           qtLocal' \in [QtRuns -> 0..QtChannelSize], qtRequests' \in 0..QtChannelSize,
           qtEnded' \in Nat
    PROVE  /\ QtTunnelsSound' /\ QtQueued'
           /\ qtTun'[t] = y /\ \A u \in QtTunnels : u # t => qtTun'[u] = qtTun[u]
           /\ UNCHANGED qtLoop => QtRest' /\ QtStartedOnce'
<1>0. QtRest /\ QtTunnelsSound /\ QtQueued /\ QtPaired /\ QtStartedOnce /\ QtCounted
    BY DEF QtInv
<1>1. QtTunnelsSound' /\ qtTun'[t] = y /\ \A u \in QtTunnels : u # t => qtTun'[u] = qtTun[u]
    BY <1>0, QtOneTunnel
<1>2. \A u \in QtTunnels : qtTun'[u].at = qtTun[u].at
    BY <1>1
<1>3. QtQueued'
    BY <1>0, <1>2, QtQueuedSame
<1>4. ASSUME UNCHANGED qtLoop
      PROVE  QtRest' /\ QtStartedOnce'
    BY <1>0, <1>4 DEF QtRest, QtStartedOnce
<1> QED
    BY <1>1, <1>3, <1>4

(* The session owes its signal before and after. *)
LEMMA QtStillOwes ==
    ASSUME QtInv, NEW t \in QtTunnels, UNCHANGED <<qtRun, qtPhase, qtLoop>>,
           \A u \in QtTunnels : u # t => qtTun'[u] = qtTun[u],
           QtOwes(qtTun[t]), QtOwes(qtTun'[t]), qtTun'[t].loop = qtTun[t].loop,
           qtTun'[t].run \in {qtTun[t].run, qtRun}
    PROVE  QtPaired'
<1>0. QtRest /\ QtTunnelsSound /\ QtPaired /\ QtStartedOnce
    BY DEF QtInv
<1>1. qtTun[t].loop \in QtRuns /\ qtLoop[qtTun[t].loop].pc = "next" /\ qtTun[t].loop <= qtTun[t].run
    BY <1>0 DEF QtTunnelsSound, QtTunnelState, QtPaired
<1>2. qtTun[t].loop <= qtRun
    BY <1>0, <1>1 DEF QtStartedOnce
<1>3. \A u \in QtTunnels : QtOwes(qtTun[u]) => qtTun'[u].loop <= qtTun'[u].run
    BY <1>0, <1>1, <1>2 DEF QtPaired
<1>4. \A u \in QtTunnels : /\ QtOwes(qtTun'[u]) <=> QtOwes(qtTun[u])
                           /\ QtOwes(qtTun[u]) => qtTun'[u].loop = qtTun[u].loop
    OBVIOUS
<1>5. \A l \in QtRuns : QtDone(l) => QtDone(l)'
    BY DEF QtDone
<1> QED
    BY <1>0, <1>3, <1>4, <1>5, QtPairedSame

(* The session owes no signal, before or after. *)
LEMMA QtOwesNothing ==
    ASSUME QtInv, NEW t \in QtTunnels, UNCHANGED <<qtRun, qtPhase, qtLoop>>,
           \A u \in QtTunnels : u # t => qtTun'[u] = qtTun[u],
           ~QtOwes(qtTun[t]), ~QtOwes(qtTun'[t])
    PROVE  QtPaired'
<1>0. QtPaired
    BY DEF QtInv
<1>1. \A u \in QtTunnels : QtOwes(qtTun[u]) => qtTun'[u].loop <= qtTun'[u].run
    BY <1>0 DEF QtPaired
<1>2. \A u \in QtTunnels : /\ QtOwes(qtTun'[u]) <=> QtOwes(qtTun[u])
                           /\ QtOwes(qtTun[u]) => qtTun'[u].loop = qtTun[u].loop
    OBVIOUS
<1>3. \A l \in QtRuns : QtDone(l) => QtDone(l)'
    BY DEF QtDone
<1> QED
    BY <1>0, <1>1, <1>2, <1>3, QtPairedSame

(* The session of t stops owing: handleTunConn is told, or its context was *)
(* cancelled.                                                              *)
LEMMA QtOwesNoMore ==
    ASSUME QtInv, NEW t \in QtTunnels, UNCHANGED <<qtRun, qtPhase>>,
           \A u \in QtTunnels : u # t => qtTun'[u] = qtTun[u],
           QtOwes(qtTun[t]), ~QtOwes(qtTun'[t]),
           \A k \in QtRuns : k # qtTun[t].loop => qtLoop'[k] = qtLoop[k],
           qtLoop'[qtTun[t].loop].pc = "next" => QtDone(qtTun[t].loop)
    PROVE  QtPaired'
<1>0. QtPaired /\ QtTunnelsSound
    BY DEF QtInv
<1>1. \A u \in QtTunnels : qtTun[u].loop \in QtRuns
    BY <1>0 DEF QtTunnelsSound, QtTunnelState
<1>2. \A u \in QtTunnels : QtOwes(qtTun'[u]) =>
        u # t /\ qtTun'[u] = qtTun[u] /\ qtTun[u].loop # qtTun[t].loop
    BY <1>0 DEF QtPaired
<1>3. \A u \in QtTunnels : QtOwes(qtTun'[u]) =>
        qtLoop'[qtTun'[u].loop].pc = "next" /\ qtTun'[u].loop <= qtTun'[u].run
    BY <1>0, <1>1, <1>2 DEF QtPaired
<1>4. \A u, v \in QtTunnels : QtOwes(qtTun'[u]) /\ QtOwes(qtTun'[v])
        /\ qtTun'[u].loop = qtTun'[v].loop => u = v
    BY <1>0, <1>2 DEF QtPaired
<1>5. \A k \in QtRuns : QtDone(k)' <=> QtDone(k)
    BY DEF QtDone
<1>6. ASSUME NEW k \in QtRuns, qtLoop'[k].pc = "next"
      PROVE  QtDone(k)' \/ \E u \in QtTunnels : QtOwes(qtTun'[u]) /\ qtTun'[u].loop = k
    <2>1. CASE k = qtTun[t].loop
        BY <1>5, <1>6, <2>1
    <2>2. CASE k # qtTun[t].loop
        <3>1. QtDone(k) \/ \E u \in QtTunnels : QtOwes(qtTun[u]) /\ qtTun[u].loop = k
            BY <1>0, <1>6, <2>2 DEF QtPaired
        <3> QED
            BY <1>5, <2>2, <3>1
    <2> QED
        BY <2>1, <2>2
<1> QED
    BY <1>3, <1>4, <1>6 DEF QtPaired

(* A user moves into or out of the hands of the session of t. *)
LEMMA QtHeldMoves ==
    ASSUME NEW t \in QtTunnels, \A u \in QtTunnels : u # t => qtTun'[u] = qtTun[u]
    PROVE  /\ qtTun[t].pc \notin {"open", "back"} /\ qtTun'[t].pc \in {"open", "back"}
                => Cardinality(QtHeld') = Cardinality(QtHeld) + 1
           /\ qtTun[t].pc \in {"open", "back"} /\ qtTun'[t].pc \notin {"open", "back"}
                => Cardinality(QtHeld') = Cardinality(QtHeld) - 1
           /\ (qtTun'[t].pc \in {"open", "back"} <=> qtTun[t].pc \in {"open", "back"})
                => QtHeld' = QtHeld
<1>1. ASSUME qtTun[t].pc \notin {"open", "back"}, qtTun'[t].pc \in {"open", "back"}
      PROVE  Cardinality(QtHeld') = Cardinality(QtHeld) + 1
    <2>1. QtHeld' = QtHeld \cup {t} /\ t \notin QtHeld
        BY <1>1 DEF QtHeld
    <2> QED
        BY <2>1, FS_AddElement, QtHeldFinite
<1>2. ASSUME qtTun[t].pc \in {"open", "back"}, qtTun'[t].pc \notin {"open", "back"}
      PROVE  Cardinality(QtHeld') = Cardinality(QtHeld) - 1
    <2>1. QtHeld' = QtHeld \ {t} /\ t \in QtHeld
        BY <1>2 DEF QtHeld
    <2> QED
        BY <2>1, FS_RemoveElement, QtHeldFinite
<1>3. ASSUME qtTun'[t].pc \in {"open", "back"} <=> qtTun[t].pc \in {"open", "back"}
      PROVE  QtHeld' = QtHeld
    BY <1>3 DEF QtHeld
<1> QED
    BY <1>1, <1>2, <1>3

(* The steps of handleSession and of the relays it started. *)
QtSessionStep(t) ==
    \/ QtSessionCancelled(t) \/ QtTakeLocal(t) \/ QtOpenStream(t) \/ QtStreamFails(t)
    \/ QtPutBack(t) \/ QtSignal(t) \/ QtRequest(t) \/ QtRelayEnds(t) \/ QtDrained(t)

(* Every step of handleSession keeps the invariant. *)
LEMMA QtSessionInv ==
    ASSUME QtInv, NEW t \in QtTunnels, QtSessionStep(t)
    PROVE  QtInv'
<1>0. QtRest /\ QtTunnelsSound /\ QtQueued /\ QtPaired /\ QtStartedOnce /\ QtCounted
    BY DEF QtInv
<1>n. /\ QtMuxCon \in Nat \ {0} /\ QtChannelSize \in Nat \ {0} /\ 1 \in QtRuns
      /\ QtRuns \subseteq Nat /\ 0 \in 0..QtMuxCon
    BY QuicTunnelsAssumption DEF QtRuns
<1>x. PICK x : x = qtTun[t]
    OBVIOUS
<1>1. /\ x \in QtTunnelState /\ QtSound(x) /\ qtTun \in [QtTunnels -> QtTunnelState]
      /\ x.run \in QtRuns /\ x.loop \in QtRuns /\ x.count \in 0..QtMuxCon
      /\ x.relays \in 0..QtMuxCon /\ qtRun \in QtRuns
    BY <1>0, <1>x DEF QtTunnelsSound, QtTunnelState, QtRest
<1>2. /\ UNCHANGED <<qtRun, qtPhase, qtControl, qtCold, qtLinks, qtQueue, qtPool, qtAccepted>>
    BY DEF QtSessionStep, QtSessionCancelled, QtTakeLocal, QtOpenStream, QtStreamFails, QtPutBack,
           QtSignal, QtRequest, QtRelayEnds, QtDrained, qtServer
<1>3. /\ qtLocal \in [QtRuns -> 0..QtChannelSize] /\ qtRequests \in 0..QtChannelSize
      /\ qtEnded \in Nat /\ qtLocal \in [QtRuns -> Nat] /\ qtLoop \in [QtRuns -> QtLoopState]
    BY <1>0, <1>n DEF QtRest
<1>c. /\ Cardinality(QtUnits(QtRuns, qtLocal)) \in Nat /\ Cardinality(QtHeld) \in Nat
      /\ Cardinality(QtUnits(QtTunnels, QtRelays)) \in Nat
      /\ IsFiniteSet(QtUnits(QtRuns, qtLocal)) /\ IsFiniteSet(QtUnits(QtTunnels, QtRelays))
    BY <1>0, FS_CardinalityType, QtHeldFinite DEF QtCounted
<1>r. QtReturned(x) = [x EXCEPT !.pc = "ended", !.run = 1, !.loop = 1, !.count = 0]
      /\ QtReturned(x) \in QtTunnelState /\ QtReturned(x).pc = "ended"
      /\ QtReturned(x).at = x.at /\ QtReturned(x).relays = x.relays
      /\ QtReturned(x).client = x.client
    BY <1>1, <1>n DEF QtReturned, QtTunnelState
<1>4. CASE QtSessionCancelled(t)
    <2> DEFINE y == QtReturned(x)
    <2>1. /\ x.pc = "select" /\ QtDone(x.run) /\ UNCHANGED <<qtLocal, qtLoop, qtRequests, qtEnded>>
          /\ qtTun' = [qtTun EXCEPT ![t] = y]
        BY <1>4, <1>x DEF QtSessionCancelled
    <2>2. QtSound(y)
        BY <1>1, <1>r, <2>1 DEF QtSound
    <2>3. /\ QtTunnelsSound' /\ QtQueued' /\ QtRest' /\ QtStartedOnce'
          /\ qtTun'[t] = y /\ \A u \in QtTunnels : u # t => qtTun'[u] = qtTun[u]
        BY <1>2, <1>3, <1>r, <1>x, <2>1, <2>2, QtSessionUpdate
    <2>4. QtDone(x.loop)
        <3>1. x.loop <= x.run
            BY <1>0, <1>x, <2>1 DEF QtPaired, QtOwes
        <3>2. x.loop \in Nat /\ x.run \in Nat /\ qtRun \in Nat
            BY <1>1, <1>n
        <3>3. x.run < qtRun \/ qtPhase \in {"cancelled", "closed"}
            BY <2>1 DEF QtDone
        <3>4. x.loop < qtRun \/ qtPhase \in {"cancelled", "closed"}
            BY <3>1, <3>2, <3>3
        <3> QED
            BY <3>4 DEF QtDone
    <2>5. QtOwes(qtTun[t]) /\ ~QtOwes(qtTun'[t])
        BY <1>r, <1>x, <2>1, <2>3 DEF QtOwes
    <2>6. QtPaired'
        BY <1>2, <1>x, <2>1, <2>3, <2>4, <2>5, QtOwesNoMore
    <2>7. QtCounted'
        BY <1>0, <1>2, <1>r, <1>x, <2>1, <2>3, QtCountedSame, ZenonT(60)
    <2> QED
        BY <2>3, <2>6, <2>7 DEF QtInv
<1>5. CASE QtTakeLocal(t)
    <2> DEFINE y == [x EXCEPT !.pc = "open"]
    <2>1. /\ x.pc = "select" /\ qtLocal[x.run] > 0 /\ UNCHANGED <<qtLoop, qtRequests, qtEnded>>
          /\ qtTun' = [qtTun EXCEPT ![t] = y]
          /\ qtLocal' = [qtLocal EXCEPT ![x.run] = qtLocal[x.run] - 1]
        BY <1>1, <1>5, <1>x DEF QtTakeLocal
    <2>2. /\ y \in QtTunnelState /\ QtSound(y) /\ y.pc = "open" /\ y.at = x.at
          /\ y.loop = x.loop /\ y.run = x.run /\ y.relays = x.relays
        BY <1>1, <2>1 DEF QtTunnelState, QtSound
    <2>3. qtLocal' \in [QtRuns -> 0..QtChannelSize] /\ qtLocal' \in [QtRuns -> Nat]
        BY <1>1, <1>3, <1>n, <2>1
    <2>4. /\ QtTunnelsSound' /\ QtQueued' /\ QtRest' /\ QtStartedOnce'
          /\ qtTun'[t] = y /\ \A u \in QtTunnels : u # t => qtTun'[u] = qtTun[u]
        BY <1>2, <1>3, <1>x, <2>1, <2>2, <2>3, QtSessionUpdate, ZenonT(60)
    <2>5. /\ QtOwes(qtTun[t]) /\ QtOwes(qtTun'[t]) /\ qtTun'[t].loop = qtTun[t].loop
          /\ qtTun'[t].run = qtTun[t].run
        BY <1>x, <2>1, <2>2, <2>4 DEF QtOwes
    <2>6. QtPaired'
        BY <1>2, <2>1, <2>4, <2>5, QtStillOwes
    <2>7. QtAdds(QtRuns, qtLocal', qtLocal, x.run)
        BY <1>1, <1>3, <2>1, <2>3 DEF QtAdds
    <2>8. /\ IsFiniteSet(QtUnits(QtRuns, qtLocal'))
          /\ Cardinality(QtUnits(QtRuns, qtLocal')) = Cardinality(QtUnits(QtRuns, qtLocal)) - 1
        BY <1>c, <2>7, QtCountDown
    <2>9. Cardinality(QtHeld') = Cardinality(QtHeld) + 1
        BY <1>x, <2>1, <2>2, <2>4, QtHeldMoves
    <2>10. QtRelays' = QtRelays
        BY <1>x, <2>2, <2>4 DEF QtRelays
    <2>11. QtCounted'
        BY <1>0, <1>2, <1>3, <1>c, <2>1, <2>8, <2>9, <2>10 DEF QtCounted
    <2> QED
        BY <2>4, <2>6, <2>11 DEF QtInv
<1>6. CASE QtOpenStream(t)
    <2>p. PICK p \in {"signal", "select"}, r \in {x.run, qtRun} :
            /\ qtTun' = [qtTun EXCEPT ![t] = [x EXCEPT !.count = x.count + 1,
                              !.relays = x.relays + 1, !.pc = p, !.run = r]]
            /\ p = "select" => x.count + 1 # QtMuxCon
        BY <1>1, <1>6, <1>x DEF QtOpenStream
    <2> DEFINE y == [x EXCEPT !.count = x.count + 1, !.relays = x.relays + 1, !.pc = p, !.run = r]
    <2>1. x.pc = "open" /\ UNCHANGED <<qtLocal, qtLoop, qtRequests, qtEnded>>
        BY <1>6, <1>x DEF QtOpenStream
    <2>2. /\ x.count + 1 \in 0..QtMuxCon /\ x.relays + 1 \in 0..QtMuxCon /\ r \in QtRuns
          /\ x.relays <= x.count /\ x.count < QtMuxCon
        BY <1>1, <1>n, <2>1 DEF QtSound
    <2>3. /\ y \in QtTunnelState /\ y.pc = p /\ y.at = x.at /\ y.count = x.count + 1
          /\ y.loop = x.loop /\ y.run = r /\ y.relays = x.relays + 1 /\ y.client = x.client
        BY <1>1, <2>2 DEF QtTunnelState
    <2>4. QtSound(y)
        BY <1>1, <1>n, <2>1, <2>2, <2>3, <2>p DEF QtSound
    <2>5. /\ QtTunnelsSound' /\ QtQueued' /\ QtRest' /\ QtStartedOnce'
          /\ qtTun'[t] = y /\ \A u \in QtTunnels : u # t => qtTun'[u] = qtTun[u]
        BY <1>2, <1>3, <1>x, <2>1, <2>3, <2>4, <2>p, QtSessionUpdate, ZenonT(60)
    <2>6. /\ QtOwes(qtTun[t]) /\ QtOwes(qtTun'[t]) /\ qtTun'[t].loop = qtTun[t].loop
          /\ qtTun'[t].run \in {qtTun[t].run, qtRun}
        BY <1>x, <2>1, <2>3, <2>5 DEF QtOwes
    <2>7. QtPaired'
        BY <1>2, <2>1, <2>5, <2>6, QtStillOwes
    <2>8. QtAdds(QtTunnels, QtRelays, QtRelays', t)
        <3>1. QtRelays' = [u \in QtTunnels |-> qtTun'[u].relays]
            BY DEF QtRelays
        <3>2. \A u \in QtTunnels : qtTun[u].relays \in Nat /\ qtTun'[u].relays \in Nat
            <4>1. QtTunnelsSound'
                BY <2>5
            <4> HIDE DEF y
            <4>2. \A u \in QtTunnels : /\ qtTun[u].relays \in 0..QtMuxCon
                                       /\ qtTun'[u].relays \in 0..QtMuxCon
                BY <1>1, <4>1 DEF QtTunnelState, QtTunnelsSound
            <4> QED
                BY <1>n, <4>2
        <3>3. qtTun'[t].relays = qtTun[t].relays + 1
            BY <1>x, <2>3, <2>5
        <3> QED
            BY <2>5, <3>1, <3>2, <3>3 DEF QtAdds, QtRelays
    <2>9. /\ IsFiniteSet(QtUnits(QtTunnels, QtRelays'))
          /\ Cardinality(QtUnits(QtTunnels, QtRelays')) = Cardinality(QtUnits(QtTunnels, QtRelays)) + 1
        BY <1>c, <2>8, QtCountUp
    <2>10. Cardinality(QtHeld') = Cardinality(QtHeld) - 1
        BY <1>x, <2>1, <2>3, <2>5, QtHeldMoves
    <2>11. QtCounted'
        BY <1>0, <1>2, <1>3, <1>c, <2>1, <2>9, <2>10 DEF QtCounted
    <2> QED
        BY <2>5, <2>7, <2>11 DEF QtInv
<1>7. CASE QtStreamFails(t)
    <2> DEFINE y == [x EXCEPT !.dead = TRUE, !.pc = "back", !.run = qtRun]
    <2>1. /\ x.pc = "open" /\ UNCHANGED <<qtLocal, qtLoop, qtRequests, qtEnded>>
          /\ qtTun' = [qtTun EXCEPT ![t] = y]
        BY <1>1, <1>7, <1>x DEF QtStreamFails
    <2>2. /\ y \in QtTunnelState /\ QtSound(y) /\ y.pc = "back" /\ y.at = x.at
          /\ y.loop = x.loop /\ y.run = qtRun /\ y.relays = x.relays
        BY <1>1, <2>1 DEF QtTunnelState, QtSound
    <2>3. /\ QtTunnelsSound' /\ QtQueued' /\ QtRest' /\ QtStartedOnce'
          /\ qtTun'[t] = y /\ \A u \in QtTunnels : u # t => qtTun'[u] = qtTun[u]
        BY <1>2, <1>3, <1>x, <2>1, <2>2, QtSessionUpdate
    <2>4. /\ QtOwes(qtTun[t]) /\ QtOwes(qtTun'[t]) /\ qtTun'[t].loop = qtTun[t].loop
          /\ qtTun'[t].run = qtRun
        BY <1>x, <2>1, <2>2, <2>3 DEF QtOwes
    <2>5. QtPaired'
        BY <1>2, <2>1, <2>3, <2>4, QtStillOwes
    <2>6. QtCounted'
        BY <1>0, <1>2, <1>x, <2>1, <2>2, <2>3, QtCountedSame
    <2> QED
        BY <2>3, <2>5, <2>6 DEF QtInv
<1>8. CASE QtPutBack(t)
    <2> DEFINE y == [x EXCEPT !.pc = "fail"]
    <2>1. /\ x.pc = "back" /\ qtLocal[x.run] < QtChannelSize
          /\ UNCHANGED <<qtLoop, qtRequests, qtEnded>>
          /\ qtTun' = [qtTun EXCEPT ![t] = y]
          /\ qtLocal' = [qtLocal EXCEPT ![x.run] = qtLocal[x.run] + 1]
        BY <1>1, <1>8, <1>x DEF QtPutBack
    <2>2. /\ y \in QtTunnelState /\ QtSound(y) /\ y.pc = "fail" /\ y.at = x.at
          /\ y.loop = x.loop /\ y.run = x.run /\ y.relays = x.relays
        BY <1>1, <2>1 DEF QtTunnelState, QtSound
    <2>3. qtLocal' \in [QtRuns -> 0..QtChannelSize] /\ qtLocal' \in [QtRuns -> Nat]
        BY <1>1, <1>3, <1>n, <2>1
    <2>4. /\ QtTunnelsSound' /\ QtQueued' /\ QtRest' /\ QtStartedOnce'
          /\ qtTun'[t] = y /\ \A u \in QtTunnels : u # t => qtTun'[u] = qtTun[u]
        BY <1>2, <1>3, <1>x, <2>1, <2>2, <2>3, QtSessionUpdate, ZenonT(60)
    <2>5. /\ QtOwes(qtTun[t]) /\ QtOwes(qtTun'[t]) /\ qtTun'[t].loop = qtTun[t].loop
          /\ qtTun'[t].run = qtTun[t].run
        BY <1>x, <2>1, <2>2, <2>4 DEF QtOwes
    <2>6. QtPaired'
        BY <1>2, <2>1, <2>4, <2>5, QtStillOwes
    <2>7. QtAdds(QtRuns, qtLocal, qtLocal', x.run)
        BY <1>1, <1>3, <2>1, <2>3 DEF QtAdds
    <2>8. /\ IsFiniteSet(QtUnits(QtRuns, qtLocal'))
          /\ Cardinality(QtUnits(QtRuns, qtLocal')) = Cardinality(QtUnits(QtRuns, qtLocal)) + 1
        BY <1>c, <2>7, QtCountUp
    <2>9. Cardinality(QtHeld') = Cardinality(QtHeld) - 1
        BY <1>x, <2>1, <2>2, <2>4, QtHeldMoves
    <2>10. QtRelays' = QtRelays
        BY <1>x, <2>2, <2>4 DEF QtRelays
    <2>11. QtCounted'
        BY <1>0, <1>2, <1>3, <1>c, <2>1, <2>8, <2>9, <2>10 DEF QtCounted
    <2> QED
        BY <2>4, <2>6, <2>11 DEF QtInv
<1>9. CASE QtSignal(t)
    <2>p. PICK y \in {QtReturned(x), [x EXCEPT !.pc = "request"]} :
            qtTun' = [qtTun EXCEPT ![t] = y]
        BY <1>1, <1>9, <1>x DEF QtSignal
    <2>1. /\ x.pc \in {"fail", "signal"} /\ UNCHANGED <<qtLocal, qtRequests, qtEnded>>
          /\ qtLoop[x.loop].pc = "next"
          /\ qtLoop' = [qtLoop EXCEPT ![x.loop] = [pc |-> "select", run |-> qtRun]]
        BY <1>9, <1>x DEF QtSignal
    <2>2. /\ y \in QtTunnelState /\ y.pc \in {"ended", "request"} /\ y.at = x.at
          /\ y.relays = x.relays /\ y.client = x.client
          /\ (y.pc = "request" => y.count = x.count)
        BY <1>1, <1>r, ZenonT(60) DEF QtTunnelState
    <2>3. QtSound(y)
        BY <1>1, <2>1, <2>2 DEF QtSound
    <2>4. /\ QtTunnelsSound' /\ QtQueued'
          /\ qtTun'[t] = y /\ \A u \in QtTunnels : u # t => qtTun'[u] = qtTun[u]
        BY <1>2, <1>3, <1>x, <2>1, <2>2, <2>3, <2>p, QtSessionUpdate
    <2>5. /\ qtLoop' \in [QtRuns -> QtLoopState] /\ qtLoop'[x.loop].pc = "select"
          /\ \A k \in QtRuns : k # x.loop => qtLoop'[k] = qtLoop[k]
        BY <1>1, <1>3, <2>1 DEF QtLoopState
    <2>6. QtRest'
        BY <1>0, <1>2, <2>1, <2>5 DEF QtRest
    <2>7. QtStartedOnce'
        <3>1. \A k \in QtRuns : qtLoop'[k].pc = "none" <=> qtLoop[k].pc = "none"
            BY <2>1, <2>5
        <3> QED
            BY <1>0, <1>1, <1>2, <3>1 DEF QtStartedOnce
    <2>8. QtOwes(qtTun[t]) /\ ~QtOwes(qtTun'[t])
        BY <1>x, <2>1, <2>2, <2>4 DEF QtOwes
    <2>9. QtPaired'
        BY <1>2, <1>x, <2>4, <2>5, <2>8, QtOwesNoMore
    <2>10. QtCounted'
        BY <1>0, <1>2, <1>x, <2>1, <2>2, <2>4, QtCountedSame
    <2> QED
        BY <2>4, <2>6, <2>7, <2>9, <2>10 DEF QtInv
<1>10. CASE QtRequest(t)
    <2> DEFINE y == [x EXCEPT !.pc = "drain"]
    <2>1. /\ x.pc = "request" /\ UNCHANGED <<qtLocal, qtLoop, qtEnded>>
          /\ qtTun' = [qtTun EXCEPT ![t] = y]
        BY <1>1, <1>10, <1>x DEF QtRequest
    <2>2. qtRequests' \in 0..QtChannelSize
        BY <1>10, <1>3, <1>n DEF QtRequest
    <2>3. /\ y \in QtTunnelState /\ QtSound(y) /\ y.pc = "drain" /\ y.at = x.at
          /\ y.relays = x.relays
        BY <1>1, <2>1 DEF QtTunnelState, QtSound
    <2>4. /\ QtTunnelsSound' /\ QtQueued' /\ QtRest' /\ QtStartedOnce'
          /\ qtTun'[t] = y /\ \A u \in QtTunnels : u # t => qtTun'[u] = qtTun[u]
        BY <1>2, <1>3, <1>x, <2>1, <2>2, <2>3, QtSessionUpdate
    <2>5. ~QtOwes(qtTun[t]) /\ ~QtOwes(qtTun'[t])
        BY <1>x, <2>1, <2>3, <2>4 DEF QtOwes
    <2>6. QtPaired'
        BY <1>2, <2>1, <2>4, <2>5, QtOwesNothing
    <2>7. QtCounted'
        BY <1>0, <1>2, <1>x, <2>1, <2>3, <2>4, QtCountedSame
    <2> QED
        BY <2>4, <2>6, <2>7 DEF QtInv
<1>11. CASE QtRelayEnds(t)
    <2> DEFINE y == [x EXCEPT !.relays = x.relays - 1]
    <2>1. /\ x.relays > 0 /\ UNCHANGED <<qtLocal, qtLoop, qtRequests>> /\ qtEnded' = qtEnded + 1
          /\ qtTun' = [qtTun EXCEPT ![t] = y]
        BY <1>1, <1>11, <1>x DEF QtRelayEnds
    <2>2. x.relays - 1 \in 0..QtMuxCon /\ qtEnded' \in Nat
        BY <1>1, <1>3, <1>n, <2>1
    <2>3. /\ y \in QtTunnelState /\ y.pc = x.pc /\ y.at = x.at /\ y.relays = x.relays - 1
          /\ y.loop = x.loop /\ y.run = x.run /\ y.count = x.count /\ y.client = x.client
        BY <1>1, <2>2 DEF QtTunnelState
    <2>4. QtSound(y)
        BY <1>1, <1>n, <2>1, <2>3 DEF QtSound
    <2>5. /\ QtTunnelsSound' /\ QtQueued' /\ QtRest' /\ QtStartedOnce'
          /\ qtTun'[t] = y /\ \A u \in QtTunnels : u # t => qtTun'[u] = qtTun[u]
        BY <1>2, <1>3, <1>x, <2>1, <2>2, <2>3, <2>4, QtSessionUpdate
    <2>6. QtPaired'
        <3>1. /\ QtOwes(qtTun'[t]) <=> QtOwes(qtTun[t])
              /\ qtTun'[t].loop = qtTun[t].loop /\ qtTun'[t].run = qtTun[t].run
            BY <1>x, <2>3, <2>5 DEF QtOwes
        <3>2. CASE QtOwes(qtTun[t])
            BY <1>2, <2>1, <2>5, <3>1, <3>2, QtStillOwes
        <3>3. CASE ~QtOwes(qtTun[t])
            BY <1>2, <2>1, <2>5, <3>1, <3>3, QtOwesNothing
        <3> QED
            BY <3>2, <3>3
    <2>7. QtAdds(QtTunnels, QtRelays', QtRelays, t)
        <3>1. QtRelays' = [u \in QtTunnels |-> qtTun'[u].relays]
            BY DEF QtRelays
        <3>2. \A u \in QtTunnels : qtTun[u].relays \in Nat /\ qtTun'[u].relays \in Nat
            BY <1>1, <1>n, <2>2, <2>3, <2>5 DEF QtTunnelState
        <3>3. qtTun[t].relays = qtTun'[t].relays + 1
            BY <1>1, <1>n, <1>x, <2>3, <2>5
        <3> QED
            BY <2>5, <3>1, <3>2, <3>3 DEF QtAdds, QtRelays
    <2>8. /\ IsFiniteSet(QtUnits(QtTunnels, QtRelays'))
          /\ Cardinality(QtUnits(QtTunnels, QtRelays')) = Cardinality(QtUnits(QtTunnels, QtRelays)) - 1
        BY <1>c, <2>7, QtCountDown
    <2>9. QtHeld' = QtHeld
        BY <1>x, <2>3, <2>5 DEF QtHeld
    <2>10. QtCounted'
        BY <1>0, <1>2, <1>3, <1>c, <2>1, <2>8, <2>9 DEF QtCounted
    <2> QED
        BY <2>5, <2>6, <2>10 DEF QtInv
<1>12. CASE QtDrained(t)
    <2> DEFINE y == [QtReturned(x) EXCEPT !.dead = TRUE]
    <2>1. /\ x.pc = "drain" /\ UNCHANGED <<qtLocal, qtLoop, qtRequests, qtEnded>>
          /\ qtTun' = [qtTun EXCEPT ![t] = y]
        BY <1>12, <1>x DEF QtDrained
    <2>2. /\ y \in QtTunnelState /\ y.pc = "ended" /\ y.at = x.at /\ y.relays = x.relays
          /\ y.client = x.client
        BY <1>r DEF QtTunnelState
    <2>3. QtSound(y)
        BY <1>1, <2>1, <2>2 DEF QtSound
    <2>4. /\ QtTunnelsSound' /\ QtQueued' /\ QtRest' /\ QtStartedOnce'
          /\ qtTun'[t] = y /\ \A u \in QtTunnels : u # t => qtTun'[u] = qtTun[u]
        BY <1>2, <1>3, <1>x, <2>1, <2>2, <2>3, QtSessionUpdate, ZenonT(60)
    <2>5. ~QtOwes(qtTun[t]) /\ ~QtOwes(qtTun'[t])
        BY <1>x, <2>1, <2>2, <2>4 DEF QtOwes
    <2>6. QtPaired'
        BY <1>2, <2>1, <2>4, <2>5, QtOwesNothing
    <2>7. QtCounted'
        BY <1>0, <1>2, <1>x, <2>1, <2>2, <2>4, QtCountedSame
    <2> QED
        BY <2>4, <2>6, <2>7 DEF QtInv
<1> QED
    BY <1>4, <1>5, <1>6, <1>7, <1>8, <1>9, <1>10, <1>11, <1>12 DEF QtSessionStep

-----------------------------------------------------------------------------
(* The invariant of the quic tunnels *)

(* NewQuicServer: no tunnel, empty channels, nobody to count. *)
LEMMA QtInitInv == QtInit => QtInv
<1> SUFFICES ASSUME QtInit
             PROVE  QtInv
    OBVIOUS
<1>n. /\ 1 \in QtRuns /\ 0 \in 0..QtChannelSize /\ 0 \in 0..QtMuxCon /\ 0 \in 0..QtMaxLocals
      /\ QtRuns \subseteq Nat /\ 0 \in Nat
    BY QuicTunnelsAssumption DEF QtRuns
<1>1. /\ \A t \in QtTunnels : qtTun[t] = QtNewTunnel
      /\ \A r \in QtRuns : qtQueue[r] = <<>> /\ qtLocal[r] = 0 /\ qtLoop[r].pc = "none"
    BY DEF QtInit
<1>p. QtNewTunnel.pc = "none" /\ QtNewTunnel.relays = 0
    BY DEF QtNewTunnel
<1>2. QtRest
    <2>1. qtQueue \in [QtRuns -> Seq(QtTunnels)] /\ \A r \in QtRuns : Len(qtQueue[r]) = 0
        BY DEF QtInit
    <2>2. qtLocal \in [QtRuns -> 0..QtChannelSize] /\ qtLoop \in [QtRuns -> QtLoopState]
        BY <1>n DEF QtInit, QtLoopState
    <2>3. \A r \in QtRuns : Len(qtQueue[r]) <= QtChannelSize
        BY <2>1, QuicTunnelsAssumption
    <2>4. QtLinksSound(qtLinks)
        BY QuicTunnelsAssumption DEF QtInit, QtNoLinks, QtLinksSound
    <2> QED
        BY <1>n, <2>1, <2>2, <2>3, <2>4 DEF QtInit, QtRest
<1>3. QtTunnelsSound
    BY QtNewSound DEF QtInit, QtTunnelsSound
<1>4. QtQueued
    BY <1>1 DEF QtQueued
<1>5. QtPaired
    BY <1>1, <1>p DEF QtPaired, QtOwes
<1>6. QtStartedOnce
    BY <1>1, <1>n DEF QtInit, QtStartedOnce
<1>7. QtCounted
    <2>1. QtUnits(QtRuns, qtLocal) = {}
        BY <1>1 DEF QtUnits
    <2>2. QtUnits(QtTunnels, QtRelays) = {}
        BY <1>1, <1>p DEF QtUnits, QtRelays
    <2>3. QtHeld = {}
        BY <1>1, <1>p DEF QtHeld
    <2>4. IsFiniteSet({}) /\ Cardinality({}) = 0
        BY FS_EmptySet
    <2>5. qtAccepted = 0 /\ qtEnded = 0
        BY DEF QtInit
    <2>6. Cardinality(QtUnits(QtRuns, qtLocal)) = 0 /\ Cardinality(QtHeld) = 0
          /\ Cardinality(QtUnits(QtTunnels, QtRelays)) = 0
        BY <2>1, <2>2, <2>3, <2>4
    <2>7. IsFiniteSet(QtUnits(QtRuns, qtLocal)) /\ IsFiniteSet(QtUnits(QtTunnels, QtRelays))
        BY <2>1, <2>2, <2>4
    <2> QED
        BY <2>5, <2>6, <2>7 DEF QtCounted
<1> QED
    BY <1>2, <1>3, <1>4, <1>5, <1>6, <1>7 DEF QtInv

(* Every step of the quic tunnels keeps the invariant. *)
LEMMA QtStepInv == QtInv /\ [QtNext]_qtVars => QtInv'
<1> SUFFICES ASSUME QtInv, [QtNext]_qtVars
             PROVE  QtInv'
    OBVIOUS
<1>1. CASE QtServer
    BY <1>1, QtServerStep
<1>2. CASE QtSendRequest \/ QtPoolCheck \/ QtListenerEnds
    BY <1>2, QtClientStep
<1>3. CASE QtAcceptLocal
    BY <1>3, QtAcceptLocalInv
<1>4. CASE \E l \in QtRuns : QtLoopTakes(l) \/ QtLoopCancelled(l) \/ QtLoopTimer(l)
    BY <1>4, QtLoopInv
<1>5. ASSUME NEW t \in QtTunnels, QtTunnelStep(t)
      PROVE  QtInv'
    <2>1. CASE QtDialStarts(t) \/ QtDials(t) \/ QtBreaks(t) \/ QtClientEnds(t)
        BY <2>1, QtClientStep
    <2>2. CASE QtAccept(t)
        BY <2>2, QtAcceptInv
    <2>3. CASE QtSessionStep(t)
        BY <2>3, QtSessionInv
    <2> QED
        BY <1>5, <2>1, <2>2, <2>3 DEF QtTunnelStep, QtSessionStep
<1>6. CASE UNCHANGED qtVars
    <2>1. /\ qtRun' = qtRun /\ qtPhase' = qtPhase /\ qtControl' = qtControl /\ qtCold' = qtCold
          /\ qtLinks' = qtLinks /\ qtTun' = qtTun /\ qtQueue' = qtQueue /\ qtLocal' = qtLocal
          /\ qtLoop' = qtLoop /\ qtRequests' = qtRequests /\ qtPool' = qtPool
          /\ qtAccepted' = qtAccepted /\ qtEnded' = qtEnded
        BY <1>6 DEF qtVars, qtServer
    <2> QED
        BY <2>1 DEF QtInv, QtRest, QtTunnelsSound, QtQueued, QtPaired, QtDone, QtStartedOnce,
                    QtCounted, QtUnits, QtRelays, QtHeld
<1> QED
    BY <1>1, <1>2, <1>3, <1>4, <1>5, <1>6 DEF QtNext, QtServer

(* The quic server and its client keep QtInv, for every number of tunnels, *)
(* users and runs, every MuxCon and every size of the channels.            *)
THEOREM QtInvAlways == QtSpec => []QtInv
<1> QED
    BY QtInitInv, QtStepInv, PTL DEF QtSpec

(* What QtSumOver counts is what QtCounted counts. *)
LEMMA QtKept == QtInv => QtUsersKept
<1> SUFFICES ASSUME QtInv
             PROVE  QtUsersKept
    OBVIOUS
<1> DEFINE Queued(r) == qtLocal[r]
           Relayed(t) == qtTun[t].relays
<1>1. QtSumOver(QtRuns, Queued) = Cardinality(QtUnits(QtRuns, qtLocal))
    BY DEF QtSumOver, QtUnits
<1>2. QtSumOver(QtTunnels, Relayed) = Cardinality(QtUnits(QtTunnels, QtRelays))
    <2>1. \A t \in QtTunnels : QtRelays[t] = qtTun[t].relays
        BY DEF QtRelays
    <2>2. UNION {{<<x, i>> : i \in 1..Relayed(x)} : x \in QtTunnels} = QtUnits(QtTunnels, QtRelays)
        BY <2>1 DEF QtUnits
    <2> QED
        BY <2>2 DEF QtSumOver
<1>3. qtAccepted = QtSumOver(QtRuns, Queued) + Cardinality(QtHeld)
                   + QtSumOver(QtTunnels, Relayed) + qtEnded
    BY <1>1, <1>2 DEF QtInv, QtCounted
<1> QED
    BY <1>3 DEF QtUsersKept, QtHeld

(* localChan, the sessions and QConnectionHandler of quic.go: every user   *)
(* that was accepted is in one of them, or its relay has ended.            *)
THEOREM QtUsersKeptAlways == QtSpec => []QtUsersKept
<1> QED
    BY QtKept, QtInvAlways, PTL

(* The variables of the quic tunnels hold what the code's types allow, no  *)
(* channel holds more than its capacity and no tunnel carries more than    *)
(* MuxCon streams.                                                         *)
THEOREM QtTypeCorrect == QtSpec => []QtTypeOK
<1>1. QtInv => QtTypeOK
    <2> SUFFICES ASSUME QtInv
                 PROVE  QtTypeOK
        OBVIOUS
    <2>1. /\ Cardinality(QtUnits(QtRuns, qtLocal)) \in Nat /\ Cardinality(QtHeld) \in Nat
          /\ Cardinality(QtUnits(QtTunnels, QtRelays)) \in Nat /\ qtEnded \in Nat
          /\ qtAccepted \in 0..QtMaxLocals /\ QtMaxLocals \in Nat
        BY FS_CardinalityType, QtHeldFinite, QuicTunnelsAssumption DEF QtInv, QtCounted, QtRest
    <2>2. qtEnded \in 0..QtMaxLocals
        <3>1. qtAccepted = Cardinality(QtUnits(QtRuns, qtLocal)) + Cardinality(QtHeld)
                           + Cardinality(QtUnits(QtTunnels, QtRelays)) + qtEnded
            BY DEF QtInv, QtCounted
        <3> QED
            BY <2>1, <3>1
    <2>k. qtLinks \in [handshakes : 0..QtMaxLinks, starting : 0..QtMaxLinks,
                        keeping : 0..QtMaxLinks]
        BY QuicTunnelsAssumption DEF QtInv, QtRest, QtLinksSound
    <2>3. qtTun \in [QtTunnels -> QtTunnelState]
        BY DEF QtInv, QtTunnelsSound
    <2>4. QtRest
        BY DEF QtInv
    <2> QED
        BY <2>1, <2>2, <2>3, <2>4, <2>k DEF QtRest, QtTunnelState, QtLoopState, QtTypeOK
<1> QED
    BY <1>1, QtInvAlways, PTL

(* The unbuffered channel next of handleTunConn and handleSession: a       *)
(* signal is awaited exactly where one is owed, across every restart.      *)
THEOREM QtHandoverAlways == QtSpec => []QtHandover
<1>1. QtInv => QtHandover
    <2> SUFFICES ASSUME QtInv, NEW l \in QtRuns
                 PROVE  IF qtLoop[l].pc = "next"
                        THEN Cardinality(QtOwing(l)) = 1 \/ (QtOwing(l) = {} /\ QtDone(l))
                        ELSE QtOwing(l) = {}
        BY DEF QtHandover
    <2>1. \A t : t \in QtOwing(l) <=> t \in QtTunnels /\ QtOwes(qtTun[t]) /\ qtTun[t].loop = l
        BY DEF QtOwing, QtOwes
    <2>2. CASE qtLoop[l].pc # "next"
        <3>1. QtOwing(l) = {}
            BY <2>1, <2>2 DEF QtInv, QtPaired
        <3> QED
            BY <2>2, <3>1
    <2>3. CASE qtLoop[l].pc = "next" /\ QtOwing(l) = {}
        BY <2>1, <2>3 DEF QtInv, QtPaired
    <2>4. CASE qtLoop[l].pc = "next" /\ QtOwing(l) # {}
        <3>1. PICK t : t \in QtOwing(l)
            BY <2>4
        <3>2. QtOwing(l) = {t}
            BY <2>1, <3>1 DEF QtInv, QtPaired
        <3> QED
            BY <2>4, <3>2, FS_Singleton
    <2> QED
        BY <2>2, <2>3, <2>4
<1> QED
    BY <1>1, QtInvAlways, PTL
=============================================================================
