--------------------------- MODULE TcpClientProofs ---------------------------
(***************************************************************************)
(* What the runs of the tcp client leave to each other, for every pool     *)
(* size, controlFlow capacity and number of restarts.                      *)
(***************************************************************************)
EXTENDS TcpClient, TLAPS

(* A run starts with nothing of the previous one that acts on its account: *)
(* OrdersExact is not inductive without it, LinkUp would start from        *)
(* leftover tokens.                                                        *)
StartsClean ==
    phase = "dialing" => handler = 0 /\ maintainer = "none" /\ tokens = 0

IInv == TypeOK /\ StartsClean /\ OrdersExact /\ NeverOvercounts

(* A client starts with empty books. *)
LEMMA InitIInv == Init => IInv
BY TcpClientAssumption
   DEF Init, IInv, TypeOK, StartsClean, OrdersExact, NeverOvercounts, Signalling

(* The averages poolMaintainer compares are integers, also of a negative   *)
(* sum.                                                                    *)
LEMMA CeilAvgInt == \A n \in Int : CeilAvg(n) \in Int
BY TcpClientAssumption DEF CeilAvg, Quotient

(* The life cycle of a run keeps the invariant. *)
LEMMA RunKeepsIInv == IInv /\ RunStep => IInv'
<1> SUFFICES ASSUME IInv, RunStep PROVE IInv'
    OBVIOUS
<1> USE TcpClientAssumption
    DEF IInv, TypeOK, StartsClean, OrdersExact, NeverOvercounts, Signalling,
        counters, dialers, locals, bounds
<1>1. CASE LinkUp
    BY <1>1 DEF LinkUp
<1>2. CASE RestartBegin
    BY <1>2 DEF RestartBegin
<1>3. CASE HandlerEnds
    BY <1>3 DEF HandlerEnds
<1>4. CASE MaintainerEnds
    BY <1>4 DEF MaintainerEnds
<1>5. CASE RestartFinish
    BY <1>5 DEF RestartFinish
<1> QED
    BY <1>1, <1>2, <1>3, <1>4, <1>5 DEF RunStep

(* So do requests, poolMaintainer and the tunnelDialers of any run. *)
LEMMA PoolKeepsIInv == IInv /\ PoolStep => IInv'
<1> SUFFICES ASSUME IInv, PoolStep PROVE IInv'
    OBVIOUS
<1> USE TcpClientAssumption
    DEF IInv, TypeOK, StartsClean, OrdersExact, NeverOvercounts, Signalling,
        counters, dialers, locals, bounds
<1>1. CASE ReceiveRequest
    BY <1>1 DEF ReceiveRequest
<1>2. CASE SamplePool
    BY <1>2 DEF SamplePool
<1>3. CASE AdjustPool
    BY <1>3, CeilAvgInt DEF AdjustPool
<1>4. CASE SignalShrink
    BY <1>4 DEF SignalShrink
<1>5. CASE DialConnects
    BY <1>5 DEF DialConnects
<1>6. CASE DialFails
    BY <1>6 DEF DialFails
<1>7. CASE CountConn
    BY <1>7 DEF CountConn
<1>8. CASE ReceiveAddr
    BY <1>8 DEF ReceiveAddr
<1> QED
    BY <1>1, <1>2, <1>3, <1>4, <1>5, <1>6, <1>7, <1>8 DEF PoolStep

(* The inductive invariant holds throughout. *)
THEOREM ClientInvariant == Spec => []IInv
<1>1. IInv /\ UNCHANGED vars => IInv'
    BY DEF IInv, TypeOK, StartsClean, OrdersExact, NeverOvercounts, Signalling,
           vars, counters, dialers, locals, bounds
<1>2. IInv /\ [Next]_vars => IInv'
    BY <1>1, RunKeepsIInv, PoolKeepsIInv DEF Next
<1> QED
    BY InitIInv, <1>2, PTL DEF Spec

(* Each run orders exactly the tunnels it accounts for, whatever earlier   *)
(* runs left behind.                                                       *)
THEOREM OrdersHold == Spec => []OrdersExact
BY ClientInvariant, PTL DEF IInv

(* poolConnections never counts a tunnel that is not there. *)
THEOREM NeverOvercountsHolds == Spec => []NeverOvercounts
BY ClientInvariant, PTL DEF IInv
=============================================================================
