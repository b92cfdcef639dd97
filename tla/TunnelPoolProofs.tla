-------------------------- MODULE TunnelPoolProofs --------------------------
(***************************************************************************)
(* The bookkeeping of TunnelPool, for every channel capacity, pool size,   *)
(* number of handle loops and number of faults.                            *)
(***************************************************************************)
EXTENDS TunnelPool, TLAPS

(* poolMaintainer never shrinks the pool below the configured size. *)
PoolFloor == newPoolSize >= ConnPoolSize

(* TypeOK bounds what the two equations add up; PoolFloor follows from     *)
(* ShrinkCondition, and EveryLocalProvisioned from all of them.            *)
IInv == TypeOK /\ Conservation /\ PoolFloor /\ PoolCounterExact

(* Both sides start with balanced books. *)
LEMMA InitIInv == Init => IInv
BY ConstantsAssumption
   DEF Init, IInv, TypeOK, Conservation, PoolFloor, PoolCounterExact,
       Supply, Unserved

(* Each step of the server's goroutines keeps the books balanced. *)
LEMMA ServerKeepsIInv == IInv /\ ServerStep => IInv'
<1> SUFFICES ASSUME IInv, ServerStep PROVE IInv'
    OBVIOUS
<1> USE ConstantsAssumption
    DEF IInv, TypeOK, Conservation, PoolFloor, PoolCounterExact, Supply,
        Unserved, server, client, network, history
<1>1. CASE AcceptLocal
    BY <1>1 DEF AcceptLocal
<1>2. CASE SendRequest
    BY <1>2 DEF SendRequest
<1>3. CASE TakeLocal
    BY <1>3 DEF TakeLocal
<1>4. CASE AgeCheck
    BY <1>4 DEF AgeCheck
<1>5. CASE Handoff
    BY <1>5 DEF Handoff
<1>6. CASE HandoffFails
    <2>1. CASE dead > 0 /\ dead' = dead - 1 /\ UNCHANGED <<idle, closing, faults>>
        BY <1>6, <2>1 DEF HandoffFails
    <2>2. CASE idle > 0 /\ idle' = idle - 1 /\ closing' = closing + 1
               /\ faults' = faults + 1 /\ UNCHANGED dead
        BY <1>6, <2>2 DEF HandoffFails
    <2> QED
        BY <1>6, <2>1, <2>2 DEF HandoffFails
<1>7. CASE AcceptTunnel
    BY <1>7 DEF AcceptTunnel
<1> QED
    BY <1>1, <1>2, <1>3, <1>4, <1>5, <1>6, <1>7 DEF ServerStep

(* The averages poolMaintainer compares are integers. *)
LEMMA CeilAvgInt == \A n \in Int : CeilAvg(n) \in Int
BY ConstantsAssumption DEF CeilAvg

(* So does each step of the client's. *)
LEMMA ClientKeepsIInv == IInv /\ ClientStep => IInv'
<1> SUFFICES ASSUME IInv, ClientStep PROVE IInv'
    OBVIOUS
<1> USE ConstantsAssumption
    DEF IInv, TypeOK, Conservation, PoolFloor, PoolCounterExact, Supply,
        Unserved, server, network, history, maintainer
<1>1. CASE ReceiveRequest
    BY <1>1 DEF ReceiveRequest
<1>2. CASE DialTunnel
    BY <1>2 DEF DialTunnel
<1>3. CASE DialFails
    BY <1>3 DEF DialFails
<1>4. CASE ReceiveAddr
    BY <1>4 DEF ReceiveAddr
<1>5. CASE TunnelBreaks
    BY <1>5 DEF TunnelBreaks
<1>6. CASE SamplePool
    BY <1>6 DEF SamplePool
<1>7. CASE AdjustPool
    BY <1>7, CeilAvgInt DEF AdjustPool, ShrinkCondition
<1>8. CASE SignalShrink
    BY <1>8 DEF SignalShrink
<1> QED
    BY <1>1, <1>2, <1>3, <1>4, <1>5, <1>6, <1>7, <1>8 DEF ClientStep

(* The inductive invariant holds throughout. *)
THEOREM PoolInvariant == Spec => []IInv
<1>1. IInv /\ UNCHANGED vars => IInv'
    BY DEF IInv, TypeOK, Conservation, PoolFloor, PoolCounterExact, Supply,
           Unserved, vars, server, client, network, history
<1>2. IInv /\ [Next]_vars => IInv'
    BY <1>1, ServerKeepsIInv, ClientKeepsIInv DEF Next
<1> QED
    BY InitIInv, <1>2, PTL DEF Spec

(* Channel capacities are respected by every producer. *)
THEOREM TypeCorrect == Spec => []TypeOK
BY PoolInvariant, PTL DEF IInv

(* Tunnels, requests and tokens are conserved between the two sides. *)
THEOREM ConservationHolds == Spec => []Conservation
BY PoolInvariant, PTL DEF IInv

(* The counter poolMaintainer reads is exact between restarts. *)
THEOREM PoolCounterHolds == Spec => []PoolCounterExact
BY PoolInvariant, PTL DEF IInv

(* Without losses every accepted user connection has its tunnel coming. *)
THEOREM ProvisioningHolds == Spec => []EveryLocalProvisioned
<1>1. IInv => EveryLocalProvisioned
    BY ConstantsAssumption
       DEF IInv, TypeOK, Conservation, PoolFloor, EveryLocalProvisioned,
           Supply, Unserved
<1> QED
    BY <1>1, PoolInvariant, PTL
=============================================================================
