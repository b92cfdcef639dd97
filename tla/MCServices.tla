----------------------------- MODULE MCServices -----------------------------
(***************************************************************************)
(* Six parts of the system that share no state with each other, checked in *)
(* one run: flows of accept_udp, flows of the udp transport, tunnels of    *)
(* the ws transport and of the quic transport, the usage monitor and the   *)
(* port mappings.  One of them moves in each behaviour and the others keep *)
(* an initial state, so a property of one part holds here exactly when it  *)
(* holds of that part.                                                     *)
(***************************************************************************)
EXTENDS AcceptUdp, UdpFlows, WsTunnels, QuicTunnels, UsageStore, PortMap

VARIABLE svPart  \* the part that moves

Mapping(form, lo, hi) == [form |-> form, lo |-> lo, hi |-> hi]
MCLoads == {<<3, 1>>, <<1, 3>>, <<2, 2>>}
MCMappings == {
    Mapping("port", 5, 5), Mapping("range", 1, 2), Mapping("range", 2, 5),
    Mapping("range", 3, 2), Mapping("range=remote", 3, 4), Mapping("port=remote", 1, 1),
    Mapping("port=remote", 4, 4), Mapping("ip:port=remote", 6, 6), Mapping("invalid", 0, 0)}

SvInit ==
    /\ svPart \in {"AcceptUdp", "UdpFlows", "WsTunnels", "QuicTunnels", "UsageStore", "PortMap"}
    /\ AuInit /\ UdInit /\ WtInit /\ QtInit /\ UsInit /\ PmInit
    /\ svPart # "UdpFlows" => udLoad = <<1, 3>>
    /\ svPart # "UsageStore" => usSide = "server"
    /\ svPart # "PortMap" => pmPorts = <<Mapping("port", 5, 5)>>

SvNext ==
    /\ UNCHANGED svPart
    /\ \/ /\ svPart = "AcceptUdp" /\ AuNext
          /\ UNCHANGED <<udVars, wtVars, qtVars, usVars, pmVars>>
       \/ /\ svPart = "UdpFlows" /\ UdNext
          /\ UNCHANGED <<auVars, wtVars, qtVars, usVars, pmVars>>
       \/ /\ svPart = "WsTunnels" /\ WtNext
          /\ UNCHANGED <<auVars, udVars, qtVars, usVars, pmVars>>
       \/ /\ svPart = "QuicTunnels" /\ QtNext
          /\ UNCHANGED <<auVars, udVars, wtVars, usVars, pmVars>>
       \/ /\ svPart = "UsageStore" /\ UsNext
          /\ UNCHANGED <<auVars, udVars, wtVars, qtVars, pmVars>>
       \/ /\ svPart = "PortMap" /\ PmNext
          /\ UNCHANGED <<auVars, udVars, wtVars, qtVars, usVars>>

SvSpec == SvInit /\ [][SvNext]_<<svPart, auVars, udVars, wtVars, qtVars, usVars, pmVars>>

(* The variables of all six parts hold what the code's types and the       *)
(* capacities of its channels allow.                                       *)
SvTypeOK == AuTypeOK /\ UdTypeOK /\ WtTypeOK /\ QtTypeOK /\ UsTypeOK /\ PmTypeOK
=============================================================================
