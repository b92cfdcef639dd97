----------------------------- MODULE MCTcpServer -----------------------------
(* TcpServer on a small instance: connections are interchangeable. *)
EXTENDS TcpServer, TLC

Symmetry == Permutations(Locals) \cup Permutations(Tunnels) \cup Permutations(Candidates)
=============================================================================
