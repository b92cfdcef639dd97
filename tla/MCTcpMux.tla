------------------------------ MODULE MCTcpMux ------------------------------
(* Session names are interchangeable. *)
EXTENDS TcpMux, TLC

Symmetry == Permutations(Sessions)
=============================================================================
