------------------------------ MODULE MCTcpLink ------------------------------
(* TcpLink with interchangeable connection slots. *)
EXTENDS TcpLink, TLC

Symmetry == Permutations(Slots)
=============================================================================
