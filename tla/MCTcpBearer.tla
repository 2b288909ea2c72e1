------------------------------ MODULE MCTcpBearer ------------------------------
(***************************************************************************)
(* TcpBearer on a few interchangeable connections.                         *)
(***************************************************************************)
EXTENDS TcpBearer, TLC

Interchangeable == Permutations(Conns)
=============================================================================
