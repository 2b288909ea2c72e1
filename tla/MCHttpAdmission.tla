--------------------------- MODULE MCHttpAdmission ---------------------------
(***************************************************************************)
(* HttpAdmission on a few interchangeable sockets.                         *)
(***************************************************************************)
EXTENDS HttpAdmission, TLC

Interchangeable == Permutations(Conns)
=============================================================================
