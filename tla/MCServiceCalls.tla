--------------------------- MODULE MCServiceCalls ---------------------------
(***************************************************************************)
(* ServiceCalls on a few calls: two made by application goroutines, whose  *)
(* answers can be in one batch, and one made by a handler.                 *)
(***************************************************************************)
EXTENDS ServiceCalls
=============================================================================
