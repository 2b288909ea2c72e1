-------------------------- MODULE MCServiceDispatch --------------------------
(***************************************************************************)
(* ServiceDispatch on two services: "poisoned" requests and a good one for *)
(* the first, and one for the second.                                      *)
(***************************************************************************)
EXTENDS ServiceDispatch, TLC

CONSTANTS bad, good, other, s1, s2

MCReqs      == {bad, good, other}
MCServiceOf == bad :> s1 @@ good :> s1 @@ other :> s2
MCPoison    == {bad}
=============================================================================
