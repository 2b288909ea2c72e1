------------------------ MODULE MCEndpointLifecycle ------------------------
(***************************************************************************)
(* EndpointLifecycle on a small set of goroutines.  The links are          *)
(* interchangeable, and so are the application goroutines.                 *)
(***************************************************************************)
EXTENDS EndpointLifecycle, TLC

Interchangeable == Permutations(Links) \cup Permutations(Apps)
=============================================================================
