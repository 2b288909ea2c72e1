------------------------------ MODULE MCHopInstall ------------------------------
(***************************************************************************)
(* HopInstall for a few interchangeable installers.                        *)
(***************************************************************************)
EXTENDS HopInstall, TLC

Interchangeable == Permutations(Installers)
=============================================================================
