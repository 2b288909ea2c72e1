---------------------------- MODULE MCNativeRun ----------------------------
(***************************************************************************)
(* NativeRun with two build groups and three CI jobs, two of which the     *)
(* authorization reads.                                                    *)
(***************************************************************************)
EXTENDS NativeRun, TLC

CONSTANTS gate, guards, tests

MCJobs == {gate, guards, tests}
MCAuth == {gate, guards}

Interchangeable == Permutations(Groups)
=============================================================================
