--------------------------- MODULE CanonicalRuns ---------------------------
(***************************************************************************)
(* What the release of a mirror may rely on about the canonical repository *)
(* hopmesh/hop: a commit has one CI run and one native-artifacts run, both *)
(* can be re-run, and the native run succeeds, leaving the bundle of that  *)
(* attempt, only if the commit's CI has once been green.  NativeRun is     *)
(* shown to implement it.                                                  *)
(***************************************************************************)
EXTENDS SourceCI

CONSTANT MaxNative  \* bound on the attempts of the native run

ASSUME NativeAssumption == MaxNative \in Nat

VARIABLES
  native,   \* attempt and status of the native run
  bundles,  \* the attempts whose native-release-bundle artifact can be had
  cleared   \* CI of the commit has been green

runVars == <<ci, native, bundles, cleared>>

RunsTypeOK ==
  /\ CITypeOK
  /\ native \in [attempt : 0..MaxNative, status : {"none", "running", "success", "failure"}]
  /\ bundles \subseteq 1..MaxNative
  /\ cleared \in BOOLEAN

RunsInit ==
  /\ CIInit
  /\ native = [attempt |-> 0, status |-> "none"]
  /\ bundles = {}
  /\ cleared = FALSE

CIStep == CINext /\ cleared' = (cleared \/ RunSucceeded') /\ UNCHANGED <<native, bundles>>

\* The run starts with the push, and again when somebody re-runs it.
NativeStarts ==
  /\ native.status # "running" /\ native.attempt < MaxNative
  /\ native' = [attempt |-> native.attempt + 1, status |-> "running"]
  /\ UNCHANGED <<ci, bundles, cleared>>

NativeSucceeds ==
  /\ native.status = "running" /\ cleared
  /\ native' = [native EXCEPT !.status = "success"]
  /\ bundles' = bundles \cup {native.attempt}
  /\ UNCHANGED <<ci, cleared>>

NativeFails ==
  /\ native.status = "running"
  /\ native' = [native EXCEPT !.status = "failure"]
  /\ UNCHANGED <<ci, bundles, cleared>>

BundleExpires ==
  /\ \E n \in bundles : bundles' = bundles \ {n}
  /\ UNCHANGED <<ci, native, cleared>>

RunsNext == CIStep \/ NativeStarts \/ NativeSucceeds \/ NativeFails \/ BundleExpires

RunsSpec == RunsInit /\ [][RunsNext]_runVars
=============================================================================
