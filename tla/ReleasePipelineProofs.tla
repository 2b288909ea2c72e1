----------------------- MODULE ReleasePipelineProofs -----------------------
(***************************************************************************)
(* What holds of ReleasePipeline for any pushes, jobs, targets and numbers *)
(* of attempts.  That the mirror is the canonical export although the      *)
(* component map is the mirror's own (MapIsCanonical) rests on the map     *)
(* being one of the files that the export moves unchanged.                 *)
(***************************************************************************)
EXTENDS ReleasePipeline, FiniteSetTheorems, TLAPS

Releases ==
  [attempt : 0..MaxAttempt, job : [JobNames -> {"waiting", "ok", "failed"}],
   pc : {"idle"} \cup Prepare \cup Build \cup Publish, verdict : BOOLEAN]

\* The runs that have not begun have nothing to show.
Begun ==
  /\ native.status # "none" => native.attempt > 0
  /\ ci.attempt = 0 => \A j \in Jobs : ci.result[j] = "pending"

\* The prepare job is past the comparison of the trees only for a push that
\* passes it, and a push does not change.
Compared ==
  \/ push \in VerifiedPushes
  \/ release.pc \in {"idle", "state", "tree"} \cup Build \cup Publish /\ release.job["prepare"] # "ok"

IInv == TypeOK /\ Begun /\ Compared

\* What the steps of a job make of the run's record.
LEMMA GoKeeps ==
  ASSUME release \in Releases, NEW pc \in Prepare \cup Build \cup Publish, Go(pc)
  PROVE  release' \in Releases /\ release'.pc = pc /\ release'.job = release.job
BY DEF Go, Releases

LEMMA FailKeeps ==
  ASSUME release \in Releases, NEW verdict \in BOOLEAN, Fail(verdict)
  PROVE  /\ release' \in Releases /\ release'.pc = "idle"
         /\ release'.job["prepare"] = "ok" => release.job["prepare"] = "ok"
BY DEF Fail, Releases, JobOf, JobNames

LEMMA DoneKeeps ==
  ASSUME release \in Releases, NEW pc \in {"idle"} \cup Build \cup Publish, Done(pc)
  PROVE  /\ release' \in Releases /\ release'.pc = pc
         /\ release'.job = [release.job EXCEPT ![JobOf(release.pc)] = "ok"]
BY DEF Done, Releases, JobOf, JobNames

LEMMA CheckKeeps ==
  ASSUME TypeOK, NEW pc, NEW holds, NEW next \in Prepare \cup Build \cup Publish,
         Check(pc, holds, next)
  PROVE  /\ release' \in Releases /\ UNCHANGED <<runVars, push, moved, calm, facts, store, published>>
         /\ release.pc = pc
         /\ \/ holds /\ release'.pc = next /\ release'.job = release.job
            \/ /\ release'.pc = "idle"
               /\ release'.job["prepare"] = "ok" => release.job["prepare"] = "ok"
<1>1. release \in Releases
  BY DEF TypeOK, Releases
<1>2. CASE holds
  BY <1>1, <1>2, GoKeeps DEF Check, At
<1>3. CASE ~holds
  BY <1>1, <1>3, FailKeeps DEF Check, At
<1> QED
  BY <1>2, <1>3

\* The canonical runs, with Begun, keep to their types.
LEMMA RunsStep ==
  ASSUME RunsTypeOK, Begun, RunsNext
  PROVE  RunsTypeOK' /\ Begun'
<1> USE CIAssumption, NativeAssumption DEF RunsTypeOK, Begun, CITypeOK, Results
<1>1. ASSUME CIStep PROVE RunsTypeOK' /\ Begun'
  <2>1. (cleared \/ RunSucceeded') \in BOOLEAN
    OBVIOUS
  <2>2. /\ ci' \in [attempt : 0..MaxCI, result : [Jobs -> Results]]
        /\ ci'.attempt = 0 => \A j \in Jobs : ci'.result[j] = "pending"
    <3>1. CASE CIStart
      BY <3>1 DEF CIStart
    <3>2. CASE \E j \in Jobs, r \in Results : CIJobEnds(j, r)
      BY <3>2 DEF CIJobEnds
    <3>3. CASE CIGateEnds
      BY <3>3 DEF CIGateEnds
    <3>4. CASE \E again \in SUBSET Jobs : CIRerun(again)
      BY <3>4 DEF CIRerun
    <3> QED
      BY <1>1, <3>1, <3>2, <3>3, <3>4 DEF CIStep, CINext
  <2> QED
    BY <1>1, <2>1, <2>2 DEF CIStep
<1>2. ASSUME NativeStarts PROVE RunsTypeOK' /\ Begun'
  BY <1>2 DEF NativeStarts
<1>3. ASSUME NativeSucceeds PROVE RunsTypeOK' /\ Begun'
  <2>1. native.attempt \in 1..MaxNative
    BY <1>3 DEF NativeSucceeds
  <2> QED
    BY <1>3, <2>1 DEF NativeSucceeds
<1>4. ASSUME NativeFails PROVE RunsTypeOK' /\ Begun'
  BY <1>4 DEF NativeFails
<1>5. ASSUME BundleExpires PROVE RunsTypeOK' /\ Begun'
  BY <1>5 DEF BundleExpires
<1> QED
  BY <1>1, <1>2, <1>3, <1>4, <1>5 DEF RunsNext

LEMMA InitInv == Init => IInv
<1> SUFFICES ASSUME Init PROVE IInv
  OBVIOUS
<1>1. ci = [attempt |-> 0, result |-> [j \in Jobs |-> "pending"]]
  BY DEF Init, RunsInit, CIInit
<1>0. CITypeOK
  BY <1>1, CIAssumption DEF CITypeOK, Results
<1> USE ReleaseAssumption, NativeAssumption DEF Init
<1>2. RunsTypeOK /\ Begun
  <2>1. RunsTypeOK
    <3>1. native \in [attempt : 0..MaxNative, status : {"none", "running", "success", "failure"}]
      BY NativeAssumption DEF RunsInit
    <3>2. bundles \subseteq 1..MaxNative /\ cleared \in BOOLEAN
      BY DEF RunsInit
    <3> QED
      BY <1>0, <3>1, <3>2 DEF RunsTypeOK
  <2> QED
    BY <1>1, <2>1 DEF RunsInit, Begun
<1>3. TypeOK
  <2>1. release \in Releases
    BY DEF Releases
  <2>2. facts \in [native : 0..MaxNative, input : 0..MaxAttempt, built : 0..MaxAttempt]
    BY DEF NoFacts
  <2> QED
    BY <1>2, <2>1, <2>2 DEF TypeOK, Releases
<1>4. Compared
  BY DEF Compared, JobNames
<1> QED
  BY <1>2, <1>3, <1>4 DEF IInv

\* One step of a job, or a failure under it: the record is well typed, and
\* prepare gets past the comparison only by passing it.
JobKeeps ==
  /\ release' \in Releases /\ facts' \in [native : 0..MaxNative, input : 0..MaxAttempt, built : 0..MaxAttempt]
  /\ UNCHANGED <<runVars, push, moved, calm>>
  /\ Compared'

LEMMA CheckStep ==
  ASSUME TypeOK, Compared,
         ValidateTagState \/ VerifyTree \/ SelectWorkflowRun \/ VerifyRequiredChecks
           \/ DownloadGithub \/ VerifyBundle \/ ValidateGo \/ VerifyReleaseAssets
  PROVE  JobKeeps
<1>0. /\ release \in Releases
      /\ facts \in [native : 0..MaxNative, input : 0..MaxAttempt, built : 0..MaxAttempt]
  BY DEF TypeOK, Releases
<1> USE <1>0 DEF Prepare, Build, Publish, JobKeeps, Compared
<1>1. CASE ValidateTagState
  BY <1>1, CheckKeeps DEF ValidateTagState
<1>2. CASE VerifyTree
  <2>1. CASE push \in VerifiedPushes
    BY <1>2, <2>1, CheckKeeps DEF VerifyTree
  <2>2. CASE push \notin VerifiedPushes
    BY <1>2, <2>2, FailKeeps DEF VerifyTree, Check, At
  <2> QED
    BY <2>1, <2>2
<1>3. CASE SelectWorkflowRun
  BY <1>3, CheckKeeps DEF SelectWorkflowRun
<1>4. CASE VerifyRequiredChecks
  BY <1>4, CheckKeeps DEF VerifyRequiredChecks
<1>5. CASE VerifyBundle
  BY <1>5, CheckKeeps DEF VerifyBundle
<1>6. CASE ValidateGo
  BY <1>6, CheckKeeps DEF ValidateGo
<1>7. CASE VerifyReleaseAssets
  BY <1>7, CheckKeeps DEF VerifyReleaseAssets
<1>8. CASE DownloadGithub
  BY <1>8, CheckKeeps DEF DownloadGithub
<1> QED
  BY <1>1, <1>2, <1>3, <1>4, <1>5, <1>6, <1>7, <1>8

LEMMA OtherJobStep ==
  ASSUME TypeOK, Compared,
         SelectNativeRun \/ FetchBundle \/ HandOn \/ GetInput \/ Pack \/ UploadRelease
           \/ GetRelease \/ CreateRelease \/ CreateFails \/ RunnerFails
  PROVE  JobKeeps
<1>0. /\ release \in Releases
      /\ facts \in [native : 0..MaxNative, input : 0..MaxAttempt, built : 0..MaxAttempt]
      /\ native.attempt \in 0..MaxNative /\ release.attempt \in 0..MaxAttempt
  BY DEF TypeOK, RunsTypeOK, Releases
<1> USE <1>0 DEF Prepare, Build, Publish, JobKeeps, Compared, At
<1>1. CASE SelectNativeRun
  BY <1>1, GoKeeps, FailKeeps DEF SelectNativeRun
<1>2. CASE FetchBundle
  BY <1>2, GoKeeps, FailKeeps DEF FetchBundle
<1>3. CASE HandOn
  <2>1. facts' \in [native : 0..MaxNative, input : 0..MaxAttempt, built : 0..MaxAttempt]
    BY <1>3 DEF HandOn
  <2>2. CASE Done("getInput")
    BY <1>3, <2>1, <2>2, DoneKeeps DEF HandOn, Upload, JobOf, Releases
  <2>3. CASE Fail(FALSE)
    BY <1>3, <2>1, <2>3, FailKeeps DEF HandOn, Upload
  <2> QED
    BY <1>3, <2>2, <2>3 DEF HandOn, Upload
<1>4. CASE GetInput
  <2>1. Go("validate") \/ Fail(FALSE)
    BY <1>4 DEF GetInput, Get
  <2>2. release.pc = "getInput" /\ UNCHANGED <<runVars, push, moved, calm, facts>>
    BY <1>4 DEF GetInput, Get
  <2>3. CASE Go("validate")
    <3>1. release' \in Releases /\ release'.pc = "validate" /\ release'.job = release.job
      BY <2>3, GoKeeps
    <3> QED
      BY <2>2, <3>1
  <2>4. CASE Fail(FALSE)
    BY <2>2, <2>4, FailKeeps
  <2> QED
    BY <2>1, <2>3, <2>4
<1>5. CASE Pack
  BY <1>5, GoKeeps, FailKeeps DEF Pack
<1>6. CASE UploadRelease
  <2>1. facts' \in [native : 0..MaxNative, input : 0..MaxAttempt, built : 0..MaxAttempt]
    BY <1>6 DEF UploadRelease
  <2>2. CASE Done("get")
    BY <1>6, <2>1, <2>2, DoneKeeps DEF UploadRelease, Upload, JobOf, JobNames, Releases
  <2>3. CASE Fail(FALSE)
    BY <1>6, <2>1, <2>3, FailKeeps DEF UploadRelease, Upload
  <2> QED
    BY <1>6, <2>2, <2>3 DEF UploadRelease, Upload
<1>7. CASE GetRelease
  BY <1>7, GoKeeps, FailKeeps DEF GetRelease, Get
<1>8. CASE CreateRelease
  BY <1>8, DoneKeeps DEF CreateRelease, JobOf, JobNames, Releases
<1>9. CASE CreateFails
  BY <1>9, FailKeeps DEF CreateFails
<1>10. CASE RunnerFails
  BY <1>10, FailKeeps DEF RunnerFails
<1> QED
  BY <1>1, <1>2, <1>3, <1>4, <1>5, <1>6, <1>7, <1>8, <1>9, <1>10

\* A run, or a re-run of it, begins with no job past the comparison that was
\* not there before.
LEMMA StartStep ==
  ASSUME TypeOK, Compared, TagPushed \/ RerunAll \/ RerunFailed
  PROVE  /\ release' \in Releases
         /\ facts' \in [native : 0..MaxNative, input : 0..MaxAttempt, built : 0..MaxAttempt]
         /\ UNCHANGED <<runVars, push, moved, calm>>
         /\ Compared'
<1>0. /\ release \in Releases
      /\ facts \in [native : 0..MaxNative, input : 0..MaxAttempt, built : 0..MaxAttempt]
  BY DEF TypeOK, Releases
<1>1. ASSUME NEW n \in Nat \ {0}, NEW pc \in {"state", "getInput", "get"}, Start(n, pc)
      PROVE  release' \in Releases /\ UNCHANGED <<runVars, push, moved, calm>> /\ Compared'
  <2>0. n <= MaxAttempt
    BY <1>1 DEF Start
  <2>1. n \in 0..MaxAttempt
    BY <2>0, ReleaseAssumption
  <2>2. release' \in Releases
    <3> DEFINE begin == [j \in JobNames |-> IF release.job[j] = "ok" /\ pc # "state" THEN "ok" ELSE "waiting"]
    <3>1. release' = [attempt |-> n, pc |-> pc, verdict |-> TRUE, job |-> begin]
      BY <1>1 DEF Start
    <3>2. begin \in [JobNames -> {"waiting", "ok", "failed"}]
      OBVIOUS
    <3>3. pc \in {"idle"} \cup Prepare \cup Build \cup Publish
      BY DEF Prepare, Build, Publish
    <3> HIDE DEF begin
    <3> QED
      BY <2>1, <3>1, <3>2, <3>3 DEF Releases
  <2>3. release'.job["prepare"] = "ok" => release.job["prepare"] = "ok"
    BY <1>1 DEF Start, JobNames
  <2>4. release.pc = "idle" /\ release'.pc = pc /\ UNCHANGED <<runVars, push, moved, calm>>
    BY <1>1 DEF Start
  <2> QED
    BY <2>2, <2>3, <2>4 DEF Compared, Prepare, Build, Publish
<1>2. release.attempt + 1 \in Nat \ {0}
  BY <1>0, ReleaseAssumption DEF Releases
<1>3. CASE TagPushed
  <2>1. Start(1, "state") /\ UNCHANGED facts
    BY <1>3 DEF TagPushed
  <2>2. 1 \in Nat \ {0}
    OBVIOUS
  <2>3. release' \in Releases /\ UNCHANGED <<runVars, push, moved, calm>> /\ Compared'
    BY <1>1, <2>1, <2>2
  <2> QED
    BY <1>0, <2>1, <2>3
<1>4. CASE RerunAll
  <2>1. Start(release.attempt + 1, "state") /\ facts' = NoFacts
    BY <1>4 DEF RerunAll
  <2>2. NoFacts \in [native : 0..MaxNative, input : 0..MaxAttempt, built : 0..MaxAttempt]
    BY ReleaseAssumption, NativeAssumption DEF NoFacts
  <2> QED
    BY <1>1, <1>2, <2>1, <2>2
<1>5. CASE RerunFailed
  BY <1>0, <1>1, <1>2, <1>5 DEF RerunFailed
<1> QED
  BY <1>3, <1>4, <1>5

LEMMA InvStep == IInv /\ [Next]_vars => IInv'
<1> SUFFICES ASSUME IInv, [Next]_vars PROVE IInv'
  OBVIOUS
<1>0. TypeOK /\ Begun /\ Compared
  BY DEF IInv
<1>1. ASSUME JobKeeps PROVE IInv'
  BY <1>0, <1>1 DEF JobKeeps, IInv, TypeOK, RunsTypeOK, CITypeOK, Releases, Begun, runVars
<1>2. CASE JobStep \/ CreateFails \/ RunnerFails
  BY <1>0, <1>1, <1>2, CheckStep, OtherJobStep DEF JobStep
<1>3. CASE TagPushed \/ RerunAll \/ RerunFailed
  BY <1>0, <1>3, StartStep, ZenonT(40) DEF IInv, TypeOK, RunsTypeOK, CITypeOK, Releases, Begun, runVars
<1>4. CASE InputExpires
  BY <1>0, <1>4 DEF InputExpires, IInv, TypeOK, RunsTypeOK, CITypeOK, Begun, Compared, runVars
<1>5. CASE MainMoves
  BY <1>0, <1>5 DEF MainMoves, IInv, TypeOK, RunsTypeOK, CITypeOK, Begun, Compared, runVars
<1>6. CASE CalmDown
  BY <1>0, <1>6 DEF CalmDown, IInv, TypeOK, RunsTypeOK, CITypeOK, Begun, Compared, runVars
<1>7. CASE CanonicalStep
  <2>1. RunsTypeOK' /\ Begun' /\ UNCHANGED relVars
    BY <1>0, <1>7, RunsStep DEF CanonicalStep, TypeOK
  <2> QED
    BY <1>0, <2>1 DEF IInv, TypeOK, Compared, relVars
<1>8. CASE UNCHANGED vars
  BY <1>0, <1>8 DEF IInv, TypeOK, RunsTypeOK, CITypeOK, Begun, Compared, vars, runVars, relVars
<1> QED
  BY <1>2, <1>3, <1>4, <1>5, <1>6, <1>7, <1>8 DEF Next

LEMMA Always == Spec => []IInv
BY InitInv, InvStep, PTL DEF Spec

\* TypeOK holds of every behaviour of the workflow.
THEOREM TypesHold == Spec => []TypeOK
<1>1. IInv => TypeOK
  BY DEF IInv
<1> QED
  BY <1>1, Always, PTL

-----------------------------------------------------------------------------
(* Green when it is believed *)

\* SourceWasGreen holds of every behaviour: the second read of CI finds the
\* gate with a result, so there is a run, and no check run pending or failed.
THEOREM GreenWhenBelieved == Spec => SourceWasGreen
<1>1. IInv /\ [Next]_vars => [release.pc = "checks" /\ release'.pc = "native" => RunSucceeded]_vars
  <2> SUFFICES ASSUME IInv, Next, release.pc = "checks", release'.pc = "native"
               PROVE  RunSucceeded
    OBVIOUS
  <2>0. release \in Releases /\ ci.result \in [Jobs -> Results] /\ ci.attempt \in Nat /\ Begun
    BY CIAssumption DEF IInv, TypeOK, RunsTypeOK, CITypeOK, Releases
  <2>1. VerifyRequiredChecks
    <3>1. ~(CreateFails \/ TagPushed \/ RerunAll \/ RerunFailed)
      BY DEF CreateFails, TagPushed, RerunAll, RerunFailed, Start, At
    <3>2. ~RunnerFails
      BY <2>0, FailKeeps DEF RunnerFails
    <3>3. ~(InputExpires \/ MainMoves \/ CalmDown \/ CanonicalStep)
      BY DEF InputExpires, MainMoves, CalmDown, CanonicalStep, relVars
    <3>4. JobStep
      BY <3>1, <3>2, <3>3 DEF Next
    <3> QED
      BY <3>4 DEF JobStep, At, Check, Get, Upload, ValidateTagState, VerifyTree, SelectWorkflowRun,
                  SelectNativeRun, DownloadGithub, FetchBundle, VerifyBundle, HandOn, GetInput, ValidateGo, Pack,
                  UploadRelease, GetRelease, VerifyReleaseAssets, CreateRelease
  <2>2. RequiredChecksPass(Required[push], ci.result)
    BY <2>0, <2>1, FailKeeps DEF VerifyRequiredChecks, Check
  <2>3. \A j \in Jobs : ci.result[j] \notin {"pending", "failure"}
    BY <2>0, <2>2 DEF RequiredChecksPass
  <2>4. Gate \in Jobs
    BY CIAssumption
  <2> QED
    BY <2>0, <2>3, <2>4 DEF Begun, RunSucceeded, Completed
<1> QED
  BY <1>1, Always, PTL DEF Spec, SourceWasGreen

-----------------------------------------------------------------------------
(* The mirror is the canonical export *)

CanonicalPath == <<"tools", "copybara", "components.json">>

\* The export moves the component map as it is, whatever map it is made under.
LEMMA MapIsMoved ==
  ASSUME NEW source, NEW components,
         ExpectedExportTree(source, "hop-sdk-go", components) # NoTree
  PROVE  LET tree == ExpectedExportTree(source, "hop-sdk-go", components)
         IN  tree[ComponentMap] = source[CanonicalPath] /\ tree = [d \in DOMAIN tree |-> tree[d]]
<1> DEFINE entry == CHOOSE e \in ToSet(components) : e.name = "hop-sdk-go"
           moves == Moves(DOMAIN source, "hop-sdk-go", entry.prefix)
           from(d) == CHOOSE p \in DOMAIN source : <<p, d>> \in moves
           export == [d \in {m[2] : m \in moves} |-> source[from(d)]]
           changes == Replacements("hop-sdk-go", entry)
<1>1. /\ \A m \in moves : m[1] \in DOMAIN source
      /\ \A m, n \in moves : m # n => m[2] # n[2]
      /\ ExpectedExportTree(source, "hop-sdk-go", components) =
           [d \in DOMAIN export |->
              IF \E r \in changes : r.path = d
              THEN Replaced(export, CHOOSE r \in changes : r.path = d)[d]
              ELSE export[d]]
  BY DEF ExpectedExportTree
<1>2. <<CanonicalPath, ComponentMap>> \in moves
  BY DEF Moves, SHARED_EXPORTS, CanonicalPath, ComponentMap
<1>3. \A r \in changes : r.path # ComponentMap
  <2>1. ComponentMap # <<"hop.go">> /\ ComponentMap # <<"Cargo.toml">>
    BY DEF ComponentMap
  <2> SUFFICES ASSUME NEW r \in changes PROVE r.path # ComponentMap
    OBVIOUS
  <2> HIDE DEF entry
  <2>2. \/ r = [path |-> <<"hop.go">>, before |-> "cgo-monorepo", after |-> "cgo-pkg-config"]
        \/ r = [path |-> <<"Cargo.toml">>, before |-> entry.rename[1], after |-> entry.rename[2]]
    BY Zenon DEF Replacements
  <2> QED
    BY <2>1, <2>2
<1> HIDE DEF moves, changes
<1>4. from(ComponentMap) = CanonicalPath
  <2>1. CanonicalPath \in DOMAIN source
    BY <1>1, <1>2
  <2>2. \A p : <<p, ComponentMap>> \in moves => p = CanonicalPath
    BY <1>1, <1>2
  <2> QED
    BY <1>2, <2>1, <2>2
<1>5. ComponentMap \in DOMAIN export
  BY <1>2
<1>6. export[ComponentMap] = source[CanonicalPath]
  BY <1>4, <1>5
<1> DEFINE body(d) == IF \E r \in changes : r.path = d
                      THEN Replaced(export, CHOOSE r \in changes : r.path = d)[d]
                      ELSE export[d]
           tree == ExpectedExportTree(source, "hop-sdk-go", components)
<1>7. body(ComponentMap) = source[CanonicalPath]
  BY <1>3, <1>6
<1>8. tree = [d \in DOMAIN export |-> body(d)]
  BY <1>1
<1> HIDE DEF body, tree, export
<1>9. tree[ComponentMap] = source[CanonicalPath] /\ tree = [d \in DOMAIN tree |-> tree[d]]
  BY <1>5, <1>7, <1>8
<1> QED
  BY <1>9 DEF tree

\* A tree that compares equal with an export, under any component map it
\* has itself, is the export under the canonical map.
LEMMA VerifiedIsFaithful == VerifiedPushes \subseteq Faithful
<1> SUFFICES ASSUME NEW i \in VerifiedPushes PROVE i \in Faithful
  OBVIOUS
<1> DEFINE mirror == Push[i].mirror
           source == Push[i].source
           expected == ExpectedExportTree(source, "hop-sdk-go", mirror[ComponentMap].body)
<1>1. /\ i \in Pushes /\ ComponentMap \in DOMAIN mirror
      /\ expected # NoTree /\ SameTree(expected, mirror)
  BY DEF VerifiedPushes, TreeVerified
<1>2. expected[ComponentMap] = source[CanonicalPath]
  BY <1>1, MapIsMoved
<1>3. expected = [d \in DOMAIN expected |-> expected[d]]
  BY <1>1, MapIsMoved
<1>4. mirror = [p \in DOMAIN mirror |-> mirror[p]]
  BY <1>1, ReleaseAssumption DEF Pushes
<1> HIDE DEF expected, mirror, source
<1>5. mirror = expected
  BY <1>1, <1>3, <1>4 DEF SameTree
<1>6. CanonicalMap(source) = mirror[ComponentMap].body
  BY <1>2, <1>5 DEF CanonicalMap, CanonicalPath
<1>7. mirror = ExpectedExportTree(source, "hop-sdk-go", CanonicalMap(source))
  BY <1>5, <1>6 DEF expected
<1> QED
  BY <1>1, <1>7 DEF Faithful, mirror, source

\* MirrorIsExport holds of every behaviour: whatever component map a mirror
\* carries, a tag of it that gets through prepare is the canonical export.
THEOREM MirrorFaithful == Spec => []MirrorIsExport
<1>1. IInv => MirrorIsExport
  BY VerifiedIsFaithful DEF IInv, Compared, MirrorIsExport
<1> QED
  BY <1>1, Always, PTL

-----------------------------------------------------------------------------
(* The order of the jobs *)

\* A job runs, or has ended, only after the jobs it needs have succeeded, and
\* the job that runs has no result yet.
JobOrder ==
  /\ release.pc \in Build \/ release.job["build"] # "waiting" => release.job["prepare"] = "ok"
  /\ release.pc \in Publish \/ release.job["publish"] # "waiting" => release.job["build"] = "ok"
  /\ release.pc # "idle" => release.job[JobOf(release.pc)] = "waiting"

\* What a step can do to the run's record.
Shape ==
  \/ UNCHANGED release
  \/ release.pc # "idle" /\ \E verdict \in BOOLEAN : Fail(verdict)
  \/ release.pc \in Prepare /\ \E pc \in Prepare : Go(pc)
  \/ release.pc \in Build /\ \E pc \in Build : Go(pc)
  \/ release.pc \in Publish /\ \E pc \in Publish : Go(pc)
  \/ release.pc = "handOn" /\ Done("getInput")
  \/ release.pc = "upload" /\ Done("get")
  \/ release.pc = "create" /\ Done("idle")
  \/ Start(release.attempt + 1, "state")
  \/ release.job["build"] = "failed" /\ Start(release.attempt + 1, "getInput")
  \/ release.job["publish"] = "failed" /\ Start(release.attempt + 1, "get")

LEMMA ShapeStep == TypeOK /\ [Next]_vars => Shape
<1> SUFFICES ASSUME TypeOK, [Next]_vars PROVE Shape
  OBVIOUS
<1> USE DEF Shape, Prepare, Build, Publish, At
<1>0. release.attempt \in Nat
  BY ReleaseAssumption DEF TypeOK
<1>1. CASE ValidateTagState \/ VerifyTree \/ SelectWorkflowRun \/ VerifyRequiredChecks
               \/ DownloadGithub \/ VerifyBundle
  BY <1>1 DEF ValidateTagState, VerifyTree, SelectWorkflowRun, VerifyRequiredChecks, DownloadGithub,
              VerifyBundle, Check
<1>2. CASE ValidateGo \/ VerifyReleaseAssets
  BY <1>2 DEF ValidateGo, VerifyReleaseAssets, Check
<1>3. CASE SelectNativeRun \/ FetchBundle
  BY <1>3 DEF SelectNativeRun, FetchBundle
<1>4. CASE HandOn \/ UploadRelease
  BY <1>4 DEF HandOn, UploadRelease, Upload
<1>5. CASE GetInput
  BY <1>5 DEF GetInput, Get
<1>6. CASE Pack
  BY <1>6 DEF Pack
<1>7. CASE GetRelease
  BY <1>7 DEF GetRelease, Get
<1>8. CASE CreateRelease \/ CreateFails \/ RunnerFails
  BY <1>8 DEF CreateRelease, CreateFails, RunnerFails
<1>9. CASE TagPushed
  BY <1>9 DEF TagPushed
<1>10. CASE RerunAll
  BY <1>0, <1>10 DEF RerunAll
<1>11. CASE RerunFailed
  BY <1>0, <1>11 DEF RerunFailed, JobNames
<1>12. CASE InputExpires \/ MainMoves \/ CalmDown \/ CanonicalStep \/ UNCHANGED vars
  BY <1>12 DEF InputExpires, MainMoves, CalmDown, CanonicalStep, vars, relVars
<1> QED
  BY <1>1, <1>2, <1>3, <1>4, <1>5, <1>6, <1>7, <1>8, <1>9, <1>10, <1>11, <1>12 DEF Next, JobStep

LEMMA OrderStep == TypeOK /\ JobOrder /\ [Next]_vars => JobOrder'
<1> SUFFICES ASSUME TypeOK, JobOrder, [Next]_vars PROVE JobOrder'
  OBVIOUS
<1>0. Shape /\ release \in Releases
  BY ShapeStep DEF TypeOK, Releases
<1> USE <1>0 DEF JobOrder, JobOf, JobNames, Prepare, Build, Publish, Releases
<1>1. CASE UNCHANGED release
  BY <1>1
<1>2. CASE release.pc # "idle" /\ \E verdict \in BOOLEAN : Fail(verdict)
  BY <1>2 DEF Fail
<1>3. CASE release.pc \in Prepare /\ \E pc \in Prepare : Go(pc)
  BY <1>3 DEF Go
<1>4. CASE release.pc \in Build /\ \E pc \in Build : Go(pc)
  BY <1>4 DEF Go
<1>5. CASE release.pc \in Publish /\ \E pc \in Publish : Go(pc)
  BY <1>5 DEF Go
<1>6. CASE release.pc = "handOn" /\ Done("getInput")
  BY <1>6 DEF Done
<1>7. CASE release.pc = "upload" /\ Done("get")
  BY <1>7 DEF Done
<1>8. CASE release.pc = "create" /\ Done("idle")
  BY <1>8 DEF Done
<1>9. CASE Start(release.attempt + 1, "state")
  BY <1>9 DEF Start
<1>10. CASE release.job["build"] = "failed" /\ Start(release.attempt + 1, "getInput")
  BY <1>10 DEF Start
<1>11. CASE release.job["publish"] = "failed" /\ Start(release.attempt + 1, "get")
  BY <1>11 DEF Start
<1> QED
  BY <1>1, <1>2, <1>3, <1>4, <1>5, <1>6, <1>7, <1>8, <1>9, <1>10, <1>11 DEF Shape

-----------------------------------------------------------------------------
(* The files, from the native run to the release.  A transfer can alter the  *)
(* manifest, the statement and the archives of a directory, but neither what *)
(* the signature was made over nor the ledger of a release.                  *)

InputFields == {"index", "seal", "statement", "files"}
ReleaseFields == InputFields \cup {"ledger"}

\* The bundle of the n-th attempt of the native run, by its signature.
Sealed(dir, n) == dir.seal = BundleOf(n).index

Input(dir, n) == dir = [f \in InputFields |-> dir[f]] /\ Sealed(dir, n)

\* The manifest is the signed one, and the host's archive is listed in it.
HostWhole(dir) == dir.seal = dir.index /\ dir.files[Host] = dir.index.digest[Host]

\* What the build job packs.
Sound(dir, n) ==
  /\ dir = [f \in ReleaseFields |-> dir[f]]
  /\ dir.files = [t \in Assets |-> dir.files[t]]
  /\ dir.ledger.inventory = ArtifactFiles(dir)
  /\ Sealed(dir, n) /\ HostWhole(dir)

BuiltName == ReleaseName(facts.built)

\* What a transfer can make of a directory before there is no more trouble.
Altered(dir) ==
  {dir, [dir EXCEPT !.index.attempt = 0], [dir EXCEPT !.statement.attempt = 0]}
  \cup {[dir EXCEPT !.files = [s \in DOMAIN @ \ {t} |-> @[s]]] : t \in DOMAIN dir.files}
  \cup {[dir EXCEPT !.files[t].sound = FALSE] : t \in DOMAIN dir.files}

\* What the running job has on its disk.
Carried ==
  /\ release.pc = "attest" => facts.native \in Nat \ {0} /\ work \in Altered(BundleOf(facts.native))
  /\ release.pc = "handOn" => work = BundleOf(facts.native)
  /\ release.pc \in {"validate", "pack"} => Input(work, facts.native)
  /\ release.pc = "pack" => HostWhole(work)
  /\ release.pc = "upload" => Sound(work, facts.native)
  /\ release.pc \in {"verify", "create"} =>
       BuiltName \in DOMAIN store /\ work = [f \in ReleaseFields |-> work[f]] /\ work.ledger = store[BuiltName].ledger
  /\ release.pc = "create" => ArtifactFiles(work) = work.ledger.inventory

\* What the artifacts hold that the outputs of the jobs name.
Stored ==
  /\ HandedOnWhole
  /\ release.job["build"] = "ok" /\ BuiltName \in DOMAIN store => Sound(store[BuiltName], facts.native)

\* What has been published, and what of it by a publish job that finished.
Shown ==
  /\ DOMAIN published.files \subseteq Assets
  /\ release.job["publish"] = "ok" =>
       /\ BuiltName \in DOMAIN store
       /\ published = [top |-> Top(store[BuiltName]), ledger |-> store[BuiltName].ledger,
                       files |-> store[BuiltName].files]

LEMMA BundleFields ==
  ASSUME NEW k
  PROVE  /\ BundleOf(k) = [f \in InputFields |-> BundleOf(k)[f]]
         /\ BundleOf(k).seal = BundleOf(k).index
         /\ BundleOf(k).index.digest = BundleOf(k).files
BY DEF BundleOf, Bundle, Manifest, InputFields

LEMMA ReceivedAltered == ASSUME NEW dir PROVE Received(dir) \subseteq Altered(dir)
BY DEF Received, Altered

\* A transfer leaves a directory with the same fields, and all of them as they
\* were but the manifest, the statement and the archives.
LEMMA ReceivedKeeps ==
  ASSUME NEW fields, InputFields \subseteq fields,
         NEW dir, dir = [f \in fields |-> dir[f]], NEW got \in Altered(dir)
  PROVE  /\ got = [f \in fields |-> got[f]]
         /\ \A f \in fields \ {"index", "statement", "files"} : got[f] = dir[f]
<1> DEFINE Same == /\ got = [f \in fields |-> got[f]]
                   /\ \A f \in fields \ {"index", "statement", "files"} : got[f] = dir[f]
<1>1. CASE got = dir
  BY <1>1
<1>2. CASE got = [dir EXCEPT !.index.attempt = 0]
  BY <1>2
<1>3. CASE got = [dir EXCEPT !.statement.attempt = 0]
  BY <1>3
<1>4. ASSUME NEW t, got = [dir EXCEPT !.files = [s \in DOMAIN @ \ {t} |-> @[s]]] PROVE Same
  BY <1>4
<1>5. ASSUME NEW t, got = [dir EXCEPT !.files[t].sound = FALSE] PROVE Same
  BY <1>5
<1> QED
  BY <1>1, <1>2, <1>3, <1>4, <1>5 DEF Altered

\* What a release directory is made of when it is packed.
LEMMA CreateSound ==
  ASSUME NEW dir, NEW n, NEW attempt, Input(dir, n), HostWhole(dir)
  PROVE  Sound(Create(dir, attempt), n)
<1> DEFINE assets == [dir EXCEPT !.files = [t \in Assets |-> @[t]]]
           made == Create(dir, attempt)
<1>1. /\ assets.index = dir.index /\ assets.seal = dir.seal /\ assets.statement = dir.statement
      /\ assets.files = [t \in Assets |-> dir.files[t]]
  BY DEF Input, InputFields
<1> HIDE DEF assets
<1>2. made = [index |-> dir.index, seal |-> dir.seal, statement |-> dir.statement, files |-> assets.files,
              ledger |-> [source |-> Sha, attempt |-> attempt, inventory |-> ArtifactFiles(assets)]]
  BY DEF Create, assets
<1> HIDE DEF made
<1>3. made = [f \in ReleaseFields |-> made[f]]
  BY <1>2 DEF ReleaseFields, InputFields
<1>4. made.ledger.inventory = ArtifactFiles(made)
  BY <1>1, <1>2 DEF ArtifactFiles, Top
<1>5. made.files = [t \in Assets |-> made.files[t]]
  BY <1>1, <1>2
<1>6. Sealed(made, n) /\ HostWhole(made)
  BY <1>1, <1>2, ReleaseAssumption DEF Input, Sealed, HostWhole
<1>7. Sound(made, n)
  BY <1>3, <1>4, <1>5, <1>6 DEF Sound
<1> QED
  BY <1>7 DEF made

\* A bundle that passes verify-provenance has come through the transfer whole.
LEMMA VerifiedIsWhole ==
  ASSUME NEW n \in Nat \ {0}, NEW dir \in Altered(BundleOf(n)), VerifyProvenance(dir, Sha, n)
  PROVE  dir = BundleOf(n)
<1> DEFINE made == BundleOf(n)
<1>1. /\ made.index.digest = made.files /\ DOMAIN made.files = Targets
      /\ \A t \in Targets : made.files[t].sound
  BY DEF BundleOf, Bundle, Manifest
<1>2. made = [f \in InputFields |-> made[f]] /\ made.seal = made.index
  BY BundleFields
<1>3. made.index = [f \in {"source", "tag", "attempt", "digest"} |-> made.index[f]]
  BY DEF BundleOf, Bundle, Manifest
<1>4. made.statement = [f \in {"source", "attempt", "subjects"} |-> made.statement[f]]
  BY DEF BundleOf, Bundle
<1>5. /\ dir.index.attempt = n /\ dir.statement.attempt = n /\ DOMAIN dir.files = Targets
      /\ \A t \in Targets : dir.files[t] = dir.index.digest[t]
  BY DEF VerifyProvenance, VerifyRelease, VerifyArtifact, ValidProvenance
<1> HIDE DEF made
<1>6. dir # [made EXCEPT !.index.attempt = 0]
  BY <1>2, <1>3, <1>5 DEF InputFields
<1>7. dir # [made EXCEPT !.statement.attempt = 0]
  BY <1>2, <1>4, <1>5 DEF InputFields
<1>8. ASSUME NEW t \in DOMAIN made.files, dir = [made EXCEPT !.files = [s \in DOMAIN @ \ {t} |-> @[s]]]
      PROVE  FALSE
  <2>1. dir.files = [s \in DOMAIN made.files \ {t} |-> made.files[s]]
    BY <1>2, <1>8 DEF InputFields
  <2> QED
    BY <1>1, <1>5, <1>8, <2>1
<1>9. ASSUME NEW t \in DOMAIN made.files, dir = [made EXCEPT !.files[t].sound = FALSE]
      PROVE  FALSE
  <2>1. dir.files = [made.files EXCEPT ![t] = [@ EXCEPT !.sound = FALSE]] /\ dir.index = made.index
    BY <1>2, <1>9 DEF InputFields
  <2>2. dir.files[t] = made.files[t]
    BY <1>1, <1>5, <1>9, <2>1
  <2>3. made.files[t] = [target |-> t, attempt |-> n, sound |-> TRUE]
    BY <1>1, <1>9 DEF made, BundleOf, Bundle
  <2>4. made.files[t].sound /\ "sound" \in DOMAIN made.files[t]
    BY <2>3
  <2>5. dir.files[t] = [made.files[t] EXCEPT !.sound = FALSE]
    BY <1>9, <2>1
  <2>6. dir.files[t]["sound"] = FALSE
    BY <2>4, <2>5
  <2> QED
    BY <2>2, <2>4, <2>6
<1> QED
  BY <1>6, <1>7, <1>8, <1>9 DEF Altered, made

FilesInv == TypeOK /\ JobOrder /\ Carried /\ Stored /\ Shown

\* What is stored under the names that the outputs of finished jobs give stays
\* what it is while the outputs do, and while no such job begins again.
LEMMA StoredKeeps ==
  ASSUME FilesInv,
         release'.job["prepare"] = "ok" =>
           release.job["prepare"] = "ok" /\ facts'.native = facts.native /\ facts'.input = facts.input,
         release'.job["build"] = "ok" =>
           release.job["build"] = "ok" /\ facts'.native = facts.native /\ facts'.built = facts.built,
         \A name \in {InputName(facts.input), BuiltName} :
           name \in DOMAIN store' => name \in DOMAIN store /\ store'[name] = store[name]
  PROVE  Stored'
<1>1. ASSUME release'.job["prepare"] = "ok", InputName(facts'.input) \in DOMAIN store'
      PROVE  store'[InputName(facts'.input)] = BundleOf(facts'.native)
  BY <1>1 DEF FilesInv, Stored, HandedOnWhole
<1>2. ASSUME release'.job["build"] = "ok", ReleaseName(facts'.built) \in DOMAIN store'
      PROVE  Sound(store'[ReleaseName(facts'.built)], facts'.native)
  BY <1>2 DEF FilesInv, Stored, BuiltName
<1> QED
  BY <1>1, <1>2 DEF Stored, HandedOnWhole, BuiltName

\* While a job runs, neither it nor the jobs that need it have succeeded.
LEMMA NotYet ==
  ASSUME TypeOK, JobOrder
  PROVE  /\ release.pc \in Prepare => release.job["prepare"] # "ok" /\ release.job["build"] # "ok"
         /\ release.pc \in Build => release.job["prepare"] = "ok" /\ release.job["build"] # "ok"
         /\ release.pc \in Publish => release.job["prepare"] = "ok" /\ release.job["build"] = "ok"
BY DEF TypeOK, JobOrder, JobOf, Prepare, Build, Publish

\* What the running job may do to the outputs, whether it goes on or fails.
Outputting ==
  \/ UNCHANGED facts
  \/ release.pc \in Prepare
  \/ release.pc \in Build /\ facts'.native = facts.native /\ facts'.input = facts.input

\* A job runs, so publish has not finished.
LEMMA Unfinished ==
  ASSUME TypeOK, JobOrder, release.pc # "idle"
  PROVE  release.job["publish"] # "ok"
BY DEF TypeOK, JobOrder, JobOf, Prepare, Build, Publish

\* What a step on, and what a failure, leave as it was.
LEMMA GoFiles ==
  ASSUME FilesInv, release.pc # "idle", NEW pc \in Prepare \cup Build \cup Publish, Go(pc),
         UNCHANGED <<published, store>>, UNCHANGED facts \/ release.pc \in Prepare
  PROVE  Stored' /\ Shown' /\ release'.pc = pc
<1>1. release'.pc = pc /\ release'.job = release.job
  BY GoKeeps DEF FilesInv, TypeOK, Releases
<1>2. Stored'
  BY <1>1, NotYet, StoredKeeps DEF FilesInv
<1>3. Shown'
  BY <1>1, Unfinished DEF FilesInv, Shown
<1> QED
  BY <1>1, <1>2, <1>3

LEMMA FailFiles ==
  ASSUME FilesInv, release.pc # "idle", NEW verdict \in BOOLEAN, Fail(verdict),
         UNCHANGED store, Outputting, DOMAIN published'.files \subseteq Assets
  PROVE  Carried' /\ Stored' /\ Shown'
<1>1. release'.pc = "idle" /\ release'.job["publish"] # "ok"
  BY Unfinished DEF Fail, FilesInv, TypeOK, JobNames, JobOf
<1>2. release'.job["prepare"] = "ok" => release.job["prepare"] = "ok"
  BY DEF Fail, FilesInv, TypeOK, JobNames, JobOf
<1>3. release'.job["build"] = "ok" => release.job["build"] = "ok"
  BY DEF Fail, FilesInv, TypeOK, JobNames, JobOf
<1>4. Stored'
  BY <1>2, <1>3, NotYet, StoredKeeps DEF FilesInv, Outputting
<1> QED
  BY <1>1, <1>4 DEF Carried, Shown

LEMMA PlainFiles ==
  ASSUME FilesInv,
         ValidateTagState \/ VerifyTree \/ SelectWorkflowRun \/ VerifyRequiredChecks \/ SelectNativeRun
           \/ DownloadGithub \/ RunnerFails
  PROVE  Carried' /\ Stored' /\ Shown'
<1>0. DOMAIN published.files \subseteq Assets
  BY DEF FilesInv, Shown
<1>1. /\ release.pc # "idle" /\ UNCHANGED <<store, published>>
      /\ UNCHANGED facts \/ release.pc \in Prepare
      /\ \/ \E verdict \in BOOLEAN : Fail(verdict)
         \/ \E pc \in {"tree", "runs", "checks", "native", "download", "fetch"} : Go(pc)
  <2> USE DEF At
  <2>1. CASE ValidateTagState \/ VerifyTree \/ SelectWorkflowRun \/ VerifyRequiredChecks \/ DownloadGithub
    BY <2>1 DEF ValidateTagState, VerifyTree, SelectWorkflowRun, VerifyRequiredChecks, DownloadGithub, Check
  <2>2. CASE SelectNativeRun \/ RunnerFails
    BY <2>2 DEF SelectNativeRun, RunnerFails, Prepare
  <2> QED
    BY <2>1, <2>2
<1>2. CASE \E verdict \in BOOLEAN : Fail(verdict)
  BY <1>0, <1>1, <1>2, FailFiles DEF Outputting
<1>3. ASSUME NEW pc \in {"tree", "runs", "checks", "native", "download", "fetch"}, Go(pc)
      PROVE  Carried' /\ Stored' /\ Shown'
  BY <1>1, <1>3, GoFiles DEF Carried, Prepare
<1> QED
  BY <1>1, <1>2, <1>3

LEMMA PrepareFiles ==
  ASSUME FilesInv, FetchBundle \/ VerifyBundle \/ HandOn
  PROVE  Carried' /\ Stored' /\ Shown'
<1>0. DOMAIN published.files \subseteq Assets /\ bundles \subseteq 1..MaxNative
  BY DEF FilesInv, Shown, TypeOK, RunsTypeOK
<1>1. CASE FetchBundle
  <2>0. release.pc = "fetch" /\ UNCHANGED <<facts, store, published>>
    BY <1>1 DEF FetchBundle, At
  <2>1. CASE Fail(FALSE)
    BY <1>0, <2>0, <2>1, FailFiles DEF Outputting
  <2>2. CASE facts.native \in bundles /\ Go("attest") /\ work' \in Received(BundleOf(facts.native))
    <3>1. facts.native \in Nat \ {0}
      <4>1. facts.native \in 1..MaxNative
        BY <1>0, <2>2, Zenon
      <4> QED
        BY <4>1, NativeAssumption
    <3>2. Stored' /\ Shown' /\ release'.pc = "attest"
      BY <2>0, <2>2, GoFiles DEF Prepare
    <3>3. work' \in Altered(BundleOf(facts.native)) /\ Altered(BundleOf(facts.native))' = Altered(BundleOf(facts.native))
      <4>1. work' \in Altered(BundleOf(facts.native))
        BY <2>2, ReceivedAltered, Zenon
      <4>2. Altered(BundleOf(facts.native))' = Altered(BundleOf(facts.native))
        BY <2>0 DEF Altered, BundleOf
      <4> QED
        BY <4>1, <4>2
    <3> QED
      BY <2>0, <2>2, <3>1, <3>2, <3>3 DEF Carried
  <2> QED
    BY <1>1, <2>1, <2>2 DEF FetchBundle
<1>2. CASE VerifyBundle
  <2>0. release.pc = "attest" /\ UNCHANGED <<facts, store, published>>
    BY <1>2 DEF VerifyBundle, Check, At
  <2>1. CASE Fail(FALSE)
    BY <1>0, <2>0, <2>1, FailFiles DEF Outputting
  <2>2. CASE Bound /\ Go("handOn") /\ UNCHANGED work
    <3>1. Stored' /\ Shown' /\ release'.pc = "handOn"
      BY <2>0, <2>2, GoFiles DEF Prepare
    <3>2. work = BundleOf(facts.native)
      BY <2>0, <2>2, VerifiedIsWhole DEF FilesInv, Carried, Bound
    <3>3. work' = BundleOf(facts'.native)
      BY <2>0, <2>2, <3>2
    <3> QED
      BY <3>1, <3>3 DEF Carried
  <2> QED
    BY <1>2, <2>1, <2>2 DEF VerifyBundle, Check
<1>3. CASE HandOn
  <2>0. /\ release.pc = "handOn" /\ UNCHANGED published
        /\ facts' = [facts EXCEPT !.input = release.attempt]
    BY <1>3 DEF HandOn, Upload, At
  <2>1. CASE Fail(FALSE) /\ UNCHANGED store
    BY <1>0, <2>0, <2>1, FailFiles DEF Outputting, Prepare
  <2>2. CASE /\ store' = [n \in DOMAIN store \cup {InputName(release.attempt)} |->
                            IF n = InputName(release.attempt) THEN work ELSE store[n]]
             /\ Done("getInput")
    <3>1. release'.pc = "getInput" /\ release'.job["publish"] # "ok" /\ release'.job["build"] # "ok"
      BY <2>0, <2>2, Unfinished, NotYet DEF Done, JobOf, Prepare, FilesInv, TypeOK, JobNames
    <3>2. work = BundleOf(facts.native)
      BY <2>0 DEF FilesInv, Carried
    <3>3. facts'.input = release.attempt /\ facts'.native = facts.native
      BY <2>0 DEF FilesInv, TypeOK
    <3>4. store'[InputName(facts'.input)] = BundleOf(facts'.native)
      BY <2>2, <3>2, <3>3
    <3>5. Stored'
      BY <3>1, <3>4 DEF Stored, HandedOnWhole
    <3> QED
      BY <1>0, <2>0, <3>1, <3>5 DEF Carried, Shown
  <2> QED
    BY <1>3, <2>1, <2>2 DEF HandOn, Upload
<1> QED
  BY <1>1, <1>2, <1>3

LEMMA BuildFiles ==
  ASSUME FilesInv, GetInput \/ ValidateGo \/ Pack \/ UploadRelease
  PROVE  Carried' /\ Stored' /\ Shown'
<1>0. /\ DOMAIN published.files \subseteq Assets
      /\ release \in Releases
      /\ release.pc \in Build => release.job["prepare"] = "ok" /\ release.job["build"] # "ok"
  BY NotYet DEF FilesInv, Shown, TypeOK, Releases
<1>1. CASE GetInput
  <2> DEFINE input == store[InputName(facts.input)]
  <2>0. release.pc = "getInput" /\ UNCHANGED <<facts, store, published>>
    BY <1>1 DEF GetInput, Get, At
  <2>1. CASE Fail(FALSE)
    BY <1>0, <2>0, <2>1, FailFiles DEF Outputting
  <2>2. CASE InputName(facts.input) \in DOMAIN store /\ Go("validate") /\ work' \in Received(input)
    <3>1. input = BundleOf(facts.native)
      BY <1>0, <2>0, <2>2 DEF FilesInv, Stored, HandedOnWhole, Build
    <3> HIDE DEF input
    <3>2. input = [f \in InputFields |-> input[f]] /\ input.seal = BundleOf(facts.native).index
      BY <3>1, BundleFields
    <3>3. /\ work' = [f \in InputFields |-> work'[f]]
          /\ \A f \in InputFields \ {"index", "statement", "files"} : work'[f] = input[f]
      <4>1. InputFields \subseteq InputFields
        OBVIOUS
      <4> QED
        BY <2>2, <3>2, <4>1, ReceivedAltered, ReceivedKeeps
    <3>4. work'["seal"] = input["seal"]
      BY <3>3 DEF InputFields
    <3>5. Input(work', facts'.native)
      BY <2>0, <3>2, <3>3, <3>4 DEF Input, Sealed
    <3>6. Stored' /\ Shown' /\ release'.pc = "validate"
      BY <2>0, <2>2, GoFiles DEF Build
    <3> QED
      BY <3>5, <3>6 DEF Carried
  <2> QED
    BY <1>1, <2>1, <2>2 DEF GetInput, Get
<1>2. CASE ValidateGo
  <2>0. release.pc = "validate" /\ UNCHANGED <<facts, store, published>>
    BY <1>2 DEF ValidateGo, Check, At
  <2>1. CASE Fail(FALSE)
    BY <1>0, <2>0, <2>1, FailFiles DEF Outputting
  <2>2. CASE ValidGo(work, ModuleHeader[push]) /\ Go("pack") /\ UNCHANGED work
    <3>1. Stored' /\ Shown' /\ release'.pc = "pack"
      BY <2>0, <2>2, GoFiles DEF Build
    <3>2. HostWhole(work)
      BY <2>2 DEF ValidGo, VerifyRelease, VerifyArtifact, HostWhole
    <3>3. Input(work, facts.native)
      BY <2>0 DEF FilesInv, Carried
    <3>4. Input(work', facts'.native) /\ HostWhole(work')
      BY <2>0, <2>2, <3>2, <3>3
    <3> QED
      BY <3>1, <3>4 DEF Carried
  <2> QED
    BY <1>2, <2>1, <2>2 DEF ValidateGo, Check
<1>3. CASE Pack
  <2>0. release.pc = "pack" /\ UNCHANGED <<facts, store, published>>
    BY <1>3 DEF Pack, At
  <2>1. CASE Fail(FALSE)
    BY <1>0, <2>0, <2>1, FailFiles DEF Outputting
  <2>2. CASE Go("upload") /\ work' = Create(work, release.attempt)
    <3>1. Stored' /\ Shown' /\ release'.pc = "upload"
      BY <2>0, <2>2, GoFiles DEF Build
    <3>2. Input(work, facts.native) /\ HostWhole(work)
      BY <2>0 DEF FilesInv, Carried
    <3>3. Sound(work', facts'.native)
      BY <2>0, <2>2, <3>2, CreateSound
    <3> QED
      BY <3>1, <3>3 DEF Carried
  <2> QED
    BY <1>3, <2>1, <2>2 DEF Pack
<1>4. CASE UploadRelease
  <2>0. /\ release.pc = "upload" /\ UNCHANGED published
        /\ facts' = [facts EXCEPT !.built = release.attempt]
    BY <1>4 DEF UploadRelease, Upload, At
  <2>3. /\ facts'.built = release.attempt /\ facts'.native = facts.native /\ facts'.input = facts.input
    BY <2>0 DEF FilesInv, TypeOK
  <2>1. CASE Fail(FALSE) /\ UNCHANGED store
    BY <1>0, <2>0, <2>1, <2>3, FailFiles DEF Outputting, Build
  <2>2. CASE /\ store' = [n \in DOMAIN store \cup {ReleaseName(release.attempt)} |->
                            IF n = ReleaseName(release.attempt) THEN work ELSE store[n]]
             /\ Done("get")
    <3>1. release'.pc = "get" /\ release'.job["publish"] # "ok"
      BY <2>0, <2>2, Unfinished DEF Done, JobOf, Prepare, Build, FilesInv, TypeOK, JobNames
    <3>2. Sound(work, facts.native)
      BY <2>0 DEF FilesInv, Carried
    <3>3. InputName(facts.input) # ReleaseName(release.attempt)
      BY DEF ReleaseName, InputName
    <3>4. HandedOnWhole'
      BY <1>0, <2>0, <2>2, <2>3, <3>3 DEF FilesInv, Stored, HandedOnWhole, Build
    <3>5. Sound(store'[ReleaseName(facts'.built)], facts'.native)
      BY <2>2, <2>3, <3>2
    <3>6. Stored'
      BY <3>4, <3>5 DEF Stored, BuiltName
    <3> QED
      BY <1>0, <2>0, <3>1, <3>6 DEF Carried, Shown
  <2> QED
    BY <1>4, <2>1, <2>2 DEF UploadRelease, Upload
<1> QED
  BY <1>1, <1>2, <1>3, <1>4

\* At the last step, what the job has is what the build packed.
LEMMA AtCreate ==
  ASSUME FilesInv, release.pc = "create"
  PROVE  /\ BuiltName \in DOMAIN store /\ Sound(store[BuiltName], facts.native)
         /\ Top(work) = Top(store[BuiltName]) /\ work.files = store[BuiltName].files
         /\ work.ledger = store[BuiltName].ledger
         /\ work.files = [t \in Assets |-> work.files[t]]
<1>1. /\ BuiltName \in DOMAIN store /\ work.ledger = store[BuiltName].ledger
      /\ ArtifactFiles(work) = work.ledger.inventory
  BY DEF FilesInv, Carried
<1>2. release.job["build"] = "ok"
  BY NotYet DEF FilesInv, Publish
<1>3. Sound(store[BuiltName], facts.native)
  BY <1>1, <1>2 DEF FilesInv, Stored
<1>4. ArtifactFiles(work) = ArtifactFiles(store[BuiltName])
  BY <1>1, <1>3 DEF Sound
<1>5. Top(work) = Top(store[BuiltName]) /\ work.files = store[BuiltName].files
  BY <1>4 DEF ArtifactFiles
<1> QED
  BY <1>1, <1>3, <1>5 DEF Sound

LEMMA PublishFiles ==
  ASSUME FilesInv, GetRelease \/ VerifyReleaseAssets \/ CreateRelease \/ CreateFails
  PROVE  Carried' /\ Stored' /\ Shown'
<1>0. /\ DOMAIN published.files \subseteq Assets
      /\ release.pc \in Publish => release.job["build"] = "ok"
  BY NotYet DEF FilesInv, Shown
<1>1. CASE GetRelease
  <2> DEFINE built == store[BuiltName]
  <2>0. release.pc = "get" /\ UNCHANGED <<facts, store, published>>
    BY <1>1 DEF GetRelease, Get, At
  <2>1. CASE Fail(FALSE)
    BY <1>0, <2>0, <2>1, FailFiles DEF Outputting
  <2>2. CASE BuiltName \in DOMAIN store /\ Go("verify") /\ work' \in Received(built)
    <3>1. Sound(built, facts.native)
      BY <1>0, <2>0, <2>2 DEF FilesInv, Stored, Publish
    <3>2. BuiltName' = BuiltName
      BY <2>0 DEF BuiltName
    <3>3. built' = built
      BY <2>0, <3>2
    <3> HIDE DEF built
    <3>4. /\ work' = [f \in ReleaseFields |-> work'[f]]
          /\ \A f \in ReleaseFields \ {"index", "statement", "files"} : work'[f] = built[f]
      <4>1. InputFields \subseteq ReleaseFields
        BY DEF ReleaseFields
      <4> QED
        BY <2>2, <3>1, <4>1, ReceivedAltered, ReceivedKeeps DEF Sound
    <3>5. work'["ledger"] = built["ledger"]
      BY <3>4 DEF ReleaseFields, InputFields
    <3>6. Stored' /\ Shown' /\ release'.pc = "verify"
      BY <2>0, <2>2, GoFiles DEF Publish
    <3>7. BuiltName' \in DOMAIN store' /\ store'[BuiltName'] = built
      BY <2>0, <2>2, <3>2 DEF built
    <3> QED
      BY <3>4, <3>5, <3>6, <3>7 DEF Carried
  <2> QED
    BY <1>1, <2>1, <2>2 DEF GetRelease, Get, BuiltName
<1>2. CASE VerifyReleaseAssets
  <2>0. release.pc = "verify" /\ UNCHANGED <<facts, store, published>>
    BY <1>2 DEF VerifyReleaseAssets, Check, At
  <2>1. CASE Fail(FALSE)
    BY <1>0, <2>0, <2>1, FailFiles DEF Outputting
  <2>2. CASE VerifyAssets(work, Sha, facts.built) /\ Go("create") /\ UNCHANGED work
    <3>1. Stored' /\ Shown' /\ release'.pc = "create"
      BY <2>0, <2>2, GoFiles DEF Publish
    <3>2. ArtifactFiles(work) = work.ledger.inventory
      BY <2>2 DEF VerifyAssets
    <3>3. BuiltName \in DOMAIN store /\ work = [f \in ReleaseFields |-> work[f]] /\ work.ledger = store[BuiltName].ledger
      BY <2>0 DEF FilesInv, Carried
    <3>4. work' = work /\ BuiltName' = BuiltName /\ store' = store
      BY <2>0, <2>2 DEF BuiltName
    <3>5. ArtifactFiles(work)' = ArtifactFiles(work)
      BY <3>4 DEF ArtifactFiles, Top
    <3> QED
      BY <3>1, <3>2, <3>3, <3>4, <3>5 DEF Carried
  <2> QED
    BY <1>2, <2>1, <2>2 DEF VerifyReleaseAssets, Check
<1>3. CASE CreateRelease
  <2> DEFINE built == store[BuiltName]
  <2>0. /\ release.pc = "create" /\ UNCHANGED <<facts, store>>
        /\ Overwrite(TRUE, DOMAIN work.files) /\ Done("idle")
    BY <1>3 DEF CreateRelease, At
  <2>1. release'.pc = "idle"
    BY <2>0 DEF Done, FilesInv, TypeOK, Releases
  <2>2. BuiltName' = BuiltName /\ BuiltName \in DOMAIN store
    BY <2>0, AtCreate DEF BuiltName
  <2>3. DOMAIN work.files = Assets /\ DOMAIN published.files \cup DOMAIN work.files = Assets
    BY <1>0, <2>0, AtCreate
  <2>4. published' = [top |-> Top(work), ledger |-> work.ledger, files |-> [t \in Assets |-> work.files[t]]]
    <3>1. [t \in DOMAIN published.files \cup DOMAIN work.files |->
             IF t \in DOMAIN work.files THEN work.files[t] ELSE published.files[t]] = [t \in Assets |-> work.files[t]]
      BY <2>3
    <3> QED
      BY <2>0, <3>1 DEF Overwrite
  <2>5. published' = [top |-> Top(built), ledger |-> built.ledger, files |-> built.files]
    BY <2>0, <2>4, AtCreate
  <2>6. DOMAIN published'.files \subseteq Assets
    BY <2>4
  <2>7. Top(built)' = Top(built) /\ built' = built
    BY <2>0, <2>2 DEF Top
  <2>8. Shown'
    BY <2>0, <2>2, <2>5, <2>6, <2>7 DEF Shown
  <2>9. Stored'
    <3>1. /\ release'.job["prepare"] = "ok" => release.job["prepare"] = "ok"
          /\ release'.job["build"] = "ok" => release.job["build"] = "ok"
      BY <2>0 DEF Done, JobOf, Prepare, Build, FilesInv, TypeOK, JobNames
    <3> QED
      BY <2>0, <3>1, StoredKeeps
  <2> QED
    BY <2>1, <2>8, <2>9 DEF Carried
<1>4. CASE CreateFails
  <2>1. release.pc = "create" /\ UNCHANGED <<facts, store>> /\ Fail(TRUE)
    BY <1>4 DEF CreateFails, At
  <2>2. DOMAIN work.files = Assets
    BY <2>1, AtCreate
  <2>3. DOMAIN published'.files \subseteq Assets
    BY <1>0, <1>4, <2>2 DEF CreateFails, Overwrite
  <2> QED
    BY <2>1, <2>3, FailFiles DEF Outputting
<1> QED
  BY <1>1, <1>2, <1>3, <1>4

LEMMA RunFiles ==
  ASSUME FilesInv, TagPushed \/ RerunAll \/ RerunFailed
  PROVE  Carried' /\ Stored' /\ Shown'
<1>1. UNCHANGED <<store, published>>
  BY DEF TagPushed, RerunAll, RerunFailed, Start
<1>3. \/ UNCHANGED facts /\ \A j \in JobNames : release'.job[j] = "ok" => release.job[j] = "ok"
      \/ \A j \in JobNames : release'.job[j] # "ok"
  <2>1. CASE TagPushed \/ RerunFailed
    BY <2>1 DEF TagPushed, RerunFailed, Start
  <2>2. CASE RerunAll
    BY <2>2 DEF RerunAll, Start
  <2> QED
    BY <2>1, <2>2
<1>4. Stored'
  BY <1>1, <1>3, StoredKeeps DEF JobNames
<1>2. release'.pc \in {"state", "getInput", "get"} /\ release'.job["publish"] # "ok"
  <2>1. ASSUME NEW n, Start(n, "state") PROVE release'.pc = "state" /\ release'.job["publish"] # "ok"
    BY <2>1 DEF Start, JobNames
  <2>2. ASSUME NEW n, NEW pc \in {"getInput", "get"}, Start(n, pc), release.job["publish"] # "ok"
        PROVE  release'.pc = pc /\ release'.job["publish"] # "ok"
    BY <2>2 DEF Start, JobNames
  <2>3. CASE TagPushed \/ RerunAll
    BY <2>1, <2>3 DEF TagPushed, RerunAll
  <2>4. CASE RerunFailed
    <3>1. PICK j \in JobNames :
            /\ release.job[j] = "failed"
            /\ Start(release.attempt + 1,
                     CASE j = "prepare" -> "state" [] j = "build" -> "getInput" [] OTHER -> "get")
      BY <2>4 DEF RerunFailed
    <3>2. CASE j = "prepare"
      BY <2>1, <3>1, <3>2
    <3>3. CASE j = "build"
      <4>1. release.job["publish"] # "ok"
        BY <3>1, <3>3 DEF FilesInv, JobOrder
      <4> QED
        BY <2>2, <3>1, <3>3, <4>1
    <3>4. CASE j = "publish"
      BY <2>2, <3>1, <3>4
    <3> QED
      BY <3>2, <3>3, <3>4 DEF JobNames
  <2> QED
    BY <2>3, <2>4
<1> QED
  BY <1>1, <1>2, <1>4 DEF FilesInv, Carried, Shown

LEMMA FilesInit == Init => FilesInv
<1> SUFFICES ASSUME Init PROVE FilesInv
  OBVIOUS
<1>1. TypeOK
  BY InitInv DEF IInv
<1>2. DOMAIN store = {} /\ DOMAIN published.files = {}
  BY DEF Init, Unpublished
<1>3. release.pc = "idle" /\ \A j \in JobNames : release.job[j] = "waiting"
  BY DEF Init
<1> QED
  BY <1>1, <1>2, <1>3 DEF FilesInv, JobOrder, Carried, Stored, HandedOnWhole, Shown, JobNames, Build, Publish

LEMMA FilesStep == FilesInv /\ TypeOK' /\ [Next]_vars => FilesInv'
<1> SUFFICES ASSUME FilesInv, TypeOK', [Next]_vars PROVE Carried' /\ Stored' /\ Shown'
  BY OrderStep DEF FilesInv
<1>1. CASE JobStep \/ CreateFails \/ RunnerFails
  BY <1>1, PlainFiles, PrepareFiles, BuildFiles, PublishFiles DEF JobStep
<1>2. CASE TagPushed \/ RerunAll \/ RerunFailed
  BY <1>2, RunFiles
<1>3. CASE InputExpires
  <2>1. PICK a \in ReleaseAttempts : store' = [n \in DOMAIN store \ {InputName(a)} |-> store[n]]
    BY <1>3 DEF InputExpires
  <2>2. UNCHANGED <<release, facts, work, published, calm>>
    BY <1>3 DEF InputExpires
  <2>3. \A b : ReleaseName(b) # InputName(a)
    BY DEF ReleaseName, InputName
  <2>4. BuiltName' = BuiltName
    BY <2>2 DEF BuiltName
  <2>5. \A b : ReleaseName(b) \in DOMAIN store =>
                 ReleaseName(b) \in DOMAIN store' /\ store'[ReleaseName(b)] = store[ReleaseName(b)]
    BY <2>1, <2>3
  <2>6. BuiltName \in DOMAIN store => BuiltName' \in DOMAIN store' /\ store'[BuiltName'] = store[BuiltName]
    BY <2>4, <2>5 DEF BuiltName
  <2>7. Stored'
    BY <2>1, <2>2, StoredKeeps
  <2>8. Carried'
    <3>1. /\ ArtifactFiles(work)' = ArtifactFiles(work) /\ HostWhole(work)' = HostWhole(work)
          /\ Altered(BundleOf(facts.native))' = Altered(BundleOf(facts.native))
      BY <2>2 DEF ArtifactFiles, Top, HostWhole, Altered, BundleOf
    <3> QED
      BY <2>2, <2>6, <3>1 DEF FilesInv, Carried
  <2>9. Shown'
    BY <2>2, <2>6 DEF FilesInv, Shown, Top
  <2> QED
    BY <2>7, <2>8, <2>9
<1>4. CASE MainMoves \/ CalmDown \/ CanonicalStep \/ UNCHANGED vars
  <2>1. UNCHANGED <<release, facts, work, store, published>>
    BY <1>4 DEF MainMoves, CalmDown, CanonicalStep, vars, relVars
  <2>4. Carried'
    <3>1. /\ ArtifactFiles(work)' = ArtifactFiles(work) /\ HostWhole(work)' = HostWhole(work)
          /\ BuiltName' = BuiltName /\ Altered(BundleOf(facts.native))' = Altered(BundleOf(facts.native))
      BY <2>1 DEF ArtifactFiles, Top, HostWhole, BuiltName, Altered, BundleOf
    <3> QED
      BY <2>1, <3>1 DEF FilesInv, Carried
  <2>5. Stored'
    BY <2>1, StoredKeeps
  <2>6. Shown'
    BY <2>1 DEF FilesInv, Shown, BuiltName, Top
  <2> QED
    BY <2>4, <2>5, <2>6
<1> QED
  BY <1>1, <1>2, <1>3, <1>4 DEF Next

LEMMA FilesAlways == Spec => []FilesInv
<1>1. IInv /\ FilesInv /\ [Next]_vars => (IInv /\ FilesInv)'
  BY InvStep, FilesStep DEF IInv
<1> QED
  BY <1>1, InitInv, FilesInit, PTL DEF Spec

\* HandedOnWhole holds of every behaviour, whenever the native run is re-run and
\* whatever the download has done to the bundle.
THEOREM InputWhole == Spec => []HandedOnWhole
<1>1. FilesInv => HandedOnWhole
  BY DEF FilesInv, Stored
<1> QED
  BY <1>1, FilesAlways, PTL

\* PublishedAsBuilt holds of every behaviour, for any number of re-runs of the
\* release and of the native run, and whatever the transfers alter.
THEOREM PublishedWhole == Spec => []PublishedAsBuilt
<1>1. FilesInv => PublishedAsBuilt
  <2> SUFFICES ASSUME FilesInv, release.job["publish"] = "ok" PROVE PublishedAsBuilt
    BY DEF PublishedAsBuilt
  <2> DEFINE built == store[BuiltName]
  <2>1. release.job["build"] = "ok"
    BY DEF FilesInv, JobOrder
  <2>2. /\ BuiltName \in DOMAIN store
        /\ published = [top |-> Top(built), ledger |-> built.ledger, files |-> built.files]
    BY DEF FilesInv, Shown
  <2>3. Sound(built, facts.native)
    BY <2>1, <2>2 DEF FilesInv, Stored
  <2>4. /\ built.index = BundleOf(facts.native).index /\ built.seal = built.index
        /\ built.files[Host] = BundleOf(facts.native).files[Host]
    <3>1. BundleOf(facts.native).seal = BundleOf(facts.native).index
          /\ BundleOf(facts.native).index.digest = BundleOf(facts.native).files
      BY BundleFields
    <3>2. /\ built.seal = BundleOf(facts.native).index
          /\ built.seal = built.index /\ built.files[Host] = built.index.digest[Host]
      BY <2>3 DEF Sound, Sealed, HostWhole
    <3> HIDE DEF built
    <3> QED
      BY <3>1, <3>2
  <2> QED
    BY <2>2, <2>4 DEF PublishedAsBuilt, BuiltName
<1> QED
  BY <1>1, FilesAlways, PTL

-----------------------------------------------------------------------------
(* The names of the artifacts *)

\* No artifact has the name of an attempt to come, nor of this one before the
\* job that uploads it has done so; no check has failed under a running job.
Free ==
  /\ \A a \in Nat : InputName(a) \in DOMAIN store \/ ReleaseName(a) \in DOMAIN store => a <= release.attempt
  /\ release.pc \in Prepare => InputName(release.attempt) \notin DOMAIN store
  /\ release.pc \in Prepare \cup Build => ReleaseName(release.attempt) \notin DOMAIN store
  /\ release.pc # "idle" => release.verdict

\* What a step can do to the names.
Naming ==
  \/ DOMAIN store' \subseteq DOMAIN store
  \/ /\ release.pc = "handOn" /\ Done("getInput")
     /\ DOMAIN store' = DOMAIN store \cup {InputName(release.attempt)}
  \/ /\ release.pc = "upload" /\ Done("get")
     /\ DOMAIN store' = DOMAIN store \cup {ReleaseName(release.attempt)}

LEMMA NamingStep == [Next]_vars => Naming
<1> SUFFICES ASSUME [Next]_vars PROVE Naming
  OBVIOUS
<1>1. CASE HandOn \/ UploadRelease
  BY <1>1 DEF HandOn, UploadRelease, Upload, At, Naming
<1>2. CASE InputExpires
  BY <1>2 DEF InputExpires, Naming
<1>3. CASE \/ ValidateTagState \/ VerifyTree \/ SelectWorkflowRun \/ VerifyRequiredChecks \/ DownloadGithub
           \/ VerifyBundle \/ ValidateGo \/ VerifyReleaseAssets
  BY <1>3 DEF ValidateTagState, VerifyTree, SelectWorkflowRun, VerifyRequiredChecks, DownloadGithub,
              VerifyBundle, ValidateGo, VerifyReleaseAssets, Check, Naming
<1>4. CASE SelectNativeRun \/ FetchBundle \/ GetInput \/ GetRelease \/ Pack
  BY <1>4 DEF SelectNativeRun, FetchBundle, GetInput, GetRelease, Get, Pack, Naming
<1>5. CASE CreateRelease \/ CreateFails \/ RunnerFails
  BY <1>5 DEF CreateRelease, CreateFails, RunnerFails, Naming
<1>6. CASE TagPushed \/ RerunAll \/ RerunFailed
  BY <1>6 DEF TagPushed, RerunAll, RerunFailed, Start, Naming
<1>7. CASE MainMoves \/ CalmDown \/ CanonicalStep \/ UNCHANGED vars
  BY <1>7 DEF MainMoves, CalmDown, CanonicalStep, vars, relVars, Naming
<1> QED
  BY <1>1, <1>2, <1>3, <1>4, <1>5, <1>6, <1>7 DEF Next, JobStep

LEMMA FreeStep == TypeOK /\ Free /\ [Next]_vars => Free'
<1> SUFFICES ASSUME TypeOK, Free, [Next]_vars PROVE Free'
  OBVIOUS
<1>0. Shape /\ Naming /\ release \in Releases /\ release.attempt \in Nat
  BY ShapeStep, NamingStep, ReleaseAssumption DEF TypeOK, Releases
<1>1. \A a, b : /\ InputName(a) # ReleaseName(b)
                /\ InputName(a) = InputName(b) => a = b
                /\ ReleaseName(a) = ReleaseName(b) => a = b
  BY DEF InputName, ReleaseName
<1>2. CASE release.pc = "handOn" /\ Done("getInput") /\ DOMAIN store' = DOMAIN store \cup {InputName(release.attempt)}
  <2>1. release'.attempt = release.attempt /\ release'.pc = "getInput" /\ release'.verdict = release.verdict
    BY <1>0, <1>2 DEF Done, Releases
  <2> QED
    BY <1>0, <1>1, <1>2, <2>1 DEF Free, Prepare, Build, InputName, ReleaseName
<1>3. CASE release.pc = "upload" /\ Done("get") /\ DOMAIN store' = DOMAIN store \cup {ReleaseName(release.attempt)}
  <2>1. release'.attempt = release.attempt /\ release'.pc = "get" /\ release'.verdict = release.verdict
    BY <1>0, <1>3 DEF Done, Releases
  <2> QED
    BY <1>0, <1>1, <1>3, <2>1 DEF Free, Prepare, Build, InputName, ReleaseName
<1>4. CASE DOMAIN store' \subseteq DOMAIN store
  <2>1. CASE release'.attempt = release.attempt + 1 /\ release'.verdict
    <3>1. \A a \in Nat : InputName(a) \in DOMAIN store' \/ ReleaseName(a) \in DOMAIN store' => a <= release.attempt
      BY <1>4 DEF Free
    <3>2. InputName(release'.attempt) \notin DOMAIN store' /\ ReleaseName(release'.attempt) \notin DOMAIN store'
      BY <1>0, <2>1, <3>1
    <3>3. \A a \in Nat : a <= release.attempt => a <= release'.attempt
      BY <1>0, <2>1
    <3> QED
      BY <2>1, <3>1, <3>2, <3>3 DEF Free, InputName, ReleaseName
  <2>2. CASE /\ release'.attempt = release.attempt
             /\ release'.pc \in Prepare => release.pc \in Prepare
             /\ release'.pc \in Build => release.pc \in Prepare \cup Build
             /\ release'.pc # "idle" => release.pc # "idle" /\ release'.verdict = release.verdict
    <3>1. InputName(release.attempt)' = InputName(release.attempt) /\ ReleaseName(release.attempt)' = ReleaseName(release.attempt)
      BY <2>2 DEF InputName, ReleaseName
    <3>2. \A a \in Nat : InputName(a)' = InputName(a) /\ ReleaseName(a)' = ReleaseName(a)
      BY DEF InputName, ReleaseName
    <3> QED
      BY <1>4, <2>2, <3>1, <3>2 DEF Free
  <2>3. \/ release'.attempt = release.attempt + 1 /\ release'.verdict
        \/ /\ release'.attempt = release.attempt
           /\ release'.pc \in Prepare => release.pc \in Prepare
           /\ release'.pc \in Build => release.pc \in Prepare \cup Build
           /\ release'.pc # "idle" => release.pc # "idle" /\ release'.verdict = release.verdict
    <3> USE <1>0 DEF Prepare, Build, Publish, Releases
    <3>1. CASE UNCHANGED release
      BY <3>1
    <3>2. CASE \E verdict \in BOOLEAN : Fail(verdict)
      BY <3>2 DEF Fail
    <3>3. CASE \/ release.pc \in Prepare /\ \E pc \in Prepare : Go(pc)
               \/ release.pc \in Build /\ \E pc \in Build : Go(pc)
               \/ release.pc \in Publish /\ \E pc \in Publish : Go(pc)
      BY <3>3 DEF Go
    <3>4. CASE \/ release.pc = "handOn" /\ Done("getInput")
               \/ release.pc = "upload" /\ Done("get")
               \/ release.pc = "create" /\ Done("idle")
      BY <3>4 DEF Done
    <3>5. ASSUME NEW pc, Start(release.attempt + 1, pc)
          PROVE  release'.attempt = release.attempt + 1 /\ release'.verdict
      BY <3>5 DEF Start
    <3> QED
      BY <3>1, <3>2, <3>3, <3>4, <3>5 DEF Shape
  <2> QED
    BY <2>1, <2>2, <2>3
<1> QED
  BY <1>0, <1>2, <1>3, <1>4 DEF Naming

\* UploadsLand holds of every behaviour: whichever jobs are re-run, the name of
\* an artifact is that of the attempt which uploads it.
THEOREM UploadsSucceed == Spec => UploadsLand
<1>1. Init => Free
  BY DEF Init, Free, Prepare, Build
<1>2. TypeOK /\ Free /\ [Next]_vars => [release.pc \in {"handOn", "upload"} => release'.verdict]_vars
  <2> SUFFICES ASSUME TypeOK, Free, Next, release.pc \in {"handOn", "upload"}, ~release'.verdict
               PROVE  FALSE
    OBVIOUS
  <2>0. release \in Releases /\ release.verdict
    BY DEF Free, TypeOK, Releases
  <2>1. ~UNCHANGED release /\ \A verdict : Fail(verdict) => release'.verdict = verdict
    BY <2>0 DEF Fail, Releases
  <2>2. ~(CreateFails \/ RunnerFails)
    BY <2>1 DEF CreateFails, RunnerFails
  <2>3. ~(TagPushed \/ RerunAll \/ RerunFailed)
    BY DEF TagPushed, RerunAll, RerunFailed, Start
  <2>4. ~(InputExpires \/ MainMoves \/ CalmDown \/ CanonicalStep)
    BY <2>1 DEF InputExpires, MainMoves, CalmDown, CanonicalStep, relVars
  <2>5. JobStep
    BY <2>2, <2>3, <2>4 DEF Next
  <2>6. HandOn \/ UploadRelease
    BY <2>5 DEF JobStep, At, Check, Get, ValidateTagState, VerifyTree, SelectWorkflowRun, VerifyRequiredChecks,
                SelectNativeRun, DownloadGithub, FetchBundle, VerifyBundle, GetInput, ValidateGo, Pack,
                GetRelease, VerifyReleaseAssets, CreateRelease
  <2>7. CASE HandOn
    <3>1. release.pc = "handOn" /\ InputName(release.attempt) \notin DOMAIN store
      BY <2>7 DEF HandOn, Upload, At, Free, Prepare
    <3>2. Done("getInput")
      BY <2>7, <3>1 DEF HandOn, Upload
    <3> QED
      BY <2>0, <3>2 DEF Done, Releases
  <2>8. CASE UploadRelease
    <3>1. release.pc = "upload" /\ ReleaseName(release.attempt) \notin DOMAIN store
      BY <2>8 DEF UploadRelease, Upload, At, Free, Build
    <3>2. Done("get")
      BY <2>8, <3>1 DEF UploadRelease, Upload
    <3> QED
      BY <2>0, <3>2 DEF Done, Releases
  <2> QED
    BY <2>6, <2>7, <2>8
<1>3. IInv => TypeOK
  BY DEF IInv
<1> QED
  BY <1>1, <1>2, <1>3, Always, FreeStep, PTL DEF Spec, UploadsLand

-----------------------------------------------------------------------------
(* What is packed and what is verified *)

\* A sequence of a set has each of its elements once.
LEMMA Ordered ==
  ASSUME NEW S, IsFiniteSet(S)
  PROVE  /\ SetToSeq(S) \in Bijection(1..Cardinality(S), S)
         /\ Cardinality(S) \in Nat
         /\ Len(SetToSeq(S)) = Cardinality(S)
         /\ DOMAIN SetToSeq(S) = 1..Cardinality(S)
<1> DEFINE n == Cardinality(S)
           order == SetToSeq(S)
<1>1. n \in Nat /\ ExistsBijection(1..n, S)
  BY FS_CardinalityType
<1>2. \E f \in [1..n -> S] : IsInjective(f)
  BY <1>1 DEF ExistsBijection, Bijection, Injection
<1>3. order \in [1..n -> S] /\ IsInjective(order)
  BY <1>2 DEF SetToSeq
<1>4. order \in Injection(1..n, S)
  BY <1>3 DEF Injection
<1>5. IsFiniteSet(1..n) /\ Cardinality(1..n) = n
  BY <1>1, FS_Interval
<1>6. order \in Surjection(1..n, S)
  BY <1>4, <1>5, FS_Injection
<1>7. Len(order) = n
  BY <1>1, <1>3
<1> QED
  BY <1>1, <1>3, <1>4, <1>6, <1>7 DEF Bijection

FilesOf(tree) == {p \in DOMAIN tree : tree[p].kind = "file"}
Entry(tree, p) == [path |-> p, mode |-> FileMode(tree[p].mode), body |-> tree[p].body]
Inventory(tree) == {Entry(tree, p) : p \in FilesOf(tree)}

\* The tree without its directories, and with what is kept of each file's mode.
Kept(tree) ==
  [p \in FilesOf(tree) |-> [kind |-> "file", mode |-> FileMode(tree[p].mode), body |-> tree[p].body]]

\* What can be packed at all.
Packable(tree) ==
  /\ IsFiniteSet(DOMAIN tree)
  /\ \A p \in DOMAIN tree : tree[p].kind # "link"
  /\ FilesOf(tree) # {}
  /\ \A p \in FilesOf(tree) : SafeRelative(p)

LEMMA PackedMembers ==
  ASSUME NEW tree, Packable(tree)
  PROVE  LET order == SetToSeq(FilesOf(tree)) IN
         /\ Packed(tree) = [i \in DOMAIN order |->
              [path |-> order[i], kind |-> "file", mode |-> FileMode(tree[order[i]].mode), body |-> tree[order[i]].body]]
         /\ IsFiniteSet(FilesOf(tree))
<1>1. IsFiniteSet(FilesOf(tree))
  BY FS_Subset DEF Packable, FilesOf
<1>2. {p \in DOMAIN tree : tree[p].kind = "link"} = {}
  BY DEF Packable
<1> QED
  BY <1>1, <1>2 DEF Packed, Packable, FilesOf

LEMMA ModeKept == ASSUME NEW mode PROVE FileMode(FileMode(mode)) = FileMode(mode)
BY DEF FileMode

LEMMA InventoryRead ==
  ASSUME NEW tree, Packable(tree)
  PROVE  Entries(Packed(tree)) = Inventory(tree)
<1> DEFINE files == FilesOf(tree)
           order == SetToSeq(files)
           n == Cardinality(files)
           archive == Packed(tree)
<1>1. /\ order \in Bijection(1..n, files) /\ n \in Nat /\ Len(order) = n /\ DOMAIN order = 1..n
  BY PackedMembers, Ordered
<1>2. archive = [i \in 1..n |->
        [path |-> order[i], kind |-> "file", mode |-> FileMode(tree[order[i]].mode), body |-> tree[order[i]].body]]
  BY <1>1, PackedMembers
<1>3. /\ \A i \in 1..n : order[i] \in files
      /\ \A p \in files : \E i \in 1..n : order[i] = p
  BY <1>1 DEF Bijection, Injection, Surjection
<1> HIDE DEF archive, order, n
<1>4. n > 0
  BY <1>1, <1>3 DEF Packable
<1>5. DOMAIN archive = 1..n /\ Len(archive) = n /\ archive # <<>>
  BY <1>1, <1>2, <1>4
<1>6. \A i \in DOMAIN archive : archive[i].kind = "file" /\ SafeRelative(archive[i].path)
  BY <1>2, <1>3 DEF Packable
<1>7. {archive[i].path : i \in DOMAIN archive} = files
  BY <1>2, <1>3, <1>5
<1>8. Cardinality({archive[i].path : i \in DOMAIN archive}) = Len(archive)
  BY <1>5, <1>7 DEF n
<1>9. {[path |-> archive[i].path, mode |-> FileMode(archive[i].mode), body |-> archive[i].body] :
          i \in DOMAIN archive} = Inventory(tree)
  <2>1. \A i \in 1..n : [path |-> archive[i].path, mode |-> FileMode(archive[i].mode), body |-> archive[i].body]
                        = Entry(tree, order[i])
    BY <1>2, ModeKept DEF Entry
  <2> DEFINE read(i) == [path |-> archive[i].path, mode |-> FileMode(archive[i].mode), body |-> archive[i].body]
  <2>2. \A i \in 1..n : read(i) \in Inventory(tree)
    BY <1>3, <2>1 DEF Inventory
  <2>3. \A p \in files : \E i \in 1..n : Entry(tree, p) = read(i)
    BY <1>3, <2>1
  <2> HIDE DEF read
  <2>4. {read(i) : i \in DOMAIN archive} = Inventory(tree)
    BY <1>5, <2>2, <2>3 DEF Inventory
  <2> QED
    BY <2>4 DEF read
<1>10. Entries(archive) = {[path |-> archive[i].path, mode |-> FileMode(archive[i].mode), body |-> archive[i].body] :
          i \in DOMAIN archive}
  <2>1. ~(Cardinality({archive[i].path : i \in DOMAIN archive}) < Len(archive))
    BY <1>1, <1>5, <1>8
  <2>2. ~\E i \in DOMAIN archive : ~(archive[i].kind = "file" /\ SafeRelative(archive[i].path))
    BY <1>6
  <2> QED
    BY <1>5, <2>1, <2>2, Zenon DEF Entries
<1> QED
  BY <1>9, <1>10 DEF archive

\* What a build packs is what an installation extracts: every file at its path,
\* with its contents and the mode that is kept, and nothing else.  (The inventory
\* is never the marker of a rejection.)
THEOREM UnpacksAsPacked ==
  ASSUME NEW tree, Packable(tree), Inventory(tree) # Rejected
  PROVE  Extracted(Packed(tree)) = Kept(tree)
<1> DEFINE entries == Entries(Packed(tree))
<1>1. entries = Inventory(tree)
  BY InventoryRead
<1>2. {e.path : e \in entries} = FilesOf(tree)
  <2>1. \A p : Entry(tree, p).path = p
    BY DEF Entry
  <2>2. \A e \in entries : e.path \in FilesOf(tree)
    BY <1>1, <2>1 DEF Inventory
  <2>3. \A p \in FilesOf(tree) : \E e \in entries : e.path = p
    BY <1>1, <2>1 DEF Inventory
  <2> QED
    BY <2>2, <2>3
<1>3. ASSUME NEW p \in FilesOf(tree) PROVE (CHOOSE x \in entries : x.path = p) = Entry(tree, p)
  <2>1. Entry(tree, p) \in entries /\ Entry(tree, p).path = p
    BY <1>1 DEF Inventory, Entry
  <2>2. \A x \in entries : x.path = p => x = Entry(tree, p)
    BY <1>1 DEF Inventory, Entry
  <2> QED
    BY <2>1, <2>2
<1>4. Extracted(Packed(tree)) =
        [p \in {e.path : e \in entries} |->
           [kind |-> "file", mode |-> (CHOOSE x \in entries : x.path = p).mode,
            body |-> (CHOOSE x \in entries : x.path = p).body]]
  BY <1>1 DEF Extracted
<1> HIDE DEF entries
<1>5. \A p \in FilesOf(tree) :
         /\ (CHOOSE x \in entries : x.path = p).mode = FileMode(tree[p].mode)
         /\ (CHOOSE x \in entries : x.path = p).body = tree[p].body
  <2>1. \A p : Entry(tree, p).mode = FileMode(tree[p].mode) /\ Entry(tree, p).body = tree[p].body
    BY DEF Entry
  <2> QED
    BY <1>3, <2>1
<1> QED
  BY <1>2, <1>4, <1>5, ZenonT(40) DEF Kept

\* Nothing is extracted outside the directory it is extracted into, whatever the
\* archive holds.
THEOREM ExtractsInside ==
  ASSUME NEW archive, Extracted(archive) # Rejected
  PROVE  \A p \in DOMAIN Extracted(archive) : SafeRelative(p)
<1> DEFINE entries == Entries(archive)
<1>1. entries # Rejected
  BY DEF Extracted
<1>2. DOMAIN Extracted(archive) = {e.path : e \in entries}
  BY <1>1 DEF Extracted
<1>3. \A e \in entries : SafeRelative(e.path)
  BY <1>1 DEF Entries
<1> QED
  BY <1>2, <1>3

\* What verify-provenance accepts for a source and an attempt is a bundle of
\* that attempt, signed, attested and complete, as the native run makes them; and
\* it accepts each of these whose archives can be read.
THEOREM VerifiesExactly ==
  ASSUME NEW dir, NEW source, NEW attempt,
         dir = [f \in {"index", "seal", "statement", "files"} |-> dir[f]],
         dir.index = [f \in {"source", "tag", "attempt", "digest"} |-> dir.index[f]],
         dir.statement = [f \in {"source", "attempt", "subjects"} |-> dir.statement[f]],
         dir.index.digest = [t \in DOMAIN dir.index.digest |-> dir.index.digest[t]],
         dir.files = [t \in DOMAIN dir.files |-> dir.files[t]]
  PROVE  VerifyProvenance(dir, source, attempt)
            <=> WellFormed(dir.index) /\ dir = Bundle(source, dir.index.tag, attempt, dir.files)
<1> DEFINE made == Bundle(source, dir.index.tag, attempt, dir.files)
<1>1. ASSUME VerifyProvenance(dir, source, attempt) PROVE WellFormed(dir.index) /\ dir = made
  <2>1. /\ dir.seal = dir.index /\ WellFormed(dir.index)
        /\ \A t \in Targets : VerifyArtifact(dir.index, t, dir.files)
        /\ DOMAIN dir.files = Targets
        /\ dir.index.source = source /\ dir.index.attempt = attempt
        /\ dir.statement.source = source /\ dir.statement.attempt = attempt
        /\ dir.statement.subjects = Subjects(dir)
    BY <1>1 DEF VerifyProvenance, VerifyRelease, ValidProvenance
  <2>2. dir.index.digest = dir.files
    BY <2>1 DEF VerifyArtifact, WellFormed
  <2>3. dir.index = Manifest(source, dir.index.tag, attempt, dir.files)
    BY <2>1, <2>2 DEF Manifest
  <2>4. Subjects(dir) = [index |-> made.index, seal |-> made.seal, files |-> made.files]
    BY <2>1, <2>3 DEF Subjects, Bundle
  <2>5. dir.statement = made.statement
    BY <2>1, <2>4 DEF Bundle, Subjects
  <2> QED
    BY <2>1, <2>3, <2>5 DEF Bundle
<1>2. ASSUME WellFormed(dir.index), dir = made PROVE VerifyProvenance(dir, source, attempt)
  <2>1. /\ dir.index = Manifest(source, dir.index.tag, attempt, dir.files) /\ dir.seal = dir.index
        /\ dir.statement.source = source /\ dir.statement.attempt = attempt
        /\ dir.statement.subjects = [index |-> dir.index, seal |-> dir.seal, files |-> dir.files]
    BY <1>2 DEF Bundle, Subjects
  <2>2. dir.index.source = source /\ dir.index.attempt = attempt /\ dir.index.digest = dir.files
    BY <2>1 DEF Manifest
  <2>3. DOMAIN dir.files = Targets
    BY <1>2, <2>2 DEF WellFormed
  <2>4. \A t \in Targets : VerifyArtifact(dir.index, t, dir.files)
    BY <2>2, <2>3 DEF VerifyArtifact, Listed
  <2> QED
    BY <1>2, <2>1, <2>2, <2>3, <2>4 DEF VerifyProvenance, VerifyRelease, ValidProvenance, Subjects
<1> QED
  BY <1>1, <1>2
=============================================================================
