-------------------------- MODULE ReleasePipeline --------------------------
(***************************************************************************)
(* The release workflow of the mirror: one push of a version tag, the run  *)
(* of release.yml that it starts, and the re-runs of it.  The prepare job  *)
(* checks the tag, the tree, CI and the native run (release-provenance.py),*)
(* downloads the native bundle and verifies it (native-artifacts.py) and   *)
(* hands it on as an artifact; build validates the Go module against it    *)
(* (package-export-smoke.py) and writes the release's manifest; publish    *)
(* verifies that manifest (release-artifact.py) and creates the release.   *)
(* Every job has a fresh runner, whose disk is work.  Meanwhile the        *)
(* canonical runs go on (CanonicalRuns), the mirror's main moves, a runner *)
(* or a call fails, and a transfer loses or alters a file, until calm.     *)
(***************************************************************************)
EXTENDS CanonicalRuns, NativeBundle, PackageExport

CONSTANTS
  Push,         \* the pushes that are considered, numbered
  Sha,          \* the canonical commit that a push names
  NativeTag,    \* the tag in the native manifest: the Rust workspace's version
  Host,         \* the target that the build job installs
  Assets,       \* the targets that are published
  MaxAttempt,   \* bound on the attempts of the release run
  TagRequired,  \* verify-provenance demands a --tag, which release.yml omits
  None

ASSUME ReleaseAssumption ==
  /\ Host \in Assets /\ Assets \subseteq Targets
  /\ MaxAttempt \in Nat /\ TagRequired \in BOOLEAN
  /\ \A i \in DOMAIN Push : Push[i].mirror = [p \in DOMAIN Push[i].mirror |-> Push[i].mirror[p]]

VARIABLES
  push,         \* which push it is: the tag, its commit, and its source
  moved,        \* main of the mirror is no longer the tagged commit
  release,      \* attempt of the run, the status of its jobs, pc, verdict
  facts,        \* outputs of the jobs: attempts of the native run and artifacts
  work,         \* what the running job has on its disk
  store,        \* artifacts of the run, by name
  published,    \* the files of the GitHub release
  calm          \* "no", or what the operator re-runs once nothing else fails

relVars == <<push, moved, release, facts, work, store, published, calm>>
vars == <<runVars, relVars>>

Pushes == DOMAIN Push
ReleaseAttempts == 1..MaxAttempt
Prepare == {"state", "tree", "runs", "checks", "native", "download", "fetch", "attest", "handOn"}
Build == {"getInput", "validate", "pack", "upload"}
Publish == {"get", "verify", "create"}
JobOf(pc) == IF pc \in Prepare THEN "prepare" ELSE IF pc \in Build THEN "build" ELSE "publish"
JobNames == {"prepare", "build", "publish"}

\* Mutant: the name of the artifact does not have the attempt.
MutInputName(attempt) == <<"native-input">>

InputName(attempt) == <<"native-input", attempt>>

ReleaseName(attempt) == <<"release", attempt>>

NoFacts == [native |-> 0, input |-> 0, built |-> 0]
Unpublished == [top |-> None, ledger |-> None, files |-> <<>>]

Init ==
  /\ RunsInit
  /\ push \in Pushes
  /\ moved = FALSE
  /\ release = [attempt |-> 0, job |-> [j \in JobNames |-> "waiting"], pc |-> "idle", verdict |-> TRUE]
  /\ facts = NoFacts
  /\ work = None
  /\ store = <<>> /\ published = Unpublished
  /\ calm = "no"

-----------------------------------------------------------------------------
(* Steps of a job: on to the next step, or the job has failed. *)

At(pc) == release.pc = pc /\ UNCHANGED <<runVars, push, moved, calm>>

Go(pc) == release' = [release EXCEPT !.pc = pc]
Fail(verdict) ==
  release' = [release EXCEPT !.pc = "idle", !.job[JobOf(release.pc)] = "failed", !.verdict = verdict]
Done(next) ==
  release' = [release EXCEPT !.pc = next, !.job[JobOf(release.pc)] = "ok"]

\* One check of a script: if it does not hold, the script exits with an error.
Check(pc, holds, next) ==
  /\ At(pc)
  /\ IF holds THEN Go(next) /\ UNCHANGED work
     ELSE Fail(FALSE) /\ work' = None
  /\ UNCHANGED <<facts, store, published>>

\* A directory after a transfer: its manifest, its statement or an archive
\* may have been altered, or an archive lost.
Received(dir) ==
  {dir} \cup (IF calm # "no" THEN {} ELSE
    {[dir EXCEPT !.index.attempt = 0], [dir EXCEPT !.statement.attempt = 0]}
    \cup {[dir EXCEPT !.files = [s \in DOMAIN @ \ {t} |-> @[s]]] : t \in DOMAIN dir.files}
    \cup {[dir EXCEPT !.files[t].sound = FALSE] : t \in DOMAIN dir.files})

-----------------------------------------------------------------------------
(* prepare: release-provenance.py *)

\* validate_tag_state and parse_source_revision: a tag newly created, on the
\* mirror's current main, naming exactly one canonical commit of main.
NewTags == {i \in Pushes : Push[i].created /\ Push[i].trailers = 1 /\ Push[i].reachable}
ValidateTagState ==
  Check("state", push \in NewTags /\ ~moved, "tree")

\* parse_required_checks: names, and none of them twice.
ParsedChecks(names) == names # <<>> /\ Cardinality(ToSet(names)) = Len(names)

ComponentMap == <<".github", "components.json">>
RequiredChecks == <<"tools", "required-checks.json">>

\* The mirror's tree is the export of the source, under the component map
\* that is read from the mirror itself.
TreeVerified(mirror, source) ==
  /\ ComponentMap \in DOMAIN mirror
  /\ Extractable(source)
  /\ LET expected == ExpectedExportTree(source, "hop-sdk-go", mirror[ComponentMap].body)
     IN  expected # NoTree /\ SameTree(expected, mirror)
  /\ RequiredChecks \in DOMAIN source
  /\ ParsedChecks(source[RequiredChecks].body)

VerifiedPushes == {i \in Pushes : TreeVerified(Push[i].mirror, Push[i].source)}
VerifyTree == Check("tree", push \in VerifiedPushes, "runs")

\* select_workflow_run
SelectWorkflowRun == Check("runs", RunSucceeded, "checks")

\* Mutant: the names are compared, and not the results.
MutRequiredChecksPass(required, result) == ToSet(required) = DOMAIN result

\* verify_required_checks: the check runs are the required ones, and each has
\* succeeded, or was skipped where that is allowed.
RequiredChecksPass(required, result) ==
  /\ ToSet(required) = DOMAIN result
  /\ \A j \in DOMAIN result :
       result[j] \in IF j \in AlwaysJobs THEN {"success"} ELSE {"success", "skipped"}

Required == [i \in VerifiedPushes |-> Push[i].source[RequiredChecks].body]
VerifyRequiredChecks == Check("checks", RequiredChecksPass(Required[push], ci.result), "native")

\* select_native_run: its attempt is what the job goes on with.
SelectNativeRun ==
  /\ At("native")
  /\ IF native.status = "success"
     THEN Go("download") /\ facts' = [facts EXCEPT !.native = native.attempt]
     ELSE Fail(FALSE) /\ UNCHANGED facts
  /\ UNCHANGED <<work, store, published>>

-----------------------------------------------------------------------------
(* prepare: native-artifacts.py *)

BundleOf(n) ==
  Bundle(Sha, NativeTag, n, [t \in Targets |-> [target |-> t, attempt |-> n, sound |-> TRUE]])

\* download_github, its first call: the run must still be at that attempt, and
\* successful.  It may be re-run before the next call.
DownloadGithub ==
  Check("download", native = [attempt |-> facts.native, status |-> "success"], "fetch")

\* Its other calls: the artifact is listed under the attempt's name, has not
\* expired, and is downloaded.
FetchBundle ==
  /\ At("fetch")
  /\ \/ facts.native \in bundles /\ Go("attest") /\ work' \in Received(BundleOf(facts.native))
     \/ facts.native \notin bundles /\ Fail(FALSE) /\ UNCHANGED work
  /\ UNCHANGED <<facts, store, published>>

Bound == VerifyProvenance(work, Sha, facts.native)

VerifyBundle == Check("attest", Bound /\ ~TagRequired, "handOn")

\* An artifact can be uploaded once under a name.
Upload(pc, name, next) ==
  /\ At(pc)
  /\ IF name \notin DOMAIN store
     THEN /\ store' = [n \in DOMAIN store \cup {name} |-> IF n = name THEN work ELSE store[n]]
          /\ Done(next)
     ELSE Fail(FALSE) /\ UNCHANGED store
  /\ work' = None
  /\ UNCHANGED published

HandOn ==
  /\ Upload("handOn", InputName(release.attempt), "getInput")
  /\ facts' = [facts EXCEPT !.input = release.attempt]

-----------------------------------------------------------------------------
(* build *)

Get(pc, name, next) ==
  /\ At(pc)
  /\ \/ name \in DOMAIN store /\ Go(next) /\ work' \in Received(store[name])
     \/ name \notin DOMAIN store /\ Fail(FALSE) /\ UNCHANGED work
  /\ UNCHANGED <<facts, store, published>>

GetInput == Get("getInput", InputName(facts.input), "validate")

Header == <<"include", "hop.h">>
LIBRARY == {Header, <<"lib", "libhop.so">>, <<"THIRD-PARTY-NOTICES.md">>, <<"LICENSE.md">>}

\* validate_go: the bundle's host archive is signed and whole, the module's
\* zip is complete, and what hop-install installs from the one has the header
\* of the other.
ValidGo(dir, header) ==
  /\ VerifyRelease(dir, {Host}, FALSE)
  /\ LET installed == Reading(dir.files[Host]).tree
     IN  DOMAIN installed = LIBRARY /\ installed[Header].body = header

ModuleHeader ==
  [i \in {n \in Pushes : ModuleZipComplete(Push[n].mirror)} |-> Push[i].mirror[<<"hop.h">>].body]
ValidateGo ==
  Check("validate", push \in DOMAIN ModuleHeader /\ ValidGo(work, ModuleHeader[push]), "pack")

\* What a release directory holds: the native manifest, its signature and its
\* attestation, and the archives; artifact_files reads it back.
Top(dir) == [index |-> dir.index, seal |-> dir.seal, statement |-> dir.statement]
ArtifactFiles(dir) == [top |-> Top(dir), files |-> dir.files]

\* release-artifact.py create, over the archives that are published.
Create(dir, attempt) ==
  LET assets == [dir EXCEPT !.files = [t \in Assets |-> @[t]]]
  IN  [index |-> dir.index, seal |-> dir.seal, statement |-> dir.statement, files |-> assets.files,
       ledger |-> [source |-> Sha, attempt |-> attempt, inventory |-> ArtifactFiles(assets)]]

\* The sources are zipped, and the zip inspected, before anything is packed.
CleanSources == {i \in Pushes : SourceZipClean(Push[i].mirror)}

Pack ==
  /\ At("pack")
  /\ IF push \in CleanSources /\ WellFormed(work.index) /\ Assets \subseteq DOMAIN work.files
     THEN /\ Go("upload")
          /\ work' = Create(work, release.attempt)
     ELSE Fail(FALSE) /\ work' = None
  /\ UNCHANGED <<facts, store, published>>

UploadRelease ==
  /\ Upload("upload", ReleaseName(release.attempt), "get")
  /\ facts' = [facts EXCEPT !.built = release.attempt]

-----------------------------------------------------------------------------
(* publish *)

\* Mutant: the artifact of this attempt is asked for, not the build job's output.
MutGetRelease == Get("get", ReleaseName(release.attempt), "verify")

GetRelease == Get("get", ReleaseName(facts.built), "verify")

\* Mutant: the files are not compared with the inventory.
MutVerifyAssets(dir, source, attempt) == dir.ledger.source = source /\ dir.ledger.attempt = attempt

\* release-artifact.py verify: the assets of that source and that build, and
\* the files that its manifest lists, unchanged.
VerifyAssets(dir, source, attempt) ==
  /\ dir.ledger.source = source
  /\ dir.ledger.attempt = attempt
  /\ ArtifactFiles(dir) = dir.ledger.inventory

VerifyReleaseAssets == Check("verify", VerifyAssets(work, Sha, facts.built), "create")

\* The files that reach the release replace the ones of the same name (the
\* two manifests go together).
Overwrite(manifests, assets) ==
  published' = [top |-> IF manifests THEN Top(work) ELSE published.top,
                ledger |-> IF manifests THEN work.ledger ELSE published.ledger,
                files |-> [t \in DOMAIN published.files \cup assets |->
                             IF t \in assets THEN work.files[t] ELSE published.files[t]]]

CreateRelease ==
  /\ At("create")
  /\ Overwrite(TRUE, DOMAIN work.files)
  /\ Done("idle") /\ work' = None
  /\ UNCHANGED <<facts, store>>

CreateFails ==
  /\ At("create") /\ calm = "no"
  /\ \E manifests \in BOOLEAN, assets \in SUBSET DOMAIN work.files : Overwrite(manifests, assets)
  /\ Fail(TRUE) /\ work' = None
  /\ UNCHANGED <<facts, store>>

-----------------------------------------------------------------------------
(* The run and its surroundings *)

\* The run starts with the push; a completed run is re-run in full, or from
\* the job that failed.  The last attempt is kept for after the trouble.
Start(attempt, pc) ==
  /\ release.pc = "idle" /\ attempt <= MaxAttempt
  /\ attempt = MaxAttempt => calm # "no"
  /\ release' = [attempt |-> attempt, pc |-> pc, verdict |-> TRUE,
                 job |-> [j \in JobNames |->
                            IF release.job[j] = "ok" /\ pc # "state" THEN "ok" ELSE "waiting"]]
  /\ UNCHANGED <<runVars, push, moved, work, store, published, calm>>

TagPushed == release.attempt = 0 /\ Start(1, "state") /\ UNCHANGED facts

RerunAll ==
  /\ release.attempt > 0 /\ calm # "failed"
  /\ Start(release.attempt + 1, "state")
  /\ facts' = NoFacts

RerunFailed ==
  /\ release.attempt > 0 /\ calm # "all"
  /\ \E j \in JobNames :
       /\ release.job[j] = "failed"
       /\ Start(release.attempt + 1, CASE j = "prepare" -> "state" [] j = "build" -> "getInput" [] OTHER -> "get")
  /\ UNCHANGED facts

\* A runner, a call or a tool fails under a job.
RunnerFails ==
  /\ release.pc # "idle" /\ At(release.pc) /\ calm = "no"
  /\ Fail(TRUE) /\ work' = None
  /\ UNCHANGED <<facts, store, published>>

\* An input artifact is kept for a day.
InputExpires ==
  /\ calm = "no"
  /\ \E a \in ReleaseAttempts :
       /\ InputName(a) \in DOMAIN store
       /\ store' = [n \in DOMAIN store \ {InputName(a)} |-> store[n]]
  /\ UNCHANGED <<runVars, push, moved, release, facts, work, published, calm>>

MainMoves ==
  /\ calm = "no" /\ moved' = TRUE
  /\ UNCHANGED <<runVars, push, release, facts, work, store, published, calm>>

CalmDown ==
  /\ calm = "no" /\ release.attempt > 0 /\ calm' \in {"failed", "all"}
  /\ UNCHANGED <<runVars, push, moved, release, facts, work, store, published>>

CanonicalStep == calm = "no" /\ RunsNext /\ UNCHANGED relVars

JobStep ==
  \/ ValidateTagState \/ VerifyTree \/ SelectWorkflowRun \/ VerifyRequiredChecks
  \/ SelectNativeRun \/ DownloadGithub \/ FetchBundle \/ VerifyBundle \/ HandOn
  \/ GetInput \/ ValidateGo \/ Pack \/ UploadRelease
  \/ GetRelease \/ VerifyReleaseAssets \/ CreateRelease

Next ==
  \/ TagPushed \/ JobStep \/ CreateFails \/ RunnerFails
  \/ RerunAll \/ RerunFailed
  \/ InputExpires \/ MainMoves \/ CalmDown \/ CanonicalStep

Spec == Init /\ [][Next]_vars

\* GitHub runs the jobs; the operator re-runs the job that failed once there
\* is no more trouble.
FairSpec == Spec /\ WF_vars(JobStep) /\ WF_vars(calm = "failed" /\ RerunFailed)

-----------------------------------------------------------------------------
(* Properties *)

\* The variables have the values that the workflow can give them.
TypeOK ==
  /\ RunsTypeOK
  /\ push \in Pushes /\ moved \in BOOLEAN
  /\ release \in [attempt : 0..MaxAttempt, job : [JobNames -> {"waiting", "ok", "failed"}],
                  pc : {"idle"} \cup Prepare \cup Build \cup Publish, verdict : BOOLEAN]
  /\ facts \in [native : 0..MaxNative, input : 0..MaxAttempt, built : 0..MaxAttempt]
  /\ calm \in {"no", "failed", "all"}

\* Past the prepare job, the mirror's tree is the export of the canonical
\* source under the canonical component map, although the script reads the
\* map from the mirror, whose tree is what it is checking.
CanonicalMap(source) == source[<<"tools", "copybara", "components.json">>].body
Faithful ==
  {i \in Pushes :
     Push[i].mirror = ExpectedExportTree(Push[i].source, "hop-sdk-go", CanonicalMap(Push[i].source))}
MirrorIsExport == release.job["prepare"] = "ok" => push \in Faithful

\* The two reads of CI are two calls, and CI may be re-run between them: the
\* source is green when the second one is believed (verify_required_checks).
SourceWasGreen ==
  [][release.pc = "checks" /\ release'.pc = "native" => RunSucceeded]_vars

\* The bundle that prepare hands on is, whole, the one that the native run has
\* made at the attempt which release-provenance.py read, although that run may
\* be re-run before and after download_github looks at it again, and although
\* the download may have lost or altered any file of it.
HandedOnWhole ==
  release.job["prepare"] = "ok" /\ InputName(facts.input) \in DOMAIN store =>
    store[InputName(facts.input)] = BundleOf(facts.native)

\* What a finished publish job has published is, file for file, what the
\* build whose outputs it was given has packed, from the bundle of the native
\* attempt that this run's prepare job has read; the archive the build
\* installed is that attempt's.  Attempts of the run, of the native run, and
\* of an earlier publish that failed halfway are not mixed.
PublishedAsBuilt ==
  release.job["publish"] = "ok" =>
    LET built == store[ReleaseName(facts.built)] IN
    /\ published = [top |-> Top(built), ledger |-> built.ledger, files |-> built.files]
    /\ built.index = BundleOf(facts.native).index /\ built.seal = built.index
    /\ built.files[Host] = BundleOf(facts.native).files[Host]

\* An artifact outlives the attempt that has uploaded it, and its name cannot
\* be used again: whichever jobs are re-run, no upload is refused for it.
UploadsLand ==
  [][release.pc \in {"handOn", "upload"} => release'.verdict]_vars

\* Once there is no more trouble, re-running the failed publish job alone
\* publishes what an earlier attempt of the run has built.
Recovers ==
  (calm = "failed" /\ release.job["build"] = "ok" /\ release.pc = "idle"
     /\ release.job["publish"] = "failed" /\ release.attempt < MaxAttempt)
    ~> release.job["publish"] = "ok"

\* The workflow says of the bundle's tag that it is deliberately not compared
\* with the release's, and that the source, the signature, the attestation
\* and the run bind the bundle: a bundle so bound is not rejected.
BoundIsAccepted ==
  [][release.pc = "attest" /\ Bound => release'.verdict]_vars
=============================================================================
