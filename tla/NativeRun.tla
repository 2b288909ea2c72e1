----------------------------- MODULE NativeRun -----------------------------
(***************************************************************************)
(* The native-artifacts run of one canonical commit, as                    *)
(* native/native-artifacts.py drives it: authorize-ci reads the commit's   *)
(* CI run in four calls, the build groups upload one partial artifact for  *)
(* each attempt, download-partials picks the newest partial of each group  *)
(* and the bundle of the attempt is uploaded.  CI and the native run may   *)
(* be re-run, in full or in part, between any two steps.  The workflow     *)
(* file and GitHub are outside the repository.                             *)
(***************************************************************************)
EXTENDS SourceCI

CONSTANTS
  AuthJobs,     \* CI_AUTHORIZATION_JOBS
  Groups,       \* the groups of PARTIAL_ARTIFACT_TARGETS
  MaxNative     \* bound on the attempts of the native run

ASSUME AuthAssumption ==
  /\ Gate \in AuthJobs /\ AuthJobs \subseteq Jobs
  /\ Groups # {} /\ MaxNative \in Nat

VARIABLES
  stamp,        \* the run_attempt the jobs API shows for each CI job
  run,          \* attempt of the native run, and where authorize-ci is
  seen,         \* the CI run as authorize-ci read it the second time
  group,        \* how the build of each group stands
  assembly,     \* how the assembling job stands
  partials,     \* partial artifacts: <<group, attempt>>
  expired,      \* those GitHub no longer hands out
  bundle,       \* attempt -> the attempt each group was taken from
  lost,         \* bundles that have expired
  last,         \* history: the attempt that last built each group
  cleared       \* history: CI of the commit has been green

ciVars == <<ci, stamp, cleared>>
buildVars == <<group, assembly, partials, expired, bundle, lost, last>>
vars == <<ciVars, run, seen, buildVars>>

Attempts == 1..MaxNative
AuthSteps == {"idle", "select", "watch", "requery", "jobs", "passed", "failed"}
Ends == {"waiting", "ok", "failed"}

\* Every variable holds what the scripts and the workflow can put in it.
TypeOK ==
  /\ CITypeOK
  /\ stamp \in [Jobs -> 0..MaxCI]
  /\ run \in [attempt : 0..MaxNative, auth : AuthSteps]
  /\ seen \in [attempt : 0..MaxCI, green : BOOLEAN]
  /\ group \in [Groups -> Ends] /\ assembly \in Ends
  /\ partials \subseteq Groups \X Attempts /\ expired \subseteq partials
  /\ DOMAIN bundle \subseteq Attempts /\ lost \subseteq DOMAIN bundle
  /\ last \in [Groups -> 0..MaxNative]
  /\ cleared \in BOOLEAN

Init ==
  /\ CIInit
  /\ stamp = [j \in Jobs |-> 0]
  /\ run = [attempt |-> 0, auth |-> "idle"]
  /\ seen = [attempt |-> 0, green |-> FALSE]
  /\ group = [g \in Groups |-> "waiting"] /\ assembly = "waiting"
  /\ partials = {} /\ expired = {} /\ bundle = <<>> /\ lost = {}
  /\ last = [g \in Groups |-> 0]
  /\ cleared = FALSE

-----------------------------------------------------------------------------
(* The CI run.  GitHub shows a job that a re-run has carried over either   *)
(* with its own attempt or with the new one.                               *)

CIStep ==
  /\ CINext
  /\ stamp' \in [Jobs -> 0..MaxCI]
  /\ \A j \in Jobs :
       IF ci'.attempt = ci.attempt THEN stamp'[j] = stamp[j]
       ELSE \/ stamp'[j] = ci'.attempt
            \/ ci'.result[j] # "pending" /\ stamp'[j] = stamp[j]
  /\ cleared' = (cleared \/ RunSucceeded')
  /\ UNCHANGED <<run, seen, buildVars>>

-----------------------------------------------------------------------------
(* authorize-ci *)

NativeStart ==
  /\ run.attempt = 0 /\ MaxNative > 0
  /\ run' = [attempt |-> 1, auth |-> "select"]
  /\ UNCHANGED <<ciVars, seen, buildVars>>

\* Mutant: what a step of authorize-ci reports is not looked at.
MutAuthorize(s, passes, t) ==
  /\ run.auth = s
  /\ run' = [run EXCEPT !.auth = t]
  /\ UNCHANGED <<ciVars, buildVars>>

\* Reports that step s of authorize-ci passed, to go on with t, or failed.
Authorize(s, passes, t) ==
  /\ run.auth = s
  /\ run' = [run EXCEPT !.auth = IF passes THEN t ELSE "failed"]
  /\ UNCHANGED <<ciVars, buildVars>>

\* select_ci_run: exactly one CI run of the commit, which may not be there yet.
SelectRun == Authorize("select", ci.attempt > 0, "watch") /\ UNCHANGED seen

\* gh run watch --exit-status returns once the run has completed.
WatchRun == Completed /\ Authorize("watch", RunSucceeded, "requery") /\ UNCHANGED seen

QueryAgain ==
  /\ Authorize("requery", ci.attempt > 0, "jobs")
  /\ seen' = [attempt |-> ci.attempt, green |-> RunSucceeded]

\* Mutant: the attempt that each job carries is not compared.
MutAuthorized(r, result, of) == r.green /\ \A j \in AuthJobs : result[j] = "success"

\* validate_ci_authorization, on the run read before and the jobs read now.
Authorized(r, result, of) ==
  /\ r.green
  /\ \A j \in AuthJobs : result[j] = "success" /\ of[j] = r.attempt

ReadJobs == Authorize("jobs", Authorized(seen, ci.result, stamp), "passed") /\ UNCHANGED seen

\* An API call, gh or the runner fails under authorize-ci.
AuthorizeLost ==
  /\ run.auth \in {"select", "watch", "requery", "jobs"}
  /\ run' = [run EXCEPT !.auth = "failed"]
  /\ UNCHANGED <<ciVars, seen, buildVars>>

-----------------------------------------------------------------------------
(* The builds, and the bundle made of their partial artifacts. *)

GroupBuilt(g) ==
  /\ run.auth = "passed" /\ group[g] = "waiting"
  /\ group' = [group EXCEPT ![g] = "ok"]
  /\ partials' = partials \cup {<<g, run.attempt>>}
  /\ last' = [last EXCEPT ![g] = run.attempt]
  /\ UNCHANGED <<ciVars, run, seen, assembly, expired, bundle, lost>>

GroupFails(g) ==
  /\ run.auth = "passed" /\ group[g] = "waiting"
  /\ group' = [group EXCEPT ![g] = "failed"]
  /\ UNCHANGED <<ciVars, run, seen, assembly, partials, expired, bundle, lost, last>>

AttemptsOf(g) == {n \in Attempts : <<g, n>> \in partials}

\* Mutant: the oldest partial of the group is taken.
MutNewest(g) == CHOOSE n \in AttemptsOf(g) : \A k \in AttemptsOf(g) : n <= k

\* select_partial_artifacts takes the newest partial of each group, and
\* rejects a group without one, one of a later attempt, and an expired one.
Newest(g) == CHOOSE n \in AttemptsOf(g) : \A k \in AttemptsOf(g) : k <= n

Selectable ==
  \A g \in Groups :
    /\ AttemptsOf(g) # {} /\ AttemptsOf(g) \subseteq 1..run.attempt
    /\ <<g, Newest(g)>> \notin expired

\* download-partials and the upload of the attempt's bundle.
Assemble ==
  /\ assembly = "waiting" /\ \A g \in Groups : group[g] = "ok"
  /\ Selectable
  /\ assembly' = "ok"
  /\ bundle' = [n \in DOMAIN bundle \cup {run.attempt} |->
                  IF n = run.attempt THEN [g \in Groups |-> Newest(g)] ELSE bundle[n]]
  /\ UNCHANGED <<ciVars, run, seen, group, partials, expired, lost, last>>

AssemblyFails ==
  /\ assembly = "waiting" /\ \A g \in Groups : group[g] = "ok"
  /\ assembly' = "failed"
  /\ UNCHANGED <<ciVars, run, seen, group, partials, expired, bundle, lost, last>>

Expires ==
  /\ \/ \E p \in partials \ expired : expired' = expired \cup {p} /\ UNCHANGED lost
     \/ \E n \in DOMAIN bundle \ lost : lost' = lost \cup {n} /\ UNCHANGED expired
  /\ UNCHANGED <<ciVars, run, seen, group, assembly, partials, bundle, last>>

-----------------------------------------------------------------------------
Over ==
  \/ run.auth = "failed"
  \/ /\ run.auth = "passed" /\ \A g \in Groups : group[g] # "waiting"
     /\ assembly # "waiting" \/ \E g \in Groups : group[g] = "failed"

Status ==
  IF run.attempt = 0 THEN "none"
  ELSE IF ~Over THEN "running"
  ELSE IF assembly = "ok" THEN "success" ELSE "failure"

Failed == {g \in Groups : group[g] = "failed"}

\* GitHub re-runs a completed run in full, its failed jobs, or one job, and
\* always what depends on them: the bundle depends on every group, and
\* every group on the authorization.
Rerun(again) ==
  /\ run.attempt > 0 /\ Over /\ run.attempt < MaxNative
  /\ group' = [g \in Groups |-> IF g \in again THEN "waiting" ELSE group[g]]
  /\ assembly' = "waiting"
  /\ UNCHANGED <<ciVars, seen, partials, expired, bundle, lost, last>>

RerunAll ==
  /\ Rerun(Groups)
  /\ run' = [attempt |-> run.attempt + 1, auth |-> "select"]

RerunSome(again) ==
  /\ run.auth = "passed" /\ Rerun(again)
  /\ again = Failed \/ Cardinality(again) = 1
  /\ run' = [run EXCEPT !.attempt = run.attempt + 1]

Next ==
  \/ CIStep
  \/ NativeStart \/ SelectRun \/ WatchRun \/ QueryAgain \/ ReadJobs \/ AuthorizeLost
  \/ \E g \in Groups : GroupBuilt(g) \/ GroupFails(g)
  \/ Assemble \/ AssemblyFails \/ Expires
  \/ RerunAll \/ \E again \in SUBSET Groups : RerunSome(again)

Spec == Init /\ [][Next]_vars

-----------------------------------------------------------------------------
(* Properties *)

\* What the release pipeline may rely on: the native run succeeds only for a
\* commit whose CI has been green, and leaves the bundle of that attempt.
Contract == INSTANCE CanonicalRuns WITH
  native <- [attempt |-> run.attempt, status |-> Status],
  bundles <- DOMAIN bundle \ lost
ImplementsContract == Contract!RunsSpec

\* authorize_ci passes only while CI is green, on the attempt of the CI run
\* that is the latest at that moment: a re-run that slips in between its four
\* calls, whatever jobs it repeats, is noticed.
AuthorizesLatest ==
  [][run.auth = "jobs" /\ run'.auth = "passed" => RunSucceeded /\ seen.attempt = ci.attempt]_vars

\* A bundle is made, for each group, of the last build of that group that
\* ended, however many times the run was re-run in part or in full
\* (select_partial_artifacts), and every such build followed an authorization.
BundlesNewest ==
  [][\A n \in DOMAIN bundle' \ DOMAIN bundle : cleared /\ bundle'[n] = last]_vars
=============================================================================
