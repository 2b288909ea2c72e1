------------------------------ MODULE SourceCI ------------------------------
(***************************************************************************)
(* The CI workflow run of one canonical commit, as the release tools read  *)
(* it through the GitHub API: one run, re-run at most MaxCI - 1 times,     *)
(* with the result of the latest execution of each of its jobs.  A re-run  *)
(* repeats some jobs and whatever depends on them; the gate depends on     *)
(* every job.  GitHub and ci.yml are outside the repository: this is what  *)
(* release-provenance.py and native-artifacts.py take for granted.         *)
(***************************************************************************)
EXTENDS Naturals, FiniteSets

CONSTANTS
  Jobs,         \* the jobs of ci.yml, which are also its check runs
  Gate,         \* "CI gate", which needs all the others
  AlwaysJobs,   \* the jobs that no path filter skips
  MaxCI         \* bound on the attempts of the run

ASSUME CIAssumption == Gate \in AlwaysJobs /\ AlwaysJobs \subseteq Jobs /\ MaxCI \in Nat

VARIABLE ci     \* attempt (0: no run yet) and result of each job

Results == {"pending", "success", "skipped", "failure"}

Completed == ci.attempt > 0 /\ \A j \in Jobs : ci.result[j] # "pending"
RunSucceeded == Completed /\ \A j \in Jobs : ci.result[j] # "failure"

CITypeOK == ci \in [attempt : 0..MaxCI, result : [Jobs -> Results]]

CIInit == ci = [attempt |-> 0, result |-> [j \in Jobs |-> "pending"]]

CIStart ==
  /\ ci.attempt = 0 /\ MaxCI > 0
  /\ ci' = [ci EXCEPT !.attempt = 1]

\* A job ends; only those of AlwaysJobs cannot be skipped.
CIJobEnds(j, r) ==
  /\ ci.attempt > 0 /\ j # Gate /\ ci.result[j] = "pending"
  /\ r \in Results \ {"pending"}
  /\ j \in AlwaysJobs => r # "skipped"
  /\ ci' = [ci EXCEPT !.result[j] = r]

\* The gate runs last and fails exactly when another job has failed.
CIGateEnds ==
  /\ ci.attempt > 0 /\ ci.result[Gate] = "pending"
  /\ \A j \in Jobs \ {Gate} : ci.result[j] # "pending"
  /\ ci' = [ci EXCEPT !.result[Gate] =
              IF \E j \in Jobs \ {Gate} : ci.result[j] = "failure" THEN "failure" ELSE "success"]

CIRerun(again) ==
  /\ Completed /\ ci.attempt < MaxCI
  /\ Gate \in again /\ again \subseteq Jobs
  /\ ci' = [attempt |-> ci.attempt + 1,
            result |-> [j \in Jobs |-> IF j \in again THEN "pending" ELSE ci.result[j]]]

CINext ==
  \/ CIStart \/ CIGateEnds
  \/ \E j \in Jobs, r \in Results : CIJobEnds(j, r)
  \/ \E again \in SUBSET Jobs : CIRerun(again)
=============================================================================
