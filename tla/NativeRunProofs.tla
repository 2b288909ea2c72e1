-------------------------- MODULE NativeRunProofs --------------------------
(***************************************************************************)
(* What holds of NativeRun for any jobs, groups and numbers of attempts.   *)
(* The gate of CI makes the four reads of authorize-ci safe: a re-run      *)
(* always runs it again, and it succeeds last (GateLast).  The partial     *)
(* artifacts make a mixed bundle the right one: the newest of a group is   *)
(* the one that was built last (LastBuilds).                               *)
(***************************************************************************)
EXTENDS NativeRun, FiniteSetTheorems, TLAPS

\* The gate has the attempt of the run, and has succeeded only after the
\* others; a run that has ever succeeded is remembered.
GateLast ==
  /\ stamp[Gate] = ci.attempt
  /\ ci.attempt = 0 => \A j \in Jobs : ci.result[j] = "pending"
  /\ ci.result[Gate] = "success" =>
       ci.attempt > 0 /\ \A j \in Jobs : ci.result[j] \notin {"pending", "failure"}
  /\ RunSucceeded => cleared
  /\ run.auth = "passed" => cleared

\* No partial artifact is of an attempt after the last build of its group.
LastBuilds ==
  \A g \in Groups :
    /\ last[g] <= run.attempt
    /\ last[g] > 0 => <<g, last[g]>> \in partials
    /\ \A n \in Attempts : <<g, n>> \in partials => n <= last[g]

\* The jobs of an attempt run in the order of their needs, and an attempt
\* has its bundle only once it has assembled it.
InOrder ==
  /\ run.auth = "idle" <=> run.attempt = 0
  /\ \A g \in Groups : run.auth \notin {"passed"} => group[g] = "waiting"
  /\ \A g \in Groups : group[g] = "ok" => last[g] > 0
  /\ assembly # "waiting" => \A g \in Groups : group[g] = "ok"
  /\ DOMAIN bundle \subseteq 1..run.attempt
  /\ run.attempt \in DOMAIN bundle => assembly = "ok"

IInv == TypeOK /\ GateLast /\ LastBuilds /\ InOrder

LEMMA InitInv == Init => IInv
<1> SUFFICES ASSUME Init PROVE IInv
  OBVIOUS
<1> USE CIAssumption, AuthAssumption DEF Init, CIInit
<1>1. DOMAIN bundle = {}
  <2>1. DOMAIN bundle = 1..0
    BY DEF Init
  <2>2. 1..0 = {}
    BY SMT
  <2> QED
    BY <2>1, <2>2
<1>2. TypeOK
  <2>1. CITypeOK
    BY DEF CITypeOK, Results
  <2>2. run \in [attempt : 0..MaxNative, auth : AuthSteps] /\ seen \in [attempt : 0..MaxCI, green : BOOLEAN]
    BY DEF AuthSteps
  <2>3. /\ stamp \in [Jobs -> 0..MaxCI] /\ last \in [Groups -> 0..MaxNative]
        /\ group \in [Groups -> Ends] /\ assembly \in Ends
    BY DEF Ends
  <2>4. DOMAIN bundle \subseteq Attempts /\ lost \subseteq DOMAIN bundle
    BY <1>1
  <2> QED
    BY <2>1, <2>2, <2>3, <2>4 DEF TypeOK
<1>3. GateLast
  BY DEF GateLast, RunSucceeded, Completed
<1>4. LastBuilds
  BY DEF LastBuilds
<1>5. InOrder
  BY <1>1 DEF InOrder
<1> QED
  BY <1>2, <1>3, <1>4, <1>5 DEF IInv

LEMMA TypeStep == TypeOK /\ InOrder /\ [Next]_vars => TypeOK'
<1> SUFFICES ASSUME TypeOK, InOrder, [Next]_vars PROVE TypeOK'
  OBVIOUS
<1> USE CIAssumption, AuthAssumption DEF vars, ciVars, buildVars, TypeOK, CITypeOK, Results, Attempts, AuthSteps, Ends
<1>1. ASSUME CIStep PROVE TypeOK'
  BY <1>1 DEF CIStep, CINext, CIStart, CIJobEnds, CIGateEnds, CIRerun
<1>2. ASSUME NativeStart PROVE TypeOK'
  BY <1>2 DEF NativeStart
<1>3. ASSUME SelectRun PROVE TypeOK'
  BY <1>3 DEF SelectRun, Authorize
<1>4. ASSUME WatchRun PROVE TypeOK'
  BY <1>4 DEF WatchRun, Authorize
<1>5. ASSUME QueryAgain PROVE TypeOK'
  <2>1. RunSucceeded \in BOOLEAN
    BY DEF RunSucceeded, Completed
  <2> QED
    BY <1>5, <2>1 DEF QueryAgain, Authorize
<1>6. ASSUME ReadJobs PROVE TypeOK'
  BY <1>6 DEF ReadJobs, Authorize, Authorized
<1>7. ASSUME AuthorizeLost PROVE TypeOK'
  BY <1>7 DEF AuthorizeLost
<1>8. ASSUME NEW g \in Groups, GroupBuilt(g) PROVE TypeOK'
  <2>1. run.attempt \in Attempts
    BY <1>8 DEF GroupBuilt, InOrder
  <2> QED
    BY <1>8, <2>1 DEF GroupBuilt
<1>9. ASSUME NEW g \in Groups, GroupFails(g) PROVE TypeOK'
  BY <1>9 DEF GroupFails
<1>10. ASSUME Assemble PROVE TypeOK'
  <2>1. PICK g \in Groups : group[g] = "ok"
    BY <1>10 DEF Assemble
  <2>2. run.attempt \in Attempts
    BY <2>1 DEF InOrder
  <2>3. DOMAIN bundle' = DOMAIN bundle \cup {run.attempt}
    BY <1>10 DEF Assemble
  <2> QED
    BY <1>10, <2>2, <2>3 DEF Assemble
<1>11. ASSUME AssemblyFails PROVE TypeOK'
  BY <1>11 DEF AssemblyFails
<1>12. ASSUME Expires PROVE TypeOK'
  BY <1>12 DEF Expires
<1>13. ASSUME RerunAll PROVE TypeOK'
  BY <1>13 DEF RerunAll, Rerun, Over
<1>14. ASSUME NEW again \in SUBSET Groups, RerunSome(again) PROVE TypeOK'
  BY <1>14 DEF RerunSome, Rerun, Over
<1>15. CASE UNCHANGED vars
  BY <1>15
<1> QED
  BY <1>1, <1>2, <1>3, <1>4, <1>5, <1>6, <1>7, <1>8, <1>9, <1>10, <1>11, <1>12, <1>13, <1>14, <1>15 DEF Next

LEMMA GateStep == TypeOK /\ GateLast /\ [Next]_vars => GateLast'
<1> SUFFICES ASSUME TypeOK /\ GateLast, [Next]_vars PROVE GateLast'
  OBVIOUS
<1> USE CIAssumption, AuthAssumption DEF vars, ciVars, buildVars, TypeOK, CITypeOK, Results, Attempts, AuthSteps, Ends, GateLast, RunSucceeded, Completed
<1>1. ASSUME CIStep PROVE GateLast'
  <2>1. stamp'[Gate] = ci'.attempt
    <3>1. ci'.attempt = ci.attempt \/ ci'.result[Gate] = "pending"
      <4>1. CASE CIStart
        BY <4>1 DEF CIStart
      <4>2. CASE \E j \in Jobs, r \in Results : CIJobEnds(j, r)
        BY <4>2 DEF CIJobEnds
      <4>3. CASE CIGateEnds
        BY <4>3 DEF CIGateEnds
      <4>4. CASE \E again \in SUBSET Jobs : CIRerun(again)
        BY <4>4 DEF CIRerun
      <4> QED
        BY <1>1, <4>1, <4>2, <4>3, <4>4 DEF CIStep, CINext
    <3>2. IF ci'.attempt = ci.attempt THEN stamp'[Gate] = stamp[Gate]
          ELSE \/ stamp'[Gate] = ci'.attempt
               \/ ci'.result[Gate] # "pending" /\ stamp'[Gate] = stamp[Gate]
      BY <1>1 DEF CIStep
    <3> QED
      BY <3>1, <3>2
  <2>2. cleared' = (cleared \/ RunSucceeded') /\ UNCHANGED run
    BY <1>1 DEF CIStep
  <2>3. CASE CIStart
    <3>1. ci.attempt = 0 /\ ci'.attempt = 1 /\ ci'.result = ci.result
      BY <2>3 DEF CIStart
    <3>2. ci'.result[Gate] # "success"
      BY <3>1
    <3> QED
      BY <2>1, <2>2, <3>1, <3>2
  <2>4. CASE \E j \in Jobs, r \in Results : CIJobEnds(j, r)
    <3>1. PICK j \in Jobs, r \in Results : CIJobEnds(j, r)
      BY <2>4
    <3>2. /\ ci'.result[Gate] = ci.result[Gate] /\ ci.result[j] = "pending"
          /\ ci'.attempt # 0
      BY <3>1 DEF CIJobEnds
    <3>3. ci'.result[Gate] # "success"
      BY <3>2
    <3> QED
      BY <2>1, <2>2, <3>2, <3>3
  <2>5. CASE CIGateEnds
    <3>1. ci'.attempt \in Nat /\ ci'.attempt > 0
      BY <2>5 DEF CIGateEnds
    <3>2. /\ \A j \in Jobs \ {Gate} : ci'.result[j] = ci.result[j] /\ ci.result[j] # "pending"
          /\ ci'.result[Gate] = "success" => \A j \in Jobs \ {Gate} : ci.result[j] # "failure"
      BY <2>5 DEF CIGateEnds
    <3>3. ci'.result[Gate] = "success" => \A j \in Jobs : ci'.result[j] \notin {"pending", "failure"}
      BY <3>2
    <3>4. (RunSucceeded' => cleared') /\ (run'.auth = "passed" => cleared')
      BY <2>2
    <3> QED
      BY <2>1, <3>1, <3>3, <3>4
  <2>6. CASE \E again \in SUBSET Jobs : CIRerun(again)
    BY <2>1, <2>2, <2>6 DEF CIRerun
  <2> QED
    BY <1>1, <2>3, <2>4, <2>5, <2>6 DEF CIStep, CINext
<1>2. ASSUME NativeStart PROVE GateLast'
  BY <1>2 DEF NativeStart
<1>3. ASSUME SelectRun PROVE GateLast'
  BY <1>3 DEF SelectRun, Authorize
<1>4. ASSUME WatchRun PROVE GateLast'
  BY <1>4 DEF WatchRun, Authorize
<1>5. ASSUME QueryAgain PROVE GateLast'
  BY <1>5 DEF QueryAgain, Authorize
<1>6. ASSUME ReadJobs PROVE GateLast'
  BY <1>6 DEF ReadJobs, Authorize, Authorized
<1>7. ASSUME AuthorizeLost PROVE GateLast'
  BY <1>7 DEF AuthorizeLost
<1>8. ASSUME NEW g \in Groups, GroupBuilt(g) PROVE GateLast'
  BY <1>8 DEF GroupBuilt
<1>9. ASSUME NEW g \in Groups, GroupFails(g) PROVE GateLast'
  BY <1>9 DEF GroupFails
<1>10. ASSUME Assemble PROVE GateLast'
  BY <1>10 DEF Assemble, Selectable
<1>11. ASSUME AssemblyFails PROVE GateLast'
  BY <1>11 DEF AssemblyFails
<1>12. ASSUME Expires PROVE GateLast'
  BY <1>12 DEF Expires
<1>13. ASSUME RerunAll PROVE GateLast'
  BY <1>13 DEF RerunAll, Rerun, Over
<1>14. ASSUME NEW again \in SUBSET Groups, RerunSome(again) PROVE GateLast'
  BY <1>14 DEF RerunSome, Rerun, Over
<1>15. CASE UNCHANGED vars
  BY <1>15
<1> QED
  BY <1>1, <1>2, <1>3, <1>4, <1>5, <1>6, <1>7, <1>8, <1>9, <1>10, <1>11, <1>12, <1>13, <1>14, <1>15 DEF Next

LEMMA LastStep == TypeOK /\ LastBuilds /\ [Next]_vars => LastBuilds'
<1> SUFFICES ASSUME TypeOK /\ LastBuilds, [Next]_vars PROVE LastBuilds'
  OBVIOUS
<1> USE CIAssumption, AuthAssumption DEF vars, ciVars, buildVars, TypeOK, CITypeOK, Results, Attempts, AuthSteps, Ends, LastBuilds
<1>1. ASSUME CIStep PROVE LastBuilds'
  BY <1>1 DEF CIStep, CINext, CIStart, CIJobEnds, CIGateEnds, CIRerun
<1>2. ASSUME NativeStart PROVE LastBuilds'
  BY <1>2 DEF NativeStart
<1>3. ASSUME SelectRun PROVE LastBuilds'
  BY <1>3 DEF SelectRun, Authorize
<1>4. ASSUME WatchRun PROVE LastBuilds'
  BY <1>4 DEF WatchRun, Authorize
<1>5. ASSUME QueryAgain PROVE LastBuilds'
  BY <1>5 DEF QueryAgain, Authorize
<1>6. ASSUME ReadJobs PROVE LastBuilds'
  BY <1>6 DEF ReadJobs, Authorize, Authorized
<1>7. ASSUME AuthorizeLost PROVE LastBuilds'
  BY <1>7 DEF AuthorizeLost
<1>8. ASSUME NEW g \in Groups, GroupBuilt(g) PROVE LastBuilds'
  <2> SUFFICES ASSUME NEW h \in Groups
               PROVE  /\ last'[h] <= run'.attempt
                      /\ last'[h] > 0 => <<h, last'[h]>> \in partials'
                      /\ \A n \in Attempts : <<h, n>> \in partials' => n <= last'[h]
    OBVIOUS
  <2>1. CASE h = g
    <3>1. run' = run /\ last'[h] = run.attempt /\ partials' = partials \cup {<<g, run.attempt>>}
      BY <1>8, <2>1 DEF GroupBuilt
    <3>2. ASSUME NEW n \in Attempts, <<h, n>> \in partials' PROVE n <= run.attempt
      <4>1. <<h, n>> \in partials \/ n = run.attempt
        BY <3>1, <3>2
      <4>2. last[h] <= run.attempt /\ (<<h, n>> \in partials => n <= last[h])
        BY <3>2
      <4>3. n \in Nat /\ last[h] \in Nat /\ run.attempt \in Nat
        BY <3>2
      <4> QED
        BY <4>1, <4>2, <4>3
    <3> QED
      BY <2>1, <3>1, <3>2
  <2>2. CASE h # g
    BY <1>8, <2>2 DEF GroupBuilt
  <2> QED
    BY <2>1, <2>2
<1>9. ASSUME NEW g \in Groups, GroupFails(g) PROVE LastBuilds'
  BY <1>9 DEF GroupFails
<1>10. ASSUME Assemble PROVE LastBuilds'
  BY <1>10 DEF Assemble, Selectable
<1>11. ASSUME AssemblyFails PROVE LastBuilds'
  BY <1>11 DEF AssemblyFails
<1>12. ASSUME Expires PROVE LastBuilds'
  BY <1>12 DEF Expires
<1>13. ASSUME RerunAll PROVE LastBuilds'
  BY <1>13 DEF RerunAll, Rerun, Over
<1>14. ASSUME NEW again \in SUBSET Groups, RerunSome(again) PROVE LastBuilds'
  BY <1>14 DEF RerunSome, Rerun, Over
<1>15. CASE UNCHANGED vars
  BY <1>15
<1> QED
  BY <1>1, <1>2, <1>3, <1>4, <1>5, <1>6, <1>7, <1>8, <1>9, <1>10, <1>11, <1>12, <1>13, <1>14, <1>15 DEF Next

LEMMA OrderStep == TypeOK /\ InOrder /\ [Next]_vars => InOrder'
<1> SUFFICES ASSUME TypeOK /\ InOrder, [Next]_vars PROVE InOrder'
  OBVIOUS
<1> USE CIAssumption, AuthAssumption DEF vars, ciVars, buildVars, TypeOK, CITypeOK, Results, Attempts, AuthSteps, Ends, InOrder
<1>1. ASSUME CIStep PROVE InOrder'
  BY <1>1 DEF CIStep, CINext, CIStart, CIJobEnds, CIGateEnds, CIRerun
<1>2. ASSUME NativeStart PROVE InOrder'
  BY <1>2 DEF NativeStart
<1>3. ASSUME SelectRun PROVE InOrder'
  BY <1>3 DEF SelectRun, Authorize
<1>4. ASSUME WatchRun PROVE InOrder'
  BY <1>4 DEF WatchRun, Authorize
<1>5. ASSUME QueryAgain PROVE InOrder'
  BY <1>5 DEF QueryAgain, Authorize
<1>6. ASSUME ReadJobs PROVE InOrder'
  BY <1>6 DEF ReadJobs, Authorize, Authorized
<1>7. ASSUME AuthorizeLost PROVE InOrder'
  BY <1>7 DEF AuthorizeLost
<1>8. ASSUME NEW g \in Groups, GroupBuilt(g) PROVE InOrder'
  BY <1>8 DEF GroupBuilt
<1>9. ASSUME NEW g \in Groups, GroupFails(g) PROVE InOrder'
  BY <1>9 DEF GroupFails
<1>10. ASSUME Assemble PROVE InOrder'
  BY <1>10 DEF Assemble, Selectable
<1>11. ASSUME AssemblyFails PROVE InOrder'
  BY <1>11 DEF AssemblyFails
<1>12. ASSUME Expires PROVE InOrder'
  BY <1>12 DEF Expires
<1>13. ASSUME RerunAll PROVE InOrder'
  BY <1>13 DEF RerunAll, Rerun, Over
<1>14. ASSUME NEW again \in SUBSET Groups, RerunSome(again) PROVE InOrder'
  BY <1>14 DEF RerunSome, Rerun, Over
<1>15. CASE UNCHANGED vars
  BY <1>15
<1> QED
  BY <1>1, <1>2, <1>3, <1>4, <1>5, <1>6, <1>7, <1>8, <1>9, <1>10, <1>11, <1>12, <1>13, <1>14, <1>15 DEF Next

LEMMA Always == Spec => []IInv
<1>1. IInv /\ [Next]_vars => IInv'
  BY TypeStep, GateStep, LastStep, OrderStep DEF IInv
<1> QED
  BY InitInv, <1>1, PTL DEF Spec

(***************************************************************************)
(* No step of the scripts, in any order with re-runs of either run, leaves *)
(* a variable outside its type: no partial artifact of an attempt that has *)
(* not been, and no bundle handed out that was not made.                   *)
(***************************************************************************)
THEOREM TypesHold == Spec => []TypeOK
<1>1. IInv => TypeOK
  BY DEF IInv
<1> QED
  BY Always, <1>1, PTL

(***************************************************************************)
(* authorize_ci passes only while CI is green on its latest attempt, for   *)
(* any jobs, whichever of them the authorization reads beside the gate.    *)
(***************************************************************************)
THEOREM LatestAuthorized == Spec => AuthorizesLatest
<1>1. ASSUME IInv, [Next]_vars
      PROVE  [run.auth = "jobs" /\ run'.auth = "passed" => RunSucceeded /\ seen.attempt = ci.attempt]_vars
  <2> SUFFICES ASSUME run.auth = "jobs", run'.auth = "passed"
               PROVE  RunSucceeded /\ seen.attempt = ci.attempt
    OBVIOUS
  <2> USE CIAssumption, AuthAssumption DEF IInv, TypeOK, CITypeOK, AuthSteps
  <2>1. ReadJobs
    BY <1>1 DEF Next, vars, ciVars, buildVars, CIStep, NativeStart, SelectRun, WatchRun, QueryAgain, Authorize,
                AuthorizeLost, GroupBuilt, GroupFails, Assemble, AssemblyFails, Expires, RerunAll, RerunSome,
                Rerun, Over
  <2>2. Authorized(seen, ci.result, stamp)
    BY <2>1 DEF ReadJobs, Authorize
  <2>3. ci.result[Gate] = "success" /\ stamp[Gate] = seen.attempt
    BY <2>2 DEF Authorized
  <2> QED
    BY <1>1, <2>3 DEF GateLast, RunSucceeded, Completed
<1> QED
  BY Always, <1>1, PTL DEF Spec, AuthorizesLatest

(***************************************************************************)
(* select_partial_artifacts makes a bundle of the last build of every      *)
(* group, after an authorization, for any number of partial re-runs.       *)
(***************************************************************************)
THEOREM NewestBundled == Spec => BundlesNewest
<1>1. ASSUME IInv, [Next]_vars
      PROVE  [\A n \in DOMAIN bundle' \ DOMAIN bundle : cleared /\ bundle'[n] = last]_vars
  <2> SUFFICES ASSUME NEW n \in DOMAIN bundle', n \notin DOMAIN bundle
               PROVE  cleared /\ bundle'[n] = last
    OBVIOUS
  <2> USE CIAssumption, AuthAssumption DEF IInv, TypeOK, Attempts, Ends
  <2>1. Assemble
    BY <1>1 DEF Next, vars, ciVars, buildVars, CIStep, NativeStart, SelectRun, WatchRun, QueryAgain, ReadJobs,
                Authorize, AuthorizeLost, GroupBuilt, GroupFails, AssemblyFails, Expires, RerunAll, RerunSome, Rerun
  <2>2. n = run.attempt /\ bundle'[n] = [g \in Groups |-> Newest(g)]
    BY <2>1 DEF Assemble
  <2>3. cleared
    BY <1>1, <2>1 DEF Assemble, InOrder, GateLast
  <2>4. ASSUME NEW g \in Groups PROVE Newest(g) = last[g]
    <3>1. AttemptsOf(g) # {}
      BY <2>1 DEF Assemble, Selectable
    <3>2. PICK k \in AttemptsOf(g) : TRUE
      BY <3>1
    <3>3. last[g] \in AttemptsOf(g) /\ \A m \in AttemptsOf(g) : m <= last[g]
      <4>1. k \in Attempts /\ k <= last[g]
        BY <1>1, <3>2 DEF AttemptsOf, LastBuilds
      <4>2. last[g] \in Attempts
        BY <1>1, <4>1 DEF LastBuilds
      <4> QED
        BY <1>1, <4>2 DEF AttemptsOf, LastBuilds
    <3>4. AttemptsOf(g) \subseteq Nat
      BY DEF AttemptsOf
    <3>5. Newest(g) \in AttemptsOf(g) /\ \A m \in AttemptsOf(g) : m <= Newest(g)
      BY <3>3 DEF Newest
    <3> QED
      BY <3>3, <3>4, <3>5
  <2>5. last = [g \in Groups |-> last[g]]
    BY <1>1
  <2> QED
    BY <2>2, <2>3, <2>4, <2>5
<1> QED
  BY Always, <1>1, PTL DEF Spec, BundlesNewest

(***************************************************************************)
(* The run as the release of a mirror sees it: with any jobs and groups,   *)
(* and whatever is re-run, it has one status, which becomes "success" only *)
(* for a commit whose CI was green, when the bundle of that attempt is     *)
(* there.                                                                  *)
(***************************************************************************)
Native == [attempt |-> run.attempt, status |-> Status]
Bundles == DOMAIN bundle \ lost

LEMMA ContractInit == Init => Contract!RunsInit
<1> SUFFICES ASSUME Init PROVE Contract!RunsInit
  OBVIOUS
<1>1. DOMAIN bundle = 1..0
  BY DEF Init
<1>2. Bundles = {}
  <2>1. 1..0 = {}
    BY SMT
  <2> QED
    BY <1>1, <2>1 DEF Bundles
<1> QED
  BY <1>2 DEF Init, CIInit, Status, Bundles, Contract!RunsInit, Contract!CIInit

LEMMA ContractStep == IInv /\ [Next]_vars => [Contract!RunsNext]_(Contract!runVars)
<1> SUFFICES ASSUME IInv, [Next]_vars
             PROVE  Contract!RunsNext \/ UNCHANGED <<ci, Native, Bundles, cleared>>
  BY DEF Contract!runVars, Native, Bundles
<1> USE CIAssumption, AuthAssumption DEF IInv, TypeOK, CITypeOK, Attempts, AuthSteps, Ends
<1>0. /\ Contract!CIStep <=> CINext /\ cleared' = (cleared \/ RunSucceeded') /\ UNCHANGED <<Native, Bundles>>
      /\ Contract!NativeStarts <=>
           /\ Status # "running" /\ run.attempt < MaxNative
           /\ Native' = [attempt |-> run.attempt + 1, status |-> "running"]
           /\ UNCHANGED <<ci, Bundles, cleared>>
      /\ Contract!NativeSucceeds <=>
           /\ Status = "running" /\ cleared
           /\ Native' = [Native EXCEPT !.status = "success"]
           /\ Bundles' = Bundles \cup {run.attempt}
           /\ UNCHANGED <<ci, cleared>>
      /\ Contract!NativeFails <=>
           /\ Status = "running"
           /\ Native' = [Native EXCEPT !.status = "failure"]
           /\ UNCHANGED <<ci, Bundles, cleared>>
      /\ Contract!BundleExpires <=>
           (\E n \in Bundles : Bundles' = Bundles \ {n}) /\ UNCHANGED <<ci, Native, cleared>>
  BY DEF Native, Bundles, Contract!CIStep, Contract!NativeStarts, Contract!NativeSucceeds, Contract!NativeFails,
         Contract!BundleExpires, Contract!CINext, Contract!CIStart, Contract!CIJobEnds, Contract!CIGateEnds,
         Contract!CIRerun, Contract!RunSucceeded, Contract!Completed, Contract!Results,
         CINext, CIStart, CIJobEnds, CIGateEnds, CIRerun, RunSucceeded, Completed, Results
<1> DEFINE Goal == Contract!RunsNext \/ UNCHANGED <<ci, Native, Bundles, cleared>>
<1>1. UNCHANGED <<run, group, assembly>> => UNCHANGED Native
  BY DEF Native, Status, Over
<1>2. UNCHANGED <<bundle, lost>> => UNCHANGED Bundles
  BY DEF Bundles
<1>3. CASE CIStep
  BY <1>0, <1>1, <1>2, <1>3 DEF CIStep, buildVars, Contract!RunsNext
<1>4. CASE NativeStart
  <2>1. Status = "none" /\ Status' = "running"
    BY <1>4 DEF NativeStart, Status, Over
  <2> QED
    BY <1>0, <1>2, <1>4, <2>1 DEF NativeStart, ciVars, buildVars, Native, Contract!RunsNext
<1>5. ASSUME run.auth \in {"select", "watch", "requery", "jobs"}, run'.attempt = run.attempt,
             run' \in [attempt : 0..MaxNative, auth : AuthSteps \ {"idle"}], UNCHANGED <<ciVars, buildVars>>
      PROVE  Goal
  <2>1. /\ run.attempt # 0 /\ \A g \in Groups : group[g] = "waiting"
        /\ assembly = "waiting"
    BY <1>5 DEF InOrder
  <2>2. Status = "running"
    BY <1>5, <2>1 DEF Status, Over
  <2>3. Status' \in {"running", "failure"}
    BY <1>5, <2>1 DEF Status, Over, buildVars
  <2>4. Native = [attempt |-> run.attempt, status |-> "running"]
    BY <2>2 DEF Native
  <2>5. Native' \in {Native, [Native EXCEPT !.status = "failure"]}
    BY <1>5, <2>2, <2>3 DEF Native
  <2> QED
    BY <1>0, <1>2, <1>5, <2>2, <2>5 DEF ciVars, buildVars, Contract!RunsNext
<1>6. CASE SelectRun
  BY <1>5, <1>6 DEF SelectRun, Authorize
<1>7. CASE WatchRun
  BY <1>5, <1>7 DEF WatchRun, Authorize
<1>8. CASE QueryAgain
  BY <1>5, <1>8 DEF QueryAgain, Authorize
<1>9. CASE ReadJobs
  BY <1>5, <1>9 DEF ReadJobs, Authorize
<1>10. CASE AuthorizeLost
  BY <1>5, <1>10 DEF AuthorizeLost
<1>11. ASSUME NEW g \in Groups, GroupBuilt(g) \/ GroupFails(g) PROVE Goal
  <2>1. /\ run.auth = "passed" /\ group[g] = "waiting" /\ assembly = "waiting"
        /\ UNCHANGED <<ci, cleared, run, assembly, bundle, lost>>
    BY <1>11 DEF GroupBuilt, GroupFails, InOrder, ciVars
  <2>2. run.attempt # 0 /\ Status = "running"
    BY <2>1 DEF InOrder, Status, Over
  <2>3. Status' \in {"running", "failure"}
    BY <2>1, <2>2 DEF Status, Over
  <2>4. Native' \in {Native, [Native EXCEPT !.status = "failure"]}
    BY <2>1, <2>2, <2>3 DEF Native
  <2> QED
    BY <1>0, <1>2, <2>1, <2>2, <2>4 DEF Contract!RunsNext
<1>12. CASE Assemble
  <2>1. /\ run.auth = "passed" /\ run.attempt # 0 /\ \A g \in Groups : group[g] = "ok"
        /\ assembly = "waiting" /\ assembly' = "ok"
        /\ UNCHANGED <<ci, cleared, run, group, lost>>
    BY <1>12 DEF Assemble, InOrder, ciVars
  <2>2. Status = "running" /\ Status' = "success"
    BY <2>1 DEF Status, Over
  <2>3. cleared
    BY <2>1 DEF GateLast
  <2>4. Native' = [Native EXCEPT !.status = "success"]
    BY <2>1, <2>2 DEF Native
  <2>5. DOMAIN bundle' = DOMAIN bundle \cup {run.attempt} /\ run.attempt \notin lost
    BY <1>12, <2>1 DEF Assemble, InOrder
  <2>6. Bundles' = Bundles \cup {run.attempt}
    BY <2>1, <2>5 DEF Bundles
  <2> QED
    BY <1>0, <2>1, <2>2, <2>3, <2>4, <2>6 DEF Contract!RunsNext
<1>13. CASE AssemblyFails
  <2>1. /\ run.auth = "passed" /\ run.attempt # 0 /\ \A g \in Groups : group[g] = "ok"
        /\ assembly = "waiting" /\ assembly' = "failed"
        /\ UNCHANGED <<ci, cleared, run, group, bundle, lost>>
    BY <1>13 DEF AssemblyFails, InOrder, ciVars
  <2>2. Status = "running" /\ Status' = "failure"
    BY <2>1 DEF Status, Over
  <2>3. Native' = [Native EXCEPT !.status = "failure"]
    BY <2>1, <2>2 DEF Native
  <2> QED
    BY <1>0, <1>2, <2>1, <2>2, <2>3 DEF Contract!RunsNext
<1>14. CASE Expires
  <2>1. UNCHANGED <<ci, cleared, Native>>
    BY <1>1, <1>14 DEF Expires, ciVars
  <2>2. UNCHANGED Bundles \/ \E n \in Bundles : Bundles' = Bundles \ {n}
    BY <1>14 DEF Expires, Bundles
  <2> QED
    BY <1>0, <2>1, <2>2 DEF Contract!RunsNext
<1>15. ASSUME Status # "running", run.attempt < MaxNative, run'.attempt = run.attempt + 1, Status' = "running",
              UNCHANGED <<ciVars, bundle, lost>>
       PROVE  Goal
  BY <1>0, <1>2, <1>15 DEF ciVars, Native, Contract!RunsNext
<1>16. CASE RerunAll
  <2>1. Status # "running"
    BY <1>16 DEF RerunAll, Rerun, Status
  <2>2. Status' = "running"
    BY <1>16 DEF RerunAll, Rerun, Status, Over
  <2> QED
    BY <1>15, <1>16, <2>1, <2>2 DEF RerunAll, Rerun
<1>17. ASSUME NEW again \in SUBSET Groups, RerunSome(again) PROVE Goal
  <2>1. Status # "running"
    BY <1>17 DEF RerunSome, Rerun, Status
  <2>2. run'.attempt # 0 /\ assembly' = "waiting"
    BY <1>17 DEF RerunSome, Rerun
  <2>3. ASSUME again = {} PROVE Status' = "running"
    <3>1. Failed = {}
      BY <1>17, <2>3, FS_EmptySet DEF RerunSome
    <3>2. \A g \in Groups : group'[g] # "failed"
      BY <1>17, <2>3, <3>1 DEF RerunSome, Rerun, Failed
    <3> QED
      BY <1>17, <2>2, <3>2 DEF RerunSome, Status, Over
  <2>4. ASSUME again # {} PROVE Status' = "running"
    <3>1. PICK g \in again : group'[g] = "waiting"
      BY <1>17, <2>4 DEF RerunSome, Rerun
    <3> QED
      BY <1>17, <2>2, <3>1 DEF RerunSome, Status, Over
  <2>5. Status' = "running"
    BY <1>17, <2>2, <2>3, <2>4
  <2> QED
    BY <1>15, <1>17, <2>1, <2>5 DEF RerunSome, Rerun
<1>18. CASE UNCHANGED vars
  BY <1>1, <1>2, <1>18 DEF vars, ciVars, buildVars
<1> QED
  BY <1>3, <1>4, <1>6, <1>7, <1>8, <1>9, <1>10, <1>11, <1>12, <1>13, <1>14, <1>16, <1>17, <1>18 DEF Next

(***************************************************************************)
(* What release-provenance.py and download-github take for granted of the  *)
(* canonical runs holds of the native run as the scripts drive it: every   *)
(* step of NativeRun is a step of CanonicalRuns or a stutter.              *)
(***************************************************************************)
THEOREM Implements == Spec => ImplementsContract
<1> QED
  BY Always, ContractInit, ContractStep, PTL DEF Spec, ImplementsContract, Contract!RunsSpec
=============================================================================
