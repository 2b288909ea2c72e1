------------------------- MODULE ServiceDispatchProofs -------------------------
(***************************************************************************)
(* TLAPS proofs about ServiceDispatch, for every set of requests and of    *)
(* services.  DispatchSafe is the inductive invariant: the type step       *)
(* first, then that of the rest, under the types of both states.           *)
(***************************************************************************)
EXTENDS ServiceDispatch, TLAPS

LEMMA TypeStep == TypeOK /\ [Next]_vars => TypeOK'
<1> SUFFICES ASSUME TypeOK, [Next]_vars PROVE TypeOK'
  OBVIOUS
<1> USE DispatchAssumption DEF TypeOK, core, dispatch, history
<1>1. ASSUME NEW r \in Reqs, Arrive(r) PROVE TypeOK'
  BY <1>1 DEF Arrive
<1>2. ASSUME NEW r \in Reqs, AppAccepts(r) PROVE TypeOK'
  BY <1>2 DEF AppAccepts, CoreAccepts, InApp
<1>3. ASSUME NEW r \in Reqs, AppRejects(r) PROVE TypeOK'
  BY <1>3 DEF AppRejects, CoreRejects, InApp
<1>4. ASSUME NEW r \in Reqs, AppDrops(r) PROVE TypeOK'
  BY <1>4 DEF AppDrops
<1>5. ASSUME NEW r \in Reqs, HandlerReturns(r) PROVE TypeOK'
  BY <1>5 DEF HandlerReturns
<1>6. ASSUME NEW r \in Reqs, HandlerPanics(r) PROVE TypeOK'
  BY <1>6 DEF HandlerPanics
<1>7. ASSUME NEW r \in Reqs, Settle(r) PROVE TypeOK'
  BY <1>7 DEF Settle, CoreAccepts
<1>8. ASSUME NEW r \in Reqs, SettleFails(r) PROVE TypeOK'
  BY <1>8 DEF SettleFails
<1>9. ASSUME NEW s \in Services, On(s) PROVE TypeOK'
  BY <1>9 DEF On
<1>10. CASE HandlerDefers
  BY <1>10 DEF HandlerDefers
<1>11. CASE Close
  BY <1>11 DEF Close
<1>12. CASE Restart
  BY <1>12 DEF Restart
<1>13. CASE Poll
  BY <1>13 DEF Poll
<1>14. CASE BatchDone
  BY <1>14 DEF BatchDone
<1>15. ASSUME NEW r \in Reqs, Skip(r) PROVE TypeOK'
  BY <1>15 DEF Skip
<1>16. ASSUME NEW r \in Reqs, Start(r) PROVE TypeOK'
  BY <1>16 DEF Start
<1>17. CASE UNCHANGED vars
  BY <1>17 DEF vars
<1> QED
  BY <1>1, <1>2, <1>3, <1>4, <1>5, <1>6, <1>7, <1>8, <1>9, <1>10, <1>11, <1>12, <1>13, <1>14, <1>15, <1>16, <1>17 DEF Next, PumpRuns

LEMMA SafeStep == DispatchSafe /\ [Next]_vars => DispatchSafe'
<1> SUFFICES ASSUME DispatchSafe, TypeOK', [Next]_vars PROVE DispatchSafe'
  BY TypeStep DEF DispatchSafe
<1> USE DispatchAssumption DEF TypeOK, DispatchSafe, core, dispatch, history
<1>1. ASSUME NEW r \in Reqs, Arrive(r) PROVE DispatchSafe'
  BY <1>1 DEF Arrive
<1>2. ASSUME NEW r \in Reqs, AppAccepts(r) PROVE DispatchSafe'
  BY <1>2 DEF AppAccepts, CoreAccepts, InApp
<1>3. ASSUME NEW r \in Reqs, AppRejects(r) PROVE DispatchSafe'
  BY <1>3 DEF AppRejects, CoreRejects, InApp
<1>4. ASSUME NEW r \in Reqs, AppDrops(r) PROVE DispatchSafe'
  BY <1>4 DEF AppDrops
<1>5. ASSUME NEW r \in Reqs, HandlerReturns(r) PROVE DispatchSafe'
  BY <1>5 DEF HandlerReturns
<1>6. ASSUME NEW r \in Reqs, HandlerPanics(r) PROVE DispatchSafe'
  BY <1>6 DEF HandlerPanics
<1>7. ASSUME NEW r \in Reqs, Settle(r) PROVE DispatchSafe'
  BY <1>7 DEF Settle, CoreAccepts
<1>8. ASSUME NEW r \in Reqs, SettleFails(r) PROVE DispatchSafe'
  BY <1>8 DEF SettleFails
<1>9. ASSUME NEW s \in Services, On(s) PROVE DispatchSafe'
  BY <1>9 DEF On
<1>10. CASE HandlerDefers
  BY <1>10 DEF HandlerDefers
<1>11. CASE Close
  BY <1>11 DEF Close
<1>12. CASE Restart
  BY <1>12 DEF Restart
<1>13. CASE Poll
  BY <1>13 DEF Poll
<1>14. CASE BatchDone
  BY <1>14 DEF BatchDone
<1>15. ASSUME NEW r \in Reqs, Skip(r) PROVE DispatchSafe'
  BY <1>15 DEF Skip
<1>16. ASSUME NEW r \in Reqs, Start(r) PROVE DispatchSafe'
  BY <1>16 DEF Start
<1>17. CASE UNCHANGED vars
  BY <1>17 DEF vars
<1> QED
  BY <1>1, <1>2, <1>3, <1>4, <1>5, <1>6, <1>7, <1>8, <1>9, <1>10, <1>11, <1>12, <1>13, <1>14, <1>15, <1>16, <1>17 DEF Next, PumpRuns

\* In every reachable state the inductive invariant holds.
THEOREM DispatchIsSafe == Spec => []DispatchSafe
<1>1. Init => DispatchSafe
  BY DispatchAssumption DEF Init, DispatchSafe, TypeOK
<1> QED
  BY <1>1, SafeStep, PTL DEF Spec

LEMMA RerunStep == DispatchSafe /\ [Next]_vars =>
    \A q \in Reqs : current # q /\ current' = q => q \in excused
<1> SUFFICES ASSUME DispatchSafe, [Next]_vars PROVE \A q \in Reqs : current # q /\ current' = q => q \in excused
  OBVIOUS
<1> USE DispatchAssumption DEF TypeOK, DispatchSafe, core, dispatch, history
<1>1. ASSUME NEW r \in Reqs, Arrive(r) PROVE \A q \in Reqs : current # q /\ current' = q => q \in excused
  BY <1>1 DEF Arrive
<1>2. ASSUME NEW r \in Reqs, AppAccepts(r) PROVE \A q \in Reqs : current # q /\ current' = q => q \in excused
  BY <1>2 DEF AppAccepts, CoreAccepts, InApp
<1>3. ASSUME NEW r \in Reqs, AppRejects(r) PROVE \A q \in Reqs : current # q /\ current' = q => q \in excused
  BY <1>3 DEF AppRejects, CoreRejects, InApp
<1>4. ASSUME NEW r \in Reqs, AppDrops(r) PROVE \A q \in Reqs : current # q /\ current' = q => q \in excused
  BY <1>4 DEF AppDrops
<1>5. ASSUME NEW r \in Reqs, HandlerReturns(r) PROVE \A q \in Reqs : current # q /\ current' = q => q \in excused
  BY <1>5 DEF HandlerReturns
<1>6. ASSUME NEW r \in Reqs, HandlerPanics(r) PROVE \A q \in Reqs : current # q /\ current' = q => q \in excused
  BY <1>6 DEF HandlerPanics
<1>7. ASSUME NEW r \in Reqs, Settle(r) PROVE \A q \in Reqs : current # q /\ current' = q => q \in excused
  BY <1>7 DEF Settle, CoreAccepts
<1>8. ASSUME NEW r \in Reqs, SettleFails(r) PROVE \A q \in Reqs : current # q /\ current' = q => q \in excused
  BY <1>8 DEF SettleFails
<1>9. ASSUME NEW s \in Services, On(s) PROVE \A q \in Reqs : current # q /\ current' = q => q \in excused
  BY <1>9 DEF On
<1>10. CASE HandlerDefers
  BY <1>10 DEF HandlerDefers
<1>11. CASE Close
  BY <1>11 DEF Close
<1>12. CASE Restart
  BY <1>12 DEF Restart
<1>13. CASE Poll
  BY <1>13 DEF Poll
<1>14. CASE BatchDone
  BY <1>14 DEF BatchDone
<1>15. ASSUME NEW r \in Reqs, Skip(r) PROVE \A q \in Reqs : current # q /\ current' = q => q \in excused
  BY <1>15 DEF Skip
<1>16. ASSUME NEW r \in Reqs, Start(r) PROVE \A q \in Reqs : current # q /\ current' = q => q \in excused
  BY <1>16 DEF Start
<1>17. CASE UNCHANGED vars
  BY <1>17 DEF vars
<1> QED
  BY <1>1, <1>2, <1>3, <1>4, <1>5, <1>6, <1>7, <1>8, <1>9, <1>10, <1>11, <1>12, <1>13, <1>14, <1>15, <1>16, <1>17 DEF Next, PumpRuns

\* A handler runs a second time on a request only after a panic, a rejection, an
\* acceptance that failed, or a restart.
THEOREM RerunsForAReason == Spec => NoBlindRerun
<1>1. DispatchSafe /\ [Next]_vars => [ \A r \in Reqs :
          current # r /\ current' = r => r \in excused ]_vars
  BY RerunStep
<1> QED
  BY <1>1, DispatchIsSafe, PTL DEF Spec, NoBlindRerun

-----------------------------------------------------------------------------
(* ServiceDispatch implements RequestQueue *)

LEMMA QueueStep == DispatchSafe /\ [Next]_vars => [Durable!Next]_(Durable!vars)
<1> SUFFICES ASSUME DispatchSafe, [Next]_vars PROVE [Durable!Next]_(Durable!vars)
  OBVIOUS
<1> USE DispatchAssumption DEF TypeOK, DispatchSafe, core, dispatch, history, InHand
<1>1. ASSUME NEW r \in Reqs, Arrive(r) PROVE [Durable!Next]_(Durable!vars)
  <2>1. Durable!Arrive(r)
    BY <1>1 DEF Arrive, Durable!Arrive
  <2> QED
    BY <2>1 DEF Durable!Next
<1>2. ASSUME NEW r \in Reqs, AppAccepts(r) PROVE [Durable!Next]_(Durable!vars)
  <2>1. Durable!Acknowledge(r)
    BY <1>2 DEF AppAccepts, CoreAccepts, InApp, Durable!Settles, Durable!Acknowledge
  <2> QED
    BY <2>1 DEF Durable!Next
<1>3. ASSUME NEW r \in Reqs, AppRejects(r) PROVE [Durable!Next]_(Durable!vars)
  <2>1. Durable!TurnAway(r)
    BY <1>3 DEF AppRejects, CoreRejects, InApp, Durable!Settles, Durable!TurnAway
  <2> QED
    BY <2>1 DEF Durable!Next
<1>4. ASSUME NEW r \in Reqs, AppDrops(r) PROVE [Durable!Next]_(Durable!vars)
  <2>1. Durable!Forget
    BY <1>4 DEF AppDrops, Durable!Forget
  <2> QED
    BY <2>1 DEF Durable!Next
<1>5. ASSUME NEW r \in Reqs, HandlerReturns(r) PROVE [Durable!Next]_(Durable!vars)
  <2>1. Durable!Finish(r)
    BY <1>5 DEF HandlerReturns, Durable!Finish
  <2> QED
    BY <2>1 DEF Durable!Next
<1>6. ASSUME NEW r \in Reqs, HandlerPanics(r) PROVE [Durable!Next]_(Durable!vars)
  <2>1. Durable!Forget
    BY <1>6 DEF HandlerPanics, Durable!Forget
  <2> QED
    BY <2>1 DEF Durable!Next
<1>7. ASSUME NEW r \in Reqs, Settle(r) PROVE [Durable!Next]_(Durable!vars)
  <2>1. Durable!Acknowledge(r)
    BY <1>7 DEF Settle, CoreAccepts, Durable!Settles, Durable!Acknowledge
  <2> QED
    BY <2>1 DEF Durable!Next
<1>8. ASSUME NEW r \in Reqs, SettleFails(r) PROVE [Durable!Next]_(Durable!vars)
  <2>1. Durable!Forget
    BY <1>8 DEF SettleFails, Durable!Forget
  <2> QED
    BY <2>1 DEF Durable!Next
<1>9. ASSUME NEW s \in Services, On(s) PROVE [Durable!Next]_(Durable!vars)
  BY <1>9 DEF On, Durable!vars
<1>10. CASE HandlerDefers
  BY <1>10 DEF HandlerDefers, Durable!vars
<1>11. CASE Close
  BY <1>11 DEF Close, Durable!vars
<1>12. CASE Restart
  <2>1. Durable!Forget
    BY <1>12 DEF Restart, Durable!Forget
  <2> QED
    BY <2>1 DEF Durable!Next
<1>13. CASE Poll
  <2>1. Durable!Look
    BY <1>13 DEF Poll, Durable!Look
  <2> QED
    BY <2>1 DEF Durable!Next
<1>14. CASE BatchDone
  BY <1>14 DEF BatchDone, Durable!vars
<1>15. ASSUME NEW r \in Reqs, Skip(r) PROVE [Durable!Next]_(Durable!vars)
  <2>1. Durable!Forget
    BY <1>15 DEF Skip, Durable!Forget
  <2> QED
    BY <2>1 DEF Durable!Next
<1>16. ASSUME NEW r \in Reqs, Start(r) PROVE [Durable!Next]_(Durable!vars)
  <2>1. Durable!HandOut(r)
    BY <1>16 DEF Start, Durable!HandOut
  <2> QED
    BY <2>1 DEF Durable!Next
<1>17. CASE UNCHANGED vars
  BY <1>17 DEF vars, Durable!vars
<1> QED
  BY <1>1, <1>2, <1>3, <1>4, <1>5, <1>6, <1>7, <1>8, <1>9, <1>10, <1>11, <1>12, <1>13, <1>14, <1>15, <1>16, <1>17 DEF Next, PumpRuns

\* The serving side keeps what hop.h promises: a queue worked off at least once, in
\* which a request is acknowledged only when it is done, by whoever has it in hand.
THEOREM ServesAtLeastOnce == Spec => AtLeastOnce
<1>1. Init => Durable!Init
  BY DispatchAssumption DEF Init, Durable!Init, InHand
<1> QED
  BY <1>1, DispatchIsSafe, QueueStep, PTL DEF Spec, AtLeastOnce, Durable!Spec
================================================================================
