-------------------------- MODULE ServiceCallsProofs --------------------------
(***************************************************************************)
(* TLAPS proofs about ServiceCalls, for every set of calls.                *)
(***************************************************************************)
EXTENDS ServiceCalls, TLAPS

LEMMA TypeStep == TypeOK /\ [Next]_vars => TypeOK'
<1> SUFFICES ASSUME TypeOK, [Next]_vars PROVE TypeOK'
  OBVIOUS
<1> USE CallsAssumption DEF TypeOK, Goto, caller, core, router
<1>1. ASSUME NEW c \in Calls, Ask(c) PROVE TypeOK'
  BY <1>1 DEF Ask
<1>2. ASSUME NEW c \in Calls, SendFails(c) PROVE TypeOK'
  BY <1>2 DEF SendFails
<1>3. ASSUME NEW c \in Calls, SendRequest(c) PROVE TypeOK'
  BY <1>3 DEF SendRequest
<1>4. ASSUME NEW c \in Calls, RegisterWaiter(c) PROVE TypeOK'
  BY <1>4 DEF RegisterWaiter
<1>5. ASSUME NEW c \in Calls, Receive(c) PROVE TypeOK'
  BY <1>5 DEF Receive
<1>6. ASSUME NEW c \in Calls, AcceptResponse(c) PROVE TypeOK'
  BY <1>6 DEF AcceptResponse
<1>7. ASSUME NEW c \in Calls, Timeout(c) PROVE TypeOK'
  BY <1>7 DEF Timeout, GiveUp
<1>8. ASSUME NEW c \in Calls, ClosedWake(c) PROVE TypeOK'
  BY <1>8 DEF ClosedWake, GiveUp
<1>9. ASSUME NEW c \in Calls, Forget(c) PROVE TypeOK'
  BY <1>9 DEF Forget
<1>10. ASSUME NEW c \in Calls, Arrive(c) PROVE TypeOK'
  BY <1>10 DEF Arrive
<1>11. CASE Tick
  BY <1>11 DEF Tick
<1>12. CASE NestedEnds
  BY <1>12 DEF NestedEnds
<1>13. CASE Served
  BY <1>13 DEF Served
<1>14. CASE Poll
  BY <1>14 DEF Poll
<1>15. ASSUME NEW c \in Calls, Route(c) PROVE TypeOK'
  BY <1>15 DEF Route
<1>16. CASE Put
  BY <1>16 DEF Put
<1>17. CASE Routed
  BY <1>17 DEF Routed
<1>18. CASE PumpExit
  BY <1>18 DEF PumpExit
<1>19. CASE CloseBegin
  BY <1>19 DEF CloseBegin
<1>20. CASE Signal
  BY <1>20 DEF Signal
<1>21. CASE UNCHANGED vars
  BY <1>21 DEF vars
<1> QED
  BY <1>1, <1>2, <1>3, <1>4, <1>5, <1>6, <1>7, <1>8, <1>9, <1>10, <1>11, <1>12, <1>13, <1>14, <1>15, <1>16, <1>17, <1>18, <1>19, <1>20, <1>21 DEF Next, Progress, Pumping, Ended

LEMMA RegistrationStep == TypeOK /\ Registration /\ Handover /\ [Next]_vars => Registration'
<1> SUFFICES ASSUME TypeOK, Registration, Handover, [Next]_vars PROVE Registration'
  OBVIOUS
<1> USE CallsAssumption DEF TypeOK, Registration, PolledAreRegistered, Goto, caller, core, router
<1>1. ASSUME NEW c \in Calls, Ask(c) PROVE Registration'
  BY <1>1 DEF Ask
<1>2. ASSUME NEW c \in Calls, SendFails(c) PROVE Registration'
  BY <1>2 DEF SendFails
<1>3. ASSUME NEW c \in Calls, SendRequest(c) PROVE Registration'
  BY <1>3 DEF SendRequest
<1>4. ASSUME NEW c \in Calls, RegisterWaiter(c) PROVE Registration'
  BY <1>4 DEF RegisterWaiter
<1>5. ASSUME NEW c \in Calls, Receive(c) PROVE Registration'
  BY <1>5 DEF Handover, Receive
<1>6. ASSUME NEW c \in Calls, AcceptResponse(c) PROVE Registration'
  BY <1>6 DEF AcceptResponse
<1>7. ASSUME NEW c \in Calls, Timeout(c) PROVE Registration'
  BY <1>7 DEF Timeout, GiveUp
<1>8. ASSUME NEW c \in Calls, ClosedWake(c) PROVE Registration'
  BY <1>8 DEF ClosedWake, GiveUp
<1>9. ASSUME NEW c \in Calls, Forget(c) PROVE Registration'
  BY <1>9 DEF Forget
<1>10. ASSUME NEW c \in Calls, Arrive(c) PROVE Registration'
  BY <1>10 DEF Arrive
<1>11. CASE Tick
  BY <1>11 DEF Tick
<1>12. CASE NestedEnds
  BY <1>12 DEF NestedEnds
<1>13. CASE Served
  BY <1>13 DEF Served
<1>14. CASE Poll
  BY <1>14 DEF Poll
<1>15. ASSUME NEW c \in Calls, Route(c) PROVE Registration'
  BY <1>15 DEF Route
<1>16. CASE Put
  BY <1>16 DEF Put
<1>17. CASE Routed
  BY <1>17 DEF Routed
<1>18. CASE PumpExit
  BY <1>18 DEF PumpExit
<1>19. CASE CloseBegin
  BY <1>19 DEF CloseBegin
<1>20. CASE Signal
  BY <1>20 DEF Signal
<1>21. CASE UNCHANGED vars
  BY <1>21 DEF vars
<1> QED
  BY <1>1, <1>2, <1>3, <1>4, <1>5, <1>6, <1>7, <1>8, <1>9, <1>10, <1>11, <1>12, <1>13, <1>14, <1>15, <1>16, <1>17, <1>18, <1>19, <1>20, <1>21 DEF Next, Progress, Pumping, Ended

LEMMA HandoverStep == TypeOK /\ Registration /\ Handover /\ [Next]_vars => Handover'
<1> SUFFICES ASSUME TypeOK, Registration, Handover, [Next]_vars PROVE Handover'
  OBVIOUS
<1> USE CallsAssumption DEF TypeOK, Registration, Handover, WaiterReachable, Goto, caller, core, router
<1>1. ASSUME NEW c \in Calls, Ask(c) PROVE Handover'
  BY <1>1 DEF Ask
<1>2. ASSUME NEW c \in Calls, SendFails(c) PROVE Handover'
  BY <1>2 DEF SendFails
<1>3. ASSUME NEW c \in Calls, SendRequest(c) PROVE Handover'
  BY <1>3 DEF SendRequest
<1>4. ASSUME NEW c \in Calls, RegisterWaiter(c) PROVE Handover'
  BY <1>4 DEF RegisterWaiter
<1>5. ASSUME NEW c \in Calls, Receive(c) PROVE Handover'
  BY <1>5 DEF Receive
<1>6. ASSUME NEW c \in Calls, AcceptResponse(c) PROVE Handover'
  BY <1>6 DEF AcceptResponse
<1>7. ASSUME NEW c \in Calls, Timeout(c) PROVE Handover'
  BY <1>7 DEF Timeout, GiveUp
<1>8. ASSUME NEW c \in Calls, ClosedWake(c) PROVE Handover'
  BY <1>8 DEF ClosedWake, GiveUp
<1>9. ASSUME NEW c \in Calls, Forget(c) PROVE Handover'
  BY <1>9 DEF Forget
<1>10. ASSUME NEW c \in Calls, Arrive(c) PROVE Handover'
  BY <1>10 DEF Arrive
<1>11. CASE Tick
  BY <1>11 DEF Tick
<1>12. CASE NestedEnds
  BY <1>12 DEF NestedEnds
<1>13. CASE Served
  BY <1>13 DEF Served
<1>14. CASE Poll
  BY <1>14 DEF Poll
<1>15. ASSUME NEW c \in Calls, Route(c) PROVE Handover'
  BY <1>15 DEF Route
<1>16. CASE Put
  BY <1>16 DEF Put
<1>17. CASE Routed
  BY <1>17 DEF Routed
<1>18. CASE PumpExit
  BY <1>18 DEF PumpExit
<1>19. CASE CloseBegin
  BY <1>19 DEF CloseBegin
<1>20. CASE Signal
  BY <1>20 DEF Signal
<1>21. CASE UNCHANGED vars
  BY <1>21 DEF vars
<1> QED
  BY <1>1, <1>2, <1>3, <1>4, <1>5, <1>6, <1>7, <1>8, <1>9, <1>10, <1>11, <1>12, <1>13, <1>14, <1>15, <1>16, <1>17, <1>18, <1>19, <1>20, <1>21 DEF Next, Progress, Pumping, Ended

LEMMA NestingStep == TypeOK /\ Registration /\ Handover /\ Nesting /\ [Next]_vars => Nesting'
<1> SUFFICES ASSUME TypeOK, Registration, Handover, Nesting, [Next]_vars PROVE Nesting'
  OBVIOUS
<1> USE CallsAssumption DEF TypeOK, Registration, Handover, Nesting, NestedStarve, Goto, caller, core, router
<1>1. ASSUME NEW c \in Calls, Ask(c) PROVE Nesting'
  BY <1>1 DEF Ask
<1>2. ASSUME NEW c \in Calls, SendFails(c) PROVE Nesting'
  BY <1>2 DEF SendFails
<1>3. ASSUME NEW c \in Calls, SendRequest(c) PROVE Nesting'
  BY <1>3 DEF SendRequest
<1>4. ASSUME NEW c \in Calls, RegisterWaiter(c) PROVE Nesting'
  BY <1>4 DEF RegisterWaiter
<1>5. ASSUME NEW c \in Calls, Receive(c) PROVE Nesting'
  BY <1>5 DEF Receive
<1>6. ASSUME NEW c \in Calls, AcceptResponse(c) PROVE Nesting'
  BY <1>6 DEF AcceptResponse
<1>7. ASSUME NEW c \in Calls, Timeout(c) PROVE Nesting'
  BY <1>7 DEF Timeout, GiveUp
<1>8. ASSUME NEW c \in Calls, ClosedWake(c) PROVE Nesting'
  BY <1>8 DEF ClosedWake, GiveUp
<1>9. ASSUME NEW c \in Calls, Forget(c) PROVE Nesting'
  BY <1>9 DEF Forget
<1>10. ASSUME NEW c \in Calls, Arrive(c) PROVE Nesting'
  BY <1>10 DEF Arrive
<1>11. CASE Tick
  BY <1>11 DEF Tick
<1>12. CASE NestedEnds
  BY <1>12 DEF NestedEnds
<1>13. CASE Served
  BY <1>13 DEF Served
<1>14. CASE Poll
  BY <1>14 DEF Poll
<1>15. ASSUME NEW c \in Calls, Route(c) PROVE Nesting'
  BY <1>15 DEF Route
<1>16. CASE Put
  BY <1>16 DEF Put
<1>17. CASE Routed
  BY <1>17 DEF Routed
<1>18. CASE PumpExit
  BY <1>18 DEF PumpExit
<1>19. CASE CloseBegin
  BY <1>19 DEF CloseBegin
<1>20. CASE Signal
  BY <1>20 DEF Signal
<1>21. CASE UNCHANGED vars
  BY <1>21 DEF vars
<1> QED
  BY <1>1, <1>2, <1>3, <1>4, <1>5, <1>6, <1>7, <1>8, <1>9, <1>10, <1>11, <1>12, <1>13, <1>14, <1>15, <1>16, <1>17, <1>18, <1>19, <1>20, <1>21 DEF Next, Progress, Pumping, Ended

LEMMA AcceptedStep ==
    RoutingSafe /\ [Next]_vars => (accepted = {c \in Calls : pc[c] = "ok"})'
<1> SUFFICES ASSUME RoutingSafe, [Next]_vars
             PROVE  accepted' = {d \in Calls : pc'[d] = "ok"}
  OBVIOUS
<1> USE DEF RoutingSafe, TypeOK, Goto, caller, core, router
<1>1. ASSUME NEW c \in Calls, Ask(c) PROVE accepted' = {d \in Calls : pc'[d] = "ok"}
  BY <1>1 DEF Ask
<1>2. ASSUME NEW c \in Calls, SendFails(c) PROVE accepted' = {d \in Calls : pc'[d] = "ok"}
  BY <1>2 DEF SendFails
<1>3. ASSUME NEW c \in Calls, SendRequest(c) PROVE accepted' = {d \in Calls : pc'[d] = "ok"}
  BY <1>3 DEF SendRequest
<1>4. ASSUME NEW c \in Calls, RegisterWaiter(c) PROVE accepted' = {d \in Calls : pc'[d] = "ok"}
  BY <1>4 DEF RegisterWaiter
<1>5. ASSUME NEW c \in Calls, Receive(c) PROVE accepted' = {d \in Calls : pc'[d] = "ok"}
  BY <1>5 DEF Receive
<1>6. ASSUME NEW c \in Calls, AcceptResponse(c) PROVE accepted' = {d \in Calls : pc'[d] = "ok"}
  BY <1>6 DEF AcceptResponse
<1>7. ASSUME NEW c \in Calls, Timeout(c) PROVE accepted' = {d \in Calls : pc'[d] = "ok"}
  BY <1>7 DEF Timeout, GiveUp
<1>8. ASSUME NEW c \in Calls, ClosedWake(c) PROVE accepted' = {d \in Calls : pc'[d] = "ok"}
  BY <1>8 DEF ClosedWake, GiveUp
<1>9. ASSUME NEW c \in Calls, Forget(c) PROVE accepted' = {d \in Calls : pc'[d] = "ok"}
  BY <1>9 DEF Forget
<1>10. ASSUME NEW c \in Calls, Arrive(c) PROVE accepted' = {d \in Calls : pc'[d] = "ok"}
  BY <1>10 DEF Arrive
<1>11. CASE Tick
  BY <1>11 DEF Tick
<1>12. CASE NestedEnds
  BY <1>12 DEF NestedEnds
<1>13. CASE Served
  BY <1>13 DEF Served
<1>14. CASE Poll
  BY <1>14 DEF Poll
<1>15. ASSUME NEW c \in Calls, Route(c) PROVE accepted' = {d \in Calls : pc'[d] = "ok"}
  BY <1>15 DEF Route
<1>16. CASE Put
  BY <1>16 DEF Put
<1>17. CASE Routed
  BY <1>17 DEF Routed
<1>18. CASE PumpExit
  BY <1>18 DEF PumpExit
<1>19. CASE CloseBegin
  BY <1>19 DEF CloseBegin
<1>20. CASE Signal
  BY <1>20 DEF Signal
<1>21. CASE UNCHANGED vars
  BY <1>21 DEF vars
<1> QED
  BY <1>1, <1>2, <1>3, <1>4, <1>5, <1>6, <1>7, <1>8, <1>9, <1>10, <1>11, <1>12, <1>13, <1>14, <1>15, <1>16, <1>17, <1>18, <1>19, <1>20, <1>21 DEF Next, Progress, Pumping, Ended

LEMMA InitSafe == Init => RoutingSafe
  BY CallsAssumption
     DEF Init, RoutingSafe, TypeOK, Registration, PolledAreRegistered, Handover, WaiterReachable,
         Nesting, NestedStarve

\* RoutingSafe is an inductive invariant of RequestTimeout, pump and Close.
THEOREM RoutingIsSafe == Spec => []RoutingSafe
<1>1. RoutingSafe /\ [Next]_vars => RoutingSafe'
  BY TypeStep, RegistrationStep, HandoverStep, NestingStep, AcceptedStep DEF RoutingSafe
<1> QED
  BY InitSafe, <1>1, PTL DEF Spec

\* The pump is never stuck on the channel of a caller, for any number of calls.
THEOREM PumpIsFree == Spec => []PumpNeverBlocks
<1>1. RoutingSafe => PumpNeverBlocks
  BY DEF RoutingSafe, TypeOK, Handover, PumpNeverBlocks
<1> QED
  BY <1>1, RoutingIsSafe, PTL

\* Whoever waits for an answer can be reached by the pump.
THEOREM WaitersReachable == Spec => []WaiterReachable
<1>1. RoutingSafe => WaiterReachable
  BY DEF RoutingSafe, Handover
<1> QED
  BY <1>1, RoutingIsSafe, PTL

\* No answer is polled before its caller has registered.
THEOREM RegistersInTime == Spec => []PolledAreRegistered
<1>1. RoutingSafe => PolledAreRegistered
  BY DEF RoutingSafe, Registration
<1> QED
  BY <1>1, RoutingIsSafe, PTL

\* A call that has returned, with an answer or with an error, has left no
\* channel in pending: every way out of RequestTimeout takes its own off.
THEOREM LeaksNothing == Spec => []NoPendingLeak
<1>1. RoutingSafe => NoPendingLeak
  BY DEF RoutingSafe, Registration, NoPendingLeak
<1> QED
  BY <1>1, RoutingIsSafe, PTL

\* A call made from a handler is never answered.
THEOREM NestedNeverAnswered == Spec => []NestedStarve
<1>1. RoutingSafe => NestedStarve
  BY DEF RoutingSafe, Nesting
<1> QED
  BY <1>1, RoutingIsSafe, PTL

-----------------------------------------------------------------------------
(* RequestTimeout implements RequestReply *)

LEMMA PromiseStep == RoutingSafe /\ [Next]_vars => [Reply!Next]_(Reply!vars)
<1> SUFFICES ASSUME RoutingSafe, [Next]_vars PROVE [Reply!Next]_(Reply!vars)
  OBVIOUS
<1> USE DEF RoutingSafe, TypeOK, Reply!vars, Status, Goto, caller, core, router
<1>1. ASSUME NEW c \in Calls, Ask(c) PROVE [Reply!Next]_(Reply!vars)
  BY <1>1 DEF Registration, Ask, Reply!Next, Reply!Ask, Reply!Becomes
<1>2. ASSUME NEW c \in Calls, SendFails(c) PROVE [Reply!Next]_(Reply!vars)
  BY <1>2 DEF Registration, SendFails, Reply!Next, Reply!Fail, Reply!Becomes
<1>3. ASSUME NEW c \in Calls, SendRequest(c) PROVE [Reply!Next]_(Reply!vars)
  BY <1>3 DEF SendRequest
<1>4. ASSUME NEW c \in Calls, RegisterWaiter(c) PROVE [Reply!Next]_(Reply!vars)
  BY <1>4 DEF RegisterWaiter
<1>5. ASSUME NEW c \in Calls, Receive(c) PROVE [Reply!Next]_(Reply!vars)
  BY <1>5 DEF Receive
<1>6. ASSUME NEW c \in Calls, AcceptResponse(c) PROVE [Reply!Next]_(Reply!vars)
  <2>1. CASE c \in rows /\ rows' = rows \ {c} /\ Goto(c, "ok")
    <3>1. Status[c] = "open" /\ Status' = [Status EXCEPT ![c] = "answered"]
      BY <1>6, <2>1 DEF AcceptResponse
    <3> QED
      BY <2>1, <3>1 DEF Reply!Next, Reply!Answer, Reply!Becomes
  <2>2. CASE Goto(c, "err") /\ UNCHANGED rows
    <3>1. Status[c] = "open" /\ Status' = [Status EXCEPT ![c] = "failed"]
      BY <1>6, <2>2 DEF AcceptResponse
    <3> QED
      BY <2>2, <3>1 DEF Reply!Next, Reply!Fail, Reply!Becomes
  <2> QED
    BY <1>6, <2>1, <2>2 DEF AcceptResponse
<1>7. ASSUME NEW c \in Calls, Timeout(c) PROVE [Reply!Next]_(Reply!vars)
  BY <1>7 DEF Timeout, GiveUp
<1>8. ASSUME NEW c \in Calls, ClosedWake(c) PROVE [Reply!Next]_(Reply!vars)
  BY <1>8 DEF ClosedWake, GiveUp
<1>9. ASSUME NEW c \in Calls, Forget(c) PROVE [Reply!Next]_(Reply!vars)
  BY <1>9 DEF Registration, Forget, Reply!Next, Reply!Fail, Reply!Becomes
<1>10. ASSUME NEW c \in Calls, Arrive(c) PROVE [Reply!Next]_(Reply!vars)
  BY <1>10 DEF Registration, Arrive, Reply!Next, Reply!Arrive, Reply!Becomes
<1>11. CASE Tick
  BY <1>11 DEF Tick
<1>12. CASE NestedEnds
  BY <1>12 DEF NestedEnds
<1>13. CASE Served
  BY <1>13 DEF Served
<1>14. CASE Poll
  BY <1>14 DEF Poll
<1>15. ASSUME NEW c \in Calls, Route(c) PROVE [Reply!Next]_(Reply!vars)
  BY <1>15 DEF Route
<1>16. CASE Put
  BY <1>16 DEF Put
<1>17. CASE Routed
  BY <1>17 DEF Routed
<1>18. CASE PumpExit
  BY <1>18 DEF PumpExit
<1>19. CASE CloseBegin
  BY <1>19 DEF CloseBegin
<1>20. CASE Signal
  BY <1>20 DEF Signal
<1>21. CASE UNCHANGED vars
  BY <1>21 DEF vars
<1> QED
  BY <1>1, <1>2, <1>3, <1>4, <1>5, <1>6, <1>7, <1>8, <1>9, <1>10, <1>11, <1>12, <1>13, <1>14, <1>15, <1>16, <1>17, <1>18, <1>19, <1>20, <1>21 DEF Next, Progress, Pumping, Ended

\* Request keeps its promise: an answer is returned once, to its own call, and
\* consumed then and only then.
THEOREM KeepsPromise == Spec => Promise
<1>1. Init => Reply!Init
  BY DEF Init, Reply!Init, Status
<1> QED
  BY <1>1, RoutingIsSafe, PromiseStep, PTL DEF Spec, Promise, Reply!Spec

=============================================================================
