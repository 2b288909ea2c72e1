----------------------- MODULE EndpointLifecycleProofs -----------------------
(***************************************************************************)
(* TLAPS proofs about EndpointLifecycle, for every number of connections   *)
(* and of application goroutines.  CloseSafe is the inductive invariant:   *)
(* first the type correctness of the threads' local state, then that of    *)
(* the shared state, then the lock, the teardown and the hooks.            *)
(***************************************************************************)
EXTENDS EndpointLifecycle, TLAPS

-----------------------------------------------------------------------------
(* The steps of each kind of goroutine *)

LEMMA Kinds ==
    /\ \A l \in Links : /\ StepsOf(l) = OnceSteps \cup LinkSteps
                        /\ ReturnsOf(l) = {"read", "gone"}
                        /\ TargetsOf(l) = {l}
    /\ StepsOf(Pump) = OnceSteps \cup CloseSteps \cup PumpSteps
    /\ ReturnsOf(Pump) = {"closers", "send"}
    /\ TargetsOf(Pump) = Links
    /\ \A a \in Apps : /\ StepsOf(a) = OnceSteps \cup CloseSteps \cup AppSteps
                       /\ ReturnsOf(a) = {"closers"}
                       /\ TargetsOf(a) = Links
  BY ThreadsDiffer DEF StepsOf, ReturnsOf, TargetsOf

LEMMA StepsAreSteps == \A t \in Threads : StepsOf(t) \subseteq Steps
  BY Kinds DEF Threads, Steps

\* Only the pump and the application run Close.
LEMMA Closing ==
    ASSUME ControlOK, NEW t \in Threads, pc[t] \in CloseSteps
    PROVE  t \notin Links /\ CloseSteps \subseteq StepsOf(t) /\ Resume(t) \in StepsOf(t) \ (OnceSteps \cup {"write"})
                                         /\ "closers" \in ReturnsOf(t)
                                         /\ TargetsOf(t) = Links
  BY ThreadsDiffer, Kinds
     DEF ControlOK, Threads, Resume, OnceSteps, CloseSteps, LinkSteps, PumpSteps, AppSteps

\* closeLink goes back to a step of the goroutine that called it.
LEMMA Returning ==
    ASSUME NEW t \in Threads, NEW next \in ReturnsOf(t)
    PROVE  next \in StepsOf(t) \ (OnceSteps \cup {"write"})
  BY Kinds DEF Threads, OnceSteps, CloseSteps, LinkSteps, PumpSteps

\* A thread that withNode refuses goes on with its own work.
LEMMA Refusing ==
    ASSUME ControlOK, NEW t \in Threads, pc[t] \in DOMAIN Refused
    PROVE  Refused[pc[t]] \in StepsOf(t) \ (OnceSteps \cup {"write"})
<1> USE Kinds DEF ControlOK, Refused, OnceSteps
<1>1. CASE t \in Links
  BY <1>1 DEF LinkSteps
<1>2. CASE t = Pump
  BY <1>2 DEF CloseSteps, PumpSteps
<1>3. CASE t \in Apps
  BY <1>3 DEF CloseSteps, AppSteps
<1> QED
  BY <1>1, <1>2, <1>3 DEF Threads

LEMMA GotoPlain ==
    ASSUME ControlOK, NEW t \in Threads,
           NEW label \in StepsOf(t) \ (OnceSteps \cup {"write"}), Goto(t, label),
           UNCHANGED <<target, ret>>
    PROVE  ControlOK'
  BY StepsAreSteps DEF ControlOK, Goto

LEMMA GotoOnce ==
    ASSUME ControlOK, NEW t \in Threads, NEW l \in TargetsOf(t), NEW next \in ReturnsOf(t),
           CallCloseLink(t, l, next)
    PROVE  ControlOK'
<1>1. "once" \in StepsOf(t) /\ "once" \in Steps /\ "once" # "write"
  BY Kinds DEF Threads, OnceSteps, Steps
<1>2. next \in Steps /\ l \in Links
  BY Returning, StepsAreSteps, Kinds DEF Threads
<1> QED
  BY <1>1, <1>2 DEF ControlOK, CallCloseLink, Goto

LEMMA ControlStep == TypeOK /\ [Next]_vars => ControlOK'
<1> SUFFICES ASSUME ControlOK, SharedOK, [Next]_vars PROVE ControlOK'
  BY DEF TypeOK
<1> USE DEF vars, lock, teardown, closing, wires, work
<1>1. ASSUME NEW t \in Threads, Enter(t) PROVE ControlOK'
  BY <1>1 DEF ControlOK, Enter
<1>2. ASSUME NEW t \in Threads, Refuse(t) PROVE ControlOK'
  BY <1>2, Refusing, GotoPlain DEF Refuse
<1>3. ASSUME NEW t \in Threads, OnceRun(t) PROVE ControlOK'
  BY <1>3, Kinds DEF ControlOK, OnceRun, Goto, OnceSteps, Steps, Threads
<1>4. ASSUME NEW t \in Threads, OnceSkip(t) PROVE ControlOK'
  BY <1>4, Returning, GotoPlain DEF ControlOK, OnceSteps, OnceSkip
<1>5. ASSUME NEW t \in Threads, Disconnected(t) PROVE ControlOK'
  BY <1>5, Returning, GotoPlain DEF ControlOK, OnceSteps, Disconnected, Leave, FinishOnce
<1>6. ASSUME NEW t \in Threads, DisconnectRefused(t) PROVE ControlOK'
  BY <1>6, Returning, GotoPlain DEF ControlOK, OnceSteps, DisconnectRefused, FinishOnce
<1>7. ASSUME NEW t \in Threads, CloseBegin(t) PROVE ControlOK'
  BY <1>7, Closing, GotoPlain DEF CloseSteps, OnceSteps, CloseBegin
<1>8. ASSUME NEW t \in Threads, Signal(t) PROVE ControlOK'
  BY <1>8, Closing, GotoPlain DEF CloseSteps, OnceSteps, Signal
<1>9. ASSUME NEW t \in Threads, RunCloser(t) PROVE ControlOK'
  BY <1>9, Closing, GotoOnce DEF SharedOK, CloseSteps, RunCloser
<1>10. ASSUME NEW t \in Threads, FreeBegin(t) PROVE ControlOK'
  BY <1>10, Closing, GotoPlain DEF CloseSteps, OnceSteps, FreeBegin
<1>11. ASSUME NEW t \in Threads, FreeEnd(t) PROVE ControlOK'
  BY <1>11, Closing, GotoPlain DEF CloseSteps, OnceSteps, FreeEnd, Leave
<1>12. ASSUME NEW l \in Links, RegisterLink(l) PROVE ControlOK'
  BY <1>12, Kinds, GotoPlain DEF Threads, LinkSteps, OnceSteps, RegisterLink
<1>13. ASSUME NEW l \in Links, Connected(l) PROVE ControlOK'
  BY <1>13, Kinds, GotoPlain DEF Threads, LinkSteps, OnceSteps, Connected, Leave
<1>14. ASSUME NEW l \in Links, RegisterCloser(l) PROVE ControlOK'
  BY <1>14, Kinds, GotoOnce, GotoPlain DEF Threads, LinkSteps, OnceSteps, RegisterCloser
<1>15. ASSUME NEW l \in Links, ReadFrame(l) PROVE ControlOK'
  BY <1>15, Kinds, GotoPlain DEF Threads, LinkSteps, OnceSteps, ReadFrame, Move
<1>16. ASSUME NEW l \in Links, Delivered(l) PROVE ControlOK'
  BY <1>16, Kinds, GotoPlain DEF Threads, LinkSteps, OnceSteps, Delivered, Leave, Back
<1>17. ASSUME NEW l \in Links, ReadFails(l) PROVE ControlOK'
  BY <1>17, Kinds, GotoOnce, GotoPlain DEF Threads, LinkSteps, OnceSteps, ReadFails
<1>18. CASE Tick
  BY <1>18, Kinds, GotoPlain DEF Threads, PumpSteps, CloseSteps, OnceSteps, Tick, Move
<1>19. CASE PumpExit
  BY <1>19, Kinds, GotoPlain DEF Threads, PumpSteps, CloseSteps, OnceSteps, PumpExit, Move
<1>20. CASE Drained
  BY <1>20, Kinds, GotoPlain DEF Threads, PumpSteps, CloseSteps, OnceSteps, Drained, Leave
<1>21. CASE LookupLink
  BY <1>21, Kinds DEF ControlOK, SharedOK, Threads, Goto, OnceSteps, PumpSteps, Steps, LookupLink
<1>22. CASE WriteOK
  BY <1>22, Kinds, GotoPlain DEF Threads, PumpSteps, CloseSteps, OnceSteps, WriteOK, Move
<1>23. CASE WriteFails
  BY <1>23, Kinds, GotoOnce DEF Threads, ControlOK, WriteFails
<1>24. CASE AllSent
  BY <1>24, Kinds, GotoPlain DEF Threads, PumpSteps, CloseSteps, OnceSteps, AllSent, Move
<1>25. CASE Polled
  BY <1>25, Kinds, GotoPlain DEF Threads, PumpSteps, CloseSteps, OnceSteps, Polled, Leave
<1>26. CASE NextRequest
  BY <1>26, Kinds, GotoPlain DEF Threads, PumpSteps, CloseSteps, OnceSteps, NextRequest
<1>27. CASE AllHandled
  BY <1>27, Kinds, GotoPlain DEF Threads, PumpSteps, CloseSteps, OnceSteps, AllHandled, Move
<1>28. CASE HandlerReplies
  BY <1>28, Kinds, GotoPlain DEF Threads, PumpSteps, CloseSteps, OnceSteps, HandlerReplies, Move
<1>29. CASE Replied
  BY <1>29, Kinds, GotoPlain DEF Threads, PumpSteps, CloseSteps, OnceSteps, Replied, Leave, Back
<1>30. CASE HandlerCloses
  BY <1>30, Kinds, GotoPlain DEF Threads, PumpSteps, CloseSteps, OnceSteps, HandlerCloses, Move
<1>31. CASE HandlerEnds
  BY <1>31, Kinds, GotoPlain DEF Threads, PumpSteps, CloseSteps, OnceSteps, HandlerEnds, Move
<1>32. CASE Settled
  BY <1>32, Kinds, GotoPlain DEF Threads, PumpSteps, CloseSteps, OnceSteps, Settled, Leave, Back
<1>33. CASE Answered
  BY <1>33, Kinds, GotoPlain DEF Threads, PumpSteps, CloseSteps, OnceSteps, Answered, Leave, Back
<1>34. ASSUME NEW a \in Apps, CallAPI(a) PROVE ControlOK'
  BY <1>34, Kinds, GotoPlain DEF Threads, AppSteps, CloseSteps, OnceSteps, CallAPI, Move
<1>35. ASSUME NEW a \in Apps, APIReturned(a) PROVE ControlOK'
  BY <1>35, Kinds, GotoPlain DEF Threads, AppSteps, CloseSteps, OnceSteps, APIReturned, Leave, Back
<1>36. ASSUME NEW a \in Apps, CallClose(a) PROVE ControlOK'
  BY <1>36, Kinds, GotoPlain DEF Threads, AppSteps, CloseSteps, OnceSteps, CallClose, Move
<1>37. CASE UNCHANGED vars
  BY <1>37 DEF ControlOK
<1> QED
  BY <1>1, <1>2, <1>3, <1>4, <1>5, <1>6, <1>7, <1>8, <1>9, <1>10, <1>11, <1>12, <1>13, <1>14, <1>15, <1>16, <1>17, <1>18, <1>19, <1>20, <1>21, <1>22, <1>23, <1>24, <1>25, <1>26, <1>27, <1>28, <1>29, <1>30, <1>31, <1>32, <1>33, <1>34, <1>35, <1>36, <1>37 DEF Next, WithNode, CloseLink, Close, Connection, PumpStep, App, Ended

LEMMA SharedStep == TypeOK /\ [Next]_vars => SharedOK'
<1> SUFFICES ASSUME ControlOK, SharedOK, [Next]_vars PROVE SharedOK'
  BY DEF TypeOK
<1> USE DEF SharedOK, vars, lock, teardown, closing, wires, work
<1>1. ASSUME NEW t \in Threads, Enter(t) PROVE SharedOK'
  BY <1>1 DEF Enter
<1>2. ASSUME NEW t \in Threads, Refuse(t) PROVE SharedOK'
  BY <1>2 DEF Refuse
<1>3. ASSUME NEW t \in Threads, OnceRun(t) PROVE SharedOK'
  BY <1>3 DEF OnceRun, ControlOK
<1>4. ASSUME NEW t \in Threads, OnceSkip(t) PROVE SharedOK'
  BY <1>4 DEF OnceSkip
<1>5. ASSUME NEW t \in Threads, Disconnected(t) PROVE SharedOK'
  BY <1>5 DEF Disconnected, Leave, FinishOnce, ControlOK
<1>6. ASSUME NEW t \in Threads, DisconnectRefused(t) PROVE SharedOK'
  BY <1>6 DEF DisconnectRefused, FinishOnce, ControlOK
<1>7. ASSUME NEW t \in Threads, CloseBegin(t) PROVE SharedOK'
  BY <1>7 DEF CloseBegin
<1>8. ASSUME NEW t \in Threads, Signal(t) PROVE SharedOK'
  BY <1>8 DEF Signal
<1>9. ASSUME NEW t \in Threads, RunCloser(t) PROVE SharedOK'
  BY <1>9 DEF RunCloser, CallCloseLink
<1>10. ASSUME NEW t \in Threads, FreeBegin(t) PROVE SharedOK'
  BY <1>10 DEF FreeBegin
<1>11. ASSUME NEW t \in Threads, FreeEnd(t) PROVE SharedOK'
  BY <1>11 DEF FreeEnd, Leave
<1>12. ASSUME NEW l \in Links, RegisterLink(l) PROVE SharedOK'
  BY <1>12 DEF RegisterLink
<1>13. ASSUME NEW l \in Links, Connected(l) PROVE SharedOK'
  BY <1>13 DEF Connected, Leave, Threads
<1>14. ASSUME NEW l \in Links, RegisterCloser(l) PROVE SharedOK'
  BY <1>14 DEF RegisterCloser, CallCloseLink
<1>15. ASSUME NEW l \in Links, ReadFrame(l) PROVE SharedOK'
  BY <1>15 DEF ReadFrame, Move
<1>16. ASSUME NEW l \in Links, Delivered(l) PROVE SharedOK'
  BY <1>16 DEF Delivered, Leave, Threads, Back
<1>17. ASSUME NEW l \in Links, ReadFails(l) PROVE SharedOK'
  BY <1>17 DEF ReadFails, CallCloseLink
<1>18. CASE Tick
  BY <1>18 DEF Tick, Move
<1>19. CASE PumpExit
  BY <1>19 DEF PumpExit, Move
<1>20. CASE Drained
  BY <1>20 DEF Drained, Leave
<1>21. CASE LookupLink
  BY <1>21 DEF LookupLink
<1>22. CASE WriteOK
  BY <1>22 DEF WriteOK, Move
<1>23. CASE WriteFails
  BY <1>23 DEF WriteFails, CallCloseLink
<1>24. CASE AllSent
  BY <1>24 DEF AllSent, Move
<1>25. CASE Polled
  BY <1>25 DEF Polled, Leave
<1>26. CASE NextRequest
  BY <1>26, MaxBatchAssumption DEF NextRequest
<1>27. CASE AllHandled
  BY <1>27 DEF AllHandled, Move
<1>28. CASE HandlerReplies
  BY <1>28 DEF HandlerReplies, Move
<1>29. CASE Replied
  BY <1>29 DEF Replied, Leave, Back
<1>30. CASE HandlerCloses
  BY <1>30 DEF HandlerCloses, Move
<1>31. CASE HandlerEnds
  BY <1>31 DEF HandlerEnds, Move
<1>32. CASE Settled
  BY <1>32 DEF Settled, Leave, Back
<1>33. CASE Answered
  BY <1>33 DEF Answered, Leave, Back
<1>34. ASSUME NEW a \in Apps, CallAPI(a) PROVE SharedOK'
  BY <1>34 DEF CallAPI, Move
<1>35. ASSUME NEW a \in Apps, APIReturned(a) PROVE SharedOK'
  BY <1>35 DEF APIReturned, Leave, Threads, Back
<1>36. ASSUME NEW a \in Apps, CallClose(a) PROVE SharedOK'
  BY <1>36 DEF CallClose, Move
<1>37. CASE UNCHANGED vars
  BY <1>37
<1> QED
  BY <1>1, <1>2, <1>3, <1>4, <1>5, <1>6, <1>7, <1>8, <1>9, <1>10, <1>11, <1>12, <1>13, <1>14, <1>15, <1>16, <1>17, <1>18, <1>19, <1>20, <1>21, <1>22, <1>23, <1>24, <1>25, <1>26, <1>27, <1>28, <1>29, <1>30, <1>31, <1>32, <1>33, <1>34, <1>35, <1>36, <1>37 DEF Next, WithNode, CloseLink, Close, Connection, PumpStep, App, Ended

-----------------------------------------------------------------------------
(* The lock, the teardown and the hooks *)

SafetyInv == LockInv /\ TeardownInv /\ HookInv

\* The steps of closeLink and of the first Close.
Delicate == OnceSteps \cup {"signal", "closers", "free"}
Beginning == {"start", "connect", "register"}

\* A thread that moves between steps that are not delicate disturbs nothing, be
\* it on its own or by returning from a libhop call.
LEMMA PlainMove ==
    ASSUME CloseSafe, NEW t \in Threads, NEW label \in Steps \ Delicate, Goto(t, label),
           pc[t] \notin Delicate,
           t \in Links => (label \in Beginning <=> pc[t] \in Beginning),
           UNCHANGED <<teardown, ret, once>>,
           \A u \in Threads \ {t} : target'[u] = target[u],
           (t \notin inCore /\ UNCHANGED lock) \/ Leave(t, pc[t])
    PROVE  SafetyInv'
<1> USE DEF CloseSafe, TypeOK, ControlOK, SharedOK, Goto, Delicate, OnceSteps, teardown, lock
<1>1. /\ pc'[t] = label
      /\ \A u \in Threads \ {t} : pc'[u] = pc[u]
      /\ pc' \in [Threads -> Steps]
  OBVIOUS
<1>2. \A u \in Threads : /\ Tearing(u)' <=> Tearing(u)
                         /\ Tearing(u) => u # t
  BY <1>1 DEF Tearing
<1>3. LockInv'
  BY <1>1, ThreadsDiffer DEF LockInv, Leave, Threads
<1>4. TeardownInv'
  BY <1>1, <1>2 DEF TeardownInv, TornDownOnce
<1>5. \A l \in Links : Registered(l)' => Registered(l)
  BY <1>1 DEF Registered, Beginning, Threads
<1>6. \A u \in Threads, l \in Links : Tearing(u) /\ InHand(u, l) => Tearing(u)' /\ InHand(u, l)'
  BY <1>1, <1>2 DEF InHand
<1>7. HookInv'
  BY <1>1, <1>5, <1>6 DEF HookInv
<1> QED
  BY <1>3, <1>4, <1>7 DEF SafetyInv

\* withNode lets a thread in only while the endpoint is open.
LEMMA EnterStep == ASSUME CloseSafe, NEW t \in Threads, Enter(t) PROVE SafetyInv'
<1> USE DEF CloseSafe, TypeOK, ControlOK, SharedOK, Enter, teardown, closing, Sites, Refused
<1>1. \A u \in Threads : Tearing(u)' <=> Tearing(u)
  BY DEF Tearing
<1>2. LockInv'
  BY ThreadsDiffer DEF LockInv, Threads
<1>3. TeardownInv'
  BY <1>1 DEF TeardownInv, TornDownOnce
<1>4. HookInv'
  BY <1>1 DEF HookInv, Registered, InHand
<1> QED
  BY <1>2, <1>3, <1>4 DEF SafetyInv

\* A closeLink that returns, whether it closed the link or found it closed.
LEMMA LinkDone ==
    ASSUME CloseSafe, NEW t \in Threads, pc[t] \in OnceSteps, once'[target[t]] = "done",
           Goto(t, ret[t]), \A l \in Links : once[l] = "done" => once'[l] = "done",
           UNCHANGED <<teardown, target, ret>>,
           (t \notin inCore /\ UNCHANGED lock) \/ Leave(t, pc[t])
    PROVE  SafetyInv'
<1> USE DEF CloseSafe, TypeOK, ControlOK, SharedOK, Goto, OnceSteps, teardown, lock
<1>1. /\ pc'[t] = ret[t]
      /\ \A u \in Threads \ {t} : pc'[u] = pc[u]
      /\ pc' \in [Threads -> Steps]
      /\ target[t] \in Links
      /\ ret[t] \in {"read", "gone", "send", "closers"}
      /\ t \in Links => target[t] = t
  BY Returning, StepsAreSteps, Kinds DEF Threads
<1>2. \A u \in Threads : /\ Tearing(u)' <=> Tearing(u)
                         /\ pc'[u] = "signal" <=> pc[u] = "signal"
  BY <1>1 DEF Tearing
<1>3. LockInv'
  BY <1>1, ThreadsDiffer DEF LockInv, Leave, Threads
<1>4. TeardownInv'
  BY <1>1, <1>2 DEF TeardownInv, TornDownOnce
<1>5. \A l \in Links : Registered(l)' => Registered(l) \/ once'[l] = "done"
  BY <1>1 DEF Registered, Threads
<1>6. \A u \in Threads, l \in Links :
        Tearing(u) /\ InHand(u, l) => (Tearing(u)' /\ InHand(u, l)') \/ once'[l] = "done"
  BY <1>1, <1>2 DEF InHand
<1>7. HookInv'
  BY <1>1, <1>5, <1>6 DEF HookInv
<1> QED
  BY <1>3, <1>4, <1>7 DEF SafetyInv

\* A thread other than the one tearing down begins a closeLink, or a closeLink
\* goes on to linkDown.
LEMMA LinkClosing ==
    ASSUME CloseSafe, NEW t \in Threads, NEW label \in OnceSteps, Goto(t, label), label # pc[t],
           UNCHANGED <<lock, teardown>>, t \notin inCore,
           \/ pc[t] = "once" /\ UNCHANGED <<target, ret>>
           \/ /\ pc[t] \notin Delicate
              /\ \E l \in TargetsOf(t) : target' = [target EXCEPT ![t] = l]
              /\ \E next \in ReturnsOf(t) \ {"closers"} : ret' = [ret EXCEPT ![t] = next]
              /\ t \in Links => pc[t] = "read" \/ (pc[t] = "register" /\ ret'[t] = "read"),
           \A l \in Links : once[l] = "done" => once'[l] = "done"
    PROVE  SafetyInv'
<1> USE DEF CloseSafe, TypeOK, ControlOK, SharedOK, Goto, OnceSteps, Delicate, teardown, lock
<1>1. /\ pc'[t] = label
      /\ \A u \in Threads \ {t} : pc'[u] = pc[u] /\ target'[u] = target[u] /\ ret'[u] = ret[u]
      /\ pc' \in [Threads -> Steps]
  BY DEF Steps
<1>2. /\ pc[t] \notin Delicate => ret'[t] # "closers"
      /\ pc[t] = "once" => ret'[t] = ret[t] /\ target'[t] = target[t]
  BY Kinds DEF Threads
<1>3. \A u \in Threads : /\ Tearing(u)' <=> Tearing(u)
                         /\ pc'[u] = "signal" <=> pc[u] = "signal"
  BY <1>1, <1>2 DEF Tearing
<1>4. LockInv'
  BY <1>1, ThreadsDiffer DEF LockInv, Threads
<1>5. TeardownInv'
  BY <1>1, <1>3 DEF TeardownInv, TornDownOnce
<1>6. \A l \in Links : Registered(l)' => Registered(l)
  BY <1>1, <1>2, Kinds DEF Registered, Threads, LinkSteps
<1>7. \A u \in Threads, l \in Links : Tearing(u) /\ InHand(u, l) => Tearing(u)' /\ InHand(u, l)'
  BY <1>1, <1>2, <1>3 DEF InHand, Tearing
<1>8. HookInv'
  BY <1>1, <1>6, <1>7 DEF HookInv
<1> QED
  BY <1>4, <1>5, <1>8 DEF SafetyInv

\* The first Close takes over every hook registered so far.
LEMMA CloseBeginStep ==
    ASSUME CloseSafe, NEW t \in Threads, CloseBegin(t), ~closed PROVE SafetyInv'
<1> USE DEF CloseSafe, TypeOK, ControlOK, SharedOK, Goto, CloseBegin, lock, closing
<1>1. /\ pc[t] = "stop" /\ pc'[t] = "signal"
      /\ \A u \in Threads \ {t} : pc'[u] = pc[u]
      /\ pc' \in [Threads -> Steps]
      /\ closed' /\ closers' = {} /\ batch'[t] = closers
      /\ \A u \in Threads \ {t} : batch'[u] = batch[u]
  BY DEF Steps, CloseSteps
<1>2. /\ \A u \in Threads : ~Tearing(u)
      /\ \A u \in Threads : Tearing(u)' <=> u = t
  BY <1>1 DEF TeardownInv, Tearing, OnceSteps
<1>3. LockInv'
  BY <1>1, ThreadsDiffer DEF LockInv, Threads
<1>4. TeardownInv'
  BY <1>1, <1>2 DEF TeardownInv, TornDownOnce
<1>5. t \notin Links
  BY Closing, <1>1 DEF CloseSteps
<1>6. \A l \in Links : Registered(l)' => Registered(l)
  BY <1>1, <1>5 DEF Registered, Threads
<1>7. \A l \in closers : InHand(t, l)'
  BY <1>1 DEF InHand
<1>8. HookInv'
  BY <1>1, <1>2, <1>6, <1>7 DEF HookInv, LockInv
<1> QED
  BY <1>3, <1>4, <1>8 DEF SafetyInv

\* The thread that tears the endpoint down closes done, runs the next hook, or
\* takes the lock for the free; it stays the only one.
LEMMA TeardownGoesOn ==
    ASSUME CloseSafe, NEW t \in Threads, Signal(t) \/ RunCloser(t) \/ FreeBegin(t)
    PROVE  SafetyInv'
<1> USE DEF CloseSafe, TypeOK, ControlOK, SharedOK, Goto, closing
<1> DEFINE Others == \A u \in Threads \ {t} : /\ pc'[u] = pc[u] /\ target'[u] = target[u]
                                              /\ ret'[u] = ret[u] /\ batch'[u] = batch[u]
<1>1. /\ pc[t] \in {"signal", "closers"}
      /\ pc'[t] \in {"closers", "once", "free"}
      /\ pc'[t] = "once" => ret'[t] = "closers"
      /\ signals' = (IF pc[t] = "signal" THEN signals + 1 ELSE signals)
      /\ Others /\ pc' \in [Threads -> Steps]
      /\ UNCHANGED <<closed, frees, closers, once>>
  BY DEF Signal, RunCloser, FreeBegin, CallCloseLink, Steps, OnceSteps, CloseSteps, teardown
<1>2. /\ Tearing(t) /\ Tearing(t)'
      /\ \A u \in Threads \ {t} : ~Tearing(u) /\ ~Tearing(u)'
  BY <1>1 DEF Tearing, OnceSteps, TeardownInv
<1>3. LockInv'
  BY <1>1, ThreadsDiffer
     DEF LockInv, Threads, Signal, RunCloser, FreeBegin, CallCloseLink, lock, Sites, Refused
<1>4. TeardownInv'
  BY <1>1, <1>2 DEF TeardownInv, TornDownOnce
<1>5. t \notin Links
  BY Closing, <1>1 DEF CloseSteps
<1>6. \A l \in Links : Registered(l)' => Registered(l)
  BY <1>1, <1>5 DEF Registered, Threads
<1>7. \A l \in Links : InHand(t, l) => InHand(t, l)'
  BY <1>1 DEF InHand, Signal, RunCloser, FreeBegin, CallCloseLink, OnceSteps, teardown
<1>8. \A u \in Threads : pc'[u] = "free" => batch'[u] = {}
  BY <1>1 DEF HookInv, Signal, RunCloser, FreeBegin, CallCloseLink, teardown
<1>9. HookInv'
  BY <1>1, <1>2, <1>6, <1>7, <1>8 DEF HookInv
<1> QED
  BY <1>3, <1>4, <1>9 DEF SafetyInv

\* The node is freed: nobody is tearing down any more, and no hook is left over.
LEMMA FreeEndStep == ASSUME CloseSafe, NEW t \in Threads, FreeEnd(t) PROVE SafetyInv'
<1> USE DEF CloseSafe, TypeOK, ControlOK, SharedOK, Goto, FreeEnd, Leave, closing
<1>1. /\ pc[t] = "free" /\ pc'[t] \in {"handle", "returned"}
      /\ \A u \in Threads \ {t} : pc'[u] = pc[u]
      /\ pc' \in [Threads -> Steps]
      /\ frees' = frees + 1
      /\ UNCHANGED <<closed, signals, closers, batch, target, ret, once>>
  BY DEF Resume, Steps, PumpSteps, AppSteps
<1>2. /\ Tearing(t) /\ ~Tearing(t)'
      /\ \A u \in Threads \ {t} : ~Tearing(u) /\ ~Tearing(u)'
  BY <1>1 DEF Tearing, OnceSteps, TeardownInv
<1>3. LockInv'
  BY <1>1, ThreadsDiffer DEF LockInv, Threads
<1>4. TeardownInv'
  BY <1>1, <1>2 DEF TeardownInv, TornDownOnce
<1>5. t \notin Links
  BY Closing, <1>1 DEF CloseSteps
<1>6. \A l \in Links : Registered(l)' => Registered(l)
  BY <1>1, <1>5 DEF Registered, Threads
<1>7. \A l \in Links : Registered(l) => once[l] = "done"
  BY <1>1, <1>2 DEF HookInv, TeardownInv, InHand, OnceSteps
<1>8. HookInv'
  BY <1>1, <1>6, <1>7 DEF HookInv
<1> QED
  BY <1>3, <1>4, <1>8 DEF SafetyInv

\* registerCloser on an open endpoint: the hook goes on record as the connection
\* becomes registered.
LEMMA RegisterStep == ASSUME CloseSafe, NEW l \in Links, RegisterCloser(l), ~closed PROVE SafetyInv'
<1> USE DEF CloseSafe, TypeOK, ControlOK, SharedOK, Goto, RegisterCloser, lock, closing
<1>1. /\ l \in Threads /\ pc[l] = "register" /\ pc'[l] = "read"
      /\ \A u \in Threads \ {l} : pc'[u] = pc[u]
      /\ pc' \in [Threads -> Steps]
      /\ closers' = closers \cup {l}
  BY DEF Threads, Steps, LinkSteps
<1>2. /\ \A u \in Threads : ~Tearing(u)
      /\ \A u \in Threads : ~Tearing(u)'
  BY <1>1 DEF Tearing, OnceSteps, TeardownInv
<1>3. LockInv'
  BY <1>1, ThreadsDiffer DEF LockInv, Threads
<1>4. TeardownInv'
  BY <1>1, <1>2 DEF TeardownInv, TornDownOnce
<1>5. \A k \in Links : Registered(k)' => Registered(k) \/ k = l
  BY <1>1 DEF Registered, Threads
<1>6. HookInv'
  BY <1>1, <1>2, <1>5 DEF HookInv
<1> QED
  BY <1>3, <1>4, <1>6 DEF SafetyInv

-----------------------------------------------------------------------------
(* The invariant and what follows from it *)

LEMMA SafetyStep == CloseSafe /\ [Next]_vars => SafetyInv'
<1> SUFFICES ASSUME CloseSafe, [Next]_vars PROVE SafetyInv'
  OBVIOUS
<1> USE DEF lock, closing, wires, work
<1>a. TypeOK /\ ControlOK /\ SharedOK /\ LockInv
  BY DEF CloseSafe, TypeOK
<1>b. \A t \in Threads : pc[t] \notin Sites \cup {"free"} => t \notin inCore
  BY <1>a DEF LockInv
<1>c. nodeMu = None => inCore = {}
  BY <1>a DEF LockInv
<1>d. Links \subseteq Threads /\ Apps \subseteq Threads /\ Pump \in Threads
  BY DEF Threads
<1>1. ASSUME NEW t \in Threads, Enter(t) PROVE SafetyInv'
  BY <1>1, EnterStep
<1>2. ASSUME NEW t \in Threads, Refuse(t) PROVE SafetyInv'
  <2>1. Refused[pc[t]] \in Steps \ Delicate
    BY <1>2 DEF Refuse, Refused, Steps, Delicate, OnceSteps, LinkSteps, PumpSteps, AppSteps
  <2>2. t \in Links => (Refused[pc[t]] \in Beginning <=> pc[t] \in Beginning)
    BY <1>2 DEF Refuse, Refused, Beginning
  <2>3. pc[t] \notin Delicate
    BY <1>2 DEF Refuse, Refused, Delicate, OnceSteps
  <2> QED
    BY <1>2, <2>1, <2>2, <2>3, PlainMove, <1>c DEF Refuse
<1>3. ASSUME NEW t \in Threads, OnceRun(t) PROVE SafetyInv'
  BY <1>3, LinkClosing, <1>a, <1>b DEF SharedOK, OnceSteps, Sites, Refused, OnceRun
<1>4. ASSUME NEW t \in Threads, OnceSkip(t) PROVE SafetyInv'
  BY <1>4, LinkDone, <1>a, <1>b, <1>c DEF ControlOK, SharedOK, OnceSteps, Sites, Refused, OnceSkip
<1>5. ASSUME NEW t \in Threads, Disconnected(t) PROVE SafetyInv'
  <2>1. pc[t] = "down" /\ target[t] \in Links
    BY <1>5, Kinds, <1>a DEF Disconnected, Leave, FinishOnce, ControlOK, OnceSteps, Threads
  <2>2. /\ once'[target[t]] = "done"
        /\ \A l \in Links : once[l] = "done" => once'[l] = "done"
    BY <1>5, <2>1, <1>a DEF Disconnected, Leave, FinishOnce, SharedOK
  <2> QED
    BY <1>5, <2>1, <2>2, LinkDone, <1>c DEF Disconnected, Leave, FinishOnce, OnceSteps
<1>6. ASSUME NEW t \in Threads, DisconnectRefused(t) PROVE SafetyInv'
  <2>1. pc[t] = "down" /\ target[t] \in Links
    BY <1>6, Kinds, <1>a DEF DisconnectRefused, FinishOnce, ControlOK, OnceSteps, Threads
  <2>2. /\ once'[target[t]] = "done"
        /\ \A l \in Links : once[l] = "done" => once'[l] = "done"
    BY <1>6, <2>1, <1>a DEF DisconnectRefused, FinishOnce, SharedOK
  <2> QED
    BY <1>6, <2>1, <2>2, LinkDone, <1>c DEF DisconnectRefused, FinishOnce, OnceSteps
<1>7. ASSUME NEW t \in Threads, CloseBegin(t) PROVE SafetyInv'
  <2>1. CASE closed
    BY <1>7, <2>1, PlainMove, Closing, <1>a, <1>c DEF CloseBegin, Delicate, OnceSteps, Steps, CloseSteps,
       PumpSteps, AppSteps, Resume, teardown
  <2> QED
    BY <1>7, <2>1, CloseBeginStep
<1>8. ASSUME NEW t \in Threads, Signal(t) PROVE SafetyInv'
  BY <1>8, TeardownGoesOn
<1>9. ASSUME NEW t \in Threads, RunCloser(t) PROVE SafetyInv'
  BY <1>9, TeardownGoesOn
<1>10. ASSUME NEW t \in Threads, FreeBegin(t) PROVE SafetyInv'
  BY <1>10, TeardownGoesOn
<1>11. ASSUME NEW t \in Threads, FreeEnd(t) PROVE SafetyInv'
  BY <1>11, FreeEndStep
<1>12. ASSUME NEW l \in Links, RegisterLink(l) PROVE SafetyInv'
  BY <1>12, PlainMove, ThreadsDiffer, <1>a, <1>b, <1>c, <1>d DEF Delicate, OnceSteps, Steps, Sites, Refused, LinkSteps, Beginning, RegisterLink
<1>13. ASSUME NEW l \in Links, Connected(l) PROVE SafetyInv'
  BY <1>13, PlainMove, ThreadsDiffer, <1>a, <1>b, <1>c, <1>d DEF Delicate, OnceSteps, Steps, Sites, Refused, LinkSteps, Beginning, Connected, Leave
<1>14. ASSUME NEW l \in Links, RegisterCloser(l) PROVE SafetyInv'
  <2>1. CASE closed
    <3>1. CallCloseLink(l, l, "read") /\ UNCHANGED <<lock, teardown>>
      BY <1>14, <2>1 DEF RegisterCloser, teardown
    <3>2. l \in TargetsOf(l) /\ "read" \in ReturnsOf(l) \ {"closers"}
      BY Kinds
    <3>3. l \in Threads /\ pc[l] = "register" /\ l \notin inCore
      BY <1>14, <1>c, <1>d DEF RegisterCloser
    <3>4. ret'[l] = "read"
      BY <3>1, <3>3, <1>a DEF CallCloseLink, ControlOK
    <3> QED
      BY <3>1, <3>2, <3>3, <3>4, LinkClosing DEF CallCloseLink, Delicate, OnceSteps
  <2> QED
    BY <1>14, <2>1, RegisterStep
<1>15. ASSUME NEW l \in Links, ReadFrame(l) PROVE SafetyInv'
  BY <1>15, PlainMove, ThreadsDiffer, <1>a, <1>b, <1>c, <1>d DEF Delicate, OnceSteps, Steps, Sites, Refused, LinkSteps, Beginning, ReadFrame, Move
<1>16. ASSUME NEW l \in Links, Delivered(l) PROVE SafetyInv'
  BY <1>16, PlainMove, ThreadsDiffer, <1>a, <1>b, <1>c, <1>d DEF Delicate, OnceSteps, Steps, Sites, Refused, LinkSteps, Beginning, Delivered, Leave, Back
<1>17. ASSUME NEW l \in Links, ReadFails(l) PROVE SafetyInv'
  BY <1>17, LinkClosing, Kinds, <1>a, <1>b, <1>d
     DEF ReadFails, CallCloseLink, Delicate, OnceSteps, Sites, Refused
<1>18. CASE Tick
  BY <1>18, PlainMove, ThreadsDiffer, <1>a, <1>b, <1>c, <1>d DEF Delicate, OnceSteps, Steps, Sites, Refused, PumpSteps, CloseSteps, Tick, Move
<1>19. CASE PumpExit
  BY <1>19, PlainMove, ThreadsDiffer, <1>a, <1>b, <1>c, <1>d DEF Delicate, OnceSteps, Steps, Sites, Refused, PumpSteps, CloseSteps, PumpExit, Move
<1>20. CASE Drained
  BY <1>20, PlainMove, ThreadsDiffer, <1>a, <1>b, <1>c, <1>d DEF Delicate, OnceSteps, Steps, Sites, Refused, PumpSteps, CloseSteps, Drained, Leave
<1>21. CASE LookupLink
  <2>1. PICK l \in outbox : IF l \in links
                           THEN target' = [target EXCEPT ![Pump] = l] /\ Goto(Pump, "write")
                           ELSE UNCHANGED <<target, pc>>
    BY <1>21 DEF LookupLink
  <2>2. Pump \notin inCore /\ Pump \notin Links /\ pc[Pump] = "send"
    BY <1>21, <1>b, <1>d, ThreadsDiffer DEF LookupLink, Sites, Refused
  <2>3. \A u \in Threads \ {Pump} : target'[u] = target[u]
    BY <2>1, <1>a DEF ControlOK
  <2>4. Goto(Pump, "write") \/ Goto(Pump, "send")
    BY <2>1, <2>2, <1>a DEF Goto, ControlOK
  <2> QED
    BY <1>21, <2>2, <2>3, <2>4, PlainMove, <1>d
       DEF LookupLink, Delicate, OnceSteps, Steps, PumpSteps
<1>22. CASE WriteOK
  BY <1>22, PlainMove, ThreadsDiffer, <1>a, <1>b, <1>c, <1>d DEF Delicate, OnceSteps, Steps, Sites, Refused, PumpSteps, CloseSteps, WriteOK, Move
<1>23. CASE WriteFails
  BY <1>23, LinkClosing, Kinds, ThreadsDiffer, <1>a, <1>b, <1>d
     DEF WriteFails, CallCloseLink, Delicate, OnceSteps, Sites, Refused, ControlOK
<1>24. CASE AllSent
  BY <1>24, PlainMove, ThreadsDiffer, <1>a, <1>b, <1>c, <1>d DEF Delicate, OnceSteps, Steps, Sites, Refused, PumpSteps, CloseSteps, AllSent, Move
<1>25. CASE Polled
  BY <1>25, PlainMove, ThreadsDiffer, <1>a, <1>b, <1>c, <1>d DEF Delicate, OnceSteps, Steps, Sites, Refused, PumpSteps, CloseSteps, Polled, Leave
<1>26. CASE NextRequest
  BY <1>26, PlainMove, ThreadsDiffer, <1>a, <1>b, <1>c, <1>d DEF Delicate, OnceSteps, Steps, Sites, Refused, PumpSteps, CloseSteps, NextRequest
<1>27. CASE AllHandled
  BY <1>27, PlainMove, ThreadsDiffer, <1>a, <1>b, <1>c, <1>d DEF Delicate, OnceSteps, Steps, Sites, Refused, PumpSteps, CloseSteps, AllHandled, Move
<1>28. CASE HandlerReplies
  BY <1>28, PlainMove, ThreadsDiffer, <1>a, <1>b, <1>c, <1>d DEF Delicate, OnceSteps, Steps, Sites, Refused, PumpSteps, CloseSteps, HandlerReplies, Move
<1>29. CASE Replied
  BY <1>29, PlainMove, ThreadsDiffer, <1>a, <1>b, <1>c, <1>d DEF Delicate, OnceSteps, Steps, Sites, Refused, PumpSteps, CloseSteps, Replied, Leave, Back
<1>30. CASE HandlerCloses
  BY <1>30, PlainMove, ThreadsDiffer, <1>a, <1>b, <1>c, <1>d DEF Delicate, OnceSteps, Steps, Sites, Refused, PumpSteps, CloseSteps, HandlerCloses, Move
<1>31. CASE HandlerEnds
  BY <1>31, PlainMove, ThreadsDiffer, <1>a, <1>b, <1>c, <1>d DEF Delicate, OnceSteps, Steps, Sites, Refused, PumpSteps, CloseSteps, HandlerEnds, Move
<1>32. CASE Settled
  BY <1>32, PlainMove, ThreadsDiffer, <1>a, <1>b, <1>c, <1>d DEF Delicate, OnceSteps, Steps, Sites, Refused, PumpSteps, CloseSteps, Settled, Leave, Back
<1>33. CASE Answered
  BY <1>33, PlainMove, ThreadsDiffer, <1>a, <1>b, <1>c, <1>d DEF Delicate, OnceSteps, Steps, Sites, Refused, PumpSteps, CloseSteps, Answered, Leave, Back
<1>34. ASSUME NEW a \in Apps, CallAPI(a) PROVE SafetyInv'
  BY <1>34, PlainMove, ThreadsDiffer, <1>a, <1>b, <1>c, <1>d DEF Delicate, OnceSteps, Steps, Sites, Refused, AppSteps, CloseSteps, CallAPI, Move
<1>35. ASSUME NEW a \in Apps, APIReturned(a) PROVE SafetyInv'
  BY <1>35, PlainMove, ThreadsDiffer, <1>a, <1>b, <1>c, <1>d DEF Delicate, OnceSteps, Steps, Sites, Refused, AppSteps, CloseSteps, APIReturned, Leave, Back
<1>36. ASSUME NEW a \in Apps, CallClose(a) PROVE SafetyInv'
  BY <1>36, PlainMove, ThreadsDiffer, <1>a, <1>b, <1>c, <1>d DEF Delicate, OnceSteps, Steps, Sites, Refused, AppSteps, CloseSteps, CallClose, Move
<1>37. CASE UNCHANGED vars
  BY <1>37 DEF vars, teardown, CloseSafe, SafetyInv, LockInv, TeardownInv, TornDownOnce, HookInv,
     Tearing, InHand, Registered
<1> QED
  BY <1>1, <1>2, <1>3, <1>4, <1>5, <1>6, <1>7, <1>8, <1>9, <1>10, <1>11, <1>12, <1>13, <1>14, <1>15, <1>16, <1>17, <1>18, <1>19, <1>20, <1>21, <1>22, <1>23, <1>24, <1>25, <1>26, <1>27, <1>28, <1>29, <1>30, <1>31, <1>32, <1>33, <1>34, <1>35, <1>36, <1>37 DEF Next, WithNode, CloseLink, Close, Connection, PumpStep, App, Ended

LEMMA InitSafe == Init => CloseSafe
<1> SUFFICES ASSUME Init PROVE CloseSafe
  OBVIOUS
<1> USE DEF Init
<1>1. ControlOK
  BY ThreadsDiffer, Kinds DEF ControlOK, Threads, Steps, OnceSteps, LinkSteps, PumpSteps, AppSteps
<1>2. SharedOK
  <2>1. 0 \in 0..MaxBatch
    BY MaxBatchAssumption
  <2>2. /\ batch \in [Threads -> SUBSET Links]
        /\ once \in [Links -> {"fresh", "running", "done"}]
    OBVIOUS
  <2> QED
    BY <2>1, <2>2 DEF SharedOK
<1>3. \A t \in Threads : pc[t] \in {"start", "select", "idle"}
  OBVIOUS
<1>4. LockInv /\ TeardownInv
  BY <1>3 DEF LockInv, TeardownInv, TornDownOnce, Tearing, OnceSteps
<1>5. HookInv
  BY <1>3 DEF HookInv, Registered, Threads
<1> QED
  BY <1>1, <1>2, <1>4, <1>5 DEF CloseSafe, TypeOK

\* CloseSafe is an inductive invariant: endpoint.go's withNode, registerCloser and
\* Close keep it under every interleaving of any number of goroutines.
THEOREM CloseIsSafe == Spec => []CloseSafe
<1>1. CloseSafe /\ [Next]_vars => CloseSafe'
  BY ControlStep, SharedStep, SafetyStep DEF CloseSafe, TypeOK, SafetyInv
<1> QED
  BY InitSafe, <1>1, PTL DEF Spec

\* The type invariant.
THEOREM TypeCorrect == Spec => []TypeOK
  BY CloseIsSafe, PTL DEF CloseSafe

\* Close (endpoint.go) closes done and frees the node at most once, in that order,
\* whoever calls it and however often.
THEOREM TearsDownOnce == Spec => []TornDownOnce
  BY CloseIsSafe, PTL DEF CloseSafe, TeardownInv

LEMMA NothingLeft == CloseSafe => ClosersRun
<1> SUFFICES ASSUME CloseSafe, frees > 0, NEW l \in Links, Registered(l)
             PROVE  once[l] = "done"
  BY DEF ClosersRun
<1>1. closed /\ \A t \in Threads : ~Tearing(t)
  BY DEF CloseSafe, TypeOK, SharedOK, TeardownInv
<1> QED
  BY <1>1 DEF CloseSafe, HookInv

\* When the node is freed, closeLink has completed for every connection past
\* registerCloser: the race of registerCloser with Close loses no hook.
THEOREM NoHookLost == Spec => []ClosersRun
  BY CloseIsSafe, NothingLeft, PTL

-----------------------------------------------------------------------------
(* The endpoint keeps libhop's contract *)

LEMMA Stays ==
    ASSUME CloseSafe, NEW t \in Threads, t \notin inCore, UNCHANGED <<inCore, frees>>,
           UNCHANGED pc \/ \E label \in Steps : Goto(t, label)
    PROVE  UNCHANGED <<inCore, Phase>>
<1>1. \A u \in inCore : pc'[u] = pc[u]
  BY DEF Goto, CloseSafe, TypeOK, ControlOK, SharedOK
<1> QED
  BY <1>1 DEF Phase

LEMMA Enters == ASSUME CloseSafe, NEW t \in Threads, Enter(t) PROVE Node!Call(t)
<1>1. frees = 0 /\ inCore = {} /\ inCore' = {t} /\ frees' = 0 /\ pc' = pc /\ pc[t] # "free"
  BY DEF CloseSafe, LockInv, TeardownInv, Enter, teardown, Sites, Refused
<1> QED
  BY <1>1 DEF Node!Call, Phase

LEMMA Leaves ==
    ASSUME CloseSafe, NEW t \in Threads, NEW site \in Sites, Leave(t, site), UNCHANGED frees
    PROVE  Node!Return(t)
<1>1. inCore = {t} /\ inCore' = {} /\ pc[t] # "free"
  BY DEF CloseSafe, LockInv, Leave, Sites, Refused
<1>2. frees = 0 /\ frees' = 0
  BY <1>1 DEF CloseSafe, LockInv, TeardownInv
<1> QED
  BY <1>1, <1>2 DEF Node!Return, Phase

LEMMA BeginsFree == ASSUME CloseSafe, NEW t \in Threads, FreeBegin(t) PROVE Node!Free(t)
<1>1. frees = 0 /\ inCore = {} /\ inCore' = {t} /\ frees' = 0 /\ pc'[t] = "free"
  BY DEF CloseSafe, TypeOK, ControlOK, LockInv, TeardownInv, Tearing, FreeBegin, teardown, Goto
<1> QED
  BY <1>1 DEF Node!Free, Phase

LEMMA EndsFree == ASSUME CloseSafe, NEW t \in Threads, FreeEnd(t) PROVE Node!Freed(t)
<1>1. inCore = {t} /\ inCore' = {} /\ pc[t] = "free" /\ frees = 0 /\ frees' = 1
  BY DEF CloseSafe, LockInv, TeardownInv, Tearing, FreeEnd, Leave
<1> QED
  BY <1>1 DEF Node!Freed, Phase

\* Every step enters libhop, leaves it, or does not concern the contract.
LEMMA ContractStep == CloseSafe /\ CloseSafe' /\ [Next]_vars => [Node!Next]_(Node!vars)
<1> SUFFICES ASSUME CloseSafe, CloseSafe', [Next]_vars
             PROVE  [Node!Next]_(Node!vars)
  OBVIOUS
<1> USE DEF Node!vars, lock, teardown
<1>a. /\ nodeMu = None => inCore = {}
      /\ \A t \in inCore : pc[t] \in Sites \cup {"free"}
      /\ ControlOK' /\ ControlOK
  BY DEF CloseSafe, TypeOK, LockInv
<1>c. \A t \in Threads : pc[t] \in {"once", "down"} => ret[t] \in Steps
  BY <1>a, Returning, StepsAreSteps DEF ControlOK, OnceSteps
<1>b. Links \subseteq Threads /\ Apps \subseteq Threads /\ Pump \in Threads
  BY DEF Threads
<1>1. ASSUME NEW t \in Threads, Enter(t) PROVE [Node!Next]_(Node!vars)
  BY <1>1, Enters DEF Node!Next
<1>2. ASSUME NEW t \in Threads, Refuse(t) PROVE [Node!Next]_(Node!vars)
  BY <1>2, Stays, <1>a, <1>b DEF Sites, Refused, Steps, CloseSteps, LinkSteps, PumpSteps, AppSteps, OnceSteps, Refuse
<1>3. ASSUME NEW t \in Threads, OnceRun(t) PROVE [Node!Next]_(Node!vars)
  BY <1>3, Stays, <1>a, <1>b DEF Sites, Refused, Steps, CloseSteps, LinkSteps, PumpSteps, AppSteps, OnceSteps, OnceRun
<1>4. ASSUME NEW t \in Threads, OnceSkip(t) PROVE [Node!Next]_(Node!vars)
  BY <1>4, Stays, <1>a, <1>c DEF Sites, Refused, OnceSkip
<1>5. ASSUME NEW t \in Threads, Disconnected(t) PROVE [Node!Next]_(Node!vars)
  BY <1>5, Leaves, <1>b DEF Node!Next, Sites, Refused, Disconnected, FinishOnce
<1>6. ASSUME NEW t \in Threads, DisconnectRefused(t) PROVE [Node!Next]_(Node!vars)
  BY <1>6, Stays, <1>a, <1>c DEF Sites, Refused, DisconnectRefused, FinishOnce
<1>7. ASSUME NEW t \in Threads, CloseBegin(t) PROVE [Node!Next]_(Node!vars)
  BY <1>7, Stays, <1>a, <1>b DEF Sites, Refused, Steps, CloseSteps, LinkSteps, PumpSteps, AppSteps, OnceSteps, CloseBegin, Resume
<1>8. ASSUME NEW t \in Threads, Signal(t) PROVE [Node!Next]_(Node!vars)
  BY <1>8, Stays, <1>a, <1>b DEF Sites, Refused, Steps, CloseSteps, LinkSteps, PumpSteps, AppSteps, OnceSteps, Signal
<1>9. ASSUME NEW t \in Threads, RunCloser(t) PROVE [Node!Next]_(Node!vars)
  BY <1>9, Stays, <1>a, <1>b DEF Sites, Refused, Steps, CloseSteps, LinkSteps, PumpSteps, AppSteps, OnceSteps, RunCloser, CallCloseLink
<1>10. ASSUME NEW t \in Threads, FreeBegin(t) PROVE [Node!Next]_(Node!vars)
  BY <1>10, BeginsFree DEF Node!Next
<1>11. ASSUME NEW t \in Threads, FreeEnd(t) PROVE [Node!Next]_(Node!vars)
  BY <1>11, EndsFree DEF Node!Next
<1>12. ASSUME NEW l \in Links, RegisterLink(l) PROVE [Node!Next]_(Node!vars)
  BY <1>12, Stays, <1>a, <1>b DEF Sites, Refused, Steps, LinkSteps, OnceSteps, RegisterLink
<1>13. ASSUME NEW l \in Links, Connected(l) PROVE [Node!Next]_(Node!vars)
  BY <1>13, Leaves, <1>b DEF Node!Next, Sites, Refused, Connected
<1>14. ASSUME NEW l \in Links, RegisterCloser(l) PROVE [Node!Next]_(Node!vars)
  BY <1>14, Stays, <1>a, <1>b DEF Sites, Refused, Steps, LinkSteps, OnceSteps, RegisterCloser, CallCloseLink
<1>15. ASSUME NEW l \in Links, ReadFrame(l) PROVE [Node!Next]_(Node!vars)
  BY <1>15, Stays, <1>a, <1>b DEF Sites, Refused, Steps, LinkSteps, OnceSteps, ReadFrame, Move
<1>16. ASSUME NEW l \in Links, Delivered(l) PROVE [Node!Next]_(Node!vars)
  BY <1>16, Leaves, <1>b DEF Node!Next, Sites, Refused, Delivered, Back
<1>17. ASSUME NEW l \in Links, ReadFails(l) PROVE [Node!Next]_(Node!vars)
  BY <1>17, Stays, <1>a, <1>b DEF Sites, Refused, Steps, LinkSteps, OnceSteps, ReadFails, CallCloseLink
<1>18. CASE Tick
  BY <1>18, Stays, <1>a, <1>b DEF Sites, Refused, Steps, PumpSteps, OnceSteps, CloseSteps, Tick, Move
<1>19. CASE PumpExit
  BY <1>19, Stays, <1>a, <1>b DEF Sites, Refused, Steps, PumpSteps, OnceSteps, CloseSteps, PumpExit, Move
<1>20. CASE Drained
  BY <1>20, Leaves, <1>b DEF Node!Next, Sites, Refused, Drained
<1>21. CASE LookupLink
  BY <1>21, Stays, <1>a, <1>b DEF Sites, Refused, Steps, PumpSteps, LookupLink
<1>22. CASE WriteOK
  BY <1>22, Stays, <1>a, <1>b DEF Sites, Refused, Steps, PumpSteps, OnceSteps, CloseSteps, WriteOK, Move
<1>23. CASE WriteFails
  BY <1>23, Stays, <1>a, <1>b DEF Sites, Refused, Steps, PumpSteps, OnceSteps, CloseSteps, WriteFails, CallCloseLink
<1>24. CASE AllSent
  BY <1>24, Stays, <1>a, <1>b DEF Sites, Refused, Steps, PumpSteps, OnceSteps, CloseSteps, AllSent, Move
<1>25. CASE Polled
  BY <1>25, Leaves, <1>b DEF Node!Next, Sites, Refused, Polled
<1>26. CASE NextRequest
  BY <1>26, Stays, <1>a, <1>b DEF Sites, Refused, Steps, PumpSteps, OnceSteps, CloseSteps, NextRequest
<1>27. CASE AllHandled
  BY <1>27, Stays, <1>a, <1>b DEF Sites, Refused, Steps, PumpSteps, OnceSteps, CloseSteps, AllHandled, Move
<1>28. CASE HandlerReplies
  BY <1>28, Stays, <1>a, <1>b DEF Sites, Refused, Steps, PumpSteps, OnceSteps, CloseSteps, HandlerReplies, Move
<1>29. CASE Replied
  BY <1>29, Leaves, <1>b DEF Node!Next, Sites, Refused, Replied, Back
<1>30. CASE HandlerCloses
  BY <1>30, Stays, <1>a, <1>b DEF Sites, Refused, Steps, PumpSteps, OnceSteps, CloseSteps, HandlerCloses, Move
<1>31. CASE HandlerEnds
  BY <1>31, Stays, <1>a, <1>b DEF Sites, Refused, Steps, PumpSteps, OnceSteps, CloseSteps, HandlerEnds, Move
<1>32. CASE Settled
  BY <1>32, Leaves, <1>b DEF Node!Next, Sites, Refused, Settled, Back
<1>33. CASE Answered
  BY <1>33, Leaves, <1>b DEF Node!Next, Sites, Refused, Answered, Back
<1>34. ASSUME NEW a \in Apps, CallAPI(a) PROVE [Node!Next]_(Node!vars)
  BY <1>34, Stays, <1>a, <1>b DEF Sites, Refused, Steps, AppSteps, CloseSteps, CallAPI, Move
<1>35. ASSUME NEW a \in Apps, APIReturned(a) PROVE [Node!Next]_(Node!vars)
  BY <1>35, Leaves, <1>b DEF Node!Next, Sites, Refused, APIReturned, Back
<1>36. ASSUME NEW a \in Apps, CallClose(a) PROVE [Node!Next]_(Node!vars)
  BY <1>36, Stays, <1>a, <1>b DEF Sites, Refused, Steps, AppSteps, CloseSteps, CallClose, Move
<1>37. CASE UNCHANGED vars
  BY <1>37 DEF vars, Phase
<1> QED
  BY <1>1, <1>2, <1>3, <1>4, <1>5, <1>6, <1>7, <1>8, <1>9, <1>10, <1>11, <1>12, <1>13, <1>14, <1>15, <1>16, <1>17, <1>18, <1>19, <1>20, <1>21, <1>22, <1>23, <1>24, <1>25, <1>26, <1>27, <1>28, <1>29, <1>30, <1>31, <1>32, <1>33, <1>34, <1>35, <1>36, <1>37 DEF Next, WithNode, CloseLink, Close, Connection, PumpStep, App, Ended

\* The endpoint implements libhop's contract on the handle: no call overlaps or
\* follows hop_node_free, which is called at most once.
THEOREM KeepsContract == Spec => Contract
<1>1. Init => Node!Init
  BY DEF Init, Node!Init, Phase
<1> QED
  BY <1>1, CloseIsSafe, ContractStep, PTL DEF Spec, Contract, Node!Spec

-----------------------------------------------------------------------------
(* Links *)

\* A link has its send function from registerLink to closeLink.  Until the core
\* has been told of it nobody else knows of it: the pump has no packet for it,
\* and no Close its hook.  closeLink leaves the core without it.
LinkInv ==
    /\ \A l \in Links :
          /\ l \in links <=> pc[l] # "start" /\ once[l] = "fresh"
          /\ pc[l] \in {"start", "connect"} =>
                /\ l \notin coreUp /\ l \notin outbox /\ l \notin closers
                /\ once[l] = "fresh"
          /\ once[l] = "done" /\ l \in coreUp => closed
    /\ \A t \in Threads, l \in Links : pc[l] \in {"start", "connect"} =>
          l \notin batch[t] /\ (pc[t] \in {"once", "down", "write"} => target[t] # l)
    /\ \A t \in Threads : pc[t] = "down" => once[target[t]] # "fresh"

LEMMA LinkStep == TypeOK /\ LinkInv /\ [Next]_vars => LinkInv'
<1> SUFFICES ASSUME TypeOK, LinkInv, [Next]_vars PROVE LinkInv'
  OBVIOUS
<1>a. /\ pc \in [Threads -> Steps] /\ target \in [Threads -> Links \cup {None}]
      /\ once \in [Links -> {"fresh", "running", "done"}] /\ batch \in [Threads -> SUBSET Links]
      /\ links \subseteq Links /\ coreUp \subseteq Links /\ outbox \subseteq Links /\ closers \subseteq Links
      /\ closed \in BOOLEAN /\ ret \in [Threads -> Steps \cup {"none"}]
  BY DEF TypeOK, ControlOK, SharedOK
<1>b. Links \subseteq Threads /\ Pump \in Threads /\ Pump \notin Links /\ \A a \in Apps : a \in Threads /\ a \notin Links
  BY ThreadsDiffer DEF Threads
<1>c. \A t \in Threads : pc[t] \in {"once", "down"} =>
         target[t] \in Links /\ ret[t] \in {"read", "gone", "closers", "send"}
  BY Kinds DEF TypeOK, ControlOK, OnceSteps, Threads
<1>d. \A t \in Links : pc[t] \in {"once", "down"} => target[t] = t
  BY Kinds DEF TypeOK, ControlOK, OnceSteps, Threads
<1>e. pc[Pump] = "write" => target[Pump] \in Links
  BY <1>b DEF TypeOK, ControlOK
<1> USE <1>a, <1>b DEF LinkInv, Goto, lock, teardown, closing, work, wires
<1>1. ASSUME NEW t \in Threads, Enter(t) PROVE LinkInv'
  BY <1>1 DEF Enter
<1>2. ASSUME NEW t \in Threads, Refuse(t) PROVE LinkInv'
  BY <1>2 DEF Refuse, Refused
<1>3. ASSUME NEW t \in Threads, OnceRun(t) PROVE LinkInv'
  <2>0. PICK m \in Links : m = target[t]
    BY <1>3, <1>c DEF OnceRun
  <2>a. /\ pc[t] = "once" /\ once[m] = "fresh"
        /\ once' = [once EXCEPT ![m] = "running"] /\ links' = links \ {m} /\ pc' = [pc EXCEPT ![t] = "down"]
        /\ UNCHANGED <<target, coreUp, outbox, closers, batch, closed>>
    BY <1>3, <2>0 DEF OnceRun
  <2>b. pc[m] \notin {"start", "connect"}
    BY <2>0, <2>a
  <2>1. /\ m = target[t] /\ pc[t] = "once" /\ once[m] = "fresh" /\ pc[m] \notin {"start", "connect"}
        /\ once' = [once EXCEPT ![m] = "running"] /\ links' = links \ {m} /\ pc' = [pc EXCEPT ![t] = "down"]
        /\ UNCHANGED <<target, coreUp, outbox, closers, batch, closed>>
    BY <2>0, <2>a, <2>b
  <2>2. \A l \in Links : l \in links' <=> pc'[l] # "start" /\ once'[l] = "fresh"
    BY <2>1
  <2>3. ASSUME NEW l \in Links, pc'[l] \in {"start", "connect"}
        PROVE  /\ pc[l] \in {"start", "connect"} /\ once'[l] = "fresh"
               /\ \A u \in Threads : pc'[u] \in {"once", "down", "write"} => target[u] # l
    BY <2>1, <2>3
  <2>4. \A l \in Links : once'[l] = "done" => once[l] = "done"
    BY <2>1
  <2>5. \A u \in Threads : pc'[u] = "down" => once'[target[u]] # "fresh"
    BY <2>1, <1>c
  <2> QED
    BY <2>1, <2>2, <2>3, <2>4, <2>5
<1>4. ASSUME NEW t \in Threads, OnceSkip(t) PROVE LinkInv'
  BY <1>4, <1>c DEF OnceSkip
<1>5. ASSUME NEW t \in Threads, Disconnected(t) PROVE LinkInv'
  BY <1>5, <1>c, <1>d DEF Disconnected, Leave, FinishOnce
<1>6. ASSUME NEW t \in Threads, DisconnectRefused(t) PROVE LinkInv'
  BY <1>6, <1>c, <1>d DEF DisconnectRefused, FinishOnce
<1>7. ASSUME NEW t \in Threads, CloseBegin(t) PROVE LinkInv'
  BY <1>7 DEF CloseBegin, Resume
<1>8. ASSUME NEW t \in Threads, Signal(t) PROVE LinkInv'
  BY <1>8 DEF Signal
<1>9. ASSUME NEW t \in Threads, RunCloser(t) PROVE LinkInv'
  <2>1. PICK m \in batch[t] : /\ batch' = [batch EXCEPT ![t] = @ \ {m}]
                              /\ CallCloseLink(t, m, "closers")
    BY <1>9 DEF RunCloser
  <2>a. m \in Links /\ pc[m] \notin {"start", "connect"}
    BY <2>1
  <2>2. /\ m \in Links /\ pc[t] = "closers" /\ pc[m] \notin {"start", "connect"}
        /\ target' = [target EXCEPT ![t] = m] /\ pc' = [pc EXCEPT ![t] = "once"]
        /\ UNCHANGED <<once, links, coreUp, outbox, closers, closed>>
    BY <1>9, <2>1, <2>a DEF RunCloser, CallCloseLink
  <2>3. \A l \in Links, u \in Threads :
           pc'[l] \in {"start", "connect"} =>
             l \notin batch'[u] /\ (pc'[u] \in {"once", "down", "write"} => target'[u] # l)
    BY <2>1, <2>2
  <2>4. \A u \in Threads : pc'[u] = "down" => once'[target'[u]] # "fresh"
    BY <2>2
  <2> QED
    BY <2>2, <2>3, <2>4
<1>10. ASSUME NEW t \in Threads, FreeBegin(t) PROVE LinkInv'
  BY <1>10 DEF FreeBegin
<1>11. ASSUME NEW t \in Threads, FreeEnd(t) PROVE LinkInv'
  BY <1>11 DEF FreeEnd, Leave, Resume
<1>12. ASSUME NEW l \in Links, RegisterLink(l) PROVE LinkInv'
  BY <1>12 DEF RegisterLink
<1>13. ASSUME NEW l \in Links, Connected(l) PROVE LinkInv'
  BY <1>13 DEF Connected, Leave
<1>14. ASSUME NEW l \in Links, RegisterCloser(l) PROVE LinkInv'
  BY <1>14 DEF RegisterCloser, CallCloseLink
<1>15. ASSUME NEW l \in Links, ReadFrame(l) PROVE LinkInv'
  BY <1>15 DEF ReadFrame, Move
<1>16. ASSUME NEW l \in Links, Delivered(l) PROVE LinkInv'
  BY <1>16 DEF Delivered, Back, Leave
<1>17. ASSUME NEW l \in Links, ReadFails(l) PROVE LinkInv'
  BY <1>17 DEF ReadFails, CallCloseLink
<1>18. CASE Tick
  BY <1>18 DEF Tick, Move
<1>19. CASE PumpExit
  BY <1>19 DEF PumpExit, Move
<1>20. CASE Drained
  BY <1>20 DEF Drained, Leave
<1>21. CASE LookupLink
  BY <1>21 DEF LookupLink
<1>22. CASE WriteOK
  BY <1>22 DEF WriteOK, Move
<1>23. CASE WriteFails
  BY <1>23, <1>e DEF WriteFails, CallCloseLink
<1>24. CASE AllSent
  BY <1>24 DEF AllSent, Move
<1>25. CASE Polled
  BY <1>25 DEF Polled, Leave
<1>26. CASE NextRequest
  BY <1>26 DEF NextRequest
<1>27. CASE AllHandled
  BY <1>27 DEF AllHandled, Move
<1>28. CASE HandlerReplies
  BY <1>28 DEF HandlerReplies, Move
<1>29. CASE Replied
  BY <1>29 DEF Replied, Back, Leave
<1>30. CASE HandlerCloses
  BY <1>30 DEF HandlerCloses, Move
<1>31. CASE HandlerEnds
  BY <1>31 DEF HandlerEnds, Move
<1>32. CASE Settled
  BY <1>32 DEF Settled, Back, Leave
<1>33. CASE Answered
  BY <1>33 DEF Answered, Back, Leave
<1>34. ASSUME NEW a \in Apps, CallAPI(a) PROVE LinkInv'
  BY <1>34 DEF CallAPI, Move
<1>35. ASSUME NEW a \in Apps, APIReturned(a) PROVE LinkInv'
  BY <1>35 DEF APIReturned, Back, Leave
<1>36. ASSUME NEW a \in Apps, CallClose(a) PROVE LinkInv'
  BY <1>36 DEF CallClose, Move
<1>37. CASE UNCHANGED vars
  BY <1>37 DEF vars
<1> QED
  BY <1>1, <1>2, <1>3, <1>4, <1>5, <1>6, <1>7, <1>8, <1>9, <1>10, <1>11, <1>12, <1>13, <1>14, <1>15, <1>16, <1>17, <1>18, <1>19, <1>20, <1>21, <1>22, <1>23, <1>24, <1>25, <1>26, <1>27, <1>28, <1>29, <1>30, <1>31, <1>32, <1>33, <1>34, <1>35, <1>36, <1>37 DEF Next, WithNode, CloseLink, Close, Connection, PumpStep, App, Ended

LEMMA LinksAreSafe == Spec => []LinkInv
<1>1. Init => LinkInv
  BY ThreadsDiffer DEF Init, LinkInv, Threads
<1> QED
  BY <1>1, LinkStep, TypeCorrect, PTL DEF Spec

\* closeLink is final, however many goroutines call it and whatever the reader,
\* the pump and registerLink are doing with the link.
THEOREM NothingResurrected == Spec => []NoResurrection
<1>1. LinkInv => NoResurrection
  BY DEF LinkInv, NoResurrection
<1> QED
  BY <1>1, LinksAreSafe, PTL

\* registerLink installs the send function before the core is told, so that
\* the pump finds one for each packet of a link that nobody closes.
THEOREM NoPacketDropped == Spec => []NoDroppedPacket
<1>1. TypeOK /\ LinkInv => NoDroppedPacket
  BY DEF LinkInv, NoDroppedPacket, TypeOK, SharedOK
<1> QED
  BY <1>1, LinksAreSafe, TypeCorrect, PTL

-----------------------------------------------------------------------------
(* Who waits for whom *)

\* The once of a link is running as long as one thread, and one only, runs it.
OnceInv ==
    /\ \A l \in Links : once[l] = "running" => \E t \in Threads : Running(t, l)
    /\ \A t \in Threads : pc[t] = "down" => once[target[t]] = "running"
    /\ \A s, t \in Threads, l \in Links : Running(s, l) /\ Running(t, l) => s = t

LEMMA FinishStep ==
    ASSUME TypeOK, OnceInv, NEW t \in Threads, pc[t] = "down", FinishOnce(t)
    PROVE  OnceInv'
<1>1. PICK m \in Links : m = target[t] /\ ret[t] \in {"read", "gone", "closers", "send"}
  BY Kinds DEF TypeOK, ControlOK, OnceSteps, Threads
<1>2. /\ once' = [once EXCEPT ![m] = "done"] /\ pc' = [pc EXCEPT ![t] = ret[t]] /\ UNCHANGED target
      /\ pc \in [Threads -> Steps] /\ once \in [Links -> {"fresh", "running", "done"}]
  BY <1>1 DEF FinishOnce, Goto, TypeOK, ControlOK, SharedOK
<1>3. \A s \in Threads : s # t /\ pc[s] = "down" => target[s] # m
  BY <1>1 DEF OnceInv, Running
<1>4. ASSUME NEW l \in Links, once'[l] = "running" PROVE \E s \in Threads : Running(s, l)'
  <2>1. l # m /\ once[l] = "running"
    BY <1>2, <1>4
  <2>2. PICK s \in Threads : Running(s, l)
    BY <2>1 DEF OnceInv
  <2>3. s # t
    BY <1>1, <2>1, <2>2 DEF Running
  <2> QED
    BY <1>2, <2>2, <2>3 DEF Running
<1>5. \A s \in Threads : pc'[s] = "down" => s # t /\ pc[s] = "down" /\ target'[s] = target[s]
  BY <1>1, <1>2
<1>6. \A s \in Threads : pc'[s] = "down" => once'[target'[s]] = "running"
  BY <1>2, <1>3, <1>5, Kinds DEF OnceInv
<1>7. \A s, u \in Threads, l \in Links : Running(s, l)' /\ Running(u, l)' => s = u
  BY <1>5 DEF OnceInv, Running
<1> QED
  BY <1>4, <1>6, <1>7 DEF OnceInv

LEMMA OnceStep == TypeOK /\ OnceInv /\ [Next]_vars => OnceInv'
<1> SUFFICES ASSUME TypeOK, OnceInv, [Next]_vars PROVE OnceInv'
  OBVIOUS
<1>a. /\ pc \in [Threads -> Steps] /\ target \in [Threads -> Links \cup {None}]
      /\ once \in [Links -> {"fresh", "running", "done"}] /\ batch \in [Threads -> SUBSET Links]
      /\ links \subseteq Links /\ coreUp \subseteq Links /\ outbox \subseteq Links /\ closers \subseteq Links
      /\ closed \in BOOLEAN /\ ret \in [Threads -> Steps \cup {"none"}]
  BY DEF TypeOK, ControlOK, SharedOK
<1>b. Links \subseteq Threads /\ Pump \in Threads /\ Pump \notin Links /\ \A a \in Apps : a \in Threads /\ a \notin Links
  BY ThreadsDiffer DEF Threads
<1>c. \A t \in Threads : pc[t] \in {"once", "down"} =>
         target[t] \in Links /\ ret[t] \in {"read", "gone", "closers", "send"}
  BY Kinds DEF TypeOK, ControlOK, OnceSteps, Threads
<1>d. pc[Pump] = "write" => target[Pump] \in Links
  BY <1>b DEF TypeOK, ControlOK
<1> USE <1>a, <1>b DEF OnceInv, Running, Goto, lock, teardown, closing, work, wires
<1>1. ASSUME NEW t \in Threads, Enter(t) PROVE OnceInv'
  BY <1>1 DEF Enter
<1>2. ASSUME NEW t \in Threads, Refuse(t) PROVE OnceInv'
  BY <1>2 DEF Refuse, Refused
<1>3. ASSUME NEW t \in Threads, OnceRun(t) PROVE OnceInv'
  <2>1. PICK m \in Links : m = target[t]
    BY <1>3, <1>c DEF OnceRun
  <2>2. /\ pc[t] = "once" /\ once[m] = "fresh" /\ UNCHANGED target
        /\ once' = [once EXCEPT ![m] = "running"] /\ pc' = [pc EXCEPT ![t] = "down"]
    BY <1>3, <2>1 DEF OnceRun
  <2>3. \A s \in Threads : pc[s] = "down" => target[s] # m
    BY <2>2
  <2> QED
    BY <2>1, <2>2, <2>3
<1>4. ASSUME NEW t \in Threads, OnceSkip(t) PROVE OnceInv'
  BY <1>4, <1>c DEF OnceSkip
<1>5. ASSUME NEW t \in Threads, Disconnected(t) PROVE OnceInv'
  BY <1>5, FinishStep DEF Disconnected, Leave
<1>6. ASSUME NEW t \in Threads, DisconnectRefused(t) PROVE OnceInv'
  BY <1>6, FinishStep DEF DisconnectRefused
<1>7. ASSUME NEW t \in Threads, CloseBegin(t) PROVE OnceInv'
  BY <1>7 DEF CloseBegin, Resume
<1>8. ASSUME NEW t \in Threads, Signal(t) PROVE OnceInv'
  BY <1>8 DEF Signal
<1>9. ASSUME NEW t \in Threads, RunCloser(t) PROVE OnceInv'
  BY <1>9 DEF RunCloser, CallCloseLink
<1>10. ASSUME NEW t \in Threads, FreeBegin(t) PROVE OnceInv'
  BY <1>10 DEF FreeBegin
<1>11. ASSUME NEW t \in Threads, FreeEnd(t) PROVE OnceInv'
  BY <1>11 DEF FreeEnd, Leave, Resume
<1>12. ASSUME NEW l \in Links, RegisterLink(l) PROVE OnceInv'
  BY <1>12 DEF RegisterLink
<1>13. ASSUME NEW l \in Links, Connected(l) PROVE OnceInv'
  BY <1>13 DEF Connected, Leave
<1>14. ASSUME NEW l \in Links, RegisterCloser(l) PROVE OnceInv'
  BY <1>14 DEF RegisterCloser, CallCloseLink
<1>15. ASSUME NEW l \in Links, ReadFrame(l) PROVE OnceInv'
  BY <1>15 DEF ReadFrame, Move
<1>16. ASSUME NEW l \in Links, Delivered(l) PROVE OnceInv'
  BY <1>16 DEF Delivered, Back, Leave
<1>17. ASSUME NEW l \in Links, ReadFails(l) PROVE OnceInv'
  BY <1>17 DEF ReadFails, CallCloseLink
<1>18. CASE Tick
  BY <1>18 DEF Tick, Move
<1>19. CASE PumpExit
  BY <1>19 DEF PumpExit, Move
<1>20. CASE Drained
  BY <1>20 DEF Drained, Leave
<1>21. CASE LookupLink
  BY <1>21 DEF LookupLink
<1>22. CASE WriteOK
  BY <1>22 DEF WriteOK, Move
<1>23. CASE WriteFails
  BY <1>23, <1>d DEF WriteFails, CallCloseLink
<1>24. CASE AllSent
  BY <1>24 DEF AllSent, Move
<1>25. CASE Polled
  BY <1>25 DEF Polled, Leave
<1>26. CASE NextRequest
  BY <1>26 DEF NextRequest
<1>27. CASE AllHandled
  BY <1>27 DEF AllHandled, Move
<1>28. CASE HandlerReplies
  BY <1>28 DEF HandlerReplies, Move
<1>29. CASE Replied
  BY <1>29 DEF Replied, Back, Leave
<1>30. CASE HandlerCloses
  BY <1>30 DEF HandlerCloses, Move
<1>31. CASE HandlerEnds
  BY <1>31 DEF HandlerEnds, Move
<1>32. CASE Settled
  BY <1>32 DEF Settled, Back, Leave
<1>33. CASE Answered
  BY <1>33 DEF Answered, Back, Leave
<1>34. ASSUME NEW a \in Apps, CallAPI(a) PROVE OnceInv'
  BY <1>34 DEF CallAPI, Move
<1>35. ASSUME NEW a \in Apps, APIReturned(a) PROVE OnceInv'
  BY <1>35 DEF APIReturned, Back, Leave
<1>36. ASSUME NEW a \in Apps, CallClose(a) PROVE OnceInv'
  BY <1>36 DEF CallClose, Move
<1>37. CASE UNCHANGED vars
  BY <1>37 DEF vars
<1> QED
  BY <1>1, <1>2, <1>3, <1>4, <1>5, <1>6, <1>7, <1>8, <1>9, <1>10, <1>11, <1>12, <1>13, <1>14, <1>15, <1>16, <1>17, <1>18, <1>19, <1>20, <1>21, <1>22, <1>23, <1>24, <1>25, <1>26, <1>27, <1>28, <1>29, <1>30, <1>31, <1>32, <1>33, <1>34, <1>35, <1>36, <1>37 DEF Next, WithNode, CloseLink, Close, Connection, PumpStep, App, Ended

\* Nobody waits for ever behind a circle of others: not the goroutines that close
\* the same link, Close, whose hooks wait for closeLinks that others have begun,
\* or the pump, whose failing write closes a link; whoever holds nodeMu is inside
\* libhop and waits for nothing of the Go side.
THEOREM NoWaitingCircle == Spec => []WaitsEnd
<1>1. TypeOK /\ LockInv /\ OnceInv => WaitsEnd
  <2> SUFFICES ASSUME TypeOK, LockInv, OnceInv, NEW t \in Threads, Blocked(t)
               PROVE  \E u \in Threads :
                         /\ WaitsFor(t, u)
                         /\ ~Blocked(u) \/ \E v \in Threads : WaitsFor(u, v) /\ ~Blocked(v)
    BY DEF WaitsEnd
  <2>1. ASSUME NEW s \in Threads, WantsLock(s), nodeMu # None
        PROVE  nodeMu \in Threads /\ WaitsFor(s, nodeMu) /\ ~Blocked(nodeMu)
    <3>1. nodeMu \in Threads /\ inCore = {nodeMu}
      BY <2>1 DEF TypeOK, SharedOK, LockInv
    <3>2. pc[nodeMu] # "once"
      BY <3>1 DEF LockInv, Sites, Refused
    <3> QED
      BY <2>1, <3>1, <3>2 DEF WaitsFor, Blocked, WantsLock
  <2>2. CASE WantsLock(t) /\ nodeMu # None
    BY <2>1, <2>2
  <2>3. CASE pc[t] = "once" /\ once[target[t]] = "running"
    <3>1. target[t] \in Links
      BY <2>3, Kinds DEF TypeOK, ControlOK, OnceSteps, Threads
    <3>2. PICK u \in Threads : Running(u, target[t])
      BY <2>3, <3>1 DEF OnceInv
    <3>3. WaitsFor(t, u)
      BY <2>3, <3>2 DEF WaitsFor
    <3>4. ASSUME Blocked(u) PROVE WantsLock(u) /\ nodeMu # None
      BY <3>2, <3>4 DEF Blocked, Running
    <3> QED
      BY <2>1, <3>3, <3>4
  <2> QED
    BY <2>2, <2>3 DEF Blocked
<1>2. Init => OnceInv
  BY ThreadsDiffer DEF Init, OnceInv, Running, Threads
<1>3. CloseSafe => TypeOK /\ LockInv
  BY DEF CloseSafe
<1> QED
  BY <1>1, <1>2, <1>3, CloseIsSafe, OnceStep, PTL DEF Spec
=============================================================================
