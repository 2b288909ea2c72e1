---------------------------- MODULE ServiceCalls ----------------------------
(***************************************************************************)
(* The calling side of hops:// services (endpoint.go: RequestTimeout,      *)
(* AcceptServiceResponse, the response half of pump, Close).  A call sends *)
(* its request and registers its channel in "pending" in one critical      *)
(* section of nodeMu, then waits for the answer, for Close or for its      *)
(* timer.  On each tick the pump polls the responses the core holds, which *)
(* does not consume them, and hands each to the caller that is pending; a  *)
(* caller that got one accepts it, which does.                             *)
(*                                                                         *)
(* Each call is made once.  The calls in Nested are made by a service      *)
(* handler, that is on the pump goroutine, which is busy until they end.   *)
(***************************************************************************)
EXTENDS FiniteSets

CONSTANTS Calls,            \* calls of RequestTimeout, by request id
          Nested,           \* those made from within a handler
          None

ASSUME CallsAssumption == Nested \subseteq Calls /\ None \notin Calls

VARIABLES
    pc,             \* where each call is in RequestTimeout
    nodeMu,         \* the call that holds nodeMu between send and register
    closed, done,   \* Endpoint.closed, and Endpoint.done is closed
    pending,        \* keys of Endpoint.pending
    chan,           \* calls whose one-place channel holds an answer
    sent,           \* requests the core has taken
    rows,           \* calls whose response is in the core's durable queue
    accepted,       \* calls whose response was accepted
    pump,           \* where the pump goroutine is
    busy,           \* the nested call the pump is in, or None
    batch,          \* polled responses the pump has yet to route
    hand            \* the call whose answer the pump is about to hand over

caller == <<pc, busy>>
core   == <<sent, rows, accepted>>
router == <<pump, batch, hand>>
vars   == <<caller, nodeMu, closed, done, pending, chan, core, router>>

Goto(c, label) == pc' = [pc EXCEPT ![c] = label]

-----------------------------------------------------------------------------
(* A call *)

Ask(c) ==
    /\ pc[c] = "idle"
    /\ c \in Nested => pump = "serve" /\ busy = None
    /\ busy' = IF c \in Nested THEN c ELSE busy
    /\ Goto(c, "send")
    /\ UNCHANGED <<nodeMu, closed, done, pending, chan, core, router>>

\* The endpoint is closed, or libhop refuses the request.
SendFails(c) ==
    /\ pc[c] = "send"
    /\ nodeMu = None
    /\ Goto(c, "err")
    /\ UNCHANGED <<busy, nodeMu, closed, done, pending, chan, core, router>>

\* Mutant: nodeMu is given up between the send and the registration.
SendUnlocked(c) ==
    /\ pc[c] = "send"
    /\ nodeMu = None
    /\ ~closed
    /\ sent' = sent \cup {c}
    /\ Goto(c, "register")
    /\ UNCHANGED <<busy, nodeMu, closed, done, pending, chan, rows, accepted, router>>

\* withNode: the request is sent, and nodeMu stays locked ...
SendRequest(c) ==
    /\ pc[c] = "send"
    /\ nodeMu = None
    /\ ~closed
    /\ nodeMu' = c
    /\ sent' = sent \cup {c}
    /\ Goto(c, "register")
    /\ UNCHANGED <<busy, closed, done, pending, chan, rows, accepted, router>>

\* Mutant: the caller waits for its answer with nodeMu locked.
RegisterLocked(c) ==
    /\ pc[c] = "register"
    /\ pending' = pending \cup {c}
    /\ Goto(c, "wait")
    /\ UNCHANGED <<busy, nodeMu, closed, done, chan, core, router>>

\* ... until the caller's channel is in pending.
RegisterWaiter(c) ==
    /\ pc[c] = "register"
    /\ pending' = pending \cup {c}
    /\ nodeMu' = None
    /\ Goto(c, "wait")
    /\ UNCHANGED <<busy, closed, done, chan, core, router>>

Receive(c) ==
    /\ pc[c] = "wait"
    /\ c \in chan
    /\ chan' = chan \ {c}
    /\ Goto(c, "accept")
    /\ UNCHANGED <<busy, nodeMu, closed, done, pending, core, router>>

\* Mutant: the answer is returned to the caller even if accepting it failed.
ReturnRegardless(c) ==
    /\ pc[c] = "accept"
    /\ nodeMu = None
    /\ \/ ~closed /\ c \in rows /\ rows' = rows \ {c} /\ accepted' = accepted \cup {c}
       \/ UNCHANGED <<rows, accepted>>
    /\ Goto(c, "ok")
    /\ UNCHANGED <<busy, nodeMu, closed, done, pending, chan, sent, router>>

\* AcceptServiceResponse: the response is consumed and returned, or the call
\* fails (endpoint closed meanwhile, not persisted) and the response stays.
AcceptResponse(c) ==
    /\ pc[c] = "accept"
    /\ nodeMu = None
    /\ \/ /\ ~closed /\ c \in rows
          /\ rows' = rows \ {c}
          /\ accepted' = accepted \cup {c}
          /\ Goto(c, "ok")
       \/ Goto(c, "err") /\ UNCHANGED <<rows, accepted>>
    /\ UNCHANGED <<busy, nodeMu, closed, done, pending, chan, sent, router>>

\* The other two cases of the select: the timer fires, or done is closed.
GiveUp(c) ==
    /\ pc[c] = "wait"
    /\ Goto(c, "forget")
    /\ UNCHANGED <<busy, nodeMu, closed, done, pending, chan, core, router>>

Timeout(c)    == GiveUp(c)
ClosedWake(c) == done /\ GiveUp(c)

\* Mutant: a call that gives up leaves its channel in pending.
ForgetNothing(c) ==
    /\ pc[c] = "forget"
    /\ Goto(c, "err")
    /\ UNCHANGED <<busy, nodeMu, closed, done, pending, chan, core, router>>

\* The call takes its channel out of pending, under mu, and returns an error.
Forget(c) ==
    /\ pc[c] = "forget"
    /\ pending' = pending \ {c}
    /\ Goto(c, "err")
    /\ UNCHANGED <<busy, nodeMu, closed, done, chan, core, router>>

-----------------------------------------------------------------------------
(* The core: the answer to a request comes in, sooner or later *)

Arrive(c) ==
    /\ c \in sent \ (rows \cup accepted)
    /\ rows' = rows \cup {c}
    /\ UNCHANGED <<caller, nodeMu, closed, done, pending, chan, sent, accepted, router>>

-----------------------------------------------------------------------------
(* The pump *)

\* A tick on an open endpoint; the packets and the requests come first.
Tick ==
    /\ pump = "select"
    /\ nodeMu = None
    /\ pump' = IF closed THEN "select" ELSE "serve"
    /\ UNCHANGED <<caller, nodeMu, closed, done, pending, chan, core, batch, hand>>

PumpExit ==
    /\ pump = "select"
    /\ done
    /\ pump' = "exited"
    /\ UNCHANGED <<caller, nodeMu, closed, done, pending, chan, core, batch, hand>>

\* Mutant: a handler's calls do not hold up the pump.
NestedDetached ==
    /\ busy # None
    /\ busy' = None
    /\ UNCHANGED <<pc, nodeMu, closed, done, pending, chan, core, router>>

\* Mutant: a handler goes on only with an answer.
NestedInsists ==
    /\ busy # None
    /\ pc[busy] = "ok"
    /\ busy' = None
    /\ UNCHANGED <<pc, nodeMu, closed, done, pending, chan, core, router>>

\* The handler's own call has ended, and the handler goes on.
NestedEnds ==
    /\ busy # None
    /\ pc[busy] \in {"ok", "err"}
    /\ busy' = None
    /\ UNCHANGED <<pc, nodeMu, closed, done, pending, chan, core, router>>

\* The handlers are through.
Served ==
    /\ pump = "serve"
    /\ busy = None
    /\ pump' = "poll"
    /\ UNCHANGED <<caller, nodeMu, closed, done, pending, chan, core, batch, hand>>

\* takeServiceResponses copies the queue; on a closed endpoint there is nothing.
Poll ==
    /\ pump = "poll"
    /\ nodeMu = None
    /\ batch' = IF closed THEN {} ELSE rows
    /\ pump' = "route"
    /\ UNCHANGED <<caller, nodeMu, closed, done, pending, chan, core, hand>>

\* Mutant: the pump looks the waiter up and leaves it in pending.
RouteKeeping(c) ==
    /\ pump = "route" /\ c \in batch
    /\ batch' = batch \ {c}
    /\ IF c \in pending THEN pump' = "put" /\ hand' = c ELSE UNCHANGED <<pump, hand>>
    /\ UNCHANGED <<caller, nodeMu, closed, done, pending, chan, core>>

\* Take the waiter of a response out of pending, under mu; without one the
\* response is passed over, and stays queued in the core.
Route(c) ==
    /\ pump = "route" /\ c \in batch
    /\ batch' = batch \ {c}
    /\ pending' = pending \ {c}
    /\ IF c \in pending THEN pump' = "put" /\ hand' = c ELSE UNCHANGED <<pump, hand>>
    /\ UNCHANGED <<caller, nodeMu, closed, done, chan, core>>

\* Mutant: the channel has no buffer, and the pump drops what nobody receives.
PutOrDrop ==
    /\ pump = "put"
    /\ chan' \in {chan, chan \cup {hand}}
    /\ pump' = "route" /\ hand' = None
    /\ UNCHANGED <<caller, nodeMu, closed, done, pending, core, batch>>

\* ch <- answer: blocks while the channel is full.
Put ==
    /\ pump = "put"
    /\ hand \notin chan
    /\ chan' = chan \cup {hand}
    /\ pump' = "route" /\ hand' = None
    /\ UNCHANGED <<caller, nodeMu, closed, done, pending, core, batch>>

Routed ==
    /\ pump = "route" /\ batch = {}
    /\ pump' = "select"
    /\ UNCHANGED <<caller, nodeMu, closed, done, pending, chan, core, batch, hand>>

-----------------------------------------------------------------------------
(* Close, as far as the callers see it *)

CloseBegin ==
    /\ nodeMu = None
    /\ ~closed
    /\ closed' = TRUE
    /\ UNCHANGED <<caller, nodeMu, done, pending, chan, core, router>>

Signal ==
    /\ closed /\ ~done
    /\ done' = TRUE
    /\ UNCHANGED <<caller, nodeMu, closed, pending, chan, core, router>>

-----------------------------------------------------------------------------
Init ==
    /\ pc = [c \in Calls |-> "idle"] /\ busy = None
    /\ nodeMu = None /\ closed = FALSE /\ done = FALSE
    /\ pending = {} /\ chan = {}
    /\ sent = {} /\ rows = {} /\ accepted = {}
    /\ pump = "select" /\ batch = {} /\ hand = None

Progress(c) == SendFails(c) \/ SendRequest(c) \/ RegisterWaiter(c) \/ Receive(c)
               \/ AcceptResponse(c) \/ ClosedWake(c) \/ Forget(c)
Pumping == Tick \/ NestedEnds \/ Served \/ Poll \/ (\E c \in Calls : Route(c)) \/ Put \/ Routed

\* Everything has ended: the system may stop here and nowhere else.
Ended ==
    /\ pump = "exited"
    /\ \A c \in Calls : pc[c] \in {"ok", "err"} \/ (c \in Nested /\ pc[c] = "idle")
    /\ UNCHANGED vars

Next ==
    \/ \E c \in Calls : Ask(c) \/ Progress(c) \/ Timeout(c) \/ Arrive(c)
    \/ Pumping \/ PumpExit
    \/ CloseBegin \/ Signal
    \/ Ended

Spec == Init /\ [][Next]_vars

(* Fairness.  Goroutines run and nodeMu starves nobody; select takes a done  *)
(* that stays ready.  That timers fire is a premise of the properties that   *)
(* need it, so that the others do not depend on anyone giving up.            *)
Fairness == /\ \A c \in Calls : SF_vars(Progress(c))
            /\ SF_vars(Pumping) /\ SF_vars(PumpExit) /\ WF_vars(Signal)

FairSpec == Spec /\ Fairness

TimersFire(calls) == \A c \in calls : WF_vars(Timeout(c))

-----------------------------------------------------------------------------
(* Properties *)

TypeOK ==
    /\ pc \in [Calls -> {"idle", "send", "register", "wait", "accept", "forget", "ok", "err"}]
    /\ nodeMu \in Calls \cup {None} /\ busy \in Nested \cup {None}
    /\ closed \in BOOLEAN /\ done \in BOOLEAN
    /\ pending \subseteq Calls /\ chan \subseteq Calls
    /\ sent \subseteq Calls /\ rows \subseteq Calls /\ accepted \subseteq Calls
    /\ pump \in {"select", "serve", "poll", "route", "put", "exited"}
    /\ batch \subseteq Calls
    /\ hand \in Calls \cup {None} /\ (pump = "put" <=> hand # None)

\* The pump, which every link and every service of the endpoint depends on, is
\* never stuck on a caller's channel: the channel is empty whenever it sends,
\* though the same response is polled again and again until it is accepted.
PumpNeverBlocks == pump = "put" => hand \notin chan

\* A caller that still waits can be reached: it is in pending, or its answer is
\* in its channel or on the way into it.
WaiterReachable ==
    \A c \in Calls : pc[c] = "wait" => c \in pending \/ c \in chan \/ hand = c

\* The pump never polls the response of a call that has yet to register, so no
\* answer, however fast, is passed over for want of a waiter (the comment on
\* RequestTimeout's critical section).
PolledAreRegistered ==
    \A c \in batch : pc[c] \notin {"idle", "send", "register"}

\* A call that has returned left nothing behind in pending.
NoPendingLeak == \A c \in Calls : pc[c] \in {"ok", "err"} => c \notin pending

\* A call made from a handler is never answered: the pump that would route the
\* answer is the goroutine that waits for it.
NestedStarve == \A c \in Nested : pc[c] \notin {"accept", "ok"}

\* Who holds the lock, and what it keeps apart: polled responses belong to calls
\* that registered, and pending ones to calls that wait or are about to forget.
Registration ==
    /\ \A c \in Calls : pc[c] = "register" <=> nodeMu = c
    /\ \A c \in pending : pc[c] \in {"wait", "forget"}
    /\ \A c \in sent : pc[c] \notin {"idle", "send"}
    /\ rows \subseteq sent
    /\ PolledAreRegistered

\* An answer is in one place at most on its way from pending to the channel.
Handover ==
    /\ \A c \in chan \cup ({hand} \ {None}) : c \notin pending /\ pc[c] \in {"wait", "forget", "err"}
    /\ hand \notin chan
    /\ WaiterReachable

\* The pump serves while a nested call is on, so it routes nothing to it.
Nesting ==
    /\ busy # None => pump = "serve"
    /\ \A c \in Nested : /\ pc[c] \notin {"idle", "ok", "err"} => busy = c
                         /\ c \notin chan /\ hand # c
    /\ NestedStarve

\* Why no answer is lost and the pump is never stuck, as an inductive invariant.
RoutingSafe == /\ TypeOK /\ Registration /\ Handover /\ Nesting
               /\ accepted = {c \in Calls : pc[c] = "ok"}

\* RequestTimeout implements the promise of RequestReply.
Status == [ c \in Calls |-> CASE pc[c] = "idle" -> "idle"
                             [] pc[c] = "ok"   -> "answered"
                             [] pc[c] = "err"  -> "failed"
                             [] OTHER          -> "open" ]

Reply == INSTANCE RequestReply WITH status <- Status, answers <- rows
Promise == Reply!Spec

\* Every call returns, whatever the network, the pump and Close do: its timer
\* sees to it.
CallReturns == TimersFire(Calls) =>
    \A c \in Calls : pc[c] = "send" ~> pc[c] \in {"ok", "err"}

\* An answer that is in the queue gets a caller outside the pump out of its wait
\* without the caller's own timer: no wakeup is lost.  (The timers of the calls
\* that hold up the pump are needed.)
AnswerWakes == TimersFire(Nested) =>
    \A c \in Calls \ Nested : pc[c] = "wait" /\ c \in rows ~> pc[c] # "wait"

\* A handler that makes calls holds the pump up, but only until their timers fire.
PumpResumes == TimersFire(Nested) => (pump = "serve" ~> pump # "serve")
=============================================================================
