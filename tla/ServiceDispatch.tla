--------------------------- MODULE ServiceDispatch ---------------------------
(***************************************************************************)
(* The serving side of hops:// services (endpoint.go: On, the request half *)
(* of pump, AcceptServiceRequest, RejectServiceRequest, Close).  The core  *)
(* keeps a durable queue of requests.  On each tick the pump polls it,     *)
(* which consumes nothing, and runs the handler of each request in turn;   *)
(* when the handler returns the pump accepts the request, which consumes   *)
(* it, and when it panics the request stays.  A handler may also accept or *)
(* reject the request itself, or leave the work and that decision to       *)
(* another goroutine, and the process may crash and start again from its   *)
(* database.                                                               *)
(***************************************************************************)
EXTENDS FiniteSets

CONSTANTS Reqs,             \* requests, by request id
          Services,
          ServiceOf,        \* the service each request asks for
          Poison,           \* requests whose handler may panic or reject
          None

ASSUME DispatchAssumption ==
    /\ ServiceOf \in [Reqs -> Services]
    /\ Poison \subseteq Reqs
    /\ None \notin Reqs

VARIABLES
    queue,          \* requests in the core's durable queue
    accepted,       \* requests the core durably accepted
    handlers,       \* services with a handler
    closed,
    pump,           \* where the pump goroutine is
    batch,          \* polled requests the pump has yet to go through
    current,        \* the request of the running handler, or None
    deferred,       \* requests whose work a handler left to another goroutine
    \* What has happened, for the properties:
    finished,       \* a handler returned, or the application accepted it
    rejected,       \* rejected, and not handed to a handler since
    excused         \* not run yet, or its last run did not count

core     == <<queue, accepted>>
dispatch == <<pump, batch, current>>
history  == <<finished, rejected, excused>>
vars     == <<core, handlers, closed, dispatch, deferred, history>>

-----------------------------------------------------------------------------
(* The core *)

\* A request arrives, or arrives again after a rejection: the sender repeats it
\* until it is acknowledged, and only acceptance counts as having seen it.
Arrive(r) ==
    /\ r \notin queue \cup accepted
    /\ queue' = queue \cup {r}
    /\ UNCHANGED <<accepted, handlers, closed, dispatch, deferred, history>>

\* hop_accept_service_request succeeds: known, not yet accepted, persisted.
CoreAccepts(r) == r \in queue /\ queue' = queue \ {r} /\ accepted' = accepted \cup {r}

\* hop_reject_service_request succeeds: the request leaves the queue without ACK.
CoreRejects(r) == r \in queue /\ queue' = queue \ {r} /\ UNCHANGED accepted

-----------------------------------------------------------------------------
(* The application *)

On(s) ==
    /\ handlers' = handlers \cup {s}
    /\ UNCHANGED <<core, closed, dispatch, deferred, history>>

\* Requests whose fate the application may decide now: the one its handler is
\* running, and those it left to other goroutines.
InApp == deferred \cup (IF pump = "run" THEN {current} ELSE {})

\* AcceptServiceRequest, when it succeeds.
AppAccepts(r) ==
    /\ r \in InApp
    /\ ~closed
    /\ CoreAccepts(r)
    /\ deferred' = deferred \ {r}
    /\ finished' = finished \cup {r}
    /\ rejected' = rejected \ {r}
    /\ UNCHANGED <<handlers, closed, dispatch, excused>>

\* RejectServiceRequest, when it succeeds.
AppRejects(r) ==
    /\ r \in InApp \cap Poison
    /\ ~closed
    /\ CoreRejects(r)
    /\ deferred' = deferred \ {r}
    /\ rejected' = rejected \cup {r}
    /\ excused' = excused \cup {r}
    /\ UNCHANGED <<handlers, closed, dispatch, finished>>

\* The goroutine gives up, or its call comes too late and returns false.
AppDrops(r) ==
    /\ r \in deferred
    /\ deferred' = deferred \ {r}
    /\ UNCHANGED <<core, handlers, closed, dispatch, history>>

\* The handler leaves the work, if it has not settled the request itself.
HandlerDefers ==
    /\ pump = "run" /\ current \in queue
    /\ deferred' = deferred \cup {current}
    /\ UNCHANGED <<core, handlers, closed, dispatch, history>>

HandlerReturns(r) ==
    /\ pump = "run" /\ current = r
    /\ pump' = "settle"
    /\ finished' = finished \cup {r}
    /\ UNCHANGED <<core, handlers, closed, batch, current, deferred, rejected, excused>>

\* Mutant: the acceptance is not skipped when the handler panics.
PanicSettles(r) ==
    /\ pump = "run" /\ current = r
    /\ pump' = "settle"
    /\ excused' = excused \cup {r}
    /\ UNCHANGED <<core, handlers, closed, batch, current, deferred, finished, rejected>>

\* Mutant: recover around the whole loop, so a panic ends the batch.
PanicEndsBatch(r) ==
    /\ pump = "run" /\ current = r /\ r \in Poison
    /\ pump' = "select" /\ batch' = {} /\ current' = None
    /\ excused' = excused \cup {r}
    /\ UNCHANGED <<core, handlers, closed, deferred, finished, rejected>>

\* recover: the acceptance is skipped, and the pump goes on with the next request.
HandlerPanics(r) ==
    /\ pump = "run" /\ current = r /\ r \in Poison
    /\ pump' = "next" /\ current' = None
    /\ excused' = excused \cup {r}
    /\ UNCHANGED <<core, handlers, closed, batch, deferred, finished, rejected>>

Close ==
    /\ ~closed
    /\ closed' = TRUE
    /\ UNCHANGED <<core, handlers, dispatch, deferred, history>>

\* The process ends, at any point, and starts again from its database.
Restart ==
    /\ closed' = FALSE /\ handlers' = {} /\ deferred' = {}
    /\ pump' = "select" /\ batch' = {} /\ current' = None
    /\ excused' = Reqs
    /\ UNCHANGED <<core, finished, rejected>>

-----------------------------------------------------------------------------
(* The pump *)

\* takeServiceRequests copies the queue.  (On a closed endpoint it returns
\* nothing, and pump goes round without effect.)
Poll ==
    /\ pump = "select"
    /\ ~closed
    /\ batch' = queue
    /\ pump' = "next"
    /\ UNCHANGED <<core, handlers, closed, current, deferred, history>>

\* No handler for the service: the request stays queued.
Skip(r) ==
    /\ pump = "next" /\ r \in batch /\ ServiceOf[r] \notin handlers
    /\ batch' = batch \ {r}
    /\ UNCHANGED <<core, handlers, closed, pump, current, deferred, history>>

Start(r) ==
    /\ pump = "next" /\ r \in batch /\ ServiceOf[r] \in handlers
    /\ batch' = batch \ {r}
    /\ pump' = "run" /\ current' = r
    /\ rejected' = rejected \ {r}
    /\ excused' = excused \ {r}
    /\ UNCHANGED <<core, handlers, closed, deferred, finished>>

\* Mutant: the call to acceptServiceRequest is missing.
SettleForgotten(r) ==
    /\ pump = "settle" /\ current = r
    /\ pump' = "next" /\ current' = None
    /\ UNCHANGED <<core, handlers, closed, batch, deferred, history>>

\* The handler returned: acceptServiceRequest, whose result nobody looks at.
Settle(r) ==
    /\ pump = "settle" /\ current = r
    /\ ~closed
    /\ CoreAccepts(r)
    /\ pump' = "next" /\ current' = None
    /\ UNCHANGED <<handlers, closed, batch, deferred, history>>

\* It fails: the application settled the request itself, the endpoint is closed,
\* or the acceptance is not persisted and the request will be polled again.
SettleFails(r) ==
    /\ pump = "settle" /\ current = r
    /\ pump' = "next" /\ current' = None
    /\ excused' = excused \cup {r}
    /\ UNCHANGED <<core, handlers, closed, batch, deferred, finished, rejected>>

BatchDone ==
    /\ pump = "next" /\ batch = {}
    /\ pump' = "select"
    /\ UNCHANGED <<core, handlers, closed, batch, current, deferred, history>>

-----------------------------------------------------------------------------
Init ==
    /\ queue = {} /\ accepted = {}
    /\ handlers = {} /\ closed = FALSE
    /\ pump = "select" /\ batch = {} /\ current = None
    /\ deferred = {}
    /\ finished = {} /\ rejected = {} /\ excused = Reqs

PumpRuns == Poll \/ BatchDone \/ \E r \in Reqs : Skip(r) \/ Start(r)

Next ==
    \/ \E r \in Reqs : Arrive(r) \/ AppAccepts(r) \/ AppRejects(r) \/ AppDrops(r)
                       \/ HandlerReturns(r) \/ HandlerPanics(r) \/ Settle(r) \/ SettleFails(r)
    \/ \E s \in Services : On(s)
    \/ HandlerDefers \/ Close \/ Restart \/ PumpRuns

Spec == Init /\ [][Next]_vars

(* Fairness.  The pump goroutine and its ticker run on; the program registers *)
(* its handlers; a handler that neither panics nor rejects returns in the end; *)
(* the acceptance of a request is persisted in the end, if it is tried again   *)
(* and again; and the process stops crashing at some point.  Nothing makes the *)
(* handler of a poisoned request return rather than panic.                     *)
Fairness ==
    /\ WF_vars(PumpRuns)
    /\ \A s \in Services : WF_vars(On(s))
    /\ \A r \in Reqs \ Poison : WF_vars(HandlerReturns(r))
    /\ \A r \in Poison : WF_vars(HandlerReturns(r) \/ HandlerPanics(r))
    /\ \A r \in Reqs : WF_vars(Settle(r) \/ SettleFails(r)) /\ SF_vars(Settle(r))
    /\ <>[][~Restart]_vars

FairSpec == Spec /\ Fairness

-----------------------------------------------------------------------------
(* Properties *)

TypeOK ==
    /\ queue \subseteq Reqs /\ accepted \subseteq Reqs
    /\ handlers \subseteq Services /\ closed \in BOOLEAN
    /\ pump \in {"select", "next", "run", "settle"}
    /\ batch \subseteq Reqs /\ deferred \subseteq Reqs
    /\ current \in Reqs \cup {None}
    /\ pump \in {"run", "settle"} <=> current # None
    /\ finished \subseteq Reqs /\ rejected \subseteq Reqs /\ excused \subseteq Reqs

\* What the two properties below rest on, an inductive invariant: a run that
\* counts is still going on or ended in an acceptance, its request is not in the
\* batch, acceptance takes a request off the queue, and the request being settled
\* is finished, as is the one that was accepted.
DispatchSafe ==
    /\ TypeOK
    /\ accepted \subseteq finished
    /\ pump = "settle" => current \in finished
    /\ queue \cap accepted = {}
    /\ \A r \in Reqs \ excused : r \notin batch /\ (r = current \/ r \in accepted)

\* A handler is run again on a request only for a reason: since its last run the
\* handler panicked, the application rejected the request, the acceptance
\* failed, or the process started again.
NoBlindRerun == [][ \A r \in Reqs :
    current # r /\ current' = r => r \in excused ]_vars

\* The pump, the handlers and the two calls of the application together are a
\* queue worked off at least once: a request is acknowledged after its work and by
\* whoever has it in hand, one without a handler waits in the queue, whatever
\* happens to others, and crashes, panics and stale batches cost at most reruns.
InHand  == deferred \cup ({current} \ {None})
Durable == INSTANCE RequestQueue WITH acked <- accepted, view <- batch, handed <- InHand, done <- finished
AtLeastOnce == Durable!Spec

\* A request whose handler works is accepted in the end, whatever other
\* requests' handlers do: panic or reject on every poll.
PoisonDoesNotBlock == \A r \in Reqs \ Poison :
    r \in queue ~> r \in accepted \/ closed
=============================================================================
