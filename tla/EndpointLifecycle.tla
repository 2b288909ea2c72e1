-------------------------- MODULE EndpointLifecycle --------------------------
(***************************************************************************)
(* The life of an Endpoint and of its bearer connections (endpoint.go,     *)
(* wss_bearer.go): withNode serialises every libhop call and refuses it    *)
(* once the endpoint is closed; Close marks the endpoint closed, signals   *)
(* the pump, runs the teardown hooks outside the lock and frees the node;  *)
(* a connection registers its link, then its hook, then reads frames until *)
(* the socket fails.  The threads are the pump goroutine, one goroutine    *)
(* per WSS connection (pumpConn, then its reader) and the application      *)
(* goroutines, which call into the endpoint and may Close it; a service    *)
(* handler, on the pump, may call Close as well.                           *)
(*                                                                         *)
(* pc[t] names the next step of thread t.  A libhop call is two steps,     *)
(* Enter and the call's own return, so that calls of other threads, and    *)
(* the free, can fall in between.                                          *)
(***************************************************************************)
EXTENDS Naturals, FiniteSets

CONSTANTS Links,            \* WSS connections, each with its goroutine
          Apps,             \* application goroutines
          Pump,             \* the pump goroutine
          MaxBatch,         \* bound: requests one poll returns
          None              \* nobody

ASSUME ThreadsDiffer ==
    /\ Links \cap Apps = {}
    /\ Pump \notin Links \cup Apps
    /\ None \notin Links \cup Apps \cup {Pump}

ASSUME MaxBatchAssumption == MaxBatch \in Nat

Threads == Links \cup Apps \cup {Pump}

VARIABLES
    nodeMu,         \* holder of Endpoint.nodeMu across a libhop call, or None
    closed,         \* Endpoint.closed
    signals,        \* how often Endpoint.done was closed
    frees,          \* how often the node was freed
    closers,        \* links whose teardown hook is in Endpoint.closers
    inCore,         \* threads inside a libhop call
    pc,             \* next step of each thread
    batch,          \* the hooks a Close call took and has yet to run
    target,         \* the link a thread's closeLink works on
    ret,            \* where a thread's closeLink returns to
    once,           \* closeOnce of each link
    links,          \* keys of Endpoint.links
    coreUp,         \* links the core believes up
    outbox,         \* links of the packets the pump drained and has yet to send
    reqs            \* polled service requests the pump has yet to go through

lock     == <<nodeMu, inCore>>
teardown == <<closed, signals, frees, closers, batch>>
closing  == <<target, ret, once>>
work     == <<outbox, reqs>>
wires    == <<links, coreUp, work>>
vars     == <<lock, teardown, closing, wires, pc>>

-----------------------------------------------------------------------------
(* withNode *)

\* The places that call libhop through withNode, each with the step that
\* follows when the endpoint is closed and withNode returns false.
Refused == [ connect |-> "register", deliver |-> "read", drain |-> "select",
             poll |-> "next", reply |-> "handle", settle |-> "next",
             answers |-> "select", api |-> "idle" ]

Sites == DOMAIN Refused \cup {"down"}

Goto(t, label) == pc' = [pc EXCEPT ![t] = label]

\* A step that only moves the thread on.
Move(t, from, to) ==
    pc[t] = from /\ Goto(t, to) /\ UNCHANGED <<lock, teardown, closing, wires>>

\* Mutant: withNode does not look whether the endpoint is closed.
EnterUnchecked(t) ==
    /\ pc[t] \in Sites
    /\ nodeMu = None
    /\ nodeMu' = t
    /\ inCore' = inCore \cup {t}
    /\ UNCHANGED <<teardown, closing, wires, pc>>

\* Lock nodeMu, find the endpoint open, call libhop.
Enter(t) ==
    /\ pc[t] \in Sites
    /\ nodeMu = None
    /\ ~closed
    /\ nodeMu' = t
    /\ inCore' = inCore \cup {t}
    /\ UNCHANGED <<teardown, closing, wires, pc>>

\* The libhop call returns and nodeMu is unlocked.
Leave(t, site) ==
    /\ pc[t] = site
    /\ t \in inCore
    /\ nodeMu' = None
    /\ inCore' = inCore \ {t}

\* The same, with no effect on the Go side.
Back(t, site, to) == Leave(t, site) /\ Goto(t, to) /\ UNCHANGED <<teardown, closing, wires>>

\* Lock nodeMu, find the endpoint closed, unlock.
Refuse(t) ==
    /\ pc[t] \in DOMAIN Refused
    /\ nodeMu = None
    /\ closed
    /\ Goto(t, Refused[pc[t]])
    /\ UNCHANGED <<lock, teardown, closing, wires>>

-----------------------------------------------------------------------------
(* closeLink: sync.Once, shut the socket, linkDown *)

\* Thread t calls closeLink for link l and goes on at label "next" afterwards.
CallCloseLink(t, l, next) ==
    /\ target' = [target EXCEPT ![t] = l]
    /\ ret' = [ret EXCEPT ![t] = next]
    /\ Goto(t, "once")
    /\ UNCHANGED once

\* Mutant: closeLink without its sync.Once.
OnceForgotten(t) ==
    /\ pc[t] = "once"
    /\ links' = links \ {target[t]}
    /\ Goto(t, "down")
    /\ UNCHANGED <<lock, teardown, closing, coreUp, work>>

\* First caller: the socket is shut and the link leaves Endpoint.links.
OnceRun(t) ==
    /\ pc[t] = "once"
    /\ once[target[t]] = "fresh"
    /\ once' = [once EXCEPT ![target[t]] = "running"]
    /\ links' = links \ {target[t]}
    /\ Goto(t, "down")
    /\ UNCHANGED <<lock, teardown, target, ret, coreUp, work>>

\* A later caller returns when the first has finished, and not before.
OnceSkip(t) ==
    /\ pc[t] = "once"
    /\ once[target[t]] = "done"
    /\ Goto(t, ret[t])
    /\ UNCHANGED <<lock, teardown, closing, wires>>

FinishOnce(t) ==
    /\ once' = [once EXCEPT ![target[t]] = "done"]
    /\ Goto(t, ret[t])
    /\ UNCHANGED <<teardown, target, ret, links, work>>

\* linkDown told the core; closeLink returns.
Disconnected(t) ==
    /\ Leave(t, "down")
    /\ coreUp' = coreUp \ {target[t]}
    /\ FinishOnce(t)

\* Mutant: linkDown tries the lock once and gives up when it is taken.
DisconnectTriesLock(t) ==
    /\ pc[t] = "down"
    /\ t \notin inCore
    /\ closed \/ nodeMu # None
    /\ FinishOnce(t)
    /\ UNCHANGED <<lock, coreUp>>

\* linkDown found the endpoint closed; closeLink returns all the same.
DisconnectRefused(t) ==
    /\ pc[t] = "down"
    /\ nodeMu = None
    /\ closed
    /\ FinishOnce(t)
    /\ UNCHANGED <<lock, coreUp>>

-----------------------------------------------------------------------------
(* A connection: pumpConn, then its reader goroutine *)

\* registerLink: the send function is installed before the core is told.
RegisterLink(l) ==
    /\ pc[l] = "start"
    /\ links' = links \cup {l}
    /\ Goto(l, "connect")
    /\ UNCHANGED <<lock, teardown, closing, coreUp, work>>

Connected(l) ==
    /\ Leave(l, "connect")
    /\ coreUp' = coreUp \cup {l}
    /\ Goto(l, "register")
    /\ UNCHANGED <<teardown, closing, links, work>>

\* Mutant: the hook of a connection that comes too late is lost.
RegisterCloserLate(l) ==
    /\ pc[l] = "register"
    /\ nodeMu = None
    /\ closers' = IF closed THEN closers ELSE closers \cup {l}
    /\ Goto(l, "read")
    /\ UNCHANGED <<lock, closed, signals, frees, batch, closing, wires>>

\* Mutant: registerCloser runs the hook before it unlocks.
RegisterCloserLocked(l) ==
    /\ pc[l] = "register"
    /\ nodeMu = None
    /\ IF closed
       THEN nodeMu' = l /\ CallCloseLink(l, l, "read") /\ UNCHANGED closers
       ELSE closers' = closers \cup {l} /\ Goto(l, "read") /\ UNCHANGED <<nodeMu, closing>>
    /\ UNCHANGED <<inCore, closed, signals, frees, batch, wires>>

\* registerCloser: keep the hook, or run it at once when already closed.
RegisterCloser(l) ==
    /\ pc[l] = "register"
    /\ nodeMu = None
    /\ IF closed
       THEN CallCloseLink(l, l, "read") /\ UNCHANGED closers
       ELSE closers' = closers \cup {l} /\ Goto(l, "read") /\ UNCHANGED closing
    /\ UNCHANGED <<lock, closed, signals, frees, batch, wires>>

\* A frame is read.  The reader buffers its input, so frames can still come
\* out of it after the socket was shut.
ReadFrame(l) == Move(l, "read", "deliver")

Delivered(l) == Back(l, "deliver", "read")

\* The read fails (peer gone, deadline, bad frame, socket shut): the reader's
\* deferred closeLink.
ReadFails(l) ==
    /\ pc[l] = "read"
    /\ CallCloseLink(l, l, "gone")
    /\ UNCHANGED <<lock, teardown, wires>>

-----------------------------------------------------------------------------
(* The pump *)

Tick == Move(Pump, "select", "drain")

PumpExit == signals > 0 /\ Move(Pump, "select", "exited")

\* drainOutgoing hands over packets for links the core believes up.
Drained ==
    /\ Leave(Pump, "drain")
    /\ outbox' \in SUBSET coreUp
    /\ Goto(Pump, "send")
    /\ UNCHANGED <<teardown, closing, links, coreUp, reqs>>

\* Take a packet, look its link up under mu, and drop it if the link is gone.
LookupLink ==
    /\ pc[Pump] = "send"
    /\ \E l \in outbox :
          /\ outbox' = outbox \ {l}
          /\ IF l \in links
             THEN /\ target' = [target EXCEPT ![Pump] = l]
                  /\ Goto(Pump, "write")
             ELSE UNCHANGED <<target, pc>>
    /\ UNCHANGED <<lock, teardown, ret, once, links, coreUp, reqs>>

\* A write to a socket that is not shut.
WriteOK == Move(Pump, "write", "send") /\ once[target[Pump]] = "fresh"

\* The write fails or its deadline passes, or the packet is too large.
WriteFails ==
    /\ pc[Pump] = "write"
    /\ CallCloseLink(Pump, target[Pump], "send")
    /\ UNCHANGED <<lock, teardown, wires>>

AllSent == outbox = {} /\ Move(Pump, "send", "poll")

\* takeServiceRequests returns a batch of requests.
Polled ==
    /\ Leave(Pump, "poll")
    /\ reqs' \in 0..MaxBatch
    /\ Goto(Pump, "next")
    /\ UNCHANGED <<teardown, closing, links, coreUp, outbox>>

\* The next request of the batch: run its service's handler, if it has one.
NextRequest ==
    /\ pc[Pump] = "next"
    /\ reqs > 0
    /\ reqs' = reqs - 1
    /\ \E step \in {"handle", "next"} : Goto(Pump, step)
    /\ UNCHANGED <<lock, teardown, closing, links, coreUp, outbox>>

\* The batch is through: on to the responses.
AllHandled == reqs = 0 /\ Move(Pump, "next", "answers")

\* The handler runs: it may reply, close the endpoint, return, or panic (which
\* skips the pump's acceptServiceRequest).
HandlerReplies == Move(Pump, "handle", "reply")
Replied == Back(Pump, "reply", "handle")
HandlerCloses == Move(Pump, "handle", "stop")
HandlerEnds == \E step \in {"settle", "next"} : Move(Pump, "handle", step)

\* The pump's own acceptServiceRequest returns.
Settled == Back(Pump, "settle", "next")

Answered == Back(Pump, "answers", "select")

-----------------------------------------------------------------------------
(* The application *)

\* Any other method of the endpoint: one libhop call through withNode.
CallAPI(a) == Move(a, "idle", "api")

APIReturned(a) == Back(a, "api", "idle")

CallClose(a) == Move(a, "idle", "stop")

\* Where a thread goes on after Close.
Resume(t) == IF t = Pump THEN "handle" ELSE "returned"

\* Mutant: Close does not look whether the endpoint is closed already.
CloseAgain(t) ==
    /\ pc[t] = "stop"
    /\ nodeMu = None
    /\ closed' = TRUE
    /\ batch' = [batch EXCEPT ![t] = closers]
    /\ closers' = {}
    /\ Goto(t, "signal")
    /\ UNCHANGED <<lock, signals, frees, closing, wires>>

\* Close, first critical section: take the hooks, or find the endpoint closed.
CloseBegin(t) ==
    /\ pc[t] = "stop"
    /\ nodeMu = None
    /\ IF closed
       THEN Goto(t, Resume(t)) /\ UNCHANGED <<closed, closers, batch>>
       ELSE /\ closed' = TRUE
            /\ batch' = [batch EXCEPT ![t] = closers]
            /\ closers' = {}
            /\ Goto(t, "signal")
    /\ UNCHANGED <<lock, signals, frees, closing, wires>>

\* Mutant: Close keeps nodeMu while it runs the hooks.
SignalLocked(t) ==
    /\ pc[t] = "signal"
    /\ nodeMu = None
    /\ nodeMu' = t
    /\ signals' = signals + 1
    /\ Goto(t, "closers")
    /\ UNCHANGED <<inCore, closed, frees, closers, batch, closing, wires>>

\* Mutant: Close does not close the done channel.
SignalForgotten(t) == Move(t, "signal", "closers")

\* close(e.done)
Signal(t) ==
    /\ pc[t] = "signal"
    /\ signals' = signals + 1
    /\ Goto(t, "closers")
    /\ UNCHANGED <<lock, closed, frees, closers, batch, closing, wires>>

RunCloser(t) ==
    /\ pc[t] = "closers"
    /\ \E l \in batch[t] :
          /\ batch' = [batch EXCEPT ![t] = @ \ {l}]
          /\ CallCloseLink(t, l, "closers")
    /\ UNCHANGED <<lock, closed, signals, frees, closers, wires>>

\* Lock nodeMu again and free the node.
FreeBegin(t) ==
    /\ pc[t] = "closers"
    /\ batch[t] = {}
    /\ nodeMu = None
    /\ nodeMu' = t
    /\ inCore' = inCore \cup {t}
    /\ Goto(t, "free")
    /\ UNCHANGED <<teardown, closing, wires>>

FreeEnd(t) ==
    /\ Leave(t, "free")
    /\ frees' = frees + 1
    /\ Goto(t, Resume(t))
    /\ UNCHANGED <<closed, signals, closers, batch, closing, wires>>

-----------------------------------------------------------------------------
Init ==
    /\ nodeMu = None
    /\ inCore = {}
    /\ closed = FALSE
    /\ signals = 0
    /\ frees = 0
    /\ closers = {}
    /\ batch = [t \in Threads |-> {}]
    /\ target = [t \in Threads |-> None]
    /\ ret = [t \in Threads |-> "none"]
    /\ once = [l \in Links |-> "fresh"]
    /\ links = {}
    /\ coreUp = {}
    /\ outbox = {}
    /\ reqs = 0
    /\ pc = [t \in Threads |-> IF t \in Links THEN "start"
                               ELSE IF t = Pump THEN "select" ELSE "idle"]

WithNode(t)  == Enter(t) \/ Refuse(t)
CloseLink(t) == OnceRun(t) \/ OnceSkip(t) \/ Disconnected(t) \/ DisconnectRefused(t)
Close(t)     == CloseBegin(t) \/ Signal(t) \/ RunCloser(t) \/ FreeBegin(t) \/ FreeEnd(t)

Connection(l) == RegisterLink(l) \/ Connected(l) \/ RegisterCloser(l)
                 \/ ReadFrame(l) \/ Delivered(l) \/ ReadFails(l)
PumpStep      == Tick \/ PumpExit \/ Drained \/ LookupLink \/ WriteOK \/ WriteFails
                 \/ AllSent \/ Polled \/ NextRequest \/ AllHandled \/ HandlerReplies \/ Replied \/ HandlerCloses
                 \/ HandlerEnds \/ Settled \/ Answered
App(a)        == CallAPI(a) \/ APIReturned(a) \/ CallClose(a)

\* Everything has ended: the system may stop here and nowhere else.
Ended ==
    /\ \A t \in Threads : pc[t] \in {"gone", "exited", "returned"}
    /\ UNCHANGED vars

Next ==
    \/ \E t \in Threads : WithNode(t) \/ CloseLink(t) \/ Close(t)
    \/ \E l \in Links : Connection(l)
    \/ PumpStep
    \/ \E a \in Apps : App(a)
    \/ Ended

Spec == Init /\ [][Next]_vars

(* Fairness.  Goroutines run, libhop calls return, and a Go mutex does not   *)
(* starve a waiter: whatever step a thread is at is taken if it can be taken *)
(* again and again.  Three choices need more: select picks at random among   *)
(* its ready cases, so it takes a done that stays ready; a handler returns;  *)
(* the buffer of a shut socket runs dry.  Nothing makes a connection start,  *)
(* its peer send, or an application call Close.                              *)
LinkRuns(l) == Connected(l) \/ RegisterCloser(l) \/ Delivered(l)
PumpRuns    == Tick \/ Drained \/ LookupLink \/ WriteOK \/ WriteFails \/ AllSent
               \/ Polled \/ NextRequest \/ AllHandled \/ Replied \/ Settled \/ Answered
Runs(t) == \/ WithNode(t) \/ CloseLink(t) \/ Close(t)
           \/ t \in Links /\ LinkRuns(t)
           \/ t = Pump /\ PumpRuns
           \/ t \in Apps /\ APIReturned(t)

ReadEnds(l) == ReadFails(l) /\ once[l] # "fresh"

Fairness ==
    /\ \A t \in Threads : SF_vars(Runs(t))
    /\ SF_vars(PumpExit) /\ SF_vars(HandlerEnds)
    /\ \A l \in Links : SF_vars(ReadEnds(l))

FairSpec == Spec /\ Fairness

-----------------------------------------------------------------------------
(* Properties *)

OnceSteps  == {"once", "down"}
CloseSteps == {"stop", "signal", "closers", "free"}
LinkSteps  == {"start", "connect", "register", "read", "deliver", "gone"}
PumpSteps  == {"select", "drain", "send", "write", "poll", "next", "handle", "reply",
               "settle", "answers", "exited"}
AppSteps   == {"idle", "api", "returned"}
Steps      == OnceSteps \cup CloseSteps \cup LinkSteps \cup PumpSteps \cup AppSteps

\* The steps of each kind of goroutine, where its closeLink calls return, and
\* which link they close: a connection's goroutine closes its own.
StepsOf(t) == OnceSteps \cup (IF t \in Links THEN LinkSteps
                              ELSE CloseSteps \cup IF t = Pump THEN PumpSteps ELSE AppSteps)
ReturnsOf(t) == IF t \in Links THEN {"read", "gone"}
                ELSE {"closers"} \cup IF t = Pump THEN {"send"} ELSE {}

TargetsOf(t) == IF t \in Links THEN {t} ELSE Links

\* What the type invariant says of the threads' local state: each stays within
\* the steps of its kind of goroutine, and one that is about to close or write a
\* link has a link to work on and a place to return to.
ControlOK ==
    /\ target \in [Threads -> Links \cup {None}]
    /\ ret \in [Threads -> Steps \cup {"none"}]
    /\ pc \in [Threads -> Steps]
    /\ \A t \in Threads :
          /\ pc[t] \in StepsOf(t)
          /\ pc[t] \in OnceSteps => target[t] \in TargetsOf(t) /\ ret[t] \in ReturnsOf(t)
          /\ pc[t] = "write" => target[t] \in Links

\* And of the state they share, with the hooks each has in hand.
SharedOK ==
    /\ nodeMu \in Threads \cup {None}
    /\ inCore \subseteq Threads
    /\ closed \in BOOLEAN
    /\ signals \in Nat /\ frees \in Nat
    /\ closers \subseteq Links
    /\ batch \in [Threads -> SUBSET Links]
    /\ once \in [Links -> {"fresh", "running", "done"}]
    /\ links \subseteq Links /\ coreUp \subseteq Links /\ outbox \subseteq Links
    /\ reqs \in 0..MaxBatch

\* The type invariant.
TypeOK == ControlOK /\ SharedOK

\* However many goroutines call Close, and from wherever, done is closed at
\* most once (closing it twice panics), the node is freed at most once, and
\* never before done is closed.
TornDownOnce == signals <= 1 /\ frees <= signals

\* Thread t is in the part of Close that only the first caller reaches.
Tearing(t) == \/ pc[t] \in {"signal", "closers", "free"}
              \/ pc[t] \in OnceSteps /\ ret[t] = "closers"

\* Connection l has handed its hook to registerCloser, and that call returned.
Registered(l) == /\ pc[l] \notin {"start", "connect", "register"}
                 /\ ~(pc[l] \in OnceSteps /\ ret[l] = "read")

\* No hook is lost in the race between registerCloser and Close: by the time
\* the node is freed, closeLink has completed for every connection whose
\* pumpConn got past registerCloser, so no reader is left on a live socket.
ClosersRun == frees > 0 => \A l \in Links : Registered(l) => once[l] = "done"

\* Thread t has yet to run l's hook, or is running it.
InHand(t, l) == l \in batch[t] \/ (pc[t] \in OnceSteps /\ target[t] = l)

\* The lock is held exactly across a libhop call, and the calls that overlap
\* the closed flag are the free alone.
LockInv ==
    /\ inCore = IF nodeMu = None THEN {} ELSE {nodeMu}
    /\ \A t \in inCore : /\ pc[t] \in Sites \cup {"free"}
                         /\ closed => pc[t] = "free"
    /\ \A t \in Threads : pc[t] = "free" => t \in inCore

\* At most one thread tears the endpoint down, once.
TeardownInv ==
    /\ \A t \in Threads : Tearing(t) =>
          closed /\ frees = 0 /\ signals = (IF pc[t] = "signal" THEN 0 ELSE 1)
    /\ \A s, t \in Threads : Tearing(s) /\ Tearing(t) => s = t
    /\ ~closed => signals = 0 /\ frees = 0
    /\ TornDownOnce

\* The hook of every registered connection is on record, in the hands of the
\* thread that tears down, or has run.
HookInv ==
    /\ closed => closers = {}
    /\ \A t \in Threads : pc[t] = "free" => batch[t] = {}
    /\ \A l \in Links : Registered(l) =>
          \/ once[l] = "done"
          \/ l \in closers
          \/ \E t \in Threads : Tearing(t) /\ InHand(t, l)

\* Why Close is safe, as an inductive invariant: the lock and the closed flag
\* together exclude every call from the free, one thread wins the teardown,
\* and each hook passes from registerCloser to that thread without a gap.
CloseSafe == TypeOK /\ LockInv /\ TeardownInv /\ HookInv

\* A link that was closed stays closed, whoever closed it and while whichever
\* other goroutine was using it: no send function is left for it, and the
\* core no longer believes it up (as long as there is a core to tell).
NoResurrection ==
    \A l \in Links : once[l] = "done" => l \notin links /\ (l \in coreUp => closed)

\* A packet for a link nobody has begun to close is never dropped: the core
\* learns of a link only once its send function is there (the first Noise
\* message would be lost otherwise), and the function goes only with closeLink.
NoDroppedPacket == \A l \in coreUp : once[l] = "fresh" => l \in links

\* Thread t is inside the once of link l.
Running(t, l) == pc[t] = "down" /\ target[t] = l

\* Thread t is at a step that begins by locking nodeMu.
WantsLock(t) ==
    /\ \/ pc[t] \in Sites \cup {"register", "stop"}
       \/ pc[t] = "closers" /\ batch[t] = {}
    /\ t \notin inCore

\* Thread t cannot go on unless another does.
Blocked(t) ==
    \/ WantsLock(t) /\ nodeMu # None
    \/ pc[t] = "once" /\ once[target[t]] = "running"

WaitsFor(t, u) ==
    \/ WantsLock(t) /\ nodeMu = u
    \/ pc[t] = "once" /\ Running(u, target[t])

\* Whoever waits for nodeMu, or for the closeLink that another has begun, waits
\* for somebody, and behind at most one more there is a thread that can go on:
\* connections, the pump's failing write, Close and its hooks, which closeLink
\* makes wait for each other and for the lock, never wait in a circle.
WaitsEnd ==
    \A t \in Threads : Blocked(t) =>
        \E u \in Threads : /\ WaitsFor(t, u)
                           /\ ~Blocked(u) \/ \E v \in Threads : WaitsFor(u, v) /\ ~Blocked(v)

\* The state of the node as NodeContract sees it.
Phase == IF frees > 0 THEN "freed"
         ELSE IF \E t \in inCore : pc[t] = "free" THEN "freeing" ELSE "live"

Node == INSTANCE NodeContract WITH users <- inCore, phase <- Phase
\* The Go side keeps libhop's contract: no call, from a late reader, the pump
\* or the application, overlaps or follows the free.
Contract == Node!Spec

\* Close returns to every application goroutine that calls it, though it waits
\* for the lock and for closeLinks that others have begun.
CloseReturns == \A a \in Apps : pc[a] = "stop" ~> pc[a] = "returned"

\* A closed endpoint leaves no goroutine behind: the pump exits and every
\* connection that was begun is closed and its reader gone.
WindsDown == closed ~> /\ pc[Pump] = "exited"
                       /\ \A l \in Links : pc[l] \in {"start", "gone"}
=============================================================================
