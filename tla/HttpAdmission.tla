---------------------------- MODULE HttpAdmission ----------------------------
(***************************************************************************)
(* Admission of inbound sockets to an attached HTTPServer (wss_bearer.go). *)
(* Every accepted socket takes a slot and a lease until a handler has its  *)
(* request; a timer closes the socket if that takes too long.  A request   *)
(* for /_hop takes a permit until the link that comes of it is torn down.  *)
(* Slots and permits are buffered channels: their tokens are anonymous, so *)
(* whoever gives back twice takes away someone else's.                     *)
(*                                                                         *)
(* net/http and the WebSocket library are modelled by the callbacks they   *)
(* make and the deadlines they set.  pc[c] is where the goroutine of       *)
(* socket c is in its request; its link then runs beside it.               *)
(***************************************************************************)
EXTENDS Integers, FiniteSets

CONSTANTS Conns,            \* accepted sockets
          MaxPending,       \* HTTPServer.maxPending
          MaxLinks          \* MaxPendingWSSLinks

ASSUME AdmissionAssumption ==
    IsFiniteSet(Conns) /\ MaxPending \in Nat \ {0} /\ MaxLinks \in Nat \ {0}

VARIABLES
    attached, started,      \* HTTPServer.attached and started
    stopped,                \* HTTPServer.Close was called
    slots,                  \* tokens in httpAdmission.slots
    leases,                 \* keys of httpAdmission.leases
    giving,                 \* sockets whose lease is gone and whose token is not yet
    timer,                  \* of each lease
    sock,                   \* of each connection: "none", "open", "closed"
    deadline,               \* who set the socket's deadlines last, or "none"
    permits,                \* tokens in wssHandler's admission channel
    link,                   \* the link of each connection
    pc

server    == <<attached, started, stopped>>
lease     == <<slots, leases, giving, timer>>
links     == <<permits, link>>
vars      == <<server, lease, sock, deadline, links, pc>>

\* The goroutine of c is at a step, and not in the middle of a release.
At(c, step) == pc[c] = step /\ c \notin giving

Goto(c, step) == pc' = [pc EXCEPT ![c] = step]

Shut(c) == sock' = [sock EXCEPT ![c] = "closed"]

SetDeadline(c, who) == deadline' = [deadline EXCEPT ![c] = who]

-----------------------------------------------------------------------------
(* The server *)

\* attach, under mu: before the server starts, and once.
Attach ==
    /\ ~started /\ ~attached
    /\ attached' = TRUE
    /\ UNCHANGED <<started, stopped, lease, sock, deadline, links, pc>>

\* begin, under mu: only an attached server starts, and once.
Begin ==
    /\ attached /\ ~started
    /\ started' = TRUE
    /\ UNCHANGED <<attached, stopped, lease, sock, deadline, links, pc>>

\* Close shuts the listener and every socket that was not hijacked.
CloseServer ==
    /\ ~stopped
    /\ stopped' = TRUE
    /\ sock' = [c \in Conns |-> IF pc[c] \in {"out", "hijacked", "detached", "done"}
                                THEN sock[c] ELSE "closed"]
    /\ UNCHANGED <<attached, started, lease, deadline, links, pc>>

-----------------------------------------------------------------------------
(* StateNew, in the accept loop: before the socket's goroutine begins *)

Accepted(c) ==
    /\ pc[c] = "out" /\ started /\ ~stopped
    /\ Goto(c, "reading")
    /\ UNCHANGED <<server, giving, links>>

Admit(c) ==
    /\ Accepted(c)
    /\ slots < MaxPending
    /\ slots' = slots + 1
    /\ leases' = leases \cup {c}
    /\ timer' = [timer EXCEPT ![c] = "armed"]
    /\ sock' = [sock EXCEPT ![c] = "open"]
    /\ SetDeadline(c, "admission")

\* SetDeadline fails: the slot is given back at once and the socket closed.
AdmitFails(c) ==
    /\ Accepted(c)
    /\ slots < MaxPending
    /\ Shut(c)
    /\ UNCHANGED <<slots, leases, timer, deadline>>

\* Mutant: the socket is left open for net/http to answer.
OverflowServed(c) ==
    /\ Accepted(c)
    /\ slots = MaxPending
    /\ sock' = [sock EXCEPT ![c] = "open"]
    /\ UNCHANGED <<slots, leases, timer, deadline>>

\* No slot is free: the socket is closed before anything reads from it.
Overflow(c) ==
    /\ Accepted(c)
    /\ slots = MaxPending
    /\ Shut(c)
    /\ UNCHANGED <<slots, leases, timer, deadline>>

\* The lease's timer, and the goroutine it starts: a release can come between.
TimerFires(c) ==
    /\ timer[c] = "armed"
    /\ timer' = [timer EXCEPT ![c] = "firing"]
    /\ UNCHANGED <<server, slots, leases, giving, sock, deadline, links, pc>>

TimerCloses(c) ==
    /\ timer[c] = "firing"
    /\ timer' = [timer EXCEPT ![c] = "fired"]
    /\ Shut(c)
    /\ UNCHANGED <<server, slots, leases, giving, deadline, links, pc>>

-----------------------------------------------------------------------------
(* Releasing a lease *)

\* Mutant: neither the once nor the lookup: every way out releases.
ReleaseAgain(c) ==
    /\ leases' = leases \ {c}
    /\ giving' = giving \cup {c}
    /\ timer' = [timer EXCEPT ![c] = IF @ = "armed" THEN "stopped" ELSE @]
    /\ SetDeadline(c, "none")

\* release: if the socket still has a lease, stop its timer, clear the socket's
\* deadlines and drop the lease.
Release(c) ==
    IF c \in leases
    THEN /\ leases' = leases \ {c}
         /\ giving' = giving \cup {c}
         /\ timer' = [timer EXCEPT ![c] = IF @ = "armed" THEN "stopped" ELSE @]
         /\ SetDeadline(c, "none")
    ELSE UNCHANGED <<leases, giving, timer, deadline>>

\* ... and then take its token out of the channel.
GiveSlot(c) ==
    /\ c \in giving
    /\ slots > 0
    /\ slots' = slots - 1
    /\ giving' = giving \ {c}
    /\ UNCHANGED <<server, leases, timer, sock, deadline, links, pc>>

-----------------------------------------------------------------------------
(* The goroutine of a socket *)

\* TLS and headers are read; net/http sets the request's own deadlines.
ReadRequest(c) ==
    /\ At(c, "reading")
    /\ sock[c] = "open"
    /\ \E route \in {"hop", "other"} : Goto(c, route)
    /\ SetDeadline(c, "request")
    /\ UNCHANGED <<server, lease, sock, links>>

\* The peer goes away, the socket was closed, a deadline passes, or the request
\* is malformed or too large.
NoRequest(c) ==
    /\ At(c, "reading")
    /\ Goto(c, "closing")
    /\ UNCHANGED <<server, lease, sock, deadline, links>>

\* Any route but /_hop releases the lease first.
EnterHandler(c) ==
    /\ At(c, "other")
    /\ Release(c)
    /\ Goto(c, "serving")
    /\ UNCHANGED <<server, slots, sock, links>>

\* The response is written; the connection is kept for another request, under
\* net/http's own deadline, or closed.
Served(c) ==
    /\ At(c, "serving")
    /\ \/ Goto(c, "reading") /\ SetDeadline(c, "request")
       \/ Goto(c, "closing") /\ UNCHANGED deadline
    /\ UNCHANGED <<server, lease, sock, links>>

\* Mutant: a failed connection is closed without the StateClosed callback.
ConnClosedSilently(c) ==
    /\ At(c, "closing")
    /\ Shut(c)
    /\ Goto(c, "done")
    /\ UNCHANGED <<server, lease, deadline, links>>

\* net/http closes the socket; StateClosed releases.
ConnClosed(c) ==
    /\ At(c, "closing")
    /\ Shut(c)
    /\ Release(c)
    /\ Goto(c, "done")
    /\ UNCHANGED <<server, slots, links>>

-----------------------------------------------------------------------------
(* wssHandler: the /_hop route, with a release of the lease deferred *)

\* 431 or 503.
Rejected(c) ==
    /\ At(c, "hop")
    /\ Goto(c, "returning")
    /\ UNCHANGED <<server, lease, sock, deadline, links>>

TakePermit(c) ==
    /\ At(c, "hop")
    /\ permits < MaxLinks
    /\ permits' = permits + 1
    /\ Goto(c, "upgrade")
    /\ UNCHANGED <<server, lease, sock, deadline, link>>

\* Not a good upgrade request: the permit goes back.
BadUpgrade(c) ==
    /\ At(c, "upgrade")
    /\ permits' = permits - 1
    /\ Goto(c, "returning")
    /\ UNCHANGED <<server, lease, sock, deadline, link>>

\* The upgrade takes the socket from net/http; StateHijacked releases.
Hijack(c) ==
    /\ At(c, "upgrade")
    /\ Release(c)
    /\ Goto(c, "hijacked")
    /\ UNCHANGED <<server, slots, sock, links>>

\* It fails after all: the socket is closed and the permit goes back.
UpgradeFails(c) ==
    /\ At(c, "hijacked")
    /\ Shut(c)
    /\ permits' = permits - 1
    /\ Goto(c, "detached")
    /\ UNCHANGED <<server, lease, deadline, link>>

\* It succeeds, and clears the deadlines; pumpConn starts the link's reader.
Upgraded(c) ==
    /\ At(c, "hijacked")
    /\ SetDeadline(c, "none")
    /\ link' = [link EXCEPT ![c] = "starting"]
    /\ Goto(c, "detached")
    /\ UNCHANGED <<server, lease, sock, permits>>

\* The deferred releaseRequest, when the socket is still net/http's ...
Return(c) ==
    /\ At(c, "returning")
    /\ Release(c)
    /\ Goto(c, "serving")
    /\ UNCHANGED <<server, slots, sock, links>>

\* ... and when its link is already running.
Detach(c) ==
    /\ At(c, "detached")
    /\ Release(c)
    /\ Goto(c, "done")
    /\ UNCHANGED <<server, slots, sock, links>>

-----------------------------------------------------------------------------
(* The link (pumpConn) *)

\* The reader sets its deadline, and again for every message.
ReaderStarts(c) ==
    /\ link[c] = "starting"
    /\ link' = [link EXCEPT ![c] = "up"]
    /\ SetDeadline(c, "wss")
    /\ UNCHANGED <<server, lease, sock, permits, pc>>

\* closeLink: a read or a write fails or passes its deadline, or the endpoint
\* is closed.  The socket goes first ...
CloseLink(c) ==
    /\ link[c] \in {"starting", "up"}
    /\ link' = [link EXCEPT ![c] = "shut"]
    /\ Shut(c)
    /\ UNCHANGED <<server, lease, deadline, permits, pc>>

\* ... and, after the core is told, the permit.
LinkReleased(c) ==
    /\ link[c] = "shut"
    /\ link' = [link EXCEPT ![c] = "down"]
    /\ permits' = permits - 1
    /\ UNCHANGED <<server, lease, sock, deadline, pc>>

-----------------------------------------------------------------------------
Init ==
    /\ attached = FALSE /\ started = FALSE /\ stopped = FALSE
    /\ slots = 0 /\ leases = {} /\ giving = {}
    /\ timer = [c \in Conns |-> "none"]
    /\ sock = [c \in Conns |-> "none"]
    /\ deadline = [c \in Conns |-> "none"]
    /\ permits = 0
    /\ link = [c \in Conns |-> "none"]
    /\ pc = [c \in Conns |-> "out"]

Accepting(c) == Admit(c) \/ AdmitFails(c) \/ Overflow(c)
Timing(c)    == TimerFires(c) \/ TimerCloses(c)
Serving(c)   == EnterHandler(c) \/ Served(c) \/ ConnClosed(c) \/ GiveSlot(c)
Upgrading(c) == Rejected(c) \/ TakePermit(c) \/ BadUpgrade(c) \/ Hijack(c)
                \/ UpgradeFails(c) \/ Upgraded(c) \/ Return(c) \/ Detach(c)
Linking(c)   == ReaderStarts(c) \/ LinkReleased(c)

\* Everything has ended: the system may stop here and nowhere else.
Ended ==
    /\ stopped
    /\ \A c \in Conns : pc[c] \in {"out", "done"} /\ timer[c] \notin {"armed", "firing"}
                        /\ link[c] \in {"none", "down"} /\ c \notin giving
    /\ UNCHANGED vars

Next ==
    \/ Attach \/ Begin \/ CloseServer
    \/ \E c \in Conns : Accepting(c) \/ Timing(c) \/ ReadRequest(c) \/ NoRequest(c)
                        \/ Serving(c) \/ Upgrading(c) \/ Linking(c) \/ CloseLink(c)
    \/ Ended

Spec == Init /\ [][Next]_vars

(* Fairness.  Goroutines run, timers fire, handlers return.  A read ends in   *)
(* the end if the socket was closed, or if a deadline or timer watches over   *)
(* it, that is if its peer falls silent and someone is counting.              *)
ReadEnds(c)  == sock[c] = "closed" /\ NoRequest(c)
LinkEnds(c)  == (sock[c] = "closed" \/ deadline[c] = "wss") /\ CloseLink(c)

Fairness == \A c \in Conns :
    /\ WF_vars(Timing(c)) /\ WF_vars(Serving(c)) /\ WF_vars(Upgrading(c))
    /\ WF_vars(Linking(c)) /\ WF_vars(ReadEnds(c)) /\ WF_vars(LinkEnds(c))

FairSpec == Spec /\ Fairness

-----------------------------------------------------------------------------
(* Properties *)

Steps == {"out", "reading", "other", "serving", "closing", "hop", "upgrade",
          "returning", "hijacked", "detached", "done"}

TypeOK ==
    /\ attached \in BOOLEAN /\ started \in BOOLEAN /\ stopped \in BOOLEAN
    /\ slots \in 0..MaxPending /\ permits \in 0..MaxLinks
    /\ leases \subseteq Conns /\ giving \subseteq Conns
    /\ timer \in [Conns -> {"none", "armed", "firing", "fired", "stopped"}]
    /\ sock \in [Conns -> {"none", "open", "closed"}]
    /\ deadline \in [Conns -> {"none", "admission", "request", "wss"}]
    /\ link \in [Conns -> {"none", "starting", "up", "shut", "down"}]
    /\ pc \in [Conns -> Steps]

\* Sockets that hold a permit: their upgrade is under way, or their link is not
\* torn down.
Permitted == { c \in Conns : \/ pc[c] \in {"upgrade", "hijacked"}
                             \/ link[c] \in {"starting", "up", "shut"} }

\* Every slot is some socket's, and every permit some upgrade's or link's: by
\* whichever of the many ways a connection ends, it gives back its own once.
Conserved == /\ slots = Cardinality(leases) + Cardinality(giving)
             /\ permits = Cardinality(Permitted)

\* A socket that no slot was found for reaches neither a handler nor an upgrade
\* ("a rejected socket never reaches TLS or a handler").
OverflowStaysOut == \A c \in Conns :
    pc[c] \in {"other", "hop"} => c \in leases \/ timer[c] # "none"

\* A link that is up has its reader's deadline: the release of the lease, which
\* clears the socket's deadlines, never comes after it, although the handler
\* that defers it and the link run side by side.
DeadlineKept == \A c \in Conns : link[c] = "up" => deadline[c] = "wss"

\* Why tokens and deadlines are safe, as an inductive invariant: a lease goes
\* before its token, and not later than the handler, the hijack or the close;
\* a link begins when net/http has let go of its socket.
AdmissionSafe ==
    /\ TypeOK
    /\ leases \cap giving = {}
    /\ \A c \in leases : pc[c] \in {"reading", "other", "closing", "hop", "upgrade", "returning"}
    /\ \A c \in Conns : /\ link[c] # "none" => pc[c] \in {"detached", "done"}
                        /\ pc[c] = "out" => c \notin giving
    /\ Conserved
    /\ DeadlineKept

\* A socket on the way to its first request does not keep its slot for ever,
\* however slowly it speaks; a link whose peer falls silent is torn down, and
\* its permit given back.
TokensRecover ==
    \A c \in Conns :
        /\ c \in leases ~> c \notin leases \cup giving
        /\ link[c] = "up" ~> link[c] = "down"

\* "all net/http limits": while a handler serves a request, net/http's deadlines
\* for that request are in force.
RequestsTimed == \A c \in Conns : pc[c] = "serving" => deadline[c] # "none"
=============================================================================
