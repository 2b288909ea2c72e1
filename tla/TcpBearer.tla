------------------------------- MODULE TcpBearer -------------------------------
(***************************************************************************)
(* The TCP bearer (tcp_bearer.go) between two endpoints: the one in the    *)
(* role of acceptor calls Listen, the one in the role of dialer calls Dial *)
(* once for every connection.  An end <<c, s>> is connection c as          *)
(* endpoint s holds it.  Each end has a goroutine that registers the link  *)
(* and reads frames (recvLoop); each endpoint has its pump, which writes   *)
(* them, and may be closed.                                                *)
(*                                                                         *)
(* A frame is one thing here: TcpFraming has its bytes.  What matters is   *)
(* who waits for whom: a socket holds a few frames, a write waits for      *)
(* room, a read for a frame, and both fail when the connection ends.       *)
(* EndpointLifecycle has the steps inside registerLink, linkDown and       *)
(* Close; here each of them, and each libhop call, is one step.            *)
(***************************************************************************)
EXTENDS Naturals, FiniteSets

CONSTANTS Conns,            \* connections, each dialled once
          Capacity          \* frames that fit between two sockets

ASSUME BearerAssumption == IsFiniteSet(Conns) /\ Capacity \in Nat \ {0}

Sides == {"dialer", "acceptor"}
Ends  == Conns \X Sides
Peer(e) == <<e[1], IF e[2] = "dialer" THEN "acceptor" ELSE "dialer">>

VARIABLES
    life,       \* of each endpoint: "open", then Close at "hooks", "freed"
    pump,       \* next step of each pump
    target,     \* of each pump: the end that it sends to, or nothing
    links,      \* ends whose link is in their Endpoint.links
    coreUp,     \* ends whose core believes the link up
    dialHooks,  \* dialled connections whose hook is in closers, or yet to run
    lnHooks,    \* the same of Listen's two hooks
    listener,   \* "none", "open", "shut"
    accepting,  \* next step of Listen and its accept loop
    conns,      \* the connections in Listen's map
    shutting,   \* Listen's "closing"
    pc,         \* next step of the goroutine of each end
    sock,       \* of each end: "none", "open", "shut"
    broken,     \* connections that the network has reset
    wire        \* how many frames are on their way from each end

sending  == <<pump, target>>
registry == <<links, coreUp>>
listen   == <<listener, accepting, conns, shutting>>
hooks    == <<dialHooks, lnHooks>>
net      == <<broken, wire>>
vars     == <<life, sending, registry, listen, hooks, pc, sock, net>>

Closed(s) == life[s] # "open"

Goto(e, step)   == pc' = [pc EXCEPT ![e] = step]
AtPump(s, step) == pump' = [pump EXCEPT ![s] = step]
Shut(E)         == sock' = [e \in Ends |-> IF e \in E THEN "shut" ELSE sock[e]]

-----------------------------------------------------------------------------
(* Listen *)

\* net.Listen, and the hook that closes the listener, which runs at once if the
\* endpoint is closed ...
Listen ==
    /\ accepting = "none"
    /\ accepting' = "hook"
    /\ IF Closed("acceptor")
       THEN listener' = "shut" /\ UNCHANGED lnHooks
       ELSE listener' = "open" /\ lnHooks' = lnHooks \cup {"listener"}
    /\ UNCHANGED <<life, sending, registry, conns, shutting, dialHooks, pc, sock, net>>

\* ... then the hook that closes the connections.
ListenHook ==
    /\ accepting = "hook"
    /\ accepting' = "accept"
    /\ IF Closed("acceptor")
       THEN shutting' = TRUE /\ UNCHANGED lnHooks
       ELSE lnHooks' = lnHooks \cup {"conns"} /\ UNCHANGED shutting
    /\ UNCHANGED <<life, sending, registry, listener, conns, dialHooks, pc, sock, net>>

\* Connections that were dialled and never accepted.
Backlog == { c \in Conns : sock[<<c, "dialer">>] # "none" /\ sock[<<c, "acceptor">>] = "none" }

Accept(c) ==
    /\ accepting = "accept" /\ listener = "open"
    /\ c \in Backlog
    /\ sock' = [sock EXCEPT ![<<c, "acceptor">>] = "open"]
    /\ Goto(<<c, "acceptor">>, "admit")
    /\ accepting' = "admit"
    /\ UNCHANGED <<life, sending, registry, listener, conns, shutting, hooks, net>>

\* Mutant: the loop tries again whatever the error.
AcceptRetries == accepting = "accept" /\ UNCHANGED vars

\* The listener is shut, or Accept fails for want of descriptors: either way the
\* loop ends for good.
AcceptFails ==
    /\ accepting = "accept"
    /\ accepting' = "done"
    /\ UNCHANGED <<life, sending, registry, listener, conns, shutting, hooks, pc, sock, net>>

\* Under connMu: put the connection on record ...
Admit(c) ==
    /\ pc[<<c, "acceptor">>] = "admit"
    /\ ~shutting
    /\ conns' = conns \cup {c}
    /\ Goto(<<c, "acceptor">>, "register")
    /\ UNCHANGED <<life, sending, registry, listener, accepting, shutting, hooks, sock, net>>

\* ... or close it, if the hook has run.
TurnAway(c) ==
    /\ pc[<<c, "acceptor">>] = "admit"
    /\ shutting
    /\ Shut({<<c, "acceptor">>})
    /\ Goto(<<c, "acceptor">>, "done")
    /\ accepting' = "accept"
    /\ UNCHANGED <<life, sending, registry, listener, conns, shutting, hooks, net>>

-----------------------------------------------------------------------------
(* Dial *)

\* net.Dial: the kernel completes the connection before anyone accepts it.
Dial(c) ==
    /\ pc[<<c, "dialer">>] = "none" /\ listener = "open"
    /\ sock' = [sock EXCEPT ![<<c, "dialer">>] = "open"]
    /\ Goto(<<c, "dialer">>, "hook")
    /\ UNCHANGED <<life, sending, registry, listen, hooks, net>>

\* registerCloser, with the hook that closes the connection.
DialHook(c) ==
    /\ pc[<<c, "dialer">>] = "hook"
    /\ Goto(<<c, "dialer">>, "register")
    /\ IF Closed("dialer")
       THEN Shut({<<c, "dialer">>}) /\ UNCHANGED dialHooks
       ELSE dialHooks' = dialHooks \cup {c} /\ UNCHANGED sock
    /\ UNCHANGED <<life, sending, registry, listen, lnHooks, net>>

-----------------------------------------------------------------------------
(* The goroutine of an end: registerLink, recvLoop *)

\* An accepted connection is registered by the accept loop, which then goes on.
Register(e) ==
    /\ pc[e] = "register"
    /\ links' = links \cup {e}
    /\ coreUp' = IF Closed(e[2]) THEN coreUp ELSE coreUp \cup {e}
    /\ accepting' = IF e[2] = "acceptor" THEN "accept" ELSE accepting
    /\ Goto(e, "read")
    /\ UNCHANGED <<life, sending, listener, conns, shutting, hooks, sock, net>>

\* A frame of an allowed length, whole ...
ReadFrame(e) ==
    /\ pc[e] = "read"
    /\ sock[e] = "open" /\ e[1] \notin broken
    /\ wire[Peer(e)] > 0
    /\ wire' = [wire EXCEPT ![Peer(e)] = @ - 1]
    /\ Goto(e, "deliver")
    /\ UNCHANGED <<life, sending, registry, listen, hooks, sock, broken>>

\* ... or one too long, upon which recvLoop returns ...
FrameTooLong(e) ==
    /\ pc[e] = "read"
    /\ sock[e] = "open" /\ wire[Peer(e)] > 0
    /\ Goto(e, "down")
    /\ UNCHANGED <<life, sending, registry, listen, hooks, sock, net>>

\* ... as it does when the socket was shut, the connection reset, or the other
\* end closed.
ReadFails(e) ==
    /\ pc[e] = "read"
    /\ \/ sock[e] = "shut"
       \/ e[1] \in broken
       \/ sock[Peer(e)] = "shut" /\ wire[Peer(e)] = 0
    /\ Goto(e, "down")
    /\ UNCHANGED <<life, sending, registry, listen, hooks, sock, net>>

\* Mutant: delivering waits for a write of the pump, as if withNode were held
\* across bearer IO.
DeliverWaits(e) ==
    /\ pc[e] = "deliver"
    /\ pump[e[2]] # "write"
    /\ Goto(e, "read")
    /\ UNCHANGED <<life, sending, registry, listen, hooks, sock, net>>

\* deliver, under nodeMu: dropped if the endpoint is closed.
Deliver(e) ==
    /\ pc[e] = "deliver"
    /\ Goto(e, "read")
    /\ UNCHANGED <<life, sending, registry, listen, hooks, sock, net>>

\* The deferred linkDown, then Close of the socket, then the entry in the map.
LinkDown(e) ==
    /\ pc[e] = "down"
    /\ links' = links \ {e}
    /\ coreUp' = IF Closed(e[2]) THEN coreUp ELSE coreUp \ {e}
    /\ Goto(e, "shut")
    /\ UNCHANGED <<life, sending, listen, hooks, sock, net>>

ShutSocket(e) ==
    /\ pc[e] = "shut"
    /\ Shut({e})
    /\ Goto(e, IF e[2] = "acceptor" THEN "forget" ELSE "done")
    /\ UNCHANGED <<life, sending, registry, listen, hooks, net>>

Forget(e) ==
    /\ pc[e] = "forget"
    /\ conns' = conns \ {e[1]}
    /\ Goto(e, "done")
    /\ UNCHANGED <<life, sending, registry, listener, accepting, shutting, hooks, sock, net>>

-----------------------------------------------------------------------------
(* The pump *)

\* A tick drains a packet for a link that the core believes up, and starts to
\* write it if the link has its send function; or there is nothing to send.
Tick(s) ==
    /\ pump[s] = "select" /\ ~Closed(s)
    /\ \E c \in Conns :
        /\ <<c, s>> \in coreUp \cap links
        /\ target' = [target EXCEPT ![s] = {<<c, s>>}]
    /\ AtPump(s, "write")
    /\ UNCHANGED <<life, registry, listen, hooks, pc, sock, net>>

PumpExit(s) ==
    /\ pump[s] = "select" /\ Closed(s)
    /\ AtPump(s, "exit")
    /\ UNCHANGED <<life, target, registry, listen, hooks, pc, sock, net>>

Written(s) == AtPump(s, "select") /\ target' = [target EXCEPT ![s] = {}]

\* conn.Write, without a deadline, waits until there is room ...
Write(s) ==
    /\ pump[s] = "write"
    /\ \E e \in target[s] :
        /\ sock[e] = "open" /\ e[1] \notin broken /\ sock[Peer(e)] # "shut"
        /\ wire[e] < Capacity
        /\ wire' = [wire EXCEPT ![e] = @ + 1]
    /\ Written(s)
    /\ UNCHANGED <<life, registry, listen, hooks, pc, sock, broken>>

\* ... or fails, which sendFramed ignores: the reader will notice.
WriteFails(s) ==
    /\ pump[s] = "write"
    /\ \E e \in target[s] : sock[e] = "shut" \/ e[1] \in broken \/ sock[Peer(e)] = "shut"
    /\ Written(s)
    /\ UNCHANGED <<life, registry, listen, hooks, pc, sock, net>>

-----------------------------------------------------------------------------
(* Close *)

CloseBegin(s) ==
    /\ life[s] = "open"
    /\ life' = [life EXCEPT ![s] = "hooks"]
    /\ UNCHANGED <<sending, registry, listen, hooks, pc, sock, net>>

\* The hook of a dialled connection.
CloseConn(c) ==
    /\ life["dialer"] = "hooks"
    /\ c \in dialHooks
    /\ dialHooks' = dialHooks \ {c}
    /\ Shut({<<c, "dialer">>})
    /\ UNCHANGED <<life, sending, registry, listen, lnHooks, pc, net>>

\* The hook of the listener: the kernel resets what nobody has accepted.
CloseListener ==
    /\ life["acceptor"] = "hooks"
    /\ "listener" \in lnHooks
    /\ lnHooks' = lnHooks \ {"listener"}
    /\ listener' = "shut"
    /\ broken' = broken \cup Backlog
    /\ UNCHANGED <<life, sending, registry, accepting, conns, shutting, dialHooks, pc, sock, wire>>

\* Mutant: the hook closes what it finds and leaves no mark.
CloseConnsUnmarked ==
    /\ life["acceptor"] = "hooks"
    /\ lnHooks = {"conns"}
    /\ lnHooks' = {}
    /\ Shut(conns \X {"acceptor"})
    /\ UNCHANGED <<life, sending, registry, listen, dialHooks, pc, net>>

\* The hook of the accepted connections, under connMu and after the listener's.
CloseConns ==
    /\ life["acceptor"] = "hooks"
    /\ lnHooks = {"conns"}
    /\ lnHooks' = {}
    /\ shutting' = TRUE
    /\ Shut(conns \X {"acceptor"})
    /\ UNCHANGED <<life, sending, registry, listener, accepting, conns, dialHooks, pc, net>>

Free(s) ==
    /\ life[s] = "hooks"
    /\ IF s = "dialer" THEN dialHooks = {} ELSE lnHooks = {}
    /\ life' = [life EXCEPT ![s] = "freed"]
    /\ UNCHANGED <<sending, registry, listen, hooks, pc, sock, net>>

\* The network resets a connection.
Break(c) ==
    /\ c \notin broken /\ sock[<<c, "dialer">>] # "none"
    /\ broken' = broken \cup {c}
    /\ UNCHANGED <<life, sending, registry, listen, hooks, pc, sock, wire>>

-----------------------------------------------------------------------------
Init ==
    /\ life = [s \in Sides |-> "open"]
    /\ pump = [s \in Sides |-> "select"] /\ target = [s \in Sides |-> {}]
    /\ links = {} /\ coreUp = {} /\ dialHooks = {} /\ lnHooks = {}
    /\ listener = "none" /\ accepting = "none" /\ conns = {} /\ shutting = FALSE
    /\ pc = [e \in Ends |-> "none"] /\ sock = [e \in Ends |-> "none"]
    /\ broken = {} /\ wire = [e \in Ends |-> 0]

Pumping(s)  == PumpExit(s) \/ Write(s) \/ WriteFails(s)
Reader(e)   == ReadFrame(e) \/ ReadFails(e) \/ Deliver(e) \/ LinkDown(e) \/ ShutSocket(e) \/ Forget(e)
Dialling(c) == DialHook(c) \/ Register(<<c, "dialer">>)
Accepting   == ListenHook \/ (listener = "shut" /\ AcceptFails)
               \/ \E c \in Conns : Accept(c) \/ Admit(c) \/ TurnAway(c) \/ Register(<<c, "acceptor">>)
Closing(s)  == \/ Free(s)
               \/ s = "dialer" /\ \E c \in Conns : CloseConn(c)
               \/ s = "acceptor" /\ (CloseListener \/ CloseConns)

\* The goroutines, the sockets and the node of s are gone.
Gone(s) ==
    /\ life[s] = "freed" /\ pump[s] = "exit"
    /\ \A c \in Conns : sock[<<c, s>>] # "open" /\ pc[<<c, s>>] \in {"none", "done"}
    /\ s = "acceptor" => accepting \in {"none", "done"}

\* The system may stop here and nowhere else.
Ended == (\A s \in Sides : Gone(s)) /\ UNCHANGED vars

Next ==
    \/ \E s \in Sides : Tick(s) \/ Pumping(s) \/ CloseBegin(s) \/ Closing(s)
    \/ \E e \in Ends : Reader(e) \/ FrameTooLong(e)
    \/ \E c \in Conns : Dial(c) \/ Dialling(c) \/ Break(c)
    \/ Listen \/ Accepting \/ AcceptFails
    \/ Ended

Spec == Init /\ [][Next]_vars

(* Fairness.  The goroutines of an endpoint run, as long as its process is not *)
(* stopped; that its core has packets to send is not assumed.                 *)
Runs(s) ==
    /\ WF_vars(Pumping(s)) /\ WF_vars(Closing(s))
    /\ \A c \in Conns : WF_vars(Reader(<<c, s>>))
    /\ s = "dialer" => \A c \in Conns : WF_vars(Dialling(c))
    /\ s = "acceptor" => WF_vars(Accepting)

-----------------------------------------------------------------------------
(* Properties *)

Steps == {"none", "admit", "hook", "register", "read", "deliver", "down", "shut", "forget", "done"}

TypeOK ==
    /\ life \in [Sides -> {"open", "hooks", "freed"}]
    /\ pump \in [Sides -> {"select", "write", "exit"}]
    /\ target \in [Sides -> SUBSET Ends]
    /\ links \subseteq Ends /\ coreUp \subseteq Ends
    /\ dialHooks \subseteq Conns /\ lnHooks \subseteq {"listener", "conns"}
    /\ listener \in {"none", "open", "shut"}
    /\ accepting \in {"none", "hook", "accept", "admit", "done"}
    /\ conns \subseteq Conns /\ shutting \in BOOLEAN
    /\ pc \in [Ends -> Steps] /\ sock \in [Ends -> {"none", "open", "shut"}]
    /\ broken \subseteq Conns /\ wire \in [Ends -> 0..Capacity]

\* Once Close has freed the node no socket of the endpoint is open, but one in
\* the hands of a goroutine that is about to close it: one just accepted or just
\* dialled, whose next step finds the endpoint closed.
SocketsEnd == \A e \in Ends :
    life[e[2]] = "freed" /\ sock[e] = "open" => pc[e] \in {"admit", "hook"}

\* A pump does not wait for ever on a full socket as long as the other endpoint
\* runs and accepts, although that one's pump may be waiting on a full socket
\* in its turn.
PumpsResume ==
    (\A s \in Sides : Runs(s)) /\ [](accepting = "done" => listener = "shut")
        => \A s \in Sides : pump[s] = "write" ~> pump[s] # "write"

\* Close ends everything of its endpoint, a pump in the middle of a write
\* included, whatever the other endpoint does or fails to do.
WindsDown == \A s \in Sides : Runs(s) => (Closed(s) ~> Gone(s))
=============================================================================
