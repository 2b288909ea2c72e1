---------------------------- MODULE TcpBearerProofs ----------------------------
(***************************************************************************)
(* What the bearer's goroutines do to its sockets, for any number of       *)
(* connections and any capacity: types, and that no socket outlives its    *)
(* endpoint.  What becomes of the bytes in one of them, for packets of any *)
(* length: the far side is handed the packets that were sent.              *)
(***************************************************************************)
EXTENDS TcpBearer, TcpFraming, SequenceTheorems, TLAPS

-----------------------------------------------------------------------------
(* The sockets *)

\* An end has a socket as soon as it has a goroutine, a hook or an entry in the
\* map, and which steps are whose.
Placed ==
    /\ \A e \in Ends : pc[e] = "none" <=> sock[e] = "none"
    /\ \A c \in Conns : /\ pc[<<c, "acceptor">>] # "hook"
                        /\ pc[<<c, "dialer">>] \notin {"admit", "forget"}
                        /\ pc[<<c, "acceptor">>] = "forget" => sock[<<c, "acceptor">>] = "shut"
    /\ \A c \in conns : sock[<<c, "acceptor">>] # "none"
    /\ \A c \in dialHooks : sock[<<c, "dialer">>] # "none"

\* Listen has registered its second hook, or found the endpoint closed, before
\* it accepts anything.
Covered ==
    /\ accepting \in {"none", "hook"} => \A c \in Conns : sock[<<c, "acceptor">>] = "none"
    /\ accepting \notin {"none", "hook"} => shutting \/ "conns" \in lnHooks

\* An open socket is on record, but for the two steps that put it there; what
\* is on record when the hook has run is shut.
OnRecord ==
    /\ \A c \in Conns : sock[<<c, "acceptor">>] = "open" => pc[<<c, "acceptor">>] = "admit" \/ c \in conns
    /\ shutting => \A c \in conns : sock[<<c, "acceptor">>] = "shut"
    /\ \A c \in Conns : sock[<<c, "dialer">>] = "open" => pc[<<c, "dialer">>] = "hook" \/ c \in dialHooks

\* The node is freed after the last hook, and none is registered any more.
HooksRun ==
    /\ life["acceptor"] = "freed" => lnHooks = {}
    /\ life["dialer"] = "freed" => dialHooks = {}

IInv == TypeOK /\ Placed /\ Covered /\ OnRecord /\ HooksRun

-----------------------------------------------------------------------------
LEMMA TypeStep == TypeOK /\ [Next]_vars => TypeOK'
<1> SUFFICES ASSUME TypeOK, [Next]_vars PROVE TypeOK'
  OBVIOUS
<1> USE BearerAssumption DEF TypeOK, Steps, Sides, Ends, sending, registry, listen, hooks, net, Goto, AtPump, Shut, Closed
<1>1. ASSUME NEW s \in Sides, Tick(s) PROVE TypeOK'
  BY <1>1 DEF Tick
<1>2. ASSUME NEW s \in Sides, PumpExit(s) PROVE TypeOK'
  BY <1>2 DEF PumpExit
<1>3. ASSUME NEW s \in Sides, Write(s) PROVE TypeOK'
  BY <1>3 DEF Write, Written, Peer
<1>4. ASSUME NEW s \in Sides, WriteFails(s) PROVE TypeOK'
  BY <1>4 DEF WriteFails, Written, Peer
<1>5. ASSUME NEW s \in Sides, CloseBegin(s) PROVE TypeOK'
  BY <1>5 DEF CloseBegin
<1>6. ASSUME NEW s \in Sides, Free(s) PROVE TypeOK'
  BY <1>6 DEF Free
<1>7. ASSUME NEW e \in Ends, Register(e) PROVE TypeOK'
  BY <1>7 DEF Register
<1>8. ASSUME NEW e \in Ends, ReadFrame(e) PROVE TypeOK'
  BY <1>8 DEF ReadFrame, Peer
<1>9. ASSUME NEW e \in Ends, FrameTooLong(e) PROVE TypeOK'
  BY <1>9 DEF FrameTooLong, Peer
<1>10. ASSUME NEW e \in Ends, ReadFails(e) PROVE TypeOK'
  BY <1>10 DEF ReadFails, Peer
<1>11. ASSUME NEW e \in Ends, Deliver(e) PROVE TypeOK'
  BY <1>11 DEF Deliver
<1>12. ASSUME NEW e \in Ends, LinkDown(e) PROVE TypeOK'
  BY <1>12 DEF LinkDown
<1>13. ASSUME NEW e \in Ends, ShutSocket(e) PROVE TypeOK'
  BY <1>13 DEF ShutSocket
<1>14. ASSUME NEW e \in Ends, Forget(e) PROVE TypeOK'
  BY <1>14 DEF Forget
<1>15. ASSUME NEW c \in Conns, Accept(c) PROVE TypeOK'
  BY <1>15 DEF Accept, Backlog
<1>16. ASSUME NEW c \in Conns, Admit(c) PROVE TypeOK'
  BY <1>16 DEF Admit
<1>17. ASSUME NEW c \in Conns, TurnAway(c) PROVE TypeOK'
  BY <1>17 DEF TurnAway
<1>18. ASSUME NEW c \in Conns, Dial(c) PROVE TypeOK'
  BY <1>18 DEF Dial
<1>19. ASSUME NEW c \in Conns, DialHook(c) PROVE TypeOK'
  BY <1>19 DEF DialHook
<1>20. ASSUME NEW c \in Conns, CloseConn(c) PROVE TypeOK'
  BY <1>20 DEF CloseConn
<1>21. ASSUME NEW c \in Conns, Break(c) PROVE TypeOK'
  BY <1>21 DEF Break
<1>22. CASE Listen
  BY <1>22 DEF Listen
<1>23. CASE ListenHook
  BY <1>23 DEF ListenHook
<1>24. CASE AcceptFails
  BY <1>24 DEF AcceptFails
<1>25. CASE CloseListener
  BY <1>25 DEF CloseListener, Backlog
<1>26. CASE CloseConns
  BY <1>26 DEF CloseConns
<1>27. CASE UNCHANGED vars
  BY <1>27 DEF vars
<1> QED
  BY <1>1, <1>2, <1>3, <1>4, <1>5, <1>6, <1>7, <1>8, <1>9, <1>10, <1>11, <1>12, <1>13, <1>14, <1>15, <1>16, <1>17, <1>18, <1>19, <1>20, <1>21, <1>22, <1>23, <1>24, <1>25, <1>26, <1>27
     DEF Next, Pumping, Reader, Dialling, Accepting, Closing, Ended, Ends

LEMMA PlacedStep == TypeOK /\ Placed /\ [Next]_vars => Placed'
<1> SUFFICES ASSUME TypeOK, Placed, [Next]_vars PROVE Placed'
  OBVIOUS
<1> USE DEF TypeOK, Placed, Steps, Sides, Ends, sending, registry, listen, hooks, net, Goto, AtPump, Shut, Closed
<1>1. ASSUME NEW s \in Sides, Tick(s) PROVE Placed'
  BY <1>1 DEF Tick
<1>2. ASSUME NEW s \in Sides, PumpExit(s) PROVE Placed'
  BY <1>2 DEF PumpExit
<1>3. ASSUME NEW s \in Sides, Write(s) PROVE Placed'
  BY <1>3 DEF Write, Written, Peer
<1>4. ASSUME NEW s \in Sides, WriteFails(s) PROVE Placed'
  BY <1>4 DEF WriteFails, Written, Peer
<1>5. ASSUME NEW s \in Sides, CloseBegin(s) PROVE Placed'
  BY <1>5 DEF CloseBegin
<1>6. ASSUME NEW s \in Sides, Free(s) PROVE Placed'
  BY <1>6 DEF Free
<1>7. ASSUME NEW e \in Ends, Register(e) PROVE Placed'
  BY <1>7 DEF Register
<1>8. ASSUME NEW e \in Ends, ReadFrame(e) PROVE Placed'
  BY <1>8 DEF ReadFrame, Peer
<1>9. ASSUME NEW e \in Ends, FrameTooLong(e) PROVE Placed'
  BY <1>9 DEF FrameTooLong, Peer
<1>10. ASSUME NEW e \in Ends, ReadFails(e) PROVE Placed'
  BY <1>10 DEF ReadFails, Peer
<1>11. ASSUME NEW e \in Ends, Deliver(e) PROVE Placed'
  BY <1>11 DEF Deliver
<1>12. ASSUME NEW e \in Ends, LinkDown(e) PROVE Placed'
  BY <1>12 DEF LinkDown
<1>13. ASSUME NEW e \in Ends, ShutSocket(e) PROVE Placed'
  BY <1>13 DEF ShutSocket
<1>14. ASSUME NEW e \in Ends, Forget(e) PROVE Placed'
  BY <1>14 DEF Forget
<1>15. ASSUME NEW c \in Conns, Accept(c) PROVE Placed'
  BY <1>15 DEF Accept, Backlog
<1>16. ASSUME NEW c \in Conns, Admit(c) PROVE Placed'
  BY <1>16 DEF Admit
<1>17. ASSUME NEW c \in Conns, TurnAway(c) PROVE Placed'
  BY <1>17 DEF TurnAway
<1>18. ASSUME NEW c \in Conns, Dial(c) PROVE Placed'
  BY <1>18 DEF Dial
<1>19. ASSUME NEW c \in Conns, DialHook(c) PROVE Placed'
  <2>1. pc[<<c, "dialer">>] = "hook" /\ pc' = [pc EXCEPT ![<<c, "dialer">>] = "register"]
        /\ UNCHANGED conns
    BY <1>19 DEF DialHook
  <2>2. sock[<<c, "dialer">>] # "none"
    BY <2>1
  <2>3. CASE Closed("dialer")
    <3>1. sock' = [e \in Ends |-> IF e \in {<<c, "dialer">>} THEN "shut" ELSE sock[e]]
          /\ UNCHANGED dialHooks
      BY <1>19, <2>3 DEF DialHook
    <3> QED
      BY <2>1, <2>2, <3>1
  <2>4. CASE ~Closed("dialer")
    <3>1. UNCHANGED sock /\ dialHooks' = dialHooks \cup {c}
      BY <1>19, <2>4 DEF DialHook
    <3> QED
      BY <2>1, <2>2, <3>1
  <2> QED
    BY <2>3, <2>4
<1>20. ASSUME NEW c \in Conns, CloseConn(c) PROVE Placed'
  BY <1>20 DEF CloseConn
<1>21. ASSUME NEW c \in Conns, Break(c) PROVE Placed'
  BY <1>21 DEF Break
<1>22. CASE Listen
  BY <1>22 DEF Listen
<1>23. CASE ListenHook
  BY <1>23 DEF ListenHook
<1>24. CASE AcceptFails
  BY <1>24 DEF AcceptFails
<1>25. CASE CloseListener
  BY <1>25 DEF CloseListener, Backlog
<1>26. CASE CloseConns
  BY <1>26 DEF CloseConns
<1>27. CASE UNCHANGED vars
  BY <1>27 DEF vars
<1> QED
  BY <1>1, <1>2, <1>3, <1>4, <1>5, <1>6, <1>7, <1>8, <1>9, <1>10, <1>11, <1>12, <1>13, <1>14, <1>15, <1>16, <1>17, <1>18, <1>19, <1>20, <1>21, <1>22, <1>23, <1>24, <1>25, <1>26, <1>27
     DEF Next, Pumping, Reader, Dialling, Accepting, Closing, Ended, Ends

LEMMA CoveredStep == TypeOK /\ Placed /\ Covered /\ [Next]_vars => Covered'
<1> SUFFICES ASSUME TypeOK, Placed, Covered, [Next]_vars PROVE Covered'
  OBVIOUS
<1> USE DEF TypeOK, Placed, Covered, Steps, Sides, Ends, sending, registry, listen, hooks, net, Goto, AtPump, Shut, Closed
<1>1. ASSUME NEW s \in Sides, Tick(s) PROVE Covered'
  BY <1>1 DEF Tick
<1>2. ASSUME NEW s \in Sides, PumpExit(s) PROVE Covered'
  BY <1>2 DEF PumpExit
<1>3. ASSUME NEW s \in Sides, Write(s) PROVE Covered'
  BY <1>3 DEF Write, Written, Peer
<1>4. ASSUME NEW s \in Sides, WriteFails(s) PROVE Covered'
  BY <1>4 DEF WriteFails, Written, Peer
<1>5. ASSUME NEW s \in Sides, CloseBegin(s) PROVE Covered'
  BY <1>5 DEF CloseBegin
<1>6. ASSUME NEW s \in Sides, Free(s) PROVE Covered'
  BY <1>6 DEF Free
<1>7. ASSUME NEW e \in Ends, Register(e) PROVE Covered'
  BY <1>7 DEF Register
<1>8. ASSUME NEW e \in Ends, ReadFrame(e) PROVE Covered'
  BY <1>8 DEF ReadFrame, Peer
<1>9. ASSUME NEW e \in Ends, FrameTooLong(e) PROVE Covered'
  BY <1>9 DEF FrameTooLong, Peer
<1>10. ASSUME NEW e \in Ends, ReadFails(e) PROVE Covered'
  BY <1>10 DEF ReadFails, Peer
<1>11. ASSUME NEW e \in Ends, Deliver(e) PROVE Covered'
  BY <1>11 DEF Deliver
<1>12. ASSUME NEW e \in Ends, LinkDown(e) PROVE Covered'
  BY <1>12 DEF LinkDown
<1>13. ASSUME NEW e \in Ends, ShutSocket(e) PROVE Covered'
  BY <1>13 DEF ShutSocket
<1>14. ASSUME NEW e \in Ends, Forget(e) PROVE Covered'
  BY <1>14 DEF Forget
<1>15. ASSUME NEW c \in Conns, Accept(c) PROVE Covered'
  BY <1>15 DEF Accept, Backlog
<1>16. ASSUME NEW c \in Conns, Admit(c) PROVE Covered'
  BY <1>16 DEF Admit
<1>17. ASSUME NEW c \in Conns, TurnAway(c) PROVE Covered'
  BY <1>17 DEF TurnAway
<1>18. ASSUME NEW c \in Conns, Dial(c) PROVE Covered'
  BY <1>18 DEF Dial
<1>19. ASSUME NEW c \in Conns, DialHook(c) PROVE Covered'
  BY <1>19 DEF DialHook
<1>20. ASSUME NEW c \in Conns, CloseConn(c) PROVE Covered'
  BY <1>20 DEF CloseConn
<1>21. ASSUME NEW c \in Conns, Break(c) PROVE Covered'
  BY <1>21 DEF Break
<1>22. CASE Listen
  BY <1>22 DEF Listen
<1>23. CASE ListenHook
  BY <1>23 DEF ListenHook
<1>24. CASE AcceptFails
  BY <1>24 DEF AcceptFails
<1>25. CASE CloseListener
  BY <1>25 DEF CloseListener, Backlog
<1>26. CASE CloseConns
  BY <1>26 DEF CloseConns
<1>27. CASE UNCHANGED vars
  BY <1>27 DEF vars
<1> QED
  BY <1>1, <1>2, <1>3, <1>4, <1>5, <1>6, <1>7, <1>8, <1>9, <1>10, <1>11, <1>12, <1>13, <1>14, <1>15, <1>16, <1>17, <1>18, <1>19, <1>20, <1>21, <1>22, <1>23, <1>24, <1>25, <1>26, <1>27
     DEF Next, Pumping, Reader, Dialling, Accepting, Closing, Ended, Ends

\* Only the reader of an accepted connection leaves the map, its socket shut.
LEMMA Forgetting ==
    ASSUME Placed, NEW d \in Conns, NEW e, e = <<d, "acceptor">> \/ e = <<d, "dialer">>, Forget(e)
    PROVE  e = <<d, "acceptor">> /\ sock[e] = "shut"
<1>1. pc[e] = "forget"
  BY DEF Forget
<1>2. pc[<<d, "dialer">>] # "forget" /\ (pc[<<d, "acceptor">>] = "forget" => sock[<<d, "acceptor">>] = "shut")
  BY DEF Placed
<1> QED
  BY <1>1, <1>2

LEMMA OnRecordStep == TypeOK /\ Placed /\ Covered /\ OnRecord /\ [Next]_vars => OnRecord'
<1> SUFFICES ASSUME TypeOK, Placed, Covered, OnRecord, [Next]_vars PROVE OnRecord'
  OBVIOUS
<1> USE DEF TypeOK, Placed, Covered, OnRecord, Steps, Sides, Ends, sending, registry, listen, hooks, net, Goto, AtPump, Shut, Closed
<1>1. ASSUME NEW s \in Sides, Tick(s) PROVE OnRecord'
  BY <1>1 DEF Tick
<1>2. ASSUME NEW s \in Sides, PumpExit(s) PROVE OnRecord'
  BY <1>2 DEF PumpExit
<1>3. ASSUME NEW s \in Sides, Write(s) PROVE OnRecord'
  BY <1>3 DEF Write, Written, Peer
<1>4. ASSUME NEW s \in Sides, WriteFails(s) PROVE OnRecord'
  BY <1>4 DEF WriteFails, Written, Peer
<1>5. ASSUME NEW s \in Sides, CloseBegin(s) PROVE OnRecord'
  BY <1>5 DEF CloseBegin
<1>6. ASSUME NEW s \in Sides, Free(s) PROVE OnRecord'
  BY <1>6 DEF Free
<1>7. ASSUME NEW e \in Ends, Register(e) PROVE OnRecord'
  BY <1>7 DEF Register
<1>8. ASSUME NEW e \in Ends, ReadFrame(e) PROVE OnRecord'
  BY <1>8 DEF ReadFrame, Peer
<1>9. ASSUME NEW e \in Ends, FrameTooLong(e) PROVE OnRecord'
  BY <1>9 DEF FrameTooLong, Peer
<1>10. ASSUME NEW e \in Ends, ReadFails(e) PROVE OnRecord'
  BY <1>10 DEF ReadFails, Peer
<1>11. ASSUME NEW e \in Ends, Deliver(e) PROVE OnRecord'
  BY <1>11 DEF Deliver
<1>12. ASSUME NEW e \in Ends, LinkDown(e) PROVE OnRecord'
  BY <1>12 DEF LinkDown
<1>13. ASSUME NEW e \in Ends, ShutSocket(e) PROVE OnRecord'
  BY <1>13 DEF ShutSocket
<1>14. ASSUME NEW e \in Ends, Forget(e) PROVE OnRecord'
  <2>1. PICK d \in Conns : e = <<d, "acceptor">> \/ e = <<d, "dialer">>
    OBVIOUS
  <2>2. e = <<d, "acceptor">> /\ sock[e] = "shut"
    BY <1>14, <2>1, Forgetting
  <2>3. conns' = conns \ {d} /\ pc' = [pc EXCEPT ![e] = "done"] /\ UNCHANGED <<sock, shutting, dialHooks>>
    BY <1>14, <2>2 DEF Forget
  <2> QED
    BY <2>2, <2>3
<1>15. ASSUME NEW c \in Conns, Accept(c) PROVE OnRecord'
  BY <1>15 DEF Accept, Backlog
<1>16. ASSUME NEW c \in Conns, Admit(c) PROVE OnRecord'
  BY <1>16 DEF Admit
<1>17. ASSUME NEW c \in Conns, TurnAway(c) PROVE OnRecord'
  BY <1>17 DEF TurnAway
<1>18. ASSUME NEW c \in Conns, Dial(c) PROVE OnRecord'
  BY <1>18 DEF Dial
<1>19. ASSUME NEW c \in Conns, DialHook(c) PROVE OnRecord'
  BY <1>19 DEF DialHook
<1>20. ASSUME NEW c \in Conns, CloseConn(c) PROVE OnRecord'
  BY <1>20 DEF CloseConn
<1>21. ASSUME NEW c \in Conns, Break(c) PROVE OnRecord'
  BY <1>21 DEF Break
<1>22. CASE Listen
  BY <1>22 DEF Listen
<1>23. CASE ListenHook
  BY <1>23 DEF ListenHook
<1>24. CASE AcceptFails
  BY <1>24 DEF AcceptFails
<1>25. CASE CloseListener
  BY <1>25 DEF CloseListener, Backlog
<1>26. CASE CloseConns
  BY <1>26 DEF CloseConns
<1>27. CASE UNCHANGED vars
  BY <1>27 DEF vars
<1> QED
  BY <1>1, <1>2, <1>3, <1>4, <1>5, <1>6, <1>7, <1>8, <1>9, <1>10, <1>11, <1>12, <1>13, <1>14, <1>15, <1>16, <1>17, <1>18, <1>19, <1>20, <1>21, <1>22, <1>23, <1>24, <1>25, <1>26, <1>27, ZenonT(40)
     DEF Next, Pumping, Reader, Dialling, Accepting, Closing, Ended, Ends

LEMMA HooksRunStep == TypeOK /\ HooksRun /\ [Next]_vars => HooksRun'
<1> SUFFICES ASSUME TypeOK, HooksRun, [Next]_vars PROVE HooksRun'
  OBVIOUS
<1> USE DEF TypeOK, HooksRun, Steps, Sides, Ends, sending, registry, listen, hooks, net, Goto, AtPump, Shut, Closed
<1>1. ASSUME NEW s \in Sides, Tick(s) PROVE HooksRun'
  BY <1>1 DEF Tick
<1>2. ASSUME NEW s \in Sides, PumpExit(s) PROVE HooksRun'
  BY <1>2 DEF PumpExit
<1>3. ASSUME NEW s \in Sides, Write(s) PROVE HooksRun'
  BY <1>3 DEF Write, Written, Peer
<1>4. ASSUME NEW s \in Sides, WriteFails(s) PROVE HooksRun'
  BY <1>4 DEF WriteFails, Written, Peer
<1>5. ASSUME NEW s \in Sides, CloseBegin(s) PROVE HooksRun'
  BY <1>5 DEF CloseBegin
<1>6. ASSUME NEW s \in Sides, Free(s) PROVE HooksRun'
  BY <1>6 DEF Free
<1>7. ASSUME NEW e \in Ends, Register(e) PROVE HooksRun'
  BY <1>7 DEF Register
<1>8. ASSUME NEW e \in Ends, ReadFrame(e) PROVE HooksRun'
  BY <1>8 DEF ReadFrame, Peer
<1>9. ASSUME NEW e \in Ends, FrameTooLong(e) PROVE HooksRun'
  BY <1>9 DEF FrameTooLong, Peer
<1>10. ASSUME NEW e \in Ends, ReadFails(e) PROVE HooksRun'
  BY <1>10 DEF ReadFails, Peer
<1>11. ASSUME NEW e \in Ends, Deliver(e) PROVE HooksRun'
  BY <1>11 DEF Deliver
<1>12. ASSUME NEW e \in Ends, LinkDown(e) PROVE HooksRun'
  BY <1>12 DEF LinkDown
<1>13. ASSUME NEW e \in Ends, ShutSocket(e) PROVE HooksRun'
  BY <1>13 DEF ShutSocket
<1>14. ASSUME NEW e \in Ends, Forget(e) PROVE HooksRun'
  BY <1>14 DEF Forget
<1>15. ASSUME NEW c \in Conns, Accept(c) PROVE HooksRun'
  BY <1>15 DEF Accept, Backlog
<1>16. ASSUME NEW c \in Conns, Admit(c) PROVE HooksRun'
  BY <1>16 DEF Admit
<1>17. ASSUME NEW c \in Conns, TurnAway(c) PROVE HooksRun'
  BY <1>17 DEF TurnAway
<1>18. ASSUME NEW c \in Conns, Dial(c) PROVE HooksRun'
  BY <1>18 DEF Dial
<1>19. ASSUME NEW c \in Conns, DialHook(c) PROVE HooksRun'
  BY <1>19 DEF DialHook
<1>20. ASSUME NEW c \in Conns, CloseConn(c) PROVE HooksRun'
  BY <1>20 DEF CloseConn
<1>21. ASSUME NEW c \in Conns, Break(c) PROVE HooksRun'
  BY <1>21 DEF Break
<1>22. CASE Listen
  BY <1>22 DEF Listen
<1>23. CASE ListenHook
  BY <1>23 DEF ListenHook
<1>24. CASE AcceptFails
  BY <1>24 DEF AcceptFails
<1>25. CASE CloseListener
  BY <1>25 DEF CloseListener, Backlog
<1>26. CASE CloseConns
  BY <1>26 DEF CloseConns
<1>27. CASE UNCHANGED vars
  BY <1>27 DEF vars
<1> QED
  BY <1>1, <1>2, <1>3, <1>4, <1>5, <1>6, <1>7, <1>8, <1>9, <1>10, <1>11, <1>12, <1>13, <1>14, <1>15, <1>16, <1>17, <1>18, <1>19, <1>20, <1>21, <1>22, <1>23, <1>24, <1>25, <1>26, <1>27
     DEF Next, Pumping, Reader, Dialling, Accepting, Closing, Ended, Ends

-----------------------------------------------------------------------------
LEMMA Holds == Spec => []IInv
<1>1. Init => IInv
  <2> SUFFICES ASSUME Init PROVE IInv
    OBVIOUS
  <2>1. shutting \in BOOLEAN
    BY Zenon DEF Init
  <2>2. 0 \in 0..Capacity
    BY BearerAssumption
  <2>3. /\ life \in [Sides -> {"open", "hooks", "freed"}]
        /\ pump \in [Sides -> {"select", "write", "exit"}]
        /\ target \in [Sides -> SUBSET Ends]
        /\ pc \in [Ends -> Steps] /\ sock \in [Ends -> {"none", "open", "shut"}]
        /\ wire \in [Ends -> 0..Capacity]
    BY <2>2 DEF Init, Steps
  <2>4. /\ links = {} /\ coreUp = {} /\ dialHooks = {} /\ lnHooks = {} /\ conns = {}
        /\ broken = {} /\ listener = "none" /\ accepting = "none"
    BY DEF Init
  <2>5. TypeOK
    BY <2>1, <2>3, <2>4 DEF TypeOK
  <2>6. Placed /\ Covered /\ OnRecord /\ HooksRun
    BY DEF Init, Placed, Covered, OnRecord, HooksRun, Sides, Ends
  <2> QED
    BY <2>5, <2>6 DEF IInv
<1>2. IInv /\ [Next]_vars => IInv'
  BY TypeStep, PlacedStep, CoveredStep, OnRecordStep, HooksRunStep DEF IInv
<1> QED
  BY <1>1, <1>2, PTL DEF Spec

\* Every goroutine of the bearer stays within its steps, and a socket never
\* holds more frames than fit.
THEOREM TypesHold == Spec => []TypeOK
<1>1. IInv => TypeOK
  BY DEF IInv
<1> QED
  BY <1>1, Holds, PTL

\* Once Close has freed the node, every socket is shut or about to be: no
\* connection slips between the hooks, the map and the accept loop.
THEOREM NoSocketOutlives == Spec => []SocketsEnd
<1>1. IInv => SocketsEnd
  <2> SUFFICES ASSUME IInv, NEW c \in Conns, NEW s \in Sides, life[s] = "freed",
                      sock[<<c, s>>] = "open"
               PROVE  pc[<<c, s>>] \in {"admit", "hook"}
    BY DEF SocketsEnd, Ends
  <2>1. CASE s = "dialer"
    BY <2>1 DEF IInv, OnRecord, HooksRun
  <2>2. CASE s = "acceptor"
    <3>1. accepting \notin {"none", "hook"}
      BY <2>2 DEF IInv, Covered
    <3>2. shutting
      BY <2>2, <3>1 DEF IInv, Covered, HooksRun
    <3> QED
      BY <2>2, <3>2 DEF IInv, OnRecord
  <2> QED
    BY <2>1, <2>2 DEF Sides
<1> QED
  BY <1>1, Holds, PTL

-----------------------------------------------------------------------------
(* The lengths of the frames *)

\* Bytes of a number, most significant first, and the number that they are.
LEMMA Digit ==
    ASSUME NEW n \in Nat
    PROVE  /\ Shift(n) \in Nat
           /\ n % Base \in Bytes
           /\ n = Base * Shift(n) + (n % Base)
<1>1. Base \in Nat /\ Base > 1
  BY FramingAssumption
<1>2. /\ n \div Base \in Int /\ n % Base \in 0..(Base - 1)
      /\ n = Base * (n \div Base) + (n % Base)
  BY <1>1
<1>3. n \div Base >= 0
  BY <1>1
<1> QED
  BY <1>1, <1>2, <1>3 DEF Shift, Bytes

LEMMA Times ==
    ASSUME NEW a \in Nat, NEW b \in Nat, NEW c \in Nat, a <= b
    PROVE  c * a <= c * b
OBVIOUS

LEMMA Shorter ==
    ASSUME NEW n \in Nat, NEW m \in Nat, n < Base * m
    PROVE  Shift(n) < m
<1>1. Base \in Nat /\ Shift(n) \in Nat /\ n % Base \in Nat /\ n = Base * Shift(n) + (n % Base)
  <2>1. Base \in Nat
    BY FramingAssumption
  <2>2. /\ Shift(n) \in Nat /\ n % Base \in 0..(Base - 1)
        /\ n = Base * Shift(n) + (n % Base)
    BY Digit DEF Bytes
  <2> QED
    BY <2>1, <2>2
<1>2. ASSUME m <= Shift(n) PROVE FALSE
  <2>1. Base * m <= Base * Shift(n)
    BY <1>1, <1>2, Times
  <2>2. Base * m \in Nat /\ Base * Shift(n) \in Nat
    BY <1>1
  <2> QED
    BY <1>1, <2>1, <2>2
<1> QED
  BY <1>1, <1>2

\* What recvLoop reads from a header is what sendFramed wrote into it, whatever the
\* base of a byte, for every length that four bytes can hold.
THEOREM RoundTrip ==
    ASSUME NEW n \in Nat, n < Width
    PROVE  /\ Header(n) \in Seq(Bytes) /\ Len(Header(n)) = HeaderBytes
           /\ Announced(Header(n)) = n
<1> DEFINE s1 == Shift(n)
           s2 == Shift(s1)
           s3 == Shift(s2)
<1>1. s1 \in Nat /\ s1 < Base * (Base * Base) /\ n = Base * s1 + (n % Base) /\ n % Base \in Bytes
  <2>1. Base * (Base * Base) \in Nat
    BY FramingAssumption
  <2> QED
    BY <2>1, Digit, Shorter DEF Width
<1>2. s2 \in Nat /\ s2 < Base * Base /\ s1 = Base * s2 + (s1 % Base) /\ s1 % Base \in Bytes
  <2>1. Base * Base \in Nat
    BY FramingAssumption
  <2> QED
    BY <1>1, <2>1, Digit, Shorter
<1>3. s3 \in Nat /\ s3 < Base /\ s2 = Base * s3 + (s2 % Base) /\ s2 % Base \in Bytes
  BY <1>2, Digit, Shorter, FramingAssumption
<1>4. s3 % Base = s3 /\ s3 % Base \in Bytes
  <2> HIDE DEF s3
  <2>1. Base \in Nat /\ Base > 1
    BY FramingAssumption
  <2> QED
    BY <1>3, <2>1 DEF Bytes
<1>5. Header(n) = <<s3 % Base, s2 % Base, s1 % Base, n % Base>>
  BY DEF Header
<1>6. /\ Header(n) \in Seq(Bytes) /\ Len(Header(n)) = HeaderBytes
      /\ Header(n)[1] = s3 /\ Header(n)[2] = s2 % Base /\ Header(n)[3] = s1 % Base /\ Header(n)[4] = n % Base
  <2> HIDE DEF s1, s2, s3
  <2> QED
    BY <1>1, <1>2, <1>3, <1>4, <1>5 DEF HeaderBytes
<1>7. Announced(Header(n)) = n
  <2> HIDE DEF s1, s2, s3
  <2>1. Announced(Header(n)) = ((s3 * Base + (s2 % Base)) * Base + (s1 % Base)) * Base + (n % Base)
    BY <1>6 DEF Announced
  <2> QED
    BY <2>1, <1>1, <1>2, <1>3, FramingAssumption
<1> QED
  BY <1>6, <1>7

LEMMA Encoded ==
    ASSUME NEW p \in Packets
    PROVE  /\ Encode(p) \in Seq(Bytes) /\ Len(Encode(p)) = HeaderBytes + Len(p)
           /\ \A x \in 1..HeaderBytes : Encode(p)[x] = Header(Len(p))[x]
           /\ \A x \in 1..Len(p) : Encode(p)[HeaderBytes + x] = p[x]
           /\ p \in Seq(Bytes) /\ Len(p) \in Nat
           /\ Announced(Header(Len(p))) = Len(p)
<1>1. p \in Seq(Bytes) /\ Len(p) \in Nat /\ Len(p) < Width
  BY FramingAssumption
<1>2. Header(Len(p)) \in Seq(Bytes) /\ Len(Header(Len(p))) = HeaderBytes /\ Announced(Header(Len(p))) = Len(p)
  BY <1>1, RoundTrip
<1> DEFINE h == Header(Len(p))
<1>3. h \in Seq(Bytes) /\ Len(h) = 4
  BY <1>2 DEF HeaderBytes
<1>4. /\ h \o p \in Seq(Bytes) /\ Len(h \o p) = 4 + Len(p)
      /\ \A x \in 1..4 : (h \o p)[x] = h[x]
      /\ \A x \in 1..Len(p) : (h \o p)[4 + x] = p[x]
  <2> HIDE DEF h
  <2>1. /\ h \o p \in Seq(Bytes) /\ Len(h \o p) = Len(h) + Len(p)
        /\ \A x \in 1..(Len(h) + Len(p)) : (h \o p)[x] = IF x <= Len(h) THEN h[x] ELSE p[x - Len(h)]
    BY <1>1, <1>3, ConcatProperties, Zenon
  <2>2. ASSUME NEW x \in 1..4 PROVE (h \o p)[x] = h[x]
    BY <1>1, <1>3, <2>1
  <2>3. ASSUME NEW x \in 1..Len(p) PROVE (h \o p)[4 + x] = p[x]
    <3>1. 4 + x \in 1..(Len(h) + Len(p)) /\ ~(4 + x <= Len(h)) /\ (4 + x) - Len(h) = x
      BY <1>1, <1>3
    <3> QED
      BY <2>1, <3>1
  <2> QED
    BY <1>3, <2>1, <2>2, <2>3
<1>5. Encode(p) = h \o p
  BY DEF Encode
<1> QED
  BY <1>1, <1>2, <1>4, <1>5 DEF HeaderBytes

-----------------------------------------------------------------------------
StreamTypeOK ==
    /\ rest \in Seq(Bytes) /\ onWire \in Seq(Bytes) /\ got \in Seq(Bytes)
    /\ reader \in {"head", "body", "gone"} /\ ended \in BOOLEAN
    /\ queue \in Seq(Packets)

\* What recvLoop has read: no more than the frame that it is in.
WithinFrame ==
    /\ reader = "head" => Len(got) <= HeaderBytes
    /\ reader = "body" => /\ HeaderBytes <= Len(got) /\ Len(got) <= HeaderBytes + Announced(got)
                          /\ Announced(got) <= MaxFrame
    /\ reader = "gone" => ended /\ queue = <<>>

\* The bytes that the reader has, or will have if nothing fails, one by one.
Size == Len(got) + Len(onWire) + (IF ended THEN 0 ELSE Len(rest))
At(x) == IF x <= Len(got) THEN got[x]
         ELSE IF x <= Len(got) + Len(onWire) THEN onWire[x - Len(got)]
         ELSE rest[x - (Len(got) + Len(onWire))]

\* They are the frames of the queue, where "start" says where each begins (and, as
\* its last element, where the last one ends); of a stream that has ended, the
\* first part of them.
Parsed(start) ==
    LET end == Len(queue) + 1 IN
    /\ start \in [1..end -> Int] /\ start[1] = 0
    /\ IF ended THEN Size <= start[end] ELSE Size = start[end]
    /\ \A j, k \in 1..end : j <= k => start[j] <= start[k]
    /\ \A k \in 1..Len(queue) :
          /\ start[k + 1] = start[k] + (HeaderBytes + Len(queue[k]))
          /\ \A x \in 1..(HeaderBytes + Len(queue[k])) :
                start[k] + x <= Size => At(start[k] + x) = Encode(queue[k])[x]

InFrames == reader # "gone" => \E start : Parsed(start)

FInv == StreamTypeOK /\ WithinFrame /\ InFrames

\* The frame that is being read is the first of the queue's.
LEMMA Front ==
    ASSUME FInv, reader # "gone", HeaderBytes <= Len(got)
    PROVE  /\ queue # <<>>
           /\ Announced(got) = Len(queue[1])
           /\ \A x \in 1..(HeaderBytes + Len(queue[1])) : x <= Len(got) => got[x] = Encode(queue[1])[x]
<1>1. PICK start : Parsed(start)
  BY DEF FInv, InFrames
<1>2. Len(queue) \in Nat /\ Len(got) \in Nat /\ Len(onWire) \in Nat /\ Len(rest) \in Nat
  BY DEF FInv, StreamTypeOK
<1>3. Size \in Nat /\ Len(got) <= Size
  <2>1. CASE ended
    BY <1>2, <2>1 DEF Size
  <2>2. CASE ~ended
    BY <1>2, <2>2 DEF Size
  <2> QED
    BY <2>1, <2>2
<1>4. Len(queue) # 0
  <2>1. SUFFICES ASSUME Len(queue) = 0 PROVE FALSE
    OBVIOUS
  <2>2. Size <= 0
    BY <1>1, <1>2, <2>1 DEF Parsed
  <2> QED
    BY <1>2, <1>3, <2>2 DEF HeaderBytes
<1>5. 1 \in 1..Len(queue) /\ start[1] = 0 /\ queue[1] \in Packets
  BY <1>1, <1>2, <1>4 DEF Parsed, FInv, StreamTypeOK
<1>6. ASSUME NEW x \in 1..(HeaderBytes + Len(queue[1])), x <= Len(got)
      PROVE  got[x] = Encode(queue[1])[x]
  <2>1. x \in Nat
    OBVIOUS
  <2>2. start[1] + x <= Size /\ start[1] + x = x
    BY <1>3, <1>5, <1>6, <2>1
  <2>3. At(x) = Encode(queue[1])[x]
    BY <1>1, <1>5, <2>2 DEF Parsed
  <2> QED
    BY <1>6, <2>3 DEF At
<1>7. Announced(got) = Len(queue[1])
  <2>1. Len(queue[1]) \in Nat /\ \A x \in 1..4 : Encode(queue[1])[x] = Header(Len(queue[1]))[x]
    BY <1>5, Encoded DEF HeaderBytes
  <2>2. \A x \in 1..4 : got[x] = Header(Len(queue[1]))[x]
    BY <1>2, <1>6, <2>1, SMTT(30) DEF HeaderBytes
  <2>3. Announced(got) = Announced(Header(Len(queue[1])))
    BY <2>2 DEF Announced
  <2> QED
    BY <1>5, <2>3, Encoded
<1> QED
  BY <1>4, <1>6, <1>7

\* A frame that is handed over is the whole of the queue's first, and within the limit.
LEMMA Delivers ==
    ASSUME FInv, DeliverPacket
    PROVE  /\ queue # <<>> /\ queue[1] \in Packets
           /\ Len(got) = HeaderBytes + Len(queue[1]) /\ Len(queue[1]) \in Nat /\ Len(queue[1]) <= MaxFrame
           /\ Body(got) = queue[1]
<1>1. /\ reader = "body" /\ HeaderBytes <= Len(got) /\ Len(got) <= HeaderBytes + Announced(got)
      /\ Announced(got) <= MaxFrame /\ ~(Len(got) < HeaderBytes + Announced(got))
  BY DEF FInv, WithinFrame, DeliverPacket, Reading, Wanted
<1>2. /\ queue # <<>> /\ Announced(got) = Len(queue[1])
      /\ \A x \in 1..(HeaderBytes + Len(queue[1])) : x <= Len(got) => got[x] = Encode(queue[1])[x]
  BY <1>1, Front
<1>3. queue[1] \in Packets /\ Len(got) \in Nat /\ got \in Seq(Bytes)
  BY <1>2 DEF FInv, StreamTypeOK
<1> DEFINE p == queue[1]
<1>4. /\ p \in Seq(Bytes) /\ Len(p) \in Nat
      /\ \A x \in 1..Len(p) : Encode(p)[4 + x] = p[x]
  BY <1>3, Encoded DEF HeaderBytes
<1>5. Len(got) = 4 + Len(p)
  BY <1>1, <1>2, <1>3, <1>4 DEF HeaderBytes
<1>6. Body(got) = p
  <2> HIDE DEF p
  <2>1. Body(got) = SubSeq(got, 5, Len(got))
    BY DEF Body, HeaderBytes
  <2>2. \A x \in 5..Len(got) : got[x] \in Bytes
    BY <1>3, <1>5, <1>4
  <2>3. /\ Body(got) \in Seq(Bytes) /\ Len(Body(got)) = Len(p)
        /\ \A x \in 1..Len(p) : Body(got)[x] = got[5 + x - 1]
    <3>1. /\ SubSeq(got, 5, Len(got)) \in Seq(Bytes)
          /\ Len(SubSeq(got, 5, Len(got))) = IF 5 <= Len(got) THEN Len(got) - 5 + 1 ELSE 0
          /\ \A x \in 1..(Len(got) - 5 + 1) : SubSeq(got, 5, Len(got))[x] = got[5 + x - 1]
      BY <1>3, <2>2, SubSeqProperties, 5 \in Int, Len(got) \in Int
    <3>2. Len(got) - 5 + 1 = Len(p)
      BY <1>4, <1>5
    <3> QED
      BY <1>4, <1>5, <2>1, <3>1, <3>2
  <2>4. ASSUME NEW x \in 1..Len(p) PROVE Body(got)[x] = p[x]
    <3>1. 5 + x - 1 = 4 + x /\ 4 + x \in 1..(4 + Len(p)) /\ 4 + x <= Len(got)
      BY <1>4, <1>5
    <3>2. got[4 + x] = Encode(p)[4 + x]
      BY <1>2, <3>1 DEF p, HeaderBytes
    <3> QED
      BY <1>4, <2>3, <3>1, <3>2
  <2> QED
    BY <1>4, <2>3, <2>4, SeqEqual
<1> QED
  BY <1>1, <1>2, <1>3, <1>4, <1>5, <1>6 DEF HeaderBytes

-----------------------------------------------------------------------------
LEMMA StreamTypeStep == FInv /\ [StreamNext]_stream => StreamTypeOK'
<1> SUFFICES ASSUME FInv, StreamTypeOK, [StreamNext]_stream PROVE StreamTypeOK'
  BY DEF FInv
<1> USE DEF StreamTypeOK
<1>1. ASSUME NEW p \in Packets, Send(p) PROVE StreamTypeOK'
  <2>1. Encode(p) \in Seq(Bytes) /\ Append(queue, p) \in Seq(Packets)
    BY Encoded, AppendProperties
  <2> QED
    BY <1>1, <2>1 DEF Send
<1>2. CASE WriteByte
  <2>1. Head(rest) \in Bytes /\ Tail(rest) \in Seq(Bytes)
    BY <1>2, HeadTailProperties DEF WriteByte
  <2>2. Append(onWire, Head(rest)) \in Seq(Bytes)
    BY <2>1, AppendProperties
  <2> QED
    BY <1>2, <2>1, <2>2 DEF WriteByte
<1>3. CASE WriteBreaks
  BY <1>3, EmptySeq DEF WriteBreaks
<1>4. CASE ReadByte
  <2>1. Head(onWire) \in Bytes /\ Tail(onWire) \in Seq(Bytes)
    BY <1>4, HeadTailProperties DEF ReadByte
  <2>2. Append(got, Head(onWire)) \in Seq(Bytes)
    BY <2>1, AppendProperties
  <2> QED
    BY <1>4, <2>1, <2>2 DEF ReadByte
<1>5. CASE ReadBreaks
  BY <1>5, EmptySeq DEF ReadBreaks, Leave
<1>6. CASE CheckHeader
  BY <1>6, EmptySeq DEF CheckHeader, Leave
<1>7. CASE DeliverPacket
  <2>1. Tail(queue) \in Seq(Packets)
    BY <1>7, Delivers, HeadTailProperties
  <2> QED
    BY <1>7, <2>1, EmptySeq DEF DeliverPacket
<1>8. CASE End
  BY <1>8 DEF End
<1>9. CASE UNCHANGED stream
  BY <1>9 DEF stream
<1> QED
  BY <1>1, <1>2, <1>3, <1>4, <1>5, <1>6, <1>7, <1>8, <1>9 DEF StreamNext

LEMMA Lengths ==
    ASSUME StreamTypeOK
    PROVE  /\ Len(got) \in Nat /\ Len(onWire) \in Nat /\ Len(rest) \in Nat /\ Len(queue) \in Nat
           /\ Size \in Nat /\ Len(got) + Len(onWire) <= Size
<1>1. Len(got) \in Nat /\ Len(onWire) \in Nat /\ Len(rest) \in Nat /\ Len(queue) \in Nat
  BY DEF StreamTypeOK
<1>2. CASE ended
  BY <1>1, <1>2 DEF Size
<1>3. CASE ~ended
  BY <1>1, <1>3 DEF Size
<1> QED
  BY <1>1, <1>2, <1>3

\* The same frames are in the stream if the queue is the same and the stream is
\* either the same or, when it has ended, its first part.
LEMMA SameFrames ==
    ASSUME StreamTypeOK, StreamTypeOK', InFrames, reader # "gone", queue' = queue,
           Size' <= Size, ended \/ Size' = Size \/ ended', ended => ended',
           \A y \in 1..Size' : At(y)' = At(y)
    PROVE  InFrames'
<1>1. PICK start : Parsed(start)
  BY DEF InFrames
<1> DEFINE end == Len(queue) + 1
<1>2. end \in Nat /\ Len(queue)' = Len(queue) /\ Size \in Nat /\ Size' \in Nat /\ 1 \in 1..end
  <2>1. Len(got)' \in Nat /\ Len(onWire)' \in Nat /\ Len(rest)' \in Nat /\ ended' \in BOOLEAN
    BY DEF StreamTypeOK
  <2>2. Size' \in Nat
    <3>1. CASE ended'
      BY <2>1, <3>1 DEF Size
    <3>2. CASE ~ended'
      BY <2>1, <3>2 DEF Size
    <3> QED
      BY <3>1, <3>2
  <2> QED
    BY <2>2, Lengths
<1>3. start[end] \in Int /\ IF ended' THEN Size' <= start[end] ELSE Size' = start[end]
  <2>1. start[end] \in Int
    BY <1>1, <1>2 DEF Parsed
  <2>2. IF ended THEN Size <= start[end] ELSE Size = start[end]
    BY <1>1 DEF Parsed
  <2> QED
    BY <1>2, <2>1, <2>2
<1>4. ASSUME NEW k \in 1..Len(queue), NEW x \in 1..(HeaderBytes + Len(queue[k])), start[k] + x <= Size'
      PROVE  At(start[k] + x)' = Encode(queue[k])[x]
  <2>1. k \in 1..end /\ start[k] \in Int /\ start[1] = 0 /\ start[1] <= start[k]
    BY <1>1, <1>2 DEF Parsed
  <2>2. queue[k] \in Packets /\ Len(queue[k]) \in Nat
    BY Encoded DEF StreamTypeOK
  <2>3. x \in Nat /\ x >= 1
    BY <2>2 DEF HeaderBytes
  <2>4. start[k] + x \in 1..Size' /\ start[k] + x <= Size
    BY <1>2, <1>4, <2>1, <2>3
  <2>5. At(start[k] + x) = Encode(queue[k])[x]
    BY <1>1, <2>4 DEF Parsed
  <2>6. At(start[k] + x)' = At(start[k] + x)
    BY <2>4
  <2> QED
    BY <2>5, <2>6
<1>5. Parsed(start)'
  BY <1>1, <1>2, <1>3, <1>4 DEF Parsed
<1> QED
  BY <1>5 DEF InFrames

LEMMA WithinFrameStep == FInv /\ [StreamNext]_stream => WithinFrame'
<1> SUFFICES ASSUME FInv, StreamTypeOK, WithinFrame, [StreamNext]_stream PROVE WithinFrame'
  BY DEF FInv
<1> USE DEF WithinFrame
<1>1. ASSUME NEW p \in Packets, Send(p) PROVE WithinFrame'
  BY <1>1 DEF Send
<1>2. CASE WriteByte
  BY <1>2 DEF WriteByte
<1>3. CASE WriteBreaks
  BY <1>3 DEF WriteBreaks
<1>4. CASE ReadByte
  <2>1. /\ got \in Seq(Bytes) /\ Len(got) \in Nat /\ Head(onWire) \in Bytes
        /\ got' = Append(got, Head(onWire)) /\ reader' = reader
        /\ reader \in {"head", "body"}
    BY <1>4, HeadTailProperties DEF ReadByte, Reading, StreamTypeOK
  <2>2. Len(got)' = Len(got) + 1 /\ \A x \in 1..Len(got) : got'[x] = got[x]
    BY <2>1, AppendProperties
  <2>3. CASE reader = "head"
    BY <1>4, <2>1, <2>2, <2>3 DEF ReadByte, Reading, Wanted, HeaderBytes
  <2>4. CASE reader = "body"
    <3>1. Len(got) < HeaderBytes + Announced(got) /\ HeaderBytes <= Len(got)
      BY <1>4, <2>4 DEF ReadByte, Reading, Wanted
    <3>2. Announced(got)' = Announced(got)
      BY <2>1, <2>2, <3>1 DEF Announced, HeaderBytes
    <3>3. Announced(got) \in Nat
      <4>1. /\ queue # <<>> /\ Announced(got) = Len(queue[1])
        BY <2>4, <3>1, Front
      <4> QED
        BY <4>1, Encoded DEF StreamTypeOK
    <3> QED
      BY <2>1, <2>2, <2>4, <3>1, <3>2, <3>3 DEF HeaderBytes
  <2> QED
    BY <2>1, <2>3, <2>4
<1>5. CASE ReadBreaks
  BY <1>5 DEF ReadBreaks, Leave
<1>6. CASE CheckHeader
  <2>1. reader = "head" /\ Len(got) = HeaderBytes /\ got' = got
    <3>1. reader = "head" /\ ~Reading /\ got' = got
      BY <1>6 DEF CheckHeader
    <3>2. Len(got) \in Nat /\ HeaderBytes \in Nat
      BY Lengths DEF HeaderBytes
    <3>3. Len(got) <= HeaderBytes /\ ~(Len(got) < HeaderBytes)
      BY <3>1 DEF Reading, Wanted
    <3> QED
      BY <3>1, <3>2, <3>3
  <2>2. CASE Announced(got) <= MaxFrame
    <3>1. queue # <<>> /\ Announced(got) = Len(queue[1])
      BY <2>1, Front DEF HeaderBytes
    <3>2. Announced(got) \in Nat
      BY <3>1, Encoded DEF StreamTypeOK
    <3> QED
      BY <1>6, <2>1, <2>2, <3>2 DEF CheckHeader, HeaderBytes
  <2>3. CASE ~(Announced(got) <= MaxFrame)
    BY <1>6, <2>3 DEF CheckHeader, Leave
  <2> QED
    BY <2>2, <2>3
<1>7. CASE DeliverPacket
  BY <1>7, EmptySeq DEF DeliverPacket, HeaderBytes
<1>8. CASE End
  BY <1>8 DEF End
<1>9. CASE UNCHANGED stream
  BY <1>9 DEF stream, Announced
<1> QED
  BY <1>1, <1>2, <1>3, <1>4, <1>5, <1>6, <1>7, <1>8, <1>9 DEF StreamNext

\* A new frame is added at the end of the stream ...
LEMMA FrameAdded ==
    ASSUME FInv, StreamTypeOK', NEW p \in Packets, Send(p), ~ended, reader # "gone"
    PROVE  InFrames'
<1>1. PICK start : Parsed(start)
  BY DEF FInv, InFrames
<1> DEFINE last == Len(queue) + 1
           size == HeaderBytes + Len(p)
<1>a. PICK next : next = [k \in 1..(last + 1) |-> IF k <= last THEN start[k] ELSE start[last] + size]
  OBVIOUS
<1>2. /\ rest = <<>> /\ rest' = Encode(p) /\ queue' = Append(queue, p) /\ queue \in Seq(Packets)
      /\ UNCHANGED <<onWire, got, ended>> /\ Len(rest) = 0
  BY DEF Send, FInv, StreamTypeOK
<1>3. /\ Len(queue) \in Nat /\ Size \in Nat /\ Size = Len(got) + Len(onWire) /\ Len(got) \in Nat /\ Len(onWire) \in Nat
  BY <1>2, Lengths DEF Size, FInv
<1>4. /\ Len(queue)' = last /\ queue'[last] = p
      /\ \A k \in 1..Len(queue) : queue'[k] = queue[k]
  BY <1>2, AppendProperties
<1>5. Len(Encode(p)) = size /\ size \in Nat /\ Size' = Size + size
  <2>1. Len(Encode(p)) = size /\ size \in Nat
    BY Encoded DEF HeaderBytes
  <2>2. Size' = Len(got) + Len(onWire) + Len(Encode(p))
    BY <1>2 DEF Size
  <2> HIDE DEF size
  <2> QED
    BY <1>3, <2>1, <2>2
<1>6. /\ start \in [1..last -> Int] /\ start[1] = 0 /\ Size = start[last]
      /\ \A j, k \in 1..last : j <= k => start[j] <= start[k]
      /\ \A k \in 1..Len(queue) : start[k + 1] = start[k] + (HeaderBytes + Len(queue[k]))
  BY <1>1 DEF Parsed
<1>7. /\ next \in [1..(last + 1) -> Int] /\ next[1] = 0 /\ next[last + 1] = Size'
      /\ \A k \in 1..last : next[k] = start[k]
      /\ \A j, k \in 1..(last + 1) : j <= k => next[j] <= next[k]
  <2>1. next \in [1..(last + 1) -> Int] /\ \A k \in 1..last : next[k] = start[k]
    BY <1>a, <1>3, <1>5, <1>6
  <2>2. next[1] = 0 /\ next[last + 1] = Size'
    BY <1>a, <1>3, <1>5, <1>6
  <2>3. ASSUME NEW j \in 1..(last + 1), NEW k \in 1..(last + 1), j <= k PROVE next[j] <= next[k]
    <3>1. CASE k <= last
      BY <1>3, <1>6, <2>1, <2>3, <3>1
    <3>2. CASE k = last + 1 /\ j <= last
      <4>1. next[j] = start[j] /\ start[j] <= start[last] /\ start[j] \in Int /\ start[last] \in Int
        BY <1>3, <1>6, <2>1, <3>2
      <4> QED
        BY <1>5, <1>6, <2>2, <3>2, <4>1
    <3>3. CASE k = last + 1 /\ j = last + 1
      BY <1>3, <1>5, <2>2, <3>3
    <3> QED
      BY <1>3, <2>3, <3>1, <3>2, <3>3
  <2> QED
    BY <2>1, <2>2, <2>3
<1>8. ASSUME NEW k \in 1..last, NEW x \in 1..(HeaderBytes + Len(queue'[k])), next[k] + x <= Size'
      PROVE  At(next[k] + x)' = Encode(queue'[k])[x]
  <2>1. CASE k <= Len(queue)
    <3>1. k \in 1..Len(queue) /\ k + 1 \in 1..last /\ k \in 1..last /\ 1 \in 1..last /\ last \in 1..last
      BY <1>3, <2>1
    <3>2. queue'[k] = queue[k] /\ next[k] = start[k] /\ start[k] \in Int /\ start[k + 1] <= start[last] /\ 0 <= start[k]
          /\ start[k + 1] = start[k] + (HeaderBytes + Len(queue[k])) /\ Len(queue[k]) \in Nat
      <4>1. queue'[k] = queue[k] /\ next[k] = start[k] /\ queue[k] \in Packets
        BY <1>2, <1>4, <1>7, <3>1
      <4>2. start[k] \in Int /\ start[k + 1] <= start[last] /\ start[1] <= start[k]
        <5>1. k + 1 <= last /\ 1 <= k
          BY <1>3, <3>1
        <5> QED
          BY <1>6, <3>1, <5>1
      <4> QED
        BY <1>6, <3>1, <4>1, <4>2, Encoded
    <3>3. x \in Nat /\ x >= 1 /\ start[k] + x <= Size /\ start[k] + x \in Nat
      <4>1. PICK n : n = Len(queue[k])
        OBVIOUS
      <4>2. n \in Nat /\ x \in 1..(4 + n) /\ start[k + 1] = start[k] + (4 + n)
        BY <3>2, <4>1 DEF HeaderBytes
      <4> QED
        BY <1>3, <1>6, <3>2, <4>2, SMTT(30)
    <3>4. At(start[k] + x) = Encode(queue[k])[x]
      BY <1>1, <3>1, <3>2, <3>3 DEF Parsed
    <3>5. At(start[k] + x)' = At(start[k] + x)
      BY <1>2, <1>3, <3>3 DEF At
    <3> QED
      BY <3>2, <3>4, <3>5
  <2>2. CASE k = last
    <3>1. next[k] = Size /\ queue'[k] = p /\ x \in 1..size
      BY <1>3, <1>4, <1>6, <1>7, <2>2
    <3>2. x \in Nat /\ x >= 1
      BY <1>5, <3>1
    <3>3. ~(next[k] + x <= Len(got)) /\ ~(next[k] + x <= Len(got) + Len(onWire))
          /\ (next[k] + x) - (Len(got) + Len(onWire)) = x
      BY <1>3, <3>1, <3>2
    <3>4. At(next[k] + x)' = rest'[(next[k] + x) - (Len(got) + Len(onWire))]
      BY <1>2, <3>3 DEF At
    <3> QED
      BY <1>2, <3>1, <3>3, <3>4
  <2> QED
    BY <1>3, <2>1, <2>2
<1>9. ASSUME NEW k \in 1..last PROVE next[k + 1] = next[k] + (HeaderBytes + Len(queue'[k]))
  <2>1. CASE k <= Len(queue)
    BY <1>3, <1>4, <1>6, <1>7, <2>1
  <2>2. CASE k = last
    BY <1>3, <1>4, <1>5, <1>6, <1>7, <2>2
  <2> QED
    BY <1>3, <2>1, <2>2
<1>10. Parsed(next)'
  BY <1>2, <1>4, <1>7, <1>8, <1>9 DEF Parsed
<1> QED
  BY <1>10 DEF InFrames

\* ... and the first is taken off its front.
LEMMA FrameTaken ==
    ASSUME FInv, StreamTypeOK', DeliverPacket
    PROVE  InFrames'
<1>1. PICK start : Parsed(start)
  BY DEF FInv, InFrames, DeliverPacket
<1> DEFINE last == Len(queue)
<1>a. PICK next : next = [k \in 1..last |-> start[k + 1] - start[2]]
  OBVIOUS
<1>2. /\ queue \in Seq(Packets) /\ queue # <<>> /\ queue' = Tail(queue) /\ got' = <<>> /\ Len(got)' = 0
      /\ UNCHANGED <<onWire, rest, ended>> /\ Len(got) = HeaderBytes + Len(queue[1])
  BY Delivers DEF DeliverPacket, FInv, StreamTypeOK
<1>3. /\ last \in Nat /\ last >= 1 /\ Len(queue)' = last - 1
      /\ \A k \in 1..(last - 1) : queue'[k] = queue[k + 1] /\ queue[k + 1] \in Packets /\ k + 1 \in 1..last
  BY <1>2, HeadTailProperties, EmptySeq
<1>4. /\ Len(got) \in Nat /\ Len(onWire) \in Nat /\ Len(rest) \in Nat /\ Size \in Nat
  BY Lengths DEF FInv
<1>5. Size' = Size - Len(got)
  <2>1. CASE ended
    BY <1>2, <1>4, <2>1 DEF Size
  <2>2. CASE ~ended
    BY <1>2, <1>4, <2>2 DEF Size
  <2> QED
    BY <2>1, <2>2
<1>6. /\ start \in [1..(last + 1) -> Int] /\ start[1] = 0
      /\ IF ended THEN Size <= start[last + 1] ELSE Size = start[last + 1]
      /\ \A j, k \in 1..(last + 1) : j <= k => start[j] <= start[k]
      /\ \A k \in 1..last : start[k + 1] = start[k] + (HeaderBytes + Len(queue[k]))
  BY <1>1 DEF Parsed
<1>7. start[2] = Len(got)
  BY <1>2, <1>3, <1>4, <1>6
<1>8. /\ next \in [1..last -> Int] /\ next[1] = 0
      /\ \A k \in 1..last : next[k] = start[k + 1] - Len(got)
      /\ \A j, k \in 1..last : j <= k => next[j] <= next[k]
  <2>1. \A k \in 1..last : start[k + 1] \in Int /\ k + 1 \in 1..(last + 1)
    BY <1>3, <1>6, SMTT(30)
  <2>2. next \in [1..last -> Int] /\ \A k \in 1..last : next[k] = start[k + 1] - Len(got)
    BY <1>a, <1>4, <1>7, <2>1
  <2>3. ASSUME NEW j \in 1..last, NEW k \in 1..last, j <= k PROVE next[j] <= next[k]
    <3>1. j + 1 \in 1..(last + 1) /\ k + 1 \in 1..(last + 1) /\ j + 1 <= k + 1
      BY <1>3, <2>3
    <3>2. start[j + 1] <= start[k + 1]
      BY <1>6, <3>1
    <3> QED
      BY <1>4, <2>1, <2>2, <3>2
  <2>4. next[1] = 0
    BY <1>3, <1>4, <1>7, <2>2, SMTT(30)
  <2> QED
    BY <2>2, <2>3, <2>4
<1>9. IF ended' THEN Size' <= next[last] ELSE Size' = next[last]
  <2>1. next[last] = start[last + 1] - Len(got) /\ start[last + 1] \in Int
    BY <1>3, <1>6, <1>8
  <2>2. CASE ended
    BY <1>2, <1>4, <1>5, <1>6, <2>1, <2>2
  <2>3. CASE ~ended
    BY <1>2, <1>4, <1>5, <1>6, <2>1, <2>3
  <2> QED
    BY <2>2, <2>3
<1>10. ASSUME NEW k \in 1..(last - 1)
       PROVE  next[k + 1] = next[k] + (HeaderBytes + Len(queue'[k]))
  <2>1. k + 1 \in 1..last /\ k \in 1..last /\ queue'[k] = queue[k + 1] /\ queue[k + 1] \in Packets
    BY <1>3
  <2>2. /\ next[k + 1] = start[k + 1 + 1] - Len(got) /\ next[k] = start[k + 1] - Len(got)
        /\ start[k + 1 + 1] = start[k + 1] + (HeaderBytes + Len(queue[k + 1]))
    BY <1>6, <1>8, <2>1
  <2>3. Len(queue[k + 1]) \in Nat /\ start[k + 1] \in Int
    <3>1. Len(queue[k + 1]) \in Nat
      BY <2>1, Encoded
    <3>2. start[k + 1] \in Int
      <4>1. k + 1 \in 1..(last + 1)
        BY <1>3, <2>1
      <4> QED
        BY <1>6, <4>1
    <3> QED
      BY <3>1, <3>2
  <2> QED
    BY <1>4, <2>1, <2>2, <2>3 DEF HeaderBytes
<1>11. ASSUME NEW k \in 1..(last - 1), NEW x \in 1..(HeaderBytes + Len(queue'[k])), next[k] + x <= Size'
       PROVE  At(next[k] + x)' = Encode(queue'[k])[x]
  <2>1. k + 1 \in 1..last /\ k \in 1..last /\ 1 \in 1..last /\ k + 1 \in 1..(last + 1) /\ queue'[k] = queue[k + 1] /\ queue[k + 1] \in Packets
    BY <1>3
  <2>2. Len(queue[k + 1]) \in Nat /\ start[k + 1] \in Int
    <3>1. Len(queue[k + 1]) \in Nat
      BY <2>1, Encoded
    <3>2. start[k + 1] \in Int
      BY <1>6, <2>1
    <3> QED
      BY <3>1, <3>2
  <2>3. next[k] = start[k + 1] - Len(got) /\ next[1] <= next[k] /\ 0 <= next[k] /\ next[k] \in Int
    <3>1. next[k] = start[k + 1] - Len(got) /\ next[k] \in Int /\ next[1] = 0
      BY <1>8, <2>1
    <3>2. 1 <= k
      BY <1>3, <2>1
    <3>3. next[1] <= next[k]
      BY <1>8, <2>1, <3>2
    <3> QED
      BY <3>1, <3>3
  <2>4. x \in Nat /\ x >= 1 /\ start[k + 1] + x = Len(got) + (next[k] + x) /\ start[k + 1] + x <= Size
    <3>1. PICK n : n = Len(queue[k + 1])
      OBVIOUS
    <3>2. n \in Nat /\ x \in 1..(4 + n)
      BY <2>1, <2>2, <3>1 DEF HeaderBytes
    <3>3. next[k] + x <= Size - Len(got)
      BY <1>5, <1>11
    <3> QED
      BY <1>4, <2>2, <2>3, <3>2, <3>3, SMTT(30)
  <2>5. At(start[k + 1] + x) = Encode(queue[k + 1])[x]
    BY <1>1, <2>1, <2>4 DEF Parsed
  <2>6. At(next[k] + x)' = At(Len(got) + (next[k] + x))
    <3>1. PICK y : y = next[k] + x
      OBVIOUS
    <3>2. y \in Nat /\ y >= 1
      BY <2>3, <2>4, <3>1
    <3>3. At(y)' = IF y <= Len(onWire) THEN onWire[y] ELSE rest[y - Len(onWire)]
      <4>1. ~(y <= Len(got)') /\ y - Len(got)' = y /\ Len(got)' + Len(onWire) = Len(onWire)
        BY <1>2, <1>4, <3>2
      <4> QED
        BY <1>2, <4>1 DEF At
    <3>4. /\ ~(Len(got) + y <= Len(got)) /\ (Len(got) + y) - Len(got) = y
          /\ Len(got) + y <= Len(got) + Len(onWire) <=> y <= Len(onWire)
          /\ (Len(got) + y) - (Len(got) + Len(onWire)) = y - Len(onWire)
      BY <1>4, <3>2
    <3>5. At(Len(got) + y) = IF y <= Len(onWire) THEN onWire[y] ELSE rest[y - Len(onWire)]
      BY <3>4 DEF At
    <3> QED
      BY <3>1, <3>3, <3>5
  <2> QED
    BY <2>1, <2>4, <2>5, <2>6
<1>12. Parsed(next)'
  <2>1. Len(queue)' + 1 = last
    BY <1>3
  <2> QED
    BY <1>3, <1>8, <1>9, <1>10, <1>11, <2>1 DEF Parsed
<1> QED
  BY <1>12 DEF InFrames

LEMMA InFramesStep == FInv /\ StreamTypeOK' /\ [StreamNext]_stream => InFrames'
<1> SUFFICES ASSUME FInv, StreamTypeOK', [StreamNext]_stream PROVE InFrames'
  OBVIOUS
<1>g. CASE reader = "gone"
  <2>1. reader' = "gone"
    BY <1>g DEF StreamNext, stream, Send, WriteByte, WriteBreaks, ReadByte, Reading, ReadBreaks, CheckHeader, DeliverPacket, End
  <2> QED
    BY <2>1 DEF InFrames
<1> SUFFICES ASSUME StreamTypeOK, InFrames, reader # "gone", reader' # "gone"
             PROVE  InFrames'
  BY <1>g DEF FInv, InFrames
<1>0. /\ Len(got) \in Nat /\ Len(onWire) \in Nat /\ Len(rest) \in Nat
      /\ Size = IF ended THEN Len(got) + Len(onWire) ELSE Len(got) + Len(onWire) + Len(rest)
      /\ Size' = IF ended' THEN Len(got') + Len(onWire') ELSE Len(got') + Len(onWire') + Len(rest')
  <2>1. Len(got) \in Nat /\ Len(onWire) \in Nat /\ Len(got') \in Nat /\ Len(onWire') \in Nat
    BY DEF StreamTypeOK
  <2>2. Len(rest) \in Nat /\ Len(rest') \in Nat
    BY DEF StreamTypeOK
  <2>3. Size = IF ended THEN Len(got) + Len(onWire) ELSE Len(got) + Len(onWire) + Len(rest)
    <3>1. CASE ended
      BY <2>1, <2>2, <3>1 DEF Size
    <3>2. CASE ~ended
      BY <2>1, <2>2, <3>2 DEF Size
    <3> QED
      BY <3>1, <3>2
  <2>4. Size' = IF ended' THEN Len(got') + Len(onWire') ELSE Len(got') + Len(onWire') + Len(rest')
    <3>1. CASE ended'
      BY <2>1, <2>2, <3>1 DEF Size
    <3>2. CASE ~ended'
      BY <2>1, <2>2, <3>2 DEF Size
    <3> QED
      BY <3>1, <3>2
  <2> QED
    BY <2>1, <2>2, <2>3, <2>4
<1>1. ASSUME NEW p \in Packets, Send(p) PROVE InFrames'
  <2>1. CASE ended
    <3>1. UNCHANGED <<onWire, got, ended, queue>>
      BY <1>1, <2>1 DEF Send
    <3>2. Size' = Size /\ Size = Len(got) + Len(onWire)
      BY <1>0, <2>1, <3>1
    <3>3. \A y \in 1..Size' : At(y)' = At(y)
      BY <1>0, <3>1, <3>2 DEF At
    <3> QED
      BY <1>0, <2>1, <3>1, <3>2, <3>3, SameFrames
  <2>2. CASE ~ended
    BY <1>1, <2>2, FrameAdded
  <2> QED
    BY <2>1, <2>2
<1>2. CASE WriteByte
  <2>1. /\ rest # <<>> /\ ~ended /\ onWire' = Append(onWire, Head(rest)) /\ rest' = Tail(rest)
        /\ UNCHANGED <<got, ended, queue>>
    BY <1>2 DEF WriteByte
  <2>2. Len(rest') = Len(rest) - 1 /\ (\A i \in 1..(Len(rest) - 1) : rest'[i] = rest[i + 1]) /\ Head(rest) = rest[1]
        /\ Head(rest) \in Bytes
    BY <2>1, HeadTailProperties DEF StreamTypeOK
  <2>3. /\ Len(onWire') = Len(onWire) + 1 /\ onWire'[Len(onWire) + 1] = rest[1]
        /\ \A i \in 1..Len(onWire) : onWire'[i] = onWire[i]
    BY <2>1, <2>2, AppendProperties DEF StreamTypeOK
  <2>4. Size' = Size /\ Size = Len(got) + Len(onWire) + Len(rest)
    BY <1>0, <2>1, <2>2, <2>3
  <2>5. ASSUME NEW y \in 1..Size' PROVE At(y)' = At(y)
    <3> DEFINE n == Len(got) + Len(onWire)
    <3>1. y \in Nat /\ 1 <= y /\ y <= n + Len(rest) /\ n \in Nat /\ Len(got') + Len(onWire') = n + 1
      BY <1>0, <2>1, <2>3, <2>4
    <3>2. At(y)' = IF y <= Len(got) THEN got[y] ELSE IF y <= n + 1 THEN onWire'[y - Len(got)] ELSE rest'[y - (n + 1)]
      BY <2>1, <3>1 DEF At
    <3>3. At(y) = IF y <= Len(got) THEN got[y] ELSE IF y <= n THEN onWire[y - Len(got)] ELSE rest[y - n]
      BY DEF At
    <3>4. CASE y <= Len(got)
      BY <3>2, <3>3, <3>4
    <3>5. CASE ~(y <= Len(got)) /\ y <= n
      <4>1. y - Len(got) \in 1..Len(onWire) /\ y <= n + 1
        BY <1>0, <3>1, <3>5
      <4> QED
        BY <2>3, <3>2, <3>3, <3>5, <4>1
    <3>6. CASE ~(y <= n) /\ y <= n + 1
      <4>1. y - Len(got) = Len(onWire) + 1 /\ y - n = 1 /\ ~(y <= Len(got))
        BY <1>0, <3>1, <3>6
      <4> QED
        BY <2>3, <3>2, <3>3, <3>6, <4>1
    <3>7. CASE ~(y <= n + 1)
      <4>1. y - (n + 1) \in 1..(Len(rest) - 1) /\ (y - (n + 1)) + 1 = y - n /\ ~(y <= n) /\ ~(y <= Len(got))
        BY <1>0, <3>1, <3>7
      <4> QED
        BY <2>2, <3>2, <3>3, <3>7, <4>1
    <3> QED
      BY <3>4, <3>5, <3>6, <3>7
  <2> QED
    BY <1>0, <2>1, <2>4, <2>5, SameFrames
<1>3. CASE WriteBreaks
  <2>1. ended /\ UNCHANGED <<onWire, got, ended, queue>>
    BY <1>3 DEF WriteBreaks
  <2>2. Size' = Size /\ Size = Len(got) + Len(onWire)
    BY <1>0, <2>1
  <2>3. \A y \in 1..Size' : At(y)' = At(y)
    BY <1>0, <2>1, <2>2 DEF At
  <2> QED
    BY <1>0, <2>1, <2>2, <2>3, SameFrames
<1>4. CASE ReadByte
  <2>1. /\ onWire # <<>> /\ got' = Append(got, Head(onWire)) /\ onWire' = Tail(onWire)
        /\ UNCHANGED <<rest, ended, queue>>
    BY <1>4 DEF ReadByte
  <2>2. Len(onWire') = Len(onWire) - 1 /\ (\A i \in 1..(Len(onWire) - 1) : onWire'[i] = onWire[i + 1])
        /\ Head(onWire) = onWire[1] /\ Head(onWire) \in Bytes
    BY <2>1, HeadTailProperties DEF StreamTypeOK
  <2>3. /\ Len(got') = Len(got) + 1 /\ got'[Len(got) + 1] = onWire[1]
        /\ \A i \in 1..Len(got) : got'[i] = got[i]
    BY <2>1, <2>2, AppendProperties DEF StreamTypeOK
  <2>4. Size' = Size /\ Len(got') + Len(onWire') = Len(got) + Len(onWire)
    BY <1>0, <2>1, <2>2, <2>3
  <2>5. ASSUME NEW y \in 1..Size' PROVE At(y)' = At(y)
    <3> DEFINE n == Len(got) + Len(onWire)
    <3>1. y \in Nat /\ 1 <= y /\ n \in Nat
      BY <1>0, <2>4
    <3>2. At(y)' = IF y <= Len(got) + 1 THEN got'[y] ELSE IF y <= n THEN onWire'[y - (Len(got) + 1)] ELSE rest[y - n]
      BY <2>1, <2>3, <2>4 DEF At
    <3>3. At(y) = IF y <= Len(got) THEN got[y] ELSE IF y <= n THEN onWire[y - Len(got)] ELSE rest[y - n]
      BY DEF At
    <3>4. Len(onWire) >= 1
      BY <1>0, <2>1, EmptySeq DEF StreamTypeOK
    <3>5. CASE y <= Len(got)
      BY <1>0, <2>3, <3>1, <3>2, <3>3, <3>5
    <3>6. CASE y = Len(got) + 1
      <4>1. ~(y <= Len(got)) /\ y <= n /\ y - Len(got) = 1
        BY <1>0, <3>1, <3>4, <3>6
      <4> QED
        BY <2>3, <3>1, <3>2, <3>3, <3>6, <4>1
    <3>7. CASE ~(y <= Len(got) + 1) /\ y <= n
      <4>1. ~(y <= Len(got)) /\ y - (Len(got) + 1) \in 1..(Len(onWire) - 1) /\ (y - (Len(got) + 1)) + 1 = y - Len(got)
        BY <1>0, <3>1, <3>7
      <4> QED
        BY <2>2, <3>2, <3>3, <3>7, <4>1
    <3>8. CASE ~(y <= n)
      BY <1>0, <3>1, <3>2, <3>3, <3>4, <3>8
    <3> QED
      BY <1>0, <3>1, <3>5, <3>6, <3>7, <3>8
  <2> QED
    BY <1>0, <2>1, <2>4, <2>5, SameFrames
<1>5. CASE ReadBreaks
  BY <1>5 DEF ReadBreaks, Leave
<1>6. CASE CheckHeader
  <2>1. UNCHANGED <<onWire, got, rest, ended, queue>>
    BY <1>6 DEF CheckHeader, Leave
  <2>2. Size' = Size /\ \A y \in 1..Size' : At(y)' = At(y)
    BY <1>0, <2>1 DEF At
  <2> QED
    BY <1>0, <2>1, <2>2, SameFrames
<1>7. CASE DeliverPacket
  BY <1>7, FrameTaken
<1>8. CASE End
  <2>1. ~ended /\ ended' /\ UNCHANGED <<onWire, got, rest, queue>>
    BY <1>8 DEF End
  <2>2. Size' <= Size
    BY <1>0, <2>1
  <2>3. \A y \in 1..Size' : At(y)' = At(y)
    BY <1>0, <2>1 DEF At
  <2> QED
    BY <1>0, <2>1, <2>2, <2>3, SameFrames
<1>9. CASE UNCHANGED stream
  <2>1. UNCHANGED <<onWire, got, rest, ended, queue>>
    BY <1>9 DEF stream
  <2>2. Size' = Size /\ \A y \in 1..Size' : At(y)' = At(y)
    BY <1>0, <2>1 DEF At
  <2> QED
    BY <1>0, <2>1, <2>2, SameFrames
<1> QED
  BY <1>1, <1>2, <1>3, <1>4, <1>5, <1>6, <1>7, <1>8, <1>9 DEF StreamNext

LEMMA StreamHolds == StreamSpec => []FInv
<1>1. StreamInit => FInv
  <2> SUFFICES ASSUME StreamInit PROVE FInv
    OBVIOUS
  <2>1. StreamTypeOK /\ WithinFrame
    <3>1. <<>> \in Seq(Bytes) /\ <<>> \in Seq(Packets) /\ Len(<<>>) = 0
      BY EmptySeq
    <3>2. StreamTypeOK
      BY <3>1, Zenon DEF StreamInit, StreamTypeOK
    <3>3. WithinFrame
      BY <3>1 DEF StreamInit, WithinFrame, HeaderBytes
    <3> QED
      BY <3>2, <3>3
  <2>2. PICK start : start = [k \in 1..1 |-> 0]
    OBVIOUS
  <2>3. Len(queue) = 0 /\ Size = 0
    BY DEF StreamInit, Size
  <2>4. Parsed(start)
    BY <2>2, <2>3 DEF Parsed, StreamInit
  <2> QED
    BY <2>1, <2>4 DEF FInv, InFrames
<1>2. FInv /\ [StreamNext]_stream => FInv'
  BY StreamTypeStep, WithinFrameStep, InFramesStep DEF FInv
<1> QED
  BY <1>1, <1>2, PTL DEF StreamSpec

\* Whatever the stream does to the frames, the reader hands over the packets that
\* the pump was given: whole, in order, from the first on, and within the limit.
THEOREM StreamIsPipe == StreamSpec => Reassembles
<1>1. StreamInit => Pipe!Init
  BY DEF StreamInit, Pipe!Init
<1>2. FInv /\ [StreamNext]_stream => [Pipe!Next]_Pipe!vars
  <2> SUFFICES ASSUME FInv, WithinFrame, StreamTypeOK, [StreamNext]_stream PROVE [Pipe!Next]_Pipe!vars
    BY DEF FInv
  <2> USE DEF Pipe!vars, Pipe!Next
  <2>1. ASSUME NEW p \in Packets, Send(p) PROVE [Pipe!Next]_Pipe!vars
    BY <2>1 DEF Send, Pipe!Send, WithinFrame
  <2>2. CASE WriteByte
    BY <2>2 DEF WriteByte
  <2>3. CASE WriteBreaks
    BY <2>3 DEF WriteBreaks
  <2>4. CASE ReadByte
    BY <2>4 DEF ReadByte
  <2>5. CASE ReadBreaks
    BY <2>5 DEF ReadBreaks, Leave, Reading, Pipe!Cut
  <2>6. CASE CheckHeader
    BY <2>6 DEF CheckHeader, Leave, Pipe!Cut
  <2>7. CASE DeliverPacket
    <3>1. queue # <<>> /\ Body(got) = Head(queue) /\ Len(Head(queue)) <= MaxFrame
      BY <2>7, Delivers DEF StreamTypeOK
    <3> QED
      BY <2>7, <3>1 DEF DeliverPacket, Pipe!Deliver
  <2>8. CASE End
    BY <2>8 DEF End
  <2>9. CASE UNCHANGED stream
    BY <2>9 DEF stream
  <2> QED
    BY <2>1, <2>2, <2>3, <2>4, <2>5, <2>6, <2>7, <2>8, <2>9 DEF StreamNext
<1> QED
  BY <1>1, <1>2, StreamHolds, PTL DEF StreamSpec, Reassembles, Pipe!Spec
=============================================================================
