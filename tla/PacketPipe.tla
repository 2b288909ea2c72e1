------------------------------ MODULE PacketPipe ------------------------------
(***************************************************************************)
(* What one direction of a TCP link promises to the cores at its ends      *)
(* ("opaque Hop frames over TCP ... length-prefixed and reassembled on the *)
(* far side", tcp_bearer.go): packets come out whole, in the order in      *)
(* which they went in, and none comes out after one was lost.              *)
(***************************************************************************)
EXTENDS Naturals, Sequences

CONSTANTS Packets,          \* what a core may send
          Limit             \* MaxFrameBytes

VARIABLES queue,            \* packets in the pipe, oldest first
          inbox,            \* the packet that came out last
          cut               \* the pipe leads nowhere any more

vars == <<queue, inbox, cut>>

Init == queue = <<>> /\ inbox = <<>> /\ cut = FALSE

Send(p) == ~cut /\ queue' = Append(queue, p) /\ UNCHANGED <<inbox, cut>>

\* Only a packet within the limit comes out.
Deliver ==
    /\ queue # <<>> /\ Len(Head(queue)) <= Limit
    /\ inbox' = Head(queue)
    /\ queue' = Tail(queue)
    /\ UNCHANGED cut

Cut == ~cut /\ cut' = TRUE /\ queue' = <<>> /\ UNCHANGED inbox

Next == Deliver \/ Cut \/ \E p \in Packets : Send(p)

Spec == Init /\ [][Next]_vars
=============================================================================
