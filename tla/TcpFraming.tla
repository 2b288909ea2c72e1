------------------------------ MODULE TcpFraming ------------------------------
(***************************************************************************)
(* The stream in one direction of a TCP link (tcp_bearer.go): the pump     *)
(* writes frames with sendFramed, a length and then the packet, and        *)
(* recvLoop at the other end reads them.  The network takes and gives      *)
(* bytes one at a time, so that a frame can be cut anywhere, by the close  *)
(* of either socket or by a reset of the connection.                       *)
(***************************************************************************)
EXTENDS Naturals, Sequences

CONSTANTS Base,             \* values of a byte
          MaxFrame,         \* MaxFrameBytes
          Room,             \* bytes that fit between the two sockets
          Packets           \* what the core may ask to be sent

Bytes == 0..(Base - 1)
HeaderBytes == 4
Width == Base * (Base * (Base * Base))

\* Lengths fit their header: the core has no packets of 2^32 bytes.
ASSUME FramingAssumption ==
    /\ Base \in Nat \ {0, 1} /\ Room \in Nat \ {0}
    /\ MaxFrame \in 0..(Width - 1)
    /\ \A p \in Packets : p \in Seq(Bytes) /\ Len(p) < Width

VARIABLES
    rest,       \* what the conn.Write in progress has yet to write
    onWire,     \* bytes on their way
    got,        \* bytes of hdr and frame that were read
    reader,     \* recvLoop: reading a "head" or a "body", or "gone"
    ended,      \* the connection was closed or reset
    queue,      \* packets sent that have yet to be delivered
    inbox       \* the packet delivered last

stream == <<rest, onWire, got, reader, ended, queue, inbox>>

-----------------------------------------------------------------------------
(* Frames *)

\* A length as wide as the header, big endian (binary.BigEndian.PutUint32) ...
Shift(n) == n \div Base
Header(n) == << Shift(Shift(Shift(n))) % Base, Shift(Shift(n)) % Base, Shift(n) % Base, n % Base >>

Encode(p) == Header(Len(p)) \o p

\* ... and the length that a header announces (Uint32).
Announced(g) == ((g[1] * Base + g[2]) * Base + g[3]) * Base + g[4]

Body(g) == SubSeq(g, HeaderBytes + 1, Len(g))

-----------------------------------------------------------------------------
(* sendFramed *)

Send(p) ==
    /\ rest = <<>>
    /\ rest' = Encode(p)
    /\ queue' = IF ended THEN queue ELSE Append(queue, p)
    /\ UNCHANGED <<onWire, got, reader, ended, inbox>>

WriteByte ==
    /\ rest # <<>> /\ ~ended
    /\ Len(onWire) < Room
    /\ onWire' = Append(onWire, Head(rest))
    /\ rest' = Tail(rest)
    /\ UNCHANGED <<got, reader, ended, queue, inbox>>

\* Mutant: the write has a deadline, and its failure is ignored as well.
WriteTimesOut ==
    /\ rest # <<>>
    /\ rest' = <<>>
    /\ UNCHANGED <<onWire, got, reader, ended, queue, inbox>>

\* The write fails, with part of the frame written, and its result is ignored:
\* the socket takes nothing afterwards.
WriteBreaks ==
    /\ rest # <<>> /\ ended
    /\ rest' = <<>>
    /\ UNCHANGED <<onWire, got, reader, ended, queue, inbox>>

-----------------------------------------------------------------------------
(* recvLoop *)

\* How many bytes the io.ReadFull in progress waits for, header included.
Wanted == IF reader = "head" THEN HeaderBytes ELSE HeaderBytes + Announced(got)

Reading == reader # "gone" /\ Len(got) < Wanted

ReadByte ==
    /\ Reading
    /\ onWire # <<>>
    /\ got' = Append(got, Head(onWire))
    /\ onWire' = Tail(onWire)
    /\ UNCHANGED <<rest, reader, ended, queue, inbox>>

\* recvLoop returns; what is on the way is lost.
Leave == reader' = "gone" /\ queue' = <<>>

\* A reset discards bytes, so the read may fail before they were all read.
ReadBreaks ==
    /\ Reading
    /\ ended
    /\ Leave
    /\ UNCHANGED <<rest, onWire, got, ended, inbox>>

\* frameLenOK, before the frame is allocated: a longer one ends the link, and
\* the socket is closed.
CheckHeader ==
    /\ reader = "head" /\ ~Reading
    /\ IF Announced(got) <= MaxFrame
       THEN reader' = "body" /\ UNCHANGED <<ended, queue>>
       ELSE Leave /\ ended' = TRUE
    /\ UNCHANGED <<rest, onWire, got, inbox>>

DeliverPacket ==
    /\ reader = "body" /\ ~Reading
    /\ inbox' = Body(got)
    /\ queue' = Tail(queue)
    /\ got' = <<>>
    /\ reader' = "head"
    /\ UNCHANGED <<rest, onWire, ended>>

\* Close of either endpoint, or a reset.
End == ~ended /\ ended' = TRUE /\ UNCHANGED <<rest, onWire, got, reader, queue, inbox>>

-----------------------------------------------------------------------------
StreamInit ==
    /\ rest = <<>> /\ onWire = <<>> /\ got = <<>> /\ reader = "head"
    /\ ended = FALSE /\ queue = <<>> /\ inbox = <<>>

StreamNext ==
    \/ \E p \in Packets : Send(p)
    \/ WriteByte \/ WriteBreaks \/ ReadByte \/ ReadBreaks \/ CheckHeader \/ DeliverPacket \/ End

StreamSpec == StreamInit /\ [][StreamNext]_stream

-----------------------------------------------------------------------------
(* Properties *)

Pipe == INSTANCE PacketPipe WITH Limit <- MaxFrame, cut <- (reader = "gone")

\* However the frames are chopped up on their way, and wherever the stream ends,
\* the core at the far side is handed the packets that were sent: whole, in
\* order, from the first on, and none beyond the limit ("oversized frame header
\* must be rejected before allocation").
Reassembles == Pipe!Spec
=============================================================================
