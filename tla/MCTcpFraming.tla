------------------------------ MODULE MCTcpFraming ------------------------------
(***************************************************************************)
(* TcpFraming with bits for bytes, and so four of them for a length:       *)
(* packets that are empty, that are short, that just fit a frame, and one  *)
(* that is too long.                                                       *)
(***************************************************************************)
EXTENDS TcpFraming

FewPackets == { <<>>, <<1>>, <<0, 1>>, <<0, 1, 1, 0, 1>>, <<1, 0, 0, 0, 0, 1>> }
=============================================================================
