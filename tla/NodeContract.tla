---------------------------- MODULE NodeContract ----------------------------
(***************************************************************************)
(* What libhop asks of its host about one HopNode handle (hop.h, the       *)
(* comment on hop_node_free): the handle is freed once, no thread is       *)
(* inside a call on it while it is being freed, and none uses it           *)
(* afterwards.  Endpoint has to keep this contract however the goroutines  *)
(* of the pump, the bearers and the application interleave.                *)
(***************************************************************************)
CONSTANTS Threads           \* goroutines that may hold the handle

VARIABLES users,            \* threads inside a libhop call on the handle
          phase             \* "live", then "freeing", then "freed"

vars == <<users, phase>>

Init == users = {} /\ phase = "live"

\* A thread enters, and leaves, an ordinary libhop call.
Call(t)   == phase = "live" /\ users' = users \cup {t} /\ UNCHANGED phase
Return(t) == phase = "live" /\ t \in users /\ users' = users \ {t} /\ UNCHANGED phase

\* hop_node_free needs the handle to itself, and consumes it.
Free(t)  == phase = "live" /\ users = {} /\ users' = {t} /\ phase' = "freeing"
Freed(t) == phase = "freeing" /\ users = {t} /\ users' = {} /\ phase' = "freed"

Next == \E t \in Threads : Call(t) \/ Return(t) \/ Free(t) \/ Freed(t)

Spec == Init /\ [][Next]_vars
=============================================================================
