----------------------------- MODULE RequestQueue -----------------------------
(***************************************************************************)
(* What hop.h promises the sender of a hops:// request, and the host that  *)
(* serves it: a queue that is worked off at least once.  Looking at it     *)
(* consumes nothing.  A request is handed out at most once for each look,  *)
(* perhaps after it has gone, since a look grows old; it leaves the queue  *)
(* only by the hand of someone to whom it was handed, who acknowledges it  *)
(* when its work is done, for good, or turns it away, so that the sender   *)
(* may send it again; and the host may forget all but the queue.           *)
(***************************************************************************)
CONSTANT Reqs

VARIABLES queue,            \* requests that wait
          acked,            \* requests acknowledged to their senders
          view,             \* what is left of the last look at the queue
          handed,           \* requests that someone works on
          done              \* requests whose work was done, once at least

vars == <<queue, acked, view, handed, done>>

Init == queue = {} /\ acked = {} /\ view = {} /\ handed = {} /\ done = {}

Arrive(r) ==
    /\ r \notin queue \cup acked
    /\ queue' = queue \cup {r}
    /\ UNCHANGED <<acked, view, handed, done>>

Look == view' = queue /\ UNCHANGED <<queue, acked, handed, done>>

HandOut(r) ==
    /\ r \in view
    /\ view' = view \ {r}
    /\ handed' = handed \cup {r}
    /\ UNCHANGED <<queue, acked, done>>

Finish(r) == r \in handed /\ done' = done \cup {r} /\ UNCHANGED <<queue, acked, view, handed>>

\* Whoever settles a request may go on with it, or be through with it.
Settles(r) == handed' \in {handed, handed \ {r}} /\ UNCHANGED view

Acknowledge(r) ==
    /\ r \in handed \cap queue
    /\ queue' = queue \ {r}
    /\ acked' = acked \cup {r}
    /\ done' = done \cup {r}
    /\ Settles(r)

TurnAway(r) ==
    /\ r \in handed \cap queue
    /\ queue' = queue \ {r}
    /\ Settles(r)
    /\ UNCHANGED <<acked, done>>

Forget == view' \subseteq view /\ handed' \subseteq handed /\ UNCHANGED <<queue, acked, done>>

Next ==
    \/ \E r \in Reqs : \/ Arrive(r) \/ HandOut(r) \/ Finish(r)
                       \/ Acknowledge(r) \/ TurnAway(r)
    \/ Look \/ Forget

Spec == Init /\ [][Next]_vars
=============================================================================
