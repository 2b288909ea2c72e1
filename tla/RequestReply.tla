---------------------------- MODULE RequestReply ----------------------------
(***************************************************************************)
(* What Request promises: a call ends once; it returns an answer only if   *)
(* the answer to this very call has come in, and taking the answer and     *)
(* returning it are one; a call that fails leaves its answer, if there is  *)
(* one or if one comes later, in the durable queue.                        *)
(***************************************************************************)
CONSTANT Calls

VARIABLES status,           \* of each call: "idle", "open", "answered", "failed"
          answers           \* calls whose answer is in the durable queue

vars == <<status, answers>>

Init == status = [c \in Calls |-> "idle"] /\ answers = {}

Becomes(c, s) == status' = [status EXCEPT ![c] = s]

Ask(c)    == status[c] = "idle" /\ Becomes(c, "open") /\ UNCHANGED answers
Arrive(c) == status[c] \in {"open", "failed"} /\ answers' = answers \cup {c} /\ UNCHANGED status
Answer(c) == /\ status[c] = "open" /\ c \in answers
             /\ Becomes(c, "answered") /\ answers' = answers \ {c}
Fail(c)   == status[c] = "open" /\ Becomes(c, "failed") /\ UNCHANGED answers

Next == \E c \in Calls : Ask(c) \/ Arrive(c) \/ Answer(c) \/ Fail(c)

Spec == Init /\ [][Next]_vars
=============================================================================
