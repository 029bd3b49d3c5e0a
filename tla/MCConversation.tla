--------------------------- MODULE MCConversation ---------------------------
(* Requests are interchangeable, so they begin in the order of their numbers.  *)
(* This is the reduction a symmetry set gives, but sound for liveness as well: *)
(* no fairness condition speaks of Begin or PoolTimeout.                       *)
EXTENDS Conversation

BeginInOrder ==
    \A r \in Request : pc[r] = "idle" /\ pc'[r] # "idle" =>
        \A q \in Request : q < r => pc[q] # "idle"

\* The last 30 days, from before the first request on, and a stored period that
\* begins after the first request and is over when a third one begins.
Later == 9
MCPeriod == {[start |-> 0, end |-> Later], [start |-> 2, end |-> 3]}
=============================================================================
