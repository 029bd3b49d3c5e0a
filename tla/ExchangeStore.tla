---------------------------- MODULE ExchangeStore ----------------------------
(***************************************************************************)
(* What the conversation API promises to a client, without transactions,   *)
(* streams or workers: a request stores its whole exchange (the question   *)
(* with its answer, and the conversation if the request opened it) or      *)
(* nothing, and a verdict sent to the client tells which of the two.       *)
(***************************************************************************)
EXTENDS Naturals

CONSTANT Request

VARIABLES
    exchange,       \* request -> "none", "stored" or "expired"
    verdict,        \* request -> what the client was told
    home            \* request -> the conversation it belongs to

vars == <<exchange, verdict, home>>

Verdicts == {"none", "ok", "quota", "not_found", "error", "lost"}
Refusals == {"quota", "not_found", "error"}

Init ==
    /\ exchange = [r \in Request |-> "none"]
    /\ verdict = [r \in Request |-> "none"]
    /\ home \in [Request -> Request]

\* A request is addressed to a conversation: its own, or an earlier one.
Address(r, c) ==
    /\ exchange[r] = "none" /\ verdict[r] = "none"
    /\ home' = [home EXCEPT ![r] = c]
    /\ UNCHANGED <<exchange, verdict>>

\* The exchange appears at once; its conversation is there or opens with it.
Store(r) ==
    /\ exchange[r] = "none" /\ verdict[r] = "none"
    /\ home[r] = r \/ exchange[home[r]] = "stored"
    /\ exchange' = [exchange EXCEPT ![r] = "stored"]
    /\ UNCHANGED <<verdict, home>>

Confirm(r) ==
    /\ exchange[r] # "none" /\ verdict[r] = "none"
    /\ verdict' = [verdict EXCEPT ![r] = "ok"]
    /\ UNCHANGED <<exchange, home>>

\* A refusal is final: nothing of the request is stored, now or later.
Refuse(r) ==
    /\ exchange[r] = "none" /\ verdict[r] = "none"
    /\ \E v \in Refusals : verdict' = [verdict EXCEPT ![r] = v]
    /\ UNCHANGED <<exchange, home>>

\* No verdict reaches the client; the exchange may or may not be stored.
Lose(r) ==
    /\ verdict[r] = "none"
    /\ verdict' = [verdict EXCEPT ![r] = "lost"]
    /\ UNCHANGED <<exchange, home>>

\* Conversations expire as a whole, with every exchange in them.
Expire(C) ==
    /\ C # {}
    /\ exchange' = [r \in Request |->
           IF exchange[r] = "stored" /\ home[r] \in C THEN "expired" ELSE exchange[r]]
    /\ UNCHANGED <<verdict, home>>

Next ==
    \/ \E r \in Request : \/ Store(r) \/ Confirm(r) \/ Refuse(r) \/ Lose(r)
                          \/ \E c \in Request : Address(r, c)
    \/ \E C \in SUBSET Request : Expire(C)

Spec == Init /\ [][Next]_vars
==============================================================================
