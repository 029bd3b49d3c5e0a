---------------------------- MODULE Conversation ----------------------------
(***************************************************************************)
(* The conversation service of one shop (backend/services/                 *)
(* conversation_service.py behind backend/api/v1/conversations.py), with   *)
(* the quota check of backend/billing/service.py and the retention purge   *)
(* of backend/services/retention_service.py.                               *)
(*                                                                         *)
(* Every HTTP request is one READ COMMITTED transaction on a connection of *)
(* the pool; requests of all workers interleave at their awaits.  A        *)
(* request is named by an id that also names what it writes: the           *)
(* conversation it opens, its user message, its assistant message and its  *)
(* llm_usage row.  A row is in db[table] when it is committed and in       *)
(* pend[r] while only r's transaction sees it.  now() is the start of the  *)
(* transaction, so all rows of a request carry the timestamp txAt.         *)
(***************************************************************************)
EXTENDS Naturals, FiniteSets

CONSTANTS
    Request,        \* the HTTP requests of the run
    Period,         \* windows [start, end) a quota check may count in
    Limit,          \* the plan's monthly_conversations
    Enterprise,     \* TRUE: the plan has no limit (monthly_conversations None)
    Connections     \* database connections of all workers together

ASSUME RequestAssumption == IsFiniteSet(Request)
ASSUME PeriodAssumption == Period # {} /\ Period \subseteq [start : Nat, end : Nat]
ASSUME LimitAssumption == Limit \in Nat
ASSUME EnterpriseAssumption == Enterprise \in BOOLEAN
ASSUME ConnectionsAssumption == Connections \in Nat \ {0}

Table == {"conversation", "user", "assistant", "usage"}

\* create: POST /v1/conversations[/stream]
\* append: POST /v1/conversations/{id}/messages[/stream]
Input == [op : {"create", "append"}, via : {"json", "stream"}, conv : Request]

Steps == {"idle", "authenticated", "found", "inserted", "prompting", "streaming",
          "replied", "committed", "done"}

Verdicts == {"none", "ok", "quota", "not_found", "error", "lost"}

VARIABLES
    clock,          \* transaction timestamps handed out so far
    cutoff,         \* timestamps up to this one are past the retention time
    db,             \* table -> requests whose row is committed
    purged,         \* requests whose committed exchange was purged
    pc,             \* request -> step of its handler
    input,          \* request -> endpoint and conversation
    txAt,           \* request -> timestamp of its transaction
    pend,           \* request -> tables its open transaction has written
    counted,        \* create -> the periods its quota check counted in full
    lastUser,       \* request -> the message taken as the customer's question
    started,        \* requests whose stream sent its start event
    told            \* request -> the verdict the client received

vars == <<clock, cutoff, db, purged, pc, input, txAt, pend, counted, lastUser,
          started, told>>

Init ==
    /\ clock = 0 /\ cutoff = 0
    /\ db = [t \in Table |-> {}]
    /\ purged = {}
    /\ pc = [r \in Request |-> "idle"]
    /\ input = [r \in Request |-> [op |-> "create", via |-> "json", conv |-> r]]
    /\ txAt = [r \in Request |-> 0]
    /\ pend = [r \in Request |-> {}]
    /\ counted = [r \in Request |-> {}]
    /\ lastUser = [r \in Request |-> r]
    /\ started = {}
    /\ told = [r \in Request |-> "none"]

Creates(r) == input[r].op = "create"
Streams(r) == input[r].via = "stream"
ConvOf(r)  == input[r].conv

InFlight == {r \in Request : pc[r] \notin {"idle", "done"}}

\* Ids a client can have seen: in a start event, or in the response to a create.
KnownIds == {c \in Request : Creates(c) /\ (c \in started \/ told[c] = "ok")}

(***************************************************************************)
(* Ways a handler ends or moves on                                         *)
(***************************************************************************)
Goto(r, step) == pc' = [pc EXCEPT ![r] = step]

\* The client gets its verdict and the session is closed: what it has not
\* committed vanishes.
Conclude(r, verdict) ==
    /\ Goto(r, "done")
    /\ told' = [told EXCEPT ![r] = verdict]
    /\ pend' = [pend EXCEPT ![r] = {}]
    /\ UNCHANGED <<clock, cutoff, db, purged, input, txAt, counted, lastUser,
                   started>>

(***************************************************************************)
(* Connection and authentication                                           *)
(***************************************************************************)
\* Mutant of Begin: a session factory without the pool limit.
BeginUnpooled(r, in) ==
    /\ pc[r] = "idle"
    /\ in.conv \in IF in.op = "create" THEN {r} ELSE KnownIds
    /\ Goto(r, "authenticated")
    /\ input' = [input EXCEPT ![r] = in]
    /\ clock' = clock + 1
    /\ txAt' = [txAt EXCEPT ![r] = clock + 1]
    /\ UNCHANGED <<cutoff, db, purged, pend, counted, lastUser, started, told>>

\* The first statement, the API key lookup, takes a connection and fixes now().
Begin(r, in) ==
    /\ pc[r] = "idle"
    /\ Cardinality(InFlight) < Connections
    /\ in.conv \in IF in.op = "create" THEN {r} ELSE KnownIds
    /\ Goto(r, "authenticated")
    /\ input' = [input EXCEPT ![r] = in]
    /\ clock' = clock + 1
    /\ txAt' = [txAt EXCEPT ![r] = clock + 1]
    /\ UNCHANGED <<cutoff, db, purged, pend, counted, lastUser, started, told>>

\* QueuePool gives up waiting for a connection: the request fails unserved.
PoolTimeout(r) ==
    /\ pc[r] = "idle"
    /\ Cardinality(InFlight) >= Connections
    /\ Conclude(r, "lost")

(***************************************************************************)
(* create_conversation and stream_create_conversation                      *)
(***************************************************************************)
\* count_period_usage in the window p: the shop's stored period, which stays the
\* window after its end, or the last 30 days, whose end is later than every row.
PeriodUsage(p) == {c \in db["conversation"] : p.start <= txAt[c] /\ txAt[c] < p.end}

\* Mutant of WithinQuota: "used <= limit".
WithinQuotaInclusive(p) == Enterprise \/ Cardinality(PeriodUsage(p)) <= Limit

WithinQuota(p) == Enterprise \/ Cardinality(PeriodUsage(p)) < Limit

RefuseQuota(r) ==
    /\ pc[r] = "authenticated" /\ Creates(r)
    /\ \E p \in Period : ~WithinQuota(p)
    /\ Conclude(r, "quota")

PeriodsWithin(p) == {q \in Period : p.start <= q.start /\ q.end <= p.end}

\* The two inserts touch nothing another transaction sees, so they join the
\* check in one step.  The history is the one message.  A conversation's
\* started_at is txAt, the start of the transaction.
OpenConversation(r) ==
    /\ pc[r] = "authenticated" /\ Creates(r)
    /\ \E p \in Period :
          /\ WithinQuota(p)
          /\ counted' = [counted EXCEPT ![r] = PeriodsWithin(p)]
    /\ pend' = [pend EXCEPT ![r] = {"conversation", "user"}]
    /\ lastUser' = [lastUser EXCEPT ![r] = r]
    /\ Goto(r, "prompting")
    /\ UNCHANGED <<clock, cutoff, db, purged, input, txAt, started, told>>

(***************************************************************************)
(* append_message and stream_append_message                                *)
(***************************************************************************)
FindConversation(r) ==
    /\ pc[r] = "authenticated" /\ ~Creates(r)
    /\ ConvOf(r) \in db["conversation"]
    /\ Goto(r, "found")
    /\ UNCHANGED <<clock, cutoff, db, purged, input, txAt, pend, counted,
                   lastUser, started, told>>

ConversationNotFound(r) ==
    /\ pc[r] = "authenticated" /\ ~Creates(r)
    /\ ConvOf(r) \notin db["conversation"]
    /\ Conclude(r, "not_found")

\* From here to the end of r's transaction the foreign key check holds a share
\* lock on the conversation row.
InsertUserMessage(r) ==
    /\ pc[r] = "found"
    /\ ConvOf(r) \in db["conversation"]
    /\ pend' = [pend EXCEPT ![r] = {"user"}]
    /\ Goto(r, "inserted")
    /\ UNCHANGED <<clock, cutoff, db, purged, input, txAt, counted, lastUser,
                   started, told>>

\* Mutant of ForeignKeyFails: the violation is swallowed and the handler waits.
ForeignKeyIgnored(r) == FALSE

\* Purged since it was found: IntegrityError, a 500 or a broken-off stream.
ForeignKeyFails(r) ==
    /\ pc[r] = "found"
    /\ ConvOf(r) \notin db["conversation"]
    /\ Conclude(r, "lost")

\* Mutant of VisibleUser: history read before the own message is flushed.
CommittedUser(r) == {q \in db["user"] : ConvOf(q) = ConvOf(r)}

\* User messages of r's conversation that a SELECT in r's transaction returns.
VisibleUser(r) == {q \in db["user"] : ConvOf(q) = ConvOf(r)} \cup {r}

\* "order_by(created_at)", then the last message whose role is user.
ReadHistory(r) ==
    /\ pc[r] = "inserted"
    /\ \E q \in VisibleUser(r) :
          /\ \A p \in VisibleUser(r) : txAt[p] <= txAt[q]
          /\ lastUser' = [lastUser EXCEPT ![r] = q]
    /\ Goto(r, "prompting")
    /\ UNCHANGED <<clock, cutoff, db, purged, input, txAt, pend, counted,
                   started, told>>

(***************************************************************************)
(* _generate_reply: the answer in one piece                                *)
(***************************************************************************)
CompleteReply(r) ==
    /\ pc[r] = "prompting" /\ ~Streams(r)
    /\ pend' = [pend EXCEPT ![r] = @ \cup {"assistant", "usage"}]
    /\ Goto(r, "replied")
    /\ UNCHANGED <<clock, cutoff, db, purged, input, txAt, counted, lastUser,
                   started, told>>

(***************************************************************************)
(* _stream_reply                                                           *)
(***************************************************************************)
EmitStart(r) ==
    /\ pc[r] = "prompting" /\ Streams(r)
    /\ started' = started \cup {r}
    /\ Goto(r, "streaming")
    /\ UNCHANGED <<clock, cutoff, db, purged, input, txAt, pend, counted,
                   lastUser, told>>

\* Mutant of StreamFails: the error path commits what is there.
StreamFailsCommitting(r) ==
    /\ pc[r] = "streaming"
    /\ db' = [t \in Table |-> IF t \in pend[r] THEN db[t] \cup {r} ELSE db[t]]
    /\ pend' = [pend EXCEPT ![r] = {}]
    /\ told' = [told EXCEPT ![r] = "error"]
    /\ Goto(r, "done")
    /\ UNCHANGED <<clock, cutoff, purged, input, txAt, counted, lastUser,
                   started>>

\* router.stream raised: an error event, then return without a commit.
StreamFails(r) ==
    /\ pc[r] = "streaming"
    /\ Conclude(r, "error")

\* The answer and its usage are added.  The code would store no usage for a stream
\* without a final chunk, but every adapter ends with one (Finished of LlmRouter).
StreamFinishes(r) ==
    /\ pc[r] = "streaming"
    /\ pend' = [pend EXCEPT ![r] = @ \cup {"assistant", "usage"}]
    /\ Goto(r, "replied")
    /\ UNCHANGED <<clock, cutoff, db, purged, input, txAt, counted, lastUser,
                   started, told>>

(***************************************************************************)
(* Commit, answer, and the ways to end without a verdict                   *)
(***************************************************************************)
Commit(r) ==
    /\ pc[r] = "replied"
    /\ db' = [t \in Table |-> IF t \in pend[r] THEN db[t] \cup {r} ELSE db[t]]
    /\ pend' = [pend EXCEPT ![r] = {}]
    /\ Goto(r, "committed")
    /\ UNCHANGED <<clock, cutoff, purged, input, txAt, counted, lastUser,
                   started, told>>

\* Mutant of Answer: the end event is yielded in front of the commit.
AnswerEarly(r) ==
    /\ pc[r] \in {"replied", "committed"}
    /\ Conclude(r, "ok")

\* 201 with the exchange, or the end event.
Answer(r) ==
    /\ pc[r] = "committed"
    /\ Conclude(r, "ok")

\* The worker dies, the connection to the client or to the database breaks, the
\* embedder or the vector index raises, or a JSON request's providers all fail:
\* a rollback, unless the commit is already through, and no verdict.
Abort(r) ==
    /\ r \in InFlight
    /\ Conclude(r, "lost")

(***************************************************************************)
(* Time and retention                                                      *)
(***************************************************************************)
\* The retention time is longer than any request.
RetentionPasses ==
    /\ cutoff < clock
    /\ \A r \in InFlight : cutoff + 1 < txAt[r]
    /\ cutoff' = cutoff + 1
    /\ UNCHANGED <<clock, db, purged, pc, input, txAt, pend, counted, lastUser,
                   started, told>>

\* Mutants of Expired: the two ways to be off by one at the cutoff.
ExpiredTooSoon == {r \in Request : txAt[r] <= cutoff + 1}
ExpiredTooLate == {r \in Request : txAt[r] < cutoff}

Expired == {r \in Request : txAt[r] <= cutoff}
ExpiredConversations == db["conversation"] \cap Expired

\* Old messages, and by ON DELETE CASCADE all messages of old conversations.
PurgedMessages == {r \in Request : r \in Expired \/ ConvOf(r) \in ExpiredConversations}

\* Mutant of PurgeExpired: no row lock stands between a purge and an append.
PurgeUnlocked ==
    /\ ExpiredConversations # {}
    /\ db' = [conversation |-> db["conversation"] \ Expired,
              user         |-> db["user"] \ PurgedMessages,
              assistant    |-> db["assistant"] \ PurgedMessages,
              usage        |-> db["usage"] \ Expired]
    /\ purged' = purged \cup (db["user"] \cap PurgedMessages)
    /\ UNCHANGED <<clock, cutoff, pc, input, txAt, pend, counted, lastUser,
                   started, told>>

\* purge_expired commits its three deletes together; an append that has inserted
\* into one of the conversations makes it wait.
PurgeExpired ==
    /\ ExpiredConversations # {}
    /\ \A r \in Request : "user" \in pend[r] => ConvOf(r) \notin ExpiredConversations
    /\ db' = [conversation |-> db["conversation"] \ Expired,
              user         |-> db["user"] \ PurgedMessages,
              assistant    |-> db["assistant"] \ PurgedMessages,
              usage        |-> db["usage"] \ Expired]
    /\ purged' = purged \cup (db["user"] \cap PurgedMessages)
    /\ UNCHANGED <<clock, cutoff, pc, input, txAt, pend, counted, lastUser,
                   started, told>>

(***************************************************************************)
(* Specification                                                           *)
(***************************************************************************)
Serve(r) ==
    \/ RefuseQuota(r) \/ OpenConversation(r)
    \/ FindConversation(r) \/ ConversationNotFound(r)
    \/ InsertUserMessage(r) \/ ForeignKeyFails(r) \/ ReadHistory(r)
    \/ CompleteReply(r)
    \/ EmitStart(r) \/ StreamFails(r) \/ StreamFinishes(r)
    \/ Commit(r) \/ Answer(r)

Next ==
    \/ \E r \in Request : \/ \E in \in Input : Begin(r, in)
                          \/ PoolTimeout(r) \/ Serve(r) \/ Abort(r)
    \/ RetentionPasses \/ PurgeExpired

\* A handler that was scheduled goes on: that every call it awaits returns or
\* raises is an assumption on providers, Qdrant and Postgres.  retention_loop calls
\* purge_expired every hour, whatever happened before.
Fairness == WF_vars(PurgeExpired) /\ \A r \in Request : WF_vars(Serve(r))

Spec == Init /\ [][Next]_vars /\ Fairness

(***************************************************************************)
(* Properties                                                              *)
(***************************************************************************)
TypeOK ==
    /\ clock \in Nat /\ cutoff \in Nat
    /\ db \in [Table -> SUBSET Request]
    /\ purged \subseteq Request
    /\ pc \in [Request -> Steps]
    /\ input \in [Request -> Input]
    /\ txAt \in [Request -> Nat]
    /\ pend \in [Request -> SUBSET Table]
    /\ counted \in [Request -> SUBSET Period]
    /\ lastUser \in [Request -> Request]
    /\ started \subseteq Request
    /\ told \in [Request -> Verdicts]
    /\ Cardinality(InFlight) <= Connections

\* The database never shows half an exchange: a stored question has its answer
\* and its llm_usage row, belongs to a stored conversation, and no conversation
\* is stored without the exchange that opened it.  Neither a failed stream nor
\* a purge between two statements of an append leaves one without the other.
ExchangesAtomic ==
    /\ db["user"] = db["assistant"]
    /\ db["user"] \subseteq db["usage"]
    /\ \A r \in db["user"] : ConvOf(r) \in db["conversation"]
    /\ db["conversation"] \subseteq db["user"]

\* The verdict is the truth: "ok" (201 or the end event) is only sent for an
\* exchange that was committed, and whoever is refused (402, 404, an error
\* event) left no row at all.
VerdictIsTrue ==
    \A r \in Request :
        /\ told[r] = "ok" => r \in db["user"] \cup purged
        /\ told[r] \in {"quota", "not_found", "error"} =>
              r \notin purged /\ \A t \in Table : r \notin db[t]

\* The quota check counts committed conversations only, so creates that overlap
\* all pass it.  The excess is bounded by what can be in flight, since every
\* request holds one pooled connection from its check to its commit: of the
\* conversations of a period, those whose check counted that whole period are
\* fewer than limit plus connections, whatever other windows were in force before
\* or in between.  A window that is over counts nothing that begins after its
\* end, and then bounds nothing (FreeUseIsBounded of PeriodQuota).
OvershootBounded ==
    ~Enterprise => \A p \in Period :
        Cardinality({c \in PeriodUsage(p) : p \in counted[c]}) < Limit + Connections

\* The question an append answers is its own or a younger one of the same
\* conversation, never an older one: history is read after the own insert and
\* sorted by transaction start.
NeverAnswersOlder ==
    \A r \in Request :
        pc[r] \in {"prompting", "streaming", "replied", "committed"} =>
            /\ ConvOf(lastUser[r]) = ConvOf(r)
            /\ txAt[lastUser[r]] >= txAt[r]

\* A committed exchange goes away only with its whole conversation, and only
\* when that conversation is past the retention time.
OnlyRetentionDeletes ==
    [][\A r \in db["user"] \ db'["user"] :
          /\ ConvOf(r) \notin db'["conversation"]
          /\ txAt[ConvOf(r)] <= cutoff]_vars

\* No append starts prompting a model for a conversation that is purged under
\* it: from its insert on, the conversation stays.
ConversationStaysUnderAppend ==
    [][\A r \in Request : pc[r] \in {"inserted", "prompting", "streaming", "replied"}
           /\ ~Creates(r) => ConvOf(r) \in db'["conversation"]]_vars

\* Every request that got a connection comes to an end.
Responds == \A r \in Request : (r \in InFlight) ~> (pc[r] = "done")

\* A conversation past the retention time is deleted, however appends to it and
\* the purge get in each other's way.
ExpiredIsPurged ==
    \A c \in Request :
        (c \in db["conversation"] /\ txAt[c] <= cutoff) ~> (c \notin db["conversation"])

\* Clients see a store of whole exchanges with honest verdicts.
Exchange(r) == IF r \in purged THEN "expired"
               ELSE IF r \in db["user"] THEN "stored" ELSE "none"

Abstract == INSTANCE ExchangeStore WITH
    exchange <- [r \in Request |-> Exchange(r)],
    verdict  <- told,
    home     <- [r \in Request |-> ConvOf(r)]

ImplementsExchangeStore == Abstract!Spec
=============================================================================
