------------------------------ MODULE ChatWidget ------------------------------
(***************************************************************************)
(* The chat widget of the plugin (plugin/ki-berater/assets/js/widget.js)   *)
(* in the tabs of one browser, composed with the conversation API as       *)
(* ExchangeStore describes it.  The tabs share one conversation id in      *)
(* localStorage; each shows one message at a time on its way.              *)
(*                                                                         *)
(* A message is sent once, and by postJSON at most once more: the attempts *)
(* <<m, 1>> and <<m, 2>> are the requests of the store.  The answers of    *)
(* the API travel to the tab in order, one SSE event or response each.     *)
(***************************************************************************)
EXTENDS Naturals, Sequences

CONSTANTS
    Tab,            \* browser tabs that show the shop
    Messages,       \* bound on the texts the customer submits
    NoId            \* localStorage holds no conversation id

\* Messages are numbered in the order in which they are submitted.
Message == 1 .. Messages
Attempt == Message \X {1, 2}

ASSUME MessagesAssumption == Messages \in Nat
ASSUME NoIdAssumption == NoId \notin Attempt

Events == {"start", "chunk", "end", "created", "not_found", "quota", "error", "broken"}

VARIABLES
    exchange, verdict, home,    \* the service, as in ExchangeStore
    sent,           \* attempts the browser has sent
    announced,      \* attempts whose stream sent its start event
    chunked,        \* attempts whose stream sent text
    streaming,      \* supportsStreaming(): streamMessage or postJSON
    storage,        \* localStorage's kib_conversation_id
    tab,            \* tab -> is a message under way, and which
    wire,           \* tab -> events and responses on their way to it
    seen,           \* message -> what the customer has seen of its answer
    toldDead        \* tab -> conversations the API told it not to exist

service == <<exchange, verdict, home>>
widget == <<sent, storage, tab, seen, toldDead>>
vars == <<exchange, verdict, home, sent, announced, chunked, streaming, storage, tab,
          wire, seen, toldDead>>

Service == INSTANCE ExchangeStore WITH Request <- Attempt

Init ==
    /\ Service!Init /\ home = [r \in Attempt |-> r]
    /\ sent = {} /\ announced = {} /\ chunked = {}
    /\ streaming \in BOOLEAN
    /\ storage = NoId
    /\ tab \in [Tab -> [state : {"ready"}, req : {NoId}, convo : {NoId}]]
    /\ wire = [t \in Tab |-> <<>>]
    /\ seen = [m \in Message |-> "nothing"]
    /\ toldDead = [t \in Tab |-> {}]

Waiting(t) == tab[t].state = "waiting"
MessageOf(t) == tab[t].req[1]

(***************************************************************************)
(* Sending                                                                 *)
(***************************************************************************)
\* The request of the tab: to the stored conversation, or one that creates.
Send(t, r, convo) ==
    /\ tab' = [tab EXCEPT ![t] = [state |-> "waiting", req |-> r, convo |-> convo]]
    /\ sent' = sent \cup {r}
    /\ Service!Address(r, IF convo = NoId THEN r ELSE convo)

IsNext(m) == {n \in Message : <<n, 1>> \in sent} = 1 .. (m - 1)

\* Mutant of Submit: an id of the widget's own making is persisted when sent.
SubmitPersisting(t, m) ==
    /\ ~Waiting(t) /\ IsNext(m)
    /\ Send(t, <<m, 1>>, storage)
    /\ storage' = IF storage = NoId THEN <<m, 1>> ELSE storage
    /\ UNCHANGED <<announced, chunked, streaming, wire, seen, toldDead>>

\* The send button is disabled while a message is under way in this tab.
Submit(t, m) ==
    /\ ~Waiting(t) /\ IsNext(m)
    /\ Send(t, <<m, 1>>, storage)
    /\ UNCHANGED <<announced, chunked, streaming, storage, wire, seen, toldDead>>

\* Mutant of Reload: what is on the wire reaches the page loaded next.
ReloadKeepingWire(t) ==
    /\ Waiting(t)
    /\ tab' = [tab EXCEPT ![t].state = "ready"]
    /\ seen' = [seen EXCEPT ![MessageOf(t)] = "gone"]
    /\ UNCHANGED <<service, sent, announced, chunked, streaming, storage, wire, toldDead>>

\* The customer leaves the page: only localStorage remains.
Reload(t) ==
    /\ Waiting(t)
    /\ tab' = [tab EXCEPT ![t].state = "ready"]
    /\ wire' = [wire EXCEPT ![t] = <<>>]
    /\ seen' = [seen EXCEPT ![MessageOf(t)] = "gone"]
    /\ UNCHANGED <<service, sent, announced, chunked, streaming, storage, toldDead>>

(***************************************************************************)
(* The conversation API                                                    *)
(***************************************************************************)
Open(r) == r \in sent /\ verdict[r] = "none"
Found(r) == home[r] = r \/ exchange[home[r]] = "stored"

\* An event goes to the tab that still waits for r.
Tell(r, event) ==
    wire' = [t \in Tab |-> IF Waiting(t) /\ tab[t].req = r
                           THEN Append(wire[t], event) ELSE wire[t]]

\* _stream_reply yields "start" with the conversation's id, before any commit.
Start(r) ==
    /\ streaming /\ Open(r) /\ Found(r) /\ r \notin announced
    /\ announced' = announced \cup {r}
    /\ Tell(r, "start")
    /\ UNCHANGED <<service, chunked, streaming, widget>>

\* All deltas of an answer are one chunk.
SendChunk(r) ==
    /\ r \in announced \ chunked
    /\ Open(r) /\ exchange[r] = "none"
    /\ chunked' = chunked \cup {r}
    /\ Tell(r, "chunk")
    /\ UNCHANGED <<service, announced, streaming, widget>>

CommitExchange(r) ==
    /\ Open(r) /\ (streaming => r \in announced)
    /\ Service!Store(r)
    /\ UNCHANGED <<announced, chunked, streaming, wire, widget>>

\* Mutant of Confirm: the answer is reported before it is stored.
ConfirmEarly(r) ==
    /\ Open(r) /\ (streaming => r \in announced)
    /\ verdict' = [verdict EXCEPT ![r] = "ok"]
    /\ Tell(r, IF streaming THEN "end" ELSE "created")
    /\ UNCHANGED <<exchange, home, announced, chunked, streaming, widget>>

Confirm(r) ==
    /\ Open(r)
    /\ Service!Confirm(r)
    /\ Tell(r, IF streaming THEN "end" ELSE "created")
    /\ UNCHANGED <<announced, chunked, streaming, widget>>

\* 404, or an error event in a stream with status 200.
NotFound(r) ==
    /\ Open(r) /\ ~Found(r)
    /\ Service!Refuse(r) /\ verdict'[r] = "not_found"
    /\ Tell(r, "not_found")
    /\ UNCHANGED <<announced, chunked, streaming, widget>>

OverQuota(r) ==
    /\ Open(r) /\ home[r] = r /\ r \notin announced
    /\ Service!Refuse(r) /\ verdict'[r] = "quota"
    /\ Tell(r, "quota")
    /\ UNCHANGED <<announced, chunked, streaming, widget>>

FailStream(r) ==
    /\ Open(r) /\ r \in announced
    /\ Service!Refuse(r) /\ verdict'[r] = "error"
    /\ Tell(r, "error")
    /\ UNCHANGED <<announced, chunked, streaming, widget>>

\* The connection breaks, or an HTTP error (401, 429, 5xx) comes instead.
Break(r) ==
    /\ Open(r)
    /\ Service!Lose(r)
    /\ Tell(r, "broken")
    /\ UNCHANGED <<announced, chunked, streaming, widget>>

\* A conversation outlives the request that opened it, and an open append to it
\* that has sent its start event.
Expire(c) ==
    /\ exchange[c] = "stored" /\ home[c] = c /\ verdict[c] # "none"
    /\ \A t \in Tab : Waiting(t) => tab[t].req # c
    /\ \A r \in announced : Open(r) => home[r] # c
    /\ Service!Expire({c})
    /\ UNCHANGED <<announced, chunked, streaming, wire, widget>>

(***************************************************************************)
(* Receiving: streamMessage's onEvent, postJSON's then, and their catch    *)
(***************************************************************************)
Arrives(t, event) ==
    /\ Waiting(t) /\ wire[t] # <<>> /\ Head(wire[t]) = event
    /\ wire' = [wire EXCEPT ![t] = Tail(@)]
    /\ UNCHANGED <<announced, chunked, streaming>>

\* The message is done: the send button works again.
Finish(t, shows) ==
    /\ seen' = [seen EXCEPT ![MessageOf(t)] = shows]
    /\ tab' = [tab EXCEPT ![t].state = "ready"]

ReceiveStart(t) ==
    /\ Arrives(t, "start")
    /\ storage' = home[tab[t].req]
    /\ UNCHANGED <<service, sent, tab, seen, toldDead>>

ReceiveChunk(t) ==
    /\ Arrives(t, "chunk")
    /\ seen' = [seen EXCEPT ![MessageOf(t)] = "partial"]
    /\ UNCHANGED <<service, sent, storage, tab, toldDead>>

ReceiveEnd(t) ==
    /\ Arrives(t, "end")
    /\ Finish(t, "answer")
    /\ UNCHANGED <<service, sent, storage, toldDead>>

\* postJSON: only the response to a create carries a conversation.
ReceiveCreated(t) ==
    /\ Arrives(t, "created")
    /\ storage' = IF tab[t].convo = NoId THEN tab[t].req ELSE storage
    /\ Finish(t, "answer")
    /\ UNCHANGED <<service, sent, toldDead>>

\* An error event, or a JSON response with status 402.
ReceiveError(t) ==
    /\ Arrives(t, "error") \/ Arrives(t, "quota")
    /\ Finish(t, "error")
    /\ UNCHANGED <<service, sent, storage, toldDead>>

LearnsDead(t) == toldDead' = [toldDead EXCEPT ![t] = @ \cup {tab[t].convo}]

\* streamMessage shows the event like any other error.
ReceiveNotFoundEvent(t) ==
    /\ streaming /\ Arrives(t, "not_found")
    /\ LearnsDead(t)
    /\ Finish(t, "error")
    /\ UNCHANGED <<service, sent, storage>>

\* Mutant of ReceiveNotFound: the text is not sent again.
ReceiveNotFoundHanging(t) ==
    /\ ~streaming /\ Arrives(t, "not_found")
    /\ LearnsDead(t)
    /\ storage' = NoId
    /\ UNCHANGED <<service, sent, tab, seen>>

\* postJSON forgets the id, whichever it is by now, and sends the text again.
ReceiveNotFound(t) ==
    /\ ~streaming /\ Arrives(t, "not_found")
    /\ LearnsDead(t)
    /\ storage' = NoId
    /\ Send(t, <<MessageOf(t), 2>>, NoId)
    /\ UNCHANGED seen

\* Mutant of ReceiveBroken: a failed request is sent again.
ReceiveBrokenRetrying(t) ==
    /\ Arrives(t, "broken")
    /\ IF tab[t].req[2] = 1
       THEN Send(t, <<MessageOf(t), 2>>, NoId) /\ UNCHANGED seen
       ELSE Finish(t, "error") /\ UNCHANGED <<service, sent>>
    /\ UNCHANGED <<storage, toldDead>>

\* The catch: "if (!gotChunk) addErrorMessage".  Its clearConvo wants the text
\* "HTTP 404" or "HTTP 401", but both responses have a detail that replaces it.
ReceiveBroken(t) ==
    /\ Arrives(t, "broken")
    /\ Finish(t, IF seen[MessageOf(t)] = "partial" THEN "partial" ELSE "error")
    /\ UNCHANGED <<service, sent, storage, toldDead>>

(***************************************************************************)
(* Specification                                                           *)
(***************************************************************************)
Receive(t) ==
    \/ ReceiveStart(t) \/ ReceiveChunk(t) \/ ReceiveEnd(t) \/ ReceiveCreated(t)
    \/ ReceiveError(t) \/ ReceiveNotFoundEvent(t) \/ ReceiveNotFound(t)
    \/ ReceiveBroken(t)

Serve(r) ==
    \/ Start(r) \/ SendChunk(r) \/ CommitExchange(r) \/ Confirm(r)
    \/ NotFound(r) \/ OverQuota(r) \/ FailStream(r)

Next ==
    \/ \E t \in Tab : (\E m \in Message : Submit(t, m)) \/ Reload(t) \/ Receive(t)
    \/ \E r \in Attempt : Serve(r) \/ Break(r) \/ Expire(r)

\* The API serves every request (see Conversation!Responds), and the browser
\* runs its callbacks.
Fairness ==
    /\ \A t \in Tab : WF_vars(Receive(t))
    /\ \A r \in Attempt : WF_vars(Serve(r))

Spec == Init /\ [][Next]_vars /\ Fairness

(***************************************************************************)
(* Properties                                                              *)
(***************************************************************************)
TypeOK ==
    /\ exchange \in [Attempt -> {"none", "stored", "expired"}]
    /\ verdict \in [Attempt -> Service!Verdicts]
    /\ home \in [Attempt -> Attempt]
    /\ sent \subseteq Attempt /\ announced \subseteq sent /\ chunked \subseteq announced
    /\ streaming \in BOOLEAN
    /\ storage \in Attempt \cup {NoId}
    /\ tab \in [Tab -> [state : {"ready", "waiting"}, req : Attempt \cup {NoId},
                        convo : Attempt \cup {NoId}]]
    /\ wire \in [Tab -> Seq(Events)]
    /\ \A t \in Tab : wire[t] # <<>> => Waiting(t)
    /\ seen \in [Message -> {"nothing", "partial", "answer", "error", "gone"}]
    /\ toldDead \in [Tab -> SUBSET Attempt]

\* Without streaming, the id the tabs share always names a conversation that
\* was committed: it is persisted from the response to a create only.
PersistedIsCommitted ==
    ~streaming /\ storage # NoId => exchange[storage] # "none" /\ home[storage] = storage

\* postJSON's retry never makes the backend store a text twice: it follows on a
\* 404 alone, and then nothing of the first attempt is stored, now or later.
NoDoubleExchange ==
    \A m \in Message : exchange[<<m, 1>>] = "none" \/ exchange[<<m, 2>>] = "none"

\* An answer shown as finished is in the database (or was, until it expired).
ShownAnswerIsStored ==
    \A m \in Message : seen[m] = "answer" =>
        \E i \in {1, 2} : exchange[<<m, i>>] # "none"

\* Every message ends: the send button is never disabled for good.
SendEnds == \A t \in Tab : Waiting(t) ~> ~Waiting(t)

(***************************************************************************)
(* A comment the code does not keep                                        *)
(***************************************************************************)
\* widget.js: "Stale conversation_id -> clear and let the user retry from
\* scratch", here also for a browser that streams.
DeadIsForgotten ==
    \A t \in Tab : ~(Waiting(t) /\ tab[t].convo \in toldDead[t])
===============================================================================
