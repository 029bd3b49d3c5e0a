--------------------------- MODULE ChatWidgetProofs ---------------------------
(***************************************************************************)
(* Proofs about ChatWidget, for any number of tabs and messages: what the  *)
(* widget persists and shows is in the database, and its retry stores no   *)
(* message twice.                                                          *)
(*                                                                         *)
(* What ends a message arrives last and tells the verdict (WireInv), and   *)
(* the second attempt follows on a refused first one (StoreInv).           *)
(***************************************************************************)
EXTENDS ChatWidget, SequenceTheorems, TLAPS

\* The verdict a last event tells.
Tells(event, v) ==
    \/ event \in {"end", "created"} /\ v = "ok"
    \/ event \in {"quota", "not_found", "error"} /\ v = event
    \/ event = "broken" /\ v = "lost"

StoreInv == \A r \in Attempt :
    /\ exchange[r] # "none" \/ verdict[r] # "none" => r \in sent
    /\ verdict[r] = "ok" => exchange[r] # "none"
    /\ verdict[r] \in {"quota", "not_found", "error"} => exchange[r] = "none"
    /\ verdict[r] = "not_found" => home[r] # r
    /\ r[2] = 2 => home[r] = r /\ (r \in sent => verdict[<<r[1], 1>>] = "not_found")

WireInv == \A t \in Tab : \A i \in 1 .. Len(wire[t]) :
    /\ wire[t][i] = "start" => streaming
    /\ wire[t][i] = "created" => ~streaming
    /\ wire[t][i] \notin {"start", "chunk"} =>
           i = Len(wire[t]) /\ Tells(wire[t][i], verdict[tab[t].req])

TabInv == \A t \in Tab : Waiting(t) =>
    /\ tab[t].req \in sent
    /\ tab[t].convo = NoId => home[tab[t].req] = tab[t].req

IInv == TypeOK /\ StoreInv /\ WireInv /\ TabInv /\ PersistedIsCommitted
           /\ ShownAnswerIsStored

USE MessagesAssumption, NoIdAssumption
USE DEF service, widget

LEMMA AttemptIsPair ==
    /\ \A r \in Attempt : r[1] \in Message /\ r[2] \in {1, 2} /\ r = <<r[1], r[2]>>
    /\ \A m \in Message, i \in {1, 2} :
           <<m, i>> \in Attempt /\ <<m, i>>[1] = m /\ <<m, i>>[2] = i
BY DEF Attempt

LEMMA InitIInv == Init => IInv
<1> SUFFICES ASSUME Init PROVE IInv
  OBVIOUS
<1>1. /\ exchange = [r \in Attempt |-> "none"] /\ verdict = [r \in Attempt |-> "none"]
      /\ home = [r \in Attempt |-> r]
  BY DEF Init, Service!Init
<1>2. TypeOK
  BY <1>1 DEF Init, TypeOK, Service!Verdicts, Waiting
<1>3. StoreInv
  BY <1>1 DEF Init, StoreInv
<1>4. WireInv /\ TabInv
  BY DEF Init, WireInv, TabInv, Waiting
<1>5. PersistedIsCommitted /\ ShownAnswerIsStored
  BY DEF Init, PersistedIsCommitted, ShownAnswerIsStored
<1> QED  BY <1>2, <1>3, <1>4, <1>5 DEF IInv

(***************************************************************************)
(* The API                                                                 *)
(***************************************************************************)
\* An event joins the events of an open request: nothing final is before it.
LEMMA TellWire ==
    ASSUME IInv, NEW r \in Attempt, Open(r), NEW event \in Events, Tell(r, event),
           UNCHANGED <<tab, streaming>>,
           \A q \in Attempt \ {r} : verdict'[q] = verdict[q],
           event = "start" => streaming, event = "created" => ~streaming,
           \/ event \in {"start", "chunk"} /\ verdict' = verdict
           \/ Tells(event, verdict'[r])
    PROVE  /\ wire' \in [Tab -> Seq(Events)]
           /\ \A t \in Tab : wire'[t] # <<>> => Waiting(t)'
           /\ WireInv'
<1>1. /\ wire \in [Tab -> Seq(Events)] /\ verdict[r] = "none"
      /\ \A t \in Tab : wire[t] # <<>> => Waiting(t)
      /\ \A t \in Tab : Waiting(t)' = Waiting(t)
  BY DEF IInv, TypeOK, Open, Waiting
<1>2. wire' \in [Tab -> Seq(Events)]
  BY <1>1 DEF Tell
<1>3. \A t \in Tab : wire'[t] # <<>> => Waiting(t)'
  BY <1>1 DEF Tell
<1>4. ASSUME NEW t \in Tab, NEW i \in 1 .. Len(wire'[t])
      PROVE  /\ wire'[t][i] = "start" => streaming'
             /\ wire'[t][i] = "created" => ~streaming'
             /\ wire'[t][i] \notin {"start", "chunk"} =>
                    i = Len(wire'[t]) /\ Tells(wire'[t][i], verdict'[tab'[t].req])
  <2>1. CASE ~(Waiting(t) /\ tab[t].req = r)
    <3>1. wire'[t] = wire[t]
      BY <2>1 DEF Tell
    <3>2. wire[t] # <<>>
      BY <1>1, <1>4, <3>1
    <3>3. tab[t].req \in Attempt \ {r}
      BY <1>1, <2>1, <3>2 DEF IInv, TypeOK, TabInv
    <3> QED  BY <1>4, <3>1, <3>3 DEF IInv, WireInv
  <2>2. CASE Waiting(t) /\ tab[t].req = r
    <3>1. wire'[t] = Append(wire[t], event) /\ wire[t] \in Seq(Events)
      BY <1>1, <2>2 DEF Tell
    <3>2. Len(wire'[t]) = Len(wire[t]) + 1 /\ Len(wire[t]) \in Nat
      BY <3>1
    <3>3. CASE i = Len(wire'[t])
      BY <2>2, <3>1, <3>2, <3>3 DEF Tells
    <3>4. CASE i # Len(wire'[t])
      <4>1. i \in 1 .. Len(wire[t]) /\ wire'[t][i] = wire[t][i]
        BY <3>1, <3>2, <3>4
      <4>2. wire[t][i] \in {"start", "chunk"}
        BY <1>1, <2>2, <4>1 DEF IInv, WireInv, Tells
      <4> QED  BY <4>1, <4>2 DEF IInv, WireInv
    <3> QED  BY <3>3, <3>4
  <2> QED  BY <2>1, <2>2
<1> QED  BY <1>2, <1>3, <1>4 DEF WireInv

LEMMA ServeStep ==
    ASSUME IInv, NEW r \in Attempt, Serve(r) \/ Break(r)
    PROVE  IInv'
<1>1. /\ UNCHANGED <<sent, storage, tab, seen, toldDead, streaming, home>>
      /\ Open(r) /\ exchange \in [Attempt -> {"none", "stored", "expired"}]
      /\ verdict \in [Attempt -> Service!Verdicts]
  BY DEF IInv, TypeOK, Serve, Start, SendChunk, CommitExchange, Confirm, NotFound, OverQuota,
         FailStream, Break, Open, Service!Store, Service!Confirm, Service!Refuse, Service!Lose
<1>2. announced' \subseteq sent /\ chunked' \subseteq announced'
  BY DEF IInv, TypeOK, Serve, Start, SendChunk, CommitExchange, Confirm, NotFound, OverQuota,
         FailStream, Break, Open
<1>3. \/ exchange' = exchange /\ verdict' = verdict
      \/ exchange' = [exchange EXCEPT ![r] = "stored"] /\ verdict' = verdict
      \/ /\ exchange' = exchange
         /\ \E v \in {"ok", "quota", "not_found", "error", "lost"} :
               /\ verdict' = [verdict EXCEPT ![r] = v]
               /\ v = "ok" => exchange[r] # "none"
               /\ v \in {"quota", "not_found", "error"} => exchange[r] = "none"
               /\ v = "not_found" => home[r] # r
  <2>1. CASE Start(r) \/ SendChunk(r)
    BY <2>1 DEF Start, SendChunk
  <2>2. CASE CommitExchange(r)
    BY <2>2 DEF CommitExchange, Service!Store
  <2>3. CASE Confirm(r)
    BY <2>3 DEF Confirm, Service!Confirm
  <2>4. CASE NotFound(r) \/ OverQuota(r) \/ FailStream(r)
    <3>1. /\ exchange' = exchange /\ exchange[r] = "none"
          /\ \E v \in {"quota", "not_found", "error"} : verdict' = [verdict EXCEPT ![r] = v]
      BY <2>4 DEF NotFound, OverQuota, FailStream, Service!Refuse, Service!Refusals
    <3>2. verdict'[r] = "not_found" => home[r] # r
      BY <2>4 DEF NotFound, OverQuota, FailStream, Found
    <3> QED  BY <1>1, <3>1, <3>2
  <2>5. CASE Break(r)
    BY <2>5 DEF Break, Service!Lose
  <2> QED  BY <2>1, <2>2, <2>3, <2>4, <2>5 DEF Serve
<1>4. /\ exchange' \in [Attempt -> {"none", "stored", "expired"}]
      /\ verdict' \in [Attempt -> Service!Verdicts]
      /\ \A q \in Attempt \ {r} : verdict'[q] = verdict[q]
      /\ \A q \in Attempt : exchange[q] # "none" => exchange'[q] # "none"
  BY <1>1, <1>3 DEF Service!Verdicts
<1>5. StoreInv'
  <2>1. verdict[r] = "none" /\ r \in sent
    BY <1>1 DEF Open
  <2>2. ASSUME NEW q \in Attempt
        PROVE  /\ exchange'[q] # "none" \/ verdict'[q] # "none" => q \in sent
               /\ verdict'[q] = "ok" => exchange'[q] # "none"
               /\ verdict'[q] \in {"quota", "not_found", "error"} => exchange'[q] = "none"
               /\ verdict'[q] = "not_found" => home[q] # q
    <3> DEFINE Fits(x, v) ==
                  /\ x # "none" \/ v # "none" => q \in sent
                  /\ v = "ok" => x # "none"
                  /\ v \in {"quota", "not_found", "error"} => x = "none"
                  /\ v = "not_found" => home[q] # q
    <3>1. Fits(exchange[q], verdict[q])
      BY DEF IInv, StoreInv
    <3>2. CASE q # r
      <4>1. exchange'[q] = exchange[q] /\ verdict'[q] = verdict[q]
        BY <1>1, <1>3, <3>2
      <4> QED  BY <3>1, <4>1
    <3>3. CASE q = r /\ verdict' = verdict
      BY <2>1, <3>3
    <3>4. ASSUME q = r, exchange' = exchange,
                 NEW v \in {"ok", "quota", "not_found", "error", "lost"},
                 verdict' = [verdict EXCEPT ![r] = v],
                 v = "ok" => exchange[r] # "none",
                 v \in {"quota", "not_found", "error"} => exchange[r] = "none",
                 v = "not_found" => home[r] # r
          PROVE  Fits(exchange'[q], verdict'[q])
      <4>1. verdict'[r] = v
        BY <1>1, <3>4
      <4> QED  BY <2>1, <3>4, <4>1
    <3> QED  BY <1>3, <3>2, <3>3, <3>4
  <2>3. ASSUME NEW q \in Attempt, q[2] = 2, q \in sent
        PROVE  verdict'[<<q[1], 1>>] = "not_found"
    <3>1. <<q[1], 1>> \in Attempt /\ verdict[<<q[1], 1>>] = "not_found"
      BY <2>3, AttemptIsPair DEF IInv, StoreInv
    <3> QED  BY <1>4, <2>1, <3>1
  <2> QED  BY <1>1, <2>2, <2>3 DEF IInv, StoreInv
<1>6. /\ wire' \in [Tab -> Seq(Events)]
      /\ \A t \in Tab : wire'[t] # <<>> => Waiting(t)'
      /\ WireInv'
  <2>1. CASE CommitExchange(r)
    <3>1. wire' = wire /\ verdict' = verdict
      BY <2>1 DEF CommitExchange, Service!Store
    <3> QED  BY <1>1, <3>1 DEF IInv, TypeOK, WireInv, Waiting
  <2>2. CASE Start(r) \/ SendChunk(r)
    <3>1. /\ verdict' = verdict
          /\ \E event \in {"start", "chunk"} :
                Tell(r, event) /\ (event = "start" => streaming)
      BY <2>2 DEF Start, SendChunk
    <3> QED  BY <1>1, <3>1, TellWire DEF Events
  <2>3. CASE Confirm(r)
    <3> DEFINE event == IF streaming THEN "end" ELSE "created"
    <3>1. verdict'[r] = "ok" /\ Tell(r, event)
      BY <1>1, <2>3 DEF Confirm, Service!Confirm
    <3> QED  BY <1>1, <1>4, <3>1, TellWire DEF Events, Tells
  <2>4. CASE NotFound(r) \/ OverQuota(r) \/ FailStream(r)
    <3>1. \E event \in {"quota", "not_found", "error"} :
              Tell(r, event) /\ verdict'[r] = event
      BY <2>4 DEF NotFound, OverQuota, FailStream
    <3> QED  BY <1>1, <1>4, <3>1, TellWire DEF Events, Tells
  <2>5. CASE Break(r)
    <3>1. verdict'[r] = "lost" /\ Tell(r, "broken")
      BY <1>1, <2>5 DEF Break, Service!Lose
    <3> QED  BY <1>1, <1>4, <3>1, TellWire DEF Events, Tells
  <2> QED  BY <2>1, <2>2, <2>3, <2>4, <2>5 DEF Serve
<1>7. TypeOK'
  BY <1>1, <1>2, <1>4, <1>6 DEF IInv, TypeOK
<1>8. TabInv'
  BY <1>1 DEF IInv, TabInv, Waiting
<1>9. PersistedIsCommitted' /\ ShownAnswerIsStored'
  BY <1>1, <1>4, AttemptIsPair DEF IInv, TypeOK, PersistedIsCommitted, ShownAnswerIsStored
<1> QED  BY <1>5, <1>6, <1>7, <1>8, <1>9 DEF IInv

\* Conversations expire: an exchange that was stored stays one that was.
LEMMA ExpireStep ==
    ASSUME IInv, NEW c \in Attempt, Expire(c)
    PROVE  IInv'
<1>1. /\ UNCHANGED <<verdict, home, announced, chunked, streaming, wire, widget>>
      /\ exchange' = [r \in Attempt |->
             IF exchange[r] = "stored" /\ home[r] \in {c} THEN "expired" ELSE exchange[r]]
  BY DEF Expire, Service!Expire
<1>2. /\ exchange' \in [Attempt -> {"none", "stored", "expired"}]
      /\ \A r \in Attempt : exchange'[r] = "none" <=> exchange[r] = "none"
  BY <1>1 DEF IInv, TypeOK
<1>3. TypeOK'
  BY <1>1, <1>2 DEF IInv, TypeOK, Waiting
<1>4. StoreInv'
  BY <1>1, <1>2 DEF IInv, StoreInv
<1>5. WireInv' /\ TabInv'
  BY <1>1 DEF IInv, WireInv, TabInv, Waiting
<1>6. PersistedIsCommitted' /\ ShownAnswerIsStored'
  BY <1>1, <1>2, AttemptIsPair DEF IInv, TypeOK, PersistedIsCommitted, ShownAnswerIsStored
<1> QED  BY <1>3, <1>4, <1>5, <1>6 DEF IInv

(***************************************************************************)
(* The widget                                                              *)
(***************************************************************************)
\* A request leaves a tab that has nothing on its wire.
LEMMA SendStep ==
    ASSUME IInv, NEW t \in Tab, NEW r \in Attempt, NEW convo \in Attempt \cup {NoId},
           Send(t, r, convo), UNCHANGED <<announced, chunked, streaming, seen>>,
           \/ r[2] = 1 /\ r \notin sent
           \/ r[2] = 2 /\ convo = NoId /\ verdict[<<r[1], 1>>] = "not_found",
           storage' \in {storage, NoId},
           toldDead' \in [Tab -> SUBSET Attempt],
           wire' \in [Tab -> Seq(Events)], wire'[t] = <<>>,
           \A u \in Tab \ {t} : wire'[u] = wire[u]
    PROVE  IInv'
<1>1. /\ tab' = [tab EXCEPT ![t] = [state |-> "waiting", req |-> r, convo |-> convo]]
      /\ sent' = sent \cup {r}
      /\ exchange[r] = "none" /\ verdict[r] = "none"
      /\ home' = [home EXCEPT ![r] = IF convo = NoId THEN r ELSE convo]
      /\ exchange' = exchange /\ verdict' = verdict
  BY DEF Send, Service!Address
<1>2. /\ home' \in [Attempt -> Attempt]
      /\ \A q \in Attempt \ {r} : home'[q] = home[q]
      /\ convo = NoId => home'[r] = r
      /\ \A q \in sent : home'[q] = home[q]
  <2>1. /\ home' \in [Attempt -> Attempt] /\ \A q \in Attempt \ {r} : home'[q] = home[q]
        /\ convo = NoId => home'[r] = r
    BY <1>1 DEF IInv, TypeOK
  <2>2. r \in sent => home'[r] = home[r]
    BY <1>1, <2>1 DEF IInv, StoreInv
  <2> QED  BY <2>1, <2>2 DEF IInv, TypeOK
<1>3. /\ \A u \in Tab \ {t} : tab'[u] = tab[u]
      /\ tab'[t] = [state |-> "waiting", req |-> r, convo |-> convo]
      /\ Waiting(t)' /\ \A u \in Tab \ {t} : Waiting(u)' = Waiting(u)
  BY <1>1 DEF IInv, TypeOK, Waiting
<1>4. TypeOK'
  <2>1. tab' \in [Tab -> [state : {"ready", "waiting"}, req : Attempt \cup {NoId},
                         convo : Attempt \cup {NoId}]]
    BY <1>1 DEF IInv, TypeOK
  <2>2. \A u \in Tab : wire'[u] # <<>> => Waiting(u)'
    BY <1>3 DEF IInv, TypeOK
  <2>3. sent' \subseteq Attempt /\ announced' \subseteq sent'
    BY <1>1 DEF IInv, TypeOK
  <2> QED  BY <1>1, <1>2, <2>1, <2>2, <2>3 DEF IInv, TypeOK
<1>5. StoreInv'
  <2>1. ASSUME NEW q \in Attempt, q[2] = 2
        PROVE  home'[q] = q /\ (q \in sent' => verdict[<<q[1], 1>>] = "not_found")
    <3>1. CASE q = r
      BY <1>2, <2>1, <3>1
    <3>2. CASE q # r
      <4>1. q \in sent' => q \in sent
        BY <1>1, <3>2
      <4>2. home'[q] = home[q]
        BY <1>2, <3>2
      <4> QED  BY <2>1, <4>1, <4>2 DEF IInv, StoreInv
    <3> QED  BY <3>1, <3>2
  <2>2. ASSUME NEW q \in Attempt
        PROVE  /\ exchange[q] # "none" \/ verdict[q] # "none" => q \in sent'
               /\ verdict[q] = "ok" => exchange[q] # "none"
               /\ verdict[q] \in {"quota", "not_found", "error"} => exchange[q] = "none"
    BY <1>1 DEF IInv, StoreInv
  <2>3. ASSUME NEW q \in Attempt, verdict[q] = "not_found" PROVE home'[q] # q
    <3>1. q # r /\ home[q] # q
      BY <1>1, <2>3 DEF IInv, StoreInv
    <3> QED  BY <1>2, <3>1
  <2> QED  BY <1>1, <2>1, <2>2, <2>3 DEF StoreInv
<1>6. WireInv'
  BY <1>1, <1>3 DEF IInv, WireInv
<1>7. TabInv'
  BY <1>1, <1>2, <1>3 DEF IInv, TabInv
<1>8. PersistedIsCommitted'
  <2>1. SUFFICES ASSUME ~streaming, storage' # NoId
                 PROVE  exchange'[storage'] # "none" /\ home'[storage'] = storage'
    BY DEF PersistedIsCommitted
  <2>2. storage' = storage /\ storage \in Attempt
    BY <2>1 DEF IInv, TypeOK
  <2>3. exchange[storage] # "none" /\ home[storage] = storage
    BY <2>1, <2>2 DEF IInv, PersistedIsCommitted
  <2> QED  BY <1>1, <1>2, <2>2, <2>3
<1>9. ShownAnswerIsStored'
  BY <1>1 DEF IInv, ShownAnswerIsStored
<1> QED  BY <1>4, <1>5, <1>6, <1>7, <1>8, <1>9 DEF IInv

LEMMA SubmitStep ==
    ASSUME IInv, NEW t \in Tab, NEW m \in Message, Submit(t, m)
    PROVE  IInv'
<1>1. <<m, 1>> \in Attempt /\ <<m, 1>>[2] = 1
  BY AttemptIsPair
<1>2. <<m, 1>> \notin sent
  BY DEF Submit, IsNext, Message
<1>3. wire[t] = <<>> /\ storage \in Attempt \cup {NoId}
  BY DEF Submit, IInv, TypeOK
<1> QED  BY <1>1, <1>2, <1>3, SendStep DEF Submit, IInv, TypeOK

\* The message of the tab is done, and nothing is left on its wire.
LEMMA FinishStep ==
    ASSUME IInv, NEW t \in Tab, Waiting(t), NEW shows \in {"partial", "answer", "error", "gone"},
           Finish(t, shows), UNCHANGED <<service, sent, announced, chunked, streaming>>,
           shows = "answer" => verdict[tab[t].req] = "ok",
           storage' \in Attempt \cup {NoId}, PersistedIsCommitted',
           toldDead' \in [Tab -> SUBSET Attempt],
           wire' \in [Tab -> Seq(Events)], wire'[t] = <<>>,
           \A u \in Tab \ {t} : wire'[u] = wire[u]
    PROVE  IInv'
<1>1. /\ tab' = [tab EXCEPT ![t].state = "ready"]
      /\ seen' = [seen EXCEPT ![MessageOf(t)] = shows]
      /\ UNCHANGED <<exchange, verdict, home>>
  BY DEF Finish
<1>2. tab[t].req \in Attempt /\ MessageOf(t) \in Message
  BY AttemptIsPair DEF IInv, TypeOK, TabInv, MessageOf
<1>3. /\ \A u \in Tab \ {t} : tab'[u] = tab[u] /\ (Waiting(u)' <=> Waiting(u))
      /\ ~Waiting(t)'
  BY <1>1 DEF IInv, TypeOK, Waiting
<1>4. TypeOK'
  <2>1. tab' \in [Tab -> [state : {"ready", "waiting"}, req : Attempt \cup {NoId},
                         convo : Attempt \cup {NoId}]]
    <3> DEFINE T == [state : {"ready", "waiting"}, req : Attempt \cup {NoId},
                     convo : Attempt \cup {NoId}]
               q == [tab[t] EXCEPT !.state = "ready"]
    <3>1. tab \in [Tab -> T] /\ tab' = [tab EXCEPT ![t] = q]
      BY <1>1 DEF IInv, TypeOK
    <3>2. q \in T
      <4>1. tab[t] \in T
        BY <3>1
      <4>2. q = [state |-> "ready", req |-> tab[t].req, convo |-> tab[t].convo]
        BY <4>1
      <4> QED  BY <4>1, <4>2
    <3> HIDE DEF T, q
    <3>3. tab' \in [Tab -> T]
      BY <3>1, <3>2
    <3> QED  BY <3>3 DEF T
  <2>2. \A u \in Tab : wire'[u] # <<>> => Waiting(u)'
    BY <1>3 DEF IInv, TypeOK
  <2>3. seen' \in [Message -> {"nothing", "partial", "answer", "error", "gone"}]
    BY <1>1, <1>2 DEF IInv, TypeOK
  <2> QED  BY <1>1, <2>1, <2>2, <2>3 DEF IInv, TypeOK
<1>5. StoreInv' /\ TabInv'
  BY <1>1, <1>3 DEF IInv, StoreInv, TabInv
<1>6. WireInv'
  BY <1>1, <1>3 DEF IInv, WireInv
<1>7. ShownAnswerIsStored'
  <2>1. SUFFICES ASSUME NEW m \in Message, seen'[m] = "answer"
                 PROVE  \E i \in {1, 2} : exchange[<<m, i>>] # "none"
    BY <1>1 DEF ShownAnswerIsStored
  <2>2. CASE m = MessageOf(t) /\ shows = "answer"
    <3>1. exchange[tab[t].req] # "none"
      BY <1>2, <2>2 DEF IInv, StoreInv
    <3>2. \E i \in {1, 2} : tab[t].req = <<m, i>>
      BY <1>2, <2>2, AttemptIsPair DEF MessageOf
    <3> QED  BY <3>1, <3>2
  <2>3. CASE seen[m] = "answer"
    BY <2>3 DEF IInv, ShownAnswerIsStored
  <2> QED  BY <1>1, <1>2, <2>1, <2>2, <2>3 DEF IInv, TypeOK
<1> QED  BY <1>4, <1>5, <1>6, <1>7 DEF IInv

LEMMA ReloadStep ==
    ASSUME IInv, NEW t \in Tab, Reload(t)
    PROVE  IInv'
<1>1. /\ wire' \in [Tab -> Seq(Events)] /\ wire'[t] = <<>>
      /\ \A u \in Tab \ {t} : wire'[u] = wire[u]
  BY DEF Reload, IInv, TypeOK
<1>2. PersistedIsCommitted' /\ storage' \in Attempt \cup {NoId}
  BY DEF Reload, IInv, TypeOK, PersistedIsCommitted
<1> QED  BY <1>1, <1>2, FinishStep DEF Reload, Finish, IInv, TypeOK

\* The first event of a tab arrives; the last one leaves nothing behind it.
LEMMA Arrival ==
    ASSUME IInv, NEW t \in Tab, NEW event \in Events, Arrives(t, event)
    PROVE  /\ Waiting(t) /\ tab[t].req \in Attempt /\ tab[t].req \in sent
           /\ wire' \in [Tab -> Seq(Events)]
           /\ \A u \in Tab \ {t} : wire'[u] = wire[u]
           /\ \A i \in 1 .. Len(wire'[t]) :
                  wire'[t][i] = wire[t][i + 1] /\ i + 1 \in 1 .. Len(wire[t])
           /\ Len(wire'[t]) = Len(wire[t]) - 1
           /\ event = "start" => streaming
           /\ event = "created" => ~streaming
           /\ event \notin {"start", "chunk"} =>
                  wire'[t] = <<>> /\ Tells(event, verdict[tab[t].req])
<1>1. /\ wire[t] \in Seq(Events) /\ wire[t] # <<>> /\ wire[t][1] = event
      /\ wire' = [wire EXCEPT ![t] = Tail(wire[t])] /\ Waiting(t)
  BY DEF Arrives, IInv, TypeOK
<1>2. /\ Len(wire[t]) \in Nat \ {0} /\ 1 \in 1 .. Len(wire[t])
      /\ Tail(wire[t]) \in Seq(Events) /\ Len(Tail(wire[t])) = Len(wire[t]) - 1
      /\ \A i \in 1 .. Len(wire[t]) - 1 : Tail(wire[t])[i] = wire[t][i + 1]
  BY <1>1
<1>3. wire'[t] = Tail(wire[t]) /\ wire' \in [Tab -> Seq(Events)]
      /\ \A u \in Tab \ {t} : wire'[u] = wire[u]
  BY <1>1, <1>2 DEF IInv, TypeOK
<1>4. /\ event = "start" => streaming
      /\ event = "created" => ~streaming
      /\ event \notin {"start", "chunk"} =>
             1 = Len(wire[t]) /\ Tells(event, verdict[tab[t].req])
  BY <1>1, <1>2 DEF IInv, WireInv
<1>5. tab[t].req \in Attempt /\ tab[t].req \in sent
  BY <1>1 DEF IInv, TypeOK, TabInv
<1>6. Len(wire[t]) = 1 => Tail(wire[t]) = <<>>
  <2>1. Tail(wire[t]) # <<>> => Len(Tail(wire[t])) # 0
    BY <1>2, EmptySeq
  <2> QED  BY <1>2, <2>1
<1> QED  BY <1>1, <1>2, <1>3, <1>4, <1>5, <1>6

\* An event that does not end the message.
LEMMA GoOnStep ==
    ASSUME IInv, NEW t \in Tab, NEW event \in {"start", "chunk"}, Arrives(t, event),
           UNCHANGED <<service, sent, tab, toldDead, announced, chunked, streaming>>,
           storage' \in Attempt \cup {NoId}, PersistedIsCommitted',
           \/ seen' = seen
           \/ seen' = [seen EXCEPT ![MessageOf(t)] = "partial"]
    PROVE  IInv'
<1>1. /\ Waiting(t) /\ tab[t].req \in Attempt
      /\ wire' \in [Tab -> Seq(Events)]
      /\ \A u \in Tab \ {t} : wire'[u] = wire[u]
      /\ \A i \in 1 .. Len(wire'[t]) :
             wire'[t][i] = wire[t][i + 1] /\ i + 1 \in 1 .. Len(wire[t])
      /\ Len(wire'[t]) = Len(wire[t]) - 1
  BY Arrival DEF Events
<1>2. MessageOf(t) \in Message
  BY <1>1, AttemptIsPair DEF MessageOf
<1>3. \A u \in Tab : Waiting(u)' = Waiting(u)
  BY DEF Waiting
<1>4. TypeOK'
  <2>1. \A u \in Tab : wire'[u] # <<>> => Waiting(u)'
    BY <1>1, <1>3 DEF IInv, TypeOK
  <2> QED  BY <1>1, <1>2, <2>1 DEF IInv, TypeOK
<1>5. StoreInv' /\ TabInv'
  BY <1>3 DEF IInv, StoreInv, TabInv
<1>6. WireInv'
  <2>1. ASSUME NEW i \in 1 .. Len(wire'[t])
        PROVE  /\ wire'[t][i] = "start" => streaming
               /\ wire'[t][i] = "created" => ~streaming
               /\ wire'[t][i] \notin {"start", "chunk"} =>
                      i = Len(wire'[t]) /\ Tells(wire'[t][i], verdict[tab[t].req])
    <3> DEFINE k == i + 1
    <3>1. /\ k \in 1 .. Len(wire[t]) /\ wire'[t][i] = wire[t][k]
          /\ k = Len(wire[t]) => i = Len(wire'[t])
      <4>1. Len(wire[t]) \in Nat
        BY DEF IInv, TypeOK
      <4> QED  BY <1>1, <4>1
    <3> HIDE DEF k
    <3> QED  BY <3>1 DEF IInv, WireInv
  <2> QED  BY <1>1, <2>1 DEF IInv, WireInv
<1>7. ShownAnswerIsStored'
  BY <1>2 DEF IInv, TypeOK, ShownAnswerIsStored
<1> QED  BY <1>4, <1>5, <1>6, <1>7 DEF IInv

LEMMA ReceiveStep ==
    ASSUME IInv, NEW t \in Tab, Receive(t)
    PROVE  IInv'
<1> DEFINE r == tab[t].req
<1>1. storage \in Attempt \cup {NoId} /\ home \in [Attempt -> Attempt]
      /\ toldDead \in [Tab -> SUBSET Attempt]
  BY DEF IInv, TypeOK
<1>2. UNCHANGED <<exchange, home, streaming>> /\ storage' = storage => PersistedIsCommitted'
  BY DEF IInv, PersistedIsCommitted
<1>3. CASE ReceiveStart(t)
  <2>1. /\ Arrives(t, "start") /\ storage' = home[r]
        /\ UNCHANGED <<service, sent, tab, seen, toldDead, announced, chunked, streaming>>
    BY <1>3 DEF ReceiveStart, Arrives
  <2>2. streaming /\ r \in Attempt
    BY <2>1, Arrival DEF Events
  <2>3. PersistedIsCommitted'
    BY <2>1, <2>2 DEF PersistedIsCommitted
  <2> QED  BY <1>1, <2>1, <2>2, <2>3, GoOnStep
<1>4. CASE ReceiveChunk(t)
  <2>1. /\ Arrives(t, "chunk") /\ seen' = [seen EXCEPT ![MessageOf(t)] = "partial"]
        /\ UNCHANGED <<service, sent, storage, tab, toldDead, announced, chunked, streaming>>
    BY <1>4 DEF ReceiveChunk, Arrives
  <2> QED  BY <1>1, <1>2, <2>1, GoOnStep
<1>5. CASE ReceiveEnd(t)
  <2>1. /\ Arrives(t, "end") /\ Finish(t, "answer")
        /\ UNCHANGED <<service, sent, storage, toldDead, announced, chunked, streaming>>
    BY <1>5 DEF ReceiveEnd, Arrives
  <2>2. "end" \in Events
    BY DEF Events
  <2>3. /\ Waiting(t) /\ verdict[r] = "ok" /\ wire' \in [Tab -> Seq(Events)] /\ wire'[t] = <<>>
        /\ \A u \in Tab \ {t} : wire'[u] = wire[u]
    BY <2>1, <2>2, Arrival DEF Tells
  <2> QED  BY <1>1, <1>2, <2>1, <2>3, FinishStep
<1>6. CASE ReceiveCreated(t)
  <2>1. /\ Arrives(t, "created") /\ Finish(t, "answer")
        /\ storage' = IF tab[t].convo = NoId THEN r ELSE storage
        /\ UNCHANGED <<service, sent, toldDead, announced, chunked, streaming>>
    BY <1>6 DEF ReceiveCreated, Arrives
  <2>2. "created" \in Events
    BY DEF Events
  <2>3. /\ Waiting(t) /\ verdict[r] = "ok" /\ wire' \in [Tab -> Seq(Events)] /\ wire'[t] = <<>>
        /\ \A u \in Tab \ {t} : wire'[u] = wire[u]
        /\ r \in Attempt /\ r \in sent
    BY <2>1, <2>2, Arrival DEF Tells
  <2>4. exchange[r] # "none" /\ (tab[t].convo = NoId => home[r] = r)
    BY <2>3 DEF IInv, StoreInv, TabInv
  <2>5. PersistedIsCommitted'
    <3>1. CASE tab[t].convo = NoId
      BY <2>1, <2>4, <3>1 DEF PersistedIsCommitted
    <3>2. CASE tab[t].convo # NoId
      BY <1>2, <2>1, <3>2
    <3> QED  BY <3>1, <3>2
  <2> QED  BY <1>1, <2>1, <2>3, <2>5, FinishStep
<1>7. CASE ReceiveError(t)
  <2>1. PICK event \in {"error", "quota"} : Arrives(t, event)
    BY <1>7 DEF ReceiveError
  <2>2. /\ Finish(t, "error")
        /\ UNCHANGED <<service, sent, storage, toldDead, announced, chunked, streaming>>
    BY <1>7 DEF ReceiveError, Arrives
  <2>3. /\ Waiting(t) /\ wire' \in [Tab -> Seq(Events)] /\ wire'[t] = <<>>
        /\ \A u \in Tab \ {t} : wire'[u] = wire[u]
    BY <2>1, Arrival DEF Events
  <2> QED  BY <1>1, <1>2, <2>2, <2>3, FinishStep
<1>8. CASE ReceiveBroken(t)
  <2>1. PICK shows \in {"partial", "error"} : Finish(t, shows)
    BY <1>8 DEF ReceiveBroken
  <2>2. /\ Arrives(t, "broken")
        /\ UNCHANGED <<service, sent, storage, toldDead, announced, chunked, streaming>>
    BY <1>8 DEF ReceiveBroken, Arrives
  <2>3. /\ Waiting(t) /\ wire' \in [Tab -> Seq(Events)] /\ wire'[t] = <<>>
        /\ \A u \in Tab \ {t} : wire'[u] = wire[u]
    BY <2>2, Arrival DEF Events
  <2> QED  BY <1>1, <1>2, <2>1, <2>2, <2>3, FinishStep
<1>9. ASSUME Arrives(t, "not_found"), LearnsDead(t)
      PROVE  /\ Waiting(t) /\ wire' \in [Tab -> Seq(Events)] /\ wire'[t] = <<>>
             /\ \A u \in Tab \ {t} : wire'[u] = wire[u]
             /\ toldDead' \in [Tab -> SUBSET Attempt]
             /\ r \in Attempt /\ r \in sent /\ verdict[r] = "not_found"
  <2>1. "not_found" \in Events
    BY DEF Events
  <2>2. /\ Waiting(t) /\ wire' \in [Tab -> Seq(Events)] /\ wire'[t] = <<>>
        /\ \A u \in Tab \ {t} : wire'[u] = wire[u]
        /\ r \in Attempt /\ r \in sent /\ verdict[r] = "not_found"
    BY <1>9, <2>1, Arrival DEF Tells
  <2>3. tab[t].convo \in Attempt
    <3>1. tab[t].convo \in Attempt \cup {NoId}
      BY DEF IInv, TypeOK
    <3>2. home[r] # r
      BY <2>2 DEF IInv, StoreInv
    <3>3. tab[t].convo = NoId => home[r] = r
      BY <2>2 DEF IInv, TabInv
    <3> QED  BY <3>1, <3>2, <3>3
  <2> QED  BY <1>1, <1>9, <2>2, <2>3 DEF LearnsDead
<1>10. CASE ReceiveNotFoundEvent(t)
  <2>1. /\ Arrives(t, "not_found") /\ LearnsDead(t) /\ Finish(t, "error")
        /\ UNCHANGED <<service, sent, storage, announced, chunked, streaming>>
    BY <1>10 DEF ReceiveNotFoundEvent, Arrives
  <2> QED  BY <1>1, <1>2, <1>9, <2>1, FinishStep
<1>11. CASE ReceiveNotFound(t)
  <2>1. /\ Arrives(t, "not_found") /\ LearnsDead(t) /\ storage' = NoId
        /\ Send(t, <<MessageOf(t), 2>>, NoId)
        /\ UNCHANGED <<seen, announced, chunked, streaming>>
    BY <1>11 DEF ReceiveNotFound, Arrives
  <2> DEFINE second == <<MessageOf(t), 2>>
  <2>2. second \in Attempt /\ second[2] = 2 /\ second[1] = r[1]
    BY <1>9, <2>1, AttemptIsPair DEF MessageOf
  <2>3. verdict[<<r[1], 1>>] = "not_found"
    <3>1. CASE r[2] = 1
      BY <1>9, <2>1, <3>1, AttemptIsPair
    <3>2. CASE r[2] = 2
      BY <1>9, <2>1, <3>2 DEF IInv, StoreInv
    <3> QED  BY <1>9, <2>1, <3>1, <3>2, AttemptIsPair
  <2> HIDE DEF second
  <2> QED  BY <1>9, <2>1, <2>2, <2>3, SendStep DEF second
<1> QED  BY <1>3, <1>4, <1>5, <1>6, <1>7, <1>8, <1>10, <1>11 DEF Receive

LEMMA NextIInv == IInv /\ [Next]_vars => IInv'
<1> SUFFICES ASSUME IInv, [Next]_vars PROVE IInv'
  OBVIOUS
<1>1. CASE UNCHANGED vars
  <2>1. TypeOK'
    BY <1>1 DEF IInv, TypeOK, vars, Waiting
  <2>2. StoreInv' /\ WireInv' /\ TabInv'
    BY <1>1 DEF IInv, StoreInv, WireInv, TabInv, vars, Waiting
  <2>3. PersistedIsCommitted' /\ ShownAnswerIsStored'
    BY <1>1 DEF IInv, PersistedIsCommitted, ShownAnswerIsStored, vars
  <2> QED  BY <2>1, <2>2, <2>3 DEF IInv
<1>2. CASE Next
  BY <1>2, SubmitStep, ReloadStep, ReceiveStep, ServeStep, ExpireStep DEF Next
<1> QED  BY <1>1, <1>2

LEMMA Invariance == Spec => []IInv
BY InitIInv, NextIInv, PTL DEF Spec

\* The variables keep their types, and nothing is on its way to a tab that does
\* not wait.
THEOREM TypeCorrect == Spec => []TypeOK
<1>1. IInv => TypeOK
  BY DEF IInv
<1> QED  BY <1>1, Invariance, PTL

\* Without streaming, the id in localStorage names a conversation that was
\* committed, however many tabs share it.
THEOREM Persisted == Spec => []PersistedIsCommitted
<1>1. IInv => PersistedIsCommitted
  BY DEF IInv
<1> QED  BY <1>1, Invariance, PTL

\* postJSON's retry never stores a text twice.
THEOREM StoredOnce == Spec => []NoDoubleExchange
<1>1. IInv => NoDoubleExchange
  <2> SUFFICES ASSUME IInv, NEW m \in Message, exchange[<<m, 2>>] # "none"
               PROVE  exchange[<<m, 1>>] = "none"
    BY DEF NoDoubleExchange
  <2>1. <<m, 1>> \in Attempt /\ <<m, 2>> \in Attempt /\ <<m, 2>>[1] = m /\ <<m, 2>>[2] = 2
    BY AttemptIsPair
  <2>2. verdict[<<m, 1>>] = "not_found"
    BY <2>1 DEF IInv, StoreInv
  <2> QED  BY <2>1, <2>2 DEF IInv, StoreInv
<1> QED  BY <1>1, Invariance, PTL

\* An answer the customer has seen to its end was stored.
THEOREM ShownIsStored == Spec => []ShownAnswerIsStored
<1>1. IInv => ShownAnswerIsStored
  BY DEF IInv
<1> QED  BY <1>1, Invariance, PTL

(***************************************************************************)
(* Progress                                                                *)
(***************************************************************************)
\* The request of a tab that waits has no verdict yet, or the event that tells it is
\* the last on the tab's wire.  No other tab waits for the same message, and the second
\* attempt of a message is not sent while the first is waited for.
AheadInv == \A t \in Tab : Waiting(t) =>
    /\ \/ Open(tab[t].req)
       \/ wire[t] # <<>> /\ wire[t][Len(wire[t])] \notin {"start", "chunk"}
    /\ tab[t].req[2] = 1 => <<MessageOf(t), 2>> \notin sent
    /\ \A u \in Tab \ {t} : Waiting(u) => MessageOf(u) # MessageOf(t)

\* A tab that waits has an event to receive, or a request that the API is still to
\* answer; a response that makes it send again finds the second attempt unused.
SendGoesOn == \A t \in Tab : Waiting(t) =>
    \/ wire[t] = <<>> /\ Open(tab[t].req)
    \/ wire[t] # <<>> /\ ~(Head(wire[t]) = "not_found" /\ ~streaming)
    \/ /\ wire[t] # <<>> /\ <<MessageOf(t), 2>> \in Attempt \ sent
       /\ exchange[<<MessageOf(t), 2>>] = "none" /\ verdict[<<MessageOf(t), 2>>] = "none"

\* The API takes a step: the verdict it gives is told to the tab that waits.
LEMMA AheadServe ==
    ASSUME IInv, AheadInv, NEW r \in Attempt, Serve(r) \/ Break(r)
    PROVE  AheadInv'
<1>1. UNCHANGED <<sent, tab>> /\ Open(r) /\ wire \in [Tab -> Seq(Events)]
      /\ verdict \in [Attempt -> Service!Verdicts]
  BY DEF IInv, TypeOK, Serve, Start, SendChunk, CommitExchange, Confirm, NotFound, OverQuota,
         FailStream, Break, Open, Service!Store, Service!Confirm, Service!Refuse, Service!Lose
<1>2. \/ verdict' = verdict /\ (wire' = wire \/ \E event \in Events : Tell(r, event))
      \/ /\ \E v : verdict' = [verdict EXCEPT ![r] = v]
         /\ \E event \in Events \ {"start", "chunk"} : Tell(r, event)
  BY DEF Serve, Start, SendChunk, CommitExchange, Confirm, NotFound, OverQuota, FailStream,
         Break, Events, Service!Store, Service!Confirm, Service!Refuse, Service!Lose
<1>3. \A t \in Tab : Waiting(t)' = Waiting(t) /\ MessageOf(t)' = MessageOf(t)
  BY <1>1 DEF Waiting, MessageOf
<1>4. ASSUME NEW t \in Tab, Waiting(t)
      PROVE  \/ Open(tab[t].req)'
             \/ wire'[t] # <<>> /\ wire'[t][Len(wire'[t])] \notin {"start", "chunk"}
  <2>1. tab[t].req \in Attempt /\ tab[t].req \in sent
    BY <1>4 DEF IInv, TypeOK, TabInv
  <2>2. CASE tab[t].req # r
    <3>1. wire'[t] = wire[t]
      BY <1>2, <2>2 DEF Tell
    <3>2. verdict'[tab[t].req] = verdict[tab[t].req]
      BY <1>1, <1>2, <2>1, <2>2
    <3> QED  BY <1>1, <1>4, <3>1, <3>2 DEF AheadInv, Open
  <2>3. CASE tab[t].req = r /\ verdict' = verdict
    BY <1>1, <2>3 DEF Open
  <2>4. ASSUME tab[t].req = r, NEW event \in Events \ {"start", "chunk"}, Tell(r, event)
        PROVE  wire'[t] # <<>> /\ wire'[t][Len(wire'[t])] \notin {"start", "chunk"}
    <3>1. wire'[t] = Append(wire[t], event) /\ wire[t] \in Seq(Events)
      BY <1>1, <1>4, <2>4 DEF Tell
    <3>2. Len(wire'[t]) = Len(wire[t]) + 1 /\ wire'[t][Len(wire[t]) + 1] = event
          /\ wire'[t] # <<>>
      BY <3>1
    <3> QED  BY <2>4, <3>2
  <2> QED  BY <1>2, <2>2, <2>3, <2>4
<1> QED  BY <1>1, <1>3, <1>4 DEF AheadInv

\* One tab takes a step: it does not wait, or its request is ahead and nobody else's.
LEMMA AheadTab ==
    ASSUME IInv, AheadInv, NEW t \in Tab, verdict' = verdict,
           \A u \in Tab \ {t} : tab'[u] = tab[u] /\ wire'[u] = wire[u],
           \/ sent' = sent /\ ~Waiting(t)'
           \/ /\ sent' = sent \cup {tab'[t].req}
              /\ \/ Open(tab[t].req)'
                 \/ wire'[t] # <<>> /\ wire'[t][Len(wire'[t])] \notin {"start", "chunk"}
              /\ tab'[t].req[2] = 1 => <<MessageOf(t)', 2>> \notin sent'
              /\ \A u \in Tab \ {t} : Waiting(u) => MessageOf(u) # MessageOf(t)'
    PROVE  AheadInv'
<1> SUFFICES ASSUME NEW u \in Tab, u # t, Waiting(u)
             PROVE  /\ \/ Open(tab[u].req)'
                       \/ wire'[u] # <<>> /\ wire'[u][Len(wire'[u])] \notin {"start", "chunk"}
                    /\ tab'[u].req[2] = 1 => <<MessageOf(u)', 2>> \notin sent'
                    /\ \A v \in Tab \ {u} : Waiting(v)' => MessageOf(v)' # MessageOf(u)'
  <2>1. \A u \in Tab \ {t} : Waiting(u)' = Waiting(u) /\ MessageOf(u)' = MessageOf(u)
    BY DEF Waiting, MessageOf
  <2>2. Waiting(t)' =>
            /\ \/ Open(tab[t].req)'
               \/ wire'[t] # <<>> /\ wire'[t][Len(wire'[t])] \notin {"start", "chunk"}
            /\ tab'[t].req[2] = 1 => <<MessageOf(t)', 2>> \notin sent'
            /\ \A u \in Tab \ {t} : Waiting(u)' => MessageOf(u)' # MessageOf(t)'
    BY <2>1
  <2> QED  BY <2>1, <2>2 DEF AheadInv
<1>1. /\ tab'[u] = tab[u] /\ wire'[u] = wire[u]
      /\ MessageOf(u)' = MessageOf(u) /\ MessageOf(u) = tab[u].req[1]
  BY DEF MessageOf
<1>2. \/ Open(tab[u].req)'
      \/ wire'[u] # <<>> /\ wire'[u][Len(wire'[u])] \notin {"start", "chunk"}
  <2>1. sent \subseteq sent'
    OBVIOUS
  <2> QED  BY <1>1, <2>1 DEF AheadInv, Open
<1>3. ASSUME tab[u].req[2] = 1 PROVE <<MessageOf(u), 2>> \notin sent'
  <2>1. <<MessageOf(u), 2>> \notin sent
    BY <1>3 DEF AheadInv
  <2>2. CASE sent' = sent \cup {tab'[t].req} /\ MessageOf(u) # MessageOf(t)'
    <3>1. tab'[t].req[1] # MessageOf(u)
      BY <2>2 DEF MessageOf
    <3>2. <<MessageOf(u), 2>>[1] = MessageOf(u)
      OBVIOUS
    <3>3. <<MessageOf(u), 2>> # tab'[t].req
      BY <3>1, <3>2
    <3> QED  BY <2>1, <2>2, <3>3
  <2> QED  BY <2>1, <2>2
<1>4. ASSUME NEW v \in Tab \ {u}, Waiting(v)' PROVE MessageOf(v)' # MessageOf(u)
  <2>1. CASE v = t
    BY <1>4, <2>1
  <2>2. CASE v # t
    <3>1. Waiting(v) /\ MessageOf(v)' = MessageOf(v)
      BY <1>4, <2>2 DEF Waiting, MessageOf
    <3> QED  BY <1>4, <3>1 DEF AheadInv
  <2> QED  BY <2>1, <2>2
<1> QED  BY <1>1, <1>2, <1>3, <1>4

LEMMA AheadSubmit ==
    ASSUME IInv, AheadInv, NEW t \in Tab, NEW m \in Message, Submit(t, m)
    PROVE  AheadInv'
<1> DEFINE r == <<m, 1>>
<1>1. /\ r \in Attempt /\ r[1] = m /\ r[2] = 1 /\ <<m, 2>> \in Attempt
      /\ <<m, 2>>[1] = m /\ <<m, 2>>[2] = 2
  BY AttemptIsPair
<1>2. /\ tab' = [tab EXCEPT ![t] = [state |-> "waiting", req |-> r, convo |-> storage]]
      /\ sent' = sent \cup {r} /\ verdict[r] = "none" /\ verdict' = verdict /\ wire' = wire
  BY DEF Submit, Send, Service!Address
<1>3. /\ tab'[t].req = r /\ MessageOf(t)' = m
      /\ \A u \in Tab \ {t} : tab'[u] = tab[u]
  BY <1>1, <1>2 DEF IInv, TypeOK, MessageOf
<1>4. r \notin sent /\ <<m, 2>> \notin sent
  <2>1. r \notin sent
    BY DEF Submit, IsNext, Message
  <2> QED  BY <1>1, <2>1 DEF IInv, StoreInv
<1>5. <<m, 2>> \notin sent'
  BY <1>1, <1>2, <1>4
<1>6. ASSUME NEW u \in Tab, Waiting(u) PROVE MessageOf(u) # m
  <2>1. tab[u].req \in sent /\ tab[u].req \in Attempt
    BY <1>6 DEF IInv, TypeOK, TabInv
  <2> QED  BY <1>4, <2>1, AttemptIsPair DEF MessageOf
<1>7. Open(tab[t].req)'
  BY <1>2, <1>3 DEF Open
<1> HIDE DEF r
<1> QED  BY <1>2, <1>3, <1>5, <1>6, <1>7, AheadTab

LEMMA AheadReceive ==
    ASSUME IInv, AheadInv, NEW t \in Tab, Receive(t)
    PROVE  AheadInv'
<1> DEFINE r == tab[t].req
<1>1. PICK event \in Events :
          /\ Arrives(t, event)
          /\ \/ event \in {"start", "chunk"} /\ UNCHANGED <<service, sent, tab>>
             \/ /\ tab' = [tab EXCEPT ![t].state = "ready"]
                /\ UNCHANGED <<service, sent>>
             \/ event = "not_found" /\ Send(t, <<MessageOf(t), 2>>, NoId)
  BY DEF Receive, ReceiveStart, ReceiveChunk, ReceiveEnd, ReceiveCreated, ReceiveError,
         ReceiveNotFoundEvent, ReceiveNotFound, ReceiveBroken, Finish, Events
<1>2. /\ Waiting(t) /\ r \in Attempt /\ r \in sent
      /\ \A u \in Tab \ {t} : wire'[u] = wire[u]
      /\ \A i \in 1 .. Len(wire'[t]) :
             wire'[t][i] = wire[t][i + 1] /\ i + 1 \in 1 .. Len(wire[t])
      /\ Len(wire'[t]) = Len(wire[t]) - 1
      /\ event \notin {"start", "chunk"} =>
             wire'[t] = <<>> /\ Tells(event, verdict[r])
      /\ wire' \in [Tab -> Seq(Events)]
  BY <1>1, Arrival
<1>3. CASE event \in {"start", "chunk"} /\ UNCHANGED <<service, sent, tab>>
  <2>1. ASSUME ~Open(r)
        PROVE  wire'[t] # <<>> /\ wire'[t][Len(wire'[t])] \notin {"start", "chunk"}
    <3> DEFINE n == Len(wire'[t])
    <3>2. /\ wire[t] \in Seq(Events) /\ wire'[t] \in Seq(Events) /\ wire[t] # <<>>
          /\ wire[t][1] \in {"start", "chunk"}
          /\ wire[t][Len(wire[t])] \notin {"start", "chunk"}
      BY <1>1, <1>2, <1>3, <2>1 DEF IInv, TypeOK, AheadInv, Arrives
    <3>3. n \in Nat \ {0} /\ n + 1 = Len(wire[t])
      BY <1>2, <3>2
    <3>4. wire'[t][n] = wire[t][n + 1]
      <4>1. n \in 1 .. n
        BY <3>3
      <4> QED  BY <1>2, <4>1
    <3>5. wire'[t] # <<>>
      BY <3>3
    <3> HIDE DEF n
    <3> QED  BY <3>2, <3>3, <3>4, <3>5 DEF n
  <2>2. sent' = sent \cup {r} /\ verdict' = verdict /\ tab' = tab /\ MessageOf(t)' = MessageOf(t)
    BY <1>2, <1>3 DEF MessageOf
  <2>3. Open(tab[t].req)' = Open(r)
    BY <1>3 DEF Open
  <2>4. r[2] = 1 => <<MessageOf(t), 2>> \notin sent
    BY <1>2 DEF AheadInv
  <2>5. \A u \in Tab \ {t} : Waiting(u) => MessageOf(u) # MessageOf(t)
    BY <1>2 DEF AheadInv
  <2> QED  BY <1>2, <1>3, <2>1, <2>2, <2>3, <2>4, <2>5, AheadTab
<1>4. CASE tab' = [tab EXCEPT ![t].state = "ready"] /\ UNCHANGED <<service, sent>>
  <2>1. ~Waiting(t)' /\ \A u \in Tab \ {t} : tab'[u] = tab[u]
    BY <1>4 DEF IInv, TypeOK, Waiting
  <2> QED  BY <1>2, <1>4, <2>1, AheadTab
<1>5. CASE event = "not_found" /\ Send(t, <<MessageOf(t), 2>>, NoId)
  <2> DEFINE q == <<MessageOf(t), 2>>
  <2>1. q \in Attempt /\ q[1] = MessageOf(t) /\ q[2] = 2
    BY <1>2, AttemptIsPair DEF MessageOf
  <2>2. /\ tab' = [tab EXCEPT ![t] = [state |-> "waiting", req |-> q, convo |-> NoId]]
        /\ sent' = sent \cup {q} /\ verdict[q] = "none" /\ verdict' = verdict
    BY <1>5 DEF Send, Service!Address
  <2>3. /\ tab'[t].req = q /\ MessageOf(t)' = MessageOf(t)
        /\ \A u \in Tab \ {t} : tab'[u] = tab[u]
    BY <2>1, <2>2 DEF IInv, TypeOK, MessageOf
  <2>4. \A u \in Tab \ {t} : Waiting(u) => MessageOf(u) # MessageOf(t)'
    BY <1>2, <2>3 DEF AheadInv
  <2>5. Open(tab[t].req)'
    BY <2>2, <2>3 DEF Open
  <2>6. tab'[t].req[2] # 1 /\ sent' = sent \cup {tab'[t].req}
    BY <2>1, <2>2, <2>3
  <2>7. \A u \in Tab \ {t} : tab'[u] = tab[u] /\ wire'[u] = wire[u]
    BY <1>2, <2>3
  <2>8. verdict' = verdict
    BY <2>2
  <2> QED  BY <2>4, <2>5, <2>6, <2>7, <2>8, AheadTab
<1> QED  BY <1>1, <1>3, <1>4, <1>5

LEMMA AheadKept == IInv /\ AheadInv /\ [Next]_vars => AheadInv'
<1> SUFFICES ASSUME IInv, AheadInv, [Next]_vars PROVE AheadInv'
  OBVIOUS
<1>1. ASSUME NEW t \in Tab, Reload(t) PROVE AheadInv'
  <2>1. /\ ~Waiting(t)' /\ \A u \in Tab \ {t} : tab'[u] = tab[u] /\ wire'[u] = wire[u]
        /\ UNCHANGED <<service, sent>>
    BY <1>1 DEF Reload, IInv, TypeOK, Waiting
  <2> QED  BY <2>1, AheadTab
<1>2. CASE UNCHANGED <<verdict, sent, tab, wire>>
  BY <1>2 DEF AheadInv, Open, Waiting, MessageOf
<1>3. ASSUME NEW c \in Attempt, Expire(c) PROVE AheadInv'
  BY <1>2, <1>3 DEF Expire, Service!Expire
<1>4. CASE UNCHANGED vars
  BY <1>2, <1>4 DEF vars
<1> QED  BY <1>1, <1>3, <1>4, AheadSubmit, AheadReceive, AheadServe DEF Next

\* The safety half of SendEnds: whatever the other tabs send and receive, a tab that
\* waits has an event to receive or a request the API has yet to answer, and the retry
\* its 404 calls for can always be sent.
THEOREM SendsGoOn == Spec => []SendGoesOn
<1>1. Init => AheadInv
  BY DEF Init, AheadInv, Waiting
<1>2. Spec => [](IInv /\ AheadInv)
  BY <1>1, InitIInv, NextIInv, AheadKept, PTL DEF Spec
<1>3. IInv /\ AheadInv => SendGoesOn
  <2> SUFFICES ASSUME IInv, AheadInv, NEW t \in Tab, Waiting(t), wire[t] # <<>>,
                      Head(wire[t]) = "not_found"
               PROVE  /\ <<MessageOf(t), 2>> \in Attempt \ sent
                      /\ exchange[<<MessageOf(t), 2>>] = "none"
                      /\ verdict[<<MessageOf(t), 2>>] = "none"
    BY DEF SendGoesOn, AheadInv
  <2>1. wire[t] \in Seq(Events) /\ tab[t].req \in Attempt
    BY DEF IInv, TypeOK, TabInv
  <2>2. 1 \in 1 .. Len(wire[t]) /\ wire[t][1] = "not_found"
    BY <2>1
  <2>3. verdict[tab[t].req] = "not_found"
    BY <2>2 DEF IInv, WireInv, Tells
  <2>4. tab[t].req[2] # 2
    BY <2>1, <2>3 DEF IInv, StoreInv
  <2>5. <<MessageOf(t), 2>> \in Attempt \ sent
    BY <2>1, <2>4, AttemptIsPair DEF AheadInv, MessageOf
  <2> QED  BY <2>5 DEF IInv, StoreInv, TypeOK, Service!Verdicts
<1> QED  BY <1>2, <1>3, PTL
================================================================================
