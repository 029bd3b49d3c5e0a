------------------------- MODULE ProductIndexProofs -------------------------
(***************************************************************************)
(* Proofs about ProductIndex and SyncJob, for any number of products,      *)
(* calls, jobs and workers: ids are stable, deleted products are not       *)
(* offered, and a job reports no more than was committed.                  *)
(*                                                                         *)
(* Ids are stable because the row lock of a call that inserts keeps out    *)
(* every other call that would write the row (Exclusive).                  *)
(***************************************************************************)
EXTENDS SyncJob, FiniteSetTheorems, TLAPS

Writes(c) == \E k \in DOMAIN Wanted(c) : Changes(c, k)

\* What a call in its handler knows of the row it selected.
HandlerInv == \A c \in Call : pc[c] \in InHandler =>
    /\ body[c] \in Body /\ body[c].topic \in {"upsert", "delete"}
    /\ Deletes(c) => read[c] # Nothing
    /\ read[c] # Nothing => row[Of(c)] # Nothing /\ row[Of(c)].id = read[c].id
    /\ pc[c] # "selected" /\ Inserts(c) => row[Of(c)] = Nothing

\* No two calls hold the same row.
Exclusive == \A c, d \in Call : c # d /\ Locks(c) /\ Locks(d) => Of(c) # Of(d)

DeadInv == \A p \in shopper.dead : ~Live(row[p])

IInv == TypeOK /\ HandlerInv /\ Exclusive /\ DeadInv /\ DeletedIsNotOffered

USE DEF InHandler, calls

LEMMA InitIInv == Init => IInv
<1> SUFFICES ASSUME Init PROVE IInv
  OBVIOUS
<1>1. TypeOK
  BY DEF Init, TypeOK
<1>2. HandlerInv
  BY DEF Init, HandlerInv
<1>3. Exclusive
  BY DEF Init, Exclusive, Locks
<1>4. DeadInv /\ DeletedIsNotOffered
  BY DEF Init, DeadInv, DeletedIsNotOffered
<1> QED  BY <1>1, <1>2, <1>3, <1>4 DEF IInv

\* Whoever inserts writes, and what a call leaves in its session are columns.
LEMMA WantedColumns ==
    ASSUME TypeOK, HandlerInv, NEW c \in Call, pc[c] \in InHandler
    PROVE  /\ Wanted(c) \in Columns
           /\ DOMAIN Wanted(c) = {"text", "stock", "deleted"}
           /\ Inserts(c) => Writes(c)
<1>1. Deletes(c) => read[c] \in Row
  BY DEF TypeOK, HandlerInv
<1>2. ~Deletes(c) => body[c].content \in Content
  BY DEF HandlerInv, Body, Deletes
<1>3. Wanted(c) \in Columns
  BY <1>1, <1>2 DEF Wanted, Row, Content, Columns
<1>4. DOMAIN Wanted(c) = {"text", "stock", "deleted"}
  BY <1>3 DEF Columns
<1> QED  BY <1>3, <1>4 DEF Writes, Changes

\* Steps that change neither the rows nor what the calls have read, and let no call
\* take a lock.
LEMMA NoNewLock ==
    ASSUME IInv, TypeOK', HandlerInv', UNCHANGED row,
           \A c \in Call : Locks(c)' => Locks(c) /\ Of(c)' = Of(c),
           shopper'.dead \subseteq shopper.dead, DeletedIsNotOffered'
    PROVE  IInv'
BY DEF IInv, Exclusive, DeadInv, Live

\* A handler begins, or answers without one.
LEMMA BeginStep ==
    ASSUME IInv, NEW c \in Call, Reject(c) \/ Receive(c) \/ DeleteUnknown(c)
    PROVE  IInv'
<1> USE NothingAssumption
<1>1. PICK b \in Body :
          /\ body' = [body EXCEPT ![c] = b]
          /\ \/ /\ Reject(c)
                /\ pc' = [pc EXCEPT ![c] = "rejected"] /\ UNCHANGED <<read, shopper, unsettled, alone>>
                /\ asked' = [asked EXCEPT ![b.product] = b]
             \/ /\ Select(c, b)
                /\ b.topic = "upsert" \/ row[b.product] # Nothing
                /\ pc' = [pc EXCEPT ![c] = "selected"]
                /\ UNCHANGED asked
             \/ /\ Select(c, b)
                /\ pc' = [pc EXCEPT ![c] = "done"]
                /\ asked' = [asked EXCEPT ![b.product] = b]
  BY DEF Reject, Receive, DeleteUnknown, Select
<1>2. pc[c] = "idle" /\ UNCHANGED <<row, point>>
  BY DEF Reject, Receive, DeleteUnknown, Select
<1>3. b.product \in Product /\ row[b.product] \in Row \cup {Nothing}
  BY DEF IInv, TypeOK, Body
<1>4. \A d \in Call : d # c => pc'[d] = pc[d] /\ body'[d] = body[d] /\ read'[d] = read[d]
  BY <1>1 DEF IInv, TypeOK, Select
<1>5. shopper'.dead = shopper.dead /\ shopper'.offered = shopper.offered
  BY <1>1 DEF IInv, TypeOK, Select
<1>6. TypeOK'
  <2>1. body' \in [Call -> Body \cup {Nothing}] /\ point' \in [Call -> Content \cup {Nothing}]
    BY <1>1, <1>2 DEF IInv, TypeOK
  <2>2. asked' \in [Product -> Body \cup {Nothing}]
    BY <1>1, <1>3 DEF IInv, TypeOK
  <2>3. read' \in [Call -> Row \cup {Nothing}] /\ pc' \in [Call -> InHandler \cup {"idle", "done", "rejected", "failed"}]
    BY <1>1, <1>3 DEF IInv, TypeOK, Select
  <2>4. alone' \subseteq Call /\ unsettled' \subseteq Product
    BY <1>1, <1>3 DEF IInv, TypeOK, Select
  <2>5. shopper' \in [searching : BOOLEAN, hits : SUBSET Call, offered : SUBSET Product,
                      dead : SUBSET Product, soldOut : SUBSET Product]
    BY <1>1 DEF IInv, TypeOK, Select
  <2>6. row' \in [Product -> Row \cup {Nothing}]
    BY <1>2 DEF IInv, TypeOK
  <2> QED  BY <2>1, <2>2, <2>3, <2>4, <2>5, <2>6 DEF TypeOK
<1>7. HandlerInv'
  <2>1. ASSUME NEW d \in Call, d # c, pc'[d] \in InHandler
        PROVE  /\ body'[d] \in Body /\ body'[d].topic \in {"upsert", "delete"}
               /\ Deletes(d)' => read'[d] # Nothing
               /\ read'[d] # Nothing => row'[Of(d)'] # Nothing /\ row'[Of(d)'].id = read'[d].id
               /\ pc'[d] # "selected" /\ Inserts(d)' => row'[Of(d)'] = Nothing
    BY <1>2, <1>4, <2>1 DEF IInv, HandlerInv, Deletes, Of, Inserts
  <2>2. ASSUME pc'[c] \in InHandler
        PROVE  /\ body'[c] \in Body /\ body'[c].topic \in {"upsert", "delete"}
               /\ Deletes(c)' => read'[c] # Nothing
               /\ read'[c] # Nothing => row'[Of(c)'] # Nothing /\ row'[Of(c)'].id = read'[c].id
               /\ pc'[c] = "selected"
    <3>1. Select(c, b) /\ pc'[c] = "selected" /\ (b.topic = "upsert" \/ row[b.product] # Nothing)
      BY <1>1, <2>2 DEF IInv, TypeOK
    <3>2. body'[c] = b /\ read'[c] = row[b.product]
      BY <1>1, <3>1 DEF IInv, TypeOK, Select
    <3>3. b.topic \in {"upsert", "delete"}
      BY <3>1 DEF Select, Body
    <3> QED  BY <1>2, <3>1, <3>2, <3>3 DEF Deletes, Of
  <2> QED  BY <2>1, <2>2 DEF HandlerInv
<1>8. \A d \in Call : Locks(d)' => Locks(d) /\ Of(d)' = Of(d)
  <2>1. ~Locks(c)'
    BY <1>1 DEF IInv, TypeOK, Locks
  <2>2. \A d \in Call : d # c => (Locks(d)' = Locks(d)) /\ Of(d)' = Of(d)
    BY <1>4 DEF Locks, Of, Wanted, Changes, Deletes, Inserts
  <2> QED  BY <2>1, <2>2
<1> QED  BY <1>2, <1>5, <1>6, <1>7, <1>8, NoNewLock DEF IInv, DeletedIsNotOffered

\* A call fails, or writes to Qdrant: it keeps at most the lock it has.
LEMMA GoOnStep ==
    ASSUME IInv, NEW c \in Call, UniqueViolation(c) \/ Index(c) \/ Abort(c)
    PROVE  IInv'
<1>1. /\ pc[c] \in InHandler
      /\ UNCHANGED <<row, body, read, shopper, alone, asked>>
      /\ \/ pc' = [pc EXCEPT ![c] = "failed"]
         \/ pc[c] = "flushed" /\ pc' = [pc EXCEPT ![c] = "indexed"]
  BY DEF UniqueViolation, Index, Abort
<1>2. TypeOK'
  <2>1. IdOf(c) \in Call
    BY <1>1 DEF IInv, TypeOK, IdOf, Inserts, Row
  <2>2. body[c].content \in Content \cup {Nothing} /\ Of(c) \in Product
    BY <1>1 DEF IInv, HandlerInv, Body, Of
  <2>3. point' \in [Call -> Content \cup {Nothing}] /\ unsettled' \subseteq Product
    BY <2>1, <2>2 DEF IInv, TypeOK, UniqueViolation, Index, PutPoint, Abort
  <2> QED  BY <1>1, <2>3 DEF IInv, TypeOK
<1>3. HandlerInv'
  BY <1>1 DEF IInv, TypeOK, HandlerInv, Deletes, Of, Inserts
<1>4. \A d \in Call : Locks(d)' => Locks(d) /\ Of(d)' = Of(d)
  BY <1>1 DEF IInv, TypeOK, Locks, Of, Wanted, Changes, Deletes, Inserts
<1> QED  BY <1>1, <1>2, <1>3, <1>4, NoNewLock DEF IInv, DeletedIsNotOffered

\* A call takes the lock if it writes, and then nobody else holds it.
LEMMA FlushStep ==
    ASSUME IInv, NEW c \in Call, Flush(c)
    PROVE  IInv'
<1>1. /\ pc[c] = "selected" /\ pc' = [pc EXCEPT ![c] = "flushed"]
      /\ UNCHANGED <<row, point, body, read, alone, asked, unsettled, shopper>>
      /\ Inserts(c) => row[Of(c)] = Nothing
      /\ Writes(c) => \A d \in InFlight(Of(c)) : ~Locks(d)
  BY DEF Flush, MayFlush, Writes
<1>2. TypeOK'
  BY <1>1 DEF IInv, TypeOK
<1>3. HandlerInv'
  BY <1>1 DEF IInv, TypeOK, HandlerInv, Deletes, Of, Inserts
<1>4. \A d \in Call : d # c => (Locks(d)' <=> Locks(d))
  BY <1>1 DEF IInv, TypeOK, Locks, Wanted, Changes, Deletes, Inserts
<1>5. Locks(c)' => Writes(c)
  BY <1>1 DEF Locks, Writes, Wanted, Changes, Deletes, Inserts
<1>6. \A d \in Call : Of(d)' = Of(d)
  BY <1>1 DEF Of
<1>7. \A d \in Call : Locks(d) => d \in InFlight(Of(d))
  BY DEF Locks, InFlight, Of
<1>8. Exclusive'
  <2>1. ASSUME NEW d \in Call, d # c, Locks(c)', Locks(d)' PROVE Of(c)' # Of(d)'
    BY <1>1, <1>4, <1>5, <1>6, <1>7, <2>1
  <2>2. ASSUME NEW d \in Call, NEW e \in Call, d # c, e # c, d # e, Locks(d)', Locks(e)'
        PROVE  Of(d)' # Of(e)'
    BY <1>4, <1>6, <2>2 DEF IInv, Exclusive
  <2> QED  BY <2>1, <2>2 DEF Exclusive
<1> QED  BY <1>1, <1>2, <1>3, <1>8 DEF IInv, DeadInv, Live, DeletedIsNotOffered

\* The committed row keeps the id of the row it replaces, and nobody else is about
\* to insert it.
LEMMA CommitStep ==
    ASSUME IInv, NEW c \in Call, Commit(c)
    PROVE  /\ IInv'
           /\ row[Of(c)] # Nothing => row'[Of(c)].id = row[Of(c)].id
           /\ row'[Of(c)] # Nothing
           /\ \A p \in Product \ {Of(c)} : row'[p] = row[p]
<1> USE NothingAssumption
<1>1. /\ pc[c] = "indexed" /\ pc' = [pc EXCEPT ![c] = "done"]
      /\ asked' = [asked EXCEPT ![Of(c)] = body[c]]
      /\ unsettled' \subseteq unsettled
      /\ shopper' = [shopper EXCEPT !.dead = {p \in @ : ~Live(row'[p])}]
      /\ UNCHANGED <<point, body, read, alone>>
  BY DEF Commit
<1> DEFINE p == Of(c)
           new == [id |-> IdOf(c),
                   cols |-> [k \in DOMAIN Wanted(c) |->
                                IF Changes(c, k) THEN Wanted(c)[k] ELSE row[p].cols[k]]]
<1>2. /\ p \in Product /\ body[c] \in Body /\ row[p] \in Row \cup {Nothing}
      /\ read[c] # Nothing => row[p] # Nothing /\ row[p].id = read[c].id
      /\ Inserts(c) => row[p] = Nothing
  BY <1>1 DEF IInv, TypeOK, HandlerInv, Body, Of
<1>3. row' = [row EXCEPT ![p] = new]
  BY <1>2 DEF Commit, IInv, TypeOK
<1>4. row'[p] = new /\ \A q \in Product \ {p} : row'[q] = row[q]
  BY <1>2, <1>3 DEF IInv, TypeOK
<1>5. Wanted(c) \in Columns /\ DOMAIN Wanted(c) = {"text", "stock", "deleted"}
  BY <1>1, WantedColumns DEF IInv
<1>6. new \in Row
  <2>1. IdOf(c) \in Call
    BY DEF IInv, TypeOK, IdOf, Inserts, Row
  <2>2. CASE Inserts(c)
    BY <1>5, <2>1, <2>2 DEF Changes, Row, Columns
  <2>3. CASE ~Inserts(c)
    <3>1. row[p].cols \in Columns
      BY <1>2, <2>3 DEF Inserts, Row
    <3> QED  BY <1>5, <2>1, <3>1 DEF Row, Columns
  <2> QED  BY <2>2, <2>3
<1>7. new # Nothing
  BY <1>6
<1>8. row[p] # Nothing => new.id = row[p].id
  BY <1>2 DEF IdOf, Inserts
<1>9. TypeOK'
  <2>1. shopper' \in [searching : BOOLEAN, hits : SUBSET Call, offered : SUBSET Product,
                      dead : SUBSET Product, soldOut : SUBSET Product]
    BY <1>1 DEF IInv, TypeOK
  <2> QED  BY <1>1, <1>2, <1>3, <1>6, <2>1 DEF IInv, TypeOK
<1>10. ASSUME NEW d \in Call, d # c
       PROVE  pc'[d] = pc[d] /\ Of(d)' = Of(d) /\ (Locks(d)' <=> Locks(d))
  BY <1>1, <1>10 DEF IInv, TypeOK, Of, Locks, Wanted, Changes, Deletes, Inserts
<1>11. pc'[c] = "done" /\ ~Locks(c)'
  BY <1>1 DEF IInv, TypeOK, Locks
<1>12. HandlerInv'
  <2>1. SUFFICES ASSUME NEW d \in Call, d # c, pc[d] \in InHandler
                 PROVE  /\ body[d] \in Body /\ body[d].topic \in {"upsert", "delete"}
                        /\ Deletes(d) => read[d] # Nothing
                        /\ read[d] # Nothing => row'[Of(d)] # Nothing /\ row'[Of(d)].id = read[d].id
                        /\ pc[d] # "selected" /\ Inserts(d) => row'[Of(d)] = Nothing
    BY <1>1, <1>10, <1>11 DEF HandlerInv, Of, Deletes, Inserts
  <2>2. /\ body[d] \in Body /\ body[d].topic \in {"upsert", "delete"}
        /\ Deletes(d) => read[d] # Nothing
        /\ read[d] # Nothing => row[Of(d)] # Nothing /\ row[Of(d)].id = read[d].id
        /\ pc[d] # "selected" /\ Inserts(d) => row[Of(d)] = Nothing
    BY <2>1 DEF IInv, HandlerInv
  <2>3. Of(d) \in Product
    BY <2>2 DEF Of, Body
  <2>4. CASE Of(d) # p
    BY <1>4, <2>2, <2>3, <2>4
  <2>5. CASE Of(d) = p /\ ~(pc[d] # "selected" /\ Inserts(d))
    BY <1>4, <1>7, <1>8, <2>2, <2>5
  <2>6. CASE Of(d) = p /\ pc[d] # "selected" /\ Inserts(d)
    <3>1. Locks(d)
      BY <2>1, <2>6, WantedColumns DEF IInv, Locks, Writes
    <3>2. ~Locks(c)
      BY <2>1, <2>6, <3>1 DEF IInv, Exclusive
    <3>3. ~Inserts(c)
      BY <1>1, <3>2, WantedColumns DEF IInv, Locks, Writes
    <3> QED  BY <1>2, <2>2, <2>6, <3>3 DEF Inserts
  <2> QED  BY <2>4, <2>5, <2>6
<1>13. Exclusive'
  BY <1>10, <1>11 DEF IInv, Exclusive
<1>14. DeadInv' /\ DeletedIsNotOffered'
  BY <1>1 DEF IInv, TypeOK, DeadInv, DeletedIsNotOffered
<1> QED  BY <1>4, <1>7, <1>8, <1>9, <1>12, <1>13, <1>14 DEF IInv

\* A step that changes neither rows nor handlers.
LEMMA Still ==
    ASSUME HandlerInv, Exclusive, UNCHANGED <<row, pc, body, read>>
    PROVE  HandlerInv' /\ Exclusive'
<1>1. \A c \in Call : (Locks(c)' <=> Locks(c)) /\ Of(c)' = Of(c)
  BY DEF Locks, Of, Wanted, Changes, Deletes, Inserts
<1>2. HandlerInv'
  BY DEF HandlerInv, Of, Deletes, Inserts
<1> QED  BY <1>1, <1>2 DEF Exclusive

\* The retrieval.
LEMMA ShopperStep ==
    ASSUME IInv, Search \/ Refetch
    PROVE  IInv'
<1>1. UNCHANGED <<row, point, pc, body, read, alone, asked, unsettled>>
  BY DEF Search, Refetch
<1>2. CASE Search
  <2>1. PICK hits \in SUBSET InStock :
            shopper' = [searching |-> TRUE, hits |-> hits, offered |-> {},
                        dead |-> {p \in Product : ~Live(row[p])},
                        soldOut |-> {p \in Product \ unsettled :
                                        /\ InFlight(p) = {}
                                        /\ row[p] # Nothing
                                        /\ row[p].cols.stock = "outofstock"}]
    BY <1>2 DEF Search
  <2>2. TypeOK'
    BY <1>1, <2>1 DEF IInv, TypeOK, InStock
  <2>3. DeadInv' /\ DeletedIsNotOffered'
    BY <1>1, <2>1 DEF DeadInv, DeletedIsNotOffered, Live
  <2> QED  BY <1>1, <2>2, <2>3, Still DEF IInv
<1>3. CASE Refetch
  <2>1. shopper' = [shopper EXCEPT !.searching = FALSE, !.hits = {},
            !.offered = {p \in Product : Live(row[p]) /\ row[p].id \in shopper.hits}]
    BY <1>3 DEF Refetch
  <2>2. TypeOK'
    BY <1>1, <2>1 DEF IInv, TypeOK
  <2>3. DeadInv' /\ DeletedIsNotOffered'
    BY <1>1, <2>1 DEF IInv, TypeOK, DeadInv, DeletedIsNotOffered, Live
  <2> QED  BY <1>1, <2>2, <2>3, Still DEF IInv
<1> QED  BY <1>2, <1>3

LEMMA NextIInv == IInv /\ [Next]_vars => IInv'
<1> SUFFICES ASSUME IInv, [Next]_vars PROVE IInv'
  OBVIOUS
<1>1. CASE UNCHANGED vars
  BY <1>1, Still DEF IInv, TypeOK, DeadInv, DeletedIsNotOffered, vars, Live
<1>2. CASE Next
  BY <1>2, BeginStep, GoOnStep, FlushStep, CommitStep, ShopperStep DEF Next, Step
<1> QED  BY <1>1, <1>2

LEMMA Invariance == Spec => []IInv
BY InitIInv, NextIInv, PTL DEF Spec

\* The variables keep their types.
THEOREM TypeCorrect == Spec => []TypeOK
<1>1. IInv => TypeOK
  BY DEF IInv
<1> QED  BY <1>1, Invariance, PTL

\* No product is offered that was deleted when the customer asked and has not come
\* back since, however far Postgres and Qdrant are apart.
THEOREM DeletedNotOffered == Spec => []DeletedIsNotOffered
<1>1. IInv => DeletedIsNotOffered
  BY DEF IInv
<1> QED  BY <1>1, Invariance, PTL

\* A product keeps its id for good, whoever inserts it at the same time.
THEOREM IdStable == Spec => IdIsStable
<1>1. IInv /\ [Next]_vars =>
          [\A p \in Product : row[p] # Nothing =>
               row'[p] # Nothing /\ row'[p].id = row[p].id]_vars
  <2> SUFFICES ASSUME IInv, Next
               PROVE  \A p \in Product : row[p] # Nothing =>
                          row'[p] # Nothing /\ row'[p].id = row[p].id
    OBVIOUS
  <2>1. ASSUME NEW c \in Call, Commit(c)
        PROVE  \A p \in Product : row[p] # Nothing =>
                   row'[p] # Nothing /\ row'[p].id = row[p].id
    BY <2>1, CommitStep
  <2>2. CASE row' = row
    BY <2>2
  <2>3. (\E c \in Call : Commit(c)) \/ row' = row
    BY DEF Next, Step, Reject, Receive, DeleteUnknown, Select, Flush, UniqueViolation, Index,
       Abort, Search, Refetch
  <2> QED  BY <2>1, <2>2, <2>3
<1> QED  BY <1>1, Invariance, PTL DEF Spec, IdIsStable

(***************************************************************************)
(* The two stores: Postgres and Qdrant agree unless calls for a product    *)
(* overlapped or failed after Qdrant, because a call that is alone commits *)
(* over the row it has read (AloneInv), and no other product's call writes *)
(* the product's point (IdInv).                                            *)
(***************************************************************************)
IdInv == \A p \in Product : row[p] # Nothing =>
    pc[row[p].id] # "idle" /\ body[row[p].id].product = p

AloneInv == \A c \in Call :
    /\ pc[c] = "idle" => c \notin alone
    /\ pc[c] \in InHandler /\ c \in alone =>
           /\ row[Of(c)] = read[c]
           /\ \A d \in Call : pc[d] \in InHandler /\ Of(d) = Of(c) => d = c
           /\ pc[c] = "indexed" => point[IdOf(c)] = body[c].content
    /\ pc[c] \in InHandler /\ c \notin alone => Of(c) \in unsettled

\* No call has left its point in Qdrant without its commit.
Clean(p) == p \notin unsettled /\ \A c \in Call : pc[c] = "indexed" => Of(c) # p

Agree(p) ==
    /\ row[p] # Nothing => point[row[p].id] =
           IF row[p].cols.deleted THEN Nothing
           ELSE [text |-> row[p].cols.text, stock |-> row[p].cols.stock]
    /\ asked[p] # Nothing /\ asked[p].topic = "upsert" =>
           Live(row[p]) /\ asked[p].content = [text |-> row[p].cols.text,
                                               stock |-> row[p].cols.stock]
    /\ asked[p] # Nothing /\ asked[p].topic = "delete" => ~Live(row[p])

AgreeInv == \A p \in Product : Clean(p) => Agree(p)

SoldInv == \A p \in shopper.soldOut :
    /\ row[p] # Nothing /\ row[p].id \notin shopper.hits /\ p \notin shopper.offered
    /\ \A c \in Call : pc[c] \in InHandler => Of(c) # p

StoresInv == IInv /\ IdInv /\ AloneInv /\ AgreeInv /\ SoldInv

LEMMA InitStores == Init => StoresInv
<1> SUFFICES ASSUME Init PROVE StoresInv
  OBVIOUS
<1>1. IInv
  BY InitIInv
<1>2. IdInv /\ AloneInv /\ AgreeInv /\ SoldInv
  BY DEF Init, IdInv, AloneInv, AgreeInv, Agree, SoldInv
<1> QED  BY <1>1, <1>2 DEF StoresInv

LEMMA AgreeKept ==
    ASSUME AgreeInv, NEW p \in Product, Clean(p), row'[p] = row[p],
           row[p] # Nothing => point'[row[p].id] = point[row[p].id],
           asked'[p] = asked[p] \/ asked'[p].topic = "delete_nameless"
    PROVE  Agree(p)'
BY DEF AgreeInv, Agree, Live

\* A call that writes is known by its product: its id is the row's or a new one.
LEMMA IdOfProduct ==
    ASSUME StoresInv, NEW c \in Call, pc[c] \in InHandler
    PROVE  /\ IdOf(c) \in Call /\ Of(c) \in Product
           /\ \A p \in Product : row[p] # Nothing /\ row[p].id = IdOf(c) => p = Of(c)
           /\ \A d \in Call : pc[d] \in InHandler /\ IdOf(d) = IdOf(c) => Of(d) = Of(c)
<1>1. \A d \in Call : pc[d] \in InHandler =>
          Of(d) \in Product /\ IdOf(d) \in Call /\ body[IdOf(d)].product = Of(d)
  <2> SUFFICES ASSUME NEW d \in Call, pc[d] \in InHandler
               PROVE  Of(d) \in Product /\ IdOf(d) \in Call /\ body[IdOf(d)].product = Of(d)
    OBVIOUS
  <2>1. Of(d) \in Product /\ IdOf(d) \in Call
    BY DEF StoresInv, IInv, TypeOK, HandlerInv, Body, Of, IdOf, Inserts, Row
  <2>2. ~Inserts(d) => row[Of(d)] # Nothing /\ row[Of(d)].id = read[d].id
    BY DEF StoresInv, IInv, HandlerInv, Inserts
  <2> QED  BY <2>1, <2>2 DEF StoresInv, IdInv, IdOf, Of
<1> QED  BY <1>1 DEF StoresInv, IdInv

\* A call goes on, or fails, without touching a store.
LEMMA StoresOn ==
    ASSUME StoresInv, IInv', NEW c \in Call, pc[c] \in InHandler,
           NEW to \in {"flushed", "failed"}, pc' = [pc EXCEPT ![c] = to],
           unsettled' = unsettled \cup {p \in {Of(c)} : pc[c] = "indexed"},
           pc[c] = "indexed" => to = "failed",
           UNCHANGED <<row, point, body, read, alone, asked, shopper>>
    PROVE  StoresInv'
<1>1. /\ \A d \in Call : Of(d)' = Of(d) /\ IdOf(d)' = IdOf(d)
      /\ \A d \in Call : pc'[d] \in InHandler => pc[d] \in InHandler
      /\ \A d \in Call : pc'[d] = "indexed" => pc[d] = "indexed"
      /\ \A d \in Call : pc[d] # "idle" => pc'[d] # "idle"
  BY DEF StoresInv, IInv, TypeOK, Of, IdOf, Inserts
<1>2. IdInv'
  BY <1>1 DEF StoresInv, IInv, TypeOK, IdInv, Row
<1>3. AloneInv'
  BY <1>1 DEF StoresInv, AloneInv
<1>4. \A p \in Product : Clean(p)' => Clean(p)
  BY <1>1 DEF StoresInv, IInv, TypeOK, Clean
<1>5. AgreeInv'
  BY <1>4, AgreeKept DEF StoresInv, AgreeInv
<1>6. SoldInv'
  BY <1>1 DEF StoresInv, SoldInv
<1> QED  BY <1>2, <1>3, <1>5, <1>6 DEF StoresInv

LEMMA StoresIndex ==
    ASSUME StoresInv, IInv', NEW c \in Call, Index(c)
    PROVE  StoresInv'
<1>1. /\ pc[c] = "flushed" /\ pc' = [pc EXCEPT ![c] = "indexed"]
      /\ point' = [point EXCEPT ![IdOf(c)] = body[c].content]
      /\ UNCHANGED <<row, body, read, alone, asked, unsettled, shopper>>
  BY DEF Index, PutPoint
<1>2. /\ \A d \in Call : Of(d)' = Of(d) /\ IdOf(d)' = IdOf(d)
      /\ \A d \in Call : pc'[d] \in InHandler => pc[d] \in InHandler
      /\ \A d \in Call : pc[d] # "idle" => pc'[d] # "idle"
      /\ \A d \in Call : d # c => pc'[d] = pc[d]
      /\ pc'[c] = "indexed"
  BY <1>1 DEF StoresInv, IInv, TypeOK, Of, IdOf, Inserts
<1>3. /\ point'[IdOf(c)] = body[c].content
      /\ \A id \in Call : id # IdOf(c) => point'[id] = point[id]
  BY <1>1, IdOfProduct DEF StoresInv, IInv, TypeOK
<1>4. IdInv'
  BY <1>1, <1>2 DEF StoresInv, IInv, TypeOK, IdInv, Row
<1>5. AloneInv'
  <2>1. ASSUME NEW d \in Call, pc'[d] \in InHandler, d \in alone, pc'[d] = "indexed"
        PROVE  point'[IdOf(d)] = body[d].content
    <3>1. CASE d = c
      BY <1>3, <3>1
    <3>2. CASE d # c
      <4>1. Of(d) # Of(c)
        BY <1>1, <1>2, <2>1, <3>2 DEF StoresInv, AloneInv
      <4>2. IdOf(d) # IdOf(c) /\ IdOf(d) \in Call
        BY <1>1, <1>2, <2>1, <4>1, IdOfProduct
      <4> QED  BY <1>2, <1>3, <2>1, <3>2, <4>2 DEF StoresInv, AloneInv
    <3> QED  BY <3>1, <3>2
  <2> QED  BY <1>1, <1>2, <2>1 DEF StoresInv, AloneInv
<1>6. AgreeInv'
  <2>1. ASSUME NEW p \in Product, Clean(p)' PROVE Agree(p)'
    <3>1. p # Of(c) /\ Clean(p)
      BY <1>1, <1>2, <2>1 DEF Clean
    <3>2. row[p] # Nothing => point'[row[p].id] = point[row[p].id]
      BY <1>1, <1>3, <3>1, IdOfProduct DEF StoresInv, IInv, TypeOK, Row
    <3> QED  BY <1>1, <3>1, <3>2, AgreeKept DEF StoresInv
  <2> QED  BY <2>1 DEF AgreeInv
<1>7. SoldInv'
  BY <1>1, <1>2 DEF StoresInv, SoldInv
<1> QED  BY <1>4, <1>5, <1>6, <1>7 DEF StoresInv

\* The call that is answered at once, or begins: beside it no product is settled
\* that was not.
LEMMA StoresBegin ==
    ASSUME StoresInv, IInv', NEW c \in Call, Reject(c) \/ Receive(c) \/ DeleteUnknown(c)
    PROVE  StoresInv'
<1>1. PICK b \in Body :
          /\ body' = [body EXCEPT ![c] = b]
          /\ \/ /\ b.topic = "delete_nameless" /\ pc' = [pc EXCEPT ![c] = "rejected"]
                /\ asked' = [asked EXCEPT ![b.product] = b]
                /\ UNCHANGED <<read, alone, unsettled, shopper>>
             \/ /\ Select(c, b) /\ pc' = [pc EXCEPT ![c] = "selected"] /\ asked' = asked
             \/ /\ Select(c, b) /\ pc' = [pc EXCEPT ![c] = "done"]
                /\ row[b.product] = Nothing /\ b.topic = "delete"
                /\ asked' = [asked EXCEPT ![b.product] = b]
  BY DEF Reject, Receive, DeleteUnknown, Select
<1>2. pc[c] = "idle" /\ UNCHANGED <<row, point>> /\ b.product \in Product
  BY DEF Reject, Receive, DeleteUnknown, Select, Body
<1>3. /\ \A d \in Call : d # c => /\ pc'[d] = pc[d] /\ body'[d] = body[d]
                                  /\ read'[d] = read[d] /\ Of(d)' = Of(d)
                                  /\ IdOf(d)' = IdOf(d)
      /\ Of(c)' = b.product /\ pc'[c] \in {"rejected", "selected", "done"}
  BY <1>1, <1>2 DEF StoresInv, IInv, TypeOK, Select, Of, IdOf, Inserts
<1>4. unsettled \subseteq unsettled' /\ shopper'.soldOut \subseteq shopper.soldOut
      /\ shopper'.hits = shopper.hits /\ shopper'.offered = shopper.offered
  BY <1>1 DEF Select, StoresInv, IInv, TypeOK
<1>5. IdInv'
  <2>1. \A p \in Product : row[p] # Nothing => row[p].id \in Call /\ row[p].id # c
    BY <1>2 DEF StoresInv, IInv, TypeOK, IdInv, Row
  <2> QED  BY <1>2, <1>3, <2>1 DEF StoresInv, IdInv
<1>6. ASSUME NEW d \in Call, d # c, pc[d] \in InHandler, d \in alone'
      PROVE  d \in alone /\ (pc'[c] = "selected" => Of(d) # b.product)
  <2>1. CASE alone' = alone /\ pc'[c] # "selected"
    BY <1>6, <2>1
  <2>2. CASE Select(c, b)
    <3>1. d \in alone /\ d \notin InFlight(b.product)
      BY <1>6, <2>2 DEF Select
    <3> QED  BY <1>6, <3>1 DEF InFlight, Of
  <2> QED  BY <1>1, <2>1, <2>2 DEF StoresInv, IInv, TypeOK
<1>7. ASSUME NEW d \in Call, d # c, pc[d] \in InHandler, d \notin alone'
      PROVE  Of(d) \in unsettled'
  <2>1. d \notin alone => Of(d) \in unsettled'
    BY <1>4, <1>7 DEF StoresInv, AloneInv
  <2>2. d \in alone => Select(c, b) /\ d \in InFlight(b.product)
    BY <1>1, <1>7 DEF Select
  <2>3. Select(c, b) /\ d \in InFlight(b.product) => Of(d) \in unsettled'
    BY DEF Select, InFlight, Of
  <2> QED  BY <2>1, <2>2, <2>3
<1>8. ASSUME pc'[c] = "selected"
      PROVE  /\ read'[c] = row[b.product]
             /\ c \in alone' => \A d \in Call : pc[d] \in InHandler => Of(d) # b.product
             /\ c \notin alone' => b.product \in unsettled'
  <2>1. Select(c, b) /\ c \notin InFlight(b.product)
    BY <1>1, <1>2, <1>8 DEF StoresInv, IInv, TypeOK, InFlight
  <2>2. read'[c] = row[b.product]
    BY <2>1 DEF Select, StoresInv, IInv, TypeOK
  <2>3. InFlight(b.product) = {} => c \in alone'
    BY <2>1 DEF Select
  <2>4. InFlight(b.product) # {} => b.product \in unsettled'
    BY <2>1 DEF Select
  <2>5. c \in alone' /\ c \notin alone => InFlight(b.product) = {}
    BY <2>1 DEF Select
  <2>6. c \notin alone
    BY <1>2 DEF StoresInv, AloneInv
  <2> QED  BY <2>2, <2>3, <2>4, <2>5, <2>6 DEF InFlight, Of
<1>9. AloneInv'
  <2>1. ASSUME NEW d \in Call, pc'[d] \in InHandler, d \in alone'
        PROVE  /\ row[Of(d)'] = read'[d]
               /\ \A e \in Call : pc'[e] \in InHandler /\ Of(e)' = Of(d)' => e = d
               /\ pc'[d] = "indexed" => point[IdOf(d)'] = body'[d].content
    <3>1. CASE d = c
      BY <1>3, <1>8, <2>1, <3>1
    <3>2. CASE d # c
      BY <1>3, <1>6, <2>1, <3>2 DEF StoresInv, AloneInv
    <3> QED  BY <3>1, <3>2
  <2>2. ASSUME NEW d \in Call, pc'[d] \in InHandler, d \notin alone' PROVE Of(d)' \in unsettled'
    BY <1>3, <1>7, <1>8, <2>2
  <2>3. ASSUME NEW d \in Call, pc'[d] = "idle" PROVE d \notin alone'
    <3>1. d # c /\ d \notin alone
      BY <1>3, <2>3 DEF StoresInv, AloneInv
    <3> QED  BY <1>1, <3>1 DEF Select
  <2> QED  BY <1>2, <2>1, <2>2, <2>3 DEF AloneInv
<1>10. AgreeInv'
  <2>1. ASSUME NEW p \in Product, Clean(p)' PROVE Agree(p)'
    <3>1. Clean(p)
      BY <1>2, <1>3, <1>4, <2>1 DEF Clean
    <3>2. CASE asked'[p] = asked[p] \/ asked'[p].topic = "delete_nameless"
      BY <1>2, <3>1, <3>2, AgreeKept DEF StoresInv
    <3>3. CASE row[p] = Nothing /\ asked'[p] = b /\ b.topic = "delete"
      BY <1>2, <3>3 DEF Agree, Live
    <3> QED  BY <1>1, <3>2, <3>3 DEF StoresInv, IInv, TypeOK
  <2> QED  BY <2>1 DEF AgreeInv
<1>11. SoldInv'
  <2>1. b.product \notin shopper'.soldOut \/ pc'[c] \notin InHandler
    BY <1>1, <1>2, <1>3 DEF Select, StoresInv, IInv, TypeOK
  <2> QED  BY <1>2, <1>3, <1>4, <2>1 DEF StoresInv, SoldInv
<1> QED  BY <1>5, <1>9, <1>10, <1>11 DEF StoresInv

\* A call that was alone leaves the stores in agreement; one that was not leaves the
\* product in doubt.
LEMMA StoresCommit ==
    ASSUME StoresInv, IInv', NEW c \in Call, Commit(c)
    PROVE  StoresInv'
<1> USE NothingAssumption
<1> DEFINE p == Of(c)
<1>1. /\ pc[c] = "indexed" /\ pc' = [pc EXCEPT ![c] = "done"]
      /\ asked' = [asked EXCEPT ![p] = body[c]]
      /\ unsettled' = unsettled \ {q \in {p} : c \in alone}
      /\ shopper' = [shopper EXCEPT !.dead = {q \in @ : ~Live(row'[q])}]
      /\ UNCHANGED <<point, body, read, alone>>
  BY DEF Commit
<1>2. /\ body[c] \in Body /\ body[c].topic \in {"upsert", "delete"} /\ p \in Product
      /\ Deletes(c) => read[c] # Nothing
      /\ read[c] # Nothing => row[p] # Nothing /\ row[p].id = read[c].id
      /\ Inserts(c) => row[p] = Nothing
      /\ IdOf(c) \in Call /\ row[p] \in Row \cup {Nothing}
  BY <1>1, IdOfProduct DEF StoresInv, IInv, TypeOK, HandlerInv
<1>3. /\ \A q \in Product : q # p => row'[q] = row[q]
      /\ row'[p] # Nothing /\ row'[p] \in Row
      /\ row'[p].id = IdOf(c)
      /\ row'[p].cols = [k \in DOMAIN Wanted(c) |->
                            IF Changes(c, k) THEN Wanted(c)[k] ELSE row[p].cols[k]]
  <2>1. row'[p] # Nothing /\ \A q \in Product : q # p => row'[q] = row[q]
    BY <1>2, CommitStep DEF StoresInv
  <2>2. row' \in [Product -> Row \cup {Nothing}]
    BY DEF IInv, TypeOK
  <2>3. row'[p] = [id |-> IdOf(c),
                   cols |-> [k \in DOMAIN Wanted(c) |->
                                IF Changes(c, k) THEN Wanted(c)[k] ELSE row[p].cols[k]]]
    BY <1>2 DEF Commit, StoresInv, IInv, TypeOK
  <2> QED  BY <1>2, <2>1, <2>2, <2>3
<1>4. /\ \A d \in Call : Of(d)' = Of(d) /\ IdOf(d)' = IdOf(d)
      /\ \A d \in Call : d # c => pc'[d] = pc[d]
      /\ pc'[c] = "done"
  BY <1>1 DEF StoresInv, IInv, TypeOK, Of, IdOf, Inserts
<1>5. IdInv'
  <2>1. body[IdOf(c)].product = p /\ pc[IdOf(c)] # "idle"
    BY <1>1, <1>2 DEF StoresInv, IdInv, IdOf, Inserts, Of
  <2>2. ASSUME NEW q \in Product, row'[q] # Nothing
        PROVE  row'[q].id \in Call /\ pc[row'[q].id] # "idle" /\ body[row'[q].id].product = q
    <3>1. CASE q = p
      BY <1>2, <1>3, <2>1, <3>1
    <3>2. CASE q # p
      BY <1>3, <2>2, <3>2 DEF StoresInv, IInv, TypeOK, IdInv, Row
    <3> QED  BY <3>1, <3>2
  <2> QED  BY <1>1, <1>4, <2>2 DEF IdInv
<1>6. ASSUME NEW d \in Call, d # c, pc[d] \in InHandler, d \in alone \/ Of(d) \notin unsettled'
      PROVE  Of(d) # p
  BY <1>1, <1>6 DEF StoresInv, AloneInv
<1>7. AloneInv'
  <2>1. ASSUME NEW d \in Call, pc'[d] \in InHandler, d \in alone
        PROVE  /\ row'[Of(d)] = read[d]
               /\ \A e \in Call : pc'[e] \in InHandler /\ Of(e) = Of(d) => e = d
               /\ pc'[d] = "indexed" => point[IdOf(d)] = body[d].content
    <3>1. d # c /\ pc[d] \in InHandler /\ Of(d) # p /\ Of(d) \in Product
      BY <1>4, <1>6, <2>1, IdOfProduct
    <3> QED  BY <1>3, <1>4, <2>1, <3>1 DEF StoresInv, AloneInv
  <2>2. ASSUME NEW d \in Call, pc'[d] \in InHandler, d \notin alone PROVE Of(d) \in unsettled'
    <3>1. d # c /\ pc[d] \in InHandler /\ Of(d) \in unsettled
      BY <1>4, <2>2 DEF StoresInv, AloneInv
    <3>2. c \in alone => Of(d) # p
      BY <1>1, <3>1 DEF StoresInv, AloneInv
    <3> QED  BY <1>1, <3>1, <3>2
  <2> QED  BY <1>1, <1>4, <2>1, <2>2 DEF StoresInv, AloneInv
<1>8. ASSUME c \in alone, NEW q \in Product, q = p PROVE Agree(q)'
  <2>1. row[p] = read[c] /\ point[IdOf(c)] = body[c].content
    BY <1>1, <1>8 DEF StoresInv, AloneInv
  <2>2. Wanted(c) \in Columns /\ DOMAIN Wanted(c) = {"text", "stock", "deleted"}
    BY <1>1, WantedColumns DEF StoresInv, IInv
  <2>3. row'[q].cols = [k \in {"text", "stock", "deleted"} |-> Wanted(c)[k]]
    BY <1>3, <1>8, <2>1, <2>2 DEF Changes
  <2>4. asked'[q] = body[c]
    BY <1>1, <1>2, <1>8 DEF StoresInv, IInv, TypeOK
  <2>5. row'[q] # Nothing /\ point'[row'[q].id] = body[c].content
    BY <1>1, <1>3, <1>8, <2>1
  <2>6. CASE Deletes(c)
    <3>1. read[c].cols \in Columns
      BY <1>2, <2>1, <2>6 DEF Row
    <3>2. row'[q].cols.deleted
      BY <2>2, <2>3, <2>6, <3>1 DEF Wanted, Columns
    <3>3. body[c].topic = "delete" /\ body[c].content = Nothing
      BY <1>2, <2>6 DEF Body, Deletes
    <3> QED  BY <2>4, <2>5, <3>2, <3>3 DEF Agree, Live
  <2>7. CASE ~Deletes(c)
    <3>1. body[c].topic = "upsert" /\ body[c].content \in Content
      BY <1>2, <2>7 DEF Body, Deletes
    <3>2. /\ ~row'[q].cols.deleted
          /\ row'[q].cols.text = body[c].content.text
          /\ row'[q].cols.stock = body[c].content.stock
      BY <2>3, <2>7 DEF Wanted
    <3>3. body[c].content = [text |-> row'[q].cols.text, stock |-> row'[q].cols.stock]
      BY <3>1, <3>2 DEF Content
    <3> QED  BY <2>4, <2>5, <3>1, <3>2, <3>3 DEF Agree, Live
  <2> QED  BY <2>6, <2>7
<1>9. AgreeInv'
  <2>1. ASSUME NEW q \in Product, Clean(q)' PROVE Agree(q)'
    <3>1. CASE q = p
      <4>1. q \notin unsettled'
        BY <2>1 DEF Clean
      <4>2. c \notin alone => p \in unsettled
        BY <1>1 DEF StoresInv, AloneInv
      <4>3. c \notin alone => unsettled' = unsettled
        BY <1>1
      <4>4. c \in alone
        BY <3>1, <4>1, <4>2, <4>3
      <4> QED  BY <1>8, <3>1, <4>4
    <3>2. CASE q # p
      <4>1. Clean(q)
        BY <1>1, <1>4, <2>1, <3>2 DEF Clean
      <4>2. asked'[q] = asked[q]
        BY <1>1, <3>2 DEF StoresInv, IInv, TypeOK
      <4> QED  BY <1>1, <1>3, <3>2, <4>1, <4>2, AgreeKept DEF StoresInv
    <3> QED  BY <3>1, <3>2
  <2> QED  BY <2>1 DEF AgreeInv
<1>10. SoldInv'
  <2>1. /\ shopper'.soldOut = shopper.soldOut /\ shopper'.hits = shopper.hits
        /\ shopper'.offered = shopper.offered
    BY <1>1 DEF StoresInv, IInv, TypeOK
  <2>2. p \notin shopper.soldOut /\ shopper.soldOut \subseteq Product
    BY <1>1 DEF StoresInv, SoldInv, IInv, TypeOK
  <2> QED  BY <1>3, <1>4, <2>1, <2>2 DEF StoresInv, SoldInv
<1> QED  BY <1>5, <1>7, <1>9, <1>10 DEF StoresInv

\* What a settled product that is sold out has in Qdrant is not in stock.
LEMMA StoresShopper ==
    ASSUME StoresInv, IInv', Search \/ Refetch
    PROVE  StoresInv'
<1>1. UNCHANGED <<row, point, pc, body, read, alone, asked, unsettled>>
  BY DEF Search, Refetch
<1>2. IdInv' /\ AloneInv' /\ AgreeInv'
  <2>1. \A d \in Call : Of(d)' = Of(d) /\ IdOf(d)' = IdOf(d)
    BY <1>1 DEF Of, IdOf, Inserts
  <2>2. IdInv' /\ AloneInv'
    BY <1>1, <2>1 DEF StoresInv, IdInv, AloneInv
  <2>3. \A q \in Product : Clean(q)' => Clean(q)
    BY <1>1, <2>1 DEF Clean
  <2> QED  BY <1>1, <2>2, <2>3, AgreeKept DEF StoresInv, AgreeInv
<1>3. CASE Search
  <2>1. PICK hits \in SUBSET InStock :
            shopper' = [searching |-> TRUE, hits |-> hits, offered |-> {},
                        dead |-> {p \in Product : ~Live(row[p])},
                        soldOut |-> {p \in Product \ unsettled :
                                        /\ InFlight(p) = {}
                                        /\ row[p] # Nothing
                                        /\ row[p].cols.stock = "outofstock"}]
    BY <1>3 DEF Search
  <2>2. ASSUME NEW p \in Product, p \notin unsettled, InFlight(p) = {}, row[p] # Nothing,
               row[p].cols.stock = "outofstock"
        PROVE  row[p].id \notin hits /\ \A c \in Call : pc[c] \in InHandler => Of(c) # p
    <3>1. \A c \in Call : pc[c] \in InHandler => Of(c) # p
      BY <2>2 DEF InFlight, Of
    <3>2. Agree(p)
      BY <2>2, <3>1 DEF StoresInv, AgreeInv, Clean
    <3>3. point[row[p].id] # Nothing => point[row[p].id].stock = "outofstock"
      BY <2>2, <3>2 DEF Agree
    <3> QED  BY <3>1, <3>3 DEF InStock
  <2>3. SoldInv'
    BY <1>1, <2>1, <2>2 DEF SoldInv, Of
  <2> QED  BY <1>2, <2>3 DEF StoresInv
<1>4. CASE Refetch
  <2>1. shopper' = [shopper EXCEPT !.searching = FALSE, !.hits = {},
            !.offered = {p \in Product : Live(row[p]) /\ row[p].id \in shopper.hits}]
    BY <1>4 DEF Refetch
  <2>2. /\ shopper'.soldOut = shopper.soldOut /\ shopper'.hits = {}
        /\ shopper'.offered = {p \in Product : Live(row[p]) /\ row[p].id \in shopper.hits}
    BY <2>1 DEF StoresInv, IInv, TypeOK
  <2>3. SoldInv'
    BY <1>1, <2>2 DEF StoresInv, SoldInv, Of
  <2> QED  BY <1>2, <2>3 DEF StoresInv
<1> QED  BY <1>3, <1>4

LEMMA NextStores == StoresInv /\ [Next]_vars => StoresInv'
<1> SUFFICES ASSUME StoresInv, [Next]_vars PROVE StoresInv'
  OBVIOUS
<1>1. IInv'
  BY NextIInv DEF StoresInv
<1>2. CASE UNCHANGED vars
  <2>1. \A d \in Call : Of(d)' = Of(d) /\ IdOf(d)' = IdOf(d)
    BY <1>2 DEF Of, IdOf, Inserts, vars
  <2>2. IdInv' /\ AloneInv' /\ SoldInv'
    BY <1>2, <2>1 DEF StoresInv, IdInv, AloneInv, SoldInv, vars
  <2>3. \A q \in Product : Clean(q)' => Clean(q)
    BY <1>2, <2>1 DEF Clean, vars
  <2>4. AgreeInv'
    BY <1>2, <2>3, AgreeKept DEF StoresInv, AgreeInv, vars
  <2> QED  BY <1>1, <2>2, <2>4 DEF StoresInv
<1>3. ASSUME NEW c \in Call, Flush(c) \/ UniqueViolation(c) \/ Abort(c) PROVE StoresInv'
  <2>1. PICK to \in {"flushed", "failed"} :
            /\ pc' = [pc EXCEPT ![c] = to] /\ pc[c] \in InHandler
            /\ pc[c] = "indexed" => to = "failed"
            /\ unsettled' = unsettled \cup {p \in {Of(c)} : pc[c] = "indexed"}
            /\ UNCHANGED <<row, point, body, read, alone, asked, shopper>>
    BY <1>3 DEF Flush, MayFlush, UniqueViolation, Abort
  <2> QED  BY <1>1, <2>1, StoresOn
<1>4. CASE Next
  BY <1>1, <1>3, <1>4, StoresBegin, StoresIndex, StoresCommit, StoresShopper DEF Next, Step
<1> QED  BY <1>2, <1>4

LEMMA StoresInvariance == Spec => []StoresInv
BY InitStores, NextStores, PTL DEF Spec

\* Postgres and Qdrant agree on the latest call for a product, unless calls for it
\* overlapped or one failed after Qdrant; a call that succeeds alone repairs that.
THEOREM LatestWins == Spec => []LatestCallWins
<1>1. StoresInv => LatestCallWins
  <2> SUFFICES ASSUME StoresInv, NEW p \in Product, Settled(p), asked[p] # Nothing
               PROVE  /\ asked[p].topic = "upsert" =>
                             /\ Live(row[p])
                             /\ [text |-> row[p].cols.text, stock |-> row[p].cols.stock]
                                    = asked[p].content
                             /\ point[row[p].id] = asked[p].content
                      /\ asked[p].topic = "delete" =>
                             ~Live(row[p]) /\ (row[p] # Nothing => point[row[p].id] = Nothing)
    BY DEF LatestCallWins
  <2>1. Clean(p)
    BY DEF Settled, Clean, InFlight, Of
  <2>2. Agree(p)
    BY <2>1 DEF StoresInv, AgreeInv
  <2> QED  BY <2>2 DEF Agree, Live
<1> QED  BY <1>1, StoresInvariance, PTL

\* A product that was sold out, and settled, when the customer asked is not offered
\* unless a call for it came in between.
THEOREM SoldOutNotOffered == Spec => []SoldOutIsNotOffered
<1>1. StoresInv => SoldOutIsNotOffered
  BY DEF StoresInv, SoldInv, SoldOutIsNotOffered
<1> QED  BY <1>1, StoresInvariance, PTL

(***************************************************************************)
(* Jobs: the tasks and the requests beside them take steps of the index,   *)
(* and what a job reports is bounded by what it has committed.             *)
(***************************************************************************)
JobEntry == [worker : Worker \cup {Nothing}, total : 0 .. MaxProducts,
             status : {"queued", "running", "complete", "failed"},
             processed : Nat, failed : Nat, taken : 0 .. MaxProducts]

\* The products a task is through with and that were committed.
Committed(j) == {i \in 1 .. Ran(j) : pc[<<j, i>>] = "done"}

\* A task takes its products in turn, one at a time, and counts each once.
InTurn(j) ==
    /\ Ran(j) <= job[j].taken /\ job[j].taken <= Ran(j) + 1
    /\ job[j].taken <= job[j].total
    /\ \A i \in 1 .. MaxProducts : i > job[j].taken => pc[<<j, i>>] = "idle"

\* Its counts are covered by commits, and so is its end.
Covered(j) ==
    /\ job[j].processed <= Cardinality(Committed(j))
    /\ job[j].failed = 0 => Committed(j) = 1 .. Ran(j)
    /\ job[j].status = "complete" => job[j].failed = 0 /\ Ran(j) = job[j].total
    /\ j \in heard => job[j].status = "complete"

JobInv ==
    /\ job \in [Job -> JobEntry] /\ heard \subseteq Job
    /\ \A j \in Job : InTurn(j) /\ Covered(j)

SyncInv == IInv /\ JobInv

LEMMA SyncInitInv == SyncInit => SyncInv
<1> SUFFICES ASSUME SyncInit PROVE SyncInv
  OBVIOUS
<1>1. IInv
  BY InitIInv DEF SyncInit
<1>2. job \in [Job -> JobEntry] /\ heard \subseteq Job
  BY MaxProductsAssumption DEF SyncInit, NoJob, JobEntry
<1>3. ASSUME NEW j \in Job PROVE InTurn(j) /\ Covered(j)
  <2>1. job[j] = NoJob /\ Ran(j) = 0
    BY DEF SyncInit, NoJob, Ran
  <2>2. \A i \in 1 .. MaxProducts : pc[<<j, i>>] = "idle"
    BY TaskCallAssumption DEF SyncInit, Init, TaskCall
  <2>3. Committed(j) = {} /\ 1 .. 0 = {}
    BY <2>1 DEF Committed
  <2>4. Cardinality(Committed(j)) = 0
    BY <2>3, FS_EmptySet
  <2> QED  BY <2>1, <2>2, <2>3, <2>4 DEF InTurn, Covered, NoJob, SyncInit
<1> QED  BY <1>1, <1>2, <1>3 DEF SyncInv, JobInv

\* The call of the next product is one of the job's calls, and nothing has come of
\* it yet.
LEMMA NextCall ==
    ASSUME SyncInv, NEW j \in Job, NextProduct(j)
    PROVE  /\ job[j].taken = Ran(j) /\ job[j].taken + 1 \in 1 .. MaxProducts
           /\ job[j].taken + 1 <= job[j].total
           /\ <<j, job[j].taken + 1>> \in Call
           /\ Receive(<<j, job[j].taken + 1>>)
<1>1. job[j] \in JobEntry /\ InTurn(j)
  BY DEF SyncInv, JobInv
<1>2. job[j].taken = Ran(j) /\ job[j].taken + 1 <= job[j].total
  BY <1>1, MaxProductsAssumption DEF NextProduct, InProduct, JobEntry, InTurn, Ran
<1>3. job[j].taken + 1 \in 1 .. MaxProducts
  BY <1>1, <1>2, MaxProductsAssumption DEF JobEntry
<1>4. <<j, job[j].taken + 1>> \in Call
  BY <1>3, TaskCallAssumption DEF TaskCall
<1> QED  BY <1>2, <1>3, <1>4 DEF NextProduct

\* Every step of the composition is one of the index, or leaves the index alone.
LEMMA SyncStep ==
    ASSUME SyncInv, [SyncNext]_syncVars
    PROVE  [Next]_vars
<1> SUFFICES ASSUME SyncNext PROVE [Next]_vars
  BY DEF syncVars
<1>1. CASE IndexNext
  BY <1>1 DEF IndexNext, Handle, Next, Step
<1>2. ASSUME NEW j \in Job, Task(j) PROVE [Next]_vars
  <2>1. CASE NextProduct(j)
    BY <2>1, NextCall DEF Next
  <2> QED  BY <1>2, <2>1 DEF Task, Start, Count, Complete
<1>3. CASE \E w \in Worker : Restart(w) \/ \E j \in Job : RegisterJob(w, j) \/ GetJobStatus(w, j)
  BY <1>3 DEF Restart, RegisterJob, GetJobStatus
<1> QED  BY <1>1, <1>2, <1>3 DEF SyncNext

\* Beside the tasks, what is done stays done and what a job has not begun stays so.
LEMMA IndexKeeps ==
    ASSUME IInv, IndexNext
    PROVE  \A c \in Call : /\ pc[c] = "done" => pc'[c] = "done"
                           /\ c \in TaskCall /\ pc[c] = "idle" => pc'[c] = "idle"
<1> SUFFICES ASSUME NEW c \in Call
             PROVE  /\ pc[c] = "done" => pc'[c] = "done"
                    /\ c \in TaskCall /\ pc[c] = "idle" => pc'[c] = "idle"
  OBVIOUS
<1>1. ASSUME NEW d \in Call \ TaskCall, Reject(d) \/ Receive(d) \/ DeleteUnknown(d)
      PROVE  pc[d] = "idle" /\ \E s : pc' = [pc EXCEPT ![d] = s]
  BY <1>1 DEF Reject, Receive, DeleteUnknown, Select
<1>2. ASSUME NEW d \in Call, Handle(d) \/ Abort(d)
      PROVE  pc[d] \in InHandler /\ \E s : pc' = [pc EXCEPT ![d] = s]
  BY <1>2 DEF Handle, Step, Flush, MayFlush, UniqueViolation, Index, Commit, Abort
<1>3. CASE Search \/ Refetch
  BY <1>3 DEF Search, Refetch
<1> QED  BY <1>1, <1>2, <1>3 DEF IndexNext, IInv, TypeOK

\* What a job has committed is a finite set that only grows.
LEMMA CommittedGrows ==
    ASSUME NEW j \in Job, Ran(j) \in Nat, Ran(j)' \in Nat,
           Ran(j) <= Ran(j)', Ran(j)' <= MaxProducts,
           \A i \in 1 .. MaxProducts : pc[<<j, i>>] = "done" => pc'[<<j, i>>] = "done"
    PROVE  /\ Committed(j) \subseteq Committed(j)'
           /\ IsFiniteSet(Committed(j)) /\ IsFiniteSet(Committed(j)')
           /\ Cardinality(Committed(j)) \in Nat /\ Cardinality(Committed(j)') \in Nat
           /\ Cardinality(Committed(j)) <= Cardinality(Committed(j)')
<1>1. Committed(j) \subseteq Committed(j)'
  BY MaxProductsAssumption DEF Committed
<1>2. IsFiniteSet(1 .. Ran(j)')
  BY FS_Interval
<1>3. IsFiniteSet(Committed(j)')
  BY <1>2, FS_Subset DEF Committed
<1> QED  BY <1>1, <1>3, FS_Subset, FS_CardinalityType

\* A job whose counts stay as they are stays in turn and covered.
LEMMA Kept ==
    ASSUME SyncInv, NEW j \in Job, job'[j] \in JobEntry,
           job'[j].taken = job[j].taken, job'[j].total = job[j].total,
           job'[j].processed = job[j].processed, job'[j].failed = job[j].failed,
           \A i \in 1 .. MaxProducts :
               pc[<<j, i>>] \in {"idle", "done"} => pc'[<<j, i>>] = pc[<<j, i>>]
    PROVE  /\ InTurn(j)'
           /\ job'[j].processed <= Cardinality(Committed(j)')
           /\ job'[j].failed = 0 => Committed(j)' = 1 .. Ran(j)'
<1>1. /\ job[j] \in JobEntry /\ InTurn(j) /\ Covered(j) /\ MaxProducts \in Nat
  BY MaxProductsAssumption DEF SyncInv, JobInv
<1>2. Ran(j)' = Ran(j) /\ Ran(j) \in Nat /\ Ran(j) <= MaxProducts
  BY <1>1 DEF Ran, JobEntry, InTurn
<1>3. InTurn(j)'
  BY <1>1, <1>2 DEF InTurn, JobEntry
<1>4. /\ Committed(j) \subseteq Committed(j)'
      /\ Cardinality(Committed(j)) \in Nat /\ Cardinality(Committed(j)') \in Nat
      /\ Cardinality(Committed(j)) <= Cardinality(Committed(j)')
  BY <1>2, CommittedGrows
<1>5. Committed(j)' \subseteq 1 .. Ran(j)
  BY <1>2 DEF Committed
<1>6. job'[j].processed <= Cardinality(Committed(j)')
  BY <1>1, <1>4 DEF Covered, JobEntry
<1>7. job'[j].failed = 0 => Committed(j)' = 1 .. Ran(j)'
  BY <1>1, <1>2, <1>4, <1>5 DEF Covered
<1> QED  BY <1>3, <1>6, <1>7

\* Steps after which every job has its counts.
LEMMA KeptStep ==
    ASSUME SyncInv, job' \in [Job -> JobEntry], heard' \subseteq Job,
           \A j \in Job :
               /\ job'[j].taken = job[j].taken /\ job'[j].total = job[j].total
               /\ job'[j].processed = job[j].processed /\ job'[j].failed = job[j].failed
               /\ \/ job'[j].status = job[j].status
                  \/ job'[j].status # "complete" /\ job[j].status # "complete"
                  \/ job[j].failed = 0 /\ Ran(j) = job[j].total /\ job'[j].status = "complete"
               /\ j \in heard' => j \in heard \/ job'[j].status = "complete",
           \A c \in TaskCall : pc[c] \in {"idle", "done"} => pc'[c] = pc[c]
    PROVE  JobInv'
<1> SUFFICES ASSUME NEW j \in Job PROVE InTurn(j)' /\ Covered(j)'
  BY DEF JobInv
<1>1. /\ InTurn(j)'
      /\ job'[j].processed <= Cardinality(Committed(j)')
      /\ job'[j].failed = 0 => Committed(j)' = 1 .. Ran(j)'
  BY Kept DEF TaskCall
<1>2. Covered(j) /\ Ran(j)' = Ran(j)
  BY DEF SyncInv, JobInv, Ran
<1>3. job'[j].status = "complete" => job'[j].failed = 0 /\ Ran(j)' = job'[j].total
  BY <1>2 DEF Covered
<1>4. j \in heard' => job'[j].status = "complete"
  BY <1>2 DEF Covered
<1> QED  BY <1>1, <1>3, <1>4 DEF Covered

LEMMA NextProductStep ==
    ASSUME SyncInv, NEW j \in Job, NextProduct(j)
    PROVE  JobInv'
<1> DEFINE k == job[j].taken + 1
<1>1. /\ job[j].taken = Ran(j) /\ k \in 1 .. MaxProducts /\ k <= job[j].total
      /\ <<j, k>> \in Call /\ Receive(<<j, k>>)
  BY NextCall
<1>2. pc[<<j, k>>] = "idle" /\ pc' = [pc EXCEPT ![<<j, k>>] = "selected"]
  BY <1>1 DEF Receive, Select
<1>3. /\ job' = [job EXCEPT ![j].taken = k] /\ heard' = heard /\ job[j] \in JobEntry
      /\ job \in [Job -> JobEntry] /\ MaxProducts \in Nat
  BY MaxProductsAssumption DEF NextProduct, SyncInv, JobInv
<1>4. job' \in [Job -> JobEntry]
  BY <1>1, <1>3 DEF JobEntry
<1>5. \A c \in TaskCall : c # <<j, k>> => pc'[c] = pc[c]
  BY <1>2, TaskCallAssumption DEF SyncInv, IInv, TypeOK
<1>6. ASSUME NEW i \in Job, i # j PROVE InTurn(i)' /\ Covered(i)'
  <2>1. job'[i] = job[i] /\ Ran(i)' = Ran(i)
    BY <1>3, <1>6 DEF Ran
  <2>2. \A n \in 1 .. MaxProducts : pc'[<<i, n>>] = pc[<<i, n>>]
    BY <1>5, <1>6 DEF TaskCall
  <2>3. Covered(i) /\ job'[i] \in JobEntry
    BY <1>4 DEF SyncInv, JobInv
  <2> QED  BY <1>3, <2>1, <2>2, <2>3, Kept DEF Covered
<1>7. InTurn(j)' /\ Covered(j)'
  <2>1. /\ job'[j].processed = job[j].processed /\ job'[j].failed = job[j].failed
        /\ job'[j].status = job[j].status /\ job'[j].total = job[j].total
        /\ job'[j].taken = k /\ InTurn(j) /\ Covered(j)
    BY <1>3 DEF SyncInv, JobInv
  <2>2. Ran(j)' = Ran(j) /\ Ran(j) \in Nat /\ Ran(j) <= MaxProducts
    BY <1>1, <1>3, <2>1 DEF Ran, JobEntry
  <2>3. \A n \in 1 .. MaxProducts : n # k => pc'[<<j, n>>] = pc[<<j, n>>]
    BY <1>5 DEF TaskCall
  <2>4. \A n \in 1 .. Ran(j) : n # k /\ n \in 1 .. MaxProducts
    BY <1>1, <1>3, <2>2
  <2>5. Committed(j)' = Committed(j)
    BY <2>2, <2>3, <2>4 DEF Committed
  <2>6. InTurn(j)'
    BY <1>1, <1>3, <2>1, <2>2, <2>3 DEF InTurn, JobEntry
  <2> QED  BY <1>3, <2>1, <2>2, <2>5, <2>6 DEF Covered
<1> QED  BY <1>3, <1>4, <1>6, <1>7 DEF JobInv, SyncInv

LEMMA CountStep ==
    ASSUME SyncInv, NEW j \in Job, Count(j)
    PROVE  JobInv'
<1>1. /\ job \in [Job -> JobEntry] /\ job[j] \in JobEntry /\ InTurn(j) /\ Covered(j)
      /\ MaxProducts \in Nat /\ heard \subseteq Job
  BY MaxProductsAssumption DEF SyncInv, JobInv
<1>2. pc' = pc /\ heard' = heard
  BY DEF Count, vars, calls
<1> DEFINE p == job[j].processed
           f == job[j].failed
           k == job[j].taken
<1>3. PICK p2 \in {p, p + 1}, f2 \in {f, f + 1} :
          /\ job' = [job EXCEPT ![j].processed = p2, ![j].failed = f2]
          /\ p2 + f2 = p + f + 1
          /\ p2 = p + 1 => pc[<<j, k>>] = "done"
  <2>1. CASE Outcome(j) = "done" /\ job' = [job EXCEPT ![j].processed = @ + 1]
    <3>1. job' = [job EXCEPT ![j].processed = p + 1, ![j].failed = f]
      BY <1>1, <2>1 DEF JobEntry
    <3>2. pc[<<j, k>>] = "done" /\ p \in Nat /\ f \in Nat
      BY <1>1, <2>1 DEF Outcome, JobEntry
    <3>3. (p + 1) + f = p + f + 1
      BY <3>2
    <3> QED  BY <3>1, <3>2, <3>3
  <2>2. CASE job' = [job EXCEPT ![j].failed = @ + 1]
    <3>1. job' = [job EXCEPT ![j].processed = p, ![j].failed = f + 1]
      BY <1>1, <2>2 DEF JobEntry
    <3> QED  BY <1>1, <3>1 DEF JobEntry
  <2> QED  BY <2>1, <2>2 DEF Count
<1>4. /\ p \in Nat /\ f \in Nat /\ k \in 0 .. MaxProducts
      /\ Ran(j) = p + f /\ k = Ran(j) + 1
  BY <1>1 DEF Count, InProduct, InTurn, Ran, JobEntry
<1>5. /\ job'[j].processed = p2 /\ job'[j].failed = f2 /\ job'[j].taken = k
      /\ job'[j].total = job[j].total /\ job'[j].status = job[j].status
      /\ p2 \in Nat /\ f2 \in Nat
  BY <1>1, <1>3, <1>4 DEF JobEntry
<1>6. job' \in [Job -> JobEntry]
  BY <1>1, <1>3, <1>5 DEF JobEntry
<1>7. Ran(j)' = Ran(j) + 1 /\ Ran(j) \in Nat /\ Ran(j)' \in Nat /\ Ran(j)' <= MaxProducts
  BY <1>3, <1>4, <1>5 DEF Ran
<1>8. InTurn(j)'
  BY <1>1, <1>2, <1>4, <1>5, <1>7 DEF InTurn
<1>9. /\ Committed(j) \subseteq Committed(j)'
      /\ IsFiniteSet(Committed(j))
      /\ Cardinality(Committed(j)) \in Nat /\ Cardinality(Committed(j)') \in Nat
      /\ Cardinality(Committed(j)) <= Cardinality(Committed(j)')
  BY <1>2, <1>4, <1>7, CommittedGrows
<1>10. pc[<<j, k>>] = "done" => Committed(j)' = Committed(j) \cup {k}
  BY <1>2, <1>4, <1>7 DEF Committed
<1>11. k \notin Committed(j)
  BY <1>4, <1>7 DEF Committed
<1>12. p2 <= Cardinality(Committed(j)')
  <2>1. CASE p2 = p
    BY <1>1, <1>4, <1>9, <2>1 DEF Covered
  <2>2. CASE p2 = p + 1
    <3>1. Committed(j)' = Committed(j) \cup {k}
      BY <1>3, <1>10, <2>2
    <3>2. Cardinality(Committed(j) \cup {k}) = Cardinality(Committed(j)) + 1
      BY <1>9, <1>11, FS_AddElement
    <3> QED  BY <1>1, <1>4, <1>9, <2>2, <3>1, <3>2 DEF Covered
  <2> QED  BY <2>1, <2>2
<1>13. f2 = 0 => Committed(j)' = 1 .. Ran(j)'
  <2>1. SUFFICES ASSUME f2 = 0 PROVE Committed(j)' = 1 .. Ran(j)'
    OBVIOUS
  <2>2. f = 0 /\ p2 = p + 1
    BY <1>3, <1>4, <2>1
  <2>3. Committed(j)' = (1 .. Ran(j)) \cup {k}
    BY <1>1, <1>3, <1>10, <2>2 DEF Covered
  <2> QED  BY <1>4, <1>7, <2>3
<1>14. job[j].status # "complete"
  BY <1>1, <1>4 DEF Covered, InTurn, JobEntry
<1>15. Covered(j)'
  BY <1>1, <1>2, <1>5, <1>12, <1>13, <1>14 DEF Covered
<1>16. ASSUME NEW i \in Job, i # j PROVE InTurn(i)' /\ Covered(i)'
  <2>1. job'[i] = job[i] /\ Ran(i)' = Ran(i)
    BY <1>1, <1>3, <1>16 DEF Ran
  <2>2. Covered(i) /\ job'[i] \in JobEntry
    BY <1>6 DEF SyncInv, JobInv
  <2> QED  BY <1>2, <2>1, <2>2, Kept DEF Covered
<1> QED  BY <1>1, <1>2, <1>6, <1>8, <1>15, <1>16 DEF JobInv

\* Registration: the job has no calls yet.
LEMMA RegisterStep ==
    ASSUME SyncInv, NEW w \in Worker, NEW j \in Job, RegisterJob(w, j)
    PROVE  JobInv'
<1>1. PICK n \in 1 .. MaxProducts :
          job' = [job EXCEPT ![j] = [NoJob EXCEPT !.worker = w, !.total = n]]
  BY DEF RegisterJob
<1>2. /\ job \in [Job -> JobEntry] /\ job[j] = NoJob /\ MaxProducts \in Nat
      /\ heard' = heard /\ heard \subseteq Job /\ pc' = pc /\ InTurn(j) /\ Covered(j)
  BY MaxProductsAssumption DEF RegisterJob, SyncInv, JobInv, vars, calls
<1>3. /\ job'[j] \in JobEntry /\ job'[j].total = n /\ job'[j].taken = 0
      /\ job'[j].processed = 0 /\ job'[j].failed = 0 /\ job'[j].status = "queued"
  <2>1. job'[j] = [worker |-> w, status |-> "queued", total |-> n, processed |-> 0,
                   failed |-> 0, taken |-> 0]
    BY <1>1, <1>2 DEF NoJob
  <2>2. n \in 0 .. MaxProducts /\ 0 \in 0 .. MaxProducts
    BY <1>2
  <2> QED  BY <2>1, <2>2 DEF JobEntry
<1>4. job' \in [Job -> JobEntry]
  BY <1>1, <1>2, <1>3
<1>5. Ran(j) = 0 /\ Ran(j)' = 0 /\ j \notin heard
  BY <1>2, <1>3 DEF Ran, NoJob, Covered
<1>6. Committed(j)' = {} /\ 1 .. 0 = {}
  BY <1>5 DEF Committed
<1>7. Cardinality(Committed(j)') = 0
  BY <1>6, FS_EmptySet
<1>8. InTurn(j)' /\ Covered(j)'
  BY <1>1, <1>2, <1>3, <1>5, <1>6, <1>7 DEF InTurn, Covered, NoJob
<1>9. ASSUME NEW i \in Job, i # j PROVE InTurn(i)' /\ Covered(i)'
  <2>1. job'[i] = job[i] /\ Ran(i)' = Ran(i)
    BY <1>1, <1>2, <1>9 DEF Ran
  <2>2. Covered(i) /\ job'[i] \in JobEntry
    BY <1>4 DEF SyncInv, JobInv
  <2> QED  BY <1>2, <2>1, <2>2, Kept DEF Covered
<1> QED  BY <1>2, <1>4, <1>8, <1>9 DEF JobInv

\* The steps of the index, and those that change only the status or the worker of
\* a job.
LEMMA OtherStep ==
    ASSUME SyncInv,
           \/ (IndexNext \/ UNCHANGED vars) /\ UNCHANGED <<job, heard>>
           \/ \E j \in Job : Start(j) \/ Complete(j)
           \/ \E w \in Worker : Restart(w) \/ \E j \in Job : GetJobStatus(w, j)
    PROVE  JobInv'
<1>1. /\ job \in [Job -> JobEntry] /\ heard \subseteq Job
      /\ \A j \in Job : job[j] \in JobEntry
  BY DEF SyncInv, JobInv
<1>2. CASE (IndexNext \/ UNCHANGED vars) /\ UNCHANGED <<job, heard>>
  <2>1. \A c \in TaskCall : pc[c] \in {"idle", "done"} => pc'[c] = pc[c]
    BY <1>2, IndexKeeps, TaskCallAssumption DEF SyncInv, vars, calls
  <2> QED  BY <1>1, <1>2, <2>1, KeptStep
<1>3. ASSUME NEW j \in Job, Start(j) PROVE JobInv'
  <2>1. /\ job' = [job EXCEPT ![j].status = "running"] /\ heard' = heard /\ pc' = pc
        /\ job[j].status = "queued"
    BY <1>3 DEF Start, vars, calls
  <2>2. job' \in [Job -> JobEntry]
    BY <1>1, <2>1 DEF JobEntry
  <2> QED  BY <1>1, <2>1, <2>2, KeptStep
<1>4. ASSUME NEW j \in Job, Complete(j) PROVE JobInv'
  <2>1. /\ Ran(j) = job[j].total /\ job[j].status = "running"
        /\ job' = [job EXCEPT ![j].status = IF job[j].failed = 0 THEN "complete" ELSE "failed"]
        /\ heard' = heard /\ pc' = pc
    BY <1>4 DEF Complete, vars, calls
  <2>2. job' \in [Job -> JobEntry]
    BY <1>1, <2>1 DEF JobEntry
  <2>3. \A i \in Job : \/ job'[i].status = job[i].status
                       \/ job'[i].status # "complete" /\ job[i].status # "complete"
                       \/ job[i].failed = 0 /\ Ran(i) = job[i].total /\ job'[i].status = "complete"
    BY <1>1, <2>1
  <2> QED  BY <1>1, <2>1, <2>2, <2>3, KeptStep
<1>5. ASSUME NEW w \in Worker, Restart(w) PROVE JobInv'
  <2>1. /\ job' = [j \in Job |-> IF job[j].worker = w
                                 THEN [job[j] EXCEPT !.worker = Nothing] ELSE job[j]]
        /\ heard' = heard /\ pc' = pc
    BY <1>5 DEF Restart, vars, calls
  <2>2. job' \in [Job -> JobEntry]
    BY <1>1, <2>1 DEF JobEntry
  <2> QED  BY <1>1, <2>1, <2>2, KeptStep
<1>6. ASSUME NEW w \in Worker, NEW j \in Job, GetJobStatus(w, j) PROVE JobInv'
  <2>1. /\ job' = job /\ pc' = pc /\ heard' = heard \cup {j} /\ job[j].status = "complete"
    BY <1>6 DEF GetJobStatus, vars, calls
  <2> QED  BY <1>1, <2>1, KeptStep
<1> QED  BY <1>2, <1>3, <1>4, <1>5, <1>6

LEMMA SyncNextInv == SyncInv /\ [SyncNext]_syncVars => SyncInv'
<1> SUFFICES ASSUME SyncInv, [SyncNext]_syncVars PROVE SyncInv'
  OBVIOUS
<1>1. IInv'
  BY SyncStep, NextIInv DEF SyncInv
<1>2. JobInv'
  BY RegisterStep, NextProductStep, CountStep, OtherStep DEF SyncNext, Task, syncVars
<1> QED  BY <1>1, <1>2 DEF SyncInv

LEMMA SyncInvariance == SyncSpec => []SyncInv
BY SyncInitInv, SyncNextInv, PTL DEF SyncSpec

\* Bulk jobs, other requests and restarts together are a behaviour of the index:
\* what holds for it (DeletedNotOffered, IdStable) holds with them.
THEOREM JobsAreCalls == SyncSpec => Spec
<1>1. SyncInit => Init
  BY DEF SyncInit
<1>2. SyncInv /\ [SyncNext]_syncVars => [Next]_vars
  BY SyncStep
<1> QED  BY <1>1, <1>2, SyncInvariance, PTL DEF SyncSpec, Spec

\* The entries of the jobs keep their types, the product counts their bounds.
THEOREM JobTypeCorrect == SyncSpec => []JobTypeOK
<1>1. SyncInv => JobTypeOK
  BY DEF SyncInv, IInv, JobInv, JobEntry, JobTypeOK
<1> QED  BY <1>1, SyncInvariance, PTL

\* "complete" is true of every product of the job and never taken back, and the
\* count of processed products does not run ahead of the commits.
THEOREM JobsAreHonest == SyncSpec => []JobIsHonest
<1>1. SyncInv => JobIsHonest
  <2> SUFFICES ASSUME SyncInv, NEW j \in Job
               PROVE  LET committed == {i \in 1 .. MaxProducts : pc[<<j, i>>] = "done"}
                      IN /\ job[j].processed <= Cardinality(committed)
                         /\ j \in heard => committed = 1 .. job[j].total
    BY DEF JobIsHonest
  <2> DEFINE committed == {i \in 1 .. MaxProducts : pc[<<j, i>>] = "done"}
  <2>1. /\ job[j] \in JobEntry /\ InTurn(j) /\ Covered(j) /\ MaxProducts \in Nat
    BY MaxProductsAssumption DEF SyncInv, JobInv
  <2>2. Ran(j) \in Nat /\ Ran(j) <= MaxProducts
    BY <2>1 DEF Ran, InTurn, JobEntry
  <2>3. IsFiniteSet(committed)
    <3>1. IsFiniteSet(1 .. MaxProducts)
      BY <2>1, FS_Interval
    <3> QED  BY <3>1, FS_Subset
  <2>4. Committed(j) \subseteq committed
    BY <2>1, <2>2 DEF Committed
  <2>5. /\ Cardinality(committed) \in Nat /\ Cardinality(Committed(j)) \in Nat
        /\ Cardinality(Committed(j)) <= Cardinality(committed)
    BY <2>3, <2>4, FS_Subset, FS_CardinalityType
  <2>6. job[j].processed <= Cardinality(committed)
    BY <2>1, <2>5 DEF Covered, JobEntry
  <2>7. ASSUME j \in heard PROVE committed = 1 .. job[j].total
    <3>1. Committed(j) = 1 .. job[j].total /\ Ran(j) = job[j].total /\ job[j].taken = Ran(j)
      BY <2>1, <2>2, <2>7 DEF Covered, InTurn, JobEntry
    <3>2. committed \subseteq 1 .. job[j].total
      BY <2>1, <2>2, <3>1 DEF InTurn
    <3> QED  BY <2>4, <3>1, <3>2
  <2> QED  BY <2>6, <2>7
<1> QED  BY <1>1, SyncInvariance, PTL

(***************************************************************************)
(* Progress                                                                *)
(***************************************************************************)
\* The call of a product that was taken has begun.
TakenInv == \A j \in Job : \A i \in 1 .. job[j].taken :
    pc[<<j, i>>] \in InHandler \cup {"done", "failed"}

\* A call in its handler goes on, or waits for one that holds the row and goes on.
CallGoesOn(c) ==
    \/ pc[c] \in {"flushed", "indexed"} \/ MayFlush(c)
    \/ \E d \in Call \ {c} : pc[d] \in {"flushed", "indexed"} /\ Of(d) = Of(c)

\* A task that has not ended starts, is over with all products, comes to its next
\* product, counts the one at hand, or has a call that goes on.
TaskGoesOn == \A j \in Job : Alive(j) =>
    \/ job[j].status \in {"queued", "complete", "failed"}
    \/ job[j].status = "running" /\ Ran(j) = job[j].total
    \/ /\ job[j].status = "running" /\ ~InProduct(j) /\ Ran(j) < job[j].total
       /\ <<j, job[j].taken + 1>> \in Call /\ pc[<<j, job[j].taken + 1>>] = "idle"
    \/ InProduct(j) /\ Outcome(j) \in {"done", "failed"}
    \/ /\ InProduct(j) /\ <<j, job[j].taken>> \in Call
       /\ Outcome(j) \in InHandler /\ CallGoesOn(<<j, job[j].taken>>)

LEMMA TakenKept == SyncInv /\ TakenInv /\ [SyncNext]_syncVars => TakenInv'
<1> SUFFICES ASSUME SyncInv, TakenInv, [SyncNext]_syncVars,
                    NEW j \in Job, NEW i \in 1 .. job'[j].taken
             PROVE  pc'[<<j, i>>] \in InHandler \cup {"done", "failed"}
  BY DEF TakenInv
<1> DEFINE begun == InHandler \cup {"done", "failed"}
<1>1. /\ job \in [Job -> JobEntry] /\ job[j] \in JobEntry /\ MaxProducts \in Nat
      /\ pc \in [Call -> InHandler \cup {"idle", "done", "rejected", "failed"}]
  BY MaxProductsAssumption DEF SyncInv, JobInv, IInv, TypeOK
<1>2. ASSUME job'[j].taken = job[j].taken,
             \A c \in TaskCall : pc[c] \in begun => pc'[c] \in begun
      PROVE  pc'[<<j, i>>] \in begun
  <2>1. i \in 1 .. job[j].taken /\ i \in 1 .. MaxProducts
    BY <1>1, <1>2 DEF JobEntry
  <2> QED  BY <1>2, <2>1 DEF TakenInv, TaskCall
<1>3. CASE IndexNext /\ UNCHANGED <<job, heard>>
  <2>1. ASSUME NEW d \in Call \ TaskCall, Reject(d) \/ Receive(d) \/ DeleteUnknown(d)
        PROVE  \E s : pc' = [pc EXCEPT ![d] = s]
    BY <2>1 DEF Reject, Receive, DeleteUnknown, Select
  <2>2. ASSUME NEW d \in Call, Handle(d) \/ Abort(d)
        PROVE  \E s \in begun : pc' = [pc EXCEPT ![d] = s]
    BY <2>2 DEF Handle, Step, Flush, MayFlush, UniqueViolation, Index, Commit, Abort
  <2>3. \A c \in TaskCall : pc[c] \in begun => pc'[c] \in begun
    <3>1. CASE Search \/ Refetch
      BY <3>1 DEF Search, Refetch
    <3> QED  BY <1>1, <1>3, <2>1, <2>2, <3>1, TaskCallAssumption DEF IndexNext
  <2> QED  BY <1>2, <1>3, <2>3
<1>4. ASSUME NEW k \in Job, NextProduct(k) PROVE pc'[<<j, i>>] \in begun
  <2> DEFINE n == job[k].taken + 1
  <2>1. n \in 1 .. MaxProducts /\ <<k, n>> \in Call /\ Receive(<<k, n>>)
    BY <1>4, NextCall
  <2>2. pc' = [pc EXCEPT ![<<k, n>>] = "selected"]
    BY <2>1 DEF Receive
  <2>3. job' = [job EXCEPT ![k].taken = n]
    BY <1>4 DEF NextProduct
  <2>4. CASE j = k /\ i = n
    BY <1>1, <2>1, <2>2, <2>4
  <2>5. CASE j = k /\ i # n
    <3>1. i \in 1 .. job[j].taken
      BY <1>1, <2>3, <2>5 DEF JobEntry
    <3> QED  BY <1>1, <2>2, <2>5, <3>1 DEF TakenInv
  <2>6. CASE j # k
    <3>1. i \in 1 .. job[j].taken
      BY <1>1, <2>3, <2>6
    <3> QED  BY <1>1, <2>2, <2>6, <3>1 DEF TakenInv
  <2> QED  BY <2>4, <2>5, <2>6
<1>5. ASSUME NEW k \in Job, Start(k) \/ Count(k) \/ Complete(k) PROVE pc'[<<j, i>>] \in begun
  <2>1. pc' = pc /\ job'[j].taken = job[j].taken
    BY <1>1, <1>5 DEF Start, Count, Complete, vars, calls, JobEntry
  <2> QED  BY <1>2, <2>1
<1>6. ASSUME NEW w \in Worker, Restart(w) \/ \E k \in Job : RegisterJob(w, k) \/ GetJobStatus(w, k)
      PROVE  pc'[<<j, i>>] \in begun
  <2>1. pc' = pc
    BY <1>6 DEF Restart, RegisterJob, GetJobStatus, vars, calls
  <2>2. ASSUME Restart(w) PROVE job'[j].taken = job[j].taken
    <3>1. job'[j] = IF job[j].worker = w THEN [job[j] EXCEPT !.worker = Nothing] ELSE job[j]
      BY <2>2 DEF Restart
    <3> QED  BY <1>1, <3>1 DEF JobEntry
  <2>3. ASSUME NEW k \in Job, RegisterJob(w, k) PROVE job'[j].taken = job[j].taken
    <3>1. PICK n \in 1 .. MaxProducts :
              job' = [job EXCEPT ![k] = [NoJob EXCEPT !.worker = w, !.total = n]]
      BY <2>3 DEF RegisterJob
    <3>2. job[k] = NoJob /\ [NoJob EXCEPT !.worker = w, !.total = n].taken = NoJob.taken
      BY <2>3 DEF RegisterJob, NoJob
    <3> QED  BY <1>1, <3>1, <3>2
  <2>4. ASSUME NEW k \in Job, GetJobStatus(w, k) PROVE job'[j].taken = job[j].taken
    BY <2>4 DEF GetJobStatus
  <2>5. job'[j].taken = job[j].taken
    BY <1>6, <2>2, <2>3, <2>4
  <2> QED  BY <1>2, <2>1, <2>5
<1>7. CASE UNCHANGED syncVars
  BY <1>2, <1>7 DEF syncVars, vars, calls
<1> QED  BY <1>3, <1>4, <1>5, <1>6, <1>7 DEF SyncNext, Task

\* The safety half of JobEnds: whatever other calls hold, and whichever products have
\* failed, a task that has not ended has a step ahead, or waits for a call that has
\* one; calls never wait for each other in a circle.
THEOREM TasksGoOn == SyncSpec => []TaskGoesOn
<1>1. SyncInit => TakenInv
  BY DEF SyncInit, NoJob, TakenInv
<1>2. SyncSpec => [](SyncInv /\ TakenInv)
  BY <1>1, SyncInitInv, SyncNextInv, TakenKept, PTL DEF SyncSpec
<1>3. SyncInv /\ TakenInv => TaskGoesOn
  <2> SUFFICES ASSUME SyncInv, TakenInv, NEW j \in Job, job[j].status = "running",
                      Ran(j) # job[j].total, Alive(j)
               PROVE  \/ /\ ~InProduct(j) /\ Ran(j) < job[j].total
                         /\ <<j, job[j].taken + 1>> \in Call
                         /\ pc[<<j, job[j].taken + 1>>] = "idle"
                      \/ InProduct(j) /\ Outcome(j) \in {"done", "failed"}
                      \/ /\ InProduct(j) /\ <<j, job[j].taken>> \in Call
                         /\ Outcome(j) \in InHandler /\ CallGoesOn(<<j, job[j].taken>>)
    BY DEF TaskGoesOn, SyncInv, JobInv, JobEntry
  <2> DEFINE k == job[j].taken
  <2>1. /\ job[j] \in JobEntry /\ InTurn(j) /\ MaxProducts \in Nat
        /\ Ran(j) \in Nat /\ k \in 0 .. MaxProducts
    BY MaxProductsAssumption DEF SyncInv, JobInv, JobEntry, Ran
  <2>2. CASE ~InProduct(j)
    <3>1. k = Ran(j) /\ Ran(j) < job[j].total /\ k + 1 \in 1 .. MaxProducts
      BY <2>1, <2>2 DEF InTurn, InProduct, JobEntry
    <3>2. <<j, k + 1>> \in Call /\ pc[<<j, k + 1>>] = "idle"
      BY <2>1, <3>1, TaskCallAssumption DEF InTurn, TaskCall
    <3> QED  BY <2>2, <3>1, <3>2
  <2>3. CASE InProduct(j)
    <3>1. k \in 1 .. k /\ k \in 1 .. MaxProducts
      BY <2>1, <2>3 DEF InProduct
    <3>2. <<j, k>> \in Call /\ Outcome(j) \in InHandler \cup {"done", "failed"}
      BY <3>1, TaskCallAssumption DEF TakenInv, Outcome, TaskCall
    <3>3. ASSUME pc[<<j, k>>] = "selected" PROVE CallGoesOn(<<j, k>>)
      <4> SUFFICES ASSUME ~MayFlush(<<j, k>>)
                   PROVE  \E d \in Call \ {<<j, k>>} :
                             pc[d] \in {"flushed", "indexed"} /\ Of(d) = Of(<<j, k>>)
        BY DEF CallGoesOn
      <4>1. PICK d \in InFlight(Of(<<j, k>>)) : Locks(d)
        BY <3>3 DEF MayFlush
      <4>2. d \in Call /\ Of(d) = Of(<<j, k>>) /\ pc[d] \in {"flushed", "indexed"}
        BY <4>1 DEF InFlight, Of, Locks
      <4> QED  BY <3>3, <4>2
    <3> QED  BY <2>3, <3>2, <3>3 DEF Outcome, CallGoesOn
  <2> QED  BY <2>2, <2>3
<1> QED  BY <1>2, <1>3, PTL
=============================================================================
