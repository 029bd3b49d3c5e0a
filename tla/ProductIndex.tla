---------------------------- MODULE ProductIndex ----------------------------
(***************************************************************************)
(* The products of one shop in Postgres and in Qdrant: upsert_product and  *)
(* soft_delete_product (backend/services/product_indexer.py) behind the    *)
(* product webhook and POST /v1/products, and the retrieval of backend/    *)
(* services/conversation_service.py that searches Qdrant and re-fetches    *)
(* from Postgres.                                                          *)
(*                                                                         *)
(* A call is one READ COMMITTED transaction: it reads the row, flushes the *)
(* columns it changes (which locks the row, if there are any), writes the  *)
(* point in Qdrant, which no rollback takes back, and commits.  The id of  *)
(* a row and of its point is the call that inserted the row.               *)
(***************************************************************************)
CONSTANTS
    Product,        \* external ids, the shop's own product ids
    Call,           \* calls of the API by the plugin and other clients
    Text,           \* names and descriptions
    Nothing         \* no row, no point, no content

Content == [text : Text, stock : {"instock", "outofstock"}]
Columns == [text : Text, stock : {"instock", "outofstock"}, deleted : BOOLEAN]
Row == [id : Call, cols : Columns]

ASSUME NothingAssumption == Nothing \notin Content \cup Row

\* What a request asks.  The plugin deletes with a product whose name is "";
\* other clients give a name.
Body == [topic : {"upsert"}, product : Product, content : Content]
   \cup [topic : {"delete", "delete_nameless"}, product : Product, content : {Nothing}]

VARIABLES
    row,            \* product -> committed row
    point,          \* id -> payload of the point in Qdrant
    pc,             \* call -> step of its handler
    body,           \* call -> what it asks
    read,           \* call -> row it selected
    alone,          \* calls that no other call for the product overlapped
    asked,          \* product -> the latest call for it that was answered
    unsettled,      \* products whose calls overlapped or failed after Qdrant;
                    \* no call has succeeded alone since
    shopper         \* the retrieval for a customer's question

calls == <<pc, body, read>>
vars == <<row, point, calls, alone, asked, unsettled, shopper>>

Init ==
    /\ row = [p \in Product |-> Nothing]
    /\ point = [id \in Call |-> Nothing]
    /\ pc = [c \in Call |-> "idle"]
    /\ body = [c \in Call |-> Nothing]
    /\ read = [c \in Call |-> Nothing]
    /\ alone = {}
    /\ asked = [p \in Product |-> Nothing]
    /\ unsettled = {}
    /\ shopper = [searching |-> FALSE, hits |-> {}, offered |-> {}, dead |-> {},
                  soldOut |-> {}]

InHandler == {"selected", "flushed", "indexed"}
InFlight(p) == {c \in Call : pc[c] \in InHandler /\ body[c].product = p}
Live(r) == r # Nothing /\ ~r.cols.deleted

(***************************************************************************)
(* A call                                                                  *)
(***************************************************************************)
\* ProductIn wants a name of at least one character, also for a deletion.
Reject(c) ==
    /\ pc[c] = "idle"
    /\ \E b \in Body :
          /\ b.topic = "delete_nameless"
          /\ body' = [body EXCEPT ![c] = b]
          /\ asked' = [asked EXCEPT ![b.product] = b]
    /\ pc' = [pc EXCEPT ![c] = "rejected"]
    /\ UNCHANGED <<row, point, read, alone, unsettled, shopper>>

\* The SELECT of upsert_product and soft_delete_product.
Select(c, b) ==
    /\ pc[c] = "idle" /\ b.topic # "delete_nameless"
    /\ body' = [body EXCEPT ![c] = b]
    /\ read' = [read EXCEPT ![c] = row[b.product]]
    /\ alone' = (alone \ InFlight(b.product))
                    \cup {d \in {c} : InFlight(b.product) = {}}
    /\ unsettled' = unsettled \cup {p \in {b.product} : InFlight(p) # {}}
    /\ shopper' = [shopper EXCEPT !.soldOut = @ \ {b.product}]

Receive(c) == \E b \in Body :
    /\ Select(c, b)
    /\ b.topic = "upsert" \/ row[b.product] # Nothing
    /\ pc' = [pc EXCEPT ![c] = "selected"]
    /\ UNCHANGED <<row, point, asked>>

\* soft_delete_product: "if product is None: return False".
DeleteUnknown(c) == \E b \in Body :
    /\ Select(c, b)
    /\ b.topic = "delete" /\ row[b.product] = Nothing
    /\ asked' = [asked EXCEPT ![b.product] = b]
    /\ pc' = [pc EXCEPT ![c] = "done"]
    /\ UNCHANGED <<row, point>>

Of(c) == body[c].product
Deletes(c) == body[c].topic = "delete"
Inserts(c) == read[c] = Nothing
IdOf(c) == IF Inserts(c) THEN c ELSE read[c].id

\* The columns as the handler leaves them in its session.
Wanted(c) ==
    IF Deletes(c) THEN [read[c].cols EXCEPT !.deleted = TRUE, !.stock = "outofstock"]
    ELSE [text |-> body[c].content.text, stock |-> body[c].content.stock,
          deleted |-> FALSE]

\* SQLAlchemy writes the columns that differ from what was read, if any do.
Changes(c, k) == Inserts(c) \/ Wanted(c)[k] # read[c].cols[k]
Locks(c) == pc[c] \in {"flushed", "indexed"} /\ \E k \in DOMAIN Wanted(c) : Changes(c, k)

MayFlush(c) ==
    /\ pc[c] = "selected"
    /\ (\E k \in DOMAIN Wanted(c) : Changes(c, k)) =>
           \A d \in InFlight(Of(c)) : ~Locks(d)

\* Mutant of Flush: no uq_products_shop_external.
FlushUnconstrained(c) ==
    /\ MayFlush(c)
    /\ pc' = [pc EXCEPT ![c] = "flushed"]
    /\ UNCHANGED <<row, point, body, read, alone, asked, unsettled, shopper>>

Flush(c) ==
    /\ MayFlush(c)
    /\ Inserts(c) => row[Of(c)] = Nothing
    /\ pc' = [pc EXCEPT ![c] = "flushed"]
    /\ UNCHANGED <<row, point, body, read, alone, asked, unsettled, shopper>>

\* Another call has inserted the product since this one looked.
UniqueViolation(c) ==
    /\ pc[c] = "selected" /\ Inserts(c) /\ row[Of(c)] # Nothing
    /\ pc' = [pc EXCEPT ![c] = "failed"]
    /\ UNCHANGED <<row, point, body, read, alone, asked, unsettled, shopper>>

\* VectorIndex.upsert replaces the product's point and VectorIndex.delete removes
\* it, whatever is there.
PutPoint(id, content) == [point EXCEPT ![id] = content]

\* Mutant of Index: a deletion leaves the point.
IndexKeeping(c) ==
    /\ pc[c] = "flushed"
    /\ point' = IF Deletes(c) THEN point ELSE PutPoint(IdOf(c), body[c].content)
    /\ pc' = [pc EXCEPT ![c] = "indexed"]
    /\ UNCHANGED <<row, body, read, alone, asked, unsettled, shopper>>

\* After the embedding: the point gets the values of this session.
Index(c) ==
    /\ pc[c] = "flushed"
    /\ point' = PutPoint(IdOf(c), body[c].content)
    /\ pc' = [pc EXCEPT ![c] = "indexed"]
    /\ UNCHANGED <<row, body, read, alone, asked, unsettled, shopper>>

\* The columns this transaction has not written keep what others committed.
Commit(c) ==
    /\ pc[c] = "indexed"
    /\ row' = [row EXCEPT ![Of(c)] =
           [id |-> IdOf(c),
            cols |-> [k \in DOMAIN Wanted(c) |->
                         IF Changes(c, k) THEN Wanted(c)[k] ELSE @.cols[k]]]]
    /\ pc' = [pc EXCEPT ![c] = "done"]
    /\ asked' = [asked EXCEPT ![Of(c)] = body[c]]
    /\ unsettled' = unsettled \ {p \in {Of(c)} : c \in alone}
    /\ shopper' = [shopper EXCEPT !.dead = {p \in @ : ~Live(row'[p])}]
    /\ UNCHANGED <<point, body, read, alone>>

\* The embedder, Qdrant or the database fails: the transaction is rolled back,
\* what Qdrant has taken stays.
Abort(c) ==
    /\ pc[c] \in InHandler
    /\ pc' = [pc EXCEPT ![c] = "failed"]
    /\ unsettled' = unsettled \cup {p \in {Of(c)} : pc[c] = "indexed"}
    /\ UNCHANGED <<row, point, body, read, alone, asked, shopper>>

(***************************************************************************)
(* _retrieve_relevant_products                                             *)
(***************************************************************************)
\* Mutant of InStock: Qdrant is not asked for products in stock only.
AnyPoint == {id \in Call : point[id] # Nothing}

InStock == {id \in Call : point[id] # Nothing /\ point[id].stock = "instock"}

\* The nearest points; which ones and how many is up to Qdrant.  The step notes
\* what is not to be offered: products that are deleted, and settled products
\* that are sold out.
Search ==
    /\ ~shopper.searching
    /\ \E hits \in SUBSET InStock :
          shopper' = [searching |-> TRUE, hits |-> hits, offered |-> {},
                      dead |-> {p \in Product : ~Live(row[p])},
                      soldOut |-> {p \in Product \ unsettled :
                                      /\ InFlight(p) = {}
                                      /\ row[p] # Nothing
                                      /\ row[p].cols.stock = "outofstock"}]
    /\ UNCHANGED <<row, point, calls, alone, asked, unsettled>>

\* Mutants of Refetch: the rows are not filtered, or not fetched at all.
RefetchAll ==
    /\ shopper.searching
    /\ shopper' = [shopper EXCEPT !.searching = FALSE, !.hits = {},
           !.offered = {p \in Product : row[p] # Nothing /\ row[p].id \in shopper.hits}]
    /\ UNCHANGED <<row, point, calls, alone, asked, unsettled>>

RefetchNothing ==
    /\ shopper.searching
    /\ shopper' = [shopper EXCEPT !.searching = FALSE, !.offered = shopper.hits]
    /\ UNCHANGED <<row, point, calls, alone, asked, unsettled>>

\* The hits whose row in Postgres is not deleted go into the prompt.
Refetch ==
    /\ shopper.searching
    /\ shopper' = [shopper EXCEPT !.searching = FALSE, !.hits = {},
           !.offered = {p \in Product : Live(row[p]) /\ row[p].id \in shopper.hits}]
    /\ UNCHANGED <<row, point, calls, alone, asked, unsettled>>

(***************************************************************************)
(* Specification                                                           *)
(***************************************************************************)
Step(c) == Flush(c) \/ UniqueViolation(c) \/ Index(c) \/ Commit(c)

Next ==
    \/ \E c \in Call : Reject(c) \/ Receive(c) \/ DeleteUnknown(c) \/ Step(c) \/ Abort(c)
    \/ Search \/ Refetch

Spec == Init /\ [][Next]_vars

(***************************************************************************)
(* Properties                                                              *)
(***************************************************************************)
TypeOK ==
    /\ row \in [Product -> Row \cup {Nothing}]
    /\ point \in [Call -> Content \cup {Nothing}]
    /\ pc \in [Call -> InHandler \cup {"idle", "done", "rejected", "failed"}]
    /\ body \in [Call -> Body \cup {Nothing}]
    /\ read \in [Call -> Row \cup {Nothing}]
    /\ alone \subseteq Call
    /\ asked \in [Product -> Body \cup {Nothing}]
    /\ unsettled \subseteq Product
    /\ shopper \in [searching : BOOLEAN, hits : SUBSET Call, offered : SUBSET Product,
                    dead : SUBSET Product, soldOut : SUBSET Product]

Settled(p) == p \notin unsettled /\ InFlight(p) = {}

\* Postgres and Qdrant agree on what the latest call asked, unless calls for the
\* product overlapped or one failed after writing to Qdrant; and then one call
\* that succeeds alone brings them together again.
LatestCallWins ==
    \A p \in Product : Settled(p) /\ asked[p] # Nothing =>
        /\ asked[p].topic = "upsert" =>
               /\ Live(row[p])
               /\ [text |-> row[p].cols.text, stock |-> row[p].cols.stock]
                      = asked[p].content
               /\ point[row[p].id] = asked[p].content
        /\ asked[p].topic = "delete" =>
               ~Live(row[p]) /\ (row[p] # Nothing => point[row[p].id] = Nothing)

\* However far the two stores are apart, no product is offered that was deleted
\* when the customer asked and has not come back since.
DeletedIsNotOffered == shopper.offered \cap shopper.dead = {}

\* A product that was sold out, and settled, when the customer asked is not
\* offered unless a call for it came in between.
SoldOutIsNotOffered == shopper.offered \cap shopper.soldOut = {}

\* A product keeps its id for good, as the messages and clicks that refer to it
\* need it, even when two calls insert it at the same time.
IdIsStable ==
    [][\A p \in Product : row[p] # Nothing =>
          row'[p] # Nothing /\ row'[p].id = row[p].id]_vars

(***************************************************************************)
(* A comment the code does not keep                                        *)
(***************************************************************************)
\* Product_Sync::on_delete: "external_id matches the WC product ID, which we
\* still have".  Then the deletion it sends would delete the product.
DeletionTakesEffect ==
    \A p \in Product : Settled(p) /\ asked[p] # Nothing =>
        (asked[p].topic = "delete_nameless" => ~Live(row[p]))
=============================================================================
