---------------------------- MODULE BulkSyncProofs ----------------------------
(***************************************************************************)
(* Proofs about BulkSync, for any number of products, cron processes and   *)
(* starts, and batches of any size: an import that says "complete" has     *)
(* handed over every product that was there all the time.                  *)
(*                                                                         *)
(* An import that is the only one is a chain: one event or one batch that  *)
(* carries the option on, and dies with a batch that is lost (ChainInv).   *)
(* Along the chain, whoever ranks before its page was taken over or is     *)
(* counted as failed (ProgressInv); a product only moves to later pages    *)
(* while none goes.                                                        *)
(***************************************************************************)
EXTENDS BulkSync, Integers, FiniteSetTheorems, TLAPS

\* A batch that found products has a page that is not behind the last product; a
\* runner without a batch is idle.
BatchInv == \A r \in Runner :
    /\ batch[r].busy /\ ~FoundNone(r) => batch[r].page <= Products
    /\ ~batch[r].busy => batch[r] = Idle

Quiet == events = {} /\ Busy = {}
Queued(page) == events = {page} /\ Busy = {} /\ option.status = "running"
Running(r) == events = {} /\ Busy = {r} /\ option.status = "running" /\ batch[r].state = option

ChainInv == ~restarted =>
    Quiet \/ (\E page \in Page : Queued(page)) \/ (\E r \in Runner : Running(r))

\* The products that a page leaves behind: the backend has them, unless some failed.
Before(page) == {p \in throughout : Rank(p) <= (page - 1) * BatchSize}

ProgressInv == ~restarted /\ ~shrunk =>
    /\ option.failed = 0 =>
           /\ \A page \in events : Before(page) \subseteq accepted
           /\ \A r \in Busy : batch[r].bad = 0 =>
                  Before(batch[r].page + 1) \subseteq accepted \cup batch[r].todo
           /\ \A r \in Busy : FoundNone(r) => throughout \subseteq accepted
    /\ option.status = "complete" => throughout \subseteq accepted

IInv == TypeOK /\ BatchInv /\ ChainInv /\ ProgressInv

(***************************************************************************)
(* Ranks                                                                   *)
(***************************************************************************)
Upto(S, n) == Cardinality({q \in S : q <= n})

LEMMA ProductNumbers == \A p \in Product : p \in Nat /\ p >= 1
BY ProductsAssumption DEF Product

LEMMA UptoBounds ==
    ASSUME NEW S \in SUBSET Product, NEW n
    PROVE  /\ IsFiniteSet({q \in S : q <= n})
           /\ Upto(S, n) \in Nat /\ Upto(S, n) <= Products
<1>1. IsFiniteSet(Product) /\ Cardinality(Product) = Products
  BY FS_Interval, ProductsAssumption DEF Product
<1>2. {q \in S : q <= n} \in SUBSET Product
  OBVIOUS
<1>3. /\ IsFiniteSet({q \in S : q <= n})
      /\ Upto(S, n) <= Cardinality(Product)
  BY <1>1, <1>2, FS_Subset DEF Upto
<1> QED  BY <1>1, <1>3, FS_CardinalityType DEF Upto

LEMMA UptoGrows ==
    ASSUME NEW T \in SUBSET Product, NEW S \in SUBSET T, NEW n
    PROVE  Upto(S, n) <= Upto(T, n)
<1>1. IsFiniteSet({q \in T : q <= n})
  BY UptoBounds
<1>2. {q \in S : q <= n} \in SUBSET {q \in T : q <= n}
  OBVIOUS
<1> QED  BY <1>1, <1>2, FS_Subset DEF Upto

\* One number more is at most one product more.
LEMMA UptoStep ==
    ASSUME NEW S \in SUBSET Product, NEW n \in Nat
    PROVE  /\ n + 1 \notin S => Upto(S, n + 1) = Upto(S, n)
           /\ Upto(S, n + 1) <= Upto(S, n) + 1
<1> DEFINE low == {q \in S : q <= n}
           high == {q \in S : q <= n + 1}
<1>1. high = IF n + 1 \in S THEN low \cup {n + 1} ELSE low
  <2>1. \A q \in S : q <= n + 1 <=> q <= n \/ q = n + 1
    BY ProductNumbers
  <2> QED  BY <2>1
<1>2. IsFiniteSet(low) /\ Cardinality(low) \in Nat
  BY UptoBounds DEF Upto
<1>3. Cardinality(low \cup {n + 1}) \in {Cardinality(low), Cardinality(low) + 1}
  BY <1>2, FS_AddElement
<1>4. Cardinality(high) \in {Cardinality(low), Cardinality(low) + 1}
  BY <1>1, <1>3
<1> QED  BY <1>1, <1>2, <1>4 DEF Upto

\* Ranks have no gaps: below a product of a higher rank is one of rank K + 1.
LEMMA NoGaps ==
    ASSUME NEW S \in SUBSET Product, NEW K \in Nat, NEW q \in S, Upto(S, q) > K
    PROVE  \E p \in S : Upto(S, p) = K + 1
<1> DEFINE above == {n \in Nat : Upto(S, n) > K}
<1>1. q \in above
  BY ProductsAssumption DEF Product
<1>2. PICK n \in above : \A m \in above : ~(m < n)
  <2>1. PICK n \in above : \A m \in above : <<m, n>> \notin OpToRel(<, Nat)
    <3>1. above \subseteq Nat /\ above # {}
      BY <1>1
    <3> HIDE DEF above
    <3> QED  BY <3>1, NatLessThanWellFounded, WFMin
  <2> QED  BY <2>1 DEF OpToRel
<1>3. Upto(S, 0) = 0
  <2>1. \A p \in S : ~(p <= 0)
    BY ProductNumbers
  <2>2. {p \in S : p <= 0} = {}
    BY <2>1
  <2> QED  BY <2>2, FS_EmptySet DEF Upto
<1>4. n # 0
  BY <1>2, <1>3
<1>5. PICK m \in Nat : n = m + 1
  <2>1. n - 1 \in Nat /\ n = (n - 1) + 1
    BY <1>2, <1>4
  <2> QED  BY <2>1
<1>6. Upto(S, m) <= K /\ Upto(S, m) \in Nat
  <2>1. m < n
    BY <1>5
  <2>2. m \notin above
    BY <1>2, <2>1
  <2>3. Upto(S, m) \in Nat
    BY UptoBounds
  <2> QED  BY <2>2, <2>3
<1>7. Upto(S, n) > K /\ Upto(S, n) \in Nat
  BY <1>2, UptoBounds
<1>8. /\ n \notin S => Upto(S, n) = Upto(S, m)
      /\ Upto(S, n) <= Upto(S, m) + 1
  BY <1>5, UptoStep
<1> QED  BY <1>6, <1>7, <1>8

\* A batch sends its products by id.
LEMMA FirstToDo ==
    ASSUME NEW S \in SUBSET Product, S # {}
    PROVE  \E p \in S : \A q \in S : p <= q
<1>1. S \subseteq Nat
  BY ProductNumbers
<1>2. PICK p \in S : \A q \in S : <<q, p>> \notin OpToRel(<, Nat)
  BY <1>1, NatLessThanWellFounded, WFMin
<1>3. \A q \in S : ~(q < p)
  BY <1>1, <1>2 DEF OpToRel
<1> QED  BY <1>1, <1>3

LEMMA RankIsUpto == \A p : Rank(p) = Upto(catalog, p)
BY DEF Rank, Upto

LEMMA PageBounds ==
    ASSUME NEW page \in Page
    PROVE  /\ (page - 1) * BatchSize \in Nat
           /\ page - 1 <= (page - 1) * BatchSize
           /\ page * BatchSize = (page - 1) * BatchSize + BatchSize
<1> DEFINE n == page - 1
<1>1. n \in Nat /\ page = n + 1
  BY ProductsAssumption DEF Page
<1> HIDE DEF n
<1>2. \A m \in Nat : /\ m * BatchSize \in Nat /\ m <= m * BatchSize
                     /\ (m + 1) * BatchSize = m * BatchSize + BatchSize
  BY BatchSizeAssumption
<1> QED  BY <1>1, <1>2 DEF n

\* A page that has products is not behind the last one.
LEMMA FullPage ==
    ASSUME TypeOK, NEW page \in Page, Batch(page) # {}
    PROVE  page <= Products
<1>1. PICK p \in catalog : (page - 1) * BatchSize < Rank(p)
  BY DEF Batch
<1>2. catalog \in SUBSET Product
  BY DEF TypeOK
<1>3. Rank(p) \in Nat /\ Rank(p) <= Products
  BY <1>2, RankIsUpto, UptoBounds
<1>4. page - 1 < Products
  BY <1>1, <1>3, PageBounds, ProductsAssumption DEF Page
<1> QED  BY <1>4, ProductsAssumption DEF Page

\* An empty page has all products before it.
LEMMA EmptyPage ==
    ASSUME TypeOK, NEW page \in Page, Batch(page) = {}
    PROVE  throughout \subseteq Before(page)
<1> SUFFICES ASSUME NEW q \in throughout, ~(Rank(q) <= (page - 1) * BatchSize)
             PROVE  FALSE
  BY DEF Before
<1> DEFINE K == (page - 1) * BatchSize
<1>1. q \in catalog /\ catalog \in SUBSET Product
  BY DEF TypeOK
<1>2. K \in Nat /\ page * BatchSize = K + BatchSize
  BY PageBounds
<1>3. Rank(q) \in Nat /\ Rank(q) = Upto(catalog, q)
  BY <1>1, RankIsUpto, UptoBounds
<1> HIDE DEF K
<1>4. Upto(catalog, q) > K
  BY <1>2, <1>3 DEF K
<1>5. PICK p \in catalog : Upto(catalog, p) = K + 1
  BY <1>1, <1>2, <1>4, NoGaps
<1>6. K < Rank(p) /\ Rank(p) <= page * BatchSize
  BY <1>2, <1>5, RankIsUpto, BatchSizeAssumption
<1> QED  BY <1>6 DEF Batch, K

(***************************************************************************)
(* Invariance                                                              *)
(***************************************************************************)
LEMMA IdleIsTyped ==
    /\ Idle \in [busy : BOOLEAN, page : Page, state : State, todo : SUBSET Product,
                 ok : Nat, bad : Nat]
    /\ Idle.state \in State /\ Idle.state.status = "idle" /\ ~Idle.busy
BY ProductsAssumption DEF Idle, State, Page

LEMMA InitIInv == Init => IInv
<1> SUFFICES ASSUME Init PROVE IInv
  OBVIOUS
<1>1. Busy = {}
  BY IdleIsTyped DEF Init, Busy
<1>2. TypeOK
  <2>1. {shrunk, restarted, lost} \subseteq BOOLEAN
    BY Zenon DEF Init
  <2>2. active \in BOOLEAN
    BY Zenon DEF Init
  <2>3. batch \in [Runner -> [busy : BOOLEAN, page : Page, state : State,
                             todo : SUBSET Product, ok : Nat, bad : Nat]]
    BY IdleIsTyped DEF Init
  <2>4. catalog \subseteq Product /\ accepted \subseteq Product /\ throughout \subseteq catalog
    BY DEF Init
  <2>5. option \in State /\ events \subseteq Page /\ clicks \in 0 .. Clicks
    BY IdleIsTyped, ClicksAssumption DEF Init
  <2> QED  BY <2>1, <2>2, <2>3, <2>4, <2>5, Zenon DEF TypeOK
<1>3. BatchInv
  BY IdleIsTyped DEF Init, BatchInv
<1>4. ChainInv /\ ProgressInv
  BY <1>1, IdleIsTyped DEF Init, ChainInv, ProgressInv, Quiet
<1> QED  BY <1>2, <1>3, <1>4 DEF IInv

\* The admin starts an import, to its first event or only to the option.
LEMMA StartStep == IInv /\ (AjaxStart \/ StartKilled) => IInv'
<1> SUFFICES ASSUME IInv, AjaxStart \/ StartKilled PROVE IInv'
  OBVIOUS
<1>0. WriteStart /\ events' \in {events, events \cup {1}} /\ lost' \in BOOLEAN
  BY DEF AjaxStart, StartKilled
<1>1. option' \in State /\ option'.status = "running" /\ 1 \in Page
  BY <1>0, ProductsAssumption DEF WriteStart, State, Page
<1>2. Busy' = Busy /\ batch' = batch
  BY <1>0 DEF WriteStart, Busy
<1>3. TypeOK'
  <2>1. restarted' \in BOOLEAN /\ shrunk' \in BOOLEAN
    BY <1>0 DEF WriteStart
  <2>2. {shrunk', restarted', lost'} \subseteq BOOLEAN
    BY <1>0, <2>1, Zenon
  <2>3. events' \subseteq Page /\ clicks' \in 0 .. Clicks
    BY <1>0, <1>1, ClicksAssumption DEF IInv, TypeOK, WriteStart
  <2> QED  BY <1>0, <1>1, <2>2, <2>3 DEF IInv, TypeOK, WriteStart
<1>4. BatchInv'
  BY <1>2 DEF IInv, BatchInv, FoundNone
<1>5. ASSUME ~restarted' PROVE events' \in {{}, {1}} /\ Busy' = {}
  BY <1>0, <1>2, <1>5 DEF WriteStart
<1>6. ChainInv'
  BY <1>1, <1>5 DEF ChainInv, Quiet, Queued
<1>7. ASSUME ~restarted' PROVE Before(1)' = {}
  <2>1. \A q \in catalog : Rank(q)' >= 1
    <3> SUFFICES ASSUME NEW q \in catalog PROVE Rank(q) >= 1
      BY <1>0 DEF Rank, WriteStart
    <3>1. catalog \in SUBSET Product
      BY DEF IInv, TypeOK
    <3>2. {q} \in SUBSET {x \in catalog : x <= q}
      BY <3>1, ProductNumbers
    <3>3. IsFiniteSet({x \in catalog : x <= q}) /\ Rank(q) \in Nat
      BY <3>1, UptoBounds, RankIsUpto
    <3>4. Cardinality({q}) = 1 /\ Cardinality({q}) <= Rank(q)
      BY <3>2, <3>3, FS_Subset, FS_Singleton DEF Rank
    <3> QED  BY <3>3, <3>4
  <2>2. \A q \in catalog : Rank(q)' \in Nat
    <3>1. catalog \in SUBSET Product /\ \A q : Rank(q)' = Rank(q)
      BY <1>0 DEF IInv, TypeOK, WriteStart, Rank
    <3> QED  BY <3>1, UptoBounds, RankIsUpto
  <2>3. (1 - 1) * BatchSize = 0
    BY BatchSizeAssumption
  <2>4. throughout' = catalog
    BY <1>0 DEF WriteStart
  <2> QED  BY <2>1, <2>2, <2>3, <2>4 DEF Before
<1>8. ProgressInv'
  BY <1>1, <1>5, <1>7 DEF ProgressInv
<1> QED  BY <1>3, <1>4, <1>6, <1>8 DEF IInv

\* Products come, go, and the plugin is switched off and on.
LEMMA ShopStep ==
    ASSUME IInv,
           Deactivate \/ Activate \/ \E p \in Product : Publish(p) \/ Unpublish(p)
    PROVE  IInv'
<1>1. UNCHANGED <<option, events, batch, clicks, accepted, restarted, lost>>
  BY DEF Deactivate, Activate, Publish, Unpublish, observers
<1>2. Busy' = Busy
  BY <1>1 DEF Busy
<1>3. TypeOK'
  BY DEF IInv, TypeOK, Deactivate, Activate, Publish, Unpublish, observers
<1>4. BatchInv' /\ ChainInv'
  BY <1>1, <1>2 DEF IInv, BatchInv, ChainInv, Quiet, Queued, Running, FoundNone
<1>5. ASSUME ~shrunk'
      PROVE  ~shrunk /\ throughout' = throughout /\ catalog \subseteq catalog'
  BY <1>5 DEF IInv, TypeOK, Deactivate, Activate, Publish, Unpublish, observers
<1>6. ASSUME ~shrunk', NEW page \in Nat PROVE Before(page)' \subseteq Before(page)
  <2> SUFFICES ASSUME NEW q \in throughout, Rank(q)' <= (page - 1) * BatchSize
               PROVE  Rank(q) <= (page - 1) * BatchSize
    BY <1>5, <1>6 DEF Before
  <2>1. catalog \in SUBSET Product /\ catalog' \in SUBSET Product /\ catalog \in SUBSET catalog'
    BY <1>3, <1>5, <1>6 DEF IInv, TypeOK
  <2>2. Rank(q)' = Upto(catalog', q) /\ Rank(q) = Upto(catalog, q)
    BY DEF Rank, Upto
  <2>3. /\ Upto(catalog', q) \in Nat /\ Upto(catalog, q) \in Nat
        /\ Upto(catalog, q) <= Upto(catalog', q)
    BY <2>1, UptoBounds, UptoGrows
  <2>4. (page - 1) * BatchSize \in Int
    BY <1>6, BatchSizeAssumption
  <2> QED  BY <2>2, <2>3, <2>4
<1>7. ProgressInv'
  <2> SUFFICES ASSUME ~restarted', ~shrunk' PROVE
        /\ option.failed = 0 =>
               /\ \A page \in events : Before(page)' \subseteq accepted
               /\ \A r \in Busy : batch[r].bad = 0 =>
                      Before(batch[r].page + 1)' \subseteq accepted \cup batch[r].todo
               /\ \A r \in Busy : FoundNone(r) => throughout' \subseteq accepted
        /\ option.status = "complete" => throughout' \subseteq accepted
    BY <1>1, <1>2 DEF ProgressInv, Before, Rank, FoundNone
  <2>1. \A page \in events : page \in Nat
    BY ProductsAssumption DEF IInv, TypeOK, Page
  <2>2. \A r \in Busy : batch[r].page + 1 \in Nat
    BY ProductsAssumption DEF IInv, TypeOK, Page, Busy
  <2> QED  BY <1>1, <1>5, <1>6, <2>1, <2>2 DEF IInv, ProgressInv
<1> QED  BY <1>3, <1>4, <1>7 DEF IInv

\* The event of an import that is the only one: nothing else goes on.
LEMMA OnlyEvent ==
    ASSUME IInv, NEW page \in Page, Take(page), ~restarted
    PROVE  events' = {} /\ Busy = {} /\ option.status = "running"
BY DEF IInv, ChainInv, Quiet, Queued, Running, Take

\* Events that nobody hears or that find the import stopped.
LEMMA EventStep ==
    ASSUME IInv, NEW page \in Page, RunUnheard(page) \/ RunStopped(page)
    PROVE  IInv'
<1>1. /\ Take(page)
      /\ UNCHANGED <<active, catalog, option, batch, clicks, accepted, throughout, shrunk,
                     restarted>>
  BY DEF RunUnheard, RunStopped, observers
<1>2. Busy' = Busy
  BY <1>1 DEF Busy
<1>3. TypeOK'
  <2>1. {shrunk', restarted', lost'} \subseteq BOOLEAN
    BY DEF IInv, TypeOK, RunUnheard, RunStopped, observers
  <2> QED  BY <1>1, <2>1 DEF IInv, TypeOK, Take
<1>4. BatchInv'
  BY <1>1 DEF IInv, BatchInv, FoundNone
<1>5. ChainInv' /\ ProgressInv'
  BY <1>1, <1>2, OnlyEvent DEF ChainInv, Quiet, IInv, ProgressInv
<1> QED  BY <1>3, <1>4, <1>5 DEF IInv

\* A batch reads the option and its page.
LEMMA BeginStep ==
    ASSUME IInv, NEW r \in Runner, NEW page \in Page, BeginBatch(r, page)
    PROVE  IInv'
<1> DEFINE new == [busy |-> TRUE, page |-> page, state |-> option, todo |-> Batch(page),
                   ok |-> 0, bad |-> 0]
<1>1. /\ Take(page) /\ ~batch[r].busy /\ option.status = "running"
      /\ batch' = [batch EXCEPT ![r] = new]
      /\ UNCHANGED <<active, catalog, option, clicks, accepted, throughout, shrunk,
                     restarted, lost>>
  BY DEF BeginBatch, observers
<1>2. batch'[r] = new /\ \A q \in Runner \ {r} : batch'[q] = batch[q]
  BY <1>1 DEF IInv, TypeOK
<1>3. Batch(page) # {} => page <= Products
  BY FullPage DEF IInv
<1>4. TypeOK'
  <2>1. Batch(page) \subseteq Product
    BY DEF Batch, IInv, TypeOK
  <2>2. new \in [busy : BOOLEAN, page : Page, state : State, todo : SUBSET Product,
                 ok : Nat, bad : Nat]
    BY <2>1 DEF IInv, TypeOK
  <2>3. batch' \in [Runner -> [busy : BOOLEAN, page : Page, state : State,
                               todo : SUBSET Product, ok : Nat, bad : Nat]]
    <3> HIDE DEF new
    <3> QED  BY <1>1, <2>2 DEF IInv, TypeOK
  <2> QED  BY <1>1, <2>3 DEF IInv, TypeOK, Take
<1>5. BatchInv'
  BY <1>2, <1>3 DEF IInv, BatchInv, FoundNone
<1>6. Busy' = Busy \cup {r}
  BY <1>1, <1>2 DEF Busy
<1>7. ChainInv'
  <2>1. ASSUME ~restarted PROVE Running(r)'
    BY <1>1, <1>2, <1>6, <2>1, OnlyEvent DEF Running
  <2> QED  BY <1>1, <2>1 DEF ChainInv
<1>8. ProgressInv'
  <2> SUFFICES ASSUME ~restarted, ~shrunk, option.failed = 0
               PROVE  /\ Before(page + 1)' \subseteq accepted \cup Batch(page)
                      /\ Batch(page) = {} => throughout \subseteq accepted
    BY <1>1, <1>2, <1>6, OnlyEvent DEF ProgressInv, FoundNone
  <2>1. Before(page) \subseteq accepted
    BY <1>1 DEF Take, IInv, ProgressInv
  <2>2. Before(page + 1)' = Before(page + 1)
    BY <1>1 DEF Before, Rank
  <2>3. ASSUME NEW q, q \in Before(page + 1) PROVE q \in Before(page) \/ q \in Batch(page)
    <3>1. ((page + 1) - 1) * BatchSize = page * BatchSize
      <4>1. (page + 1) - 1 = page
        BY ProductsAssumption DEF Page
      <4> QED  BY <4>1
    <3>2. q \in throughout /\ q \in catalog /\ Rank(q) <= page * BatchSize
      <4>1. Before(page + 1) = {p \in throughout : Rank(p) <= ((page + 1) - 1) * BatchSize}
        BY Zenon DEF Before
      <4>2. Before(page + 1) = {p \in throughout : Rank(p) <= page * BatchSize}
        BY <3>1, <4>1, Zenon
      <4>3. throughout \subseteq catalog
        BY DEF IInv, TypeOK
      <4> QED  BY <2>3, <4>2, <4>3, Zenon
    <3>3. (page - 1) * BatchSize \in Nat /\ Rank(q) \in Nat
      <4>1. catalog \in SUBSET Product
        BY DEF IInv, TypeOK
      <4> QED  BY <4>1, PageBounds, UptoBounds, RankIsUpto
    <3> QED  BY <3>2, <3>3 DEF Before, Batch
  <2>4. Batch(page) = {} => throughout \subseteq Before(page)
    BY EmptyPage DEF IInv
  <2> QED  BY <2>1, <2>2, <2>3, <2>4
<1> QED  BY <1>4, <1>5, <1>7, <1>8 DEF IInv

\* The batch of an import that is the only one.
LEMMA OnlyBatch ==
    ASSUME IInv, NEW r \in Runner, batch[r].busy, ~restarted
    PROVE  /\ events = {} /\ Busy = {r}
           /\ option.status = "running" /\ batch[r].state = option
<1>1. r \in Busy
  BY DEF Busy
<1> QED  BY <1>1 DEF IInv, ChainInv, Quiet, Queued, Running

\* Only a batch sends.
LEMMA SenderBusy == ASSUME IInv, NEW r \in Runner, Send(r) PROVE batch[r].busy
<1>1. Idle.todo = {}
  BY DEF Idle
<1> QED  BY <1>1 DEF Send, IInv, BatchInv

\* One of the products to do.
LEMMA OneSent ==
    ASSUME IInv, NEW r \in Runner, Send(r)
    PROVE  \E p \in batch[r].todo, response \in Response :
               /\ batch' = [batch EXCEPT ![r].todo = @ \ {p},
                                         ![r].ok = @ + 1 - response.error,
                                         ![r].bad = @ + response.error]
               /\ accepted' = accepted \cup {q \in {p} : response.taken}
<1>1. batch[r].todo \in SUBSET Product /\ batch[r].todo # {}
  BY DEF Send, IInv, TypeOK
<1>2. PICK first \in batch[r].todo : \A other \in batch[r].todo : first <= other
  BY <1>1, FirstToDo
<1>3. (CHOOSE q \in batch[r].todo : \A other \in batch[r].todo : q <= other)
          \in batch[r].todo
  BY <1>2
<1> QED  BY <1>3 DEF Send

\* A product is sent.
LEMMA SendStep ==
    ASSUME IInv, NEW r \in Runner, Send(r)
    PROVE  IInv'
<1>1. batch[r].busy
  BY SenderBusy
<1>2. PICK p \in batch[r].todo, response \in Response :
          /\ batch' = [batch EXCEPT ![r].todo = @ \ {p},
                                    ![r].ok = @ + 1 - response.error,
                                    ![r].bad = @ + response.error]
          /\ accepted' = accepted \cup {q \in {p} : response.taken}
  BY OneSent
<1>3. UNCHANGED <<active, catalog, option, events, clicks, throughout, shrunk, restarted,
                  lost>>
  BY DEF Send
<1>4. /\ response.error \in {0, 1}
      /\ response.error = 0 => response.taken
  BY DEF Response
<1> DEFINE typed == [busy : BOOLEAN, page : Page, state : State, todo : SUBSET Product,
                     ok : Nat, bad : Nat]
<1>5. /\ batch'[r] \in typed
      /\ batch'[r].busy /\ batch'[r].page = batch[r].page /\ batch'[r].state = batch[r].state
      /\ batch'[r].todo = batch[r].todo \ {p}
      /\ batch'[r].ok + batch'[r].bad = batch[r].ok + batch[r].bad + 1
      /\ batch'[r].bad = batch[r].bad + response.error
      /\ \A q \in Runner \ {r} : batch'[q] = batch[q]
  BY <1>1, <1>2, <1>4 DEF IInv, TypeOK
<1>6. TypeOK'
  <2>1. p \in Product
    BY <1>2 DEF IInv, TypeOK
  <2>2. batch' \in [Runner -> typed]
    <3>1. batch \in [Runner -> typed] /\ DOMAIN batch' = Runner
      BY <1>2 DEF IInv, TypeOK
    <3>2. batch' = [q \in Runner |-> batch'[q]]
      BY <1>2 DEF IInv, TypeOK
    <3>3. \A q \in Runner : batch'[q] \in typed
      BY <1>5, <3>1
    <3> QED  BY <3>2, <3>3
  <2>3. accepted' \subseteq Product
    BY <1>2, <2>1 DEF IInv, TypeOK
  <2> QED  BY <1>3, <2>2, <2>3 DEF IInv, TypeOK
<1> HIDE DEF typed
<1>7. BatchInv'
  <2>1. batch[r].todo # {}
    BY DEF Send
  <2>2. batch[r].page <= Products
    BY <1>1, <2>1 DEF IInv, BatchInv, FoundNone
  <2> QED  BY <1>1, <1>5, <2>2 DEF IInv, BatchInv, FoundNone
<1>8. Busy' = Busy /\ ~FoundNone(r)'
  <2>1. ~FoundNone(r)'
    BY <1>5 DEF FoundNone, IInv, TypeOK
  <2> QED  BY <1>1, <1>5, <2>1 DEF Busy
<1>9. ChainInv'
  BY <1>1, <1>3, <1>5, <1>8, OnlyBatch DEF ChainInv, Running
<1>10. ProgressInv'
  <2> SUFFICES ASSUME ~restarted, ~shrunk, option.failed = 0, batch'[r].bad = 0
               PROVE  Before(batch[r].page + 1)' \subseteq accepted' \cup batch'[r].todo
    BY <1>1, <1>3, <1>5, <1>8, OnlyBatch DEF ProgressInv
  <2>1. batch[r].bad = 0 /\ response.error = 0
    BY <1>4, <1>5 DEF IInv, TypeOK
  <2>2. Before(batch[r].page + 1) \subseteq accepted \cup batch[r].todo
    BY <1>1, <2>1 DEF IInv, ProgressInv, Busy
  <2>3. accepted' = accepted \cup {p}
    BY <1>2, <1>4, <2>1
  <2>4. Before(batch[r].page + 1)' = Before(batch'[r].page + 1)
    BY <1>3 DEF Before, Rank
  <2>5. Before(batch'[r].page + 1) = Before(batch[r].page + 1)
    BY <1>5
  <2> QED  BY <1>3, <1>5, <2>2, <2>3 DEF Before, Rank
<1> QED  BY <1>6, <1>7, <1>9, <1>10 DEF IInv

\* The option as a batch leaves it.
LEMMA CountedIsTyped ==
    ASSUME IInv, NEW r \in Runner
    PROVE  /\ Counted(r) \in State
           /\ Counted(r).status = batch[r].state.status
           /\ Counted(r).failed = batch[r].state.failed + batch[r].bad
<1> DEFINE was == batch[r].state
<1>1. was \in State /\ batch[r].ok \in Nat /\ batch[r].bad \in Nat
  BY DEF IInv, TypeOK
<1>2. Counted(r) = [was EXCEPT !.processed = @ + batch[r].ok, !.failed = @ + batch[r].bad]
  BY DEF Counted
<1> HIDE DEF was
<1>3. Counted(r) = [status |-> was.status, processed |-> was.processed + batch[r].ok,
                    failed |-> was.failed + batch[r].bad]
  BY <1>1, <1>2 DEF State
<1> QED  BY <1>1, <1>3 DEF State, was

\* The batch of r is over: the runner is idle.
LEMMA BackToIdle ==
    ASSUME IInv, NEW r \in Runner, batch' = [batch EXCEPT ![r] = Idle]
    PROVE  /\ batch' \in [Runner -> [busy : BOOLEAN, page : Page, state : State,
                                     todo : SUBSET Product, ok : Nat, bad : Nat]]
           /\ BatchInv'
           /\ Busy' = Busy \ {r}
<1>1. batch' \in [Runner -> [busy : BOOLEAN, page : Page, state : State,
                             todo : SUBSET Product, ok : Nat, bad : Nat]]
  BY IdleIsTyped DEF IInv, TypeOK
<1>2. batch'[r] = Idle /\ \A q \in Runner \ {r} : batch'[q] = batch[q]
  BY DEF IInv, TypeOK
<1>3. BatchInv'
  BY <1>2, IdleIsTyped DEF IInv, BatchInv, FoundNone
<1>4. Busy' = Busy \ {r}
  BY <1>2, IdleIsTyped DEF Busy
<1> QED  BY <1>1, <1>3, <1>4

\* A batch writes the option back and schedules the next page.
LEMMA EndStep ==
    ASSUME IInv, NEW r \in Runner, EndBatch(r)
    PROVE  IInv'
<1>1. PICK next \in Page : next = batch[r].page + 1
  BY ProductsAssumption DEF EndBatch, Sent, FoundNone, IInv, TypeOK, BatchInv, Page
<1>2. /\ batch[r].busy /\ batch[r].todo = {}
      /\ option' = Counted(r)
      /\ events' = events \cup {next}
      /\ batch' = [batch EXCEPT ![r] = Idle]
      /\ UNCHANGED <<active, catalog, clicks, accepted, throughout, shrunk, restarted, lost>>
  BY <1>1 DEF EndBatch, Sent, observers
<1>3. TypeOK'
  BY <1>2, BackToIdle, CountedIsTyped DEF IInv, TypeOK
<1>4. BatchInv' /\ Busy' = Busy \ {r}
  BY <1>2, BackToIdle
<1>5. ASSUME ~restarted
      PROVE  /\ events' = {next} /\ Busy' = {} /\ option'.status = "running"
             /\ option'.failed = option.failed + batch[r].bad
  BY <1>2, <1>4, <1>5, OnlyBatch, CountedIsTyped
<1>6. ChainInv'
  BY <1>2, <1>5 DEF ChainInv, Queued
<1>7. ProgressInv'
  <2> SUFFICES ASSUME ~restarted, ~shrunk, option'.failed = 0
               PROVE  Before(next)' \subseteq accepted
    BY <1>2, <1>5 DEF ProgressInv
  <2>1. option.failed = 0 /\ batch[r].bad = 0
    BY <1>5 DEF IInv, TypeOK, State
  <2>2. Before(next) \subseteq accepted
    BY <1>1, <1>2, <2>1 DEF IInv, ProgressInv, Busy
  <2> QED  BY <1>2, <2>2 DEF Before, Rank
<1> QED  BY <1>3, <1>4, <1>6, <1>7 DEF IInv

\* The page was empty: a batch writes the option back with its last status.
LEMMA FinishStep ==
    ASSUME IInv, NEW r \in Runner, Finish(r)
    PROVE  IInv'
<1> DEFINE was == batch[r].state
<1>1. /\ FoundNone(r) /\ batch[r].busy
      /\ option' = [was EXCEPT !.status = IF was.failed > 0 THEN "failed" ELSE "complete"]
      /\ batch' = [batch EXCEPT ![r] = Idle]
      /\ UNCHANGED <<active, catalog, events, clicks, accepted, throughout, shrunk, restarted,
                     lost>>
  BY DEF Finish, FoundNone, observers
<1>2. option' \in State /\ (option'.status = "complete" => was.failed = 0)
  <2>1. was \in State
    BY DEF IInv, TypeOK
  <2> HIDE DEF was
  <2> QED  BY <1>1, <2>1 DEF State
<1> HIDE DEF was
<1>3. TypeOK'
  BY <1>1, <1>2, BackToIdle DEF IInv, TypeOK
<1>4. BatchInv' /\ Busy' = Busy \ {r}
  BY <1>1, BackToIdle
<1>5. ASSUME ~restarted PROVE events' = {} /\ Busy' = {} /\ was = option
  BY <1>1, <1>4, <1>5, OnlyBatch DEF was
<1>6. ChainInv'
  BY <1>1, <1>5 DEF ChainInv, Quiet
<1>7. ProgressInv'
  <2> SUFFICES ASSUME ~restarted, ~shrunk, option'.status = "complete"
               PROVE  throughout \subseteq accepted
    BY <1>1, <1>5 DEF ProgressInv
  <2> QED  BY <1>1, <1>2, <1>5 DEF IInv, ProgressInv, Busy
<1> QED  BY <1>3, <1>4, <1>6, <1>7 DEF IInv

\* A batch is killed: the chain is cut, and the import never says "complete".
LEMMA KillStep ==
    ASSUME IInv, NEW r \in Runner, Kill(r)
    PROVE  IInv'
<1>1. /\ batch[r].busy
      /\ option' = option \/ option' = Counted(r)
      /\ batch' = [batch EXCEPT ![r] = Idle]
      /\ UNCHANGED <<active, catalog, events, clicks, accepted, throughout, shrunk, restarted>>
  BY DEF Kill
<1>2. TypeOK'
  <2>1. {shrunk', restarted', lost'} \subseteq BOOLEAN
    BY DEF Kill, IInv, TypeOK
  <2> QED  BY <1>1, <2>1, BackToIdle, CountedIsTyped DEF IInv, TypeOK
<1>3. BatchInv' /\ Busy' = Busy \ {r}
  BY <1>1, BackToIdle
<1>4. ASSUME ~restarted PROVE events' = {} /\ Busy' = {} /\ option'.status = "running"
  BY <1>1, <1>3, <1>4, OnlyBatch, CountedIsTyped
<1>5. ChainInv' /\ ProgressInv'
  BY <1>1, <1>4 DEF ChainInv, ProgressInv, Quiet
<1> QED  BY <1>2, <1>3, <1>5 DEF IInv

LEMMA NextIInv == IInv /\ [Next]_vars => IInv'
<1> SUFFICES ASSUME IInv, [Next]_vars PROVE IInv'
  OBVIOUS
<1>1. CASE UNCHANGED vars
  <2>1. /\ UNCHANGED <<active, catalog, option, events, batch, clicks, accepted, throughout,
                       shrunk, restarted, lost>>
    BY <1>1 DEF vars, observers
  <2> QED  BY <2>1 DEF IInv, TypeOK, BatchInv, ChainInv, ProgressInv, Quiet, Queued,
              Running, Busy, Before, Rank, FoundNone
<1>2. CASE AjaxStart \/ StartKilled
  BY <1>2, StartStep
<1>3. CASE Deactivate \/ Activate \/ \E p \in Product : Publish(p) \/ Unpublish(p)
  BY <1>3, ShopStep
<1>4. ASSUME NEW r \in Runner, Cron(r) PROVE IInv'
  BY <1>4, EventStep, BeginStep, SendStep, EndStep, FinishStep DEF Cron
<1>5. ASSUME NEW r \in Runner, Kill(r) PROVE IInv'
  BY <1>5, KillStep
<1> QED  BY <1>1, <1>2, <1>3, <1>4, <1>5 DEF Next

\* An import that is the only one is one chain of events and batches, and what it
\* leaves behind was taken over or is counted as failed.
THEOREM Invariance == Spec => []IInv
BY InitIInv, NextIInv, PTL DEF Spec

\* The variables keep their types; no page is beyond the one after the last product.
THEOREM TypeCorrect == Spec => []TypeOK
<1>1. IInv => TypeOK
  BY DEF IInv
<1> QED  BY <1>1, Invariance, PTL

\* An import that says "complete" has handed over every product that was there all
\* the time, unless it was started on top of another one or products went.
THEOREM HonestImport == Spec => []CompleteIsHonest
<1>1. IInv => CompleteIsHonest
  BY DEF IInv, ProgressInv, CompleteIsHonest
<1> QED  BY <1>1, Invariance, PTL

(***************************************************************************)
(* Progress                                                                *)
(***************************************************************************)
\* An import that is running has an event or a batch to go on with.
GoesOn == option.status = "running" /\ ~lost => events # {} \/ Busy # {}

LEMMA GoesOnKept == IInv /\ GoesOn /\ [Next]_vars => GoesOn'
<1> SUFFICES ASSUME IInv, GoesOn, [Next]_vars, option'.status = "running", ~lost'
             PROVE  events' # {} \/ Busy' # {}
  BY DEF GoesOn
<1>1. CASE UNCHANGED <<option, events, batch, lost>>
  BY <1>1 DEF GoesOn, Busy
<1>2. CASE AjaxStart \/ StartKilled
  BY <1>2 DEF AjaxStart, StartKilled
<1>3. ASSUME NEW page \in Page, RunUnheard(page) \/ RunStopped(page) PROVE FALSE
  BY <1>3 DEF RunUnheard, RunStopped, observers
<1>4. ASSUME NEW r \in Runner, Finish(r) PROVE FALSE
  BY <1>4 DEF Finish, IInv, TypeOK, State
<1>5. ASSUME NEW r \in Runner, NEW page \in Page, BeginBatch(r, page) PROVE r \in Busy'
  BY <1>5 DEF BeginBatch, IInv, TypeOK, Busy
<1>6. ASSUME NEW r \in Runner, Send(r) PROVE r \in Busy'
  <2>1. batch[r].busy
    BY <1>6, SenderBusy
  <2>2. PICK p \in batch[r].todo, response \in Response :
            batch' = [batch EXCEPT ![r].todo = @ \ {p},
                                   ![r].ok = @ + 1 - response.error,
                                   ![r].bad = @ + response.error]
    BY <1>6, OneSent
  <2>3. batch \in [Runner -> [busy : BOOLEAN, page : Page, state : State,
                             todo : SUBSET Product, ok : Nat, bad : Nat]]
    BY DEF IInv, TypeOK
  <2>4. batch'[r].busy
    BY <2>1, <2>2, <2>3
  <2> QED  BY <2>4 DEF Busy
<1>7. ASSUME NEW r \in Runner, EndBatch(r) PROVE events' # {}
  BY <1>7 DEF EndBatch
<1>8. ASSUME NEW r \in Runner, Kill(r) PROVE FALSE
  BY <1>8 DEF Kill
<1>9. CASE Deactivate \/ Activate \/ \E p \in Product : Publish(p) \/ Unpublish(p)
  BY <1>1, <1>9 DEF Deactivate, Activate, Publish, Unpublish, observers
<1>10. CASE UNCHANGED vars
  BY <1>1, <1>10 DEF vars, observers
<1> QED  BY <1>2, <1>3, <1>4, <1>5, <1>6, <1>7, <1>8, <1>9, <1>10 DEF Next, Cron

\* The safety half of SyncEnds: an import that says "running" has an event or a batch
\* ahead, even one started on top of another and whatever overlapping batches write,
\* unless a batch or an event was lost.
THEOREM RunningGoesOn == Spec => []GoesOn
<1>1. Init => GoesOn
  BY IdleIsTyped DEF Init, GoesOn
<1> QED  BY <1>1, GoesOnKept, Invariance, PTL DEF Spec
===============================================================================
