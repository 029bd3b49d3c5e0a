------------------------------ MODULE BulkSync ------------------------------
(***************************************************************************)
(* The plugin's bulk import of all products (plugin/ki-berater/includes/   *)
(* class-bulk-sync.php): an admin starts it, WordPress cron runs it batch  *)
(* by batch, and the option kib_bulk_sync_status says how far it is.       *)
(*                                                                         *)
(* A batch reads the option, sends its page of products one by one and     *)
(* then writes the option back and schedules the next page.  Batches       *)
(* overlap: WordPress gives up its cron lock after a minute, a batch of    *)
(* slow calls takes longer.  WordPress and its cron are external.          *)
(***************************************************************************)
EXTENDS Naturals, FiniteSets

CONSTANTS
    Products,       \* products are numbered by their ids, 1 .. Products
    BatchSize,      \* BATCH_SIZE, products per batch
    Runner,         \* cron processes that may run at the same time
    Clicks          \* bound on the starts by the admin

ASSUME ProductsAssumption == Products \in Nat
ASSUME BatchSizeAssumption == BatchSize \in Nat \ {0}
ASSUME ClicksAssumption == Clicks \in Nat

Product == 1 .. Products
Page == 1 .. Products + 1

State == [status : {"idle", "running", "complete", "failed"},
          processed : Nat, failed : Nat]

VARIABLES
    active,         \* is the hook registered: plugin and WooCommerce are active
    catalog,        \* published products
    option,         \* kib_bulk_sync_status
    events,         \* pages of the scheduled cron events
    batch,          \* runner -> its batch: page, state read, products to send
    clicks,         \* starts so far
    accepted,       \* products the backend took over since the last start
    throughout,     \* products published since the last start
    shrunk,         \* a product went since the last start
    restarted,      \* the last start found batches of an earlier one
    lost            \* a batch was killed, or an event ran without the plugin,
                    \* since the last start

observers == <<clicks, accepted, throughout, shrunk, restarted, lost>>
vars == <<active, catalog, option, events, batch, observers>>

Idle == [busy |-> FALSE, page |-> 1, state |-> [status |-> "idle", processed |-> 0,
         failed |-> 0], todo |-> {}, ok |-> 0, bad |-> 0]

Init ==
    /\ active = TRUE
    /\ catalog \in SUBSET Product
    /\ option = Idle.state
    /\ events = {}
    /\ batch = [r \in Runner |-> Idle]
    /\ clicks = 0
    /\ accepted = {} /\ throughout = {}
    /\ shrunk = FALSE /\ restarted = FALSE /\ lost = FALSE

Busy == {r \in Runner : batch[r].busy}

(***************************************************************************)
(* The shop                                                                *)
(***************************************************************************)
\* ajax_start does not look at the state it replaces.  WordPress ignores an event
\* that is already scheduled, so events is a set.
WriteStart ==
    /\ active /\ clicks < Clicks
    /\ option' = [status |-> "running", processed |-> 0, failed |-> 0]
    /\ clicks' = clicks + 1
    /\ accepted' = {} /\ throughout' = catalog
    /\ shrunk' = FALSE
    /\ restarted' = (events # {} \/ Busy # {})
    /\ UNCHANGED <<active, catalog, batch>>

AjaxStart ==
    /\ WriteStart
    /\ events' = events \cup {1}
    /\ lost' = FALSE

\* The request dies after the option is written and before the event is scheduled.
StartKilled ==
    /\ WriteStart
    /\ events' = events
    /\ lost' = TRUE

Publish(p) ==
    /\ p \notin catalog
    /\ catalog' = catalog \cup {p}
    /\ UNCHANGED <<active, option, events, batch, observers>>

Unpublish(p) ==
    /\ p \in catalog
    /\ catalog' = catalog \ {p}
    /\ throughout' = throughout \ {p}
    /\ shrunk' = TRUE
    /\ UNCHANGED <<active, option, events, batch, clicks, accepted, restarted, lost>>

\* on_deactivate looks for an event without arguments, so it finds none.
Deactivate ==
    /\ active /\ active' = FALSE
    /\ UNCHANGED <<catalog, option, events, batch, observers>>

Activate ==
    /\ ~active /\ active' = TRUE
    /\ UNCHANGED <<catalog, option, events, batch, observers>>

(***************************************************************************)
(* process_batch                                                           *)
(***************************************************************************)
\* Cron takes an event off its list before it calls the hook.
Take(page) ==
    /\ page \in events
    /\ events' = events \ {page}

\* Without the plugin nobody listens to the hook.
RunUnheard(page) ==
    /\ ~active /\ Take(page)
    /\ lost' = TRUE
    /\ UNCHANGED <<active, catalog, option, batch, clicks, accepted, throughout, shrunk,
                   restarted>>

\* "if ( 'running' !== status ) return".
RunStopped(page) ==
    /\ active /\ Take(page)
    /\ option.status # "running"
    /\ UNCHANGED <<active, catalog, option, batch, observers>>

\* wc_get_products: the published products by id, the page-th batch of them.
Rank(p) == Cardinality({q \in catalog : q <= p})
Batch(page) ==
    {p \in catalog : (page - 1) * BatchSize < Rank(p) /\ Rank(p) <= page * BatchSize}

\* The option and the page are read; the page may be empty.
BeginBatch(r, page) ==
    /\ active /\ Take(page)
    /\ ~batch[r].busy
    /\ option.status = "running"
    /\ batch' = [batch EXCEPT ![r] = [busy |-> TRUE, page |-> page, state |-> option,
                                      todo |-> Batch(page), ok |-> 0, bad |-> 0]]
    /\ UNCHANGED <<active, catalog, option, observers>>

\* API_Client::post.  Without an answer in 15 seconds the call counts as failed,
\* whether or not the backend takes the product over.
Response == {[error |-> 0, taken |-> TRUE], [error |-> 1, taken |-> FALSE],
             [error |-> 1, taken |-> TRUE]}

Send(r) ==
    /\ batch[r].todo # {}
    /\ LET p == CHOOSE q \in batch[r].todo : \A other \in batch[r].todo : q <= other
       IN \E response \in Response :
          /\ batch' = [batch EXCEPT ![r].todo = @ \ {p}, ![r].ok = @ + 1 - response.error,
                                    ![r].bad = @ + response.error]
          /\ accepted' = accepted \cup {q \in {p} : response.taken}
    /\ UNCHANGED <<active, catalog, option, events, clicks, throughout, shrunk, restarted,
                   lost>>

\* The page was empty, or all of its products are sent.
FoundNone(r) == /\ batch[r].busy /\ batch[r].todo = {}
                /\ batch[r].ok + batch[r].bad = 0
Sent(r) == /\ batch[r].busy /\ batch[r].todo = {}
           /\ batch[r].ok + batch[r].bad > 0

\* Mutant of Finish: failures do not count.
FinishComplete(r) ==
    /\ FoundNone(r)
    /\ option' = [batch[r].state EXCEPT !.status = "complete"]
    /\ batch' = [batch EXCEPT ![r] = Idle]
    /\ UNCHANGED <<active, catalog, events, observers>>

\* The import is over: the option as it was read, with its last status.
Finish(r) ==
    /\ FoundNone(r)
    /\ option' = [batch[r].state EXCEPT !.status = IF batch[r].state.failed > 0
                                                   THEN "failed" ELSE "complete"]
    /\ batch' = [batch EXCEPT ![r] = Idle]
    /\ UNCHANGED <<active, catalog, events, observers>>

\* The option as it was read, with this batch's counts.
Counted(r) ==
    LET was == batch[r].state IN
    [was EXCEPT !.processed = @ + batch[r].ok, !.failed = @ + batch[r].bad]

\* Mutants of EndBatch: the counters are dropped, and a batch that failed as a whole
\* is the last one.
EndBatchStatusOnly(r) ==
    /\ Sent(r)
    /\ option' = [status |-> batch[r].state.status]
    /\ events' = events \cup {batch[r].page + 1}
    /\ batch' = [batch EXCEPT ![r] = Idle]
    /\ UNCHANGED <<active, catalog, observers>>
EndBatchGivingUp(r) ==
    /\ Sent(r)
    /\ option' = Counted(r)
    /\ events' = IF batch[r].ok = 0 THEN events
                 ELSE events \cup {batch[r].page + 1}
    /\ batch' = [batch EXCEPT ![r] = Idle]
    /\ UNCHANGED <<active, catalog, observers>>

EndBatch(r) ==
    /\ Sent(r)
    /\ option' = Counted(r)
    /\ events' = events \cup {batch[r].page + 1}
    /\ batch' = [batch EXCEPT ![r] = Idle]
    /\ UNCHANGED <<active, catalog, observers>>

\* PHP's time limit, a fatal error, a restart of the server: before the option is
\* written, or after it and before the next page is scheduled.
Kill(r) ==
    /\ batch[r].busy
    /\ option' = option \/ (Sent(r) /\ option' = Counted(r))
    /\ batch' = [batch EXCEPT ![r] = Idle]
    /\ lost' = TRUE
    /\ UNCHANGED <<active, catalog, events, clicks, accepted, throughout, shrunk,
                   restarted>>

(***************************************************************************)
(* Specification                                                           *)
(***************************************************************************)
Cron(r) ==
    \/ \E page \in Page :
          RunUnheard(page) \/ RunStopped(page) \/ BeginBatch(r, page)
    \/ Send(r) \/ EndBatch(r) \/ Finish(r)

Next ==
    \/ AjaxStart \/ StartKilled \/ Deactivate \/ Activate
    \/ \E p \in Product : Publish(p) \/ Unpublish(p)
    \/ \E r \in Runner : Cron(r) \/ Kill(r)

\* WordPress runs what is due, and every call to the backend ends or times out.
Spec == Init /\ [][Next]_vars /\ \A r \in Runner : WF_vars(Cron(r))

(***************************************************************************)
(* Properties                                                              *)
(***************************************************************************)
TypeOK ==
    /\ active \in BOOLEAN
    /\ catalog \subseteq Product /\ accepted \subseteq Product
    /\ throughout \subseteq catalog
    /\ option \in State
    /\ events \subseteq Page
    /\ batch \in [Runner -> [busy : BOOLEAN, page : Page, state : State,
                             todo : SUBSET Product, ok : Nat, bad : Nat]]
    /\ clicks \in 0 .. Clicks
    /\ {shrunk, restarted, lost} \subseteq BOOLEAN

\* "complete" is honest: the backend has taken over every product that was there
\* all the time, unless the import was started on top of another one or products
\* went while it ran, which moves the later ones to an earlier page.
CompleteIsHonest ==
    option.status = "complete" /\ ~restarted /\ ~shrunk => throughout \subseteq accepted

\* An import ends, even one started on top of another and however often batches
\* overwrite each other's status, unless a batch or an event was lost.
SyncEnds == option.status = "running" ~> option.status # "running" \/ lost
=============================================================================
