# ki-berater in TLA+

ki-berater is a sales advisor for WooCommerce shops: a WordPress plugin with a
chat widget, and a FastAPI backend (two uvicorn workers, Postgres, Qdrant, LLM
providers, Stripe). These modules model the parts of it that keep state across
steps, calls or processes. `src/` is the repository; line numbers are in
`PROJECT.json` under `map`.

Run `tlc -config X.cfg M` for a run of the table below and `tlapm M.tla` for the
proof modules.

## The system

| part | state it keeps | operations | talks to |
|---|---|---|---|
| Conversation service (`backend/services/conversation_service.py`) | `conversations`, `messages`, `llm_usage` | create / append, as JSON or as an SSE stream; get | quota, router, product retrieval, retention, widget |
| LLM router (`backend/llm`) | none between calls; position in the fallback chain within one | `complete`, `stream` | provider SDKs |
| Quota (`backend/billing/service.py`) | reads `conversations` and the shop's period columns | `is_within_quota`, `count_period_usage` | conversation service |
| Stripe webhooks (`backend/billing`, `backend/api/v1/billing.py`) | billing columns of `shops` | checkout completed, subscription created/updated/deleted | Stripe |
| Retention (`backend/services/retention_service.py`) | deletes old rows | hourly loop in each worker | conversation service through row locks and cascades |
| Chat widget (`plugin/.../widget.js`) | `localStorage`, one request per tab | submit, stream, fall back to JSON, reload | conversation API |
| Product index (`backend/services/product_indexer.py`) | `products`, Qdrant points | upsert, soft delete, retrieval | plugin webhooks, conversation service |
| Bulk jobs (`backend/services/sync_service.py`) | `_jobs`, a dictionary in the memory of one worker | register, run over the products, status | product index, the clients that poll |
| Plugin bulk sync (`class-bulk-sync.php`) | a `wp_options` record and cron events | start, batch, status | product index, one call per product |
| Conversions and clicks (`backend/services/analytics_service.py`; plugin tracker) | columns of `conversations`, `product_clicks` | record conversion, record click, overview | conversation service, shop checkout |
| CORS allowlist (`backend/api/cors_middleware.py`) | a cached set with an expiry per worker | decide on a request, refresh | `shops`, which `create_shop` fills |

What makes the behaviour hard: every request is one READ COMMITTED transaction
that stays open during LLM, embedding or Qdrant calls and can be cancelled at any
`await`; requests of two workers interleave; streams tell the client things
before the commit; the purge deletes under running appends; Stripe repeats and
reorders events; Qdrant is not part of the transaction; the browser shares
`localStorage` between tabs and retries. `PROJECT.json` lists these hazards, each
at its line with the properties that watch it.

What makes each part correct:

- conversation: exchanges are stored whole or not at all, verdicts are true, an
  append answers its own or a younger question, never an older one, the conversations
  whose check counted a period do not exceed its quota by more than what can be in
  flight, only retention deletes, every request that is served ends;
- router: one answer comes from one provider, no configured provider is passed
  over, failure means all were tried (a theorem, not a property of the run);
- quota: no month without a stored period and no stored period, up to its end, admits
  more conversations than the plan allows; past its end the code has no bound, which is
  a finding;
- billing: a shop that paid is linked, to the subscription it paid last unless the
  checkouts were handled in another order; the row follows the subscription while
  events come in order;
- widget: nothing is stored twice by its retry, what is shown as an answer is stored,
  every send ends;
- product index: Postgres and Qdrant agree after calls that do not overlap, deleted
  products are never offered, ids are stable;
- bulk jobs: a job ends unless its worker does, and "complete" is true of every product;
- plugin bulk sync: an import ends unless a part of it is lost, and the "complete" of one
  that was alone, with no product removed meanwhile, is honest;
- CORS: no unregistered origin gets in, and a list is never in use longer than its TTL;
- conversions: revenue counts every order once, what the shop was told is recorded is,
  until a replacement or the purge takes it.

## Modules

| module | models | composed with |
|---|---|---|
| `LlmRouter` | one call of `Router.complete` / `Router.stream`, the adapters of Google and Anthropic, the consumer closing the stream | `MCLlmRouter` gives the chains of `bootstrap.py` and the four possible sets of API keys |
| `ExchangeStore` | what the conversation API promises: exchanges stored whole, verdicts that are true, expiry of whole conversations | implemented by `Conversation`, used by `ChatWidget` |
| `Conversation` | the conversation endpoints as transactions of a connection pool, the quota check, the purge with its cascade and key locks | refines `ExchangeStore` |
| `ChatWidget` | the widget in several tabs | `INSTANCE ExchangeStore` is its backend |
| `Billing` | the webhook handlers with overlapping commits; Stripe as an external outbox | |
| `PeriodQuota` | the counting window over passing time, and the status and stored period as the webhooks leave them | |
| `ProductIndex` | upsert and delete over Postgres and Qdrant, and the retrieval | |
| `SyncJob` | the backend's bulk jobs: registration, the task, polls, restarts of a worker | extends `ProductIndex`: the task's products are calls of it, beside those of other clients; `MCSyncJob` lists the calls |
| `CorsCache` | the middleware's `dispatch` with its cache, and registrations | `MCCorsCache` gives the shops their origins |
| `BulkSync` | the plugin's import as a chain of cron batches around its option record | |
| `Conversion` | reports of orders against the unique index and the purge; the overview's revenue | `MCConversion` gives the orders their totals |
| `*Proofs` | theorems about `LlmRouter`, `Conversation`, `ChatWidget`, `Billing` with `PeriodQuota`, `ProductIndex` with `SyncJob`, `Conversion`, `CorsCache`, `BulkSync` | |

### How state and actions correspond to the code

`LlmRouter`. `providers`, `chain` and `pos` are the registry, the chosen chain
and the loop index; `emittedAny` is `emitted_any`; `out` is what the caller has
received. `SkipMissing` is the `continue` for an id that is not configured,
`ProviderRaises` the `except ProviderError` with its check of `emitted_any`,
`OtherRaises` any other exception, `CallerCloses` the client that goes away.
A chunk is the provider it came from and its kind, since no property looks at text.

`Conversation`. `db[table]` is the set of requests whose row is committed and
`pend[r]` what the transaction of `r` has written; a request names the rows it
writes. `clock` counts transaction starts, because `now()` and with it
`created_at` is the start of the transaction (no two start in the same
microsecond). `pc` stops where the handler awaits something another request can
get in between. `Begin` takes a connection and `PoolTimeout` fails to get one;
`Conclude` returns it after the answer. `InsertUserMessage` takes the key lock the
foreign key check takes; `PurgeExpired` skips what is locked until the lock goes
(in the database it waits) and cascades. `Abort` is a cancelled request, a lost
connection and every exception of embedder, router or database in a JSON request; after
the commit it is also the `db.refresh` that fails. `StreamFails` is the code's own error
path in a stream. The chunks of a stream change nothing another request sees and are left
to `LlmRouter` and `ChatWidget`. A quota check counts in one of the windows `Period`, any
of them each time: the shop's row was read at another time by every request, a stored
period stays the window after its end, and the last 30 days are a window that ends after
every row. `counted[r]` observes which windows lie whole in the one `r` counted in. The
branch for a stream without a final chunk is left out: both adapters end with one
(`Finished` of `LlmRouter`).

`ChatWidget`. `storage` is `kib_conversation_id` in `localStorage`, `tab[t]` the
request a tab waits for and the conversation it was sent to, `wire[t]` the SSE
events or the response still on their way. The API side is `ExchangeStore` plus
the order in which it speaks (`start` before the commit, `end` after it). An
attempt is a message and 1 or 2: `postJSON` sends a text again once, after a 404,
as a create, and a create is never answered 404. Session ids and rendering are
left out; the regular expression on "HTTP 40x" in the stream's catch never matches,
because FastAPI's 401 and 404 bodies carry a `detail` that replaces that text.

`Billing`. `row` is the billing part of the shop; `handler[w]` holds the event and
the row a handler read, and `Commit` writes the columns that differ from it, as
the ORM's UPDATE does. A handler that raises rolls back and Stripe keeps the event,
which is a stutter here. `Taken` lets Stripe deliver an event again. A billing
cycle is a number standing for its start, and its end is the next number: Stripe is
assumed to let the start of a cycle fix its end and to send both, since
`create_checkout_session` asks for no trial and nothing in the code moves a billing date.
`latest` and `overtaken` are observers: the subscription that was paid last, and whether
its checkout was handled while another one's was still to come. A second
checkout while subscribed links the new subscription, after which events of the old
one find no shop. Recent Stripe API versions moved the period to the subscription's
items; the columns would then stay NULL, which `PeriodQuota` covers (`ClearPeriod`).

`PeriodQuota`. Ticks stand for time, `Month` for the length of a period and of the
rolling window. A create is one step here; `Conversation` has the overlapping ones.
`subscribed` is what the status column says. `Activate` is the checkout's handler,
`StorePeriod` and `ClearPeriod` the one of created and updated subscriptions, which
writes what the event has, and `Deactivate` the one of a deletion, which leaves the
period where it is. `under` and `free` are observers: the period that was stored when a
conversation started, and those that started without a subscription.

`ProductIndex`. `row[p]` is the committed row, `point[id]` the payload in Qdrant,
`read[c]` the row a call selected. `Flush` blocks while another call holds the row,
but only if there is a column to write: an UPDATE that changes nothing is not sent
and takes no lock. `Index` writes Qdrant before the commit; `Abort` after it leaves
the point. `alone`, `asked` and `unsettled` are observers: which calls were not
overlapped, what the latest answered call asked, and for which products overlapping
or failing calls have left the stores in doubt. `Search` takes any subset of the
points in stock, since ranking and `top_k` choose among them.

`SyncJob`. `job[j]` is the entry in `_jobs`, with the worker that has it: `Nothing`
before the 202 and after a restart. `taken` is the loop variable: product `i` of job
`j` is the call `<<j, i>>` of `ProductIndex`, begun by `NextProduct` and counted by
`Count` when it is over, since the task awaits each product in a session of its own.
`Count` may count a committed product as failed: the commit took place but its answer
was lost, and `except Exception` cannot tell. `GetJobStatus` is a poll; at a worker
that does not have the job it answers 404 and changes nothing. After `Restart` a
job's call is an orphan: it commits if the commit was on its way, or is rolled back.
`heard` is an observer.

`CorsCache`. `cache[w]` is `(_allowed, _expires_at)`, `req[r]` a request in
`dispatch` with the `now` it took before the database was read, and the rows it got.
A preflight is looked up at once, any other request after its handler (`Handle`), so
the list that decides is the one of that later moment. `Read` is the SELECT and
`Store` the two assignments, which may replace a list another request has stored in
between. An exception of the handler or of the database ends a request without a
header (`Fail`). Origins stand for their normalised form; which shop has which is a
constant. `since` is an observer.

`BulkSync`. `option` is `kib_bulk_sync_status`, `events` the pages of the scheduled
cron events: a set, because WordPress ignores an event that is scheduled already.
`batch[r]` is what `process_batch` holds in memory in the cron process `r`: the
option as it was read, and the products still to send. Several run at once because
WordPress gives up its cron lock after a minute, and fifty calls of up to 15 seconds
take longer. A start or a batch reads and writes
the option in different steps: `Finish` writes the option as it was read, with its last
status, when the page was empty. `Kill` is PHP's time limit or a restart, before the
option is written or between that and the scheduling of the next page; `StartKilled` is
the same for the start. `Deactivate` finds no event to
remove: it looks for one without arguments. Without the plugin or WooCommerce nobody
listens to the hook and the event is spent (`RunUnheard`). `restarted`, `shrunk`,
`lost` and `throughout` are observers.

`Conversion`. `row[c]` has the columns `record_conversion` writes, `report[r]` one load
of a thank-you page and the transaction it causes. `Save` is the UPDATE and its commit
in one step: overlapping ones wait for each other, and `Written` keeps what the other
one wrote in the columns this session has not changed. The answer may be lost, and
`setcookie` has no effect once the page's headers are sent, so `Answer` may leave the
cookie. `Revenue` is the overview's sum over all conversations: its window of
`started_at` selects rows and changes nothing in them. `dropped` and `torn` are observers.

## Runs

| run | question | bounds, and why they are enough |
|---|---|---|
| `llm_router` | splicing, passing over | the real chains (at most three providers), every set of keys, three deltas: one before, one at and one after a failure |
| `conversation` | atomicity, verdicts, overshoot, history, retention, refinement of `ExchangeStore`; every request ends, every expired conversation is purged | three requests: a create and two appends to it, or three creates against limit 1 on two connections; two windows, one of which begins after the first request and is over when a third begins |
| `chat_widget` | no double exchange, shown means stored, sends end | two tabs, two messages with two attempts each: a conversation, its death seen from the other tab, and a retry |
| `stale_conversation` | finding | one tab, three messages |
| `billing` | row follows Stripe, paid is linked, period not torn | two subscriptions, two overlapping handlers, three changes, each event up to twice, one plan without a configured price |
| `period_quota` | what a month without a period and a stored period bound | three conversations against limit 2, months of three ticks, eight ticks: two full months and a period after its end |
| `stale_period` | finding | the same |
| `sync_job` | a job ends and its "complete" is true; the stores agree, deleted or sold out is not offered, ids stable, with a job and another client at work | one product (products share nothing but the job), a job that writes it up to twice and a call beside it: two that overlap and one that repairs, one worker that may restart |
| `plugin_delete` | finding | one product, three calls |
| `bulk_sync` | imports end, "complete" is honest | two products in batches of one, two cron processes, two starts: two chains of batches that overlap |
| `cors_cache` | no list is in use for longer than the TTL | one worker (workers share nothing but the database), two overlapping requests, three shops (one that allows the page of another, one that asks for a domain that is taken), TTL 2, time 4 |
| `conversion` | revenue, answered means recorded | three orders, two of the same total, three reports, two conversations: a conversion and two that replace it at the same time |

Deadlock checking is off where the sets of requests, messages or changes are
finite: a run then simply ends. Workers and conversations are symmetric in the runs
without liveness. In `conversation` requests begin in the order of their numbers instead
(`BeginInOrder`): they are interchangeable, and no fairness condition speaks of a begin,
so the order loses no behaviour and liveness can be checked as well.

### Findings

- `stale_conversation`: a streaming browser never forgets a conversation that does
  not exist, because the API reports it as an event of a 200 response.
- `plugin_delete`: the deletion the plugin sends never passes validation.
- `stale_period`: the stored period stays when the subscription is deleted, and once it
  is over its window counts no new conversation. If it had room left, the shop opens any
  number without a subscription, where the docstring of `_get_current_period` promises a
  rolling window "rather than allowing unlimited free usage". The same happens for a
  while when Stripe's next event is late; a period that was used up refuses everything
  until the next one is stored.

Known from the models and not kept as runs: overlapping creates exceed the plan's
limit (`OvershootBounded` says by how much); purging an old conversation deletes
its younger messages by cascade; a checkout event repeated after the cancellation
makes the shop active again, although SECURITY.md:98 calls the handling of replays
idempotent ("unsere Subscription-State-Machine ist idempotent"); an older checkout that is
repeated or late links its subscription again, and the events of the one paid last then
find no shop (`overtaken`); subscription events that arrive before the checkout are
dropped, and plan and period stay unset until the next one; overlapping calls can leave a
product in stock in Qdrant and sold out in Postgres, and the re-fetch of the hits, which
conversation_service.py:76 says is "to filter deleted/oos", filters deleted products
only (lines 88-92); an append that overlaps another one may answer the younger question
of that one; a
stream that fails after its first delta records no usage although the provider bills
it; an import started on top of another one may report "complete" although a product
was never accepted, or although a product that went moved another one to a page that was done, and a batch
or a start that is killed leaves "running" for good; two reports
that replace a conversion at the same time can leave the order of one with the total
of the other; a conversation that goes on after a purchase attributes the next order
to itself and takes the first one out of the revenue; a poll
that reaches the other worker gets a 404 for a job that runs (SECURITY.md names the
limit, the Dockerfile starts two workers), and a job whose worker restarts is gone
while its client polls; a refresh of the allowlist that was slow stores its older list
over a newer one, and a shop that was let in is refused again until the TTL is over.

## Fairness

Only the system's own steps are fair. A handler's next step is weakly fair
(`Serve(r)`): uvicorn runs ready tasks, and that whatever the handler awaits (provider,
Qdrant, Postgres) returns or raises is an assumption, since the code sets no timeouts. The purge is weakly fair because its loop catches
every exception and runs each hour. The browser's callbacks are fair, and so is WordPress cron
(`Cron(r)`): it runs what is due, and each of a batch's calls ends or times out. In `SyncJob`
a job's task (`Task(j)`) and the next step of each call (`Handle(c)`) are weakly fair for the
same reason as a handler's; a call that waits for a row lock waits for one that goes on. Customers,
Stripe, the shop owner, failures, restarts, kills and cancellations are not.

## Proofs

TLAPS checks the following for all values of the constants, from the assumptions
named in the modules.

- `LlmRouterProofs`: the invariant relates the position in the chain to the
  providers tried and the chunks handed out; from it follow `OneProviderAnswer`,
  `NoProviderPassedOver`, `AllFailedMeansAllTried` and, as an action property, that
  no provider is called after output.
- `ConversationProofs`: `IInv` adds to the checked invariants what a handler has
  written at each step (`HandlerInv`), which rows may exist when (`RowsInv`), the
  order of transaction starts (`TimeInv`), the key lock of an append (`LockInv`)
  and that the conversations of a period whose check counted all of it, committed or
  only admitted, stay under limit plus connections (`QuotaInv`). `OvershootBounded` is
  not inductive without the admitted ones, and not true without the condition on the
  check: a stale window admits without bound. The action properties and the
  refinement of `ExchangeStore` follow from `IInv` step by step. `HandlersGoOn`: among
  finitely many messages one is the last (`LatestOf`), so reading the history never
  blocks, and a purge waits only for appends between their insert and their commit.
- `ConversionProofs`: a report that is attributing has read another order than its
  own, one that is answering has an order that was recorded; so a save always writes
  the order, and `AnsweredIsRecorded` follows. Row by row, the unique index keeps an
  order in one row, and a save that read no conversion writes all columns, so overlapping
  first reports cannot mix (`RowsAreHonest`). `RevenueIsHonest` is about two sums, over
  conversations and over orders. `SumsCount` shows that a sum of numbers is the
  cardinality of a set of units, as many per element as its number is, and that the fold
  of `MapThenSumSet` has this one value; rows and orders then have the same units under
  other names (`SameUnits`). Induction on a finite set is a smallest counterexample
  here (`MinimalSubset`), since the library's induction theorems cannot be instantiated;
  that only finitely many conversations are converted is part of the invariant
  (`FewMarked`), not an assumption.
- `ProductIndexProofs`: a call that inserts writes every column and so holds the row;
  two calls never hold the same row (`Exclusive`), so nobody commits a row between
  the insert of a call and its commit, and `IdIsStable` follows. `DeletedIsNotOffered`
  needs that what the customer must not see stays deleted until a commit (`DeadInv`).

  `StoresInv` adds the two stores: the id of a row is a call for that product, so only
  its calls write its point (`IdInv`); a call that is alone commits over the row it has
  read, with its own content in Qdrant (`AloneInv`), and one that is not has made its
  product unsettled; so row, point and latest answered call agree where no call is
  between Qdrant and its commit (`AgreeInv`). `LatestCallWins` follows, and, with what a
  search has found in stock (`SoldInv`), `SoldOutIsNotOffered`.

  `SyncJob` implements `ProductIndex` (`JobsAreCalls`), so these hold with jobs and
  restarts as well. A task takes its products in turn (`InTurn`), and its counts are
  covered by commits (`Covered`): `JobIsHonest` needs that no product counts before its
  call is over and that a call that is done stays done. `TasksGoOn`: a task that has not
  ended has a step ahead, or its call waits for a row lock whose holder waits for nobody;
  it needs that the call of a product that was taken has begun (`TakenInv`).
- `ChatWidgetProofs`: whatever ends a message is the last event on its wire and tells
  the verdict the service has given (`WireInv`); a second attempt has its own
  conversation and a first attempt that was refused (`StoreInv`). `NoDoubleExchange`
  follows, since a refusal is final; `PersistedIsCommitted` and `ShownAnswerIsStored`
  are inductive with these. `SendsGoOn`: a waiting tab has an event to receive or a request
  without a verdict; a 404 always finds the second attempt unused, because no two tabs wait
  for the same message (`AheadInv`).
- `BillingProofs`: what a handler has read becomes true for good as far as the link goes
  (`ReadInv`), and until the shop is linked the checkout's event is in the outbox or with
  a handler (`LinkInv`). Which subscription it is linked to follows from what is still to
  come: nothing knows a subscription before it is paid (`KnownInv`), and once the latest
  checkout is with a handler or in the row, no checkout of another one is left to be
  sent or handled, and nobody who has read the row as linked to it finds it changed
  (`LatestInv`). `PaidIsLinked` is the quiet case of both. `PeriodNotTorn` holds for what was read and for
  what is written, so a handler that writes one of the two columns writes both.
  `RowFollowsStripe` is the quiet case of `OrderInv`: while the events are handled in
  order and alone, each event to come is what Stripe says or is followed by one that
  corrects it (`OutboxInv`), and so is the row together with what the handler in progress
  makes of it (`Follows`); a deletion writes the status only, so status and terms have
  their own clause. The same module has the quota, the other half of `billing/service.py`:
  a window of `PeriodQuota` is counted at its latest create, whose quota check counted all
  earlier ones (`QuotaInv`); a conversation that starts under a period that is over found
  room in it, and nothing is added to that period later, because time has passed its end
  (`StartedPast`). That the end belongs to the start is `PeriodIsWhole`.
- `CorsCacheProofs`: a list that was read lacks only shops that are younger than the
  `now` of its refresh (`ReadInv`), so a cached one lacks only shops younger than its
  expiry less the TTL (`CacheInv`); who stored it last does not matter.
- `BulkSyncProofs`: an import that is the only one is a chain of one event or one batch
  that has read the option as it still is (`ChainInv`); one that loses a batch has no
  chain and never says "complete". A product is behind the chain by its rank in the
  catalogue. `ProgressInv` says that those behind were taken over or are counted as
  failed: publishing only moves products to later pages (`UptoGrows`), and an empty page
  has everything behind it, because ranks have no gaps (`NoGaps`). `CompleteIsHonest`
  is its last clause; with the invariant no page is beyond the one after the last
  product (`TypeCorrect`). `RunningGoesOn` is what `SyncEnds` needs of safety: an import
  that is running has an event or a batch ahead, also when chains overlap.

So every safety property of the runs that pass is a theorem. Only model-checked:
liveness under fairness (`Responds`, `ExpiredIsPurged`, `SendEnds`, `SyncEnds`,
`JobEnds`), which needs ENABLED and is out of the prover's reach. What these need of
safety, that whatever has not ended waits for something still under way, is proved
(`HandlersGoOn`, `SendsGoOn`, `TasksGoOn`, `RunningGoesOn`).

## Not modelled

- Click recording: single inserts under foreign keys. Shop look-ups by key and tenant
  filters: each is one query, no step depends on an earlier one. Key hashing.
- Losing the API key with the answer to `create_shop`: there is no recovery a property
  could hold the code to.
- Two tabs of which one learns of a dead conversation and removes the id the other has
  stored since: `ChatWidget` has the step, nothing in the code promises anything about it.
- The export, which reads with one snapshot per statement; health, metrics, security
  headers, settings pages, prompts, landing page and deployment scripts keep no state.
- Rate limiting: counting is the library's.
- `llm_usage.conversation_id` becoming NULL when its conversation is purged, the purge of
  `llm_usage`, and the plugin's uninstaller.

FastAPI closes the session dependency before or after the stream depending on its
version; in both cases a stream holds one connection from its quota check to its commit,
which is what `Conversation` uses.

## What is left

The step from those theorems to the liveness properties themselves, once a prover handles
ENABLED. The remaining code keeps no state between steps or is covered above.
