------------------------------ MODULE CorsCache ------------------------------
(***************************************************************************)
(* The per-shop CORS allowlist (backend/api/cors_middleware.py): each      *)
(* worker caches the origins of all registered shops for a while.  The     *)
(* time a list expires is taken before the database is read, the list is   *)
(* stored when the rows are there; in between, other requests of the       *)
(* worker refresh the cache too, and shops are registered.                 *)
(*                                                                         *)
(* A request that is no preflight is handled before its origin is looked   *)
(* up: the middleware decides whether the browser may read the answer.     *)
(***************************************************************************)
EXTENDS Naturals

CONSTANTS
    Shop,           \* registrations an admin may ask for
    Origin,         \* origins of web pages, up to a trailing slash
    Domain,         \* shop -> the origin of its domain
    Extra,          \* shop -> the allowed_origins of its config
    Worker,         \* processes of the backend
    Request,        \* requests under way at the same time
    TTL,            \* cache_ttl_seconds
    MaxTime         \* bound on the time that passes

ASSUME ShopAssumption == Domain \in [Shop -> Origin] /\ Extra \in [Shop -> SUBSET Origin]
ASSUME TTLAssumption == TTL \in Nat \ {0}
ASSUME MaxTimeAssumption == MaxTime \in Nat

VARIABLES
    clock,          \* time.monotonic()
    shops,          \* registered shops
    since,          \* shop -> when it was registered
    cache,          \* worker -> the cached list and when it expires
    req             \* request -> where it is in dispatch

vars == <<clock, shops, since, cache, req>>

Time == 0 .. MaxTime
NoList == [list |-> {}, expires |-> 0]

Init ==
    /\ clock = 0
    /\ shops = {}
    /\ since = [s \in Shop |-> 0]
    /\ cache = [w \in Worker |-> NoList]
    /\ req \in [Request -> [step : {"closed"}, worker : Worker, origin : Origin,
                            now : {0}, rows : {{}}, allowed : {FALSE}]]

Origins(s) == {Domain[s]} \cup Extra[s]
Allowlist == UNION {Origins(s) : s \in shops}

Tick ==
    /\ clock < MaxTime
    /\ clock' = clock + 1
    /\ UNCHANGED <<shops, since, cache, req>>

\* create_shop; the domain of a shop is unique, a second one gets a 500.
CreateShop(s) ==
    /\ s \notin shops /\ \A other \in shops : Domain[other] # Domain[s]
    /\ shops' = shops \cup {s}
    /\ since' = [since EXCEPT ![s] = clock]
    /\ UNCHANGED <<clock, cache, req>>

(***************************************************************************)
(* dispatch                                                                *)
(***************************************************************************)
\* A preflight goes to the lookup at once, any other request to its handler.
Arrive(r, w, o) ==
    /\ req[r].step \in {"closed", "answered"}
    /\ \E step \in {"handling", "lookup"} :
          req' = [req EXCEPT ![r] = [step |-> step, worker |-> w, origin |-> o, now |-> 0,
                                     rows |-> {}, allowed |-> FALSE]]
    /\ UNCHANGED <<clock, shops, since, cache>>

Closed(r) == [req[r] EXCEPT !.step = "closed", !.now = 0, !.rows = {}, !.allowed = FALSE]

Handle(r) ==
    /\ req[r].step = "handling"
    /\ req' = [req EXCEPT ![r].step = "lookup"]
    /\ UNCHANGED <<clock, shops, since, cache>>

\* The handler or the database raises, or the client goes: no header is set and
\* nothing is cached.
Fail(r) ==
    /\ req[r].step \in {"handling", "reading", "read"}
    /\ req' = [req EXCEPT ![r] = Closed(r)]
    /\ UNCHANGED <<clock, shops, since, cache>>

\* _is_allowed: 204 or 403 for a preflight, the header or none for the rest.
Verdict(r, list, now) ==
    req' = [req EXCEPT ![r] = [@ EXCEPT !.step = "answered", !.now = now, !.rows = {},
                                        !.allowed = (req[r].origin \in list)]]

Valid(w) == clock < cache[w].expires

UseCache(r) ==
    /\ req[r].step = "lookup" /\ Valid(req[r].worker)
    /\ Verdict(r, cache[req[r].worker].list, clock)
    /\ UNCHANGED <<clock, shops, since, cache>>

StartRefresh(r) ==
    /\ req[r].step = "lookup" /\ ~Valid(req[r].worker)
    /\ req' = [req EXCEPT ![r].step = "reading", ![r].now = clock]
    /\ UNCHANGED <<clock, shops, since, cache>>

Read(r) ==
    /\ req[r].step = "reading"
    /\ req' = [req EXCEPT ![r].step = "read", ![r].rows = Allowlist]
    /\ UNCHANGED <<clock, shops, since, cache>>

\* Mutants of Store: the TTL is added twice, or to the time the list is stored.
StoreTwice(r) ==
    /\ req[r].step = "read"
    /\ cache' = [cache EXCEPT ![req[r].worker] =
                     [list |-> req[r].rows, expires |-> req[r].now + TTL + TTL]]
    /\ Verdict(r, req[r].rows, req[r].now)
    /\ UNCHANGED <<clock, shops, since>>

StoreLate(r) ==
    /\ req[r].step = "read"
    /\ cache' = [cache EXCEPT ![req[r].worker] =
                     [list |-> req[r].rows, expires |-> clock + TTL]]
    /\ Verdict(r, req[r].rows, req[r].now)
    /\ UNCHANGED <<clock, shops, since>>

\* Whatever another request has stored in the meantime is replaced.
Store(r) ==
    /\ req[r].step = "read"
    /\ cache' = [cache EXCEPT ![req[r].worker] =
                     [list |-> req[r].rows, expires |-> req[r].now + TTL]]
    /\ Verdict(r, req[r].rows, req[r].now)
    /\ UNCHANGED <<clock, shops, since>>

\* A new process has no list; what the old one was doing is lost.
Restart(w) ==
    /\ cache' = [cache EXCEPT ![w] = NoList]
    /\ req' = [r \in Request |-> IF req[r].worker = w THEN Closed(r) ELSE req[r]]
    /\ UNCHANGED <<clock, shops, since>>

(***************************************************************************)
(* Specification                                                           *)
(***************************************************************************)
Dispatch(r) ==
    \/ \E w \in Worker, o \in Origin : Arrive(r, w, o)
    \/ Handle(r) \/ Fail(r) \/ UseCache(r) \/ StartRefresh(r) \/ Read(r) \/ Store(r)

Next ==
    \/ Tick
    \/ \E s \in Shop : CreateShop(s)
    \/ \E r \in Request : Dispatch(r)
    \/ \E w \in Worker : Restart(w)

Spec == Init /\ [][Next]_vars

(***************************************************************************)
(* Properties                                                              *)
(***************************************************************************)
TypeOK ==
    /\ clock \in Time
    /\ shops \subseteq Shop
    /\ since \in [Shop -> Time]
    /\ cache \in [Worker -> [list : SUBSET Origin, expires : 0 .. MaxTime + TTL]]
    /\ req \in [Request -> [step : {"closed", "handling", "lookup", "reading", "read",
                                    "answered"},
                            worker : Worker, origin : Origin, now : Time,
                            rows : SUBSET Origin, allowed : BOOLEAN]]

\* No page of an unregistered shop is let in, and a shop that was registered a
\* TTL ago is let in by every worker: neither slow refreshes nor an older list
\* stored over a newer one keep a list in use for longer.  So a preflight that
\* one worker allows and a request another one handles without the header can
\* only meet in the first TTL of a shop.
ListIsFresh ==
    \A r \in Request : req[r].step = "answered" =>
        /\ req[r].allowed => req[r].origin \in Allowlist
        /\ \A s \in shops : req[r].origin \in Origins(s) /\ since[s] + TTL <= req[r].now =>
               req[r].allowed
==============================================================================
