--------------------------- MODULE CorsCacheProofs ---------------------------
(***************************************************************************)
(* Proofs about CorsCache: for any number of shops, workers and            *)
(* overlapping requests no list is in use for longer than the TTL.         *)
(*                                                                         *)
(* A list is as old as the time its refresh began (UpToDate), and that is  *)
(* what its expiry is computed from; who stores it last does not matter.   *)
(***************************************************************************)
EXTENDS CorsCache, TLAPS

\* A list read at some time from t on: it lacks no shop registered before t.
UpToDate(list, t) ==
    /\ list \subseteq Allowlist
    /\ \A s \in shops : since[s] < t => Origins(s) \subseteq list

CacheInv == \A w \in Worker :
    /\ cache[w].list \subseteq Allowlist
    /\ \A s \in shops : since[s] + TTL < cache[w].expires =>
           Origins(s) \subseteq cache[w].list

ReadInv == \A r \in Request : req[r].step = "read" => UpToDate(req[r].rows, req[r].now)

ClockInv ==
    /\ \A s \in Shop : since[s] <= clock
    /\ \A r \in Request : req[r].now <= clock
    /\ \A w \in Worker : cache[w].expires <= clock + TTL

AnyRequest == [step : {"closed", "handling", "lookup", "reading", "read", "answered"},
               worker : Worker, origin : Origin, now : Time, rows : SUBSET Origin,
               allowed : BOOLEAN]

IInv == TypeOK /\ ClockInv /\ CacheInv /\ ReadInv /\ ListIsFresh

USE ShopAssumption, TTLAssumption, MaxTimeAssumption

LEMMA InitIInv == Init => IInv
<1> SUFFICES ASSUME Init PROVE IInv
  OBVIOUS
<1>1. TypeOK
  <2>1. 0 \in Time /\ 0 \in 0 .. MaxTime + TTL
    BY DEF Time
  <2>2. req \in [Request -> AnyRequest]
    BY <2>1 DEF Init, AnyRequest
  <2> QED  BY <2>1, <2>2 DEF Init, TypeOK, NoList, AnyRequest
<1>2. ClockInv
  <2>1. \A r \in Request : req[r].now \in {0}
    BY DEF Init
  <2>2. \A w \in Worker : cache[w].expires = 0
    BY DEF Init, NoList
  <2> QED  BY <2>1, <2>2 DEF Init, ClockInv
<1>3. CacheInv
  BY DEF Init, CacheInv, NoList
<1>4. ReadInv /\ ListIsFresh
  BY DEF Init, ReadInv, ListIsFresh
<1> QED  BY <1>1, <1>2, <1>3, <1>4 DEF IInv

\* Time passes: nothing that is compared with it gets fresher or older.
LEMMA TickStep ==
    ASSUME IInv, Tick
    PROVE  IInv'
<1> USE DEF Tick
<1>1. TypeOK'
  BY DEF IInv, TypeOK, Time
<1>2. ClockInv'
  BY DEF IInv, TypeOK, ClockInv, Time
<1>3. Allowlist' = Allowlist
  BY DEF Allowlist, Origins
<1>4. CacheInv' /\ ReadInv' /\ ListIsFresh'
  BY <1>3 DEF IInv, CacheInv, ReadInv, UpToDate, ListIsFresh, Origins
<1> QED  BY <1>1, <1>2, <1>4 DEF IInv

\* A new shop is too young to be missed in any list.
LEMMA CreateShopStep ==
    ASSUME IInv, NEW s \in Shop, CreateShop(s)
    PROVE  IInv'
<1> USE DEF CreateShop
<1>1. TypeOK'
  BY DEF IInv, TypeOK
<1>2. ClockInv'
  BY DEF IInv, TypeOK, ClockInv, Time
<1>3. Allowlist \subseteq Allowlist'
  BY DEF Allowlist, Origins
<1>4. since'[s] = clock /\ \A other \in shops : since'[other] = since[other]
  BY DEF IInv, TypeOK
<1>5. CacheInv'
  BY <1>3, <1>4 DEF IInv, TypeOK, Time, ClockInv, CacheInv, Origins
<1>6. ReadInv'
  BY <1>3, <1>4 DEF IInv, TypeOK, Time, ClockInv, ReadInv, UpToDate, Origins
<1>7. ListIsFresh'
  BY <1>3, <1>4 DEF IInv, TypeOK, Time, ClockInv, ListIsFresh, Origins
<1> QED  BY <1>1, <1>2, <1>5, <1>6, <1>7 DEF IInv

LEMMA ClosedRequest ==
    ASSUME IInv, NEW r \in Request
    PROVE  /\ Closed(r) \in AnyRequest /\ Closed(r).step = "closed" /\ Closed(r).now = 0
           /\ 0 <= clock
<1>1. req[r] \in AnyRequest /\ 0 \in Time /\ 0 <= clock
  BY DEF IInv, TypeOK, AnyRequest, Time
<1> QED  BY <1>1 DEF Closed, AnyRequest

\* What dispatch does to a request without reading or storing a list.
LEMMA ProceedStep ==
    ASSUME IInv, NEW r \in Request, UNCHANGED <<clock, shops, since, cache>>,
           NEW q \in AnyRequest, q.step \notin {"read", "answered"},
           q.now <= clock, req' = [req EXCEPT ![r] = q]
    PROVE  IInv'
<1>1. Allowlist' = Allowlist
  BY DEF Allowlist, Origins
<1>2. TypeOK' /\ ClockInv'
  BY DEF IInv, TypeOK, ClockInv, AnyRequest
<1>3. CacheInv'
  BY <1>1 DEF IInv, CacheInv, Origins
<1>4. ReadInv' /\ ListIsFresh'
  BY <1>1 DEF IInv, TypeOK, ReadInv, UpToDate, ListIsFresh, Origins
<1> QED  BY <1>2, <1>3, <1>4 DEF IInv

\* An answer that follows a list is fresh if the list is.
LEMMA VerdictStep ==
    ASSUME IInv, NEW r \in Request, UNCHANGED <<clock, shops, since>>,
           NEW list \in SUBSET Allowlist, NEW now \in Time, now <= clock,
           \A s \in shops : since[s] + TTL <= now => Origins(s) \subseteq list,
           Verdict(r, list, now)
    PROVE  /\ req' \in [Request -> AnyRequest]
           /\ \A q \in Request : req'[q].now <= clock
           /\ ReadInv' /\ ListIsFresh'
<1>1. Allowlist' = Allowlist
  BY DEF Allowlist, Origins
<1>2. req' \in [Request -> AnyRequest]
  <2> DEFINE allowed == req[r].origin \in list
             q == [req[r] EXCEPT !.step = "answered", !.now = now, !.rows = {},
                                 !.allowed = allowed]
  <2>1. req \in [Request -> AnyRequest]
    BY DEF IInv, TypeOK, AnyRequest
  <2>2. allowed \in BOOLEAN
    OBVIOUS
  <2>3. q \in AnyRequest
    <3> HIDE DEF allowed
    <3> QED  BY <2>1, <2>2 DEF AnyRequest
  <2>4. req' = [req EXCEPT ![r] = q]
    BY DEF Verdict
  <2> HIDE DEF q
  <2> QED  BY <2>1, <2>3, <2>4
<1>3. \A q \in Request : req'[q].now <= clock
  BY DEF Verdict, IInv, TypeOK, ClockInv
<1>4. ReadInv'
  BY <1>1 DEF Verdict, IInv, TypeOK, ReadInv, UpToDate, Origins
<1>5. ListIsFresh'
  BY <1>1 DEF Verdict, IInv, TypeOK, ListIsFresh, Origins
<1> QED  BY <1>2, <1>3, <1>4, <1>5

LEMMA UseCacheStep ==
    ASSUME IInv, NEW r \in Request, UseCache(r)
    PROVE  IInv'
<1> DEFINE w == req[r].worker
<1>1. w \in Worker /\ clock \in Time /\ clock < cache[w].expires
  BY DEF UseCache, Valid, IInv, TypeOK
<1>2. \A s \in shops : since[s] + TTL <= clock => Origins(s) \subseteq cache[w].list
  BY <1>1 DEF IInv, TypeOK, Time, CacheInv
<1>3. cache[w].list \subseteq Allowlist
  BY <1>1 DEF IInv, CacheInv
<1>4. Verdict(r, cache[w].list, clock) /\ UNCHANGED <<clock, shops, since, cache>>
  BY DEF UseCache
<1>5. TypeOK' /\ ClockInv' /\ ReadInv' /\ ListIsFresh'
  <2>1. clock <= clock
    BY <1>1 DEF Time
  <2> QED  BY <1>1, <1>2, <1>3, <1>4, <2>1, VerdictStep DEF IInv, TypeOK, ClockInv, AnyRequest
<1>6. CacheInv'
  BY <1>4 DEF IInv, CacheInv, Allowlist, Origins
<1> QED  BY <1>5, <1>6 DEF IInv

LEMMA ReadStep ==
    ASSUME IInv, NEW r \in Request, Read(r)
    PROVE  IInv'
<1> USE DEF Read
<1>1. Allowlist' = Allowlist /\ Allowlist \subseteq Origin
  BY DEF Allowlist, Origins, IInv, TypeOK
<1>2. TypeOK' /\ ClockInv'
  BY <1>1 DEF IInv, TypeOK, ClockInv
<1>3. UpToDate(Allowlist, req[r].now)
  BY DEF UpToDate, Allowlist
<1>4. CacheInv' /\ ListIsFresh'
  BY <1>1 DEF IInv, TypeOK, CacheInv, ListIsFresh, Origins
<1>5. ReadInv'
  <2>1. req'[r].now = req[r].now /\ req'[r].rows = Allowlist
    BY DEF IInv, TypeOK
  <2>2. \A q \in Request \ {r} : req'[q] = req[q]
    BY DEF IInv, TypeOK
  <2>3. \A list, t : UpToDate(list, t) => UpToDate(list, t)'
    BY <1>1 DEF UpToDate, Origins
  <2> QED  BY <1>3, <2>1, <2>2, <2>3 DEF IInv, ReadInv, UpToDate
<1> QED  BY <1>2, <1>4, <1>5 DEF IInv

LEMMA StoreStep ==
    ASSUME IInv, NEW r \in Request, Store(r)
    PROVE  IInv'
<1> DEFINE q == req[r]
<1>1. /\ q.worker \in Worker /\ q.now \in Time /\ q.now <= clock /\ clock \in Time
      /\ q.rows \in SUBSET Origin
  BY DEF IInv, TypeOK, ClockInv
<1>2. UpToDate(q.rows, q.now)
  BY DEF Store, IInv, ReadInv
<1>3. /\ cache' = [cache EXCEPT ![q.worker] = [list |-> q.rows, expires |-> q.now + TTL]]
      /\ Verdict(r, q.rows, q.now) /\ UNCHANGED <<clock, shops, since>>
  BY DEF Store
<1>4. \A s \in shops : since[s] + TTL <= q.now => Origins(s) \subseteq q.rows
  BY <1>1, <1>2 DEF UpToDate, IInv, TypeOK, Time
<1>5. q.rows \subseteq Allowlist
  BY <1>2 DEF UpToDate
<1>6. cache' \in [Worker -> [list : SUBSET Origin, expires : 0 .. MaxTime + TTL]]
  BY <1>1, <1>3 DEF IInv, TypeOK, Time
<1>7. \A w \in Worker : cache'[w].expires <= clock + TTL
  BY <1>1, <1>3 DEF IInv, TypeOK, ClockInv, Time
<1>8. TypeOK' /\ ClockInv' /\ ReadInv' /\ ListIsFresh'
  BY <1>1, <1>3, <1>4, <1>5, <1>6, <1>7, VerdictStep DEF IInv, TypeOK, ClockInv, AnyRequest
<1>9. CacheInv'
  <2>1. Allowlist' = Allowlist
    BY <1>3 DEF Allowlist, Origins
  <2>2. \A s \in shops : since[s] + TTL < q.now + TTL => since[s] < q.now
    BY <1>1 DEF IInv, TypeOK, Time
  <2> QED  BY <1>1, <1>2, <1>3, <2>1, <2>2 DEF IInv, TypeOK, CacheInv, UpToDate, Origins
<1> QED  BY <1>8, <1>9 DEF IInv

LEMMA RestartStep ==
    ASSUME IInv, NEW w \in Worker, Restart(w)
    PROVE  IInv'
<1>1. Allowlist' = Allowlist /\ UNCHANGED <<clock, shops, since>>
  BY DEF Restart, Allowlist, Origins
<1>2. \A r \in Request : req'[r] = req[r] \/ req'[r] = Closed(r)
  BY DEF Restart
<1>3. /\ req' \in [Request -> AnyRequest]
      /\ \A r \in Request : req'[r].now <= clock
      /\ \A r \in Request : req'[r].step \in {"read", "answered"} => req'[r] = req[r]
  BY <1>2, ClosedRequest DEF Restart, IInv, TypeOK, ClockInv, AnyRequest
<1>4. cache' = [cache EXCEPT ![w] = NoList]
  BY DEF Restart
<1>5. TypeOK'
  BY <1>1, <1>3, <1>4 DEF IInv, TypeOK, NoList, AnyRequest
<1>6. ClockInv'
  BY <1>1, <1>3, <1>4 DEF IInv, TypeOK, ClockInv, NoList, Time
<1>7. CacheInv'
  <2>1. \A s \in shops : ~(since[s] + TTL < 0)
    BY DEF IInv, TypeOK, Time
  <2> QED  BY <1>1, <1>4, <2>1 DEF IInv, TypeOK, CacheInv, NoList, Origins
<1>8. ReadInv' /\ ListIsFresh'
  BY <1>1, <1>3 DEF IInv, ReadInv, UpToDate, ListIsFresh, Origins
<1> QED  BY <1>5, <1>6, <1>7, <1>8 DEF IInv

LEMMA NextIInv == IInv /\ [Next]_vars => IInv'
<1> SUFFICES ASSUME IInv, [Next]_vars PROVE IInv'
  OBVIOUS
<1>1. CASE UNCHANGED vars
  BY <1>1 DEF vars, IInv, TypeOK, ClockInv, CacheInv, ReadInv, UpToDate, ListIsFresh,
              Allowlist, Origins
<1>2. ASSUME NEW r \in Request, Dispatch(r) PROVE IInv'
  <2>1. ASSUME NEW w \in Worker, NEW o \in Origin, Arrive(r, w, o) PROVE IInv'
    <3>1. PICK step \in {"handling", "lookup"} :
              req' = [req EXCEPT ![r] = [step |-> step, worker |-> w, origin |-> o,
                                         now |-> 0, rows |-> {}, allowed |-> FALSE]]
      BY <2>1 DEF Arrive
    <3>2. [step |-> step, worker |-> w, origin |-> o, now |-> 0, rows |-> {},
           allowed |-> FALSE] \in AnyRequest
      BY DEF AnyRequest, Time
    <3>3. 0 <= clock
      BY DEF IInv, TypeOK, Time
    <3> QED  BY <2>1, <3>1, <3>2, <3>3, ProceedStep DEF Arrive
  <2>2. CASE Handle(r)
    <3> DEFINE q == [req[r] EXCEPT !.step = "lookup"]
    <3>1. req' = [req EXCEPT ![r] = q]
      BY <2>2 DEF Handle, IInv, TypeOK
    <3>2. q.now <= clock
      BY DEF IInv, TypeOK, ClockInv
    <3>3. q \in AnyRequest /\ q.step = "lookup"
      BY DEF IInv, TypeOK, AnyRequest
    <3> QED  BY <2>2, <3>1, <3>2, <3>3, ProceedStep DEF Handle
  <2>3. CASE Fail(r)
    <3>1. UNCHANGED <<clock, shops, since, cache>> /\ req' = [req EXCEPT ![r] = Closed(r)]
      BY <2>3 DEF Fail
    <3> QED  BY <3>1, ClosedRequest, ProceedStep
  <2>4. CASE StartRefresh(r)
    <3> DEFINE q == [req[r] EXCEPT !.step = "reading", !.now = clock]
    <3>1. req' = [req EXCEPT ![r] = q]
      BY <2>4 DEF StartRefresh, IInv, TypeOK
    <3>2. q.now <= clock
      BY DEF IInv, TypeOK, Time
    <3>3. q \in AnyRequest /\ q.step = "reading"
      BY DEF IInv, TypeOK, AnyRequest
    <3> QED  BY <2>4, <3>1, <3>2, <3>3, ProceedStep DEF StartRefresh
  <2> QED  BY <1>2, <2>1, <2>2, <2>3, <2>4, UseCacheStep, ReadStep, StoreStep DEF Dispatch
<1>3. CASE Next
  BY <1>2, <1>3, TickStep, CreateShopStep, RestartStep DEF Next
<1> QED  BY <1>1, <1>3

LEMMA Invariance == Spec => []IInv
BY InitIInv, NextIInv, PTL DEF Spec

\* The variables keep their types.
THEOREM TypeCorrect == Spec => []TypeOK
<1>1. IInv => TypeOK
  BY DEF IInv
<1> QED  BY <1>1, Invariance, PTL

\* No page of an unregistered shop is let in, and every worker lets a shop in that
\* was registered a TTL ago, however refreshes of the allowlist overlap.
THEOREM AlwaysFresh == Spec => []ListIsFresh
<1>1. IInv => ListIsFresh
  BY DEF IInv
<1> QED  BY <1>1, Invariance, PTL
==============================================================================
