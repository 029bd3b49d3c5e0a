---------------------------- MODULE BillingProofs ----------------------------
(***************************************************************************)
(* Proofs about Billing, for any number of subscriptions, changes,         *)
(* redeliveries and overlapping handlers: a shop that paid is linked to    *)
(* the subscription paid last, unless its checkout was overtaken by an     *)
(* older one, the period columns belong together, and the row follows      *)
(* Stripe when the events are handled in order.                            *)
(*                                                                         *)
(* A handler may write over what others have committed since it read the   *)
(* row; what it read only ever becomes more linked (ReadInv), and a row    *)
(* without a checkout has the event still to come (LinkInv).               *)
(*                                                                         *)
(* The quota that the period columns are for is the last part.             *)
(***************************************************************************)
EXTENDS Billing, PeriodQuota, FiniteSetTheorems, SequenceTheorems, TLAPS

NotTorn(r) == r.end = IF r.start = 0 THEN 0 ELSE r.start + 1

\* The events of Stripe are about a billing cycle that has begun.
Announced == {event \in Event : event.snapshot.cycle # 0}

CycleInv ==
    /\ outbox \in Seq(Announced)
    /\ \A s \in Sub :
          /\ subscription[s].cycle <= changes
          /\ subscription[s].status # "inactive" => subscription[s].cycle # 0

Types == {"checkout.session.completed", "customer.subscription.created",
          "customer.subscription.updated", "customer.subscription.deleted"}

Linked(r) == r.sub # NoSub /\ r.customer

ReadInv == \A w \in Worker : handler[w] # <<>> =>
    /\ handler[w][1].event \in Announced
    /\ NotTorn(handler[w][1].read)
    /\ handler[w][1].read.customer => row.customer
    /\ handler[w][1].read.sub # NoSub => row.sub # NoSub

LinkInv == latest # NoSub =>
    \/ \E i \in 1 .. Len(outbox) : Checkout(outbox[i])
    \/ \E w \in Worker : handler[w] # <<>> /\ Checkout(handler[w][1].event)
    \/ Linked(row)

IInv == TypeOK /\ CycleInv /\ PeriodNotTorn /\ ReadInv /\ LinkInv

USE NoSubAssumption, PlanAssumption, BoundsAssumption

LEMMA InitIInv == Init => IInv
<1> SUFFICES ASSUME Init PROVE IInv
  OBVIOUS
<1>1. 0 \in Cycles /\ 0 \in 0 .. MaxChanges + 1 /\ 0 \in 0 .. MaxChanges /\ "starter" \in Plan
  BY DEF Cycles
<1>2. [status |-> "inactive", cycle |-> 0, plan |-> "starter"] \in Snapshot
  BY <1>1 DEF Snapshot, Statuses
<1>3. row \in Row
  BY <1>1 DEF Init, Row, Statuses
<1>4. outbox = <<>> /\ outbox \in Seq(Event) /\ outbox \in Seq(Announced) /\ Len(outbox) = 0
  BY DEF Init
<1>5. \A w \in Worker : handler[w] = <<>>
  BY DEF Init
<1>6. TypeOK
  <2>1. latest \in Sub \cup {NoSub} /\ overtaken \in BOOLEAN
    BY DEF Init
  <2> QED  BY <1>1, <1>2, <1>3, <1>4, <1>5, <2>1 DEF Init, TypeOK
<1>7. CycleInv
  BY <1>4 DEF Init, CycleInv
<1>8. PeriodNotTorn /\ ReadInv /\ LinkInv
  BY <1>5 DEF Init, PeriodNotTorn, ReadInv, LinkInv
<1> QED  BY <1>6, <1>7, <1>8 DEF IInv

(***************************************************************************)
(* Stripe                                                                  *)
(***************************************************************************)
\* The new events are at the end of the outbox.
LEMMA AnnouncedOutbox ==
    ASSUME outbox \in Seq(Announced), NEW s \in Sub, NEW snapshot \in Snapshot,
           NEW types \in Seq(Types), Announces(s, snapshot, types), snapshot.cycle # 0
    PROVE  /\ outbox' \in Seq(Announced) /\ Len(outbox') = Len(outbox) + Len(types)
           /\ \A i \in 1 .. Len(outbox) : outbox'[i] = outbox[i]
           /\ \A i \in 1 .. Len(types) : outbox'[Len(outbox) + i] =
                  [type |-> types[i], sub |-> s, snapshot |-> snapshot, left |-> Retries]
<1> DEFINE event(i) == [type |-> types[i], sub |-> s, snapshot |-> snapshot, left |-> Retries]
           new == [i \in DOMAIN types |-> event(i)]
<1>1. outbox' = outbox \o new
  BY DEF Announces
<1>2. DOMAIN types = 1 .. Len(types) /\ Len(types) \in Nat
  OBVIOUS
<1>3. \A i \in 1 .. Len(types) : event(i) \in Announced
  BY DEF Announced, Event, Snapshot, Types
<1>4. /\ new \in Seq(Announced) /\ Len(new) = Len(types)
      /\ \A i \in 1 .. Len(types) : new[i] = event(i)
  <2> HIDE DEF event
  <2> QED  BY <1>2, <1>3
<1> HIDE DEF new
<1>5. /\ Len(outbox) \in Nat /\ Len(new) \in Nat /\ outbox \o new \in Seq(Announced)
      /\ Len(outbox \o new) = Len(outbox) + Len(new)
      /\ \A i \in 1 .. Len(outbox) + Len(new) :
            (outbox \o new)[i] = IF i <= Len(outbox) THEN outbox[i] ELSE new[i - Len(outbox)]
  <2>1. outbox \in Seq(Announced) /\ new \in Seq(Announced)
    BY <1>4
  <2> QED  BY <2>1, ConcatProperties
<1>6. ASSUME NEW i \in 1 .. Len(outbox) PROVE outbox'[i] = outbox[i]
  BY <1>1, <1>5
<1>7. ASSUME NEW i \in 1 .. Len(types) PROVE outbox'[Len(outbox) + i] = event(i)
  <2>1. Len(outbox) + i \in 1 .. Len(outbox) + Len(new) /\ ~(Len(outbox) + i <= Len(outbox))
        /\ (Len(outbox) + i) - Len(outbox) = i
    BY <1>4, <1>5
  <2>2. outbox'[Len(outbox) + i] = new[i]
    BY <1>1, <1>5, <2>1
  <2> QED  BY <1>4, <2>2
<1> QED  BY <1>1, <1>4, <1>5, <1>6, <1>7

\* A change of a subscription that has begun.
LEMMA AnnouncesStep ==
    ASSUME IInv, NEW s \in Sub, NEW snapshot \in Snapshot, NEW types \in Seq(Types),
           Announces(s, snapshot, types), snapshot.status # "inactive",
           snapshot.cycle # 0, snapshot.cycle <= changes + 1,
           latest' \in Sub \cup {NoSub}, overtaken' \in BOOLEAN,
           latest' = latest \/ \E i \in 1 .. Len(types) :
               types[i] = "checkout.session.completed"
    PROVE  IInv'
<1>1. /\ changes < MaxChanges /\ changes' = changes + 1
      /\ subscription' = [subscription EXCEPT ![s] = snapshot]
      /\ UNCHANGED <<row, handler, orderly>>
  BY DEF Announces
<1>2. /\ outbox \in Seq(Event) /\ outbox \in Seq(Announced) /\ Len(outbox) \in Nat
      /\ Len(types) \in Nat /\ changes \in 0 .. MaxChanges
  BY DEF IInv, TypeOK, CycleInv
<1>3. /\ outbox' \in Seq(Announced) /\ Len(outbox') = Len(outbox) + Len(types)
      /\ \A i \in 1 .. Len(outbox) : outbox'[i] = outbox[i]
      /\ \A i \in 1 .. Len(types) : outbox'[Len(outbox) + i] =
             [type |-> types[i], sub |-> s, snapshot |-> snapshot, left |-> Retries]
  BY <1>2, AnnouncedOutbox
<1>4. outbox' \in Seq(Event)
  <2>1. Announced \subseteq Event
    BY DEF Announced
  <2> QED  BY <1>3, <2>1
<1>5. TypeOK'
  <2>1. changes' \in 0 .. MaxChanges
    BY <1>1, <1>2
  <2>2. subscription' \in [Sub -> Snapshot]
    BY <1>1 DEF IInv, TypeOK
  <2> QED  BY <1>1, <1>4, <2>1, <2>2 DEF IInv, TypeOK
<1>6. CycleInv'
  BY <1>1, <1>2, <1>3 DEF IInv, TypeOK, CycleInv, Snapshot, Cycles
<1>7. PeriodNotTorn' /\ ReadInv'
  BY <1>1 DEF IInv, PeriodNotTorn, ReadInv
<1>8. LinkInv'
  <2>1. CASE latest' = latest
    <3>1. \A i \in 1 .. Len(outbox) : i \in 1 .. Len(outbox') /\ outbox'[i] = outbox[i]
      BY <1>2, <1>3
    <3> QED  BY <1>1, <2>1, <3>1 DEF IInv, LinkInv
  <2>2. ASSUME NEW i \in 1 .. Len(types), types[i] = "checkout.session.completed"
        PROVE  LinkInv'
    <3>1. Len(outbox) + i \in 1 .. Len(outbox')
      BY <1>2, <1>3
    <3>2. outbox'[Len(outbox) + i] =
              [type |-> types[i], sub |-> s, snapshot |-> snapshot, left |-> Retries]
      BY <1>3, Zenon
    <3>3. Checkout(outbox'[Len(outbox) + i])
      BY <2>2, <3>2 DEF Checkout
    <3> QED  BY <3>1, <3>3 DEF LinkInv
  <2> QED  BY <2>1, <2>2
<1> QED  BY <1>5, <1>6, <1>7, <1>8 DEF IInv

LEMMA StripeStep ==
    ASSUME IInv, NEW s \in Sub, Stripe(s)
    PROVE  IInv'
<1>1. /\ subscription[s] \in Snapshot /\ subscription[s].cycle <= changes
      /\ subscription[s].status # "inactive" => subscription[s].cycle # 0
      /\ changes \in 0 .. MaxChanges /\ subscription[s].cycle \in 0 .. MaxChanges
  BY DEF IInv, TypeOK, CycleInv, Snapshot, Cycles
<1>2. ASSUME NEW p \in Plan, Subscribe(s, p) PROVE IInv'
  <2> DEFINE new == [status |-> "active", cycle |-> 1, plan |-> p]
             types == <<"checkout.session.completed", "customer.subscription.created">>
  <2>1. Announces(s, new, types) /\ changes < MaxChanges
    BY <1>2 DEF Subscribe, Announces
  <2>2. new \in Snapshot /\ new.status # "inactive" /\ new.cycle # 0 /\ new.cycle <= changes + 1
    BY <1>1, <2>1 DEF Snapshot, Statuses, Cycles
  <2>3. types \in Seq(Types) /\ Len(types) = 2 /\ types[1] = "checkout.session.completed"
    BY DEF Types
  <2> HIDE DEF new, types
  <2>4. 1 \in 1 .. Len(types)
    BY <2>3
  <2>5. latest' \in Sub \cup {NoSub} /\ overtaken' \in BOOLEAN
    BY <1>2 DEF Subscribe
  <2> QED  BY <2>1, <2>2, <2>3, <2>4, <2>5, AnnouncesStep
<1>3. ASSUME NEW new \in Snapshot, NEW type \in {"customer.subscription.updated",
                                                "customer.subscription.deleted"},
             Announces(s, new, <<type>>), new.status # "inactive",
             subscription[s].status # "inactive", UNCHANGED observers,
             new.cycle \in {subscription[s].cycle, subscription[s].cycle + 1}
      PROVE  IInv'
  <2> DEFINE types == <<type>>
  <2>1. types \in Seq(Types)
    BY DEF Types
  <2>2. new.cycle # 0 /\ new.cycle <= changes + 1
    BY <1>1, <1>3
  <2>3. Announces(s, new, types)
    BY <1>3
  <2>4. latest' = latest /\ latest' \in Sub \cup {NoSub} /\ overtaken' \in BOOLEAN
    BY <1>3 DEF observers, IInv, TypeOK
  <2> HIDE DEF types
  <2> QED  BY <1>3, <2>1, <2>2, <2>3, <2>4, AnnouncesStep
<1>4. CASE Renew(s)
  <2> DEFINE new == [subscription[s] EXCEPT !.status = "active", !.cycle = @ + 1]
  <2>1. Announces(s, new, <<"customer.subscription.updated">>) /\ changes < MaxChanges
    BY <1>4 DEF Renew, Announces
  <2>2. subscription[s].cycle + 1 \in Cycles
    BY <1>1, <2>1 DEF Cycles
  <2>3. new \in Snapshot /\ new.status = "active" /\ new.cycle = subscription[s].cycle + 1
    BY <1>1, <2>2 DEF Snapshot, Statuses
  <2>4. subscription[s].status # "inactive" /\ UNCHANGED observers
    BY <1>4 DEF Renew, Live
  <2> HIDE DEF new
  <2> QED  BY <1>3, <2>1, <2>3, <2>4
<1>5. CASE FailPayment(s)
  <2> DEFINE new == [subscription[s] EXCEPT !.status = "past_due"]
  <2>1. /\ Announces(s, new, <<"customer.subscription.updated">>) /\ subscription[s].status # "inactive"
        /\ UNCHANGED observers
    BY <1>5 DEF FailPayment
  <2>2. new \in Snapshot /\ new.status = "past_due" /\ new.cycle = subscription[s].cycle
    BY <1>1 DEF Snapshot, Statuses
  <2> HIDE DEF new
  <2> QED  BY <1>3, <2>1, <2>2
<1>6. ASSUME NEW p \in Plan, ChangePlan(s, p) PROVE IInv'
  <2> DEFINE new == [subscription[s] EXCEPT !.plan = p]
  <2>1. /\ Announces(s, new, <<"customer.subscription.updated">>) /\ subscription[s].status # "inactive"
        /\ UNCHANGED observers
    BY <1>6 DEF ChangePlan, Live
  <2>2. /\ new \in Snapshot /\ new.status = subscription[s].status
        /\ new.cycle = subscription[s].cycle
    BY <1>1 DEF Snapshot, Statuses
  <2> HIDE DEF new
  <2> QED  BY <1>3, <2>1, <2>2
<1>7. CASE Cancel(s)
  <2> DEFINE new == [subscription[s] EXCEPT !.status = "canceled"]
  <2>1. /\ Announces(s, new, <<"customer.subscription.deleted">>) /\ subscription[s].status # "inactive"
        /\ UNCHANGED observers
    BY <1>7 DEF Cancel, Live
  <2>2. new \in Snapshot /\ new.status = "canceled" /\ new.cycle = subscription[s].cycle
    BY <1>1 DEF Snapshot, Statuses
  <2> HIDE DEF new
  <2> QED  BY <1>3, <2>1, <2>2
<1> QED  BY <1>2, <1>4, <1>5, <1>6, <1>7 DEF Stripe

(***************************************************************************)
(* The handlers                                                            *)
(***************************************************************************)
SameEvent(a, b) == a.type = b.type /\ a.sub = b.sub

\* An event that is taken leaves the others in the outbox, and adds none.
LEMMA TakenOutbox ==
    ASSUME outbox \in Seq(Announced), NEW i \in 1 .. Len(outbox), Taken(i)
    PROVE  /\ outbox' \in Seq(Announced)
           /\ \A j \in 1 .. Len(outbox) : j # i =>
                  \E k \in 1 .. Len(outbox') : SameEvent(outbox'[k], outbox[j])
           /\ \A k \in 1 .. Len(outbox') :
                  \E j \in 1 .. Len(outbox) : SameEvent(outbox'[k], outbox[j])
<1> DEFINE n == Len(outbox)
<1>1. /\ n \in Nat /\ \A j \in 1 .. n : outbox[j] \in Announced
  OBVIOUS
<1>2. CASE outbox' = RemoveAt(outbox, i)
  <2> DEFINE a == SubSeq(outbox, 1, i - 1)
             b == SubSeq(outbox, i + 1, n)
  <2>1. i \in Int /\ i + 1 \in Int /\ i - 1 \in Int /\ n \in Int /\ i \in 1 .. n
    BY <1>1
  <2>2. /\ a \in Seq(Announced) /\ Len(a) = i - 1
        /\ \A j \in 1 .. i - 1 : a[j] = outbox[j]
    <3>1. \A j \in 1 .. i - 1 : outbox[j] \in Announced
      BY <1>1, <2>1
    <3>2. /\ a \in Seq(Announced)
          /\ Len(a) = IF 1 <= i - 1 THEN i - 1 - 1 + 1 ELSE 0
          /\ \A j \in 1 .. i - 1 - 1 + 1 : a[j] = outbox[1 + j - 1]
      BY <2>1, <3>1, SubSeqProperties
    <3> HIDE DEF a
    <3> QED  BY <2>1, <3>2
  <2>3. /\ b \in Seq(Announced) /\ Len(b) = n - i
        /\ \A j \in 1 .. n - i : b[j] = outbox[i + j]
    <3>1. \A j \in i + 1 .. n : outbox[j] \in Announced
      BY <1>1, <2>1
    <3>2. /\ b \in Seq(Announced)
          /\ Len(b) = IF i + 1 <= n THEN n - (i + 1) + 1 ELSE 0
          /\ \A j \in 1 .. n - (i + 1) + 1 : b[j] = outbox[(i + 1) + j - 1]
      BY <2>1, <3>1, SubSeqProperties
    <3> HIDE DEF b
    <3>3. Len(b) = n - i
      BY <1>1, <2>1, <3>2
    <3>4. ASSUME NEW j \in 1 .. n - i PROVE b[j] = outbox[i + j]
      <4>1. j \in 1 .. n - (i + 1) + 1 /\ (i + 1) + j - 1 = i + j
        BY <1>1, <2>1
      <4> QED  BY <3>2, <4>1
    <3> QED  BY <3>2, <3>3, <3>4
  <2>4. outbox' = a \o b
    BY <1>2 DEF RemoveAt
  <2> HIDE DEF a, b
  <2>5. /\ a \o b \in Seq(Announced) /\ Len(a \o b) = Len(a) + Len(b)
        /\ \A k \in 1 .. Len(a) + Len(b) :
               (a \o b)[k] = IF k <= Len(a) THEN a[k] ELSE b[k - Len(a)]
    BY <2>2, <2>3, ConcatProperties
  <2>6. ASSUME NEW j \in 1 .. n, j # i
        PROVE  \E k \in 1 .. Len(outbox') : SameEvent(outbox'[k], outbox[j])
    <3>1. CASE j < i
      <4>1. j \in 1 .. Len(a) + Len(b) /\ j <= Len(a) /\ a[j] = outbox[j]
        BY <1>1, <2>1, <2>2, <2>3, <3>1
      <4> QED  BY <2>4, <2>5, <4>1 DEF SameEvent
    <3>2. CASE j > i
      <4>1. /\ j - 1 \in 1 .. Len(a) + Len(b) /\ ~(j - 1 <= Len(a))
            /\ b[(j - 1) - Len(a)] = outbox[j]
        <5>1. (j - 1) - Len(a) = j - i /\ j - i \in 1 .. n - i /\ i + (j - i) = j
          BY <1>1, <2>1, <2>2, <3>2
        <5>2. b[j - i] = outbox[j]
          BY <2>3, <5>1
        <5> QED  BY <1>1, <2>1, <2>2, <2>3, <3>2, <5>1, <5>2
      <4> QED  BY <2>4, <2>5, <4>1 DEF SameEvent
    <3> QED  BY <2>1, <2>6, <3>1, <3>2
  <2>7. ASSUME NEW k \in 1 .. Len(outbox')
        PROVE  \E j \in 1 .. n : SameEvent(outbox'[k], outbox[j])
    <3>1. k \in 1 .. Len(a) + Len(b)
      BY <2>4, <2>5
    <3>2. CASE k <= Len(a)
      <4>1. k \in 1 .. n /\ outbox'[k] = outbox[k]
        BY <1>1, <2>1, <2>2, <2>4, <2>5, <3>1, <3>2
      <4> QED  BY <4>1 DEF SameEvent
    <3>3. CASE ~(k <= Len(a))
      <4>1. /\ k - Len(a) \in 1 .. n - i /\ i + (k - Len(a)) \in 1 .. n
        BY <1>1, <2>1, <2>2, <2>3, <3>1, <3>3
      <4>2. outbox'[k] = outbox[i + (k - Len(a))]
        BY <2>3, <2>4, <2>5, <3>1, <3>3, <4>1
      <4> QED  BY <4>1, <4>2 DEF SameEvent
    <3> QED  BY <3>2, <3>3
  <2> QED  BY <2>4, <2>5, <2>6, <2>7
<1>3. CASE outbox[i].left > 0 /\ outbox' = [outbox EXCEPT ![i].left = @ - 1]
  <2>1. [outbox[i] EXCEPT !.left = @ - 1] \in Announced
    <3>1. outbox[i] \in Event /\ outbox[i].left - 1 \in 0 .. Retries
      BY <1>1, <1>3 DEF Announced, Event
    <3> QED  BY <1>1, <3>1 DEF Announced, Event
  <2>2. outbox' \in Seq(Announced) /\ Len(outbox') = n
    BY <1>1, <1>3, <2>1
  <2>3. \A j \in 1 .. n : SameEvent(outbox'[j], outbox[j])
    BY <1>1, <1>3 DEF Announced, Event, SameEvent
  <2> QED  BY <2>2, <2>3
<1> QED  BY <1>2, <1>3 DEF Taken

LEMMA IgnoreStep ==
    ASSUME IInv, NEW w \in Worker, NEW i \in 1 .. Len(outbox), Ignore(w, i)
    PROVE  IInv'
<1>1. /\ Taken(i) /\ UNCHANGED <<subscription, changes, row, handler, latest, overtaken>>
      /\ ~Checkout(outbox[i]) /\ outbox \in Seq(Announced)
  BY DEF Ignore, Concerns, Checkout, IInv, CycleInv
<1>2. /\ outbox' \in Seq(Announced) /\ outbox' \in Seq(Event) /\ orderly' \in BOOLEAN
  <2>1. Announced \subseteq Event
    BY DEF Announced
  <2> QED  BY <1>1, <2>1, TakenOutbox DEF IInv, TypeOK, Taken
<1>3. TypeOK' /\ CycleInv' /\ PeriodNotTorn' /\ ReadInv'
  BY <1>1, <1>2 DEF IInv, TypeOK, CycleInv, PeriodNotTorn, ReadInv
<1>4. ASSUME NEW j \in 1 .. Len(outbox), Checkout(outbox[j])
      PROVE  \E k \in 1 .. Len(outbox') : Checkout(outbox'[k])
  BY <1>1, <1>4, TakenOutbox DEF Checkout, SameEvent
<1>5. LinkInv'
  BY <1>1, <1>4 DEF IInv, LinkInv
<1> QED  BY <1>3, <1>5 DEF IInv

LEMMA ReadStep ==
    ASSUME IInv, NEW w \in Worker, NEW i \in 1 .. Len(outbox), Read(w, i)
    PROVE  IInv'
<1> DEFINE new == [event |-> outbox[i], read |-> row]
<1>1. /\ Taken(i) /\ UNCHANGED <<subscription, changes, row, latest>>
      /\ overtaken' \in BOOLEAN
      /\ handler' = [handler EXCEPT ![w] = <<new>>] /\ handler[w] = <<>>
      /\ outbox \in Seq(Announced)
  BY DEF Read, IInv, CycleInv
<1>2. /\ outbox' \in Seq(Announced) /\ outbox' \in Seq(Event) /\ orderly' \in BOOLEAN
      /\ outbox[i] \in Announced /\ outbox[i] \in Event
  <2>1. Announced \subseteq Event
    BY DEF Announced
  <2> QED  BY <1>1, <2>1, TakenOutbox DEF IInv, TypeOK, Taken
<1>3. /\ handler'[w] = <<new>> /\ <<new>> # <<>> /\ Len(<<new>>) = 1 /\ <<new>>[1] = new
      /\ \A v \in Worker : v # w => handler'[v] = handler[v]
      /\ new \in [event : Event, read : Row]
  BY <1>1, <1>2 DEF IInv, TypeOK
<1>4. TypeOK'
  <2>1. handler' \in [Worker -> Seq([event : Event, read : Row])]
    <3>1. <<new>> \in Seq([event : Event, read : Row])
      BY <1>3
    <3> QED  BY <1>1, <3>1 DEF IInv, TypeOK
  <2>2. ASSUME NEW v \in Worker PROVE Len(handler'[v]) <= 1
    <3>1. CASE v = w
      <4> DEFINE q == <<new>>
      <4>1. handler'[w] = q /\ Len(q) = 1
        BY <1>3
      <4> HIDE DEF q
      <4> QED  BY <3>1, <4>1
    <3>2. CASE v # w
      BY <1>3, <3>2 DEF IInv, TypeOK
    <3> QED  BY <3>1, <3>2
  <2> QED  BY <1>1, <1>2, <2>1, <2>2 DEF IInv, TypeOK
<1>5. CycleInv' /\ PeriodNotTorn'
  BY <1>1, <1>2 DEF IInv, CycleInv, PeriodNotTorn
<1>6. ReadInv'
  BY <1>1, <1>2, <1>3 DEF IInv, ReadInv, PeriodNotTorn, NotTorn
<1>7. ASSUME NEW j \in 1 .. Len(outbox), Checkout(outbox[j])
      PROVE  \/ \E k \in 1 .. Len(outbox') : Checkout(outbox'[k])
             \/ \E v \in Worker : handler'[v] # <<>> /\ Checkout(handler'[v][1].event)
  <2>1. CASE j = i
    BY <1>3, <1>7, <2>1
  <2>2. CASE j # i
    BY <1>1, <1>7, <2>2, TakenOutbox DEF Checkout, SameEvent
  <2> QED  BY <2>1, <2>2
<1>8. LinkInv'
  BY <1>1, <1>3, <1>7 DEF IInv, LinkInv
<1> QED  BY <1>4, <1>5, <1>6, <1>8 DEF IInv

\* The row as a handler leaves it in its session.
LEMMA HandledRow ==
    ASSUME NEW event \in Announced, NEW read \in Row, NotTorn(read)
    PROVE  /\ Handled(event, read) \in Row
           /\ NotTorn(Handled(event, read))
           /\ read.customer => Handled(event, read).customer
           /\ read.sub # NoSub => Handled(event, read).sub # NoSub
           /\ Checkout(event) => Linked(Handled(event, read))
<1>1. /\ event.sub \in Sub /\ event.snapshot \in Snapshot
      /\ event.snapshot.cycle \in Cycles /\ event.snapshot.cycle # 0
      /\ event.snapshot.cycle + 1 \in 0 .. MaxChanges + 1
      /\ event.snapshot.status \in Statuses
  BY DEF Announced, Event, Snapshot, Cycles
<1>2. CASE Checkout(event)
  <2>1. Handled(event, read) = [read EXCEPT !.customer = TRUE, !.sub = event.sub,
                                            !.status = "active"]
    BY <1>2 DEF Checkout, Handled, HandleCheckoutCompleted
  <2> QED  BY <1>1, <2>1 DEF Row, Statuses, NotTorn, Linked
<1>3. CASE event.type = "customer.subscription.deleted"
  <2>1. Handled(event, read) = [read EXCEPT !.status = "canceled"]
    BY <1>3 DEF Checkout, Handled, HandleSubscriptionDeleted
  <2> QED  BY <1>3, <2>1 DEF Row, Statuses, NotTorn, Checkout
<1>4. CASE ~Checkout(event) /\ event.type # "customer.subscription.deleted"
  <2> DEFINE plan == ResolvePlan(event.snapshot.plan, read.plan)
  <2>1. Handled(event, read) =
            [read EXCEPT !.status = event.snapshot.status,
                         !.start = event.snapshot.cycle, !.end = event.snapshot.cycle + 1,
                         !.plan = plan]
    BY <1>4 DEF Checkout, Handled, HandleSubscriptionChanged
  <2>2. plan \in Plan
    BY DEF ResolvePlan, Row
  <2> HIDE DEF plan
  <2> QED  BY <1>1, <1>4, <2>1, <2>2 DEF Row, NotTorn, Cycles
<1> QED  BY <1>2, <1>3, <1>4

\* The UPDATE, column by column.
LEMMA WrittenRow ==
    ASSUME row \in Row, NEW event \in Announced, NEW read \in Row, NotTorn(read)
    PROVE  LET handled == Handled(event, read)
               written == Written(event, read)
           IN /\ written \in Row
              /\ written.customer = IF handled.customer # read.customer
                                    THEN handled.customer ELSE row.customer
              /\ written.sub = IF handled.sub # read.sub THEN handled.sub ELSE row.sub
              /\ written.start = IF handled.start # read.start
                                 THEN handled.start ELSE row.start
              /\ written.end = IF handled.end # read.end THEN handled.end ELSE row.end
<1> DEFINE handled == Handled(event, read)
           written == Written(event, read)
<1>1. handled \in Row
  BY HandledRow
<1>2. DOMAIN row = {"customer", "sub", "status", "start", "end", "plan"}
  BY DEF Row
<1>3. written = [c \in {"customer", "sub", "status", "start", "end", "plan"} |->
                    IF handled[c] # read[c] THEN handled[c] ELSE row[c]]
  BY <1>2 DEF Written
<1> HIDE DEF handled, written
<1> QED  BY <1>1, <1>3 DEF Row, handled, written

LEMMA CommitStep ==
    ASSUME IInv, NEW w \in Worker, Commit(w)
    PROVE  IInv'
<1> DEFINE event == handler[w][1].event
           read == handler[w][1].read
<1>1. /\ handler[w] # <<>> /\ handler' = [handler EXCEPT ![w] = <<>>]
      /\ row' = Written(event, read)
      /\ UNCHANGED <<subscription, changes, outbox, orderly, latest, overtaken>>
  BY DEF Commit
<1>2. /\ event \in Announced /\ NotTorn(read) /\ row \in Row
      /\ read.customer => row.customer
      /\ read.sub # NoSub => row.sub # NoSub
  BY <1>1 DEF IInv, TypeOK, ReadInv
<1>3. read \in Row
  <2> DEFINE T == [event : Event, read : Row]
  <2>1. handler[w] \in Seq(T)
    BY DEF IInv, TypeOK
  <2> HIDE DEF T
  <2>2. Len(handler[w]) \in Nat \ {0}
    BY <1>1, <2>1, EmptySeq
  <2>3. handler[w][1] \in T
    BY <2>1, <2>2
  <2> QED  BY <2>3 DEF T
<1> DEFINE handled == Handled(event, read)
<1>4. /\ handled \in Row /\ NotTorn(handled)
      /\ read.customer => handled.customer
      /\ read.sub # NoSub => handled.sub # NoSub
      /\ Checkout(event) => Linked(handled)
  BY <1>2, <1>3, HandledRow
<1>5. /\ row' \in Row
      /\ row'.customer = IF handled.customer # read.customer THEN handled.customer ELSE row.customer
      /\ row'.sub = IF handled.sub # read.sub THEN handled.sub ELSE row.sub
      /\ row'.start = IF handled.start # read.start THEN handled.start ELSE row.start
      /\ row'.end = IF handled.end # read.end THEN handled.end ELSE row.end
  BY <1>1, <1>2, <1>3, WrittenRow
<1> HIDE DEF handled, event, read
<1>6. /\ row.customer => row'.customer
      /\ row.sub # NoSub => row'.sub # NoSub
      /\ Checkout(event) => Linked(row')
  BY <1>2, <1>3, <1>4, <1>5 DEF Row, Linked
<1>7. PeriodNotTorn'
  <2>1. NotTorn(row)
    BY DEF IInv, PeriodNotTorn, NotTorn
  <2>2. NotTorn(row')
    BY <1>2, <1>3, <1>4, <1>5, <2>1 DEF NotTorn, Row, Cycles
  <2> QED  BY <2>2 DEF PeriodNotTorn, NotTorn
<1>8. /\ handler' \in [Worker -> Seq([event : Event, read : Row])] /\ handler'[w] = <<>>
      /\ \A v \in Worker : v # w => handler'[v] = handler[v]
      /\ Len(handler'[w]) = 0
  <2> DEFINE H == Seq([event : Event, read : Row])
  <2>1. handler \in [Worker -> H] /\ <<>> \in H /\ Len(<<>>) = 0
    <3>1. handler \in [Worker -> H]
      BY DEF IInv, TypeOK
    <3> QED  BY <3>1, EmptySeq
  <2> HIDE DEF H
  <2>2. /\ handler' \in [Worker -> H] /\ handler'[w] = <<>>
        /\ \A v \in Worker : v # w => handler'[v] = handler[v]
    BY <1>1, <2>1
  <2> QED  BY <2>1, <2>2 DEF H
<1>9. TypeOK' /\ CycleInv'
  <2>1. ASSUME NEW v \in Worker PROVE Len(handler'[v]) <= 1
    <3>1. CASE v = w
      BY <1>8, <3>1
    <3>2. CASE v # w
      BY <1>8, <3>2 DEF IInv, TypeOK
    <3> QED  BY <3>1, <3>2
  <2> QED  BY <1>1, <1>5, <1>8, <2>1 DEF IInv, TypeOK, CycleInv
<1>10. ReadInv'
  BY <1>6, <1>8 DEF IInv, ReadInv
<1>11. LinkInv'
  <2>1. \A v \in Worker : handler[v] # <<>> /\ Checkout(handler[v][1].event) =>
            Linked(row') \/ (handler'[v] # <<>> /\ Checkout(handler'[v][1].event))
    BY <1>6, <1>8 DEF event
  <2> QED  BY <1>1, <1>6, <2>1 DEF IInv, LinkInv, Linked
<1> QED  BY <1>7, <1>9, <1>10, <1>11 DEF IInv

LEMMA NextIInv == IInv /\ [Next]_vars => IInv'
<1> SUFFICES ASSUME IInv, [Next]_vars PROVE IInv'
  OBVIOUS
<1>1. CASE UNCHANGED vars
  BY <1>1 DEF vars, IInv, TypeOK, CycleInv, PeriodNotTorn, ReadInv, LinkInv, Linked
<1>2. CASE Next
  <2>1. DOMAIN outbox = 1 .. Len(outbox)
    BY DEF IInv, CycleInv
  <2> QED  BY <1>2, <2>1, StripeStep, IgnoreStep, ReadStep, CommitStep DEF Next, Webhook
<1> QED  BY <1>1, <1>2

LEMMA Invariance == Spec => []IInv
BY InitIInv, NextIInv, PTL DEF Spec

\* The variables keep their types: no handler leaves the row with a value its
\* columns cannot have.
THEOREM TypeCorrect == Spec => []TypeOK
<1>1. IInv => TypeOK
  BY DEF IInv
<1> QED  BY <1>1, Invariance, PTL

\* The period columns come from one event, however the UPDATEs of overlapping
\* handlers mix.
THEOREM PeriodIsWhole == Spec => []PeriodNotTorn
<1>1. IInv => PeriodNotTorn
  BY DEF IInv
<1> QED  BY <1>1, Invariance, PTL

(***************************************************************************)
(* The latest checkout                                                     *)
(*                                                                         *)
(* Which subscription the row ends up with.  Unless the checkout of the    *)
(* latest one is overtaken, it finds no other checkout that could still    *)
(* be committed after it, and there will be none: an older one that is     *)
(* pending means that the latest was not handled yet (LatestInv).  That    *)
(* nothing knows a subscription before it is paid (KnownInv) gives         *)
(* LatestInv a start with every new one.                                   *)
(***************************************************************************)
HasPaid(s) == subscription[s].status # "inactive"

KnownInv ==
    /\ \A i \in 1 .. Len(outbox) : HasPaid(outbox[i].sub)
    /\ row.sub # NoSub => HasPaid(row.sub)
    /\ \A w \in Worker : handler[w] # <<>> =>
          /\ HasPaid(handler[w][1].event.sub)
          /\ handler[w][1].read.sub # NoSub => HasPaid(handler[w][1].read.sub)

Sent(s) == \E i \in 1 .. Len(outbox) : Checkout(outbox[i]) /\ outbox[i].sub = s
InHand(s) == \E w \in Worker : /\ handler[w] # <<>>
                               /\ Checkout(handler[w][1].event)
                               /\ handler[w][1].event.sub = s
Has(s) == InHand(s) \/ row.sub = s

LatestInv == latest # NoSub /\ ~overtaken =>
    /\ Sent(latest) \/ Has(latest)
    /\ Has(latest) => \A s \in Sub \ {latest} : ~Sent(s) /\ ~InHand(s)
    /\ \A w \in Worker : handler[w] # <<>> /\ handler[w][1].read.sub = latest =>
          row.sub = latest

PaidInv == IInv /\ KnownInv /\ LatestInv

LEMMA InitPaid == Init => PaidInv
<1> SUFFICES ASSUME Init PROVE KnownInv /\ LatestInv
  BY InitIInv DEF PaidInv
<1>1. /\ 1 .. Len(outbox) = {} /\ \A w \in Worker : handler[w] = <<>>
      /\ row.sub = NoSub /\ latest = NoSub
  BY DEF Init
<1> QED  BY <1>1 DEF KnownInv, LatestInv

\* What the events and the handlers refer to.
LEMMA Subs ==
    ASSUME IInv
    PROVE  /\ \A i \in 1 .. Len(outbox) : outbox[i] \in Announced /\ outbox[i].sub \in Sub
           /\ row.sub \in Sub \cup {NoSub} /\ latest \in Sub \cup {NoSub}
           /\ \A w \in Worker : handler[w] # <<>> =>
                 /\ handler[w][1].event \in Announced
                 /\ handler[w][1].event.sub \in Sub
                 /\ handler[w][1].read \in Row
                 /\ handler[w][1].read.sub \in Sub \cup {NoSub}
<1>1. ASSUME NEW i \in 1 .. Len(outbox)
      PROVE  outbox[i] \in Announced /\ outbox[i].sub \in Sub
  <2>1. outbox[i] \in Announced
    BY DEF IInv, CycleInv
  <2> QED  BY <2>1 DEF Announced, Event
<1>2. ASSUME NEW w \in Worker, handler[w] # <<>>
      PROVE  handler[w][1].event \in Announced /\ handler[w][1].read \in Row
  <2> DEFINE T == [event : Event, read : Row]
  <2>1. handler[w] \in Seq(T)
    BY DEF IInv, TypeOK
  <2> HIDE DEF T
  <2>2. Len(handler[w]) \in Nat \ {0}
    BY <1>2, <2>1, EmptySeq
  <2>3. handler[w][1] \in T
    BY <2>1, <2>2
  <2> QED  BY <1>2, <2>3 DEF T, IInv, ReadInv
<1>3. row.sub \in Sub \cup {NoSub} /\ latest \in Sub \cup {NoSub}
  BY DEF IInv, TypeOK, Row
<1> QED  BY <1>1, <1>2, <1>3 DEF Announced, Event, Row

\* Stripe's changes leave what is known known, and add what they announce.
LEMMA AnnouncesKnown ==
    ASSUME PaidInv, NEW s \in Sub, NEW snapshot \in Snapshot, NEW types \in Seq(Types),
           Announces(s, snapshot, types), snapshot.status # "inactive", snapshot.cycle # 0
    PROVE  /\ KnownInv' /\ UNCHANGED <<row, handler>>
           /\ \A t \in Sub : Sent(t)' <=>
                  \/ Sent(t)
                  \/ t = s /\ \E i \in 1 .. Len(types) :
                                  types[i] = "checkout.session.completed"
<1> DEFINE n == Len(outbox)
<1>1. /\ subscription' = [subscription EXCEPT ![s] = snapshot]
      /\ UNCHANGED <<row, handler>>
  BY DEF Announces
<1>2. /\ n \in Nat /\ Len(types) \in Nat /\ Len(outbox') = n + Len(types)
      /\ \A i \in 1 .. n : outbox'[i] = outbox[i]
      /\ \A i \in 1 .. Len(types) : outbox'[n + i] =
             [type |-> types[i], sub |-> s, snapshot |-> snapshot, left |-> Retries]
  <2>1. outbox \in Seq(Announced) /\ n \in Nat /\ Len(types) \in Nat
    BY DEF PaidInv, IInv, CycleInv
  <2> QED  BY <2>1, AnnouncedOutbox
<1>3. \A i \in 1 .. Len(types) : /\ outbox'[n + i].type = types[i]
                                 /\ outbox'[n + i].sub = s
  <2> SUFFICES ASSUME NEW i \in 1 .. Len(types)
               PROVE  outbox'[n + i].type = types[i] /\ outbox'[n + i].sub = s
    OBVIOUS
  <2>1. outbox'[n + i] =
            [type |-> types[i], sub |-> s, snapshot |-> snapshot, left |-> Retries]
    BY <1>2, Zenon
  <2> QED  BY <2>1
<1>4. \A k \in 1 .. Len(outbox') :
          k \in 1 .. n \/ \E i \in 1 .. Len(types) : k = n + i
  <2> SUFFICES ASSUME NEW k \in 1 .. Len(outbox'), k \notin 1 .. n
               PROVE  \E i \in 1 .. Len(types) : k = n + i
    OBVIOUS
  <2>1. k - n \in 1 .. Len(types) /\ k = n + (k - n)
    BY <1>2
  <2> QED  BY <2>1
<1>5. \A t \in Sub : HasPaid(t) \/ t = s => subscription'[t].status # "inactive"
  BY <1>1 DEF HasPaid, PaidInv, IInv, TypeOK
<1>6. KnownInv'
  <2>1. ASSUME NEW k \in 1 .. Len(outbox')
        PROVE  subscription'[outbox'[k].sub].status # "inactive"
    <3>1. CASE k \in 1 .. n
      <4>1. outbox[k].sub \in Sub /\ HasPaid(outbox[k].sub)
        BY <3>1, Subs DEF PaidInv, KnownInv
      <4> QED  BY <1>2, <1>5, <3>1, <4>1
    <3>2. ASSUME NEW i \in 1 .. Len(types), k = n + i
          PROVE  subscription'[outbox'[k].sub].status # "inactive"
      BY <1>3, <1>5, <3>2
    <3> QED  BY <1>4, <3>1, <3>2
  <2>2. row.sub # NoSub => subscription'[row.sub].status # "inactive"
    BY <1>5, Subs DEF PaidInv, KnownInv
  <2>3. ASSUME NEW w \in Worker, handler[w] # <<>>
        PROVE  /\ subscription'[handler[w][1].event.sub].status # "inactive"
               /\ handler[w][1].read.sub # NoSub =>
                      subscription'[handler[w][1].read.sub].status # "inactive"
    <3>1. /\ handler[w][1].event.sub \in Sub /\ HasPaid(handler[w][1].event.sub)
          /\ handler[w][1].read.sub # NoSub =>
                 handler[w][1].read.sub \in Sub /\ HasPaid(handler[w][1].read.sub)
      BY <2>3, Subs DEF PaidInv, KnownInv
    <3> QED  BY <1>5, <3>1
  <2> QED  BY <1>1, <2>1, <2>2, <2>3 DEF KnownInv, HasPaid
<1>7. ASSUME NEW t \in Sub
      PROVE  Sent(t)' <=> \/ Sent(t)
                          \/ t = s /\ \E i \in 1 .. Len(types) :
                                          types[i] = "checkout.session.completed"
  <2>1. ASSUME Sent(t) PROVE Sent(t)'
    <3>1. \A i \in 1 .. n : i \in 1 .. Len(outbox') /\ outbox'[i] = outbox[i]
      BY <1>2
    <3> QED  BY <2>1, <3>1 DEF Sent
  <2>2. ASSUME t = s, NEW i \in 1 .. Len(types), types[i] = "checkout.session.completed"
        PROVE  Sent(t)'
    <3>1. n + i \in 1 .. Len(outbox') /\ outbox'[n + i].type = types[i] /\ outbox'[n + i].sub = s
      BY <1>2, <1>3
    <3> QED  BY <2>2, <3>1 DEF Sent, Checkout
  <2>3. ASSUME NEW k \in 1 .. Len(outbox'), Checkout(outbox'[k]), outbox'[k].sub = t
        PROVE  \/ Sent(t)
               \/ t = s /\ \E i \in 1 .. Len(types) : types[i] = "checkout.session.completed"
    <3>1. CASE k \in 1 .. n
      BY <1>2, <2>3, <3>1 DEF Sent
    <3>2. ASSUME NEW i \in 1 .. Len(types), k = n + i
          PROVE  t = s /\ types[i] = "checkout.session.completed"
      BY <1>3, <2>3, <3>2 DEF Checkout
    <3> QED  BY <1>4, <3>1, <3>2
  <2>4. Sent(t)' => \E k \in 1 .. Len(outbox') : Checkout(outbox'[k]) /\ outbox'[k].sub = t
    BY DEF Sent
  <2> QED  BY <2>1, <2>2, <2>3, <2>4
<1> QED  BY <1>1, <1>6, <1>7

\* LatestInv with the values that a step leaves alone.
LEMMA LatestKept ==
    ASSUME LatestInv, latest \in Sub \cup {NoSub}, UNCHANGED <<row, handler, latest, overtaken>>,
           \A s \in Sub : Sent(s)' <=> Sent(s)
    PROVE  LatestInv'
<1>1. \A s \in Sub : InHand(s)' <=> InHand(s)
  BY DEF InHand
<1>2. latest # NoSub =>
          /\ latest \in Sub
          /\ (Has(latest)' <=> Has(latest)) /\ (Sent(latest)' <=> Sent(latest))
  <2>1. ASSUME NEW s, s = latest, s # NoSub PROVE Sent(latest)' <=> Sent(s)'
    BY <2>1 DEF Sent
  <2> QED  BY <2>1 DEF Has, InHand
<1> QED  BY <1>1, <1>2 DEF LatestInv

LEMMA LatestPrimed ==
    ASSUME UNCHANGED <<row, latest>>,
           latest # NoSub /\ ~overtaken' =>
               /\ Sent(latest)' \/ Has(latest)'
               /\ Has(latest)' => \A s \in Sub \ {latest} : ~Sent(s)' /\ ~InHand(s)'
               /\ \A w \in Worker : handler'[w] # <<>> /\ handler'[w][1].read.sub = latest =>
                     row.sub = latest
    PROVE  LatestInv'
BY DEF LatestInv

\* The only checkouts that are pending are those of the latest subscription.
LEMMA OtherPending ==
    ASSUME IInv, ~OtherCheckoutPending
    PROVE  \A s \in Sub \ {latest} : ~Sent(s) /\ ~InHand(s)
<1>1. DOMAIN outbox = 1 .. Len(outbox)
  BY DEF IInv, CycleInv
<1> QED  BY <1>1 DEF OtherCheckoutPending, Sent, InHand

\* Subscribing makes a subscription the latest that nobody knows yet.
LEMMA StripePaid ==
    ASSUME PaidInv, NEW s \in Sub, Stripe(s)
    PROVE  KnownInv' /\ LatestInv'
<1>1. /\ subscription[s] \in Snapshot /\ subscription[s].cycle <= changes
      /\ subscription[s].status # "inactive" => subscription[s].cycle # 0
      /\ changes \in 0 .. MaxChanges /\ subscription[s].cycle \in 0 .. MaxChanges
  BY DEF PaidInv, IInv, TypeOK, CycleInv, Snapshot, Cycles
<1>2. ASSUME NEW p \in Plan, Subscribe(s, p) PROVE KnownInv' /\ LatestInv'
  <2> DEFINE new == [status |-> "active", cycle |-> 1, plan |-> p]
             types == <<"checkout.session.completed", "customer.subscription.created">>
  <2>1. Announces(s, new, types) /\ changes < MaxChanges
    BY <1>2 DEF Subscribe, Announces
  <2>2. new \in Snapshot /\ new.status # "inactive" /\ new.cycle # 0
    BY <1>1, <2>1 DEF Snapshot, Statuses, Cycles
  <2>3. types \in Seq(Types) /\ Len(types) = 2 /\ types[1] = "checkout.session.completed"
    BY DEF Types
  <2> HIDE DEF new, types
  <2>4. 1 \in 1 .. Len(types)
    BY <2>3
  <2>5. KnownInv' /\ UNCHANGED <<row, handler>> /\ Sent(s)'
    BY <2>1, <2>2, <2>3, <2>4, AnnouncesKnown
  <2>6. /\ latest' = s /\ row.sub # s /\ ~InHand(s)
        /\ \A w \in Worker : handler[w] # <<>> => handler[w][1].read.sub # s
    BY <1>2 DEF Subscribe, PaidInv, KnownInv, HasPaid, InHand
  <2>7. LatestInv'
    <3>1. Sent(latest)'
      BY <2>5, <2>6 DEF Sent
    <3>2. ~Has(latest)'
      BY <2>5, <2>6 DEF Has, InHand
    <3>3. \A w \in Worker : handler'[w] # <<>> => handler'[w][1].read.sub # latest'
      BY <2>5, <2>6
    <3> QED  BY <3>1, <3>2, <3>3 DEF LatestInv
  <2> QED  BY <2>5, <2>7
<1>3. ASSUME NEW new \in Snapshot,
             NEW type \in {"customer.subscription.updated", "customer.subscription.deleted"},
             Announces(s, new, <<type>>), new.status # "inactive",
             subscription[s].status # "inactive", UNCHANGED observers,
             new.cycle \in {subscription[s].cycle, subscription[s].cycle + 1}
      PROVE  KnownInv' /\ LatestInv'
  <2> DEFINE types == <<type>>
  <2>1. /\ types \in Seq(Types)
        /\ ~\E i \in 1 .. Len(types) : types[i] = "checkout.session.completed"
    BY DEF Types
  <2>2. new.cycle # 0 /\ Announces(s, new, types)
    BY <1>1, <1>3
  <2> HIDE DEF types
  <2>3. /\ KnownInv' /\ UNCHANGED <<row, handler, latest, overtaken>>
        /\ \A t \in Sub : Sent(t)' <=> Sent(t)
    BY <1>3, <2>1, <2>2, AnnouncesKnown DEF observers
  <2>4. LatestInv'
    BY <2>3, Subs, LatestKept DEF PaidInv
  <2> QED  BY <2>3, <2>4
<1>4. CASE Renew(s)
  <2> DEFINE new == [subscription[s] EXCEPT !.status = "active", !.cycle = @ + 1]
  <2>1. Announces(s, new, <<"customer.subscription.updated">>) /\ changes < MaxChanges
    BY <1>4 DEF Renew, Announces
  <2>2. subscription[s].cycle + 1 \in Cycles
    BY <1>1, <2>1 DEF Cycles
  <2>3. new \in Snapshot /\ new.status = "active" /\ new.cycle = subscription[s].cycle + 1
    BY <1>1, <2>2 DEF Snapshot, Statuses
  <2>4. subscription[s].status # "inactive" /\ UNCHANGED observers
    BY <1>4 DEF Renew, Live
  <2> HIDE DEF new
  <2> QED  BY <1>3, <2>1, <2>3, <2>4
<1>5. CASE FailPayment(s)
  <2> DEFINE new == [subscription[s] EXCEPT !.status = "past_due"]
  <2>1. /\ Announces(s, new, <<"customer.subscription.updated">>)
        /\ subscription[s].status # "inactive" /\ UNCHANGED observers
    BY <1>5 DEF FailPayment
  <2>2. new \in Snapshot /\ new.status = "past_due" /\ new.cycle = subscription[s].cycle
    BY <1>1 DEF Snapshot, Statuses
  <2> HIDE DEF new
  <2> QED  BY <1>3, <2>1, <2>2
<1>6. ASSUME NEW p \in Plan, ChangePlan(s, p) PROVE KnownInv' /\ LatestInv'
  <2> DEFINE new == [subscription[s] EXCEPT !.plan = p]
  <2>1. /\ Announces(s, new, <<"customer.subscription.updated">>)
        /\ subscription[s].status # "inactive" /\ UNCHANGED observers
    BY <1>6 DEF ChangePlan, Live
  <2>2. /\ new \in Snapshot /\ new.status = subscription[s].status
        /\ new.cycle = subscription[s].cycle
    BY <1>1 DEF Snapshot, Statuses
  <2> HIDE DEF new
  <2> QED  BY <1>3, <2>1, <2>2
<1>7. CASE Cancel(s)
  <2> DEFINE new == [subscription[s] EXCEPT !.status = "canceled"]
  <2>1. /\ Announces(s, new, <<"customer.subscription.deleted">>)
        /\ subscription[s].status # "inactive" /\ UNCHANGED observers
    BY <1>7 DEF Cancel, Live
  <2>2. new \in Snapshot /\ new.status = "canceled" /\ new.cycle = subscription[s].cycle
    BY <1>1 DEF Snapshot, Statuses
  <2> HIDE DEF new
  <2> QED  BY <1>3, <2>1, <2>2
<1> QED  BY <1>2, <1>4, <1>5, <1>6, <1>7 DEF Stripe

\* Taking an event: where the checkouts are then.
LEMMA TakenSent ==
    ASSUME IInv, NEW i \in 1 .. Len(outbox), Taken(i)
    PROVE  /\ \A k \in 1 .. Len(outbox') :
                  \E j \in 1 .. Len(outbox) : SameEvent(outbox'[k], outbox[j])
           /\ \A s \in Sub :
                  /\ Sent(s)' => Sent(s)
                  /\ Sent(s) => Sent(s)' \/ (Checkout(outbox[i]) /\ outbox[i].sub = s)
<1>1. outbox \in Seq(Announced)
  BY DEF IInv, CycleInv
<1>2. /\ \A j \in 1 .. Len(outbox) : j # i =>
             \E k \in 1 .. Len(outbox') : SameEvent(outbox'[k], outbox[j])
      /\ \A k \in 1 .. Len(outbox') :
             \E j \in 1 .. Len(outbox) : SameEvent(outbox'[k], outbox[j])
  BY <1>1, TakenOutbox
<1>3. ASSUME NEW s \in Sub, Sent(s)' PROVE Sent(s)
  <2>1. PICK k \in 1 .. Len(outbox') : Checkout(outbox'[k]) /\ outbox'[k].sub = s
    BY <1>3 DEF Sent
  <2>2. PICK j \in 1 .. Len(outbox) : SameEvent(outbox'[k], outbox[j])
    BY <1>2
  <2> QED  BY <2>1, <2>2 DEF Sent, Checkout, SameEvent
<1>4. ASSUME NEW s \in Sub, Sent(s)
      PROVE  Sent(s)' \/ (Checkout(outbox[i]) /\ outbox[i].sub = s)
  <2>1. PICK j \in 1 .. Len(outbox) : Checkout(outbox[j]) /\ outbox[j].sub = s
    BY <1>4 DEF Sent
  <2>2. CASE j # i
    <3>1. PICK k \in 1 .. Len(outbox') : SameEvent(outbox'[k], outbox[j])
      BY <1>2, <2>2
    <3> QED  BY <2>1, <3>1 DEF Sent, Checkout, SameEvent
  <2> QED  BY <2>1, <2>2
<1> QED  BY <1>2, <1>3, <1>4

LEMMA IgnorePaid ==
    ASSUME PaidInv, NEW w \in Worker, NEW i \in 1 .. Len(outbox), Ignore(w, i)
    PROVE  KnownInv' /\ LatestInv'
<1>1. /\ Taken(i) /\ UNCHANGED <<subscription, row, handler, latest, overtaken>>
      /\ ~Checkout(outbox[i])
  BY DEF Ignore, Concerns
<1>2. /\ \A k \in 1 .. Len(outbox') :
             \E j \in 1 .. Len(outbox) : SameEvent(outbox'[k], outbox[j])
      /\ \A s \in Sub : Sent(s)' <=> Sent(s)
  BY <1>1, TakenSent DEF PaidInv
<1>3. KnownInv'
  BY <1>1, <1>2 DEF PaidInv, KnownInv, HasPaid, SameEvent
<1>4. LatestInv'
  BY <1>1, <1>2, Subs, LatestKept DEF PaidInv
<1> QED  BY <1>3, <1>4

\* A handler that starts has the row's subscription, and may take a checkout out of
\* the outbox: if it is the latest one and not overtaken, then it is the only one.
LEMMA ReadPaid ==
    ASSUME PaidInv, NEW w \in Worker, NEW i \in 1 .. Len(outbox), Read(w, i)
    PROVE  KnownInv' /\ LatestInv'
<1> DEFINE event == outbox[i]
<1>1. /\ Taken(i) /\ UNCHANGED <<subscription, row, latest>> /\ handler[w] = <<>>
      /\ handler' = [handler EXCEPT ![w] = <<[event |-> event, read |-> row]>>]
      /\ overtaken => overtaken'
      /\ Checkout(event) /\ event.sub = latest /\ OtherCheckoutPending => overtaken'
  BY DEF Read
<1>2. /\ handler'[w] # <<>> /\ handler'[w][1].event = event /\ handler'[w][1].read = row
      /\ \A v \in Worker : v # w => handler'[v] = handler[v]
  <2> DEFINE new == [event |-> event, read |-> row]
  <2>1. handler'[w] = <<new>> /\ \A v \in Worker : v # w => handler'[v] = handler[v]
    BY <1>1 DEF PaidInv, IInv, TypeOK
  <2>2. <<new>> # <<>> /\ <<new>>[1] = new
    OBVIOUS
  <2> QED  BY <2>1, <2>2
<1>3. /\ event.sub \in Sub /\ HasPaid(event.sub)
      /\ row.sub # NoSub => HasPaid(row.sub)
  BY Subs DEF PaidInv, KnownInv
<1>4. /\ \A k \in 1 .. Len(outbox') :
             \E j \in 1 .. Len(outbox) : SameEvent(outbox'[k], outbox[j])
      /\ \A s \in Sub : /\ Sent(s)' => Sent(s)
                        /\ Sent(s) => Sent(s)' \/ (Checkout(event) /\ event.sub = s)
  BY <1>1, TakenSent DEF PaidInv
<1>5. \A s \in Sub : InHand(s)' <=> InHand(s) \/ (Checkout(event) /\ event.sub = s)
  BY <1>1, <1>2 DEF InHand
<1> HIDE DEF event
<1>6. KnownInv'
  <2>1. \A k \in 1 .. Len(outbox') : HasPaid(outbox'[k].sub)
    BY <1>4 DEF PaidInv, KnownInv, SameEvent
  <2>2. \A v \in Worker : handler'[v] # <<>> =>
            /\ HasPaid(handler'[v][1].event.sub)
            /\ handler'[v][1].read.sub # NoSub => HasPaid(handler'[v][1].read.sub)
    BY <1>2, <1>3 DEF PaidInv, KnownInv
  <2> QED  BY <1>1, <1>3, <2>1, <2>2 DEF KnownInv, HasPaid
<1>7. LatestInv'
  <2> SUFFICES ASSUME latest # NoSub, ~overtaken'
               PROVE  /\ Sent(latest)' \/ Has(latest)'
                      /\ Has(latest)' =>
                             \A s \in Sub \ {latest} : ~Sent(s)' /\ ~InHand(s)'
                      /\ \A v \in Worker :
                             handler'[v] # <<>> /\ handler'[v][1].read.sub = latest =>
                                 row.sub = latest
    BY <1>1, LatestPrimed
  <2>1. latest \in Sub /\ ~overtaken
    BY <1>1, Subs DEF PaidInv
  <2>2. /\ Sent(latest) \/ Has(latest)
        /\ Has(latest) => \A s \in Sub \ {latest} : ~Sent(s) /\ ~InHand(s)
        /\ \A v \in Worker : handler[v] # <<>> /\ handler[v][1].read.sub = latest =>
               row.sub = latest
    BY <2>1 DEF PaidInv, LatestInv
  <2>3. Has(latest)' <=> Has(latest) \/ (Checkout(event) /\ event.sub = latest)
    BY <1>1, <1>5, <2>1 DEF Has, InHand
  <2>4. Checkout(event) /\ event.sub = latest =>
            \A s \in Sub \ {latest} : ~Sent(s) /\ ~InHand(s)
    BY <1>1, OtherPending DEF PaidInv
  <2>5. Checkout(event) => Sent(event.sub)
    BY DEF Sent, event
  <2>6. Sent(latest)' \/ Has(latest)'
    <3>1. ASSUME NEW s \in Sub, s = latest, Sent(s)' PROVE Sent(latest)'
      BY <1>1, <3>1 DEF Sent
    <3>2. ASSUME NEW s \in Sub, s = latest, Sent(s)
          PROVE  Sent(s)' \/ (Checkout(event) /\ event.sub = s)
      BY <1>4, <3>2
    <3> QED  BY <2>1, <2>2, <2>3, <3>1, <3>2
  <2>7. ASSUME Has(latest)', NEW s \in Sub \ {latest} PROVE ~Sent(s)' /\ ~InHand(s)'
    BY <1>3, <1>4, <1>5, <2>2, <2>3, <2>4, <2>5, <2>7
  <2> QED  BY <1>2, <2>2, <2>6, <2>7
<1> QED  BY <1>6, <1>7

\* A checkout of the latest subscription that is committed links it: it differs from
\* what the handler read, or it is there already.  Another one's has it still to come.
LEMMA CommitPaid ==
    ASSUME PaidInv, NEW w \in Worker, Commit(w)
    PROVE  KnownInv' /\ LatestInv'
<1> DEFINE event == handler[w][1].event
           read == handler[w][1].read
           handled == Handled(event, read)
<1>1. /\ handler[w] # <<>> /\ handler' = [handler EXCEPT ![w] = <<>>]
      /\ row' = Written(event, read)
      /\ UNCHANGED <<subscription, outbox, latest, overtaken>>
  BY DEF Commit
<1>2. /\ handler'[w] = <<>>
      /\ \A v \in Worker : v # w => handler'[v] = handler[v]
  BY <1>1 DEF PaidInv, IInv, TypeOK
<1>3. /\ event \in Announced /\ event.sub \in Sub /\ HasPaid(event.sub)
      /\ read \in Row /\ read.sub \in Sub \cup {NoSub} /\ NotTorn(read)
      /\ row \in Row /\ row.sub \in Sub \cup {NoSub}
  <2>1. /\ event \in Announced /\ event.sub \in Sub
        /\ read \in Row /\ read.sub \in Sub \cup {NoSub} /\ row.sub \in Sub \cup {NoSub}
    BY <1>1, Subs DEF PaidInv
  <2> QED  BY <1>1, <2>1 DEF PaidInv, KnownInv, IInv, TypeOK, ReadInv
<1>4. /\ row'.sub = IF handled.sub # read.sub THEN handled.sub ELSE row.sub
      /\ handled.sub = IF Checkout(event) THEN event.sub ELSE read.sub
  <2>1. handled.sub = IF Checkout(event) THEN event.sub ELSE read.sub
    BY <1>3 DEF Handled, HandleCheckoutCompleted, HandleSubscriptionChanged,
                HandleSubscriptionDeleted, Row
  <2> QED  BY <1>1, <1>3, <2>1, WrittenRow
<1> HIDE DEF handled
<1>5. /\ Checkout(event) => row'.sub = event.sub \/ (read.sub = event.sub /\ row'.sub = row.sub)
      /\ ~Checkout(event) => row'.sub = row.sub
  BY <1>4
<1>6. /\ \A s \in Sub : /\ Sent(s)' <=> Sent(s)
                        /\ InHand(s)' => InHand(s)
                        /\ InHand(s) => InHand(s)' \/ (Checkout(event) /\ event.sub = s)
      /\ Checkout(event) => InHand(event.sub)
  BY <1>1, <1>2 DEF Sent, InHand
<1> HIDE DEF event, read
<1>7. KnownInv'
  <2>1. row'.sub # NoSub => HasPaid(row'.sub)
    BY <1>3, <1>5 DEF PaidInv, KnownInv
  <2>2. \A v \in Worker : handler'[v] # <<>> =>
            /\ HasPaid(handler'[v][1].event.sub)
            /\ handler'[v][1].read.sub # NoSub => HasPaid(handler'[v][1].read.sub)
    BY <1>2 DEF PaidInv, KnownInv
  <2> QED  BY <1>1, <2>1, <2>2 DEF PaidInv, KnownInv, HasPaid
<1>8. ASSUME NEW l \in Sub, l = latest, ~overtaken
      PROVE  /\ Sent(l)' \/ InHand(l)' \/ row'.sub = l
             /\ InHand(l)' \/ row'.sub = l =>
                    \A s \in Sub \ {l} : ~Sent(s)' /\ ~InHand(s)'
             /\ \A v \in Worker : handler'[v] # <<>> /\ handler'[v][1].read.sub = l =>
                    row'.sub = l
  <2>1. /\ Sent(l) \/ InHand(l) \/ row.sub = l
        /\ InHand(l) \/ row.sub = l => \A s \in Sub \ {l} : ~Sent(s) /\ ~InHand(s)
        /\ \A v \in Worker : handler[v] # <<>> /\ handler[v][1].read.sub = l => row.sub = l
    BY <1>8 DEF PaidInv, LatestInv, Has
  <2>2. read.sub = l => row.sub = l
    BY <1>1, <2>1 DEF read
  <2>3. CASE Checkout(event) /\ event.sub = l
    <3>1. row'.sub = l /\ \A s \in Sub \ {l} : ~Sent(s) /\ ~InHand(s)
      BY <1>5, <1>6, <2>1, <2>2, <2>3
    <3> QED  BY <1>6, <3>1
  <2>4. CASE Checkout(event) /\ event.sub # l
    <3>1. ~InHand(l) /\ row.sub # l
      BY <1>3, <1>6, <2>1, <2>4
    <3>2. row'.sub # l
      BY <1>5, <2>4, <3>1
    <3> QED  BY <1>2, <1>6, <2>1, <3>1, <3>2
  <2>5. CASE ~Checkout(event)
    <3>1. row'.sub = row.sub
      BY <1>5, <2>5
    <3> QED  BY <1>2, <1>6, <2>1, <2>5, <3>1
  <2> QED  BY <2>3, <2>4, <2>5
<1>9. LatestInv'
  <2>1. latest \in Sub \cup {NoSub}
    BY Subs DEF PaidInv
  <2>2. ASSUME NEW l \in Sub, l = latest, ~overtaken
        PROVE  /\ Sent(latest)' \/ Has(latest)'
               /\ Has(latest)' => \A s \in Sub \ {latest'} : ~Sent(s)' /\ ~InHand(s)'
               /\ \A v \in Worker : handler'[v] # <<>> /\ handler'[v][1].read.sub = latest' =>
                     row'.sub = latest'
    <3>1. /\ Sent(latest)' <=> Sent(l)'
          /\ Has(latest)' <=> InHand(l)' \/ row'.sub = l
      BY <1>1, <2>2 DEF Sent, Has, InHand
    <3> QED  BY <1>1, <1>8, <2>2, <3>1
  <2> QED  BY <1>1, <2>1, <2>2 DEF LatestInv
<1> QED  BY <1>7, <1>9

LEMMA NextPaid == PaidInv /\ [Next]_vars => PaidInv'
<1> SUFFICES ASSUME PaidInv, [Next]_vars PROVE KnownInv' /\ LatestInv'
  BY NextIInv DEF PaidInv
<1>1. CASE UNCHANGED vars
  <2>1. /\ UNCHANGED <<subscription, outbox, row, handler, latest, overtaken>>
        /\ \A s \in Sub : Sent(s)' <=> Sent(s)
    BY <1>1 DEF vars, Sent
  <2> QED  BY <2>1, Subs, LatestKept DEF PaidInv, KnownInv, HasPaid
<1>2. CASE Next
  <2>1. DOMAIN outbox = 1 .. Len(outbox)
    BY DEF PaidInv, IInv, CycleInv
  <2> QED  BY <1>2, <2>1, StripePaid, IgnorePaid, ReadPaid, CommitPaid DEF Next, Webhook
<1> QED  BY <1>1, <1>2

\* As soon as all events are handled, a shop that has paid is linked to a subscription,
\* and to the one it paid last unless its checkout was handled while another was to come.
THEOREM Paid == Spec => []PaidIsLinked
<1>1. PaidInv => PaidIsLinked
  <2> SUFFICES ASSUME PaidInv, Quiet, latest # NoSub
               PROVE  Linked(row) /\ (~overtaken => row.sub = latest)
    BY DEF PaidIsLinked, Linked
  <2>1. 1 .. Len(outbox) = {} /\ \A w \in Worker : handler[w] = <<>>
    BY DEF Quiet
  <2>2. Linked(row)
    BY <2>1 DEF PaidInv, IInv, LinkInv
  <2>3. ~overtaken => row.sub = latest
    BY <2>1 DEF PaidInv, LatestInv, Sent, Has, InHand
  <2> QED  BY <2>2, <2>3
<1> QED  BY <1>1, InitPaid, NextPaid, PTL DEF Spec

(***************************************************************************)
(* In order: while every event is handled alone and in Stripe's order, the *)
(* row, with what the handler in progress will make of it (Follows), says  *)
(* what Stripe says unless an event that corrects it is still to come; and *)
(* the events to come end with what Stripe says (OutboxInv).               *)
(***************************************************************************)
News(event, s) == event.sub = s /\ ~Checkout(event)
Change(event, s) == News(event, s) /\ event.type # "customer.subscription.deleted"

SameTerms(a, b) == a.cycle = b.cycle /\ a.plan = b.plan

NewsToCome(k, s) == \E m \in 1 .. Len(outbox) : m > k /\ News(outbox[m], s)
ChangeToCome(k, s) == \E m \in 1 .. Len(outbox) : m > k /\ Change(outbox[m], s)

Told(k, event) ==
    /\ Checkout(event) => ChangeToCome(k, event.sub)
    /\ ~Checkout(event) =>
           /\ \/ event.snapshot.status = subscription[event.sub].status
              \/ NewsToCome(k, event.sub)
           /\ \/ SameTerms(event.snapshot, subscription[event.sub])
              \/ ChangeToCome(k, event.sub)
    /\ event.type = "customer.subscription.deleted" => event.snapshot.status = "canceled"

OutboxInv == \A k \in 1 .. Len(outbox) : Told(k, outbox[k])

Follows(r) == r.sub # NoSub =>
    /\ r.status = subscription[r.sub].status \/ NewsToCome(0, r.sub)
    /\ \/ /\ r.start = subscription[r.sub].cycle
          /\ subscription[r.sub].plan \in Priced => r.plan = subscription[r.sub].plan
       \/ ChangeToCome(0, r.sub)

Idle == \A w \in Worker : handler[w] = <<>>

AloneInv == \A w \in Worker : handler[w] # <<>> =>
    /\ handler[w][1].read = row
    /\ Follows(Handled(handler[w][1].event, row))
    /\ \A v \in Worker : v # w => handler[v] = <<>>

OrderInv == orderly => OutboxInv /\ AloneInv /\ (Idle => Follows(row))

FollowInv == IInv /\ OrderInv

LEMMA InitFollows == Init => FollowInv
<1> SUFFICES ASSUME Init PROVE FollowInv
  OBVIOUS
<1>1. 1 .. Len(outbox) = {} /\ \A w \in Worker : handler[w] = <<>>
  BY DEF Init
<1>2. row.sub = NoSub
  BY DEF Init
<1> QED  BY <1>1, <1>2, InitIInv
     DEF FollowInv, OrderInv, OutboxInv, AloneInv, Follows

\* What Stripe announces is the latest of its subscription.
LEMMA AnnouncesFollows ==
    ASSUME FollowInv, NEW s \in Sub, NEW snapshot \in Snapshot, NEW types \in Seq(Types),
           Announces(s, snapshot, types), snapshot.cycle # 0,
           Len(types) = 1 \/ (Len(types) = 2 /\ types[1] = "checkout.session.completed"),
           types[Len(types)] \in {"customer.subscription.created",
                                  "customer.subscription.updated",
                                  "customer.subscription.deleted"},
           types[Len(types)] = "customer.subscription.deleted" =>
               /\ Len(types) = 1 /\ snapshot.status = "canceled"
               /\ SameTerms(snapshot, subscription[s])
    PROVE  OrderInv'
<1> DEFINE n == Len(outbox)
<1> PICK last : last = Len(outbox')
  OBVIOUS
<1>1. /\ subscription' = [subscription EXCEPT ![s] = snapshot]
      /\ UNCHANGED <<row, handler, orderly>>
  BY DEF Announces
<1>2. /\ n \in Nat /\ last = n + Len(types) /\ last \in Nat /\ n + 1 <= last
      /\ outbox \in Seq(Announced)
      /\ \A i \in 1 .. n : outbox'[i] = outbox[i]
      /\ \A i \in 1 .. Len(types) : outbox'[n + i] =
             [type |-> types[i], sub |-> s, snapshot |-> snapshot, left |-> Retries]
  <2>1. outbox \in Seq(Announced) /\ n \in Nat
    BY DEF FollowInv, IInv, CycleInv
  <2>2. /\ Len(outbox') = n + Len(types)
        /\ \A i \in 1 .. n : outbox'[i] = outbox[i]
        /\ \A i \in 1 .. Len(types) : outbox'[n + i] =
               [type |-> types[i], sub |-> s, snapshot |-> snapshot, left |-> Retries]
    BY <2>1, AnnouncedOutbox
  <2> QED  BY <2>1, <2>2
<1>3. /\ News(outbox'[last], s) /\ outbox'[last].snapshot = snapshot
      /\ types[Len(types)] # "customer.subscription.deleted" => Change(outbox'[last], s)
      /\ types[Len(types)] = "customer.subscription.deleted" =>
             snapshot.status = "canceled" /\ SameTerms(snapshot, subscription[s])
      /\ outbox'[last].type = types[Len(types)]
  <2>1. Len(types) \in 1 .. Len(types) /\ last = n + Len(types)
    BY <1>2
  <2>2. outbox'[last] = [type |-> types[Len(types)], sub |-> s, snapshot |-> snapshot,
                         left |-> Retries]
    BY <1>2, <2>1
  <2> QED  BY <2>2 DEF News, Change, Checkout
<1>4. \A k \in 1 .. last : k \in 1 .. n \/ k = last \/ (k = n + 1 /\ Len(types) = 2)
  BY <1>2
<1>5. /\ subscription'[s] = snapshot
      /\ \A t \in Sub : t # s => subscription'[t] = subscription[t]
  BY <1>1 DEF FollowInv, IInv, TypeOK
<1>6. ASSUME NEW k \in 0 .. n, NEW t \in Sub
      PROVE  /\ NewsToCome(k, t) \/ t = s => NewsToCome(k, t)'
             /\ ChangeToCome(k, t) => ChangeToCome(k, t)'
             /\ t = s => ChangeToCome(k, t)' \/ SameTerms(snapshot, subscription[s])
  <2>1. \A m \in 1 .. n : m \in 1 .. last /\ outbox'[m] = outbox[m]
    BY <1>2
  <2>2. last \in 1 .. last /\ last > k
    BY <1>2
  <2>3. (NewsToCome(k, t) => NewsToCome(k, t)') /\ (ChangeToCome(k, t) => ChangeToCome(k, t)')
    BY <2>1 DEF NewsToCome, ChangeToCome
  <2>4. t = s => NewsToCome(k, t)'
    BY <1>3, <2>2 DEF NewsToCome
  <2>5. t = s => ChangeToCome(k, t)' \/ SameTerms(snapshot, subscription[s])
    BY <1>3, <2>2 DEF ChangeToCome
  <2> QED  BY <2>3, <2>4, <2>5
<1>7. ASSUME OutboxInv PROVE OutboxInv'
  <2>1. ASSUME NEW k \in 1 .. n, NEW event \in Announced, event = outbox[k]
        PROVE  Told(k, event)'
    <3>1. event.sub \in Sub /\ k \in 0 .. n
      BY <1>2 DEF Announced, Event
    <3>2. /\ NewsToCome(k, event.sub) \/ event.sub = s => NewsToCome(k, event.sub)'
          /\ ChangeToCome(k, event.sub) => ChangeToCome(k, event.sub)'
          /\ event.sub = s =>
                 ChangeToCome(k, event.sub)' \/ SameTerms(snapshot, subscription[s])
      BY <1>6, <3>1
    <3>3. Told(k, event)
      BY <1>7, <2>1 DEF OutboxInv
    <3> QED  BY <1>5, <3>1, <3>2, <3>3 DEF Told, SameTerms
  <2>2. ASSUME NEW event, event = outbox'[last] PROVE Told(last, event)'
    BY <1>3, <1>5, <2>2 DEF News, Told, SameTerms
  <2>3. ASSUME Len(types) = 2, NEW k, k = n + 1, NEW event, event = outbox'[k]
        PROVE  Told(k, event)'
    <3>1. 1 \in 1 .. Len(types) /\ last = k + 1 /\ k \in 1 .. last /\ types[Len(types)] = types[2]
      BY <1>2, <2>3
    <3>2. event = [type |-> types[1], sub |-> s, snapshot |-> snapshot, left |-> Retries]
      BY <1>2, <2>3, <3>1, Zenon
    <3>3. Checkout(event) /\ event.sub = s /\ event.type # "customer.subscription.deleted"
      BY <2>3, <3>2 DEF Checkout
    <3>4. Change(outbox'[last], s) /\ last > k /\ last \in 1 .. last
      BY <1>2, <1>3, <2>3, <3>1
    <3>5. ChangeToCome(k, s)'
      BY <3>4 DEF ChangeToCome
    <3> QED  BY <3>3, <3>5 DEF Told
  <2>4. ASSUME NEW k \in 1 .. last, NEW event, event = outbox'[k] PROVE Told(k, event)'
    <3>1. CASE k \in 1 .. n
      <4>1. event = outbox[k] /\ event \in Announced
        BY <1>2, <2>4, <3>1
      <4> QED  BY <2>1, <3>1, <4>1
    <3>2. CASE k = last
      BY <2>2, <2>4, <3>2
    <3>3. CASE k = n + 1 /\ Len(types) = 2
      BY <2>3, <2>4, <3>3
    <3> QED  BY <1>4, <2>4, <3>1, <3>2, <3>3
  <2> QED  BY <2>4 DEF OutboxInv
<1>8. ASSUME NEW r \in Row, Follows(r) PROVE Follows(r)'
  <2> SUFFICES ASSUME r.sub # NoSub
               PROVE  /\ \/ r.status = subscription'[r.sub].status \/ NewsToCome(0, r.sub)'
                      /\ \/ /\ r.start = subscription'[r.sub].cycle
                            /\ subscription'[r.sub].plan \in Priced =>
                                   r.plan = subscription'[r.sub].plan
                         \/ ChangeToCome(0, r.sub)'
    BY DEF Follows
  <2>1. r.sub \in Sub /\ 0 \in 0 .. n
    BY <1>2 DEF Row
  <2> QED  BY <1>5, <1>6, <1>8, <2>1 DEF Follows, SameTerms
<1>9. ASSUME AloneInv PROVE AloneInv'
  <2>1. ASSUME NEW w \in Worker, handler[w] # <<>>
        PROVE  Handled(handler[w][1].event, row) \in Row
    BY <2>1, HandledRow DEF FollowInv, IInv, TypeOK, ReadInv, PeriodNotTorn, NotTorn
  <2> QED  BY <1>1, <1>8, <1>9, <2>1 DEF AloneInv
<1>10. row \in Row
  BY DEF FollowInv, IInv, TypeOK
<1> QED  BY <1>1, <1>7, <1>8, <1>9, <1>10 DEF FollowInv, OrderInv, Idle

LEMMA StripeFollows ==
    ASSUME FollowInv, NEW s \in Sub, Stripe(s)
    PROVE  OrderInv'
<1>1. /\ subscription[s] \in Snapshot /\ subscription[s].cycle <= changes
      /\ subscription[s].status # "inactive" => subscription[s].cycle # 0
      /\ changes \in 0 .. MaxChanges /\ subscription[s].cycle \in 0 .. MaxChanges
  BY DEF FollowInv, IInv, TypeOK, CycleInv, Snapshot, Cycles
<1>2. ASSUME NEW p \in Plan, Subscribe(s, p) PROVE OrderInv'
  <2> DEFINE new == [status |-> "active", cycle |-> 1, plan |-> p]
             types == <<"checkout.session.completed", "customer.subscription.created">>
  <2>1. Announces(s, new, types) /\ changes < MaxChanges
    BY <1>2 DEF Subscribe, Announces
  <2>2. new \in Snapshot /\ new.cycle # 0
    BY <1>1, <2>1 DEF Snapshot, Statuses, Cycles
  <2>3. /\ types \in Seq(Types) /\ Len(types) = 2 /\ types[1] = "checkout.session.completed"
        /\ types[2] = "customer.subscription.created"
    BY DEF Types
  <2> HIDE DEF new, types
  <2> QED  BY <2>1, <2>2, <2>3, AnnouncesFollows
<1>3. ASSUME NEW new \in Snapshot, new.cycle # 0,
             NEW type \in {"customer.subscription.updated", "customer.subscription.deleted"},
             Announces(s, new, <<type>>),
             type = "customer.subscription.deleted" =>
                 new.status = "canceled" /\ SameTerms(new, subscription[s])
      PROVE  OrderInv'
  <2> DEFINE types == <<type>>
  <2>1. types \in Seq(Types) /\ Len(types) = 1 /\ types[1] = type
    BY DEF Types
  <2>2. Announces(s, new, types)
    BY <1>3
  <2> HIDE DEF types
  <2> QED  BY <1>3, <2>1, <2>2, AnnouncesFollows
<1>4. CASE Renew(s)
  <2> DEFINE new == [subscription[s] EXCEPT !.status = "active", !.cycle = @ + 1]
  <2>1. Announces(s, new, <<"customer.subscription.updated">>) /\ changes < MaxChanges
    BY <1>4 DEF Renew, Announces
  <2>2. subscription[s].cycle + 1 \in Cycles /\ subscription[s].cycle + 1 # 0
    BY <1>1, <2>1 DEF Cycles
  <2>3. new \in Snapshot /\ new.cycle # 0
    BY <1>1, <2>2 DEF Snapshot, Statuses
  <2> HIDE DEF new
  <2> QED  BY <1>3, <2>1, <2>3
<1>5. CASE FailPayment(s)
  <2> DEFINE new == [subscription[s] EXCEPT !.status = "past_due"]
  <2>1. Announces(s, new, <<"customer.subscription.updated">>) /\ subscription[s].cycle # 0
    BY <1>1, <1>5 DEF FailPayment
  <2>2. new \in Snapshot /\ new.cycle # 0
    BY <1>1, <2>1 DEF Snapshot, Statuses
  <2> HIDE DEF new
  <2> QED  BY <1>3, <2>1, <2>2
<1>6. ASSUME NEW p \in Plan, ChangePlan(s, p) PROVE OrderInv'
  <2> DEFINE new == [subscription[s] EXCEPT !.plan = p]
  <2>1. Announces(s, new, <<"customer.subscription.updated">>) /\ subscription[s].cycle # 0
    BY <1>1, <1>6 DEF ChangePlan, Live
  <2>2. new \in Snapshot /\ new.cycle # 0
    BY <1>1, <2>1 DEF Snapshot, Statuses
  <2> HIDE DEF new
  <2> QED  BY <1>3, <2>1, <2>2
<1>7. CASE Cancel(s)
  <2> DEFINE new == [subscription[s] EXCEPT !.status = "canceled"]
  <2>1. Announces(s, new, <<"customer.subscription.deleted">>) /\ subscription[s].cycle # 0
    BY <1>1, <1>7 DEF Cancel, Live
  <2>2. /\ new \in Snapshot /\ new.cycle # 0 /\ new.status = "canceled"
        /\ SameTerms(new, subscription[s])
    BY <1>1, <2>1 DEF Snapshot, Statuses, SameTerms
  <2> HIDE DEF new
  <2> QED  BY <1>3, <2>1, <2>2
<1> QED  BY <1>2, <1>4, <1>5, <1>6, <1>7 DEF Stripe

\* The first event leaves the outbox or stays where it is.
LEMMA TakenFirst ==
    ASSUME outbox \in Seq(Announced), 1 \in 1 .. Len(outbox), Taken(1)
    PROVE  \E d \in {0, 1} :
               /\ Len(outbox') = Len(outbox) - d
               /\ \A k \in 1 .. Len(outbox') :
                      /\ outbox'[k].type = outbox[k + d].type
                      /\ outbox'[k].sub = outbox[k + d].sub
                      /\ outbox'[k].snapshot = outbox[k + d].snapshot
<1> DEFINE n == Len(outbox)
<1>1. n \in Nat /\ 1 <= n /\ \A j \in 1 .. n : outbox[j] \in Announced
  OBVIOUS
<1>2. CASE outbox' = RemoveAt(outbox, 1)
  <2> DEFINE a == SubSeq(outbox, 1, 1 - 1)
             b == SubSeq(outbox, 1 + 1, n)
  <2>1. a = <<>>
    <3>1. 1 - 1 = 0 /\ 1 \in Int /\ 0 \in Int /\ \A j \in 1 .. 0 : outbox[j] \in Announced
      OBVIOUS
    <3>2. SubSeq(outbox, 1, 0) \in Seq(Announced) /\ Len(SubSeq(outbox, 1, 0)) = 0
      BY <3>1, SubSeqProperties
    <3> QED  BY <3>1, <3>2, EmptySeq
  <2>2. /\ b \in Seq(Announced) /\ Len(b) = n - 1
        /\ \A j \in 1 .. n - 1 : b[j] = outbox[j + 1]
    <3>1. 1 + 1 \in Int /\ n \in Int /\ \A j \in 1 + 1 .. n : outbox[j] \in Announced
      BY <1>1
    <3>2. /\ b \in Seq(Announced)
          /\ Len(b) = IF 1 + 1 <= n THEN n - (1 + 1) + 1 ELSE 0
          /\ \A j \in 1 .. n - (1 + 1) + 1 : b[j] = outbox[(1 + 1) + j - 1]
      BY <3>1, SubSeqProperties
    <3> HIDE DEF b
    <3>3. ASSUME NEW j \in 1 .. n - 1 PROVE b[j] = outbox[j + 1]
      <4>1. j \in 1 .. n - (1 + 1) + 1 /\ (1 + 1) + j - 1 = j + 1
        BY <1>1
      <4> QED  BY <3>2, <4>1
    <3>4. Len(b) = n - 1
      <4>1. \A x \in Nat : 1 <= x =>
                (IF 1 + 1 <= x THEN x - (1 + 1) + 1 ELSE 0) = x - 1
        OBVIOUS
      <4> HIDE DEF n
      <4> QED  BY <1>1, <3>2, <4>1
    <3> QED  BY <3>2, <3>3, <3>4
  <2>3. outbox' = a \o b
    BY <1>2 DEF RemoveAt
  <2> HIDE DEF a, b
  <2>4. outbox' = b
    BY <2>1, <2>2, <2>3
  <2> QED  BY <1>1, <2>2, <2>4
<1>3. CASE outbox[1].left > 0 /\ outbox' = [outbox EXCEPT ![1].left = @ - 1]
  <2>1. Len(outbox') = n /\ DOMAIN outbox = 1 .. n
    BY <1>1, <1>3
  <2>2. \A k \in 1 .. n : outbox'[k] = IF k = 1 THEN [outbox[1] EXCEPT !.left = @ - 1]
                                       ELSE outbox[k]
    BY <1>3, <2>1
  <2>3. /\ outbox'[1].type = outbox[1].type /\ outbox'[1].sub = outbox[1].sub
        /\ outbox'[1].snapshot = outbox[1].snapshot
    BY <1>1, <2>2 DEF Announced, Event
  <2> QED  BY <1>1, <2>1, <2>2, <2>3
<1> QED  BY <1>2, <1>3 DEF Taken

\* What was to come after the first event is still to come.
LEMMA StillToCome ==
    ASSUME outbox \in Seq(Announced), 1 \in 1 .. Len(outbox), Taken(1), OutboxInv,
           subscription' = subscription
    PROVE  /\ OutboxInv'
           /\ \A s \in Sub : /\ NewsToCome(1, s) => NewsToCome(0, s)'
                             /\ ChangeToCome(1, s) => ChangeToCome(0, s)'
<1>1. PICK d \in {0, 1} :
          /\ Len(outbox') = Len(outbox) - d
          /\ \A k \in 1 .. Len(outbox') :
                 /\ outbox'[k].type = outbox[k + d].type
                 /\ outbox'[k].sub = outbox[k + d].sub
                 /\ outbox'[k].snapshot = outbox[k + d].snapshot
  BY TakenFirst
<1>2. Len(outbox) \in Nat /\ Len(outbox') \in Nat /\ \A m \in 1 .. Len(outbox) : outbox[m].sub \in Sub
  BY <1>1 DEF Announced, Event
<1>3. ASSUME NEW k \in 0 .. Len(outbox'), NEW s \in Sub
      PROVE  /\ NewsToCome(k + d, s) => NewsToCome(k, s)'
             /\ ChangeToCome(k + d, s) => ChangeToCome(k, s)'
  <2>1. \A m \in 1 .. Len(outbox) : m > k + d =>
            /\ m - d \in 1 .. Len(outbox') /\ m - d > k /\ (m - d) + d = m
    BY <1>1, <1>2
  <2>2. \A m \in 1 .. Len(outbox') :
            /\ News(outbox'[m], s) <=> News(outbox[m + d], s)
            /\ Change(outbox'[m], s) <=> Change(outbox[m + d], s)
    BY <1>1 DEF News, Change, Checkout
  <2>3. ASSUME NEW m \in 1 .. Len(outbox), m > k + d
        PROVE  /\ News(outbox[m], s) => NewsToCome(k, s)'
               /\ Change(outbox[m], s) => ChangeToCome(k, s)'
    <3>1. m - d \in 1 .. Len(outbox') /\ m - d > k /\ (m - d) + d = m
      BY <2>1, <2>3
    <3>2. /\ News(outbox'[m - d], s) <=> News(outbox[m], s)
          /\ Change(outbox'[m - d], s) <=> Change(outbox[m], s)
      BY <2>2, <3>1
    <3> QED  BY <3>1, <3>2 DEF NewsToCome, ChangeToCome
  <2> QED  BY <2>3 DEF NewsToCome, ChangeToCome
<1>4. ASSUME NEW k \in 1 .. Len(outbox'), NEW event, event = outbox'[k]
      PROVE  Told(k, event)'
  <2>1. k + d \in 1 .. Len(outbox) /\ k \in 0 .. Len(outbox')
    BY <1>1, <1>2
  <2>2. /\ event.type = outbox[k + d].type /\ event.sub = outbox[k + d].sub
        /\ event.snapshot = outbox[k + d].snapshot /\ event.sub \in Sub
    BY <1>1, <1>2, <1>4, <2>1
  <2>3. /\ NewsToCome(k + d, event.sub) => NewsToCome(k, event.sub)'
        /\ ChangeToCome(k + d, event.sub) => ChangeToCome(k, event.sub)'
    BY <1>3, <2>1, <2>2
  <2>4. Told(k + d, outbox[k + d])
    BY <2>1 DEF OutboxInv
  <2> QED  BY <2>2, <2>3, <2>4 DEF Told, Checkout
<1>5. OutboxInv'
  BY <1>4 DEF OutboxInv
<1>6. ASSUME NEW s \in Sub
      PROVE  /\ NewsToCome(1, s) => NewsToCome(0, s)'
             /\ ChangeToCome(1, s) => ChangeToCome(0, s)'
  <2>1. 0 \in 0 .. Len(outbox')
    BY <1>2
  <2>2. /\ NewsToCome(0 + d, s) => NewsToCome(0, s)'
        /\ ChangeToCome(0 + d, s) => ChangeToCome(0, s)'
    BY <1>3, <2>1
  <2>3. /\ NewsToCome(1, s) => NewsToCome(0 + d, s)
        /\ ChangeToCome(1, s) => ChangeToCome(0 + d, s)
    BY <1>2 DEF NewsToCome, ChangeToCome
  <2> QED  BY <2>2, <2>3
<1> QED  BY <1>5, <1>6

LEMMA IgnoreFollows ==
    ASSUME FollowInv, NEW w \in Worker, NEW i \in 1 .. Len(outbox), Ignore(w, i)
    PROVE  OrderInv'
<1> SUFFICES ASSUME orderly' PROVE (OutboxInv /\ AloneInv /\ (Idle => Follows(row)))'
  BY DEF OrderInv
<1>1. /\ orderly /\ i = 1 /\ Taken(1) /\ Idle
      /\ UNCHANGED <<subscription, row, handler>>
      /\ ~Checkout(outbox[1]) /\ row.sub # outbox[1].sub
  BY DEF Ignore, Taken, Concerns, Checkout, Idle
<1>2. /\ OutboxInv /\ Follows(row) /\ outbox \in Seq(Announced) /\ row \in Row
      /\ Len(outbox) \in Nat
  BY <1>1 DEF FollowInv, OrderInv, IInv, TypeOK, CycleInv
<1>3. /\ OutboxInv'
      /\ \A s \in Sub : /\ NewsToCome(1, s) => NewsToCome(0, s)'
                        /\ ChangeToCome(1, s) => ChangeToCome(0, s)'
  BY <1>1, <1>2, StillToCome
<1>4. AloneInv'
  BY <1>1 DEF AloneInv, Idle
<1>5. Follows(row)'
  <2> SUFFICES ASSUME NEW r, r = row, r.sub # NoSub PROVE Follows(r)'
    BY <1>1 DEF Follows
  <2>1. r.sub \in Sub
    BY <1>2 DEF Row
  <2>2. /\ NewsToCome(0, r.sub) => NewsToCome(1, r.sub)
        /\ ChangeToCome(0, r.sub) => ChangeToCome(1, r.sub)
    BY <1>1, <1>2 DEF NewsToCome, ChangeToCome, News, Change
  <2> QED  BY <1>1, <1>2, <1>3, <2>1, <2>2 DEF Follows
<1> QED  BY <1>3, <1>4, <1>5

\* What the first event will make of the row.
LEMMA FirstFollows ==
    ASSUME OutboxInv, outbox \in Seq(Announced), 1 \in 1 .. Len(outbox), row \in Row,
           Follows(row), Concerns(outbox[1]), NEW r, r = Handled(outbox[1], row)
    PROVE  /\ r.sub = outbox[1].sub /\ r.sub \in Sub
           /\ r.status = subscription[r.sub].status \/ NewsToCome(1, r.sub)
           /\ \/ /\ r.start = subscription[r.sub].cycle
                 /\ subscription[r.sub].plan \in Priced => r.plan = subscription[r.sub].plan
              \/ ChangeToCome(1, r.sub)
<1> DEFINE event == outbox[1]
<1>1. /\ event \in Announced /\ event.sub \in Sub /\ Told(1, event) /\ Len(outbox) \in Nat
      /\ event.type \in Types /\ event.sub # NoSub
  BY DEF OutboxInv, Announced, Event, Types
<1>2. CASE Checkout(event)
  <2>1. r = [row EXCEPT !.customer = TRUE, !.sub = event.sub, !.status = "active"]
    BY <1>2 DEF Checkout, Handled, HandleCheckoutCompleted
  <2>2. ChangeToCome(1, event.sub)
    BY <1>1, <1>2 DEF Told
  <2>3. NewsToCome(1, event.sub)
    BY <2>2 DEF ChangeToCome, NewsToCome, Change
  <2> QED  BY <1>1, <2>1, <2>2, <2>3 DEF Row
<1>3. CASE event.type = "customer.subscription.deleted"
  <2>1. r = [row EXCEPT !.status = "canceled"] /\ row.sub = event.sub /\ ~Checkout(event)
    BY <1>3 DEF Checkout, Handled, HandleSubscriptionDeleted, Concerns
  <2>2. r.status = subscription[r.sub].status \/ NewsToCome(1, r.sub)
    BY <1>1, <1>3, <2>1 DEF Told, Row
  <2>3. /\ r.sub = row.sub /\ r.start = row.start /\ r.plan = row.plan
    BY <2>1 DEF Row
  <2>4. ChangeToCome(0, r.sub) => ChangeToCome(1, r.sub)
    BY <1>1, <1>3 DEF ChangeToCome, Change
  <2> QED  BY <1>1, <2>1, <2>2, <2>3, <2>4 DEF Follows
<1>4. CASE ~Checkout(event) /\ event.type # "customer.subscription.deleted"
  <2> DEFINE plan == ResolvePlan(event.snapshot.plan, row.plan)
  <2>1. /\ r = [row EXCEPT !.status = event.snapshot.status,
                           !.start = event.snapshot.cycle, !.end = event.snapshot.cycle + 1,
                           !.plan = plan]
        /\ row.sub = event.sub
    BY <1>4 DEF Checkout, Handled, HandleSubscriptionChanged, Concerns
  <2>2. event.snapshot.plan \in Priced => plan = event.snapshot.plan
    BY DEF ResolvePlan
  <2> HIDE DEF plan
  <2>3. /\ r.sub = event.sub /\ r.status = event.snapshot.status
        /\ r.start = event.snapshot.cycle /\ r.plan = plan
    BY <2>1 DEF Row
  <2> QED  BY <1>1, <1>4, <2>2, <2>3 DEF Told, SameTerms
<1> QED  BY <1>2, <1>3, <1>4

LEMMA ReadFollows ==
    ASSUME FollowInv, NEW w \in Worker, NEW i \in 1 .. Len(outbox), Read(w, i)
    PROVE  OrderInv'
<1> SUFFICES ASSUME orderly' PROVE (OutboxInv /\ AloneInv /\ (Idle => Follows(row)))'
  BY DEF OrderInv
<1>1. /\ orderly /\ i = 1 /\ Taken(1) /\ Idle /\ Concerns(outbox[1])
      /\ UNCHANGED <<subscription, row>>
      /\ handler' = [handler EXCEPT ![w] = <<[event |-> outbox[1], read |-> row]>>]
  BY DEF Read, Taken, Idle
<1>2. /\ OutboxInv /\ Follows(row) /\ outbox \in Seq(Announced) /\ row \in Row
  BY <1>1 DEF FollowInv, OrderInv, IInv, TypeOK, CycleInv
<1>3. /\ OutboxInv'
      /\ \A s \in Sub : /\ NewsToCome(1, s) => NewsToCome(0, s)'
                        /\ ChangeToCome(1, s) => ChangeToCome(0, s)'
  BY <1>1, <1>2, StillToCome
<1>4. PICK r : r = Handled(outbox[1], row)
  OBVIOUS
<1>5. Follows(r)'
  <2>1. /\ r.sub \in Sub
        /\ r.status = subscription[r.sub].status \/ NewsToCome(1, r.sub)
        /\ \/ /\ r.start = subscription[r.sub].cycle
              /\ subscription[r.sub].plan \in Priced => r.plan = subscription[r.sub].plan
           \/ ChangeToCome(1, r.sub)
    BY <1>1, <1>2, <1>4, FirstFollows
  <2> QED  BY <1>1, <1>3, <2>1 DEF Follows
<1>6. /\ handler'[w] # <<>> /\ handler'[w][1].event = outbox[1] /\ handler'[w][1].read = row
      /\ \A v \in Worker : v # w => handler'[v] = <<>>
  <2> DEFINE new == [event |-> outbox[1], read |-> row]
  <2>1. handler'[w] = <<new>> /\ \A v \in Worker : v # w => handler'[v] = handler[v]
    BY <1>1 DEF FollowInv, IInv, TypeOK
  <2>2. <<new>> # <<>> /\ <<new>>[1] = new
    OBVIOUS
  <2> QED  BY <1>1, <2>1, <2>2 DEF Idle
<1>7. AloneInv'
  <2>1. PICK event : event = handler'[w][1].event
    OBVIOUS
  <2>2. Handled(event, row') = r
    BY <1>1, <1>4, <1>6, <2>1
  <2> QED  BY <1>1, <1>5, <1>6, <2>1, <2>2 DEF AloneInv
<1> QED  BY <1>3, <1>6, <1>7 DEF Idle

\* The handler that is alone writes what it made of the row.
LEMMA CommitFollows ==
    ASSUME FollowInv, NEW w \in Worker, Commit(w)
    PROVE  OrderInv'
<1> SUFFICES ASSUME orderly PROVE (OutboxInv /\ AloneInv /\ (Idle => Follows(row)))'
  BY DEF OrderInv, Commit
<1>1. PICK event : event = handler[w][1].event
  OBVIOUS
<1>2. /\ handler[w] # <<>> /\ handler' = [handler EXCEPT ![w] = <<>>]
      /\ row' = Written(event, row) /\ event \in Announced
      /\ UNCHANGED <<subscription, outbox>>
      /\ OutboxInv /\ Follows(Handled(event, row))
      /\ \A v \in Worker : v # w => handler[v] = <<>>
  BY <1>1 DEF Commit, FollowInv, OrderInv, AloneInv, IInv, ReadInv
<1>3. row \in Row /\ NotTorn(row)
  BY DEF FollowInv, IInv, TypeOK, PeriodNotTorn, NotTorn
<1>4. PICK r : r = Handled(event, row)
  OBVIOUS
<1>5. row' = r
  <2>1. r \in Row /\ DOMAIN row = {"customer", "sub", "status", "start", "end", "plan"}
    BY <1>2, <1>3, <1>4, HandledRow DEF Row
  <2>2. row' = [c \in {"customer", "sub", "status", "start", "end", "plan"} |->
                    IF r[c] # row[c] THEN r[c] ELSE row[c]]
    BY <1>2, <1>4, <2>1 DEF Written
  <2>3. row' = [c \in {"customer", "sub", "status", "start", "end", "plan"} |-> r[c]]
    BY <2>2
  <2> QED  BY <2>1, <2>3 DEF Row
<1>6. OutboxInv' /\ Follows(r)'
  BY <1>2, <1>4 DEF OutboxInv, Told, Follows, NewsToCome, ChangeToCome
<1>7. \A v \in Worker : handler'[v] = <<>>
  BY <1>2 DEF FollowInv, IInv, TypeOK
<1> QED  BY <1>5, <1>6, <1>7 DEF AloneInv, Follows

LEMMA NextFollows == FollowInv /\ [Next]_vars => FollowInv'
<1> SUFFICES ASSUME FollowInv, [Next]_vars PROVE FollowInv'
  OBVIOUS
<1>1. IInv'
  BY NextIInv DEF FollowInv
<1>2. CASE UNCHANGED vars
  <2>1. UNCHANGED <<subscription, outbox, row, handler, orderly>>
    BY <1>2 DEF vars
  <2> QED  BY <1>1, <2>1 DEF FollowInv, OrderInv, OutboxInv, Told, AloneInv, Follows, Idle,
               NewsToCome, ChangeToCome
<1>3. CASE Next
  <2>1. DOMAIN outbox = 1 .. Len(outbox)
    BY DEF FollowInv, IInv, CycleInv
  <2>2. OrderInv'
    BY <1>3, <2>1, StripeFollows, IgnoreFollows, ReadFollows, CommitFollows DEF Next, Webhook
  <2> QED  BY <1>1, <2>2 DEF FollowInv
<1> QED  BY <1>2, <1>3

\* While events are handled in order and alone, repeated ones included, the row says
\* what Stripe says as soon as all of them are handled.
THEOREM InOrder == Spec => []RowFollowsStripe
<1>1. FollowInv => RowFollowsStripe
  <2> SUFFICES ASSUME FollowInv, orderly, Quiet, row.sub # NoSub
               PROVE  /\ row.status = subscription[row.sub].status
                      /\ row.start = subscription[row.sub].cycle
                      /\ row.plan = ResolvePlan(subscription[row.sub].plan, row.plan)
    BY DEF RowFollowsStripe
  <2>1. 1 .. Len(outbox) = {} /\ Follows(row)
    BY DEF Quiet, FollowInv, OrderInv, Idle
  <2> QED  BY <2>1 DEF Follows, NewsToCome, ChangeToCome, ResolvePlan
<1> QED  BY <1>1, InitFollows, NextFollows, PTL DEF Spec

(***************************************************************************)
(* The quota                                                               *)
(*                                                                         *)
(* The other half of backend/billing/service.py, PeriodQuota, for every    *)
(* limit, every length of a month and any number of conversations.  A      *)
(* period that is stored whole (PeriodIsWhole) is what it counts in.  The  *)
(* bounds are stated for all months and periods, begun or not: only then   *)
(* are they inductive, since time moves on to new ones.                    *)
(***************************************************************************)
InMonth(t) == {c \in StartedIn(t, t + Month + 1) : under[c] = None}
InPeriod(p) == {c \in StartedIn(p, p + Month) : under[c] = p}
StartedPast(p) == \E c \in Conversation : under[c] = p /\ started[c] >= p + Month

QuotaInv ==
    /\ QuotaTypeOK
    /\ \A t \in Nat : Cardinality(InMonth(t)) <= Limit
    /\ \A p \in Nat : /\ Cardinality(InPeriod(p)) <= Limit
                      /\ StartedPast(p) => Cardinality(StartedIn(p, p + Month)) < Limit

\* Adding one element to a part of a set that is below the limit.
LEMMA OneMore ==
    ASSUME NEW S, IsFiniteSet(S), Cardinality(S) < Limit, NEW T \in SUBSET S, NEW c
    PROVE  IsFiniteSet(T \cup {c}) /\ Cardinality(T \cup {c}) <= Limit
<1>1. IsFiniteSet(T) /\ Cardinality(T) <= Cardinality(S)
  BY FS_Subset
<1>2. Cardinality(T) \in Nat /\ Cardinality(S) \in Nat
  BY <1>1, FS_CardinalityType
<1>3. /\ IsFiniteSet(T \cup {c})
      /\ Cardinality(T \cup {c}) \in {Cardinality(T), Cardinality(T) + 1}
  BY <1>1, FS_AddElement
<1> QED  BY <1>1, <1>2, <1>3, LimitAssumption

\* All sets of conversations are finite.
LEMMA FewConversations == \A S \in SUBSET Conversation : IsFiniteSet(S)
BY FS_Subset, ConversationAssumption

LEMMA InitQuota == QuotaInit => QuotaInv
<1> SUFFICES ASSUME QuotaInit PROVE QuotaInv
  OBVIOUS
<1>1. QuotaTypeOK
  <2>1. /\ started \in [Conversation -> Nat] /\ under \in [Conversation -> Nat \cup {None}]
        /\ now \in Nat \ {0} /\ \A c \in Conversation : started[c] < now
    BY DEF QuotaInit, Never
  <2>2. period = None /\ subscribed = FALSE /\ free = {}
    BY DEF QuotaInit
  <2> QED  BY <2>1, <2>2, Zenon DEF QuotaTypeOK
<1>2. \A t \in Nat : InMonth(t) = {} /\ InPeriod(t) = {} /\ ~StartedPast(t)
  BY NoneAssumption DEF QuotaInit, InMonth, InPeriod, StartedPast, StartedIn, Never
<1> QED  BY <1>1, <1>2, FS_EmptySet, LimitAssumption DEF QuotaInv

\* What an Open adds to a month or a period, and what was counted before it.
LEMMA QuotaOpen ==
    ASSUME QuotaInv, NEW c \in Conversation, Open(c)
    PROVE  QuotaInv'
<1> USE MonthAssumption, NoneAssumption
<1>1. QuotaTypeOK'
  <2>1. started' \in [Conversation -> Nat] /\ under' \in [Conversation -> Nat \cup {None}]
    BY DEF QuotaInv, QuotaTypeOK, Open
  <2>2. \A d \in Conversation : started'[d] < now'
    BY DEF QuotaInv, QuotaTypeOK, Open
  <2> QED  BY <2>1, <2>2 DEF QuotaInv, QuotaTypeOK, Open
<1>2. IsFiniteSet(Used) /\ Cardinality(Used) < Limit
  <2>1. Used \in SUBSET Conversation
    BY DEF Used, StartedIn
  <2> QED  BY <2>1, FewConversations DEF Open, WithinQuota
<1>3. ASSUME NEW t \in Nat PROVE Cardinality(InMonth(t)') <= Limit
  <2>1. CASE period # None \/ now < t \/ t + Month < now
    <3>1. InMonth(t)' = InMonth(t)
      BY <2>1 DEF InMonth, StartedIn, QuotaInv, QuotaTypeOK, Open, Never
    <3> QED  BY <3>1 DEF QuotaInv
  <2>2. CASE period = None /\ t <= now /\ now <= t + Month
    <3>1. InMonth(t) \in SUBSET Used
      BY <2>2 DEF InMonth, StartedIn, Used, PeriodStart, PeriodEnd, QuotaInv, QuotaTypeOK
    <3>2. InMonth(t)' = InMonth(t) \cup {c}
      BY <2>2 DEF InMonth, StartedIn, QuotaInv, QuotaTypeOK, Open, Never
    <3> QED  BY <3>1, <3>2, <1>2, OneMore
  <2> QED  BY <2>1, <2>2 DEF QuotaInv, QuotaTypeOK
<1>4. ASSUME NEW p \in Nat PROVE Cardinality(InPeriod(p)') <= Limit
  <2>1. CASE period # p \/ now < p \/ p + Month <= now
    <3>1. InPeriod(p)' = InPeriod(p)
      BY <2>1 DEF InPeriod, StartedIn, QuotaInv, QuotaTypeOK, Open, Never
    <3> QED  BY <3>1 DEF QuotaInv
  <2>2. CASE period = p /\ p <= now /\ now < p + Month
    <3>1. InPeriod(p) \in SUBSET Used
      BY <2>2 DEF InPeriod, StartedIn, Used, PeriodStart, PeriodEnd, QuotaInv, QuotaTypeOK
    <3>2. InPeriod(p)' = InPeriod(p) \cup {c}
      BY <2>2 DEF InPeriod, StartedIn, QuotaInv, QuotaTypeOK, Open, Never
    <3> QED  BY <3>1, <3>2, <1>2, OneMore
  <2> QED  BY <2>1, <2>2 DEF QuotaInv, QuotaTypeOK
<1>5. ASSUME NEW p \in Nat, StartedPast(p)'
      PROVE  Cardinality(StartedIn(p, p + Month)') < Limit
  <2>1. PICK d \in Conversation : under'[d] = p /\ started'[d] >= p + Month
    BY <1>5 DEF StartedPast
  <2>2. p + Month <= now
    BY <2>1 DEF QuotaInv, QuotaTypeOK, Open
  <2>3. StartedIn(p, p + Month)' = StartedIn(p, p + Month)
    BY <2>2 DEF StartedIn, QuotaInv, QuotaTypeOK, Open, Never
  <2>4. CASE d = c
    <3>1. period = p
      BY <2>1, <2>4 DEF QuotaInv, QuotaTypeOK, Open
    <3>2. Used = StartedIn(p, p + Month)
      BY <3>1 DEF Used, PeriodStart, PeriodEnd
    <3> QED  BY <3>2, <2>3, <1>2
  <2>5. CASE d # c
    <3>1. StartedPast(p)
      BY <2>1, <2>5 DEF StartedPast, QuotaInv, QuotaTypeOK, Open
    <3> QED  BY <3>1, <2>3 DEF QuotaInv
  <2> QED  BY <2>4, <2>5
<1> QED  BY <1>1, <1>3, <1>4, <1>5 DEF QuotaInv

LEMMA NextQuota == QuotaInv /\ [QuotaNext]_quotaVars => QuotaInv'
<1> SUFFICES ASSUME QuotaInv, [QuotaNext]_quotaVars PROVE QuotaInv'
  OBVIOUS
<1>1. ASSUME NEW c \in Conversation, Open(c) PROVE QuotaInv'
  BY <1>1, QuotaOpen
<1>2. CASE Wait
  <2>1. now \in Nat /\ now' = now + 1 /\ UNCHANGED <<period, subscribed, started, under, free>>
    BY <1>2 DEF Wait, QuotaInv, QuotaTypeOK
  <2>2. QuotaTypeOK'
    <3>1. now' \in Nat \ {0} /\ \A c \in Conversation : started'[c] < now'
      BY <2>1 DEF QuotaInv, QuotaTypeOK
    <3> QED  BY <2>1, <3>1 DEF QuotaInv, QuotaTypeOK
  <2> QED  BY <2>1, <2>2 DEF QuotaInv, InMonth, InPeriod, StartedPast, StartedIn
<1>3. ASSUME NEW start \in 1 .. now, StorePeriod(start) PROVE QuotaInv'
  <2>1. period' \in Nat \cup {None} /\ subscribed' = TRUE /\ UNCHANGED <<now, started, under, free>>
    BY <1>3 DEF StorePeriod, QuotaInv, QuotaTypeOK
  <2>2. QuotaTypeOK'
    BY <2>1, Zenon DEF QuotaInv, QuotaTypeOK
  <2> QED  BY <2>1, <2>2 DEF QuotaInv, InMonth, InPeriod, StartedPast, StartedIn
<1>4. CASE Activate \/ ClearPeriod \/ Deactivate
  BY <1>4 DEF Activate, ClearPeriod, Deactivate, QuotaInv, QuotaTypeOK, InMonth, InPeriod,
              StartedPast, StartedIn
<1>5. CASE UNCHANGED quotaVars
  BY <1>5 DEF quotaVars, QuotaInv, QuotaTypeOK, InMonth, InPeriod, StartedPast, StartedIn
<1> QED  BY <1>1, <1>2, <1>3, <1>4, <1>5 DEF QuotaNext

\* The bounds are invariants.
THEOREM QuotaInvariance == QuotaSpec => []QuotaInv
BY InitQuota, NextQuota, PTL DEF QuotaSpec

\* The variables keep their types.
THEOREM QuotaTypeCorrect == QuotaSpec => []QuotaTypeOK
<1>1. QuotaInv => QuotaTypeOK
  BY DEF QuotaInv
<1> QED  BY <1>1, QuotaInvariance, PTL

\* The conversations started while no period is stored are at most Limit in any month,
\* both ends included.
THEOREM MonthsBounded == QuotaSpec => []EveryMonthBounded
<1>1. QuotaInv => EveryMonthBounded
  BY DEF QuotaInv, EveryMonthBounded, InMonth, QuotaTypeOK
<1> QED  BY <1>1, QuotaInvariance, PTL

\* A stored period admits at most Limit conversations up to its end, and past its end
\* only where it had room left: then without bound, which FreeUseIsBounded denies.
THEOREM PeriodsBounded == QuotaSpec => []EveryPeriodBounded
<1>1. QuotaInv => EveryPeriodBounded
  BY DEF QuotaInv, EveryPeriodBounded, InPeriod, StartedPast, QuotaTypeOK
<1> QED  BY <1>1, QuotaInvariance, PTL
==============================================================================
