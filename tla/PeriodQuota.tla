----------------------------- MODULE PeriodQuota -----------------------------
(***************************************************************************)
(* Which conversations count against the quota of a shop over time:        *)
(* _get_current_period, count_period_usage and is_within_quota of          *)
(* backend/billing/service.py.                                             *)
(*                                                                         *)
(* Time passes in ticks, and no two conversations start in the same one.   *)
(* One plan is in force; a create is one step here (Conversation has the   *)
(* overlapping ones, Billing the webhook handlers in full: here is what    *)
(* they do to the status and the period; the names differ from Billing's,  *)
(* since one module proves both).                                          *)
(***************************************************************************)
EXTENDS Integers, FiniteSets

CONSTANTS
    Conversation,   \* conversations the visitors want to open
    Limit,          \* the plan's monthly_conversations
    Month,          \* ticks of a billing period and of the rolling window
    None,           \* the period columns are NULL
    LastTick        \* bound on the time

ASSUME ConversationAssumption == IsFiniteSet(Conversation)
ASSUME LimitAssumption == Limit \in Nat
ASSUME MonthAssumption == Month \in Nat \ {0}
ASSUME LastTickAssumption == LastTick \in Nat
ASSUME NoneAssumption == None \notin Nat

Never == 0

VARIABLES
    now,            \* the current tick, from 1
    period,         \* the shop's current_period_start, or None
    subscribed,     \* the shop's subscription_status says there is one
    started,        \* conversation -> its started_at, or Never
    under,          \* conversation -> the period the shop had when it started
    free            \* conversations started without a subscription

quotaVars == <<now, period, subscribed, started, under, free>>

QuotaInit ==
    /\ now = 1
    /\ period = None
    /\ subscribed = FALSE
    /\ started = [c \in Conversation |-> Never]
    /\ under = [c \in Conversation |-> None]
    /\ free = {}

\* Conversations with from <= started_at < to.
StartedIn(from, to) ==
    {c \in Conversation : started[c] # Never /\ from <= started[c] /\ started[c] < to}

\* Mutant of PeriodStart: a rolling window that is a tick short.
ShortWindow == IF period # None THEN period ELSE now - Month + 1

\* _get_current_period: the stored period, over or not, or the last 30 days.
PeriodStart == IF period # None THEN period ELSE now - Month
PeriodEnd == IF period # None THEN period + Month ELSE now

\* Mutant of Used: the start of the period is excluded.
UsedAfterStart == StartedIn(PeriodStart + 1, PeriodEnd)

Used == StartedIn(PeriodStart, PeriodEnd)

WithinQuota == Cardinality(Used) < Limit

\* Mutant of Open: the conversation starts after the time of the check.
OpenLater(c) ==
    /\ now < LastTick
    /\ started[c] = Never
    /\ WithinQuota
    /\ started' = [started EXCEPT ![c] = now + 1]
    /\ under' = [under EXCEPT ![c] = period]
    /\ free' = IF subscribed THEN free ELSE free \cup {c}
    /\ now' = now + 1
    /\ UNCHANGED <<period, subscribed>>

Open(c) ==
    /\ now < LastTick
    /\ started[c] = Never
    /\ WithinQuota
    /\ started' = [started EXCEPT ![c] = now]
    /\ under' = [under EXCEPT ![c] = period]
    /\ free' = IF subscribed THEN free ELSE free \cup {c}
    /\ now' = now + 1
    /\ UNCHANGED <<period, subscribed>>

Wait ==
    /\ now < LastTick
    /\ now' = now + 1
    /\ UNCHANGED <<period, subscribed, started, under, free>>

\* checkout.session.completed: the status is "active", the period stays.
Activate ==
    /\ subscribed' = TRUE
    /\ UNCHANGED <<now, period, started, under, free>>

\* customer.subscription.created or .updated with a period that has begun, not
\* always the newest.
StorePeriod(start) ==
    /\ start \in 1 .. now
    /\ period' = start
    /\ subscribed' = TRUE
    /\ UNCHANGED <<now, started, under, free>>

\* The same events without a period write NULL.
ClearPeriod ==
    /\ period' = None
    /\ subscribed' = TRUE
    /\ UNCHANGED <<now, started, under, free>>

\* customer.subscription.deleted: the status is "canceled", the period stays.
Deactivate ==
    /\ subscribed' = FALSE
    /\ UNCHANGED <<now, period, started, under, free>>

QuotaNext ==
    \/ \E c \in Conversation : Open(c)
    \/ Wait
    \/ Activate \/ ClearPeriod \/ Deactivate
    \/ \E start \in 1 .. now : StorePeriod(start)

QuotaSpec == QuotaInit /\ [][QuotaNext]_quotaVars

(***************************************************************************)
(* Properties                                                              *)
(***************************************************************************)
QuotaTypeOK ==
    /\ now \in Nat \ {0}
    /\ period \in Nat \cup {None}
    /\ subscribed \in BOOLEAN
    /\ started \in [Conversation -> Nat]
    /\ under \in [Conversation -> Nat \cup {None}]
    /\ free \subseteq Conversation
    /\ \A c \in Conversation : started[c] < now

\* The conversations that start while no period is stored stay within the limit in
\* every month, both ends included, and not only in the windows that end when
\* somebody asks: the window rolls with the check.
EveryMonthBounded ==
    \A t \in 1 .. now :
        Cardinality({c \in StartedIn(t, t + Month + 1) : under[c] = None}) <= Limit

\* What the stored period p bounds.  Up to its end, it admits no more than the limit,
\* even if other periods are stored in between.  After its end it counts nothing
\* new: until another event comes it admits everything if it had room left, and
\* nothing at all if it was used up.
EveryPeriodBounded ==
    \A p \in 1 .. now :
        /\ Cardinality({c \in StartedIn(p, p + Month) : under[c] = p}) <= Limit
        /\ (\E c \in Conversation : under[c] = p /\ started[c] >= p + Month) =>
               Cardinality(StartedIn(p, p + Month)) < Limit

\* Without a subscription a month has no more conversations than the limit, whatever
\* period p is still stored: "Without one, fall back to a rolling 30-day window so
\* the starter plan still enforces something rather than allowing unlimited free
\* usage" (billing/service.py:62-64).
FreeUseIsBounded ==
    \A t, p \in 1 .. now :
        Cardinality({c \in StartedIn(t, t + Month) : c \in free /\ under[c] = p}) <= Limit
==============================================================================
