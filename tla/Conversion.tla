----------------------------- MODULE Conversion -----------------------------
(***************************************************************************)
(* Attribution of orders to conversations: the thank-you page of the shop  *)
(* reports the order for the conversation named by the cookie kib_conv     *)
(* (plugin/ki-berater/includes/class-conversion-tracker.php), the backend  *)
(* marks the conversation (backend/services/analytics_service.py,          *)
(* record_conversion) and the overview sums up the marked ones.            *)
(*                                                                         *)
(* A page is loaded again, in two tabs, or for an old order; a report that *)
(* got no answer leaves the cookie.  Each report is a transaction of its   *)
(* own: it reads the conversation, looks up what was recommended, and      *)
(* writes the columns that differ from what it read.                       *)
(***************************************************************************)
EXTENDS Integers, FiniteSets, FiniteSetsExt

CONSTANTS
    Conversation,
    Order,
    Total,          \* order_total_eur of each order
    Report,         \* loads of a thank-you page with the cookie set
    None

ASSUME TotalAssumption == Total \in [Order -> Nat]

Kind == {"strict", "cookie_only"}

\* The columns of a conversation that record_conversion writes; converted is TRUE
\* as soon as there is an order.
Columns == [order : Order \cup {None}, total : {Total[o] : o \in Order} \cup {None},
            kind : Kind \cup {None}]
Fresh == [order |-> None, total |-> None, kind |-> None]

ASSUME NoneAssumption == None \notin Nat \cup Order \cup Conversation \cup Columns

VARIABLES
    row,            \* the committed row of a conversation, None if there is none
    cookie,         \* the browser's kib_conv
    report,         \* each report: step, conversation, order, row it read
    told,           \* orders the shop was told are recorded
    dropped,        \* orders a row had until another one replaced it or the purge came
    torn            \* conversations whose last save replaced a conversion it had
                    \* not read

observers == <<told, dropped, torn>>
vars == <<row, cookie, report, observers>>

Unused == [pc |-> "unused", convo |-> None, order |-> None, read |-> None]

Init ==
    /\ row \in [Conversation -> {Fresh, None}]
    /\ cookie = None
    /\ report = [r \in Report |-> Unused]
    /\ told = {} /\ dropped = {} /\ torn = {}

Marked == {c \in Conversation : row[c] # None /\ row[c].order # None}
Recorded == {row[c].order : c \in Marked}

(***************************************************************************)
(* Browser and shop                                                        *)
(***************************************************************************)
\* persistConvoId and clearConvo of the widget.
SetCookie(c) ==
    /\ cookie' = c
    /\ UNCHANGED <<row, report, observers>>

ThankYou(r, o) ==
    /\ report[r].pc = "unused" /\ cookie # None
    /\ report' = [report EXCEPT ![r] = [pc |-> "sent", convo |-> cookie,
                                             order |-> o, read |-> None]]
    /\ UNCHANGED <<row, cookie, observers>>

(***************************************************************************)
(* record_conversion                                                       *)
(***************************************************************************)
Goto(r, pc) == report' = [report EXCEPT ![r].pc = pc]

NotFound(r) ==
    /\ report[r].pc = "sent" /\ row[report[r].convo] = None
    /\ Goto(r, "failed")
    /\ UNCHANGED <<row, cookie, observers>>

\* Mutant of AlreadyRecorded: any conversion will do.
AlreadyConverted(r) ==
    /\ report[r].pc = "sent" /\ report[r].convo \in Marked
    /\ Goto(r, "answering")
    /\ UNCHANGED <<row, cookie, observers>>

AlreadyRecorded(r) ==
    /\ report[r].pc = "sent" /\ report[r].convo \in Marked
    /\ row[report[r].convo].order = report[r].order
    /\ Goto(r, "answering")
    /\ UNCHANGED <<row, cookie, observers>>

ReadConversation(r) ==
    LET now == row[report[r].convo] IN
    /\ report[r].pc = "sent" /\ now # None
    /\ now.order # report[r].order
    /\ report' = [report EXCEPT ![r].pc = "attributing", ![r].read = now]
    /\ UNCHANGED <<row, cookie, observers>>

\* The unique index on (shop_id, order_id).
OrderIsFree(r) == \A c \in Marked \ {report[r].convo} : row[c].order # report[r].order

\* The UPDATE sets the columns whose values differ from those that were read; it
\* waits for overlapping ones and keeps what they wrote in the other columns.
Written(r, kind) ==
    LET new == [order |-> report[r].order, total |-> Total[report[r].order], kind |-> kind]
        now == row[report[r].convo]
    IN [col \in DOMAIN now |-> IF new[col] # report[r].read[col] THEN new[col] ELSE now[col]]

Saved(r) ==
    LET c == report[r].convo
        was == row[c].order
        blind == report[r].read # row[c] /\ report[r].read.order # None
    IN /\ Goto(r, "answering")
       /\ dropped' = (dropped \cup ({was} \ {None})) \ {report[r].order}
       /\ torn' = IF blind THEN torn \cup {c} ELSE torn \ {c}
       /\ UNCHANGED <<cookie, told>>

\* Mutants of Save: the attribution is forgotten, and the index is missing.
SaveUnattributed(r) ==
    /\ report[r].pc = "attributing" /\ row[report[r].convo] # None
    /\ OrderIsFree(r)
    /\ row' = [row EXCEPT ![report[r].convo] = Written(r, "unknown")]
    /\ Saved(r)
SaveUnindexed(r) ==
    /\ report[r].pc = "attributing" /\ row[report[r].convo] # None
    /\ \E kind \in Kind : row' = [row EXCEPT ![report[r].convo] = Written(r, kind)]
    /\ Saved(r)

\* What the conversation recommended decides the kind.
Save(r) ==
    /\ report[r].pc = "attributing" /\ row[report[r].convo] # None
    /\ OrderIsFree(r)
    /\ \E kind \in Kind : row' = [row EXCEPT ![report[r].convo] = Written(r, kind)]
    /\ Saved(r)

\* An IntegrityError of the index, or a StaleDataError when the row is gone.
SaveFails(r) ==
    /\ report[r].pc = "attributing"
    /\ row[report[r].convo] = None \/ ~OrderIsFree(r)
    /\ Goto(r, "failed")
    /\ UNCHANGED <<row, cookie, observers>>

\* The row is refreshed after a save, and only then.
Refreshes(r) == report[r].read # None

\* The 200 answer shows the row.  The shop then deletes the cookie, unless its 15
\* seconds are over or the page's headers are sent already.
Answer(r) ==
    /\ report[r].pc = "answering" /\ (Refreshes(r) => row[report[r].convo] # None)
    /\ Goto(r, "done")
    /\ cookie' \in {cookie, None}
    /\ told' = told \cup {report[r].order}
    /\ UNCHANGED <<row, dropped, torn>>

\* The refresh finds no row.
AnswerFails(r) ==
    /\ report[r].pc = "answering" /\ Refreshes(r) /\ row[report[r].convo] = None
    /\ Goto(r, "failed")
    /\ UNCHANGED <<row, cookie, observers>>

\* The database or the worker fails before the commit.
Abort(r) ==
    /\ report[r].pc \in {"sent", "attributing"}
    /\ Goto(r, "failed")
    /\ UNCHANGED <<row, cookie, observers>>

Purge(c) ==
    /\ row[c] # None
    /\ row' = [row EXCEPT ![c] = None]
    /\ dropped' = dropped \cup ({row[c].order} \ {None})
    /\ torn' = torn \ {c}
    /\ UNCHANGED <<cookie, report, told>>

(***************************************************************************)
(* Specification                                                           *)
(***************************************************************************)
Handle(r) ==
    \/ NotFound(r) \/ AlreadyRecorded(r) \/ ReadConversation(r) \/ Save(r) \/ SaveFails(r)
    \/ Answer(r) \/ AnswerFails(r)

Next ==
    \/ \E c \in Conversation \cup {None} : SetCookie(c)
    \/ \E r \in Report : (\E o \in Order : ThankYou(r, o)) \/ Handle(r) \/ Abort(r)
    \/ \E c \in Conversation : Purge(c)

Spec == Init /\ [][Next]_vars

(***************************************************************************)
(* Properties                                                              *)
(***************************************************************************)
TypeOK ==
    /\ row \in [Conversation -> Columns \cup {None}]
    /\ cookie \in Conversation \cup {None}
    /\ report \in [Report -> [pc : {"unused", "sent", "attributing", "answering", "done",
                                    "failed"},
                              convo : Conversation \cup {None}, order : Order \cup {None},
                              read : Columns \cup {None}]]
    /\ told \subseteq Order /\ dropped \subseteq Order /\ torn \subseteq Conversation

\* get_overview: the total of the converted conversations.  The window of started_at
\* is left out: it only chooses the rows, and the property is about each.
Revenue == MapThenSumSet(LAMBDA c : row[c].total, Marked)

\* The overview's revenue is the total of the recorded orders, each counted once,
\* however often and for however many conversations an order is reported.  Only
\* reports that replace the same conversion at the same time can mix the columns
\* of two orders; overlapping first reports cannot.
RevenueIsHonest ==
    torn = {} => Revenue = MapThenSumSet(LAMBDA o : Total[o], Recorded)

\* Whatever the shop was told is recorded stays recorded, until another order is
\* reported for the conversation or the conversation is purged.
AnsweredIsRecorded == told \subseteq Recorded \cup dropped
=============================================================================
