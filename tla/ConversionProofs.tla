-------------------------- MODULE ConversionProofs --------------------------
(***************************************************************************)
(* Proofs about Conversion, for any number of conversations, orders and    *)
(* reports: no order is counted twice, a row whose last save did not       *)
(* replace a conversion blindly is that of one order, and what the shop    *)
(* was told is recorded is recorded.                                       *)
(***************************************************************************)
EXTENDS Conversion, FiniteSetTheorems, TLAPS

(***************************************************************************)
(* Sums over finite sets                                                   *)
(***************************************************************************)
\* A non-empty set of subsets of a finite set has a smallest one: what the proofs
\* by induction on finite sets rest on.
LEMMA MinimalSubset ==
    ASSUME NEW S, IsFiniteSet(S), NEW bad \in SUBSET (SUBSET S), bad # {}
    PROVE  \E s \in bad : \A t \in SUBSET s : t # s => t \notin bad
<1> DEFINE R == StrictSubsetOrdering(S)
<1>1. IsWellFoundedOn(R, SUBSET S)
  BY FS_StrictSubsetOrderingWellFounded, FS_FiniteSubsetsOfFinite
<1>2. PICK s \in bad : \A t \in bad : ~(<<t, s>> \in R)
  <2> HIDE DEF R
  <2> QED  BY <1>1, WFMin
<1>3. ASSUME NEW t \in SUBSET s, t # s, t \in bad PROVE FALSE
  <2>1. <<t, s>> \in R
    BY <1>3 DEF StrictSubsetOrdering
  <2> QED  BY <1>2, <1>3, <2>1
<1> QED  BY <1>3

\* The table of sums that MapThenSumSet fills in, subset by subset.
Picked(s) == CHOOSE x \in s : TRUE
IsSums(g, f, S) ==
    g = [s \in SUBSET S |-> IF s = {} THEN 0 ELSE f[Picked(s)] + g[s \ {Picked(s)}]]

\* The sum of f over s, one by one: as many elements as the sum is.
Units(f, s) == UNION {{x} \X (1 .. f[x]) : x \in s}

LEMMA UnitsStep ==
    ASSUME NEW f, NEW s, NEW x \in s, f[x] \in Nat, IsFiniteSet(Units(f, s \ {x}))
    PROVE  /\ IsFiniteSet(Units(f, s))
           /\ Cardinality(Units(f, s)) = f[x] + Cardinality(Units(f, s \ {x}))
<1> DEFINE own == {x} \X (1 .. f[x])
           rest == Units(f, s \ {x})
<1>1. Units(f, s) = own \cup rest
  BY DEF Units
<1>2. own \cap rest = {}
  BY DEF Units
<1>3. IsFiniteSet(own) /\ Cardinality(own) = f[x]
  <2>1. IsFiniteSet({x}) /\ Cardinality({x}) = 1
    BY FS_Singleton
  <2>2. IsFiniteSet(1 .. f[x]) /\ Cardinality(1 .. f[x]) = f[x]
    BY FS_Interval
  <2>3. IsFiniteSet(own) /\ Cardinality(own) = Cardinality({x}) * Cardinality(1 .. f[x])
    BY <2>1, <2>2, FS_Product
  <2> QED  BY <2>1, <2>2, <2>3
<1>4. Cardinality(rest) \in Nat /\ Cardinality({}) = 0
  BY FS_CardinalityType, FS_EmptySet
<1> HIDE DEF own, rest
<1>5. /\ IsFiniteSet(own \cup rest)
      /\ Cardinality(own \cup rest) = Cardinality(own) + Cardinality(rest) - Cardinality({})
  <2>1. IsFiniteSet(rest)
    BY DEF rest
  <2> QED  BY <1>2, <1>3, <2>1, FS_Union
<1>6. Cardinality(own \cup rest) = f[x] + Cardinality(rest)
  BY <1>3, <1>4, <1>5
<1> QED  BY <1>1, <1>5, <1>6 DEF rest

LEMMA UnitsFinite ==
    ASSUME NEW S, IsFiniteSet(S), NEW f, \A x \in S : f[x] \in Nat
    PROVE  \A s \in SUBSET S : IsFiniteSet(Units(f, s))
<1> DEFINE bad == {s \in SUBSET S : ~IsFiniteSet(Units(f, s))}
<1> SUFFICES ASSUME bad # {} PROVE FALSE
  OBVIOUS
<1>1. PICK s \in bad : \A t \in SUBSET s : t # s => t \notin bad
  <2> HIDE DEF bad
  <2>1. bad \in SUBSET (SUBSET S)
    BY DEF bad
  <2> QED  BY <2>1, MinimalSubset
<1>2. CASE s = {}
  <2>1. Units(f, s) = {}
    BY <1>2 DEF Units
  <2> QED  BY <2>1, <1>1, FS_EmptySet
<1>3. CASE s # {}
  <2>1. PICK x \in s : TRUE
    BY <1>3
  <2>2. IsFiniteSet(Units(f, s \ {x}))
    BY <1>1, <2>1
  <2>3. f[x] \in Nat
    BY <2>1
  <2> QED  BY <1>1, <2>2, <2>3, UnitsStep
<1> QED  BY <1>2, <1>3

\* There is one table of sums, and it counts the units.
LEMMA SumsCount ==
    ASSUME NEW S, IsFiniteSet(S), NEW f, \A x \in S : f[x] \in Nat
    PROVE  LET g == CHOOSE g : IsSums(g, f, S) IN g[S] = Cardinality(Units(f, S))
<1> DEFINE G == [s \in SUBSET S |-> Cardinality(Units(f, s))]
           g == CHOOSE h : IsSums(h, f, S)
<1>1. ASSUME NEW s \in SUBSET S, s # {}
      PROVE  Picked(s) \in s /\ s \ {Picked(s)} \in SUBSET S /\ s \ {Picked(s)} # s
  BY <1>1 DEF Picked
<1>2. G[{}] = 0
  <2>1. Units(f, {}) = {}
    BY DEF Units
  <2> QED  BY <2>1, FS_EmptySet
<1>3. ASSUME NEW s \in SUBSET S, s # {}
      PROVE  G[s] = f[Picked(s)] + G[s \ {Picked(s)}]
  <2>1. f[Picked(s)] \in Nat /\ IsFiniteSet(Units(f, s \ {Picked(s)}))
    BY <1>1, <1>3, UnitsFinite
  <2>2. Cardinality(Units(f, s))
            = f[Picked(s)] + Cardinality(Units(f, s \ {Picked(s)}))
    BY <1>1, <1>3, <2>1, UnitsStep
  <2> QED  BY <1>1, <1>3, <2>2
<1> HIDE DEF G
<1>4. IsSums(G, f, S)
  <2>1. G = [s \in SUBSET S |-> G[s]]
    BY DEF G
  <2>2. \A s \in SUBSET S : G[s] = IF s = {} THEN 0 ELSE f[Picked(s)] + G[s \ {Picked(s)}]
    BY <1>2, <1>3
  <2> QED  BY <2>1, <2>2 DEF IsSums
<1>5. IsSums(g, f, S)
  BY <1>4
<1> HIDE DEF g
<1>6. \A s \in SUBSET S : g[s] = IF s = {} THEN 0 ELSE f[Picked(s)] + g[s \ {Picked(s)}]
  BY <1>5, Zenon DEF IsSums
<1> DEFINE bad == {s \in SUBSET S : g[s] # G[s]}
<1>7. ASSUME bad # {} PROVE FALSE
  <2>1. PICK s \in bad : \A t \in SUBSET s : t # s => t \notin bad
    <3> HIDE DEF bad
    <3>1. bad \in SUBSET (SUBSET S)
      BY DEF bad
    <3> QED  BY <1>7, <3>1, MinimalSubset
  <2>2. s # {}
    BY <1>2, <1>6, <2>1
  <2>3. g[s \ {Picked(s)}] = G[s \ {Picked(s)}]
    BY <1>1, <2>1, <2>2
  <2> QED  BY <1>3, <1>6, <2>1, <2>2, <2>3
<1> QED  BY <1>7 DEF G, g

\* Adding up the same numbers under other names gives the same sum.
LEMMA SameUnits ==
    ASSUME NEW S, IsFiniteSet(S), NEW f, \A x \in S : f[x] \in Nat,
           NEW T, NEW h, NEW b \in [S -> T],
           \A x, y \in S : b[x] = b[y] => x = y,
           \A y \in T : \E x \in S : y = b[x],
           \A x \in S : f[x] = h[b[x]]
    PROVE  /\ IsFiniteSet(T)
           /\ Cardinality(Units(f, S)) = Cardinality(Units(h, T))
<1> DEFINE rename == [u \in Units(f, S) |-> <<b[u[1]], u[2]>>]
<1>1. b \in Bijection(S, T)
  BY DEF Bijection, Injection, Surjection, IsInjective
<1>2. IsFiniteSet(T)
  BY <1>1, FS_Bijection DEF ExistsBijection
<1>3. rename \in [Units(f, S) -> Units(h, T)]
  BY DEF Units
<1>4. \A u, v \in Units(f, S) : rename[u] = rename[v] => u = v
  BY DEF Units
<1>5. ASSUME NEW w \in Units(h, T) PROVE \E u \in Units(f, S) : rename[u] = w
  <2>1. PICK y \in T : w \in {y} \X (1 .. h[y])
    BY DEF Units
  <2>2. PICK x \in S : y = b[x]
    OBVIOUS
  <2>3. w = <<b[x], w[2]>> /\ w[2] \in 1 .. f[x]
    BY <2>1, <2>2
  <2>4. <<x, w[2]>> \in Units(f, S)
    BY <2>3 DEF Units
  <2> QED  BY <2>3, <2>4
<1>6. rename \in Bijection(Units(f, S), Units(h, T))
  <2> HIDE DEF rename
  <2> QED  BY <1>3, <1>4, <1>5 DEF Bijection, Injection, Surjection, IsInjective
<1>7. IsFiniteSet(Units(f, S))
  BY UnitsFinite
<1> QED  BY <1>2, <1>6, <1>7, FS_Bijection DEF ExistsBijection

(***************************************************************************)
(* The invariant                                                           *)
(***************************************************************************)

OrdersOnce == \A c, d \in Marked : row[c].order = row[d].order => c = d
RowsWhole == \A c \in Marked \ torn : row[c].total = Total[row[c].order]

Blank(columns) == columns.order = None => columns = Fresh

\* A report that is attributing has read another order or none, and one that is
\* answering has an order that was recorded.
HandlerInv == \A r \in Report :
    /\ report[r].pc # "unused" =>
           report[r].convo \in Conversation /\ report[r].order \in Order
    /\ report[r].pc = "attributing" =>
           /\ report[r].read \in Columns /\ Blank(report[r].read)
           /\ report[r].read.order # report[r].order
    /\ report[r].pc = "answering" => report[r].order \in Recorded \cup dropped

RowsInv == \A c \in Conversation : row[c] # None => Blank(row[c])

\* However many conversations there may be, a report converts one of them.
FewMarked == IsFiniteSet(Marked)

IInv ==
    /\ TypeOK /\ OrdersOnce /\ RowsWhole /\ FewMarked
    /\ HandlerInv /\ RowsInv /\ AnsweredIsRecorded

LEMMA FreshIsColumns == Fresh \in Columns /\ Fresh # None /\ Fresh.order = None
BY NoneAssumption DEF Fresh, Columns

LEMMA InitIInv == Init => IInv
<1> SUFFICES ASSUME Init PROVE IInv
  OBVIOUS
<1>1. Marked = {}
  BY FreshIsColumns DEF Init, Marked
<1>2. TypeOK
  BY FreshIsColumns DEF Init, TypeOK, Unused
<1>3. OrdersOnce /\ RowsWhole /\ FewMarked /\ AnsweredIsRecorded
  BY <1>1, FS_EmptySet DEF OrdersOnce, RowsWhole, FewMarked, AnsweredIsRecorded, Init
<1>4. HandlerInv
  BY DEF HandlerInv, Init, Unused
<1>5. RowsInv
  BY DEF RowsInv, Blank, Init
<1> QED  BY <1>2, <1>3, <1>4, <1>5 DEF IInv

\* A step that leaves the rows and what was dropped alone, and moves a report.
LEMMA Moves ==
    ASSUME IInv, TypeOK', HandlerInv', UNCHANGED <<row, dropped, torn>>,
           told' \subseteq Recorded \cup dropped
    PROVE  IInv'
<1>1. Marked' = Marked /\ Recorded' = Recorded
  BY DEF Marked, Recorded
<1> QED  BY <1>1 DEF IInv, OrdersOnce, RowsWhole, FewMarked, RowsInv, Blank,
         AnsweredIsRecorded

\* Browser and shop.
LEMMA ShopStep ==
    ASSUME IInv,
           (\E c \in Conversation \cup {None} : SetCookie(c))
               \/ (\E r \in Report, o \in Order : ThankYou(r, o))
    PROVE  IInv'
<1>1. ASSUME NEW c \in Conversation \cup {None}, SetCookie(c) PROVE IInv'
  <2>1. TypeOK'
    BY <1>1 DEF IInv, TypeOK, SetCookie, observers
  <2>2. Marked' = Marked /\ Recorded' = Recorded
    BY <1>1 DEF SetCookie, Marked, Recorded
  <2>3. HandlerInv'
    BY <1>1, <2>2 DEF IInv, HandlerInv, SetCookie, observers, Blank
  <2> QED  BY <1>1, <2>1, <2>3, Moves DEF IInv, AnsweredIsRecorded, SetCookie, observers
<1>2. ASSUME NEW r \in Report, NEW o \in Order, ThankYou(r, o) PROVE IInv'
  <2>1. cookie \in Conversation
    BY <1>2 DEF IInv, TypeOK, ThankYou
  <2>2. report' \in [Report -> [pc : {"unused", "sent", "attributing", "answering", "done",
                                      "failed"},
                                convo : Conversation \cup {None}, order : Order \cup {None},
                                read : Columns \cup {None}]]
    BY <1>2, <2>1 DEF IInv, TypeOK, ThankYou
  <2>3. TypeOK'
    BY <1>2, <2>1, <2>2 DEF IInv, TypeOK, ThankYou, observers
  <2>4. Marked' = Marked /\ Recorded' = Recorded
    BY <1>2 DEF ThankYou, Marked, Recorded
  <2>5. HandlerInv'
    <3>1. \A q \in Report : q # r => report'[q] = report[q]
      BY <1>2 DEF IInv, TypeOK, ThankYou
    <3>2. report'[r].pc = "sent" /\ report'[r].convo = cookie /\ report'[r].order = o
      BY <1>2 DEF IInv, TypeOK, ThankYou
    <3> QED  BY <1>2, <2>1, <2>4, <3>1, <3>2 DEF IInv, HandlerInv, ThankYou, observers, Blank
  <2> QED  BY <1>2, <2>3, <2>5, Moves DEF IInv, AnsweredIsRecorded, ThankYou, observers
<1> QED  BY <1>1, <1>2

\* Steps of a report before and after its save.
LEMMA ReportStep ==
    ASSUME IInv, NEW r \in Report,
           \/ NotFound(r) \/ AlreadyRecorded(r) \/ ReadConversation(r) \/ SaveFails(r)
           \/ Answer(r) \/ AnswerFails(r) \/ Abort(r)
    PROVE  IInv'
<1> USE DEF Goto, observers
<1>1. report[r].pc # "unused"
  BY DEF NotFound, AlreadyRecorded, ReadConversation, SaveFails, Answer, AnswerFails, Abort
<1>2. report[r].convo \in Conversation /\ report[r].order \in Order
  BY <1>1 DEF IInv, HandlerInv
<1>3. UNCHANGED <<row, dropped, torn>>
  BY DEF NotFound, AlreadyRecorded, ReadConversation, SaveFails, Answer, AnswerFails, Abort
<1>4. Marked' = Marked /\ Recorded' = Recorded
  BY <1>3 DEF Marked, Recorded
<1>5. CASE NotFound(r) \/ SaveFails(r) \/ AnswerFails(r) \/ Abort(r)
  <2>1. TypeOK'
    BY <1>5 DEF IInv, TypeOK, NotFound, SaveFails, AnswerFails, Abort
  <2>2. HandlerInv'
    BY <1>3, <1>4, <1>5 DEF IInv, TypeOK, HandlerInv, Blank, NotFound, SaveFails,
       AnswerFails, Abort
  <2> QED  BY <1>3, <1>5, <2>1, <2>2, Moves
           DEF IInv, AnsweredIsRecorded, NotFound, SaveFails, AnswerFails, Abort
<1>6. CASE AlreadyRecorded(r)
  <2>1. TypeOK'
    BY <1>6 DEF IInv, TypeOK, AlreadyRecorded
  <2>2. report[r].order \in Recorded
    BY <1>6 DEF AlreadyRecorded, Recorded
  <2>3. HandlerInv'
    BY <1>3, <1>4, <1>6, <2>2 DEF IInv, TypeOK, HandlerInv, Blank, AlreadyRecorded
  <2> QED  BY <1>3, <1>6, <2>1, <2>3, Moves DEF IInv, AnsweredIsRecorded, AlreadyRecorded
<1>7. CASE ReadConversation(r)
  <2>1. row[report[r].convo] \in Columns /\ Blank(row[report[r].convo])
    BY <1>2, <1>7 DEF IInv, TypeOK, RowsInv, ReadConversation
  <2>2. TypeOK'
    BY <1>7, <2>1 DEF IInv, TypeOK, ReadConversation
  <2>3. HandlerInv'
    BY <1>3, <1>4, <1>7, <2>1 DEF IInv, TypeOK, HandlerInv, Blank, ReadConversation
  <2> QED  BY <1>3, <1>7, <2>2, <2>3, Moves DEF IInv, AnsweredIsRecorded, ReadConversation
<1>8. CASE Answer(r)
  <2>1. TypeOK'
    BY <1>2, <1>8 DEF IInv, TypeOK, Answer
  <2>2. report[r].order \in Recorded \cup dropped
    BY <1>8 DEF IInv, HandlerInv, Answer
  <2>3. HandlerInv'
    BY <1>3, <1>4, <1>8 DEF IInv, TypeOK, HandlerInv, Blank, Answer
  <2> QED  BY <1>3, <1>8, <2>1, <2>2, <2>3, Moves DEF IInv, AnsweredIsRecorded, Answer
<1> QED  BY <1>5, <1>6, <1>7, <1>8

\* The save writes the order, and the total too unless it is the total that was read.
LEMMA SaveStep ==
    ASSUME IInv, NEW r \in Report, Save(r)
    PROVE  IInv'
<1> DEFINE c == report[r].convo
           o == report[r].order
           was == row[c].order
<1>1. PICK kind \in Kind : row' = [row EXCEPT ![c] = Written(r, kind)]
  BY DEF Save
<1> DEFINE new == [order |-> o, total |-> Total[o], kind |-> kind]
<1>2. /\ c \in Conversation /\ o \in Order
      /\ report[r].read \in Columns /\ Blank(report[r].read) /\ report[r].read.order # o
      /\ row[c] \in Columns /\ Blank(row[c])
  BY DEF IInv, TypeOK, HandlerInv, RowsInv, Save
<1>4. new \in Columns /\ o # None /\ Total[o] \in Nat /\ Total[o] # None
  BY <1>2, TotalAssumption, NoneAssumption DEF Columns
<1>5. /\ Written(r, kind) \in Columns
      /\ Written(r, kind).order = o
      /\ Written(r, kind).total =
             IF Total[o] # report[r].read.total THEN Total[o] ELSE row[c].total
  BY <1>2, <1>4 DEF Written, Columns
<1>6. Written(r, kind) # None /\ ~(Written(r, kind).order = None)
  BY <1>4, <1>5, NoneAssumption
<1>7. /\ row'[c] = Written(r, kind)
      /\ \A d \in Conversation : d # c => row'[d] = row[d]
  BY <1>1, <1>2 DEF IInv, TypeOK
<1>8. Marked' = Marked \cup {c}
  BY <1>2, <1>5, <1>6, <1>7 DEF Marked
<1>9. Recorded \subseteq Recorded' \cup ({was} \ {None}) /\ o \in Recorded'
  <2>1. \A d \in Marked \ {c} : row[d].order \in Recorded'
    BY <1>7, <1>8 DEF Recorded, Marked
  <2>2. o \in Recorded'
    BY <1>5, <1>7, <1>8 DEF Recorded
  <2>3. c \in Marked => was # None
    BY DEF Marked
  <2> QED  BY <2>1, <2>2, <2>3 DEF Recorded
<1>10. /\ report' = [report EXCEPT ![r].pc = "answering"]
       /\ dropped' = (dropped \cup ({was} \ {None})) \ {o}
       /\ UNCHANGED <<cookie, told>>
  BY DEF Save, Saved, Goto
<1>11. torn' = IF report[r].read # row[c] /\ report[r].read.order # None
               THEN torn \cup {c} ELSE torn \ {c}
  BY DEF Save, Saved
<1>12. Recorded \cup dropped \subseteq Recorded' \cup dropped'
  BY <1>9, <1>10
<1>13. TypeOK'
  <2>1. row' \in [Conversation -> Columns \cup {None}]
    BY <1>1, <1>2, <1>5 DEF IInv, TypeOK
  <2>2. was \in Order \cup {None}
    BY <1>2 DEF Columns
  <2>3. dropped' \subseteq Order
    BY <1>10, <2>2 DEF IInv, TypeOK
  <2>4. torn' \subseteq Conversation
    BY <1>2, <1>11 DEF IInv, TypeOK
  <2> QED  BY <1>10, <2>1, <2>3, <2>4 DEF IInv, TypeOK
<1>14. OrdersOnce'
  BY <1>5, <1>7, <1>8 DEF IInv, OrdersOnce, Marked, Save, OrderIsFree
<1>15. RowsWhole'
  <2>1. ASSUME c \notin torn' PROVE row'[c].total = Total[o]
    <3>1. report[r].read = row[c] \/ report[r].read = Fresh
      BY <1>2, <1>11, <2>1 DEF Blank
    <3>2. CASE report[r].read = row[c]
      BY <1>5, <1>7, <3>2
    <3>3. CASE report[r].read = Fresh
      BY <1>4, <1>5, <1>7, <3>3 DEF Fresh
    <3> QED  BY <3>1, <3>2, <3>3
  <2>2. \A d \in Marked \ {c} : d \notin torn' => row'[d].total = Total[row'[d].order]
    BY <1>7, <1>11 DEF IInv, RowsWhole, Marked
  <2> QED  BY <1>5, <1>7, <1>8, <2>1, <2>2 DEF RowsWhole
<1>16. HandlerInv'
  <2>1. \A q \in Report : q # r => report'[q] = report[q]
    BY <1>10 DEF IInv, TypeOK
  <2>2. report'[r].pc = "answering" /\ report'[r].convo = c /\ report'[r].order = o
    BY <1>10 DEF IInv, TypeOK
  <2> QED  BY <1>2, <1>9, <1>12, <2>1, <2>2 DEF IInv, HandlerInv, Blank
<1>17. RowsInv'
  BY <1>6, <1>7 DEF IInv, RowsInv, Blank
<1>18. AnsweredIsRecorded'
  BY <1>10, <1>12 DEF IInv, AnsweredIsRecorded
<1>19. FewMarked'
  BY <1>8, FS_AddElement DEF IInv, FewMarked
<1> QED  BY <1>13, <1>14, <1>15, <1>16, <1>17, <1>18, <1>19 DEF IInv

\* The purge.
LEMMA PurgeStep ==
    ASSUME IInv, NEW c \in Conversation, Purge(c)
    PROVE  IInv'
<1>1. /\ row[c] \in Columns /\ row'[c] = None
      /\ \A d \in Conversation : d # c => row'[d] = row[d]
  BY DEF IInv, TypeOK, Purge
<1>2. Marked' = Marked \ {c}
  BY <1>1 DEF Marked
<1>3. Recorded \cup dropped \subseteq Recorded' \cup dropped'
  <2>1. \A d \in Marked \ {c} : row[d].order \in Recorded'
    BY <1>1, <1>2 DEF Recorded, Marked
  <2>2. dropped' = dropped \cup ({row[c].order} \ {None})
    BY DEF Purge
  <2> QED  BY <2>1, <2>2 DEF Recorded, Marked
<1>4. TypeOK'
  <2>1. row[c].order \in Order \cup {None}
    BY <1>1 DEF Columns
  <2> QED  BY <2>1 DEF IInv, TypeOK, Purge
<1>5. OrdersOnce' /\ RowsWhole' /\ RowsInv'
  BY <1>1, <1>2 DEF IInv, OrdersOnce, RowsWhole, RowsInv, Blank, Marked, Purge
<1>6. HandlerInv'
  BY <1>3 DEF IInv, HandlerInv, Purge, Blank
<1>7. AnsweredIsRecorded'
  BY <1>3 DEF IInv, AnsweredIsRecorded, Purge
<1>8. FewMarked'
  BY <1>2, FS_RemoveElement DEF IInv, FewMarked
<1> QED  BY <1>4, <1>5, <1>6, <1>7, <1>8 DEF IInv

LEMMA NextIInv == IInv /\ [Next]_vars => IInv'
<1> SUFFICES ASSUME IInv, [Next]_vars PROVE IInv'
  OBVIOUS
<1>1. CASE UNCHANGED vars
  BY <1>1 DEF IInv, TypeOK, OrdersOnce, RowsWhole, FewMarked, HandlerInv, RowsInv, Blank,
     Marked, Recorded, AnsweredIsRecorded, vars, observers
<1>2. CASE Next
  BY <1>2, ShopStep, ReportStep, SaveStep, PurgeStep DEF Next, Handle
<1> QED  BY <1>1, <1>2

LEMMA Invariance == Spec => []IInv
BY InitIInv, NextIInv, PTL DEF Spec

\* The variables keep their types, whatever reports overlap.
THEOREM TypeCorrect == Spec => []TypeOK
<1>1. IInv => TypeOK
  BY DEF IInv
<1> QED  BY <1>1, Invariance, PTL

\* What the shop was told is recorded stays recorded, until another order is
\* reported for the conversation or the conversation is purged.
THEOREM Answered == Spec => []AnsweredIsRecorded
<1>1. IInv => AnsweredIsRecorded
  BY DEF IInv
<1> QED  BY <1>1, Invariance, PTL

(***************************************************************************)
(* The revenue                                                             *)
(***************************************************************************)
LEMMA RevenueIsSum ==
    LET g == CHOOSE g : IsSums(g, [c \in Marked |-> row[c].total], Marked)
    IN  Revenue = g[Marked]
BY DEF Revenue, MapThenSumSet, MapThenFoldSet, Picked, IsSums

LEMMA TotalIsSum ==
    LET g == CHOOSE g : IsSums(g, [o \in Recorded |-> Total[o]], Recorded)
    IN  MapThenSumSet(LAMBDA o : Total[o], Recorded) = g[Recorded]
BY DEF MapThenSumSet, MapThenFoldSet, Picked, IsSums

LEMMA HonestRows == IInv => RevenueIsHonest
<1> SUFFICES ASSUME IInv, torn = {}
             PROVE  Revenue = MapThenSumSet(LAMBDA o : Total[o], Recorded)
  BY DEF RevenueIsHonest
<1> DEFINE f == [c \in Marked |-> row[c].total]
           h == [o \in Recorded |-> Total[o]]
           b == [c \in Marked |-> row[c].order]
<1>1. IsFiniteSet(Marked)
  BY DEF IInv, FewMarked
<1>2. \A c \in Marked : b[c] \in Recorded /\ b[c] \in Order
  BY DEF Marked, Recorded, IInv, TypeOK, Columns
<1>3. \A c \in Marked : f[c] = h[b[c]] /\ f[c] \in Nat
  BY <1>2, TotalAssumption DEF IInv, RowsWhole
<1>4. /\ b \in [Marked -> Recorded]
      /\ \A o \in Recorded : \E c \in Marked : o = b[c]
      /\ \A c, d \in Marked : b[c] = b[d] => c = d
  BY <1>2 DEF Recorded, IInv, OrdersOnce
<1>5. \A o \in Recorded : h[o] \in Nat
  BY <1>2, <1>4, TotalAssumption
<1>6. Revenue = (CHOOSE g : IsSums(g, f, Marked))[Marked]
  BY RevenueIsSum
<1>7. MapThenSumSet(LAMBDA o : Total[o], Recorded)
          = (CHOOSE g : IsSums(g, h, Recorded))[Recorded]
  BY TotalIsSum
<1> HIDE DEF f, h, b
<1>8. /\ IsFiniteSet(Recorded)
      /\ Cardinality(Units(f, Marked)) = Cardinality(Units(h, Recorded))
  BY <1>1, <1>3, <1>4, SameUnits
<1>9. (CHOOSE g : IsSums(g, f, Marked))[Marked] = Cardinality(Units(f, Marked))
  BY <1>1, <1>3, SumsCount
<1>10. (CHOOSE g : IsSums(g, h, Recorded))[Recorded] = Cardinality(Units(h, Recorded))
  BY <1>5, <1>8, SumsCount
<1> QED  BY <1>6, <1>7, <1>8, <1>9, <1>10, Zenon

\* The overview's revenue is the total of the recorded orders, each counted once,
\* unless reports replaced a conversion at the same time.
THEOREM HonestRevenue == Spec => []RevenueIsHonest
BY HonestRows, Invariance, PTL

\* What RevenueIsHonest sums up, conversation by conversation: no two of them count
\* the same order, and each counts that order's total, unless its last save replaced
\* a conversion blindly.
THEOREM RowsAreHonest == Spec => [](OrdersOnce /\ RowsWhole)
<1>1. IInv => OrdersOnce /\ RowsWhole
  BY DEF IInv
<1> QED  BY <1>1, Invariance, PTL
=============================================================================
