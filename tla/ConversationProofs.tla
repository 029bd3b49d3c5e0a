-------------------------- MODULE ConversationProofs --------------------------
(***************************************************************************)
(* Proofs about Conversation: for any number of requests, any limit, any   *)
(* pool size and any chunk bound.                                          *)
(*                                                                         *)
(* The inductive invariant adds to the checked invariants what a handler   *)
(* has written at each of its steps, the order of transaction timestamps,  *)
(* the lock an append holds on its conversation, and the conversations     *)
(* that have passed the quota check and are not committed yet.             *)
(***************************************************************************)
EXTENDS Conversation, FiniteSetTheorems, TLAPS

Refusals == {"quota", "not_found", "error"}
Appending == {"inserted", "prompting", "streaming", "replied"}

\* The tables the open transaction of r has written at each step.
Question(r) == IF Creates(r) THEN {"conversation", "user"} ELSE {"user"}
Written(r) ==
    IF pc[r] = "inserted" THEN {"user"}
    ELSE IF pc[r] \in {"prompting", "streaming"} THEN Question(r)
    ELSE IF pc[r] = "replied" THEN Question(r) \cup {"assistant", "usage"}
    ELSE {}

Handler(r) ==
    /\ pend[r] = Written(r)
    /\ pc[r] \in {"found", "inserted"} => ~Creates(r)
    /\ pc[r] = "idle" => Creates(r)
    /\ Creates(r) => ConvOf(r) = r
    /\ pc[r] # "done" => told[r] = "none"
    /\ r \in started => pc[r] # "idle"
HandlerInv == \A r \in Request : Handler(r)

Rows(r) ==
    /\ r \in purged => pc[r] \in {"committed", "done"} /\ r \notin db["user"]
    /\ \A t \in Table : r \in db[t] => pc[r] \in {"committed", "done"}
    /\ pc[r] = "committed" => r \in db["user"] \cup purged
    /\ r \in db["conversation"] => Creates(r)
RowsInv == \A r \in Request : Rows(r)

Timing(r) ==
    /\ txAt[r] <= clock
    /\ pc[r] # "idle" => pc[ConvOf(r)] # "idle" /\ txAt[ConvOf(r)] <= txAt[r]
    /\ pc[r] \in {"prompting", "streaming", "replied", "committed"} =>
          pc[lastUser[r]] # "idle"
TimeInv == \A r \in Request : Timing(r)

\* The share lock of the foreign key check, seen from the append that holds it.
Locked(r) ==
    pc[r] \in Appending /\ ~Creates(r) => ConvOf(r) \in db["conversation"]
LockInv == \A r \in Request : Locked(r)

\* Conversations that passed the quota check and are not committed yet, and the
\* conversations of a period, stored or to be, whose check counted all of it.
Opening == {r \in Request : "conversation" \in pend[r]}
Held(p) == {c \in PeriodUsage(p) \cup Opening : p \in counted[c]}
QuotaInv == ~Enterprise => \A p \in Period : Cardinality(Held(p)) < Limit + Connections

IInv ==
    /\ TypeOK /\ HandlerInv /\ RowsInv /\ TimeInv /\ LockInv /\ QuotaInv
    /\ ExchangesAtomic /\ VerdictIsTrue /\ NeverAnswersOlder

(***************************************************************************)
(* The steps by what they do to the requests                               *)
(***************************************************************************)
\* A request ends: with a verdict of its own handler, or without one.
Ends(r) ==
    \/ PoolTimeout(r) \/ RefuseQuota(r) \/ ConversationNotFound(r)
    \/ ForeignKeyFails(r) \/ StreamFails(r) \/ Answer(r) \/ Abort(r)

\* Every step is one of these twelve.
LEMMA StepCases ==
    ASSUME [Next]_vars
    PROVE  \/ \E r \in Request, in \in Input : Begin(r, in)
           \/ \E r \in Request :
                 \/ Ends(r) \/ OpenConversation(r) \/ FindConversation(r)
                 \/ InsertUserMessage(r) \/ ReadHistory(r) \/ CompleteReply(r)
                 \/ EmitStart(r) \/ StreamFinishes(r) \/ Commit(r)
           \/ RetentionPasses \/ PurgeExpired
           \/ UNCHANGED vars
BY DEF Next, Serve, Ends

(***************************************************************************)
(* Type correctness and the pool bound                                     *)
(***************************************************************************)
\* Sets of requests that do not grow keep within a bound.
LEMMA SmallerSet ==
    ASSUME NEW S \in SUBSET Request, NEW T \in SUBSET S
    PROVE  /\ Cardinality(S) \in Nat /\ Cardinality(T) \in Nat
           /\ Cardinality(T) <= Cardinality(S)
BY RequestAssumption, FS_Subset, FS_CardinalityType

\* One more request is at most one more.
LEMMA AddOne ==
    ASSUME NEW S, IsFiniteSet(S), NEW x
    PROVE  /\ Cardinality(S \cup {x}) \in Nat
           /\ Cardinality(S \cup {x}) <= Cardinality(S) + 1
<1>1. Cardinality(S) \in Nat
  BY FS_CardinalityType
<1>2. IsFiniteSet(S \cup {x})
  BY FS_AddElement
<1>3. Cardinality(S \cup {x}) = IF x \in S THEN Cardinality(S) ELSE Cardinality(S) + 1
  BY FS_AddElement
<1> QED  BY <1>1, <1>3

\* Two finite sets together.
LEMMA UnionBound ==
    ASSUME NEW S, NEW T, IsFiniteSet(S), IsFiniteSet(T)
    PROVE  Cardinality(S \cup T) <= Cardinality(S) + Cardinality(T)
<1>1. Cardinality(S \cup T) = Cardinality(S) + Cardinality(T) - Cardinality(S \cap T)
  BY FS_Union
<1>2. IsFiniteSet(S \cap T)
  BY FS_Intersection
<1>3. /\ Cardinality(S) \in Nat /\ Cardinality(T) \in Nat
      /\ Cardinality(S \cap T) \in Nat
  BY <1>2, FS_CardinalityType
<1> QED  BY <1>1, <1>3

\* The types and the bound on connections in use are inductive by themselves.
LEMMA TypeStep == TypeOK /\ [Next]_vars => TypeOK'
<1> SUFFICES ASSUME TypeOK, [Next]_vars PROVE TypeOK'
  OBVIOUS
<1> USE DEF TypeOK
<1>0. ASSUME InFlight' \subseteq InFlight PROVE (Cardinality(InFlight) <= Connections)'
  BY <1>0, SmallerSet, ConnectionsAssumption DEF InFlight
<1>1. ASSUME NEW r \in Request, NEW in \in Input, Begin(r, in) PROVE TypeOK'
  <2>1. InFlight' = InFlight \cup {r}
    BY <1>1 DEF Begin, Goto, InFlight, Steps
  <2>2. IsFiniteSet(InFlight) /\ Cardinality(InFlight) \in Nat
    BY RequestAssumption, FS_Subset, FS_CardinalityType DEF InFlight
  <2>3. (Cardinality(InFlight) <= Connections)'
    <3>1. Cardinality(InFlight \cup {r}) <= Cardinality(InFlight) + 1
      BY <2>2, AddOne
    <3>2. Cardinality(InFlight \cup {r}) \in Nat
      BY <2>2, AddOne
    <3>3. Cardinality(InFlight) < Connections
      BY <1>1 DEF Begin
    <3> HIDE DEF InFlight
    <3> QED  BY <2>1, <2>2, <3>1, <3>2, <3>3, ConnectionsAssumption
  <2> QED  BY <1>1, <2>3 DEF Begin, Goto, Steps
<1>2. ASSUME NEW r \in Request, Ends(r) PROVE TypeOK'
  <2>1. \E v \in Verdicts : Conclude(r, v)
    BY <1>2 DEF Ends, PoolTimeout, RefuseQuota, ConversationNotFound, ForeignKeyFails,
                StreamFails, Answer, Abort, Verdicts
  <2>2. InFlight' \subseteq InFlight
    BY <2>1 DEF Conclude, Goto, InFlight
  <2> QED  BY <1>0, <2>1, <2>2 DEF Conclude, Goto, Steps
<1>3. ASSUME NEW r \in Request,
             \/ OpenConversation(r) \/ FindConversation(r) \/ InsertUserMessage(r)
             \/ ReadHistory(r) \/ CompleteReply(r)
      PROVE  TypeOK'
  <2>1. InFlight' \subseteq InFlight
    BY <1>3 DEF OpenConversation, FindConversation, InsertUserMessage, ReadHistory,
                CompleteReply, Goto, InFlight
  <2>2. CASE OpenConversation(r)
    BY <1>0, <2>1, <2>2 DEF OpenConversation, PeriodsWithin, Goto, Steps, Table
  <2>3. CASE \/ FindConversation(r) \/ InsertUserMessage(r)
             \/ ReadHistory(r) \/ CompleteReply(r)
    BY <1>0, <2>1, <2>3
      DEF FindConversation, InsertUserMessage, ReadHistory, CompleteReply, Goto,
          Steps, Table, VisibleUser
  <2> QED  BY <1>3, <2>2, <2>3
<1>4. ASSUME NEW r \in Request,
             \/ EmitStart(r) \/ StreamFinishes(r) \/ Commit(r)
      PROVE  TypeOK'
  <2>1. InFlight' \subseteq InFlight
    BY <1>4 DEF EmitStart, StreamFinishes, Commit, Goto, InFlight
  <2> QED  BY <1>0, <1>4, <2>1
    DEF EmitStart, StreamFinishes, Commit, Goto, Steps, Table
<1>5. CASE RetentionPasses \/ PurgeExpired
  <2>1. InFlight' \subseteq InFlight
    BY <1>5 DEF RetentionPasses, PurgeExpired, InFlight
  <2> QED  BY <1>0, <1>5, <2>1 DEF RetentionPasses, PurgeExpired, Table
<1>6. CASE UNCHANGED vars
  BY <1>6 DEF vars, InFlight
<1> QED
  BY <1>1, <1>2, <1>3, <1>4, <1>5, <1>6, StepCases

(***************************************************************************)
(* The handlers                                                            *)
(***************************************************************************)

\* However a request ends, it was not done before and its writes are dropped;
\* only a request that was never served ends without a connection.
LEMMA EndsConclude ==
    ASSUME NEW r \in Request, Ends(r)
    PROVE  /\ \E v \in Verdicts : Conclude(r, v)
           /\ pc[r] # "done"
BY DEF Ends, PoolTimeout, RefuseQuota, ConversationNotFound, ForeignKeyFails,
       StreamFails, Answer, Abort, Verdicts, InFlight

(***************************************************************************)
(* The parts of the invariant that speak of one request at a time          *)
(***************************************************************************)
\* What a handler has written follows its steps.
LEMMA HandlerStep == TypeOK /\ HandlerInv /\ [Next]_vars => HandlerInv'
<1> SUFFICES ASSUME TypeOK /\ HandlerInv, [Next]_vars, NEW q \in Request PROVE Handler(q)'
  BY DEF HandlerInv
<1> USE DEF TypeOK, HandlerInv, Handler, Written, Question, Creates, ConvOf
<1>1. ASSUME NEW r \in Request, NEW in \in Input, Begin(r, in) PROVE Handler(q)'
  <2>1. CASE q = r
    BY <1>1, <2>1 DEF Begin, Goto, Steps, KnownIds, Input
  <2>2. CASE q # r
    BY <1>1, <2>2 DEF Begin, Goto, Steps, KnownIds, Input
  <2> QED  BY <2>1, <2>2
<1>2. ASSUME NEW r \in Request, Ends(r) PROVE Handler(q)'
  <2>1. PICK v \in Verdicts : Conclude(r, v) /\ pc[r] # "done"
    BY <1>2, EndsConclude
  <2>2. CASE q = r
    BY <2>1, <2>2 DEF Conclude, Goto, Steps
  <2>3. CASE q # r
    BY <2>1, <2>3 DEF Conclude, Goto, Steps
  <2> QED  BY <2>2, <2>3
<1>3. ASSUME NEW r \in Request,
             \/ OpenConversation(r) \/ FindConversation(r) \/ InsertUserMessage(r)
             \/ ReadHistory(r) \/ CompleteReply(r)
      PROVE  Handler(q)'
  <2>1. CASE OpenConversation(r)
    BY <2>1 DEF OpenConversation, Goto, Steps
  <2>2. CASE FindConversation(r)
    BY <2>2 DEF FindConversation, Goto, Steps
  <2>3. CASE InsertUserMessage(r)
    BY <2>3 DEF InsertUserMessage, Goto, Steps
  <2>4. CASE ReadHistory(r)
    BY <2>4 DEF ReadHistory, Goto, Steps
  <2>5. CASE CompleteReply(r)
    BY <2>5 DEF CompleteReply, Goto, Steps
  <2> QED  BY <1>3, <2>1, <2>2, <2>3, <2>4, <2>5
<1>4. ASSUME NEW r \in Request, EmitStart(r) PROVE Handler(q)'
  BY <1>4 DEF EmitStart, Goto, Steps
<1>7. ASSUME NEW r \in Request, StreamFinishes(r) PROVE Handler(q)'
  BY <1>7 DEF StreamFinishes, Goto, Steps
<1>8. ASSUME NEW r \in Request, Commit(r) PROVE Handler(q)'
  BY <1>8 DEF Commit, Goto, Steps
<1>5. CASE RetentionPasses \/ PurgeExpired
  <2>1. UNCHANGED pc /\ UNCHANGED input /\ UNCHANGED pend /\ UNCHANGED told
        /\ UNCHANGED started
    BY <1>5 DEF RetentionPasses, PurgeExpired
  <2> QED  BY <2>1
<1>6. CASE UNCHANGED vars
  BY <1>6 DEF vars
<1> QED
  BY <1>1, <1>2, <1>3, <1>4, <1>5, <1>6, <1>7, <1>8, StepCases

\* A row is committed by the commit of the request that wrote it.
LEMMA RowsStep == TypeOK /\ HandlerInv /\ RowsInv /\ [Next]_vars => RowsInv'
<1> SUFFICES ASSUME TypeOK /\ HandlerInv /\ RowsInv, [Next]_vars, NEW q \in Request PROVE Rows(q)'
  BY DEF RowsInv
<1> USE DEF TypeOK, HandlerInv, Handler, RowsInv, Rows, Written, Question, Creates, ConvOf
<1>1. ASSUME NEW r \in Request, NEW in \in Input, Begin(r, in) PROVE Rows(q)'
  <2>1. CASE q = r
    BY <1>1, <2>1 DEF Begin, Goto, Steps, KnownIds, Input, Table
  <2>2. CASE q # r
    BY <1>1, <2>2 DEF Begin, Goto, Steps, KnownIds, Input
  <2> QED  BY <2>1, <2>2
<1>2. ASSUME NEW r \in Request, Ends(r) PROVE Rows(q)'
  <2>1. PICK v \in Verdicts : Conclude(r, v) /\ pc[r] # "done"
    BY <1>2, EndsConclude
  <2>2. CASE q = r
    BY <2>1, <2>2 DEF Conclude, Goto, Steps
  <2>3. CASE q # r
    BY <2>1, <2>3 DEF Conclude, Goto, Steps
  <2> QED  BY <2>2, <2>3
<1>3. ASSUME NEW r \in Request,
             \/ OpenConversation(r) \/ FindConversation(r) \/ InsertUserMessage(r)
             \/ ReadHistory(r) \/ CompleteReply(r)
      PROVE  Rows(q)'
  <2>1. CASE q = r
    BY <1>3, <2>1 DEF OpenConversation, FindConversation, InsertUserMessage, ReadHistory,
              CompleteReply, Goto, Steps
  <2>2. CASE q # r
    BY <1>3, <2>2 DEF OpenConversation, FindConversation, InsertUserMessage, ReadHistory,
              CompleteReply, Goto, Steps
  <2> QED  BY <2>1, <2>2
<1>4. ASSUME NEW r \in Request,
             \/ EmitStart(r) \/ StreamFinishes(r) \/ Commit(r)
      PROVE  Rows(q)'
  <2>1. CASE q = r
    BY <1>4, <2>1 DEF EmitStart, StreamFinishes, Commit, Goto, Steps, Table
  <2>2. CASE q # r
    BY <1>4, <2>2 DEF EmitStart, StreamFinishes, Commit, Goto, Steps, Table
  <2> QED  BY <2>1, <2>2
<1>5. CASE RetentionPasses \/ PurgeExpired
  BY <1>5 DEF RetentionPasses, PurgeExpired, Table
<1>6. CASE UNCHANGED vars
  BY <1>6 DEF vars
<1> QED
  BY <1>1, <1>2, <1>3, <1>4, <1>5, <1>6, StepCases

\* A conversation is older than the requests that append to it.
LEMMA TimeStep == TypeOK /\ HandlerInv /\ RowsInv /\ TimeInv /\ [Next]_vars => TimeInv'
<1> SUFFICES ASSUME TypeOK /\ HandlerInv /\ RowsInv /\ TimeInv, [Next]_vars,
                    NEW q \in Request
             PROVE  Timing(q)'
  BY DEF TimeInv
<1> USE DEF TypeOK, HandlerInv, Handler, RowsInv, Rows, TimeInv, Timing, Creates, ConvOf
<1>1. ASSUME NEW r \in Request, NEW in \in Input, Begin(r, in) PROVE Timing(q)'
  <2>1. CASE q = r
    BY <1>1, <2>1 DEF Begin, Goto, Steps, KnownIds, Input
  <2>2. CASE q # r
    BY <1>1, <2>2 DEF Begin, Goto, Steps, KnownIds, Input
  <2> QED  BY <2>1, <2>2
<1>2. ASSUME NEW r \in Request, Ends(r) PROVE Timing(q)'
  <2>1. PICK v \in Verdicts : Conclude(r, v) /\ pc[r] # "done"
    BY <1>2, EndsConclude
  <2>2. \A p \in Request : pc[p] # "idle" => pc'[p] # "idle"
    BY <2>1 DEF Conclude, Goto
  <2>3. UNCHANGED input /\ UNCHANGED txAt /\ UNCHANGED clock /\ UNCHANGED lastUser
    BY <2>1 DEF Conclude
  <2>4. CASE q = r
    <3>1. pc[r] = "idle" => ConvOf(r) = r
      OBVIOUS
    <3> QED  BY <2>1, <2>2, <2>3, <2>4, <3>1 DEF Conclude, Goto
  <2>5. CASE q # r
    BY <2>1, <2>2, <2>3, <2>5 DEF Conclude, Goto
  <2> QED  BY <2>4, <2>5
<1>3. ASSUME NEW r \in Request,
             \/ OpenConversation(r) \/ FindConversation(r) \/ InsertUserMessage(r)
             \/ ReadHistory(r) \/ CompleteReply(r)
             \/ EmitStart(r) \/ StreamFinishes(r) \/ Commit(r)
      PROVE  Timing(q)'
  <2> USE DEF OpenConversation, FindConversation, InsertUserMessage, ReadHistory,
              CompleteReply, EmitStart, StreamFinishes, Commit, Goto
  <2>1. \A p \in Request : pc[p] # "idle" => pc'[p] # "idle"
    BY <1>3
  <2>2. UNCHANGED input /\ UNCHANGED txAt /\ UNCHANGED clock /\ pc[r] # "idle"
    BY <1>3
  <2>3. q # r => pc'[q] = pc[q] /\ lastUser'[q] = lastUser[q]
    BY <1>3
  <2>4. pc'[r] \in {"prompting", "streaming", "replied", "committed"} =>
          pc'[lastUser'[r]] # "idle"
    <3>1. CASE OpenConversation(r)
      BY <3>1
    <3>2. CASE ReadHistory(r)
      <4>1. PICK p \in VisibleUser(r) : lastUser' = [lastUser EXCEPT ![r] = p]
        BY <3>2
      <4>2. p \in Request /\ pc[p] # "idle"
        BY <2>2, <4>1 DEF VisibleUser, Table
      <4> QED  BY <2>1, <4>1, <4>2
    <3>3. CASE \/ FindConversation(r) \/ InsertUserMessage(r)
      BY <3>3
    <3>4. CASE \/ CompleteReply(r) \/ EmitStart(r)
               \/ StreamFinishes(r) \/ Commit(r)
      <4>1. lastUser' = lastUser /\ pc[lastUser[r]] # "idle" /\ lastUser[r] \in Request
        BY <3>4
      <4> QED  BY <2>1, <4>1
    <3> QED  BY <1>3, <3>1, <3>2, <3>3, <3>4
  <2> HIDE DEF OpenConversation, FindConversation, InsertUserMessage, ReadHistory,
              CompleteReply, EmitStart, StreamFinishes, Commit, Goto
  <2>5. ConvOf(q)' = ConvOf(q) /\ ConvOf(q) \in Request /\ lastUser[q] \in Request
    BY <2>2 DEF Input
  <2>6. pc'[q] # "idle" => pc'[ConvOf(q)] # "idle" /\ txAt'[ConvOf(q)] <= txAt'[q]
    BY <2>1, <2>2, <2>3, <2>5
  <2>7. pc'[q] \in {"prompting", "streaming", "replied", "committed"} =>
          pc'[lastUser'[q]] # "idle"
    BY <2>1, <2>3, <2>4, <2>5
  <2> HIDE DEF ConvOf
  <2> QED  BY <2>2, <2>5, <2>6, <2>7
<1>4. CASE RetentionPasses \/ PurgeExpired
  BY <1>4 DEF RetentionPasses, PurgeExpired
<1>5. CASE UNCHANGED vars
  BY <1>5 DEF vars
<1> QED
  BY <1>1, <1>2, <1>3, <1>4, <1>5, StepCases

\* The purge does not take a conversation an append holds.
LEMMA LockStep == TypeOK /\ HandlerInv /\ RowsInv /\ LockInv /\ [Next]_vars => LockInv'
<1> SUFFICES ASSUME TypeOK /\ HandlerInv /\ RowsInv /\ LockInv, [Next]_vars, NEW q \in Request PROVE Locked(q)'
  BY DEF LockInv
<1> USE DEF TypeOK, HandlerInv, Handler, RowsInv, Rows, LockInv, Locked, Appending, Written, Question, Creates, ConvOf
<1>1. ASSUME NEW r \in Request, NEW in \in Input, Begin(r, in) PROVE Locked(q)'
  <2>1. CASE q = r
    BY <1>1, <2>1 DEF Begin, Goto, Steps, KnownIds, Input
  <2>2. CASE q # r
    BY <1>1, <2>2 DEF Begin, Goto, Steps, KnownIds, Input
  <2> QED  BY <2>1, <2>2
<1>2. ASSUME NEW r \in Request, Ends(r) PROVE Locked(q)'
  <2>1. PICK v \in Verdicts : Conclude(r, v) /\ pc[r] # "done"
    BY <1>2, EndsConclude
  <2>2. CASE q = r
    BY <2>1, <2>2 DEF Conclude, Goto, Steps
  <2>3. CASE q # r
    BY <2>1, <2>3 DEF Conclude, Goto, Steps
  <2> QED  BY <2>2, <2>3
<1>3. ASSUME NEW r \in Request,
             \/ OpenConversation(r) \/ FindConversation(r) \/ InsertUserMessage(r)
             \/ ReadHistory(r) \/ CompleteReply(r)
      PROVE  Locked(q)'
  <2>1. CASE q = r
    BY <1>3, <2>1 DEF OpenConversation, FindConversation, InsertUserMessage, ReadHistory,
              CompleteReply, Goto, Steps
  <2>2. CASE q # r
    BY <1>3, <2>2 DEF OpenConversation, FindConversation, InsertUserMessage, ReadHistory,
              CompleteReply, Goto, Steps
  <2> QED  BY <2>1, <2>2
<1>4. ASSUME NEW r \in Request,
             \/ EmitStart(r) \/ StreamFinishes(r) \/ Commit(r)
      PROVE  Locked(q)'
  <2>1. CASE q = r
    BY <1>4, <2>1 DEF EmitStart, StreamFinishes, Commit, Goto, Steps, Table
  <2>2. CASE q # r
    BY <1>4, <2>2 DEF EmitStart, StreamFinishes, Commit, Goto, Steps, Table
  <2> QED  BY <2>1, <2>2
<1>5. CASE RetentionPasses \/ PurgeExpired
  BY <1>5 DEF RetentionPasses, PurgeExpired, Table, ExpiredConversations
<1>6. CASE UNCHANGED vars
  BY <1>6 DEF vars
<1> QED
  BY <1>1, <1>2, <1>3, <1>4, <1>5, <1>6, StepCases

(***************************************************************************)
(* The database                                                            *)
(***************************************************************************)
\* Only a commit and the purge write the database.
LEMMA DatabaseWriters ==
    ASSUME [Next]_vars
    PROVE  \/ UNCHANGED db /\ UNCHANGED purged
           \/ \E r \in Request : Commit(r)
           \/ PurgeExpired
<1>1. ASSUME NEW r \in Request, NEW in \in Input, Begin(r, in)
      PROVE  UNCHANGED db /\ UNCHANGED purged
  BY <1>1 DEF Begin
<1>2. ASSUME NEW r \in Request, Ends(r) PROVE UNCHANGED db /\ UNCHANGED purged
  BY <1>2, EndsConclude DEF Conclude
<1>3. ASSUME NEW r \in Request,
             \/ OpenConversation(r) \/ FindConversation(r) \/ InsertUserMessage(r)
             \/ ReadHistory(r) \/ CompleteReply(r)
             \/ EmitStart(r) \/ StreamFinishes(r)
      PROVE  UNCHANGED db /\ UNCHANGED purged
  BY <1>3 DEF OpenConversation, FindConversation, InsertUserMessage, ReadHistory,
              CompleteReply, EmitStart, StreamFinishes
<1>4. CASE RetentionPasses \/ UNCHANGED vars
  BY <1>4 DEF RetentionPasses, vars
<1> QED
  BY <1>1, <1>2, <1>3, <1>4, StepCases

\* The conversation of a request is fixed when the request begins.
LEMMA AddressFixed ==
    ASSUME [Next]_vars, TypeOK, NEW r \in Request, pc[r] # "idle"
    PROVE  ConvOf(r)' = ConvOf(r) /\ txAt'[r] = txAt[r] /\ pc'[r] # "idle"
<1>1. ASSUME NEW q \in Request, NEW in \in Input, Begin(q, in)
      PROVE  ConvOf(r)' = ConvOf(r) /\ txAt'[r] = txAt[r] /\ pc'[r] # "idle"
  BY <1>1 DEF Begin, Goto, ConvOf, TypeOK
<1>2. ASSUME NEW q \in Request, Ends(q)
      PROVE  ConvOf(r)' = ConvOf(r) /\ txAt'[r] = txAt[r] /\ pc'[r] # "idle"
  BY <1>2, EndsConclude DEF Conclude, Goto, ConvOf, TypeOK
<1>3. ASSUME NEW q \in Request,
             \/ OpenConversation(q) \/ FindConversation(q) \/ InsertUserMessage(q)
             \/ ReadHistory(q) \/ CompleteReply(q)
             \/ EmitStart(q) \/ StreamFinishes(q) \/ Commit(q)
      PROVE  ConvOf(r)' = ConvOf(r) /\ txAt'[r] = txAt[r] /\ pc'[r] # "idle"
  BY <1>3 DEF OpenConversation, FindConversation, InsertUserMessage, ReadHistory,
              CompleteReply, EmitStart, StreamFinishes, Commit, Goto,
              ConvOf, TypeOK
<1>4. CASE RetentionPasses \/ PurgeExpired \/ UNCHANGED vars
  BY <1>4 DEF RetentionPasses, PurgeExpired, vars, ConvOf
<1> QED
  BY <1>1, <1>2, <1>3, <1>4, StepCases

\* A commit writes the whole exchange of its request, the purge takes whole
\* exchanges away.
LEMMA AtomicStep ==
    TypeOK /\ HandlerInv /\ RowsInv /\ LockInv /\ ExchangesAtomic /\ [Next]_vars
        => ExchangesAtomic'
<1> SUFFICES ASSUME TypeOK, HandlerInv, RowsInv, LockInv, ExchangesAtomic, [Next]_vars
             PROVE  ExchangesAtomic'
  OBVIOUS
<1>0. \A r \in Request : r \in db["user"] => ConvOf(r)' = ConvOf(r)
  BY AddressFixed DEF RowsInv, Rows, Table
<1>1. CASE UNCHANGED db /\ UNCHANGED purged
  BY <1>0, <1>1 DEF ExchangesAtomic, TypeOK, Table
<1>2. ASSUME NEW r \in Request, Commit(r) PROVE ExchangesAtomic'
  <2>1. pend[r] = IF Creates(r) THEN {"conversation", "user", "assistant", "usage"}
                                ELSE {"user", "assistant", "usage"}
    BY <1>2 DEF Commit, HandlerInv, Handler, Written, Question
  <2>2. /\ db'["user"] = db["user"] \cup {r}
        /\ db'["assistant"] = db["assistant"] \cup {r}
        /\ db'["usage"] = db["usage"] \cup {r}
        /\ db'["conversation"] = IF Creates(r) THEN db["conversation"] \cup {r}
                                               ELSE db["conversation"]
    BY <1>2, <2>1 DEF Commit, TypeOK, Table
  <2>3. ConvOf(r)' = ConvOf(r) /\ ConvOf(r) \in db'["conversation"]
    BY <1>2, <2>2, AddressFixed
       DEF Commit, HandlerInv, Handler, LockInv, Locked, Appending
  <2> QED
    BY <1>0, <2>2, <2>3 DEF ExchangesAtomic, TypeOK, Table
<1>3. CASE PurgeExpired
  <2>1. /\ db'["user"] = db["user"] \ PurgedMessages
        /\ db'["assistant"] = db["assistant"] \ PurgedMessages
        /\ db'["usage"] = db["usage"] \ Expired
        /\ db'["conversation"] = db["conversation"] \ Expired
    BY <1>3 DEF PurgeExpired
  <2>2. \A c \in db["conversation"] : ConvOf(c) = c
    BY DEF RowsInv, Rows, HandlerInv, Handler, TypeOK, Table
  <2> QED
    BY <1>0, <2>1, <2>2
       DEF ExchangesAtomic, PurgedMessages, ExpiredConversations, Expired, TypeOK, Table
<1> QED
  BY <1>1, <1>2, <1>3, DatabaseWriters

\* What the client is told agrees with what is, or was, in the database.
LEMMA VerdictStep ==
    TypeOK /\ HandlerInv /\ RowsInv /\ ExchangesAtomic /\ VerdictIsTrue /\ [Next]_vars
        => VerdictIsTrue'
<1> SUFFICES ASSUME TypeOK, HandlerInv, RowsInv, ExchangesAtomic, VerdictIsTrue,
                    [Next]_vars, NEW q \in Request
             PROVE  /\ told'[q] = "ok" => q \in db'["user"] \cup purged'
                    /\ told'[q] \in Refusals =>
                          q \notin purged' /\ \A t \in Table : q \notin db'[t]
  BY DEF VerdictIsTrue, Refusals
<1> USE DEF TypeOK
<1>1. ASSUME NEW r \in Request, Ends(r)
      PROVE  /\ told'[q] = "ok" => q \in db'["user"] \cup purged'
             /\ told'[q] \in Refusals =>
                   q \notin purged' /\ \A t \in Table : q \notin db'[t]
  <2>1. UNCHANGED db /\ UNCHANGED purged
    BY <1>1, EndsConclude DEF Conclude
  <2>2. CASE q # r
    BY <1>1, EndsConclude, <2>1, <2>2 DEF Conclude, VerdictIsTrue, Refusals
  <2>3. CASE q = r
    <3>1. CASE Answer(r)
      BY <3>1, <2>1, <2>3 DEF Answer, Conclude, RowsInv, Rows, Refusals
    <3>2. CASE \/ RefuseQuota(r) \/ ConversationNotFound(r) \/ StreamFails(r)
               \/ PoolTimeout(r) \/ ForeignKeyFails(r) \/ Abort(r)
      <4>1. told'[q] # "ok"
        BY <3>2, <2>3 DEF RefuseQuota, ConversationNotFound, StreamFails, PoolTimeout,
                          ForeignKeyFails, Abort, Conclude
      <4>2. told'[q] \in Refusals => pc[r] \notin {"committed", "done"}
        BY <3>2, <2>3 DEF RefuseQuota, ConversationNotFound, StreamFails, PoolTimeout,
                          ForeignKeyFails, Abort, Conclude, Refusals
      <4> QED  BY <2>1, <2>3, <4>1, <4>2 DEF RowsInv, Rows
    <3> QED  BY <1>1, <3>1, <3>2 DEF Ends
  <2> QED  BY <2>2, <2>3
<1>2. CASE /\ UNCHANGED told
           /\ UNCHANGED db /\ UNCHANGED purged
  BY <1>2 DEF VerdictIsTrue, Refusals
<1>3. ASSUME NEW r \in Request, Commit(r)
      PROVE  /\ told'[q] = "ok" => q \in db'["user"] \cup purged'
             /\ told'[q] \in Refusals =>
                   q \notin purged' /\ \A t \in Table : q \notin db'[t]
  <2>1. told'[q] = told[q] /\ told[r] = "none" /\ purged' = purged
    BY <1>3 DEF Commit, HandlerInv, Handler
  <2>2. \A t \in Table : db[t] \subseteq db'[t] /\ (q # r /\ q \in db'[t] => q \in db[t])
    BY <1>3 DEF Commit
  <2>3. db["user"] \subseteq db'["user"]
    BY <2>2 DEF Table
  <2> QED  BY <2>1, <2>2, <2>3 DEF VerdictIsTrue, Refusals
<1>4. CASE PurgeExpired
  <2>1. told' = told /\ \A t \in Table : db'[t] \subseteq db[t]
    BY <1>4 DEF PurgeExpired, Table
  <2>2. /\ purged \subseteq purged' /\ purged' \subseteq purged \cup db["user"]
        /\ db["user"] \subseteq db'["user"] \cup purged'
    BY <1>4 DEF PurgeExpired
  <2> QED  BY <2>1, <2>2 DEF VerdictIsTrue, Refusals, Table
<1>5. ASSUME NEW r \in Request, NEW in \in Input, Begin(r, in)
      PROVE  UNCHANGED told /\ UNCHANGED db /\ UNCHANGED purged
  BY <1>5 DEF Begin
<1>6. ASSUME NEW r \in Request,
             \/ OpenConversation(r) \/ FindConversation(r) \/ InsertUserMessage(r)
             \/ ReadHistory(r) \/ CompleteReply(r)
             \/ EmitStart(r) \/ StreamFinishes(r)
      PROVE  UNCHANGED told /\ UNCHANGED db /\ UNCHANGED purged
  BY <1>6 DEF OpenConversation, FindConversation, InsertUserMessage, ReadHistory,
              CompleteReply, EmitStart, StreamFinishes
<1>7. CASE RetentionPasses \/ UNCHANGED vars
  BY <1>7, <1>2 DEF RetentionPasses, vars
<1> QED
  BY <1>1, <1>2, <1>3, <1>4, <1>5, <1>6, <1>7, StepCases


(***************************************************************************)
(* The quota                                                               *)
(***************************************************************************)
\* A check that counts all of p leaves room in p, and whoever has passed one and is
\* not committed holds a connection.
LEMMA QuotaStep ==
    TypeOK /\ HandlerInv /\ RowsInv /\ QuotaInv /\ [Next]_vars => QuotaInv'
<1> SUFFICES ASSUME TypeOK, HandlerInv, RowsInv, QuotaInv, [Next]_vars, ~Enterprise,
                    NEW p \in Period
             PROVE  (Cardinality(Held(p)) < Limit + Connections)'
  BY DEF QuotaInv
<1>1. Held(p) \in SUBSET Request /\ Held(p)' \in SUBSET Request
  BY TypeStep DEF TypeOK, PeriodUsage, Held, Opening, Table
<1>2. ASSUME Held(p)' \subseteq Held(p) PROVE Cardinality(Held(p)') < Limit + Connections
  <2>1. Cardinality(Held(p)') <= Cardinality(Held(p)) /\ Cardinality(Held(p)) < Limit + Connections
    BY <1>1, <1>2, SmallerSet DEF QuotaInv
  <2>2. Cardinality(Held(p)') \in Nat /\ Cardinality(Held(p)) \in Nat
    BY <1>1, SmallerSet
  <2> QED  BY <2>1, <2>2, LimitAssumption, ConnectionsAssumption
<1>3. ASSUME NEW r \in Request, OpenConversation(r)
      PROVE  Cardinality(Held(p)') < Limit + Connections
  <2>1. PICK q \in Period : WithinQuota(q) /\ counted' = [counted EXCEPT ![r] = PeriodsWithin(q)]
    BY <1>3 DEF OpenConversation
  <2>2. PeriodUsage(p)' = PeriodUsage(p) /\ Opening' = Opening \cup {r}
    BY <1>3 DEF OpenConversation, PeriodUsage, Opening, TypeOK
  <2>3. CASE p \notin PeriodsWithin(q)
    <3>1. Held(p)' \subseteq Held(p)
      BY <2>1, <2>2, <2>3 DEF Held, TypeOK
    <3> QED  BY <1>2, <3>1
  <2>4. CASE p \in PeriodsWithin(q)
    <3>1. PeriodUsage(p) \subseteq PeriodUsage(q)
      BY <2>4, PeriodAssumption DEF PeriodUsage, PeriodsWithin, TypeOK, Table
    <3>2. PeriodUsage(q) \in SUBSET Request /\ PeriodUsage(p) \in SUBSET Request
      BY DEF PeriodUsage, TypeOK, Table
    <3>3. Cardinality(PeriodUsage(p)) <= Cardinality(PeriodUsage(q))
          /\ Cardinality(PeriodUsage(p)) \in Nat /\ Cardinality(PeriodUsage(q)) \in Nat
      BY <3>1, <3>2, SmallerSet
    <3>4. Cardinality(PeriodUsage(q)) < Limit
      BY <2>1 DEF WithinQuota
    <3>5. HandlerInv' /\ TypeOK'
      BY TypeStep, HandlerStep
    <3>6. Opening' \subseteq InFlight'
      BY <3>5 DEF Opening, InFlight, HandlerInv, Handler, Written
    <3>7. Cardinality(Opening') <= Cardinality(InFlight')
          /\ Cardinality(Opening') \in Nat /\ Cardinality(InFlight') \in Nat
      BY <3>6, SmallerSet DEF InFlight
    <3>8. Cardinality(InFlight') <= Connections
      BY <3>5 DEF TypeOK
    <3>9. Opening' \in SUBSET Request
      BY DEF Opening
    <3>10. IsFiniteSet(PeriodUsage(p)) /\ IsFiniteSet(Opening')
      BY <3>2, <3>9, RequestAssumption, FS_Subset
    <3>11. /\ Cardinality(PeriodUsage(p) \cup Opening')
                 <= Cardinality(PeriodUsage(p)) + Cardinality(Opening')
           /\ Cardinality(PeriodUsage(p) \cup Opening') \in Nat
      BY <3>10, UnionBound, FS_Union, FS_CardinalityType
    <3>12. Held(p)' \subseteq PeriodUsage(p) \cup Opening'
      BY <2>2 DEF Held
    <3>13. PeriodUsage(p) \cup Opening' \in SUBSET Request
      BY <3>2, <3>9
    <3>14. Cardinality(Held(p)') <= Cardinality(PeriodUsage(p) \cup Opening')
           /\ Cardinality(Held(p)') \in Nat
      BY <3>12, <3>13, SmallerSet
    <3> QED
      BY <3>3, <3>4, <3>7, <3>8, <3>11, <3>14, LimitAssumption, ConnectionsAssumption
  <2> QED  BY <2>3, <2>4
<1>4. ASSUME NEW r \in Request, NEW in \in Input, Begin(r, in) PROVE Held(p)' \subseteq Held(p)
  BY <1>4 DEF Begin, PeriodUsage, Held, Opening, RowsInv, Rows, TypeOK, Table
<1>5. ASSUME NEW r \in Request, Ends(r) PROVE Held(p)' \subseteq Held(p)
  BY <1>5, EndsConclude DEF Conclude, PeriodUsage, Held, Opening, TypeOK
<1>6. ASSUME NEW r \in Request,
             \/ FindConversation(r) \/ InsertUserMessage(r)
             \/ ReadHistory(r) \/ CompleteReply(r)
             \/ EmitStart(r) \/ StreamFinishes(r)
      PROVE  Held(p)' \subseteq Held(p)
  BY <1>6 DEF FindConversation, InsertUserMessage, ReadHistory, CompleteReply,
              EmitStart, StreamFinishes, PeriodUsage, Held, Opening, TypeOK
<1>7. ASSUME NEW r \in Request, Commit(r) PROVE Held(p)' \subseteq Held(p)
  BY <1>7 DEF Commit, PeriodUsage, Held, Opening, TypeOK, Table
<1>8. ASSUME RetentionPasses \/ PurgeExpired PROVE Held(p)' \subseteq Held(p)
  BY <1>8 DEF RetentionPasses, PurgeExpired, PeriodUsage, Held, Opening, TypeOK, Table
<1>9. ASSUME UNCHANGED vars PROVE Held(p)' \subseteq Held(p)
  BY <1>9 DEF vars, PeriodUsage, Held, Opening
<1> QED
  BY <1>2, <1>3, <1>4, <1>5, <1>6, <1>7, <1>8, <1>9, StepCases

(***************************************************************************)
(* The history                                                             *)
(***************************************************************************)
\* The question is picked among what the transaction sees, its own included.
LEMMA HistoryStep ==
    TypeOK /\ HandlerInv /\ RowsInv /\ TimeInv /\ NeverAnswersOlder /\ [Next]_vars
        => NeverAnswersOlder'
<1> DEFINE Reading == {"prompting", "streaming", "replied", "committed"}
<1> SUFFICES ASSUME TypeOK, HandlerInv, RowsInv, TimeInv, NeverAnswersOlder,
                    [Next]_vars, NEW q \in Request, pc'[q] \in Reading
             PROVE  /\ ConvOf(lastUser[q])' = ConvOf(q)'
                    /\ txAt'[lastUser'[q]] >= txAt'[q]
  BY DEF NeverAnswersOlder
<1>1. CASE pc[q] \in Reading /\ lastUser'[q] = lastUser[q]
  <2>1. pc[q] # "idle" /\ pc[lastUser[q]] # "idle" /\ lastUser[q] \in Request
    BY <1>1 DEF TimeInv, Timing, TypeOK
  <2>2. /\ ConvOf(q)' = ConvOf(q) /\ txAt'[q] = txAt[q]
        /\ txAt'[lastUser[q]] = txAt[lastUser[q]]
    BY <2>1, AddressFixed
  <2>3. \A p \in Request : pc[p] # "idle" => ConvOf(p)' = ConvOf(p)
    BY AddressFixed
  <2>4. ConvOf(lastUser[q])' = ConvOf(lastUser[q])
    BY <1>1, <2>1, <2>3 DEF ConvOf
  <2> QED  BY <1>1, <2>2, <2>4 DEF NeverAnswersOlder
<1>2. CASE OpenConversation(q)
  BY <1>2 DEF OpenConversation, TypeOK, ConvOf
<1>3. CASE ReadHistory(q)
  BY <1>3 DEF ReadHistory, VisibleUser, TypeOK, ConvOf, Table
<1>4. ASSUME ~(pc[q] \in Reading /\ lastUser'[q] = lastUser[q])
      PROVE  OpenConversation(q) \/ ReadHistory(q)
  <2>1. ASSUME NEW r \in Request, NEW in \in Input, Begin(r, in) PROVE FALSE
    BY <1>4, <2>1 DEF Begin, Goto, TypeOK
  <2>2. ASSUME NEW r \in Request, Ends(r) PROVE FALSE
    BY <1>4, <2>2, EndsConclude DEF Conclude, Goto, TypeOK
  <2>3. ASSUME NEW r \in Request,
               \/ FindConversation(r) \/ InsertUserMessage(r) \/ CompleteReply(r)
               \/ EmitStart(r) \/ StreamFinishes(r) \/ Commit(r)
        PROVE  FALSE
    BY <1>4, <2>3 DEF FindConversation, InsertUserMessage, CompleteReply, EmitStart,
                      StreamFinishes, Commit, Goto, TypeOK
  <2>4. ASSUME NEW r \in Request, OpenConversation(r) \/ ReadHistory(r) PROVE r = q
    BY <1>4, <2>4 DEF OpenConversation, ReadHistory, Goto, TypeOK
  <2>5. CASE RetentionPasses \/ PurgeExpired \/ UNCHANGED vars
    BY <1>4, <2>5 DEF RetentionPasses, PurgeExpired, vars
  <2> QED  BY <2>1, <2>2, <2>3, <2>4, <2>5, StepCases
<1> QED
  BY <1>1, <1>2, <1>3, <1>4


(***************************************************************************)
(* The inductive invariant and what follows from it                        *)
(***************************************************************************)
\* The invariant holds before the first request.
LEMMA InitIInv == Init => IInv
<1> SUFFICES ASSUME Init PROVE IInv
  OBVIOUS
<1>1. InFlight = {} /\ \A p \in Period : Held(p) = {}
  BY DEF Init, InFlight, Held, Opening, PeriodUsage, Table
<1>2. Cardinality({}) = 0
  BY FS_EmptySet
<1>3. TypeOK
  BY <1>1, <1>2, ConnectionsAssumption
     DEF Init, TypeOK, Table, Steps, Input, Verdicts
<1>4. HandlerInv /\ RowsInv /\ LockInv
  BY DEF Init, HandlerInv, Handler, Written, RowsInv, Rows, LockInv, Locked, Appending,
         Creates, ConvOf, Table
<1>5. TimeInv /\ NeverAnswersOlder
  BY DEF Init, TimeInv, Timing, NeverAnswersOlder
<1>6. QuotaInv
  BY <1>1, <1>2, LimitAssumption, ConnectionsAssumption DEF QuotaInv
<1>7. ExchangesAtomic /\ VerdictIsTrue
  BY DEF Init, ExchangesAtomic, VerdictIsTrue, Table
<1> QED  BY <1>3, <1>4, <1>5, <1>6, <1>7 DEF IInv

\* Every step preserves it.
LEMMA NextIInv == IInv /\ [Next]_vars => IInv'
BY TypeStep, HandlerStep, RowsStep, TimeStep, LockStep, QuotaStep, AtomicStep,
   VerdictStep, HistoryStep DEF IInv

\* The inductive invariant holds in every reachable state.
THEOREM Invariance == Spec => []IInv
BY InitIInv, NextIInv, PTL DEF Spec

\* Type correctness, and no more connections in use than the pools have.
THEOREM TypeCorrect == Spec => []TypeOK
<1>1. IInv => TypeOK
  BY DEF IInv
<1> QED  BY <1>1, Invariance, PTL

\* The database never shows half an exchange.
THEOREM Atomicity == Spec => []ExchangesAtomic
<1>1. IInv => ExchangesAtomic
  BY DEF IInv
<1> QED  BY <1>1, Invariance, PTL

\* "ok" means committed, a refusal means nothing was written.
THEOREM Honesty == Spec => []VerdictIsTrue
<1>1. IInv => VerdictIsTrue
  BY DEF IInv
<1> QED  BY <1>1, Invariance, PTL

\* In every period, the conversations whose check counted the whole period are
\* fewer than the limit and the number of database connections together.
THEOREM Overshoot == Spec => []OvershootBounded
<1>1. IInv => OvershootBounded
  <2> SUFFICES ASSUME IInv, ~Enterprise, NEW p \in Period
               PROVE  Cardinality({c \in PeriodUsage(p) : p \in counted[c]})
                          < Limit + Connections
    BY DEF OvershootBounded
  <2> DEFINE S == {c \in PeriodUsage(p) : p \in counted[c]}
  <2>1. Held(p) \in SUBSET Request /\ S \subseteq Held(p)
    BY DEF IInv, TypeOK, Held, Opening, PeriodUsage, Table
  <2>2. Cardinality(Held(p)) < Limit + Connections
    BY DEF IInv, QuotaInv
  <2>3. /\ Cardinality(S) <= Cardinality(Held(p))
        /\ Cardinality(S) \in Nat /\ Cardinality(Held(p)) \in Nat
    BY <2>1, SmallerSet
  <2> HIDE DEF S
  <2>4. Cardinality(S) < Limit + Connections
    BY <2>2, <2>3, LimitAssumption, ConnectionsAssumption
  <2> QED  BY <2>4 DEF S
<1> QED  BY <1>1, Invariance, PTL

\* An append never answers a question older than its own.
THEOREM History == Spec => []NeverAnswersOlder
<1>1. IInv => NeverAnswersOlder
  BY DEF IInv
<1> QED  BY <1>1, Invariance, PTL

\* Committed exchanges go only with their whole, expired conversation.
THEOREM Retention == Spec => OnlyRetentionDeletes
<1>1. IInv /\ [Next]_vars =>
        [\A r \in db["user"] \ db'["user"] :
            /\ ConvOf(r) \notin db'["conversation"]
            /\ txAt[ConvOf(r)] <= cutoff]_vars
  <2> SUFFICES ASSUME IInv, [Next]_vars, NEW r \in db["user"], r \notin db'["user"]
               PROVE  ConvOf(r) \notin db'["conversation"] /\ txAt[ConvOf(r)] <= cutoff
    OBVIOUS
  <2>1. CASE UNCHANGED db
    BY <2>1
  <2>2. ASSUME NEW q \in Request, Commit(q) PROVE FALSE
    BY <2>2 DEF Commit, Table
  <2>3. CASE PurgeExpired
    <3>1. /\ r \in PurgedMessages
          /\ db'["conversation"] = db["conversation"] \ Expired
      BY <2>3 DEF PurgeExpired
    <3>2. /\ r \in Request /\ ConvOf(r) \in db["conversation"]
          /\ db["conversation"] \subseteq Request
      BY DEF IInv, TypeOK, ExchangesAtomic, Table
    <3>3. txAt[ConvOf(r)] <= txAt[r]
      BY <3>2 DEF IInv, RowsInv, Rows, TimeInv, Timing, Table
    <3>4. txAt[ConvOf(r)] <= cutoff
      <4>1. CASE r \in Expired
        BY <3>2, <3>3, <4>1 DEF Expired, IInv, TypeOK
      <4>2. CASE ConvOf(r) \in ExpiredConversations
        BY <4>2 DEF ExpiredConversations, Expired
      <4> QED  BY <3>1, <4>1, <4>2 DEF PurgedMessages
    <3> QED  BY <3>1, <3>2, <3>4 DEF Expired
  <2> QED  BY <2>1, <2>2, <2>3, DatabaseWriters
<1> QED  BY <1>1, Invariance, PTL DEF Spec, OnlyRetentionDeletes

\* From its insert on, an append's conversation stays.
THEOREM Stays == Spec => ConversationStaysUnderAppend
<1>1. IInv /\ [Next]_vars =>
        [\A r \in Request : pc[r] \in {"inserted", "prompting", "streaming", "replied"}
             /\ ~Creates(r) => ConvOf(r) \in db'["conversation"]]_vars
  <2> SUFFICES ASSUME IInv, [Next]_vars, NEW r \in Request, pc[r] \in Appending,
                      ~Creates(r)
               PROVE  ConvOf(r) \in db'["conversation"]
    BY DEF Appending
  <2>1. ConvOf(r) \in db["conversation"] /\ "user" \in pend[r]
    BY DEF IInv, LockInv, Locked, HandlerInv, Handler, Written, Question, Appending
  <2>2. ASSUME NEW q \in Request, Commit(q) PROVE db["conversation"] \subseteq db'["conversation"]
    BY <2>2 DEF Commit, Table
  <2>3. CASE PurgeExpired
    BY <2>1, <2>3 DEF PurgeExpired, ExpiredConversations
  <2> QED  BY <2>1, <2>2, <2>3, DatabaseWriters
<1> QED  BY <1>1, Invariance, PTL DEF Spec, ConversationStaysUnderAppend


(***************************************************************************)
(* Refinement                                                              *)
(***************************************************************************)
\* Steps that leave database, verdicts and addresses alone are stutters.
LEMMA Stutter ==
    ASSUME UNCHANGED db, UNCHANGED purged, UNCHANGED told, UNCHANGED input
    PROVE  UNCHANGED Abstract!vars
BY DEF Abstract!vars, Exchange, ConvOf

\* A request's address is fixed while nothing of it is stored.
LEMMA BeginIsAddress ==
    ASSUME IInv, NEW r \in Request, NEW in \in Input, Begin(r, in)
    PROVE  Abstract!Address(r, in.conv)
<1>1. Exchange(r) = "none" /\ told[r] = "none"
  BY DEF IInv, HandlerInv, Handler, RowsInv, Rows, Begin, Exchange, Table
<1>2. UNCHANGED db /\ UNCHANGED purged /\ UNCHANGED told
  BY DEF Begin
<1>3. \A q \in Request : Exchange(q)' = Exchange(q)
  BY <1>2 DEF Exchange
<1>4. [q \in Request |-> ConvOf(q)]' = [[q \in Request |-> ConvOf(q)] EXCEPT ![r] = in.conv]
  BY DEF Begin, ConvOf, IInv, TypeOK
<1> QED  BY <1>1, <1>2, <1>3, <1>4 DEF Abstract!Address

\* The end of a request is a confirmation, a refusal or the loss of both.
LEMMA EndIsVerdict ==
    ASSUME IInv, NEW r \in Request, Ends(r)
    PROVE  Abstract!Confirm(r) \/ Abstract!Refuse(r) \/ Abstract!Lose(r)
<1>1. PICK v \in Verdicts : Conclude(r, v) /\ pc[r] # "done"
  BY EndsConclude
<1>2. told[r] = "none" /\ told' = [told EXCEPT ![r] = v]
  BY <1>1 DEF IInv, HandlerInv, Handler, Conclude
<1>3. /\ [q \in Request |-> Exchange(q)]' = [q \in Request |-> Exchange(q)]
      /\ [q \in Request |-> ConvOf(q)]' = [q \in Request |-> ConvOf(q)]
  BY <1>1 DEF Conclude, Exchange, ConvOf
<1>4. told'[r] = v
  BY <1>2 DEF IInv, TypeOK
<1>5. CASE v = "lost"
  BY <1>2, <1>3, <1>5 DEF Abstract!Lose
<1>6. CASE Answer(r)
  <2>1. v = "ok"
    BY <1>4, <1>6 DEF Answer, Conclude, IInv, TypeOK
  <2>2. Exchange(r) # "none"
    BY <1>6 DEF Answer, IInv, RowsInv, Rows, Exchange
  <2> QED  BY <1>2, <1>3, <2>1, <2>2 DEF Abstract!Confirm
<1>7. CASE RefuseQuota(r) \/ ConversationNotFound(r) \/ StreamFails(r)
  <2>1. v \in Abstract!Refusals
    BY <1>4, <1>7 DEF RefuseQuota, ConversationNotFound, StreamFails, Conclude, IInv,
                      TypeOK, Abstract!Refusals
  <2>2. Exchange(r) = "none"
    BY <1>7 DEF RefuseQuota, ConversationNotFound, StreamFails, IInv, RowsInv, Rows,
                Exchange, Table
  <2> QED  BY <1>2, <1>3, <2>1, <2>2 DEF Abstract!Refuse
<1>8. CASE PoolTimeout(r) \/ ForeignKeyFails(r) \/ Abort(r)
  <2>1. v = "lost"
    BY <1>4, <1>8 DEF PoolTimeout, ForeignKeyFails, Abort, Conclude, IInv, TypeOK
  <2> QED  BY <1>5, <2>1
<1> QED
  BY <1>6, <1>7, <1>8 DEF Ends

\* A commit stores one exchange.
LEMMA CommitIsStore ==
    ASSUME IInv, NEW r \in Request, Commit(r)
    PROVE  Abstract!Store(r)
<1>1. pend[r] = Question(r) \cup {"assistant", "usage"} /\ told[r] = "none"
  BY DEF Commit, IInv, HandlerInv, Handler, Written
<1>2. db'["user"] = db["user"] \cup {r} /\ purged' = purged
  BY <1>1 DEF Commit, Question, Table
<1>3. r \notin purged /\ r \notin db["user"]
  BY DEF Commit, IInv, RowsInv, Rows, Table
<1>4. ConvOf(r) = r \/ Exchange(ConvOf(r)) = "stored"
  <2>1. CASE Creates(r)
    BY <2>1 DEF IInv, HandlerInv, Handler
  <2>2. CASE ~Creates(r)
    <3>1. ConvOf(r) \in db["conversation"]
      BY <2>2 DEF Commit, IInv, LockInv, Locked, Appending
    <3>2. ConvOf(r) \in db["user"] /\ ConvOf(r) \in Request
      BY <3>1 DEF IInv, ExchangesAtomic, TypeOK, Table
    <3> QED  BY <3>2 DEF IInv, RowsInv, Rows, Exchange
  <2> QED  BY <2>1, <2>2
<1>5. [q \in Request |-> Exchange(q)]' = [[q \in Request |-> Exchange(q)] EXCEPT ![r] = "stored"]
  BY <1>2, <1>3 DEF Exchange
<1>6. UNCHANGED told /\ [q \in Request |-> ConvOf(q)]' = [q \in Request |-> ConvOf(q)]
  BY DEF Commit, ConvOf
<1>7. Exchange(r) = "none" /\ ConvOf(r) \in Request
  BY <1>3 DEF Exchange, ConvOf, Input, IInv, TypeOK
<1> QED
  BY <1>1, <1>4, <1>5, <1>6, <1>7 DEF Abstract!Store

\* The purge expires whole conversations.
LEMMA PurgeIsExpire ==
    ASSUME IInv, PurgeExpired
    PROVE  Abstract!Expire(ExpiredConversations)
<1>1. /\ db'["user"] = db["user"] \ PurgedMessages
      /\ purged' = purged \cup (db["user"] \cap PurgedMessages)
  BY DEF PurgeExpired
<1>2. \A r \in db["user"] : r \in PurgedMessages <=> ConvOf(r) \in ExpiredConversations
  <2> TAKE r \in db["user"]
  <2>1. r \in Request /\ ConvOf(r) \in db["conversation"] /\ ConvOf(r) \in Request
    BY DEF IInv, TypeOK, ExchangesAtomic, Table
  <2>2. txAt[ConvOf(r)] <= txAt[r]
    BY <2>1 DEF IInv, RowsInv, Rows, TimeInv, Timing, Table
  <2>3. r \in Expired => ConvOf(r) \in Expired
    BY <2>1, <2>2 DEF Expired, IInv, TypeOK
  <2> QED  BY <2>1, <2>3 DEF PurgedMessages, ExpiredConversations
<1>3. \A r \in Request : r \in purged => r \notin db["user"]
  BY DEF IInv, RowsInv, Rows
<1>4. \A r \in Request : Exchange(r)' =
        IF Exchange(r) = "stored" /\ ConvOf(r) \in ExpiredConversations
        THEN "expired" ELSE Exchange(r)
  BY <1>1, <1>2, <1>3 DEF Exchange
<1>5. UNCHANGED told /\ [q \in Request |-> ConvOf(q)]' = [q \in Request |-> ConvOf(q)]
  BY DEF PurgeExpired, ConvOf
<1>6. ExpiredConversations # {}
  BY DEF PurgeExpired
<1> QED
  BY <1>4, <1>5, <1>6 DEF Abstract!Expire

\* The service with its transactions, streams and purges implements the store
\* of whole exchanges.
THEOREM Refinement == Spec => ImplementsExchangeStore
<1>1. Init => Abstract!Init
  BY DEF Init, Abstract!Init, Exchange, ConvOf, Table
<1>2. IInv /\ [Next]_vars => [Abstract!Next]_Abstract!vars
  <2> SUFFICES ASSUME IInv, [Next]_vars PROVE [Abstract!Next]_Abstract!vars
    OBVIOUS
  <2>1. ASSUME NEW r \in Request, NEW in \in Input, Begin(r, in) PROVE Abstract!Next
    BY <2>1, BeginIsAddress DEF Abstract!Next, Input
  <2>2. ASSUME NEW r \in Request, Ends(r) PROVE Abstract!Next
    BY <2>2, EndIsVerdict DEF Abstract!Next
  <2>3. ASSUME NEW r \in Request,
               \/ OpenConversation(r) \/ FindConversation(r) \/ InsertUserMessage(r)
               \/ ReadHistory(r) \/ CompleteReply(r)
               \/ EmitStart(r) \/ StreamFinishes(r)
        PROVE  UNCHANGED Abstract!vars
    BY <2>3, Stutter
       DEF OpenConversation, FindConversation, InsertUserMessage, ReadHistory,
           CompleteReply, EmitStart, StreamFinishes
  <2>4. ASSUME NEW r \in Request, Commit(r) PROVE Abstract!Next
    BY <2>4, CommitIsStore DEF Abstract!Next
  <2>5. CASE RetentionPasses \/ UNCHANGED vars
    BY <2>5, Stutter DEF RetentionPasses, vars
  <2>6. CASE PurgeExpired
    <3>1. ExpiredConversations \in SUBSET Request
      BY DEF ExpiredConversations, Expired
    <3> QED  BY <2>6, <3>1, PurgeIsExpire DEF Abstract!Next
  <2> QED  BY <2>1, <2>2, <2>3, <2>4, <2>5, <2>6, StepCases
<1> QED
  BY <1>1, <1>2, Invariance, PTL DEF Spec, ImplementsExchangeStore, Abstract!Spec

(***************************************************************************)
(* Progress                                                                *)
(***************************************************************************)
\* A handler that reads its history finds a last question to answer, and a purge that
\* has to wait waits for an append whose handler goes on.
ServiceGoesOn ==
    /\ \A r \in InFlight : pc[r] = "inserted" =>
           \E q \in VisibleUser(r) : \A p \in VisibleUser(r) : txAt[p] <= txAt[q]
    /\ \/ \A r \in Request : "user" \in pend[r] => ConvOf(r) \notin ExpiredConversations
       \/ \E r \in InFlight : /\ ~Creates(r) /\ pc[r] \in Appending
                              /\ ConvOf(r) \in ExpiredConversations

\* Of finitely many requests one started last: the one with fewest after it.
LEMMA LatestOf ==
    ASSUME NEW V \in SUBSET Request, V # {}, txAt \in [Request -> Nat]
    PROVE  \E q \in V : \A p \in V : txAt[p] <= txAt[q]
<1> DEFINE After(q) == {p \in V : txAt[p] > txAt[q]}
           R == StrictSubsetOrdering(V)
           T == {After(q) : q \in V}
<1>1. IsWellFoundedOn(R, SUBSET V)
  <2>1. IsFiniteSet(V)
    BY RequestAssumption, FS_Subset
  <2> QED  BY <2>1, FS_StrictSubsetOrderingWellFounded, FS_FiniteSubsetsOfFinite
<1>2. T \subseteq SUBSET V /\ T # {}
  OBVIOUS
<1>3. PICK s \in T : \A t \in T : ~(<<t, s>> \in R)
  <2> HIDE DEF R, T
  <2> QED  BY <1>1, <1>2, WFMin
<1>4. PICK q \in V : s = After(q)
  OBVIOUS
<1>5. ASSUME NEW p \in V, ~(txAt[p] <= txAt[q]) PROVE FALSE
  <2>1. txAt[p] \in Nat /\ txAt[q] \in Nat /\ txAt[p] > txAt[q]
    BY <1>5
  <2>2. p \in After(q) /\ p \notin After(p)
    BY <2>1
  <2>3. After(p) \subseteq After(q)
    BY <2>1
  <2>4. <<After(p), s>> \in R
    BY <1>4, <2>2, <2>3 DEF StrictSubsetOrdering
  <2> QED  BY <1>3, <2>4
<1> QED  BY <1>5

\* The safety half of Responds and ExpiredIsPurged: the one step of a handler whose
\* guard could fail for good, choosing the last question, never does, and only appends
\* that are between their insert and their commit hold up a purge.
THEOREM HandlersGoOn == Spec => []ServiceGoesOn
<1>1. IInv => ServiceGoesOn
  <2> SUFFICES ASSUME IInv PROVE ServiceGoesOn
    OBVIOUS
  <2>1. ASSUME NEW r \in InFlight
        PROVE  \E q \in VisibleUser(r) : \A p \in VisibleUser(r) : txAt[p] <= txAt[q]
    <3>1. VisibleUser(r) \in SUBSET Request /\ VisibleUser(r) # {}
      BY DEF VisibleUser, InFlight, IInv, TypeOK, Table
    <3> QED  BY <3>1, LatestOf DEF IInv, TypeOK
  <2>2. ASSUME NEW r \in Request, "user" \in pend[r], ConvOf(r) \in ExpiredConversations
        PROVE  r \in InFlight /\ ~Creates(r) /\ pc[r] \in Appending
    <3>1. pc[r] \in Appending /\ r \in InFlight
      BY <2>2 DEF IInv, HandlerInv, Handler, Written, Appending, InFlight
    <3>2. Creates(r) => r \in db["conversation"]
      BY <2>2 DEF IInv, HandlerInv, Handler, ExpiredConversations
    <3>3. r \notin db["conversation"]
      BY <3>1 DEF IInv, RowsInv, Rows, Appending, Table
    <3> QED  BY <3>1, <3>2, <3>3
  <2> QED  BY <2>1, <2>2 DEF ServiceGoesOn
<1> QED  BY <1>1, Invariance, PTL
===============================================================================
