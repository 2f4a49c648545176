------------------------- MODULE SqliteDatabaseProofs -------------------------
(***************************************************************************)
(* Proofs about SqliteDatabase, for any tree of transactions, any queries, *)
(* batches and streams, whatever callbacks leave running and whatever the  *)
(* engine rolls back by itself: types, who owns the handle, what fulfilled *)
(* transactions leave durable, that nothing is executed for a transaction  *)
(* that has ended, and that the runtime implements nested transactions.    *)
(***************************************************************************)
EXTENDS SqliteRefinement, WellFoundedInduction, TLAPS

\* A root call that waits for its turn
Waiting(c) ==
  \/ c \in RootTxns /\ pc[c] = "queued"
  \/ c \in RootWorks /\ work[c] = "queued"
  \/ c = Close /\ closing = "queued"

\* No two calls have one place, and places are served in turn.
TicketInv ==
  /\ \A c \in Calls : ticket[c] < next
  /\ \A c, d \in Calls : ticket[c] = ticket[d] /\ ticket[c] # 0 => c = d
  /\ \A c \in Calls : Running(c) => ticket[c] = serving
  /\ \A c \in Calls : Waiting(c) => ticket[c] >= serving

\* A call without a place has not asked for one.
NewInv ==
  /\ \A t \in Txns : pc[t] = "none" => ~ open[t] /\ ~ began[t]
  /\ \A t \in RootTxns : pc[t] = "none" => ticket[t] = 0
  /\ \A w \in RootWorks : work[w] = "new" => ticket[w] = 0
  /\ closing \in {"no", "streams"} => ticket[Close] = 0

\* Once close() has queued, everything before it is over when it is served.
ClosedInv == closing = "closed" => \A c \in Calls : ~ Running(c)

\* A scope is open while its callback runs, inside its BEGIN or SAVEPOINT.
ScopeInv ==
  /\ \A t \in Txns : open[t] => pc[t] = "running" /\ began[t]
  /\ \A t \in Txns : pc[t] \in {"running", "returned"} => began[t]

\* The savepoints that are open are those of the root transaction that runs.
LevelInv == levels # {} => \E t \in RootTxns : pc[t] \in Active /\ began[t]

\* What is left of a query or a batch
PartInv ==
  \A w \in Works :
    /\ work[w] \in {"new", "queued"} => part[w] = 0
    /\ work[w] = "busy" => part[w] < Size[w]

OwnerInv == TicketInv /\ NewInv /\ ClosedInv /\ ScopeInv /\ LevelInv

USE ConstantsAssumption

-------------------------------------------------------------------------------
(* The tree of transactions.  Its lemmas are by induction on depths. *)

LEMMA Least == ASSUME NEW S \in SUBSET Nat, S # {} PROVE \E m \in S : \A n \in S : m <= n
<1> DEFINE R == OpToRel(<, Nat)
<1>1. IsWellFoundedOn(R, Nat)
  BY NatLessThanWellFounded, Zenon
<1> HIDE DEF R
<1>2. PICK m \in S : \A n \in S : <<n, m>> \notin R
  BY <1>1, WFMin
<1>3. \A n \in S : ~ (n < m)
  BY <1>2 DEF R, OpToRel
<1> QED BY <1>3

\* A set of transactions has one whose depth is least.
LEMMA Shallowest ==
  ASSUME NEW T \in SUBSET Txns, T # {} PROVE \E t \in T : \A u \in T : Depth[t] <= Depth[u]
<1> DEFINE S == {Depth[t] : t \in T}
<1>1. S \in SUBSET Nat /\ S # {}
  OBVIOUS
<1>2. PICK m \in S : \A n \in S : m <= n
  BY <1>1, Least
<1> QED BY <1>2

\* A transaction is nested in those that its parent is nested in, and in its parent.
LEMMA Lines ==
  ASSUME NEW t \in Txns
  PROVE  /\ t \in Line[t] /\ Line[t] \subseteq Txns
         /\ Parent[t] = Root => Line[t] = {t} /\ Depth[t] = 1
         /\ Parent[t] # Root => /\ Parent[t] \in Txns /\ Line[t] = {t} \cup Line[Parent[t]]
                                /\ Depth[t] = Depth[Parent[t]] + 1
OBVIOUS

\* What holds around a transaction has a depth between 1 and its own.
LEMMA Shallower ==
  ASSUME NEW t \in Txns, NEW a \in Line[t] PROVE a = t \/ Depth[a] < Depth[t]
<1> DEFINE T == {u \in Txns : \E b \in Line[u] : b # u /\ ~ (Depth[b] < Depth[u])}
<1>1. ASSUME T # {} PROVE FALSE
  <2>1. PICK u \in T : \A v \in T : Depth[u] <= Depth[v]
    BY <1>1, Shallowest
  <2>2. PICK b \in Line[u] : b # u /\ ~ (Depth[b] < Depth[u])
    OBVIOUS
  <2>3. Parent[u] \in Txns /\ b \in Line[Parent[u]] /\ Depth[u] = Depth[Parent[u]] + 1
    BY <2>2, Lines
  <2>4. Parent[u] \notin T
    BY <2>1, <2>3
  <2>5. Depth[b] <= Depth[Parent[u]]
    BY <2>3, <2>4
  <2> QED BY <2>2, <2>3, <2>5, Lines
<1> QED BY <1>1, Lines

\* Being nested is transitive.
LEMMA LinesOfLines == ASSUME NEW t \in Txns, NEW a \in Line[t] PROVE Line[a] \subseteq Line[t]
<1> DEFINE T == {u \in Txns : \E b \in Line[u] : ~ (Line[b] \subseteq Line[u])}
<1>1. ASSUME T # {} PROVE FALSE
  <2>1. PICK u \in T : \A v \in T : Depth[u] <= Depth[v]
    BY <1>1, Shallowest
  <2>2. PICK b \in Line[u] : ~ (Line[b] \subseteq Line[u])
    OBVIOUS
  <2>3. Parent[u] \in Txns /\ b \in Line[Parent[u]] /\ Depth[u] = Depth[Parent[u]] + 1
        /\ Line[Parent[u]] \subseteq Line[u]
    BY <2>2, Lines
  <2>4. Parent[u] \notin T
    BY <2>1, <2>3
  <2> QED BY <2>2, <2>3, <2>4
<1> QED BY <1>1

\* What is nested in a transaction is so through a child of it.
LEMMA Through ==
  ASSUME NEW t \in Txns, NEW a \in Line[t], a # t PROVE \E c \in Line[t] : Parent[c] = a
<1> DEFINE T == {u \in Txns : \E b \in Line[u] : b # u /\ \A c \in Line[u] : Parent[c] # b}
<1>1. ASSUME T # {} PROVE FALSE
  <2>1. PICK u \in T : \A v \in T : Depth[u] <= Depth[v]
    BY <1>1, Shallowest
  <2>2. PICK b \in Line[u] : b # u /\ \A c \in Line[u] : Parent[c] # b
    OBVIOUS
  <2>3. Parent[u] \in Txns /\ b \in Line[Parent[u]] /\ Depth[u] = Depth[Parent[u]] + 1
        /\ Line[Parent[u]] \subseteq Line[u] /\ Parent[u] # b
    BY <2>2, Lines
  <2>4. Parent[u] \notin T
    BY <2>1, <2>3
  <2> QED BY <2>2, <2>3, <2>4
<1> QED BY <1>1

\* Every transaction is in a root transaction.
LEMMA RootOf == ASSUME NEW t \in Txns PROVE \E r \in Line[t] : Parent[r] = Root
<1>1. Line[t] # {} /\ Line[t] \in SUBSET Txns
  BY Lines
<1>2. PICK r \in Line[t] : \A u \in Line[t] : Depth[r] <= Depth[u]
  BY <1>1, Shallowest
<1>3. ASSUME Parent[r] # Root PROVE FALSE
  <2>1. Parent[r] \in Line[r] /\ Depth[r] = Depth[Parent[r]] + 1 /\ Line[r] \subseteq Line[t]
    BY <1>1, <1>3, Lines, LinesOfLines
  <2> QED BY <1>1, <1>2, <2>1, Lines
<1> QED BY <1>3

-------------------------------------------------------------------------------
(* Every step keeps the types *)

EngineType ==
  levels \subseteq Depths /\ pending \in [Depths -> SUBSET Effects] /\ durable \subseteq Effects

\* The effect of the next statement is one of those there are.
LEMMA NextEffect ==
  ASSUME NEW w \in Works, NEW i \in Nat, i < Size[w]
  PROVE  <<w, i + 1>> \in Effects
<1>1. Size[w] \in Nat
  OBVIOUS
<1>2. i + 1 \in 1..Size[w]
  BY <1>1
<1> QED BY <1>2 DEF Effects

LEMMA SinceType == ASSUME EngineType, NEW d PROVE Since(d) \subseteq Effects
BY DEF EngineType, Since

LEMMA ClearedType == ASSUME EngineType, NEW d PROVE Cleared(d) \in [Depths -> SUBSET Effects]
BY DEF EngineType, Cleared

LEMMA InsertType ==
  ASSUME EngineType, NEW effect \in Effects, Insert(effect) PROVE EngineType'
<1> USE DEF EngineType, Insert
<1>1. CASE levels = {} /\ durable' = durable \cup {effect} /\ UNCHANGED pending
  BY <1>1
<1>2. CASE \E d \in levels :
             /\ Innermost(d)
             /\ pending' = [pending EXCEPT ![d] = @ \cup {effect}]
             /\ UNCHANGED durable
  BY <1>2
<1> QED BY <1>1, <1>2

LEMMA SavepointType ==
  ASSUME EngineType, NEW d \in Depths, Savepoint(d) PROVE EngineType'
BY DEF EngineType, Savepoint

LEMMA RollbackType ==
  ASSUME EngineType, NEW d, Rollback(d) PROVE EngineType' /\ levels' \subseteq levels
BY ClearedType DEF EngineType, Rollback

LEMMA MergeType ==
  ASSUME EngineType, NEW d, Merge(d)
  PROVE  EngineType' /\ levels' \subseteq levels /\ \A e \in levels' : e < d
<1> DEFINE around == {e \in levels : e < d}
<1>1. levels' = around
  BY DEF Merge
<1>2. Since(d) \subseteq Effects /\ Cleared(d) \in [Depths -> SUBSET Effects]
  BY SinceType, ClearedType
<1>3. CASE around = {}
  BY <1>1, <1>2, <1>3 DEF Merge, EngineType
<1>4. CASE around # {}
  <2>1. PICK o \in around : pending' = [Cleared(d) EXCEPT ![o] = @ \cup Since(d)]
    BY <1>4 DEF Merge
  <2>2. durable' = durable
    BY <1>4 DEF Merge
  <2>3. o \in Depths
    BY DEF EngineType
  <2>4. pending' \in [Depths -> SUBSET Effects]
    BY <1>2, <2>1, <2>3
  <2> QED BY <1>1, <2>2, <2>4 DEF EngineType
<1> QED BY <1>3, <1>4

LEMMA FailureType ==
  ASSUME EngineType, StatementFails PROVE EngineType' /\ levels' \subseteq levels
BY RollbackType DEF StatementFails, EngineType, engineVars

QueueType == ticket \in [Calls -> Nat] /\ next \in Nat \ {0} /\ serving \in 1..next

ScopeType ==
  /\ pc \in [Txns -> PCs]
  /\ open \in [Txns -> BOOLEAN] /\ began \in [Txns -> BOOLEAN]

WorkType ==
  /\ work \in [Works -> WorkStates]
  /\ part \in [Works -> Nat] /\ \A w \in Works : part[w] <= Size[w]

LEMMA TypeParts ==
  TypeOK <=> QueueType /\ ScopeType /\ WorkType /\ EngineType
               /\ closing \in {"no", "streams", "queued", "closed"}
BY DEF TypeOK, QueueType, ScopeType, WorkType, EngineType

LEMMA PartsTogether ==
  ASSUME QueueType', ScopeType', WorkType', EngineType',
         closing' \in {"no", "streams", "queued", "closed"}
  PROVE  TypeOK'
BY DEF TypeOK, QueueType, ScopeType, WorkType, EngineType

LEMMA AcquireType == ASSUME QueueType, NEW c \in Calls, Acquire(c) PROVE QueueType'
BY DEF QueueType, Acquire

\* A place that is served was taken, so there is a next one.
LEMMA ReleaseType ==
  ASSUME QueueType, TicketInv, NEW c \in Calls, HasTurn(c), Release PROVE QueueType'
BY DEF QueueType, TicketInv, HasTurn, Release
\* What is needed of a query, batch or stream that executes a statement
MayStep(w) == part[w] < Size[w] /\ (Owner[w] = Root => HasTurn(w))

LEMMA RootCall == ASSUME NEW w \in Works, Owner[w] = Root PROVE w \in RootWorks /\ w \in Calls
BY DEF RootWorks, Calls

LEMMA ReleaseByWork ==
  ASSUME QueueType, TicketInv, NEW w \in Works, MayStep(w), ReleaseOf(Owner[w])
  PROVE  QueueType'
<1>1. CASE Owner[w] = Root
  BY <1>1, RootCall, ReleaseType DEF ReleaseOf, MayStep
<1>2. CASE Owner[w] # Root
  BY <1>2 DEF ReleaseOf, QueueType, queueVars
<1> QED BY <1>1, <1>2

LEMMA StatementType ==
  ASSUME TypeOK, TicketInv, NEW w \in Works, MayStep(w), Statement(w)
  PROVE  QueueType' /\ WorkType' /\ EngineType' /\ levels' \subseteq levels
<1>0. QueueType /\ WorkType /\ EngineType /\ part[w] \in Nat
  BY TypeParts DEF WorkType
<1>1. CASE /\ Insert(<<w, part[w] + 1>>)
           /\ part' = [part EXCEPT ![w] = @ + 1]
           /\ IF part[w] + 1 = Size[w]
              THEN work' = [work EXCEPT ![w] = "done"] /\ ReleaseOf(Owner[w])
              ELSE work' = [work EXCEPT ![w] = "busy"] /\ UNCHANGED queueVars
  <2>1. EngineType' /\ levels' \subseteq levels
    BY <1>0, <1>1, NextEffect, InsertType DEF MayStep, Insert
  <2>2. WorkType'
    BY <1>0, <1>1 DEF WorkType, WorkStates, MayStep
  <2>3. QueueType'
    BY <1>0, <1>1, ReleaseByWork DEF QueueType, queueVars
  <2> QED BY <2>1, <2>2, <2>3
<1>2. CASE /\ StatementFails
           /\ work' = [work EXCEPT ![w] = "failed"]
           /\ ReleaseOf(Owner[w])
           /\ UNCHANGED part
  BY <1>0, <1>2, FailureType, ReleaseByWork DEF WorkType, WorkStates
<1> QED BY <1>1, <1>2 DEF Statement

LEMMA StartType ==
  ASSUME TypeOK, TicketInv, NEW w \in Works, MayStep(w), Start(w)
  PROVE  QueueType' /\ WorkType' /\ EngineType' /\ levels' \subseteq levels
<1>0. QueueType /\ WorkType /\ EngineType
  BY TypeParts
<1>1. CASE w \in Streams
  <2>1. OpenStream(w)
    BY <1>1 DEF Start
  <2>2. EngineType' /\ levels' \subseteq levels
    BY <1>0, <2>1 DEF OpenStream, EngineType, engineVars
  <2>3. WorkType'
    BY <1>0, <2>1 DEF OpenStream, WorkType, WorkStates
  <2>4. QueueType'
    BY <1>0, <2>1, ReleaseByWork DEF OpenStream, QueueType, queueVars
  <2> QED BY <2>2, <2>3, <2>4
<1>2. CASE w \notin Streams
  BY <1>2, StatementType DEF Start
<1> QED BY <1>1, <1>2

\* A call that was queued, and whose turn it is, has executed nothing.
LEMMA FirstStep ==
  ASSUME PartInv, NEW w \in Works, work[w] \in {"new", "queued"},
         Owner[w] = Root => HasTurn(w)
  PROVE  MayStep(w)
<1>1. part[w] = 0
  BY DEF PartInv
<1>2. Size[w] \in Nat /\ Size[w] # 0
  OBVIOUS
<1> QED BY <1>1, <1>2 DEF MayStep

LEMMA BusyStep ==
  ASSUME PartInv, TicketInv, NEW w \in Works, work[w] = "busy"
  PROVE  MayStep(w)
<1>1. part[w] < Size[w]
  BY DEF PartInv
<1>2. ASSUME Owner[w] = Root PROVE HasTurn(w)
  BY <1>2, RootCall DEF TicketInv, Running, HasTurn
<1> QED BY <1>1, <1>2 DEF MayStep

\* A transaction that ends gives back the turn of its call.
LEMMA TransactionReleases ==
  ASSUME QueueType, TicketInv, NEW t \in Txns, pc[t] \in Active, ReleaseOf(Parent[t])
  PROVE  QueueType'
<1>1. CASE Parent[t] = Root
  <2>1. t \in Calls /\ HasTurn(t)
    BY <1>1 DEF Calls, RootTxns, TicketInv, Running, HasTurn
  <2> QED BY <1>1, <2>1, ReleaseType DEF ReleaseOf
<1>2. CASE Parent[t] # Root
  BY <1>2 DEF ReleaseOf, QueueType, queueVars
<1> QED BY <1>1, <1>2

LEMMA EnterType ==
  ASSUME TypeOK, NEW t \in Txns, Enter(t) PROVE ScopeType' /\ EngineType'
<1>0. ScopeType /\ EngineType /\ Depth[t] \in Depths
  BY TypeParts DEF Depths
<1>1. CASE /\ Depth[t] = 1 => levels = {}
           /\ Savepoint(Depth[t])
           /\ pc' = [pc EXCEPT ![t] = "running"]
           /\ open' = [open EXCEPT ![t] = TRUE]
           /\ began' = [began EXCEPT ![t] = TRUE]
  <2>1. EngineType'
    BY <1>0, <1>1, SavepointType
  <2>2. pc' \in [Txns -> PCs]
    BY <1>0, <1>1 DEF ScopeType, PCs, Active
  <2>3. open' \in [Txns -> BOOLEAN] /\ began' \in [Txns -> BOOLEAN]
    BY <1>0, <1>1 DEF ScopeType
  <2> QED BY <2>1, <2>2, <2>3 DEF ScopeType
<1>2. CASE /\ pc' = [pc EXCEPT ![t] = "failing"]
           /\ UNCHANGED <<open, began, engineVars>>
  BY <1>0, <1>2 DEF ScopeType, EngineType, PCs, Active, engineVars
<1> QED BY <1>1, <1>2 DEF Enter

LEMMA CloseStreamsType ==
  ASSUME WorkType, NEW owners, CloseStreams(owners), UNCHANGED part PROVE WorkType'
BY DEF WorkType, CloseStreams, WorkStates

\* The steps of queries, batches and streams
LEMMA WorksType ==
  ASSUME TypeOK, TicketInv, PartInv, NEW w \in Works,
         Issue(w) \/ Turn(w) \/ Use(w) \/ BatchGoesOn(w) \/ EndStream(w) \/ StreamCloses(w)
  PROVE  TypeOK'
<1>0. QueueType /\ ScopeType /\ WorkType /\ EngineType
  BY TypeParts
<1>1. CASE Issue(w)
  <2>1. QueueType'
    BY <1>0, <1>1, AcquireType DEF Issue, Calls, QueueType, queueVars
  <2>2. WorkType'
    BY <1>0, <1>1 DEF Issue, WorkType, WorkStates
  <2>3. ScopeType' /\ EngineType' /\ closing' = closing
    BY <1>0, <1>1 DEF Issue, ScopeType, EngineType, scopeVars, engineVars
  <2> QED BY <2>1, <2>2, <2>3, PartsTogether DEF TypeOK
<1>2. CASE Turn(w)
  <2>1. w \in Calls /\ MayStep(w)
    BY <1>2, FirstStep DEF Turn, Calls
  <2>2. QueueType' /\ WorkType' /\ EngineType'
    <3>1. CASE Start(w)
      BY <2>1, <3>1, StartType
    <3>2. CASE /\ work' = [work EXCEPT ![w] = "refused"] /\ Release
               /\ UNCHANGED <<part, engineVars>>
      BY <1>0, <1>2, <2>1, <3>2, ReleaseType DEF Turn, WorkType, WorkStates, EngineType, engineVars
    <3> QED BY <1>2, <3>1, <3>2 DEF Turn
  <2>3. ScopeType' /\ closing' = closing
    BY <1>0, <1>2 DEF Turn, ScopeType, scopeVars
  <2> QED BY <2>2, <2>3, PartsTogether DEF TypeOK
<1>3. CASE Use(w)
  <2>1. MayStep(w)
    BY <1>3, FirstStep DEF Use, RootWorks
  <2>2. QueueType' /\ WorkType' /\ EngineType'
    <3>1. CASE Start(w)
      BY <2>1, <3>1, StartType
    <3>2. CASE /\ work' = [work EXCEPT ![w] = "refused"]
               /\ UNCHANGED <<part, queueVars, engineVars>>
      BY <1>0, <3>2 DEF WorkType, WorkStates, QueueType, EngineType, queueVars, engineVars
    <3> QED BY <1>3, <3>1, <3>2 DEF Use
  <2>3. ScopeType' /\ closing' = closing
    BY <1>0, <1>3 DEF Use, ScopeType, scopeVars
  <2> QED BY <2>2, <2>3, PartsTogether DEF TypeOK
<1>4. CASE BatchGoesOn(w)
  <2>1. QueueType' /\ WorkType' /\ EngineType'
    BY <1>4, BusyStep, StatementType DEF BatchGoesOn
  <2>2. ScopeType' /\ closing' = closing
    BY <1>0, <1>4 DEF BatchGoesOn, ScopeType, scopeVars
  <2> QED BY <2>1, <2>2, PartsTogether DEF TypeOK
<1>5. CASE EndStream(w)
  <2>1. WorkType'
    BY <1>0, <1>5 DEF EndStream, WorkType, WorkStates
  <2>2. QueueType' /\ ScopeType' /\ EngineType' /\ closing' = closing
    BY <1>0, <1>5 DEF EndStream, QueueType, ScopeType, EngineType, queueVars, scopeVars, engineVars
  <2> QED BY <2>1, <2>2, PartsTogether DEF TypeOK
<1>6. CASE StreamCloses(w)
  <2>1. Owner[w] = Root => HasTurn(w)
    BY <1>6, RootCall DEF StreamCloses, TicketInv, Running, HasTurn
  <2>2. QueueType'
    <3>1. CASE Owner[w] = Root
      BY <1>0, <1>6, <2>1, <3>1, RootCall, ReleaseType DEF StreamCloses, ReleaseOf
    <3>2. CASE Owner[w] # Root
      BY <1>0, <1>6, <3>2 DEF StreamCloses, ReleaseOf, QueueType, queueVars
    <3> QED BY <3>1, <3>2
  <2>3. WorkType'
    BY <1>0, <1>6 DEF StreamCloses, WorkType, WorkStates
  <2>4. ScopeType' /\ EngineType' /\ closing' = closing
    BY <1>0, <1>6 DEF StreamCloses, ScopeType, EngineType, scopeVars, engineVars
  <2> QED BY <2>2, <2>3, <2>4, PartsTogether DEF TypeOK
<1> QED BY <1>1, <1>2, <1>3, <1>4, <1>5, <1>6
\* The steps of transactions
LEMMA TransactionsType ==
  ASSUME TypeOK, TicketInv, NEW t \in Txns,
         IssueTransaction(t) \/ TransactionTurn(t) \/ Nest(t) \/ Return(t) \/ Throw(t)
           \/ Commit(t) \/ Undo(t)
  PROVE  TypeOK'
<1>0. QueueType /\ ScopeType /\ WorkType /\ EngineType
  BY TypeParts
<1>1. CASE IssueTransaction(t)
  <2>1. QueueType'
    BY <1>0, <1>1, AcquireType DEF IssueTransaction, Calls, QueueType, queueVars
  <2>2. ScopeType'
    BY <1>0, <1>1 DEF IssueTransaction, ScopeType, PCs
  <2>3. WorkType' /\ EngineType' /\ closing' = closing
    BY <1>0, <1>1 DEF IssueTransaction, WorkType, EngineType, workVars, engineVars
  <2> QED BY <2>1, <2>2, <2>3, PartsTogether DEF TypeOK
<1>2. CASE TransactionTurn(t)
  <2>1. WorkType' /\ closing' = closing
    BY <1>0, <1>2 DEF TransactionTurn, WorkType, workVars
  <2>2. QueueType' /\ ScopeType' /\ EngineType'
    <3>1. CASE Enter(t) /\ UNCHANGED queueVars
      BY <1>0, <3>1, EnterType DEF QueueType, queueVars
    <3>2. CASE pc' = [pc EXCEPT ![t] = "refused"] /\ Release /\ UNCHANGED <<open, began, engineVars>>
      BY <1>0, <1>2, <3>2, ReleaseType
         DEF TransactionTurn, Calls, ScopeType, PCs, EngineType, engineVars
    <3> QED BY <1>2, <3>1, <3>2 DEF TransactionTurn
  <2> QED BY <2>1, <2>2, PartsTogether DEF TypeOK
<1>3. CASE Nest(t)
  <2>1. QueueType' /\ WorkType' /\ closing' = closing
    BY <1>0, <1>3 DEF Nest, QueueType, WorkType, queueVars, workVars
  <2>2. ScopeType' /\ EngineType'
    <3>1. CASE Enter(t)
      BY <3>1, EnterType
    <3>2. CASE pc' = [pc EXCEPT ![t] = "refused"] /\ UNCHANGED <<open, began, engineVars>>
      BY <1>0, <3>2 DEF ScopeType, PCs, EngineType, engineVars
    <3> QED BY <1>3, <3>1, <3>2 DEF Nest
  <2> QED BY <2>1, <2>2, PartsTogether DEF TypeOK
<1>4. CASE Return(t) \/ Throw(t)
  <2>1. PICK outcome \in {"failing", "returned"} : CallbackEnds(t, outcome)
    BY <1>4 DEF Return, Throw
  <2>2. WorkType'
    BY <1>0, <2>1, CloseStreamsType DEF CallbackEnds
  <2>3. ScopeType'
    BY <1>0, <2>1 DEF CallbackEnds, ScopeType, PCs, Active
  <2>4. QueueType' /\ EngineType' /\ closing' = closing
    BY <1>0, <2>1 DEF CallbackEnds, QueueType, EngineType, queueVars, engineVars
  <2> QED BY <2>2, <2>3, <2>4, PartsTogether DEF TypeOK
<1>5. CASE Commit(t)
  <2>1. WorkType' /\ closing' = closing
    BY <1>0, <1>5 DEF Commit, WorkType, workVars
  <2>2. QueueType' /\ ScopeType' /\ EngineType'
    <3>1. CASE /\ ScopeIsOpen(Parent[t]) /\ Knows(Depth[t])
               /\ Merge(Depth[t])
               /\ pc' = [pc EXCEPT ![t] = "fulfilled"]
               /\ ReleaseOf(Parent[t])
      <4>1. EngineType'
        BY <1>0, <3>1, MergeType
      <4>2. ScopeType'
        BY <1>0, <1>5, <3>1 DEF Commit, ScopeType, PCs
      <4>3. QueueType'
        BY <1>0, <1>5, <3>1, TransactionReleases DEF Commit, Active
      <4> QED BY <4>1, <4>2, <4>3
    <3>2. CASE pc' = [pc EXCEPT ![t] = "failing"] /\ UNCHANGED <<queueVars, engineVars>>
      BY <1>0, <1>5, <3>2
         DEF Commit, ScopeType, PCs, Active, QueueType, EngineType, queueVars, engineVars
    <3> QED BY <1>5, <3>1, <3>2 DEF Commit
  <2> QED BY <2>1, <2>2, PartsTogether DEF TypeOK
<1>6. CASE Undo(t)
  <2>1. WorkType' /\ closing' = closing
    BY <1>0, <1>6 DEF Undo, WorkType, workVars
  <2>2. EngineType'
    BY <1>0, <1>6, RollbackType DEF Undo, EngineType, engineVars
  <2>3. ScopeType'
    BY <1>0, <1>6 DEF Undo, ScopeType, PCs
  <2>4. QueueType'
    BY <1>0, <1>6, TransactionReleases DEF Undo, Active
  <2> QED BY <2>1, <2>2, <2>3, <2>4, PartsTogether DEF TypeOK
<1> QED BY <1>1, <1>2, <1>3, <1>4, <1>5, <1>6

LEMMA CloseType ==
  ASSUME TypeOK, TicketInv, CloseCall \/ CloseQueues \/ CloseTurn PROVE TypeOK'
<1>0. QueueType /\ ScopeType /\ WorkType /\ EngineType /\ Close \in Calls
  BY TypeParts DEF Calls
<1>1. CASE CloseCall
  BY <1>0, <1>1, CloseStreamsType, PartsTogether
     DEF CloseCall, QueueType, ScopeType, EngineType, queueVars, scopeVars, engineVars
<1>2. CASE CloseQueues
  BY <1>0, <1>2, AcquireType, PartsTogether
     DEF CloseQueues, ScopeType, WorkType, EngineType, scopeVars, workVars, engineVars
<1>3. CASE CloseTurn
  BY <1>0, <1>3, ReleaseType, PartsTogether
     DEF CloseTurn, ScopeType, WorkType, EngineType, scopeVars, workVars, engineVars
<1> QED BY <1>1, <1>2, <1>3
-------------------------------------------------------------------------------
(* The chain of promises *)

LEMMA KeepsPlaces ==
  ASSUME QueueType, TicketInv, UNCHANGED queueVars,
         \A c \in Calls : Running(c)' => Running(c) \/ HasTurn(c),
         \A c \in Calls : Waiting(c)' => Waiting(c)
  PROVE  TicketInv'
BY DEF QueueType, TicketInv, HasTurn, queueVars

LEMMA TakesPlace ==
  ASSUME QueueType, TicketInv, NEW c \in Calls, ticket[c] = 0, Acquire(c),
         \A d \in Calls : Running(d)' => Running(d),
         \A d \in Calls \ {c} : Waiting(d)' => Waiting(d)
  PROVE  TicketInv'
<1>1. \A d \in Calls : ticket'[d] = IF d = c THEN next ELSE ticket[d]
  BY DEF QueueType, Acquire
<1>2. next' = next + 1 /\ serving' = serving /\ serving \in Nat /\ serving >= 1 /\ serving <= next
      /\ next \in Nat
  BY DEF QueueType, Acquire
<1>3. \A d \in Calls : ticket[d] \in Nat /\ ticket[d] < next
  BY DEF QueueType, TicketInv
<1>4. \A d \in Calls : ticket'[d] < next'
  BY <1>1, <1>2, <1>3
<1>5. \A d, e \in Calls : ticket'[d] = ticket'[e] /\ ticket'[d] # 0 => d = e
  BY <1>1, <1>2, <1>3 DEF TicketInv
<1>6. \A d \in Calls : Running(d)' => ticket'[d] = serving'
  BY <1>1, <1>2 DEF TicketInv
<1>7. \A d \in Calls : Waiting(d)' => ticket'[d] >= serving'
  BY <1>1, <1>2 DEF TicketInv
<1> QED BY <1>4, <1>5, <1>6, <1>7 DEF TicketInv

LEMMA GivesPlace ==
  ASSUME QueueType, TicketInv, NEW c \in Calls, HasTurn(c), Release,
         ~ Running(c)', ~ Waiting(c)',
         \A d \in Calls \ {c} : (Running(d)' => Running(d)) /\ (Waiting(d)' => Waiting(d))
  PROVE  TicketInv'
<1>1. ticket' = ticket /\ next' = next /\ serving' = serving + 1 /\ serving \in Nat /\ serving # 0
  BY DEF QueueType, Release
<1>2. \A d \in Calls \ {c} : ticket[d] \in Nat /\ ticket[d] # serving
  BY <1>1 DEF QueueType, TicketInv, HasTurn
<1>3. \A d \in Calls : ~ Running(d)'
  BY <1>2 DEF TicketInv
<1>4. \A d \in Calls : Waiting(d)' => ticket'[d] >= serving'
  BY <1>1, <1>2 DEF TicketInv
<1> QED BY <1>1, <1>3, <1>4 DEF TicketInv

\* The one that has its turn is the only one that runs.
LEMMA TurnIsAlone ==
  ASSUME QueueType, TicketInv, NEW c \in Calls, HasTurn(c), NEW d \in Calls, Running(d)
  PROVE  c = d
BY DEF QueueType, TicketInv, HasTurn

LEMMA Kept ==
  ASSUME NEW w, pc' = pc, closing' = closing, \A v \in Works \ {w} : work'[v] = work[v]
  PROVE  \A c \in Calls \ {w} : (Running(c)' <=> Running(c)) /\ (Waiting(c)' <=> Waiting(c))
BY DEF Running, Waiting, RootWorks, RootTxns

LEMMA KeptTxn ==
  ASSUME NEW t, work' = work, closing' = closing, \A u \in Txns \ {t} : pc'[u] = pc[u]
  PROVE  \A c \in Calls \ {t} : (Running(c)' <=> Running(c)) /\ (Waiting(c)' <=> Waiting(c))
BY DEF Running, Waiting, RootWorks, RootTxns

\* A query, batch or stream is a call if it is the database's, and is then nothing else.
LEMMA WorkCall ==
  ASSUME NEW w \in Works
  PROVE  /\ w \in Calls <=> Owner[w] = Root
         /\ w \in RootWorks <=> Owner[w] = Root
         /\ w \notin RootTxns /\ w # Close
         /\ Running(w) <=> Owner[w] = Root /\ work[w] \in {"busy", "open", "closing"}
         /\ Waiting(w) <=> Owner[w] = Root /\ work[w] = "queued"
         /\ Running(w)' <=> Owner[w] = Root /\ work'[w] \in {"busy", "open", "closing"}
         /\ Waiting(w)' <=> Owner[w] = Root /\ work'[w] = "queued"
BY DEF Calls, RootWorks, RootTxns, Running, Waiting

LEMMA TxnCall ==
  ASSUME NEW t \in Txns
  PROVE  /\ t \in Calls <=> Parent[t] = Root
         /\ t \in RootTxns <=> Parent[t] = Root
         /\ t \notin RootWorks /\ t # Close
         /\ Running(t) <=> Parent[t] = Root /\ pc[t] \in Active
         /\ Waiting(t) <=> Parent[t] = Root /\ pc[t] = "queued"
         /\ Running(t)' <=> Parent[t] = Root /\ pc'[t] \in Active
         /\ Waiting(t)' <=> Parent[t] = Root /\ pc'[t] = "queued"
BY DEF Calls, RootWorks, RootTxns, Running, Waiting
-------------------------------------------------------------------------------
(* The steps of queries, batches and streams keep the invariant. *)

\* What such a step does to the chain: it keeps its place and runs on, or gives it back.
Proceeds(w) ==
  /\ \A v \in Works \ {w} : work'[v] = work[v]
  /\ \/ ReleaseOf(Owner[w]) /\ work'[w] \in {"done", "failed", "refused"}
     \/ UNCHANGED queueVars /\ work'[w] \in {"busy", "open", "closing"}

LEMMA StatementProceeds ==
  ASSUME WorkType, PartInv, NEW w \in Works, MayStep(w), Statement(w)
  PROVE  Proceeds(w) /\ PartInv'
<1>1. CASE /\ Insert(<<w, part[w] + 1>>)
           /\ part' = [part EXCEPT ![w] = @ + 1]
           /\ IF part[w] + 1 = Size[w]
              THEN work' = [work EXCEPT ![w] = "done"] /\ ReleaseOf(Owner[w])
              ELSE work' = [work EXCEPT ![w] = "busy"] /\ UNCHANGED queueVars
  <2>1. Proceeds(w)
    BY <1>1 DEF Proceeds, WorkType
  <2>2. part[w] \in Nat /\ Size[w] \in Nat /\ part[w] < Size[w]
    BY DEF WorkType, MayStep
  <2>3. PartInv'
    BY <1>1, <2>2 DEF PartInv, WorkType
  <2> QED BY <2>1, <2>3
<1>2. CASE /\ StatementFails
           /\ work' = [work EXCEPT ![w] = "failed"]
           /\ ReleaseOf(Owner[w])
           /\ UNCHANGED part
  BY <1>2 DEF Proceeds, WorkType, PartInv
<1> QED BY <1>1, <1>2 DEF Statement

LEMMA StartProceeds ==
  ASSUME WorkType, PartInv, NEW w \in Works, MayStep(w), Start(w)
  PROVE  Proceeds(w) /\ PartInv'
<1>1. CASE w \in Streams
  BY <1>1 DEF Start, OpenStream, Proceeds, WorkType, PartInv
<1>2. CASE w \notin Streams
  BY <1>2, StatementProceeds DEF Start
<1> QED BY <1>1, <1>2

LEMMA ProceedsInTurn ==
  ASSUME QueueType, TicketInv, NEW w \in Works, UNCHANGED <<pc, closing>>,
         Owner[w] = Root => HasTurn(w), Proceeds(w)
  PROVE  TicketInv' /\ ticket' = ticket
<1>1. \A c \in Calls \ {w} : (Running(c)' <=> Running(c)) /\ (Waiting(c)' <=> Waiting(c))
  BY Kept DEF Proceeds
<1>2. ~ Waiting(w)'
  BY WorkCall DEF Proceeds
<1>3. CASE Owner[w] # Root
  <2>1. UNCHANGED queueVars
    BY <1>3 DEF Proceeds, ReleaseOf
  <2>2. w \notin Calls
    BY <1>3, WorkCall
  <2> QED BY <1>1, <2>1, <2>2, KeepsPlaces DEF queueVars
<1>4. CASE Owner[w] = Root /\ Release /\ work'[w] \in {"done", "failed", "refused"}
  <2>1. ~ Running(w)' /\ w \in Calls
    BY <1>4, WorkCall
  <2> QED BY <1>1, <1>2, <1>4, <2>1, GivesPlace DEF Release
<1>5. CASE Owner[w] = Root /\ UNCHANGED queueVars
  BY <1>1, <1>2, <1>5, KeepsPlaces DEF queueVars
<1> QED BY <1>3, <1>4, <1>5 DEF Proceeds, ReleaseOf

LEMMA WorkStep ==
  ASSUME OwnerInv, NEW w \in Works, UNCHANGED <<closing, scopeVars>>, levels' \subseteq levels,
         \A v \in Works \ {w} : work'[v] = work[v], work'[w] # "new",
         \A c \in Calls \ {w} : ticket'[c] = ticket[c], TicketInv',
         closing = "closed" => (Running(w)' => Running(w))
  PROVE  OwnerInv'
<1>1. \A c \in Calls \ {w} : Running(c)' <=> Running(c)
  BY Kept DEF scopeVars
<1>2. Close \in Calls \ {w} /\ \A t \in RootTxns : t \in Calls \ {w}
  BY WorkCall DEF Calls, RootTxns
<1>3. NewInv'
  BY <1>2 DEF OwnerInv, NewInv, scopeVars, RootWorks, Calls
<1>4. ClosedInv'
  BY <1>1 DEF OwnerInv, ClosedInv
<1>5. ScopeInv' /\ LevelInv'
  BY DEF OwnerInv, ScopeInv, LevelInv, scopeVars
<1> QED BY <1>3, <1>4, <1>5 DEF OwnerInv

LEMMA WorksKeep ==
  ASSUME TypeOK, OwnerInv, PartInv, NEW w \in Works,
         Issue(w) \/ Turn(w) \/ Use(w) \/ BatchGoesOn(w) \/ EndStream(w) \/ StreamCloses(w)
  PROVE  OwnerInv' /\ PartInv'
<1>0. QueueType /\ WorkType /\ EngineType /\ TicketInv
  BY TypeParts DEF OwnerInv
<1>1. CASE Issue(w)
  <2>1. w \in Calls /\ ticket[w] = 0 /\ UNCHANGED <<pc, closing, scopeVars>> /\ levels' = levels
    BY <1>1, WorkCall DEF Issue, OwnerInv, NewInv, scopeVars, engineVars
  <2>2. /\ \A v \in Works \ {w} : work'[v] = work[v]
        /\ work'[w] \in {"queued", "refused"}
        /\ PartInv'
    BY <1>0, <1>1 DEF Issue, WorkType, PartInv
  <2>3. \A c \in Calls \ {w} : (Running(c)' <=> Running(c)) /\ (Waiting(c)' <=> Waiting(c))
    BY <2>1, <2>2, Kept
  <2>4. ~ Running(w)'
    BY <2>2, WorkCall
  <2>5. TicketInv' /\ \A c \in Calls \ {w} : ticket'[c] = ticket[c]
    <3>1. CASE Acquire(w)
      <4>1. \A d \in Calls : Running(d)' => Running(d)
        BY <2>3, <2>4
      <4>2. \A d \in Calls \ {w} : Waiting(d)' => Waiting(d)
        BY <2>3
      <4>3. TicketInv'
        BY <1>0, <2>1, <3>1, <4>1, <4>2, TakesPlace
      <4>4. \A c \in Calls \ {w} : ticket'[c] = ticket[c]
        BY <1>0, <3>1 DEF Acquire, QueueType
      <4> QED BY <4>3, <4>4
    <3>2. CASE UNCHANGED queueVars /\ work'[w] = "refused"
      BY <1>0, <2>3, <2>4, <3>2, WorkCall, KeepsPlaces DEF queueVars
    <3> QED BY <1>0, <1>1, <3>1, <3>2 DEF Issue, WorkType
  <2> QED BY <2>1, <2>2, <2>4, <2>5, WorkStep
<1>2. CASE Turn(w)
  <2>1. MayStep(w) /\ HasTurn(w) /\ UNCHANGED <<pc, closing, scopeVars>>
    BY <1>2, FirstStep DEF Turn, scopeVars
  <2>2. Proceeds(w) /\ PartInv' /\ levels' \subseteq levels
    <3>1. CASE Start(w)
      BY <1>0, <2>1, <3>1, StartProceeds, StartType
    <3>2. CASE work' = [work EXCEPT ![w] = "refused"] /\ Release /\ UNCHANGED <<part, engineVars>>
      BY <1>0, <1>2, <3>2 DEF Turn, RootWorks, Proceeds, ReleaseOf, WorkType, PartInv, engineVars
    <3> QED BY <1>2, <3>1, <3>2 DEF Turn
  <2>3. TicketInv' /\ ticket' = ticket
    BY <1>0, <2>1, <2>2, ProceedsInTurn
  <2>4. closing = "closed" => ~ Running(w)'
    BY <1>0, <1>2, WorkCall DEF Turn, AssertOpen, ScopeIsOpen, WorkType
  <2> QED BY <2>1, <2>2, <2>3, <2>4, WorkStep DEF Proceeds
<1>3. CASE Use(w)
  <2>1. MayStep(w) /\ Owner[w] # Root /\ UNCHANGED <<pc, closing, scopeVars>>
    BY <1>3, FirstStep, WorkCall DEF Use, scopeVars
  <2>2. Proceeds(w) /\ PartInv' /\ levels' \subseteq levels
    <3>1. CASE Start(w)
      BY <1>0, <2>1, <3>1, StartProceeds, StartType
    <3>2. CASE work' = [work EXCEPT ![w] = "refused"] /\ UNCHANGED <<part, queueVars, engineVars>>
      BY <1>0, <2>1, <3>2 DEF Proceeds, ReleaseOf, WorkType, PartInv, engineVars
    <3> QED BY <1>3, <3>1, <3>2 DEF Use
  <2>3. TicketInv' /\ ticket' = ticket
    BY <1>0, <2>1, <2>2, ProceedsInTurn
  <2>4. ~ Running(w)'
    BY <2>1, WorkCall
  <2> QED BY <2>1, <2>2, <2>3, <2>4, WorkStep DEF Proceeds
<1>4. CASE BatchGoesOn(w)
  <2>1. MayStep(w) /\ UNCHANGED <<pc, closing, scopeVars>>
    BY <1>0, <1>4, BusyStep DEF BatchGoesOn, scopeVars
  <2>2. Proceeds(w) /\ PartInv' /\ levels' \subseteq levels
    BY <1>0, <1>4, <2>1, StatementProceeds, StatementType DEF BatchGoesOn
  <2>3. TicketInv' /\ ticket' = ticket
    BY <1>0, <2>1, <2>2, ProceedsInTurn DEF MayStep
  <2>4. Running(w)' => Running(w)
    BY <1>4, WorkCall DEF BatchGoesOn
  <2> QED BY <2>1, <2>2, <2>3, <2>4, WorkStep DEF Proceeds
<1>5. CASE EndStream(w)
  <2>1. UNCHANGED <<pc, closing, scopeVars>> /\ levels' = levels
    BY <1>5 DEF EndStream, scopeVars, engineVars
  <2>2. Proceeds(w) /\ PartInv'
    BY <1>0, <1>5 DEF EndStream, Proceeds, WorkType, PartInv
  <2>3. Running(w)' => Running(w)
    BY <1>5, WorkCall DEF EndStream
  <2>4. TicketInv' /\ ticket' = ticket
    <3>1. Owner[w] = Root => HasTurn(w)
      BY <1>0, <1>5, WorkCall DEF EndStream, TicketInv, HasTurn
    <3> QED BY <1>0, <2>1, <2>2, <3>1, ProceedsInTurn
  <2> QED BY <2>1, <2>2, <2>3, <2>4, WorkStep DEF Proceeds
<1>6. CASE StreamCloses(w)
  <2>1. UNCHANGED <<pc, closing, scopeVars>> /\ levels' = levels
    BY <1>6 DEF StreamCloses, scopeVars, engineVars
  <2>2. Proceeds(w) /\ PartInv'
    BY <1>0, <1>6 DEF StreamCloses, Proceeds, WorkType, PartInv
  <2>3. ~ Running(w)'
    BY <1>0, <1>6, WorkCall DEF StreamCloses, WorkType
  <2>4. TicketInv' /\ ticket' = ticket
    <3>1. Owner[w] = Root => HasTurn(w)
      BY <1>0, <1>6, WorkCall DEF StreamCloses, TicketInv, HasTurn
    <3> QED BY <1>0, <2>1, <2>2, <3>1, ProceedsInTurn
  <2> QED BY <2>1, <2>2, <2>3, <2>4, WorkStep DEF Proceeds
<1> QED BY <1>1, <1>2, <1>3, <1>4, <1>5, <1>6
-------------------------------------------------------------------------------
(* The steps of transactions keep the invariant. *)

LEMMA RootAlone ==
  ASSUME QueueType, TicketInv, NEW t \in RootTxns, pc[t] \in Active,
         NEW c \in Calls, Running(c)
  PROVE  c = t
BY TxnCall DEF TicketInv, QueueType, RootTxns

\* A scope that may be used is inside a root transaction that runs.
LEMMA RootAround ==
  ASSUME ScopeInv, NEW t \in Txns, ScopeIsOpen(t)
  PROVE  \E r \in RootTxns : pc[r] = "running" /\ began[r]
<1>1. \A a \in Line[t] : open[a]
  BY DEF ScopeIsOpen
<1>2. PICK r \in Line[t] : Parent[r] = Root
  BY RootOf
<1>3. r \in RootTxns
  BY <1>2 DEF RootTxns
<1> QED BY <1>1, <1>3 DEF ScopeInv, RootTxns

LEMMA TransactionsKeep ==
  ASSUME TypeOK, OwnerInv, PartInv, NEW t \in Txns,
         IssueTransaction(t) \/ TransactionTurn(t) \/ Nest(t) \/ Return(t) \/ Throw(t)
           \/ Commit(t) \/ Undo(t)
  PROVE  OwnerInv' /\ PartInv'
<1>0. QueueType /\ ScopeType /\ WorkType /\ EngineType /\ TicketInv /\ NewInv /\ ClosedInv
      /\ ScopeInv /\ LevelInv
  BY TypeParts DEF OwnerInv
<1>1. CASE IssueTransaction(t)
  <2>1. t \in RootTxns /\ t \in Calls /\ ticket[t] = 0 /\ pc[t] = "none"
    BY <1>0, <1>1, TxnCall DEF IssueTransaction, NewInv
  <2>2. UNCHANGED <<work, part, closing, open, began, levels>>
    BY <1>1 DEF IssueTransaction, workVars, engineVars
  <2>3. (\A u \in Txns \ {t} : pc'[u] = pc[u]) /\ pc'[t] \in {"queued", "refused"}
    BY <1>0, <1>1 DEF IssueTransaction, ScopeType
  <2>4. \A c \in Calls \ {t} : (Running(c)' <=> Running(c)) /\ (Waiting(c)' <=> Waiting(c))
    BY <2>2, <2>3, KeptTxn
  <2>5. ~ Running(t)'
    BY <2>3, TxnCall DEF Active
  <2>6. \A d \in Calls : Running(d)' => Running(d)
    BY <2>4, <2>5
  <2>7. TicketInv' /\ \A c \in Calls \ {t} : ticket'[c] = ticket[c]
    <3>1. CASE Acquire(t)
      <4>1. TicketInv'
        BY <1>0, <2>1, <2>4, <2>6, <3>1, TakesPlace
      <4>2. \A c \in Calls \ {t} : ticket'[c] = ticket[c]
        BY <1>0, <3>1 DEF Acquire, QueueType
      <4> QED BY <4>1, <4>2
    <3>2. CASE UNCHANGED queueVars /\ pc'[t] = "refused"
      BY <1>0, <2>4, <2>6, <3>2, TxnCall, KeepsPlaces DEF queueVars
    <3> QED BY <1>0, <1>1, <3>1, <3>2 DEF IssueTransaction, ScopeType
  <2>8. NewInv'
    <3>1. Close \in Calls \ {t} /\ \A w \in RootWorks : w \in Calls \ {t}
      BY TxnCall DEF Calls
    <3> QED BY <1>0, <2>1, <2>2, <2>3, <2>7, <3>1 DEF NewInv, RootTxns, Calls
  <2>9. ScopeInv' /\ LevelInv' /\ ClosedInv' /\ PartInv'
    BY <1>0, <2>1, <2>2, <2>3, <2>6 DEF ScopeInv, LevelInv, ClosedInv, PartInv, NewInv, Active, RootTxns
  <2> QED BY <2>7, <2>8, <2>9 DEF OwnerInv
<1>2. CASE TransactionTurn(t)
  <2>1. t \in RootTxns /\ t \in Calls /\ HasTurn(t) /\ pc[t] = "queued" /\ Depth[t] = 1
    BY <1>2, TxnCall DEF TransactionTurn, RootTxns
  <2>2. UNCHANGED <<work, part, closing>>
    BY <1>2 DEF TransactionTurn, workVars
  <2>3. CASE AssertOpen(Root) /\ Enter(t) /\ UNCHANGED queueVars
    <3>1. (\A u \in Txns \ {t} : pc'[u] = pc[u]) /\ pc'[t] \in {"running", "failing"}
      BY <1>0, <2>3 DEF Enter, ScopeType
    <3>2. \A c \in Calls \ {t} : (Running(c)' <=> Running(c)) /\ (Waiting(c)' <=> Waiting(c))
      BY <2>2, <3>1, KeptTxn
    <3>3. TicketInv'
      BY <1>0, <2>1, <2>3, <3>1, <3>2, TxnCall, KeepsPlaces
    <3>4. ClosedInv'
      BY <2>2, <2>3 DEF ClosedInv, AssertOpen
    <3>5. NewInv' /\ PartInv'
      BY <1>0, <2>2, <2>3, <3>1 DEF NewInv, PartInv, Enter, ScopeType, queueVars, RootTxns
    <3>6. ScopeInv'
      BY <1>0, <2>1, <2>3, <3>1 DEF ScopeInv, Enter, ScopeType
    <3>7. LevelInv'
      <4>1. CASE /\ Savepoint(Depth[t])
                 /\ pc' = [pc EXCEPT ![t] = "running"]
                 /\ began' = [began EXCEPT ![t] = TRUE]
        BY <1>0, <2>1, <4>1 DEF LevelInv, ScopeType, Active
      <4>2. CASE /\ pc' = [pc EXCEPT ![t] = "failing"]
                 /\ UNCHANGED <<open, began, engineVars>>
        BY <1>0, <2>1, <4>2 DEF LevelInv, ScopeType, Active, engineVars, RootTxns
      <4> QED BY <2>3, <4>1, <4>2 DEF Enter
    <3> QED BY <3>3, <3>4, <3>5, <3>6, <3>7 DEF OwnerInv
  <2>4. CASE pc' = [pc EXCEPT ![t] = "refused"] /\ Release /\ UNCHANGED <<open, began, engineVars>>
    <3>1. (\A u \in Txns \ {t} : pc'[u] = pc[u]) /\ pc'[t] = "refused"
      BY <1>0, <2>4 DEF ScopeType
    <3>2. \A c \in Calls \ {t} : (Running(c)' <=> Running(c)) /\ (Waiting(c)' <=> Waiting(c))
      BY <2>2, <3>1, KeptTxn
    <3>3. ~ Running(t)' /\ ~ Waiting(t)'
      BY <3>1, TxnCall DEF Active
    <3>4. TicketInv'
      BY <1>0, <2>1, <2>4, <3>2, <3>3, GivesPlace
    <3>5. NewInv' /\ PartInv'
      BY <1>0, <2>2, <2>4, <3>1 DEF NewInv, PartInv, Release, RootTxns
    <3>6. ScopeInv' /\ LevelInv' /\ ClosedInv'
      BY <1>0, <2>1, <2>2, <2>4, <3>1, <3>2, <3>3
         DEF ScopeInv, LevelInv, ClosedInv, Active, RootTxns, engineVars
    <3> QED BY <3>4, <3>5, <3>6 DEF OwnerInv
  <2> QED BY <1>2, <2>3, <2>4 DEF TransactionTurn
<1>3. CASE Nest(t)
  <2>1. t \notin RootTxns /\ Parent[t] # Root /\ pc[t] = "none"
    BY <1>3 DEF Nest, RootTxns
  <2>2. UNCHANGED <<work, part, closing, queueVars>>
    BY <1>3 DEF Nest, workVars
  <2>3. (\A u \in Txns \ {t} : pc'[u] = pc[u]) /\ pc'[t] \in {"running", "failing", "refused"}
    BY <1>0, <1>3 DEF Nest, Enter, ScopeType
  <2>4. \A c \in Calls : (Running(c)' <=> Running(c)) /\ (Waiting(c)' <=> Waiting(c))
    <3>1. t \notin Calls
      BY <2>1, TxnCall
    <3>2. \A c \in Calls \ {t} : (Running(c)' <=> Running(c)) /\ (Waiting(c)' <=> Waiting(c))
      BY <2>2, <2>3, KeptTxn
    <3> QED BY <3>1, <3>2
  <2>5. TicketInv' /\ ClosedInv'
    BY <1>0, <2>2, <2>4, KeepsPlaces DEF ClosedInv
  <2>6. /\ \A u \in Txns \ {t} : open'[u] = open[u] /\ began'[u] = began[u]
        /\ open'[t] => pc'[t] = "running" /\ began'[t]
        /\ pc'[t] = "running" => began'[t]
    BY <1>0, <1>3, <2>1 DEF Nest, Enter, ScopeType, NewInv
  <2>7. NewInv' /\ ScopeInv' /\ PartInv'
    BY <1>0, <2>1, <2>2, <2>3, <2>6 DEF NewInv, ScopeInv, PartInv, RootTxns, queueVars
  <2>8. LevelInv'
    <3>1. CASE MayUse(Parent[t])
      <4>1. PICK r \in RootTxns : pc[r] = "running" /\ began[r]
        BY <1>0, <2>1, <3>1, RootAround DEF MayUse, AssertOpen
      <4> QED BY <2>1, <2>3, <2>6, <4>1 DEF LevelInv, Active, RootTxns
    <3>2. CASE ~ MayUse(Parent[t])
      BY <1>0, <1>3, <2>1, <2>3, <2>6, <3>2 DEF Nest, LevelInv, engineVars, RootTxns
    <3> QED BY <3>1, <3>2
  <2> QED BY <2>5, <2>7, <2>8 DEF OwnerInv
<1>4. CASE Return(t) \/ Throw(t)
  <2>1. PICK outcome \in {"failing", "returned"} : CallbackEnds(t, outcome)
    BY <1>4 DEF Return, Throw
  <2>2. UNCHANGED <<closing, queueVars, began, part, levels>> /\ pc[t] = "running"
    BY <2>1 DEF CallbackEnds, engineVars
  <2>3. /\ \A u \in Txns \ {t} : pc'[u] = pc[u] /\ open'[u] = open[u]
        /\ pc'[t] \in {"failing", "returned"} /\ ~ open'[t]
    BY <1>0, <2>1 DEF CallbackEnds, ScopeType
  <2>4. \A w \in Works : work'[w] = work[w] \/ (work[w] = "open" /\ work'[w] = "closing")
    BY <1>0, <2>1 DEF CallbackEnds, CloseStreams, WorkType
  <2>5. \A c \in Calls : (Running(c)' => Running(c)) /\ (Waiting(c)' => Waiting(c))
    BY <2>2, <2>3, <2>4 DEF Running, Waiting, Active, RootTxns, RootWorks
  <2>6. TicketInv' /\ ClosedInv'
    BY <1>0, <2>2, <2>5, KeepsPlaces DEF ClosedInv
  <2>7. NewInv' /\ ScopeInv' /\ PartInv'
    BY <1>0, <2>2, <2>3, <2>4 DEF NewInv, ScopeInv, PartInv, RootTxns, RootWorks, queueVars
  <2>8. LevelInv'
    BY <1>0, <2>2, <2>3 DEF LevelInv, Active, RootTxns
  <2> QED BY <2>6, <2>7, <2>8 DEF OwnerInv
<1>5. ASSUME Commit(t) \/ Undo(t) PROVE OwnerInv' /\ PartInv'
  <2>1. UNCHANGED <<work, part, closing, open, began>>
    BY <1>5 DEF Commit, Undo, workVars
  <2>2. pc[t] \in {"returned", "failing"}
    BY <1>5 DEF Commit, Undo
  <2>3. (\A u \in Txns \ {t} : pc'[u] = pc[u]) /\ pc'[t] \in {"fulfilled", "failing", "threw"}
    BY <1>0, <1>5 DEF Commit, Undo, ScopeType
  <2>4. \A c \in Calls \ {t} : (Running(c)' <=> Running(c)) /\ (Waiting(c)' <=> Waiting(c))
    BY <2>1, <2>3, KeptTxn
  <2>5. \/ pc'[t] = "failing" /\ UNCHANGED <<queueVars, levels>>
        \/ pc'[t] \in {"fulfilled", "threw"} /\ ReleaseOf(Parent[t]) /\ levels' \subseteq levels
    <3>1. CASE Commit(t)
      BY <1>0, <3>1, MergeType DEF Commit, ScopeType, engineVars
    <3>2. CASE Undo(t)
      BY <1>0, <3>2, RollbackType DEF Undo, ScopeType, engineVars
    <3> QED BY <1>5, <3>1, <3>2
  <2>6. ~ open[t] /\ ~ Waiting(t)'
    BY <1>0, <2>2, <2>3, TxnCall DEF ScopeInv
  <2>7. Running(t)' => Running(t)
    BY <2>2, TxnCall DEF Active
  <2>8. TicketInv'
    <3>1. CASE UNCHANGED queueVars
      BY <1>0, <2>4, <2>6, <2>7, <3>1, KeepsPlaces
    <3>2. CASE Parent[t] = Root /\ Release /\ pc'[t] \in {"fulfilled", "threw"}
      <4>1. t \in Calls /\ Running(t) /\ ~ Running(t)'
        BY <2>2, <3>2, TxnCall DEF Active
      <4>2. HasTurn(t)
        BY <1>0, <4>1 DEF TicketInv, HasTurn
      <4> QED BY <1>0, <2>4, <2>6, <3>2, <4>1, <4>2, GivesPlace
    <3> QED BY <2>5, <3>1, <3>2 DEF ReleaseOf
  <2>9. ticket' = ticket
    BY <2>5 DEF ReleaseOf, Release, queueVars
  <2>10. NewInv' /\ ScopeInv' /\ ClosedInv' /\ PartInv'
    BY <1>0, <2>1, <2>2, <2>3, <2>4, <2>6, <2>7, <2>9
       DEF NewInv, ScopeInv, ClosedInv, PartInv, RootTxns
  <2>11. LevelInv'
    <3>1. CASE Parent[t] # Root \/ pc'[t] = "failing"
      BY <1>0, <2>1, <2>2, <2>3, <2>5, <3>1 DEF LevelInv, RootTxns, Active
    <3>2. CASE Parent[t] = Root /\ pc'[t] # "failing"
      <4>1. t \in RootTxns /\ Depth[t] = 1 /\ Running(t) /\ t \in Calls
        BY <2>2, <3>2, TxnCall DEF Active
      <4>2. levels' = {}
        <5>1. CASE Commit(t)
          <6>1. Merge(1)
            BY <1>0, <2>3, <3>2, <4>1, <5>1 DEF Commit, ScopeType
          <6>2. levels' \subseteq Depths /\ \A e \in levels' : e < 1
            BY <1>0, <6>1, MergeType DEF EngineType
          <6>3. \A e \in Depths : ~ (e < 1)
            BY DEF Depths
          <6> QED BY <6>2, <6>3
        <5>2. CASE Undo(t)
          <6>1. closing # "closed"
            BY <1>0, <4>1 DEF ClosedInv
          <6>2. CASE levels = {}
            BY <2>5, <3>2, <6>2 DEF queueVars
          <6>3. CASE levels # {}
            <7>1. PICK r \in RootTxns : pc[r] \in Active /\ began[r]
              BY <1>0, <6>3 DEF LevelInv
            <7>2. r = t
              BY <1>0, <2>2, <4>1, <7>1, TxnCall, RootAlone DEF Active, RootTxns
            <7>3. Undoes(t) /\ Knows(Depth[t])
              BY <3>2, <4>1, <6>1, <6>3, <7>1, <7>2 DEF Undoes, ScopeIsOpen, Knows
            <7>4. Rollback(1)
              BY <4>1, <5>2, <7>3 DEF Undo
            <7>5. levels' = {e \in levels : e < 1}
              BY <7>4 DEF Rollback
            <7>6. \A e \in levels : ~ (e < 1)
              BY <1>0 DEF EngineType, Depths
            <7> QED BY <7>5, <7>6
          <6> QED BY <6>2, <6>3
        <5> QED BY <1>5, <5>1, <5>2
      <4> QED BY <4>2 DEF LevelInv
    <3> QED BY <3>1, <3>2
  <2> QED BY <2>8, <2>10, <2>11 DEF OwnerInv
<1> QED BY <1>1, <1>2, <1>3, <1>4, <1>5
-------------------------------------------------------------------------------
(* The steps of close() keep the invariant. *)

\* Closing is never a call that runs; it waits like the others.
LEMMA CloseIsNoWork == Close \in Calls /\ Close \notin RootTxns /\ Close \notin RootWorks
BY DEF Calls, RootTxns, RootWorks

LEMMA CloseKeeps ==
  ASSUME TypeOK, OwnerInv, PartInv, CloseCall \/ CloseQueues \/ CloseTurn
  PROVE  OwnerInv' /\ PartInv'
<1>0. QueueType /\ ScopeType /\ WorkType /\ TicketInv /\ NewInv /\ ClosedInv /\ ScopeInv
      /\ LevelInv
  BY TypeParts DEF OwnerInv
<1>1. UNCHANGED <<pc, open, began, part, levels>>
  BY DEF CloseCall, CloseQueues, CloseTurn, scopeVars, workVars, engineVars
<1>2. ScopeInv' /\ LevelInv'
  BY <1>0, <1>1 DEF ScopeInv, LevelInv
<1>3. CASE CloseCall
  <2>1. UNCHANGED queueVars /\ closing = "no" /\ closing' = "streams"
    BY <1>3 DEF CloseCall
  <2>2. \A w \in Works : work'[w] = work[w] \/ (work[w] = "open" /\ work'[w] = "closing")
    BY <1>0, <1>3 DEF CloseCall, CloseStreams, WorkType
  <2>3. \A c \in Calls : (Running(c)' => Running(c)) /\ (Waiting(c)' => Waiting(c))
    BY <1>1, <2>1, <2>2 DEF Running, Waiting, RootWorks
  <2>4. TicketInv'
    BY <1>0, <2>1, <2>3, KeepsPlaces
  <2>5. NewInv' /\ ClosedInv' /\ PartInv'
    BY <1>0, <1>1, <2>1, <2>2 DEF NewInv, ClosedInv, PartInv, RootWorks, queueVars
  <2> QED BY <1>2, <2>4, <2>5 DEF OwnerInv
<1>4. CASE CloseQueues
  <2>1. UNCHANGED work /\ closing = "streams" /\ closing' = "queued" /\ Acquire(Close)
    BY <1>4 DEF CloseQueues, workVars
  <2>2. ticket[Close] = 0
    BY <1>0, <2>1 DEF NewInv
  <2>3. \A c \in Calls : Running(c)' => Running(c)
    BY <1>1, <2>1 DEF Running
  <2>4. \A c \in Calls \ {Close} : Waiting(c)' => Waiting(c)
    BY <1>1, <2>1 DEF Waiting
  <2>5. TicketInv'
    BY <1>0, <2>1, <2>2, <2>3, <2>4, CloseIsNoWork, TakesPlace
  <2>6. \A c \in Calls \ {Close} : ticket'[c] = ticket[c]
    BY <1>0, <2>1 DEF Acquire, QueueType
  <2>7. (\A t \in RootTxns : t \in Calls \ {Close}) /\ (\A w \in RootWorks : w \in Calls \ {Close})
    BY CloseIsNoWork DEF Calls
  <2>8. NewInv' /\ ClosedInv' /\ PartInv'
    BY <1>0, <1>1, <2>1, <2>6, <2>7 DEF NewInv, ClosedInv, PartInv
  <2> QED BY <1>2, <2>5, <2>8 DEF OwnerInv
<1>5. CASE CloseTurn
  <2>1. UNCHANGED work /\ closing' = "closed" /\ HasTurn(Close) /\ Release
    BY <1>5 DEF CloseTurn, workVars
  <2>2. ~ Running(Close)' /\ ~ Waiting(Close)'
    BY <2>1, CloseIsNoWork DEF Running, Waiting
  <2>3. \A c \in Calls \ {Close} : (Running(c)' <=> Running(c)) /\ (Waiting(c)' => Waiting(c))
    BY <1>1, <2>1 DEF Running, Waiting
  <2>4. TicketInv'
    BY <1>0, <2>1, <2>2, <2>3, CloseIsNoWork, GivesPlace
  <2>5. \A c \in Calls : Running(c) => c = Close
    BY <1>0, <2>1, CloseIsNoWork, TurnIsAlone
  <2>6. ClosedInv'
    BY <2>2, <2>3, <2>5 DEF ClosedInv
  <2>7. NewInv' /\ PartInv'
    BY <1>0, <1>1, <2>1 DEF NewInv, PartInv, Release
  <2> QED BY <1>2, <2>4, <2>6, <2>7 DEF OwnerInv
<1> QED BY <1>3, <1>4, <1>5

-------------------------------------------------------------------------------
IInv == TypeOK /\ OwnerInv /\ PartInv

LEMMA InitIInv == Init => IInv
<1> SUFFICES ASSUME Init PROVE IInv
  OBVIOUS
<1>1. TypeOK
  BY DEF Init, TypeOK, PCs, WorkStates
<1>2. \A c \in Calls : ~ Running(c) /\ ~ Waiting(c)
  BY DEF Init, Running, Waiting, RootTxns, RootWorks, Active
<1>3. TicketInv
  BY <1>2 DEF Init, TicketInv
<1>4. NewInv /\ ClosedInv /\ ScopeInv /\ LevelInv /\ PartInv
  BY DEF Init, NewInv, ClosedInv, ScopeInv, LevelInv, PartInv, RootTxns, RootWorks, Calls
<1> QED BY <1>1, <1>3, <1>4 DEF IInv, OwnerInv

LEMMA StepKeeps == ASSUME IInv, Next PROVE IInv'
<1>0. TypeOK /\ OwnerInv /\ PartInv /\ TicketInv
  BY DEF IInv, OwnerInv
<1>1. ASSUME NEW w \in Works,
             Issue(w) \/ Turn(w) \/ Use(w) \/ BatchGoesOn(w) \/ EndStream(w) \/ StreamCloses(w)
      PROVE  IInv'
  BY <1>0, <1>1, WorksType, WorksKeep DEF IInv
<1>2. ASSUME NEW t \in Txns,
             IssueTransaction(t) \/ TransactionTurn(t) \/ Nest(t) \/ Return(t) \/ Throw(t)
               \/ Commit(t) \/ Undo(t)
      PROVE  IInv'
  BY <1>0, <1>2, TransactionsType, TransactionsKeep DEF IInv
<1>3. ASSUME CloseCall \/ CloseQueues \/ CloseTurn PROVE IInv'
  BY <1>0, <1>3, CloseType, CloseKeeps DEF IInv
<1> QED BY <1>1, <1>2, <1>3 DEF Next

LEMMA StutterKeeps == ASSUME IInv, UNCHANGED vars PROVE IInv'
<1>1. TypeOK'
  BY DEF IInv, TypeOK, vars
<1>2. \A c \in Calls : (Running(c)' => Running(c)) /\ (Waiting(c)' => Waiting(c))
  BY DEF Running, Waiting, vars
<1>3. TicketInv'
  BY <1>2 DEF IInv, OwnerInv, TicketInv, vars
<1>4. NewInv' /\ ClosedInv' /\ ScopeInv' /\ LevelInv' /\ PartInv'
  BY <1>2 DEF IInv, OwnerInv, NewInv, ClosedInv, ScopeInv, LevelInv, PartInv, vars
<1> QED BY <1>1, <1>3, <1>4 DEF IInv, OwnerInv

LEMMA Inductive == Spec => []IInv
<1>1. IInv /\ [Next]_vars => IInv'
  BY StepKeeps, StutterKeeps
<1> QED BY InitIInv, <1>1, PTL DEF Spec

-------------------------------------------------------------------------------
\* The state of the queue, the scopes and the handle keeps its type; nothing
\* releases a turn it has not, and no batch goes past its last query
\* (runtime.ts:80-107, 246-263).
THEOREM TypeCorrect == Spec => []TypeOK
<1>1. IInv => TypeOK
  BY DEF IInv
<1> QED BY Inductive, <1>1, PTL

\* One root call at a time has the handle, none has it once the database is closed,
\* and a transaction is open on the handle only inside the root transaction that
\* has the turn (runtime.ts:80-107, 364-409).
THEOREM OneOwnerHolds == Spec => []OneOwner
<1>1. ASSUME IInv PROVE OneOwner
  <2>1. QueueType /\ TicketInv /\ ClosedInv /\ LevelInv
    BY <1>1, TypeParts DEF IInv, OwnerInv
  <2>2. \A c, d \in Calls : Running(c) /\ Running(d) => c = d
    BY <2>1, TurnIsAlone DEF TicketInv, HasTurn
  <2> QED BY <2>1, <2>2 DEF OneOwner, ClosedInv, LevelInv
<1> QED BY Inductive, <1>1, PTL

(***************************************************************************)
(* Durability: what fulfilled transactions have written is durable,        *)
(* provided that callbacks await their batches and that the engine does    *)
(* not roll back by itself where nested transactions are left running; and *)
(* nothing is executed for a transaction that has ended.                   *)
(***************************************************************************)

\* Without the first, the rest of a batch may be executed after COMMIT; without the
\* second, COMMIT may succeed although what it should commit was rolled back.
Disciplined ==
  /\ "batch" \notin Unawaited
  /\ ~ EngineRollsBack \/ "transaction" \notin Unawaited

NestedWorks  == Works \ RootWorks
Failed  == {"failing", "threw"}
Around(t) == Line[t] \ {t}

\* A transaction that has begun and whose parent can still go on
Live(t) == pc[t] \in Active /\ began[t] /\ \A a \in Around(t) : open[a]

\* Nothing was begun for a call that has not had its turn.
FreshInv == \A t \in Txns : pc[t] \in {"none", "queued", "refused"} => ~ began[t]

\* Those around a transaction have not ended before it, unless one of them fails.
LineInv ==
  \A t \in Txns : pc[t] \in Active =>
    (\A a \in Around(t) : open[a]) \/ \E a \in Around(t) : pc[a] \in Failed

\* Where callbacks await their transactions, nobody ends before its children.
KeptInv ==
  "transaction" \notin Unawaited =>
    \A t \in Txns \ RootTxns : pc[t] \in Active => pc[Parent[t]] = "running"

\* The live transactions are one in the other.
ChainInv ==
  \A t, u \in Txns : Live(t) /\ Live(u) =>
    (Depth[t] = Depth[u] => t = u) /\ (Depth[t] < Depth[u] => t \in Line[u])

\* A batch keeps its callback.
BatchInv ==
  \A w \in Works : work[w] = "busy" =>
    /\ Kind[w] = "batch"
    /\ w \in NestedWorks => pc[Owner[w]] = "running" /\ Children(Owner[w]) = {}

\* A scope that has written is in transactions that have begun.
StartedInv ==
  \A w \in NestedWorks : part[w] # 0 \/ work[w] = "busy" => \A a \in Line[Owner[w]] : began[a]

\* Savepoints belong to live transactions, or are above one that will roll them
\* back.  Those of a live transaction and of all in it are there, or none of them.
SavepointInv ==
  /\ \A d \in levels :
       \/ \E t \in Txns : Live(t) /\ Depth[t] = d
       \/ /\ "transaction" \in Unawaited
          /\ \E t \in Txns : Live(t) /\ pc[t] = "failing" /\ Depth[t] < d
  /\ \A t, u \in Txns :
       Live(t) /\ Live(u) /\ Depth[t] <= Depth[u] /\ Depth[t] \in levels => Depth[u] \in levels
  /\ ~ EngineRollsBack => \A t \in Txns : Live(t) => Depth[t] \in levels

\* The transaction that decides about what scope o has written: all within it are fulfilled.
Holder(h, o) ==
  /\ h \in Line[o] /\ pc[h] \in {"running", "returned"}
  /\ \A a \in Line[o] : pc[a] \in {"running", "returned", "fulfilled"}
  /\ \A a \in Line[o] : Depth[a] > Depth[h] => pc[a] = "fulfilled"

Safe(effect, h) == effect \in durable \/ \E d \in levels : d <= Depth[h] /\ effect \in pending[d]

\* The engine has what the holder decides about, unless it has dropped its savepoint.
HeldInv ==
  \A w \in NestedWorks : \A h \in Txns :
    Holder(h, Owner[w]) /\ Depth[h] \in levels => \A i \in 1..part[w] : Safe(<<w, i>>, h)

TreeInv == FreshInv /\ LineInv /\ KeptInv /\ ChainInv

DataInv == BatchInv /\ StartedInv /\ SavepointInv /\ HeldInv /\ SuccessIsDurable

USE ConstantsAssumption

-------------------------------------------------------------------------------
(* Live transactions *)

LEMMA AroundIs ==
  ASSUME NEW t \in Txns
  PROVE  /\ Around(t) \subseteq Txns /\ t \notin Around(t)
         /\ Around(t) = IF Parent[t] = Root THEN {} ELSE Line[Parent[t]]
         /\ \A a \in Around(t) : Depth[a] < Depth[t] /\ Line[a] \subseteq Around(t)
                                 /\ Around(a) \subseteq Around(t)
<1>1. Line[t] \subseteq Txns /\ t \in Line[t]
  BY Lines
<1>2. \A a \in Around(t) : Depth[a] < Depth[t]
  BY Shallower DEF Around
<1>3. ASSUME Parent[t] # Root, t \in Line[Parent[t]] PROVE FALSE
  <2>1. Parent[t] \in Txns /\ Depth[t] = Depth[Parent[t]] + 1
    BY <1>3, Lines
  <2>2. t = Parent[t] \/ Depth[t] < Depth[Parent[t]]
    BY <1>3, <2>1, Shallower
  <2> QED BY <2>1, <2>2
<1>4. Around(t) = IF Parent[t] = Root THEN {} ELSE Line[Parent[t]]
  BY <1>1, <1>3, Lines DEF Around
<1>5. ASSUME NEW a \in Around(t) PROVE Line[a] \subseteq Around(t)
  <2>1. Parent[t] # Root /\ a \in Line[Parent[t]] /\ Parent[t] \in Txns
    BY <1>4, <1>5, Lines
  <2>2. Line[a] \subseteq Line[Parent[t]]
    BY <2>1, LinesOfLines
  <2> QED BY <1>4, <2>1, <2>2
<1> QED BY <1>1, <1>2, <1>4, <1>5 DEF Around

\* A scope that may be used is live, and so are those around it.
LEMMA OpenIsLive ==
  ASSUME ScopeInv, NEW t \in Txns, \A a \in Line[t] : open[a]
  PROVE  \A a \in Line[t] : Live(a) /\ pc[a] = "running"
<1>1. Line[t] \subseteq Txns
  BY Lines
<1>2. \A a \in Line[t] : pc[a] = "running" /\ began[a]
  BY <1>1 DEF ScopeInv
<1>3. \A a \in Line[t] : Around(a) \subseteq Line[t]
  BY <1>1, LinesOfLines DEF Around
<1> QED BY <1>2, <1>3 DEF Live, Active

\* Between a live transaction and one in it there is an active child of it.
LEMMA ActiveChild ==
  ASSUME ScopeInv, NEW u \in Txns, pc[u] \in Active, NEW t \in Around(u),
         \A a \in Around(u) : open[a]
  PROVE  Children(t) # {}
<1>1. PICK c \in Line[u] : Parent[c] = t
  BY Through DEF Around
<1>2. c \in Txns /\ pc[c] \in Active
  BY <1>1, AroundIs, Lines DEF Around, ScopeInv, Active
<1> QED BY <1>1, <1>2 DEF Children

\* The innermost live transaction
LEMMA Deepest ==
  ASSUME ScopeInv, ChainInv, NEW t \in Txns, Live(t), Children(t) = {} \/ ~ open[t],
         NEW u \in Txns, Live(u)
  PROVE  u = t \/ (u \in Around(t) /\ Depth[u] < Depth[t] /\ pc[u] = "running")
<1>1. Depth[u] \in Nat /\ Depth[t] \in Nat
  OBVIOUS
<1>2. CASE Depth[u] > Depth[t]
  <2>1. t \in Around(u)
    BY <1>1, <1>2 DEF ChainInv, Around
  <2>2. open[t] /\ Children(t) # {}
    BY <2>1, ActiveChild DEF Live
  <2> QED BY <2>2
<1>3. CASE Depth[u] = Depth[t]
  BY <1>3 DEF ChainInv
<1>4. CASE Depth[u] < Depth[t]
  <2>1. u \in Around(t)
    BY <1>1, <1>4 DEF ChainInv, Around
  <2> QED BY <1>4, <2>1 DEF Live, ScopeInv
<1> QED BY <1>1, <1>2, <1>3, <1>4

\* No savepoint is above the one of the innermost live transaction, unless that fails.
LEMMA NoneAbove ==
  ASSUME EngineType, ScopeInv, ChainInv, SavepointInv,
         NEW t \in Txns, Live(t), Children(t) = {} \/ ~ open[t],
         pc[t] # "failing" \/ "transaction" \notin Unawaited
  PROVE  \A d \in levels : d \in Nat /\ d <= Depth[t]
<1> SUFFICES ASSUME NEW d \in levels PROVE d \in Nat /\ d <= Depth[t]
  OBVIOUS
<1>1. d \in Nat /\ Depth[t] \in Nat
  BY DEF EngineType, Depths
<1>2. ASSUME NEW u \in Txns, Live(u), Depth[u] = d PROVE d <= Depth[t]
  BY <1>1, <1>2, Deepest
<1>3. ASSUME NEW u \in Txns, Live(u), pc[u] = "failing", "transaction" \in Unawaited PROVE FALSE
  BY <1>3, Deepest
<1> QED BY <1>1, <1>2, <1>3 DEF SavepointInv

\* Who holds something is live.
LEMMA HolderIsLive ==
  ASSUME ScopeInv, LineInv, NEW o \in Txns, NEW h, Holder(h, o)
  PROVE  h \in Txns /\ Live(h)
<1>1. Line[o] \subseteq Txns /\ h \in Txns /\ Line[h] \subseteq Line[o]
  BY Lines, LinesOfLines DEF Holder
<1>2. \A a \in Around(h) : pc[a] \notin Failed
  BY <1>1 DEF Holder, Around, Failed
<1>3. pc[h] \in Active /\ began[h]
  BY <1>1 DEF Holder, Active, ScopeInv
<1> QED BY <1>1, <1>2, <1>3 DEF LineInv, Live

\* The COMMIT, RELEASE or ROLLBACK of a live transaction can be executed, and the
\* catch block tries it.
LEMMA LiveIsUsable ==
  ASSUME TicketInv, ClosedInv, ScopeInv, NEW t \in Txns, pc[t] \in Active, began[t]
  PROVE  Live(t) <=> ScopeIsOpen(Parent[t])
<1>1. Around(t) = IF Parent[t] = Root THEN {} ELSE Line[Parent[t]]
  BY AroundIs
<1>2. ASSUME Live(t) PROVE closing # "closed"
  <2>1. PICK r \in Line[t] : Parent[r] = Root
    BY RootOf
  <2>2. r \in Txns /\ pc[r] \in Active
    BY <1>2, <2>1, Lines DEF Live, Around, ScopeInv, Active
  <2>3. r \in Calls /\ Running(r)
    BY <2>1, <2>2, TxnCall
  <2> QED BY <2>3 DEF ClosedInv
<1> QED BY <1>1, <1>2 DEF Live, ScopeIsOpen

-------------------------------------------------------------------------------
(* A transaction begins. *)

\* Where transaction() may go on: those around t are open, and nobody else is live.
MayEnter(t) ==
  /\ pc[t] \in {"none", "queued"}
  /\ \A a \in Around(t) : open[a]
  /\ \A u \in Txns : Live(u) => u \in Around(t) /\ Depth[u] < Depth[t]
  /\ \A d \in levels : d < Depth[t]
  /\ \A w \in NestedWorks : work[w] = "busy" => Owner[w] # Parent[t]

LEMMA RootMayEnter ==
  ASSUME QueueType, TicketInv, ScopeInv, ChainInv, LevelInv,
         NEW t \in RootTxns, pc[t] = "queued", HasTurn(t)
  PROVE  MayEnter(t)
<1>1. t \in Txns /\ Parent[t] = Root /\ t \in Calls /\ Around(t) = {} /\ ~ Running(t)
  BY AroundIs, TxnCall DEF RootTxns, Active
<1>2. ASSUME NEW r \in RootTxns, pc[r] \in Active PROVE FALSE
  <2>1. r \in Txns /\ r \in Calls /\ Running(r)
    BY <1>2, TxnCall DEF RootTxns
  <2> QED BY <1>1, <2>1, TurnIsAlone
<1>3. ASSUME NEW u \in Txns, Live(u) PROVE FALSE
  <2>1. PICK r \in Line[u] : Parent[r] = Root
    BY RootOf
  <2>2. r \in RootTxns /\ pc[r] \in Active
    BY <1>3, <2>1, Lines DEF Live, Around, ScopeInv, Active, RootTxns
  <2> QED BY <1>2, <2>2
<1>4. levels = {}
  BY <1>2 DEF LevelInv
<1>5. \A w \in NestedWorks : Owner[w] # Root
  BY DEF NestedWorks, RootWorks
<1> QED BY <1>1, <1>3, <1>4, <1>5 DEF MayEnter

LEMMA NestedMayEnter ==
  ASSUME Disciplined, EngineType, ScopeInv, ChainInv, BatchInv, SavepointInv,
         NEW t \in Txns \ RootTxns, pc[t] = "none", Holds(Parent[t]), MayUse(Parent[t])
  PROVE  MayEnter(t)
<1>1. Parent[t] # Root /\ Parent[t] \in Txns /\ Around(t) = Line[Parent[t]]
      /\ Depth[t] = Depth[Parent[t]] + 1 /\ Depth[Parent[t]] \in Nat
  BY Lines, AroundIs DEF RootTxns
<1>2. (\A a \in Line[Parent[t]] : open[a]) /\ Children(Parent[t]) = {}
  BY <1>1 DEF MayUse, AssertOpen, ScopeIsOpen, AssertNoStream
<1>3. Live(Parent[t]) /\ pc[Parent[t]] = "running"
  BY <1>1, <1>2, OpenIsLive, Lines
<1>4. \A u \in Txns : Live(u) => u \in Around(t) /\ Depth[u] < Depth[t]
  BY <1>1, <1>2, <1>3, Deepest, Lines DEF Around
<1>5. \A d \in levels : d < Depth[t]
  BY <1>1, <1>2, <1>3, NoneAbove
<1>6. Batches(Parent[t]) = {}
  BY <1>3 DEF Holds, Free, Disciplined
<1>7. \A w \in NestedWorks : work[w] = "busy" => Owner[w] # Parent[t]
  BY <1>6 DEF Batches, BatchInv, NestedWorks
<1> QED BY <1>1, <1>2, <1>4, <1>5, <1>7 DEF MayEnter

\* What is known when t changes only its own place in transaction().
Aside(t) == \A u \in Txns \ {t} : pc'[u] = pc[u] /\ open'[u] = open[u] /\ began'[u] = began[u]

LEMMA EnterKeeps ==
  ASSUME Disciplined, TypeOK, ScopeInv, TreeInv, DataInv, NEW t \in Txns, MayEnter(t), Enter(t),
         UNCHANGED workVars
  PROVE  TreeInv' /\ DataInv'
<1>0. ScopeType /\ EngineType /\ FreshInv /\ LineInv /\ KeptInv /\ ChainInv
      /\ BatchInv /\ StartedInv /\ SavepointInv /\ HeldInv /\ SuccessIsDurable
  BY TypeParts DEF TreeInv, DataInv
<1>1. Aside(t) /\ ~ open[t] /\ ~ began[t] /\ pc[t] \in {"none", "queued"}
      /\ pc'[t] \in {"running", "failing"}
  BY <1>0 DEF Enter, ScopeType, Aside, MayEnter, ScopeInv, FreshInv
<1>2. UNCHANGED <<work, part>> /\ durable' = durable
  BY DEF Enter, Savepoint, workVars, engineVars
<1>3. \A u \in Txns : open[u] => u # t /\ open'[u] /\ pc[u] = "running" /\ pc'[u] = "running"
  BY <1>0, <1>1 DEF Aside, ScopeInv
<1>4. \A u \in Txns : Live(u) => u # t /\ Live(u)'
  BY <1>1, <1>3, AroundIs DEF Live, Aside, Active
<1>5. ASSUME NEW u \in Txns, u # t, Live(u)' PROVE Live(u)
  <2>1. pc[u] \in Active /\ began[u] /\ \A a \in Around(u) : open'[a]
    BY <1>1, <1>5 DEF Live, Aside
  <2>2. \A a \in Around(u) : pc[a] \notin Failed
    BY <1>0, <1>1, <2>1, AroundIs DEF Aside, ScopeInv, Failed
  <2> QED BY <1>0, <2>1, <2>2 DEF LineInv, Live
<1>6. FreshInv'
  BY <1>0, <1>1 DEF FreshInv, Aside
<1>7. LineInv'
  <2>1. \A a \in Around(t) : open'[a]
    BY <1>3, AroundIs DEF MayEnter
  <2>2. ASSUME NEW u \in Txns \ {t}, pc'[u] \in Active
        PROVE  (\A a \in Around(u) : open'[a]) \/ \E a \in Around(u) : pc'[a] \in Failed
    BY <1>0, <1>1, <1>3, <2>2, AroundIs DEF LineInv, Aside, Failed
  <2> QED BY <2>1, <2>2 DEF LineInv
<1>8. KeptInv'
  <2>1. ASSUME t \notin RootTxns PROVE pc'[Parent[t]] = "running"
    BY <1>3, <2>1, AroundIs, Lines DEF MayEnter, RootTxns
  <2>2. ASSUME NEW u \in Txns \ RootTxns, u # t, pc[u] \in Active, pc[Parent[u]] = "running"
        PROVE  pc'[Parent[u]] = "running"
    BY <1>1, <2>2, Lines DEF Aside, RootTxns
  <2> QED BY <1>0, <1>1, <2>1, <2>2 DEF KeptInv, Aside
<1>9. ChainInv'
  <2>1. \A u \in Txns : u # t /\ Live(u)' => Depth[u] < Depth[t] /\ u \in Line[t]
    BY <1>5 DEF MayEnter, Around
  <2> QED BY <1>0, <1>5, <2>1 DEF ChainInv
<1>10. BatchInv'
  BY <1>0, <1>1, <1>2 DEF BatchInv, NestedWorks, RootWorks, Aside, Children, Active, MayEnter
<1>11. StartedInv'
  BY <1>0, <1>1, <1>2, Lines DEF StartedInv, Aside, NestedWorks, RootWorks
<1>12. SuccessIsDurable'
  BY <1>0, <1>1, <1>2, Lines DEF SuccessIsDurable, Aside
<1>13. SavepointInv' /\ HeldInv'
  <2>1. CASE Savepoint(Depth[t]) /\ pc'[t] = "running"
    <3>1. levels' = levels \cup {Depth[t]} /\ \A d \in levels : pending'[d] = pending[d]
      BY <1>0, <2>1 DEF Savepoint, MayEnter, EngineType
    <3>2. Live(t)'
      BY <1>0, <1>3, <2>1, AroundIs DEF Live, MayEnter, Enter, ScopeType, Active
    <3>3. ASSUME NEW d \in levels'
          PROVE  \/ \E u \in Txns : Live(u)' /\ Depth[u] = d
                 \/ /\ "transaction" \in Unawaited
                    /\ \E u \in Txns : Live(u)' /\ pc'[u] = "failing" /\ Depth[u] < d
      BY <1>0, <1>1, <1>4, <3>1, <3>2 DEF SavepointInv, Aside
    <3>4. ASSUME NEW x \in Txns, NEW y \in Txns, Live(x)', Live(y)', Depth[x] <= Depth[y],
                 Depth[x] \in levels'
          PROVE  Depth[y] \in levels'
      <4>1. CASE y = t
        BY <3>1, <4>1
      <4>2. CASE y # t
        <5>1. Live(y) /\ Depth[y] < Depth[t]
          BY <1>5, <3>4, <4>2 DEF MayEnter
        <5>2. x # t /\ Depth[x] \in levels
          BY <3>1, <3>4, <5>1
        <5> QED BY <1>0, <1>5, <3>1, <3>4, <5>1, <5>2 DEF SavepointInv
      <4> QED BY <4>1, <4>2
    <3>5. ~ EngineRollsBack => \A u \in Txns : Live(u)' => Depth[u] \in levels'
      BY <1>0, <1>5, <3>1 DEF SavepointInv
    <3>6. ASSUME NEW w \in NestedWorks, NEW h \in Txns, Holder(h, Owner[w])', Depth[h] \in levels',
                 NEW i \in 1..part[w]
          PROVE  Safe(<<w, i>>, h)'
      <4>1. t \notin Line[Owner[w]]
        BY <1>0, <1>1 DEF StartedInv
      <4>2. Owner[w] \in Txns
        BY DEF NestedWorks, RootWorks
      <4>3. Holder(h, Owner[w])
        BY <1>1, <3>6, <4>1, <4>2, Lines DEF Holder, Aside
      <4>4. Live(h) /\ Depth[h] < Depth[t]
        BY <1>0, <4>2, <4>3, HolderIsLive DEF MayEnter
      <4>5. Safe(<<w, i>>, h)
        BY <1>0, <3>1, <3>6, <4>3, <4>4 DEF HeldInv
      <4> QED BY <1>2, <3>1, <4>5 DEF Safe
    <3>7. SavepointInv'
      BY <3>3, <3>4, <3>5 DEF SavepointInv
    <3>8. HeldInv'
      BY <1>2, <3>6 DEF HeldInv
    <3> QED BY <3>7, <3>8
  <2>2. CASE pc'[t] = "failing" /\ UNCHANGED <<open, began, engineVars>>
    <3>1. ~ Live(t)'
      BY <1>1, <2>2 DEF Live
    <3>2. \A u \in Txns : Live(u)' <=> Live(u)
      BY <1>4, <1>5, <3>1
    <3>3. SavepointInv'
      BY <1>0, <1>1, <1>4, <2>2, <3>2 DEF SavepointInv, Aside, engineVars
    <3>4. ASSUME NEW w \in NestedWorks, NEW h \in Txns, Holder(h, Owner[w])' PROVE Holder(h, Owner[w])
      <4>1. Owner[w] \in Txns
        BY DEF NestedWorks, RootWorks
      <4> QED BY <1>1, <2>2, <3>4, <4>1, Lines DEF Holder, Aside
    <3>5. HeldInv'
      BY <1>0, <1>2, <2>2, <3>4 DEF HeldInv, Safe, engineVars
    <3> QED BY <3>3, <3>5
  <2> QED BY <1>0, <2>1, <2>2 DEF Enter, ScopeType
<1> QED BY <1>6, <1>7, <1>8, <1>9, <1>10, <1>11, <1>12, <1>13 DEF TreeInv, DataInv

-------------------------------------------------------------------------------
(* A transaction is refused, or waits. *)

LEMMA RefusalKeeps ==
  ASSUME ScopeType, TreeInv, DataInv, NEW t \in Txns, pc[t] \in {"none", "queued"},
         Aside(t), pc'[t] \in {"queued", "refused"},
         UNCHANGED <<open, began, workVars, engineVars>>
  PROVE  TreeInv' /\ DataInv'
<1>0. FreshInv /\ LineInv /\ KeptInv /\ ChainInv
      /\ BatchInv /\ StartedInv /\ SavepointInv /\ HeldInv /\ SuccessIsDurable
  BY DEF TreeInv, DataInv
<1>1. UNCHANGED <<open, began, work, part, levels, pending, durable>>
  BY DEF workVars, engineVars
<1>2. \A u \in Txns : pc[u] \in Active \cup Failed \cup {"fulfilled"} \/ pc'[u] \in Active \cup Failed \cup {"fulfilled"}
        => pc'[u] = pc[u]
  BY DEF Aside, Active, Failed
<1>3. \A u \in Txns : Live(u)' <=> Live(u)
  BY <1>1, <1>2 DEF Live, Active
<1>4. FreshInv'
  BY <1>0, <1>1 DEF FreshInv, Aside
<1>5. LineInv'
  BY <1>0, <1>1, <1>2, AroundIs DEF LineInv
<1>6. KeptInv'
  BY <1>0, <1>2, Lines DEF KeptInv, RootTxns, Active
<1>7. ChainInv'
  BY <1>0, <1>3 DEF ChainInv
<1>8. BatchInv'
  BY <1>0, <1>1, <1>2 DEF BatchInv, NestedWorks, RootWorks, Children, Active
<1>9. StartedInv'
  BY <1>0, <1>1 DEF StartedInv
<1>10. SavepointInv'
  BY <1>0, <1>1, <1>2, <1>3 DEF SavepointInv, Failed, Live
<1>11. \A w \in NestedWorks, h \in Txns : Holder(h, Owner[w])' => Holder(h, Owner[w])
  <2>1. \A w \in NestedWorks : Owner[w] \in Txns
    BY DEF NestedWorks, RootWorks
  <2> QED BY <1>2, <2>1, Lines DEF Holder, Active
<1>12. HeldInv' /\ SuccessIsDurable'
  BY <1>0, <1>1, <1>2, <1>11, Lines DEF HeldInv, Safe, SuccessIsDurable
<1> QED BY <1>4, <1>5, <1>6, <1>7, <1>8, <1>9, <1>10, <1>12 DEF TreeInv, DataInv

-------------------------------------------------------------------------------
(* A callback ends. *)

LEMMA CallbackKeeps ==
  ASSUME Disciplined, ScopeType, WorkType, EngineType, ScopeInv, TreeInv, DataInv, NEW t \in Txns,
         Return(t) \/ Throw(t)
  PROVE  TreeInv' /\ DataInv'
<1>0. FreshInv /\ LineInv /\ KeptInv /\ ChainInv
      /\ BatchInv /\ StartedInv /\ SavepointInv /\ HeldInv /\ SuccessIsDurable
  BY DEF TreeInv, DataInv
<1>1. /\ pc[t] = "running" /\ Free(t) /\ Aside(t) /\ pc'[t] \in {"failing", "returned"}
      /\ pc'[t] = "returned" => Children(t) = {}
  BY DEF Return, Throw, Leaked, CallbackEnds, ScopeType, Aside
<1>2. UNCHANGED <<began, part, levels, pending, durable>> /\ began[t]
  BY <1>1 DEF Return, Throw, CallbackEnds, engineVars, ScopeInv
<1>3. ~ open'[t] /\ \A u \in Txns : u # t => open'[u] = open[u]
  BY <1>1 DEF Return, Throw, CallbackEnds, ScopeType, Aside
<1>4. \A u \in Txns : pc'[u] \in Active <=> pc[u] \in Active
  BY <1>1 DEF Aside, Active
<1>5. \A w \in Works : work'[w] = "busy" => work[w] = "busy"
  BY DEF Return, Throw, CallbackEnds, CloseStreams, WorkType
<1>6. \A u \in Txns : Live(u)' => Live(u)
  BY <1>2, <1>3, <1>4, AroundIs DEF Live
<1>7. ASSUME NEW u \in Txns, pc[u] \in Active, \A a \in Around(u) : open[a], t \in Around(u)
      PROVE  Children(t) # {} /\ pc'[t] = "failing" /\ "transaction" \in Unawaited
  BY <1>1, <1>7, ActiveChild DEF Free
<1>8. FreshInv'
  BY <1>0, <1>1, <1>2 DEF FreshInv, Aside
<1>9. LineInv'
  <2> SUFFICES ASSUME NEW u \in Txns, pc[u] \in Active
               PROVE  (\A a \in Around(u) : open'[a]) \/ \E a \in Around(u) : pc'[a] \in Failed
    BY <1>4 DEF LineInv
  <2>1. CASE \A a \in Around(u) : open[a]
    <3>1. CASE t \in Around(u)
      BY <1>7, <2>1, <3>1 DEF Failed
    <3>2. CASE t \notin Around(u)
      BY <1>3, <2>1, <3>2, AroundIs
    <3> QED BY <3>1, <3>2
  <2>2. CASE \E a \in Around(u) : pc[a] \in Failed
    BY <1>1, <2>2, AroundIs DEF Failed, Aside
  <2> QED BY <1>0, <2>1, <2>2 DEF LineInv
<1>10. KeptInv'
  <2> SUFFICES ASSUME "transaction" \notin Unawaited, NEW u \in Txns \ RootTxns, pc[u] \in Active
               PROVE  pc'[Parent[u]] = "running"
    BY <1>4 DEF KeptInv
  <2>1. pc[Parent[u]] = "running" /\ Parent[u] \in Txns
    BY <1>0, Lines DEF KeptInv, RootTxns
  <2>2. Parent[u] # t
    BY <1>1 DEF Free, Children
  <2> QED BY <1>1, <2>1, <2>2 DEF Aside
<1>11. ChainInv'
  BY <1>0, <1>6 DEF ChainInv
<1>12. BatchInv'
  <2> SUFFICES ASSUME NEW w \in Works, work[w] = "busy"
               PROVE  /\ Kind[w] = "batch"
                      /\ w \in NestedWorks => pc'[Owner[w]] = "running" /\ Children(Owner[w])' = {}
    BY <1>5 DEF BatchInv
  <2>1. Kind[w] = "batch" /\ (w \in NestedWorks => pc[Owner[w]] = "running" /\ Children(Owner[w]) = {})
    BY <1>0 DEF BatchInv
  <2>2. Owner[w] # t
    BY <1>1, <2>1 DEF Free, Batches, Disciplined
  <2>3. w \in NestedWorks => Owner[w] \in Txns
    BY DEF NestedWorks, RootWorks
  <2>4. Children(Owner[w])' = Children(Owner[w])
    BY <1>4 DEF Children
  <2> QED BY <1>1, <2>1, <2>2, <2>3, <2>4 DEF Aside
<1>13. StartedInv' /\ SuccessIsDurable'
  BY <1>0, <1>1, <1>2, <1>5, Lines DEF StartedInv, SuccessIsDurable, Aside, NestedWorks
<1>14. SavepointInv'
  <2>1. ASSUME NEW d \in levels
        PROVE  \/ \E u \in Txns : Live(u)' /\ Depth[u] = d
               \/ /\ "transaction" \in Unawaited
                  /\ \E u \in Txns : Live(u)' /\ pc'[u] = "failing" /\ Depth[u] < d
    <3>1. ASSUME NEW u \in Txns, Live(u), t \notin Around(u) PROVE Live(u)'
      BY <1>2, <1>3, <1>4, <3>1, AroundIs DEF Live
    <3>2. ASSUME NEW u \in Txns, Live(u), t \in Around(u)
          PROVE  /\ Live(t)' /\ pc'[t] = "failing" /\ "transaction" \in Unawaited
                 /\ Depth[t] < Depth[u]
      <4>1. pc'[t] = "failing" /\ "transaction" \in Unawaited
        BY <1>7, <3>2 DEF Live
      <4>2. t \notin Around(t) /\ Around(t) \subseteq Around(u) /\ Depth[t] < Depth[u]
            /\ Around(t) \subseteq Txns
        BY <3>2, AroundIs
      <4>3. Live(t)'
        <5>1. \A a \in Around(t) : a # t /\ open[a] /\ open'[a]
          BY <1>3, <3>2, <4>2 DEF Live
        <5> QED BY <1>2, <4>1, <5>1 DEF Live, Active
      <4> QED BY <4>1, <4>2, <4>3
    <3>4. CASE \E u \in Txns : Live(u) /\ Depth[u] = d
      BY <3>1, <3>2, <3>4
    <3>5. CASE /\ "transaction" \in Unawaited
               /\ \E u \in Txns : Live(u) /\ pc[u] = "failing" /\ Depth[u] < d
      <4>1. PICK u \in Txns : Live(u) /\ pc[u] = "failing" /\ Depth[u] < d
        BY <3>5
      <4>2. pc'[u] = "failing"
        BY <1>1, <4>1 DEF Aside
      <4>3. CASE t \notin Around(u)
        BY <3>1, <3>5, <4>1, <4>2, <4>3
      <4>4. CASE t \in Around(u)
        <5>1. Live(t)' /\ pc'[t] = "failing" /\ Depth[t] < Depth[u]
          BY <3>2, <4>1, <4>4
        <5>2. d \in Nat /\ Depth[t] \in Nat /\ Depth[u] \in Nat
          BY DEF EngineType, Depths
        <5> QED BY <3>5, <4>1, <5>1, <5>2
      <4> QED BY <4>3, <4>4
    <3> QED BY <1>0, <3>4, <3>5 DEF SavepointInv
  <2> QED BY <1>0, <1>2, <1>6, <2>1 DEF SavepointInv
<1>15. HeldInv'
  <2>1. ASSUME NEW w \in NestedWorks, NEW h \in Txns, Holder(h, Owner[w])' PROVE Holder(h, Owner[w])
    <3>1. Owner[w] \in Txns
      BY DEF NestedWorks, RootWorks
    <3> QED BY <1>1, <2>1, <3>1, Lines DEF Holder, Aside
  <2> QED BY <1>0, <1>2, <2>1 DEF HeldInv, Safe
<1> QED BY <1>8, <1>9, <1>10, <1>11, <1>12, <1>13, <1>14, <1>15 DEF TreeInv, DataInv

-------------------------------------------------------------------------------
(* A transaction ends. *)

LEMMA EndKeepsTree ==
  ASSUME ScopeInv, TreeInv, BatchInv, StartedInv, NEW t \in Txns,
         pc[t] \in {"returned", "failing"}, Aside(t), pc'[t] \in {"failing", "fulfilled", "threw"},
         pc[t] = "failing" => pc'[t] = "threw", UNCHANGED <<open, began, work, part>>
  PROVE  /\ TreeInv' /\ BatchInv' /\ StartedInv'
         /\ \A u \in Txns \ {t} : Live(u)' <=> Live(u)
         /\ Live(t)' <=> Live(t) /\ pc'[t] = "failing"
<1>0. FreshInv /\ LineInv /\ KeptInv /\ ChainInv
  BY DEF TreeInv
<1>1. \A u \in Txns \ {t} : Live(u)' <=> Live(u)
  BY AroundIs DEF Live, Aside
<1>2. Live(t)' <=> Live(t) /\ pc'[t] = "failing"
  BY AroundIs DEF Live, Active
<1>3. FreshInv'
  BY <1>0 DEF FreshInv, Aside
<1>4. LineInv'
  <2> SUFFICES ASSUME NEW u \in Txns, pc[u] \in Active
               PROVE  (\A a \in Around(u) : open'[a]) \/ \E a \in Around(u) : pc'[a] \in Failed
    BY DEF LineInv, Aside, Active
  <2>1. CASE \E a \in Around(u) : pc[a] \in Failed
    BY <2>1, AroundIs DEF Aside, Failed
  <2> QED BY <1>0, <2>1 DEF LineInv
<1>5. KeptInv'
  BY <1>0, Lines DEF KeptInv, RootTxns, Aside, Active
<1>6. ChainInv'
  BY <1>0, <1>1, <1>2 DEF ChainInv
<1>7. BatchInv'
  <2>1. ASSUME NEW w \in NestedWorks, work[w] = "busy"
        PROVE  pc'[Owner[w]] = "running" /\ Children(Owner[w])' = {}
    <3>1. Owner[w] \in Txns /\ w \in Works
      BY DEF NestedWorks, RootWorks
    <3>2. pc[Owner[w]] = "running" /\ Children(Owner[w]) = {}
      BY <2>1, <3>1 DEF BatchInv
    <3> QED BY <3>1, <3>2 DEF Aside, Children, Active
  <2> QED BY <2>1 DEF BatchInv
<1>8. StartedInv'
  BY DEF StartedInv
<1> QED BY <1>1, <1>2, <1>3, <1>4, <1>5, <1>6, <1>7, <1>8 DEF TreeInv

\* Its savepoint and all above it are gone, and so is it.
LEMMA EndLowers ==
  ASSUME EngineType, ScopeInv, ChainInv, SavepointInv, NEW t \in Txns, Live(t), ~ open[t],
         Aside(t), ~ Live(t)', \A u \in Txns \ {t} : Live(u)' <=> Live(u),
         levels' = {e \in levels : e < Depth[t]}
  PROVE  SavepointInv' /\ \A u \in Txns \ {t} : Live(u) => Depth[u] < Depth[t]
<1>0. \A u \in Txns \ {t} : Live(u) => u \in Around(t) /\ Depth[u] < Depth[t] /\ pc[u] = "running"
  BY Deepest
<1>1. \A d \in levels : d \in Nat
  BY DEF EngineType, Depths
<1>2. ASSUME NEW d \in levels, d < Depth[t]
      PROVE  \E u \in Txns : Live(u)' /\ Depth[u] = d
  <2>1. CASE \E u \in Txns : Live(u) /\ Depth[u] = d
    BY <1>2, <2>1
  <2>2. CASE \E u \in Txns : Live(u) /\ pc[u] = "failing" /\ Depth[u] < d
    <3>1. PICK u \in Txns : Live(u) /\ pc[u] = "failing" /\ Depth[u] < d
      BY <2>2
    <3>2. u = t
      BY <1>0, <3>1
    <3> QED BY <1>1, <1>2, <3>1, <3>2
  <2> QED BY <2>1, <2>2 DEF SavepointInv
<1>3. \A x, y \in Txns :
        Live(x)' /\ Live(y)' /\ Depth[x] <= Depth[y] /\ Depth[x] \in levels' => Depth[y] \in levels'
  BY <1>0 DEF SavepointInv
<1>4. ~ EngineRollsBack => \A u \in Txns : Live(u)' => Depth[u] \in levels'
  BY <1>0 DEF SavepointInv
<1> QED BY <1>0, <1>2, <1>3, <1>4 DEF SavepointInv

LEMMA UndoKeeps ==
  ASSUME Disciplined, TypeOK, OwnerInv, TreeInv, DataInv, NEW t \in Txns, Undo(t)
  PROVE  TreeInv' /\ DataInv'
<1>0. ScopeType /\ EngineType /\ TicketInv /\ ClosedInv /\ ScopeInv /\ LineInv /\ ChainInv
      /\ BatchInv /\ StartedInv /\ SavepointInv /\ HeldInv /\ SuccessIsDurable
  BY TypeParts DEF OwnerInv, TreeInv, DataInv
<1>1. /\ pc[t] = "failing" /\ pc'[t] = "threw" /\ Aside(t) /\ ~ open[t]
      /\ UNCHANGED <<open, began, work, part>>
  BY <1>0 DEF Undo, ScopeType, Aside, workVars, ScopeInv
<1>2. /\ TreeInv' /\ BatchInv' /\ StartedInv'
      /\ \A u \in Txns \ {t} : Live(u)' <=> Live(u)
      /\ ~ Live(t)'
  BY <1>0, <1>1, EndKeepsTree
<1>3. Undoes(t) <=> Live(t)
  BY <1>0, <1>1, LiveIsUsable DEF Undoes, Live, Active
<1>4. ASSUME NEW w \in NestedWorks, NEW h \in Txns, Holder(h, Owner[w])'
      PROVE  Holder(h, Owner[w]) /\ Live(h) /\ h # t
  <2>1. Owner[w] \in Txns
    BY DEF NestedWorks, RootWorks
  <2>2. t \notin Line[Owner[w]]
    BY <1>1, <1>4 DEF Holder
  <2>3. Holder(h, Owner[w]) /\ h # t
    BY <1>1, <1>4, <2>1, <2>2, Lines DEF Holder, Aside
  <2> QED BY <1>0, <2>1, <2>3, HolderIsLive
<1>5. durable' = durable
  BY DEF Undo, Rollback, engineVars
<1>6. SuccessIsDurable'
  BY <1>0, <1>1, <1>5, Lines DEF SuccessIsDurable, Aside
<1>7. CASE Live(t) /\ Knows(Depth[t])
  <2>1. Rollback(Depth[t])
    BY <1>3, <1>7 DEF Undo
  <2>2. levels' = {e \in levels : e < Depth[t]} /\ pending' = Cleared(Depth[t])
    BY <2>1 DEF Rollback
  <2>3. SavepointInv' /\ \A u \in Txns \ {t} : Live(u) => Depth[u] < Depth[t]
    BY <1>0, <1>1, <1>2, <1>7, <2>2, EndLowers
  <2>4. \A d \in levels' : d \in Nat /\ pending'[d] = pending[d]
    BY <1>0, <2>2 DEF Cleared, EngineType, Depths
  <2>5. HeldInv'
    <3> SUFFICES ASSUME NEW w \in NestedWorks, NEW h \in Txns, Holder(h, Owner[w])',
                        Depth[h] \in levels', NEW i \in 1..part[w]
                 PROVE  Safe(<<w, i>>, h)'
      BY <1>1 DEF HeldInv
    <3>1. Safe(<<w, i>>, h)
      BY <1>0, <1>4, <2>2 DEF HeldInv
    <3>2. \A d \in levels : d <= Depth[h] => d \in levels'
      BY <1>0, <1>4, <2>2, <2>3 DEF EngineType, Depths
    <3> QED BY <1>5, <2>4, <3>1, <3>2 DEF Safe
  <2> QED BY <1>2, <1>6, <2>3, <2>5 DEF DataInv
<1>8. CASE ~ (Live(t) /\ Knows(Depth[t]))
  <2>1. UNCHANGED <<levels, pending, durable>>
    BY <1>3, <1>8 DEF Undo, engineVars
  <2>2. Live(t) => Depth[t] \notin levels
    BY <1>8 DEF Knows
  <2>3. ASSUME Live(t) PROVE "transaction" \notin Unawaited
    BY <1>0, <2>2, <2>3 DEF Disciplined, SavepointInv
  <2>4. \A d \in levels' :
          \/ \E u \in Txns : Live(u)' /\ Depth[u] = d
          \/ /\ "transaction" \in Unawaited
             /\ \E u \in Txns : Live(u)' /\ pc'[u] = "failing" /\ Depth[u] < d
    BY <1>0, <1>1, <1>2, <2>1, <2>2, <2>3 DEF SavepointInv, Aside
  <2>5. SavepointInv'
    BY <1>0, <1>2, <2>1, <2>4 DEF SavepointInv
  <2>6. HeldInv'
    BY <1>0, <1>1, <1>4, <2>1 DEF HeldInv, Safe
  <2> QED BY <1>2, <1>6, <2>5, <2>6 DEF DataInv
<1> QED BY <1>7, <1>8

\* COMMIT or RELEASE of the innermost savepoint: what was written since goes to
\* the next one, or becomes durable where there is none.
LEMMA MergeMoves ==
  ASSUME EngineType, NEW t \in Txns, Depth[t] \in levels,
         \A d \in levels : d \in Nat /\ d <= Depth[t], Merge(Depth[t])
  PROVE  /\ levels' = {e \in levels : e < Depth[t]}
         /\ durable \subseteq durable'
         /\ \A e \in levels' : pending[e] \subseteq pending'[e]
         /\ \/ pending[Depth[t]] \subseteq durable'
            \/ \E o \in levels' : pending[Depth[t]] \subseteq pending'[o]
         /\ levels' = {} => pending[Depth[t]] \subseteq durable'
<1> DEFINE around == {e \in levels : e < Depth[t]}
<1>1. levels' = around
  BY DEF Merge
<1>2. pending[Depth[t]] \subseteq Since(Depth[t])
  BY DEF Since
<1>3. \A e \in around : e \in Depths /\ Cleared(Depth[t])[e] = pending[e]
  BY DEF EngineType, Cleared
<1>4. CASE around = {}
  BY <1>1, <1>2, <1>4 DEF Merge
<1>5. CASE around # {}
  <2>1. PICK o \in around : pending' = [Cleared(Depth[t]) EXCEPT ![o] = @ \cup Since(Depth[t])]
    BY <1>5 DEF Merge
  <2>2. durable' = durable
    BY <1>5 DEF Merge
  <2>3. Cleared(Depth[t]) \in [Depths -> SUBSET Effects]
    BY ClearedType
  <2>4. pending'[o] = pending[o] \cup Since(Depth[t])
    BY <1>3, <2>1, <2>3
  <2>5. \A e \in around : pending[e] \subseteq pending'[e]
    BY <1>3, <2>1, <2>3, <2>4
  <2> QED BY <1>1, <1>2, <1>5, <2>2, <2>4, <2>5
<1> QED BY <1>4, <1>5

LEMMA CommitKeeps ==
  ASSUME Disciplined, TypeOK, OwnerInv, TreeInv, DataInv, NEW t \in Txns, Commit(t)
  PROVE  TreeInv' /\ DataInv'
<1>0. ScopeType /\ EngineType /\ TicketInv /\ ClosedInv /\ ScopeInv /\ LineInv /\ ChainInv
      /\ BatchInv /\ StartedInv /\ SavepointInv /\ HeldInv /\ SuccessIsDurable
  BY TypeParts DEF OwnerInv, TreeInv, DataInv
<1>1. /\ pc[t] = "returned" /\ pc'[t] \in {"fulfilled", "failing"} /\ Aside(t) /\ ~ open[t]
      /\ UNCHANGED <<open, began, work, part>>
  BY <1>0 DEF Commit, ScopeType, Aside, workVars, ScopeInv
<1>2. /\ TreeInv' /\ BatchInv' /\ StartedInv'
      /\ \A u \in Txns \ {t} : Live(u)' <=> Live(u)
      /\ Live(t)' <=> Live(t) /\ pc'[t] = "failing"
  BY <1>0, <1>1, EndKeepsTree
<1>3. \A w \in NestedWorks : Owner[w] \in Txns
  BY DEF NestedWorks, RootWorks
<1>4. CASE pc'[t] = "failing" /\ UNCHANGED engineVars
  <2>1. UNCHANGED <<levels, pending, durable>>
    BY <1>4 DEF engineVars
  <2>2. SavepointInv'
    BY <1>0, <1>1, <1>2, <1>4, <2>1 DEF SavepointInv, Aside
  <2>3. ASSUME NEW w \in NestedWorks, NEW h \in Txns, Holder(h, Owner[w])' PROVE Holder(h, Owner[w])
    BY <1>1, <1>3, <1>4, <2>3, Lines DEF Holder, Aside
  <2>4. HeldInv'
    BY <1>0, <1>1, <2>1, <2>3 DEF HeldInv, Safe
  <2>5. SuccessIsDurable'
    BY <1>0, <1>1, <1>4, <2>1, Lines DEF SuccessIsDurable, Aside
  <2> QED BY <1>2, <2>2, <2>4, <2>5 DEF DataInv
<1>5. CASE ScopeIsOpen(Parent[t]) /\ Knows(Depth[t]) /\ Merge(Depth[t]) /\ pc'[t] = "fulfilled"
  <2>1. Live(t) /\ ~ Live(t)'
    BY <1>0, <1>1, <1>2, <1>5, LiveIsUsable DEF ScopeInv, Active
  <2>2. \A d \in levels : d \in Nat /\ d <= Depth[t]
    BY <1>0, <1>1, <2>1, NoneAbove
  <2>3. Depth[t] \in levels
    BY <1>0, <1>5, <2>2 DEF Knows, EngineType, Depths
  <2>4. /\ levels' = {e \in levels : e < Depth[t]}
        /\ durable \subseteq durable'
        /\ \A e \in levels' : pending[e] \subseteq pending'[e]
        /\ \/ pending[Depth[t]] \subseteq durable'
           \/ \E o \in levels' : pending[Depth[t]] \subseteq pending'[o]
        /\ levels' = {} => pending[Depth[t]] \subseteq durable'
    BY <1>0, <1>5, <2>2, <2>3, MergeMoves
  <2>5. SavepointInv' /\ \A u \in Txns \ {t} : Live(u) => Depth[u] < Depth[t]
    BY <1>0, <1>1, <1>2, <2>1, <2>4, EndLowers
  <2>6. Parent[t] # Root => /\ Parent[t] \in Txns /\ Depth[t] = Depth[Parent[t]] + 1
                            /\ pc[Parent[t]] = "running" /\ Parent[t] # t
                            /\ \A o \in Txns : t \in Line[o] => Parent[t] \in Line[o]
    <3>1. ASSUME Parent[t] # Root PROVE Parent[t] \in Around(t) /\ Parent[t] \in Txns
      BY <3>1, AroundIs, Lines
    <3>2. Parent[t] # Root => pc[Parent[t]] = "running"
      BY <1>0, <2>1, <3>1 DEF Live, ScopeInv
    <3> QED BY <1>1, <3>1, <3>2, Lines, LinesOfLines DEF Around
  <2>7. ASSUME NEW w \in NestedWorks, t \in Line[Owner[w]],
               \A a \in Line[Owner[w]] : pc'[a] \in {"running", "returned", "fulfilled"},
               \A a \in Line[Owner[w]] : Depth[a] > Depth[t] => pc'[a] = "fulfilled"
        PROVE  \A i \in 1..part[w] : Safe(<<w, i>>, t)
    <3>1. Holder(t, Owner[w])
      BY <1>1, <1>3, <2>7, Lines DEF Holder, Aside
    <3> QED BY <1>0, <2>3, <3>1 DEF HeldInv
  <2>8. HeldInv'
    <3> SUFFICES ASSUME NEW w \in NestedWorks, NEW h \in Txns, Holder(h, Owner[w])',
                        Depth[h] \in levels', NEW i \in 1..part[w]
                 PROVE  Safe(<<w, i>>, h)'
      BY <1>1 DEF HeldInv
    <3>1. h # t /\ Owner[w] \in Txns /\ Line[Owner[w]] \subseteq Txns /\ h \in Line[Owner[w]]
      BY <1>3, <1>5, Lines DEF Holder
    <3>2. \A a \in Line[Owner[w]] : pc[a] \in {"running", "returned", "fulfilled"}
      BY <1>1, <3>1 DEF Holder, Aside
    <3>3. Live(h) /\ pc[h] \in {"running", "returned"}
      <4>1. pc[h] \in {"running", "returned"} /\ Line[h] \subseteq Line[Owner[w]]
        BY <1>1, <3>1, LinesOfLines DEF Holder, Aside
      <4>2. \A a \in Around(h) : pc[a] \notin Failed
        BY <3>2, <4>1 DEF Around, Failed
      <4> QED BY <1>0, <4>1, <4>2 DEF Live, LineInv, ScopeInv, Active
    <3>4. Depth[h] < Depth[t] /\ Depth[h] \in Nat /\ Depth[t] \in Nat /\ Depth[h] \in levels
      BY <2>4, <2>5, <3>1, <3>3
    <3>5. CASE t \notin Line[Owner[w]]
      <4>1. Holder(h, Owner[w])
        BY <1>1, <3>1, <3>5 DEF Holder, Aside
      <4>2. Safe(<<w, i>>, h)
        BY <1>0, <3>4, <4>1 DEF HeldInv
      <4>3. \A d \in levels : d <= Depth[h] => d \in levels'
        BY <2>2, <2>4, <3>4
      <4> QED BY <2>4, <4>2, <4>3 DEF Safe
    <3>6. CASE t \in Line[Owner[w]]
      <4>1. Depth[t] = Depth[h] + 1
        <5>1. Parent[t] # Root
          BY <3>4, Lines
        <5>2. Parent[t] \in Line[Owner[w]] /\ pc'[Parent[t]] = "running"
          BY <1>1, <2>6, <3>1, <3>6, <5>1 DEF Aside
        <5>3. ~ (Depth[Parent[t]] > Depth[h])
          BY <5>2 DEF Holder
        <5> QED BY <2>6, <3>4, <5>1, <5>3
      <4>2. Safe(<<w, i>>, t)
        <5>1. \A a \in Line[Owner[w]] : Depth[a] \in Nat
          BY <3>1
        <5>2. \A a \in Line[Owner[w]] : pc'[a] \in {"running", "returned", "fulfilled"}
          BY DEF Holder
        <5>3. \A a \in Line[Owner[w]] : Depth[a] > Depth[t] => pc'[a] = "fulfilled"
          BY <3>4, <5>1 DEF Holder
        <5> QED BY <2>7, <3>6, <5>2, <5>3
      <4>3. \A d \in levels' : d <= Depth[h]
        BY <2>2, <2>4, <4>1, <3>4
      <4>4. \A d \in levels : d = Depth[t] \/ d \in levels'
        BY <2>2, <2>4
      <4> QED BY <2>4, <4>2, <4>3, <4>4 DEF Safe
    <3> QED BY <3>5, <3>6
  <2>9. SuccessIsDurable'
    <3> SUFFICES ASSUME NEW w \in Works, NEW i \in 1..part[w],
                        Owner[w] = Root \/ \A a \in Line[Owner[w]] : pc'[a] = "fulfilled"
                 PROVE  <<w, i>> \in durable'
      BY <1>1 DEF SuccessIsDurable
    <3>1. CASE Owner[w] = Root
      BY <1>0, <2>4, <3>1 DEF SuccessIsDurable
    <3>2. CASE Owner[w] # Root /\ t \notin Line[Owner[w]]
      <4>1. Owner[w] \in Txns
        BY <3>2
      <4>2. \A a \in Line[Owner[w]] : pc[a] = "fulfilled"
        BY <1>1, <3>2, <4>1, Lines DEF Aside
      <4> QED BY <1>0, <2>4, <4>2 DEF SuccessIsDurable
    <3>3. CASE Owner[w] # Root /\ t \in Line[Owner[w]]
      <4>1. w \in NestedWorks /\ Owner[w] \in Txns
        BY <3>3 DEF NestedWorks, RootWorks
      <4>2. Parent[t] = Root
        BY <1>1, <2>6, <3>3, <4>1 DEF Aside
      <4>3. Depth[t] = 1 /\ \A d \in levels : d = 1
        BY <1>0, <2>2, <4>2, Lines DEF EngineType, Depths
      <4>4. Safe(<<w, i>>, t)
        BY <2>7, <3>3, <4>1
      <4>5. pending[1] \subseteq durable'
        BY <2>4, <4>3
      <4> QED BY <2>4, <4>3, <4>4, <4>5 DEF Safe
    <3> QED BY <3>1, <3>2, <3>3
  <2> QED BY <1>2, <2>5, <2>8, <2>9 DEF DataInv
<1> QED BY <1>0, <1>4, <1>5 DEF Commit, ScopeType

-------------------------------------------------------------------------------
(* Queries, batches and streams *)

\* A step that executes nothing
LEMMA QuietKeeps ==
  ASSUME TreeInv, DataInv, UNCHANGED <<scopeVars, part, engineVars>>,
         \A w \in Works : work'[w] = "busy" => work[w] = "busy"
  PROVE  TreeInv' /\ DataInv'
<1>0. FreshInv /\ LineInv /\ KeptInv /\ ChainInv
      /\ BatchInv /\ StartedInv /\ SavepointInv /\ HeldInv /\ SuccessIsDurable
  BY DEF TreeInv, DataInv
<1>1. UNCHANGED <<pc, open, began, part, levels, pending, durable>>
  BY DEF scopeVars, engineVars
<1>2. \A u \in Txns : Live(u)' <=> Live(u)
  BY <1>1 DEF Live
<1>3. FreshInv' /\ LineInv' /\ KeptInv'
  BY <1>0, <1>1 DEF FreshInv, LineInv, KeptInv
<1>4. ChainInv'
  BY <1>0, <1>2 DEF ChainInv
<1>5. BatchInv'
  BY <1>0, <1>1 DEF BatchInv, Children
<1>6. StartedInv'
  BY <1>0, <1>1 DEF StartedInv, NestedWorks
<1>7. SavepointInv'
  BY <1>0, <1>1, <1>2 DEF SavepointInv
<1>8. HeldInv' /\ SuccessIsDurable'
  BY <1>0, <1>1 DEF HeldInv, Holder, Safe, SuccessIsDurable
<1> QED BY <1>3, <1>4, <1>5, <1>6, <1>7, <1>8 DEF TreeInv, DataInv

\* A statement writes into the savepoint of the scope that executes it.
LEMMA InsertKeeps ==
  ASSUME EngineType, ScopeInv, LineInv, ChainInv, SavepointInv, HeldInv, SuccessIsDurable,
         NEW w \in Works, part[w] \in Nat, \A v \in Works : part[v] \in Nat,
         part' = [part EXCEPT ![w] = @ + 1], part \in [Works -> Nat],
         UNCHANGED scopeVars, Insert(<<w, part[w] + 1>>),
         Owner[w] = Root => levels = {},
         Owner[w] # Root => pc[Owner[w]] = "running" /\ Children(Owner[w]) = {}
  PROVE  SavepointInv' /\ HeldInv' /\ SuccessIsDurable'
<1>1. UNCHANGED <<pc, open, began, levels>> /\ durable \subseteq durable'
  BY DEF scopeVars, Insert
<1>2. \A d \in levels : pending[d] \subseteq pending'[d]
  BY DEF Insert, EngineType
<1>3. \A v \in Works \ {w} : part'[v] = part[v]
  OBVIOUS
<1>4. part'[w] = part[w] + 1 /\ \A i \in 1..part'[w] : i \in 1..part[w] \/ i = part[w] + 1
  OBVIOUS
<1>5. SavepointInv'
  BY <1>1 DEF SavepointInv, Live
<1>6. HeldInv'
  <2> SUFFICES ASSUME NEW v \in NestedWorks, NEW h \in Txns, Holder(h, Owner[v]),
                      Depth[h] \in levels, NEW i \in 1..part'[v]
               PROVE  Safe(<<v, i>>, h)'
    BY <1>1 DEF HeldInv, Holder
  <2>1. v \in Works /\ Owner[v] \in Txns
    BY DEF NestedWorks, RootWorks
  <2>2. ASSUME i \in 1..part[v] PROVE Safe(<<v, i>>, h)'
    <3>1. Safe(<<v, i>>, h)
      BY <2>2 DEF HeldInv
    <3> QED BY <1>1, <1>2, <3>1 DEF Safe
  <2>3. CASE v = w /\ i = part[w] + 1
    <3>1. pc[Owner[w]] = "running" /\ Children(Owner[w]) = {}
      BY <2>1, <2>3
    <3>2. h = Owner[w]
      <4>1. Owner[w] \in Line[Owner[w]] /\ h \in Line[Owner[w]]
        BY <2>1, <2>3, Lines DEF Holder
      <4>2. ~ (Depth[Owner[w]] > Depth[h])
        BY <2>3, <3>1, <4>1 DEF Holder
      <4> QED BY <2>1, <2>3, <4>1, <4>2, Shallower
    <3>3. Live(h)
      BY <2>1, HolderIsLive
    <3>4. \A d \in levels : d \in Nat /\ d <= Depth[h]
      BY <3>1, <3>2, <3>3, NoneAbove
    <3>5. PICK d \in levels : Innermost(d) /\ pending' = [pending EXCEPT ![d] = @ \cup {<<w, part[w] + 1>>}]
      BY DEF Insert
    <3>6. d = Depth[h]
      BY <3>4, <3>5 DEF Innermost
    <3>7. <<w, part[w] + 1>> \in pending'[d]
      BY <3>5 DEF EngineType
    <3> QED BY <1>1, <2>3, <3>4, <3>7 DEF Safe
  <2> QED BY <1>3, <1>4, <2>1, <2>2, <2>3
<1>7. SuccessIsDurable'
  <2> SUFFICES ASSUME NEW v \in Works, NEW i \in 1..part'[v],
                      Owner[v] = Root \/ \A a \in Line[Owner[v]] : pc[a] = "fulfilled"
               PROVE  <<v, i>> \in durable'
    BY <1>1 DEF SuccessIsDurable
  <2>1. ASSUME i \in 1..part[v] PROVE <<v, i>> \in durable'
    BY <1>1, <2>1 DEF SuccessIsDurable
  <2>2. CASE v = w /\ i = part[w] + 1
    <3>1. Owner[w] = Root
      BY <2>2, Lines
    <3> QED BY <2>2, <3>1 DEF Insert
  <2> QED BY <1>3, <1>4, <2>1, <2>2
<1> QED BY <1>5, <1>6, <1>7

LEMMA StatementKeeps ==
  ASSUME TypeOK, ScopeInv, TreeInv, DataInv, NEW w \in Works, MayStep(w), Statement(w),
         UNCHANGED scopeVars,
         Owner[w] = Root => levels = {},
         Owner[w] # Root => /\ pc[Owner[w]] = "running" /\ Children(Owner[w]) = {}
                            /\ \A a \in Line[Owner[w]] : began[a]
  PROVE  TreeInv' /\ DataInv'
<1>0. WorkType /\ EngineType /\ LineInv /\ ChainInv
      /\ BatchInv /\ StartedInv /\ SavepointInv /\ HeldInv /\ SuccessIsDurable
  BY TypeParts DEF TreeInv, DataInv
<1>1. UNCHANGED <<pc, open, began>>
  BY DEF scopeVars
<1>2. \A v \in Works \ {w} : work'[v] = work[v]
  BY <1>0 DEF Statement, WorkType
<1>3. TreeInv'
  BY <1>1 DEF TreeInv, FreshInv, LineInv, KeptInv, ChainInv, Live
<1>4. CASE /\ Insert(<<w, part[w] + 1>>)
           /\ part' = [part EXCEPT ![w] = @ + 1]
           /\ IF part[w] + 1 = Size[w]
              THEN work' = [work EXCEPT ![w] = "done"]
              ELSE work' = [work EXCEPT ![w] = "busy"]
  <2>1. part \in [Works -> Nat] /\ \A v \in Works : part[v] \in Nat
    BY <1>0 DEF WorkType
  <2>2. SavepointInv' /\ HeldInv' /\ SuccessIsDurable'
    BY <1>0, <1>4, <2>1, InsertKeeps
  <2>3. work'[w] = "busy" => Kind[w] = "batch"
    BY <1>0, <1>4, <2>1 DEF WorkType, MayStep
  <2>4. BatchInv'
    BY <1>0, <1>1, <1>2, <2>3 DEF BatchInv, Children, NestedWorks, RootWorks
  <2>5. StartedInv'
    BY <1>0, <1>1, <1>2, <1>4, <2>1 DEF StartedInv, NestedWorks, RootWorks
  <2> QED BY <1>3, <2>2, <2>4, <2>5 DEF DataInv
<1>5. CASE StatementFails /\ work' = [work EXCEPT ![w] = "failed"] /\ UNCHANGED part
  <2>1. \A v \in Works : work'[v] = "busy" => work[v] = "busy"
    BY <1>0, <1>5 DEF WorkType
  <2>2. CASE UNCHANGED engineVars
    BY <1>5, <2>1, <2>2, QuietKeeps
  <2>3. CASE EngineRollsBack /\ Rollback(1)
    <3>1. durable' = durable /\ levels' = {}
      <4>1. \A d \in levels : ~ (d < 1)
        BY <1>0 DEF EngineType, Depths
      <4> QED BY <2>3, <4>1 DEF Rollback
    <3>2. BatchInv'
      BY <1>0, <1>1, <2>1 DEF BatchInv, Children
    <3>3. StartedInv' /\ SuccessIsDurable'
      BY <1>0, <1>1, <1>5, <2>1, <3>1 DEF StartedInv, SuccessIsDurable, NestedWorks
    <3>4. SavepointInv' /\ HeldInv'
      BY <2>3, <3>1 DEF SavepointInv, HeldInv
    <3> QED BY <1>3, <3>2, <3>3, <3>4 DEF DataInv
  <2> QED BY <1>5, <2>2, <2>3 DEF StatementFails
<1> QED BY <1>4, <1>5 DEF Statement

LEMMA WorksKeepData ==
  ASSUME Disciplined, TypeOK, OwnerInv, PartInv, TreeInv, DataInv, NEW w \in Works,
         Issue(w) \/ Turn(w) \/ Use(w) \/ BatchGoesOn(w) \/ EndStream(w) \/ StreamCloses(w)
  PROVE  TreeInv' /\ DataInv'
<1>0. QueueType /\ WorkType /\ EngineType /\ TicketInv /\ ScopeInv /\ LevelInv
      /\ BatchInv /\ StartedInv
  BY TypeParts DEF OwnerInv, DataInv
<1>1. ASSUME Owner[w] = Root, HasTurn(w) PROVE levels = {}
  <2>1. ASSUME NEW r \in RootTxns, pc[r] \in Active PROVE FALSE
    <3>1. r \in Txns /\ r \in Calls /\ Running(r)
      BY <2>1, TxnCall DEF RootTxns
    <3>2. w \in Calls /\ w \notin Txns
      BY <1>1, WorkCall
    <3> QED BY <1>0, <1>1, <3>1, <3>2, TurnIsAlone
  <2> QED BY <1>0, <2>1 DEF LevelInv
<1>2. ASSUME UNCHANGED <<scopeVars, part, engineVars>>, NEW state \in WorkStates \ {"busy"},
             work' = [work EXCEPT ![w] = state]
      PROVE  TreeInv' /\ DataInv'
  <2>1. \A v \in Works : work'[v] = "busy" => work[v] = "busy"
    BY <1>0, <1>2 DEF WorkType
  <2> QED BY <1>2, <2>1, QuietKeeps
<1>3. ASSUME Start(w), work[w] \in {"new", "queued"}, UNCHANGED scopeVars,
             Owner[w] = Root => HasTurn(w),
             Owner[w] # Root => Holds(Owner[w]) /\ MayUse(Owner[w])
      PROVE  TreeInv' /\ DataInv'
  <2>1. CASE w \in Streams
    BY <1>2, <1>3, <2>1 DEF Start, OpenStream, WorkStates
  <2>2. CASE w \notin Streams
    <3>1. ASSUME Owner[w] # Root
          PROVE  /\ pc[Owner[w]] = "running" /\ Children(Owner[w]) = {}
                 /\ \A a \in Line[Owner[w]] : began[a]
      <4>1. Owner[w] \in Txns /\ Children(Owner[w]) = {} /\ \A a \in Line[Owner[w]] : open[a]
        BY <1>3, <3>1 DEF MayUse, AssertOpen, ScopeIsOpen, AssertNoStream
      <4>2. \A a \in Line[Owner[w]] : Live(a) /\ pc[a] = "running"
        BY <1>0, <4>1, OpenIsLive
      <4> QED BY <4>1, <4>2, Lines DEF Live
    <3>2. MayStep(w) /\ Statement(w)
      BY <1>3, <2>2, FirstStep DEF Start
    <3> QED BY <1>0, <1>1, <1>3, <3>1, <3>2, StatementKeeps
  <2> QED BY <2>1, <2>2
<1>4. CASE Issue(w)
  BY <1>2, <1>4 DEF Issue, WorkStates
<1>5. CASE Turn(w)
  <2>1. CASE Start(w)
    BY <1>3, <1>5, <2>1, WorkCall DEF Turn
  <2>2. CASE work' = [work EXCEPT ![w] = "refused"] /\ UNCHANGED <<part, engineVars>>
    BY <1>2, <1>5, <2>2 DEF Turn, WorkStates
  <2> QED BY <1>5, <2>1, <2>2 DEF Turn
<1>6. CASE Use(w)
  <2>1. CASE MayUse(Owner[w]) /\ Start(w)
    BY <1>3, <1>6, <2>1, WorkCall DEF Use
  <2>2. CASE work' = [work EXCEPT ![w] = "refused"] /\ UNCHANGED <<part, engineVars>>
    BY <1>2, <1>6, <2>2 DEF Use, WorkStates
  <2> QED BY <1>6, <2>1, <2>2 DEF Use
<1>7. CASE BatchGoesOn(w)
  <2>1. MayStep(w) /\ Statement(w) /\ UNCHANGED scopeVars /\ work[w] = "busy"
    BY <1>0, <1>7, BusyStep DEF BatchGoesOn
  <2>2. Owner[w] = Root => levels = {}
    BY <1>1, <2>1 DEF MayStep
  <2>3. Owner[w] # Root => /\ pc[Owner[w]] = "running" /\ Children(Owner[w]) = {}
                           /\ \A a \in Line[Owner[w]] : began[a]
    BY <1>0, <2>1 DEF BatchInv, StartedInv, NestedWorks, RootWorks
  <2> QED BY <1>0, <2>1, <2>2, <2>3, StatementKeeps
<1>8. CASE EndStream(w)
  BY <1>2, <1>8 DEF EndStream, WorkStates
<1>9. CASE StreamCloses(w)
  BY <1>2, <1>9 DEF StreamCloses, WorkStates
<1> QED BY <1>4, <1>5, <1>6, <1>7, <1>8, <1>9

-------------------------------------------------------------------------------
(* Transactions *)

LEMMA TransactionsKeepData ==
  ASSUME Disciplined, TypeOK, OwnerInv, TreeInv, DataInv, NEW t \in Txns,
         IssueTransaction(t) \/ TransactionTurn(t) \/ Nest(t) \/ Return(t) \/ Throw(t)
           \/ Commit(t) \/ Undo(t)
  PROVE  TreeInv' /\ DataInv'
<1>0. QueueType /\ ScopeType /\ WorkType /\ EngineType /\ TicketInv /\ ScopeInv /\ LevelInv
      /\ ChainInv /\ BatchInv /\ SavepointInv
  BY TypeParts DEF OwnerInv, TreeInv, DataInv
<1>1. ASSUME pc[t] \in {"none", "queued"}, NEW state \in {"queued", "refused"},
             pc' = [pc EXCEPT ![t] = state], UNCHANGED <<open, began, workVars, engineVars>>
      PROVE  TreeInv' /\ DataInv'
  <2>1. Aside(t) /\ pc'[t] \in {"queued", "refused"}
    BY <1>0, <1>1 DEF Aside, ScopeType
  <2> QED BY <1>0, <1>1, <2>1, RefusalKeeps
<1>2. CASE IssueTransaction(t)
  BY <1>1, <1>2 DEF IssueTransaction
<1>3. CASE TransactionTurn(t)
  <2>1. t \in RootTxns /\ pc[t] = "queued" /\ HasTurn(t) /\ UNCHANGED workVars
    BY <1>3 DEF TransactionTurn
  <2>2. CASE Enter(t)
    BY <1>0, <2>1, <2>2, RootMayEnter, EnterKeeps
  <2>3. CASE pc' = [pc EXCEPT ![t] = "refused"] /\ UNCHANGED <<open, began, engineVars>>
    BY <1>1, <2>1, <2>3
  <2> QED BY <1>3, <2>2, <2>3 DEF TransactionTurn
<1>4. CASE Nest(t)
  <2>1. t \in Txns \ RootTxns /\ pc[t] = "none" /\ Holds(Parent[t]) /\ UNCHANGED workVars
    BY <1>4 DEF Nest
  <2>2. CASE MayUse(Parent[t]) /\ Enter(t)
    BY <1>0, <2>1, <2>2, NestedMayEnter, EnterKeeps
  <2>3. CASE pc' = [pc EXCEPT ![t] = "refused"] /\ UNCHANGED <<open, began, engineVars>>
    BY <1>1, <2>1, <2>3
  <2> QED BY <1>4, <2>2, <2>3 DEF Nest
<1>5. CASE Return(t) \/ Throw(t)
  BY <1>0, <1>5, CallbackKeeps
<1>6. CASE Commit(t)
  BY <1>6, CommitKeeps
<1>7. CASE Undo(t)
  BY <1>7, UndoKeeps
<1> QED BY <1>2, <1>3, <1>4, <1>5, <1>6, <1>7

-------------------------------------------------------------------------------
DurabilityInv == IInv /\ TreeInv /\ DataInv

LEMMA InitDurability == Init => DurabilityInv
<1> SUFFICES ASSUME Init PROVE DurabilityInv
  OBVIOUS
<1>1. IInv
  BY InitIInv
<1>2. FreshInv /\ LineInv /\ KeptInv /\ ChainInv
  BY DEF Init, FreshInv, LineInv, KeptInv, ChainInv, Live, Active
<1>3. BatchInv /\ StartedInv
  BY DEF Init, BatchInv, StartedInv, NestedWorks
<1>4. SavepointInv
  BY DEF Init, SavepointInv, Live
<1>5. HeldInv /\ SuccessIsDurable
  BY DEF Init, HeldInv, SuccessIsDurable, NestedWorks
<1> QED BY <1>1, <1>2, <1>3, <1>4, <1>5 DEF DurabilityInv, TreeInv, DataInv

LEMMA StepKeepsDurability == ASSUME Disciplined, DurabilityInv, Next PROVE DurabilityInv'
<1>0. IInv /\ TypeOK /\ OwnerInv /\ PartInv /\ TreeInv /\ DataInv
  BY DEF DurabilityInv, IInv
<1>1. IInv'
  BY <1>0, StepKeeps
<1>2. ASSUME NEW w \in Works,
             Issue(w) \/ Turn(w) \/ Use(w) \/ BatchGoesOn(w) \/ EndStream(w) \/ StreamCloses(w)
      PROVE  TreeInv' /\ DataInv'
  BY <1>0, <1>2, WorksKeepData
<1>3. ASSUME NEW t \in Txns,
             IssueTransaction(t) \/ TransactionTurn(t) \/ Nest(t) \/ Return(t) \/ Throw(t)
               \/ Commit(t) \/ Undo(t)
      PROVE  TreeInv' /\ DataInv'
  BY <1>0, <1>3, TransactionsKeepData
<1>4. ASSUME CloseCall \/ CloseQueues \/ CloseTurn PROVE TreeInv' /\ DataInv'
  <2>1. UNCHANGED <<scopeVars, part, engineVars>>
    BY <1>4 DEF CloseCall, CloseQueues, CloseTurn, workVars
  <2>2. \A w \in Works : work'[w] = "busy" => work[w] = "busy"
    BY <1>4 DEF CloseCall, CloseQueues, CloseTurn, workVars, CloseStreams
  <2> QED BY <1>0, <2>1, <2>2, QuietKeeps
<1> QED BY <1>1, <1>2, <1>3, <1>4 DEF Next, DurabilityInv

LEMMA StutterKeepsDurability == ASSUME DurabilityInv, UNCHANGED vars PROVE DurabilityInv'
<1>1. IInv'
  BY StutterKeeps DEF DurabilityInv
<1>2. UNCHANGED <<scopeVars, part, engineVars>> /\ UNCHANGED work
  BY DEF vars, scopeVars, engineVars
<1>3. TreeInv' /\ DataInv'
  BY <1>2, QuietKeeps DEF DurabilityInv
<1> QED BY <1>1, <1>3 DEF DurabilityInv

\* What a fulfilled transaction has written is durable, unless one around it was
\* not fulfilled, and what a call on the database has written is durable: in any
\* tree of transactions, whichever children fail and are caught, leave streams or
\* are left running, as long as batches are awaited, and either the engine rolls
\* nothing back by itself or nested transactions are awaited
\* (runtime.ts:246-263, 301-388).
THEOREM DurabilityHolds == ASSUME Disciplined PROVE Spec => []SuccessIsDurable
<1>1. DurabilityInv /\ [Next]_vars => DurabilityInv'
  BY StepKeepsDurability, StutterKeepsDurability
<1>2. DurabilityInv => SuccessIsDurable
  BY DEF DurabilityInv, DataInv
<1> QED BY InitDurability, <1>1, <1>2, PTL DEF Spec

-------------------------------------------------------------------------------
(* Nothing after the end *)

\* No batch can be left running, by its callback or together with it.
NoStrayBatch == Unawaited = {} \/ \A w \in NestedWorks : Kind[w] # "batch"

KindInv == \A w \in Works : work[w] = "busy" => Kind[w] = "batch"

EndInv == IInv /\ KindInv /\ (Unawaited = {} => DurabilityInv)

\* Where children are awaited, all around a running callback are running callbacks.
LEMMA AllRun ==
  ASSUME KeptInv, "transaction" \notin Unawaited, NEW t \in Txns, pc[t] = "running"
  PROVE  \A a \in Line[t] : pc[a] = "running"
<1> DEFINE T == {u \in Txns : pc[u] = "running" /\ \E b \in Line[u] : pc[b] # "running"}
<1>1. ASSUME T # {} PROVE FALSE
  <2>1. PICK u \in T : \A v \in T : Depth[u] <= Depth[v]
    BY <1>1, Shallowest
  <2>2. PICK b \in Line[u] : pc[b] # "running"
    OBVIOUS
  <2>3. Parent[u] # Root /\ Parent[u] \in Txns /\ Depth[u] = Depth[Parent[u]] + 1
        /\ b \in Line[Parent[u]]
    BY <2>2, Lines
  <2>4. pc[Parent[u]] = "running"
    BY <2>3 DEF KeptInv, RootTxns, Active
  <2> QED BY <2>1, <2>2, <2>3, <2>4
<1> QED BY <1>1

LEMMA KindStep ==
  ASSUME TypeOK, OwnerInv, PartInv, KindInv, NEW w \in Works,
         Issue(w) \/ Turn(w) \/ Use(w) \/ BatchGoesOn(w) \/ EndStream(w) \/ StreamCloses(w)
  PROVE  KindInv'
<1>0. WorkType /\ TicketInv
  BY TypeParts DEF OwnerInv
<1>1. ASSUME Statement(w), MayStep(w) PROVE KindInv'
  <2>1. \A v \in Works \ {w} : work'[v] = work[v]
    BY <1>0, <1>1 DEF Statement, WorkType
  <2>2. work'[w] = "busy" => part[w] + 1 # Size[w]
    BY <1>0, <1>1 DEF Statement, WorkType
  <2>3. work'[w] = "busy" => Kind[w] = "batch"
    BY <1>0, <1>1, <2>2 DEF MayStep, WorkType
  <2> QED BY <2>1, <2>3 DEF KindInv
<1>2. ASSUME Start(w), work[w] \in {"new", "queued"}, Owner[w] = Root => HasTurn(w) PROVE KindInv'
  BY <1>0, <1>1, <1>2, FirstStep DEF Start, OpenStream, WorkType, KindInv
<1>3. ASSUME work[w] = "busy", Statement(w) PROVE KindInv'
  BY <1>0, <1>1, <1>3, BusyStep
<1>4. ASSUME NEW state \in WorkStates \ {"busy"}, work' = [work EXCEPT ![w] = state] PROVE KindInv'
  BY <1>0, <1>4 DEF WorkType, KindInv
<1>5. CASE Turn(w)
  BY <1>2, <1>4, <1>5 DEF Turn, WorkStates
<1>6. CASE Use(w)
  BY <1>2, <1>4, <1>6, WorkCall DEF Use, WorkStates
<1>7. CASE Issue(w) \/ EndStream(w) \/ StreamCloses(w)
  BY <1>4, <1>7 DEF Issue, EndStream, StreamCloses, WorkStates
<1> QED BY <1>3, <1>5, <1>6, <1>7 DEF BatchGoesOn

LEMMA EndAlways == Spec => []EndInv
<1>1. Init => EndInv
  BY InitIInv, InitDurability DEF EndInv, KindInv, Init
<1>2. ASSUME EndInv, Next PROVE EndInv'
  <2>1. IInv' /\ (Unawaited = {} => DurabilityInv')
    BY <1>2, StepKeeps, StepKeepsDurability DEF EndInv, Disciplined
  <2>2. ASSUME NEW t \in Txns,
               IssueTransaction(t) \/ TransactionTurn(t) \/ Nest(t) \/ Return(t) \/ Throw(t)
                 \/ Commit(t) \/ Undo(t)
        PROVE  KindInv'
    BY <1>2, <2>2 DEF IssueTransaction, TransactionTurn, Nest, Return, Throw, CallbackEnds, Commit,
         Undo, workVars, CloseStreams, EndInv, KindInv
  <2>3. ASSUME CloseCall \/ CloseQueues \/ CloseTurn PROVE KindInv'
    BY <1>2, <2>3 DEF CloseCall, CloseQueues, CloseTurn, workVars, CloseStreams, EndInv, KindInv
  <2> QED BY <1>2, <2>1, <2>2, <2>3, KindStep DEF Next, EndInv, IInv
<1>3. ASSUME EndInv, UNCHANGED vars PROVE EndInv'
  BY <1>3, StutterKeeps, StutterKeepsDurability DEF EndInv, KindInv, vars
<1> QED BY <1>1, <1>2, <1>3, PTL DEF Spec

\* A work whose owner has ended, or whose database is closed
Over(w) == closing = "closed" \/ (Owner[w] # Root /\ \E a \in Line[Owner[w]] : Ended(a))

NothingRuns ==
  \A w \in Works : Over(w) => part'[w] = part[w] /\ ~ (work[w] # "open" /\ work'[w] = "open")

LEMMA WorkStops ==
  ASSUME NoStrayBatch, EndInv, NEW w \in Works,
         Issue(w) \/ Turn(w) \/ Use(w) \/ BatchGoesOn(w) \/ EndStream(w) \/ StreamCloses(w)
  PROVE  NothingRuns
<1>0. WorkType /\ TicketInv /\ ClosedInv /\ ScopeInv /\ KindInv
  BY TypeParts DEF EndInv, IInv, OwnerInv
<1>1. ASSUME Over(w) PROVE part'[w] = part[w] /\ ~ (work[w] # "open" /\ work'[w] = "open")
  <2>1. CASE Issue(w) \/ EndStream(w) \/ StreamCloses(w)
    BY <1>0, <2>1 DEF Issue, EndStream, StreamCloses, WorkType
  <2>2. CASE Turn(w)
    <3>1. closing = "closed"
      BY <1>1, <2>2 DEF Over, Turn, RootWorks
    <3> QED BY <1>0, <2>2, <3>1 DEF Turn, AssertOpen, ScopeIsOpen, WorkType
  <2>3. CASE Use(w)
    <3>1. ~ MayUse(Owner[w])
      <4>1. ASSUME MayUse(Owner[w]) PROVE FALSE
        <5>1. closing # "closed" /\ Owner[w] \in Txns /\ \A a \in Line[Owner[w]] : open[a]
          BY <2>3, <4>1 DEF Use, MayUse, AssertOpen, ScopeIsOpen, RootWorks
        <5>2. PICK a \in Line[Owner[w]] : Ended(a)
          BY <1>1, <5>1 DEF Over
        <5> QED BY <1>0, <5>1, <5>2, Lines DEF ScopeInv, Ended
      <4> QED BY <4>1
    <3> QED BY <1>0, <2>3, <3>1 DEF Use, WorkType
  <2>4. CASE BatchGoesOn(w)
    <3>1. work[w] = "busy" /\ Kind[w] = "batch"
      BY <1>0, <2>4 DEF BatchGoesOn, KindInv
    <3>2. CASE Owner[w] = Root
      BY <1>0, <1>1, <3>1, <3>2, WorkCall DEF Over, ClosedInv
    <3>3. CASE Owner[w] # Root
      <4>1. w \in NestedWorks /\ Owner[w] \in Txns
        BY <3>3 DEF NestedWorks, RootWorks
      <4>2. Unawaited = {} /\ BatchInv /\ KeptInv
        BY <3>1, <4>1 DEF NoStrayBatch, EndInv, DurabilityInv, TreeInv, DataInv
      <4>3. pc[Owner[w]] = "running"
        BY <3>1, <4>1, <4>2 DEF BatchInv
      <4>4. \A a \in Line[Owner[w]] : pc[a] = "running"
        BY <4>1, <4>2, <4>3, AllRun
      <4>5. PICK r \in Line[Owner[w]] : Parent[r] = Root
        BY <4>1, RootOf
      <4>6. r \in Calls /\ Running(r)
        BY <4>1, <4>4, <4>5, Lines, TxnCall DEF Active
      <4> QED BY <1>0, <1>1, <4>4, <4>6 DEF Over, Ended, ClosedInv
    <3> QED BY <3>2, <3>3
  <2> QED BY <2>1, <2>2, <2>3, <2>4
<1>2. \A v \in Works \ {w} : work'[v] = work[v] /\ part'[v] = part[v]
  BY <1>0 DEF Issue, Turn, Use, BatchGoesOn, EndStream, StreamCloses, Start, OpenStream, Statement,
       WorkType
<1> QED BY <1>1, <1>2 DEF NothingRuns

\* Once a transaction has ended, or close() has settled, nothing is executed for it
\* or for anything nested in it, and no stream is opened: where no batch can be left
\* running, whatever streams, queries and nested transactions are
\* (runtime.ts:213, 246, 266, 417-424).
THEOREM NothingAfterEndHolds == ASSUME NoStrayBatch PROVE Spec => NothingAfterEnd
<1>1. EndInv /\ [Next]_vars => [NothingRuns]_vars
  <2> SUFFICES ASSUME EndInv, Next PROVE NothingRuns
    BY DEF vars
  <2>1. ASSUME NEW t \in Txns,
               IssueTransaction(t) \/ TransactionTurn(t) \/ Nest(t) \/ Return(t) \/ Throw(t)
                 \/ Commit(t) \/ Undo(t)
        PROVE  NothingRuns
    BY <2>1 DEF IssueTransaction, TransactionTurn, Nest, Return, Throw, CallbackEnds, Commit, Undo,
         workVars, CloseStreams, NothingRuns
  <2>2. ASSUME CloseCall \/ CloseQueues \/ CloseTurn PROVE NothingRuns
    BY <2>2 DEF CloseCall, CloseQueues, CloseTurn, workVars, CloseStreams, NothingRuns
  <2> QED BY <2>1, <2>2, WorkStops DEF Next
<1> QED BY EndAlways, <1>1, PTL DEF Spec, NothingAfterEnd, NothingRuns, Over

-------------------------------------------------------------------------------
(***************************************************************************)
(* Refinement: the runtime implements NestedTransactions.                  *)
(***************************************************************************)
\* A transaction that nothing has ended: it is live in the abstract specification,
\* even where the callbacks around it have returned or thrown.
Alive(t) == began[t] /\ pc[t] # "fulfilled" /\ ~ Gone(t)

\* A transaction begins inside those around it.
BeganInv == \A t \in Txns : began[t] => \A a \in Line[t] : began[a]

RunningInv == \A t \in Txns : pc[t] = "running" => open[t]

\* A transaction that succeeds leaves no child behind.
UpInv == \A t \in Txns \ RootTxns : pc[t] \in Active => pc[Parent[t]] \in {"running", "failing", "threw"}

\* The transactions that are alive are one in the other.
AliveInv ==
  \A t, u \in Txns : Alive(t) /\ Alive(u) =>
    (Depth[t] = Depth[u] => t = u) /\ (Depth[t] < Depth[u] => t \in Line[u])

NestInv == BeganInv /\ RunningInv /\ UpInv /\ AliveInv

LEMMA AliveIsActive == ASSUME ScopeType, FreshInv, NEW t \in Txns, Alive(t) PROVE pc[t] \in Active
<1>1. pc[t] \in PCs /\ pc[t] \notin {"none", "queued", "refused", "fulfilled"}
  BY DEF Alive, FreshInv, ScopeType
<1>2. pc[t] # "threw"
  BY Lines DEF Alive, Gone
<1> QED BY <1>1, <1>2 DEF PCs, Active

LEMMA LiveIsAlive ==
  ASSUME ScopeInv, NEW t \in Txns, Live(t) PROVE Alive(t)
<1>1. \A a \in Around(t) : pc[a] = "running"
  BY AroundIs DEF Live, ScopeInv
<1> QED BY <1>1 DEF Live, Alive, Gone, Around, Active

\* Around what is alive, all are.
LEMMA AliveUp ==
  ASSUME ScopeType, FreshInv, BeganInv, UpInv, NEW t \in Txns, Alive(t)
  PROVE  \A a \in Line[t] : Alive(a)
<1> DEFINE T == {u \in Txns : Alive(u) /\ \E b \in Line[u] : ~ Alive(b)}
<1>1. ASSUME T # {} PROVE FALSE
  <2>1. PICK u \in T : \A v \in T : Depth[u] <= Depth[v]
    BY <1>1, Shallowest
  <2>2. PICK b \in Line[u] : ~ Alive(b)
    OBVIOUS
  <2>3. Parent[u] # Root /\ Parent[u] \in Txns /\ Depth[u] = Depth[Parent[u]] + 1
        /\ b \in Line[Parent[u]] /\ Line[Parent[u]] \subseteq Line[u] /\ Parent[u] \in Line[Parent[u]]
    BY <2>2, Lines
  <2>4. pc[Parent[u]] # "fulfilled"
    BY <2>3, AliveIsActive DEF UpInv, RootTxns
  <2>5. Alive(Parent[u])
    BY <2>3, <2>4 DEF Alive, Gone, BeganInv
  <2> QED BY <2>1, <2>2, <2>3, <2>5
<1> QED BY <1>1

LEMMA AliveChildIsActive ==
  ASSUME ScopeType, FreshInv, NEW o \in Txns, Children(o) = {}
  PROVE  \A c \in Txns : Parent[c] = o => ~ Alive(c)
BY AliveIsActive DEF Children

\* Where no child of t is alive, it is the innermost.
LEMMA AliveInside ==
  ASSUME ScopeType, FreshInv, NestInv, NEW t \in Txns, Alive(t),
         \A c \in Txns : Parent[c] = t => ~ Alive(c), NEW u \in Txns, Alive(u)
  PROVE  u = t \/ (u \in Around(t) /\ Depth[u] < Depth[t])
<1>1. Depth[u] \in Nat /\ Depth[t] \in Nat
  OBVIOUS
<1>2. CASE Depth[u] > Depth[t]
  <2>1. t \in Line[u] /\ t # u
    BY <1>1, <1>2 DEF NestInv, AliveInv
  <2>2. PICK c \in Line[u] : Parent[c] = t
    BY <2>1, Through
  <2>3. c \in Txns /\ Alive(c)
    BY <2>2, AliveUp, Lines DEF NestInv
  <2> QED BY <2>2, <2>3
<1>3. CASE Depth[u] = Depth[t]
  BY <1>3 DEF NestInv, AliveInv
<1>4. CASE Depth[u] < Depth[t]
  BY <1>1, <1>4 DEF NestInv, AliveInv, Around
<1> QED BY <1>1, <1>2, <1>3, <1>4

\* A root transaction that is alive has the handle.
LEMMA RootAlive ==
  ASSUME ScopeType, FreshInv, QueueType, TicketInv, NEW c \in Calls, HasTurn(c),
         ~ Running(c), NEW r \in RootTxns
  PROVE  ~ Alive(r)
<1>1. r \in Txns /\ r \in Calls
  BY TxnCall DEF RootTxns
<1>2. ASSUME Alive(r) PROVE FALSE
  <2>1. Running(r)
    BY <1>1, <1>2, AliveIsActive DEF Running
  <2> QED BY <1>1, <2>1, TurnIsAlone
<1> QED BY <1>2

-------------------------------------------------------------------------------
(* The abstract state, before and after a step *)

LEMMA StatusIs ==
  ASSUME NEW t \in Txns
  PROVE  /\ ~ began[t] => TxnStatus[t] = "idle"
         /\ began[t] /\ pc[t] = "fulfilled" => TxnStatus[t] = "committed"
         /\ began[t] /\ pc[t] # "fulfilled" /\ Gone(t) => TxnStatus[t] = "aborted"
         /\ Alive(t) /\ Depth[t] \in levels => TxnStatus[t] = "open"
         /\ Alive(t) /\ Depth[t] \notin levels => TxnStatus[t] = "lost"
BY DEF TxnStatus, Alive

LEMMA StatusThen ==
  ASSUME NEW t \in Txns
  PROVE  /\ ~ began'[t] => TxnStatus'[t] = "idle"
         /\ began'[t] /\ pc'[t] = "fulfilled" => TxnStatus'[t] = "committed"
         /\ began'[t] /\ pc'[t] # "fulfilled" /\ Gone(t)' => TxnStatus'[t] = "aborted"
         /\ Alive(t)' /\ Depth[t] \in levels' => TxnStatus'[t] = "open"
         /\ Alive(t)' /\ Depth[t] \notin levels' => TxnStatus'[t] = "lost"
BY DEF TxnStatus, Alive

LEMMA LiveStatus == ASSUME NEW t \in Txns PROVE Alive(t) <=> TxnStatus[t] \in Nested!Live
BY DEF TxnStatus, Alive, Nested!Live

LEMMA HeldIs ==
  ASSUME NEW t \in Txns
  PROVE  /\ HeldEffects[t] = IF TxnStatus[t] = "open" THEN pending[Depth[t]] ELSE {}
         /\ HeldEffects'[t] = IF TxnStatus'[t] = "open" THEN pending'[Depth[t]] ELSE {}
BY DEF HeldEffects

LEMMA AbstractFunctions ==
  /\ TxnStatus = [t \in Txns |-> TxnStatus[t]] /\ HeldEffects = [t \in Txns |-> HeldEffects[t]]
  /\ TxnStatus' = [t \in Txns |-> TxnStatus'[t]] /\ HeldEffects' = [t \in Txns |-> HeldEffects'[t]]
BY DEF TxnStatus, HeldEffects

\* Where t is the only one whose status may change
LEMMA StatusKept ==
  ASSUME NEW t \in Txns, began'[t] = began[t], pc'[t] = "fulfilled" <=> pc[t] = "fulfilled",
         Gone(t)' <=> Gone(t), Alive(t) => (Depth[t] \in levels' <=> Depth[t] \in levels)
  PROVE  TxnStatus'[t] = TxnStatus[t] /\ (Alive(t)' <=> Alive(t))
BY DEF TxnStatus, Alive

LEMMA Invisible ==
  ASSUME UNCHANGED <<began, engineVars>>,
         \A u \in Txns : /\ pc'[u] = "fulfilled" <=> pc[u] = "fulfilled"
                         /\ pc'[u] = "threw" <=> pc[u] = "threw"
  PROVE  UNCHANGED <<TxnStatus, HeldEffects, durable>> /\ \A u \in Txns : Alive(u)' <=> Alive(u)
<1>1. UNCHANGED <<levels, pending, durable>>
  BY DEF engineVars
<1>2. \A u \in Txns : Gone(u)' <=> Gone(u)
  BY Lines DEF Gone
<1>3. \A u \in Txns : TxnStatus'[u] = TxnStatus[u] /\ (Alive(u)' <=> Alive(u))
  BY <1>1, <1>2, StatusKept
<1>4. \A u \in Txns : HeldEffects'[u] = HeldEffects[u]
  BY <1>1, <1>3, HeldIs
<1> QED BY <1>1, <1>3, <1>4, AbstractFunctions

-------------------------------------------------------------------------------
(* The invariant of the refinement is kept *)

\* Nobody comes alive in a step that begins nothing.
LEMMA NestKept ==
  ASSUME NestInv, UNCHANGED began, \A u \in Txns : Alive(u)' => Alive(u),
         \A u \in Txns : pc'[u] = "running" => pc[u] = "running" /\ open'[u] = open[u],
         \A u \in Txns \ RootTxns :
           pc'[u] \in Active =>
             \/ pc[u] \in Active
             \/ pc'[u] = "failing" /\ pc'[Parent[u]] = "running",
         \A u \in Txns \ RootTxns :
           pc'[u] \in Active /\ pc[u] \in Active =>
             pc'[Parent[u]] = pc[Parent[u]] \/ pc'[Parent[u]] \in {"running", "failing", "threw"}
  PROVE  NestInv'
<1>1. BeganInv'
  BY DEF NestInv, BeganInv
<1>2. RunningInv'
  BY DEF NestInv, RunningInv
<1>3. UpInv'
  BY DEF NestInv, UpInv
<1>4. AliveInv'
  BY DEF NestInv, AliveInv
<1> QED BY <1>1, <1>2, <1>3, <1>4 DEF NestInv

LEMMA QuietNest ==
  ASSUME NestInv, UNCHANGED <<scopeVars, engineVars>>
  PROVE  NestInv' /\ UNCHANGED <<TxnStatus, HeldEffects, durable>>
<1>1. UNCHANGED <<pc, open, began>>
  BY DEF scopeVars
<1>2. UNCHANGED <<TxnStatus, HeldEffects, durable>> /\ \A u \in Txns : Alive(u)' <=> Alive(u)
  BY <1>1, Invisible
<1> QED BY <1>1, <1>2, NestKept

\* The abstract step of a transaction that begins
EnterNest(t) ==
  /\ NestInv'
  /\ Nested!Begin(t) \/ UNCHANGED <<TxnStatus, HeldEffects, durable>>

LEMMA EnterImplements ==
  ASSUME TypeOK, ScopeInv, TreeInv, NestInv, NEW t \in Txns, Enter(t),
         pc[t] \in {"none", "queued"}, \A a \in Around(t) : open[a],
         \A u \in Txns : Alive(u) => u \in Around(t) /\ Depth[u] < Depth[t],
         \A u \in Txns : Parent[u] = Parent[t] => ~ Alive(u)
  PROVE  EnterNest(t)
<1>0. ScopeType /\ EngineType /\ FreshInv /\ BeganInv /\ RunningInv /\ UpInv /\ AliveInv
  BY TypeParts DEF TreeInv, NestInv
<1>1. ~ began[t] /\ Aside(t) /\ pc'[t] \in {"running", "failing"}
  BY <1>0 DEF FreshInv, Enter, Aside, ScopeType
<1>2. \A a \in Around(t) : a \in Txns /\ a # t /\ pc[a] = "running" /\ began[a] /\ Alive(a)
  <2>1. Parent[t] # Root => \A a \in Line[Parent[t]] : Live(a)
    BY AroundIs, OpenIsLive, Lines
  <2>2. \A a \in Around(t) : a \in Txns /\ a # t /\ Live(a)
    BY <2>1, AroundIs DEF Around
  <2> QED BY <2>2, LiveIsAlive DEF ScopeInv, Live
<1>3. \A u \in Txns : Gone(u)' <=> Gone(u)
  BY <1>1, Lines DEF Gone, Aside
<1>4. \A u \in Txns : (pc'[u] = "fulfilled" <=> pc[u] = "fulfilled") /\ (pc'[u] = "threw" <=> pc[u] = "threw")
  BY <1>1 DEF Aside
<1>5. UpInv'
  <2>1. t \notin RootTxns => pc'[Parent[t]] = "running"
    BY <1>1, <1>2, AroundIs, Lines DEF RootTxns, Aside
  <2>2. ASSUME NEW u \in Txns \ RootTxns, u # t, pc'[u] \in Active
        PROVE  pc'[Parent[u]] \in {"running", "failing", "threw"}
    <3>1. pc[u] \in Active /\ Parent[u] \in Txns
      BY <1>1, <2>2, Lines DEF Aside, RootTxns
    <3> QED BY <1>0, <1>1, <2>2, <3>1 DEF UpInv, Aside
  <2> QED BY <2>1, <2>2 DEF UpInv
<1>6. CASE /\ Savepoint(Depth[t])
           /\ pc' = [pc EXCEPT ![t] = "running"]
           /\ open' = [open EXCEPT ![t] = TRUE]
           /\ began' = [began EXCEPT ![t] = TRUE]
  <2>1. levels' = levels \cup {Depth[t]} /\ durable' = durable /\ pending'[Depth[t]] = {}
        /\ \A u \in Txns : Depth[u] # Depth[t] => pending'[Depth[u]] = pending[Depth[u]]
    BY <1>0, <1>6 DEF Savepoint, EngineType, Depths
  <2>2. pc'[t] = "running" /\ open'[t] /\ began'[t] /\ \A u \in Txns : u # t => began'[u] = began[u]
    BY <1>0, <1>6 DEF ScopeType
  <2>3. ASSUME NEW u \in Txns, u # t
        PROVE  TxnStatus'[u] = TxnStatus[u] /\ (Alive(u)' <=> Alive(u)) /\ HeldEffects'[u] = HeldEffects[u]
    <3>1. TxnStatus'[u] = TxnStatus[u] /\ (Alive(u)' <=> Alive(u))
      BY <1>3, <1>4, <2>1, <2>2, <2>3, StatusKept
    <3>2. TxnStatus[u] = "open" => Alive(u)
      BY LiveStatus DEF Nested!Live
    <3>3. TxnStatus[u] = "open" => Depth[u] # Depth[t]
      BY <3>2
    <3> QED BY <2>1, <3>1, <3>3, HeldIs
  <2>4. Alive(t)' /\ TxnStatus'[t] = "open" /\ HeldEffects'[t] = {} /\ TxnStatus[t] = "idle"
        /\ HeldEffects[t] = {}
    <3>1. ~ Gone(t)'
      BY <1>1, <1>2, <2>2 DEF Gone, Around, Aside
    <3>2. Alive(t)'
      BY <2>2, <3>1 DEF Alive
    <3>3. TxnStatus'[t] = "open" /\ TxnStatus[t] = "idle"
      BY <1>1, <2>1, <3>2, StatusIs, StatusThen
    <3> QED BY <2>1, <3>2, <3>3, HeldIs
  <2>5. BeganInv'
    <3>1. \A a \in Line[t] : began'[a]
      BY <1>2, <2>2 DEF Around
    <3>2. ASSUME NEW u \in Txns, u # t, began'[u] PROVE \A a \in Line[u] : began'[a]
      BY <1>0, <1>1, <2>2, <3>2, Lines DEF BeganInv
    <3> QED BY <3>1, <3>2 DEF BeganInv
  <2>6. RunningInv'
    BY <1>0, <1>1, <2>2 DEF RunningInv, Aside
  <2>7. AliveInv'
    <3>1. \A u \in Txns : u # t /\ Alive(u)' => Depth[u] < Depth[t] /\ u \in Line[t]
      BY <2>3 DEF Around
    <3> QED BY <1>0, <2>3, <3>1 DEF AliveInv
  <2>8. Nested!Begin(t)
    <3>1. Parent[t] # Root => TxnStatus[Parent[t]] \in Nested!Live
      BY <1>2, AroundIs, Lines, LiveStatus
    <3>2. Nested!LiveChildren(Parent[t]) = {}
      BY LiveStatus DEF Nested!LiveChildren
    <3>3. TxnStatus' = [TxnStatus EXCEPT ![t] = "open"]
      BY <2>3, <2>4, AbstractFunctions
    <3>4. \A u \in Txns : HeldEffects'[u] = HeldEffects[u]
      BY <2>3, <2>4
    <3>5. HeldEffects' = HeldEffects
      BY <3>4, AbstractFunctions
    <3> QED BY <2>1, <2>4, <3>1, <3>2, <3>3, <3>5 DEF Nested!Begin
  <2> QED BY <1>5, <2>5, <2>6, <2>7, <2>8 DEF EnterNest, NestInv
<1>7. CASE /\ pc' = [pc EXCEPT ![t] = "failing"]
           /\ UNCHANGED <<open, began, engineVars>>
  <2>1. UNCHANGED <<TxnStatus, HeldEffects, durable>> /\ \A u \in Txns : Alive(u)' <=> Alive(u)
    BY <1>4, <1>7, Invisible
  <2>2. RunningInv'
    BY <1>0, <1>7 DEF RunningInv, ScopeType
  <2>3. BeganInv' /\ AliveInv'
    BY <1>0, <1>7, <2>1 DEF BeganInv, AliveInv
  <2> QED BY <1>5, <2>1, <2>2, <2>3 DEF EnterNest, NestInv
<1> QED BY <1>6, <1>7 DEF Enter

\* A transaction() call that waits or is refused, and a callback that ends
LEMMA RefusalImplements ==
  ASSUME ScopeType, NestInv, NEW t \in Txns, pc[t] \in {"none", "queued"},
         NEW state \in {"queued", "refused"}, pc' = [pc EXCEPT ![t] = state],
         UNCHANGED <<open, began, engineVars>>
  PROVE  NestInv' /\ UNCHANGED <<TxnStatus, HeldEffects, durable>>
<1>1. Aside(t) /\ pc'[t] = state
  BY DEF Aside, ScopeType
<1>2. \A u \in Txns : (pc'[u] = "fulfilled" <=> pc[u] = "fulfilled") /\ (pc'[u] = "threw" <=> pc[u] = "threw")
  BY <1>1 DEF Aside
<1>3. UNCHANGED <<TxnStatus, HeldEffects, durable>> /\ \A u \in Txns : Alive(u)' <=> Alive(u)
  BY <1>2, Invisible
<1>4. \A u \in Txns : pc'[u] = "running" => pc[u] = "running" /\ open'[u] = open[u]
  BY <1>1 DEF Aside
<1>5. \A u \in Txns \ RootTxns : pc'[u] \in Active => pc[u] \in Active /\ pc'[Parent[u]] = pc[Parent[u]]
  BY <1>1, Lines DEF NestInv, UpInv, Aside, RootTxns, Active
<1> QED BY <1>3, <1>4, <1>5, NestKept

LEMMA CallbackImplements ==
  ASSUME ScopeType, NestInv, NEW t \in Txns, Return(t) \/ Throw(t)
  PROVE  NestInv' /\ UNCHANGED <<TxnStatus, HeldEffects, durable>>
<1>1. /\ pc[t] = "running" /\ Aside(t) /\ pc'[t] \in {"failing", "returned"}
      /\ pc'[t] = "returned" => Children(t) = {}
  BY DEF Return, Throw, Leaked, CallbackEnds, ScopeType, Aside
<1>2. UNCHANGED <<began, engineVars>>
  BY DEF Return, Throw, CallbackEnds
<1>3. \A u \in Txns : (pc'[u] = "fulfilled" <=> pc[u] = "fulfilled") /\ (pc'[u] = "threw" <=> pc[u] = "threw")
  BY <1>1 DEF Aside
<1>4. UNCHANGED <<TxnStatus, HeldEffects, durable>> /\ \A u \in Txns : Alive(u)' <=> Alive(u)
  BY <1>2, <1>3, Invisible
<1>5. \A u \in Txns : pc'[u] = "running" => pc[u] = "running" /\ open'[u] = open[u]
  BY <1>1 DEF Aside
<1>6. \A u \in Txns : pc'[u] \in Active => pc[u] \in Active
  BY <1>1 DEF Aside, Active
<1>7. ASSUME NEW u \in Txns \ RootTxns, pc'[u] \in Active
      PROVE  pc'[Parent[u]] = pc[Parent[u]] \/ pc'[Parent[u]] \in {"running", "failing", "threw"}
  BY <1>1, <1>6, <1>7, Lines DEF Aside, Children, RootTxns
<1> QED BY <1>2, <1>4, <1>5, <1>6, <1>7, NestKept

-------------------------------------------------------------------------------
(* A transaction ends *)

LEMMA EndKeepsNest ==
  ASSUME ScopeType, FreshInv, NestInv, NEW t \in Txns, pc[t] \in {"returned", "failing"}, Aside(t),
         pc'[t] \in {"failing", "fulfilled", "threw"}, pc[t] = "failing" => pc'[t] = "threw",
         UNCHANGED <<open, began>>
  PROVE  /\ NestInv'
         /\ \A u \in Txns : Alive(u)' => Alive(u)
         /\ \A u \in Txns : t \notin Line[u] => (Gone(u)' <=> Gone(u))
<1>1. \A u \in Txns : t \notin Line[u] => (Gone(u)' <=> Gone(u))
  BY Lines DEF Gone, Aside
<1>2. \A u \in Txns : Gone(u) => Gone(u)'
  BY Lines DEF Gone, Aside
<1>3. \A u \in Txns : Alive(u)' => Alive(u)
  BY <1>2 DEF Alive, Aside
<1>4. \A u \in Txns : pc'[u] = "running" => pc[u] = "running" /\ open'[u] = open[u]
  BY DEF Aside
<1>5. \A u \in Txns : pc'[u] \in Active => pc[u] \in Active
  BY DEF Aside, Active
<1>6. ASSUME NEW u \in Txns \ RootTxns, pc'[u] \in Active
      PROVE  pc'[Parent[u]] = pc[Parent[u]] \/ pc'[Parent[u]] \in {"running", "failing", "threw"}
  <2>1. Parent[u] \in Txns /\ (Parent[u] = t => pc[t] = "failing")
    BY <1>5, <1>6, Lines DEF NestInv, UpInv, RootTxns
  <2> QED BY <2>1 DEF Aside
<1>7. NestInv'
  BY <1>3, <1>4, <1>5, <1>6, NestKept
<1> QED BY <1>1, <1>3, <1>7

LEMMA UndoImplements ==
  ASSUME TypeOK, ScopeInv, TreeInv, NestInv, NEW t \in Txns, Undo(t)
  PROVE  NestInv' /\ (Nested!Abort(t) \/ UNCHANGED <<TxnStatus, HeldEffects, durable>>)
<1>0. ScopeType /\ EngineType /\ FreshInv /\ BeganInv /\ UpInv /\ AliveInv
  BY TypeParts DEF TreeInv, NestInv
<1>1. /\ pc[t] = "failing" /\ pc'[t] = "threw" /\ Aside(t) /\ UNCHANGED <<open, began>>
      /\ durable' = durable
  BY <1>0 DEF Undo, ScopeType, Aside, Rollback, engineVars
<1>2. /\ NestInv'
      /\ \A u \in Txns : Alive(u)' => Alive(u)
      /\ \A u \in Txns : t \notin Line[u] => (Gone(u)' <=> Gone(u))
  BY <1>0, <1>1, EndKeepsNest
<1>3. \A u \in Txns : t \in Line[u] => Gone(u)'
  BY <1>1 DEF Gone
<1>4. \A u \in Txns : pc'[u] = "fulfilled" <=> pc[u] = "fulfilled"
  BY <1>1 DEF Aside
<1>5. \A u \in Txns : ~ Alive(u) => TxnStatus'[u] = TxnStatus[u] /\ HeldEffects'[u] = HeldEffects[u]
  <2> SUFFICES ASSUME NEW u \in Txns, ~ Alive(u)
               PROVE  TxnStatus'[u] = TxnStatus[u] /\ HeldEffects'[u] = HeldEffects[u]
    OBVIOUS
  <2>1. ~ began[u] \/ pc[u] = "fulfilled" \/ Gone(u)
    BY DEF Alive
  <2>2. Gone(u) => Gone(u)'
    BY <1>2, <1>3
  <2>3. TxnStatus'[u] = TxnStatus[u] /\ TxnStatus[u] # "open"
    BY <1>1, <1>4, <2>1, <2>2, StatusIs, StatusThen
  <2> QED BY <2>3, HeldIs
<1>6. CASE ~ Alive(t)
  <2>1. \A u \in Txns : t \in Line[u] => ~ Alive(u)
    BY <1>0, <1>6, AliveUp
  <2>2. UNCHANGED engineVars
    <3>1. ~ began[t] \/ \E a \in Around(t) : a \in Txns /\ pc[a] = "threw"
      BY <1>1, <1>6, Lines DEF Alive, Gone, Around
    <3>2. ~ Undoes(t)
      BY <3>1, AroundIs DEF Undoes, ScopeIsOpen, ScopeInv
    <3> QED BY <3>2 DEF Undo
  <2>3. UNCHANGED <<levels, pending>>
    BY <2>2 DEF engineVars
  <2>4. \A u \in Txns : Alive(u) => TxnStatus'[u] = TxnStatus[u]
    BY <1>1, <1>2, <1>4, <2>1, <2>3, StatusKept
  <2>5. \A u \in Txns : Alive(u) => HeldEffects'[u] = HeldEffects[u]
    BY <2>3, <2>4, HeldIs
  <2>6. \A u \in Txns : TxnStatus'[u] = TxnStatus[u] /\ HeldEffects'[u] = HeldEffects[u]
    BY <1>5, <2>4, <2>5
  <2>7. TxnStatus' = TxnStatus
    BY <2>6, AbstractFunctions
  <2>8. HeldEffects' = HeldEffects
    BY <2>6, AbstractFunctions
  <2> QED BY <1>1, <1>2, <2>7, <2>8
<1>7. CASE Alive(t)
  <2>1. ASSUME NEW u \in Txns, t \notin Line[u], Alive(u)
        PROVE  /\ Depth[u] \in levels' <=> Depth[u] \in levels
               /\ pending'[Depth[u]] = pending[Depth[u]]
    <3>1. Depth[u] < Depth[t] /\ Depth[u] \in Depths
      <4>1. Depth[u] \in Nat /\ Depth[t] \in Nat
        OBVIOUS
      <4>2. Depth[u] = Depth[t] => u = t
        BY <1>0, <1>7, <2>1 DEF AliveInv
      <4>3. Depth[t] < Depth[u] => t \in Line[u]
        BY <1>0, <1>7, <2>1 DEF AliveInv
      <4> QED BY <2>1, <4>1, <4>2, <4>3, Lines DEF Depths
    <3>2. UNCHANGED <<levels, pending>> \/ Rollback(Depth[t])
      BY DEF Undo, engineVars
    <3> QED BY <3>1, <3>2 DEF Rollback, Cleared
  <2>2. ASSUME NEW u \in Txns, t \notin Line[u], Alive(u)
        PROVE  TxnStatus'[u] = TxnStatus[u] /\ HeldEffects'[u] = HeldEffects[u]
    <3>1. TxnStatus'[u] = TxnStatus[u]
      BY <1>1, <1>2, <1>4, <2>1, <2>2, StatusKept
    <3> QED BY <2>1, <2>2, <3>1, HeldIs
  <2>3. ASSUME NEW u \in Txns, t \in Line[u]
        PROVE  /\ TxnStatus'[u] = IF Alive(u) THEN "aborted" ELSE TxnStatus[u]
               /\ HeldEffects'[u] = {}
    <3>1. CASE Alive(u)
      <4>1. began'[u] /\ pc'[u] # "fulfilled" /\ Gone(u)'
        BY <1>1, <1>3, <1>4, <2>3, <3>1 DEF Alive
      <4> QED BY <3>1, <4>1, StatusThen, HeldIs
    <3>2. CASE ~ Alive(u)
      <4>1. TxnStatus[u] # "open"
        BY <3>2, LiveStatus DEF Nested!Live
      <4> QED BY <1>5, <3>2, <4>1, HeldIs
    <3> QED BY <3>1, <3>2
  <2>4. TxnStatus[t] \in Nested!Live
    BY <1>7, LiveStatus
  <2>5. ASSUME NEW u \in Txns
        PROVE  TxnStatus'[u] = IF t \in Line[u] /\ TxnStatus[u] \in Nested!Live THEN "aborted" ELSE TxnStatus[u]
    BY <1>5, <2>2, <2>3, LiveStatus
  <2>6. ASSUME NEW u \in Txns
        PROVE  HeldEffects'[u] = IF t \in Line[u] THEN {} ELSE HeldEffects[u]
    BY <1>5, <2>2, <2>3
  <2>7. TxnStatus' = [u \in Txns |-> IF t \in Line[u] /\ TxnStatus[u] \in Nested!Live THEN "aborted" ELSE TxnStatus[u]]
    BY <2>5, AbstractFunctions
  <2>8. HeldEffects' = [u \in Txns |-> IF t \in Line[u] THEN {} ELSE HeldEffects[u]]
    BY <2>6, AbstractFunctions
  <2> QED BY <1>1, <1>2, <2>4, <2>7, <2>8 DEF Nested!Abort
<1> QED BY <1>6, <1>7

\* A savepoint is there as soon as one below it is, or any.
LEMMA LevelsTogether ==
  ASSUME Disciplined, SavepointInv, NEW t \in Txns, Live(t), NEW d \in levels, d <= Depth[t]
  PROVE  Depth[t] \in levels
<1>1. CASE ~ EngineRollsBack
  BY <1>1 DEF SavepointInv
<1>2. CASE "transaction" \notin Unawaited
  <2>1. PICK u \in Txns : Live(u) /\ Depth[u] = d
    BY <1>2 DEF SavepointInv
  <2> QED BY <2>1 DEF SavepointInv
<1> QED BY <1>1, <1>2 DEF Disciplined

\* What the innermost savepoint holds, and where it goes
LEMMA MergeTop ==
  ASSUME EngineType, NEW t \in Txns, Depth[t] \in levels,
         \A d \in levels : d \in Nat /\ d <= Depth[t], Merge(Depth[t])
  PROVE  /\ levels' = {e \in levels : e < Depth[t]}
         /\ levels' = {} => durable' = durable \cup pending[Depth[t]]
         /\ \A p \in Txns : Depth[p] \in levels /\ Depth[t] = Depth[p] + 1 =>
              /\ durable' = durable
              /\ pending'[Depth[p]] = pending[Depth[p]] \cup pending[Depth[t]]
              /\ \A e \in levels' : e # Depth[p] => pending'[e] = pending[e]
<1> DEFINE around == {e \in levels : e < Depth[t]}
<1>1. levels' = around
  BY DEF Merge
<1>2. Since(Depth[t]) = pending[Depth[t]]
  <2>1. {f \in levels : f >= Depth[t]} = {Depth[t]}
    OBVIOUS
  <2> QED BY <2>1 DEF Since
<1>3. around = {} => durable' = durable \cup pending[Depth[t]]
  BY <1>2 DEF Merge
<1>4. ASSUME NEW p \in Txns, Depth[p] \in levels, Depth[t] = Depth[p] + 1
      PROVE  /\ durable' = durable
             /\ pending'[Depth[p]] = pending[Depth[p]] \cup pending[Depth[t]]
             /\ \A e \in levels' : e # Depth[p] => pending'[e] = pending[e]
  <2>1. Depth[p] \in around /\ \A e \in around : e <= Depth[p]
    BY <1>4
  <2>2. durable' = durable
    BY <2>1 DEF Merge
  <2>3. PICK o \in around : /\ \A e \in around : e <= o
                            /\ pending' = [Cleared(Depth[t]) EXCEPT ![o] = @ \cup Since(Depth[t])]
    BY <2>1 DEF Merge
  <2>4. o = Depth[p]
    BY <2>1, <2>3
  <2>5. Cleared(Depth[t]) \in [Depths -> SUBSET Effects]
        /\ \A e \in around : e \in Depths /\ Cleared(Depth[t])[e] = pending[e]
    BY ClearedType DEF EngineType, Cleared
  <2>6. pending'[Depth[p]] = pending[Depth[p]] \cup pending[Depth[t]]
    BY <1>2, <2>1, <2>3, <2>4, <2>5
  <2>7. \A e \in around : e # Depth[p] => pending'[e] = pending[e]
    BY <2>3, <2>4, <2>5
  <2> QED BY <1>1, <2>2, <2>6, <2>7
<1> QED BY <1>1, <1>3, <1>4

LEMMA CommitImplements ==
  ASSUME Disciplined, TypeOK, OwnerInv, TreeInv, DataInv, NestInv, NEW t \in Txns, Commit(t)
  PROVE  /\ NestInv'
         /\ Nested!CommitInto(t) \/ Nested!CommitAlone(t) \/ UNCHANGED <<TxnStatus, HeldEffects, durable>>
<1>0. ScopeType /\ EngineType /\ TicketInv /\ ClosedInv /\ ScopeInv /\ FreshInv /\ LineInv /\ ChainInv
      /\ SavepointInv /\ UpInv
  BY TypeParts DEF OwnerInv, TreeInv, DataInv, NestInv
<1>1. /\ pc[t] = "returned" /\ pc'[t] \in {"fulfilled", "failing"} /\ Aside(t) /\ ~ open[t]
      /\ began[t] /\ UNCHANGED <<open, began>>
  BY <1>0 DEF Commit, ScopeType, Aside, ScopeInv
<1>2. /\ NestInv'
      /\ \A u \in Txns : Alive(u)' => Alive(u)
  BY <1>0, <1>1, EndKeepsNest
<1>3. \A u \in Txns : Gone(u)' <=> Gone(u)
  BY <1>1, Lines DEF Gone, Aside
<1>4. CASE pc'[t] = "failing" /\ UNCHANGED engineVars
  <2>1. \A u \in Txns : (pc'[u] = "fulfilled" <=> pc[u] = "fulfilled") /\ (pc'[u] = "threw" <=> pc[u] = "threw")
    BY <1>1, <1>4 DEF Aside
  <2> QED BY <1>1, <1>2, <1>4, <2>1, Invisible
<1>5. CASE ScopeIsOpen(Parent[t]) /\ Knows(Depth[t]) /\ Merge(Depth[t]) /\ pc'[t] = "fulfilled"
  <2>1. Live(t) /\ Alive(t)
    BY <1>0, <1>1, <1>5, LiveIsUsable, LiveIsAlive DEF Active
  <2>2. \A d \in levels : d \in Nat /\ d <= Depth[t]
    BY <1>0, <1>1, <2>1, NoneAbove
  <2>3. Depth[t] \in levels
    BY <1>0, <1>5, <2>2 DEF Knows, EngineType, Depths
  <2>4. /\ levels' = {e \in levels : e < Depth[t]}
        /\ levels' = {} => durable' = durable \cup pending[Depth[t]]
        /\ \A p \in Txns : Depth[p] \in levels /\ Depth[t] = Depth[p] + 1 =>
             /\ durable' = durable
             /\ pending'[Depth[p]] = pending[Depth[p]] \cup pending[Depth[t]]
             /\ \A e \in levels' : e # Depth[p] => pending'[e] = pending[e]
    BY <1>0, <1>5, <2>2, <2>3, MergeTop
  <2>5. \A c \in Txns : Parent[c] = t => ~ Alive(c)
    <3> SUFFICES ASSUME NEW c \in Txns, Parent[c] = t, Alive(c) PROVE FALSE
      OBVIOUS
    <3>1. c \notin RootTxns /\ pc[c] \in Active
      BY <1>0, AliveIsActive DEF RootTxns
    <3> QED BY <1>0, <1>1, <3>1 DEF UpInv
  <2>6. \A u \in Txns : Alive(u) /\ u # t => u \in Around(t) /\ Depth[u] < Depth[t]
    BY <1>0, <2>1, <2>5, AliveInside
  <2>7. \A u \in Txns \ {t} : TxnStatus'[u] = TxnStatus[u]
    <3> SUFFICES ASSUME NEW u \in Txns \ {t} PROVE TxnStatus'[u] = TxnStatus[u]
      OBVIOUS
    <3>1. Alive(u) => (Depth[u] \in levels' <=> Depth[u] \in levels)
      BY <2>4, <2>6
    <3>2. began'[u] = began[u] /\ (pc'[u] = "fulfilled" <=> pc[u] = "fulfilled")
      BY <1>1 DEF Aside
    <3> QED BY <1>3, <3>1, <3>2, StatusKept
  <2>8. TxnStatus'[t] = "committed" /\ HeldEffects'[t] = {}
    <3>1. TxnStatus'[t] = "committed"
      BY <1>1, <1>5, StatusThen
    <3> QED BY <3>1, HeldIs
  <2>9. TxnStatus[t] = "open" /\ HeldEffects[t] = pending[Depth[t]]
    BY <2>1, <2>3, StatusIs, HeldIs
  <2>10. TxnStatus' = [TxnStatus EXCEPT ![t] = "committed"]
    BY <2>7, <2>8, AbstractFunctions
  <2>11. Nested!MayCommit(t)
    BY <2>5, <2>9, LiveStatus DEF Nested!MayCommit, Nested!LiveChildren
  <2>12. ASSUME NEW u \in Txns \ {t}
         PROVE  /\ TxnStatus[u] = "open" => Depth[u] \in levels' /\ Alive(u)
                /\ HeldEffects'[u] = IF TxnStatus[u] = "open" THEN pending'[Depth[u]] ELSE {}
                /\ HeldEffects[u] = IF TxnStatus[u] = "open" THEN pending[Depth[u]] ELSE {}
    <3>1. TxnStatus[u] = "open" => Alive(u)
      BY LiveStatus DEF Nested!Live
    <3>2. TxnStatus[u] = "open" => Depth[u] \in levels
      BY <3>1, StatusIs
    <3> QED BY <2>4, <2>6, <2>7, <3>1, <3>2, HeldIs
  <2>13. CASE Parent[t] # Root /\ TxnStatus[Parent[t]] = "open"
    <3>1. PICK p : p = Parent[t]
      OBVIOUS
    <3>2. p \in Txns /\ p # Root /\ Depth[t] = Depth[p] + 1 /\ p # t
      BY <2>13, <3>1, Lines
    <3>3. Alive(p) /\ Depth[p] \in levels
      BY <2>12, <2>13, <2>4, <3>1, <3>2
    <3>4. /\ durable' = durable
          /\ pending'[Depth[p]] = pending[Depth[p]] \cup pending[Depth[t]]
          /\ \A e \in levels' : e # Depth[p] => pending'[e] = pending[e]
      BY <2>4, <3>2, <3>3
    <3>5. HeldEffects'[p] = HeldEffects[p] \cup HeldEffects[t]
      BY <2>9, <2>12, <2>13, <3>1, <3>2, <3>4
    <3>6. ASSUME NEW u \in Txns \ {t, p} PROVE HeldEffects'[u] = HeldEffects[u]
      <4>1. Alive(u) => Depth[u] # Depth[p]
        BY <3>2, <3>3, <3>6 DEF NestInv, AliveInv
      <4> QED BY <2>12, <3>4, <4>1
    <3>7. HeldEffects' = [HeldEffects EXCEPT ![p] = @ \cup HeldEffects[t], ![t] = {}]
      BY <2>8, <3>2, <3>5, <3>6, AbstractFunctions
    <3>8. Nested!CommitInto(t)
      BY <2>10, <2>11, <2>13, <3>1, <3>2, <3>4, <3>7 DEF Nested!CommitInto
    <3> QED BY <1>2, <3>8
  <2>14. CASE Parent[t] = Root \/ TxnStatus[Parent[t]] # "open"
    <3>1. Parent[t] # Root => TxnStatus[Parent[t]] = "lost" /\ levels' = {}
      <4> SUFFICES ASSUME Parent[t] # Root PROVE TxnStatus[Parent[t]] = "lost" /\ levels' = {}
        OBVIOUS
      <4>1. PICK p : p = Parent[t]
        OBVIOUS
      <4>2. p \in Txns /\ Depth[t] = Depth[p] + 1 /\ Depth[p] \in Nat /\ Around(t) = Line[p]
        BY <4>1, AroundIs, Lines
      <4>3. \A a \in Line[p] : Live(a)
        BY <1>0, <2>1, <4>2, OpenIsLive DEF Live
      <4>4. Live(p) /\ Alive(p)
        BY <1>0, <4>2, <4>3, LiveIsAlive, Lines
      <4>5. Depth[p] \notin levels /\ TxnStatus[p] = "lost"
        BY <2>14, <4>1, <4>2, <4>4, StatusIs
      <4>6. ASSUME NEW d \in levels, d < Depth[t] PROVE FALSE
        <5>1. d <= Depth[p]
          BY <2>2, <4>2, <4>6
        <5> QED BY <1>0, <4>2, <4>4, <4>5, <5>1, LevelsTogether
      <4> QED BY <2>4, <4>1, <4>5, <4>6
    <3>2. Parent[t] = Root => levels' = {}
      BY <1>0, <2>2, <2>4, Lines DEF EngineType, Depths
    <3>3. durable' = durable \cup HeldEffects[t]
      BY <2>4, <2>9, <3>1, <3>2
    <3>4. \A u \in Txns \ {t} : HeldEffects'[u] = {} /\ HeldEffects[u] = {}
      BY <2>12, <3>1, <3>2
    <3>5. HeldEffects' = [HeldEffects EXCEPT ![t] = {}]
      <4>1. \A u \in Txns : HeldEffects'[u] = {} /\ (u # t => HeldEffects[u] = {})
        BY <2>8, <3>4
      <4>2. \A u \in Txns : [HeldEffects EXCEPT ![t] = {}][u] = {}
        BY <4>1, AbstractFunctions
      <4> QED BY <4>1, <4>2, AbstractFunctions
    <3>6. Nested!CommitAlone(t)
      BY <2>10, <2>11, <3>1, <3>3, <3>5 DEF Nested!CommitAlone
    <3> QED BY <1>2, <3>6
  <2> QED BY <2>13, <2>14
<1> QED BY <1>0, <1>4, <1>5 DEF Commit, ScopeType

-------------------------------------------------------------------------------
(* Queries, batches and streams *)

LEMMA EffectHasOwner == ASSUME NEW w, NEW i PROVE EffectOwner(<<w, i>>) = Owner[w]
BY DEF EffectOwner

\* What is known of the owner of a statement when it is executed
MayWrite(w) ==
  /\ Owner[w] = Root => levels = {} /\ \A r \in RootTxns : ~ Alive(r)
  /\ Owner[w] # Root => Live(Owner[w]) /\ pc[Owner[w]] = "running" /\ Children(Owner[w]) = {}

LEMMA InsertImplements ==
  ASSUME Disciplined, TypeOK, ScopeInv, TreeInv, SavepointInv, NestInv, NEW w \in Works, MayWrite(w),
         NEW i, Insert(<<w, i>>), UNCHANGED scopeVars
  PROVE  NestInv' /\ (Nested!Write(<<w, i>>) \/ Nested!WriteAlone(<<w, i>>))
<1> DEFINE e == <<w, i>>
<1>0. ScopeType /\ EngineType /\ FreshInv /\ ChainInv /\ AliveInv
  BY TypeParts DEF TreeInv, NestInv
<1>1. UNCHANGED <<pc, open, began, levels>>
  BY DEF scopeVars, Insert
<1>2. \A u \in Txns : Alive(u)' <=> Alive(u)
  BY <1>1 DEF Alive, Gone
<1>3. NestInv'
  BY <1>1, <1>2, NestKept
<1>4. TxnStatus' = TxnStatus
  BY <1>1 DEF TxnStatus, Gone
<1>5. EffectOwner(e) = Owner[w]
  BY EffectHasOwner
<1>6. Nested!LiveChildren(Owner[w]) = {}
  <2>1. CASE Owner[w] = Root
    BY <2>1, LiveStatus DEF MayWrite, Nested!LiveChildren, RootTxns
  <2>2. CASE Owner[w] # Root
    BY <1>0, <2>2, AliveChildIsActive, LiveStatus DEF MayWrite, Nested!LiveChildren
  <2> QED BY <2>1, <2>2
<1>7. CASE levels = {}
  <2>1. durable' = durable \cup {e} /\ pending' = pending
    BY <1>7 DEF Insert
  <2>2. HeldEffects' = HeldEffects
    BY <1>4, <2>1 DEF HeldEffects
  <2>3. Owner[w] # Root => TxnStatus[Owner[w]] = "lost"
    BY <1>7, StatusIs, LiveIsAlive DEF MayWrite
  <2>4. Nested!WriteAlone(e)
    BY <1>4, <1>5, <1>6, <2>1, <2>2, <2>3 DEF Nested!WriteAlone
  <2> QED BY <1>3, <2>4
<1>8. CASE levels # {}
  <2>1. PICK o \in Txns : o = Owner[w]
    BY <1>8 DEF MayWrite
  <2>2. Live(o) /\ Alive(o) /\ pc[o] = "running" /\ Children(o) = {} /\ o # Root
    BY <1>8, <2>1, LiveIsAlive DEF MayWrite
  <2>3. \A d \in levels : d \in Nat /\ d <= Depth[o]
    BY <1>0, <2>2, NoneAbove
  <2>4. Depth[o] \in levels
    BY <1>8, <2>2, <2>3, LevelsTogether
  <2>5. PICK d \in levels : Innermost(d) /\ pending' = [pending EXCEPT ![d] = @ \cup {e}]
                            /\ durable' = durable
    BY <1>8 DEF Insert
  <2>6. d = Depth[o]
    BY <2>3, <2>4, <2>5 DEF Innermost
  <2>7. TxnStatus[o] = "open"
    BY <2>2, <2>4, StatusIs
  <2>8. HeldEffects'[o] = HeldEffects[o] \cup {e}
    BY <1>0, <1>4, <2>5, <2>6, <2>7, HeldIs DEF EngineType
  <2>9. ASSUME NEW u \in Txns \ {o} PROVE HeldEffects'[u] = HeldEffects[u]
    <3>1. TxnStatus[u] = "open" => Alive(u)
      BY LiveStatus DEF Nested!Live
    <3>2. TxnStatus[u] = "open" => Depth[u] # d
      BY <1>0, <2>2, <2>6, <2>9, <3>1 DEF AliveInv
    <3> QED BY <1>0, <1>4, <2>5, <3>2, HeldIs DEF EngineType
  <2>10. HeldEffects' = [HeldEffects EXCEPT ![o] = @ \cup {e}]
    BY <2>8, <2>9, AbstractFunctions
  <2>11. Nested!Write(e)
    BY <1>4, <1>5, <1>6, <2>1, <2>2, <2>5, <2>7, <2>10 DEF Nested!Write
  <2> QED BY <1>3, <2>11
<1> QED BY <1>7, <1>8

\* The engine drops all savepoints.
LEMMA DropImplements ==
  ASSUME EngineType, NestInv, Rollback(1), UNCHANGED scopeVars
  PROVE  NestInv' /\ Nested!Abandon
<1>1. UNCHANGED <<pc, open, began>> /\ durable' = durable
  BY DEF scopeVars, Rollback
<1>2. levels' = {}
  <2>1. \A d \in levels : ~ (d < 1)
    BY DEF EngineType, Depths
  <2> QED BY <2>1 DEF Rollback
<1>3. \A u \in Txns : (Alive(u)' <=> Alive(u)) /\ (Gone(u)' <=> Gone(u))
  BY <1>1 DEF Alive, Gone
<1>4. NestInv'
  BY <1>1, <1>3, NestKept
<1>5. ASSUME NEW u \in Txns
      PROVE  TxnStatus'[u] = (IF TxnStatus[u] = "open" THEN "lost" ELSE TxnStatus[u])
             /\ HeldEffects'[u] = {}
  <2>1. CASE TxnStatus[u] = "open"
    <3>1. Alive(u)
      BY <2>1, LiveStatus DEF Nested!Live
    <3>2. TxnStatus'[u] = "lost"
      BY <1>2, <1>3, <3>1, StatusThen
    <3> QED BY <2>1, <3>2, HeldIs
  <2>2. CASE TxnStatus[u] # "open"
    <3>1. Alive(u) => Depth[u] \notin levels
      BY <2>2, StatusIs
    <3>2. TxnStatus'[u] = TxnStatus[u]
      BY <1>1, <1>2, <1>3, <3>1, StatusKept
    <3> QED BY <2>2, <3>2, HeldIs
  <2> QED BY <2>1, <2>2
<1>6. TxnStatus' = [u \in Txns |-> IF TxnStatus[u] = "open" THEN "lost" ELSE TxnStatus[u]]
  BY <1>5, AbstractFunctions
<1>7. HeldEffects' = [u \in Txns |-> {}]
  BY <1>5, AbstractFunctions
<1> QED BY <1>1, <1>4, <1>6, <1>7 DEF Nested!Abandon

\* A step of the abstract specification, or none
NestedStep == Nested!Next \/ UNCHANGED <<TxnStatus, HeldEffects, durable>>

LEMMA StatementImplements ==
  ASSUME Disciplined, TypeOK, ScopeInv, TreeInv, SavepointInv, NestInv, NEW w \in Works, MayWrite(w),
         MayStep(w), Statement(w), UNCHANGED scopeVars
  PROVE  NestInv' /\ NestedStep
<1>1. CASE Insert(<<w, part[w] + 1>>)
  <2>1. NestInv' /\ (Nested!Write(<<w, part[w] + 1>>) \/ Nested!WriteAlone(<<w, part[w] + 1>>))
    BY <1>1, InsertImplements
  <2>2. <<w, part[w] + 1>> \in Effects
    BY NextEffect, TypeParts DEF MayStep, WorkType
  <2> QED BY <2>1, <2>2 DEF NestedStep, Nested!Next
<1>2. CASE UNCHANGED engineVars
  BY <1>2, QuietNest DEF NestedStep
<1>3. CASE Rollback(1)
  BY <1>3, DropImplements, TypeParts DEF NestedStep, Nested!Next
<1> QED BY <1>1, <1>2, <1>3 DEF Statement, StatementFails

LEMMA WorksImplement ==
  ASSUME Disciplined, NoStrayBatch, DurabilityInv, NestInv, NEW w \in Works,
         Issue(w) \/ Turn(w) \/ Use(w) \/ BatchGoesOn(w) \/ EndStream(w) \/ StreamCloses(w)
  PROVE  NestInv' /\ NestedStep
<1>0. TypeOK /\ QueueType /\ ScopeType /\ WorkType /\ EngineType /\ TicketInv /\ ScopeInv /\ LevelInv
      /\ PartInv /\ TreeInv /\ FreshInv /\ LineInv /\ KeptInv /\ BatchInv /\ SavepointInv
      /\ RunningInv
  BY TypeParts DEF DurabilityInv, IInv, OwnerInv, DataInv, TreeInv, NestInv
<1>1. ASSUME Owner[w] = Root, HasTurn(w)
      PROVE  levels = {} /\ \A r \in RootTxns : ~ Alive(r)
  <2>1. ASSUME NEW r \in RootTxns, pc[r] \in Active PROVE FALSE
    <3>1. r \in Txns /\ r \in Calls /\ Running(r)
      BY <2>1, TxnCall DEF RootTxns
    <3>2. w \in Calls /\ w \notin Txns
      BY <1>1, WorkCall
    <3> QED BY <1>0, <1>1, <3>1, <3>2, TurnIsAlone
  <2>2. \A r \in RootTxns : ~ Alive(r)
    BY <1>0, <2>1, AliveIsActive DEF RootTxns
  <2> QED BY <1>0, <2>1, <2>2 DEF LevelInv
<1>2. ASSUME Start(w), work[w] \in {"new", "queued"}, UNCHANGED scopeVars,
             Owner[w] = Root => HasTurn(w), Owner[w] # Root => MayUse(Owner[w])
      PROVE  NestInv' /\ NestedStep
  <2>1. CASE w \in Streams
    BY <1>2, <2>1, QuietNest DEF Start, OpenStream, NestedStep
  <2>2. CASE w \notin Streams
    <3>1. ASSUME Owner[w] # Root
          PROVE  Live(Owner[w]) /\ pc[Owner[w]] = "running" /\ Children(Owner[w]) = {}
      <4>1. Owner[w] \in Txns /\ Children(Owner[w]) = {} /\ \A a \in Line[Owner[w]] : open[a]
        BY <1>2, <3>1 DEF MayUse, AssertOpen, ScopeIsOpen, AssertNoStream
      <4> QED BY <1>0, <4>1, OpenIsLive, Lines
    <3>2. MayWrite(w)
      BY <1>1, <1>2, <3>1 DEF MayWrite
    <3>3. MayStep(w) /\ Statement(w)
      BY <1>0, <1>2, <2>2, FirstStep DEF Start
    <3> QED BY <1>0, <1>2, <3>2, <3>3, StatementImplements
  <2> QED BY <2>1, <2>2
<1>3. CASE Issue(w) \/ EndStream(w) \/ StreamCloses(w)
  BY <1>3, QuietNest DEF Issue, EndStream, StreamCloses, NestedStep
<1>4. CASE Turn(w)
  <2>1. CASE Start(w)
    BY <1>2, <1>4, <2>1, WorkCall DEF Turn
  <2>2. CASE UNCHANGED <<part, engineVars>>
    BY <1>4, <2>2, QuietNest DEF Turn, NestedStep
  <2> QED BY <1>4, <2>1, <2>2 DEF Turn
<1>5. CASE Use(w)
  <2>1. CASE MayUse(Owner[w]) /\ Start(w)
    BY <1>2, <1>5, <2>1, WorkCall DEF Use
  <2>2. CASE UNCHANGED <<part, queueVars, engineVars>>
    BY <1>5, <2>2, QuietNest DEF Use, NestedStep
  <2> QED BY <1>5, <2>1, <2>2 DEF Use
<1>6. CASE BatchGoesOn(w)
  <2>1. MayStep(w) /\ Statement(w) /\ UNCHANGED scopeVars /\ work[w] = "busy"
    BY <1>0, <1>6, BusyStep DEF BatchGoesOn
  <2>2. ASSUME Owner[w] # Root
        PROVE  Live(Owner[w]) /\ pc[Owner[w]] = "running" /\ Children(Owner[w]) = {}
    <3>1. w \in NestedWorks /\ Owner[w] \in Txns
      BY <2>2 DEF NestedWorks, RootWorks
    <3>2. pc[Owner[w]] = "running" /\ Children(Owner[w]) = {} /\ Kind[w] = "batch"
      BY <1>0, <2>1, <3>1 DEF BatchInv
    <3>3. "transaction" \notin Unawaited
      BY <3>1, <3>2 DEF NoStrayBatch
    <3>4. \A a \in Line[Owner[w]] : open[a]
      BY <1>0, <3>1, <3>2, <3>3, AllRun, Lines DEF RunningInv
    <3> QED BY <1>0, <3>1, <3>2, <3>4, OpenIsLive, Lines
  <2>3. MayWrite(w)
    BY <1>1, <2>1, <2>2 DEF MayWrite, MayStep
  <2> QED BY <1>0, <2>1, <2>3, StatementImplements
<1> QED BY <1>3, <1>4, <1>5, <1>6

LEMMA TransactionsImplement ==
  ASSUME Disciplined, DurabilityInv, NestInv, NEW t \in Txns,
         IssueTransaction(t) \/ TransactionTurn(t) \/ Nest(t) \/ Return(t) \/ Throw(t)
           \/ Commit(t) \/ Undo(t)
  PROVE  NestInv' /\ NestedStep
<1>0. TypeOK /\ QueueType /\ ScopeType /\ EngineType /\ OwnerInv /\ TicketInv /\ ScopeInv
      /\ TreeInv /\ FreshInv /\ DataInv /\ UpInv /\ BeganInv
  BY TypeParts DEF DurabilityInv, IInv, OwnerInv, TreeInv, NestInv
<1>1. ASSUME pc[t] \in {"none", "queued"}, NEW state \in {"queued", "refused"},
             pc' = [pc EXCEPT ![t] = state], UNCHANGED <<open, began, engineVars>>
      PROVE  NestInv' /\ NestedStep
  BY <1>0, <1>1, RefusalImplements DEF NestedStep
<1>2. ASSUME pc[t] \in {"none", "queued"}, Enter(t), \A a \in Around(t) : open[a],
             \A u \in Txns : Alive(u) => u \in Around(t) /\ Depth[u] < Depth[t],
             \A u \in Txns : Parent[u] = Parent[t] => ~ Alive(u)
      PROVE  NestInv' /\ NestedStep
  <2>1. EnterNest(t)
    BY <1>0, <1>2, EnterImplements
  <2> QED BY <2>1 DEF EnterNest, NestedStep, Nested!Next
<1>3. CASE IssueTransaction(t)
  BY <1>1, <1>3 DEF IssueTransaction
<1>4. CASE TransactionTurn(t)
  <2>1. t \in RootTxns /\ pc[t] = "queued" /\ HasTurn(t)
    BY <1>4 DEF TransactionTurn
  <2>2. Parent[t] = Root /\ t \in Calls /\ ~ Running(t) /\ Around(t) = {}
    BY <2>1, TxnCall, AroundIs DEF RootTxns, Active
  <2>3. \A r \in RootTxns : ~ Alive(r)
    BY <1>0, <2>1, <2>2, RootAlive
  <2>4. \A u \in Txns : ~ Alive(u)
    BY <1>0, <2>3, RootOf, AliveUp, Lines DEF RootTxns
  <2>5. CASE Enter(t)
    BY <1>2, <2>1, <2>2, <2>4, <2>5
  <2>6. CASE pc' = [pc EXCEPT ![t] = "refused"] /\ UNCHANGED <<open, began, engineVars>>
    BY <1>1, <2>1, <2>6
  <2> QED BY <1>4, <2>5, <2>6 DEF TransactionTurn
<1>5. CASE Nest(t)
  <2>1. t \in Txns \ RootTxns /\ pc[t] = "none"
    BY <1>5 DEF Nest
  <2>2. CASE MayUse(Parent[t]) /\ Enter(t)
    <3>1. PICK p \in Txns : p = Parent[t] /\ Around(t) = Line[p] /\ Depth[t] = Depth[p] + 1
      BY <2>1, AroundIs, Lines DEF RootTxns
    <3>2. Children(p) = {} /\ \A a \in Line[p] : open[a]
      BY <2>2, <3>1 DEF MayUse, AssertOpen, ScopeIsOpen, AssertNoStream
    <3>3. Alive(p) /\ p \in Line[p] /\ Depth[p] \in Nat
      BY <1>0, <3>2, OpenIsLive, LiveIsAlive, Lines
    <3>4. \A c \in Txns : Parent[c] = p => ~ Alive(c)
      BY <1>0, <3>2, AliveChildIsActive
    <3>5. \A u \in Txns : Alive(u) => u = p \/ (u \in Around(p) /\ Depth[u] < Depth[p])
      BY <1>0, <3>3, <3>4, AliveInside
    <3>6. \A u \in Txns : Alive(u) => u \in Around(t) /\ Depth[u] < Depth[t]
      BY <3>1, <3>3, <3>5 DEF Around
    <3> QED BY <1>2, <2>1, <2>2, <3>1, <3>2, <3>4, <3>6
  <2>3. CASE pc' = [pc EXCEPT ![t] = "refused"] /\ UNCHANGED <<open, began, engineVars>>
    BY <1>1, <2>1, <2>3
  <2> QED BY <1>5, <2>2, <2>3 DEF Nest
<1>6. CASE Return(t) \/ Throw(t)
  BY <1>0, <1>6, CallbackImplements DEF NestedStep
<1>7. CASE Commit(t)
  BY <1>0, <1>7, CommitImplements DEF NestedStep, Nested!Next
<1>8. CASE Undo(t)
  BY <1>0, <1>8, UndoImplements DEF NestedStep, Nested!Next
<1> QED BY <1>3, <1>4, <1>5, <1>6, <1>7, <1>8

LEMMA InitImplements == Init => NestInv /\ Nested!Init
<1> SUFFICES ASSUME Init PROVE NestInv /\ Nested!Init
  OBVIOUS
<1>1. \A t \in Txns : ~ began[t] /\ ~ Alive(t) /\ pc[t] = "none"
  BY DEF Init, Alive
<1>2. NestInv
  BY <1>1 DEF NestInv, BeganInv, RunningInv, UpInv, AliveInv, Active
<1>3. \A t \in Txns : TxnStatus[t] = "idle" /\ HeldEffects[t] = {}
  BY <1>1, StatusIs, HeldIs
<1>4. TxnStatus = [t \in Txns |-> "idle"]
  BY <1>3, AbstractFunctions
<1>5. HeldEffects = [t \in Txns |-> {}]
  BY <1>3, AbstractFunctions
<1> QED BY <1>2, <1>4, <1>5 DEF Init, Nested!Init

LEMMA StepImplements ==
  ASSUME Disciplined, NoStrayBatch, DurabilityInv, NestInv, [Next]_vars
  PROVE  NestInv' /\ NestedStep
<1>1. CASE UNCHANGED vars
  BY <1>1, QuietNest DEF vars, scopeVars, engineVars, NestedStep
<1>2. CASE CloseCall \/ CloseQueues \/ CloseTurn
  BY <1>2, QuietNest DEF CloseCall, CloseQueues, CloseTurn, NestedStep
<1> QED BY <1>1, <1>2, WorksImplement, TransactionsImplement DEF Next

\* Every step of the runtime is a begin, a write, a commit or an abort of nested
\* transactions, the engine dropping all of them, or changes no data: what is nested
\* begins inside what is alive, writes go to the innermost transaction only, what
\* is committed goes to its parent or becomes durable, and of what is aborted
\* nothing is left, in it or in anything nested in it (runtime.ts:213-388).
THEOREM NestingHolds == ASSUME Disciplined, NoStrayBatch PROVE Spec => ImplementsNested
<1>1. Init => DurabilityInv /\ NestInv /\ Nested!Init
  BY InitDurability, InitImplements
<1>2. ASSUME DurabilityInv, NestInv, [Next]_vars
      PROVE  DurabilityInv' /\ NestInv' /\ [Nested!Next]_(Nested!abstractVars)
  <2>1. DurabilityInv'
    BY <1>2, StepKeepsDurability, StutterKeepsDurability
  <2> QED BY <1>2, <2>1, StepImplements DEF NestedStep, Nested!abstractVars
<1> QED BY <1>1, <1>2, PTL DEF Spec, ImplementsNested, Nested!Spec
===============================================================================
