---------------------------- MODULE SqliteDatabase ----------------------------
(***************************************************************************)
(* The SQLite runtime (packages/sqlite/src/runtime.ts): root calls take    *)
(* turns on one synchronous handle through a chain of promises             *)
(* (ExclusiveQueue), transactions nest by savepoints inside the turn of    *)
(* their root, streams keep what they opened until they are closed, and    *)
(* close() waits for its turn like every other call.                       *)
(*                                                                         *)
(* A statement runs in the step that issues it.  What interleaves are the  *)
(* continuations: turns, the later queries of a batch, the closing of      *)
(* streams, the ends of callbacks.                                         *)
(***************************************************************************)
EXTENDS Integers, FiniteSets

CONSTANTS
  Root,        \* the database itself, owner of root calls
  Close,       \* the call of close()
  Txns,        \* transactions that may be started
  Parent,      \* [Txns -> Txns \cup {Root}]
  Line,        \* [Txns -> SUBSET Txns], a transaction and those it is nested in
  Depth,       \* [Txns -> Nat], the number in its savepoint's name; 1 for BEGIN
  Works,       \* queries, batches and streams that may be started
  Owner,       \* [Works -> Txns \cup {Root}]
  Kind,        \* [Works -> Kinds]
  Size,        \* [Works -> Nat], queries of a batch; 1 for the others
  Unawaited,   \* what a callback may leave running: "batch", "transaction"
  EngineRollsBack \* a failing statement may roll back the whole transaction

Kinds == {"query", "batch", "stream"}

RootTxns  == {t \in Txns : Parent[t] = Root}
RootWorks == {w \in Works : Owner[w] = Root}
Calls     == RootTxns \cup RootWorks \cup {Close}
Streams   == {w \in Works : Kind[w] = "stream"}

ASSUME ConstantsAssumption ==
  /\ Root \notin Txns /\ Close \notin Txns \cup Works /\ Txns \cap Works = {}
  /\ Parent \in [Txns -> Txns \cup {Root}]
  /\ Line \in [Txns -> SUBSET Txns]
  /\ \A t \in Txns : Line[t] = {t} \cup (IF Parent[t] = Root THEN {} ELSE Line[Parent[t]])
  /\ Depth \in [Txns -> Nat \ {0}]
  /\ \A t \in Txns : Depth[t] = IF Parent[t] = Root THEN 1 ELSE Depth[Parent[t]] + 1
  /\ Owner \in [Works -> Txns \cup {Root}]
  /\ Kind \in [Works -> Kinds]
  /\ Size \in [Works -> Nat \ {0}]
  /\ \A w \in Works : Kind[w] # "batch" => Size[w] = 1
  /\ Unawaited \subseteq {"batch", "transaction"}
  /\ EngineRollsBack \in BOOLEAN

VARIABLES
  ticket,   \* a root call's place in the chain of promises, 0 before it has one
  next,     \* the place the next acquire() gets
  serving,  \* the place whose predecessors have all released
  closing,  \* how far close() has come
  pc,       \* where each transaction() call is
  open,     \* #scopeOpen of its scope
  began,    \* its BEGIN or SAVEPOINT was executed
  work,     \* the state of each query, batch and stream
  part,     \* the statements of it that have been executed
  levels,   \* the engine: open savepoints by depth, 1 for BEGIN
  pending,  \* the engine: effects since each of them
  durable   \* the engine: committed effects

queueVars  == <<ticket, next, serving>>
scopeVars  == <<pc, open, began>>
workVars   == <<work, part>>
engineVars == <<levels, pending, durable>>
vars == <<ticket, next, serving, closing, pc, open, began, work, part, levels, pending, durable>>

Active     == {"running", "returned", "failing"}
PCs        == Active \cup {"none", "queued", "refused", "fulfilled", "threw"}
WorkStates == {"new", "queued", "refused", "busy", "open", "closing", "done", "failed"}
Effects    == UNION {{<<w, i>> : i \in 1..Size[w]} : w \in Works}
Depths     == {Depth[t] : t \in Txns}

TypeOK ==
  /\ ticket \in [Calls -> Nat] /\ next \in Nat \ {0} /\ serving \in 1..next
  /\ closing \in {"no", "streams", "queued", "closed"}
  /\ pc \in [Txns -> PCs]
  /\ open \in [Txns -> BOOLEAN] /\ began \in [Txns -> BOOLEAN]
  /\ work \in [Works -> WorkStates]
  /\ part \in [Works -> Nat] /\ \A w \in Works : part[w] <= Size[w]
  /\ levels \subseteq Depths
  /\ pending \in [Depths -> SUBSET Effects]
  /\ durable \subseteq Effects

Init ==
  /\ ticket = [c \in Calls |-> 0] /\ next = 1 /\ serving = 1
  /\ closing = "no"
  /\ pc = [t \in Txns |-> "none"]
  /\ open = [t \in Txns |-> FALSE] /\ began = [t \in Txns |-> FALSE]
  /\ work = [w \in Works |-> "new"] /\ part = [w \in Works |-> 0]
  /\ levels = {} /\ pending = [d \in Depths |-> {}] /\ durable = {}

-------------------------------------------------------------------------------
(***************************************************************************)
(* ExclusiveQueue: each acquire() waits for the release of the one before. *)
(***************************************************************************)
Acquire(c) ==
  /\ ticket' = [ticket EXCEPT ![c] = next]
  /\ next' = next + 1
  /\ UNCHANGED serving

HasTurn_Anybody(c) == ticket[c] # 0

HasTurn(c) == ticket[c] = serving

Release == serving' = serving + 1 /\ UNCHANGED <<ticket, next>>

ReleaseOf_Scopes(owner) == Release

\* the release of a root call that has ended; scopes never acquired
ReleaseOf(owner) == IF owner = Root THEN Release ELSE UNCHANGED queueVars

-------------------------------------------------------------------------------
(***************************************************************************)
(* The engine.  Savepoints are named after depths, so the open ones are a  *)
(* set of depths; the largest is the innermost.                            *)
(***************************************************************************)
Innermost(d) == d \in levels /\ \A e \in levels : e <= d

Insert(effect) ==
  /\ UNCHANGED levels
  /\ \/ levels = {} /\ durable' = durable \cup {effect} /\ UNCHANGED pending
     \/ \E d \in levels :
          /\ Innermost(d)
          /\ pending' = [pending EXCEPT ![d] = @ \cup {effect}]
          /\ UNCHANGED durable

\* everything since the savepoint of depth d, or since BEGIN
Since(d) == UNION {pending[e] : e \in {f \in levels : f >= d}}

Cleared(d) == [e \in Depths |-> IF e >= d THEN {} ELSE pending[e]]

Savepoint(d) ==
  /\ levels' = levels \cup {d}
  /\ pending' = [pending EXCEPT ![d] = {}]
  /\ UNCHANGED durable

\* COMMIT for depth 1, RELEASE SAVEPOINT for the others: the effects go to the
\* savepoint around this one, or become durable when there is none.
Merge(d) ==
  LET around == {e \in levels : e < d} IN
  /\ levels' = around
  /\ IF around = {}
     THEN pending' = Cleared(d) /\ durable' = durable \cup Since(d)
     ELSE /\ \E o \in around :
               /\ \A e \in around : e <= o
               /\ pending' = [Cleared(d) EXCEPT ![o] = @ \cup Since(d)]
          /\ UNCHANGED durable

\* ROLLBACK for depth 1, ROLLBACK TO and RELEASE SAVEPOINT for the others
Rollback(d) ==
  /\ levels' = {e \in levels : e < d}
  /\ pending' = Cleared(d)
  /\ UNCHANGED durable

\* COMMIT and ROLLBACK need a transaction, RELEASE and ROLLBACK TO their savepoint.
Knows(d) == IF d = 1 THEN levels # {} ELSE d \in levels

\* a failing statement undoes itself, or everything
StatementFails ==
  \/ UNCHANGED engineVars
  \/ EngineRollsBack /\ levels # {} /\ Rollback(1)

-------------------------------------------------------------------------------
(***************************************************************************)
(* Scopes.                                                                 *)
(***************************************************************************)
\* #scopeIsOpen
ScopeIsOpen(o) == closing # "closed" /\ (o # Root => \A a \in Line[o] : open[a])

AssertOpen_RootOnly(o) == o = Root => closing = "no"

\* #assertOpen
AssertOpen(o) == ScopeIsOpen(o) /\ (o = Root => closing = "no")

Children(o)    == {t \in Txns : Parent[t] = o /\ pc[t] \in Active}
OpenStreams(o) == {w \in Streams : Owner[w] = o /\ work[w] \in {"open", "closing"}}
Batches(o)     == {w \in Works : Owner[w] = o /\ Kind[w] = "batch" /\ work[w] = "busy"}

AssertNoStream_IgnoresChildren(o) == OpenStreams(o) = {}

\* #assertNoStream
AssertNoStream(o) == (o # Root => Children(o) = {}) /\ OpenStreams(o) = {}

Within(t) == {u \in Txns : t \in Line[u]}

CloseStreams_ScopesOnly(owners) ==
  work' = [w \in Works |->
             IF w \in Streams /\ Owner[w] \in owners \ {Root} /\ work[w] = "open"
             THEN "closing" ELSE work[w]]

\* #closeStreams of a scope: close() of every open stream of it and of its children
CloseStreams(owners) ==
  work' = [w \in Works |->
             IF w \in Streams /\ Owner[w] \in owners /\ work[w] = "open" THEN "closing" ELSE work[w]]

StreamsClosed(owners) == \A w \in Streams : Owner[w] \in owners => work[w] # "closing"

\* The callback of t does not await anything that is still running.
Free(t) ==
  /\ Batches(t) = {} \/ "batch" \in Unawaited
  /\ Children(t) = {} \/ "transaction" \in Unawaited

\* Somebody holds the scope of t: its callback, or a task that has kept it.
Holds(t) == pc[t] \in Active \cup {"fulfilled", "threw"} /\ (pc[t] = "running" => Free(t))

-------------------------------------------------------------------------------
(***************************************************************************)
(* Queries, batches, streams.                                              *)
(***************************************************************************)
\* The next statement of a query or a batch.  Nothing is checked again between
\* two statements of a batch.
Statement(w) ==
  \/ /\ Insert(<<w, part[w] + 1>>)
     /\ part' = [part EXCEPT ![w] = @ + 1]
     /\ IF part[w] + 1 = Size[w]
        THEN work' = [work EXCEPT ![w] = "done"] /\ ReleaseOf(Owner[w])
        ELSE work' = [work EXCEPT ![w] = "busy"] /\ UNCHANGED queueVars
  \/ /\ StatementFails
     /\ work' = [work EXCEPT ![w] = "failed"]
     /\ ReleaseOf(Owner[w])
     /\ UNCHANGED part

\* the connection's iterate(): the stream is registered, or it fails
OpenStream(w) ==
  /\ UNCHANGED <<part, engineVars>>
  /\ \/ work' = [work EXCEPT ![w] = "open"] /\ UNCHANGED queueVars
     \/ work' = [work EXCEPT ![w] = "failed"] /\ ReleaseOf(Owner[w])

Start(w) == IF w \in Streams THEN OpenStream(w) ELSE Statement(w)

\* all(), batch() or the first next() of a stream, on the database
Issue(w) ==
  /\ w \in RootWorks /\ work[w] = "new"
  /\ IF AssertOpen(Root) /\ AssertNoStream(Root)
     THEN work' = [work EXCEPT ![w] = "queued"] /\ Acquire(w)
     ELSE work' = [work EXCEPT ![w] = "refused"] /\ UNCHANGED queueVars
  /\ UNCHANGED <<closing, scopeVars, part, engineVars>>

\* The turn of that call: the database may have been closed meanwhile.
Turn(w) ==
  /\ w \in RootWorks /\ work[w] = "queued" /\ HasTurn(w)
  /\ IF AssertOpen(Root)
     THEN Start(w)
     ELSE work' = [work EXCEPT ![w] = "refused"] /\ Release /\ UNCHANGED <<part, engineVars>>
  /\ UNCHANGED <<closing, scopeVars>>

\* the same on a scope, which does not wait for a turn
MayUse(t) == AssertOpen(t) /\ AssertNoStream(t)

Use(w) ==
  /\ w \notin RootWorks /\ work[w] = "new" /\ Holds(Owner[w])
  /\ IF MayUse(Owner[w])
     THEN Start(w)
     ELSE work' = [work EXCEPT ![w] = "refused"] /\ UNCHANGED <<part, queueVars, engineVars>>
  /\ UNCHANGED <<closing, scopeVars>>

BatchGoesOn(w) ==
  /\ work[w] = "busy"
  /\ Statement(w)
  /\ UNCHANGED <<closing, scopeVars>>

\* The consumer closes a stream, exhausts it, or meets an error in it.
EndStream(w) ==
  /\ work[w] = "open"
  /\ work' = [work EXCEPT ![w] = "closing"]
  /\ UNCHANGED <<queueVars, closing, scopeVars, part, engineVars>>

\* close() of a stream goes on once its start has settled: iterator.return, release
StreamCloses(w) ==
  /\ work[w] = "closing"
  /\ work' = [work EXCEPT ![w] = "done"]
  /\ ReleaseOf(Owner[w])
  /\ UNCHANGED <<closing, scopeVars, part, engineVars>>

-------------------------------------------------------------------------------
(***************************************************************************)
(* transaction().                                                          *)
(***************************************************************************)
\* BEGIN or SAVEPOINT, then the callback is called; or it throws.
Enter(t) ==
  \/ /\ Depth[t] = 1 => levels = {}
     /\ Savepoint(Depth[t])
     /\ pc' = [pc EXCEPT ![t] = "running"]
     /\ open' = [open EXCEPT ![t] = TRUE]
     /\ began' = [began EXCEPT ![t] = TRUE]
  \/ /\ pc' = [pc EXCEPT ![t] = "failing"]
     /\ UNCHANGED <<open, began, engineVars>>

IssueTransaction(t) ==
  /\ t \in RootTxns /\ pc[t] = "none"
  /\ IF AssertOpen(Root) /\ AssertNoStream(Root)
     THEN pc' = [pc EXCEPT ![t] = "queued"] /\ Acquire(t)
     ELSE pc' = [pc EXCEPT ![t] = "refused"] /\ UNCHANGED queueVars
  /\ UNCHANGED <<closing, open, began, workVars, engineVars>>

TransactionTurn(t) ==
  /\ t \in RootTxns /\ pc[t] = "queued" /\ HasTurn(t)
  /\ IF AssertOpen(Root)
     THEN Enter(t) /\ UNCHANGED queueVars
     ELSE pc' = [pc EXCEPT ![t] = "refused"] /\ Release /\ UNCHANGED <<open, began, engineVars>>
  /\ UNCHANGED <<closing, workVars>>

Nest(t) ==
  /\ t \notin RootTxns /\ pc[t] = "none" /\ Holds(Parent[t])
  /\ IF MayUse(Parent[t])
     THEN Enter(t)
     ELSE pc' = [pc EXCEPT ![t] = "refused"] /\ UNCHANGED <<open, began, engineVars>>
  /\ UNCHANGED <<queueVars, closing, workVars>>

\* The callback ends: its scope closes, its streams are closed, and a child that
\* is still active is an error.
CallbackEnds(t, outcome) ==
  /\ pc[t] = "running" /\ Free(t)
  /\ pc' = [pc EXCEPT ![t] = outcome]
  /\ open' = [open EXCEPT ![t] = FALSE]
  /\ CloseStreams(Within(t))
  /\ UNCHANGED <<queueVars, closing, began, part, engineVars>>

Leaked_Never(t) == FALSE

Leaked(t) == Children(t) # {}

Return(t) == CallbackEnds(t, IF Leaked(t) THEN "failing" ELSE "returned")

Throw(t) == CallbackEnds(t, "failing")

\* The streams are closed: COMMIT or RELEASE, unless the parent has ended.
Commit(t) ==
  /\ pc[t] = "returned" /\ StreamsClosed(Within(t))
  /\ \/ /\ ScopeIsOpen(Parent[t]) /\ Knows(Depth[t])
        /\ Merge(Depth[t])
        /\ pc' = [pc EXCEPT ![t] = "fulfilled"]
        /\ ReleaseOf(Parent[t])
     \/ /\ pc' = [pc EXCEPT ![t] = "failing"]
        /\ UNCHANGED <<queueVars, engineVars>>
  /\ UNCHANGED <<closing, open, began, workVars>>

\* The catch block: ROLLBACK or ROLLBACK TO, whose own failure is ignored.
Undoes(t) == began[t] /\ ScopeIsOpen(Parent[t])

Undo(t) ==
  /\ pc[t] = "failing" /\ StreamsClosed(Within(t))
  /\ IF Undoes(t) /\ Knows(Depth[t]) THEN Rollback(Depth[t]) ELSE UNCHANGED engineVars
  /\ pc' = [pc EXCEPT ![t] = "threw"]
  /\ ReleaseOf(Parent[t])
  /\ UNCHANGED <<closing, open, began, workVars>>

-------------------------------------------------------------------------------
(***************************************************************************)
(* close() of the database.                                                *)
(***************************************************************************)
CloseCall ==
  /\ closing = "no"
  /\ closing' = "streams"
  /\ CloseStreams(Txns \cup {Root})
  /\ UNCHANGED <<queueVars, scopeVars, part, engineVars>>

\* Nobody else can take a ticket any more, so it does not matter that a stream
\* opened by a transaction since then is waited for as well.
CloseQueues ==
  /\ closing = "streams" /\ StreamsClosed(Txns \cup {Root})
  /\ closing' = "queued"
  /\ Acquire(Close)
  /\ UNCHANGED <<scopeVars, workVars, engineVars>>

CloseTurn ==
  /\ closing = "queued" /\ HasTurn(Close)
  /\ closing' = "closed"
  /\ Release
  /\ UNCHANGED <<scopeVars, workVars, engineVars>>

-------------------------------------------------------------------------------
Next ==
  \/ \E w \in Works : Issue(w) \/ Turn(w) \/ Use(w) \/ BatchGoesOn(w) \/ EndStream(w) \/ StreamCloses(w)
  \/ \E t \in Txns : IssueTransaction(t) \/ TransactionTurn(t) \/ Nest(t)
                       \/ Return(t) \/ Throw(t) \/ Commit(t) \/ Undo(t)
  \/ CloseCall \/ CloseQueues \/ CloseTurn

Spec == Init /\ [][Next]_vars

\* Continuations run, and callbacks end.  Nobody is made to issue anything, to
\* finish a stream, or to close the database.
Fairness ==
  /\ \A w \in Works : WF_vars(Turn(w)) /\ WF_vars(BatchGoesOn(w)) /\ WF_vars(StreamCloses(w))
  /\ \A t \in Txns : /\ WF_vars(TransactionTurn(t)) /\ WF_vars(Return(t) \/ Throw(t))
                     /\ WF_vars(Commit(t)) /\ WF_vars(Undo(t))
  /\ WF_vars(CloseQueues) /\ WF_vars(CloseTurn)

FairSpec == Spec /\ Fairness
-------------------------------------------------------------------------------
(***************************************************************************)
(* Properties.                                                             *)
(***************************************************************************)
\* A root call that has the handle
Running(c) == \/ c \in RootTxns /\ pc[c] \in Active
              \/ c \in RootWorks /\ work[c] \in {"busy", "open", "closing"}

\* One root call at a time has the handle, be it a transaction over all its
\* callbacks, a batch between two of its queries, or a stream until it is closed,
\* and never once the database is closed: ExclusiveQueue (runtime.ts:80-107) loses
\* no turn and gives none twice, whichever call fails, is refused or is closed.  And
\* a transaction that has ended leaves no transaction open on the handle for the
\* next caller (runtime.ts:364-388).
OneOwner ==
  /\ \A c, d \in Calls : Running(c) /\ Running(d) => c = d
  /\ closing = "closed" => \A c \in Calls : ~ Running(c)
  /\ levels # {} => \E t \in RootTxns : pc[t] \in Active

\* What a call on the database has written is durable, although it may be issued at
\* any time next to a transaction (runtime.ts:217, 247-255).  What a scope has
\* written is durable once it and all around it were fulfilled: across callbacks
\* that catch and children that fail (runtime.ts:341-388).  When the engine has rolled
\* the transaction back by itself, COMMIT fails, unless a transaction nested in a
\* nested one was left running and has opened a transaction of its own since.
SuccessIsDurable ==
  \A w \in Works :
    (Owner[w] = Root \/ \A a \in Line[Owner[w]] : pc[a] = "fulfilled") =>
      \A i \in 1..part[w] : <<w, i>> \in durable

Ended(t) == pc[t] \in {"fulfilled", "threw"}

\* Nothing runs for a transaction that has ended, for any that is nested in it, or
\* after close() has settled: no statement, and no stream is opened
\* (runtime.ts:213, 246, 266, 417-424).
NothingAfterEnd ==
  [][\A w \in Works :
       (closing = "closed" \/ (Owner[w] # Root /\ \E a \in Line[Owner[w]] : Ended(a))) =>
         part'[w] = part[w] /\ ~ (work[w] # "open" /\ work'[w] = "open")]_vars

\* close() settles, and with it every call that was waiting, although nobody else
\* has to close the streams that are open (runtime.ts:393-409): no call keeps a
\* turn it has been refused, and no stream survives unseen.
CloseEnds ==
  closing # "no" ~>
    /\ closing = "closed"
    /\ \A t \in RootTxns : pc[t] \notin Active \cup {"queued"}
    /\ \A w \in RootWorks : work[w] \notin {"queued", "busy", "open", "closing"}
===============================================================================
