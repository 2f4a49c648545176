----------------------------- MODULE PgTransaction -----------------------------
(***************************************************************************)
(* One root transaction of the PostgreSQL runtime                          *)
(* (packages/postgres/src/runtime.ts) with its nested transactions, on one *)
(* client leased from the pool.  The client sends commands in the order    *)
(* they are issued; the server answers them one by one, and the answer     *)
(* resumes whoever awaited it.  Between two awaits the code runs without   *)
(* interruption, so an action is what happens from one await to the next.  *)
(*                                                                         *)
(* What the callbacks do is open: they issue work, leave some of it        *)
(* running, nest, return or throw.                                         *)
(***************************************************************************)
EXTENDS Integers, Sequences, FiniteSets

CONSTANTS
  Scopes, Root,  \* the root transaction and the nested ones that may be started
  Parent,        \* [Scopes \ {Root} -> Scopes]
  Depth,         \* [Scopes -> Nat], 1 for the root
  Works,         \* the work the callbacks may issue
  Kind,          \* [Works -> Kinds]
  Size,          \* [Works -> Nat], queries of a batch or a pipeline; 1 for the others
  NoWork,
  Unawaited,     \* what a callback may leave running when it ends
  Concurrent,    \* a callback may use its scope while a nested one or a COPY starts or runs
  MaxWork, MaxNested, \* bounds: the work and the nested transactions of one behaviour
  MayBreak       \* the connection may break

Kinds == {"execute", "batch", "pipeline", "stream", "copy"}

ASSUME ConstantsAssumption ==
  /\ Root \in Scopes
  /\ Parent \in [Scopes \ {Root} -> Scopes]
  /\ Depth \in [Scopes -> Nat \ {0}]
  /\ Depth[Root] = 1
  /\ \A s \in Scopes \ {Root} : Depth[s] = Depth[Parent[s]] + 1
  /\ Kind \in [Works -> Kinds]
  /\ Size \in [Works -> Nat \ {0}]
  /\ \A w \in Works : Kind[w] \notin {"batch", "pipeline"} => Size[w] = 1
  /\ NoWork \notin Works
  /\ Unawaited \subseteq Kinds \cup {"nested"}
  /\ Concurrent \in BOOLEAN /\ MayBreak \in BOOLEAN
  /\ MaxWork \in Nat /\ MaxNested \in Nat

VARIABLES
  pc,           \* where each scope's transaction call is
  open,         \* #transactionScopeOpen
  failed,       \* #transactionOperationFailed
  valid,        \* transactionState.valid
  unsafeDepth,  \* transactionState.unsafeDepth, 0 while unsafe is false
  discard,      \* transactionState.discardLease
  activeCopy,   \* transactionState.activeCopy
  work,         \* the state of each piece of work
  waits,        \* the work a scope is settling
  lease,        \* what became of the client
  releases,     \* how often the finalizers released it
  queue,        \* commands sent, not yet answered
  conn,         \* the server's view: "idle", "txn", "aborted" or "closed"
  frames,       \* the server's savepoint stack with the effects since each
  committed,    \* effects that are durable
  torn          \* a connection broke under COMMIT

scopeVars  == <<pc, open, failed, waits>>
stateVars  == <<valid, unsafeDepth, discard, activeCopy>>
leaseVars  == <<lease, releases>>
serverVars == <<conn, frames, committed, torn>>
vars == <<pc, open, failed, waits, valid, unsafeDepth, discard, activeCopy, work,
          lease, releases, queue, conn, frames, committed, torn>>

PCs == {"none", "opening", "running", "leaked", "settling", "ending", "undoing",
        "fulfilled", "threw"}
WorkStates == {"new", "created", "loading", "busy", "closing", "done", "failed"}
Finished   == {"done", "failed"}
Effects    == UNION {{<<w, i>> : i \in 1..Size[w]} : w \in Works}
Ended      == {"fulfilled", "threw"}
RootOps    == {"BEGIN", "COMMIT", "ROLLBACK"}
NestedOps  == {"SAVEPOINT", "RELEASE", "ROLLBACK TO"}

Work    == [scope : Scopes, state : WorkStates, part : Nat, bad : BOOLEAN]
Command == [op : RootOps, scope : {Root}] \cup [op : NestedOps, scope : Scopes \ {Root}]
             \cup [op : {"query"}, work : Works]

TypeOK ==
  /\ pc \in [Scopes -> PCs]
  /\ open \in [Scopes -> BOOLEAN] /\ failed \in [Scopes -> BOOLEAN]
  /\ waits \in [Scopes -> SUBSET Works]
  /\ valid \in BOOLEAN /\ discard \in BOOLEAN /\ torn \in BOOLEAN
  /\ unsafeDepth \in {0} \cup {Depth[s] : s \in Scopes}
  /\ activeCopy \in Works \cup {NoWork}
  /\ work \in [Works -> Work]
  /\ lease \in {"held", "returned", "discarded"} /\ releases \in Nat
  /\ queue \in Seq(Command)
  /\ conn \in {"idle", "txn", "aborted", "closed"}
  /\ frames \in Seq([scope : Scopes, effects : SUBSET Effects])
  /\ committed \subseteq Effects

Init ==
  /\ pc = [s \in Scopes |-> IF s = Root THEN "opening" ELSE "none"]
  /\ open = [s \in Scopes |-> FALSE]
  /\ failed = [s \in Scopes |-> FALSE]
  /\ waits = [s \in Scopes |-> {}]
  /\ valid = TRUE /\ unsafeDepth = 0 /\ discard = FALSE
  /\ activeCopy = NoWork
  /\ work = [w \in Works |-> [scope |-> Root, state |-> "new", part |-> 0, bad |-> FALSE]]
  /\ lease = "held" /\ releases = 0
  /\ queue = <<[op |-> "BEGIN", scope |-> Root]>>
  /\ conn = "idle" /\ frames = << >> /\ committed = {} /\ torn = FALSE

-------------------------------------------------------------------------------
(***************************************************************************)
(* Bookkeeping shared by the scopes of one transaction.                    *)
(***************************************************************************)
Min2(a, b) == IF a < b THEN a ELSE b

MarkUnsafe_KeepsLease(s) ==
  /\ discard' = discard
  /\ unsafeDepth' = IF unsafeDepth = 0 THEN Depth[s] ELSE Min2(unsafeDepth, Depth[s])

\* #markTransactionStateUnsafe, for the scope s
MarkUnsafe(s) ==
  /\ discard' = TRUE
  /\ unsafeDepth' = IF unsafeDepth = 0 THEN Depth[s] ELSE Min2(unsafeDepth, Depth[s])

\* #recordTransactionOperationFailure
RecordFailure(s) == failed' = [failed EXCEPT ![s] = TRUE] /\ MarkUnsafe(s)

\* #recoverTransactionStateAfterSavepoint
Recovers_Deeper(s) == unsafeDepth > Depth[s]
Recovers(s) == unsafeDepth >= Depth[s]

\* #assertTransactionScopeOpen
ScopeOpen(s) == open[s] /\ valid /\ ~ failed[s] /\ unsafeDepth = 0

Busy(kind) == {w \in Works : Kind[w] = kind /\ work[w].state \in {"busy", "closing"}}

\* The #rejectOperationDuring... checks of an operation of this kind.
Unhindered(kind) ==
  /\ Busy("stream") = {} /\ Busy("batch") = {} /\ Busy("pipeline") = {}
  /\ activeCopy = NoWork
  /\ kind \in {"pipeline", "copy"} => Busy("execute") = {}

Children(s) == {c \in Scopes \ {Root} : Parent[c] = s}
Nesting(s)  == {c \in Children(s) : pc[c] \notin Ended \cup {"none"}}

\* The callback of s may use its scope now.  Unless Concurrent, it waits for a
\* nested transaction and for a COPY it has started.
Sequential(s) ==
  Nesting(s) = {} /\ \A w \in Works : work[w].scope = s => work[w].state # "loading"

MayUse(s, kind) ==
  /\ Concurrent \/ Sequential(s)
  /\ ScopeOpen(s)
  /\ Unhindered(kind)

Query(w) == [op |-> "query", work |-> w]
Send(commands) == queue' = queue \o commands
Goto(s, label) == pc' = [pc EXCEPT ![s] = label]
Finish(w, state) == work' = [work EXCEPT ![w].state = state]

\* What the scope must settle before it may end: work it owns, and whatever
\* else occupies the client.
Owned(s) == {w \in Works : work[w].scope = s /\ work[w].state = "created"}
Tracked_WithoutBatches(s) ==
  Owned(s) \cup Busy("execute") \cup Busy("stream") \cup Busy("pipeline")
    \cup ({activeCopy} \ {NoWork})
Tracked(s) ==
  Owned(s) \cup Busy("execute") \cup Busy("stream") \cup Busy("batch") \cup Busy("pipeline")
    \cup ({activeCopy} \ {NoWork})

-------------------------------------------------------------------------------
(***************************************************************************)
(* Work: execute and all, batch, pipeline, stream and COPY FROM.           *)
(***************************************************************************)
Issue(s, w) ==
  /\ work[w].state = "new"
  /\ Cardinality({v \in Works : work[v].state # "new"}) < MaxWork
  /\ MayUse(s, Kind[w])
  /\ LET start(state) ==
           work' = [work EXCEPT ![w] = [scope |-> s, state |-> state, part |-> 1, bad |-> FALSE]]
     IN  CASE Kind[w] = "stream" -> start("created") /\ UNCHANGED queue
           [] Kind[w] = "copy"   -> start("loading") /\ UNCHANGED queue
           [] Kind[w] = "pipeline" -> start("busy") /\ Send([i \in 1..Size[w] |-> Query(w)])
           [] OTHER -> start("busy") /\ Send(<<Query(w)>>)
  /\ UNCHANGED <<scopeVars, stateVars, leaseVars, serverVars>>

\* The first next() of a stream opens its cursor, or is refused.
StartStream(w) ==
  /\ work[w].state = "created"
  /\ IF ScopeOpen(work[w].scope) /\ Unhindered("stream")
     THEN Finish(w, "busy") /\ Send(<<Query(w)>>)
     ELSE Finish(w, "failed") /\ UNCHANGED queue
  /\ UNCHANGED <<scopeVars, stateVars, leaseVars, serverVars>>

Closing_StartedOnly(w) ==
  /\ Kind[w] = "stream"
  /\ work[w].state = "busy" /\ Finish(w, "closing") /\ Send(<<Query(w)>>)

\* The stream is exhausted or closed: its cursor is closed behind its reads.
Closing(w) ==
  /\ Kind[w] = "stream"
  /\ \/ work[w].state = "created" /\ Finish(w, "done") /\ UNCHANGED queue
     \/ work[w].state = "busy" /\ Finish(w, "closing") /\ Send(<<Query(w)>>)

CloseStream(w) ==
  /\ Closing(w)
  /\ UNCHANGED <<scopeVars, stateVars, leaseVars, serverVars>>

\* #copyFrom after its await of ensureCopy: nothing is checked again.
StartCopy(w) ==
  /\ Kind[w] = "copy" /\ work[w].state = "loading"
  /\ \/ Finish(w, "busy") /\ activeCopy' = w /\ Send(<<Query(w)>>)
     \/ Finish(w, "failed") /\ UNCHANGED <<activeCopy, queue>>
  /\ UNCHANGED <<scopeVars, valid, unsafeDepth, discard, leaseVars, serverVars>>

\* A signal or a deadline fires for a controlled execution: the lease is
\* destroyed at once, the query is rejected later.
LeaseGone_Forgotten == FALSE
LeaseGone == lease # "held"

Cancel(w) ==
  /\ Kind[w] = "execute" /\ work[w].state = "busy"
  /\ MarkUnsafe(work[w].scope)
  /\ lease' = "discarded" /\ releases' = IF lease = "held" THEN releases + 1 ELSE releases
  /\ conn' = "closed" /\ frames' = << >>
  /\ UNCHANGED <<scopeVars, valid, activeCopy, work, queue, committed, torn>>

-------------------------------------------------------------------------------
(***************************************************************************)
(* The server answers a query.                                             *)
(***************************************************************************)
IsHead(op) == queue # << >> /\ Head(queue).op = op
Answer(commands) == queue' = Tail(queue) \o commands

\* A stream is two commands, its reads and the close of its cursor.
Parts(w) == IF Kind[w] = "stream" THEN 2 ELSE Size[w]

EffectsNow(w) == IF Kind[w] = "stream" THEN {} ELSE {<<w, work[w].part>>}

\* Outside a transaction a query commits by itself.
ServerRuns(w) ==
  \/ /\ conn = "txn"
     /\ frames' = [frames EXCEPT ![Len(frames)].effects = @ \cup EffectsNow(w)]
     /\ UNCHANGED <<conn, committed, torn>>
  \/ /\ conn = "idle"
     /\ committed' = committed \cup EffectsNow(w)
     /\ UNCHANGED <<conn, frames, torn>>

ServerRejects ==
  /\ conn' = IF conn = "txn" THEN "aborted" ELSE conn
  /\ UNCHANGED <<frames, committed, torn>>

GoesOn_PastTheEnd(w, ok) ==
  /\ work[w].part <= Parts(w)
  /\ CASE Kind[w] = "batch"  -> ok /\ ScopeOpen(work[w].scope)
       [] Kind[w] = "stream" -> ok \/ work[w].state = "closing"
       [] OTHER -> TRUE

\* A batch looks at its scope before each query; a pipeline has sent them all.
GoesOn(w, ok) ==
  /\ work[w].part < Parts(w)
  /\ CASE Kind[w] = "batch"  -> ok /\ ScopeOpen(work[w].scope)
       [] Kind[w] = "stream" -> ok \/ work[w].state = "closing"
       [] OTHER -> TRUE

Resume(w, ok) ==
  LET bad == work[w].bad \/ ~ ok \/ (work[w].part < Parts(w) /\ ~ GoesOn(w, ok))
  IN  IF GoesOn(w, ok)
      THEN /\ Answer(IF Kind[w] = "batch" THEN <<Query(w)>> ELSE << >>)
           /\ work' = [work EXCEPT ![w].part = @ + 1, ![w].bad = bad]
           /\ UNCHANGED <<failed, discard, unsafeDepth, activeCopy>>
      ELSE /\ Answer(<< >>)
           /\ Finish(w, IF bad THEN "failed" ELSE "done")
           /\ IF bad THEN RecordFailure(work[w].scope)
              ELSE UNCHANGED <<failed, discard, unsafeDepth>>
           /\ activeCopy' = IF activeCopy = w THEN NoWork ELSE activeCopy

\* The last disjunct but one is a result the client cannot decode.
AnswerQuery ==
  /\ IsHead("query")
  /\ LET w == Head(queue).work
     IN  \/ ServerRuns(w) /\ Resume(w, TRUE)
         \/ ServerRuns(w) /\ Resume(w, FALSE)
         \/ ServerRejects /\ Resume(w, FALSE)
  /\ UNCHANGED <<pc, open, waits, valid, leaseVars>>

-------------------------------------------------------------------------------
(***************************************************************************)
(* A transaction begins: BEGIN for the root, SAVEPOINT for a nested one.   *)
(***************************************************************************)
Enter(s) ==
  /\ frames' = Append(frames, [scope |-> s, effects |-> {}])
  /\ open' = [open EXCEPT ![s] = TRUE]
  /\ Goto(s, "running")

AnswerBegin ==
  /\ IsHead("BEGIN")
  /\ Answer(<< >>)
  /\ \/ conn = "idle" /\ conn' = "txn" /\ Enter(Root)
        /\ UNCHANGED <<failed, discard, unsafeDepth, valid>>
     \/ /\ conn = "closed" /\ RecordFailure(Root) /\ Goto(Root, "settling")
        /\ valid' = FALSE
        /\ UNCHANGED <<conn, frames, open>>
  /\ UNCHANGED <<waits, activeCopy, work, leaseVars, committed, torn>>

StartNested(s) ==
  /\ s # Root /\ pc[s] = "none"
  /\ Cardinality({n \in Scopes \ {Root} : pc[n] # "none"}) < MaxNested
  /\ MayUse(Parent[s], "nested")
  /\ Send(<<[op |-> "SAVEPOINT", scope |-> s]>>)
  /\ Goto(s, "opening")
  /\ UNCHANGED <<open, failed, waits, stateVars, work, leaseVars, serverVars>>

AnswerSavepoint ==
  /\ IsHead("SAVEPOINT")
  /\ Answer(<< >>)
  /\ LET s == Head(queue).scope
     IN  IF conn = "txn"
         THEN Enter(s) /\ UNCHANGED <<failed, discard, unsafeDepth>>
         ELSE RecordFailure(Parent[s]) /\ Goto(s, "threw") /\ UNCHANGED <<frames, open>>
  /\ UNCHANGED <<waits, valid, activeCopy, work, leaseVars, conn, committed, torn>>

-------------------------------------------------------------------------------
(***************************************************************************)
(* A callback ends, and its scope settles what is left.                    *)
(***************************************************************************)
Running(s) ==
  {w \in Works : work[w].scope = s /\ work[w].state \notin {"new"} \cup Finished}

CallbackMayEnd(s) ==
  /\ pc[s] = "running"
  /\ \A w \in Running(s) : Kind[w] \in Unawaited
  /\ Nesting(s) = {} \/ "nested" \in Unawaited

CloseScope(s) ==
  /\ open' = [open EXCEPT ![s] = FALSE]
  /\ valid' = (valid /\ s # Root)

Await(s, label) ==
  /\ Goto(s, label)
  /\ waits' = [waits EXCEPT ![s] = Tracked(s)]

\* #throwIfTransactionCannotCommit, and the check for a parent that has ended
CannotCommit_ChecksParentOnly(s) == ~ valid
CannotCommit(s) == failed[s] \/ unsafeDepth # 0 \/ ~ valid

Return(s) ==
  /\ CallbackMayEnd(s)
  /\ CloseScope(s)
  /\ IF CannotCommit(s) THEN Await(s, "settling") /\ UNCHANGED queue
     ELSE IF Tracked(s) # {} THEN Await(s, "leaked") /\ UNCHANGED queue
     ELSE /\ Send(<<[op |-> IF s = Root THEN "COMMIT" ELSE "RELEASE", scope |-> s]>>)
          /\ Goto(s, "ending")
          /\ UNCHANGED waits
  /\ UNCHANGED <<failed, unsafeDepth, discard, activeCopy, work, leaseVars, serverVars>>

Throw(s) ==
  /\ CallbackMayEnd(s)
  /\ CloseScope(s)
  /\ Await(s, "settling")
  /\ UNCHANGED <<failed, unsafeDepth, discard, activeCopy, work, leaseVars, queue, serverVars>>

Settling(s) == pc[s] \in {"leaked", "settling"}

SettleStream(s) ==
  /\ Settling(s)
  /\ \E w \in waits[s] : Closing(w)
  /\ UNCHANGED <<scopeVars, stateVars, leaseVars, serverVars>>

MustUndo_RootOnly(s) == ~ LeaseGone /\ s = Root
MustUndo(s) == ~ LeaseGone /\ (s = Root \/ valid)

Settled(s) ==
  /\ Settling(s)
  /\ \A w \in waits[s] : work[w].state \in Finished
  /\ CASE pc[s] = "leaked" -> Await(s, "settling") /\ UNCHANGED queue
       [] pc[s] = "settling" /\ MustUndo(s) ->
            /\ Send(<<[op |-> IF s = Root THEN "ROLLBACK" ELSE "ROLLBACK TO", scope |-> s]>>)
            /\ Goto(s, "undoing")
            /\ UNCHANGED waits
       [] OTHER -> Goto(s, "threw") /\ UNCHANGED <<waits, queue>>
  /\ UNCHANGED <<open, failed, stateVars, work, leaseVars, serverVars>>

-------------------------------------------------------------------------------
(***************************************************************************)
(* The server ends a nested transaction: RELEASE or ROLLBACK TO the latest *)
(* savepoint of that name, which is made of the depth alone.               *)
(***************************************************************************)
Named(s) == {i \in DOMAIN frames : i > 1 /\ Depth[frames[i].scope] = Depth[s]}
Latest(s) == {i \in Named(s) : \A j \in Named(s) : j <= i}

AnswerRelease ==
  /\ IsHead("RELEASE")
  /\ Answer(<< >>)
  /\ LET s == Head(queue).scope
     IN  \/ /\ conn = "txn"
            /\ \E k \in Latest(s) :
                 frames' = [SubSeq(frames, 1, k - 1) EXCEPT ![k - 1].effects =
                   UNION {frames[i].effects : i \in (k - 1)..Len(frames)}]
            /\ Goto(s, "fulfilled")
            /\ UNCHANGED <<failed, discard, unsafeDepth, waits, conn>>
         \/ /\ conn # "txn" \/ Named(s) = {}
            /\ RecordFailure(s)
            /\ Await(s, "settling")
            /\ conn' = IF conn = "txn" THEN "aborted" ELSE conn
            /\ UNCHANGED frames
  /\ UNCHANGED <<open, valid, activeCopy, work, leaseVars, committed, torn>>

AnswerRollbackTo ==
  /\ IsHead("ROLLBACK TO")
  /\ Answer(<< >>)
  /\ LET s == Head(queue).scope
     IN  /\ Goto(s, "threw")
         /\ \/ /\ conn \in {"txn", "aborted"}
               /\ \E k \in Latest(s) :
                    frames' = [SubSeq(frames, 1, k) EXCEPT ![k].effects = {}]
               /\ conn' = "txn"
               /\ unsafeDepth' = IF Recovers(s) THEN 0 ELSE unsafeDepth
               /\ UNCHANGED discard
            \/ /\ conn \notin {"txn", "aborted"} \/ Named(s) = {}
               /\ MarkUnsafe(s)
               /\ conn' = IF conn = "txn" THEN "aborted" ELSE conn
               /\ UNCHANGED frames
  /\ UNCHANGED <<open, failed, waits, valid, activeCopy, work, leaseVars, committed, torn>>

-------------------------------------------------------------------------------
(***************************************************************************)
(* The root ends: COMMIT or ROLLBACK, then the lease is released, for      *)
(* reuse or, after any failure of an operation, to be destroyed.           *)
(***************************************************************************)
ReleaseLease(dirty) ==
  /\ lease' = IF dirty THEN "discarded" ELSE "returned"
  /\ releases' = releases + 1

AllEffects == UNION {frames[i].effects : i \in DOMAIN frames}

\* COMMIT of an aborted transaction rolls back, and is not an error.
AnswerCommit ==
  /\ IsHead("COMMIT")
  /\ Answer(<< >>)
  /\ frames' = << >>
  /\ \/ /\ conn # "closed"
        /\ conn' = "idle"
        /\ committed' = committed \cup (IF conn = "txn" THEN AllEffects ELSE {})
        /\ Goto(Root, "fulfilled")
        /\ ReleaseLease(discard)
        /\ UNCHANGED <<failed, discard, unsafeDepth, waits>>
     \/ /\ conn \in {"txn", "closed"}
        /\ conn' = IF conn = "txn" THEN "idle" ELSE conn
        /\ RecordFailure(Root)
        /\ Await(Root, "settling")
        /\ UNCHANGED <<committed, leaseVars>>
  /\ UNCHANGED <<open, valid, activeCopy, work, torn>>

AnswerRollback ==
  /\ IsHead("ROLLBACK")
  /\ Answer(<< >>)
  /\ frames' = << >>
  /\ Goto(Root, "threw")
  /\ IF conn = "closed"
     THEN MarkUnsafe(Root) /\ ReleaseLease(TRUE) /\ UNCHANGED conn
     ELSE conn' = "idle" /\ ReleaseLease(discard) /\ UNCHANGED <<discard, unsafeDepth>>
  /\ UNCHANGED <<open, failed, waits, valid, activeCopy, work, committed, torn>>

\* The connection breaks; a COMMIT the server was working on may have landed.
Break ==
  /\ MayBreak /\ conn # "closed"
  /\ conn' = "closed" /\ frames' = << >>
  /\ IF IsHead("COMMIT") /\ conn = "txn"
     THEN torn' = TRUE /\ committed' \in {committed, committed \cup AllEffects}
     ELSE UNCHANGED <<torn, committed>>
  /\ UNCHANGED <<scopeVars, stateVars, work, leaseVars, queue>>

Answers ==
  \/ AnswerQuery \/ AnswerBegin \/ AnswerSavepoint \/ AnswerRelease \/ AnswerRollbackTo
  \/ AnswerCommit \/ AnswerRollback

Next ==
  \/ Answers \/ Break
  \/ \E w \in Works : StartStream(w) \/ CloseStream(w) \/ StartCopy(w) \/ Cancel(w)
  \/ \E s \in Scopes :
       \/ \E w \in Works : Issue(s, w)
       \/ StartNested(s) \/ Return(s) \/ Throw(s) \/ SettleStream(s) \/ Settled(s)

Spec == Init /\ [][Next]_vars

\* The server answers, and a continuation that can run does.
Fairness ==
  /\ WF_vars(Answers)
  /\ \A s \in Scopes : WF_vars(SettleStream(s)) /\ WF_vars(Settled(s))
  /\ \A w \in Works : WF_vars(StartCopy(w))
FairSpec == Spec /\ Fairness

-------------------------------------------------------------------------------
(***************************************************************************)
(* Properties.                                                             *)
(***************************************************************************)
\* s and the transactions it is nested in: what every set has that has s and the
\* parent of whatever it has.
Line == [s \in Scopes |->
  {t \in Scopes : \A S \in SUBSET Scopes :
     s \in S /\ (\A u \in S \ {Root} : Parent[u] \in S) => t \in S}]

\* What the promises the callbacks have seen fulfilled amount to.
Promised ==
  {e \in Effects :
     LET w == e[1]
     IN  /\ Kind[w] # "stream" /\ work[w].state = "done"
         /\ \A s \in Line[work[w].scope] \ {Root} : pc[s] = "fulfilled"}

(* Atomicity as the callbacks see it: a fulfilled transaction has made durable
   exactly the work that was fulfilled in it and in its fulfilled nested
   transactions, a rejected one nothing, unless the connection broke under
   COMMIT - never a silent rollback (transaction, nestedTransaction). *)
AllOrNothing ==
  IF pc[Root] = "fulfilled" THEN committed = Promised
  ELSE committed = {} \/ (torn /\ committed = Promised)

(* When the transaction's promise settles, nothing of it is still running or
   will run later (rejectLeakedTransactionWork and the settle calls). *)
NothingLeftBehind ==
  pc[Root] \in Ended =>
    queue = << >> /\ \A w \in Works : work[w].state \in {"new"} \cup Finished

(* A client goes back to the pool for reuse only as it came: outside any
   transaction and with no operation on it having failed. *)
CleanReturn ==
  lease = "returned" => conn \in {"idle", "closed"} /\ \A s \in Scopes : ~ failed[s]

(* The client is released exactly once, also when a cancelled query destroyed
   it in the middle of the transaction. *)
LeaseReleasedOnce == releases = IF lease = "held" THEN 0 ELSE 1

MarkHasCause ==
  unsafeDepth # 0 =>
    \/ conn = "closed"
    \/ \E s \in Scopes : failed[s] /\ pc[s] \notin Ended /\ Depth[s] = unsafeDepth
    \/ pc[Root] = "threw"

\* A query of it has failed, and its caller has yet to hear of it.
Spoiled(w) ==
  Kind[w] \in {"pipeline", "stream"} /\ work[w].state \in {"busy", "closing"} /\ work[w].bad

(* The mark of a transaction is as old as its failure: it is marked unsafe only for
   a scope that has yet to be rolled back, or because its connection is lost, so
   that a parent is never blocked by a failure that its savepoint has undone; and
   as long as the server refuses its commands it is marked, unless the work that
   failed is still to report it, so that no rollback of a deeper savepoint takes
   the mark away too early (recoverTransactionStateAfterSavepoint). *)
MarkIsLive ==
  /\ MarkHasCause
  /\ conn = "aborted" => unsafeDepth # 0 \/ \E w \in Works : Spoiled(w)

(* Whatever the callbacks left running, every transaction call settles once
   its callback has ended. *)
Settles == \A s \in Scopes : pc[s] \in {"leaked", "settling", "ending", "undoing"} ~> pc[s] \in Ended
===============================================================================
