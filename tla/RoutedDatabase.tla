---------------------------- MODULE RoutedDatabase ----------------------------
(***************************************************************************)
(* The routed database (packages/core/src/routing.ts): one primary, some   *)
(* replicas that lag behind it, contexts that are pinned to the primary    *)
(* once they have written, and transactions that are retried under a       *)
(* policy.                                                                 *)
(*                                                                         *)
(* A call of execute, all, one or maybeOne is a member of Ops; the view it *)
(* goes through (context, preference) and what the semantic resolver says  *)
(* of its query are constants.  Views made with withRoute share the pin of *)
(* their context.  A call of transaction() is a member of Txns.  The       *)
(* databases are external: the primary is a log of who has committed, a    *)
(* replica has applied a prefix of it, and Database.transaction either     *)
(* commits all of a callback's work or none of it.                         *)
(***************************************************************************)
EXTENDS Integers, Sequences, FiniteSets

CONSTANTS
  Contexts, Replicas, Ops, Txns,
  Context,          \* of an op or a transaction
  Preference,       \* of an op: "auto", "primary", "replica"
  Automatic,        \* queryRoute of an op's query: "replica" when it is proven safe
  Writes,           \* the ops that change data
  MaximumAttempts,  \* of the retry policy; 1 when there is none
  MaxQueries        \* bound: queries of one run of a callback

ASSUME RoutedAssumption ==
  /\ Context \in [Ops \cup Txns -> Contexts]
  /\ Preference \in [Ops -> {"auto", "primary", "replica"}]
  /\ Automatic \in [Ops -> {"primary", "replica"}]
  /\ Writes \subseteq {o \in Ops : Automatic[o] = "primary"}
  /\ Ops \cap Txns = {}
  /\ MaximumAttempts \in Nat \ {0} /\ MaxQueries \in Nat

Primary == "primary"
ASSUME ReplicasAssumption == Replicas \cap {"new", "done", "failed", Primary} = {}

VARIABLES
  pinned,     \* primaryPinned of a context
  log,        \* the ops and transactions the primary has committed, in order
  applied,    \* how much of the log a replica has applied
  op,         \* of an op: "new", the database it was sent to, "done", "failed"
  floor,      \* what an op must see at least: what its context had got from the primary
  saw,        \* the part of the log a read was answered from
  known,      \* of a context: the part of the log its primary work has established
  txn,        \* "new", "beginning", "running", "committing", "waiting", "resolved", "rejected"
  attempt,
  queries,    \* queries of this run of the callback
  marked,     \* databaseErrors: the errors that queries of this attempt raised
  kept,       \* an error that the callback has caught and may throw later on
  thrown,     \* the error that ended the last attempt
  aborted     \* policy.signal

opVars == <<op, floor, saw>>
txnVars == <<txn, attempt, queries, marked, kept, thrown, aborted>>
vars == <<pinned, log, applied, opVars, known, txnVars>>

\* An error is its native code and the attempt whose database raised it (0: none did).
Codes == {"transient", "other"}
NoError == [code |-> "none", raised |-> 0]
Error(code, raised) == [code |-> code, raised |-> raised]

Init ==
  /\ pinned = [c \in Contexts |-> FALSE]
  /\ log = <<>> /\ applied = [r \in Replicas |-> 0]
  /\ op = [o \in Ops |-> "new"]
  /\ floor = [o \in Ops |-> 0] /\ saw = [o \in Ops |-> 0]
  /\ known = [c \in Contexts |-> 0]
  /\ txn = [t \in Txns |-> "new"] /\ attempt = [t \in Txns |-> 0]
  /\ queries = [t \in Txns |-> 0]
  /\ marked = [t \in Txns |-> {}] /\ kept = [t \in Txns |-> NoError]
  /\ thrown = [t \in Txns |-> NoError] /\ aborted = [t \in Txns |-> FALSE]

-------------------------------------------------------------------------------
(* Routing: #target and #dispatch *)

\* UnsafeReplicaRoutingError, before anything is sent
Unsafe(o) ==
  Preference[o] = "replica" /\ (Automatic[o] # "replica" \/ pinned[Context[o]] \/ Replicas = {})

Requested(o) == IF Preference[o] = "auto" THEN Automatic[o] ELSE Preference[o]

Route(o) == IF pinned[Context[o]] \/ Replicas = {} THEN "primary" ELSE Requested(o)

\* Variant: only an explicit preference pins.
Pins_Explicit(o) == Route(o) = "primary" /\ Preference[o] = "primary"

\* What pins the context.  A read that may go to a replica does not, even when there
\* is no replica to take it.
Pins(o) == Route(o) = "primary" /\ (Automatic[o] = "primary" \/ Preference[o] = "primary")

\* The round robin or the injected selector, which may also answer an invalid index
Send(o) ==
  /\ op[o] = "new"
  /\ \/ /\ Unsafe(o)
        /\ op' = [op EXCEPT ![o] = "failed"]
        /\ UNCHANGED pinned
     \/ /\ ~ Unsafe(o) /\ Route(o) = "replica"
        /\ \/ \E r \in Replicas : op' = [op EXCEPT ![o] = r]
           \/ op' = [op EXCEPT ![o] = "failed"]
        /\ UNCHANGED pinned
     \/ /\ ~ Unsafe(o) /\ Route(o) = "primary"
        /\ op' = [op EXCEPT ![o] = Primary]
        /\ pinned' = [pinned EXCEPT ![Context[o]] = @ \/ Pins(o)]
  /\ floor' = [floor EXCEPT ![o] = known[Context[o]]]
  /\ UNCHANGED <<log, applied, saw, known, txnVars>>

Later(a, b) == IF a < b THEN b ELSE a

Learn(c, position) == known' = [known EXCEPT ![c] = Later(@, position)]

\* The answer of the database that an op was sent to.  What the context has learnt
\* through work that pins it is what later reads must not fall behind.
Answer(o) ==
  /\ op[o] \in Replicas \cup {Primary}
  /\ \/ /\ o \in Writes
        /\ log' = Append(log, o) /\ op' = [op EXCEPT ![o] = "done"]
        /\ Learn(Context[o], Len(log')) /\ UNCHANGED saw
     \/ /\ o \notin Writes
        /\ saw' = [saw EXCEPT ![o] = IF op[o] = Primary THEN Len(log) ELSE applied[op[o]]]
        /\ op' = [op EXCEPT ![o] = "done"]
        /\ IF Automatic[o] = "primary" \/ Preference[o] = "primary"
             THEN Learn(Context[o], Len(log)) ELSE UNCHANGED known
        /\ UNCHANGED log
     \/ /\ op' = [op EXCEPT ![o] = "failed"]
        /\ UNCHANGED <<log, saw, known>>
  /\ UNCHANGED <<pinned, applied, floor, txnVars>>

Replicate(r) ==
  /\ applied[r] < Len(log)
  /\ applied' = [applied EXCEPT ![r] = @ + 1]
  /\ UNCHANGED <<pinned, log, opVars, known, txnVars>>

\* pinPrimary() of the application, which keeps to the primary from here on
PinPrimary(c) ==
  /\ ~ pinned[c]
  /\ pinned' = [pinned EXCEPT ![c] = TRUE]
  /\ Learn(c, Len(log))
  /\ UNCHANGED <<log, applied, opVars, txnVars>>

-------------------------------------------------------------------------------
(* transaction() *)

Set(t, s) == txn' = [txn EXCEPT ![t] = s]
TxnStep == UNCHANGED <<applied, opVars>>
Same == UNCHANGED <<pinned, log, known>>

\* Variant: one set of marks for all attempts.
Marks_Kept(t) == marked[t]

\* Every attempt has a WeakSet of its own.
Marks(t) == {}

\* Variant: an attempt after the first one is not counted.
StartAttempt_Uncounted(t) ==
  /\ thrown' = [thrown EXCEPT ![t] = NoError]
  /\ IF aborted[t]
       THEN Set(t, "rejected") /\ UNCHANGED <<attempt, queries, marked>>
       ELSE /\ Set(t, "beginning")
            /\ attempt' = [attempt EXCEPT ![t] = Later(@, 1)]
            /\ queries' = [queries EXCEPT ![t] = 0]
            /\ marked' = [marked EXCEPT ![t] = Marks(t)]

\* The head of the loop: the signal is looked at, and an attempt begins.
StartAttempt(t) ==
  /\ thrown' = [thrown EXCEPT ![t] = NoError]
  /\ IF aborted[t]
       THEN Set(t, "rejected") /\ UNCHANGED <<attempt, queries, marked>>
       ELSE /\ Set(t, "beginning")
            /\ attempt' = [attempt EXCEPT ![t] = @ + 1]
            /\ queries' = [queries EXCEPT ![t] = 0]
            /\ marked' = [marked EXCEPT ![t] = Marks(t)]

Start(t) ==
  /\ txn[t] = "new"
  /\ pinned' = [pinned EXCEPT ![Context[t]] = TRUE]
  /\ StartAttempt(t)
  /\ UNCHANGED <<log, known, kept, aborted>> /\ TxnStep

\* Variant: a connection lost at COMMIT counts as worth another attempt.
Classify_Lost(e) == e.code \in {"transient", "lost"}

\* isPostgresRetryableTransactionError, isMySqlRetryableTransactionError: a deadlock or
\* a serialization failure, which the server has rolled back
Classify(e) == e.code = "transient"

\* Variant: one attempt more than the policy allows.
Caught_OneMore(t, e, outside) ==
  /\ thrown' = [thrown EXCEPT ![t] = e]
  /\ IF attempt[t] <= MaximumAttempts /\ (outside \/ e \in marked[t]) /\ Classify(e)
       THEN Set(t, "waiting") ELSE Set(t, "rejected")

\* The catch of the loop.  outside: the callback had not started or had completed.
Caught(t, e, outside) ==
  /\ thrown' = [thrown EXCEPT ![t] = e]
  /\ IF attempt[t] < MaximumAttempts /\ (outside \/ e \in marked[t]) /\ Classify(e)
       THEN Set(t, "waiting") ELSE Set(t, "rejected")

Begin(t) ==
  /\ txn[t] = "beginning"
  /\ \/ Set(t, "running") /\ UNCHANGED thrown
     \/ \E code \in Codes : Caught(t, Error(code, attempt[t]), TRUE)
  /\ UNCHANGED <<attempt, queries, marked, kept, aborted>> /\ Same /\ TxnStep

\* A query of the callback through its scope fails: #dispatch marks the error, and
\* the callback keeps it or forgets it.  Queries that succeed change nothing here.
QueryFails(t, code) ==
  /\ txn[t] = "running" /\ queries[t] < MaxQueries
  /\ LET e == Error(code, attempt[t]) IN
       /\ queries' = [queries EXCEPT ![t] = @ + 1]
       /\ marked' = [marked EXCEPT ![t] = @ \cup {e}]
       /\ kept' \in {kept, [kept EXCEPT ![t] = e]}
  /\ UNCHANGED <<txn, attempt, thrown, aborted>> /\ Same /\ TxnStep

\* The callback throws: an error it has caught in this attempt or an earlier one, or
\* one of its own, which may resemble a driver's.  The primary rolls back.
CallbackThrows(t) ==
  /\ txn[t] = "running"
  /\ \E e \in ({kept[t]} \ {NoError}) \cup {Error(code, 0) : code \in Codes} : Caught(t, e, FALSE)
  /\ UNCHANGED <<attempt, queries, marked, kept, aborted>> /\ Same /\ TxnStep

CallbackReturns(t) ==
  /\ txn[t] = "running"
  /\ Set(t, "committing")
  /\ UNCHANGED <<attempt, queries, marked, kept, thrown, aborted>> /\ Same /\ TxnStep

\* COMMIT succeeds, fails with nothing committed, or its answer is lost.
Commit(t) ==
  /\ txn[t] = "committing"
  /\ \/ /\ log' = Append(log, t)
        /\ Learn(Context[t], Len(log'))
        /\ Set(t, "resolved") /\ UNCHANGED thrown
     \/ /\ \E code \in Codes : Caught(t, Error(code, attempt[t]), TRUE)
        /\ UNCHANGED <<log, known>>
     \/ /\ Caught(t, Error("lost", attempt[t]), TRUE)
        /\ log' \in {log, Append(log, t)}
        /\ UNCHANGED known
  /\ UNCHANGED <<pinned, attempt, queries, marked, kept, aborted>> /\ TxnStep

\* The policy's backoff answers no valid delay, or its sleep rejects.
NoDelay(t) ==
  /\ thrown' = [thrown EXCEPT ![t] = NoError]
  /\ Set(t, "rejected") /\ UNCHANGED <<attempt, queries, marked>>

\* The wait is over, or the signal ends it.
Wake(t) ==
  /\ txn[t] = "waiting"
  /\ StartAttempt(t) \/ NoDelay(t)
  /\ UNCHANGED <<kept, aborted>> /\ Same /\ TxnStep

Abort(t) ==
  /\ ~ aborted[t] /\ txn[t] \notin {"resolved", "rejected"}
  /\ aborted' = [aborted EXCEPT ![t] = TRUE]
  /\ UNCHANGED <<txn, attempt, queries, marked, kept, thrown>> /\ Same /\ TxnStep

-------------------------------------------------------------------------------
OpNext(o) == Send(o) \/ Answer(o)
TxnProceeds(t) == Begin(t) \/ CallbackThrows(t) \/ CallbackReturns(t) \/ Commit(t) \/ Wake(t)

Next ==
  \/ \E o \in Ops : OpNext(o)
  \/ \E r \in Replicas : Replicate(r)
  \/ \E c \in Contexts : PinPrimary(c)
  \/ \E t \in Txns :
       \/ Start(t) \/ TxnProceeds(t) \/ Abort(t)
       \/ \E code \in Codes : QueryFails(t, code)

Spec == Init /\ [][Next]_vars

\* The primary answers, a callback ends, and timers fire.
FairSpec == Spec /\ \A t \in Txns : WF_vars(TxnProceeds(t))
-------------------------------------------------------------------------------
TxnStates == {"new", "beginning", "running", "committing", "waiting", "resolved", "rejected"}

RoutingType ==
  /\ pinned \in [Contexts -> BOOLEAN]
  /\ log \in Seq(Ops \cup Txns) /\ applied \in [Replicas -> 0 .. Len(log)]
  /\ op \in [Ops -> {"new", "done", "failed", Primary} \cup Replicas]
  /\ floor \in [Ops -> 0 .. Len(log)] /\ saw \in [Ops -> 0 .. Len(log)]
  /\ known \in [Contexts -> 0 .. Len(log)]

TxnType ==
  /\ txn \in [Txns -> TxnStates] /\ attempt \in [Txns -> 0 .. MaximumAttempts]
  /\ queries \in [Txns -> 0 .. MaxQueries]
  /\ marked \in [Txns -> SUBSET [code : Codes, raised : Nat]]
  /\ kept \in [Txns -> {NoError} \cup [code : Codes, raised : Nat]]
  /\ thrown \in [Txns -> {NoError} \cup [code : Codes \cup {"lost"}, raised : Nat]]
  /\ aborted \in [Txns -> BOOLEAN]

TypeOK == RoutingType /\ TxnType

\* A read sees at least what its context had written, had committed or had read from
\* the primary on purpose before the read was issued, however far the replicas lag
\* (routing.ts:317-347, the pins of line 245 and line 334).
ReadsItsWrites ==
  \A o \in Ops \ Writes : op[o] = "done" => saw[o] >= floor[o]

Times(t) == Cardinality({i \in DOMAIN log : log[i] = t})

\* However often its callback has run, a transaction is committed at most once: once
\* when the call resolves, and never when it rejects with anything but a lost COMMIT
\* (the catch at routing.ts:272-288 and the classifiers).
AtMostOnce ==
  \A t \in Txns :
    /\ Times(t) <= 1
    /\ txn[t] = "resolved" => Times(t) = 1
    /\ (txn[t] = "rejected" /\ thrown[t].code # "lost") => Times(t) = 0

\* The callback is run again only when the database itself failed the attempt before,
\* in that attempt, and never once the signal has fired: an error of the callback's
\* own, or one it kept from an earlier attempt, ends the call whatever it looks like
\* (routing.ts:251 and routing.ts:273-276).
RetriesAreEarned ==
  [][\A t \in Txns : (attempt[t] > 0 /\ attempt'[t] > attempt[t])
       => thrown[t].raised = attempt[t] /\ ~ aborted[t]]_vars

\* A call of transaction() settles (the bound of routing.ts:249 and the wait of 287).
CallEnds == \A t \in Txns : txn[t] # "new" ~> txn[t] \in {"resolved", "rejected"}
===============================================================================
