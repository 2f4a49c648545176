------------------------- MODULE RoutedDatabaseProofs -------------------------
(***************************************************************************)
(* Proofs about RoutedDatabase, for any contexts, replicas, calls and      *)
(* policy: its type, that reads see what their context has written, that a *)
(* retried transaction is committed at most once, and what earns a retry.  *)
(***************************************************************************)
EXTENDS RoutedDatabase, FiniteSetTheorems, TLAPS

-------------------------------------------------------------------------------
(* The strengthened invariants *)

\* The work whose answer binds its context to the primary
Binding(o) == Automatic[o] = "primary" \/ Preference[o] = "primary"

\* A context that is not pinned has learnt nothing from the primary, so what went to
\* a replica had nothing to catch up with.
PinInv ==
  /\ \A c \in Contexts : ~ pinned[c] => known[c] = 0
  /\ \A o \in Ops : op[o] \in Replicas => floor[o] = 0 /\ ~ Binding(o)
  /\ \A o \in Ops : op[o] = Primary /\ Binding(o) => pinned[Context[o]]
  /\ \A t \in Txns : txn[t] # "new" => pinned[Context[t]]

\* Where a transaction is in the log, and what ended its last attempt
CommitInv ==
  \A t \in Txns :
    /\ \A i, j \in 1 .. Len(log) : log[i] = t /\ log[j] = t => i = j
    /\ \A i \in 1 .. Len(log) :
         log[i] = t => txn[t] = "resolved" \/ (txn[t] = "rejected" /\ thrown[t].code = "lost")
    /\ txn[t] = "resolved" => \E i \in 1 .. Len(log) : log[i] = t

\* An error that calls for another attempt was raised by the database in this one.
RetryInv ==
  \A t \in Txns :
    /\ \A e \in marked[t] : e.raised = attempt[t]
    /\ txn[t] = "waiting" => thrown[t].raised = attempt[t] /\ thrown[t].code = "transient"
    /\ txn[t] = "waiting" => attempt[t] < MaximumAttempts
    /\ txn[t] = "new" => attempt[t] = 0
    /\ txn[t] \in {"beginning", "running", "committing", "waiting"} => attempt[t] > 0

-------------------------------------------------------------------------------
(* Lemmas *)

LEMMA LogGrows ==
  ASSUME RoutingType, NEW x \in Ops \cup Txns
  PROVE  /\ Append(log, x) \in Seq(Ops \cup Txns)
         /\ Len(log) \in Nat
         /\ Len(Append(log, x)) = Len(log) + 1
         /\ \A i \in 1 .. Len(log) : Append(log, x)[i] = log[i]
         /\ Append(log, x)[Len(log) + 1] = x
BY DEF RoutingType

LEMMA LearnType ==
  ASSUME RoutingType, NEW c \in Contexts, NEW n \in Nat, NEW k \in 0 .. n, Len(log) <= n, Learn(c, k)
  PROVE  known' \in [Contexts -> 0 .. n]
<1>1. Len(log) \in Nat
  BY DEF RoutingType
<1>2. \A d \in Contexts : known[d] \in 0 .. n
  BY <1>1 DEF RoutingType
<1>3. Later(known[c], k) \in 0 .. n
  BY <1>2 DEF Later
<1> QED BY <1>2, <1>3 DEF RoutingType, Learn

\* A longer log keeps every bound.
LEMMA LogType ==
  ASSUME RoutingType, NEW x \in Ops \cup Txns, log' = Append(log, x),
         UNCHANGED <<pinned, applied, floor, saw>>,
         op' \in [Ops -> {"new", "done", "failed", Primary} \cup Replicas],
         known' \in [Contexts -> 0 .. Len(log')]
  PROVE  RoutingType'
<1>1. Len(log') = Len(log) + 1 /\ log' \in Seq(Ops \cup Txns) /\ Len(log) \in Nat
  BY LogGrows
<1> QED BY <1>1 DEF RoutingType

LEMMA SendType == ASSUME TypeOK, NEW o \in Ops, Send(o) PROVE TypeOK'
<1>1. UNCHANGED <<log, applied, saw, known, txnVars>>
  BY DEF Send
<1>2. floor' \in [Ops -> 0 .. Len(log)]
  <2>1. known[Context[o]] \in 0 .. Len(log)
    BY RoutedAssumption DEF TypeOK, RoutingType
  <2> QED BY <2>1 DEF TypeOK, RoutingType, Send
<1>3. op' \in [Ops -> {"new", "done", "failed", Primary} \cup Replicas]
  BY DEF TypeOK, RoutingType, Send
<1>4. pinned' \in [Contexts -> BOOLEAN]
  <2>1. CASE UNCHANGED pinned
    BY <2>1 DEF TypeOK, RoutingType
  <2>2. CASE pinned' = [pinned EXCEPT ![Context[o]] = @ \/ Pins(o)]
    <3>1. (pinned[Context[o]] \/ Pins(o)) \in BOOLEAN
      OBVIOUS
    <3> QED BY <2>2, <3>1, Zenon DEF TypeOK, RoutingType
  <2> QED BY <2>1, <2>2 DEF Send
<1>5. RoutingType'
  BY <1>1, <1>2, <1>3, <1>4 DEF TypeOK, RoutingType
<1>6. TxnType'
  BY <1>1 DEF TypeOK, TxnType, txnVars
<1> QED BY <1>5, <1>6 DEF TypeOK

LEMMA AnswerType == ASSUME TypeOK, NEW o \in Ops, Answer(o) PROVE TypeOK'
<1>1. /\ Context[o] \in Contexts /\ Len(log) \in Nat
      /\ UNCHANGED <<pinned, applied, floor, txnVars>>
  BY RoutedAssumption DEF TypeOK, RoutingType, Answer
<1>2. op' \in [Ops -> {"new", "done", "failed", Primary} \cup Replicas]
  BY DEF TypeOK, RoutingType, Answer
<1>3. CASE log' = Append(log, o) /\ Learn(Context[o], Len(log')) /\ UNCHANGED saw
  <2>1. Len(log') = Len(log) + 1
    BY <1>3, LogGrows DEF TypeOK
  <2>2. known' \in [Contexts -> 0 .. Len(log')]
    BY <1>1, <1>3, <2>1, LearnType DEF TypeOK
  <2> QED BY <1>1, <1>2, <1>3, <2>2, LogType DEF TypeOK, TxnType, txnVars
<1>4. CASE /\ saw' = [saw EXCEPT ![o] = IF op[o] = Primary THEN Len(log) ELSE applied[op[o]]]
           /\ Learn(Context[o], Len(log)) \/ UNCHANGED known
           /\ UNCHANGED log
  <2>1. (IF op[o] = Primary THEN Len(log) ELSE applied[op[o]]) \in 0 .. Len(log)
    BY <1>1 DEF TypeOK, RoutingType, Answer
  <2>2. saw' \in [Ops -> 0 .. Len(log)]
    BY <1>4, <2>1 DEF TypeOK, RoutingType
  <2>3. known' \in [Contexts -> 0 .. Len(log)]
    <3>1. CASE Learn(Context[o], Len(log))
      BY <1>1, <3>1, LearnType DEF TypeOK
    <3>2. CASE UNCHANGED known
      BY <3>2 DEF TypeOK, RoutingType
    <3> QED BY <1>4, <3>1, <3>2
  <2> QED BY <1>1, <1>2, <1>4, <2>2, <2>3 DEF TypeOK, RoutingType, TxnType, txnVars
<1>5. CASE UNCHANGED <<log, saw, known>>
  BY <1>1, <1>2, <1>5 DEF TypeOK, RoutingType, TxnType, txnVars
<1> QED BY <1>3, <1>4, <1>5 DEF Answer

LEMMA ReplicateType == ASSUME TypeOK, NEW r \in Replicas, Replicate(r) PROVE TypeOK'
<1>1. RoutingType'
  BY DEF TypeOK, RoutingType, Replicate, opVars
<1>2. TxnType'
  BY DEF TypeOK, TxnType, Replicate, txnVars
<1> QED BY <1>1, <1>2 DEF TypeOK

LEMMA PinType == ASSUME TypeOK, NEW c \in Contexts, PinPrimary(c) PROVE TypeOK'
<1>1. Len(log) \in Nat
  BY DEF TypeOK, RoutingType
<1>2. known' \in [Contexts -> 0 .. Len(log)]
  BY <1>1, LearnType DEF TypeOK, PinPrimary
<1>3. RoutingType'
  BY <1>2 DEF TypeOK, RoutingType, PinPrimary, opVars
<1>4. TxnType'
  BY DEF TypeOK, TxnType, PinPrimary, txnVars
<1> QED BY <1>3, <1>4 DEF TypeOK

LEMMA StartAttemptType ==
  ASSUME TxnType, RetryInv, NEW t \in Txns, StartAttempt(t) \/ NoDelay(t), txn[t] \in {"new", "waiting"},
         UNCHANGED <<kept, aborted>>
  PROVE  TxnType'
<1>1. attempt[t] + 1 \in 0 .. MaximumAttempts
  BY RoutedAssumption DEF TxnType, RetryInv
<1>2. txn' \in [Txns -> TxnStates]
  BY DEF TxnType, TxnStates, StartAttempt, NoDelay, Set
<1>3. attempt' \in [Txns -> 0 .. MaximumAttempts]
  BY <1>1 DEF TxnType, StartAttempt, NoDelay
<1>4. queries' \in [Txns -> 0 .. MaxQueries]
  BY RoutedAssumption DEF TxnType, StartAttempt, NoDelay
<1>5. marked' \in [Txns -> SUBSET [code : Codes, raised : Nat]]
  BY DEF TxnType, StartAttempt, NoDelay, Marks
<1>6. thrown' \in [Txns -> {NoError} \cup [code : Codes \cup {"lost"}, raised : Nat]]
  BY DEF TxnType, StartAttempt, NoDelay
<1> QED BY <1>2, <1>3, <1>4, <1>5, <1>6 DEF TxnType

LEMMA CaughtType ==
  ASSUME TxnType, NEW t \in Txns, NEW e \in [code : Codes \cup {"lost"}, raised : Nat],
         NEW outside \in BOOLEAN, Caught(t, e, outside),
         UNCHANGED <<attempt, queries, marked, kept, aborted>>
  PROVE  TxnType'
<1>1. txn' \in [Txns -> TxnStates]
  BY DEF TxnType, TxnStates, Caught, Set
<1>2. thrown' \in [Txns -> {NoError} \cup [code : Codes \cup {"lost"}, raised : Nat]]
  BY DEF TxnType, Caught
<1> QED BY <1>1, <1>2 DEF TxnType

THEOREM InitType == Init => TypeOK
BY RoutedAssumption DEF Init, TypeOK, RoutingType, TxnType, TxnStates, NoError, Codes

-------------------------------------------------------------------------------
(* What a step of a transaction does *)

\* Where the catch leaves a call, and under which conditions it asks for another attempt.
LEMMA CaughtFacts ==
  ASSUME TxnType, NEW t \in Txns, NEW e, NEW outside \in BOOLEAN, Caught(t, e, outside)
  PROVE  /\ \A u \in Txns \ {t} : txn'[u] = txn[u] /\ thrown'[u] = thrown[u]
         /\ thrown'[t] = e
         /\ txn'[t] \in {"waiting", "rejected"}
         /\ txn'[t] = "waiting" =>
              attempt[t] < MaximumAttempts /\ e.code = "transient" /\ (outside \/ e \in marked[t])
BY DEF TxnType, Caught, Set, Classify

LEMMA StartAttemptFacts ==
  ASSUME TxnType, NEW t \in Txns, StartAttempt(t) \/ NoDelay(t)
  PROVE  /\ \A u \in Txns \ {t} : /\ txn'[u] = txn[u] /\ thrown'[u] = thrown[u]
                                  /\ attempt'[u] = attempt[u] /\ marked'[u] = marked[u]
         /\ thrown'[t] = NoError
         /\ \/ txn'[t] = "rejected" /\ attempt'[t] = attempt[t] /\ marked'[t] = marked[t]
            \/ txn'[t] = "beginning" /\ ~ aborted[t] /\ attempt'[t] = attempt[t] + 1 /\ marked'[t] = {}
<1>1. CASE aborted[t] \/ NoDelay(t)
  BY <1>1 DEF TxnType, StartAttempt, NoDelay, Set
<1>2. CASE ~ aborted[t] /\ StartAttempt(t)
  <2>1. /\ txn' = [txn EXCEPT ![t] = "beginning"] /\ thrown' = [thrown EXCEPT ![t] = NoError]
        /\ attempt' = [attempt EXCEPT ![t] = @ + 1] /\ marked' = [marked EXCEPT ![t] = {}]
    BY <1>2 DEF StartAttempt, Set, Marks
  <2> QED BY <1>2, <2>1 DEF TxnType
<1> QED BY <1>1, <1>2

\* The errors that a step of transaction t hands to the catch, with what they prove
\* about the database
LEMMA ErrorType ==
  ASSUME TxnType, NEW t \in Txns, NEW code \in Codes \cup {"lost"}
  PROVE  /\ Error(code, attempt[t]) \in [code : Codes \cup {"lost"}, raised : Nat]
         /\ Error(code, attempt[t]).raised = attempt[t]
         /\ Error(code, attempt[t]).code = code
BY DEF TxnType, Error

LEMMA ThrownType ==
  ASSUME TxnType, NEW t \in Txns, NEW e \in ({kept[t]} \ {NoError}) \cup {Error(code, 0) : code \in Codes}
  PROVE  e \in [code : Codes, raised : Nat]
BY DEF TxnType, Error

\* The steps of a call that go through the catch
LEMMA CatchCases ==
  ASSUME NEW t \in Txns, Begin(t) \/ CallbackThrows(t) \/ Commit(t), TxnType
  PROVE  \/ /\ txn' = [txn EXCEPT ![t] = "running"] /\ thrown' = thrown
            /\ txn[t] = "beginning" /\ log' = log /\ known' = known
         \/ /\ txn' = [txn EXCEPT ![t] = "resolved"] /\ thrown' = thrown
            /\ txn[t] = "committing" /\ log' = Append(log, t) /\ Learn(Context[t], Len(log'))
         \/ \E e \in [code : Codes \cup {"lost"}, raised : Nat], outside \in BOOLEAN :
              /\ Caught(t, e, outside)
              /\ outside => e.raised = attempt[t]
              /\ log' = log \/ (log' = Append(log, t) /\ e.code = "lost" /\ txn[t] = "committing")
              /\ known' = known
<1>1. CASE Begin(t)
  <2>1. CASE Set(t, "running") /\ UNCHANGED thrown
    BY <1>1, <2>1 DEF Begin, Set, Same
  <2>2. ASSUME NEW code \in Codes, Caught(t, Error(code, attempt[t]), TRUE)
        PROVE  \E e \in [code : Codes \cup {"lost"}, raised : Nat], outside \in BOOLEAN :
                 Caught(t, e, outside) /\ (outside => e.raised = attempt[t])
    BY <2>2, ErrorType
  <2>3. log' = log /\ known' = known
    BY <1>1 DEF Begin, Same
  <2> QED BY <1>1, <2>1, <2>2, <2>3 DEF Begin
<1>2. CASE CallbackThrows(t)
  <2>1. PICK e \in ({kept[t]} \ {NoError}) \cup {Error(code, 0) : code \in Codes} : Caught(t, e, FALSE)
    BY <1>2 DEF CallbackThrows
  <2>2. e \in [code : Codes \cup {"lost"}, raised : Nat]
    BY <2>1, ThrownType
  <2>3. log' = log /\ known' = known
    BY <1>2 DEF CallbackThrows, Same
  <2> QED BY <2>1, <2>2, <2>3
<1>3. CASE Commit(t)
  <2>1. txn[t] = "committing"
    BY <1>3 DEF Commit
  <2>2. CASE log' = Append(log, t) /\ Learn(Context[t], Len(log')) /\ Set(t, "resolved") /\ UNCHANGED thrown
    BY <2>1, <2>2 DEF Set
  <2>3. ASSUME NEW code \in Codes, Caught(t, Error(code, attempt[t]), TRUE), UNCHANGED <<log, known>>
        PROVE  \E e \in [code : Codes \cup {"lost"}, raised : Nat], outside \in BOOLEAN :
                 Caught(t, e, outside) /\ (outside => e.raised = attempt[t]) /\ log' = log /\ known' = known
    BY <2>3, ErrorType
  <2>4. ASSUME Caught(t, Error("lost", attempt[t]), TRUE), log' \in {log, Append(log, t)}, UNCHANGED known
        PROVE  \E e \in [code : Codes \cup {"lost"}, raised : Nat], outside \in BOOLEAN :
                 /\ Caught(t, e, outside) /\ (outside => e.raised = attempt[t])
                 /\ log' = log \/ (log' = Append(log, t) /\ e.code = "lost" /\ txn[t] = "committing")
                 /\ known' = known
    BY <2>1, <2>4, ErrorType
  <2> QED BY <1>3, <2>2, <2>3, <2>4 DEF Commit
<1> QED BY <1>1, <1>2, <1>3

LEMMA CatchFrame ==
  ASSUME NEW t \in Txns, Begin(t) \/ CallbackThrows(t) \/ Commit(t)
  PROVE  /\ UNCHANGED <<pinned, applied, op, floor, saw, attempt, queries, marked, kept, aborted>>
         /\ txn[t] \in {"beginning", "running", "committing"}
<1>1. CASE Begin(t)
  BY <1>1 DEF Begin, Same, TxnStep, opVars
<1>2. CASE CallbackThrows(t)
  BY <1>2 DEF CallbackThrows, Same, TxnStep, opVars
<1>3. CASE Commit(t)
  BY <1>3 DEF Commit, TxnStep, opVars
<1> QED BY <1>1, <1>2, <1>3

LEMMA AnotherAttempt ==
  ASSUME NEW t \in Txns, Start(t) \/ Wake(t)
  PROVE  /\ StartAttempt(t) \/ NoDelay(t)
         /\ txn[t] \in {"new", "waiting"}
         /\ UNCHANGED <<log, known, kept, aborted, applied, op, floor, saw>>
         /\ pinned' = pinned \/ pinned' = [pinned EXCEPT ![Context[t]] = TRUE]
         /\ Start(t) => pinned' = [pinned EXCEPT ![Context[t]] = TRUE]
         /\ Wake(t) => txn[t] = "waiting"
<1>1. CASE Start(t)
  BY <1>1 DEF Start, TxnStep, opVars, Wake
<1>2. CASE Wake(t)
  BY <1>2 DEF Wake, Same, TxnStep, opVars, Start
<1> QED BY <1>1, <1>2

\* The remaining steps of a call: its callback fails a query or returns, or the signal fires.
Quiet(t) == CallbackReturns(t) \/ Abort(t) \/ \E code \in Codes : QueryFails(t, code)

LEMMA QuietFrame ==
  ASSUME TxnType, NEW t \in Txns, Quiet(t)
  PROVE  /\ UNCHANGED <<pinned, log, known, applied, op, floor, saw, attempt, thrown>>
         /\ txn' = txn \/ (txn[t] = "running" /\ txn' = [txn EXCEPT ![t] = "committing"])
         /\ marked' = marked \/ \E code \in Codes :
              marked' = [marked EXCEPT ![t] = @ \cup {Error(code, attempt[t])}]
<1>1. CASE CallbackReturns(t)
  BY <1>1 DEF CallbackReturns, Set, Same, TxnStep, opVars
<1>2. CASE Abort(t)
  BY <1>2 DEF Abort, Same, TxnStep, opVars
<1>3. ASSUME NEW code \in Codes, QueryFails(t, code)
      PROVE  /\ UNCHANGED <<pinned, log, known, applied, op, floor, saw, attempt, thrown, txn>>
             /\ marked' = [marked EXCEPT ![t] = @ \cup {Error(code, attempt[t])}]
  BY <1>3 DEF QueryFails, Same, TxnStep, opVars
<1> QED BY <1>1, <1>2, <1>3 DEF Quiet

LEMMA QuietType == ASSUME TxnType, NEW t \in Txns, Quiet(t) PROVE TxnType'
<1>1. CASE CallbackReturns(t)
  BY <1>1 DEF TxnType, TxnStates, CallbackReturns, Set
<1>2. CASE Abort(t)
  <2>1. aborted' \in [Txns -> BOOLEAN]
    BY <1>2 DEF TxnType, Abort
  <2> QED BY <1>2, <2>1 DEF TxnType, Abort
<1>3. ASSUME NEW code \in Codes, QueryFails(t, code) PROVE TxnType'
  <2>1. Error(code, attempt[t]) \in [code : Codes, raised : Nat]
    BY DEF TxnType, Error
  <2>2. queries' \in [Txns -> 0 .. MaxQueries]
    BY <1>3, RoutedAssumption DEF TxnType, QueryFails
  <2>3. marked' \in [Txns -> SUBSET [code : Codes, raised : Nat]]
    BY <1>3, <2>1 DEF TxnType, QueryFails
  <2>4. kept' \in [Txns -> {NoError} \cup [code : Codes, raised : Nat]]
    BY <1>3, <2>1 DEF TxnType, QueryFails
  <2> QED BY <1>3, <2>2, <2>3, <2>4 DEF TxnType, QueryFails
<1> QED BY <1>1, <1>2, <1>3 DEF Quiet

LEMMA TxnNextType ==
  ASSUME TypeOK, RetryInv, NEW t \in Txns, Start(t) \/ TxnProceeds(t) \/ Quiet(t)
  PROVE  TypeOK'
<1>0. Context[t] \in Contexts /\ Len(log) \in Nat
  BY RoutedAssumption DEF TypeOK, RoutingType
<1>1. CASE Start(t) \/ Wake(t)
  <2>1. TxnType'
    BY <1>1, AnotherAttempt, StartAttemptType DEF TypeOK
  <2>2. pinned' \in [Contexts -> BOOLEAN]
    BY <1>1, AnotherAttempt DEF TypeOK, RoutingType
  <2>3. RoutingType'
    BY <1>1, <2>2, AnotherAttempt DEF TypeOK, RoutingType
  <2> QED BY <2>1, <2>3 DEF TypeOK
<1>2. CASE Begin(t) \/ CallbackThrows(t) \/ Commit(t)
  <2>1. TxnType'
    <3>1. ASSUME NEW e \in [code : Codes \cup {"lost"}, raised : Nat], NEW outside \in BOOLEAN, Caught(t, e, outside)
          PROVE  TxnType'
      BY <1>2, <3>1, CatchFrame, CaughtType DEF TypeOK
    <3>2. ASSUME NEW s \in TxnStates, txn' = [txn EXCEPT ![t] = s], thrown' = thrown
          PROVE  TxnType'
      BY <1>2, <3>2, CatchFrame DEF TypeOK, TxnType
    <3>3. "running" \in TxnStates /\ "resolved" \in TxnStates
      BY DEF TxnStates
    <3> QED BY <1>2, <3>1, <3>2, <3>3, CatchCases DEF TypeOK
  <2>2. CASE log' = Append(log, t) /\ (known' = known \/ Learn(Context[t], Len(log')))
    <3>1. Len(log') = Len(log) + 1
      BY <2>2, LogGrows DEF TypeOK
    <3>2. known' \in [Contexts -> 0 .. Len(log')]
      <4>1. CASE known' = known
        BY <1>0, <3>1, <4>1 DEF TypeOK, RoutingType
      <4>2. CASE Learn(Context[t], Len(log'))
        BY <1>0, <3>1, <4>2, LearnType DEF TypeOK
      <4> QED BY <2>2, <4>1, <4>2
    <3>3. RoutingType'
      BY <1>2, <2>2, <3>2, CatchFrame, LogType DEF TypeOK, RoutingType
    <3> QED BY <2>1, <3>3 DEF TypeOK
  <2>3. \/ log' = log /\ known' = known
        \/ log' = Append(log, t) /\ (known' = known \/ Learn(Context[t], Len(log')))
    BY <1>2, CatchCases DEF TypeOK
  <2>4. CASE log' = log /\ known' = known
    <3>1. RoutingType'
      BY <1>2, <2>4, CatchFrame DEF TypeOK, RoutingType
    <3> QED BY <2>1, <3>1 DEF TypeOK
  <2> QED BY <2>2, <2>3, <2>4
<1>3. CASE Quiet(t)
  <2>1. TxnType'
    BY <1>3, QuietType DEF TypeOK
  <2>2. RoutingType'
    BY <1>3, QuietFrame DEF TypeOK, RoutingType
  <2> QED BY <2>1, <2>2 DEF TypeOK
<1> QED BY <1>1, <1>2, <1>3 DEF TxnProceeds, Quiet

LEMMA TypeStep ==
  ASSUME TypeOK, RetryInv, Next
  PROVE  TypeOK'
<1>1. ASSUME NEW o \in Ops, OpNext(o) PROVE TypeOK'
  BY <1>1, SendType, AnswerType DEF OpNext
<1>2. ASSUME NEW t \in Txns, Start(t) \/ TxnProceeds(t) \/ Quiet(t) PROVE TypeOK'
  BY <1>2, TxnNextType
<1> QED BY <1>1, <1>2, ReplicateType, PinType DEF Next, Quiet

-------------------------------------------------------------------------------
(* What earns a retry *)

LEMMA RetryStep ==
  ASSUME TypeOK, RetryInv, NEW t \in Txns, Start(t) \/ TxnProceeds(t) \/ Quiet(t)
  PROVE  RetryInv'
<1> SUFFICES ASSUME NEW u \in Txns
    PROVE  /\ \A e \in marked'[u] : e.raised = attempt'[u]
           /\ txn'[u] = "waiting" => thrown'[u].raised = attempt'[u] /\ thrown'[u].code = "transient"
           /\ txn'[u] = "waiting" => attempt'[u] < MaximumAttempts
           /\ txn'[u] = "new" => attempt'[u] = 0
           /\ txn'[u] \in {"beginning", "running", "committing", "waiting"} => attempt'[u] > 0
  BY DEF RetryInv
<1>0. TxnType /\ attempt[u] \in Nat
  BY DEF TypeOK, TxnType
<1>1. CASE Start(t) \/ Wake(t)
  <2>1. StartAttempt(t) \/ NoDelay(t)
    BY <1>1, AnotherAttempt
  <2>2. CASE u # t
    BY <1>0, <2>1, <2>2, StartAttemptFacts DEF RetryInv
  <2>3. CASE u = t
    BY <1>0, <2>1, <2>3, StartAttemptFacts DEF RetryInv
  <2> QED BY <2>2, <2>3
<1>2. CASE Begin(t) \/ CallbackThrows(t) \/ Commit(t)
  <2>1. /\ attempt' = attempt /\ marked' = marked
        /\ txn[t] \in {"beginning", "running", "committing"}
    BY <1>2, CatchFrame
  <2>2. ASSUME NEW s \in {"running", "resolved"}, txn' = [txn EXCEPT ![t] = s], thrown' = thrown
        PROVE  /\ u # t => txn'[u] = txn[u]
               /\ u = t => txn'[u] = s
               /\ thrown'[u] = thrown[u]
    BY <1>0, <2>2 DEF TxnType
  <2>3. ASSUME NEW e \in [code : Codes \cup {"lost"}, raised : Nat], NEW outside \in BOOLEAN,
               Caught(t, e, outside), outside => e.raised = attempt[t]
        PROVE  /\ u # t => txn'[u] = txn[u] /\ thrown'[u] = thrown[u]
               /\ u = t => txn'[u] \in {"waiting", "rejected"}
               /\ u = t /\ txn'[u] = "waiting" =>
                    thrown'[u].raised = attempt[u] /\ thrown'[u].code = "transient"
                      /\ attempt[u] < MaximumAttempts
    BY <1>0, <2>3, CaughtFacts DEF RetryInv
  <2>4. \/ \E s \in {"running", "resolved"} : txn' = [txn EXCEPT ![t] = s] /\ thrown' = thrown
        \/ \E e \in [code : Codes \cup {"lost"}, raised : Nat], outside \in BOOLEAN :
             Caught(t, e, outside) /\ (outside => e.raised = attempt[t])
    BY <1>0, <1>2, CatchCases
  <2>5. CASE \E s \in {"running", "resolved"} : txn' = [txn EXCEPT ![t] = s] /\ thrown' = thrown
    BY <2>1, <2>2, <2>5 DEF RetryInv
  <2>6. CASE \E e \in [code : Codes \cup {"lost"}, raised : Nat], outside \in BOOLEAN :
             Caught(t, e, outside) /\ (outside => e.raised = attempt[t])
    BY <2>1, <2>3, <2>6 DEF RetryInv
  <2> QED BY <2>4, <2>5, <2>6
<1>3. CASE Quiet(t)
  <2>1. /\ attempt' = attempt /\ thrown' = thrown
        /\ txn' = txn \/ (txn[t] = "running" /\ txn' = [txn EXCEPT ![t] = "committing"])
    BY <1>0, <1>3, QuietFrame
  <2>2. \A e \in marked'[u] : e.raised = attempt'[u]
    <3>1. CASE marked' = marked
      BY <2>1, <3>1 DEF RetryInv
    <3>2. ASSUME NEW code \in Codes, marked' = [marked EXCEPT ![t] = @ \cup {Error(code, attempt[t])}]
          PROVE  \A e \in marked'[u] : e.raised = attempt'[u]
      BY <1>0, <2>1, <3>2, ErrorType DEF RetryInv, TxnType
    <3> QED BY <1>0, <1>3, <3>1, <3>2, QuietFrame
  <2>3. txn'[u] = txn[u] \/ (txn[u] = "running" /\ txn'[u] = "committing")
    BY <1>0, <2>1 DEF TxnType
  <2> QED BY <2>1, <2>2, <2>3 DEF RetryInv
<1> QED BY <1>1, <1>2, <1>3 DEF TxnProceeds, Quiet

LEMMA RetryUnchanged == ASSUME RetryInv, UNCHANGED txnVars PROVE RetryInv'
BY DEF RetryInv, txnVars

LEMMA RetryNext == ASSUME TypeOK, RetryInv, Next PROVE RetryInv'
<1>1. ASSUME NEW t \in Txns, Start(t) \/ TxnProceeds(t) \/ Quiet(t) PROVE RetryInv'
  BY <1>1, RetryStep
<1>2. ASSUME NEW o \in Ops, OpNext(o) PROVE UNCHANGED txnVars
  BY <1>2 DEF OpNext, Send, Answer
<1>3. ASSUME NEW r \in Replicas, Replicate(r) PROVE UNCHANGED txnVars
  BY <1>3 DEF Replicate
<1>4. ASSUME NEW c \in Contexts, PinPrimary(c) PROVE UNCHANGED txnVars
  BY <1>4 DEF PinPrimary
<1> QED BY <1>1, <1>2, <1>3, <1>4, RetryUnchanged DEF Next, Quiet

THEOREM InitRetry == Init => RetryInv
BY DEF Init, RetryInv

LEMMA RetryAlways == Spec => [](TypeOK /\ RetryInv)
<1>1. Init => TypeOK /\ RetryInv
  BY InitType, InitRetry
<1>2. TypeOK /\ RetryInv /\ [Next]_vars => (TypeOK /\ RetryInv)'
  <2>1. CASE UNCHANGED vars
    BY <2>1 DEF vars, opVars, txnVars, TypeOK, RoutingType, TxnType, RetryInv
  <2> QED BY <2>1, TypeStep, RetryNext
<1> QED BY <1>1, <1>2, PTL DEF Spec

\* Every state has the declared type.
THEOREM TypeCorrect == Spec => []TypeOK
BY RetryAlways, PTL

Earned == \A t \in Txns : (attempt[t] > 0 /\ attempt'[t] > attempt[t])
            => thrown[t].raised = attempt[t] /\ ~ aborted[t]

\* A callback is run again only for an error that the database raised in the attempt
\* before, and not once the signal has fired.
THEOREM RetriesEarned == Spec => RetriesAreEarned
<1>1. TypeOK /\ RetryInv /\ [Next]_vars => [Earned]_vars
  <2> SUFFICES ASSUME TypeOK, RetryInv, Next PROVE Earned
    BY DEF Earned
  <2>1. ASSUME NEW t \in Txns, NEW u \in Txns, Start(t) \/ TxnProceeds(t) \/ Quiet(t),
               attempt[u] > 0, attempt'[u] > attempt[u]
        PROVE  thrown[u].raised = attempt[u] /\ ~ aborted[u]
    <3>0. TxnType /\ attempt[u] \in Nat
      BY DEF TypeOK, TxnType
    <3>1. CASE Start(t) \/ Wake(t)
      <4>1. (StartAttempt(t) \/ NoDelay(t)) /\ txn[t] \in {"new", "waiting"}
        BY <3>1, AnotherAttempt
      <4>2. u = t /\ ~ aborted[t]
        BY <2>1, <3>0, <4>1, StartAttemptFacts
      <4> QED BY <2>1, <3>0, <4>1, <4>2 DEF RetryInv
    <3>2. CASE Begin(t) \/ CallbackThrows(t) \/ Commit(t)
      BY <2>1, <3>0, <3>2, CatchFrame
    <3>3. CASE Quiet(t)
      BY <2>1, <3>0, <3>3, QuietFrame
    <3> QED BY <2>1, <3>1, <3>2, <3>3 DEF TxnProceeds, Quiet
  <2>2. ASSUME UNCHANGED attempt PROVE Earned
    <3>1. \A u \in Txns : attempt[u] \in Nat
      BY DEF TypeOK, TxnType
    <3> QED BY <2>2, <3>1 DEF Earned
  <2>3. \/ \E t \in Txns : Start(t) \/ TxnProceeds(t) \/ Quiet(t)
        \/ UNCHANGED attempt
    BY DEF Next, Quiet, OpNext, Send, Answer, Replicate, PinPrimary, txnVars
  <2> QED BY <2>1, <2>2, <2>3 DEF Earned
<1> QED BY <1>1, RetryAlways, PTL DEF Spec, RetriesAreEarned, Earned

-------------------------------------------------------------------------------
(* A context reads what it has written *)

LEMMA LearnFacts ==
  ASSUME RoutingType, NEW c \in Contexts, NEW k, Learn(c, k)
  PROVE  \A d \in Contexts \ {c} : known'[d] = known[d]
BY DEF RoutingType, Learn

\* What Send decides, said once: the pins grow, and only a context that is not pinned
\* sends anything to a replica.
LEMMA SendFacts ==
  ASSUME RoutingType, NEW o \in Ops, Send(o)
  PROVE  /\ \A p \in Ops \ {o} : op'[p] = op[p] /\ floor'[p] = floor[p]
         /\ floor'[o] = known[Context[o]]
         /\ \A c \in Contexts : pinned[c] => pinned'[c]
         /\ op'[o] \in Replicas \cup {"failed", Primary}
         /\ op'[o] \in Replicas => ~ pinned[Context[o]] /\ ~ Binding(o)
         /\ op'[o] = Primary /\ Binding(o) => pinned'[Context[o]]
<1>0. Context[o] \in Contexts /\ Replicas \cap {"new", "done", "failed", Primary} = {}
  BY RoutedAssumption, ReplicasAssumption
<1>1. /\ \A p \in Ops \ {o} : op'[p] = op[p] /\ floor'[p] = floor[p]
      /\ floor'[o] = known[Context[o]]
  BY DEF RoutingType, Send
<1>2. CASE Unsafe(o) /\ op' = [op EXCEPT ![o] = "failed"] /\ UNCHANGED pinned
  BY <1>0, <1>1, <1>2 DEF RoutingType, Primary
<1>3. CASE /\ ~ Unsafe(o) /\ Route(o) = "replica" /\ UNCHANGED pinned
           /\ \/ \E r \in Replicas : op' = [op EXCEPT ![o] = r]
              \/ op' = [op EXCEPT ![o] = "failed"]
  <2>1. ~ pinned[Context[o]] /\ Requested(o) = "replica"
    BY <1>3 DEF Route
  <2>2. ~ Binding(o)
    BY <1>3, <2>1, RoutedAssumption DEF Unsafe, Requested, Binding
  <2> QED BY <1>0, <1>1, <1>3, <2>1, <2>2 DEF RoutingType, Primary
<1>4. CASE /\ Route(o) = "primary" /\ op' = [op EXCEPT ![o] = Primary]
           /\ pinned' = [pinned EXCEPT ![Context[o]] = @ \/ Pins(o)]
  <2>1. \A c \in Contexts \ {Context[o]} : pinned'[c] = pinned[c]
    BY <1>0, <1>4 DEF RoutingType
  <2>2. pinned'[Context[o]] = (pinned[Context[o]] \/ Pins(o))
    BY <1>0, <1>4, Zenon DEF RoutingType
  <2>3. Binding(o) => Pins(o)
    BY <1>4 DEF Binding, Pins
  <2> QED BY <1>0, <1>1, <1>4, <2>1, <2>2, <2>3 DEF RoutingType, Primary
<1> QED BY <1>2, <1>3, <1>4 DEF Send

\* What Answer does, said once: only work that binds its context teaches it anything.
LEMMA AnswerFacts ==
  ASSUME RoutingType, NEW o \in Ops, Answer(o)
  PROVE  /\ UNCHANGED <<pinned, floor, txn>>
         /\ op[o] \in Replicas \cup {Primary} /\ op'[o] \in {"done", "failed"}
         /\ \A p \in Ops \ {o} : op'[p] = op[p] /\ saw'[p] = saw[p]
         /\ known' = known \/ (Binding(o) /\ \A c \in Contexts \ {Context[o]} : known'[c] = known[c])
         /\ o \notin Writes /\ op'[o] = "done" =>
              saw'[o] = IF op[o] = Primary THEN Len(log) ELSE applied[op[o]]
<1>0. Context[o] \in Contexts /\ (o \in Writes => Binding(o))
  BY RoutedAssumption DEF Binding
<1>1. /\ UNCHANGED <<pinned, floor, txn>> /\ op[o] \in Replicas \cup {Primary}
  BY DEF Answer, txnVars
<1>2. op'[o] \in {"done", "failed"} /\ \A p \in Ops \ {o} : op'[p] = op[p] /\ saw'[p] = saw[p]
  BY DEF RoutingType, Answer
<1>3. known' = known \/ (Binding(o) /\ \A c \in Contexts \ {Context[o]} : known'[c] = known[c])
  <2>1. known' = known \/ (Binding(o) /\ \E k : Learn(Context[o], k))
    BY <1>0 DEF Answer, Binding
  <2> QED BY <1>0, <2>1, LearnFacts
<1>4. o \notin Writes /\ op'[o] = "done" =>
        saw'[o] = IF op[o] = Primary THEN Len(log) ELSE applied[op[o]]
  <2>1. CASE op' = [op EXCEPT ![o] = "failed"]
    BY <2>1 DEF RoutingType
  <2>2. CASE saw' = [saw EXCEPT ![o] = IF op[o] = Primary THEN Len(log) ELSE applied[op[o]]]
    BY <2>2 DEF RoutingType
  <2> QED BY <2>1, <2>2 DEF Answer
<1> QED BY <1>1, <1>2, <1>3, <1>4

\* What any step of a transaction does to the pins and to what a context knows
LEMMA TxnPins ==
  ASSUME TypeOK, NEW t \in Txns, Start(t) \/ TxnProceeds(t) \/ Quiet(t)
  PROVE  /\ UNCHANGED <<op, floor, saw>>
         /\ \A u \in Txns \ {t} : txn'[u] = txn[u]
         /\ \A c \in Contexts : pinned[c] => pinned'[c]
         /\ txn[t] = "new" /\ txn'[t] # "new" => pinned'[Context[t]]
         /\ \A c \in Contexts \ {Context[t]} : known'[c] = known[c]
         /\ txn[t] = "new" => known' = known
<1>0. TxnType /\ RoutingType /\ Context[t] \in Contexts
  BY RoutedAssumption DEF TypeOK
<1>1. CASE Start(t) \/ Wake(t)
  <2>1. /\ StartAttempt(t) \/ NoDelay(t)
        /\ UNCHANGED <<known, op, floor, saw>>
        /\ pinned' = pinned \/ pinned' = [pinned EXCEPT ![Context[t]] = TRUE]
        /\ txn[t] = "waiting" \/ pinned' = [pinned EXCEPT ![Context[t]] = TRUE]
    BY <1>1, AnotherAttempt
  <2>2. \A c \in Contexts : pinned[c] => pinned'[c]
    BY <1>0, <2>1 DEF RoutingType
  <2>3. txn[t] # "new" \/ pinned'[Context[t]]
    BY <1>0, <2>1 DEF RoutingType
  <2> QED BY <1>0, <2>1, <2>2, <2>3, StartAttemptFacts
<1>2. CASE Begin(t) \/ CallbackThrows(t) \/ Commit(t)
  <2>1. UNCHANGED <<pinned, op, floor, saw>> /\ txn[t] # "new"
    BY <1>2, CatchFrame
  <2>2. \/ known' = known
        \/ \E k : Learn(Context[t], k)
    BY <1>0, <1>2, CatchCases
  <2>3. \A u \in Txns \ {t} : txn'[u] = txn[u]
    <3>1. CASE txn' = [txn EXCEPT ![t] = "running"] \/ txn' = [txn EXCEPT ![t] = "resolved"]
      BY <1>0, <3>1 DEF TxnType
    <3>2. ASSUME NEW e \in [code : Codes \cup {"lost"}, raised : Nat], NEW outside \in BOOLEAN,
                 Caught(t, e, outside)
          PROVE  \A u \in Txns \ {t} : txn'[u] = txn[u]
      BY <1>0, <3>2, CaughtFacts
    <3> QED BY <1>0, <1>2, <3>1, <3>2, CatchCases
  <2> QED BY <1>0, <2>1, <2>2, <2>3, LearnFacts
<1>3. CASE Quiet(t)
  <2>1. /\ UNCHANGED <<pinned, known, op, floor, saw>>
        /\ txn' = txn \/ txn' = [txn EXCEPT ![t] = "committing"]
    BY <1>0, <1>3, QuietFrame
  <2>2. txn'[t] # "new" => txn[t] # "new"
    <3>1. txn' = txn \/ (txn[t] = "running" /\ txn' = [txn EXCEPT ![t] = "committing"])
      BY <1>0, <1>3, QuietFrame
    <3> QED BY <3>1
  <2> QED BY <1>0, <2>1, <2>2 DEF TxnType
<1> QED BY <1>1, <1>2, <1>3 DEF TxnProceeds, Quiet

LEMMA PinStep == ASSUME TypeOK, PinInv, Next PROVE PinInv'
<1>0. RoutingType /\ TxnType /\ \A x \in Ops \cup Txns : Context[x] \in Contexts
  BY RoutedAssumption DEF TypeOK
<1>1. ASSUME NEW o \in Ops, Send(o) PROVE PinInv'
  <2>1. UNCHANGED <<known, txn>>
    BY <1>1 DEF Send, txnVars
  <2>2. \A p \in Ops \ {o} : op'[p] = op[p] /\ floor'[p] = floor[p]
    BY <1>0, <1>1, SendFacts
  <2>3. op'[o] \in Replicas => floor'[o] = 0 /\ ~ Binding(o)
    BY <1>0, <1>1, SendFacts DEF PinInv
  <2>4. op'[o] = Primary /\ Binding(o) => pinned'[Context[o]]
    BY <1>0, <1>1, SendFacts
  <2>5. \A c \in Contexts : pinned[c] => pinned'[c]
    BY <1>0, <1>1, SendFacts
  <2> QED BY <1>0, <2>1, <2>2, <2>3, <2>4, <2>5 DEF PinInv, Binding
<1>2. ASSUME NEW o \in Ops, Answer(o) PROVE PinInv'
  <2>1. Binding(o) => pinned[Context[o]]
    BY <1>0, <1>2, AnswerFacts DEF PinInv
  <2>2. \A c \in Contexts : ~ pinned[c] => known'[c] = 0
    BY <1>0, <1>2, <2>1, AnswerFacts DEF PinInv
  <2>3. op'[o] \notin Replicas \cup {Primary}
    BY <1>0, <1>2, AnswerFacts, ReplicasAssumption DEF Primary
  <2> QED BY <1>0, <1>2, <2>2, <2>3, AnswerFacts DEF PinInv, Binding
<1>3. ASSUME NEW r \in Replicas, Replicate(r) PROVE PinInv'
  BY <1>3 DEF Replicate, opVars, txnVars, PinInv, Binding
<1>4. ASSUME NEW c \in Contexts, PinPrimary(c) PROVE PinInv'
  <2>1. pinned' = [pinned EXCEPT ![c] = TRUE] /\ UNCHANGED <<op, floor, txn>>
    BY <1>4 DEF PinPrimary, opVars, txnVars
  <2>2. \A d \in Contexts \ {c} : known'[d] = known[d]
    BY <1>0, <1>4, LearnFacts DEF PinPrimary
  <2>3. \A d \in Contexts : (pinned[d] => pinned'[d]) /\ (d = c => pinned'[d])
    BY <1>0, <2>1 DEF RoutingType
  <2>4. \A d \in Contexts : ~ pinned'[d] => known'[d] = 0
    BY <2>2, <2>3 DEF PinInv
  <2> QED BY <1>0, <2>1, <2>3, <2>4 DEF PinInv, Binding
<1>5. ASSUME NEW t \in Txns, Start(t) \/ TxnProceeds(t) \/ Quiet(t) PROVE PinInv'
  <2>1. /\ UNCHANGED <<op, floor>>
        /\ \A u \in Txns \ {t} : txn'[u] = txn[u]
        /\ \A c \in Contexts : pinned[c] => pinned'[c]
        /\ txn[t] = "new" /\ txn'[t] # "new" => pinned'[Context[t]]
        /\ \A c \in Contexts \ {Context[t]} : known'[c] = known[c]
        /\ txn[t] = "new" => known' = known
    BY <1>5, TxnPins
  <2>2. \A c \in Contexts : ~ pinned'[c] => known'[c] = 0
    BY <1>0, <2>1 DEF PinInv
  <2> QED BY <1>0, <2>1, <2>2 DEF PinInv, Binding
<1> QED BY <1>1, <1>2, <1>3, <1>4, <1>5 DEF Next, OpNext, Quiet

LEMMA ReadsStep ==
  ASSUME TypeOK, PinInv, ReadsItsWrites, Next
  PROVE  ReadsItsWrites'
<1>0. RoutingType /\ Len(log) \in Nat
  BY DEF TypeOK, RoutingType
<1>1. ASSUME NEW o \in Ops, Send(o) PROVE ReadsItsWrites'
  <2>1. UNCHANGED saw
    BY <1>1 DEF Send
  <2>2. op'[o] # "done"
    BY <1>0, <1>1, SendFacts, ReplicasAssumption DEF Primary
  <2> QED BY <1>0, <1>1, <2>1, <2>2, SendFacts DEF ReadsItsWrites
<1>2. ASSUME NEW o \in Ops, Answer(o) PROVE ReadsItsWrites'
  <2>1. ASSUME o \notin Writes, op'[o] = "done" PROVE saw'[o] >= floor[o]
    <3>1. CASE op[o] = Primary
      BY <1>0, <1>2, <2>1, <3>1, AnswerFacts DEF RoutingType
    <3>2. CASE op[o] \in Replicas
      <4>1. floor[o] = 0 /\ op[o] # Primary
        BY <3>2, ReplicasAssumption DEF PinInv
      <4> QED BY <1>0, <1>2, <2>1, <3>2, <4>1, AnswerFacts DEF RoutingType
    <3> QED BY <1>0, <1>2, <3>1, <3>2, AnswerFacts
  <2> QED BY <1>0, <1>2, <2>1, AnswerFacts DEF ReadsItsWrites
<1>3. ASSUME UNCHANGED <<op, floor, saw>> PROVE ReadsItsWrites'
  BY <1>3 DEF ReadsItsWrites
<1>4. ASSUME NEW r \in Replicas, Replicate(r) PROVE UNCHANGED <<op, floor, saw>>
  BY <1>4 DEF Replicate, opVars
<1>5. ASSUME NEW c \in Contexts, PinPrimary(c) PROVE UNCHANGED <<op, floor, saw>>
  BY <1>5 DEF PinPrimary, opVars
<1>6. ASSUME NEW t \in Txns, Start(t) \/ TxnProceeds(t) \/ Quiet(t) PROVE UNCHANGED <<op, floor, saw>>
  BY <1>6, TxnPins
<1> QED BY <1>1, <1>2, <1>3, <1>4, <1>5, <1>6 DEF Next, OpNext, Quiet

THEOREM InitReads == Init => PinInv /\ ReadsItsWrites
BY ReplicasAssumption DEF Init, PinInv, ReadsItsWrites, Primary

\* For any number of contexts, replicas and calls, a read is answered from a part of
\* the log that holds what its context had got from the primary when it was issued.
THEOREM ReadsItsWritesHolds == Spec => []ReadsItsWrites
<1>1. Init => PinInv /\ ReadsItsWrites
  BY InitReads
<1>2. TypeOK /\ PinInv /\ ReadsItsWrites /\ [Next]_vars => (PinInv /\ ReadsItsWrites)'
  <2>1. CASE UNCHANGED vars
    BY <2>1 DEF vars, opVars, txnVars, PinInv, ReadsItsWrites, Binding
  <2> QED BY <2>1, PinStep, ReadsStep
<1> QED BY <1>1, <1>2, TypeCorrect, PTL DEF Spec

-------------------------------------------------------------------------------
(* A transaction is committed at most once *)

\* The transactions of a log that grows by one entry
LEMMA CommitGrows ==
  ASSUME RoutingType, NEW x \in Ops \cup Txns, log' = Append(log, x), NEW t \in Txns
  PROVE  /\ t # x => \A i \in 1 .. Len(log') : log'[i] = t => i \in 1 .. Len(log) /\ log[i] = t
         /\ \A i \in 1 .. Len(log) : i \in 1 .. Len(log') /\ log'[i] = log[i]
         /\ t = x => Len(log') \in 1 .. Len(log') /\ log'[Len(log')] = t
         /\ t = x => \A i \in 1 .. Len(log') : i = Len(log') \/ (i \in 1 .. Len(log) /\ log'[i] = log[i])
<1>1. /\ Len(log) \in Nat /\ Len(log') = Len(log) + 1 /\ log'[Len(log) + 1] = x
      /\ \A i \in 1 .. Len(log) : log'[i] = log[i]
  BY LogGrows
<1> QED BY <1>1

Place(t) ==
  /\ \A i, j \in 1 .. Len(log) : log[i] = t /\ log[j] = t => i = j
  /\ \A i \in 1 .. Len(log) :
       log[i] = t => txn[t] = "resolved" \/ (txn[t] = "rejected" /\ thrown[t].code = "lost")
  /\ txn[t] = "resolved" => \E i \in 1 .. Len(log) : log[i] = t

\* A transaction that keeps its state and is not what the log gains
LEMMA PlaceKept ==
  ASSUME RoutingType, NEW t \in Txns, Place(t), txn'[t] = txn[t], thrown'[t] = thrown[t],
         log' = log \/ \E x \in (Ops \cup Txns) \ {t} : log' = Append(log, x)
  PROVE  Place(t)'
<1>1. CASE log' = log
  BY <1>1 DEF Place
<1>2. ASSUME NEW x \in (Ops \cup Txns) \ {t}, log' = Append(log, x) PROVE Place(t)'
  BY <1>2, CommitGrows DEF Place
<1> QED BY <1>1, <1>2

\* A transaction whose own entry the log gains was at its COMMIT and is not in it yet.
LEMMA PlaceGained ==
  ASSUME RoutingType, NEW t \in Txns, Place(t), txn[t] = "committing", log' = Append(log, t),
         txn'[t] = "resolved" \/ (txn'[t] = "rejected" /\ thrown'[t].code = "lost")
  PROVE  Place(t)'
<1>1. \A i \in 1 .. Len(log) : log[i] # t
  BY DEF Place
<1>2. /\ Len(log') \in 1 .. Len(log') /\ log'[Len(log')] = t
      /\ \A i \in 1 .. Len(log') : log'[i] = t => i = Len(log')
  BY <1>1, CommitGrows
<1> QED BY <1>2 DEF Place

\* A transaction that is not in the log and moves on without entering it
LEMMA PlaceAbsent ==
  ASSUME NEW t \in Txns, Place(t), log' = log, txn[t] \notin {"resolved", "rejected"}, txn'[t] # "resolved"
  PROVE  Place(t)'
BY DEF Place

LEMMA CommitStep == ASSUME TypeOK, RetryInv, CommitInv, Next PROVE CommitInv'
<1>0. RoutingType /\ TxnType /\ Ops \cap Txns = {}
  BY RoutedAssumption DEF TypeOK
<1>1. \A u \in Txns : Place(u)
  BY DEF CommitInv, Place
<1> SUFFICES ASSUME NEW u \in Txns PROVE Place(u)'
  BY DEF CommitInv, Place
<1>2. CASE UNCHANGED <<log, txn, thrown>>
  BY <1>1, <1>2 DEF Place
<1>3. ASSUME NEW o \in Ops, Answer(o) PROVE Place(u)'
  <2>1. log' = log \/ log' = Append(log, o)
    BY <1>3 DEF Answer
  <2>2. UNCHANGED <<txn, thrown>>
    BY <1>3 DEF Answer, txnVars
  <2> QED BY <1>0, <1>1, <2>1, <2>2, PlaceKept
<1>4. ASSUME NEW t \in Txns, Start(t) \/ TxnProceeds(t) \/ Quiet(t) PROVE Place(u)'
  <2>1. CASE Start(t) \/ Wake(t)
    <3>1. log' = log /\ (StartAttempt(t) \/ NoDelay(t)) /\ txn[t] \in {"new", "waiting"}
      BY <2>1, AnotherAttempt
    <3>2. CASE u = t
      <4>1. txn'[t] # "resolved"
        BY <1>0, <3>1, StartAttemptFacts
      <4> QED BY <1>1, <3>1, <3>2, <4>1, PlaceAbsent
    <3>3. CASE u # t
      <4>1. txn'[u] = txn[u] /\ thrown'[u] = thrown[u]
        BY <1>0, <3>1, <3>3, StartAttemptFacts
      <4> QED BY <1>0, <1>1, <3>1, <4>1, PlaceKept
    <3> QED BY <3>2, <3>3
  <2>2. CASE Begin(t) \/ CallbackThrows(t) \/ Commit(t)
    <3>0. txn[t] \in {"beginning", "running", "committing"}
      BY <2>2, CatchFrame
    <3>1. ASSUME txn' = [txn EXCEPT ![t] = "running"], thrown' = thrown, log' = log PROVE Place(u)'
      <4>1. CASE u = t
        BY <1>0, <1>1, <3>0, <3>1, <4>1, PlaceAbsent DEF TxnType
      <4>2. CASE u # t
        BY <1>0, <1>1, <3>1, <4>2, PlaceKept DEF TxnType
      <4> QED BY <4>1, <4>2
    <3>2. ASSUME txn' = [txn EXCEPT ![t] = "resolved"], thrown' = thrown, txn[t] = "committing",
                 log' = Append(log, t)
          PROVE  Place(u)'
      <4>1. CASE u = t
        BY <1>0, <1>1, <3>2, <4>1, PlaceGained DEF TxnType
      <4>2. CASE u # t
        <5>1. txn'[u] = txn[u] /\ thrown'[u] = thrown[u] /\ t \in (Ops \cup Txns) \ {u}
          BY <1>0, <3>2, <4>2 DEF TxnType
        <5> QED BY <1>0, <1>1, <3>2, <5>1, PlaceKept
      <4> QED BY <4>1, <4>2
    <3>3. ASSUME NEW e \in [code : Codes \cup {"lost"}, raised : Nat], NEW outside \in BOOLEAN,
                 Caught(t, e, outside),
                 log' = log \/ (log' = Append(log, t) /\ e.code = "lost" /\ txn[t] = "committing")
          PROVE  Place(u)'
      <4>0. /\ \A v \in Txns \ {t} : txn'[v] = txn[v] /\ thrown'[v] = thrown[v]
            /\ thrown'[t] = e /\ txn'[t] \in {"waiting", "rejected"}
            /\ txn'[t] = "waiting" => e.code = "transient"
        BY <1>0, <3>3, CaughtFacts
      <4>1. CASE u = t /\ log' = log
        BY <1>1, <3>0, <4>0, <4>1, PlaceAbsent
      <4>2. CASE u = t /\ log' # log
        BY <1>0, <1>1, <3>3, <4>0, <4>2, PlaceGained
      <4>3. CASE u # t
        <5>1. txn'[u] = txn[u] /\ thrown'[u] = thrown[u] /\ t \in (Ops \cup Txns) \ {u}
          BY <4>0, <4>3
        <5> QED BY <1>0, <1>1, <3>3, <5>1, PlaceKept
      <4> QED BY <4>1, <4>2, <4>3
    <3> QED BY <1>0, <2>2, <3>1, <3>2, <3>3, CatchCases
  <2>3. CASE Quiet(t)
    <3>1. /\ log' = log /\ thrown' = thrown
          /\ txn' = txn \/ (txn[t] = "running" /\ txn' = [txn EXCEPT ![t] = "committing"])
      BY <1>0, <2>3, QuietFrame
    <3>2. CASE txn' = txn
      BY <1>1, <3>1, <3>2 DEF Place
    <3>3. CASE txn[t] = "running" /\ txn' = [txn EXCEPT ![t] = "committing"]
      <4>1. CASE u = t
        BY <1>0, <1>1, <3>1, <3>3, <4>1, PlaceAbsent DEF TxnType
      <4>2. CASE u # t
        BY <1>0, <1>1, <3>1, <3>3, <4>2, PlaceKept DEF TxnType
      <4> QED BY <4>1, <4>2
    <3> QED BY <3>1, <3>2, <3>3
  <2> QED BY <1>4, <2>1, <2>2, <2>3 DEF TxnProceeds, Quiet
<1>5. ASSUME NEW o \in Ops, Send(o) PROVE UNCHANGED <<log, txn, thrown>>
  BY <1>5 DEF Send, txnVars
<1>6. ASSUME NEW r \in Replicas, Replicate(r) PROVE UNCHANGED <<log, txn, thrown>>
  BY <1>6 DEF Replicate, txnVars
<1>7. ASSUME NEW c \in Contexts, PinPrimary(c) PROVE UNCHANGED <<log, txn, thrown>>
  BY <1>7 DEF PinPrimary, txnVars
<1> QED BY <1>2, <1>3, <1>4, <1>5, <1>6, <1>7 DEF Next, OpNext, Quiet

\* Counting the entries of the log
LEMMA CommitCounts == ASSUME TypeOK, CommitInv PROVE AtMostOnce
<1> SUFFICES ASSUME NEW t \in Txns
    PROVE  /\ Times(t) <= 1
           /\ txn[t] = "resolved" => Times(t) = 1
           /\ (txn[t] = "rejected" /\ thrown[t].code # "lost") => Times(t) = 0
  BY DEF AtMostOnce
<1> DEFINE Entries == {i \in DOMAIN log : log[i] = t}
<1>1. DOMAIN log = 1 .. Len(log)
  BY DEF TypeOK, RoutingType
<1>2. CASE Entries = {}
  <2>1. Times(t) = 0
    BY <1>2, FS_EmptySet DEF Times
  <2>2. txn[t] # "resolved"
    BY <1>1, <1>2 DEF CommitInv
  <2> QED BY <2>1, <2>2
<1>3. ASSUME NEW i \in Entries PROVE Times(t) = 1
  <2>1. Entries = {i}
    BY <1>1, <1>3 DEF CommitInv
  <2> QED BY <2>1, FS_Singleton DEF Times
<1>4. ASSUME NEW i \in Entries PROVE ~ (txn[t] = "rejected" /\ thrown[t].code # "lost")
  BY <1>1, <1>4 DEF CommitInv
<1> QED BY <1>2, <1>3, <1>4

THEOREM InitCommit == Init => CommitInv
BY DEF Init, CommitInv

\* Whatever its policy and however its attempts fail, a transaction is committed at
\* most once, and never behind the back of a caller who has been told of a failure
\* that is not a lost COMMIT.
THEOREM CommittedOnce == Spec => []AtMostOnce
<1>1. Init => CommitInv
  BY InitCommit
<1>2. (TypeOK /\ RetryInv) /\ CommitInv /\ [Next]_vars => CommitInv'
  <2>1. CASE UNCHANGED vars
    BY <2>1 DEF vars, txnVars, CommitInv
  <2> QED BY <2>1, CommitStep
<1>3. TypeOK /\ CommitInv => AtMostOnce
  BY CommitCounts
<1> QED BY <1>1, <1>2, <1>3, RetryAlways, PTL DEF Spec
===============================================================================
