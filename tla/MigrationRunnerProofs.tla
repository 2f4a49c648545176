------------------------- MODULE MigrationRunnerProofs -------------------------
(***************************************************************************)
(* Theorems about MigrationRunner, for any number of runners, migrations   *)
(* and statements, any bounds and any commit faults: at most one attempt   *)
(* is unresolved, and the committed history document stays readable,       *)
(* ordered and of one content, and moves as MigrationLedger promises.      *)
(***************************************************************************)
EXTENDS MigrationRefinement, SequenceTheorems, TLAPS

-------------------------------------------------------------------------------
(***************************************************************************)
(* Lemmas about the history document.                                      *)
(***************************************************************************)

(* Removing an identifier closes the gap it leaves (history.applied.filter). *)
LEMMA WithoutPositions ==
  ASSUME NEW applied \in Seq(Entry), NEW m, \E i \in DOMAIN applied : applied[i].id = m
  PROVE  LET k == PositionOf(applied, m)
         IN  /\ k \in 1..Len(applied) /\ applied[k].id = m
             /\ Without(applied, m) \in Seq(Entry)
             /\ Len(Without(applied, m)) = Len(applied) - 1
             /\ \A j \in 1..(Len(applied) - 1) :
                  Without(applied, m)[j] = applied[IF j < k THEN j ELSE j + 1]
<1> DEFINE k == PositionOf(applied, m)
           front == SubSeq(applied, 1, k - 1)
           back == SubSeq(applied, k + 1, Len(applied))
<1>1. k \in 1..Len(applied) /\ applied[k].id = m
  BY DEF PositionOf
<1>2. /\ front \in Seq(Entry) /\ Len(front) = k - 1
      /\ \A i \in 1..(k - 1) : front[i] = applied[i]
  BY <1>1
<1>3. /\ back \in Seq(Entry) /\ Len(back) = Len(applied) - k
      /\ \A i \in 1..(Len(applied) - k) : back[i] = applied[k + i]
  BY <1>1
<1>4. Without(applied, m) = front \o back
  BY DEF Without
<1> HIDE DEF front, back, k
<1>5. /\ front \o back \in Seq(Entry)
      /\ Len(front \o back) = Len(front) + Len(back)
      /\ \A j \in 1..(Len(front) + Len(back)) :
           (front \o back)[j] = IF j <= Len(front) THEN front[j] ELSE back[j - Len(front)]
  BY <1>2, <1>3, ConcatProperties
<1>6. Len(front \o back) = Len(applied) - 1
  BY <1>1, <1>2, <1>3, <1>5
<1>7. ASSUME NEW j \in 1..(Len(applied) - 1)
      PROVE  (front \o back)[j] = applied[IF j < k THEN j ELSE j + 1]
  <2>1. CASE j < k
    <3>1. (front \o back)[j] = front[j] /\ front[j] = applied[j]
      BY <1>1, <1>2, <1>3, <1>5, <2>1
    <3>2. QED
      BY <2>1, <3>1
  <2>2. CASE ~ (j < k)
    <3>1. (front \o back)[j] = back[j - (k - 1)]
      BY <1>1, <1>2, <1>3, <1>5, <2>2
    <3>2. back[j - (k - 1)] = applied[k + (j - (k - 1))]
      BY <1>1, <1>3, <2>2
    <3>3. k + (j - (k - 1)) = j + 1
      BY <1>1
    <3>4. QED
      BY <2>2, <3>1, <3>2, <3>3
  <2>3. QED
    BY <2>1, <2>2
<1>8. QED
  BY <1>1, <1>4, <1>5, <1>6, <1>7 DEF k

(* The entries that are left were there before. *)
LEMMA WithoutEntries ==
  ASSUME NEW applied \in Seq(Entry), NEW m
  PROVE  /\ Without(applied, m) \in Seq(Entry)
         /\ \A j \in DOMAIN Without(applied, m) :
              \E i \in DOMAIN applied : Without(applied, m)[j] = applied[i]
<1>1. CASE \E i \in DOMAIN applied : applied[i].id = m
  <2> DEFINE k == PositionOf(applied, m)
  <2>1. /\ k \in 1..Len(applied)
        /\ Without(applied, m) \in Seq(Entry)
        /\ Len(Without(applied, m)) = Len(applied) - 1
        /\ \A j \in 1..(Len(applied) - 1) :
             Without(applied, m)[j] = applied[IF j < k THEN j ELSE j + 1]
    BY <1>1, WithoutPositions
  <2> HIDE DEF k
  <2>2. \A j \in 1..(Len(applied) - 1) : (IF j < k THEN j ELSE j + 1) \in 1..Len(applied)
    BY <2>1
  <2>3. DOMAIN Without(applied, m) = 1..(Len(applied) - 1) /\ DOMAIN applied = 1..Len(applied)
    BY <2>1
  <2>4. QED
    BY <2>1, <2>2, <2>3
<1>2. CASE ~ \E i \in DOMAIN applied : applied[i].id = m
  BY <1>2 DEF Without
<1>3. QED
  BY <1>1, <1>2

(* A down restores a catalog that was recorded, or the empty one. *)
LEMMA CatalogBeforeType ==
  ASSUME NEW applied \in Seq(Entry), NEW m
  PROVE  CatalogBefore(applied, m) \in SUBSET Objects
<1> DEFINE k == PositionOf(applied, m)
<1>1. CASE k \in DOMAIN applied /\ k > 1
  <2>1. k - 1 \in 1..Len(applied)
    BY <1>1
  <2>2. applied[k - 1] \in Entry
    BY <2>1
  <2>3. QED
    BY <1>1, <2>2 DEF CatalogBefore, Entry
<1>2. CASE ~ (k \in DOMAIN applied /\ k > 1)
  BY <1>2 DEF CatalogBefore
<1>3. QED
  BY <1>1, <1>2

(***************************************************************************)
(* Type correctness.  The documents a runner builds are histories because  *)
(* the attempt it works on is one it recorded.                             *)
(***************************************************************************)
Working == {"begin", "exec", "record", "catch"}

KnowsAttempt(r) ==
  /\ pc[r] = "planning" => plan[r].mode \notin Actions
  /\ pc[r] = "inspecting" => att[r] \in AttemptIds
  /\ pc[r] \in {"planned", "locking", "verify"} /\ plan[r].mode \in Actions
       => att[r] \in AttemptIds
  /\ pc[r] \in Working \/ (pc[r] = "commit" /\ Applying(r))
       => att[r] \in AttemptIds /\ Attempted(r) \in Attempt

TypeInv == TypeOK /\ \A r \in Runners : KnowsAttempt(r)

LEMMA Defaults ==
  /\ NoPlan \in Plan /\ NoPlan.mode \notin Actions
  /\ EmptyHistory \in History
  /\ NoTxn \in Txn
<1>1. NoPlan \in Plan /\ NoPlan.mode \notin Actions
  <2>1. 0 \in Versions
    BY ConstantsAssumption DEF Versions
  <2>2. QED
    BY <2>1 DEF NoPlan, Plan, Modes, Actions, Directions
<1>2. EmptyHistory \in History
  BY DEF EmptyHistory, History
<1>3. NoTxn \in Txn
  BY DEF NoTxn, Txn
<1>4. QED
  BY <1>1, <1>2, <1>3

LEMMA CatalogTypes ==
  ASSUME TypeOK, NEW r \in Runners, NEW m
  PROVE  /\ Captured(r) \in SUBSET Objects
         /\ PlannedOutcome(r, m) \in SUBSET Objects
<1>1. Captured(r) \in SUBSET Objects
  BY DEF Captured, Catalog
<1>2. ReplayedThrough(plan[r].inv, m) \in SUBSET Objects
  BY DEF ReplayedThrough, Objects
<1>3. CatalogBefore(mem[r].applied, m) \in SUBSET Objects
  <2>1. mem[r].applied \in Seq(Entry)
    BY DEF TypeOK, History
  <2>2. QED
    BY <2>1, CatalogBeforeType
<1>4. QED
  BY <1>1, <1>2, <1>3 DEF PlannedOutcome

LEMMA MarkedType ==
  ASSUME TypeOK, NEW r \in Runners, NEW m \in Migrations, NEW id \in AttemptIds
  PROVE  /\ RunningAttempt(r, m) \in Attempt
         /\ MarkedDoc(r, m, id) \in History
         /\ MarkedDoc(r, m, id).attempts = [mem[r].attempts EXCEPT ![id] = RunningAttempt(r, m)]
         /\ MarkedDoc(r, m, id).applied = mem[r].applied
         /\ MarkedDoc(r, m, id).attempts[id] \in Attempt
<1>1. plan[r] \in Plan /\ mem[r] \in History
  BY DEF TypeOK
<1>2. RunningAttempt(r, m) \in Attempt
  BY <1>1, CatalogTypes DEF RunningAttempt, Attempt, Plan, States
<1>3. QED
  BY <1>1, <1>2 DEF MarkedDoc, ReplaceAttempt, History

LEMMA AppliedType ==
  ASSUME TypeOK, NEW r \in Runners, att[r] \in AttemptIds, Attempted(r) \in Attempt
  PROVE  /\ AppliedDoc(r) \in History
         /\ AppliedEntry(r) \in Entry
<1>1. mem[r] \in History
  BY DEF TypeOK
<1>2. AppliedEntry(r) \in Entry
  BY DEF AppliedEntry, Entry, Attempt
<1>3. Append(mem[r].applied, AppliedEntry(r)) \in Seq(Entry)
  BY <1>1, <1>2 DEF History
<1>4. Without(mem[r].applied, Attempted(r).mig) \in Seq(Entry)
  BY <1>1, WithoutEntries DEF History
<1>5. [mem[r].attempts EXCEPT ![att[r]].state = "applied"]
        \in [AttemptIds -> Attempt \cup {NoAttempt}]
  <2>1. [Attempted(r) EXCEPT !.state = "applied"] \in Attempt
    BY DEF Attempt, States
  <2>2. QED
    BY <1>1, <2>1 DEF History, Attempted
<1>6. QED
  BY <1>2, <1>3, <1>4, <1>5 DEF AppliedDoc, History

LEMMA ResolvedType ==
  ASSUME TypeOK, NEW r \in Runners, att[r] \in AttemptIds, ResolutionAllowed(r),
         plan[r].mode \in Actions
  PROVE  ResolvedDoc(r) \in History
<1> DEFINE a == ledger.attempts[att[r]]
<1>1. ledger \in History
  BY DEF TypeOK
<1>2. a \in Attempt
  BY <1>1 DEF ResolutionAllowed, IsUnresolved, History, NoAttempt
<1>3. [a EXCEPT !.state = "resolved", !.resolution = plan[r].mode] \in Attempt
  BY <1>2 DEF Attempt, States
<1>4. Append(ledger.applied, ResolvedEntry(a, att[r])) \in Seq(Entry)
  <2>1. ResolvedEntry(a, att[r]) \in Entry
    BY <1>2 DEF ResolvedEntry, Entry, Attempt
  <2>2. QED
    BY <1>1, <2>1 DEF History
<1>5. Without(ledger.applied, a.mig) \in Seq(Entry)
  BY <1>1, WithoutEntries DEF History
<1> HIDE DEF a
<1>6. QED
  BY <1>1, <1>3, <1>4, <1>5 DEF ResolvedDoc, History, a

LEMMA BaselineType ==
  ASSUME TypeOK, NEW r \in Runners, NEW n \in AttemptIds,
         NEW order \in [1..n -> plan[r].todo]
  PROVE  BaselineDoc(r, order) \in History
<1>1. plan[r] \in Plan
  BY DEF TypeOK
<1>2. n \in Nat /\ 1..n \subseteq AttemptIds
  BY ConstantsAssumption DEF AttemptIds
<1>3. \A i \in 1..n : order[i] \in Migrations /\ plan[r].inv[order[i]] \in Versions
  BY <1>1 DEF Plan
<1>4. [i \in DOMAIN order |->
         [id |-> order[i], hash |-> plan[r].inv[order[i]],
          catalog |-> PlannedOutcome(r, order[i]), attempt |-> i]] \in [1..n -> Entry]
  BY <1>2, <1>3, CatalogTypes DEF Entry
<1>5. [1..n -> Entry] \subseteq Seq(Entry)
  BY <1>2
<1>6. [i \in AttemptIds |->
         IF i \in DOMAIN order
         THEN [mig |-> order[i], hash |-> plan[r].inv[order[i]], dir |-> "up",
               state |-> "applied", resolution |-> "none", before |-> {}, expected |-> {}]
         ELSE NoAttempt] \in [AttemptIds -> Attempt \cup {NoAttempt}]
  BY <1>3 DEF Attempt, States, Directions
<1>7. QED
  BY <1>4, <1>5, <1>6 DEF BaselineDoc, History

LEMMA SettledType ==
  ASSUME TypeOK, NEW r \in Runners, att[r] \in AttemptIds, Attempted(r) \in Attempt,
         NEW base \in History
  PROVE  /\ SettledDoc(r, base) \in History
         /\ SettledDoc(r, base).applied = base.applied
         /\ SettledDoc(r, base).attempts =
              [base.attempts EXCEPT ![att[r]] = [Attempted(r) EXCEPT !.state = FailedState(r)]]
<1>1. [Attempted(r) EXCEPT !.state = FailedState(r)] \in Attempt
  BY DEF Attempt, FailedState, States
<1>2. QED
  BY <1>1 DEF SettledDoc, ReplaceAttempt, History

LEMMA CompletedType ==
  ASSUME TypeInv, NEW r \in Runners, Completed(r), att[r] \in AttemptIds, Attempted(r) \in Attempt
  PROVE  /\ plan' \in [Runners -> Plan] /\ mem' \in [Runners -> History]
         /\ att' \in [Runners -> AttemptIds \cup {0}] /\ step' \in [Runners -> Nat]
         /\ pc' \in [Runners -> PCs]
         /\ \A q \in Runners : KnowsAttempt(q)'
<1> USE DEF TypeInv, TypeOK
<1> DEFINE new == [plan[r] EXCEPT !.todo = plan[r].todo \ {Attempted(r).mig}]
<1>1. new \in Plan /\ new.mode = plan[r].mode
  BY DEF Plan
<1>2. plan' = [plan EXCEPT ![r] = new]
  BY DEF Completed
<1>3. AppliedDoc(r) \in History
  BY AppliedType
<1> HIDE DEF new
<1>4. QED
  BY <1>1, <1>2, <1>3 DEF Completed, KnowsAttempt, Goto, Attempted, Applying, Working, PCs

LEMMA LandedType ==
  ASSUME TypeInv, NEW r \in Runners, pc[r] = "commit", CommitLands(r) \/ UNCHANGED database
  PROVE  rows' \in [Tokens -> Int] /\ ledger' \in History
<1> USE DEF TypeInv, TypeOK
<1>1. CASE UNCHANGED database
  BY <1>1 DEF database
<1>2. CASE CommitLands(r)
  <2>1. Seen(r) \in [Tokens -> Int]
    BY DEF Seen, Txn
  <2>2. PendingDoc(r) \in History
    BY AppliedType DEF PendingDoc, KnowsAttempt
  <2>3. QED
    BY <1>2, <2>1, <2>2 DEF CommitLands
<1>3. QED
  BY <1>1, <1>2

LEMMA SavedType ==
  ASSUME TypeInv, NEW r \in Runners, pc[r] = "catch", SaveFailedState(r)
  PROVE  ledger' \in History
<1>1. PICK base \in CatchBase(r) : ledger' = SettledDoc(r, base)
  BY DEF SaveFailedState
<1>2. base \in History
  BY DEF CatchBase, TypeInv, TypeOK
<1>3. att[r] \in AttemptIds /\ Attempted(r) \in Attempt
  BY DEF TypeInv, KnowsAttempt, Working
<1>4. QED
  BY <1>1, <1>2, <1>3, SettledType DEF TypeInv

LEMMA InFlightType ==
  ASSUME TypeInv, NEW r \in Runners, InFlightLands(r)
  PROVE  rows' \in [Tokens -> Int] /\ ledger' \in History
<1> USE DEF TypeInv, TypeOK
<1>1. CASE pc[r] = "mark"
  <2>1. PICK m \in Migrations, id \in AttemptIds : ledger' = MarkedDoc(r, m, id)
    BY <1>1 DEF InFlightLands
  <2>2. UNCHANGED rows
    BY <1>1 DEF InFlightLands
  <2>3. QED
    BY <2>1, <2>2, MarkedType
<1>2. CASE pc[r] = "exec"
  BY <1>2 DEF InFlightLands, Change
<1>3. CASE pc[r] = "record"
  BY <1>3, AppliedType DEF InFlightLands, KnowsAttempt, Working
<1>4. CASE pc[r] = "commit"
  BY <1>4, LandedType DEF InFlightLands
<1>5. CASE pc[r] = "catch"
  BY <1>5, SavedType DEF InFlightLands
<1>6. QED
  BY <1>1, <1>2, <1>3, <1>4, <1>5 DEF InFlightLands

(* Every step of a runner, of its backend and of the environment keeps the
   variables typed and each runner's attempt known. *)
LEMMA TypeStep == TypeInv /\ [Next]_vars => TypeInv'
<1> SUFFICES ASSUME TypeInv, [Next]_vars PROVE TypeInv'
  OBVIOUS
<1> USE DEF TypeInv, TypeOK, KnowsAttempt, Applying, Attempted, Working, PCs,
            At, Goto, Forget, DropTxn, world, client, database
<1>1. ASSUME NEW r \in Runners, StartPlan(r) PROVE TypeInv'
  <2>1. PICK mode \in Commands, dir \in Directions :
          plan' = [plan EXCEPT ![r] = [NoPlan EXCEPT !.mode = mode, !.dir = dir, !.inv = files]]
    BY <1>1 DEF StartPlan
  <2>2. mode \in Modes /\ mode \notin Actions
    BY RunnerAssumption DEF Modes, Actions
  <2> DEFINE new == [NoPlan EXCEPT !.mode = mode, !.dir = dir, !.inv = files]
  <2>3. new \in Plan /\ new.mode = mode
    BY <2>2, Defaults DEF Plan
  <2> HIDE DEF new
  <2>4. plan' = [plan EXCEPT ![r] = new]
    BY <2>1 DEF new
  <2>5. QED
    BY <1>1, <2>2, <2>3, <2>4 DEF StartPlan
<1>2. ASSUME NEW r \in Runners, BuildPlan(r) PROVE TypeInv'
  <2>1. PICK S \in Selections(r) :
          plan' = [plan EXCEPT ![r].catalog = Captured(r), ![r].todo = S]
    BY <1>2 DEF BuildPlan
  <2>2. S \in SUBSET Migrations
    <3>1. AppliedIds(mem[r]) \subseteq Migrations
      <4>1. \A i \in DOMAIN mem[r].applied : mem[r].applied[i] \in Entry
        BY DEF History
      <4>2. QED
        BY <4>1 DEF AppliedIds, Entry
    <3>2. QED
      BY <3>1 DEF Selections, Pending
  <2> DEFINE new == [plan[r] EXCEPT !.catalog = Captured(r), !.todo = S]
  <2>3. new \in Plan /\ new.mode = plan[r].mode
    BY <2>2, CatalogTypes DEF Plan
  <2>4. plan' = [plan EXCEPT ![r] = new]
    BY <2>1
  <2> HIDE DEF new
  <2>5. QED
    BY <1>2, <2>3, <2>4 DEF BuildPlan
<1>3. ASSUME NEW r \in Runners, Inspect(r) PROVE TypeInv'
  BY <1>3 DEF Inspect, Unresolved
<1>4. ASSUME NEW r \in Runners, Attest(r) PROVE TypeInv'
  <2>1. PICK action \in Actions :
          plan' = [plan EXCEPT ![r] = [NoPlan EXCEPT !.mode = action, !.catalog = Captured(r)]]
    BY <1>4 DEF Attest
  <2> DEFINE new == [NoPlan EXCEPT !.mode = action, !.catalog = Captured(r)]
  <2>2. new \in Plan
    BY Defaults, CatalogTypes DEF Plan, Modes
  <2>3. plan' = [plan EXCEPT ![r] = new]
    BY <2>1
  <2> HIDE DEF new
  <2>4. QED
    BY <1>4, <2>2, <2>3 DEF Attest
<1>5. ASSUME NEW r \in Runners, Connect(r) PROVE TypeInv'
  BY <1>5 DEF Connect
<1>6. ASSUME NEW r \in Runners, AcquireLock(r) PROVE TypeInv'
  BY <1>6 DEF AcquireLock
<1>7. ASSUME NEW r \in Runners, GiveUp(r) PROVE TypeInv'
  BY <1>7, Defaults DEF GiveUp, MayGiveUp
<1>8. ASSUME NEW r \in Runners, VerifyPlan(r) PROVE TypeInv'
  BY <1>8 DEF VerifyPlan
<1>9. ASSUME NEW r \in Runners, VerifyBaseline(r) PROVE TypeInv'
  <2>1. PICK n \in AttemptIds : \E order \in [1..n -> plan[r].todo] :
          mem' = [mem EXCEPT ![r] = BaselineDoc(r, order)]
    BY <1>9 DEF VerifyBaseline
  <2>2. PICK order \in [1..n -> plan[r].todo] :
          mem' = [mem EXCEPT ![r] = BaselineDoc(r, order)]
    BY <2>1
  <2>3. BaselineDoc(r, order) \in History
    BY BaselineType
  <2>4. txn' \in [Runners -> Txn]
    <3>1. txn' = [txn EXCEPT ![r].open = TRUE]
      BY <1>9 DEF VerifyBaseline
    <3>2. QED
      BY <3>1 DEF Txn
  <2>5. plan[r].mode = "baseline" /\ UNCHANGED <<plan, att>> /\ pc' = [pc EXCEPT ![r] = "commit"]
    BY <1>9 DEF VerifyBaseline
  <2>6. UNCHANGED <<rows, ledger, lock, files, touched, drifts, edits, lost, step, alive>>
    BY <1>9 DEF VerifyBaseline
  <2>7. QED
    BY <2>2, <2>3, <2>4, <2>5, <2>6
<1>10. ASSUME NEW r \in Runners, VerifyResolution(r) PROVE TypeInv'
  <2>1. ResolvedDoc(r) \in History
    BY <1>10, ResolvedType DEF VerifyResolution
  <2>2. txn' \in [Runners -> Txn]
    BY <1>10 DEF VerifyResolution, Txn
  <2>3. plan[r].mode \notin {"apply", "reconcile"}
    BY <1>10 DEF VerifyResolution, Actions
  <2>4. QED
    BY <1>10, <2>1, <2>2, <2>3 DEF VerifyResolution
<1>11. ASSUME NEW r \in Runners, Refuse(r) PROVE TypeInv'
  BY <1>11 DEF Refuse
<1>12. ASSUME NEW r \in Runners, Mark(r) PROVE TypeInv'
  <2>1. PICK m \in Migrations, id \in AttemptIds :
          /\ ledger' = MarkedDoc(r, m, id)
          /\ mem' = [mem EXCEPT ![r] = MarkedDoc(r, m, id)]
          /\ att' = [att EXCEPT ![r] = id]
    BY <1>12 DEF Mark
  <2>2. MarkedDoc(r, m, id) \in History /\ MarkedDoc(r, m, id).attempts[id] \in Attempt
    BY MarkedType
  <2>3. QED
    BY <1>12, <2>1, <2>2 DEF Mark
<1>13. ASSUME NEW r \in Runners, Begin(r) PROVE TypeInv'
  BY <1>13 DEF Begin, Txn
<1>14. ASSUME NEW r \in Runners, Execute(r) PROVE TypeInv'
  <2>1. rows' \in [Tokens -> Int]
    BY <1>14 DEF Execute, Change
  <2>2. txn' \in [Runners -> Txn]
    <3>1. [txn[r].delta EXCEPT ![Target(r)] = @ + Change(r)] \in [Tokens -> Int]
      <4> DEFINE t == Target(r)
                 d == txn[r].delta
      <4>1. d \in [Tokens -> Int] /\ Change(r) \in Int
        BY DEF Change, Txn
      <4> HIDE DEF t, d
      <4>2. \A x \in Tokens : d[x] + Change(r) \in Int
        BY <4>1
      <4>3. [d EXCEPT ![t] = d[t] + Change(r)] \in [Tokens -> Int]
        BY <4>1, <4>2
      <4>4. QED
        BY <4>3 DEF t, d
    <3>2. [txn[r] EXCEPT !.delta = [txn[r].delta EXCEPT ![Target(r)] = @ + Change(r)]] \in Txn
      BY <3>1 DEF Txn
    <3>3. QED
      BY <1>14, <3>2 DEF Execute
  <2>3. step' \in [Runners -> Nat]
    BY <1>14 DEF Execute
  <2>4. QED
    BY <1>14, <2>1, <2>2, <2>3 DEF Execute
<1>15. ASSUME NEW r \in Runners, Record(r) PROVE TypeInv'
  <2>1. CASE txn[r].open
    BY <1>15, <2>1 DEF Record
  <2>2. CASE ~ txn[r].open
    BY <1>15, <2>2, AppliedType, CompletedType DEF Record
  <2>3. QED
    BY <2>1, <2>2
<1>16. ASSUME NEW r \in Runners, Commit(r) PROVE TypeInv'
  <2>1. rows' \in [Tokens -> Int] /\ ledger' \in History
    BY <1>16, LandedType DEF Commit
  <2>2. txn' \in [Runners -> Txn]
    BY <1>16, Defaults DEF Commit
  <2>3. CASE Applying(r)
    BY <1>16, <2>1, <2>2, <2>3, CompletedType DEF Commit
  <2>4. CASE ~ Applying(r)
    BY <1>16, <2>1, <2>2, <2>4 DEF Commit
  <2>5. QED
    BY <2>3, <2>4
<1>17. ASSUME NEW r \in Runners, CommitRejected(r) PROVE TypeInv'
  <2>1. rows' \in [Tokens -> Int] /\ ledger' \in History
    BY <1>17, LandedType DEF CommitRejected
  <2>2. QED
    BY <1>17, <2>1, Defaults DEF CommitRejected
<1>18. ASSUME NEW r \in Runners, Fail(r) PROVE TypeInv'
  BY <1>18 DEF Fail
<1>19. ASSUME NEW r \in Runners, Catch(r) PROVE TypeInv'
  <2>1. ledger' \in History
    BY <1>19, SavedType DEF Catch
  <2>2. QED
    BY <1>19, <2>1, Defaults DEF Catch
<1>20. ASSUME NEW r \in Runners, Close(r) PROVE TypeInv'
  BY <1>20, Defaults DEF Close, Unlocked
<1>21. ASSUME NEW r \in Runners, Lose(r) PROVE TypeInv'
  BY <1>21 DEF Lose
<1>22. ASSUME NEW r \in Runners, BackendEnds(r) PROVE TypeInv'
  <2>1. rows' \in [Tokens -> Int] /\ ledger' \in History
    <3>1. CASE UNCHANGED database
      BY <3>1
    <3>2. CASE InFlightLands(r)
      BY <3>2, InFlightType
    <3>3. QED
      BY <1>22, <3>1, <3>2 DEF BackendEnds
  <2>2. QED
    BY <1>22, <2>1, Defaults DEF BackendEnds
<1>23. ASSUME ManualDdl PROVE TypeInv'
  BY <1>23 DEF ManualDdl, Objects, Tokens
<1>24. ASSUME Repair PROVE TypeInv'
  BY <1>24 DEF Repair
<1>25. ASSUME EditFiles PROVE TypeInv'
  BY <1>25 DEF EditFiles
<1>26. ASSUME UNCHANGED vars PROVE TypeInv'
  BY <1>26 DEF vars
<1>27. QED
  BY <1>1, <1>2, <1>3, <1>4, <1>5, <1>6, <1>7, <1>8, <1>9, <1>10, <1>11, <1>12, <1>13,
     <1>14, <1>15, <1>16, <1>17, <1>18, <1>19, <1>20, <1>21, <1>22, <1>23, <1>24, <1>25, <1>26
     DEF Next, Run, Operate

LEMMA TypeInit == Init => TypeInv
<1> SUFFICES ASSUME Init PROVE TypeInv
  OBVIOUS
<1> USE RunnerAssumption, Defaults DEF Init
<1>1. rows \in [Tokens -> Int]
  OBVIOUS
<1>2. touched \subseteq Tokens
  BY DEF Objects, Tokens
<1>3. TypeOK
  BY <1>1, <1>2 DEF TypeOK, PCs
<1>4. \A r \in Runners : KnowsAttempt(r)
  BY DEF KnowsAttempt, Working
<1>5. QED
  BY <1>3, <1>4 DEF TypeInv

LEMMA TypeInvariant == Spec => []TypeInv
<1>1. QED
  BY TypeInit, TypeStep, PTL DEF Spec

(* Every variable stays in its type in every behaviour: each document a
   runner, a lost session or an operator saves is of the type of a
   history, for any number of runners and migrations. *)
THEOREM TypeCorrect == Spec => []TypeOK
<1>1. TypeInv => TypeOK
  BY DEF TypeInv
<1>2. QED
  BY <1>1, TypeInvariant, PTL

-------------------------------------------------------------------------------
(***************************************************************************)
(* At most one attempt is unresolved.  The property alone is not           *)
(* inductive: it holds because whoever writes the ledger holds the lock,   *)
(* knows the committed document and found nothing open in it.              *)
(***************************************************************************)
Open(h) == {id \in AttemptIds : h.attempts[id].state \in {"running", "unknown"}}
AtMostOne(S) == \A i, j \in S : i = j

\* An applied entry was left by an attempt that succeeded.
EntriesSettled(h) ==
  \A i \in DOMAIN h.applied :
    h.attempts[h.applied[i].attempt].state \in {"applied", "resolved"}

Sound(h) == EntriesSettled(h) /\ AtMostOne(Open(h))

LockHeld == \A r \in Runners : pc[r] \in Connected => lock = r

\* The runner is between recording an attempt and recording its outcome.
Attempting(r) == pc[r] \in {"begin", "exec", "record"} \/ (pc[r] = "commit" /\ Applying(r))

KnowsLedger(r) ==
  /\ pc[r] \in {"planning", "planned", "locking", "verify"} /\ plan[r].mode \notin Actions
       => Open(mem[r]) = {}
  /\ pc[r] = "mark" => mem[r] = ledger /\ Open(mem[r]) = {}
  /\ Attempting(r) => mem[r] = ledger /\ Open(mem[r]) = {att[r]}
  /\ pc[r] = "catch" => Open(mem[r]) = {att[r]} /\ Open(ledger) \subseteq {att[r]}
  /\ pc[r] = "commit" /\ ~ Applying(r) => AtMostOne(Open(mem[r]))

LedgerInv ==
  /\ LockHeld
  /\ Sound(ledger)
  /\ \A r \in Runners : EntriesSettled(mem[r]) /\ KnowsLedger(r)

LEMMA EntryAttempts ==
  ASSUME NEW h \in History, NEW i \in DOMAIN h.applied
  PROVE  h.applied[i] \in Entry /\ h.applied[i].attempt \in AttemptIds
<1>1. h.applied \in Seq(Entry)
  BY DEF History
<1>2. h.applied[i] \in Entry
  BY <1>1
<1>3. QED
  BY <1>2 DEF Entry

(* Recording a running attempt under a fresh identifier opens only that one. *)
LEMMA MarkedLedger ==
  ASSUME TypeOK, NEW r \in Runners, NEW m \in Migrations, NEW id \in AttemptIds,
         IsFresh(mem[r], id), EntriesSettled(mem[r]), Open(mem[r]) = {}
  PROVE  EntriesSettled(MarkedDoc(r, m, id)) /\ Open(MarkedDoc(r, m, id)) = {id}
<1> DEFINE h == mem[r]
           d == MarkedDoc(r, m, id)
<1>1. h \in History
  BY DEF TypeOK
<1>2. /\ d.applied = h.applied
      /\ d.attempts = [h.attempts EXCEPT ![id] = RunningAttempt(r, m)]
      /\ RunningAttempt(r, m).state = "running"
  BY MarkedType DEF RunningAttempt
<1>3. h.attempts[id].state = "absent"
  BY DEF IsFresh, NoAttempt
<1>4. \A j \in AttemptIds : d.attempts[j] = IF j = id THEN RunningAttempt(r, m) ELSE h.attempts[j]
  BY <1>1, <1>2 DEF History
<1>5. EntriesSettled(d)
  <2>1. ASSUME NEW i \in DOMAIN h.applied
        PROVE  d.attempts[h.applied[i].attempt].state \in {"applied", "resolved"}
    <3>1. h.applied[i].attempt \in AttemptIds
      BY <1>1, EntryAttempts
    <3>2. h.attempts[h.applied[i].attempt].state \in {"applied", "resolved"}
      BY DEF EntriesSettled
    <3>3. h.applied[i].attempt # id
      BY <1>3, <3>2
    <3>4. QED
      BY <1>4, <3>1, <3>2, <3>3
  <2>2. QED
    BY <1>2, <2>1 DEF EntriesSettled
<1>6. Open(d) = {id}
  <2> HIDE DEF d, h
  <2>1. \A j \in AttemptIds : j # id => h.attempts[j].state \notin {"running", "unknown"}
    BY DEF Open, h
  <2>2. QED
    BY <1>2, <1>4, <2>1 DEF Open
<1>7. QED
  BY <1>5, <1>6

(* Recording success closes the attempt and leaves its entry settled. *)
LEMMA AppliedLedger ==
  ASSUME TypeOK, NEW r \in Runners, att[r] \in AttemptIds, Attempted(r) \in Attempt,
         EntriesSettled(mem[r]), Open(mem[r]) = {att[r]}
  PROVE  EntriesSettled(AppliedDoc(r)) /\ Open(AppliedDoc(r)) = {}
<1> DEFINE h == mem[r]
           d == AppliedDoc(r)
<1>1. h \in History
  BY DEF TypeOK
<1>2. \A j \in AttemptIds :
        d.attempts[j] = IF j = att[r] THEN [Attempted(r) EXCEPT !.state = "applied"]
                        ELSE h.attempts[j]
  BY <1>1 DEF AppliedDoc, History, Attempted
<1>3. [Attempted(r) EXCEPT !.state = "applied"].state = "applied"
  BY DEF Attempt
<1>4. \A i \in DOMAIN d.applied :
        \/ d.applied[i] = AppliedEntry(r)
        \/ \E k \in DOMAIN h.applied : d.applied[i] = h.applied[k]
  <2>1. h.applied \in Seq(Entry)
    BY <1>1 DEF History
  <2>2. CASE Attempted(r).dir = "up"
    <3>1. d.applied = Append(h.applied, AppliedEntry(r))
      BY <2>2 DEF AppliedDoc
    <3> HIDE DEF d, h
    <3>2. QED
      BY <2>1, <3>1, AppliedType, AppendProperties
  <2>3. CASE Attempted(r).dir # "up"
    <3>1. d.applied = Without(h.applied, Attempted(r).mig)
      BY <2>3 DEF AppliedDoc
    <3>2. QED
      BY <2>1, <3>1, WithoutEntries
  <2>4. QED
    BY <2>2, <2>3
<1>5. AppliedEntry(r).attempt = att[r]
  BY DEF AppliedEntry
<1>6. \A k \in DOMAIN h.applied :
        /\ h.applied[k].attempt \in AttemptIds
        /\ h.attempts[h.applied[k].attempt].state \in {"applied", "resolved"}
  BY <1>1, EntryAttempts DEF EntriesSettled
<1>7. \A j \in AttemptIds : j # att[r] => h.attempts[j].state \notin {"running", "unknown"}
  BY DEF Open
<1> HIDE DEF d, h
<1>8. EntriesSettled(d)
  <2>1. ASSUME NEW i \in DOMAIN d.applied
        PROVE  d.attempts[d.applied[i].attempt].state \in {"applied", "resolved"}
    <3>1. CASE d.applied[i] = AppliedEntry(r)
      BY <1>2, <1>3, <1>5, <3>1
    <3>2. CASE \E k \in DOMAIN h.applied : d.applied[i] = h.applied[k]
      <4>1. PICK k \in DOMAIN h.applied : d.applied[i] = h.applied[k]
        BY <3>2
      <4> DEFINE j == h.applied[k].attempt
      <4>2. j \in AttemptIds /\ h.attempts[j].state \in {"applied", "resolved"}
        BY <1>6
      <4>3. d.applied[i].attempt = j
        BY <4>1
      <4> HIDE DEF j
      <4>4. d.attempts[j].state \in {"applied", "resolved"}
        BY <4>2, <1>2, <1>3
      <4>5. QED
        BY <4>3, <4>4
    <3>3. QED
      BY <1>4, <3>1, <3>2
  <2>2. QED
    BY <2>1 DEF EntriesSettled
<1>9. Open(d) = {}
  BY <1>2, <1>3, <1>7 DEF Open
<1>10. QED
  BY <1>8, <1>9 DEF d

(* A resolution settles the attempt it names and opens none. *)
LEMMA ResolvedLedger ==
  ASSUME TypeOK, NEW r \in Runners, att[r] \in AttemptIds, ResolutionAllowed(r),
         plan[r].mode \in Actions, Sound(ledger)
  PROVE  Sound(ResolvedDoc(r))
<1> DEFINE a == ledger.attempts[att[r]]
           d == ResolvedDoc(r)
<1>1. ledger \in History /\ ledger.applied \in Seq(Entry)
  BY DEF TypeOK, History
<1>2. a \in Attempt
  BY <1>1 DEF ResolutionAllowed, IsUnresolved, History, NoAttempt
<1>3. \A j \in AttemptIds :
        d.attempts[j] = IF j = att[r]
                        THEN [a EXCEPT !.state = "resolved", !.resolution = plan[r].mode]
                        ELSE ledger.attempts[j]
  BY <1>1 DEF ResolvedDoc, History
<1>4. [a EXCEPT !.state = "resolved", !.resolution = plan[r].mode].state = "resolved"
  BY <1>2 DEF Attempt
<1>5. ResolvedEntry(a, att[r]) \in Entry /\ ResolvedEntry(a, att[r]).attempt = att[r]
  BY <1>2 DEF ResolvedEntry, Entry, Attempt
<1>6. \A i \in DOMAIN d.applied :
        \/ d.applied[i].attempt = att[r]
        \/ \E k \in DOMAIN ledger.applied : d.applied[i] = ledger.applied[k]
  <2>1. CASE plan[r].mode = "confirm-not-applied"
    BY <2>1 DEF ResolvedDoc
  <2>2. CASE plan[r].mode # "confirm-not-applied" /\ a.dir = "down"
    <3>1. d.applied = Without(ledger.applied, a.mig)
      BY <2>2 DEF ResolvedDoc
    <3>2. QED
      BY <1>1, <3>1, WithoutEntries
  <2>3. CASE plan[r].mode # "confirm-not-applied" /\ a.dir # "down"
    <3>1. d.applied = Append(ledger.applied, ResolvedEntry(a, att[r]))
      BY <2>3 DEF ResolvedDoc
    <3> HIDE DEF d, a
    <3>2. QED
      BY <1>1, <1>5, <3>1, AppendProperties
  <2>4. QED
    BY <2>1, <2>2, <2>3
<1>7. \A k \in DOMAIN ledger.applied :
        /\ ledger.applied[k].attempt \in AttemptIds
        /\ ledger.attempts[ledger.applied[k].attempt].state \in {"applied", "resolved"}
  BY <1>1, EntryAttempts DEF EntriesSettled, Sound
<1> HIDE DEF d, a
<1>8. EntriesSettled(d)
  <2>1. ASSUME NEW i \in DOMAIN d.applied
        PROVE  d.attempts[d.applied[i].attempt].state \in {"applied", "resolved"}
    <3>1. CASE d.applied[i].attempt = att[r]
      BY <1>3, <1>4, <3>1
    <3>2. CASE \E k \in DOMAIN ledger.applied : d.applied[i] = ledger.applied[k]
      <4>1. PICK k \in DOMAIN ledger.applied : d.applied[i] = ledger.applied[k]
        BY <3>2
      <4> DEFINE j == ledger.applied[k].attempt
      <4>2. j \in AttemptIds /\ ledger.attempts[j].state \in {"applied", "resolved"}
        BY <1>7
      <4>3. d.applied[i].attempt = j
        BY <4>1
      <4> HIDE DEF j
      <4>4. d.attempts[j].state \in {"applied", "resolved"}
        BY <4>2, <1>3, <1>4
      <4>5. QED
        BY <4>3, <4>4
    <3>3. QED
      BY <1>6, <3>1, <3>2
  <2>2. QED
    BY <2>1 DEF EntriesSettled
<1>9. Open(d) \subseteq Open(ledger)
  BY <1>3, <1>4 DEF Open
<1>10. QED
  BY <1>8, <1>9 DEF Sound, AtMostOne, d

LEMMA BaselineLedger ==
  ASSUME TypeOK, NEW r \in Runners, NEW n \in AttemptIds,
         NEW order \in [1..n -> plan[r].todo]
  PROVE  Sound(BaselineDoc(r, order)) /\ Open(BaselineDoc(r, order)) = {}
<1> DEFINE d == BaselineDoc(r, order)
<1>1. 1..n \subseteq AttemptIds
  BY ConstantsAssumption DEF AttemptIds
<1>2. \A j \in AttemptIds :
        d.attempts[j].state = IF j \in 1..n THEN "applied" ELSE "absent"
  BY DEF BaselineDoc, NoAttempt
<1>3. DOMAIN d.applied = 1..n /\ \A i \in 1..n : d.applied[i].attempt = i
  BY DEF BaselineDoc
<1> HIDE DEF d
<1>4. EntriesSettled(d)
  BY <1>1, <1>2, <1>3 DEF EntriesSettled
<1>5. Open(d) = {}
  BY <1>2 DEF Open
<1>6. QED
  BY <1>4, <1>5 DEF Sound, AtMostOne, d

(* A failed attempt is saved over a document that has no entry of it. *)
LEMMA SavedLedger ==
  ASSUME TypeInv, LedgerInv, NEW r \in Runners, pc[r] = "catch", SaveFailedState(r)
  PROVE  Sound(ledger') /\ Open(ledger') \subseteq {att[r]}
<1>1. PICK base \in CatchBase(r) :
        /\ ~ (base = ledger /\ DurablyApplied(base, att[r]))
        /\ ledger' = SettledDoc(r, base)
  BY DEF SaveFailedState
<1>2. att[r] \in AttemptIds /\ Attempted(r) \in Attempt
  BY DEF TypeInv, KnowsAttempt, Working
<1>3. base \in History /\ EntriesSettled(base) /\ Open(base) \subseteq {att[r]}
  BY DEF CatchBase, TypeInv, TypeOK, LedgerInv, KnowsLedger, Sound
<1>4. \A i \in DOMAIN base.applied : base.applied[i].attempt # att[r]
  <2>1. CASE base = ledger
    BY <1>1, <2>1 DEF DurablyApplied, HasEntryOf
  <2>2. CASE base = mem[r]
    <3>1. mem[r].attempts[att[r]].state \in {"running", "unknown"}
      BY DEF LedgerInv, KnowsLedger, Open
    <3>2. QED
      BY <2>2, <3>1, <1>3 DEF EntriesSettled
  <2>3. QED
    BY <2>1, <2>2 DEF CatchBase
<1>5. /\ ledger'.applied = base.applied
      /\ \A j \in AttemptIds : j # att[r] => ledger'.attempts[j] = base.attempts[j]
  <2>1. base.attempts \in [AttemptIds -> Attempt \cup {NoAttempt}]
    BY <1>3 DEF History
  <2>2. /\ ledger'.applied = base.applied
        /\ ledger'.attempts = [base.attempts EXCEPT
             ![att[r]] = [Attempted(r) EXCEPT !.state = FailedState(r)]]
    BY <1>1, <1>2, <1>3, SettledType DEF TypeInv
  <2>3. QED
    BY <2>1, <2>2
<1>6. \A i \in DOMAIN base.applied : base.applied[i].attempt \in AttemptIds
  BY <1>3, EntryAttempts
<1>7. EntriesSettled(ledger')
  BY <1>3, <1>4, <1>5, <1>6 DEF EntriesSettled
<1>8. Open(ledger') \subseteq {att[r]}
  BY <1>3, <1>5 DEF Open
<1>9. QED
  BY <1>7, <1>8 DEF Sound, AtMostOne

(* What a step of one runner leaves to the others: their client state is their
   own, and whoever else is connected would hold the lock. *)
LEMMA OneRunnerMoves ==
  ASSUME TypeInv, LedgerInv, NEW r \in Runners,
         \A q \in Runners : q # r =>
           pc'[q] = pc[q] /\ plan'[q] = plan[q] /\ mem'[q] = mem[q] /\ att'[q] = att[q],
         UNCHANGED ledger \/ pc[r] \in Connected,
         lock' = lock \/ lock = NoRunner \/ pc[r] \in Connected,
         pc'[r] \in Connected => lock' = r,
         Sound(ledger'), EntriesSettled(mem'[r]), KnowsLedger(r)'
  PROVE  LedgerInv'
<1> USE DEF LedgerInv, LockHeld
<1>1. ASSUME NEW q \in Runners, q # r, pc[q] \in Connected
      PROVE  lock' = q /\ UNCHANGED ledger
  <2>1. lock = q /\ q # NoRunner /\ pc[r] \notin Connected
    BY <1>1, RunnerAssumption
  <2>2. QED
    BY <2>1
<1>2. LockHeld'
  BY <1>1
<1>3. ASSUME NEW q \in Runners, q # r
      PROVE  EntriesSettled(mem'[q]) /\ KnowsLedger(q)'
  <2>1. pc'[q] = pc[q] /\ plan'[q] = plan[q] /\ mem'[q] = mem[q] /\ att'[q] = att[q]
    BY <1>3
  <2>2. EntriesSettled(mem[q]) /\ KnowsLedger(q)
    BY <1>3
  <2>3. CASE pc[q] \in Connected
    <3>1. UNCHANGED ledger
      BY <1>1, <1>3, <2>3
    <3>2. QED
      BY <2>1, <2>2, <3>1 DEF KnowsLedger, Attempting, Applying
  <2>4. CASE pc[q] \notin Connected
    BY <2>1, <2>2, <2>4 DEF KnowsLedger, Attempting, Applying, Connected
  <2>5. QED
    BY <2>3, <2>4
<1>4. \A q \in Runners : EntriesSettled(mem'[q]) /\ KnowsLedger(q)'
  BY <1>3
<1>5. QED
  BY <1>2, <1>4

LEMMA EmptyLedger == EntriesSettled(EmptyHistory) /\ Open(EmptyHistory) = {}
  BY DEF EmptyHistory, EntriesSettled, Open, NoAttempt

\* The next migration's turn, or the end of the batch.
LEMMA CompletedLedger ==
  ASSUME TypeInv, LedgerInv, NEW r \in Runners, Attempting(r),
         Completed(r), ledger' = AppliedDoc(r), UNCHANGED lock
  PROVE  LedgerInv'
<1>1. att[r] \in AttemptIds /\ Attempted(r) \in Attempt
  BY DEF TypeInv, KnowsAttempt, Attempting, Working
<1>2. Open(mem[r]) = {att[r]} /\ EntriesSettled(mem[r])
  BY DEF LedgerInv, KnowsLedger
<1>3. EntriesSettled(AppliedDoc(r)) /\ Open(AppliedDoc(r)) = {}
  BY <1>1, <1>2, AppliedLedger DEF TypeInv
<1>4. pc[r] \in Connected
  BY DEF Attempting, Connected
<1>5. mem'[r] = AppliedDoc(r) /\ pc'[r] \in {"mark", "close"}
  BY DEF Completed, Goto, TypeInv, TypeOK
<1>6. KnowsLedger(r)'
  BY <1>3, <1>5 DEF KnowsLedger, Attempting
<1>7. \A q \in Runners : q # r =>
        pc'[q] = pc[q] /\ plan'[q] = plan[q] /\ mem'[q] = mem[q] /\ att'[q] = att[q]
  BY DEF Completed, Goto, TypeInv, TypeOK
<1>8. Sound(ledger')
  BY <1>3 DEF Sound, AtMostOne
<1>9. lock' = r
  BY <1>4 DEF LedgerInv, LockHeld
<1>10. QED
  BY <1>3, <1>4, <1>5, <1>6, <1>7, <1>8, <1>9, OneRunnerMoves

(* The document a commit makes durable is sound. *)
LEMMA CommittedLedger ==
  ASSUME TypeInv, LedgerInv, NEW r \in Runners, pc[r] = "commit"
  PROVE  /\ Sound(PendingDoc(r))
         /\ Applying(r) => Open(PendingDoc(r)) = {}
<1>1. CASE Applying(r)
  <2>1. att[r] \in AttemptIds /\ Attempted(r) \in Attempt
    BY <1>1 DEF TypeInv, KnowsAttempt
  <2>2. Open(mem[r]) = {att[r]} /\ EntriesSettled(mem[r])
    BY <1>1 DEF LedgerInv, KnowsLedger, Attempting
  <2>3. QED
    BY <1>1, <2>1, <2>2, AppliedLedger DEF TypeInv, PendingDoc, Sound, AtMostOne
<1>2. CASE ~ Applying(r)
  BY <1>2 DEF LedgerInv, KnowsLedger, PendingDoc, Sound
<1>3. QED
  BY <1>1, <1>2

(* The last effect of a lost session is one its runner could have had. *)
LEMMA InFlightLedger ==
  ASSUME TypeInv, LedgerInv, NEW r \in Runners, InFlightLands(r)
  PROVE  Sound(ledger') /\ (UNCHANGED ledger \/ pc[r] \in Connected)
<1> USE DEF LedgerInv
<1>1. CASE pc[r] = "mark"
  <2>1. PICK m \in Migrations, id \in AttemptIds :
          IsFresh(mem[r], id) /\ ledger' = MarkedDoc(r, m, id)
    BY <1>1 DEF InFlightLands
  <2>2. Open(mem[r]) = {}
    BY <1>1 DEF KnowsLedger
  <2>3. QED
    BY <1>1, <2>1, <2>2, MarkedLedger DEF TypeInv, Sound, AtMostOne, Connected
<1>2. CASE pc[r] = "exec"
  BY <1>2 DEF InFlightLands
<1>3. CASE pc[r] = "record"
  <2>1. att[r] \in AttemptIds /\ Attempted(r) \in Attempt
    BY <1>3 DEF TypeInv, KnowsAttempt, Working
  <2>2. Open(mem[r]) = {att[r]}
    BY <1>3 DEF KnowsLedger, Attempting
  <2>3. ledger' = AppliedDoc(r)
    BY <1>3 DEF InFlightLands
  <2>4. QED
    BY <1>3, <2>1, <2>2, <2>3, AppliedLedger DEF TypeInv, Sound, AtMostOne, Connected
<1>4. CASE pc[r] = "commit"
  BY <1>4, CommittedLedger DEF InFlightLands, CommitLands, Connected
<1>5. CASE pc[r] = "catch"
  BY <1>5, SavedLedger DEF InFlightLands, Connected
<1>6. QED
  BY <1>1, <1>2, <1>3, <1>4, <1>5 DEF InFlightLands

(* Every step keeps the ledger sound and its writer alone. *)
LEMMA LedgerStep == TypeInv /\ LedgerInv /\ [Next]_vars => LedgerInv'
<1> SUFFICES ASSUME TypeInv, LedgerInv, [Next]_vars PROVE LedgerInv'
  OBVIOUS
<1> USE DEF At, Goto, world, client, database
<1>a. /\ pc \in [Runners -> PCs] /\ plan \in [Runners -> Plan] /\ mem \in [Runners -> History]
      /\ att \in [Runners -> AttemptIds \cup {0}] /\ ledger \in History
  BY DEF TypeInv, TypeOK
<1>b. /\ Sound(ledger) /\ LockHeld
      /\ \A r \in Runners : EntriesSettled(mem[r]) /\ KnowsLedger(r)
  BY DEF LedgerInv
<1>c. /\ EntriesSettled(ledger)
      /\ Unresolved(ledger) = {} => Open(ledger) = {}
  <2>1. ASSUME NEW id \in AttemptIds, HasEntryOf(ledger, id)
        PROVE  ledger.attempts[id].state \notin {"running", "unknown"}
    BY <1>b, <2>1 DEF HasEntryOf, Sound, EntriesSettled
  <2>2. QED
    BY <1>b, <2>1 DEF Sound, Unresolved, IsUnresolved, Open
<1>1. ASSUME NEW r \in Runners, StartPlan(r) PROVE LedgerInv'
  <2>1. /\ pc' = [pc EXCEPT ![r] = "planning"] /\ mem' = [mem EXCEPT ![r] = ledger]
        /\ NothingUnresolved(ledger) /\ UNCHANGED <<ledger, lock, att>>
        /\ \A q \in Runners : q # r => plan'[q] = plan[q]
    BY <1>1, <1>a DEF StartPlan, ValidHistory
  <2>2. KnowsLedger(r)'
    BY <2>1, <1>a, <1>c DEF KnowsLedger, NothingUnresolved, Attempting
  <2>3. QED
    BY <2>1, <2>2, <1>a, <1>b, <1>c, OneRunnerMoves DEF Connected
<1>2. ASSUME NEW r \in Runners, BuildPlan(r) PROVE LedgerInv'
  <2>1. /\ pc[r] = "planning" /\ pc' = [pc EXCEPT ![r] = "planned"]
        /\ UNCHANGED <<ledger, lock, att, mem>>
        /\ \A q \in Runners : q # r => plan'[q] = plan[q]
    BY <1>2, <1>a DEF BuildPlan
  <2>2. plan[r].mode \notin Actions
    BY <2>1 DEF TypeInv, KnowsAttempt
  <2>3. KnowsLedger(r)'
    BY <2>1, <2>2, <1>a, <1>b DEF KnowsLedger, Attempting
  <2>4. QED
    BY <2>1, <2>3, <1>a, <1>b, OneRunnerMoves DEF Connected
<1>3. ASSUME NEW r \in Runners, Inspect(r) PROVE LedgerInv'
  <2>1. /\ pc' = [pc EXCEPT ![r] = "inspecting"] /\ mem' = [mem EXCEPT ![r] = ledger]
        /\ UNCHANGED <<ledger, lock, plan>>
        /\ \A q \in Runners : q # r => att'[q] = att[q]
    BY <1>3, <1>a DEF Inspect
  <2>2. KnowsLedger(r)'
    BY <2>1, <1>a DEF KnowsLedger, Attempting
  <2>3. QED
    BY <2>1, <2>2, <1>a, <1>b, <1>c, OneRunnerMoves DEF Connected
<1>4. ASSUME NEW r \in Runners, Attest(r) PROVE LedgerInv'
  <2>1. PICK action \in Actions :
          plan' = [plan EXCEPT ![r] = [NoPlan EXCEPT !.mode = action, !.catalog = Captured(r)]]
    BY <1>4 DEF Attest
  <2>2. /\ pc' = [pc EXCEPT ![r] = "planned"]
        /\ UNCHANGED <<ledger, lock, att, mem>>
        /\ \A q \in Runners : q # r => plan'[q] = plan[q]
        /\ plan'[r].mode \in Actions
    BY <1>4, <1>a, <2>1 DEF Attest, NoPlan
  <2>3. KnowsLedger(r)'
    BY <2>2, <1>a DEF KnowsLedger, Attempting
  <2>4. QED
    BY <2>2, <2>3, <1>a, <1>b, OneRunnerMoves DEF Connected
<1>5. ASSUME NEW r \in Runners, Connect(r) PROVE LedgerInv'
  <2>1. /\ pc[r] = "planned" /\ pc' = [pc EXCEPT ![r] = "locking"]
        /\ UNCHANGED <<ledger, lock, plan, att, mem>>
    BY <1>5 DEF Connect
  <2>2. KnowsLedger(r)'
    BY <2>1, <1>a, <1>b DEF KnowsLedger, Attempting
  <2>3. QED
    BY <2>1, <2>2, <1>a, <1>b, OneRunnerMoves DEF Connected
<1>6. ASSUME NEW r \in Runners, AcquireLock(r) PROVE LedgerInv'
  <2>1. /\ pc[r] = "locking" /\ pc' = [pc EXCEPT ![r] = "verify"]
        /\ lock = NoRunner /\ lock' = r
        /\ UNCHANGED <<ledger, plan, att, mem>>
    BY <1>6 DEF AcquireLock, LockFree
  <2>2. KnowsLedger(r)'
    BY <2>1, <1>a, <1>b DEF KnowsLedger, Attempting
  <2>3. QED
    BY <2>1, <2>2, <1>a, <1>b, OneRunnerMoves
<1>7. ASSUME NEW r \in Runners, Forget(r), UNCHANGED ledger,
             lock' = lock \/ pc[r] \in Connected
      PROVE  LedgerInv'
  <2>1. /\ pc'[r] = "idle" /\ mem'[r] = EmptyHistory
        /\ \A q \in Runners : q # r =>
             pc'[q] = pc[q] /\ plan'[q] = plan[q] /\ mem'[q] = mem[q] /\ att'[q] = att[q]
    BY <1>7, <1>a DEF Forget
  <2>2. KnowsLedger(r)'
    BY <2>1 DEF KnowsLedger, Attempting
  <2>3. QED
    BY <1>7, <2>1, <2>2, <1>a, <1>b, EmptyLedger, OneRunnerMoves DEF Connected
<1>8. ASSUME NEW r \in Runners, GiveUp(r) PROVE LedgerInv'
  BY <1>8, <1>7 DEF GiveUp
<1>9. ASSUME NEW r \in Runners, VerifyPlan(r) PROVE LedgerInv'
  <2>1. /\ pc[r] = "verify" /\ pc' = [pc EXCEPT ![r] = "mark"]
        /\ plan[r].mode \notin Actions /\ ledger = mem[r]
        /\ UNCHANGED <<ledger, lock, plan, att, mem>>
    BY <1>9 DEF VerifyPlan, EvidenceCurrent, Actions
  <2>2. KnowsLedger(r)'
    BY <2>1, <1>a, <1>b DEF KnowsLedger, Attempting
  <2>3. QED
    BY <2>1, <2>2, <1>a, <1>b, OneRunnerMoves DEF Connected, LockHeld
<1>10. ASSUME NEW r \in Runners, VerifyBaseline(r) PROVE LedgerInv'
  <2>1. PICK n \in AttemptIds : \E order \in [1..n -> plan[r].todo] :
          mem' = [mem EXCEPT ![r] = BaselineDoc(r, order)]
    BY <1>10 DEF VerifyBaseline
  <2>2. PICK order \in [1..n -> plan[r].todo] :
          mem' = [mem EXCEPT ![r] = BaselineDoc(r, order)]
    BY <2>1
  <2>3. /\ pc[r] = "verify" /\ pc' = [pc EXCEPT ![r] = "commit"]
        /\ plan[r].mode = "baseline" /\ UNCHANGED <<ledger, lock, plan, att>>
    BY <1>10 DEF VerifyBaseline
  <2>4. Sound(BaselineDoc(r, order)) /\ Open(BaselineDoc(r, order)) = {}
    BY BaselineLedger DEF TypeInv
  <2>5. KnowsLedger(r)'
    BY <2>2, <2>3, <2>4, <1>a DEF KnowsLedger, Attempting, Applying, Sound
  <2>6. QED
    BY <2>2, <2>3, <2>4, <2>5, <1>a, <1>b, OneRunnerMoves DEF Connected, LockHeld, Sound
<1>11. ASSUME NEW r \in Runners, VerifyResolution(r) PROVE LedgerInv'
  <2>1. /\ pc[r] = "verify" /\ pc' = [pc EXCEPT ![r] = "commit"]
        /\ mem' = [mem EXCEPT ![r] = ResolvedDoc(r)]
        /\ plan[r].mode \in Actions /\ ResolutionAllowed(r)
        /\ UNCHANGED <<ledger, lock, plan, att>>
    BY <1>11 DEF VerifyResolution
  <2>2. att[r] \in AttemptIds
    BY <2>1 DEF TypeInv, KnowsAttempt
  <2>3. Sound(ResolvedDoc(r))
    BY <2>1, <2>2, <1>b, ResolvedLedger DEF TypeInv
  <2>4. KnowsLedger(r)'
    BY <2>1, <2>3, <1>a DEF KnowsLedger, Attempting, Applying, Actions, Sound
  <2>5. QED
    BY <2>1, <2>3, <2>4, <1>a, <1>b, OneRunnerMoves DEF Connected, LockHeld, Sound
<1>12. ASSUME NEW r \in Runners, Refuse(r) PROVE LedgerInv'
  <2>1. /\ pc[r] \in Connected /\ pc' = [pc EXCEPT ![r] = "close"]
        /\ UNCHANGED <<ledger, lock, plan, att, mem>>
    BY <1>12 DEF Refuse, Connected
  <2>2. KnowsLedger(r)'
    BY <2>1, <1>a DEF KnowsLedger, Attempting
  <2>3. QED
    BY <2>1, <2>2, <1>a, <1>b, OneRunnerMoves DEF LockHeld
<1>13. ASSUME NEW r \in Runners, Mark(r) PROVE LedgerInv'
  <2>1. PICK m \in Migrations, id \in AttemptIds :
          /\ IsFresh(mem[r], id)
          /\ ledger' = MarkedDoc(r, m, id)
          /\ mem' = [mem EXCEPT ![r] = MarkedDoc(r, m, id)]
          /\ att' = [att EXCEPT ![r] = id]
    BY <1>13 DEF Mark
  <2>2. pc[r] = "mark" /\ pc' = [pc EXCEPT ![r] = "begin"] /\ UNCHANGED <<lock, plan>>
    BY <1>13 DEF Mark
  <2>3. Open(mem[r]) = {}
    BY <2>2, <1>b DEF KnowsLedger
  <2>4. EntriesSettled(MarkedDoc(r, m, id)) /\ Open(MarkedDoc(r, m, id)) = {id}
    BY <2>1, <2>3, <1>b, MarkedLedger DEF TypeInv
  <2>5. KnowsLedger(r)'
    BY <2>1, <2>2, <2>4, <1>a DEF KnowsLedger, Attempting
  <2>6. Sound(ledger')
    BY <2>1, <2>4 DEF Sound, AtMostOne
  <2>7. QED
    BY <2>1, <2>2, <2>4, <2>5, <2>6, <1>a, <1>b, OneRunnerMoves DEF Connected, LockHeld
<1>14. ASSUME NEW r \in Runners, Attempting(r), pc'[r] \in {"exec", "record", "commit"},
             \A q \in Runners : q # r => pc'[q] = pc[q],
             UNCHANGED <<ledger, lock, plan, att, mem>>
      PROVE  LedgerInv'
  <2>1. mem[r] = ledger /\ Open(mem[r]) = {att[r]} /\ pc[r] \in Connected
    BY <1>14, <1>b DEF KnowsLedger, Attempting, Connected
  <2>2. KnowsLedger(r)'
    BY <2>1, <1>14 DEF KnowsLedger, Attempting, AtMostOne
  <2>3. QED
    BY <1>14, <2>1, <2>2, <1>b, OneRunnerMoves DEF LockHeld
<1>15. ASSUME NEW r \in Runners, Begin(r) PROVE LedgerInv'
  BY <1>15, <1>14, <1>a DEF Begin, Attempting
<1>16. ASSUME NEW r \in Runners, Execute(r) PROVE LedgerInv'
  BY <1>16, <1>14, <1>a DEF Execute, Attempting
<1>17. ASSUME NEW r \in Runners, Record(r) PROVE LedgerInv'
  <2>1. Attempting(r) /\ UNCHANGED lock
    BY <1>17 DEF Record, Attempting
  <2>2. CASE txn[r].open
    BY <1>17, <2>1, <2>2, <1>14, <1>a DEF Record
  <2>3. CASE ~ txn[r].open
    BY <1>17, <2>1, <2>3, CompletedLedger DEF Record
  <2>4. QED
    BY <2>2, <2>3
<1>18. ASSUME NEW r \in Runners, Commit(r) PROVE LedgerInv'
  <2>1. pc[r] = "commit" /\ ledger' = PendingDoc(r) /\ UNCHANGED lock
    BY <1>18 DEF Commit, CommitLands
  <2>2. CASE Applying(r)
    BY <1>18, <2>1, <2>2, CompletedLedger DEF Commit, PendingDoc, Attempting
  <2>3. CASE ~ Applying(r)
    <3>1. pc' = [pc EXCEPT ![r] = "close"] /\ UNCHANGED <<plan, mem, att>>
      BY <1>18, <2>3 DEF Commit
    <3>2. KnowsLedger(r)'
      BY <3>1, <1>a DEF KnowsLedger, Attempting
    <3>3. QED
      BY <2>1, <3>1, <3>2, <1>a, <1>b, CommittedLedger, OneRunnerMoves DEF LockHeld, Connected
  <2>4. QED
    BY <2>2, <2>3
<1>19. ASSUME NEW r \in Runners, CommitRejected(r) PROVE LedgerInv'
  <2>1. /\ pc[r] = "commit" /\ UNCHANGED <<lock, plan, mem, att>>
        /\ ledger' = PendingDoc(r) \/ UNCHANGED ledger
        /\ pc' = [pc EXCEPT ![r] = IF Applying(r) THEN "catch" ELSE "close"]
    BY <1>19 DEF CommitRejected, CommitLands
  <2>2. Sound(ledger') /\ (Applying(r) => Open(ledger') \subseteq {att[r]})
    BY <2>1, <1>b, CommittedLedger DEF KnowsLedger, Attempting
  <2>3. KnowsLedger(r)'
    BY <2>1, <2>2, <1>a, <1>b DEF KnowsLedger, Attempting
  <2>4. QED
    BY <2>1, <2>2, <2>3, <1>a, <1>b, OneRunnerMoves DEF LockHeld, Connected
<1>20. ASSUME NEW r \in Runners, Fail(r) PROVE LedgerInv'
  <2>1. /\ Attempting(r) /\ pc' = [pc EXCEPT ![r] = "catch"]
        /\ UNCHANGED <<ledger, lock, plan, mem, att>>
    BY <1>20 DEF Fail, Attempting
  <2>2. KnowsLedger(r)'
    BY <2>1, <1>a, <1>b DEF KnowsLedger, Attempting
  <2>3. QED
    BY <2>1, <2>2, <1>a, <1>b, OneRunnerMoves DEF LockHeld, Connected, Attempting
<1>21. ASSUME NEW r \in Runners, Catch(r) PROVE LedgerInv'
  <2>1. /\ pc[r] = "catch" /\ pc' = [pc EXCEPT ![r] = "close"]
        /\ UNCHANGED <<lock, plan, mem, att>>
        /\ SaveFailedState(r) \/ UNCHANGED ledger
    BY <1>21 DEF Catch
  <2>2. Sound(ledger')
    BY <2>1, <1>b, SavedLedger
  <2>3. KnowsLedger(r)'
    BY <2>1, <1>a DEF KnowsLedger, Attempting
  <2>4. QED
    BY <2>1, <2>2, <2>3, <1>a, <1>b, OneRunnerMoves DEF LockHeld, Connected
<1>22. ASSUME NEW r \in Runners, Close(r) PROVE LedgerInv'
  BY <1>22, <1>7 DEF Close, Connected
<1>23. ASSUME NEW r \in Runners, BackendEnds(r) PROVE LedgerInv'
  <2>1. Sound(ledger') /\ (UNCHANGED ledger \/ pc[r] \in Connected)
    BY <1>23, <1>b, InFlightLedger DEF BackendEnds
  <2>2. /\ pc'[r] = "idle" /\ mem'[r] = EmptyHistory
        /\ \A q \in Runners : q # r =>
             pc'[q] = pc[q] /\ plan'[q] = plan[q] /\ mem'[q] = mem[q] /\ att'[q] = att[q]
    BY <1>23, <1>a DEF BackendEnds, Forget
  <2>3. KnowsLedger(r)'
    BY <2>2 DEF KnowsLedger, Attempting
  <2>4. ASSUME NEW q \in Runners, q # r, pc[q] \in Connected
        PROVE  lock' = q /\ UNCHANGED ledger
    <3>1. lock = q /\ q # NoRunner /\ pc[r] \notin Connected
      BY <2>4, <1>b, RunnerAssumption DEF LockHeld
    <3>2. QED
      BY <1>23, <2>1, <2>4, <3>1 DEF BackendEnds
  <2>5. LockHeld'
    BY <2>2, <2>4 DEF LockHeld, Connected
  <2>6. ASSUME NEW q \in Runners, q # r PROVE EntriesSettled(mem'[q]) /\ KnowsLedger(q)'
    <3>1. CASE pc[q] \in Connected
      <4>1. UNCHANGED ledger
        BY <2>4, <2>6, <3>1
      <4>2. QED
        BY <2>2, <2>6, <4>1, <1>b DEF KnowsLedger, Attempting, Applying
    <3>2. CASE pc[q] \notin Connected
      BY <2>2, <2>6, <3>2, <1>b DEF KnowsLedger, Attempting, Applying, Connected
    <3>3. QED
      BY <3>1, <3>2
  <2>7. \A q \in Runners : EntriesSettled(mem'[q]) /\ KnowsLedger(q)'
    BY <2>2, <2>3, <2>6, EmptyLedger
  <2>8. QED
    BY <2>1, <2>5, <2>7 DEF LedgerInv
<1>24. ASSUME UNCHANGED <<ledger, lock, pc, plan, mem, att>> PROVE LedgerInv'
  BY <1>24, <1>b DEF LedgerInv, LockHeld, KnowsLedger, Attempting, Applying
<1>25. ASSUME NEW r \in Runners, Lose(r) PROVE LedgerInv'
  BY <1>25, <1>24 DEF Lose
<1>26. ASSUME ManualDdl \/ Repair \/ EditFiles PROVE LedgerInv'
  BY <1>26, <1>24 DEF ManualDdl, Repair, EditFiles
<1>27. CASE UNCHANGED vars
  BY <1>27, <1>24 DEF vars
<1>28. QED
  BY <1>1, <1>2, <1>3, <1>4, <1>5, <1>6, <1>8, <1>9, <1>10, <1>11, <1>12, <1>13,
     <1>15, <1>16, <1>17, <1>18, <1>19, <1>20, <1>21, <1>22, <1>23, <1>25, <1>26, <1>27
     DEF Next, Run, Operate

LEMMA LedgerInit == Init => LedgerInv
<1> SUFFICES ASSUME Init PROVE LedgerInv
  OBVIOUS
<1>1. LockHeld
  BY DEF Init, LockHeld, Connected
<1>2. Sound(ledger)
  BY EmptyLedger DEF Init, Sound, AtMostOne
<1>3. ASSUME NEW r \in Runners PROVE EntriesSettled(mem[r]) /\ KnowsLedger(r)
  BY EmptyLedger DEF Init, KnowsLedger, Attempting
<1>4. QED
  BY <1>1, <1>2, <1>3 DEF LedgerInv

LEMMA LedgerInvariant == Spec => []LedgerInv
<1>1. QED
  BY LedgerInit, LedgerStep, TypeInvariant, PTL DEF Spec

(* At most one attempt is ever unresolved, whatever runners, lost sessions,
   rejected commits, unreadable histories, edits and manual DDL do: the
   writer of the ledger holds the lock and has seen every attempt settled
   (validateHistory, the stale-plan check under the lock). *)
THEOREM OneUnresolved == Spec => []AtMostOneUnresolved
<1>1. LedgerInv => AtMostOneUnresolved
  BY DEF LedgerInv, Sound, AtMostOne, Open, AtMostOneUnresolved, Unresolved, IsUnresolved
<1>2. QED
  BY <1>1, LedgerInvariant, PTL

-------------------------------------------------------------------------------
(***************************************************************************)
(* Lemmas about the applied entries, a sequence rising in its identifiers. *)
(***************************************************************************)
Rising(s) == \A i, j \in DOMAIN s : i < j => s[i].id < s[j].id
IdsOf(s)  == {s[i].id : i \in DOMAIN s}

LEMMA EntryTypes ==
  ASSUME NEW s \in Seq(Entry)
  PROVE  /\ \A i \in DOMAIN s : /\ s[i] \in Entry /\ s[i].id \in Migrations /\ s[i].id \in Int
                                /\ s[i].attempt \in AttemptIds
         /\ IdsOf(s) \subseteq Migrations
<1>1. \A i \in DOMAIN s : s[i] \in Entry
  OBVIOUS
<1>2. QED
  BY <1>1 DEF Entry, Migrations, IdsOf

(* Identifiers that rise are unique. *)
LEMMA RisingUnique ==
  ASSUME NEW s \in Seq(Entry), Rising(s), NEW i \in DOMAIN s, NEW j \in DOMAIN s, s[i].id = s[j].id
  PROVE  i = j
<1>1. i \in Nat /\ j \in Nat /\ s[i].id \in Int
  BY EntryTypes
<1>2. QED
  BY <1>1 DEF Rising

(* An entry above all others goes to the end (history.applied.push). *)
LEMMA AppendRising ==
  ASSUME NEW s \in Seq(Entry), Rising(s), NEW e \in Entry, \A k \in IdsOf(s) : k < e.id
  PROVE  /\ Append(s, e) \in Seq(Entry) /\ Rising(Append(s, e))
         /\ IdsOf(Append(s, e)) = IdsOf(s) \cup {e.id}
         /\ \A i \in DOMAIN Append(s, e) :
              Append(s, e)[i] = e \/ \E k \in DOMAIN s : Append(s, e)[i] = s[k]
         /\ \E i \in DOMAIN Append(s, e) : Append(s, e)[i] = e
<1> DEFINE t == Append(s, e)
<1>1. /\ t \in Seq(Entry) /\ Len(t) = Len(s) + 1
      /\ DOMAIN t = 1..(Len(s) + 1) /\ DOMAIN s = 1..Len(s) /\ Len(s) \in Nat
      /\ \A i \in 1..Len(s) : t[i] = s[i]
      /\ t[Len(s) + 1] = e
  OBVIOUS
<1> HIDE DEF t
<1>2. \A i \in DOMAIN s : s[i].id < e.id
  BY DEF IdsOf
<1>3. Rising(t)
  BY <1>1, <1>2 DEF Rising
<1>4. \A i \in DOMAIN t : t[i] = e \/ \E k \in DOMAIN s : t[i] = s[k]
  BY <1>1
<1>5. IdsOf(t) = IdsOf(s) \cup {e.id}
  <2>1. IdsOf(t) \subseteq IdsOf(s) \cup {e.id}
    BY <1>4 DEF IdsOf
  <2>2. \A k \in DOMAIN s : s[k].id \in IdsOf(t)
    BY <1>1 DEF IdsOf
  <2>3. e.id \in IdsOf(t)
    BY <1>1 DEF IdsOf
  <2>4. QED
    BY <2>1, <2>2, <2>3 DEF IdsOf
<1>6. QED
  BY <1>1, <1>3, <1>4, <1>5 DEF t

(* Removing an identifier keeps the order and exactly the others. *)
LEMMA WithoutRising ==
  ASSUME NEW s \in Seq(Entry), Rising(s), NEW m
  PROVE  Rising(Without(s, m)) /\ IdsOf(Without(s, m)) = IdsOf(s) \ {m}
<1>1. CASE \E i \in DOMAIN s : s[i].id = m
  <2> DEFINE k == PositionOf(s, m)
             t == Without(s, m)
             Old(j) == IF j < k THEN j ELSE j + 1
  <2>1. /\ k \in 1..Len(s) /\ s[k].id = m
        /\ t \in Seq(Entry) /\ Len(t) = Len(s) - 1
        /\ \A j \in 1..(Len(s) - 1) : t[j] = s[Old(j)]
    BY <1>1, WithoutPositions
  <2> HIDE DEF k, t
  <2>2. DOMAIN t = 1..(Len(s) - 1) /\ DOMAIN s = 1..Len(s) /\ Len(s) \in Nat /\ k \in Nat
    BY <2>1
  <2>3. \A j \in 1..(Len(s) - 1) : Old(j) \in 1..Len(s) /\ Old(j) # k
    BY <2>1, <2>2
  <2>4. \A i, j \in 1..(Len(s) - 1) : i < j => Old(i) < Old(j)
    BY <2>2
  <2>5. \A i \in 1..Len(s) : i # k => \E j \in 1..(Len(s) - 1) : Old(j) = i
    <3> SUFFICES ASSUME NEW i \in 1..Len(s), i # k
                 PROVE  \E j \in 1..(Len(s) - 1) : Old(j) = i
      OBVIOUS
    <3>1. CASE i < k
      <4>1. i \in 1..(Len(s) - 1) /\ Old(i) = i
        BY <2>1, <2>2, <3>1
      <4>2. QED
        BY <4>1
    <3>2. CASE ~ (i < k)
      <4>1. i - 1 \in 1..(Len(s) - 1) /\ Old(i - 1) = i
        BY <2>1, <2>2, <3>2
      <4>2. QED
        BY <4>1
    <3>3. QED
      BY <3>1, <3>2
  <2> HIDE DEF Old
  <2>6. Rising(t)
    BY <2>1, <2>2, <2>3, <2>4 DEF Rising
  <2>7. IdsOf(t) \subseteq IdsOf(s) \ {m}
    <3> SUFFICES ASSUME NEW j \in 1..(Len(s) - 1) PROVE t[j].id \in IdsOf(s) \ {m}
      BY <2>2 DEF IdsOf
    <3>1. t[j] = s[Old(j)] /\ Old(j) \in DOMAIN s /\ Old(j) # k
      BY <2>1, <2>2, <2>3
    <3>2. s[Old(j)].id # m
      BY <2>1, <2>2, <3>1, RisingUnique
    <3>3. QED
      BY <3>1, <3>2 DEF IdsOf
  <2>8. IdsOf(s) \ {m} \subseteq IdsOf(t)
    <3> SUFFICES ASSUME NEW i \in 1..Len(s), s[i].id # m PROVE s[i].id \in IdsOf(t)
      BY <2>2 DEF IdsOf
    <3>1. i # k
      BY <2>1
    <3>2. PICK j \in 1..(Len(s) - 1) : Old(j) = i
      BY <2>5, <3>1
    <3>3. t[j] = s[i] /\ j \in DOMAIN t
      BY <2>1, <2>2, <3>2
    <3>4. QED
      BY <3>3 DEF IdsOf
  <2>9. QED
    BY <2>6, <2>7, <2>8 DEF t
<1>2. CASE ~ \E i \in DOMAIN s : s[i].id = m
  BY <1>2 DEF Without, IdsOf
<1>3. QED
  BY <1>1, <1>2

-------------------------------------------------------------------------------
(***************************************************************************)
(* What every history document keeps: the committed one, the ones runners  *)
(* hold, and the ones they build.                                          *)
(***************************************************************************)
EntriesMatch(h) ==
  \A i \in DOMAIN h.applied :
    LET a == h.attempts[h.applied[i].attempt]
    IN  a.mig = h.applied[i].id /\ a.hash = h.applied[i].hash /\ a.dir = "up"

\* The content of a agrees with every success of the same migration.
Agrees(h, a) ==
  \A j \in AttemptIds :
    Succeeded(h.attempts[j]) /\ h.attempts[j].mig = a.mig => h.attempts[j].hash = a.hash

ContentAgrees(h) ==
  \A i \in AttemptIds : i \in Open(h) \/ Succeeded(h.attempts[i]) => Agrees(h, h.attempts[i])

\* An attempt in doubt is above everything applied, or at the top of it.
AtTop(h, a) == \A k \in AppliedIds(h) : IF a.dir = "up" THEN k < a.mig ELSE k <= a.mig
OpenAtTop(h) == \A i \in Open(h) : AtTop(h, h.attempts[i])

Declared(a) == a.dir = "down" => a.mig \in Reversible
DownsDeclared(h) == \A i \in AttemptIds : h.attempts[i] # NoAttempt => Declared(h.attempts[i])

WellKept(h) ==
  AppliedAscending(h) /\ EntriesMatch(h) /\ ContentAgrees(h) /\ OpenAtTop(h) /\ DownsDeclared(h)

LEMMA HistoryTypes ==
  ASSUME NEW h \in History
  PROVE  /\ h.applied \in Seq(Entry)
         /\ \A j \in AttemptIds : h.attempts[j] \in Attempt \/ h.attempts[j] = NoAttempt
         /\ AppliedIds(h) \subseteq Migrations
         /\ AppliedIds(h) = IdsOf(h.applied)
         /\ AppliedAscending(h) <=> Rising(h.applied)
         /\ \A j \in AttemptIds : j \in Open(h) \/ Succeeded(h.attempts[j]) => h.attempts[j] \in Attempt
<1>1. h.applied \in Seq(Entry)
  BY DEF History
<1>2. \A j \in AttemptIds : h.attempts[j] \in Attempt \/ h.attempts[j] = NoAttempt
  BY DEF History
<1>3. AppliedIds(h) = IdsOf(h.applied)
  BY DEF AppliedIds, IdsOf
<1>4. \A j \in AttemptIds : j \in Open(h) \/ Succeeded(h.attempts[j]) => h.attempts[j] # NoAttempt
  BY DEF Open, Succeeded, NoAttempt
<1>5. QED
  BY <1>1, <1>2, <1>3, <1>4, EntryTypes DEF AppliedAscending, Rising

(* Putting an attempt that has not succeeded in the place of one no entry
   refers to - a fresh identifier, or an attempt whose outcome is in doubt. *)
LEMMA ReplacedKept ==
  ASSUME NEW h \in History, NEW d \in History, NEW id \in AttemptIds, NEW b \in Attempt,
         WellKept(h), d.applied = h.applied,
         \A j \in AttemptIds : d.attempts[j] = IF j = id THEN b ELSE h.attempts[j],
         \A i \in DOMAIN h.applied : h.applied[i].attempt # id,
         ~ Succeeded(b), Agrees(h, b), Declared(b),
         b.state \in {"running", "unknown"} => AtTop(h, b)
  PROVE  WellKept(d)
<1>1. h.applied \in Seq(Entry) /\ \A i \in DOMAIN h.applied : h.applied[i].attempt \in AttemptIds
  BY HistoryTypes, EntryTypes
<1>2. AppliedIds(d) = AppliedIds(h)
  BY DEF AppliedIds
<1>3. AppliedAscending(d)
  BY DEF AppliedAscending, WellKept
<1>4. EntriesMatch(d)
  BY <1>1 DEF EntriesMatch, WellKept
<1>5. ContentAgrees(d)
  <2>1. ASSUME NEW i \in AttemptIds, i # id, i \in Open(d) \/ Succeeded(d.attempts[i])
        PROVE  Agrees(h, d.attempts[i])
    <3>1. d.attempts[i] = h.attempts[i]
      BY <2>1
    <3>2. i \in Open(h) \/ Succeeded(h.attempts[i])
      BY <2>1, <3>1 DEF Open
    <3>3. QED
      BY <3>1, <3>2 DEF WellKept, ContentAgrees
  <2>2. ASSUME NEW a, Agrees(h, a) PROVE Agrees(d, a)
    BY <2>2 DEF Agrees
  <2>3. d.attempts[id] = b
    OBVIOUS
  <2>4. QED
    BY <2>1, <2>2, <2>3 DEF ContentAgrees
<1>6. OpenAtTop(d)
  <2>1. ASSUME NEW i \in Open(d) PROVE AtTop(h, d.attempts[i])
    <3>1. CASE i = id
      BY <3>1 DEF Open
    <3>2. CASE i # id
      <4>1. i \in Open(h) /\ d.attempts[i] = h.attempts[i]
        BY <3>2 DEF Open
      <4>2. QED
        BY <4>1 DEF WellKept, OpenAtTop
    <3>3. QED
      BY <3>1, <3>2
  <2>2. QED
    BY <1>2, <2>1 DEF OpenAtTop, AtTop
<1>7. DownsDeclared(d)
  BY DEF DownsDeclared, WellKept
<1>8. QED
  BY <1>3, <1>4, <1>5, <1>6, <1>7 DEF WellKept

\* The document after the attempt id of h has succeeded, recorded as b.
Landed(h, d, id, b) ==
  LET a == h.attempts[id]
      e == [id |-> a.mig, hash |-> a.hash, catalog |-> a.expected, attempt |-> id]
  IN  /\ d.applied = IF a.dir = "up" THEN Append(h.applied, e) ELSE Without(h.applied, a.mig)
      /\ \A j \in AttemptIds : d.attempts[j] = IF j = id THEN b ELSE h.attempts[j]
      /\ b.mig = a.mig /\ b.hash = a.hash /\ b.dir = a.dir
      /\ Succeeded(b)

(* What landing does to the applied identifiers. *)
LEMMA LandedIds ==
  ASSUME NEW h \in History, NEW d \in History, NEW id \in Open(h), NEW b \in Attempt,
         WellKept(h), Landed(h, d, id, b)
  PROVE  /\ AppliedIds(d) = IF h.attempts[id].dir = "up" THEN AppliedIds(h) \cup {h.attempts[id].mig}
                            ELSE AppliedIds(h) \ {h.attempts[id].mig}
         /\ AppliedAscending(d)
         /\ \A i \in DOMAIN d.applied :
              \/ /\ h.attempts[id].dir = "up" /\ d.applied[i].id = h.attempts[id].mig
                 /\ d.applied[i].hash = h.attempts[id].hash /\ d.applied[i].attempt = id
              \/ \E k \in DOMAIN h.applied : d.applied[i] = h.applied[k]
         /\ h.attempts[id].dir = "up" => HasEntryOf(d, id)
<1> DEFINE a == h.attempts[id]
           e == [id |-> a.mig, hash |-> a.hash, catalog |-> a.expected, attempt |-> id]
<1>1. /\ id \in AttemptIds /\ a \in Attempt
      /\ h.applied \in Seq(Entry) /\ Rising(h.applied) /\ AppliedIds(h) = IdsOf(h.applied)
      /\ AppliedIds(d) = IdsOf(d.applied)
      /\ AppliedAscending(d) <=> Rising(d.applied)
  BY HistoryTypes DEF Open, WellKept
<1>2. e \in Entry /\ e.id = a.mig /\ e.hash = a.hash /\ e.attempt = id
  BY <1>1 DEF Attempt, Entry
<1>3. AtTop(h, a)
  BY DEF WellKept, OpenAtTop
<1>4. d.applied = IF a.dir = "up" THEN Append(h.applied, e) ELSE Without(h.applied, a.mig)
  BY DEF Landed
<1> HIDE DEF a, e
<1>5. CASE a.dir = "up"
  <2>1. \A k \in IdsOf(h.applied) : k < e.id
    BY <1>1, <1>2, <1>3, <1>5 DEF AtTop
  <2>2. /\ Rising(d.applied) /\ IdsOf(d.applied) = IdsOf(h.applied) \cup {e.id}
        /\ \A i \in DOMAIN d.applied : d.applied[i] = e \/ \E k \in DOMAIN h.applied : d.applied[i] = h.applied[k]
        /\ \E i \in DOMAIN d.applied : d.applied[i] = e
    BY <1>1, <1>2, <1>4, <1>5, <2>1, AppendRising
  <2>3. HasEntryOf(d, id)
    BY <1>2, <2>2 DEF HasEntryOf
  <2>4. QED
    BY <1>1, <1>2, <1>5, <2>2, <2>3 DEF a
<1>6. CASE a.dir # "up"
  <2>1. Rising(d.applied) /\ IdsOf(d.applied) = IdsOf(h.applied) \ {a.mig}
    BY <1>1, <1>4, <1>6, WithoutRising
  <2>2. \A i \in DOMAIN d.applied : \E k \in DOMAIN h.applied : d.applied[i] = h.applied[k]
    BY <1>1, <1>4, <1>6, WithoutEntries
  <2>3. QED
    BY <1>1, <1>6, <2>1, <2>2 DEF a
<1>7. QED
  BY <1>5, <1>6

(* Recording a success - by the runner or by an operator's confirmation -
   keeps the document in order. *)
LEMMA LandedKept ==
  ASSUME NEW h \in History, NEW d \in History, NEW id \in Open(h), NEW b \in Attempt,
         WellKept(h), EntriesSettled(h), AtMostOne(Open(h)), Landed(h, d, id, b)
  PROVE  WellKept(d)
<1> DEFINE a == h.attempts[id]
<1>1. /\ id \in AttemptIds /\ a \in Attempt /\ a # NoAttempt /\ a.state \in {"running", "unknown"}
      /\ \A i \in DOMAIN h.applied : h.applied[i].attempt \in AttemptIds
  BY HistoryTypes, EntryTypes DEF Open, NoAttempt
<1>2. /\ \A j \in AttemptIds : d.attempts[j] = IF j = id THEN b ELSE h.attempts[j]
      /\ b.mig = a.mig /\ b.hash = a.hash /\ b.dir = a.dir /\ Succeeded(b)
  BY DEF Landed
<1>3. \A i \in DOMAIN h.applied : h.applied[i].attempt # id
  BY <1>1 DEF EntriesSettled
<1>4. EntriesMatch(d)
  <2> SUFFICES ASSUME NEW i \in DOMAIN d.applied
               PROVE  LET c == d.attempts[d.applied[i].attempt]
                      IN  c.mig = d.applied[i].id /\ c.hash = d.applied[i].hash /\ c.dir = "up"
    BY DEF EntriesMatch
  <2>1. CASE /\ a.dir = "up" /\ d.applied[i].id = a.mig
             /\ d.applied[i].hash = a.hash /\ d.applied[i].attempt = id
    BY <1>1, <1>2, <2>1
  <2>2. CASE \E k \in DOMAIN h.applied : d.applied[i] = h.applied[k]
    <3>1. PICK k \in DOMAIN h.applied : d.applied[i] = h.applied[k]
      BY <2>2
    <3>2. d.attempts[d.applied[i].attempt] = h.attempts[h.applied[k].attempt]
      BY <1>1, <1>2, <1>3, <3>1
    <3>3. QED
      BY <3>1, <3>2 DEF WellKept, EntriesMatch
  <2>3. QED
    BY <2>1, <2>2, LandedIds
<1>5. \A j \in AttemptIds : j # id => j \notin Open(h)
  BY DEF AtMostOne
<1>6. Open(d) = {}
  <2>1. b.state \notin {"running", "unknown"}
    BY <1>2 DEF Succeeded
  <2>2. QED
    BY <1>2, <1>5, <2>1 DEF Open
<1>7. Agrees(h, a)
  BY <1>1 DEF WellKept, ContentAgrees
<1> HIDE DEF a
<1>8. ContentAgrees(d)
  <2>1. ASSUME NEW i \in AttemptIds, Succeeded(d.attempts[i]),
               NEW j \in AttemptIds, Succeeded(d.attempts[j]), d.attempts[j].mig = d.attempts[i].mig
        PROVE  d.attempts[j].hash = d.attempts[i].hash
    <3>1. CASE i = id /\ j = id
      BY <3>1
    <3>2. CASE i = id /\ j # id
      BY <1>2, <1>7, <2>1, <3>2 DEF Agrees
    <3>3. CASE i # id /\ j = id
      BY <1>2, <1>7, <2>1, <3>3 DEF Agrees
    <3>4. CASE i # id /\ j # id
      <4>1. Agrees(h, h.attempts[i])
        BY <1>2, <2>1, <3>4 DEF WellKept, ContentAgrees
      <4>2. QED
        BY <1>2, <2>1, <3>4, <4>1 DEF Agrees
    <3>5. QED
      BY <3>1, <3>2, <3>3, <3>4
  <2>2. QED
    BY <1>6, <2>1 DEF ContentAgrees, Agrees
<1>9. OpenAtTop(d)
  BY <1>6 DEF OpenAtTop
<1>10. DownsDeclared(d)
  <2>1. Declared(a) /\ \A j \in AttemptIds : h.attempts[j] # NoAttempt => Declared(h.attempts[j])
    BY <1>1 DEF WellKept, DownsDeclared, a
  <2>2. QED
    BY <1>2, <2>1 DEF DownsDeclared, Declared
<1>11. QED
  BY <1>4, <1>8, <1>9, <1>10, LandedIds DEF WellKept

(* An adopted prefix starts a document in order (baselinePlan). *)
LEMMA BaselineKept ==
  ASSUME TypeOK, NEW r \in Runners, NEW n \in AttemptIds,
         NEW order \in [1..n -> plan[r].todo], Ascending(order)
  PROVE  /\ WellKept(BaselineDoc(r, order))
         /\ AppliedIds(BaselineDoc(r, order)) = {order[i] : i \in 1..n}
<1> DEFINE d == BaselineDoc(r, order)
           c(j) == [mig |-> order[j], hash |-> plan[r].inv[order[j]], dir |-> "up",
                    state |-> "applied", resolution |-> "none", before |-> {}, expected |-> {}]
<1>1. n \in Nat /\ 1..n \subseteq AttemptIds
  BY ConstantsAssumption DEF AttemptIds
<1>2. \A j \in AttemptIds : d.attempts[j] = IF j \in 1..n THEN c(j) ELSE NoAttempt
  BY DEF BaselineDoc
<1>3. /\ DOMAIN d.applied = 1..n
      /\ \A i \in 1..n : /\ d.applied[i].id = order[i] /\ d.applied[i].attempt = i
                         /\ d.applied[i].hash = plan[r].inv[order[i]]
  BY DEF BaselineDoc
<1>4. \A j : /\ c(j).mig = order[j] /\ c(j).hash = plan[r].inv[order[j]]
             /\ c(j).dir = "up" /\ c(j).state = "applied"
  OBVIOUS
<1> HIDE DEF d, c
<1>5. \A j \in AttemptIds : Succeeded(d.attempts[j]) => j \in 1..n
  BY <1>2 DEF Succeeded, NoAttempt
<1>6. AppliedAscending(d)
  BY <1>3 DEF AppliedAscending, Ascending
<1>7. EntriesMatch(d)
  BY <1>1, <1>2, <1>3, <1>4 DEF EntriesMatch
<1>8. Open(d) = {}
  BY <1>2, <1>4 DEF Open, NoAttempt
<1>9. ContentAgrees(d)
  BY <1>2, <1>4, <1>5, <1>8 DEF ContentAgrees, Agrees
<1>10. OpenAtTop(d)
  BY <1>8 DEF OpenAtTop
<1>11. DownsDeclared(d)
  BY <1>2, <1>4 DEF DownsDeclared, Declared
<1>12. AppliedIds(d) = {order[i] : i \in 1..n}
  BY <1>3 DEF AppliedIds
<1>13. QED
  BY <1>6, <1>7, <1>9, <1>10, <1>11, <1>12 DEF WellKept, d

LEMMA EmptyKept == WellKept(EmptyHistory)
<1>1. /\ DOMAIN EmptyHistory.applied = {}
      /\ \A j \in AttemptIds : EmptyHistory.attempts[j] = NoAttempt
  BY DEF EmptyHistory
<1>2. Open(EmptyHistory) = {} /\ \A j \in AttemptIds : ~ Succeeded(EmptyHistory.attempts[j])
  BY <1>1 DEF Open, Succeeded, NoAttempt
<1>3. QED
  BY <1>1, <1>2 DEF WellKept, AppliedAscending, EntriesMatch, ContentAgrees, OpenAtTop, DownsDeclared

-------------------------------------------------------------------------------
(***************************************************************************)
(* The documents are well kept because each runner's plan fits the         *)
(* document it holds, which is the committed one once it writes.           *)
(***************************************************************************)
PlanFits(r) ==
  LET ids  == AppliedIds(mem[r])
      todo == plan[r].todo
  IN  /\ SuccessfulContentPresent(mem[r], plan[r].inv)
      /\ plan[r].dir = "up" => \A m \in todo, k \in ids : k < m
      /\ plan[r].dir = "down" => /\ todo \subseteq ids \cap Reversible
                                 /\ \A m \in todo, k \in ids \ todo : k < m

\* The attempt is the one the plan called for.
AttemptFits(r) ==
  /\ Applying(r)
  /\ IsNext(r, Attempted(r).mig)
  /\ Attempted(r).hash = plan[r].inv[Attempted(r).mig]
  /\ Attempted(r).dir = plan[r].dir

\* What a session that is about to commit only a document has prepared.
Resolving(r) ==
  /\ plan[r].mode \in Actions /\ mem[r] = ResolvedDoc(r)
  /\ att[r] \in AttemptIds /\ IsUnresolved(ledger, att[r])
Adopting(r) ==
  ledger = EmptyHistory /\ Open(mem[r]) = {}

KnowsDocument(r) ==
  /\ pc[r] = "planning" => ValidHistory(mem[r], plan[r].inv)
  /\ pc[r] \in {"planned", "locking", "verify"} /\ plan[r].mode \notin Actions => PlanFits(r)
  /\ pc[r] = "mark" => PlanFits(r) /\ Applying(r)
  /\ Attempting(r) => PlanFits(r) /\ AttemptFits(r)
  /\ pc[r] = "catch" => ledger = mem[r] \/ ("done" \in CommitFaults /\ ledger = AppliedDoc(r))
  /\ pc[r] = "commit" /\ ~ Applying(r) => Resolving(r) \/ Adopting(r)

DocumentInv ==
  /\ WellKept(ledger)
  /\ \A r \in Runners : WellKept(mem[r]) /\ KnowsDocument(r)

LEMMA MarkedKept ==
  ASSUME TypeOK, NEW r \in Runners, NEW m \in Migrations, NEW id \in AttemptIds,
         IsNext(r, m), IsFresh(mem[r], id), EntriesSettled(mem[r]), WellKept(mem[r]), PlanFits(r)
  PROVE  /\ WellKept(MarkedDoc(r, m, id))
         /\ AtTop(mem[r], RunningAttempt(r, m))
         /\ \A j \in AttemptIds :
              MarkedDoc(r, m, id).attempts[j] = IF j = id THEN RunningAttempt(r, m) ELSE mem[r].attempts[j]
<1> DEFINE h == mem[r]
           d == MarkedDoc(r, m, id)
           b == RunningAttempt(r, m)
<1>1. h \in History /\ d \in History /\ b \in Attempt /\ d.applied = h.applied
      /\ d.attempts = [h.attempts EXCEPT ![id] = b]
  BY MarkedType DEF TypeOK
<1>2. b.mig = m /\ b.hash = plan[r].inv[m] /\ b.dir = plan[r].dir /\ b.state = "running"
  BY DEF RunningAttempt
<1>3. h.attempts[id] = NoAttempt
  BY DEF IsFresh
<1>4. plan[r] \in Plan
  BY DEF TypeOK
<1>5. m \in plan[r].todo /\ \A k \in plan[r].todo : IF plan[r].dir = "up" THEN m <= k ELSE k <= m
  BY DEF IsNext
<1> HIDE DEF d, b
<1>6. \A j \in AttemptIds : d.attempts[j] = IF j = id THEN b ELSE h.attempts[j]
  BY <1>1 DEF History
<1>7. \A i \in DOMAIN h.applied : h.applied[i].attempt # id
  BY <1>3 DEF EntriesSettled, NoAttempt
<1>8. ~ Succeeded(b)
  BY <1>2 DEF Succeeded
<1>9. Agrees(h, b)
  BY <1>2 DEF Agrees, PlanFits, SuccessfulContentPresent
<1>10. Declared(b)
  BY <1>2, <1>5 DEF Declared, PlanFits
<1>11. AtTop(h, b)
  <2> SUFFICES ASSUME NEW k \in AppliedIds(h)
               PROVE  IF b.dir = "up" THEN k < b.mig ELSE k <= b.mig
    BY DEF AtTop
  <2>1. k \in Int /\ m \in Int
    BY <1>1, HistoryTypes DEF Migrations
  <2>2. CASE b.dir = "up"
    BY <1>2, <1>5, <2>2 DEF PlanFits
  <2>3. CASE b.dir # "up"
    <3>1. plan[r].dir = "down"
      BY <1>2, <1>4, <2>3 DEF Plan, Directions
    <3>2. k \in plan[r].todo \/ k < m
      BY <1>5, <3>1 DEF PlanFits
    <3>3. k <= m
      BY <1>5, <2>1, <3>1, <3>2
    <3>4. QED
      BY <1>2, <2>3, <3>3
  <2>4. QED
    BY <2>2, <2>3
<1>12. WellKept(d)
  BY <1>1, <1>6, <1>7, <1>8, <1>9, <1>10, <1>11, ReplacedKept
<1>13. QED
  BY <1>6, <1>11, <1>12 DEF d, b

\* A runner's attempt succeeds.
LEMMA AppliedLanded ==
  ASSUME TypeOK, NEW r \in Runners, att[r] \in AttemptIds, Attempted(r) \in Attempt
  PROVE  /\ [Attempted(r) EXCEPT !.state = "applied"] \in Attempt
         /\ Landed(mem[r], AppliedDoc(r), att[r], [Attempted(r) EXCEPT !.state = "applied"])
         /\ AppliedDoc(r) \in History
<1> DEFINE b == [Attempted(r) EXCEPT !.state = "applied"]
<1>1. mem[r] \in History
  BY DEF TypeOK
<1>2. /\ b \in Attempt /\ b.state = "applied"
      /\ b.mig = Attempted(r).mig /\ b.hash = Attempted(r).hash /\ b.dir = Attempted(r).dir
  BY DEF Attempt, States
<1>3. \A j \in AttemptIds : AppliedDoc(r).attempts[j] = IF j = att[r] THEN b ELSE mem[r].attempts[j]
  BY <1>1 DEF AppliedDoc, History, Attempted
<1>4. AppliedDoc(r).applied =
        IF Attempted(r).dir = "up" THEN Append(mem[r].applied, AppliedEntry(r))
        ELSE Without(mem[r].applied, Attempted(r).mig)
  BY DEF AppliedDoc
<1> HIDE DEF b
<1>5. Landed(mem[r], AppliedDoc(r), att[r], b)
  BY <1>2, <1>3, <1>4 DEF Landed, Attempted, AppliedEntry, Succeeded
<1>6. QED
  BY <1>2, <1>5, AppliedType DEF b

LEMMA AppliedKept ==
  ASSUME TypeOK, NEW r \in Runners, att[r] \in AttemptIds, Attempted(r) \in Attempt,
         EntriesSettled(mem[r]), Open(mem[r]) = {att[r]}, WellKept(mem[r])
  PROVE  WellKept(AppliedDoc(r))
<1>1. mem[r] \in History /\ att[r] \in Open(mem[r]) /\ AtMostOne(Open(mem[r]))
  BY DEF TypeOK, AtMostOne
<1>2. QED
  BY <1>1, AppliedLanded, LandedKept

(* An operator's resolution of an attempt in doubt keeps the document in
   order, whichever way it goes. *)
LEMMA ResolvedKept ==
  ASSUME TypeOK, NEW r \in Runners, att[r] \in AttemptIds, IsUnresolved(ledger, att[r]),
         plan[r].mode \in Actions, ResolvedDoc(r) \in History, Sound(ledger), WellKept(ledger)
  PROVE  LET a == ledger.attempts[att[r]]
             b == [a EXCEPT !.state = "resolved", !.resolution = plan[r].mode]
         IN  /\ WellKept(ResolvedDoc(r))
             /\ a \in Attempt /\ b \in Attempt /\ b.state = "resolved"
             /\ \A j \in AttemptIds :
                  ResolvedDoc(r).attempts[j] = IF j = att[r] THEN b ELSE ledger.attempts[j]
             /\ \/ Landed(ledger, ResolvedDoc(r), att[r], b)
                \/ ResolvedDoc(r).applied = ledger.applied
<1> DEFINE a == ledger.attempts[att[r]]
           b == [a EXCEPT !.state = "resolved", !.resolution = plan[r].mode]
           d == ResolvedDoc(r)
<1>1. ledger \in History /\ att[r] \in Open(ledger)
  BY DEF TypeOK, IsUnresolved, Open
<1>2. a \in Attempt
  BY <1>1, HistoryTypes
<1>3. /\ b \in Attempt /\ b.state = "resolved" /\ b.resolution = plan[r].mode
      /\ b.mig = a.mig /\ b.hash = a.hash /\ b.dir = a.dir
  BY <1>2 DEF Attempt, States
<1>4. \A j \in AttemptIds : d.attempts[j] = IF j = att[r] THEN b ELSE ledger.attempts[j]
  BY <1>1 DEF ResolvedDoc, History
<1>5. d.applied = IF plan[r].mode = "confirm-not-applied" THEN ledger.applied
                  ELSE IF a.dir = "down" THEN Without(ledger.applied, a.mig)
                  ELSE Append(ledger.applied, ResolvedEntry(a, att[r]))
  BY DEF ResolvedDoc
<1>6. a.dir \in {"up", "down"}
  BY <1>2 DEF Attempt, Directions
<1> HIDE DEF b, d
<1>7. CASE plan[r].mode = "confirm-applied"
  <2>1. Landed(ledger, d, att[r], b)
    BY <1>3, <1>4, <1>5, <1>6, <1>7 DEF Landed, ResolvedEntry, Succeeded
  <2>2. WellKept(d)
    BY <1>1, <1>3, <2>1, LandedKept DEF Sound, d
  <2>3. QED
    BY <1>2, <1>3, <1>4, <2>1, <2>2 DEF b, d
<1>8. CASE plan[r].mode = "confirm-not-applied"
  <2>1. d.applied = ledger.applied
    BY <1>5, <1>8
  <2>2. \A i \in DOMAIN ledger.applied : ledger.applied[i].attempt # att[r]
    BY DEF IsUnresolved, HasEntryOf
  <2>3. ~ Succeeded(b)
    BY <1>3, <1>8 DEF Succeeded
  <2>4. Agrees(ledger, a) /\ Declared(a)
    <3>1. a # NoAttempt
      BY <1>1 DEF Open, NoAttempt
    <3>2. QED
      BY <1>1, <3>1 DEF WellKept, ContentAgrees, DownsDeclared
  <2> HIDE DEF a
  <2>5. Agrees(ledger, b) /\ Declared(b)
    BY <1>3, <2>4 DEF Agrees, Declared
  <2>6. WellKept(d)
    BY <1>1, <1>3, <1>4, <2>1, <2>2, <2>3, <2>5, ReplacedKept DEF d
  <2>7. QED
    BY <1>2, <1>3, <1>4, <2>1, <2>6 DEF a, b, d
<1>9. QED
  BY <1>7, <1>8 DEF Actions

\* The failed attempt as the catch block saves it.
FailedAttempt(r) == [Attempted(r) EXCEPT !.state = FailedState(r)]

(* A failure is saved over the runner's own document, or over one in which its
   down attempt has landed: in both the attempt is still at the top. *)
LEMMA SavedKept ==
  ASSUME TypeInv, LedgerInv, DocumentInv, NEW r \in Runners, pc[r] = "catch", SaveFailedState(r)
  PROVE  /\ att[r] \in AttemptIds /\ att[r] \in Open(mem[r]) /\ Attempted(r) \in Attempt
         /\ FailedAttempt(r) \in Attempt
         /\ FailedAttempt(r).mig = Attempted(r).mig /\ FailedAttempt(r).hash = Attempted(r).hash
         /\ FailedAttempt(r).dir = Attempted(r).dir
         /\ FailedAttempt(r).state \in {"rolled-back", "unknown"}
         /\ \E base \in History :
              /\ base \in CatchBase(r)
              /\ base = mem[r] \/ (base = ledger /\ base = AppliedDoc(r) /\ Attempted(r).dir # "up")
              /\ WellKept(base) /\ EntriesSettled(base)
              /\ AtTop(base, FailedAttempt(r))
              /\ \A i \in DOMAIN base.applied : base.applied[i].attempt # att[r]
              /\ ledger'.applied = base.applied
              /\ \A j \in AttemptIds :
                   ledger'.attempts[j] = IF j = att[r] THEN FailedAttempt(r) ELSE base.attempts[j]
         /\ WellKept(ledger')
<1> DEFINE h == mem[r]
           a == Attempted(r)
           b == FailedAttempt(r)
<1>1. PICK base \in CatchBase(r) :
        /\ ~ (base = ledger /\ DurablyApplied(base, att[r]))
        /\ ledger' = SettledDoc(r, base)
  BY DEF SaveFailedState
<1>2. att[r] \in AttemptIds /\ a \in Attempt /\ TypeOK
  BY DEF TypeInv, KnowsAttempt, Working
<1>3. Open(h) = {att[r]} /\ EntriesSettled(h) /\ EntriesSettled(ledger)
  BY DEF LedgerInv, KnowsLedger, Sound
<1>4. WellKept(h) /\ WellKept(ledger) /\ (ledger = h \/ ledger = AppliedDoc(r))
  BY DEF DocumentInv, KnowsDocument
<1>5. h \in History /\ ledger \in History /\ base \in History
  BY <1>2 DEF TypeOK, CatchBase
<1>6. /\ b \in Attempt /\ b.mig = a.mig /\ b.hash = a.hash /\ b.dir = a.dir
      /\ b.state \in {"rolled-back", "unknown"}
  <2>1. FailedState(r) \in {"rolled-back", "unknown"}
    BY DEF FailedState
  <2>2. QED
    BY <1>2, <2>1 DEF FailedAttempt, Attempt, States
<1>7. /\ ledger' \in History
      /\ ledger'.applied = base.applied
      /\ \A j \in AttemptIds : ledger'.attempts[j] = IF j = att[r] THEN b ELSE base.attempts[j]
  <2>1. /\ SettledDoc(r, base) \in History
        /\ SettledDoc(r, base).applied = base.applied
        /\ SettledDoc(r, base).attempts = [base.attempts EXCEPT ![att[r]] = b]
    BY <1>2, <1>5, SettledType DEF FailedAttempt
  <2>2. base.attempts \in [AttemptIds -> Attempt \cup {NoAttempt}]
    BY <1>5 DEF History
  <2> HIDE DEF b
  <2>3. QED
    BY <1>1, <2>1, <2>2
<1>8. base = h \/ base = AppliedDoc(r)
  BY <1>1, <1>4 DEF CatchBase
<1>9. \A i \in DOMAIN base.applied : base.applied[i].attempt # att[r]
  <2>1. CASE base = ledger
    BY <1>1, <2>1 DEF DurablyApplied, HasEntryOf
  <2>2. CASE base = h
    <3>1. h.attempts[att[r]].state \in {"running", "unknown"}
      BY <1>3 DEF Open
    <3>2. QED
      BY <1>3, <2>2, <3>1 DEF EntriesSettled
  <2>3. QED
    BY <2>1, <2>2 DEF CatchBase
<1>10. a = h.attempts[att[r]]
  BY DEF Attempted
<1>11. AtTop(h, a) /\ Agrees(h, a) /\ Declared(a)
  <2>1. h.attempts[att[r]] # NoAttempt
    BY <1>3 DEF Open, NoAttempt
  <2>2. QED
    BY <1>2, <1>3, <1>4, <1>10, <2>1 DEF WellKept, OpenAtTop, ContentAgrees, DownsDeclared
<1>12. WellKept(base) /\ EntriesSettled(base)
  BY <1>1, <1>3, <1>4 DEF CatchBase
<1> HIDE DEF a, b, h
<1>13. /\ base = h \/ (base = ledger /\ base = AppliedDoc(r) /\ a.dir # "up")
       /\ AtTop(base, b) /\ Agrees(base, b)
  <2>1. CASE base = h
    BY <1>6, <1>11, <2>1 DEF AtTop, Agrees
  <2>2. CASE base # h
    <3>1. base = AppliedDoc(r) /\ base = ledger
      BY <1>1, <1>8, <2>2 DEF CatchBase, h
    <3>2. Landed(h, base, att[r], [a EXCEPT !.state = "applied"]) /\ [a EXCEPT !.state = "applied"] \in Attempt
      BY <1>2, <3>1, AppliedLanded DEF h, a
    <3>3. /\ AppliedIds(base) = IF a.dir = "up" THEN AppliedIds(h) \cup {a.mig} ELSE AppliedIds(h) \ {a.mig}
          /\ a.dir = "up" => HasEntryOf(base, att[r])
      BY <1>3, <1>4, <1>5, <1>10, <3>2, LandedIds DEF h
    <3>4. a.dir # "up"
      BY <1>9, <3>3 DEF HasEntryOf
    <3>5. AtTop(base, b)
      BY <1>6, <1>11, <3>3, <3>4 DEF AtTop
    <3>6. Agrees(base, b)
      <4> SUFFICES ASSUME NEW j \in AttemptIds, Succeeded(base.attempts[j]), base.attempts[j].mig = b.mig
                   PROVE  base.attempts[j].hash = b.hash
        BY DEF Agrees
      <4>1. CASE j = att[r]
        BY <1>6, <1>10, <3>2, <4>1 DEF Landed
      <4>2. CASE j # att[r]
        BY <1>6, <1>11, <3>2, <4>2 DEF Landed, Agrees
      <4>3. QED
        BY <4>1, <4>2
    <3>7. QED
      BY <3>1, <3>4, <3>5, <3>6
  <2>3. QED
    BY <2>1, <2>2
<1>14. ~ Succeeded(b) /\ Declared(b) /\ b.state \notin {"running"}
  BY <1>6, <1>11 DEF Succeeded, Declared
<1>15. WellKept(ledger')
  BY <1>2, <1>5, <1>6, <1>7, <1>9, <1>12, <1>13, <1>14, ReplacedKept
<1>16. att[r] \in Open(mem[r])
  BY <1>3 DEF h
<1>17. QED
  BY <1>1, <1>2, <1>5, <1>6, <1>7, <1>9, <1>12, <1>13, <1>15, <1>16 DEF a, b, h

(***************************************************************************)
(* The four ways in which the committed document ever changes.             *)
(***************************************************************************)
Writes(r) ==
  \/ /\ pc[r] = "mark"
     /\ \E m \in Migrations, id \in AttemptIds :
          IsNext(r, m) /\ IsFresh(mem[r], id) /\ ledger' = MarkedDoc(r, m, id)
  \/ Attempting(r) /\ ledger' = AppliedDoc(r)
  \/ pc[r] = "commit" /\ ~ Applying(r) /\ ledger' = mem[r]
  \/ pc[r] = "catch" /\ SaveFailedState(r)

LEMMA LandingWrites ==
  ASSUME NEW r \in Runners, pc[r] = "commit", CommitLands(r)
  PROVE  Writes(r)
  BY DEF CommitLands, PendingDoc, Writes, Attempting

LEMMA InFlightWrites ==
  ASSUME NEW r \in Runners, InFlightLands(r)
  PROVE  Writes(r) \/ UNCHANGED ledger
<1>1. CASE pc[r] = "mark"
  BY <1>1 DEF InFlightLands, Writes
<1>2. CASE pc[r] = "exec"
  BY <1>2 DEF InFlightLands
<1>3. CASE pc[r] = "record"
  BY <1>3 DEF InFlightLands, Writes, Attempting
<1>4. CASE pc[r] = "commit"
  BY <1>4, LandingWrites DEF InFlightLands
<1>5. CASE pc[r] = "catch"
  BY <1>5 DEF InFlightLands, Writes
<1>6. QED
  BY <1>1, <1>2, <1>3, <1>4, <1>5 DEF InFlightLands

LEMMA RunnerWrites ==
  ASSUME NEW r \in Runners, Run(r) \/ Operate(r)
  PROVE  UNCHANGED ledger \/ Writes(r)
<1> USE DEF At, Goto, Forget, DropTxn, world, client, database
<1>1. ASSUME Operate(r) PROVE UNCHANGED ledger
  BY <1>1 DEF Operate, StartPlan, BuildPlan, Inspect, Attest, Connect, Lose
<1>2. ASSUME \/ AcquireLock(r) \/ GiveUp(r) \/ VerifyPlan(r) \/ VerifyBaseline(r)
             \/ VerifyResolution(r) \/ Refuse(r) \/ Begin(r) \/ Execute(r) \/ Fail(r) \/ Close(r)
      PROVE  UNCHANGED ledger
  BY <1>2 DEF AcquireLock, GiveUp, VerifyPlan, VerifyBaseline, VerifyResolution, Refuse, Begin,
              Execute, Fail, Close
<1>3. ASSUME Mark(r) PROVE Writes(r)
  BY <1>3 DEF Mark, Writes
<1>4. ASSUME Record(r) PROVE UNCHANGED ledger \/ Writes(r)
  BY <1>4 DEF Record, Writes, Attempting
<1>5. ASSUME Commit(r) \/ CommitRejected(r) PROVE UNCHANGED ledger \/ Writes(r)
  BY <1>5, LandingWrites DEF Commit, CommitRejected
<1>6. ASSUME Catch(r) PROVE UNCHANGED ledger \/ Writes(r)
  BY <1>6 DEF Catch, Writes
<1>7. ASSUME BackendEnds(r) PROVE UNCHANGED ledger \/ Writes(r)
  BY <1>7, InFlightWrites DEF BackendEnds
<1>8. QED
  BY <1>1, <1>2, <1>3, <1>4, <1>5, <1>6, <1>7 DEF Run

LEMMA LedgerWriters ==
  ASSUME [Next]_vars
  PROVE  UNCHANGED ledger \/ \E r \in Runners : Writes(r)
<1>1. ASSUME ManualDdl \/ Repair \/ EditFiles PROVE UNCHANGED ledger
  BY <1>1 DEF ManualDdl, Repair, EditFiles, database
<1>2. QED
  BY <1>1, RunnerWrites DEF Next, vars

(* Whatever is written is well kept, and only a connected session writes. *)
LEMMA WritesKept ==
  ASSUME TypeInv, LedgerInv, DocumentInv, NEW r \in Runners, Writes(r)
  PROVE  WellKept(ledger') /\ pc[r] \in Connected
<1>1. TypeOK /\ EntriesSettled(mem[r]) /\ KnowsLedger(r) /\ WellKept(mem[r]) /\ KnowsDocument(r)
  BY DEF TypeInv, LedgerInv, DocumentInv
<1>2. CASE /\ pc[r] = "mark"
           /\ \E m \in Migrations, id \in AttemptIds :
                IsNext(r, m) /\ IsFresh(mem[r], id) /\ ledger' = MarkedDoc(r, m, id)
  BY <1>1, <1>2, MarkedKept DEF KnowsDocument, Connected
<1>3. CASE Attempting(r) /\ ledger' = AppliedDoc(r)
  <2>1. att[r] \in AttemptIds /\ Attempted(r) \in Attempt
    BY <1>3 DEF TypeInv, KnowsAttempt, Attempting, Working
  <2>2. Open(mem[r]) = {att[r]}
    BY <1>1, <1>3 DEF KnowsLedger
  <2>3. QED
    BY <1>1, <1>3, <2>1, <2>2, AppliedKept DEF Connected, Attempting
<1>4. CASE pc[r] = "commit" /\ ~ Applying(r) /\ ledger' = mem[r]
  BY <1>1, <1>4 DEF Connected
<1>5. CASE pc[r] = "catch" /\ SaveFailedState(r)
  BY <1>5, SavedKept DEF Connected
<1>6. QED
  BY <1>2, <1>3, <1>4, <1>5 DEF Writes

LEMMA LedgerKept ==
  ASSUME TypeInv, LedgerInv, DocumentInv, [Next]_vars
  PROVE  WellKept(ledger')
  BY LedgerWriters, WritesKept DEF DocumentInv

(* What a step of one runner leaves to the others. *)
LEMMA OthersKeepDocuments ==
  ASSUME TypeInv, LedgerInv, DocumentInv, NEW r \in Runners,
         \A q \in Runners : q # r =>
           pc'[q] = pc[q] /\ plan'[q] = plan[q] /\ mem'[q] = mem[q] /\ att'[q] = att[q],
         UNCHANGED ledger \/ pc[r] \in Connected,
         WellKept(ledger'), WellKept(mem'[r]), KnowsDocument(r)'
  PROVE  DocumentInv'
<1>1. ASSUME NEW q \in Runners, q # r
      PROVE  WellKept(mem'[q]) /\ KnowsDocument(q)'
  <2>1. pc'[q] = pc[q] /\ plan'[q] = plan[q] /\ mem'[q] = mem[q] /\ att'[q] = att[q]
    BY <1>1
  <2>2. WellKept(mem[q]) /\ KnowsDocument(q)
    BY DEF DocumentInv
  <2>3. /\ PlanFits(q)' = PlanFits(q) /\ AttemptFits(q)' = AttemptFits(q)
        /\ Attempting(q)' = Attempting(q) /\ Applying(q)' = Applying(q)
    BY <2>1 DEF PlanFits, AttemptFits, IsNext, Attempted, Attempting, Applying
  <2>4. CASE pc[q] \in Connected
    <3>1. lock = q /\ pc[r] \notin Connected
      BY <1>1, <2>4 DEF LedgerInv, LockHeld
    <3>2. UNCHANGED ledger
      BY <3>1
    <3>3. AppliedDoc(q)' = AppliedDoc(q) /\ ResolvedDoc(q)' = ResolvedDoc(q)
      BY <2>1, <3>2 DEF AppliedDoc, ResolvedDoc, AppliedEntry, Attempted
    <3>4. Resolving(q)' = Resolving(q) /\ Adopting(q)' = Adopting(q)
      BY <2>1, <3>2, <3>3 DEF Resolving, Adopting, Open
    <3>5. QED
      BY <2>1, <2>2, <2>3, <3>2, <3>3, <3>4 DEF KnowsDocument
  <2>5. CASE pc[q] \notin Connected
    <3>1. pc[q] \notin {"catch", "commit"}
      BY <2>5 DEF Connected
    <3>2. QED
      BY <2>1, <2>2, <2>3, <3>1 DEF KnowsDocument
  <2>6. QED
    BY <2>4, <2>5
<1>2. QED
  BY <1>1 DEF DocumentInv

(* A plan built from a valid history fits it (Selections). *)
LEMMA BuiltPlanFits ==
  ASSUME TypeOK, NEW r \in Runners, ValidHistory(mem[r], plan[r].inv),
         NEW S \in Selections(r), NEW p,
         p.inv = plan[r].inv, p.dir = plan[r].dir, p.todo = S,
         plan'[r] = p, mem'[r] = mem[r]
  PROVE  PlanFits(r)'
<1> DEFINE ids == AppliedIds(mem[r])
<1>1. mem[r] \in History /\ ids \subseteq Migrations
  BY HistoryTypes DEF TypeOK
<1>2. SuccessfulContentPresent(mem[r], plan[r].inv)
  BY DEF ValidHistory
<1>3. ASSUME plan[r].dir = "up", NEW m \in S, NEW k \in ids PROVE k < m
  <2>1. m \in Migrations /\ m \notin ids /\ plan[r].inv[m] # 0
    BY <1>3 DEF Selections, Pending
  <2>2. QED
    BY <1>3, <2>1 DEF ValidHistory, NoneOutOfOrder
<1>4. ASSUME plan[r].dir = "down"
      PROVE  S \subseteq ids \cap Reversible /\ \A m \in S, k \in ids \ S : k < m
  <2>1. PICK to \in 0..N : S = {m \in ids : m > to} /\ S \subseteq Reversible
    BY <1>4 DEF Selections
  <2>2. ids \subseteq Int /\ to \in Int
    BY <1>1 DEF Migrations
  <2> HIDE DEF ids
  <2>3. QED
    BY <2>1, <2>2
<1>5. AppliedIds(mem[r])' = ids
  BY DEF AppliedIds
<1>6. QED
  BY <1>2, <1>3, <1>4, <1>5 DEF PlanFits

(* After a migration of the plan has landed, the rest of it still fits. *)
LEMMA RestOfPlanFits ==
  ASSUME TypeInv, LedgerInv, DocumentInv, NEW r \in Runners, Attempting(r), Completed(r)
  PROVE  PlanFits(r)'
<1> DEFINE h == mem[r]
           d == AppliedDoc(r)
           a == Attempted(r)
           b == [a EXCEPT !.state = "applied"]
           rest == plan[r].todo \ {a.mig}
<1>1. att[r] \in AttemptIds /\ a \in Attempt /\ TypeOK
  BY DEF TypeInv, KnowsAttempt, Attempting, Working
<1>2. Open(h) = {att[r]} /\ WellKept(h) /\ h \in History
  BY <1>1 DEF LedgerInv, KnowsLedger, DocumentInv, TypeOK
<1>3. PlanFits(r) /\ AttemptFits(r)
  BY DEF DocumentInv, KnowsDocument
<1>4. b \in Attempt /\ Landed(h, d, att[r], b) /\ d \in History
  BY <1>1, AppliedLanded
<1>5. mem'[r] = d /\ plan'[r] = [plan[r] EXCEPT !.todo = rest]
  BY <1>1 DEF Completed, TypeOK
<1>6. plan[r] \in Plan
  BY <1>1 DEF TypeOK
<1>7. plan'[r].inv = plan[r].inv /\ plan'[r].dir = plan[r].dir /\ plan'[r].todo = rest
  BY <1>5, <1>6 DEF Plan
<1>8. a = h.attempts[att[r]]
  BY DEF Attempted
<1> HIDE DEF b, d
<1>9. AppliedIds(d) = IF a.dir = "up" THEN AppliedIds(h) \cup {a.mig} ELSE AppliedIds(h) \ {a.mig}
  BY <1>2, <1>4, <1>8, LandedIds
<1>10. SuccessfulContentPresent(d, plan[r].inv)
  <2>1. SuccessfulContentPresent(h, plan[r].inv)
    BY <1>3 DEF PlanFits
  <2>2. plan[r].inv[a.mig] = a.hash
    BY <1>3 DEF AttemptFits
  <2>3. QED
    BY <1>4, <1>8, <2>1, <2>2 DEF SuccessfulContentPresent, Landed
<1>11. /\ a.mig \in plan[r].todo
       /\ \A k \in plan[r].todo : IF plan[r].dir = "up" THEN a.mig <= k ELSE k <= a.mig
       /\ a.dir = plan[r].dir
  BY <1>3 DEF AttemptFits, IsNext
<1>12. plan[r].todo \subseteq Int /\ a.mig \in Int
  BY <1>1, <1>6 DEF Plan, Migrations, Attempt
<1> HIDE DEF a, h
<1>13. ASSUME plan[r].dir = "up", NEW m \in rest, NEW k \in AppliedIds(d) PROVE k < m
  <2>1. CASE k \in AppliedIds(h)
    BY <1>3, <1>13, <2>1 DEF PlanFits, h
  <2>2. CASE k = a.mig
    <3>1. a.mig <= m /\ a.mig # m /\ m \in Int
      BY <1>11, <1>12, <1>13
    <3>2. QED
      BY <1>12, <2>2, <3>1
  <2>3. QED
    BY <1>9, <1>11, <1>13, <2>1, <2>2
<1>14. ASSUME plan[r].dir = "down"
       PROVE  /\ rest \subseteq AppliedIds(d) \cap Reversible
              /\ \A m \in rest, k \in AppliedIds(d) \ rest : k < m
  <2>1. AppliedIds(d) = AppliedIds(h) \ {a.mig}
    BY <1>9, <1>11, <1>14
  <2>2. /\ plan[r].todo \subseteq AppliedIds(h) \cap Reversible
        /\ \A m \in plan[r].todo, k \in AppliedIds(h) \ plan[r].todo : k < m
    BY <1>3, <1>14 DEF PlanFits, h
  <2>3. QED
    BY <2>1, <2>2
<1>15. AppliedIds(mem[r])' = AppliedIds(d)
  BY <1>5 DEF AppliedIds
<1>16. SuccessfulContentPresent(mem[r], plan[r].inv)'
  BY <1>5, <1>7, <1>10 DEF SuccessfulContentPresent
<1>17. QED
  BY <1>7, <1>13, <1>14, <1>15, <1>16 DEF PlanFits

(* Every step keeps the documents in order and the plans fitting them. *)
LEMMA DocumentStep == TypeInv /\ LedgerInv /\ DocumentInv /\ [Next]_vars => DocumentInv'
<1> SUFFICES ASSUME TypeInv, LedgerInv, DocumentInv, [Next]_vars PROVE DocumentInv'
  OBVIOUS
<1> USE DEF At, Goto, world, client, database
<1>a. /\ pc \in [Runners -> PCs] /\ plan \in [Runners -> Plan] /\ mem \in [Runners -> History]
      /\ att \in [Runners -> AttemptIds \cup {0}] /\ ledger \in History /\ TypeOK
  BY DEF TypeInv, TypeOK
<1>b. /\ WellKept(ledger)
      /\ \A r \in Runners : WellKept(mem[r]) /\ KnowsDocument(r) /\ KnowsLedger(r)
  BY DEF DocumentInv, LedgerInv
<1>c. WellKept(ledger')
  BY LedgerKept
<1>1. ASSUME NEW r \in Runners, StartPlan(r) PROVE DocumentInv'
  <2>1. PICK mode \in Commands, dir \in Directions :
          plan' = [plan EXCEPT ![r] = [NoPlan EXCEPT !.mode = mode, !.dir = dir, !.inv = files]]
    BY <1>1 DEF StartPlan
  <2>2. /\ pc' = [pc EXCEPT ![r] = "planning"] /\ mem' = [mem EXCEPT ![r] = ledger]
        /\ ValidHistory(ledger, files) /\ UNCHANGED <<ledger, lock, att>>
    BY <1>1 DEF StartPlan
  <2>3. plan'[r].inv = files /\ mem'[r] = ledger /\ pc'[r] = "planning"
    BY <2>1, <2>2, <1>a DEF NoPlan
  <2>4. ValidHistory(mem[r], plan[r].inv)'
    BY <2>2, <2>3 DEF ValidHistory, SuccessfulContentPresent, AppliedAscending,
         AppliedContentPresent, NothingUnresolved, Unresolved, IsUnresolved, HasEntryOf,
         NoneOutOfOrder, AppliedIds
  <2>5. KnowsDocument(r)'
    BY <2>3, <2>4 DEF KnowsDocument, Attempting
  <2>6. QED
    BY <2>1, <2>2, <2>3, <2>5, <1>a, <1>b, OthersKeepDocuments
<1>2. ASSUME NEW r \in Runners, BuildPlan(r) PROVE DocumentInv'
  <2>1. PICK S \in Selections(r) :
          plan' = [plan EXCEPT ![r].catalog = Captured(r), ![r].todo = S]
    BY <1>2 DEF BuildPlan
  <2>2. /\ pc[r] = "planning" /\ pc' = [pc EXCEPT ![r] = "planned"]
        /\ UNCHANGED <<ledger, lock, att, mem>>
    BY <1>2 DEF BuildPlan
  <2>3. plan'[r] = [plan[r] EXCEPT !.catalog = Captured(r), !.todo = S]
    BY <2>1, <1>a
  <2>4. plan'[r].inv = plan[r].inv /\ plan'[r].dir = plan[r].dir /\ plan'[r].todo = S
    BY <2>3, <1>a DEF Plan
  <2>5. ValidHistory(mem[r], plan[r].inv)
    BY <2>2, <1>b DEF KnowsDocument
  <2>6. PlanFits(r)'
    BY <2>2, <2>4, <2>5, <1>a, BuiltPlanFits
  <2>7. KnowsDocument(r)'
    BY <2>2, <2>6, <1>a DEF KnowsDocument, Attempting
  <2>8. QED
    BY <2>1, <2>2, <2>7, <1>a, <1>b, OthersKeepDocuments
<1>3. ASSUME NEW r \in Runners, Inspect(r) PROVE DocumentInv'
  <2>1. /\ pc' = [pc EXCEPT ![r] = "inspecting"] /\ mem' = [mem EXCEPT ![r] = ledger]
        /\ UNCHANGED <<ledger, lock, plan>>
        /\ \A q \in Runners : q # r => att'[q] = att[q]
    BY <1>3, <1>a DEF Inspect
  <2>2. KnowsDocument(r)'
    BY <2>1, <1>a DEF KnowsDocument, Attempting
  <2>3. QED
    BY <2>1, <2>2, <1>a, <1>b, OthersKeepDocuments
<1>4. ASSUME NEW r \in Runners, Attest(r) PROVE DocumentInv'
  <2>1. PICK action \in Actions :
          plan' = [plan EXCEPT ![r] = [NoPlan EXCEPT !.mode = action, !.catalog = Captured(r)]]
    BY <1>4 DEF Attest
  <2>2. /\ pc' = [pc EXCEPT ![r] = "planned"]
        /\ UNCHANGED <<ledger, lock, att, mem>>
        /\ \A q \in Runners : q # r => plan'[q] = plan[q]
        /\ plan'[r].mode \in Actions
    BY <1>4, <1>a, <2>1 DEF Attest, NoPlan
  <2>3. KnowsDocument(r)'
    BY <2>2, <1>a DEF KnowsDocument, Attempting
  <2>4. QED
    BY <2>2, <2>3, <1>a, <1>b, OthersKeepDocuments
<1>5. ASSUME NEW r \in Runners, UNCHANGED <<ledger, plan, att, mem>>,
             \/ pc[r] = "planned" /\ pc' = [pc EXCEPT ![r] = "locking"]
             \/ pc[r] = "locking" /\ pc' = [pc EXCEPT ![r] = "verify"]
             \/ /\ pc[r] = "verify" /\ pc' = [pc EXCEPT ![r] = "mark"]
                /\ Applying(r) /\ plan[r].mode \notin Actions
      PROVE  DocumentInv'
  <2>1. PlanFits(r)' = PlanFits(r) /\ Applying(r)' = Applying(r)
    BY <1>5 DEF PlanFits, Applying
  <2>2. KnowsDocument(r)'
    BY <1>5, <2>1, <1>a, <1>b DEF KnowsDocument, Attempting
  <2>3. QED
    BY <1>5, <2>2, <1>a, <1>b, <1>c, OthersKeepDocuments
<1>6. ASSUME NEW r \in Runners, Connect(r) \/ AcquireLock(r) PROVE DocumentInv'
  BY <1>6, <1>5 DEF Connect, AcquireLock
<1>7. ASSUME NEW r \in Runners, Forget(r), UNCHANGED ledger \/ pc[r] \in Connected
      PROVE  DocumentInv'
  <2>1. /\ pc'[r] = "idle" /\ mem'[r] = EmptyHistory
        /\ \A q \in Runners : q # r =>
             pc'[q] = pc[q] /\ plan'[q] = plan[q] /\ mem'[q] = mem[q] /\ att'[q] = att[q]
    BY <1>7, <1>a DEF Forget
  <2>2. KnowsDocument(r)'
    BY <2>1 DEF KnowsDocument, Attempting
  <2>3. QED
    BY <1>7, <2>1, <2>2, <1>c, EmptyKept, OthersKeepDocuments
<1>8. ASSUME NEW r \in Runners, GiveUp(r) \/ Close(r) PROVE DocumentInv'
  BY <1>8, <1>7 DEF GiveUp, Close
<1>9. ASSUME NEW r \in Runners, VerifyPlan(r) PROVE DocumentInv'
  BY <1>9, <1>5 DEF VerifyPlan, Actions, Applying
<1>10. ASSUME NEW r \in Runners, VerifyBaseline(r) PROVE DocumentInv'
  <2>1. PICK n \in AttemptIds : \E order \in [1..n -> plan[r].todo] :
          Ascending(order) /\ mem' = [mem EXCEPT ![r] = BaselineDoc(r, order)]
    BY <1>10 DEF VerifyBaseline
  <2>2. PICK order \in [1..n -> plan[r].todo] :
          Ascending(order) /\ mem' = [mem EXCEPT ![r] = BaselineDoc(r, order)]
    BY <2>1
  <2>3. /\ pc[r] = "verify" /\ pc' = [pc EXCEPT ![r] = "commit"] /\ ledger = EmptyHistory
        /\ plan[r].mode = "baseline" /\ UNCHANGED <<ledger, lock, plan, att>>
    BY <1>10 DEF VerifyBaseline
  <2>4. WellKept(BaselineDoc(r, order)) /\ Open(BaselineDoc(r, order)) = {}
    BY <1>a, <2>2, BaselineLedger, BaselineKept
  <2>5. Open(mem[r])' = {} /\ WellKept(mem'[r])
    BY <2>2, <2>4, <1>a DEF Open
  <2>6. KnowsDocument(r)'
    BY <2>3, <2>5, <1>a DEF KnowsDocument, Attempting, Applying, Adopting
  <2>7. QED
    BY <2>2, <2>3, <2>5, <2>6, <1>a, <1>b, OthersKeepDocuments
<1>11. ASSUME NEW r \in Runners, VerifyResolution(r) PROVE DocumentInv'
  <2>1. /\ pc[r] = "verify" /\ pc' = [pc EXCEPT ![r] = "commit"]
        /\ mem' = [mem EXCEPT ![r] = ResolvedDoc(r)]
        /\ plan[r].mode \in Actions /\ ResolutionAllowed(r)
        /\ UNCHANGED <<ledger, lock, plan, att>>
    BY <1>11 DEF VerifyResolution
  <2>2. att[r] \in AttemptIds /\ IsUnresolved(ledger, att[r])
    BY <2>1 DEF TypeInv, KnowsAttempt, ResolutionAllowed
  <2>3. WellKept(ResolvedDoc(r))
    BY <2>1, <2>2, <1>a, <1>b, ResolvedType, ResolvedKept DEF LedgerInv
  <2>4. mem'[r] = ResolvedDoc(r) /\ ResolvedDoc(r)' = ResolvedDoc(r)
    BY <2>1, <1>a DEF ResolvedDoc
  <2>5. IsUnresolved(ledger, att[r])'
    BY <2>1, <2>2
  <2>6. KnowsDocument(r)'
    BY <2>1, <2>2, <2>4, <2>5, <1>a DEF KnowsDocument, Attempting, Applying, Resolving, Actions
  <2>7. QED
    BY <2>1, <2>3, <2>4, <2>6, <1>a, <1>b, OthersKeepDocuments
<1>12. ASSUME NEW r \in Runners, Refuse(r) PROVE DocumentInv'
  <2>1. pc' = [pc EXCEPT ![r] = "close"] /\ UNCHANGED <<ledger, lock, plan, att, mem>>
    BY <1>12 DEF Refuse
  <2>2. KnowsDocument(r)'
    BY <2>1, <1>a DEF KnowsDocument, Attempting
  <2>3. QED
    BY <2>1, <2>2, <1>a, <1>b, OthersKeepDocuments
<1>13. ASSUME NEW r \in Runners, Mark(r) PROVE DocumentInv'
  <2>1. PICK m \in Migrations, id \in AttemptIds :
          /\ IsNext(r, m) /\ IsFresh(mem[r], id)
          /\ ledger' = MarkedDoc(r, m, id)
          /\ mem' = [mem EXCEPT ![r] = MarkedDoc(r, m, id)]
          /\ att' = [att EXCEPT ![r] = id]
    BY <1>13 DEF Mark
  <2>2. pc[r] = "mark" /\ pc' = [pc EXCEPT ![r] = "begin"] /\ UNCHANGED <<lock, plan>>
    BY <1>13 DEF Mark
  <2>3. PlanFits(r) /\ Applying(r) /\ EntriesSettled(mem[r])
    BY <2>2, <1>b DEF KnowsDocument, LedgerInv
  <2>4. /\ WellKept(MarkedDoc(r, m, id))
        /\ \A j \in AttemptIds : MarkedDoc(r, m, id).attempts[j] =
             IF j = id THEN RunningAttempt(r, m) ELSE mem[r].attempts[j]
    BY <2>1, <2>3, <1>a, <1>b, MarkedKept
  <2>5. MarkedDoc(r, m, id).applied = mem[r].applied
    BY <1>a, MarkedType
  <2>6. mem'[r] = MarkedDoc(r, m, id) /\ att'[r] = id /\ plan'[r] = plan[r] /\ pc'[r] = "begin"
    BY <2>1, <2>2, <1>a
  <2>7. Attempted(r)' = RunningAttempt(r, m)
    BY <2>4, <2>6 DEF Attempted
  <2>8. /\ RunningAttempt(r, m).mig = m /\ RunningAttempt(r, m).hash = plan[r].inv[m]
        /\ RunningAttempt(r, m).dir = plan[r].dir /\ ~ Succeeded(RunningAttempt(r, m))
    BY DEF RunningAttempt, Succeeded
  <2>9. PlanFits(r)'
    <3>1. SuccessfulContentPresent(mem'[r], plan[r].inv)
      BY <2>3, <2>4, <2>6, <2>8 DEF PlanFits, SuccessfulContentPresent
    <3>2. AppliedIds(mem'[r]) = AppliedIds(mem[r])
      BY <2>5, <2>6 DEF AppliedIds
    <3>3. QED
      BY <2>3, <2>6, <3>1, <3>2 DEF PlanFits
  <2>10. AttemptFits(r)'
    BY <2>1, <2>3, <2>6, <2>7, <2>8 DEF AttemptFits, IsNext, Applying
  <2>11. KnowsDocument(r)'
    BY <2>6, <2>9, <2>10 DEF KnowsDocument
  <2>12. QED
    BY <2>1, <2>2, <2>4, <2>6, <2>11, <1>a, <1>b, <1>c, OthersKeepDocuments DEF Connected
<1>14. ASSUME NEW r \in Runners, Attempting(r), pc'[r] \in {"exec", "record", "commit"},
             \A q \in Runners : q # r => pc'[q] = pc[q],
             UNCHANGED <<ledger, lock, plan, att, mem>>
      PROVE  DocumentInv'
  <2>1. PlanFits(r) /\ AttemptFits(r)
    BY <1>14, <1>b DEF KnowsDocument
  <2>2. PlanFits(r)' /\ AttemptFits(r)' /\ Applying(r)'
    BY <1>14, <2>1 DEF PlanFits, AttemptFits, IsNext, Attempted, Applying
  <2>3. QED
    BY <1>14, <2>2, <1>b, OthersKeepDocuments DEF KnowsDocument
<1>15. ASSUME NEW r \in Runners, Begin(r) PROVE DocumentInv'
  BY <1>15, <1>14, <1>a DEF Begin, Attempting
<1>16. ASSUME NEW r \in Runners, Execute(r) PROVE DocumentInv'
  BY <1>16, <1>14, <1>a DEF Execute, Attempting
<1>17. ASSUME NEW r \in Runners, Attempting(r), Completed(r), ledger' = AppliedDoc(r)
       PROVE  DocumentInv'
  <2>1. /\ mem'[r] = AppliedDoc(r) /\ pc'[r] \in {"mark", "close"} /\ WellKept(mem'[r])
        /\ \A q \in Runners : q # r =>
             pc'[q] = pc[q] /\ plan'[q] = plan[q] /\ mem'[q] = mem[q] /\ att'[q] = att[q]
    BY <1>17, <1>a, <1>c DEF Completed
  <2>2. PlanFits(r)'
    BY <1>17, RestOfPlanFits
  <2>3. Applying(r)'
    <3>1. Applying(r)
      BY <1>17, <1>b DEF KnowsDocument, AttemptFits
    <3>2. plan'[r].mode = plan[r].mode
      BY <1>17, <1>a DEF Completed, Plan
    <3>3. QED
      BY <3>1, <3>2 DEF Applying
  <2>4. KnowsDocument(r)'
    BY <2>1, <2>2, <2>3 DEF KnowsDocument, Attempting
  <2>5. pc[r] \in Connected
    BY <1>17 DEF Attempting, Connected
  <2>6. QED
    BY <2>1, <2>4, <2>5, <1>c, OthersKeepDocuments
<1>18. ASSUME NEW r \in Runners, Record(r) PROVE DocumentInv'
  <2>1. CASE txn[r].open
    BY <1>18, <2>1, <1>14, <1>a DEF Record, Attempting
  <2>2. CASE ~ txn[r].open
    BY <1>18, <2>2, <1>17 DEF Record, Attempting
  <2>3. QED
    BY <2>1, <2>2
<1>19. ASSUME NEW r \in Runners, pc'[r] = "close", UNCHANGED <<plan, mem, att>>,
              UNCHANGED ledger \/ pc[r] \in Connected,
              \A q \in Runners : q # r => pc'[q] = pc[q]
       PROVE  DocumentInv'
  <2>1. KnowsDocument(r)'
    BY <1>19 DEF KnowsDocument, Attempting
  <2>2. QED
    BY <1>19, <2>1, <1>b, <1>c, OthersKeepDocuments
<1>20. ASSUME NEW r \in Runners, pc'[r] = "catch", UNCHANGED <<plan, mem, att>>,
              Attempting(r),
              UNCHANGED ledger \/ ("done" \in CommitFaults /\ ledger' = AppliedDoc(r)),
              \A q \in Runners : q # r => pc'[q] = pc[q]
       PROVE  DocumentInv'
  <2>1. ledger = mem[r] /\ pc[r] \in Connected
    BY <1>20, <1>b DEF KnowsLedger, Attempting, Connected
  <2>2. AppliedDoc(r)' = AppliedDoc(r)
    BY <1>20 DEF AppliedDoc, AppliedEntry, Attempted
  <2>3. KnowsDocument(r)'
    BY <1>20, <2>1, <2>2 DEF KnowsDocument, Attempting
  <2>4. QED
    BY <1>20, <2>1, <2>3, <1>b, <1>c, OthersKeepDocuments
<1>21. ASSUME NEW r \in Runners, Commit(r) PROVE DocumentInv'
  <2>1. pc[r] = "commit" /\ ledger' = PendingDoc(r) /\ UNCHANGED lock
    BY <1>21 DEF Commit, CommitLands
  <2>2. CASE Applying(r)
    BY <1>21, <2>1, <2>2, <1>17 DEF Commit, PendingDoc, Attempting
  <2>3. CASE ~ Applying(r)
    BY <1>21, <2>1, <2>3, <1>19, <1>a DEF Commit, Connected
  <2>4. QED
    BY <2>2, <2>3
<1>22. ASSUME NEW r \in Runners, CommitRejected(r) PROVE DocumentInv'
  <2>1. /\ pc[r] = "commit" /\ UNCHANGED <<lock, plan, mem, att>>
        /\ UNCHANGED ledger \/ ("done" \in CommitFaults /\ ledger' = PendingDoc(r))
        /\ pc' = [pc EXCEPT ![r] = IF Applying(r) THEN "catch" ELSE "close"]
    BY <1>22 DEF CommitRejected, CommitLands
  <2>2. CASE Applying(r)
    BY <2>1, <2>2, <1>20, <1>a DEF PendingDoc, Attempting
  <2>3. CASE ~ Applying(r)
    BY <2>1, <2>3, <1>19, <1>a DEF Connected
  <2>4. QED
    BY <2>2, <2>3
<1>23. ASSUME NEW r \in Runners, Fail(r) PROVE DocumentInv'
  BY <1>23, <1>20, <1>a DEF Fail, Attempting
<1>24. ASSUME NEW r \in Runners, Catch(r) PROVE DocumentInv'
  BY <1>24, <1>19, <1>a DEF Catch, Connected
<1>25. ASSUME NEW r \in Runners, BackendEnds(r) PROVE DocumentInv'
  <2>1. UNCHANGED ledger \/ pc[r] \in Connected
    BY <1>25, InFlightWrites, WritesKept DEF BackendEnds
  <2>2. QED
    BY <1>25, <2>1, <1>7 DEF BackendEnds
<1>26. ASSUME UNCHANGED <<ledger, pc, plan, mem, att>> PROVE DocumentInv'
  <2>1. ASSUME NEW q \in Runners PROVE KnowsDocument(q)' = KnowsDocument(q)
    BY <1>26 DEF KnowsDocument, ValidHistory, SuccessfulContentPresent, AppliedAscending,
         AppliedContentPresent, NothingUnresolved, Unresolved, IsUnresolved, HasEntryOf,
         NoneOutOfOrder, AppliedIds, PlanFits, AttemptFits, IsNext, Attempted, Attempting, Applying,
         AppliedDoc, AppliedEntry, ResolvedDoc, Open, Resolving, Adopting
  <2>2. QED
    BY <1>26, <2>1, <1>b DEF DocumentInv
<1>27. ASSUME NEW r \in Runners, Lose(r) PROVE DocumentInv'
  BY <1>27, <1>26 DEF Lose
<1>28. ASSUME ManualDdl \/ Repair \/ EditFiles PROVE DocumentInv'
  BY <1>28, <1>26 DEF ManualDdl, Repair, EditFiles
<1>29. CASE UNCHANGED vars
  BY <1>29, <1>26 DEF vars
<1>30. QED
  BY <1>1, <1>2, <1>3, <1>4, <1>6, <1>8, <1>9, <1>10, <1>11, <1>12, <1>13, <1>15, <1>16,
     <1>18, <1>21, <1>22, <1>23, <1>24, <1>25, <1>27, <1>28, <1>29
     DEF Next, Run, Operate

LEMMA DocumentInvariant == Spec => []DocumentInv
<1>1. Init => DocumentInv
  <2> SUFFICES ASSUME Init PROVE DocumentInv
    OBVIOUS
  <2>1. ASSUME NEW r \in Runners PROVE WellKept(mem[r]) /\ KnowsDocument(r)
    BY EmptyKept DEF Init, KnowsDocument, Attempting
  <2>2. QED
    BY <2>1, EmptyKept DEF Init, DocumentInv
<1>2. QED
  BY <1>1, DocumentStep, LedgerInvariant, TypeInvariant, PTL DEF Spec

-------------------------------------------------------------------------------
(***************************************************************************)
(* What the document promises to whoever reads it.                         *)
(***************************************************************************)

(* No identifier is applied twice in the committed document, and each applied
   entry matches an up attempt of the same content, whatever is lost, rejected,
   resolved, edited or adopted: what parseHistory requires of the entries of a
   document.  (validateHistory requires more, of a document and the files.) *)
THEOREM ReadableForever == Spec => []HistoryReadable
<1>1. TypeInv /\ LedgerInv /\ DocumentInv => HistoryReadable
  <2> SUFFICES ASSUME TypeInv, LedgerInv, DocumentInv PROVE HistoryReadable
    OBVIOUS
  <2>1. /\ ledger \in History /\ ledger.applied \in Seq(Entry) /\ Rising(ledger.applied)
        /\ EntriesMatch(ledger) /\ EntriesSettled(ledger)
    BY HistoryTypes DEF TypeInv, TypeOK, LedgerInv, Sound, DocumentInv, WellKept
  <2>2. \A i, j \in DOMAIN ledger.applied : ledger.applied[i].id = ledger.applied[j].id => i = j
    BY <2>1, RisingUnique
  <2>3. ASSUME NEW i \in DOMAIN ledger.applied
        PROVE  ledger.attempts[ledger.applied[i].attempt] # NoAttempt
    BY <2>1 DEF EntriesSettled, NoAttempt
  <2>4. QED
    BY <2>1, <2>2, <2>3 DEF HistoryReadable, EntriesMatch
<1>2. QED
  BY <1>1, TypeInvariant, LedgerInvariant, DocumentInvariant, PTL

(* Applied history is strictly ascending in every reachable state: no
   migration is slipped in behind the deployed head (MIGRATION_OUT_OF_ORDER
   at planning, MIGRATION_RESOLUTION_STATE at a resolution). *)
THEOREM InOrder == Spec => []AppliedInOrder
<1>1. DocumentInv => AppliedInOrder
  BY DEF DocumentInv, WellKept, AppliedInOrder
<1>2. QED
  BY <1>1, DocumentInvariant, PTL

(* Two successful attempts of one migration ran the same content, also when
   the first was reverted, resolved by an operator or left in doubt in
   between and the file was edited (validateHistory checks every successful
   attempt against the inventory). *)
THEOREM OneContent == Spec => []SuccessfulContentImmutable
<1>1. DocumentInv => SuccessfulContentImmutable
  BY DEF DocumentInv, WellKept, ContentAgrees, Agrees, SuccessfulContentImmutable
<1>2. QED
  BY <1>1, DocumentInvariant, PTL

-------------------------------------------------------------------------------
(***************************************************************************)
(* Outcomes.                                                               *)
(***************************************************************************)

LEMMA OpenIsUnresolved ==
  ASSUME NEW h, EntriesSettled(h)
  PROVE  Unresolved(h) = Open(h) /\ \A id \in Open(h) : ~ HasEntryOf(h, id)
<1>1. ASSUME NEW id \in Open(h) PROVE ~ HasEntryOf(h, id)
  BY DEF EntriesSettled, Open, HasEntryOf
<1>2. QED
  BY <1>1 DEF Unresolved, IsUnresolved, Open

\* No commit is reported as failed although it has taken effect - or then the
\* catch block reads the entry it left, which a down attempt does not leave.
NoFalseFailure == "done" \notin CommitFaults \/ (~ UnreadableHistory /\ Reversible = {})

OutcomesKept ==
  \A id \in AttemptIds :
    LET a == ledger.attempts[id]
    IN  a # NoAttempt /\ ~ IsUnresolved(ledger, id) => ledger'.attempts[id] = a

LEMMA WritesKeepOutcomes ==
  ASSUME NoFalseFailure, TypeInv, LedgerInv, DocumentInv, NEW r \in Runners, Writes(r)
  PROVE  OutcomesKept
<1>1. /\ TypeOK /\ ledger \in History /\ Unresolved(ledger) = Open(ledger)
      /\ EntriesSettled(mem[r]) /\ KnowsLedger(r) /\ WellKept(mem[r]) /\ KnowsDocument(r)
      /\ WellKept(ledger)
  BY OpenIsUnresolved DEF TypeInv, TypeOK, LedgerInv, Sound, DocumentInv
<1>2. ASSUME NEW id \in AttemptIds,
             \A j \in AttemptIds : j # id => ledger'.attempts[j] = ledger.attempts[j],
             ledger.attempts[id] = NoAttempt \/ id \in Open(ledger)
      PROVE  OutcomesKept
  BY <1>1, <1>2 DEF OutcomesKept, Unresolved
<1>3. CASE /\ pc[r] = "mark"
           /\ \E m \in Migrations, id \in AttemptIds :
                IsNext(r, m) /\ IsFresh(mem[r], id) /\ ledger' = MarkedDoc(r, m, id)
  <2>1. PICK m \in Migrations, id \in AttemptIds :
          IsNext(r, m) /\ IsFresh(mem[r], id) /\ ledger' = MarkedDoc(r, m, id)
    BY <1>3
  <2>2. mem[r] = ledger /\ PlanFits(r)
    BY <1>1, <1>3 DEF KnowsLedger, KnowsDocument
  <2>3. \A j \in AttemptIds : j # id => ledger'.attempts[j] = ledger.attempts[j]
    BY <1>1, <2>1, <2>2, MarkedKept
  <2>4. QED
    BY <1>2, <2>1, <2>2, <2>3 DEF IsFresh
<1>4. CASE Attempting(r) /\ ledger' = AppliedDoc(r)
  <2>1. att[r] \in AttemptIds /\ Attempted(r) \in Attempt
    BY <1>4 DEF TypeInv, KnowsAttempt, Attempting, Working
  <2>2. mem[r] = ledger /\ att[r] \in Open(ledger)
    BY <1>1, <1>4 DEF KnowsLedger
  <2>3. \A j \in AttemptIds : j # att[r] => ledger'.attempts[j] = ledger.attempts[j]
    BY <1>1, <1>4, <2>1, <2>2, AppliedLanded DEF Landed
  <2>4. QED
    BY <1>2, <2>1, <2>2, <2>3
<1>5. CASE pc[r] = "commit" /\ ~ Applying(r) /\ ledger' = mem[r]
  <2>1. CASE Resolving(r)
    <3>1. att[r] \in AttemptIds
      BY <2>1 DEF Resolving
    <3>2. ResolvedDoc(r) \in History
      BY <1>1, <2>1 DEF Resolving, TypeOK
    <3>3. \A j \in AttemptIds : j # att[r] => ledger'.attempts[j] = ledger.attempts[j]
      <4>1. Sound(ledger) /\ IsUnresolved(ledger, att[r]) /\ plan[r].mode \in Actions
        BY <2>1 DEF Resolving, LedgerInv
      <4>2. \A j \in AttemptIds : j # att[r] => ResolvedDoc(r).attempts[j] = ledger.attempts[j]
        BY <1>1, <3>1, <3>2, <4>1, ResolvedKept
      <4>3. QED
        BY <1>5, <2>1, <4>2 DEF Resolving
    <3>4. att[r] \in Open(ledger)
      BY <2>1, <3>1 DEF Resolving, IsUnresolved, Open
    <3>5. QED
      BY <1>2, <3>1, <3>3, <3>4
  <2>2. CASE Adopting(r)
    BY <2>2 DEF Adopting, OutcomesKept, EmptyHistory
  <2>3. QED
    BY <1>1, <1>5, <2>1, <2>2 DEF KnowsDocument
<1>6. CASE pc[r] = "catch" /\ SaveFailedState(r)
  <2>1. /\ att[r] \in AttemptIds /\ att[r] \in Open(mem[r]) /\ Attempted(r) \in Attempt
    BY <1>6, SavedKept
  <2>2. PICK base \in History :
          /\ base \in CatchBase(r)
          /\ base = mem[r] \/ (base = ledger /\ base = AppliedDoc(r) /\ Attempted(r).dir # "up")
          /\ \A j \in AttemptIds :
               ledger'.attempts[j] = IF j = att[r] THEN FailedAttempt(r) ELSE base.attempts[j]
    BY <1>6, SavedKept
  <2>3. ledger = mem[r] \/ ("done" \in CommitFaults /\ ledger = AppliedDoc(r))
    BY <1>1, <1>6 DEF KnowsDocument
  <2>4. base = ledger /\ ledger = mem[r]
    <3>1. CASE ledger = mem[r]
      BY <2>2, <3>1 DEF CatchBase
    <3>2. CASE "done" \in CommitFaults
      <4>1. ~ UnreadableHistory /\ Reversible = {}
        BY <3>2 DEF NoFalseFailure
      <4>2. base = ledger
        BY <2>2, <4>1 DEF CatchBase
      <4>3. Attempted(r) # NoAttempt
        BY <2>1 DEF Open, NoAttempt, Attempted
      <4>4. Declared(Attempted(r))
        BY <1>1, <2>1, <4>3 DEF WellKept, DownsDeclared, Attempted
      <4>5. Attempted(r).dir = "up"
        BY <2>1, <4>1, <4>4 DEF Declared, Attempt, Directions
      <4>6. QED
        BY <2>2, <4>2, <4>5
    <3>3. QED
      BY <2>3, <3>1, <3>2
  <2>5. \A j \in AttemptIds : j # att[r] => ledger'.attempts[j] = ledger.attempts[j]
    BY <2>2, <2>4
  <2>6. QED
    BY <1>2, <2>1, <2>4, <2>5
<1>7. QED
  BY <1>3, <1>4, <1>5, <1>6 DEF Writes

(* An attempt that has reached an outcome keeps it, whoever saves the whole
   document next: each writer saves the committed document with one attempt
   in doubt replaced.  The hypothesis is the durable evidence the catch block
   looks for (durablyApplied): a commit that is reported as failed although
   it took effect is only recognised by the applied entry of an up attempt. *)
THEOREM OutcomesStay == NoFalseFailure => (Spec => SettledStaysSettled)
<1> SUFFICES ASSUME NoFalseFailure PROVE Spec => SettledStaysSettled
  OBVIOUS
<1>1. TypeInv /\ LedgerInv /\ DocumentInv /\ [Next]_vars => [OutcomesKept]_ledger
  BY LedgerWriters, WritesKeepOutcomes
<1>2. QED
  BY <1>1, TypeInvariant, LedgerInvariant, DocumentInvariant, PTL
     DEF Spec, SettledStaysSettled, OutcomesKept

-------------------------------------------------------------------------------
(***************************************************************************)
(* The engine implements the abstract ledger.                              *)
(***************************************************************************)

(* A failed attempt is only saved as rolled back over the document it was
   recorded in: once a commit has been tried, its transaction is gone. *)
CatchClosed == \A r \in Runners : pc[r] = "catch" /\ ledger # mem[r] => ~ txn[r].open

LEMMA OwnState ==
  ASSUME TypeOK, NEW r \in Runners, Run(r) \/ Operate(r), NEW q \in Runners, q # r
  PROVE  pc'[q] = pc[q] /\ mem'[q] = mem[q] /\ txn'[q] = txn[q]
<1> USE DEF At, Goto, Forget, DropTxn, world, client, database, TypeOK
<1>1. CASE Operate(r)
  BY <1>1 DEF Operate, StartPlan, BuildPlan, Inspect, Attest, Connect, Lose
<1>2. CASE AcquireLock(r) \/ GiveUp(r) \/ VerifyPlan(r) \/ VerifyBaseline(r) \/ VerifyResolution(r) \/ Refuse(r)
  BY <1>2 DEF AcquireLock, GiveUp, VerifyPlan, VerifyBaseline, VerifyResolution, Refuse
<1>3. CASE Mark(r) \/ Begin(r) \/ Execute(r) \/ Fail(r) \/ Catch(r) \/ Close(r) \/ BackendEnds(r)
  BY <1>3 DEF Mark, Begin, Execute, Fail, Catch, Close, BackendEnds
<1>4. CASE Record(r) \/ Commit(r) \/ CommitRejected(r)
  BY <1>4 DEF Record, Commit, CommitRejected, Completed
<1>5. QED
  BY <1>1, <1>2, <1>3, <1>4 DEF Run

LEMMA ReachingCatch ==
  ASSUME TypeOK, NEW r \in Runners, Run(r) \/ Operate(r), pc'[r] = "catch"
  PROVE  \/ Fail(r) \/ CommitRejected(r)
         \/ pc[r] = "catch" /\ UNCHANGED <<ledger, mem, txn>>
<1> USE DEF At, Goto, Forget, DropTxn, world, client, database, TypeOK
<1>1. CASE Operate(r)
  BY <1>1 DEF Operate, StartPlan, BuildPlan, Inspect, Attest, Connect, Lose
<1>2. CASE AcquireLock(r) \/ GiveUp(r) \/ VerifyPlan(r) \/ VerifyBaseline(r) \/ VerifyResolution(r) \/ Refuse(r)
  BY <1>2 DEF AcquireLock, GiveUp, VerifyPlan, VerifyBaseline, VerifyResolution, Refuse
<1>3. CASE Mark(r) \/ Begin(r) \/ Execute(r) \/ Catch(r) \/ Close(r) \/ BackendEnds(r)
  BY <1>3 DEF Mark, Begin, Execute, Catch, Close, BackendEnds
<1>4. CASE Record(r) \/ Commit(r)
  BY <1>4 DEF Record, Commit, Completed
<1>5. QED
  BY <1>1, <1>2, <1>3, <1>4 DEF Run

LEMMA CatchClosedStep ==
  TypeInv /\ LedgerInv /\ DocumentInv /\ CatchClosed /\ [Next]_vars => CatchClosed'
<1> SUFFICES ASSUME TypeInv, LedgerInv, DocumentInv, CatchClosed, [Next]_vars,
                    NEW q \in Runners, pc'[q] = "catch", ledger' # mem'[q]
             PROVE  ~ txn'[q].open
  BY DEF CatchClosed
<1>a. TypeOK
  BY DEF TypeInv
<1>1. ASSUME NEW r \in Runners, Run(r) \/ Operate(r), q # r PROVE ~ txn'[q].open
  <2>1. pc'[q] = pc[q] /\ mem'[q] = mem[q] /\ txn'[q] = txn[q]
    BY <1>1, <1>a, OwnState
  <2>2. lock = q /\ pc[r] \notin Connected
    BY <1>1, <2>1 DEF LedgerInv, LockHeld, Connected
  <2>3. UNCHANGED ledger
    BY <1>1, <2>2, RunnerWrites, WritesKept
  <2>4. QED
    BY <2>1, <2>3 DEF CatchClosed
<1>2. ASSUME Run(q) \/ Operate(q) PROVE ~ txn'[q].open
  <2>1. CASE Fail(q)
    <3>1. Attempting(q) /\ UNCHANGED <<ledger, mem>>
      BY <2>1 DEF Fail, Attempting, database, client
    <3>2. ledger = mem[q]
      BY <3>1 DEF LedgerInv, KnowsLedger
    <3>3. QED
      BY <3>1, <3>2
  <2>2. CASE CommitRejected(q)
    BY <2>2, <1>a DEF CommitRejected, DropTxn, NoTxn, TypeOK
  <2>3. CASE pc[q] = "catch" /\ UNCHANGED <<ledger, mem, txn>>
    BY <2>3 DEF CatchClosed
  <2>4. QED
    BY <1>2, <1>a, <2>1, <2>2, <2>3, ReachingCatch
<1>3. CASE ManualDdl \/ Repair \/ EditFiles \/ UNCHANGED vars
  BY <1>3 DEF ManualDdl, Repair, EditFiles, database, client, vars, CatchClosed
<1>4. QED
  BY <1>1, <1>2, <1>3 DEF Next

LEMMA CatchClosedInvariant == Spec => []CatchClosed
<1>1. Init => CatchClosed
  BY DEF Init, CatchClosed
<1>2. QED
  BY <1>1, CatchClosedStep, TypeInvariant, LedgerInvariant, DocumentInvariant, PTL DEF Spec

\* What a document says of each migration.
InDoubt(h, m) == \E id \in Open(h) : h.attempts[id].mig = m
StatusOf(h) ==
  [m \in Migrations |->
     IF InDoubt(h, m) THEN "in doubt" ELSE IF m \in AppliedIds(h) THEN "applied" ELSE "pending"]

LEMMA StatusIs ==
  /\ EntriesSettled(ledger) => LedgerStatus = StatusOf(ledger)
  /\ EntriesSettled(ledger') => LedgerStatus' = StatusOf(ledger')
<1>1. ASSUME EntriesSettled(ledger) PROVE LedgerStatus = StatusOf(ledger)
  <2>1. Unresolved(ledger) = Open(ledger)
    BY <1>1, OpenIsUnresolved
  <2>2. QED
    BY <2>1 DEF LedgerStatus, StatusOf, InDoubt
<1>2. ASSUME EntriesSettled(ledger') PROVE LedgerStatus' = StatusOf(ledger')
  <2>1. Unresolved(ledger') = Open(ledger')
    BY <1>2, OpenIsUnresolved
  <2>2. QED
    BY <2>1 DEF LedgerStatus, StatusOf, InDoubt, Unresolved, IsUnresolved, HasEntryOf, AppliedIds, Open
<1>3. QED
  BY <1>1, <1>2

SameElsewhere(h, d, m) ==
  \A k \in Migrations : k # m => (k \in AppliedIds(h) <=> k \in AppliedIds(d))

(* An outcome comes into doubt only where none is, at the top of the ledger. *)
LEMMA DoubtStarts ==
  ASSUME LedgerStatus = StatusOf(ledger), LedgerStatus' = StatusOf(ledger'),
         ledger \in History, Open(ledger) = {},
         NEW id \in AttemptIds, Open(ledger') = {id},
         NEW m \in Migrations, ledger'.attempts[id].mig = m,
         SameElsewhere(ledger, ledger', m),
         \/ \A k \in AppliedIds(ledger) : k < m
         \/ m \in AppliedIds(ledger) /\ \A k \in AppliedIds(ledger) : k <= m
  PROVE  Ledger!StartUp(m) \/ Ledger!StartDown(m)
<1>1. \A k \in Migrations :
        LedgerStatus[k] = IF k \in AppliedIds(ledger) THEN "applied" ELSE "pending"
  BY DEF StatusOf, InDoubt
<1>2. Ledger!InDoubt = {} /\ Ledger!Applied = AppliedIds(ledger)
  BY <1>1, HistoryTypes DEF Ledger!InDoubt, Ledger!Applied, Ledger!Ids, Migrations
<1>3. LedgerStatus' = [LedgerStatus EXCEPT ![m] = "in doubt"]
  BY DEF StatusOf, InDoubt, SameElsewhere
<1>4. QED
  BY <1>2, <1>3 DEF Ledger!StartUp, Ledger!StartDown

(* The one outcome in doubt is settled, and nothing else changes. *)
LEMMA DoubtSettles ==
  ASSUME LedgerStatus = StatusOf(ledger), LedgerStatus' = StatusOf(ledger'),
         NEW id \in AttemptIds, Open(ledger) = {id}, Open(ledger') = {},
         NEW m \in Migrations, ledger.attempts[id].mig = m,
         SameElsewhere(ledger, ledger', m)
  PROVE  Ledger!Settle(m)
<1>1. LedgerStatus[m] = "in doubt"
  BY DEF StatusOf, InDoubt
<1>2. m \in Ledger!InDoubt
  BY <1>1 DEF Ledger!InDoubt, Ledger!Ids, Migrations
<1>3. LedgerStatus' =
        [LedgerStatus EXCEPT ![m] = IF m \in AppliedIds(ledger') THEN "applied" ELSE "pending"]
  BY DEF StatusOf, InDoubt, SameElsewhere
<1>4. QED
  BY <1>2, <1>3 DEF Ledger!Settle

(* A prefix is adopted where there is no history. *)
LEMMA PrefixAdopted ==
  ASSUME LedgerStatus = StatusOf(ledger), LedgerStatus' = StatusOf(ledger'),
         ledger = EmptyHistory, ledger' \in History, Open(ledger') = {}
  PROVE  \E S \in SUBSET Ledger!Ids : Ledger!Adopt(S)
<1>1. AppliedIds(ledger) = {} /\ Open(ledger) = {}
  BY EmptyLedger DEF EmptyHistory, AppliedIds
<1>2. \A k \in Migrations : LedgerStatus[k] = "pending"
  BY <1>1 DEF StatusOf, InDoubt
<1>3. Ledger!InDoubt = {} /\ Ledger!Applied = {}
  BY <1>2 DEF Ledger!InDoubt, Ledger!Applied, Ledger!Ids, Migrations
<1>4. LedgerStatus' = [m \in Migrations |-> IF m \in AppliedIds(ledger') THEN "applied" ELSE "pending"]
  BY DEF StatusOf, InDoubt
<1>5. Ledger!Adopt(AppliedIds(ledger')) /\ AppliedIds(ledger') \in SUBSET Ledger!Ids
  BY <1>3, <1>4, HistoryTypes DEF Ledger!Adopt, Ledger!Ids, Migrations
<1>6. QED
  BY <1>5

(* What each writer does to the abstract ledger. *)
LEMMA WritesImplement ==
  ASSUME TypeInv, LedgerInv, DocumentInv, CatchClosed, TypeInv', LedgerInv',
         NEW r \in Runners, Writes(r)
  PROVE  Ledger!Next \/ UNCHANGED LedgerStatus
<1>1. /\ TypeOK /\ ledger \in History /\ ledger' \in History
      /\ EntriesSettled(mem[r]) /\ KnowsLedger(r) /\ WellKept(mem[r]) /\ KnowsDocument(r)
      /\ WellKept(ledger) /\ Sound(ledger) /\ mem[r] \in History
  BY DEF TypeInv, TypeOK, LedgerInv, DocumentInv
<1>2. LedgerStatus = StatusOf(ledger) /\ LedgerStatus' = StatusOf(ledger')
  <2>1. EntriesSettled(ledger) /\ EntriesSettled(ledger')
    BY DEF LedgerInv, Sound, EntriesSettled
  <2>2. QED
    BY <2>1, StatusIs
<1>n. /\ \A m \in Migrations : Ledger!StartUp(m) \/ Ledger!StartDown(m) \/ Ledger!Settle(m) => Ledger!Next
      /\ (\E S \in SUBSET Ledger!Ids : Ledger!Adopt(S)) => Ledger!Next
  BY DEF Ledger!Next, Ledger!Ids, Migrations
<1>3. CASE /\ pc[r] = "mark"
           /\ \E m \in Migrations, id \in AttemptIds :
                IsNext(r, m) /\ IsFresh(mem[r], id) /\ ledger' = MarkedDoc(r, m, id)
  <2>1. PICK m \in Migrations, id \in AttemptIds :
          IsNext(r, m) /\ IsFresh(mem[r], id) /\ ledger' = MarkedDoc(r, m, id)
    BY <1>3
  <2>2. mem[r] = ledger /\ Open(ledger) = {} /\ PlanFits(r)
    BY <1>1, <1>3 DEF KnowsLedger, KnowsDocument
  <2>3. /\ AtTop(ledger, RunningAttempt(r, m))
        /\ ledger'.attempts[id] = RunningAttempt(r, m)
    BY <1>1, <2>1, <2>2, MarkedKept
  <2>4. Open(ledger') = {id}
    BY <1>1, <2>1, <2>2, MarkedLedger
  <2>5. AppliedIds(ledger') = AppliedIds(ledger)
    <3>1. MarkedDoc(r, m, id).applied = mem[r].applied
      BY <1>1, MarkedType
    <3>2. QED
      BY <2>1, <2>2, <3>1 DEF AppliedIds
  <2>6. RunningAttempt(r, m).mig = m /\ RunningAttempt(r, m).dir = plan[r].dir
    BY DEF RunningAttempt
  <2>7. plan[r].dir \in {"up", "down"}
    BY <1>1 DEF TypeOK, Plan, Directions
  <2>8. CASE plan[r].dir = "up"
    <3>1. \A k \in AppliedIds(ledger) : k < m
      BY <2>3, <2>6, <2>8 DEF AtTop
    <3>2. QED
      BY <1>1, <1>2, <1>n, <2>2, <2>3, <2>4, <2>5, <2>6, <3>1, DoubtStarts DEF SameElsewhere
  <2>9. CASE plan[r].dir = "down"
    <3>1. m \in AppliedIds(ledger) /\ \A k \in AppliedIds(ledger) : k <= m
      BY <2>1, <2>2, <2>3, <2>6, <2>9 DEF AtTop, PlanFits, IsNext
    <3>2. QED
      BY <1>1, <1>2, <1>n, <2>2, <2>3, <2>4, <2>5, <2>6, <3>1, DoubtStarts DEF SameElsewhere
  <2>10. QED
    BY <2>7, <2>8, <2>9
<1>4. ASSUME NEW id \in Open(ledger), NEW b \in Attempt,
             Landed(ledger, ledger', id, b) \/
               (/\ ledger'.applied = ledger.applied
                /\ \A j \in AttemptIds : ledger'.attempts[j] = IF j = id THEN b ELSE ledger.attempts[j]),
             b.state \notin {"running", "unknown"}
      PROVE  Ledger!Next
  <2>1. id \in AttemptIds /\ ledger.attempts[id] \in Attempt
    BY <1>1, HistoryTypes DEF Open
  <2>2. ledger.attempts[id].mig \in Migrations
    BY <2>1 DEF Attempt
  <2>3. Open(ledger) = {id}
    BY <1>1 DEF Sound, AtMostOne
  <2>4. Open(ledger') = {}
    <3>1. \A j \in AttemptIds : ledger'.attempts[j] = IF j = id THEN b ELSE ledger.attempts[j]
      BY <1>4 DEF Landed
    <3>2. QED
      BY <1>4, <2>3, <3>1 DEF Open
  <2>5. SameElsewhere(ledger, ledger', ledger.attempts[id].mig)
    <3>1. CASE Landed(ledger, ledger', id, b)
      BY <1>1, <1>4, <3>1, LandedIds DEF SameElsewhere
    <3>2. CASE ledger'.applied = ledger.applied
      BY <3>2 DEF SameElsewhere, AppliedIds
    <3>3. QED
      BY <1>4, <3>1, <3>2
  <2>6. QED
    BY <1>2, <1>n, <2>1, <2>2, <2>3, <2>4, <2>5, DoubtSettles
<1>5. CASE Attempting(r) /\ ledger' = AppliedDoc(r)
  <2>1. att[r] \in AttemptIds /\ Attempted(r) \in Attempt
    BY <1>5 DEF TypeInv, KnowsAttempt, Attempting, Working
  <2>2. mem[r] = ledger /\ att[r] \in Open(ledger)
    BY <1>1, <1>5 DEF KnowsLedger
  <2>3. /\ [Attempted(r) EXCEPT !.state = "applied"] \in Attempt
        /\ Landed(ledger, ledger', att[r], [Attempted(r) EXCEPT !.state = "applied"])
    BY <1>1, <1>5, <2>1, <2>2, AppliedLanded
  <2>4. [Attempted(r) EXCEPT !.state = "applied"].state = "applied"
    BY <2>1 DEF Attempt
  <2>5. QED
    BY <2>2, <2>3, <2>4, <1>4
<1>6. CASE pc[r] = "commit" /\ ~ Applying(r) /\ ledger' = mem[r]
  <2>1. CASE Resolving(r)
    <3> DEFINE a == ledger.attempts[att[r]]
               b == [a EXCEPT !.state = "resolved", !.resolution = plan[r].mode]
    <3>1. att[r] \in AttemptIds /\ ResolvedDoc(r) \in History /\ ledger' = ResolvedDoc(r)
      BY <1>1, <1>6, <2>1 DEF Resolving
    <3>2. att[r] \in Open(ledger)
      BY <2>1, <3>1 DEF Resolving, IsUnresolved, Open
    <3>3. /\ b \in Attempt /\ b.state = "resolved"
          /\ \A j \in AttemptIds : ledger'.attempts[j] = IF j = att[r] THEN b ELSE ledger.attempts[j]
          /\ Landed(ledger, ledger', att[r], b) \/ ledger'.applied = ledger.applied
      BY <1>1, <2>1, <3>1, ResolvedKept DEF Resolving
    <3> HIDE DEF b
    <3>4. QED
      BY <3>2, <3>3, <1>4
  <2>2. CASE Adopting(r)
    <3>1. ledger = EmptyHistory /\ Open(ledger') = {}
      BY <1>6, <2>2 DEF Adopting
    <3>2. QED
      BY <1>1, <1>2, <1>n, <3>1, PrefixAdopted
  <2>3. QED
    BY <1>1, <1>6, <2>1, <2>2 DEF KnowsDocument
<1>7. CASE pc[r] = "catch" /\ SaveFailedState(r)
  <2> DEFINE a == Attempted(r)
             b == FailedAttempt(r)
  <2>1. /\ att[r] \in AttemptIds /\ att[r] \in Open(mem[r]) /\ a \in Attempt /\ b \in Attempt
        /\ b.mig = a.mig /\ b.dir = a.dir /\ b.state \in {"rolled-back", "unknown"}
    BY <1>7, SavedKept
  <2>2. PICK base \in History :
          /\ base \in CatchBase(r)
          /\ base = mem[r] \/ (base = ledger /\ base = AppliedDoc(r) /\ a.dir # "up")
          /\ AtTop(base, b)
          /\ ledger'.applied = base.applied
          /\ \A j \in AttemptIds : ledger'.attempts[j] = IF j = att[r] THEN b ELSE base.attempts[j]
    BY <1>7, SavedKept
  <2>3. Open(mem[r]) = {att[r]}
    BY <1>1, <1>7 DEF KnowsLedger
  <2>4. a = mem[r].attempts[att[r]]
    BY DEF Attempted
  <2>5. AtTop(mem[r], a)
    BY <1>1, <2>3, <2>4 DEF WellKept, OpenAtTop
  <2>6. a.mig \in Migrations /\ a.dir \in {"up", "down"}
    BY <2>1 DEF Attempt, Directions
  <2>7. b.state = "rolled-back" => txn[r].open
    BY <2>1 DEF FailedAttempt, FailedState, Attempt
  <2> HIDE DEF a, b
  <2>8. CASE ledger = mem[r]
    <3>1. base = ledger
      BY <2>2, <2>8 DEF CatchBase
    <3>2. CASE b.state = "rolled-back"
      BY <1>4, <2>1, <2>2, <2>8, <3>1, <3>2
    <3>3. CASE b.state = "unknown"
      <4>1. Open(ledger') = {att[r]}
        BY <2>1, <2>2, <2>3, <2>8, <3>1, <3>3 DEF Open
      <4>2. \A m \in Migrations : InDoubt(ledger', m) <=> InDoubt(ledger, m)
        BY <2>1, <2>2, <2>3, <2>4, <2>8, <4>1 DEF InDoubt
      <4>3. AppliedIds(ledger') = AppliedIds(ledger)
        BY <2>2, <3>1 DEF AppliedIds
      <4>4. StatusOf(ledger') = StatusOf(ledger)
        BY <4>2, <4>3 DEF StatusOf
      <4>5. QED
        BY <1>2, <4>4
    <3>4. QED
      BY <2>1, <3>2, <3>3
  <2>9. CASE ledger # mem[r]
    <3>1. ledger = AppliedDoc(r) /\ b.state = "unknown"
      BY <1>1, <1>7, <2>1, <2>7, <2>9 DEF KnowsDocument, CatchClosed
    <3>2. Open(ledger) = {}
      BY <1>1, <2>1, <2>3, <3>1, AppliedLedger DEF a
    <3>3. \A j \in AttemptIds : j # att[r] => base.attempts[j].state \notin {"running", "unknown"}
      <4>1. CASE base = mem[r]
        BY <2>3, <4>1 DEF Open
      <4>2. CASE base = ledger
        BY <3>2, <4>2 DEF Open
      <4>3. QED
        BY <2>2, <4>1, <4>2
    <3>4. Open(ledger') = {att[r]} /\ ledger'.attempts[att[r]].mig = a.mig
      BY <2>1, <2>2, <3>1, <3>3 DEF Open
    <3>5. AppliedIds(ledger) =
            IF a.dir = "up" THEN AppliedIds(mem[r]) \cup {a.mig} ELSE AppliedIds(mem[r]) \ {a.mig}
      <4>1. /\ [a EXCEPT !.state = "applied"] \in Attempt
            /\ Landed(mem[r], ledger, att[r], [a EXCEPT !.state = "applied"])
        BY <1>1, <2>1, <3>1, AppliedLanded DEF a
      <4>2. QED
        BY <1>1, <2>1, <2>4, <4>1, LandedIds
    <3>6. SameElsewhere(ledger, ledger', a.mig)
      <4>1. AppliedIds(ledger') = AppliedIds(mem[r]) \/ AppliedIds(ledger') = AppliedIds(ledger)
        BY <2>2 DEF AppliedIds
      <4>2. QED
        BY <3>5, <4>1 DEF SameElsewhere
    <3>7. \/ \A k \in AppliedIds(ledger) : k < a.mig
          \/ a.mig \in AppliedIds(ledger) /\ \A k \in AppliedIds(ledger) : k <= a.mig
      <4>1. AppliedIds(mem[r]) \subseteq Int /\ a.mig \in Int
        BY <1>1, <2>6, HistoryTypes DEF Migrations
      <4>2. CASE a.dir = "up"
        BY <2>5, <3>5, <4>1, <4>2 DEF AtTop
      <4>3. CASE a.dir # "up"
        BY <2>5, <3>5, <4>1, <4>3 DEF AtTop
      <4>4. QED
        BY <4>2, <4>3
    <3>8. QED
      BY <1>1, <1>2, <1>n, <2>1, <2>6, <3>2, <3>4, <3>6, <3>7, DoubtStarts
  <2>10. QED
    BY <2>8, <2>9
<1>8. QED
  BY <1>3, <1>5, <1>6, <1>7 DEF Writes

(* The engine implements the abstract ledger, without a hypothesis: every
   write of every runner, of a lost session's backend and of every catch
   block - also over a commit wrongly reported as failed or with an
   unreadable history - brings one migration into doubt at the top of the
   ledger, settles the one in doubt, or adopts a prefix. *)
THEOREM LedgerImplemented == Spec => ImplementsLedger
<1>1. Init => Ledger!Init
  <2>1. Init => LedgerStatus = [m \in Migrations |-> "pending"]
    <3> SUFFICES ASSUME Init PROVE LedgerStatus = [m \in Migrations |-> "pending"]
      OBVIOUS
    <3>1. ledger = EmptyHistory /\ EntriesSettled(ledger) /\ Open(ledger) = {}
      BY EmptyLedger DEF Init
    <3>2. AppliedIds(ledger) = {} /\ LedgerStatus = StatusOf(ledger)
      BY <3>1, StatusIs DEF EmptyHistory, AppliedIds
    <3>3. QED
      BY <3>1, <3>2 DEF StatusOf, InDoubt
  <2>2. QED
    BY <2>1 DEF Ledger!Init, Ledger!Ids, Migrations
<1>2. /\ TypeInv /\ LedgerInv /\ DocumentInv /\ CatchClosed /\ TypeInv' /\ LedgerInv' /\ [Next]_vars
      => [Ledger!Next]_LedgerStatus
  <2>1. UNCHANGED ledger => UNCHANGED LedgerStatus
    BY DEF LedgerStatus, Unresolved, IsUnresolved, HasEntryOf, AppliedIds
  <2>2. QED
    BY <2>1, LedgerWriters, WritesImplement
<1>3. QED
  BY <1>1, <1>2, TypeInvariant, LedgerInvariant, DocumentInvariant, CatchClosedInvariant, PTL
     DEF Spec, ImplementsLedger, Ledger!Spec
===============================================================================
