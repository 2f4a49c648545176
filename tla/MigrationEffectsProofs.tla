------------------------- MODULE MigrationEffectsProofs -------------------------
(***************************************************************************)
(* Theorems about MigrationRunner: the ledger tells the truth about the    *)
(* database.  What a migration has put in place, who has executed which    *)
(* statement, and what an operator has seen, kept together with what the   *)
(* history document says (MigrationRunnerProofs).  Then the catalogs the   *)
(* document keeps: the recorded head is the live schema, and an outcome in *)
(* doubt can always be confirmed.                                          *)
(***************************************************************************)
EXTENDS MigrationRunnerProofs

(***************************************************************************)
(* The inductive invariant: where each effect stands.                      *)
(***************************************************************************)

\* No commit of a down is reported as failed although it took effect.
NoFalseDown == "done" \notin CommitFaults \/ Reversible = {}

\* An operator who looks while a session is at work relies on the catalog alone.
CatalogTells == InspectWhileLocked => DataOnly = {}

Present(h, e) == IF e[1] \in AppliedIds(h) THEN 1 ELSE 0

\* The effects nobody made or removed by hand.
Untouched == Effects \ touched

Counted == \A e \in Untouched : rows[e] \in {0, 1}

\* Where the document has no doubt about a migration, it says where its effects are.
TruthOf(h) == \A e \in Untouched : ~ InDoubt(h, e[1]) => rows[e] = Present(h, e)

\* A migration whose down is in doubt is still an applied one.
DownsApplied(h) ==
  \A i \in Open(h) : h.attempts[i].dir = "down" => h.attempts[i].mig \in AppliedIds(h)

\* Where the attempt's effects were before it, and what it has executed since.
Before(r) == IF Attempted(r).dir = "up" THEN 0 ELSE 1
Executed(r, e) ==
  /\ plan[r].mode = "apply" /\ pc[r] \in {"exec", "record", "commit"}
  /\ e[1] = Attempted(r).mig
  /\ IF Attempted(r).dir = "up" THEN e[2] < step[r]
     ELSE e[2] > Statements[Attempted(r).mig] - step[r] + 1
Changed(r, e) == IF Executed(r, e) THEN Change(r) ELSE 0

StillBefore(r) == \A e \in Untouched : e[1] = Attempted(r).mig => rows[e] = Before(r)

\* What was executed is in the open transaction or, without one, in place.
AttemptEffects(r) ==
  IF txn[r].open
  THEN StillBefore(r) /\ \A e \in Effects : txn[r].delta[e] = Changed(r, e)
  ELSE \A e \in Untouched : e[1] = Attempted(r).mig => rows[e] = Before(r) + Changed(r, e)

AttemptStep(r) ==
  LET count == Statements[Attempted(r).mig]
  IN  /\ pc[r] = "exec" => plan[r].mode = "apply" /\ step[r] \in 1..count
      /\ pc[r] \in {"record", "commit"} /\ plan[r].mode = "apply" => step[r] = count + 1
      /\ pc[r] = "commit" => txn[r].open

\* What a plan reconciles was made by hand.
MadeByHand(r) ==
  plan[r].mode = "reconcile" => \A e \in Effects : e[1] \in plan[r].todo => e \in touched

WorkEffects(r) ==
  /\ ~ txn[r].open => txn[r] = NoTxn
  /\ txn[r].open => pc[r] \in {"exec", "record", "commit", "catch"}
  /\ pc[r] \in {"mark", "begin", "record", "commit"} => MadeByHand(r)
  /\ Attempting(r) => AttemptEffects(r) /\ AttemptStep(r)
  /\ pc[r] = "catch" /\ txn[r].open => StillBefore(r)
  /\ pc[r] = "commit" /\ ~ Applying(r) =>
       (\A t \in Tokens : txn[r].delta[t] = 0) /\ TruthOf(mem[r])

\* A target is adopted with up migrations of the inventory.
AdoptsForwards(r) ==
  (pc[r] \in {"planning", "planned", "locking", "verify"} /\ plan[r].mode \in {"reconcile", "baseline"})
    => /\ plan[r].dir = "up"
       /\ pc[r] # "planning" => \A m \in plan[r].todo : plan[r].inv[m] # 0

\* The attempt the operator looks at is nobody's at work.
Abandoned(r) ==
  /\ ledger.attempts[att[r]] # NoAttempt
  /\ \A q \in Runners : Attempting(q) \/ pc[q] = "catch" => att[q] # att[r]

\* What the operator attested is still so: of the schema, what the evidence
\* says; of the data, until somebody has settled the attempt.
Attested(r) ==
  LET a == mem[r].attempts[att[r]]
      there == (plan[r].mode = "confirm-applied") = (a.dir = "up")
  IN  /\ \A e \in Effects \ DataOnly : e[1] = a.mig => (e \in plan[r].catalog <=> there)
      /\ \A e \in DataOnly : e[1] = a.mig =>
           /\ Abandoned(r)
           /\ att[r] \in Open(ledger) => rows[e] = IF there THEN 1 ELSE 0

OperatorSees(r) ==
  /\ pc[r] = "inspecting" =>
       mem[r].attempts[att[r]] \in Attempt /\ ledger.attempts[att[r]] # NoAttempt
  /\ pc[r] \in {"planned", "locking", "verify"} /\ plan[r].mode \in Actions => Attested(r)

Session(r) == WorkEffects(r) /\ AdoptsForwards(r) /\ OperatorSees(r)

EffectsTrue == Counted /\ TruthOf(ledger) /\ DownsApplied(ledger)

EffectsInv == EffectsTrue /\ \A r \in Runners : Session(r)

-------------------------------------------------------------------------------
(***************************************************************************)
(* Tokens and statements.                                                  *)
(***************************************************************************)
LEMMA EffectShape ==
  /\ \A e \in Effects : /\ e \in Tokens /\ e[1] \in Migrations /\ e[2] \in 1..Statements[e[1]]
                        /\ e = <<e[1], e[2]>>
  /\ \A m \in Migrations : \A i \in 1..Statements[m] : <<m, i>> \in Effects
  /\ DataOnly \subseteq Effects
  /\ \A e \in DataOnly : e \notin Objects
  /\ \A e \in Effects \ DataOnly : e \in Objects
  /\ Objects \subseteq Tokens
  /\ \A m \in Migrations : Statements[m] \in Nat \ {0}
<1>1. \A m \in Migrations : Statements[m] \in Nat \ {0}
  BY ConstantsAssumption
<1>2. \A e \in Effects : \E m \in Migrations : \E i \in 1..Statements[m] : e = <<m, i>>
  <2> SUFFICES ASSUME NEW e \in Effects
               PROVE  \E m \in Migrations : \E i \in 1..Statements[m] : e = <<m, i>>
    OBVIOUS
  <2>1. PICK m \in Migrations : e \in {<<m, i>> : i \in 1..Statements[m]}
    BY Zenon DEF Effects
  <2> QED
    BY <2>1
<1>3. \A m \in Migrations : \A i \in 1..Statements[m] : <<m, i>> \in Effects
  BY DEF Effects
<1>4. Foreign \notin Effects
  <2> SUFFICES ASSUME NEW m \in Migrations, NEW i \in 1..Statements[m], Foreign = <<m, i>>
               PROVE  FALSE
    BY <1>2
  <2> QED
    BY ConstantsAssumption DEF Foreign, Migrations
<1>5. \A e \in Effects : e[1] \in Migrations /\ e[2] \in 1..Statements[e[1]] /\ e = <<e[1], e[2]>>
  BY <1>2
<1>6. QED
  BY <1>1, <1>3, <1>4, <1>5, ConstantsAssumption DEF Tokens, Objects

\* A statement is executed once; it is the next one of its attempt.
LEMMA TargetShape ==
  ASSUME TypeInv, NEW r \in Runners, pc[r] = "exec", AttemptStep(r)
  PROVE  /\ Attempted(r).mig \in Migrations /\ Target(r) \in Effects
         /\ Target(r)[1] = Attempted(r).mig
         /\ ~ Executed(r, Target(r))
         /\ Change(r) \in {1, -1} /\ Before(r) \in {0, 1} /\ Before(r) + Change(r) \in {0, 1}
<1> DEFINE own == Attempted(r).mig
           count == Statements[own]
<1>1. Attempted(r) \in Attempt
  BY DEF TypeInv, KnowsAttempt, Working
<1>2. own \in Migrations /\ Attempted(r).dir \in {"up", "down"}
  BY <1>1 DEF Attempt, Directions
<1>3. count \in Nat \ {0} /\ step[r] \in 1..count
  BY <1>2, EffectShape DEF AttemptStep
<1>4. /\ Target(r)[1] = own
      /\ Target(r)[2] = IF Attempted(r).dir = "up" THEN step[r] ELSE count - step[r] + 1
      /\ Target(r) = <<own, Target(r)[2]>>
  BY DEF Target
<1>5. Target(r)[2] \in 1..count
  BY <1>3, <1>4
<1>6. Target(r) \in Effects
  BY <1>2, <1>4, <1>5, EffectShape
<1>7. ~ Executed(r, Target(r))
  BY <1>3, <1>4 DEF Executed
<1>8. QED
  BY <1>2, <1>4, <1>6, <1>7 DEF Change, Before

\* When all statements of an attempt are executed, its effects are turned.
LEMMA AllExecuted ==
  ASSUME TypeInv, NEW r \in Runners, Attempting(r), AttemptStep(r), plan[r].mode = "apply",
         pc[r] \in {"record", "commit"},
         NEW e \in Effects
  PROVE  Changed(r, e) = IF e[1] = Attempted(r).mig THEN Change(r) ELSE 0
<1>1. Attempted(r) \in Attempt
  BY DEF TypeInv, KnowsAttempt, Working, Attempting
<1>2. Attempted(r).mig \in Migrations /\ Attempted(r).dir \in {"up", "down"}
  BY <1>1 DEF Attempt, Directions
<1>3. /\ Statements[Attempted(r).mig] \in Nat \ {0}
      /\ step[r] = Statements[Attempted(r).mig] + 1
      /\ e[2] \in 1..Statements[e[1]]
  BY <1>2, EffectShape DEF AttemptStep
<1>4. Executed(r, e) <=> e[1] = Attempted(r).mig
  BY <1>3 DEF Executed
<1>5. QED
  BY <1>4 DEF Changed

(***************************************************************************)
(* What a session can do to the effects and to the document: five moves.   *)
(***************************************************************************)
Known == TypeInv /\ LedgerInv /\ DocumentInv /\ CatchClosed

Marks(r) ==
  /\ pc[r] = "mark"
  /\ \E m \in Migrations, id \in AttemptIds :
       IsNext(r, m) /\ IsFresh(mem[r], id) /\ ledger' = MarkedDoc(r, m, id)
  /\ UNCHANGED <<rows, touched>>
Executes(r) ==
  /\ pc[r] = "exec" /\ ~ txn[r].open
  /\ rows' = [rows EXCEPT ![Target(r)] = @ + Change(r)]
  /\ UNCHANGED <<ledger, touched>>
Lands(r) ==
  /\ Attempting(r)
  /\ \/ pc[r] = "record" /\ ~ txn[r].open /\ OutcomeAsPlanned(r) /\ UNCHANGED rows
     \/ pc[r] = "commit" /\ rows' = Seen(r)
  /\ ledger' = AppliedDoc(r) /\ UNCHANGED touched
Saves(r) ==
  /\ pc[r] = "commit" /\ ~ Applying(r)
  /\ rows' = Seen(r) /\ ledger' = mem[r] /\ UNCHANGED touched
SavesFailure(r) ==
  pc[r] = "catch" /\ SaveFailedState(r) /\ UNCHANGED <<rows, touched>>

Moves(r) == Marks(r) \/ Executes(r) \/ Lands(r) \/ Saves(r) \/ SavesFailure(r)

LEMMA LandingMoves ==
  ASSUME NEW r \in Runners, pc[r] = "commit", CommitLands(r), UNCHANGED touched
  PROVE  Moves(r)
  BY DEF CommitLands, PendingDoc, Moves, Lands, Saves, Attempting

LEMMA SessionMoves ==
  ASSUME NEW r \in Runners, Run(r) \/ Operate(r)
  PROVE  UNCHANGED <<rows, ledger, touched>> \/ Moves(r)
<1>1. CASE Mark(r)
  BY <1>1 DEF Mark, Moves, Marks, At, world
<1>2. CASE Execute(r)
  BY <1>2 DEF Execute, Moves, Executes, At, world
<1>3. CASE Record(r)
  BY <1>3 DEF Record, Moves, Lands, Attempting, At, world
<1>4. CASE Commit(r)
  <2>1. pc[r] = "commit" /\ CommitLands(r) /\ UNCHANGED touched
    BY <1>4 DEF Commit, At, world
  <2>2. QED
    BY <2>1, LandingMoves
<1>5. CASE CommitRejected(r)
  <2>1. pc[r] = "commit" /\ (UNCHANGED database \/ CommitLands(r)) /\ UNCHANGED touched
    BY <1>5 DEF CommitRejected, At, world
  <2>2. QED
    BY <2>1, LandingMoves DEF database
<1>6. CASE Catch(r)
  BY <1>6 DEF Catch, Moves, SavesFailure, At, world
<1>7. CASE BackendEnds(r)
  <2>1. UNCHANGED touched /\ (InFlightLands(r) \/ UNCHANGED database)
    BY <1>7 DEF BackendEnds, world
  <2>2. CASE pc[r] = "commit" /\ CommitLands(r)
    BY <2>1, <2>2, LandingMoves
  <2>3. CASE InFlightLands(r) /\ ~ (pc[r] = "commit" /\ CommitLands(r))
    BY <2>1, <2>3 DEF InFlightLands, Moves, Marks, Executes, Lands, SavesFailure, Attempting
  <2>4. QED
    BY <2>1, <2>2, <2>3 DEF database
<1>8. CASE \/ AcquireLock(r) \/ GiveUp(r) \/ VerifyPlan(r) \/ VerifyBaseline(r) \/ VerifyResolution(r)
           \/ Refuse(r) \/ Begin(r) \/ Fail(r) \/ Close(r)
  BY <1>8 DEF AcquireLock, GiveUp, VerifyPlan, VerifyBaseline, VerifyResolution, Refuse, Begin, Fail,
     Close, database, world
<1>9. CASE Operate(r)
  BY <1>9 DEF Operate, StartPlan, BuildPlan, Inspect, Attest, Connect, Lose, database, world
<1>10. QED
  BY <1>1, <1>2, <1>3, <1>4, <1>5, <1>6, <1>7, <1>8, <1>9 DEF Run

LEMMA MovesWrite ==
  ASSUME NEW r \in Runners, Moves(r)
  PROVE  (Executes(r) /\ UNCHANGED ledger) \/ Writes(r)
  BY DEF Moves, Marks, Executes, Lands, Saves, SavesFailure, Writes

LEMMA MovesConnected ==
  ASSUME Known, NEW r \in Runners, Moves(r)
  PROVE  /\ pc[r] \in Connected /\ lock = r
         /\ \A q \in Runners : q # r => pc[q] \notin Connected /\ ~ Attempting(q)
<1>1. pc[r] \in Connected
  BY DEF Moves, Marks, Executes, Lands, Saves, SavesFailure, Connected, Attempting
<1>2. QED
  BY <1>1 DEF Known, LedgerInv, LockHeld, Attempting, Connected

(***************************************************************************)
(* After each move the document is true of the effects.                    *)
(***************************************************************************)
LEMMA AttemptTypes ==
  ASSUME Known, NEW r \in Runners, Attempting(r) \/ pc[r] = "catch"
  PROVE  /\ att[r] \in AttemptIds /\ Attempted(r) \in Attempt
         /\ Attempted(r).mig \in Migrations /\ Attempted(r).dir \in {"up", "down"}
         /\ mem[r] \in History /\ ledger \in History
         /\ Open(mem[r]) = {att[r]} /\ WellKept(mem[r]) /\ EntriesSettled(mem[r])
         /\ Change(r) \in {1, -1} /\ Before(r) \in {0, 1} /\ Before(r) + Change(r) \in {0, 1}
         /\ Before(r) + Change(r) = IF Attempted(r).dir = "up" THEN 1 ELSE 0
         /\ Attempting(r) => ledger = mem[r]
         /\ \A e \in Tokens : rows[e] \in Int /\ txn[r].delta[e] \in Int
<1>1. att[r] \in AttemptIds /\ Attempted(r) \in Attempt
  BY DEF Known, TypeInv, KnowsAttempt, Working, Attempting
<1>2. Attempted(r).mig \in Migrations /\ Attempted(r).dir \in {"up", "down"}
  BY <1>1 DEF Attempt, Directions
<1>3. Open(mem[r]) = {att[r]} /\ (Attempting(r) => ledger = mem[r]) /\ EntriesSettled(mem[r])
  BY DEF Known, LedgerInv, KnowsLedger
<1>4. mem[r] \in History /\ WellKept(mem[r]) /\ ledger \in History
  BY DEF Known, TypeInv, TypeOK, DocumentInv
<1>5. \A e \in Tokens : rows[e] \in Int /\ txn[r].delta[e] \in Int
  BY DEF Known, TypeInv, TypeOK, Txn
<1>6. QED
  BY <1>1, <1>2, <1>3, <1>4, <1>5 DEF Change, Before

\* The migration of the attempt is applied exactly if it is being undone.
LEMMA BeforeIsPresent ==
  ASSUME Known, NEW r \in Runners, Attempting(r) \/ pc[r] = "catch", DownsApplied(mem[r]),
         NEW e \in Effects, e[1] = Attempted(r).mig
  PROVE  Present(mem[r], e) = Before(r)
<1>1. AtTop(mem[r], Attempted(r))
  BY AttemptTypes DEF WellKept, OpenAtTop, Attempted
<1>2. AppliedIds(mem[r]) \subseteq Migrations
  BY AttemptTypes, HistoryTypes
<1>3. CASE Attempted(r).dir = "up"
  <2>1. Attempted(r).mig \notin AppliedIds(mem[r])
    BY <1>1, <1>2, <1>3, AttemptTypes, ConstantsAssumption DEF AtTop, Migrations
  <2>2. QED
    BY <1>3, <2>1 DEF Present, Before
<1>4. CASE Attempted(r).dir # "up"
  <2>1. Attempted(r).dir = "down" /\ att[r] \in Open(mem[r])
    BY <1>4, AttemptTypes
  <2>2. QED
    BY <1>4, <2>1 DEF DownsApplied, Present, Before, Attempted
<1>5. QED
  BY <1>3, <1>4

LEMMA MarkedTruth ==
  ASSUME Known, EffectsTrue, NEW r \in Runners, Marks(r)
  PROVE  EffectsTrue'
<1>1. PICK m \in Migrations, id \in AttemptIds :
        IsNext(r, m) /\ IsFresh(mem[r], id) /\ ledger' = MarkedDoc(r, m, id)
  BY DEF Marks
<1>2. mem[r] = ledger /\ Open(ledger) = {} /\ PlanFits(r) /\ EntriesSettled(mem[r]) /\ WellKept(mem[r])
  BY DEF Marks, Known, LedgerInv, KnowsLedger, DocumentInv, KnowsDocument
<1>3. TypeOK
  BY DEF Known, TypeInv
<1>4. Open(ledger') = {id} /\ ledger'.applied = ledger.applied
      /\ ledger'.attempts[id] = RunningAttempt(r, m)
  <2>1. Open(ledger') = {id}
    BY <1>1, <1>2, <1>3, MarkedLedger
  <2>2. /\ MarkedDoc(r, m, id).applied = mem[r].applied
        /\ MarkedDoc(r, m, id).attempts = [mem[r].attempts EXCEPT ![id] = RunningAttempt(r, m)]
    BY <1>1, <1>3, MarkedType
  <2>3. mem[r].attempts \in [AttemptIds -> Attempt \cup {NoAttempt}]
    BY <1>3 DEF TypeOK, History
  <2>4. QED
    BY <1>1, <1>2, <2>1, <2>2, <2>3
<1>5. AppliedIds(ledger') = AppliedIds(ledger) /\ rows' = rows /\ touched' = touched
  BY <1>4 DEF AppliedIds, Marks
<1>6. Counted'
  BY <1>5 DEF EffectsTrue, Counted, Untouched
<1>7. TruthOf(ledger)'
  BY <1>2, <1>5 DEF EffectsTrue, TruthOf, Untouched, InDoubt, Present
<1>8. DownsApplied(ledger)'
  <2>1. RunningAttempt(r, m).dir = plan[r].dir /\ RunningAttempt(r, m).mig = m
    BY DEF RunningAttempt
  <2>2. plan[r].dir = "down" => m \in AppliedIds(ledger)
    BY <1>1, <1>2 DEF IsNext, PlanFits
  <2>3. QED
    BY <1>4, <1>5, <2>1, <2>2 DEF DownsApplied
<1>9. QED
  BY <1>6, <1>7, <1>8 DEF EffectsTrue

LEMMA ExecutedTruth ==
  ASSUME Known, EffectsTrue, NEW r \in Runners, WorkEffects(r), Executes(r)
  PROVE  EffectsTrue'
<1>1. Attempting(r) /\ ~ txn[r].open /\ pc[r] = "exec"
  BY DEF Executes, Attempting
<1>2. AttemptEffects(r) /\ AttemptStep(r)
  BY <1>1 DEF WorkEffects
<1>3. /\ Target(r) \in Effects /\ Target(r)[1] = Attempted(r).mig /\ ~ Executed(r, Target(r))
      /\ Change(r) \in {1, -1} /\ Before(r) \in {0, 1} /\ Before(r) + Change(r) \in {0, 1}
  BY <1>1, <1>2, TargetShape DEF Known
<1>4. /\ rows' = [rows EXCEPT ![Target(r)] = rows[Target(r)] + Change(r)]
      /\ ledger' = ledger /\ touched' = touched
  BY DEF Executes
<1>5. rows \in [Tokens -> Int] /\ Target(r) \in Tokens /\ \A e \in Effects : e \in Tokens
  BY <1>3, EffectShape DEF Known, TypeInv, TypeOK
<1>6. \A e \in Effects : e # Target(r) => rows'[e] = rows[e]
  BY <1>4, <1>5
<1>7. Target(r) \in Untouched => rows'[Target(r)] \in {0, 1}
  <2>1. rows'[Target(r)] = rows[Target(r)] + Change(r)
    BY <1>4, <1>5
  <2>2. ASSUME Target(r) \in Untouched PROVE rows[Target(r)] = Before(r)
    BY <1>1, <1>2, <1>3, <2>2 DEF AttemptEffects, Changed
  <2>3. QED
    BY <1>3, <2>1, <2>2
<1>8. Counted'
  BY <1>4, <1>6, <1>7 DEF EffectsTrue, Counted, Untouched
<1>9. InDoubt(ledger, Attempted(r).mig)
  BY <1>1, AttemptTypes DEF InDoubt, Attempted
<1>10. TruthOf(ledger)'
  BY <1>3, <1>4, <1>6, <1>9 DEF EffectsTrue, TruthOf, Untouched, Present
<1>11. DownsApplied(ledger)'
  BY <1>4 DEF EffectsTrue, DownsApplied
<1>12. QED
  BY <1>8, <1>10, <1>11 DEF EffectsTrue

\* What is in place when an attempt's outcome is recorded.
LEMMA LandedRows ==
  ASSUME Known, NEW r \in Runners, WorkEffects(r), Lands(r), NEW e \in Untouched
  PROVE  rows'[e] = IF e[1] = Attempted(r).mig THEN Before(r) + Change(r) ELSE rows[e]
<1>1. Attempting(r) /\ AttemptEffects(r) /\ AttemptStep(r) /\ pc[r] \in {"record", "commit"}
  BY DEF Lands, WorkEffects
<1>2. AttemptFits(r) /\ MadeByHand(r)
  BY <1>1 DEF Known, DocumentInv, KnowsDocument, WorkEffects
<1>3. e \in Effects /\ e \in Tokens /\ e \notin touched
  BY EffectShape DEF Untouched
<1>4. rows[e] \in Int /\ Change(r) \in {1, -1} /\ Before(r) \in {0, 1}
  BY <1>1, <1>3, AttemptTypes
<1>5. Changed(r, e) = IF e[1] = Attempted(r).mig THEN Change(r) ELSE 0
  <2>1. CASE plan[r].mode = "apply"
    BY <1>1, <1>3, <2>1, AllExecuted DEF Known
  <2>2. CASE plan[r].mode = "reconcile"
    <3>1. e[1] # Attempted(r).mig
      BY <1>2, <1>3, <2>2 DEF MadeByHand, AttemptFits, IsNext
    <3>2. QED
      BY <3>1 DEF Changed, Executed
  <2>3. QED
    BY <1>2, <2>1, <2>2 DEF AttemptFits, Applying
<1>6. CASE pc[r] = "record"
  <2>1. ~ txn[r].open /\ rows' = rows
    BY <1>6 DEF Lands
  <2>2. QED
    BY <1>1, <1>5, <2>1 DEF AttemptEffects
<1>7. CASE pc[r] = "commit"
  <2>1. rows'[e] = rows[e] + txn[r].delta[e]
    BY <1>3, <1>7 DEF Lands, Seen
  <2>2. txn[r].open
    BY <1>1, <1>7 DEF AttemptStep
  <2>3. txn[r].delta[e] = Changed(r, e) /\ (e[1] = Attempted(r).mig => rows[e] = Before(r))
    BY <1>1, <1>3, <2>2 DEF AttemptEffects, StillBefore
  <2>4. QED
    BY <1>4, <1>5, <2>1, <2>3
<1>8. QED
  BY <1>1, <1>6, <1>7

LEMMA LandedTruth ==
  ASSUME Known, EffectsTrue, NEW r \in Runners, WorkEffects(r), Lands(r)
  PROVE  EffectsTrue'
<1>1. Attempting(r) /\ ledger' = AppliedDoc(r) /\ touched' = touched
  BY DEF Lands
<1>2. /\ att[r] \in AttemptIds /\ Attempted(r) \in Attempt /\ Attempted(r).dir \in {"up", "down"}
      /\ mem[r] \in History /\ Open(mem[r]) = {att[r]} /\ WellKept(mem[r]) /\ EntriesSettled(mem[r])
      /\ Before(r) + Change(r) = IF Attempted(r).dir = "up" THEN 1 ELSE 0
      /\ ledger = mem[r]
  BY <1>1, AttemptTypes
<1>3. AppliedIds(ledger') = IF Attempted(r).dir = "up" THEN AppliedIds(ledger) \cup {Attempted(r).mig}
                            ELSE AppliedIds(ledger) \ {Attempted(r).mig}
  <2>1. /\ [Attempted(r) EXCEPT !.state = "applied"] \in Attempt
        /\ Landed(mem[r], AppliedDoc(r), att[r], [Attempted(r) EXCEPT !.state = "applied"])
        /\ AppliedDoc(r) \in History
    BY <1>2, AppliedLanded DEF Known, TypeInv
  <2>2. att[r] \in Open(mem[r])
    BY <1>2
  <2>3. QED
    BY <1>1, <1>2, <2>1, <2>2, LandedIds DEF Attempted
<1>4. Open(ledger') = {}
  BY <1>1, <1>2, AppliedLedger DEF Known, TypeInv
<1>5. ASSUME NEW e \in Untouched PROVE rows'[e] = Present(ledger', e)
  <2>1. rows'[e] = IF e[1] = Attempted(r).mig THEN Before(r) + Change(r) ELSE rows[e]
    BY LandedRows
  <2>2. CASE e[1] = Attempted(r).mig
    BY <1>2, <1>3, <2>1, <2>2 DEF Present
  <2>3. CASE e[1] # Attempted(r).mig
    <3>1. ~ InDoubt(ledger, e[1])
      BY <1>2, <2>3 DEF InDoubt, Attempted
    <3>2. QED
      BY <1>3, <2>1, <2>3, <3>1 DEF EffectsTrue, TruthOf, Present
  <2>4. QED
    BY <2>2, <2>3
<1>6. TruthOf(ledger)' /\ Counted'
  BY <1>1, <1>5 DEF TruthOf, Counted, Untouched, Present
<1>7. QED
  BY <1>4, <1>6 DEF EffectsTrue, DownsApplied

LEMMA SavedTruth ==
  ASSUME Known, EffectsTrue, NEW r \in Runners, WorkEffects(r), Saves(r)
  PROVE  /\ EffectsTrue'
         /\ \A t \in Tokens : rows'[t] = rows[t]
<1>1. ledger' = mem[r] /\ touched' = touched /\ pc[r] = "commit" /\ ~ Applying(r)
  BY DEF Saves
<1>2. (\A t \in Tokens : txn[r].delta[t] = 0) /\ TruthOf(mem[r])
  BY <1>1 DEF WorkEffects
<1>3. \A t \in Tokens : rows'[t] = rows[t]
  <2>1. \A t \in Tokens : rows[t] \in Int /\ rows'[t] = rows[t] + txn[r].delta[t]
    BY DEF Saves, Seen, Known, TypeInv, TypeOK
  <2>2. QED
    BY <1>2, <2>1
<1>4. Counted' /\ TruthOf(ledger)'
  BY <1>1, <1>2, <1>3, EffectShape DEF EffectsTrue, Counted, TruthOf, Untouched, Present
<1>5. Open(mem[r]) = {}
  <2>1. CASE Resolving(r)
    <3>1. /\ att[r] \in AttemptIds /\ IsUnresolved(ledger, att[r]) /\ plan[r].mode \in Actions
          /\ mem[r] = ResolvedDoc(r) /\ ResolvedDoc(r) \in History
      BY <2>1 DEF Resolving, Known, TypeInv, TypeOK
    <3>2. Sound(ledger) /\ WellKept(ledger) /\ TypeOK
      BY DEF Known, LedgerInv, DocumentInv, TypeInv
    <3>3. PICK b \in Attempt :
            /\ b.state = "resolved"
            /\ \A j \in AttemptIds :
                 ResolvedDoc(r).attempts[j] = IF j = att[r] THEN b ELSE ledger.attempts[j]
      BY <3>1, <3>2, ResolvedKept
    <3>4. att[r] \in Open(ledger) /\ AtMostOne(Open(ledger))
      BY <3>1, <3>2 DEF IsUnresolved, Open, Sound
    <3>5. \A j \in AttemptIds : j # att[r] => j \notin Open(ledger)
      BY <3>4 DEF AtMostOne
    <3>6. QED
      BY <3>1, <3>3, <3>5 DEF Open
  <2>2. CASE Adopting(r)
    BY <2>2 DEF Adopting
  <2>3. QED
    BY <1>1, <2>1, <2>2 DEF Known, DocumentInv, KnowsDocument
<1>6. DownsApplied(ledger)'
  BY <1>1, <1>5 DEF DownsApplied
<1>7. QED
  BY <1>3, <1>4, <1>6 DEF EffectsTrue

\* Without a down wrongly reported as failed, the catch block of a down works
\* on the document its runner knows.
LEMMA DownsKnowTheLedger ==
  ASSUME Known, NoFalseDown, NEW r \in Runners, pc[r] = "catch", Attempted(r).dir # "up"
  PROVE  ledger = mem[r]
<1>1. ledger = mem[r] \/ ("done" \in CommitFaults /\ ledger = AppliedDoc(r))
  BY DEF Known, DocumentInv, KnowsDocument
<1>2. CASE Reversible = {}
  <2>1. att[r] \in AttemptIds /\ Attempted(r) \in Attempt /\ WellKept(mem[r])
        /\ Attempted(r).dir = "down"
    BY AttemptTypes
  <2>2. Attempted(r) # NoAttempt
    BY <2>1 DEF Attempt, NoAttempt, States
  <2>3. Attempted(r).mig \in Reversible
    BY <2>1, <2>2 DEF WellKept, DownsDeclared, Declared, Attempted
  <2>4. QED
    BY <1>2, <2>3
<1>3. QED
  BY <1>1, <1>2 DEF NoFalseDown

LEMMA FailureTruth ==
  ASSUME Known, NoFalseDown, EffectsTrue, NEW r \in Runners, WorkEffects(r), SavesFailure(r)
  PROVE  EffectsTrue'
<1>1. pc[r] = "catch" /\ SaveFailedState(r) /\ rows' = rows /\ touched' = touched
  BY DEF SavesFailure
<1>2. /\ att[r] \in AttemptIds /\ Attempted(r) \in Attempt /\ mem[r] \in History
      /\ Open(mem[r]) = {att[r]} /\ WellKept(mem[r]) /\ EntriesSettled(mem[r])
      /\ Attempted(r).dir \in {"up", "down"}
  BY <1>1, AttemptTypes
<1>3. PICK base \in History :
        /\ base \in CatchBase(r)
        /\ base = mem[r] \/ (base = ledger /\ base = AppliedDoc(r) /\ Attempted(r).dir # "up")
        /\ ledger'.applied = base.applied
        /\ \A j \in AttemptIds :
             ledger'.attempts[j] = IF j = att[r] THEN FailedAttempt(r) ELSE base.attempts[j]
  BY <1>1, SavedKept DEF Known
<1>4. /\ FailedAttempt(r).mig = Attempted(r).mig /\ FailedAttempt(r).dir = Attempted(r).dir
      /\ FailedAttempt(r).state = FailedState(r)
  BY <1>2 DEF FailedAttempt, Attempt
<1>5. base = mem[r] /\ (Attempted(r).dir # "up" => ledger = mem[r])
  BY <1>1, <1>3, DownsKnowTheLedger
<1>6. ledger = mem[r] \/ ledger = AppliedDoc(r)
  BY <1>1 DEF Known, DocumentInv, KnowsDocument
<1>7. \A e \in Effects : e[1] # Attempted(r).mig => Present(ledger, e) = Present(mem[r], e)
  <2>1. CASE ledger = AppliedDoc(r)
    <3>1. /\ [Attempted(r) EXCEPT !.state = "applied"] \in Attempt
          /\ Landed(mem[r], AppliedDoc(r), att[r], [Attempted(r) EXCEPT !.state = "applied"])
          /\ AppliedDoc(r) \in History
      BY <1>2, AppliedLanded DEF Known, TypeInv
    <3>2. AppliedIds(ledger) =
            IF Attempted(r).dir = "up" THEN AppliedIds(mem[r]) \cup {Attempted(r).mig}
            ELSE AppliedIds(mem[r]) \ {Attempted(r).mig}
      <4>1. att[r] \in Open(mem[r])
        BY <1>2
      <4>2. QED
        BY <1>2, <2>1, <3>1, <4>1, LandedIds DEF Attempted
    <3>3. QED
      BY <3>2 DEF Present
  <2>2. QED
    BY <1>6, <2>1
<1>8. ASSUME NEW e \in Effects, e[1] # Attempted(r).mig PROVE ~ InDoubt(ledger, e[1])
  <2>1. CASE ledger = mem[r]
    BY <1>2, <1>8, <2>1 DEF InDoubt, Attempted
  <2>2. CASE ledger = AppliedDoc(r)
    <3>1. Open(ledger) = {}
      BY <1>2, <2>2, AppliedLedger DEF Known, TypeInv
    <3>2. QED
      BY <3>1 DEF InDoubt
  <2>3. QED
    BY <1>6, <2>1, <2>2
<1>9. \A e \in Effects : Present(ledger', e) = Present(mem[r], e)
  BY <1>3, <1>5 DEF Present, AppliedIds
<1>10. ASSUME NEW e \in Untouched, ~ InDoubt(ledger', e[1]) PROVE rows[e] = Present(mem[r], e)
  <2>1. CASE e[1] # Attempted(r).mig
    BY <1>7, <1>8, <2>1 DEF EffectsTrue, TruthOf, Untouched
  <2>2. CASE e[1] = Attempted(r).mig
    <3>1. att[r] \notin Open(ledger')
      BY <1>2, <1>3, <1>4, <1>10, <2>2 DEF InDoubt
    <3>2. txn[r].open
      BY <1>2, <1>3, <1>4, <3>1 DEF Open, FailedState
    <3>3. StillBefore(r) /\ ledger = mem[r]
      BY <1>1, <3>2 DEF WorkEffects, Known, CatchClosed
    <3>4. DownsApplied(mem[r])
      BY <3>3 DEF EffectsTrue
    <3>5. Present(mem[r], e) = Before(r)
      BY <1>1, <2>2, <3>4, BeforeIsPresent DEF Untouched
    <3>6. QED
      BY <2>2, <3>3, <3>5 DEF StillBefore
  <2>3. QED
    BY <2>1, <2>2
<1>11. Counted' /\ TruthOf(ledger)'
  BY <1>1, <1>9, <1>10 DEF EffectsTrue, Counted, TruthOf, Untouched
<1>12. DownsApplied(ledger)'
  <2>1. \A i \in Open(ledger') : i = att[r]
    BY <1>2, <1>3, <1>5 DEF Open
  <2>2. Attempted(r).dir = "down" => Attempted(r).mig \in AppliedIds(ledger')
    <3> HAVE Attempted(r).dir = "down"
    <3>1. ledger = mem[r] /\ att[r] \in Open(ledger)
      BY <1>2, <1>5
    <3>2. Attempted(r).mig \in AppliedIds(mem[r])
      BY <3>1 DEF EffectsTrue, DownsApplied, Attempted
    <3> QED
      BY <1>3, <1>5, <3>2 DEF AppliedIds
  <2>3. QED
    BY <1>2, <1>3, <1>4, <2>1, <2>2 DEF DownsApplied
<1>13. QED
  BY <1>11, <1>12 DEF EffectsTrue

LEMMA MovesTruth ==
  ASSUME Known, NoFalseDown, EffectsTrue, NEW r \in Runners, WorkEffects(r), Moves(r)
  PROVE  EffectsTrue'
BY MarkedTruth, ExecutedTruth, LandedTruth, SavedTruth, FailureTruth DEF Moves

LEMMA ByHandTruth ==
  ASSUME Known, EffectsTrue, ManualDdl \/ Repair
  PROVE  EffectsTrue'
<1>1. CASE ManualDdl
  <2>1. PICK o \in Objects : /\ rows' = [rows EXCEPT ![o] = IF @ > 0 THEN 0 ELSE 1]
                             /\ touched' = touched \cup {o}
    BY <1>1 DEF ManualDdl
  <2>2. ledger' = ledger /\ rows \in [Tokens -> Int]
    BY <1>1 DEF ManualDdl, Known, TypeInv, TypeOK
  <2>3. ASSUME NEW e \in Effects \ touched' PROVE e \in Untouched /\ rows'[e] = rows[e]
    BY <2>1, <2>2, EffectShape DEF Untouched
  <2>4. QED
    BY <2>2, <2>3 DEF EffectsTrue, Counted, TruthOf, DownsApplied, Untouched, Present
<1>2. CASE Repair
  <2>1. PICK id \in Unresolved(ledger), count \in {0, 1} :
          /\ rows' = [t \in Tokens |-> IF t \in EffectsOf(ledger.attempts[id].mig) THEN count
                                       ELSE rows[t]]
          /\ touched' = touched \ EffectsOf(ledger.attempts[id].mig)
    BY <1>2 DEF Repair
  <2>2. ledger' = ledger /\ InDoubt(ledger, ledger.attempts[id].mig)
    BY <1>2 DEF Repair, Unresolved, IsUnresolved, InDoubt, Open
  <2>3. ASSUME NEW e \in Effects \ touched'
        PROVE  IF e[1] = ledger.attempts[id].mig THEN rows'[e] \in {0, 1}
               ELSE e \in Untouched /\ rows'[e] = rows[e]
    BY <2>1, EffectShape DEF Untouched, EffectsOf
  <2>4. Counted'
    BY <2>3 DEF EffectsTrue, Counted, Untouched
  <2>5. TruthOf(ledger)'
    BY <2>2, <2>3 DEF EffectsTrue, TruthOf, Untouched, Present
  <2>6. QED
    BY <2>2, <2>4, <2>5 DEF EffectsTrue, DownsApplied
<1>3. QED
  BY <1>1, <1>2

(***************************************************************************)
(* What a session knows survives the steps of others.                      *)
(***************************************************************************)
SessionOf(r) == <<pc[r], plan[r], mem[r], att[r], step[r], txn[r]>>

LEMMA OthersSession ==
  ASSUME TypeOK, NEW r \in Runners, Run(r) \/ Operate(r), NEW q \in Runners, q # r
  PROVE  UNCHANGED SessionOf(q)
<1>1. /\ pc \in [Runners -> PCs] /\ plan \in [Runners -> Plan] /\ mem \in [Runners -> History]
      /\ att \in [Runners -> AttemptIds \cup {0}] /\ step \in [Runners -> Nat]
      /\ txn \in [Runners -> Txn]
  BY DEF TypeOK
<1>2. CASE Run(r)
  BY <1>1, <1>2 DEF SessionOf, Run, AcquireLock, GiveUp, VerifyPlan, VerifyBaseline, VerifyResolution,
     Refuse, Mark, Begin, Execute, Record, Commit, CommitRejected, Fail, Catch, Close, BackendEnds,
     Completed, Forget, DropTxn, Goto, client
<1>3. CASE Operate(r)
  BY <1>1, <1>3 DEF SessionOf, Operate, StartPlan, BuildPlan, Inspect, Attest, Connect, Lose, Goto, client
<1>4. QED
  BY <1>2, <1>3

LEMMA WorkKept ==
  ASSUME NEW q \in Runners, WorkEffects(q), UNCHANGED SessionOf(q),
         \/ pc[q] \notin Connected
         \/ /\ touched \subseteq touched'
            /\ \A e \in Effects \ touched' : rows'[e] = rows[e]
  PROVE  WorkEffects(q)'
<1>1. /\ pc'[q] = pc[q] /\ plan'[q] = plan[q] /\ mem'[q] = mem[q] /\ att'[q] = att[q]
      /\ step'[q] = step[q] /\ txn'[q] = txn[q]
  BY DEF SessionOf
<1>2. /\ (Applying(q)' <=> Applying(q)) /\ (Attempting(q)' <=> Attempting(q))
      /\ Attempted(q)' = Attempted(q) /\ Before(q)' = Before(q) /\ Change(q)' = Change(q)
      /\ \A e : Executed(q, e)' <=> Executed(q, e)
  BY <1>1 DEF Applying, Attempting, Attempted, Before, Change, Executed
<1>3. \A e : Changed(q, e)' = Changed(q, e)
  BY <1>2 DEF Changed
<1>4. CASE pc[q] \notin Connected
  <2>1. ~ Attempting(q) /\ pc[q] \notin {"mark", "begin", "exec", "record", "commit", "catch"}
    BY <1>4 DEF Attempting, Connected
  <2>2. QED
    BY <1>1, <1>2, <2>1 DEF WorkEffects
<1>5. CASE /\ touched \subseteq touched'
           /\ \A e \in Effects \ touched' : rows'[e] = rows[e]
  <2>1. \A e \in Untouched' : e \in Untouched /\ rows'[e] = rows[e]
    BY <1>5 DEF Untouched
  <2>2. MadeByHand(q) => MadeByHand(q)'
    BY <1>1, <1>5 DEF MadeByHand
  <2>3. StillBefore(q) => StillBefore(q)'
    BY <1>2, <2>1 DEF StillBefore
  <2>4. AttemptEffects(q) => AttemptEffects(q)'
    BY <1>1, <1>2, <1>3, <2>1, <2>3 DEF AttemptEffects
  <2>5. AttemptStep(q) => AttemptStep(q)'
    BY <1>1, <1>2 DEF AttemptStep
  <2>6. TruthOf(mem[q]) => TruthOf(mem[q])'
    BY <1>1, <2>1 DEF TruthOf, Present, InDoubt
  <2>7. (\A t \in Tokens : txn[q].delta[t] = 0) => (\A t \in Tokens : txn[q].delta[t] = 0)'
    BY <1>1
  <2>8. QED
    BY <1>1, <1>2, <2>2, <2>3, <2>4, <2>5, <2>6, <2>7 DEF WorkEffects
<1>6. QED
  BY <1>4, <1>5

LEMMA ForwardsKept ==
  ASSUME NEW q \in Runners, AdoptsForwards(q), UNCHANGED SessionOf(q)
  PROVE  AdoptsForwards(q)'
  BY DEF AdoptsForwards, SessionOf

\* A recorded attempt stays recorded.
LEMMA AttemptsStay ==
  ASSUME Known, NEW r \in Runners, Moves(r), NEW id \in AttemptIds, ledger.attempts[id] # NoAttempt
  PROVE  ledger'.attempts[id] # NoAttempt
<1>1. TypeOK /\ ledger \in History /\ mem[r] \in History
  BY DEF Known, TypeInv, TypeOK
<1>2. \A a \in Attempt : a # NoAttempt
  BY DEF Attempt, NoAttempt, States
<1>3. CASE Marks(r)
  <2>1. PICK m \in Migrations, new \in AttemptIds : ledger' = MarkedDoc(r, m, new)
    BY <1>3 DEF Marks
  <2>2. mem[r] = ledger
    BY <1>3 DEF Marks, Known, LedgerInv, KnowsLedger
  <2>3. /\ MarkedDoc(r, m, new).attempts = [mem[r].attempts EXCEPT ![new] = RunningAttempt(r, m)]
        /\ RunningAttempt(r, m) \in Attempt
    BY <1>1, MarkedType
  <2>4. QED
    BY <1>1, <1>2, <2>1, <2>2, <2>3 DEF History
<1>4. CASE Executes(r)
  BY <1>4 DEF Executes
<1>5. CASE Lands(r)
  <2>1. att[r] \in AttemptIds /\ Attempted(r) \in Attempt /\ ledger = mem[r] /\ ledger' = AppliedDoc(r)
    BY <1>5, AttemptTypes DEF Lands
  <2>2. /\ [Attempted(r) EXCEPT !.state = "applied"] \in Attempt
        /\ Landed(mem[r], AppliedDoc(r), att[r], [Attempted(r) EXCEPT !.state = "applied"])
    BY <1>1, <2>1, AppliedLanded
  <2>3. QED
    BY <1>2, <2>1, <2>2 DEF Landed
<1>6. CASE Saves(r)
  <2>1. ledger' = mem[r] /\ (Resolving(r) \/ Adopting(r))
    BY <1>6 DEF Saves, Known, DocumentInv, KnowsDocument
  <2>2. CASE Resolving(r)
    <3>1. /\ att[r] \in AttemptIds /\ IsUnresolved(ledger, att[r]) /\ plan[r].mode \in Actions
          /\ mem[r] = ResolvedDoc(r)
      BY <2>2 DEF Resolving
    <3>2. Sound(ledger) /\ WellKept(ledger)
      BY DEF Known, LedgerInv, DocumentInv
    <3>3. PICK b \in Attempt :
            \A j \in AttemptIds :
              ResolvedDoc(r).attempts[j] = IF j = att[r] THEN b ELSE ledger.attempts[j]
      BY <1>1, <3>1, <3>2, ResolvedKept
    <3>4. QED
      BY <1>2, <2>1, <3>1, <3>3
  <2>3. CASE Adopting(r)
    BY <2>3 DEF Adopting, EmptyHistory
  <2>4. QED
    BY <2>1, <2>2, <2>3
<1>7. CASE SavesFailure(r)
  <2>1. pc[r] = "catch" /\ SaveFailedState(r)
    BY <1>7 DEF SavesFailure
  <2>2. PICK base \in History :
          /\ base = mem[r] \/ base = ledger
          /\ \A j \in AttemptIds :
               ledger'.attempts[j] = IF j = att[r] THEN FailedAttempt(r) ELSE base.attempts[j]
    BY <2>1, SavedKept DEF Known
  <2>3. FailedAttempt(r) \in Attempt /\ att[r] \in AttemptIds /\ Attempted(r) \in Attempt
    BY <2>1, SavedKept DEF Known
  <2>4. ledger = mem[r] \/ ledger = AppliedDoc(r)
    BY <2>1 DEF Known, DocumentInv, KnowsDocument
  <2>5. id # att[r] => ledger.attempts[id] = mem[r].attempts[id]
    <3>1. /\ [Attempted(r) EXCEPT !.state = "applied"] \in Attempt
          /\ Landed(mem[r], AppliedDoc(r), att[r], [Attempted(r) EXCEPT !.state = "applied"])
      BY <1>1, <2>3, AppliedLanded
    <3>2. QED
      BY <2>4, <3>1 DEF Landed
  <2>6. QED
    BY <1>2, <2>2, <2>3, <2>5
<1>8. QED
  BY <1>3, <1>4, <1>5, <1>6, <1>7 DEF Moves

\* Another session's attempt comes and goes; whatever else is in doubt after
\* its move was so before, and its data are where they were.
LEMMA OthersDoubts ==
  ASSUME Known, NEW r \in Runners, WorkEffects(r), Moves(r),
         NEW id \in AttemptIds, ledger.attempts[id] # NoAttempt,
         Attempting(r) \/ pc[r] = "catch" => att[r] # id,
         id \in Open(ledger')
  PROVE  /\ id \in Open(ledger)
         /\ \A t \in Tokens : rows'[t] = rows[t]
<1>1. TypeOK /\ ledger \in History /\ mem[r] \in History
  BY DEF Known, TypeInv, TypeOK
<1>2. CASE Marks(r)
  <2>1. PICK m \in Migrations, new \in AttemptIds :
          IsNext(r, m) /\ IsFresh(mem[r], new) /\ ledger' = MarkedDoc(r, m, new)
    BY <1>2 DEF Marks
  <2>2. mem[r] = ledger /\ Open(ledger) = {} /\ EntriesSettled(mem[r])
    BY <1>2 DEF Marks, Known, LedgerInv, KnowsLedger
  <2>3. Open(ledger') = {new} /\ ledger.attempts[new] = NoAttempt
    BY <1>1, <2>1, <2>2, MarkedLedger DEF IsFresh
  <2>4. QED
    BY <2>3
<1>3. CASE Executes(r)
  <2>1. Open(ledger) = {att[r]} /\ ledger' = ledger /\ Attempting(r)
    BY <1>3, AttemptTypes DEF Executes, Attempting
  <2>2. QED
    BY <2>1
<1>4. CASE Lands(r)
  <2>1. ledger' = AppliedDoc(r) /\ Open(AppliedDoc(r)) = {}
    BY <1>1, <1>4, AttemptTypes, AppliedLedger DEF Lands
  <2>2. QED
    BY <2>1
<1>5. CASE Saves(r)
  <2>1. /\ ledger' = mem[r] /\ (Resolving(r) \/ Adopting(r))
        /\ \A t \in Tokens : txn[r].delta[t] = 0
    BY <1>5 DEF Saves, Known, DocumentInv, KnowsDocument, WorkEffects
  <2>2. \A t \in Tokens : rows'[t] = rows[t]
    <3>1. \A t \in Tokens : rows[t] \in Int /\ rows'[t] = rows[t] + txn[r].delta[t]
      BY <1>1, <1>5 DEF Saves, Seen, TypeOK
    <3>2. QED
      BY <2>1, <3>1
  <2>3. CASE Resolving(r)
    <3>1. /\ att[r] \in AttemptIds /\ IsUnresolved(ledger, att[r]) /\ plan[r].mode \in Actions
          /\ mem[r] = ResolvedDoc(r)
      BY <2>3 DEF Resolving
    <3>2. Sound(ledger) /\ WellKept(ledger)
      BY DEF Known, LedgerInv, DocumentInv
    <3>3. PICK b \in Attempt :
            /\ b.state = "resolved"
            /\ \A j \in AttemptIds :
                 ResolvedDoc(r).attempts[j] = IF j = att[r] THEN b ELSE ledger.attempts[j]
      BY <1>1, <3>1, <3>2, ResolvedKept
    <3>4. QED
      BY <2>1, <2>2, <3>1, <3>3 DEF Open
  <2>4. CASE Adopting(r)
    BY <2>1, <2>4 DEF Adopting
  <2>5. QED
    BY <2>1, <2>3, <2>4
<1>6. CASE SavesFailure(r)
  <2>1. pc[r] = "catch" /\ SaveFailedState(r) /\ rows' = rows
    BY <1>6 DEF SavesFailure
  <2>2. Open(ledger') \subseteq {att[r]}
    BY <2>1, SavedLedger DEF Known
  <2>3. QED
    BY <2>1, <2>2
<1>7. QED
  BY <1>2, <1>3, <1>4, <1>5, <1>6 DEF Moves

AtWork(r) == Attempting(r) \/ pc[r] = "catch"

\* Only a mark begins an attempt, under an identifier no document has.
LEMMA WhoAttempts ==
  ASSUME Known, NEW r \in Runners, Run(r) \/ Operate(r), AtWork(r)'
  PROVE  \/ AtWork(r) /\ att'[r] = att[r]
         \/ att'[r] \in AttemptIds /\ ledger.attempts[att'[r]] = NoAttempt
<1>1. TypeOK /\ pc[r] \in PCs
  BY DEF Known, TypeInv, TypeOK
<1>2. CASE Mark(r)
  <2>1. mem[r] = ledger
    BY <1>2 DEF Mark, At, Known, LedgerInv, KnowsLedger
  <2>2. att \in [Runners -> AttemptIds \cup {0}]
    BY <1>1 DEF TypeOK
  <2>3. QED
    BY <1>2, <2>1, <2>2 DEF Mark, IsFresh
<1>3. CASE Begin(r) \/ Execute(r) \/ Fail(r) \/ Lose(r)
  BY <1>1, <1>3 DEF Begin, Execute, Fail, Lose, At, Goto, client, AtWork, Attempting, Applying, TypeOK
<1>4. CASE Record(r) \/ CommitRejected(r)
  <2>1. CASE pc'[r] \in {"mark", "close"}
    BY <1>1, <2>1 DEF AtWork, Attempting
  <2>2. CASE pc'[r] \notin {"mark", "close"}
    <3>1. att' = att /\ plan' = plan /\ AtWork(r)
      BY <1>1, <1>4, <2>2 DEF Record, CommitRejected, Completed, At, Goto, client, AtWork, Attempting, TypeOK
    <3>2. QED
      BY <3>1
  <2>3. QED
    BY <2>1, <2>2
<1>5. CASE Commit(r) \/ Catch(r) \/ Close(r) \/ BackendEnds(r) \/ GiveUp(r) \/ Refuse(r)
  <2>1. pc'[r] \in {"mark", "close", "idle"}
    BY <1>1, <1>5 DEF Commit, Catch, Close, BackendEnds, GiveUp, Refuse, Completed, Forget, Goto, TypeOK
  <2>2. QED
    BY <2>1 DEF AtWork, Attempting
<1>6. CASE \/ AcquireLock(r) \/ VerifyPlan(r) \/ StartPlan(r) \/ BuildPlan(r) \/ Inspect(r) \/ Attest(r)
           \/ Connect(r)
  <2>1. pc'[r] \in {"verify", "mark", "planning", "planned", "inspecting", "locking"}
    BY <1>1, <1>6 DEF AcquireLock, VerifyPlan, StartPlan, BuildPlan, Inspect, Attest, Connect, Goto, TypeOK
  <2>2. QED
    BY <2>1 DEF AtWork, Attempting
<1>7. CASE VerifyBaseline(r) \/ VerifyResolution(r)
  <2>1. pc'[r] = "commit" /\ plan' = plan /\ ~ Applying(r)
    BY <1>1, <1>7 DEF VerifyBaseline, VerifyResolution, Goto, TypeOK, Applying, Actions
  <2>2. QED
    BY <2>1 DEF AtWork, Attempting, Applying
<1>8. QED
  BY <1>2, <1>3, <1>4, <1>5, <1>6, <1>7 DEF Run, Operate

\* What an operator attested stays so, whoever steps.
LEMMA SeesKept ==
  ASSUME Known, \A p \in Runners : WorkEffects(p),
         NEW q \in Runners, Attested(q), att[q] \in AttemptIds, plan[q].mode \in Actions,
         ~ AtWork(q), ~ AtWork(q)',
         plan'[q] = plan[q], mem'[q] = mem[q], att'[q] = att[q], [Next]_vars
  PROVE  Attested(q)'
<1> DEFINE a == mem[q].attempts[att[q]]
           there == (plan[q].mode = "confirm-applied") = (a.dir = "up")
<1>1. a' = a /\ there' = there
  OBVIOUS
<1>2. \A e \in Effects \ DataOnly : e[1] = a.mig => (e \in plan'[q].catalog <=> there)
  BY DEF Attested
<1>3. ASSUME NEW e \in DataOnly, e[1] = a.mig
      PROVE  /\ Abandoned(q)'
             /\ att[q] \in Open(ledger') => rows'[e] = IF there THEN 1 ELSE 0
  <2>1. Abandoned(q) /\ (att[q] \in Open(ledger) => rows[e] = IF there THEN 1 ELSE 0)
    BY <1>3 DEF Attested
  <2>2. e \in Tokens /\ e \notin Objects
    BY <1>3, EffectShape
  <2>3. \A p \in Runners : AtWork(p) => att[p] # att[q]
    BY <2>1 DEF Abandoned, AtWork
  <2>4. CASE UNCHANGED vars \/ EditFiles \/ ManualDdl
    <3>1. UNCHANGED <<ledger, pc, plan, att>>
      BY <2>4 DEF vars, EditFiles, ManualDdl, database, client
    <3>2. rows'[e] = rows[e]
      BY <2>2, <2>4 DEF vars, EditFiles, ManualDdl, database, Known, TypeInv, TypeOK
    <3>3. \A p \in Runners : Attempting(p)' <=> Attempting(p)
      BY <3>1 DEF Attempting, Applying
    <3>4. QED
      BY <2>1, <3>1, <3>2, <3>3 DEF Abandoned
  <2>5. CASE Repair
    BY <2>5 DEF Repair
  <2>6. ASSUME NEW r \in Runners, Run(r) \/ Operate(r)
        PROVE  /\ Abandoned(q)'
               /\ att[q] \in Open(ledger') => rows'[e] = IF there THEN 1 ELSE 0
    <3>1. UNCHANGED <<rows, ledger, touched>> \/ Moves(r)
      BY <2>6, SessionMoves
    <3>2. ledger'.attempts[att[q]] # NoAttempt
      BY <2>1, <3>1, AttemptsStay DEF Abandoned
    <3>3. ASSUME NEW p \in Runners, AtWork(p)' PROVE att'[p] # att'[q]
      <4>1. CASE p = r
        BY <2>1, <2>3, <2>6, <3>3, <4>1, WhoAttempts DEF Abandoned
      <4>2. CASE p # r
        <5>1. UNCHANGED SessionOf(p)
          BY <2>6, <4>2, OthersSession DEF Known, TypeInv
        <5>2. AtWork(p) /\ att'[p] = att[p]
          BY <3>3, <5>1 DEF SessionOf, AtWork, Attempting, Applying
        <5>3. QED
          BY <2>3, <5>2
      <4>3. QED
        BY <4>1, <4>2
    <3>4. Abandoned(q)'
      BY <3>2, <3>3 DEF Abandoned, AtWork
    <3>5. ASSUME att[q] \in Open(ledger') PROVE rows'[e] = IF there THEN 1 ELSE 0
      <4>1. CASE UNCHANGED <<rows, ledger, touched>>
        BY <2>1, <3>5, <4>1
      <4>2. CASE Moves(r)
        <5>1. (Attempting(r) \/ pc[r] = "catch" => att[r] # att[q]) /\ ledger.attempts[att[q]] # NoAttempt
          BY <2>1 DEF Abandoned
        <5>2. att[q] \in Open(ledger) /\ rows'[e] = rows[e]
          BY <2>2, <3>5, <4>2, <5>1, OthersDoubts
        <5>3. QED
          BY <2>1, <5>2
      <4>3. QED
        BY <3>1, <4>1, <4>2
    <3>6. QED
      BY <3>4, <3>5
  <2>7. QED
    BY <2>4, <2>5, <2>6 DEF Next
<1>4. QED
  BY <1>1, <1>2, <1>3 DEF Attested

(***************************************************************************)
(* What a session knows after a step of its own.                           *)
(***************************************************************************)
LEMMA OverKept ==
  ASSUME NEW r \in Runners, pc'[r] \in {"idle", "close"}, txn'[r] = NoTxn
  PROVE  Session(r)'
<1>1. pc'[r] \notin {"mark", "begin", "exec", "record", "commit", "catch", "planning", "planned",
                     "locking", "verify", "inspecting"}
  OBVIOUS
<1>2. ~ Attempting(r)'
  BY <1>1 DEF Attempting
<1>3. WorkEffects(r)'
  BY <1>1, <1>2 DEF WorkEffects, NoTxn
<1>4. AdoptsForwards(r)' /\ OperatorSees(r)'
  BY <1>1 DEF AdoptsForwards, OperatorSees
<1>5. QED
  BY <1>3, <1>4 DEF Session

\* Before a session works, its transaction is closed.
LEMMA IdleWork ==
  ASSUME NEW r \in Runners, txn'[r] = NoTxn,
         pc'[r] \in {"planning", "planned", "inspecting", "locking", "verify"}
  PROVE  WorkEffects(r)'
<1>1. pc'[r] \notin {"mark", "begin", "exec", "record", "commit", "catch"}
  OBVIOUS
<1>2. ~ Attempting(r)'
  BY <1>1 DEF Attempting
<1>3. QED
  BY <1>1, <1>2 DEF WorkEffects, NoTxn

LEMMA ClosedBefore ==
  ASSUME NEW r \in Runners, WorkEffects(r), pc[r] \notin {"exec", "record", "commit", "catch"}
  PROVE  txn[r] = NoTxn
  BY DEF WorkEffects

LEMMA EndingSession ==
  ASSUME Known, NEW r \in Runners, Session(r),
         \/ BackendEnds(r) \/ Close(r) \/ GiveUp(r) \/ Catch(r) \/ Refuse(r)
         \/ (Commit(r) \/ CommitRejected(r)) /\ ~ Applying(r)
  PROVE  Session(r)'
<1>1. pc \in [Runners -> PCs] /\ txn \in [Runners -> Txn]
  BY DEF Known, TypeInv, TypeOK
<1>2. pc'[r] \in {"idle", "close"}
  BY <1>1 DEF BackendEnds, Close, GiveUp, Catch, Refuse, Commit, CommitRejected, Forget, Goto
<1>3. CASE GiveUp(r) \/ Refuse(r)
  <2>1. txn' = txn /\ pc[r] \in {"planning", "inspecting", "planned", "locking", "verify", "mark"}
    BY <1>3 DEF GiveUp, Refuse, MayGiveUp
  <2>2. txn[r] = NoTxn
    BY <2>1, ClosedBefore DEF Session
  <2>3. QED
    BY <1>2, <2>1, <2>2, OverKept
<1>4. CASE ~ (GiveUp(r) \/ Refuse(r))
  <2>1. txn'[r] = NoTxn
    BY <1>1, <1>4 DEF BackendEnds, Close, Catch, Commit, CommitRejected, DropTxn
  <2>2. QED
    BY <1>2, <2>1, OverKept
<1>5. QED
  BY <1>3, <1>4

LEMMA LosingSession ==
  ASSUME Known, \A p \in Runners : WorkEffects(p), NEW r \in Runners, Session(r), Lose(r)
  PROVE  Session(r)'
<1>1. UNCHANGED SessionOf(r) /\ UNCHANGED <<rows, ledger, touched>> /\ pc' = pc /\ plan' = plan
      /\ att' = att /\ mem' = mem
  BY DEF Lose, SessionOf, client, database
<1>2. WorkEffects(r)' /\ AdoptsForwards(r)'
  BY <1>1, WorkKept, ForwardsKept DEF Session
<1>3. \A p \in Runners : Attempting(p)' <=> Attempting(p)
  BY <1>1 DEF Attempting, Applying
<1>4. Abandoned(r)' <=> Abandoned(r)
  BY <1>1, <1>3 DEF Abandoned
<1>5. Attested(r)' <=> Attested(r)
  BY <1>1, <1>4 DEF Attested
<1>6. OperatorSees(r)'
  BY <1>1, <1>5 DEF Session, OperatorSees
<1>7. QED
  BY <1>2, <1>6 DEF Session

LEMMA PlanningSession ==
  ASSUME Known, NEW r \in Runners, Session(r), StartPlan(r) \/ BuildPlan(r)
  PROVE  Session(r)'
<1>1. pc \in [Runners -> PCs] /\ plan \in [Runners -> Plan]
  BY DEF Known, TypeInv, TypeOK
<1>2. txn' = txn /\ pc[r] \in {"idle", "planning"} /\ pc'[r] \in {"planning", "planned"}
  BY <1>1 DEF StartPlan, BuildPlan, At, Goto
<1>3. WorkEffects(r)'
  BY <1>2, ClosedBefore, IdleWork DEF Session
<1>4. CASE StartPlan(r)
  <2>1. PICK mode \in Commands, dir \in Directions :
          /\ dir = "down" => mode = "apply"
          /\ plan' = [plan EXCEPT ![r] = [NoPlan EXCEPT !.mode = mode, !.dir = dir, !.inv = files]]
    BY <1>4 DEF StartPlan
  <2>2. plan'[r].mode = mode /\ plan'[r].dir = dir /\ pc'[r] = "planning"
    BY <1>1, <1>4, <2>1 DEF NoPlan, StartPlan, Goto
  <2>3. mode \notin Actions
    BY RunnerAssumption DEF Actions
  <2>4. QED
    BY <1>3, <2>1, <2>2, <2>3 DEF Session, AdoptsForwards, OperatorSees, Directions
<1>5. CASE BuildPlan(r)
  <2>1. PICK S \in Selections(r) :
          plan' = [plan EXCEPT ![r].catalog = Captured(r), ![r].todo = S]
    BY <1>5 DEF BuildPlan
  <2>2. /\ plan'[r].mode = plan[r].mode /\ plan'[r].dir = plan[r].dir /\ plan'[r].inv = plan[r].inv
        /\ plan'[r].todo = S /\ pc[r] = "planning" /\ pc'[r] = "planned"
    <3>1. plan'[r] = [plan[r] EXCEPT !.catalog = Captured(r), !.todo = S] /\ plan[r] \in Plan
      BY <1>1, <2>1
    <3>2. pc[r] = "planning" /\ pc'[r] = "planned"
      BY <1>1, <1>5 DEF BuildPlan, At, Goto
    <3>3. QED
      BY <3>1, <3>2 DEF Plan
  <2>3. plan[r].mode \notin Actions
    BY <2>2 DEF Known, TypeInv, KnowsAttempt
  <2>4. ASSUME plan[r].mode \in {"reconcile", "baseline"}
        PROVE  plan[r].dir = "up" /\ \A m \in S : plan[r].inv[m] # 0
    <3>1. plan[r].dir = "up"
      BY <2>2, <2>4 DEF Session, AdoptsForwards
    <3>2. S \subseteq Pending(r)
      BY <3>1 DEF Selections
    <3>3. QED
      BY <3>1, <3>2 DEF Pending
  <2>5. QED
    BY <1>3, <2>2, <2>3, <2>4 DEF Session, AdoptsForwards, OperatorSees
<1>6. QED
  BY <1>4, <1>5

LEMMA InspectingSession ==
  ASSUME Known, NEW r \in Runners, Session(r), Inspect(r)
  PROVE  Session(r)'
<1>1. /\ pc \in [Runners -> PCs] /\ mem \in [Runners -> History] /\ ledger \in History
      /\ att \in [Runners -> AttemptIds \cup {0}]
  BY DEF Known, TypeInv, TypeOK
<1>2. txn' = txn /\ pc[r] = "idle" /\ pc'[r] = "inspecting" /\ mem'[r] = ledger /\ ledger' = ledger
  BY <1>1 DEF Inspect, At, Goto, database
<1>3. WorkEffects(r)'
  BY <1>2, ClosedBefore, IdleWork DEF Session
<1>4. PICK id \in Unresolved(ledger) : att' = [att EXCEPT ![r] = id]
  BY DEF Inspect
<1>5. att'[r] = id /\ id \in Open(ledger) /\ id \in AttemptIds
  BY <1>1, <1>4 DEF Unresolved, IsUnresolved, Open
<1>6. ledger.attempts[id] \in Attempt
  BY <1>1, <1>5, HistoryTypes
<1>7. ledger.attempts[id] # NoAttempt
  BY <1>6 DEF Attempt, NoAttempt, States
<1>8. QED
  BY <1>2, <1>3, <1>5, <1>6, <1>7 DEF Session, AdoptsForwards, OperatorSees

LEMMA ConnectingSession ==
  ASSUME Known, \A p \in Runners : WorkEffects(p), [Next]_vars,
         NEW r \in Runners, Session(r), Connect(r) \/ AcquireLock(r)
  PROVE  Session(r)'
<1>1. pc \in [Runners -> PCs]
  BY DEF Known, TypeInv, TypeOK
<1>2. /\ UNCHANGED <<txn, plan, mem, att>>
      /\ pc[r] \in {"planned", "locking"} /\ pc'[r] \in {"locking", "verify"}
  BY <1>1 DEF Connect, AcquireLock, At, Goto, client
<1>3. WorkEffects(r)'
  BY <1>2, ClosedBefore, IdleWork DEF Session
<1>4. AdoptsForwards(r)'
  BY <1>2 DEF Session, AdoptsForwards
<1>5. ASSUME plan[r].mode \in Actions PROVE Attested(r)'
  <2>1. Attested(r) /\ att[r] \in AttemptIds /\ ~ AtWork(r) /\ ~ AtWork(r)'
    BY <1>2, <1>5 DEF Session, OperatorSees, Known, TypeInv, KnowsAttempt, AtWork, Attempting
  <2>2. QED
    BY <1>2, <1>5, <2>1, SeesKept
<1>6. QED
  BY <1>2, <1>3, <1>4, <1>5 DEF Session, OperatorSees

LEMMA AttestingSession ==
  ASSUME Known, CatalogTells, EffectsTrue, NEW r \in Runners, Session(r), Attest(r)
  PROVE  Session(r)'
<1>1. /\ pc \in [Runners -> PCs] /\ plan \in [Runners -> Plan] /\ txn \in [Runners -> Txn]
      /\ rows \in [Tokens -> Int]
  BY DEF Known, TypeInv, TypeOK
<1>2. /\ UNCHANGED <<txn, mem, att, rows, ledger>>
      /\ pc[r] = "inspecting" /\ pc'[r] = "planned"
      /\ \A q \in Runners : q # r => pc'[q] = pc[q] /\ plan'[q] = plan[q]
  BY <1>1 DEF Attest, At, Goto, database
<1>3. WorkEffects(r)' /\ txn[r] = NoTxn
  BY <1>2, ClosedBefore, IdleWork DEF Session
<1>4. /\ mem[r].attempts[att[r]] \in Attempt /\ ledger.attempts[att[r]] # NoAttempt
  BY <1>2 DEF Session, OperatorSees
<1>5. PICK action \in Actions :
        /\ Holds(action, mem[r].attempts[att[r]])
        /\ plan' = [plan EXCEPT ![r] = [NoPlan EXCEPT !.mode = action, !.catalog = Captured(r)]]
  BY DEF Attest
<1>6. plan'[r].mode = action /\ plan'[r].catalog = Captured(r)
  BY <1>1, <1>5 DEF NoPlan
<1> DEFINE a == mem[r].attempts[att[r]]
           there == (action = "confirm-applied") = (a.dir = "up")
<1>7. ASSUME NEW e \in Effects, e[1] = a.mig
      PROVE  rows[e] = IF there THEN 1 ELSE 0
  <2>1. e \in EffectsOf(a.mig)
    BY <1>7 DEF EffectsOf
  <2>2. QED
    BY <1>5, <2>1 DEF Holds, Complete, Absent
<1>8. ASSUME NEW e \in Effects \ DataOnly, e[1] = a.mig
      PROVE  e \in Captured(r) <=> there
  <2>1. e \in Objects /\ e \in Tokens
    BY <1>8, EffectShape
  <2>2. Seen(r)[e] = rows[e]
    BY <1>1, <1>3, <2>1 DEF Seen, NoTxn
  <2>3. rows[e] = IF there THEN 1 ELSE 0
    BY <1>7, <1>8
  <2>4. QED
    BY <2>1, <2>2, <2>3 DEF Captured, Catalog
<1>9. ASSUME NEW e \in DataOnly PROVE Abandoned(r)'
  <2>1. lock = NoRunner
    BY <1>9 DEF CatalogTells, Attest
  <2>2. \A q \in Runners : pc[q] \notin Connected
    BY <2>1, RunnerAssumption DEF Known, LedgerInv, LockHeld
  <2>3. \A q \in Runners : pc'[q] \notin Connected
    BY <1>2, <2>2 DEF Connected
  <2>4. \A q \in Runners : ~ Attempting(q)' /\ pc'[q] # "catch"
    BY <2>3 DEF Attempting, Connected
  <2>5. QED
    BY <1>2, <1>4, <2>4 DEF Abandoned
<1>10. Attested(r)'
  <2>1. \A e \in DataOnly : e \in Effects
    BY EffectShape
  <2>2. QED
    BY <1>2, <1>6, <1>7, <1>8, <1>9, <2>1 DEF Attested
<1>11. action # "reconcile" /\ action # "baseline"
  BY <1>5 DEF Actions
<1>12. AdoptsForwards(r)'
  BY <1>6, <1>11 DEF AdoptsForwards
<1>13. OperatorSees(r)'
  BY <1>2, <1>10 DEF OperatorSees
<1>14. QED
  BY <1>3, <1>12, <1>13 DEF Session

\* Under the lock, with a closed transaction, the document is true of what a
\* session reads.
LEMMA VerifyingKnows ==
  ASSUME Known, EffectsTrue, NEW r \in Runners, Session(r), pc[r] = "verify"
  PROVE  /\ txn[r] = NoTxn
         /\ \A e \in Tokens : Seen(r)[e] = rows[e] /\ rows[e] \in Int
         /\ \A e \in Effects \ DataOnly : e \in Captured(r) <=> rows[e] > 0
<1>1. txn[r] = NoTxn
  BY ClosedBefore DEF Session
<1>2. \A e \in Tokens : Seen(r)[e] = rows[e] /\ rows[e] \in Int
  BY <1>1 DEF Seen, NoTxn, Known, TypeInv, TypeOK
<1>3. \A e \in Effects \ DataOnly : e \in Objects /\ e \in Tokens
  BY EffectShape
<1>4. QED
  BY <1>1, <1>2, <1>3 DEF Captured, Catalog

\* A migration that is neither applied nor in doubt, yet in the catalog, was
\* made by hand.
LEMMA FoundByHand ==
  ASSUME Known, EffectsTrue, NEW r \in Runners, Session(r), pc[r] = "verify",
         NEW e \in Effects \ DataOnly, e \in Captured(r),
         Open(ledger) = {}, e[1] \notin AppliedIds(ledger)
  PROVE  e \in touched
<1>1. rows[e] > 0
  BY VerifyingKnows
<1>2. e \in Untouched => rows[e] = 0
  BY DEF EffectsTrue, TruthOf, InDoubt, Present
<1>3. QED
  BY <1>1, <1>2 DEF Untouched

LEMMA VerifiedPlanSession ==
  ASSUME Known, EffectsTrue, NEW r \in Runners, Session(r), VerifyPlan(r)
  PROVE  Session(r)'
<1>1. pc \in [Runners -> PCs]
  BY DEF Known, TypeInv, TypeOK
<1>2. /\ UNCHANGED <<txn, plan, mem, att, rows, ledger, touched>>
      /\ pc[r] = "verify" /\ pc'[r] = "mark" /\ ledger = mem[r]
      /\ plan[r].mode \in {"apply", "reconcile"}
  BY <1>1 DEF VerifyPlan, At, Goto, client, database, world, EvidenceCurrent
<1>3. txn[r] = NoTxn
  BY <1>2, VerifyingKnows
<1>4. Open(ledger) = {} /\ PlanFits(r)
  <2>1. plan[r].mode \notin Actions
    BY <1>2 DEF Actions
  <2>2. QED
    BY <1>2, <2>1 DEF Known, LedgerInv, KnowsLedger, DocumentInv, KnowsDocument
<1>5. MadeByHand(r)
  <2> SUFFICES ASSUME plan[r].mode = "reconcile", NEW e \in Effects, e[1] \in plan[r].todo
               PROVE  e \in touched
    BY DEF MadeByHand
  <2>1. ReconcileAllowed(r)
    BY DEF VerifyPlan
  <2>2. PICK m \in Reconcilable :
          /\ plan[r].todo = {m}
          /\ PlannedOutcome(r, m) = Captured(r)
          /\ PlannedOutcome(r, m) \ Starting(r) = EffectsOf(m)
    BY <2>1 DEF ReconcileAllowed
  <2>3. e[1] = m /\ e \in EffectsOf(m)
    BY <2>2 DEF EffectsOf
  <2>4. e \in Captured(r) /\ e \notin DataOnly
    BY <2>2, <2>3, ConstantsAssumption
  <2>5. plan[r].dir = "up"
    BY <1>2 DEF Session, AdoptsForwards
  <2>6. m \notin AppliedIds(ledger)
    <3>1. \A k \in AppliedIds(ledger) : k < m
      BY <1>2, <1>4, <2>2, <2>5 DEF PlanFits
    <3>2. AppliedIds(ledger) \subseteq Migrations
      BY HistoryTypes DEF Known, TypeInv, TypeOK
    <3>3. QED
      BY <3>1, <3>2, ConstantsAssumption DEF Migrations
  <2>7. QED
    BY <1>2, <1>4, <2>3, <2>4, <2>6, FoundByHand
<1>6. MadeByHand(r)'
  BY <1>2, <1>5 DEF MadeByHand
<1>7. ~ Attempting(r)'
  BY <1>2 DEF Attempting
<1>8. WorkEffects(r)'
  BY <1>2, <1>3, <1>6, <1>7 DEF WorkEffects, NoTxn
<1>9. QED
  BY <1>2, <1>8 DEF Session, AdoptsForwards, OperatorSees

LEMMA SavingSession ==
  ASSUME NEW r \in Runners, txn[r] = NoTxn, txn'[r] = [NoTxn EXCEPT !.open = TRUE],
         pc'[r] = "commit", ~ Applying(r)', plan'[r].mode # "reconcile", TruthOf(mem[r])'
  PROVE  Session(r)'
<1>1. ~ Attempting(r)'
  BY DEF Attempting
<1>2. txn'[r].open /\ \A t \in Tokens : txn'[r].delta[t] = 0
  BY DEF NoTxn
<1>3. WorkEffects(r)'
  BY <1>1, <1>2 DEF WorkEffects, MadeByHand
<1>4. QED
  BY <1>3 DEF Session, AdoptsForwards, OperatorSees

LEMMA VerifiedBaselineSession ==
  ASSUME Known, EffectsTrue, NEW r \in Runners, Session(r), VerifyBaseline(r)
  PROVE  Session(r)'
<1>1. /\ pc \in [Runners -> PCs] /\ mem \in [Runners -> History] /\ txn \in [Runners -> Txn]
      /\ TypeOK
  BY DEF Known, TypeInv, TypeOK
<1>2. /\ UNCHANGED <<plan, att, rows, ledger, touched>>
      /\ pc[r] = "verify" /\ pc'[r] = "commit" /\ ledger = mem[r] /\ ledger = EmptyHistory
      /\ plan[r].mode = "baseline" /\ plan[r].todo \subseteq Reconcilable
  BY <1>1 DEF VerifyBaseline, At, Goto, database, world, EvidenceCurrent
<1>3. txn[r] = NoTxn
  BY <1>2, VerifyingKnows
<1>4. txn'[r] = [NoTxn EXCEPT !.open = TRUE]
  BY <1>1, <1>3 DEF VerifyBaseline
<1>5. PICK n \in AttemptIds : \E order \in [1..n -> plan[r].todo] :
        /\ Ascending(order)
        /\ \A m \in plan[r].todo : \E i \in 1..n : order[i] = m
        /\ BaselineMatches(r, order[n])
        /\ mem' = [mem EXCEPT ![r] = BaselineDoc(r, order)]
  BY DEF VerifyBaseline
<1>6. PICK order \in [1..n -> plan[r].todo] :
        /\ Ascending(order)
        /\ \A m \in plan[r].todo : \E i \in 1..n : order[i] = m
        /\ BaselineMatches(r, order[n])
        /\ mem' = [mem EXCEPT ![r] = BaselineDoc(r, order)]
  BY <1>5
<1>7. n \in Nat \ {0} /\ n \in 1..n
  BY ConstantsAssumption DEF AttemptIds
<1>8. plan[r].dir = "up" /\ \A m \in plan[r].todo : plan[r].inv[m] # 0
  BY <1>2 DEF Session, AdoptsForwards
<1>9. mem'[r] = BaselineDoc(r, order) /\ AppliedIds(BaselineDoc(r, order)) = {order[i] : i \in 1..n}
  BY <1>1, <1>6, BaselineKept
<1>10. Open(ledger) = {} /\ AppliedIds(ledger) = {}
  BY <1>2, EmptyLedger DEF EmptyHistory, AppliedIds
<1>11. ASSUME NEW e \in Untouched PROVE e[1] \notin plan[r].todo
  <2> SUFFICES ASSUME e[1] \in plan[r].todo, NEW i \in 1..n, order[i] = e[1] PROVE FALSE
    BY <1>6
  <2>1. e \in Effects \ DataOnly /\ e[1] \in Migrations
    BY <1>2, ConstantsAssumption, EffectShape DEF Untouched
  <2>2. e[1] <= order[n]
    <3>1. order[i] \in Int /\ order[n] \in Int
      <4>1. \A m \in Reconcilable : m \in Int
        BY ConstantsAssumption DEF Migrations
      <4>2. QED
        BY <1>2, <1>7, <4>1
    <3>2. i = n \/ order[i] < order[n]
      <4>1. DOMAIN order = 1..n /\ (i = n \/ i < n)
        BY <1>7
      <4>2. QED
        BY <1>6, <1>7, <4>1 DEF Ascending
    <3>3. QED
      BY <3>1, <3>2
  <2>3. PlannedOutcome(r, order[n]) = Captured(r)
    BY <1>6 DEF BaselineMatches
  <2>4. e \in Captured(r)
    BY <1>8, <2>1, <2>2, <2>3 DEF PlannedOutcome, ReplayedThrough
  <2>5. QED
    BY <1>2, <1>10, <2>1, <2>4, FoundByHand DEF Untouched
<1>12. \A e \in Untouched : rows[e] = 0 /\ Present(BaselineDoc(r, order), e) = 0
  <2>1. \A e \in Untouched : rows[e] = 0
    BY <1>10 DEF EffectsTrue, TruthOf, InDoubt, Present
  <2>2. ASSUME NEW e \in Untouched PROVE e[1] \notin AppliedIds(BaselineDoc(r, order))
    BY <1>9, <1>11
  <2>3. QED
    BY <2>1, <2>2 DEF Present
<1>13. TruthOf(mem[r])'
  BY <1>2, <1>9, <1>12 DEF TruthOf, Untouched, Present
<1>14. QED
  BY <1>2, <1>3, <1>4, <1>13, SavingSession DEF Applying

LEMMA VerifiedResolutionSession ==
  ASSUME Known, EffectsTrue, NEW r \in Runners, Session(r), VerifyResolution(r)
  PROVE  Session(r)'
<1>1. /\ pc \in [Runners -> PCs] /\ mem \in [Runners -> History] /\ txn \in [Runners -> Txn]
      /\ TypeOK /\ ledger \in History
  BY DEF Known, TypeInv, TypeOK
<1>2. /\ UNCHANGED <<plan, att, rows, ledger, touched>>
      /\ pc[r] = "verify" /\ pc'[r] = "commit" /\ ledger = mem[r] /\ Captured(r) = plan[r].catalog
      /\ plan[r].mode \in Actions /\ ResolutionAllowed(r) /\ mem'[r] = ResolvedDoc(r)
  BY <1>1 DEF VerifyResolution, At, Goto, database, world, EvidenceCurrent
<1>3. txn[r] = NoTxn
  BY <1>2, VerifyingKnows
<1>4. txn'[r] = [NoTxn EXCEPT !.open = TRUE]
  BY <1>1, <1>3 DEF VerifyResolution
<1> DEFINE a == ledger.attempts[att[r]]
           there == (plan[r].mode = "confirm-applied") = (a.dir = "up")
           doc == ResolvedDoc(r)
<1>5. att[r] \in AttemptIds /\ IsUnresolved(ledger, att[r]) /\ att[r] \in Open(ledger)
      /\ \A j \in Open(ledger) : j = att[r]
  <2>1. att[r] \in AttemptIds /\ IsUnresolved(ledger, att[r]) /\ att[r] \in Open(ledger)
    BY <1>2 DEF Known, TypeInv, KnowsAttempt, ResolutionAllowed, IsUnresolved, Open
  <2>2. AtMostOne(Open(ledger))
    BY DEF Known, LedgerInv, Sound
  <2>3. QED
    BY <2>1, <2>2 DEF AtMostOne
<1>6. ASSUME NEW e \in Untouched, e[1] = a.mig PROVE rows[e] = IF there THEN 1 ELSE 0
  <2>1. Attested(r)
    BY <1>2 DEF Session, OperatorSees
  <2>2. CASE e \in DataOnly
    BY <1>2, <1>5, <1>6, <2>1, <2>2 DEF Attested
  <2>3. CASE e \notin DataOnly
    <3>1. e \in Effects \ DataOnly /\ rows[e] \in {0, 1}
      BY <2>3 DEF Untouched, EffectsTrue, Counted
    <3>2. e \in Captured(r) <=> there
      BY <1>2, <1>6, <2>1, <3>1 DEF Attested
    <3>3. e \in Captured(r) <=> rows[e] > 0
      BY <1>2, <3>1, VerifyingKnows
    <3>4. QED
      BY <3>1, <3>2, <3>3
  <2>4. QED
    BY <2>2, <2>3
<1>7. WellKept(ledger) /\ Sound(ledger) /\ doc \in History
  BY <1>1, <1>2, <1>5, ResolvedType DEF Known, LedgerInv, DocumentInv
<1>8. /\ a \in Attempt /\ a.dir \in {"up", "down"} /\ a.mig \in Migrations
  <2>1. a \in Attempt
    BY <1>1, <1>2, <1>5, <1>7, ResolvedKept
  <2>2. QED
    BY <2>1 DEF Attempt, Directions
<1>9. AppliedIds(doc) = IF plan[r].mode = "confirm-not-applied" THEN AppliedIds(ledger)
                        ELSE IF a.dir = "up" THEN AppliedIds(ledger) \cup {a.mig}
                        ELSE AppliedIds(ledger) \ {a.mig}
  <2>1. CASE plan[r].mode = "confirm-not-applied"
    <3>1. doc.applied = ledger.applied
      BY <2>1 DEF ResolvedDoc
    <3>2. QED
      BY <2>1, <3>1 DEF AppliedIds
  <2>2. CASE plan[r].mode = "confirm-applied"
    <3> DEFINE b == [a EXCEPT !.state = "resolved", !.resolution = plan[r].mode]
    <3>1. /\ b \in Attempt /\ b.state = "resolved"
          /\ \A j \in AttemptIds : doc.attempts[j] = IF j = att[r] THEN b ELSE ledger.attempts[j]
      BY <1>1, <1>2, <1>5, <1>7, ResolvedKept
    <3>2. b.mig = a.mig /\ b.hash = a.hash /\ b.dir = a.dir /\ b.resolution = "confirm-applied"
      BY <1>8, <2>2 DEF Attempt
    <3>3. doc.applied = IF a.dir = "up" THEN Append(ledger.applied, ResolvedEntry(a, att[r]))
                        ELSE Without(ledger.applied, a.mig)
      BY <1>8, <2>2 DEF ResolvedDoc
    <3>4. Landed(ledger, doc, att[r], b)
      <4> HIDE DEF b, doc
      <4> QED
        BY <3>1, <3>2, <3>3 DEF Landed, ResolvedEntry, Succeeded
    <3>5. QED
      BY <1>1, <1>5, <1>7, <2>2, <3>1, <3>4, LandedIds
  <2>3. QED
    BY <1>2, <2>1, <2>2 DEF Actions
<1>10. ASSUME NEW e \in Untouched PROVE rows[e] = Present(doc, e)
  <2>1. CASE e[1] # a.mig
    <3>1. ~ InDoubt(ledger, e[1])
      BY <1>5, <2>1 DEF InDoubt
    <3>2. QED
      BY <1>9, <2>1, <3>1 DEF EffectsTrue, TruthOf, Present
  <2>2. CASE e[1] = a.mig
    <3>1. a.dir = "down" => a.mig \in AppliedIds(ledger)
      BY <1>5 DEF EffectsTrue, DownsApplied
    <3>2. a.dir = "up" => a.mig \notin AppliedIds(ledger)
      <4>1. AtTop(ledger, a)
        BY <1>5, <1>7 DEF WellKept, OpenAtTop
      <4>2. AppliedIds(ledger) \subseteq Int
        BY <1>1, HistoryTypes, ConstantsAssumption DEF Migrations
      <4>3. QED
        BY <4>1, <4>2 DEF AtTop
    <3>3. there <=> e[1] \in AppliedIds(doc)
      BY <1>2, <1>8, <1>9, <2>2, <3>1, <3>2 DEF Actions
    <3>4. QED
      BY <1>6, <2>2, <3>3 DEF Present
  <2>3. QED
    BY <2>1, <2>2
<1>11. TruthOf(mem[r])'
  BY <1>2, <1>10 DEF TruthOf, Untouched, Present
<1>12. ~ Applying(r)' /\ plan'[r].mode # "reconcile"
  BY <1>2 DEF Applying, Actions
<1>13. QED
  BY <1>2, <1>3, <1>4, <1>11, <1>12, SavingSession

\* The attempt's side of a session: what is left to show once it is at work.
LEMMA WorkingSession ==
  ASSUME NEW r \in Runners, Attempting(r)',
         ~ txn'[r].open => txn'[r] = NoTxn,
         txn'[r].open => pc'[r] # "begin",
         pc'[r] # "exec" => MadeByHand(r)',
         AttemptEffects(r)', AttemptStep(r)'
  PROVE  Session(r)'
<1>1. pc'[r] \in {"begin", "exec", "record", "commit"}
  BY DEF Attempting
<1>2. pc'[r] = "commit" => Applying(r)'
  BY DEF Attempting
<1>3. QED
  BY <1>1, <1>2 DEF Session, WorkEffects, AdoptsForwards, OperatorSees

LEMMA MarkedSession ==
  ASSUME Known, EffectsTrue, NEW r \in Runners, Session(r), Mark(r)
  PROVE  Session(r)'
<1>1. /\ pc \in [Runners -> PCs] /\ mem \in [Runners -> History] /\ att \in [Runners -> AttemptIds \cup {0}]
      /\ TypeOK
  BY DEF Known, TypeInv, TypeOK
<1>2. /\ UNCHANGED <<plan, step, txn, rows, touched>> /\ pc[r] = "mark" /\ pc'[r] = "begin"
  BY <1>1 DEF Mark, At, Goto, world
<1>3. PICK m \in Migrations, id \in AttemptIds :
        /\ IsNext(r, m)
        /\ IsFresh(mem[r], id)
        /\ mem' = [mem EXCEPT ![r] = MarkedDoc(r, m, id)]
        /\ att' = [att EXCEPT ![r] = id]
  BY DEF Mark
<1>4. mem[r] = ledger /\ Open(ledger) = {} /\ PlanFits(r)
  BY <1>2 DEF Known, LedgerInv, KnowsLedger, DocumentInv, KnowsDocument
<1>5. txn[r] = NoTxn
  BY <1>2, ClosedBefore DEF Session
<1>6. Attempted(r)' = RunningAttempt(r, m)
  <2>1. mem'[r] = MarkedDoc(r, m, id) /\ att'[r] = id
    BY <1>1, <1>3
  <2>2. MarkedDoc(r, m, id).attempts = [mem[r].attempts EXCEPT ![id] = RunningAttempt(r, m)]
    BY <1>1, MarkedType
  <2>3. mem[r].attempts \in [AttemptIds -> Attempt \cup {NoAttempt}]
    BY <1>1 DEF History
  <2>4. QED
    BY <2>1, <2>2, <2>3 DEF Attempted
<1>7. Attempted(r)'.mig = m /\ Attempted(r)'.dir = plan[r].dir
  BY <1>6 DEF RunningAttempt
<1>8. \A e \in Untouched : e[1] = m => rows[e] = IF plan[r].dir = "up" THEN 0 ELSE 1
  <2>1. plan[r].dir \in {"up", "down"}
    BY <1>1 DEF TypeOK, Plan, Directions
  <2>2. plan[r].dir = "up" => m \notin AppliedIds(ledger)
    <3>1. AppliedIds(ledger) \subseteq Int
      BY <1>1, HistoryTypes, ConstantsAssumption DEF TypeOK, Migrations
    <3>2. QED
      BY <1>3, <1>4, <3>1 DEF PlanFits, IsNext
  <2>3. plan[r].dir = "down" => m \in AppliedIds(ledger)
    BY <1>3, <1>4 DEF PlanFits, IsNext
  <2>4. \A e \in Untouched : e[1] = m => rows[e] = Present(ledger, e)
    BY <1>4 DEF EffectsTrue, TruthOf, InDoubt
  <2>5. QED
    BY <2>1, <2>2, <2>3, <2>4 DEF Present
<1>9. AttemptEffects(r)'
  <2>1. \A e : Changed(r, e)' = 0
    BY <1>2 DEF Changed, Executed
  <2>2. \A e \in Untouched : e[1] = m => rows[e] = Before(r)' /\ Before(r)' \in Int
    BY <1>7, <1>8 DEF Before
  <2>3. QED
    BY <1>2, <1>5, <1>7, <2>1, <2>2 DEF AttemptEffects, NoTxn, Untouched
<1>10. AttemptStep(r)' /\ Attempting(r)'
  BY <1>2 DEF AttemptStep, Attempting
<1>11. MadeByHand(r)'
  BY <1>2 DEF Session, WorkEffects, MadeByHand
<1>12. txn'[r] = NoTxn /\ ~ txn'[r].open
  BY <1>2, <1>5 DEF NoTxn
<1>13. QED
  BY <1>9, <1>10, <1>11, <1>12, WorkingSession

LEMMA BegunSession ==
  ASSUME Known, EffectsTrue, NEW r \in Runners, Session(r), Begin(r)
  PROVE  Session(r)'
<1>1. /\ pc \in [Runners -> PCs] /\ step \in [Runners -> Nat] /\ txn \in [Runners -> Txn]
  BY DEF Known, TypeInv, TypeOK
<1>2. /\ UNCHANGED <<plan, mem, att, rows, touched>> /\ pc[r] = "begin" /\ step'[r] = 1
      /\ pc'[r] = IF plan[r].mode = "reconcile" THEN "record" ELSE "exec"
  BY <1>1 DEF Begin, At, Goto, database, world
<1>3. Attempting(r) /\ MadeByHand(r) /\ AttemptEffects(r)
  BY <1>2 DEF Session, WorkEffects, Attempting
<1>4. AttemptFits(r)
  BY <1>3 DEF Known, DocumentInv, KnowsDocument
<1>5. txn[r] = NoTxn
  BY <1>2, ClosedBefore DEF Session
<1>6. txn'[r] = [NoTxn EXCEPT !.open = Attempted(r).mig \in Transactional \/ plan[r].mode = "reconcile"]
  BY <1>1, <1>5 DEF Begin
<1>7. /\ \A t \in Tokens : txn'[r].delta[t] = 0
      /\ ~ txn'[r].open => txn'[r] = NoTxn
      /\ plan[r].mode = "reconcile" => txn'[r].open
  <2> DEFINE begun == Attempted(r).mig \in Transactional \/ plan[r].mode = "reconcile"
  <2>1. /\ txn'[r] = [NoTxn EXCEPT !.open = begun] /\ begun \in BOOLEAN
        /\ plan[r].mode = "reconcile" => begun
    BY <1>6
  <2> HIDE DEF begun
  <2>2. txn'[r].open = begun /\ txn'[r].delta = [t \in Tokens |-> 0]
    BY <2>1 DEF NoTxn
  <2>3. ASSUME ~ begun PROVE txn'[r] = NoTxn
    <3>1. begun = FALSE
      BY <2>1, <2>3
    <3>2. QED
      BY <2>1, <3>1 DEF NoTxn
  <2>4. QED
    BY <2>1, <2>2, <2>3
<1>8. Attempted(r)' = Attempted(r) /\ Before(r)' = Before(r) /\ Change(r)' = Change(r)
  BY <1>2 DEF Attempted, Before, Change
<1>9. Attempted(r).mig \in Migrations /\ Before(r) \in {0, 1}
  BY <1>3, AttemptTypes
<1>10. Statements[Attempted(r).mig] \in Nat \ {0}
  BY <1>9, EffectShape
<1>11. \A e \in Effects : Changed(r, e)' = 0
  <2> SUFFICES ASSUME NEW e \in Effects, Executed(r, e)' PROVE FALSE
    BY DEF Changed
  <2>1. plan[r].mode = "apply" /\ e[1] = Attempted(r).mig
    BY <1>2, <1>8 DEF Executed
  <2>2. e[2] \in 1..Statements[Attempted(r).mig]
    BY <2>1, EffectShape
  <2>3. QED
    BY <1>2, <1>8, <1>10, <2>2 DEF Executed
<1>12. \A e \in Untouched : e[1] = Attempted(r).mig => rows[e] = Before(r)
  <2>1. \A e : Changed(r, e) = 0
    BY <1>2 DEF Changed, Executed
  <2>2. QED
    BY <1>5, <1>9, <2>1, <1>3 DEF AttemptEffects, NoTxn
<1>13. AttemptEffects(r)'
  <2>1. \A e \in Effects : txn'[r].delta[e] = 0
    BY <1>7, EffectShape
  <2>2. \A e \in Untouched : e \in Effects
    BY DEF Untouched
  <2>3. QED
    BY <1>2, <1>8, <1>9, <1>11, <1>12, <2>1, <2>2 DEF AttemptEffects, StillBefore, Untouched
<1>14. AttemptStep(r)' /\ Attempting(r)'
  <2>1. plan[r].mode \in {"apply", "reconcile"}
    BY <1>4 DEF AttemptFits, Applying
  <2>2. QED
    BY <1>2, <1>8, <1>10, <2>1 DEF AttemptStep, Attempting
<1>15. MadeByHand(r)'
  BY <1>2, <1>3 DEF MadeByHand
<1>16. QED
  BY <1>2, <1>7, <1>13, <1>14, <1>15, WorkingSession

\* Executing a statement adds it to what is executed.
LEMMA ExecutedNext ==
  ASSUME Known, NEW r \in Runners, Session(r), Execute(r)
  PROVE  /\ Attempted(r)' = Attempted(r) /\ Before(r)' = Before(r) /\ Change(r)' = Change(r)
         /\ \A e \in Effects :
              Changed(r, e)' = IF e = Target(r) THEN Change(r) ELSE Changed(r, e)
         /\ pc[r] = "exec" /\ pc'[r] \in {"exec", "record"} /\ plan' = plan
         /\ AttemptStep(r)'
         /\ pc'[r] = "record" => plan[r].mode = "apply"
<1>1. /\ pc \in [Runners -> PCs] /\ step \in [Runners -> Nat]
  BY DEF Known, TypeInv, TypeOK
<1>2. /\ UNCHANGED <<plan, mem, att, ledger>> /\ pc[r] = "exec" /\ step'[r] = step[r] + 1
      /\ pc'[r] = IF step[r] = Statements[Attempted(r).mig] THEN "record" ELSE "exec"
  BY <1>1 DEF Execute, At, Goto
<1>3. Attempted(r)' = Attempted(r) /\ Before(r)' = Before(r) /\ Change(r)' = Change(r)
  BY <1>2 DEF Attempted, Before, Change
<1>4. Attempting(r)
  BY <1>2 DEF Attempting
<1>5. AttemptStep(r)
  BY <1>4 DEF Session, WorkEffects
<1>6. Attempted(r).mig \in Migrations /\ Attempted(r).dir \in {"up", "down"}
  BY <1>4, AttemptTypes
<1>7. Statements[Attempted(r).mig] \in Nat \ {0}
  BY <1>6, EffectShape
<1>8. plan[r].mode = "apply" /\ step[r] \in 1..Statements[Attempted(r).mig]
  BY <1>2, <1>5 DEF AttemptStep
<1>9. AttemptStep(r)'
  BY <1>2, <1>3, <1>7, <1>8 DEF AttemptStep
<1>10. ASSUME NEW e \in Effects
       PROVE  Executed(r, e)' <=> Executed(r, e) \/ e = Target(r)
  <2>1. e = <<e[1], e[2]>> /\ e[2] \in 1..Statements[e[1]]
    BY EffectShape
  <2>2. e = Target(r) <=> /\ e[1] = Attempted(r).mig
                          /\ e[2] = IF Attempted(r).dir = "up" THEN step[r]
                                    ELSE Statements[Attempted(r).mig] - step[r] + 1
    BY <2>1 DEF Target
  <2>3. CASE e[1] # Attempted(r).mig
    BY <1>3, <2>2, <2>3 DEF Executed
  <2>4. CASE e[1] = Attempted(r).mig
    <3>1. e[2] \in 1..Statements[Attempted(r).mig]
      BY <2>1, <2>4
    <3>2. /\ Executed(r, e) <=> IF Attempted(r).dir = "up" THEN e[2] < step[r]
                                ELSE e[2] > Statements[Attempted(r).mig] - step[r] + 1
          /\ Executed(r, e)' <=> IF Attempted(r).dir = "up" THEN e[2] < step[r] + 1
                                 ELSE e[2] > Statements[Attempted(r).mig] - (step[r] + 1) + 1
      BY <1>2, <1>3, <1>8, <2>4 DEF Executed
    <3>3. QED
      BY <1>7, <1>8, <2>2, <2>4, <3>1, <3>2
  <2>5. QED
    BY <2>3, <2>4
<1>11. ~ Executed(r, Target(r))
  BY <1>2, <1>5, TargetShape DEF Known
<1>12. QED
  BY <1>2, <1>3, <1>8, <1>9, <1>10 DEF Changed

LEMMA ExecutedSession ==
  ASSUME Known, EffectsTrue, NEW r \in Runners, Session(r), Execute(r)
  PROVE  Session(r)'
<1>1. /\ rows \in [Tokens -> Int] /\ txn \in [Runners -> Txn] /\ touched' = touched
  BY DEF Known, TypeInv, TypeOK, Execute, world
<1>2. /\ Attempted(r)' = Attempted(r) /\ Before(r)' = Before(r) /\ Change(r)' = Change(r)
      /\ \A e \in Effects :
           Changed(r, e)' = IF e = Target(r) THEN Change(r) ELSE Changed(r, e)
      /\ pc[r] = "exec" /\ pc'[r] \in {"exec", "record"} /\ plan' = plan
      /\ AttemptStep(r)'
      /\ pc'[r] = "record" => plan[r].mode = "apply"
  BY ExecutedNext
<1>3. Attempting(r) /\ AttemptEffects(r) /\ AttemptStep(r)
  BY <1>2 DEF Session, WorkEffects, Attempting
<1>4. /\ Target(r) \in Effects /\ Target(r)[1] = Attempted(r).mig /\ ~ Executed(r, Target(r))
      /\ Change(r) \in {1, -1} /\ Before(r) \in {0, 1}
  BY <1>2, <1>3, TargetShape DEF Known
<1>5. Changed(r, Target(r)) = 0
  BY <1>4 DEF Changed
<1>6. Attempting(r)'
  BY <1>2 DEF Attempting
<1>7. pc'[r] # "exec" => MadeByHand(r)'
  BY <1>2 DEF MadeByHand
<1>8. /\ ~ txn[r].open => txn[r] = NoTxn
      /\ \A t \in Effects : t \in Tokens
  BY EffectShape DEF Session, WorkEffects
<1>9. CASE txn[r].open
  <2>1. txn' = [txn EXCEPT ![r].delta[Target(r)] = txn[r].delta[Target(r)] + Change(r)] /\ rows' = rows
    BY <1>9 DEF Execute
  <2>2. /\ txn'[r].open
        /\ txn'[r].delta = [txn[r].delta EXCEPT ![Target(r)] = txn[r].delta[Target(r)] + Change(r)]
    BY <1>1, <1>9, <2>1 DEF Txn
  <2>3. StillBefore(r) /\ \A e \in Effects : txn[r].delta[e] = Changed(r, e)
    BY <1>3, <1>9 DEF AttemptEffects
  <2>4. \A e \in Effects : txn'[r].delta[e] = Changed(r, e)'
    <3>1. txn[r].delta \in [Tokens -> Int]
      BY <1>1 DEF Txn
    <3>2. txn[r].delta[Target(r)] = 0
      BY <1>4, <1>5, <2>3
    <3>3. QED
      BY <1>2, <1>4, <1>8, <2>2, <2>3, <3>1, <3>2
  <2>5. StillBefore(r)'
    BY <1>1, <1>2, <2>1, <2>3 DEF StillBefore, Untouched
  <2>6. AttemptEffects(r)'
    BY <2>2, <2>4, <2>5 DEF AttemptEffects
  <2>7. pc'[r] # "begin"
    BY <1>2
  <2>8. QED
    BY <1>2, <1>6, <1>7, <2>2, <2>6, <2>7, WorkingSession
<1>10. CASE ~ txn[r].open
  <2>1. rows' = [rows EXCEPT ![Target(r)] = rows[Target(r)] + Change(r)] /\ txn' = txn
    BY <1>10 DEF Execute
  <2>2. \A e \in Untouched : e[1] = Attempted(r).mig => rows[e] = Before(r) + Changed(r, e)
    BY <1>3, <1>10 DEF AttemptEffects
  <2>3. ASSUME NEW e \in Untouched, e[1] = Attempted(r).mig
        PROVE  rows'[e] = Before(r) + Changed(r, e)'
    <3>1. e \in Effects /\ e \in Tokens
      BY <1>8 DEF Untouched
    <3>2. CASE e = Target(r)
      <4>1. rows[e] = Before(r) /\ rows'[e] = rows[e] + Change(r)
        BY <1>1, <1>4, <1>5, <2>1, <2>2, <2>3, <3>1, <3>2
      <4>2. QED
        BY <1>2, <3>1, <3>2, <4>1
    <3>3. CASE e # Target(r)
      BY <1>1, <1>2, <2>1, <2>2, <2>3, <3>1, <3>3
    <3>4. QED
      BY <3>2, <3>3
  <2>4. AttemptEffects(r)'
    BY <1>1, <1>2, <1>10, <2>1, <2>3 DEF AttemptEffects, Untouched
  <2>5. QED
    BY <1>2, <1>6, <1>7, <1>8, <1>10, <2>1, <2>4, WorkingSession
<1>11. QED
  BY <1>9, <1>10

LEMMA CompletedSession ==
  ASSUME Known, NEW r \in Runners, Completed(r), txn'[r] = NoTxn, MadeByHand(r), UNCHANGED touched
  PROVE  Session(r)'
<1>1. pc \in [Runners -> PCs] /\ plan \in [Runners -> Plan]
  BY DEF Known, TypeInv, TypeOK
<1>2. pc'[r] \in {"mark", "close"}
  BY <1>1 DEF Completed, Goto
<1>3. plan'[r].mode = plan[r].mode /\ plan'[r].todo \subseteq plan[r].todo
  <2>1. plan'[r] = [plan[r] EXCEPT !.todo = plan[r].todo \ {Attempted(r).mig}] /\ plan[r] \in Plan
    BY <1>1 DEF Completed
  <2>2. QED
    BY <2>1 DEF Plan
<1>4. MadeByHand(r)'
  BY <1>3 DEF MadeByHand
<1>5. ~ Attempting(r)' /\ pc'[r] \notin {"exec", "record", "commit", "catch", "planning", "planned",
                                         "locking", "verify", "inspecting"}
  BY <1>2 DEF Attempting
<1>6. WorkEffects(r)'
  BY <1>4, <1>5 DEF WorkEffects, NoTxn
<1>7. QED
  BY <1>5, <1>6 DEF Session, AdoptsForwards, OperatorSees

LEMMA RecordedSession ==
  ASSUME Known, EffectsTrue, NEW r \in Runners, Session(r), Record(r)
  PROVE  Session(r)'
<1>1. pc \in [Runners -> PCs]
  BY DEF Known, TypeInv, TypeOK
<1>2. pc[r] = "record" /\ UNCHANGED <<rows, touched, txn>>
  BY DEF Record, At, world
<1>3. Attempting(r) /\ AttemptEffects(r) /\ AttemptStep(r) /\ MadeByHand(r)
      /\ (~ txn[r].open => txn[r] = NoTxn)
  BY <1>2 DEF Session, WorkEffects, Attempting
<1>4. Applying(r)
  BY <1>3 DEF Known, DocumentInv, KnowsDocument, AttemptFits
<1>5. CASE txn[r].open
  <2>1. UNCHANGED <<plan, mem, att, step>> /\ pc'[r] = "commit"
    BY <1>1, <1>5 DEF Record, Goto, client
  <2>2. /\ Attempted(r)' = Attempted(r) /\ Before(r)' = Before(r) /\ Change(r)' = Change(r)
        /\ \A e : Executed(r, e)' <=> Executed(r, e)
    BY <1>2, <2>1 DEF Attempted, Before, Change, Executed
  <2>3. \A e : Changed(r, e)' = Changed(r, e)
    BY <2>2 DEF Changed
  <2>4. AttemptEffects(r)'
    BY <1>2, <1>3, <1>5, <2>2, <2>3 DEF AttemptEffects, StillBefore, Untouched
  <2>5. AttemptStep(r)' /\ Attempting(r)'
    BY <1>2, <1>3, <1>4, <1>5, <2>1, <2>2 DEF AttemptStep, Attempting, Applying
  <2>6. MadeByHand(r)' /\ txn'[r].open /\ pc'[r] # "begin"
    BY <1>2, <1>3, <1>5, <2>1 DEF MadeByHand
  <2>7. QED
    BY <2>4, <2>5, <2>6, WorkingSession
<1>6. CASE ~ txn[r].open
  <2>1. Completed(r) /\ txn'[r] = NoTxn
    BY <1>2, <1>3, <1>6 DEF Record
  <2>2. QED
    BY <1>2, <1>3, <2>1, CompletedSession
<1>7. QED
  BY <1>5, <1>6

LEMMA CommittedSession ==
  ASSUME Known, NEW r \in Runners, Session(r), Applying(r), Commit(r)
  PROVE  Session(r)'
<1>1. txn \in [Runners -> Txn]
  BY DEF Known, TypeInv, TypeOK
<1>2. pc[r] = "commit" /\ Completed(r) /\ UNCHANGED touched /\ txn'[r] = NoTxn
  BY <1>1 DEF Commit, At, world, DropTxn
<1>3. MadeByHand(r)
  BY <1>2 DEF Session, WorkEffects
<1>4. QED
  BY <1>2, <1>3, CompletedSession

LEMMA CaughtSession ==
  ASSUME NEW r \in Runners, pc'[r] = "catch", ~ txn'[r].open => txn'[r] = NoTxn,
         txn'[r].open => StillBefore(r)'
  PROVE  Session(r)'
<1>1. ~ Attempting(r)' /\ pc'[r] \notin {"mark", "begin", "record", "commit", "planning", "planned",
                                         "locking", "verify", "inspecting"}
  BY DEF Attempting
<1>2. QED
  BY <1>1 DEF Session, WorkEffects, AdoptsForwards, OperatorSees

LEMMA FailingSession ==
  ASSUME Known, EffectsTrue, NEW r \in Runners, Session(r),
         Fail(r) \/ (CommitRejected(r) /\ Applying(r))
  PROVE  Session(r)'
<1>1. pc \in [Runners -> PCs] /\ txn \in [Runners -> Txn]
  BY DEF Known, TypeInv, TypeOK
<1>2. pc'[r] = "catch"
  BY <1>1 DEF Fail, CommitRejected, Goto
<1>3. CASE CommitRejected(r)
  <2>1. txn'[r] = NoTxn
    BY <1>1, <1>3 DEF CommitRejected, DropTxn
  <2>2. ~ txn'[r].open
    BY <2>1 DEF NoTxn
  <2>3. QED
    BY <1>2, <2>1, <2>2, CaughtSession
<1>4. CASE Fail(r)
  <2>1. UNCHANGED <<rows, touched, txn, plan, mem, att>> /\ pc[r] \in {"begin", "exec", "record"}
    BY <1>4 DEF Fail, database, world, client
  <2>2. AttemptEffects(r) /\ (~ txn[r].open => txn[r] = NoTxn)
    BY <2>1 DEF Session, WorkEffects, Attempting
  <2>3. StillBefore(r)' <=> StillBefore(r)
    BY <2>1 DEF StillBefore, Untouched, Attempted, Before
  <2>4. txn[r].open => StillBefore(r)
    BY <2>2 DEF AttemptEffects
  <2>5. QED
    BY <1>2, <2>1, <2>2, <2>3, <2>4, CaughtSession
<1>5. QED
  BY <1>3, <1>4

(***************************************************************************)
(* The step.                                                               *)
(***************************************************************************)
LEMMA OwnSession ==
  ASSUME Known, CatalogTells, EffectsInv, [Next]_vars, NEW r \in Runners, Run(r) \/ Operate(r)
  PROVE  Session(r)'
<1>1. EffectsTrue /\ Session(r) /\ \A p \in Runners : WorkEffects(p)
  BY DEF EffectsInv, Session
<1>2. CASE Run(r)
  <2>1. CASE AcquireLock(r)
    BY <1>1, <2>1, ConnectingSession
  <2>2. CASE VerifyPlan(r) \/ VerifyBaseline(r) \/ VerifyResolution(r)
    BY <1>1, <2>2, VerifiedPlanSession, VerifiedBaselineSession, VerifiedResolutionSession
  <2>3. CASE Mark(r) \/ Begin(r) \/ Execute(r) \/ Record(r)
    BY <1>1, <2>3, MarkedSession, BegunSession, ExecutedSession, RecordedSession
  <2>4. CASE Commit(r) \/ CommitRejected(r)
    BY <1>1, <2>4, CommittedSession, FailingSession, EndingSession
  <2>5. CASE Fail(r)
    BY <1>1, <2>5, FailingSession
  <2>6. CASE BackendEnds(r) \/ Close(r) \/ GiveUp(r) \/ Catch(r) \/ Refuse(r)
    BY <1>1, <2>6, EndingSession
  <2>7. QED
    BY <1>2, <2>1, <2>2, <2>3, <2>4, <2>5, <2>6 DEF Run
<1>3. CASE Operate(r)
  BY <1>1, <1>3, PlanningSession, InspectingSession, AttestingSession, ConnectingSession,
     LosingSession DEF Operate
<1>4. QED
  BY <1>2, <1>3

\* A session that does not step keeps what it knows.
LEMMA OtherSession ==
  ASSUME Known, EffectsInv, [Next]_vars, NEW q \in Runners, UNCHANGED SessionOf(q),
         \/ pc[q] \notin Connected
         \/ touched \subseteq touched' /\ \A e \in Effects \ touched' : rows'[e] = rows[e],
         \A id \in AttemptIds : ledger.attempts[id] # NoAttempt => ledger'.attempts[id] # NoAttempt
  PROVE  Session(q)'
<1>1. WorkEffects(q) /\ AdoptsForwards(q) /\ OperatorSees(q) /\ \A p \in Runners : WorkEffects(p)
  BY DEF EffectsInv, Session
<1>2. WorkEffects(q)'
  BY <1>1, WorkKept
<1>3. AdoptsForwards(q)'
  BY <1>1, ForwardsKept
<1>4. pc'[q] = pc[q] /\ plan'[q] = plan[q] /\ mem'[q] = mem[q] /\ att'[q] = att[q]
  BY DEF SessionOf
<1>5. ASSUME pc[q] = "inspecting"
      PROVE  mem'[q].attempts[att'[q]] \in Attempt /\ ledger'.attempts[att'[q]] # NoAttempt
  <2>1. att[q] \in AttemptIds
    BY <1>5 DEF Known, TypeInv, KnowsAttempt
  <2>2. QED
    BY <1>1, <1>4, <1>5, <2>1 DEF OperatorSees
<1>6. ASSUME pc[q] \in {"planned", "locking", "verify"}, plan[q].mode \in Actions
      PROVE  Attested(q)'
  <2>1. Attested(q) /\ att[q] \in AttemptIds /\ ~ AtWork(q) /\ ~ AtWork(q)'
    BY <1>1, <1>4, <1>6 DEF OperatorSees, Known, TypeInv, KnowsAttempt, AtWork, Attempting
  <2>2. QED
    BY <1>1, <1>4, <1>6, <2>1, SeesKept
<1>7. OperatorSees(q)'
  BY <1>4, <1>5, <1>6 DEF OperatorSees
<1>8. QED
  BY <1>2, <1>3, <1>7 DEF Session

LEMMA EffectsStep == Known /\ NoFalseDown /\ CatalogTells /\ EffectsInv /\ [Next]_vars => EffectsInv'
<1> SUFFICES ASSUME Known, NoFalseDown, CatalogTells, EffectsInv, [Next]_vars PROVE EffectsInv'
  OBVIOUS
<1>1. EffectsTrue /\ \A p \in Runners : WorkEffects(p)
  BY DEF EffectsInv, Session
<1>2. ASSUME NEW r \in Runners, Run(r) \/ Operate(r) PROVE EffectsInv'
  <2>1. UNCHANGED <<rows, ledger, touched>> \/ Moves(r)
    BY <1>2, SessionMoves
  <2>2. EffectsTrue'
    <3>1. CASE Moves(r)
      BY <1>1, <3>1, MovesTruth
    <3>2. CASE UNCHANGED <<rows, ledger, touched>>
      BY <1>1, <3>2 DEF EffectsTrue, Counted, TruthOf, DownsApplied, Untouched, Present
    <3>3. QED
      BY <2>1, <3>1, <3>2
  <2>3. Session(r)'
    BY <1>2, OwnSession
  <2>4. ASSUME NEW q \in Runners, q # r PROVE Session(q)'
    <3>1. UNCHANGED SessionOf(q)
      BY <1>2, <2>4, OthersSession DEF Known, TypeInv
    <3>2. \/ pc[q] \notin Connected
          \/ touched \subseteq touched' /\ \A e \in Effects \ touched' : rows'[e] = rows[e]
      BY <2>1, <2>4, MovesConnected
    <3>3. \A id \in AttemptIds : ledger.attempts[id] # NoAttempt => ledger'.attempts[id] # NoAttempt
      BY <2>1, AttemptsStay
    <3>4. QED
      BY <3>1, <3>2, <3>3, OtherSession
  <2>5. QED
    BY <2>2, <2>3, <2>4 DEF EffectsInv
<1>3. CASE ManualDdl \/ Repair \/ EditFiles \/ UNCHANGED vars
  <2>1. UNCHANGED <<ledger, pc, plan, mem, att, step, txn>>
    BY <1>3 DEF ManualDdl, Repair, EditFiles, vars, database, client
  <2>2. EffectsTrue'
    <3>1. CASE ManualDdl \/ Repair
      BY <1>1, <3>1, ByHandTruth
    <3>2. CASE EditFiles \/ UNCHANGED vars
      <4>1. UNCHANGED <<rows, ledger, touched>>
        BY <3>2 DEF EditFiles, vars, database
      <4>2. QED
        BY <1>1, <4>1 DEF EffectsTrue, Counted, TruthOf, DownsApplied, Untouched, Present
    <3>3. QED
      BY <1>3, <3>1, <3>2
  <2>3. ASSUME NEW q \in Runners PROVE Session(q)'
    <3>1. UNCHANGED SessionOf(q)
      BY <2>1 DEF SessionOf
    <3>2. \/ pc[q] \notin Connected
          \/ touched \subseteq touched' /\ \A e \in Effects \ touched' : rows'[e] = rows[e]
      <4>1. CASE ManualDdl
        <5>1. PICK o \in Objects : /\ rows' = [rows EXCEPT ![o] = IF @ > 0 THEN 0 ELSE 1]
                                   /\ touched' = touched \cup {o}
          BY <4>1 DEF ManualDdl
        <5>2. rows \in [Tokens -> Int] /\ \A e \in Effects : e \in Tokens
          BY EffectShape DEF Known, TypeInv, TypeOK
        <5>3. QED
          BY <5>1, <5>2
      <4>2. CASE Repair
        BY <4>2, RunnerAssumption DEF Repair, Known, LedgerInv, LockHeld
      <4>3. CASE EditFiles \/ UNCHANGED vars
        BY <4>3 DEF EditFiles, vars, database
      <4>4. QED
        BY <1>3, <4>1, <4>2, <4>3
    <3>3. QED
      BY <2>1, <3>1, <3>2, OtherSession
  <2>4. QED
    BY <2>2, <2>3 DEF EffectsInv
<1>4. QED
  BY <1>2, <1>3 DEF Next

LEMMA EffectsInit == Init => EffectsInv
<1> SUFFICES ASSUME Init PROVE EffectsInv
  OBVIOUS
<1>1. Open(ledger) = {} /\ AppliedIds(ledger) = {}
  BY EmptyLedger DEF Init, EmptyHistory, AppliedIds
<1>2. \A e \in Untouched : rows[e] = 0
  BY EffectShape DEF Init, Untouched
<1>3. EffectsTrue
  BY <1>1, <1>2 DEF EffectsTrue, Counted, TruthOf, DownsApplied, Present
<1>4. ASSUME NEW r \in Runners PROVE Session(r)
  <2>1. pc[r] = "idle" /\ txn[r] = NoTxn
    BY DEF Init
  <2>2. ~ Attempting(r)
    BY <2>1 DEF Attempting
  <2>3. WorkEffects(r)
    BY <2>1, <2>2 DEF WorkEffects, NoTxn
  <2>4. QED
    BY <2>1, <2>3 DEF Session, AdoptsForwards, OperatorSees
<1>5. QED
  BY <1>3, <1>4 DEF EffectsInv

LEMMA EffectsInvariant == NoFalseDown /\ CatalogTells => (Spec => []EffectsInv)
<1> SUFFICES ASSUME NoFalseDown, CatalogTells PROVE Spec => []EffectsInv
  OBVIOUS
<1>1. TypeInv /\ LedgerInv /\ DocumentInv /\ CatchClosed /\ EffectsInv /\ [Next]_vars => EffectsInv'
  BY EffectsStep DEF Known
<1>2. QED
  BY <1>1, EffectsInit, TypeInvariant, LedgerInvariant, DocumentInvariant, CatchClosedInvariant, PTL
     DEF Spec

\* Nobody changes data by hand.
TouchedIsSchema == touched \subseteq Objects

LEMMA TouchedIsSchemaInvariant == Spec => []TouchedIsSchema
<1>1. Init => TouchedIsSchema
  BY RunnerAssumption DEF Init, TouchedIsSchema
<1>2. TouchedIsSchema /\ [Next]_vars => TouchedIsSchema'
  <2> SUFFICES ASSUME TouchedIsSchema, [Next]_vars PROVE touched' \subseteq Objects
    BY DEF TouchedIsSchema
  <2>1. CASE ManualDdl \/ Repair \/ EditFiles \/ UNCHANGED vars
    BY <2>1 DEF TouchedIsSchema, ManualDdl, Repair, EditFiles, vars
  <2>2. ASSUME NEW r \in Runners, Run(r) \/ Operate(r) PROVE touched' = touched
    BY <2>2, SessionMoves DEF Moves, Marks, Executes, Lands, Saves, SavesFailure
  <2>3. QED
    BY <2>1, <2>2 DEF Next, TouchedIsSchema
<1>3. QED
  BY <1>1, <1>2, PTL DEF Spec

-------------------------------------------------------------------------------
(***************************************************************************)
(* What the ledger promises about the database.                            *)
(***************************************************************************)

(* The ledger tells the truth: when no session is at work and no outcome is
   open, an effect nobody touched by hand is in the database exactly if its
   migration is applied - through lost sessions, rejected commits, failed
   statements outside a transaction, concurrent and stale plans, baselines and
   resolutions.  The first hypothesis: no commit of a down is reported as
   failed after it took effect, which the catch block cannot recognise.  The
   second: an operator attests data only while no session is at work. *)
THEOREM LedgerIsTrue == NoFalseDown /\ CatalogTells => (Spec => []LedgerHonest)
<1> SUFFICES ASSUME NoFalseDown, CatalogTells PROVE Spec => []LedgerHonest
  OBVIOUS
<1>1. LedgerInv /\ EffectsInv => LedgerHonest
  <2> SUFFICES ASSUME LedgerInv, EffectsInv, NothingUnresolved(ledger) PROVE TruthOf(ledger) /\ Open(ledger) = {}
    BY DEF LedgerHonest, Quiescent, TruthOf, InDoubt, Present, Untouched
  <2>1. Unresolved(ledger) = Open(ledger)
    BY OpenIsUnresolved DEF LedgerInv, Sound
  <2>2. QED
    BY <2>1 DEF NothingUnresolved, EffectsInv, EffectsTrue
<1>2. QED
  BY <1>1, LedgerInvariant, EffectsInvariant, PTL

(* A data statement, which no catalog comparison can see, is never in place
   twice nor taken away twice, in any state: also while sessions are at work,
   after a crash in the middle of a migration that runs outside a
   transaction, and between an operator's look and the resolution. *)
THEOREM DataChangesOnce == NoFalseDown /\ CatalogTells => (Spec => []EffectsOnce)
<1> SUFFICES ASSUME NoFalseDown, CatalogTells PROVE Spec => []EffectsOnce
  OBVIOUS
<1>1. TouchedIsSchema /\ EffectsInv => EffectsOnce
  BY EffectShape DEF TouchedIsSchema, EffectsInv, EffectsTrue, Counted, Untouched, EffectsOnce
<1>2. QED
  BY <1>1, TouchedIsSchemaInvariant, EffectsInvariant, PTL

-------------------------------------------------------------------------------
(***************************************************************************)
(* The recorded head is the live schema.                                   *)
(***************************************************************************)
\* Outside an attempt or a commit a session has no transaction open.
TxnClosed(r) ==
  /\ ~ txn[r].open => txn[r] = NoTxn
  /\ txn[r].open => pc[r] \in {"exec", "record", "commit", "catch"}

HeadLive(h) == Open(h) = {} /\ h.applied # << >> => ExpectedHead(h) = Catalog(rows)

\* An attempt in doubt started from the recorded head; a down goes back to the one before.
Starts(h, a) ==
  /\ h.applied # << >> => a.before = ExpectedHead(h)
  /\ a.dir = "down" => a.expected = CatalogBefore(h.applied, a.mig)
StartsKnown(h) == \A i \in Open(h) : Starts(h, h.attempts[i])

\* What an attempt has changed it can still take back, and what is about to be
\* committed is what the document says.
HeadSession(r) ==
  /\ AtWork(r) => Starts(mem[r], Attempted(r))
  /\ AtWork(r) /\ (pc[r] = "begin" \/ txn[r].open) => Catalog(rows) = Attempted(r).before
  /\ pc[r] = "commit" =>
       IF Applying(r) THEN OutcomeAsPlanned(r)
       ELSE (\A t \in Tokens : txn[r].delta[t] = 0) /\ HeadLive(mem[r])

HeadTrue == HeadLive(ledger) /\ StartsKnown(ledger)

HeadInv == drifts = 0 => HeadTrue /\ \A r \in Runners : HeadSession(r)

LEMMA TxnClosedStep == TypeOK /\ (\A r \in Runners : TxnClosed(r)) /\ [Next]_vars => \A r \in Runners : TxnClosed(r)'
<1> SUFFICES ASSUME TypeOK, \A r \in Runners : TxnClosed(r), [Next]_vars, NEW q \in Runners
             PROVE  TxnClosed(q)'
  OBVIOUS
<1>1. ASSUME NEW r \in Runners, Run(r) \/ Operate(r), q # r PROVE TxnClosed(q)'
  <2>1. pc'[q] = pc[q] /\ txn'[q] = txn[q]
    BY <1>1, OwnState
  <2>2. QED
    BY <2>1 DEF TxnClosed
<1>2. CASE Run(q) \/ Operate(q)
  <2>1. TxnClosed(q) /\ pc \in [Runners -> PCs] /\ txn \in [Runners -> Txn]
    BY DEF TypeOK
  <2>2. CASE \/ AcquireLock(q) \/ VerifyPlan(q) \/ Mark(q) \/ StartPlan(q) \/ BuildPlan(q) \/ Inspect(q)
             \/ Attest(q) \/ Connect(q)
    <3>1. txn' = txn /\ pc[q] \notin {"exec", "record", "commit", "catch"}
      BY <2>2 DEF AcquireLock, VerifyPlan, Mark, StartPlan, BuildPlan, Inspect, Attest, Connect, At
    <3>2. QED
      BY <2>1, <3>1 DEF TxnClosed
  <2>3. CASE GiveUp(q) \/ Refuse(q)
    <3>1. txn' = txn /\ pc[q] \notin {"exec", "record", "commit", "catch"}
      BY <2>3 DEF GiveUp, Refuse, MayGiveUp
    <3>2. QED
      BY <2>1, <3>1 DEF TxnClosed
  <2>4. CASE Commit(q) \/ CommitRejected(q) \/ Catch(q) \/ Close(q) \/ BackendEnds(q)
    <3>1. txn'[q] = NoTxn
      BY <2>1, <2>4 DEF Commit, CommitRejected, Catch, Close, BackendEnds, DropTxn
    <3>2. QED
      BY <3>1 DEF TxnClosed, NoTxn
  <2>5. CASE VerifyBaseline(q) \/ VerifyResolution(q)
    <3>1. txn'[q].open /\ pc'[q] = "commit"
      BY <2>1, <2>5 DEF VerifyBaseline, VerifyResolution, Goto, Txn
    <3>2. QED
      BY <3>1 DEF TxnClosed
  <2>6. CASE Begin(q)
    <3>1. pc'[q] \in {"exec", "record"} /\ pc[q] = "begin"
      BY <2>1, <2>6 DEF Begin, Goto, At
    <3>2. txn[q] = NoTxn
      BY <2>1, <3>1 DEF TxnClosed, Txn
    <3>3. ~ txn'[q].open => txn'[q] = NoTxn
      <4>1. txn' = [txn EXCEPT ![q].open = (Attempted(q).mig \in Transactional \/ plan[q].mode = "reconcile")]
        BY <2>6 DEF Begin
      <4>2. PICK b \in BOOLEAN : txn' = [txn EXCEPT ![q].open = b]
        <5>1. (Attempted(q).mig \in Transactional \/ plan[q].mode = "reconcile") \in BOOLEAN
          OBVIOUS
        <5>2. QED
          BY <4>1, <5>1
      <4>3. txn'[q] = [NoTxn EXCEPT !.open = b]
        BY <2>1, <3>2, <4>2
      <4>4. txn'[q] = [open |-> b, delta |-> NoTxn.delta] /\ NoTxn = [open |-> FALSE, delta |-> NoTxn.delta]
        BY <4>3 DEF NoTxn
      <4>5. ASSUME ~ txn'[q].open PROVE txn'[q] = NoTxn
        <5>1. txn'[q].open = b
          BY <4>4
        <5>2. b = FALSE
          BY <4>2, <4>5, <5>1, Zenon
        <5>3. QED
          BY <4>4, <5>2
      <4>6. QED
        BY <4>5
    <3>4. QED
      BY <3>1, <3>3 DEF TxnClosed
  <2>7. CASE Execute(q)
    <3>1. pc'[q] \in {"exec", "record"} /\ pc[q] = "exec"
      BY <2>1, <2>7 DEF Execute, Goto, At
    <3>2. CASE txn[q].open
      <4>1. txn'[q].open = txn[q].open
        BY <2>1, <2>7, <3>2 DEF Execute, Txn
      <4>2. QED
        BY <3>1, <3>2, <4>1 DEF TxnClosed
    <3>3. CASE ~ txn[q].open
      <4>1. txn' = txn
        BY <2>7, <3>3 DEF Execute
      <4>2. QED
        BY <2>1, <3>1, <4>1 DEF TxnClosed
    <3>4. QED
      BY <3>2, <3>3
  <2>8. CASE Record(q) \/ Fail(q) \/ Lose(q)
    <3>1. txn' = txn /\ (txn[q].open => pc'[q] \in {"exec", "record", "commit", "catch"})
      BY <2>1, <2>8 DEF Record, Fail, Lose, Goto, At, TxnClosed
    <3>2. QED
      BY <2>1, <3>1 DEF TxnClosed
  <2>9. QED
    BY <1>2, <2>2, <2>3, <2>4, <2>5, <2>6, <2>7, <2>8 DEF Run, Operate
<1>3. CASE ManualDdl \/ Repair \/ EditFiles \/ UNCHANGED vars
  <2>1. txn' = txn /\ pc' = pc
    BY <1>3 DEF ManualDdl, Repair, EditFiles, vars
  <2>2. QED
    BY <2>1 DEF TxnClosed
<1>4. QED
  BY <1>1, <1>2, <1>3 DEF Next

\* What a head is after an entry is put on, or the last one taken off.
LEMMA HeadAfter ==
  ASSUME NEW h \in History, NEW d \in History, NEW id \in Open(h), WellKept(h),
         d.applied = IF h.attempts[id].dir = "up"
                     THEN Append(h.applied, ResolvedEntry(h.attempts[id], id))
                     ELSE Without(h.applied, h.attempts[id].mig),
         d.applied # << >>,
         h.attempts[id].dir # "up" => /\ h.attempts[id].mig \in AppliedIds(h)
                                      /\ h.attempts[id].expected = CatalogBefore(h.applied, h.attempts[id].mig)
  PROVE  ExpectedHead(d) = h.attempts[id].expected
<1> DEFINE a == h.attempts[id]
           e == ResolvedEntry(a, id)
<1>1. /\ id \in AttemptIds /\ a \in Attempt
      /\ h.applied \in Seq(Entry) /\ AppliedIds(h) \subseteq Migrations /\ AtTop(h, a)
      /\ AppliedAscending(h)
  BY HistoryTypes DEF Open, WellKept, OpenAtTop
<1>2. d.applied = IF a.dir = "up" THEN Append(h.applied, e) ELSE Without(h.applied, a.mig)
  OBVIOUS
<1>3. a.mig \in Migrations /\ e.catalog = a.expected /\ e \in Entry
  BY <1>1 DEF Attempt, Entry, ResolvedEntry
<1> HIDE DEF a, e
<1>4. CASE a.dir = "up"
  <2>1. d.applied[Len(d.applied)] = e
    <3>1. Append(h.applied, e)[Len(h.applied) + 1] = e /\ Len(Append(h.applied, e)) = Len(h.applied) + 1
      BY <1>1, <1>3
    <3>2. d.applied = Append(h.applied, e)
      BY <1>2, <1>4
    <3>3. QED
      BY <3>1, <3>2
  <2>2. QED
    BY <1>3, <2>1 DEF ExpectedHead, a
<1>5. CASE a.dir # "up"
  <2> DEFINE k == PositionOf(h.applied, a.mig)
             n == Len(h.applied)
  <2>1. \E i \in DOMAIN h.applied : h.applied[i].id = a.mig
    BY <1>5 DEF AppliedIds, a
  <2>2. /\ k \in 1..n /\ h.applied[k].id = a.mig
        /\ Without(h.applied, a.mig) \in Seq(Entry)
        /\ Len(Without(h.applied, a.mig)) = n - 1
        /\ \A j \in 1..(n - 1) :
             Without(h.applied, a.mig)[j] = h.applied[IF j < k THEN j ELSE j + 1]
    BY <1>1, <2>1, WithoutPositions
  <2>3. CatalogBefore(h.applied, a.mig) = IF k \in DOMAIN h.applied /\ k > 1 THEN h.applied[k - 1].catalog ELSE {}
    BY DEF CatalogBefore
  <2> HIDE DEF k
  <2>4. n \in Nat /\ DOMAIN h.applied = 1..n
    BY <1>1
  <2> HIDE DEF n
  <2>5. k = n
    <3>1. SUFFICES ASSUME k < n PROVE FALSE
      BY <2>2, <2>4
    <3>2. n \in DOMAIN h.applied /\ k \in DOMAIN h.applied
      BY <2>2, <2>4, <3>1
    <3>3. h.applied[k].id < h.applied[n].id
      BY <1>1, <3>1, <3>2 DEF AppliedAscending
    <3>4. h.applied[n].id \in AppliedIds(h)
      BY <3>2 DEF AppliedIds
    <3>5. h.applied[n].id <= a.mig
      BY <1>1, <1>5, <3>4 DEF AtTop
    <3>6. h.applied[n].id \in Int /\ a.mig \in Int
      BY <1>1, <1>3, <3>4 DEF Migrations
    <3>7. QED
      BY <2>2, <3>3, <3>5, <3>6
  <2>6. n > 1 /\ d.applied = Without(h.applied, a.mig)
    <3>1. d.applied = Without(h.applied, a.mig)
      BY <1>2, <1>5
    <3>2. Len(Without(h.applied, a.mig)) # 0
      BY <2>2, <3>1, EmptySeq
    <3>3. QED
      BY <2>2, <2>4, <3>1, <3>2
  <2>7. d.applied[Len(d.applied)] = h.applied[n - 1]
    <3>1. n - 1 \in 1..(n - 1) /\ n - 1 < k
      BY <2>4, <2>5, <2>6
    <3>2. QED
      BY <2>2, <2>6, <3>1
  <2>8. ExpectedHead(d) = h.applied[n - 1].catalog
    BY <2>7 DEF ExpectedHead
  <2>9. CatalogBefore(h.applied, a.mig) = h.applied[n - 1].catalog
    BY <2>2, <2>3, <2>4, <2>5, <2>6
  <2>10. QED
    BY <1>5, <2>8, <2>9 DEF a
<1>6. QED
  BY <1>4, <1>5

LEMMA SameCatalog ==
  ASSUME NEW s, NEW t, \A o \in Tokens : s[o] = t[o]
  PROVE  Catalog(s) = Catalog(t)
BY EffectShape DEF Catalog

LEMMA UnchangedSeen ==
  ASSUME TypeOK, NEW r \in Runners, \A t \in Tokens : txn[r].delta[t] = 0
  PROVE  Captured(r) = Catalog(rows)
<1>1. \A t \in Tokens : rows[t] \in Int
  BY DEF TypeOK
<1>2. \A t \in Tokens : Seen(r)[t] = rows[t]
  BY <1>1 DEF Seen
<1>3. QED
  BY <1>2, SameCatalog DEF Captured

LEMMA ClosedSees ==
  ASSUME TypeOK, NEW r \in Runners, TxnClosed(r), ~ txn[r].open
  PROVE  Captured(r) = Catalog(rows)
<1>1. \A t \in Tokens : txn[r].delta[t] = 0
  BY DEF TxnClosed, NoTxn
<1>2. QED
  BY <1>1, UnchangedSeen

(***************************************************************************)
(* After each move the head is live.                                       *)
(***************************************************************************)
LEMMA MarkedHead ==
  ASSUME Known, HeadTrue, NEW r \in Runners, TxnClosed(r), Marks(r)
  PROVE  HeadTrue'
<1>1. PICK m \in Migrations, id \in AttemptIds :
        IsNext(r, m) /\ IsFresh(mem[r], id) /\ ledger' = MarkedDoc(r, m, id)
  BY DEF Marks
<1>2. /\ mem[r] = ledger /\ Open(ledger) = {} /\ EntriesSettled(mem[r]) /\ TypeOK
      /\ mem[r] \in History
  BY DEF Marks, Known, LedgerInv, KnowsLedger, TypeInv, TypeOK
<1>3. Open(ledger') = {id} /\ ledger'.applied = ledger.applied
      /\ ledger'.attempts[id] = RunningAttempt(r, m)
  <2>1. Open(ledger') = {id}
    BY <1>1, <1>2, MarkedLedger
  <2>2. /\ MarkedDoc(r, m, id).applied = mem[r].applied
        /\ MarkedDoc(r, m, id).attempts = [mem[r].attempts EXCEPT ![id] = RunningAttempt(r, m)]
    BY <1>1, <1>2, MarkedType
  <2>3. mem[r].attempts \in [AttemptIds -> Attempt \cup {NoAttempt}]
    BY <1>2 DEF History
  <2>4. QED
    BY <1>1, <1>2, <2>1, <2>2, <2>3
<1>4. Captured(r) = Catalog(rows)
  <2>1. ~ txn[r].open
    BY DEF Marks, TxnClosed
  <2>2. QED
    BY <1>2, <2>1, ClosedSees
<1>5. /\ RunningAttempt(r, m).before = Captured(r) /\ RunningAttempt(r, m).dir = plan[r].dir
      /\ RunningAttempt(r, m).expected = PlannedOutcome(r, m) /\ RunningAttempt(r, m).mig = m
  BY DEF RunningAttempt
<1>6. plan[r].dir = "down" => PlannedOutcome(r, m) = CatalogBefore(mem[r].applied, m)
  BY DEF PlannedOutcome
<1>7. ledger.applied # << >> => ExpectedHead(ledger) = Catalog(rows)
  BY <1>2 DEF HeadTrue, HeadLive
<1>8. Starts(ledger', RunningAttempt(r, m))
  BY <1>2, <1>3, <1>4, <1>5, <1>6, <1>7 DEF Starts, ExpectedHead
<1>9. StartsKnown(ledger)' /\ HeadLive(ledger)'
  BY <1>3, <1>8 DEF StartsKnown, HeadLive
<1>10. QED
  BY <1>9 DEF HeadTrue

LEMMA LandedHead ==
  ASSUME Known, NEW r \in Runners, TxnClosed(r), HeadSession(r), Lands(r)
  PROVE  HeadTrue'
<1>1. /\ att[r] \in AttemptIds /\ Attempted(r) \in Attempt /\ mem[r] \in History
      /\ Open(mem[r]) = {att[r]} /\ WellKept(mem[r]) /\ EntriesSettled(mem[r]) /\ TypeOK
      /\ ledger' = AppliedDoc(r) /\ Attempted(r).dir \in {"up", "down"} /\ Attempting(r)
  BY AttemptTypes DEF Lands, Known, TypeInv
<1>2. Catalog(rows') = Attempted(r).expected
  <2>1. CASE pc[r] = "record"
    <3>1. ~ txn[r].open /\ rows' = rows /\ OutcomeAsPlanned(r)
      BY <2>1 DEF Lands
    <3>2. QED
      BY <1>1, <3>1, ClosedSees DEF OutcomeAsPlanned
  <2>2. CASE pc[r] = "commit"
    <3>1. rows' = Seen(r) /\ OutcomeAsPlanned(r)
      BY <1>1, <2>2 DEF Lands, HeadSession, Attempting
    <3>2. QED
      BY <3>1 DEF OutcomeAsPlanned, Captured
  <2>3. QED
    BY <2>1, <2>2 DEF Lands
<1>3. Open(ledger') = {}
  BY <1>1, AppliedLedger
<1>4. /\ AppliedDoc(r) \in History
      /\ AppliedDoc(r).applied =
           IF Attempted(r).dir = "up" THEN Append(mem[r].applied, ResolvedEntry(Attempted(r), att[r]))
           ELSE Without(mem[r].applied, Attempted(r).mig)
  BY <1>1, AppliedLanded DEF AppliedDoc, AppliedEntry, ResolvedEntry
<1>5. Attempted(r).dir # "up" => /\ Attempted(r).mig \in AppliedIds(mem[r])
                                 /\ Attempted(r).expected = CatalogBefore(mem[r].applied, Attempted(r).mig)
  <2>1. PlanFits(r) /\ AttemptFits(r)
    BY <1>1 DEF Known, DocumentInv, KnowsDocument
  <2>2. Attempted(r).dir # "up" => Attempted(r).mig \in AppliedIds(mem[r])
    BY <1>1, <2>1 DEF PlanFits, AttemptFits, IsNext
  <2>3. QED
    BY <1>1, <2>2 DEF HeadSession, AtWork, Starts
<1>6. AppliedDoc(r).applied # << >> => ExpectedHead(AppliedDoc(r)) = Attempted(r).expected
  <2>1. att[r] \in Open(mem[r]) /\ Attempted(r) = mem[r].attempts[att[r]]
    BY <1>1 DEF Attempted
  <2>2. QED
    BY <1>1, <1>4, <1>5, <2>1, HeadAfter
<1>7. HeadLive(ledger)' /\ StartsKnown(ledger)'
  BY <1>1, <1>2, <1>3, <1>6 DEF HeadLive, StartsKnown
<1>8. QED
  BY <1>7 DEF HeadTrue

\* What a session that only saves a document is about to save has nothing open.
LEMMA NothingOpenSaved ==
  ASSUME Known, NEW r \in Runners, pc[r] = "commit", ~ Applying(r)
  PROVE  Open(mem[r]) = {}
<1>1. CASE Resolving(r)
  <2>1. /\ att[r] \in AttemptIds /\ IsUnresolved(ledger, att[r]) /\ plan[r].mode \in Actions
        /\ mem[r] = ResolvedDoc(r) /\ ResolvedDoc(r) \in History
    BY <1>1 DEF Resolving, Known, TypeInv, TypeOK
  <2>2. Sound(ledger) /\ WellKept(ledger) /\ TypeOK
    BY DEF Known, LedgerInv, DocumentInv, TypeInv
  <2>3. PICK b \in Attempt :
          /\ b.state = "resolved"
          /\ \A j \in AttemptIds :
               ResolvedDoc(r).attempts[j] = IF j = att[r] THEN b ELSE ledger.attempts[j]
    BY <2>1, <2>2, ResolvedKept
  <2>4. att[r] \in Open(ledger) /\ AtMostOne(Open(ledger))
    BY <2>1, <2>2 DEF IsUnresolved, Open, Sound
  <2>5. \A j \in AttemptIds : j # att[r] => j \notin Open(ledger)
    BY <2>4 DEF AtMostOne
  <2>6. QED
    BY <2>1, <2>3, <2>5 DEF Open
<1>2. CASE Adopting(r)
  BY <1>2 DEF Adopting
<1>3. QED
  BY <1>1, <1>2 DEF Known, DocumentInv, KnowsDocument

LEMMA SavedHead ==
  ASSUME Known, NEW r \in Runners, HeadSession(r), Saves(r)
  PROVE  HeadTrue'
<1>1. ledger' = mem[r] /\ pc[r] = "commit" /\ ~ Applying(r) /\ rows' = Seen(r)
  BY DEF Saves
<1>2. (\A t \in Tokens : txn[r].delta[t] = 0) /\ HeadLive(mem[r])
  BY <1>1 DEF HeadSession
<1>3. \A t \in Tokens : rows'[t] = rows[t]
  <2>1. \A t \in Tokens : rows[t] \in Int /\ rows'[t] = rows[t] + txn[r].delta[t]
    BY <1>1 DEF Seen, Known, TypeInv, TypeOK
  <2>2. QED
    BY <1>2, <2>1
<1>4. Catalog(rows') = Catalog(rows)
  BY <1>3, SameCatalog
<1>5. Open(mem[r]) = {}
  BY <1>1, NothingOpenSaved
<1>6. HeadLive(ledger)' /\ StartsKnown(ledger)'
  BY <1>1, <1>2, <1>4, <1>5 DEF HeadLive, StartsKnown
<1>7. QED
  BY <1>6 DEF HeadTrue

LEMMA FailureHead ==
  ASSUME Known, NoFalseDown, NEW r \in Runners, HeadSession(r), SavesFailure(r)
  PROVE  HeadTrue'
<1>1. pc[r] = "catch" /\ SaveFailedState(r) /\ rows' = rows
  BY DEF SavesFailure
<1>2. /\ att[r] \in AttemptIds /\ Attempted(r) \in Attempt /\ mem[r] \in History
      /\ Open(mem[r]) = {att[r]}
  BY <1>1, AttemptTypes
<1>3. PICK base \in History :
        /\ base \in CatchBase(r)
        /\ base = mem[r] \/ (base = ledger /\ base = AppliedDoc(r) /\ Attempted(r).dir # "up")
        /\ ledger'.applied = base.applied
        /\ \A j \in AttemptIds :
             ledger'.attempts[j] = IF j = att[r] THEN FailedAttempt(r) ELSE base.attempts[j]
  BY <1>1, SavedKept DEF Known
<1>4. /\ FailedAttempt(r).mig = Attempted(r).mig /\ FailedAttempt(r).dir = Attempted(r).dir
      /\ FailedAttempt(r).before = Attempted(r).before
      /\ FailedAttempt(r).expected = Attempted(r).expected
      /\ FailedAttempt(r).state = FailedState(r)
  BY <1>2 DEF FailedAttempt, Attempt
<1>5. base = mem[r]
  BY <1>1, <1>3, DownsKnowTheLedger
<1>6. Starts(mem[r], Attempted(r))
  BY <1>1 DEF HeadSession, AtWork
<1>7. Open(ledger') \subseteq {att[r]}
  BY <1>2, <1>3, <1>5 DEF Open
<1>8. StartsKnown(ledger)'
  <2>1. Starts(ledger', FailedAttempt(r))
    BY <1>3, <1>4, <1>5, <1>6 DEF Starts, ExpectedHead
  <2>2. QED
    BY <1>2, <1>3, <1>7, <2>1 DEF StartsKnown
<1>9. ASSUME Open(ledger') = {}, ledger'.applied # << >> PROVE ExpectedHead(ledger') = Catalog(rows')
  <2>1. txn[r].open
    BY <1>2, <1>3, <1>4, <1>9 DEF Open, FailedState
  <2>2. Catalog(rows) = Attempted(r).before
    BY <1>1, <2>1 DEF HeadSession, AtWork
  <2>3. QED
    BY <1>1, <1>3, <1>5, <1>6, <1>9, <2>2 DEF Starts, ExpectedHead
<1>10. QED
  BY <1>8, <1>9 DEF HeadTrue, HeadLive

LEMMA MovesHead ==
  ASSUME Known, NoFalseDown, HeadTrue, NEW r \in Runners, TxnClosed(r), HeadSession(r), Moves(r)
  PROVE  HeadTrue'
<1>1. CASE Executes(r)
  <2>1. ledger' = ledger /\ Open(ledger) # {}
    BY <1>1, AttemptTypes DEF Executes, Attempting
  <2>2. QED
    BY <2>1 DEF HeadTrue, HeadLive, StartsKnown, Starts
<1>2. QED
  BY <1>1, MarkedHead, LandedHead, SavedHead, FailureHead DEF Moves

(***************************************************************************)
(* What a session knows of the head.                                       *)
(***************************************************************************)
LEMMA NotWorkingHead ==
  ASSUME NEW q \in Runners, pc[q] \notin {"begin", "exec", "record", "commit", "catch"}
  PROVE  HeadSession(q)
  BY DEF HeadSession, AtWork, Attempting

LEMMA SameHead ==
  ASSUME NEW q \in Runners, HeadSession(q), UNCHANGED SessionOf(q), UNCHANGED rows
  PROVE  HeadSession(q)'
<1>1. /\ pc'[q] = pc[q] /\ plan'[q] = plan[q] /\ mem'[q] = mem[q] /\ att'[q] = att[q]
      /\ txn'[q] = txn[q] /\ rows' = rows
  BY DEF SessionOf
<1>2. /\ (AtWork(q)' <=> AtWork(q)) /\ (Applying(q)' <=> Applying(q)) /\ Attempted(q)' = Attempted(q)
  BY <1>1 DEF AtWork, Attempting, Applying, Attempted
<1>3. /\ OutcomeAsPlanned(q)' <=> OutcomeAsPlanned(q)
      /\ HeadLive(mem[q])' <=> HeadLive(mem[q])
      /\ Starts(mem[q], Attempted(q))' <=> Starts(mem[q], Attempted(q))
  BY <1>1, <1>2 DEF OutcomeAsPlanned, Captured, Seen, HeadLive, Starts
<1>4. QED
  BY <1>1, <1>2, <1>3 DEF HeadSession

\* The runner's document is the committed one while it attempts.
LEMMA AttemptingStarts ==
  ASSUME Known, StartsKnown(ledger), NEW q \in Runners, Attempting(q)
  PROVE  Starts(mem[q], Attempted(q))
<1>1. ledger = mem[q] /\ Open(mem[q]) = {att[q]}
  BY AttemptTypes
<1>2. QED
  BY <1>1 DEF StartsKnown, Attempted

LEMMA MarkedHeadSession ==
  ASSUME Known, Known', HeadTrue', NEW r \in Runners, TxnClosed(r), Mark(r)
  PROVE  HeadSession(r)'
<1>1. PICK m \in Migrations, id \in AttemptIds :
        /\ mem' = [mem EXCEPT ![r] = MarkedDoc(r, m, id)]
        /\ att' = [att EXCEPT ![r] = id]
  BY DEF Mark
<1>2. /\ pc[r] = "mark" /\ pc'[r] = "begin" /\ txn' = txn /\ rows' = rows /\ TypeOK
  BY DEF Mark, At, Goto, Known, TypeInv, TypeOK
<1>3. mem'[r] = MarkedDoc(r, m, id) /\ att'[r] = id /\ mem[r].attempts \in [AttemptIds -> Attempt \cup {NoAttempt}]
  BY <1>1, <1>2 DEF TypeOK, History
<1>4. MarkedDoc(r, m, id).attempts = [mem[r].attempts EXCEPT ![id] = RunningAttempt(r, m)]
  BY <1>2, MarkedType
<1>5. Attempted(r)' = RunningAttempt(r, m)
  BY <1>3, <1>4 DEF Attempted
<1>6. RunningAttempt(r, m).before = Catalog(rows)
  <2>1. Captured(r) = Catalog(rows)
    BY <1>2, ClosedSees DEF TxnClosed
  <2>2. QED
    BY <2>1 DEF RunningAttempt
<1>7. Starts(mem[r], Attempted(r))'
  <2>1. Attempting(r)'
    BY <1>2 DEF Attempting
  <2>2. /\ (ledger = mem[r])' /\ (Open(mem[r]) = {att[r]})'
    BY <2>1 DEF Known, LedgerInv, KnowsLedger
  <2>3. QED
    BY <2>2 DEF HeadTrue, StartsKnown, Attempted
<1>8. QED
  BY <1>2, <1>5, <1>6, <1>7 DEF HeadSession

LEMMA BegunHeadSession ==
  ASSUME Known, NEW r \in Runners, HeadSession(r), Begin(r)
  PROVE  HeadSession(r)'
<1>1. /\ pc[r] = "begin" /\ pc'[r] \in {"exec", "record"} /\ UNCHANGED <<mem, att, rows>>
  BY DEF Begin, At, Goto, database, Known, TypeInv, TypeOK
<1>2. AtWork(r) /\ Attempted(r)' = Attempted(r)
  BY <1>1 DEF AtWork, Attempting, Attempted
<1>3. Starts(mem[r], Attempted(r))' <=> Starts(mem[r], Attempted(r))
  BY <1>1, <1>2 DEF Starts
<1>4. QED
  BY <1>1, <1>2, <1>3 DEF HeadSession

LEMMA ExecutedHeadSession ==
  ASSUME Known, NEW r \in Runners, HeadSession(r), Execute(r)
  PROVE  HeadSession(r)'
<1>1. /\ pc[r] = "exec" /\ pc'[r] \in {"exec", "record"} /\ UNCHANGED <<mem, att>>
      /\ txn \in [Runners -> Txn]
  BY DEF Execute, At, Goto, Known, TypeInv, TypeOK
<1>2. AtWork(r) /\ Attempted(r)' = Attempted(r)
  BY <1>1 DEF AtWork, Attempting, Attempted
<1>3. Starts(mem[r], Attempted(r))' <=> Starts(mem[r], Attempted(r))
  BY <1>1, <1>2 DEF Starts
<1>4. txn'[r].open => txn[r].open /\ rows' = rows
  <2>1. CASE txn[r].open
    BY <2>1 DEF Execute
  <2>2. CASE ~ txn[r].open
    <3>1. txn' = txn
      BY <2>2 DEF Execute
    <3>2. QED
      BY <2>2, <3>1
  <2>3. QED
    BY <2>1, <2>2
<1>5. QED
  BY <1>1, <1>2, <1>3, <1>4 DEF HeadSession

\* Recording an outcome within a transaction, a failure, and a lost client
\* leave the database and the session's document as they are.
LEMMA StayingHeadSession ==
  ASSUME Known, NEW r \in Runners, HeadSession(r), Fail(r) \/ Lose(r) \/ (Record(r) /\ txn[r].open)
  PROVE  HeadSession(r)'
<1>1. /\ UNCHANGED <<mem, att, plan, rows, txn>>
      /\ pc[r] \in PCs
  BY DEF Fail, Lose, Record, database, client, Known, TypeInv, TypeOK
<1>2. CASE Lose(r)
  <2>1. UNCHANGED SessionOf(r)
    BY <1>2 DEF Lose, SessionOf, client
  <2>2. QED
    BY <1>1, <2>1, SameHead
<1>3. /\ Attempted(r)' = Attempted(r) /\ (Applying(r)' <=> Applying(r))
      /\ Starts(mem[r], Attempted(r))' <=> Starts(mem[r], Attempted(r))
      /\ OutcomeAsPlanned(r)' <=> OutcomeAsPlanned(r)
  BY <1>1 DEF Attempted, Applying, Starts, OutcomeAsPlanned, Captured, Seen
<1>4. CASE Fail(r)
  <2>1. pc[r] \in {"begin", "exec", "record"} /\ pc'[r] = "catch" /\ AtWork(r)
    BY <1>4 DEF Fail, Goto, AtWork, Attempting, Known, TypeInv, TypeOK
  <2>2. QED
    BY <1>1, <1>3, <2>1 DEF HeadSession
<1>5. CASE Record(r) /\ txn[r].open
  <2>1. pc[r] = "record" /\ pc'[r] = "commit" /\ OutcomeAsPlanned(r) /\ AtWork(r) /\ Applying(r)
    BY <1>5 DEF Record, At, Goto, AtWork, Attempting, Known, TypeInv, TypeOK, DocumentInv, KnowsDocument, AttemptFits
  <2>2. QED
    BY <1>1, <1>3, <2>1 DEF HeadSession
<1>6. QED
  BY <1>2, <1>4, <1>5

LEMMA RejectedHeadSession ==
  ASSUME Known, NEW r \in Runners, HeadSession(r), CommitRejected(r)
  PROVE  HeadSession(r)'
<1>1. /\ pc[r] = "commit" /\ UNCHANGED <<mem, att, plan>> /\ ~ txn'[r].open
      /\ pc'[r] = IF Applying(r) THEN "catch" ELSE "close"
  BY DEF CommitRejected, At, Goto, DropTxn, NoTxn, client, Known, TypeInv, TypeOK
<1>2. CASE Applying(r)
  <2>1. AtWork(r) /\ Attempted(r)' = Attempted(r)
    BY <1>1, <1>2 DEF AtWork, Attempting, Attempted
  <2>2. Starts(mem[r], Attempted(r))' <=> Starts(mem[r], Attempted(r))
    BY <1>1, <2>1 DEF Starts
  <2>3. QED
    BY <1>1, <1>2, <2>1, <2>2 DEF HeadSession
<1>3. CASE ~ Applying(r)
  BY <1>1, <1>3 DEF HeadSession, AtWork, Attempting
<1>4. QED
  BY <1>2, <1>3

LEMMA AdoptedHeadSession ==
  ASSUME Known, Known', NEW r \in Runners, TxnClosed(r), VerifyBaseline(r)
  PROVE  HeadSession(r)'
<1>1. PICK n \in AttemptIds : \E order \in [1..n -> plan[r].todo] :
        /\ BaselineMatches(r, order[n])
        /\ mem' = [mem EXCEPT ![r] = BaselineDoc(r, order)]
  BY DEF VerifyBaseline
<1>2. PICK order \in [1..n -> plan[r].todo] :
        /\ BaselineMatches(r, order[n])
        /\ mem' = [mem EXCEPT ![r] = BaselineDoc(r, order)]
  BY <1>1
<1>3. /\ pc[r] = "verify" /\ pc'[r] = "commit" /\ plan[r].mode = "baseline"
      /\ UNCHANGED <<rows, plan>> /\ TypeOK /\ txn \in [Runners -> Txn]
      /\ mem'[r] = BaselineDoc(r, order)
  BY <1>2 DEF VerifyBaseline, At, Goto, database, Known, TypeInv, TypeOK
<1>4. ~ Applying(r) /\ ~ Applying(r)' /\ ~ AtWork(r)'
  BY <1>3 DEF Applying, AtWork, Attempting
<1>5. txn'[r].delta = txn[r].delta /\ ~ txn[r].open
  BY <1>3 DEF VerifyBaseline, TxnClosed, Txn
<1>6. /\ \A t \in Tokens : txn[r].delta[t] = 0
      /\ Captured(r) = Catalog(rows)
  BY <1>3, <1>5, ClosedSees DEF TxnClosed, NoTxn
<1>7. ExpectedHead(BaselineDoc(r, order)) = Catalog(rows)
  <2>1. n \in Nat /\ n >= 1
    BY ConstantsAssumption DEF AttemptIds
  <2>2. /\ DOMAIN BaselineDoc(r, order).applied = 1..n
        /\ BaselineDoc(r, order).applied[n].catalog = PlannedOutcome(r, order[n])
    BY <2>1 DEF BaselineDoc
  <2>3. BaselineDoc(r, order).applied \in Seq(Entry)
    <3>1. BaselineDoc(r, order) \in History
      BY <1>3 DEF Known, TypeInv, TypeOK
    <3>2. QED
      BY <3>1 DEF History
  <2>4. Len(BaselineDoc(r, order).applied) = n /\ BaselineDoc(r, order).applied # << >>
    BY <2>1, <2>2, <2>3
  <2>5. QED
    BY <1>2, <1>6, <2>2, <2>4 DEF ExpectedHead, BaselineMatches
<1>8. HeadLive(mem[r])'
  BY <1>3, <1>7 DEF HeadLive
<1>9. QED
  BY <1>3, <1>4, <1>5, <1>6, <1>8 DEF HeadSession

LEMMA ResolvedHeadSession ==
  ASSUME Known, Known', StartsKnown(ledger), NEW r \in Runners, TxnClosed(r), VerifyResolution(r)
  PROVE  HeadSession(r)'
<1> DEFINE a == ledger.attempts[att[r]]
           d == ResolvedDoc(r)
<1>1. /\ pc[r] = "verify" /\ pc'[r] = "commit" /\ plan[r].mode \in Actions
      /\ UNCHANGED <<rows, plan>> /\ TypeOK /\ txn \in [Runners -> Txn] /\ ledger \in History
      /\ mem'[r] = d /\ d \in History /\ ResolutionAllowed(r)
      /\ WellKept(ledger) /\ att[r] \in AttemptIds \cup {0}
  BY DEF VerifyResolution, At, Goto, database, Known, TypeInv, TypeOK, DocumentInv
<1>2. ~ Applying(r) /\ ~ Applying(r)' /\ ~ AtWork(r)'
  BY <1>1 DEF Applying, AtWork, Attempting, Actions
<1>3. txn'[r].delta = txn[r].delta /\ ~ txn[r].open
  BY <1>1 DEF VerifyResolution, TxnClosed, Txn
<1>4. /\ \A t \in Tokens : txn[r].delta[t] = 0
      /\ Captured(r) = Catalog(rows)
  BY <1>1, <1>3, ClosedSees DEF TxnClosed, NoTxn
<1>5. att[r] \in Open(ledger)
  <2>1. TypeInv
    BY DEF Known
  <2>2. pc[r] = "verify" /\ plan[r].mode \in Actions => att[r] \in AttemptIds
    BY <2>1 DEF TypeInv, KnowsAttempt
  <2>3. QED
    BY <1>1, <2>2 DEF ResolutionAllowed, IsUnresolved, Open
<1>6. Starts(ledger, a) /\ a \in Attempt
  <2>1. att[r] \in AttemptIds /\ a \in Attempt
    BY <1>1, <1>5, HistoryTypes DEF Open
  <2>2. QED
    BY <1>5, <2>1 DEF StartsKnown
<1>7. d.applied = IF plan[r].mode = "confirm-not-applied" THEN ledger.applied
                  ELSE IF a.dir = "down" THEN Without(ledger.applied, a.mig)
                  ELSE Append(ledger.applied, ResolvedEntry(a, att[r]))
  BY DEF ResolvedDoc
<1>8. Captured(r) = IF plan[r].mode = "confirm-applied" THEN a.expected ELSE a.before
  BY <1>1 DEF ResolutionAllowed
<1>9. plan[r].mode = "confirm-applied" /\ a.dir = "down" =>
        ledger.applied # << >> /\ ledger.applied[Len(ledger.applied)].id = a.mig
  BY <1>1 DEF ResolutionAllowed
<1> HIDE DEF d
<1>10. ASSUME d.applied # << >> PROVE ExpectedHead(d) = Catalog(rows)
  <2>1. CASE plan[r].mode = "confirm-not-applied"
    BY <1>4, <1>6, <1>7, <1>8, <1>10, <2>1 DEF Starts, ExpectedHead
  <2>2. CASE plan[r].mode # "confirm-not-applied"
    <3>1. plan[r].mode = "confirm-applied" /\ a.dir \in {"up", "down"}
      BY <1>1, <1>6, <2>2 DEF Actions, Attempt, Directions
    <3>2. d.applied = IF a.dir = "up" THEN Append(ledger.applied, ResolvedEntry(a, att[r]))
                      ELSE Without(ledger.applied, a.mig)
      BY <1>7, <2>2, <3>1
    <3>3. a.dir # "up" => a.mig \in AppliedIds(ledger) /\ a.expected = CatalogBefore(ledger.applied, a.mig)
      <4> HAVE a.dir # "up"
      <4>1. ledger.applied # << >> /\ ledger.applied[Len(ledger.applied)].id = a.mig
        BY <1>9, <3>1
      <4>2. ledger.applied \in Seq(Entry)
        BY <1>1 DEF History
      <4>3. Len(ledger.applied) \in DOMAIN ledger.applied
        BY <4>1, <4>2
      <4>4. a.mig \in AppliedIds(ledger)
        BY <4>1, <4>3 DEF AppliedIds
      <4>5. QED
        BY <1>6, <3>1, <4>4 DEF Starts
    <3>4. ExpectedHead(d) = a.expected
      BY <1>1, <1>5, <1>10, <3>2, <3>3, HeadAfter
    <3>5. QED
      BY <1>4, <1>8, <3>1, <3>4
  <2>3. QED
    BY <2>1, <2>2
<1>11. HeadLive(mem[r])'
  BY <1>1, <1>10 DEF HeadLive
<1>12. QED
  BY <1>1, <1>2, <1>3, <1>4, <1>11 DEF HeadSession

LEMMA OwnHead ==
  ASSUME Known, Known', HeadTrue, HeadTrue', NEW r \in Runners, TxnClosed(r), TxnClosed(r)', HeadSession(r),
         Run(r) \/ Operate(r)
  PROVE  HeadSession(r)'
<1>1. pc \in [Runners -> PCs]
  BY DEF Known, TypeInv, TypeOK
<1>2. CASE \/ AcquireLock(r) \/ GiveUp(r) \/ VerifyPlan(r) \/ Refuse(r) \/ Catch(r) \/ Close(r)
           \/ Commit(r) \/ BackendEnds(r)
           \/ StartPlan(r) \/ BuildPlan(r) \/ Inspect(r) \/ Attest(r) \/ Connect(r)
           \/ (Record(r) /\ ~ txn[r].open)
  <2>1. pc'[r] \notin {"begin", "exec", "record", "commit", "catch"}
    BY <1>1, <1>2 DEF AcquireLock, GiveUp, VerifyPlan, Refuse, Catch, Close, Commit, BackendEnds, StartPlan,
       BuildPlan, Inspect, Attest, Connect, Record, Completed, Forget, Goto
  <2>2. ~ AtWork(r)'
    BY <2>1 DEF AtWork, Attempting
  <2>3. QED
    BY <2>1, <2>2 DEF HeadSession
<1>3. CASE Mark(r)
  BY <1>3, MarkedHeadSession
<1>4. CASE Begin(r)
  BY <1>4, BegunHeadSession
<1>5. CASE Execute(r)
  BY <1>5, ExecutedHeadSession
<1>6. CASE Fail(r) \/ Lose(r) \/ (Record(r) /\ txn[r].open)
  BY <1>6, StayingHeadSession
<1>7. CASE CommitRejected(r)
  BY <1>7, RejectedHeadSession
<1>8. CASE VerifyBaseline(r)
  BY <1>8, AdoptedHeadSession
<1>9. CASE VerifyResolution(r)
  BY <1>9, ResolvedHeadSession DEF HeadTrue
<1>10. QED
  BY <1>2, <1>3, <1>4, <1>5, <1>6, <1>7, <1>8, <1>9 DEF Run, Operate

LEMMA HeadStep ==
  /\ Known /\ Known' /\ NoFalseDown /\ (\A r \in Runners : TxnClosed(r) /\ TxnClosed(r)')
  /\ HeadInv /\ [Next]_vars
  => HeadInv'
<1> SUFFICES ASSUME Known, Known', NoFalseDown, \A r \in Runners : TxnClosed(r) /\ TxnClosed(r)',
                    HeadInv, [Next]_vars, drifts' = 0
             PROVE  HeadTrue' /\ \A r \in Runners : HeadSession(r)'
  BY DEF HeadInv
<1>1. drifts \in Nat /\ TypeOK
  BY DEF Known, TypeInv, TypeOK
<1>2. ~ ManualDdl
  BY <1>1 DEF ManualDdl
<1>3. ASSUME NEW r \in Runners, Run(r) \/ Operate(r)
      PROVE  HeadTrue' /\ \A q \in Runners : HeadSession(q)'
  <2>1. drifts' = drifts
    BY <1>3 DEF Run, Operate, AcquireLock, GiveUp, VerifyPlan, VerifyBaseline, VerifyResolution,
       Refuse, Mark, Begin, Execute, Record, Commit, CommitRejected, Fail, Catch, Close, BackendEnds,
       StartPlan, BuildPlan, Inspect, Attest, Connect, Lose, world
  <2>2. HeadTrue /\ \A q \in Runners : HeadSession(q)
    BY <2>1 DEF HeadInv
  <2>3. UNCHANGED <<rows, ledger, touched>> \/ Moves(r)
    BY <1>3, SessionMoves
  <2>4. HeadTrue'
    <3>1. CASE UNCHANGED <<rows, ledger, touched>>
      BY <2>2, <3>1 DEF HeadTrue, HeadLive, StartsKnown, Starts
    <3>2. CASE Moves(r)
      BY <2>2, <3>2, MovesHead
    <3>3. QED
      BY <2>3, <3>1, <3>2
  <2>5. HeadSession(r)'
    BY <1>3, <2>2, <2>4, OwnHead
  <2>6. ASSUME NEW q \in Runners, q # r PROVE HeadSession(q)'
    <3>1. UNCHANGED SessionOf(q)
      BY <1>1, <1>3, <2>6, OthersSession
    <3>2. CASE UNCHANGED rows
      BY <2>2, <3>1, <3>2, SameHead
    <3>3. CASE ~ UNCHANGED rows
      <4>1. pc[q] \notin Connected
        BY <2>3, <2>6, <3>3, MovesConnected
      <4>2. pc'[q] \notin {"begin", "exec", "record", "commit", "catch"}
        BY <3>1, <4>1 DEF SessionOf, Connected
      <4>3. ~ AtWork(q)'
        BY <4>2 DEF AtWork, Attempting
      <4>4. QED
        BY <4>2, <4>3 DEF HeadSession
    <3>4. QED
      BY <3>2, <3>3
  <2>7. QED
    BY <2>4, <2>5, <2>6
<1>4. CASE EditFiles \/ UNCHANGED vars
  <2>1. /\ UNCHANGED <<rows, ledger, drifts>>
        /\ \A q \in Runners : UNCHANGED SessionOf(q)
    BY <1>4 DEF EditFiles, vars, database, client, SessionOf
  <2>2. HeadTrue /\ \A q \in Runners : HeadSession(q)
    BY <2>1 DEF HeadInv
  <2>3. HeadTrue'
    BY <2>1, <2>2 DEF HeadTrue, HeadLive, StartsKnown, Starts
  <2>4. QED
    BY <2>1, <2>2, <2>3, SameHead
<1>5. CASE Repair
  <2>1. /\ lock = NoRunner /\ UNCHANGED <<ledger, drifts, pc, plan, mem, att, txn>>
        /\ Unresolved(ledger) # {}
    BY <1>5 DEF Repair, client
  <2>2. Open(ledger) # {}
    BY <2>1 DEF Unresolved, IsUnresolved, Open
  <2>3. HeadTrue
    BY <2>1 DEF HeadInv
  <2>4. HeadTrue'
    BY <2>1, <2>2, <2>3 DEF HeadTrue, HeadLive, StartsKnown, Starts
  <2>5. ASSUME NEW q \in Runners PROVE HeadSession(q)'
    <3>1. pc[q] \notin Connected
      BY <2>1, RunnerAssumption DEF Known, LedgerInv, LockHeld
    <3>2. pc'[q] \notin {"begin", "exec", "record", "commit", "catch"}
      BY <2>1, <3>1 DEF Connected
    <3>3. ~ AtWork(q)'
      BY <3>2 DEF AtWork, Attempting
    <3>4. QED
      BY <3>2, <3>3 DEF HeadSession
  <2>6. QED
    BY <2>4, <2>5
<1>6. QED
  BY <1>2, <1>3, <1>4, <1>5 DEF Next

LEMMA HeadInit == Init => HeadInv /\ \A r \in Runners : TxnClosed(r)
<1> SUFFICES ASSUME Init PROVE HeadInv /\ \A r \in Runners : TxnClosed(r)
  OBVIOUS
<1>1. ledger.applied = << >> /\ Open(ledger) = {}
  BY EmptyLedger DEF Init, EmptyHistory
<1>2. \A r \in Runners : pc[r] = "idle" /\ txn[r] = NoTxn
  BY DEF Init
<1>3. \A r \in Runners : TxnClosed(r) /\ HeadSession(r)
  <2> SUFFICES ASSUME NEW r \in Runners PROVE TxnClosed(r) /\ HeadSession(r)
    OBVIOUS
  <2>1. txn[r] = NoTxn /\ NoTxn.open = FALSE
    BY <1>2 DEF NoTxn
  <2>2. QED
    BY <1>2, <2>1, NotWorkingHead DEF TxnClosed
<1>4. QED
  BY <1>1, <1>3 DEF HeadInv, HeadTrue, HeadLive, StartsKnown

LEMMA KnownInvariant == Spec => []Known
  BY TypeInvariant, LedgerInvariant, DocumentInvariant, CatchClosedInvariant, PTL DEF Known

(* The recorded head is the live schema: once nothing is in flight, nothing is
   unresolved and nobody ran DDL by hand, a capture returns the catalog kept
   with the last applied entry, whichever of apply, down, reconcile, baseline
   and a resolution wrote it (expectedHead, createPlan). *)
THEOREM HeadStaysLive == NoFalseDown => (Spec => []HeadIsLive)
<1> SUFFICES ASSUME NoFalseDown PROVE Spec => []HeadIsLive
  OBVIOUS
<1> DEFINE Closed == \A r \in Runners : TxnClosed(r)
<1>1. Init => HeadInv /\ Closed
  BY HeadInit
<1>2. TypeOK /\ Closed /\ [Next]_vars => Closed'
  BY TxnClosedStep
<1>3. Known /\ Known' /\ Closed /\ Closed' /\ HeadInv /\ [Next]_vars => HeadInv'
  BY HeadStep
<1>4. HeadInv /\ Known => HeadIsLive
  <2> SUFFICES ASSUME HeadInv, Known, Quiescent, drifts = 0, ledger.applied # << >>
               PROVE  ExpectedHead(ledger) = Catalog(rows)
    BY DEF HeadIsLive
  <2>1. Open(ledger) = {}
    <3>1. \A i \in Open(ledger) : i \in Unresolved(ledger)
      BY OpenIsUnresolved DEF Known, LedgerInv, Sound, TypeInv, TypeOK
    <3>2. QED
      BY <3>1 DEF Quiescent, NothingUnresolved
  <2>2. QED
    BY <2>1 DEF HeadInv, HeadTrue, HeadLive
<1> HIDE DEF Closed
<1>5. QED
  BY <1>1, <1>2, <1>3, <1>4, KnownInvariant, TypeCorrect, PTL DEF Spec

-------------------------------------------------------------------------------
(***************************************************************************)
(* What the document keeps of catalogs, and the way out of every doubt.    *)
(***************************************************************************)
\* The schema a set of applied migrations makes.
SchemaOf(ids) == {o \in Effects \ DataOnly : o[1] \in ids}

\* The catalogs a document keeps are those its applied identifiers make.
IdsAfter(h, a) == IF a.dir = "up" THEN AppliedIds(h) \cup {a.mig} ELSE AppliedIds(h) \ {a.mig}
Foreseen(h, a) == a.hash # 0 /\ a.expected = SchemaOf(IdsAfter(h, a))
ContentKnown(h) ==
  /\ \A i \in DOMAIN h.applied :
       /\ h.applied[i].hash # 0
       /\ h.applied[i].catalog = SchemaOf({k \in AppliedIds(h) : k <= h.applied[i].id})
  /\ \A i \in Open(h) : Foreseen(h, h.attempts[i])

\* An up plan takes the pending migrations of its inventory from below.
PlanCovers(r) ==
  LET ids == AppliedIds(mem[r])
      inv == plan[r].inv
  IN  /\ \A k \in ids : inv[k] # 0
      /\ plan[r].dir = "up" =>
           /\ \A k \in plan[r].todo : inv[k] # 0
           /\ \A k \in Migrations : inv[k] # 0 /\ k \notin ids /\ k \notin plan[r].todo =>
                \A m \in plan[r].todo : m < k

KnowsContent(r) ==
  /\ ContentKnown(mem[r])
  /\ pc[r] \in {"planned", "locking", "verify"} /\ plan[r].mode \notin Actions => PlanCovers(r)
  /\ pc[r] = "mark" \/ Attempting(r) => PlanCovers(r)

ContentInv == ContentKnown(ledger) /\ \A r \in Runners : KnowsContent(r)

\* The object no migration creates is there only if somebody made it.
ForeignInv ==
  /\ Foreign \notin touched => rows[Foreign] = 0
  /\ \A r \in Runners : txn[r].delta[Foreign] = 0

LEMMA IdTypes ==
  ASSUME NEW h \in History
  PROVE  /\ AppliedIds(h) \subseteq Migrations
         /\ \A k \in Migrations : k \in Int
         /\ \A o \in Effects : o[1] \in Migrations
         /\ \A i \in DOMAIN h.applied : h.applied[i].id \in AppliedIds(h)
<1>1. \A k \in Migrations : k \in Int
  BY ConstantsAssumption DEF Migrations
<1>2. \A i \in DOMAIN h.applied : h.applied[i].id \in AppliedIds(h)
  BY DEF AppliedIds
<1>3. QED
  BY <1>1, <1>2, HistoryTypes, EffectShape

\* An entry above all others is added, or the uppermost one removed.
LEMMA EntriesAfter ==
  ASSUME NEW h \in History, NEW d \in History, NEW id \in Open(h), WellKept(h), ContentKnown(h),
         d.applied = IF h.attempts[id].dir = "up"
                     THEN Append(h.applied, ResolvedEntry(h.attempts[id], id))
                     ELSE Without(h.applied, h.attempts[id].mig),
         AppliedIds(d) = IdsAfter(h, h.attempts[id]),
         Open(d) = {}
  PROVE  ContentKnown(d)
<1> DEFINE a == h.attempts[id]
           e == ResolvedEntry(a, id)
<1>1. /\ id \in AttemptIds /\ a \in Attempt /\ h.applied \in Seq(Entry) /\ AtTop(h, a)
      /\ Foreseen(h, a) /\ a.mig \in Migrations /\ a.mig \in Int
  <2>1. id \in AttemptIds /\ a \in Attempt
    BY HistoryTypes DEF Open
  <2>2. AtTop(h, a) /\ Foreseen(h, a)
    BY DEF WellKept, OpenAtTop, ContentKnown
  <2>3. a.mig \in Migrations
    BY <2>1 DEF Attempt
  <2>4. QED
    BY <2>1, <2>2, <2>3, IdTypes DEF History
<1>2. /\ e.id = a.mig /\ e.hash = a.hash /\ e.catalog = a.expected
  BY DEF ResolvedEntry
<1>3. d.applied = IF a.dir = "up" THEN Append(h.applied, e) ELSE Without(h.applied, a.mig)
  OBVIOUS
<1>4. AppliedIds(d) = IF a.dir = "up" THEN AppliedIds(h) \cup {a.mig} ELSE AppliedIds(h) \ {a.mig}
  BY DEF IdsAfter
<1> HIDE DEF a, e
<1>5. ASSUME NEW i \in DOMAIN d.applied
      PROVE  \/ a.dir = "up" /\ d.applied[i] = e
             \/ \E k \in DOMAIN h.applied : d.applied[i] = h.applied[k]
  <2>1. CASE a.dir = "up"
    <3>1. d.applied = Append(h.applied, e)
      BY <1>3, <2>1
    <3>2. \A k \in IdsOf(h.applied) : k < e.id
      BY <1>1, <1>2, <2>1, HistoryTypes DEF AtTop
    <3>3. e \in Entry /\ Rising(h.applied)
      BY <1>1, HistoryTypes DEF e, ResolvedEntry, Attempt, Entry, WellKept
    <3>4. \A j \in DOMAIN Append(h.applied, e) :
            Append(h.applied, e)[j] = e \/ \E k \in DOMAIN h.applied : Append(h.applied, e)[j] = h.applied[k]
      BY <1>1, <3>2, <3>3, AppendRising
    <3>5. QED
      BY <1>5, <2>1, <3>1, <3>4
  <2>2. CASE a.dir # "up"
    <3>1. d.applied = Without(h.applied, a.mig)
      BY <1>3, <2>2
    <3>2. \A j \in DOMAIN Without(h.applied, a.mig) :
            \E k \in DOMAIN h.applied : Without(h.applied, a.mig)[j] = h.applied[k]
      BY <1>1, WithoutEntries
    <3>3. QED
      BY <1>5, <3>1, <3>2
  <2>3. QED
    BY <2>1, <2>2
<1>6. ASSUME NEW i \in DOMAIN d.applied
      PROVE  /\ d.applied[i].hash # 0
             /\ d.applied[i].catalog = SchemaOf({k \in AppliedIds(d) : k <= d.applied[i].id})
  <2>1. CASE a.dir = "up" /\ d.applied[i] = e
    <3>1. {k \in AppliedIds(d) : k <= e.id} = AppliedIds(h) \cup {a.mig}
      BY <1>1, <1>2, <1>4, <2>1, IdTypes DEF AtTop
    <3>2. e.hash # 0 /\ e.catalog = SchemaOf(AppliedIds(h) \cup {a.mig})
      BY <1>1, <1>2, <2>1 DEF Foreseen, IdsAfter
    <3>3. QED
      BY <2>1, <3>1, <3>2
  <2>2. CASE \E k \in DOMAIN h.applied : d.applied[i] = h.applied[k]
    <3>1. PICK n \in DOMAIN h.applied : d.applied[i] = h.applied[n]
      BY <2>2
    <3>2. PICK top \in Migrations : top = h.applied[n].id
      BY IdTypes
    <3>3. top \in AppliedIds(h) /\ top \in AppliedIds(d)
      BY <3>1, <3>2, IdTypes
    <3>4. a.mig > top
      <4>1. top \in Int
        BY IdTypes
      <4>2. IF a.dir = "up" THEN top < a.mig ELSE top <= a.mig /\ top # a.mig
        BY <1>1, <1>4, <3>3 DEF AtTop
      <4>3. QED
        BY <1>1, <4>1, <4>2
    <3>5. {k \in AppliedIds(d) : k <= top} = {k \in AppliedIds(h) : k <= top}
      <4>1. top \in Int /\ ~ (a.mig <= top)
        BY <1>1, <3>4, IdTypes
      <4>2. \A k : k # a.mig => (k \in AppliedIds(d) <=> k \in AppliedIds(h))
        BY <1>4
      <4>3. QED
        BY <4>1, <4>2
    <3>6. h.applied[n].hash # 0 /\ h.applied[n].catalog = SchemaOf({k \in AppliedIds(h) : k <= top})
      BY <3>2 DEF ContentKnown
    <3>7. QED
      BY <3>1, <3>2, <3>5, <3>6
  <2>3. QED
    BY <1>5, <2>1, <2>2
<1>7. QED
  BY <1>6 DEF ContentKnown

\* What a down of the uppermost migration must leave.
LEMMA BeforeTop ==
  ASSUME NEW h \in History, AppliedAscending(h), ContentKnown(h), NEW m \in AppliedIds(h),
         \A k \in AppliedIds(h) : k <= m
  PROVE  CatalogBefore(h.applied, m) = SchemaOf(AppliedIds(h) \ {m})
<1> DEFINE k == PositionOf(h.applied, m)
<1>1. k \in DOMAIN h.applied /\ h.applied[k].id = m
  BY DEF PositionOf, AppliedIds
<1>2. CatalogBefore(h.applied, m) = IF k \in DOMAIN h.applied /\ k > 1 THEN h.applied[k - 1].catalog ELSE {}
  BY DEF CatalogBefore
<1> HIDE DEF k
<1>3. DOMAIN h.applied = 1..Len(h.applied) /\ Len(h.applied) \in Nat
  BY HistoryTypes
<1>4. \A i \in DOMAIN h.applied : i # k => i < k
  <2> SUFFICES ASSUME NEW i \in DOMAIN h.applied, k < i PROVE FALSE
    BY <1>1, <1>3
  <2>1. m < h.applied[i].id
    BY <1>1 DEF AppliedAscending
  <2>2. h.applied[i].id \in AppliedIds(h)
    BY IdTypes
  <2>3. h.applied[i].id <= m /\ h.applied[i].id \in Int /\ m \in Int
    BY <2>2, IdTypes
  <2>4. QED
    BY <2>1, <2>3
<1>5. CASE k > 1
  <2>1. k - 1 \in DOMAIN h.applied /\ k - 1 < k
    BY <1>1, <1>3, <1>5
  <2>2. PICK top \in Migrations : top = h.applied[k - 1].id
    BY <2>1, IdTypes
  <2>3. top < m /\ top \in Int /\ m \in Int
    BY <1>1, <2>1, <2>2, IdTypes DEF AppliedAscending
  <2>4. ASSUME NEW i \in DOMAIN h.applied, i # k PROVE h.applied[i].id <= top
    <3>1. i < k
      BY <1>4, <2>4
    <3>2. i = k - 1 \/ i < k - 1
      BY <1>1, <1>3, <3>1
    <3>3. i < k - 1 => h.applied[i].id < top
      BY <2>1, <2>2 DEF AppliedAscending
    <3>4. h.applied[i].id \in Int
      BY IdTypes
    <3>5. QED
      BY <2>2, <2>3, <3>2, <3>3, <3>4
  <2>5. {j \in AppliedIds(h) : j <= top} = AppliedIds(h) \ {m}
    <3>1. ASSUME NEW j \in AppliedIds(h), j # m PROVE j <= top
      <4>1. PICK i \in DOMAIN h.applied : j = h.applied[i].id
        BY DEF AppliedIds
      <4>2. i # k
        BY <1>1, <3>1, <4>1
      <4>3. QED
        BY <2>4, <4>1, <4>2
    <3>2. ~ (m <= top)
      BY <2>3
    <3>3. QED
      BY <3>1, <3>2
  <2>6. h.applied[k - 1].catalog = SchemaOf({j \in AppliedIds(h) : j <= top})
    BY <2>1, <2>2 DEF ContentKnown
  <2>7. QED
    BY <1>1, <1>2, <1>5, <2>5, <2>6
<1>6. CASE ~ (k > 1)
  <2>1. k = 1
    BY <1>1, <1>3, <1>6
  <2>2. \A i \in DOMAIN h.applied : i = k
    BY <1>3, <1>4, <2>1
  <2>3. AppliedIds(h) \ {m} = {}
    BY <1>1, <2>2 DEF AppliedIds
  <2>4. QED
    BY <1>2, <1>6, <2>3 DEF SchemaOf
<1>7. QED
  BY <1>5, <1>6

\* The replay of the inventory through the next pending migration makes what
\* is applied and that migration.
LEMMA ReplayIs ==
  ASSUME TypeOK, NEW r \in Runners, NEW m \in Migrations, IsNext(r, m), plan[r].dir = "up",
         PlanFits(r), PlanCovers(r)
  PROVE  ReplayedThrough(plan[r].inv, m) = SchemaOf(AppliedIds(mem[r]) \cup {m})
<1> DEFINE ids == AppliedIds(mem[r])
           inv == plan[r].inv
<1>1. /\ \A k \in ids : inv[k] # 0 /\ k < m /\ k \in Int
      /\ inv[m] # 0 /\ m \in Int /\ \A o \in Effects : o[1] \in Migrations /\ o[1] \in Int
  BY IdTypes DEF PlanCovers, PlanFits, IsNext, TypeOK
<1>2. \A k \in Migrations : inv[k] # 0 /\ k \notin ids /\ k # m => m < k
  <2> SUFFICES ASSUME NEW k \in Migrations, inv[k] # 0, k \notin ids, k # m PROVE m < k
    OBVIOUS
  <2>1. k \in Int
    BY IdTypes DEF TypeOK
  <2>2. CASE k \in plan[r].todo
    BY <1>1, <2>1, <2>2 DEF IsNext
  <2>3. CASE k \notin plan[r].todo
    BY <2>3 DEF PlanCovers, IsNext
  <2>4. QED
    BY <2>2, <2>3
<1> HIDE DEF ids, inv
<1>3. ASSUME NEW o \in Effects \ DataOnly
      PROVE  (o[1] <= m /\ inv[o[1]] # 0) <=> o[1] \in ids \cup {m}
  <2>1. o[1] \in Migrations /\ o[1] \in Int
    BY <1>1
  <2>2. CASE o[1] \in ids \cup {m}
    BY <1>1, <2>1, <2>2
  <2>3. CASE o[1] \notin ids \cup {m}
    BY <1>1, <1>2, <2>1, <2>3
  <2>4. QED
    BY <2>2, <2>3
<1>4. QED
  BY <1>3 DEF ReplayedThrough, SchemaOf, ids, inv

(***************************************************************************)
(* Every document a session builds keeps its catalogs.                     *)
(***************************************************************************)
LEMMA MarkedContent ==
  ASSUME Known, NEW r \in Runners, pc[r] = "mark", PlanCovers(r), ContentKnown(mem[r]),
         NEW m \in Migrations, NEW id \in AttemptIds, IsNext(r, m), IsFresh(mem[r], id)
  PROVE  /\ ContentKnown(MarkedDoc(r, m, id))
         /\ AppliedIds(MarkedDoc(r, m, id)) = AppliedIds(mem[r])
<1> DEFINE h == mem[r]
           d == MarkedDoc(r, m, id)
           b == RunningAttempt(r, m)
<1>1. /\ TypeOK /\ h \in History /\ Open(h) = {} /\ EntriesSettled(h) /\ WellKept(h) /\ PlanFits(r)
      /\ plan[r] \in Plan
  BY DEF Known, TypeInv, TypeOK, LedgerInv, KnowsLedger, DocumentInv, KnowsDocument
<1>2. Open(d) = {id}
  BY <1>1, MarkedLedger
<1>3. /\ AtTop(h, b) /\ \A j \in AttemptIds : d.attempts[j] = IF j = id THEN b ELSE h.attempts[j]
  BY <1>1, MarkedKept
<1>4. d.applied = h.applied /\ d.attempts[id] = b
  BY <1>1, <1>3, MarkedType
<1>5. /\ b.mig = m /\ b.hash = plan[r].inv[m] /\ b.dir = plan[r].dir
      /\ b.expected = PlannedOutcome(r, m)
  BY DEF RunningAttempt
<1> HIDE DEF b, d
<1>6. AppliedIds(d) = AppliedIds(h)
  BY <1>4 DEF AppliedIds
<1>7. plan[r].dir \in {"up", "down"} /\ m \in plan[r].todo
  BY <1>1 DEF Plan, Directions, IsNext
<1>8. Foreseen(d, b)
  <2>1. CASE plan[r].dir = "up"
    <3>1. PlannedOutcome(r, m) = SchemaOf(AppliedIds(h) \cup {m})
      BY <1>1, <2>1, ReplayIs DEF PlannedOutcome
    <3>2. plan[r].inv[m] # 0
      BY <1>7, <2>1 DEF PlanCovers
    <3>3. QED
      BY <1>5, <1>6, <2>1, <3>1, <3>2 DEF Foreseen, IdsAfter
  <2>2. CASE plan[r].dir = "down"
    <3>1. m \in AppliedIds(h) /\ plan[r].inv[m] # 0
      BY <1>1, <1>7, <2>2 DEF PlanFits, PlanCovers
    <3>2. \A k \in AppliedIds(h) : k <= m
      BY <1>3, <1>5, <2>2 DEF AtTop
    <3>3. CatalogBefore(h.applied, m) = SchemaOf(AppliedIds(h) \ {m})
      BY <1>1, <3>1, <3>2, BeforeTop DEF WellKept
    <3>4. PlannedOutcome(r, m) = CatalogBefore(h.applied, m)
      BY <2>2 DEF PlannedOutcome
    <3>5. QED
      BY <1>5, <1>6, <2>2, <3>1, <3>3, <3>4 DEF Foreseen, IdsAfter
  <2>3. QED
    BY <1>7, <2>1, <2>2
<1>9. ContentKnown(d)
  BY <1>2, <1>4, <1>6, <1>8 DEF ContentKnown
<1>10. QED
  BY <1>6, <1>9 DEF d

LEMMA LandedContent ==
  ASSUME Known, NEW r \in Runners, Attempting(r), ContentKnown(mem[r])
  PROVE  /\ ContentKnown(AppliedDoc(r))
         /\ AppliedIds(AppliedDoc(r)) = IdsAfter(mem[r], Attempted(r))
<1>1. /\ att[r] \in AttemptIds /\ Attempted(r) \in Attempt /\ mem[r] \in History
      /\ Open(mem[r]) = {att[r]} /\ WellKept(mem[r]) /\ EntriesSettled(mem[r]) /\ TypeOK
      /\ Attempted(r) = mem[r].attempts[att[r]]
  BY AttemptTypes DEF Known, TypeInv, Attempted
<1>2. Open(AppliedDoc(r)) = {}
  BY <1>1, AppliedLedger
<1>3. /\ [Attempted(r) EXCEPT !.state = "applied"] \in Attempt
      /\ Landed(mem[r], AppliedDoc(r), att[r], [Attempted(r) EXCEPT !.state = "applied"])
      /\ AppliedDoc(r) \in History
  BY <1>1, AppliedLanded
<1>4. att[r] \in Open(mem[r])
  BY <1>1
<1>5. AppliedIds(AppliedDoc(r)) = IdsAfter(mem[r], Attempted(r))
  BY <1>1, <1>3, <1>4, LandedIds DEF IdsAfter
<1>6. AppliedDoc(r).applied =
        IF Attempted(r).dir = "up" THEN Append(mem[r].applied, ResolvedEntry(Attempted(r), att[r]))
        ELSE Without(mem[r].applied, Attempted(r).mig)
  BY DEF AppliedDoc, AppliedEntry, ResolvedEntry
<1>7. ContentKnown(AppliedDoc(r))
  BY <1>1, <1>2, <1>3, <1>4, <1>5, <1>6, EntriesAfter
<1>8. QED
  BY <1>5, <1>7

LEMMA FailureContent ==
  ASSUME Known, NoFalseDown, NEW r \in Runners, ContentKnown(mem[r]), pc[r] = "catch", SaveFailedState(r)
  PROVE  ContentKnown(ledger')
<1>1. /\ att[r] \in AttemptIds /\ Attempted(r) \in Attempt /\ mem[r] \in History
      /\ Open(mem[r]) = {att[r]}
  BY AttemptTypes
<1>2. PICK base \in History :
        /\ base = mem[r] \/ (base = ledger /\ base = AppliedDoc(r) /\ Attempted(r).dir # "up")
        /\ ledger'.applied = base.applied
        /\ \A j \in AttemptIds :
             ledger'.attempts[j] = IF j = att[r] THEN FailedAttempt(r) ELSE base.attempts[j]
  BY SavedKept DEF Known
<1>3. base = mem[r]
  BY <1>2, DownsKnowTheLedger
<1>4. /\ FailedAttempt(r).mig = Attempted(r).mig /\ FailedAttempt(r).dir = Attempted(r).dir
      /\ FailedAttempt(r).hash = Attempted(r).hash
      /\ FailedAttempt(r).expected = Attempted(r).expected
  BY <1>1 DEF FailedAttempt, Attempt
<1>5. Open(ledger') \subseteq {att[r]} /\ ledger'.attempts[att[r]] = FailedAttempt(r)
  BY <1>1, <1>2, <1>3 DEF Open
<1>6. AppliedIds(ledger') = AppliedIds(mem[r])
  BY <1>2, <1>3 DEF AppliedIds
<1>7. Foreseen(mem[r], Attempted(r))
  BY <1>1 DEF ContentKnown, Attempted
<1>8. Foreseen(ledger', FailedAttempt(r))
  BY <1>4, <1>6, <1>7 DEF Foreseen, IdsAfter
<1>9. QED
  BY <1>2, <1>3, <1>5, <1>6, <1>8 DEF ContentKnown

LEMMA AdoptedContent ==
  ASSUME TypeOK, NEW r \in Runners, PlanFits(r), PlanCovers(r), mem[r] = EmptyHistory,
         NEW n \in AttemptIds, NEW order \in [1..n -> plan[r].todo], Ascending(order),
         \A m \in plan[r].todo : \E i \in 1..n : order[i] = m
  PROVE  ContentKnown(BaselineDoc(r, order))
<1> DEFINE d == BaselineDoc(r, order)
           inv == plan[r].inv
<1>1. n \in Nat \ {0} /\ plan[r] \in Plan /\ 1 \in 1..n
  BY ConstantsAssumption DEF AttemptIds, TypeOK
<1>2. AppliedIds(mem[r]) = {}
  BY DEF AppliedIds, EmptyHistory
<1>3. plan[r].dir = "up"
  <2>1. order[1] \in plan[r].todo
    BY <1>1
  <2>2. plan[r].dir \in {"up", "down"}
    BY <1>1 DEF Plan, Directions
  <2>3. QED
    BY <1>2, <2>1, <2>2 DEF PlanFits
<1>4. /\ DOMAIN d.applied = 1..n
      /\ \A i \in 1..n : /\ d.applied[i].id = order[i] /\ d.applied[i].hash = inv[order[i]]
                         /\ d.applied[i].catalog = PlannedOutcome(r, order[i])
  BY DEF BaselineDoc
<1>5. Open(d) = {} /\ AppliedIds(d) = {order[i] : i \in 1..n}
  BY BaselineLedger, BaselineKept
<1>6. AppliedIds(d) = plan[r].todo
  BY <1>5
<1> HIDE DEF d
<1>7. ASSUME NEW i \in 1..n
      PROVE  PlannedOutcome(r, order[i]) = SchemaOf({k \in AppliedIds(d) : k <= order[i]})
  <2>1. PICK m \in Migrations : m = order[i] /\ m \in plan[r].todo
    BY <1>1 DEF Plan
  <2>2. PlannedOutcome(r, m) = ReplayedThrough(inv, m)
    BY <1>3 DEF PlannedOutcome
  <2>3. \A o \in Effects : o[1] \in Migrations /\ o[1] \in Int
    BY IdTypes DEF TypeOK
  <2>4. \A k \in plan[r].todo : inv[k] # 0
    BY <1>3 DEF PlanCovers
  <2>5. \A k \in Migrations : inv[k] # 0 /\ k \notin plan[r].todo => m < k
    BY <1>2, <1>3, <2>1 DEF PlanCovers
  <2>6. m \in Int
    BY <2>1, IdTypes DEF TypeOK
  <2> HIDE DEF inv
  <2>7. ASSUME NEW o \in Effects \ DataOnly
        PROVE  (o[1] <= m /\ inv[o[1]] # 0) <=> o[1] \in {k \in AppliedIds(d) : k <= m}
    <3>1. o[1] \in Migrations /\ o[1] \in Int
      BY <2>3
    <3>2. CASE o[1] \in plan[r].todo
      BY <1>6, <2>4, <3>2
    <3>3. CASE o[1] \notin plan[r].todo
      BY <1>6, <2>5, <2>6, <3>1, <3>3
    <3>4. QED
      BY <3>2, <3>3
  <2>8. ReplayedThrough(inv, m) = SchemaOf({k \in AppliedIds(d) : k <= m})
    BY <2>7 DEF ReplayedThrough, SchemaOf
  <2>9. QED
    BY <2>1, <2>2, <2>8
<1>8. \A i \in 1..n : inv[order[i]] # 0
  BY <1>3 DEF PlanCovers
<1>9. ContentKnown(d)
  BY <1>4, <1>5, <1>7, <1>8 DEF ContentKnown
<1>10. QED
  BY <1>9 DEF d

LEMMA ResolvedContent ==
  ASSUME Known, ContentKnown(ledger), NEW r \in Runners, att[r] \in AttemptIds,
         ResolutionAllowed(r), plan[r].mode \in Actions
  PROVE  ContentKnown(ResolvedDoc(r))
<1> DEFINE a == ledger.attempts[att[r]]
           b == [a EXCEPT !.state = "resolved", !.resolution = plan[r].mode]
           d == ResolvedDoc(r)
<1>1. TypeOK /\ ledger \in History /\ Sound(ledger) /\ WellKept(ledger) /\ IsUnresolved(ledger, att[r])
  BY DEF Known, TypeInv, TypeOK, LedgerInv, DocumentInv, ResolutionAllowed
<1>2. d \in History
  BY <1>1, ResolvedType
<1>3. /\ a \in Attempt /\ b \in Attempt /\ b.state = "resolved"
      /\ \A j \in AttemptIds : d.attempts[j] = IF j = att[r] THEN b ELSE ledger.attempts[j]
  BY <1>1, <1>2, ResolvedKept
<1>4. att[r] \in Open(ledger) /\ AtMostOne(Open(ledger))
  BY <1>1 DEF IsUnresolved, Open, Sound
<1>5. Open(d) = {}
  <2>1. \A j \in AttemptIds : j # att[r] => j \notin Open(ledger)
    BY <1>4 DEF AtMostOne
  <2> HIDE DEF b, d
  <2>2. QED
    BY <1>3, <2>1 DEF Open
<1>6. d.applied = IF plan[r].mode = "confirm-not-applied" THEN ledger.applied
                  ELSE IF a.dir = "down" THEN Without(ledger.applied, a.mig)
                  ELSE Append(ledger.applied, ResolvedEntry(a, att[r]))
  BY DEF ResolvedDoc
<1>7. b.mig = a.mig /\ b.hash = a.hash /\ b.dir = a.dir /\ b.resolution = plan[r].mode
  BY <1>3 DEF Attempt
<1> HIDE DEF b, d
<1>8. CASE plan[r].mode = "confirm-not-applied"
  <2>1. d.applied = ledger.applied
    BY <1>6, <1>8
  <2>2. AppliedIds(d) = AppliedIds(ledger)
    BY <2>1 DEF AppliedIds
  <2>3. ContentKnown(d)
    BY <1>5, <2>1, <2>2 DEF ContentKnown
  <2>4. QED
    BY <2>3 DEF d
<1>9. CASE plan[r].mode = "confirm-applied"
  <2>1. d.applied = IF a.dir = "up" THEN Append(ledger.applied, ResolvedEntry(a, att[r]))
                    ELSE Without(ledger.applied, a.mig)
    BY <1>3, <1>6, <1>9 DEF Attempt, Directions
  <2>2. Landed(ledger, d, att[r], b)
    BY <1>3, <1>7, <1>9, <2>1 DEF Landed, ResolvedEntry, Succeeded
  <2>3. AppliedIds(d) = IdsAfter(ledger, a)
    BY <1>1, <1>2, <1>3, <1>4, <2>2, LandedIds DEF IdsAfter, d
  <2>4. d \in History
    BY <1>2 DEF d
  <2>5. ContentKnown(d)
    BY <1>1, <1>4, <1>5, <2>1, <2>3, <2>4, EntriesAfter
  <2>6. QED
    BY <2>5 DEF d
<1>10. QED
  BY <1>8, <1>9 DEF Actions

\* Whatever is written keeps its catalogs.
LEMMA WritesContent ==
  ASSUME Known, NoFalseDown, NEW r \in Runners, KnowsContent(r), Writes(r)
  PROVE  ContentKnown(ledger')
<1>1. ContentKnown(mem[r])
  BY DEF KnowsContent
<1>2. CASE /\ pc[r] = "mark"
           /\ \E m \in Migrations, id \in AttemptIds :
                IsNext(r, m) /\ IsFresh(mem[r], id) /\ ledger' = MarkedDoc(r, m, id)
  BY <1>1, <1>2, MarkedContent DEF KnowsContent
<1>3. CASE Attempting(r) /\ ledger' = AppliedDoc(r)
  BY <1>1, <1>3, LandedContent
<1>4. CASE pc[r] = "commit" /\ ~ Applying(r) /\ ledger' = mem[r]
  BY <1>1, <1>4
<1>5. CASE pc[r] = "catch" /\ SaveFailedState(r)
  BY <1>1, <1>5, FailureContent
<1>6. QED
  BY <1>2, <1>3, <1>4, <1>5 DEF Writes

(***************************************************************************)
(* A plan covers its inventory from below, until it is done.               *)
(***************************************************************************)
LEMMA BuiltPlanCovers ==
  ASSUME TypeOK, NEW r \in Runners, ValidHistory(mem[r], plan[r].inv), ContentKnown(mem[r]),
         NEW S \in Selections(r), plan'[r].inv = plan[r].inv, plan'[r].dir = plan[r].dir,
         plan'[r].todo = S, mem'[r] = mem[r]
  PROVE  PlanCovers(r)'
<1> DEFINE ids == AppliedIds(mem[r])
           inv == plan[r].inv
<1>1. mem[r] \in History /\ ids \subseteq Migrations /\ \A k \in Migrations : k \in Int
  BY IdTypes DEF TypeOK
<1>2. \A k \in ids : inv[k] # 0
  BY DEF AppliedIds, ValidHistory, AppliedContentPresent, ContentKnown
<1>3. ASSUME plan[r].dir = "up"
      PROVE  /\ \A k \in S : inv[k] # 0
             /\ \A k \in Migrations : inv[k] # 0 /\ k \notin ids /\ k \notin S => \A m \in S : m < k
  <2>1. PICK to \in Pending(r) : S = {m \in Pending(r) : m <= to}
    BY <1>3 DEF Selections
  <2>2. Pending(r) = {m \in Migrations : inv[m] # 0 /\ m \notin ids}
    BY DEF Pending
  <2> HIDE DEF ids, inv
  <2>3. QED
    BY <1>1, <2>1, <2>2
<1>4. AppliedIds(mem[r])' = ids
  BY DEF AppliedIds
<1>5. QED
  BY <1>2, <1>3, <1>4 DEF PlanCovers

LEMMA RestCovers ==
  ASSUME Known, NEW r \in Runners, Attempting(r), KnowsContent(r), Completed(r)
  PROVE  PlanCovers(r)'
<1> DEFINE m == Attempted(r).mig
           ids == AppliedIds(mem[r])
           inv == plan[r].inv
           rest == plan[r].todo \ {m}
<1>1. PlanCovers(r) /\ ContentKnown(mem[r]) /\ TypeOK /\ plan[r] \in Plan
  BY DEF KnowsContent, Known, TypeInv, TypeOK
<1>2. PlanFits(r) /\ m \in plan[r].todo /\ Attempted(r).dir = plan[r].dir
  BY DEF Known, DocumentInv, KnowsDocument, AttemptFits, IsNext
<1>3. mem'[r] = AppliedDoc(r) /\ plan'[r] = [plan[r] EXCEPT !.todo = rest]
  BY <1>1 DEF Completed, TypeOK
<1>4. plan'[r].inv = inv /\ plan'[r].dir = plan[r].dir /\ plan'[r].todo = rest
  BY <1>1, <1>3 DEF Plan
<1>5. AppliedIds(mem[r])' = IF plan[r].dir = "up" THEN ids \cup {m} ELSE ids \ {m}
  <2>1. AppliedIds(AppliedDoc(r)) = IdsAfter(mem[r], Attempted(r))
    BY <1>1, LandedContent
  <2>2. AppliedIds(mem[r])' = AppliedIds(AppliedDoc(r))
    BY <1>3 DEF AppliedIds
  <2>3. QED
    BY <1>2, <2>1, <2>2 DEF IdsAfter
<1>6. /\ \A k \in ids : inv[k] # 0
      /\ plan[r].dir = "up" =>
           /\ \A k \in plan[r].todo : inv[k] # 0
           /\ \A k \in Migrations : inv[k] # 0 /\ k \notin ids /\ k \notin plan[r].todo =>
                \A j \in plan[r].todo : j < k
  BY <1>1 DEF PlanCovers
<1> HIDE DEF m, ids, inv
<1>7. QED
  BY <1>2, <1>4, <1>5, <1>6 DEF PlanCovers

(***************************************************************************)
(* What a session knows of the content after a step.                       *)
(***************************************************************************)
LEMMA SameContent ==
  ASSUME NEW q \in Runners, KnowsContent(q), UNCHANGED <<pc[q], plan[q], mem[q]>>
  PROVE  KnowsContent(q)'
<1>1. /\ PlanCovers(q)' <=> PlanCovers(q)
      /\ Attempting(q)' <=> Attempting(q)
  BY DEF PlanCovers, Attempting, Applying
<1>2. QED
  BY <1>1 DEF KnowsContent

LEMMA OverContent ==
  ASSUME NEW q \in Runners, ContentKnown(mem'[q]),
         \/ pc'[q] \notin {"planned", "locking", "verify", "mark", "begin", "exec", "record", "commit"}
         \/ pc'[q] = "commit" /\ ~ Applying(q)'
         \/ pc'[q] = "planned" /\ plan'[q].mode \in Actions
  PROVE  KnowsContent(q)'
<1>1. ~ Attempting(q)'
  BY DEF Attempting
<1>2. QED
  BY <1>1 DEF KnowsContent

LEMMA EmptyContent == ContentKnown(EmptyHistory)
<1>1. Open(EmptyHistory) = {} /\ DOMAIN EmptyHistory.applied = {}
  BY EmptyLedger DEF EmptyHistory
<1>2. QED
  BY <1>1 DEF ContentKnown

LEMMA PlanningContent ==
  ASSUME Known, ContentKnown(ledger), NEW r \in Runners, KnowsContent(r),
         \/ StartPlan(r) \/ BuildPlan(r) \/ Inspect(r) \/ Attest(r) \/ Connect(r)
         \/ AcquireLock(r) \/ VerifyPlan(r)
  PROVE  KnowsContent(r)'
<1>1. /\ pc \in [Runners -> PCs] /\ plan \in [Runners -> Plan] /\ mem \in [Runners -> History]
      /\ ContentKnown(mem[r]) /\ TypeOK
  BY DEF Known, TypeInv, TypeOK, KnowsContent
<1>2. CASE StartPlan(r) \/ Inspect(r)
  <2>1. mem'[r] = ledger /\ pc'[r] \in {"planning", "inspecting"}
    BY <1>1, <1>2 DEF StartPlan, Inspect, Goto
  <2>2. QED
    BY <2>1, OverContent
<1>3. CASE BuildPlan(r)
  <2>1. PICK S \in Selections(r) : plan' = [plan EXCEPT ![r].catalog = Captured(r), ![r].todo = S]
    BY <1>3 DEF BuildPlan
  <2>2. pc[r] = "planning" /\ pc'[r] = "planned" /\ mem' = mem
    BY <1>1, <1>3 DEF BuildPlan, At, Goto
  <2>3. plan'[r] = [plan[r] EXCEPT !.catalog = Captured(r), !.todo = S]
    BY <1>1, <2>1
  <2>4. plan'[r].inv = plan[r].inv /\ plan'[r].dir = plan[r].dir /\ plan'[r].todo = S
    BY <1>1, <2>3 DEF Plan
  <2>5. ValidHistory(mem[r], plan[r].inv)
    BY <2>2 DEF Known, DocumentInv, KnowsDocument
  <2>6. PlanCovers(r)'
    BY <1>1, <2>2, <2>4, <2>5, BuiltPlanCovers
  <2>7. QED
    BY <1>1, <2>2, <2>6 DEF KnowsContent
<1>4. CASE Attest(r)
  <2>1. PICK action \in Actions :
          plan' = [plan EXCEPT ![r] = [NoPlan EXCEPT !.mode = action, !.catalog = Captured(r)]]
    BY <1>4 DEF Attest
  <2>2. pc'[r] = "planned" /\ mem' = mem /\ plan'[r].mode \in Actions
    BY <1>1, <1>4, <2>1 DEF Attest, Goto, NoPlan
  <2>3. QED
    BY <1>1, <2>2, OverContent
<1>5. CASE Connect(r) \/ AcquireLock(r) \/ VerifyPlan(r)
  <2>1. UNCHANGED <<plan, mem>> /\ pc[r] \in {"planned", "locking", "verify"}
    BY <1>5 DEF Connect, AcquireLock, VerifyPlan, At, client
  <2>2. pc'[r] \in {"locking", "verify"} \/ (pc'[r] = "mark" /\ plan[r].mode \notin Actions)
    BY <1>1, <1>5 DEF Connect, AcquireLock, VerifyPlan, Goto, Actions
  <2>3. PlanCovers(r)' <=> PlanCovers(r)
    BY <2>1 DEF PlanCovers
  <2>4. plan[r].mode \notin Actions => PlanCovers(r)
    BY <2>1 DEF KnowsContent
  <2>5. ~ Attempting(r)'
    BY <2>2 DEF Attempting
  <2>6. QED
    BY <1>1, <2>1, <2>2, <2>3, <2>4, <2>5 DEF KnowsContent
<1>6. QED
  BY <1>2, <1>3, <1>4, <1>5

LEMMA VerifiedContent ==
  ASSUME Known, ContentKnown(ledger), NEW r \in Runners, KnowsContent(r),
         VerifyBaseline(r) \/ VerifyResolution(r)
  PROVE  KnowsContent(r)'
<1>1. /\ pc \in [Runners -> PCs] /\ mem \in [Runners -> History] /\ TypeOK
      /\ pc[r] = "verify" /\ pc'[r] = "commit" /\ plan' = plan
      /\ plan[r].mode = "baseline" \/ plan[r].mode \in Actions
  BY DEF VerifyBaseline, VerifyResolution, At, Goto, Known, TypeInv, TypeOK
<1>2. ~ Applying(r)'
  BY <1>1 DEF Applying, Actions
<1>3. CASE VerifyBaseline(r)
  <2>1. PICK n \in AttemptIds : \E order \in [1..n -> plan[r].todo] :
          /\ Ascending(order)
          /\ \A m \in plan[r].todo : \E i \in 1..n : order[i] = m
          /\ mem' = [mem EXCEPT ![r] = BaselineDoc(r, order)]
    BY <1>3 DEF VerifyBaseline
  <2>2. PICK order \in [1..n -> plan[r].todo] :
          /\ Ascending(order)
          /\ \A m \in plan[r].todo : \E i \in 1..n : order[i] = m
          /\ mem' = [mem EXCEPT ![r] = BaselineDoc(r, order)]
    BY <2>1
  <2>3. mem[r] = EmptyHistory /\ plan[r].mode = "baseline"
    BY <1>3 DEF VerifyBaseline, EvidenceCurrent
  <2>4. PlanFits(r) /\ PlanCovers(r)
    BY <1>1, <2>3 DEF Known, DocumentInv, KnowsDocument, KnowsContent, Actions
  <2>5. ContentKnown(BaselineDoc(r, order))
    BY <1>1, <2>2, <2>3, <2>4, AdoptedContent
  <2>6. mem'[r] = BaselineDoc(r, order)
    BY <1>1, <2>2
  <2>7. QED
    BY <1>1, <1>2, <2>5, <2>6, OverContent
<1>4. CASE VerifyResolution(r)
  <2>1. plan[r].mode \in Actions /\ ResolutionAllowed(r) /\ mem'[r] = ResolvedDoc(r)
    BY <1>1, <1>4 DEF VerifyResolution
  <2>2. att[r] \in AttemptIds
    BY <1>1, <2>1 DEF Known, TypeInv, KnowsAttempt
  <2>3. ContentKnown(ResolvedDoc(r))
    BY <2>1, <2>2, ResolvedContent
  <2>4. QED
    BY <1>1, <1>2, <2>1, <2>3, OverContent
<1>5. QED
  BY <1>3, <1>4

LEMMA WorkingContent ==
  ASSUME Known, NEW r \in Runners, KnowsContent(r),
         \/ Mark(r) \/ Begin(r) \/ Execute(r) \/ Record(r) \/ Commit(r) \/ CommitRejected(r) \/ Fail(r)
         \/ Catch(r) \/ Refuse(r) \/ Lose(r)
  PROVE  KnowsContent(r)'
<1>1. /\ pc \in [Runners -> PCs] /\ plan \in [Runners -> Plan] /\ mem \in [Runners -> History]
      /\ ContentKnown(mem[r]) /\ TypeOK
  BY DEF Known, TypeInv, TypeOK, KnowsContent
<1>2. CASE Mark(r)
  <2>1. PICK m \in Migrations, id \in AttemptIds :
          IsNext(r, m) /\ IsFresh(mem[r], id) /\ mem' = [mem EXCEPT ![r] = MarkedDoc(r, m, id)]
    BY <1>2 DEF Mark
  <2>2. pc[r] = "mark" /\ plan' = plan /\ pc'[r] = "begin"
    BY <1>1, <1>2 DEF Mark, At, Goto
  <2>3. PlanCovers(r)
    BY <2>2 DEF KnowsContent
  <2>4. /\ ContentKnown(MarkedDoc(r, m, id))
        /\ AppliedIds(MarkedDoc(r, m, id)) = AppliedIds(mem[r])
    BY <1>1, <2>1, <2>2, <2>3, MarkedContent
  <2>5. mem'[r] = MarkedDoc(r, m, id)
    BY <1>1, <2>1
  <2>6. AppliedIds(mem[r])' = AppliedIds(mem[r])
    BY <2>4, <2>5 DEF AppliedIds
  <2>7. PlanCovers(r)'
    BY <2>2, <2>3, <2>6 DEF PlanCovers
  <2>8. QED
    BY <2>2, <2>4, <2>5, <2>7 DEF KnowsContent
<1>3. CASE Begin(r) \/ Execute(r) \/ (Record(r) /\ txn[r].open)
  <2>1. UNCHANGED <<plan, mem>> /\ Attempting(r) /\ pc'[r] \in {"exec", "record", "commit"}
    BY <1>1, <1>3 DEF Begin, Execute, Record, At, Goto, client, Attempting
  <2>2. PlanCovers(r)' <=> PlanCovers(r)
    BY <2>1 DEF PlanCovers
  <2>3. QED
    BY <1>1, <2>1, <2>2 DEF KnowsContent
<1>4. CASE (Record(r) /\ ~ txn[r].open) \/ (Commit(r) /\ Applying(r))
  <2>1. Attempting(r) /\ Completed(r)
    BY <1>4 DEF Record, Commit, At, Attempting
  <2>2. mem'[r] = AppliedDoc(r) /\ pc'[r] \in {"mark", "close"}
    BY <1>1, <2>1 DEF Completed, Goto
  <2>3. ContentKnown(AppliedDoc(r)) /\ PlanCovers(r)'
    BY <1>1, <2>1, LandedContent, RestCovers
  <2>4. QED
    BY <2>2, <2>3 DEF KnowsContent
<1>5. CASE (Commit(r) /\ ~ Applying(r)) \/ CommitRejected(r) \/ Fail(r) \/ Catch(r) \/ Refuse(r)
  <2>1. mem' = mem /\ pc'[r] \in {"catch", "close"}
    BY <1>1, <1>5 DEF Commit, CommitRejected, Fail, Catch, Refuse, Goto, client
  <2>2. QED
    BY <1>1, <2>1, OverContent
<1>6. CASE Lose(r)
  <2>1. UNCHANGED <<pc, plan, mem>>
    BY <1>6 DEF Lose, client
  <2>2. QED
    BY <2>1, SameContent
<1>7. QED
  BY <1>2, <1>3, <1>4, <1>5, <1>6

LEMMA OwnContent ==
  ASSUME Known, ContentKnown(ledger), NEW r \in Runners, KnowsContent(r), Run(r) \/ Operate(r)
  PROVE  KnowsContent(r)'
<1>1. CASE GiveUp(r) \/ Close(r) \/ BackendEnds(r)
  <2>1. mem'[r] = EmptyHistory /\ pc'[r] = "idle"
    BY <1>1 DEF GiveUp, Close, BackendEnds, Forget, Goto, Known, TypeInv, TypeOK
  <2>2. QED
    BY <2>1, EmptyContent, OverContent
<1>2. QED
  BY <1>1, PlanningContent, VerifiedContent, WorkingContent DEF Run, Operate

LEMMA ContentStep == Known /\ NoFalseDown /\ ContentInv /\ [Next]_vars => ContentInv'
<1> SUFFICES ASSUME Known, NoFalseDown, ContentInv, [Next]_vars PROVE ContentInv'
  OBVIOUS
<1>1. ContentKnown(ledger) /\ \A q \in Runners : KnowsContent(q)
  BY DEF ContentInv
<1>2. ContentKnown(ledger')
  BY <1>1, LedgerWriters, WritesContent
<1>3. ASSUME NEW q \in Runners PROVE KnowsContent(q)'
  <2>1. CASE Run(q) \/ Operate(q)
    BY <1>1, <2>1, OwnContent
  <2>2. ASSUME NEW r \in Runners, Run(r) \/ Operate(r), q # r PROVE KnowsContent(q)'
    <3>1. UNCHANGED SessionOf(q)
      BY <2>2, OthersSession DEF Known, TypeInv
    <3>2. UNCHANGED <<pc[q], plan[q], mem[q]>>
      BY <3>1 DEF SessionOf
    <3>3. QED
      BY <1>1, <3>2, SameContent
  <2>3. CASE ManualDdl \/ Repair \/ EditFiles \/ UNCHANGED vars
    <3>1. UNCHANGED <<pc[q], plan[q], mem[q]>>
      BY <2>3 DEF ManualDdl, Repair, EditFiles, vars, client
    <3>2. QED
      BY <1>1, <3>1, SameContent
  <2>4. QED
    BY <2>1, <2>2, <2>3 DEF Next
<1>4. QED
  BY <1>2, <1>3 DEF ContentInv

LEMMA ContentInvariant == NoFalseDown => (Spec => []ContentInv)
<1> SUFFICES ASSUME NoFalseDown PROVE Spec => []ContentInv
  OBVIOUS
<1>1. Init => ContentInv
  BY EmptyContent DEF Init, ContentInv, KnowsContent, Attempting
<1>2. Known /\ ContentInv /\ [Next]_vars => ContentInv'
  BY ContentStep
<1>3. QED
  BY <1>1, <1>2, KnownInvariant, PTL DEF Spec

\* No session changes the object that no migration creates.
LEMMA ForeignDelta ==
  ASSUME Known, ForeignInv, NEW r \in Runners, Run(r) \/ Operate(r)
  PROVE  \A q \in Runners : txn'[q].delta[Foreign] = 0
<1>1. txn \in [Runners -> Txn] /\ TypeOK /\ Foreign \in Tokens
  BY DEF Known, TypeInv, TypeOK, Tokens
<1>2. \A q \in Runners : txn[q].delta[Foreign] = 0
  BY DEF ForeignInv
<1>3. ASSUME NEW q \in Runners, q # r PROVE txn'[q].delta[Foreign] = 0
  <2>1. UNCHANGED SessionOf(q)
    BY <1>1, <1>3, OthersSession
  <2>2. QED
    BY <1>2, <2>1 DEF SessionOf
<1>4. txn'[r].delta[Foreign] = 0
  <2>1. CASE Commit(r) \/ CommitRejected(r) \/ Catch(r) \/ Close(r) \/ BackendEnds(r)
    <3>1. txn'[r] = NoTxn
      BY <1>1, <2>1 DEF Commit, CommitRejected, Catch, Close, BackendEnds, DropTxn
    <3>2. QED
      BY <1>1, <3>1 DEF NoTxn
  <2>2. CASE VerifyBaseline(r) \/ VerifyResolution(r)
    <3>1. txn' = [txn EXCEPT ![r].open = TRUE]
      BY <2>2 DEF VerifyBaseline, VerifyResolution
    <3>2. QED
      BY <1>1, <1>2, <3>1 DEF Txn
  <2>3. CASE Begin(r)
    <3>1. txn' = [txn EXCEPT ![r].open = (Attempted(r).mig \in Transactional \/ plan[r].mode = "reconcile")]
      BY <2>3 DEF Begin
    <3>2. txn'[r].delta = txn[r].delta
      BY <1>1, <3>1 DEF Txn
    <3>3. QED
      BY <1>2, <3>2
  <2>4. CASE Execute(r)
    <3>1. Attempted(r) \in Attempt
      BY <2>4 DEF Execute, At, Known, TypeInv, KnowsAttempt, Working
    <3>2. Target(r)[1] \in Migrations
      BY <3>1 DEF Target, Attempt
    <3>3. Target(r) # Foreign
      BY <3>2 DEF Foreign, Migrations
    <3>4. \/ txn' = [txn EXCEPT ![r].delta[Target(r)] = @ + Change(r)]
          \/ txn' = txn
      BY <2>4 DEF Execute
    <3>5. txn'[r].delta[Foreign] = txn[r].delta[Foreign]
      BY <1>1, <3>3, <3>4 DEF Txn
    <3>6. QED
      BY <1>2, <3>5
  <2>5. CASE \/ AcquireLock(r) \/ GiveUp(r) \/ VerifyPlan(r) \/ Refuse(r) \/ Mark(r) \/ Record(r)
             \/ Fail(r) \/ Operate(r)
    <3>1. txn' = txn
      BY <2>5 DEF AcquireLock, GiveUp, VerifyPlan, Refuse, Mark, Record, Fail, Operate, StartPlan,
         BuildPlan, Inspect, Attest, Connect, Lose
    <3>2. QED
      BY <1>2, <3>1
  <2>6. QED
    BY <2>1, <2>2, <2>3, <2>4, <2>5 DEF Run
<1>5. QED
  BY <1>3, <1>4

LEMMA ForeignStep == Known /\ ForeignInv /\ [Next]_vars => ForeignInv'
<1> SUFFICES ASSUME Known, ForeignInv, [Next]_vars PROVE ForeignInv'
  OBVIOUS
<1>1. /\ rows \in [Tokens -> Int] /\ Foreign \in Tokens
      /\ Foreign \notin touched => rows[Foreign] = 0
      /\ \A q \in Runners : txn[q].delta[Foreign] = 0
  BY DEF Known, TypeInv, TypeOK, Tokens, ForeignInv
<1>2. ASSUME NEW r \in Runners, Run(r) \/ Operate(r) PROVE ForeignInv'
  <2>1. \A q \in Runners : txn'[q].delta[Foreign] = 0
    BY <1>2, ForeignDelta
  <2>2. touched' = touched /\ rows'[Foreign] = rows[Foreign]
    <3>1. CASE UNCHANGED <<rows, ledger, touched>>
      BY <3>1
    <3>2. CASE Executes(r)
      <4>1. Attempted(r) \in Attempt
        BY <3>2 DEF Executes, Known, TypeInv, KnowsAttempt, Working
      <4>2. Target(r)[1] \in Migrations
        BY <4>1 DEF Target, Attempt
      <4>3. Target(r) # Foreign
        BY <4>2 DEF Foreign, Migrations
      <4>4. QED
        BY <1>1, <3>2, <4>3 DEF Executes
    <3>3. CASE Lands(r) \/ Saves(r)
      <4>1. touched' = touched /\ (rows' = rows \/ rows' = Seen(r))
        BY <3>3 DEF Lands, Saves
      <4>2. Seen(r)[Foreign] = rows[Foreign]
        BY <1>1 DEF Seen
      <4>3. QED
        BY <4>1, <4>2
    <3>4. CASE Marks(r) \/ SavesFailure(r)
      BY <3>4 DEF Marks, SavesFailure
    <3>5. QED
      BY <1>2, <3>1, <3>2, <3>3, <3>4, SessionMoves DEF Moves
  <2>3. QED
    BY <1>1, <2>1, <2>2 DEF ForeignInv
<1>3. CASE ManualDdl
  <2>1. PICK o \in Objects : /\ rows' = [rows EXCEPT ![o] = IF @ > 0 THEN 0 ELSE 1]
                             /\ touched' = touched \cup {o}
    BY <1>3 DEF ManualDdl
  <2>2. txn' = txn /\ (o # Foreign => rows'[Foreign] = rows[Foreign])
    BY <1>1, <1>3, <2>1 DEF ManualDdl
  <2>3. QED
    BY <1>1, <2>1, <2>2 DEF ForeignInv
<1>4. CASE Repair
  <2>1. PICK id \in Unresolved(ledger), count \in {0, 1} :
          /\ rows' = [t \in Tokens |-> IF t \in EffectsOf(ledger.attempts[id].mig) THEN count
                                       ELSE rows[t]]
          /\ touched' = touched \ EffectsOf(ledger.attempts[id].mig)
    BY <1>4 DEF Repair
  <2>2. Foreign \notin Effects
    <3>1. \A e \in Effects : e[1] \in Migrations
      BY EffectShape
    <3>2. QED
      BY <3>1 DEF Foreign, Migrations
  <2>3. Foreign \notin EffectsOf(ledger.attempts[id].mig)
    BY <2>2 DEF EffectsOf
  <2>4. txn' = txn /\ rows'[Foreign] = rows[Foreign]
    BY <1>1, <1>4, <2>1, <2>3 DEF Repair
  <2>5. Foreign \in touched => Foreign \in touched'
    BY <2>1, <2>3
  <2>6. QED
    BY <1>1, <2>4, <2>5 DEF ForeignInv
<1>5. CASE EditFiles \/ UNCHANGED vars
  <2>1. UNCHANGED <<rows, touched, txn>>
    BY <1>5 DEF EditFiles, vars, database
  <2>2. QED
    BY <1>1, <2>1 DEF ForeignInv
<1>6. QED
  BY <1>2, <1>3, <1>4, <1>5 DEF Next

LEMMA ForeignInvariant == Spec => []ForeignInv
<1>1. Init => ForeignInv
  BY DEF Init, ForeignInv, Tokens, NoTxn
<1>2. QED
  BY <1>1, ForeignStep, KnownInvariant, PTL DEF Spec

\* The uppermost identifier of an ascending history is that of its last entry.
LEMMA LastIsTop ==
  ASSUME NEW h \in History, AppliedAscending(h), NEW m \in AppliedIds(h),
         \A k \in AppliedIds(h) : k <= m
  PROVE  h.applied # << >> /\ h.applied[Len(h.applied)].id = m
<1>1. PICK i \in DOMAIN h.applied : h.applied[i].id = m
  BY DEF AppliedIds
<1>2. h.applied \in Seq(Entry) /\ DOMAIN h.applied = 1..Len(h.applied) /\ Len(h.applied) \in Nat
  BY HistoryTypes
<1>3. h.applied # << >>
  BY <1>1, EmptySeq
<1>4. Len(h.applied) \in DOMAIN h.applied
  BY <1>1, <1>2
<1>5. /\ h.applied[Len(h.applied)].id \in AppliedIds(h)
      /\ h.applied[Len(h.applied)].id \in Int /\ m \in Int
      /\ h.applied[Len(h.applied)].id <= m
  BY <1>4, IdTypes
<1>6. i < Len(h.applied) => m < h.applied[Len(h.applied)].id
  BY <1>1, <1>4 DEF AppliedAscending
<1>7. QED
  BY <1>1, <1>2, <1>3, <1>5, <1>6

\* Where nobody changed anything by hand and an attempt's effects are there,
\* the schema is what its plan foresaw.
LEMMA SchemaForeseen ==
  ASSUME Known, TruthOf(ledger), ForeignInv, touched = {},
         NEW id \in Open(ledger), Holds("confirm-applied", ledger.attempts[id])
  PROVE  Catalog(rows) = SchemaOf(IdsAfter(ledger, ledger.attempts[id]))
<1> DEFINE a == ledger.attempts[id]
<1>1. /\ ledger \in History /\ AtMostOne(Open(ledger)) /\ rows \in [Tokens -> Int]
      /\ rows[Foreign] = 0
  BY DEF Known, TypeInv, TypeOK, LedgerInv, Sound, ForeignInv
<1>2. \A m : InDoubt(ledger, m) => m = a.mig
  BY <1>1 DEF InDoubt, AtMostOne
<1>3. ASSUME NEW e \in Effects
      PROVE  rows[e] > 0 <=> e[1] \in IdsAfter(ledger, a)
  <2>1. CASE e[1] = a.mig
    <3>1. IF a.dir = "up" THEN rows[e] = 1 ELSE rows[e] = 0
      BY <2>1 DEF Holds, Complete, Absent, EffectsOf
    <3>2. e[1] \in IdsAfter(ledger, a) <=> a.dir = "up"
      BY <2>1 DEF IdsAfter
    <3>3. QED
      BY <3>1, <3>2
  <2>2. CASE e[1] # a.mig
    <3>1. rows[e] = Present(ledger, e)
      BY <1>2, <2>2 DEF TruthOf, Untouched
    <3>2. e[1] \in IdsAfter(ledger, a) <=> e[1] \in AppliedIds(ledger)
      BY <2>2 DEF IdsAfter
    <3>3. QED
      BY <3>1, <3>2 DEF Present
  <2>3. QED
    BY <2>1, <2>2
<1> HIDE DEF a
<1>4. \A o \in Objects : rows[o] > 0 <=> o \in Effects \ DataOnly /\ o[1] \in IdsAfter(ledger, a)
  <2> SUFFICES ASSUME NEW o \in Objects
               PROVE  rows[o] > 0 <=> o \in Effects \ DataOnly /\ o[1] \in IdsAfter(ledger, a)
    OBVIOUS
  <2>1. CASE o \in Effects \ DataOnly
    BY <1>3, <2>1
  <2>2. CASE o \notin Effects \ DataOnly
    <3>1. o = Foreign
      BY <2>2 DEF Objects
    <3>2. ~ (rows[o] > 0)
      BY <1>1, <3>1
    <3>3. QED
      BY <2>2, <3>2
  <2>3. QED
    BY <2>1, <2>2
<1>5. QED
  BY <1>4 DEF Catalog, SchemaOf, a, Objects

(* An operator is never left without a way out: while nobody holds the lock and
   nobody has changed anything by hand, an unresolved attempt whose effects
   are all there passes every condition resolveAttempt puts on confirm-applied:
   the live schema is the catalog the attempt foresaw - whatever was applied,
   undone, adopted or resolved before it - and its migration is where the
   resolution will put or take it, above everything applied, or last.  The
   hypotheses are those of LedgerIsTrue. *)
THEOREM AlwaysAWayOut == NoFalseDown /\ CatalogTells => (Spec => []Resolvable)
<1> SUFFICES ASSUME NoFalseDown, CatalogTells PROVE Spec => []Resolvable
  OBVIOUS
<1>1. Known /\ EffectsInv /\ ContentInv /\ ForeignInv => Resolvable
  <2> SUFFICES ASSUME Known, EffectsInv, ContentInv, ForeignInv,
                      NEW id \in Unresolved(ledger), lock = NoRunner, touched = {},
                      Holds("confirm-applied", ledger.attempts[id])
               PROVE  /\ Catalog(rows) = ledger.attempts[id].expected
                      /\ IF ledger.attempts[id].dir = "down"
                         THEN /\ ledger.applied # << >>
                              /\ ledger.applied[Len(ledger.applied)].id = ledger.attempts[id].mig
                         ELSE \A m \in AppliedIds(ledger) : m < ledger.attempts[id].mig
    BY DEF Resolvable
  <2>1. /\ ledger \in History /\ WellKept(ledger) /\ EntriesSettled(ledger)
        /\ TruthOf(ledger) /\ DownsApplied(ledger) /\ ContentKnown(ledger)
    BY DEF Known, TypeInv, TypeOK, LedgerInv, Sound, DocumentInv, EffectsInv, EffectsTrue, ContentInv
  <2>2. id \in Open(ledger)
    BY <2>1, OpenIsUnresolved
  <2>3. ledger.attempts[id].dir \in {"up", "down"}
    BY <2>1, <2>2, HistoryTypes DEF Open, Attempt, Directions
  <2>4. AtTop(ledger, ledger.attempts[id]) /\ Foreseen(ledger, ledger.attempts[id])
    BY <2>1, <2>2 DEF WellKept, OpenAtTop, ContentKnown
  <2>5. Catalog(rows) = ledger.attempts[id].expected
    BY <2>1, <2>2, <2>4, SchemaForeseen DEF Foreseen
  <2>6. CASE ledger.attempts[id].dir = "down"
    <3>1. PICK top \in AppliedIds(ledger) : top = ledger.attempts[id].mig
      BY <2>1, <2>2, <2>6 DEF DownsApplied
    <3>2. \A k \in AppliedIds(ledger) : k <= top
      BY <2>4, <2>6, <3>1 DEF AtTop
    <3>3. QED
      BY <2>1, <2>5, <2>6, <3>1, <3>2, LastIsTop DEF WellKept
  <2>7. CASE ledger.attempts[id].dir # "down"
    BY <2>3, <2>4, <2>5, <2>7 DEF AtTop
  <2>8. QED
    BY <2>6, <2>7
<1>2. QED
  BY <1>1, KnownInvariant, EffectsInvariant, ContentInvariant, ForeignInvariant, PTL
===============================================================================
