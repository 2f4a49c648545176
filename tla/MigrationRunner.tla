---------------------------- MODULE MigrationRunner ----------------------------
(***************************************************************************)
(* The migration engine (packages/migrations/src/engine.ts and             *)
(* recovery.ts) at work: operator processes that create plans, apply,      *)
(* revert, reconcile, baseline and resolve them, each over a database      *)
(* session of its own (packages/postgres/src/migrations.ts), while         *)
(* developers edit the migration files, somebody runs DDL by hand, and     *)
(* sessions are lost at any point.                                         *)
(*                                                                         *)
(* A runner holds at most one session.  Its client side is pc, plan, mem   *)
(* and the rest; its backend, which outlives a lost client until it        *)
(* notices, is txn (the open transaction) and the advisory lock.           *)
(***************************************************************************)
EXTENDS MigrationHistory

CONSTANTS
  Runners,            \* operator processes
  NoRunner,           \* the lock is free
  InitialObjects,     \* objects in the database before its history begins
  InitialFiles,       \* [Migrations -> Versions], the first inventory
  Commands,           \* bound: the plans operators make, of {"apply", "reconcile", "baseline"}
  CommitFaults,       \* SUBSET {"undone", "done"}: what a rejected commit has done
  UnreadableHistory,  \* a failed runner may be unable to read the history back
  InspectWhileLocked, \* an operator may attest effects while a session holds the lock
  MaxDrift,           \* bound: manual DDL statements
  MaxEdits,           \* bound: edits of the migration files
  MaxLost             \* bound: lost sessions

ASSUME RunnerAssumption ==
  /\ NoRunner \notin Runners
  /\ InitialObjects \subseteq Objects
  /\ InitialFiles \in [Migrations -> Versions]
  /\ Commands \subseteq {"apply", "reconcile", "baseline"}
  /\ CommitFaults \subseteq {"undone", "done"}
  /\ UnreadableHistory \in BOOLEAN
  /\ InspectWhileLocked \in BOOLEAN
  /\ MaxDrift \in Nat /\ MaxEdits \in Nat /\ MaxLost \in Nat

VARIABLES
  files,    \* the migration directory: content version of each migration, 0 absent
  rows,     \* committed effects: how often each token is in place
  ledger,   \* the committed history document
  lock,     \* the advisory lock's holder
  touched,  \* history variable: tokens changed other than by a migration
  drifts, edits, lost,  \* counters of environment steps, for the bounds
  pc, plan, mem, att, step, txn, alive

database == <<rows, ledger>>
client   == <<plan, mem, att, step>>
world    == <<files, touched, drifts, edits, lost>>
vars     == <<files, rows, ledger, lock, touched, drifts, edits, lost,
              pc, plan, mem, att, step, txn, alive>>

Modes == {"none", "apply", "reconcile", "baseline"} \cup Actions
PCs   == {"idle", "planning", "planned", "inspecting", "locking", "verify", "mark",
          "begin", "exec", "record", "commit", "catch", "close"}
\* Where a backend can still be working for the session.
Connected == {"verify", "mark", "begin", "exec", "record", "commit", "catch", "close"}

Plan   == [mode : Modes, dir : Directions, inv : [Migrations -> Versions],
           catalog : SUBSET Objects, todo : SUBSET Migrations]
NoPlan == [mode |-> "none", dir |-> "up", inv |-> [m \in Migrations |-> 0],
           catalog |-> {}, todo |-> {}]
Txn   == [open : BOOLEAN, delta : [Tokens -> Int]]
NoTxn == [open |-> FALSE, delta |-> [t \in Tokens |-> 0]]

TypeOK ==
  /\ files \in [Migrations -> Versions]
  /\ rows \in [Tokens -> Int]
  /\ ledger \in History
  /\ lock \in Runners \cup {NoRunner}
  /\ touched \subseteq Tokens
  /\ drifts \in Nat /\ edits \in Nat /\ lost \in Nat
  /\ pc \in [Runners -> PCs]
  /\ plan \in [Runners -> Plan]
  /\ mem \in [Runners -> History]
  /\ att \in [Runners -> AttemptIds \cup {0}]
  /\ step \in [Runners -> Nat]
  /\ txn \in [Runners -> Txn]
  /\ alive \in [Runners -> BOOLEAN]

Init ==
  /\ files = InitialFiles
  /\ rows = [t \in Tokens |-> IF t \in InitialObjects THEN 1 ELSE 0]
  /\ ledger = EmptyHistory
  /\ lock = NoRunner
  /\ touched = InitialObjects
  /\ drifts = 0 /\ edits = 0 /\ lost = 0
  /\ pc = [r \in Runners |-> "idle"]
  /\ plan = [r \in Runners |-> NoPlan]
  /\ mem = [r \in Runners |-> EmptyHistory]
  /\ att = [r \in Runners |-> 0]
  /\ step = [r \in Runners |-> 0]
  /\ txn = [r \in Runners |-> NoTxn]
  /\ alive = [r \in Runners |-> TRUE]

-------------------------------------------------------------------------------
(***************************************************************************)
(* What a session sees and writes.                                         *)
(***************************************************************************)
Seen(r)     == [t \in Tokens |-> rows[t] + txn[r].delta[t]]
Captured(r) == Catalog(Seen(r))

At(r, label) == alive[r] /\ pc[r] = label
Goto(r, label) == pc' = [pc EXCEPT ![r] = label]

\* The client forgets everything: the command has ended.
Forget(r) ==
  /\ Goto(r, "idle")
  /\ plan' = [plan EXCEPT ![r] = NoPlan]
  /\ mem' = [mem EXCEPT ![r] = EmptyHistory]
  /\ att' = [att EXCEPT ![r] = 0]
  /\ step' = [step EXCEPT ![r] = 0]

DropTxn(r) == txn' = [txn EXCEPT ![r] = NoTxn]

-------------------------------------------------------------------------------
(***************************************************************************)
(* createPlan: the inventory and the history are read, then the catalog,   *)
(* none of it under the lock.                                              *)
(***************************************************************************)
StartPlan(r) ==
  /\ At(r, "idle")
  /\ ValidHistory(ledger, files)
  /\ \E mode \in Commands, dir \in Directions :
       /\ dir = "down" => mode = "apply"
       /\ plan' = [plan EXCEPT ![r] = [NoPlan EXCEPT !.mode = mode, !.dir = dir, !.inv = files]]
  /\ mem' = [mem EXCEPT ![r] = ledger]
  /\ Goto(r, "planning")
  /\ UNCHANGED <<database, lock, world, att, step, txn, alive>>

Pending(r) == {m \in Migrations : plan[r].inv[m] # 0 /\ m \notin AppliedIds(mem[r])}

\* The migrations a plan may select: a prefix of the pending ones (--to), or
\* a suffix of the applied ones, each of them reversible.
Selections(r) ==
  IF plan[r].dir = "up"
  THEN {{m \in Pending(r) : m <= to} : to \in Pending(r)}
  ELSE {S \in {{m \in AppliedIds(mem[r]) : m > to} : to \in 0..N} :
          S # {} /\ S \subseteq Reversible}

\* plan.starting: for up the replayed head, for down the recorded one.
Starting(r) ==
  IF plan[r].dir = "down" THEN ExpectedHead(mem[r])
  ELSE IF mem[r].applied = << >> THEN {}
  ELSE ReplayedThrough(plan[r].inv, mem[r].applied[Len(mem[r].applied)].id)

BuildPlan(r) ==
  /\ At(r, "planning")
  /\ plan[r].mode = "apply" =>
       Captured(r) = ExpectedHead(mem[r]) /\ Captured(r) = Starting(r)
  /\ \E S \in Selections(r) :
       plan' = [plan EXCEPT ![r].catalog = Captured(r), ![r].todo = S]
  /\ Goto(r, "planned")
  /\ UNCHANGED <<database, lock, world, mem, att, step, txn, alive>>

-------------------------------------------------------------------------------
(***************************************************************************)
(* status (inspectMigrations) followed by the operator's attestation: the  *)
(* history is read, then the catalog; the operator looks at the effects of *)
(* one unresolved attempt and attests what is there.                       *)
(***************************************************************************)
Complete(m) == \A e \in EffectsOf(m) : rows[e] = 1
Absent(m)   == \A e \in EffectsOf(m) : rows[e] = 0

\* The effects of the attempt are all there (confirm-applied), or none is.
Holds(action, a) ==
  IF (action = "confirm-applied") = (a.dir = "up") THEN Complete(a.mig) ELSE Absent(a.mig)

Inspect(r) ==
  /\ At(r, "idle")
  /\ \E id \in Unresolved(ledger) : att' = [att EXCEPT ![r] = id]
  /\ mem' = [mem EXCEPT ![r] = ledger]
  /\ Goto(r, "inspecting")
  /\ UNCHANGED <<database, lock, world, plan, step, txn, alive>>

Attest(r) ==
  /\ At(r, "inspecting")
  /\ InspectWhileLocked \/ lock = NoRunner
  /\ \E action \in Actions :
       /\ Holds(action, mem[r].attempts[att[r]])
       /\ plan' = [plan EXCEPT ![r] =
                     [NoPlan EXCEPT !.mode = action, !.catalog = Captured(r)]]
  /\ Goto(r, "planned")
  /\ UNCHANGED <<database, lock, world, mem, att, step, txn, alive>>

-------------------------------------------------------------------------------
(***************************************************************************)
(* applyPlan, baselinePlan and resolveAttempt up to the lock.              *)
(***************************************************************************)
InputsUnchanged(r) == plan[r].mode \notin Actions => files = plan[r].inv

Connect(r) ==
  /\ At(r, "planned")
  /\ InputsUnchanged(r)
  /\ Goto(r, "locking")
  /\ UNCHANGED <<database, lock, world, client, txn, alive>>

LockFree_Ignored(r) == TRUE
LockFree(r) == lock = NoRunner

AcquireLock(r) ==
  /\ At(r, "locking")
  /\ LockFree(r)
  /\ lock' = r
  /\ Goto(r, "verify")
  /\ UNCHANGED <<database, world, client, txn, alive>>

\* Planning refused, inputs changed before connecting, or the lock timed out.
MayGiveUp_NoLockTimeout(r) == pc[r] \in {"planning", "inspecting", "planned"}
MayGiveUp(r) == pc[r] \in {"planning", "inspecting", "planned", "locking"}

GiveUp(r) ==
  /\ alive[r]
  /\ MayGiveUp(r)
  /\ Forget(r)
  /\ UNCHANGED <<database, lock, world, txn, alive>>

(***************************************************************************)
(* Revalidation under the lock.                                            *)
(***************************************************************************)
\* digest(history) and digest(capture) against the plan or the evidence.
EvidenceCurrent_HistoryIgnored(r) == Captured(r) = plan[r].catalog
EvidenceCurrent(r) ==
  /\ ledger = mem[r]
  /\ Captured(r) = plan[r].catalog

\* What the attempt of m must leave, according to the plan.
PlannedOutcome_DirectionIgnored(r, m) == ReplayedThrough(plan[r].inv, m)
PlannedOutcome(r, m) ==
  IF plan[r].dir = "up" THEN ReplayedThrough(plan[r].inv, m)
  ELSE CatalogBefore(mem[r].applied, m)

ReconcileAllowed(r) ==
  \E m \in Reconcilable :
    /\ plan[r].todo = {m}
    /\ PlannedOutcome(r, m) = Captured(r)
    /\ PlannedOutcome(r, m) \ Starting(r) = EffectsOf(m)
    /\ Starting(r) \subseteq PlannedOutcome(r, m)

VerifyPlan(r) ==
  /\ At(r, "verify")
  /\ plan[r].mode \in {"apply", "reconcile"}
  /\ InputsUnchanged(r)
  /\ EvidenceCurrent(r)
  /\ IF plan[r].mode = "reconcile" THEN ReconcileAllowed(r) ELSE Starting(r) = Captured(r)
  /\ Goto(r, "mark")
  /\ UNCHANGED <<database, lock, world, client, txn, alive>>

-------------------------------------------------------------------------------
(***************************************************************************)
(* The migrations of a plan, one after the other.                          *)
(***************************************************************************)
IsNext(r, m) ==
  /\ m \in plan[r].todo
  /\ \A k \in plan[r].todo : IF plan[r].dir = "up" THEN m <= k ELSE k <= m

RunningAttempt(r, m) ==
  [mig |-> m, hash |-> plan[r].inv[m], dir |-> plan[r].dir, state |-> "running",
   resolution |-> "none", before |-> Captured(r), expected |-> PlannedOutcome(r, m)]

MarkedDoc(r, m, id) == ReplaceAttempt(mem[r], id, RunningAttempt(r, m))

\* The running attempt is recorded, outside any transaction.
Mark(r) ==
  /\ At(r, "mark")
  /\ \E m \in Migrations, id \in AttemptIds :
       /\ IsNext(r, m)
       /\ IsFresh(mem[r], id)
       /\ ledger' = MarkedDoc(r, m, id)
       /\ mem' = [mem EXCEPT ![r] = MarkedDoc(r, m, id)]
       /\ att' = [att EXCEPT ![r] = id]
  /\ Goto(r, "begin")
  /\ UNCHANGED <<rows, lock, world, plan, step, txn, alive>>

Attempted(r) == mem[r].attempts[att[r]]

Begin(r) ==
  /\ At(r, "begin")
  /\ txn' = [txn EXCEPT ![r].open =
               Attempted(r).mig \in Transactional \/ plan[r].mode = "reconcile"]
  /\ step' = [step EXCEPT ![r] = 1]
  /\ Goto(r, IF plan[r].mode = "reconcile" THEN "record" ELSE "exec")
  /\ UNCHANGED <<database, lock, world, plan, mem, att, alive>>

\* Statement step[r] of the attempt: up runs forwards, down undoes backwards.
Target(r) ==
  LET m == Attempted(r).mig
  IN  <<m, IF Attempted(r).dir = "up" THEN step[r] ELSE Statements[m] - step[r] + 1>>
Change(r) == IF Attempted(r).dir = "up" THEN 1 ELSE -1

\* DDL on an object that exists already, or no longer, is rejected; a data
\* statement is not.
StatementAccepted(r) ==
  Target(r) \in DataOnly \/ Seen(r)[Target(r)] = (IF Change(r) = 1 THEN 0 ELSE 1)

Execute(r) ==
  /\ At(r, "exec")
  /\ StatementAccepted(r)
  /\ IF txn[r].open
     THEN /\ txn' = [txn EXCEPT ![r].delta[Target(r)] = @ + Change(r)]
          /\ UNCHANGED rows
     ELSE /\ rows' = [rows EXCEPT ![Target(r)] = @ + Change(r)]
          /\ UNCHANGED txn
  /\ step' = [step EXCEPT ![r] = @ + 1]
  /\ Goto(r, IF step[r] = Statements[Attempted(r).mig] THEN "record" ELSE "exec")
  /\ UNCHANGED <<ledger, lock, world, plan, mem, att, alive>>

AppliedEntry(r) ==
  [id |-> Attempted(r).mig, hash |-> Attempted(r).hash,
   catalog |-> Attempted(r).expected, attempt |-> att[r]]

\* The history a successful attempt leaves.
AppliedDoc_DirectionIgnored(r) ==
  [applied |-> Append(mem[r].applied, AppliedEntry(r)),
   attempts |-> [mem[r].attempts EXCEPT ![att[r]].state = "applied"]]
AppliedDoc(r) ==
  [applied |->
     IF Attempted(r).dir = "up" THEN Append(mem[r].applied, AppliedEntry(r))
     ELSE Without(mem[r].applied, Attempted(r).mig),
   attempts |-> [mem[r].attempts EXCEPT ![att[r]].state = "applied"]]

OutcomeAsPlanned(r) == Captured(r) = Attempted(r).expected

\* The next migration of the plan, or the end of the batch.
Completed(r) ==
  LET rest == plan[r].todo \ {Attempted(r).mig}
  IN  /\ plan' = [plan EXCEPT ![r].todo = rest]
      /\ mem' = [mem EXCEPT ![r] = AppliedDoc(r)]
      /\ att' = [att EXCEPT ![r] = 0]
      /\ step' = [step EXCEPT ![r] = 0]
      /\ Goto(r, IF rest = {} THEN "close" ELSE "mark")

\* Postconditions hold and the applied history is saved: within the open
\* transaction, committed by Commit, or durably at once.
Record(r) ==
  /\ At(r, "record")
  /\ OutcomeAsPlanned(r)
  /\ IF txn[r].open
     THEN Goto(r, "commit") /\ UNCHANGED <<ledger, client>>
     ELSE ledger' = AppliedDoc(r) /\ Completed(r)
  /\ UNCHANGED <<rows, lock, world, txn, alive>>

-------------------------------------------------------------------------------
(***************************************************************************)
(* baselinePlan and resolveAttempt under the lock: one transaction that    *)
(* only saves a history document, held in mem until Commit.                *)
(***************************************************************************)
Ascending(s) == \A i, j \in DOMAIN s : i < j => s[i] < s[j]

BaselineDoc(r, order) ==
  [applied |-> [i \in DOMAIN order |->
      [id |-> order[i], hash |-> plan[r].inv[order[i]],
       catalog |-> PlannedOutcome(r, order[i]), attempt |-> i]],
   attempts |-> [i \in AttemptIds |->
      IF i \in DOMAIN order
      THEN [mig |-> order[i], hash |-> plan[r].inv[order[i]], dir |-> "up",
            state |-> "applied", resolution |-> "none", before |-> {}, expected |-> {}]
      ELSE NoAttempt]]

BaselineMatches_Unchecked(r, m) == TRUE
BaselineMatches(r, m) == PlannedOutcome(r, m) = Captured(r)

VerifyBaseline(r) ==
  /\ At(r, "verify")
  /\ plan[r].mode = "baseline"
  /\ InputsUnchanged(r)
  /\ plan[r].todo \subseteq Reconcilable
  /\ ledger = EmptyHistory
  /\ EvidenceCurrent(r)
  /\ \E n \in AttemptIds : \E order \in [1..n -> plan[r].todo] :
       /\ Ascending(order)
       /\ \A m \in plan[r].todo : \E i \in 1..n : order[i] = m
       /\ BaselineMatches(r, order[n])
       /\ mem' = [mem EXCEPT ![r] = BaselineDoc(r, order)]
  /\ txn' = [txn EXCEPT ![r].open = TRUE]
  /\ Goto(r, "commit")
  /\ UNCHANGED <<database, lock, world, plan, att, step, alive>>

ResolutionAllowed(r) ==
  LET a == ledger.attempts[att[r]]
      last == ledger.applied[Len(ledger.applied)]
  IN  /\ IsUnresolved(ledger, att[r])
      /\ Captured(r) = IF plan[r].mode = "confirm-applied" THEN a.expected ELSE a.before
      /\ plan[r].mode = "confirm-applied" =>
           IF a.dir = "down"
           THEN ledger.applied # << >> /\ last.id = a.mig
           ELSE \A m \in AppliedIds(ledger) : m < a.mig

ResolvedEntry(a, id) ==
  [id |-> a.mig, hash |-> a.hash, catalog |-> a.expected, attempt |-> id]

ResolvedDoc(r) ==
  LET a == ledger.attempts[att[r]]
  IN  [applied |->
         IF plan[r].mode = "confirm-not-applied" THEN ledger.applied
         ELSE IF a.dir = "down" THEN Without(ledger.applied, a.mig)
         ELSE Append(ledger.applied, ResolvedEntry(a, att[r])),
       attempts |-> [ledger.attempts EXCEPT
         ![att[r]] = [a EXCEPT !.state = "resolved", !.resolution = plan[r].mode]]]

VerifyResolution(r) ==
  /\ At(r, "verify")
  /\ plan[r].mode \in Actions
  /\ EvidenceCurrent(r)
  /\ ResolutionAllowed(r)
  /\ mem' = [mem EXCEPT ![r] = ResolvedDoc(r)]
  /\ txn' = [txn EXCEPT ![r].open = TRUE]
  /\ Goto(r, "commit")
  /\ UNCHANGED <<database, lock, world, plan, att, step, alive>>

-------------------------------------------------------------------------------
(***************************************************************************)
(* Commit, failure and the end of a command.                               *)
(***************************************************************************)
Applying(r)   == plan[r].mode \in {"apply", "reconcile"}
PendingDoc(r) == IF Applying(r) THEN AppliedDoc(r) ELSE mem[r]

CommitLands(r) == rows' = Seen(r) /\ ledger' = PendingDoc(r)

Commit(r) ==
  /\ At(r, "commit")
  /\ CommitLands(r)
  /\ DropTxn(r)
  /\ IF Applying(r) THEN Completed(r) ELSE Goto(r, "close") /\ UNCHANGED client
  /\ UNCHANGED <<lock, world, alive>>

\* The commit is rejected on a session that stays usable.
CommitRejected(r) ==
  /\ At(r, "commit")
  /\ \/ "undone" \in CommitFaults /\ UNCHANGED database
     \/ "done" \in CommitFaults /\ CommitLands(r)
  /\ DropTxn(r)
  /\ Goto(r, IF Applying(r) THEN "catch" ELSE "close")
  /\ UNCHANGED <<lock, world, client, alive>>

\* begin, a before- or after-check, a statement, the comparison with the
\* planned catalog or saving the history throws inside the attempt's try.
Fail(r) ==
  /\ alive[r]
  /\ pc[r] \in {"begin", "exec", "record"}
  /\ Goto(r, "catch")
  /\ UNCHANGED <<database, lock, world, client, txn, alive>>

\* The history the catch block starts from: the persisted one, or the
\* runner's own when it cannot be read.
CatchBase(r) == {ledger} \cup (IF UnreadableHistory THEN {mem[r]} ELSE {})

DurablyApplied_Unchecked(h, id) == FALSE
DurablyApplied(h, id) == HasEntryOf(h, id)

FailedState_AlwaysRolledBack(r) == "rolled-back"
FailedState(r) == IF txn[r].open THEN "rolled-back" ELSE "unknown"

\* rollback, then the failed state is saved unless durable evidence exists.
SettledDoc(r, base) ==
  ReplaceAttempt(base, att[r], [Attempted(r) EXCEPT !.state = FailedState(r)])

SaveFailedState(r) ==
  \E base \in CatchBase(r) :
    /\ ~ (base = ledger /\ DurablyApplied(base, att[r]))
    /\ ledger' = SettledDoc(r, base)

Catch(r) ==
  /\ At(r, "catch")
  /\ SaveFailedState(r) \/ UNCHANGED ledger   \* saving is allowed to fail
  /\ DropTxn(r)
  /\ Goto(r, "close")
  /\ UNCHANGED <<rows, lock, world, client, alive>>

\* A refusal or an error before the attempt's try block.
Refuse(r) ==
  /\ alive[r]
  /\ pc[r] \in {"verify", "mark"}
  /\ Goto(r, "close")
  /\ UNCHANGED <<database, lock, world, client, txn, alive>>

Unlocked(r) == lock' = NoRunner

Close(r) ==
  /\ At(r, "close")
  /\ Unlocked(r)
  /\ DropTxn(r)
  /\ Forget(r)
  /\ UNCHANGED <<database, world, alive>>

-------------------------------------------------------------------------------
(***************************************************************************)
(* The environment: lost sessions, manual DDL, repairs, edited files.      *)
(***************************************************************************)
\* The process dies or the connection breaks; nothing more reaches the backend.
Lose(r) ==
  /\ alive[r]
  /\ pc[r] \in Connected
  /\ lost < MaxLost
  /\ lost' = lost + 1
  /\ alive' = [alive EXCEPT ![r] = FALSE]
  /\ UNCHANGED <<database, lock, files, touched, drifts, edits, pc, client, txn>>

\* What the backend was doing when the client went away may still take effect.
InFlightLands(r) ==
  \/ /\ pc[r] = "mark"
     /\ \E m \in Migrations, id \in AttemptIds :
          IsNext(r, m) /\ IsFresh(mem[r], id) /\ ledger' = MarkedDoc(r, m, id)
     /\ UNCHANGED rows
  \/ /\ pc[r] = "exec" /\ ~ txn[r].open /\ StatementAccepted(r)
     /\ rows' = [rows EXCEPT ![Target(r)] = @ + Change(r)]
     /\ UNCHANGED ledger
  \/ /\ pc[r] = "record" /\ ~ txn[r].open /\ OutcomeAsPlanned(r)
     /\ ledger' = AppliedDoc(r)
     /\ UNCHANGED rows
  \/ pc[r] = "commit" /\ CommitLands(r)
  \/ pc[r] = "catch" /\ SaveFailedState(r) /\ UNCHANGED rows

\* The backend ends: its transaction is gone and its lock is free.
BackendEnds(r) ==
  /\ ~ alive[r]
  /\ InFlightLands(r) \/ UNCHANGED database
  /\ lock' = IF lock = r THEN NoRunner ELSE lock
  /\ alive' = [alive EXCEPT ![r] = TRUE]
  /\ DropTxn(r)
  /\ Forget(r)
  /\ UNCHANGED world

\* Somebody creates or drops a catalog object by hand; an object changed in
\* an open transaction is locked.
ManualDdl ==
  /\ drifts < MaxDrift
  /\ \E o \in Objects :
       /\ \A r \in Runners : txn[r].delta[o] = 0
       /\ rows' = [rows EXCEPT ![o] = IF @ > 0 THEN 0 ELSE 1]
       /\ touched' = touched \cup {o}
  /\ drifts' = drifts + 1
  /\ UNCHANGED <<ledger, lock, files, edits, lost, pc, client, txn, alive>>

\* The operator completes or reverses the effects of a partial attempt, before
\* anybody attests them.
Repair ==
  /\ lock = NoRunner
  /\ \A r \in Runners : plan[r].mode \notin Actions
  /\ \E id \in Unresolved(ledger), count \in {0, 1} :
       LET m == ledger.attempts[id].mig
       IN  /\ ~ Complete(m) /\ ~ Absent(m)
           /\ rows' = [t \in Tokens |-> IF t \in EffectsOf(m) THEN count ELSE rows[t]]
           /\ touched' = touched \ EffectsOf(m)
  /\ UNCHANGED <<ledger, lock, files, drifts, edits, lost, pc, client, txn, alive>>

\* A migration file is added, changed or deleted.
EditFiles ==
  /\ edits < MaxEdits
  /\ \E m \in Migrations, v \in Versions :
       v # files[m] /\ files' = [files EXCEPT ![m] = v]
  /\ edits' = edits + 1
  /\ UNCHANGED <<database, lock, touched, drifts, lost, pc, client, txn, alive>>

Run(r) ==
  \/ AcquireLock(r) \/ GiveUp(r)
  \/ VerifyPlan(r) \/ VerifyBaseline(r) \/ VerifyResolution(r) \/ Refuse(r)
  \/ Mark(r) \/ Begin(r) \/ Execute(r) \/ Record(r)
  \/ Commit(r) \/ CommitRejected(r) \/ Fail(r) \/ Catch(r) \/ Close(r)
  \/ BackendEnds(r)

Operate(r) ==
  \/ StartPlan(r) \/ BuildPlan(r) \/ Inspect(r) \/ Attest(r) \/ Connect(r) \/ Lose(r)

Next ==
  \/ \E r \in Runners : Run(r) \/ Operate(r)
  \/ ManualDdl \/ Repair \/ EditFiles

Spec == Init /\ [][Next]_vars

\* A session's own steps are taken: the engine never waits for a user once it
\* is connected, statements and lock waits time out, and the server notices
\* a client that is gone.
Fairness == \A r \in Runners : WF_vars(Run(r))
FairSpec == Spec /\ Fairness

-------------------------------------------------------------------------------
(***************************************************************************)
(* Properties.                                                             *)
(***************************************************************************)

\* No session is at work and no outcome is open.
Quiescent ==
  /\ lock = NoRunner
  /\ \A r \in Runners : alive[r] /\ pc[r] \notin Connected
  /\ NothingUnresolved(ledger)

(* The ledger tells the truth: once nothing is in flight and nothing is
   unresolved, exactly the effects of the applied migrations are in the
   database - statements and history commit together, a failed attempt is
   only closed as rolled back when its effects are gone, and a resolution
   records what is there (applyPlan, resolveAttempt). *)
LedgerHonest ==
  Quiescent =>
    \A e \in Effects \ touched :
      rows[e] = IF e[1] \in AppliedIds(ledger) THEN 1 ELSE 0

(* The recorded head is the live schema: once nothing is in flight, nothing is
   unresolved and nobody ran DDL by hand, the catalog kept with the last
   applied entry is what a capture returns, so that the next plan is not
   refused for drift - also after a down, a baseline or a resolution
   (expectedHead, createPlan). *)
HeadIsLive ==
  (Quiescent /\ drifts = 0 /\ ledger.applied # << >>)
    => ExpectedHead(ledger) = Catalog(rows)

(* A data statement, which no catalog comparison can catch, never takes
   effect twice nor is undone twice, whatever is retried, planned
   concurrently or lost (the stale-plan check under the lock). *)
EffectsOnce == \A e \in DataOnly : rows[e] \in {0, 1}

(* At most one attempt is ever unresolved: a runner that finds one refuses
   to start another, so an operator always has one outcome to inspect. *)
AtMostOneUnresolved ==
  \A i, j \in Unresolved(ledger) : i = j

(* Applied history is strictly ascending: an unapplied migration below the
   deployed head is never slipped in behind it (MIGRATION_OUT_OF_ORDER,
   MIGRATION_RESOLUTION_STATE). *)
AppliedInOrder == AppliedAscending(ledger)

(* The entries of the document fit together: identifiers are applied once, and
   each applied entry matches an up attempt of the same content.  parseHistory
   requires that when a document is read and before it is saved.  No action has
   this check in its guard: the engine commits no document that it would refuse. *)
HistoryReadable ==
  LET applied == ledger.applied
  IN  /\ \A i, j \in DOMAIN applied : applied[i].id = applied[j].id => i = j
      /\ \A i \in DOMAIN applied :
           LET a == ledger.attempts[applied[i].attempt]
           IN  /\ a # NoAttempt
               /\ a.mig = applied[i].id /\ a.hash = applied[i].hash /\ a.dir = "up"

(* Successful content is immutable, also after reversal: two successful
   attempts of one migration ran the same content. *)
SuccessfulContentImmutable ==
  \A i, j \in AttemptIds :
    LET a == ledger.attempts[i]
        b == ledger.attempts[j]
    IN  Succeeded(a) /\ Succeeded(b) /\ a.mig = b.mig => a.hash = b.hash

(* An attempt that has reached an outcome keeps it: no later save of the
   whole history document, from whichever runner, reopens or rewrites it. *)
SettledStaysSettled ==
  [][\A id \in AttemptIds :
       LET a == ledger.attempts[id]
       IN  a # NoAttempt /\ ~ IsUnresolved(ledger, id) => ledger'.attempts[id] = a]_ledger

(* An operator is never left without a way out: while nobody holds the lock,
   an unresolved attempt whose effects are completely there, over an
   otherwise undisturbed schema, meets the conditions of confirm-applied. *)
Resolvable ==
  \A id \in Unresolved(ledger) :
    LET a == ledger.attempts[id]
        last == ledger.applied[Len(ledger.applied)]
    IN  (/\ lock = NoRunner /\ touched = {}
         /\ Holds("confirm-applied", a))
        => /\ Catalog(rows) = a.expected
           /\ IF a.dir = "down"
              THEN ledger.applied # << >> /\ last.id = a.mig
              ELSE \A m \in AppliedIds(ledger) : m < a.mig

(* The target lock is always given back, also by a session that was lost, and a
   command that waits for it gets it or gives up (adapter lock and unlock). *)
LockMovesOn ==
  \A r \in Runners :
    /\ lock = r ~> lock # r
    /\ pc[r] = "locking" ~> pc[r] # "locking"
===============================================================================
