-------------------------- MODULE MigrationRefinement --------------------------
(***************************************************************************)
(* The migration engine implements MigrationLedger.                        *)
(***************************************************************************)
EXTENDS MigrationRunner

\* What the committed history document says of each migration.
LedgerStatus ==
  [m \in Migrations |->
     IF \E id \in Unresolved(ledger) : ledger.attempts[id].mig = m THEN "in doubt"
     ELSE IF m \in AppliedIds(ledger) THEN "applied" ELSE "pending"]

Ledger == INSTANCE MigrationLedger WITH status <- LedgerStatus

(* Every step of every runner, and every effect of a lost one, is a step of
   the abstract ledger: an attempt starts only when no outcome is in doubt,
   above all applied migrations (up) or at the top of them (down), and only
   its own outcome settles it (validateHistory, applyPlan, resolveAttempt). *)
ImplementsLedger == Ledger!Spec
===============================================================================
