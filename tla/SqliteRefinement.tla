--------------------------- MODULE SqliteRefinement ---------------------------
(***************************************************************************)
(* The SQLite runtime implements nested transactions, as long as no batch  *)
(* is left running.                                                        *)
(***************************************************************************)
EXTENDS SqliteDatabase

Gone(t) == \E a \in Line[t] : pc[a] = "threw"

\* A transaction exists from its BEGIN or SAVEPOINT on.  It is gone once it, or one
\* around it, has thrown, even if its callback is still running.
TxnStatus ==
  [t \in Txns |->
     CASE ~ began[t] -> "idle"
       [] began[t] /\ pc[t] = "fulfilled" -> "committed"
       [] began[t] /\ pc[t] # "fulfilled" /\ Gone(t) -> "aborted"
       [] OTHER -> IF Depth[t] \in levels THEN "open" ELSE "lost"]

HeldEffects == [t \in Txns |-> IF TxnStatus[t] = "open" THEN pending[Depth[t]] ELSE {}]

EffectOwner(e) == Owner[e[1]]

Nested == INSTANCE NestedTransactions
            WITH OwnerOf <- EffectOwner, status <- TxnStatus, held <- HeldEffects

\* Root calls and transactions behave like the abstract ones: every step of the
\* runtime (runtime.ts:171-425) is a begin, a write, a commit, an abort, or is not
\* visible in the data.
ImplementsNested == Nested!Spec
===============================================================================
