--------------------------- MODULE MCMigrationRunner ---------------------------
(***************************************************************************)
(* Instances of MigrationRunner for TLC.  Migration 1 is a transactional,  *)
(* reversible schema change; migration 2 runs outside a transaction, one   *)
(* schema statement and one data statement.  Where a target is adopted,    *)
(* migration 1 only changes data and migrations 2 and 3 make one object    *)
(* each.                                                                   *)
(***************************************************************************)
EXTENDS MigrationRefinement, TLC

MCStatements == <<1, 2>>
MCDataOnly   == {<<2, 2>>}
MCDataFirst  == {<<1, 1>>}
MCOneEach    == <<1, 1, 1>>
MCBothFiles  == <<1, 1>>
MCLateFirst  == <<0, 1, 1>>    \* migration 1 is not written yet
MCLegacy     == {<<2, 1>>}     \* what migration 2 creates is there already
Symmetric    == Permutations(Runners)
===============================================================================
