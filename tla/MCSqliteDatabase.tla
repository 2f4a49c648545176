--------------------------- MODULE MCSqliteDatabase ---------------------------
(***************************************************************************)
(* Instances of SqliteDatabase for TLC: a root transaction with one nested *)
(* in it, and work on the database and on the scopes.                      *)
(***************************************************************************)
EXTENDS SqliteRefinement

CONSTANTS t1, t2, b0, s0, q1, q2, s2

MCParent == [t \in Txns |-> IF t = t2 THEN t1 ELSE Root]
MCLine   == [t \in Txns |-> IF t = t2 THEN {t1, t2} ELSE {t}]
MCDepth  == [t \in Txns |-> IF t = t2 THEN 2 ELSE 1]
MCOwner  == [w \in Works |-> CASE w = q1 -> t1 [] w \in {q2, s2} -> t2 [] OTHER -> Root]
MCKind   == [w \in Works |-> CASE w = b0 -> "batch" [] w \in {s0, s2} -> "stream" [] OTHER -> "query"]
MCSize   == [w \in Works |-> IF w = b0 THEN 2 ELSE 1]
===============================================================================
