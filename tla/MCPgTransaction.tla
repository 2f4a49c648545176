---------------------------- MODULE MCPgTransaction ----------------------------
(***************************************************************************)
(* Instances of PgTransaction for TLC: a root, a nested transaction and    *)
(* one nested in it, and a second one nested in the root.                  *)
(***************************************************************************)
EXTENDS PgTransaction

CONSTANTS root, a, aa, b, e1, e2, b1, s1, c1, p1

MCParent == [s \in Scopes \ {Root} |-> IF s = aa THEN a ELSE root]
MCDepth  == [s \in Scopes |-> IF s = root THEN 1 ELSE IF s = aa THEN 3 ELSE 2]
MCKind   == [w \in Works |->
  CASE w = b1 -> "batch" [] w = p1 -> "pipeline" [] w = s1 -> "stream" [] w = c1 -> "copy"
    [] OTHER -> "execute"]
MCSize   == [w \in Works |-> IF w \in {b1, p1} THEN 2 ELSE 1]
===============================================================================
