---------------------------- MODULE MCRoutedDatabase ----------------------------
(* An instance of RoutedDatabase for TLC: a context that writes, reads in every way *)
(* and runs a transaction *)
EXTENDS RoutedDatabase

CONSTANTS c1, write, auto, forced, replica

MCContext == [o \in Ops \cup Txns |-> c1]
MCPreference ==
  [o \in Ops |-> CASE o = forced -> "primary" [] o = replica -> "replica" [] OTHER -> "auto"]
MCAutomatic == [o \in Ops |-> IF o = write THEN "primary" ELSE "replica"]
===============================================================================
