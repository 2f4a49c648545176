---------------------------- MODULE MigrationLedger ----------------------------
(***************************************************************************)
(* What the migration engine promises about a target, whatever runners,    *)
(* files and failures do: one migration at a time is in doubt, migrations  *)
(* enter above everything applied and leave from the top, and an outcome   *)
(* in doubt blocks everything until it is settled.                         *)
(***************************************************************************)
EXTENDS Integers

CONSTANT N    \* number of migration identifiers

VARIABLE status

Ids     == 1..N
Applied == {m \in Ids : status[m] = "applied"}
InDoubt == {m \in Ids : status[m] = "in doubt"}

Init == status = [m \in Ids |-> "pending"]

\* An up attempt on a migration above all applied ones.
StartUp(m) ==
  /\ InDoubt = {}
  /\ \A k \in Applied : k < m
  /\ status' = [status EXCEPT ![m] = "in doubt"]

\* A down attempt on the last applied migration.
StartDown(m) ==
  /\ InDoubt = {}
  /\ m \in Applied
  /\ \A k \in Applied : k <= m
  /\ status' = [status EXCEPT ![m] = "in doubt"]

Settle(m) ==
  /\ m \in InDoubt
  /\ \E outcome \in {"applied", "pending"} :
       status' = [status EXCEPT ![m] = outcome]

\* A prefix adopted on a target without history.
Adopt(S) ==
  /\ InDoubt = {} /\ Applied = {}
  /\ status' = [m \in Ids |-> IF m \in S THEN "applied" ELSE "pending"]

Next ==
  \/ \E m \in Ids : StartUp(m) \/ StartDown(m) \/ Settle(m)
  \/ \E S \in SUBSET Ids : Adopt(S)

Spec == Init /\ [][Next]_status
===============================================================================
