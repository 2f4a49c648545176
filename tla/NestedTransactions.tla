-------------------------- MODULE NestedTransactions --------------------------
(***************************************************************************)
(* What a database promises its callers about transactions that nest: one  *)
(* root transaction at a time, effects that are seen by nobody until their *)
(* transaction commits, a nested one's effects in the hands of its parent, *)
(* nothing left of what was aborted, and calls outside any transaction     *)
(* that take effect at once and only between transactions.                 *)
(*                                                                         *)
(* An engine may abandon the open transactions by itself.  They can then   *)
(* only abort, and what they still write takes effect on its own.          *)
(***************************************************************************)
CONSTANTS Txns, Root, Parent, Line, Effects, OwnerOf(_)

VARIABLES status, held, durable

abstractVars == <<status, held, durable>>

Init ==
  /\ status = [t \in Txns |-> "idle"]
  /\ held = [t \in Txns |-> {}]
  /\ durable = {}

Live == {"open", "lost"}

LiveChildren(o) == {t \in Txns : Parent[t] = o /\ status[t] \in Live}

Begin(t) ==
  /\ status[t] = "idle"
  /\ Parent[t] # Root => status[Parent[t]] \in Live
  /\ LiveChildren(Parent[t]) = {}
  /\ status' = [status EXCEPT ![t] = "open"]
  /\ UNCHANGED <<held, durable>>

Write(e) ==
  /\ OwnerOf(e) # Root
  /\ status[OwnerOf(e)] = "open" /\ LiveChildren(OwnerOf(e)) = {}
  /\ held' = [held EXCEPT ![OwnerOf(e)] = @ \cup {e}]
  /\ UNCHANGED <<status, durable>>

\* outside any transaction, or in one the engine has abandoned
WriteAlone(e) ==
  /\ OwnerOf(e) # Root => status[OwnerOf(e)] = "lost"
  /\ LiveChildren(OwnerOf(e)) = {}
  /\ durable' = durable \cup {e}
  /\ UNCHANGED <<status, held>>

MayCommit(t) == status[t] = "open" /\ LiveChildren(t) = {}

CommitInto(t) ==
  /\ MayCommit(t) /\ Parent[t] # Root /\ status[Parent[t]] = "open"
  /\ status' = [status EXCEPT ![t] = "committed"]
  /\ held' = [held EXCEPT ![Parent[t]] = @ \cup held[t], ![t] = {}]
  /\ UNCHANGED durable

\* a root transaction, or one nested in a transaction the engine has abandoned
CommitAlone(t) ==
  /\ MayCommit(t)
  /\ Parent[t] # Root => status[Parent[t]] = "lost"
  /\ status' = [status EXCEPT ![t] = "committed"]
  /\ durable' = durable \cup held[t]
  /\ held' = [held EXCEPT ![t] = {}]

\* with what is live inside it
Abort(t) ==
  /\ status[t] \in Live
  /\ status' = [u \in Txns |-> IF t \in Line[u] /\ status[u] \in Live THEN "aborted" ELSE status[u]]
  /\ held' = [u \in Txns |-> IF t \in Line[u] THEN {} ELSE held[u]]
  /\ UNCHANGED durable

Abandon ==
  /\ status' = [t \in Txns |-> IF status[t] = "open" THEN "lost" ELSE status[t]]
  /\ held' = [t \in Txns |-> {}]
  /\ UNCHANGED durable

Next ==
  \/ \E t \in Txns : Begin(t) \/ CommitInto(t) \/ CommitAlone(t) \/ Abort(t)
  \/ \E e \in Effects : Write(e) \/ WriteAlone(e)
  \/ Abandon

Spec == Init /\ [][Next]_abstractVars
===============================================================================
