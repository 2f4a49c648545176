--------------------------- MODULE MigrationHistory ---------------------------
(***************************************************************************)
(* The pure part of the migration engine (packages/migrations): what a     *)
(* migration does to a database, what a catalog capture can see of it, and *)
(* the history document - the durable ledger - with the validation every   *)
(* plan starts from.                                                       *)
(*                                                                         *)
(* Migration identifiers are the numbers 1..N, ordered as the code orders  *)
(* the identifier strings.  Statement i of migration m is the token        *)
(* <<m, i>>: executing it puts the token in place, its inverse takes the   *)
(* token away.  A token in DataOnly stands for a data change: no catalog   *)
(* capture sees it.  A content hash is a version number, 0 for a file that *)
(* is not in the inventory.                                                *)
(***************************************************************************)
EXTENDS Integers, Sequences, FiniteSets

CONSTANTS
  N,              \* number of migration identifiers
  Statements,     \* [1..N -> Nat \ {0}], statements of each migration
  DataOnly,       \* the statements no catalog capture can see
  Transactional,  \* migrations whose transaction policy is "required"
  Reversible,     \* migrations with a down operation
  Reconcilable,   \* migrations that declare reconciliation and pass validateReconciliation
  MaxAttempts,    \* bound: attempts ever recorded
  MaxVersion      \* bound: contents a migration file can have

Migrations == 1..N
Effects    == UNION {{<<m, i>> : i \in 1..Statements[m]} : m \in Migrations}
Foreign    == <<0, 0>>                       \* an object no migration created
Objects    == (Effects \ DataOnly) \cup {Foreign}
Tokens     == Effects \cup {Foreign}
AttemptIds == 1..MaxAttempts
Versions   == 0..MaxVersion

ASSUME ConstantsAssumption ==
  /\ N \in Nat
  /\ Statements \in [Migrations -> Nat \ {0}]
  /\ DataOnly \subseteq Effects
  /\ Transactional \subseteq Migrations
  /\ Reversible \subseteq Migrations
  /\ Reconcilable \subseteq Migrations
  /\ \A e \in DataOnly : e[1] \notin Reconcilable
  /\ MaxAttempts \in Nat
  /\ MaxVersion \in Nat

EffectsOf(m) == {e \in Effects : e[1] = m}

(***************************************************************************)
(* Catalog evidence: the objects a capture returns.  Digests of catalogs   *)
(* are compared in the code; here the sets themselves are.                 *)
(***************************************************************************)
Catalog(rows) == {o \in Objects : rows[o] > 0}

\* What an independent replay of the inventory up to m produces.
ReplayedThrough(inv, m) == {o \in Effects \ DataOnly : o[1] <= m /\ inv[o[1]] # 0}

(***************************************************************************)
(* The history document.                                                   *)
(***************************************************************************)
Directions == {"up", "down"}
States     == {"running", "applied", "rolled-back", "unknown", "resolved"}
Actions    == {"confirm-applied", "confirm-not-applied"}

Attempt == [mig : Migrations, hash : Versions, dir : Directions, state : States,
            resolution : Actions \cup {"none"},
            before : SUBSET Objects, expected : SUBSET Objects]
NoAttempt == [state |-> "absent"]
Entry   == [id : Migrations, hash : Versions, catalog : SUBSET Objects, attempt : AttemptIds]
History == [applied : Seq(Entry), attempts : [AttemptIds -> Attempt \cup {NoAttempt}]]

EmptyHistory == [applied |-> << >>, attempts |-> [i \in AttemptIds |-> NoAttempt]]

AppliedIds(h) == {h.applied[i].id : i \in DOMAIN h.applied}

HasEntryOf(h, id) == \E i \in DOMAIN h.applied : h.applied[i].attempt = id

IsUnresolved(h, id) ==
  /\ h.attempts[id].state \in {"running", "unknown"}
  /\ ~ HasEntryOf(h, id)

Unresolved(h) == {id \in AttemptIds : IsUnresolved(h, id)}

Succeeded(a) ==
  \/ a.state = "applied"
  \/ a.state = "resolved" /\ a.resolution = "confirm-applied"

\* history.applied.at(-1)?.catalog ?? emptyCatalog(current)
ExpectedHead(h) ==
  IF h.applied = << >> THEN {} ELSE h.applied[Len(h.applied)].catalog

PositionOf(applied, m) == CHOOSE i \in DOMAIN applied : applied[i].id = m

\* The catalog a down of m must leave: that of the entry before m, or an empty one.
CatalogBefore(applied, m) ==
  LET k == PositionOf(applied, m)
  IN  IF k \in DOMAIN applied /\ k > 1 THEN applied[k - 1].catalog ELSE {}

\* history.applied.filter((a) => a.id !== m); identifiers are unique in it.
Without(applied, m) ==
  IF \E i \in DOMAIN applied : applied[i].id = m
  THEN LET k == PositionOf(applied, m)
       IN  SubSeq(applied, 1, k - 1) \o SubSeq(applied, k + 1, Len(applied))
  ELSE applied

ReplaceAttempt(h, id, a) == [h EXCEPT !.attempts[id] = a]

IsFresh(h, id) ==
  /\ h.attempts[id] = NoAttempt
  /\ \A j \in AttemptIds : j < id => h.attempts[j] # NoAttempt

(***************************************************************************)
(* validateHistory, clause by clause.  An operator named X_Y is a faulty   *)
(* variant of X, the code with one check lost; the mutants of PROJECT.json *)
(* put it in X's place.                                                    *)
(***************************************************************************)
SuccessfulContentPresent_AppliedOnly(h, inv) == TRUE
SuccessfulContentPresent(h, inv) ==
  \A id \in AttemptIds :
    Succeeded(h.attempts[id]) => inv[h.attempts[id].mig] = h.attempts[id].hash

AppliedAscending(h) ==
  \A i, j \in DOMAIN h.applied : i < j => h.applied[i].id < h.applied[j].id

AppliedContentPresent(h, inv) ==
  \A i \in DOMAIN h.applied : inv[h.applied[i].id] = h.applied[i].hash

NothingUnresolved_Dropped(h) == TRUE
NothingUnresolved(h) == Unresolved(h) = {}

NoneOutOfOrder_Dropped(h, inv) == TRUE
NoneOutOfOrder(h, inv) ==
  \A m \in Migrations \ AppliedIds(h) :
    inv[m] # 0 => \A k \in AppliedIds(h) : k < m

ValidHistory(h, inv) ==
  /\ SuccessfulContentPresent(h, inv)
  /\ AppliedAscending(h)
  /\ AppliedContentPresent(h, inv)
  /\ NothingUnresolved(h)
  /\ NoneOutOfOrder(h, inv)
===============================================================================
