-------------------------- MODULE OdbcTransportProofs --------------------------
(***************************************************************************)
(* Proofs about OdbcTransport, for any number of epochs and native calls   *)
(* and any workers that may exit: its type, that a cancellation reaches    *)
(* the native call of its own request on a statement that is allocated,    *)
(* that nothing of an acknowledged request runs in the driver, and that a  *)
(* connection used again holds the statements of its callers and no other. *)
(***************************************************************************)
EXTENDS OdbcTransport, SequenceTheorems, TLAPS

Commands == [id : Nat, kind : Kinds, of : Nat]
Replies  == [id : Nat, ok : BOOLEAN, made : Nat, reusable : BOOLEAN]
Acks     == [epoch : Nat, failed : BOOLEAN]

\* What is in the ports, which TypeOK leaves out
QueueType ==
  /\ toData \in Seq(Commands) /\ toControl \in Seq(Nat)
  /\ replies \in Seq(Replies) /\ acks \in Seq(Acks)

\* The control worker has borrowed the statement in these places, and in no other.
Borrowing == {"recheck", "recheckPhase", "cancelling", "return", "leave", "throw"}

BorrowInv == cpc # "dead" => borrows = IF cpc \in Borrowing THEN 1 ELSE 0

\* The phase that the data worker shows, and what it has published with it
PhaseInv ==
  /\ dpc \in {"entering", "native"} => phase = "native"
  /\ dpc \in {"draining", "acking"} => phase = "drain"
  /\ dpc \in {"idle", "between", "publishing", "failing", "freeing", "freed"} => phase = "idle"
  /\ dpc \in {"between", "publishing", "entering", "native", "draining", "acking"} => stmt \in live
  /\ dpc = "publishing" \/ phase # "idle" => handle = stmt /\ epoch = cmd.id
  /\ phase # "idle" => handle \in live
  /\ cpc = "cancelling" => handle \in live /\ dpc # "freed"

\* Every number in use is below the next one.
FreshInv ==
  /\ id < next /\ cancel < next /\ ack < next /\ epoch < next /\ cmd.id < next /\ target < next
  /\ \A i \in 1 .. Len(toData) : toData[i].id < next
  /\ \A i \in 1 .. Len(toControl) : toControl[i] < next

\* The data worker has at most the command of the request in hand.
WorkInv ==
  /\ pc \notin {"running", "cleaning"} => toData = <<>> /\ replies = <<>> /\ dpc \in {"idle", "dead"}
  /\ toData # <<>> =>
       /\ Len(toData) = 1 /\ Head(toData).id = id
       /\ replies = <<>> /\ dpc \in {"idle", "dead"}
  /\ replies # <<>> => Len(replies) = 1 /\ Head(replies).id = id /\ dpc \in {"idle", "dead"}
  /\ dpc \notin {"idle", "dead"} => cmd.id = id

\* The control worker has at most the cancellation of the request in hand, which
\* waits for it; what it has acknowledged is over.
Busy == {"look", "lookPhase", "borrow", "recheck", "recheckPhase", "cancelling", "return", "leave",
         "throw", "done", "broken"}

Waiting == pc \in {"running", "answered", "awaiting"} /\ cancelled /\ cancel = id /\ ack < id

CancelInv ==
  /\ pc \in {"running", "answered"} /\ kind \notin Cleanup /\ ~ cancelled => ack < id
  /\ toControl # <<>> => Waiting /\ Len(toControl) = 1 /\ Head(toControl) = id
  /\ cpc \in Busy => Waiting /\ toControl = <<>> /\ target = id
  /\ cpc \in {"notify", "fail"} => target <= ack
  /\ \A i \in 1 .. Len(acks) : acks[i].epoch <= ack
  /\ ack = id /\ id # 0 => cancel = id
  /\ cpc = "recheckPhase" => epoch = target
  /\ cpc = "cancelling" =>
       cmd.id = target /\ stmt = handle /\ dpc \in {"entering", "native", "draining", "dead"}
  /\ cpc \in {"leave", "done"} => ~ (dpc = "native" /\ cmd.id = target)
  /\ ack = cmd.id /\ ack # 0 /\ cpc # "fail" => dpc # "native"

\* Main has seen no exit while it would use the connection again, nor while no worker
\* has failed; then the two invariants hold.
OrderInv ==
  /\ reusable \/ ~ controlFailure => seen = {}
  /\ seen = {} => WorkInv
  /\ ~ controlFailure /\ cpc # "dead" => CancelInv

\* The statements that callers rely on
Held == given \ ended

\* Where the command of the request in hand may be with a statement of its own:
\* the port, the data worker and the reply.
Asked(c) ==
  /\ c.kind = kind
  /\ kind \in Reusing => c.of \in Held
  /\ kind \in Owning => id # None /\ id \notin given
  /\ kind = "free" => c.of \notin Held /\ live \in {Held, Held \cup {c.of}}
  /\ kind \notin Cleanup => live = Held

Working ==
  /\ cmd.kind = kind
  /\ kind \in Reusing => stmt \in Held /\ live = Held /\ dpc \notin {"freeing", "freed"}
  /\ kind \in Owning => stmt = id /\ id # None /\ stmt \notin given /\ live = Held \cup {stmt}
  /\ kind = "free" => stmt \notin Held /\ live = Held \cup {stmt}
  /\ kind \in Cleanup => dpc \in {"freeing", "freed"} /\ ok

Told(m) ==
  /\ m.ok => m.reusable
  /\ kind \in Cleanup => m.made = None
  /\ m.reusable => m.made \notin ended /\ m.made < next
  /\ m.reusable /\ kind # "close" => live = Held \cup ({m.made} \ {None})

\* As long as main would use the connection again, every statement is held by the
\* caller, or the command in hand made it or frees it, or its answer names it.
Stocked ==
  /\ None \notin given /\ ended \subseteq given
  /\ \A s \in given : s < next
  /\ pc = "cleaning" => kind = "free"
  /\ pc = "idle" => live = Held
  /\ pc \in {"answered", "awaiting"} =>
       /\ created \notin ended /\ created < next
       /\ kind \in Cleanup => created = None
       /\ kind # "close" => live = Held \cup ({created} \ {None})
  /\ pc \in {"running", "cleaning"} =>
       /\ toData # <<>> => Asked(Head(toData))
       /\ dpc # "idle" => Working
       /\ replies # <<>> => Told(Head(replies))

\* A cancellation that runs on after a failure of the control worker has spoilt the
\* answer of the request it cancels.
SpoiltInv ==
  cpc = "cancelling" =>
    \/ dpc \in {"entering", "native", "draining"}
    \/ controlFailure /\ dpc = "acking"
    \/ dpc \in {"failing", "freeing"} /\ ~ dReusable
    \/ replies # <<>> /\ ~ Head(replies).ok /\ ~ Head(replies).reusable

HeldInv == reusable /\ dpc # "dead" => Stocked /\ SpoiltInv

-------------------------------------------------------------------------------
(* Queues *)

\* What Append and Tail do to a queue and its elements
LEMMA Appended ==
  ASSUME NEW S, NEW q \in Seq(S), NEW x \in S
  PROVE  /\ Append(q, x) \in Seq(S) /\ Append(q, x) # <<>>
         /\ Len(q) \in Nat /\ Len(Append(q, x)) = Len(q) + 1
         /\ \A i \in 1 .. Len(q) : Append(q, x)[i] = q[i]
         /\ Append(q, x)[Len(q) + 1] = x
         /\ q = <<>> => Len(Append(q, x)) = 1 /\ Head(Append(q, x)) = x
OBVIOUS

LEMMA Taken ==
  ASSUME NEW S, NEW q \in Seq(S), q # <<>>
  PROVE  /\ Tail(q) \in Seq(S) /\ Head(q) \in S /\ Head(q) = q[1]
         /\ Len(q) \in Nat /\ Len(q) > 0
         /\ Len(q) = 1 => Tail(q) = <<>>
         /\ Len(Tail(q)) = Len(q) - 1
         /\ \A i \in 1 .. Len(Tail(q)) : Tail(q)[i] = q[i + 1]
<1>1. /\ Len(q) \in Nat /\ Len(q) > 0 /\ Head(q) = q[1] /\ Head(q) \in S
      /\ Tail(q) \in Seq(S) /\ Len(Tail(q)) = Len(q) - 1
      /\ \A i \in 1 .. Len(Tail(q)) : Tail(q)[i] = q[i + 1]
  OBVIOUS
<1>2. ASSUME Len(q) = 1 PROVE Tail(q) = <<>>
  <2>1. Len(Tail(q)) = 0
    BY <1>1, <1>2
  <2> QED BY <1>1, <2>1, EmptySeq
<1> QED BY <1>1, <1>2

\* The same of each port
LEMMA CommandSent ==
  ASSUME QueueType, NEW n \in Nat, NEW k \in Kinds, NEW o \in Nat,
         toData' = Append(toData, [id |-> n, kind |-> k, of |-> o])
  PROVE  /\ toData' \in Seq(Commands) /\ toData' # <<>>
         /\ Len(toData) \in Nat /\ Len(toData') = Len(toData) + 1
         /\ \A i \in 1 .. Len(toData) : toData'[i] = toData[i]
         /\ toData'[Len(toData) + 1].id = n
         /\ toData = <<>> => Len(toData') = 1 /\ Head(toData').id = n
<1> DEFINE x == [id |-> n, kind |-> k, of |-> o]
<1>1. x \in Commands
  BY DEF Commands
<1>2. x.id = n
  OBVIOUS
<1>3. toData \in Seq(Commands) /\ toData' = Append(toData, x)
  BY DEF QueueType
<1> HIDE DEF x
<1> QED BY <1>1, <1>2, <1>3, Appended

LEMMA CommandTaken ==
  ASSUME QueueType, toData # <<>>, toData' = Tail(toData)
  PROVE  /\ toData' \in Seq(Commands) /\ Head(toData) \in Commands /\ Head(toData) = toData[1]
         /\ Len(toData) \in Nat /\ Len(toData) > 0
         /\ Len(toData) = 1 => toData' = <<>>
         /\ Len(toData') = Len(toData) - 1
         /\ \A i \in 1 .. Len(toData') : toData'[i] = toData[i + 1]
BY Taken DEF QueueType

LEMMA CancelSent ==
  ASSUME QueueType, NEW n \in Nat, toControl' = Append(toControl, n)
  PROVE  /\ toControl' \in Seq(Nat) /\ toControl' # <<>>
         /\ Len(toControl) \in Nat /\ Len(toControl') = Len(toControl) + 1
         /\ \A i \in 1 .. Len(toControl) : toControl'[i] = toControl[i]
         /\ toControl'[Len(toControl) + 1] = n
         /\ toControl = <<>> => Len(toControl') = 1 /\ Head(toControl') = n
<1> DEFINE x == n
<1>1. x \in Nat
  BY DEF QueueType
<1>2. x = n
  OBVIOUS
<1>3. toControl \in Seq(Nat) /\ toControl' = Append(toControl, x)
  BY DEF QueueType
<1> HIDE DEF x
<1> QED BY <1>1, <1>2, <1>3, Appended

LEMMA CancelTaken ==
  ASSUME QueueType, toControl # <<>>, toControl' = Tail(toControl)
  PROVE  /\ toControl' \in Seq(Nat) /\ Head(toControl) \in Nat /\ Head(toControl) = toControl[1]
         /\ Len(toControl) \in Nat /\ Len(toControl) > 0
         /\ Len(toControl) = 1 => toControl' = <<>>
         /\ Len(toControl') = Len(toControl) - 1
         /\ \A i \in 1 .. Len(toControl') : toControl'[i] = toControl[i + 1]
BY Taken DEF QueueType

LEMMA ReplySent ==
  ASSUME QueueType, NEW n \in Nat, NEW o \in BOOLEAN, NEW m \in Nat, NEW r \in BOOLEAN,
         replies' = Append(replies, [id |-> n, ok |-> o, made |-> m, reusable |-> r])
  PROVE  /\ replies' \in Seq(Replies) /\ replies' # <<>>
         /\ Len(replies) \in Nat /\ Len(replies') = Len(replies) + 1
         /\ \A i \in 1 .. Len(replies) : replies'[i] = replies[i]
         /\ replies'[Len(replies) + 1].id = n
         /\ replies = <<>> => Len(replies') = 1 /\ Head(replies').id = n
<1> DEFINE x == [id |-> n, ok |-> o, made |-> m, reusable |-> r]
<1>1. x \in Replies
  BY DEF Replies
<1>2. x.id = n
  OBVIOUS
<1>3. replies \in Seq(Replies) /\ replies' = Append(replies, x)
  BY DEF QueueType
<1> HIDE DEF x
<1> QED BY <1>1, <1>2, <1>3, Appended

LEMMA ReplyTaken ==
  ASSUME QueueType, replies # <<>>, replies' = Tail(replies)
  PROVE  /\ replies' \in Seq(Replies) /\ Head(replies) \in Replies /\ Head(replies) = replies[1]
         /\ Len(replies) \in Nat /\ Len(replies) > 0
         /\ Len(replies) = 1 => replies' = <<>>
         /\ Len(replies') = Len(replies) - 1
         /\ \A i \in 1 .. Len(replies') : replies'[i] = replies[i + 1]
BY Taken DEF QueueType

LEMMA AckSent ==
  ASSUME QueueType, NEW n \in Nat, NEW f \in BOOLEAN, acks' = Append(acks, [epoch |-> n, failed |-> f])
  PROVE  /\ acks' \in Seq(Acks) /\ acks' # <<>>
         /\ Len(acks) \in Nat /\ Len(acks') = Len(acks) + 1
         /\ \A i \in 1 .. Len(acks) : acks'[i] = acks[i]
         /\ acks'[Len(acks) + 1].epoch = n
         /\ acks = <<>> => Len(acks') = 1 /\ Head(acks').epoch = n
<1> DEFINE x == [epoch |-> n, failed |-> f]
<1>1. x \in Acks
  BY DEF Acks
<1>2. x.epoch = n
  OBVIOUS
<1>3. acks \in Seq(Acks) /\ acks' = Append(acks, x)
  BY DEF QueueType
<1> HIDE DEF x
<1> QED BY <1>1, <1>2, <1>3, Appended

LEMMA AckTaken ==
  ASSUME QueueType, acks # <<>>, acks' = Tail(acks)
  PROVE  /\ acks' \in Seq(Acks) /\ Head(acks) \in Acks /\ Head(acks) = acks[1]
         /\ Len(acks) \in Nat /\ Len(acks) > 0
         /\ Len(acks) = 1 => acks' = <<>>
         /\ Len(acks') = Len(acks) - 1
         /\ \A i \in 1 .. Len(acks') : acks'[i] = acks[i + 1]
BY Taken DEF QueueType

\* The numbers in the ports
LEMMA PortIds ==
  ASSUME QueueType, FreshInv
  PROVE  /\ \A i \in 1 .. Len(toData) : toData[i].id \in Nat /\ toData[i].id < next
         /\ \A i \in 1 .. Len(toControl) : toControl[i] \in Nat /\ toControl[i] < next
<1>1. ASSUME NEW i \in 1 .. Len(toData) PROVE toData[i].id \in Nat /\ toData[i].id < next
  <2>1. toData[i] \in Commands
    BY ElementOfSeq DEF QueueType
  <2> QED BY <2>1 DEF Commands, FreshInv
<1>2. ASSUME NEW i \in 1 .. Len(toControl) PROVE toControl[i] \in Nat /\ toControl[i] < next
  BY ElementOfSeq DEF QueueType, FreshInv
<1> QED BY <1>1, <1>2

\* A command that is sent keeps the numbers in the port below the next one.
LEMMA CommandFresh ==
  ASSUME TypeOK, QueueType, FreshInv, NEW n \in Nat, NEW k \in Kinds, NEW o \in Nat,
         toData' = Append(toData, [id |-> n, kind |-> k, of |-> o]),
         next' \in Nat, next <= next', n < next'
  PROVE  toData' \in Seq(Commands) /\ \A i \in 1 .. Len(toData') : toData'[i].id < next'
<1>1. \A i \in 1 .. Len(toData) : toData[i].id \in Nat /\ toData[i].id < next
  BY PortIds
<1>2. next \in Nat
  BY DEF TypeOK
<1>3. \A i \in 1 .. Len(toData) : toData'[i].id < next'
  BY <1>1, <1>2, CommandSent
<1> QED BY <1>3, CommandSent

\* The two places where main takes a number and sends a command
LEMMA Sends ==
  ASSUME TypeOK, QueueType, FreshInv, NEW k \in Kinds, NEW of \in Operands(k), Submit(k, of)
  PROVE  /\ id' \in Nat /\ next' \in Nat /\ next <= next' /\ id' < next' /\ of \in Nat
         /\ toData' \in Seq(Commands) /\ \A i \in 1 .. Len(toData') : toData'[i].id < next'
<1>1. /\ id' \in Nat /\ next' \in Nat /\ next <= next' /\ id' < next' /\ of \in Nat
      /\ toData' = Append(toData, [id |-> id', kind |-> k, of |-> of])
  BY DEF Submit, Accepts, Operands, TakeId, TypeOK, None
<1> QED BY <1>1, CommandFresh

LEMMA Concludes ==
  ASSUME TypeOK, QueueType, FreshInv, Conclude
  PROVE  /\ id' \in Nat /\ next' \in Nat /\ next <= next' /\ id' < next' /\ next' # 0
         /\ kind' \in Kinds /\ pc' \in {"idle", "cleaning", "closed"} /\ given' \subseteq Nat /\ ended' \subseteq Nat
         /\ toData' \in Seq(Commands) /\ \A i \in 1 .. Len(toData') : toData'[i].id < next'
<1>1. CASE cancelled /\ created # None
  <2>1. /\ id' = next /\ next' = next + 1 /\ kind' = "free" /\ pc' = "cleaning" /\ given' = given
        /\ ended' \subseteq ended \cup {created}
        /\ toData' = Append(toData, [id |-> next, kind |-> "free", of |-> created])
    BY <1>1 DEF Conclude
  <2>2. next \in Nat /\ created \in Nat /\ "free" \in Kinds
    BY DEF TypeOK, Kinds, Cleanup
  <2> QED BY <2>1, <2>2, CommandFresh DEF TypeOK
<1>2. CASE ~ (cancelled /\ created # None)
  <2>1. UNCHANGED <<id, next, kind, toData, ended>> /\ pc' \in {"idle", "closed"}
    BY <1>2 DEF Conclude
  <2>2. given' \subseteq Nat
    BY <1>2 DEF Conclude, TypeOK
  <2> QED BY <2>1, <2>2 DEF TypeOK, QueueType, FreshInv
<1> QED BY <1>1, <1>2

LEMMA SubmitFresh ==
  ASSUME TypeOK, QueueType, FreshInv, NEW k \in Kinds, NEW of \in Operands(k), Submit(k, of)
  PROVE  FreshInv'
<1>1. UNCHANGED <<toControl, cancel, ack, epoch, cmd, target>>
  BY DEF Submit, wordVars, dataVars, controlVars
<1>2. \A i \in 1 .. Len(toControl') : toControl'[i] < next'
  BY <1>1, PortIds, Sends DEF TypeOK
<1> QED BY <1>1, <1>2, Sends DEF TypeOK, FreshInv

LEMMA SubmitLateFresh ==
  ASSUME TypeOK, QueueType, FreshInv, NEW k \in Kinds, SubmitLate(k)
  PROVE  FreshInv'
<1>1. /\ id' \in Nat /\ next' \in Nat /\ next <= next' /\ id' < next' /\ cancel' = id'
      /\ toControl' = Append(toControl, id')
      /\ UNCHANGED <<toData, ack, epoch, cmd, target>>
  BY DEF SubmitLate, TakeId, TypeOK, RequestCancel, WordsButCancel, dataVars, controlVars
<1>2. \A i \in 1 .. Len(toControl) : toControl[i] \in Nat /\ toControl[i] < next
  BY PortIds
<1>3. \A i \in 1 .. Len(toControl') : toControl'[i] < next'
  <2>1. /\ Len(toControl) \in Nat /\ Len(toControl') = Len(toControl) + 1
        /\ \A i \in 1 .. Len(toControl) : toControl'[i] = toControl[i]
        /\ toControl'[Len(toControl) + 1] = id'
    BY <1>1, CancelSent
  <2> QED BY <1>1, <1>2, <2>1 DEF TypeOK
<1>4. \A i \in 1 .. Len(toData) : toData[i].id \in Nat /\ toData[i].id < next
  BY PortIds
<1>5. \A i \in 1 .. Len(toData') : toData'[i].id < next'
  BY <1>1, <1>4 DEF TypeOK
<1> QED BY <1>1, <1>3, <1>5 DEF FreshInv, TypeOK

LEMMA ConcludeFresh ==
  ASSUME TypeOK, QueueType, FreshInv, Conclude, UNCHANGED <<toControl, cancel, ack, epoch, cmd, target>>
  PROVE  FreshInv'
<1>1. \A i \in 1 .. Len(toControl) : toControl[i] \in Nat /\ toControl[i] < next
  BY PortIds
<1> QED BY <1>1, Concludes DEF FreshInv, TypeOK

LEMMA SettleFresh == ASSUME TypeOK, QueueType, FreshInv, Settle PROVE FreshInv'
<1>1. CASE Conclude
  BY <1>1, ConcludeFresh DEF Settle, wordVars, dataVars, controlVars
<1>2. CASE UNCHANGED <<id, next, toData>>
  BY <1>2 DEF Settle, FreshInv, wordVars, dataVars, controlVars
<1> QED BY <1>1, <1>2 DEF Settle

LEMMA AcknowledgedFresh == ASSUME TypeOK, QueueType, FreshInv, Acknowledged PROVE FreshInv'
<1>1. CASE Conclude
  BY <1>1, ConcludeFresh DEF Acknowledged, wordVars, dataVars, controlVars
<1>2. CASE UNCHANGED <<id, next, toData>>
  BY <1>2 DEF Acknowledged, FreshInv, wordVars, dataVars, controlVars
<1> QED BY <1>1, <1>2 DEF Acknowledged

LEMMA FailedFresh ==
  ASSUME TypeOK, QueueType, FreshInv, NEW w \in {"data", "control"}, Failed(w)
  PROVE  FreshInv'
<1>1. CASE Conclude
  BY <1>1, ConcludeFresh DEF Failed, dataVars, controlVars
<1>2. CASE UNCHANGED <<id, next, toData>>
  BY <1>2 DEF Failed, FreshInv, dataVars, controlVars
<1> QED BY <1>1, <1>2 DEF Failed

\* The numbers stay below the next one.
LEMMA FreshKept ==
  ASSUME TypeOK, QueueType, FreshInv, Next
  PROVE  FreshInv'
<1> USE DEF TypeOK, FreshInv, Cleanup, Owning, Reusing, Kinds, None, mainVars, wordVars, dataVars,
   controlVars, Published
<1>1. ASSUME NEW k \in Kinds, NEW of \in Operands(k), Submit(k, of) PROVE FreshInv'
  BY <1>1, SubmitFresh
<1>2. ASSUME NEW k \in Kinds, SubmitLate(k) PROVE FreshInv'
  BY <1>2, SubmitLateFresh
<1>3. CASE CloseWithout
  BY <1>3 DEF CloseWithout
<1>4. CASE Fire
  BY <1>4, CancelSent DEF Fire, RequestCancel, WordsButCancel
<1>5. CASE Settle
  BY <1>5, SettleFresh
<1>6. CASE Answer
  BY <1>6 DEF Answer
<1>7. CASE Acknowledged
  BY <1>7, AcknowledgedFresh
<1>8. ASSUME NEW w \in {"data", "control"}, Failed(w) PROVE FreshInv'
  BY <1>8, FailedFresh
<1>9. CASE Take
  BY <1>9, CommandTaken DEF Take, Quarantined, DataStep
<1>10. CASE Publish
  BY <1>10 DEF Publish, Active, Cancelled, DataStep
<1>11. CASE Enter
  BY <1>11 DEF Enter, DataStep
<1>12. CASE Begin
  BY <1>12 DEF Begin, MayBegin, Active, Cancelled, DataStep
<1>13. CASE BeginRefused
  BY <1>13 DEF BeginRefused, MayBegin, DataStep
<1>14. CASE NativeReturns
  BY <1>14 DEF NativeReturns, DataStep
<1>15. CASE Drained
  BY <1>15 DEF Drained, NoBorrower, DataStep
<1>16. CASE CallOver
  BY <1>16 DEF CallOver, NoAckAwaited, Active, Cancelled, DataStep
<1>17. CASE BetweenFails
  BY <1>17 DEF BetweenFails, DataStep
<1>18. CASE Finish
  BY <1>18 DEF Finish, Reply, DataStep
<1>19. CASE Fail
  BY <1>19 DEF Fail, Reply, DataStep
<1>20. CASE FreeRefused
  BY <1>20 DEF FreeRefused, Reply, Unsettled, DataStep
<1>21. CASE FreeChecked
  BY <1>21 DEF FreeChecked, Unsettled, DataStep
<1>22. CASE Free
  BY <1>22 DEF Free, Reply, DataStep
<1>23. CASE DataDies
  BY <1>23 DEF DataDies, DataStep
<1>24. CASE TakeCancel
  BY <1>24, CancelTaken DEF TakeCancel, ControlStep
<1>25. CASE Look
  BY <1>25 DEF Look, ControlStep
<1>26. CASE Borrow
  BY <1>26 DEF Borrow, ControlStep
<1>27. CASE Recheck
  BY <1>27 DEF Recheck, StillNative, ControlStep
<1>28. CASE CancelReturns
  BY <1>28 DEF CancelReturns, ControlStep
<1>29. CASE Return
  BY <1>29 DEF Return, ControlStep
<1>30. CASE StoreAck
  BY <1>30 DEF StoreAck, ControlStep
<1>31. CASE Notify
  BY <1>31 DEF Notify, ControlStep
<1>32. CASE ControlDies
  BY <1>32 DEF ControlDies, ControlStep
<1> QED BY <1>1, <1>2, <1>3, <1>4, <1>5, <1>6, <1>7, <1>8, <1>9, <1>10, <1>11, <1>12, <1>13,
   <1>14, <1>15, <1>16, <1>17, <1>18, <1>19, <1>20, <1>21, <1>22, <1>23, <1>24, <1>25, <1>26,
   <1>27, <1>28, <1>29, <1>30, <1>31, <1>32 DEF Next, Main, Data, Control

\* A command is answered at once, or begins with its own statement or one that is
\* allocated.
LEMMA Takes ==
  ASSUME Take
  PROVE  /\ dpc = "idle" /\ toData # <<>> /\ toData' = Tail(toData) /\ cmd' = Head(toData)
         /\ calls' = 0 /\ DataStep /\ UNCHANGED <<dReusable, phase, epoch, handle>>
         /\ \/ dpc' = "idle" /\ UNCHANGED <<stmt, live, ok>>
            \/ /\ dpc' = "between" /\ stmt' \in live'
               /\ stmt' \in {cmd'.id, cmd'.of} /\ live' \in {live, live \cup {cmd'.id}}
            \/ dpc' = "freeing" /\ stmt' = cmd'.of /\ live' = live
<1>1. dpc = "idle" /\ toData # <<>> /\ toData' = Tail(toData) /\ cmd' = Head(toData) /\ calls' = 0
  BY DEF Take
<1>2. DataStep /\ UNCHANGED <<dReusable, phase, epoch, handle>>
  BY DEF Take, Published
<1>3. \/ dpc' = "idle" /\ UNCHANGED <<stmt, live, ok>>
      \/ /\ dpc' = "between" /\ stmt' \in live'
         /\ stmt' \in {Head(toData).id, Head(toData).of} /\ live' \in {live, live \cup {Head(toData).id}}
      \/ dpc' = "freeing" /\ stmt' = Head(toData).of /\ live' = live
  BY DEF Take, AnswerAtOnce, Unknown
<1> QED BY <1>1, <1>2, <1>3

\* The borrow follows the place of the control worker, the phase that of the data worker.
LEMMA PhaseKept ==
  ASSUME TypeOK, BorrowInv, PhaseInv, Next
  PROVE  BorrowInv' /\ PhaseInv'
<1> USE DEF TypeOK, BorrowInv, Borrowing, PhaseInv, mainVars, wordVars, dataVars, controlVars,
   Published
<1>1. ASSUME NEW k \in Kinds, NEW of \in Operands(k), Submit(k, of) PROVE BorrowInv' /\ PhaseInv'
  BY <1>1 DEF Submit, Accepts, Operands, TakeId
<1>2. ASSUME NEW k \in Kinds, SubmitLate(k) PROVE BorrowInv' /\ PhaseInv'
  BY <1>2 DEF SubmitLate, Accepts, Operands, TakeId, RequestCancel, WordsButCancel
<1>3. CASE CloseWithout
  BY <1>3 DEF CloseWithout
<1>4. CASE Fire
  BY <1>4 DEF Fire, RequestCancel, WordsButCancel
<1>5. CASE Settle
  BY <1>5 DEF Settle, AckOwed, Conclude
<1>6. CASE Answer
  BY <1>6 DEF Answer
<1>7. CASE Acknowledged
  BY <1>7 DEF Acknowledged, Conclude
<1>8. ASSUME NEW w \in {"data", "control"}, Failed(w) PROVE BorrowInv' /\ PhaseInv'
  BY <1>8 DEF Failed, Conclude
<1>9. CASE Take
  BY <1>9, Takes DEF DataStep
<1>10. CASE Publish
  BY <1>10 DEF Publish, Active, Cancelled, DataStep
<1>11. CASE Enter
  BY <1>11 DEF Enter, DataStep
<1>12. CASE Begin
  BY <1>12 DEF Begin, MayBegin, Active, Cancelled, DataStep
<1>13. CASE BeginRefused
  BY <1>13 DEF BeginRefused, MayBegin, DataStep
<1>14. CASE NativeReturns
  BY <1>14 DEF NativeReturns, DataStep
<1>15. CASE Drained
  BY <1>15 DEF Drained, NoBorrower, DataStep
<1>16. CASE CallOver
  BY <1>16 DEF CallOver, NoAckAwaited, Active, Cancelled, DataStep
<1>17. CASE BetweenFails
  BY <1>17 DEF BetweenFails, DataStep
<1>18. CASE Finish
  BY <1>18 DEF Finish, Reply, DataStep
<1>19. CASE Fail
  BY <1>19 DEF Fail, Reply, DataStep
<1>20. CASE FreeRefused
  BY <1>20 DEF FreeRefused, Reply, Unsettled, DataStep
<1>21. CASE FreeChecked
  BY <1>21 DEF FreeChecked, Unsettled, DataStep
<1>22. CASE Free
  BY <1>22 DEF Free, Reply, DataStep
<1>23. CASE DataDies
  BY <1>23 DEF DataDies, DataStep
<1>24. CASE TakeCancel
  BY <1>24 DEF TakeCancel, ControlStep
<1>25. CASE Look
  BY <1>25 DEF Look, ControlStep
<1>26. CASE Borrow
  BY <1>26 DEF Borrow, ControlStep
<1>27. CASE Recheck
  BY <1>27 DEF Recheck, StillNative, ControlStep
<1>28. CASE CancelReturns
  BY <1>28 DEF CancelReturns, ControlStep
<1>29. CASE Return
  BY <1>29 DEF Return, ControlStep
<1>30. CASE StoreAck
  BY <1>30 DEF StoreAck, ControlStep
<1>31. CASE Notify
  BY <1>31 DEF Notify, ControlStep
<1>32. CASE ControlDies
  BY <1>32 DEF ControlDies, ControlStep
<1> QED BY <1>1, <1>2, <1>3, <1>4, <1>5, <1>6, <1>7, <1>8, <1>9, <1>10, <1>11, <1>12, <1>13,
   <1>14, <1>15, <1>16, <1>17, <1>18, <1>19, <1>20, <1>21, <1>22, <1>23, <1>24, <1>25, <1>26,
   <1>27, <1>28, <1>29, <1>30, <1>31, <1>32 DEF Next, Main, Data, Control

-------------------------------------------------------------------------------
(* Every step keeps the types *)

\* TypeOK in two parts, for the two provers
Booleans ==
  /\ cancelled \in BOOLEAN /\ reusable \in BOOLEAN /\ ok \in BOOLEAN /\ dReusable \in BOOLEAN
  /\ cancelFailure \in BOOLEAN /\ controlFailure \in BOOLEAN

Others ==
  /\ pc \in {"idle", "running", "answered", "awaiting", "cleaning", "closed"}
  /\ id \in Nat /\ next \in Nat \ {0} /\ kind \in Kinds /\ created \in Nat
  /\ given \subseteq Nat /\ ended \subseteq Nat /\ live \subseteq Nat /\ seen \subseteq {"data", "control"}
  /\ phase \in {"idle", "native", "drain"}
  /\ epoch \in Nat /\ handle \in Nat /\ cancel \in Nat /\ ack \in Nat
  /\ borrows \in {0, 1}
  /\ dpc \in {"idle", "between", "publishing", "entering", "native", "draining", "acking",
              "failing", "freeing", "freed", "dead"}
  /\ cmd \in [id : Nat, kind : Kinds, of : Nat]
  /\ stmt \in Nat /\ calls \in 0 .. MaxNative
  /\ cpc \in {"idle", "look", "lookPhase", "borrow", "recheck", "recheckPhase", "cancelling",
              "return", "leave", "throw", "done", "broken", "notify", "fail", "dead"}
  /\ target \in Nat

LEMMA TypeParts == TypeOK <=> Booleans /\ Others
BY DEF TypeOK, Booleans, Others

LEMMA ConcludeData ==
  ASSUME TypeOK, QueueType, FreshInv, Conclude, seen' \subseteq {"data", "control"},
         UNCHANGED <<created, phase, epoch, handle, borrows, cancel, ack, dataVars, controlVars>>
  PROVE  Others'
BY Concludes DEF TypeOK, Others, dataVars, controlVars

LEMMA SettleData == ASSUME TypeOK, QueueType, FreshInv, Settle PROVE Others'
<1>1. CASE Conclude
  BY <1>1, ConcludeData DEF Settle, TypeOK, wordVars
<1>2. CASE pc' = "awaiting" /\ UNCHANGED <<id, next, kind, given, ended>>
  BY <1>2 DEF Settle, TypeOK, Others, wordVars, dataVars, controlVars
<1> QED BY <1>1, <1>2 DEF Settle

LEMMA AcknowledgedData == ASSUME TypeOK, QueueType, FreshInv, Acknowledged PROVE Others'
<1>1. CASE Conclude
  BY <1>1, ConcludeData DEF Acknowledged, TypeOK, wordVars
<1>2. CASE UNCHANGED <<pc, id, next, kind, given, ended>>
  BY <1>2 DEF Acknowledged, TypeOK, Others, wordVars, dataVars, controlVars
<1> QED BY <1>1, <1>2 DEF Acknowledged

LEMMA FailedData ==
  ASSUME TypeOK, QueueType, FreshInv, NEW w \in {"data", "control"}, Failed(w)
  PROVE  Others'
<1>1. seen' \subseteq {"data", "control"}
  BY DEF Failed, TypeOK
<1>2. CASE Conclude
  BY <1>1, <1>2, ConcludeData DEF Failed, TypeOK
<1>3. CASE pc' \in {"answered", "idle"} /\ UNCHANGED <<id, next, kind, given, ended>>
  BY <1>1, <1>3 DEF Failed, TypeOK, Others, dataVars, controlVars
<1> QED BY <1>2, <1>3 DEF Failed

LEMMA AnswerData == ASSUME TypeOK, QueueType, Answer PROVE Others'
<1>1. Head(replies).made \in Nat
  BY ReplyTaken DEF Answer, Replies
<1>2. created' \in Nat /\ pc' \in {"idle", "running", "answered", "awaiting", "cleaning", "closed"}
  BY <1>1 DEF Answer, TypeOK
<1> QED BY <1>2 DEF Answer, TypeOK, Others, wordVars, dataVars, controlVars

LEMMA TakeData == ASSUME TypeOK, QueueType, Take PROVE Others'
<1>1. Head(toData) \in [id : Nat, kind : Kinds, of : Nat]
  BY CommandTaken DEF Take, Commands
<1>2. stmt' \in Nat /\ live' \subseteq Nat /\ cmd' \in [id : Nat, kind : Kinds, of : Nat]
  BY <1>1, Takes DEF TypeOK
<1>3. dpc' \in {"idle", "between", "freeing"} /\ calls' \in 0 .. MaxNative
  BY OdbcAssumption, Takes DEF TypeOK
<1>4. /\ UNCHANGED <<mainVars, phase, epoch, handle, borrows, cancel, ack, controlVars>>
  BY Takes DEF DataStep
<1> QED BY <1>2, <1>3, <1>4 DEF TypeOK, Others, mainVars, controlVars

LEMMA PublishData == ASSUME TypeOK, Publish PROVE Others'
<1>1. calls' \in 0 .. MaxNative
  BY OdbcAssumption DEF Publish, TypeOK
<1> QED BY <1>1 DEF Publish, DataStep, TypeOK, Others, mainVars, controlVars

LEMMA FreeData == ASSUME TypeOK, Free PROVE Others'
<1>1. live' \subseteq Nat
  BY DEF Free, TypeOK
<1> QED BY <1>1 DEF Free, Reply, DataStep, Published, TypeOK, Others, mainVars, controlVars

LEMMA SubmitData ==
  ASSUME TypeOK, QueueType, FreshInv, NEW k \in Kinds, NEW of \in Operands(k), Submit(k, of)
  PROVE  Others'
<1>1. given' \subseteq Nat /\ ended' \subseteq Nat
  <2>1. given' \in {given, given \ {of}} /\ ended' = ended \ {of}
    BY DEF Submit
  <2>2. given \subseteq Nat /\ ended \subseteq Nat
    BY DEF TypeOK
  <2> QED BY <2>1, <2>2
<1>2. created' = None /\ pc' = "running" /\ kind' = k /\ UNCHANGED <<seen, wordVars, dataVars, controlVars>>
  BY DEF Submit
<1>3. next' \in Nat \ {0}
  BY DEF Submit, TakeId, TypeOK
<1> QED BY <1>1, <1>2, <1>3, Sends DEF TypeOK, Others, None, wordVars, dataVars, controlVars

\* Everything but the Boolean variables
LEMMA DataKept ==
  ASSUME TypeOK, QueueType, FreshInv, BorrowInv, Next
  PROVE  Others'
<1> USE DEF TypeOK, Others, QueueType, Commands, Replies, BorrowInv, Borrowing, Cleanup, Owning, Reusing,
   Kinds, None, mainVars, wordVars, dataVars, controlVars, Published
<1>1. ASSUME NEW k \in Kinds, NEW of \in Operands(k), Submit(k, of) PROVE Others'
  BY <1>1, SubmitData
<1>2. ASSUME NEW k \in Kinds, SubmitLate(k) PROVE Others'
  BY <1>2, OdbcAssumption DEF SubmitLate, TakeId, RequestCancel, WordsButCancel
<1>3. CASE CloseWithout
  BY <1>3 DEF CloseWithout
<1>4. CASE Fire
  BY <1>4 DEF Fire, RequestCancel, WordsButCancel
<1>5. CASE Settle
  BY <1>5, SettleData
<1>6. CASE Answer
  BY <1>6, AnswerData
<1>7. CASE Acknowledged
  BY <1>7, AcknowledgedData
<1>8. ASSUME NEW w \in {"data", "control"}, Failed(w) PROVE Others'
  BY <1>8, FailedData
<1>9. CASE Take
  BY <1>9, TakeData
<1>10. CASE Publish
  BY <1>10, PublishData
<1>11. CASE Enter
  BY <1>11 DEF Enter, DataStep
<1>12. CASE Begin
  BY <1>12 DEF Begin, MayBegin, Active, Cancelled, DataStep
<1>13. CASE BeginRefused
  BY <1>13 DEF BeginRefused, MayBegin, DataStep
<1>14. CASE NativeReturns
  BY <1>14 DEF NativeReturns, DataStep
<1>15. CASE Drained
  BY <1>15 DEF Drained, NoBorrower, DataStep
<1>16. CASE CallOver
  BY <1>16 DEF CallOver, NoAckAwaited, Active, Cancelled, DataStep
<1>17. CASE BetweenFails
  BY <1>17 DEF BetweenFails, DataStep
<1>18. CASE Finish
  BY <1>18 DEF Finish, Reply, DataStep
<1>19. CASE Fail
  BY <1>19 DEF Fail, Reply, DataStep
<1>20. CASE FreeRefused
  BY <1>20 DEF FreeRefused, Reply, Unsettled, DataStep
<1>21. CASE FreeChecked
  BY <1>21 DEF FreeChecked, Unsettled, DataStep
<1>22. CASE Free
  BY <1>22, FreeData
<1>23. CASE DataDies
  BY <1>23 DEF DataDies, DataStep
<1>24. CASE TakeCancel
  BY <1>24, CancelTaken DEF TakeCancel, ControlStep
<1>25. CASE Look
  BY <1>25 DEF Look, ControlStep
<1>26. CASE Borrow
  BY <1>26 DEF Borrow, ControlStep
<1>27. CASE Recheck
  BY <1>27 DEF Recheck, StillNative, ControlStep
<1>28. CASE CancelReturns
  BY <1>28 DEF CancelReturns, ControlStep
<1>29. CASE Return
  BY <1>29 DEF Return, ControlStep
<1>30. CASE StoreAck
  BY <1>30 DEF StoreAck, ControlStep
<1>31. CASE Notify
  BY <1>31 DEF Notify, ControlStep
<1>32. CASE ControlDies
  BY <1>32 DEF ControlDies, ControlStep
<1> QED BY <1>1, <1>2, <1>3, <1>4, <1>5, <1>6, <1>7, <1>8, <1>9, <1>10, <1>11, <1>12, <1>13,
   <1>14, <1>15, <1>16, <1>17, <1>18, <1>19, <1>20, <1>21, <1>22, <1>23, <1>24, <1>25, <1>26,
   <1>27, <1>28, <1>29, <1>30, <1>31, <1>32 DEF Next, Main, Data, Control

LEMMA BooleansKept ==
  ASSUME Booleans, Next
  PROVE  Booleans'
<1> USE DEF Booleans, mainVars, wordVars, dataVars, controlVars, Published
<1>1. ASSUME NEW k \in Kinds, NEW of \in Operands(k), Submit(k, of) PROVE Booleans'
  BY <1>1 DEF Submit
<1>2. ASSUME NEW k \in Kinds, SubmitLate(k) PROVE Booleans'
  BY <1>2 DEF SubmitLate, RequestCancel, WordsButCancel
<1>3. CASE CloseWithout
  BY <1>3 DEF CloseWithout
<1>4. CASE Fire
  BY <1>4 DEF Fire, RequestCancel, WordsButCancel
<1>5. CASE Settle
  BY <1>5 DEF Settle
<1>6. CASE Answer
  BY <1>6 DEF Answer
<1>7. CASE Acknowledged
  BY <1>7 DEF Acknowledged
<1>8. ASSUME NEW w \in {"data", "control"}, Failed(w) PROVE Booleans'
  BY <1>8 DEF Failed
<1>9. CASE Take
  BY <1>9 DEF Take, AnswerAtOnce, DataStep
<1>10. CASE Publish
  BY <1>10 DEF Publish, DataStep
<1>11. CASE Enter
  BY <1>11 DEF Enter, DataStep
<1>12. CASE Begin
  BY <1>12 DEF Begin, DataStep
<1>13. CASE BeginRefused
  BY <1>13 DEF BeginRefused, DataStep
<1>14. CASE NativeReturns
  BY <1>14 DEF NativeReturns, DataStep
<1>15. CASE Drained
  BY <1>15 DEF Drained, DataStep
<1>16. CASE CallOver
  BY <1>16 DEF CallOver, DataStep
<1>17. CASE BetweenFails
  BY <1>17 DEF BetweenFails, DataStep
<1>18. CASE Finish
  BY <1>18 DEF Finish, DataStep
<1>19. CASE Fail
  BY <1>19 DEF Fail, DataStep
<1>20. CASE FreeRefused
  BY <1>20 DEF FreeRefused, DataStep
<1>21. CASE FreeChecked
  BY <1>21 DEF FreeChecked, DataStep
<1>22. CASE Free
  BY <1>22 DEF Free, DataStep
<1>23. CASE DataDies
  BY <1>23 DEF DataDies, DataStep
<1>24. CASE TakeCancel
  BY <1>24 DEF TakeCancel, ControlStep
<1>25. CASE Look
  BY <1>25 DEF Look, ControlStep
<1>26. CASE Borrow
  BY <1>26 DEF Borrow, ControlStep
<1>27. CASE Recheck
  BY <1>27 DEF Recheck, ControlStep
<1>28. CASE CancelReturns
  BY <1>28 DEF CancelReturns, ControlStep
<1>29. CASE Return
  BY <1>29 DEF Return, ControlStep
<1>30. CASE StoreAck
  BY <1>30 DEF StoreAck, ControlStep
<1>31. CASE Notify
  BY <1>31 DEF Notify, ControlStep
<1>32. CASE ControlDies
  BY <1>32 DEF ControlDies, ControlStep
<1> QED BY <1>1, <1>2, <1>3, <1>4, <1>5, <1>6, <1>7, <1>8, <1>9, <1>10, <1>11, <1>12, <1>13,
   <1>14, <1>15, <1>16, <1>17, <1>18, <1>19, <1>20, <1>21, <1>22, <1>23, <1>24, <1>25, <1>26,
   <1>27, <1>28, <1>29, <1>30, <1>31, <1>32 DEF Next, Main, Data, Control

LEMMA SubmitLatePorts ==
  ASSUME TypeOK, QueueType, NEW k \in Kinds, SubmitLate(k)
  PROVE  QueueType'
<1>1. id' \in Nat /\ toControl' = Append(toControl, id')
  BY DEF SubmitLate, TakeId, RequestCancel, TypeOK
<1>2. toControl' \in Seq(Nat)
  BY <1>1, CancelSent
<1> QED BY <1>2 DEF SubmitLate, QueueType

LEMMA FirePorts == ASSUME TypeOK, QueueType, Fire PROVE QueueType'
<1>1. id \in Nat /\ toControl' = Append(toControl, id)
  BY DEF Fire, RequestCancel, TypeOK
<1>2. toControl' \in Seq(Nat)
  BY <1>1, CancelSent
<1> QED BY <1>2 DEF Fire, QueueType

\* An answer of the data worker, whatever is in it
LEMMA ReplyPorts ==
  ASSUME TypeOK, QueueType, NEW o \in BOOLEAN, NEW m \in Nat, NEW f \in BOOLEAN, Reply(o, m, f)
  PROVE  replies' \in Seq(Replies)
<1>1. cmd.id \in Nat /\ (o \/ f) \in BOOLEAN
  BY DEF TypeOK
<1>2. replies' = Append(replies, [id |-> cmd.id, ok |-> o, made |-> m, reusable |-> o \/ f])
  BY DEF Reply
<1> QED BY <1>1, <1>2, ReplySent

LEMMA TakePorts == ASSUME TypeOK, QueueType, Take PROVE QueueType'
<1>1. toData' \in Seq(Commands) /\ Head(toData).id \in Nat
  BY CommandTaken DEF Take, Commands
<1>2. ASSUME NEW o \in BOOLEAN, AnswerAtOnce(Head(toData), o) PROVE replies' \in Seq(Replies)
  <2>1. None \in Nat /\ (o \/ ~ Quarantined) \in BOOLEAN
    BY DEF None, Quarantined, TypeOK
  <2> QED BY <1>1, <1>2, <2>1, ReplySent DEF AnswerAtOnce
<1>3. CASE UNCHANGED replies
  BY <1>1, <1>3 DEF Take, DataStep, QueueType
<1>4. CASE AnswerAtOnce(Head(toData), FALSE) \/ AnswerAtOnce(Head(toData), TRUE)
  <2>1. replies' \in Seq(Replies)
    BY <1>2, <1>4
  <2> QED BY <1>1, <2>1 DEF Take, DataStep, QueueType
<1> QED BY <1>3, <1>4 DEF Take

LEMMA FinishPorts == ASSUME TypeOK, QueueType, Finish PROVE QueueType'
<1>1. CASE Reply(TRUE, IF cmd.kind \in Answered THEN stmt ELSE None, TRUE)
  <2>1. (IF cmd.kind \in Answered THEN stmt ELSE None) \in Nat
    BY DEF TypeOK, None
  <2> QED BY <1>1, <2>1, ReplyPorts DEF Finish, DataStep, QueueType
<1>2. CASE UNCHANGED replies
  BY <1>2 DEF Finish, DataStep, QueueType
<1> QED BY <1>1, <1>2 DEF Finish

LEMMA FailPorts == ASSUME TypeOK, QueueType, Fail PROVE QueueType'
<1>1. CASE Reply(FALSE, None, dReusable)
  BY <1>1, ReplyPorts DEF Fail, DataStep, QueueType, TypeOK, None
<1>2. CASE UNCHANGED replies
  BY <1>2 DEF Fail, DataStep, QueueType
<1> QED BY <1>1, <1>2 DEF Fail

LEMMA FreeRefusedPorts == ASSUME TypeOK, QueueType, FreeRefused PROVE QueueType'
<1>1. replies' \in Seq(Replies)
  BY ReplyPorts DEF FreeRefused, None
<1> QED BY <1>1 DEF FreeRefused, DataStep, QueueType

LEMMA FreePorts == ASSUME TypeOK, QueueType, Free PROVE QueueType'
<1>1. ok \in BOOLEAN /\ dReusable \in BOOLEAN /\ None \in Nat
  BY DEF TypeOK, None
<1>2. replies' \in Seq(Replies)
  <2>1. CASE Reply(TRUE, None, TRUE)
    BY <1>1, <2>1, ReplyPorts
  <2>2. CASE Reply(ok, None, dReusable)
    BY <1>1, <2>2, ReplyPorts
  <2>3. CASE Reply(FALSE, None, FALSE)
    BY <1>1, <2>3, ReplyPorts
  <2> QED BY <2>1, <2>2, <2>3 DEF Free
<1> QED BY <1>2 DEF Free, DataStep, QueueType

LEMMA NotifyPorts == ASSUME TypeOK, QueueType, Notify PROVE QueueType'
<1>1. target \in Nat /\ (cpc = "fail") \in BOOLEAN
  BY DEF TypeOK
<1>2. acks' = Append(acks, [epoch |-> target, failed |-> cpc = "fail"])
  BY DEF Notify
<1>3. acks' \in Seq(Acks)
  BY <1>1, <1>2, AckSent
<1> QED BY <1>3 DEF Notify, ControlStep, QueueType

\* The ports
LEMMA PortsKept ==
  ASSUME TypeOK, QueueType, FreshInv, Next
  PROVE  QueueType'
<1> USE DEF QueueType, mainVars, wordVars, dataVars, controlVars, Published
<1>1. ASSUME NEW k \in Kinds, NEW of \in Operands(k), Submit(k, of) PROVE QueueType'
  BY <1>1, Sends DEF Submit, Accepts, Operands, TakeId
<1>2. ASSUME NEW k \in Kinds, SubmitLate(k) PROVE QueueType'
  BY <1>2, SubmitLatePorts
<1>3. CASE CloseWithout
  BY <1>3 DEF CloseWithout
<1>4. CASE Fire
  BY <1>4, FirePorts
<1>5. CASE Settle
  BY <1>5, Concludes DEF Settle
<1>6. CASE Answer
  BY <1>6, ReplyTaken DEF Answer
<1>7. CASE Acknowledged
  BY <1>7, Concludes, AckTaken DEF Acknowledged
<1>8. ASSUME NEW w \in {"data", "control"}, Failed(w) PROVE QueueType'
  BY <1>8, Concludes DEF Failed
<1>9. CASE Take
  BY <1>9, TakePorts
<1>10. CASE Publish
  BY <1>10 DEF Publish, DataStep
<1>11. CASE Enter
  BY <1>11 DEF Enter, DataStep
<1>12. CASE Begin
  BY <1>12 DEF Begin, DataStep
<1>13. CASE BeginRefused
  BY <1>13 DEF BeginRefused, DataStep
<1>14. CASE NativeReturns
  BY <1>14 DEF NativeReturns, DataStep
<1>15. CASE Drained
  BY <1>15 DEF Drained, DataStep
<1>16. CASE CallOver
  BY <1>16 DEF CallOver, DataStep
<1>17. CASE BetweenFails
  BY <1>17 DEF BetweenFails, DataStep
<1>18. CASE Finish
  BY <1>18, FinishPorts
<1>19. CASE Fail
  BY <1>19, FailPorts
<1>20. CASE FreeRefused
  BY <1>20, FreeRefusedPorts
<1>21. CASE FreeChecked
  BY <1>21 DEF FreeChecked, DataStep
<1>22. CASE Free
  BY <1>22, FreePorts
<1>23. CASE DataDies
  BY <1>23 DEF DataDies, DataStep
<1>24. CASE TakeCancel
  BY <1>24, CancelTaken DEF TakeCancel, ControlStep
<1>25. CASE Look
  BY <1>25 DEF Look, ControlStep
<1>26. CASE Borrow
  BY <1>26 DEF Borrow, ControlStep
<1>27. CASE Recheck
  BY <1>27 DEF Recheck, ControlStep
<1>28. CASE CancelReturns
  BY <1>28 DEF CancelReturns, ControlStep
<1>29. CASE Return
  BY <1>29 DEF Return, ControlStep
<1>30. CASE StoreAck
  BY <1>30 DEF StoreAck, ControlStep
<1>31. CASE Notify
  BY <1>31, NotifyPorts
<1>32. CASE ControlDies
  BY <1>32 DEF ControlDies, ControlStep
<1> QED BY <1>1, <1>2, <1>3, <1>4, <1>5, <1>6, <1>7, <1>8, <1>9, <1>10, <1>11, <1>12, <1>13,
   <1>14, <1>15, <1>16, <1>17, <1>18, <1>19, <1>20, <1>21, <1>22, <1>23, <1>24, <1>25, <1>26,
   <1>27, <1>28, <1>29, <1>30, <1>31, <1>32 DEF Next, Main, Data, Control

-------------------------------------------------------------------------------
(* The data worker has at most the command of the request in hand *)

\* A command goes out only when the port is empty.
LEMMA SendsOnce ==
  ASSUME TypeOK, QueueType, NEW k \in Kinds, NEW of \in Operands(k), Submit(k, of), toData = <<>>
  PROVE  toData' # <<>> /\ Len(toData') = 1 /\ Head(toData').id = id'
<1>1. id' \in Nat /\ of \in Nat /\ toData' = Append(toData, [id |-> id', kind |-> k, of |-> of])
  BY DEF Submit, Accepts, Operands, TakeId, TypeOK, None
<1> QED BY <1>1, CommandSent

LEMMA ConcludesOnce ==
  ASSUME TypeOK, QueueType, Conclude, toData = <<>>
  PROVE  \/ /\ pc' = "cleaning" /\ id' = next
            /\ toData' # <<>> /\ Len(toData') = 1 /\ Head(toData').id = id'
         \/ pc' \in {"idle", "closed"} /\ UNCHANGED <<id, next, kind, toData>>
<1>1. CASE cancelled /\ created # None
  <2>1. /\ id' = next /\ pc' = "cleaning"
        /\ toData' = Append(toData, [id |-> next, kind |-> "free", of |-> created])
    BY <1>1 DEF Conclude
  <2>2. next \in Nat /\ created \in Nat /\ "free" \in Kinds
    BY DEF TypeOK, Kinds, Cleanup
  <2> QED BY <2>1, <2>2, CommandSent
<1>2. CASE ~ (cancelled /\ created # None)
  BY <1>2 DEF Conclude
<1> QED BY <1>1, <1>2

\* A command that needs no native call leaves the data worker where it was.
LEMMA TakeAnswers ==
  ASSUME TypeOK, QueueType, Take, replies = <<>>
  PROVE  \/ replies' = <<>> /\ dpc' \in {"between", "freeing"}
         \/ dpc' = "idle" /\ replies' # <<>> /\ Len(replies') = 1 /\ Head(replies').id = Head(toData).id
<1>1. ASSUME NEW o \in BOOLEAN, AnswerAtOnce(Head(toData), o)
      PROVE  dpc' = "idle" /\ replies' # <<>> /\ Len(replies') = 1 /\ Head(replies').id = Head(toData).id
  <2>1. None \in Nat /\ (o \/ ~ Quarantined) \in BOOLEAN /\ Head(toData).id \in Nat
    BY CommandTaken DEF Take, Commands, None, Quarantined, TypeOK
  <2> QED BY <1>1, <2>1, ReplySent DEF AnswerAtOnce, Take
<1>2. CASE AnswerAtOnce(Head(toData), FALSE) \/ AnswerAtOnce(Head(toData), TRUE)
  BY <1>1, <1>2
<1>3. CASE ~ (AnswerAtOnce(Head(toData), FALSE) \/ AnswerAtOnce(Head(toData), TRUE))
  BY <1>3 DEF Take
<1> QED BY <1>2, <1>3

\* In order, the port, the data worker and the replies hold one command together.
LEMMA WorkKept ==
  ASSUME TypeOK, QueueType, WorkInv, seen' = {}, Next
  PROVE  WorkInv'
<1> USE DEF TypeOK, WorkInv, QueueType, Cleanup, Owning, None, mainVars, wordVars, dataVars,
   controlVars, Published
<1>1. ASSUME NEW k \in Kinds, NEW of \in Operands(k), Submit(k, of) PROVE WorkInv'
  BY <1>1, SendsOnce DEF Submit, Accepts, Operands, TakeId
<1>2. ASSUME NEW k \in Kinds, SubmitLate(k) PROVE WorkInv'
  BY <1>2 DEF SubmitLate, Accepts, Operands, TakeId, RequestCancel, WordsButCancel
<1>3. CASE CloseWithout
  BY <1>3 DEF CloseWithout
<1>4. CASE Fire
  BY <1>4 DEF Fire, RequestCancel, WordsButCancel
<1>5. CASE Settle
  BY <1>5, ConcludesOnce DEF Settle, AckOwed
<1>6. CASE Answer
  BY <1>6, ReplyTaken DEF Answer
<1>7. CASE Acknowledged
  BY <1>7, ConcludesOnce DEF Acknowledged
<1>8. ASSUME NEW w \in {"data", "control"}, Failed(w) PROVE WorkInv'
  BY <1>8 DEF Failed
<1>9. CASE Take
  BY <1>9, CommandTaken, TakeAnswers DEF Take, DataStep
<1>10. CASE Publish
  BY <1>10 DEF Publish, Active, Cancelled, DataStep
<1>11. CASE Enter
  BY <1>11 DEF Enter, DataStep
<1>12. CASE Begin
  BY <1>12 DEF Begin, MayBegin, Active, Cancelled, DataStep
<1>13. CASE BeginRefused
  BY <1>13 DEF BeginRefused, MayBegin, DataStep
<1>14. CASE NativeReturns
  BY <1>14 DEF NativeReturns, DataStep
<1>15. CASE Drained
  BY <1>15 DEF Drained, NoBorrower, DataStep
<1>16. CASE CallOver
  BY <1>16 DEF CallOver, NoAckAwaited, Active, Cancelled, DataStep
<1>17. CASE BetweenFails
  BY <1>17 DEF BetweenFails, DataStep
<1>18. CASE Finish
  BY <1>18, ReplySent DEF Finish, Reply, DataStep
<1>19. CASE Fail
  BY <1>19, ReplySent DEF Fail, Reply, DataStep
<1>20. CASE FreeRefused
  BY <1>20, ReplySent DEF FreeRefused, Reply, Unsettled, DataStep
<1>21. CASE FreeChecked
  BY <1>21 DEF FreeChecked, Unsettled, DataStep
<1>22. CASE Free
  BY <1>22, ReplySent DEF Free, Reply, DataStep
<1>23. CASE DataDies
  BY <1>23 DEF DataDies, DataStep
<1>24. CASE TakeCancel
  BY <1>24 DEF TakeCancel, ControlStep
<1>25. CASE Look
  BY <1>25 DEF Look, ControlStep
<1>26. CASE Borrow
  BY <1>26 DEF Borrow, ControlStep
<1>27. CASE Recheck
  BY <1>27 DEF Recheck, StillNative, ControlStep
<1>28. CASE CancelReturns
  BY <1>28 DEF CancelReturns, ControlStep
<1>29. CASE Return
  BY <1>29 DEF Return, ControlStep
<1>30. CASE StoreAck
  BY <1>30 DEF StoreAck, ControlStep
<1>31. CASE Notify
  BY <1>31 DEF Notify, ControlStep
<1>32. CASE ControlDies
  BY <1>32 DEF ControlDies, ControlStep
<1> QED BY <1>1, <1>2, <1>3, <1>4, <1>5, <1>6, <1>7, <1>8, <1>9, <1>10, <1>11, <1>12, <1>13,
   <1>14, <1>15, <1>16, <1>17, <1>18, <1>19, <1>20, <1>21, <1>22, <1>23, <1>24, <1>25, <1>26,
   <1>27, <1>28, <1>29, <1>30, <1>31, <1>32 DEF Next, Main, Data, Control

-------------------------------------------------------------------------------
(* The control worker has at most the cancellation of the request in hand *)

\* A number that was just taken has not been acknowledged.
LEMMA SubmitCancels ==
  ASSUME TypeOK, FreshInv, CancelInv, NEW k \in Kinds, NEW of \in Operands(k), Submit(k, of)
  PROVE  CancelInv'
<1>1. /\ id' = 0 \/ id' = next
      /\ k \notin Cleanup => id' = next
      /\ pc = "idle" /\ pc' = "running" /\ kind' = k
      /\ UNCHANGED <<toControl, acks, wordVars, dataVars, controlVars>>
  BY OdbcAssumption DEF Submit, Accepts, TakeId, TypeOK
<1>2. toControl = <<>> /\ cpc \notin Busy
  BY <1>1 DEF CancelInv, Waiting
<1>3. \A i \in 1 .. Len(acks') : acks'[i].epoch <= ack'
  BY <1>1 DEF CancelInv, wordVars
<1> HIDE DEF Busy
<1> QED BY <1>1, <1>2, <1>3 DEF TypeOK, CancelInv, FreshInv, wordVars, dataVars, controlVars

LEMMA SubmitLateCancels ==
  ASSUME TypeOK, QueueType, FreshInv, CancelInv, NEW k \in Kinds, SubmitLate(k)
  PROVE  CancelInv'
<1>1. /\ id' = next /\ cancel' = id' /\ cancelled' = TRUE
      /\ pc = "idle" /\ pc' = "answered"
      /\ toControl' = Append(toControl, id')
      /\ UNCHANGED <<acks, ack, epoch, phase, handle, dataVars, controlVars>>
  BY OdbcAssumption DEF SubmitLate, Accepts, TakeId, TypeOK, RequestCancel, WordsButCancel
<1>2. toControl = <<>> /\ cpc \notin Busy
  BY <1>1 DEF CancelInv, Waiting
<1>3. \A i \in 1 .. Len(acks') : acks'[i].epoch <= ack'
  BY <1>1 DEF CancelInv
<1>4. Len(toControl') = 1 /\ Head(toControl') = id'
  BY <1>1, <1>2, CancelSent DEF TypeOK
<1>5. Waiting' /\ ack' < id'
  BY <1>1 DEF Waiting, FreshInv
<1> HIDE DEF Busy
<1> QED BY <1>1, <1>2, <1>3, <1>4, <1>5 DEF TypeOK, CancelInv, FreshInv, dataVars, controlVars

LEMMA TakeCancels ==
  ASSUME TypeOK, CancelInv, Take
  PROVE  CancelInv'
<1>1. /\ dpc = "idle" /\ dpc' # "native"
      /\ UNCHANGED <<mainVars, toControl, acks, phase, epoch, handle, cancel, ack, controlVars>>
  BY Takes DEF DataStep
<1>2. \A i \in 1 .. Len(acks') : acks'[i].epoch <= ack'
  BY <1>1 DEF CancelInv
<1>3. Waiting' = Waiting
  BY <1>1 DEF Waiting, mainVars
<1> QED BY <1>1, <1>2, <1>3 DEF CancelInv, mainVars, controlVars

\* The data worker cannot drain while the statement is borrowed.
LEMMA DrainedCancels ==
  ASSUME TypeOK, BorrowInv, CancelInv, Drained, ~ controlFailure, cpc # "dead"
  PROVE  CancelInv'
<1>1. /\ dpc' = "acking" /\ cpc # "cancelling"
      /\ UNCHANGED <<mainVars, toControl, acks, cmd, stmt, phase, epoch, handle, cancel, ack, controlVars>>
  BY DEF Drained, DataStep, Published, NoBorrower, BorrowInv, Borrowing
<1>2. \A i \in 1 .. Len(acks') : acks'[i].epoch <= ack'
  BY <1>1 DEF CancelInv
<1>3. Waiting' = Waiting
  BY <1>1 DEF Waiting, mainVars
<1> QED BY <1>1, <1>2, <1>3 DEF CancelInv, mainVars, controlVars

\* What the control worker reads of the words tells it where the data worker is.
LEMMA LookCancels ==
  ASSUME TypeOK, PhaseInv, CancelInv, Look
  PROVE  CancelInv'
<1>1. /\ cpc \in {"look", "lookPhase"} /\ cpc' \in {"lookPhase", "borrow", "done"}
      /\ cpc' = "done" => phase # "native" \/ epoch # target
      /\ UNCHANGED <<mainVars, toControl, acks, dataVars, phase, epoch, handle, cancel, ack, target>>
  BY DEF Look, ControlStep, Published
<1>2. cpc' = "done" => ~ (dpc = "native" /\ cmd.id = target)
  BY <1>1 DEF PhaseInv
<1>3. \A i \in 1 .. Len(acks') : acks'[i].epoch <= ack'
  BY <1>1 DEF CancelInv
<1>4. Waiting' = Waiting
  BY <1>1 DEF Waiting, mainVars
<1> QED BY <1>1, <1>2, <1>3, <1>4 DEF CancelInv, Busy, mainVars, dataVars

LEMMA RecheckCancels ==
  ASSUME TypeOK, PhaseInv, CancelInv, Recheck
  PROVE  CancelInv'
<1>1. /\ cpc \in {"recheck", "recheckPhase"} /\ cpc' \in {"recheckPhase", "leave", "cancelling"}
      /\ cpc' = "recheckPhase" => epoch = target
      /\ cpc' = "leave" => phase # "native" \/ epoch # target
      /\ cpc' = "cancelling" => cpc = "recheckPhase" /\ phase = "native"
      /\ UNCHANGED <<mainVars, toControl, acks, dataVars, phase, epoch, handle, cancel, ack, target>>
  BY DEF Recheck, StillNative, ControlStep, Published
<1>2. cpc' = "leave" => ~ (dpc = "native" /\ cmd.id = target)
  BY <1>1 DEF PhaseInv
<1>3. cpc' = "cancelling" =>
        cmd.id = target /\ stmt = handle /\ dpc \in {"entering", "native", "draining", "dead"}
  BY <1>1 DEF PhaseInv, CancelInv, TypeOK
<1>4. \A i \in 1 .. Len(acks') : acks'[i].epoch <= ack'
  BY <1>1 DEF CancelInv
<1>5. Waiting' = Waiting
  BY <1>1 DEF Waiting, mainVars
<1> QED BY <1>1, <1>2, <1>3, <1>4, <1>5 DEF CancelInv, Busy, mainVars, dataVars

\* The acknowledgement is stored once the native call is over.
LEMMA StoreAckCancels ==
  ASSUME TypeOK, QueueType, CancelInv, StoreAck
  PROVE  CancelInv'
<1>1. /\ cpc \in {"done", "broken"} /\ cpc' = IF cpc = "done" THEN "notify" ELSE "fail"
      /\ ack' = target
      /\ UNCHANGED <<mainVars, toControl, acks, dataVars, phase, epoch, handle, cancel, target>>
  BY DEF StoreAck, ControlStep, Published
<1>2. Waiting /\ toControl = <<>> /\ target = id /\ ack < id
  BY <1>1 DEF CancelInv, Busy, Waiting
<1>3. \A i \in 1 .. Len(acks') : acks'[i].epoch <= ack'
  <2>1. ASSUME NEW i \in 1 .. Len(acks) PROVE acks[i].epoch \in Nat
    <3>1. acks[i] \in Acks
      BY ElementOfSeq DEF QueueType
    <3> QED BY <3>1 DEF Acks
  <2> QED BY <1>1, <1>2, <2>1 DEF CancelInv, TypeOK
<1>4. cpc' # "fail" => ~ (dpc = "native" /\ cmd.id = target)
  BY <1>1 DEF CancelInv
<1>5. pc \in {"running", "answered", "awaiting"} /\ cancelled /\ cancel = id
  BY <1>2 DEF Waiting
<1> QED BY <1>1, <1>2, <1>3, <1>4, <1>5 DEF CancelInv, Busy, TypeOK, mainVars, dataVars

\* In order, the port, the control worker and the acknowledgements hold one cancellation.
LEMMA CancelsKept ==
  ASSUME TypeOK, QueueType, FreshInv, BorrowInv, PhaseInv, WorkInv, CancelInv,
         ~ controlFailure, ~ controlFailure', cpc # "dead", cpc' # "dead", Next
  PROVE  CancelInv'
<1> USE DEF TypeOK, CancelInv, FreshInv, WorkInv, Waiting, Busy, mainVars, wordVars, dataVars,
   controlVars, Published
<1>1. ASSUME NEW k \in Kinds, NEW of \in Operands(k), Submit(k, of) PROVE CancelInv'
  BY <1>1, SubmitCancels
<1>2. ASSUME NEW k \in Kinds, SubmitLate(k) PROVE CancelInv'
  BY <1>2, SubmitLateCancels
<1>3. CASE CloseWithout
  BY <1>3 DEF CloseWithout
<1>4. CASE Fire
  BY <1>4, CancelSent DEF Fire, RequestCancel, WordsButCancel
<1>5. CASE Settle
  BY <1>5 DEF Settle, AckOwed, Conclude
<1>6. CASE Answer
  BY <1>6 DEF Answer
<1>7. CASE Acknowledged
  BY <1>7, AckTaken DEF Acknowledged, Conclude
<1>8. ASSUME NEW w \in {"data", "control"}, Failed(w) PROVE CancelInv'
  BY <1>8 DEF Failed, Conclude
<1>9. CASE Take
  BY <1>9, TakeCancels
<1>10. CASE Publish
  BY <1>10 DEF Publish, Active, Cancelled, DataStep
<1>11. CASE Enter
  BY <1>11 DEF Enter, DataStep
<1>12. CASE Begin
  BY <1>12 DEF Begin, MayBegin, Active, Cancelled, DataStep
<1>13. CASE BeginRefused
  BY <1>13 DEF BeginRefused, MayBegin, DataStep
<1>14. CASE NativeReturns
  BY <1>14 DEF NativeReturns, DataStep
<1>15. CASE Drained
  BY <1>15, DrainedCancels
<1>16. CASE CallOver
  BY <1>16 DEF CallOver, NoAckAwaited, Active, Cancelled, DataStep
<1>17. CASE BetweenFails
  BY <1>17 DEF BetweenFails, DataStep
<1>18. CASE Finish
  BY <1>18 DEF Finish, Reply, DataStep
<1>19. CASE Fail
  BY <1>19 DEF Fail, Reply, DataStep
<1>20. CASE FreeRefused
  BY <1>20 DEF FreeRefused, Reply, Unsettled, DataStep
<1>21. CASE FreeChecked
  BY <1>21 DEF FreeChecked, Unsettled, DataStep
<1>22. CASE Free
  BY <1>22 DEF Free, Reply, DataStep
<1>23. CASE DataDies
  BY <1>23 DEF DataDies, DataStep
<1>24. CASE TakeCancel
  BY <1>24, CancelTaken DEF TakeCancel, ControlStep
<1>25. CASE Look
  BY <1>25, LookCancels
<1>26. CASE Borrow
  BY <1>26 DEF Borrow, ControlStep
<1>27. CASE Recheck
  BY <1>27, RecheckCancels
<1>28. CASE CancelReturns
  BY <1>28 DEF CancelReturns, ControlStep
<1>29. CASE Return
  BY <1>29 DEF Return, ControlStep
<1>30. CASE StoreAck
  BY <1>30, StoreAckCancels
<1>31. CASE Notify
  BY <1>31, AckSent DEF Notify, ControlStep
<1>32. CASE ControlDies
  BY <1>32 DEF ControlDies, ControlStep
<1> QED BY <1>1, <1>2, <1>3, <1>4, <1>5, <1>6, <1>7, <1>8, <1>9, <1>10, <1>11, <1>12, <1>13,
   <1>14, <1>15, <1>16, <1>17, <1>18, <1>19, <1>20, <1>21, <1>22, <1>23, <1>24, <1>25, <1>26,
   <1>27, <1>28, <1>29, <1>30, <1>31, <1>32 DEF Next, Main, Data, Control

-------------------------------------------------------------------------------
(* What lasts *)

\* A failure stays, a worker that has exited stays so, and main notices an exit when it
\* gives the connection up.
LEMMA Lasting ==
  ASSUME TypeOK, Next
  PROVE  /\ (controlFailure => controlFailure') /\ (cpc = "dead" => cpc' = "dead")
         /\ (reusable' => reusable) /\ (dpc = "dead" => dpc' = "dead")
         /\ seen \subseteq seen' /\ (seen' = seen \/ (controlFailure' /\ ~ reusable'))
<1>1. ASSUME NEW k \in Kinds, NEW of \in Operands(k), Submit(k, of)
      PROVE  UNCHANGED <<controlFailure, cpc, reusable, dpc, seen>>
  BY <1>1 DEF Submit, wordVars, dataVars, controlVars
<1>2. ASSUME NEW k \in Kinds, SubmitLate(k)
      PROVE  UNCHANGED <<controlFailure, cpc, reusable, dpc, seen>>
  BY <1>2 DEF SubmitLate, WordsButCancel, dataVars, controlVars
<1>3. CASE CloseWithout \/ Fire \/ Settle
  BY <1>3 DEF CloseWithout, Fire, Settle, WordsButCancel, wordVars, dataVars, controlVars
<1>4. CASE Answer
  <2>1. UNCHANGED <<controlFailure, cpc, dpc, seen>>
    BY <1>4 DEF Answer, wordVars, dataVars, controlVars
  <2>2. reusable' => reusable
    BY <1>4 DEF Answer, TypeOK
  <2> QED BY <2>1, <2>2
<1>5. CASE Acknowledged
  BY <1>5 DEF Acknowledged, TypeOK, wordVars, dataVars, controlVars
<1>6. ASSUME NEW w \in {"data", "control"}, Failed(w)
      PROVE  /\ controlFailure' /\ ~ reusable' /\ seen \subseteq seen' /\ UNCHANGED <<cpc, dpc>>
  BY <1>6 DEF Failed, dataVars, controlVars
<1>7. CASE Data \/ DataDies
  <2>1. DataStep /\ dpc # "dead"
    BY <1>7 DEF Data, DataDies, Take, Publish, Enter, Begin, BeginRefused, NativeReturns, Drained,
       CallOver, BetweenFails, Finish, Fail, FreeRefused, FreeChecked, Free
  <2> QED BY <2>1 DEF DataStep, mainVars, controlVars
<1>8. CASE Control \/ ControlDies
  <2>1. ControlStep /\ cpc # "dead" /\ (controlFailure => controlFailure')
    BY <1>8 DEF Control, ControlDies, TakeCancel, Look, Borrow, Recheck, CancelReturns, Return,
       StoreAck, Notify
  <2> QED BY <2>1 DEF ControlStep, mainVars, dataVars
<1> QED BY <1>1, <1>2, <1>3, <1>4, <1>5, <1>6, <1>7, <1>8 DEF Next, Main

-------------------------------------------------------------------------------
(* Every statement is held by the caller, or the command in hand accounts for it *)

\* While the data worker runs a command, it is that of the request in hand.
LEMMA AtWork ==
  ASSUME WorkInv, Stocked, dpc \notin {"idle", "dead"}
  PROVE  /\ pc \in {"running", "cleaning"} /\ toData = <<>> /\ replies = <<>>
         /\ cmd.id = id /\ Working
BY DEF WorkInv, Stocked

\* A step inside a command
LEMMA GoesOn ==
  ASSUME WorkInv, Stocked, dpc \notin {"idle", "dead"}, dpc' # "idle",
         UNCHANGED <<mainVars, toData, replies, cmd, stmt, live>>,
         kind \in Reusing => dpc' \notin {"freeing", "freed"},
         kind \in Cleanup => dpc' \in {"freeing", "freed"} /\ ok' = ok
  PROVE  Stocked'
<1>1. pc \in {"running", "cleaning"} /\ toData = <<>> /\ replies = <<>> /\ Working
  BY AtWork
<1>2. Working'
  BY <1>1 DEF Working, Held, mainVars, Cleanup, Owning, Reusing
<1> QED BY <1>1, <1>2 DEF Stocked, mainVars

\* The end of a command
LEMMA Replied ==
  ASSUME QueueType, WorkInv, Stocked, dpc \notin {"idle", "dead"}, dpc' = "idle",
         UNCHANGED <<mainVars, toData>>,
         NEW o \in BOOLEAN, NEW m \in Nat, NEW r \in BOOLEAN, cmd.id \in Nat,
         replies' = Append(replies, [id |-> cmd.id, ok |-> o, made |-> m, reusable |-> r]),
         o => r, kind \in Cleanup => m = None, r => m \notin ended /\ m < next,
         r /\ kind # "close" => live' = Held \cup ({m} \ {None})
  PROVE  Stocked' /\ replies' # <<>> /\ Head(replies').ok = o /\ Head(replies').reusable = r
<1>1. pc \in {"running", "cleaning"} /\ toData = <<>> /\ replies = <<>>
  BY AtWork
<1>2. PICK x \in Replies : x = [id |-> cmd.id, ok |-> o, made |-> m, reusable |-> r]
  BY DEF Replies
<1>3. replies' = Append(replies, x) /\ x.ok = o /\ x.made = m /\ x.reusable = r
  BY <1>2
<1>4. Head(replies') = x /\ replies' # <<>>
  BY <1>1, <1>2, <1>3, Appended DEF QueueType
<1>5. Told(x)'
  BY <1>3 DEF Told, Held, mainVars
<1>6. Told(Head(replies))'
  BY <1>4, <1>5 DEF Told, Held, mainVars
<1> QED BY <1>1, <1>3, <1>4, <1>6 DEF Stocked, Held, mainVars

LEMMA TakeStocked ==
  ASSUME TypeOK, QueueType, FreshInv, WorkInv, Stocked, Take
  PROVE  Stocked'
<1> DEFINE c == Head(toData)
<1>1. /\ Len(toData) = 1 /\ c.id = id /\ replies = <<>> /\ dpc = "idle"
      /\ pc \in {"running", "cleaning"} /\ c \in Commands /\ Asked(c)
      /\ toData' = <<>> /\ cmd' = c /\ UNCHANGED mainVars
  BY CommandTaken DEF Take, WorkInv, Stocked, DataStep
<1>2. c.id \in Nat /\ c.of \in Nat /\ c.kind = kind
  BY <1>1 DEF Commands, Asked
<1>3. ASSUME NEW o \in BOOLEAN, AnswerAtOnce(c, o), o => kind = "free" /\ live = Held,
             kind = "free" => o
      PROVE  Stocked'
  <2>1. /\ replies' = Append(replies, [id |-> c.id, ok |-> o, made |-> None,
                                      reusable |-> o \/ ~ Quarantined])
        /\ dpc' = "idle" /\ live' = live
    BY <1>1, <1>3 DEF AnswerAtOnce
  <2> DEFINE r == o \/ ~ Quarantined
  <2>0. r \in BOOLEAN /\ None \in Nat
    BY DEF Quarantined, TypeOK, None
  <2>2. PICK x \in Replies : x = [id |-> c.id, ok |-> o, made |-> None, reusable |-> r]
    BY <1>2, <2>0 DEF Replies
  <2>3. (x.ok <=> o) /\ x.made = None /\ (x.ok => x.reusable) /\ replies' = Append(replies, x)
    BY <2>1, <2>2
  <2>4. Head(replies') = x
    BY <1>1, <2>2, <2>3, Appended DEF QueueType
  <2>5. kind # "close" => live = Held
    BY <1>1, <1>3 DEF Asked, Cleanup
  <2>6. None \notin ended /\ None < next
    BY DEF Stocked, None, TypeOK
  <2>7. Told(Head(replies))'
    BY <1>1, <2>1, <2>3, <2>4, <2>5, <2>6 DEF Told, Held, mainVars
  <2> QED BY <1>1, <2>1, <2>7 DEF Stocked, Held, mainVars
<1>4. CASE c.kind \notin Cleanup /\ ~ AnswerAtOnce(c, FALSE)
  <2>1. /\ stmt' = IF kind \in Reusing THEN c.of ELSE c.id
        /\ live' = (IF kind \in Reusing THEN live ELSE live \cup {c.id})
        /\ dpc' = "between" /\ replies' = replies
    BY <1>2, <1>4 DEF Take, Cleanup, Owning, Reusing
  <2>2. Working'
    BY <1>1, <1>2, <1>4, <2>1 DEF Asked, Working, Held, mainVars, Cleanup, Owning, Reusing
  <2> QED BY <1>1, <2>1, <2>2 DEF Stocked, Held, mainVars
<1>5. CASE c.kind \in Cleanup /\ ~ AnswerAtOnce(c, TRUE)
  <2>1. /\ stmt' = c.of /\ dpc' = "freeing" /\ ok' = TRUE /\ UNCHANGED <<live, replies>>
        /\ c.kind = "free" => c.of \in live
    BY <1>5 DEF Take, Cleanup, Owning, Reusing, Unknown
  <2>2. Working'
    BY <1>1, <1>2, <1>5, <2>1 DEF Asked, Working, Held, mainVars, Cleanup, Owning, Reusing
  <2> QED BY <1>1, <2>1, <2>2 DEF Stocked, Held, mainVars
<1>6. CASE c.kind \notin Cleanup /\ AnswerAtOnce(c, FALSE)
  BY <1>2, <1>3, <1>6 DEF Cleanup
<1>7. CASE c.kind \in Cleanup /\ AnswerAtOnce(c, TRUE)
  <2>1. c.kind = "free" /\ c.of \notin live
    BY <1>1, <1>7 DEF Take, Cleanup, Owning, Reusing, Unknown, AnswerAtOnce
  <2>2. live = Held
    BY <1>1, <1>2, <2>1 DEF Asked
  <2> QED BY <1>2, <1>3, <1>7, <2>1, <2>2
<1> QED BY <1>4, <1>5, <1>6, <1>7

\* A statement that was prepared goes to main with the answer.
LEMMA FinishStocked ==
  ASSUME TypeOK, QueueType, FreshInv, WorkInv, Stocked, Finish
  PROVE  Stocked'
<1>1. /\ dpc = "between" /\ Working /\ cmd.id = id /\ cmd.id \in Nat /\ stmt \in Nat
      /\ UNCHANGED <<mainVars, toData, cmd, stmt, live, ok>>
  BY AtWork DEF Finish, DataStep, TypeOK
<1>2. kind \notin Cleanup
  BY <1>1 DEF Working
<1>3. CASE cmd.kind = "execute"
  BY <1>1, <1>2, <1>3, GoesOn DEF Finish, Working, Reusing
<1>4. CASE cmd.kind # "execute"
  <2> DEFINE m == IF cmd.kind \in Answered THEN stmt ELSE None
  <2>1. /\ dpc' = "idle"
        /\ replies' = Append(replies, [id |-> cmd.id, ok |-> TRUE, made |-> m, reusable |-> TRUE])
    BY <1>4 DEF Finish, Reply
  <2>2. m \in Nat /\ m \notin ended /\ m < next
    BY <1>1, <1>4 DEF Working, Stocked, Held, FreshInv, TypeOK, Answered, None, Owning, Reusing
  <2>3. live' = Held \cup ({m} \ {None})
    BY <1>1, <1>2, <1>4 DEF Working, TypeOK, Answered, Kinds, Owning, Reusing, Cleanup, None
  <2> HIDE DEF m
  <2> QED BY <1>1, <1>2, <2>1, <2>2, <2>3, Replied
<1> QED BY <1>3, <1>4

LEMMA FailStocked ==
  ASSUME TypeOK, QueueType, FreshInv, WorkInv, Stocked, Fail
  PROVE  Stocked'
<1>1. /\ dpc = "failing" /\ Working /\ cmd.id \in Nat /\ dReusable \in BOOLEAN
      /\ UNCHANGED <<mainVars, toData, cmd, stmt, live>>
  BY AtWork DEF Fail, DataStep, TypeOK
<1>2. kind \notin Cleanup
  BY <1>1 DEF Working
<1>3. CASE cmd.kind \in Owning
  BY <1>1, <1>2, <1>3, GoesOn DEF Fail, Working, Owning, Reusing
<1>4. CASE cmd.kind \notin Owning
  <2>1. kind \in Reusing /\ live = Held
    BY <1>1, <1>2, <1>4 DEF Working, TypeOK, Kinds, Cleanup
  <2>2. /\ dpc' = "idle"
        /\ replies' = Append(replies, [id |-> cmd.id, ok |-> FALSE, made |-> None, reusable |-> FALSE \/ dReusable])
    BY <1>4 DEF Fail, Reply
  <2>3. None \in Nat /\ None \notin ended /\ None < next /\ live' = Held \cup ({None} \ {None})
    BY <1>1, <2>1 DEF Stocked, TypeOK, None
  <2> QED BY <1>1, <2>1, <2>2, <2>3, Replied
<1> QED BY <1>3, <1>4

LEMMA FreeRefusedStocked ==
  ASSUME TypeOK, QueueType, WorkInv, Stocked, FreeRefused
  PROVE  Stocked'
<1>1. /\ dpc = "freeing" /\ dpc' = "idle" /\ cmd.id \in Nat /\ None \in Nat
      /\ UNCHANGED <<mainVars, toData>>
      /\ replies' = Append(replies, [id |-> cmd.id, ok |-> FALSE, made |-> None, reusable |-> FALSE \/ FALSE])
  BY DEF FreeRefused, Reply, DataStep, TypeOK, None
<1> QED BY <1>1, Replied

\* A statement that is freed is one that nobody relies on.
LEMMA FreeStocked ==
  ASSUME TypeOK, QueueType, WorkInv, Stocked, Free
  PROVE  Stocked'
<1>1. /\ dpc = "freed" /\ dpc' = "idle" /\ cmd.id \in Nat /\ Working
      /\ ok \in BOOLEAN /\ dReusable \in BOOLEAN /\ UNCHANGED <<mainVars, toData>>
  BY AtWork DEF Free, Reply, DataStep, TypeOK
<1>2. None \in Nat /\ None \notin ended /\ None < next
  BY DEF Stocked, TypeOK, None
<1>3. CASE cmd.kind = "close" /\ Reply(TRUE, None, TRUE)
  <2>1. kind = "close"
    BY <1>1, <1>3 DEF Working
  <2>2. replies' = Append(replies, [id |-> cmd.id, ok |-> TRUE, made |-> None, reusable |-> TRUE \/ TRUE])
    BY <1>3 DEF Reply
  <2> QED BY <1>1, <1>2, <2>1, <2>2, Replied
<1>4. CASE cmd.kind # "close" /\ live' = live \ {stmt} /\ Reply(ok, None, dReusable)
  <2>1. live' = Held
    BY <1>1, <1>4 DEF Working, Held, TypeOK, Kinds, Cleanup
  <2>2. replies' = Append(replies, [id |-> cmd.id, ok |-> ok, made |-> None, reusable |-> ok \/ dReusable])
    BY <1>4 DEF Reply
  <2>3. (ok \/ dReusable) \in BOOLEAN /\ (ok => ok \/ dReusable)
    BY <1>1
  <2>4. live' = Held \cup ({None} \ {None})
    BY <2>1
  <2> QED BY <1>1, <1>2, <2>2, <2>3, <2>4, Replied
<1>5. CASE Reply(FALSE, None, FALSE)
  <2>1. replies' = Append(replies, [id |-> cmd.id, ok |-> FALSE, made |-> None, reusable |-> FALSE \/ FALSE])
    BY <1>5 DEF Reply
  <2> QED BY <1>1, <1>2, <2>1, Replied
<1> QED BY <1>3, <1>4, <1>5 DEF Free

\* A request takes a number that no statement has.
LEMMA SubmitStocked ==
  ASSUME TypeOK, QueueType, FreshInv, WorkInv, Stocked, dpc # "dead",
         NEW k \in Kinds, NEW of \in Operands(k), Submit(k, of)
  PROVE  Stocked'
<1>1. /\ pc = "idle" /\ pc' = "running" /\ kind' = k /\ toData = <<>> /\ replies = <<>> /\ dpc = "idle"
      /\ live = Held /\ given' = (IF k = "free" THEN given \ {of} ELSE given) /\ ended' = ended \ {of}
      /\ UNCHANGED <<replies, dpc, live>>
  BY DEF Submit, Accepts, WorkInv, Stocked, dataVars
<1>2. /\ id' \in Nat /\ of \in Nat /\ next' \in Nat /\ next <= next'
      /\ toData' = Append(toData, [id |-> id', kind |-> k, of |-> of])
      /\ k \in Owning => id' = next
      /\ (k \in Reusing => of \in Held) /\ (k = "free" => of \in given)
  <2>1. id' \in Nat /\ of \in Nat /\ next' \in Nat /\ next <= next'
    BY Sends
  <2>2. k \in Owning => id' = next
    BY OdbcAssumption DEF Submit, Accepts, TakeId, Owning, Cleanup, TypeOK
  <2> QED BY <2>1, <2>2 DEF Submit, Operands, Held, Reusing
<1> DEFINE x == [id |-> id', kind |-> k, of |-> of]
<1>3. x.kind = k /\ x.of = of /\ x \in Commands /\ toData' = Append(toData, x)
  BY <1>2 DEF Commands
<1> HIDE DEF x
<1>4. Head(toData') = x
  BY <1>1, <1>3, Appended DEF QueueType
<1>5. Asked(Head(toData))'
  <2>1. ASSUME k = "free" PROVE of \notin Held' /\ live' \in {Held', Held' \cup {of}}
    <3>1. Held' = Held \ {of}
      BY <1>1, <2>1 DEF Held
    <3> QED BY <1>1, <3>1
  <2>2. ASSUME k # "free" PROVE Held' = Held
    <3>1. of \in Held \/ of = None
      BY <1>2, <2>2 DEF Submit, Operands, Held
    <3>2. of \notin ended
      BY <3>1 DEF Held, Stocked
    <3> QED BY <1>1, <2>2, <3>2 DEF Held
  <2>3. /\ k \in Owning => id' # None /\ id' \notin given'
        /\ k \in Reusing => of \in Held'
    BY <1>1, <1>2, <2>2 DEF Stocked, Owning, Reusing, TypeOK, None
  <2>4. k \notin Cleanup => live' = Held'
    BY <1>1, <2>2 DEF Cleanup
  <2> QED BY <1>1, <1>3, <1>4, <2>1, <2>3, <2>4 DEF Asked
<1>6. None \notin given' /\ \A s \in given' : s < next'
  BY <1>1, <1>2 DEF Stocked, TypeOK
<1> QED BY <1>1, <1>5, <1>6 DEF Stocked

\* Main frees what a cancelled request made, and hands over what another made.
LEMMA ConcludeStocked ==
  ASSUME TypeOK, QueueType, WorkInv, Stocked, dpc # "dead", pc \in {"answered", "awaiting"}, Conclude,
         UNCHANGED <<created, replies, dataVars>>
  PROVE  Stocked'
<1>1. /\ toData = <<>> /\ replies = <<>> /\ dpc = "idle" /\ created \notin ended /\ created < next
      /\ kind # "close" => live = Held \cup ({created} \ {None})
      /\ created \in Nat /\ next \in Nat /\ UNCHANGED <<live, dpc>>
  BY DEF WorkInv, Stocked, TypeOK, dataVars
<1>2. CASE cancelled /\ created # None
  <2>1. /\ pc' = "cleaning" /\ kind' = "free" /\ next' = next + 1 /\ given' = given
        /\ ended' = ended \cup ({created} \cap given)
        /\ toData' = Append(toData, [id |-> next, kind |-> "free", of |-> created])
    BY <1>2 DEF Conclude
  <2> DEFINE x == [id |-> next, kind |-> "free", of |-> created]
  <2>2. x.kind = "free" /\ x.of = created /\ x \in Commands /\ toData' = Append(toData, x)
    BY <1>1, <2>1 DEF Commands, Kinds, Cleanup
  <2> HIDE DEF x
  <2>3. Head(toData') = x
    BY <1>1, <2>2, Appended DEF QueueType
  <2>4. kind # "close"
    BY <1>2 DEF Stocked, Cleanup
  <2>5. Asked(Head(toData))'
    BY <1>1, <1>2, <2>1, <2>2, <2>3, <2>4 DEF Asked, Held, Owning, Reusing, Cleanup
  <2>6. \A s \in given' : s < next'
    BY <1>1, <2>1 DEF Stocked, TypeOK
  <2> QED BY <1>1, <2>1, <2>5, <2>6 DEF Stocked, Held
<1>3. CASE ~ (cancelled /\ created # None)
  <2>1. /\ pc' = (IF kind = "close" THEN "closed" ELSE "idle")
        /\ given' = (IF created # None THEN given \cup {created} ELSE given)
        /\ UNCHANGED <<next, kind, toData, ended>>
    BY <1>3 DEF Conclude
  <2> QED BY <1>1, <2>1 DEF Stocked, Held
<1> QED BY <1>2, <1>3

LEMMA AnswerStocked ==
  ASSUME TypeOK, QueueType, WorkInv, Stocked, reusable', Answer
  PROVE  Stocked'
<1>1. /\ pc \in {"running", "cleaning"} /\ Head(replies).id = id /\ toData = <<>> /\ dpc \in {"idle", "dead"}
      /\ Told(Head(replies)) /\ replies' = <<>>
      /\ UNCHANGED <<kind, next, given, ended, live, dpc, toData>>
  BY ReplyTaken DEF Answer, WorkInv, Stocked, dataVars
<1>2. CASE pc = "running"
  <2>1. pc' = "answered" /\ created' = Head(replies).made /\ Head(replies).reusable
    BY <1>1, <1>2 DEF Answer
  <2> QED BY <1>1, <2>1 DEF Stocked, Told, Held
<1>3. CASE pc = "cleaning"
  <2>1. pc' = "idle" /\ Head(replies).ok
    BY <1>1, <1>3 DEF Answer
  <2>2. live = Held
    BY <1>1, <1>3, <2>1 DEF Stocked, Told, Held, Cleanup
  <2> QED BY <1>1, <2>1, <2>2 DEF Stocked, Held
<1> QED BY <1>1, <1>2, <1>3

\* What no step of the control worker, and none that ends main's trust, can disturb
LEMMA StockedKept ==
  ASSUME TypeOK, QueueType, FreshInv, WorkInv, Stocked, reusable', dpc # "dead", dpc' # "dead", Next
  PROVE  Stocked'
<1>1. ASSUME NEW k \in Kinds, NEW of \in Operands(k), Submit(k, of) PROVE Stocked'
  BY <1>1, SubmitStocked
<1>2. ASSUME NEW k \in Kinds, SubmitLate(k) PROVE Stocked'
  <2>1. /\ pc = "idle" /\ pc' = "answered" /\ created' = None /\ next' = next + 1
        /\ UNCHANGED <<given, ended, live>>
    BY <1>2, OdbcAssumption DEF SubmitLate, Accepts, TakeId, TypeOK, dataVars
  <2> QED BY <2>1 DEF Stocked, Held, TypeOK, None
<1>3. CASE CloseWithout
  BY <1>3 DEF CloseWithout, Stocked, Held, dataVars
<1>4. CASE Fire
  <2>1. UNCHANGED <<pc, id, kind, created, next, given, ended, toData, replies, dataVars>>
    BY <1>4 DEF Fire
  <2> QED BY <2>1 DEF Stocked, Asked, Working, Told, Held, dataVars
<1>5. CASE Settle
  <2>1. CASE Conclude
    BY <1>5, <2>1, ConcludeStocked DEF Settle
  <2>2. CASE pc' = "awaiting" /\ UNCHANGED <<id, next, kind, given, ended, toData>>
    BY <1>5, <2>2 DEF Settle, Stocked, Held, dataVars
  <2> QED BY <1>5, <2>1, <2>2 DEF Settle
<1>6. CASE Answer
  BY <1>6, AnswerStocked
<1>7. CASE Acknowledged
  <2>1. CASE pc = "awaiting" /\ Conclude
    BY <1>7, <2>1, ConcludeStocked DEF Acknowledged
  <2>2. CASE UNCHANGED <<pc, id, next, kind, given, ended, toData>>
    <3>1. UNCHANGED <<created, replies, dataVars>>
      BY <1>7 DEF Acknowledged
    <3> QED BY <2>2, <3>1 DEF Stocked, Asked, Working, Told, Held, dataVars
  <2> QED BY <1>7, <2>1, <2>2 DEF Acknowledged
<1>8. ASSUME NEW w \in {"data", "control"}, Failed(w) PROVE Stocked'
  BY <1>8 DEF Failed
<1>9. CASE Take
  BY <1>9, TakeStocked
<1>10. CASE Publish \/ Enter \/ Begin \/ BeginRefused \/ NativeReturns \/ Drained \/ CallOver
            \/ BetweenFails
  <2>1. /\ dpc \notin {"idle", "dead", "freeing", "freed"} /\ dpc' \notin {"idle", "freeing", "freed"}
        /\ UNCHANGED <<mainVars, toData, replies, cmd, stmt, live>>
    BY <1>10 DEF Publish, Enter, Begin, BeginRefused, NativeReturns, Drained, CallOver,
       BetweenFails, DataStep
  <2>2. kind \notin Cleanup
    BY <2>1, AtWork DEF Working
  <2> QED BY <2>1, <2>2, GoesOn
<1>11. CASE Finish
  BY <1>11, FinishStocked
<1>12. CASE Fail
  BY <1>12, FailStocked
<1>13. CASE FreeRefused
  BY <1>13, FreeRefusedStocked
<1>14. CASE FreeChecked
  <2>1. dpc = "freeing" /\ dpc' = "freed" /\ UNCHANGED <<mainVars, toData, replies, cmd, stmt, live, ok>>
    BY <1>14 DEF FreeChecked, DataStep
  <2>2. kind \notin Reusing
    BY <2>1, AtWork DEF Working
  <2> QED BY <2>1, <2>2, GoesOn
<1>15. CASE Free
  BY <1>15, FreeStocked
<1>16. CASE DataDies
  BY <1>16 DEF DataDies
<1>17. CASE Control \/ ControlDies
  <2>1. ControlStep
    BY <1>17 DEF Control, ControlDies, TakeCancel, Look, Borrow, Recheck, CancelReturns, Return,
       StoreAck, Notify
  <2>2. UNCHANGED <<mainVars, toData, replies, dataVars>>
    BY <2>1 DEF ControlStep
  <2> QED BY <2>2 DEF Stocked, Asked, Working, Told, Held, mainVars, dataVars
<1> QED BY <1>1, <1>2, <1>3, <1>4, <1>5, <1>6, <1>7, <1>8, <1>9, <1>10, <1>11, <1>12, <1>13,
   <1>14, <1>15, <1>16, <1>17 DEF Next, Main, Data

\* The reply to a command that has failed on a connection that is not usable
LEMMA SpoiltReply ==
  ASSUME TypeOK, QueueType, WorkInv, dpc \notin {"idle", "dead"}, NEW fit \in BOOLEAN, ~ fit,
         Reply(FALSE, None, fit)
  PROVE  replies' # <<>> /\ ~ Head(replies').ok /\ ~ Head(replies').reusable
<1> DEFINE x == [id |-> cmd.id, ok |-> FALSE, made |-> None, reusable |-> FALSE \/ fit]
<1>1. ~ x.ok /\ ~ x.reusable /\ x \in Replies
  BY DEF Replies, TypeOK, None
<1>2. replies' = Append(replies, x) /\ replies = <<>>
  BY DEF Reply, WorkInv
<1> HIDE DEF x
<1> QED BY <1>1, <1>2, Appended DEF QueueType

\* A data worker that leaves a native call under a cancellation has been told that the
\* control worker failed; it spoils the answer, and main gives the connection up.
LEMMA SpoiltKept ==
  ASSUME TypeOK, QueueType, BorrowInv, PhaseInv, WorkInv, SpoiltInv, Stocked, reusable',
         dpc # "dead", dpc' # "dead", Next
  PROVE  SpoiltInv'
<1> SUFFICES ASSUME cpc' = "cancelling"
             PROVE  \/ dpc' \in {"entering", "native", "draining"}
                    \/ controlFailure' /\ dpc' = "acking"
                    \/ dpc' \in {"failing", "freeing"} /\ ~ dReusable'
                    \/ replies' # <<>> /\ ~ Head(replies').ok /\ ~ Head(replies').reusable
  BY DEF SpoiltInv
<1>1. CASE Control \/ ControlDies
  <2>1. CASE Recheck
    <3>1. phase = "native" /\ UNCHANGED dpc
      BY <2>1 DEF Recheck, StillNative, ControlStep, dataVars
    <3> QED BY <3>1 DEF PhaseInv, TypeOK
  <2>2. CASE ~ Recheck
    BY <1>1, <2>2 DEF Control, ControlDies, TakeCancel, Look, Borrow, CancelReturns, Return, StoreAck, Notify
  <2> QED BY <2>1, <2>2
<1>2. CASE ~ (Control \/ ControlDies)
  <2>1. cpc = "cancelling"
    <3>1. ASSUME NEW k \in Kinds, NEW of \in Operands(k), Submit(k, of) PROVE UNCHANGED controlVars
      BY <3>1 DEF Submit
    <3>2. ASSUME NEW k \in Kinds, SubmitLate(k) PROVE UNCHANGED controlVars
      BY <3>2 DEF SubmitLate
    <3>3. CASE CloseWithout \/ Fire \/ Settle \/ Answer \/ Acknowledged
      BY <3>3 DEF CloseWithout, Fire, Settle, Answer, Acknowledged, controlVars
    <3>4. ASSUME NEW w \in {"data", "control"}, Failed(w) PROVE UNCHANGED controlVars
      BY <3>4 DEF Failed
    <3>5. CASE Data \/ DataDies
      <4>1. DataStep
        BY <3>5 DEF Data, DataDies, Take, Publish, Enter, Begin, BeginRefused, NativeReturns, Drained,
           CallOver, BetweenFails, Finish, Fail, FreeRefused, FreeChecked, Free
      <4> QED BY <4>1 DEF DataStep, controlVars
    <3> QED BY <1>2, <3>1, <3>2, <3>3, <3>4, <3>5 DEF Next, Main, controlVars
  <2>2. borrows = 1 /\ dpc # "freed" /\ Unsettled
    BY <2>1 DEF BorrowInv, Borrowing, PhaseInv, Unsettled
  <2>3. \/ dpc \in {"entering", "native", "draining"}
        \/ controlFailure /\ dpc = "acking"
        \/ dpc \in {"failing", "freeing"} /\ ~ dReusable
        \/ replies # <<>> /\ ~ Head(replies).ok /\ ~ Head(replies).reusable /\ dpc = "idle"
    BY <2>1 DEF SpoiltInv, WorkInv
  <2>4. ASSUME UNCHANGED <<dpc, dReusable, replies>>, controlFailure => controlFailure'
        PROVE  \/ dpc' \in {"entering", "native", "draining"}
               \/ controlFailure' /\ dpc' = "acking"
               \/ dpc' \in {"failing", "freeing"} /\ ~ dReusable'
               \/ replies' # <<>> /\ ~ Head(replies').ok /\ ~ Head(replies').reusable
    BY <2>3, <2>4
  <2>5. CASE ~ Data /\ ~ DataDies /\ ~ Answer
    <3>1. UNCHANGED <<dpc, dReusable, replies>> /\ (controlFailure => controlFailure')
      <4>1. ASSUME NEW k \in Kinds, NEW of \in Operands(k), Submit(k, of)
            PROVE  UNCHANGED <<dataVars, replies>>
        BY <4>1 DEF Submit
      <4>2. ASSUME NEW k \in Kinds, SubmitLate(k) PROVE UNCHANGED <<dataVars, replies>>
        BY <4>2 DEF SubmitLate
      <4>3. ASSUME CloseWithout \/ Fire \/ Settle \/ Acknowledged PROVE UNCHANGED <<dataVars, replies>>
        BY <4>3 DEF CloseWithout, Fire, Settle, Acknowledged, dataVars
      <4>4. ASSUME NEW w \in {"data", "control"}, Failed(w) PROVE UNCHANGED <<dataVars, replies>>
        BY <4>4 DEF Failed
      <4>5. UNCHANGED <<dataVars, replies>>
        BY <1>2, <2>5, <4>1, <4>2, <4>3, <4>4 DEF Next, Main
      <4> QED BY <4>5, Lasting DEF dataVars
    <3> QED BY <2>4, <3>1
  <2>6. CASE Answer
    <3>1. /\ Head(replies).id = id /\ pc \in {"running", "cleaning"} /\ UNCHANGED <<dpc, dReusable, controlFailure>>
          /\ replies # <<>> /\ dpc = "idle"
      BY <2>6 DEF Answer, WorkInv, dataVars, wordVars
    <3>2. ~ Head(replies).ok /\ ~ Head(replies).reusable
      BY <2>3, <3>1
    <3> QED BY <2>6, <3>1, <3>2 DEF Answer
  <2>7. CASE Data \/ DataDies
    <3>1. replies = <<>> \/ dpc = "idle"
      BY DEF WorkInv
    <3>2. dpc \in {"entering", "native", "draining", "acking", "failing", "freeing"} \/ (dpc = "idle" /\ toData = <<>>)
      BY <2>3 DEF WorkInv
    <3>3. CASE Take \/ Publish \/ Enter \/ BetweenFails \/ Finish \/ FreeChecked \/ Free \/ DataDies
      BY <2>2, <3>2, <3>3 DEF Take, Publish, Enter, BetweenFails, Finish, FreeChecked, Free, DataDies
    <3>4. CASE Begin \/ BeginRefused \/ NativeReturns
      BY <3>4 DEF Begin, BeginRefused, NativeReturns
    <3>5. CASE Drained
      BY <2>2, <3>5 DEF Drained, NoBorrower, DataStep
    <3>6. CASE CallOver
      <4>1. controlFailure
        BY <2>3, <3>1, <3>6 DEF CallOver
      <4> QED BY <3>6, <4>1 DEF CallOver, Active
    <3>7. CASE Fail
      <4>1. ~ dReusable /\ UNCHANGED dReusable /\ dpc = "failing" /\ dReusable \in BOOLEAN
        BY <2>3, <3>1, <3>7 DEF Fail, TypeOK
      <4>2. CASE dpc' = "freeing"
        BY <4>1, <4>2
      <4>3. CASE Reply(FALSE, None, dReusable)
        BY <4>1, <4>3, SpoiltReply
      <4> QED BY <3>7, <4>2, <4>3 DEF Fail
    <3>8. CASE FreeRefused
      <4>1. Reply(FALSE, None, FALSE) /\ dpc = "freeing"
        BY <3>8 DEF FreeRefused
      <4> QED BY <4>1, SpoiltReply
    <3> QED BY <2>7, <3>3, <3>4, <3>5, <3>6, <3>7, <3>8 DEF Data
  <2> QED BY <2>5, <2>6, <2>7
<1> QED BY <1>1, <1>2

-------------------------------------------------------------------------------
(* The invariant *)

IInv == TypeOK /\ QueueType /\ FreshInv /\ BorrowInv /\ PhaseInv /\ OrderInv /\ HeldInv

LEMMA InitIInv == Init => IInv
<1> SUFFICES ASSUME Init PROVE IInv
  OBVIOUS
<1>1. TypeOK
  <2>1. Booleans
    BY DEF Init, Booleans
  <2>2. Others
    BY OdbcAssumption DEF Init, Others, Kinds, Cleanup, Owning, Reusing, None
  <2> QED BY <2>1, <2>2, TypeParts
<1>2. QueueType
  BY EmptySeq DEF Init, QueueType
<1>3. FreshInv /\ BorrowInv /\ PhaseInv
  BY DEF Init, FreshInv, BorrowInv, Borrowing, PhaseInv
<1>4. WorkInv /\ CancelInv
  BY DEF Init, WorkInv, CancelInv, Waiting, Busy
<1>5. OrderInv
  BY <1>4 DEF Init, OrderInv
<1>6. HeldInv
  BY DEF Init, HeldInv, Stocked, Held, SpoiltInv, None
<1> QED BY <1>1, <1>2, <1>3, <1>5, <1>6 DEF IInv

LEMMA StepKeeps == ASSUME IInv, Next PROVE IInv'
<1> USE DEF IInv
<1>1. TypeOK'
  <2>1. Booleans' /\ Others'
    BY TypeParts, DataKept, BooleansKept
  <2>2. Booleans' /\ Others' => TypeOK'
    BY DEF Booleans, Others, TypeOK
  <2> QED BY <2>1, <2>2
<1>2. QueueType' /\ FreshInv' /\ BorrowInv' /\ PhaseInv'
  BY FreshKept, PhaseKept, PortsKept
<1>3. OrderInv'
  <2>1. reusable' \/ ~ controlFailure' => seen' = {}
    BY Lasting DEF OrderInv, TypeOK
  <2>2. ASSUME seen' = {} PROVE WorkInv'
    BY <2>2, Lasting, WorkKept DEF OrderInv
  <2>3. ASSUME ~ controlFailure', cpc' # "dead" PROVE CancelInv'
    BY <2>3, Lasting, CancelsKept DEF OrderInv
  <2> QED BY <2>1, <2>2, <2>3 DEF OrderInv
<1>4. HeldInv'
  <2> SUFFICES ASSUME reusable', dpc' # "dead" PROVE Stocked' /\ SpoiltInv'
    BY DEF HeldInv
  <2>1. reusable /\ dpc # "dead"
    BY Lasting
  <2>2. seen = {} /\ WorkInv /\ Stocked /\ SpoiltInv
    BY <2>1 DEF OrderInv, HeldInv
  <2> QED BY <2>1, <2>2, StockedKept, SpoiltKept
<1> QED BY <1>1, <1>2, <1>3, <1>4

LEMMA StutterKeeps == ASSUME IInv, UNCHANGED vars PROVE IInv'
<1> USE DEF vars, mainVars, wordVars, dataVars, controlVars
<1>1. TypeOK' /\ QueueType'
  BY DEF IInv, TypeOK, QueueType
<1>2. FreshInv' /\ BorrowInv' /\ PhaseInv'
  BY DEF IInv, FreshInv, BorrowInv, PhaseInv
<1>3. OrderInv'
  BY DEF IInv, OrderInv, WorkInv, CancelInv, Waiting
<1>4. HeldInv'
  BY DEF IInv, HeldInv, Held, Stocked, SpoiltInv, Asked, Working, Told
<1> QED BY <1>1, <1>2, <1>3, <1>4 DEF IInv

LEMMA Inductive == Spec => []IInv
<1>1. IInv /\ [Next]_vars => IInv'
  BY StepKeeps, StutterKeeps
<1> QED BY InitIInv, <1>1, PTL DEF Spec

-------------------------------------------------------------------------------
\* The state of the three threads and of the shared words keeps its type; the count
\* of the borrows never leaves 0 and 1 (odbc-worker.ts:27-34).
THEOREM TypeCorrect == Spec => []TypeOK
<1>1. IInv => TypeOK
  BY DEF IInv
<1> QED BY Inductive, <1>1, PTL

\* SQLCancelHandle is called for a statement that is allocated, and, unless a worker
\* has failed, inside the native call of the request that was cancelled
\* (odbc-worker.ts:25-34 against odbc-native.ts:183-203).
THEOREM CancelHits == Spec => []CancelHitsItsOwn
<1>1. IInv => CancelHitsItsOwn
  BY DEF IInv, PhaseInv, OrderInv, CancelInv, CancelHitsItsOwn
<1> QED BY Inductive, <1>1, PTL

\* No native call of an acknowledged request runs or begins (odbc-native.ts:191).
THEOREM AcknowledgedOver == Spec => []AcknowledgedIsOver
<1>1. IInv => AcknowledgedIsOver
  BY DEF IInv, OrderInv, CancelInv, AcknowledgedIsOver
<1> QED BY Inductive, <1>1, PTL

\* A connection that main would use again has no thread in the driver, and the statements
\* allocated there are the ones that callers hold: whatever a cancelled or failed request
\* made has been freed, and of the statements a caller had before, only those under a
\* stream it has closed (odbc-transport.ts:157-186, odbc-session.ts:254-301).
THEOREM NothingOrphaned == Spec => []NoOrphans
<1>1. IInv => NoOrphans
  <2> SUFFICES ASSUME IInv, pc = "idle", reusable, dpc # "dead"
               PROVE  dpc = "idle" /\ cpc # "cancelling" /\ live = given \ ended
    BY DEF NoOrphans
  <2>1. WorkInv /\ Stocked /\ SpoiltInv
    BY DEF IInv, OrderInv, HeldInv
  <2> QED BY <2>1 DEF WorkInv, Stocked, Held, SpoiltInv
<1> QED BY Inductive, <1>1, PTL

===============================================================================
