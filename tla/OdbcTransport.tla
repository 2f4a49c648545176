---------------------------- MODULE OdbcTransport ----------------------------
(***************************************************************************)
(* The direct ODBC connection of the SQL Server adapter                    *)
(* (packages/sqlserver/src/odbc-transport.ts, odbc-worker.ts,              *)
(* odbc-native.ts, odbc-session.ts): three threads and one block of shared *)
(* words.  The main thread posts one command at a time to the data worker, *)
(* which runs it as a series of blocking native calls.  A cancellation     *)
(* goes to the control worker, which calls SQLCancelHandle on the          *)
(* statement that the shared words name, while the data worker is inside   *)
(* a native call.  Statements are freed by the data worker.                *)
(*                                                                         *)
(* A request is one of "execute" (a statement of its own, freed before the *)
(* answer), "prepare" (also a streamStart without a handle: a statement is *)
(* kept and its handle answered), "stream" (streamStart on a statement     *)
(* that the caller has prepared: the answer names that one again), "use"   *)
(* (preparedExecute, streamNext), "free" (freePrepared, streamClose) and   *)
(* "close".  A statement, its native handle and the number main knows it   *)
(* by are the id of the request that made it.  The lock of an open cursor  *)
(* is left out: main has no request but the one in hand.                   *)
(***************************************************************************)
EXTENDS Integers, Sequences, FiniteSets

CONSTANTS
  MaxId,          \* 0x7fffffff: the epochs end here, clean-up goes on with id 0
  MaxNative,      \* bound: native calls of one command
  Mortal,         \* the workers that may exit on their own: {"data", "control"}
  ExitSeenWhile   \* where main may be when the data worker's exit reaches it

ASSUME OdbcAssumption ==
  /\ MaxId \in Nat \ {0} /\ MaxNative \in Nat \ {0}
  /\ Mortal \subseteq {"data", "control"}

None == 0
Cleanup == {"free", "close"}
Owning == {"execute", "prepare"}
Reusing == {"stream", "use"}
Kinds == Cleanup \cup Owning \cup Reusing

VARIABLES
  \* the main thread
  pc,             \* "idle", "running", "answered", "awaiting", "cleaning", "closed"
  id, kind,       \* the request in hand, or its clean-up
  cancelled,      \* the signal or the deadline fired
  created,        \* the statement in the answer
  next,           \* nextId
  reusable,
  given,          \* the statements whose handle a caller has
  ended,          \* those of them that were freed under a stream the caller has closed
  seen,           \* the workers whose exit was reported
  \* the ports
  toData, toControl, replies, acks,
  \* the shared words
  phase, epoch, handle, borrows, cancel, ack, cancelFailure, controlFailure,
  \* the data worker
  dpc, cmd, stmt, calls, ok, dReusable,
  live,           \* the statements that are allocated in the driver
  \* the control worker
  cpc, target

mainVars == <<pc, id, kind, cancelled, created, next, reusable, given, ended, seen>>
wordVars == <<phase, epoch, handle, borrows, cancel, ack, cancelFailure, controlFailure>>
dataVars == <<dpc, cmd, stmt, calls, ok, dReusable, live>>
controlVars == <<cpc, target>>
vars == <<mainVars, toData, toControl, replies, acks, wordVars, dataVars, controlVars>>

Init ==
  /\ pc = "idle" /\ id = 0 /\ kind = "execute" /\ cancelled = FALSE /\ created = None
  /\ next = 1 /\ reusable = TRUE
  /\ given = {} /\ ended = {} /\ seen = {}
  /\ toData = <<>> /\ toControl = <<>> /\ replies = <<>> /\ acks = <<>>
  /\ phase = "idle" /\ epoch = 0 /\ handle = None /\ borrows = 0 /\ cancel = 0 /\ ack = 0
  /\ cancelFailure = FALSE /\ controlFailure = FALSE
  /\ dpc = "idle" /\ cmd = [id |-> 0, kind |-> "execute", of |-> None]
  /\ stmt = None /\ calls = 0 /\ ok = TRUE /\ dReusable = TRUE /\ live = {}
  /\ cpc = "idle" /\ target = 0

-------------------------------------------------------------------------------
(* The main thread: request(), inside runControlledExecution *)

\* The checks of request(); a request that fails them changes nothing.
Accepts(k) ==
  /\ pc = "idle" /\ "data" \notin seen
  /\ k \in Cleanup \/ (reusable /\ next < MaxId)

\* Only the close of a stream cancels its streamStart, and a stream that is closed
\* asks for nothing more of its statement than streamClose.
Operands(k) == CASE k \in Reusing -> given \ ended
                 [] k = "free"    -> given
                 [] OTHER         -> {None}

TakeId ==
  /\ id' = IF next >= MaxId THEN 0 ELSE next
  /\ next' = IF next >= MaxId THEN next ELSE next + 1

\* cancel() of request(): the word first, then the message
RequestCancel(e) ==
  /\ cancelled' = TRUE
  /\ cancel' = e
  /\ toControl' = Append(toControl, e)

WordsButCancel ==
  UNCHANGED <<phase, epoch, handle, borrows, ack, cancelFailure, controlFailure>>

\* A caller gives its handle up before it asks for the clean-up.
Submit(k, of) ==
  /\ Accepts(k) /\ of \in Operands(k)
  /\ TakeId
  /\ kind' = k /\ created' = None
  /\ given' = IF k = "free" THEN given \ {of} ELSE given
  /\ ended' = ended \ {of}
  /\ pc' = "running" /\ cancelled' = FALSE
  /\ toData' = Append(toData, [id |-> id', kind |-> k, of |-> of])
  /\ UNCHANGED <<reusable, seen, toControl, replies, acks, wordVars, dataVars, controlVars>>

\* The deadline passes between the check and the dispatch: cancelled and never sent.
SubmitLate(k) ==
  /\ Accepts(k) /\ k \notin Cleanup /\ Operands(k) # {}
  /\ TakeId
  /\ kind' = k /\ created' = None
  /\ pc' = "answered"
  /\ RequestCancel(id')
  /\ WordsButCancel
  /\ UNCHANGED <<reusable, given, ended, seen, toData, replies, acks, dataVars, controlVars>>

\* close() of a transport whose data worker is gone
CloseWithout ==
  /\ pc = "idle" /\ "data" \in seen
  /\ pc' = "closed"
  /\ UNCHANGED <<id, kind, cancelled, created, next, reusable, given, ended, seen,
                 toData, toControl, replies, acks, wordVars, dataVars, controlVars>>

\* The alarm: also once the answer is in and the caller has not been resumed.
Fire ==
  /\ pc \in {"running", "answered"} /\ ~ cancelled /\ kind \notin Cleanup
  /\ RequestCancel(id)
  /\ WordsButCancel
  /\ UNCHANGED <<pc, id, kind, created, next, reusable, given, ended, seen,
                 toData, replies, acks, dataVars, controlVars>>

\* Variant: the statement of a cancelled request is forgotten.
Conclude_Forgets ==
  /\ pc' = IF kind = "close" THEN "closed" ELSE "idle"
  /\ given' = IF created # None /\ ~ cancelled THEN given \cup {created} ELSE given
  /\ UNCHANGED <<id, next, kind, toData, ended>>

\* The end of request(), once no acknowledgement is owed.  The statement that the
\* answer to a cancelled request names is freed, also when it is one that the caller
\* had prepared before and whose handle it keeps.  The id of the clean-up skips the
\* check for the end of the epochs; nothing looks whether the data worker is alive.
Conclude ==
  \/ /\ cancelled /\ created # None
     /\ pc' = "cleaning" /\ id' = next /\ next' = next + 1 /\ kind' = "free"
     /\ toData' = Append(toData, [id |-> next, kind |-> "free", of |-> created])
     /\ ended' = ended \cup ({created} \cap given)
     /\ UNCHANGED given
  \/ /\ ~ (cancelled /\ created # None)
     /\ pc' = IF kind = "close" THEN "closed" ELSE "idle"
     /\ given' = IF created # None THEN given \cup {created} ELSE given
     /\ UNCHANGED <<id, next, kind, toData, ended>>

AckOwed == cancel = id /\ ack # id /\ ~ controlFailure

\* The promise of the operation has settled: runControlledExecution leaves, and
\* the finally of request() begins.
Settle ==
  /\ pc = "answered"
  /\ \/ /\ AckOwed
        /\ pc' = "awaiting"
        /\ UNCHANGED <<id, next, kind, given, ended, toData>>
     \/ ~ AckOwed /\ Conclude
  /\ UNCHANGED <<cancelled, created, reusable, seen, toControl, replies, acks,
                 wordVars, dataVars, controlVars>>

\* A message of the data worker; one that answers no pending request is dropped.
Answer ==
  /\ pc # "answered" /\ replies # <<>>
  /\ replies' = Tail(replies)
  /\ LET m == Head(replies) IN
       \/ /\ pc = "running" /\ m.id = id
          /\ pc' = "answered" /\ created' = m.made
          /\ reusable' = (reusable /\ m.reusable)
       \/ /\ pc = "cleaning" /\ m.id = id
          /\ pc' = "idle" /\ reusable' = (reusable /\ m.ok)
          /\ UNCHANGED created
       \/ /\ ~ (pc \in {"running", "cleaning"} /\ m.id = id)
          /\ UNCHANGED <<pc, created, reusable>>
  /\ UNCHANGED <<id, kind, cancelled, next, given, ended, seen, toData, toControl, acks,
                 wordVars, dataVars, controlVars>>

Acknowledged ==
  /\ pc # "answered" /\ acks # <<>>
  /\ acks' = Tail(acks)
  /\ reusable' = (reusable /\ ~ Head(acks).failed)
  /\ \/ pc = "awaiting" /\ Head(acks).epoch = id /\ Conclude
     \/ /\ ~ (pc = "awaiting" /\ Head(acks).epoch = id)
        /\ UNCHANGED <<pc, id, next, kind, given, ended, toData>>
  /\ UNCHANGED <<cancelled, created, seen, toControl, replies, wordVars, dataVars, controlVars>>

\* failed(): the exit of a worker reaches main, after the messages it had posted.
Failed(worker) ==
  /\ pc \notin {"answered", "closed"} /\ worker \notin seen
  /\ IF worker = "data" THEN dpc = "dead" /\ replies = <<>> /\ pc \in ExitSeenWhile
                        ELSE cpc = "dead" /\ acks = <<>>
  /\ seen' = seen \cup {worker}
  /\ reusable' = FALSE /\ controlFailure' = TRUE
  /\ \/ /\ pc = "running" /\ pc' = "answered"
        /\ UNCHANGED <<id, next, kind, given, ended, toData>>
     \/ /\ pc \in {"idle", "cleaning"} /\ pc' = "idle"
        /\ UNCHANGED <<id, next, kind, given, ended, toData>>
     \/ pc = "awaiting" /\ Conclude
  /\ UNCHANGED <<cancelled, created, toControl, replies, acks, phase, epoch, handle, borrows,
                 cancel, ack, cancelFailure, dataVars, controlVars>>

-------------------------------------------------------------------------------
(* The data worker: OdbcSession.command and OdbcNative.call *)

\* The data worker touches nothing of the other threads but the words it names.
DataStep ==
  UNCHANGED <<mainVars, toControl, acks, borrows, cancel, ack, cancelFailure, controlFailure, controlVars>>
Published == <<phase, epoch, handle>>

Cancelled == cmd.id # 0 /\ cancel = cmd.id

\* assertActive
Active == ~ Cancelled /\ ~ controlFailure

Reply(okay, made, fit) ==
  /\ replies' = Append(replies, [id |-> cmd.id, ok |-> okay, made |-> made, reusable |-> okay \/ fit])
  /\ dpc' = "idle"

Quarantined == ~ dReusable

\* The handle of a statement that was freed is unknown to the session.
Unknown(c) == c.of \notin live

\* The command is answered at once, without a native call.
AnswerAtOnce(c, okay) ==
  /\ replies' = Append(replies, [id |-> c.id, ok |-> okay, made |-> None,
                                 reusable |-> okay \/ ~ Quarantined])
  /\ UNCHANGED <<dpc, stmt, live, ok>>

Take ==
  /\ dpc = "idle" /\ toData # <<>>
  /\ toData' = Tail(toData)
  /\ cmd' = Head(toData) /\ calls' = 0
  /\ LET c == Head(toData) IN
       \/ /\ c.kind \notin Cleanup /\ (Quarantined \/ (c.kind \in Reusing /\ Unknown(c)))
          /\ AnswerAtOnce(c, FALSE)
       \/ /\ c.kind \in Owning /\ ~ Quarantined
          /\ stmt' = c.id /\ live' = live \cup {c.id}
          /\ dpc' = "between" /\ ok' = TRUE
          /\ UNCHANGED replies
       \/ /\ c.kind \in Reusing /\ ~ Quarantined /\ ~ Unknown(c)
          /\ stmt' = c.of
          /\ dpc' = "between" /\ ok' = TRUE
          /\ UNCHANGED <<live, replies>>
       \/ c.kind = "free" /\ Unknown(c) /\ AnswerAtOnce(c, TRUE)
       \/ /\ c.kind = "close" \/ (c.kind = "free" /\ ~ Unknown(c))
          /\ stmt' = c.of
          /\ dpc' = "freeing" /\ ok' = TRUE
          /\ UNCHANGED <<live, replies>>
  /\ UNCHANGED <<dReusable, Published>> /\ DataStep

\* OdbcNative.call up to the native function: check, name the statement and the
\* epoch, raise the phase, check again.
Publish ==
  /\ dpc = "between" /\ calls < MaxNative /\ Active
  /\ handle' = stmt /\ epoch' = cmd.id /\ calls' = calls + 1
  /\ dpc' = "publishing"
  /\ UNCHANGED <<toData, replies, phase, cmd, stmt, ok, dReusable, live>> /\ DataStep

Enter ==
  /\ dpc = "publishing"
  /\ phase' = "native" /\ dpc' = "entering"
  /\ UNCHANGED <<toData, replies, epoch, handle, cmd, stmt, calls, ok, dReusable, live>> /\ DataStep

\* Variant: the check after the phase was raised is dropped.
MayBegin_Unchecked == TRUE

MayBegin == Active

Begin ==
  /\ dpc = "entering" /\ MayBegin
  /\ dpc' = "native"
  /\ UNCHANGED <<toData, replies, Published, cmd, stmt, calls, ok, dReusable, live>> /\ DataStep

BeginRefused ==
  /\ dpc = "entering" /\ ~ MayBegin
  /\ dpc' = "draining" /\ phase' = "drain" /\ ok' = FALSE
  /\ UNCHANGED <<toData, replies, epoch, handle, cmd, stmt, calls, dReusable, live>> /\ DataStep

\* The query timeout ends a native call that nothing else ends.  A connection
\* error (SQLSTATE 08) quarantines the connection.
NativeReturns ==
  /\ dpc = "native"
  /\ dpc' = "draining" /\ phase' = "drain"
  /\ ok' \in BOOLEAN
  /\ dReusable' \in {dReusable, dReusable /\ ok'}
  /\ UNCHANGED <<toData, replies, epoch, handle, cmd, stmt, calls, live>> /\ DataStep

\* Variant: the data worker does not wait for borrows.
NoBorrower_Never == TRUE

NoBorrower == borrows = 0 \/ controlFailure

Drained ==
  /\ dpc = "draining" /\ NoBorrower
  /\ dpc' = "acking"
  /\ UNCHANGED <<toData, replies, Published, cmd, stmt, calls, ok, dReusable, live>> /\ DataStep

\* Variant: the data worker waits for a control worker that has failed.
NoAckAwaited_Stubborn == ~ Cancelled \/ ack = cmd.id

NoAckAwaited == ~ Cancelled \/ ack = cmd.id \/ controlFailure

CallOver ==
  /\ dpc = "acking" /\ NoAckAwaited
  /\ phase' = "idle"
  /\ dReusable' = (dReusable /\ ~ cancelFailure /\ ~ controlFailure)
  /\ dpc' = IF ok /\ Active THEN "between" ELSE "failing"
  /\ UNCHANGED <<toData, replies, epoch, handle, cmd, stmt, calls, ok, live>> /\ DataStep

\* A check before the next call, a bound on the result or an argument
BetweenFails ==
  /\ dpc = "between"
  /\ dpc' = "failing"
  /\ dReusable' = (dReusable /\ ~ controlFailure)
  /\ UNCHANGED <<toData, replies, Published, cmd, stmt, calls, ok, live>> /\ DataStep

\* The answers that carry a handle
Answered == {"prepare", "stream"}

Finish ==
  /\ dpc = "between" /\ calls > 0
  /\ \/ /\ cmd.kind = "execute"
        /\ dpc' = "freeing" /\ UNCHANGED replies
     \/ /\ cmd.kind # "execute"
        /\ Reply(TRUE, IF cmd.kind \in Answered THEN stmt ELSE None, TRUE)
  /\ UNCHANGED <<toData, Published, cmd, stmt, calls, ok, dReusable, live>> /\ DataStep

\* destroyAfterFailure for a statement of this command, the error first
Fail ==
  /\ dpc = "failing"
  /\ ok' = FALSE
  /\ \/ cmd.kind \in Owning /\ dpc' = "freeing" /\ UNCHANGED replies
     \/ cmd.kind \notin Owning /\ Reply(FALSE, None, dReusable)
  /\ UNCHANGED <<toData, Published, cmd, stmt, calls, dReusable, live>> /\ DataStep

\* destroy() and close() refuse while a borrow is not settled.
Unsettled == borrows # 0 \/ controlFailure

FreeRefused ==
  /\ dpc = "freeing" /\ Unsettled
  /\ dReusable' = FALSE
  /\ Reply(FALSE, None, FALSE)
  /\ UNCHANGED <<toData, Published, cmd, stmt, calls, ok, live>> /\ DataStep

FreeChecked ==
  /\ dpc = "freeing" /\ ~ Unsettled
  /\ dpc' = "freed"
  /\ UNCHANGED <<toData, replies, Published, cmd, stmt, calls, ok, dReusable, live>> /\ DataStep

\* SQLFreeHandle, or the whole of close(), which ends the worker
Free ==
  /\ dpc = "freed"
  /\ \/ /\ cmd.kind = "close" /\ live' = {}
        /\ Reply(TRUE, None, TRUE)
        /\ UNCHANGED dReusable
     \/ /\ cmd.kind # "close" /\ live' = live \ {stmt}
        /\ Reply(ok, None, dReusable)
        /\ UNCHANGED dReusable
     \/ /\ dReusable' = FALSE /\ Reply(FALSE, None, FALSE)
        /\ UNCHANGED live
  /\ UNCHANGED <<toData, Published, cmd, stmt, calls, ok>> /\ DataStep

\* The worker ends on its own; a thread inside a native call cannot.
DataDies ==
  /\ "data" \in Mortal /\ dpc \notin {"native", "dead"} /\ pc # "closed"
  /\ dpc' = "dead"
  /\ UNCHANGED <<toData, replies, Published, cmd, stmt, calls, ok, dReusable, live>> /\ DataStep

-------------------------------------------------------------------------------
(* The control worker: cancelOdbcEpoch and acknowledgeOdbcCancellation *)

ControlStep ==
  UNCHANGED <<mainVars, toData, replies, Published, cancel, dataVars>>

TakeCancel ==
  /\ cpc = "idle" /\ toControl # <<>>
  /\ target' = Head(toControl) /\ toControl' = Tail(toControl)
  /\ cpc' = "look"
  /\ UNCHANGED <<acks, borrows, ack, cancelFailure, controlFailure>> /\ ControlStep

\* The loop's condition: the epoch is read first, the phase after it.
Look ==
  /\ \/ cpc = "look" /\ cpc' = IF epoch = target THEN "lookPhase" ELSE "done"
     \/ cpc = "lookPhase" /\ cpc' = IF phase = "native" THEN "borrow" ELSE "done"
  /\ UNCHANGED <<target, toControl, acks, borrows, ack, cancelFailure, controlFailure>> /\ ControlStep

Borrow ==
  /\ cpc = "borrow"
  /\ borrows' = borrows + 1 /\ cpc' = "recheck"
  /\ UNCHANGED <<target, toControl, acks, ack, cancelFailure, controlFailure>> /\ ControlStep

StillNative == phase = "native"

Recheck ==
  /\ \/ cpc = "recheck" /\ cpc' = IF epoch = target THEN "recheckPhase" ELSE "leave"
     \/ cpc = "recheckPhase" /\ cpc' = IF StillNative THEN "cancelling" ELSE "leave"
  /\ UNCHANGED <<target, toControl, acks, borrows, ack, cancelFailure, controlFailure>> /\ ControlStep

\* SQLCancelHandle returns, reports an error, or its binding throws.
CancelReturns ==
  /\ cpc = "cancelling"
  /\ \/ cpc' = "return" /\ UNCHANGED cancelFailure
     \/ cpc' = "return" /\ cancelFailure' = TRUE
     \/ cpc' = "throw" /\ UNCHANGED cancelFailure
  /\ UNCHANGED <<target, toControl, acks, borrows, ack, controlFailure>> /\ ControlStep

\* Variant: the break out of the loop drops the borrow, and the finally does it again.
Return_Twice ==
  /\ \/ cpc = "return" /\ cpc' = "look"
     \/ cpc = "leave" /\ cpc' = "done"
     \/ cpc = "throw" /\ cpc' = "broken"
  /\ borrows' = borrows - (IF cpc = "leave" THEN 2 ELSE 1)
  /\ UNCHANGED <<target, toControl, acks, ack, cancelFailure, controlFailure>> /\ ControlStep

\* The finally of one round
Return ==
  /\ \/ cpc = "return" /\ cpc' = "look"
     \/ cpc = "leave" /\ cpc' = "done"
     \/ cpc = "throw" /\ cpc' = "broken"
  /\ borrows' = borrows - 1
  /\ UNCHANGED <<target, toControl, acks, ack, cancelFailure, controlFailure>> /\ ControlStep

\* The finally of cancelOdbcEpoch, which a throw runs as well
StoreAck ==
  /\ \/ cpc = "done" /\ cpc' = "notify"
     \/ cpc = "broken" /\ cpc' = "fail"
  /\ ack' = target
  /\ UNCHANGED <<target, toControl, acks, borrows, cancelFailure, controlFailure>> /\ ControlStep

Notify ==
  /\ \/ cpc = "notify" /\ UNCHANGED controlFailure
     \/ cpc = "fail" /\ controlFailure' = TRUE
  /\ acks' = Append(acks, [epoch |-> target, failed |-> cpc = "fail"])
  /\ cpc' = "idle"
  /\ UNCHANGED <<target, toControl, borrows, ack, cancelFailure>> /\ ControlStep

ControlDies ==
  /\ "control" \in Mortal /\ cpc \notin {"cancelling", "dead"} /\ pc # "closed"
  /\ cpc' = "dead"
  /\ UNCHANGED <<target, toControl, acks, borrows, ack, cancelFailure, controlFailure>> /\ ControlStep

-------------------------------------------------------------------------------
Main == Settle \/ Answer \/ Acknowledged \/ Failed("data") \/ Failed("control")
Data ==
  \/ Take \/ Publish \/ Enter \/ Begin \/ BeginRefused \/ NativeReturns \/ Drained \/ CallOver
  \/ BetweenFails \/ Finish \/ Fail \/ FreeRefused \/ FreeChecked \/ Free
Control == TakeCancel \/ Look \/ Borrow \/ Recheck \/ CancelReturns \/ Return \/ StoreAck \/ Notify

Next ==
  \/ \E k \in Kinds : \E of \in Operands(k) : Submit(k, of)
  \/ \E k \in Kinds : SubmitLate(k)
  \/ CloseWithout \/ Fire
  \/ Main \/ Data \/ Control
  \/ DataDies \/ ControlDies

Spec == Init /\ [][Next]_vars

\* Three threads that keep running: main's event loop, and each worker while it
\* lives.  Every native function returns (queryTimeoutSeconds); nothing makes an
\* alarm fire, a caller ask or a worker die.
FairSpec == Spec /\ WF_vars(Main) /\ WF_vars(Data) /\ WF_vars(Control)

-------------------------------------------------------------------------------
Ids == 0 .. MaxId + 2

TypeOK ==
  /\ pc \in {"idle", "running", "answered", "awaiting", "cleaning", "closed"}
  /\ id \in Nat /\ next \in Nat \ {0} /\ kind \in Kinds /\ created \in Nat
  /\ cancelled \in BOOLEAN /\ reusable \in BOOLEAN
  /\ given \subseteq Nat /\ ended \subseteq Nat /\ live \subseteq Nat /\ seen \subseteq {"data", "control"}
  /\ phase \in {"idle", "native", "drain"}
  /\ epoch \in Nat /\ handle \in Nat /\ cancel \in Nat /\ ack \in Nat
  /\ borrows \in {0, 1}
  /\ cancelFailure \in BOOLEAN /\ controlFailure \in BOOLEAN
  /\ dpc \in {"idle", "between", "publishing", "entering", "native", "draining", "acking",
              "failing", "freeing", "freed", "dead"}
  /\ cmd \in [id : Nat, kind : Kinds, of : Nat]
  /\ stmt \in Nat /\ calls \in 0 .. MaxNative /\ ok \in BOOLEAN /\ dReusable \in BOOLEAN
  /\ cpc \in {"idle", "look", "lookPhase", "borrow", "recheck", "recheckPhase", "cancelling",
              "return", "leave", "throw", "done", "broken", "notify", "fail", "dead"}
  /\ target \in Nat

\* SQLCancelHandle runs on a statement that is allocated; and as long as the control
\* worker has not failed, it is the statement of the request to be cancelled and the
\* data worker has not left that native call (odbc-worker.ts:25-34 against
\* odbc-native.ts:183-203 and odbc-session.ts:102-110).
CancelHitsItsOwn ==
  cpc = "cancelling" =>
    /\ handle \in live
    /\ controlFailure \/ (cmd.id = target /\ stmt = handle
                           /\ dpc \in {"entering", "native", "draining", "dead"})

\* Once a cancellation has been acknowledged by a control worker in order, no
\* native call of that request runs any more, and none will begin
\* (the second assertActive of odbc-native.ts:191).
AcknowledgedIsOver ==
  (ack # 0 /\ ack = cmd.id /\ cpc \notin {"fail", "dead"} /\ ~ controlFailure) => dpc # "native"

\* A connection that main would use again has no thread inside the driver, and the
\* statements allocated in the driver are those that callers hold, but for the ones
\* of closed streams: whatever a cancelled or failed request made has been freed, and
\* no caller is left with the handle of a freed statement unless it has closed the
\* stream it had started on it (odbc-transport.ts:157-186, odbc-session.ts:254-301).
NoOrphans ==
  (pc = "idle" /\ reusable /\ dpc # "dead") =>
    /\ dpc = "idle" /\ cpc # "cancelling"
    /\ live = given \ ended

\* A request ends: the caller gets its answer and the lease of the connection
\* (busy) is released.
Settles == pc # "idle" ~> pc \in {"idle", "closed"}
===============================================================================
