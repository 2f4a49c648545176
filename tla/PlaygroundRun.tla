----------------------------- MODULE PlaygroundRun -----------------------------
(***************************************************************************)
(* One run of the development workspace: the run manager                   *)
(* (packages/playground/src/runner.ts) forks a worker process (worker.ts), *)
(* which runs one statement through the PostgreSQL target (pg.ts) or the   *)
(* author's file.  A cancellation, a deadline, an idle cursor, a crash of  *)
(* the worker and a lost connection race the statement and its COMMIT; at  *)
(* the end the manager gives the run a status.                             *)
(*                                                                         *)
(* Left out: what is checked and built before the worker is forked, the    *)
(* pages of a result and their quotas (a page may fail to be written), the *)
(* limit on closing a cursor, and the managed database of an author's file *)
(* (its code has effects of its own and ends as it likes).  The messages   *)
(* of a worker reach the manager before its exit does.                     *)
(***************************************************************************)
EXTENDS Naturals

CONSTANTS
  Modes,      \* what may be run: "read" and "write" are SQL, "file" is the author's code
  MaxPages    \* bound: pages a cursor is asked for

ASSUME PlaygroundAssumption == Modes \subseteq {"read", "write", "file"} /\ MaxPages \in Nat

VARIABLES
  mode,
  \* the run manager
  mpc,        \* "preparing", "waiting", "removing", "throwing", "idle"
  status,     \* of the run record
  aborted,    \* controller.signal of the run
  armed,      \* the deadline timer
  killDue,    \* a timer that kills the worker
  \* the messages to the worker
  sent, pulled,
  \* the worker
  wpc,        \* "none", "starting", "querying", "authoring", "closing", "reported", "left", "gone"
  wAborted,   \* its controller
  told,       \* what it told the manager
  \* query() of the target, with its lease
  tpc, error, lAborted, cancelOp, had, client, rolledBack, pages,
  \* the server: the connection, a command and its answer, the transaction, a cancel signal
  link, cmd, reply, tx, signal,
  effects     \* the author's code had effects

managerVars == <<mpc, status, aborted, armed, killDue>>
workerVars == <<wpc, wAborted, told, effects>>
leaseVars == <<lAborted, cancelOp, had>>
targetVars == <<tpc, error, client, rolledBack, pages>>
serverVars == <<link, cmd, reply, tx, signal>>
vars == <<mode, managerVars, sent, pulled, workerVars, leaseVars, targetVars, serverVars>>

Init ==
  /\ mode \in Modes
  /\ mpc = "preparing" /\ status = "checking" /\ aborted = FALSE /\ armed = FALSE /\ killDue = FALSE
  /\ sent = FALSE /\ pulled = FALSE
  /\ wpc = "none" /\ wAborted = FALSE /\ told = "nothing" /\ effects = FALSE
  /\ lAborted = FALSE /\ cancelOp = "none" /\ had = FALSE
  /\ tpc = "none" /\ error = "none" /\ client = "none" /\ rolledBack = FALSE /\ pages = 0
  /\ link = FALSE /\ cmd = "none" /\ reply = "none" /\ tx = "none" /\ signal = FALSE

Alive == wpc \notin {"none", "gone"}
Connected == Alive /\ wpc # "left"

-------------------------------------------------------------------------------
(* The run manager *)

\* Mutant: the timer that kills the worker is forgotten.
Ask_Politely ==
  /\ status' = "cancelling" /\ aborted' = TRUE
  /\ sent' = (sent \/ Connected)
  /\ UNCHANGED killDue

\* What cancel() and expire() share
Ask ==
  /\ status' = "cancelling" /\ aborted' = TRUE
  /\ sent' = (sent \/ Connected)
  /\ killDue' = TRUE

NotTheManager == UNCHANGED <<mode, pulled, workerVars, leaseVars, targetVars, serverVars>>

PrepareFails ==
  /\ mpc = "preparing"
  /\ mpc' = "throwing"
  /\ UNCHANGED <<status, aborted, armed, killDue, sent>> /\ NotTheManager

StopInTime ==
  /\ mpc = "preparing" /\ aborted
  /\ status' = "cancelled" /\ mpc' = "removing"
  /\ UNCHANGED <<aborted, armed, killDue, sent>> /\ NotTheManager

Fork ==
  /\ mpc = "preparing" /\ ~aborted
  /\ mpc' = "waiting" /\ status' = "running" /\ armed' = TRUE /\ wpc' = "starting"
  /\ UNCHANGED <<mode, aborted, killDue, sent, pulled, wAborted, told, effects,
                 leaseVars, targetVars, serverVars>>

\* cancel() has nothing to say of a run that has a status already.
Cancel ==
  /\ mpc # "idle"
  /\ Ask
  /\ UNCHANGED <<mpc, armed>> /\ NotTheManager

\* The deadline; nothing disarms it when the run ends by an "error" of the child.
Expire ==
  /\ armed /\ armed' = FALSE
  /\ Ask
  /\ UNCHANGED mpc /\ NotTheManager

Kill ==
  /\ killDue /\ Alive
  /\ killDue' = FALSE /\ wpc' = "gone" /\ link' = FALSE
  /\ UNCHANGED <<mode, mpc, status, aborted, armed, sent, pulled, wAborted, told, effects,
                 leaseVars, targetVars, cmd, reply, tx, signal>>

\* page(): the next page of an open cursor is asked for.  A worker that is not connected
\* any more makes the child emit "error", which rejects the run.
AskForPage ==
  /\ mpc = "waiting" /\ mode = "read" /\ pages > 0 /\ told # "done"
  /\ \/ Connected /\ pulled' = TRUE /\ UNCHANGED mpc
     \/ ~Connected /\ mpc' = "throwing" /\ UNCHANGED pulled
  /\ UNCHANGED <<mode, status, aborted, armed, killDue, sent, workerVars, leaseVars,
                 targetVars, serverVars>>

\* The status that the exit of the worker gives the run
Outcome ==
  CASE told = "OUTCOME_UNKNOWN" -> "outcome-unknown"
    [] told = "CANCELLED" -> IF mode = "file" THEN "outcome-unknown" ELSE "cancelled"
    [] told \in {"nothing", "done", "EXECUTION"} /\ aborted -> "outcome-unknown"
    [] told = "done" /\ ~aborted -> "succeeded"
    [] OTHER -> "failed"

Exited ==
  /\ mpc = "waiting" /\ wpc = "gone"
  /\ status' = Outcome /\ mpc' = "removing" /\ armed' = FALSE
  /\ UNCHANGED <<aborted, killDue, sent>> /\ NotTheManager

Removed ==
  /\ mpc \in {"removing", "throwing"}
  /\ mpc' = "idle"
  /\ status' = IF mpc = "throwing" THEN "failed" ELSE status
  /\ UNCHANGED <<aborted, armed, killDue, sent>> /\ NotTheManager

-------------------------------------------------------------------------------
(* The lease of the target and its cancellation *)

InLease == {"connecting", "opening", "fetching", "demand", "undoing", "rollingback", "committing", "settling"}

\* abort of the lease's controller: cancel(), once its backend is known
AbortLease ==
  /\ lAborted' = (lAborted \/ tpc \in InLease)
  /\ IF ~lAborted /\ tpc \in InLease \ {"connecting"} /\ client = "leased"
     THEN cancelOp' = "asking" /\ had' = (tpc \in {"fetching", "demand"})
     ELSE UNCHANGED <<cancelOp, had>>

\* The client goes back to its pool, once; destroyed unless its transaction is known to be over.
Disposed == IF client = "leased" THEN "released" ELSE "released twice"

\* Mutant: it is not remembered that the client went back.
MayRelease_Always == client # "none"

MayRelease == client = "leased"
Destroy == IF MayRelease THEN client' = Disposed /\ link' = FALSE ELSE UNCHANGED <<client, link>>

DeliverCancel ==
  /\ sent /\ Connected
  /\ sent' = FALSE /\ wAborted' = TRUE
  /\ AbortLease
  /\ UNCHANGED <<mode, managerVars, pulled, wpc, told, effects, targetVars, serverVars>>

\* The idle timer of the worker
WorkerIdle ==
  /\ wpc = "querying" /\ tpc = "demand"
  /\ wAborted' = TRUE
  /\ AbortLease
  /\ UNCHANGED <<mode, managerVars, sent, pulled, wpc, told, effects, targetVars, serverVars>>

\* The deadline of the lease, or its idle timer while the consumer has the cursor
LeaseExpires ==
  /\ wpc = "querying" /\ tpc \in InLease /\ ~lAborted
  /\ AbortLease
  /\ UNCHANGED <<mode, managerVars, sent, pulled, workerVars, targetVars, serverVars>>

NotTheOperation ==
  UNCHANGED <<mode, managerVars, sent, pulled, workerVars, lAborted, had, tpc, error, rolledBack, pages, tx>>

AskBackend ==
  /\ wpc = "querying" /\ cancelOp = "asking" /\ (link \/ cmd # "none")
  /\ cancelOp' = "sent" /\ signal' = TRUE
  /\ UNCHANGED <<client, link, cmd, reply>> /\ NotTheOperation

\* No acknowledgement: the connection is dropped rather than used again.
AskFails ==
  /\ wpc = "querying" /\ cancelOp \in {"asking", "sent"}
  /\ cancelOp' = "over" /\ Destroy
  /\ UNCHANGED <<cmd, reply, signal>> /\ NotTheOperation

\* A query that was in flight gets 1500 ms to end.
Acknowledged ==
  /\ wpc = "querying" /\ cancelOp = "sent"
  /\ IF had THEN cancelOp' = "fallback" /\ UNCHANGED <<client, link>>
            ELSE cancelOp' = "over" /\ Destroy
  /\ UNCHANGED <<cmd, reply, signal>> /\ NotTheOperation

Fallback ==
  /\ wpc = "querying" /\ cancelOp = "fallback" /\ tpc \in InLease
  /\ cancelOp' = "over" /\ Destroy
  /\ UNCHANGED <<cmd, reply, signal>> /\ NotTheOperation

CancelOver == cancelOp \notin {"asking", "sent"}

-------------------------------------------------------------------------------
(* query() of the target *)

Send(c) ==
  /\ cmd' = IF link THEN c ELSE cmd
  /\ reply' = "none"

HasReply == reply # "none" \/ ~link
Answer == IF link THEN reply ELSE "lost"

\* normalize(): an error that the server did not send leaves the outcome of a write open.
Normalized(answer) ==
  CASE answer = "cancelled" -> "cancel"
    [] answer = "lost" /\ mode = "write" -> "unknown"
    [] OTHER -> "execution"

Reject(e) == tpc' = "rejected" /\ error' = e

NotTheTarget == UNCHANGED <<mode, managerVars, sent, workerVars, leaseVars>>

Connect ==
  /\ wpc = "querying" /\ tpc = "connecting"
  /\ IF lAborted
     THEN Reject("confirmed") /\ client' = "released" /\ UNCHANGED <<link, cmd, reply>>
     ELSE /\ tpc' = "opening" /\ client' = "leased" /\ link' = TRUE
          /\ cmd' = "setup" /\ reply' = "none" /\ UNCHANGED error
  /\ UNCHANGED <<pulled, rolledBack, pages, tx, signal>> /\ NotTheTarget

ConnectFails ==
  /\ wpc = "querying" /\ tpc = "connecting"
  /\ Reject(IF wAborted THEN "confirmed" ELSE Normalized("lost"))
  /\ UNCHANGED <<pulled, client, rolledBack, pages, serverVars>> /\ NotTheTarget

Opened ==
  /\ wpc = "querying" /\ tpc = "opening" /\ HasReply
  /\ IF Answer = "ok" /\ ~lAborted
     THEN tpc' = "fetching" /\ Send("fetch") /\ UNCHANGED <<error, client, link>>
     ELSE /\ CancelOver
          /\ Reject(IF wAborted \/ Answer \in {"ok", "cancelled"} THEN "confirmed" ELSE Normalized(Answer))
          /\ Destroy /\ UNCHANGED <<cmd, reply>>
  /\ UNCHANGED <<pulled, rolledBack, pages, tx, signal>> /\ NotTheTarget

\* A full page goes to the consumer, who asks for the next one when it likes.
OfferPage ==
  /\ wpc = "querying" /\ tpc = "fetching" /\ HasReply /\ Answer = "ok"
  /\ mode = "read" /\ pages < MaxPages
  /\ tpc' = "demand" /\ pages' = pages + 1
  /\ UNCHANGED <<pulled, error, client, rolledBack, serverVars>> /\ NotTheTarget

DeliverPull ==
  /\ pulled /\ Connected /\ pulled' = FALSE
  /\ IF tpc = "demand" /\ wpc = "querying" /\ ~lAborted
     THEN tpc' = "fetching" /\ Send("fetch")
     ELSE UNCHANGED <<tpc, cmd, reply>>
  /\ UNCHANGED <<error, client, rolledBack, pages, link, tx, signal>> /\ NotTheTarget

\* finish(true) after the last rows: no abort was seen, and COMMIT goes out in the same step.
Fetched ==
  /\ wpc = "querying" /\ tpc = "fetching" /\ HasReply /\ Answer = "ok"
  /\ IF lAborted THEN tpc' = "undoing" /\ error' = "cancel" /\ UNCHANGED <<cmd, reply>>
                 ELSE tpc' = "committing" /\ Send("commit") /\ UNCHANGED error
  /\ UNCHANGED <<pulled, client, rolledBack, pages, link, tx, signal>> /\ NotTheTarget

\* The rows cannot be stored, the server answers an error, the consumer is told of the abort.
FetchFails ==
  /\ wpc = "querying"
  /\ \/ tpc = "fetching" /\ HasReply /\ error' = IF Answer = "ok" THEN "execution" ELSE Normalized(Answer)
     \/ tpc = "demand" /\ lAborted /\ error' = "cancel"
  /\ tpc' = "undoing"
  /\ UNCHANGED <<pulled, client, rolledBack, pages, serverVars>> /\ NotTheTarget

Undo ==
  /\ wpc = "querying" /\ tpc = "undoing" /\ CancelOver
  /\ IF MayRelease THEN tpc' = "rollingback" /\ Send("rollback")
                   ELSE tpc' = "settling" /\ UNCHANGED <<cmd, reply>>
  /\ UNCHANGED <<pulled, error, client, rolledBack, pages, link, tx, signal>> /\ NotTheTarget

RolledBack ==
  /\ wpc = "querying" /\ tpc = "rollingback" /\ HasReply
  /\ tpc' = "settling" /\ rolledBack' = (Answer = "ok")
  /\ UNCHANGED <<pulled, error, client, pages, serverVars>> /\ NotTheTarget

Committed ==
  /\ wpc = "querying" /\ tpc = "committing" /\ HasReply
  /\ tpc' = "settling"
  /\ error' = IF Answer = "ok" THEN "none" ELSE Normalized(Answer)
  /\ UNCHANGED <<pulled, client, rolledBack, pages, serverVars>> /\ NotTheTarget

\* Mutant: a connection that was destroyed is taken for a transaction that was rolled back.
Rejection_Destroyed ==
  IF lAborted \/ error = "cancel"
  THEN IF rolledBack \/ client = "released" THEN "confirmed" ELSE "unknown" ELSE error

\* What the caller of query() is told of an error
Rejection ==
  IF lAborted \/ error = "cancel" THEN IF rolledBack THEN "confirmed" ELSE "unknown" ELSE error

Settle ==
  /\ wpc = "querying" /\ tpc = "settling" /\ CancelOver
  /\ IF error = "none" THEN tpc' = "resolved" /\ UNCHANGED error ELSE Reject(Rejection)
  /\ client' = IF MayRelease THEN Disposed ELSE client
  /\ UNCHANGED <<pulled, rolledBack, pages, serverVars>> /\ NotTheTarget

-------------------------------------------------------------------------------
(* The worker *)

NotTheWorker == UNCHANGED <<mode, managerVars, sent, pulled, wAborted, leaseVars, rolledBack, pages, serverVars>>

\* The code of the event "error"
Code(e) ==
  CASE e = "unknown" -> "OUTCOME_UNKNOWN"
    [] e = "confirmed" -> "CANCELLED"
    [] OTHER -> IF wAborted THEN "OUTCOME_UNKNOWN" ELSE "EXECUTION"

Tell(what) == told' = what /\ wpc' = "reported"

StartFails ==
  /\ wpc = "starting" /\ Tell(Code("execution"))
  /\ UNCHANGED <<effects, tpc, error, client>> /\ NotTheWorker

StartQuery ==
  /\ wpc = "starting" /\ mode # "file"
  /\ wpc' = "querying"
  /\ IF wAborted THEN Reject("confirmed") ELSE tpc' = "connecting" /\ UNCHANGED error
  /\ UNCHANGED <<told, effects, client>> /\ NotTheWorker

StartFile ==
  /\ wpc = "starting" /\ mode = "file"
  /\ wpc' = "authoring"
  /\ UNCHANGED <<told, effects, tpc, error, client>> /\ NotTheWorker

AuthorActs ==
  /\ wpc = "authoring" /\ effects' = TRUE
  /\ UNCHANGED <<wpc, told, tpc, error, client>> /\ NotTheWorker

AuthorEnds ==
  /\ wpc = "authoring"
  /\ \/ wpc' = "closing" /\ UNCHANGED told
     \/ \E e \in {"execution", "unknown", "confirmed"} : Tell(Code(e))
  /\ UNCHANGED <<effects, tpc, error, client>> /\ NotTheWorker

QueryEnds ==
  /\ wpc = "querying"
  /\ \/ tpc = "resolved" /\ wpc' = "closing" /\ UNCHANGED told
     \/ tpc = "rejected" /\ Tell(Code(error))
  /\ UNCHANGED <<effects, tpc, error, client>> /\ NotTheWorker

\* The result is written and published and the target is closed, or one of these fails.
Close ==
  /\ wpc = "closing"
  /\ Tell("done") \/ Tell(Code("execution"))
  /\ UNCHANGED <<effects, tpc, error, client>> /\ NotTheWorker

\* disconnect(), then exit()
Leave ==
  /\ wpc \in {"reported", "left"}
  /\ wpc' = IF wpc = "reported" THEN "left" ELSE "gone"
  /\ UNCHANGED <<told, effects, tpc, error, client>> /\ NotTheWorker

Crash ==
  /\ Alive
  /\ wpc' = "gone" /\ link' = FALSE
  /\ UNCHANGED <<mode, managerVars, sent, pulled, wAborted, told, effects, leaseVars, targetVars,
                 cmd, reply, tx, signal>>

-------------------------------------------------------------------------------
(* The server *)

NotTheServer == UNCHANGED <<mode, managerVars, sent, pulled, workerVars, leaseVars, targetVars>>

Runs(c) == CASE c \in {"setup", "fetch"} -> "open" [] c = "commit" -> "committed" [] OTHER -> "undone"
Fails(c) == IF c \in {"setup", "commit"} THEN "undone" ELSE "open"

\* A command that has arrived is executed, whether or not anybody waits for its answer.
ServerAnswers ==
  /\ cmd # "none" /\ cmd' = "none"
  /\ \/ reply' = "ok" /\ tx' = Runs(cmd) /\ UNCHANGED signal
     \/ cmd # "rollback" /\ reply' = "error" /\ tx' = Fails(cmd) /\ UNCHANGED signal
     \/ signal /\ signal' = FALSE /\ reply' = "cancelled" /\ tx' = Fails(cmd)
  /\ UNCHANGED link /\ NotTheServer

\* A signal that finds no command is ignored.
SignalMissed ==
  /\ signal /\ cmd = "none" /\ signal' = FALSE
  /\ UNCHANGED <<link, cmd, reply, tx>> /\ NotTheServer

ServerNotices ==
  /\ ~link /\ cmd = "none" /\ tx = "open" /\ tx' = "undone"
  /\ UNCHANGED <<link, cmd, reply, signal>> /\ NotTheServer

Break ==
  /\ link /\ link' = FALSE
  /\ UNCHANGED <<cmd, reply, tx, signal>> /\ NotTheServer

-------------------------------------------------------------------------------
Manager == PrepareFails \/ StopInTime \/ Fork \/ Cancel \/ Expire \/ Kill \/ AskForPage \/ Exited \/ Removed
Lease == DeliverCancel \/ WorkerIdle \/ LeaseExpires \/ AskBackend \/ AskFails \/ Acknowledged \/ Fallback
Target ==
  \/ Connect \/ ConnectFails \/ Opened \/ OfferPage \/ DeliverPull \/ Fetched \/ FetchFails
  \/ Undo \/ RolledBack \/ Committed \/ Settle
Worker ==
  \/ StartFails \/ StartQuery \/ StartFile \/ AuthorActs \/ AuthorEnds \/ QueryEnds \/ Close \/ Leave \/ Crash
Server == ServerAnswers \/ SignalMissed \/ ServerNotices \/ Break

Next == Manager \/ Lease \/ Target \/ Worker \/ Server

Spec == Init /\ [][Next]_vars

\* Only the manager is fair, and its timers: a worker may hang, and the database with it.
FairSpec ==
  /\ Spec
  /\ WF_vars(PrepareFails \/ StopInTime \/ Fork)
  /\ WF_vars(Expire) /\ WF_vars(Kill) /\ WF_vars(Exited) /\ WF_vars(Removed)

-------------------------------------------------------------------------------
(* Properties *)

\* Every variable has its type; among the rest, the client of a lease goes back to its pool
\* at most once, although the cancellation, its fallback, lease() and finish() may all return it.
TypeOK ==
  /\ mode \in Modes /\ mpc \in {"preparing", "waiting", "removing", "throwing", "idle"}
  /\ status \in {"checking", "running", "cancelling", "cancelled", "outcome-unknown", "succeeded", "failed"}
  /\ aborted \in BOOLEAN /\ armed \in BOOLEAN /\ killDue \in BOOLEAN /\ sent \in BOOLEAN
  /\ pulled \in BOOLEAN /\ wAborted \in BOOLEAN /\ effects \in BOOLEAN /\ lAborted \in BOOLEAN
  /\ had \in BOOLEAN /\ rolledBack \in BOOLEAN /\ link \in BOOLEAN /\ signal \in BOOLEAN
  /\ wpc \in {"none", "starting", "querying", "authoring", "closing", "reported", "left", "gone"}
  /\ told \in {"nothing", "done", "EXECUTION", "CANCELLED", "OUTCOME_UNKNOWN"}
  /\ tpc \in InLease \cup {"none", "resolved", "rejected"}
  /\ error \in {"none", "execution", "unknown", "cancel", "confirmed"}
  /\ cancelOp \in {"none", "asking", "sent", "fallback", "over"}
  /\ client \in {"none", "leased", "released"} /\ pages \in 0..MaxPages
  /\ cmd \in {"none", "setup", "fetch", "commit", "rollback"}
  /\ reply \in {"none", "ok", "error", "cancelled"} /\ tx \in {"none", "open", "committed", "undone"}

Effect == effects \/ (mode = "write" /\ tx = "committed")

\* The status of a run is what became of its effects: a run that succeeded is committed; one
\* that was cancelled, or whose statement failed without an unknown outcome, has no effect
\* and will have none (a COMMIT that the server still holds would show in a later state).
StatusIsHonest ==
  /\ status = "succeeded" /\ mode # "file" => tx = "committed"
  /\ status = "cancelled" => ~Effect
  /\ status = "failed" /\ told = "EXECUTION" /\ tpc = "rejected" => ~Effect

\* A run ends, whatever its worker and the database do, and the manager takes the next one.
RunEnds == <>(mpc = "idle")
===============================================================================
