-------------------------- MODULE PlaygroundRunProofs --------------------------
(***************************************************************************)
(* Proofs about PlaygroundRun, for any modes and any number of pages.      *)
(***************************************************************************)
EXTENDS PlaygroundRun, TLAPS

\* The COMMIT is at the server, or was executed.
MayCommit == cmd = "commit" \/ tx = "committed"

\* What is run decides which parts are used; a part that has not begun has done nothing.
StageInv ==
  /\ mode = "file" => tpc = "none" /\ wpc # "querying"
  /\ mode # "file" => effects = FALSE /\ wpc # "authoring"
  /\ mpc = "preparing" => wpc = "none" /\ status \in {"checking", "cancelling"}
  /\ wpc \in {"none", "starting"} => tpc = "none" /\ told = "nothing" /\ effects = FALSE
  /\ told # "nothing" => wpc \in {"reported", "left", "gone"}
  /\ wpc = "closing" /\ mode # "file" => tpc = "resolved"

\* A transaction can be committed only from the COMMIT of finish(true) on.
CommandInv ==
  /\ reply # "none" => cmd = "none"
  /\ tpc \notin {"committing", "settling", "resolved", "rejected"} => ~MayCommit
  /\ tpc = "committing" =>
       /\ cmd \in {"none", "commit"}
       /\ reply = "ok" => tx = "committed"
       /\ reply \in {"error", "cancelled"} => tx # "committed"
  /\ rolledBack => tpc \in {"settling", "resolved", "rejected"} /\ ~MayCommit

\* What the target will say of an error, and what it says.
ErrorInv ==
  /\ tpc # "rejected" => error # "confirmed"
  /\ tpc \in {"undoing", "rollingback"} => error # "none"
  /\ tpc = "settling" =>
       /\ error = "none" => tx = "committed" /\ cmd = "none"
       /\ error = "execution" /\ mode = "write" => ~MayCommit
  /\ tpc = "resolved" => tx = "committed" /\ cmd = "none"
  /\ tpc = "rejected" =>
       /\ error \in {"execution", "unknown", "confirmed"}
       /\ mode = "write" /\ error # "unknown" => ~MayCommit

\* What the worker tells is what the target said.
ToldInv ==
  /\ told = "CANCELLED" /\ mode # "file" => tpc = "rejected" /\ error = "confirmed"
  /\ told = "EXECUTION" /\ tpc = "rejected" => error = "execution"
  /\ told = "done" /\ mode # "file" => tpc = "resolved"

\* The status is what the worker told, or the worker was never forked.
StatusInv ==
  /\ status = "succeeded" => told = "done"
  /\ status = "cancelled" => \/ wpc = "none" /\ mpc # "preparing"
                             \/ told = "CANCELLED" /\ mode # "file"

HonestInv == StageInv /\ CommandInv /\ ErrorInv /\ ToldInv /\ StatusInv

-------------------------------------------------------------------------------
(* Every step keeps the types *)

\* TypeOK in two parts, for the two provers.
Booleans ==
  /\ aborted \in BOOLEAN /\ armed \in BOOLEAN /\ killDue \in BOOLEAN /\ sent \in BOOLEAN
  /\ pulled \in BOOLEAN /\ wAborted \in BOOLEAN /\ effects \in BOOLEAN /\ lAborted \in BOOLEAN
  /\ had \in BOOLEAN /\ rolledBack \in BOOLEAN /\ link \in BOOLEAN /\ signal \in BOOLEAN

Others ==
  /\ mode \in Modes /\ mpc \in {"preparing", "waiting", "removing", "throwing", "idle"}
  /\ status \in {"checking", "running", "cancelling", "cancelled", "outcome-unknown", "succeeded", "failed"}
  /\ wpc \in {"none", "starting", "querying", "authoring", "closing", "reported", "left", "gone"}
  /\ told \in {"nothing", "done", "EXECUTION", "CANCELLED", "OUTCOME_UNKNOWN"}
  /\ tpc \in InLease \cup {"none", "resolved", "rejected"}
  /\ error \in {"none", "execution", "unknown", "cancel", "confirmed"}
  /\ cancelOp \in {"none", "asking", "sent", "fallback", "over"}
  /\ client \in {"none", "leased", "released"} /\ pages \in 0..MaxPages
  /\ cmd \in {"none", "setup", "fetch", "commit", "rollback"}
  /\ reply \in {"none", "ok", "error", "cancelled"} /\ tx \in {"none", "open", "committed", "undone"}

LEMMA TypeParts == TypeOK <=> Booleans /\ Others
BY DEF TypeOK, Booleans, Others

USE PlaygroundAssumption DEF managerVars, workerVars, leaseVars, targetVars, serverVars

LEMMA ManagerType == ASSUME TypeOK, Manager PROVE Others'
<1> USE DEF TypeOK, Others
<1>1. CASE PrepareFails
  BY <1>1 DEF PrepareFails, NotTheManager, InLease
<1>2. CASE StopInTime
  BY <1>2 DEF StopInTime, NotTheManager, InLease
<1>3. CASE Fork
  BY <1>3 DEF Fork, InLease
<1>4. CASE Cancel
  BY <1>4 DEF Cancel, Ask, NotTheManager, Connected, Alive, InLease
<1>5. CASE Expire
  BY <1>5 DEF Expire, Ask, NotTheManager, Connected, Alive, InLease
<1>6. CASE Kill
  BY <1>6 DEF Kill, Alive, InLease
<1>7. CASE AskForPage
  BY <1>7 DEF AskForPage, Connected, Alive, InLease
<1>8. CASE Exited
  BY <1>8 DEF Exited, Outcome, NotTheManager, InLease
<1>9. CASE Removed
  BY <1>9 DEF Removed, NotTheManager, InLease
<1> QED BY <1>1, <1>2, <1>3, <1>4, <1>5, <1>6, <1>7, <1>8, <1>9 DEF Manager

LEMMA LeaseType == ASSUME TypeOK, Lease PROVE Others'
<1> USE DEF TypeOK, Others
<1>1. CASE DeliverCancel
  BY <1>1 DEF DeliverCancel, AbortLease, InLease, Connected, Alive
<1>2. CASE WorkerIdle
  BY <1>2 DEF WorkerIdle, AbortLease, InLease
<1>3. CASE LeaseExpires
  BY <1>3 DEF LeaseExpires, AbortLease, InLease
<1>4. CASE AskBackend
  BY <1>4 DEF AskBackend, NotTheOperation, InLease
<1>5. CASE AskFails
  BY <1>5 DEF AskFails, NotTheOperation, Destroy, MayRelease, Disposed, InLease
<1>6. CASE Acknowledged
  BY <1>6 DEF Acknowledged, NotTheOperation, Destroy, MayRelease, Disposed, InLease
<1>7. CASE Fallback
  BY <1>7 DEF Fallback, NotTheOperation, Destroy, MayRelease, Disposed, InLease
<1> QED BY <1>1, <1>2, <1>3, <1>4, <1>5, <1>6, <1>7 DEF Lease

LEMMA TargetType == ASSUME TypeOK, Target PROVE Others'
<1> USE DEF TypeOK, Others
<1>1. CASE Connect
  BY <1>1 DEF Connect, NotTheTarget, Reject, InLease
<1>2. CASE ConnectFails
  BY <1>2 DEF ConnectFails, NotTheTarget, Reject, Normalized, InLease
<1>3. CASE Opened
  BY <1>3 DEF Opened, NotTheTarget, Reject, Normalized, Send, HasReply, Answer, CancelOver, Destroy, MayRelease, Disposed, InLease
<1>4. CASE OfferPage
  BY <1>4 DEF OfferPage, NotTheTarget, HasReply, Answer, InLease
<1>5. CASE DeliverPull
  BY <1>5 DEF DeliverPull, NotTheTarget, Connected, Alive, Send, InLease
<1>6. CASE Fetched
  BY <1>6 DEF Fetched, NotTheTarget, HasReply, Answer, Send, InLease
<1>7. CASE FetchFails
  BY <1>7 DEF FetchFails, NotTheTarget, HasReply, Answer, Normalized, InLease
<1>8. CASE Undo
  BY <1>8 DEF Undo, NotTheTarget, CancelOver, MayRelease, Send, InLease
<1>9. CASE RolledBack
  BY <1>9 DEF RolledBack, NotTheTarget, HasReply, Answer, InLease
<1>10. CASE Committed
  BY <1>10 DEF Committed, NotTheTarget, HasReply, Answer, Normalized, InLease
<1>11. CASE Settle
  BY <1>11 DEF Settle, NotTheTarget, CancelOver, Reject, Rejection, MayRelease, Disposed, InLease
<1> QED BY <1>1, <1>2, <1>3, <1>4, <1>5, <1>6, <1>7, <1>8, <1>9, <1>10, <1>11 DEF Target

LEMMA WorkerType == ASSUME TypeOK, Worker PROVE Others'
<1> USE DEF TypeOK, Others
<1>1. CASE StartFails
  BY <1>1 DEF StartFails, NotTheWorker, Tell, Code, InLease
<1>2. CASE StartQuery
  BY <1>2 DEF StartQuery, NotTheWorker, Reject, InLease
<1>3. CASE StartFile
  BY <1>3 DEF StartFile, NotTheWorker, InLease
<1>4. CASE AuthorActs
  BY <1>4 DEF AuthorActs, NotTheWorker, InLease
<1>5. CASE AuthorEnds
  BY <1>5 DEF AuthorEnds, NotTheWorker, Tell, Code, InLease
<1>6. CASE QueryEnds
  BY <1>6 DEF QueryEnds, NotTheWorker, Tell, Code, InLease
<1>7. CASE Close
  BY <1>7 DEF Close, NotTheWorker, Tell, Code, InLease
<1>8. CASE Leave
  BY <1>8 DEF Leave, NotTheWorker, InLease
<1>9. CASE Crash
  BY <1>9 DEF Crash, Alive, InLease
<1> QED BY <1>1, <1>2, <1>3, <1>4, <1>5, <1>6, <1>7, <1>8, <1>9 DEF Worker

LEMMA ServerType == ASSUME TypeOK, Server PROVE Others'
<1> USE DEF TypeOK, Others
<1>1. CASE ServerAnswers
  BY <1>1 DEF ServerAnswers, NotTheServer, Runs, Fails, InLease
<1>2. CASE SignalMissed
  BY <1>2 DEF SignalMissed, NotTheServer, InLease
<1>3. CASE ServerNotices
  BY <1>3 DEF ServerNotices, NotTheServer, InLease
<1>4. CASE Break
  BY <1>4 DEF Break, NotTheServer, InLease
<1> QED BY <1>1, <1>2, <1>3, <1>4 DEF Server

\* Aborting the lease sets its two flags to truth values.
LEMMA AbortBooleans ==
  ASSUME had \in BOOLEAN, AbortLease
  PROVE  lAborted' \in BOOLEAN /\ had' \in BOOLEAN
<1>1. lAborted' \in BOOLEAN
  BY Zenon DEF AbortLease
<1>2. UNCHANGED had \/ had' = (tpc \in {"fetching", "demand"})
  BY Zenon DEF AbortLease
<1>3. CASE had' = (tpc \in {"fetching", "demand"})
  <2>1. (tpc \in {"fetching", "demand"}) \in BOOLEAN
    OBVIOUS
  <2> QED BY <1>1, <1>3, <2>1, Zenon
<1>4. CASE UNCHANGED had
  BY <1>1, <1>4, Zenon
<1> QED BY <1>2, <1>3, <1>4, Zenon

LEMMA ManagerBooleans == ASSUME Booleans, Manager PROVE Booleans'
<1> USE DEF Booleans
<1>1. CASE PrepareFails
  BY <1>1 DEF PrepareFails, NotTheManager
<1>2. CASE StopInTime
  BY <1>2 DEF StopInTime, NotTheManager
<1>3. CASE Fork
  BY <1>3 DEF Fork
<1>4. CASE Cancel
  BY <1>4 DEF Cancel, Ask, NotTheManager
<1>5. CASE Expire
  BY <1>5 DEF Expire, Ask, NotTheManager
<1>6. CASE Kill
  BY <1>6 DEF Kill
<1>7. CASE AskForPage
  BY <1>7 DEF AskForPage
<1>8. CASE Exited
  BY <1>8 DEF Exited, NotTheManager
<1>9. CASE Removed
  BY <1>9 DEF Removed, NotTheManager
<1> QED BY <1>1, <1>2, <1>3, <1>4, <1>5, <1>6, <1>7, <1>8, <1>9 DEF Manager

LEMMA LeaseBooleans == ASSUME Booleans, Lease PROVE Booleans'
<1> USE DEF Booleans
<1>1. CASE DeliverCancel
  BY <1>1, AbortBooleans DEF DeliverCancel
<1>2. CASE WorkerIdle
  BY <1>2, AbortBooleans DEF WorkerIdle
<1>3. CASE LeaseExpires
  BY <1>3, AbortBooleans DEF LeaseExpires
<1>4. CASE AskBackend
  BY <1>4 DEF AskBackend, NotTheOperation
<1>5. CASE AskFails
  BY <1>5 DEF AskFails, NotTheOperation, Destroy
<1>6. CASE Acknowledged
  BY <1>6 DEF Acknowledged, NotTheOperation, Destroy
<1>7. CASE Fallback
  BY <1>7 DEF Fallback, NotTheOperation, Destroy
<1> QED BY <1>1, <1>2, <1>3, <1>4, <1>5, <1>6, <1>7 DEF Lease

LEMMA TargetBooleans == ASSUME Booleans, Target PROVE Booleans'
<1> USE DEF Booleans
<1>1. CASE Connect
  BY <1>1 DEF Connect, NotTheTarget
<1>2. CASE ConnectFails
  BY <1>2 DEF ConnectFails, NotTheTarget
<1>3. CASE Opened
  BY <1>3 DEF Opened, NotTheTarget, Destroy
<1>4. CASE OfferPage
  BY <1>4 DEF OfferPage, NotTheTarget
<1>5. CASE DeliverPull
  BY <1>5 DEF DeliverPull, NotTheTarget
<1>6. CASE Fetched
  BY <1>6 DEF Fetched, NotTheTarget
<1>7. CASE FetchFails
  BY <1>7 DEF FetchFails, NotTheTarget
<1>8. CASE Undo
  BY <1>8 DEF Undo, NotTheTarget
<1>9. CASE RolledBack
  BY <1>9 DEF RolledBack, NotTheTarget
<1>10. CASE Committed
  BY <1>10 DEF Committed, NotTheTarget
<1>11. CASE Settle
  BY <1>11 DEF Settle, NotTheTarget
<1> QED BY <1>1, <1>2, <1>3, <1>4, <1>5, <1>6, <1>7, <1>8, <1>9, <1>10, <1>11 DEF Target

LEMMA WorkerBooleans == ASSUME Booleans, Worker PROVE Booleans'
<1> USE DEF Booleans
<1>1. CASE StartFails
  BY <1>1 DEF StartFails, NotTheWorker
<1>2. CASE StartQuery
  BY <1>2 DEF StartQuery, NotTheWorker
<1>3. CASE StartFile
  BY <1>3 DEF StartFile, NotTheWorker
<1>4. CASE AuthorActs
  BY <1>4 DEF AuthorActs, NotTheWorker
<1>5. CASE AuthorEnds
  BY <1>5 DEF AuthorEnds, NotTheWorker
<1>6. CASE QueryEnds
  BY <1>6 DEF QueryEnds, NotTheWorker
<1>7. CASE Close
  BY <1>7 DEF Close, NotTheWorker
<1>8. CASE Leave
  BY <1>8 DEF Leave, NotTheWorker
<1>9. CASE Crash
  BY <1>9 DEF Crash
<1> QED BY <1>1, <1>2, <1>3, <1>4, <1>5, <1>6, <1>7, <1>8, <1>9 DEF Worker

LEMMA ServerBooleans == ASSUME Booleans, Server PROVE Booleans'
<1> USE DEF Booleans
<1>1. CASE ServerAnswers
  BY <1>1 DEF ServerAnswers, NotTheServer
<1>2. CASE SignalMissed
  BY <1>2 DEF SignalMissed, NotTheServer
<1>3. CASE ServerNotices
  BY <1>3 DEF ServerNotices, NotTheServer
<1>4. CASE Break
  BY <1>4 DEF Break, NotTheServer
<1> QED BY <1>1, <1>2, <1>3, <1>4 DEF Server

-------------------------------------------------------------------------------
(* Every step keeps the rest *)

LEMMA ManagerHonest == ASSUME TypeOK, HonestInv, Manager PROVE HonestInv'
<1> USE DEF HonestInv, StageInv, CommandInv, ErrorInv, ToldInv, StatusInv, MayCommit, TypeOK, InLease
<1>1. CASE PrepareFails
  BY <1>1 DEF PrepareFails, NotTheManager
<1>2. CASE StopInTime
  BY <1>2 DEF StopInTime, NotTheManager
<1>3. CASE Fork
  BY <1>3 DEF Fork
<1>4. CASE Cancel
  BY <1>4 DEF Cancel, Ask, NotTheManager, Connected, Alive
<1>5. CASE Expire
  BY <1>5 DEF Expire, Ask, NotTheManager, Connected, Alive
<1>6. CASE Kill
  BY <1>6 DEF Kill, Alive
<1>7. CASE AskForPage
  BY <1>7 DEF AskForPage, Connected, Alive
<1>8. CASE Exited
  BY <1>8 DEF Exited, Outcome, NotTheManager
<1>9. CASE Removed
  BY <1>9 DEF Removed, NotTheManager
<1> QED BY <1>1, <1>2, <1>3, <1>4, <1>5, <1>6, <1>7, <1>8, <1>9 DEF Manager

LEMMA LeaseHonest == ASSUME TypeOK, HonestInv, Lease PROVE HonestInv'
<1> USE DEF HonestInv, StageInv, CommandInv, ErrorInv, ToldInv, StatusInv, MayCommit, TypeOK, InLease
<1>1. CASE DeliverCancel
  BY <1>1 DEF DeliverCancel, AbortLease, Connected, Alive
<1>2. CASE WorkerIdle
  BY <1>2 DEF WorkerIdle, AbortLease
<1>3. CASE LeaseExpires
  BY <1>3 DEF LeaseExpires, AbortLease
<1>4. CASE AskBackend
  BY <1>4 DEF AskBackend, NotTheOperation
<1>5. CASE AskFails
  BY <1>5 DEF AskFails, NotTheOperation, Destroy, MayRelease, Disposed
<1>6. CASE Acknowledged
  BY <1>6 DEF Acknowledged, NotTheOperation, Destroy, MayRelease, Disposed
<1>7. CASE Fallback
  BY <1>7 DEF Fallback, NotTheOperation, Destroy, MayRelease, Disposed
<1> QED BY <1>1, <1>2, <1>3, <1>4, <1>5, <1>6, <1>7 DEF Lease

LEMMA TargetHonest == ASSUME TypeOK, HonestInv, Target PROVE HonestInv'
<1> USE DEF HonestInv, StageInv, CommandInv, ErrorInv, ToldInv, StatusInv, MayCommit, TypeOK, InLease
<1>1. CASE Connect
  BY <1>1 DEF Connect, NotTheTarget, Reject
<1>2. CASE ConnectFails
  BY <1>2 DEF ConnectFails, NotTheTarget, Reject, Normalized
<1>3. CASE Opened
  BY <1>3 DEF Opened, NotTheTarget, Reject, Normalized, Send, HasReply, Answer, CancelOver, Destroy, MayRelease, Disposed
<1>4. CASE OfferPage
  BY <1>4 DEF OfferPage, NotTheTarget, HasReply, Answer
<1>5. CASE DeliverPull
  BY <1>5 DEF DeliverPull, NotTheTarget, Connected, Alive, Send
<1>6. CASE Fetched
  BY <1>6 DEF Fetched, NotTheTarget, HasReply, Answer, Send
<1>7. CASE FetchFails
  BY <1>7 DEF FetchFails, NotTheTarget, HasReply, Answer, Normalized
<1>8. CASE Undo
  BY <1>8 DEF Undo, NotTheTarget, CancelOver, MayRelease, Send
<1>9. CASE RolledBack
  BY <1>9 DEF RolledBack, NotTheTarget, HasReply, Answer
<1>10. CASE Committed
  BY <1>10 DEF Committed, NotTheTarget, HasReply, Answer, Normalized
<1>11. CASE Settle
  BY <1>11 DEF Settle, NotTheTarget, CancelOver, Reject, Rejection, MayRelease, Disposed
<1> QED BY <1>1, <1>2, <1>3, <1>4, <1>5, <1>6, <1>7, <1>8, <1>9, <1>10, <1>11 DEF Target

LEMMA WorkerHonest == ASSUME TypeOK, HonestInv, Worker PROVE HonestInv'
<1> USE DEF HonestInv, StageInv, CommandInv, ErrorInv, ToldInv, StatusInv, MayCommit, TypeOK, InLease
<1>1. CASE StartFails
  BY <1>1 DEF StartFails, NotTheWorker, Tell, Code
<1>2. CASE StartQuery
  BY <1>2 DEF StartQuery, NotTheWorker, Reject
<1>3. CASE StartFile
  BY <1>3 DEF StartFile, NotTheWorker
<1>4. CASE AuthorActs
  BY <1>4 DEF AuthorActs, NotTheWorker
<1>5. CASE AuthorEnds
  BY <1>5 DEF AuthorEnds, NotTheWorker, Tell, Code
<1>6. CASE QueryEnds
  BY <1>6 DEF QueryEnds, NotTheWorker, Tell, Code
<1>7. CASE Close
  BY <1>7 DEF Close, NotTheWorker, Tell, Code
<1>8. CASE Leave
  BY <1>8 DEF Leave, NotTheWorker
<1>9. CASE Crash
  BY <1>9 DEF Crash, Alive
<1> QED BY <1>1, <1>2, <1>3, <1>4, <1>5, <1>6, <1>7, <1>8, <1>9 DEF Worker

LEMMA ServerHonest == ASSUME TypeOK, HonestInv, Server PROVE HonestInv'
<1> USE DEF HonestInv, StageInv, CommandInv, ErrorInv, ToldInv, StatusInv, MayCommit, TypeOK, InLease
<1>1. CASE ServerAnswers
  BY <1>1 DEF ServerAnswers, NotTheServer, Runs, Fails
<1>2. CASE SignalMissed
  BY <1>2 DEF SignalMissed, NotTheServer
<1>3. CASE ServerNotices
  BY <1>3 DEF ServerNotices, NotTheServer
<1>4. CASE Break
  BY <1>4 DEF Break, NotTheServer
<1> QED BY <1>1, <1>2, <1>3, <1>4 DEF Server

-------------------------------------------------------------------------------
(* The theorems *)

LEMMA Starts == Init => TypeOK /\ HonestInv
<1> SUFFICES ASSUME Init PROVE TypeOK /\ HonestInv
  OBVIOUS
<1>1. Booleans
  BY Zenon DEF Init, Booleans
<1>2. Others
  BY DEF Init, Others
<1>3. HonestInv
  BY DEF Init, HonestInv, StageInv, CommandInv, ErrorInv, ToldInv, StatusInv, MayCommit
<1> QED BY <1>1, <1>2, <1>3, TypeParts

LEMMA StutterKeeps == ASSUME TypeOK, HonestInv, UNCHANGED vars PROVE TypeOK' /\ HonestInv'
<1>1. TypeOK'
  BY DEF TypeOK, vars, InLease
<1>2. HonestInv'
  BY DEF HonestInv, StageInv, CommandInv, ErrorInv, ToldInv, StatusInv, MayCommit, vars
<1> QED BY <1>1, <1>2

LEMMA StepKeeps == ASSUME TypeOK, HonestInv, Next PROVE TypeOK' /\ HonestInv'
<1>a. Booleans /\ Others
  BY TypeParts
<1>b. Booleans' /\ Others' => TypeOK'
  BY DEF TypeOK, Booleans, Others
<1>1. CASE Manager
  BY <1>1, <1>a, <1>b, ManagerType, ManagerBooleans, ManagerHonest
<1>2. CASE Lease
  BY <1>2, <1>a, <1>b, LeaseType, LeaseBooleans, LeaseHonest
<1>3. CASE Target
  BY <1>3, <1>a, <1>b, TargetType, TargetBooleans, TargetHonest
<1>4. CASE Worker
  BY <1>4, <1>a, <1>b, WorkerType, WorkerBooleans, WorkerHonest
<1>5. CASE Server
  BY <1>5, <1>a, <1>b, ServerType, ServerBooleans, ServerHonest
<1> QED BY <1>1, <1>2, <1>3, <1>4, <1>5 DEF Next

LEMMA Inductive == Spec => [](TypeOK /\ HonestInv)
<1>1. TypeOK /\ HonestInv /\ [Next]_vars => TypeOK' /\ HonestInv'
  BY StepKeeps, StutterKeeps
<1> QED BY <1>1, Starts, PTL DEF Spec

\* Every state of a run has its declared type; the client of a lease goes back at most once,
\* whether the cancellation, its fallback, lease() or finish() returns it.
THEOREM TypeCorrect == Spec => []TypeOK
BY Inductive, PTL

\* The status of a run is what became of its effects, however the deadline, the operator,
\* the kill timer, a crash and a lost connection race the statement and its COMMIT.
THEOREM HonestStatus == Spec => []StatusIsHonest
<1>1. TypeOK /\ HonestInv => StatusIsHonest
  <2> SUFFICES ASSUME TypeOK, HonestInv PROVE StatusIsHonest
    OBVIOUS
  <2> USE DEF HonestInv, StageInv, CommandInv, ErrorInv, ToldInv, StatusInv, MayCommit, Effect
  <2>1. status = "succeeded" /\ mode # "file" => tx = "committed"
    OBVIOUS
  <2>2. status = "cancelled" => ~Effect
    OBVIOUS
  <2>3. status = "failed" /\ told = "EXECUTION" /\ tpc = "rejected" => ~Effect
    OBVIOUS
  <2> QED BY <2>1, <2>2, <2>3 DEF StatusIsHonest
<1> QED BY <1>1, Inductive, PTL
===============================================================================
