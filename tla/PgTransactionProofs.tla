------------------------- MODULE PgTransactionProofs --------------------------
(***************************************************************************)
(* Proofs about PgTransaction, for any tree of scopes and any work: its    *)
(* type and that the client leased from the pool is released exactly once, *)
(* whatever the callbacks do; and, for callbacks that await their COPYs    *)
(* and nested transactions, that a transaction leaves nothing running      *)
(* behind and returns its client clean; and, for callbacks that use no     *)
(* scope beside a COPY or a nested transaction of it, that it is atomic    *)
(* and that no failure blocks it once it is undone.                        *)
(***************************************************************************)
EXTENDS PgTransaction, WellFoundedInduction, TLAPS

-------------------------------------------------------------------------------
(***************************************************************************)
(* The strengthened invariants.                                            *)
(***************************************************************************)
\* What the root awaits while a command of its own is in the queue.
Awaiting(op) ==
  CASE op = "BEGIN" -> "opening" [] op = "COMMIT" -> "ending" [] OTHER -> "undoing"

\* A queue q and the root's label p: at most one command is the root's.
RootCommands(q, p) ==
  /\ \A i \in 1..Len(q) : q[i].op \in RootOps => p = Awaiting(q[i].op)
  /\ \A i, j \in 1..Len(q) : q[i].op \in RootOps /\ q[j].op \in RootOps => i = j

\* Only work that was issued is in the queue, and its parts are counted.
WorkCounted ==
  /\ \A w \in Works : work[w].state # "new" => work[w].part \in 1..Parts(w)
  /\ \A i \in 1..Len(queue) : queue[i].op = "query" => work[queue[i].work].state # "new"

TypeInv == TypeOK /\ WorkCounted

RootOver == pc[Root] \in {"leaked", "settling", "ending", "undoing"} \cup Ended

LeaseInv ==
  /\ LeaseReleasedOnce
  /\ RootCommands(queue, pc[Root])
  /\ pc[Root] = "opening" =>
       /\ lease = "held"
       /\ \A s \in Scopes : ~ open[s] /\ (s # Root => pc[s] = "none")
       /\ \A w \in Works : work[w].state = "new"
       /\ Len(queue) = 1 /\ queue[1].op = "BEGIN"
  /\ pc[Root] = "running" /\ lease # "held" => conn = "closed" /\ unsafeDepth # 0
  /\ RootOver => ~ valid
  /\ pc[Root] \in {"leaked", "settling"} => Busy("execute") \subseteq waits[Root]
  /\ pc[Root] \in {"ending", "undoing"} \cup Ended => Busy("execute") = {}
  /\ pc[Root] \in {"ending", "undoing"} => lease = "held"

-------------------------------------------------------------------------------
(***************************************************************************)
(* Lemmas about the command queue.                                         *)
(***************************************************************************)

(* What is at the head of the queue is a command: a query of some work, or an
   operation of some scope. *)
LEMMA HeadCommand ==
  ASSUME TypeOK, NEW op, IsHead(op)
  PROVE  /\ queue # << >>
         /\ Head(queue) \in Command
         /\ Head(queue) = queue[1]
         /\ queue[1].op = op
         /\ op = "query" => Head(queue).work \in Works
         /\ op \in RootOps => Head(queue).scope = Root
         /\ op \in NestedOps => Head(queue).scope \in Scopes \ {Root}
         /\ Tail(queue) \in Seq(Command)
         /\ Len(Tail(queue)) = Len(queue) - 1
         /\ \A i \in 1..Len(Tail(queue)) : Tail(queue)[i] = queue[i + 1]
<1>1. queue \in Seq(Command) /\ queue # << >> /\ Head(queue).op = op
  BY DEF TypeOK, IsHead
<1>2. Head(queue) = queue[1] /\ Head(queue) \in Command /\ Len(queue) \in Nat \ {0}
  BY <1>1
<1>3. Tail(queue) \in Seq(Command) /\ Len(Tail(queue)) = Len(queue) - 1
  BY <1>1
<1>4. \A i \in 1..Len(Tail(queue)) : Tail(queue)[i] = queue[i + 1]
  BY <1>1
<1>5. op = "query" => Head(queue).work \in Works
  BY <1>1, <1>2 DEF Command, RootOps, NestedOps
<1>6. op \in RootOps => Head(queue).scope = Root
  BY <1>1, <1>2 DEF Command, RootOps, NestedOps
<1>7. op \in NestedOps => Head(queue).scope \in Scopes \ {Root}
  BY <1>1, <1>2 DEF Command, RootOps, NestedOps
<1> QED BY <1>1, <1>2, <1>3, <1>4, <1>5, <1>6, <1>7

(* Commands sent behind the others leave those in their places. *)
LEMMA Appended ==
  ASSUME NEW C, NEW p \in Seq(C), NEW q \in Seq(C)
  PROVE  /\ p \o q \in Seq(C)
         /\ Len(p \o q) = Len(p) + Len(q)
         /\ \A i \in 1..Len(p \o q) :
              (p \o q)[i] = IF i <= Len(p) THEN p[i] ELSE q[i - Len(p)]
  OBVIOUS

(* A query of some work is a command. *)
LEMMA QueryCommand ==
  ASSUME NEW w \in Works
  PROVE  Query(w) \in Command /\ Query(w).op = "query" /\ Query(w).work = w
  BY DEF Query, Command

-------------------------------------------------------------------------------
(***************************************************************************)
(* Types: every action keeps them, and the count of each work's parts.     *)
(***************************************************************************)

(* The effect of the part of a work the server is asked for is one of its
   effects. *)
LEMMA EffectsTyped ==
  ASSUME TypeInv, NEW w \in Works, work[w].state # "new"
  PROVE  EffectsNow(w) \subseteq Effects
<1>1. work[w].part \in 1..Parts(w)
  BY DEF TypeInv, WorkCounted
<1>2. CASE Kind[w] = "stream"
  BY <1>2 DEF EffectsNow
<1>3. CASE Kind[w] # "stream"
  <2>1. work[w].part \in 1..Size[w]
    BY <1>1, <1>3 DEF Parts
  <2> QED BY <2>1, <1>3 DEF EffectsNow, Effects
<1> QED BY <1>2, <1>3

(* Marking the transaction unsafe, or recording a failure, keeps the marks
   typed. *)
LEMMA MarkTyped ==
  ASSUME TypeOK, NEW s \in Scopes, MarkUnsafe(s)
  PROVE  discard' = TRUE /\ unsafeDepth' \in {Depth[x] : x \in Scopes} /\ unsafeDepth' # 0
  BY ConstantsAssumption DEF TypeOK, MarkUnsafe, Min2

LEMMA FailureTyped ==
  ASSUME TypeOK, NEW s \in Scopes, RecordFailure(s)
  PROVE  /\ failed' \in [Scopes -> BOOLEAN]
         /\ discard' = TRUE
         /\ unsafeDepth' \in {Depth[x] : x \in Scopes}
         /\ unsafeDepth' # 0
  BY MarkTyped DEF TypeOK, RecordFailure

(* What a scope has to settle is work. *)
LEMMA TrackedTyped ==
  ASSUME TypeOK, NEW s \in Scopes
  PROVE  Tracked(s) \subseteq Works
  BY DEF TypeOK, Tracked, Owned, Busy

(* Work that is given another state stays typed and counted. *)
LEMMA FinishTyped ==
  ASSUME TypeInv, NEW w \in Works, work[w].state # "new",
         NEW state \in WorkStates \ {"new"}, Finish(w, state)
  PROVE  /\ work' \in [Works -> Work]
         /\ \A v \in Works : work'[v].state # "new" => work'[v].part \in 1..Parts(v)
         /\ \A v \in Works : work[v].state # "new" => work'[v].state # "new"
  BY DEF TypeInv, TypeOK, WorkCounted, Finish, Work, Parts

(* New commands keep the queue typed, and counted if they query issued work. *)
LEMMA SendTyped ==
  ASSUME TypeInv, NEW c \in Seq(Command), Send(c),
         \A v \in Works : work[v].state # "new" => work'[v].state # "new",
         \A i \in 1..Len(c) : c[i].op = "query" => work'[c[i].work].state # "new"
  PROVE  /\ queue' \in Seq(Command)
         /\ \A i \in 1..Len(queue') :
              queue'[i].op = "query" => work'[queue'[i].work].state # "new"
<1>1. queue \in Seq(Command) /\ queue' = queue \o c
  BY DEF TypeInv, TypeOK, Send
<1>2. /\ queue' \in Seq(Command)
      /\ Len(queue') = Len(queue) + Len(c)
      /\ \A i \in 1..Len(queue') : queue'[i] = IF i <= Len(queue) THEN queue[i] ELSE c[i - Len(queue)]
  BY <1>1, Appended
<1>3. ASSUME NEW i \in 1..Len(queue'), queue'[i].op = "query"
      PROVE  work'[queue'[i].work].state # "new"
  <2>1. Len(queue) \in Nat /\ Len(c) \in Nat
    BY <1>1
  <2>2. CASE i <= Len(queue)
    <3>1. i \in 1..Len(queue) /\ queue'[i] = queue[i] /\ queue[i] \in Command
      BY <1>1, <1>2, <2>1, <2>2
    <3>2. queue[i].work \in Works
      BY <3>1, <1>3 DEF Command, RootOps, NestedOps
    <3> QED BY <3>1, <3>2, <1>3 DEF TypeInv, WorkCounted
  <2>3. CASE ~ i <= Len(queue)
    <3>1. i - Len(queue) \in 1..Len(c)
      BY <1>2, <2>1, <2>3
    <3> QED BY <3>1, <1>2, <1>3, <2>3
  <2> QED BY <2>2, <2>3
<1> QED BY <1>2, <1>3

(* So does an answer that is followed by new commands. *)
LEMMA AnswerTyped ==
  ASSUME TypeInv, NEW op, IsHead(op), NEW c \in Seq(Command), Answer(c),
         \A v \in Works : work[v].state # "new" => work'[v].state # "new",
         \A i \in 1..Len(c) : c[i].op = "query" => work'[c[i].work].state # "new"
  PROVE  /\ queue' \in Seq(Command)
         /\ \A i \in 1..Len(queue') :
              queue'[i].op = "query" => work'[queue'[i].work].state # "new"
<1> DEFINE rest == Tail(queue)
<1>1. /\ rest \in Seq(Command) /\ queue' = rest \o c /\ queue \in Seq(Command)
      /\ Len(rest) = Len(queue) - 1
      /\ \A i \in 1..Len(rest) : rest[i] = queue[i + 1]
  BY HeadCommand DEF TypeInv, TypeOK, Answer
<1> HIDE DEF rest
<1>2. /\ queue' \in Seq(Command)
      /\ Len(queue') = Len(rest) + Len(c)
      /\ \A i \in 1..Len(queue') : queue'[i] = IF i <= Len(rest) THEN rest[i] ELSE c[i - Len(rest)]
  BY <1>1, Appended
<1>3. ASSUME NEW i \in 1..Len(queue'), queue'[i].op = "query"
      PROVE  work'[queue'[i].work].state # "new"
  <2>1. Len(rest) \in Nat /\ Len(c) \in Nat /\ Len(queue) \in Nat
    BY <1>1
  <2>2. CASE i <= Len(rest)
    <3>1. i + 1 \in 1..Len(queue) /\ queue'[i] = queue[i + 1]
      BY <1>1, <1>2, <2>1, <2>2
    <3>2. queue[i + 1] \in Command
      BY <3>1, <1>1
    <3>3. queue[i + 1].work \in Works
      BY <3>1, <3>2, <1>3 DEF Command, RootOps, NestedOps
    <3> QED BY <3>1, <3>3, <1>3 DEF TypeInv, WorkCounted
  <2>3. CASE ~ i <= Len(rest)
    <3>1. i - Len(rest) \in 1..Len(c)
      BY <1>2, <2>1, <2>3
    <3> QED BY <3>1, <1>2, <1>3, <2>3
  <2> QED BY <2>2, <2>3
<1> QED BY <1>2, <1>3

(* The sequences of commands the actions send. *)
LEMMA OneCommand ==
  ASSUME NEW c \in Command
  PROVE  <<c>> \in Seq(Command) /\ Len(<<c>>) = 1 /\ <<c>>[1] = c
  OBVIOUS

LEMMA ScopeCommand ==
  ASSUME NEW s \in Scopes, NEW op,
         (op \in RootOps /\ s = Root) \/ (op \in NestedOps /\ s # Root)
  PROVE  /\ [op |-> op, scope |-> s] \in Command
         /\ [op |-> op, scope |-> s].op = op
         /\ [op |-> op, scope |-> s].op # "query"
<1>1. [op |-> op, scope |-> s].op = op /\ op # "query"
  BY DEF RootOps, NestedOps
<1>2. CASE op \in RootOps /\ s = Root
  BY <1>1, <1>2 DEF Command
<1>3. CASE op \in NestedOps /\ s # Root
  BY <1>1, <1>3 DEF Command
<1> QED BY <1>1, <1>2, <1>3

LEMMA OneQuery ==
  ASSUME NEW w \in Works
  PROVE  /\ <<Query(w)>> \in Seq(Command)
         /\ Len(<<Query(w)>>) = 1
         /\ <<Query(w)>>[1].op = "query"
         /\ <<Query(w)>>[1].work = w
  BY QueryCommand

LEMMA ManyQueries ==
  ASSUME NEW w \in Works
  PROVE  /\ [i \in 1..Size[w] |-> Query(w)] \in Seq(Command)
         /\ \A i \in 1..Len([j \in 1..Size[w] |-> Query(w)]) :
              /\ [j \in 1..Size[w] |-> Query(w)][i].op = "query"
              /\ [j \in 1..Size[w] |-> Query(w)][i].work = w
<1>1. Size[w] \in Nat
  BY ConstantsAssumption
<1>2. Query(w) \in Command /\ Query(w).op = "query" /\ Query(w).work = w
  BY QueryCommand
<1>3. Len([j \in 1..Size[w] |-> Query(w)]) = Size[w]
  BY <1>1
<1> QED BY <1>1, <1>2, <1>3

LEMMA NoCommand ==
  /\ << >> \in Seq(Command)
  /\ Len(<< >>) = 0
  OBVIOUS

(* The queue stays typed and counted when it is left alone, when a query of
   issued work is sent, and when a command of a scope is sent. *)
LEMMA QueuedWork ==
  ASSUME TypeOK, NEW i \in 1..Len(queue)
  PROVE  queue[i] \in Command /\ (queue[i].op = "query" => queue[i].work \in Works)
<1>1. queue[i] \in Command
  BY DEF TypeOK
<1> QED BY <1>1 DEF Command, RootOps, NestedOps

LEMMA KeptTyped ==
  ASSUME TypeInv, UNCHANGED queue,
         \A v \in Works : work[v].state # "new" => work'[v].state # "new"
  PROVE  /\ queue' \in Seq(Command)
         /\ \A i \in 1..Len(queue') :
              queue'[i].op = "query" => work'[queue'[i].work].state # "new"
  BY QueuedWork DEF TypeInv, TypeOK, WorkCounted

LEMMA SendQueryTyped ==
  ASSUME TypeInv, NEW w \in Works, Send(<<Query(w)>>), work'[w].state # "new",
         \A v \in Works : work[v].state # "new" => work'[v].state # "new"
  PROVE  /\ queue' \in Seq(Command)
         /\ \A i \in 1..Len(queue') :
              queue'[i].op = "query" => work'[queue'[i].work].state # "new"
<1> DEFINE c == <<Query(w)>>
<1>1. c \in Seq(Command) /\ \A i \in 1..Len(c) : c[i].work = w
  BY OneQuery
<1>2. \A i \in 1..Len(c) : c[i].op = "query" => work'[c[i].work].state # "new"
  BY <1>1
<1>3. Send(c)
  OBVIOUS
<1> HIDE DEF c
<1> QED BY <1>1, <1>2, <1>3, SendTyped

LEMMA SendOpTyped ==
  ASSUME TypeInv, NEW d \in Command, d.op # "query", Send(<<d>>),
         \A v \in Works : work[v].state # "new" => work'[v].state # "new"
  PROVE  /\ queue' \in Seq(Command)
         /\ \A i \in 1..Len(queue') :
              queue'[i].op = "query" => work'[queue'[i].work].state # "new"
<1> DEFINE c == <<d>>
<1>1. c \in Seq(Command) /\ \A i \in 1..Len(c) : c[i].op # "query"
  BY OneCommand
<1>2. Send(c)
  OBVIOUS
<1> HIDE DEF c
<1> QED BY <1>1, <1>2, SendTyped

(* Issuing work. *)
LEMMA IssueTyped ==
  ASSUME TypeInv, NEW s \in Scopes, NEW w \in Works, Issue(s, w)
  PROVE  TypeInv'
<1>1. \E state \in {"created", "loading", "busy"} :
        work' = [work EXCEPT ![w] = [scope |-> s, state |-> state, part |-> 1, bad |-> FALSE]]
  BY ConstantsAssumption DEF Issue, Kinds
<1>2. /\ work' \in [Works -> Work]
      /\ \A v \in Works : work'[v].state # "new" => work'[v].part \in 1..Parts(v)
      /\ \A v \in Works : work[v].state # "new" => work'[v].state # "new"
      /\ work'[w].state # "new"
  <2>1. Parts(w) \in Nat /\ Parts(w) >= 1
    BY ConstantsAssumption DEF Parts
  <2> QED BY <1>1, <2>1 DEF TypeInv, TypeOK, WorkCounted, Work, WorkStates
<1>3. /\ queue' \in Seq(Command)
      /\ \A i \in 1..Len(queue') :
           queue'[i].op = "query" => work'[queue'[i].work].state # "new"
  <2>1. CASE UNCHANGED queue
    BY <2>1, <1>2, KeptTyped
  <2>2. CASE Send([i \in 1..Size[w] |-> Query(w)])
    <3> DEFINE c == [i \in 1..Size[w] |-> Query(w)]
    <3>1. c \in Seq(Command) /\ \A i \in 1..Len(c) : c[i].work = w
      BY ManyQueries
    <3>2. Send(c)
      BY <2>2
    <3> HIDE DEF c
    <3> QED BY <3>1, <3>2, <1>2, SendTyped
  <2>3. CASE Send(<<Query(w)>>)
    BY <2>3, <1>2, SendQueryTyped
  <2> QED BY <2>1, <2>2, <2>3, ConstantsAssumption DEF Issue, Kinds
<1> QED
  BY <1>2, <1>3 DEF Issue, TypeInv, TypeOK, WorkCounted, scopeVars, stateVars, leaseVars,
     serverVars, Parts

(* A stream starts, is closed, or a COPY starts. *)
LEMMA StartStreamTyped ==
  ASSUME TypeInv, NEW w \in Works, StartStream(w)
  PROVE  TypeInv'
<1>1. work[w].state = "created"
  BY DEF StartStream
<1>2. \E state \in {"busy", "failed"} : Finish(w, state)
  BY DEF StartStream
<1>3. /\ work' \in [Works -> Work]
      /\ \A v \in Works : work'[v].state # "new" => work'[v].part \in 1..Parts(v)
      /\ \A v \in Works : work[v].state # "new" => work'[v].state # "new"
  BY <1>1, <1>2, FinishTyped DEF WorkStates
<1>4. /\ queue' \in Seq(Command)
      /\ \A i \in 1..Len(queue') :
           queue'[i].op = "query" => work'[queue'[i].work].state # "new"
  <2>1. CASE UNCHANGED queue
    BY <2>1, <1>3, KeptTyped
  <2>2. CASE Send(<<Query(w)>>)
    BY <2>2, <1>1, <1>3, SendQueryTyped
  <2> QED BY <2>1, <2>2 DEF StartStream
<1> QED
  BY <1>3, <1>4 DEF StartStream, TypeInv, TypeOK, WorkCounted, scopeVars, stateVars,
     leaseVars, serverVars, Parts

LEMMA ClosingTyped ==
  ASSUME TypeInv, NEW w \in Works, Closing(w),
         UNCHANGED <<scopeVars, stateVars, leaseVars, serverVars>>
  PROVE  TypeInv'
<1>1. work[w].state # "new"
  BY DEF Closing
<1>2. \E state \in {"done", "closing"} : Finish(w, state)
  BY DEF Closing
<1>3. /\ work' \in [Works -> Work]
      /\ \A v \in Works : work'[v].state # "new" => work'[v].part \in 1..Parts(v)
      /\ \A v \in Works : work[v].state # "new" => work'[v].state # "new"
  BY <1>1, <1>2, FinishTyped DEF WorkStates
<1>4. /\ queue' \in Seq(Command)
      /\ \A i \in 1..Len(queue') :
           queue'[i].op = "query" => work'[queue'[i].work].state # "new"
  <2>1. CASE UNCHANGED queue
    BY <2>1, <1>3, KeptTyped
  <2>2. CASE Send(<<Query(w)>>)
    BY <2>2, <1>1, <1>3, SendQueryTyped
  <2> QED BY <2>1, <2>2 DEF Closing
<1> QED
  BY <1>3, <1>4 DEF TypeInv, TypeOK, WorkCounted, scopeVars, stateVars,
     leaseVars, serverVars, Parts

LEMMA StartCopyTyped ==
  ASSUME TypeInv, NEW w \in Works, StartCopy(w)
  PROVE  TypeInv'
<1>1. work[w].state # "new"
  BY DEF StartCopy
<1>2. \E state \in {"busy", "failed"} : Finish(w, state)
  BY DEF StartCopy
<1>3. /\ work' \in [Works -> Work]
      /\ \A v \in Works : work'[v].state # "new" => work'[v].part \in 1..Parts(v)
      /\ \A v \in Works : work[v].state # "new" => work'[v].state # "new"
  BY <1>1, <1>2, FinishTyped DEF WorkStates
<1>4. /\ queue' \in Seq(Command)
      /\ \A i \in 1..Len(queue') :
           queue'[i].op = "query" => work'[queue'[i].work].state # "new"
  <2>1. CASE UNCHANGED queue
    BY <2>1, <1>3, KeptTyped
  <2>2. CASE Send(<<Query(w)>>)
    BY <2>2, <1>1, <1>3, SendQueryTyped
  <2> QED BY <2>1, <2>2 DEF StartCopy
<1>5. activeCopy' \in Works \cup {NoWork}
  BY DEF StartCopy, TypeInv, TypeOK
<1> QED
  BY <1>3, <1>4, <1>5 DEF StartCopy, TypeInv, TypeOK, WorkCounted, scopeVars,
     leaseVars, serverVars, Parts

(* A controlled query is cancelled. *)
LEMMA CancelTyped ==
  ASSUME TypeInv, NEW w \in Works, Cancel(w)
  PROVE  TypeInv'
<1>1. work[w].scope \in Scopes
  BY DEF TypeInv, TypeOK, Work
<1>2. MarkUnsafe(work[w].scope)
  BY DEF Cancel
<1>3. discard' = TRUE /\ unsafeDepth' \in {Depth[x] : x \in Scopes} /\ unsafeDepth' # 0
  BY <1>1, <1>2, MarkTyped DEF TypeInv
<1>4. releases' \in Nat /\ lease' = "discarded" /\ frames' = << >> /\ conn' = "closed"
  BY DEF Cancel, TypeInv, TypeOK
<1> QED
  BY <1>3, <1>4 DEF Cancel, TypeInv, TypeOK, WorkCounted, scopeVars, Parts

(* The server's stack of savepoints stays typed when the effects of one change. *)
Frame == [scope : Scopes, effects : SUBSET Effects]

LEMMA FramesTyped ==
  ASSUME NEW q \in Seq(Frame), NEW n \in Nat, NEW e \in SUBSET Effects
  PROVE  [q EXCEPT ![n].effects = e] \in Seq(Frame)
<1>1. Len(q) \in Nat /\ DOMAIN q = 1..Len(q) /\ \A i \in 1..Len(q) : q[i] \in Frame
  OBVIOUS
<1>2. \A f \in Frame : [f EXCEPT !.effects = e] \in Frame
  BY DEF Frame
<1> DEFINE r == [i \in 1..Len(q) |-> IF i = n THEN [q[i] EXCEPT !.effects = e] ELSE q[i]]
<1>3. [q EXCEPT ![n].effects = e] = r
  BY <1>1
<1>4. r \in Seq(Frame)
  BY <1>1, <1>2
<1> QED BY <1>3, <1>4

(* The server runs or rejects a query, and the code resumes. *)
LEMMA ServerTyped ==
  ASSUME TypeInv, NEW w \in Works, work[w].state # "new", ServerRuns(w) \/ ServerRejects
  PROVE  /\ conn' \in {"idle", "txn", "aborted", "closed"}
         /\ frames' \in Seq([scope : Scopes, effects : SUBSET Effects])
         /\ committed' \subseteq Effects
         /\ torn' \in BOOLEAN
<1>1. EffectsNow(w) \subseteq Effects
  BY EffectsTyped
<1>2. CASE ServerRuns(w) /\ conn = "txn"
  <2>1. frames \in Seq(Frame) /\ Len(frames) \in Nat
    BY DEF TypeInv, TypeOK, Frame
  <2>2. /\ frames' = [frames EXCEPT ![Len(frames)].effects = @ \cup EffectsNow(w)]
        /\ UNCHANGED <<conn, committed, torn>>
    BY <1>2 DEF ServerRuns
  <2>3. CASE Len(frames) = 0
    <3>1. frames' = frames
      BY <2>1, <2>2, <2>3
    <3> QED BY <3>1, <2>2 DEF TypeInv, TypeOK
  <2>4. CASE Len(frames) # 0
    <3>1. frames[Len(frames)] \in Frame
      BY <2>1, <2>4
    <3> DEFINE e == frames[Len(frames)].effects \cup EffectsNow(w)
    <3>2. e \in SUBSET Effects
      BY <3>1, <1>1 DEF Frame
    <3>3. frames' = [frames EXCEPT ![Len(frames)].effects = e]
      BY <2>1, <2>2
    <3> HIDE DEF e
    <3>4. frames' \in Seq(Frame)
      BY <2>1, <3>2, <3>3, FramesTyped
    <3> QED BY <3>4, <2>2 DEF TypeInv, TypeOK, Frame
  <2> QED BY <2>3, <2>4
<1>3. CASE ServerRuns(w) /\ conn # "txn"
  BY <1>1, <1>3 DEF ServerRuns, TypeInv, TypeOK
<1>4. CASE ServerRejects
  BY <1>4 DEF ServerRejects, TypeInv, TypeOK
<1> QED BY <1>2, <1>3, <1>4

LEMMA ResumeTyped ==
  ASSUME TypeInv, IsHead("query"), NEW w, w = Head(queue).work, NEW ok \in BOOLEAN,
         Resume(w, ok)
  PROVE  /\ work' \in [Works -> Work]
         /\ \A v \in Works : work'[v].state # "new" => work'[v].part \in 1..Parts(v)
         /\ queue' \in Seq(Command)
         /\ \A i \in 1..Len(queue') :
              queue'[i].op = "query" => work'[queue'[i].work].state # "new"
         /\ failed' \in [Scopes -> BOOLEAN] /\ discard' \in BOOLEAN
         /\ unsafeDepth' \in {0} \cup {Depth[x] : x \in Scopes}
         /\ activeCopy' \in Works \cup {NoWork}
<1>1. w \in Works /\ work[w].state # "new" /\ queue # << >> /\ Len(queue) >= 1
  <2>1. queue # << >> /\ Head(queue) = queue[1] /\ queue[1].op = "query" /\ w \in Works
    BY HeadCommand DEF TypeInv
  <2>2. 1 \in 1..Len(queue)
    BY <2>1 DEF TypeInv, TypeOK
  <2> QED BY <2>1, <2>2 DEF TypeInv, WorkCounted
<1>2. work[w] \in Work /\ work[w].scope \in Scopes /\ work[w].part \in 1..Parts(w) /\ Parts(w) \in Nat
  BY <1>1, ConstantsAssumption DEF TypeInv, TypeOK, WorkCounted, Work, Parts
<1> DEFINE bad == work[w].bad \/ ~ ok \/ (work[w].part < Parts(w) /\ ~ GoesOn(w, ok))
<1>3. PICK b \in BOOLEAN : b = bad
  OBVIOUS
<1>4. CASE GoesOn(w, ok)
  <2>1. /\ work' = [work EXCEPT ![w].part = @ + 1, ![w].bad = b]
        /\ UNCHANGED <<failed, discard, unsafeDepth, activeCopy>>
        /\ Answer(IF Kind[w] = "batch" THEN <<Query(w)>> ELSE << >>)
    BY <1>3, <1>4 DEF Resume
  <2>2. work[w].part + 1 \in 1..Parts(w)
    BY <1>2, <1>4 DEF GoesOn
  <2> HIDE DEF bad
  <2>3. /\ work' \in [Works -> Work]
        /\ \A v \in Works : work'[v].state = work[v].state
        /\ \A v \in Works : work'[v].state # "new" => work'[v].part \in 1..Parts(v)
    <3> DEFINE n == work[w].part + 1
               r == [work[w] EXCEPT !.part = n, !.bad = b]
    <3>1. n \in Nat
      BY <1>2
    <3>2. work' = [work EXCEPT ![w] = r]
      BY <2>1
    <3>3. work \in [Works -> Work] /\ n \in 1..Parts(w)
      BY <2>2 DEF TypeInv, TypeOK
    <3> HIDE DEF n
    <3>4. r = [work[w] EXCEPT !.part = n, !.bad = b] /\ work[w] \in Work
      BY <1>2
    <3> HIDE DEF r
    <3>5. b \in BOOLEAN
      BY <1>3
    <3>6. CASE b = TRUE
      <4>1. r \in Work /\ r.state = work[w].state /\ r.part = n
        BY <3>1, <3>4, <3>6 DEF Work
      <4> QED BY <1>1, <3>2, <3>3, <4>1 DEF TypeInv, WorkCounted, n
    <3>7. CASE b = FALSE
      <4>1. r \in Work /\ r.state = work[w].state /\ r.part = n
        BY <3>1, <3>4, <3>7 DEF Work
      <4> QED BY <1>1, <3>2, <3>3, <4>1 DEF TypeInv, WorkCounted, n
    <3> QED BY <3>5, <3>6, <3>7
  <2> DEFINE c == IF Kind[w] = "batch" THEN <<Query(w)>> ELSE << >>
  <2>4. c \in Seq(Command) /\ \A i \in 1..Len(c) : c[i].work = w
    BY <1>1, OneQuery, NoCommand
  <2>5. Answer(c)
    BY <2>1
  <2> HIDE DEF c
  <2>6. /\ queue' \in Seq(Command)
        /\ \A i \in 1..Len(queue') :
             queue'[i].op = "query" => work'[queue'[i].work].state # "new"
    BY <1>1, <2>3, <2>4, <2>5, AnswerTyped
  <2> QED BY <2>1, <2>3, <2>6 DEF TypeInv, TypeOK
<1>5. CASE ~ GoesOn(w, ok)
  <2>1. /\ Answer(<< >>)
        /\ Finish(w, IF bad THEN "failed" ELSE "done")
        /\ IF bad THEN RecordFailure(work[w].scope) ELSE UNCHANGED <<failed, discard, unsafeDepth>>
        /\ activeCopy' = IF activeCopy = w THEN NoWork ELSE activeCopy
    BY <1>5 DEF Resume
  <2> HIDE DEF bad
  <2>2. (IF bad THEN "failed" ELSE "done") \in WorkStates \ {"new"}
    BY DEF WorkStates
  <2>3. /\ work' \in [Works -> Work]
        /\ \A v \in Works : work'[v].state # "new" => work'[v].part \in 1..Parts(v)
        /\ \A v \in Works : work[v].state # "new" => work'[v].state # "new"
    BY <1>1, <2>1, <2>2, FinishTyped
  <2> DEFINE c == << >>
  <2>4. c \in Seq(Command) /\ \A i \in 1..Len(c) : c[i].op = "query" => work'[c[i].work].state # "new"
    BY NoCommand
  <2>5. Answer(c)
    BY <2>1
  <2> HIDE DEF c
  <2>6. /\ queue' \in Seq(Command)
        /\ \A i \in 1..Len(queue') :
             queue'[i].op = "query" => work'[queue'[i].work].state # "new"
    BY <2>3, <2>4, <2>5, AnswerTyped
  <2>7. /\ failed' \in [Scopes -> BOOLEAN] /\ discard' \in BOOLEAN
        /\ unsafeDepth' \in {0} \cup {Depth[x] : x \in Scopes}
    <3>1. CASE bad
      BY <3>1, <2>1, <1>2, FailureTyped DEF TypeInv
    <3>2. CASE ~ bad
      BY <3>2, <2>1 DEF TypeInv, TypeOK
    <3> QED BY <3>1, <3>2
  <2>8. activeCopy' \in Works \cup {NoWork}
    BY <2>1 DEF TypeInv, TypeOK
  <2> QED BY <2>3, <2>6, <2>7, <2>8
<1> QED BY <1>4, <1>5

LEMMA AnswerQueryTyped ==
  ASSUME TypeInv, AnswerQuery
  PROVE  TypeInv'
<1> DEFINE w == Head(queue).work
<1>1. /\ IsHead("query")
      /\ \E ok \in BOOLEAN : Resume(w, ok)
      /\ ServerRuns(w) \/ ServerRejects
      /\ UNCHANGED <<pc, open, waits, valid, leaseVars>>
  BY DEF AnswerQuery
<1>2. w \in Works /\ work[w].state # "new"
  <2>1. queue # << >> /\ Head(queue) = queue[1] /\ queue[1].op = "query" /\ w \in Works
    BY <1>1, HeadCommand DEF TypeInv
  <2>2. 1 \in 1..Len(queue)
    BY <2>1 DEF TypeInv, TypeOK
  <2> QED BY <2>1, <2>2 DEF TypeInv, WorkCounted
<1>3. PICK ok \in BOOLEAN : Resume(w, ok)
  BY <1>1
<1>4. /\ work' \in [Works -> Work]
      /\ \A v \in Works : work'[v].state # "new" => work'[v].part \in 1..Parts(v)
      /\ queue' \in Seq(Command)
      /\ \A i \in 1..Len(queue') :
           queue'[i].op = "query" => work'[queue'[i].work].state # "new"
      /\ failed' \in [Scopes -> BOOLEAN] /\ discard' \in BOOLEAN
      /\ unsafeDepth' \in {0} \cup {Depth[x] : x \in Scopes}
      /\ activeCopy' \in Works \cup {NoWork}
  BY <1>1, <1>3, ResumeTyped
<1>5. /\ conn' \in {"idle", "txn", "aborted", "closed"}
      /\ frames' \in Seq([scope : Scopes, effects : SUBSET Effects])
      /\ committed' \subseteq Effects
      /\ torn' \in BOOLEAN
  BY <1>1, <1>2, ServerTyped
<1> HIDE DEF w
<1> QED BY <1>1, <1>4, <1>5 DEF TypeInv, TypeOK, WorkCounted, leaseVars, Parts

(* An answer that nothing follows, and a scope that settles its work. *)
LEMMA AnswerOnlyTyped ==
  ASSUME TypeInv, NEW op, IsHead(op), Answer(<< >>), UNCHANGED work
  PROVE  /\ queue' \in Seq(Command)
         /\ \A i \in 1..Len(queue') :
              queue'[i].op = "query" => work'[queue'[i].work].state # "new"
<1> DEFINE c == << >>
<1>1. c \in Seq(Command) /\ \A i \in 1..Len(c) : c[i].op = "query" => work'[c[i].work].state # "new"
  BY NoCommand
<1>2. Answer(c)
  OBVIOUS
<1> HIDE DEF c
<1> QED BY <1>1, <1>2, AnswerTyped

LEMMA GotoTyped ==
  ASSUME TypeOK, NEW s \in Scopes, NEW label \in PCs, Goto(s, label)
  PROVE  pc' \in [Scopes -> PCs]
  BY DEF TypeOK, Goto

LEMMA AwaitTyped ==
  ASSUME TypeOK, NEW s \in Scopes, NEW label \in PCs, Await(s, label)
  PROVE  pc' \in [Scopes -> PCs] /\ waits' \in [Scopes -> SUBSET Works]
  BY TrackedTyped, GotoTyped DEF TypeOK, Await

LEMMA EnterTyped ==
  ASSUME TypeOK, NEW s \in Scopes, Enter(s)
  PROVE  /\ frames' \in Seq([scope : Scopes, effects : SUBSET Effects])
         /\ open' \in [Scopes -> BOOLEAN]
         /\ pc' \in [Scopes -> PCs]
<1>1. Goto(s, "running") /\ "running" \in PCs
  BY DEF Enter, PCs
<1>2. [scope |-> s, effects |-> {}] \in Frame
  BY DEF Frame
<1>3. frames \in Seq(Frame) /\ frames' = Append(frames, [scope |-> s, effects |-> {}])
  BY DEF TypeOK, Enter, Frame
<1>4. frames' \in Seq(Frame)
  BY <1>2, <1>3
<1> QED BY <1>1, <1>4, GotoTyped DEF Enter, TypeOK, Frame

(* A transaction begins. *)
LEMMA AnswerBeginTyped ==
  ASSUME TypeInv, AnswerBegin
  PROVE  TypeInv'
<1>1. IsHead("BEGIN") /\ Answer(<< >>) /\ UNCHANGED <<waits, activeCopy, work, leaseVars, committed, torn>>
  BY DEF AnswerBegin
<1>2. /\ queue' \in Seq(Command)
      /\ \A i \in 1..Len(queue') :
           queue'[i].op = "query" => work'[queue'[i].work].state # "new"
  BY <1>1, AnswerOnlyTyped
<1>3. CASE conn = "idle" /\ conn' = "txn" /\ Enter(Root) /\ UNCHANGED <<failed, discard, unsafeDepth, valid>>
  <2>1. /\ frames' \in Seq([scope : Scopes, effects : SUBSET Effects])
        /\ open' \in [Scopes -> BOOLEAN] /\ pc' \in [Scopes -> PCs]
    BY <1>3, EnterTyped, ConstantsAssumption DEF TypeInv
  <2> QED BY <1>1, <1>2, <1>3, <2>1 DEF TypeInv, TypeOK, WorkCounted, leaseVars, Parts
<1>4. CASE /\ conn = "closed" /\ RecordFailure(Root) /\ Goto(Root, "settling") /\ valid' = FALSE
           /\ UNCHANGED <<conn, frames, open>>
  <2>1. pc' \in [Scopes -> PCs]
    BY <1>4, GotoTyped, ConstantsAssumption DEF TypeInv, PCs
  <2>2. /\ failed' \in [Scopes -> BOOLEAN] /\ discard' = TRUE
        /\ unsafeDepth' \in {Depth[x] : x \in Scopes}
    BY <1>4, FailureTyped, ConstantsAssumption DEF TypeInv
  <2> QED BY <1>1, <1>2, <1>4, <2>1, <2>2 DEF TypeInv, TypeOK, WorkCounted, leaseVars, Parts
<1> QED BY <1>3, <1>4 DEF AnswerBegin

LEMMA StartNestedTyped ==
  ASSUME TypeInv, NEW s \in Scopes, StartNested(s)
  PROVE  TypeInv'
<1>1. pc' \in [Scopes -> PCs]
  BY GotoTyped DEF StartNested, TypeInv, PCs
<1>2. /\ queue' \in Seq(Command)
      /\ \A i \in 1..Len(queue') :
           queue'[i].op = "query" => work'[queue'[i].work].state # "new"
  <2> DEFINE d == [op |-> "SAVEPOINT", scope |-> s]
  <2>1. d \in Command /\ d.op # "query"
    BY ScopeCommand DEF StartNested, NestedOps
  <2>2. Send(<<d>>) /\ UNCHANGED work
    BY DEF StartNested
  <2> HIDE DEF d
  <2> QED BY <2>1, <2>2, SendOpTyped
<1> QED
  BY <1>1, <1>2 DEF StartNested, TypeInv, TypeOK, WorkCounted, stateVars, leaseVars, serverVars, Parts

LEMMA AnswerSavepointTyped ==
  ASSUME TypeInv, AnswerSavepoint
  PROVE  TypeInv'
<1> DEFINE s == Head(queue).scope
<1>1. /\ IsHead("SAVEPOINT") /\ Answer(<< >>)
      /\ UNCHANGED <<waits, valid, activeCopy, work, leaseVars, conn, committed, torn>>
  BY DEF AnswerSavepoint
<1>2. /\ queue' \in Seq(Command)
      /\ \A i \in 1..Len(queue') :
           queue'[i].op = "query" => work'[queue'[i].work].state # "new"
  BY <1>1, AnswerOnlyTyped
<1>3. s \in Scopes \ {Root}
  BY <1>1, HeadCommand DEF TypeInv, NestedOps
<1>4. CASE conn = "txn"
  <2>1. Enter(s) /\ UNCHANGED <<failed, discard, unsafeDepth>>
    BY <1>4 DEF AnswerSavepoint
  <2> HIDE DEF s
  <2>2. /\ frames' \in Seq([scope : Scopes, effects : SUBSET Effects])
        /\ open' \in [Scopes -> BOOLEAN] /\ pc' \in [Scopes -> PCs]
    BY <1>3, <2>1, EnterTyped DEF TypeInv
  <2> QED BY <1>1, <1>2, <2>1, <2>2 DEF TypeInv, TypeOK, WorkCounted, leaseVars, Parts
<1>5. CASE conn # "txn"
  <2>1. RecordFailure(Parent[s]) /\ Goto(s, "threw") /\ UNCHANGED <<frames, open>>
    BY <1>5 DEF AnswerSavepoint
  <2>2. Parent[s] \in Scopes
    BY <1>3, ConstantsAssumption
  <2> HIDE DEF s
  <2>3. pc' \in [Scopes -> PCs]
    BY <1>3, <2>1, GotoTyped DEF TypeInv, PCs
  <2>4. /\ failed' \in [Scopes -> BOOLEAN] /\ discard' = TRUE
        /\ unsafeDepth' \in {Depth[x] : x \in Scopes}
    BY <2>1, <2>2, FailureTyped DEF TypeInv
  <2> QED BY <1>1, <1>2, <2>1, <2>3, <2>4 DEF TypeInv, TypeOK, WorkCounted, leaseVars, Parts
<1> QED BY <1>4, <1>5

(* A callback ends, and its scope settles what is left. *)
LEMMA ReturnTyped ==
  ASSUME TypeInv, NEW s \in Scopes, Return(s)
  PROVE  TypeInv'
<1>1. /\ CloseScope(s)
      /\ UNCHANGED <<failed, unsafeDepth, discard, activeCopy, work, leaseVars, serverVars>>
  BY DEF Return
<1>2. open' \in [Scopes -> BOOLEAN] /\ valid' \in BOOLEAN
  BY <1>1 DEF CloseScope, TypeInv, TypeOK
<1>3. /\ queue' \in Seq(Command)
      /\ \A i \in 1..Len(queue') :
           queue'[i].op = "query" => work'[queue'[i].work].state # "new"
  <2>1. CASE UNCHANGED queue
    BY <2>1, <1>1, KeptTyped
  <2>2. CASE Send(<<[op |-> IF s = Root THEN "COMMIT" ELSE "RELEASE", scope |-> s]>>)
    <3> DEFINE d == [op |-> IF s = Root THEN "COMMIT" ELSE "RELEASE", scope |-> s]
    <3>1. d \in Command /\ d.op # "query"
      BY ScopeCommand DEF NestedOps, RootOps
    <3>2. Send(<<d>>) /\ UNCHANGED work
      BY <2>2, <1>1
    <3> HIDE DEF d
    <3> QED BY <3>1, <3>2, SendOpTyped
  <2> QED BY <2>1, <2>2 DEF Return
<1>4. pc' \in [Scopes -> PCs] /\ waits' \in [Scopes -> SUBSET Works]
  <2>1. CASE Await(s, "settling") \/ Await(s, "leaked")
    BY <2>1, AwaitTyped DEF TypeInv, PCs
  <2>2. CASE Goto(s, "ending") /\ UNCHANGED waits
    BY <2>2, GotoTyped DEF TypeInv, TypeOK, PCs
  <2> QED BY <2>1, <2>2 DEF Return
<1> QED
  BY <1>1, <1>2, <1>3, <1>4 DEF TypeInv, TypeOK, WorkCounted, leaseVars, serverVars, Parts

LEMMA ThrowTyped ==
  ASSUME TypeInv, NEW s \in Scopes, Throw(s)
  PROVE  TypeInv'
<1>1. /\ CloseScope(s) /\ Await(s, "settling")
      /\ UNCHANGED <<failed, unsafeDepth, discard, activeCopy, work, leaseVars, queue, serverVars>>
  BY DEF Throw
<1>2. open' \in [Scopes -> BOOLEAN] /\ valid' \in BOOLEAN
  BY <1>1 DEF CloseScope, TypeInv, TypeOK
<1>3. pc' \in [Scopes -> PCs] /\ waits' \in [Scopes -> SUBSET Works]
  BY <1>1, AwaitTyped DEF TypeInv, PCs
<1> QED
  BY <1>1, <1>2, <1>3 DEF TypeInv, TypeOK, WorkCounted, leaseVars, serverVars, Parts

LEMMA SettleStreamTyped ==
  ASSUME TypeInv, NEW s \in Scopes, SettleStream(s)
  PROVE  TypeInv'
<1>1. PICK w \in waits[s] : Closing(w)
  BY DEF SettleStream
<1>2. w \in Works
  BY <1>1 DEF TypeInv, TypeOK
<1> QED BY <1>1, <1>2, ClosingTyped DEF SettleStream

LEMMA SettledTyped ==
  ASSUME TypeInv, NEW s \in Scopes, Settled(s)
  PROVE  TypeInv'
<1> DEFINE d == [op |-> IF s = Root THEN "ROLLBACK" ELSE "ROLLBACK TO", scope |-> s]
<1>1. UNCHANGED <<open, failed, stateVars, work, leaseVars, serverVars>>
  BY DEF Settled
<1>2. \/ Await(s, "settling") /\ UNCHANGED queue
      \/ Send(<<d>>) /\ Goto(s, "undoing") /\ UNCHANGED waits
      \/ Goto(s, "threw") /\ UNCHANGED <<waits, queue>>
  BY DEF Settled
<1>3. d \in Command /\ d.op # "query"
  BY ScopeCommand DEF NestedOps, RootOps
<1> HIDE DEF d
<1>4. /\ queue' \in Seq(Command)
      /\ \A i \in 1..Len(queue') :
           queue'[i].op = "query" => work'[queue'[i].work].state # "new"
  <2>1. CASE UNCHANGED queue
    BY <2>1, <1>1, KeptTyped
  <2>2. CASE Send(<<d>>)
    BY <2>2, <1>1, <1>3, SendOpTyped
  <2> QED BY <2>1, <2>2, <1>2
<1>5. pc' \in [Scopes -> PCs] /\ waits' \in [Scopes -> SUBSET Works]
  <2>1. CASE Await(s, "settling")
    BY <2>1, AwaitTyped DEF TypeInv, PCs
  <2>2. CASE (Goto(s, "undoing") \/ Goto(s, "threw")) /\ UNCHANGED waits
    BY <2>2, GotoTyped DEF TypeInv, TypeOK, PCs
  <2> QED BY <2>1, <2>2, <1>2
<1> QED
  BY <1>1, <1>4, <1>5 DEF TypeInv, TypeOK, WorkCounted, stateVars, leaseVars, serverVars, Parts

(* The server ends a nested transaction. *)
LEMMA UnwoundTyped ==
  ASSUME TypeOK, NEW s, NEW k \in Latest(s)
  PROVE  /\ k \in 2..Len(frames)
         /\ SubSeq(frames, 1, k) \in Seq(Frame)
         /\ SubSeq(frames, 1, k - 1) \in Seq(Frame)
<1>1. frames \in Seq(Frame) /\ Len(frames) \in Nat /\ DOMAIN frames = 1..Len(frames)
  BY DEF TypeOK, Frame
<1>2. k \in 2..Len(frames)
  BY <1>1 DEF Latest, Named
<1> QED BY <1>1, <1>2

LEMMA AnswerReleaseTyped ==
  ASSUME TypeInv, AnswerRelease
  PROVE  TypeInv'
<1> DEFINE s == Head(queue).scope
<1>1. /\ IsHead("RELEASE") /\ Answer(<< >>)
      /\ UNCHANGED <<open, valid, activeCopy, work, leaseVars, committed, torn>>
  BY DEF AnswerRelease
<1>2. /\ queue' \in Seq(Command)
      /\ \A i \in 1..Len(queue') :
           queue'[i].op = "query" => work'[queue'[i].work].state # "new"
  BY <1>1, AnswerOnlyTyped
<1>3. s \in Scopes
  BY <1>1, HeadCommand DEF TypeInv, NestedOps
<1>4. ASSUME conn = "txn", NEW k \in Latest(s),
             frames' = [SubSeq(frames, 1, k - 1) EXCEPT ![k - 1].effects =
                          UNION {frames[i].effects : i \in (k - 1)..Len(frames)}],
             Goto(s, "fulfilled"), UNCHANGED <<failed, discard, unsafeDepth, waits, conn>>
      PROVE  TypeInv'
  <2> DEFINE e == UNION {frames[i].effects : i \in (k - 1)..Len(frames)}
  <2>1. k \in Int /\ k - 1 \in 1..Len(frames) /\ k - 1 \in Nat /\ SubSeq(frames, 1, k - 1) \in Seq(Frame)
    BY <1>4, UnwoundTyped DEF TypeInv
  <2>2. e \in SUBSET Effects
    <3>1. frames \in Seq(Frame) /\ Len(frames) \in Nat
      BY DEF TypeInv, TypeOK, Frame
    <3>2. \A i \in 1..Len(frames) : frames[i] \in Frame
      BY <3>1
    <3>3. \A i \in (k - 1)..Len(frames) : frames[i].effects \subseteq Effects
      BY <2>1, <3>1, <3>2 DEF Frame
    <3> QED BY <3>3
  <2>3. frames' = [SubSeq(frames, 1, k - 1) EXCEPT ![k - 1].effects = e]
    BY <1>4
  <2> HIDE DEF e
  <2>4. frames' \in Seq(Frame)
    BY <2>1, <2>2, <2>3, FramesTyped
  <2> HIDE DEF s
  <2>5. pc' \in [Scopes -> PCs]
    BY <1>3, <1>4, GotoTyped DEF TypeInv, PCs
  <2> QED
    BY <1>1, <1>2, <1>4, <2>4, <2>5 DEF TypeInv, TypeOK, WorkCounted, leaseVars, Parts, Frame
<1>5. CASE /\ RecordFailure(s) /\ Await(s, "settling")
           /\ conn' = (IF conn = "txn" THEN "aborted" ELSE conn)
           /\ UNCHANGED frames
  <2> HIDE DEF s
  <2>1. /\ failed' \in [Scopes -> BOOLEAN] /\ discard' = TRUE
        /\ unsafeDepth' \in {Depth[x] : x \in Scopes}
    BY <1>3, <1>5, FailureTyped DEF TypeInv
  <2>2. pc' \in [Scopes -> PCs] /\ waits' \in [Scopes -> SUBSET Works]
    BY <1>3, <1>5, AwaitTyped DEF TypeInv, PCs
  <2> QED
    BY <1>1, <1>2, <1>5, <2>1, <2>2 DEF TypeInv, TypeOK, WorkCounted, leaseVars, Parts
<1> QED BY <1>4, <1>5 DEF AnswerRelease

LEMMA AnswerRollbackToTyped ==
  ASSUME TypeInv, AnswerRollbackTo
  PROVE  TypeInv'
<1> DEFINE s == Head(queue).scope
<1>1. /\ IsHead("ROLLBACK TO") /\ Answer(<< >>) /\ Goto(s, "threw")
      /\ UNCHANGED <<open, failed, waits, valid, activeCopy, work, leaseVars, committed, torn>>
  BY DEF AnswerRollbackTo
<1>2. /\ queue' \in Seq(Command)
      /\ \A i \in 1..Len(queue') :
           queue'[i].op = "query" => work'[queue'[i].work].state # "new"
  BY <1>1, AnswerOnlyTyped
<1>3. s \in Scopes
  BY <1>1, HeadCommand DEF TypeInv, NestedOps
<1>4. pc' \in [Scopes -> PCs]
  BY <1>1, <1>3, GotoTyped DEF TypeInv, PCs
<1>5. ASSUME NEW k \in Latest(s), frames' = [SubSeq(frames, 1, k) EXCEPT ![k].effects = {}],
             conn' = "txn", unsafeDepth' = (IF Recovers(s) THEN 0 ELSE unsafeDepth),
             UNCHANGED discard
      PROVE  TypeInv'
  <2>1. k \in Nat /\ SubSeq(frames, 1, k) \in Seq(Frame)
    BY <1>5, UnwoundTyped DEF TypeInv
  <2>2. frames' \in Seq(Frame)
    BY <1>5, <2>1, FramesTyped
  <2> HIDE DEF s
  <2> QED
    BY <1>1, <1>2, <1>4, <1>5, <2>2 DEF TypeInv, TypeOK, WorkCounted, leaseVars, Parts, Frame
<1>6. CASE MarkUnsafe(s) /\ conn' = (IF conn = "txn" THEN "aborted" ELSE conn) /\ UNCHANGED frames
  <2> HIDE DEF s
  <2>1. discard' = TRUE /\ unsafeDepth' \in {Depth[x] : x \in Scopes}
    BY <1>3, <1>6, MarkTyped DEF TypeInv
  <2> QED
    BY <1>1, <1>2, <1>4, <1>6, <2>1 DEF TypeInv, TypeOK, WorkCounted, leaseVars, Parts
<1> QED BY <1>5, <1>6 DEF AnswerRollbackTo

(* The root ends, and the connection breaks. *)
LEMMA EffectsOfFrames ==
  ASSUME TypeOK
  PROVE  AllEffects \subseteq Effects
<1>1. frames \in Seq(Frame) /\ DOMAIN frames = 1..Len(frames)
  BY DEF TypeOK, Frame
<1>2. \A i \in DOMAIN frames : frames[i] \in Frame
  BY <1>1
<1>3. \A i \in DOMAIN frames : frames[i].effects \subseteq Effects
  BY <1>2 DEF Frame
<1> QED BY <1>3 DEF AllEffects

LEMMA AnswerCommitTyped ==
  ASSUME TypeInv, AnswerCommit
  PROVE  TypeInv'
<1>1. /\ IsHead("COMMIT") /\ Answer(<< >>) /\ frames' = << >>
      /\ UNCHANGED <<open, valid, activeCopy, work, torn>>
  BY DEF AnswerCommit
<1>2. /\ queue' \in Seq(Command)
      /\ \A i \in 1..Len(queue') :
           queue'[i].op = "query" => work'[queue'[i].work].state # "new"
  BY <1>1, AnswerOnlyTyped
<1>3. Root \in Scopes /\ AllEffects \subseteq Effects /\ frames' \in Seq(Frame)
  BY <1>1, EffectsOfFrames, ConstantsAssumption DEF TypeInv
<1>4. CASE /\ conn' = "idle"
           /\ committed' = committed \cup (IF conn = "txn" THEN AllEffects ELSE {})
           /\ Goto(Root, "fulfilled") /\ ReleaseLease(discard)
           /\ UNCHANGED <<failed, discard, unsafeDepth, waits>>
  <2>1. pc' \in [Scopes -> PCs]
    BY <1>3, <1>4, GotoTyped DEF TypeInv, PCs
  <2>2. lease' \in {"held", "returned", "discarded"} /\ releases' \in Nat
    BY <1>4 DEF ReleaseLease, TypeInv, TypeOK
  <2> QED
    BY <1>1, <1>2, <1>3, <1>4, <2>1, <2>2 DEF TypeInv, TypeOK, WorkCounted, Parts, Frame
<1>5. CASE /\ conn' = (IF conn = "txn" THEN "idle" ELSE conn)
           /\ RecordFailure(Root) /\ Await(Root, "settling")
           /\ UNCHANGED <<committed, leaseVars>>
  <2>1. /\ failed' \in [Scopes -> BOOLEAN] /\ discard' = TRUE
        /\ unsafeDepth' \in {Depth[x] : x \in Scopes}
    BY <1>3, <1>5, FailureTyped DEF TypeInv
  <2>2. pc' \in [Scopes -> PCs] /\ waits' \in [Scopes -> SUBSET Works]
    BY <1>3, <1>5, AwaitTyped DEF TypeInv, PCs
  <2> QED
    BY <1>1, <1>2, <1>3, <1>5, <2>1, <2>2 DEF TypeInv, TypeOK, WorkCounted, leaseVars, Parts, Frame
<1> QED BY <1>4, <1>5 DEF AnswerCommit

LEMMA AnswerRollbackTyped ==
  ASSUME TypeInv, AnswerRollback
  PROVE  TypeInv'
<1>1. /\ IsHead("ROLLBACK") /\ Answer(<< >>) /\ frames' = << >> /\ Goto(Root, "threw")
      /\ UNCHANGED <<open, failed, waits, valid, activeCopy, work, committed, torn>>
  BY DEF AnswerRollback
<1>2. /\ queue' \in Seq(Command)
      /\ \A i \in 1..Len(queue') :
           queue'[i].op = "query" => work'[queue'[i].work].state # "new"
  BY <1>1, AnswerOnlyTyped
<1>3. Root \in Scopes /\ frames' \in Seq(Frame) /\ pc' \in [Scopes -> PCs]
  BY <1>1, GotoTyped, ConstantsAssumption DEF TypeInv, PCs
<1>4. lease' \in {"held", "returned", "discarded"} /\ releases' \in Nat
  BY DEF AnswerRollback, ReleaseLease, TypeInv, TypeOK
<1>5. /\ discard' \in BOOLEAN /\ unsafeDepth' \in {0} \cup {Depth[x] : x \in Scopes}
      /\ conn' \in {"idle", "txn", "aborted", "closed"}
  <2>1. CASE conn = "closed"
    BY <2>1, <1>3, MarkTyped DEF AnswerRollback, TypeInv
  <2>2. CASE conn # "closed"
    BY <2>2 DEF AnswerRollback, TypeInv, TypeOK
  <2> QED BY <2>1, <2>2
<1> QED
  BY <1>1, <1>2, <1>3, <1>4, <1>5 DEF TypeInv, TypeOK, WorkCounted, Parts, Frame

LEMMA BreakTyped ==
  ASSUME TypeInv, Break
  PROVE  TypeInv'
<1>1. /\ conn' = "closed" /\ frames' = << >> /\ torn' \in BOOLEAN /\ committed' \subseteq Effects
  BY EffectsOfFrames DEF Break, TypeInv, TypeOK
<1> QED
  BY <1>1 DEF Break, TypeInv, TypeOK, WorkCounted, scopeVars, stateVars, leaseVars, Parts

LEMMA TypeInit ==
  ASSUME Init
  PROVE  TypeInv
<1>1. Root \in Scopes
  BY ConstantsAssumption
<1> DEFINE d == [op |-> "BEGIN", scope |-> Root]
<1>2. d \in Command /\ d.op # "query"
  BY <1>1, ScopeCommand DEF RootOps
<1>3. queue = <<d>>
  BY DEF Init
<1> HIDE DEF d
<1>4. queue \in Seq(Command) /\ \A i \in 1..Len(queue) : queue[i].op # "query"
  BY <1>2, <1>3
<1>5. work \in [Works -> Work] /\ \A w \in Works : work[w].state = "new"
  <2>1. [scope |-> Root, state |-> "new", part |-> 0, bad |-> FALSE] \in Work
    BY <1>1 DEF Work, WorkStates
  <2> QED BY <2>1 DEF Init
<1>6. pc \in [Scopes -> PCs]
  BY DEF Init, PCs
<1>7. frames \in Seq(Frame)
  BY DEF Init
<1> QED BY <1>4, <1>5, <1>6, <1>7 DEF Init, TypeInv, TypeOK, WorkCounted, Frame

LEMMA TypeStep ==
  ASSUME TypeInv, [Next]_vars
  PROVE  TypeInv'
<1>1. CASE UNCHANGED vars
  BY <1>1 DEF vars, TypeInv, TypeOK, WorkCounted, Parts
<1>2. CASE Answers
  BY <1>2, AnswerQueryTyped, AnswerBeginTyped, AnswerSavepointTyped, AnswerReleaseTyped,
     AnswerRollbackToTyped, AnswerCommitTyped, AnswerRollbackTyped DEF Answers
<1>3. CASE Break
  BY <1>3, BreakTyped
<1>4. ASSUME NEW w \in Works, StartStream(w) \/ CloseStream(w) \/ StartCopy(w) \/ Cancel(w)
      PROVE  TypeInv'
  BY <1>4, StartStreamTyped, ClosingTyped, StartCopyTyped, CancelTyped DEF CloseStream
<1>5. ASSUME NEW s \in Scopes,
             \/ \E w \in Works : Issue(s, w)
             \/ StartNested(s) \/ Return(s) \/ Throw(s) \/ SettleStream(s) \/ Settled(s)
      PROVE  TypeInv'
  BY <1>5, IssueTyped, StartNestedTyped, ReturnTyped, ThrowTyped, SettleStreamTyped, SettledTyped
<1> QED BY <1>1, <1>2, <1>3, <1>4, <1>5 DEF Next

(* Every state a transaction can be in has its declared type, and a batch, a
   pipeline or a stream is never asked for a part it does not have (execute,
   executeBatch, executePipeline, stream). *)
THEOREM TypeCorrect == Spec => []TypeOK
<1>1. Init => TypeInv
  BY TypeInit
<1>2. TypeInv /\ [Next]_vars => TypeInv'
  BY TypeStep
<1>3. TypeInv => TypeOK
  BY DEF TypeInv
<1> QED BY <1>1, <1>2, <1>3, PTL DEF Spec

-------------------------------------------------------------------------------
(***************************************************************************)
(* The lease.  Lemmas about the root's commands in the queue.              *)
(***************************************************************************)

(* A queue without commands of the root says nothing about it. *)
LEMMA NoRootCommand ==
  ASSUME NEW q, NEW p, \A i \in 1..Len(q) : q[i].op \notin RootOps
  PROVE  RootCommands(q, p)
  BY DEF RootCommands

(* Commands of others may be sent, also behind an answer. *)
LEMMA OthersSent ==
  ASSUME NEW q \in Seq(Command), NEW c \in Seq(Command), NEW p, RootCommands(q, p),
         \A i \in 1..Len(c) : c[i].op \notin RootOps
  PROVE  RootCommands(q \o c, p)
<1> DEFINE r == q \o c
<1>1. /\ Len(q) \in Nat /\ Len(c) \in Nat /\ Len(r) = Len(q) + Len(c)
      /\ \A i \in 1..Len(r) : r[i] = IF i <= Len(q) THEN q[i] ELSE c[i - Len(q)]
  BY Appended
<1> HIDE DEF r
<1>2. ASSUME NEW i \in 1..Len(r), r[i].op \in RootOps
      PROVE  i \in 1..Len(q) /\ r[i] = q[i]
  <2>1. CASE ~ i <= Len(q)
    <3>1. i - Len(q) \in 1..Len(c) /\ r[i] = c[i - Len(q)]
      BY <1>1, <2>1
    <3> QED BY <3>1, <1>2
  <2>2. CASE i <= Len(q)
    BY <1>1, <2>2
  <2> QED BY <2>1, <2>2
<1>3. RootCommands(r, p)
  BY <1>2 DEF RootCommands
<1> QED BY <1>3 DEF r

LEMMA OthersLeft ==
  ASSUME TypeInv, NEW op, IsHead(op), NEW p, RootCommands(queue, p)
  PROVE  /\ RootCommands(Tail(queue), p)
         /\ op \in RootOps => \A i \in 1..Len(Tail(queue)) : Tail(queue)[i].op \notin RootOps
<1> DEFINE r == Tail(queue)
<1>1. /\ queue # << >> /\ queue[1].op = op /\ Len(r) = Len(queue) - 1 /\ Len(queue) \in Nat
      /\ \A i \in 1..Len(r) : r[i] = queue[i + 1]
  BY HeadCommand DEF TypeInv, TypeOK
<1>2. 1 \in 1..Len(queue)
  BY <1>1 DEF TypeInv, TypeOK
<1> HIDE DEF r
<1>3. \A i \in 1..Len(r) : i + 1 \in 1..Len(queue) /\ i + 1 # 1 /\ r[i] = queue[i + 1]
  BY <1>1
<1>4. RootCommands(r, p)
  <2>1. \A i \in 1..Len(r) : r[i].op \in RootOps => p = Awaiting(r[i].op)
    BY <1>3 DEF RootCommands
  <2>2. ASSUME NEW i \in 1..Len(r), NEW j \in 1..Len(r), r[i].op \in RootOps, r[j].op \in RootOps
        PROVE  i = j
    <3>1. i + 1 = j + 1
      BY <1>3, <2>2 DEF RootCommands
    <3>2. i \in Int /\ j \in Int
      BY <2>2
    <3> QED BY <3>1, <3>2
  <2> QED BY <2>1, <2>2 DEF RootCommands
<1>5. op \in RootOps => \A i \in 1..Len(r) : r[i].op \notin RootOps
  BY <1>1, <1>2, <1>3 DEF RootCommands
<1> QED BY <1>4, <1>5 DEF r

(* A command of the root is sent only while none is in the queue. *)
LEMMA RootSent ==
  ASSUME TypeInv, RootCommands(queue, pc[Root]), NEW d \in Command, d.op \in RootOps,
         Send(<<d>>), pc[Root] \notin {"opening", "ending", "undoing"}
  PROVE  RootCommands(queue', Awaiting(d.op))
<1>1. queue \in Seq(Command) /\ Len(queue) \in Nat /\ queue' = queue \o <<d>>
  BY DEF TypeInv, TypeOK, Send
<1>2. \A i \in 1..Len(queue) : queue[i].op \notin RootOps
  BY DEF RootCommands, Awaiting, RootOps
<1>3. <<d>> \in Seq(Command) /\ Len(<<d>>) = 1 /\ <<d>>[1] = d
  BY OneCommand
<1>4. /\ Len(queue') = Len(queue) + 1
      /\ \A i \in 1..Len(queue') : queue'[i] = IF i <= Len(queue) THEN queue[i] ELSE <<d>>[i - Len(queue)]
  BY <1>1, <1>3, Appended
<1>5. ASSUME NEW i \in 1..Len(queue'), queue'[i].op \in RootOps
      PROVE  i = Len(queue) + 1 /\ queue'[i] = d
  <2>1. ~ i <= Len(queue)
    <3>1. CASE i <= Len(queue)
      <4>1. i \in 1..Len(queue) /\ queue'[i] = queue[i]
        BY <1>1, <1>4, <3>1
      <4> QED BY <4>1, <1>2, <1>5
    <3> QED BY <3>1
  <2>2. i = Len(queue) + 1
    BY <1>1, <1>4, <2>1
  <2> QED BY <1>1, <1>3, <1>4, <2>1, <2>2
<1> QED BY <1>5 DEF RootCommands

(***************************************************************************)
(* Steps of the work and of the nested transactions.                       *)
(***************************************************************************)

(* What such a step must not disturb. *)
LEMMA LeaseKept ==
  ASSUME TypeInv, LeaseInv, pc[Root] # "opening",
         pc'[Root] = pc[Root], UNCHANGED leaseVars, waits'[Root] = waits[Root],
         RootCommands(queue', pc[Root]),
         ~ valid => ~ valid',
         conn = "closed" => conn' = "closed",
         conn = "closed" /\ unsafeDepth # 0 => unsafeDepth' # 0,
         RootOver => \A w \in Works : Kind[w] = "execute" /\ work'[w].state \in {"busy", "closing"}
                        => work[w].state \in {"busy", "closing"}
  PROVE  LeaseInv'
<1>1. LeaseReleasedOnce' /\ RootCommands(queue, pc[Root])' /\ pc'[Root] # "opening"
  BY DEF LeaseInv, LeaseReleasedOnce, leaseVars, RootCommands
<1>2. (pc[Root] = "running" /\ lease # "held" => conn = "closed" /\ unsafeDepth # 0)'
  BY DEF LeaseInv, leaseVars
<1>3. (RootOver => ~ valid)'
  BY DEF LeaseInv, RootOver
<1>4. RootOver => Busy("execute")' \subseteq Busy("execute")
  BY DEF Busy
<1>5. (pc[Root] \in {"leaked", "settling"} => Busy("execute") \subseteq waits[Root])'
  BY <1>4 DEF LeaseInv, RootOver
<1>6. (pc[Root] \in {"ending", "undoing"} \cup Ended => Busy("execute") = {})'
  BY <1>4 DEF LeaseInv, RootOver
<1>7. (pc[Root] \in {"ending", "undoing"} => lease = "held")'
  BY DEF LeaseInv, leaseVars
<1> QED BY <1>1, <1>2, <1>3, <1>5, <1>6, <1>7 DEF LeaseInv

(* Until BEGIN is answered only the server and the connection act. *)
LEMMA NobodyYet ==
  ASSUME TypeInv, LeaseInv, pc[Root] = "opening", Next
  PROVE  AnswerBegin \/ Break
<1>1. /\ \A s \in Scopes : ~ open[s] /\ (s # Root => pc[s] = "none")
      /\ \A w \in Works : work[w].state = "new"
      /\ queue # << >> => Head(queue).op = "BEGIN"
  BY DEF LeaseInv, TypeInv, TypeOK
<1>2. CASE Answers
  BY <1>1, <1>2 DEF Answers, AnswerQuery, AnswerSavepoint, AnswerRelease, AnswerRollbackTo,
     AnswerCommit, AnswerRollback, IsHead
<1>3. ASSUME NEW w \in Works, StartStream(w) \/ CloseStream(w) \/ StartCopy(w) \/ Cancel(w)
      PROVE  FALSE
  BY <1>1, <1>3 DEF StartStream, CloseStream, Closing, StartCopy, Cancel
<1>4. ASSUME NEW s \in Scopes,
             \/ \E w \in Works : Issue(s, w)
             \/ StartNested(s) \/ Return(s) \/ Throw(s) \/ SettleStream(s) \/ Settled(s)
      PROVE  FALSE
  <2>1. s # Root => Parent[s] \in Scopes
    BY ConstantsAssumption
  <2>2. pc[s] \notin {"running", "leaked", "settling"}
    BY <1>1
  <2> QED
    BY <1>1, <1>4, <2>1, <2>2 DEF Issue, MayUse, ScopeOpen, StartNested, Return, Throw,
       CallbackMayEnd, SettleStream, Settled, Settling
<1> QED BY <1>2, <1>3, <1>4 DEF Next

(* The queue after a step of somebody else than the root. *)
LEMMA QuerySent ==
  ASSUME TypeInv, NEW p, RootCommands(queue, p), NEW w \in Works, Send(<<Query(w)>>)
  PROVE  RootCommands(queue', p)
<1> DEFINE c == <<Query(w)>>
<1>1. c \in Seq(Command) /\ \A i \in 1..Len(c) : c[i].op \notin RootOps
  BY OneQuery DEF RootOps
<1>2. queue \in Seq(Command) /\ queue' = queue \o c
  BY DEF TypeInv, TypeOK, Send
<1> HIDE DEF c
<1> QED BY <1>1, <1>2, OthersSent

LEMMA NestedSent ==
  ASSUME TypeInv, NEW p, RootCommands(queue, p), NEW s \in Scopes \ {Root}, NEW op \in NestedOps,
         Send(<<[op |-> op, scope |-> s]>>)
  PROVE  RootCommands(queue', p)
<1> DEFINE d == [op |-> op, scope |-> s]
<1>1. d \in Command /\ d.op \notin RootOps
  BY ScopeCommand DEF RootOps, NestedOps
<1>2. Send(<<d>>)
  OBVIOUS
<1> HIDE DEF d
<1> DEFINE c == <<d>>
<1>3. c \in Seq(Command) /\ \A i \in 1..Len(c) : c[i].op \notin RootOps
  BY <1>1, OneCommand
<1>4. queue \in Seq(Command) /\ queue' = queue \o c
  BY <1>2 DEF TypeInv, TypeOK, Send
<1> HIDE DEF c
<1> QED BY <1>3, <1>4, OthersSent

LEMMA AnsweredAlone ==
  ASSUME TypeInv, NEW p, RootCommands(queue, p), NEW op, IsHead(op), Answer(<< >>)
  PROVE  /\ RootCommands(queue', p)
         /\ op \in RootOps => \A i \in 1..Len(queue') : queue'[i].op \notin RootOps
<1>1. queue' = Tail(queue) \o << >> /\ Tail(queue) \in Seq(Command)
  BY HeadCommand DEF Answer, TypeInv
<1>2. queue' = Tail(queue)
  BY <1>1
<1> QED BY <1>2, OthersLeft

LEMMA AnsweredWithQuery ==
  ASSUME TypeInv, NEW p, RootCommands(queue, p), NEW op, IsHead(op), NEW w \in Works,
         Answer(<<Query(w)>>)
  PROVE  RootCommands(queue', p)
<1> DEFINE c == <<Query(w)>>
<1>1. c \in Seq(Command) /\ \A i \in 1..Len(c) : c[i].op \notin RootOps
  BY OneQuery DEF RootOps
<1>2. queue' = Tail(queue) \o c
  BY DEF Answer
<1> HIDE DEF c
<1>3. Tail(queue) \in Seq(Command) /\ RootCommands(Tail(queue), p)
  BY HeadCommand, OthersLeft DEF TypeInv
<1> QED BY <1>1, <1>2, <1>3, OthersSent

(* Work is issued, starts, is closed or is cancelled. *)
LEMMA IssueKeepsLease ==
  ASSUME TypeInv, LeaseInv, pc[Root] # "opening", NEW s \in Scopes, NEW w \in Works, Issue(s, w)
  PROVE  LeaseInv'
<1>1. valid /\ UNCHANGED <<scopeVars, stateVars, leaseVars, serverVars>>
  BY DEF Issue, MayUse, ScopeOpen
<1>2. RootCommands(queue', pc[Root])
  <2>1. CASE UNCHANGED queue
    BY <2>1 DEF LeaseInv
  <2>2. CASE Send([i \in 1..Size[w] |-> Query(w)])
    <3> DEFINE c == [i \in 1..Size[w] |-> Query(w)]
    <3>1. c \in Seq(Command) /\ \A i \in 1..Len(c) : c[i].op \notin RootOps
      BY ManyQueries DEF RootOps
    <3>2. queue \in Seq(Command) /\ queue' = queue \o c
      BY <2>2 DEF TypeInv, TypeOK, Send
    <3> HIDE DEF c
    <3> QED BY <3>1, <3>2, OthersSent DEF LeaseInv
  <2>3. CASE Send(<<Query(w)>>)
    BY <2>3, QuerySent DEF LeaseInv
  <2> QED BY <2>1, <2>2, <2>3, ConstantsAssumption DEF Issue, Kinds
<1>3. ~ RootOver
  BY <1>1 DEF LeaseInv
<1> QED BY <1>1, <1>2, <1>3, LeaseKept DEF scopeVars, stateVars, serverVars

LEMMA StartStreamKeepsLease ==
  ASSUME TypeInv, LeaseInv, pc[Root] # "opening", NEW w \in Works, StartStream(w)
  PROVE  LeaseInv'
<1>1. UNCHANGED <<scopeVars, stateVars, leaseVars, serverVars>>
  BY DEF StartStream
<1>2. RootCommands(queue', pc[Root])
  BY QuerySent DEF LeaseInv, StartStream
<1>3. RootOver => Finish(w, "failed")
  BY DEF StartStream, ScopeOpen, LeaseInv
<1>4. RootOver => \A v \in Works : work'[v].state \in {"busy", "closing"}
                    => work[v].state \in {"busy", "closing"}
  BY <1>3 DEF Finish, TypeInv, TypeOK, Work
<1> QED BY <1>1, <1>2, <1>4, LeaseKept DEF scopeVars, stateVars, serverVars

LEMMA ClosingKeepsLease ==
  ASSUME TypeInv, LeaseInv, pc[Root] # "opening", NEW w \in Works, Closing(w),
         UNCHANGED <<scopeVars, stateVars, leaseVars, serverVars>>
  PROVE  LeaseInv'
<1>1. RootCommands(queue', pc[Root])
  BY QuerySent DEF LeaseInv, Closing
<1>2. \A v \in Works : Kind[v] = "execute" => work'[v] = work[v]
  BY DEF Closing, Finish, TypeInv, TypeOK
<1> QED BY <1>1, <1>2, LeaseKept DEF scopeVars, stateVars, serverVars

LEMMA StartCopyKeepsLease ==
  ASSUME TypeInv, LeaseInv, pc[Root] # "opening", NEW w \in Works, StartCopy(w)
  PROVE  LeaseInv'
<1>1. RootCommands(queue', pc[Root])
  BY QuerySent DEF LeaseInv, StartCopy
<1>2. \A v \in Works : Kind[v] = "execute" => work'[v] = work[v]
  BY DEF StartCopy, Finish, TypeInv, TypeOK
<1> QED BY <1>1, <1>2, LeaseKept DEF StartCopy, scopeVars, serverVars

LEMMA CancelKeepsLease ==
  ASSUME TypeInv, LeaseInv, pc[Root] # "opening", NEW w \in Works, Cancel(w)
  PROVE  LeaseInv'
<1>1. w \in Busy("execute") /\ work[w].scope \in Scopes
  BY DEF Cancel, Busy, TypeInv, TypeOK, Work
<1>2. pc[Root] \notin {"ending", "undoing"} \cup Ended
  BY <1>1 DEF LeaseInv
<1>3. unsafeDepth' # 0
  BY <1>1, MarkTyped DEF Cancel, TypeInv
<1>4. LeaseReleasedOnce'
  BY DEF Cancel, LeaseInv, LeaseReleasedOnce, TypeInv, TypeOK
<1>5. /\ UNCHANGED <<scopeVars, valid, work, queue>> /\ conn' = "closed"
      /\ Busy("execute")' = Busy("execute")
  BY DEF Cancel, Busy
<1> QED BY <1>2, <1>3, <1>4, <1>5 DEF LeaseInv, scopeVars, RootCommands, RootOver

(* Another scope than the root moves on. *)
LEMMA OtherGoes ==
  ASSUME TypeInv, NEW s \in Scopes \ {Root}, NEW label
  PROVE  /\ Goto(s, label) => pc'[Root] = pc[Root]
         /\ Await(s, label) => pc'[Root] = pc[Root] /\ waits'[Root] = waits[Root]
<1>1. Root \in Scopes /\ s # Root
  BY ConstantsAssumption
<1>2. Goto(s, label) => pc'[Root] = pc[Root]
  BY <1>1 DEF Goto, TypeInv, TypeOK
<1> QED BY <1>1, <1>2 DEF Await, TypeInv, TypeOK

(* A query is answered. *)
LEMMA AnswerQueryKeepsLease ==
  ASSUME TypeInv, LeaseInv, pc[Root] # "opening", AnswerQuery
  PROVE  LeaseInv'
<1> DEFINE w == Head(queue).work
<1>1. /\ IsHead("query") /\ UNCHANGED <<pc, open, waits, valid, leaseVars>>
      /\ ServerRuns(w) \/ ServerRejects
      /\ \E ok \in BOOLEAN : Resume(w, ok)
  BY DEF AnswerQuery
<1>2. PICK ok \in BOOLEAN : Resume(w, ok)
  BY <1>1
<1>3. w \in Works /\ work[w].scope \in Scopes
  BY <1>1, HeadCommand DEF TypeInv, TypeOK, Work
<1>4. conn = "closed" => conn' = "closed"
  BY <1>1 DEF ServerRuns, ServerRejects
<1> HIDE DEF w
<1>5. RootCommands(queue', pc[Root])
  <2>1. Answer(<< >>) \/ Answer(<<Query(w)>>)
    BY <1>2 DEF Resume
  <2> QED BY <1>1, <1>3, <2>1, AnsweredAlone, AnsweredWithQuery DEF LeaseInv
<1>6. unsafeDepth # 0 => unsafeDepth' # 0
  BY <1>2, <1>3, MarkTyped DEF Resume, RecordFailure, TypeInv
<1>7. \A v \in Works : work'[v].state \in {"busy", "closing"} => work[v].state \in {"busy", "closing"}
  <2>1. \/ \E state \in Finished : Finish(w, state)
        \/ \E bad : work' = [work EXCEPT ![w].part = @ + 1, ![w].bad = bad]
    BY <1>2 DEF Resume, Finished
  <2>2. \A v \in Works : work[v] \in Work
    BY DEF TypeInv, TypeOK
  <2>3. work \in [Works -> Work]
    BY DEF TypeInv, TypeOK
  <2>4. ASSUME NEW state \in Finished, Finish(w, state), NEW v \in Works,
               work'[v].state \in {"busy", "closing"}
        PROVE  work[v].state \in {"busy", "closing"}
    BY <1>3, <2>2, <2>3, <2>4 DEF Finish, Finished, Work
  <2>5. ASSUME NEW bad, work' = [work EXCEPT ![w].part = @ + 1, ![w].bad = bad], NEW v \in Works
        PROVE  work'[v].state = work[v].state
    BY <1>3, <2>2, <2>3, <2>5 DEF Work
  <2> QED BY <2>1, <2>4, <2>5
<1> QED BY <1>1, <1>4, <1>5, <1>6, <1>7, LeaseKept

(* BEGIN is answered: the root's only command, and nothing else has happened. *)
LEMMA AnswerBeginKeepsLease ==
  ASSUME TypeInv, LeaseInv, AnswerBegin
  PROVE  LeaseInv'
<1>1. pc[Root] = "opening"
  <2>1. queue # << >> /\ queue[1].op = "BEGIN" /\ 1 \in 1..Len(queue)
    BY HeadCommand DEF AnswerBegin, TypeInv, TypeOK
  <2> QED BY <2>1 DEF LeaseInv, RootCommands, Awaiting, RootOps
<1>2. UNCHANGED <<waits, work, leaseVars>> /\ Root \in Scopes
  BY ConstantsAssumption DEF AnswerBegin
<1>3. RootCommands(queue', pc'[Root])
  BY AnsweredAlone, NoRootCommand DEF AnswerBegin, LeaseInv, RootOps
<1>4. lease' = "held" /\ LeaseReleasedOnce'
  BY <1>1, <1>2 DEF LeaseInv, LeaseReleasedOnce, leaseVars
<1>5. Busy("execute")' = {}
  BY <1>1, <1>2 DEF LeaseInv, Busy
<1>6. \/ pc'[Root] = "running"
      \/ pc'[Root] = "settling" /\ valid' = FALSE
  BY <1>2 DEF AnswerBegin, Enter, Goto, TypeInv, TypeOK
<1> QED BY <1>3, <1>4, <1>5, <1>6 DEF LeaseInv, RootOver, Ended

(* A nested transaction begins, is settled and is undone. *)
LEMMA StartNestedKeepsLease ==
  ASSUME TypeInv, LeaseInv, pc[Root] # "opening", NEW s \in Scopes, StartNested(s)
  PROVE  LeaseInv'
<1>1. s \in Scopes \ {Root} /\ pc'[Root] = pc[Root]
  BY DEF StartNested, Goto, TypeInv, TypeOK
<1>2. RootCommands(queue', pc[Root])
  BY <1>1, NestedSent DEF StartNested, LeaseInv, NestedOps
<1> QED BY <1>1, <1>2, LeaseKept DEF StartNested, stateVars, serverVars

LEMMA AnswerSavepointKeepsLease ==
  ASSUME TypeInv, LeaseInv, pc[Root] # "opening", AnswerSavepoint
  PROVE  LeaseInv'
<1> DEFINE s == Head(queue).scope
<1>1. s \in Scopes \ {Root} /\ Parent[s] \in Scopes
  BY HeadCommand, ConstantsAssumption DEF AnswerSavepoint, TypeInv, NestedOps
<1>2. /\ IsHead("SAVEPOINT") /\ Answer(<< >>)
      /\ UNCHANGED <<waits, valid, work, leaseVars, conn>>
      /\ \/ Enter(s) /\ UNCHANGED unsafeDepth
         \/ RecordFailure(Parent[s]) /\ Goto(s, "threw")
  BY DEF AnswerSavepoint
<1> HIDE DEF s
<1>3. RootCommands(queue', pc[Root])
  BY <1>2, AnsweredAlone DEF LeaseInv
<1>4. pc'[Root] = pc[Root]
  BY <1>1, <1>2, OtherGoes DEF Enter
<1>5. unsafeDepth # 0 => unsafeDepth' # 0
  BY <1>1, <1>2, MarkTyped DEF RecordFailure, TypeInv
<1> QED BY <1>2, <1>3, <1>4, <1>5, LeaseKept

LEMMA SettleStreamKeepsLease ==
  ASSUME TypeInv, LeaseInv, pc[Root] # "opening", NEW s \in Scopes, SettleStream(s)
  PROVE  LeaseInv'
<1>1. PICK w \in waits[s] : Closing(w)
  BY DEF SettleStream
<1>2. w \in Works
  BY <1>1 DEF TypeInv, TypeOK
<1> QED BY <1>1, <1>2, ClosingKeepsLease DEF SettleStream

LEMMA AnswerReleaseKeepsLease ==
  ASSUME TypeInv, LeaseInv, pc[Root] # "opening", AnswerRelease
  PROVE  LeaseInv'
<1> DEFINE s == Head(queue).scope
<1>1. s \in Scopes \ {Root}
  BY HeadCommand DEF AnswerRelease, TypeInv, NestedOps
<1>2. /\ IsHead("RELEASE") /\ Answer(<< >>)
      /\ UNCHANGED <<valid, work, leaseVars>>
      /\ \/ Goto(s, "fulfilled") /\ UNCHANGED <<unsafeDepth, waits, conn>>
         \/ /\ RecordFailure(s) /\ Await(s, "settling")
            /\ conn' = (IF conn = "txn" THEN "aborted" ELSE conn)
  BY DEF AnswerRelease
<1> HIDE DEF s
<1>3. RootCommands(queue', pc[Root])
  BY <1>2, AnsweredAlone DEF LeaseInv
<1>4. pc'[Root] = pc[Root] /\ waits'[Root] = waits[Root]
  BY <1>1, <1>2, OtherGoes
<1>5. unsafeDepth # 0 => unsafeDepth' # 0
  BY <1>1, <1>2, MarkTyped DEF RecordFailure, TypeInv
<1> QED BY <1>2, <1>3, <1>4, <1>5, LeaseKept

LEMMA AnswerRollbackToKeepsLease ==
  ASSUME TypeInv, LeaseInv, pc[Root] # "opening", AnswerRollbackTo
  PROVE  LeaseInv'
<1> DEFINE s == Head(queue).scope
<1>1. s \in Scopes \ {Root}
  BY HeadCommand DEF AnswerRollbackTo, TypeInv, NestedOps
<1>2. /\ IsHead("ROLLBACK TO") /\ Answer(<< >>) /\ Goto(s, "threw")
      /\ UNCHANGED <<waits, valid, work, leaseVars>>
      /\ \/ conn # "closed"
         \/ MarkUnsafe(s) /\ conn' = (IF conn = "txn" THEN "aborted" ELSE conn)
  BY DEF AnswerRollbackTo
<1> HIDE DEF s
<1>3. RootCommands(queue', pc[Root])
  BY <1>2, AnsweredAlone DEF LeaseInv
<1>4. pc'[Root] = pc[Root]
  BY <1>1, <1>2, OtherGoes
<1>5. conn = "closed" => conn' = "closed" /\ unsafeDepth' # 0
  BY <1>1, <1>2, MarkTyped DEF TypeInv
<1> QED BY <1>2, <1>3, <1>4, <1>5, LeaseKept

(* A scope other than the root ends: the root's lease is not its business. *)
LEMMA NestedEndKeepsLease ==
  ASSUME TypeInv, LeaseInv, pc[Root] # "opening", NEW s \in Scopes \ {Root},
         Return(s) \/ Throw(s) \/ Settled(s)
  PROVE  LeaseInv'
<1>1. /\ UNCHANGED <<unsafeDepth, work, leaseVars, conn>>
      /\ ~ valid => ~ valid'
  <2>1. CASE Return(s) \/ Throw(s)
    BY <2>1 DEF Return, Throw, CloseScope, serverVars
  <2>2. CASE Settled(s)
    BY <2>2 DEF Settled, serverVars, stateVars
  <2> QED BY <2>1, <2>2
<1>2. pc'[Root] = pc[Root] /\ waits'[Root] = waits[Root]
  BY OtherGoes DEF Return, Throw, Settled
<1>3. \/ UNCHANGED queue
      \/ Send(<<[op |-> "RELEASE", scope |-> s]>>)
      \/ Send(<<[op |-> "ROLLBACK TO", scope |-> s]>>)
  BY DEF Return, Throw, Settled
<1>4. RootCommands(queue', pc[Root])
  <2>1. "RELEASE" \in NestedOps /\ "ROLLBACK TO" \in NestedOps
    BY DEF NestedOps
  <2> QED BY <1>3, <2>1, NestedSent DEF LeaseInv
<1> QED BY <1>1, <1>2, <1>4, LeaseKept

-------------------------------------------------------------------------------
(***************************************************************************)
(* Steps of the root.                                                      *)
(***************************************************************************)
(* What occupies the client is among what a scope settles. *)
LEMMA AwaitRoot ==
  ASSUME TypeInv, NEW label, Await(Root, label), UNCHANGED work
  PROVE  /\ pc'[Root] = label
         /\ (Busy("execute") \subseteq waits[Root])'
<1>1. Root \in Scopes
  BY ConstantsAssumption
<1>2. Busy("execute")' = Busy("execute")
  BY DEF Busy
<1>3. waits'[Root] = Tracked(Root) /\ pc'[Root] = label
  BY <1>1 DEF Await, Goto, TypeInv, TypeOK
<1> QED BY <1>2, <1>3 DEF Tracked

LEMMA GotoRoot ==
  ASSUME TypeInv, NEW label, Goto(Root, label)
  PROVE  pc'[Root] = label
  BY ConstantsAssumption DEF Goto, TypeInv, TypeOK

LEMMA RootCommand ==
  ASSUME NEW op \in RootOps
  PROVE  [op |-> op, scope |-> Root] \in Command /\ [op |-> op, scope |-> Root].op = op
  BY ScopeCommand, ConstantsAssumption

(* The root's callback has ended: either its work is awaited, or there is none
   and the lease is held for COMMIT. *)
LEMMA AwaitKeepsLease ==
  ASSUME TypeInv, LeaseInv, NEW label \in {"leaked", "settling"}, Await(Root, label),
         pc[Root] \notin {"opening", "ending", "undoing"},
         UNCHANGED <<work, leaseVars, queue>>, ~ valid'
  PROVE  LeaseInv'
<1>1. pc'[Root] = label /\ (Busy("execute") \subseteq waits[Root])'
  BY AwaitRoot
<1>2. \A i \in 1..Len(queue) : queue[i].op \notin RootOps
  BY DEF LeaseInv, RootCommands, Awaiting, RootOps
<1>3. RootCommands(queue, pc[Root])'
  BY <1>2, NoRootCommand
<1>4. LeaseReleasedOnce'
  BY DEF LeaseInv, LeaseReleasedOnce, leaseVars
<1> QED BY <1>1, <1>3, <1>4 DEF LeaseInv, Ended

LEMMA SendKeepsLease ==
  ASSUME TypeInv, LeaseInv, NEW op \in {"COMMIT", "ROLLBACK"},
         pc[Root] \notin {"opening", "ending", "undoing"},
         Send(<<[op |-> op, scope |-> Root]>>), Goto(Root, Awaiting(op)),
         UNCHANGED <<work, leaseVars>>, ~ valid', lease = "held", Busy("execute") = {}
  PROVE  LeaseInv'
<1> DEFINE d == [op |-> op, scope |-> Root]
<1>1. d \in Command /\ d.op \in RootOps /\ d.op = op
  BY RootCommand DEF RootOps
<1>2. Send(<<d>>)
  OBVIOUS
<1> HIDE DEF d
<1>3. RootCommands(queue', Awaiting(op))
  BY <1>1, <1>2, RootSent DEF LeaseInv
<1>4. pc'[Root] = Awaiting(op) /\ Awaiting(op) \in {"ending", "undoing"}
  BY GotoRoot DEF Awaiting
<1>5. Busy("execute")' = {} /\ lease' = "held" /\ LeaseReleasedOnce'
  BY DEF Busy, LeaseInv, LeaseReleasedOnce, leaseVars
<1> QED BY <1>3, <1>4, <1>5 DEF LeaseInv, Ended

LEMMA ReturnKeepsLease ==
  ASSUME TypeInv, LeaseInv, Return(Root)
  PROVE  LeaseInv'
<1>1. /\ pc[Root] = "running" /\ ~ valid'
      /\ UNCHANGED <<work, leaseVars>>
  BY DEF Return, CallbackMayEnd, CloseScope
<1>2. CASE (Await(Root, "settling") \/ Await(Root, "leaked")) /\ UNCHANGED queue
  BY <1>1, <1>2, AwaitKeepsLease
<1>3. CASE /\ ~ CannotCommit(Root) /\ Tracked(Root) = {}
           /\ Send(<<[op |-> "COMMIT", scope |-> Root]>>) /\ Goto(Root, "ending")
  <2>1. lease = "held"
    BY <1>1, <1>3 DEF LeaseInv, CannotCommit
  <2>2. Busy("execute") = {}
    BY <1>3 DEF Tracked
  <2>3. Awaiting("COMMIT") = "ending"
    BY DEF Awaiting
  <2> QED BY <1>1, <1>3, <2>1, <2>2, <2>3, SendKeepsLease
<1> QED BY <1>2, <1>3 DEF Return

LEMMA ThrowKeepsLease ==
  ASSUME TypeInv, LeaseInv, Throw(Root)
  PROVE  LeaseInv'
  BY AwaitKeepsLease DEF Throw, CallbackMayEnd, CloseScope

(* The root has settled its work, so that no query holds the lease back. *)
LEMMA SettledKeepsLease ==
  ASSUME TypeInv, LeaseInv, Settled(Root)
  PROVE  LeaseInv'
<1>1. /\ pc[Root] \in {"leaked", "settling"} /\ ~ valid'
      /\ UNCHANGED <<work, leaseVars>>
  BY DEF Settled, Settling, LeaseInv, RootOver, stateVars
<1>2. Busy("execute") = {}
  <2>1. \A w \in Busy("execute") : work[w].state \in Finished
    BY <1>1 DEF Settled, LeaseInv
  <2> QED BY <2>1 DEF Busy, Finished
<1>3. CASE Await(Root, "settling") /\ UNCHANGED queue
  BY <1>1, <1>3, AwaitKeepsLease
<1>4. CASE /\ MustUndo(Root)
           /\ Send(<<[op |-> "ROLLBACK", scope |-> Root]>>) /\ Goto(Root, "undoing")
  <2>1. Awaiting("ROLLBACK") = "undoing"
    BY DEF Awaiting
  <2> QED BY <1>1, <1>2, <1>4, <2>1, SendKeepsLease DEF MustUndo, LeaseGone
<1>5. CASE Goto(Root, "threw") /\ UNCHANGED queue
  <2>1. pc'[Root] = "threw"
    BY <1>5, GotoRoot
  <2>2. \A i \in 1..Len(queue) : queue[i].op \notin RootOps
    BY <1>1 DEF LeaseInv, RootCommands, Awaiting, RootOps
  <2>3. RootCommands(queue, pc[Root])'
    BY <1>5, <2>2, NoRootCommand
  <2>4. Busy("execute")' = {} /\ LeaseReleasedOnce'
    BY <1>1, <1>2 DEF Busy, LeaseInv, LeaseReleasedOnce, leaseVars
  <2> QED BY <1>1, <2>1, <2>3, <2>4 DEF LeaseInv
<1> QED BY <1>3, <1>4, <1>5 DEF Settled

(* COMMIT or ROLLBACK is answered: the lease was held, and is released now. *)
LEMMA AnswerCommitKeepsLease ==
  ASSUME TypeInv, LeaseInv, AnswerCommit
  PROVE  LeaseInv'
<1>1. IsHead("COMMIT") /\ Answer(<< >>) /\ UNCHANGED <<valid, work>>
  BY DEF AnswerCommit
<1>2. pc[Root] = "ending"
  <2>1. queue[1].op = "COMMIT" /\ 1 \in 1..Len(queue)
    BY <1>1, HeadCommand DEF TypeInv, TypeOK
  <2> QED BY <2>1 DEF LeaseInv, RootCommands, Awaiting, RootOps
<1>3. lease = "held" /\ releases = 0 /\ ~ valid' /\ Busy("execute")' = {}
  BY <1>1, <1>2 DEF LeaseInv, LeaseReleasedOnce, RootOver, Busy
<1>4. RootCommands(queue, pc[Root])'
  BY <1>1, AnsweredAlone, NoRootCommand DEF LeaseInv, RootOps
<1>5. CASE Goto(Root, "fulfilled") /\ ReleaseLease(discard)
  <2>1. pc'[Root] = "fulfilled"
    BY <1>5, GotoRoot
  <2>2. LeaseReleasedOnce'
    BY <1>3, <1>5 DEF ReleaseLease, LeaseReleasedOnce
  <2> QED BY <1>3, <1>4, <2>1, <2>2 DEF LeaseInv
<1>6. CASE Await(Root, "settling") /\ UNCHANGED leaseVars
  <2>1. pc'[Root] = "settling"
    BY <1>6, GotoRoot DEF Await
  <2>2. LeaseReleasedOnce'
    BY <1>6 DEF LeaseInv, LeaseReleasedOnce, leaseVars
  <2> QED BY <1>3, <1>4, <2>1, <2>2 DEF LeaseInv, Ended
<1> QED BY <1>5, <1>6 DEF AnswerCommit

LEMMA AnswerRollbackKeepsLease ==
  ASSUME TypeInv, LeaseInv, AnswerRollback
  PROVE  LeaseInv'
<1>1. /\ IsHead("ROLLBACK") /\ Answer(<< >>) /\ UNCHANGED <<valid, work>>
      /\ ReleaseLease(TRUE) \/ ReleaseLease(discard)
  BY DEF AnswerRollback
<1>2. pc[Root] = "undoing"
  <2>1. queue[1].op = "ROLLBACK" /\ 1 \in 1..Len(queue)
    BY <1>1, HeadCommand DEF TypeInv, TypeOK
  <2> QED BY <2>1 DEF LeaseInv, RootCommands, Awaiting, RootOps
<1>3. lease = "held" /\ releases = 0 /\ ~ valid' /\ Busy("execute")' = {}
  BY <1>1, <1>2 DEF LeaseInv, LeaseReleasedOnce, RootOver, Busy
<1>4. RootCommands(queue, pc[Root])'
  BY <1>1, AnsweredAlone, NoRootCommand DEF LeaseInv, RootOps
<1>5. pc'[Root] = "threw" /\ LeaseReleasedOnce'
  BY <1>1, <1>3, GotoRoot DEF AnswerRollback, ReleaseLease, LeaseReleasedOnce
<1> QED BY <1>3, <1>4, <1>5 DEF LeaseInv

LEMMA BreakKeepsLease ==
  ASSUME TypeInv, LeaseInv, Break
  PROVE  LeaseInv'
<1>1. UNCHANGED <<scopeVars, stateVars, work, leaseVars, queue>> /\ conn' = "closed"
  BY DEF Break
<1>2. Busy("execute")' = Busy("execute")
  BY <1>1 DEF Busy
<1> QED
  BY <1>1, <1>2 DEF LeaseInv, LeaseReleasedOnce, RootCommands, RootOver, scopeVars, stateVars,
     leaseVars

-------------------------------------------------------------------------------
LEMMA LeaseInit ==
  ASSUME Init
  PROVE  LeaseInv
<1>1. Root \in Scopes
  BY ConstantsAssumption
<1>2. /\ pc[Root] = "opening" /\ lease = "held" /\ releases = 0
      /\ \A s \in Scopes : ~ open[s] /\ (s # Root => pc[s] = "none")
      /\ \A w \in Works : work[w].state = "new"
      /\ Len(queue) = 1 /\ queue[1].op = "BEGIN"
  BY <1>1 DEF Init
<1>3. RootCommands(queue, pc[Root])
  BY <1>2 DEF RootCommands, Awaiting
<1> QED BY <1>2, <1>3 DEF LeaseInv, LeaseReleasedOnce, RootOver, Ended

LEMMA LeaseStep ==
  ASSUME TypeInv, LeaseInv, [Next]_vars
  PROVE  LeaseInv'
<1>1. CASE UNCHANGED vars
  BY <1>1 DEF vars, LeaseInv, LeaseReleasedOnce, RootCommands, RootOver, Busy
<1>2. CASE Break
  BY <1>2, BreakKeepsLease
<1>3. CASE AnswerBegin
  BY <1>3, AnswerBeginKeepsLease
<1>4. CASE pc[Root] # "opening" /\ Answers
  BY <1>4, AnswerQueryKeepsLease, AnswerBeginKeepsLease, AnswerSavepointKeepsLease,
     AnswerReleaseKeepsLease, AnswerRollbackToKeepsLease, AnswerCommitKeepsLease,
     AnswerRollbackKeepsLease DEF Answers
<1>5. ASSUME pc[Root] # "opening", NEW w \in Works,
             StartStream(w) \/ CloseStream(w) \/ StartCopy(w) \/ Cancel(w)
      PROVE  LeaseInv'
  BY <1>5, StartStreamKeepsLease, ClosingKeepsLease, StartCopyKeepsLease, CancelKeepsLease
     DEF CloseStream
<1>6. ASSUME pc[Root] # "opening", NEW s \in Scopes,
             \/ \E w \in Works : Issue(s, w)
             \/ StartNested(s) \/ SettleStream(s)
      PROVE  LeaseInv'
  BY <1>6, IssueKeepsLease, StartNestedKeepsLease, SettleStreamKeepsLease
<1>7. ASSUME pc[Root] # "opening", NEW s \in Scopes, Return(s) \/ Throw(s) \/ Settled(s)
      PROVE  LeaseInv'
  BY <1>7, NestedEndKeepsLease, ReturnKeepsLease, ThrowKeepsLease, SettledKeepsLease
<1>8. CASE pc[Root] = "opening" /\ Next
  BY <1>2, <1>3, <1>8, NobodyYet
<1>9. CASE pc[Root] # "opening" /\ Next
  BY <1>2, <1>4, <1>5, <1>6, <1>7, <1>9 DEF Next
<1> QED BY <1>1, <1>8, <1>9

(* The client leased for a transaction is released exactly once, whatever is
   cancelled, fails or is left running (transaction and its finalizers,
   the lease destroyed by a controlled execution). *)
THEOREM LeaseOnce == Spec => []LeaseReleasedOnce
<1>1. Init => TypeInv /\ LeaseInv
  BY TypeInit, LeaseInit
<1>2. (TypeInv /\ LeaseInv) /\ [Next]_vars => (TypeInv /\ LeaseInv)'
  BY TypeStep, LeaseStep
<1>3. TypeInv /\ LeaseInv => LeaseReleasedOnce
  BY DEF LeaseInv
<1> QED BY <1>1, <1>2, <1>3, PTL DEF Spec

-------------------------------------------------------------------------------
(***************************************************************************)
(* What a transaction leaves behind when its promise settles.  Callbacks   *)
(* await their COPYs and nested transactions; whatever else they leave     *)
(* running is settled by the code.                                         *)
(***************************************************************************)
\* A COPY or a nested transaction that a callback does not await is not caught.
Awaits == {"copy", "nested"} \cap Unawaited = {}

NestedScopes == Scopes \ {Root}

Entered == {"running", "leaked", "settling", "ending", "undoing"}
Active(s) == pc[s] \in Entered \cup {"opening"}
Unfinished(w) == work[w].state \in {"created", "loading", "busy", "closing"}

\* A scope that is not over is inside one whose callback runs.
ScopeInv ==
  /\ \A s \in Scopes : open[s] <=> pc[s] = "running"
  /\ \A s \in NestedScopes : Active(s) => pc[Parent[s]] = "running"

\* Work that is not finished has a scope that runs or is settling it.
WorkInv ==
  \A w \in Works :
    /\ work[w].state = "loading" => Kind[w] = "copy"
    /\ work[w].state \in {"created", "closing"} => Kind[w] = "stream"
    /\ work[w].state = "created" => work[w].part = 1
    /\ Unfinished(w) =>
         \/ pc[work[w].scope] = "running"
         \/ Settling(work[w].scope) /\ w \in waits[work[w].scope] /\ Kind[w] # "copy"

\* What a nested transaction awaits while a command of its own is in the queue.
AwaitedBy(op) ==
  CASE op = "SAVEPOINT" -> "opening" [] op = "RELEASE" -> "ending" [] OTHER -> "undoing"

\* At most one command in the queue is that of a nested transaction.
OpsInv ==
  /\ \A i \in 1..Len(queue) :
       queue[i].op \in NestedOps => pc[queue[i].scope] = AwaitedBy(queue[i].op)
  /\ \A i, j \in 1..Len(queue) :
       queue[i].op \in NestedOps /\ queue[j].op \in NestedOps /\ queue[i].scope = queue[j].scope
         => i = j

Asks(i, w) == queue[i].op = "query" /\ queue[i].work = w

\* Only a pipeline, and a stream that is closed while it is read, have two
\* queries in the queue.
Single(w) ==
  Kind[w] # "pipeline" /\ ~ (Kind[w] = "stream" /\ work[w].state = "closing" /\ work[w].part = 1)

\* Work has no more queries in the queue than parts left, and none once it is finished.
Asked(w) ==
  \A i \in 1..Len(queue) : Asks(i, w) =>
    /\ work[w].state \in {"busy", "closing"}
    /\ Kind[w] = "stream" /\ work[w].state = "busy" => work[w].part = 1
    /\ \A j \in 1..Len(queue) : Asks(j, w) =>
         /\ Single(w) => i = j
         /\ Kind[w] = "pipeline" => j - i <= Size[w] - work[w].part
         /\ Kind[w] = "stream" => \A k \in 1..Len(queue) : Asks(k, w) => i = j \/ j = k \/ k = i
AskedInv == \A w \in Works : Asked(w)

\* A failure spoils the client, and the client tells what became of the root.
ReturnInv ==
  /\ \A s \in Scopes : failed[s] => discard
  /\ lease = "returned" => pc[Root] \in Ended /\ \A s \in Scopes : ~ failed[s]
  /\ lease # "held" /\ pc[Root] \notin Ended => conn = "closed"
  /\ pc[Root] \in Ended => conn \in {"idle", "closed"}

-------------------------------------------------------------------------------
(***************************************************************************)
(* The queue: what is answered leaves it at the front, what is sent enters *)
(* it at the end.                                                          *)
(***************************************************************************)
Moved(k, c) ==
  /\ k \in {0, 1} /\ k <= Len(queue)
  /\ Len(queue) \in Nat /\ Len(c) \in Nat
  /\ Len(queue') = Len(queue) - k + Len(c)
  /\ \A i \in 1..(Len(queue) - k) : queue'[i] = queue[i + k]
  /\ \A i \in 1..Len(c) : queue'[Len(queue) - k + i] = c[i]

LEMMA SendMoves ==
  ASSUME TypeOK, NEW c \in Seq(Command), Send(c)
  PROVE  Moved(0, c)
<1>1. queue \in Seq(Command) /\ queue' = queue \o c /\ Len(queue) \in Nat /\ Len(c) \in Nat
  BY DEF TypeOK, Send
<1> QED BY <1>1 DEF Moved

LEMMA AnswerMoves ==
  ASSUME TypeOK, NEW op, IsHead(op), NEW c \in Seq(Command), Answer(c)
  PROVE  Moved(1, c) /\ queue[1].op = op /\ queue[1] = Head(queue) /\ 1 \in 1..Len(queue)
<1> DEFINE r == Tail(queue)
<1>1. /\ r \in Seq(Command) /\ Len(r) = Len(queue) - 1 /\ Len(queue) \in Nat \ {0} /\ Len(c) \in Nat
      /\ \A i \in 1..Len(r) : r[i] = queue[i + 1]
      /\ queue[1].op = op /\ queue[1] = Head(queue)
  BY HeadCommand DEF TypeOK
<1>2. queue' = r \o c
  BY DEF Answer
<1> HIDE DEF r
<1>3. /\ Len(queue') = Len(r) + Len(c)
      /\ \A i \in 1..Len(queue') : queue'[i] = IF i <= Len(r) THEN r[i] ELSE c[i - Len(r)]
  BY <1>1, <1>2, Appended
<1>4. \A i \in 1..(Len(queue) - 1) : queue'[i] = queue[i + 1]
  BY <1>1, <1>3
<1>5. \A i \in 1..Len(c) : queue'[Len(queue) - 1 + i] = c[i]
  BY <1>1, <1>3
<1> QED BY <1>1, <1>3, <1>4, <1>5 DEF Moved

LEMMA KeptMoves ==
  ASSUME TypeOK, UNCHANGED queue
  PROVE  Moved(0, << >>)
<1>1. queue \in Seq(Command) /\ Len(queue) \in Nat /\ Len(<< >>) = 0
  BY DEF TypeOK
<1> QED BY <1>1 DEF Moved

\* Where a command of the new queue comes from.
LEMMA Origin ==
  ASSUME NEW k, NEW c, Moved(k, c), NEW i \in 1..Len(queue')
  PROVE  \/ /\ i + k \in 1..Len(queue) /\ i <= Len(queue) - k
            /\ queue'[i] = queue[i + k]
         \/ /\ i - (Len(queue) - k) \in 1..Len(c) /\ i > Len(queue) - k
            /\ queue'[i] = c[i - (Len(queue) - k)]
<1>1. CASE i <= Len(queue) - k
  BY <1>1 DEF Moved
<1>2. CASE ~ (i <= Len(queue) - k)
  <2> DEFINE j == i - (Len(queue) - k)
  <2>1. j \in 1..Len(c) /\ i = Len(queue) - k + j
    BY <1>2 DEF Moved
  <2> QED BY <1>2, <2>1 DEF Moved
<1> QED BY <1>1, <1>2

-------------------------------------------------------------------------------
(***************************************************************************)
(* The commands of nested transactions.                                    *)
(***************************************************************************)
LEMMA OpScope ==
  ASSUME TypeOK, NEW i \in 1..Len(queue)
  PROVE  /\ queue[i].op \in NestedOps => queue[i].scope \in NestedScopes
         /\ queue[i].op \in RootOps \cup NestedOps \cup {"query"}
         /\ queue[i].op = "query" => queue[i].work \in Works
<1>1. queue[i] \in Command
  BY QueuedWork
<1> QED BY <1>1 DEF Command, NestedOps, RootOps, NestedScopes

LEMMA AwaitedWhere ==
  ASSUME NEW op \in NestedOps
  PROVE  AwaitedBy(op) \in {"opening", "ending", "undoing"}
  BY DEF NestedOps, AwaitedBy

LEMMA OpsKept ==
  ASSUME OpsInv, NEW k, NEW c, Moved(k, c),
         \A i \in 1..Len(c) : c[i].op \notin NestedOps,
         \A i \in 1..Len(queue) : queue[i].op \in NestedOps => pc'[queue[i].scope] = pc[queue[i].scope]
  PROVE  OpsInv'
<1>1. \A i \in 1..Len(queue') : queue'[i].op \in NestedOps =>
        i + k \in 1..Len(queue) /\ queue'[i] = queue[i + k]
  BY Origin
<1>2. \A i \in 1..Len(queue') :
        queue'[i].op \in NestedOps => pc'[queue'[i].scope] = AwaitedBy(queue'[i].op)
  BY <1>1 DEF OpsInv
<1>3. \A i, j \in 1..Len(queue') :
       queue'[i].op \in NestedOps /\ queue'[j].op \in NestedOps /\ queue'[i].scope = queue'[j].scope
         => i = j
  <2>1. k \in Nat /\ Len(queue') \in Nat
    BY DEF Moved
  <2> SUFFICES ASSUME NEW i \in 1..Len(queue'), NEW j \in 1..Len(queue'),
                      queue'[i].op \in NestedOps, queue'[j].op \in NestedOps,
                      queue'[i].scope = queue'[j].scope
               PROVE  i = j
    OBVIOUS
  <2>2. i + k = j + k
    BY <1>1 DEF OpsInv
  <2> QED BY <2>1, <2>2
<1> QED BY <1>2, <1>3 DEF OpsInv

LEMMA OpAnswered ==
  ASSUME OpsInv, Moved(1, << >>), queue[1].op \in NestedOps,
         \A s \in Scopes \ {queue[1].scope} : pc'[s] = pc[s],
         \A i \in 1..Len(queue) : queue[i].op \in NestedOps => queue[i].scope \in Scopes
  PROVE  OpsInv'
<1>1. \A i \in 1..Len(queue') : i + 1 \in 1..Len(queue) /\ queue'[i] = queue[i + 1]
  BY Origin
<1>2. \A i \in 1..Len(queue') : queue'[i].op \in NestedOps => queue'[i].scope # queue[1].scope
  BY <1>1 DEF OpsInv, Moved
<1>3. \A i \in 1..Len(queue') :
        queue'[i].op \in NestedOps => pc'[queue'[i].scope] = AwaitedBy(queue'[i].op)
  BY <1>1, <1>2 DEF OpsInv
<1>4. \A i, j \in 1..Len(queue') :
       queue'[i].op \in NestedOps /\ queue'[j].op \in NestedOps /\ queue'[i].scope = queue'[j].scope
         => i = j
  BY <1>1 DEF OpsInv, Moved
<1> QED BY <1>3, <1>4 DEF OpsInv

LEMMA OpSent ==
  ASSUME TypeOK, OpsInv, NEW s \in NestedScopes, NEW op \in NestedOps,
         Send(<<[op |-> op, scope |-> s]>>),
         pc[s] \notin {"opening", "ending", "undoing"}, pc'[s] = AwaitedBy(op),
         \A t \in Scopes \ {s} : pc'[t] = pc[t]
  PROVE  OpsInv'
<1> DEFINE d == [op |-> op, scope |-> s]
<1>1. d \in Command /\ d.op = op /\ d.scope = s
  BY ScopeCommand DEF NestedScopes
<1>2. <<d>> \in Seq(Command) /\ Len(<<d>>) = 1 /\ <<d>>[1] = d
  BY <1>1, OneCommand
<1> HIDE DEF d
<1> DEFINE c == <<d>>
<1>3. Moved(0, c)
  BY <1>2, SendMoves DEF d
<1>4. \A i \in 1..Len(queue) : queue[i].op \in NestedOps =>
        queue[i].scope \in Scopes /\ queue[i].scope # s
  BY OpScope, AwaitedWhere DEF OpsInv, NestedScopes
<1> HIDE DEF c
<1>5. \A i \in 1..Len(queue') : queue'[i].op \in NestedOps =>
        \/ i \in 1..Len(queue) /\ queue'[i] = queue[i]
        \/ i = Len(queue) + 1 /\ queue'[i] = d
  BY <1>2, <1>3, Origin DEF c, Moved
<1>6. \A i \in 1..Len(queue') :
        queue'[i].op \in NestedOps => pc'[queue'[i].scope] = AwaitedBy(queue'[i].op)
  BY <1>1, <1>4, <1>5 DEF OpsInv
<1>7. \A i, j \in 1..Len(queue') :
       queue'[i].op \in NestedOps /\ queue'[j].op \in NestedOps /\ queue'[i].scope = queue'[j].scope
         => i = j
  BY <1>1, <1>4, <1>5 DEF OpsInv
<1> QED BY <1>6, <1>7 DEF OpsInv

-------------------------------------------------------------------------------
(***************************************************************************)
(* The queries of one work.                                                *)
(***************************************************************************)
LEMMA AskedShifted ==
  ASSUME NEW v \in Works, Asked(v), NEW k \in Nat, Len(queue') \in Nat,
         work[v].state \in {"busy", "closing"} =>
           work'[v].state = work[v].state /\ work'[v].part = work[v].part,
         \A j \in 1..Len(queue') : Asks(j, v)' => j + k \in 1..Len(queue) /\ Asks(j + k, v)
  PROVE  Asked(v)'
<1> SUFFICES ASSUME NEW i \in 1..Len(queue'), Asks(i, v)'
             PROVE  /\ work'[v].state \in {"busy", "closing"}
                    /\ Kind[v] = "stream" /\ work'[v].state = "busy" => work'[v].part = 1
                    /\ \A j \in 1..Len(queue') : Asks(j, v)' =>
                         /\ Single(v)' => i = j
                         /\ Kind[v] = "pipeline" => j - i <= Size[v] - work'[v].part
                         /\ Kind[v] = "stream" =>
                              \A l \in 1..Len(queue') : Asks(l, v)' => i = j \/ j = l \/ l = i
  BY DEF Asked
<1>1. i + k \in 1..Len(queue) /\ Asks(i + k, v)
  OBVIOUS
<1>2. /\ work[v].state \in {"busy", "closing"}
      /\ Kind[v] = "stream" /\ work[v].state = "busy" => work[v].part = 1
  BY <1>1 DEF Asked
<1>3. work'[v].state = work[v].state /\ work'[v].part = work[v].part /\ (Single(v)' <=> Single(v))
  BY <1>2 DEF Single
<1>4. ASSUME NEW j \in 1..Len(queue'), Asks(j, v)'
      PROVE  /\ Single(v) => i = j
             /\ Kind[v] = "pipeline" => j - i <= Size[v] - work[v].part
             /\ Kind[v] = "stream" =>
                  \A l \in 1..Len(queue') : Asks(l, v)' => i = j \/ j = l \/ l = i
  <2>1. j + k \in 1..Len(queue) /\ Asks(j + k, v)
    BY <1>4
  <2>2. /\ Single(v) => i + k = j + k
        /\ Kind[v] = "pipeline" => (j + k) - (i + k) <= Size[v] - work[v].part
        /\ Kind[v] = "stream" =>
             \A l \in 1..Len(queue) : Asks(l, v) => i + k = j + k \/ j + k = l \/ l = i + k
    BY <1>1, <2>1 DEF Asked
  <2>3. (j + k) - (i + k) = j - i /\ (i + k = j + k => i = j)
    OBVIOUS
  <2>4. ASSUME NEW l \in 1..Len(queue'), Asks(l, v)', Kind[v] = "stream"
        PROVE  i = j \/ j = l \/ l = i
    <3>1. l + k \in 1..Len(queue) /\ Asks(l + k, v)
      BY <2>4
    <3>2. i + k = j + k \/ j + k = l + k \/ l + k = i + k
      BY <2>2, <2>4, <3>1
    <3> QED BY <3>2
  <2> QED BY <2>2, <2>3, <2>4
<1> QED BY <1>2, <1>3, <1>4

LEMMA AskedKept ==
  ASSUME AskedInv, NEW k, NEW c, Moved(k, c), \A i \in 1..Len(c) : c[i].op # "query",
         \A w \in Works : work[w].state \in {"busy", "closing"} =>
           work'[w].state = work[w].state /\ work'[w].part = work[w].part
  PROVE  AskedInv'
<1>1. \A w \in Works : \A i \in 1..Len(queue') : Asks(i, w)' =>
        i + k \in 1..Len(queue) /\ Asks(i + k, w)
  BY Origin DEF Asks
<1>2. k \in Nat /\ Len(queue') \in Nat
  BY DEF Moved
<1> QED BY <1>1, <1>2, AskedShifted DEF AskedInv

\* Work starts: its queries are the last of the queue.
LEMMA AskedFirst ==
  ASSUME TypeOK, AskedInv, NEW w \in Works, NEW c, Moved(0, c),
         \A i \in 1..Len(c) : c[i].op = "query" /\ c[i].work = w,
         work[w].state \notin {"busy", "closing"},
         \A v \in Works \ {w} : work'[v] = work[v],
         work'[w].state = "busy", work'[w].part = 1,
         IF Kind[w] = "pipeline" THEN Len(c) = Size[w] ELSE Len(c) = 1
  PROVE  AskedInv'
<1>1. Len(queue) \in Nat /\ Len(c) \in Nat /\ Len(queue') = Len(queue) + Len(c)
  BY DEF Moved
<1>2. \A i \in 1..Len(queue) : ~ Asks(i, w)
  BY DEF AskedInv, Asked
<1>3. \A v \in Works : \A i \in 1..Len(queue') : Asks(i, v)' =>
        \/ v # w /\ i \in 1..Len(queue) /\ Asks(i, v)
        \/ v = w /\ i \in (Len(queue) + 1)..(Len(queue) + Len(c))
  <2> SUFFICES ASSUME NEW v \in Works, NEW i \in 1..Len(queue'), Asks(i, v)'
               PROVE  \/ v # w /\ i \in 1..Len(queue) /\ Asks(i, v)
                      \/ v = w /\ i \in (Len(queue) + 1)..(Len(queue) + Len(c))
    OBVIOUS
  <2>1. CASE i + 0 \in 1..Len(queue) /\ queue'[i] = queue[i + 0]
    BY <1>1, <1>2, <2>1 DEF Asks
  <2>2. CASE i - (Len(queue) - 0) \in 1..Len(c) /\ queue'[i] = c[i - (Len(queue) - 0)]
    <3>1. v = w
      BY <2>2 DEF Asks
    <3> QED BY <1>1, <2>2, <3>1
  <2> QED BY <2>1, <2>2, Origin
<1>4. ASSUME NEW v \in Works, v # w PROVE Asked(v)'
  <2>1. \A j \in 1..Len(queue') : Asks(j, v)' => j + 0 \in 1..Len(queue) /\ Asks(j + 0, v)
    BY <1>1, <1>3, <1>4
  <2> QED BY <1>1, <1>4, <2>1, AskedShifted DEF AskedInv
<1>5. Asked(w)'
  <2>1. \A j \in 1..Len(queue') : Asks(j, w)' => j \in (Len(queue) + 1)..(Len(queue) + Len(c))
    BY <1>3
  <2>2. CASE Kind[w] = "pipeline"
    <3>1. Len(c) = Size[w] /\ ~ Single(w)'
      BY <2>2 DEF Single
    <3>2. \A i, j \in 1..Len(queue') : Asks(i, w)' /\ Asks(j, w)' => j - i <= Size[w] - 1
      BY <1>1, <2>1, <3>1
    <3> QED BY <2>2, <3>1, <3>2 DEF Asked
  <2>3. CASE Kind[w] # "pipeline"
    <3>0. Len(c) = 1
      BY <2>3
    <3>1. \A j \in 1..Len(queue') : Asks(j, w)' => j = Len(queue) + 1
      BY <1>1, <2>1, <3>0
    <3> QED BY <2>3, <3>1 DEF Asked
  <2> QED BY <2>2, <2>3
<1> QED BY <1>4, <1>5 DEF AskedInv

\* A stream that is open is closed: the second of its two queries.
LEMMA AskedToClose ==
  ASSUME TypeInv, AskedInv, NEW w \in Works, Kind[w] = "stream", work[w].state = "busy",
         Send(<<Query(w)>>), Finish(w, "closing")
  PROVE  AskedInv'
<1>1. /\ \A v \in Works \ {w} : work'[v] = work[v]
      /\ work'[w].state = "closing" /\ work'[w].part = work[w].part
  BY DEF Finish, TypeInv, TypeOK, Work
<1> DEFINE c == <<Query(w)>>
<1>2. Moved(0, c) /\ Len(c) = 1 /\ c[1].op = "query" /\ c[1].work = w
  BY OneQuery, SendMoves DEF TypeInv
<1> HIDE DEF c
<1>3. Len(queue) \in Nat /\ Len(queue') = Len(queue) + 1
  BY <1>2 DEF Moved
<1>4. \A v \in Works : \A i \in 1..Len(queue') : Asks(i, v)' =>
        \/ i \in 1..Len(queue) /\ Asks(i, v)
        \/ v = w /\ i = Len(queue) + 1
  <2> SUFFICES ASSUME NEW v \in Works, NEW i \in 1..Len(queue'), Asks(i, v)'
               PROVE  \/ i \in 1..Len(queue) /\ Asks(i, v)
                      \/ v = w /\ i = Len(queue) + 1
    OBVIOUS
  <2>1. CASE i + 0 \in 1..Len(queue) /\ queue'[i] = queue[i + 0]
    BY <1>3, <2>1 DEF Asks
  <2>2. CASE i - (Len(queue) - 0) \in 1..Len(c) /\ queue'[i] = c[i - (Len(queue) - 0)]
    <3>1. i - (Len(queue) - 0) = 1
      BY <1>2, <2>2
    <3>2. v = w
      BY <1>2, <2>2, <3>1 DEF Asks
    <3> QED BY <1>3, <3>1, <3>2
  <2> QED BY <1>2, <2>1, <2>2, Origin
<1>5. ASSUME NEW v \in Works, v # w PROVE Asked(v)'
  <2>1. \A j \in 1..Len(queue') : Asks(j, v)' => j + 0 \in 1..Len(queue) /\ Asks(j + 0, v)
    BY <1>3, <1>4, <1>5
  <2> QED BY <1>1, <1>3, <1>5, <2>1, AskedShifted DEF AskedInv
<1>6. Asked(w)'
  <2>1. \A j, l \in 1..Len(queue) : Asks(j, w) /\ Asks(l, w) => j = l
    BY DEF AskedInv, Asked, Single
  <2>2. work[w].part \in 1..2
    BY DEF TypeInv, WorkCounted, Parts
  <2>3. CASE work[w].part = 1
    <3>1. ~ Single(w)'
      BY <1>1, <2>3 DEF Single
    <3>2. \A i, j, l \in 1..Len(queue') :
            Asks(i, w)' /\ Asks(j, w)' /\ Asks(l, w)' => i = j \/ j = l \/ l = i
      BY <1>4, <2>1
    <3> QED BY <1>1, <3>1, <3>2 DEF Asked
  <2>4. CASE work[w].part = 2
    <3>1. \A j \in 1..Len(queue) : ~ Asks(j, w)
      BY <2>4 DEF AskedInv, Asked
    <3>2. \A i, j \in 1..Len(queue') : Asks(i, w)' /\ Asks(j, w)' => i = j
      BY <1>4, <3>1
    <3> QED BY <1>1, <3>2 DEF Asked
  <2> QED BY <2>2, <2>3, <2>4
<1> QED BY <1>5, <1>6 DEF AskedInv

\* A query is answered: its work goes on, or has no query left.
LEMMA AskedAnswered ==
  ASSUME TypeInv, AskedInv, IsHead("query"), NEW w \in Works, w = Head(queue).work,
         NEW ok \in BOOLEAN, Resume(w, ok)
  PROVE  AskedInv'
<1>1. 1 \in 1..Len(queue) /\ Asks(1, w) /\ Len(queue) \in Nat
  BY HeadCommand DEF TypeInv, TypeOK, Asks
<1>2. work[w].state \in {"busy", "closing"} /\ work[w].part \in 1..Parts(w)
  BY <1>1 DEF AskedInv, Asked, TypeInv, WorkCounted
<1>3. Size[w] \in Nat \ {0} /\ (Kind[w] \notin {"batch", "pipeline"} => Size[w] = 1) /\ Kind[w] \in Kinds
  BY ConstantsAssumption
<1>4. CASE GoesOn(w, ok)
  <2> DEFINE c == IF Kind[w] = "batch" THEN <<Query(w)>> ELSE << >>
  <2>1. /\ Answer(c)
        /\ \A v \in Works \ {w} : work'[v] = work[v]
        /\ work'[w].state = work[w].state /\ work'[w].part = work[w].part + 1
    BY <1>4 DEF Resume, TypeInv, TypeOK, Work
  <2>2. /\ c \in Seq(Command)
        /\ IF Kind[w] = "batch" THEN Len(c) = 1 /\ c[1].op = "query" /\ c[1].work = w ELSE Len(c) = 0
    BY OneQuery, NoCommand
  <2> HIDE DEF c
  <2>3. Moved(1, c)
    BY <2>1, <2>2, AnswerMoves DEF TypeInv
  <2>4. Len(queue') = Len(queue) - 1 + Len(c) /\ Len(c) \in {0, 1} /\ Len(queue') \in Nat
    BY <1>1, <2>2, <2>3 DEF Moved
  <2>5. \A v \in Works : \A i \in 1..Len(queue') : Asks(i, v)' =>
          \/ i + 1 \in 1..Len(queue) /\ Asks(i + 1, v)
          \/ v = w /\ i = Len(queue) /\ Kind[w] = "batch"
    <3> SUFFICES ASSUME NEW v \in Works, NEW i \in 1..Len(queue'), Asks(i, v)'
                 PROVE  \/ i + 1 \in 1..Len(queue) /\ Asks(i + 1, v)
                        \/ v = w /\ i = Len(queue) /\ Kind[w] = "batch"
      OBVIOUS
    <3>1. CASE i + 1 \in 1..Len(queue) /\ queue'[i] = queue[i + 1]
      BY <3>1 DEF Asks
    <3>2. CASE i - (Len(queue) - 1) \in 1..Len(c) /\ queue'[i] = c[i - (Len(queue) - 1)]
      <4>1. i - (Len(queue) - 1) = 1 /\ Kind[w] = "batch"
        BY <1>1, <2>2, <3>2
      <4>2. v = w
        BY <2>2, <3>2, <4>1 DEF Asks
      <4> QED BY <1>1, <4>1, <4>2
    <3> QED BY <2>3, <3>1, <3>2, Origin
  <2>6. ASSUME NEW v \in Works, v # w PROVE Asked(v)'
    <3>1. \A j \in 1..Len(queue') : Asks(j, v)' => j + 1 \in 1..Len(queue) /\ Asks(j + 1, v)
      BY <2>5, <2>6
    <3> QED BY <2>1, <2>4, <2>6, <3>1, AskedShifted DEF AskedInv
  <2>7. CASE Kind[w] = "batch"
    <3>1. \A j \in 1..Len(queue) : Asks(j, w) => j = 1
      BY <1>1, <2>7 DEF AskedInv, Asked, Single
    <3>2. \A j \in 1..Len(queue') : Asks(j, w)' => j = Len(queue)
      <4> SUFFICES ASSUME NEW j \in 1..Len(queue'), Asks(j, w)' PROVE j = Len(queue)
        OBVIOUS
      <4>1. ~ (j + 1 \in 1..Len(queue) /\ Asks(j + 1, w))
        BY <3>1
      <4> QED BY <2>5, <4>1
    <3>3. Asked(w)'
      BY <1>2, <2>1, <2>7, <3>2 DEF Asked
    <3> QED BY <2>6, <3>3 DEF AskedInv
  <2>8. CASE Kind[w] = "pipeline"
    <3>1. \A j \in 1..Len(queue) : Asks(j, w) => j - 1 <= Size[w] - work[w].part
      BY <1>1, <2>8 DEF AskedInv, Asked
    <3>2. \A j \in 1..Len(queue') : Asks(j, w)' => (j + 1) - 1 <= Size[w] - work[w].part
      BY <2>5, <2>8, <3>1
    <3>3. work[w].part \in Nat
      BY <1>2
    <3>4. \A i, j \in 1..Len(queue') : Asks(j, w)' => j - i <= Size[w] - (work[w].part + 1)
      BY <1>3, <3>2, <3>3
    <3>5. Asked(w)'
      BY <1>2, <2>1, <2>8, <3>4 DEF Single, Asked
    <3> QED BY <2>6, <3>5 DEF AskedInv
  <2>9. CASE Kind[w] = "stream"
    <3> SUFFICES Asked(w)'
      BY <2>6 DEF AskedInv
    <3> SUFFICES ASSUME NEW i \in 1..Len(queue'), Asks(i, w)' PROVE Asked(w)'
      BY DEF Asked
    <3>1. i + 1 \in 1..Len(queue) /\ Asks(i + 1, w) /\ i + 1 # 1
      BY <2>5, <2>9
    <3>2. ~ Single(w)
      BY <1>1, <3>1 DEF AskedInv, Asked
    <3>3. work[w].state = "closing" /\ work[w].part = 1
      BY <2>9, <3>2 DEF Single
    <3>4. \A j \in 1..Len(queue) : Asks(j, w) => j = 1 \/ j = i + 1
      BY <1>1, <2>9, <3>1 DEF AskedInv, Asked
    <3>5. \A j \in 1..Len(queue') : Asks(j, w)' => j = i
      <4> SUFFICES ASSUME NEW j \in 1..Len(queue'), Asks(j, w)' PROVE j = i
        OBVIOUS
      <4>1. j + 1 \in 1..Len(queue) /\ Asks(j + 1, w) /\ j + 1 # 1
        BY <2>5, <2>9
      <4>2. j + 1 = i + 1
        BY <3>4, <4>1
      <4> QED BY <4>2
    <3> QED BY <2>1, <2>9, <3>3, <3>5 DEF Asked
  <2>10. CASE Kind[w] \in {"execute", "copy"}
    BY <1>2, <1>3, <1>4, <2>10 DEF GoesOn, Parts
  <2> QED BY <1>3, <2>7, <2>8, <2>9, <2>10 DEF Kinds
<1>5. CASE ~ GoesOn(w, ok)
  <2> DEFINE c == << >>
  <2>1. /\ Answer(c)
        /\ \A v \in Works \ {w} : work'[v] = work[v]
    BY <1>5 DEF Resume, Finish, TypeInv, TypeOK, Work
  <2>2. c \in Seq(Command) /\ Len(c) = 0
    BY NoCommand
  <2> HIDE DEF c
  <2>3. Moved(1, c)
    BY <2>1, <2>2, AnswerMoves DEF TypeInv
  <2>8. Len(queue') \in Nat
    BY <1>1, <2>2, <2>3 DEF Moved
  <2>4. \A j \in 1..Len(queue) : Asks(j, w) => j = 1
    <3>1. CASE Single(w)
      BY <1>1, <3>1 DEF AskedInv, Asked
    <3>2. CASE Kind[w] = "pipeline"
      <4>1. work[w].part = Size[w]
        BY <1>2, <1>3, <1>5, <3>2 DEF GoesOn, Parts
      <4>2. \A j \in 1..Len(queue) : Asks(j, w) => j - 1 <= Size[w] - work[w].part
        BY <1>1, <3>2 DEF AskedInv, Asked
      <4> QED BY <1>3, <4>1, <4>2
    <3>3. CASE Kind[w] = "stream" /\ work[w].state = "closing" /\ work[w].part = 1
      BY <1>5, <3>3 DEF GoesOn, Parts
    <3> QED BY <3>1, <3>2, <3>3 DEF Single
  <2>5. \A v \in Works : \A i \in 1..Len(queue') : Asks(i, v)' =>
          v # w /\ i + 1 \in 1..Len(queue) /\ Asks(i + 1, v)
    <3> SUFFICES ASSUME NEW v \in Works, NEW i \in 1..Len(queue'), Asks(i, v)'
                 PROVE  v # w /\ i + 1 \in 1..Len(queue) /\ Asks(i + 1, v)
      OBVIOUS
    <3>1. i + 1 \in 1..Len(queue) /\ queue'[i] = queue[i + 1]
      BY <2>2, <2>3, Origin
    <3>2. Asks(i + 1, v) /\ i + 1 # 1
      BY <3>1 DEF Asks
    <3> QED BY <2>4, <3>1, <3>2
  <2>6. ASSUME NEW v \in Works, v # w PROVE Asked(v)'
    BY <2>1, <2>5, <2>6, <2>8, AskedShifted DEF AskedInv
  <2>7. Asked(w)'
    BY <2>5 DEF Asked
  <2> QED BY <2>6, <2>7 DEF AskedInv
<1> QED BY <1>4, <1>5

-------------------------------------------------------------------------------
(***************************************************************************)
(* The tree of scopes.                                                     *)
(***************************************************************************)
\* A set of numbers has a least one.
LEMMA Least == ASSUME NEW S \in SUBSET Nat, S # {} PROVE \E m \in S : \A n \in S : m <= n
<1> DEFINE R == OpToRel(<, Nat)
<1>1. IsWellFoundedOn(R, Nat)
  BY NatLessThanWellFounded, Zenon
<1> HIDE DEF R
<1>2. PICK m \in S : \A n \in S : <<n, m>> \notin R
  BY <1>1, WFMin
<1>3. \A n \in S : ~ (n < m)
  BY <1>2 DEF R, OpToRel
<1> QED BY <1>3

\* A set of scopes has one whose depth is least.
LEMMA Shallowest ==
  ASSUME NEW T \in SUBSET Scopes, T # {} PROVE \E t \in T : \A u \in T : Depth[t] <= Depth[u]
<1> DEFINE S == {Depth[t] : t \in T}
<1>1. S \in SUBSET Nat /\ S # {}
  BY ConstantsAssumption
<1>2. PICK m \in S : \A n \in S : m <= n
  BY <1>1, Least
<1> QED BY <1>2

LEMMA ParentOf ==
  ASSUME NEW s \in NestedScopes
  PROVE  Parent[s] \in Scopes /\ Parent[s] # s /\ Depth[s] = Depth[Parent[s]] + 1
<1>1. Parent[s] \in Scopes /\ Depth[s] = Depth[Parent[s]] + 1 /\ Depth[Parent[s]] \in Nat
  BY ConstantsAssumption DEF NestedScopes
<1> QED BY <1>1

\* A nested transaction that is not over is inside a root whose callback runs.
LEMMA RootRuns ==
  ASSUME ScopeInv, NEW s \in NestedScopes, Active(s)
  PROVE  pc[Root] = "running"
<1> DEFINE T == {u \in NestedScopes : Active(u)}
<1>1. T \in SUBSET Scopes /\ T # {}
  BY DEF NestedScopes
<1>2. PICK u \in T : \A v \in T : Depth[u] <= Depth[v]
  BY <1>1, Shallowest
<1>3. Parent[u] \in Scopes /\ Depth[u] = Depth[Parent[u]] + 1 /\ pc[Parent[u]] = "running"
  BY ParentOf DEF ScopeInv
<1>4. Depth[Parent[u]] \in Nat
  BY <1>3, ConstantsAssumption
<1>5. Parent[u] \notin T
  BY <1>2, <1>3, <1>4
<1>6. Parent[u] = Root
  BY <1>3, <1>5 DEF NestedScopes, Active, Entered
<1> QED BY <1>3, <1>6

-------------------------------------------------------------------------------
(***************************************************************************)
(* Nothing is left behind.                                                 *)
(***************************************************************************)
QuietInv == ScopeInv /\ WorkInv /\ OpsInv /\ AskedInv /\ ReturnInv

\* Once the root no longer waits for work, there is none.
LEMMA AllSettled ==
  ASSUME TypeInv, QuietInv, pc[Root] \in {"ending", "undoing"} \cup Ended
  PROVE  /\ \A w \in Works : ~ Unfinished(w)
         /\ \A i \in 1..Len(queue) : queue[i].op \in RootOps
<1>1. \A s \in NestedScopes : ~ Active(s)
  BY RootRuns DEF QuietInv, Ended
<1>2. \A w \in Works : ~ Unfinished(w)
  <2> SUFFICES ASSUME NEW w \in Works, Unfinished(w) PROVE FALSE
    OBVIOUS
  <2>1. work[w].scope \in Scopes
    BY DEF TypeInv, TypeOK, Work
  <2>2. pc[work[w].scope] = "running" \/ Settling(work[w].scope)
    BY DEF QuietInv, WorkInv
  <2>3. Active(work[w].scope)
    BY <2>2 DEF Active, Entered, Settling
  <2>4. work[w].scope = Root
    BY <1>1, <2>1, <2>3 DEF NestedScopes
  <2> QED BY <2>2, <2>4 DEF Settling, Ended
<1>3. \A i \in 1..Len(queue) : queue[i].op \in RootOps
  <2> SUFFICES ASSUME NEW i \in 1..Len(queue) PROVE queue[i].op \in RootOps
    OBVIOUS
  <2>1. queue[i].op # "query"
    BY <1>2, OpScope DEF TypeInv, QuietInv, AskedInv, Asked, Asks, Unfinished
  <2>2. queue[i].op \notin NestedOps
    <3> SUFFICES ASSUME queue[i].op \in NestedOps PROVE FALSE
      OBVIOUS
    <3>1. queue[i].scope \in NestedScopes
      BY OpScope DEF TypeInv
    <3>2. pc[queue[i].scope] = AwaitedBy(queue[i].op)
      BY DEF QuietInv, OpsInv
    <3> QED BY <1>1, <3>1, <3>2, AwaitedWhere DEF Active, Entered
  <2> QED BY <2>1, <2>2, OpScope DEF TypeInv
<1> QED BY <1>2, <1>3

LEMMA Quiet ==
  ASSUME TypeInv, LeaseInv, QuietInv
  PROVE  NothingLeftBehind
<1> SUFFICES ASSUME pc[Root] \in Ended
             PROVE  queue = << >> /\ \A w \in Works : work[w].state \in {"new"} \cup Finished
  BY DEF NothingLeftBehind
<1>1. (\A w \in Works : ~ Unfinished(w)) /\ (\A i \in 1..Len(queue) : queue[i].op \in RootOps)
  BY AllSettled
<1>2. \A i \in 1..Len(queue) : queue[i].op \notin RootOps
  BY DEF LeaseInv, RootCommands, Awaiting, RootOps, Ended
<1>3. queue \in Seq(Command) /\ Len(queue) \in Nat
  BY DEF TypeInv, TypeOK
<1>4. queue = << >>
  BY <1>1, <1>2, <1>3
<1>5. \A w \in Works : work[w].state \in WorkStates
  BY DEF TypeInv, TypeOK, Work
<1> QED BY <1>1, <1>4, <1>5 DEF Unfinished, WorkStates, Finished

\* After the end of the root nothing happens but that the connection breaks.
LEMMA OnlyBreak ==
  ASSUME TypeInv, LeaseInv, QuietInv, pc[Root] \in Ended, Next
  PROVE  Break
<1>1. queue = << >> /\ \A w \in Works : ~ Unfinished(w)
  BY Quiet, AllSettled DEF NothingLeftBehind
<1>2. \A s \in Scopes : ~ Active(s)
  BY RootRuns DEF QuietInv, Ended, Active, Entered, NestedScopes
<1>3. \A s \in Scopes : ~ open[s]
  BY <1>2 DEF QuietInv, ScopeInv, Active, Entered
<1>4. ~ Answers
  BY <1>1 DEF Answers, AnswerQuery, AnswerBegin, AnswerSavepoint, AnswerRelease, AnswerRollbackTo,
     AnswerCommit, AnswerRollback, IsHead
<1>5. \A w \in Works : ~ StartStream(w) /\ ~ CloseStream(w) /\ ~ StartCopy(w) /\ ~ Cancel(w)
  BY <1>1 DEF StartStream, CloseStream, Closing, StartCopy, Cancel, Unfinished
<1>6. \A s \in Scopes : ~ Return(s) /\ ~ Throw(s) /\ ~ Settled(s)
  BY <1>2 DEF Return, Throw, Settled, CallbackMayEnd, Settling, Active, Entered
<1>7. \A s \in Scopes : ~ SettleStream(s)
  BY <1>2 DEF SettleStream, Settling, Active, Entered
<1>8. \A s \in Scopes : ~ StartNested(s)
  <2> SUFFICES ASSUME NEW s \in Scopes, StartNested(s) PROVE FALSE
    OBVIOUS
  <2>1. s \in NestedScopes /\ open[Parent[s]]
    BY DEF StartNested, MayUse, ScopeOpen, NestedScopes
  <2> QED BY <1>3, <2>1, ParentOf
<1>9. \A s \in Scopes, w \in Works : ~ Issue(s, w)
  BY <1>3 DEF Issue, MayUse, ScopeOpen
<1> QED BY <1>4, <1>5, <1>6, <1>7, <1>8, <1>9 DEF Next

-------------------------------------------------------------------------------
(***************************************************************************)
(* What a step may change of each part.                                    *)
(***************************************************************************)
LEMMA ScopeKept ==
  ASSUME ScopeInv, UNCHANGED <<pc, open>> PROVE ScopeInv'
  BY DEF ScopeInv, Active

\* s goes where its callback does not run, and nothing is nested in it.
LEMMA ScopeMoves ==
  ASSUME TypeOK, ScopeInv, NEW s \in Scopes, NEW label \in PCs, label # "running", Goto(s, label),
         \A t \in Scopes \ {s} : open'[t] = open[t], ~ open'[s],
         \A c \in NestedScopes : Parent[c] = s => ~ Active(c),
         s # Root /\ label \notin Ended => pc[Parent[s]] = "running"
  PROVE  ScopeInv'
<1>1. pc'[s] = label /\ \A t \in Scopes \ {s} : pc'[t] = pc[t]
  BY DEF Goto, TypeOK
<1>2. \A t \in Scopes : open'[t] <=> pc'[t] = "running"
  BY <1>1 DEF ScopeInv
<1>3. ASSUME NEW c \in NestedScopes, Active(c)' PROVE pc'[Parent[c]] = "running"
  <2>1. CASE c = s
    BY <1>1, <1>3, <2>1, ParentOf DEF NestedScopes, Active, Entered, Ended
  <2>2. CASE c # s
    <3>1. Active(c)
      BY <1>1, <1>3, <2>2 DEF Active, NestedScopes
    <3> QED BY <1>1, <3>1, ParentOf DEF ScopeInv
  <2> QED BY <2>1, <2>2
<1> QED BY <1>2, <1>3 DEF ScopeInv

\* A callback starts.
LEMMA ScopeStarts ==
  ASSUME TypeOK, ScopeInv, NEW s \in Scopes, Goto(s, "running"), open' = [open EXCEPT ![s] = TRUE],
         s # Root => pc[Parent[s]] = "running"
  PROVE  ScopeInv'
<1>1. pc'[s] = "running" /\ \A t \in Scopes \ {s} : pc'[t] = pc[t]
  BY DEF Goto, TypeOK
<1>2. open'[s] /\ \A t \in Scopes \ {s} : open'[t] = open[t]
  BY DEF TypeOK
<1>3. \A t \in Scopes : open'[t] <=> pc'[t] = "running"
  BY <1>1, <1>2 DEF ScopeInv
<1>4. ASSUME NEW c \in NestedScopes, Active(c)' PROVE pc'[Parent[c]] = "running"
  <2>1. CASE c = s
    BY <1>1, <2>1, ParentOf DEF NestedScopes
  <2>2. CASE c # s
    <3>1. Active(c)
      BY <1>1, <1>4, <2>2 DEF Active, NestedScopes
    <3> QED BY <1>1, <3>1, ParentOf DEF ScopeInv
  <2> QED BY <2>1, <2>2
<1> QED BY <1>3, <1>4 DEF ScopeInv

\* Work goes on where it is, or finishes; its scope is where it was.
LEMMA WorkMoves ==
  ASSUME WorkInv,
         \A w \in Works :
           \/ work'[w] = work[w]
           \/ work'[w].state \in {"new", "done", "failed"}
           \/ /\ Unfinished(w) /\ work'[w].scope = work[w].scope
              /\ work'[w].state \in {"busy", "closing"}
              /\ work'[w].state = "closing" => Kind[w] = "stream",
         \A s \in Scopes : pc[s] = "running" => pc'[s] = "running",
         \A s \in Scopes : Settling(s) => Settling(s)' /\ waits[s] \subseteq waits'[s],
         \A w \in Works : work[w].scope \in Scopes
  PROVE  WorkInv'
<1> SUFFICES ASSUME NEW w \in Works
             PROVE  /\ work'[w].state = "loading" => Kind[w] = "copy"
                    /\ work'[w].state \in {"created", "closing"} => Kind[w] = "stream"
                    /\ work'[w].state = "created" => work'[w].part = 1
                    /\ Unfinished(w)' =>
                         \/ pc'[work'[w].scope] = "running"
                         \/ Settling(work[w].scope)' /\ w \in waits'[work'[w].scope] /\ Kind[w] # "copy"
                              /\ work'[w].scope = work[w].scope
  BY DEF WorkInv, Settling
<1>1. CASE work'[w].state \in {"new", "done", "failed"}
  BY <1>1 DEF Unfinished
<1>2. CASE /\ Unfinished(w) /\ work'[w].scope = work[w].scope
           /\ work'[w].state \in {"busy", "closing"}
           /\ work'[w].state = "closing" => Kind[w] = "stream"
  BY <1>2 DEF WorkInv
<1>3. CASE work'[w] = work[w]
  <2>1. Unfinished(w)' => Unfinished(w)
    BY <1>3 DEF Unfinished
  <2> QED BY <1>3, <2>1 DEF WorkInv
<1> QED BY <1>1, <1>2, <1>3

\* What a scope has to settle before it may end.
LEMMA WorkTracked ==
  ASSUME WorkInv, NEW s \in Scopes, NEW w \in Works, work[w].scope = s, Unfinished(w), Kind[w] # "copy"
  PROVE  w \in Tracked(s)
<1>1. Kind[w] \in Kinds
  BY ConstantsAssumption
<1>2. work[w].state # "loading"
  BY DEF WorkInv
<1> QED BY <1>1, <1>2 DEF Tracked, Owned, Busy, Unfinished, Kinds

\* A scope leaves its place: it has no work, or awaits all of it.
LEMMA WorkLeft ==
  ASSUME TypeOK, WorkInv, NEW s \in Scopes, UNCHANGED work,
         \A t \in Scopes \ {s} : pc'[t] = pc[t] /\ waits'[t] = waits[t],
         \/ \A w \in Works : work[w].scope = s => ~ Unfinished(w)
         \/ /\ pc'[s] \in {"leaked", "settling"} /\ waits'[s] = Tracked(s)
            /\ \A w \in Works : work[w].scope = s /\ Unfinished(w) => Kind[w] # "copy"
  PROVE  WorkInv'
<1> SUFFICES ASSUME NEW w \in Works, Unfinished(w)
             PROVE  \/ pc'[work[w].scope] = "running"
                    \/ Settling(work[w].scope)' /\ w \in waits'[work[w].scope] /\ Kind[w] # "copy"
  BY DEF WorkInv, Unfinished, Settling
<1>1. work[w].scope \in Scopes
  BY DEF TypeOK, Work
<1>2. CASE work[w].scope = s
  BY <1>2, WorkTracked DEF Settling
<1>3. CASE work[w].scope # s
  BY <1>1, <1>3 DEF WorkInv, Settling
<1> QED BY <1>2, <1>3

\* A scope moves that has no command of a nested transaction in the queue.
LEMMA OpsElsewhere ==
  ASSUME TypeOK, OpsInv, NEW k, NEW c, Moved(k, c), \A i \in 1..Len(c) : c[i].op \notin NestedOps,
         NEW s \in Scopes, s = Root \/ pc[s] \notin {"opening", "ending", "undoing"},
         \A t \in Scopes \ {s} : pc'[t] = pc[t]
  PROVE  OpsInv'
<1>1. \A i \in 1..Len(queue) : queue[i].op \in NestedOps => queue[i].scope \in Scopes \ {s}
  BY OpScope, AwaitedWhere DEF OpsInv, NestedScopes
<1> QED BY <1>1, OpsKept

\* The root goes on.
LEMMA ReturnKept ==
  ASSUME ReturnInv, pc[Root] \notin Ended, pc'[Root] \notin Ended,
         lease' = lease \/ (lease' = "discarded" /\ conn' = "closed"),
         conn = "closed" => conn' = "closed",
         \A s \in Scopes : failed'[s] => discard'
  PROVE  ReturnInv'
  BY DEF ReturnInv

\* #recordTransactionOperationFailure and #markTransactionStateUnsafe
LEMMA Recorded ==
  ASSUME TypeOK, NEW s \in Scopes
  PROVE  /\ RecordFailure(s) => \A t \in Scopes : failed'[t] => discard'
         /\ MarkUnsafe(s) => \A t \in Scopes : failed'[t] => discard'
  BY DEF RecordFailure, MarkUnsafe

LEMMA GotoElse ==
  ASSUME TypeOK, NEW s \in Scopes, NEW label, Goto(s, label)
  PROVE  pc'[s] = label /\ \A t \in Scopes \ {s} : pc'[t] = pc[t]
  BY DEF Goto, TypeOK

LEMMA AwaitElse ==
  ASSUME TypeOK, NEW s \in Scopes, NEW label, Await(s, label)
  PROVE  /\ Goto(s, label) /\ waits'[s] = Tracked(s)
         /\ \A t \in Scopes \ {s} : waits'[t] = waits[t]
  BY DEF Await, TypeOK

LEMMA FinishElse ==
  ASSUME TypeOK, NEW w \in Works, NEW state, Finish(w, state)
  PROVE  /\ work'[w].state = state /\ work'[w].scope = work[w].scope /\ work'[w].part = work[w].part
         /\ work'[w].bad = work[w].bad
         /\ \A v \in Works \ {w} : work'[v] = work[v]
  BY DEF Finish, TypeOK, Work

-------------------------------------------------------------------------------
(***************************************************************************)
(* Every step keeps it.                                                    *)
(***************************************************************************)
LEMMA IssueKeepsQuiet ==
  ASSUME TypeInv, QuietInv, pc[Root] \notin Ended, NEW s \in Scopes, NEW w \in Works, Issue(s, w)
  PROVE  QuietInv'
<1>1. pc[s] = "running" /\ work[w].state = "new"
  BY DEF Issue, MayUse, ScopeOpen, QuietInv, ScopeInv
<1>2. UNCHANGED <<pc, open, failed, waits, valid, unsafeDepth, discard, activeCopy, lease, releases, conn>>
  BY DEF Issue, scopeVars, stateVars, leaseVars, serverVars
<1>3. ScopeInv'
  BY <1>2, ScopeKept DEF QuietInv
<1>4. ReturnInv'
  BY <1>2, ReturnKept DEF QuietInv, ReturnInv
<1> DEFINE start(state) ==
           work' = [work EXCEPT ![w] = [scope |-> s, state |-> state, part |-> 1, bad |-> FALSE]]
<1>5. ASSUME NEW state, start(state)
      PROVE  /\ work'[w].scope = s /\ work'[w].state = state /\ work'[w].part = 1
             /\ \A v \in Works \ {w} : work'[v] = work[v]
  BY <1>5 DEF TypeInv, TypeOK
<1>6. ASSUME NEW state, start(state), state \in {"created", "loading", "busy"},
             state = "created" => Kind[w] = "stream", state = "loading" => Kind[w] = "copy"
      PROVE  WorkInv'
  <2>1. ASSUME NEW v \in Works, v # w, Unfinished(v)'
        PROVE  \/ pc'[work'[v].scope] = "running"
               \/ Settling(work[v].scope)' /\ v \in waits'[work'[v].scope] /\ Kind[v] # "copy"
    <3>1. work'[v] = work[v] /\ Unfinished(v)
      BY <1>5, <1>6, <2>1 DEF Unfinished
    <3>2. \/ pc[work[v].scope] = "running"
          \/ Settling(work[v].scope) /\ v \in waits[work[v].scope] /\ Kind[v] # "copy"
      BY <3>1 DEF QuietInv, WorkInv
    <3> QED BY <1>2, <3>1, <3>2 DEF Settling
  <2>2. pc'[work'[w].scope] = "running" /\ work'[w].part = 1 /\ work'[w].state = state
    BY <1>1, <1>2, <1>5, <1>6
  <2>3. \A v \in Works \ {w} : work'[v] = work[v]
    BY <1>5, <1>6
  <2>4. \A v \in Works \ {w} :
          /\ work'[v].state = "loading" => Kind[v] = "copy"
          /\ work'[v].state \in {"created", "closing"} => Kind[v] = "stream"
          /\ work'[v].state = "created" => work'[v].part = 1
    BY <2>3 DEF QuietInv, WorkInv
  <2>5. \A v \in Works : Unfinished(v)' =>
           \/ pc'[work'[v].scope] = "running"
           \/ Settling(work[v].scope)' /\ v \in waits'[work'[v].scope] /\ Kind[v] # "copy"
    BY <2>1, <2>2
  <2>6. \A v \in Works :
          /\ work'[v].state = "loading" => Kind[v] = "copy"
          /\ work'[v].state \in {"created", "closing"} => Kind[v] = "stream"
          /\ work'[v].state = "created" => work'[v].part = 1
    BY <1>6, <2>2, <2>4
  <2> QED BY <2>5, <2>6 DEF WorkInv, Settling
<1>7. ASSUME NEW state, start(state), state \in {"created", "loading"}, UNCHANGED queue
      PROVE  OpsInv' /\ AskedInv'
  <2>1. Moved(0, << >>)
    BY <1>7, KeptMoves DEF TypeInv
  <2>2. OpsInv'
    BY <1>2, <2>1, OpsKept DEF QuietInv
  <2>3. \A v \in Works : work[v].state \in {"busy", "closing"} =>
           work'[v].state = work[v].state /\ work'[v].part = work[v].part
    BY <1>1, <1>5, <1>7
  <2> QED BY <2>1, <2>2, <2>3, AskedKept DEF QuietInv
<1>8. ASSUME NEW c \in Seq(Command), start("busy"), Send(c),
             \A i \in 1..Len(c) : c[i].op = "query" /\ c[i].work = w,
             IF Kind[w] = "pipeline" THEN Len(c) = Size[w] ELSE Len(c) = 1
      PROVE  OpsInv' /\ AskedInv'
  <2>1. Moved(0, c)
    BY <1>8, SendMoves DEF TypeInv
  <2>2. OpsInv'
    BY <1>2, <1>8, <2>1, OpsKept DEF QuietInv, NestedOps
  <2>3. /\ work'[w].state = "busy" /\ work'[w].part = 1
        /\ \A v \in Works \ {w} : work'[v] = work[v]
    BY <1>5, <1>8
  <2> QED BY <1>1, <1>8, <2>1, <2>2, <2>3, AskedFirst DEF QuietInv, TypeInv
<1> HIDE DEF start
<1>9. CASE Kind[w] = "stream"
  <2>1. start("created") /\ UNCHANGED queue
    BY <1>9 DEF Issue, start
  <2> QED BY <1>3, <1>4, <1>6, <1>7, <1>9, <2>1 DEF QuietInv
<1>10. CASE Kind[w] = "copy"
  <2>1. start("loading") /\ UNCHANGED queue
    BY <1>10 DEF Issue, start
  <2> QED BY <1>3, <1>4, <1>6, <1>7, <1>10, <2>1 DEF QuietInv
<1>11. CASE Kind[w] = "pipeline"
  <2> DEFINE c == [i \in 1..Size[w] |-> Query(w)]
  <2>1. start("busy") /\ Send(c)
    BY <1>11 DEF Issue, start
  <2>2. c \in Seq(Command) /\ \A i \in 1..Len(c) : c[i].op = "query" /\ c[i].work = w
    BY ManyQueries
  <2>3. Len(c) = Size[w]
    BY ConstantsAssumption
  <2> HIDE DEF c
  <2>4. OpsInv' /\ AskedInv'
    BY <1>8, <1>11, <2>1, <2>2, <2>3
  <2> QED BY <1>3, <1>4, <1>6, <2>1, <2>4 DEF QuietInv
<1>12. CASE Kind[w] \notin {"stream", "copy", "pipeline"}
  <2> DEFINE c == <<Query(w)>>
  <2>1. start("busy") /\ Send(c)
    BY <1>12 DEF Issue, start
  <2>2. c \in Seq(Command) /\ Len(c) = 1 /\ c[1].op = "query" /\ c[1].work = w
    BY OneQuery
  <2> HIDE DEF c
  <2>3. OpsInv' /\ AskedInv'
    BY <1>8, <1>12, <2>1, <2>2
  <2> QED BY <1>3, <1>4, <1>6, <2>1, <2>3 DEF QuietInv
<1> QED BY <1>9, <1>10, <1>11, <1>12

LEMMA SoleIndex == ASSUME NEW c, Len(c) = 1 PROVE \A i \in 1..Len(c) : i = 1
OBVIOUS

LEMMA Sole ==
  ASSUME NEW c, Len(c) = 1, c[1].op = "query"
  PROVE  \A i \in 1..Len(c) : c[i].op \notin NestedOps
<1>1. \A i \in 1..Len(c) : i = 1
  OBVIOUS
<1> QED BY <1>1 DEF NestedOps

LEMMA WorkScopes ==
  ASSUME TypeInv PROVE \A w \in Works : work[w].scope \in Scopes /\ work[w].state \in WorkStates
  BY DEF TypeInv, TypeOK, Work

LEMMA StartStreamKeepsQuiet ==
  ASSUME TypeInv, QuietInv, pc[Root] \notin Ended, NEW w \in Works, StartStream(w)
  PROVE  QuietInv'
<1>1. /\ UNCHANGED <<pc, open, failed, waits, valid, unsafeDepth, discard, activeCopy, lease, releases, conn>>
      /\ work[w].state = "created" /\ Unfinished(w)
  BY DEF StartStream, scopeVars, stateVars, leaseVars, serverVars, Unfinished
<1>2. ScopeInv' /\ ReturnInv'
  BY <1>1, ScopeKept, ReturnKept DEF QuietInv, ReturnInv
<1>3. Kind[w] = "stream" /\ work[w].part = 1
  BY <1>1 DEF QuietInv, WorkInv
<1>4. CASE Finish(w, "busy") /\ Send(<<Query(w)>>)
  <2>1. /\ work'[w].state = "busy" /\ work'[w].part = 1 /\ work'[w].scope = work[w].scope
        /\ \A v \in Works \ {w} : work'[v] = work[v]
    BY <1>3, <1>4, FinishElse DEF TypeInv
  <2> DEFINE c == <<Query(w)>>
  <2>2. Moved(0, c) /\ Len(c) = 1 /\ c[1].op = "query" /\ c[1].work = w
    BY <1>4, OneQuery, SendMoves DEF TypeInv
  <2> HIDE DEF c
  <2>3. OpsInv'
    BY <1>1, <2>2, Sole, OpsKept DEF QuietInv
  <2>4. AskedInv'
    BY <1>1, <1>3, <2>1, <2>2, AskedFirst DEF QuietInv, TypeInv
  <2>5. WorkInv'
    BY <1>1, <2>1, WorkMoves, WorkScopes DEF QuietInv, Settling
  <2> QED BY <1>2, <2>3, <2>4, <2>5 DEF QuietInv
<1>5. CASE Finish(w, "failed") /\ UNCHANGED queue
  <2>1. work'[w].state = "failed" /\ \A v \in Works \ {w} : work'[v] = work[v]
    BY <1>5, FinishElse DEF TypeInv
  <2>2. Moved(0, << >>)
    BY <1>5, KeptMoves DEF TypeInv
  <2>3. OpsInv'
    BY <1>1, <2>2, OpsKept DEF QuietInv
  <2>4. \A v \in Works : work[v].state \in {"busy", "closing"} => work'[v] = work[v]
    BY <1>1, <2>1
  <2>5. AskedInv'
    BY <2>2, <2>4, AskedKept DEF QuietInv
  <2>6. WorkInv'
    BY <1>1, <2>1, WorkMoves, WorkScopes DEF QuietInv, Settling
  <2> QED BY <1>2, <2>3, <2>5, <2>6 DEF QuietInv
<1> QED BY <1>4, <1>5 DEF StartStream

LEMMA ClosingKeepsQuiet ==
  ASSUME TypeInv, QuietInv, pc[Root] \notin Ended, NEW w \in Works, Closing(w),
         UNCHANGED <<scopeVars, stateVars, leaseVars, serverVars>>
  PROVE  QuietInv'
<1>1. /\ UNCHANGED <<pc, open, failed, waits, valid, unsafeDepth, discard, activeCopy, lease, releases, conn>>
      /\ Kind[w] = "stream"
  BY DEF Closing, scopeVars, stateVars, leaseVars, serverVars
<1>2. ScopeInv' /\ ReturnInv'
  BY <1>1, ScopeKept, ReturnKept DEF QuietInv, ReturnInv
<1>3. CASE work[w].state = "created" /\ Finish(w, "done") /\ UNCHANGED queue
  <2>1. work'[w].state = "done" /\ \A v \in Works \ {w} : work'[v] = work[v]
    BY <1>3, FinishElse DEF TypeInv
  <2>2. Moved(0, << >>)
    BY <1>3, KeptMoves DEF TypeInv
  <2>3. OpsInv'
    BY <1>1, <2>2, OpsKept DEF QuietInv
  <2>4. \A v \in Works : work[v].state \in {"busy", "closing"} => work'[v] = work[v]
    BY <1>3, <2>1
  <2>5. AskedInv'
    BY <2>2, <2>4, AskedKept DEF QuietInv
  <2>6. WorkInv'
    BY <1>1, <2>1, WorkMoves, WorkScopes DEF QuietInv, Settling
  <2> QED BY <1>2, <2>3, <2>5, <2>6 DEF QuietInv
<1>4. CASE work[w].state = "busy" /\ Finish(w, "closing") /\ Send(<<Query(w)>>)
  <2>1. /\ work'[w].state = "closing" /\ work'[w].scope = work[w].scope
        /\ \A v \in Works \ {w} : work'[v] = work[v]
    BY <1>4, FinishElse DEF TypeInv
  <2>2. AskedInv'
    BY <1>1, <1>4, AskedToClose DEF QuietInv
  <2> DEFINE c == <<Query(w)>>
  <2>3. Moved(0, c) /\ Len(c) = 1 /\ c[1].op = "query"
    BY <1>4, OneQuery, SendMoves DEF TypeInv
  <2> HIDE DEF c
  <2>4. OpsInv'
    BY <1>1, <2>3, Sole, OpsKept DEF QuietInv
  <2>5. Unfinished(w)
    BY <1>4 DEF Unfinished
  <2>6. WorkInv'
    BY <1>1, <2>1, <2>5, WorkMoves, WorkScopes DEF QuietInv, Settling
  <2> QED BY <1>2, <2>2, <2>4, <2>6 DEF QuietInv
<1> QED BY <1>3, <1>4 DEF Closing

LEMMA StartCopyKeepsQuiet ==
  ASSUME TypeInv, QuietInv, pc[Root] \notin Ended, NEW w \in Works, StartCopy(w)
  PROVE  QuietInv'
<1>1. /\ UNCHANGED <<pc, open, failed, waits, valid, unsafeDepth, discard, lease, releases, conn>>
      /\ Kind[w] = "copy" /\ work[w].state = "loading" /\ Unfinished(w)
  BY DEF StartCopy, scopeVars, leaseVars, serverVars, Unfinished
<1>2. ScopeInv' /\ ReturnInv'
  BY <1>1, ScopeKept, ReturnKept DEF QuietInv, ReturnInv
<1>3. work[w].part = 1
  BY <1>1, ConstantsAssumption DEF TypeInv, WorkCounted, Parts
<1>4. CASE Finish(w, "busy") /\ Send(<<Query(w)>>)
  <2>1. /\ work'[w].state = "busy" /\ work'[w].part = 1 /\ work'[w].scope = work[w].scope
        /\ \A v \in Works \ {w} : work'[v] = work[v]
    BY <1>3, <1>4, FinishElse DEF TypeInv
  <2> DEFINE c == <<Query(w)>>
  <2>2. Moved(0, c) /\ Len(c) = 1 /\ c[1].op = "query" /\ c[1].work = w
    BY <1>4, OneQuery, SendMoves DEF TypeInv
  <2> HIDE DEF c
  <2>3. OpsInv'
    BY <1>1, <2>2, Sole, OpsKept DEF QuietInv
  <2>4. AskedInv'
    BY <1>1, <1>3, <2>1, <2>2, AskedFirst DEF QuietInv, TypeInv
  <2>5. WorkInv'
    BY <1>1, <2>1, WorkMoves, WorkScopes DEF QuietInv, Settling
  <2> QED BY <1>2, <2>3, <2>4, <2>5 DEF QuietInv
<1>5. CASE Finish(w, "failed") /\ UNCHANGED queue
  <2>1. work'[w].state = "failed" /\ \A v \in Works \ {w} : work'[v] = work[v]
    BY <1>5, FinishElse DEF TypeInv
  <2>2. Moved(0, << >>)
    BY <1>5, KeptMoves DEF TypeInv
  <2>3. OpsInv'
    BY <1>1, <2>2, OpsKept DEF QuietInv
  <2>4. \A v \in Works : work[v].state \in {"busy", "closing"} => work'[v] = work[v]
    BY <1>1, <2>1
  <2>5. AskedInv'
    BY <2>2, <2>4, AskedKept DEF QuietInv
  <2>6. WorkInv'
    BY <1>1, <2>1, WorkMoves, WorkScopes DEF QuietInv, Settling
  <2> QED BY <1>2, <2>3, <2>5, <2>6 DEF QuietInv
<1> QED BY <1>4, <1>5 DEF StartCopy

LEMMA CancelKeepsQuiet ==
  ASSUME TypeInv, QuietInv, pc[Root] \notin Ended, NEW w \in Works, Cancel(w)
  PROVE  QuietInv'
<1>1. /\ UNCHANGED <<pc, open, failed, waits, work, queue>> /\ lease' = "discarded" /\ conn' = "closed"
      /\ MarkUnsafe(work[w].scope)
  BY DEF Cancel, scopeVars
<1>2. ScopeInv'
  BY <1>1, ScopeKept DEF QuietInv
<1>3. \A s \in Scopes : failed'[s] => discard'
  BY <1>1, WorkScopes, Recorded DEF TypeInv
<1>4. ReturnInv'
  BY <1>1, <1>3, ReturnKept DEF QuietInv
<1>5. Moved(0, << >>)
  BY <1>1, KeptMoves DEF TypeInv
<1>6. OpsInv' /\ AskedInv'
  BY <1>1, <1>5, OpsKept, AskedKept DEF QuietInv
<1>7. WorkInv'
  BY <1>1, WorkMoves, WorkScopes DEF QuietInv, Settling
<1> QED BY <1>2, <1>4, <1>6, <1>7 DEF QuietInv

LEMMA AnswerQueryKeepsQuiet ==
  ASSUME TypeInv, QuietInv, pc[Root] \notin Ended, AnswerQuery
  PROVE  QuietInv'
<1> DEFINE w == Head(queue).work
<1>1. /\ IsHead("query") /\ w \in Works
      /\ UNCHANGED <<pc, open, waits, valid, lease, releases>>
  BY HeadCommand DEF AnswerQuery, leaseVars, TypeInv
<1>2. (ServerRuns(w) \/ ServerRejects) /\ \E ok \in BOOLEAN : Resume(w, ok)
  BY DEF AnswerQuery
<1>3. conn = "closed" => conn' = "closed"
  BY <1>2 DEF ServerRuns, ServerRejects
<1>4. PICK ok \in BOOLEAN : Resume(w, ok)
  BY <1>2
<1>5. AskedInv'
  BY <1>1, <1>4, AskedAnswered DEF QuietInv
<1>6. work[w].state \in {"busy", "closing"} /\ Unfinished(w)
  <2>1. 1 \in 1..Len(queue) /\ Asks(1, w)
    BY <1>1, HeadCommand DEF TypeInv, TypeOK, Asks
  <2> QED BY <1>1, <2>1 DEF QuietInv, AskedInv, Asked, Unfinished
<1>7. work[w].scope \in Scopes
  BY <1>1, WorkScopes
<1> HIDE DEF w
<1>8. \A s \in Scopes : failed'[s] => discard'
  BY <1>4, <1>7, Recorded DEF Resume, TypeInv, QuietInv, ReturnInv
<1>9. ScopeInv' /\ ReturnInv'
  BY <1>1, <1>3, <1>8, ScopeKept, ReturnKept DEF QuietInv
<1>10. /\ \A v \in Works \ {w} : work'[v] = work[v]
       /\ work'[w].scope = work[w].scope
       /\ work'[w].state \in {work[w].state, "failed", "done"}
  BY <1>1, <1>4 DEF Resume, Finish, TypeInv, TypeOK, Work
<1>11. WorkInv'
  <2>1. work[w].state = "closing" => Kind[w] = "stream"
    BY <1>1 DEF QuietInv, WorkInv
  <2> QED BY <1>1, <1>6, <1>10, <2>1, WorkMoves, WorkScopes DEF QuietInv, Settling
<1>12. OpsInv'
  <2> DEFINE c == IF GoesOn(w, ok) /\ Kind[w] = "batch" THEN <<Query(w)>> ELSE << >>
  <2>1. Answer(c)
    BY <1>4 DEF Resume
  <2>2. c \in Seq(Command) /\ Len(c) \in {0, 1} /\ (Len(c) = 1 => c[1].op = "query")
    BY <1>1, OneQuery, NoCommand
  <2> HIDE DEF c
  <2>3. Moved(1, c)
    BY <1>1, <2>1, <2>2, AnswerMoves DEF TypeInv
  <2>4. \A i \in 1..Len(c) : c[i].op \notin NestedOps
    BY <2>2, Sole
  <2> QED BY <1>1, <2>3, <2>4, OpsKept DEF QuietInv
<1> QED BY <1>5, <1>9, <1>11, <1>12 DEF QuietInv

LEMMA StartNestedKeepsQuiet ==
  ASSUME TypeInv, QuietInv, pc[Root] \notin Ended, NEW s \in Scopes, StartNested(s)
  PROVE  QuietInv'
<1>1. /\ s \in NestedScopes /\ pc[s] = "none" /\ Goto(s, "opening")
      /\ Send(<<[op |-> "SAVEPOINT", scope |-> s]>>)
      /\ UNCHANGED <<open, failed, waits, discard, work, lease, conn>>
  BY DEF StartNested, NestedScopes, stateVars, leaseVars, serverVars
<1>2. pc[Parent[s]] = "running" /\ ~ open[s] /\ Parent[s] \in Scopes
  BY <1>1, ParentOf DEF StartNested, MayUse, ScopeOpen, QuietInv, ScopeInv
<1>3. pc'[s] = "opening" /\ \A t \in Scopes \ {s} : pc'[t] = pc[t]
  BY <1>1, GotoElse DEF TypeInv
<1>4. \A c \in NestedScopes : Parent[c] = s => ~ Active(c)
  BY <1>1 DEF QuietInv, ScopeInv
<1>5. ScopeInv'
  BY <1>1, <1>2, <1>4, ScopeMoves DEF QuietInv, TypeInv, PCs
<1>6. ReturnInv'
  <2>1. pc'[Root] = pc[Root]
    BY <1>1, <1>3, ConstantsAssumption DEF NestedScopes
  <2> QED BY <1>1, <2>1, ReturnKept DEF QuietInv, ReturnInv
<1>7. \A t \in Scopes : (pc[t] = "running" => pc'[t] = "running") /\ (Settling(t) => Settling(t)')
  BY <1>1, <1>3 DEF Settling
<1>8. WorkInv'
  BY <1>1, <1>7, WorkMoves, WorkScopes DEF QuietInv
<1>9. OpsInv'
  BY <1>1, <1>3, OpSent DEF QuietInv, TypeInv, NestedOps, AwaitedBy
<1> DEFINE d == [op |-> "SAVEPOINT", scope |-> s]
<1>10. <<d>> \in Seq(Command) /\ Len(<<d>>) = 1 /\ <<d>>[1].op = "SAVEPOINT"
  BY <1>1, ScopeCommand, OneCommand DEF NestedOps, NestedScopes
<1>11. Moved(0, <<d>>)
  BY <1>1, <1>10, SendMoves DEF TypeInv
<1> HIDE DEF d
<1>12. AskedInv'
  BY <1>1, <1>10, <1>11, AskedKept DEF QuietInv
<1> QED BY <1>5, <1>6, <1>8, <1>9, <1>12 DEF QuietInv

\* A command of a transaction is answered.
LEMMA OpHead ==
  ASSUME TypeInv, NEW op, IsHead(op), Answer(<< >>)
  PROVE  /\ Moved(1, << >>) /\ queue[1] = Head(queue) /\ queue[1].op = op /\ 1 \in 1..Len(queue)
         /\ op \in NestedOps => queue[1].scope \in NestedScopes
         /\ \A i \in 1..Len(queue) : queue[i].op \in NestedOps => queue[i].scope \in Scopes
<1>1. /\ Moved(1, << >>) /\ queue[1] = Head(queue) /\ queue[1].op = op /\ 1 \in 1..Len(queue)
  BY AnswerMoves, NoCommand DEF TypeInv
<1> QED BY <1>1, OpScope DEF TypeInv, NestedScopes

LEMMA OpWaits ==
  ASSUME TypeInv, OpsInv, NEW op \in NestedOps, IsHead(op), Answer(<< >>)
  PROVE  Head(queue).scope \in NestedScopes /\ pc[Head(queue).scope] = AwaitedBy(op)
  BY OpHead DEF OpsInv

LEMMA AskedAlone ==
  ASSUME TypeInv, AskedInv, NEW op, IsHead(op), Answer(<< >>), UNCHANGED work
  PROVE  AskedInv'
<1>1. Moved(1, << >>) /\ Len(<< >>) = 0
  BY OpHead, NoCommand
<1> QED BY <1>1, AskedKept

LEMMA OpsAlone ==
  ASSUME TypeInv, OpsInv, NEW op \in NestedOps, IsHead(op), Answer(<< >>),
         \A t \in Scopes \ {Head(queue).scope} : pc'[t] = pc[t]
  PROVE  OpsInv'
  BY OpHead, OpAnswered

LEMMA RootOpAlone ==
  ASSUME TypeInv, OpsInv, NEW op \in RootOps, IsHead(op), Answer(<< >>),
         \A t \in Scopes \ {Root} : pc'[t] = pc[t]
  PROVE  OpsInv'
<1>1. Moved(1, << >>) /\ Len(<< >>) = 0
  BY OpHead, NoCommand
<1> QED BY <1>1, OpsElsewhere, ConstantsAssumption DEF TypeInv

\* A transaction that waits for its BEGIN or SAVEPOINT, RELEASE or ROLLBACK TO has no work.
LEMMA NoWork_Waiting ==
  ASSUME WorkInv, NEW s, pc[s] # "running", ~ Settling(s)
  PROVE  \A w \in Works : work[w].scope = s => ~ Unfinished(w)
  BY DEF WorkInv

LEMMA AnswerBeginKeepsQuiet ==
  ASSUME TypeInv, LeaseInv, QuietInv, AnswerBegin
  PROVE  QuietInv'
<1>0. Root \in Scopes
  BY ConstantsAssumption
<1>1. /\ IsHead("BEGIN") /\ Answer(<< >>)
      /\ UNCHANGED <<waits, activeCopy, work, lease, releases>>
  BY DEF AnswerBegin, leaseVars
<1>2. pc[Root] = "opening" /\ lease = "held"
  BY <1>1, OpHead DEF LeaseInv, RootCommands, Awaiting, RootOps
<1>3. \A s \in NestedScopes : pc[s] = "none"
  BY <1>2 DEF LeaseInv, NestedScopes
<1>4. \A w \in Works : work[w].state = "new"
  BY <1>2 DEF LeaseInv
<1>5. WorkInv'
  BY <1>1, <1>4 DEF WorkInv, Unfinished
<1>6. AskedInv'
  BY <1>1, AskedAlone DEF QuietInv
<1>7. CASE conn' = "txn" /\ Enter(Root) /\ UNCHANGED <<failed, discard>>
  <2>1. Goto(Root, "running") /\ open' = [open EXCEPT ![Root] = TRUE]
    BY <1>7 DEF Enter
  <2>2. pc'[Root] = "running" /\ \A t \in Scopes \ {Root} : pc'[t] = pc[t]
    BY <1>0, <2>1, GotoElse DEF TypeInv
  <2>3. ScopeInv'
    BY <1>0, <2>1, ScopeStarts DEF QuietInv, TypeInv
  <2>4. OpsInv'
    BY <1>1, <2>2, RootOpAlone DEF QuietInv, RootOps
  <2>5. ReturnInv'
    BY <1>1, <1>2, <1>7, <2>2 DEF QuietInv, ReturnInv, Ended
  <2> QED BY <1>5, <1>6, <2>3, <2>4, <2>5 DEF QuietInv
<1>8. CASE conn = "closed" /\ RecordFailure(Root) /\ Goto(Root, "settling") /\ UNCHANGED <<conn, open>>
  <2>1. pc'[Root] = "settling" /\ \A t \in Scopes \ {Root} : pc'[t] = pc[t]
    BY <1>0, <1>8, GotoElse DEF TypeInv
  <2>2. \A c \in NestedScopes : ~ Active(c)
    BY <1>3 DEF Active, Entered
  <2>3. ~ open'[Root]
    BY <1>0, <1>2, <1>8 DEF QuietInv, ScopeInv
  <2>4. ScopeInv'
    BY <1>0, <1>8, <2>2, <2>3, ScopeMoves DEF QuietInv, TypeInv, PCs
  <2>5. OpsInv'
    BY <1>1, <2>1, RootOpAlone DEF QuietInv, RootOps
  <2>6. \A s \in Scopes : failed'[s] => discard'
    BY <1>0, <1>8, Recorded DEF TypeInv
  <2>7. ReturnInv'
    BY <1>1, <1>2, <1>8, <2>1, <2>6 DEF QuietInv, ReturnInv, Ended
  <2> QED BY <1>5, <1>6, <2>4, <2>5, <2>7 DEF QuietInv
<1> QED BY <1>7, <1>8 DEF AnswerBegin

LEMMA AnswerSavepointKeepsQuiet ==
  ASSUME TypeInv, QuietInv, pc[Root] \notin Ended, AnswerSavepoint
  PROVE  QuietInv'
<1> DEFINE s == Head(queue).scope
<1>1. /\ IsHead("SAVEPOINT") /\ Answer(<< >>)
      /\ UNCHANGED <<waits, work, lease, conn>>
  BY DEF AnswerSavepoint, leaseVars
<1>2. s \in NestedScopes /\ pc[s] = "opening"
  BY <1>1, OpWaits DEF QuietInv, NestedOps, AwaitedBy
<1>3. /\ s \in Scopes /\ s # Root /\ Parent[s] \in Scopes /\ pc[Parent[s]] = "running" /\ ~ open[s]
      /\ \A c \in NestedScopes : Parent[c] = s => ~ Active(c)
  BY <1>2, ParentOf DEF NestedScopes, QuietInv, ScopeInv, Active
<1>4. AskedInv'
  BY <1>1, AskedAlone DEF QuietInv
<1>5. ASSUME NEW label, Goto(s, label), label \in {"running", "threw"}
      PROVE  OpsInv' /\ WorkInv' /\ pc'[Root] = pc[Root]
  <2>1. pc'[s] = label /\ \A t \in Scopes \ {s} : pc'[t] = pc[t]
    BY <1>3, <1>5, GotoElse DEF TypeInv
  <2>2. OpsInv'
    BY <1>1, <2>1, OpsAlone DEF QuietInv, NestedOps
  <2>3. \A w \in Works : work[w].scope = s => ~ Unfinished(w)
    BY <1>2, NoWork_Waiting DEF QuietInv, Settling
  <2>4. WorkInv'
    BY <1>1, <1>3, <2>1, <2>3, WorkLeft DEF QuietInv, TypeInv
  <2> QED BY <1>3, <2>1, <2>2, <2>4, ConstantsAssumption
<1>6. CASE Enter(s) /\ UNCHANGED <<failed, discard>>
  <2>1. Goto(s, "running") /\ open' = [open EXCEPT ![s] = TRUE]
    BY <1>6 DEF Enter
  <2> HIDE DEF s
  <2>2. ScopeInv'
    BY <1>3, <2>1, ScopeStarts DEF QuietInv, TypeInv
  <2>3. OpsInv' /\ WorkInv' /\ pc'[Root] = pc[Root]
    BY <1>5, <2>1
  <2>4. ReturnInv'
    BY <1>1, <1>6, <2>3, ReturnKept DEF QuietInv, ReturnInv
  <2> QED BY <1>4, <2>2, <2>3, <2>4 DEF QuietInv
<1>7. CASE RecordFailure(Parent[s]) /\ Goto(s, "threw") /\ UNCHANGED open
  <2> HIDE DEF s
  <2>1. ScopeInv'
    BY <1>3, <1>7, ScopeMoves DEF QuietInv, TypeInv, PCs, Ended
  <2>2. OpsInv' /\ WorkInv' /\ pc'[Root] = pc[Root]
    BY <1>5, <1>7
  <2>3. \A t \in Scopes : failed'[t] => discard'
    BY <1>3, <1>7, Recorded DEF TypeInv
  <2>4. ReturnInv'
    BY <1>1, <2>2, <2>3, ReturnKept DEF QuietInv
  <2> QED BY <1>4, <2>1, <2>2, <2>4 DEF QuietInv
<1> QED BY <1>6, <1>7 DEF AnswerSavepoint

\* A callback ends: of what it leaves running no COPY and no nested transaction.
LEMMA CallbackEnds ==
  ASSUME Awaits, TypeInv, QuietInv, NEW s \in Scopes, CallbackMayEnd(s)
  PROVE  /\ pc[s] = "running"
         /\ \A c \in NestedScopes : Parent[c] = s => ~ Active(c)
         /\ \A w \in Works : work[w].scope = s /\ Unfinished(w) => Kind[w] # "copy"
         /\ s # Root => pc[Parent[s]] = "running"
<1>1. pc[s] = "running" /\ Nesting(s) = {}
  BY DEF CallbackMayEnd, Awaits
<1>2. \A c \in NestedScopes : Parent[c] = s => ~ Active(c)
  BY <1>1 DEF Nesting, Children, NestedScopes, Active, Entered, Ended
<1>3. ASSUME NEW w \in Works, work[w].scope = s, Unfinished(w) PROVE Kind[w] # "copy"
  <2>1. w \in Running(s)
    BY <1>3 DEF Running, Unfinished, Finished
  <2> QED BY <2>1 DEF CallbackMayEnd, Awaits
<1>4. s # Root => pc[Parent[s]] = "running"
  BY <1>1 DEF QuietInv, ScopeInv, NestedScopes, Active, Entered
<1> QED BY <1>1, <1>2, <1>3, <1>4

\* A scope that settles what it awaits, or goes on without a command.
LEMMA AwaitKeepsQuiet ==
  ASSUME TypeInv, QuietInv, pc[Root] \notin Ended, NEW s \in Scopes,
         pc[s] \notin {"opening", "ending", "undoing"},
         NEW label \in {"leaked", "settling"}, Await(s, label),
         UNCHANGED <<work, lease, queue, failed, discard, conn>>,
         \A c \in NestedScopes : Parent[c] = s => ~ Active(c),
         s # Root => pc[Parent[s]] = "running",
         \A t \in Scopes \ {s} : open'[t] = open[t], ~ open'[s],
         \A w \in Works : work[w].scope = s /\ Unfinished(w) => Kind[w] # "copy"
  PROVE  QuietInv'
<1>1. /\ Goto(s, label) /\ waits'[s] = Tracked(s) /\ \A t \in Scopes \ {s} : waits'[t] = waits[t]
      /\ pc'[s] = label /\ \A t \in Scopes \ {s} : pc'[t] = pc[t]
  BY AwaitElse, GotoElse DEF TypeInv
<1>2. ScopeInv'
  BY <1>1, ScopeMoves DEF QuietInv, TypeInv, PCs
<1>3. WorkInv'
  BY <1>1, WorkLeft DEF QuietInv, TypeInv
<1>4. Moved(0, << >>) /\ Len(<< >>) = 0
  BY KeptMoves DEF TypeInv
<1>5. OpsInv'
  BY <1>1, <1>4, OpsElsewhere DEF QuietInv, TypeInv
<1>6. AskedInv'
  BY <1>4, AskedKept DEF QuietInv
<1>7. pc'[Root] \notin Ended
  BY <1>1, ConstantsAssumption DEF Ended
<1>8. ReturnInv'
  BY <1>7, ReturnKept DEF QuietInv, ReturnInv
<1> QED BY <1>2, <1>3, <1>5, <1>6, <1>8 DEF QuietInv

\* A scope whose work is over sends the command that ends it.
LEMMA EndKeepsQuiet ==
  ASSUME TypeInv, QuietInv, pc[Root] \notin Ended, NEW s \in Scopes,
         pc[s] \notin {"opening", "ending", "undoing"},
         NEW op, NEW label, Send(<<[op |-> op, scope |-> s]>>), Goto(s, label),
         \/ s = Root /\ op \in RootOps /\ label \in {"ending", "undoing"}
         \/ s # Root /\ op \in {"RELEASE", "ROLLBACK TO"} /\ label = AwaitedBy(op),
         UNCHANGED <<waits, work, lease, failed, discard, conn>>,
         \A c \in NestedScopes : Parent[c] = s => ~ Active(c),
         s # Root => pc[Parent[s]] = "running",
         \A t \in Scopes \ {s} : open'[t] = open[t], ~ open'[s],
         \A w \in Works : work[w].scope = s => ~ Unfinished(w)
  PROVE  QuietInv'
<1>1. pc'[s] = label /\ \A t \in Scopes \ {s} : pc'[t] = pc[t]
  BY GotoElse DEF TypeInv
<1>2. label \in {"ending", "undoing"}
  BY DEF AwaitedBy
<1>3. ScopeInv'
  BY <1>2, ScopeMoves DEF QuietInv, TypeInv, PCs
<1>4. WorkInv'
  BY <1>1, WorkLeft DEF QuietInv, TypeInv
<1> DEFINE d == [op |-> op, scope |-> s]
<1>5. d.op = op /\ <<d>> \in Seq(Command) /\ Len(<<d>>) = 1 /\ <<d>>[1] = d
  <2>1. d \in Command /\ d.op = op
    BY ScopeCommand DEF NestedOps
  <2> QED BY <2>1, OneCommand
<1>6. Moved(0, <<d>>)
  BY <1>5, SendMoves DEF TypeInv
<1>7. \A i \in 1..Len(<<d>>) : i = 1
  BY <1>5, SoleIndex
<1>8. OpsInv'
  <2>1. CASE s = Root
    <3> HIDE DEF d
    <3>1. op \notin NestedOps
      BY <2>1 DEF RootOps, NestedOps
    <3>3. \A i \in 1..Len(<<d>>) : <<d>>[i].op \notin NestedOps
      BY <1>5, <1>7, <3>1
    <3> QED BY <1>1, <1>6, <2>1, <3>3, OpsElsewhere DEF QuietInv, TypeInv
  <2>2. CASE s # Root
    BY <1>1, <2>2, OpSent DEF QuietInv, TypeInv, NestedOps, NestedScopes
  <2> QED BY <2>1, <2>2
<1> HIDE DEF d
<1>9. AskedInv'
  <2>2. op # "query"
    BY DEF RootOps
  <2>3. \A i \in 1..Len(<<d>>) : <<d>>[i].op # "query"
    BY <1>5, <1>7, <2>2
  <2> QED BY <1>6, <2>3, AskedKept DEF QuietInv
<1>10. pc'[Root] \notin Ended
  BY <1>1, <1>2, ConstantsAssumption DEF Ended
<1>11. ReturnInv'
  BY <1>10, ReturnKept DEF QuietInv, ReturnInv
<1> QED BY <1>3, <1>4, <1>8, <1>9, <1>11 DEF QuietInv

LEMMA ReturnKeepsQuiet ==
  ASSUME Awaits, TypeInv, QuietInv, pc[Root] \notin Ended, NEW s \in Scopes, Return(s)
  PROVE  QuietInv'
<1>1. /\ CallbackMayEnd(s) /\ CloseScope(s)
      /\ UNCHANGED <<failed, discard, work, lease, conn>>
  BY DEF Return, leaseVars, serverVars
<1>2. /\ pc[s] = "running"
      /\ \A c \in NestedScopes : Parent[c] = s => ~ Active(c)
      /\ \A w \in Works : work[w].scope = s /\ Unfinished(w) => Kind[w] # "copy"
      /\ s # Root => pc[Parent[s]] = "running"
  BY <1>1, CallbackEnds
<1>3. ~ open'[s] /\ \A t \in Scopes \ {s} : open'[t] = open[t]
  BY <1>1 DEF CloseScope, TypeInv, TypeOK
<1>4. ASSUME NEW label \in {"leaked", "settling"}, Await(s, label), UNCHANGED queue PROVE QuietInv'
  BY <1>1, <1>2, <1>3, <1>4, AwaitKeepsQuiet
<1>5. ASSUME Tracked(s) = {}, Send(<<[op |-> IF s = Root THEN "COMMIT" ELSE "RELEASE", scope |-> s]>>),
             Goto(s, "ending"), UNCHANGED waits
      PROVE  QuietInv'
  <2> DEFINE op == IF s = Root THEN "COMMIT" ELSE "RELEASE"
  <2>1. Send(<<[op |-> op, scope |-> s]>>)
    BY <1>5
  <2>2. \/ s = Root /\ op \in RootOps
        \/ s # Root /\ op \in {"RELEASE", "ROLLBACK TO"} /\ "ending" = AwaitedBy(op)
    BY DEF RootOps, AwaitedBy
  <2>3. \A w \in Works : work[w].scope = s => ~ Unfinished(w)
    BY <1>2, <1>5, WorkTracked DEF QuietInv
  <2> HIDE DEF op
  <2> QED BY <1>1, <1>2, <1>3, <1>5, <2>1, <2>2, <2>3, EndKeepsQuiet
<1>6. CASE CannotCommit(s)
  BY <1>4, <1>6 DEF Return
<1>7. CASE ~ CannotCommit(s) /\ Tracked(s) # {}
  BY <1>4, <1>7 DEF Return
<1>8. CASE ~ CannotCommit(s) /\ Tracked(s) = {}
  BY <1>5, <1>8 DEF Return
<1> QED BY <1>6, <1>7, <1>8

LEMMA ThrowKeepsQuiet ==
  ASSUME Awaits, TypeInv, QuietInv, pc[Root] \notin Ended, NEW s \in Scopes, Throw(s)
  PROVE  QuietInv'
<1>1. /\ CallbackMayEnd(s) /\ CloseScope(s) /\ Await(s, "settling")
      /\ UNCHANGED <<failed, discard, work, lease, queue, conn>>
  BY DEF Throw, leaseVars, serverVars
<1>2. /\ pc[s] = "running"
      /\ \A c \in NestedScopes : Parent[c] = s => ~ Active(c)
      /\ \A w \in Works : work[w].scope = s /\ Unfinished(w) => Kind[w] # "copy"
      /\ s # Root => pc[Parent[s]] = "running"
  BY <1>1, CallbackEnds
<1>3. ~ open'[s] /\ \A t \in Scopes \ {s} : open'[t] = open[t]
  BY <1>1 DEF CloseScope, TypeInv, TypeOK
<1> QED BY <1>1, <1>2, <1>3, AwaitKeepsQuiet

LEMMA SettledKeepsQuiet ==
  ASSUME TypeInv, QuietInv, pc[Root] \notin Ended, NEW s \in Scopes, Settled(s)
  PROVE  QuietInv'
<1>1. /\ Settling(s) /\ pc[s] \in {"leaked", "settling"}
      /\ UNCHANGED <<open, failed, discard, work, lease, conn>>
      /\ \A w \in waits[s] : work[w].state \in Finished
  BY DEF Settled, Settling, stateVars, leaseVars, serverVars
<1>2. /\ ~ open[s]
      /\ \A c \in NestedScopes : Parent[c] = s => ~ Active(c)
      /\ s # Root => pc[Parent[s]] = "running"
  BY <1>1 DEF QuietInv, ScopeInv, NestedScopes, Active, Entered
<1>3. ~ open'[s] /\ \A t \in Scopes \ {s} : open'[t] = open[t]
  BY <1>1, <1>2
<1>4. \A w \in Works : work[w].scope = s => ~ Unfinished(w)
  BY <1>1 DEF QuietInv, WorkInv, Unfinished, Finished
<1>5. CASE pc[s] = "leaked"
  <2>1. Await(s, "settling") /\ UNCHANGED queue
    BY <1>5 DEF Settled
  <2> QED BY <1>1, <1>2, <1>3, <1>4, <2>1, AwaitKeepsQuiet
<1>6. CASE pc[s] = "settling" /\ MustUndo(s)
  <2> DEFINE op == IF s = Root THEN "ROLLBACK" ELSE "ROLLBACK TO"
  <2>1. Send(<<[op |-> op, scope |-> s]>>) /\ Goto(s, "undoing") /\ UNCHANGED waits
    BY <1>6 DEF Settled
  <2>2. \/ s = Root /\ op \in RootOps
        \/ s # Root /\ op \in {"RELEASE", "ROLLBACK TO"} /\ "undoing" = AwaitedBy(op)
    BY DEF RootOps, AwaitedBy
  <2> HIDE DEF op
  <2> QED BY <1>1, <1>2, <1>3, <1>4, <2>1, <2>2, EndKeepsQuiet
<1>7. CASE pc[s] = "settling" /\ ~ MustUndo(s)
  <2>1. Goto(s, "threw") /\ UNCHANGED <<waits, queue>>
    BY <1>7 DEF Settled
  <2>2. pc'[s] = "threw" /\ \A t \in Scopes \ {s} : pc'[t] = pc[t]
    BY <2>1, GotoElse DEF TypeInv
  <2>3. ScopeInv'
    BY <1>2, <1>3, <2>1, ScopeMoves DEF QuietInv, TypeInv, PCs, Ended
  <2>4. WorkInv'
    BY <1>1, <1>4, <2>1, <2>2, WorkLeft DEF QuietInv, TypeInv
  <2>5. Moved(0, << >>) /\ Len(<< >>) = 0
    BY <2>1, KeptMoves DEF TypeInv
  <2>6. OpsInv'
    BY <1>1, <2>2, <2>5, OpsElsewhere DEF QuietInv, TypeInv
  <2>7. AskedInv'
    BY <1>1, <2>5, AskedKept DEF QuietInv
  <2>8. ReturnInv'
    <3>1. CASE s = Root
      <4>1. lease # "held" /\ pc[Root] \notin Ended
        BY <1>7, <3>1 DEF MustUndo, LeaseGone, Ended
      <4>2. conn = "closed" /\ lease # "returned"
        BY <4>1 DEF QuietInv, ReturnInv
      <4> QED BY <1>1, <4>2 DEF QuietInv, ReturnInv
    <3>2. CASE s # Root
      BY <1>1, <2>2, <3>2, ReturnKept, ConstantsAssumption DEF QuietInv, ReturnInv
    <3> QED BY <3>1, <3>2
  <2> QED BY <2>3, <2>4, <2>6, <2>7, <2>8 DEF QuietInv
<1> QED BY <1>1, <1>5, <1>6, <1>7

\* The answer to the command that ends a transaction, or that undoes it.
LEMMA EndedKeepsQuiet ==
  ASSUME TypeInv, QuietInv, NEW op, IsHead(op), Answer(<< >>),
         NEW s \in Scopes, s = Head(queue).scope, (op \in RootOps /\ s = Root) \/ op \in NestedOps,
         pc[s] \in {"ending", "undoing"},
         \/ (Goto(s, "fulfilled") \/ Goto(s, "threw")) /\ UNCHANGED waits
         \/ Await(s, "settling"),
         UNCHANGED <<open, work>>
  PROVE  ScopeInv' /\ WorkInv' /\ OpsInv' /\ AskedInv'
<1>1. PICK label \in {"fulfilled", "threw", "settling"} :
        /\ Goto(s, label) /\ pc'[s] = label
        /\ \A t \in Scopes \ {s} : pc'[t] = pc[t] /\ waits'[t] = waits[t]
  BY GotoElse, AwaitElse DEF TypeInv
<1>2. /\ ~ open[s]
      /\ \A c \in NestedScopes : Parent[c] = s => ~ Active(c)
      /\ s # Root => pc[Parent[s]] = "running"
  BY DEF QuietInv, ScopeInv, NestedScopes, Active, Entered
<1>3. ScopeInv'
  BY <1>1, <1>2, ScopeMoves DEF QuietInv, TypeInv, PCs
<1>4. \A w \in Works : work[w].scope = s => ~ Unfinished(w)
  BY NoWork_Waiting DEF QuietInv, Settling
<1>5. WorkInv'
  BY <1>1, <1>4, WorkLeft DEF QuietInv, TypeInv
<1>6. OpsInv'
  <2>1. CASE op \in RootOps /\ s = Root
    BY <1>1, <2>1, RootOpAlone DEF QuietInv
  <2>2. CASE op \in NestedOps
    BY <1>1, <2>2, OpsAlone DEF QuietInv
  <2> QED BY <2>1, <2>2
<1>7. AskedInv'
  BY AskedAlone DEF QuietInv
<1> QED BY <1>3, <1>5, <1>6, <1>7

LEMMA AnswerReleaseKeepsQuiet ==
  ASSUME TypeInv, QuietInv, pc[Root] \notin Ended, AnswerRelease
  PROVE  QuietInv'
<1> DEFINE s == Head(queue).scope
<1>1. /\ IsHead("RELEASE") /\ Answer(<< >>) /\ UNCHANGED <<open, work, lease>>
  BY DEF AnswerRelease, leaseVars
<1>2. s \in NestedScopes /\ pc[s] = "ending" /\ s \in Scopes /\ s # Root
  BY <1>1, OpWaits DEF QuietInv, NestedOps, AwaitedBy, NestedScopes
<1>3. \/ Goto(s, "fulfilled") /\ UNCHANGED waits /\ UNCHANGED <<failed, discard, conn>>
      \/ Await(s, "settling") /\ RecordFailure(s) /\ (conn = "closed" => conn' = "closed")
  BY DEF AnswerRelease
<1>4. ScopeInv' /\ WorkInv' /\ OpsInv' /\ AskedInv'
  <2> HIDE DEF s
  <2>1. ((Goto(s, "fulfilled") \/ Goto(s, "threw")) /\ UNCHANGED waits) \/ Await(s, "settling")
    BY <1>3
  <2> QED BY <1>1, <1>2, <2>1, EndedKeepsQuiet DEF s, NestedOps
<1> HIDE DEF s
<1>5. pc'[Root] = pc[Root]
  BY <1>2, <1>3, GotoElse, AwaitElse, ConstantsAssumption DEF TypeInv
<1>6. \A t \in Scopes : failed'[t] => discard'
  BY <1>2, <1>3, Recorded DEF TypeInv, QuietInv, ReturnInv
<1>7. ReturnInv'
  BY <1>1, <1>3, <1>5, <1>6, ReturnKept DEF QuietInv
<1> QED BY <1>4, <1>7 DEF QuietInv

LEMMA AnswerRollbackToKeepsQuiet ==
  ASSUME TypeInv, QuietInv, pc[Root] \notin Ended, AnswerRollbackTo
  PROVE  QuietInv'
<1> DEFINE s == Head(queue).scope
<1>1. /\ IsHead("ROLLBACK TO") /\ Answer(<< >>) /\ Goto(s, "threw")
      /\ UNCHANGED <<open, failed, waits, work, lease>>
  BY DEF AnswerRollbackTo, leaseVars
<1>2. s \in NestedScopes /\ pc[s] = "undoing" /\ s \in Scopes /\ s # Root
  BY <1>1, OpWaits DEF QuietInv, NestedOps, AwaitedBy, NestedScopes
<1>3. \/ UNCHANGED discard /\ conn # "closed"
      \/ MarkUnsafe(s) /\ (conn = "closed" => conn' = "closed")
  BY DEF AnswerRollbackTo
<1>4. ScopeInv' /\ WorkInv' /\ OpsInv' /\ AskedInv'
  <2> HIDE DEF s
  <2> QED BY <1>1, <1>2, EndedKeepsQuiet DEF s, NestedOps
<1> HIDE DEF s
<1>5. pc'[Root] = pc[Root]
  BY <1>1, <1>2, GotoElse, ConstantsAssumption DEF TypeInv
<1>6. \A t \in Scopes : failed'[t] => discard'
  <2>1. \A t \in Scopes : failed'[t] => discard
    BY <1>1 DEF QuietInv, ReturnInv
  <2> QED BY <1>2, <1>3, <2>1, Recorded DEF TypeInv
<1>7. ReturnInv'
  BY <1>1, <1>3, <1>5, <1>6, ReturnKept DEF QuietInv
<1> QED BY <1>4, <1>7 DEF QuietInv

LEMMA RootOpWaits ==
  ASSUME TypeInv, LeaseInv, NEW op \in RootOps, IsHead(op)
  PROVE  pc[Root] = Awaiting(op) /\ Head(queue).scope = Root /\ (op # "BEGIN" => lease = "held")
<1>1. /\ 1 \in 1..Len(queue) /\ queue[1].op = op /\ Head(queue).scope = Root
  BY HeadCommand DEF TypeInv, TypeOK
<1>2. pc[Root] = Awaiting(op)
  BY <1>1 DEF LeaseInv, RootCommands
<1> QED BY <1>1, <1>2 DEF LeaseInv, Awaiting, RootOps

LEMMA AnswerCommitKeepsQuiet ==
  ASSUME TypeInv, LeaseInv, QuietInv, pc[Root] \notin Ended, AnswerCommit
  PROVE  QuietInv'
<1>1. /\ IsHead("COMMIT") /\ Answer(<< >>) /\ UNCHANGED <<open, work>> /\ Root \in Scopes
  BY ConstantsAssumption DEF AnswerCommit
<1>2. pc[Root] = "ending" /\ Head(queue).scope = Root /\ lease = "held"
  BY <1>1, RootOpWaits DEF RootOps, Awaiting
<1>3. CASE /\ conn' = "idle" /\ Goto(Root, "fulfilled") /\ ReleaseLease(discard)
           /\ UNCHANGED <<failed, discard, waits>>
  <2>1. ScopeInv' /\ WorkInv' /\ OpsInv' /\ AskedInv'
    BY <1>1, <1>2, <1>3, EndedKeepsQuiet DEF RootOps
  <2>2. pc'[Root] = "fulfilled"
    BY <1>1, <1>3, GotoElse DEF TypeInv
  <2>3. ReturnInv'
    BY <1>3, <2>2 DEF QuietInv, ReturnInv, ReleaseLease, Ended
  <2> QED BY <2>1, <2>3 DEF QuietInv
<1>4. CASE /\ RecordFailure(Root) /\ Await(Root, "settling") /\ UNCHANGED lease
           /\ conn = "closed" => conn' = "closed"
  <2>1. ScopeInv' /\ WorkInv' /\ OpsInv' /\ AskedInv'
    BY <1>1, <1>2, <1>4, EndedKeepsQuiet DEF RootOps
  <2>2. pc'[Root] = "settling"
    BY <1>1, <1>4, AwaitElse, GotoElse DEF TypeInv
  <2>3. \A t \in Scopes : failed'[t] => discard'
    BY <1>1, <1>4, Recorded DEF TypeInv
  <2>4. ReturnInv'
    BY <1>4, <2>2, <2>3, ReturnKept DEF QuietInv, Ended
  <2> QED BY <2>1, <2>4 DEF QuietInv
<1> QED BY <1>3, <1>4 DEF AnswerCommit, leaseVars

LEMMA AnswerRollbackKeepsQuiet ==
  ASSUME TypeInv, LeaseInv, QuietInv, pc[Root] \notin Ended, AnswerRollback
  PROVE  QuietInv'
<1>1. /\ IsHead("ROLLBACK") /\ Answer(<< >>) /\ Goto(Root, "threw")
      /\ UNCHANGED <<open, failed, waits, work>> /\ Root \in Scopes
  BY ConstantsAssumption DEF AnswerRollback
<1>2. pc[Root] = "undoing" /\ Head(queue).scope = Root
  BY <1>1, RootOpWaits DEF RootOps, Awaiting
<1>3. ScopeInv' /\ WorkInv' /\ OpsInv' /\ AskedInv'
  BY <1>1, <1>2, EndedKeepsQuiet DEF RootOps
<1>4. pc'[Root] = "threw"
  BY <1>1, GotoElse DEF TypeInv
<1>5. ReturnInv'
  <2>1. CASE conn = "closed"
    <3>1. MarkUnsafe(Root) /\ lease' = "discarded" /\ conn' = conn
      BY <2>1 DEF AnswerRollback, ReleaseLease
    <3>2. \A t \in Scopes : failed'[t] => discard'
      BY <1>1, <3>1, Recorded DEF TypeInv
    <3> QED BY <1>4, <2>1, <3>1, <3>2 DEF ReturnInv, Ended
  <2>2. CASE conn # "closed"
    <3>1. conn' = "idle" /\ lease' = (IF discard THEN "discarded" ELSE "returned") /\ discard' = discard
      BY <2>2 DEF AnswerRollback, ReleaseLease
    <3> QED BY <1>1, <1>4, <3>1 DEF QuietInv, ReturnInv, Ended
  <2> QED BY <2>1, <2>2
<1> QED BY <1>3, <1>5 DEF QuietInv

LEMMA BreakKeepsQuiet ==
  ASSUME TypeInv, QuietInv, Break
  PROVE  QuietInv'
<1>1. /\ UNCHANGED <<pc, open, failed, waits, discard, work, lease, queue>> /\ conn' = "closed"
  BY DEF Break, scopeVars, stateVars, leaseVars
<1>2. ScopeInv' /\ ReturnInv'
  BY <1>1, ScopeKept DEF QuietInv, ReturnInv
<1>3. Moved(0, << >>) /\ Len(<< >>) = 0
  BY <1>1, KeptMoves DEF TypeInv
<1>4. OpsInv' /\ AskedInv'
  BY <1>1, <1>3, OpsKept, AskedKept DEF QuietInv
<1>5. WorkInv'
  BY <1>1, WorkMoves, WorkScopes DEF QuietInv, Settling
<1> QED BY <1>2, <1>4, <1>5 DEF QuietInv

LEMMA QuietInit ==
  ASSUME Init
  PROVE  QuietInv
<1>1. /\ pc = [s \in Scopes |-> IF s = Root THEN "opening" ELSE "none"]
      /\ open = [s \in Scopes |-> FALSE]
      /\ failed = [s \in Scopes |-> FALSE]
      /\ lease = "held"
      /\ \A w \in Works : work[w].state = "new"
      /\ Root \in Scopes
  BY ConstantsAssumption DEF Init
<1>2. Len(queue) = 1 /\ queue[1].op = "BEGIN"
  BY DEF Init
<1>3. ScopeInv /\ ReturnInv
  BY <1>1 DEF ScopeInv, ReturnInv, NestedScopes, Active, Entered, Ended
<1>4. WorkInv
  BY <1>1 DEF WorkInv, Unfinished
<1>5. \A i \in 1..Len(queue) : queue[i].op = "BEGIN"
  BY <1>2
<1>6. OpsInv /\ AskedInv
  BY <1>5 DEF OpsInv, AskedInv, Asked, Asks, NestedOps
<1> QED BY <1>3, <1>4, <1>6 DEF QuietInv

LEMMA QuietStep ==
  ASSUME Awaits, TypeInv, LeaseInv, QuietInv, [Next]_vars
  PROVE  QuietInv'
<1>1. CASE UNCHANGED vars
  <2>1. /\ UNCHANGED <<pc, open, failed, waits, discard, work, lease, queue, conn>>
    BY <1>1 DEF vars
  <2>2. ScopeInv' /\ ReturnInv'
    BY <2>1, ScopeKept DEF QuietInv, ReturnInv
  <2>3. Moved(0, << >>) /\ Len(<< >>) = 0
    BY <2>1, KeptMoves DEF TypeInv
  <2>4. OpsInv' /\ AskedInv'
    BY <2>1, <2>3, OpsKept, AskedKept DEF QuietInv
  <2>5. WorkInv'
    BY <2>1, WorkMoves, WorkScopes DEF QuietInv, Settling
  <2> QED BY <2>2, <2>4, <2>5 DEF QuietInv
<1>2. CASE Break
  BY <1>2, BreakKeepsQuiet
<1>3. CASE Next /\ pc[Root] \in Ended
  BY <1>2, <1>3, OnlyBreak
<1>4. CASE Answers /\ pc[Root] \notin Ended
  BY <1>4, AnswerQueryKeepsQuiet, AnswerBeginKeepsQuiet, AnswerSavepointKeepsQuiet,
     AnswerReleaseKeepsQuiet, AnswerRollbackToKeepsQuiet, AnswerCommitKeepsQuiet,
     AnswerRollbackKeepsQuiet DEF Answers
<1>5. ASSUME NEW w \in Works, pc[Root] \notin Ended,
             StartStream(w) \/ CloseStream(w) \/ StartCopy(w) \/ Cancel(w)
      PROVE  QuietInv'
  BY <1>5, StartStreamKeepsQuiet, ClosingKeepsQuiet, StartCopyKeepsQuiet, CancelKeepsQuiet
  DEF CloseStream
<1>6. ASSUME NEW s \in Scopes, NEW w \in Works, pc[Root] \notin Ended, Issue(s, w) PROVE QuietInv'
  BY <1>6, IssueKeepsQuiet
<1>7. ASSUME NEW s \in Scopes, pc[Root] \notin Ended, SettleStream(s) PROVE QuietInv'
  <2>1. waits[s] \subseteq Works
    BY DEF TypeInv, TypeOK
  <2> QED BY <1>7, <2>1, ClosingKeepsQuiet DEF SettleStream
<1>8. ASSUME NEW s \in Scopes, pc[Root] \notin Ended,
             StartNested(s) \/ Return(s) \/ Throw(s) \/ Settled(s)
      PROVE  QuietInv'
  BY <1>8, StartNestedKeepsQuiet, ReturnKeepsQuiet, ThrowKeepsQuiet, SettledKeepsQuiet
<1> QED BY <1>1, <1>2, <1>3, <1>4, <1>5, <1>6, <1>7, <1>8 DEF Next

(* When the promise of a root transaction settles, no query, cursor or command
   of it is in flight or will be sent later, whatever its callbacks left
   running - provided that they await their COPYs and nested transactions. *)
THEOREM NothingLeft == Awaits => (Spec => []NothingLeftBehind)
<1> SUFFICES ASSUME Awaits PROVE Spec => []NothingLeftBehind
  OBVIOUS
<1>1. Init => TypeInv /\ LeaseInv /\ QuietInv
  BY TypeInit, LeaseInit, QuietInit
<1>2. TypeInv /\ LeaseInv /\ QuietInv /\ [Next]_vars => TypeInv' /\ LeaseInv' /\ QuietInv'
  BY TypeStep, LeaseStep, QuietStep
<1>3. TypeInv /\ LeaseInv /\ QuietInv => NothingLeftBehind
  BY Quiet
<1> QED BY <1>1, <1>2, <1>3, PTL DEF Spec

(* A client goes back to the pool for reuse only outside a transaction and with
   no operation on it having failed. *)
THEOREM ReturnedClean == Awaits => (Spec => []CleanReturn)
<1> SUFFICES ASSUME Awaits PROVE Spec => []CleanReturn
  OBVIOUS
<1>1. Init => TypeInv /\ LeaseInv /\ QuietInv
  BY TypeInit, LeaseInit, QuietInit
<1>2. TypeInv /\ LeaseInv /\ QuietInv /\ [Next]_vars => TypeInv' /\ LeaseInv' /\ QuietInv'
  BY TypeStep, LeaseStep, QuietStep
<1>3. TypeInv /\ LeaseInv /\ QuietInv => CleanReturn
  BY DEF QuietInv, ReturnInv, CleanReturn
<1> QED BY <1>1, <1>2, <1>3, PTL DEF Spec

-------------------------------------------------------------------------------
(***************************************************************************)
(* Atomicity.  Callbacks that, besides, use a scope only while nothing     *)
(* nested in it and no COPY of it is starting or runs.                     *)
(***************************************************************************)
Disciplined == Awaits /\ ~ Concurrent

In(s) == pc[s] \in Entered
InTxn == conn \in {"txn", "aborted"}

\* Nothing is nested in s.
Alone(s) == \A c \in NestedScopes : Parent[c] = s => ~ Active(c)

\* The scopes that are not over are nested in one another.
LineInv == \A c, d \in Scopes : Active(c) /\ Active(d) => c \in Line[d] \/ d \in Line[c]

\* A query that has effects is answered before its scope has a savepoint above it.
SpotInv ==
  \A w \in Works : \A i \in 1..Len(queue) : Asks(i, w) /\ Kind[w] # "stream" =>
    \A c \in NestedScopes : Parent[c] = work[w].scope /\ Active(c) =>
      /\ pc[c] = "opening"
      /\ \A k \in 1..Len(queue) : queue[k].op = "SAVEPOINT" /\ queue[k].scope = c => i < k

\* A batch that runs and a COPY that is loading have no nested transaction beside them.
AloneInv ==
  \A w \in Works :
    (Kind[w] = "batch" /\ work[w].state = "busy") \/ work[w].state = "loading"
      => Alone(work[w].scope)

\* A transaction the server has aborted is marked, or will be when the work that
\* failed is over; a scope that failed is not fulfilled.
MarkInv ==
  /\ conn = "aborted" => unsafeDepth # 0 \/ \E w \in Works : Spoiled(w)
  /\ \A s \in Scopes : failed[s] => pc[s] \notin {"none", "opening", "ending", "fulfilled"}
  /\ pc[Root] = "ending" => unsafeDepth = 0 /\ conn \in {"txn", "closed"}
  /\ pc[Root] = "fulfilled" => unsafeDepth = 0
  /\ pc[Root] \in {"opening", "running"} => valid
  /\ \A w \in Works : work[w].state \in {"new", "created", "done"} => ~ work[w].bad

\* Outside the transaction there is nothing left but to end it.
TornInv ==
  /\ torn => conn = "closed"
  /\ torn \/ (conn = "idle" /\ pc[Root] # "opening") => RootOver /\ \A w \in Works : ~ Unfinished(w)

\* The savepoints on the server: one for each scope that was entered, in the order
\* of their depths, among those of scopes that were rolled back.
FrameInv ==
  /\ pc[Root] = "opening" => frames = << >>
  /\ InTxn =>
    /\ In(Root) /\ Len(frames) > 0 /\ frames[1].scope = Root
    /\ \A s \in Scopes : In(s) => \E i \in 1..Len(frames) : frames[i].scope = s
    /\ \A i \in 1..Len(frames) : In(frames[i].scope) \/ pc[frames[i].scope] = "threw"
    /\ \A i, j \in 1..Len(frames) :
         i < j /\ In(frames[i].scope) => Depth[frames[i].scope] < Depth[frames[j].scope]

\* The effect e is where a rollback of just the scopes around it undoes it.
Belongs(e, i) ==
  /\ Kind[e[1]] # "stream" /\ work[e[1]].state \in {"busy", "done", "failed"}
  /\ work[e[1]].state = "failed" => failed[work[e[1]].scope]
  /\ \A t \in Line[work[e[1]].scope] :
       pc[t] = "fulfilled" \/ (In(t) /\ \A j \in 1..Len(frames) : frames[j].scope = t => j <= i)
  /\ \A j \in 1..i : In(frames[j].scope) => frames[j].scope \in Line[work[e[1]].scope]

\* The k-th query of w has succeeded, and nothing around it was rolled back.
Succeeded(w, k) ==
  /\ Kind[w] # "stream" /\ k \in 1..Size[w]
  /\ work[w].state = "done" \/ (work[w].state = "busy" /\ ~ work[w].bad /\ k < work[w].part)
  /\ \A t \in Line[work[w].scope] : pc[t] # "threw"

EffectInv ==
  InTxn =>
    /\ \A i \in 1..Len(frames) : \A e \in frames[i].effects : Belongs(e, i)
    /\ \A w \in Works : \A k \in Nat :
         Succeeded(w, k) => \E i \in 1..Len(frames) : <<w, k>> \in frames[i].effects

SavepointInv ==
  LineInv /\ SpotInv /\ AloneInv /\ MarkInv /\ FrameInv /\ EffectInv /\ MarkHasCause

-------------------------------------------------------------------------------
(***************************************************************************)
(* The transactions around a scope.  Line[s] is in every set that has s    *)
(* and the parent of what it has; each lemma takes the set that shows it.  *)
(***************************************************************************)
Upward(S, s) == s \in S /\ \A u \in S \ {Root} : Parent[u] \in S

LEMMA InLine ==
  ASSUME NEW s \in Scopes, NEW t
  PROVE  t \in Line[s] <=> t \in Scopes /\ \A S \in SUBSET Scopes : Upward(S, s) => t \in S
  BY DEF Line, Upward

LEMMA LineWithin ==
  ASSUME NEW s \in Scopes, NEW S \in SUBSET Scopes, s \in S, \A u \in S \ {Root} : Parent[u] \in S
  PROVE  Line[s] \subseteq S
  BY InLine DEF Upward

LEMMA LineUpward ==
  ASSUME NEW s \in Scopes
  PROVE  /\ Line[s] \subseteq Scopes /\ s \in Line[s]
         /\ \A u \in Line[s] \ {Root} : Parent[u] \in Line[s]
<1>1. Line[s] \subseteq Scopes /\ s \in Line[s]
  BY InLine DEF Upward
<1>2. ASSUME NEW u \in Line[s] \ {Root} PROVE Parent[u] \in Line[s]
  <2>1. Parent[u] \in Scopes
    BY <1>1, ConstantsAssumption
  <2>2. ASSUME NEW S \in SUBSET Scopes, Upward(S, s) PROVE Parent[u] \in S
    <3>1. u \in S
      BY <2>2, InLine
    <3> QED BY <2>2, <3>1 DEF Upward
  <2> QED BY <2>1, <2>2, InLine
<1> QED BY <1>1, <1>2

LEMMA LineOfRoot == Line[Root] = {Root}
<1>1. Root \in Scopes
  BY ConstantsAssumption
<1>2. Line[Root] \subseteq {Root}
  BY <1>1, LineWithin
<1> QED BY <1>1, <1>2, LineUpward

LEMMA LineTransitive ==
  ASSUME NEW s \in Scopes, NEW t \in Line[s]
  PROVE  Line[t] \subseteq Line[s]
<1>1. t \in Scopes /\ Line[s] \subseteq Scopes
  BY LineUpward
<1> QED BY <1>1, LineUpward, LineWithin

LEMMA LineOfNested ==
  ASSUME NEW s \in NestedScopes
  PROVE  Line[s] = {s} \cup Line[Parent[s]]
<1>1. s \in Scopes /\ s # Root /\ Parent[s] \in Scopes
  BY ParentOf DEF NestedScopes
<1>2. {s} \cup Line[Parent[s]] \subseteq Line[s]
  BY <1>1, LineUpward, LineTransitive
<1>3. Line[s] \subseteq {s} \cup Line[Parent[s]]
  <2> DEFINE S == {s} \cup Line[Parent[s]]
  <2>1. S \in SUBSET Scopes
    BY <1>1, LineUpward
  <2>2. \A u \in S \ {Root} : Parent[u] \in S
    BY <1>1, LineUpward
  <2> HIDE DEF S
  <2>3. s \in S
    BY DEF S
  <2>4. Line[s] \subseteq S
    BY <1>1, <2>1, <2>2, <2>3, LineWithin
  <2> QED BY <2>4 DEF S
<1> QED BY <1>2, <1>3

\* What is around a scope is shallower.
LEMMA LineShallower ==
  ASSUME NEW s \in Scopes, NEW t \in Line[s]
  PROVE  t = s \/ Depth[t] < Depth[s]
<1> DEFINE S == {u \in Scopes : u = s \/ Depth[u] < Depth[s]}
<1>1. \A u \in S \ {Root} : Parent[u] \in S
  <2> SUFFICES ASSUME NEW u \in S \ {Root} PROVE Parent[u] \in S
    OBVIOUS
  <2>1. Parent[u] \in Scopes /\ Depth[u] = Depth[Parent[u]] + 1
    BY ParentOf DEF NestedScopes
  <2>2. Depth[u] \in Nat /\ Depth[Parent[u]] \in Nat /\ Depth[s] \in Nat
    BY <2>1, ConstantsAssumption
  <2> QED BY <2>1, <2>2
<1>2. S \in SUBSET Scopes /\ s \in S
  OBVIOUS
<1> HIDE DEF S
<1>3. t \in S
  BY <1>1, <1>2, LineWithin
<1> QED BY <1>3 DEF S

\* Between a scope and one around it is a scope nested directly in the latter.
LEMMA LineStep ==
  ASSUME NEW s \in Scopes, NEW p \in Line[s], p # s
  PROVE  \E c \in Line[s] \ {Root} : Parent[c] = p
<1> DEFINE S == {t \in Line[s] : t = s \/ \E c \in Line[s] \ {Root} : Parent[c] = t}
<1>1. S \in SUBSET Scopes /\ s \in S
  BY LineUpward
<1>2. \A u \in S \ {Root} : Parent[u] \in S
  BY LineUpward
<1> HIDE DEF S
<1>3. p \in S
  BY <1>1, <1>2, LineWithin
<1> QED BY <1>3 DEF S

\* A scope that is not over is nested in scopes whose callbacks run.
LEMMA LineRuns ==
  ASSUME ScopeInv, NEW s \in Scopes, Active(s)
  PROVE  \A t \in Line[s] \ {s} : pc[t] = "running"
<1> DEFINE S == {t \in Scopes : t = s \/ pc[t] = "running"}
<1>1. \A u \in S \ {Root} : Parent[u] \in S
  <2> SUFFICES ASSUME NEW u \in S \ {Root} PROVE Parent[u] \in S
    OBVIOUS
  <2>1. u \in NestedScopes /\ Active(u)
    BY DEF NestedScopes, Active, Entered
  <2> QED BY <2>1, ParentOf DEF ScopeInv
<1>2. S \in SUBSET Scopes /\ s \in S
  OBVIOUS
<1> HIDE DEF S
<1>3. Line[s] \subseteq S
  BY <1>1, <1>2, LineWithin
<1> QED BY <1>3 DEF S

\* The deepest scope that is not over is inside all the others.
LEMMA Deepest ==
  ASSUME ScopeInv, LineInv, NEW s \in Scopes, Active(s),
         NEW c \in Scopes, Active(c),
         \A k \in NestedScopes : Parent[k] = s /\ Active(k) => pc[k] # "running" /\ k # c
  PROVE  c \in Line[s]
<1> SUFFICES ASSUME c \notin Line[s] PROVE FALSE
  OBVIOUS
<1>1. s \in Line[c] /\ s # c
  BY LineUpward DEF LineInv
<1>2. PICK k \in Line[c] \ {Root} : Parent[k] = s
  BY <1>1, LineStep
<1>3. k \in NestedScopes
  BY <1>2, LineUpward DEF NestedScopes
<1>4. k = c \/ pc[k] = "running"
  BY <1>2, LineRuns
<1>5. Active(k)
  BY <1>4 DEF Active, Entered
<1> QED BY <1>2, <1>3, <1>4, <1>5

LEMMA RootAround ==
  ASSUME NEW s \in Scopes PROVE Root \in Line[s]
<1>1. Line[s] \in SUBSET Scopes /\ Line[s] # {}
  BY LineUpward
<1>2. PICK m \in Line[s] : \A u \in Line[s] : Depth[m] <= Depth[u]
  BY <1>1, Shallowest
<1>3. ASSUME m # Root PROVE FALSE
  <2>1. m \in NestedScopes /\ Parent[m] \in Line[s]
    BY <1>1, <1>3, LineUpward DEF NestedScopes
  <2>2. Depth[m] = Depth[Parent[m]] + 1 /\ Parent[m] \in Scopes
    BY <2>1, ParentOf
  <2>3. Depth[Parent[m]] \in Nat
    BY <2>2, ConstantsAssumption
  <2> QED BY <1>2, <2>1, <2>2, <2>3
<1> QED BY <1>2, <1>3

-------------------------------------------------------------------------------
(***************************************************************************)
(* What a step may change of each part.                                    *)
(***************************************************************************)
LEMMA LineKept ==
  ASSUME LineInv, \A c \in Scopes : Active(c)' => Active(c) PROVE LineInv'
  BY DEF LineInv

LEMMA SpotMoves ==
  ASSUME TypeInv, AskedInv, SpotInv, NEW k, NEW c, Moved(k, c),
         \A w \in Works : work[w].state \in {"busy", "closing"} => work'[w].scope = work[w].scope,
         \A i \in 1..Len(c) : c[i].op = "query" /\ Kind[c[i].work] # "stream" =>
           Alone(work[c[i].work].scope)',
         \A w \in Works : \A i \in 1..Len(queue) : Asks(i, w) /\ Kind[w] # "stream" /\ i > k =>
           \A s \in NestedScopes : Parent[s] = work[w].scope /\ Active(s)' =>
             \/ Active(s) /\ (pc[s] = "opening" => pc'[s] = "opening")
             \/ /\ pc'[s] = "opening"
                /\ \A j \in 1..Len(queue) : queue[j].op = "SAVEPOINT" => queue[j].scope # s
  PROVE  SpotInv'
<1> SUFFICES ASSUME NEW w \in Works, NEW i \in 1..Len(queue'), Asks(i, w)', Kind[w] # "stream",
                    NEW s \in NestedScopes, Parent[s] = work'[w].scope, Active(s)'
             PROVE  /\ pc'[s] = "opening"
                    /\ \A j \in 1..Len(queue') :
                         queue'[j].op = "SAVEPOINT" /\ queue'[j].scope = s => i < j
  BY DEF SpotInv
<1>0. k \in {0, 1} /\ Len(queue) \in Nat /\ Len(c) \in Nat
  BY DEF Moved
<1>1. CASE /\ i - (Len(queue) - k) \in 1..Len(c)
           /\ queue'[i] = c[i - (Len(queue) - k)]
  <2> DEFINE m == i - (Len(queue) - k)
  <2>1. c[m].op = "query" /\ c[m].work = w
    BY <1>1 DEF Asks
  <2> HIDE DEF m
  <2>2. Alone(work[w].scope)'
    BY <1>1, <2>1 DEF m
  <2> QED BY <2>2 DEF Alone
<1>2. CASE i + k \in 1..Len(queue) /\ i <= Len(queue) - k /\ queue'[i] = queue[i + k]
  <2>1. Asks(i + k, w) /\ i + k > k
    BY <1>0, <1>2 DEF Asks
  <2>2. work[w].state \in {"busy", "closing"}
    BY <1>2, <2>1 DEF AskedInv, Asked
  <2>3. Parent[s] = work[w].scope
    BY <2>2
  <2>4. \/ Active(s) /\ (pc[s] = "opening" => pc'[s] = "opening")
        \/ /\ pc'[s] = "opening"
           /\ \A j \in 1..Len(queue) : queue[j].op = "SAVEPOINT" => queue[j].scope # s
    BY <1>2, <2>1, <2>3
  <2>5. Active(s) => /\ pc[s] = "opening"
                     /\ \A j \in 1..Len(queue) :
                          queue[j].op = "SAVEPOINT" /\ queue[j].scope = s => i + k < j
    BY <1>2, <2>1, <2>3 DEF SpotInv
  <2>6. \A j \in 1..Len(queue) : queue[j].op = "SAVEPOINT" /\ queue[j].scope = s => i + k < j
    BY <2>4, <2>5
  <2>7. ASSUME NEW j \in 1..Len(queue'), queue'[j].op = "SAVEPOINT", queue'[j].scope = s
        PROVE  i < j
    <3>1. CASE j + k \in 1..Len(queue) /\ queue'[j] = queue[j + k]
      <4>1. i + k < j + k
        BY <2>6, <2>7, <3>1
      <4> QED BY <1>0, <4>1
    <3>2. CASE j > Len(queue) - k
      BY <1>0, <1>2, <3>2
    <3> QED BY <3>1, <3>2, Origin
  <2> QED BY <2>4, <2>5, <2>7
<1> QED BY <1>1, <1>2, Origin

\* Nothing new is nested anywhere.
LEMMA SpotKept ==
  ASSUME TypeInv, AskedInv, SpotInv, NEW k, NEW c, Moved(k, c),
         \A w \in Works : work[w].state \in {"busy", "closing"} => work'[w].scope = work[w].scope,
         \A i \in 1..Len(c) : c[i].op = "query" /\ Kind[c[i].work] # "stream" =>
           Alone(work[c[i].work].scope)',
         \A s \in NestedScopes : Active(s)' => Active(s) /\ (pc[s] = "opening" => pc'[s] = "opening")
  PROVE  SpotInv'
  BY SpotMoves

LEMMA AloneKept ==
  ASSUME AloneInv, \A s \in NestedScopes : Active(s)' => Active(s),
         \A w \in Works :
           \/ work'[w].scope = work[w].scope /\ work'[w].state = work[w].state
           \/ ~ ((Kind[w] = "batch" /\ work'[w].state = "busy") \/ work'[w].state = "loading")
  PROVE  AloneInv'
  BY DEF AloneInv, Alone

LEMMA FrameAt ==
  ASSUME TypeInv, NEW i \in 1..Len(frames)
  PROVE  frames[i].scope \in Scopes /\ frames[i].effects \subseteq Effects
<1>1. frames \in Seq(Frame)
  BY DEF TypeInv, TypeOK, Frame
<1>2. frames[i] \in Frame
  BY <1>1
<1> QED BY <1>2 DEF Frame

LEMMA FramesKept ==
  ASSUME TypeInv, FrameInv, EffectInv, pc'[Root] # "opening",
         InTxn' =>
           /\ InTxn /\ UNCHANGED frames
           /\ \A s \in Scopes : (In(s)' <=> In(s)) /\ (pc[s] = "threw" => pc'[s] = "threw")
                /\ (pc[s] = "fulfilled" => pc'[s] = "fulfilled"),
         \A s \in Scopes : failed[s] => failed'[s],
         \A w \in Works : Kind[w] # "stream" =>
           \/ work'[w] = work[w]
           \/ /\ work[w].state \in {"new", "loading"}
              /\ \/ work'[w].state \in {"new", "loading", "failed"}
                 \/ work'[w].state = "busy" /\ work'[w].part = 1
  PROVE  FrameInv' /\ EffectInv'
<1> SUFFICES ASSUME InTxn' PROVE FrameInv' /\ EffectInv'
  BY DEF FrameInv, EffectInv
<1>1. /\ InTxn /\ UNCHANGED frames /\ frames \in Seq(Frame)
      /\ \A s \in Scopes : (In(s)' <=> In(s)) /\ (pc[s] = "threw" => pc'[s] = "threw")
           /\ (pc[s] = "fulfilled" => pc'[s] = "fulfilled")
  BY DEF TypeInv, TypeOK, Frame
<1>2. \A i \in 1..Len(frames) : frames[i].scope \in Scopes
  BY FrameAt
<1>3. Root \in Scopes
  BY ConstantsAssumption
<1>4. FrameInv'
  <2>1. In(Root)' /\ Len(frames') > 0 /\ frames'[1].scope = Root
    BY <1>1, <1>3 DEF FrameInv
  <2>2. \A s \in Scopes : In(s)' => \E i \in 1..Len(frames') : frames'[i].scope = s
    BY <1>1 DEF FrameInv
  <2>3. \A i \in 1..Len(frames') : In(frames[i].scope)' \/ pc'[frames'[i].scope] = "threw"
    <3> SUFFICES ASSUME NEW i \in 1..Len(frames)
                 PROVE  In(frames[i].scope)' \/ pc'[frames[i].scope] = "threw"
      BY <1>1
    <3>1. In(frames[i].scope) \/ pc[frames[i].scope] = "threw"
      BY <1>1 DEF FrameInv
    <3> QED BY <1>1, <1>2, <3>1 DEF In
  <2>4. \A i, j \in 1..Len(frames') :
          i < j /\ In(frames[i].scope)' => Depth[frames'[i].scope] < Depth[frames'[j].scope]
    <3> SUFFICES ASSUME NEW i \in 1..Len(frames), NEW j \in 1..Len(frames), i < j,
                        In(frames[i].scope)'
                 PROVE  Depth[frames[i].scope] < Depth[frames[j].scope]
      BY <1>1
    <3>1. In(frames[i].scope)
      BY <1>1, <1>2 DEF In
    <3> QED BY <1>1, <3>1 DEF FrameInv
  <2> QED BY <2>1, <2>2, <2>3, <2>4 DEF FrameInv
<1>5. ASSUME NEW i \in 1..Len(frames'), NEW e \in frames'[i].effects PROVE Belongs(e, i)'
  <2>1. Belongs(e, i) /\ i \in 1..Len(frames) /\ e \in Effects
    BY <1>1, FrameAt DEF EffectInv
  <2>2. e[1] \in Works
    BY <2>1 DEF Effects
  <2> DEFINE w == e[1]
  <2>3. work'[w] = work[w] /\ work[w].scope \in Scopes
    BY <2>1, <2>2, WorkScopes DEF Belongs
  <2>4. Line[work[w].scope] \subseteq Scopes
    BY <2>3, LineUpward
  <2>5. \A t \in Line[work[w].scope] :
          pc'[t] = "fulfilled" \/ (In(t)' /\ \A j \in 1..Len(frames') : frames'[j].scope = t => j <= i)
    BY <1>1, <2>1, <2>4 DEF Belongs
  <2>6. \A j \in 1..i : In(frames[j].scope)' => frames'[j].scope \in Line[work[w].scope]
    <3> SUFFICES ASSUME NEW j \in 1..i, In(frames[j].scope)'
                 PROVE  frames[j].scope \in Line[work[w].scope]
      BY <1>1
    <3>1. j \in 1..Len(frames)
      BY <1>1, <2>1
    <3>2. In(frames[j].scope)
      BY <1>1, <1>2, <3>1 DEF In
    <3> QED BY <2>1, <3>2 DEF Belongs
  <2>7. work'[w].state = "failed" => failed'[work'[w].scope]
    BY <2>1, <2>3 DEF Belongs
  <2> QED BY <2>1, <2>3, <2>5, <2>6, <2>7 DEF Belongs
<1>6. ASSUME NEW w \in Works, NEW k \in Nat, Succeeded(w, k)'
      PROVE  \E i \in 1..Len(frames') : <<w, k>> \in frames'[i].effects
  <2>1. work'[w] = work[w]
    BY <1>6 DEF Succeeded
  <2>2. \A t \in Line[work[w].scope] : pc[t] # "threw"
    BY <1>1, <1>6, <2>1, LineUpward, WorkScopes DEF Succeeded
  <2>3. Succeeded(w, k)
    BY <1>6, <2>1, <2>2 DEF Succeeded
  <2> QED BY <1>1, <2>3 DEF EffectInv
<1> QED BY <1>4, <1>5, <1>6 DEF EffectInv

\* The mark stays where it was.
LEMMA LiveKept ==
  ASSUME MarkHasCause, UNCHANGED unsafeDepth, conn = "closed" => conn' = "closed",
         \A s \in Scopes : failed[s] /\ pc[s] \notin Ended => failed'[s] /\ pc'[s] \notin Ended,
         pc[Root] = "threw" => pc'[Root] = "threw"
  PROVE  MarkHasCause'
  BY DEF MarkHasCause

\* A scope that is not over fails.
LEMMA LiveMarked ==
  ASSUME TypeInv, MarkHasCause, NEW s \in Scopes, RecordFailure(s), pc'[s] \notin Ended,
         conn = "closed" => conn' = "closed",
         \A t \in Scopes : failed[t] /\ pc[t] \notin Ended => pc'[t] \notin Ended,
         pc[Root] = "threw" => pc'[Root] = "threw"
  PROVE  MarkHasCause'
<1>1. /\ \A t \in Scopes : failed[t] => failed'[t]
      /\ failed'[s]
      /\ unsafeDepth' = IF unsafeDepth = 0 THEN Depth[s] ELSE Min2(unsafeDepth, Depth[s])
  BY DEF RecordFailure, MarkUnsafe, TypeInv, TypeOK
<1>2. unsafeDepth' = Depth[s] \/ (unsafeDepth' = unsafeDepth /\ unsafeDepth # 0)
  BY <1>1 DEF Min2
<1>3. CASE unsafeDepth' = Depth[s]
  BY <1>1, <1>3 DEF MarkHasCause
<1>4. CASE unsafeDepth' = unsafeDepth /\ unsafeDepth # 0
  BY <1>1, <1>4 DEF MarkHasCause
<1> QED BY <1>2, <1>3, <1>4

\* While the transaction is neither over nor lost, nothing is committed.
LEMMA Uncommitted ==
  ASSUME AllOrNothing, ~ torn, pc[Root] # "fulfilled",
         UNCHANGED <<committed, torn>>, pc'[Root] # "fulfilled", conn' # "idle"
  PROVE  TornInv' /\ AllOrNothing'
  BY DEF AllOrNothing, TornInv

LEMMA PromisedKept ==
  ASSUME TypeInv, UNCHANGED work, \A s \in NestedScopes : pc'[s] = pc[s]
  PROVE  Promised' = Promised
<1>1. \A w \in Works : Line[work[w].scope] \ {Root} \subseteq NestedScopes
  BY WorkScopes, LineUpward DEF NestedScopes
<1>2. \A e \in Effects : e[1] \in Works
  BY DEF Effects
<1>3. \A e \in Effects :
        (\A s \in Line[work[e[1]].scope] \ {Root} : pc'[s] = "fulfilled")
          <=> (\A s \in Line[work[e[1]].scope] \ {Root} : pc[s] = "fulfilled")
  BY <1>1, <1>2
<1> QED BY <1>3 DEF Promised

-------------------------------------------------------------------------------
(***************************************************************************)
(* Work: the scopes and the server stay where they are.                    *)
(***************************************************************************)
LEMMA NothingSent ==
  ASSUME TypeOK, UNCHANGED queue
  PROVE  \E c \in Seq(Command) : Moved(0, c) /\ \A i \in 1..Len(c) : FALSE
<1> DEFINE c == << >>
<1>1. c \in Seq(Command) /\ Len(c) = 0 /\ Moved(0, c)
  BY KeptMoves, NoCommand
<1> HIDE DEF c
<1>2. \A i \in 1..Len(c) : FALSE
  BY <1>1
<1> QED BY <1>1, <1>2

LEMMA WorkOnly ==
  ASSUME TypeInv, SavepointInv, pc[Root] # "opening",
         UNCHANGED <<pc, failed, unsafeDepth, valid, conn, frames>>,
         \A w \in Works : Kind[w] # "stream" =>
           \/ work'[w] = work[w]
           \/ /\ work[w].state \in {"new", "loading"}
              /\ \/ work'[w].state \in {"new", "loading", "failed"}
                 \/ work'[w].state = "busy" /\ work'[w].part = 1,
         \A w \in Works : Spoiled(w) => Spoiled(w)',
         \A w \in Works : work'[w].state \in {"new", "created", "done"} => ~ work'[w].bad
  PROVE  LineInv' /\ MarkInv' /\ FrameInv' /\ EffectInv' /\ MarkHasCause'
<1>1. LineInv'
  BY LineKept DEF SavepointInv, Active
<1>2. MarkInv'
  BY DEF SavepointInv, MarkInv
<1>3. FrameInv' /\ EffectInv'
  BY FramesKept DEF SavepointInv, In, InTxn
<1>4. MarkHasCause'
  BY LiveKept DEF SavepointInv
<1> QED BY <1>1, <1>2, <1>3, <1>4

LEMMA IssueKeepsSavepoints ==
  ASSUME Disciplined, TypeInv, QuietInv, SavepointInv, pc[Root] # "opening",
         NEW s \in Scopes, NEW w \in Works, Issue(s, w)
  PROVE  SavepointInv'
<1>1. /\ work[w].state = "new" /\ Nesting(s) = {}
      /\ UNCHANGED <<pc, failed, unsafeDepth, valid, conn, frames>>
  BY DEF Issue, MayUse, Sequential, Disciplined, scopeVars, stateVars, serverVars
<1>2. Alone(s) /\ Alone(s)'
  BY <1>1 DEF Nesting, Children, NestedScopes, Alone, Active, Entered, Ended
<1>3. PICK state \in {"created", "loading", "busy"}, c \in Seq(Command) :
        /\ work'[w].scope = s /\ work'[w].state = state /\ work'[w].part = 1 /\ ~ work'[w].bad
        /\ \A v \in Works \ {w} : work'[v] = work[v]
        /\ Moved(0, c)
        /\ \A i \in 1..Len(c) : c[i].op = "query" /\ c[i].work = w
        /\ state = "created" => Kind[w] = "stream"
  <2> DEFINE start(state) ==
           work' = [work EXCEPT ![w] = [scope |-> s, state |-> state, part |-> 1, bad |-> FALSE]]
  <2>1. ASSUME NEW state, start(state)
        PROVE  /\ work'[w].scope = s /\ work'[w].state = state /\ work'[w].part = 1 /\ ~ work'[w].bad
               /\ \A v \in Works \ {w} : work'[v] = work[v]
    <3>1. work'[w] = [scope |-> s, state |-> state, part |-> 1, bad |-> FALSE]
      BY <2>1 DEF TypeInv, TypeOK
    <3>2. \A v \in Works \ {w} : work'[v] = work[v]
      BY <2>1 DEF TypeInv, TypeOK
    <3> QED BY <3>1, <3>2
  <2> HIDE DEF start
  <2>2. CASE Kind[w] = "stream"
    <3>1. start("created") /\ UNCHANGED queue
      BY <2>2 DEF Issue, start
    <3> QED BY <2>1, <2>2, <3>1, NothingSent DEF TypeInv
  <2>3. CASE Kind[w] = "copy"
    <3>1. start("loading") /\ UNCHANGED queue
      BY <2>3 DEF Issue, start
    <3> QED BY <2>1, <3>1, NothingSent DEF TypeInv
  <2>4. CASE Kind[w] = "pipeline"
    <3> DEFINE c == [i \in 1..Size[w] |-> Query(w)]
    <3>1. start("busy") /\ Send(c)
      BY <2>4 DEF Issue, start
    <3>2. c \in Seq(Command) /\ \A i \in 1..Len(c) : c[i].op = "query" /\ c[i].work = w
      BY ManyQueries
    <3> HIDE DEF c
    <3>3. Moved(0, c)
      BY <3>1, <3>2, SendMoves DEF TypeInv
    <3> QED BY <2>1, <3>1, <3>2, <3>3
  <2>5. CASE Kind[w] \notin {"stream", "copy", "pipeline"}
    <3> DEFINE c == <<Query(w)>>
    <3>1. start("busy") /\ Send(c)
      BY <2>5 DEF Issue, start
    <3>2. c \in Seq(Command) /\ Len(c) = 1 /\ c[1].op = "query" /\ c[1].work = w
      BY OneQuery
    <3> HIDE DEF c
    <3>3. Moved(0, c)
      BY <3>1, <3>2, SendMoves DEF TypeInv
    <3>4. \A i \in 1..Len(c) : c[i].op = "query" /\ c[i].work = w
      BY <3>2, SoleIndex
    <3> QED BY <2>1, <3>1, <3>2, <3>3, <3>4
  <2> QED BY <2>2, <2>3, <2>4, <2>5
<1>4. LineInv' /\ MarkInv' /\ FrameInv' /\ EffectInv' /\ MarkHasCause'
  <2>1. \A v \in Works : Kind[v] # "stream" =>
           \/ work'[v] = work[v]
           \/ /\ work[v].state \in {"new", "loading"}
              /\ \/ work'[v].state \in {"new", "loading", "failed"}
                 \/ work'[v].state = "busy" /\ work'[v].part = 1
    BY <1>1, <1>3
  <2>2. \A v \in Works : Spoiled(v) => Spoiled(v)'
    BY <1>1, <1>3 DEF Spoiled
  <2>3. \A v \in Works : work'[v].state \in {"new", "created", "done"} => ~ work'[v].bad
    BY <1>1, <1>3 DEF SavepointInv, MarkInv
  <2> QED BY <1>1, <2>1, <2>2, <2>3, WorkOnly
<1>5. SpotInv'
  <2>1. \A v \in Works : work[v].state \in {"busy", "closing"} => work'[v].scope = work[v].scope
    BY <1>1, <1>3
  <2>2. \A i \in 1..Len(c) : c[i].op = "query" /\ Kind[c[i].work] # "stream" =>
           Alone(work[c[i].work].scope)'
    BY <1>2, <1>3
  <2>3. \A t \in NestedScopes : Active(t)' => Active(t) /\ (pc[t] = "opening" => pc'[t] = "opening")
    BY <1>1 DEF Active
  <2> QED BY <1>3, <2>1, <2>2, <2>3, SpotKept DEF SavepointInv, QuietInv
<1>6. AloneInv'
  <2> SUFFICES ASSUME NEW v \in Works,
                      (Kind[v] = "batch" /\ work'[v].state = "busy") \/ work'[v].state = "loading"
               PROVE  Alone(work[v].scope)'
    BY DEF AloneInv
  <2>1. CASE v = w
    BY <1>2, <1>3, <2>1
  <2>2. CASE v # w
    <3>1. work'[v] = work[v]
      BY <1>3, <2>2
    <3>2. Alone(work[v].scope)
      BY <3>1 DEF SavepointInv, AloneInv
    <3> QED BY <1>1, <3>1, <3>2 DEF Alone, Active
  <2> QED BY <2>1, <2>2
<1> QED BY <1>4, <1>5, <1>6 DEF SavepointInv

\* A query of a stream, or of a COPY that was loading, or none.
LEMMA StartedKeepsSavepoints ==
  ASSUME TypeInv, QuietInv, SavepointInv, pc[Root] # "opening",
         UNCHANGED <<pc, failed, unsafeDepth, valid, conn, frames>>,
         NEW w \in Works, NEW state, Finish(w, state),
         \/ state = "failed" \/ (state = "done" /\ ~ work[w].bad) \/ state \in {"busy", "closing"},
         \/ Kind[w] = "stream" /\ (Spoiled(w) => state \in {"busy", "closing"})
         \/ Kind[w] = "copy" /\ work[w].state = "loading" /\ state \in {"busy", "failed"},
         UNCHANGED queue \/ Send(<<Query(w)>>)
  PROVE  SavepointInv'
<1>1. /\ work'[w].state = state /\ work'[w].scope = work[w].scope /\ work'[w].part = work[w].part
      /\ work'[w].bad = work[w].bad
      /\ \A v \in Works \ {w} : work'[v] = work[v]
  BY FinishElse DEF TypeInv
<1>2. Kind[w] = "copy" => work[w].part = 1 /\ Alone(work[w].scope) /\ Alone(work[w].scope)'
  <2> SUFFICES ASSUME Kind[w] = "copy"
               PROVE  work[w].part = 1 /\ Alone(work[w].scope) /\ Alone(work[w].scope)'
    OBVIOUS
  <2>0. work[w].state = "loading"
    OBVIOUS
  <2>1. work[w].part = 1
    BY <2>0, ConstantsAssumption DEF TypeInv, WorkCounted, Parts
  <2>2. Alone(work[w].scope)
    BY <2>0 DEF SavepointInv, AloneInv
  <2> QED BY <1>1, <2>1, <2>2 DEF Alone, Active
<1>3. LineInv' /\ MarkInv' /\ FrameInv' /\ EffectInv' /\ MarkHasCause'
  <2>1. \A v \in Works : Kind[v] # "stream" =>
           \/ work'[v] = work[v]
           \/ /\ work[v].state \in {"new", "loading"}
              /\ \/ work'[v].state \in {"new", "loading", "failed"}
                 \/ work'[v].state = "busy" /\ work'[v].part = 1
    <3> SUFFICES ASSUME NEW v \in Works, Kind[v] # "stream", v = w, Kind[w] = "copy"
                 PROVE  /\ work[w].state \in {"new", "loading"}
                        /\ \/ work'[w].state \in {"new", "loading", "failed"}
                           \/ work'[w].state = "busy" /\ work'[w].part = 1
      BY <1>1
    <3> QED BY <1>1, <1>2
  <2>2. \A v \in Works : Spoiled(v) => Spoiled(v)'
    BY <1>1 DEF Spoiled
  <2>3. \A v \in Works : work'[v].state \in {"new", "created", "done"} => ~ work'[v].bad
    BY <1>1 DEF SavepointInv, MarkInv
  <2> QED BY <2>1, <2>2, <2>3, WorkOnly
<1>4. PICK c \in Seq(Command) :
        Moved(0, c) /\ \A i \in 1..Len(c) : c[i].op = "query" /\ c[i].work = w
  <2>1. CASE UNCHANGED queue
    BY <2>1, NothingSent DEF TypeInv
  <2>2. CASE Send(<<Query(w)>>)
    <3> DEFINE d == <<Query(w)>>
    <3>1. d \in Seq(Command) /\ Len(d) = 1 /\ d[1].op = "query" /\ d[1].work = w
      BY OneQuery
    <3>2. Moved(0, d)
      BY <2>2, <3>1, SendMoves DEF TypeInv
    <3> HIDE DEF d
    <3>3. \A i \in 1..Len(d) : d[i].op = "query" /\ d[i].work = w
      BY <3>1, SoleIndex
    <3> QED BY <3>1, <3>2, <3>3
  <2> QED BY <2>1, <2>2
<1>5. SpotInv'
  <2>1. \A v \in Works : work[v].state \in {"busy", "closing"} => work'[v].scope = work[v].scope
    BY <1>1
  <2>2. \A i \in 1..Len(c) : c[i].op = "query" /\ Kind[c[i].work] # "stream" =>
           Alone(work[c[i].work].scope)'
    <3> SUFFICES ASSUME NEW i \in 1..Len(c), Kind[c[i].work] # "stream"
                 PROVE  Alone(work[c[i].work].scope)'
      OBVIOUS
    <3>1. c[i].work = w /\ Kind[w] = "copy"
      BY <1>4
    <3> QED BY <1>1, <1>2, <3>1 DEF Alone
  <2>3. \A t \in NestedScopes : Active(t)' => Active(t) /\ (pc[t] = "opening" => pc'[t] = "opening")
    BY DEF Active
  <2> QED BY <1>4, <2>1, <2>2, <2>3, SpotKept DEF SavepointInv, QuietInv
<1>6. AloneInv'
  <2>1. \A v \in Works :
           \/ work'[v].scope = work[v].scope /\ work'[v].state = work[v].state
           \/ ~ ((Kind[v] = "batch" /\ work'[v].state = "busy") \/ work'[v].state = "loading")
    BY <1>1
  <2> QED BY <2>1, AloneKept DEF SavepointInv, Active
<1> QED BY <1>3, <1>5, <1>6 DEF SavepointInv

LEMMA StartStreamKeepsSavepoints ==
  ASSUME TypeInv, QuietInv, SavepointInv, pc[Root] # "opening", NEW w \in Works, StartStream(w)
  PROVE  SavepointInv'
<1>1. /\ UNCHANGED <<pc, failed, unsafeDepth, valid, conn, frames>> /\ work[w].state = "created"
  BY DEF StartStream, scopeVars, stateVars, serverVars
<1>2. Kind[w] = "stream" /\ ~ Spoiled(w)
  BY <1>1 DEF QuietInv, WorkInv, Spoiled
<1>3. (Finish(w, "busy") /\ Send(<<Query(w)>>)) \/ (Finish(w, "failed") /\ UNCHANGED queue)
  BY DEF StartStream
<1> QED BY <1>1, <1>2, <1>3, StartedKeepsSavepoints

LEMMA ClosingKeepsSavepoints ==
  ASSUME TypeInv, QuietInv, SavepointInv, pc[Root] # "opening", NEW w \in Works, Closing(w),
         UNCHANGED <<scopeVars, stateVars, leaseVars, serverVars>>
  PROVE  SavepointInv'
<1>1. UNCHANGED <<pc, failed, unsafeDepth, valid, conn, frames>> /\ Kind[w] = "stream"
  BY DEF Closing, scopeVars, stateVars, serverVars
<1>2. CASE work[w].state = "created" /\ Finish(w, "done") /\ UNCHANGED queue
  <2>1. ~ work[w].bad /\ ~ Spoiled(w)
    BY <1>2 DEF SavepointInv, MarkInv, Spoiled
  <2> QED BY <1>1, <1>2, <2>1, StartedKeepsSavepoints
<1>3. CASE Finish(w, "closing") /\ Send(<<Query(w)>>)
  BY <1>1, <1>3, StartedKeepsSavepoints
<1> QED BY <1>2, <1>3 DEF Closing

LEMMA StartCopyKeepsSavepoints ==
  ASSUME TypeInv, QuietInv, SavepointInv, pc[Root] # "opening", NEW w \in Works, StartCopy(w)
  PROVE  SavepointInv'
<1>1. /\ UNCHANGED <<pc, failed, unsafeDepth, valid, conn, frames>>
      /\ Kind[w] = "copy" /\ work[w].state = "loading"
  BY DEF StartCopy, scopeVars, serverVars
<1>2. (Finish(w, "busy") /\ Send(<<Query(w)>>)) \/ (Finish(w, "failed") /\ UNCHANGED queue)
  BY DEF StartCopy
<1> QED BY <1>1, <1>2, StartedKeepsSavepoints

\* The connection is lost.
LEMMA LostKeepsSavepoints ==
  ASSUME TypeInv, QuietInv, SavepointInv, conn' = "closed", frames' = << >>,
         UNCHANGED <<pc, failed, work, queue, valid>>,
         pc[Root] \in {"ending", "fulfilled"} => UNCHANGED unsafeDepth
  PROVE  SavepointInv'
<1>1. LineInv'
  BY LineKept DEF SavepointInv, Active
<1>2. MarkInv' /\ FrameInv' /\ EffectInv' /\ MarkHasCause'
  BY DEF SavepointInv, MarkInv, FrameInv, EffectInv, MarkHasCause, InTxn
<1>3. Moved(0, << >>) /\ Len(<< >>) = 0
  BY KeptMoves DEF TypeInv
<1>4. SpotInv'
  BY <1>3, SpotKept DEF SavepointInv, QuietInv, Active
<1>5. AloneInv'
  BY AloneKept DEF SavepointInv, Active
<1> QED BY <1>1, <1>2, <1>4, <1>5 DEF SavepointInv

LEMMA CancelKeepsSavepoints ==
  ASSUME TypeInv, LeaseInv, QuietInv, SavepointInv, NEW w \in Works, Cancel(w)
  PROVE  SavepointInv'
<1>1. Unfinished(w)
  BY DEF Cancel, Unfinished
<1>2. pc[Root] \notin {"ending", "fulfilled"}
  BY <1>1, AllSettled DEF Ended
<1> QED BY <1>2, LostKeepsSavepoints DEF Cancel, scopeVars

LEMMA BreakKeepsSavepoints ==
  ASSUME TypeInv, QuietInv, SavepointInv, Break
  PROVE  SavepointInv'
  BY LostKeepsSavepoints DEF Break, scopeVars, stateVars

-------------------------------------------------------------------------------
(***************************************************************************)
(* Scopes: they start, and their callbacks end.                            *)
(***************************************************************************)
LEMMA AloneNesting ==
  ASSUME NEW s, Nesting(s) = {} PROVE Alone(s)
  BY DEF Nesting, Children, NestedScopes, Alone, Active, Entered, Ended

LEMMA StartNestedKeepsSavepoints ==
  ASSUME Disciplined, TypeInv, QuietInv, SavepointInv, pc[Root] # "opening",
         NEW s \in Scopes, StartNested(s)
  PROVE  SavepointInv'
<1> DEFINE p == Parent[s]
<1>1. /\ s \in NestedScopes /\ s # Root /\ pc[s] = "none" /\ Goto(s, "opening")
      /\ Send(<<[op |-> "SAVEPOINT", scope |-> s]>>)
      /\ UNCHANGED <<failed, unsafeDepth, valid, work, conn, frames>>
  BY DEF StartNested, NestedScopes, stateVars, serverVars
<1>2. /\ p \in Scopes /\ pc[p] = "running" /\ Alone(p)
      /\ \A w \in Works : work[w].scope = p => work[w].state # "loading"
      /\ Busy("batch") = {}
  BY <1>1, ParentOf, AloneNesting
  DEF StartNested, MayUse, ScopeOpen, Sequential, Disciplined, Unhindered, QuietInv, ScopeInv
<1> HIDE DEF p
<1>3. pc'[s] = "opening" /\ \A t \in Scopes \ {s} : pc'[t] = pc[t]
  BY <1>1, GotoElse DEF TypeInv
<1>4. \A t \in Scopes \ {s} : Active(t)' <=> Active(t)
  BY <1>3 DEF Active
<1>5. LineInv'
  <2>1. ASSUME NEW c \in Scopes, c # s, Active(c) PROVE c \in Line[s]
    <3>1. c \in Line[p]
      BY <1>2, <2>1, Deepest DEF SavepointInv, QuietInv, Alone, Active, Entered
    <3> QED BY <1>1, <3>1, LineOfNested DEF p
  <2>2. s \in Line[s]
    BY LineUpward
  <2> QED BY <1>4, <2>1, <2>2 DEF SavepointInv, LineInv
<1> DEFINE d == [op |-> "SAVEPOINT", scope |-> s]
<1>6. <<d>> \in Seq(Command) /\ Len(<<d>>) = 1 /\ <<d>>[1].op = "SAVEPOINT"
  BY <1>1, ScopeCommand, OneCommand DEF NestedOps, NestedScopes
<1>7. Moved(0, <<d>>)
  BY <1>1, <1>6, SendMoves DEF TypeInv
<1> HIDE DEF d
<1>8. SpotInv'
  <2>1. \A i \in 1..Len(<<d>>) : <<d>>[i].op # "query"
    BY <1>6, SoleIndex
  <2>2. \A j \in 1..Len(queue) : queue[j].op = "SAVEPOINT" => queue[j].scope # s
    BY <1>1 DEF QuietInv, OpsInv, AwaitedBy, NestedOps
  <2>3. \A t \in NestedScopes : Active(t)' =>
             \/ Active(t) /\ (pc[t] = "opening" => pc'[t] = "opening")
             \/ /\ pc'[t] = "opening"
                /\ \A j \in 1..Len(queue) : queue[j].op = "SAVEPOINT" => queue[j].scope # t
    BY <1>3, <1>4, <2>2 DEF NestedScopes
  <2> QED BY <1>1, <1>7, <2>1, <2>3, SpotMoves DEF SavepointInv, QuietInv
<1>9. AloneInv'
  <2> SUFFICES ASSUME NEW w \in Works,
                      (Kind[w] = "batch" /\ work[w].state = "busy") \/ work[w].state = "loading",
                      NEW c \in NestedScopes, Parent[c] = work[w].scope
               PROVE  ~ Active(c)'
    BY <1>1 DEF AloneInv, Alone
  <2>1. work[w].state = "loading"
    BY <1>2 DEF Busy
  <2>2. c # s
    BY <1>2, <2>1 DEF p
  <2>3. ~ Active(c)
    BY DEF SavepointInv, AloneInv, Alone
  <2> QED BY <1>4, <2>2, <2>3 DEF NestedScopes
<1>10. MarkInv'
  <2>1. pc'[Root] = pc[Root]
    BY <1>1, <1>3, ConstantsAssumption
  <2>2. ~ failed[s]
    BY <1>1 DEF SavepointInv, MarkInv
  <2>3. \A t \in Scopes : failed'[t] => pc'[t] \notin {"none", "opening", "ending", "fulfilled"}
    BY <1>1, <1>3, <2>2 DEF SavepointInv, MarkInv
  <2> QED BY <1>1, <2>1, <2>3 DEF SavepointInv, MarkInv, Spoiled
<1>11. FrameInv' /\ EffectInv'
  <2>1. pc'[Root] # "opening"
    BY <1>1, <1>3, ConstantsAssumption
  <2>2. \A t \in Scopes : (In(t)' <=> In(t)) /\ (pc[t] = "threw" => pc'[t] = "threw")
                /\ (pc[t] = "fulfilled" => pc'[t] = "fulfilled")
    BY <1>1, <1>3 DEF In, Entered
  <2> QED BY <1>1, <2>1, <2>2, FramesKept DEF SavepointInv, InTxn
<1>12. MarkHasCause'
  BY <1>1, <1>3, LiveKept, ConstantsAssumption DEF SavepointInv, Ended
<1> QED BY <1>5, <1>8, <1>9, <1>10, <1>11, <1>12 DEF SavepointInv

\* The callback of s ends, or what it awaits is settled; it has yet to be ended.
LEMMA LeavesKeepsSavepoints ==
  ASSUME TypeInv, QuietInv, SavepointInv, pc[Root] # "opening", NEW s \in Scopes, In(s),
         NEW label \in Entered \ {"running"}, Goto(s, label),
         UNCHANGED <<failed, unsafeDepth, work, conn, frames>>,
         valid' = valid \/ s = Root,
         label = "ending" => ~ failed[s] /\ (s = Root => unsafeDepth = 0 /\ conn \in {"txn", "closed"}),
         NEW c, Moved(0, c), \A i \in 1..Len(c) : c[i].op # "query"
  PROVE  SavepointInv'
<1>1. pc'[s] = label /\ \A t \in Scopes \ {s} : pc'[t] = pc[t]
  BY GotoElse DEF TypeInv
<1>2. \A t \in Scopes : /\ (In(t)' <=> In(t)) /\ (Active(t)' <=> Active(t))
                        /\ (pc[t] = "opening" => pc'[t] = "opening")
                        /\ (pc[t] \in Ended => pc'[t] = pc[t])
                        /\ (pc'[t] \in Ended => pc'[t] = pc[t])
  BY <1>1 DEF In, Active, Entered, Ended
<1>3. LineInv'
  BY <1>2, LineKept DEF SavepointInv
<1>4. SpotInv'
  BY <1>2, SpotKept DEF SavepointInv, QuietInv, NestedScopes
<1>5. AloneInv'
  BY <1>2, AloneKept DEF SavepointInv, NestedScopes
<1>6. MarkInv'
  <2>1. \A t \in Scopes : failed'[t] => pc'[t] \notin {"none", "opening", "ending", "fulfilled"}
    BY <1>1 DEF SavepointInv, MarkInv, Entered
  <2>2. pc'[Root] = "ending" => unsafeDepth = 0 /\ conn \in {"txn", "closed"}
    BY <1>1, ConstantsAssumption DEF SavepointInv, MarkInv
  <2>3. pc'[Root] = "fulfilled" => unsafeDepth = 0
    BY <1>1, ConstantsAssumption DEF SavepointInv, MarkInv, Entered
  <2>4. pc'[Root] \in {"opening", "running"} => valid'
    BY <1>1, ConstantsAssumption DEF SavepointInv, MarkInv, Entered
  <2>5. conn' = "aborted" => unsafeDepth' # 0 \/ \E w \in Works : Spoiled(w)'
    BY DEF SavepointInv, MarkInv, Spoiled
  <2> QED BY <2>1, <2>2, <2>3, <2>4, <2>5 DEF SavepointInv, MarkInv
<1>7. pc'[Root] # "opening"
  BY <1>1, ConstantsAssumption DEF Entered
<1>8. FrameInv' /\ EffectInv'
  BY <1>2, <1>7, FramesKept DEF SavepointInv, InTxn, Ended
<1>9. MarkHasCause'
  BY <1>2, LiveKept, ConstantsAssumption DEF SavepointInv, Ended
<1> QED BY <1>3, <1>4, <1>5, <1>6, <1>8, <1>9 DEF SavepointInv

LEMMA StillValid ==
  ASSUME TypeInv, NEW s, CloseScope(s) PROVE valid' = valid \/ s = Root
<1>1. valid \in BOOLEAN /\ valid' = (valid /\ s # Root)
  BY DEF TypeInv, TypeOK, CloseScope
<1>2. CASE s # Root
  BY <1>1, <1>2
<1> QED BY <1>2

LEMMA ReturnKeepsSavepoints ==
  ASSUME TypeInv, QuietInv, SavepointInv, TornInv, pc[Root] # "opening", NEW s \in Scopes, Return(s)
  PROVE  SavepointInv'
<1>1. /\ pc[s] = "running" /\ In(s) /\ (valid' = valid \/ s = Root)
      /\ UNCHANGED <<failed, unsafeDepth, work, conn, frames>>
  BY StillValid DEF Return, CallbackMayEnd, In, Entered, serverVars
<1>2. CASE \E label \in {"leaked", "settling"} : Await(s, label) /\ UNCHANGED queue
  <2>1. PICK label \in {"leaked", "settling"} : Goto(s, label)
    BY <1>2, AwaitElse DEF TypeInv
  <2>2. Moved(0, << >>) /\ Len(<< >>) = 0
    BY <1>2, KeptMoves DEF TypeInv
  <2> QED BY <1>1, <2>1, <2>2, LeavesKeepsSavepoints DEF Entered
<1>3. CASE /\ ~ CannotCommit(s) /\ Tracked(s) = {} /\ Goto(s, "ending")
           /\ Send(<<[op |-> IF s = Root THEN "COMMIT" ELSE "RELEASE", scope |-> s]>>)
  <2> DEFINE op == IF s = Root THEN "COMMIT" ELSE "RELEASE"
             d == [op |-> op, scope |-> s]
  <2>1. <<d>> \in Seq(Command) /\ Len(<<d>>) = 1 /\ <<d>>[1] = d /\ d.op # "query"
    <3>1. d \in Command /\ d.op # "query"
      BY ScopeCommand DEF RootOps, NestedOps
    <3> QED BY <3>1, OneCommand
  <2>2. Moved(0, <<d>>)
    BY <1>3, <2>1, SendMoves DEF TypeInv
  <2> HIDE DEF d
  <2>3. \A i \in 1..Len(<<d>>) : <<d>>[i].op # "query"
    BY <2>1, SoleIndex
  <2>4. ~ failed[s] /\ unsafeDepth = 0
    BY <1>3 DEF CannotCommit
  <2>5. s = Root => conn \in {"txn", "closed"}
    <3> SUFFICES ASSUME s = Root PROVE conn \in {"txn", "closed"}
      OBVIOUS
    <3>1. conn # "idle"
      BY <1>1 DEF TornInv, RootOver, Ended
    <3>2. \A w \in Works : ~ Spoiled(w)
      BY <1>3 DEF Tracked, Busy, Spoiled
    <3>3. conn # "aborted"
      BY <2>4, <3>2 DEF SavepointInv, MarkInv
    <3> QED BY <3>1, <3>3 DEF TypeInv, TypeOK
  <2> QED BY <1>1, <1>3, <2>2, <2>3, <2>4, <2>5, LeavesKeepsSavepoints DEF Entered
<1> QED BY <1>2, <1>3 DEF Return

LEMMA ThrowKeepsSavepoints ==
  ASSUME TypeInv, QuietInv, SavepointInv, pc[Root] # "opening", NEW s \in Scopes, Throw(s)
  PROVE  SavepointInv'
<1>1. /\ In(s) /\ (valid' = valid \/ s = Root)
      /\ UNCHANGED <<failed, unsafeDepth, work, conn, frames, queue>>
  BY StillValid DEF Throw, CallbackMayEnd, In, Entered, serverVars
<1>2. Goto(s, "settling")
  BY AwaitElse DEF TypeInv, Throw
<1>3. Moved(0, << >>) /\ Len(<< >>) = 0
  BY <1>1, KeptMoves DEF TypeInv
<1> QED BY <1>1, <1>2, <1>3, LeavesKeepsSavepoints DEF Entered

\* A scope is rejected on a connection that is lost.
LEMMA LostScopeKeepsSavepoints ==
  ASSUME TypeInv, QuietInv, SavepointInv, pc[Root] # "opening", NEW s \in Scopes, Goto(s, "threw"),
         UNCHANGED <<failed, work, valid>>, conn' = "closed",
         s = Root \/ (UNCHANGED unsafeDepth) \/ pc[Root] \notin {"ending", "fulfilled"},
         NEW k, NEW c, Moved(k, c), \A i \in 1..Len(c) : c[i].op # "query"
  PROVE  SavepointInv'
<1>1. pc'[s] = "threw" /\ \A t \in Scopes \ {s} : pc'[t] = pc[t]
  BY GotoElse DEF TypeInv
<1>2. \A t \in Scopes : Active(t)' => Active(t) /\ (pc[t] = "opening" => pc'[t] = "opening")
  BY <1>1 DEF Active, Entered
<1>3. LineInv'
  BY <1>2, LineKept DEF SavepointInv
<1>4. SpotInv'
  BY <1>2, SpotKept DEF SavepointInv, QuietInv, NestedScopes
<1>5. AloneInv'
  BY <1>2, AloneKept DEF SavepointInv, NestedScopes
<1>6. MarkInv'
  BY <1>1, ConstantsAssumption DEF SavepointInv, MarkInv
<1>7. FrameInv'
  BY <1>1, ConstantsAssumption DEF FrameInv, InTxn
<1>8. EffectInv' /\ MarkHasCause'
  BY DEF EffectInv, MarkHasCause, InTxn
<1> QED BY <1>3, <1>4, <1>5, <1>6, <1>7, <1>8 DEF SavepointInv

LEMMA SettledKeepsSavepoints ==
  ASSUME TypeInv, LeaseInv, QuietInv, SavepointInv, pc[Root] \notin Ended, pc[Root] # "opening",
         NEW s \in Scopes, Settled(s)
  PROVE  SavepointInv'
<1>1. /\ pc[s] \in {"leaked", "settling"} /\ In(s)
      /\ UNCHANGED <<failed, unsafeDepth, valid, work, conn, frames>>
  BY DEF Settled, Settling, stateVars, serverVars, In, Entered
<1>2. CASE pc[s] = "leaked"
  <2>1. Goto(s, "settling") /\ UNCHANGED queue
    BY <1>2, AwaitElse DEF Settled, TypeInv
  <2>2. Moved(0, << >>) /\ Len(<< >>) = 0
    BY <2>1, KeptMoves DEF TypeInv
  <2> QED BY <1>1, <2>1, <2>2, LeavesKeepsSavepoints DEF Entered
<1>3. CASE pc[s] = "settling" /\ MustUndo(s)
  <2> DEFINE op == IF s = Root THEN "ROLLBACK" ELSE "ROLLBACK TO"
             d == [op |-> op, scope |-> s]
  <2>1. Send(<<d>>) /\ Goto(s, "undoing")
    BY <1>3 DEF Settled
  <2>2. <<d>> \in Seq(Command) /\ Len(<<d>>) = 1 /\ <<d>>[1] = d /\ d.op # "query"
    <3>1. d \in Command /\ d.op # "query"
      BY ScopeCommand DEF RootOps, NestedOps
    <3> QED BY <3>1, OneCommand
  <2> HIDE DEF d
  <2>3. Moved(0, <<d>>)
    BY <2>1, <2>2, SendMoves DEF TypeInv
  <2>4. \A i \in 1..Len(<<d>>) : <<d>>[i].op # "query"
    BY <2>2, SoleIndex
  <2> QED BY <1>1, <2>1, <2>3, <2>4, LeavesKeepsSavepoints DEF Entered
<1>4. CASE pc[s] = "settling" /\ ~ MustUndo(s)
  <2>1. Goto(s, "threw") /\ UNCHANGED queue
    BY <1>4 DEF Settled
  <2>2. lease # "held"
    <3>1. CASE s = Root
      BY <1>4, <3>1 DEF MustUndo, LeaseGone
    <3>2. CASE s # Root
      <4>1. Active(s) /\ s \in NestedScopes
        BY <1>1, <3>2 DEF Active, Entered, NestedScopes
      <4>2. valid
        BY <4>1, RootRuns DEF QuietInv, SavepointInv, MarkInv
      <4> QED BY <1>4, <4>2 DEF MustUndo, LeaseGone
    <3> QED BY <3>1, <3>2
  <2>3. conn' = "closed"
    BY <1>1, <2>2 DEF QuietInv, ReturnInv
  <2>4. Moved(0, << >>) /\ Len(<< >>) = 0
    BY <2>1, KeptMoves DEF TypeInv
  <2> QED BY <1>1, <2>1, <2>3, <2>4, LostScopeKeepsSavepoints
<1> QED BY <1>1, <1>2, <1>3, <1>4

-------------------------------------------------------------------------------
(***************************************************************************)
(* The savepoint of a nested transaction.                                  *)
(***************************************************************************)
LEMMA PushedKeepsFrames ==
  ASSUME TypeInv, ScopeInv, LineInv, FrameInv, EffectInv, conn = "txn",
         NEW s \in NestedScopes, pc[s] = "opening", pc'[s] = "running",
         \A t \in Scopes \ {s} : pc'[t] = pc[t],
         frames' = Append(frames, [scope |-> s, effects |-> {}]), UNCHANGED <<work, failed>>
  PROVE  FrameInv' /\ EffectInv'
<1> DEFINE n == Len(frames)
<1>0. frames \in Seq(Frame) /\ n \in Nat /\ s \in Scopes /\ Root \in Scopes /\ s # Root
  BY ConstantsAssumption DEF TypeInv, TypeOK, Frame, NestedScopes
<1>1. /\ Len(frames') = n + 1
      /\ \A i \in 1..n : frames'[i] = frames[i]
      /\ frames'[n + 1].scope = s /\ frames'[n + 1].effects = {}
  <2> DEFINE f == [scope |-> s, effects |-> {}]
  <2>1. f \in Frame /\ f.scope = s /\ f.effects = {}
    BY <1>0 DEF Frame
  <2> HIDE DEF f
  <2>2. frames' = Append(frames, f)
    BY DEF f
  <2> QED BY <1>0, <2>1, <2>2
<1>2. /\ In(Root) /\ n > 0 /\ frames[1].scope = Root
      /\ \A t \in Scopes : In(t) => \E i \in 1..n : frames[i].scope = t
      /\ \A i \in 1..n : In(frames[i].scope) \/ pc[frames[i].scope] = "threw"
      /\ \A i, j \in 1..n :
           i < j /\ In(frames[i].scope) => Depth[frames[i].scope] < Depth[frames[j].scope]
  BY DEF FrameInv, InTxn
<1>3. /\ In(s)' /\ ~ In(s) /\ pc[s] \notin {"threw", "fulfilled"}
      /\ \A t \in Scopes \ {s} : In(t)' <=> In(t)
  BY DEF In, Entered
<1>4. \A i \in 1..n : frames[i].scope \in Scopes \ {s}
  BY <1>2, <1>3, FrameAt
<1>5. ASSUME NEW t \in Scopes, In(t) PROVE Depth[t] < Depth[s]
  <2>1. Active(t) /\ Active(s) /\ t # s
    BY <1>3, <1>5 DEF Active, In
  <2>2. s \notin Line[t]
    BY <2>1, LineRuns
  <2>3. t \in Line[s]
    BY <1>0, <2>1, <2>2 DEF LineInv
  <2> QED BY <1>0, <2>1, <2>3, LineShallower
<1> HIDE DEF n
<1>6. FrameInv'
  <2>1. In(Root)' /\ Len(frames') > 0 /\ frames'[1].scope = Root /\ pc'[Root] # "opening"
    BY <1>0, <1>1, <1>2, <1>3 DEF In, Entered
  <2>2. ASSUME NEW t \in Scopes, In(t)' PROVE \E i \in 1..Len(frames') : frames'[i].scope = t
    <3>1. CASE t = s
      BY <1>0, <1>1, <3>1
    <3>2. CASE t # s
      <4>1. PICK i \in 1..n : frames[i].scope = t
        BY <1>2, <1>3, <2>2, <3>2
      <4> QED BY <1>0, <1>1, <4>1
    <3> QED BY <3>1, <3>2
  <2>3. ASSUME NEW i \in 1..Len(frames')
        PROVE  pc'[frames'[i].scope] \in Entered \/ pc'[frames'[i].scope] = "threw"
    <3>1. CASE i = n + 1
      BY <1>1, <3>1 DEF Entered
    <3>2. CASE i # n + 1
      <4>1. i \in 1..n /\ frames'[i] = frames[i] /\ pc'[frames[i].scope] = pc[frames[i].scope]
        BY <1>0, <1>1, <1>4, <3>2
      <4> QED BY <1>2, <4>1 DEF In
    <3> QED BY <3>1, <3>2
  <2>4. ASSUME NEW i \in 1..Len(frames'), NEW j \in 1..Len(frames'), i < j,
               pc'[frames'[i].scope] \in Entered
        PROVE  Depth[frames'[i].scope] < Depth[frames'[j].scope]
    <3>1. i \in 1..n /\ frames'[i] = frames[i] /\ In(frames[i].scope) /\ frames[i].scope \in Scopes
      BY <1>0, <1>1, <1>4, <2>4 DEF In
    <3>2. CASE j = n + 1
      BY <1>1, <1>5, <3>1, <3>2
    <3>3. CASE j # n + 1
      BY <1>0, <1>1, <1>2, <2>4, <3>1, <3>3
    <3> QED BY <3>2, <3>3
  <2> QED BY <2>1, <2>2, <2>3, <2>4 DEF FrameInv, In
<1>7. ASSUME NEW i \in 1..Len(frames'), NEW e \in frames'[i].effects PROVE Belongs(e, i)'
  <2>1. i \in 1..n /\ frames'[i] = frames[i]
    BY <1>0, <1>1, <1>7
  <2>2. Belongs(e, i) /\ e \in Effects
    BY <1>7, <2>1, FrameAt DEF EffectInv, InTxn, n
  <2>3. e[1] \in Works
    BY <2>2 DEF Effects
  <2> DEFINE o == work[e[1]].scope
  <2>4. Line[o] \subseteq Scopes
    BY <2>3, LineUpward, WorkScopes
  <2>5. ASSUME NEW t \in Line[o]
        PROVE  pc'[t] = "fulfilled" \/ (In(t)' /\ \A j \in 1..Len(frames') : frames'[j].scope = t => j <= i)
    <3>1. pc[t] = "fulfilled" \/ (In(t) /\ \A j \in 1..n : frames[j].scope = t => j <= i)
      BY <2>2 DEF Belongs, n
    <3>2. t \in Scopes /\ t # s
      BY <1>3, <2>4, <3>1
    <3> QED BY <1>0, <1>1, <1>3, <3>1, <3>2
  <2>6. \A j \in 1..i : pc'[frames'[j].scope] \in Entered => frames'[j].scope \in Line[o]
    <3> SUFFICES ASSUME NEW j \in 1..i, pc'[frames'[j].scope] \in Entered
                 PROVE  frames'[j].scope \in Line[o]
      OBVIOUS
    <3>1. j \in 1..n /\ frames'[j] = frames[j]
      BY <1>0, <1>1, <2>1
    <3>2. In(frames[j].scope)
      BY <1>4, <3>1 DEF In
    <3> QED BY <2>2, <3>1, <3>2 DEF Belongs
  <2> HIDE DEF o
  <2> QED BY <2>2, <2>5, <2>6 DEF Belongs, In, o
<1>8. ASSUME NEW w \in Works, NEW k \in Nat, Succeeded(w, k)'
      PROVE  \E i \in 1..Len(frames') : <<w, k>> \in frames'[i].effects
  <2>1. \A t \in Line[work[w].scope] : pc[t] # "threw"
    BY <1>3, <1>8, LineUpward, WorkScopes DEF Succeeded
  <2>2. Succeeded(w, k)
    BY <1>8, <2>1 DEF Succeeded
  <2>3. PICK i \in 1..n : <<w, k>> \in frames[i].effects
    BY <2>2 DEF EffectInv, InTxn, n
  <2> QED BY <1>0, <1>1, <2>3
<1> QED BY <1>6, <1>7, <1>8 DEF EffectInv

LEMMA AnswerSavepointKeepsSavepoints ==
  ASSUME TypeInv, QuietInv, SavepointInv, AnswerSavepoint
  PROVE  SavepointInv'
<1> DEFINE s == Head(queue).scope
           p == Parent[s]
<1>1. /\ IsHead("SAVEPOINT") /\ Answer(<< >>)
      /\ UNCHANGED <<valid, work, conn>>
      /\ \/ conn = "txn" /\ Enter(s) /\ UNCHANGED <<failed, unsafeDepth>>
         \/ conn # "txn" /\ RecordFailure(p) /\ Goto(s, "threw") /\ UNCHANGED frames
  BY DEF AnswerSavepoint
<1>2. /\ s \in NestedScopes /\ pc[s] = "opening" /\ Moved(1, << >>) /\ Len(<< >>) = 0
      /\ 1 \in 1..Len(queue) /\ queue[1].op = "SAVEPOINT" /\ queue[1].scope = s
  BY <1>1, OpWaits, OpHead, NoCommand DEF QuietInv, NestedOps, AwaitedBy
<1> HIDE DEF s
<1>3. /\ s \in Scopes /\ s # Root /\ p \in Scopes /\ pc[p] = "running" /\ pc[Root] = "running"
      /\ p # s /\ ~ failed[s] /\ Root \in Scopes
  BY <1>2, ParentOf, RootRuns, ConstantsAssumption
  DEF NestedScopes, QuietInv, ScopeInv, Active, SavepointInv, MarkInv
<1> HIDE DEF p
<1>4. CASE Enter(s) /\ conn = "txn" /\ UNCHANGED <<failed, unsafeDepth>>
  <2>1. /\ pc'[s] = "running" /\ \A t \in Scopes \ {s} : pc'[t] = pc[t]
        /\ frames' = Append(frames, [scope |-> s, effects |-> {}])
    BY <1>3, <1>4, GotoElse DEF Enter, TypeInv
  <2>2. \A t \in Scopes : Active(t)' <=> Active(t)
    BY <1>2, <2>1 DEF Active, Entered
  <2>3. LineInv' /\ AloneInv'
    BY <1>1, <2>2, LineKept, AloneKept DEF SavepointInv, NestedScopes
  <2>4. SpotInv'
    <3>1. ASSUME NEW w \in Works, NEW i \in 1..Len(queue), Asks(i, w), Kind[w] # "stream", i > 1,
                 NEW t \in NestedScopes, Parent[t] = work[w].scope, Active(t)'
          PROVE  Active(t) /\ (pc[t] = "opening" => pc'[t] = "opening")
      <4>1. Active(t)
        BY <2>2, <3>1 DEF NestedScopes
      <4>2. t # s
        BY <1>2, <3>1, <4>1 DEF SavepointInv, SpotInv
      <4> QED BY <2>1, <4>1, <4>2 DEF NestedScopes
    <3> QED BY <1>1, <1>2, <3>1, SpotMoves DEF SavepointInv, QuietInv
  <2>5. MarkInv'
    BY <1>1, <1>3, <1>4, <2>1 DEF SavepointInv, MarkInv, Spoiled
  <2>6. FrameInv' /\ EffectInv'
    BY <1>1, <1>2, <1>4, <2>1, PushedKeepsFrames DEF SavepointInv, QuietInv
  <2>7. MarkHasCause'
    BY <1>1, <1>2, <1>3, <1>4, <2>1, LiveKept DEF SavepointInv, Ended
  <2> QED BY <2>3, <2>4, <2>5, <2>6, <2>7 DEF SavepointInv
<1>5. CASE conn # "txn" /\ RecordFailure(p) /\ Goto(s, "threw") /\ UNCHANGED frames
  <2>1. pc'[s] = "threw" /\ \A t \in Scopes \ {s} : pc'[t] = pc[t]
    BY <1>3, <1>5, GotoElse DEF TypeInv
  <2>2. \A t \in Scopes : Active(t)' => Active(t) /\ pc'[t] = pc[t]
    BY <1>2, <2>1 DEF Active, Entered
  <2>3. LineInv' /\ AloneInv'
    BY <1>1, <2>2, LineKept, AloneKept DEF SavepointInv, NestedScopes
  <2>4. SpotInv'
    BY <1>1, <1>2, <2>2, SpotKept DEF SavepointInv, QuietInv, NestedScopes
  <2>5. /\ unsafeDepth' # 0 /\ \A t \in Scopes : failed'[t] => failed[t] \/ t = p
        /\ \A t \in Scopes : failed[t] => failed'[t]
    BY <1>3, <1>5, FailureTyped DEF RecordFailure, TypeInv, TypeOK
  <2>6. MarkInv'
    BY <1>1, <1>3, <2>1, <2>5 DEF SavepointInv, MarkInv
  <2>7. FrameInv' /\ EffectInv'
    <3>1. \A t \in Scopes : (In(t)' <=> In(t)) /\ (pc[t] = "threw" => pc'[t] = "threw")
                /\ (pc[t] = "fulfilled" => pc'[t] = "fulfilled")
      BY <1>2, <2>1 DEF In, Entered
    <3> QED BY <1>1, <1>3, <1>5, <2>1, <2>5, <3>1, FramesKept DEF SavepointInv, InTxn
  <2>8. MarkHasCause'
    BY <1>1, <1>3, <1>5, <2>1, LiveMarked DEF SavepointInv, Ended
  <2> QED BY <2>3, <2>4, <2>6, <2>7, <2>8 DEF SavepointInv
<1> QED BY <1>1, <1>4, <1>5

\* A nested transaction that ends has the savepoint that its command names, the
\* latest of its depth; above it are only those of transactions rolled back.
LEMMA OwnSavepoint ==
  ASSUME TypeInv, ScopeInv, LineInv, FrameInv, InTxn, NEW s \in NestedScopes,
         pc[s] \in {"ending", "undoing"}
  PROVE  \E i \in 2..Len(frames) :
           /\ frames[i].scope = s /\ Latest(s) = {i}
           /\ \A j \in 1..Len(frames) : In(frames[j].scope) /\ frames[j].scope # s => j < i
           /\ \A j \in 1..Len(frames) : frames[j].scope = s => j >= i
<1> DEFINE n == Len(frames)
<1>0. n \in Nat /\ s \in Scopes /\ s # Root /\ In(s) /\ Active(s) /\ DOMAIN frames = 1..n
  BY DEF TypeInv, TypeOK, NestedScopes, In, Active, Entered
<1>1. /\ frames[1].scope = Root
      /\ \A i, j \in 1..n :
           i < j /\ In(frames[i].scope) => Depth[frames[i].scope] < Depth[frames[j].scope]
  BY DEF FrameInv
<1>2. PICK i \in 1..n : frames[i].scope = s
  BY <1>0 DEF FrameInv
<1>3. i \in 2..n
  BY <1>0, <1>1, <1>2
<1>4. \A t \in Scopes : Depth[t] \in Nat
  BY ConstantsAssumption
<1>5. \A j \in 1..n : frames[j].scope \in Scopes
  BY FrameAt
<1> HIDE DEF n
<1>6. \A j \in Named(s) : j <= i
  <2> SUFFICES ASSUME NEW j \in 1..n, Depth[frames[j].scope] = Depth[s], i < j PROVE FALSE
    BY <1>0, <1>3 DEF Named
  <2> QED BY <1>0, <1>1, <1>2, <1>4
<1>7. i \in Named(s) /\ Named(s) \subseteq 1..n
  BY <1>0, <1>2, <1>3 DEF Named
<1>8. Latest(s) = {i}
  <2>1. i \in Latest(s)
    BY <1>6, <1>7 DEF Latest
  <2>2. ASSUME NEW k \in Latest(s) PROVE k = i
    <3>1. k \in Named(s) /\ i <= k
      BY <1>7 DEF Latest
    <3>2. k <= i /\ k \in 1..n
      BY <1>6, <1>7, <3>1
    <3> QED BY <1>3, <3>1, <3>2
  <2> QED BY <2>1, <2>2
<1>9. ASSUME NEW j \in 1..n, In(frames[j].scope), frames[j].scope # s PROVE j < i
  <2> DEFINE t == frames[j].scope
  <2>1. t \in Scopes /\ Active(t)
    BY <1>5, <1>9 DEF In, Active
  <2>2. t \in Line[s]
    <3>1. \A k \in NestedScopes : Parent[k] = s => ~ Active(k)
      BY DEF ScopeInv
    <3> QED BY <1>0, <2>1, <3>1, Deepest
  <2>3. Depth[t] < Depth[s]
    BY <1>0, <1>9, <2>2, LineShallower
  <2>4. ~ (i < j)
    BY <1>0, <1>1, <1>2, <1>4, <2>1, <2>3
  <2>5. i # j
    BY <1>2, <1>9
  <2> QED BY <1>3, <2>4, <2>5
<1>10. ASSUME NEW j \in 1..n, frames[j].scope = s PROVE j >= i
  <2>1. ~ (j < i)
    BY <1>0, <1>1, <1>2, <1>4, <1>10
  <2> QED BY <1>3, <2>1
<1> QED BY <1>2, <1>3, <1>8, <1>9, <1>10 DEF n

LEMMA EffectsSet ==
  ASSUME NEW q \in Seq(Frame), NEW n \in 1..Len(q), NEW e, NEW r, r = [q EXCEPT ![n].effects = e]
  PROVE  /\ Len(r) = Len(q)
         /\ \A j \in 1..Len(q) : r[j].scope = q[j].scope
         /\ \A j \in 1..Len(q) : r[j].effects = IF j = n THEN e ELSE q[j].effects
<1>1. \A j \in 1..Len(q) : q[j] \in Frame
  OBVIOUS
<1>2. DOMAIN r = 1..Len(q) /\ Len(r) = Len(q)
  OBVIOUS
<1>3. \A j \in 1..Len(q) : j # n => r[j] = q[j]
  OBVIOUS
<1>4. r[n] = [q[n] EXCEPT !.effects = e]
  OBVIOUS
<1>5. r[n].scope = q[n].scope /\ r[n].effects = e
  BY <1>1, <1>4 DEF Frame
<1> QED BY <1>2, <1>3, <1>5

\* The stack is cut, and what is then on top of it has other effects.
LEMMA FramesCut ==
  ASSUME TypeInv, NEW m \in 1..Len(frames), NEW e,
         frames' = [SubSeq(frames, 1, m) EXCEPT ![m].effects = e]
  PROVE  /\ Len(frames') = m
         /\ \A j \in 1..m : frames'[j].scope = frames[j].scope
         /\ \A j \in 1..m : frames'[j].effects = IF j = m THEN e ELSE frames[j].effects
<1> DEFINE q == SubSeq(frames, 1, m)
<1>1. frames \in Seq(Frame) /\ Len(frames) \in Nat
  BY DEF TypeInv, TypeOK, Frame
<1>2. q \in Seq(Frame) /\ Len(q) = m /\ \A j \in 1..m : q[j] = frames[j]
  BY <1>1
<1> HIDE DEF q
<1>3. frames' = [q EXCEPT ![m].effects = e] /\ m \in 1..Len(q)
  BY <1>2 DEF q
<1>4. /\ Len(frames') = Len(q)
      /\ \A j \in 1..Len(q) : frames'[j].scope = q[j].scope
      /\ \A j \in 1..Len(q) : frames'[j].effects = IF j = m THEN e ELSE q[j].effects
  BY <1>2, <1>3, EffectsSet
<1> QED BY <1>2, <1>4

LEMMA ReleasedKeepsFrames ==
  ASSUME TypeInv, ScopeInv, LineInv, FrameInv, EffectInv, conn = "txn", UNCHANGED conn,
         NEW s \in NestedScopes, pc[s] = "ending", pc'[s] = "fulfilled",
         \A t \in Scopes \ {s} : pc'[t] = pc[t], UNCHANGED <<work, failed>>,
         NEW k \in Latest(s),
         frames' = [SubSeq(frames, 1, k - 1) EXCEPT ![k - 1].effects =
                      UNION {frames[i].effects : i \in (k - 1)..Len(frames)}]
  PROVE  FrameInv' /\ EffectInv'
<1> DEFINE n == Len(frames)
           m == k - 1
           U == UNION {frames[i].effects : i \in m..n}
<1>0. n \in Nat /\ s \in Scopes /\ s # Root /\ Root \in Scopes
  BY ConstantsAssumption DEF TypeInv, TypeOK, NestedScopes
<1>1. /\ k \in 2..n /\ frames[k].scope = s
      /\ \A j \in 1..n : In(frames[j].scope) /\ frames[j].scope # s => j < k
      /\ \A j \in 1..n : frames[j].scope = s => j >= k
  BY OwnSavepoint DEF InTxn
<1>2. m \in 1..n /\ m \in Nat /\ k = m + 1
  BY <1>0, <1>1
<1>3. frames' = [SubSeq(frames, 1, m) EXCEPT ![m].effects = U]
  OBVIOUS
<1> HIDE DEF n, m, U
<1>4. /\ Len(frames') = m
      /\ \A j \in 1..m : frames'[j].scope = frames[j].scope
      /\ \A j \in 1..m : frames'[j].effects = IF j = m THEN U ELSE frames[j].effects
  BY <1>2, <1>3, FramesCut DEF n
<1>5. /\ In(Root) /\ frames[1].scope = Root
      /\ \A t \in Scopes : In(t) => \E i \in 1..n : frames[i].scope = t
      /\ \A i \in 1..n : In(frames[i].scope) \/ pc[frames[i].scope] = "threw"
      /\ \A i, j \in 1..n :
           i < j /\ In(frames[i].scope) => Depth[frames[i].scope] < Depth[frames[j].scope]
  BY DEF FrameInv, InTxn, n
<1>6. /\ ~ In(s)' /\ In(s) /\ \A t \in Scopes \ {s} : In(t)' <=> In(t)
      /\ \A t \in Scopes : pc[t] = "fulfilled" => pc'[t] = "fulfilled"
      /\ \A t \in Scopes : pc[t] = "threw" <=> pc'[t] = "threw"
  BY DEF In, Entered
<1>7. \A j \in 1..m : /\ j \in 1..n /\ j < k
                      /\ frames[j].scope \in Scopes \ {s} /\ frames'[j].scope \in Scopes \ {s}
  <2>1. \A j \in 1..m : j \in 1..n /\ j < k
    BY <1>0, <1>2
  <2>2. \A j \in 1..m : frames[j].scope # s
    BY <1>0, <1>1, <1>2, <2>1
  <2> QED BY <1>4, <2>1, <2>2, FrameAt DEF n
<1>8. FrameInv'
  <2>1. In(Root)' /\ Len(frames') > 0 /\ frames'[1].scope = Root /\ pc'[Root] # "opening"
    BY <1>0, <1>2, <1>4, <1>5, <1>6 DEF In, Entered
  <2>2. ASSUME NEW t \in Scopes, In(t)' PROVE \E i \in 1..Len(frames') : frames'[i].scope = t
    <3>1. t # s /\ In(t)
      BY <1>6, <2>2
    <3>2. PICK i \in 1..n : frames[i].scope = t
      BY <1>5, <3>1
    <3>3. i \in 1..m
      BY <1>1, <1>2, <3>1, <3>2
    <3> QED BY <1>4, <3>2, <3>3
  <2>3. \A i \in 1..Len(frames') : pc'[frames'[i].scope] \in Entered \/ pc'[frames'[i].scope] = "threw"
    <3> SUFFICES ASSUME NEW i \in 1..m
                 PROVE  pc'[frames[i].scope] \in Entered \/ pc'[frames[i].scope] = "threw"
      BY <1>4
    <3>1. In(frames[i].scope) \/ pc[frames[i].scope] = "threw"
      BY <1>5, <1>7
    <3> QED BY <1>6, <1>7, <3>1 DEF In
  <2>4. \A i, j \in 1..Len(frames') : i < j /\ pc'[frames'[i].scope] \in Entered
          => Depth[frames'[i].scope] < Depth[frames'[j].scope]
    <3> SUFFICES ASSUME NEW i \in 1..m, NEW j \in 1..m, i < j, pc'[frames[i].scope] \in Entered
                 PROVE  Depth[frames[i].scope] < Depth[frames[j].scope]
      BY <1>4
    <3>1. In(frames[i].scope)
      BY <1>6, <1>7 DEF In
    <3> QED BY <1>5, <1>7, <3>1
  <2> QED BY <2>1, <2>2, <2>3, <2>4 DEF FrameInv, In
<1>9. ASSUME NEW j \in 1..Len(frames'), NEW e \in frames'[j].effects PROVE Belongs(e, j)'
  <2>1. PICK i \in 1..n : e \in frames[i].effects /\ (i = j \/ (j = m /\ i >= m))
    <3>1. CASE j = m
      <4>1. e \in U
        BY <1>4, <1>9, <3>1
      <4>2. PICK i \in m..n : e \in frames[i].effects
        BY <4>1 DEF U
      <4> QED BY <1>2, <3>1, <4>2
    <3>2. CASE j # m
      BY <1>4, <1>7, <1>9, <3>2
    <3> QED BY <3>1, <3>2
  <2>2. Belongs(e, i) /\ e \in Effects
    BY <2>1, FrameAt DEF EffectInv, InTxn, n
  <2>3. e[1] \in Works
    BY <2>2 DEF Effects
  <2> DEFINE o == work[e[1]].scope
  <2>4. Line[o] \subseteq Scopes
    BY <2>3, LineUpward, WorkScopes
  <2>5. ASSUME NEW t \in Line[o]
        PROVE  pc'[t] = "fulfilled" \/ (In(t)' /\ \A l \in 1..Len(frames') : frames'[l].scope = t => l <= j)
    <3>1. pc[t] = "fulfilled" \/ (In(t) /\ \A l \in 1..n : frames[l].scope = t => l <= i)
      BY <2>2 DEF Belongs, n
    <3>2. CASE pc[t] = "fulfilled" \/ t = s
      BY <1>6, <2>4, <3>2
    <3>3. CASE t # s /\ In(t) /\ \A l \in 1..n : frames[l].scope = t => l <= i
      <4>1. In(t)'
        BY <1>6, <2>4, <3>3
      <4>2. \A l \in 1..m : frames[l].scope = t => l <= j
        BY <1>2, <1>7, <2>1, <3>3
      <4> QED BY <1>4, <4>1, <4>2
    <3> QED BY <3>1, <3>2, <3>3
  <2>6. \A l \in 1..j : pc'[frames'[l].scope] \in Entered => frames'[l].scope \in Line[o]
    <3> SUFFICES ASSUME NEW l \in 1..j, pc'[frames'[l].scope] \in Entered
                 PROVE  frames'[l].scope \in Line[o]
      OBVIOUS
    <3>1. l \in 1..m /\ l \in 1..i
      BY <1>2, <1>4, <1>9, <2>1
    <3>2. In(frames[l].scope) /\ frames'[l].scope = frames[l].scope
      BY <1>4, <1>6, <1>7, <3>1 DEF In
    <3> QED BY <2>2, <3>1, <3>2 DEF Belongs
  <2> HIDE DEF o
  <2> QED BY <2>2, <2>5, <2>6 DEF Belongs, In, o
<1>10. ASSUME NEW w \in Works, NEW p \in Nat, Succeeded(w, p)'
       PROVE  \E i \in 1..Len(frames') : <<w, p>> \in frames'[i].effects
  <2>1. \A t \in Line[work[w].scope] : pc[t] # "threw"
    BY <1>6, <1>10, LineUpward, WorkScopes DEF Succeeded
  <2>2. Succeeded(w, p)
    BY <1>10, <2>1 DEF Succeeded
  <2>3. PICK i \in 1..n : <<w, p>> \in frames[i].effects
    BY <2>2 DEF EffectInv, InTxn, n
  <2>4. CASE i < m
    <3>1. i \in 1..m /\ i # m
      BY <1>2, <2>4
    <3>2. <<w, p>> \in frames'[i].effects
      BY <1>4, <2>3, <3>1
    <3> QED BY <1>4, <3>1, <3>2
  <2>5. CASE ~ (i < m)
    <3>1. i \in m..n
      BY <1>2, <2>5
    <3>2. <<w, p>> \in U
      BY <2>3, <3>1 DEF U
    <3>3. m \in 1..m
      BY <1>2
    <3>4. frames'[m].effects = U
      BY <1>4, <3>3
    <3> QED BY <1>4, <3>2, <3>3, <3>4
  <2> QED BY <2>4, <2>5
<1> QED BY <1>8, <1>9, <1>10 DEF EffectInv

LEMMA AnswerReleaseKeepsSavepoints ==
  ASSUME TypeInv, QuietInv, SavepointInv, AnswerRelease
  PROVE  SavepointInv'
<1> DEFINE s == Head(queue).scope
<1>1. /\ IsHead("RELEASE") /\ Answer(<< >>)
      /\ UNCHANGED <<valid, work>>
      /\ \/ /\ conn = "txn" /\ UNCHANGED <<failed, unsafeDepth, conn>>
            /\ Goto(s, "fulfilled")
            /\ \E k \in Latest(s) :
                 frames' = [SubSeq(frames, 1, k - 1) EXCEPT ![k - 1].effects =
                   UNION {frames[i].effects : i \in (k - 1)..Len(frames)}]
         \/ /\ conn # "txn" \/ Named(s) = {}
            /\ RecordFailure(s) /\ Await(s, "settling") /\ UNCHANGED frames
            /\ conn' = IF conn = "txn" THEN "aborted" ELSE conn
  BY DEF AnswerRelease
<1>2. /\ s \in NestedScopes /\ pc[s] = "ending" /\ Moved(1, << >>) /\ Len(<< >>) = 0
  BY <1>1, OpWaits, OpHead, NoCommand DEF QuietInv, NestedOps, AwaitedBy
<1> HIDE DEF s
<1>3. /\ s \in Scopes /\ s # Root /\ pc[Root] = "running" /\ ~ failed[s] /\ Root \in Scopes
  BY <1>2, RootRuns, ConstantsAssumption
  DEF NestedScopes, QuietInv, Active, Entered, SavepointInv, MarkInv
<1>4. \A label \in {"fulfilled", "settling"} : Goto(s, label) =>
        LineInv' /\ AloneInv' /\ SpotInv' /\ pc'[s] = label /\ \A t \in Scopes \ {s} : pc'[t] = pc[t]
  <2> SUFFICES ASSUME NEW label \in {"fulfilled", "settling"}, Goto(s, label)
               PROVE  /\ LineInv' /\ AloneInv' /\ SpotInv'
                      /\ pc'[s] = label /\ \A t \in Scopes \ {s} : pc'[t] = pc[t]
    OBVIOUS
  <2>1. pc'[s] = label /\ \A t \in Scopes \ {s} : pc'[t] = pc[t]
    BY <1>3, GotoElse DEF TypeInv
  <2>2. \A t \in Scopes : Active(t)' => Active(t) /\ (pc[t] = "opening" => pc'[t] = "opening")
    BY <1>2, <2>1 DEF Active, Entered
  <2>3. LineInv' /\ AloneInv'
    BY <1>1, <2>2, LineKept, AloneKept DEF SavepointInv, NestedScopes
  <2>4. SpotInv'
    BY <1>1, <1>2, <2>2, SpotKept DEF SavepointInv, QuietInv, NestedScopes
  <2> QED BY <2>1, <2>3, <2>4
<1>5. ASSUME conn = "txn", UNCHANGED <<failed, unsafeDepth, conn>>, Goto(s, "fulfilled"),
             NEW k \in Latest(s),
             frames' = [SubSeq(frames, 1, k - 1) EXCEPT ![k - 1].effects =
                   UNION {frames[i].effects : i \in (k - 1)..Len(frames)}]
      PROVE  SavepointInv'
  <2>1. pc'[s] = "fulfilled" /\ (\A t \in Scopes \ {s} : pc'[t] = pc[t]) /\ LineInv' /\ AloneInv' /\ SpotInv'
    BY <1>4, <1>5
  <2>2. FrameInv' /\ EffectInv'
    BY <1>1, <1>2, <1>5, <2>1, ReleasedKeepsFrames DEF SavepointInv, QuietInv
  <2>3. MarkInv'
    BY <1>1, <1>3, <1>5, <2>1 DEF SavepointInv, MarkInv, Spoiled
  <2>4. MarkHasCause'
    BY <1>3, <1>5, <2>1, LiveKept DEF SavepointInv, Ended
  <2> QED BY <2>1, <2>2, <2>3, <2>4 DEF SavepointInv
<1>6. ASSUME conn # "txn" \/ Named(s) = {}, RecordFailure(s), Await(s, "settling"), UNCHANGED frames,
             conn' = IF conn = "txn" THEN "aborted" ELSE conn
      PROVE  SavepointInv'
  <2>1. conn # "txn" /\ UNCHANGED conn
    <3>1. ASSUME conn = "txn" PROVE FALSE
      <4>1. PICK i : Latest(s) = {i}
        BY <1>2, <3>1, OwnSavepoint DEF SavepointInv, QuietInv, InTxn
      <4> QED BY <1>6, <3>1, <4>1 DEF Latest
    <3> QED BY <1>6, <3>1
  <2>2. Goto(s, "settling")
    BY <1>3, <1>6, AwaitElse DEF TypeInv
  <2>3. pc'[s] = "settling" /\ (\A t \in Scopes \ {s} : pc'[t] = pc[t]) /\ LineInv' /\ AloneInv' /\ SpotInv'
    BY <1>4, <2>2
  <2>4. /\ unsafeDepth' # 0 /\ \A t \in Scopes : failed'[t] => failed[t] \/ t = s
        /\ \A t \in Scopes : failed[t] => failed'[t]
    BY <1>3, <1>6, FailureTyped DEF RecordFailure, TypeInv, TypeOK
  <2>5. MarkInv'
    BY <1>1, <1>3, <2>3, <2>4 DEF SavepointInv, MarkInv
  <2>6. FrameInv' /\ EffectInv'
    <3>1. \A t \in Scopes : (In(t)' <=> In(t)) /\ (pc[t] = "threw" => pc'[t] = "threw")
                /\ (pc[t] = "fulfilled" => pc'[t] = "fulfilled")
      BY <1>2, <2>3 DEF In, Entered
    <3> QED BY <1>1, <1>3, <1>6, <2>1, <2>3, <2>4, <3>1, FramesKept DEF SavepointInv, InTxn
  <2>7. MarkHasCause'
    BY <1>3, <1>6, <2>1, <2>3, LiveMarked DEF SavepointInv, Ended
  <2> QED BY <2>3, <2>5, <2>6, <2>7 DEF SavepointInv
<1> QED BY <1>1, <1>5, <1>6

LEMMA RolledBackKeepsFrames ==
  ASSUME TypeInv, ScopeInv, LineInv, FrameInv, EffectInv, InTxn,
         NEW s \in NestedScopes, pc[s] = "undoing", pc'[s] = "threw",
         \A t \in Scopes \ {s} : pc'[t] = pc[t], UNCHANGED <<work, failed>>,
         NEW k \in Latest(s), frames' = [SubSeq(frames, 1, k) EXCEPT ![k].effects = {}]
  PROVE  FrameInv' /\ EffectInv'
<1> DEFINE n == Len(frames)
<1>0. n \in Nat /\ s \in Scopes /\ s # Root /\ Root \in Scopes
  BY ConstantsAssumption DEF TypeInv, TypeOK, NestedScopes
<1>1. /\ k \in 2..n /\ frames[k].scope = s
      /\ \A j \in 1..n : In(frames[j].scope) /\ frames[j].scope # s => j < k
      /\ \A j \in 1..n : frames[j].scope = s => j >= k
  BY OwnSavepoint
<1>2. k \in 1..n /\ k \in Nat
  BY <1>0, <1>1
<1> HIDE DEF n
<1>4. /\ Len(frames') = k
      /\ \A j \in 1..k : frames'[j].scope = frames[j].scope
      /\ \A j \in 1..k : frames'[j].effects = IF j = k THEN {} ELSE frames[j].effects
  BY <1>2, FramesCut DEF n
<1>5. /\ In(Root) /\ frames[1].scope = Root
      /\ \A t \in Scopes : In(t) => \E i \in 1..n : frames[i].scope = t
      /\ \A i \in 1..n : In(frames[i].scope) \/ pc[frames[i].scope] = "threw"
      /\ \A i, j \in 1..n :
           i < j /\ In(frames[i].scope) => Depth[frames[i].scope] < Depth[frames[j].scope]
  BY DEF FrameInv, n
<1>6. /\ ~ In(s)' /\ In(s) /\ \A t \in Scopes \ {s} : In(t)' <=> In(t)
      /\ \A t \in Scopes : pc[t] = "fulfilled" <=> pc'[t] = "fulfilled"
      /\ \A t \in Scopes : pc[t] = "threw" => pc'[t] = "threw"
  BY DEF In, Entered
<1>7. \A j \in 1..k : /\ j \in 1..n
                      /\ frames[j].scope \in Scopes /\ frames'[j].scope \in Scopes
  <2>1. \A j \in 1..k : j \in 1..n
    BY <1>0, <1>2
  <2> QED BY <1>4, <2>1, FrameAt DEF n
<1>8. FrameInv'
  <2>1. In(Root)' /\ Len(frames') > 0 /\ frames'[1].scope = Root /\ pc'[Root] # "opening"
    BY <1>0, <1>2, <1>4, <1>5, <1>6 DEF In, Entered
  <2>2. ASSUME NEW t \in Scopes, In(t)' PROVE \E i \in 1..Len(frames') : frames'[i].scope = t
    <3>1. t # s /\ In(t)
      BY <1>6, <2>2
    <3>2. PICK i \in 1..n : frames[i].scope = t
      BY <1>5, <3>1
    <3>3. i \in 1..k
      BY <1>1, <1>2, <3>1, <3>2
    <3> QED BY <1>4, <3>2, <3>3
  <2>3. \A i \in 1..Len(frames') : pc'[frames'[i].scope] \in Entered \/ pc'[frames'[i].scope] = "threw"
    <3> SUFFICES ASSUME NEW i \in 1..k
                 PROVE  pc'[frames[i].scope] \in Entered \/ pc'[frames[i].scope] = "threw"
      BY <1>4
    <3>1. In(frames[i].scope) \/ pc[frames[i].scope] = "threw"
      BY <1>5, <1>7
    <3> QED BY <1>6, <1>7, <3>1 DEF In
  <2>4. \A i, j \in 1..Len(frames') : i < j /\ pc'[frames'[i].scope] \in Entered
          => Depth[frames'[i].scope] < Depth[frames'[j].scope]
    <3> SUFFICES ASSUME NEW i \in 1..Len(frames'), NEW j \in 1..Len(frames'), i < j,
                        pc'[frames'[i].scope] \in Entered
                 PROVE  Depth[frames'[i].scope] < Depth[frames'[j].scope]
      OBVIOUS
    <3>1. /\ i \in 1..k /\ j \in 1..k
          /\ frames'[i].scope = frames[i].scope /\ frames'[j].scope = frames[j].scope
      BY <1>4
    <3>2. In(frames[i].scope)
      BY <1>6, <1>7, <3>1 DEF In
    <3> QED BY <1>5, <1>7, <3>1, <3>2
  <2> QED BY <2>1, <2>2, <2>3, <2>4 DEF FrameInv, In
<1>9. ASSUME NEW j \in 1..Len(frames'), NEW e \in frames'[j].effects PROVE Belongs(e, j)'
  <2>0. j \in 1..k /\ frames'[j].effects = IF j = k THEN {} ELSE frames[j].effects
    BY <1>4
  <2>1. j \in 1..k /\ j # k /\ e \in frames[j].effects /\ j \in 1..n
    BY <1>7, <1>9, <2>0
  <2>2. Belongs(e, j) /\ e \in Effects
    BY <2>1, FrameAt DEF EffectInv, n
  <2>3. e[1] \in Works
    BY <2>2 DEF Effects
  <2> DEFINE o == work[e[1]].scope
  <2>4. Line[o] \subseteq Scopes
    BY <2>3, LineUpward, WorkScopes
  <2>5. ASSUME NEW t \in Line[o]
        PROVE  pc'[t] = "fulfilled" \/ (In(t)' /\ \A l \in 1..Len(frames') : frames'[l].scope = t => l <= j)
    <3>1. pc[t] = "fulfilled" \/ (In(t) /\ \A l \in 1..n : frames[l].scope = t => l <= j)
      BY <2>2 DEF Belongs, n
    <3>2. CASE pc[t] = "fulfilled"
      BY <1>6, <2>4, <3>2
    <3>3. CASE In(t) /\ \A l \in 1..n : frames[l].scope = t => l <= j
      <4>0. t # s
        BY <1>1, <1>2, <2>1, <3>3
      <4>1. In(t)'
        BY <1>6, <2>4, <3>3, <4>0
      <4>2. \A l \in 1..k : frames[l].scope = t => l <= j
        BY <1>7, <3>3
      <4> QED BY <1>4, <4>1, <4>2
    <3> QED BY <3>1, <3>2, <3>3
  <2>6. \A l \in 1..j : pc'[frames'[l].scope] \in Entered => frames'[l].scope \in Line[o]
    <3> SUFFICES ASSUME NEW l \in 1..j, pc'[frames'[l].scope] \in Entered
                 PROVE  frames'[l].scope \in Line[o]
      OBVIOUS
    <3>1. l \in 1..k
      BY <1>2, <2>1
    <3>2. In(frames[l].scope) /\ frames'[l].scope = frames[l].scope
      BY <1>4, <1>6, <1>7, <3>1 DEF In
    <3> QED BY <2>2, <3>1, <3>2 DEF Belongs
  <2> HIDE DEF o
  <2> QED BY <2>2, <2>5, <2>6 DEF Belongs, In, o
<1>10. ASSUME NEW w \in Works, NEW p \in Nat, Succeeded(w, p)'
       PROVE  \E i \in 1..Len(frames') : <<w, p>> \in frames'[i].effects
  <2>1. \A t \in Line[work[w].scope] : pc[t] # "threw" /\ t # s
    BY <1>6, <1>10, LineUpward, WorkScopes DEF Succeeded
  <2>2. Succeeded(w, p)
    BY <1>10, <2>1 DEF Succeeded
  <2>3. PICK i \in 1..n : <<w, p>> \in frames[i].effects
    BY <2>2 DEF EffectInv, n
  <2>4. Belongs(<<w, p>>, i) /\ <<w, p>>[1] = w
    BY <2>3 DEF EffectInv, n
  <2>5. ~ (k <= i)
    <3> SUFFICES ASSUME k <= i PROVE FALSE
      OBVIOUS
    <3>1. k \in 1..i
      BY <1>2
    <3>2. s \in Line[work[w].scope]
      BY <1>1, <1>6, <2>4, <3>1 DEF Belongs
    <3> QED BY <2>1, <3>2
  <2>6. i \in 1..k /\ i # k
    BY <1>2, <2>5
  <2>7. <<w, p>> \in frames'[i].effects
    BY <1>4, <2>3, <2>6
  <2> QED BY <1>4, <2>6, <2>7
<1> QED BY <1>8, <1>9, <1>10 DEF EffectInv

LEMMA AnswerRollbackToKeepsSavepoints ==
  ASSUME TypeInv, QuietInv, SavepointInv, TornInv, AnswerRollbackTo
  PROVE  SavepointInv'
<1> DEFINE s == Head(queue).scope
<1>1. /\ IsHead("ROLLBACK TO") /\ Answer(<< >>) /\ Goto(s, "threw")
      /\ UNCHANGED <<valid, work, failed>>
      /\ \/ /\ InTxn /\ conn' = "txn"
            /\ unsafeDepth' = IF Recovers(s) THEN 0 ELSE unsafeDepth
            /\ \E k \in Latest(s) : frames' = [SubSeq(frames, 1, k) EXCEPT ![k].effects = {}]
         \/ /\ ~ InTxn \/ Named(s) = {}
            /\ conn' = IF conn = "txn" THEN "aborted" ELSE conn
  BY DEF AnswerRollbackTo, InTxn
<1>2. /\ s \in NestedScopes /\ pc[s] = "undoing" /\ Moved(1, << >>) /\ Len(<< >>) = 0
  BY <1>1, OpWaits, OpHead, NoCommand DEF QuietInv, NestedOps, AwaitedBy
<1> DEFINE c == << >>
<1>c. Moved(1, c) /\ \A i \in 1..Len(c) : FALSE
  BY <1>2
<1> HIDE DEF s, c
<1>3. /\ s \in Scopes /\ s # Root /\ pc[Root] = "running" /\ Root \in Scopes
  BY <1>2, RootRuns, ConstantsAssumption DEF NestedScopes, QuietInv, Active, Entered
<1>4. ASSUME InTxn, conn' = "txn", unsafeDepth' = IF Recovers(s) THEN 0 ELSE unsafeDepth,
             NEW k \in Latest(s), frames' = [SubSeq(frames, 1, k) EXCEPT ![k].effects = {}]
      PROVE  SavepointInv'
  <2>1. pc'[s] = "threw" /\ \A t \in Scopes \ {s} : pc'[t] = pc[t]
    BY <1>1, <1>3, GotoElse DEF TypeInv
  <2>2. \A t \in Scopes : Active(t)' => Active(t) /\ (pc[t] = "opening" => pc'[t] = "opening")
    BY <1>2, <2>1 DEF Active, Entered
  <2>3. LineInv' /\ AloneInv'
    BY <1>1, <2>2, LineKept, AloneKept DEF SavepointInv, NestedScopes
  <2>4. SpotInv'
    BY <1>1, <1>c, <2>2, SpotKept DEF SavepointInv, QuietInv, NestedScopes
  <2>5. FrameInv' /\ EffectInv'
    BY <1>1, <1>2, <1>4, <2>1, RolledBackKeepsFrames DEF SavepointInv, QuietInv
  <2>6. MarkInv'
    BY <1>1, <1>3, <1>4, <2>1 DEF SavepointInv, MarkInv
  <2>7. MarkHasCause'
    <3> SUFFICES ASSUME unsafeDepth' # 0
                 PROVE  \E t \in Scopes : failed'[t] /\ pc'[t] \notin Ended /\ Depth[t] = unsafeDepth'
      BY DEF MarkHasCause
    <3>1. unsafeDepth' = unsafeDepth /\ ~ Recovers(s)
      BY <1>4
    <3>2. PICK t \in Scopes : failed[t] /\ pc[t] \notin Ended /\ Depth[t] = unsafeDepth
      BY <1>3, <1>4, <3>1 DEF SavepointInv, MarkHasCause, InTxn
    <3>3. t # s
      BY <1>3, <3>1, <3>2, ConstantsAssumption DEF Recovers
    <3> QED BY <1>1, <2>1, <3>1, <3>2, <3>3
  <2> QED BY <2>3, <2>4, <2>5, <2>6, <2>7 DEF SavepointInv
<1>5. ASSUME ~ InTxn \/ Named(s) = {}, conn' = IF conn = "txn" THEN "aborted" ELSE conn
      PROVE  SavepointInv'
  <2>1. ~ InTxn
    <3> SUFFICES ASSUME InTxn PROVE FALSE
      OBVIOUS
    <3>1. PICK i : Latest(s) = {i}
      BY <1>2, OwnSavepoint DEF SavepointInv, QuietInv
    <3> QED BY <1>5, <3>1 DEF Latest
  <2>2. conn' = "closed"
    BY <1>3, <1>5, <2>1 DEF InTxn, TypeInv, TypeOK, TornInv, RootOver, Ended
  <2> QED BY <1>1, <1>c, <1>3, <2>2, LostScopeKeepsSavepoints
<1> QED BY <1>1, <1>4, <1>5

-------------------------------------------------------------------------------
(***************************************************************************)
(* The answer to a query.                                                  *)
(***************************************************************************)
\* How a work resumes: it goes on, or it is over.
LEMMA Resumed ==
  ASSUME TypeInv, NEW w \in Works, work[w].state \in {"busy", "closing"}, NEW ok \in BOOLEAN, Resume(w, ok)
  PROVE  /\ \A v \in Works \ {w} : work'[v] = work[v]
         /\ work'[w].scope = work[w].scope
         /\ \/ /\ GoesOn(w, ok) /\ UNCHANGED <<failed, unsafeDepth>>
               /\ work'[w].state = work[w].state /\ work'[w].part = work[w].part + 1
               /\ work'[w].bad <=> work[w].bad \/ ~ ok
            \/ /\ ~ GoesOn(w, ok) /\ work'[w].state = "failed" /\ RecordFailure(work[w].scope)
            \/ /\ ~ GoesOn(w, ok) /\ work'[w].state = "done" /\ UNCHANGED <<failed, unsafeDepth>>
               /\ ok /\ ~ work[w].bad /\ ~ work'[w].bad /\ work[w].part = Parts(w)
<1> DEFINE bad == work[w].bad \/ ~ ok \/ (work[w].part < Parts(w) /\ ~ GoesOn(w, ok))
<1>1. work \in [Works -> Work] /\ work[w] \in Work /\ work[w].part \in 1..Parts(w) /\ Parts(w) \in Nat
  BY ConstantsAssumption DEF TypeInv, TypeOK, WorkCounted, Parts
<1>2. PICK b \in BOOLEAN : b <=> bad
  OBVIOUS
<1>3. CASE GoesOn(w, ok)
  <2>1. /\ work' = [work EXCEPT ![w].part = @ + 1, ![w].bad = bad]
        /\ UNCHANGED <<failed, unsafeDepth>>
    BY <1>3 DEF Resume
  <2>2. bad <=> work[w].bad \/ ~ ok
    BY <1>3
  <2> HIDE DEF bad
  <2>3. work' = [work EXCEPT ![w].part = @ + 1, ![w].bad = bad]
    BY <2>1
  <2>4. work' = [work EXCEPT ![w] = [work[w] EXCEPT !.part = work[w].part + 1, !.bad = bad]]
    BY <1>1, <2>3
  <2>5. /\ work'[w] = [work[w] EXCEPT !.part = work[w].part + 1, !.bad = bad]
        /\ \A v \in Works \ {w} : work'[v] = work[v]
    BY <1>1, <2>4
  <2>6. /\ work'[w].state = work[w].state /\ work'[w].scope = work[w].scope
        /\ work'[w].part = work[w].part + 1
    BY <1>1, <2>5 DEF Work
  <2>7. work'[w].bad = bad
    BY <1>1, <2>5 DEF Work
  <2> QED BY <1>3, <2>1, <2>2, <2>5, <2>6, <2>7
<1>4. CASE ~ GoesOn(w, ok) /\ bad
  <2>1. Finish(w, "failed") /\ RecordFailure(work[w].scope)
    BY <1>4 DEF Resume
  <2> HIDE DEF bad
  <2>2. /\ work'[w].state = "failed" /\ work'[w].scope = work[w].scope
        /\ \A v \in Works \ {w} : work'[v] = work[v]
    BY <2>1, FinishElse DEF TypeInv
  <2> QED BY <1>4, <2>1, <2>2
<1>5. CASE ~ GoesOn(w, ok) /\ ~ bad
  <2>1. Finish(w, "done") /\ UNCHANGED <<failed, unsafeDepth>>
    BY <1>5 DEF Resume
  <2>2. ok /\ ~ work[w].bad /\ ~ (work[w].part < Parts(w))
    BY <1>5
  <2> HIDE DEF bad
  <2>3. /\ work'[w].state = "done" /\ work'[w].scope = work[w].scope /\ work'[w].bad = work[w].bad
        /\ \A v \in Works \ {w} : work'[v] = work[v]
    BY <2>1, FinishElse DEF TypeInv
  <2>4. work[w].part = Parts(w)
    BY <1>1, <2>2
  <2>5. ~ work'[w].bad
    BY <2>2, <2>3
  <2> QED BY <1>5, <2>1, <2>2, <2>3, <2>4, <2>5
<1> QED BY <1>3, <1>4, <1>5

\* Only a pipeline, and a stream that is being closed, go on after a query failed.
LEMMA FailedGoesOn ==
  ASSUME TypeInv, NEW w \in Works, work[w].state \in {"busy", "closing"}, GoesOn(w, FALSE)
  PROVE  Kind[w] \in {"pipeline", "stream"}
<1>1. work[w].part \in 1..Parts(w) /\ Size[w] \in Nat
  BY ConstantsAssumption DEF TypeInv, WorkCounted
<1>2. Kind[w] # "batch" /\ work[w].part < Parts(w)
  BY DEF GoesOn
<1>3. Kind[w] \in {"execute", "copy"} => Parts(w) = 1
  BY ConstantsAssumption DEF Parts
<1>4. Kind[w] \notin {"execute", "copy"}
  BY <1>1, <1>2, <1>3
<1> QED BY <1>2, <1>4, ConstantsAssumption DEF Kinds

LEMMA ScopesOfFramesKept ==
  ASSUME TypeInv, FrameInv, UNCHANGED pc, InTxn' => InTxn, Len(frames') = Len(frames),
         \A i \in 1..Len(frames) : frames'[i].scope = frames[i].scope,
         pc[Root] = "opening" => frames' = << >>
  PROVE  FrameInv'
<1>1. Len(frames) \in Nat
  BY DEF TypeInv, TypeOK
<1> SUFFICES ASSUME InTxn' PROVE FrameInv'
  BY DEF FrameInv
<1>2. /\ In(Root) /\ Len(frames) > 0 /\ frames[1].scope = Root
      /\ \A s \in Scopes : In(s) => \E i \in 1..Len(frames) : frames[i].scope = s
      /\ \A i \in 1..Len(frames) : In(frames[i].scope) \/ pc[frames[i].scope] = "threw"
      /\ \A i, j \in 1..Len(frames) :
           i < j /\ In(frames[i].scope) => Depth[frames[i].scope] < Depth[frames[j].scope]
  BY DEF FrameInv
<1>3. In(Root)' /\ Len(frames') > 0 /\ frames'[1].scope = Root
  BY <1>1, <1>2 DEF In
<1>4. \A s \in Scopes : In(s)' => \E i \in 1..Len(frames') : frames'[i].scope = s
  BY <1>2 DEF In
<1>5. \A i \in 1..Len(frames') : pc'[frames'[i].scope] \in Entered \/ pc'[frames'[i].scope] = "threw"
  BY <1>2 DEF In
<1>6. \A i, j \in 1..Len(frames') : i < j /\ pc'[frames'[i].scope] \in Entered
        => Depth[frames'[i].scope] < Depth[frames'[j].scope]
  BY <1>2 DEF In
<1> QED BY <1>3, <1>4, <1>5, <1>6 DEF FrameInv, In

\* What the server did, seen from the stack of savepoints: nothing, or the effects
\* of the part of w it ran are on its top.
Ran(w) ==
  /\ conn = "txn" /\ conn' = "txn"
  /\ Len(frames) > 0 /\ Len(frames') = Len(frames)
  /\ \A i \in 1..Len(frames) :
       /\ frames'[i].scope = frames[i].scope
       /\ frames'[i].effects =
            IF i = Len(frames) THEN frames[i].effects \cup EffectsNow(w) ELSE frames[i].effects

LEMMA RunsOnTop ==
  ASSUME TypeInv, FrameInv, conn # "idle", NEW w, ServerRuns(w)
  PROVE  Ran(w) /\ UNCHANGED <<committed, torn>>
<1> DEFINE n == Len(frames)
           e == frames[n].effects \cup EffectsNow(w)
<1>1. /\ conn = "txn" /\ UNCHANGED <<conn, committed, torn>>
      /\ frames' = [frames EXCEPT ![n].effects = @ \cup EffectsNow(w)]
  BY DEF ServerRuns
<1>2. frames \in Seq(Frame) /\ n \in Nat /\ n > 0
  BY <1>1 DEF TypeInv, TypeOK, Frame, FrameInv, InTxn
<1>3. frames' = [frames EXCEPT ![n].effects = e]
  BY <1>1
<1> HIDE DEF e
<1>4. /\ Len(frames') = Len(frames)
      /\ \A j \in 1..Len(frames) : frames'[j].scope = frames[j].scope
      /\ \A j \in 1..Len(frames) : frames'[j].effects = IF j = n THEN e ELSE frames[j].effects
  BY <1>2, <1>3, EffectsSet
<1> QED BY <1>1, <1>2, <1>4 DEF Ran, e

LEMMA ResumedKeepsEffects ==
  ASSUME TypeInv, QuietInv, SavepointInv, IsHead("query"),
         NEW w \in Works, w = Head(queue).work, NEW ok \in BOOLEAN, Resume(w, ok), UNCHANGED pc,
         \/ Ran(w)
         \/ ~ ok /\ conn' = (IF conn = "txn" THEN "aborted" ELSE conn) /\ UNCHANGED frames
  PROVE  EffectInv'
<1> DEFINE o == work[w].scope
           n == Len(frames)
<1>1. 1 \in 1..Len(queue) /\ Asks(1, w) /\ work[w].state \in {"busy", "closing"}
  <2>1. 1 \in 1..Len(queue) /\ Asks(1, w)
    BY HeadCommand DEF TypeInv, TypeOK, Asks
  <2> QED BY <2>1 DEF QuietInv, AskedInv, Asked
<1>2. Kind[w] # "stream" => work[w].state = "busy" /\ Parts(w) = Size[w]
  BY <1>1 DEF QuietInv, WorkInv, Parts
<1>3. o \in Scopes /\ pc[o] \in {"running", "leaked", "settling"} /\ n \in Nat
  BY <1>1, WorkScopes DEF QuietInv, WorkInv, Unfinished, Settling, TypeInv, TypeOK
<1>4. /\ \A v \in Works \ {w} : work'[v] = work[v]
      /\ work'[w].scope = o
      /\ \/ /\ GoesOn(w, ok) /\ UNCHANGED <<failed, unsafeDepth>>
            /\ work'[w].state = work[w].state /\ work'[w].part = work[w].part + 1
            /\ work'[w].bad <=> work[w].bad \/ ~ ok
         \/ /\ ~ GoesOn(w, ok) /\ work'[w].state = "failed" /\ RecordFailure(o)
         \/ /\ ~ GoesOn(w, ok) /\ work'[w].state = "done" /\ UNCHANGED <<failed, unsafeDepth>>
            /\ ok /\ ~ work[w].bad /\ ~ work'[w].bad /\ work[w].part = Parts(w)
  BY <1>1, Resumed
<1>5. /\ \A t \in Scopes : failed[t] => failed'[t]
      /\ work'[w].state = "failed" => failed'[o]
  <2>1. RecordFailure(o) => failed'[o] /\ \A t \in Scopes : failed[t] => failed'[t]
    BY <1>3 DEF RecordFailure, TypeInv, TypeOK
  <2> QED BY <1>1, <1>4, <2>1
<1>6. /\ InTxn' => InTxn
      /\ Len(frames') = n
      /\ \A i \in 1..n : /\ frames'[i].scope = frames[i].scope
                         /\ frames[i].effects \subseteq frames'[i].effects
  BY DEF Ran, InTxn
<1>7. \A i \in 1..n : \A e \in frames'[i].effects :
        e \in frames[i].effects \/ (i = n /\ e \in EffectsNow(w) /\ Ran(w))
  BY DEF Ran
<1> HIDE DEF n, o
<1> SUFFICES ASSUME InTxn, InTxn' PROVE EffectInv'
  BY <1>6 DEF EffectInv
<1>8. Kind[w] # "stream" => \A t \in Scopes : In(t) => t \in Line[o]
  <2> SUFFICES ASSUME Kind[w] # "stream", NEW t \in Scopes, In(t) PROVE t \in Line[o]
    OBVIOUS
  <2>1. \A k \in NestedScopes : Parent[k] = o /\ Active(k) => pc[k] = "opening"
    BY <1>1 DEF SavepointInv, SpotInv, o
  <2>2. \A k \in NestedScopes : Parent[k] = o /\ Active(k) => pc[k] # "running" /\ k # t
    BY <2>1 DEF In, Entered
  <2>3. Active(t) /\ Active(o)
    BY <1>3 DEF In, Active, Entered
  <2> QED BY <1>3, <2>2, <2>3, Deepest DEF SavepointInv, QuietInv
<1>9. \A t \in Line[o] : In(t) /\ t \in Scopes
  <2>1. Active(o)
    BY <1>3 DEF Active, Entered
  <2>2. \A t \in Line[o] \ {o} : pc[t] = "running"
    BY <1>3, <2>1, LineRuns DEF QuietInv
  <2> QED BY <1>3, <2>2, LineUpward DEF In, Entered
<1>10. ASSUME NEW i \in 1..Len(frames'), NEW e \in frames'[i].effects PROVE Belongs(e, i)'
  <2>1. i \in 1..n
    BY <1>6
  <2>2. CASE e \in frames[i].effects
    <3>1. Belongs(e, i) /\ e \in Effects
      BY <2>1, <2>2, FrameAt DEF SavepointInv, EffectInv, n
    <3>2. e[1] \in Works
      BY <3>1 DEF Effects
    <3> DEFINE v == e[1]
    <3>3. work'[v].scope = work[v].scope /\ Line[work[v].scope] \subseteq Scopes
      BY <1>4, <3>2, WorkScopes, LineUpward DEF o
    <3>4. /\ Kind[v] # "stream" /\ work'[v].state \in {"busy", "done", "failed"}
          /\ work'[v].state = "failed" => failed'[work[v].scope]
      <4>1. CASE v = w
        BY <1>2, <1>4, <1>5, <3>1, <4>1 DEF Belongs, o
      <4>2. CASE v # w
        <5>1. work'[v] = work[v]
          BY <1>4, <3>2, <4>2
        <5> QED BY <1>5, <3>1, <3>2, <5>1, WorkScopes DEF Belongs
      <4> QED BY <4>1, <4>2
    <3>5. \A t \in Line[work[v].scope] :
            pc'[t] = "fulfilled" \/ (In(t)' /\ \A j \in 1..Len(frames') : frames'[j].scope = t => j <= i)
      BY <1>6, <3>1 DEF Belongs, In, n
    <3>6. \A j \in 1..i : pc'[frames'[j].scope] \in Entered => frames'[j].scope \in Line[work[v].scope]
      <4> SUFFICES ASSUME NEW j \in 1..i, pc'[frames'[j].scope] \in Entered
                   PROVE  frames'[j].scope \in Line[work[v].scope]
        OBVIOUS
      <4>1. j \in 1..n
        BY <1>3, <2>1
      <4>2. frames'[j].scope = frames[j].scope /\ In(frames[j].scope)
        BY <1>6, <4>1 DEF In
      <4> QED BY <3>1, <4>2 DEF Belongs
    <3> QED BY <3>3, <3>4, <3>5, <3>6 DEF Belongs, In
  <2>3. CASE i = n /\ e \in EffectsNow(w)
    <3>1. Kind[w] # "stream" /\ e[1] = w
      BY <2>3 DEF EffectsNow
    <3>2. work'[w].state \in {"busy", "done", "failed"} /\ (work'[w].state = "failed" => failed'[o])
      BY <1>2, <1>4, <1>5, <3>1
    <3>3. \A t \in Line[o] : In(t)' /\ \A j \in 1..Len(frames') : frames'[j].scope = t => j <= i
      BY <1>3, <1>6, <1>9, <2>3 DEF In
    <3>4. \A j \in 1..i : pc'[frames'[j].scope] \in Entered => frames'[j].scope \in Line[o]
      <4> SUFFICES ASSUME NEW j \in 1..n, pc'[frames[j].scope] \in Entered
                   PROVE  frames[j].scope \in Line[o]
        BY <1>6, <2>3
      <4>1. frames[j].scope \in Scopes
        BY FrameAt DEF n
      <4> QED BY <1>8, <3>1, <4>1 DEF In
    <3> QED BY <1>4, <3>1, <3>2, <3>3, <3>4 DEF Belongs, In
  <2> QED BY <1>7, <2>1, <2>2, <2>3, <1>10
<1>11. ASSUME NEW v \in Works, NEW k \in Nat, Succeeded(v, k)'
       PROVE  \E i \in 1..Len(frames') : <<v, k>> \in frames'[i].effects
  <2>1. Succeeded(v, k) => \E i \in 1..Len(frames') : <<v, k>> \in frames'[i].effects
    <3> SUFFICES ASSUME Succeeded(v, k)
                 PROVE  \E i \in 1..Len(frames') : <<v, k>> \in frames'[i].effects
      OBVIOUS
    <3>1. PICK i \in 1..n : <<v, k>> \in frames[i].effects
      BY DEF SavepointInv, EffectInv, n
    <3> QED BY <1>6, <3>1
  <2>2. CASE v # w
    <3>1. work'[v] = work[v]
      BY <1>4, <2>2
    <3>2. Succeeded(v, k)
      BY <1>11, <3>1 DEF Succeeded
    <3> QED BY <2>1, <3>2
  <2>3. CASE v = w
    <3>1. /\ Kind[w] # "stream" /\ k \in 1..Size[w]
          /\ work'[w].state = "done" \/ (work'[w].state = "busy" /\ ~ work'[w].bad /\ k < work'[w].part)
          /\ \A t \in Line[o] : pc[t] # "threw"
      BY <1>4, <1>11, <2>3 DEF Succeeded
    <3>2. ok /\ ~ work[w].bad /\ k <= work[w].part
      <4>1. work[w].part \in Nat /\ Parts(w) = Size[w] /\ Size[w] \in Nat
        BY <1>1, <1>2, <3>1, ConstantsAssumption DEF TypeInv, TypeOK, Work
      <4>2. CASE work'[w].state = "done"
        BY <1>2, <1>4, <3>1, <4>1, <4>2
      <4>3. CASE work'[w].state = "busy" /\ ~ work'[w].bad /\ k < work'[w].part
        BY <1>4, <4>1, <4>3
      <4> QED BY <3>1, <4>2, <4>3
    <3>3. Ran(w)
      BY <3>2
    <3>4. CASE k < work[w].part
      <4>1. Succeeded(w, k)
        BY <1>2, <3>1, <3>2, <3>4 DEF Succeeded, o
      <4> QED BY <2>1, <2>3, <4>1
    <3>5. CASE k = work[w].part
      <4>1. <<w, k>> \in EffectsNow(w) /\ n \in 1..n
        BY <1>3, <3>1, <3>3, <3>5 DEF EffectsNow, Ran, n
      <4>2. <<w, k>> \in frames'[n].effects
        BY <3>3, <4>1 DEF Ran, n
      <4> QED BY <1>6, <2>3, <4>1, <4>2
    <3>6. work[w].part \in Nat
      BY DEF TypeInv, TypeOK, Work
    <3> QED BY <3>2, <3>4, <3>5, <3>6
  <2> QED BY <2>2, <2>3
<1> QED BY <1>10, <1>11 DEF EffectInv

\* What the code makes of an answer, whatever the server did.
LEMMA AnswerMarks ==
  ASSUME TypeInv, QuietInv, SavepointInv, IsHead("query"),
         NEW w \in Works, w = Head(queue).work, NEW ok \in BOOLEAN, Resume(w, ok), UNCHANGED <<pc, valid>>,
         \/ UNCHANGED conn
         \/ ~ ok /\ conn' = "aborted" /\ conn = "txn"
  PROVE  MarkInv' /\ MarkHasCause'
<1> DEFINE o == work[w].scope
<1>1. work[w].state \in {"busy", "closing"}
  <2>1. 1 \in 1..Len(queue) /\ Asks(1, w)
    BY HeadCommand DEF TypeInv, TypeOK, Asks
  <2> QED BY <2>1 DEF QuietInv, AskedInv, Asked
<1>2. o \in Scopes /\ pc[o] \in {"running", "leaked", "settling"}
  BY <1>1, WorkScopes DEF QuietInv, WorkInv, Unfinished, Settling
<1>3. pc[Root] \notin {"ending", "fulfilled"}
  BY <1>1, AllSettled DEF Unfinished, Ended
<1>4. /\ \A v \in Works \ {w} : work'[v] = work[v]
      /\ \/ /\ GoesOn(w, ok) /\ UNCHANGED <<failed, unsafeDepth>>
            /\ work'[w].state = work[w].state
            /\ work'[w].bad <=> work[w].bad \/ ~ ok
         \/ /\ work'[w].state = "failed" /\ RecordFailure(o)
         \/ /\ work'[w].state = "done" /\ UNCHANGED <<failed, unsafeDepth>>
            /\ ok /\ ~ work[w].bad /\ ~ work'[w].bad
  BY <1>1, Resumed
<1> HIDE DEF o
<1>5. RecordFailure(o) => unsafeDepth' # 0 /\ \A t \in Scopes : failed'[t] => failed[t] \/ t = o
  BY <1>2, FailureTyped DEF RecordFailure, TypeInv, TypeOK
<1>6. conn' = "aborted" => unsafeDepth' # 0 \/ \E v \in Works : Spoiled(v)'
  <2>1. CASE RecordFailure(o)
    BY <1>5, <2>1
  <2>2. CASE /\ GoesOn(w, ok) /\ UNCHANGED unsafeDepth
             /\ work'[w].state = work[w].state /\ (work'[w].bad <=> work[w].bad \/ ~ ok)
    <3>1. CASE conn = "aborted"
      <4>1. unsafeDepth # 0 \/ \E v \in Works : Spoiled(v)
        BY <3>1 DEF SavepointInv, MarkInv
      <4>2. ASSUME NEW v \in Works, Spoiled(v) PROVE Spoiled(v)'
        <5>1. CASE v = w
          BY <2>2, <4>2, <5>1 DEF Spoiled
        <5>2. CASE v # w
          BY <1>4, <4>2, <5>2 DEF Spoiled
        <5> QED BY <5>1, <5>2
      <4> QED BY <2>2, <4>1, <4>2
    <3>2. CASE ~ ok
      <4>1. GoesOn(w, FALSE)
        BY <2>2, <3>2
      <4>2. Kind[w] \in {"pipeline", "stream"}
        BY <1>1, <4>1, FailedGoesOn
      <4>3. Spoiled(w)'
        BY <1>1, <2>2, <3>2, <4>2 DEF Spoiled
      <4> QED BY <4>3
    <3> QED BY <3>1, <3>2
  <2>3. CASE ok /\ ~ work[w].bad /\ UNCHANGED unsafeDepth
    <3> SUFFICES ASSUME conn = "aborted" PROVE unsafeDepth' # 0 \/ \E v \in Works : Spoiled(v)'
      BY <2>3
    <3>1. unsafeDepth # 0 \/ \E v \in Works : Spoiled(v)
      BY DEF SavepointInv, MarkInv
    <3>2. ASSUME NEW v \in Works, Spoiled(v) PROVE Spoiled(v)'
      <4>1. v # w
        BY <2>3, <3>2 DEF Spoiled
      <4> QED BY <1>4, <3>2, <4>1 DEF Spoiled
    <3> QED BY <2>3, <3>1, <3>2
  <2> QED BY <1>4, <2>1, <2>2, <2>3
<1>7. MarkInv'
  <2>1. \A t \in Scopes : failed'[t] => pc'[t] \notin {"none", "opening", "ending", "fulfilled"}
    BY <1>2, <1>4, <1>5 DEF SavepointInv, MarkInv
  <2>2. \A v \in Works : work'[v].state \in {"new", "created", "done"} => ~ work'[v].bad
    <3> SUFFICES ASSUME NEW v \in Works, work'[v].state \in {"new", "created", "done"}
                 PROVE  ~ work'[v].bad
      OBVIOUS
    <3>1. CASE v = w
      BY <1>1, <1>4, <3>1
    <3>2. CASE v # w
      BY <1>4, <3>2 DEF SavepointInv, MarkInv
    <3> QED BY <3>1, <3>2
  <2>3. pc'[Root] \in {"opening", "running"} => valid'
    BY DEF SavepointInv, MarkInv
  <2> QED BY <1>3, <1>6, <2>1, <2>2, <2>3 DEF MarkInv
<1>8. MarkHasCause'
  <2>1. conn = "closed" => conn' = "closed"
    OBVIOUS
  <2>2. CASE UNCHANGED <<failed, unsafeDepth>>
    BY <2>1, <2>2, LiveKept DEF SavepointInv
  <2>3. CASE RecordFailure(o)
    BY <1>2, <2>1, <2>3, LiveMarked DEF SavepointInv, Ended
  <2> QED BY <1>4, <2>2, <2>3
<1> QED BY <1>7, <1>8

LEMMA AnswerQueryKeepsSavepoints ==
  ASSUME TypeInv, LeaseInv, QuietInv, SavepointInv, TornInv, AnswerQuery
  PROVE  SavepointInv' /\ ~ torn /\ conn' # "idle" /\ UNCHANGED <<pc, committed, torn>>
<1>1. IsHead("query") /\ Head(queue).work \in Works /\ UNCHANGED <<pc, valid>>
  BY HeadCommand DEF AnswerQuery, TypeInv
<1>w. PICK w \in Works : w = Head(queue).work
  BY <1>1
<1>2. 1 \in 1..Len(queue) /\ Asks(1, w) /\ work[w].state \in {"busy", "closing"}
  <2>1. 1 \in 1..Len(queue) /\ Asks(1, w)
    BY <1>1, <1>w, HeadCommand DEF TypeInv, TypeOK, Asks
  <2> QED BY <2>1 DEF QuietInv, AskedInv, Asked
<1>3. ~ torn /\ conn # "idle" /\ pc[Root] # "opening"
  <2>1. pc[Root] # "opening"
    BY <1>2 DEF LeaseInv, Asks
  <2> QED BY <1>1, <1>2, <2>1 DEF TornInv, Unfinished
<1>4. \E ok \in BOOLEAN : /\ Resume(w, ok)
                          /\ ServerRuns(w) \/ (ServerRejects /\ ~ ok)
  BY <1>w DEF AnswerQuery
<1>5. PICK ok \in BOOLEAN : Resume(w, ok) /\ (ServerRuns(w) \/ (ServerRejects /\ ~ ok))
  BY <1>4
<1>6. /\ UNCHANGED <<committed, torn>> /\ conn' # "idle"
      /\ \/ Ran(w) /\ UNCHANGED conn
         \/ /\ ~ ok /\ conn' = (IF conn = "txn" THEN "aborted" ELSE conn) /\ UNCHANGED frames
  <2>1. CASE ServerRuns(w)
    BY <1>3, <2>1, RunsOnTop DEF SavepointInv, Ran
  <2>2. CASE ServerRejects /\ ~ ok
    BY <1>3, <2>2 DEF ServerRejects
  <2> QED BY <1>5, <2>1, <2>2
<1>7. EffectInv'
  BY <1>1, <1>5, <1>6, <1>w, ResumedKeepsEffects
<1>8. MarkInv' /\ MarkHasCause'
  BY <1>1, <1>5, <1>6, <1>w, AnswerMarks
<1>9. FrameInv'
  <2>1. /\ InTxn' => InTxn
        /\ Len(frames') = Len(frames)
        /\ \A i \in 1..Len(frames) : frames'[i].scope = frames[i].scope
    BY <1>6 DEF Ran, InTxn
  <2> QED BY <1>1, <1>3, <2>1, ScopesOfFramesKept DEF SavepointInv
<1>10. LineInv'
  BY <1>1, LineKept DEF SavepointInv, Active
<1>11. /\ \A v \in Works \ {w} : work'[v] = work[v]
       /\ work'[w].scope = work[w].scope
       /\ work'[w].state \in {work[w].state, "failed", "done"}
  BY <1>1, <1>2, <1>5, Resumed
<1>12. AloneInv'
  <2>1. \A v \in Works :
           \/ work'[v].scope = work[v].scope /\ work'[v].state = work[v].state
           \/ ~ ((Kind[v] = "batch" /\ work'[v].state = "busy") \/ work'[v].state = "loading")
    BY <1>11
  <2> QED BY <1>1, <2>1, AloneKept DEF SavepointInv, Active
<1>13. SpotInv'
  <2>1. PICK c \in Seq(Command) :
          /\ Answer(c) /\ Len(c) \in {0, 1}
          /\ Len(c) = 1 => c[1].op = "query" /\ c[1].work = w /\ Kind[w] = "batch"
    <3>1. CASE GoesOn(w, ok) /\ Kind[w] = "batch"
      <4>1. Answer(<<Query(w)>>)
        BY <1>5, <3>1 DEF Resume
      <4> QED BY <3>1, <4>1, OneQuery
    <3>2. CASE ~ (GoesOn(w, ok) /\ Kind[w] = "batch")
      <4> DEFINE d == << >>
      <4>1. Answer(d)
        BY <1>5, <3>2 DEF Resume
      <4>2. d \in Seq(Command) /\ Len(d) = 0
        BY NoCommand
      <4> HIDE DEF d
      <4>3. Len(d) \in {0, 1} /\ Len(d) # 1
        BY <4>2
      <4> QED BY <4>1, <4>2, <4>3
    <3> QED BY <3>1, <3>2
  <2>2. /\ c \in Seq(Command) /\ Len(c) \in {0, 1}
        /\ Len(c) = 1 => c[1].op = "query" /\ c[1].work = w /\ Kind[w] = "batch"
    BY <2>1
  <2>3. Moved(1, c)
    BY <1>1, <2>1, <2>2, AnswerMoves DEF TypeInv
  <2>4. \A i \in 1..Len(c) : c[i].op = "query" /\ Kind[c[i].work] # "stream" =>
           Alone(work[c[i].work].scope)'
    <3> SUFFICES ASSUME NEW i \in 1..Len(c) PROVE Alone(work[c[i].work].scope)'
      OBVIOUS
    <3>0. Len(c) = 1
      BY <2>2
    <3>1. i = 1 /\ Len(c) = 1
      BY <3>0, SoleIndex
    <3>2. c[i].work = w /\ Kind[w] = "batch"
      BY <2>2, <3>1
    <3>3. work[w].state = "busy"
      BY <1>1, <1>2, <3>2 DEF QuietInv, WorkInv
    <3>4. Alone(work[w].scope)
      BY <1>1, <3>2, <3>3 DEF SavepointInv, AloneInv
    <3>5. Alone(work[w].scope)'
      BY <1>1, <1>11, <3>4 DEF Alone, Active
    <3> QED BY <3>2, <3>5 DEF Alone
  <2>5. \A v \in Works : work[v].state \in {"busy", "closing"} => work'[v].scope = work[v].scope
    BY <1>11
  <2>6. \A t \in NestedScopes : Active(t)' => Active(t) /\ (pc[t] = "opening" => pc'[t] = "opening")
    BY <1>1 DEF Active
  <2>7. AskedInv /\ SpotInv
    BY DEF SavepointInv, QuietInv
  <2> QED BY <2>3, <2>4, <2>5, <2>6, <2>7, SpotKept
<1> QED BY <1>1, <1>3, <1>6, <1>7, <1>8, <1>9, <1>10, <1>12, <1>13 DEF SavepointInv

-------------------------------------------------------------------------------
(***************************************************************************)
(* The root: BEGIN, COMMIT and ROLLBACK.                                   *)
(***************************************************************************)
\* An answer to the root moves nothing else.
LEMMA RootMovesLines ==
  ASSUME TypeInv, QuietInv, SavepointInv, NEW op \in RootOps, IsHead(op), Answer(<< >>),
         pc[Root] \notin Ended, NEW label, Goto(Root, label), UNCHANGED work
  PROVE  /\ LineInv' /\ SpotInv' /\ AloneInv'
         /\ pc'[Root] = label /\ \A t \in NestedScopes : pc'[t] = pc[t]
<1>0. Root \in Scopes
  BY ConstantsAssumption
<1>1. pc'[Root] = label /\ \A t \in Scopes \ {Root} : pc'[t] = pc[t]
  BY <1>0, GotoElse DEF TypeInv
<1>2. /\ \A t \in NestedScopes : pc'[t] = pc[t]
      /\ \A t \in NestedScopes : Active(t)' => Active(t)
  BY <1>1 DEF NestedScopes, Active
<1>3. \A d \in Scopes : Root \in Line[d]
  BY RootAround
<1>4. LineInv'
  <2> SUFFICES ASSUME NEW c \in Scopes, NEW d \in Scopes, Active(c)', Active(d)'
               PROVE  c \in Line[d] \/ d \in Line[c]
    BY DEF LineInv
  <2>1. CASE c = Root \/ d = Root
    BY <1>3, <2>1
  <2>2. CASE c # Root /\ d # Root
    BY <1>2, <2>2 DEF SavepointInv, LineInv, NestedScopes
  <2> QED BY <2>1, <2>2
<1> DEFINE c == << >>
<1>5. Moved(1, c) /\ \A i \in 1..Len(c) : FALSE
  BY OpHead, NoCommand
<1> HIDE DEF c
<1>6. SpotInv'
  BY <1>2, <1>5, SpotKept DEF SavepointInv, QuietInv
<1>7. AloneInv'
  BY <1>2, AloneKept DEF SavepointInv
<1> QED BY <1>1, <1>2, <1>4, <1>6, <1>7

LEMMA AnswerBeginKeepsSavepoints ==
  ASSUME TypeInv, LeaseInv, QuietInv, SavepointInv, AnswerBegin
  PROVE  SavepointInv'
<1>1. /\ IsHead("BEGIN") /\ Answer(<< >>) /\ UNCHANGED work
      /\ \/ conn = "idle" /\ conn' = "txn" /\ Enter(Root) /\ UNCHANGED <<failed, unsafeDepth, valid>>
         \/ /\ conn = "closed" /\ RecordFailure(Root) /\ Goto(Root, "settling") /\ UNCHANGED <<conn, frames>>
  BY DEF AnswerBegin
<1>2. pc[Root] = "opening" /\ Root \in Scopes
  BY <1>1, RootOpWaits, ConstantsAssumption DEF RootOps, Awaiting
<1>3. /\ \A s \in NestedScopes : pc[s] = "none"
      /\ \A w \in Works : work[w].state = "new" /\ ~ Spoiled(w)
      /\ frames = << >>
  BY <1>2 DEF LeaseInv, NestedScopes, Spoiled, SavepointInv, FrameInv
<1>4. CASE conn = "idle" /\ conn' = "txn" /\ Enter(Root) /\ UNCHANGED <<failed, unsafeDepth, valid>>
  <2>0. Goto(Root, "running")
    BY <1>4 DEF Enter
  <2>1. /\ LineInv' /\ SpotInv' /\ AloneInv'
        /\ pc'[Root] = "running" /\ \A t \in NestedScopes : pc'[t] = pc[t]
    BY <1>1, <1>2, <2>0, RootMovesLines DEF RootOps, Ended
  <2>2. MarkInv'
    BY <1>1, <1>2, <1>4, <2>1 DEF SavepointInv, MarkInv, NestedScopes
  <2>3. Len(frames') = 1 /\ frames'[1].scope = Root /\ frames'[1].effects = {}
    <3> DEFINE f == [scope |-> Root, effects |-> {}]
    <3>1. f.scope = Root /\ f.effects = {}
      OBVIOUS
    <3>2. frames' = Append(<< >>, f)
      BY <1>3, <1>4 DEF Enter
    <3> HIDE DEF f
    <3>3. frames' = <<f>>
      BY <3>2
    <3> QED BY <3>1, <3>3
  <2>4. In(Root)' /\ \A s \in NestedScopes : ~ In(s)'
    BY <1>3, <2>1 DEF In, Entered
  <2>5. FrameInv'
    BY <2>1, <2>3, <2>4 DEF FrameInv, NestedScopes
  <2>6. EffectInv'
    <3>1. \A i \in 1..Len(frames') : frames'[i].effects = {}
      BY <2>3
    <3>2. \A w \in Works : \A k \in Nat : ~ Succeeded(w, k)'
      BY <1>1, <1>3 DEF Succeeded
    <3> QED BY <3>1, <3>2 DEF EffectInv
  <2>7. MarkHasCause'
    BY <1>2, <1>4, <2>1, LiveKept DEF SavepointInv, NestedScopes, Ended
  <2> QED BY <2>1, <2>2, <2>5, <2>6, <2>7 DEF SavepointInv
<1>5. CASE conn = "closed" /\ RecordFailure(Root) /\ Goto(Root, "settling") /\ UNCHANGED <<conn, frames>>
  <2>1. /\ LineInv' /\ SpotInv' /\ AloneInv'
        /\ pc'[Root] = "settling" /\ \A t \in NestedScopes : pc'[t] = pc[t]
    BY <1>1, <1>2, <1>5, RootMovesLines DEF RootOps, Ended
  <2>2. \A t \in Scopes : failed'[t] => failed[t] \/ t = Root
    BY <1>5 DEF RecordFailure, TypeInv, TypeOK
  <2>3. MarkInv'
    BY <1>1, <1>5, <2>1, <2>2 DEF SavepointInv, MarkInv, NestedScopes
  <2>4. FrameInv' /\ EffectInv' /\ MarkHasCause'
    BY <1>5, <2>1 DEF FrameInv, EffectInv, MarkHasCause, InTxn
  <2> QED BY <2>1, <2>3, <2>4 DEF SavepointInv
<1> QED BY <1>1, <1>4, <1>5

LEMMA AnswerCommitKeepsSavepoints ==
  ASSUME TypeInv, LeaseInv, QuietInv, SavepointInv, AnswerCommit
  PROVE  SavepointInv'
<1>1. /\ IsHead("COMMIT") /\ Answer(<< >>) /\ UNCHANGED <<work, valid>> /\ frames' = << >>
      /\ \/ conn' = "idle" /\ Goto(Root, "fulfilled") /\ UNCHANGED <<failed, unsafeDepth>>
         \/ /\ conn \in {"txn", "closed"} /\ conn' = (IF conn = "txn" THEN "idle" ELSE conn)
            /\ RecordFailure(Root) /\ Await(Root, "settling")
  BY DEF AnswerCommit
<1>2. pc[Root] = "ending" /\ Root \in Scopes
  BY <1>1, RootOpWaits, ConstantsAssumption DEF RootOps, Awaiting
<1>3. unsafeDepth = 0 /\ ~ failed[Root]
  BY <1>2 DEF SavepointInv, MarkInv
<1>4. CASE conn' = "idle" /\ Goto(Root, "fulfilled") /\ UNCHANGED <<failed, unsafeDepth>>
  <2>1. /\ LineInv' /\ SpotInv' /\ AloneInv'
        /\ pc'[Root] = "fulfilled" /\ \A t \in NestedScopes : pc'[t] = pc[t]
    BY <1>1, <1>2, <1>4, RootMovesLines DEF RootOps, Ended
  <2>2. MarkInv'
    BY <1>1, <1>3, <1>4, <2>1 DEF SavepointInv, MarkInv, NestedScopes
  <2>3. FrameInv' /\ EffectInv' /\ MarkHasCause'
    BY <1>3, <1>4, <2>1 DEF FrameInv, EffectInv, MarkHasCause, InTxn
  <2> QED BY <2>1, <2>2, <2>3 DEF SavepointInv
<1>5. CASE /\ conn \in {"txn", "closed"} /\ conn' = (IF conn = "txn" THEN "idle" ELSE conn)
           /\ RecordFailure(Root) /\ Await(Root, "settling")
  <2>0. Goto(Root, "settling")
    BY <1>5 DEF Await
  <2>1. /\ LineInv' /\ SpotInv' /\ AloneInv'
        /\ pc'[Root] = "settling" /\ \A t \in NestedScopes : pc'[t] = pc[t]
    BY <1>1, <1>2, <2>0, RootMovesLines DEF RootOps, Ended
  <2>2. \A t \in Scopes : failed'[t] => failed[t] \/ t = Root
    BY <1>5 DEF RecordFailure, TypeInv, TypeOK
  <2>3. MarkInv'
    BY <1>1, <1>5, <2>1, <2>2 DEF SavepointInv, MarkInv, NestedScopes
  <2>4. FrameInv' /\ EffectInv'
    BY <1>5, <2>1 DEF FrameInv, EffectInv, InTxn
  <2>5. MarkHasCause'
    BY <1>2, <1>5, <2>1, LiveMarked DEF SavepointInv, NestedScopes, Ended
  <2> QED BY <2>1, <2>3, <2>4, <2>5 DEF SavepointInv
<1> QED BY <1>1, <1>4, <1>5

LEMMA AnswerRollbackKeepsSavepoints ==
  ASSUME TypeInv, LeaseInv, QuietInv, SavepointInv, AnswerRollback
  PROVE  SavepointInv'
<1>1. /\ IsHead("ROLLBACK") /\ Answer(<< >>) /\ Goto(Root, "threw") /\ UNCHANGED <<work, valid, failed>>
      /\ frames' = << >> /\ conn' \in {"idle", "closed"}
  BY DEF AnswerRollback
<1>2. pc[Root] = "undoing"
  BY <1>1, RootOpWaits DEF RootOps, Awaiting
<1>3. /\ LineInv' /\ SpotInv' /\ AloneInv'
      /\ pc'[Root] = "threw" /\ \A t \in NestedScopes : pc'[t] = pc[t]
  BY <1>1, <1>2, RootMovesLines DEF RootOps, Ended
<1>4. MarkInv'
  BY <1>1, <1>3 DEF SavepointInv, MarkInv, NestedScopes
<1>5. FrameInv' /\ EffectInv' /\ MarkHasCause'
  BY <1>1, <1>3 DEF FrameInv, EffectInv, MarkHasCause, InTxn
<1> QED BY <1>3, <1>4, <1>5 DEF SavepointInv

-------------------------------------------------------------------------------
(***************************************************************************)
(* What can happen before the transaction has begun, and once nothing of   *)
(* it is left but to end it.                                               *)
(***************************************************************************)
LEMMA OnlyBegin ==
  ASSUME TypeInv, LeaseInv, QuietInv, pc[Root] = "opening", Next
  PROVE  AnswerBegin \/ (Break /\ ~ IsHead("COMMIT"))
<1>1. /\ \A s \in Scopes : ~ open[s] /\ (s # Root => pc[s] = "none")
      /\ \A w \in Works : work[w].state = "new"
      /\ Len(queue) = 1 /\ queue[1].op = "BEGIN" /\ Root \in Scopes
  BY ConstantsAssumption DEF LeaseInv
<1>2. \A op : IsHead(op) => op = "BEGIN"
  BY <1>1 DEF IsHead, TypeInv, TypeOK
<1>3. ~ AnswerQuery /\ ~ AnswerSavepoint /\ ~ AnswerRelease /\ ~ AnswerRollbackTo
      /\ ~ AnswerCommit /\ ~ AnswerRollback /\ ~ IsHead("COMMIT")
  BY <1>2 DEF AnswerQuery, AnswerSavepoint, AnswerRelease, AnswerRollbackTo, AnswerCommit, AnswerRollback
<1>4. \A w \in Works : ~ StartStream(w) /\ ~ CloseStream(w) /\ ~ StartCopy(w) /\ ~ Cancel(w) /\ ~ Closing(w)
  BY <1>1 DEF StartStream, CloseStream, Closing, StartCopy, Cancel
<1>5. \A s \in Scopes : ~ Settling(s) /\ pc[s] # "running"
  BY <1>1 DEF Settling
<1>6. \A s \in Scopes : ~ Return(s) /\ ~ Throw(s) /\ ~ Settled(s) /\ ~ SettleStream(s)
  BY <1>5 DEF Return, Throw, Settled, SettleStream, CallbackMayEnd
<1>7. \A s \in Scopes : ~ StartNested(s)
  <2> SUFFICES ASSUME NEW s \in Scopes, StartNested(s) PROVE FALSE
    OBVIOUS
  <2>1. s \in NestedScopes /\ open[Parent[s]]
    BY DEF StartNested, MayUse, ScopeOpen, NestedScopes
  <2> QED BY <1>1, <2>1, ParentOf
<1>8. \A s \in Scopes, w \in Works : ~ Issue(s, w)
  BY <1>1 DEF Issue, MayUse, ScopeOpen
<1> QED BY <1>3, <1>4, <1>6, <1>7, <1>8 DEF Next, Answers

LEMMA OnlyRoot ==
  ASSUME TypeInv, LeaseInv, QuietInv, RootOver, \A w \in Works : ~ Unfinished(w), Next
  PROVE  AnswerCommit \/ AnswerRollback \/ Break \/ Settled(Root)
<1>1. pc[Root] \notin {"running", "opening"} /\ Root \in Scopes
  BY ConstantsAssumption DEF RootOver, Ended
<1>2. \A s \in NestedScopes : ~ Active(s)
  BY <1>1, RootRuns DEF QuietInv
<1>3. \A s \in Scopes : pc[s] # "running" /\ ~ open[s] /\ (Settling(s) => s = Root)
  BY <1>1, <1>2 DEF QuietInv, ScopeInv, Active, Entered, Settling, NestedScopes
<1>4. ~ AnswerBegin
  BY <1>1, RootOpWaits DEF AnswerBegin, RootOps, Awaiting
<1>5. ~ AnswerQuery
  <2> SUFFICES ASSUME AnswerQuery PROVE FALSE
    OBVIOUS
  <2> DEFINE w == Head(queue).work
  <2>1. 1 \in 1..Len(queue) /\ Asks(1, w) /\ w \in Works
    BY HeadCommand DEF AnswerQuery, TypeInv, TypeOK, Asks
  <2> QED BY <2>1 DEF QuietInv, AskedInv, Asked, Unfinished
<1>6. ~ AnswerSavepoint /\ ~ AnswerRelease /\ ~ AnswerRollbackTo
  <2> SUFFICES ASSUME NEW op \in NestedOps, IsHead(op), Answer(<< >>) PROVE FALSE
    BY DEF AnswerSavepoint, AnswerRelease, AnswerRollbackTo, NestedOps
  <2>1. Head(queue).scope \in NestedScopes /\ pc[Head(queue).scope] = AwaitedBy(op)
    BY OpWaits DEF QuietInv
  <2> QED BY <1>2, <2>1, AwaitedWhere DEF Active, Entered
<1>7. \A w \in Works : ~ StartStream(w) /\ ~ CloseStream(w) /\ ~ StartCopy(w) /\ ~ Cancel(w) /\ ~ Closing(w)
  BY DEF StartStream, CloseStream, Closing, StartCopy, Cancel, Unfinished
<1>8. \A s \in Scopes : ~ Return(s) /\ ~ Throw(s) /\ (Settled(s) => s = Root)
  BY <1>3 DEF Return, Throw, Settled, CallbackMayEnd
<1>9. \A s \in Scopes : ~ SettleStream(s)
  BY <1>7 DEF SettleStream, TypeInv, TypeOK
<1>10. \A s \in Scopes : ~ StartNested(s)
  <2> SUFFICES ASSUME NEW s \in Scopes, StartNested(s) PROVE FALSE
    OBVIOUS
  <2>1. s \in NestedScopes /\ open[Parent[s]]
    BY DEF StartNested, MayUse, ScopeOpen, NestedScopes
  <2> QED BY <1>3, <2>1, ParentOf
<1>11. \A s \in Scopes, w \in Works : ~ Issue(s, w)
  BY <1>3 DEF Issue, MayUse, ScopeOpen
<1> QED BY <1>4, <1>5, <1>6, <1>7, <1>8, <1>9, <1>10, <1>11 DEF Next, Answers

LEMMA SavepointStep ==
  ASSUME Disciplined, TypeInv, LeaseInv, QuietInv, SavepointInv, TornInv, [Next]_vars
  PROVE  SavepointInv'
<1>1. CASE UNCHANGED vars
  <2>1. /\ UNCHANGED <<pc, failed, valid, unsafeDepth, work, queue, conn, frames>>
    BY <1>1 DEF vars
  <2>2. LineInv' /\ AloneInv'
    BY <2>1, LineKept, AloneKept DEF SavepointInv, Active
  <2>3. MarkInv' /\ MarkHasCause'
    BY <2>1, LiveKept DEF SavepointInv, MarkInv, Spoiled
  <2>4. FrameInv'
    BY <2>1, ScopesOfFramesKept DEF SavepointInv, InTxn, FrameInv
  <2>5. EffectInv'
    BY <2>1 DEF SavepointInv, EffectInv, InTxn, Belongs, Succeeded, In
  <2>6. Moved(0, << >>) /\ Len(<< >>) = 0
    BY <2>1, KeptMoves DEF TypeInv
  <2>7. SpotInv'
    BY <2>1, <2>6, SpotKept DEF SavepointInv, QuietInv, Active
  <2> QED BY <2>2, <2>3, <2>4, <2>5, <2>7 DEF SavepointInv
<1>2. CASE Break
  BY <1>2, BreakKeepsSavepoints
<1>3. CASE Next /\ pc[Root] = "opening"
  BY <1>2, <1>3, OnlyBegin, AnswerBeginKeepsSavepoints
<1>4. CASE Next /\ pc[Root] \in Ended
  BY <1>2, <1>4, OnlyBreak
<1>5. CASE Answers
  BY <1>5, AnswerQueryKeepsSavepoints, AnswerBeginKeepsSavepoints, AnswerSavepointKeepsSavepoints,
     AnswerReleaseKeepsSavepoints, AnswerRollbackToKeepsSavepoints, AnswerCommitKeepsSavepoints,
     AnswerRollbackKeepsSavepoints DEF Answers
<1> DEFINE Between == pc[Root] # "opening" /\ pc[Root] \notin Ended
<1>6. ASSUME NEW w \in Works, Between, StartStream(w) \/ CloseStream(w) \/ StartCopy(w) \/ Cancel(w)
      PROVE  SavepointInv'
  BY <1>6, StartStreamKeepsSavepoints, ClosingKeepsSavepoints, StartCopyKeepsSavepoints,
     CancelKeepsSavepoints DEF CloseStream
<1>7. ASSUME NEW s \in Scopes, NEW w \in Works, Between, Issue(s, w) PROVE SavepointInv'
  BY <1>7, IssueKeepsSavepoints
<1>8. ASSUME NEW s \in Scopes, Between, SettleStream(s) PROVE SavepointInv'
  <2>1. waits[s] \subseteq Works
    BY DEF TypeInv, TypeOK
  <2> QED BY <1>8, <2>1, ClosingKeepsSavepoints DEF SettleStream
<1>9. ASSUME NEW s \in Scopes, Between, StartNested(s) \/ Return(s) \/ Throw(s) \/ Settled(s)
      PROVE  SavepointInv'
  BY <1>9, StartNestedKeepsSavepoints, ReturnKeepsSavepoints, ThrowKeepsSavepoints,
     SettledKeepsSavepoints
<1> QED BY <1>1, <1>2, <1>3, <1>4, <1>5, <1>6, <1>7, <1>8, <1>9 DEF Next

-------------------------------------------------------------------------------
(***************************************************************************)
(* Atomicity.                                                              *)
(***************************************************************************)
\* When the root commits, the effects on the server are those of the work that
\* was fulfilled.
LEMMA AllPromised ==
  ASSUME TypeInv, QuietInv, SavepointInv, pc[Root] = "ending", conn = "txn"
  PROVE  AllEffects = Promised
<1>1. \A w \in Works : ~ Unfinished(w)
  BY AllSettled
<1>2. \A s \in NestedScopes : ~ Active(s)
  BY RootRuns DEF QuietInv
<1>3. \A s \in Scopes \ {Root} : ~ In(s) /\ s \in NestedScopes
  BY <1>2 DEF In, Active, NestedScopes
<1>4. DOMAIN frames = 1..Len(frames)
  BY DEF TypeInv, TypeOK
<1>5. ASSUME NEW i \in 1..Len(frames), NEW e \in frames[i].effects PROVE e \in Promised
  <2>1. Belongs(e, i) /\ e \in Effects
    BY <1>5, FrameAt DEF SavepointInv, EffectInv, InTxn
  <2>2. e[1] \in Works
    BY <2>1 DEF Effects
  <2> DEFINE w == e[1]
             o == work[w].scope
  <2>3. o \in Scopes /\ o \in Line[o] /\ Line[o] \subseteq Scopes
    BY <2>2, WorkScopes, LineUpward
  <2>4. \A s \in Line[o] \ {Root} : pc[s] = "fulfilled"
    BY <1>3, <2>1, <2>3 DEF Belongs
  <2>5. ~ failed[o]
    BY <2>3, <2>4 DEF SavepointInv, MarkInv
  <2>6. Kind[w] # "stream" /\ work[w].state = "done"
    BY <1>1, <2>1, <2>2, <2>5 DEF Belongs, Unfinished
  <2> HIDE DEF o
  <2> QED BY <2>1, <2>4, <2>6 DEF Promised, o
<1>6. ASSUME NEW e \in Promised PROVE \E i \in 1..Len(frames) : e \in frames[i].effects
  <2>1. e \in Effects
    BY DEF Promised
  <2>2. PICK w \in Works : \E k \in 1..Size[w] : e = <<w, k>>
    BY <2>1 DEF Effects
  <2>k. PICK k \in 1..Size[w] : e = <<w, k>>
    BY <2>2
  <2>3. /\ Kind[w] # "stream" /\ work[w].state = "done"
        /\ \A s \in Line[work[w].scope] \ {Root} : pc[s] = "fulfilled"
    BY <2>k DEF Promised
  <2>4. Succeeded(w, k) /\ k \in Nat
    BY <2>3 DEF Succeeded
  <2> QED BY <2>k, <2>4 DEF SavepointInv, EffectInv, InTxn
<1> QED BY <1>4, <1>5, <1>6 DEF AllEffects

\* While the root has yet to be ended.
LEMMA UncommittedStep ==
  ASSUME TypeInv, LeaseInv, QuietInv, SavepointInv, TornInv, AllOrNothing,
         pc[Root] # "opening", ~ (RootOver /\ \A w \in Works : ~ Unfinished(w)), Next
  PROVE  TornInv' /\ AllOrNothing'
<1>0. Root \in Scopes
  BY ConstantsAssumption
<1>1. pc[Root] \notin {"ending", "undoing"} \cup Ended
  BY AllSettled DEF RootOver
<1>2. ~ torn /\ conn # "idle"
  BY DEF TornInv
<1>3. ~ AnswerBegin /\ ~ AnswerCommit /\ ~ AnswerRollback /\ ~ IsHead("COMMIT")
  BY <1>1, RootOpWaits DEF AnswerBegin, AnswerCommit, AnswerRollback, RootOps, Awaiting
<1>4. SUFFICES UNCHANGED <<committed, torn>> /\ pc'[Root] # "fulfilled" /\ conn' # "idle"
  BY <1>1, <1>2, Uncommitted DEF Ended
<1>5. CASE AnswerQuery
  BY <1>1, <1>5, AnswerQueryKeepsSavepoints DEF Ended
<1>6. ASSUME NEW s \in NestedScopes, NEW label, Goto(s, label) PROVE pc'[Root] = pc[Root]
  BY <1>0, <1>6, GotoElse DEF TypeInv, NestedScopes
<1>7. CASE AnswerSavepoint
  <2>1. /\ Head(queue).scope \in NestedScopes
        /\ Goto(Head(queue).scope, "running") \/ Goto(Head(queue).scope, "threw")
        /\ UNCHANGED <<committed, torn, conn>>
    BY <1>7, OpWaits DEF AnswerSavepoint, NestedOps, QuietInv, Enter
  <2> QED BY <1>1, <1>2, <1>6, <2>1 DEF Ended
<1>8. CASE AnswerRelease
  <2>1. /\ Head(queue).scope \in NestedScopes
        /\ Goto(Head(queue).scope, "fulfilled") \/ Goto(Head(queue).scope, "settling")
        /\ UNCHANGED <<committed, torn>> /\ conn' \in {conn, "aborted"}
    BY <1>8, OpWaits DEF AnswerRelease, NestedOps, QuietInv, Await
  <2> QED BY <1>1, <1>2, <1>6, <2>1 DEF Ended
<1>9. CASE AnswerRollbackTo
  <2>1. /\ Head(queue).scope \in NestedScopes /\ Goto(Head(queue).scope, "threw")
        /\ UNCHANGED <<committed, torn>> /\ conn' \in {conn, "aborted", "txn"}
    BY <1>9, OpWaits DEF AnswerRollbackTo, NestedOps, QuietInv
  <2> QED BY <1>1, <1>2, <1>6, <2>1 DEF Ended
<1>10. CASE Break
  BY <1>1, <1>3, <1>10 DEF Break, scopeVars, Ended
<1>11. ASSUME NEW w \in Works, StartStream(w) \/ CloseStream(w) \/ StartCopy(w) \/ Cancel(w)
       PROVE  UNCHANGED <<committed, torn, pc>> /\ conn' # "idle"
  BY <1>2, <1>11 DEF StartStream, CloseStream, StartCopy, Cancel, scopeVars, serverVars
<1>12. ASSUME NEW s \in Scopes, NEW w \in Works, Issue(s, w)
       PROVE  UNCHANGED <<committed, torn, pc>> /\ conn' # "idle"
  BY <1>2, <1>12 DEF Issue, scopeVars, serverVars
<1>13. ASSUME NEW s \in Scopes, SettleStream(s)
       PROVE  UNCHANGED <<committed, torn, pc>> /\ conn' # "idle"
  BY <1>2, <1>13 DEF SettleStream, scopeVars, serverVars
<1>14. ASSUME NEW s \in Scopes, StartNested(s) \/ Return(s) \/ Throw(s) \/ Settled(s)
       PROVE  UNCHANGED <<committed, torn>> /\ pc'[Root] # "fulfilled" /\ conn' # "idle"
  <2>1. UNCHANGED <<committed, torn, conn>>
    BY <1>14 DEF StartNested, Return, Throw, Settled, serverVars
  <2>2. \E label \in PCs \ {"fulfilled"} : Goto(s, label)
    BY <1>14 DEF StartNested, Return, Throw, Settled, Await, PCs
  <2>3. pc'[Root] # "fulfilled"
    BY <1>0, <1>1, <2>2, GotoElse DEF TypeInv, Ended
  <2> QED BY <1>2, <2>1, <2>3
<1> QED BY <1>1, <1>3, <1>5, <1>7, <1>8, <1>9, <1>10, <1>11, <1>12, <1>13, <1>14 DEF Next, Answers, Ended

\* The root ends.
LEMMA CommittedStep ==
  ASSUME TypeInv, LeaseInv, QuietInv, SavepointInv, TornInv, AllOrNothing,
         RootOver, \A w \in Works : ~ Unfinished(w), Next
  PROVE  TornInv' /\ AllOrNothing'
<1>0. Root \in Scopes
  BY ConstantsAssumption
<1>1. pc[Root] = "ending" /\ conn = "txn" => ~ torn /\ committed = {} /\ AllEffects = Promised
  BY AllPromised DEF TornInv, AllOrNothing
<1>2. ASSUME UNCHANGED work, NEW label, Goto(Root, label)
      PROVE  Promised' = Promised /\ pc'[Root] = label
  BY <1>0, <1>2, GotoElse, PromisedKept DEF TypeInv, NestedScopes
<1>3. UNCHANGED work => \A w \in Works : ~ Unfinished(w)'
  BY DEF Unfinished
<1>4. CASE AnswerCommit
  <2>1. pc[Root] = "ending" /\ conn \in {"txn", "closed"} /\ UNCHANGED <<work, torn>>
    BY <1>4, RootOpWaits DEF AnswerCommit, RootOps, Awaiting, SavepointInv, MarkInv
  <2>2. CASE conn = "txn" /\ conn' = "idle" /\ committed' = committed \cup AllEffects /\ Goto(Root, "fulfilled")
    <3>1. Promised' = Promised /\ pc'[Root] = "fulfilled"
      BY <1>2, <2>1, <2>2
    <3> QED BY <1>1, <1>3, <2>1, <2>2, <3>1 DEF TornInv, AllOrNothing, RootOver, Ended
  <2>3. CASE /\ conn' = (IF conn = "txn" THEN "idle" ELSE conn) /\ UNCHANGED committed
             /\ Goto(Root, "settling")
    <3>1. Promised' = Promised /\ pc'[Root] = "settling"
      BY <1>2, <2>1, <2>3
    <3>2. TornInv'
      BY <1>1, <1>3, <2>1, <2>3, <3>1 DEF TornInv, RootOver
    <3>3. AllOrNothing'
      BY <2>1, <2>3, <3>1 DEF AllOrNothing
    <3> QED BY <3>2, <3>3
  <2> QED BY <1>4, <2>1, <2>2, <2>3 DEF AnswerCommit, Await
<1>5. CASE AnswerRollback
  <2>1. /\ pc[Root] = "undoing" /\ UNCHANGED <<work, torn, committed>> /\ Goto(Root, "threw")
        /\ conn' \in {"idle", "closed"} /\ (conn = "closed" => conn' = "closed")
    BY <1>5, RootOpWaits DEF AnswerRollback, RootOps, Awaiting
  <2>2. Promised' = Promised /\ pc'[Root] = "threw"
    BY <1>2, <2>1
  <2>3. TornInv'
    BY <1>3, <2>1, <2>2 DEF TornInv, RootOver, Ended
  <2>4. AllOrNothing'
    BY <2>1, <2>2 DEF AllOrNothing
  <2> QED BY <2>3, <2>4
<1>6. CASE Settled(Root)
  <2>1. /\ pc[Root] \in {"leaked", "settling"} /\ UNCHANGED <<work, torn, committed, conn>>
        /\ \E label \in {"settling", "undoing", "threw"} : Goto(Root, label)
    BY <1>6 DEF Settled, Settling, Await, serverVars
  <2>2. Promised' = Promised /\ pc'[Root] \in {"settling", "undoing", "threw"}
    BY <1>2, <2>1
  <2>3. TornInv'
    BY <1>3, <2>1, <2>2 DEF TornInv, RootOver, Ended
  <2>4. AllOrNothing'
    BY <2>1, <2>2 DEF AllOrNothing
  <2> QED BY <2>3, <2>4
<1>7. CASE Break
  <2>1. UNCHANGED <<work, pc>> /\ conn' = "closed"
    BY <1>7 DEF Break, scopeVars
  <2>2. Promised' = Promised
    BY <2>1, PromisedKept
  <2>3. TornInv'
    BY <1>3, <2>1 DEF TornInv, RootOver
  <2>4. CASE IsHead("COMMIT") /\ conn = "txn"
    <3>1. pc[Root] = "ending" /\ torn' = TRUE /\ committed' \in {committed, committed \cup AllEffects}
      BY <1>7, <2>4, RootOpWaits DEF Break, RootOps, Awaiting
    <3> QED BY <1>1, <2>1, <2>2, <2>3, <2>4, <3>1 DEF AllOrNothing
  <2>5. CASE ~ (IsHead("COMMIT") /\ conn = "txn")
    <3>1. UNCHANGED <<torn, committed>>
      BY <1>7, <2>5 DEF Break
    <3>2. AllOrNothing'
      BY <2>1, <2>2, <3>1 DEF AllOrNothing
    <3> QED BY <2>3, <3>2
  <2> QED BY <2>4, <2>5
<1> QED BY <1>4, <1>5, <1>6, <1>7, OnlyRoot

LEMMA AtomicStep ==
  ASSUME TypeInv, LeaseInv, QuietInv, SavepointInv, TornInv, AllOrNothing, [Next]_vars
  PROVE  TornInv' /\ AllOrNothing'
<1>1. CASE UNCHANGED vars
  <2>1. UNCHANGED <<work, pc, torn, committed, conn>>
    BY <1>1 DEF vars
  <2>2. Promised' = Promised
    BY <2>1, PromisedKept
  <2>3. TornInv'
    BY <2>1 DEF TornInv, RootOver, Unfinished
  <2>4. AllOrNothing'
    BY <2>1, <2>2 DEF AllOrNothing
  <2> QED BY <2>3, <2>4
<1>2. CASE Next /\ pc[Root] = "opening"
  <2>0. Root \in Scopes
    BY ConstantsAssumption
  <2>1. ~ torn
    BY <1>2 DEF TornInv, RootOver, Ended
  <2>2. CASE AnswerBegin
    <3>1. /\ UNCHANGED <<committed, torn>> /\ conn' # "idle"
          /\ Goto(Root, "running") \/ Goto(Root, "settling")
      BY <2>2 DEF AnswerBegin, Enter
    <3>2. pc'[Root] # "fulfilled"
      BY <2>0, <3>1, GotoElse DEF TypeInv
    <3> QED BY <1>2, <2>1, <3>1, <3>2, Uncommitted
  <2>3. CASE Break /\ ~ IsHead("COMMIT")
    <3>1. UNCHANGED <<committed, torn, pc>> /\ conn' # "idle"
      BY <2>3 DEF Break, scopeVars
    <3> QED BY <1>2, <2>1, <3>1, Uncommitted
  <2> QED BY <1>2, <2>2, <2>3, OnlyBegin
<1>3. CASE Next /\ RootOver /\ \A w \in Works : ~ Unfinished(w)
  BY <1>3, CommittedStep
<1>4. CASE Next /\ pc[Root] # "opening" /\ ~ (RootOver /\ \A w \in Works : ~ Unfinished(w))
  BY <1>4, UncommittedStep
<1> QED BY <1>1, <1>2, <1>3, <1>4

LEMMA AtomicInit ==
  ASSUME Init
  PROVE  SavepointInv /\ TornInv /\ AllOrNothing
<1>1. /\ Root \in Scopes /\ \A s \in Scopes : pc[s] = (IF s = Root THEN "opening" ELSE "none")
      /\ \A s \in Scopes : ~ failed[s]
      /\ \A w \in Works : work[w].state = "new" /\ ~ work[w].bad
      /\ valid = TRUE /\ unsafeDepth = 0 /\ conn = "idle" /\ frames = << >>
      /\ committed = {} /\ torn = FALSE
  BY ConstantsAssumption DEF Init
<1>2. \A s \in NestedScopes : ~ Active(s)
  BY <1>1 DEF NestedScopes, Active, Entered
<1>3. LineInv
  BY <1>1, LineUpward DEF LineInv, Active, Entered
<1>4. SpotInv /\ AloneInv
  BY <1>2 DEF SpotInv, AloneInv, Alone
<1>5. MarkInv
  BY <1>1 DEF MarkInv
<1>6. FrameInv /\ EffectInv /\ MarkHasCause /\ TornInv /\ AllOrNothing
  BY <1>1 DEF FrameInv, EffectInv, MarkHasCause, TornInv, AllOrNothing, InTxn
<1> QED BY <1>3, <1>4, <1>5, <1>6 DEF SavepointInv

LEMMA SavepointsKept == Disciplined => (Spec => [](SavepointInv /\ TornInv /\ AllOrNothing))
<1> SUFFICES ASSUME Disciplined PROVE Spec => [](SavepointInv /\ TornInv /\ AllOrNothing)
  OBVIOUS
<1> DEFINE Inv == TypeInv /\ LeaseInv /\ QuietInv /\ SavepointInv /\ TornInv /\ AllOrNothing
<1>1. Init => Inv
  BY TypeInit, LeaseInit, QuietInit, AtomicInit
<1>2. Inv /\ [Next]_vars => Inv'
  <2> SUFFICES ASSUME Inv, [Next]_vars PROVE Inv'
    OBVIOUS
  <2>1. TypeInv' /\ LeaseInv'
    BY TypeStep, LeaseStep
  <2>2. QuietInv'
    BY QuietStep DEF Disciplined
  <2>3. SavepointInv' /\ TornInv' /\ AllOrNothing'
    BY SavepointStep, AtomicStep
  <2> QED BY <2>1, <2>2, <2>3
<1>3. Inv => SavepointInv /\ TornInv /\ AllOrNothing
  OBVIOUS
<1> QED BY <1>1, <1>2, <1>3, PTL DEF Spec

(* A fulfilled transaction has made durable exactly the work that was fulfilled
   in it and in its fulfilled nested transactions, a rejected one nothing,
   unless the connection broke under its COMMIT; for callbacks that await their
   COPYs and nested transactions and use no scope beside them. *)
THEOREM Atomic == Disciplined => (Spec => []AllOrNothing)
<1> SUFFICES ASSUME Disciplined PROVE Spec => []AllOrNothing
  OBVIOUS
<1>1. SavepointInv /\ TornInv /\ AllOrNothing => AllOrNothing
  OBVIOUS
<1> QED BY <1>1, SavepointsKept, PTL

(* The transaction is marked unsafe only for a scope that has failed and has
   yet to be rolled back, or because its connection is lost: a parent is never
   blocked by a failure that its savepoint has undone.  And while the server
   refuses its commands it is marked, or the work that failed has yet to report
   it: no rollback takes the mark away before the failure is undone. *)
THEOREM MarkLive == Disciplined => (Spec => []MarkIsLive)
<1> SUFFICES ASSUME Disciplined PROVE Spec => []MarkIsLive
  OBVIOUS
<1>1. SavepointInv /\ TornInv /\ AllOrNothing => MarkIsLive
  BY DEF SavepointInv, MarkInv, MarkIsLive
<1> QED BY <1>1, SavepointsKept, PTL
===============================================================================
