------------------------- MODULE LanguageServerProofs --------------------------
(***************************************************************************)
(* Proofs about LanguageServer, for any number of documents, notices and   *)
(* refreshes: its type, and that at rest every open document is analysed   *)
(* as it is now, upstream has the same, and the editor shows it.           *)
(***************************************************************************)
EXTENDS LanguageServer, SequenceTheorems, TLAPS

-------------------------------------------------------------------------------
(***************************************************************************)
(* Data                                                                    *)
(***************************************************************************)
Tasks == [kind : Notices, doc : Doc \union {Disk}]
Steps == [pc : {"idle", "waiting", "debouncing", "analysing", "publishing"},
          ready : Nat, state : States \union {Closed}]
DocToken(doc) == [kind |-> "document", doc |-> doc]

\* A task that analyses: every one but that of a close
IsTask(task) == task.kind # "didClose"

LEMMA DocsAreDistinct ==
  /\ Closed \notin Doc /\ Disk \notin Doc /\ Closed # Disk /\ Closed \notin States
  /\ Nothing \notin States /\ Failure \notin States /\ Nothing # Failure
  /\ Closed # Nothing /\ Closed # Failure
<1>1. Closed \notin Doc /\ Disk \notin Doc
  BY LanguageServerAssumption DEF Closed, Doc, Disk
<1>2. Closed # Disk
  BY DEF Closed, Disk
<1>3. Closed \notin States /\ Nothing \notin States /\ Failure \notin States
  BY DEF Closed, States, Nothing, Failure
<1>4. Nothing # Failure /\ Closed # Nothing /\ Closed # Failure
  BY DEF Nothing, Failure, Closed
<1>5. QED
  BY <1>1, <1>2, <1>3, <1>4

LEMMA TokensAreDistinct ==
  /\ NoToken # RefreshToken
  /\ \A doc : DocToken(doc) # NoToken /\ DocToken(doc) # RefreshToken
  /\ \A doc, other : DocToken(doc) = DocToken(other) => doc = other
  /\ \A doc \in Doc : DocToken(doc) \in Tokens
  /\ NoToken \in Tokens /\ RefreshToken \in Tokens
<1>1. NoToken # RefreshToken
  BY DEF NoToken, RefreshToken
<1>2. ASSUME NEW doc PROVE DocToken(doc) # NoToken /\ DocToken(doc) # RefreshToken
  BY DEF NoToken, RefreshToken, DocToken
<1>3. ASSUME NEW doc, NEW other, DocToken(doc) = DocToken(other) PROVE doc = other
  BY <1>3 DEF DocToken
<1>4. (\A doc \in Doc : DocToken(doc) \in Tokens) /\ NoToken \in Tokens /\ RefreshToken \in Tokens
  BY DEF Tokens, DocToken
<1>5. QED
  BY <1>1, <1>2, <1>3, <1>4

(* The token of a task *)
LEMMA TaskTokens ==
  ASSUME NEW task \in Tasks
  PROVE  /\ TokenOf(task) = IF IsTask(task) THEN DocToken(task.doc) ELSE NoToken
         /\ (IsTask(task) => task.doc \in Doc) => TokenOf(task) \in Tokens
         /\ TokenOf(task) # RefreshToken
<1>1. TokenOf(task) = IF IsTask(task) THEN DocToken(task.doc) ELSE NoToken
  BY DEF TokenOf, IsTask, DocToken
<1>2. QED
  BY <1>1, TokensAreDistinct

(* The state an analysis makes *)
LEMMA NewStates ==
  ASSUME generation \in Nat, NEW doc \in Doc \union {Disk}, NEW before \in States \union {Closed}
  PROVE  /\ NewState(doc, before) \in States /\ NewState(doc, before).doc = doc
         /\ NewState(doc, before).generation = generation
         /\ NewState(doc, before) # Closed
<1>1. doc.version \in Nat
  BY LanguageServerAssumption DEF Doc, Disk
<1>2. before # Closed => before.virtual + 1 \in Nat
  BY DEF States
<1>3. NewState(doc, before) \in States
  BY <1>1, <1>2 DEF NewState, State, States
<1>4. NewState(doc, before).doc = doc /\ NewState(doc, before).generation = generation
  BY DEF NewState, State
<1>5. QED
  BY <1>3, <1>4, DocsAreDistinct

-------------------------------------------------------------------------------
(***************************************************************************)
(* Queues                                                                  *)
(***************************************************************************)
LEMMA FirstTask ==
  ASSUME NEW tasks \in Seq(Tasks)
  PROVE  /\ Len(tasks) \in Nat /\ DOMAIN tasks = 1 .. Len(tasks)
         /\ tasks # <<>> <=> Len(tasks) > 0
         /\ tasks # <<>> => Head(tasks) = tasks[1] /\ tasks[1] \in Tasks
         /\ \A i \in 1 .. Len(tasks) : tasks[i] \in Tasks
<1>1. Len(tasks) \in Nat /\ DOMAIN tasks = 1 .. Len(tasks)
  BY LenProperties
<1>2. tasks # <<>> <=> Len(tasks) > 0
  BY EmptySeq, <1>1
<1>3. \A i \in 1 .. Len(tasks) : tasks[i] \in Tasks
  BY LenProperties
<1>4. tasks # <<>> => Head(tasks) = tasks[1]
  OBVIOUS
<1>5. QED
  BY <1>1, <1>2, <1>3, <1>4

LEMMA MoreTasks ==
  ASSUME NEW tasks \in Seq(Tasks), NEW task \in Tasks
  PROVE  LET more == Append(tasks, task)
         IN  /\ more \in Seq(Tasks) /\ more # <<>> /\ Len(more) = Len(tasks) + 1
             /\ \A i \in 1 .. Len(tasks) : more[i] = tasks[i]
             /\ more[Len(tasks) + 1] = task
BY AppendProperties

LEMMA FewerTasks ==
  ASSUME NEW tasks \in Seq(Tasks), tasks # <<>>
  PROVE  /\ Tail(tasks) \in Seq(Tasks) /\ Len(Tail(tasks)) = Len(tasks) - 1
         /\ Tail(tasks) = <<>> <=> Len(tasks) = 1
         /\ \A i \in 1 .. Len(Tail(tasks)) : Tail(tasks)[i] = tasks[i + 1]
<1>1. /\ Tail(tasks) \in Seq(Tasks) /\ Len(Tail(tasks)) = Len(tasks) - 1
      /\ \A i \in 1 .. Len(Tail(tasks)) : Tail(tasks)[i] = tasks[i + 1]
  BY HeadTailProperties
<1>2. Tail(tasks) # <<>> <=> Len(Tail(tasks)) > 0
  BY <1>1, FirstTask
<1>3. Len(tasks) \in Nat /\ Len(tasks) > 0
  BY FirstTask
<1>4. Tail(tasks) = <<>> <=> Len(tasks) = 1
  BY <1>1, <1>2, <1>3
<1>5. QED
  BY <1>1, <1>4

\* The queue of each document and where its task is
TaskType ==
  /\ queue \in [Uris -> Seq(Tasks)] /\ step \in [Uris -> Steps]
  /\ \A u \in Uris : step[u].pc = "idle" <=> queue[u] = <<>>
  /\ \A u \in Uris : \A i \in 1 .. Len(queue[u]) : IsTask(queue[u][i]) => queue[u][i].doc \in Doc
  /\ \A u \in Uris : step[u].pc = "publishing" /\ IsTask(queue[u][1]) => step[u].state # Closed

LEMMA AtFirst ==
  ASSUME TaskType, NEW u \in Uris, NEW kinds, NEW pc
  PROVE  At(u, kinds, pc) <=> queue[u] # <<>> /\ queue[u][1].kind \in kinds /\ step[u].pc = pc
BY FirstTask DEF At, TaskType

(* What a new task changes *)
LEMMA EnqueueStep ==
  ASSUME TaskType, pending \in Nat, completed \in Nat,
         NEW u \in Uris, NEW kind \in Notices, NEW doc \in Doc \union {Disk}, Enqueue(u, kind, doc)
  PROVE  /\ \A v \in Uris : v # u => queue'[v] = queue[v] /\ step'[v] = step[v]
         /\ queue'[u] \in Seq(Tasks) /\ Len(queue'[u]) = Len(queue[u]) + 1 /\ queue'[u] # <<>>
         /\ \A i \in 1 .. Len(queue[u]) : queue'[u][i] = queue[u][i]
         /\ queue'[u][Len(queue[u]) + 1] = [kind |-> kind, doc |-> doc]
         /\ queue[u] = <<>> => step'[u] = [pc |-> "waiting", ready |-> pending + completed,
                                           state |-> Closed]
         /\ queue[u] # <<>> => step'[u] = step[u] /\ queue'[u][1] = queue[u][1]
         /\ queue' = [queue EXCEPT ![u] = queue'[u]] /\ step' = [step EXCEPT ![u] = step'[u]]
<1> DEFINE task == [kind |-> kind, doc |-> doc]
<1>1. task \in Tasks
  BY DEF Tasks
<1>2. queue \in [Uris -> Seq(Tasks)] /\ step \in [Uris -> Steps]
  BY DEF TaskType
<1>3. queue' = [queue EXCEPT ![u] = Append(queue[u], task)]
  BY DEF Enqueue
<1>4. step' = [step EXCEPT ![u] = IF queue[u] = <<>> THEN Starting ELSE step[u]]
  BY DEF Enqueue
<1>5. queue'[u] = Append(queue[u], task)
  BY <1>2, <1>3
<1>6. queue[u] \in Seq(Tasks)
  BY <1>2
<1> HIDE DEF task
<1>7. /\ queue'[u] \in Seq(Tasks) /\ Len(queue'[u]) = Len(queue[u]) + 1 /\ queue'[u] # <<>>
      /\ \A i \in 1 .. Len(queue[u]) : queue'[u][i] = queue[u][i]
      /\ queue'[u][Len(queue[u]) + 1] = task
  BY <1>1, <1>5, <1>6, MoreTasks
<1>8. queue[u] # <<>> => queue'[u][1] = queue[u][1]
  BY <1>6, <1>7, FirstTask
<1>9. step'[u] = IF queue[u] = <<>> THEN Starting ELSE step[u]
  BY <1>2, <1>4
<1>10. \A v \in Uris : v # u => queue'[v] = queue[v] /\ step'[v] = step[v]
  BY <1>2, <1>3, <1>4
<1>11. queue' = [queue EXCEPT ![u] = queue'[u]] /\ step' = [step EXCEPT ![u] = step'[u]]
  BY <1>2, <1>3, <1>4, <1>5, <1>9
<1>12. QED
  BY <1>7, <1>8, <1>9, <1>10, <1>11 DEF task, Starting

LEMMA EnqueueType ==
  ASSUME TaskType, pending \in Nat, completed \in Nat,
         NEW u \in Uris, NEW kind \in Notices, NEW doc \in Doc \union {Disk}, Enqueue(u, kind, doc),
         kind # "didClose" => doc \in Doc
  PROVE  TaskType'
<1>1. PICK q, s :
        /\ q = queue'[u] /\ s = step'[u]
        /\ queue' = [queue EXCEPT ![u] = q] /\ step' = [step EXCEPT ![u] = s]
        /\ q \in Seq(Tasks) /\ Len(q) = Len(queue[u]) + 1 /\ q # <<>>
        /\ \A i \in 1 .. Len(queue[u]) : q[i] = queue[u][i]
        /\ q[Len(queue[u]) + 1] = [kind |-> kind, doc |-> doc]
        /\ queue[u] = <<>> => s = [pc |-> "waiting", ready |-> pending + completed, state |-> Closed]
        /\ queue[u] # <<>> => s = step[u] /\ q[1] = queue[u][1]
  BY EnqueueStep
<1>2. queue \in [Uris -> Seq(Tasks)] /\ step \in [Uris -> Steps]
  BY DEF TaskType
<1>3. s \in Steps /\ s.pc # "idle" /\ (s.pc = "publishing" /\ IsTask(q[1]) => s.state # Closed)
  <2>1. CASE queue[u] = <<>>
    BY <2>1, <1>1 DEF Steps
  <2>2. CASE queue[u] # <<>>
    BY <2>2, <1>1, <1>2 DEF TaskType
  <2>3. QED
    BY <2>1, <2>2
<1>4. \A i \in 1 .. Len(q) : IsTask(q[i]) => q[i].doc \in Doc
  <2>1. Len(queue[u]) \in Nat
    BY <1>2, FirstTask
  <2>2. IsTask(q[Len(queue[u]) + 1]) => q[Len(queue[u]) + 1].doc \in Doc
    BY <1>1 DEF IsTask
  <2>3. \A i \in 1 .. Len(queue[u]) : IsTask(q[i]) => q[i].doc \in Doc
    BY <1>1 DEF TaskType
  <2>4. QED
    BY <2>1, <2>2, <2>3, <1>1
<1>5. queue' \in [Uris -> Seq(Tasks)] /\ step' \in [Uris -> Steps]
  BY <1>1, <1>2, <1>3
<1>6. \A v \in Uris : queue'[v] = (IF v = u THEN q ELSE queue[v]) /\ step'[v] = (IF v = u THEN s ELSE step[v])
  BY <1>1, <1>2
<1>7. QED
  BY <1>1, <1>3, <1>4, <1>5, <1>6 DEF TaskType

(* What the task in hand changes when it goes on *)
LEMMA ProceedStep ==
  ASSUME TaskType, NEW u \in Uris, NEW pc, NEW state, Proceed(u, pc, state)
  PROVE  /\ \A v \in Uris : v # u => step'[v] = step[v]
         /\ step'[u] = [pc |-> pc, ready |-> 0, state |-> state]
         /\ queue' = queue /\ dead' = dead
         /\ step'[u].pc = pc /\ step'[u].state = state
         /\ step' = [step EXCEPT ![u] = step'[u]]
<1>1. step'[u] = [pc |-> pc, ready |-> 0, state |-> state]
  BY DEF Proceed, TaskType
<1>2. step'[u].pc = pc /\ step'[u].state = state
  BY <1>1
<1>3. QED
  BY <1>1, <1>2 DEF Proceed, TaskType

LEMMA ProceedType ==
  ASSUME TaskType, NEW u \in Uris, queue[u] # <<>>,
         NEW pc \in {"debouncing", "analysing", "publishing"}, NEW state \in States \union {Closed},
         Proceed(u, pc, state), pc = "publishing" /\ IsTask(queue[u][1]) => state # Closed
  PROVE  TaskType'
<1>1. PICK s : /\ s = [pc |-> pc, ready |-> 0, state |-> state]
               /\ step' = [step EXCEPT ![u] = s] /\ queue' = queue
  BY DEF Proceed
<1>2. s \in Steps /\ s.pc # "idle" /\ (s.pc = "publishing" /\ IsTask(queue[u][1]) => s.state # Closed)
  BY <1>1 DEF Steps
<1>3. queue \in [Uris -> Seq(Tasks)] /\ step \in [Uris -> Steps]
  BY DEF TaskType
<1>4. \A v \in Uris : step'[v] = IF v = u THEN s ELSE step[v]
  BY <1>1, <1>3
<1>5. step' \in [Uris -> Steps]
  BY <1>1, <1>2, <1>3
<1>6. QED
  BY <1>1, <1>2, <1>3, <1>4, <1>5 DEF TaskType

(* What the end of a task changes *)
LEMMA FinishStep ==
  ASSUME TaskType, pending \in Nat, completed \in Nat, dead \in [Uris -> SUBSET Tokens],
         NEW u \in Uris, queue[u] # <<>>, Finish(u)
  PROVE  /\ \A v \in Uris : v # u => queue'[v] = queue[v] /\ step'[v] = step[v] /\ dead'[v] = dead[v]
         /\ queue'[u] \in Seq(Tasks) /\ Len(queue'[u]) = Len(queue[u]) - 1
         /\ queue'[u] = <<>> <=> Len(queue[u]) = 1
         /\ \A i \in 1 .. Len(queue'[u]) : queue'[u][i] = queue[u][i + 1]
         /\ dead'[u] = dead[u] \ {TokenOf(queue[u][1])}
         /\ queue'[u] = <<>> => step'[u] = Idle
         /\ queue'[u] # <<>> => step'[u] = [pc |-> "waiting", ready |-> pending + completed,
                                            state |-> Closed]
         /\ queue' = [queue EXCEPT ![u] = queue'[u]] /\ step' = [step EXCEPT ![u] = step'[u]]
         /\ dead' = [dead EXCEPT ![u] = dead'[u]]
<1>1. queue \in [Uris -> Seq(Tasks)] /\ step \in [Uris -> Steps]
  BY DEF TaskType
<1>2. queue[u] \in Seq(Tasks)
  BY <1>1
<1>3. /\ queue' = [queue EXCEPT ![u] = Tail(queue[u])]
      /\ step' = [step EXCEPT ![u] = IF Len(queue[u]) > 1 THEN Starting ELSE Idle]
      /\ dead' = [dead EXCEPT ![u] = dead[u] \ {TokenOf(Head(queue[u]))}]
  BY DEF Finish
<1>4. /\ queue'[u] = Tail(queue[u]) /\ dead'[u] = dead[u] \ {TokenOf(Head(queue[u]))}
      /\ step'[u] = IF Len(queue[u]) > 1 THEN Starting ELSE Idle
  BY <1>1, <1>3
<1>5. \A v \in Uris : v # u => queue'[v] = queue[v] /\ step'[v] = step[v] /\ dead'[v] = dead[v]
  BY <1>1, <1>3
<1>6. /\ queue'[u] \in Seq(Tasks) /\ Len(queue'[u]) = Len(queue[u]) - 1
      /\ queue'[u] = <<>> <=> Len(queue[u]) = 1
      /\ \A i \in 1 .. Len(queue'[u]) : queue'[u][i] = queue[u][i + 1]
  BY <1>2, <1>4, FewerTasks
<1>7. Len(queue[u]) \in Nat /\ Len(queue[u]) > 0 /\ Head(queue[u]) = queue[u][1]
  BY <1>2, FirstTask
<1>8. /\ queue'[u] = <<>> => step'[u] = Idle
      /\ queue'[u] # <<>> => step'[u] = Starting
  <2>1. Len(queue[u]) > 1 <=> queue'[u] # <<>>
    BY <1>6, <1>7
  <2>2. QED
    BY <2>1, <1>4
<1>9. queue' = [queue EXCEPT ![u] = queue'[u]] /\ step' = [step EXCEPT ![u] = step'[u]]
  BY <1>1, <1>3, <1>4
<1>10. dead' = [dead EXCEPT ![u] = dead'[u]]
  BY <1>3, <1>4
<1>11. QED
  BY <1>4, <1>5, <1>6, <1>7, <1>8, <1>9, <1>10 DEF Starting

LEMMA FinishType ==
  ASSUME TaskType, pending \in Nat, completed \in Nat, dead \in [Uris -> SUBSET Tokens],
         NEW u \in Uris, queue[u] # <<>>, Finish(u)
  PROVE  TaskType' /\ dead' \in [Uris -> SUBSET Tokens]
<1>1. PICK q, s :
        /\ queue' = [queue EXCEPT ![u] = q] /\ step' = [step EXCEPT ![u] = s]
        /\ q \in Seq(Tasks) /\ Len(q) = Len(queue[u]) - 1
        /\ \A i \in 1 .. Len(q) : q[i] = queue[u][i + 1]
        /\ q = <<>> => s = Idle
        /\ q # <<>> => s = [pc |-> "waiting", ready |-> pending + completed, state |-> Closed]
  BY FinishStep
<1>2. queue \in [Uris -> Seq(Tasks)] /\ step \in [Uris -> Steps]
  BY DEF TaskType
<1>3. s \in Steps /\ s.pc # "publishing" /\ (s.pc = "idle" <=> q = <<>>)
  <2>1. CASE q = <<>>
    BY <2>1, <1>1 DEF Steps, Idle
  <2>2. CASE q # <<>>
    BY <2>2, <1>1 DEF Steps
  <2>3. QED
    BY <2>1, <2>2
<1>4. \A i \in 1 .. Len(q) : IsTask(q[i]) => q[i].doc \in Doc
  <2>1. Len(queue[u]) \in Nat
    BY <1>2, FirstTask
  <2>2. \A i \in 1 .. Len(q) : i + 1 \in 1 .. Len(queue[u])
    BY <2>1, <1>1
  <2>3. QED
    BY <2>2, <1>1 DEF TaskType
<1>5. queue' \in [Uris -> Seq(Tasks)] /\ step' \in [Uris -> Steps]
  BY <1>1, <1>2, <1>3
<1>6. \A v \in Uris : queue'[v] = (IF v = u THEN q ELSE queue[v]) /\ step'[v] = (IF v = u THEN s ELSE step[v])
  BY <1>1, <1>2
<1>7. TaskType'
  BY <1>1, <1>3, <1>4, <1>5, <1>6 DEF TaskType
<1>8. dead' \in [Uris -> SUBSET Tokens]
  BY DEF Finish
<1>9. QED
  BY <1>7, <1>8

-------------------------------------------------------------------------------
(***************************************************************************)
(* Types                                                                   *)
(***************************************************************************)

\* A document has been opened and changed no more often than the editor has sent anything.
NoticeType ==
  /\ editor \in Editors /\ notices \in Nat
  /\ source \in [Uris -> Doc \union {Closed}] /\ session \in [Uris -> Nat]
  /\ \A u \in Uris : session[u] <= notices
  /\ \A u \in Uris : source[u] # Closed => source[u].version <= notices

StateType ==
  /\ documents \in [Uris -> States \union {Closed}]
  /\ virtualDocuments \in [Uris -> States \union {Closed}] /\ report \in [Uris -> BOOLEAN]
  /\ overlay \in [Uris -> States \union {Closed}] /\ astray \subseteq Notices
  /\ native \in [Uris -> States \union {Closed}]
  /\ shown \in [Uris -> States \union {Nothing, Failure, Raw}]

\* What the refresh analyses is open, unless it has been superseded.
TokenType ==
  /\ token \in [Uris -> Tokens] /\ dead \in [Uris -> SUBSET Tokens]
  /\ phase = "analysing" =>
       \A u \in at : RefreshToken \in dead[u] \/ (source[u] # Closed /\ token[u] = RefreshToken)

WorkspaceType ==
  /\ phase \in {"idle", "refreshing", "analysing", "publishing", "resetting", "preloading", "loading"}
  /\ visited \subseteq Uris /\ at \subseteq Uris /\ held \in States \union {Closed}
  /\ \A u, v \in at : u = v
  /\ pending \in Nat /\ completed \in Nat /\ startFailed \in BOOLEAN
  /\ generation \in Nat /\ broken \in BOOLEAN
  /\ phase # "idle" => pending > 0
  /\ phase = "publishing" => held # Closed

TypeInv == TaskType /\ NoticeType /\ StateType /\ TokenType /\ WorkspaceType

LEMMA TypeFromParts == TypeInv => TypeOK
<1> SUFFICES ASSUME TypeInv PROVE TypeOK
  OBVIOUS
<1>1. /\ queue \in [Uris -> Seq([kind : Notices, doc : Doc \union {Disk}])]
      /\ step \in [Uris -> [pc : {"idle", "waiting", "debouncing", "analysing", "publishing"},
                            ready : Nat, state : States \union {Closed}]]
      /\ \A u \in Uris : step[u].pc = "idle" <=> queue[u] = <<>>
  BY DEF TypeInv, TaskType, Tasks, Steps
<1>2. QED
  BY <1>1 DEF TypeInv, NoticeType, StateType, TokenType, WorkspaceType, TypeOK

LEMMA TypeInit == Init => TypeInv
<1> SUFFICES ASSUME Init PROVE TypeInv
  OBVIOUS
<1> USE LanguageServerAssumption
<1>1. TaskType
  BY EmptySeq DEF Init, TaskType, Steps, Idle, Tasks
<1>2. NoticeType
  BY DEF Init, NoticeType
<1>3. StateType
  BY DEF Init, StateType
<1>4. TokenType
  BY DEF Init, TokenType, Tokens
<1>5. WorkspaceType
  <2>1. broken \in BOOLEAN
    BY Zenon DEF Init
  <2>2. startFailed \in BOOLEAN
    BY DEF Init
  <2>3. QED
    BY <2>1, <2>2 DEF Init, WorkspaceType
<1>6. QED
  BY <1>1, <1>2, <1>3, <1>4, <1>5 DEF TypeInv

(* Who is cancelled *)
LEMMA CancelStep ==
  ASSUME token \in [Uris -> Tokens], dead \in [Uris -> SUBSET Tokens], NEW u \in Uris, Cancel(u)
  PROVE  /\ \A v \in Uris : v # u => dead'[v] = dead[v]
         /\ dead'[u] = dead[u] \union ({token[u]} \intersect Holders(u))
         /\ dead' \in [Uris -> SUBSET Tokens]
         /\ at = {u} /\ phase = "analysing" /\ token[u] = RefreshToken => RefreshToken \in dead'[u]
<1>1. dead' = [dead EXCEPT ![u] = dead[u] \union ({token[u]} \intersect Holders(u))]
  BY DEF Cancel
<1>2. dead'[u] = dead[u] \union ({token[u]} \intersect Holders(u))
  BY <1>1
<1>3. \A v \in Uris : v # u => dead'[v] = dead[v]
  BY <1>1
<1>4. dead[u] \union ({token[u]} \intersect Holders(u)) \in SUBSET Tokens
  OBVIOUS
<1>5. dead' \in [Uris -> SUBSET Tokens]
  BY <1>1, <1>4
<1>6. at = {u} /\ phase = "analysing" => RefreshToken \in Holders(u)
  BY DEF Holders
<1>7. QED
  BY <1>2, <1>3, <1>5, <1>6

(* What upstream has open *)
LEMMA SendStep ==
  ASSUME StateType, NEW u \in Uris, NEW before, NEW state \in States, Send(u, before, state)
  PROVE  /\ \A v \in Uris : v # u => overlay'[v] = overlay[v]
         /\ before = Closed \/ overlay[u] # Closed => overlay'[u] = state
         /\ overlay' \in [Uris -> States \union {Closed}] /\ astray' \subseteq Notices
<1>1. CASE before = Closed
  BY <1>1 DEF Send, SendOpen, StateType, Notices
<1>2. CASE before # Closed
  BY <1>2 DEF Send, SendChange, StateType, Notices
<1>3. QED
  BY <1>1, <1>2

LEMMA SendChangeStep ==
  ASSUME StateType, NEW u \in Uris, NEW state \in States, SendChange(u, state)
  PROVE  /\ \A v \in Uris : v # u => overlay'[v] = overlay[v]
         /\ overlay'[u] = IF overlay[u] = Closed THEN Closed ELSE state
         /\ overlay' \in [Uris -> States \union {Closed}] /\ astray' \subseteq Notices
BY DEF SendChange, StateType, Notices

LEMMA SendCloseStep ==
  ASSUME StateType, NEW u \in Uris, SendClose(u)
  PROVE  /\ \A v \in Uris : v # u => overlay'[v] = overlay[v]
         /\ overlay'[u] = Closed
         /\ overlay' \in [Uris -> States \union {Closed}] /\ astray' \subseteq Notices
BY DEF SendClose, StateType, Notices

(* What the editor shows *)
LEMMA ShowStep ==
  ASSUME StateType, NEW u \in Uris, NEW state \in States, Show(u, state)
  PROVE  /\ \A v \in Uris : v # u => shown'[v] = shown[v]
         /\ shown'[u] = IF Current(u, state) THEN state ELSE shown[u]
         /\ shown' \in [Uris -> States \union {Nothing, Failure, Raw}] /\ report' \in [Uris -> BOOLEAN]
<1>1. CASE Current(u, state)
  BY <1>1 DEF Show, StateType
<1>2. CASE ~ Current(u, state)
  BY <1>2 DEF Show, StateType
<1>3. QED
  BY <1>1, <1>2

(* The notices *)
LEMMA NoticeStep ==
  ASSUME TypeInv, NEW u \in Uris, NEW kind \in Notices, NEW doc \in Doc \union {Disk},
         kind # "didClose" => doc \in Doc, May(kind, u), Enqueue(u, kind, doc), NotNoted,
         NoticeType', TokenType', report' \in [Uris -> BOOLEAN], visited' \subseteq Uris
  PROVE  TypeInv'
<1>1. TaskType'
  BY EnqueueType DEF TypeInv, WorkspaceType
<1>2. StateType'
  BY DEF TypeInv, StateType, NotNoted, upstreamVars
<1>3. WorkspaceType'
  BY DEF TypeInv, WorkspaceType, NotNoted, projectVars
<1>4. QED
  BY <1>1, <1>2, <1>3 DEF TypeInv

(* The newest snapshots *)
LEMMA SnapshotStep ==
  ASSUME NoticeType, editor' = editor, notices' = notices + 1,
         NEW u \in Uris, NEW doc \in Doc \union {Closed}, source' = [source EXCEPT ![u] = doc],
         doc # Closed => doc.version <= notices + 1,
         NEW n \in Nat, n <= notices + 1, session' = [session EXCEPT ![u] = n]
  PROVE  NoticeType'
<1>1. source \in [Uris -> Doc \union {Closed}] /\ session \in [Uris -> Nat] /\ notices \in Nat
  BY DEF NoticeType
<1>2. \A v \in Uris : /\ source'[v] = (IF v = u THEN doc ELSE source[v])
                      /\ session'[v] = (IF v = u THEN n ELSE session[v])
  BY <1>1
<1>3. source' \in [Uris -> Doc \union {Closed}] /\ session' \in [Uris -> Nat]
  BY <1>1
<1>4. \A v \in Uris : session[v] \in Nat /\ (source[v] # Closed => source[v].version \in Nat)
  BY <1>1 DEF Doc
<1>5. ASSUME NEW v \in Uris
      PROVE  session'[v] <= notices' /\ (source'[v] # Closed => source'[v].version <= notices')
  BY <1>1, <1>2, <1>4 DEF NoticeType
<1>6. QED
  BY <1>1, <1>3, <1>5 DEF NoticeType

LEMMA OpenedType ==
  ASSUME TypeInv, NEW u \in Uris, DidOpen(u)
  PROVE  TypeInv'
<1> DEFINE doc == [session |-> session[u] + 1, version |-> 1]
<1>1. session[u] \in Nat /\ session[u] <= notices /\ notices \in Nat /\ notices < MaxNotices
  BY DEF TypeInv, NoticeType, DidOpen, May
<1>2. doc \in Doc /\ doc.session = session[u] + 1 /\ doc.version = 1
  BY <1>1, LanguageServerAssumption DEF Doc
<1>3. /\ source' = [source EXCEPT ![u] = doc] /\ session' = [session EXCEPT ![u] = doc.session]
      /\ token' = [token EXCEPT ![u] = DocToken(doc)] /\ Enqueue(u, "didOpen", doc)
      /\ notices' = notices + 1 /\ editor' = editor /\ dead' = dead /\ phase' = phase /\ at' = at
      /\ source[u] = Closed /\ report' = report /\ visited' = visited /\ NotNoted /\ May("didOpen", u)
  BY DEF DidOpen, May, NotNoted, DocToken
<1> HIDE DEF doc
<1>4. NoticeType'
  <2>1. /\ doc \in Doc \union {Closed} /\ doc.version <= notices + 1
        /\ doc.session \in Nat /\ doc.session <= notices + 1
    BY <1>1, <1>2
  <2>2. QED
    BY <2>1, <1>3, SnapshotStep DEF TypeInv
<1>5. TokenType'
  <2>1. token' \in [Uris -> Tokens] /\ dead' \in [Uris -> SUBSET Tokens]
    BY <1>2, <1>3, TokensAreDistinct DEF TypeInv, TokenType
  <2>2. ASSUME phase = "analysing", NEW v \in at
        PROVE  RefreshToken \in dead[v] \/ (source'[v] # Closed /\ token'[v] = RefreshToken)
    <3>1. v \in Uris
      BY <2>2 DEF TypeInv, WorkspaceType
    <3>2. CASE v = u
      BY <2>2, <3>2, <1>3 DEF TypeInv, TokenType
    <3>3. CASE v # u
      BY <2>2, <3>1, <3>3, <1>3 DEF TypeInv, TokenType, NoticeType
    <3>4. QED
      BY <3>2, <3>3
  <2>3. QED
    BY <2>1, <2>2, <1>3 DEF TokenType
<1>6. report' \in [Uris -> BOOLEAN] /\ visited' \subseteq Uris
  BY <1>3 DEF TypeInv, StateType, WorkspaceType
<1>7. QED
  BY <1>2, <1>3, <1>4, <1>5, <1>6, NoticeStep DEF Notices

(* A change and a close supersede the refresh that is at the document. *)
LEMMA SupersedeType ==
  ASSUME TypeInv, NEW u \in Uris, source[u] # Closed, Cancel(u), phase' = phase, at' = at,
         NEW doc \in Doc \union {Closed}, source' = [source EXCEPT ![u] = doc],
         NEW t \in Tokens, token' = [token EXCEPT ![u] = t]
  PROVE  TokenType'
<1>1. /\ \A v \in Uris : v # u => dead'[v] = dead[v]
      /\ dead[u] \subseteq dead'[u] /\ dead' \in [Uris -> SUBSET Tokens]
      /\ at = {u} /\ phase = "analysing" /\ token[u] = RefreshToken => RefreshToken \in dead'[u]
  BY CancelStep DEF TypeInv, TokenType
<1>2. token' \in [Uris -> Tokens]
  BY DEF TypeInv, TokenType
<1>3. ASSUME phase = "analysing", NEW v \in at
      PROVE  RefreshToken \in dead'[v] \/ (source'[v] # Closed /\ token'[v] = RefreshToken)
  <2>1. v \in Uris /\ at = {v}
    BY <1>3 DEF TypeInv, WorkspaceType
  <2>2. CASE v = u
    BY <1>1, <1>3, <2>1, <2>2 DEF TypeInv, TokenType
  <2>3. CASE v # u
    BY <1>1, <1>3, <2>1, <2>3 DEF TypeInv, TokenType, NoticeType
  <2>4. QED
    BY <2>2, <2>3
<1>4. QED
  BY <1>1, <1>2, <1>3 DEF TokenType

LEMMA ChangedType ==
  ASSUME TypeInv, NEW u \in Uris, DidChange(u)
  PROVE  TypeInv'
<1> DEFINE doc == [source[u] EXCEPT !.version = @ + 1]
<1>1. /\ source[u] \in Doc /\ source[u].version \in Nat /\ source[u].version <= notices
      /\ notices \in Nat /\ notices < MaxNotices
  BY DEF TypeInv, NoticeType, DidChange, May, Doc
<1>2. doc \in Doc /\ doc.version = source[u].version + 1
  BY <1>1, LanguageServerAssumption DEF Doc
<1>3. /\ source' = [source EXCEPT ![u] = doc] /\ session' = session
      /\ token' = [token EXCEPT ![u] = DocToken(doc)] /\ Enqueue(u, "didChange", doc)
      /\ notices' = notices + 1 /\ editor' = editor /\ Cancel(u) /\ phase' = phase /\ at' = at
      /\ source[u] # Closed /\ report' = report /\ visited' = visited /\ NotNoted /\ May("didChange", u)
  BY DEF DidChange, May, NotNoted, DocToken
<1> HIDE DEF doc
<1>4. NoticeType'
  <2>1. session[u] \in Nat /\ session[u] <= notices + 1 /\ session' = [session EXCEPT ![u] = session[u]]
    BY <1>1, <1>3 DEF TypeInv, NoticeType
  <2>2. doc \in Doc \union {Closed} /\ doc.version <= notices + 1
    BY <1>1, <1>2
  <2>3. QED
    BY <2>1, <2>2, <1>3, SnapshotStep DEF TypeInv
<1>5. TokenType'
  BY <1>2, <1>3, SupersedeType, TokensAreDistinct
<1>6. report' \in [Uris -> BOOLEAN] /\ visited' \subseteq Uris
  BY <1>3 DEF TypeInv, StateType, WorkspaceType
<1>7. QED
  BY <1>2, <1>3, <1>4, <1>5, <1>6, NoticeStep DEF Notices

LEMMA ClosedType ==
  ASSUME TypeInv, NEW u \in Uris, DidClose(u)
  PROVE  TypeInv'
<1>1. /\ source' = [source EXCEPT ![u] = Closed] /\ session' = session
      /\ token' = [token EXCEPT ![u] = NoToken] /\ Enqueue(u, "didClose", Disk)
      /\ notices' = notices + 1 /\ editor' = editor /\ Cancel(u) /\ phase' = phase /\ at' = at
      /\ source[u] # Closed /\ report' = [report EXCEPT ![u] = FALSE]
      /\ visited' \subseteq visited /\ NotNoted /\ May("didClose", u)
  BY DEF DidClose, May, NotNoted
<1>2. NoticeType'
  <2>1. session[u] \in Nat /\ session[u] <= notices + 1 /\ session' = [session EXCEPT ![u] = session[u]]
    BY <1>1 DEF TypeInv, NoticeType
  <2>2. QED
    BY <2>1, <1>1, SnapshotStep DEF TypeInv
<1>3. TokenType'
  BY <1>1, SupersedeType, TokensAreDistinct
<1>4. report' \in [Uris -> BOOLEAN] /\ visited' \subseteq Uris
  BY <1>1 DEF TypeInv, StateType, WorkspaceType
<1>5. QED
  BY <1>1, <1>2, <1>3, <1>4, NoticeStep DEF Notices

(* The tasks of the documents *)
LEMMA TaskStep ==
  ASSUME TypeInv, NEW u \in Uris, queue[u] # <<>>, Elsewhere, StateType',
         \/ Finish(u)
         \/ \E pc \in {"debouncing", "analysing", "publishing"}, state \in States \union {Closed} :
              /\ Proceed(u, pc, state)
              /\ pc = "publishing" /\ IsTask(queue[u][1]) => state # Closed
  PROVE  TypeInv'
<1>1. NoticeType' /\ WorkspaceType'
  BY DEF TypeInv, NoticeType, WorkspaceType, Elsewhere, workspaceVars, projectVars, editorVars
<1>2. /\ token' = token /\ phase' = phase /\ at' = at /\ source' = source
      /\ pending \in Nat /\ completed \in Nat /\ dead \in [Uris -> SUBSET Tokens]
      /\ queue[u] \in Seq(Tasks)
  BY DEF TypeInv, WorkspaceType, TokenType, TaskType, Elsewhere, workspaceVars, editorVars
<1>3. CASE Finish(u)
  <2>1. TaskType' /\ dead' \in [Uris -> SUBSET Tokens]
    BY <1>2, <1>3, FinishType DEF TypeInv
  <2>2. /\ \A v \in Uris : v # u => dead'[v] = dead[v]
        /\ dead'[u] = dead[u] \ {TokenOf(queue[u][1])}
    BY <1>2, <1>3, FinishStep DEF TypeInv
  <2>3. TokenOf(queue[u][1]) # RefreshToken
    BY <1>2, FirstTask, TaskTokens
  <2>4. \A v \in Uris : RefreshToken \in dead[v] => RefreshToken \in dead'[v]
    BY <2>2, <2>3
  <2>5. TokenType'
    BY <2>1, <2>4, <1>2 DEF TypeInv, TokenType, WorkspaceType
  <2>6. QED
    BY <2>1, <2>5, <1>1 DEF TypeInv
<1>4. CASE \E pc \in {"debouncing", "analysing", "publishing"}, state \in States \union {Closed} :
             /\ Proceed(u, pc, state)
             /\ pc = "publishing" /\ IsTask(queue[u][1]) => state # Closed
  <2>1. TaskType'
    BY <1>4, ProceedType DEF TypeInv
  <2>2. dead' = dead
    BY <1>4 DEF Proceed
  <2>3. TokenType'
    BY <2>2, <1>2 DEF TypeInv, TokenType
  <2>4. QED
    BY <2>1, <2>3, <1>1 DEF TypeInv
<1>5. QED
  BY <1>3, <1>4

(* A task is at work while its document has a queue. *)
LEMMA AtWork ==
  ASSUME TaskType, NEW u \in Uris, step[u].pc # "idle"
  PROVE  /\ queue[u] # <<>> /\ queue[u] \in Seq(Tasks) /\ Len(queue[u]) \in Nat /\ Len(queue[u]) > 0
         /\ queue[u][1] \in Tasks /\ Head(queue[u]) = queue[u][1]
         /\ step[u] \in Steps /\ step[u].state \in States \union {Closed}
         /\ IsTask(queue[u][1]) => queue[u][1].doc \in Doc
         /\ queue[u][1].kind \in Notices
<1>1. queue[u] # <<>> /\ queue[u] \in Seq(Tasks) /\ step[u] \in Steps
  BY DEF TaskType
<1>2. Len(queue[u]) \in Nat /\ Len(queue[u]) > 0 /\ queue[u][1] \in Tasks /\ Head(queue[u]) = queue[u][1]
  BY <1>1, FirstTask
<1>3. IsTask(queue[u][1]) => queue[u][1].doc \in Doc
  BY <1>2 DEF TaskType
<1>4. QED
  BY <1>1, <1>2, <1>3 DEF Steps, Tasks

LEMMA AtIsAtWork ==
  ASSUME TaskType, NEW u \in Uris, NEW kinds, NEW pc, pc # "idle", At(u, kinds, pc)
  PROVE  step[u].pc # "idle" /\ step[u].pc = pc /\ queue[u][1].kind \in kinds
BY AtFirst

LEMMA WaitedType ==
  ASSUME TypeInv, NEW u \in Uris, Open(u) \/ Debounce(u) \/ Change(u) \/ Close(u)
  PROVE  TypeInv'
<1>1. step[u].pc # "idle"
  BY AtIsAtWork DEF TypeInv, Open, Debounce, Change, Close
<1>2. queue[u] # <<>>
  BY <1>1, AtWork DEF TypeInv
<1>3. documents[u] \in States \union {Closed} /\ virtualDocuments[u] \in States \union {Closed}
  BY DEF TypeInv, StateType
<1>4. Elsewhere
  BY DEF Open, Debounce, Change, Close
<1>5. \E pc \in {"debouncing", "analysing", "publishing"}, state \in States \union {Closed} :
        Proceed(u, pc, state) /\ (pc = "publishing" /\ IsTask(queue[u][1]) => state # Closed)
  <2>1. CASE Open(u)
    BY <2>1, <1>3 DEF Open
  <2>2. CASE Debounce(u)
    BY <2>2 DEF Debounce
  <2>3. CASE Change(u)
    BY <2>3, <1>3 DEF Change
  <2>4. CASE Close(u)
    BY <2>4, <1>3 DEF Close
  <2>5. QED
    BY <2>1, <2>2, <2>3, <2>4
<1>6. StateType'
  <2>1. /\ overlay' = overlay /\ astray' = astray /\ shown' = shown /\ report' = report
        /\ virtualDocuments' = virtualDocuments /\ native' = native
    BY DEF Open, Debounce, Change, Close, documentVars, upstreamVars, Elsewhere
  <2>2. documents' \in [Uris -> States \union {Closed}]
    BY DEF TypeInv, StateType, Open, Debounce, Change, Close, documentVars
  <2>3. QED
    BY <2>1, <2>2 DEF TypeInv, StateType
<1>7. QED
  BY <1>2, <1>4, <1>5, <1>6, TaskStep

LEMMA EndedType ==
  ASSUME TypeInv, NEW u \in Uris, Abort(u) \/ Fail(u) \/ Published(u) \/ Cleared(u)
  PROVE  TypeInv'
<1>1. step[u].pc # "idle"
  <2>1. CASE Fail(u)
    BY <2>1, AtIsAtWork DEF TypeInv, Fail, Refused, WorkspaceIsReady
  <2>2. CASE Abort(u) \/ Published(u) \/ Cleared(u)
    BY <2>2, AtIsAtWork DEF TypeInv, Abort, Published, Cleared
  <2>3. QED
    BY <2>1, <2>2
<1>2. queue[u] # <<>>
  BY <1>1, AtWork DEF TypeInv
<1>3. Elsewhere /\ Finish(u)
  BY DEF Abort, Fail, Published, Cleared
<1>4. StateType'
  <2>1. documents' = documents /\ virtualDocuments' = virtualDocuments /\ native' = native
    BY DEF Abort, Fail, Published, Cleared, documentVars, Elsewhere
  <2>2. overlay' = overlay /\ astray' = astray
    BY DEF Abort, Fail, Published, Cleared, upstreamVars
  <2>3. shown' \in [Uris -> States \union {Nothing, Failure, Raw}] /\ report' \in [Uris -> BOOLEAN]
    <3>1. CASE Abort(u)
      BY <3>1 DEF TypeInv, StateType, Abort, documentVars
    <3>2. CASE Fail(u)
      <4>1. shown' \in [Uris -> States \union {Nothing, Failure, Raw}]
        BY <3>2 DEF TypeInv, StateType, Fail
      <4>2. report' = [report EXCEPT ![u] = report[u] \/ source[u] # Closed]
        BY <3>2 DEF Fail
      <4>3. (report[u] \/ source[u] # Closed) \in BOOLEAN
        OBVIOUS
      <4>4. report \in [Uris -> BOOLEAN]
        BY DEF TypeInv, StateType
      <4>5. report' \in [Uris -> BOOLEAN]
        BY <4>2, <4>3, <4>4, Zenon
      <4>6. QED
        BY <4>1, <4>5
    <3>3. CASE Cleared(u)
      BY <3>3 DEF TypeInv, StateType, Cleared, documentVars
    <3>4. CASE Published(u)
      <4>1. step[u].pc = "publishing" /\ IsTask(queue[u][1])
        BY <3>4, AtIsAtWork DEF TypeInv, Published, IsTask
      <4>2. step[u].state \in States
        BY <1>1, <4>1, AtWork DEF TypeInv, TaskType
      <4>3. Show(u, step[u].state)
        BY <3>4 DEF Published
      <4>4. QED
        BY <4>2, <4>3, ShowStep DEF TypeInv
    <3>5. QED
      BY <3>1, <3>2, <3>3, <3>4
  <2>4. QED
    BY <2>1, <2>2, <2>3 DEF TypeInv, StateType
<1>5. QED
  BY <1>2, <1>3, <1>4, TaskStep

(* What an analysis, and the end of one, send upstream *)
LEMMA AnalysedStep ==
  ASSUME TypeInv, NEW u \in Uris, Analysed(u)
  PROVE  \E state \in States :
           /\ step[u].pc = "analysing" /\ IsTask(queue[u][1]) /\ TokenOf(queue[u][1]) \notin dead[u]
           /\ ~ broken
           /\ state.doc = queue[u][1].doc /\ state.generation = generation
           /\ documents' = [documents EXCEPT ![u] = state]
           /\ Send(u, step[u].state, state) /\ Proceed(u, "publishing", state)
           /\ virtualDocuments' = [virtualDocuments EXCEPT ![u] = Closed]
           /\ report' = report /\ shown' = shown /\ Elsewhere
<1>1. step[u].pc = "analysing" /\ IsTask(queue[u][1])
  BY AtIsAtWork DEF TypeInv, Analysed, IsTask
<1>2. Head(queue[u]) = queue[u][1] /\ queue[u][1].doc \in Doc /\ step[u].state \in States \union {Closed}
  BY <1>1, AtWork DEF TypeInv
<1> DEFINE state == NewState(queue[u][1].doc, step[u].state)
<1>3. state \in States /\ state.doc = queue[u][1].doc /\ state.generation = generation
  BY <1>2, NewStates DEF TypeInv, WorkspaceType
<1>4. /\ documents' = [documents EXCEPT ![u] = state]
      /\ Send(u, step[u].state, state) /\ Proceed(u, "publishing", state)
      /\ virtualDocuments' = [virtualDocuments EXCEPT ![u] = Closed]
      /\ report' = report /\ shown' = shown /\ Elsewhere
      /\ TokenOf(queue[u][1]) \notin dead[u] /\ ~ broken
  BY <1>2 DEF Analysed, Cancelled
<1> HIDE DEF state
<1>5. QED
  BY <1>1, <1>3, <1>4

LEMMA AnalysedType ==
  ASSUME TypeInv, NEW u \in Uris, Analysed(u)
  PROVE  TypeInv'
<1>1. PICK state \in States :
           /\ step[u].pc = "analysing"
           /\ documents' = [documents EXCEPT ![u] = state]
           /\ Send(u, step[u].state, state) /\ Proceed(u, "publishing", state)
           /\ virtualDocuments' = [virtualDocuments EXCEPT ![u] = Closed]
           /\ report' = report /\ shown' = shown /\ Elsewhere
  BY AnalysedStep
<1>2. queue[u] # <<>>
  BY <1>1, AtWork DEF TypeInv
<1>3. overlay' \in [Uris -> States \union {Closed}] /\ astray' \subseteq Notices
  BY <1>1, SendStep DEF TypeInv
<1>4. native' = native
  BY <1>1 DEF Elsewhere
<1>5. StateType'
  BY <1>1, <1>3, <1>4 DEF TypeInv, StateType
<1>6. QED
  BY <1>1, <1>2, <1>5, DocsAreDistinct, TaskStep

(* A close leaves a file upstream as it is on disk, or takes it away. *)
LEMMA UnopenedStep ==
  ASSUME TypeInv, NEW u \in Uris, Unopened(u)
  PROVE  /\ step[u].pc = "analysing" /\ ~ IsTask(queue[u][1])
         /\ Proceed(u, "publishing", Closed) /\ Elsewhere
         /\ documents' = documents /\ report' = report /\ shown' = shown
         /\ \/ /\ ~ broken /\ u \in Queried
               /\ \E state \in States :
                    /\ virtualDocuments' = [virtualDocuments EXCEPT ![u] = state]
                    /\ SendChange(u, state)
            \/ ~ broken /\ u \notin Queried /\ SendClose(u) /\ virtualDocuments' = virtualDocuments
            \/ /\ broken /\ SendClose(u)
               /\ virtualDocuments' = [virtualDocuments EXCEPT ![u] = Closed]
<1>1. step[u].pc = "analysing" /\ ~ IsTask(queue[u][1])
  BY AtIsAtWork DEF TypeInv, Unopened, IsTask
<1>2. step[u].state \in States \union {Closed}
  BY <1>1, AtWork DEF TypeInv
<1>3. NewState(Disk, step[u].state) \in States
  BY <1>2, NewStates DEF TypeInv, WorkspaceType
<1>4. /\ Proceed(u, "publishing", Closed) /\ Elsewhere
      /\ documents' = documents /\ report' = report /\ shown' = shown
  BY DEF Unopened
<1>5. \/ /\ ~ broken /\ u \in Queried
         /\ \E state \in States :
              /\ virtualDocuments' = [virtualDocuments EXCEPT ![u] = state]
              /\ SendChange(u, state)
      \/ ~ broken /\ u \notin Queried /\ SendClose(u) /\ virtualDocuments' = virtualDocuments
      \/ /\ broken /\ SendClose(u)
         /\ virtualDocuments' = [virtualDocuments EXCEPT ![u] = Closed]
  BY <1>3 DEF Unopened
<1>6. QED
  BY <1>1, <1>4, <1>5

LEMMA UnopenedType ==
  ASSUME TypeInv, NEW u \in Uris, Unopened(u)
  PROVE  TypeInv'
<1>1. /\ step[u].pc = "analysing" /\ ~ IsTask(queue[u][1])
      /\ Proceed(u, "publishing", Closed) /\ Elsewhere
      /\ documents' = documents /\ report' = report /\ shown' = shown
  BY UnopenedStep
<1>2. /\ virtualDocuments' \in [Uris -> States \union {Closed}]
      /\ overlay' \in [Uris -> States \union {Closed}] /\ astray' \subseteq Notices
  <2>1. \/ \E state \in States :
              /\ virtualDocuments' = [virtualDocuments EXCEPT ![u] = state] /\ SendChange(u, state)
        \/ SendClose(u) /\ virtualDocuments' = virtualDocuments
        \/ SendClose(u) /\ virtualDocuments' = [virtualDocuments EXCEPT ![u] = Closed]
    BY UnopenedStep
  <2>2. virtualDocuments \in [Uris -> States \union {Closed}]
    BY DEF TypeInv, StateType
  <2>3. virtualDocuments' \in [Uris -> States \union {Closed}]
    BY <2>1, <2>2
  <2>4. overlay' \in [Uris -> States \union {Closed}] /\ astray' \subseteq Notices
    BY <2>1, SendChangeStep, SendCloseStep DEF TypeInv
  <2>5. QED
    BY <2>3, <2>4
<1>3. queue[u] # <<>> /\ native' = native
  BY <1>1, AtWork DEF TypeInv, Elsewhere
<1>4. StateType'
  BY <1>1, <1>2, <1>3 DEF TypeInv, StateType
<1>5. QED
  BY <1>1, <1>3, <1>4, TaskStep

(* The refresh of the workspace *)
LEMMA QuietType ==
  ASSUME TypeInv, UNCHANGED taskVars, UNCHANGED editorVars, StateType', TokenType', WorkspaceType'
  PROVE  TypeInv'
<1>1. TaskType'
  BY DEF TypeInv, TaskType, taskVars
<1>2. NoticeType'
  BY DEF TypeInv, NoticeType, editorVars
<1>3. QED
  BY <1>1, <1>2 DEF TypeInv

LEMMA WatchedType ==
  ASSUME TypeInv, DidChangeWatchedFiles
  PROVE  TypeInv'
<1>1. UNCHANGED taskVars /\ UNCHANGED editorVars
  BY DEF DidChangeWatchedFiles
<1>2. StateType'
  BY DEF TypeInv, StateType, DidChangeWatchedFiles, documentVars, upstreamVars
<1>3. TokenType'
  BY DEF TypeInv, TokenType, DidChangeWatchedFiles, tokenVars, editorVars
<1>4. broken' \in BOOLEAN
  BY Zenon DEF TypeInv, WorkspaceType, DidChangeWatchedFiles
<1>5. WorkspaceType'
  <2>1. /\ pending' = pending + 1 /\ phase' = phase /\ visited' = visited /\ at' = at /\ held' = held
        /\ completed' = completed /\ startFailed' = startFailed /\ generation' = generation
    BY DEF DidChangeWatchedFiles
  <2>2. QED
    BY <2>1, <1>4 DEF TypeInv, WorkspaceType
<1>6. QED
  BY <1>1, <1>2, <1>3, <1>5, QuietType

\* The steps of the loops of a refresh that analyse nothing
LoopStep ==
  \/ RefreshStarts \/ Reset \/ Preload
  \/ \E u \in Uris : ResetNext(u) \/ PreloadNext(u)

LEMMA LoopType ==
  ASSUME TypeInv, LoopStep
  PROVE  TypeInv'
<1>1. /\ UNCHANGED taskVars /\ UNCHANGED editorVars /\ UNCHANGED tokenVars /\ native' = native
      /\ documents' = documents /\ report' = report /\ shown' = shown
      /\ held' = held /\ broken' = broken /\ pending' = pending /\ completed' = completed
      /\ startFailed' = startFailed
  BY DEF LoopStep, RefreshStarts, Reset, Preload, ResetNext, PreloadNext, InDocuments, SameQueue,
         documentVars, projectVars, GoOn
<1>2. phase' # "analysing" /\ phase' # "publishing"
  BY DEF LoopStep, RefreshStarts, Reset, Preload, ResetNext, PreloadNext, GoOn
<1>3. StateType'
  <2>1. /\ overlay' \in [Uris -> States \union {Closed}] /\ astray' \subseteq Notices
        /\ virtualDocuments' \in [Uris -> States \union {Closed}]
    <3>1. ASSUME NEW u \in Uris, ResetNext(u)
          PROVE  /\ overlay' \in [Uris -> States \union {Closed}] /\ astray' \subseteq Notices
                 /\ virtualDocuments' \in [Uris -> States \union {Closed}]
      <4>1. CASE documents[u] # Closed
        BY <4>1, <3>1 DEF ResetNext, TypeInv, StateType, upstreamVars
      <4>2. CASE documents[u] = Closed
        BY <4>2, <3>1, SendCloseStep DEF ResetNext, TypeInv, StateType
      <4>3. QED
        BY <4>1, <4>2
    <3>2. CASE RefreshStarts \/ Reset \/ Preload \/ \E u \in Uris : PreloadNext(u)
      BY <3>2 DEF RefreshStarts, Reset, Preload, PreloadNext, TypeInv, StateType, documentVars, upstreamVars
    <3>3. QED
      BY <3>1, <3>2 DEF LoopStep
  <2>2. QED
    BY <2>1, <1>1 DEF TypeInv, StateType
<1>4. TokenType'
  BY <1>1, <1>2 DEF TypeInv, TokenType, tokenVars
<1>5. WorkspaceType'
  <2>1. /\ phase' \in {"idle", "refreshing", "analysing", "publishing", "resetting", "preloading", "loading"}
        /\ visited' \subseteq Uris /\ at' \subseteq Uris /\ \A u, v \in at' : u = v
    BY DEF TypeInv, WorkspaceType, LoopStep, RefreshStarts, Reset, Preload, ResetNext, PreloadNext, GoOn
  <2>2. generation' \in Nat
    <3>1. generation' = generation \/ generation' = generation + 1
      BY DEF LoopStep, RefreshStarts, Reset, Preload, ResetNext, PreloadNext, projectVars
    <3>2. QED
      BY <3>1 DEF TypeInv, WorkspaceType
  <2>3. phase' # "idle" => pending > 0
    BY DEF TypeInv, WorkspaceType, LoopStep, RefreshStarts, Reset, Preload, ResetNext, PreloadNext, GoOn
  <2>4. QED
    BY <2>1, <2>2, <2>3, <1>1, <1>2 DEF TypeInv, WorkspaceType
<1>6. QED
  BY <1>1, <1>3, <1>4, <1>5, QuietType

LEMMA RefreshNextType ==
  ASSUME TypeInv, NEW u \in Uris, RefreshNext(u)
  PROVE  TypeInv'
<1>1. /\ UNCHANGED taskVars /\ UNCHANGED editorVars /\ UNCHANGED projectVars
      /\ UNCHANGED documentVars /\ UNCHANGED upstreamVars /\ native' = native /\ shown' = shown
      /\ pending' = pending /\ completed' = completed /\ startFailed' = startFailed
      /\ phase = "refreshing" /\ phase' = "analysing" /\ at' = {u} /\ visited' = visited \union {u}
      /\ Cancel(u) /\ token' = [token EXCEPT ![u] = RefreshToken] /\ held' = documents[u]
      /\ source[u] # Closed
  BY DEF RefreshNext, InDocuments, SameQueue, GoOn
<1>2. StateType'
  BY <1>1 DEF TypeInv, StateType, documentVars, upstreamVars
<1>3. TokenType'
  <2>1. token' \in [Uris -> Tokens] /\ token'[u] = RefreshToken
    BY <1>1, TokensAreDistinct DEF TypeInv, TokenType
  <2>2. dead' \in [Uris -> SUBSET Tokens]
    BY <1>1, CancelStep DEF TypeInv, TokenType
  <2>3. source' = source
    BY <1>1 DEF editorVars
  <2>4. QED
    BY <1>1, <2>1, <2>2, <2>3 DEF TokenType
<1>4. WorkspaceType'
  BY <1>1 DEF TypeInv, WorkspaceType, StateType, projectVars
<1>5. QED
  BY <1>1, <1>2, <1>3, <1>4, QuietType

LEMMA RefreshAnalysedStep ==
  ASSUME TypeInv, NEW u \in Uris, RefreshAnalysed(u)
  PROVE  /\ source[u] \in Doc /\ token[u] = RefreshToken /\ source[u] # Closed
         /\ \E state \in States :
              /\ state.doc = source[u] /\ state.generation = generation
              /\ documents' = [documents EXCEPT ![u] = state]
              /\ Send(u, held, state) /\ held' = state
<1>1. phase = "analysing" /\ at = {u} /\ RefreshToken \notin dead[u]
  BY DEF RefreshAnalysed
<1>2. source[u] # Closed /\ token[u] = RefreshToken
  BY <1>1 DEF TypeInv, TokenType
<1>3. source[u] \in Doc
  BY <1>2 DEF TypeInv, NoticeType
<1> DEFINE state == NewState(source[u], held)
<1>4. state \in States /\ state.doc = source[u] /\ state.generation = generation
  BY <1>3, NewStates DEF TypeInv, WorkspaceType
<1>5. documents' = [documents EXCEPT ![u] = state] /\ Send(u, held, state) /\ held' = state
  BY DEF RefreshAnalysed
<1> HIDE DEF state
<1>6. QED
  BY <1>2, <1>3, <1>4, <1>5

LEMMA RefreshAnalysedType ==
  ASSUME TypeInv, NEW u \in Uris, RefreshAnalysed(u)
  PROVE  TypeInv'
<1>1. /\ UNCHANGED taskVars /\ UNCHANGED editorVars /\ UNCHANGED projectVars /\ UNCHANGED tokenVars
      /\ virtualDocuments' = virtualDocuments /\ report' = report
      /\ native' = native /\ shown' = shown
      /\ pending' = pending /\ completed' = completed /\ startFailed' = startFailed
      /\ phase = "analysing" /\ phase' = "publishing" /\ at' = {u} /\ visited' = visited
  BY DEF RefreshAnalysed, InDocuments, SameQueue, GoOn
<1>2. PICK state \in States :
        documents' = [documents EXCEPT ![u] = state] /\ Send(u, held, state) /\ held' = state
  BY RefreshAnalysedStep
<1>3. StateType'
  <2>1. overlay' \in [Uris -> States \union {Closed}] /\ astray' \subseteq Notices
    BY <1>2, SendStep DEF TypeInv
  <2>2. QED
    BY <2>1, <1>1, <1>2 DEF TypeInv, StateType
<1>4. TokenType'
  BY <1>1 DEF TypeInv, TokenType, tokenVars
<1>5. held' \in States \union {Closed} /\ held' # Closed
  BY <1>2, DocsAreDistinct
<1>6. WorkspaceType'
  BY <1>1, <1>5 DEF TypeInv, WorkspaceType, projectVars
<1>7. QED
  BY <1>1, <1>3, <1>4, <1>6, QuietType

LEMMA RefreshPublishedType ==
  ASSUME TypeInv, NEW u \in Uris, RefreshPublished(u)
  PROVE  TypeInv'
<1>1. /\ UNCHANGED taskVars /\ UNCHANGED editorVars /\ UNCHANGED projectVars /\ UNCHANGED tokenVars
      /\ virtualDocuments' = virtualDocuments /\ documents' = documents /\ UNCHANGED upstreamVars
      /\ native' = native
      /\ pending' = pending /\ completed' = completed /\ startFailed' = startFailed
      /\ phase = "publishing" /\ phase' = "refreshing" /\ at' = {} /\ visited' = visited
      /\ held' = Closed /\ Show(u, held)
  BY DEF RefreshPublished, InDocuments, SameQueue, GoOn
<1>2. held \in States
  BY <1>1 DEF TypeInv, WorkspaceType
<1>3. shown' \in [Uris -> States \union {Nothing, Failure, Raw}] /\ report' \in [Uris -> BOOLEAN]
  BY <1>1, <1>2, ShowStep DEF TypeInv
<1>4. StateType'
  BY <1>1, <1>3 DEF TypeInv, StateType, upstreamVars
<1>5. TokenType'
  BY <1>1 DEF TypeInv, TokenType, tokenVars
<1>6. WorkspaceType'
  BY <1>1 DEF TypeInv, WorkspaceType, projectVars
<1>7. QED
  BY <1>1, <1>4, <1>5, <1>6, QuietType

(* The preload of a file sends what is on disk, if nobody has opened it meanwhile. *)
LEMMA PreloadedStep ==
  ASSUME TypeInv, NEW u \in Uris, Preloaded(u)
  PROVE  \/ /\ Known(u) \/ u \notin Queried
            /\ virtualDocuments' = virtualDocuments /\ UNCHANGED upstreamVars
         \/ /\ ~ Known(u) /\ u \in Queried
            /\ \E state \in States :
                 /\ virtualDocuments' = [virtualDocuments EXCEPT ![u] = state]
                 /\ Send(u, Closed, state)
<1>1. NewState(Disk, Closed) \in States
  BY NewStates DEF TypeInv, WorkspaceType
<1>2. CASE Known(u) \/ u \notin Queried
  BY <1>2 DEF Preloaded
<1>3. CASE ~ (Known(u) \/ u \notin Queried)
  BY <1>1, <1>3 DEF Preloaded, Send
<1>4. QED
  BY <1>2, <1>3

LEMMA PreloadedType ==
  ASSUME TypeInv, NEW u \in Uris, Preloaded(u)
  PROVE  TypeInv'
<1>1. /\ UNCHANGED taskVars /\ UNCHANGED editorVars /\ UNCHANGED projectVars /\ UNCHANGED tokenVars
      /\ documents' = documents /\ report' = report /\ native' = native /\ shown' = shown
      /\ pending' = pending /\ completed' = completed /\ startFailed' = startFailed
      /\ phase = "loading" /\ phase' = "preloading" /\ at' = {} /\ visited' = visited /\ held' = held
  BY DEF Preloaded, InDocuments, SameQueue, GoOn
<1>2. /\ virtualDocuments' \in [Uris -> States \union {Closed}]
      /\ overlay' \in [Uris -> States \union {Closed}] /\ astray' \subseteq Notices
  <2>1. CASE virtualDocuments' = virtualDocuments /\ UNCHANGED upstreamVars
    BY <2>1 DEF TypeInv, StateType, upstreamVars
  <2>2. ASSUME NEW state \in States, virtualDocuments' = [virtualDocuments EXCEPT ![u] = state],
               Send(u, Closed, state)
        PROVE  /\ virtualDocuments' \in [Uris -> States \union {Closed}]
               /\ overlay' \in [Uris -> States \union {Closed}] /\ astray' \subseteq Notices
    <3>1. overlay' \in [Uris -> States \union {Closed}] /\ astray' \subseteq Notices
      BY <2>2, SendStep DEF TypeInv
    <3>2. QED
      BY <3>1, <2>2 DEF TypeInv, StateType
  <2>3. QED
    BY <2>1, <2>2, PreloadedStep
<1>3. StateType'
  BY <1>1, <1>2 DEF TypeInv, StateType
<1>4. TokenType'
  BY <1>1 DEF TypeInv, TokenType, tokenVars
<1>5. WorkspaceType'
  BY <1>1 DEF TypeInv, WorkspaceType, projectVars
<1>6. QED
  BY <1>1, <1>3, <1>4, <1>5, QuietType

LEMMA RefreshEndType ==
  ASSUME TypeInv, PreloadDone \/ RefreshFails
  PROVE  TypeInv'
<1>1. /\ UNCHANGED taskVars /\ UNCHANGED editorVars /\ UNCHANGED projectVars /\ UNCHANGED upstreamVars
      /\ documents' = documents /\ virtualDocuments' = virtualDocuments /\ native' = native
      /\ pending' = pending - 1 /\ completed' = completed + 1 /\ token' = token
      /\ phase # "idle" /\ phase' = "idle" /\ at' = {} /\ visited' = {} /\ held' = Closed
  BY DEF PreloadDone, RefreshFails, EndRefresh, InDocuments, GoOn, documentVars, tokenVars
<1>2. shown' \in [Uris -> States \union {Nothing, Failure, Raw}] /\ startFailed' \in BOOLEAN
  BY DEF TypeInv, StateType, WorkspaceType, PreloadDone, RefreshFails, InDocuments
<1>3. report' \in [Uris -> BOOLEAN]
  <2>1. CASE report' = report
    BY <2>1 DEF TypeInv, StateType
  <2>2. CASE report' = [u \in Uris |-> report[u] \/ (documents[u] # Closed /\ source[u] # Closed)]
    BY <2>2
  <2>3. QED
    BY <2>1, <2>2 DEF PreloadDone, RefreshFails, documentVars
<1>4. dead' \in [Uris -> SUBSET Tokens]
  BY DEF TypeInv, TokenType, PreloadDone, RefreshFails, tokenVars
<1>5. StateType'
  BY <1>1, <1>2, <1>3 DEF TypeInv, StateType, upstreamVars
<1>6. TokenType'
  BY <1>1, <1>4 DEF TypeInv, TokenType
<1>7. WorkspaceType'
  <2>1. pending - 1 \in Nat /\ completed + 1 \in Nat
    BY <1>1 DEF TypeInv, WorkspaceType
  <2>2. QED
    BY <2>1, <1>1, <1>2 DEF TypeInv, WorkspaceType, projectVars
<1>8. QED
  BY <1>1, <1>5, <1>6, <1>7, QuietType

LEMMA NativeType ==
  ASSUME TypeInv, NEW u \in Uris, NativeForwarded(u) \/ NativeDiagnostics(u) \/ NativePublished(u)
  PROVE  TypeInv'
<1>1. /\ UNCHANGED taskVars /\ UNCHANGED editorVars /\ UNCHANGED projectVars /\ UNCHANGED tokenVars
      /\ UNCHANGED workspaceVars /\ UNCHANGED upstreamVars
      /\ documents' = documents /\ virtualDocuments' = virtualDocuments
  BY DEF NativeForwarded, NativeDiagnostics, NativePublished, documentVars
<1>2. native' \in [Uris -> States \union {Closed}]
  BY DEF TypeInv, StateType, NativeForwarded, NativeDiagnostics, NativePublished
<1>3. shown' \in [Uris -> States \union {Nothing, Failure, Raw}] /\ report' \in [Uris -> BOOLEAN]
  <2>1. CASE shown' = shown /\ report' = report
    BY <2>1 DEF TypeInv, StateType
  <2>2. CASE NativePublished(u) /\ ~ broken
    <3>1. native[u] \in States /\ Show(u, native[u])
      BY <2>2 DEF TypeInv, StateType, NativePublished
    <3>2. QED
      BY <3>1, ShowStep DEF TypeInv
  <2>3. CASE NativeForwarded(u)
    BY <2>3 DEF TypeInv, StateType, NativeForwarded, documentVars
  <2>4. QED
    BY <2>1, <2>2, <2>3 DEF NativeDiagnostics, NativePublished, documentVars
<1>4. StateType'
  BY <1>1, <1>2, <1>3 DEF TypeInv, StateType, upstreamVars
<1>5. TokenType'
  BY <1>1 DEF TypeInv, TokenType, tokenVars, workspaceVars, editorVars
<1>6. WorkspaceType'
  BY <1>1 DEF TypeInv, WorkspaceType, projectVars, workspaceVars
<1>7. QED
  BY <1>1, <1>4, <1>5, <1>6, QuietType

LEMMA TypeStep == TypeInv /\ [Next]_vars => TypeInv'
<1> SUFFICES ASSUME TypeInv, [Next]_vars PROVE TypeInv'
  OBVIOUS
<1>1. CASE Next
  <2>1. CASE \E u \in Uris : DidOpen(u) \/ DidChange(u) \/ DidClose(u)
    BY <2>1, OpenedType, ChangedType, ClosedType
  <2>2. CASE DidChangeWatchedFiles
    BY <2>2, WatchedType
  <2>3. CASE \E u \in Uris : Open(u) \/ Debounce(u) \/ Change(u) \/ Close(u) \/ Abort(u) \/ Fail(u)
                     \/ Analysed(u) \/ Published(u) \/ Unopened(u) \/ Cleared(u)
    BY <2>3, WaitedType, EndedType, AnalysedType, UnopenedType
  <2>4. CASE RefreshStarts \/ Reset \/ Preload \/ PreloadDone \/ RefreshFails
    BY <2>4, LoopType, RefreshEndType DEF LoopStep
  <2>5. CASE \E u \in Uris : RefreshNext(u) \/ RefreshAnalysed(u) \/ RefreshPublished(u)
                     \/ ResetNext(u) \/ PreloadNext(u) \/ Preloaded(u)
    BY <2>5, LoopType, RefreshNextType, RefreshAnalysedType, RefreshPublishedType, PreloadedType DEF LoopStep
  <2>6. CASE \E u \in Uris : NativeForwarded(u) \/ NativeDiagnostics(u) \/ NativePublished(u)
    BY <2>6, NativeType
  <2>7. QED
    BY <1>1, <2>1, <2>2, <2>3, <2>4, <2>5, <2>6 DEF Next
<1>2. CASE UNCHANGED vars
  <2>1. /\ UNCHANGED <<documentVars, taskVars, tokenVars, workspaceVars, projectVars, upstreamVars,
                       editorVars, native, shown>>
    BY <1>2 DEF vars
  <2>2. StateType' /\ TokenType' /\ WorkspaceType'
    BY <2>1 DEF TypeInv, StateType, TokenType, WorkspaceType, documentVars, tokenVars, workspaceVars,
                projectVars, upstreamVars, editorVars
  <2>3. QED
    BY <2>1, <2>2, QuietType
<1>3. QED
  BY <1>1, <1>2

LEMMA TypeInvariant == Spec => []TypeInv
BY TypeInit, TypeStep, PTL DEF Spec

(* Every state of the language server has its type, for any editor: a task runs as long
   as a document has one, and a refresh is at one document at most. *)
THEOREM TypeCorrect == Spec => []TypeOK
BY TypeInvariant, TypeFromParts, PTL

-------------------------------------------------------------------------------
(***************************************************************************)
(* Order: which task of a document is the newest, and who is cancelled.    *)
(* Of the values of one document: its snapshot, its sessions, its token,   *)
(* the cancelled tokens and its tasks.                                     *)
(***************************************************************************)

\* The newest task is about the newest snapshot.
Newest(src, tasks) ==
  tasks # <<>> =>
    LET last == tasks[Len(tasks)]
    IN  IF src = Closed THEN ~ IsTask(last) ELSE IsTask(last) /\ last.doc = src

\* No two tasks are about one snapshot, and none is ahead.
Rising(src, opened, tasks) ==
  /\ \A i \in 1 .. Len(tasks) : IsTask(tasks[i]) =>
       /\ tasks[i].doc \in Doc /\ tasks[i].doc.session <= opened
       /\ src # Closed /\ tasks[i].doc.session = opened => tasks[i].doc.version <= src.version
  /\ \A i, j \in 1 .. Len(tasks) :
       IsTask(tasks[i]) /\ IsTask(tasks[j]) /\ tasks[i].doc = tasks[j].doc => i = j

\* The token is that of the newest snapshot, or of the refresh.
TokenFits(src, opened, tok) ==
  IF src = Closed THEN tok = NoToken
  ELSE src.session = opened /\ tok \in {RefreshToken, DocToken(src)}

\* Every task but the newest is cancelled; that one is if its token has been replaced.
DeadFits(tok, gone, tasks) ==
  /\ \A t \in gone : \E i \in 1 .. Len(tasks) : IsTask(tasks[i]) /\ t = DocToken(tasks[i].doc)
  /\ tok \notin gone
  /\ \A i \in 1 .. Len(tasks) : IsTask(tasks[i]) =>
       DocToken(tasks[i].doc) \in gone \/ (i = Len(tasks) /\ tok = DocToken(tasks[i].doc))

Ordered(src, opened, tok, gone, tasks) ==
  Newest(src, tasks) /\ Rising(src, opened, tasks) /\ TokenFits(src, opened, tok)
  /\ DeadFits(tok, gone, tasks)

Superseded(tok, gone, tasks) == gone \union ({tok} \intersect {TokenOf(tasks[i]) : i \in 1 .. Len(tasks)})

Added(tasks, more, task) ==
  /\ more \in Seq(Tasks) /\ more # <<>> /\ Len(more) = Len(tasks) + 1
  /\ \A i \in 1 .. Len(tasks) : more[i] = tasks[i]
  /\ more[Len(tasks) + 1] = task

Ended(tasks, fewer) ==
  /\ fewer \in Seq(Tasks) /\ Len(fewer) = Len(tasks) - 1 /\ (fewer = <<>> <=> Len(tasks) = 1)
  /\ \A i \in 1 .. Len(fewer) : fewer[i] = tasks[i + 1]

(* Whoever has been superseded is dead, the token that was replaced with it. *)
LEMMA SupersededAll ==
  ASSUME NEW src, NEW opened, NEW tok, NEW gone, NEW tasks \in Seq(Tasks),
         Ordered(src, opened, tok, gone, tasks), src # Closed
  PROVE  LET now == Superseded(tok, gone, tasks)
         IN  /\ \A i \in 1 .. Len(tasks) : IsTask(tasks[i]) => DocToken(tasks[i].doc) \in now
             /\ \A t \in now : \E i \in 1 .. Len(tasks) : IsTask(tasks[i]) /\ t = DocToken(tasks[i].doc)
             /\ gone \subseteq now
<1> DEFINE now == Superseded(tok, gone, tasks)
<1>1. \A i \in 1 .. Len(tasks) : TokenOf(tasks[i]) = IF IsTask(tasks[i]) THEN DocToken(tasks[i].doc) ELSE NoToken
  BY FirstTask, TaskTokens
<1>2. tok # NoToken
  BY TokensAreDistinct DEF Ordered, TokenFits
<1>3. ASSUME NEW i \in 1 .. Len(tasks), IsTask(tasks[i])
      PROVE  DocToken(tasks[i].doc) \in now
  <2>1. CASE DocToken(tasks[i].doc) \in gone
    BY <2>1 DEF Superseded
  <2>2. CASE tok = DocToken(tasks[i].doc)
    BY <2>2, <1>1, <1>3 DEF Superseded
  <2>3. QED
    BY <2>1, <2>2, <1>3 DEF Ordered, DeadFits
<1>4. ASSUME NEW t \in now
      PROVE  \E i \in 1 .. Len(tasks) : IsTask(tasks[i]) /\ t = DocToken(tasks[i].doc)
  <2>1. CASE t \in gone
    BY <2>1 DEF Ordered, DeadFits
  <2>2. CASE t = tok /\ \E i \in 1 .. Len(tasks) : t = TokenOf(tasks[i])
    BY <2>2, <1>1, <1>2
  <2>3. QED
    BY <2>1, <2>2, <1>4 DEF Superseded
<1>5. gone \subseteq now
  BY DEF Superseded
<1>6. QED
  BY <1>3, <1>4, <1>5

(* A snapshot that is newer than all before it *)
LEMMA OrderedNewer ==
  ASSUME NEW src, NEW opened, NEW gone, NEW tasks \in Seq(Tasks), NEW before, NEW doc \in Doc, NEW kind,
         kind \in {"didOpen", "didChange"}, NEW more, Added(tasks, more, [kind |-> kind, doc |-> doc]),
         \A i \in 1 .. Len(tasks) : IsTask(tasks[i]) =>
           /\ tasks[i].doc \in Doc /\ tasks[i].doc # doc /\ tasks[i].doc.session <= doc.session
           /\ tasks[i].doc.session = doc.session => tasks[i].doc.version <= doc.version,
         \A i, j \in 1 .. Len(tasks) :
           IsTask(tasks[i]) /\ IsTask(tasks[j]) /\ tasks[i].doc = tasks[j].doc => i = j,
         \A t \in gone : \E i \in 1 .. Len(tasks) : IsTask(tasks[i]) /\ t = DocToken(tasks[i].doc),
         \A i \in 1 .. Len(tasks) : IsTask(tasks[i]) => DocToken(tasks[i].doc) \in gone
  PROVE  Ordered(doc, doc.session, DocToken(doc), gone, more)
<1> DEFINE task == [kind |-> kind, doc |-> doc]
<1>1. IsTask(task) /\ task.doc = doc
  BY DEF IsTask
<1>2. more[Len(tasks) + 1] = task /\ Len(more) = Len(tasks) + 1 /\ more # <<>>
      /\ \A i \in 1 .. Len(tasks) : more[i] = tasks[i]
  BY DEF Added
<1> HIDE DEF task
<1>3. Len(tasks) \in Nat
  BY FirstTask
<1>4. \A i \in 1 .. Len(more) : i = Len(tasks) + 1 \/ i \in 1 .. Len(tasks)
  BY <1>2, <1>3
<1>5. doc # Closed /\ doc.session \in Nat /\ doc.version \in Nat
  BY DocsAreDistinct DEF Doc
<1>6. Newest(doc, more)
  BY <1>1, <1>2, <1>5 DEF Newest
<1>7. Rising(doc, doc.session, more)
  <2>1. ASSUME NEW i \in 1 .. Len(more), IsTask(more[i])
        PROVE  /\ more[i].doc \in Doc /\ more[i].doc.session <= doc.session
               /\ more[i].doc.session = doc.session => more[i].doc.version <= doc.version
    BY <2>1, <1>1, <1>2, <1>4, <1>5
  <2>2. ASSUME NEW i \in 1 .. Len(more), NEW j \in 1 .. Len(more), IsTask(more[i]), IsTask(more[j]),
               more[i].doc = more[j].doc
        PROVE  i = j
    BY <2>2, <1>1, <1>2, <1>4
  <2>3. QED
    BY <2>1, <2>2 DEF Rising
<1>8. TokenFits(doc, doc.session, DocToken(doc))
  BY <1>5 DEF TokenFits
<1>9. DeadFits(DocToken(doc), gone, more)
  <2>1. ASSUME NEW t \in gone
        PROVE  \E i \in 1 .. Len(more) : IsTask(more[i]) /\ t = DocToken(more[i].doc)
    <3>1. PICK i \in 1 .. Len(tasks) : IsTask(tasks[i]) /\ t = DocToken(tasks[i].doc)
      OBVIOUS
    <3>2. i \in 1 .. Len(more) /\ more[i] = tasks[i]
      BY <1>2, <1>3
    <3>3. QED
      BY <3>1, <3>2
  <2>2. DocToken(doc) \notin gone
    BY TokensAreDistinct
  <2>3. ASSUME NEW i \in 1 .. Len(more), IsTask(more[i])
        PROVE  DocToken(more[i].doc) \in gone \/ (i = Len(more) /\ DocToken(doc) = DocToken(more[i].doc))
    BY <2>3, <1>1, <1>2, <1>4
  <2>4. QED
    BY <2>1, <2>2, <2>3 DEF DeadFits
<1>10. QED
  BY <1>6, <1>7, <1>8, <1>9 DEF Ordered

LEMMA OrderedOpen ==
  ASSUME NEW opened \in Nat, NEW tok, NEW gone, NEW tasks \in Seq(Tasks),
         Ordered(Closed, opened, tok, gone, tasks),
         NEW doc \in Doc, doc.session = opened + 1, doc.version = 1,
         NEW more, Added(tasks, more, [kind |-> "didOpen", doc |-> doc])
  PROVE  Ordered(doc, opened + 1, DocToken(doc), gone, more)
<1>1. tok = NoToken
  BY DEF Ordered, TokenFits
<1>2. \A i \in 1 .. Len(tasks) : IsTask(tasks[i]) => DocToken(tasks[i].doc) \in gone
  BY <1>1, TokensAreDistinct DEF Ordered, DeadFits
<1>3. ASSUME NEW i \in 1 .. Len(tasks), IsTask(tasks[i])
      PROVE  /\ tasks[i].doc \in Doc /\ tasks[i].doc # doc /\ tasks[i].doc.session <= doc.session
             /\ tasks[i].doc.session = doc.session => tasks[i].doc.version <= doc.version
  <2>1. tasks[i].doc \in Doc /\ tasks[i].doc.session <= opened
    BY <1>3 DEF Ordered, Rising
  <2>2. tasks[i].doc.session \in Nat
    BY <2>1 DEF Doc
  <2>3. tasks[i].doc.session < doc.session
    BY <2>1, <2>2
  <2>4. QED
    BY <2>1, <2>2, <2>3
<1>4. /\ \A i, j \in 1 .. Len(tasks) :
           IsTask(tasks[i]) /\ IsTask(tasks[j]) /\ tasks[i].doc = tasks[j].doc => i = j
      /\ \A t \in gone : \E i \in 1 .. Len(tasks) : IsTask(tasks[i]) /\ t = DocToken(tasks[i].doc)
  BY DEF Ordered, Rising, DeadFits
<1>5. Ordered(doc, doc.session, DocToken(doc), gone, more)
  BY <1>2, <1>3, <1>4, OrderedNewer
<1>6. QED
  BY <1>5

LEMMA OrderedChange ==
  ASSUME NEW src \in Doc, NEW opened \in Nat, NEW tok, NEW gone, NEW tasks \in Seq(Tasks),
         Ordered(src, opened, tok, gone, tasks),
         NEW doc \in Doc, doc.session = src.session, doc.version = src.version + 1,
         NEW more, Added(tasks, more, [kind |-> "didChange", doc |-> doc])
  PROVE  Ordered(doc, opened, DocToken(doc), Superseded(tok, gone, tasks), more)
<1> DEFINE now == Superseded(tok, gone, tasks)
<1>1. src # Closed
  BY DocsAreDistinct
<1>2. /\ \A i \in 1 .. Len(tasks) : IsTask(tasks[i]) => DocToken(tasks[i].doc) \in now
      /\ \A t \in now : \E i \in 1 .. Len(tasks) : IsTask(tasks[i]) /\ t = DocToken(tasks[i].doc)
  BY <1>1, SupersededAll
<1> HIDE DEF now
<1>3. doc.session = opened /\ src.version \in Nat
  BY <1>1 DEF Ordered, TokenFits, Doc
<1>4. ASSUME NEW i \in 1 .. Len(tasks), IsTask(tasks[i])
      PROVE  /\ tasks[i].doc \in Doc /\ tasks[i].doc # doc /\ tasks[i].doc.session <= doc.session
             /\ tasks[i].doc.session = doc.session => tasks[i].doc.version <= doc.version
  <2>1. /\ tasks[i].doc \in Doc /\ tasks[i].doc.session <= opened
        /\ tasks[i].doc.session = opened => tasks[i].doc.version <= src.version
    BY <1>4, <1>1 DEF Ordered, Rising
  <2>2. tasks[i].doc.version \in Nat
    BY <2>1 DEF Doc
  <2>3. QED
    BY <2>1, <2>2, <1>3
<1>5. \A i, j \in 1 .. Len(tasks) :
        IsTask(tasks[i]) /\ IsTask(tasks[j]) /\ tasks[i].doc = tasks[j].doc => i = j
  BY DEF Ordered, Rising
<1>6. Ordered(doc, doc.session, DocToken(doc), now, more)
  BY <1>2, <1>4, <1>5, OrderedNewer
<1>7. QED
  BY <1>3, <1>6 DEF now

LEMMA OrderedClose ==
  ASSUME NEW src \in Doc, NEW opened \in Nat, NEW tok, NEW gone, NEW tasks \in Seq(Tasks),
         Ordered(src, opened, tok, gone, tasks),
         NEW more, Added(tasks, more, [kind |-> "didClose", doc |-> Disk])
  PROVE  Ordered(Closed, opened, NoToken, Superseded(tok, gone, tasks), more)
<1> DEFINE task == [kind |-> "didClose", doc |-> Disk]
           now == Superseded(tok, gone, tasks)
<1>1. src # Closed
  BY DocsAreDistinct
<1>2. /\ \A i \in 1 .. Len(tasks) : IsTask(tasks[i]) => DocToken(tasks[i].doc) \in now
      /\ \A t \in now : \E i \in 1 .. Len(tasks) : IsTask(tasks[i]) /\ t = DocToken(tasks[i].doc)
  BY <1>1, SupersededAll
<1>3. ~ IsTask(task)
  BY DEF IsTask
<1>4. /\ more[Len(tasks) + 1] = task /\ Len(more) = Len(tasks) + 1 /\ more # <<>>
      /\ \A i \in 1 .. Len(tasks) : more[i] = tasks[i]
  BY DEF Added
<1>5. Len(tasks) \in Nat
  BY FirstTask
<1> HIDE DEF task, now
<1>6. \A i \in 1 .. Len(more) : IsTask(more[i]) => i \in 1 .. Len(tasks) /\ more[i] = tasks[i]
  BY <1>3, <1>4, <1>5
<1>7. Newest(Closed, more)
  BY <1>3, <1>4 DEF Newest
<1>8. Rising(Closed, opened, more)
  BY <1>6 DEF Ordered, Rising
<1>9. TokenFits(Closed, opened, NoToken)
  BY DEF TokenFits
<1>10. DeadFits(NoToken, now, more)
  <2>1. ASSUME NEW t \in now
        PROVE  \E i \in 1 .. Len(more) : IsTask(more[i]) /\ t = DocToken(more[i].doc)
    <3>1. PICK i \in 1 .. Len(tasks) : IsTask(tasks[i]) /\ t = DocToken(tasks[i].doc)
      BY <1>2
    <3>2. i \in 1 .. Len(more) /\ more[i] = tasks[i]
      BY <1>4, <1>5
    <3>3. QED
      BY <3>1, <3>2
  <2>2. NoToken \notin now
    BY <1>2, TokensAreDistinct
  <2>3. QED
    BY <2>1, <2>2, <1>2, <1>6 DEF DeadFits
<1>11. QED
  BY <1>7, <1>8, <1>9, <1>10 DEF Ordered, now

LEMMA OrderedFinish ==
  ASSUME NEW src, NEW opened, NEW tok, NEW gone, NEW tasks \in Seq(Tasks), tasks # <<>>,
         Ordered(src, opened, tok, gone, tasks), NEW fewer, Ended(tasks, fewer)
  PROVE  Ordered(src, opened, tok, gone \ {TokenOf(tasks[1])}, fewer)
<1> DEFINE now == gone \ {TokenOf(tasks[1])}
<1>1. /\ Len(tasks) \in Nat /\ Len(tasks) > 0 /\ tasks[1] \in Tasks /\ fewer \in Seq(Tasks)
      /\ Len(fewer) = Len(tasks) - 1 /\ (fewer = <<>> <=> Len(tasks) = 1)
      /\ \A i \in 1 .. Len(fewer) : fewer[i] = tasks[i + 1]
  BY FirstTask DEF Ended
<1>2. \A i \in 1 .. Len(fewer) : i + 1 \in 1 .. Len(tasks) /\ i + 1 # 1 /\ 1 \in 1 .. Len(tasks)
  BY <1>1
<1>3. TokenOf(tasks[1]) = IF IsTask(tasks[1]) THEN DocToken(tasks[1].doc) ELSE NoToken
  BY <1>1, TaskTokens
<1>4. Newest(src, fewer)
  <2>1. fewer # <<>> => Len(fewer) \in 1 .. Len(fewer) /\ fewer[Len(fewer)] = tasks[Len(tasks)]
    BY <1>1
  <2>2. QED
    BY <2>1 DEF Ordered, Newest
<1>5. Rising(src, opened, fewer)
  <2>1. ASSUME NEW i \in 1 .. Len(fewer), IsTask(fewer[i])
        PROVE  /\ fewer[i].doc \in Doc /\ fewer[i].doc.session <= opened
               /\ src # Closed /\ fewer[i].doc.session = opened => fewer[i].doc.version <= src.version
    BY <2>1, <1>1, <1>2 DEF Ordered, Rising
  <2>2. ASSUME NEW i \in 1 .. Len(fewer), NEW j \in 1 .. Len(fewer), IsTask(fewer[i]), IsTask(fewer[j]),
               fewer[i].doc = fewer[j].doc
        PROVE  i = j
    <3>1. i + 1 = j + 1
      BY <2>2, <1>1, <1>2 DEF Ordered, Rising
    <3>2. QED
      BY <3>1
  <2>3. QED
    BY <2>1, <2>2 DEF Rising
<1>6. TokenFits(src, opened, tok)
  BY DEF Ordered
<1>7. DeadFits(tok, now, fewer)
  <2>1. ASSUME NEW t \in now
        PROVE  \E i \in 1 .. Len(fewer) : IsTask(fewer[i]) /\ t = DocToken(fewer[i].doc)
    <3>1. PICK i \in 1 .. Len(tasks) : IsTask(tasks[i]) /\ t = DocToken(tasks[i].doc)
      BY DEF Ordered, DeadFits
    <3>2. i # 1
      BY <3>1, <1>3
    <3>3. i - 1 \in 1 .. Len(fewer) /\ fewer[i - 1] = tasks[i]
      BY <3>2, <1>1
    <3>4. QED
      BY <3>1, <3>3
  <2>2. tok \notin now
    BY DEF Ordered, DeadFits
  <2>3. ASSUME NEW i \in 1 .. Len(fewer), IsTask(fewer[i])
        PROVE  DocToken(fewer[i].doc) \in now \/ (i = Len(fewer) /\ tok = DocToken(fewer[i].doc))
    <3>1. i + 1 \in 1 .. Len(tasks) /\ fewer[i] = tasks[i + 1] /\ (i + 1 = Len(tasks) <=> i = Len(fewer))
      BY <1>1, <1>2
    <3>2. DocToken(fewer[i].doc) \in gone \/ (i = Len(fewer) /\ tok = DocToken(fewer[i].doc))
      BY <3>1, <2>3 DEF Ordered, DeadFits
    <3>3. DocToken(fewer[i].doc) # TokenOf(tasks[1])
      <4>1. IsTask(tasks[1]) => fewer[i].doc # tasks[1].doc
        BY <3>1, <2>3, <1>2 DEF Ordered, Rising
      <4>2. QED
        BY <4>1, <1>3, TokensAreDistinct
    <3>4. QED
      BY <3>2, <3>3
  <2>4. QED
    BY <2>1, <2>2, <2>3 DEF DeadFits
<1>8. QED
  BY <1>4, <1>5, <1>6, <1>7 DEF Ordered

LEMMA OrderedRefresh ==
  ASSUME NEW src, src # Closed, NEW opened, NEW tok, NEW gone, NEW tasks \in Seq(Tasks),
         Ordered(src, opened, tok, gone, tasks)
  PROVE  Ordered(src, opened, RefreshToken, Superseded(tok, gone, tasks), tasks)
<1> DEFINE now == Superseded(tok, gone, tasks)
<1>1. /\ \A i \in 1 .. Len(tasks) : IsTask(tasks[i]) => DocToken(tasks[i].doc) \in now
      /\ \A t \in now : \E i \in 1 .. Len(tasks) : IsTask(tasks[i]) /\ t = DocToken(tasks[i].doc)
  BY SupersededAll
<1> HIDE DEF now
<1>2. RefreshToken \notin now
  BY <1>1, TokensAreDistinct
<1>3. DeadFits(RefreshToken, now, tasks)
  BY <1>1, <1>2 DEF DeadFits
<1>4. TokenFits(src, opened, RefreshToken)
  BY DEF Ordered, TokenFits
<1>5. QED
  BY <1>3, <1>4 DEF Ordered, now

-------------------------------------------------------------------------------
(***************************************************************************)
(* The inductive invariant                                                 *)
(***************************************************************************)

\* While a refresh runs, the editor opens documents and does nothing else; it asks for none
\* before every close is dealt with.
Considerate == \A e \in Editors : e.during \subseteq {"didOpen"} /\ "didClose" \notin e.before

\* The start is the first thing the workspace does, and a start that failed is mended by a refresh.
StartInv ==
  /\ completed = 0 => phase \in {"preloading", "loading"}
  /\ phase \in {"analysing", "publishing", "loading"} <=> at # {}
  /\ startFailed => completed > 0 /\ (completed = 1 /\ pending = 0 => broken)

\* Of one document from here on.
OrderInv(u) == Ordered(source[u], session[u], token[u], dead[u], queue[u])

\* Nobody waits for a workspace that is ready already when a refresh begins.
ReadyInv(u) ==
  step[u].pc = "waiting" =>
    /\ step[u].ready >= completed /\ step[u].ready <= pending + completed /\ step[u].ready > 0
    /\ phase # "idle" => step[u].ready > completed

\* No document has been touched before the start is over, nor after it failed.
UntouchedInv(u) ==
  completed = 0 \/ (startFailed /\ completed = 1 /\ phase = "idle") =>
    step[u].pc \in {"idle", "waiting"} /\ documents[u] = Closed

\* A close and a refresh of the open documents do not meet.
CloseInv(u) ==
  Refreshing \/ token[u] = RefreshToken => \A i \in 1 .. Len(queue[u]) : IsTask(queue[u][i])

\* Once the refresh has come by, what the document had in hand is cancelled.
Passed(u) ==
  \/ phase \in {"resetting", "preloading", "loading"}
  \/ phase \in {"refreshing", "analysing", "publishing"} /\ u \in visited

InHandIsDead(u) == TokenOf(queue[u][1]) \in dead[u]

PassedInv(u) == Passed(u) /\ step[u].pc \in {"debouncing", "analysing"} => InHandIsDead(u)

\* What the refresh works on
RefreshInv(u) ==
  at = {u} =>
    /\ phase \in {"analysing", "publishing"} => u \in visited /\ source[u] # Closed
    /\ phase = "analysing" => token[u] = RefreshToken /\ (held # Closed => overlay[u] # Closed)
    /\ phase = "publishing" => held = documents[u]

\* Who goes on from a state that was sent finds it still open.
BaseInv(u) ==
  step[u].pc = "analysing" /\ IsTask(queue[u][1]) /\ ~ InHandIsDead(u) /\ step[u].state # Closed =>
    overlay[u] # Closed

\* A close has taken the document from the table, and not yet from upstream.
Leaving(u) == step[u].pc = "analysing" /\ ~ IsTask(queue[u][1]) /\ step[u].state # Closed

\* What upstream ought to have open: the document, or the file as it is on disk.
Expected(u) ==
  IF Leaving(u) THEN step[u].state
  ELSE IF phase = "resetting" /\ u \in visited /\ documents[u] = Closed THEN Closed
  ELSE IF documents[u] # Closed THEN documents[u] ELSE virtualDocuments[u]

OverlayInv(u) ==
  /\ virtualDocuments[u] # Closed => u \in Queried
  /\ step[u].pc \in {"analysing", "publishing"} /\ ~ IsTask(queue[u][1]) => documents[u] = Closed
  /\ overlay[u] = Expected(u)

\* After a preload every file with queries is known.
KnownInv(u) ==
  u \in Queried =>
    /\ pending = 0 /\ ~ broken => Known(u) \/ Leaving(u)
    /\ phase \in {"preloading", "loading"} /\ u \in visited /\ u \notin at => Known(u)

\* A refresh is still to analyse the document.
WillRefresh(u) ==
  \/ pending > 0 /\ phase = "idle"
  \/ pending > 1
  \/ phase \in {"refreshing", "analysing", "publishing"} /\ u \notin visited
  \/ phase = "analysing" /\ at = {u}

\* A task for the newest snapshot is still to analyse it.
Coming(u) ==
  /\ queue[u] # <<>> /\ token[u] = DocToken(source[u])
  /\ Len(queue[u]) = 1 => step[u].pc # "publishing"

Analysis(u) ==
  documents[u] # Closed /\ documents[u].doc = source[u] /\ documents[u].generation = generation

CurrentInv(u) == source[u] # Closed => broken \/ WillRefresh(u) \/ Coming(u) \/ Analysis(u)

\* What is left of a closed document is taken away by a task that has not begun.
GoneInv(u) ==
  source[u] = Closed =>
    documents[u] = Closed \/ (queue[u] # <<>> /\ (Len(queue[u]) = 1 => step[u].pc = "waiting"))

\* The diagnostics of the analysis are on their way.
Publishing(u) ==
  \/ step[u].pc = "publishing" /\ IsTask(queue[u][1]) /\ step[u].state = documents[u]
  \/ phase = "publishing" /\ at = {u}

ShownInv(u) ==
  IF source[u] # Closed
    THEN broken \/ WillRefresh(u) \/ Coming(u) \/ Publishing(u) \/ shown[u] = documents[u]
    ELSE startFailed \/ queue[u] # <<>> \/ shown[u] \in {Nothing, Raw}

QueueInv(u) == OrderInv(u) /\ ReadyInv(u) /\ UntouchedInv(u) /\ CloseInv(u) /\ PassedInv(u)
SentInv(u)  == RefreshInv(u) /\ BaseInv(u) /\ OverlayInv(u) /\ KnownInv(u)
RestInv(u)  == CurrentInv(u) /\ GoneInv(u) /\ ShownInv(u)
DocInv(u)   == QueueInv(u) /\ SentInv(u) /\ RestInv(u)

ServerInv == TypeInv /\ StartInv /\ \A u \in Uris : DocInv(u)

-------------------------------------------------------------------------------
(***************************************************************************)
(* What follows from it                                                    *)
(***************************************************************************)
LEMMA DocTypes ==
  ASSUME TypeInv, NEW u \in Uris
  PROVE  /\ queue[u] \in Seq(Tasks) /\ Len(queue[u]) \in Nat /\ (queue[u] # <<>> <=> Len(queue[u]) > 0)
         /\ step[u] \in Steps /\ step[u].ready \in Nat /\ step[u].state \in States \union {Closed}
         /\ (step[u].pc = "idle" <=> queue[u] = <<>>)
         /\ source[u] \in Doc \union {Closed} /\ session[u] \in Nat
         /\ documents[u] \in States \union {Closed} /\ virtualDocuments[u] \in States \union {Closed}
         /\ overlay[u] \in States \union {Closed} /\ native[u] \in States \union {Closed}
         /\ \A i \in 1 .. Len(queue[u]) : queue[u][i] \in Tasks
<1>1. queue[u] \in Seq(Tasks) /\ step[u] \in Steps /\ (step[u].pc = "idle" <=> queue[u] = <<>>)
  BY DEF TypeInv, TaskType
<1>2. /\ Len(queue[u]) \in Nat /\ (queue[u] # <<>> <=> Len(queue[u]) > 0)
      /\ \A i \in 1 .. Len(queue[u]) : queue[u][i] \in Tasks
  BY <1>1, FirstTask
<1>3. step[u].ready \in Nat /\ step[u].state \in States \union {Closed}
  BY <1>1 DEF Steps
<1>4. /\ source[u] \in Doc \union {Closed} /\ session[u] \in Nat
      /\ documents[u] \in States \union {Closed} /\ virtualDocuments[u] \in States \union {Closed}
      /\ overlay[u] \in States \union {Closed} /\ native[u] \in States \union {Closed}
  BY DEF TypeInv, NoticeType, StateType
<1>5. QED
  BY <1>1, <1>2, <1>3, <1>4

LEMMA AboveOne == \A n \in Nat : n > 0 => (n > 1 <=> n # 1)
OBVIOUS

LEMMA MoreThanOne ==
  ASSUME NEW tasks \in Seq(Tasks), tasks # <<>>
  PROVE  Len(tasks) > 1 <=> Len(tasks) # 1
<1>1. Len(tasks) \in Nat /\ Len(tasks) > 0
  BY FirstTask
<1>2. QED
  BY <1>1, AboveOne, Zenon

(* Only the task of the newest snapshot is alive. *)
LEMMA AliveIsNewest ==
  ASSUME TypeInv, NEW u \in Uris, OrderInv(u), queue[u] # <<>>, IsTask(queue[u][1]), ~ InHandIsDead(u)
  PROVE  /\ Len(queue[u]) = 1 /\ source[u] # Closed /\ queue[u][1].doc = source[u]
         /\ token[u] = DocToken(source[u])
<1>1. queue[u][1] \in Tasks /\ 1 \in 1 .. Len(queue[u])
  BY DocTypes
<1>2. TokenOf(queue[u][1]) = DocToken(queue[u][1].doc)
  BY <1>1, TaskTokens
<1>3. 1 = Len(queue[u]) /\ token[u] = DocToken(queue[u][1].doc)
  BY <1>1, <1>2 DEF OrderInv, Ordered, DeadFits, InHandIsDead
<1>4. source[u] # Closed /\ queue[u][1].doc = source[u]
  BY <1>3 DEF OrderInv, Ordered, Newest
<1>5. QED
  BY <1>3, <1>4

(* An open document whose first task is a close has a task for its snapshot behind it. *)
LEMMA CloseIsOld ==
  ASSUME TypeInv, NEW u \in Uris, OrderInv(u), CloseInv(u), queue[u] # <<>>, ~ IsTask(queue[u][1])
  PROVE  /\ ~ Refreshing
         /\ source[u] # Closed => Len(queue[u]) > 1 /\ token[u] = DocToken(source[u])
<1>1. 1 \in 1 .. Len(queue[u])
  BY DocTypes
<1>2. ~ Refreshing /\ token[u] # RefreshToken
  BY <1>1 DEF CloseInv
<1>3. source[u] # Closed => IsTask(queue[u][Len(queue[u])])
  BY DEF OrderInv, Ordered, Newest
<1>4. Len(queue[u]) = 1 => source[u] = Closed
  BY <1>3
<1>5. source[u] # Closed => token[u] = DocToken(source[u])
  BY <1>2 DEF OrderInv, Ordered, TokenFits
<1>6. source[u] # Closed => Len(queue[u]) > 1
  BY <1>4, DocTypes, MoreThanOne
<1>7. QED
  BY <1>2, <1>5, <1>6

(* A closed document whose first task is not the close has the close behind it. *)
LEMMA TaskIsOld ==
  ASSUME TypeInv, NEW u \in Uris, OrderInv(u), queue[u] # <<>>, IsTask(queue[u][1]), source[u] = Closed
  PROVE  Len(queue[u]) > 1 /\ Len(queue[u]) # 1
<1>1. ~ IsTask(queue[u][Len(queue[u])])
  BY DEF OrderInv, Ordered, Newest
<1>2. Len(queue[u]) # 1
  BY <1>1
<1>3. QED
  BY <1>2, DocTypes, MoreThanOne

(* A closed document has nothing to do while a refresh runs. *)
LEMMA ClosedIsIdle ==
  ASSUME TypeInv, NEW u \in Uris, OrderInv(u), CloseInv(u), Refreshing, source[u] = Closed
  PROVE  queue[u] = <<>> /\ step[u].pc = "idle"
<1>1. queue[u] # <<>> => ~ IsTask(queue[u][Len(queue[u])]) /\ Len(queue[u]) \in 1 .. Len(queue[u])
  BY DocTypes DEF OrderInv, Ordered, Newest
<1>2. queue[u] = <<>>
  BY <1>1 DEF CloseInv
<1>3. QED
  BY <1>2, DocTypes

(* The refresh is never dead: nobody supersedes it. *)
LEMMA RefreshIsAlive ==
  ASSUME TypeInv, NEW u \in Uris, OrderInv(u)
  PROVE  RefreshToken \notin dead[u]
BY TokensAreDistinct DEF OrderInv, Ordered, DeadFits

(* What goes on after it waited finds the workspace at rest, and is refused if the start failed. *)
LEMMA ReadyIsIdle ==
  ASSUME TypeInv, StartInv, NEW u \in Uris, ReadyInv(u), WorkspaceIsReady(u)
  PROVE  /\ phase = "idle" /\ completed > 0 /\ step[u].ready = completed
         /\ ~ Refused(u) => ~ (startFailed /\ completed = 1)
         /\ Refused(u) => startFailed /\ completed = 1 /\ (broken \/ pending > 0)
<1>1. step[u].pc = "waiting" /\ completed >= step[u].ready /\ step[u].ready \in Nat
  BY DocTypes DEF WorkspaceIsReady
<1>2. pending \in Nat /\ completed \in Nat
  BY DEF TypeInv, WorkspaceType
<1>3. step[u].ready >= completed /\ step[u].ready > 0 /\ phase = "idle"
  BY <1>1, <1>2 DEF ReadyInv
<1>4. completed > 0 /\ step[u].ready = completed
  BY <1>1, <1>2, <1>3
<1>5. ~ Refused(u) => ~ (startFailed /\ completed = 1)
  BY <1>4 DEF Refused
<1>6. Refused(u) => startFailed /\ completed = 1 /\ (broken \/ pending > 0)
  <2>1. Refused(u) => startFailed /\ completed = 1
    BY <1>4 DEF Refused
  <2>2. QED
    BY <2>1, <1>2 DEF StartInv
<1>7. QED
  BY <1>3, <1>4, <1>5, <1>6

(* The start aside, whoever works on the documents of the workspace refreshes. *)
LEMMA LoopRefreshes ==
  ASSUME TypeInv, StartInv
  PROVE  /\ phase \in {"refreshing", "analysing", "publishing", "resetting"} => Refreshing /\ completed > 0
         /\ phase # "idle" => Refreshing \/ completed = 0
<1>1. pending \in Nat /\ completed \in Nat /\ (phase # "idle" => pending > 0)
  BY DEF TypeInv, WorkspaceType
<1>2. QED
  BY <1>1 DEF StartInv, Refreshing, Starts

-------------------------------------------------------------------------------
(***************************************************************************)
(* What a step leaves alone                                                *)
(***************************************************************************)
SameWork ==
  /\ phase' = phase /\ visited' = visited /\ at' = at /\ held' = held
  /\ pending' = pending /\ completed' = completed /\ startFailed' = startFailed
  /\ generation' = generation /\ broken' = broken

SameTasks(v) ==
  /\ source'[v] = source[v] /\ session'[v] = session[v] /\ token'[v] = token[v] /\ dead'[v] = dead[v]
  /\ queue'[v] = queue[v] /\ step'[v] = step[v]

SameSent(v) ==
  /\ documents'[v] = documents[v] /\ virtualDocuments'[v] = virtualDocuments[v] /\ overlay'[v] = overlay[v]

LEMMA SameQueueInv ==
  ASSUME NEW v \in Uris, QueueInv(v), SameWork, SameTasks(v), documents'[v] = documents[v]
  PROVE  QueueInv(v)'
<1>1. OrderInv(v)'
  BY DEF QueueInv, OrderInv, SameTasks
<1>2. ReadyInv(v)'
  BY DEF QueueInv, ReadyInv, SameTasks, SameWork
<1>3. UntouchedInv(v)'
  BY DEF QueueInv, UntouchedInv, SameTasks, SameWork
<1>4. CloseInv(v)'
  BY DEF QueueInv, CloseInv, SameTasks, SameWork, Refreshing, Starts
<1>5. PassedInv(v)'
  BY DEF QueueInv, PassedInv, Passed, InHandIsDead, SameTasks, SameWork
<1>6. QED
  BY <1>1, <1>2, <1>3, <1>4, <1>5 DEF QueueInv

LEMMA SameSentInv ==
  ASSUME NEW v \in Uris, SentInv(v), SameWork, SameTasks(v), SameSent(v)
  PROVE  SentInv(v)'
<1>1. RefreshInv(v)'
  BY DEF SentInv, RefreshInv, SameTasks, SameSent, SameWork
<1>2. BaseInv(v)'
  BY DEF SentInv, BaseInv, InHandIsDead, SameTasks, SameSent
<1>3. OverlayInv(v)'
  BY DEF SentInv, OverlayInv, Expected, Leaving, SameTasks, SameSent, SameWork
<1>4. KnownInv(v)'
  BY DEF SentInv, KnownInv, Known, Leaving, SameTasks, SameSent, SameWork
<1>5. QED
  BY <1>1, <1>2, <1>3, <1>4 DEF SentInv

LEMMA SameRestInv ==
  ASSUME NEW v \in Uris, RestInv(v), SameWork, SameTasks(v), SameSent(v), shown'[v] = shown[v]
  PROVE  RestInv(v)'
<1>1. CurrentInv(v)'
  BY DEF RestInv, CurrentInv, WillRefresh, Coming, Analysis, SameTasks, SameSent, SameWork
<1>2. GoneInv(v)'
  BY DEF RestInv, GoneInv, SameTasks, SameSent
<1>3. ShownInv(v)'
  BY DEF RestInv, ShownInv, WillRefresh, Coming, Publishing, SameTasks, SameSent, SameWork
<1>4. QED
  BY <1>1, <1>2, <1>3 DEF RestInv

(* Steps of one document leave the others alone. *)
LEMMA OthersKeep ==
  ASSUME NEW u \in Uris, \A v \in Uris : DocInv(v), SameWork,
         \A v \in Uris : v # u => SameTasks(v) /\ SameSent(v) /\ shown'[v] = shown[v],
         StartInv, DocInv(u)'
  PROVE  StartInv' /\ \A v \in Uris : DocInv(v)'
<1>1. StartInv'
  BY DEF StartInv, SameWork
<1>2. ASSUME NEW v \in Uris, v # u
      PROVE  DocInv(v)'
  <2>1. SameTasks(v) /\ SameSent(v) /\ shown'[v] = shown[v] /\ documents'[v] = documents[v]
    BY <1>2 DEF SameSent
  <2>2. QueueInv(v) /\ SentInv(v) /\ RestInv(v)
    BY DEF DocInv
  <2>3. QueueInv(v)' /\ SentInv(v)' /\ RestInv(v)'
    BY <2>1, <2>2, SameQueueInv, SameSentInv, SameRestInv
  <2>4. QED
    BY <2>3 DEF DocInv
<1>3. QED
  BY <1>1, <1>2

-------------------------------------------------------------------------------
(***************************************************************************)
(* The tasks                                                               *)
(***************************************************************************)

\* What a task leaves alone
LEMMA TaskFrame ==
  ASSUME Elsewhere
  PROVE  SameWork /\ token' = token /\ source' = source /\ session' = session /\ native' = native
BY DEF Elsewhere, SameWork, workspaceVars, projectVars, editorVars

LEMMA TaskOthers ==
  ASSUME TypeInv, NEW u \in Uris, Elsewhere, queue[u] # <<>>,
         Finish(u) \/ \E pc, state : Proceed(u, pc, state),
         NEW v \in Uris, v # u
  PROVE  SameTasks(v)
<1>1. token' = token /\ source' = source /\ session' = session
  BY TaskFrame
<1>2. CASE Finish(u)
  BY <1>1, <1>2, FinishStep DEF TypeInv, TokenType, WorkspaceType, SameTasks
<1>3. CASE \E pc, state : Proceed(u, pc, state)
  <2>1. PICK pc, state : Proceed(u, pc, state)
    BY <1>3
  <2>2. step'[v] = step[v] /\ queue' = queue /\ dead' = dead
    BY <2>1, ProceedStep DEF TypeInv
  <2>3. QED
    BY <1>1, <2>2 DEF SameTasks
<1>4. QED
  BY <1>2, <1>3

(* A task ends: the next one waits for the workspace as it now is. *)
LEMMA FinishQueue ==
  ASSUME TypeInv, StartInv, NEW u \in Uris, QueueInv(u), Elsewhere, queue[u] # <<>>, Finish(u),
         documents'[u] = documents[u]
  PROVE  QueueInv(u)'
<1>1. SameWork /\ token' = token /\ source' = source /\ session' = session
  BY TaskFrame
<1>2. /\ queue'[u] \in Seq(Tasks) /\ Len(queue'[u]) = Len(queue[u]) - 1
      /\ queue'[u] = <<>> <=> Len(queue[u]) = 1
      /\ \A i \in 1 .. Len(queue'[u]) : queue'[u][i] = queue[u][i + 1]
      /\ dead'[u] = dead[u] \ {TokenOf(queue[u][1])}
      /\ queue'[u] = <<>> => step'[u] = Idle
      /\ queue'[u] # <<>> => step'[u] = [pc |-> "waiting", ready |-> pending + completed, state |-> Closed]
  BY FinishStep DEF TypeInv, TokenType, WorkspaceType
<1>3. queue[u] \in Seq(Tasks) /\ Len(queue[u]) \in Nat
  BY DocTypes
<1>4. OrderInv(u)'
  <2>1. Ended(queue[u], queue'[u])
    BY <1>2 DEF Ended
  <2>2. Ordered(source[u], session[u], token[u], dead[u] \ {TokenOf(queue[u][1])}, queue'[u])
    BY <1>3, <2>1, OrderedFinish DEF QueueInv, OrderInv
  <2>3. QED
    BY <1>1, <1>2, <2>2 DEF OrderInv
<1>5. /\ pending \in Nat /\ completed \in Nat /\ (phase # "idle" => pending > 0)
      /\ (completed = 0 => phase # "idle")
  BY DEF TypeInv, WorkspaceType, StartInv
<1>6. step'[u].pc \in {"idle", "waiting"} /\ (step'[u].pc = "waiting" => step'[u].ready = pending + completed)
  BY <1>2 DEF Idle
<1>7. ReadyInv(u)'
  BY <1>1, <1>5, <1>6 DEF ReadyInv, SameWork
<1>8. UntouchedInv(u)'
  BY <1>1, <1>6 DEF QueueInv, UntouchedInv, SameWork
<1>9. CloseInv(u)'
  <2>1. \A i \in 1 .. Len(queue'[u]) : i + 1 \in 1 .. Len(queue[u])
    BY <1>2, <1>3
  <2>2. QED
    BY <1>1, <1>2, <2>1 DEF QueueInv, CloseInv, SameWork, Refreshing, Starts
<1>10. PassedInv(u)'
  BY <1>6 DEF PassedInv
<1>11. QED
  BY <1>4, <1>7, <1>8, <1>9, <1>10 DEF QueueInv

LEMMA FinishSent ==
  ASSUME TypeInv, NEW u \in Uris, SentInv(u), Elsewhere, queue[u] # <<>>, Finish(u), SameSent(u),
         ~ (step[u].pc = "analysing" /\ ~ IsTask(queue[u][1]))
  PROVE  SentInv(u)'
<1>1. SameWork /\ token' = token /\ source' = source
  BY TaskFrame
<1>2. step'[u].pc \in {"idle", "waiting"}
  BY FinishStep DEF TypeInv, TokenType, WorkspaceType, Idle
<1>3. ~ Leaving(u) /\ ~ Leaving(u)'
  BY <1>2 DEF Leaving
<1>4. RefreshInv(u)'
  BY <1>1 DEF SentInv, RefreshInv, SameWork, SameSent
<1>5. BaseInv(u)'
  BY <1>2 DEF BaseInv
<1>6. Expected(u)' = Expected(u)
  BY <1>1, <1>3 DEF Expected, SameWork, SameSent
<1>7. OverlayInv(u)'
  BY <1>2, <1>6 DEF SentInv, OverlayInv, SameSent
<1>8. KnownInv(u)'
  BY <1>1, <1>3 DEF SentInv, KnownInv, Known, SameWork, SameSent
<1>9. QED
  BY <1>4, <1>5, <1>7, <1>8 DEF SentInv

(* It leaves nothing undone if the last task of an open document leaves it current, and
   the last task of a closed one leaves it gone. *)
LEMMA FinishRest ==
  ASSUME TypeInv, NEW u \in Uris, RestInv(u), Elsewhere, queue[u] # <<>>, Finish(u), SameSent(u),
         source[u] # Closed /\ Len(queue[u]) = 1 /\ Coming(u) => broken \/ WillRefresh(u),
         source[u] = Closed /\ Len(queue[u]) = 1 =>
           documents[u] = Closed /\ (startFailed \/ shown'[u] \in {Nothing, Raw}),
         source[u] # Closed =>
           broken \/ WillRefresh(u) \/ Coming(u) \/ (phase = "publishing" /\ at = {u}) \/ shown'[u] = documents[u]
  PROVE  RestInv(u)'
<1>1. SameWork /\ token' = token /\ source' = source
  BY TaskFrame
<1>2. /\ queue'[u] = <<>> <=> Len(queue[u]) = 1
      /\ queue'[u] # <<>> => step'[u].pc = "waiting"
  BY FinishStep DEF TypeInv, TokenType, WorkspaceType
<1>3. Coming(u)' <=> queue'[u] # <<>> /\ token[u] = DocToken(source[u])
  BY <1>1, <1>2 DEF Coming
<1>4. Coming(u) => broken \/ WillRefresh(u) \/ Coming(u)' \/ source[u] = Closed
  BY <1>2, <1>3 DEF Coming
<1>5. WillRefresh(u)' <=> WillRefresh(u)
  BY <1>1 DEF WillRefresh, SameWork
<1>6. Analysis(u)' <=> Analysis(u)
  BY <1>1 DEF Analysis, SameSent, SameWork
<1>7. CurrentInv(u)'
  BY <1>1, <1>4, <1>5, <1>6 DEF RestInv, CurrentInv, SameWork
<1>8. GoneInv(u)'
  BY <1>1, <1>2 DEF RestInv, GoneInv, SameSent
<1>9. ShownInv(u)'
  <2>1. CASE source[u] # Closed
    <3>1. \/ broken \/ WillRefresh(u) \/ Coming(u)' \/ (phase = "publishing" /\ at = {u})
          \/ shown'[u] = documents[u]
      BY <1>4, <2>1
    <3>2. QED
      BY <2>1, <3>1, <1>1, <1>5 DEF ShownInv, Publishing, SameWork, SameSent
  <2>2. CASE source[u] = Closed
    BY <2>2, <1>1, <1>2 DEF ShownInv, SameWork
  <2>3. QED
    BY <2>1, <2>2
<1>10. QED
  BY <1>7, <1>8, <1>9 DEF RestInv

LEMMA AbortKeeps ==
  ASSUME ServerInv, NEW u \in Uris, Abort(u)
  PROVE  DocInv(u)'
<1>1. TypeInv /\ StartInv /\ QueueInv(u) /\ SentInv(u) /\ RestInv(u)
  BY DEF ServerInv, DocInv
<1>2. Finish(u) /\ Elsewhere /\ SameSent(u) /\ shown'[u] = shown[u]
  BY DEF Abort, SameSent, documentVars, upstreamVars
<1>3. step[u].pc \in {"debouncing", "analysing"} /\ IsTask(queue[u][1])
  BY <1>1, AtIsAtWork DEF Abort, TypeInv, IsTask
<1>4. queue[u] # <<>> /\ Head(queue[u]) = queue[u][1] /\ queue[u][1] \in Tasks
  BY <1>1, <1>3, AtWork DEF TypeInv
<1>5. InHandIsDead(u)
  BY <1>4 DEF Abort, Cancelled, InHandIsDead
<1>6. source[u] # Closed /\ Len(queue[u]) = 1 => ~ Coming(u)
  <2>1. SUFFICES ASSUME source[u] # Closed, Len(queue[u]) = 1, Coming(u) PROVE FALSE
    OBVIOUS
  <2>2. queue[u][1].doc = source[u]
    BY <2>1, <1>1, <1>4 DEF QueueInv, OrderInv, Ordered, Newest
  <2>3. TokenOf(queue[u][1]) = token[u]
    BY <2>1, <2>2, <1>3, <1>4, TaskTokens DEF Coming
  <2>4. QED
    BY <2>3, <1>1, <1>5 DEF QueueInv, OrderInv, Ordered, DeadFits, InHandIsDead
<1>7. source[u] = Closed => Len(queue[u]) # 1
  BY <1>1, <1>3, <1>4, TaskIsOld DEF QueueInv
<1>8. source[u] # Closed =>
        broken \/ WillRefresh(u) \/ Coming(u) \/ (phase = "publishing" /\ at = {u}) \/ shown'[u] = documents[u]
  BY <1>1, <1>2, <1>3 DEF RestInv, ShownInv, Publishing
<1>9. documents'[u] = documents[u]
  BY <1>2 DEF SameSent
<1>10. QueueInv(u)'
  BY <1>1, <1>2, <1>4, <1>9, FinishQueue
<1>11. SentInv(u)'
  BY <1>1, <1>2, <1>3, <1>4, FinishSent
<1>12. RestInv(u)'
  BY <1>1, <1>2, <1>4, <1>6, <1>7, <1>8, FinishRest
<1>13. QED
  BY <1>10, <1>11, <1>12 DEF DocInv

LEMMA FailKeeps ==
  ASSUME ServerInv, NEW u \in Uris, Fail(u)
  PROVE  DocInv(u)'
<1>1. TypeInv /\ StartInv /\ QueueInv(u) /\ SentInv(u) /\ RestInv(u)
  BY DEF ServerInv, DocInv
<1>2. Finish(u) /\ Elsewhere /\ SameSent(u) /\ documents'[u] = documents[u]
  BY DEF Fail, SameSent, upstreamVars
<1>3. \/ broken /\ step[u].pc \in {"analysing", "publishing"} /\ IsTask(queue[u][1])
      \/ Refused(u) /\ step[u].pc = "waiting"
  BY <1>1, AtIsAtWork DEF Fail, TypeInv, IsTask, Refused, WorkspaceIsReady
<1>4. queue[u] # <<>>
  BY <1>1, <1>3, AtWork DEF TypeInv
<1>5. Refused(u) => /\ broken \/ WillRefresh(u)
                    /\ startFailed /\ documents[u] = Closed
  <2>1. SUFFICES ASSUME Refused(u) PROVE (broken \/ WillRefresh(u)) /\ startFailed /\ documents[u] = Closed
    OBVIOUS
  <2>2. phase = "idle" /\ startFailed /\ completed = 1 /\ (broken \/ pending > 0)
    BY <2>1, <1>1, ReadyIsIdle DEF QueueInv, Refused
  <2>3. QED
    BY <2>2, <1>1 DEF QueueInv, UntouchedInv, WillRefresh
<1>6. broken \/ WillRefresh(u)
  BY <1>3, <1>5
<1>7. source[u] = Closed /\ Len(queue[u]) = 1 => documents[u] = Closed /\ startFailed
  <2>1. IsTask(queue[u][1]) /\ source[u] = Closed => Len(queue[u]) # 1
    BY <1>1, <1>4, TaskIsOld DEF QueueInv
  <2>2. QED
    BY <2>1, <1>3, <1>5
<1>8. QueueInv(u)'
  BY <1>1, <1>2, <1>4, FinishQueue
<1>9. SentInv(u)'
  BY <1>1, <1>2, <1>3, <1>4, FinishSent
<1>10. RestInv(u)'
  BY <1>1, <1>2, <1>4, <1>6, <1>7, FinishRest
<1>11. QED
  BY <1>8, <1>9, <1>10 DEF DocInv

LEMMA ClearedKeeps ==
  ASSUME ServerInv, NEW u \in Uris, Cleared(u)
  PROVE  DocInv(u)'
<1>1. TypeInv /\ StartInv /\ QueueInv(u) /\ SentInv(u) /\ RestInv(u)
  BY DEF ServerInv, DocInv
<1>2. Finish(u) /\ Elsewhere /\ SameSent(u) /\ documents'[u] = documents[u]
  BY DEF Cleared, SameSent, documentVars, upstreamVars
<1>3. shown'[u] = Nothing
  BY <1>1 DEF Cleared, TypeInv, StateType
<1>4. step[u].pc = "publishing" /\ ~ IsTask(queue[u][1])
  BY <1>1, AtIsAtWork DEF Cleared, TypeInv, IsTask
<1>5. queue[u] # <<>>
  BY <1>1, <1>4, AtWork DEF TypeInv
<1>6. documents[u] = Closed
  BY <1>1, <1>4 DEF SentInv, OverlayInv
<1>7. source[u] # Closed => Len(queue[u]) > 1 /\ token[u] = DocToken(source[u])
  BY <1>1, <1>4, <1>5, CloseIsOld DEF QueueInv
<1>8. source[u] # Closed => Len(queue[u]) # 1
  BY <1>7, <1>1, <1>5, MoreThanOne DEF TypeInv, TaskType
<1>9. source[u] # Closed => Coming(u)
  BY <1>5, <1>7, <1>8 DEF Coming
<1>10. QueueInv(u)'
  BY <1>1, <1>2, <1>5, FinishQueue
<1>11. SentInv(u)'
  BY <1>1, <1>2, <1>4, <1>5, FinishSent
<1>12. RestInv(u)'
  BY <1>1, <1>2, <1>3, <1>5, <1>6, <1>8, <1>9, FinishRest
<1>13. QED
  BY <1>10, <1>11, <1>12 DEF DocInv

LEMMA PublishedKeeps ==
  ASSUME ServerInv, NEW u \in Uris, Published(u)
  PROVE  DocInv(u)'
<1>1. TypeInv /\ StartInv /\ QueueInv(u) /\ SentInv(u) /\ RestInv(u)
  BY DEF ServerInv, DocInv
<1>2. /\ Finish(u) /\ Elsewhere /\ SameSent(u) /\ documents'[u] = documents[u] /\ ~ broken
      /\ Show(u, step[u].state)
  BY DEF Published, SameSent, upstreamVars
<1>3. step[u].pc = "publishing" /\ IsTask(queue[u][1])
  BY <1>1, AtIsAtWork DEF Published, TypeInv, IsTask
<1>4. queue[u] # <<>> /\ step[u].state \in States
  BY <1>1, <1>3, AtWork DEF TypeInv, TaskType
<1>5. shown'[u] = IF Current(u, step[u].state) THEN step[u].state ELSE shown[u]
  BY <1>1, <1>2, <1>4, ShowStep DEF TypeInv
<1>6. Len(queue[u]) = 1 => ~ Coming(u)
  BY <1>3 DEF Coming
<1>7. source[u] = Closed => Len(queue[u]) # 1
  BY <1>1, <1>3, <1>4, TaskIsOld DEF QueueInv
<1>8. source[u] # Closed =>
        broken \/ WillRefresh(u) \/ Coming(u) \/ (phase = "publishing" /\ at = {u}) \/ shown'[u] = documents[u]
  <2>1. SUFFICES ASSUME source[u] # Closed, ~ WillRefresh(u), ~ Coming(u), ~ (phase = "publishing" /\ at = {u})
                 PROVE  shown'[u] = documents[u]
    OBVIOUS
  <2>2. Analysis(u)
    BY <2>1, <1>1, <1>2 DEF RestInv, CurrentInv
  <2>3. step[u].state = documents[u] \/ shown[u] = documents[u]
    BY <2>1, <1>1, <1>2 DEF RestInv, ShownInv, Publishing
  <2>4. step[u].state = documents[u] => Current(u, step[u].state)
    BY <2>2 DEF Current, Analysis
  <2>5. Current(u, step[u].state) => step[u].state = documents[u]
    BY DEF Current
  <2>6. QED
    BY <2>3, <2>4, <2>5, <1>5
<1>9. QueueInv(u)'
  BY <1>1, <1>2, <1>4, FinishQueue
<1>10. SentInv(u)'
  BY <1>1, <1>2, <1>3, <1>4, FinishSent
<1>11. RestInv(u)'
  BY <1>1, <1>2, <1>4, <1>6, <1>7, <1>8, FinishRest
<1>12. QED
  BY <1>9, <1>10, <1>11 DEF DocInv

(* The steps that end a task *)
LEMMA EndedKeeps ==
  ASSUME ServerInv, NEW u \in Uris, Abort(u) \/ Fail(u) \/ Published(u) \/ Cleared(u)
  PROVE  StartInv' /\ \A v \in Uris : DocInv(v)'
<1>1. TypeInv /\ StartInv /\ \A v \in Uris : DocInv(v)
  BY DEF ServerInv
<1>2. Finish(u) /\ Elsewhere
  BY DEF Abort, Fail, Published, Cleared
<1>3. step[u].pc # "idle"
  BY <1>1, AtIsAtWork DEF TypeInv, Abort, Fail, Published, Cleared, Refused, WorkspaceIsReady
<1>4. queue[u] # <<>>
  BY <1>1, <1>3, AtWork DEF TypeInv
<1>5. ASSUME NEW v \in Uris, v # u
      PROVE  SameTasks(v) /\ SameSent(v) /\ shown'[v] = shown[v]
  <2>1. SameTasks(v)
    BY <1>1, <1>2, <1>4, <1>5, TaskOthers
  <2>2. SameSent(v)
    BY DEF SameSent, Abort, Fail, Published, Cleared, documentVars, upstreamVars
  <2>3. shown'[v] = shown[v]
    <3>1. CASE Abort(u)
      BY <3>1 DEF Abort
    <3>2. CASE Fail(u)
      BY <3>2, <1>1, <1>5 DEF Fail, TypeInv, StateType
    <3>3. CASE Published(u)
      <4>1. shown' = shown \/ shown' = [shown EXCEPT ![u] = step[u].state]
        BY <3>3 DEF Published, Show
      <4>2. QED
        BY <4>1, <1>1, <1>5 DEF TypeInv, StateType
    <3>4. CASE Cleared(u)
      BY <3>4, <1>1, <1>5 DEF Cleared, TypeInv, StateType
    <3>5. QED
      BY <3>1, <3>2, <3>3, <3>4
  <2>4. QED
    BY <2>1, <2>2, <2>3
<1>6. DocInv(u)'
  BY AbortKeeps, FailKeeps, PublishedKeeps, ClearedKeeps
<1>7. QED
  BY <1>1, <1>2, <1>5, <1>6, TaskFrame, OthersKeep

(* A task goes on: no task begins before the start is over, or in the middle of a refresh. *)
LEMMA ProceedQueue ==
  ASSUME TypeInv, NEW u \in Uris, QueueInv(u), Elsewhere,
         NEW pc \in {"debouncing", "analysing", "publishing"}, NEW state, Proceed(u, pc, state),
         ~ (completed = 0 \/ (startFailed /\ completed = 1 /\ phase = "idle")),
         pc = "publishing" \/ ~ Passed(u)
  PROVE  QueueInv(u)'
<1>1. SameWork /\ token' = token /\ source' = source /\ session' = session
  BY TaskFrame
<1>2. queue' = queue /\ dead' = dead /\ step'[u].pc = pc
  BY ProceedStep DEF TypeInv
<1>3. OrderInv(u)'
  BY <1>1, <1>2 DEF QueueInv, OrderInv
<1>4. ReadyInv(u)'
  BY <1>2 DEF ReadyInv
<1>5. UntouchedInv(u)'
  BY <1>1 DEF UntouchedInv, SameWork
<1>6. CloseInv(u)'
  BY <1>1, <1>2 DEF QueueInv, CloseInv, SameWork, Refreshing, Starts
<1>7. PassedInv(u)'
  BY <1>1, <1>2 DEF PassedInv, Passed, SameWork
<1>8. QED
  BY <1>3, <1>4, <1>5, <1>6, <1>7 DEF QueueInv

LEMMA BegunKeeps ==
  ASSUME ServerInv, NEW u \in Uris, Elsewhere, SameSent(u), shown'[u] = shown[u],
         step[u].pc \in {"waiting", "debouncing"}, IsTask(queue[u][1]),
         NEW pc \in {"debouncing", "analysing"}, NEW state, Proceed(u, pc, state),
         ~ (completed = 0 \/ (startFailed /\ completed = 1 /\ phase = "idle")), ~ Passed(u),
         state # Closed => overlay[u] # Closed \/ pc = "debouncing"
  PROVE  DocInv(u)'
<1>1. TypeInv /\ StartInv /\ QueueInv(u) /\ SentInv(u) /\ RestInv(u)
  BY DEF ServerInv, DocInv
<1>2. SameWork /\ token' = token /\ source' = source
  BY TaskFrame
<1>3. queue' = queue /\ dead' = dead /\ step'[u] = [pc |-> pc, ready |-> 0, state |-> state]
  BY <1>1, ProceedStep DEF TypeInv
<1>4. step'[u].pc = pc /\ step'[u].state = state
  BY <1>3
<1>5. queue[u] # <<>>
  BY <1>1, AtWork DEF TypeInv
<1>6. QueueInv(u)'
  BY <1>1, ProceedQueue
<1>7. SentInv(u)'
  <2>1. ~ Leaving(u) /\ ~ Leaving(u)'
    BY <1>3 DEF Leaving
  <2>2. RefreshInv(u)'
    BY <1>1, <1>2 DEF SentInv, RefreshInv, SameWork, SameSent
  <2>3. BaseInv(u)'
    BY <1>4 DEF BaseInv, SameSent
  <2>4. Expected(u)' = Expected(u)
    BY <1>2, <2>1 DEF Expected, SameWork, SameSent
  <2>5. OverlayInv(u)'
    BY <1>1, <1>3, <2>4 DEF SentInv, OverlayInv, SameSent
  <2>6. KnownInv(u)'
    BY <1>1, <1>2, <2>1 DEF SentInv, KnownInv, Known, SameWork, SameSent
  <2>7. QED
    BY <2>2, <2>3, <2>5, <2>6 DEF SentInv
<1>8. RestInv(u)'
  <2>1. Coming(u) => Coming(u)'
    BY <1>2, <1>3, <1>4 DEF Coming
  <2>2. WillRefresh(u)' <=> WillRefresh(u)
    BY <1>2 DEF WillRefresh, SameWork
  <2>3. Analysis(u)' <=> Analysis(u)
    BY <1>2 DEF Analysis, SameSent, SameWork
  <2>4. CurrentInv(u)'
    BY <1>1, <1>2, <2>1, <2>2, <2>3 DEF RestInv, CurrentInv, SameWork
  <2>5. source[u] = Closed => Len(queue[u]) # 1
    BY <1>1, <1>5, TaskIsOld DEF QueueInv
  <2>6. GoneInv(u)'
    BY <1>2, <1>3, <1>5, <2>5 DEF GoneInv
  <2>7. Publishing(u) => Publishing(u)'
    BY <1>2 DEF Publishing, SameWork
  <2>8. ShownInv(u)'
    BY <1>1, <1>2, <1>3, <2>1, <2>2, <2>7 DEF RestInv, ShownInv, SameWork, SameSent
  <2>9. QED
    BY <2>4, <2>6, <2>8 DEF RestInv
<1>9. QED
  BY <1>6, <1>7, <1>8 DEF DocInv

\* What a task that waited knows when it goes on
LEMMA Awaited ==
  ASSUME TypeInv, StartInv, NEW u \in Uris, ReadyInv(u), WorkspaceIsReady(u), ~ Refused(u)
  PROVE  /\ phase = "idle" /\ ~ Passed(u) /\ step[u].pc = "waiting"
         /\ ~ (completed = 0 \/ (startFailed /\ completed = 1 /\ phase = "idle"))
<1>1. phase = "idle" /\ completed > 0 /\ ~ (startFailed /\ completed = 1) /\ completed \in Nat
  BY ReadyIsIdle DEF TypeInv, WorkspaceType
<1>2. QED
  BY <1>1 DEF Passed, WorkspaceIsReady

LEMMA OpenKeeps ==
  ASSUME ServerInv, NEW u \in Uris, Open(u)
  PROVE  DocInv(u)'
<1>1. TypeInv /\ StartInv /\ QueueInv(u) /\ SentInv(u)
  BY DEF ServerInv, DocInv
<1>2. Elsewhere /\ SameSent(u) /\ shown'[u] = shown[u] /\ Proceed(u, "analysing", virtualDocuments[u])
  BY DEF Open, SameSent, documentVars, upstreamVars
<1>3. IsTask(queue[u][1])
  BY <1>1, AtIsAtWork DEF Open, TypeInv, IsTask
<1>4. /\ phase = "idle" /\ ~ Passed(u) /\ step[u].pc = "waiting"
      /\ ~ (completed = 0 \/ (startFailed /\ completed = 1 /\ phase = "idle"))
  BY <1>1, Awaited DEF Open, QueueInv
<1>5. virtualDocuments[u] # Closed => overlay[u] # Closed
  BY <1>1, <1>4 DEF SentInv, OverlayInv, Expected, Leaving
<1>6. QED
  BY <1>2, <1>3, <1>4, <1>5, BegunKeeps

LEMMA DebounceKeeps ==
  ASSUME ServerInv, NEW u \in Uris, Debounce(u)
  PROVE  DocInv(u)'
<1>1. TypeInv /\ StartInv /\ QueueInv(u)
  BY DEF ServerInv, DocInv
<1>2. Elsewhere /\ SameSent(u) /\ shown'[u] = shown[u] /\ Proceed(u, "debouncing", Closed)
  BY DEF Debounce, SameSent, documentVars, upstreamVars
<1>3. IsTask(queue[u][1])
  BY <1>1, AtIsAtWork DEF Debounce, TypeInv, IsTask
<1>4. /\ phase = "idle" /\ ~ Passed(u) /\ step[u].pc = "waiting"
      /\ ~ (completed = 0 \/ (startFailed /\ completed = 1 /\ phase = "idle"))
  BY <1>1, Awaited DEF Debounce, QueueInv
<1>5. QED
  BY <1>2, <1>3, <1>4, BegunKeeps

LEMMA ChangeKeeps ==
  ASSUME ServerInv, NEW u \in Uris, Change(u)
  PROVE  DocInv(u)'
<1>1. TypeInv /\ StartInv /\ QueueInv(u) /\ SentInv(u)
  BY DEF ServerInv, DocInv
<1>2. /\ Elsewhere /\ SameSent(u) /\ shown'[u] = shown[u]
      /\ Proceed(u, "analysing", IF documents[u] # Closed THEN documents[u] ELSE virtualDocuments[u])
  BY DEF Change, SameSent, documentVars, upstreamVars
<1>3. step[u].pc = "debouncing" /\ IsTask(queue[u][1])
  BY <1>1, AtIsAtWork DEF Change, TypeInv, IsTask
<1>4. ~ InHandIsDead(u)
  BY <1>1, <1>3, AtWork DEF Change, Cancelled, InHandIsDead, TypeInv
<1>5. ~ Passed(u) /\ ~ (completed = 0 \/ (startFailed /\ completed = 1 /\ phase = "idle"))
  BY <1>1, <1>3, <1>4 DEF QueueInv, PassedInv, UntouchedInv
<1>6. phase # "resetting"
  BY <1>5 DEF Passed
<1>7. (IF documents[u] # Closed THEN documents[u] ELSE virtualDocuments[u]) # Closed => overlay[u] # Closed
  BY <1>1, <1>3, <1>6 DEF SentInv, OverlayInv, Expected, Leaving
<1>8. QED
  BY <1>2, <1>3, <1>5, <1>7, BegunKeeps

LEMMA CloseKeeps ==
  ASSUME ServerInv, NEW u \in Uris, Close(u)
  PROVE  DocInv(u)'
<1>1. TypeInv /\ StartInv /\ QueueInv(u) /\ SentInv(u) /\ RestInv(u)
  BY DEF ServerInv, DocInv
<1>2. /\ Elsewhere /\ Proceed(u, "analysing", documents[u]) /\ documents'[u] = Closed
      /\ virtualDocuments'[u] = virtualDocuments[u] /\ overlay'[u] = overlay[u] /\ shown'[u] = shown[u]
  BY <1>1 DEF Close, TypeInv, StateType, upstreamVars
<1>3. ~ IsTask(queue[u][1])
  BY <1>1, AtIsAtWork DEF Close, TypeInv, IsTask
<1>4. /\ phase = "idle" /\ ~ Passed(u) /\ step[u].pc = "waiting"
      /\ ~ (completed = 0 \/ (startFailed /\ completed = 1 /\ phase = "idle"))
  BY <1>1, Awaited DEF Close, QueueInv
<1>5. SameWork /\ token' = token /\ source' = source
  BY <1>2, TaskFrame
<1>6. queue' = queue /\ dead' = dead /\ step'[u].pc = "analysing" /\ step'[u].state = documents[u]
  BY <1>1, <1>2, ProceedStep DEF TypeInv
<1>7. queue[u] # <<>>
  BY <1>1, <1>4, AtWork DEF TypeInv
<1>8. source[u] # Closed => Len(queue[u]) > 1 /\ token[u] = DocToken(source[u])
  BY <1>1, <1>3, <1>7, CloseIsOld DEF QueueInv
<1>9. QueueInv(u)'
  BY <1>1, <1>2, <1>4, ProceedQueue
<1>10. SentInv(u)'
  <2>1. RefreshInv(u)'
    BY <1>4, <1>5 DEF RefreshInv, SameWork
  <2>2. BaseInv(u)'
    BY <1>3, <1>6 DEF BaseInv
  <2>3. Leaving(u)' <=> documents[u] # Closed
    BY <1>3, <1>6 DEF Leaving
  <2>4. ~ Leaving(u)
    BY <1>4 DEF Leaving
  <2>5. overlay[u] = IF documents[u] # Closed THEN documents[u] ELSE virtualDocuments[u]
    BY <1>1, <1>4, <2>4 DEF SentInv, OverlayInv, Expected
  <2>6. overlay'[u] = Expected(u)'
    BY <1>2, <1>4, <1>5, <1>6, <2>3, <2>5 DEF Expected, SameWork
  <2>7. OverlayInv(u)'
    BY <1>1, <1>2, <2>6 DEF SentInv, OverlayInv
  <2>8. KnownInv(u)'
    BY <1>1, <1>2, <1>4, <1>5, <2>3, <2>4 DEF SentInv, KnownInv, Known, SameWork
  <2>9. QED
    BY <2>1, <2>2, <2>7, <2>8 DEF SentInv
<1>11. RestInv(u)'
  <2>1. source[u] # Closed => Coming(u)'
    BY <1>5, <1>6, <1>7, <1>8 DEF Coming
  <2>2. CurrentInv(u)'
    BY <1>5, <2>1 DEF CurrentInv
  <2>3. GoneInv(u)'
    BY <1>2 DEF GoneInv
  <2>4. ShownInv(u)'
    BY <1>1, <1>5, <1>6, <1>7, <2>1 DEF ShownInv
  <2>5. QED
    BY <2>2, <2>3, <2>4 DEF RestInv
<1>12. QED
  BY <1>9, <1>10, <1>11 DEF DocInv

LEMMA AnalysedKeeps ==
  ASSUME ServerInv, NEW u \in Uris, Analysed(u)
  PROVE  DocInv(u)'
<1>1. TypeInv /\ StartInv /\ QueueInv(u) /\ SentInv(u) /\ RestInv(u)
  BY DEF ServerInv, DocInv
<1>2. PICK state \in States :
           /\ step[u].pc = "analysing" /\ IsTask(queue[u][1]) /\ TokenOf(queue[u][1]) \notin dead[u]
           /\ state.doc = queue[u][1].doc /\ state.generation = generation
           /\ documents' = [documents EXCEPT ![u] = state]
           /\ Send(u, step[u].state, state) /\ Proceed(u, "publishing", state)
           /\ virtualDocuments' = [virtualDocuments EXCEPT ![u] = Closed]
           /\ shown' = shown /\ Elsewhere
  BY <1>1, AnalysedStep
<1>3. SameWork /\ token' = token /\ source' = source
  BY <1>2, TaskFrame
<1>4. queue' = queue /\ dead' = dead /\ step'[u].pc = "publishing" /\ step'[u].state = state
  BY <1>1, <1>2, ProceedStep DEF TypeInv
<1>5. queue[u] # <<>> /\ state # Closed
  BY <1>1, <1>2, AtWork, DocsAreDistinct DEF TypeInv
<1>6. source[u] # Closed /\ queue[u][1].doc = source[u]
  BY <1>1, <1>2, <1>5, AliveIsNewest DEF QueueInv, InHandIsDead
<1>7. documents'[u] = state /\ virtualDocuments'[u] = Closed
  BY <1>1, <1>2 DEF TypeInv, StateType
<1>8. overlay'[u] = state
  <2>1. step[u].state = Closed \/ overlay[u] # Closed
    BY <1>1, <1>2 DEF SentInv, BaseInv, InHandIsDead
  <2>2. QED
    BY <1>1, <1>2, <2>1, SendStep DEF TypeInv
<1>9. ~ Passed(u) /\ ~ (completed = 0 \/ (startFailed /\ completed = 1 /\ phase = "idle"))
  BY <1>1, <1>2 DEF QueueInv, PassedInv, InHandIsDead, UntouchedInv
<1>10. QueueInv(u)'
  BY <1>1, <1>2, <1>9, ProceedQueue
<1>11. SentInv(u)'
  <2>1. RefreshInv(u)'
    <3>1. at = {u} => ~ (phase \in {"analysing", "publishing"})
      BY <1>1, <1>9 DEF SentInv, RefreshInv, Passed
    <3>2. QED
      BY <3>1, <1>3 DEF RefreshInv, SameWork
  <2>2. BaseInv(u)'
    BY <1>4 DEF BaseInv
  <2>3. ~ Leaving(u)'
    BY <1>4 DEF Leaving
  <2>4. overlay'[u] = Expected(u)'
    BY <1>5, <1>7, <1>8, <2>3 DEF Expected
  <2>5. OverlayInv(u)'
    BY <1>2, <1>4, <1>7, <2>4 DEF OverlayInv
  <2>6. KnownInv(u)'
    BY <1>5, <1>7 DEF KnownInv, Known
  <2>7. QED
    BY <2>1, <2>2, <2>5, <2>6 DEF SentInv
<1>12. RestInv(u)'
  <2>1. Analysis(u)'
    BY <1>2, <1>3, <1>5, <1>6, <1>7 DEF Analysis, SameWork
  <2>2. CurrentInv(u)'
    BY <2>1 DEF CurrentInv
  <2>3. GoneInv(u)'
    BY <1>3, <1>6 DEF GoneInv
  <2>4. Publishing(u)'
    BY <1>2, <1>4, <1>7 DEF Publishing
  <2>5. ShownInv(u)'
    BY <2>4, <1>3, <1>6 DEF ShownInv
  <2>6. QED
    BY <2>2, <2>3, <2>5 DEF RestInv
<1>13. QED
  BY <1>10, <1>11, <1>12 DEF DocInv

LEMMA UnopenedKeeps ==
  ASSUME ServerInv, NEW u \in Uris, Unopened(u)
  PROVE  DocInv(u)'
<1>1. TypeInv /\ StartInv /\ QueueInv(u) /\ SentInv(u) /\ RestInv(u)
  BY DEF ServerInv, DocInv
<1>2. /\ step[u].pc = "analysing" /\ ~ IsTask(queue[u][1])
      /\ Proceed(u, "publishing", Closed) /\ Elsewhere /\ documents' = documents /\ shown' = shown
  BY <1>1, UnopenedStep
<1>3. SameWork /\ token' = token /\ source' = source
  BY <1>2, TaskFrame
<1>4. queue' = queue /\ dead' = dead /\ step'[u].pc = "publishing" /\ step'[u].state = Closed
  BY <1>1, <1>2, ProceedStep DEF TypeInv
<1>5. queue[u] # <<>>
  BY <1>1, <1>2, AtWork DEF TypeInv
<1>6. /\ ~ Refreshing
      /\ source[u] # Closed => Len(queue[u]) > 1 /\ token[u] = DocToken(source[u])
  BY <1>1, <1>2, <1>5, CloseIsOld DEF QueueInv
<1>7. ~ (completed = 0 \/ (startFailed /\ completed = 1 /\ phase = "idle")) /\ documents[u] = Closed
  BY <1>1, <1>2 DEF QueueInv, UntouchedInv, SentInv, OverlayInv
<1>8. phase = "idle" /\ pending = 0
  BY <1>1, <1>6, <1>7, LoopRefreshes DEF TypeInv, WorkspaceType, Refreshing, Starts
<1>9. /\ virtualDocuments'[u] # Closed => u \in Queried
      /\ overlay'[u] = virtualDocuments'[u]
      /\ ~ broken /\ u \in Queried => virtualDocuments'[u] # Closed
  <2>1. CASE /\ ~ broken /\ u \in Queried
             /\ \E state \in States :
                  /\ virtualDocuments' = [virtualDocuments EXCEPT ![u] = state]
                  /\ SendChange(u, state)
    <3>1. PICK state \in States : /\ virtualDocuments' = [virtualDocuments EXCEPT ![u] = state]
                                  /\ SendChange(u, state)
      BY <2>1
    <3>2. virtualDocuments'[u] = state /\ state # Closed
      BY <1>1, <3>1, DocsAreDistinct DEF TypeInv, StateType
    <3>3. Known(u) \/ Leaving(u)
      BY <1>1, <1>8, <2>1 DEF SentInv, KnownInv
    <3>4. overlay[u] # Closed
      BY <1>1, <1>2, <1>7, <1>8, <3>3 DEF SentInv, OverlayInv, Expected, Leaving, Known
    <3>5. overlay'[u] = state
      BY <1>1, <3>1, <3>4, SendChangeStep DEF TypeInv
    <3>6. QED
      BY <2>1, <3>2, <3>5
  <2>2. CASE ~ broken /\ u \notin Queried /\ SendClose(u) /\ virtualDocuments' = virtualDocuments
    <3>1. overlay'[u] = Closed
      BY <1>1, <2>2, SendCloseStep DEF TypeInv
    <3>2. QED
      BY <1>1, <2>2, <3>1 DEF SentInv, OverlayInv
  <2>3. CASE broken /\ SendClose(u) /\ virtualDocuments' = [virtualDocuments EXCEPT ![u] = Closed]
    <3>1. overlay'[u] = Closed
      BY <1>1, <2>3, SendCloseStep DEF TypeInv
    <3>2. virtualDocuments'[u] = Closed
      BY <1>1, <2>3 DEF TypeInv, StateType
    <3>3. QED
      BY <2>3, <3>1, <3>2
  <2>4. QED
    BY <1>1, <2>1, <2>2, <2>3, UnopenedStep
<1>10. QueueInv(u)'
  BY <1>1, <1>2, <1>7, ProceedQueue
<1>11. SentInv(u)'
  <2>1. RefreshInv(u)'
    BY <1>3, <1>8 DEF RefreshInv, SameWork
  <2>2. BaseInv(u)'
    BY <1>4 DEF BaseInv
  <2>3. ~ Leaving(u)'
    BY <1>4 DEF Leaving
  <2>4. overlay'[u] = Expected(u)'
    BY <1>2, <1>3, <1>7, <1>8, <1>9, <2>3 DEF Expected, SameWork
  <2>5. OverlayInv(u)'
    BY <1>2, <1>7, <1>9, <2>4 DEF OverlayInv
  <2>6. KnownInv(u)'
    BY <1>3, <1>8, <1>9 DEF KnownInv, Known, SameWork
  <2>7. QED
    BY <2>1, <2>2, <2>5, <2>6 DEF SentInv
<1>12. RestInv(u)'
  <2>1. source[u] # Closed => Len(queue[u]) # 1
    BY <1>1, <1>5, <1>6, MoreThanOne DEF TypeInv, TaskType
  <2>2. source[u] # Closed => Coming(u)'
    BY <1>3, <1>4, <1>5, <1>6, <2>1 DEF Coming
  <2>3. CurrentInv(u)'
    BY <1>3, <2>2 DEF CurrentInv
  <2>4. GoneInv(u)'
    BY <1>2, <1>7 DEF GoneInv
  <2>5. ShownInv(u)'
    BY <1>3, <1>4, <1>5, <2>2 DEF ShownInv
  <2>6. QED
    BY <2>3, <2>4, <2>5 DEF RestInv
<1>13. QED
  BY <1>10, <1>11, <1>12 DEF DocInv

(* The steps in which a task goes on *)
LEMMA ProceedKeeps ==
  ASSUME ServerInv, NEW u \in Uris,
         Open(u) \/ Debounce(u) \/ Change(u) \/ Close(u) \/ Analysed(u) \/ Unopened(u)
  PROVE  StartInv' /\ \A v \in Uris : DocInv(v)'
<1>1. TypeInv /\ StartInv /\ \A v \in Uris : DocInv(v)
  BY DEF ServerInv
<1>2. Elsewhere /\ (\E pc, state : Proceed(u, pc, state)) /\ shown' = shown
  BY DEF Open, Debounce, Change, Close, Analysed, Unopened
<1>3. step[u].pc # "idle"
  BY <1>1, AtIsAtWork DEF TypeInv, Open, Debounce, Change, Close, Analysed, Unopened
<1>4. queue[u] # <<>>
  BY <1>1, <1>3, AtWork DEF TypeInv
<1>5. ASSUME NEW v \in Uris, v # u
      PROVE  SameTasks(v) /\ SameSent(v) /\ shown'[v] = shown[v]
  <2>1. SameTasks(v)
    BY <1>1, <1>2, <1>4, <1>5, TaskOthers
  <2>2. SameSent(v)
    <3>1. CASE Open(u) \/ Debounce(u) \/ Change(u) \/ Close(u)
      BY <1>1, <1>5, <3>1 DEF SameSent, Open, Debounce, Change, Close, documentVars, upstreamVars, TypeInv,
                              StateType
    <3>2. CASE Analysed(u)
      <4>1. PICK state \in States :
              /\ documents' = [documents EXCEPT ![u] = state] /\ Send(u, step[u].state, state)
              /\ virtualDocuments' = [virtualDocuments EXCEPT ![u] = Closed]
        BY <1>1, <3>2, AnalysedStep
      <4>2. overlay'[v] = overlay[v]
        BY <1>1, <1>5, <4>1, SendStep DEF TypeInv
      <4>3. QED
        BY <1>1, <1>5, <4>1, <4>2 DEF SameSent, TypeInv, StateType
    <3>3. CASE Unopened(u)
      <4>1. /\ documents' = documents
            /\ \/ \E state \in States :
                    /\ virtualDocuments' = [virtualDocuments EXCEPT ![u] = state]
                    /\ SendChange(u, state)
               \/ SendClose(u) /\ virtualDocuments' = virtualDocuments
               \/ SendClose(u) /\ virtualDocuments' = [virtualDocuments EXCEPT ![u] = Closed]
        BY <1>1, <3>3, UnopenedStep
      <4>2. overlay'[v] = overlay[v]
        BY <1>1, <1>5, <4>1, SendChangeStep, SendCloseStep DEF TypeInv
      <4>3. virtualDocuments'[v] = virtualDocuments[v]
        BY <1>1, <1>5, <4>1 DEF TypeInv, StateType
      <4>4. QED
        BY <4>1, <4>2, <4>3 DEF SameSent
    <3>4. QED
      BY <3>1, <3>2, <3>3
  <2>3. QED
    BY <2>1, <2>2, <1>2
<1>6. DocInv(u)'
  BY OpenKeeps, DebounceKeeps, ChangeKeeps, CloseKeeps, AnalysedKeeps, UnopenedKeeps
<1>7. QED
  BY <1>1, <1>2, <1>5, <1>6, TaskFrame, OthersKeep

-------------------------------------------------------------------------------
(***************************************************************************)
(* The notices of the editor                                               *)
(***************************************************************************)

\* What a notice about a document does to everything but its snapshot and its token
Noted(u, kind, doc) ==
  /\ SameWork /\ Enqueue(u, kind, doc)
  /\ documents' = documents /\ virtualDocuments' = virtualDocuments /\ overlay' = overlay
  /\ shown' = shown

LEMMA NotedTask ==
  ASSUME TypeInv, StartInv, NEW u \in Uris, NEW kind \in Notices, NEW doc \in Doc \union {Disk},
         Noted(u, kind, doc)
  PROVE  /\ Added(queue[u], queue'[u], [kind |-> kind, doc |-> doc])
         /\ queue[u] = <<>> =>
              /\ step'[u].pc = "waiting" /\ step'[u].ready = pending + completed /\ step[u].pc = "idle"
         /\ queue[u] # <<>> => step'[u] = step[u] /\ queue'[u][1] = queue[u][1]
         /\ Len(queue'[u]) = 1 => queue[u] = <<>>
         /\ \A v \in Uris : v # u => queue'[v] = queue[v] /\ step'[v] = step[v]
<1>1. TaskType /\ pending \in Nat /\ completed \in Nat /\ Enqueue(u, kind, doc)
  BY DEF TypeInv, WorkspaceType, Noted
<1>2. /\ \A v \in Uris : v # u => queue'[v] = queue[v] /\ step'[v] = step[v]
      /\ queue'[u] \in Seq(Tasks) /\ Len(queue'[u]) = Len(queue[u]) + 1 /\ queue'[u] # <<>>
      /\ \A i \in 1 .. Len(queue[u]) : queue'[u][i] = queue[u][i]
      /\ queue'[u][Len(queue[u]) + 1] = [kind |-> kind, doc |-> doc]
      /\ queue[u] = <<>> => step'[u] = [pc |-> "waiting", ready |-> pending + completed, state |-> Closed]
      /\ queue[u] # <<>> => step'[u] = step[u] /\ queue'[u][1] = queue[u][1]
  BY <1>1, EnqueueStep
<1>3. Len(queue[u]) \in Nat /\ (queue[u] # <<>> <=> Len(queue[u]) > 0) /\ (step[u].pc = "idle" <=> queue[u] = <<>>)
  BY DocTypes
<1>4. Len(queue'[u]) = 1 => queue[u] = <<>>
  BY <1>2, <1>3
<1>5. Added(queue[u], queue'[u], [kind |-> kind, doc |-> doc])
  BY <1>2 DEF Added
<1>6. QED
  BY <1>2, <1>3, <1>4, <1>5

LEMMA NotedQueue ==
  ASSUME TypeInv, StartInv, NEW u \in Uris, QueueInv(u), NEW kind \in Notices,
         NEW doc \in Doc \union {Disk}, Noted(u, kind, doc),
         OrderInv(u)', dead[u] \subseteq dead'[u], token'[u] # RefreshToken, kind = "didClose" => ~ Refreshing
  PROVE  QueueInv(u)'
<1>1. /\ Added(queue[u], queue'[u], [kind |-> kind, doc |-> doc])
      /\ queue[u] = <<>> => step'[u].pc = "waiting" /\ step'[u].ready = pending + completed
      /\ queue[u] # <<>> => step'[u] = step[u] /\ queue'[u][1] = queue[u][1]
  BY NotedTask
<1>2. SameWork /\ documents' = documents
  BY DEF Noted
<1>3. /\ pending \in Nat /\ completed \in Nat /\ (phase # "idle" => pending > 0)
      /\ (completed = 0 => phase # "idle")
  BY DEF TypeInv, WorkspaceType, StartInv
<1>4. ReadyInv(u)'
  <2>1. CASE queue[u] = <<>>
    BY <2>1, <1>1, <1>2, <1>3 DEF ReadyInv, SameWork
  <2>2. CASE queue[u] # <<>>
    BY <2>2, <1>1, <1>2 DEF QueueInv, ReadyInv, SameWork
  <2>3. QED
    BY <2>1, <2>2
<1>5. UntouchedInv(u)'
  BY <1>1, <1>2 DEF QueueInv, UntouchedInv, SameWork
<1>6. CloseInv(u)'
  <2>1. SUFFICES ASSUME Refreshing, NEW i \in 1 .. Len(queue'[u]) PROVE IsTask(queue'[u][i])
    BY <1>2 DEF CloseInv, SameWork, Refreshing, Starts
  <2>2. kind # "didClose" /\ Len(queue[u]) \in Nat
    BY <2>1, DocTypes
  <2>3. CASE i = Len(queue[u]) + 1
    BY <2>2, <2>3, <1>1 DEF Added, IsTask
  <2>4. CASE i # Len(queue[u]) + 1
    <3>1. i \in 1 .. Len(queue[u])
      BY <2>1, <2>2, <2>4, <1>1 DEF Added
    <3>2. QED
      BY <2>1, <3>1, <1>1 DEF Added, QueueInv, CloseInv
  <2>5. QED
    BY <2>3, <2>4
<1>7. PassedInv(u)'
  BY <1>1, <1>2 DEF QueueInv, PassedInv, Passed, InHandIsDead, SameWork
<1>8. QED
  BY <1>4, <1>5, <1>6, <1>7 DEF QueueInv

LEMMA NotedSent ==
  ASSUME TypeInv, StartInv, NEW u \in Uris, SentInv(u), NEW kind \in Notices,
         NEW doc \in Doc \union {Disk}, Noted(u, kind, doc), dead[u] \subseteq dead'[u],
         ~ (at = {u} /\ phase \in {"analysing", "publishing"})
  PROVE  SentInv(u)'
<1>1. /\ queue[u] = <<>> => step'[u].pc = "waiting" /\ step[u].pc = "idle"
      /\ queue[u] # <<>> => step'[u] = step[u] /\ queue'[u][1] = queue[u][1]
  BY NotedTask
<1>2. SameWork /\ SameSent(u)
  BY DEF Noted, SameSent
<1>3. RefreshInv(u)'
  BY <1>2 DEF RefreshInv, SameWork
<1>4. BaseInv(u)'
  BY <1>1, <1>2 DEF SentInv, BaseInv, InHandIsDead, SameSent
<1>5. Leaving(u)' = Leaving(u)
  BY <1>1 DEF Leaving
<1>6. Expected(u)' = Expected(u)
  <2>1. Leaving(u) => step'[u] = step[u]
    BY <1>1 DEF Leaving
  <2>2. QED
    BY <2>1, <1>2, <1>5 DEF Expected, SameWork, SameSent
<1>7. OverlayInv(u)'
  BY <1>1, <1>2, <1>6 DEF SentInv, OverlayInv, SameSent
<1>8. KnownInv(u)'
  BY <1>2, <1>5 DEF SentInv, KnownInv, Known, SameWork, SameSent
<1>9. QED
  BY <1>3, <1>4, <1>7, <1>8 DEF SentInv

LEMMA NotedRest ==
  ASSUME TypeInv, StartInv, NEW u \in Uris, NEW kind \in Notices,
         NEW doc \in Doc \union {Disk}, Noted(u, kind, doc),
         source'[u] # Closed => token'[u] = DocToken(source'[u])
  PROVE  RestInv(u)'
<1>1. queue'[u] # <<>> /\ (Len(queue'[u]) = 1 => step'[u].pc = "waiting")
  BY NotedTask DEF Added
<1>2. source'[u] # Closed => Coming(u)'
  BY <1>1 DEF Coming
<1>3. QED
  BY <1>1, <1>2 DEF RestInv, CurrentInv, GoneInv, ShownInv

LEMMA NotedKeeps ==
  ASSUME ServerInv, NEW u \in Uris, NEW kind \in Notices, NEW doc \in Doc \union {Disk},
         Noted(u, kind, doc),
         OrderInv(u)', dead[u] \subseteq dead'[u], kind = "didClose" => ~ Refreshing,
         source'[u] # Closed => token'[u] = DocToken(source'[u]), source'[u] = Closed => token'[u] = NoToken,
         ~ (at = {u} /\ phase \in {"analysing", "publishing"}),
         \A v \in Uris : v # u =>
           source'[v] = source[v] /\ session'[v] = session[v] /\ token'[v] = token[v] /\ dead'[v] = dead[v]
  PROVE  StartInv' /\ \A v \in Uris : DocInv(v)'
<1>1. TypeInv /\ StartInv /\ QueueInv(u) /\ SentInv(u) /\ SameWork /\ \A v \in Uris : DocInv(v)
  BY DEF ServerInv, DocInv, Noted
<1>2. token'[u] # RefreshToken
  BY TokensAreDistinct
<1>3. QueueInv(u)' /\ SentInv(u)' /\ RestInv(u)'
  BY <1>1, <1>2, NotedQueue, NotedSent, NotedRest
<1>4. DocInv(u)'
  BY <1>3 DEF DocInv
<1>5. ASSUME NEW v \in Uris, v # u
      PROVE  SameTasks(v) /\ SameSent(v) /\ shown'[v] = shown[v]
  <2>1. queue'[v] = queue[v] /\ step'[v] = step[v]
    BY <1>1, <1>5, NotedTask
  <2>2. QED
    BY <2>1, <1>5 DEF SameTasks, SameSent, Noted
<1>6. QED
  BY <1>1, <1>4, <1>5, OthersKeep

LEMMA DidOpenKeeps ==
  ASSUME ServerInv, NEW u \in Uris, DidOpen(u)
  PROVE  StartInv' /\ \A v \in Uris : DocInv(v)'
<1>1. TypeInv /\ StartInv /\ QueueInv(u) /\ SentInv(u) /\ OrderInv(u)
  BY DEF ServerInv, DocInv, QueueInv
<1> DEFINE doc == [session |-> session[u] + 1, version |-> 1]
<1>2. session[u] \in Nat /\ session[u] <= notices /\ notices \in Nat /\ notices < MaxNotices
  BY <1>1 DEF TypeInv, NoticeType, DidOpen, May
<1>3. doc \in Doc /\ doc.session = session[u] + 1 /\ doc.version = 1
  BY <1>2, LanguageServerAssumption DEF Doc
<1>4. /\ source' = [source EXCEPT ![u] = doc] /\ session' = [session EXCEPT ![u] = doc.session]
      /\ token' = [token EXCEPT ![u] = DocToken(doc)] /\ dead' = dead
      /\ source[u] = Closed /\ Noted(u, "didOpen", doc)
  BY DEF DidOpen, NotNoted, DocToken, Noted, SameWork, projectVars, upstreamVars
<1> HIDE DEF doc
<1>5. source \in [Uris -> Doc \union {Closed}] /\ session \in [Uris -> Nat] /\ token \in [Uris -> Tokens]
  BY <1>1 DEF TypeInv, NoticeType, TokenType
<1>6. source'[u] = doc /\ session'[u] = session[u] + 1 /\ token'[u] = DocToken(doc) /\ doc # Closed
  BY <1>3, <1>4, <1>5, DocsAreDistinct
<1>7. Added(queue[u], queue'[u], [kind |-> "didOpen", doc |-> doc])
  BY <1>1, <1>3, <1>4, NotedTask DEF Notices
<1>8. OrderInv(u)'
  <2>1. queue[u] \in Seq(Tasks) /\ Ordered(Closed, session[u], token[u], dead[u], queue[u])
    BY <1>1, <1>4, DocTypes DEF OrderInv
  <2>2. Ordered(doc, session[u] + 1, DocToken(doc), dead[u], queue'[u])
    BY <1>2, <1>3, <1>7, <2>1, OrderedOpen
  <2>3. QED
    BY <1>4, <1>6, <2>2 DEF OrderInv
<1>9. ~ (at = {u} /\ phase \in {"analysing", "publishing"})
  BY <1>1, <1>4 DEF SentInv, RefreshInv
<1>10. \A v \in Uris : v # u =>
         source'[v] = source[v] /\ session'[v] = session[v] /\ token'[v] = token[v] /\ dead'[v] = dead[v]
  BY <1>4, <1>5
<1>11. "didOpen" \in Notices /\ doc \in Doc \union {Disk} /\ dead[u] \subseteq dead'[u]
  BY <1>3, <1>4 DEF Notices
<1>12. source'[u] # Closed => token'[u] = DocToken(source'[u])
  BY <1>6
<1>13. source'[u] # Closed
  BY <1>6
<1>14. QED
  BY <1>4, <1>8, <1>9, <1>10, <1>11, <1>12, <1>13, NotedKeeps

(* A change and a close come while no refresh runs. *)
LEMMA Uninterrupted ==
  ASSUME Considerate, TypeInv, StartInv, NEW u \in Uris, NEW kind, kind # "didOpen", May(kind, u)
  PROVE  ~ Refreshing /\ phase \notin {"refreshing", "analysing", "publishing", "resetting"}
<1>1. editor \in Editors
  BY DEF TypeInv, NoticeType
<1>2. editor.during \subseteq {"didOpen"}
  BY <1>1 DEF Considerate
<1>3. ~ Refreshing
  BY <1>2 DEF May
<1>4. QED
  BY <1>3, LoopRefreshes

\* Then the tokens that are held are those of the tasks.
LEMMA CancelledAre ==
  ASSUME TypeInv, NEW u \in Uris, Cancel(u), phase # "analysing"
  PROVE  /\ dead'[u] = Superseded(token[u], dead[u], queue[u]) /\ dead[u] \subseteq dead'[u]
         /\ \A v \in Uris : v # u => dead'[v] = dead[v]
<1>1. /\ dead'[u] = dead[u] \union ({token[u]} \intersect Holders(u))
      /\ \A v \in Uris : v # u => dead'[v] = dead[v]
  BY CancelStep DEF TypeInv, TokenType
<1>2. queue[u] \in Seq(Tasks)
  BY DocTypes
<1>3. DOMAIN queue[u] = 1 .. Len(queue[u])
  BY <1>2
<1>4. Holders(u) = {TokenOf(queue[u][i]) : i \in 1 .. Len(queue[u])}
  BY <1>3 DEF Holders
<1>5. QED
  BY <1>1, <1>4 DEF Superseded

LEMMA DidChangeKeeps ==
  ASSUME Considerate, ServerInv, NEW u \in Uris, DidChange(u)
  PROVE  StartInv' /\ \A v \in Uris : DocInv(v)'
<1>1. TypeInv /\ StartInv /\ OrderInv(u)
  BY DEF ServerInv, DocInv, QueueInv
<1> DEFINE doc == [source[u] EXCEPT !.version = @ + 1]
<1>2. /\ source[u] \in Doc /\ source[u].version \in Nat /\ source[u].version <= notices
      /\ notices \in Nat /\ notices < MaxNotices
  BY <1>1 DEF TypeInv, NoticeType, DidChange, May, Doc
<1>3. doc \in Doc /\ doc.version = source[u].version + 1 /\ doc.session = source[u].session
  BY <1>2, LanguageServerAssumption DEF Doc
<1>4. /\ source' = [source EXCEPT ![u] = doc] /\ session' = session
      /\ token' = [token EXCEPT ![u] = DocToken(doc)] /\ Cancel(u)
      /\ May("didChange", u) /\ Noted(u, "didChange", doc)
  BY DEF DidChange, NotNoted, DocToken, Noted, SameWork, projectVars, upstreamVars
<1> HIDE DEF doc
<1>5. source \in [Uris -> Doc \union {Closed}] /\ session \in [Uris -> Nat] /\ token \in [Uris -> Tokens]
  BY <1>1 DEF TypeInv, NoticeType, TokenType
<1>6. source'[u] = doc /\ token'[u] = DocToken(doc) /\ doc # Closed
  BY <1>3, <1>4, <1>5, DocsAreDistinct
<1>7. Added(queue[u], queue'[u], [kind |-> "didChange", doc |-> doc])
  BY <1>1, <1>3, <1>4, NotedTask DEF Notices
<1>8. ~ Refreshing /\ phase \notin {"refreshing", "analysing", "publishing", "resetting"}
  BY <1>1, <1>4, Uninterrupted
<1>9. /\ dead'[u] = Superseded(token[u], dead[u], queue[u]) /\ dead[u] \subseteq dead'[u]
      /\ \A v \in Uris : v # u => dead'[v] = dead[v]
  BY <1>1, <1>4, <1>8, CancelledAre
<1>10. OrderInv(u)'
  <2>1. queue[u] \in Seq(Tasks) /\ session[u] \in Nat /\ Ordered(source[u], session[u], token[u], dead[u], queue[u])
    BY <1>1, DocTypes DEF OrderInv
  <2>2. Ordered(doc, session[u], DocToken(doc), Superseded(token[u], dead[u], queue[u]), queue'[u])
    BY <1>2, <1>3, <1>7, <2>1, OrderedChange
  <2>3. QED
    BY <1>4, <1>6, <1>9, <2>2 DEF OrderInv
<1>11. \A v \in Uris : v # u =>
         source'[v] = source[v] /\ session'[v] = session[v] /\ token'[v] = token[v] /\ dead'[v] = dead[v]
  BY <1>4, <1>5, <1>9
<1>12. "didChange" \in Notices /\ doc \in Doc \union {Disk}
  BY <1>3 DEF Notices
<1>13. source'[u] # Closed /\ token'[u] = DocToken(source'[u])
  BY <1>6
<1>14. QED
  BY <1>4, <1>8, <1>9, <1>10, <1>11, <1>12, <1>13, NotedKeeps

LEMMA DidCloseKeeps ==
  ASSUME Considerate, ServerInv, NEW u \in Uris, DidClose(u)
  PROVE  StartInv' /\ \A v \in Uris : DocInv(v)'
<1>1. TypeInv /\ StartInv /\ OrderInv(u)
  BY DEF ServerInv, DocInv, QueueInv
<1>2. source[u] # Closed /\ May("didClose", u)
  BY DEF DidClose
<1>3. ~ Refreshing /\ phase \notin {"refreshing", "analysing", "publishing", "resetting"}
  BY <1>1, <1>2, Uninterrupted
<1>4. /\ source' = [source EXCEPT ![u] = Closed] /\ session' = session
      /\ token' = [token EXCEPT ![u] = NoToken] /\ Cancel(u) /\ Noted(u, "didClose", Disk)
  BY <1>3 DEF DidClose, NotNoted, Noted, SameWork, projectVars, upstreamVars
<1>5. /\ source \in [Uris -> Doc \union {Closed}] /\ session \in [Uris -> Nat] /\ token \in [Uris -> Tokens]
      /\ source[u] \in Doc
  BY <1>1, <1>2 DEF TypeInv, NoticeType, TokenType
<1>6. source'[u] = Closed /\ token'[u] = NoToken
  BY <1>4, <1>5
<1>7. Added(queue[u], queue'[u], [kind |-> "didClose", doc |-> Disk])
  BY <1>1, <1>4, NotedTask DEF Notices
<1>8. /\ dead'[u] = Superseded(token[u], dead[u], queue[u]) /\ dead[u] \subseteq dead'[u]
      /\ \A v \in Uris : v # u => dead'[v] = dead[v]
  BY <1>1, <1>3, <1>4, CancelledAre
<1>9. OrderInv(u)'
  <2>1. queue[u] \in Seq(Tasks) /\ session[u] \in Nat /\ Ordered(source[u], session[u], token[u], dead[u], queue[u])
    BY <1>1, DocTypes DEF OrderInv
  <2>2. Ordered(Closed, session[u], NoToken, Superseded(token[u], dead[u], queue[u]), queue'[u])
    BY <1>5, <1>7, <2>1, OrderedClose
  <2>3. QED
    BY <1>4, <1>6, <1>8, <2>2 DEF OrderInv
<1>10. \A v \in Uris : v # u =>
         source'[v] = source[v] /\ session'[v] = session[v] /\ token'[v] = token[v] /\ dead'[v] = dead[v]
  BY <1>4, <1>5, <1>8
<1>11. "didClose" \in Notices /\ Disk \in Doc \union {Disk}
  BY DEF Notices
<1>12. QED
  BY <1>3, <1>4, <1>6, <1>8, <1>9, <1>10, <1>11, NotedKeeps

-------------------------------------------------------------------------------
(***************************************************************************)
(* The workspace                                                           *)
(***************************************************************************)

(* A refresh that is asked for will come to every document. *)
LEMMA WatchedKeeps ==
  ASSUME Considerate, ServerInv, DidChangeWatchedFiles
  PROVE  StartInv' /\ \A v \in Uris : DocInv(v)'
<1>1. TypeInv /\ StartInv
  BY DEF ServerInv
<1>2. /\ phase' = phase /\ visited' = visited /\ at' = at /\ held' = held /\ completed' = completed
      /\ startFailed' = startFailed /\ generation' = generation /\ pending' = pending + 1
      /\ shown' = shown
  BY DEF DidChangeWatchedFiles
<1>3. pending \in Nat /\ completed \in Nat /\ (phase # "idle" => pending > 0) /\ editor \in Editors
  BY <1>1 DEF TypeInv, WorkspaceType, NoticeType
<1>4. StartInv'
  BY <1>1, <1>2, <1>3 DEF StartInv
<1>5. ASSUME NEW v \in Uris
      PROVE  DocInv(v)'
  <2>1. QueueInv(v) /\ SentInv(v) /\ RestInv(v)
    BY DEF ServerInv, DocInv
  <2>2. SameTasks(v) /\ SameSent(v)
    BY DEF DidChangeWatchedFiles, SameTasks, SameSent, taskVars, tokenVars, editorVars, documentVars, upstreamVars
  <2>3. \A i \in 1 .. Len(queue[v]) : IsTask(queue[v][i])
    <3>1. queue[v] \in Seq(Tasks)
      BY <1>1, DocTypes
    <3>2. \A i \in 1 .. Len(queue[v]) : queue[v][i].kind \in editor.before
      BY <3>1 DEF DidChangeWatchedFiles
    <3>3. "didClose" \notin editor.before
      BY <1>3 DEF Considerate
    <3>4. QED
      BY <3>2, <3>3 DEF IsTask
  <2>4. QueueInv(v)'
    <3>1. OrderInv(v)'
      BY <2>1, <2>2 DEF QueueInv, OrderInv, SameTasks
    <3>2. ReadyInv(v)'
      <4>1. step[v].ready \in Nat
        BY <1>1, DocTypes
      <4>2. QED
        BY <4>1, <1>2, <1>3, <2>1, <2>2 DEF QueueInv, ReadyInv, SameTasks
    <3>3. UntouchedInv(v)'
      BY <1>2, <2>1, <2>2 DEF QueueInv, UntouchedInv, SameTasks, SameSent
    <3>4. CloseInv(v)'
      BY <2>2, <2>3 DEF CloseInv, SameTasks
    <3>5. PassedInv(v)'
      BY <1>2, <2>1, <2>2 DEF QueueInv, PassedInv, Passed, InHandIsDead, SameTasks
    <3>6. QED
      BY <3>1, <3>2, <3>3, <3>4, <3>5 DEF QueueInv
  <2>5. SentInv(v)'
    <3>1. RefreshInv(v)'
      BY <1>2, <2>1, <2>2 DEF SentInv, RefreshInv, SameTasks, SameSent
    <3>2. BaseInv(v)'
      BY <2>1, <2>2 DEF SentInv, BaseInv, InHandIsDead, SameTasks, SameSent
    <3>3. OverlayInv(v)'
      BY <1>2, <2>1, <2>2 DEF SentInv, OverlayInv, Expected, Leaving, SameTasks, SameSent
    <3>4. KnownInv(v)'
      BY <1>2, <1>3, <2>1, <2>2 DEF SentInv, KnownInv, Known, SameSent
    <3>5. QED
      BY <3>1, <3>2, <3>3, <3>4 DEF SentInv
  <2>6. RestInv(v)'
    <3>1. WillRefresh(v)'
      BY <1>2, <1>3 DEF WillRefresh
    <3>2. GoneInv(v)'
      BY <2>1, <2>2 DEF RestInv, GoneInv, SameTasks, SameSent
    <3>3. source[v] = Closed => ShownInv(v)'
      BY <1>2, <2>1, <2>2 DEF RestInv, ShownInv, SameTasks
    <3>4. source'[v] = source[v]
      BY <2>2 DEF SameTasks
    <3>5. QED
      BY <3>1, <3>2, <3>3, <3>4 DEF RestInv, CurrentInv, ShownInv
  <2>7. QED
    BY <2>4, <2>5, <2>6 DEF DocInv
<1>6. QED
  BY <1>4, <1>5

\* A refresh that runs finds no close.
LEMMA NothingLeaves ==
  ASSUME TypeInv, StartInv, NEW v \in Uris, QueueInv(v), phase # "idle"
  PROVE  ~ Leaving(v) /\ (step[v].pc \in {"analysing", "publishing"} => IsTask(queue[v][1]))
<1>1. CASE Refreshing
  <2>1. step[v].pc # "idle" => 1 \in 1 .. Len(queue[v])
    BY DocTypes
  <2>2. step[v].pc # "idle" => IsTask(queue[v][1])
    BY <1>1, <2>1 DEF QueueInv, CloseInv
  <2>3. QED
    BY <2>2 DEF Leaving
<1>2. CASE completed = 0
  BY <1>2 DEF QueueInv, UntouchedInv, Leaving
<1>3. QED
  BY <1>1, <1>2, LoopRefreshes

\* While a refresh runs, its steps leave the tasks as they are.
Looping ==
  /\ phase' # "idle" /\ pending' = pending /\ completed' = completed
  /\ startFailed' = startFailed /\ broken' = broken

LEMMA LoopQueue ==
  ASSUME NEW v \in Uris, QueueInv(v), Looping, OrderInv(v)',
         queue'[v] = queue[v], step'[v] = step[v], documents'[v] = documents[v] \/ completed # 0,
         token'[v] = RefreshToken => token[v] = RefreshToken \/ Refreshing,
         step[v].pc = "waiting" => step[v].ready > completed,
         Passed(v)' /\ step[v].pc \in {"debouncing", "analysing"} => InHandIsDead(v)'
  PROVE  QueueInv(v)'
<1>1. ReadyInv(v)'
  BY DEF QueueInv, ReadyInv, Looping
<1>2. UntouchedInv(v)'
  BY DEF QueueInv, UntouchedInv, Looping
<1>3. CloseInv(v)'
  BY DEF QueueInv, CloseInv, Looping, Refreshing, Starts
<1>4. PassedInv(v)'
  BY DEF PassedInv
<1>5. QED
  BY <1>1, <1>2, <1>3, <1>4 DEF QueueInv

LEMMA LoopRest ==
  ASSUME NEW v \in Uris, RestInv(v), Looping, SameTasks(v), documents'[v] = documents[v],
         shown'[v] = shown[v], WillRefresh(v) => WillRefresh(v)',
         WillRefresh(v)' \/ generation' = generation,
         phase = "publishing" /\ at = {v} => WillRefresh(v)'
  PROVE  RestInv(v)'
<1>1. Coming(v) => Coming(v)'
  BY DEF Coming, SameTasks
<1>2. CurrentInv(v)'
  BY <1>1 DEF RestInv, CurrentInv, Analysis, Looping, SameTasks
<1>3. GoneInv(v)'
  BY DEF RestInv, GoneInv, SameTasks
<1>4. Publishing(v) => Publishing(v)' \/ WillRefresh(v)'
  BY DEF Publishing, SameTasks
<1>5. ShownInv(v)'
  <2>1. CASE source[v] # Closed
    BY <2>1, <1>1, <1>4 DEF RestInv, ShownInv, Looping, SameTasks
  <2>2. CASE source[v] = Closed
    BY <2>2 DEF RestInv, ShownInv, Looping, SameTasks
  <2>3. QED
    BY <2>1, <2>2
<1>6. QED
  BY <1>2, <1>3, <1>5 DEF RestInv

\* The loops themselves send nothing.
LEMMA LoopSent ==
  ASSUME NEW v \in Uris, SentInv(v), SameTasks(v), SameSent(v), Looping, pending > 0,
         at' = {v} => phase' \notin {"analysing", "publishing"},
         Expected(v)' = Expected(v),
         v \in Queried /\ phase' \in {"preloading", "loading"} /\ v \in visited' /\ v \notin at' => Known(v)
  PROVE  SentInv(v)'
<1>1. RefreshInv(v)'
  BY DEF RefreshInv
<1>2. BaseInv(v)'
  BY DEF SentInv, BaseInv, InHandIsDead, SameTasks, SameSent
<1>3. OverlayInv(v)'
  BY DEF SentInv, OverlayInv, SameTasks, SameSent
<1>4. KnownInv(v)'
  BY DEF KnownInv, Known, SameSent, Looping
<1>5. QED
  BY <1>1, <1>2, <1>3, <1>4 DEF SentInv

\* What every step of a loop has in common
LEMMA LoopFrame ==
  ASSUME TypeInv, StartInv, RefreshStarts \/ Reset \/ Preload \/ \E u \in Uris : PreloadNext(u)
  PROVE  /\ Looping /\ pending > 0 /\ shown' = shown /\ documents' = documents /\ overlay' = overlay
         /\ \A v \in Uris : SameTasks(v)
<1>1. pending > 0
  BY DEF TypeInv, WorkspaceType, RefreshStarts, Reset, Preload, PreloadNext
<1>2. /\ pending' = pending /\ completed' = completed /\ startFailed' = startFailed /\ broken' = broken
      /\ shown' = shown /\ documents' = documents /\ overlay' = overlay /\ phase' # "idle"
  BY DEF RefreshStarts, Reset, Preload, PreloadNext, InDocuments, SameQueue, GoOn, documentVars, projectVars,
         upstreamVars
<1>3. /\ queue' = queue /\ step' = step /\ source' = source /\ session' = session
      /\ token' = token /\ dead' = dead
  BY DEF RefreshStarts, Reset, Preload, PreloadNext, InDocuments, taskVars, tokenVars, editorVars
<1>4. QED
  BY <1>1, <1>2, <1>3 DEF Looping, SameTasks

LEMMA RefreshStartsKeeps ==
  ASSUME ServerInv, RefreshStarts
  PROVE  StartInv' /\ \A v \in Uris : DocInv(v)'
<1>1. TypeInv /\ StartInv
  BY DEF ServerInv
<1>2. /\ Looping /\ pending > 0 /\ shown' = shown /\ documents' = documents /\ overlay' = overlay
      /\ \A v \in Uris : SameTasks(v)
  BY <1>1, LoopFrame
<1>3. /\ phase = "idle" /\ phase' = "refreshing" /\ at' = {} /\ visited' = {} /\ AllWentOn
      /\ virtualDocuments' = virtualDocuments
  BY DEF RefreshStarts, GoOn, documentVars
<1>4. StartInv'
  BY <1>1, <1>2, <1>3 DEF StartInv, Looping
<1>5. ASSUME NEW v \in Uris
      PROVE  DocInv(v)'
  <2>1. QueueInv(v) /\ SentInv(v) /\ RestInv(v) /\ SameTasks(v) /\ SameSent(v)
    BY <1>2, <1>3 DEF ServerInv, DocInv, SameSent
  <2>2. OrderInv(v)'
    BY <2>1 DEF QueueInv, OrderInv, SameTasks
  <2>3. step[v].pc = "waiting" => step[v].ready > completed
    <3>1. step[v].ready \in Nat /\ completed \in Nat
      BY <1>1, DocTypes DEF TypeInv, WorkspaceType
    <3>2. step[v].pc = "waiting" => ~ (completed >= step[v].ready)
      BY <1>3 DEF AllWentOn, WorkspaceIsReady
    <3>3. QED
      BY <3>1, <3>2
  <2>4. ~ Passed(v)'
    BY <1>3 DEF Passed
  <2>5. QueueInv(v)'
    BY <1>2, <2>1, <2>2, <2>3, <2>4, LoopQueue DEF SameTasks
  <2>6. Expected(v)' = Expected(v)
    BY <1>3, <2>1 DEF Expected, Leaving, SameTasks, SameSent
  <2>7. SentInv(v)'
    BY <1>2, <1>3, <2>1, <2>6, LoopSent
  <2>8. WillRefresh(v)'
    BY <1>3 DEF WillRefresh
  <2>9. RestInv(v)'
    BY <1>2, <2>1, <2>8, LoopRest
  <2>10. QED
    BY <2>5, <2>7, <2>9 DEF DocInv
<1>6. QED
  BY <1>4, <1>5

\* The document is in hand of nobody who is not cancelled when the loop has come by.
LEMMA ResetKeeps ==
  ASSUME ServerInv, Reset
  PROVE  StartInv' /\ \A v \in Uris : DocInv(v)'
<1>1. TypeInv /\ StartInv
  BY DEF ServerInv
<1>2. /\ Looping /\ pending > 0 /\ shown' = shown /\ documents' = documents /\ overlay' = overlay
      /\ \A v \in Uris : SameTasks(v)
  BY <1>1, LoopFrame
<1>3. /\ phase = "refreshing" /\ phase' = "resetting" /\ at' = {} /\ visited' = {}
      /\ \A v \in Uris : source[v] # Closed => v \in visited
      /\ virtualDocuments' = virtualDocuments /\ generation' = generation
  BY DEF Reset, GoOn, documentVars, projectVars
<1>4. Refreshing /\ completed > 0 /\ completed \in Nat
  BY <1>1, <1>3, LoopRefreshes DEF TypeInv, WorkspaceType
<1>5. StartInv'
  BY <1>1, <1>2, <1>3, <1>4 DEF StartInv, Looping
<1>6. ASSUME NEW v \in Uris
      PROVE  DocInv(v)'
  <2>1. QueueInv(v) /\ SentInv(v) /\ RestInv(v) /\ SameTasks(v) /\ SameSent(v)
    BY <1>2, <1>3 DEF ServerInv, DocInv, SameSent
  <2>2. OrderInv(v)'
    BY <2>1 DEF QueueInv, OrderInv, SameTasks
  <2>3. step[v].pc = "waiting" => step[v].ready > completed
    BY <1>3, <2>1 DEF QueueInv, ReadyInv
  <2>4. step[v].pc \in {"debouncing", "analysing"} => InHandIsDead(v)
    <3>1. source[v] = Closed => step[v].pc = "idle"
      BY <1>1, <1>4, <2>1, ClosedIsIdle DEF QueueInv
    <3>2. source[v] # Closed => Passed(v)
      BY <1>3 DEF Passed
    <3>3. QED
      BY <2>1, <3>1, <3>2 DEF QueueInv, PassedInv
  <2>5. InHandIsDead(v)' <=> InHandIsDead(v)
    BY <2>1 DEF InHandIsDead, SameTasks
  <2>6. QueueInv(v)'
    BY <1>2, <2>1, <2>2, <2>3, <2>4, <2>5, LoopQueue DEF SameTasks
  <2>7. Expected(v)' = Expected(v)
    BY <1>3, <2>1 DEF Expected, Leaving, SameTasks, SameSent
  <2>8. SentInv(v)'
    BY <1>2, <1>3, <2>1, <2>7, LoopSent
  <2>9. RestInv(v)'
    <3>1. CASE source[v] # Closed
      <4>1. WillRefresh(v) => WillRefresh(v)'
        BY <1>2, <1>3, <3>1 DEF WillRefresh, Looping
      <4>2. QED
        BY <1>2, <1>3, <2>1, <4>1, LoopRest
    <3>2. CASE source[v] = Closed
      <4>1. source'[v] = Closed /\ queue'[v] = queue[v] /\ step'[v] = step[v]
        BY <2>1, <3>2 DEF SameTasks
      <4>2. QED
        BY <1>2, <2>1, <3>2, <4>1 DEF RestInv, CurrentInv, GoneInv, ShownInv, Looping
    <3>3. QED
      BY <3>1, <3>2
  <2>10. QED
    BY <2>6, <2>8, <2>9 DEF DocInv
<1>7. QED
  BY <1>5, <1>6

LEMMA PreloadKeeps ==
  ASSUME ServerInv, Preload
  PROVE  StartInv' /\ \A v \in Uris : DocInv(v)'
<1>1. TypeInv /\ StartInv
  BY DEF ServerInv
<1>2. /\ Looping /\ pending > 0 /\ shown' = shown /\ documents' = documents /\ overlay' = overlay
      /\ \A v \in Uris : SameTasks(v)
  BY <1>1, LoopFrame
<1>3. /\ phase = "resetting" /\ phase' = "preloading" /\ at' = {} /\ visited' = {}
      /\ \A v \in Uris : virtualDocuments[v] # Closed => v \in visited
      /\ \A v \in Uris : virtualDocuments'[v] = Closed
      /\ generation' = generation
  BY DEF Preload, GoOn, projectVars
<1>4. StartInv'
  BY <1>1, <1>2, <1>3 DEF StartInv, Looping
<1>5. ASSUME NEW v \in Uris
      PROVE  DocInv(v)'
  <2>1. QueueInv(v) /\ SentInv(v) /\ RestInv(v) /\ SameTasks(v)
    BY <1>2 DEF ServerInv, DocInv
  <2>2. OrderInv(v)'
    BY <2>1 DEF QueueInv, OrderInv, SameTasks
  <2>3. step[v].pc = "waiting" => step[v].ready > completed
    BY <1>3, <2>1 DEF QueueInv, ReadyInv
  <2>4. step[v].pc \in {"debouncing", "analysing"} => InHandIsDead(v)
    BY <1>3, <2>1 DEF QueueInv, PassedInv, Passed
  <2>5. InHandIsDead(v)' <=> InHandIsDead(v)
    BY <2>1 DEF InHandIsDead, SameTasks
  <2>6. QueueInv(v)'
    BY <1>2, <2>1, <2>2, <2>3, <2>4, <2>5, LoopQueue DEF SameTasks
  <2>7. ~ Leaving(v) /\ ~ Leaving(v)'
    <3>1. ~ Leaving(v)
      BY <1>1, <1>3, <2>1, NothingLeaves
    <3>2. QED
      BY <2>1, <3>1 DEF Leaving, SameTasks
  <2>8. overlay'[v] = Expected(v)'
    <3>1. overlay[v] = IF documents[v] # Closed THEN documents[v] ELSE Closed
      BY <1>3, <2>1, <2>7 DEF SentInv, OverlayInv, Expected
    <3>2. QED
      BY <1>2, <1>3, <2>7, <3>1 DEF Expected
  <2>9. OverlayInv(v)'
    BY <1>2, <1>3, <2>1, <2>8 DEF SentInv, OverlayInv, SameTasks
  <2>10. RefreshInv(v)' /\ KnownInv(v)'
    BY <1>2, <1>3 DEF RefreshInv, KnownInv, Looping
  <2>11. BaseInv(v)'
    BY <1>2, <2>1 DEF SentInv, BaseInv, InHandIsDead, SameTasks
  <2>12. SentInv(v)'
    BY <2>9, <2>10, <2>11 DEF SentInv
  <2>13. WillRefresh(v) => WillRefresh(v)'
    BY <1>2, <1>3 DEF WillRefresh, Looping
  <2>14. RestInv(v)'
    BY <1>2, <1>3, <2>1, <2>13, LoopRest
  <2>15. QED
    BY <2>6, <2>12, <2>14 DEF DocInv
<1>6. QED
  BY <1>4, <1>5

LEMMA PreloadNextKeeps ==
  ASSUME ServerInv, NEW u \in Uris, PreloadNext(u)
  PROVE  StartInv' /\ \A v \in Uris : DocInv(v)'
<1>1. TypeInv /\ StartInv
  BY DEF ServerInv
<1>2. /\ Looping /\ pending > 0 /\ shown' = shown /\ documents' = documents /\ overlay' = overlay
      /\ \A v \in Uris : SameTasks(v)
  BY <1>1, LoopFrame
<1>3. /\ phase = "preloading" /\ visited' = visited \union {u} /\ generation' = generation
      /\ virtualDocuments' = virtualDocuments
      /\ IF Known(u) THEN phase' = phase /\ at' = at ELSE phase' = "loading" /\ at' = {u}
  BY DEF PreloadNext, GoOn, documentVars, projectVars
<1>4. at = {} /\ phase' \in {"preloading", "loading"} /\ (phase' = "loading" <=> at' # {})
  BY <1>1, <1>3 DEF StartInv
<1>5. StartInv'
  BY <1>1, <1>2, <1>3, <1>4 DEF StartInv, Looping
<1>6. ASSUME NEW v \in Uris
      PROVE  DocInv(v)'
  <2>1. QueueInv(v) /\ SentInv(v) /\ RestInv(v) /\ SameTasks(v) /\ SameSent(v)
    BY <1>2, <1>3 DEF ServerInv, DocInv, SameSent
  <2>2. OrderInv(v)'
    BY <2>1 DEF QueueInv, OrderInv, SameTasks
  <2>3. step[v].pc = "waiting" => step[v].ready > completed
    BY <1>3, <2>1 DEF QueueInv, ReadyInv
  <2>4. step[v].pc \in {"debouncing", "analysing"} => InHandIsDead(v)
    BY <1>3, <2>1 DEF QueueInv, PassedInv, Passed
  <2>5. InHandIsDead(v)' <=> InHandIsDead(v)
    BY <2>1 DEF InHandIsDead, SameTasks
  <2>6. QueueInv(v)'
    BY <1>2, <2>1, <2>2, <2>3, <2>4, <2>5, LoopQueue DEF SameTasks
  <2>7. Expected(v)' = Expected(v)
    BY <1>3, <1>4, <2>1 DEF Expected, Leaving, SameTasks, SameSent
  <2>8. v \in Queried /\ v \in visited' /\ v \notin at' => Known(v)
    <3>1. CASE v = u
      BY <1>3, <3>1
    <3>2. CASE v # u
      BY <1>3, <1>4, <2>1, <3>2 DEF SentInv, KnownInv
    <3>3. QED
      BY <3>1, <3>2
  <2>9. at' = {v} => phase' \notin {"analysing", "publishing"}
    BY <1>4
  <2>10. SentInv(v)'
    BY <1>2, <2>1, <2>7, <2>8, <2>9, LoopSent
  <2>11. WillRefresh(v) => WillRefresh(v)'
    BY <1>2, <1>3 DEF WillRefresh, Looping
  <2>12. RestInv(v)'
    BY <1>2, <1>3, <2>1, <2>11, LoopRest
  <2>13. QED
    BY <2>6, <2>10, <2>12 DEF DocInv
<1>7. QED
  BY <1>5, <1>6

(* The end of a refresh: those who waited for it may go on. *)
LEMMA EndQueue ==
  ASSUME TypeInv, StartInv, NEW v \in Uris, QueueInv(v), EndRefresh, SameTasks(v), phase # "idle",
         documents'[v] = documents[v], startFailed' => completed = 0 \/ startFailed
  PROVE  QueueInv(v)'
<1>1. /\ phase' = "idle" /\ pending' = pending - 1 /\ completed' = completed + 1
      /\ pending \in Nat /\ completed \in Nat /\ pending > 0
  BY DEF EndRefresh, GoOn, TypeInv, WorkspaceType
<1>2. OrderInv(v)'
  BY DEF QueueInv, OrderInv, SameTasks
<1>3. ReadyInv(v)'
  <2>1. step[v].ready \in Nat
    BY DocTypes
  <2>2. QED
    BY <1>1, <2>1 DEF QueueInv, ReadyInv, SameTasks
<1>4. UntouchedInv(v)'
  <2>1. CASE completed = 0
    BY <2>1 DEF QueueInv, UntouchedInv, SameTasks
  <2>2. CASE completed # 0
    <3>1. completed' # 0 /\ ~ (startFailed' /\ completed' = 1)
      BY <2>2, <1>1
    <3>2. QED
      BY <3>1 DEF UntouchedInv
  <2>3. QED
    BY <2>1, <2>2
<1>5. CloseInv(v)'
  <2>1. Refreshing' => Refreshing
    BY <1>1 DEF Refreshing, Starts
  <2>2. QED
    BY <2>1 DEF QueueInv, CloseInv, SameTasks
<1>6. PassedInv(v)'
  BY <1>1 DEF PassedInv, Passed
<1>7. QED
  BY <1>2, <1>3, <1>4, <1>5, <1>6 DEF QueueInv

LEMMA EndSent ==
  ASSUME NEW v \in Uris, SentInv(v), EndRefresh, SameTasks(v), SameSent(v), phase # "resetting",
         v \in Queried /\ ~ broken' => Known(v)
  PROVE  SentInv(v)'
<1>1. phase' = "idle" /\ at' = {}
  BY DEF EndRefresh, GoOn
<1>2. RefreshInv(v)' /\ KnownInv(v)'
  BY <1>1 DEF RefreshInv, KnownInv, Known, SameSent
<1>3. BaseInv(v)'
  BY DEF SentInv, BaseInv, InHandIsDead, SameTasks, SameSent
<1>4. Expected(v)' = Expected(v)
  BY <1>1 DEF Expected, Leaving, SameTasks, SameSent
<1>5. OverlayInv(v)'
  BY <1>4 DEF SentInv, OverlayInv, SameTasks, SameSent
<1>6. QED
  BY <1>2, <1>3, <1>5 DEF SentInv

LEMMA PreloadDoneKeeps ==
  ASSUME ServerInv, PreloadDone
  PROVE  StartInv' /\ \A v \in Uris : DocInv(v)'
<1>1. TypeInv /\ StartInv
  BY DEF ServerInv
<1>2. /\ EndRefresh /\ phase = "preloading" /\ visited = Uris /\ shown' = shown /\ documents' = documents
      /\ overlay' = overlay /\ virtualDocuments' = virtualDocuments /\ generation' = generation
      /\ broken' = broken /\ startFailed' = startFailed
  BY DEF PreloadDone, InDocuments, documentVars, projectVars, upstreamVars
<1>3. /\ queue' = queue /\ step' = step /\ source' = source /\ session' = session
      /\ token' = token /\ dead' = dead
  BY DEF PreloadDone, InDocuments, taskVars, tokenVars, editorVars
<1>4. /\ phase' = "idle" /\ at' = {} /\ pending' = pending - 1 /\ completed' = completed + 1
      /\ pending \in Nat /\ completed \in Nat /\ pending > 0 /\ at = {}
  BY <1>1, <1>2 DEF EndRefresh, GoOn, TypeInv, WorkspaceType, StartInv
<1>5. StartInv'
  BY <1>1, <1>2, <1>4 DEF StartInv
<1>6. ASSUME NEW v \in Uris
      PROVE  DocInv(v)'
  <2>1. QueueInv(v) /\ SentInv(v) /\ RestInv(v) /\ SameTasks(v) /\ SameSent(v)
    BY <1>2, <1>3 DEF ServerInv, DocInv, SameSent, SameTasks
  <2>2. QueueInv(v)'
    BY <1>1, <1>2, <2>1, EndQueue
  <2>3. v \in Queried => Known(v)
    BY <1>2, <1>4, <2>1 DEF SentInv, KnownInv
  <2>4. SentInv(v)'
    BY <1>2, <2>1, <2>3, EndSent
  <2>5. WillRefresh(v) => WillRefresh(v)'
    BY <1>2, <1>4 DEF WillRefresh
  <2>6. Coming(v) => Coming(v)'
    BY <1>3 DEF Coming
  <2>7. CurrentInv(v)'
    BY <1>2, <2>1, <2>5, <2>6 DEF RestInv, CurrentInv, Analysis, SameTasks
  <2>8. GoneInv(v)'
    BY <1>2, <2>1 DEF RestInv, GoneInv, SameTasks
  <2>9. Publishing(v) => Publishing(v)'
    BY <1>2, <1>3 DEF Publishing
  <2>10. ShownInv(v)'
    <3>1. CASE source[v] # Closed
      BY <3>1, <1>2, <2>1, <2>5, <2>6, <2>9 DEF RestInv, ShownInv, SameTasks
    <3>2. CASE source[v] = Closed
      BY <3>2, <1>2, <2>1 DEF RestInv, ShownInv, SameTasks
    <3>3. QED
      BY <3>1, <3>2
  <2>11. QED
    BY <2>2, <2>4, <2>7, <2>8, <2>10 DEF DocInv, RestInv
<1>7. QED
  BY <1>5, <1>6

(* A refresh fails because the schema cannot be loaded: nobody supersedes it. *)
LEMMA RefreshFailsKeeps ==
  ASSUME ServerInv, RefreshFails
  PROVE  StartInv' /\ \A v \in Uris : DocInv(v)'
<1>1. TypeInv /\ StartInv
  BY DEF ServerInv
<1>2. \A v \in Uris : RefreshToken \notin dead[v]
  BY <1>1, RefreshIsAlive DEF ServerInv, DocInv, QueueInv
<1>3. broken /\ phase \in {"analysing", "publishing", "loading"}
  <2>1. ASSUME NEW v \in at PROVE RefreshToken \notin dead[v]
    BY <1>1, <1>2 DEF TypeInv, WorkspaceType
  <2>2. QED
    BY <2>1 DEF RefreshFails
<1>4. /\ EndRefresh /\ documents' = documents /\ overlay' = overlay /\ virtualDocuments' = virtualDocuments
      /\ generation' = generation /\ (broken' <=> broken)
  BY DEF RefreshFails, projectVars, upstreamVars
<1>5. /\ queue' = queue /\ step' = step /\ source' = source /\ session' = session /\ token' = token
      /\ \A v \in Uris : dead'[v] = dead[v]
  BY <1>2 DEF RefreshFails, taskVars, editorVars
<1>6. /\ phase' = "idle" /\ at' = {} /\ pending' = pending - 1 /\ completed' = completed + 1
      /\ pending \in Nat /\ completed \in Nat /\ pending > 0
  BY <1>1, <1>3, <1>4 DEF EndRefresh, GoOn, TypeInv, WorkspaceType
<1>7. /\ completed = 0 => startFailed' /\ shown' = shown
      /\ completed # 0 => /\ startFailed' = startFailed
                          /\ \A v \in Uris : documents[v] = Closed => shown'[v] = shown[v]
  BY DEF RefreshFails
<1>8. StartInv'
  BY <1>1, <1>3, <1>4, <1>6, <1>7 DEF StartInv
<1>9. ASSUME NEW v \in Uris
      PROVE  DocInv(v)'
  <2>1. QueueInv(v) /\ SentInv(v) /\ RestInv(v) /\ SameTasks(v) /\ SameSent(v)
    BY <1>4, <1>5 DEF ServerInv, DocInv, SameSent, SameTasks
  <2>2. QueueInv(v)'
    BY <1>1, <1>3, <1>4, <1>7, <2>1, EndQueue
  <2>3. SentInv(v)'
    BY <1>3, <1>4, <2>1, EndSent
  <2>4. GoneInv(v)'
    BY <1>4, <2>1 DEF RestInv, GoneInv, SameTasks
  <2>5. source[v] = Closed => ShownInv(v)'
    <3>1. SUFFICES ASSUME source[v] = Closed, ~ startFailed', queue'[v] = <<>>
                   PROVE  shown'[v] \in {Nothing, Raw}
      BY <2>1 DEF ShownInv, SameTasks
    <3>2. queue[v] = <<>>
      BY <3>1, <1>5
    <3>3. documents[v] = Closed
      BY <3>1, <3>2, <2>1 DEF RestInv, GoneInv
    <3>4. ~ startFailed /\ shown'[v] = shown[v]
      BY <3>1, <3>3, <1>7, <1>1 DEF StartInv
    <3>5. QED
      BY <3>1, <3>2, <3>4, <2>1 DEF RestInv, ShownInv
  <2>6. CurrentInv(v)' /\ ShownInv(v)'
    BY <1>3, <1>4, <2>1, <2>5 DEF CurrentInv, ShownInv, SameTasks
  <2>7. QED
    BY <2>2, <2>3, <2>4, <2>6 DEF DocInv, RestInv
<1>10. QED
  BY <1>8, <1>9

(* The refresh supersedes what the document has in hand. *)
LEMMA RefreshNextKeeps ==
  ASSUME ServerInv, NEW u \in Uris, RefreshNext(u)
  PROVE  StartInv' /\ \A v \in Uris : DocInv(v)'
<1>1. TypeInv /\ StartInv
  BY DEF ServerInv
<1>2. /\ Looping /\ shown' = shown /\ documents' = documents /\ overlay' = overlay
      /\ virtualDocuments' = virtualDocuments /\ generation' = generation /\ queue' = queue /\ step' = step
      /\ source' = source /\ session' = session
  BY DEF RefreshNext, InDocuments, SameQueue, GoOn, documentVars, projectVars, upstreamVars, taskVars,
         editorVars, Looping
<1>3. /\ phase = "refreshing" /\ phase' = "analysing" /\ at' = {u} /\ visited' = visited \union {u}
      /\ held' = documents[u] /\ source[u] # Closed /\ Cancel(u)
  BY DEF RefreshNext, GoOn
<1>4. token'[u] = RefreshToken /\ \A v \in Uris : v # u => token'[v] = token[v]
  BY <1>1 DEF RefreshNext, TypeInv, TokenType
<1>5. Refreshing /\ completed > 0 /\ completed \in Nat /\ pending > 0
  BY <1>1, <1>3, LoopRefreshes DEF TypeInv, WorkspaceType
<1>6. /\ dead'[u] = Superseded(token[u], dead[u], queue[u]) /\ dead[u] \subseteq dead'[u]
      /\ \A v \in Uris : v # u => dead'[v] = dead[v]
  BY <1>1, <1>3, CancelledAre
<1>7. StartInv'
  BY <1>1, <1>2, <1>3, <1>5 DEF StartInv, Looping
<1>8. ASSUME NEW v \in Uris
      PROVE  QueueInv(v) /\ SentInv(v) /\ RestInv(v) /\ ~ Leaving(v) /\ dead[v] \subseteq dead'[v]
  BY <1>1, <1>3, <1>6, NothingLeaves DEF ServerInv, DocInv
<1>9. ASSUME NEW v \in Uris
      PROVE  OrderInv(v)' /\ (Passed(v)' /\ step[v].pc \in {"debouncing", "analysing"} => InHandIsDead(v)')
  <2>1. queue[v] \in Seq(Tasks) /\ Ordered(source[v], session[v], token[v], dead[v], queue[v])
    BY <1>1, <1>8, DocTypes DEF QueueInv, OrderInv
  <2>2. CASE v = u
    <3>1. Ordered(source[u], session[u], RefreshToken, dead'[u], queue[u])
      BY <1>3, <1>6, <2>1, <2>2, OrderedRefresh
    <3>2. OrderInv(v)'
      BY <1>2, <1>4, <2>2, <3>1 DEF OrderInv
    <3>3. step[v].pc # "idle" => 1 \in 1 .. Len(queue[v]) /\ queue[v][1] \in Tasks
      BY <1>1, DocTypes
    <3>4. step[v].pc # "idle" => IsTask(queue[v][1])
      BY <3>3, <1>5, <1>8 DEF QueueInv, CloseInv
    <3>5. step[v].pc # "idle" => DocToken(queue[v][1].doc) \in dead'[v]
      BY <3>3, <3>4, <1>3, <1>6, <2>1, <2>2, SupersededAll
    <3>6. step[v].pc # "idle" => TokenOf(queue[v][1]) \in dead'[v]
      BY <3>3, <3>4, <3>5, TaskTokens
    <3>7. QED
      BY <1>2, <3>2, <3>6 DEF InHandIsDead
  <2>3. CASE v # u
    <3>1. OrderInv(v)'
      BY <1>2, <1>4, <1>6, <2>1, <2>3 DEF OrderInv
    <3>2. Passed(v)' => Passed(v)
      BY <1>3, <2>3 DEF Passed
    <3>3. QED
      BY <3>1, <3>2, <1>2, <1>8 DEF QueueInv, PassedInv, InHandIsDead
  <2>4. QED
    BY <2>2, <2>3
<1>10. ASSUME NEW v \in Uris
       PROVE  DocInv(v)'
  <2>1. step[v].pc = "waiting" => step[v].ready > completed
    BY <1>3, <1>8 DEF QueueInv, ReadyInv
  <2>2. QueueInv(v)'
    BY <1>2, <1>5, <1>8, <1>9, <2>1, LoopQueue
  <2>3. RefreshInv(v)'
    <3>1. CASE v = u
      <4>1. documents[u] # Closed => overlay[u] # Closed
        BY <1>3, <1>8 DEF SentInv, OverlayInv, Expected
      <4>2. QED
        BY <3>1, <4>1, <1>2, <1>3, <1>4 DEF RefreshInv
    <3>2. CASE v # u
      BY <3>2, <1>3 DEF RefreshInv
    <3>3. QED
      BY <3>1, <3>2
  <2>4. BaseInv(v)'
    BY <1>2, <1>8 DEF SentInv, BaseInv, InHandIsDead
  <2>5. Expected(v)' = Expected(v)
    BY <1>2, <1>3 DEF Expected, Leaving
  <2>6. OverlayInv(v)'
    BY <1>2, <1>8, <2>5 DEF SentInv, OverlayInv
  <2>7. KnownInv(v)'
    BY <1>2, <1>3, <1>5 DEF KnownInv, Looping
  <2>8. RestInv(v)'
    <3>1. CASE v = u
      <4>1. WillRefresh(v)'
        BY <1>3, <3>1 DEF WillRefresh
      <4>2. source'[v] # Closed
        BY <1>2, <1>3, <3>1
      <4>3. QED
        BY <4>1, <4>2 DEF RestInv, CurrentInv, GoneInv, ShownInv
    <3>2. CASE v # u
      <4>1. SameTasks(v)
        BY <1>2, <1>4, <1>6, <3>2 DEF SameTasks
      <4>2. WillRefresh(v) => WillRefresh(v)'
        BY <1>2, <1>3, <3>2 DEF WillRefresh, Looping
      <4>3. QED
        BY <1>2, <1>3, <1>8, <4>1, <4>2, LoopRest
    <3>3. QED
      BY <3>1, <3>2
  <2>9. QED
    BY <2>2, <2>3, <2>4, <2>6, <2>7, <2>8 DEF DocInv, SentInv
<1>11. QED
  BY <1>7, <1>10

(* What it analyses is current, is sent, and is about to be published. *)
LEMMA RefreshAnalysedKeeps ==
  ASSUME ServerInv, NEW u \in Uris, RefreshAnalysed(u)
  PROVE  StartInv' /\ \A v \in Uris : DocInv(v)'
<1>1. TypeInv /\ StartInv
  BY DEF ServerInv
<1>2. PICK state \in States :
        /\ state.doc = source[u] /\ state.generation = generation
        /\ documents' = [documents EXCEPT ![u] = state] /\ Send(u, held, state) /\ held' = state
  BY <1>1, RefreshAnalysedStep
<1>3. /\ Looping /\ shown' = shown /\ virtualDocuments' = virtualDocuments /\ generation' = generation
      /\ visited' = visited
  BY DEF RefreshAnalysed, InDocuments, SameQueue, GoOn, projectVars, Looping
<1>4. /\ phase = "analysing" /\ phase' = "publishing" /\ at = {u} /\ at' = {u}
      /\ \A v \in Uris : SameTasks(v)
  BY DEF RefreshAnalysed, GoOn, InDocuments, taskVars, tokenVars, editorVars, SameTasks
<1>5. Refreshing /\ completed > 0 /\ completed \in Nat /\ pending > 0
  BY <1>1, <1>4, LoopRefreshes DEF TypeInv, WorkspaceType
<1>6. ASSUME NEW v \in Uris
      PROVE  /\ QueueInv(v) /\ SentInv(v) /\ RestInv(v) /\ SameTasks(v) /\ ~ Leaving(v)
             /\ step[v].pc \in {"analysing", "publishing"} => IsTask(queue[v][1])
  BY <1>1, <1>4, NothingLeaves DEF ServerInv, DocInv
<1>7. u \in visited /\ source[u] # Closed /\ (held # Closed => overlay[u] # Closed)
  BY <1>4, <1>6 DEF SentInv, RefreshInv
<1>8. /\ documents'[u] = state /\ state # Closed /\ overlay'[u] = state
      /\ \A v \in Uris : v # u => documents'[v] = documents[v] /\ overlay'[v] = overlay[v]
  <2>1. documents'[u] = state /\ \A v \in Uris : v # u => documents'[v] = documents[v]
    BY <1>1, <1>2 DEF TypeInv, StateType
  <2>2. overlay'[u] = state /\ \A v \in Uris : v # u => overlay'[v] = overlay[v]
    BY <1>1, <1>2, <1>7, SendStep DEF TypeInv
  <2>3. QED
    BY <2>1, <2>2, DocsAreDistinct
<1>9. StartInv'
  BY <1>1, <1>3, <1>4, <1>5 DEF StartInv, Looping
<1>10. ASSUME NEW v \in Uris
       PROVE  QueueInv(v)'
  <2>1. OrderInv(v)' /\ (InHandIsDead(v)' <=> InHandIsDead(v))
    BY <1>6 DEF QueueInv, OrderInv, InHandIsDead, SameTasks
  <2>2. step[v].pc = "waiting" => step[v].ready > completed
    BY <1>4, <1>6 DEF QueueInv, ReadyInv
  <2>3. Passed(v)' => Passed(v)
    BY <1>3, <1>4 DEF Passed
  <2>4. QED
    BY <1>3, <1>5, <1>6, <2>1, <2>2, <2>3, LoopQueue DEF QueueInv, PassedInv, SameTasks
<1>11. ASSUME NEW v \in Uris
       PROVE  SentInv(v)'
  <2>1. ~ Leaving(v)'
    BY <1>6 DEF Leaving, SameTasks
  <2>2. KnownInv(v)'
    BY <1>3, <1>4, <1>5 DEF KnownInv, Looping
  <2>3. CASE v = u
    <3>1. RefreshInv(v)'
      BY <2>3, <1>2, <1>3, <1>4, <1>6, <1>7, <1>8 DEF RefreshInv, SameTasks
    <3>2. BaseInv(v)'
      BY <2>3, <1>8 DEF BaseInv
    <3>3. OverlayInv(v)'
      <4>1. overlay'[v] = Expected(v)'
        BY <2>1, <2>3, <1>8 DEF Expected
      <4>2. step'[v].pc \in {"analysing", "publishing"} => IsTask(queue'[v][1])
        BY <1>6 DEF SameTasks
      <4>3. QED
        BY <4>1, <4>2, <1>3, <1>6 DEF SentInv, OverlayInv
    <3>4. QED
      BY <2>2, <3>1, <3>2, <3>3 DEF SentInv
  <2>4. CASE v # u
    <3>1. SameSent(v)
      BY <2>4, <1>3, <1>8 DEF SameSent
    <3>2. RefreshInv(v)'
      BY <2>4, <1>4 DEF RefreshInv
    <3>3. BaseInv(v)'
      BY <3>1, <1>6 DEF SentInv, BaseInv, InHandIsDead, SameTasks, SameSent
    <3>4. Expected(v)' = Expected(v)
      BY <2>1, <3>1, <1>4, <1>6 DEF Expected, SameSent
    <3>5. OverlayInv(v)'
      BY <3>1, <3>4, <1>6 DEF SentInv, OverlayInv, SameTasks, SameSent
    <3>6. QED
      BY <2>2, <3>2, <3>3, <3>5 DEF SentInv
  <2>5. QED
    BY <2>3, <2>4
<1>12. ASSUME NEW v \in Uris
       PROVE  RestInv(v)'
  <2>1. CASE v = u
    <3>1. source'[v] # Closed /\ source'[v] = source[u]
      BY <2>1, <1>6, <1>7 DEF SameTasks
    <3>2. Analysis(v)' /\ Publishing(v)'
      BY <2>1, <3>1, <1>2, <1>3, <1>4, <1>8 DEF Analysis, Publishing
    <3>3. QED
      BY <3>1, <3>2 DEF RestInv, CurrentInv, GoneInv, ShownInv
  <2>2. CASE v # u
    <3>1. WillRefresh(v) => WillRefresh(v)'
      BY <2>2, <1>3, <1>4 DEF WillRefresh, Looping
    <3>2. QED
      BY <2>2, <3>1, <1>3, <1>4, <1>6, <1>8, LoopRest
  <2>3. QED
    BY <2>1, <2>2
<1>13. QED
  BY <1>9, <1>10, <1>11, <1>12 DEF DocInv

LEMMA RefreshPublishedKeeps ==
  ASSUME ServerInv, NEW u \in Uris, RefreshPublished(u)
  PROVE  StartInv' /\ \A v \in Uris : DocInv(v)'
<1>1. TypeInv /\ StartInv
  BY DEF ServerInv
<1>2. /\ Looping /\ documents' = documents /\ virtualDocuments' = virtualDocuments
      /\ overlay' = overlay /\ generation' = generation /\ visited' = visited /\ Show(u, held)
      /\ broken = FALSE
  BY DEF RefreshPublished, InDocuments, SameQueue, GoOn, projectVars, upstreamVars, Looping
<1>3. /\ phase = "publishing" /\ phase' = "refreshing" /\ at = {u} /\ at' = {}
      /\ \A v \in Uris : SameTasks(v)
  BY DEF RefreshPublished, GoOn, InDocuments, taskVars, tokenVars, editorVars, SameTasks
<1>4. Refreshing /\ completed > 0 /\ completed \in Nat /\ pending > 0 /\ held \in States
  BY <1>1, <1>3, LoopRefreshes DEF TypeInv, WorkspaceType
<1>5. ASSUME NEW v \in Uris
      PROVE  QueueInv(v) /\ SentInv(v) /\ RestInv(v) /\ SameTasks(v) /\ SameSent(v)
  BY <1>2, <1>3 DEF ServerInv, DocInv, SameSent
<1>6. u \in visited /\ source[u] # Closed /\ held = documents[u]
  BY <1>3, <1>5 DEF SentInv, RefreshInv
<1>7. /\ shown'[u] = IF Current(u, held) THEN held ELSE shown[u]
      /\ \A v \in Uris : v # u => shown'[v] = shown[v]
  BY <1>1, <1>2, <1>4, ShowStep DEF TypeInv
<1>8. StartInv'
  BY <1>1, <1>2, <1>3, <1>4 DEF StartInv, Looping
<1>9. ASSUME NEW v \in Uris
      PROVE  DocInv(v)'
  <2>1. OrderInv(v)' /\ (InHandIsDead(v)' <=> InHandIsDead(v))
    BY <1>5 DEF QueueInv, OrderInv, InHandIsDead, SameTasks
  <2>2. step[v].pc = "waiting" => step[v].ready > completed
    BY <1>3, <1>5 DEF QueueInv, ReadyInv
  <2>3. Passed(v)' => Passed(v)
    BY <1>2, <1>3 DEF Passed
  <2>4. QueueInv(v)'
    BY <1>2, <1>5, <2>1, <2>2, <2>3, LoopQueue DEF QueueInv, PassedInv, SameTasks
  <2>5. Expected(v)' = Expected(v)
    BY <1>3, <1>5 DEF Expected, Leaving, SameTasks, SameSent
  <2>6. SentInv(v)'
    BY <1>2, <1>3, <1>4, <1>5, <2>5, LoopSent
  <2>7. WillRefresh(v) => WillRefresh(v)'
    BY <1>2, <1>3 DEF WillRefresh, Looping
  <2>8. RestInv(v)'
    <3>1. CASE v = u
      <4>1. source'[v] = source[v] /\ source[v] # Closed /\ documents'[v] = documents[v]
        BY <3>1, <1>2, <1>5, <1>6 DEF SameTasks
      <4>2. Coming(v) => Coming(v)'
        BY <1>5 DEF Coming, SameTasks
      <4>3. Analysis(v)' <=> Analysis(v)
        BY <1>2, <4>1 DEF Analysis
      <4>4. WillRefresh(v) \/ Coming(v) \/ Analysis(v)
        BY <1>2, <1>5, <4>1 DEF RestInv, CurrentInv
      <4>5. Analysis(v) => shown'[v] = documents'[v]
        BY <3>1, <4>1, <1>6, <1>7 DEF Analysis, Current
      <4>6. QED
        BY <2>7, <4>1, <4>2, <4>3, <4>4, <4>5 DEF RestInv, CurrentInv, GoneInv, ShownInv
    <3>2. CASE v # u
      BY <3>2, <2>7, <1>2, <1>3, <1>5, <1>7, LoopRest
    <3>3. QED
      BY <3>1, <3>2
  <2>9. QED
    BY <2>4, <2>6, <2>8 DEF DocInv
<1>10. QED
  BY <1>8, <1>9

(* What is on disk leaves upstream, what is open stays. *)
LEMMA ResetNextKeeps ==
  ASSUME ServerInv, NEW u \in Uris, ResetNext(u)
  PROVE  StartInv' /\ \A v \in Uris : DocInv(v)'
<1>1. TypeInv /\ StartInv
  BY DEF ServerInv
<1>2. /\ phase = "resetting" /\ phase' = phase /\ at' = at /\ visited' = visited \union {u}
      /\ documents' = documents /\ shown' = shown /\ generation' = generation
      /\ \A v \in Uris : SameTasks(v)
  BY DEF ResetNext, InDocuments, SameQueue, projectVars, taskVars, tokenVars, editorVars, SameTasks
<1>3. Looping /\ at = {} /\ at' = {} /\ pending > 0
  BY <1>1, <1>2 DEF ResetNext, InDocuments, SameQueue, projectVars, Looping, StartInv, TypeInv, WorkspaceType
<1>4. /\ \A v \in Uris : v # u => overlay'[v] = overlay[v] /\ virtualDocuments'[v] = virtualDocuments[v]
      /\ documents[u] # Closed => overlay'[u] = overlay[u] /\ virtualDocuments'[u] = Closed
      /\ documents[u] = Closed => overlay'[u] = Closed /\ virtualDocuments'[u] = virtualDocuments[u]
  <2>1. CASE documents[u] # Closed
    BY <2>1, <1>1 DEF ResetNext, upstreamVars, TypeInv, StateType
  <2>2. CASE documents[u] = Closed
    BY <2>2, <1>1, SendCloseStep DEF ResetNext, TypeInv
  <2>3. QED
    BY <2>1, <2>2
<1>5. StartInv'
  BY <1>1, <1>2, <1>3 DEF StartInv, Looping
<1>6. ASSUME NEW v \in Uris
      PROVE  DocInv(v)'
  <2>1. QueueInv(v) /\ SentInv(v) /\ RestInv(v) /\ SameTasks(v) /\ ~ Leaving(v)
    BY <1>1, <1>2, NothingLeaves DEF ServerInv, DocInv
  <2>2. OrderInv(v)' /\ (InHandIsDead(v)' <=> InHandIsDead(v))
    BY <2>1 DEF QueueInv, OrderInv, InHandIsDead, SameTasks
  <2>3. step[v].pc = "waiting" => step[v].ready > completed
    BY <1>2, <2>1 DEF QueueInv, ReadyInv
  <2>4. step[v].pc \in {"debouncing", "analysing"} => InHandIsDead(v)
    BY <1>2, <2>1 DEF QueueInv, PassedInv, Passed
  <2>5. QueueInv(v)'
    BY <1>2, <1>3, <2>1, <2>2, <2>3, <2>4, LoopQueue DEF SameTasks
  <2>6. RefreshInv(v)' /\ KnownInv(v)'
    BY <1>2, <1>3 DEF RefreshInv, KnownInv, Looping
  <2>7. BaseInv(v)'
    BY <2>1, <2>2, <2>4 DEF BaseInv, SameTasks
  <2>8. ~ Leaving(v)'
    BY <2>1 DEF Leaving, SameTasks
  <2>9. overlay'[v] = Expected(v)'
    <3>1. overlay[v] = Expected(v)
      BY <2>1 DEF SentInv, OverlayInv
    <3>2. CASE v = u
      BY <3>1, <3>2, <2>1, <2>8, <1>2, <1>4 DEF Expected
    <3>3. CASE v # u
      BY <3>1, <3>3, <2>1, <2>8, <1>2, <1>4 DEF Expected
    <3>4. QED
      BY <3>2, <3>3
  <2>10. OverlayInv(v)'
    <3>1. virtualDocuments'[v] \in {virtualDocuments[v], Closed}
      BY <1>4
    <3>2. QED
      BY <3>1, <2>1, <2>9, <1>2 DEF SentInv, OverlayInv, SameTasks
  <2>11. WillRefresh(v) => WillRefresh(v)'
    BY <1>2, <1>3 DEF WillRefresh, Looping
  <2>12. RestInv(v)'
    BY <1>2, <1>3, <2>1, <2>11, LoopRest
  <2>13. QED
    BY <2>5, <2>6, <2>7, <2>10, <2>12 DEF DocInv, SentInv
<1>7. QED
  BY <1>5, <1>6

LEMMA PreloadedKeeps ==
  ASSUME ServerInv, NEW u \in Uris, Preloaded(u)
  PROVE  StartInv' /\ \A v \in Uris : DocInv(v)'
<1>1. TypeInv /\ StartInv
  BY DEF ServerInv
<1>2. /\ phase = "loading" /\ phase' = "preloading" /\ at = {u} /\ at' = {} /\ visited' = visited
      /\ documents' = documents /\ shown' = shown /\ generation' = generation
      /\ \A v \in Uris : SameTasks(v)
  BY DEF Preloaded, GoOn, InDocuments, SameQueue, projectVars, taskVars, tokenVars, editorVars, SameTasks
<1>3. Looping /\ pending > 0
  BY <1>1, <1>2 DEF Preloaded, InDocuments, SameQueue, projectVars, Looping, TypeInv, WorkspaceType
<1>4. /\ \A v \in Uris : v # u => overlay'[v] = overlay[v] /\ virtualDocuments'[v] = virtualDocuments[v]
      /\ \/ /\ Known(u) \/ u \notin Queried
            /\ overlay'[u] = overlay[u] /\ virtualDocuments'[u] = virtualDocuments[u]
         \/ /\ ~ Known(u) /\ u \in Queried
            /\ overlay'[u] = virtualDocuments'[u] /\ virtualDocuments'[u] # Closed
  <2>1. CASE /\ Known(u) \/ u \notin Queried
             /\ virtualDocuments' = virtualDocuments /\ UNCHANGED upstreamVars
    BY <2>1 DEF upstreamVars
  <2>2. ASSUME ~ Known(u), u \in Queried, NEW state \in States,
               virtualDocuments' = [virtualDocuments EXCEPT ![u] = state], Send(u, Closed, state)
        PROVE  /\ \A v \in Uris :
                    v # u => overlay'[v] = overlay[v] /\ virtualDocuments'[v] = virtualDocuments[v]
               /\ overlay'[u] = virtualDocuments'[u] /\ virtualDocuments'[u] # Closed
    <3>1. overlay'[u] = state /\ \A v \in Uris : v # u => overlay'[v] = overlay[v]
      BY <1>1, <2>2, SendStep DEF TypeInv
    <3>2. virtualDocuments'[u] = state /\ \A v \in Uris : v # u => virtualDocuments'[v] = virtualDocuments[v]
      BY <1>1, <2>2 DEF TypeInv, StateType
    <3>3. QED
      BY <3>1, <3>2, DocsAreDistinct
  <2>3. QED
    BY <1>1, <2>1, <2>2, PreloadedStep
<1>5. StartInv'
  BY <1>1, <1>2, <1>3 DEF StartInv, Looping
<1>6. ASSUME NEW v \in Uris
      PROVE  DocInv(v)'
  <2>1. QueueInv(v) /\ SentInv(v) /\ RestInv(v) /\ SameTasks(v) /\ ~ Leaving(v)
    BY <1>1, <1>2, NothingLeaves DEF ServerInv, DocInv
  <2>2. OrderInv(v)' /\ (InHandIsDead(v)' <=> InHandIsDead(v))
    BY <2>1 DEF QueueInv, OrderInv, InHandIsDead, SameTasks
  <2>3. step[v].pc = "waiting" => step[v].ready > completed
    BY <1>2, <2>1 DEF QueueInv, ReadyInv
  <2>4. step[v].pc \in {"debouncing", "analysing"} => InHandIsDead(v)
    BY <1>2, <2>1 DEF QueueInv, PassedInv, Passed
  <2>5. QueueInv(v)'
    BY <1>2, <1>3, <2>1, <2>2, <2>3, <2>4, LoopQueue DEF SameTasks
  <2>6. RefreshInv(v)'
    BY <1>2 DEF RefreshInv
  <2>7. BaseInv(v)'
    BY <2>1, <2>2, <2>4 DEF BaseInv, SameTasks
  <2>8. ~ Leaving(v)'
    BY <2>1 DEF Leaving, SameTasks
  <2>9. overlay[v] = IF documents[v] # Closed THEN documents[v] ELSE virtualDocuments[v]
    BY <1>2, <2>1 DEF SentInv, OverlayInv, Expected
  <2>10. overlay'[v] = Expected(v)'
    <3>1. CASE v = u
      BY <3>1, <2>8, <2>9, <1>2, <1>4 DEF Expected, Known
    <3>2. CASE v # u
      BY <3>2, <2>8, <2>9, <1>2, <1>4 DEF Expected
    <3>3. QED
      BY <3>1, <3>2
  <2>11. OverlayInv(v)'
    <3>1. virtualDocuments'[v] # Closed => v \in Queried
      BY <1>4, <2>1 DEF SentInv, OverlayInv
    <3>2. QED
      BY <3>1, <2>1, <2>10, <1>2 DEF SentInv, OverlayInv, SameTasks
  <2>12. KnownInv(v)'
    <3>1. v \in Queried /\ v \in visited => Known(v)'
      <4>1. CASE v = u
        BY <4>1, <1>2, <1>4 DEF Known
      <4>2. CASE v # u
        BY <4>2, <1>2, <1>4, <2>1 DEF SentInv, KnownInv, Known
      <4>3. QED
        BY <4>1, <4>2
    <3>2. QED
      BY <3>1, <1>2, <1>3 DEF KnownInv, Looping
  <2>13. WillRefresh(v) => WillRefresh(v)'
    BY <1>2, <1>3 DEF WillRefresh, Looping
  <2>14. RestInv(v)'
    BY <1>2, <1>3, <2>1, <2>13, LoopRest
  <2>15. QED
    BY <2>5, <2>6, <2>7, <2>11, <2>12, <2>14 DEF DocInv, SentInv
<1>7. QED
  BY <1>5, <1>6

(* What upstream says of a file without a state is not about an analysis: there is none yet
   of an open document, and it is on its way. *)
LEMMA ForwardedKeeps ==
  ASSUME ServerInv, NEW u \in Uris, NativeForwarded(u)
  PROVE  StartInv' /\ \A v \in Uris : DocInv(v)'
<1>1. TypeInv /\ StartInv /\ DocInv(u)
  BY DEF ServerInv
<1>2. SameWork /\ \A v \in Uris : SameTasks(v) /\ SameSent(v)
  BY DEF NativeForwarded, SameWork, SameTasks, SameSent, workspaceVars, projectVars,
         taskVars, tokenVars, editorVars, upstreamVars, documentVars
<1>3. documents[u] = Closed /\ shown'[u] \in {Nothing, Raw} /\ \A v \in Uris : v # u => shown'[v] = shown[v]
  BY <1>1 DEF NativeForwarded, TypeInv, StateType
<1>4. QueueInv(u)' /\ SentInv(u)'
  <2>1. documents'[u] = documents[u] /\ QueueInv(u) /\ SentInv(u)
    BY <1>1, <1>2 DEF DocInv, SameSent
  <2>2. QED
    BY <1>2, <2>1, SameQueueInv, SameSentInv
<1>5. CurrentInv(u) /\ GoneInv(u)
  BY <1>1 DEF DocInv, RestInv
<1>6. CurrentInv(u)'
  BY <1>2, <1>5 DEF CurrentInv, WillRefresh, Coming, Analysis, SameTasks, SameSent, SameWork
<1>7. GoneInv(u)'
  BY <1>2, <1>5 DEF GoneInv, SameTasks, SameSent
<1>8. source[u] # Closed => broken \/ WillRefresh(u) \/ Coming(u)
  BY <1>3, <1>5 DEF CurrentInv, Analysis
<1>9. ShownInv(u)'
  BY <1>2, <1>3, <1>8 DEF ShownInv, WillRefresh, Coming, SameTasks, SameWork
<1>10. DocInv(u)'
  BY <1>4, <1>6, <1>7, <1>9 DEF DocInv, RestInv
<1>11. QED
  BY <1>1, <1>2, <1>3, <1>10, OthersKeep DEF ServerInv

(* What upstream publishes of a document with a state is shown only of the newest analysis. *)
LEMMA NativeKeeps ==
  ASSUME ServerInv, NEW u \in Uris, NativeDiagnostics(u) \/ NativePublished(u)
  PROVE  StartInv' /\ \A v \in Uris : DocInv(v)'
<1>1. TypeInv /\ StartInv
  BY DEF ServerInv
<1>2. SameWork /\ \A v \in Uris : SameTasks(v) /\ SameSent(v)
  BY DEF NativeDiagnostics, NativePublished, SameWork, SameTasks, SameSent, workspaceVars, projectVars,
         taskVars, tokenVars, editorVars, upstreamVars, documentVars
<1>3. StartInv'
  BY <1>1, <1>2 DEF StartInv, SameWork
<1>4. \/ shown' = shown
      \/ /\ source[u] # Closed /\ shown'[u] = documents[u]
         /\ \A v \in Uris : v # u => shown'[v] = shown[v]
  <2>1. SUFFICES ASSUME shown' # shown
                 PROVE  /\ source[u] # Closed /\ shown'[u] = documents[u]
                        /\ \A v \in Uris : v # u => shown'[v] = shown[v]
    OBVIOUS
  <2>2. native[u] \in States /\ Show(u, native[u])
    BY <1>1, <2>1 DEF NativeDiagnostics, NativePublished, TypeInv, StateType
  <2>3. Current(u, native[u])
    BY <2>1, <2>2 DEF Show
  <2>4. native[u].doc # Closed
    BY <2>2, DocsAreDistinct DEF States
  <2>5. source[u] = native[u].doc /\ documents[u] = native[u]
    BY <2>3 DEF Current
  <2>6. /\ shown'[u] = IF Current(u, native[u]) THEN native[u] ELSE shown[u]
        /\ \A v \in Uris : v # u => shown'[v] = shown[v]
    BY <1>1, <2>2, ShowStep DEF TypeInv
  <2>7. QED
    BY <2>3, <2>4, <2>5, <2>6
<1>5. ASSUME NEW v \in Uris
      PROVE  DocInv(v)'
  <2>1. QueueInv(v) /\ SentInv(v) /\ RestInv(v) /\ SameTasks(v) /\ SameSent(v) /\ documents'[v] = documents[v]
    BY <1>2 DEF ServerInv, DocInv, SameSent
  <2>2. QueueInv(v)' /\ SentInv(v)'
    BY <1>2, <2>1, SameQueueInv, SameSentInv
  <2>3. CASE shown'[v] = shown[v]
    BY <2>1, <2>2, <2>3, <1>2, SameRestInv DEF DocInv
  <2>4. CASE v = u /\ source[u] # Closed /\ shown'[u] = documents[u]
    <3>1. CurrentInv(v)'
      BY <1>2, <2>1 DEF RestInv, CurrentInv, WillRefresh, Coming, Analysis, SameTasks, SameSent, SameWork
    <3>2. GoneInv(v)' /\ ShownInv(v)'
      BY <2>1, <2>4 DEF GoneInv, ShownInv, SameTasks
    <3>3. QED
      BY <2>2, <3>1, <3>2 DEF DocInv, RestInv
  <2>5. QED
    BY <2>3, <2>4, <1>4
<1>6. QED
  BY <1>3, <1>5

-------------------------------------------------------------------------------
(***************************************************************************)
(* The theorems                                                            *)
(***************************************************************************)
LEMMA ServerInit == Init => ServerInv
<1> SUFFICES ASSUME Init PROVE ServerInv
  OBVIOUS
<1>1. TypeInv
  BY TypeInit
<1>2. /\ phase = "preloading" /\ visited = {} /\ at = {} /\ pending = 1 /\ completed = 0
      /\ startFailed = FALSE
  BY DEF Init
<1>3. StartInv
  BY <1>2 DEF StartInv
<1>4. ASSUME NEW v \in Uris
      PROVE  DocInv(v)
  <2>1. /\ source[v] = Closed /\ session[v] = 0 /\ documents[v] = Closed /\ virtualDocuments[v] = Closed
        /\ token[v] = NoToken /\ dead[v] = {} /\ queue[v] = <<>> /\ step[v] = Idle
        /\ overlay[v] = Closed /\ shown[v] = Nothing
    BY DEF Init
  <2>2. step[v].pc = "idle" /\ step[v].state = Closed
    BY <2>1 DEF Idle
  <2>3. Len(queue[v]) = 0 /\ ~ Refreshing
    BY <2>1, <1>2, EmptySeq DEF Refreshing, Starts
  <2>4. OrderInv(v)
    BY <2>1, <2>3 DEF OrderInv, Ordered, Newest, Rising, TokenFits, DeadFits
  <2>5. QueueInv(v)
    BY <2>1, <2>2, <2>3, <2>4 DEF QueueInv, ReadyInv, UntouchedInv, CloseInv, PassedInv
  <2>6. SentInv(v)
    BY <1>2, <2>1, <2>2 DEF SentInv, RefreshInv, BaseInv, OverlayInv, Expected, Leaving, KnownInv
  <2>7. RestInv(v)
    BY <2>1 DEF RestInv, CurrentInv, GoneInv, ShownInv
  <2>8. QED
    BY <2>5, <2>6, <2>7 DEF DocInv
<1>5. QED
  BY <1>1, <1>3, <1>4 DEF ServerInv

LEMMA ServerStep == ASSUME Considerate PROVE ServerInv /\ [Next]_vars => ServerInv'
<1> SUFFICES ASSUME ServerInv, [Next]_vars PROVE ServerInv'
  OBVIOUS
<1>1. TypeInv'
  BY TypeStep DEF ServerInv
<1>2. StartInv' /\ \A v \in Uris : DocInv(v)'
  <2>1. CASE \E u \in Uris : DidOpen(u) \/ DidChange(u) \/ DidClose(u)
    BY <2>1, DidOpenKeeps, DidChangeKeeps, DidCloseKeeps
  <2>2. CASE DidChangeWatchedFiles
    BY <2>2, WatchedKeeps
  <2>3. CASE \E u \in Uris : Open(u) \/ Debounce(u) \/ Change(u) \/ Close(u) \/ Analysed(u) \/ Unopened(u)
    BY <2>3, ProceedKeeps
  <2>4. CASE \E u \in Uris : Abort(u) \/ Fail(u) \/ Published(u) \/ Cleared(u)
    BY <2>4, EndedKeeps
  <2>5. CASE RefreshStarts \/ Reset \/ Preload \/ PreloadDone \/ RefreshFails
    BY <2>5, RefreshStartsKeeps, ResetKeeps, PreloadKeeps, PreloadDoneKeeps, RefreshFailsKeeps
  <2>6. CASE \E u \in Uris : RefreshNext(u) \/ RefreshAnalysed(u) \/ RefreshPublished(u)
                             \/ ResetNext(u) \/ PreloadNext(u) \/ Preloaded(u)
    BY <2>6, RefreshNextKeeps, RefreshAnalysedKeeps, RefreshPublishedKeeps, ResetNextKeeps, PreloadNextKeeps,
       PreloadedKeeps
  <2>7. CASE \E u \in Uris : NativeForwarded(u) \/ NativeDiagnostics(u) \/ NativePublished(u)
    BY <2>7, ForwardedKeeps, NativeKeeps
  <2>8. CASE UNCHANGED vars
    <3>1. SameWork /\ \A v \in Uris : SameTasks(v) /\ SameSent(v) /\ shown'[v] = shown[v]
      BY <2>8 DEF vars, SameWork, SameTasks, SameSent, workspaceVars, projectVars, taskVars, tokenVars,
                  editorVars, upstreamVars, documentVars
    <3>2. ASSUME NEW v \in Uris
          PROVE  DocInv(v)'
      <4>1. documents'[v] = documents[v]
        BY <3>1 DEF SameSent
      <4>2. QED
        BY <3>1, <4>1, SameQueueInv, SameSentInv, SameRestInv DEF ServerInv, DocInv
    <3>3. QED
      BY <3>1, <3>2 DEF ServerInv, StartInv, SameWork
  <2>9. QED
    BY <2>1, <2>2, <2>3, <2>4, <2>5, <2>6, <2>7, <2>8 DEF Next
<1>3. QED
  BY <1>1, <1>2 DEF ServerInv

LEMMA ServerInvariant == ASSUME Considerate PROVE Spec => []ServerInv
<1>1. Init => ServerInv
  BY ServerInit
<1>2. ServerInv /\ [Next]_vars => ServerInv'
  BY ServerStep
<1>3. QED
  BY <1>1, <1>2, PTL DEF Spec

(* Nothing is under way when everything that was queued is dealt with. *)
LEMMA AtRest ==
  ASSUME ServerInv, Settled, NEW u \in Uris
  PROVE  /\ CurrentInv(u) /\ GoneInv(u) /\ ShownInv(u) /\ OverlayInv(u)
         /\ queue[u] = <<>> /\ ~ WillRefresh(u) /\ ~ Coming(u) /\ ~ Publishing(u)
         /\ overlay[u] = IF documents[u] # Closed THEN documents[u] ELSE virtualDocuments[u]
<1>1. TypeInv /\ CurrentInv(u) /\ GoneInv(u) /\ ShownInv(u) /\ OverlayInv(u)
  BY DEF ServerInv, DocInv, SentInv, RestInv
<1>2. queue[u] = <<>> /\ pending = 0
  BY DEF Settled
<1>3. phase = "idle" /\ step[u].pc = "idle"
  BY <1>1, <1>2, DocTypes DEF TypeInv, WorkspaceType
<1>4. ~ WillRefresh(u) /\ ~ Coming(u) /\ ~ Publishing(u) /\ ~ Leaving(u)
  BY <1>2, <1>3 DEF WillRefresh, Coming, Publishing, Leaving
<1>5. overlay[u] = IF documents[u] # Closed THEN documents[u] ELSE virtualDocuments[u]
  BY <1>1, <1>3, <1>4 DEF OverlayInv, Expected
<1>6. QED
  BY <1>1, <1>2, <1>4, <1>5

(* Under an editor that leaves a refresh alone but for opening documents, everything that
   was queued leaves an open document analysed as its text and the project now are, a
   closed one not at all, and the TypeScript server with exactly what the server believes,
   however the tasks were cancelled, reordered and refused. *)
THEOREM CurrentAtRest == Considerate => (Spec => []SettledIsCurrent)
<1> SUFFICES ASSUME Considerate PROVE Spec => []SettledIsCurrent
  OBVIOUS
<1>1. ServerInv => SettledIsCurrent
  <2> SUFFICES ASSUME ServerInv, Settled, ~ broken, NEW u \in Uris
               PROVE  IF source[u] # Closed
                        THEN /\ documents[u] # Closed
                             /\ documents[u].doc = source[u] /\ documents[u].generation = generation
                             /\ overlay[u] = documents[u]
                        ELSE documents[u] = Closed /\ overlay[u] = virtualDocuments[u]
    BY DEF SettledIsCurrent
  <2>1. /\ CurrentInv(u) /\ GoneInv(u) /\ queue[u] = <<>> /\ ~ WillRefresh(u) /\ ~ Coming(u)
        /\ overlay[u] = IF documents[u] # Closed THEN documents[u] ELSE virtualDocuments[u]
    BY AtRest
  <2>2. CASE source[u] # Closed
    BY <2>1, <2>2 DEF CurrentInv, Analysis
  <2>3. CASE source[u] = Closed
    BY <2>1, <2>3 DEF GoneInv
  <2>4. QED
    BY <2>2, <2>3
<1>2. Spec => []ServerInv
  BY ServerInvariant
<1>3. QED
  BY <1>1, <1>2, PTL

(* Then the editor shows of an open document the diagnostics of that analysis, and of a closed
   one neither an analysis nor, but after a start that failed, a failure, whatever upstream
   published meanwhile and whatever failed before: all that is left there is what upstream
   itself says of the file. *)
THEOREM ShownAtRest == Considerate => (Spec => []SettledIsShown)
<1> SUFFICES ASSUME Considerate PROVE Spec => []SettledIsShown
  OBVIOUS
<1>1. ServerInv => SettledIsShown
  <2> SUFFICES ASSUME ServerInv, Settled, ~ broken, NEW u \in Uris
               PROVE  IF source[u] # Closed THEN shown[u] = documents[u] ELSE shown[u] \in {Nothing, Raw} \/ startFailed
    BY DEF SettledIsShown
  <2>1. ShownInv(u) /\ queue[u] = <<>> /\ ~ WillRefresh(u) /\ ~ Coming(u) /\ ~ Publishing(u)
    BY AtRest
  <2>2. QED
    BY <2>1 DEF ShownInv
<1>2. Spec => []ServerInv
  BY ServerInvariant
<1>3. QED
  BY <1>1, <1>2, PTL
================================================================================
