----------------------------- MODULE LanguageServer ----------------------------
(***************************************************************************)
(* The documents of the language server (packages/language-server/src/     *)
(* server.ts) between an editor and the TypeScript server it drives.  A    *)
(* notification about a document is noted at once and queues a task on     *)
(* that document; a change of the project queues a refresh of all of them  *)
(* on the workspace.  The tasks analyse, keep the state of the document,   *)
(* send its transformed text upstream as an overlay, and publish.  Between *)
(* their awaits, tasks of other documents, the refresh, and what upstream  *)
(* publishes by itself go on.                                              *)
(*                                                                         *)
(* Left out: texts and analyses (a document is known by its version), the  *)
(* requests, editors that pull their diagnostics, files outside the        *)
(* workspace, and folders that join or leave it.                           *)
(***************************************************************************)
EXTENDS Naturals, Sequences

CONSTANTS
  Uris,         \* the files of the workspace
  Queried,      \* those that hold queries on disk, which are preloaded
  Editors,      \* how editors may behave: what they send before the last notification of the
                \* document is dealt with (rapid), while a refresh runs (during), and what may
                \* not yet be dealt with when one is asked for (before)
  MayBreak,     \* the schema file may become unreadable, and readable again
  MaxNotices, MaxRefreshes   \* bounds

Notices == {"didOpen", "didChange", "didClose"}

ASSUME LanguageServerAssumption ==
  /\ Queried \subseteq Uris /\ MayBreak \in BOOLEAN
  /\ Editors \subseteq [rapid : SUBSET Notices, during : SUBSET Notices, before : SUBSET Notices]
  /\ MaxNotices \in Nat /\ MaxRefreshes \in Nat

VARIABLES
  editor,       \* the one at work
  \* per document
  source,       \* sourceDocuments: the newest snapshot of an open document
  session,      \* how often it was opened
  documents, virtualDocuments,
  token,        \* documentAnalysisTokens: who would be cancelled
  dead,         \* the cancelled tokens that somebody still holds
  queue,        \* pendingDocuments: the tasks, the first one is running
  step,         \* of that task
  report,       \* projectFailureReports
  native,       \* the state a publication of upstream is about
  \* the workspace
  phase, visited, at, held,      \* of the refresh that runs: the loop, its progress and local state
  pending, completed,            \* refreshes not finished, and finished
  startFailed,                   \* the preload at the start was rejected
  generation, broken,            \* of the project, and whether its schema cannot be loaded
  \* outside
  overlay,      \* what the TypeScript server has open
  astray,       \* what was sent to it out of order
  shown,        \* the diagnostics the editor shows
  notices

documentVars == <<documents, virtualDocuments, report>>
taskVars == <<queue, step>>
tokenVars == <<token, dead>>
workspaceVars == <<phase, visited, at, held, pending, completed, startFailed>>
projectVars == <<generation, broken>>
upstreamVars == <<overlay, astray>>
editorVars == <<editor, source, session, notices>>
vars == <<documentVars, taskVars, tokenVars, workspaceVars, projectVars, upstreamVars,
          editorVars, native, shown>>

Disk == [session |-> 0, version |-> 0]
Doc == [session : 1..MaxNotices, version : 1..MaxNotices]
Closed == [kind |-> "closed"]
State(doc, virtualVersion, gen) ==
  [kind |-> "state", doc |-> doc, virtual |-> virtualVersion, generation |-> gen]
NoToken == [kind |-> "none"]
RefreshToken == [kind |-> "refresh"]
Nothing == [kind |-> "nothing"]
Raw == [kind |-> "raw"]   \* diagnostics of upstream, its positions not mapped
Idle == [pc |-> "idle", ready |-> 0, state |-> Closed]

Init ==
  /\ editor \in Editors
  /\ source = [u \in Uris |-> Closed] /\ session = [u \in Uris |-> 0]
  /\ documents = [u \in Uris |-> Closed] /\ virtualDocuments = [u \in Uris |-> Closed]
  /\ token = [u \in Uris |-> NoToken] /\ dead = [u \in Uris |-> {}]
  /\ queue = [u \in Uris |-> <<>>] /\ step = [u \in Uris |-> Idle]
  /\ report = [u \in Uris |-> FALSE] /\ native = [u \in Uris |-> Closed]
  /\ phase = "preloading" /\ visited = {} /\ at = {} /\ held = Closed
  /\ pending = 1 /\ completed = 0 /\ startFailed = FALSE
  /\ generation = 0 /\ broken \in {FALSE, MayBreak}
  /\ overlay = [u \in Uris |-> Closed] /\ astray = {}
  /\ shown = [u \in Uris |-> Nothing] /\ notices = 0

-------------------------------------------------------------------------------
(* What is sent to the TypeScript server *)

SendOpen(u, state) ==
  /\ overlay' = [overlay EXCEPT ![u] = state]
  /\ astray' = astray \union (IF overlay[u] = Closed THEN {} ELSE {"didOpen"})

SendChange(u, state) ==
  /\ overlay' = [overlay EXCEPT ![u] = IF @ = Closed THEN @ ELSE state]
  /\ astray' = astray \union
       (IF overlay[u] # Closed /\ overlay[u].virtual < state.virtual THEN {} ELSE {"didChange"})

SendClose(u) ==
  /\ overlay' = [overlay EXCEPT ![u] = Closed]
  /\ astray' = astray \union (IF overlay[u] # Closed THEN {} ELSE {"didClose"})

\* A document without a state that was sent before is opened, another one changed.
Send(u, before, state) ==
  IF before = Closed THEN SendOpen(u, state) ELSE SendChange(u, state)

\* createState, its analysis done: the version upstream sees goes on from the last one.
NewState(doc, before) ==
  State(doc, IF before = Closed THEN doc.version ELSE before.virtual + 1, generation)

-------------------------------------------------------------------------------
(* Queues and tokens *)

TokenOf(task) ==
  IF task.kind = "didClose" THEN NoToken ELSE [kind |-> "document", doc |-> task.doc]

Holders(u) ==
  {TokenOf(queue[u][i]) : i \in DOMAIN queue[u]}
    \union (IF at = {u} /\ phase = "analysing" THEN {RefreshToken} ELSE {})

\* beginDocumentAnalysis cancels the token it replaces.
Cancel(u) == dead' = [dead EXCEPT ![u] = @ \union ({token[u]} \intersect Holders(u))]

\* Mutant: a task does not wait for the workspace.
Starting_Unready == [pc |-> "waiting", ready |-> 0, state |-> Closed]

\* A task awaits the workspace as it is when the task starts, not as it is later.
Starting == [pc |-> "waiting", ready |-> pending + completed, state |-> Closed]

Enqueue(u, kind, doc) ==
  /\ queue' = [queue EXCEPT ![u] = Append(@, [kind |-> kind, doc |-> doc])]
  /\ step' = [step EXCEPT ![u] = IF queue[u] = <<>> THEN Starting ELSE @]

Proceed(u, pc, state) ==
  /\ step' = [step EXCEPT ![u] = [pc |-> pc, ready |-> 0, state |-> state]]
  /\ UNCHANGED <<queue, dead>>

\* Mutant: the next task of the document is not started.
Finish_Forgets(u) ==
  /\ queue' = [queue EXCEPT ![u] = Tail(@)]
  /\ step' = [step EXCEPT ![u] = Idle]
  /\ dead' = [dead EXCEPT ![u] = @ \ {TokenOf(Head(queue[u]))}]

Finish(u) ==
  /\ queue' = [queue EXCEPT ![u] = Tail(@)]
  /\ step' = [step EXCEPT ![u] = IF Len(queue[u]) > 1 THEN Starting ELSE Idle]
  /\ dead' = [dead EXCEPT ![u] = @ \ {TokenOf(Head(queue[u]))}]

At(u, kinds, pc) == queue[u] # <<>> /\ Head(queue[u]).kind \in kinds /\ step[u].pc = pc
Cancelled(u) == TokenOf(Head(queue[u])) \in dead[u]

-------------------------------------------------------------------------------
(* Notifications of the editor *)

\* What awaited the workspace goes on as soon as it may: in the microtasks of the step that
\* ended the wait, before the next message is read and the next refresh has come to its first
\* change.
WorkspaceIsReady(u) == step[u].pc = "waiting" /\ completed >= step[u].ready
AllWentOn == \A u \in Uris : ~WorkspaceIsReady(u)

Starts == completed = 0 /\ pending = 1
Refreshing == pending > 0 /\ ~Starts

May(kind, u) ==
  /\ AllWentOn
  /\ notices < MaxNotices /\ notices' = notices + 1
  /\ queue[u] # <<>> => kind \in editor.rapid
  /\ Refreshing => kind \in editor.during

NotNoted == UNCHANGED <<editor, documents, virtualDocuments, phase, at, held, pending, completed,
                        startFailed, projectVars, upstreamVars, native, shown>>

DidOpen(u) ==
  /\ source[u] = Closed /\ May("didOpen", u)
  /\ LET doc == [session |-> session[u] + 1, version |-> 1] IN
       /\ source' = [source EXCEPT ![u] = doc]
       /\ session' = [session EXCEPT ![u] = doc.session]
       /\ token' = [token EXCEPT ![u] = [kind |-> "document", doc |-> doc]]
       /\ Enqueue(u, "didOpen", doc)
  /\ UNCHANGED <<dead, report, visited>> /\ NotNoted

DidChange(u) ==
  /\ source[u] # Closed /\ May("didChange", u)
  /\ LET doc == [source[u] EXCEPT !.version = @ + 1] IN
       /\ source' = [source EXCEPT ![u] = doc]
       /\ Cancel(u)
       /\ token' = [token EXCEPT ![u] = [kind |-> "document", doc |-> doc]]
       /\ Enqueue(u, "didChange", doc)
  /\ UNCHANGED <<session, report, visited>> /\ NotNoted

\* A document that is opened again comes again in a loop over the open ones.
DidClose(u) ==
  /\ source[u] # Closed /\ May("didClose", u)
  /\ source' = [source EXCEPT ![u] = Closed]
  /\ report' = [report EXCEPT ![u] = FALSE]
  /\ Cancel(u)
  /\ token' = [token EXCEPT ![u] = NoToken]
  /\ Enqueue(u, "didClose", Disk)
  /\ visited' = IF phase \in {"refreshing", "analysing", "publishing"} THEN visited \ {u} ELSE visited
  /\ UNCHANGED session /\ NotNoted

DidChangeWatchedFiles ==
  /\ AllWentOn /\ pending + completed <= MaxRefreshes
  /\ \A u \in Uris : \A i \in DOMAIN queue[u] : queue[u][i].kind \in editor.before
  /\ pending' = pending + 1
  /\ broken' \in (IF MayBreak THEN BOOLEAN ELSE {broken})
  /\ UNCHANGED <<documentVars, taskVars, tokenVars, phase, visited, at, held, completed,
                 startFailed, generation, upstreamVars, editorVars, native, shown>>

-------------------------------------------------------------------------------
(* The task of a document *)

Elsewhere == UNCHANGED <<workspaceVars, projectVars, token, editorVars, native>>

\* Mutant: a publication is sent without a look at what became current meanwhile.
Current_Unchecked(u, state) == source[u] # Closed

\* publishCombinedDiagnostics, its diagnostics computed
Current(u, state) ==
  source[u] = state.doc /\ documents[u] = state /\ state.generation = generation

Show(u, state) ==
  IF Current(u, state)
    THEN /\ shown' = [shown EXCEPT ![u] = state]
         /\ report' = [report EXCEPT ![u] = FALSE]
    ELSE UNCHANGED <<shown, report>>

Failure == [kind |-> "failure"]

Refused(u) == WorkspaceIsReady(u) /\ startFailed /\ step[u].ready = 1

Open(u) ==
  /\ At(u, {"didOpen"}, "waiting") /\ WorkspaceIsReady(u) /\ ~Refused(u)
  /\ Proceed(u, "analysing", virtualDocuments[u])
  /\ UNCHANGED <<documentVars, upstreamVars, shown>> /\ Elsewhere

Debounce(u) ==
  /\ At(u, {"didChange"}, "waiting") /\ WorkspaceIsReady(u) /\ ~Refused(u)
  /\ Proceed(u, "debouncing", Closed)
  /\ UNCHANGED <<documentVars, upstreamVars, shown>> /\ Elsewhere

Change(u) ==
  /\ At(u, {"didChange"}, "debouncing") /\ ~Cancelled(u)
  /\ Proceed(u, "analysing", IF documents[u] # Closed THEN documents[u] ELSE virtualDocuments[u])
  /\ UNCHANGED <<documentVars, upstreamVars, shown>> /\ Elsewhere

Close(u) ==
  /\ At(u, {"didClose"}, "waiting") /\ WorkspaceIsReady(u) /\ ~Refused(u)
  /\ documents' = [documents EXCEPT ![u] = Closed]
  /\ Proceed(u, "analysing", documents[u])
  /\ UNCHANGED <<virtualDocuments, report, upstreamVars, shown>> /\ Elsewhere

\* queueDocument ignores an AbortError ...
Abort(u) ==
  /\ At(u, {"didChange"}, "debouncing") \/ At(u, {"didOpen", "didChange"}, "analysing")
  /\ Cancelled(u)
  /\ Finish(u)
  /\ UNCHANGED <<documentVars, upstreamVars, shown>> /\ Elsewhere

\* ... and reports every other one.
Fail(u) ==
  /\ \/ broken /\ (At(u, {"didOpen", "didChange"}, "analysing") \/ At(u, {"didOpen", "didChange"}, "publishing"))
     \/ Refused(u)
  /\ report' = [report EXCEPT ![u] = @ \/ source[u] # Closed]
  /\ shown' = [shown EXCEPT ![u] = Failure]
  /\ Finish(u)
  /\ UNCHANGED <<documents, virtualDocuments, upstreamVars>> /\ Elsewhere

Analysed(u) ==
  /\ At(u, {"didOpen", "didChange"}, "analysing") /\ ~Cancelled(u) /\ ~broken
  /\ LET state == NewState(Head(queue[u]).doc, step[u].state) IN
       /\ documents' = [documents EXCEPT ![u] = state]
       /\ Send(u, step[u].state, state)
       /\ Proceed(u, "publishing", state)
  /\ virtualDocuments' = [virtualDocuments EXCEPT ![u] = Closed]
  /\ UNCHANGED <<report, shown>> /\ Elsewhere

Published(u) ==
  /\ At(u, {"didOpen", "didChange"}, "publishing") /\ ~broken
  /\ Show(u, step[u].state)
  /\ Finish(u)
  /\ UNCHANGED <<documents, virtualDocuments, upstreamVars>> /\ Elsewhere

\* A closed file with queries stays upstream as it is on disk, another one leaves.
Unopened(u) ==
  /\ At(u, {"didClose"}, "analysing")
  /\ \/ /\ ~broken /\ u \in Queried
        /\ LET state == NewState(Disk, step[u].state) IN
             /\ virtualDocuments' = [virtualDocuments EXCEPT ![u] = state]
             /\ SendChange(u, state)
     \/ /\ ~broken /\ u \notin Queried
        /\ SendClose(u) /\ UNCHANGED virtualDocuments
     \/ /\ broken
        /\ virtualDocuments' = [virtualDocuments EXCEPT ![u] = Closed]
        /\ SendClose(u)
  /\ Proceed(u, "publishing", Closed)
  /\ UNCHANGED <<documents, report, shown>> /\ Elsewhere

Cleared(u) ==
  /\ At(u, {"didClose"}, "publishing")
  /\ shown' = [shown EXCEPT ![u] = Nothing]
  /\ Finish(u)
  /\ UNCHANGED <<documentVars, upstreamVars>> /\ Elsewhere

-------------------------------------------------------------------------------
(* The refresh of the workspace *)

InDocuments == UNCHANGED <<taskVars, editorVars, native, startFailed>>
GoOn(next, uris) == phase' = next /\ at' = uris
SameQueue == UNCHANGED <<pending, completed>>

RefreshStarts ==
  /\ phase = "idle" /\ pending > 0 /\ AllWentOn
  /\ generation' = generation + 1
  /\ GoOn("refreshing", {}) /\ visited' = {}
  /\ UNCHANGED <<documentVars, tokenVars, held, broken, upstreamVars, shown>>
  /\ SameQueue /\ InDocuments

RefreshNext(u) ==
  /\ phase = "refreshing" /\ source[u] # Closed /\ u \notin visited
  /\ GoOn("analysing", {u}) /\ visited' = visited \union {u}
  /\ Cancel(u)
  /\ token' = [token EXCEPT ![u] = RefreshToken]
  /\ held' = documents[u]
  /\ UNCHANGED <<documentVars, projectVars, upstreamVars, shown>> /\ SameQueue /\ InDocuments

RefreshAnalysed(u) ==
  /\ phase = "analysing" /\ at = {u} /\ RefreshToken \notin dead[u] /\ ~broken
  /\ LET state == NewState(source[u], held) IN
       /\ documents' = [documents EXCEPT ![u] = state]
       /\ Send(u, held, state)
       /\ held' = state
  /\ GoOn("publishing", {u})
  /\ UNCHANGED <<virtualDocuments, report, tokenVars, visited, projectVars, shown>>
  /\ SameQueue /\ InDocuments

RefreshPublished(u) ==
  /\ phase = "publishing" /\ at = {u} /\ ~broken
  /\ Show(u, held)
  /\ GoOn("refreshing", {}) /\ held' = Closed
  /\ UNCHANGED <<documents, virtualDocuments, tokenVars, visited, projectVars, upstreamVars>>
  /\ SameQueue /\ InDocuments

Reset ==
  /\ phase = "refreshing" /\ \A u \in Uris : source[u] # Closed => u \in visited
  /\ GoOn("resetting", {}) /\ visited' = {}
  /\ UNCHANGED <<documentVars, tokenVars, held, projectVars, upstreamVars, shown>>
  /\ SameQueue /\ InDocuments

ResetNext(u) ==
  /\ phase = "resetting" /\ virtualDocuments[u] # Closed /\ u \notin visited
  /\ visited' = visited \union {u}
  /\ IF documents[u] # Closed
       THEN /\ virtualDocuments' = [virtualDocuments EXCEPT ![u] = Closed]
            /\ UNCHANGED upstreamVars
       ELSE /\ SendClose(u) /\ UNCHANGED virtualDocuments
  /\ UNCHANGED <<documents, report, tokenVars, phase, at, held, projectVars, shown>>
  /\ SameQueue /\ InDocuments

Preload ==
  /\ phase = "resetting" /\ \A u \in Uris : virtualDocuments[u] # Closed => u \in visited
  /\ virtualDocuments' = [u \in Uris |-> Closed]
  /\ GoOn("preloading", {}) /\ visited' = {}
  /\ UNCHANGED <<documents, report, tokenVars, held, projectVars, upstreamVars, shown>>
  /\ SameQueue /\ InDocuments

Known(u) == documents[u] # Closed \/ virtualDocuments[u] # Closed

PreloadNext(u) ==
  /\ phase = "preloading" /\ u \notin visited
  /\ visited' = visited \union {u}
  /\ IF Known(u) THEN UNCHANGED <<phase, at>> ELSE GoOn("loading", {u})
  /\ UNCHANGED <<documentVars, tokenVars, held, projectVars, upstreamVars, shown>>
  /\ SameQueue /\ InDocuments

Preloaded(u) ==
  /\ phase = "loading" /\ at = {u} /\ ~broken
  /\ IF Known(u) \/ u \notin Queried
       THEN UNCHANGED <<virtualDocuments, upstreamVars>>
       ELSE LET state == NewState(Disk, Closed) IN
              /\ virtualDocuments' = [virtualDocuments EXCEPT ![u] = state]
              /\ SendOpen(u, state)
  /\ GoOn("preloading", {})
  /\ UNCHANGED <<documents, report, tokenVars, visited, held, projectVars, shown>>
  /\ SameQueue /\ InDocuments

EndRefresh ==
  /\ GoOn("idle", {}) /\ visited' = {} /\ held' = Closed
  /\ pending' = pending - 1 /\ completed' = completed + 1

PreloadDone ==
  /\ phase = "preloading" /\ visited = Uris
  /\ EndRefresh
  /\ UNCHANGED <<documentVars, tokenVars, projectVars, upstreamVars, shown>> /\ InDocuments

\* queueWorkspace reports every error, the AbortError of a superseded analysis too.  The
\* preload at the start is not queued that way: what awaits it is refused.
RefreshFails ==
  /\ \/ broken /\ phase \in {"analysing", "publishing", "loading"}
     \/ phase = "analysing" /\ \E u \in at : RefreshToken \in dead[u]
  /\ IF completed = 0
       THEN startFailed' = TRUE /\ UNCHANGED <<report, shown>>
       ELSE /\ report' = [u \in Uris |-> report[u] \/ (documents[u] # Closed /\ source[u] # Closed)]
            /\ shown' = [u \in Uris |-> IF documents[u] # Closed THEN Failure ELSE shown[u]]
            /\ UNCHANGED startFailed
  /\ dead' = [u \in Uris |-> dead[u] \ {RefreshToken}]
  /\ EndRefresh
  /\ UNCHANGED <<documents, virtualDocuments, token, projectVars, upstreamVars,
                 taskVars, editorVars, native>>

-------------------------------------------------------------------------------
(* The TypeScript server publishes diagnostics of its own, about any file and at any time:
   what it has sent may come in after the document was closed here. *)

\* Of a file without a state they go to the editor as they are, none or some.
NativeForwarded(u) ==
  /\ documents[u] = Closed /\ virtualDocuments[u] = Closed
  /\ \E diagnostics \in {Nothing, Raw} : shown' = [shown EXCEPT ![u] = diagnostics]
  /\ UNCHANGED <<documentVars, taskVars, tokenVars, workspaceVars, projectVars, upstreamVars,
                 editorVars, native>>

NativeDiagnostics(u) ==
  /\ native[u] = Closed
  /\ documents[u] # Closed /\ virtualDocuments[u] = Closed
  /\ overlay[u] # Closed /\ overlay[u].virtual = documents[u].virtual
  /\ source[u] # Closed /\ source[u].version = documents[u].doc.version
  /\ documents[u].generation = generation
  /\ native' = [native EXCEPT ![u] = documents[u]]
  /\ UNCHANGED <<documentVars, taskVars, tokenVars, workspaceVars, projectVars, upstreamVars,
                 editorVars, shown>>

NativePublished(u) ==
  /\ native[u] # Closed
  /\ native' = [native EXCEPT ![u] = Closed]
  /\ IF broken THEN UNCHANGED <<shown, report>> ELSE Show(u, native[u])
  /\ UNCHANGED <<documents, virtualDocuments, taskVars, tokenVars, workspaceVars, projectVars,
                 upstreamVars, editorVars>>

Next ==
  \/ \E u \in Uris : DidOpen(u) \/ DidChange(u) \/ DidClose(u)
  \/ DidChangeWatchedFiles
  \/ \E u \in Uris : Open(u) \/ Debounce(u) \/ Change(u) \/ Close(u) \/ Abort(u) \/ Fail(u)
                     \/ Analysed(u) \/ Published(u) \/ Unopened(u) \/ Cleared(u)
  \/ RefreshStarts \/ Reset \/ Preload \/ PreloadDone \/ RefreshFails
  \/ \E u \in Uris : RefreshNext(u) \/ RefreshAnalysed(u) \/ RefreshPublished(u)
                     \/ ResetNext(u) \/ PreloadNext(u) \/ Preloaded(u)
  \/ \E u \in Uris : NativeForwarded(u) \/ NativeDiagnostics(u) \/ NativePublished(u)

Spec == Init /\ [][Next]_vars

-------------------------------------------------------------------------------
(***************************************************************************)
(* Properties.                                                             *)
(***************************************************************************)
States == [kind : {"state"}, doc : Doc \union {Disk}, virtual : Nat, generation : Nat]
Tokens == {NoToken, RefreshToken} \union [kind : {"document"}, doc : Doc]

TypeOK ==
  /\ editor \in Editors
  /\ source \in [Uris -> Doc \union {Closed}] /\ session \in [Uris -> Nat]
  /\ documents \in [Uris -> States \union {Closed}]
  /\ virtualDocuments \in [Uris -> States \union {Closed}]
  /\ token \in [Uris -> Tokens] /\ dead \in [Uris -> SUBSET Tokens]
  /\ queue \in [Uris -> Seq([kind : Notices, doc : Doc \union {Disk}])]
  /\ step \in [Uris -> [pc : {"idle", "waiting", "debouncing", "analysing", "publishing"},
                        ready : Nat, state : States \union {Closed}]]
  /\ report \in [Uris -> BOOLEAN] /\ native \in [Uris -> States \union {Closed}]
  /\ phase \in {"idle", "refreshing", "analysing", "publishing", "resetting", "preloading", "loading"}
  /\ visited \subseteq Uris /\ at \subseteq Uris /\ held \in States \union {Closed}
  /\ pending \in Nat /\ completed \in Nat /\ startFailed \in BOOLEAN
  /\ generation \in Nat /\ broken \in BOOLEAN
  /\ overlay \in [Uris -> States \union {Closed}] /\ astray \subseteq Notices
  /\ shown \in [Uris -> States \union {Nothing, Failure, Raw}] /\ notices \in Nat
  \* a task runs as long as there is one, and the refresh is at one document at most
  /\ \A u \in Uris : step[u].pc = "idle" <=> queue[u] = <<>>
  /\ \A u, v \in at : u = v

Settled == pending = 0 /\ \A u \in Uris : queue[u] = <<>> /\ native[u] = Closed

(* When everything that was queued is dealt with, an open document has an analysis
   of its newest text in the newest project, a closed one has none, and the
   TypeScript server has open exactly what the server believes, however the tasks
   were cancelled, reordered and refused (queueDocument, queueWorkspace,
   beginDocumentAnalysis, createState).  That takes a considerate editor, which
   neither edits nor closes a document while a refresh runs: the run and the
   theorem are about such editors. *)
SettledIsCurrent ==
  Settled /\ ~broken => \A u \in Uris :
    IF source[u] # Closed
      THEN /\ documents[u] # Closed
           /\ documents[u].doc = source[u] /\ documents[u].generation = generation
           /\ overlay[u] = documents[u]
      ELSE documents[u] = Closed /\ overlay[u] = virtualDocuments[u]

(* Then, with the same editors, the editor shows of an open document the diagnostics
   of that analysis and no older ones, whatever upstream published meanwhile, and of
   a closed one neither an analysis nor a failure that the server ever showed for it
   (publishCombinedDiagnostics, the end of didClose).  What upstream itself says of a
   file without a state may stay: the server forwards it as it is, also when it
   comes in after the diagnostics of the closed document were cleared.  A start that
   failed leaves the failure of a document that is closed before the first refresh. *)
SettledIsShown ==
  Settled /\ ~broken => \A u \in Uris :
    IF source[u] # Closed THEN shown[u] = documents[u] ELSE shown[u] \in {Nothing, Raw} \/ startFailed

(* The documentation of the editors says what a TYPED_SQL_PROJECT_UNAVAILABLE report
   is for (docs/guides/editors.md:146): nobody has one when config, grammar and
   schema load. *)
FailureIsReal == Settled /\ ~broken => \A u \in Uris : ~report[u]

(* The TypeScript server is told to open what it has not open, to change and to
   close what it has, with rising versions. *)
OverlayDiscipline == astray = {}
===============================================================================
