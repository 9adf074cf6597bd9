---------------------------- MODULE LspDocuments ----------------------------
(***************************************************************************)
(* One connected LSP session: the messages of the browser through          *)
(* LspJsonRpcGuard (apps/lsp/src/json-rpc-guard.ts) and                    *)
(* JsonRpcWebSocketAdapter (session-manager.ts) to clangd, the files of    *)
(* the workspace they are written to on the way, and the rebuild of the    *)
(* translation units after a header has changed.                           *)
(*                                                                         *)
(* A message is checked when it arrives; it then waits in #messageQueue, a *)
(* chain of promises, until the messages before it are written and handed  *)
(* to clangd. A text is identified with its length in bytes; what a        *)
(* didChange makes of a text is any text.                                  *)
(***************************************************************************)
EXTENDS Integers, Sequences, FiniteSetsExt

CONSTANTS
    Headers,                    \* the .h documents of the session
    TranslationUnits,           \* the .c documents
    Texts,                      \* the texts a document may hold
    Versions,
    MaxDocumentBytes,
    ClientMaxSessionBytes       \* counted in messages: it bounds the session's traffic

ASSUME LspTextsAssumption == Texts \subseteq Nat /\ Texts # {} /\ Versions \subseteq Nat

ASSUME LspBudgetsAssumption ==
    {MaxDocumentBytes, ClientMaxSessionBytes} \subseteq Nat

Uris == Headers \cup TranslationUnits

ASSUME LspUrisAssumption == "none" \notin Uris /\ IsFiniteSet(Uris)

VARIABLES
    \* the guard
    stage,              \* initializeSeen, initializedSeen and shutdownSeen
    documents,          \* #documents: text and version of the open ones
    documentBytes,      \* #documentBytes
    clientBytes,        \* #clientSessionBytes
    \* the adapter
    queue,              \* #messageQueue: what was accepted and not handed on
    writing,            \* where the update at its head stands
    generation,         \* #headerRebuildGeneration
    timer,              \* the generation #headerRebuildTimer will rebuild for
    violated,
    socket,             \* its readyState: "open", "closing" or "closed"
    \* the workspace and clangd
    files,
    clangd,             \* what clangd was told of the open documents
    rebuilt             \* the generation of the last rebuild

guard == <<stage, documents, documentBytes, clientBytes>>
rebuild == <<generation, timer>>
vars == <<guard, queue, writing, rebuild, violated, socket, files, clangd, rebuilt>>

\* No document, no update and no rebuild.
None == -1
Closed == [text |-> 0, version |-> None]

-----------------------------------------------------------------------------
(* Messages of the browser. "request" stands for the methods of an active  *)
(* session that leave the guard's state alone, "anytime" for responses,    *)
(* $/cancelRequest and $/setTrace, "invalid" for what is not JSON-RPC, not *)
(* an allowed method, malformed, or names a URI outside of the session.    *)

Message ==
    [method : {"initialize", "initialized", "shutdown", "exit", "anytime", "request", "invalid"},
     uri : {"none"}, text : {None}, version : {None}]
    \cup [method : {"didOpen", "didChange"}, uri : Uris, text : Texts, version : Versions]
    \cup [method : {"didSave"}, uri : Uris, text : Texts \cup {None}, version : {None}]
    \cup [method : {"didClose"}, uri : Uris, text : {None}, version : {None}]

isOpen(u) == documents[u] # Closed

\* #documentBytes once the text of u is replaced by t.
bytesWith(u, t) == documentBytes - documents[u].text + t

\* #validateDidOpen: not open yet, and the open documents together stay small.
validateDidOpen(m) ==
    /\ ~isOpen(m.uri)
    /\ documentBytes + m.text <= MaxDocumentBytes

\* #validateDidChange: open, at a later version, with a text that fits.
validateDidChange(m) ==
    /\ isOpen(m.uri)
    /\ m.version > documents[m.uri].version
    /\ bytesWith(m.uri, m.text) <= MaxDocumentBytes

\* #validateDidSave: a text in it counts like a change.
validateDidSave(m) ==
    /\ isOpen(m.uri)
    /\ m.text # None => bytesWith(m.uri, m.text) <= MaxDocumentBytes

\* #validateClientMethod: initialize, initialized and shutdown come once and in
\* this order, exit after shutdown, everything else between.
validateClientMethod(m) ==
    \/ m.method = "anytime"
    \/ m.method = "initialize" /\ stage = "start"
    \/ m.method = "initialized" /\ stage = "initialize"
    \/ m.method = "shutdown" /\ stage = "active"
    \/ m.method = "exit" /\ stage = "shutdown"
    \/ /\ stage = "active"
       /\ \/ m.method = "request"
          \/ m.method = "didOpen" /\ validateDidOpen(m)
          \/ m.method = "didChange" /\ validateDidChange(m)
          \/ m.method = "didClose" /\ isOpen(m.uri)
          \/ m.method = "didSave" /\ validateDidSave(m)

\* Mutant of withinClientBudget: the message itself is not counted.
budgetNotSpent == clientBytes <= ClientMaxSessionBytes

\* #consumeClientBudget. The rate of the window is left out: a message beyond it
\* is refused like a binary frame, which may come at any time.
withinClientBudget == clientBytes + 1 <= ClientMaxSessionBytes

\* What an accepted message makes of the guard.
acceptedStage(m) ==
    CASE m.method = "initialize" -> "initialize"
      [] m.method = "initialized" -> "active"
      [] m.method = "shutdown" -> "shutdown"
      [] OTHER -> stage

\* Mutant of acceptedDocuments: a saved text is not kept.
documentsBeforeSave(m) ==
    CASE m.method \in {"didOpen", "didChange"} ->
            [documents EXCEPT ![m.uri] = [text |-> m.text, version |-> m.version]]
      [] m.method = "didClose" -> [documents EXCEPT ![m.uri] = Closed]
      [] OTHER -> documents

acceptedDocuments(m) ==
    CASE m.method \in {"didOpen", "didChange"} ->
            [documents EXCEPT ![m.uri] = [text |-> m.text, version |-> m.version]]
      [] m.method = "didSave" /\ m.text # None -> [documents EXCEPT ![m.uri].text = m.text]
      [] m.method = "didClose" -> [documents EXCEPT ![m.uri] = Closed]
      [] OTHER -> documents

\* Mutant of acceptedBytes: a closed document is still counted.
bytesKeptOnClose(m) ==
    CASE m.method = "didOpen" -> documentBytes + m.text
      [] m.text # None -> bytesWith(m.uri, m.text)
      [] OTHER -> documentBytes

acceptedBytes(m) ==
    CASE m.method = "didOpen" -> documentBytes + m.text
      [] m.method \in {"didChange", "didSave"} /\ m.text # None -> bytesWith(m.uri, m.text)
      [] m.method = "didClose" -> documentBytes - documents[m.uri].text
      [] OTHER -> documentBytes

\* The update notifies dependents: a change or a saved text of a header.
isHeaderUpdate(m) ==
    m.method \in {"didChange", "didSave"} /\ m.text # None /\ m.uri \in Headers

-----------------------------------------------------------------------------
(* The adapter.                                                            *)

\* A task of the chain that waits for nothing runs before the event loop turns
\* to anything else; only messages that arrive together are taken up first.
idle == queue = <<>> \/ writing # "no"

rebuildNext == queue # <<>> /\ writing = "no" /\ Head(queue).method = "rebuild"

\* A message may also come while the socket closes, and after a violation: the guard
\* still counts it and the chain still takes it up.
arriving == socket # "closed" /\ ~rebuildNext

\* #reportViolation, once: the session is closed, which closes the socket.
reportViolation ==
    /\ violated' = TRUE
    /\ socket' = IF socket = "open" THEN "closing" ELSE socket
    /\ IF violated THEN UNCHANGED rebuild
       ELSE generation' = generation + 1 /\ timer' = None

\* onMessage, for a binary frame or a message that exceeds a budget, or one that
\* the guard refuses after counting it.
RefuseMessage ==
    /\ arriving
    /\ \/ UNCHANGED clientBytes
       \/ /\ withinClientBudget
          /\ \E m \in Message : ~validateClientMethod(m)
          /\ clientBytes' = clientBytes + 1
    /\ reportViolation
    /\ UNCHANGED <<stage, documents, documentBytes, queue, writing, files, clangd, rebuilt>>

\* onMessage, for a message the guard accepts. An update of a header starts a new
\* generation and clears the timer of the one before, #beginHeaderRebuild.
AcceptMessage(m) ==
    LET isUpdate == isHeaderUpdate(m)
        next == IF isUpdate THEN generation + 1 ELSE generation
    IN  /\ arriving
        /\ withinClientBudget
        /\ validateClientMethod(m)
        /\ stage' = acceptedStage(m)
        /\ documents' = acceptedDocuments(m)
        /\ documentBytes' = acceptedBytes(m)
        /\ clientBytes' = clientBytes + 1
        /\ generation' = next
        /\ timer' = IF isUpdate THEN None ELSE timer
        /\ queue' = Append(queue, [method |-> IF m.uri = "none" THEN "forward" ELSE m.method,
                                   uri |-> m.uri, text |-> m.text, version |-> m.version,
                                   generation |-> IF isUpdate THEN next ELSE None])
        /\ UNCHANGED <<writing, violated, socket, files, clangd, rebuilt>>

\* callback: clangd is told of the documents that are opened, changed, saved and
\* closed.
told(task) ==
    CASE task.method \in {"didOpen", "didChange"} ->
            [clangd EXCEPT ![task.uri] = [text |-> task.text, version |-> task.version]]
      [] task.method = "didSave" /\ task.text # None ->
            [clangd EXCEPT ![task.uri].text = task.text]
      [] task.method = "didClose" -> [clangd EXCEPT ![task.uri] = Closed]
      [] OTHER -> clangd

\* Mutants of deliver: the session is not looked at again after the file is
\* written; every message that is handed on clears the timer.
deliverUnchecked(task) ==
    /\ queue' = Tail(queue)
    /\ clangd' = told(task)
    /\ timer' = IF task.generation # None /\ task.generation = generation
                THEN generation ELSE timer
    /\ UNCHANGED <<guard, generation, violated, socket, rebuilt>>

deliverClearingTimer(task) ==
    /\ queue' = Tail(queue)
    /\ IF violated \/ socket # "open"
       THEN UNCHANGED <<clangd, timer>>
       ELSE /\ clangd' = told(task)
            /\ timer' = IF task.generation = generation THEN generation ELSE None
    /\ UNCHANGED <<guard, generation, violated, socket, rebuilt>>

\* The end of a task of the chain: unless the session was closed meanwhile, the
\* message is handed to clangd and an update of a header that is still the latest
\* starts its timer, #scheduleHeaderRebuild.
deliver(task) ==
    /\ queue' = Tail(queue)
    /\ IF violated \/ socket # "open"
       THEN UNCHANGED <<clangd, timer>>
       ELSE /\ clangd' = told(task)
            /\ timer' = IF task.generation # None /\ task.generation = generation
                        THEN generation ELSE timer
    /\ UNCHANGED <<guard, generation, violated, socket, rebuilt>>

\* Mutant of RunTask: the message is handed on without waiting for its file.
RunTaskWithoutFile ==
    /\ queue # <<>> /\ writing = "no" /\ ~rebuildNext
    /\ deliver(Head(queue))
    /\ UNCHANGED <<writing, files>>

\* A task begins: after a violation it does nothing; an update is first written to
\* the staging file.
RunTask ==
    /\ queue # <<>> /\ writing = "no" /\ ~rebuildNext
    /\ IF Head(queue).text # None /\ ~violated
       THEN /\ writing' = "staging"
            /\ UNCHANGED <<guard, queue, rebuild, violated, socket, clangd, rebuilt>>
       ELSE deliver(Head(queue)) /\ UNCHANGED writing
    /\ UNCHANGED files

\* onDocumentUpdate: the staging file is written, then renamed over the document,
\* and the message follows in the same turn of the event loop.
FileStaged ==
    /\ writing = "staging"
    /\ writing' = "rename"
    /\ UNCHANGED <<guard, queue, rebuild, violated, socket, files, clangd, rebuilt>>

FileRenamed ==
    /\ writing = "rename"
    /\ writing' = "no"
    /\ files' = [files EXCEPT ![Head(queue).uri] = Head(queue).text]
    /\ deliver(Head(queue))

\* writeFile or rename rejects.
FileFails ==
    /\ writing # "no"
    /\ writing' = "no"
    /\ queue' = Tail(queue)
    /\ reportViolation
    /\ UNCHANGED <<guard, files, clangd, rebuilt>>

\* HEADER_REBUILD_DEBOUNCE_MS after the last update of a header: the rebuild joins
\* the chain.
RebuildTimer ==
    /\ idle
    /\ timer # None
    /\ timer' = None
    /\ queue' = Append(queue, [method |-> "rebuild", uri |-> "none", text |-> None,
                               version |-> None, generation |-> timer])
    /\ UNCHANGED <<guard, writing, generation, violated, socket, files, clangd, rebuilt>>

\* Mutant of Rebuild: the generation is not compared.
RebuildAnyGeneration ==
    /\ rebuildNext
    /\ queue' = Tail(queue)
    /\ rebuilt' = IF violated \/ socket # "open" THEN rebuilt ELSE Head(queue).generation
    /\ UNCHANGED <<guard, writing, rebuild, violated, socket, files, clangd>>

\* The rebuild's turn: unless a later update of a header or the end of the session
\* came between, clangd is told to parse every open translation unit again, at the
\* version the guard knows; a document it does not have open yet it leaves alone.
Rebuild ==
    /\ rebuildNext
    /\ queue' = Tail(queue)
    /\ IF violated \/ socket # "open" \/ Head(queue).generation # generation
       THEN UNCHANGED <<clangd, rebuilt>>
       ELSE /\ clangd' = [u \in Uris |->
                  IF u \in TranslationUnits /\ isOpen(u) /\ clangd[u] # Closed
                  THEN [clangd[u] EXCEPT !.version = documents[u].version]
                  ELSE clangd[u]]
            /\ rebuilt' = generation
    /\ UNCHANGED <<guard, writing, rebuild, violated, socket, files>>

\* send, for an answer of clangd that exceeds a budget or names a foreign URI; the
\* others change nothing here.
RefuseServerMessage ==
    /\ idle
    /\ socket = "open"
    /\ reportViolation
    /\ UNCHANGED <<guard, queue, writing, files, clangd, rebuilt>>

\* dispose, when the session is closed for another reason.
Dispose ==
    /\ idle
    /\ socket = "open"
    /\ socket' = "closing"
    /\ generation' = generation + 1
    /\ timer' = None
    /\ UNCHANGED <<guard, queue, writing, violated, files, clangd, rebuilt>>

\* onClose: the socket's close event; #cancelHeaderRebuild.
SocketCloses ==
    /\ idle
    /\ socket # "closed"
    /\ socket' = "closed"
    /\ generation' = generation + 1
    /\ timer' = None
    /\ UNCHANGED <<guard, queue, writing, violated, files, clangd, rebuilt>>

-----------------------------------------------------------------------------
Init ==
    /\ stage = "start"
    /\ documents = [u \in Uris |-> Closed]
    /\ documentBytes = 0
    /\ clientBytes = 0
    /\ queue = <<>>
    /\ writing = "no"
    /\ generation = 0
    /\ timer = None
    /\ violated = FALSE
    /\ socket = "open"
    /\ files = [u \in Uris |-> CHOOSE t \in Texts : TRUE]
    /\ clangd = [u \in Uris |-> Closed]
    /\ rebuilt = 0

\* The chain, the files and the timer go on by themselves.
Internal == RunTask \/ FileStaged \/ FileRenamed \/ FileFails \/ RebuildTimer \/ Rebuild

Next ==
    \/ RefuseMessage
    \/ \E m \in Message : AcceptMessage(m)
    \/ Internal
    \/ RefuseServerMessage
    \/ Dispose
    \/ SocketCloses

Spec == Init /\ [][Next]_vars

FairSpec == Spec /\ WF_vars(Internal)

-----------------------------------------------------------------------------
(* Properties.                                                             *)

Task ==
    [method : {"forward", "didOpen", "didChange", "didSave", "didClose", "rebuild"},
     uri : Uris \cup {"none"}, text : Texts \cup {None}, version : Versions \cup {None},
     generation : Nat \cup {None}]

Document == [text : Texts, version : Versions] \cup {Closed}

\* The type of the guard's, the adapter's and clangd's state.
TypeOK ==
    /\ stage \in {"start", "initialize", "active", "shutdown"}
    /\ documents \in [Uris -> Document]
    /\ documentBytes \in Nat
    /\ clientBytes \in 0..ClientMaxSessionBytes
    /\ \A i \in DOMAIN queue : queue[i] \in Task
    /\ writing \in {"no", "staging", "rename"}
    /\ writing # "no" => queue # <<>> /\ Head(queue).text # None
    /\ {generation, rebuilt} \subseteq Nat /\ timer \in Nat \cup {None}
    /\ violated \in BOOLEAN
    /\ socket \in {"open", "closing", "closed"}
    /\ files \in [Uris -> Texts]
    /\ clangd \in [Uris -> Document]

\* #documentBytes is the size of the open documents together, through every
\* sequence of opening, changing, saving, closing and opening again, and stays
\* within maxDocumentBytes.
DocumentBytesExact ==
    /\ documentBytes = MapThenSumSet(LAMBDA u : documents[u].text, Uris)
    /\ documentBytes <= MaxDocumentBytes

\* While the session lasts, the workspace file of every document clangd has open
\* holds the text clangd was told last: a change reaches the disk before clangd, so
\* that an include is parsed as its editor shows it, and no later change overtakes it.
FileBeforeClangd ==
    ~violated /\ socket = "open" =>
        \A u \in Uris : clangd[u] # Closed => files[u] = clangd[u].text

\* Once the chain has drained, clangd has open what the guard has open, with the
\* same texts and versions: messages that wait behind a rebuild undo its lead.
InSync ==
    ~violated /\ socket = "open" /\ queue = <<>> => clangd = documents

\* After a violation clangd is told nothing more, not even what was accepted before
\* it and still waits in the chain or for its file.
NothingAfterViolation == [][violated => UNCHANGED <<clangd, rebuilt>>]_vars

\* A rebuild is told to clangd only when every accepted update of a header is
\* behind it: none is still on its way to the disk or waits in the chain.
RebuildSeesHeaders ==
    [][rebuilt' # rebuilt =>
          \A i \in DOMAIN queue' : queue'[i].generation # None => queue'[i].method = "rebuild"]_vars

\* After updates of headers clangd is eventually told to rebuild for the latest of
\* them, unless the session ends first: none is lost between the generations, the
\* timer and the chain.
HeaderUpdateRebuilt ==
    rebuilt # generation ~> (rebuilt = generation \/ violated \/ socket # "open")

=============================================================================
