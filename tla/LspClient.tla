------------------------------ MODULE LspClient ------------------------------
(***************************************************************************)
(* The language-server side of the playground: the effect of               *)
(* apps/web/components/playground.tsx that asks for an LSP session and     *)
(* retries, its reconnects and restarts, the connection that               *)
(* components/code-editor.tsx keeps for the session it shows, and the      *)
(* transport of lib/client/lsp-transport.ts.                               *)
(*                                                                         *)
(* The browser has one thread; an action is one callback, with the         *)
(* continuations its promises run before the next one. A state setter      *)
(* takes effect at the next Render, which also runs the effects; callbacks *)
(* come in between. What the page says about the connection is left out.   *)
(* CodeEditor is loaded when it is first rendered: until its chunk is      *)
(* there, a session that is rendered has no editor and no connection.      *)
(* Sessions are places for what a session has in the browser: a place is   *)
(* used again when nothing of its session is left.                         *)
(***************************************************************************)
EXTENDS ProjectFiles

CONSTANTS
    Sessions,
    MaxConnectAttempts,     \* of connectLsp, 3 in the code
    MaxReconnectAttempts    \* LSP_MAX_RECONNECT_ATTEMPTS

ASSUME AttemptsAssumption ==
    MaxConnectAttempts \in Nat \ {0} /\ MaxReconnectAttempts \in Nat

VARIABLES
    \* the Playground: its state, as set and as rendered, its refs, and connectLsp
    lspSession,         \* as last set
    shown,              \* as rendered: the session of the CodeEditor
    lspCycle,           \* "set" until the effect of the new value has run
    reconnectCount,     \* lspReconnectCountRef
    reconnectTimer,     \* lspReconnectTimerRef
    pendingRestart,     \* pendingLspRestartRef
    connecting,         \* connectLsp of the last effect: waiting for what, and its attempt
    mounted,
    \* the CodeEditor of a session, with its transport
    loaded,             \* the chunk of CodeEditor
    editor,             \* connection: mounted, released to its DeferredDisposer, or disposed
    open,               \* openPromise of the transport, and of the client's initialization
    unavailable,        \* unavailableNotified of the resource
    socket,             \* readyState
    \* history
    stranded,           \* the files changed while the session shown had no connection
    outdated,           \* the sessions made from an earlier list of files
    asked               \* requests since the list of files last changed

playground == <<lspSession, shown, lspCycle, reconnectCount, reconnectTimer,
                pendingRestart, stranded, connecting, mounted>>
editors == <<loaded, editor, open, unavailable, socket>>
vars == <<project, playground, editors, outdated, asked>>

None == "none"

ASSUME NoneAssumption == None \notin Sessions

Idle == [state |-> "idle", attempt |-> 0, outdated |-> FALSE]

\* More requests than these since the last change of the files are not counted.
AskedBound == MaxConnectAttempts * (MaxReconnectAttempts + 3)

\* A place nothing refers to: its editor is gone and its socket closed.
free(s) ==
    /\ s \notin {lspSession, shown}
    /\ editor[s] \in {"none", "disposed"} /\ socket[s] \in {"none", "closed"}

-----------------------------------------------------------------------------
(* The Playground.                                                         *)

\* Mutant of connectLsp: it keeps the files of the request before it.
connectLspCaptured(attempt) ==
    /\ connecting' = [connecting EXCEPT !.state = "request", !.attempt = attempt]
    /\ asked' = IF asked > AskedBound THEN asked ELSE asked + 1

\* connectLsp sends a request with the files of this moment.
connectLsp(attempt) ==
    /\ connecting' = [state |-> "request", attempt |-> attempt, outdated |-> FALSE]
    /\ asked' = IF asked > AskedBound THEN asked ELSE asked + 1

\* Mutant of statusConnected: a connection gives back all attempts.
statusConnectedResets ==
    /\ reconnectTimer' = FALSE
    /\ reconnectCount' = 0
    /\ UNCHANGED lspSession

\* handleLspStatusChange("connected").
statusConnected ==
    /\ reconnectTimer' = FALSE
    /\ UNCHANGED <<lspSession, reconnectCount>>

\* handleLspStatusChange("unavailable"): the session is given up, and another one
\* asked for later, unless that is already planned or the attempts are used up.
statusUnavailable ==
    LET again == ~reconnectTimer /\ reconnectCount < MaxReconnectAttempts
    IN  /\ lspSession' = None
        /\ reconnectCount' = IF again THEN reconnectCount + 1 ELSE reconnectCount
        /\ reconnectTimer' = (reconnectTimer \/ again)

\* Mutant of handleLspDisposed: the flag stays.
handleLspDisposedAgain ==
    /\ UNCHANGED pendingRestart /\ stranded' = FALSE
    /\ lspCycle' = IF pendingRestart THEN "set" ELSE lspCycle

\* Mutant of handleLspDisposed: no new cycle.
handleLspDisposedQuietly ==
    /\ pendingRestart' = FALSE /\ stranded' = FALSE
    /\ UNCHANGED lspCycle

\* handleLspDisposed, once the socket of a disposed editor has closed.
handleLspDisposed ==
    /\ pendingRestart' = FALSE /\ stranded' = FALSE
    /\ lspCycle' = IF pendingRestart THEN "set" ELSE lspCycle

\* The answer to the request of the last effect, with a session. The answer to a
\* cancelled effect changes nothing.
SessionCreated(s) ==
    /\ connecting.state = "request" /\ free(s)
    /\ lspSession' = s
    /\ connecting' = Idle
    /\ outdated' = IF connecting.outdated THEN outdated \cup {s} ELSE outdated \ {s}
    /\ editor' = [editor EXCEPT ![s] = "none"]
    /\ open' = [open EXCEPT ![s] = "none"]
    /\ unavailable' = unavailable \ {s}
    /\ socket' = [socket EXCEPT ![s] = "none"]
    /\ UNCHANGED <<shown, lspCycle, reconnectCount, reconnectTimer,
                   pendingRestart, stranded, mounted, loaded, asked, project>>

\* The request fails: connectLsp waits for its retry timer, or gives up.
CreateFails ==
    /\ connecting.state = "request"
    /\ IF connecting.attempt + 1 < MaxConnectAttempts
       THEN /\ connecting' = [connecting EXCEPT !.state = "retry"]
            /\ UNCHANGED lspSession
       ELSE /\ connecting' = Idle
            /\ lspSession' = None
    /\ UNCHANGED <<shown, lspCycle, reconnectCount, reconnectTimer, pendingRestart, stranded,
                   mounted, editors, outdated, asked, project>>

RetryTimer ==
    /\ connecting.state = "retry"
    /\ connectLsp(connecting.attempt + 1)
    /\ UNCHANGED <<lspSession, shown, lspCycle, reconnectCount, reconnectTimer,
                   pendingRestart, stranded, mounted, editors, outdated, project>>

ReconnectTimer ==
    /\ reconnectTimer
    /\ reconnectTimer' = FALSE
    /\ lspCycle' = "set"
    /\ UNCHANGED <<lspSession, shown, reconnectCount, pendingRestart, stranded, connecting,
                   mounted, editors, outdated, asked, project>>

\* A file is created, renamed or deleted, with updateProjectStructure: it sees the
\* session as rendered.
UpdateProjectStructure ==
    /\ mounted
    /\ ChangeFiles
    /\ reconnectTimer' = FALSE
    /\ reconnectCount' = 0
    /\ outdated' = Sessions
    /\ connecting' = [connecting EXCEPT !.outdated = @ \/ connecting.state = "request"]
    /\ asked' = 0
    /\ IF pendingRestart
       THEN UNCHANGED <<lspSession, pendingRestart, stranded, lspCycle>>
       ELSE IF shown # None
       THEN /\ lspSession' = None /\ pendingRestart' = TRUE
            /\ stranded' = (editor[shown] # "mounted")
            /\ UNCHANGED lspCycle
       ELSE lspCycle' = "set" /\ UNCHANGED <<lspSession, pendingRestart, stranded>>
    /\ UNCHANGED <<shown, mounted, editors>>

\* The cleanup of an editor's effect calls release of its DeferredDisposer, which leaves
\* the rest to a timer.
release(e) == IF e = "mounted" THEN "released" ELSE e

\* The effect of the CodeEditor of session s: the connection is made, or making it throws,
\* which leaves none, and no cleanup. The editors are as in others otherwise.
connect(s, others) ==
    \/ /\ editor' = [others EXCEPT ![s] = "mounted"]
       /\ socket' = [socket EXCEPT ![s] = "connecting"]
       /\ open' = [open EXCEPT ![s] = "opening"]
       /\ UNCHANGED <<lspSession, reconnectCount, reconnectTimer>>
    \/ /\ editor' = others
       /\ statusUnavailable
       /\ UNCHANGED <<open, socket>>

\* React renders what was set: the editor of another session replaces the one shown, if
\* its chunk is there, and the effect of a new cycle cancels connectLsp and begins it again.
Render ==
    LET others == [s \in Sessions |->
            IF s = shown /\ s # lspSession THEN release(editor[s]) ELSE editor[s]]
    IN  /\ mounted
        /\ shown # lspSession \/ lspCycle = "set"
        /\ shown' = lspSession
        /\ IF loaded /\ lspSession \notin {shown, None}
           THEN connect(lspSession, others)
           ELSE /\ editor' = others
                /\ UNCHANGED <<open, socket, lspSession, reconnectCount, reconnectTimer>>
        /\ IF lspCycle = "set"
           THEN connectLsp(0)
           ELSE UNCHANGED <<connecting, asked>>
        /\ lspCycle' = "run"
        /\ UNCHANGED <<pendingRestart, stranded, mounted, loaded, unavailable, outdated,
                       project>>

\* The chunk of CodeEditor arrives: the editor of what is rendered is mounted.
CodeEditorLoads ==
    /\ mounted /\ ~loaded
    /\ loaded' = TRUE
    /\ IF shown # None
       THEN connect(shown, editor)
       ELSE UNCHANGED <<editor, open, socket, lspSession, reconnectCount, reconnectTimer>>
    /\ UNCHANGED <<shown, lspCycle, pendingRestart, stranded, connecting, mounted, unavailable,
                   outdated, asked, project>>

\* The page is left: the cleanups of all effects.
Unmount ==
    /\ mounted
    /\ mounted' = FALSE
    /\ connecting' = Idle
    /\ reconnectTimer' = FALSE
    /\ editor' = [s \in Sessions |-> release(editor[s])]
    /\ UNCHANGED <<lspSession, shown, lspCycle, reconnectCount, pendingRestart, stranded,
                   loaded, open, unavailable, socket, outdated, asked, project>>

-----------------------------------------------------------------------------
(* The CodeEditor and its transport.                                       *)

\* notifyUnavailable, for a failure of any kind: at most once for a connection, and
\* never for one that was disposed of.
notifyUnavailable(s) ==
    IF editor[s] = "disposed" \/ s \in unavailable
    THEN UNCHANGED <<unavailable, lspSession, reconnectCount, reconnectTimer>>
    ELSE unavailable' = unavailable \cup {s} /\ statusUnavailable

\* handleOpen: the client sends its initialize request, unless the wait is over.
SocketOpens(s) ==
    /\ socket[s] = "connecting"
    /\ socket' = [socket EXCEPT ![s] = "open"]
    /\ open' = [open EXCEPT ![s] = IF @ = "opening" THEN "initializing" ELSE @]
    /\ UNCHANGED <<playground, loaded, editor, unavailable, outdated, asked, project>>

\* The openTimer: the socket is left as it is.
OpenTimeout(s) ==
    /\ open[s] = "opening"
    /\ open' = [open EXCEPT ![s] = "settled"]
    /\ notifyUnavailable(s)
    /\ UNCHANGED <<shown, lspCycle, pendingRestart, stranded, connecting, mounted, loaded,
                   editor, socket, outdated, asked, project>>

\* The server answered initialize.
Initialized(s) ==
    /\ open[s] = "initializing" /\ socket[s] = "open"
    /\ open' = [open EXCEPT ![s] = "settled"]
    /\ IF editor[s] = "disposed" \/ s \in unavailable
       THEN UNCHANGED <<lspSession, reconnectCount, reconnectTimer>>
       ELSE statusConnected
    /\ UNCHANGED <<shown, lspCycle, pendingRestart, stranded, connecting, mounted, loaded,
                   editor, unavailable, socket, outdated, asked, project>>

\* initialize is refused, or not answered in time.
InitializeFails(s) ==
    /\ open[s] = "initializing"
    /\ open' = [open EXCEPT ![s] = "settled"]
    /\ notifyUnavailable(s)
    /\ UNCHANGED <<shown, lspCycle, pendingRestart, stranded, connecting, mounted, loaded,
                   editor, socket, outdated, asked, project>>

\* The socket closes, after an error or without one: handleError and handleClose.
SocketCloses(s) ==
    /\ socket[s] \in {"connecting", "open", "closing"}
    /\ socket' = [socket EXCEPT ![s] = "closed"]
    /\ open' = [open EXCEPT ![s] = IF @ = "opening" THEN "settled" ELSE @]
    /\ notifyUnavailable(s)
    /\ IF editor[s] = "disposed"
       THEN handleLspDisposed
       ELSE UNCHANGED <<pendingRestart, stranded, lspCycle>>
    /\ UNCHANGED <<shown, connecting, mounted, loaded, editor, outdated, asked, project>>

\* dispose of the transport: a wait for its opening fails, and the socket is closed.
disposeTransport(s) ==
    /\ open' = [open EXCEPT ![s] = "settled"]
    /\ socket' = [socket EXCEPT ![s] = IF @ \in {"connecting", "open"} THEN "closing" ELSE @]

\* The timer of the DeferredDisposer: the client and the transport are disposed of,
\* which closes the socket.
Dispose(s) ==
    /\ editor[s] = "released"
    /\ editor' = [editor EXCEPT ![s] = "disposed"]
    /\ disposeTransport(s)
    /\ IF socket[s] = "closed"
       THEN handleLspDisposed
       ELSE UNCHANGED <<pendingRestart, stranded, lspCycle>>
    /\ UNCHANGED <<lspSession, shown, reconnectCount, reconnectTimer, connecting,
                   mounted, loaded, unavailable, outdated, asked, project>>

-----------------------------------------------------------------------------
\* The project is loaded and the effect has run for the first time.
Init ==
    /\ project \in {loadProject(stored) : stored \in Stored}
    /\ lspSession = None /\ shown = None
    /\ lspCycle = "run"
    /\ reconnectCount = 0 /\ reconnectTimer = FALSE
    /\ pendingRestart = FALSE /\ stranded = FALSE
    /\ connecting = [state |-> "request", attempt |-> 0, outdated |-> FALSE]
    /\ mounted = TRUE /\ loaded = FALSE
    /\ editor = [s \in Sessions |-> "none"]
    /\ open = [s \in Sessions |-> "none"]
    /\ unavailable = {}
    /\ socket = [s \in Sessions |-> "none"]
    /\ outdated = {}
    /\ asked = 1

Answer == CreateFails \/ \E s \in Sessions : SessionCreated(s)

Opening(s) == SocketOpens(s) \/ OpenTimeout(s)

Initializing(s) == Initialized(s) \/ InitializeFails(s)

Next ==
    \/ Answer \/ RetryTimer \/ ReconnectTimer \/ Render \/ CodeEditorLoads
    \/ UpdateProjectStructure \/ Unmount
    \/ \E s \in Sessions :
          Opening(s) \/ Initializing(s) \/ SocketCloses(s) \/ Dispose(s)

Spec == Init /\ [][Next]_vars

\* fetch settles, timers fire, React renders, and a closing handshake ends.
Fairness ==
    /\ WF_vars(Answer) /\ WF_vars(RetryTimer) /\ WF_vars(ReconnectTimer) /\ WF_vars(Render)
    /\ \A s \in Sessions :
          /\ WF_vars(OpenTimeout(s)) /\ WF_vars(Initializing(s)) /\ WF_vars(Dispose(s))
          /\ WF_vars(socket[s] = "closing" /\ SocketCloses(s))

FairSpec == Spec /\ Fairness

-----------------------------------------------------------------------------
\* The type of the state of the component, its editors and their sockets.
TypeOK ==
    /\ project \in [files : Seq(Names), activeFileName : Names]
    /\ {lspSession, shown} \subseteq Sessions \cup {None}
    /\ lspCycle \in {"set", "run"}
    /\ reconnectCount \in 0..MaxReconnectAttempts
    /\ {reconnectTimer, pendingRestart, stranded, mounted, loaded} \subseteq BOOLEAN
    /\ connecting \in [state : {"idle", "request", "retry"},
                       attempt : 0..MaxConnectAttempts - 1, outdated : BOOLEAN]
    /\ editor \in [Sessions -> {"none", "mounted", "released", "disposed"}]
    /\ open \in [Sessions -> {"none", "opening", "initializing", "settled"}]
    /\ socket \in [Sessions -> {"none", "connecting", "open", "closing", "closed"}]
    /\ unavailable \subseteq Sessions /\ outdated \subseteq Sessions
    /\ asked \in 0..AskedBound + 1

restartComing == lspCycle = "set" \/ pendingRestart

\* A session made from an earlier list of files, or a request with one, is never what
\* the page is left with: a restart is under way, or a request with the files as they are.
\* The one exception is a restart that has nothing to wait for.
SessionHasFiles ==
    (lspSession \in outdated \/ connecting.outdated) /\ mounted /\ ~stranded =>
        restartComing \/ (connecting.state # "idle" /\ ~connecting.outdated)

\* A restart that waits for the connection of an editor has one to wait for: one that is
\* shown and about to be replaced, one that is released, or a socket that is closing. The
\* one exception is a change of the files while a session is shown whose connection was
\* never made, as the chunk of CodeEditor is not there, or making it threw.
RestartHasCause ==
    pendingRestart /\ mounted /\ ~stranded =>
        \E s \in Sessions :
            \/ s = shown /\ lspSession # s /\ editor[s] = "mounted"
            \/ editor[s] = "released"
            \/ editor[s] = "disposed" /\ socket[s] = "closing"

\* A service that fails is left alone: only so many requests are made until the user
\* changes the list of files.
RequestsBounded == asked <= AskedBound

\* Every change of the list of files reaches the server: a session is asked for with it,
\* unless its restart has nothing to wait for.
FilesReachServer == (mounted /\ asked = 0 /\ ~stranded) ~> (asked # 0 \/ ~mounted)

=============================================================================
