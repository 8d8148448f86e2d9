------------------------------ MODULE ApiProcess ------------------------------
(***************************************************************************)
(* The API process around CreateImport: it listens until a signal, which   *)
(* two handlers serve at the same time.  registerGracefulShutdown drains,  *)
(* closes the HTTP server, closes the context and exits, all under its     *)
(* grace timer; the handler of enableShutdownHooks disconnects the         *)
(* database client, closes the same server and raises the signal again.    *)
(* Whatever ends the process cuts the requests it is handling, and the     *)
(* container's supervisor starts another.                                  *)
(*                                                                         *)
(* Left out: shutdownState, which nothing in this process reads, the       *)
(* queries, which change no state, and the database client, which connects *)
(* again when it is used; a statement it fails meanwhile is StepFails.     *)
(***************************************************************************)
EXTENDS CreateImport

CONSTANT MAX_SIGNALS    \* bound on the signals ever sent

ASSUME ApiAssumption == MAX_SIGNALS \in Nat

VARIABLES
    server,     \* the HTTP server
    handler,    \* the step the signal handler awaits; "idle" before a signal
    hooks,      \* the framework's handler
    aborted,    \* requests whose client hung up before an answer
    signals,    \* signals sent so far
    exit        \* "running", or how the process ended

processVars == <<server, handler, hooks, aborted, signals, exit>>
apiVars     == <<vars, processVars>>

ApiTypeOK ==
    /\ server \in {"listening", "closing", "closed"}
    /\ handler \in {"idle", "drain", "server", "context"}
    /\ hooks \in {"off", "destroy", "server", "raise"}
    /\ aborted \in SUBSET Requests
    /\ signals \in 0..MAX_SIGNALS
    /\ exit \in {"running", "clean", "raised", "forced"}

ApiInit ==
    /\ Init
    /\ server = "listening"
    /\ handler = "idle"
    /\ hooks = "off"
    /\ aborted = {}
    /\ signals = 0
    /\ exit = "running"

-----------------------------------------------------------------------------
(***************************************************************************)
(* Requests.                                                               *)
(***************************************************************************)
\* app.listen: a closing server takes no new connection and answers 503 on old ones.
Receive(r) ==
    /\ server = "listening"
    /\ Arrive(r)
    /\ UNCHANGED processVars

Serve(r) == Handle(r) /\ UNCHANGED processVars

\* The client's connection is gone.  The handler is not told: a stream still being saved
\* breaks (SaveFails), any other step goes on.
HangUp(r) ==
    /\ "abort" \in Hazards
    /\ pc[r] \in Handled /\ r \notin aborted
    /\ aborted' = aborted \cup {r}
    /\ UNCHANGED <<vars, server, handler, hooks, signals, exit>>

-----------------------------------------------------------------------------
(***************************************************************************)
(* Signals.                                                                *)
(***************************************************************************)
\* process.exit.
Exit(how) ==
    /\ exit' = how
    /\ Crash

\* process.on of both handlers: the framework's ignores a repeated signal, the other
\* exits at once.
HandleSignal(how) ==
    /\ hooks' = IF hooks = "off" THEN "destroy" ELSE hooks
    /\ \/ handler = "idle" /\ handler' = "drain" /\ UNCHANGED <<vars, exit>>
       \/ handler # "idle" /\ Exit(how) /\ UNCHANGED handler
    /\ UNCHANGED <<server, aborted>>

Signal ==
    /\ signals < MAX_SIGNALS
    /\ signals' = signals + 1
    /\ HandleSignal("forced")

\* Step drain-readiness, a pause.
Drained ==
    /\ handler = "drain"
    /\ handler' = "server"
    /\ UNCHANGED <<vars, server, hooks, aborted, signals, exit>>

\* Mutant: nobody waits for the server's close.
CloseServerUnawaited(at, at1, next) ==
    /\ at = "server"
    /\ server' = IF server = "listening" THEN "closing" ELSE server
    /\ at1 = next

\* close() of the server for one of its callers, which goes from `at` to `at1`: it
\* stops listening and resolves, for every caller, when the server is closed.
CloseServer(at, at1, next) ==
    \/ at = "server" /\ server = "listening" /\ server' = "closing" /\ at1 = at
    \/ at = "server" /\ server = "closed" /\ UNCHANGED server /\ at1 = next

\* Step close-http-server.
CloseHttpServer ==
    /\ CloseServer(handler, handler', "context")
    /\ UNCHANGED <<vars, hooks, aborted, signals, exit>>

\* The last connection has ended: its request was answered, or its client hung up.
ServerClosed ==
    /\ server = "closing"
    /\ \A r \in Requests : pc[r] \in Handled => r \in aborted
    /\ server' = "closed"
    /\ UNCHANGED <<vars, handler, hooks, aborted, signals, exit>>

\* context.close() finds the server closed, then exit(0); a step or a hook that
\* rejects leads to exit(1).
CloseContext ==
    /\ \/ handler = "context" /\ Exit("clean")
       \/ "error" \in Hazards /\ handler # "idle" /\ Exit("forced")
    /\ UNCHANGED <<server, handler, hooks, aborted, signals>>

\* The grace period ends.
ForceExit ==
    /\ handler # "idle"
    /\ Exit("forced")
    /\ UNCHANGED <<server, handler, hooks, aborted, signals>>

-----------------------------------------------------------------------------
(***************************************************************************)
(* The framework's handler.                                                *)
(***************************************************************************)
\* PrismaService.onModuleDestroy, under the requests; exit(1) when it rejects.
Disconnect ==
    /\ hooks = "destroy"
    /\ \/ hooks' = "server" /\ UNCHANGED <<vars, exit>>
       \/ "error" \in Hazards /\ Exit("forced") /\ UNCHANGED hooks
    /\ UNCHANGED <<server, handler, aborted, signals>>

\* dispose() of the HTTP adapter.
Dispose ==
    /\ CloseServer(hooks, hooks', "raise")
    /\ UNCHANGED <<vars, handler, aborted, signals, exit>>

\* process.kill(process.pid, signal): to the other handler a second signal.
RaiseAgain ==
    /\ hooks = "raise"
    /\ HandleSignal("raised")
    /\ UNCHANGED signals

-----------------------------------------------------------------------------
\* kill -9, or out of memory.
Killed ==
    /\ Exit("forced")
    /\ UNCHANGED <<server, handler, hooks, aborted, signals>>

Restart ==
    /\ exit # "running"
    /\ exit' = "running"
    /\ server' = "listening"
    /\ handler' = "idle"
    /\ hooks' = "off"
    /\ UNCHANGED <<vars, aborted, signals>>

ApiNext ==
    \/ /\ exit = "running"
       /\ \/ \E r \in Requests : Receive(r) \/ Serve(r) \/ HangUp(r)
          \/ Signal \/ Drained \/ CloseHttpServer \/ ServerClosed \/ CloseContext
          \/ ForceExit \/ Disconnect \/ Dispose \/ RaiseAgain \/ Killed
    \/ Restart

ApiSpec == ApiInit /\ [][ApiNext]_apiVars

-----------------------------------------------------------------------------
(***************************************************************************)
(* Properties.                                                             *)
(***************************************************************************)
\* Neither exit(0) nor the exit that the framework's own signal brings about cuts a
\* request whose client waits for its answer: both closers wait for its connection,
\* whichever closed first.  Handlers whose client hung up are waited for by neither.
UnforcedExitCutsNoClient ==
    [][exit = "running" /\ exit' \in {"clean", "raised"} =>
          \A r \in Requests : pc[r] \in Handled => r \in aborted]_apiVars
=============================================================================
