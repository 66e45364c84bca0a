------------------------------ MODULE GrpcServer ------------------------------
(***************************************************************************)
(* start_grpc_server of src/src/camera_grpc_server.cc and the shutdown on  *)
(* SIGINT through status_t of src/src/utils.cpp: the main thread in        *)
(* Server::Wait, the watcher thread of OnlyForShutdownGrpcServer, the      *)
(* workers that run RPC handlers, and the signal handler, which interrupts *)
(* whichever of these threads the system picks.                            *)
(***************************************************************************)
EXTENDS Naturals

CONSTANTS
    Worker,         \* worker threads of the server
    Main, Watcher,  \* the two other threads
    NoThread,
    MaxSignals      \* bound on the SIGINTs a behaviour has

Threads == Worker \cup {Main, Watcher}

ASSUME ThreadsAssumption ==
    /\ Main \notin Worker /\ Watcher \notin Worker /\ Main # Watcher
    /\ NoThread \notin Threads
    /\ MaxSignals \in Nat

VARIABLES
    main,       \* where start_grpc_server is; "crashed" where the process is gone
    watcher,    \* where OnlyForShutdownGrpcServer::run is
    server,     \* the grpc::Server
    busy,       \* the workers inside a handler of CameraServiceImpl
    status,     \* status_ of MAIN_PROGRAM_LOOP
    mtx,        \* mtx_ of MAIN_PROGRAM_LOOP: the thread that holds it
    handler,    \* handler[t]: where the signal handler on thread t is
    signals     \* the SIGINTs delivered so far

threads == <<main, watcher, server, busy>>
signal  == <<status, mtx, handler, signals>>
vars    == <<threads, signal>>

\* A thread in the signal handler does nothing else until it returns; after a
\* crash or the end of main no thread does anything.
Running == main \notin {"crashed", "exited"}
Runs(t) == Running /\ handler[t] = "none"

-----------------------------------------------------------------------------
(* Mutations of the operations below, for testing the properties. *)

\* The flag is read the wrong way round.
CheckInverted ==
    /\ Runs(Watcher)
    /\ watcher = "check"
    /\ watcher' = IF status THEN "asleep" ELSE "stopping"
    /\ UNCHANGED <<main, server, busy, signal>>

\* run does not call Shutdown.
ShutdownForgotten ==
    /\ Runs(Watcher)
    /\ watcher = "stopping"
    /\ watcher' = "done"
    /\ UNCHANGED <<main, server, busy, signal>>

\* wait does not join the watcher.
JoinForgotten ==
    /\ Runs(Main)
    /\ main = "joining"
    /\ main' = "leaving"
    /\ UNCHANGED <<watcher, server, busy, signal>>

\* mtx_ is locked but not given back.
StopKeepsLock(t) ==
    /\ Running
    /\ handler[t] = "set"
    /\ status' = TRUE
    /\ handler' = [handler EXCEPT ![t] = "none"]
    /\ UNCHANGED <<threads, mtx, signals>>

-----------------------------------------------------------------------------
\* main has called init_loop_signal and enters start_grpc_server.
Init ==
    /\ main = "building"
    /\ watcher = "none"
    /\ server = "none"
    /\ busy = {}
    /\ status = FALSE
    /\ mtx = NoThread
    /\ handler = [t \in Threads |-> "none"]
    /\ signals = 0

\* BuildAndStart returns a server, or nullptr where it cannot listen.
Build ==
    /\ Runs(Main)
    /\ main = "building"
    /\ server' \in {"serving", "null"}
    /\ main' = "spawning"
    /\ UNCHANGED <<watcher, busy, signal>>

\* OnlyForShutdownGrpcServer::start; std::thread may throw, start then returns
\* -1, and the result is ignored.
Spawn ==
    /\ Runs(Main)
    /\ main = "spawning"
    /\ watcher' \in {"check", "none"}
    /\ main' = "waiting"
    /\ UNCHANGED <<server, busy, signal>>

\* server->Wait() through a null pointer.
WaitNull ==
    /\ Runs(Main)
    /\ main = "waiting"
    /\ server = "null"
    /\ main' = "crashed"
    /\ UNCHANGED <<watcher, server, busy, signal>>

\* Wait returns when Shutdown has completed.
Wait ==
    /\ Runs(Main)
    /\ main = "waiting"
    /\ server = "down"
    /\ main' = "joining"
    /\ UNCHANGED <<watcher, server, busy, signal>>

\* OnlyForShutdownGrpcServer::wait.
Join ==
    /\ Runs(Main)
    /\ main = "joining"
    /\ watcher = "done"
    /\ main' = "leaving"
    /\ UNCHANGED <<watcher, server, busy, signal>>

\* start_grpc_server returns: the server and then the service are destroyed.
Leave ==
    /\ Runs(Main)
    /\ main = "leaving"
    /\ server' = "destroyed"
    /\ main' = "exited"
    /\ UNCHANGED <<watcher, busy, signal>>

-----------------------------------------------------------------------------
\* status_t::loop reads status_, without mtx_, once a second.
Check ==
    /\ Runs(Watcher)
    /\ watcher = "check"
    /\ watcher' = IF status THEN "stopping" ELSE "asleep"
    /\ UNCHANGED <<main, server, busy, signal>>

Wake ==
    /\ Runs(Watcher)
    /\ watcher = "asleep"
    /\ watcher' = "check"
    /\ UNCHANGED <<main, server, busy, signal>>

\* run after loop_until: Shutdown, unless there is no server.
Shutdown ==
    /\ Runs(Watcher)
    /\ watcher = "stopping"
    /\ IF server = "null" THEN watcher' = "done" /\ UNCHANGED server
                          ELSE watcher' = "shutting" /\ server' = "draining"
    /\ UNCHANGED <<main, busy, signal>>

\* Shutdown without a deadline lets every handler finish. Wait may return
\* before Shutdown does.
Drained ==
    /\ Runs(Watcher)
    /\ watcher = "shutting"
    /\ server = "draining"
    /\ busy = {}
    /\ server' = "down"
    /\ UNCHANGED <<main, watcher, busy, signal>>

ShutdownReturns ==
    /\ Runs(Watcher)
    /\ watcher = "shutting"
    /\ server = "down"
    /\ watcher' = "done"
    /\ UNCHANGED <<main, server, busy, signal>>

-----------------------------------------------------------------------------
\* The server gives a request to a worker, whose handler returns in the end, unless
\* it aborts.
Accept(w) ==
    /\ Runs(w)
    /\ server = "serving"
    /\ w \notin busy
    /\ busy' = busy \cup {w}
    /\ UNCHANGED <<main, watcher, server, signal>>

Finish(w) ==
    /\ Runs(w)
    /\ w \in busy
    /\ busy' = busy \ {w}
    /\ UNCHANGED <<main, watcher, server, signal>>

\* An assertion in a handler fails, of take_picture or of set_data_size: the process
\* aborts, with whatever requests there are.
Abort(w) ==
    /\ Runs(w)
    /\ w \in busy
    /\ main' = "crashed"
    /\ UNCHANGED <<watcher, server, busy, signal>>

-----------------------------------------------------------------------------
\* SIGINT is delivered to thread t, which must exist and not be in the handler
\* already: the signal is blocked there.
Interrupt(t) ==
    /\ Runs(t)
    /\ t = Watcher => watcher \notin {"none", "done"}
    /\ t \in Worker => server \in {"serving", "draining"}
    /\ signals < MaxSignals
    /\ signals' = signals + 1
    /\ handler' = [handler EXCEPT ![t] = "lock"]
    /\ UNCHANGED <<threads, status, mtx>>

\* signal_handler calls status_t::stop.
Lock(t) ==
    /\ Running
    /\ handler[t] = "lock"
    /\ mtx = NoThread
    /\ mtx' = t
    /\ handler' = [handler EXCEPT ![t] = "set"]
    /\ UNCHANGED <<threads, status, signals>>

Stop(t) ==
    /\ Running
    /\ handler[t] = "set"
    /\ status' = TRUE
    /\ mtx' = NoThread
    /\ handler' = [handler EXCEPT ![t] = "none"]
    /\ UNCHANGED <<threads, signals>>

-----------------------------------------------------------------------------
MainStep    == Build \/ Spawn \/ WaitNull \/ Wait \/ Join \/ Leave
WatcherStep == Check \/ Wake \/ Shutdown \/ Drained \/ ShutdownReturns
HandlerStep(t) == Lock(t) \/ Stop(t)

Halted == ~Running /\ UNCHANGED vars

Next ==
    \/ MainStep
    \/ WatcherStep
    \/ \E w \in Worker : Accept(w) \/ Finish(w) \/ Abort(w)
    \/ \E t \in Threads : Interrupt(t) \/ HandlerStep(t)
    \/ Halted

Spec == Init /\ [][Next]_vars

-----------------------------------------------------------------------------
\* mtx_ is held by the thread in the critical section of stop, and by no other.
HandlerExclusion ==
    \A t \in Threads : handler[t] = "set" <=> mtx = t

\* The types of the variables; the owner of mtx_ is the thread inside stop, also
\* where SIGINT interrupts several threads.
TypeOK ==
    /\ main \in {"building", "spawning", "waiting", "joining", "leaving",
                 "exited", "crashed"}
    /\ watcher \in {"none", "check", "asleep", "stopping", "shutting", "done"}
    /\ server \in {"none", "null", "serving", "draining", "down", "destroyed"}
    /\ busy \subseteq Worker
    /\ status \in BOOLEAN
    /\ handler \in [Threads -> {"none", "lock", "set"}]
    /\ mtx \in Threads \cup {NoThread}
    /\ signals \in 0..MaxSignals
    /\ HandlerExclusion

\* Nobody uses the server or the service after start_grpc_server destroyed them: no
\* handler is left, so that an orderly end cuts no request off, and Shutdown has
\* returned in the watcher.
ServerOutlivesUse == server = "destroyed" => watcher = "done" /\ busy = {}

\* The server stops only because of a SIGINT, and for good.
OnlySignalStops == server \in {"draining", "down", "destroyed"} => status

\* "some other thread must be responsible for shutting down the server for this
\* call to ever return" (comment above server->Wait()): once SIGINT arrived, be
\* it before the watcher runs, and there is a watcher, the program ends. (Where
\* the watcher could not be created nothing ends it.)
StopsOnSignal ==
    signals > 0 /\ watcher # "none" ~> main \in {"exited", "crashed"}

===============================================================================
