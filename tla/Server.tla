------------------------------- MODULE Server -------------------------------
(***************************************************************************)
(* The whole process: serve() and the shutdown task of main.py around the  *)
(* calls of GrpcService, with the HTTP listener (health_app.py) and the    *)
(* gRPC health service, from the creation of the store to the end of       *)
(* asyncio.run.                                                            *)
(*                                                                         *)
(* An HTTP request that reads the statistics is a member of Probes.  It    *)
(* shares the thread pool with the gRPC calls, but it has no interceptors  *)
(* and is not counted as active.                                           *)
(***************************************************************************)
EXTENDS GrpcService

CONSTANT Probes         \* HTTP requests to /health, /ready, /stats or /metrics

ASSUME ProbesAssumption == Probes \subseteq Rpcs

VARIABLES
    backend,            \* settings.backend
    main,               \* how far serve() has come
    shutdown_task,      \* how far the shutdown task has come
    accepting,          \* whether the gRPC server takes new calls
    health_status,      \* of "" and "cache.CacheService", always set together
    store_state,
    stops,              \* history: calls of cache_store.stop()
    raised,             \* history: the parts that raised, see Failures
    met_closed          \* history: calls whose work met a closed connection

calls == <<store, caller, rpc, job, queue, active_requests, committed>>
lifecycle == <<backend, main, shutdown_task, accepting, health_status,
               store_state, stops, raised, met_closed>>
svars == <<calls, lifecycle>>

\* serve() when the gRPC port is taken ("bind") and elsewhere before it waits
\* ("start"), and the shutdown of the two servers.
Failures == {"bind", "start", "grpc", "http"}

Calls == Rpcs \ Probes
Waiting(S) == {r \in S : rpc[r].phase = "awaiting"}

ServerInit ==
    /\ Init
    /\ backend \in {"memory", "sqlite"}
    /\ main = "new"
    /\ shutdown_task = "none"
    /\ accepting = FALSE
    /\ health_status = None
    /\ store_state = "none"
    /\ stops = 0
    /\ raised = {}
    /\ met_closed = {}

-----------------------------------------------------------------------------
(* serve(), up to the point where it waits.                                *)

\* The store, the servicers and the server object.
Create ==
    /\ main = "new" /\ main' = "created"
    /\ store_state' = "open"
    /\ health_status' = "SERVING"
    /\ UNCHANGED <<calls, backend, shutdown_task, accepting, stops,
                   raised, met_closed>>

\* The exception leaves serve(), and asyncio.run cancels what is left.
Raise(part) ==
    /\ main' = "closing"
    /\ accepting' = FALSE
    /\ raised' = raised \cup {part}
    /\ UNCHANGED <<calls, backend, shutdown_task, health_status, met_closed>>

\* The database cannot be opened, or the TLS files cannot be read.
CreateOrTlsRaises ==
    /\ \/ main = "new" /\ backend = "sqlite"
       \/ main = "created"
    /\ Raise("start")
    /\ UNCHANGED <<store_state, stops>>

stop_store == store_state' = "stopped" /\ stops' = stops + 1

\* add_grpc_listen_port returned 0.
BindRefused ==
    /\ main = "created"
    /\ stop_store
    /\ Raise("bind")

\* The port is bound and the server started: it accepts calls.
StartGrpc ==
    /\ main = "created" /\ main' = "started"
    /\ accepting' = TRUE
    /\ UNCHANGED <<calls, backend, shutdown_task, health_status,
                   store_state, stops, raised, met_closed>>

\* The HTTP port is taken, or the start is interrupted.
StartHttpRaises ==
    /\ main = "started"
    /\ Raise("start")
    /\ UNCHANGED <<store_state, stops>>

\* From here on there is an HTTP listener, and signals have their handlers.
StartHttp ==
    /\ main = "started" /\ main' = "serving"
    /\ UNCHANGED <<calls, backend, shutdown_task, accepting, health_status,
                   store_state, stops, raised, met_closed>>

-----------------------------------------------------------------------------
(* Shutdown.                                                               *)

Unsettled == <<calls, backend, met_closed>>

\* A bug: the handlers are there before there is something to shut down.
SignalAtStart ==
    /\ main \in {"started", "serving"}
    /\ shutdown_task = "none" /\ shutdown_task' = "created"
    /\ UNCHANGED <<Unsettled, main, accepting, health_status, store_state, stops, raised>>

\* A bug: every signal begins a shutdown of its own.
SignalAgain ==
    /\ main \in {"serving", "ending"}
    /\ stops < 2
    /\ shutdown_task' = "created"
    /\ UNCHANGED <<Unsettled, main, accepting, health_status, store_state, stops, raised>>

\* SIGTERM or SIGINT; once there is a task another one changes nothing.
_begin_shutdown ==
    /\ main \in {"serving", "ending"}
    /\ shutdown_task = "none" /\ shutdown_task' = "created"
    /\ UNCHANGED <<Unsettled, main, accepting, health_status, store_state, stops, raised>>

ServerStopped == shutdown_task \in {"cleaning", "done"} /\ ~accepting

\* A bug: only signals create the task.
WaitEndsBare ==
    /\ main = "serving" /\ main' = "ending"
    /\ UNCHANGED <<Unsettled, shutdown_task, accepting, health_status, store_state,
                   stops, raised>>

\* wait_for_termination returns once the server has stopped; it may also raise.
WaitEnds ==
    /\ main = "serving" /\ main' = "ending"
    /\ shutdown_task' = IF shutdown_task = "none" THEN "created" ELSE shutdown_task
    /\ UNCHANGED <<Unsettled, accepting, health_status, store_state, stops, raised>>

\* _mark_grpc_not_serving, and the server refuses calls as soon as it stops.
MarkNotServing ==
    /\ shutdown_task = "created" /\ shutdown_task' = "draining"
    /\ health_status' = "NOT_SERVING"
    /\ accepting' = FALSE
    /\ UNCHANGED <<Unsettled, main, store_state, stops, raised>>

\* The calls that run have had their five seconds and are cancelled.
GraceOver ==
    /\ shutdown_task = "draining" /\ shutdown_task' = "cancelling"
    /\ UNCHANGED <<Unsettled, main, accepting, health_status, store_state, stops, raised>>

Stopping == shutdown_task \in {"draining", "cancelling"}

\* A bug: the server is not given the time to end its calls.
StopGrpcAtOnce ==
    /\ Stopping /\ shutdown_task' = "cleaning"
    /\ UNCHANGED <<Unsettled, main, accepting, health_status, store_state, stops, raised>>

\* grpc_server.stop() returns when no call is left.
StopGrpc ==
    /\ Stopping /\ shutdown_task' = "cleaning"
    /\ Waiting(Calls) = {}
    /\ UNCHANGED <<Unsettled, main, accepting, health_status, store_state, stops, raised>>

\* A bug: the exception ends the task.
StopGrpcRaisesOut ==
    /\ Stopping /\ shutdown_task' = "failed"
    /\ accepting' \in BOOLEAN
    /\ raised' = raised \cup {"grpc"}
    /\ UNCHANGED <<Unsettled, main, health_status, store_state, stops>>

\* It raises, which is logged; the server may then still be up.
StopGrpcRaises ==
    /\ Stopping /\ shutdown_task' = "cleaning"
    /\ accepting' \in BOOLEAN
    /\ raised' = raised \cup {"grpc"}
    /\ UNCHANGED <<Unsettled, main, health_status, store_state, stops>>

\* stop() of the SQLite store closes the connection, for which it needs the
\* lock.  The memory store is only told to end its cleaner.
CanStop == backend = "sqlite" => pending = None

\* health_runner.cleanup() returns when no request is left, or it raises, which
\* is logged; the store is stopped in either case.
CleanupHttpAndStopStore ==
    /\ shutdown_task = "cleaning" /\ shutdown_task' = "done"
    /\ \/ Waiting(Probes) = {} /\ UNCHANGED raised
       \/ raised' = raised \cup {"http"}
    /\ CanStop /\ stop_store
    /\ UNCHANGED <<Unsettled, main, accepting, health_status>>

\* serve() has awaited the task and returns.
ServeReturns ==
    /\ main = "ending" /\ main' = "closing"
    /\ shutdown_task = "done"
    /\ accepting' = FALSE
    /\ UNCHANGED <<Unsettled, shutdown_task, health_status, store_state, stops, raised>>

\* asyncio.run returns when all tasks have ended and the pool is empty.
Exit ==
    /\ main = "closing" /\ main' = "exited"
    /\ Waiting(Rpcs) = {} /\ Running = {} /\ queue = <<>>
    /\ UNCHANGED <<Unsettled, shutdown_task, accepting, health_status,
                   store_state, stops, raised>>

-----------------------------------------------------------------------------
(* Calls and requests.                                                     *)

LoopRuns == main \notin {"closing", "exited"}

\* A call of the cache service.
Accept(r, q) ==
    /\ accepting
    /\ Begin(r, q) \/ RejectNamespace(r, q)
    /\ UNCHANGED lifecycle

\* Both interceptors wrap a handler in a coroutine that awaits its result; an
\* answer that is not awaitable ends the call with a TypeError.
_wrap_unary_behavior(result) ==
    IF result.awaitable THEN result.code ELSE "UNKNOWN"

\* Check of grpc_health.HealthServicer is an ordinary method.
HealthServicer_Check == [awaitable |-> FALSE, code |-> "OK"]

\* A call of the health service, which carries no cache request.
HealthCheck(r) ==
    /\ accepting
    /\ rpc[r].phase = "idle"
    /\ rpc' = [rpc EXCEPT ![r].phase = "answered", ![r].answer =
                 [code |-> _wrap_unary_behavior(HealthServicer_Check), items |-> <<>>]]
    /\ UNCHANGED <<store, caller, job, queue, active_requests, committed, lifecycle>>

HttpUp ==
    /\ main \in {"serving", "ending"}
    /\ shutdown_task \in {"none", "created"} \/ Stopping

\* A bug: the requests to the HTTP listener are counted too.
HttpBeginCounted(p, q) ==
    /\ HttpUp /\ p \in Probes
    /\ rpc[p].phase = "idle" /\ q.op = "Stats"
    /\ rpc' = [rpc EXCEPT ![p].phase = "awaiting", ![p].request = q]
    /\ job' = [job EXCEPT ![p].pc = "queued"]
    /\ queue' = Append(queue, p)
    /\ active_requests' = active_requests + 1
    /\ UNCHANGED <<store, caller, committed, lifecycle>>

\* The handlers of health_app.py read the statistics in the pool.
HttpBegin(p, q) ==
    /\ HttpUp /\ p \in Probes
    /\ rpc[p].phase = "idle" /\ q.op = "Stats"
    /\ rpc' = [rpc EXCEPT ![p].phase = "awaiting", ![p].request = q]
    /\ job' = [job EXCEPT ![p].pc = "queued"]
    /\ queue' = Append(queue, p)
    /\ UNCHANGED <<store, caller, active_requests, committed, lifecycle>>

\* Any exception is answered by 503.
HttpAnswer(p) ==
    /\ LoopRuns /\ p \in Probes
    /\ rpc[p].phase = "awaiting" /\ job[p].pc = "done"
    /\ rpc' = [rpc EXCEPT ![p].phase = "answered", ![p].answer =
                 [code |-> IF job[p].outcomes = <<"OK">> THEN "200" ELSE "503",
                  items |-> <<>>]]
    /\ UNCHANGED <<store, caller, job, queue, active_requests, committed, lifecycle>>

\* A request that outlasts the cleanup is cancelled, as is what asyncio.run
\* finds at its end; a client that goes away does not cancel it.
HttpCancel(p) ==
    /\ p \in Probes /\ rpc[p].phase = "awaiting"
    /\ shutdown_task = "cleaning" \/ main = "closing"
    /\ rpc' = [rpc EXCEPT ![p].phase = "cancelled"]
    /\ job' = IF job[p].pc = "queued" THEN [job EXCEPT ![p].pc = "dropped"] ELSE job
    /\ queue' = RemoveFirst(queue, p)
    /\ UNCHANGED <<store, caller, active_requests, committed, lifecycle>>

GrpcAnswer(r) == LoopRuns /\ r \in Calls /\ Answer(r) /\ UNCHANGED lifecycle

\* By the client, by the server after the grace period, or by asyncio.run.
GrpcCancel(r) == r \in Calls /\ Cancel(r) /\ UNCHANGED lifecycle

-----------------------------------------------------------------------------
(* The pool, over a store that may be closed.                              *)

Closed == backend = "sqlite" /\ store_state = "stopped"

TakeJob == StartJob /\ UNCHANGED lifecycle
FinishJob(r) == EndJob(r) /\ UNCHANGED lifecycle
SkipItem(r) == InvalidItem(r) /\ UNCHANGED lifecycle
CallOpenStore(r) ==
    /\ ~Closed
    /\ CallStore(r) \/ StartWrite(r)
    /\ UNCHANGED lifecycle

\* The connection is not closed in the middle of a write.
FinishWrite(r) == EndWrite(r) /\ UNCHANGED lifecycle

\* Only the SQLite store raises.
SqlError(r) ==
    /\ backend = "sqlite"
    /\ \/ ~Closed /\ StoreRaises(r)
       \/ WriteRaises(r)
    /\ UNCHANGED lifecycle

CallClosedStore(r) ==
    /\ Closed /\ StoreRaises(r)
    /\ met_closed' = met_closed \cup {r}
    /\ UNCHANGED <<backend, main, shutdown_task, accepting, health_status,
                   store_state, stops, raised>>

StoreWorks == StoreStep /\ UNCHANGED lifecycle

-----------------------------------------------------------------------------
Work(r) ==
    \/ GrpcAnswer(r) \/ GrpcCancel(r) \/ HttpAnswer(r) \/ HttpCancel(r)
    \/ FinishJob(r) \/ SkipItem(r) \/ CallOpenStore(r) \/ FinishWrite(r)
    \/ SqlError(r) \/ CallClosedStore(r)

Arrive(r) ==
    \/ \E q \in Requests : Accept(r, q)
    \/ HealthCheck(r)

Proceed ==
    \/ Create \/ CreateOrTlsRaises \/ BindRefused
    \/ StartGrpc \/ StartHttp \/ StartHttpRaises
    \/ _begin_shutdown \/ WaitEnds
    \/ MarkNotServing \/ GraceOver \/ StopGrpc \/ StopGrpcRaises
    \/ CleanupHttpAndStopStore \/ ServeReturns \/ Exit
    \/ \E r \in Rpcs : Work(r)
    \/ \E p \in Probes, q \in Requests : HttpBegin(p, q)
    \/ TakeJob \/ StoreWorks

ServerNext == Proceed \/ \E r \in Calls : Arrive(r)

ServerSpec == ServerInit /\ [][ServerNext]_svars

-----------------------------------------------------------------------------
(* Safety.                                                                 *)

ServerTypeOK ==
    /\ main \in {"new", "created", "started", "serving", "ending", "closing", "exited"}
    /\ shutdown_task \in {"none", "created", "draining", "cancelling", "cleaning", "done"}
    /\ shutdown_task # "none" => main \notin {"new", "created", "started"}
    /\ accepting => store_state # "none"
    /\ health_status \in {None, "SERVING", "NOT_SERVING"}
    /\ store_state \in {"none", "open", "stopped"}
    /\ stops \in Nat
    /\ raised \subseteq Failures
    /\ met_closed \subseteq Rpcs

\* _shutdown_started_service drains before it stops the store: no caller, of
\* gRPC or of HTTP, is answered with the error of a closed connection, unless
\* the end of a server has failed.  A call that was cancelled may have
\* left a worker behind that meets it.
DrainedFirst ==
    \A r \in met_closed :
      Answered(r) => raised \cap {"grpc", "http"} # {}

\* The store is stopped once, however many signals arrive and whether
\* wait_for_termination ends before them or after; and the process does not end
\* without that, unless its start has failed where serve() does not clean up.
StoppedOnce ==
    /\ stops <= 1
    /\ main = "exited" /\ "start" \notin raised => stops = 1

\* Interceptors count the calls of the cache service and no others, also when the
\* shutdown or asyncio.run cancels them; so nothing is left at the end.
CallsCounted ==
    /\ active_requests = Cardinality(Waiting(Calls))
    /\ main = "exited" => active_requests = 0

\* The standard health service answers while the server accepts calls.
HealthAnswered ==
    \A r \in Calls :
      Answered(r) /\ rpc[r].request = None => rpc[r].answer.code = "OK"

-----------------------------------------------------------------------------
(* Liveness, by process: the threads of the pool (which get the lock of    *)
(* the store in the end), the event loop for each of its coroutines, the   *)
(* timers of the two servers, and asyncio.run.  At any time a process is   *)
(* at one kind of step.  Signals, clients and failures are not fair.       *)

WorkerStep(r) ==
    SkipItem(r) \/ CallOpenStore(r) \/ CallClosedStore(r) \/ FinishWrite(r) \/ FinishJob(r)

HandlerStep(r) ==
    \/ GrpcAnswer(r) \/ HttpAnswer(r) \/ HttpCancel(r)
    \/ (shutdown_task = "cancelling" \/ main = "closing") /\ GrpcCancel(r)

ShutdownStep == MarkNotServing \/ GraceOver \/ StopGrpc \/ CleanupHttpAndStopStore

MainStep == (ServerStopped /\ WaitEnds) \/ ServeReturns \/ Exit

ServerFairness ==
    /\ WF_svars(TakeJob)
    /\ \A r \in Rpcs : SF_svars(WorkerStep(r)) /\ WF_svars(HandlerStep(r))
    /\ SF_svars(ShutdownStep)
    /\ WF_svars(MainStep)

\* Once a shutdown has begun the store is stopped, whatever raises on the way.
StoreStops == shutdown_task # "none" ~> store_state = "stopped"

\* The process ends after a shutdown has begun, however long its calls would take,
\* and after a start that failed.  A gRPC server that could not be stopped may
\* keep it: serve() waits for its termination.
ProcessEnds ==
    shutdown_task # "none" \/ main \in {"ending", "closing"} ~>
      main = "exited" \/ "grpc" \in raised
=============================================================================
