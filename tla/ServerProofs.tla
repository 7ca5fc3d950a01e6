---------------------------- MODULE ServerProofs ----------------------------
(***************************************************************************)
(* Theorems about the whole process, Server, and about Server beside the   *)
(* command line client, for every set of calls, probes and requests, every *)
(* number of workers and both backends.                                    *)
(***************************************************************************)
EXTENDS Cli, LostUpdateProofs

-----------------------------------------------------------------------------
(* The invariant: the calls as in GrpcServiceProofs, how far serve() and   *)
(* the shutdown task may be apart, and what has drained when.              *)

Startup == {"new", "created", "started"}

Lifecycle ==
    /\ ServerTypeOK
    /\ accepting \in BOOLEAN
    /\ main \in {"new", "created"} => ~accepting /\ \A r \in Rpcs : rpc[r].phase = "idle"
    /\ main = "new" => store_state = "none"
    /\ main \in Startup => shutdown_task = "none" /\ stops = 0
    /\ main \in {"created", "started"} => store_state = "open"
    /\ main \in {"serving", "ending"} =>
         IF shutdown_task = "done" THEN stops = 1 /\ store_state = "stopped"
                                   ELSE stops = 0 /\ store_state = "open"
    /\ main \in {"closing", "exited"} =>
         /\ ~accepting /\ shutdown_task \in {"none", "done"}
         /\ stops \in {0, 1} /\ ("start" \notin raised => stops = 1)

NoServerRaised == raised \cap {"grpc", "http"} = {}

Drained ==
    /\ Stopping => ~accepting
    /\ shutdown_task = "cleaning" /\ "grpc" \notin raised =>
         ~accepting /\ Waiting(Calls) = {}
    /\ store_state = "stopped" /\ NoServerRaised => ~accepting /\ Waiting(Rpcs) = {}
    /\ NoServerRaised => \A r \in met_closed : rpc[r].phase = "cancelled"
    /\ main = "exited" => Waiting(Calls) = {}

SInv == CallsInv(Calls) /\ Counted(Calls) /\ Lifecycle /\ Drained

-----------------------------------------------------------------------------
(* The steps of the calls.                                                 *)

\* A handler goes on from a call that waits, or takes one where that is open.
Onward(s) ==
    /\ rpc[s].phase \in {"answered", "cancelled"} => rpc'[s] = rpc[s]
    /\ rpc[s].phase # "idle" => rpc'[s].request = rpc[s].request
    /\ rpc[s].phase = "idle" =>
         \/ rpc'[s] = rpc[s]
         \/ s \in Calls /\ accepting
         \/ s \in Probes /\ HttpUp /\ rpc'[s].request.op = "Stats"

CallsGoOn == CallsInv(Calls)' /\ Counted(Calls)' /\ \A s \in Rpcs : Onward(s)

\* Calls and probes are requests, so their places in the arrays exist.
LEMMA CallsAreRpcs == Calls \in SUBSET Rpcs /\ Probes \in SUBSET Rpcs
  BY ProbesAssumption DEF Calls

\* The steps of a request keep what SInv says of it: a new call,
LEMMA AcceptGoesOn ==
    ASSUME CallsInv(Calls), Counted(Calls), NEW r \in Calls, NEW q \in Requests, Accept(r, q)
    PROVE  CallsGoOn
<1>1. /\ CallsInv(Calls)' /\ Counted(Calls)'
      /\ \A s \in Rpcs : s # r => rpc'[s] = rpc[s]
  BY CallsAreRpcs, BeginStep, RejectNamespaceStep DEF Accept
<1>2. accepting /\ rpc[r].phase = "idle"
  BY DEF Accept, Begin, RejectNamespace
<1> QED BY <1>1, <1>2 DEF CallsGoOn, Onward

\* a health check of gRPC,
LEMMA HealthCheckGoesOn ==
    ASSUME CallsInv(Calls), Counted(Calls), NEW r \in Calls, HealthCheck(r)
    PROVE  CallsGoOn
<1> DEFINE a == [code |-> _wrap_unary_behavior(HealthServicer_Check), items |-> <<>>]
<1>1. a \in Replies
  <2>1. <<>> \in Seq([status : Codes, result : Outcomes])
    OBVIOUS
  <2> QED BY <2>1 DEF Replies, Codes, _wrap_unary_behavior, HealthServicer_Check
<1>2. accepting /\ rpc[r].phase = "idle" /\ rpc[r].request = None
  BY CallsAreRpcs DEF HealthCheck, CallsInv, InStep
<1>3. rpc' = [rpc EXCEPT ![r].phase = "answered", ![r].answer = a]
  BY DEF HealthCheck
<1> HIDE DEF a
<1>4. /\ rpc' \in [Rpcs -> Handlers]
      /\ rpc'[r].phase = "answered" /\ rpc'[r].request = None
      /\ \A s \in Rpcs : s # r => rpc'[s] = rpc[s]
  BY <1>1, <1>2, <1>3, CallsAreRpcs, AnswerUpdate DEF CallsInv
<1>5. UNCHANGED <<store, caller, job, queue, active_requests, committed>>
  BY DEF HealthCheck
<1>6. CallsInv(Calls)'
  BY <1>2, <1>4, <1>5, CallsAreRpcs, RefuseStep
<1>7. Counted(Calls)'
  BY <1>2, <1>4, <1>5, CallsAreRpcs, NoneMore
<1> QED BY <1>2, <1>4, <1>6, <1>7 DEF CallsGoOn, Onward

\* an HTTP request that asks the store or is answered at once,
LEMMA HttpBeginGoesOn ==
    ASSUME CallsInv(Calls), Counted(Calls), NEW p \in Probes, NEW q \in Requests,
           HttpBegin(p, q)
    PROVE  CallsGoOn
<1>1. /\ p \in Rpcs /\ p \notin Calls /\ HttpUp /\ rpc[p].phase = "idle" /\ q.op = "Stats"
      /\ rpc' = [rpc EXCEPT ![p].phase = "awaiting", ![p].request = q]
      /\ job' = [job EXCEPT ![p].pc = "queued"] /\ queue' = Append(queue, p)
      /\ UNCHANGED <<store, caller, active_requests, committed>>
  BY ProbesAssumption DEF HttpBegin, Calls
<1>2. /\ rpc' \in [Rpcs -> Handlers]
      /\ rpc'[p].phase = "awaiting" /\ rpc'[p].request = q
      /\ \A s \in Rpcs : s # p => rpc'[s] = rpc[s]
  BY <1>1 DEF CallsInv, Shape, Handlers, Phases
<1>3. CallsInv(Calls)'
  BY <1>1, <1>2, CallsAreRpcs, EnqueueStep
<1>4. Counted(Calls)'
  BY <1>1, <1>2, CallsAreRpcs, NoneMore
<1> QED BY <1>1, <1>2, <1>3, <1>4 DEF CallsGoOn, Onward

\* its answer,
LEMMA HttpAnswerGoesOn ==
    ASSUME CallsInv(Calls), Counted(Calls), NEW p \in Rpcs, HttpAnswer(p)
    PROVE  CallsGoOn
<1> DEFINE a == [code |-> IF job[p].outcomes = <<"OK">> THEN "200" ELSE "503",
                 items |-> <<>>]
<1>1. a \in Replies
  <2>1. <<>> \in Seq([status : Codes, result : Outcomes])
    OBVIOUS
  <2> QED BY <2>1 DEF Replies, Codes
<1>2. /\ p \notin Calls /\ rpc[p].phase = "awaiting" /\ job[p].pc = "done"
      /\ rpc' = [rpc EXCEPT ![p].phase = "answered", ![p].answer = a]
      /\ UNCHANGED <<store, caller, job, queue, active_requests, committed>>
  BY DEF HttpAnswer, Calls
<1> PICK b \in Replies : rpc' = [rpc EXCEPT ![p].phase = "answered", ![p].answer = b]
  BY <1>1, <1>2
<1>3. /\ rpc' \in [Rpcs -> Handlers]
      /\ rpc'[p].phase = "answered" /\ rpc'[p].request = rpc[p].request
      /\ \A s \in Rpcs : s # p => rpc'[s] = rpc[s]
  BY AnswerUpdate DEF CallsInv
<1> HIDE DEF a
<1>4. CallsInv(Calls)'
  BY <1>2, <1>3, CallsAreRpcs, ReturnStep
<1>5. Counted(Calls)'
  BY <1>2, <1>3, CallsAreRpcs, NoneMore
<1> QED BY <1>2, <1>3, <1>4, <1>5 DEF CallsGoOn, Onward

\* its cancellation when the listener is stopped,
LEMMA HttpCancelGoesOn ==
    ASSUME CallsInv(Calls), Counted(Calls), NEW p \in Rpcs, HttpCancel(p)
    PROVE  CallsGoOn
<1>1. /\ p \notin Calls /\ rpc[p].phase = "awaiting"
      /\ rpc' = [rpc EXCEPT ![p].phase = "cancelled"]
      /\ job' = IF job[p].pc = "queued" THEN [job EXCEPT ![p].pc = "dropped"] ELSE job
      /\ queue' = RemoveFirst(queue, p)
      /\ UNCHANGED <<store, caller, active_requests, committed>>
  BY DEF HttpCancel, Calls
<1>2. /\ rpc'[p].request = rpc[p].request
      /\ \A s \in Rpcs : s # p => rpc'[s] = rpc[s]
  BY <1>1, PhaseUpdate DEF CallsInv, Phases
<1>3. CallsInv(Calls)'
  BY <1>1, CallsAreRpcs, CancelStep
<1>4. Counted(Calls)'
  BY <1>1, <1>2, CallsAreRpcs, NoneMore
<1> QED BY <1>1, <1>2, <1>3, <1>4 DEF CallsGoOn, Onward

\* the answer of a call,
LEMMA GrpcReturnGoesOn ==
    ASSUME CallsInv(Calls), Counted(Calls), NEW r \in Rpcs, GrpcAnswer(r) \/ GrpcCancel(r)
    PROVE  CallsGoOn
<1>1. /\ CallsInv(Calls)' /\ Counted(Calls)'
      /\ rpc'[r].request = rpc[r].request
      /\ \A s \in Rpcs : s # r => rpc'[s] = rpc[s]
  BY CallsAreRpcs, AnswerStep, CancelCallStep DEF GrpcAnswer, GrpcCancel
<1>2. rpc[r].phase = "awaiting"
  BY DEF GrpcAnswer, GrpcCancel, Answer, Cancel
<1> QED BY <1>1, <1>2 DEF CallsGoOn, Onward

\* and the steps of the workers.
LEMMA WorkerGoesOn ==
    ASSUME CallsInv(Calls), Counted(Calls), WorkerMoves
    PROVE  CallsGoOn
<1>1. CallsInv(Calls)' /\ UNCHANGED <<rpc, active_requests>>
  BY CallsAreRpcs, WorkerStepsKeep
<1>2. Counted(Calls)'
  BY <1>1, CallsAreRpcs, NoneMore
<1> QED BY <1>1, <1>2 DEF CallsGoOn, Onward

\* A step that leaves the requests alone keeps their part of SInv.
LEMMA CallsStay ==
    ASSUME CallsInv(Calls), Counted(Calls), UNCHANGED calls
    PROVE  CallsGoOn
<1>1. UNCHANGED <<store, caller, rpc, job, queue, active_requests, committed>>
  BY DEF calls
<1>2. CallsInv(Calls)'
  BY <1>1 DEF store, CallsInv, Shape, StoreShape, QueueShape, InStep, Booked,
              IsWrite, Replied, AnswerTo, AtItem, Current, Here, Items, Op
<1>3. Counted(Calls)'
  BY <1>1, CallsAreRpcs, NoneMore
<1> QED BY <1>1, <1>2, <1>3 DEF CallsGoOn, Onward

\* Every step of the process is a step of the calls or leaves them alone.
LEMMA StepsGoOn ==
    ASSUME CallsInv(Calls), Counted(Calls), [ServerNext]_svars
    PROVE  CallsGoOn
<1>1. ASSUME NEW r \in Calls, Arrive(r) PROVE CallsGoOn
  BY <1>1, AcceptGoesOn, HealthCheckGoesOn DEF Arrive
<1>2. ASSUME NEW r \in Rpcs, Work(r) PROVE CallsGoOn
  <2>1. \/ WorkerMoves \/ GrpcAnswer(r) \/ GrpcCancel(r) \/ HttpAnswer(r) \/ HttpCancel(r)
    BY <1>2 DEF Work, FinishJob, SkipItem, CallOpenStore, FinishWrite, SqlError,
                CallClosedStore, WorkerMoves
  <2> QED BY <2>1, WorkerGoesOn, GrpcReturnGoesOn, HttpAnswerGoesOn, HttpCancelGoesOn
<1>3. ASSUME NEW p \in Probes, NEW q \in Requests, HttpBegin(p, q) PROVE CallsGoOn
  BY <1>3, HttpBeginGoesOn
<1>4. CASE TakeJob \/ StoreWorks
  BY <1>4, WorkerGoesOn DEF TakeJob, StoreWorks, WorkerMoves
<1>5. CASE UNCHANGED calls
  BY <1>5, CallsStay
<1>6. CASE \/ Create \/ CreateOrTlsRaises \/ BindRefused
           \/ StartGrpc \/ StartHttp \/ StartHttpRaises
           \/ _begin_shutdown \/ WaitEnds
           \/ MarkNotServing \/ GraceOver \/ StopGrpc \/ StopGrpcRaises
           \/ CleanupHttpAndStopStore \/ ServeReturns \/ Exit
  BY <1>5, <1>6 DEF Create, CreateOrTlsRaises, BindRefused, StartGrpc, StartHttp,
       StartHttpRaises, Raise, _begin_shutdown, WaitEnds, MarkNotServing, GraceOver,
       StopGrpc, StopGrpcRaises, CleanupHttpAndStopStore, ServeReturns, Exit, Unsettled
<1> QED BY <1>1, <1>2, <1>3, <1>4, <1>5, <1>6 DEF ServerNext, Proceed, svars

-----------------------------------------------------------------------------
(* The steps of serve() and of the shutdown task.                          *)

\* The steps of the calls, as far as the process is concerned.
LifecycleStays ==
    /\ UNCHANGED <<backend, main, shutdown_task, accepting, health_status,
                   store_state, stops, raised>>
    /\ \/ UNCHANGED met_closed
       \/ \E r \in Rpcs : /\ CallClosedStore(r)
                          /\ met_closed' = met_closed \cup {r}

\* A step that takes up a call, or is the work of one.
LEMMA CallsLeaveLifecycle ==
    ASSUME \/ \E r \in Calls : Arrive(r)
           \/ \E r \in Rpcs : Work(r)
           \/ \E p \in Probes, q \in Requests : HttpBegin(p, q)
           \/ TakeJob \/ StoreWorks \/ UNCHANGED svars
    PROVE  LifecycleStays
  BY DEF LifecycleStays, lifecycle, svars, Arrive, Accept, HealthCheck, Work, HttpBegin,
         GrpcAnswer, GrpcCancel, HttpAnswer, HttpCancel, FinishJob, SkipItem,
         CallOpenStore, FinishWrite, SqlError, CallClosedStore, TakeJob, StoreWorks

\* No step of a request disturbs the lifecycle.
LEMMA CallStepsKeep ==
    ASSUME SInv, CallsGoOn, LifecycleStays
    PROVE  Lifecycle' /\ Drained'
<1> USE DEF SInv
<1>1. HttpUp => main \in {"serving", "ending"} /\ shutdown_task # "done"
  BY DEF HttpUp, Stopping
<1>2. HttpUp => store_state = "open" /\ main \notin {"new", "created", "exited"}
  BY <1>1 DEF Lifecycle
<1>3. met_closed' \subseteq Rpcs
  BY DEF Lifecycle, ServerTypeOK, LifecycleStays
<1>4. Lifecycle'
  <2>1. main \in {"new", "created"} => \A r \in Rpcs : rpc'[r].phase = "idle"
    BY <1>2 DEF Lifecycle, CallsGoOn, Onward
  <2> QED BY <1>3, <2>1 DEF Lifecycle, ServerTypeOK, LifecycleStays
<1>5. ASSUME NEW S \in SUBSET Rpcs, Waiting(S) = {}, ~accepting,
             ~HttpUp \/ S \cap Probes = {}
      PROVE  Waiting(S)' = {}
  <2>1. \A r \in S : rpc[r].phase \in {"idle", "answered", "cancelled"}
    BY <1>5 DEF Waiting, CallsInv, Shape, Handlers, Phases
  <2>2. \A r \in S : rpc'[r] = rpc[r]
    BY <1>5, <2>1 DEF CallsGoOn, Onward
  <2> QED BY <1>5, <2>2 DEF Waiting
<1>6. Waiting(Calls) = {} /\ ~accepting => Waiting(Calls)' = {}
  BY <1>5, CallsAreRpcs DEF Calls
<1>7. store_state = "stopped" /\ ~accepting /\ Waiting(Rpcs) = {} => Waiting(Rpcs)' = {}
  BY <1>2, <1>5
<1>8. NoServerRaised => \A r \in met_closed' : rpc'[r].phase = "cancelled"
  <2>1. ASSUME NoServerRaised, NEW r \in met_closed' PROVE rpc'[r].phase = "cancelled"
    <3>1. CASE r \in met_closed
      BY <1>3, <2>1, <3>1 DEF Drained, CallsGoOn, Onward, Lifecycle, ServerTypeOK
    <3>2. CASE r \notin met_closed
      <4>1. r \in Rpcs /\ CallClosedStore(r)
        BY <2>1, <3>2 DEF LifecycleStays
      <4>2. AtItem(r) /\ store_state = "stopped"
        BY <4>1 DEF CallClosedStore, Closed, StoreRaises, Valid
      <4>3. rpc[r].phase \in {"awaiting", "cancelled"}
        BY <4>1, <4>2, CallsAreRpcs, AtAnItem
      <4>4. rpc[r].phase # "awaiting"
        BY <2>1, <4>1, <4>2 DEF Drained, Waiting
      <4> QED BY <4>1, <4>3, <4>4 DEF CallsGoOn, Onward
    <3> QED BY <3>1, <3>2
  <2> QED BY <2>1
<1>9. main = "exited" => ~accepting
  BY DEF Lifecycle
<1> QED BY <1>4, <1>6, <1>7, <1>8, <1>9
        DEF Drained, LifecycleStays, NoServerRaised, Stopping

\* A step of serve() or of the shutdown task.
LifecycleStep ==
    \/ Create \/ CreateOrTlsRaises \/ BindRefused
    \/ StartGrpc \/ StartHttp \/ StartHttpRaises
    \/ _begin_shutdown \/ WaitEnds
    \/ MarkNotServing \/ GraceOver \/ StopGrpc \/ StopGrpcRaises
    \/ CleanupHttpAndStopStore \/ ServeReturns \/ Exit

\* No step of serve(), of the shutdown task or of a signal disturbs SInv.
LEMMA LifecycleStepsKeep ==
    ASSUME SInv, LifecycleStep
    PROVE  Lifecycle' /\ Drained'
<1> USE DEF SInv
<1>1. UNCHANGED <<rpc, met_closed>>
  BY DEF LifecycleStep, Create, CreateOrTlsRaises, BindRefused, StartGrpc, StartHttp,
       StartHttpRaises, Raise, _begin_shutdown, WaitEnds, MarkNotServing, GraceOver,
       StopGrpc, StopGrpcRaises, CleanupHttpAndStopStore, ServeReturns, Exit, Unsettled,
       calls
<1>2. Waiting(Rpcs)' = Waiting(Rpcs) /\ Waiting(Calls)' = Waiting(Calls)
  BY <1>1 DEF Waiting
<1>3. NoServerRaised' => NoServerRaised
  BY DEF NoServerRaised, LifecycleStep, Create, CreateOrTlsRaises, BindRefused, StartGrpc,
       StartHttp, StartHttpRaises, Raise, _begin_shutdown, WaitEnds, MarkNotServing,
       GraceOver, StopGrpc, StopGrpcRaises, CleanupHttpAndStopStore, ServeReturns, Exit
<1>4. Lifecycle'
  <2> USE <1>1 DEF Lifecycle, ServerTypeOK, Startup
  <2>1. CASE Create
    BY <2>1 DEF Create
  <2>2. CASE CreateOrTlsRaises \/ StartHttpRaises
    BY <2>2 DEF CreateOrTlsRaises, StartHttpRaises, Raise, Failures
  <2>3. CASE BindRefused
    <3>1. /\ main' = "closing" /\ accepting' = FALSE /\ shutdown_task' = "none"
          /\ store_state' = "stopped" /\ stops' = 1
          /\ raised' = raised \cup {"bind"} /\ UNCHANGED health_status
      BY <2>3 DEF BindRefused, Raise, stop_store
    <3>2. raised' \subseteq Failures
      BY <3>1 DEF Failures
    <3> QED BY <3>1, <3>2
  <2>4. CASE StartGrpc \/ StartHttp
    BY <2>4 DEF StartGrpc, StartHttp
  <2>5. CASE _begin_shutdown \/ WaitEnds
    BY <2>5 DEF _begin_shutdown, WaitEnds, Unsettled
  <2>6. CASE MarkNotServing \/ GraceOver \/ StopGrpc
    BY <2>6 DEF MarkNotServing, GraceOver, StopGrpc, Stopping, Unsettled
  <2>7. CASE StopGrpcRaises
    BY <2>7 DEF StopGrpcRaises, Stopping, Failures
  <2>8. CASE CleanupHttpAndStopStore
    <3>1. main \in {"serving", "ending"} /\ stops = 0
      BY <2>8 DEF CleanupHttpAndStopStore
    <3>2. /\ shutdown_task' = "done" /\ store_state' = "stopped" /\ stops' = 1
          /\ UNCHANGED <<main, accepting, health_status>>
      BY <2>8, <3>1 DEF CleanupHttpAndStopStore, stop_store
    <3>3. raised' \subseteq Failures
      BY <2>8 DEF CleanupHttpAndStopStore, Failures
    <3> QED BY <3>1, <3>2, <3>3
  <2>9. CASE ServeReturns
    BY <2>9 DEF ServeReturns
  <2>10. CASE Exit
    BY <2>10 DEF Exit
  <2> QED BY <2>1, <2>2, <2>3, <2>4, <2>5, <2>6, <2>7, <2>8, <2>9, <2>10
    DEF LifecycleStep
<1>5. Drained'
  <2> USE <1>1, <1>2, <1>3 DEF Drained, Stopping
  <2>1. CASE Create \/ CreateOrTlsRaises \/ StartHttpRaises \/ StartGrpc \/ StartHttp
    BY <2>1 DEF Create, CreateOrTlsRaises, StartHttpRaises, Raise, StartGrpc, StartHttp,
                Lifecycle, Startup
  <2>2. CASE BindRefused
    <3>1. Waiting(Rpcs) = {}
      BY <2>2 DEF BindRefused, Lifecycle, Waiting
    <3> QED BY <2>2, <3>1 DEF BindRefused, Raise, stop_store, Lifecycle, Startup
  <2>3. CASE _begin_shutdown \/ WaitEnds
    BY <2>3 DEF _begin_shutdown, WaitEnds, Lifecycle
  <2>4. CASE MarkNotServing \/ GraceOver \/ StopGrpc
    BY <2>4 DEF MarkNotServing, GraceOver, StopGrpc, Lifecycle
  <2>5. CASE StopGrpcRaises
    BY <2>5 DEF StopGrpcRaises, NoServerRaised
  <2>6. CASE CleanupHttpAndStopStore
    <3>1. NoServerRaised' => UNCHANGED raised /\ Waiting(Probes) = {}
      BY <2>6 DEF CleanupHttpAndStopStore, NoServerRaised
    <3>2. Waiting(Calls) = {} /\ Waiting(Probes) = {} => Waiting(Rpcs) = {}
      BY DEF Waiting, Calls
    <3> QED BY <2>6, <3>1, <3>2 DEF CleanupHttpAndStopStore, NoServerRaised, Lifecycle
  <2>7. CASE ServeReturns
    BY <2>7 DEF ServeReturns, Lifecycle
  <2>8. CASE Exit
    <3>1. Waiting(Calls) = {}
      BY <2>8, CallsAreRpcs DEF Exit, Waiting
    <3> QED BY <2>8, <3>1 DEF Exit, Lifecycle
  <2> QED BY <2>1, <2>2, <2>3, <2>4, <2>5, <2>6, <2>7, <2>8 DEF LifecycleStep
<1> QED BY <1>4, <1>5

-----------------------------------------------------------------------------
(* The invariant of Server, and what follows from it.                      *)

\* The inductive invariant holds at the start and is kept by every step.
LEMMA InitSInv == ServerInit => SInv
<1> SUFFICES ASSUME ServerInit PROVE SInv
  OBVIOUS
<1>1. CallsInv(Calls) /\ Counted(Calls) /\ \A r \in Rpcs : rpc[r].phase = "idle"
  BY CallsAreRpcs, InitCallsInv DEF ServerInit, Idle
<1>2. Lifecycle
  BY <1>1 DEF ServerInit, Lifecycle, ServerTypeOK, Startup, Failures
<1>3. Drained
  BY <1>1 DEF ServerInit, Drained, Stopping, Waiting, NoServerRaised
<1> QED BY <1>1, <1>2, <1>3 DEF SInv

LEMMA NextSInv == SInv /\ [ServerNext]_svars => SInv'
<1> SUFFICES ASSUME SInv, [ServerNext]_svars PROVE SInv'
  OBVIOUS
<1>1. CallsGoOn
  BY StepsGoOn DEF SInv
<1>2. LifecycleStep \/ LifecycleStays
  BY CallsLeaveLifecycle DEF ServerNext, Proceed, LifecycleStep
<1>3. Lifecycle' /\ Drained'
  BY <1>1, <1>2, CallStepsKeep, LifecycleStepsKeep
<1> QED BY <1>1, <1>3 DEF SInv, CallsGoOn

\* Every command line client is a client of Server: beside it the process does
\* what Server describes, and nothing else.
THEOREM CommandsAreClients == CliSpec => ServerSpec
<1>1. CliInit => ServerInit
  BY DEF CliInit
<1>2. [CliNext]_clivars => [ServerNext]_svars
  BY DEF CliNext, clivars, ServerNext, Arrive, Request, _parse_value_input_raises,
         Return, RpcError, Ends
<1> QED BY <1>1, <1>2, PTL DEF CliSpec, ServerSpec

\* serve(), the shutdown task, the listeners and the store are in step with
\* each other in every reachable state, as SInv spells out.
THEOREM ServerInvariance == ServerSpec => []SInv
<1> QED BY InitSInv, NextSInv, PTL DEF ServerSpec

\* serve() and the shutdown task never meet in a state that the code does not
\* expect: no shutdown before the listeners are up, no call before the store is.
THEOREM ServerTypeCorrect == CliSpec => []ServerTypeOK
<1>1. SInv => ServerTypeOK
  BY DEF SInv, Lifecycle
<1> QED BY <1>1, CommandsAreClients, ServerInvariance, PTL

\* However signals, the end of wait_for_termination and failures fall together,
\* the store is stopped once, and not left open by a process that has served.
THEOREM StoreStopsOnce == CliSpec => []StoppedOnce
<1>1. SInv => StoppedOnce
  BY DEF SInv, Lifecycle, ServerTypeOK, StoppedOnce, Startup
<1> QED BY <1>1, CommandsAreClients, ServerInvariance, PTL

\* The store is stopped when no caller waits any more, so none is answered with
\* the error of a closed connection.
THEOREM ShutdownDrainsFirst == CliSpec => []DrainedFirst
<1>1. SInv => DrainedFirst
  BY DEF SInv, Drained, NoServerRaised, DrainedFirst, Answered
<1> QED BY <1>1, CommandsAreClients, ServerInvariance, PTL

\* The gauge counts the calls of the cache service beside the HTTP requests and
\* the health checks, and is back at zero when the process ends.
THEOREM CallsAreCounted == CliSpec => []CallsCounted
<1>1. SInv => CallsCounted
  <2>1. Waiting(Calls) = WaitingIn(Calls)
    BY DEF Waiting, WaitingIn
  <2> QED BY <2>1, FS_EmptySet DEF SInv, Drained, Counted, CallsCounted
<1> QED BY <1>1, CommandsAreClients, ServerInvariance, PTL

-----------------------------------------------------------------------------
(* The servicer and the store within the process: what GrpcServiceProofs   *)
(* and LostUpdateProofs say of the servicer alone holds beside the probes, *)
(* the health checks, the shutdown and the end of the process as well.     *)

\* To the store and to its callers a step of the process is one of a worker or
\* of a handler, for serve() and the shutdown task know nothing of either.
LEMMA StepsMove ==
    ASSUME CallsInv(Calls), Counted(Calls), [ServerNext]_svars
    PROVE  CallsMove
<1>1. \A s \in Rpcs : rpc[s].phase # "idle" => rpc'[s].request = rpc[s].request
  BY StepsGoOn DEF CallsGoOn, Onward
<1>2. ASSUME UNCHANGED <<store, caller, committed>>,
             \/ UNCHANGED job
             \/ \E r \in Rpcs : job' = [job EXCEPT ![r].pc = "queued"]
             \/ \E r \in Rpcs : job' = [job EXCEPT ![r].pc = "dropped"]
      PROVE  CallsMove
  <2>1. \A s \in Rpcs : job'[s].outcomes = job[s].outcomes
    BY <1>2, PcUpdate DEF CallsInv, Pcs
  <2> QED BY <1>1, <1>2, <2>1 DEF CallsMove, HandlersMove
<1>3. ASSUME NEW r \in Rpcs, Work(r) PROVE CallsMove
  <2>1. CASE GrpcAnswer(r) \/ HttpAnswer(r)
    BY <1>2, <2>1 DEF GrpcAnswer, Answer, HttpAnswer
  <2>2. CASE GrpcCancel(r) \/ HttpCancel(r)
    BY <1>2, <2>2 DEF GrpcCancel, Cancel, HttpCancel
  <2>3. CASE WorkerMoves
    BY <2>3 DEF CallsMove
  <2> QED BY <1>3, <2>1, <2>2, <2>3 DEF Work, FinishJob, SkipItem, CallOpenStore,
             FinishWrite, SqlError, CallClosedStore, WorkerMoves
<1>4. ASSUME NEW r \in Calls, Arrive(r) PROVE CallsMove
  <2>1. r \in Rpcs
    BY CallsAreRpcs
  <2> QED BY <1>2, <1>4, <2>1 DEF Arrive, Accept, Begin, RejectNamespace, HealthCheck
<1>5. ASSUME NEW p \in Probes, NEW q \in Requests, HttpBegin(p, q) PROVE CallsMove
  <2>1. p \in Rpcs
    BY CallsAreRpcs
  <2> QED BY <1>2, <1>5, <2>1 DEF HttpBegin
<1>6. CASE TakeJob \/ StoreWorks
  BY <1>6 DEF TakeJob, StoreWorks, WorkerMoves, CallsMove
<1>7. CASE LifecycleStep \/ UNCHANGED svars
  <2>1. UNCHANGED calls
    BY <1>7 DEF svars, LifecycleStep, Create, CreateOrTlsRaises, BindRefused,
       StartGrpc, StartHttp, StartHttpRaises, Raise, _begin_shutdown, WaitEnds,
       MarkNotServing, GraceOver, StopGrpc, StopGrpcRaises, CleanupHttpAndStopStore,
       ServeReturns, Exit, Unsettled
  <2> QED BY <1>2, <2>1 DEF calls, store
<1> QED BY <1>3, <1>4, <1>5, <1>6, <1>7 DEF ServerNext, Proceed, LifecycleStep

\* The handlers of the HTTP listener only read the statistics.
ProbesRead == \A p \in Probes : rpc[p].request # None => Op(p) = "Stats"

\* What the process adds to SInv about the writes.
WInv == UInv(Calls) /\ ProbesRead

LEMMA InitWInv == ServerInit => WInv
<1> SUFFICES ASSUME ServerInit PROVE WInv
  OBVIOUS
<1>1. UInv(Calls)
  BY CallsAreRpcs, InitUInv DEF ServerInit
<1>2. ProbesRead
  BY CallsAreRpcs DEF ServerInit, Init, Idle, ProbesRead
<1> QED BY <1>1, <1>2 DEF WInv

LEMMA NextWInv == SInv /\ WInv /\ [ServerNext]_svars => WInv'
<1> SUFFICES ASSUME SInv, WInv, [ServerNext]_svars PROVE WInv'
  OBVIOUS
<1>1. CallsMove /\ CallsGoOn
  BY StepsMove, StepsGoOn DEF SInv
<1>2. UInv(Calls)'
  BY <1>1, CallsAreRpcs, NextUInv DEF WInv, CallsGoOn
<1>3. ASSUME NEW p \in Probes, rpc'[p].request # None PROVE rpc'[p].request.op = "Stats"
  <2>1. p \in Rpcs /\ p \notin Calls /\ Onward(p)
    BY <1>1, CallsAreRpcs DEF Calls, CallsGoOn
  <2>2. rpc[p].phase = "idle" => rpc[p].request = None
    BY <2>1 DEF SInv, CallsInv, InStep
  <2> QED BY <1>3, <2>1, <2>2 DEF Onward, WInv, ProbesRead, Op
<1> QED BY <1>2, <1>3 DEF WInv, ProbesRead, Op

\* The balance of the writes, within the process.
LEMMA WritesInvariance == CliSpec => []WInv
<1> QED BY InitWInv, NextWInv, CommandsAreClients, ServerInvariance, PTL DEF ServerSpec

\* The whole process is a client of the contract of the store: not a probe, a
\* health check, the shutdown or the end of the process calls it in another way.
THEOREM ServerUsesContract == CliSpec => Store!Spec
<1>1. ServerInit => Store!Init
  BY DEF ServerInit, Init
<1>2. SInv /\ [ServerNext]_svars => [Store!Next]_(Store!cvars)
  BY CallsAreRpcs, StepsMove, StepsAreCalls DEF SInv
<1> QED BY <1>1, <1>2, CommandsAreClients, ServerInvariance, PTL DEF ServerSpec, Store!Spec

\* Of the calls that race to replace a value one wins, whatever the shutdown
\* cancels and whether the connection is closed while some still run.
THEOREM ServerLosesNoUpdate == CliSpec => []NoLostUpdate
<1>1. WInv => NoLostUpdate
  BY CallsAreRpcs, BalanceSuffices DEF WInv
<1> QED BY <1>1, WritesInvariance, PTL

\* What a client is told of its writes is true of the process as well, where the
\* calls are cancelled by the shutdown and the store may be closed under them.
THEOREM ServerTellsTruth == CliSpec => []StatusTruthful
<1>1. ASSUME SInv, WInv, NEW r \in Rpcs, Answered(r), rpc[r].request # None,
             Op(r) \in WriteOps, NEW i \in DOMAIN rpc[r].answer.items
      PROVE  ToldStored(r, i) <=> <<r, i>> \in committed
  <2>1. r \in Calls
    BY <1>1 DEF WInv, ProbesRead, WriteOps, Calls
  <2> QED BY <1>1, <2>1, CallsAreRpcs, AnswerIsTruthful DEF SInv
<1>2. SInv /\ WInv => StatusTruthful
  BY <1>1 DEF StatusTruthful
<1> QED BY <1>2, WritesInvariance, CommandsAreClients, ServerInvariance, PTL

\* A write is stored while its call waits or, when the call was cancelled, by the
\* worker that had it, also when the shutdown or asyncio.run cancels the call.
THEOREM ServerEffectsInScope == CliSpec => EffectsInScope
<1> DEFINE Scoped(c) == \/ rpc[c[1]].phase = "awaiting"
                        \/ rpc[c[1]].phase = "cancelled" /\ job[c[1]].pc = "running"
<1>1. ASSUME SInv, [ServerNext]_svars, NEW c \in committed' \ committed PROVE Scoped(c)
  BY <1>1, CallsAreRpcs, StepsMove, EffectInScope DEF SInv
<1>2. SInv /\ [ServerNext]_svars => [\A c \in committed' \ committed : Scoped(c)]_vars
  BY <1>1
<1> QED BY <1>2, CommandsAreClients, ServerInvariance, PTL DEF ServerSpec, EffectsInScope

-----------------------------------------------------------------------------
(* The exit codes of the commands.                                         *)

\* What is known of a call by the state of the command that made it.
ExitOf(r) ==
    /\ exit[r] = "running" => rpc[r].request \in Requests /\ Op(r) \in UnaryOps
    /\ exit[r] \in {"0", "1"} =>
         /\ Answered(r)
         /\ rpc[r].request # None /\ Op(r) \in WriteOps =>
              (exit[r] = "0" <=> <<r, 1>> \in committed)

ExitInv ==
    /\ exit \in [Calls -> {None, "running", "0", "1", "2"}]
    /\ \A r \in Calls : ExitOf(r)

\* After the answer of a call nothing is stored for it any more.
LEMMA AnsweredIsSettled ==
    ASSUME CallsInv(Calls), CallsMove, NEW r \in Rpcs, Answered(r)
    PROVE  \A i \in Nat : <<r, i>> \in committed' <=> <<r, i>> \in committed
<1>1. committed \subseteq committed'
  BY OnlyCommitsStore DEF Commits
<1>2. ASSUME NEW i \in Nat, <<r, i>> \in committed' \ committed PROVE FALSE
  BY <1>2, CallsAreRpcs, EffectInScope DEF Answered
<1> QED BY <1>1, <1>2

\* A command whose exit code no step has touched stays where it was.
LEMMA ExitKept ==
    ASSUME CallsInv(Calls), CallsGoOn, CallsMove,
           NEW r \in Calls, ExitOf(r), exit'[r] = exit[r]
    PROVE  ExitOf(r)'
<1>1. rpc[r].request \in Requests => rpc[r].phase # "idle"
  BY CallsAreRpcs, RequestsAssumption DEF CallsInv, InStep
<1>2. rpc[r].request \in Requests => rpc'[r].request = rpc[r].request
  BY <1>1, CallsAreRpcs DEF CallsGoOn, Onward
<1>3. Answered(r) =>
        /\ rpc'[r] = rpc[r]
        /\ <<r, 1>> \in committed' <=> <<r, 1>> \in committed
  BY CallsAreRpcs, AnsweredIsSettled DEF CallsGoOn, Onward, Answered
<1> QED BY <1>2, <1>3, CallsAreRpcs DEF ExitOf, Op, Answered

\* The exit code of a write follows from its answer.
LEMMA CodeOfAnswer ==
    ASSUME CallsInv(Calls), NEW r \in Calls, Answered(r),
           rpc[r].request \in Requests, Op(r) \in UnaryOps, NEW code \in exit_codes(r)
    PROVE  /\ code \in {"0", "1", "2"}
           /\ code # "2" /\ Op(r) \in WriteOps => (code = "0" <=> <<r, 1>> \in committed)
<1>1. code \in {"0", "1", "2"}
  BY DEF exit_codes, _conditional_exit_code
<1>2. ASSUME code # "2", Op(r) \in WriteOps PROVE code = "0" <=> <<r, 1>> \in committed
  <2>1. rpc[r].answer.code = "OK"
    BY <1>2 DEF exit_codes
  <2>2. r \in Rpcs /\ rpc[r].request # None /\ Replied(r) /\ InStep(r) /\ Booked(r)
    BY CallsAreRpcs, RequestsAssumption DEF CallsInv
  <2>3. job[r].pc = "done" /\ rpc[r].answer = AnswerTo(r)
    BY <2>1, <2>2 DEF Replied, Answered
  <2>4. job[r].outcomes \in Seq(Outcomes) /\ Len(job[r].outcomes) = 1
    BY <2>2, <2>3, RequestsAssumption DEF InStep, Items, Op, CallsInv, Shape, Jobs
  <2>5. 1 \in DOMAIN job[r].outcomes
    BY <2>4
  <2>6. /\ map_status(job[r].outcomes[1]) = "OK"
        /\ rpc[r].answer.items[1].result = job[r].outcomes[1]
    BY <2>1, <2>3, <2>5 DEF AnswerTo
  <2>7. /\ job[r].outcomes[1] \in WriteOutcomes(Op(r))
        /\ <<r, 1>> \in committed <=> job[r].outcomes[1] \in {"OK", "STORED"}
    BY <1>2, <2>2, <2>5 DEF Booked, IsWrite
  <2>8. Op(r) \in {"Set", "SetIfAbsent", "CompareAndSet"}
    BY <1>2 DEF WriteOps, UnaryOps
  <2>9. code = IF Op(r) \in {"SetIfAbsent", "CompareAndSet"}
               THEN _conditional_exit_code(job[r].outcomes[1]) ELSE "0"
    BY <2>1, <2>6, <2>8 DEF exit_codes
  <2> QED BY <2>6, <2>7, <2>8, <2>9
          DEF WriteOutcomes, Refusals, map_status, _conditional_exit_code
<1> QED BY <1>1, <1>2

\* What the command line client knows of its call is kept by every step.
LEMMA NextExitInv == SInv /\ ExitInv /\ [CliNext]_clivars => ExitInv'
<1> SUFFICES ASSUME SInv, ExitInv, [CliNext]_clivars PROVE ExitInv'
  OBVIOUS
<1>1. [ServerNext]_svars
  BY DEF CliNext, clivars, ServerNext, Arrive, Request, _parse_value_input_raises,
         Return, RpcError, Ends
<1>2. CallsInv(Calls) /\ CallsGoOn /\ CallsMove
  BY <1>1, StepsGoOn, StepsMove DEF SInv
<1>3. ASSUME NEW r \in Calls, NEW code \in {"running", "0", "1", "2"},
             exit' = [exit EXCEPT ![r] = code], ExitOf(r)'
      PROVE  ExitInv'
  BY <1>2, <1>3, ExitKept DEF ExitInv
<1>4. CASE UNCHANGED exit
  BY <1>2, <1>4, ExitKept DEF ExitInv
<1>5. ASSUME NEW r \in Calls, NEW q \in Requests, Request(r, q) PROVE ExitInv'
  <2>1. /\ exit' = [exit EXCEPT ![r] = "running"] /\ q.op \in UnaryOps
        /\ Begin(r, q) \/ RejectNamespace(r, q)
    BY <1>5 DEF Request, Accept
  <2>2. rpc'[r].request = q
    BY <2>1, CallsAreRpcs, BeginStep, RejectNamespaceStep DEF SInv
  <2>3. ExitOf(r)'
    BY <2>1, <2>2 DEF ExitInv, ExitOf, Op
  <2> QED BY <1>3, <2>1, <2>3
<1>6. ASSUME NEW r \in Calls, Return(r) PROVE ExitInv'
  <2>1. PICK code \in exit_codes(r) : Ends(r, code)
    BY <1>6 DEF Return
  <2>2. exit[r] = "running" /\ Answered(r)
    BY <1>6 DEF Return
  <2>3. rpc[r].request \in Requests /\ Op(r) \in UnaryOps
    BY <2>2 DEF ExitInv, ExitOf
  <2>4. /\ code \in {"0", "1", "2"}
        /\ code # "2" /\ Op(r) \in WriteOps => (code = "0" <=> <<r, 1>> \in committed)
    BY <1>2, <2>2, <2>3, CodeOfAnswer
  <2>5. exit' = [exit EXCEPT ![r] = code] /\ UNCHANGED <<rpc, committed>>
    BY <2>1 DEF Ends, svars, calls
  <2>6. exit'[r] = code
    BY <2>5 DEF ExitInv
  <2>7. ExitOf(r)'
    BY <2>2, <2>4, <2>5, <2>6 DEF ExitOf, Answered, Op
  <2> QED BY <1>3, <2>4, <2>5, <2>7
<1>7. ASSUME NEW r \in Calls, Ends(r, "2") PROVE ExitInv'
  <2>1. exit' = [exit EXCEPT ![r] = "2"] /\ exit'[r] = "2"
    BY <1>7 DEF Ends, ExitInv
  <2>2. ExitOf(r)'
    BY <2>1 DEF ExitOf
  <2> QED BY <1>3, <2>1, <2>2
<1> QED BY <1>4, <1>5, <1>6, <1>7
        DEF CliNext, clivars, _parse_value_input_raises, RpcError

\* A script that acts on the exit code of a write is right, whatever deadlines
\* pass, and however the server ends while its command runs.
THEOREM ExitCodesAreTruthful == CliSpec => []ExitTruthful
<1>1. CliInit => ExitInv
  BY ExitAssumption DEF CliInit, ExitInv, ExitOf
<1>2. ExitInv => ExitTruthful
  BY DEF ExitInv, ExitOf, ExitTruthful
<1> QED BY <1>1, <1>2, NextExitInv, CommandsAreClients, ServerInvariance, PTL DEF CliSpec
=============================================================================
