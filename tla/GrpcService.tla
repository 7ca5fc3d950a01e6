---------------------------- MODULE GrpcService ----------------------------
(***************************************************************************)
(* The gRPC side of the server: GrpcCacheService (servicer.py) and its     *)
(* batch functions (batch_mapping.py), the interceptors and                *)
(* CacheApplicationService, over a store that keeps CacheContract.         *)
(*                                                                         *)
(* A handler runs on the event loop until it awaits asyncio.to_thread: the *)
(* rest of the work is a job in the queue of a thread pool.  A worker goes *)
(* through the items of its job, one store call after the other, between   *)
(* the calls of other workers.  When the job is done the handler resumes   *)
(* and answers.  The call may be cancelled as long as the handler waits; a *)
(* job that no worker has taken is then dropped, another one runs on.      *)
(***************************************************************************)
EXTENDS CacheModels, SequencesExt

CONSTANTS
    Rpcs,               \* calls, each with an identity of its own
    Requests,           \* [op, namespace, items] records
    BadKey,             \* a key that validation rejects
    Workers,            \* threads of the pool
    MaxClock            \* bound: last reading of the store's clock

UnaryOps == {"Get", "Set", "SetIfAbsent", "CompareAndSet", "Delete", "Stats"}
BatchOps == {"MultiGet", "MultiSet", "MultiDelete"}
WriteOps == {"Set", "SetIfAbsent", "CompareAndSet", "MultiSet"}

\* What one item of a request carries; each operation reads its own fields.
Item == [key : Keys \cup {BadKey}, value : Values, expected : Values, ttl : Ttls]

\* namespace tells whether validate_namespace accepts the header.
ASSUME RequestsAssumption ==
    /\ Workers \in Nat \ {0}
    /\ MaxClock \in Nat
    /\ BadKey \notin Keys
    /\ None \notin Requests /\ None \notin Rpcs
    /\ \A q \in Requests :
         /\ q.op \in UnaryOps \cup BatchOps
         /\ q.namespace \in BOOLEAN
         /\ q.items \in Seq(Item)
         /\ q.op \in UnaryOps => Len(q.items) = 1

VARIABLES
    cache, clock, pending, reply,   \* the store, see CacheContract
    caller,             \* the call whose write the store is working on
    rpc,                \* call -> phase of its handler, request, answer
    job,                \* call -> its work in the pool, outcomes so far
    queue,              \* jobs that no worker has taken, oldest first
    active_requests,    \* ActiveRequests._value
    committed           \* history: the items <<r, i>> whose value was stored

store == <<cache, clock, pending, reply>>
vars == <<store, caller, rpc, job, queue, active_requests, committed>>

Store == INSTANCE CacheContract WITH
    Contents <- {[k \in Keys |-> None]},
    MayFail <- TRUE

-----------------------------------------------------------------------------
NoAnswer == [code |-> "none", items |-> <<>>]
Idle == [phase |-> "idle", request |-> None, answer |-> NoAnswer]
NoJob == [pc |-> "none", outcomes |-> <<>>]

Init ==
    /\ Store!Init
    /\ caller = None
    /\ rpc = [r \in Rpcs |-> Idle]
    /\ job = [r \in Rpcs |-> NoJob]
    /\ queue = <<>>
    /\ active_requests = 0
    /\ committed = {}

Items(r) == rpc[r].request.items
Op(r) == rpc[r].request.op
Running == {r \in Rpcs : job[r].pc = "running"}

\* The item that the worker of r is at.
Here(r) == Len(job[r].outcomes) + 1
AtItem(r) == job[r].pc = "running" /\ Here(r) <= Len(Items(r))
Current(r) == Items(r)[Here(r)]

decrement == IF active_requests > 0 THEN active_requests - 1 ELSE 0

-----------------------------------------------------------------------------
(* Handlers, on the event loop.                                            *)

\* Both scopes are entered and the work is handed to the pool.
Begin(r, q) ==
    /\ rpc[r].phase = "idle" /\ q.namespace
    /\ active_requests' = active_requests + 1
    /\ rpc' = [rpc EXCEPT ![r] =
                 [phase |-> "awaiting", request |-> q, answer |-> NoAnswer]]
    /\ job' = [job EXCEPT ![r].pc = "queued"]
    /\ queue' = Append(queue, r)
    /\ UNCHANGED <<store, caller, committed>>

\* The namespace is checked before the work is handed over; Stats has none.
RejectNamespace(r, q) ==
    /\ rpc[r].phase = "idle" /\ ~q.namespace /\ q.op # "Stats"
    /\ rpc' = [rpc EXCEPT ![r] =
                 [phase |-> "answered", request |-> q,
                  answer |-> [code |-> "INVALID_ARGUMENT", items |-> <<>>]]]
    /\ UNCHANGED <<store, caller, job, queue, active_requests, committed>>

\* A bug: a status of the store that is not OK is not looked at.
MapEveryStatusToOk(outcome) ==
    CASE outcome = "ValueError" -> "INVALID_ARGUMENT"
      [] outcome = "Exception" -> "INTERNAL"
      [] OTHER -> "OK"

\* map_set_status, map_conditional_status: None if there is no error.
map_status(outcome) ==
    IF outcome \in {"VALUE_TOO_LARGE", "CAPACITY_EXHAUSTED"}
    THEN "RESOURCE_EXHAUSTED"
    ELSE CASE outcome = "ValueError" -> "INVALID_ARGUMENT"
           [] outcome = "Exception" -> "INTERNAL"
           [] OTHER -> "OK"

\* A failure of the only item is the status of a unary call.  A batch is OK
\* as a whole, and lists what became of each of its items.
AnswerTo(r) ==
    [code |-> IF Op(r) \in UnaryOps THEN map_status(job[r].outcomes[1]) ELSE "OK",
     items |-> [i \in DOMAIN job[r].outcomes |->
                  [status |-> map_status(job[r].outcomes[i]),
                   result |-> job[r].outcomes[i]]]]

\* A bug: the handler does not wait for its job.
AnswerAtOnce(r) ==
    /\ rpc[r].phase = "awaiting" /\ job[r].outcomes # <<>>
    /\ rpc' = [rpc EXCEPT ![r].phase = "answered", ![r].answer = AnswerTo(r)]
    /\ active_requests' = decrement
    /\ UNCHANGED <<store, caller, job, queue, committed>>

Answer(r) ==
    /\ rpc[r].phase = "awaiting" /\ job[r].pc = "done"
    /\ rpc' = [rpc EXCEPT ![r].phase = "answered", ![r].answer = AnswerTo(r)]
    /\ active_requests' = decrement
    /\ UNCHANGED <<store, caller, job, queue, committed>>

\* A bug: the count is only taken back where the handler returns.
CancelUncounted(r) ==
    /\ rpc[r].phase = "awaiting"
    /\ rpc' = [rpc EXCEPT ![r].phase = "cancelled"]
    /\ job' = IF job[r].pc = "queued" THEN [job EXCEPT ![r].pc = "dropped"] ELSE job
    /\ queue' = RemoveFirst(queue, r)
    /\ UNCHANGED <<store, caller, active_requests, committed>>

\* The client gave up, or its deadline has passed.  CancelledError is no
\* Exception: it passes all handlers but the finally of the scopes.
Cancel(r) ==
    /\ rpc[r].phase = "awaiting"
    /\ rpc' = [rpc EXCEPT ![r].phase = "cancelled"]
    /\ job' = IF job[r].pc = "queued" THEN [job EXCEPT ![r].pc = "dropped"] ELSE job
    /\ queue' = RemoveFirst(queue, r)
    /\ active_requests' = decrement
    /\ UNCHANGED <<store, caller, committed>>

-----------------------------------------------------------------------------
(* Workers of the pool.                                                    *)

StartJob ==
    /\ queue # <<>> /\ Cardinality(Running) < Workers
    /\ job' = [job EXCEPT ![Head(queue)].pc = "running"]
    /\ queue' = Tail(queue)
    /\ UNCHANGED <<store, caller, rpc, active_requests, committed>>

\* The item has an outcome: on to the next one.
Outcome(r, outcome) ==
    job' = [job EXCEPT ![r].outcomes = Append(@, outcome)]

EndJob(r) ==
    /\ job[r].pc = "running" /\ Here(r) > Len(Items(r))
    /\ job' = [job EXCEPT ![r].pc = "done"]
    /\ UNCHANGED <<store, caller, rpc, queue, active_requests, committed>>

Elsewhere == <<rpc, queue, active_requests>>

\* A bug: the exception ends the loop over the items.
RaiseOutOfLoop(r) ==
    /\ AtItem(r) /\ caller # r
    /\ Op(r) # "Stats" /\ Current(r).key = BadKey
    /\ job' = [job EXCEPT ![r].pc = "done", ![r].outcomes = Append(@, "ValueError")]
    /\ UNCHANGED <<store, caller, Elsewhere, committed>>

\* A bug: the worker ends with the exception, and nobody is told.
RaiseUnnoticed(r) ==
    /\ AtItem(r) /\ caller # r
    /\ Op(r) # "Stats" /\ Current(r).key = BadKey
    /\ job' = [job EXCEPT ![r].pc = "dropped"]
    /\ UNCHANGED <<store, caller, Elsewhere, committed>>

\* _storage_key raises ValueError before the store is called.
InvalidItem(r) ==
    /\ AtItem(r) /\ caller # r
    /\ Op(r) # "Stats" /\ Current(r).key = BadKey
    /\ Outcome(r, "ValueError")
    /\ UNCHANGED <<store, caller, Elsewhere, committed>>

Valid(r) ==
    /\ AtItem(r) /\ caller = None
    /\ Op(r) # "Stats" => Current(r).key # BadKey

\* The store raises, an SQL error for instance, and nothing has changed.
StoreRaises(r) ==
    /\ Valid(r)
    /\ Outcome(r, "Exception")
    /\ UNCHANGED <<store, caller, Elsewhere, committed>>

\* A call that the store answers at once.  Whether delete found something is
\* logged, but not answered.
CallStore(r) ==
    /\ Valid(r)
    /\ LET item == Current(r) IN
       CASE Op(r) \in {"Get", "MultiGet"} -> Store!Get(item.key)
         [] Op(r) \in {"Delete", "MultiDelete"} -> Store!Delete(item.key)
         [] Op(r) = "Stats" -> Store!Stats
         [] Op(r) = "SetIfAbsent" -> Store!RefuseSetIfAbsent(item.key)
         [] Op(r) = "CompareAndSet" ->
              Store!RefuseCompareAndSet(item.key, item.expected)
         [] OTHER -> FALSE
    /\ Outcome(r, IF Op(r) \in {"Stats", "Delete", "MultiDelete"} THEN "OK"
                  ELSE reply'.result)
    /\ UNCHANGED <<caller, Elsewhere, committed>>

\* A bug: the value is compared before the call, and set with a call of its own.
CompareThenSet(r) ==
    /\ Valid(r)
    /\ LET item == Current(r) IN
       CASE Op(r) \in {"Set", "MultiSet", "CompareAndSet"} ->
              Store!StartSet(item.key, item.value, item.ttl)
         [] Op(r) = "SetIfAbsent" ->
              Store!StartSetIfAbsent(item.key, item.value, item.ttl)
         [] OTHER -> FALSE
    /\ caller' = r
    /\ UNCHANGED <<job, Elsewhere, committed>>

StartWrite(r) ==
    /\ Valid(r)
    /\ LET item == Current(r) IN
       CASE Op(r) \in {"Set", "MultiSet"} ->
              Store!StartSet(item.key, item.value, item.ttl)
         [] Op(r) = "SetIfAbsent" ->
              Store!StartSetIfAbsent(item.key, item.value, item.ttl)
         [] Op(r) = "CompareAndSet" ->
              Store!StartCompareAndSet(item.key, item.expected, item.value, item.ttl)
         [] OTHER -> FALSE
    /\ caller' = r
    /\ UNCHANGED <<job, Elsewhere, committed>>

EndWrite(r) ==
    /\ caller = r
    /\ \/ Store!Commit /\ committed' = committed \cup {<<r, Here(r)>>}
       \/ Store!Reject /\ UNCHANGED committed
    /\ Outcome(r, reply'.result)
    /\ caller' = None
    /\ UNCHANGED Elsewhere

\* A bug: the exception leaves the store locked.
RaiseHoldingLock(r) ==
    /\ caller = r
    /\ Outcome(r, "Exception")
    /\ caller' = None
    /\ UNCHANGED <<store, Elsewhere, committed>>

\* The write raises half way: it is not stored, and with the SQLite store the
\* old entry of its key may be gone.
WriteRaises(r) ==
    /\ caller = r
    /\ Store!Fail
    /\ Outcome(r, "Exception")
    /\ caller' = None
    /\ UNCHANGED <<Elsewhere, committed>>

\* What the store does by itself.
StoreStep ==
    /\ \/ \E k \in Keys : Store!Evict(k) \/ Store!Expire(k)
       \/ clock < MaxClock /\ Store!Pass
    /\ UNCHANGED <<caller, rpc, job, queue, active_requests, committed>>

-----------------------------------------------------------------------------
Next ==
    \/ \E r \in Rpcs :
         \/ \E q \in Requests : Begin(r, q) \/ RejectNamespace(r, q)
         \/ Answer(r) \/ Cancel(r)
         \/ InvalidItem(r) \/ StoreRaises(r) \/ CallStore(r)
         \/ StartWrite(r) \/ EndWrite(r) \/ WriteRaises(r)
         \/ EndJob(r)
    \/ StartJob \/ StoreStep

Spec == Init /\ [][Next]_vars

-----------------------------------------------------------------------------
(* Safety.                                                                 *)

Outcomes ==
    Values \cup {None} \cup CacheSetStatus
      \cup CacheConditionalSetStatus \cup {"ValueError", "Exception"}

TypeOK ==
    /\ caller \in Rpcs \cup {None}
    /\ caller = None <=> pending = None
    /\ \A r \in Rpcs :
         /\ rpc[r].phase \in {"idle", "awaiting", "answered", "cancelled"}
         /\ rpc[r].request \in Requests \cup {None}
         /\ job[r].pc \in {"none", "queued", "running", "done", "dropped"}
         /\ job[r].outcomes \in Seq(Outcomes)
    /\ queue \in Seq(Rpcs)
    /\ active_requests \in Nat
    /\ committed \subseteq Rpcs \X Nat

\* The gauge of the calls in flight is exact, whether calls are answered,
\* fail or are cancelled: it does not drift, and max(..., 0) never cuts in.
ActiveExact ==
    active_requests = Cardinality({r \in Rpcs : rpc[r].phase = "awaiting"})

Answered(r) == rpc[r].phase = "answered"

\* Every item of an accepted request has its result, in the order of the
\* request, whatever failed before it.
AnswersComplete ==
    \A r \in Rpcs :
      Answered(r) /\ rpc[r].answer.code # "INVALID_ARGUMENT" =>
        Len(rpc[r].answer.items) = Len(Items(r))

\* What an answer tells the client about item i of a write.
ToldStored(r, i) ==
    /\ rpc[r].answer.items[i].status = "OK"
    /\ rpc[r].answer.items[i].result \notin {"EXISTS", "NOT_FOUND", "MISMATCH"}

\* A client that is told that its value was stored is right, and one that is
\* told that it was not is right too, also about the items of a batch that
\* failed in part.
StatusTruthful ==
    \A r \in Rpcs :
      Answered(r) /\ rpc[r].request # None /\ Op(r) \in WriteOps =>
        \A i \in DOMAIN rpc[r].answer.items :
          ToldStored(r, i) <=> <<r, i>> \in committed

Stored(k, v) ==
    {c \in committed : Items(c[1])[c[2]].key = k /\ Items(c[1])[c[2]].value = v}

Replaced(k, v) ==
    {c \in committed : /\ Op(c[1]) = "CompareAndSet"
                       /\ Items(c[1])[c[2]].key = k
                       /\ Items(c[1])[c[2]].expected = v}

\* A value of a key is replaced at most once for every time it was written:
\* of the calls that race to replace it, cancelled ones included, one wins.
NoLostUpdate ==
    \A k \in Keys, v \in Values :
      Cardinality(Replaced(k, v)) <= Cardinality(Stored(k, v))

\* A write takes effect before its call is answered.  After its call has gone
\* it does so only if the call was cancelled when a worker had it already.
EffectsInScope ==
    [][\A c \in committed' \ committed :
         \/ rpc[c[1]].phase = "awaiting"
         \/ rpc[c[1]].phase = "cancelled" /\ job[c[1]].pc = "running"]_vars

-----------------------------------------------------------------------------
(* Liveness, under the fairness of the modules that compose this one.      *)

\* Every call is answered or cancelled, also when others fail, are cancelled
\* while they wait for a worker, or keep the workers busy.
CallsReturn ==
    \A r \in Rpcs : rpc[r].phase = "awaiting" ~> rpc[r].phase # "awaiting"
=============================================================================
