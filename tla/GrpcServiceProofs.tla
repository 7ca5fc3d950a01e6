------------------------- MODULE GrpcServiceProofs -------------------------
(***************************************************************************)
(* Theorems about GrpcService, for every set of calls and requests, every  *)
(* number of workers and every limit of the store.                         *)
(***************************************************************************)
EXTENDS GrpcService, SequenceLemmas, FiniteSetTheorems

-----------------------------------------------------------------------------
(* The inductive invariant.  S is the set of the calls that the servicer   *)
(* handles: all of Rpcs here, but not where others share the pool.         *)

Phases == {"idle", "awaiting", "answered", "cancelled"}
Pcs == {"none", "queued", "running", "done", "dropped"}

\* What a write has done with an item that it did not store.
Refusals == {"EXISTS", "NOT_FOUND", "MISMATCH"}

\* What an item of a write may come to.
WriteOutcomes(op) ==
    {"VALUE_TOO_LARGE", "ValueError", "Exception"} \cup
      IF op \in {"SetIfAbsent", "CompareAndSet"} THEN {"STORED"} \cup Refusals ELSE {"OK"}

\* The method of the store that carries out an operation.
StoreOp(op) ==
    CASE op = "SetIfAbsent" -> "set_if_absent"
      [] op = "CompareAndSet" -> "compare_and_set"
      [] OTHER -> "set"

Codes == {"none", "OK", "INVALID_ARGUMENT", "RESOURCE_EXHAUSTED", "INTERNAL",
          "UNKNOWN", "200", "503"}

Replies == [code : Codes, items : Seq([status : Codes, result : Outcomes])]
Handlers == [phase : Phases, request : Requests \cup {None}, answer : Replies]
Jobs == [pc : Pcs, outcomes : Seq(Outcomes)]

Shape == rpc \in [Rpcs -> Handlers] /\ job \in [Rpcs -> Jobs]

StoreShape ==
    /\ cache \in [Keys -> Entry \cup {None}]
    /\ clock \in Nat
    /\ caller \in Rpcs \cup {None}
    /\ caller = None => pending = None
    /\ caller # None =>
         /\ AtItem(caller) /\ Op(caller) \in WriteOps
         /\ pending.op = StoreOp(Op(caller))
         /\ pending.key \in Keys /\ pending.entry \in Entry
         /\ pending.key = Current(caller).key
         /\ pending.entry.value = Current(caller).value

QueueShape ==
    /\ queue \in Seq(Rpcs) /\ IsInjective(queue)
    /\ \A r \in ToSet(queue) : job[r].pc = "queued"

\* How far a handler and its job may be apart.
InStep(r) ==
    /\ rpc[r].phase = "idle" => job[r].pc = "none" /\ rpc[r].request = None
    /\ rpc[r].phase = "awaiting" => job[r].pc \in {"queued", "running", "done"}
    /\ rpc[r].phase = "answered" => job[r].pc \in {"none", "done"}
    /\ rpc[r].phase = "cancelled" => job[r].pc \in {"running", "done", "dropped"}
    /\ job[r].pc # "none" => rpc[r].request \in Requests
    /\ job[r].pc \in {"none", "queued", "dropped"} => job[r].outcomes = <<>>
    /\ job[r].pc = "running" => Len(job[r].outcomes) <= Len(Items(r))
    /\ job[r].pc = "done" => Len(job[r].outcomes) = Len(Items(r))

IsWrite(r) == rpc[r].request # None /\ Op(r) \in WriteOps

\* The history tells what the outcomes tell.
Booked(r) ==
    /\ ~IsWrite(r) => \A i \in Nat : <<r, i>> \notin committed
    /\ IsWrite(r) =>
         \A i \in Nat :
           <<r, i>> \in committed <=>
             i \in DOMAIN job[r].outcomes /\ job[r].outcomes[i] \in {"OK", "STORED"}
    /\ IsWrite(r) => \A i \in DOMAIN job[r].outcomes : job[r].outcomes[i] \in WriteOutcomes(Op(r))

Replied(r) ==
    rpc[r].phase = "answered" /\ rpc[r].request # None =>
      \/ job[r].pc = "none"
         /\ rpc[r].answer = [code |-> "INVALID_ARGUMENT", items |-> <<>>]
      \/ job[r].pc = "done" /\ rpc[r].answer = AnswerTo(r)

CallsInv(S) ==
    /\ Shape /\ StoreShape /\ QueueShape
    /\ committed \subseteq Rpcs \X Nat
    /\ \A r \in Rpcs : InStep(r) /\ Booked(r)
    /\ \A r \in S : Replied(r)

WaitingIn(S) == {r \in S : rpc[r].phase = "awaiting"}

Counted(S) ==
    IsFiniteSet(WaitingIn(S)) /\ active_requests = Cardinality(WaitingIn(S))

-----------------------------------------------------------------------------
(* What the steps do to the records of a call.                             *)

\* A new phase and a new answer, one or both of them.
LEMMA PhaseUpdate ==
    ASSUME Shape, NEW r \in Rpcs, NEW p \in Phases, rpc' = [rpc EXCEPT ![r].phase = p]
    PROVE  /\ rpc' \in [Rpcs -> Handlers]
           /\ rpc'[r].phase = p /\ rpc'[r].request = rpc[r].request
           /\ \A s \in Rpcs : s # r => rpc'[s] = rpc[s]
  BY DEF Shape, Handlers

\* A request is answered: nothing else of the handlers changes.
LEMMA AnswerUpdate ==
    ASSUME Shape, NEW r \in Rpcs, NEW a \in Replies,
           rpc' = [rpc EXCEPT ![r].phase = "answered", ![r].answer = a]
    PROVE  /\ rpc' \in [Rpcs -> Handlers]
           /\ rpc'[r].phase = "answered" /\ rpc'[r].request = rpc[r].request
           /\ rpc'[r].answer = a
           /\ \A s \in Rpcs : s # r => rpc'[s] = rpc[s]
  BY DEF Shape, Handlers, Phases

\* A job moves on: nothing else of the jobs changes.
LEMMA PcUpdate ==
    ASSUME Shape, NEW r \in Rpcs, NEW p \in Pcs,
           job' = [job EXCEPT ![r].pc = p]
    PROVE  /\ job' \in [Rpcs -> Jobs]
           /\ job'[r].pc = p /\ job'[r].outcomes = job[r].outcomes
           /\ \A s \in Rpcs : s # r => job'[s] = job[s]
  BY DEF Shape, Jobs

\* An outcome is added to a job: nothing else of the jobs changes.
LEMMA OutcomeUpdate ==
    ASSUME Shape, NEW r \in Rpcs, NEW outcome \in Outcomes, Outcome(r, outcome)
    PROVE  /\ job' \in [Rpcs -> Jobs]
           /\ job'[r].pc = job[r].pc
           /\ job'[r].outcomes = Append(job[r].outcomes, outcome)
           /\ \A s \in Rpcs : s # r => job'[s] = job[s]
<1>1. Append(job[r].outcomes, outcome) \in Seq(Outcomes)
  BY DEF Shape, Jobs
<1> QED BY <1>1 DEF Shape, Outcome, Jobs

\* A call whose handler, job and history stay as they are keeps its part.
LEMMA OthersKept ==
    ASSUME NEW s \in Rpcs, rpc'[s] = rpc[s], job'[s] = job[s],
           \A i \in Nat : <<s, i>> \in committed' <=> <<s, i>> \in committed
    PROVE  /\ InStep(s) => InStep(s)'
           /\ Booked(s) => Booked(s)'
           /\ Replied(s) => Replied(s)'
<1>1. InStep(s) => InStep(s)'
  BY DEF InStep, Items
<1>2. Booked(s) => Booked(s)'
  BY DEF Booked, IsWrite, Op
<1>3. Replied(s) => Replied(s)'
  BY DEF Replied, AnswerTo, Op
<1> QED BY <1>1, <1>2, <1>3

\* The store goes on with a write as long as the job of its call is at it.
LEMMA StoreShapeKept ==
    ASSUME StoreShape, UNCHANGED <<store, caller>>,
           caller # None => /\ job'[caller] = job[caller]
                            /\ rpc'[caller].request = rpc[caller].request
    PROVE  StoreShape'
  BY DEF StoreShape, store, AtItem, Current, Here, Items, Op

-----------------------------------------------------------------------------
(* The steps of a handler.                                                 *)

\* A request is taken and its work is handed to the pool.
LEMMA EnqueueStep ==
    ASSUME NEW S \in SUBSET Rpcs, CallsInv(S), NEW r \in Rpcs, NEW q \in Requests,
           rpc[r].phase = "idle",
           rpc' \in [Rpcs -> Handlers],
           rpc'[r].phase = "awaiting", rpc'[r].request = q,
           \A s \in Rpcs : s # r => rpc'[s] = rpc[s],
           job' = [job EXCEPT ![r].pc = "queued"],
           queue' = Append(queue, r),
           UNCHANGED <<store, caller, committed>>
    PROVE  CallsInv(S)'
<1> USE DEF CallsInv
<1>1. job[r].pc = "none" /\ rpc[r].request = None /\ job[r].outcomes = <<>>
  BY DEF InStep
<1>2. /\ job' \in [Rpcs -> Jobs]
      /\ job'[r].pc = "queued" /\ job'[r].outcomes = <<>>
      /\ \A s \in Rpcs : s # r => job'[s] = job[s]
  BY <1>1, PcUpdate DEF Pcs
<1>3. Shape'
  BY <1>2 DEF Shape
<1>4. StoreShape'
  <2>1. caller # r
    BY <1>1, RequestsAssumption DEF StoreShape, AtItem
  <2> QED BY <1>2, <2>1, StoreShapeKept DEF StoreShape
<1>5. QueueShape'
  <2>1. r \notin ToSet(queue)
    BY <1>1 DEF QueueShape
  <2>2. /\ queue' \in Seq(Rpcs) /\ IsInjective(queue')
        /\ ToSet(queue') = ToSet(queue) \cup {r}
    BY <2>1, AppendNew DEF QueueShape
  <2> QED BY <1>2, <2>2 DEF QueueShape
<1>6. InStep(r)' /\ Booked(r)' /\ Replied(r)'
  <2>1. q # None
    BY RequestsAssumption
  <2>2. \A i \in Nat : <<r, i>> \notin committed
    BY <1>1 DEF Booked, IsWrite
  <2>3. DOMAIN job'[r].outcomes = {}
    BY <1>2
  <2> QED BY <1>2, <2>1, <2>2, <2>3 DEF InStep, Booked, IsWrite, Replied
<1>7. ASSUME NEW s \in Rpcs, s # r PROVE InStep(s)' /\ Booked(s)' /\ (s \in S => Replied(s)')
  BY <1>2, <1>7, OthersKept
<1> QED BY <1>3, <1>4, <1>5, <1>6, <1>7

\* A handler ends, with the answer of its servicer or with none; its job stays.
LEMMA ReturnStep ==
    ASSUME NEW S \in SUBSET Rpcs, CallsInv(S), NEW r \in Rpcs,
           rpc[r].phase = "awaiting", job[r].pc = "done",
           rpc' \in [Rpcs -> Handlers],
           rpc'[r].phase = "answered", rpc'[r].request = rpc[r].request,
           r \in S => rpc'[r].answer = AnswerTo(r),
           \A s \in Rpcs : s # r => rpc'[s] = rpc[s],
           UNCHANGED <<store, caller, job, queue, committed>>
    PROVE  CallsInv(S)'
<1> USE DEF CallsInv
<1>1. Shape'
  BY DEF Shape
<1>2. StoreShape'
  BY StoreShapeKept DEF StoreShape
<1>3. QueueShape'
  BY DEF QueueShape
<1>4. InStep(r)' /\ Booked(r)' /\ (r \in S => Replied(r)')
  BY DEF InStep, Booked, IsWrite, Replied, AnswerTo, Items, Op
<1>5. ASSUME NEW s \in Rpcs, s # r PROVE InStep(s)' /\ Booked(s)' /\ (s \in S => Replied(s)')
  BY <1>5, OthersKept
<1> QED BY <1>1, <1>2, <1>3, <1>4, <1>5

\* A handler is cancelled: a job that waits is taken out of the queue, one that
\* a worker has goes on.
LEMMA CancelStep ==
    ASSUME NEW S \in SUBSET Rpcs, CallsInv(S), NEW r \in Rpcs,
           rpc[r].phase = "awaiting",
           rpc' = [rpc EXCEPT ![r].phase = "cancelled"],
           job' = IF job[r].pc = "queued" THEN [job EXCEPT ![r].pc = "dropped"] ELSE job,
           queue' = RemoveFirst(queue, r),
           UNCHANGED <<store, caller, committed>>
    PROVE  CallsInv(S)'
<1> USE DEF CallsInv
<1>1. /\ rpc' \in [Rpcs -> Handlers]
      /\ rpc'[r].phase = "cancelled" /\ rpc'[r].request = rpc[r].request
      /\ \A s \in Rpcs : s # r => rpc'[s] = rpc[s]
  BY PhaseUpdate DEF Phases
<1>2. /\ job' \in [Rpcs -> Jobs]
      /\ job'[r].pc = IF job[r].pc = "queued" THEN "dropped" ELSE job[r].pc
      /\ job'[r].outcomes = job[r].outcomes
      /\ \A s \in Rpcs : s # r => job'[s] = job[s]
  <2>1. CASE job[r].pc = "queued"
    BY <2>1, PcUpdate DEF Pcs
  <2>2. CASE job[r].pc # "queued"
    BY <2>2 DEF Shape
  <2> QED BY <2>1, <2>2
<1>3. Shape'
  BY <1>1, <1>2 DEF Shape
<1>4. StoreShape'
  <2>1. ASSUME caller # None
        PROVE  job'[caller] = job[caller] /\ rpc'[caller].request = rpc[caller].request
    <3>1. caller \in Rpcs /\ job[caller].pc = "running"
      BY <2>1 DEF StoreShape, AtItem
    <3> QED BY <1>1, <1>2, <3>1
  <2> QED BY <2>1, StoreShapeKept
<1>5. QueueShape'
  <2>1. /\ queue' \in Seq(Rpcs) /\ IsInjective(queue')
        /\ ToSet(queue') = ToSet(queue) \ {r}
    BY RemoveFirstProperties DEF QueueShape
  <2>2. ToSet(queue) \subseteq Rpcs
    BY DEF QueueShape, ToSet
  <2> QED BY <1>2, <2>1, <2>2 DEF QueueShape
<1>6. InStep(r)' /\ Booked(r)' /\ Replied(r)'
  BY <1>1, <1>2 DEF InStep, Booked, IsWrite, Replied, Items, Op
<1>7. ASSUME NEW s \in Rpcs, s # r PROVE InStep(s)' /\ Booked(s)' /\ (s \in S => Replied(s)')
  BY <1>1, <1>2, <1>7, OthersKept
<1> QED BY <1>3, <1>4, <1>5, <1>6, <1>7

\* A call is answered before it has a job.
LEMMA RefuseStep ==
    ASSUME NEW S \in SUBSET Rpcs, CallsInv(S), NEW r \in Rpcs,
           rpc[r].phase = "idle",
           rpc' \in [Rpcs -> Handlers],
           rpc'[r].phase = "answered",
           \/ rpc'[r].request = None
           \/ /\ rpc'[r].request \in Requests
              /\ rpc'[r].answer = [code |-> "INVALID_ARGUMENT", items |-> <<>>],
           \A s \in Rpcs : s # r => rpc'[s] = rpc[s],
           UNCHANGED <<store, caller, job, queue, committed>>
    PROVE  CallsInv(S)'
<1> USE DEF CallsInv
<1>1. job[r].pc = "none" /\ rpc[r].request = None /\ job[r].outcomes = <<>>
  BY DEF InStep
<1>2. Shape' /\ QueueShape'
  BY DEF Shape, QueueShape
<1>3. StoreShape'
  <2>1. caller # r
    BY <1>1, RequestsAssumption DEF StoreShape, AtItem
  <2> QED BY <2>1, StoreShapeKept DEF StoreShape
<1>4. InStep(r)' /\ Booked(r)' /\ Replied(r)'
  <2>1. \A i \in Nat : <<r, i>> \notin committed
    BY <1>1 DEF Booked, IsWrite
  <2>2. DOMAIN job[r].outcomes = {}
    BY <1>1
  <2> QED BY <1>1, <2>1, <2>2 DEF InStep, Booked, IsWrite, Replied
<1>5. ASSUME NEW s \in Rpcs, s # r PROVE InStep(s)' /\ Booked(s)' /\ (s \in S => Replied(s)')
  BY <1>5, OthersKept
<1> QED BY <1>2, <1>3, <1>4, <1>5

-----------------------------------------------------------------------------
(* The steps of a worker.                                                  *)

\* The oldest job is taken.
LEMMA StartJobStep ==
    ASSUME NEW S \in SUBSET Rpcs, CallsInv(S), StartJob
    PROVE  CallsInv(S)'
<1> USE DEF CallsInv
<1>1. queue # <<>> /\ queue \in Seq(Rpcs) /\ IsInjective(queue)
  BY DEF StartJob, QueueShape
<1>r. PICK r \in Rpcs : r = Head(queue)
  BY <1>1
<1>2. /\ queue' \in Seq(Rpcs) /\ Len(queue') = Len(queue) - 1
      /\ r = queue[1] /\ 1 \in 1..Len(queue)
      /\ \A i \in 1..Len(queue') : queue'[i] = queue[i + 1] /\ i + 1 \in 1..Len(queue)
  BY <1>r, <1>1 DEF StartJob
<1>3. r \in ToSet(queue) /\ r \in Rpcs
  BY <1>1, <1>2 DEF ToSet
<1>4. IsInjective(queue') /\ ToSet(queue') \subseteq ToSet(queue) \ {r}
  <2> DEFINE q == queue'
             l == Len(queue)
  <2>1. l \in Nat /\ DOMAIN queue = 1..l /\ DOMAIN q = 1..(l - 1)
    BY <1>1, <1>2
  <2>2. /\ \A i \in 1..(l - 1) : q[i] = queue[i + 1] /\ i + 1 \in 1..l /\ i + 1 # 1
        /\ 1 \in 1..l /\ r = queue[1]
    BY <1>2, <2>1
  <2>3. \A i, j \in 1..l : queue[i] = queue[j] => i = j
    BY <1>1, <2>1 DEF IsInjective
  <2> HIDE DEF q, l
  <2>4. ASSUME NEW i \in 1..(l - 1), NEW j \in 1..(l - 1), q[i] = q[j] PROVE i = j
    <3>1. i + 1 = j + 1
      BY <2>2, <2>3, <2>4
    <3> QED BY <2>1, <3>1
  <2>5. IsInjective(q)
    BY <2>1, <2>4 DEF IsInjective
  <2>6. ASSUME NEW i \in 1..(l - 1) PROVE q[i] \in ToSet(queue) \ {r}
    BY <2>1, <2>2, <2>3 DEF ToSet
  <2>7. ToSet(q) \subseteq ToSet(queue) \ {r}
    BY <2>1, <2>6 DEF ToSet
  <2> QED BY <2>5, <2>7 DEF q
<1>5. job[r].pc = "queued"
  BY <1>3 DEF QueueShape
<1>6. /\ job' \in [Rpcs -> Jobs]
      /\ job'[r].pc = "running" /\ job'[r].outcomes = job[r].outcomes
      /\ \A s \in Rpcs : s # r => job'[s] = job[s]
  BY <1>r, PcUpdate DEF StartJob, Pcs
<1>7. UNCHANGED <<store, caller, rpc, committed>>
  BY DEF StartJob
<1>8. Shape'
  BY <1>6, <1>7 DEF Shape
<1>9. StoreShape'
  <2>1. caller # r
    BY <1>3, <1>5, RequestsAssumption DEF StoreShape, AtItem
  <2> QED BY <1>6, <1>7, <2>1, StoreShapeKept DEF StoreShape
<1>10. QueueShape'
  <2>1. ToSet(queue) \subseteq Rpcs
    BY <1>1 DEF ToSet
  <2> QED BY <1>2, <1>4, <1>6, <2>1 DEF QueueShape
<1>11. InStep(r)' /\ Booked(r)' /\ Replied(r)'
  <2>1. rpc[r].phase = "awaiting" /\ rpc[r].request \in Requests /\ job[r].outcomes = <<>>
    BY <1>3, <1>5 DEF InStep, Shape, Handlers, Phases
  <2>2. Len(Items(r)) \in Nat /\ Len(job[r].outcomes) = 0
    BY <2>1, RequestsAssumption DEF Items
  <2>3. InStep(r)'
    BY <1>6, <1>7, <2>1, <2>2 DEF InStep, Items
  <2>4. Booked(r)'
    BY <1>3, <1>6, <1>7 DEF Booked, IsWrite, Op
  <2>5. Replied(r)'
    BY <1>7, <2>1 DEF Replied
  <2> QED BY <2>3, <2>4, <2>5
<1>12. ASSUME NEW s \in Rpcs, s # r PROVE InStep(s)' /\ Booked(s)' /\ (s \in S => Replied(s)')
  BY <1>6, <1>7, <1>12, OthersKept
<1> QED BY <1>3, <1>7, <1>8, <1>9, <1>10, <1>11, <1>12

\* What a worker is at is an item of the request, and there is room for its outcome.
LEMMA AtAnItem ==
    ASSUME NEW S \in SUBSET Rpcs, CallsInv(S), NEW r \in Rpcs, AtItem(r)
    PROVE  /\ job[r].pc = "running" /\ rpc[r].phase \in {"awaiting", "cancelled"}
           /\ rpc[r].request \in Requests /\ rpc[r].request # None
           /\ Op(r) \in UnaryOps \cup BatchOps
           /\ Len(Items(r)) \in Nat /\ Len(job[r].outcomes) \in Nat
           /\ Len(job[r].outcomes) + 1 <= Len(Items(r))
           /\ Current(r) \in Item
<1>1. job[r].pc = "running" /\ InStep(r)
  BY DEF AtItem, CallsInv
<1>2. rpc[r].phase \in {"awaiting", "cancelled"} /\ rpc[r].request \in Requests
  BY <1>1 DEF InStep, CallsInv, Shape, Handlers, Phases
<1>3. Items(r) \in Seq(Item) /\ Op(r) \in UnaryOps \cup BatchOps
  BY <1>2, RequestsAssumption DEF Items, Op
<1>4. job[r].outcomes \in Seq(Outcomes)
  BY DEF CallsInv, Shape, Jobs
<1>5. Len(job[r].outcomes) + 1 <= Len(Items(r))
  BY DEF AtItem, Here
<1>6. Current(r) \in Item
  BY <1>3, <1>4, <1>5 DEF Current, Here
<1> QED BY <1>1, <1>2, <1>3, <1>4, <1>5, <1>6, RequestsAssumption

\* An item has its outcome, and the history says the same.
LEMMA OutcomeStep ==
    ASSUME NEW S \in SUBSET Rpcs, CallsInv(S), NEW r \in Rpcs, AtItem(r),
           NEW outcome \in Outcomes, Outcome(r, outcome),
           IsWrite(r) => outcome \in WriteOutcomes(Op(r)),
           committed' = IF IsWrite(r) /\ outcome \in {"OK", "STORED"}
                        THEN committed \cup {<<r, Here(r)>>} ELSE committed,
           UNCHANGED <<rpc, queue>>,
           StoreShape'
    PROVE  CallsInv(S)'
<1> USE DEF CallsInv
<1>1. /\ job' \in [Rpcs -> Jobs]
      /\ job'[r].pc = job[r].pc
      /\ job'[r].outcomes = Append(job[r].outcomes, outcome)
      /\ \A s \in Rpcs : s # r => job'[s] = job[s]
  BY OutcomeUpdate
<1> DEFINE o == job[r].outcomes
<1>2. /\ job[r].pc = "running" /\ rpc[r].phase \in {"awaiting", "cancelled"}
      /\ rpc[r].request \in Requests
      /\ Len(o) \in Nat /\ Len(Items(r)) \in Nat /\ Len(o) + 1 <= Len(Items(r))
      /\ Here(r) = Len(o) + 1
  BY AtAnItem DEF Here
<1>3. /\ Len(job'[r].outcomes) = Len(o) + 1
      /\ DOMAIN job'[r].outcomes = 1..(Len(o) + 1)
      /\ DOMAIN o = 1..Len(o)
      /\ \A i \in 1..Len(o) : job'[r].outcomes[i] = o[i]
      /\ job'[r].outcomes[Len(o) + 1] = outcome
  BY <1>1 DEF Shape, Jobs
<1>4. Shape' /\ QueueShape'
  <2>1. ToSet(queue) \subseteq Rpcs /\ r \notin ToSet(queue)
    BY <1>2 DEF QueueShape, ToSet
  <2> QED BY <1>1, <2>1 DEF Shape, QueueShape
<1>5. committed' \subseteq Rpcs \X Nat
  BY <1>2
<1>6. InStep(r)' /\ Replied(r)'
  BY <1>1, <1>2, <1>3 DEF InStep, Replied, Items
<1>7. Booked(r)'
  <2>1. (IsWrite(r)' <=> IsWrite(r)) /\ Op(r)' = Op(r)
    BY DEF IsWrite, Op
  <2>2. CASE ~IsWrite(r)
    BY <2>1, <2>2 DEF Booked
  <2>3. CASE IsWrite(r)
    <3>1. ASSUME NEW i \in Nat
          PROVE  <<r, i>> \in committed' <=>
                   i \in DOMAIN job'[r].outcomes /\ job'[r].outcomes[i] \in {"OK", "STORED"}
      <4>1. CASE i = Len(o) + 1
        BY <1>2, <1>3, <2>3, <4>1 DEF Booked
      <4>2. CASE i # Len(o) + 1
        <5>1. <<r, i>> \in committed' <=> <<r, i>> \in committed
          BY <1>2, <4>2
        <5>2. i \in 1..(Len(o) + 1) <=> i \in 1..Len(o)
          BY <1>2, <4>2
        <5> QED BY <1>3, <2>3, <5>1, <5>2 DEF Booked
      <4> QED BY <4>1, <4>2
    <3>2. \A i \in DOMAIN job'[r].outcomes : job'[r].outcomes[i] \in WriteOutcomes(Op(r))
      <4>1. ASSUME NEW i \in 1..(Len(o) + 1) PROVE job'[r].outcomes[i] \in WriteOutcomes(Op(r))
        BY <1>2, <1>3, <2>3 DEF Booked
      <4> QED BY <1>3, <4>1
    <3> QED BY <2>1, <2>3, <3>1, <3>2 DEF Booked
  <2> QED BY <2>2, <2>3
<1>8. ASSUME NEW s \in Rpcs, s # r PROVE InStep(s)' /\ Booked(s)' /\ (s \in S => Replied(s)')
  <2>1. \A i \in Nat : <<s, i>> \in committed' <=> <<s, i>> \in committed
    BY <1>8
  <2> QED BY <1>1, <1>8, <2>1, OthersKept
<1> QED BY <1>4, <1>5, <1>6, <1>7, <1>8

\* The last item is done, so the call has an outcome for each.
LEMMA EndJobStep ==
    ASSUME NEW S \in SUBSET Rpcs, CallsInv(S), NEW r \in Rpcs, EndJob(r)
    PROVE  CallsInv(S)'
<1> USE DEF CallsInv
<1>1. /\ job' \in [Rpcs -> Jobs]
      /\ job'[r].pc = "done" /\ job'[r].outcomes = job[r].outcomes
      /\ \A s \in Rpcs : s # r => job'[s] = job[s]
  BY PcUpdate DEF EndJob, Pcs
<1>2. UNCHANGED <<store, caller, rpc, queue, committed>> /\ job[r].pc = "running"
  BY DEF EndJob
<1>3. /\ rpc[r].phase \in {"awaiting", "cancelled"} /\ rpc[r].request \in Requests
      /\ Len(job[r].outcomes) = Len(Items(r)) /\ Len(Items(r)) \in Nat
  <2>1. /\ rpc[r].phase \in {"awaiting", "cancelled"} /\ rpc[r].request \in Requests
        /\ Len(job[r].outcomes) <= Len(Items(r))
    BY <1>2 DEF InStep, Shape, Handlers, Phases
  <2>2. Len(Items(r)) \in Nat /\ Len(job[r].outcomes) \in Nat
    BY <2>1, RequestsAssumption DEF Items, Shape, Jobs
  <2> QED BY <2>1, <2>2 DEF EndJob, Here
<1>4. Shape' /\ QueueShape'
  <2>1. ToSet(queue) \subseteq Rpcs /\ r \notin ToSet(queue)
    BY <1>2 DEF QueueShape, ToSet
  <2> QED BY <1>1, <1>2, <2>1 DEF Shape, QueueShape
<1>5. StoreShape'
  <2>1. caller # r
    <3>1. ~AtItem(r)
      BY <1>3 DEF AtItem, Here
    <3> QED BY <3>1, RequestsAssumption DEF StoreShape
  <2> QED BY <1>1, <1>2, <2>1, StoreShapeKept DEF StoreShape
<1>6. InStep(r)' /\ Booked(r)' /\ Replied(r)'
  BY <1>1, <1>2, <1>3 DEF InStep, Booked, IsWrite, Replied, Items, Op
<1>7. ASSUME NEW s \in Rpcs, s # r PROVE InStep(s)' /\ Booked(s)' /\ (s \in S => Replied(s)')
  BY <1>1, <1>2, <1>7, OthersKept
<1> QED BY <1>2, <1>4, <1>5, <1>6, <1>7

-----------------------------------------------------------------------------
(* The calls of the store.                                                 *)

\* The entry that a write brings has the type of an entry.
LEMMA CacheEntryType ==
    ASSUME NEW v \in Values, NEW t \in Ttls, NEW now \in Nat
    PROVE  Store!CacheEntry(v, t, now) \in Entry
<1>1. CASE t # None /\ t <= 0
  BY <1>1, ModelsAssumption DEF Store!CacheEntry, Entry
<1>2. CASE ~(t # None /\ t <= 0)
  <2>1. t \in (Nat \ {0}) \cup {None}
    BY <1>2, ModelsAssumption
  <2> QED BY <1>2, <2>1 DEF Store!CacheEntry, Entry
<1> QED BY <1>1, <1>2

\* An item that validation or the store turns down.
LEMMA RaisedStep ==
    ASSUME NEW S \in SUBSET Rpcs, CallsInv(S), NEW r \in Rpcs,
           InvalidItem(r) \/ StoreRaises(r)
    PROVE  CallsInv(S)'
<1>1. /\ AtItem(r) /\ caller # r
      /\ UNCHANGED <<store, caller, rpc, queue, committed>>
  BY RequestsAssumption DEF InvalidItem, StoreRaises, Valid, Elsewhere
<1>2. PICK o \in {"ValueError", "Exception"} : Outcome(r, o)
  BY DEF InvalidItem, StoreRaises
<1>3. o \in Outcomes /\ o \in WriteOutcomes(Op(r)) /\ o \notin {"OK", "STORED"}
  BY <1>2 DEF Outcomes, WriteOutcomes
<1>4. StoreShape'
  <2>1. \A s \in Rpcs : s # r => job'[s] = job[s]
    BY <1>2, <1>3, OutcomeUpdate DEF CallsInv
  <2> QED BY <1>1, <2>1, StoreShapeKept DEF CallsInv, StoreShape
<1> QED BY <1>1, <1>2, <1>3, <1>4, OutcomeStep

\* The key of an item that the store is called with.
LEMMA ValidItem ==
    ASSUME NEW S \in SUBSET Rpcs, CallsInv(S), NEW r \in Rpcs, Valid(r)
    PROVE  /\ AtItem(r) /\ caller = None /\ pending = None
           /\ Current(r).value \in Values /\ Current(r).expected \in Values
           /\ Current(r).ttl \in Ttls
           /\ Op(r) # "Stats" => Current(r).key \in Keys
           /\ IsWrite(r) <=> Op(r) \in WriteOps
<1>1. AtItem(r) /\ caller = None /\ (Op(r) # "Stats" => Current(r).key # BadKey)
  BY DEF Valid
<1>2. Current(r) \in Item /\ rpc[r].request # None
  BY <1>1, AtAnItem
<1>3. pending = None
  BY <1>1 DEF CallsInv, StoreShape
<1> QED BY <1>1, <1>2, <1>3 DEF Item, IsWrite

\* What the store answers at once leaves it without a write, and is no write.
LEMMA AnswersAtOnce ==
    ASSUME NEW S \in SUBSET Rpcs, CallsInv(S), NEW r \in Rpcs, CallStore(r)
    PROVE  /\ cache' \in [Keys -> Entry \cup {None}]
           /\ clock' = clock /\ pending' = pending
           /\ \E o \in Outcomes :
                /\ Outcome(r, o)
                /\ IsWrite(r) => o \in WriteOutcomes(Op(r)) \cap Refusals
<1> DEFINE item == Current(r)
<1>1. /\ item.value \in Values /\ item.expected \in Values
      /\ Op(r) # "Stats" => item.key \in Keys
      /\ IsWrite(r) <=> Op(r) \in WriteOps
  BY ValidItem DEF CallStore
<1>2. cache \in [Keys -> Entry \cup {None}]
  BY DEF CallsInv, StoreShape
<1> HIDE DEF item
<1>3. ASSUME NEW k \in Keys
      PROVE  /\ [cache EXCEPT ![k] = None] \in [Keys -> Entry \cup {None}]
             /\ Store!MayDrop(k) => cache' \in [Keys -> Entry \cup {None}]
             /\ Store!Live(k) => cache[k].value \in Values
  BY <1>2 DEF Store!MayDrop, Store!Without, Store!Live, Entry
<1>4. CASE Op(r) \in {"Get", "MultiGet"}
  <2>1. item.key \in Keys /\ Store!Get(item.key) /\ Outcome(r, reply'.result)
    BY <1>1, <1>4 DEF CallStore, item
  <2>2. /\ reply'.result = IF Store!Live(item.key) THEN cache[item.key].value ELSE None
        /\ Store!MayDrop(item.key) /\ UNCHANGED <<clock, pending>>
    BY <2>1 DEF Store!Get, Store!Answer, Store!Returned
  <2>3. reply'.result \in Outcomes
    BY <1>3, <2>1, <2>2 DEF Outcomes
  <2> QED BY <1>1, <1>3, <1>4, <2>1, <2>2, <2>3 DEF WriteOps
<1>5. CASE Op(r) \in {"Delete", "MultiDelete", "Stats"}
  <2>1. Outcome(r, "OK")
    BY <1>5 DEF CallStore
  <2>2. CASE Op(r) = "Stats"
    <3>1. Store!Stats
      BY <2>2 DEF CallStore
    <3> QED BY <1>1, <1>2, <2>1, <2>2, <3>1 DEF Store!Stats, Outcomes, CacheSetStatus, WriteOps
  <2>3. CASE Op(r) \in {"Delete", "MultiDelete"}
    <3>1. item.key \in Keys /\ Store!Delete(item.key)
      BY <1>1, <2>3 DEF CallStore, item
    <3>2. cache' = [cache EXCEPT ![item.key] = None] /\ UNCHANGED <<clock, pending>>
      BY <3>1 DEF Store!Delete, Store!Answer, Store!Without
    <3> QED BY <1>1, <1>3, <2>1, <2>3, <3>1, <3>2 DEF Outcomes, CacheSetStatus, WriteOps
  <2> QED BY <1>5, <2>2, <2>3
<1>6. CASE Op(r) = "SetIfAbsent"
  <2>1. Store!RefuseSetIfAbsent(item.key) /\ Outcome(r, reply'.result)
    BY <1>6 DEF CallStore, item
  <2>2. reply'.result = "EXISTS" /\ cache' = cache /\ UNCHANGED <<clock, pending>>
    BY <2>1 DEF Store!RefuseSetIfAbsent, Store!Answer, Store!Returned
  <2> QED BY <1>2, <1>6, <2>1, <2>2
        DEF Outcomes, CacheConditionalSetStatus, WriteOutcomes, Refusals
<1>7. CASE Op(r) = "CompareAndSet"
  <2>1. /\ item.key \in Keys
        /\ Store!RefuseCompareAndSet(item.key, item.expected) /\ Outcome(r, reply'.result)
    BY <1>1, <1>7 DEF CallStore, item
  <2>2. /\ reply'.result \in {"NOT_FOUND", "MISMATCH"}
        /\ cache' = cache \/ Store!MayDrop(item.key)
        /\ UNCHANGED <<clock, pending>>
    BY <2>1 DEF Store!RefuseCompareAndSet, Store!Answer, Store!Returned
  <2> QED BY <1>2, <1>3, <1>7, <2>1, <2>2
        DEF Outcomes, CacheConditionalSetStatus, WriteOutcomes, Refusals
<1> QED BY <1>4, <1>5, <1>6, <1>7 DEF CallStore

\* A worker calls the store.
LEMMA CallStoreStep ==
    ASSUME NEW S \in SUBSET Rpcs, CallsInv(S), NEW r \in Rpcs, CallStore(r)
    PROVE  CallsInv(S)'
<1>1. /\ AtItem(r) /\ caller = None /\ pending = None
      /\ UNCHANGED <<caller, rpc, queue, committed>>
  BY ValidItem DEF CallStore, Elsewhere
<1>2. PICK o \in Outcomes : /\ Outcome(r, o)
                            /\ IsWrite(r) => o \in WriteOutcomes(Op(r)) \cap Refusals
  BY AnswersAtOnce
<1>3. StoreShape'
  BY <1>1, AnswersAtOnce DEF CallsInv, StoreShape
<1>4. IsWrite(r) => o \in WriteOutcomes(Op(r)) /\ o \notin {"OK", "STORED"}
  BY <1>2 DEF Refusals
<1> QED BY <1>1, <1>2, <1>3, <1>4, OutcomeStep

\* A write begins: it belongs to the call whose worker began it.
LEMMA StartWriteStep ==
    ASSUME NEW S \in SUBSET Rpcs, CallsInv(S), NEW r \in Rpcs, StartWrite(r)
    PROVE  CallsInv(S)'
<1> DEFINE item == Current(r)
<1>1. /\ AtItem(r) /\ caller = None /\ pending = None
      /\ item.value \in Values /\ item.ttl \in Ttls
      /\ Op(r) # "Stats" => item.key \in Keys
  BY ValidItem DEF StartWrite
<1>2. caller' = r /\ UNCHANGED <<job, rpc, queue, committed>>
  BY DEF StartWrite, Elsewhere
<1>3. cache \in [Keys -> Entry \cup {None}] /\ clock \in Nat
  BY DEF CallsInv, StoreShape
<1> HIDE DEF item
<1>4. ASSUME NEW op, NEW e, item.key \in Keys, Store!Start(op, item.key, e, item.value, item.ttl)
      PROVE  /\ pending'.op = op /\ pending'.key \in Keys /\ pending'.entry \in Entry
             /\ pending'.key = item.key /\ pending'.entry.value = item.value
             /\ clock' = clock
  BY <1>1, <1>3, <1>4, CacheEntryType DEF Store!Start, Store!CacheEntry
<1>5. ASSUME item.key \in Keys, Store!MayDrop(item.key)
      PROVE  cache' \in [Keys -> Entry \cup {None}]
  BY <1>3, <1>5 DEF Store!MayDrop, Store!Without
<1>6. /\ Op(r) \in WriteOps /\ cache' \in [Keys -> Entry \cup {None}] /\ clock' = clock
      /\ pending'.op = StoreOp(Op(r)) /\ pending'.key \in Keys /\ pending'.entry \in Entry
      /\ pending'.key = item.key /\ pending'.entry.value = item.value
  <2>1. CASE Op(r) \in {"Set", "MultiSet"}
    <3>1. item.key \in Keys /\ Store!StartSet(item.key, item.value, item.ttl)
      BY <1>1, <2>1 DEF StartWrite, item
    <3> QED BY <1>3, <1>4, <2>1, <3>1 DEF Store!StartSet, StoreOp, WriteOps
  <2>2. CASE Op(r) = "SetIfAbsent"
    <3>1. item.key \in Keys /\ Store!StartSetIfAbsent(item.key, item.value, item.ttl)
      BY <1>1, <2>2 DEF StartWrite, item
    <3> QED BY <1>4, <1>5, <2>2, <3>1 DEF Store!StartSetIfAbsent, StoreOp, WriteOps
  <2>3. CASE Op(r) = "CompareAndSet"
    <3>1. /\ item.key \in Keys
          /\ Store!StartCompareAndSet(item.key, item.expected, item.value, item.ttl)
      BY <1>1, <2>3 DEF StartWrite, item
    <3> QED BY <1>3, <1>4, <2>3, <3>1 DEF Store!StartCompareAndSet, StoreOp, WriteOps
  <2> QED BY <2>1, <2>2, <2>3 DEF StartWrite
<1>7. StoreShape'
  BY <1>1, <1>2, <1>3, <1>6, RequestsAssumption DEF item, StoreShape, AtItem, Current, Here, Items, Op
<1>8. Shape' /\ QueueShape'
  BY <1>2 DEF CallsInv, Shape, QueueShape
<1>9. ASSUME NEW s \in Rpcs PROVE InStep(s)' /\ Booked(s)' /\ (s \in S => Replied(s)')
  BY <1>2, OthersKept DEF CallsInv
<1> QED BY <1>2, <1>7, <1>8, <1>9 DEF CallsInv

\* What a write in progress is known to be.
LEMMA WriteInProgress ==
    ASSUME NEW S \in SUBSET Rpcs, CallsInv(S), NEW r \in Rpcs, caller = r
    PROVE  /\ AtItem(r) /\ IsWrite(r) /\ pending.op = StoreOp(Op(r))
           /\ pending.key \in Keys /\ pending.entry \in Entry
           /\ pending.key = Current(r).key /\ pending.entry.value = Current(r).value
           /\ [cache EXCEPT ![pending.key] = pending.entry] \in [Keys -> Entry \cup {None}]
           /\ [cache EXCEPT ![pending.key] = None] \in [Keys -> Entry \cup {None}]
<1>1. /\ AtItem(r) /\ Op(r) \in WriteOps /\ pending.op = StoreOp(Op(r))
      /\ pending.key \in Keys /\ pending.entry \in Entry
      /\ pending.key = Current(r).key /\ pending.entry.value = Current(r).value
      /\ cache \in [Keys -> Entry \cup {None}]
  BY RequestsAssumption DEF CallsInv, StoreShape
<1> QED BY <1>1, AtAnItem DEF IsWrite

\* A write of the store ends.
LEMMA EndWriteStep ==
    ASSUME NEW S \in SUBSET Rpcs, CallsInv(S), NEW r \in Rpcs, EndWrite(r)
    PROVE  CallsInv(S)'
<1>1. /\ AtItem(r) /\ IsWrite(r) /\ pending.op = StoreOp(Op(r))
      /\ [cache EXCEPT ![pending.key] = pending.entry] \in [Keys -> Entry \cup {None}]
  BY WriteInProgress DEF EndWrite
<1>2. UNCHANGED <<rpc, queue>> /\ caller' = None /\ Outcome(r, reply'.result)
  BY DEF EndWrite, Elsewhere
<1>3. pending' = None /\ clock' = clock /\ cache' \in [Keys -> Entry \cup {None}]
  BY <1>1 DEF EndWrite, Store!Commit, Store!Reject, Store!Finish, CallsInv, StoreShape
<1>4. StoreShape'
  BY <1>2, <1>3 DEF CallsInv, StoreShape
<1>5. CASE Store!Commit /\ committed' = committed \cup {<<r, Here(r)>>}
  <2>1. reply'.result = IF StoreOp(Op(r)) = "set" THEN "OK" ELSE "STORED"
    BY <1>1, <1>5 DEF Store!Commit, Store!Finish, Store!Returned, Store!WriteResult,
                Store!conditional_status_from_set_status
  <2> QED BY <1>1, <1>2, <1>4, <1>5, <2>1, OutcomeStep
        DEF WriteOutcomes, StoreOp, Outcomes, CacheSetStatus, CacheConditionalSetStatus
<1>6. CASE Store!Reject /\ UNCHANGED committed
  <2>1. reply'.result = "VALUE_TOO_LARGE"
    BY <1>6 DEF Store!Reject, Store!Finish, Store!Returned, Store!WriteResult,
                Store!conditional_status_from_set_status
  <2> QED BY <1>1, <1>2, <1>4, <1>6, <2>1, OutcomeStep
        DEF WriteOutcomes, Outcomes, CacheSetStatus
<1> QED BY <1>5, <1>6 DEF EndWrite

\* A write of the store raises.
LEMMA WriteRaisesStep ==
    ASSUME NEW S \in SUBSET Rpcs, CallsInv(S), NEW r \in Rpcs, WriteRaises(r)
    PROVE  CallsInv(S)'
<1>1. /\ AtItem(r)
      /\ [cache EXCEPT ![pending.key] = None] \in [Keys -> Entry \cup {None}]
  BY WriteInProgress DEF WriteRaises
<1>2. /\ UNCHANGED <<rpc, queue, committed>> /\ caller' = None
      /\ Outcome(r, "Exception")
  BY DEF WriteRaises, Elsewhere
<1>3. pending' = None /\ clock' = clock /\ cache' \in [Keys -> Entry \cup {None}]
  BY <1>1 DEF WriteRaises, Store!Fail, Store!Without, CallsInv, StoreShape
<1>4. StoreShape'
  BY <1>2, <1>3 DEF CallsInv, StoreShape
<1> QED BY <1>1, <1>2, <1>4, OutcomeStep DEF WriteOutcomes, Outcomes

\* What the store does by itself concerns no call.
LEMMA StoreStepStep ==
    ASSUME NEW S \in SUBSET Rpcs, CallsInv(S), StoreStep
    PROVE  CallsInv(S)'
<1>1. UNCHANGED <<caller, rpc, job, queue, committed>>
  BY DEF StoreStep
<1>2. pending' = pending /\ clock' \in Nat /\ cache' \in [Keys -> Entry \cup {None}]
  BY DEF StoreStep, Store!Evict, Store!Expire, Store!Pass, Store!Without,
         CallsInv, StoreShape
<1>3. StoreShape'
  BY <1>1, <1>2 DEF CallsInv, StoreShape, AtItem, Current, Here, Items, Op
<1>4. Shape' /\ QueueShape'
  BY <1>1 DEF CallsInv, Shape, QueueShape
<1>5. ASSUME NEW s \in Rpcs PROVE InStep(s)' /\ Booked(s)' /\ (s \in S => Replied(s)')
  BY <1>1, OthersKept DEF CallsInv
<1> QED BY <1>1, <1>3, <1>4, <1>5 DEF CallsInv

\* A worker moves on, or the store does.
WorkerMoves ==
    \/ StartJob \/ StoreStep
    \/ \E r \in Rpcs : \/ InvalidItem(r) \/ StoreRaises(r) \/ CallStore(r)
                       \/ StartWrite(r) \/ EndWrite(r) \/ WriteRaises(r)
                       \/ EndJob(r)

\* No step of a worker disturbs CallsInv.
LEMMA WorkerStepsKeep ==
    ASSUME NEW S \in SUBSET Rpcs, CallsInv(S), WorkerMoves
    PROVE  CallsInv(S)' /\ UNCHANGED <<rpc, active_requests>>
<1>1. CallsInv(S)'
  BY StartJobStep, StoreStepStep, RaisedStep, CallStoreStep, StartWriteStep,
     EndWriteStep, WriteRaisesStep, EndJobStep DEF WorkerMoves
<1>2. UNCHANGED <<rpc, active_requests>>
  BY DEF WorkerMoves, StartJob, StoreStep, InvalidItem, StoreRaises, CallStore,
         StartWrite, EndWrite, WriteRaises, EndJob, Elsewhere
<1> QED BY <1>1, <1>2

\* A step of a handler: the store, the history and what is under way stay.
HandlersMove ==
    /\ UNCHANGED <<store, caller, committed>>
    /\ \A r \in Rpcs :
         /\ rpc[r].phase # "idle" => rpc'[r].request = rpc[r].request
         /\ job[r].pc = "running" => job'[r].outcomes = job[r].outcomes

\* What any step is to the store and to its callers, whoever else shares the pool.
CallsMove == WorkerMoves \/ HandlersMove

\* No call is there at the start.
LEMMA InitCallsInv ==
    ASSUME NEW S \in SUBSET Rpcs, Init
    PROVE  CallsInv(S) /\ Counted(S) /\ \A r \in Rpcs : rpc[r] = Idle
<1> USE DEF Init
<1>1. Shape
  <2>1. Idle \in Handlers
    <3>1. <<>> \in Seq([status : Codes, result : Outcomes])
      OBVIOUS
    <3> QED BY <3>1 DEF Idle, NoAnswer, Handlers, Phases, Replies, Codes
  <2>2. NoJob \in Jobs
    BY DEF NoJob, Jobs, Pcs
  <2> QED BY <2>1, <2>2 DEF Shape
<1>2. StoreShape
  BY DEF Store!Init, StoreShape
<1>3. QueueShape
  BY DEF QueueShape, IsInjective, ToSet
<1>4. ASSUME NEW r \in Rpcs PROVE InStep(r) /\ Booked(r) /\ Replied(r)
  BY DEF InStep, Booked, IsWrite, Replied, Idle, NoJob
<1>5. Counted(S)
  <2>1. WaitingIn(S) = {}
    BY DEF WaitingIn, Idle
  <2> QED BY <2>1, FS_EmptySet DEF Counted
<1> QED BY <1>1, <1>2, <1>3, <1>4, <1>5 DEF CallsInv

-----------------------------------------------------------------------------
(* The count of the active calls.                                          *)

\* One element more or less changes a cardinality by one.
LEMMA OneMore ==
    ASSUME NEW S \in SUBSET Rpcs, Counted(S), NEW r \in S,
           rpc[r].phase # "awaiting", rpc'[r].phase = "awaiting",
           \A s \in Rpcs : s # r => rpc'[s] = rpc[s],
           active_requests' = active_requests + 1
    PROVE  Counted(S)'
<1>1. WaitingIn(S)' = WaitingIn(S) \cup {r} /\ r \notin WaitingIn(S)
  BY DEF WaitingIn
<1> QED BY <1>1, FS_AddElement DEF Counted

\* max(..., 0) does not cut in.
LEMMA OneLess ==
    ASSUME NEW S \in SUBSET Rpcs, Counted(S), NEW r \in S,
           rpc[r].phase = "awaiting", rpc'[r].phase # "awaiting",
           \A s \in Rpcs : s # r => rpc'[s] = rpc[s],
           active_requests' = decrement
    PROVE  Counted(S)'
<1>1. WaitingIn(S)' = WaitingIn(S) \ {r} /\ r \in WaitingIn(S)
  BY DEF WaitingIn
<1>2. /\ IsFiniteSet(WaitingIn(S)') /\ Cardinality(WaitingIn(S)) \in Nat
      /\ Cardinality(WaitingIn(S)') = Cardinality(WaitingIn(S)) - 1
      /\ Cardinality(WaitingIn(S)') \in Nat
  BY <1>1, FS_RemoveElement, FS_CardinalityType DEF Counted
<1>3. decrement = Cardinality(WaitingIn(S)) - 1
  BY <1>2 DEF decrement, Counted
<1> QED BY <1>2, <1>3 DEF Counted

\* Calls outside of S, and calls that do not begin or end, leave it alone.
LEMMA NoneMore ==
    ASSUME NEW S \in SUBSET Rpcs, Counted(S), UNCHANGED active_requests,
           \A s \in S : rpc'[s].phase = "awaiting" <=> rpc[s].phase = "awaiting"
    PROVE  Counted(S)'
<1>1. WaitingIn(S)' = WaitingIn(S)
  BY DEF WaitingIn
<1> QED BY <1>1 DEF Counted

-----------------------------------------------------------------------------
(* The steps of a call of the servicer.                                    *)

\* What a handler answers is made of the results of its own job.
LEMMA AnswerToIsReply ==
    ASSUME NEW S \in SUBSET Rpcs, CallsInv(S), NEW r \in Rpcs, job[r].pc = "done"
    PROVE  AnswerTo(r) \in Replies
<1>1. /\ job[r].outcomes \in Seq(Outcomes) /\ rpc[r].request \in Requests
      /\ Len(job[r].outcomes) = Len(Items(r))
  BY DEF CallsInv, Shape, Jobs, InStep
<1>2. ASSUME NEW o PROVE map_status(o) \in Codes
  BY DEF map_status, Codes
<1> DEFINE answer(i) == [status |-> map_status(job[r].outcomes[i]), result |-> job[r].outcomes[i]]
<1>3. \A i \in DOMAIN job[r].outcomes : answer(i) \in [status : Codes, result : Outcomes]
  BY <1>1, <1>2
<1> HIDE DEF answer
<1>4. [i \in DOMAIN job[r].outcomes |-> answer(i)] \in Seq([status : Codes, result : Outcomes])
  <2>1. PICK n \in Nat : DOMAIN job[r].outcomes = 1 .. n
    BY <1>1
  <2>2. [i \in 1 .. n |-> answer(i)] \in Seq([status : Codes, result : Outcomes])
    BY <1>3, <2>1, IsASeq
  <2> QED BY <2>1, <2>2
<1> QED BY <1>2, <1>4 DEF AnswerTo, Replies, Codes, answer

\* A call is accepted and counted.
LEMMA BeginStep ==
    ASSUME NEW S \in SUBSET Rpcs, CallsInv(S), Counted(S), NEW r \in S,
           NEW q \in Requests, Begin(r, q)
    PROVE  /\ CallsInv(S)' /\ Counted(S)'
           /\ rpc'[r].request = q
           /\ \A s \in Rpcs : s # r => rpc'[s] = rpc[s]
<1>1. /\ rpc' \in [Rpcs -> Handlers]
      /\ rpc'[r].phase = "awaiting" /\ rpc'[r].request = q
      /\ \A s \in Rpcs : s # r => rpc'[s] = rpc[s]
  <2>1. NoAnswer \in Replies
    <3>1. <<>> \in Seq([status : Codes, result : Outcomes])
      OBVIOUS
    <3> QED BY <3>1 DEF NoAnswer, Replies, Codes
  <2>2. [phase |-> "awaiting", request |-> q, answer |-> NoAnswer] \in Handlers
    BY <2>1 DEF Handlers, Phases
  <2> QED BY <2>2 DEF Begin, CallsInv, Shape
<1>2. CallsInv(S)'
  BY <1>1, EnqueueStep DEF Begin
<1>3. Counted(S)'
  BY <1>1, OneMore DEF Begin
<1> QED BY <1>1, <1>2, <1>3

\* A call with a bad namespace is answered at once.
LEMMA RejectNamespaceStep ==
    ASSUME NEW S \in SUBSET Rpcs, CallsInv(S), Counted(S), NEW r \in S,
           NEW q \in Requests, RejectNamespace(r, q)
    PROVE  /\ CallsInv(S)' /\ Counted(S)'
           /\ rpc'[r].request = q
           /\ \A s \in Rpcs : s # r => rpc'[s] = rpc[s]
<1> DEFINE a == [code |-> "INVALID_ARGUMENT", items |-> <<>>]
<1>1. a \in Replies
  <2>1. <<>> \in Seq([status : Codes, result : Outcomes])
    OBVIOUS
  <2> QED BY <2>1 DEF Replies, Codes
<1>2. /\ rpc' \in [Rpcs -> Handlers]
      /\ rpc'[r].phase = "answered" /\ rpc'[r].request = q /\ rpc'[r].answer = a
      /\ \A s \in Rpcs : s # r => rpc'[s] = rpc[s]
  <2>1. [phase |-> "answered", request |-> q, answer |-> a] \in Handlers
    BY <1>1 DEF Handlers, Phases
  <2> HIDE DEF a
  <2> QED BY <2>1 DEF RejectNamespace, CallsInv, Shape, a
<1>3. CallsInv(S)'
  BY <1>2, RefuseStep DEF RejectNamespace
<1>4. Counted(S)'
  BY <1>2, NoneMore DEF RejectNamespace
<1> QED BY <1>2, <1>3, <1>4

\* A call is answered and no longer counted.
LEMMA AnswerStep ==
    ASSUME NEW S \in SUBSET Rpcs, CallsInv(S), Counted(S), NEW r \in S, Answer(r)
    PROVE  /\ CallsInv(S)' /\ Counted(S)'
           /\ rpc'[r].request = rpc[r].request
           /\ \A s \in Rpcs : s # r => rpc'[s] = rpc[s]
<1>1. AnswerTo(r) \in Replies
  BY AnswerToIsReply DEF Answer
<1>2. /\ rpc' \in [Rpcs -> Handlers]
      /\ rpc'[r].phase = "answered" /\ rpc'[r].request = rpc[r].request
      /\ rpc'[r].answer = AnswerTo(r)
      /\ \A s \in Rpcs : s # r => rpc'[s] = rpc[s]
  BY <1>1, AnswerUpdate DEF Answer, CallsInv
<1>3. CallsInv(S)'
  BY <1>2, ReturnStep DEF Answer
<1>4. Counted(S)'
  BY <1>2, OneLess DEF Answer
<1> QED BY <1>2, <1>3, <1>4

\* A call is cancelled; its job may go on.
LEMMA CancelCallStep ==
    ASSUME NEW S \in SUBSET Rpcs, CallsInv(S), Counted(S), NEW r \in S, Cancel(r)
    PROVE  /\ CallsInv(S)' /\ Counted(S)'
           /\ rpc'[r].phase = "cancelled" /\ rpc'[r].request = rpc[r].request
           /\ \A s \in Rpcs : s # r => rpc'[s] = rpc[s]
<1>1. /\ rpc'[r].phase = "cancelled" /\ rpc'[r].request = rpc[r].request
      /\ \A s \in Rpcs : s # r => rpc'[s] = rpc[s]
  BY PhaseUpdate DEF Cancel, CallsInv, Phases
<1>2. CallsInv(S)'
  BY CancelStep DEF Cancel
<1>3. Counted(S)'
  BY <1>1, OneLess DEF Cancel
<1> QED BY <1>1, <1>2, <1>3

-----------------------------------------------------------------------------
(* The invariant of GrpcService, and what follows from it.                 *)

GInv ==
    /\ CallsInv(Rpcs) /\ Counted(Rpcs)
    /\ \A r \in Rpcs : rpc[r].phase # "idle" => rpc[r].request # None

\* The inductive invariant holds at the start,
LEMMA InitGInv == Init => GInv
<1> SUFFICES ASSUME Init PROVE GInv
  OBVIOUS
<1>1. CallsInv(Rpcs) /\ Counted(Rpcs) /\ \A r \in Rpcs : rpc[r] = Idle
  BY InitCallsInv
<1> QED BY <1>1 DEF GInv, Idle

\* and every step keeps it.
LEMMA NextGInv == GInv /\ [Next]_vars => GInv'
<1> SUFFICES ASSUME GInv, [Next]_vars PROVE GInv'
  OBVIOUS
<1> USE DEF GInv
<1>1. ASSUME NEW r \in Rpcs, NEW q \in Requests, Begin(r, q) \/ RejectNamespace(r, q)
      PROVE  GInv'
  <2>1. /\ CallsInv(Rpcs)' /\ Counted(Rpcs)' /\ rpc'[r].request = q
        /\ \A s \in Rpcs : s # r => rpc'[s] = rpc[s]
    BY <1>1, BeginStep, RejectNamespaceStep
  <2> QED BY <2>1, RequestsAssumption
<1>2. ASSUME NEW r \in Rpcs, Answer(r) \/ Cancel(r) PROVE GInv'
  <2>1. /\ CallsInv(Rpcs)' /\ Counted(Rpcs)' /\ rpc'[r].request = rpc[r].request
        /\ \A s \in Rpcs : s # r => rpc'[s] = rpc[s]
    BY <1>2, AnswerStep, CancelCallStep
  <2>2. rpc[r].phase # "idle"
    BY <1>2 DEF Answer, Cancel
  <2> QED BY <2>1, <2>2
<1>3. CASE WorkerMoves
  <2>1. CallsInv(Rpcs)' /\ UNCHANGED <<rpc, active_requests>>
    BY <1>3, WorkerStepsKeep
  <2>2. Counted(Rpcs)'
    BY <2>1, NoneMore
  <2> QED BY <2>1, <2>2
<1>4. CASE UNCHANGED vars
  <2>1. CallsInv(Rpcs)'
    BY <1>4 DEF vars, store, CallsInv, Shape, StoreShape, QueueShape, InStep, Booked,
                IsWrite, Replied, AnswerTo, AtItem, Current, Here, Items, Op
  <2>2. Counted(Rpcs)'
    BY <1>4 DEF vars, Counted, WaitingIn
  <2> QED BY <1>4, <2>1, <2>2 DEF vars
<1> QED BY <1>1, <1>2, <1>3, <1>4 DEF Next, WorkerMoves

\* Every step is one of a worker or one of a handler.
LEMMA NextCallsMove == GInv /\ [Next]_vars => CallsMove
<1> SUFFICES ASSUME GInv, [Next]_vars, ~WorkerMoves PROVE HandlersMove
  BY DEF CallsMove
<1> USE DEF GInv
<1>1. ASSUME NEW r \in Rpcs, NEW q \in Requests, Begin(r, q) \/ RejectNamespace(r, q)
      PROVE  HandlersMove
  <2>1. rpc[r].phase = "idle" /\ \A s \in Rpcs : s # r => rpc'[s] = rpc[s]
    BY <1>1, BeginStep, RejectNamespaceStep DEF Begin, RejectNamespace
  <2>2. \A s \in Rpcs : job'[s].outcomes = job[s].outcomes
    <3>1. CASE Begin(r, q)
      BY <3>1, PcUpdate DEF Begin, CallsInv, Pcs
    <3>2. CASE RejectNamespace(r, q)
      BY <3>2 DEF RejectNamespace
    <3> QED BY <1>1, <3>1, <3>2
  <2> QED BY <1>1, <2>1, <2>2 DEF HandlersMove, Begin, RejectNamespace
<1>2. ASSUME NEW r \in Rpcs, Answer(r) \/ Cancel(r) PROVE HandlersMove
  <2>1. rpc'[r].request = rpc[r].request /\ \A s \in Rpcs : s # r => rpc'[s] = rpc[s]
    BY <1>2, AnswerStep, CancelCallStep
  <2>2. \A s \in Rpcs : job'[s].outcomes = job[s].outcomes
    BY <1>2 DEF Answer, Cancel, CallsInv, Shape, Jobs
  <2> QED BY <1>2, <2>1, <2>2 DEF HandlersMove, Answer, Cancel
<1>3. CASE UNCHANGED vars
  BY <1>3 DEF vars, store, HandlersMove
<1> QED BY <1>1, <1>2, <1>3 DEF Next, WorkerMoves

\* How far a handler, its job, the queue of the pool, the write in progress and
\* the history of the store may be apart, in every reachable state.
THEOREM CallsInvariance == Spec => []GInv
<1> QED BY InitGInv, NextGInv, PTL DEF Spec

\* ActiveRequests counts every call once on its way in and once on its way out,
\* whichever way that is: the gauge is exact for any number of calls.
THEOREM ActiveCountExact == Spec => []ActiveExact
<1>1. GInv => ActiveExact
  BY DEF GInv, Counted, WaitingIn, ActiveExact
<1> QED BY <1>1, CallsInvariance, PTL

\* The answer of a batch has a result for each item, whatever failed.
THEOREM AnswersAreComplete == Spec => []AnswersComplete
<1>1. ASSUME GInv, NEW r \in Rpcs, Answered(r), rpc[r].answer.code # "INVALID_ARGUMENT"
      PROVE  Len(rpc[r].answer.items) = Len(Items(r))
  <2>1. job[r].pc = "done" /\ rpc[r].answer = AnswerTo(r)
    BY <1>1 DEF GInv, CallsInv, Replied, Answered
  <2>2. /\ Len(job[r].outcomes) = Len(Items(r))
        /\ job[r].outcomes \in Seq(Outcomes)
    BY <1>1, <2>1 DEF GInv, CallsInv, InStep, Shape, Jobs
  <2>3. Len([i \in DOMAIN job[r].outcomes |->
               [status |-> map_status(job[r].outcomes[i]),
                result |-> job[r].outcomes[i]]]) = Len(job[r].outcomes)
    BY <2>2
  <2> QED BY <2>1, <2>2, <2>3 DEF AnswerTo
<1>2. GInv => AnswersComplete
  BY <1>1 DEF AnswersComplete
<1> QED BY <1>2, CallsInvariance, PTL

\* What the answer to a call says of a write is what the store has done with it.
LEMMA AnswerIsTruthful ==
    ASSUME NEW S \in SUBSET Rpcs, CallsInv(S), NEW r \in S, rpc[r].request # None,
           Answered(r), Op(r) \in WriteOps, NEW i \in DOMAIN rpc[r].answer.items
    PROVE  ToldStored(r, i) <=> <<r, i>> \in committed
<1>1. r \in Rpcs /\ IsWrite(r) /\ Booked(r) /\ Replied(r)
  BY DEF CallsInv, IsWrite
<1>2. job[r].pc = "done" /\ rpc[r].answer = AnswerTo(r)
  BY <1>1 DEF Replied, Answered, IsWrite
<1>3. /\ i \in DOMAIN job[r].outcomes
      /\ rpc[r].answer.items[i].status = map_status(job[r].outcomes[i])
      /\ rpc[r].answer.items[i].result = job[r].outcomes[i]
  BY <1>2 DEF AnswerTo
<1>4. job[r].outcomes[i] \in WriteOutcomes(Op(r)) /\ i \in Nat
  <2>1. DOMAIN job[r].outcomes \subseteq Nat
    BY <1>1 DEF CallsInv, Shape, Jobs
  <2> QED BY <1>1, <1>3, <2>1 DEF Booked
<1>5. ToldStored(r, i) <=> job[r].outcomes[i] \in {"OK", "STORED"}
  BY <1>3, <1>4 DEF ToldStored, map_status, WriteOutcomes, Refusals
<1> QED BY <1>1, <1>3, <1>4, <1>5 DEF Booked

\* A client that is told what became of its writes is told the truth.
THEOREM AnswersAreTruthful == Spec => []StatusTruthful
<1>1. ASSUME GInv, NEW r \in Rpcs, Answered(r), rpc[r].request # None,
             Op(r) \in WriteOps, NEW i \in DOMAIN rpc[r].answer.items
      PROVE  ToldStored(r, i) <=> <<r, i>> \in committed
  BY <1>1, AnswerIsTruthful DEF GInv
<1>2. GInv => StatusTruthful
  BY <1>1 DEF StatusTruthful
<1> QED BY <1>2, CallsInvariance, PTL

\* Only the end of a write adds to the history.
LEMMA EffectInScope ==
    ASSUME NEW S \in SUBSET Rpcs, CallsInv(S), CallsMove, NEW c \in committed' \ committed
    PROVE  \/ rpc[c[1]].phase = "awaiting"
           \/ rpc[c[1]].phase = "cancelled" /\ job[c[1]].pc = "running"
<1>1. PICK r \in Rpcs : EndWrite(r)
  <2>1. ~UNCHANGED committed
    OBVIOUS
  <2> QED BY <2>1 DEF CallsMove, WorkerMoves, HandlersMove, InvalidItem, StoreRaises,
             CallStore, StartWrite, WriteRaises, EndJob, StartJob, StoreStep
<1>2. c = <<r, Here(r)>> /\ caller = r
  BY <1>1 DEF EndWrite
<1>3. AtItem(r)
  BY <1>2, WriteInProgress
<1> QED BY <1>2, <1>3, AtAnItem

\* A write is stored while its call waits or, when the call was cancelled, by the
\* worker that had it; never after the answer.
THEOREM EffectsStayInScope == Spec => EffectsInScope
<1> DEFINE Scoped(c) == \/ rpc[c[1]].phase = "awaiting"
                        \/ rpc[c[1]].phase = "cancelled" /\ job[c[1]].pc = "running"
<1>1. ASSUME GInv, [Next]_vars, NEW c \in committed' \ committed PROVE Scoped(c)
  BY <1>1, NextCallsMove, EffectInScope DEF GInv
<1>2. GInv /\ [Next]_vars => [\A c \in committed' \ committed : Scoped(c)]_vars
  BY <1>1
<1> QED BY <1>2, CallsInvariance, PTL DEF Spec, EffectsInScope

-----------------------------------------------------------------------------
(* The servicer as a client of the store.                                  *)

\* What a worker asks the store for is a call of the contract,
LEMMA CallStoreIsCall ==
    ASSUME NEW S \in SUBSET Rpcs, CallsInv(S), NEW r \in Rpcs, CallStore(r)
    PROVE  Store!Next
<1> DEFINE item == Current(r)
<1>1. item.expected \in Values /\ (Op(r) # "Stats" => item.key \in Keys)
  BY ValidItem DEF CallStore
<1>2. CASE Op(r) \in {"Get", "MultiGet"}
  <2>1. item.key \in Keys /\ Store!Get(item.key)
    BY <1>1, <1>2 DEF CallStore
  <2> QED BY <2>1, Zenon DEF Store!Next
<1>3. CASE Op(r) \in {"Delete", "MultiDelete"}
  <2>1. item.key \in Keys /\ Store!Delete(item.key)
    BY <1>1, <1>3 DEF CallStore
  <2> QED BY <2>1, Zenon DEF Store!Next
<1>4. CASE Op(r) = "Stats"
  <2>1. Store!Stats
    BY <1>4 DEF CallStore
  <2> QED BY <2>1, Zenon DEF Store!Next
<1>5. CASE Op(r) = "SetIfAbsent"
  <2>1. item.key \in Keys /\ Store!RefuseSetIfAbsent(item.key)
    BY <1>1, <1>5 DEF CallStore
  <2> QED BY <2>1, Zenon DEF Store!Next
<1>6. CASE Op(r) = "CompareAndSet"
  <2>1. item.key \in Keys /\ Store!RefuseCompareAndSet(item.key, item.expected)
    BY <1>1, <1>6 DEF CallStore
  <2> QED BY <1>1, <2>1, Zenon DEF Store!Next
<1> QED BY <1>2, <1>3, <1>4, <1>5, <1>6 DEF CallStore

\* and so is the start of a write, which is then in progress.
LEMMA StartWriteIsCall ==
    ASSUME NEW S \in SUBSET Rpcs, CallsInv(S), NEW r \in Rpcs, StartWrite(r)
    PROVE  Store!Next /\ pending' # None
<1> DEFINE item == Current(r)
<1>1. /\ item.value \in Values /\ item.ttl \in Ttls /\ item.expected \in Values
      /\ Op(r) # "Stats" => item.key \in Keys
  BY ValidItem DEF StartWrite
<1>2. clock \in Nat
  BY DEF CallsInv, StoreShape
<1> HIDE DEF item
<1>3. ASSUME NEW op \in {"set", "set_if_absent", "compare_and_set"},
             NEW e \in Values \cup {None}, item.key \in Keys,
             Store!Start(op, item.key, e, item.value, item.ttl)
      PROVE  pending' # None
  <2>1. PICK entry \in Entry : entry = Store!CacheEntry(item.value, item.ttl, clock)
    BY <1>1, <1>2, CacheEntryType
  <2>2. pending' = [op |-> op, key |-> item.key, entry |-> entry, expected |-> e]
    BY <1>3, <2>1, Zenon DEF Store!Start
  <2>3. pending' \in PendingWrite
    BY <1>3, <2>2 DEF PendingWrite
  <2> QED BY <2>3, NoneIsNoWrite
<1>4. CASE Op(r) \in {"Set", "MultiSet"}
  <2>1. item.key \in Keys /\ Store!StartSet(item.key, item.value, item.ttl)
    BY <1>1, <1>4 DEF StartWrite, item
  <2>2. Store!Next
    BY <1>1, <2>1, Zenon DEF Store!Next
  <2> QED BY <1>3, <2>1, <2>2 DEF Store!StartSet
<1>5. CASE Op(r) = "SetIfAbsent"
  <2>1. item.key \in Keys /\ Store!StartSetIfAbsent(item.key, item.value, item.ttl)
    BY <1>1, <1>5 DEF StartWrite, item
  <2>2. Store!Next
    BY <1>1, <2>1, Zenon DEF Store!Next
  <2> QED BY <1>3, <2>1, <2>2 DEF Store!StartSetIfAbsent
<1>6. CASE Op(r) = "CompareAndSet"
  <2>1. /\ item.key \in Keys
        /\ Store!StartCompareAndSet(item.key, item.expected, item.value, item.ttl)
    BY <1>1, <1>6 DEF StartWrite, item
  <2>2. Store!Next
    BY <1>1, <2>1, Zenon DEF Store!Next
  <2> QED BY <1>1, <1>3, <2>1, <2>2 DEF Store!StartCompareAndSet
<1> QED BY <1>4, <1>5, <1>6 DEF StartWrite

\* Every step is one call of the store, a step of its own, or none.
LEMMA StepsAreCalls ==
    ASSUME NEW S \in SUBSET Rpcs, CallsInv(S), CallsMove
    PROVE  [Store!Next]_(Store!cvars)
<1>1. ASSUME NEW r \in Rpcs, CallStore(r) \/ StartWrite(r) PROVE Store!Next
  BY <1>1, CallStoreIsCall, StartWriteIsCall
<1>2. ASSUME NEW r \in Rpcs, EndWrite(r) \/ WriteRaises(r) PROVE Store!Next
  BY <1>2, Zenon DEF EndWrite, WriteRaises, Store!Next
<1>3. CASE StoreStep
  BY <1>3, Zenon DEF StoreStep, Store!Next
<1>4. CASE UNCHANGED store
  BY <1>4 DEF store, Store!cvars
<1> QED BY <1>1, <1>2, <1>3, <1>4 DEF CallsMove, WorkerMoves, HandlersMove,
           InvalidItem, StoreRaises, EndJob, StartJob

\* The servicer is a client of the contract: whatever its calls, cancellations
\* and failures, the store sees nothing but calls that CacheContract describes,
\* one at a time.  MemoryStore and SqliteStore keep that contract.
THEOREM StoreUsedByContract == Spec => Store!Spec
<1>1. Init => Store!Init
  BY DEF Init
<1>2. GInv /\ [Next]_vars => [Store!Next]_(Store!cvars)
  BY NextCallsMove, StepsAreCalls DEF GInv
<1> QED BY <1>1, <1>2, CallsInvariance, PTL DEF Spec, Store!Spec

\* The lock of the store has an owner exactly while a write is in progress.
WriteHeld == caller # None => pending # None

\* Only the worker that began a write ends it.
LEMMA WriteHeldKept == GInv /\ WriteHeld /\ [Next]_vars => WriteHeld'
<1> SUFFICES ASSUME GInv, WriteHeld, [Next]_vars PROVE WriteHeld'
  OBVIOUS
<1>1. CallsInv(Rpcs) /\ Rpcs \in SUBSET Rpcs
  BY DEF GInv
<1>2. ASSUME NEW r \in Rpcs, StartWrite(r) PROVE WriteHeld'
  BY <1>1, <1>2, StartWriteIsCall DEF WriteHeld
<1>3. ASSUME NEW r \in Rpcs, EndWrite(r) \/ WriteRaises(r) PROVE WriteHeld'
  BY <1>3 DEF EndWrite, WriteRaises, WriteHeld
<1>4. ASSUME NEW r \in Rpcs, CallStore(r) PROVE WriteHeld'
  <2>1. caller' = caller /\ caller = None
    BY <1>4 DEF CallStore, Valid
  <2> QED BY <2>1 DEF WriteHeld
<1>5. CASE StoreStep
  BY <1>5 DEF StoreStep, Store!Evict, Store!Expire, Store!Pass, WriteHeld
<1>6. CASE UNCHANGED <<store, caller>>
  BY <1>6 DEF store, WriteHeld
<1> QED BY <1>2, <1>3, <1>4, <1>5, <1>6 DEF Next, vars, Begin, RejectNamespace, Answer,
           Cancel, InvalidItem, StoreRaises, EndJob, StartJob

\* Handlers, jobs and the queue of the pool keep their types, and the store has
\* a write in progress exactly while some call owns it.
THEOREM CallsTypeCorrect == Spec => []TypeOK
<1>1. Init => WriteHeld
  BY DEF Init, WriteHeld
<1>2. GInv /\ WriteHeld => TypeOK
  <2> SUFFICES ASSUME GInv, WriteHeld PROVE TypeOK
    OBVIOUS
  <2> USE DEF GInv, CallsInv
  <2>1. caller \in Rpcs \cup {None} /\ (caller = None <=> pending = None)
    BY DEF StoreShape, WriteHeld
  <2>2. ASSUME NEW r \in Rpcs
        PROVE  /\ rpc[r].phase \in Phases /\ rpc[r].request \in Requests \cup {None}
               /\ job[r].pc \in Pcs /\ job[r].outcomes \in Seq(Outcomes)
    BY DEF Shape, Handlers, Jobs
  <2>3. queue \in Seq(Rpcs) /\ committed \subseteq Rpcs \X Nat
    BY DEF QueueShape
  <2>4. active_requests \in Nat
    BY FS_CardinalityType DEF Counted
  <2> QED BY <2>1, <2>2, <2>3, <2>4 DEF TypeOK, Phases, Pcs
<1> QED BY <1>1, <1>2, WriteHeldKept, CallsInvariance, PTL DEF Spec
=============================================================================
