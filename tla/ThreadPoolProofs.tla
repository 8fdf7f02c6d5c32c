-------------------------- MODULE ThreadPoolProofs --------------------------
(***************************************************************************)
(* For every number of workers and every set of requests: the thread pool  *)
(* keeps its types, slow I/O never takes more than its half of the pool,   *)
(* the workers never all sleep on runnable work (the invariant IInv); the  *)
(* pool loses, doubles and misreports no request, loses no wake-up, and    *)
(* implements the abstract life of the requests, module WorkRequests (the  *)
(* invariant PInv, which rests on IInv).                                   *)
(***************************************************************************)
EXTENDS ThreadPool, FiniteSetTheorems, TLAPS

\* Workers inside uv_cond_wait(), signalled or not.
Sleepers == {t \in Workers : pc[t] \in {"waiting", "woken"}}

\* idle_threads counts them, so that a signal is skipped only for nobody.
IdleCount == idle_threads = Cardinality(Sleepers)

\* What the worker's place says about its job, its slow mark and the mutex.
Phases ==
  /\ \A t \in Workers : pc[t] \in {"work", "finish"} <=> job[t] # None
  /\ \A t \in is_slow_work : pc[t] \in {"work", "finish", "lock"}
  /\ \A t \in Workers : pc[t] = "top" <=> mutex = t
  /\ call # "none" => arg # None

\* Workers that will look at the queue before they sleep or leave.
Active == {t \in Workers : pc[t] \in {"lock", "top", "woken", "work", "finish"}}

\* Not everybody sleeps while there is something to do.
SomeoneAwake == (\E t \in Workers : pc[t] = "waiting") /\ ~MustWait => Active # {}

IInv == TypeOK /\ Phases /\ IdleCount /\ SlowBound /\ SomeoneAwake

-----------------------------------------------------------------------------
(* Lemmas about the helpers.                                               *)

\* The threshold is a number of workers.
LEMMA ThresholdNat == slow_work_thread_threshold \in Nat
BY FS_CardinalityType, ConstantsAssumption DEF slow_work_thread_threshold

\* A signal moves at most one waiter, and one if there is one.
LEMMA SignalFacts ==
  ASSUME NEW p \in [Workers -> WorkerPcs], NEW q \in cond_signal(p)
  PROVE  /\ q \in [Workers -> WorkerPcs]
         /\ \A t \in Workers : q[t] = p[t] \/ (p[t] = "waiting" /\ q[t] = "woken")
         /\ (\E t \in Workers : p[t] = "waiting") => \E t \in Workers : q[t] = "woken"
  <1> DEFINE waiting == {t \in Workers : p[t] = "waiting"}
  <1>1. CASE waiting = {}
    BY <1>1 DEF cond_signal
  <1>2. CASE waiting # {}
    BY <1>2 DEF cond_signal, WorkerPcs
  <1> QED
    BY <1>1, <1>2

\* The same for a signal that is skipped when nobody is idle.
LEMMA SignalIfIdleFacts ==
  ASSUME NEW p \in [Workers -> WorkerPcs], NEW q \in SignalIfIdle(p)
  PROVE  /\ q \in [Workers -> WorkerPcs]
         /\ \A t \in Workers : q[t] = p[t] \/ (p[t] = "waiting" /\ q[t] = "woken")
         /\ (\E t \in Workers : p[t] = "waiting") /\ idle_threads > 0
              => \E t \in Workers : q[t] = "woken"
  BY SignalFacts DEF SignalIfIdle

\* A non-empty set of sleepers is counted as non-zero.
LEMMA IdlePositive ==
  ASSUME IInv, NEW t \in Workers, pc[t] \in {"waiting", "woken"}
  PROVE  idle_threads > 0
BY FS_Subset, ConstantsAssumption, FS_CardinalityType, FS_EmptySet DEF Sleepers, IInv, IdleCount

\* QUEUE_INSERT_TAIL keeps the type of a queue.
LEMMA AppendType ==
  ASSUME NEW S, NEW q \in Seq(S), NEW x \in S
  PROVE  Append(q, x) \in Seq(S)
  OBVIOUS

\* So does taking its head off.
LEMMA TailType ==
  ASSUME NEW S, NEW q \in Seq(S), q # <<>>
  PROVE  Tail(q) \in Seq(S)
  OBVIOUS

\* QUEUE_REMOVE keeps the type of a queue.
LEMMA RemoveNodeType ==
  ASSUME NEW S, NEW q \in Seq(S), NEW i \in DOMAIN q
  PROVE  RemoveNode(q, i) \in Seq(S)
BY DEF RemoveNode

-----------------------------------------------------------------------------
\* The pool before its first request.
LEMMA InitIInv == Init => IInv
  <1> SUFFICES ASSUME Init PROVE IInv
    OBVIOUS
  <1> USE ConstantsAssumption
  <1>1. TypeOK
    <2>1. WorkerTypeOK
      BY DEF Init, WorkerTypeOK, WorkerPcs
    <2>2. PoolTypeOK
      BY DEF Init, PoolTypeOK
    <2>3. LoopTypeOK
      <3>1. /\ work \in [Reqs -> {"none", "set", "null", "cancelled"}]
            /\ outcome \in [Reqs -> {"none", "ok", "ECANCELED"}]
        BY DEF Init
      <3>2. raised \in BOOLEAN
        BY DEF Init
      <3> QED
        BY <3>1, <3>2 DEF Init, LoopTypeOK
    <2> QED
      BY <2>1, <2>2, <2>3 DEF TypeOK
  <1>2. Phases
    BY DEF Init, Phases
  <1>3. Sleepers = {} /\ SomeoneAwake
    BY DEF Init, Sleepers, SomeoneAwake
  <1>4. IdleCount
    BY <1>3, FS_EmptySet DEF Init, IdleCount
  <1>5. SlowBound
    BY FS_EmptySet, ThresholdNat DEF Init, SlowBound, Reqs
  <1> QED
    BY <1>1, <1>2, <1>3, <1>4, <1>5 DEF IInv

-----------------------------------------------------------------------------
(* One lemma per part of the invariant, one case per action.               *)

\* A step of worker t.
WorkerStep(t) ==
  Acquire(t) \/ HoldsMutex(t) \/ RunWork(t) \/ HandOver(t) \/ SpuriousWakeup(t)

\* Steps of the loop thread that touch neither the workers nor their counters.
LoopOnly ==
  \/ \E r \in Reqs : CancelRemove(r)
  \/ CancelInsert \/ WorkDone \/ ThreadsJoined \/ Terminated \/ UNCHANGED vars

\* Every step is one of four kinds.
LEMMA StepKinds ==
  ASSUME [Next]_vars
  PROVE  \/ \E t \in Workers : WorkerStep(t)
         \/ \E r \in Reqs : uv__work_submit(r)
         \/ post \/ uv__threadpool_cleanup
         \/ LoopOnly
  BY DEF Next, WorkerStep, LoopOnly

\* The loop thread alone leaves the workers and the counters as they are.
LEMMA LoopOnlyFrame ==
  ASSUME LoopOnly
  PROVE  UNCHANGED <<pc, job, is_slow_work, mutex, idle_threads, slow_io_work_running>>
  <1> USE DEF workerVars, poolVars
  <1>1. ASSUME NEW r \in Reqs, CancelRemove(r)
        PROVE  UNCHANGED <<pc, job, is_slow_work, mutex, idle_threads, slow_io_work_running>>
    BY <1>1 DEF CancelRemove
  <1>2. CASE CancelInsert
    BY <1>2 DEF CancelInsert
  <1>3. CASE WorkDone
    BY <1>3 DEF WorkDone, WorkDoneStart, WorkDoneNext, CallbackReturn, WorkDoneEnd
  <1>4. CASE ThreadsJoined \/ Terminated \/ UNCHANGED vars
    BY <1>4 DEF ThreadsJoined, Terminated, vars
  <1> QED
    BY <1>1, <1>2, <1>3, <1>4 DEF LoopOnly

\* post() and uv__threadpool_cleanup() move at most one waiter.
LEMMA PostFrame ==
  ASSUME IInv, post \/ uv__threadpool_cleanup
  PROVE  /\ UNCHANGED <<job, is_slow_work, mutex, idle_threads, slow_io_work_running>>
         /\ pc' \in [Workers -> WorkerPcs]
         /\ \A t \in Workers : pc'[t] = pc[t] \/ (pc[t] = "waiting" /\ pc'[t] = "woken")
         /\ \/ wq' = wq
            \/ (\E t \in Workers : pc[t] = "waiting") => \E t \in Workers : pc'[t] = "woken"
BY SignalIfIdleFacts, IdlePositive DEF IInv, TypeOK, WorkerTypeOK, post, uv__threadpool_cleanup,
   PostNode

\* What a step of worker t does to the places of the workers.
LEMMA WorkerPcStep ==
  ASSUME IInv, NEW t \in Workers, WorkerStep(t)
  PROVE  /\ pc' \in [Workers -> WorkerPcs]
         /\ \A u \in Workers \ {t} :
              pc'[u] = pc[u] \/ (pc[u] = "waiting" /\ pc'[u] = "woken")
  <1>1. pc \in [Workers -> WorkerPcs]
    BY DEF IInv, TypeOK, WorkerTypeOK
  <1>2. CASE \E v \in WorkerPcs : pc' = [pc EXCEPT ![t] = v]
    BY <1>1, <1>2
  <1>3. ASSUME NEW v \in WorkerPcs, pc' \in cond_signal([pc EXCEPT ![t] = v])
        PROVE  /\ pc' \in [Workers -> WorkerPcs]
               /\ \A u \in Workers \ {t} :
                    pc'[u] = pc[u] \/ (pc[u] = "waiting" /\ pc'[u] = "woken")
    <2> DEFINE p == [pc EXCEPT ![t] = v]
    <2>1. p \in [Workers -> WorkerPcs] /\ \A u \in Workers \ {t} : p[u] = pc[u]
      BY <1>1
    <2>2. pc' \in cond_signal(p)
      BY <1>3
    <2> HIDE DEF p
    <2>3. /\ pc' \in [Workers -> WorkerPcs]
          /\ \A u \in Workers : pc'[u] = p[u] \/ (p[u] = "waiting" /\ pc'[u] = "woken")
      BY <2>1, <2>2, SignalFacts
    <2> QED
      BY <2>1, <2>3
  <1>4. \/ \E v \in WorkerPcs : pc' = [pc EXCEPT ![t] = v]
        \/ \E v \in WorkerPcs : pc' \in cond_signal([pc EXCEPT ![t] = v])
        \/ pc' = pc
    BY DEF WorkerStep, Acquire, HoldsMutex, Lock, CondWait, SpuriousWakeup,
           CondWaitReturn, TakeExit, RequeueSlow, DropSlowMessage, TakeSlow, TakeFast,
           RunWork, HandOver, SignalIfIdle, WorkerPcs, workerVars
  <1> QED
    BY <1>1, <1>2, <1>3, <1>4

\* The part of a worker's step that is about the job and the mutex.
LEMMA WorkerTypeStep == ASSUME IInv, [Next]_vars PROVE WorkerTypeOK'
  <1> USE DEF WorkerTypeOK, IInv, TypeOK
  <1>1. ASSUME NEW t \in Workers, WorkerStep(t) PROVE WorkerTypeOK'
    <2>1. pc' \in [Workers -> WorkerPcs]
      BY <1>1, WorkerPcStep
    <2>2. CASE Lock(t) \/ CondWait(t) \/ SpuriousWakeup(t) \/ CondWaitReturn(t)
               \/ TakeExit(t) \/ RequeueSlow(t) \/ DropSlowMessage(t) \/ RunWork(t)
               \/ HandOver(t)
      BY <2>1, <2>2 DEF Lock, CondWait, SpuriousWakeup, CondWaitReturn, TakeExit,
                        RequeueSlow, DropSlowMessage, RunWork, HandOver, workerVars
    <2>3. CASE TakeSlow(t)
      <3>1. Head(slow_io_pending_wq) \in Reqs
        BY <2>3 DEF TakeSlow, PoolTypeOK, Reqs
      <3> QED
        BY <2>1, <2>3, <3>1 DEF TakeSlow, StartJob
    <2>4. CASE TakeFast(t)
      BY <2>1, <2>4 DEF TakeFast, StartJob
    <2> QED
      BY <1>1, <2>2, <2>3, <2>4 DEF WorkerStep, Acquire, HoldsMutex
  <1>2. ASSUME NEW r \in Reqs, uv__work_submit(r) PROVE WorkerTypeOK'
    BY <1>2 DEF uv__work_submit, WorkerPcs
  <1>3. CASE post \/ uv__threadpool_cleanup
    BY <1>3, PostFrame
  <1>4. CASE LoopOnly
    BY <1>4, LoopOnlyFrame
  <1> QED
    BY <1>1, <1>2, <1>3, <1>4, StepKinds

\* A worker that is marked as slow has been counted.
LEMMA SlowPositive ==
  ASSUME IInv, NEW t \in is_slow_work
  PROVE  slow_io_work_running - 1 \in Nat
BY FS_Subset, ConstantsAssumption, FS_CardinalityType, FS_EmptySet DEF IInv, TypeOK, WorkerTypeOK,
   SlowBound

\* The queues hold nodes of their kind and the counters stay natural numbers.
LEMMA PoolTypeStep == ASSUME IInv, [Next]_vars PROVE PoolTypeOK'
  <1> USE DEF PoolTypeOK, IInv, TypeOK
  <1>1. ASSUME NEW t \in Workers, WorkerStep(t) PROVE PoolTypeOK'
    <2>1. CASE Lock(t)
      BY <2>1, SlowPositive DEF Lock
    <2>2. CASE CondWait(t)
      BY <2>2 DEF CondWait
    <2>3. CASE CondWaitReturn(t)
      BY <2>3, IdlePositive DEF CondWaitReturn
    <2>4. CASE RequeueSlow(t) \/ DropSlowMessage(t) \/ TakeFast(t) \/ TakeSlow(t)
      <3>1. wq # <<>>
        BY <2>4 DEF RequeueSlow, DropSlowMessage, TakeFast, TakeSlow, MustWait
      <3>2. wq' \in {Tail(wq), Append(Tail(wq), RunSlow)}
        BY <2>4 DEF RequeueSlow, DropSlowMessage, TakeFast, TakeSlow
      <3>3. wq' \in Seq(FastReqs \cup {RunSlow, Exit})
        BY <3>1, <3>2, TailType, AppendType
      <3>4. slow_io_pending_wq' \in Seq(SlowReqs)
        BY <2>4, TailType DEF TakeSlow, RequeueSlow, DropSlowMessage, TakeFast
      <3>5. idle_threads' \in Nat /\ slow_io_work_running' \in Nat
        BY <2>4 DEF RequeueSlow, DropSlowMessage, TakeFast, TakeSlow
      <3> QED
        BY <3>3, <3>4, <3>5
    <2>5. CASE SpuriousWakeup(t) \/ TakeExit(t) \/ RunWork(t) \/ HandOver(t)
      BY <2>5 DEF SpuriousWakeup, TakeExit, RunWork, HandOver, poolVars
    <2> QED
      BY <1>1, <2>1, <2>2, <2>3, <2>4, <2>5 DEF WorkerStep, Acquire, HoldsMutex
  <1>2. ASSUME NEW r \in Reqs, uv__work_submit(r) PROVE PoolTypeOK'
    <2>1. UNCHANGED <<idle_threads, slow_io_work_running>>
      BY <1>2 DEF uv__work_submit
    <2>2. \/ wq' = <<>> /\ slow_io_pending_wq' = <<>>
          \/ wq' = wq /\ slow_io_pending_wq' = slow_io_pending_wq
      BY <1>2 DEF uv__work_submit
    <2>3. <<>> \in Seq(SlowReqs) /\ <<>> \in Seq(FastReqs \cup {RunSlow, Exit})
      OBVIOUS
    <2> QED
      BY <2>1, <2>2, <2>3
  <1>3. CASE post
    BY <1>3, AppendType DEF post, PostNode
  <1>4. CASE uv__threadpool_cleanup
    BY <1>4, AppendType DEF uv__threadpool_cleanup, PostNode
  <1>5. CASE LoopOnly
    <2>1. ASSUME NEW r \in Reqs, CancelRemove(r) PROVE PoolTypeOK'
      BY <2>1, RemoveNodeType DEF CancelRemove
    <2>2. CASE CancelInsert \/ WorkDone \/ ThreadsJoined \/ Terminated \/ UNCHANGED vars
      BY <2>2 DEF CancelInsert, WorkDone, WorkDoneStart, WorkDoneNext, CallbackReturn,
                  WorkDoneEnd, ThreadsJoined, Terminated, vars, poolVars
    <2> QED
      BY <1>5, <2>1, <2>2 DEF LoopOnly
  <1> QED
    BY <1>1, <1>2, <1>3, <1>4, <1>5, StepKinds

\* The loop's side keeps its types.
LEMMA LoopTypeStep == ASSUME IInv, [Next]_vars PROVE LoopTypeOK'
  <1> USE DEF LoopTypeOK, IInv, TypeOK
  <1>1. ASSUME NEW t \in Workers, WorkerStep(t) PROVE LoopTypeOK'
    <2>1. CASE RunWork(t) \/ HandOver(t)
      <3>1. job[t] \in Reqs
        BY <2>1 DEF RunWork, HandOver, Phases, WorkerTypeOK
      <3>2. CASE RunWork(t)
        BY <3>1, <3>2 DEF RunWork, loopVars, resultVars
      <3>3. CASE HandOver(t)
        BY <3>1, <3>3, AppendType DEF HandOver, loopVars
      <3> QED
        BY <2>1, <3>2, <3>3
    <2>2. CASE Acquire(t) \/ HoldsMutex(t) \/ SpuriousWakeup(t)
      BY <2>2 DEF Acquire, HoldsMutex, Lock, CondWait, SpuriousWakeup, CondWaitReturn,
                  TakeExit, RequeueSlow, DropSlowMessage, TakeSlow, TakeFast, loopVars,
                  resultVars
    <2> QED
      BY <1>1, <2>1, <2>2 DEF WorkerStep
  <1>2. ASSUME NEW r \in Reqs, uv__work_submit(r) PROVE LoopTypeOK'
    BY <1>2 DEF uv__work_submit, resultVars
  <1>3. CASE post \/ uv__threadpool_cleanup
    BY <1>3 DEF post, uv__threadpool_cleanup, resultVars
  <1>4. CASE LoopOnly
    <2>1. ASSUME NEW r \in Reqs, CancelRemove(r) PROVE LoopTypeOK'
      BY <2>1, RemoveNodeType DEF CancelRemove
    <2>2. CASE CancelInsert
      BY <2>2 DEF CancelInsert, Phases
    <2>3. CASE WorkDone
      <3>1. CASE WorkDoneNext
        BY <3>1 DEF WorkDoneNext, resultVars
      <3>2. CASE WorkDoneStart
        <4>1. raised' \in BOOLEAN
          BY <3>2 DEF WorkDoneStart
        <4> QED
          BY <3>2, <4>1 DEF WorkDoneStart
      <3>3. CASE CallbackReturn \/ WorkDoneEnd
        BY <3>3 DEF CallbackReturn, WorkDoneEnd, resultVars
      <3> QED
        BY <2>3, <3>1, <3>2, <3>3 DEF WorkDone
    <2>4. CASE ThreadsJoined \/ Terminated \/ UNCHANGED vars
      BY <2>4 DEF ThreadsJoined, Terminated, vars, resultVars, loopVars
    <2> QED
      BY <1>4, <2>1, <2>2, <2>3, <2>4 DEF LoopOnly
  <1> QED
    BY <1>1, <1>2, <1>3, <1>4, StepKinds

\* Job, slow mark and mutex follow the worker's place.
LEMMA PhasesStep == ASSUME IInv, [Next]_vars PROVE Phases'
  <1> USE ConstantsAssumption
  <1> USE DEF Phases, IInv, TypeOK, WorkerTypeOK
  <1>1. ASSUME NEW t \in Workers, WorkerStep(t) PROVE Phases'
    <2>1. /\ pc' \in [Workers -> WorkerPcs]
          /\ \A u \in Workers \ {t} :
               pc'[u] = pc[u] \/ (pc[u] = "waiting" /\ pc'[u] = "woken")
      BY <1>1, WorkerPcStep
    <2>2. UNCHANGED <<call, arg>>
      BY <1>1 DEF WorkerStep, Acquire, HoldsMutex, Lock, CondWait, SpuriousWakeup,
                  CondWaitReturn, TakeExit, RequeueSlow, DropSlowMessage, TakeSlow,
                  TakeFast, RunWork, HandOver, loopVars
    <2>3. CASE Lock(t)
      BY <2>1, <2>2, <2>3 DEF Lock
    <2>4. CASE CondWait(t)
      BY <2>1, <2>2, <2>4 DEF CondWait
    <2>5. CASE SpuriousWakeup(t) \/ CondWaitReturn(t)
      BY <2>1, <2>2, <2>5 DEF SpuriousWakeup, CondWaitReturn
    <2>6. CASE TakeExit(t)
      <3>1. pc'[t] = "exited"
        <4> DEFINE p == [pc EXCEPT ![t] = "exited"]
        <4>1. p \in [Workers -> WorkerPcs] /\ p[t] = "exited" /\ pc' \in cond_signal(p)
          BY <2>6 DEF TakeExit, WorkerPcs
        <4> HIDE DEF p
        <4> QED
          BY <4>1, SignalFacts
      <3> QED
        BY <2>1, <2>2, <2>6, <3>1 DEF TakeExit
    <2>7. CASE RequeueSlow(t) \/ DropSlowMessage(t)
      BY <2>2, <2>7 DEF RequeueSlow, DropSlowMessage, workerVars
    <2>8. CASE TakeSlow(t)
      <3>1. pc'[t] = "work"
        <4> DEFINE p == [pc EXCEPT ![t] = "work"]
        <4>1. /\ p \in [Workers -> WorkerPcs] /\ p[t] = "work"
              /\ pc' = p \/ pc' \in SignalIfIdle(p)
          BY <2>8 DEF TakeSlow, WorkerPcs
        <4> HIDE DEF p
        <4> QED
          BY <4>1, SignalIfIdleFacts
      <3>2. Head(slow_io_pending_wq) # None
        BY <2>8 DEF TakeSlow, PoolTypeOK, Reqs
      <3>3. /\ is_slow_work' = is_slow_work \cup {t} /\ mutex' = None /\ pc[t] = "top"
            /\ job' = [job EXCEPT ![t] = Head(slow_io_pending_wq)]
        BY <2>8 DEF TakeSlow, StartJob
      <3>4. job'[t] # None /\ \A u \in Workers \ {t} : job'[u] = job[u]
        BY <3>2, <3>3
      <3>5. \A u \in Workers : pc'[u] \in {"work", "finish"} <=> job'[u] # None
        BY <2>1, <3>1, <3>4
      <3>6. \A u \in is_slow_work' : pc'[u] \in {"work", "finish", "lock"}
        BY <2>1, <3>1, <3>3
      <3>7. \A u \in Workers : pc'[u] = "top" <=> mutex' = u
        BY <2>1, <2>2, <3>1, <3>3
      <3> QED
        BY <2>2, <2>8, <3>5, <3>6, <3>7 DEF TakeSlow
    <2>9. CASE TakeFast(t)
      BY <2>1, <2>2, <2>9 DEF TakeFast, StartJob
    <2>10. CASE RunWork(t) \/ HandOver(t)
      BY <2>1, <2>2, <2>10 DEF RunWork, HandOver
    <2> QED
      BY <1>1, <2>3, <2>4, <2>5, <2>6, <2>7, <2>8, <2>9, <2>10
         DEF WorkerStep, Acquire, HoldsMutex
  <1>2. ASSUME NEW r \in Reqs, uv__work_submit(r) PROVE Phases'
    BY <1>2 DEF uv__work_submit
  <1>3. CASE post \/ uv__threadpool_cleanup
    BY <1>3, PostFrame DEF post, uv__threadpool_cleanup
  <1>4. CASE LoopOnly
    <2>1. call' # "none" => arg' # None
      BY <1>4 DEF LoopOnly, CancelRemove, CancelInsert, WorkDone, WorkDoneStart,
                  WorkDoneNext, CallbackReturn, WorkDoneEnd, ThreadsJoined, Terminated,
                  vars, loopVars
    <2> QED
      BY <1>4, <2>1, LoopOnlyFrame
  <1> QED
    BY <1>1, <1>2, <1>3, <1>4, StepKinds

\* idle_threads goes up with every wait and down with every return from it.
LEMMA IdleStep == ASSUME IInv, [Next]_vars PROVE IdleCount'
  <1>1. IsFiniteSet(Sleepers)
    BY FS_Subset, ConstantsAssumption DEF Sleepers
  <1>2. ASSUME Sleepers' = Sleepers, idle_threads' = idle_threads PROVE IdleCount'
    BY <1>2 DEF IInv, IdleCount
  <1>3. ASSUME NEW t \in Workers, WorkerStep(t) PROVE IdleCount'
    <2>1. /\ pc' \in [Workers -> WorkerPcs]
          /\ \A u \in Workers \ {t} :
               pc'[u] = pc[u] \/ (pc[u] = "waiting" /\ pc'[u] = "woken")
      BY <1>3, WorkerPcStep
    <2>2. CASE CondWait(t)
      BY <2>2, <1>1, FS_AddElement DEF CondWait, Sleepers, IInv, TypeOK, WorkerTypeOK, IdleCount
    <2>3. CASE CondWaitReturn(t)
      BY <2>3, <1>1, FS_RemoveElement DEF CondWaitReturn, Sleepers, IInv, TypeOK, WorkerTypeOK,
         IdleCount
    <2>4. CASE SpuriousWakeup(t)
      BY <2>4, <1>2 DEF SpuriousWakeup, Sleepers, IInv, TypeOK, WorkerTypeOK, poolVars
    <2>5. CASE ~(CondWait(t) \/ CondWaitReturn(t) \/ SpuriousWakeup(t))
      <3>1. idle_threads' = idle_threads
        BY <1>3, <2>5 DEF WorkerStep, Acquire, HoldsMutex, Lock, TakeExit, RequeueSlow,
                    DropSlowMessage, TakeSlow, TakeFast, RunWork, HandOver, poolVars
      <3>2. t \notin Sleepers
        BY <1>3, <2>5 DEF WorkerStep, Acquire, HoldsMutex, Lock, TakeExit, RequeueSlow,
                    DropSlowMessage, TakeSlow, TakeFast, RunWork, HandOver, Sleepers
      <3>3. mutex' # t => pc'[t] \in {"lock", "top", "work", "finish", "exited"}
        <4>1. CASE TakeExit(t) \/ TakeSlow(t)
          <5> DEFINE p == [pc EXCEPT ![t] = IF TakeExit(t) THEN "exited" ELSE "work"]
          <5>1. /\ p \in [Workers -> WorkerPcs]
                /\ p[t] \in {"work", "exited"}
                /\ pc' = p \/ pc' \in cond_signal(p)
            BY <4>1 DEF TakeExit, TakeSlow, SignalIfIdle, WorkerPcs, IInv, TypeOK,
                        WorkerTypeOK
          <5> HIDE DEF p
          <5> QED
            BY <5>1, SignalFacts
        <4>2. CASE ~(TakeExit(t) \/ TakeSlow(t))
          BY <1>3, <2>5, <4>2 DEF WorkerStep, Acquire, HoldsMutex, Lock, RequeueSlow,
                    DropSlowMessage, TakeFast, RunWork, HandOver, workerVars, IInv,
                    TypeOK, WorkerTypeOK
        <4> QED
          BY <4>1, <4>2
      <3>4. mutex' = t => pc'[t] = "top"
        BY PhasesStep DEF Phases
      <3>5. Sleepers' = Sleepers
        BY <2>1, <3>2, <3>3, <3>4 DEF Sleepers
      <3> QED
        BY <1>2, <3>1, <3>5
    <2> QED
      BY <2>2, <2>3, <2>4, <2>5
  <1>4. ASSUME NEW r \in Reqs, uv__work_submit(r) PROVE IdleCount'
    BY <1>4, <1>2 DEF uv__work_submit, Sleepers
  <1>5. CASE post \/ uv__threadpool_cleanup
    BY <1>5, <1>2, PostFrame DEF Sleepers
  <1>6. CASE LoopOnly
    BY <1>6, <1>2, LoopOnlyFrame DEF Sleepers
  <1> QED
    BY <1>3, <1>4, <1>5, <1>6, StepKinds

\* slow_io_work_running is checked and raised under one hold of the mutex.
LEMMA SlowStep == ASSUME IInv, [Next]_vars PROVE SlowBound'
  <1>1. IsFiniteSet(is_slow_work)
    BY FS_Subset, ConstantsAssumption DEF IInv, TypeOK, WorkerTypeOK
  <1>2. ASSUME UNCHANGED <<is_slow_work, slow_io_work_running>>,
               \A t \in Workers : job'[t] \in SlowReqs => job'[t] = job[t]
        PROVE  SlowBound'
    BY <1>2 DEF IInv, SlowBound
  <1>3. ASSUME NEW t \in Workers, WorkerStep(t) PROVE SlowBound'
    <2>1. CASE Lock(t)
      <3>1. job[t] \notin SlowReqs /\ job' = job
        BY <2>1, ConstantsAssumption DEF Lock, IInv, Phases, Reqs
      <3>2. CASE t \in is_slow_work
        <4>1. slow_io_work_running' = Cardinality(is_slow_work')
          BY <1>1, <2>1, <3>2, FS_RemoveElement DEF Lock, IInv, SlowBound
        <4>2. slow_io_work_running' <= slow_work_thread_threshold
          BY <2>1, <3>2, SlowPositive, ThresholdNat
             DEF Lock, IInv, SlowBound, TypeOK, PoolTypeOK
        <4>3. \A u \in Workers : job'[u] \in SlowReqs => u \in is_slow_work'
          BY <2>1, <3>1 DEF Lock, IInv, SlowBound
        <4> QED
          BY <4>1, <4>2, <4>3 DEF SlowBound
      <3>3. CASE t \notin is_slow_work
        BY <2>1, <3>3, <1>2, <3>1 DEF Lock
      <3> QED
        BY <3>2, <3>3
    <2>2. CASE TakeSlow(t)
      <3>1. t \notin is_slow_work
        BY <2>2 DEF TakeSlow, IInv, Phases
      <3>2. slow_io_work_running' = Cardinality(is_slow_work')
        BY <1>1, <2>2, <3>1, FS_AddElement DEF TakeSlow, IInv, SlowBound
      <3>3. slow_io_work_running' <= slow_work_thread_threshold
        BY <2>2, ThresholdNat DEF TakeSlow, AtThreshold, IInv, TypeOK, PoolTypeOK
      <3>4. \A u \in Workers : job'[u] \in SlowReqs => u \in is_slow_work'
        BY <2>2 DEF TakeSlow, StartJob, IInv, SlowBound, TypeOK, WorkerTypeOK
      <3> QED
        BY <3>2, <3>3, <3>4 DEF SlowBound
    <2>3. CASE TakeFast(t)
      BY <2>3, <1>2, ConstantsAssumption DEF TakeFast, MustWait, IInv, TypeOK, PoolTypeOK, Reqs,
         StartJob, WorkerTypeOK
    <2>4. CASE HandOver(t)
      BY <2>4, <1>2, ConstantsAssumption DEF HandOver, IInv, TypeOK, WorkerTypeOK, Reqs, poolVars
    <2>5. CASE CondWait(t) \/ SpuriousWakeup(t) \/ CondWaitReturn(t) \/ TakeExit(t)
               \/ RequeueSlow(t) \/ DropSlowMessage(t) \/ RunWork(t)
      BY <2>5, <1>2 DEF CondWait, SpuriousWakeup, CondWaitReturn, TakeExit, RequeueSlow,
         DropSlowMessage, RunWork, workerVars, poolVars
    <2> QED
      BY <1>3, <2>1, <2>2, <2>3, <2>4, <2>5 DEF WorkerStep, Acquire, HoldsMutex
  <1>4. ASSUME NEW r \in Reqs, uv__work_submit(r) PROVE SlowBound'
    BY <1>2, <1>4 DEF uv__work_submit
  <1>5. CASE post \/ uv__threadpool_cleanup
    BY <1>2, <1>5, PostFrame
  <1>6. CASE LoopOnly
    BY <1>2, <1>6, LoopOnlyFrame
  <1> QED
    BY <1>3, <1>4, <1>5, <1>6, StepKinds

\* A worker goes to sleep only on an empty plate, and whoever fills the plate
\* wakes a sleeper.
LEMMA AwakeStep == ASSUME IInv, [Next]_vars PROVE SomeoneAwake'
  <1>1. ASSUME NEW t \in Workers, WorkerStep(t) PROVE SomeoneAwake'
    <2>1. CASE CondWait(t)
      BY <2>1 DEF CondWait, MustWait, AtThreshold, SomeoneAwake
    <2>2. CASE TakeExit(t)
      <3> DEFINE p == [pc EXCEPT ![t] = "exited"]
      <3>1. p \in [Workers -> WorkerPcs] /\ pc' \in cond_signal(p)
        BY <2>2 DEF TakeExit, WorkerPcs, IInv, TypeOK, WorkerTypeOK
      <3> HIDE DEF p
      <3>2. (\E u \in Workers : pc'[u] = "waiting") => \E u \in Workers : pc'[u] = "woken"
        BY <3>1, SignalFacts
      <3> QED
        BY <3>2 DEF SomeoneAwake, Active
    <2>3. CASE ~(CondWait(t) \/ TakeExit(t))
      <3>1. t \in Active'
        <4>1. CASE TakeSlow(t)
          <5> DEFINE p == [pc EXCEPT ![t] = "work"]
          <5>1. /\ p \in [Workers -> WorkerPcs] /\ p[t] = "work"
                /\ pc' = p \/ pc' \in SignalIfIdle(p)
            BY <4>1 DEF TakeSlow, WorkerPcs, IInv, TypeOK, WorkerTypeOK
          <5> HIDE DEF p
          <5>2. pc'[t] = "work"
            BY <5>1, SignalIfIdleFacts
          <5> QED
            BY <5>2 DEF Active
        <4>2. CASE ~TakeSlow(t)
          BY <1>1, <2>3, <4>2 DEF WorkerStep, Acquire, HoldsMutex, Lock, SpuriousWakeup,
               CondWaitReturn, RequeueSlow, DropSlowMessage, TakeFast, RunWork, HandOver,
               workerVars, Active, IInv, TypeOK, WorkerTypeOK
        <4> QED
          BY <4>1, <4>2
      <3> QED
        BY <3>1 DEF SomeoneAwake
    <2> QED
      BY <2>1, <2>2, <2>3
  <1>2. ASSUME NEW r \in Reqs, uv__work_submit(r) PROVE SomeoneAwake'
    BY <1>2 DEF uv__work_submit, SomeoneAwake, Active, MustWait, AtThreshold, IInv
  <1>3. CASE post \/ uv__threadpool_cleanup
    BY <1>3, PostFrame DEF SomeoneAwake, Active, MustWait, AtThreshold, IInv
  <1>4. CASE LoopOnly
    <2>1. MustWait => MustWait'
      <3>1. ASSUME NEW r \in Reqs, CancelRemove(r), MustWait PROVE wq' = wq
        BY <3>1, ConstantsAssumption DEF MustWait, CancelRemove
      <3>2. MustWait => wq' = wq
        BY <1>4, <3>1 DEF LoopOnly, CancelInsert, WorkDone, WorkDoneStart, WorkDoneNext,
                    CallbackReturn, WorkDoneEnd, ThreadsJoined, Terminated, vars, poolVars
      <3> QED
        BY <1>4, <3>2, LoopOnlyFrame DEF MustWait, AtThreshold
    <2> QED
      BY <1>4, <2>1, LoopOnlyFrame DEF SomeoneAwake, Active, IInv
  <1> QED
    BY <1>1, <1>2, <1>3, <1>4, StepKinds

-----------------------------------------------------------------------------
(* Theorems.                                                               *)

\* The invariant is inductive.
LEMMA StepIInv == IInv /\ [Next]_vars => IInv'
  BY WorkerTypeStep, PoolTypeStep, LoopTypeStep, PhasesStep, IdleStep, SlowStep,
     AwakeStep DEF IInv, TypeOK

\* It holds in every reachable state of a pool of any size.
THEOREM IInvHolds == Spec => []IInv
  BY InitIInv, StepIInv, PTL DEF Spec

\* The variables keep their types: idle_threads and slow_io_work_running,
\* unsigned in the code, never wrap below zero.
THEOREM TypeCorrect == Spec => []TypeOK
  BY IInvHolds, PTL DEF IInv

\* Slow I/O never occupies more than slow_work_thread_threshold() workers,
\* and slow_io_work_running is exactly their number.
THEOREM SlowSafe == Spec => []SlowBound
  BY IInvHolds, PTL DEF IInv

\* The workers never all sleep while there is a node in wq to be taken.
THEOREM PoolAwake == Spec => []SomeoneAwake
  BY IInvHolds, PTL DEF IInv

-----------------------------------------------------------------------------
(* No request is lost, doubled or misreported.                             *)

\* How often x is linked into queue q.
Count(q, x) == Cardinality({i \in DOMAIN q : q[i] = x})

\* One if the condition holds.
One(b) == IF b THEN 1 ELSE 0

-----------------------------------------------------------------------------
(* Lemmas about queues: what linking and unlinking a node does to Count.   *)

\* The places of a node in a queue are finitely many.
LEMMA PlacesFinite ==
  ASSUME NEW S, NEW q \in Seq(S), NEW x
  PROVE  /\ IsFiniteSet({i \in DOMAIN q : q[i] = x})
         /\ Count(q, x) \in Nat
         /\ Count(q, x) <= Len(q)
  <1>1. DOMAIN q = 1..Len(q) /\ Len(q) \in Nat
    OBVIOUS
  <1>2. IsFiniteSet(DOMAIN q) /\ Cardinality(DOMAIN q) = Len(q)
    BY <1>1, FS_Interval
  <1>3. {i \in DOMAIN q : q[i] = x} \in SUBSET DOMAIN q
    OBVIOUS
  <1> QED
    BY <1>2, <1>3, FS_Subset, FS_CardinalityType DEF Count

\* Nothing is linked into an empty queue.
LEMMA CountEmpty == \A x : Count(<<>>, x) = 0
BY FS_EmptySet DEF Count

\* A node is linked if and only if it is counted.
LEMMA CountIn ==
  ASSUME NEW S, NEW q \in Seq(S), NEW x
  PROVE  x \in In(q) <=> Count(q, x) > 0
  <1> DEFINE P == {i \in DOMAIN q : q[i] = x}
  <1>1. IsFiniteSet(P) /\ Count(q, x) \in Nat /\ Count(q, x) = Cardinality(P)
    BY PlacesFinite DEF Count
  <1>2. P = {} <=> x \notin In(q)
    BY DEF In
  <1> HIDE DEF P
  <1>3. Cardinality(P) = 0 <=> P = {}
    BY <1>1, FS_EmptySet
  <1> QED
    BY <1>1, <1>2, <1>3

\* QUEUE_INSERT_TAIL links one node.
LEMMA CountAppend ==
  ASSUME NEW S, NEW q \in Seq(S), NEW x \in S, NEW y
  PROVE  Count(Append(q, x), y) = Count(q, y) + One(x = y)
  <1> DEFINE P == {i \in DOMAIN q : q[i] = y}
             Q == {i \in DOMAIN Append(q, x) : Append(q, x)[i] = y}
  <1>1. IsFiniteSet(P) /\ Cardinality(P) \in Nat
    BY PlacesFinite DEF Count
  <1>2. Q = IF x = y THEN P \cup {Len(q) + 1} ELSE P
    OBVIOUS
  <1>3. Len(q) + 1 \notin P
    OBVIOUS
  <1> HIDE DEF P, Q
  <1>4. Cardinality(Q) = Cardinality(P) + One(x = y)
    <2>1. CASE x = y
      BY <1>1, <1>3, <1>2, <2>1, FS_AddElement DEF One
    <2>2. CASE x # y
      BY <1>1, <1>2, <2>2 DEF One
    <2> QED
      BY <2>1, <2>2
  <1> QED
    BY <1>4 DEF Count, P, Q

\* QUEUE_REMOVE unlinks one node.
LEMMA CountRemove ==
  ASSUME NEW S, NEW q \in Seq(S), NEW i \in DOMAIN q, NEW y
  PROVE  Count(RemoveNode(q, i), y) = Count(q, y) - One(q[i] = y)
  <1> DEFINE P == {j \in DOMAIN q : q[j] = y}
             Q == {j \in DOMAIN RemoveNode(q, i) : RemoveNode(q, i)[j] = y}
             f == [j \in P \ {i} |-> IF j < i THEN j ELSE j - 1]
  <1>0. Len(q) \in Nat /\ DOMAIN q = 1..Len(q) /\ i \in 1..Len(q)
    OBVIOUS
  <1>1. IsFiniteSet(P) /\ Cardinality(P) \in Nat
    BY PlacesFinite DEF Count
  <1>2. \A j : j \in Q <=> /\ j \in 1..(Len(q) - 1)
                           /\ (IF j < i THEN q[j] ELSE q[j + 1]) = y
    BY <1>0 DEF RemoveNode
  <1>3. \A j : j \in P <=> j \in 1..Len(q) /\ q[j] = y
    BY <1>0
  <1> HIDE DEF P, Q
  <1>4. f \in [P \ {i} -> Q]
    BY <1>0, <1>2, <1>3
  <1>5. \A a, b \in P \ {i} : f[a] = f[b] => a = b
    BY <1>0, <1>3
  <1>6. ASSUME NEW k \in Q PROVE \E a \in P \ {i} : f[a] = k
    <2>1. CASE k < i
      BY <1>0, <1>2, <1>3, <2>1
    <2>2. CASE ~(k < i)
      BY <1>2, <2>2, <1>0, <1>3
    <2> QED
      BY <2>1, <2>2
  <1> HIDE DEF f
  <1>7. ExistsBijection(P \ {i}, Q)
    BY <1>4, <1>5, <1>6 DEF ExistsBijection, Bijection, Injection, Surjection, IsInjective
  <1>8. /\ IsFiniteSet(P \ {i})
        /\ Cardinality(P \ {i}) = IF i \in P THEN Cardinality(P) - 1 ELSE Cardinality(P)
    BY <1>1, FS_RemoveElement
  <1>9. Cardinality(Q) = Cardinality(P \ {i})
    BY <1>7, <1>8, FS_Bijection
  <1>10. Cardinality(Q) = Cardinality(P) - One(q[i] = y)
    BY <1>0, <1>1, <1>3, <1>8, <1>9 DEF One
  <1> QED
    BY <1>10 DEF Count, P, Q

\* Taking the head off a queue is QUEUE_REMOVE of its first node.
LEMMA TailRemoves ==
  ASSUME NEW S, NEW q \in Seq(S), q # <<>>
  PROVE  Tail(q) = RemoveNode(q, 1)
  <1> DEFINE T == Tail(q)
  <1>1. /\ T \in Seq(S) /\ Len(T) = Len(q) - 1
        /\ \A j \in 1..(Len(q) - 1) : T[j] = q[j + 1]
    OBVIOUS
  <1>2. RemoveNode(q, 1) = [j \in 1..(Len(q) - 1) |-> q[j + 1]]
    BY DEF RemoveNode
  <1> HIDE DEF T
  <1>3. T = [j \in 1..Len(T) |-> T[j]]
    BY <1>1
  <1>4. \A j \in 1..Len(T) : T[j] = q[j + 1]
    BY <1>1
  <1>5. T = [j \in 1..Len(T) |-> q[j + 1]]
    BY <1>3, <1>4
  <1> QED
    BY <1>1, <1>2, <1>5 DEF T

\* So it unlinks one node.
LEMMA CountTail ==
  ASSUME NEW S, NEW q \in Seq(S), q # <<>>, NEW y
  PROVE  Count(Tail(q), y) = Count(q, y) - One(Head(q) = y)
  <1>1. 1 \in DOMAIN q /\ q[1] = Head(q)
    OBVIOUS
  <1>2. Count(RemoveNode(q, 1), y) = Count(q, y) - One(q[1] = y)
    BY <1>1, CountRemove
  <1> QED
    BY <1>1, <1>2, TailRemoves

\* The head is taken off and a node put behind the others.
LEMMA CountTailAppend ==
  ASSUME NEW S, NEW q \in Seq(S), q # <<>>, NEW x \in S, NEW y
  PROVE  Count(Append(Tail(q), x), y) = Count(q, y) - One(Head(q) = y) + One(x = y)
  <1> DEFINE T == Tail(q)
  <1>1. T \in Seq(S) /\ Count(T, y) = Count(q, y) - One(Head(q) = y)
    BY TailType, CountTail
  <1> HIDE DEF T
  <1>2. Count(Append(T, x), y) = Count(T, y) + One(x = y)
    BY <1>1, CountAppend
  <1> QED
    BY <1>1, <1>2 DEF T

\* The nodes other than x are the rest.
LEMMA CountOthers ==
  ASSUME NEW S, NEW q \in Seq(S), NEW x
  PROVE  Cardinality({i \in DOMAIN q : q[i] # x}) = Len(q) - Count(q, x)
  <1> DEFINE P == {i \in DOMAIN q : q[i] = x}
             D == DOMAIN q
  <1>1. IsFiniteSet(D) /\ Cardinality(D) = Len(q) /\ Len(q) \in Nat
    <2>1. DOMAIN q = 1..Len(q) /\ Len(q) \in Nat
      OBVIOUS
    <2> QED
      BY <2>1, FS_Interval
  <1>2. {i \in DOMAIN q : q[i] # x} = D \ P /\ D \cap P = P
    OBVIOUS
  <1> HIDE DEF D
  <1>3. Cardinality(D \ P) = Cardinality(D) - Cardinality(D \cap P)
    BY <1>1, FS_Difference
  <1> QED
    BY <1>1, <1>2, <1>3 DEF Count

-----------------------------------------------------------------------------
(* The invariant.                                                          *)

\* The workers that hold request r, given what each has in hand.
Held(j, r) == Cardinality({t \in Workers : j[t] = r})

\* What may be linked into wq, and what a worker may have in hand.
Nodes == FastReqs \cup {RunSlow, Exit}
Hands == Reqs \cup {None}

\* Occurrences as a function of the six places.
Total(w, s, l, d, j, a, r) ==
  Count(w, r) + Count(s, r) + Count(l, r) + Count(d, r) + Held(j, r) + One(a = r)

\* The loop thread has a request in hand inside a call, and a list of done
\* requests inside uv__work_done(), and at no other time.
Turns ==
  /\ call = "none" <=> arg = None
  /\ loop \notin {"done", "callback"} => done_wq = <<>>

\* The threads start together, at the first uv__work_submit().
Unstarted ==
  (\E t \in Workers : pc[t] = "none") =>
    /\ \A t \in Workers : pc[t] = "none"
    /\ wq = <<>> /\ slow_io_pending_wq = <<>> /\ loop_wq = <<>> /\ done_wq = <<>>
    /\ call = "none"

\* Where a request is tells whether its work function has run.
Fate ==
  /\ \A r \in Reqs : work[r] = "null" => r \in ran
  /\ \A r \in Reqs : work[r] # "none" => outcome[r] = "none"
  /\ \A r \in Reqs : r \in In(loop_wq) \/ r \in In(done_wq) =>
       work[r] \in {"null", "cancelled"}
  /\ \A r \in Reqs : r \in In(wq) \/ r \in In(slow_io_pending_wq) =>
       work[r] = "set" /\ r \notin ran
  /\ call = "post" => work[arg] = "set" /\ arg \notin ran
  /\ call = "cancel" => work[arg] = "cancelled"
  /\ \A t \in Workers : pc[t] = "work" => job[t] \notin ran
  /\ \A t \in Workers : pc[t] = "finish" => job[t] \in ran

\* Workers that are about to look at the queue.
Free(p) == {t \in Workers : p[t] \in {"lock", "top", "woken"}}

\* Nobody can take the slow message, nor has left slow work just now.
SlowBlocked == AtThreshold /\ ~\E t \in is_slow_work : pc[t] = "lock"

\* The nodes of queue w that the free workers have to be enough for.
Demand(w, blocked) == IF blocked THEN Len(w) - Count(w, RunSlow) ELSE Len(w)

\* While a worker sleeps there is a free worker for each of those nodes.
Enough ==
  (\E t \in Workers : pc[t] = "waiting") =>
    Demand(wq, SlowBlocked) <= Cardinality(Free(pc))

PInv ==
  /\ IInv /\ Turns /\ Unstarted /\ OneHome /\ SlowAnnounced /\ StatusTruthful
  /\ Fate /\ Enough

-----------------------------------------------------------------------------
(* Requests are neither lost nor doubled.                                  *)

\* The workers that hold a request are finitely many; there is one if and only if they
\* are not zero, and two hold it only if they are more than one.
LEMMA HeldFacts ==
  ASSUME NEW j \in [Workers -> Hands], NEW r
  PROVE  /\ Held(j, r) \in Nat
         /\ (\E t \in Workers : j[t] = r) <=> Held(j, r) > 0
         /\ Held(j, r) <= 1 => \A t, u \in Workers : j[t] = r /\ j[u] = r => t = u
  <1> DEFINE H == {t \in Workers : j[t] = r}
  <1>1. IsFiniteSet(H)
    BY FS_Subset, ConstantsAssumption
  <1>2. Cardinality(H) \in Nat /\ (Cardinality(H) = 0 <=> H = {})
    BY <1>1, FS_CardinalityType, FS_EmptySet
  <1>3. Cardinality(H) = 1 => \E x : H = {x}
    BY <1>1, FS_Singleton
  <1>4. ASSUME Held(j, r) <= 1, NEW t \in Workers, NEW u \in Workers, j[t] = r, j[u] = r
        PROVE  t = u
    <2>1. t \in H /\ u \in H
      BY <1>4
    <2>2. Cardinality(H) = 0 \/ Cardinality(H) = 1
      BY <1>2, <1>4 DEF Held
    <2> HIDE DEF H
    <2> QED
      BY <1>2, <1>3, <2>1, <2>2
  <1>5. H # {} <=> \E t \in Workers : j[t] = r
    OBVIOUS
  <1>6. Held(j, r) = Cardinality(H)
    BY DEF Held
  <1> HIDE DEF H
  <1> QED
    BY <1>2, <1>4, <1>5, <1>6

\* Only worker t changes what it has in hand.
LEMMA HeldPut ==
  ASSUME NEW j \in [Workers -> Hands], NEW k \in [Workers -> Hands],
         NEW t \in Workers, \A u \in Workers \ {t} : k[u] = j[u], NEW r
  PROVE  Held(k, r) = Held(j, r) - One(j[t] = r) + One(k[t] = r)
  <1> DEFINE H == {u \in Workers : j[u] = r}
             G == {u \in Workers : k[u] = r}
  <1>1. IsFiniteSet(H) /\ IsFiniteSet(H \ {t})
    BY FS_Subset, ConstantsAssumption
  <1>2. Cardinality(H) \in Nat
    BY <1>1, FS_CardinalityType
  <1>3. Cardinality(H \ {t}) = Cardinality(H) - One(j[t] = r)
    <2>1. t \in H <=> j[t] = r
      OBVIOUS
    <2> HIDE DEF H
    <2>2. Cardinality(H \ {t}) = IF t \in H THEN Cardinality(H) - 1 ELSE Cardinality(H)
      BY <1>1, FS_RemoveElement
    <2> QED
      BY <1>2, <2>1, <2>2 DEF One
  <1>4. Cardinality(G) = Cardinality(H \ {t}) + One(k[t] = r)
    <2>1. CASE k[t] = r
      <3>1. G = (H \ {t}) \cup {t} /\ t \notin H \ {t}
        BY <2>1
      <3> HIDE DEF G, H
      <3>2. Cardinality((H \ {t}) \cup {t}) = Cardinality(H \ {t}) + 1
        BY <1>1, <3>1, FS_AddElement
      <3> QED
        BY <2>1, <3>1, <3>2 DEF One
    <2>2. CASE k[t] # r
      <3>1. G = H \ {t}
        BY <2>2
      <3> HIDE DEF G, H
      <3>2. Cardinality(H \ {t}) \in Nat
        BY <1>1, FS_CardinalityType
      <3> QED
        BY <2>2, <3>1, <3>2 DEF One
    <2> QED
      BY <2>1, <2>2
  <1> HIDE DEF G, H
  <1> QED
    BY <1>3, <1>4 DEF Held, G, H

\* Occurrences counts the six places, before a step and after it.
LEMMA OccurrencesTotal ==
  \A r \in Reqs :
    /\ Occurrences(r) = Total(wq, slow_io_pending_wq, loop_wq, done_wq, job, arg, r)
    /\ Occurrences(r)' =
         Total(wq', slow_io_pending_wq', loop_wq', done_wq', job', arg', r)
  BY DEF Occurrences, Total, Count, Held, One

\* A step that keeps the work status of a request and its number of places.
LEMMA HomeKept ==
  ASSUME PInv, NEW r \in Reqs, (work[r] = "none") <=> (work'[r] = "none"),
         Total(wq', slow_io_pending_wq', loop_wq', done_wq', job', arg', r) =
         Total(wq, slow_io_pending_wq, loop_wq, done_wq, job, arg, r)
  PROVE  Occurrences(r)' = IF work'[r] = "none" THEN 0 ELSE 1
  BY OccurrencesTotal DEF PInv, OneHome

\* At most one of the places of a request is taken, and one if it is in use.
LEMMA HomeFacts ==
  ASSUME PInv, NEW r \in Reqs
  PROVE  /\ Count(wq, r) \in Nat /\ Count(slow_io_pending_wq, r) \in Nat
         /\ Count(loop_wq, r) \in Nat /\ Count(done_wq, r) \in Nat
         /\ Held(job, r) \in Nat
         /\ Count(wq, r) + Count(slow_io_pending_wq, r) + Count(loop_wq, r)
              + Count(done_wq, r) + Held(job, r) + One(arg = r)
              = One(work[r] # "none")
         /\ r \in In(wq) <=> Count(wq, r) > 0
         /\ r \in In(slow_io_pending_wq) <=> Count(slow_io_pending_wq, r) > 0
         /\ r \in In(loop_wq) <=> Count(loop_wq, r) > 0
         /\ r \in In(done_wq) <=> Count(done_wq, r) > 0
         /\ (\E t \in Workers : job[t] = r) <=> Held(job, r) > 0
         /\ \A t, u \in Workers : job[t] = r /\ job[u] = r => t = u
  <1> USE DEF PInv, IInv, TypeOK, PoolTypeOK, LoopTypeOK, WorkerTypeOK, Hands
  <1>1. /\ Count(wq, r) \in Nat /\ Count(slow_io_pending_wq, r) \in Nat
        /\ Count(loop_wq, r) \in Nat /\ Count(done_wq, r) \in Nat
    BY PlacesFinite
  <1>2. /\ r \in In(wq) <=> Count(wq, r) > 0
        /\ r \in In(slow_io_pending_wq) <=> Count(slow_io_pending_wq, r) > 0
        /\ r \in In(loop_wq) <=> Count(loop_wq, r) > 0
        /\ r \in In(done_wq) <=> Count(done_wq, r) > 0
    BY CountIn
  <1>3. /\ Held(job, r) \in Nat
        /\ (\E t \in Workers : job[t] = r) <=> Held(job, r) > 0
        /\ Held(job, r) <= 1 => \A t, u \in Workers : job[t] = r /\ job[u] = r => t = u
    BY HeldFacts
  <1>4. Total(wq, slow_io_pending_wq, loop_wq, done_wq, job, arg, r) = One(work[r] # "none")
    BY OccurrencesTotal DEF OneHome, One
  <1>5. Count(wq, r) + Count(slow_io_pending_wq, r) + Count(loop_wq, r)
          + Count(done_wq, r) + Held(job, r) + One(arg = r) = One(work[r] # "none")
    BY <1>4 DEF Total
  <1>6. Held(job, r) <= 1
    BY <1>1, <1>3, <1>5 DEF One
  <1> QED
    BY <1>1, <1>2, <1>3, <1>5, <1>6

\* A step of the loop thread or of a worker moves a request from one place to
\* the next, and uv__work_submit() and the done callback are its two ends.
LEMMA HomeStep == ASSUME PInv, [Next]_vars PROVE OneHome'
  <1> SUFFICES ASSUME NEW r \in Reqs
               PROVE  Occurrences(r)' = IF work'[r] = "none" THEN 0 ELSE 1
    BY DEF OneHome
  <1>t. /\ wq \in Seq(Nodes) /\ slow_io_pending_wq \in Seq(SlowReqs)
        /\ loop_wq \in Seq(Reqs) /\ done_wq \in Seq(Reqs)
        /\ job \in [Workers -> Hands]
        /\ work \in [Reqs -> {"none", "set", "null", "cancelled"}]
    BY DEF PInv, IInv, TypeOK, PoolTypeOK, LoopTypeOK, WorkerTypeOK, Nodes, Hands
  <1>n. /\ RunSlow \in Nodes /\ Exit \in Nodes /\ FastReqs \subseteq Nodes
        /\ Reqs \subseteq Hands /\ None \in Hands
        /\ RunSlow # r /\ Exit # r /\ None # r
    BY ConstantsAssumption DEF Nodes, Hands
  <1>h. /\ Count(wq, r) \in Nat /\ Count(slow_io_pending_wq, r) \in Nat
        /\ Count(loop_wq, r) \in Nat /\ Count(done_wq, r) \in Nat
        /\ Held(job, r) \in Nat
        /\ Count(wq, r) + Count(slow_io_pending_wq, r) + Count(loop_wq, r)
             + Count(done_wq, r) + Held(job, r) + One(arg = r)
             = One(work[r] # "none")
    BY HomeFacts
  <1>k. ASSUME UNCHANGED <<slow_io_pending_wq, loop_wq, done_wq, job, arg, work>>,
               Count(wq', r) = Count(wq, r)
        PROVE  Occurrences(r)' = IF work'[r] = "none" THEN 0 ELSE 1
    BY <1>k, HomeKept DEF Total
  <1>1. ASSUME NEW t \in Workers, WorkerStep(t)
        PROVE  Occurrences(r)' = IF work'[r] = "none" THEN 0 ELSE 1
    <2>1. CASE Lock(t) \/ CondWait(t) \/ SpuriousWakeup(t) \/ CondWaitReturn(t)
               \/ TakeExit(t) \/ RunWork(t)
      BY <2>1, <1>k DEF Lock, CondWait, SpuriousWakeup, CondWaitReturn, TakeExit, RunWork, poolVars,
         resultVars, loopVars
    <2>2. CASE RequeueSlow(t) \/ DropSlowMessage(t)
      <3>1. /\ wq # <<>> /\ Head(wq) = RunSlow
            /\ wq' = Tail(wq) \/ wq' = Append(Tail(wq), RunSlow)
            /\ UNCHANGED <<slow_io_pending_wq, loop_wq, done_wq, job, arg, work>>
        BY <2>2 DEF RequeueSlow, DropSlowMessage, MustWait, workerVars, resultVars, loopVars
      <3>2. Tail(wq) \in Seq(Nodes) /\ RunSlow # r
        BY <1>t, <1>n, <3>1, TailType
      <3>3. Count(Tail(wq), r) = Count(wq, r)
        BY <1>t, <1>n, <1>h, <3>1, <3>2, CountTail DEF One
      <3>4. Count(Append(Tail(wq), RunSlow), r) = Count(wq, r)
        <4>1. Count(Append(Tail(wq), RunSlow), r) =
                Count(wq, r) - One(Head(wq) = r) + One(RunSlow = r)
          BY <1>t, <1>n, <3>1, CountTailAppend
        <4> QED
          BY <1>n, <1>h, <3>1, <4>1 DEF One
      <3> QED
        BY <1>k, <3>1, <3>3, <3>4
    <2>3. CASE TakeSlow(t)
      <3> DEFINE x == Head(slow_io_pending_wq)
      <3>1. /\ wq # <<>> /\ Head(wq) = RunSlow /\ slow_io_pending_wq # <<>>
            /\ wq' = Tail(wq) \/ wq' = Append(Tail(wq), RunSlow)
            /\ slow_io_pending_wq' = Tail(slow_io_pending_wq)
            /\ job' = [job EXCEPT ![t] = x] /\ pc[t] = "top"
            /\ UNCHANGED <<loop_wq, done_wq, arg, work>>
        BY <2>3 DEF TakeSlow, StartJob, MustWait, resultVars, loopVars
      <3>2. Tail(wq) \in Seq(Nodes) /\ RunSlow # r
        BY <1>t, <1>n, <3>1, TailType
      <3>3. Count(Tail(wq), r) = Count(wq, r)
        BY SMTT(30), <1>t, <1>n, <1>h, <3>1, <3>2, CountTail DEF One
      <3>4. Count(Append(Tail(wq), RunSlow), r) = Count(wq, r)
        <4>1. Count(Append(Tail(wq), RunSlow), r) =
                Count(wq, r) - One(Head(wq) = r) + One(RunSlow = r)
          BY <1>t, <1>n, <3>1, CountTailAppend
        <4> QED
          BY <1>n, <1>h, <3>1, <4>1 DEF One
      <3>5. Count(slow_io_pending_wq', r) = Count(slow_io_pending_wq, r) - One(x = r)
        BY <1>t, <1>n, <3>1, CountTail
      <3>6. x \in Reqs /\ job[t] = None
        BY <1>t, <1>n, <3>1 DEF Reqs, PInv, IInv, Phases
      <3>7. Held(job', r) = Held(job, r) - One(job[t] = r) + One(x = r)
        <4>1. /\ job' \in [Workers -> Hands] /\ job'[t] = x
              /\ \A u \in Workers \ {t} : job'[u] = job[u]
          BY <1>t, <1>n, <3>1, <3>6
        <4> HIDE DEF x
        <4>2. Held(job', r) = Held(job, r) - One(job[t] = r) + One(job'[t] = r)
          BY SMTT(30), <1>t, <4>1, HeldPut
        <4> QED
          BY <4>1, <4>2
      <3>8. Held(job', r) = Held(job, r) + One(x = r)
        BY <1>n, <1>h, <3>1, <3>6, <3>7 DEF One
      <3>9. Total(wq', slow_io_pending_wq', loop_wq', done_wq', job', arg', r) =
            Total(wq, slow_io_pending_wq, loop_wq, done_wq, job, arg, r)
        <4>1. Count(wq', r) = Count(wq, r)
          BY <3>1, <3>3, <3>4
        <4>2. One(x = r) \in Nat
          BY DEF One
        <4> HIDE DEF x
        <4> QED
          BY <1>h, <3>1, <3>5, <3>8, <4>1, <4>2 DEF Total
      <3> QED
        BY <3>1, <3>9, HomeKept
    <2>4. CASE TakeFast(t)
      <3> DEFINE x == Head(wq)
      <3>1. /\ wq # <<>> /\ x \in Reqs /\ wq' = Tail(wq)
            /\ job' = [job EXCEPT ![t] = x] /\ pc[t] = "top"
            /\ UNCHANGED <<slow_io_pending_wq, loop_wq, done_wq, arg, work>>
        BY <2>4 DEF TakeFast, StartJob, MustWait, resultVars, loopVars
      <3>2. Count(wq', r) = Count(wq, r) - One(x = r)
        BY <1>t, <1>n, <3>1, CountTail
      <3>3. job[t] = None
        BY <1>t, <1>n, <3>1 DEF PInv, IInv, Phases
      <3>4. Held(job', r) = Held(job, r) - One(job[t] = r) + One(x = r)
        <4>1. /\ job' \in [Workers -> Hands] /\ job'[t] = x
              /\ \A u \in Workers \ {t} : job'[u] = job[u]
          BY <1>t, <1>n, <3>1
        <4> HIDE DEF x
        <4>2. Held(job', r) = Held(job, r) - One(job[t] = r) + One(job'[t] = r)
          BY SMTT(30), <1>t, <4>1, HeldPut
        <4> QED
          BY <4>1, <4>2
      <3>5. Held(job', r) = Held(job, r) + One(x = r)
        BY <1>n, <1>h, <3>1, <3>3, <3>4 DEF One
      <3>6. Total(wq', slow_io_pending_wq', loop_wq', done_wq', job', arg', r) =
            Total(wq, slow_io_pending_wq, loop_wq, done_wq, job, arg, r)
        BY SMTT(30), <1>n, <1>h, <3>1, <3>2, <3>5 DEF Total, One
      <3> QED
        BY <3>1, <3>6, HomeKept
    <2>5. CASE HandOver(t)
      <3> DEFINE x == job[t]
      <3>1. /\ work' = [work EXCEPT ![x] = "null"] /\ loop_wq' = Append(loop_wq, x)
            /\ job' = [job EXCEPT ![t] = None] /\ pc[t] = "finish"
            /\ UNCHANGED <<wq, slow_io_pending_wq, done_wq, arg>>
        BY <2>5 DEF HandOver, poolVars, loopVars
      <3>2. x \in Reqs /\ work[x] = "set"
        BY <1>t, <1>n, <3>1 DEF PInv, IInv, Phases, StatusTruthful, Hands
      <3>3. Count(loop_wq', r) = Count(loop_wq, r) + One(x = r)
        BY <1>t, <1>n, <3>1, <3>2, CountAppend
      <3>4. Held(job', r) = Held(job, r) - One(x = r) + One(None = r)
        <4>1. /\ job' \in [Workers -> Hands] /\ job'[t] = None
              /\ \A u \in Workers \ {t} : job'[u] = job[u]
          BY <1>t, <1>n, <3>1
        <4>2. Held(job', r) = Held(job, r) - One(job[t] = r) + One(job'[t] = r)
          BY SMTT(30), <1>t, <4>1, HeldPut
        <4> QED
          BY <4>1, <4>2
      <3>5. Total(wq', slow_io_pending_wq', loop_wq', done_wq', job', arg', r) =
            Total(wq, slow_io_pending_wq, loop_wq, done_wq, job, arg, r)
        BY <1>n, <1>h, <3>1, <3>3, <3>4 DEF Total, One
      <3>6. (work[r] = "none") <=> (work'[r] = "none")
        BY <1>t, <1>n, <3>1, <3>2
      <3> QED
        BY <3>5, <3>6, HomeKept
    <2> QED
      BY <1>1, <2>1, <2>2, <2>3, <2>4, <2>5 DEF WorkerStep, Acquire, HoldsMutex
  <1>2. ASSUME NEW x \in Reqs, uv__work_submit(x)
        PROVE  Occurrences(r)' = IF work'[r] = "none" THEN 0 ELSE 1
    <2>1. /\ work[x] = "none" /\ work' = [work EXCEPT ![x] = "set"]
          /\ call = "none" /\ arg' = x
          /\ UNCHANGED <<loop_wq, done_wq, job>>
      BY <1>2 DEF uv__work_submit, UserCode, resultVars
    <2>2. wq' = wq /\ slow_io_pending_wq' = slow_io_pending_wq
      BY <1>2, ConstantsAssumption DEF uv__work_submit, PInv, Unstarted
    <2>3. arg = None
      BY <2>1 DEF PInv, Turns
    <2>4. Total(wq', slow_io_pending_wq', loop_wq', done_wq', job', arg', r) =
          Total(wq, slow_io_pending_wq, loop_wq, done_wq, job, arg, r) + One(x = r)
      BY <1>n, <1>h, <2>1, <2>2, <2>3 DEF Total, One
    <2>5. Total(wq, slow_io_pending_wq, loop_wq, done_wq, job, arg, r) = One(work[r] # "none")
      BY <1>n, <1>h DEF Total
    <2>6. Occurrences(r)' = One(work[r] # "none") + One(x = r)
      BY <2>4, <2>5, OccurrencesTotal
    <2> QED
      BY <1>t, <1>n, <2>1, <2>6 DEF One
  <1>3. CASE post
    <2>1. /\ call = "post" /\ arg' = None
          /\ UNCHANGED <<job, work, loop_wq, done_wq>>
      BY <1>3 DEF post, resultVars
    <2>2. arg \in Reqs
      BY <2>1 DEF PInv, Turns, IInv, TypeOK, LoopTypeOK
    <2>3. CASE arg \in FastReqs
      <3>1. wq' = Append(wq, arg) /\ slow_io_pending_wq' = slow_io_pending_wq
        BY <1>3, <2>3, ConstantsAssumption DEF post, PostNode
      <3>2. Count(wq', r) = Count(wq, r) + One(arg = r)
        BY <1>t, <1>n, <2>3, <3>1, CountAppend
      <3>3. Total(wq', slow_io_pending_wq', loop_wq', done_wq', job', arg', r) =
            Total(wq, slow_io_pending_wq, loop_wq, done_wq, job, arg, r)
        BY <1>n, <1>h, <2>1, <3>1, <3>2 DEF Total, One
      <3> QED
        BY <2>1, <3>3, HomeKept
    <2>4. CASE arg \in SlowReqs
      <3>1. /\ slow_io_pending_wq' = Append(slow_io_pending_wq, arg)
            /\ wq' = wq \/ wq' = Append(wq, RunSlow)
        BY <1>3, <2>4, ConstantsAssumption DEF post, PostNode
      <3>2. Count(slow_io_pending_wq', r) = Count(slow_io_pending_wq, r) + One(arg = r)
        BY <1>t, <1>n, <2>4, <3>1, CountAppend
      <3>3. Count(Append(wq, RunSlow), r) = Count(wq, r) + One(RunSlow = r)
        BY <1>t, <1>n, CountAppend
      <3>4. Count(wq', r) = Count(wq, r)
        <4>1. Count(Append(wq, RunSlow), r) = Count(wq, r)
          BY <1>n, <1>h, <3>3 DEF One
        <4> QED
          BY <3>1, <4>1
      <3>5. Total(wq', slow_io_pending_wq', loop_wq', done_wq', job', arg', r) =
            Total(wq, slow_io_pending_wq, loop_wq, done_wq, job, arg, r)
        BY <1>n, <1>h, <2>1, <3>2, <3>4 DEF Total, One
      <3> QED
        BY <2>1, <3>5, HomeKept
    <2> QED
      BY <2>2, <2>3, <2>4 DEF Reqs
  <1>4. CASE uv__threadpool_cleanup
    BY <1>4, <1>t, <1>n, <1>h, <1>k, CountAppend DEF uv__threadpool_cleanup, PostNode, resultVars,
       One
  <1>5. ASSUME NEW x \in Reqs, CancelRemove(x)
        PROVE  Occurrences(r)' = IF work'[r] = "none" THEN 0 ELSE 1
    <2>1. /\ work[x] # "none" /\ work' = [work EXCEPT ![x] = "cancelled"]
          /\ call = "none" /\ arg' = x /\ UNCHANGED job
      BY <1>5 DEF CancelRemove, UserCode, workerVars
    <2>2. arg = None
      BY <2>1 DEF PInv, Turns
    <2> DEFINE A == Count(wq', r) + Count(slow_io_pending_wq', r) + Count(loop_wq', r)
                      + Count(done_wq', r)
               B == Count(wq, r) + Count(slow_io_pending_wq, r) + Count(loop_wq, r)
                      + Count(done_wq, r)
    <2>3. A = B - One(x = r)
      <3>1. ASSUME NEW i \in DOMAIN wq, wq[i] = x, wq' = RemoveNode(wq, i)
            PROVE  Count(wq', r) = Count(wq, r) - One(x = r)
        BY <1>t, <1>n, <3>1, CountRemove
      <3>2. ASSUME NEW i \in DOMAIN slow_io_pending_wq, slow_io_pending_wq[i] = x,
                   slow_io_pending_wq' = RemoveNode(slow_io_pending_wq, i)
            PROVE  Count(slow_io_pending_wq', r) = Count(slow_io_pending_wq, r) - One(x = r)
        BY <1>t, <1>n, <3>2, CountRemove
      <3>3. ASSUME NEW i \in DOMAIN loop_wq, loop_wq[i] = x,
                   loop_wq' = RemoveNode(loop_wq, i)
            PROVE  Count(loop_wq', r) = Count(loop_wq, r) - One(x = r)
        BY <1>t, <1>n, <3>3, CountRemove
      <3>4. ASSUME NEW i \in DOMAIN done_wq, done_wq[i] = x,
                   done_wq' = RemoveNode(done_wq, i)
            PROVE  Count(done_wq', r) = Count(done_wq, r) - One(x = r)
        BY <1>t, <1>n, <3>4, CountRemove
      <3>5. \/ /\ Count(wq', r) = Count(wq, r) - One(x = r)
               /\ UNCHANGED <<slow_io_pending_wq, loop_wq, done_wq>>
            \/ /\ Count(slow_io_pending_wq', r) = Count(slow_io_pending_wq, r) - One(x = r)
               /\ UNCHANGED <<wq, loop_wq, done_wq>>
            \/ /\ Count(loop_wq', r) = Count(loop_wq, r) - One(x = r)
               /\ UNCHANGED <<wq, slow_io_pending_wq, done_wq>>
            \/ /\ Count(done_wq', r) = Count(done_wq, r) - One(x = r)
               /\ UNCHANGED <<wq, slow_io_pending_wq, loop_wq>>
        BY <1>5, <3>1, <3>2, <3>3, <3>4 DEF CancelRemove
      <3>6. One(x = r) \in Nat
        BY DEF One
      <3> QED
        BY <1>n, <1>h, <3>5, <3>6
    <2>4. Total(wq', slow_io_pending_wq', loop_wq', done_wq', job', arg', r) =
          Total(wq, slow_io_pending_wq, loop_wq, done_wq, job, arg, r)
      <3>1. A = B - One(x = r) /\ B \in Nat
        BY <1>h, <2>3
      <3>2. Total(wq', slow_io_pending_wq', loop_wq', done_wq', job', arg', r) =
              A + Held(job, r) + One(x = r)
        BY <2>1 DEF Total
      <3>3. Total(wq, slow_io_pending_wq, loop_wq, done_wq, job, arg, r) =
              B + Held(job, r)
        BY <1>n, <1>h, <2>2 DEF Total, One
      <3> HIDE DEF A, B
      <3>4. One(x = r) \in Nat
        BY DEF One
      <3> QED
        BY <1>n, <1>h, <3>1, <3>2, <3>3, <3>4
    <2>5. (work[r] = "none") <=> (work'[r] = "none")
      BY <1>t, <1>n, <2>1
    <2> QED
      BY <2>4, <2>5, HomeKept
  <1>6. CASE CancelInsert
    <2>1. /\ call = "cancel" /\ loop_wq' = Append(loop_wq, arg) /\ arg' = None
          /\ UNCHANGED <<wq, slow_io_pending_wq, done_wq, job, work>>
      BY <1>6 DEF CancelInsert, workerVars, poolVars
    <2>2. arg \in Reqs
      BY <2>1 DEF PInv, Turns, IInv, TypeOK, LoopTypeOK
    <2>3. Count(loop_wq', r) = Count(loop_wq, r) + One(arg = r)
      BY <1>t, <1>n, <2>1, <2>2, CountAppend
    <2>4. Total(wq', slow_io_pending_wq', loop_wq', done_wq', job', arg', r) =
          Total(wq, slow_io_pending_wq, loop_wq, done_wq, job, arg, r)
      BY <1>n, <1>h, <2>1, <2>3 DEF Total, One
    <2> QED
      BY <2>1, <2>4, HomeKept
  <1>7. CASE WorkDoneStart
    BY <1>7, <1>n, <1>h, CountEmpty, HomeKept DEF WorkDoneStart, workerVars, poolVars, PInv, Turns,
       Total
  <1>8. CASE WorkDoneNext
    <2> DEFINE x == Head(done_wq)
    <2>1. /\ done_wq # <<>> /\ done_wq' = Tail(done_wq)
          /\ work' = [work EXCEPT ![x] = "none"]
          /\ UNCHANGED <<wq, slow_io_pending_wq, loop_wq, job, arg>>
      BY <1>8 DEF WorkDoneNext, workerVars, poolVars, resultVars
    <2>2. Count(done_wq', r) = Count(done_wq, r) - One(x = r) /\ x \in Reqs
      BY <1>t, <1>n, <2>1, CountTail
    <2>3. Total(wq', slow_io_pending_wq', loop_wq', done_wq', job', arg', r) =
          Total(wq, slow_io_pending_wq, loop_wq, done_wq, job, arg, r) - One(x = r)
      BY <1>n, <1>h, <2>1, <2>2 DEF Total, One
    <2>4. Occurrences(r)' = One(work[r] # "none") - One(x = r)
      BY <1>n, <1>h, <2>3, OccurrencesTotal DEF Total
    <2>5. x \in In(done_wq)
      BY <1>t, <1>n, <2>1 DEF In
    <2>6. work[x] # "none"
      BY <2>2, <2>5, HomeFacts DEF One
    <2> QED
      BY <1>t, <1>n, <2>1, <2>2, <2>4, <2>6 DEF One
  <1>9. CASE CallbackReturn \/ WorkDoneEnd \/ ThreadsJoined \/ Terminated \/ UNCHANGED vars
    BY <1>9, <1>k DEF CallbackReturn, WorkDoneEnd, ThreadsJoined, Terminated, vars, workerVars,
       poolVars, resultVars, loopVars
  <1> QED
    BY <1>1, <1>2, <1>3, <1>4, <1>5, <1>6, <1>7, <1>8, <1>9, StepKinds
       DEF LoopOnly, WorkDone

-----------------------------------------------------------------------------
(* The loop's turns, the start of the threads and the slow message.        *)

\* A call begins and ends with its request; uv__work_done() empties its list.
LEMMA TurnsStep == ASSUME PInv, [Next]_vars PROVE Turns'
  <1> USE ConstantsAssumption
  <1> USE DEF PInv, Turns
  <1>1. ASSUME NEW t \in Workers, WorkerStep(t) PROVE Turns'
    <2>1. UNCHANGED <<call, arg, loop, done_wq>>
      BY <1>1 DEF WorkerStep, Acquire, HoldsMutex, Lock, CondWait, SpuriousWakeup,
                  CondWaitReturn, TakeExit, RequeueSlow, DropSlowMessage, TakeSlow,
                  TakeFast, RunWork, HandOver, loopVars
    <2> QED
      BY <2>1
  <1>2. ASSUME NEW r \in Reqs, uv__work_submit(r) PROVE Turns'
    BY <1>2 DEF uv__work_submit
  <1>3. CASE post \/ uv__threadpool_cleanup
    BY <1>3 DEF post, uv__threadpool_cleanup
  <1>4. ASSUME NEW r \in Reqs, CancelRemove(r) PROVE Turns'
    <2>1. call' = "cancel" /\ arg' = r /\ loop' = loop
      BY <1>4 DEF CancelRemove
    <2>2. ASSUME loop \notin {"done", "callback"} PROVE done_wq' = <<>>
      BY <2>2, <1>4 DEF CancelRemove
    <2> QED
      BY <2>1, <2>2
  <1>5. CASE CancelInsert \/ WorkDone \/ ThreadsJoined \/ Terminated \/ UNCHANGED vars
    BY <1>5 DEF CancelInsert, WorkDone, WorkDoneStart, WorkDoneNext, CallbackReturn,
                WorkDoneEnd, ThreadsJoined, Terminated, vars, loopVars
  <1> QED
    BY <1>1, <1>2, <1>3, <1>4, <1>5, StepKinds DEF LoopOnly

\* Nothing is queued before the threads are there to take it.
LEMMA UnstartedStep == ASSUME PInv, [Next]_vars PROVE Unstarted'
  <1> USE DEF PInv, Unstarted
  <1>t. pc \in [Workers -> WorkerPcs]
    BY DEF IInv, TypeOK, WorkerTypeOK
  <1>1. ASSUME NEW t \in Workers, WorkerStep(t) PROVE Unstarted'
    <2>1. /\ pc[t] # "none"
          /\ \A u \in Workers \ {t} :
               pc'[u] = pc[u] \/ (pc[u] = "waiting" /\ pc'[u] = "woken")
      BY <1>1, WorkerPcStep DEF WorkerStep, Acquire, HoldsMutex, Lock, CondWait,
                  SpuriousWakeup, CondWaitReturn, TakeExit, RequeueSlow, DropSlowMessage,
                  TakeSlow, TakeFast, RunWork, HandOver
    <2>2. pc'[t] # "none"
      <3>1. CASE TakeExit(t) \/ TakeSlow(t)
        <4> DEFINE p == [pc EXCEPT ![t] = IF TakeExit(t) THEN "exited" ELSE "work"]
        <4>1. /\ p \in [Workers -> WorkerPcs]
              /\ p[t] \in {"work", "exited"}
              /\ pc' = p \/ pc' \in cond_signal(p)
          BY <1>t, <3>1 DEF TakeExit, TakeSlow, SignalIfIdle, WorkerPcs
        <4> HIDE DEF p
        <4> QED
          BY <4>1, SignalFacts
      <3>2. CASE ~(TakeExit(t) \/ TakeSlow(t))
        BY <1>t, <1>1, <2>1, <3>2 DEF WorkerStep, Acquire, HoldsMutex, Lock, CondWait,
                  SpuriousWakeup, CondWaitReturn, RequeueSlow, DropSlowMessage, TakeFast,
                  RunWork, HandOver, workerVars
      <3> QED
        BY <3>1, <3>2
    <2>3. ~\E u \in Workers : pc'[u] = "none"
      BY <2>1, <2>2
    <2> QED
      BY <2>3
  <1>2. ASSUME NEW r \in Reqs, uv__work_submit(r) PROVE Unstarted'
    BY <1>2 DEF uv__work_submit
  <1>3. CASE post \/ uv__threadpool_cleanup
    BY <1>3, PostFrame DEF post, uv__threadpool_cleanup
  <1>4. CASE LoopOnly
    <2>1. SUFFICES ASSUME NEW t \in Workers, pc[t] = "none" PROVE Unstarted'
      BY <1>4, LoopOnlyFrame
    <2>2. ASSUME NEW r \in Reqs, CancelRemove(r) PROVE FALSE
      BY <2>1, <2>2 DEF CancelRemove
    <2>3. CASE WorkDone
      BY <2>1, <2>3 DEF WorkDone, WorkDoneStart, WorkDoneNext, CallbackReturn, WorkDoneEnd,
                workerVars, poolVars, resultVars
    <2>4. CASE CancelInsert \/ ThreadsJoined \/ Terminated \/ UNCHANGED vars
      BY <2>1, <2>4 DEF CancelInsert, ThreadsJoined, Terminated, vars, workerVars, poolVars,
                resultVars, loopVars
    <2> QED
      BY <1>4, <2>2, <2>3, <2>4 DEF LoopOnly
  <1> QED
    BY <1>1, <1>2, <1>3, <1>4, StepKinds

\* What a step does to wq, unless it starts the threads.
LEMMA QueueSteps ==
  ASSUME PInv, [Next]_vars
  PROVE  \/ wq' = wq /\ slow_io_pending_wq' = slow_io_pending_wq
         \/ \E t \in Workers : RequeueSlow(t) \/ DropSlowMessage(t) \/ TakeSlow(t) \/ TakeFast(t)
         \/ \E r \in Reqs : CancelRemove(r)
         \/ post \/ uv__threadpool_cleanup
  <1>1. ASSUME NEW t \in Workers, WorkerStep(t),
               ~(RequeueSlow(t) \/ DropSlowMessage(t) \/ TakeSlow(t) \/ TakeFast(t))
        PROVE  wq' = wq /\ slow_io_pending_wq' = slow_io_pending_wq
    BY <1>1 DEF WorkerStep, Acquire, HoldsMutex, Lock, CondWait, SpuriousWakeup,
                CondWaitReturn, TakeExit, RunWork, HandOver, poolVars
  <1>2. ASSUME NEW r \in Reqs, uv__work_submit(r)
        PROVE  wq' = wq /\ slow_io_pending_wq' = slow_io_pending_wq
    BY <1>2, ConstantsAssumption DEF uv__work_submit, PInv, Unstarted
  <1>3. CASE CancelInsert \/ WorkDone \/ ThreadsJoined \/ Terminated \/ UNCHANGED vars
    BY <1>3 DEF CancelInsert, WorkDone, WorkDoneStart, WorkDoneNext, CallbackReturn,
                WorkDoneEnd, ThreadsJoined, Terminated, vars, poolVars
  <1> QED
    BY <1>1, <1>2, <1>3, StepKinds DEF LoopOnly

\* post() puts the slow message before the first slow request, the workers
\* put it back as long as there is another, and uv__work_cancel() cannot take it.
LEMMA AnnouncedStep == ASSUME PInv, [Next]_vars PROVE SlowAnnounced'
  <1>n. /\ RunSlow \in Nodes /\ Exit \in Nodes /\ FastReqs \subseteq Nodes
        /\ RunSlow # Exit /\ RunSlow \notin Reqs /\ FastReqs \subseteq Reqs
    BY ConstantsAssumption DEF Nodes, Reqs
  <1>t. /\ wq \in Seq(Nodes) /\ slow_io_pending_wq \in Seq(SlowReqs)
        /\ wq' \in Seq(Nodes) /\ Count(wq, RunSlow) \in Nat
    BY StepIInv, PlacesFinite DEF PInv, IInv, TypeOK, PoolTypeOK, Nodes
  <1>a. /\ slow_io_pending_wq # <<>> => Count(wq, RunSlow) > 0
        /\ Count(wq, RunSlow) <= 1
    BY <1>t, CountIn DEF PInv, SlowAnnounced, Count
  <1>b. SUFFICES /\ slow_io_pending_wq' # <<>> => Count(wq', RunSlow) > 0
                 /\ Count(wq', RunSlow) <= 1
    BY <1>t, <1>b, CountIn DEF SlowAnnounced, Count, In
  <1> DEFINE Goal == /\ slow_io_pending_wq' # <<>> => Count(wq', RunSlow) > 0
                     /\ Count(wq', RunSlow) <= 1
  <1>1. CASE wq' = wq /\ slow_io_pending_wq' = slow_io_pending_wq
    BY <1>a, <1>1
  <1>2. ASSUME NEW t \in Workers,
               RequeueSlow(t) \/ DropSlowMessage(t) \/ TakeSlow(t) \/ TakeFast(t)
        PROVE  Goal
    <2>1. wq # <<>>
      BY <1>2 DEF RequeueSlow, DropSlowMessage, TakeFast, TakeSlow, MustWait
    <2>2. Count(Tail(wq), RunSlow) = Count(wq, RunSlow) - One(Head(wq) = RunSlow)
      BY <1>t, <2>1, CountTail
    <2>3. Count(Append(Tail(wq), RunSlow), RunSlow) =
            Count(wq, RunSlow) - One(Head(wq) = RunSlow) + One(RunSlow = RunSlow)
      BY <1>t, <1>n, <2>1, CountTailAppend
    <2>4. CASE TakeFast(t)
      BY <1>n, <2>4, <1>t, <1>a, <2>2 DEF TakeFast, One
    <2>5. CASE RequeueSlow(t) \/ DropSlowMessage(t) \/ TakeSlow(t)
      <3>1. /\ Head(wq) = RunSlow
            /\ \/ wq' = Append(Tail(wq), RunSlow)
               \/ wq' = Tail(wq) /\ slow_io_pending_wq' = <<>>
        BY <2>5 DEF RequeueSlow, DropSlowMessage, TakeSlow
      <3>2. Count(Tail(wq), RunSlow) = Count(wq, RunSlow) - 1
        BY <2>2, <3>1 DEF One
      <3>3. Count(Append(Tail(wq), RunSlow), RunSlow) = Count(wq, RunSlow)
        BY <1>t, <2>3, <3>1 DEF One
      <3>4. Count(wq, RunSlow) > 0
        BY <1>t, <2>1, <3>1, CountIn DEF In
      <3> QED
        <4>1. CASE wq' = Append(Tail(wq), RunSlow)
          BY <1>a, <3>3, <3>4, <4>1
        <4>2. CASE wq' = Tail(wq) /\ slow_io_pending_wq' = <<>>
          BY <1>t, <1>a, <3>2, <4>2
        <4> QED
          BY <3>1, <4>1, <4>2
    <2> QED
      BY <1>2, <2>4, <2>5
  <1>3. ASSUME NEW r \in Reqs, CancelRemove(r) PROVE Goal
    <2>1. ASSUME NEW i \in DOMAIN wq, wq[i] = r, wq' = RemoveNode(wq, i)
          PROVE  Count(wq', RunSlow) = Count(wq, RunSlow)
      BY <1>t, <2>1, <1>n, CountRemove DEF One
    <2>2. ASSUME NEW i \in DOMAIN slow_io_pending_wq, wq' = wq PROVE Goal
      BY <1>a, <2>2
    <2> QED
      BY <1>3, <1>a, <2>1, <2>2 DEF CancelRemove
  <1>4. CASE post
    <2>1. CASE arg \in FastReqs
      <3>1. wq' = Append(wq, arg) /\ slow_io_pending_wq' = slow_io_pending_wq
        BY <1>4, <2>1, ConstantsAssumption DEF post, PostNode
      <3>2. Count(wq', RunSlow) = Count(wq, RunSlow) + One(arg = RunSlow)
        BY <1>t, <1>n, <2>1, <3>1, CountAppend
      <3> QED
        BY <1>t, <1>n, <1>a, <2>1, <3>1, <3>2 DEF One
    <2>2. CASE arg \in SlowReqs
      <3>1. \/ RunSlow \in In(wq) /\ wq' = wq
            \/ RunSlow \notin In(wq) /\ wq' = Append(wq, RunSlow)
        BY <1>4, <2>2, ConstantsAssumption DEF post, PostNode
      <3>2. Count(Append(wq, RunSlow), RunSlow) = Count(wq, RunSlow) + One(RunSlow = RunSlow)
        BY <1>t, <1>n, CountAppend
      <3>3. RunSlow \in In(wq) <=> Count(wq, RunSlow) > 0
        BY <1>t, CountIn
      <3> QED
        <4>1. CASE RunSlow \in In(wq) /\ wq' = wq
          BY <1>a, <3>3, <4>1
        <4>2. CASE RunSlow \notin In(wq) /\ wq' = Append(wq, RunSlow)
          BY <1>t, <3>3, <4>2, <3>2 DEF One
        <4> QED
          BY <3>1, <4>1, <4>2
    <2> QED
      BY <1>4, <2>1, <2>2 DEF post
  <1>5. CASE uv__threadpool_cleanup
    BY <1>5, <1>t, <1>n, <1>a, CountAppend DEF uv__threadpool_cleanup, PostNode, One
  <1> QED
    BY <1>1, <1>2, <1>3, <1>4, <1>5, QueueSteps

-----------------------------------------------------------------------------
(* What is linked where: HomeFacts without numbers, before and after a step. *)

\* QUEUE_INSERT_TAIL links its node and no other.
LEMMA InAppend ==
  ASSUME NEW S, NEW q \in Seq(S), NEW x \in S
  PROVE  In(Append(q, x)) = In(q) \cup {x}
  BY InsertTail

\* QUEUE_REMOVE unlinks a node that was linked, and links none.
LEMMA InRemove ==
  ASSUME NEW S, NEW q \in Seq(S), NEW i \in DOMAIN q
  PROVE  q[i] \in In(q) /\ In(RemoveNode(q, i)) \subseteq In(q)
  BY DEF In, RemoveNode

\* So does taking the head.
LEMMA InTail ==
  ASSUME NEW S, NEW q \in Seq(S), q # <<>>
  PROVE  Head(q) \in In(q) /\ In(Tail(q)) \subseteq In(q)
  <1>1. 1 \in DOMAIN q /\ q[1] = Head(q)
    OBVIOUS
  <1> QED
    BY <1>1, InRemove, TailRemoves

\* Request r is in at most one of the six places, and in none if b is false.
Alone(w, s, l, d, j, a, r, b) ==
  /\ b <=> \/ r \in In(w) \/ r \in In(s) \/ r \in In(l) \/ r \in In(d)
           \/ a = r \/ \E t \in Workers : j[t] = r
  /\ r \in In(w) => r \notin In(s) /\ r \notin In(l) /\ r \notin In(d)
  /\ r \in In(s) => r \notin In(l) /\ r \notin In(d)
  /\ r \in In(l) => r \notin In(d)
  /\ a = r \/ (\E t \in Workers : j[t] = r) =>
       r \notin In(w) /\ r \notin In(s) /\ r \notin In(l) /\ r \notin In(d)
  /\ a = r => \A t \in Workers : j[t] # r
  /\ \A t, u \in Workers : j[t] = r /\ j[u] = r => t = u

\* Natural numbers that add up to one at most.
LEMMA AtMostOne ==
  ASSUME NEW a \in Nat, NEW b \in Nat, NEW c \in Nat, NEW d \in Nat, NEW h \in Nat,
         NEW e \in Nat, NEW n \in {0, 1}, a + b + c + d + h + e = n
  PROVE  /\ n > 0 <=> a > 0 \/ b > 0 \/ c > 0 \/ d > 0 \/ h > 0 \/ e > 0
         /\ a > 0 => ~(b > 0 \/ c > 0 \/ d > 0)
         /\ b > 0 => ~(c > 0 \/ d > 0)
         /\ c > 0 => ~(d > 0)
         /\ e > 0 \/ h > 0 => ~(a > 0 \/ b > 0 \/ c > 0 \/ d > 0)
         /\ e > 0 => ~(h > 0)
         /\ h <= 1
  OBVIOUS

\* A request that is counted once over all places is in one place (uv__work_submit()
\* to uv__work_done()).
LEMMA AloneFacts ==
  ASSUME NEW w \in Seq(Nodes), NEW s \in Seq(SlowReqs), NEW l \in Seq(Reqs),
         NEW d \in Seq(Reqs), NEW j \in [Workers -> Hands], NEW a, NEW r,
         NEW b \in BOOLEAN, Total(w, s, l, d, j, a, r) = One(b)
  PROVE  Alone(w, s, l, d, j, a, r, b)
  <1>1. /\ Count(w, r) \in Nat /\ Count(s, r) \in Nat
        /\ Count(l, r) \in Nat /\ Count(d, r) \in Nat
    BY PlacesFinite
  <1>2. /\ r \in In(w) <=> Count(w, r) > 0
        /\ r \in In(s) <=> Count(s, r) > 0
        /\ r \in In(l) <=> Count(l, r) > 0
        /\ r \in In(d) <=> Count(d, r) > 0
    BY CountIn
  <1>3. /\ Held(j, r) \in Nat
        /\ (\E t \in Workers : j[t] = r) <=> Held(j, r) > 0
        /\ Held(j, r) <= 1 => \A t, u \in Workers : j[t] = r /\ j[u] = r => t = u
    BY HeldFacts
  <1> DEFINE e == One(a = r)
             n == One(b)
  <1>4. Count(w, r) + Count(s, r) + Count(l, r) + Count(d, r) + Held(j, r) + e = n
    BY DEF Total
  <1>a. e \in {0, 1} /\ (a = r <=> e > 0)
    BY DEF One
  <1>b. n \in {0, 1} /\ (b <=> n > 0)
    BY DEF One
  <1> DEFINE cw == Count(w, r)
             cs == Count(s, r)
             cl == Count(l, r)
             cd == Count(d, r)
             h == Held(j, r)
  <1> HIDE DEF e, n, cw, cs, cl, cd, h
  <1>5. /\ n > 0 <=> cw > 0 \/ cs > 0 \/ cl > 0 \/ cd > 0 \/ h > 0 \/ e > 0
        /\ cw > 0 => ~(cs > 0 \/ cl > 0 \/ cd > 0)
        /\ cs > 0 => ~(cl > 0 \/ cd > 0)
        /\ cl > 0 => ~(cd > 0)
        /\ e > 0 \/ h > 0 => ~(cw > 0 \/ cs > 0 \/ cl > 0 \/ cd > 0)
        /\ e > 0 => ~(h > 0)
        /\ h <= 1
    <2>1. /\ cw \in Nat /\ cs \in Nat /\ cl \in Nat /\ cd \in Nat /\ h \in Nat
          /\ e \in Nat /\ n \in {0, 1}
          /\ cw + cs + cl + cd + h + e = n
      BY <1>1, <1>3, <1>4, <1>a, <1>b DEF cw, cs, cl, cd, h
    <2> QED
      BY <2>1, AtMostOne
  <1>6. /\ r \in In(w) <=> cw > 0
        /\ r \in In(s) <=> cs > 0
        /\ r \in In(l) <=> cl > 0
        /\ r \in In(d) <=> cd > 0
        /\ (\E t \in Workers : j[t] = r) <=> h > 0
        /\ h <= 1 => \A t, u \in Workers : j[t] = r /\ j[u] = r => t = u
    BY <1>2, <1>3 DEF cw, cs, cl, cd, h
  <1> QED
    BY <1>5, <1>6, <1>a, <1>b DEF Alone

\* Before a step of the pool and after it.
LEMMA StepAlone ==
  ASSUME PInv, [Next]_vars, NEW r \in Reqs
  PROVE  /\ Alone(wq, slow_io_pending_wq, loop_wq, done_wq, job, arg, r, work[r] # "none")
         /\ Alone(wq', slow_io_pending_wq', loop_wq', done_wq', job', arg', r,
                  work'[r] # "none")
  <1>1. Total(wq, slow_io_pending_wq, loop_wq, done_wq, job, arg, r) = One(work[r] # "none")
    BY HomeFacts DEF Total
  <1>2. Total(wq', slow_io_pending_wq', loop_wq', done_wq', job', arg', r) =
          One(work'[r] # "none")
    BY HomeStep, OccurrencesTotal DEF OneHome, One
  <1>3. /\ wq \in Seq(Nodes) /\ slow_io_pending_wq \in Seq(SlowReqs)
        /\ loop_wq \in Seq(Reqs) /\ done_wq \in Seq(Reqs) /\ job \in [Workers -> Hands]
    BY DEF PInv, IInv, TypeOK, PoolTypeOK, LoopTypeOK, WorkerTypeOK, Nodes, Hands
  <1>4. /\ wq' \in Seq(Nodes) /\ slow_io_pending_wq' \in Seq(SlowReqs)
        /\ loop_wq' \in Seq(Reqs) /\ done_wq' \in Seq(Reqs) /\ job' \in [Workers -> Hands]
    BY StepIInv DEF PInv, IInv, TypeOK, PoolTypeOK, LoopTypeOK, WorkerTypeOK, Nodes, Hands
  <1>5. (work[r] # "none") \in BOOLEAN /\ (work'[r] # "none") \in BOOLEAN
    OBVIOUS
  <1>6. Alone(wq, slow_io_pending_wq, loop_wq, done_wq, job, arg, r, work[r] # "none")
    BY <1>1, <1>3, <1>5, AloneFacts
  <1>7. Alone(wq', slow_io_pending_wq', loop_wq', done_wq', job', arg', r, work'[r] # "none")
    BY <1>2, <1>4, <1>5, AloneFacts
  <1> QED
    BY <1>6, <1>7

-----------------------------------------------------------------------------
(* The status of a request tells the truth about its work function.        *)

\* Which workers are inside or behind a work function after a worker's step.
LEMMA WorkPcs ==
  ASSUME PInv, NEW t \in Workers, WorkerStep(t)
  PROVE  /\ \A u \in Workers \ {t} : pc'[u] \in {"work", "finish"} => pc'[u] = pc[u]
         /\ pc'[t] = IF TakeSlow(t) \/ TakeFast(t) THEN "work"
                     ELSE IF RunWork(t) THEN "finish" ELSE pc'[t]
         /\ ~(TakeSlow(t) \/ TakeFast(t) \/ RunWork(t)) => pc'[t] \notin {"work", "finish"}
  <1>t. pc \in [Workers -> WorkerPcs]
    BY DEF PInv, IInv, TypeOK, WorkerTypeOK
  <1>1. \A u \in Workers \ {t} : pc'[u] \in {"work", "finish"} => pc'[u] = pc[u]
    BY WorkerPcStep DEF PInv
  <1>2. CASE TakeExit(t) \/ TakeSlow(t)
    <2> DEFINE v == IF TakeExit(t) THEN "exited" ELSE "work"
               p == [pc EXCEPT ![t] = v]
    <2>1. /\ p \in [Workers -> WorkerPcs] /\ p[t] = v
          /\ pc' = p \/ pc' \in cond_signal(p)
      BY <1>t, <1>2 DEF TakeExit, TakeSlow, SignalIfIdle, WorkerPcs
    <2>2. v \in {"exited", "work"}
      OBVIOUS
    <2> HIDE DEF p, v
    <2>3. pc'[t] = v
      BY <2>1, <2>2, SignalFacts
    <2>4. ~(TakeExit(t) /\ TakeSlow(t)) /\ ~(TakeExit(t) /\ TakeFast(t))
      BY ConstantsAssumption DEF TakeExit, TakeSlow, TakeFast
    <2>5. ~(RunWork(t) /\ TakeExit(t)) /\ ~(RunWork(t) /\ TakeSlow(t))
      BY DEF RunWork, TakeExit, TakeSlow
    <2> QED
      BY <1>1, <1>2, <2>3, <2>4, <2>5 DEF v
  <1>3. CASE ~(TakeExit(t) \/ TakeSlow(t))
    <2>1. CASE TakeFast(t)
      BY <1>t, <1>1, <2>1 DEF TakeFast
    <2>2. CASE RunWork(t)
      BY <2>2, <1>t, <1>1 DEF RunWork, TakeSlow, TakeFast
    <2>3. CASE ~(TakeFast(t) \/ RunWork(t))
      BY <1>t, <1>1, <1>3, <2>3 DEF WorkerStep, Acquire, HoldsMutex, Lock, CondWait,
                SpuriousWakeup, CondWaitReturn, RequeueSlow, DropSlowMessage,
                HandOver, workerVars
    <2> QED
      BY <2>1, <2>2, <2>3
  <1> QED
    BY <1>2, <1>3

\* A worker's step: the work function runs once the request can no longer be
\* cancelled, and before the loop hears of it.
LEMMA FateWorker ==
  ASSUME PInv, NEW t \in Workers, WorkerStep(t), [Next]_vars
  PROVE  Fate' /\ StatusTruthful'
  <1>n. /\ RunSlow \in Nodes /\ Exit \in Nodes /\ FastReqs \subseteq Nodes
        /\ RunSlow \notin Reqs /\ None \notin Reqs
    BY ConstantsAssumption DEF Nodes
  <1>t. /\ wq \in Seq(Nodes) /\ slow_io_pending_wq \in Seq(SlowReqs)
        /\ loop_wq \in Seq(Reqs) /\ done_wq \in Seq(Reqs)
        /\ job \in [Workers -> Hands] /\ pc \in [Workers -> WorkerPcs]
        /\ work \in [Reqs -> {"none", "set", "null", "cancelled"}]
        /\ arg \in Hands
    BY DEF PInv, IInv, TypeOK, PoolTypeOK, LoopTypeOK, WorkerTypeOK, Nodes, Hands
  <1>p. /\ \A u \in Workers : pc[u] \in {"work", "finish"} <=> job[u] # None
        /\ call # "none" => arg # None
    BY DEF PInv, IInv, Phases
  <1>f. Fate /\ StatusTruthful
    BY DEF PInv
  <1>a. \A r \in Reqs :
          /\ Alone(wq, slow_io_pending_wq, loop_wq, done_wq, job, arg, r, work[r] # "none")
          /\ Alone(wq', slow_io_pending_wq', loop_wq', done_wq', job', arg', r,
                  work'[r] # "none")
    BY StepAlone
  <1>c. UNCHANGED <<call, arg, done_wq, outcome>>
    BY DEF WorkerStep, Acquire, HoldsMutex, Lock, CondWait, SpuriousWakeup,
           CondWaitReturn, TakeExit, RequeueSlow, DropSlowMessage, TakeSlow,
           TakeFast, RunWork, HandOver, loopVars
  <1>1. CASE ~(RunWork(t) \/ HandOver(t))
    <2>1. UNCHANGED <<work, ran, loop_wq>>
      BY <1>1 DEF WorkerStep, Acquire, HoldsMutex, Lock, CondWait, SpuriousWakeup,
           CondWaitReturn, TakeExit, RequeueSlow, DropSlowMessage, TakeSlow,
           TakeFast, resultVars
    <2>2. \A r \in Reqs : r \in In(wq') \/ r \in In(slow_io_pending_wq') =>
                          r \in In(wq) \/ r \in In(slow_io_pending_wq)
      <3>1. CASE wq' = wq /\ slow_io_pending_wq' = slow_io_pending_wq
        BY <3>1
      <3>2. CASE RequeueSlow(t) \/ DropSlowMessage(t) \/ TakeSlow(t) \/ TakeFast(t)
        <4>1. /\ wq # <<>>
              /\ wq' = Tail(wq) \/ wq' = Append(Tail(wq), RunSlow)
              /\ \/ slow_io_pending_wq' = slow_io_pending_wq
                 \/ /\ slow_io_pending_wq # <<>>
                    /\ slow_io_pending_wq' = Tail(slow_io_pending_wq)
          BY <3>2 DEF RequeueSlow, DropSlowMessage, TakeSlow, TakeFast, MustWait
        <4>2. In(Tail(wq)) \subseteq In(wq)
          BY <1>t, <4>1, InTail
        <4>3. In(Append(Tail(wq), RunSlow)) = In(Tail(wq)) \cup {RunSlow}
          <5> DEFINE T == Tail(wq)
          <5>1. T \in Seq(Nodes)
            BY <1>t, <4>1, TailType
          <5> HIDE DEF T
          <5>2. In(Append(T, RunSlow)) = In(T) \cup {RunSlow}
            BY <1>n, <5>1, InAppend
          <5> QED
            BY <5>2 DEF T
        <4>4. In(slow_io_pending_wq') \subseteq In(slow_io_pending_wq)
          BY <1>t, <4>1, InTail
        <4>5. \A r \in Reqs : r \in In(wq') => r \in In(wq)
          BY <1>n, <4>1, <4>2, <4>3
        <4> QED
          BY <4>4, <4>5
      <3> QED
        BY <1>1, <3>1, <3>2 DEF WorkerStep, Acquire, HoldsMutex, Lock, CondWait,
             SpuriousWakeup, CondWaitReturn, TakeExit, poolVars
    <2>3. CASE TakeSlow(t) \/ TakeFast(t)
      <3>1. PICK x \in Reqs : /\ x \in In(wq) \/ x \in In(slow_io_pending_wq)
                              /\ job' = [job EXCEPT ![t] = x]
        <4>1. CASE TakeSlow(t)
          <5>1. /\ slow_io_pending_wq # <<>>
                /\ job' = [job EXCEPT ![t] = Head(slow_io_pending_wq)]
            BY <4>1 DEF TakeSlow, StartJob
          <5>2. /\ Head(slow_io_pending_wq) \in In(slow_io_pending_wq)
                /\ Head(slow_io_pending_wq) \in Reqs
            BY <1>t, <5>1, InTail DEF Reqs
          <5> QED
            BY <5>1, <5>2
        <4>2. CASE TakeFast(t)
          BY <4>2, <1>t, InTail DEF TakeFast, StartJob, MustWait
        <4> QED
          BY <2>3, <4>1, <4>2
      <3>2. work[x] = "set" /\ x \notin ran
        BY <1>f, <3>1 DEF Fate
      <3>3. /\ pc'[t] = "work" /\ job'[t] = x
            /\ \A u \in Workers \ {t} :
                 job'[u] = job[u] /\ (pc'[u] \in {"work", "finish"} => pc'[u] = pc[u])
        BY <1>t, <2>3, <3>1, WorkPcs
      <3>4. \A u \in Workers : pc'[u] = "work" => job'[u] \notin ran'
        BY <1>f, <2>1, <3>2, <3>3 DEF Fate
      <3>5. \A u \in Workers : pc'[u] = "finish" => job'[u] \in ran'
        BY <1>f, <2>1, <3>2, <3>3 DEF Fate
      <3>6. \A u \in Workers : job'[u] # None => work'[job'[u]] = "set"
        BY <1>f, <2>1, <3>2, <3>3 DEF StatusTruthful
      <3>7. Fate'
        BY <1>f, <1>c, <2>1, <2>2, <3>4, <3>5 DEF Fate
      <3>8. StatusTruthful'
        BY <1>f, <1>c, <2>1, <3>6 DEF StatusTruthful
      <3> QED
        BY <3>7, <3>8
    <2>4. CASE ~(TakeSlow(t) \/ TakeFast(t))
      <3>1. job' = job
        BY <1>1, <2>4 DEF WorkerStep, Acquire, HoldsMutex, Lock, CondWait, SpuriousWakeup,
             CondWaitReturn, TakeExit, RequeueSlow, DropSlowMessage, workerVars
      <3>2. \A u \in Workers : pc'[u] \in {"work", "finish"} => pc'[u] = pc[u]
        BY <1>1, <2>4, WorkPcs
      <3>3. Fate'
        BY <1>f, <1>c, <2>1, <2>2, <3>1, <3>2 DEF Fate
      <3>4. StatusTruthful'
        BY <1>f, <1>c, <2>1, <3>1 DEF StatusTruthful
      <3> QED
        BY <3>3, <3>4
    <2> QED
      BY <2>3, <2>4
  <1>2. CASE RunWork(t)
    <2> DEFINE x == job[t]
    <2>1. /\ pc[t] = "work" /\ ran' = ran \cup {x} /\ pc' = [pc EXCEPT ![t] = "finish"]
          /\ UNCHANGED <<job, wq, slow_io_pending_wq, work, loop_wq>>
      BY <1>2 DEF RunWork, poolVars, resultVars
    <2>2. x \in Reqs /\ work[x] = "set" /\ outcome[x] = "none"
      BY <1>t, <1>p, <1>f, <2>1 DEF Fate, StatusTruthful, Hands
    <2>3. /\ x \notin In(wq) /\ x \notin In(slow_io_pending_wq) /\ arg # x
          /\ \A u \in Workers \ {t} : job[u] # x
      BY <1>a, <2>2 DEF Alone
    <2>4. /\ \A u \in Workers : pc'[u] = "work" => u # t /\ pc[u] = "work"
          /\ \A u \in Workers : pc'[u] = "finish" => u = t \/ pc[u] = "finish"
      BY <1>t, <2>1
    <2>5. \A u \in Workers : pc'[u] = "work" => job'[u] \notin ran'
      BY <1>f, <2>1, <2>3, <2>4 DEF Fate
    <2>6. \A u \in Workers : pc'[u] = "finish" => job'[u] \in ran'
      BY <1>f, <2>1, <2>4 DEF Fate
    <2> HIDE DEF x
    <2>7. \A r \in Reqs : r \in In(wq) \/ r \in In(slow_io_pending_wq) => r \notin ran'
      BY <1>f, <2>1, <2>3 DEF Fate
    <2>8. call = "post" => arg \notin ran'
      BY <1>f, <2>1, <2>3 DEF Fate
    <2>9. Fate'
      BY <1>f, <1>c, <2>1, <2>5, <2>6, <2>7, <2>8 DEF Fate
    <2>10. StatusTruthful'
      BY <1>f, <1>c, <2>1, <2>2 DEF StatusTruthful
    <2> QED
      BY <2>9, <2>10
  <1>3. CASE HandOver(t)
    <2> DEFINE x == job[t]
    <2>1. /\ pc[t] = "finish" /\ work' = [work EXCEPT ![x] = "null"]
          /\ loop_wq' = Append(loop_wq, x)
          /\ job' = [job EXCEPT ![t] = None] /\ pc' = [pc EXCEPT ![t] = "lock"]
          /\ UNCHANGED <<ran, wq, slow_io_pending_wq>>
      BY <1>3 DEF HandOver, poolVars
    <2>2. x \in Reqs /\ work[x] = "set" /\ outcome[x] = "none" /\ x \in ran
      BY <1>t, <1>p, <1>f, <2>1 DEF Fate, StatusTruthful, Hands
    <2>3. /\ x \notin In(wq) /\ x \notin In(slow_io_pending_wq) /\ arg # x
          /\ \A u \in Workers \ {t} : job[u] # x
      BY <1>a, <2>2 DEF Alone
    <2>4. In(loop_wq') = In(loop_wq) \cup {x}
      BY <1>t, <2>1, <2>2, InAppend
    <2>5. /\ \A u \in Workers : pc'[u] \in {"work", "finish"} => u # t /\ pc'[u] = pc[u]
          /\ \A u \in Workers : job'[u] # None => u # t /\ job'[u] = job[u] /\ job[u] # x
          /\ \A u \in Workers : u # t => job'[u] = job[u]
      BY <1>t, <2>1, <2>3
    <2>6. work'[x] = "null" /\ \A r \in Reqs \ {x} : work'[r] = work[r]
      BY <1>t, <2>1, <2>2
    <2> HIDE DEF x
    <2>7. \A u \in Workers : pc'[u] = "work" => job'[u] \notin ran'
      BY <1>f, <2>1, <2>5 DEF Fate
    <2>8. \A u \in Workers : pc'[u] = "finish" => job'[u] \in ran'
      BY <1>f, <2>1, <2>5 DEF Fate
    <2>9. \A u \in Workers : job'[u] # None => work'[job'[u]] = "set"
      BY <1>t, <2>5, <1>f, <2>6, <1>n DEF Hands, StatusTruthful
    <2>10. /\ call = "post" => work'[arg] = "set" /\ arg \notin ran
           /\ call = "cancel" => work'[arg] = "cancelled"
      BY <1>t, <1>p, <2>3, <1>f, <2>6 DEF Hands, Fate
    <2>11. \A r \in Reqs : r \in In(loop_wq') \/ r \in In(done_wq') =>
             work'[r] \in {"null", "cancelled"}
      BY <1>f, <1>c, <2>4, <2>6 DEF Fate
    <2>12. \A r \in Reqs : r \in In(wq') \/ r \in In(slow_io_pending_wq') =>
             work'[r] = "set" /\ r \notin ran'
      BY <1>f, <2>1, <2>3, <2>6 DEF Fate
    <2>13. Fate'
      BY <1>f, <1>c, <2>1, <2>2, <2>6, <2>7, <2>8, <2>10, <2>11, <2>12 DEF Fate
    <2>14. StatusTruthful'
      BY <1>f, <1>c, <2>1, <2>6, <2>9 DEF StatusTruthful
    <2> QED
      BY <2>13, <2>14
  <1> QED
    BY <1>1, <1>2, <1>3

\* The loop thread's steps: a request is marked as cancelled while it is still
\* queued, and the done callback reads the mark that the worker or the cancel left.
LEMMA FateLoop ==
  ASSUME PInv, [Next]_vars, ~\E t \in Workers : WorkerStep(t)
  PROVE  Fate' /\ StatusTruthful'
  <1>n. /\ RunSlow \in Nodes /\ Exit \in Nodes /\ FastReqs \subseteq Nodes
        /\ RunSlow \notin Reqs /\ Exit \notin Reqs /\ None \notin Reqs
    BY ConstantsAssumption DEF Nodes
  <1>t. /\ wq \in Seq(Nodes) /\ slow_io_pending_wq \in Seq(SlowReqs)
        /\ loop_wq \in Seq(Reqs) /\ done_wq \in Seq(Reqs)
        /\ job \in [Workers -> Hands] /\ pc \in [Workers -> WorkerPcs]
        /\ work \in [Reqs -> {"none", "set", "null", "cancelled"}]
        /\ outcome \in [Reqs -> {"none", "ok", "ECANCELED"}]
        /\ arg \in Hands
    BY DEF PInv, IInv, TypeOK, PoolTypeOK, LoopTypeOK, WorkerTypeOK, Nodes, Hands
  <1>p. /\ \A u \in Workers : pc[u] \in {"work", "finish"} <=> job[u] # None
        /\ call = "none" <=> arg = None
    BY DEF PInv, IInv, Phases, Turns
  <1>f. Fate /\ StatusTruthful
    BY DEF PInv
  <1>a. \A r \in Reqs :
          /\ Alone(wq, slow_io_pending_wq, loop_wq, done_wq, job, arg, r, work[r] # "none")
          /\ Alone(wq', slow_io_pending_wq', loop_wq', done_wq', job', arg', r,
                  work'[r] # "none")
    BY StepAlone
  <1>j. \A u \in Workers : job[u] # None => job[u] \in Reqs
    BY <1>t DEF Hands
  <1>1. ASSUME NEW x \in Reqs, uv__work_submit(x) PROVE Fate' /\ StatusTruthful'
    <2>1. /\ work[x] = "none" /\ work' = [work EXCEPT ![x] = "set"]
          /\ call' = "post" /\ arg' = x /\ ran' = ran \ {x}
          /\ outcome' = [outcome EXCEPT ![x] = "none"]
          /\ UNCHANGED <<loop_wq, done_wq, job>>
      BY <1>1 DEF uv__work_submit, resultVars
    <2>2. wq' = wq /\ slow_io_pending_wq' = slow_io_pending_wq
      BY <1>1, ConstantsAssumption DEF uv__work_submit, PInv, Unstarted
    <2>3. \A u \in Workers : pc'[u] \in {"work", "finish"} => pc'[u] = pc[u]
      BY <1>1 DEF uv__work_submit
    <2>4. /\ x \notin In(wq) /\ x \notin In(slow_io_pending_wq) /\ x \notin In(loop_wq)
          /\ x \notin In(done_wq) /\ \A u \in Workers : job[u] # x
      BY <1>a, <2>1 DEF Alone
    <2>5. /\ work'[x] = "set" /\ outcome'[x] = "none"
          /\ \A r \in Reqs \ {x} : work'[r] = work[r] /\ outcome'[r] = outcome[r]
      BY <1>t, <2>1
    <2>6. \A u \in Workers : pc'[u] = "work" => job'[u] \notin ran'
      BY <1>f, <2>1, <2>3 DEF Fate
    <2>7. \A u \in Workers : pc'[u] = "finish" => job'[u] \in ran'
      BY <1>f, <2>1, <2>3, <2>4 DEF Fate
    <2>8. \A u \in Workers : job'[u] # None => work'[job'[u]] = "set"
      BY <1>f, <1>j, <2>1, <2>4, <2>5 DEF StatusTruthful
    <2>9. Fate'
      BY <1>f, <2>1, <2>2, <2>4, <2>5, <2>6, <2>7 DEF Fate
    <2>10. StatusTruthful'
      BY <1>f, <2>1, <2>5, <2>8 DEF StatusTruthful
    <2> QED
      BY <2>9, <2>10
  <1>2. CASE post \/ uv__threadpool_cleanup
    <2>1. /\ UNCHANGED <<job, work, loop_wq, done_wq, outcome, ran>>
          /\ \/ call = "post" /\ call' = "none"
             \/ UNCHANGED <<call, arg>> /\ uv__threadpool_cleanup
      BY <1>2 DEF post, uv__threadpool_cleanup, resultVars
    <2>2. \A u \in Workers : pc'[u] \in {"work", "finish"} => pc'[u] = pc[u]
      BY <1>2, PostFrame DEF PInv
    <2>3. \A r \in Reqs : r \in In(wq') \/ r \in In(slow_io_pending_wq') =>
            work[r] = "set" /\ r \notin ran
      <3>1. \A q \in Nodes : In(Append(wq, q)) = In(wq) \cup {q}
        BY <1>t, InAppend
      <3>2. CASE post
        <4>1. call = "post" /\ arg \in Reqs
          BY <1>t, <1>p, <3>2 DEF post, Hands
        <4>2. arg \in SlowReqs =>
                In(Append(slow_io_pending_wq, arg)) = In(slow_io_pending_wq) \cup {arg}
          BY <1>t, InAppend
        <4>3. /\ In(wq') \subseteq In(wq) \cup {arg, RunSlow}
              /\ In(slow_io_pending_wq') \subseteq In(slow_io_pending_wq) \cup {arg}
          <5>1. \/ wq' = wq
                \/ arg \in FastReqs /\ wq' = Append(wq, arg)
                \/ wq' = Append(wq, RunSlow)
            BY <3>2 DEF post, PostNode
          <5>2. \/ slow_io_pending_wq' = slow_io_pending_wq
                \/ /\ arg \in SlowReqs
                   /\ slow_io_pending_wq' = Append(slow_io_pending_wq, arg)
            BY <3>2 DEF post
          <5>3. In(wq') \subseteq In(wq) \cup {arg, RunSlow}
            <6>1. arg \in FastReqs => In(Append(wq, arg)) = In(wq) \cup {arg}
              BY <1>n, <3>1
            <6>2. In(Append(wq, RunSlow)) = In(wq) \cup {RunSlow}
              BY <1>n, <3>1
            <6> QED
              BY <5>1, <6>1, <6>2
          <5>4. In(slow_io_pending_wq') \subseteq In(slow_io_pending_wq) \cup {arg}
            BY <4>2, <5>2
          <5> QED
            BY <5>3, <5>4
        <4> QED
          BY <1>n, <1>f, <4>1, <4>3 DEF Fate
      <3>3. CASE uv__threadpool_cleanup
        BY <1>n, <3>1, <3>3, <1>f DEF uv__threadpool_cleanup, PostNode, Fate
      <3> QED
        BY <1>2, <3>2, <3>3
    <2>4. Fate'
      BY <1>f, <2>1, <2>2, <2>3 DEF Fate
    <2>5. StatusTruthful'
      BY <1>f, <2>1 DEF StatusTruthful
    <2> QED
      BY <2>4, <2>5
  <1>3. ASSUME NEW x \in Reqs, CancelRemove(x) PROVE Fate' /\ StatusTruthful'
    <2>1. /\ work[x] \notin {"none", "null"} /\ work' = [work EXCEPT ![x] = "cancelled"]
          /\ call' = "cancel" /\ arg' = x
          /\ UNCHANGED <<job, pc, outcome, ran>>
      BY <1>3 DEF CancelRemove, workerVars
    <2>2. /\ In(wq') \subseteq In(wq)
          /\ In(slow_io_pending_wq') \subseteq In(slow_io_pending_wq)
          /\ In(loop_wq') \subseteq In(loop_wq) /\ In(done_wq') \subseteq In(done_wq)
          /\ \/ x \in In(wq) \/ x \in In(slow_io_pending_wq)
             \/ x \in In(loop_wq) \/ x \in In(done_wq)
      BY <1>t, <1>3, InRemove DEF CancelRemove
    <2>3. x \notin ran /\ outcome[x] = "none"
      BY <1>f, <2>1, <2>2 DEF Fate, StatusTruthful
    <2>4. /\ x \notin In(wq') /\ x \notin In(slow_io_pending_wq')
          /\ \A u \in Workers : job'[u] # x
      BY <1>a, <2>1 DEF Alone
    <2>5. work'[x] = "cancelled" /\ \A r \in Reqs \ {x} : work'[r] = work[r]
      BY <1>t, <2>1
    <2>6. \A u \in Workers : job'[u] # None => work'[job'[u]] = "set"
      BY <1>f, <1>j, <2>1, <2>4, <2>5 DEF StatusTruthful
    <2>7. Fate'
      BY <1>f, <2>1, <2>2, <2>3, <2>4, <2>5 DEF Fate
    <2>8. StatusTruthful'
      BY <1>f, <2>1, <2>3, <2>5, <2>6 DEF StatusTruthful
    <2> QED
      BY <2>7, <2>8
  <1>4. CASE CancelInsert
    BY <1>4, <1>t, <1>p, <1>f, InAppend DEF CancelInsert, workerVars, poolVars, Fate, Hands,
       StatusTruthful
  <1>5. CASE WorkDoneStart
    BY <1>5, <1>f DEF WorkDoneStart, workerVars, poolVars, In, Fate, StatusTruthful
  <1>6. CASE WorkDoneNext
    <2> DEFINE x == Head(done_wq)
    <2>1. /\ done_wq # <<>> /\ done_wq' = Tail(done_wq)
          /\ outcome' = [outcome EXCEPT ![x] = IF work[x] = "cancelled" THEN "ECANCELED" ELSE "ok"]
          /\ work' = [work EXCEPT ![x] = "none"]
          /\ UNCHANGED <<wq, slow_io_pending_wq, loop_wq, job, pc, call, arg, ran>>
      BY <1>6 DEF WorkDoneNext, workerVars, poolVars, resultVars
    <2>2. x \in In(done_wq) /\ In(done_wq') \subseteq In(done_wq) /\ x \in Reqs
      BY <1>t, <2>1, InTail
    <2> HIDE DEF x
    <2>3. (work[x] = "cancelled" /\ x \notin ran) \/ (work[x] = "null" /\ x \in ran)
      BY <1>f, <2>2 DEF Fate, StatusTruthful
    <2>4. /\ work'[x] = "none" /\ \A r \in Reqs \ {x} : work'[r] = work[r]
          /\ (outcome'[x] = "ECANCELED" /\ x \notin ran) \/ (outcome'[x] = "ok" /\ x \in ran)
          /\ \A r \in Reqs \ {x} : outcome'[r] = outcome[r]
      BY <1>t, <2>1, <2>2, <2>3
    <2>5. /\ x \notin In(wq') /\ x \notin In(slow_io_pending_wq') /\ x \notin In(loop_wq')
          /\ x \notin In(done_wq') /\ arg' # x /\ \A u \in Workers : job'[u] # x
      BY <1>a, <2>2, <2>4 DEF Alone
    <2>6. \A u \in Workers : job'[u] # None => work'[job'[u]] = "set"
      BY <1>f, <1>j, <2>1, <2>4, <2>5 DEF StatusTruthful
    <2>7. /\ call' = "post" => work'[arg'] = "set" /\ arg' \notin ran'
          /\ call' = "cancel" => work'[arg'] = "cancelled"
      BY <1>t, <1>p, <2>1, <2>5, <1>f, <2>4 DEF Hands, Fate
    <2>8. Fate'
      BY <1>f, <2>1, <2>2, <2>4, <2>5, <2>7 DEF Fate
    <2>9. StatusTruthful'
      BY <1>f, <2>1, <2>4, <2>6 DEF StatusTruthful
    <2> QED
      BY <2>8, <2>9
  <1>7. CASE CallbackReturn \/ WorkDoneEnd \/ ThreadsJoined \/ Terminated \/ UNCHANGED vars
    <2>1. UNCHANGED <<wq, slow_io_pending_wq, loop_wq, done_wq, job, pc, call, arg, work,
                      outcome, ran>>
      BY <1>7 DEF CallbackReturn, WorkDoneEnd, ThreadsJoined, Terminated, vars, workerVars,
                  poolVars, resultVars, loopVars
    <2> QED
      BY <1>f, <2>1 DEF Fate, StatusTruthful
  <1> QED
    BY <1>1, <1>2, <1>3, <1>4, <1>5, <1>6, <1>7, StepKinds DEF LoopOnly, WorkDone

\* A step of a worker or of the loop tells of each request what became of it.
LEMMA FateStep == ASSUME PInv, [Next]_vars PROVE Fate' /\ StatusTruthful'
  BY FateWorker, FateLoop

-----------------------------------------------------------------------------
(* No wake-up is lost.                                                     *)

\* The workers that are free are finitely many.
LEMMA FreeNat ==
  ASSUME NEW p
  PROVE  IsFiniteSet(Free(p)) /\ Cardinality(Free(p)) \in Nat
BY FS_Subset, ConstantsAssumption, FS_CardinalityType DEF Free

\* Only worker t changes its place.
LEMMA FreePut ==
  ASSUME NEW p, NEW q, NEW t \in Workers,
         \A u \in Workers \ {t} : q[u] = p[u]
  PROVE  Cardinality(Free(q)) =
           Cardinality(Free(p)) - One(t \in Free(p)) + One(t \in Free(q))
  <1>1. /\ IsFiniteSet(Free(p)) /\ Cardinality(Free(p)) \in Nat
        /\ IsFiniteSet(Free(q)) /\ Cardinality(Free(q)) \in Nat
    BY FreeNat
  <1>2. Free(q) \ {t} = Free(p) \ {t}
    BY DEF Free
  <1>3. /\ Cardinality(Free(p) \ {t}) =
             IF t \in Free(p) THEN Cardinality(Free(p)) - 1 ELSE Cardinality(Free(p))
        /\ Cardinality(Free(q) \ {t}) =
             IF t \in Free(q) THEN Cardinality(Free(q)) - 1 ELSE Cardinality(Free(q))
    BY <1>1, FS_RemoveElement
  <1> DEFINE f == Cardinality(Free(p))
             g == Cardinality(Free(q))
             c == Cardinality(Free(p) \ {t})
  <1>4. f - One(t \in Free(p)) = c /\ g - One(t \in Free(q)) = c
    BY <1>1, <1>2, <1>3 DEF One
  <1>5. /\ f \in Nat /\ g \in Nat
        /\ One(t \in Free(p)) \in Nat /\ One(t \in Free(q)) \in Nat
    BY <1>1 DEF One
  <1> HIDE DEF f, g, c
  <1>6. g = f - One(t \in Free(p)) + One(t \in Free(q))
    BY <1>4, <1>5
  <1> QED
    BY <1>6 DEF f, g

\* A signal that finds a waiter makes one more worker free.
LEMMA SignalFree ==
  ASSUME NEW p \in [Workers -> WorkerPcs], NEW q \in cond_signal(p),
         \E t \in Workers : q[t] = "waiting"
  PROVE  /\ Cardinality(Free(q)) = Cardinality(Free(p)) + 1
         /\ \E t \in Workers : p[t] = "waiting"
  <1> DEFINE waiting == {t \in Workers : p[t] = "waiting"}
  <1>1. waiting # {}
    BY DEF cond_signal
  <1>2. PICK t \in waiting : q = [p EXCEPT ![t] = "woken"]
    BY <1>1 DEF cond_signal
  <1>3. /\ t \in Workers /\ t \notin Free(p) /\ t \in Free(q)
        /\ \A u \in Workers \ {t} : q[u] = p[u]
    BY <1>2 DEF Free
  <1>4. Cardinality(Free(q)) = Cardinality(Free(p)) - One(t \in Free(p)) + One(t \in Free(q))
    BY <1>3, FreePut
  <1> QED
    BY <1>3, <1>4, <1>1, FreeNat DEF One

\* What blocks the slow message depends on the workers on their way to the mutex.
LEMMA BlockedKept ==
  ASSUME UNCHANGED <<is_slow_work, slow_io_work_running>>, is_slow_work \subseteq Workers,
         \A u \in Workers : pc'[u] = "lock" <=> pc[u] = "lock"
  PROVE  SlowBlocked' = SlowBlocked
  BY DEF SlowBlocked, AtThreshold

\* A queue demands at most all of its nodes, and all but one when it is blocked.
LEMMA DemandBounds ==
  ASSUME NEW w \in Seq(Nodes), NEW b \in BOOLEAN, Count(w, RunSlow) <= 1
  PROVE  /\ Demand(w, b) \in Nat
         /\ Demand(w, b) <= Len(w)
         /\ Len(w) <= Demand(w, b) + 1
         /\ b = FALSE => Demand(w, b) = Len(w)
  <1>1. Count(w, RunSlow) \in Nat /\ Count(w, RunSlow) <= Len(w)
    BY PlacesFinite
  <1>2. Len(w) \in Nat
    OBVIOUS
  <1> QED
    BY <1>1, <1>2 DEF Demand

\* One node of another kind comes in or goes.
LEMMA DemandChange ==
  ASSUME NEW v \in Seq(Nodes), NEW w \in Seq(Nodes), NEW b \in BOOLEAN,
         Len(w) = Len(v) + 1, Count(w, RunSlow) = Count(v, RunSlow)
  PROVE  Demand(w, b) = Demand(v, b) + 1
  <1>1. Count(v, RunSlow) \in Nat
    BY PlacesFinite
  <1>2. Len(v) \in Nat
    OBVIOUS
  <1> QED
    BY <1>1, <1>2 DEF Demand

\* Whoever goes to sleep leaves nothing behind, whoever adds a node wakes a
\* sleeper, and whoever takes one had been counted for it.
LEMMA EnoughStep == ASSUME PInv, [Next]_vars PROVE Enough'
  <1> DEFINE b == SlowBlocked
             c == SlowBlocked'
             F == Cardinality(Free(pc))
             G == Cardinality(Free(pc'))
             L == Len(wq)
  <1>n. /\ RunSlow \in Nodes /\ Exit \in Nodes /\ FastReqs \subseteq Nodes
        /\ RunSlow # Exit /\ RunSlow \notin Reqs /\ FastReqs \subseteq Reqs
    BY ConstantsAssumption DEF Nodes, Reqs
  <1>t. /\ wq \in Seq(Nodes) /\ pc \in [Workers -> WorkerPcs]
        /\ is_slow_work \subseteq Workers
    BY DEF PInv, IInv, TypeOK, PoolTypeOK, WorkerTypeOK, Nodes
  <1>u. wq' \in Seq(Nodes)
    BY StepIInv DEF PInv, IInv, TypeOK, PoolTypeOK, Nodes
  <1>v. Count(wq, RunSlow) <= 1 /\ Count(wq', RunSlow) <= 1
    BY AnnouncedStep DEF PInv, SlowAnnounced, Count
  <1>b. b \in BOOLEAN /\ c \in BOOLEAN
    BY DEF SlowBlocked
  <1>f. /\ IsFiniteSet(Free(pc)) /\ F \in Nat
        /\ IsFiniteSet(Free(pc')) /\ G \in Nat
    BY FreeNat
  <1>e. (\E t \in Workers : pc[t] = "waiting") => Demand(wq, b) <= F
    BY DEF PInv, Enough
  <1>d. /\ Demand(wq, b) \in Nat /\ Demand(wq, b) <= L /\ L <= Demand(wq, b) + 1
        /\ b = FALSE => Demand(wq, b) = L
    BY <1>t, <1>v, <1>b, DemandBounds
  <1>g. /\ Demand(wq', c) \in Nat /\ Demand(wq', c) <= Len(wq')
        /\ c = FALSE => Demand(wq', c) = Len(wq')
    BY <1>u, <1>v, <1>b, DemandBounds
  <1>l. L \in Nat /\ Len(wq') \in Nat
    BY <1>t, <1>u
  <1>m. ~AtThreshold => b = FALSE
    BY DEF SlowBlocked
  <1> SUFFICES ASSUME \E t \in Workers : pc'[t] = "waiting"
               PROVE  Demand(wq', c) <= G
    BY DEF Enough
  <1> HIDE DEF b, c, F, G, L
  <1>k. ASSUME wq' = wq, c = b, G >= F, \E t \in Workers : pc[t] = "waiting"
        PROVE  Demand(wq', c) <= G
    BY <1>d, <1>e, <1>f, <1>k
  <1>1. ASSUME NEW t \in Workers, WorkerStep(t) PROVE Demand(wq', c) <= G
    <2>1. CASE Lock(t)
      <3>1. /\ pc[t] = "lock" /\ pc' = [pc EXCEPT ![t] = "top"] /\ wq' = wq
            /\ is_slow_work' = is_slow_work \ {t}
            /\ t \notin is_slow_work => UNCHANGED slow_io_work_running
        BY <2>1 DEF Lock
      <3>2. Free(pc') = Free(pc) /\ \E u \in Workers : pc[u] = "waiting"
        BY <1>t, <3>1 DEF Free
      <3>3. G = F
        BY <3>2 DEF F, G
      <3>4. CASE t \in is_slow_work
        BY <3>1, <3>4, <1>d, <1>e, <1>f, <1>g, <1>l, <3>2, <3>3 DEF b, SlowBlocked, L
      <3>5. CASE t \notin is_slow_work
        BY <3>1, <3>5, <1>t, <1>k, <1>f, <3>2, <3>3 DEF b, c, SlowBlocked, AtThreshold
      <3> QED
        BY <3>4, <3>5
    <2>2. CASE CondWait(t)
      <3>1. /\ wq' = wq /\ (wq = <<>> \/ (wq = <<RunSlow>> /\ AtThreshold))
            /\ UNCHANGED <<is_slow_work, slow_io_work_running>>
        BY <2>2 DEF CondWait, MustWait
      <3>2. CASE wq = <<>>
        BY <3>1, <3>2, <1>f, <1>g
      <3>3. CASE wq = <<RunSlow>> /\ AtThreshold
        <4>1. Len(wq') = 1 /\ RunSlow \in In(wq')
          BY <3>1, <3>3 DEF In
        <4>2. CASE c = TRUE
          <5>1. Count(wq', RunSlow) \in Nat /\ Count(wq', RunSlow) > 0
            BY <1>u, <4>1, CountIn, PlacesFinite
          <5>2. Demand(wq', c) = 0
            BY <1>v, <4>1, <4>2, <5>1 DEF Demand
          <5> QED
            BY <1>f, <5>2
        <4>3. CASE c = FALSE
          BY <3>1, <3>3, <4>3, <1>t, <1>f, <1>g, <4>1, FS_EmptySet DEF AtThreshold, c, SlowBlocked,
             Free, G
        <4> QED
          BY <1>b, <4>2, <4>3 DEF c
      <3> QED
        BY <3>1, <3>2, <3>3
    <2>3. CASE SpuriousWakeup(t) \/ CondWaitReturn(t)
      BY <2>3, <1>t, <1>f, <1>k, FS_Subset, BlockedKept DEF SpuriousWakeup, CondWaitReturn,
         poolVars, Free, F, G, b, c
    <2>4. CASE TakeExit(t)
      <3> DEFINE p == [pc EXCEPT ![t] = "exited"]
      <3>1. /\ pc[t] = "top" /\ pc' \in cond_signal(p) /\ wq' = wq
            /\ UNCHANGED <<is_slow_work, slow_io_work_running>>
        BY <2>4 DEF TakeExit, poolVars
      <3>2. /\ p \in [Workers -> WorkerPcs] /\ p[t] = "exited"
            /\ \A u \in Workers \ {t} : p[u] = pc[u]
        BY <1>t DEF WorkerPcs
      <3> HIDE DEF p
      <3>3. G = Cardinality(Free(p)) + 1 /\ \E u \in Workers : p[u] = "waiting"
        BY <3>1, <3>2, SignalFree DEF G
      <3>4. Cardinality(Free(p)) = F - One(t \in Free(pc)) + One(t \in Free(p))
        BY <3>2, FreePut DEF F
      <3>5. t \in Free(pc) /\ t \notin Free(p) /\ \E u \in Workers : pc[u] = "waiting"
        BY <3>1, <3>2, <3>3 DEF Free
      <3>6. G = F
        BY <1>f, <3>3, <3>4, <3>5 DEF One
      <3>7. \A u \in Workers : pc'[u] = p[u] \/ (p[u] = "waiting" /\ pc'[u] = "woken")
        BY <3>1, <3>2, SignalFacts
      <3>8. c = b
        BY <1>t, <3>1, <3>2, <3>7, BlockedKept DEF b, c
      <3> QED
        BY <1>k, <1>f, <3>1, <3>5, <3>6, <3>8
    <2>5. CASE RequeueSlow(t)
      <3>1. /\ wq # <<>> /\ Head(wq) = RunSlow /\ wq' = Append(Tail(wq), RunSlow)
            /\ UNCHANGED <<pc, is_slow_work, slow_io_work_running>>
        BY <2>5 DEF RequeueSlow, MustWait, workerVars
      <3>2. c = b /\ G = F /\ \E u \in Workers : pc[u] = "waiting"
        BY <3>1 DEF b, c, F, G, SlowBlocked, AtThreshold
      <3>3. Count(wq', RunSlow) =
              Count(wq, RunSlow) - One(Head(wq) = RunSlow) + One(RunSlow = RunSlow)
        BY <1>t, <1>n, <3>1, CountTailAppend
      <3>4. Count(wq, RunSlow) \in Nat
        BY <1>t, PlacesFinite
      <3>5. Count(wq', RunSlow) = Count(wq, RunSlow)
        BY <3>1, <3>3, <3>4 DEF One
      <3>6. Len(wq') = L
        BY <1>t, <3>1 DEF L
      <3>7. Demand(wq', c) = Demand(wq, b)
        BY <3>2, <3>5, <3>6 DEF Demand, L
      <3> QED
        BY <1>e, <3>2, <3>7
    <2>6. CASE DropSlowMessage(t)
      BY <2>6, <1>t, <1>d, <1>e, <1>f, <1>g, <1>l, <1>m DEF DropSlowMessage, MustWait, workerVars,
         L, F, G
    <2>7. CASE TakeSlow(t)
      <3> DEFINE p == [pc EXCEPT ![t] = "work"]
      <3>1. /\ wq # <<>> /\ ~AtThreshold /\ pc[t] = "top"
            /\ \/ wq' = Tail(wq) /\ pc' = p
               \/ wq' = Append(Tail(wq), RunSlow) /\ pc' \in SignalIfIdle(p)
        BY <2>7 DEF TakeSlow, MustWait
      <3>2. /\ p \in [Workers -> WorkerPcs] /\ p[t] = "work"
            /\ \A u \in Workers \ {t} : p[u] = pc[u]
        BY <1>t DEF WorkerPcs
      <3> HIDE DEF p
      <3>3. Demand(wq, b) = L
        BY <1>d, <1>m, <3>1
      <3>4. Cardinality(Free(p)) = F - One(t \in Free(pc)) + One(t \in Free(p))
        BY <3>2, FreePut DEF F
      <3>5. t \in Free(pc) /\ t \notin Free(p)
        BY <3>1, <3>2 DEF Free
      <3>6. Cardinality(Free(p)) = F - 1
        BY <1>f, <3>4, <3>5 DEF One
      <3>7. CASE wq' = Tail(wq) /\ pc' = p
        <4>1. Len(wq') = L - 1
          BY <1>t, <3>1, <3>7 DEF L
        <4>2. G = F - 1 /\ \E u \in Workers : pc[u] = "waiting"
          BY <3>2, <3>6, <3>7 DEF G
        <4> QED
          BY <1>e, <1>f, <1>g, <1>l, <3>3, <4>1, <4>2
      <3>8. CASE wq' = Append(Tail(wq), RunSlow) /\ pc' \in SignalIfIdle(p)
        <4>1. Len(wq') = L
          BY <1>t, <3>1, <3>8 DEF L
        <4>2. \E u \in Workers : p[u] = "waiting"
          BY <3>2, <3>8, SignalIfIdleFacts
        <4>3. \E u \in Workers : pc[u] = "waiting"
          BY <3>2, <4>2
        <4>4. idle_threads > 0
          BY <4>3, IdlePositive DEF PInv
        <4>5. pc' \in cond_signal(p)
          BY <3>8, <4>4 DEF SignalIfIdle
        <4>6. G = Cardinality(Free(p)) + 1
          BY <3>2, <4>5, SignalFree DEF G
        <4> QED
          BY <1>e, <1>f, <1>g, <1>l, <3>3, <3>6, <4>1, <4>3, <4>6
      <3> QED
        BY <3>1, <3>7, <3>8
    <2>8. CASE TakeFast(t)
      <3>1. /\ wq # <<>> /\ Head(wq) \in Reqs /\ wq' = Tail(wq) /\ pc[t] = "top"
            /\ pc' = [pc EXCEPT ![t] = "work"]
            /\ UNCHANGED <<is_slow_work, slow_io_work_running>>
        BY <2>8 DEF TakeFast, MustWait
      <3>2. /\ t \in Free(pc) /\ t \notin Free(pc') /\ \E u \in Workers : pc[u] = "waiting"
            /\ \A u \in Workers \ {t} : pc'[u] = pc[u]
            /\ \A u \in Workers : pc'[u] = "lock" <=> pc[u] = "lock"
        BY <1>t, <3>1 DEF Free
      <3>3. G = F - One(t \in Free(pc)) + One(t \in Free(pc'))
        BY <3>2, FreePut DEF F, G
      <3>4. G = F - 1
        BY <1>f, <3>2, <3>3 DEF One
      <3>5. c = b
        BY <1>t, <3>1, <3>2, BlockedKept DEF b, c
      <3>6. Count(wq', RunSlow) = Count(wq, RunSlow) - One(Head(wq) = RunSlow)
        BY <1>t, <3>1, CountTail
      <3>7. Count(wq, RunSlow) \in Nat
        BY <1>t, PlacesFinite
      <3>8. Count(wq, RunSlow) = Count(wq', RunSlow)
        BY <1>n, <3>1, <3>6, <3>7 DEF One
      <3>9. Len(wq) = Len(wq') + 1
        BY <1>t, <3>1
      <3>10. Demand(wq, b) = Demand(wq', b) + 1
        BY <1>t, <1>u, <1>b, <3>8, <3>9, DemandChange
      <3> QED
        BY <1>d, <1>e, <1>f, <1>g, <3>2, <3>4, <3>5, <3>10
    <2>9. CASE RunWork(t)
      <3>1. /\ wq' = wq /\ pc[t] = "work" /\ pc' = [pc EXCEPT ![t] = "finish"]
            /\ UNCHANGED <<is_slow_work, slow_io_work_running>>
        BY <2>9 DEF RunWork, poolVars
      <3>2. /\ Free(pc') = Free(pc) /\ \E u \in Workers : pc[u] = "waiting"
            /\ \A u \in Workers : pc'[u] = "lock" <=> pc[u] = "lock"
        BY <1>t, <3>1 DEF Free
      <3>3. c = b
        BY <1>t, <3>1, <3>2, BlockedKept DEF b, c
      <3>4. G = F
        BY <3>2 DEF F, G
      <3> QED
        BY <1>k, <1>f, <3>1, <3>2, <3>3, <3>4
    <2>10. CASE HandOver(t)
      <3>1. wq' = wq /\ pc[t] = "finish" /\ pc' = [pc EXCEPT ![t] = "lock"]
        BY <2>10 DEF HandOver, poolVars
      <3>2. /\ t \notin Free(pc) /\ t \in Free(pc') /\ \E u \in Workers : pc[u] = "waiting"
            /\ \A u \in Workers \ {t} : pc'[u] = pc[u]
        BY <1>t, <3>1 DEF Free
      <3>3. G = F - One(t \in Free(pc)) + One(t \in Free(pc'))
        BY <3>2, FreePut DEF F, G
      <3>4. G = F + 1
        BY <1>f, <3>2, <3>3 DEF One
      <3>5. Demand(wq', c) <= L
        BY <1>g, <3>1 DEF L
      <3> QED
        BY <1>d, <1>e, <1>f, <1>g, <1>l, <3>2, <3>4, <3>5
    <2> QED
      BY <1>1, <2>1, <2>2, <2>3, <2>4, <2>5, <2>6, <2>7, <2>8, <2>9, <2>10
         DEF WorkerStep, Acquire, HoldsMutex
  <1>2. ASSUME NEW r \in Reqs, uv__work_submit(r) PROVE Demand(wq', c) <= G
    <2>1. UNCHANGED <<wq, pc, is_slow_work, slow_io_work_running>>
      BY <1>2 DEF uv__work_submit
    <2>2. c = b /\ G = F /\ \E u \in Workers : pc[u] = "waiting"
      BY <2>1 DEF b, c, F, G, SlowBlocked, AtThreshold
    <2> QED
      BY <1>k, <1>f, <2>1, <2>2
  <1>3. CASE post \/ uv__threadpool_cleanup
    <2>1. /\ UNCHANGED <<is_slow_work, slow_io_work_running>>
          /\ \A u \in Workers : pc'[u] = pc[u] \/ (pc[u] = "waiting" /\ pc'[u] = "woken")
      BY <1>3, PostFrame DEF PInv
    <2>2. \A u \in Workers : pc'[u] = "lock" <=> pc[u] = "lock"
      BY <2>1
    <2>3. c = b /\ \E u \in Workers : pc[u] = "waiting"
      BY <1>t, <2>1, <2>2, BlockedKept DEF b, c
    <2>4. CASE wq' = wq /\ pc' = pc
      BY <2>4, <1>k, <1>f, <2>3 DEF F, G
    <2>5. ASSUME NEW q \in Nodes, wq' = Append(wq, q), pc' \in SignalIfIdle(pc)
          PROVE  Demand(wq', c) <= G
      <3>1. idle_threads > 0
        BY <2>3, IdlePositive DEF PInv
      <3>2. pc' \in cond_signal(pc)
        BY <2>5, <3>1 DEF SignalIfIdle
      <3>3. G = F + 1
        BY <1>t, <3>2, SignalFree DEF F, G
      <3>4. Len(wq') = L + 1
        BY <1>t, <2>5 DEF L
      <3>5. Count(wq', RunSlow) = Count(wq, RunSlow) + One(q = RunSlow)
        BY <1>t, <2>5, CountAppend
      <3>6. Count(wq, RunSlow) \in Nat
        BY <1>t, PlacesFinite
      <3>7. Demand(wq', c) <= Demand(wq, b) + 1
        BY <1>l, <2>3, <3>4, <3>5, <3>6 DEF Demand, One, L
      <3> QED
        BY <1>d, <1>e, <1>f, <1>g, <2>3, <3>3, <3>7
    <2>6. \/ wq' = wq /\ pc' = pc
          \/ \E q \in Nodes : wq' = Append(wq, q) /\ pc' \in SignalIfIdle(pc)
      BY <1>3, <1>n DEF post, uv__threadpool_cleanup, PostNode
    <2> QED
      BY <2>4, <2>5, <2>6
  <1>4. CASE LoopOnly
    <2>1. UNCHANGED <<pc, is_slow_work, slow_io_work_running>>
      BY <1>4, LoopOnlyFrame
    <2>2. c = b /\ G = F /\ \E u \in Workers : pc[u] = "waiting"
      BY <2>1 DEF b, c, F, G, SlowBlocked, AtThreshold
    <2>3. CASE wq' = wq
      BY <1>k, <1>f, <2>2, <2>3
    <2>4. ASSUME NEW i \in DOMAIN wq, wq[i] \in Reqs, wq' = RemoveNode(wq, i)
          PROVE  Demand(wq', c) <= G
      <3>1. Count(wq', RunSlow) = Count(wq, RunSlow) - One(wq[i] = RunSlow)
        BY <1>t, <2>4, CountRemove
      <3>2. Count(wq, RunSlow) \in Nat
        BY <1>t, PlacesFinite
      <3>3. Count(wq, RunSlow) = Count(wq', RunSlow)
        BY <1>n, <2>4, <3>1, <3>2 DEF One
      <3>4. Len(wq) = Len(wq') + 1
        BY <2>4, <1>t, <1>u DEF RemoveNode
      <3>5. Demand(wq, b) = Demand(wq', b) + 1
        BY <1>t, <1>u, <1>b, <3>3, <3>4, DemandChange
      <3> QED
        BY <1>d, <1>e, <1>f, <1>g, <2>2, <3>5
    <2>5. wq' = wq \/ \E i \in DOMAIN wq : wq[i] \in Reqs /\ wq' = RemoveNode(wq, i)
      BY <1>4 DEF LoopOnly, CancelRemove, CancelInsert, WorkDone, WorkDoneStart,
           WorkDoneNext, CallbackReturn, WorkDoneEnd, ThreadsJoined, Terminated, vars, poolVars
    <2> QED
      BY <2>3, <2>4, <2>5
  <1> QED
    BY <1>1, <1>2, <1>3, <1>4, StepKinds

-----------------------------------------------------------------------------
(* The invariant holds.                                                    *)

\* The pool before its first request.
LEMMA InitPInv == Init => PInv
  <1> SUFFICES ASSUME Init PROVE PInv
    OBVIOUS
  <1>i. IInv
    BY InitIInv
  <1>e. /\ wq = <<>> /\ slow_io_pending_wq = <<>> /\ loop_wq = <<>> /\ done_wq = <<>>
        /\ job = [t \in Workers |-> None] /\ pc = [t \in Workers |-> "none"]
        /\ call = "none" /\ arg = None
        /\ work = [r \in Reqs |-> "none"] /\ outcome = [r \in Reqs |-> "none"]
    BY DEF Init
  <1>1. Turns /\ Unstarted
    BY <1>e DEF Turns, Unstarted
  <1>2. OneHome
    <2> SUFFICES ASSUME NEW r \in Reqs PROVE Occurrences(r) = 0
      BY <1>e DEF OneHome
    <2>1. r # None
      BY ConstantsAssumption
    <2>2. {t \in Workers : job[t] = r} = {}
      BY <1>e, <2>1
    <2>3. Held(job, r) = 0
      BY <2>2, FS_EmptySet DEF Held
    <2>4. Total(wq, slow_io_pending_wq, loop_wq, done_wq, job, arg, r) = 0
      BY <1>e, <2>1, <2>3, CountEmpty DEF Total, One
    <2> QED
      BY <2>4, OccurrencesTotal
  <1>3. SlowAnnounced
    BY <1>e, CountEmpty DEF SlowAnnounced, Count
  <1>4. StatusTruthful
    BY <1>e DEF StatusTruthful
  <1>5. Fate
    BY <1>e DEF Fate, In
  <1>6. Enough
    BY <1>e DEF Enough
  <1> QED
    BY <1>i, <1>1, <1>2, <1>3, <1>4, <1>5, <1>6 DEF PInv

\* The invariant is inductive.
LEMMA StepPInv == PInv /\ [Next]_vars => PInv'
BY StepIInv, TurnsStep, UnstartedStep, HomeStep, AnnouncedStep, FateStep, EnoughStep DEF PInv

\* It holds in every reachable state of a pool of any size.
THEOREM PInvHolds == Spec => []PInv
  BY InitPInv, StepPInv, PTL DEF Spec

\* The nodes that a worker could take are among those demanded.
LEMMA WakeUps == PInv => WorkConserving
  <1> SUFFICES ASSUME PInv, \E t \in Workers : pc[t] = "waiting"
               PROVE  Cardinality(Runnable) <= Cardinality(Free(pc))
    BY DEF WorkConserving, Free
  <1>t. wq \in Seq(Nodes) /\ Len(wq) \in Nat /\ DOMAIN wq = 1..Len(wq)
    BY DEF PInv, IInv, TypeOK, PoolTypeOK, Nodes
  <1>e. Demand(wq, SlowBlocked) <= Cardinality(Free(pc))
    BY DEF PInv, Enough
  <1>f. Cardinality(Free(pc)) \in Nat
    BY FreeNat
  <1>c. Count(wq, RunSlow) \in Nat
    BY <1>t, PlacesFinite
  <1>1. CASE AtThreshold
    BY <1>1, <1>t, <1>e, <1>f, <1>c, CountOthers DEF Runnable, Demand
  <1>2. CASE ~AtThreshold
    <2>1. Runnable = DOMAIN wq
      BY <1>2 DEF Runnable
    <2>2. Cardinality(Runnable) = Len(wq)
      BY <1>t, <2>1, FS_Interval
    <2>3. ~SlowBlocked
      BY <1>2 DEF SlowBlocked
    <2> QED
      BY <1>e, <2>2, <2>3 DEF Demand
  <1> QED
    BY <1>1, <1>2

\* Between uv__work_submit(), uv__work_cancel(), the workers and the loop no
\* request is lost, doubled, left unannounced or told wrong, and no wake-up is
\* lost that a worker needs to run one.
THEOREM PoolSafe == Spec => []PoolSound
  <1>1. PInv => PoolSound
    BY WakeUps DEF PInv, PoolSound
  <1> QED
    BY <1>1, PInvHolds, PTL

-----------------------------------------------------------------------------
(* The refinement.                                                         *)

\* A request that changes its stage moves in the abstract specification.
LEMMA StageMove ==
  ASSUME NEW x \in Reqs, NEW from, NEW to, StageOf(x) = from, StageOf(x)' = to,
         \A r \in Reqs \ {x} : StageOf(r)' = StageOf(r)
  PROVE  Requests!Move(x, from, to)
  BY DEF Requests!Move

\* Requests whose status and holders stay do not change their stage.
LEMMA StageKept ==
  ASSUME NEW r \in Reqs, work'[r] = work[r],
         (\E t \in Workers : job'[t] = r) <=> (\E t \in Workers : job[t] = r)
  PROVE  StageOf(r)' = StageOf(r)
  BY DEF StageOf

\* There is no running request without a worker that holds it.
LEMMA RunningHeld ==
  ASSUME PInv
  PROVE  Requests!InStage("running") = {r \in Reqs : \E t \in Workers : job[t] = r}
BY ConstantsAssumption DEF PInv, StatusTruthful, Requests!InStage, StageOf

\* The requests that workers of a set hold are no more than the workers.
LEMMA HeldBound ==
  ASSUME NEW W \in SUBSET Workers, NEW R,
         \A r \in R : \E t \in W : job[t] = r
  PROVE  Cardinality(R) <= Cardinality(W) /\ Cardinality(R) \in Nat
  <1> DEFINE B == {t \in W : job[t] \in R}
             f == [t \in B |-> job[t]]
  <1>1. IsFiniteSet(W) /\ IsFiniteSet(B) /\ Cardinality(B) <= Cardinality(W)
    BY FS_Subset, ConstantsAssumption
  <1>2. f \in Surjection(B, R)
    BY DEF Surjection
  <1> HIDE DEF f, B
  <1>3. IsFiniteSet(R) /\ Cardinality(R) <= Cardinality(B)
    BY <1>1, <1>2, FS_Surjection
  <1>4. Cardinality(R) \in Nat /\ Cardinality(B) \in Nat /\ Cardinality(W) \in Nat
    BY <1>1, <1>3, FS_CardinalityType
  <1> QED
    BY <1>1, <1>3, <1>4

\* A worker without a job leaves room for a request, and a slow one is taken
\* below the threshold only.
LEMMA StartLimits ==
  ASSUME PInv, NEW t \in Workers, job[t] = None
  PROVE  /\ Cardinality(Requests!InStage("running")) < Cardinality(Workers)
         /\ ~AtThreshold =>
              Cardinality(Requests!InStage("running") \cap SlowReqs)
                < slow_work_thread_threshold
  <1> DEFINE R == Requests!InStage("running")
  <1>1. R = {r \in Reqs : \E u \in Workers : job[u] = r}
    BY RunningHeld
  <1>2. None \notin Reqs /\ IsFiniteSet(Workers)
    BY ConstantsAssumption
  <1> HIDE DEF R
  <1>3. \A r \in R : \E u \in Workers \ {t} : job[u] = r
    BY <1>1, <1>2
  <1>4. Cardinality(Workers \ {t}) = Cardinality(Workers) - 1
    BY <1>2, FS_RemoveElement
  <1>5. Cardinality(R) <= Cardinality(Workers \ {t}) /\ Cardinality(R) \in Nat
    BY <1>3, HeldBound
  <1>6. Cardinality(Workers) \in Nat
    BY <1>2, FS_CardinalityType
  <1>7. Cardinality(R) < Cardinality(Workers)
    BY <1>4, <1>5, <1>6
  <1>8. /\ is_slow_work \in SUBSET Workers
        /\ slow_io_work_running = Cardinality(is_slow_work)
        /\ \A u \in Workers : job[u] \in SlowReqs => u \in is_slow_work
        /\ slow_io_work_running \in Nat
    BY DEF PInv, IInv, SlowBound, TypeOK, WorkerTypeOK, PoolTypeOK
  <1>9. \A r \in R \cap SlowReqs : \E u \in is_slow_work : job[u] = r
    BY <1>1, <1>8
  <1>10. /\ Cardinality(R \cap SlowReqs) <= Cardinality(is_slow_work)
         /\ Cardinality(R \cap SlowReqs) \in Nat
    BY <1>8, <1>9, HeldBound
  <1>11. ~AtThreshold => Cardinality(R \cap SlowReqs) < slow_work_thread_threshold
    BY <1>8, <1>10, ThresholdNat DEF AtThreshold
  <1> QED
    BY <1>7, <1>11 DEF R

\* The abstract specification counts as this one does.
LEMMA SameCardinality == \A S : Requests!Cardinality(S) = Cardinality(S)
  BY DEF Requests!Cardinality, Cardinality

\* A worker that takes a request starts it, within the two limits.
LEMMA RefineTake ==
  ASSUME PInv, NEW t \in Workers, TakeSlow(t) \/ TakeFast(t)
  PROVE  Requests!Next
  <1>t. /\ wq \in Seq(Nodes) /\ slow_io_pending_wq \in Seq(SlowReqs)
        /\ job \in [Workers -> Hands]
    BY DEF PInv, IInv, TypeOK, PoolTypeOK, WorkerTypeOK, Nodes, Hands
  <1>n. FastReqs \cap SlowReqs = {} /\ None \notin Reqs
    BY ConstantsAssumption
  <1>1. PICK x \in Reqs : /\ x \in In(wq) \/ x \in In(slow_io_pending_wq)
                          /\ job' = [job EXCEPT ![t] = x]
                          /\ x \in SlowReqs => ~AtThreshold
    <2>1. CASE TakeSlow(t)
      <3>1. /\ slow_io_pending_wq # <<>> /\ ~AtThreshold
            /\ job' = [job EXCEPT ![t] = Head(slow_io_pending_wq)]
        BY <2>1 DEF TakeSlow, StartJob
      <3>2. /\ Head(slow_io_pending_wq) \in In(slow_io_pending_wq)
            /\ Head(slow_io_pending_wq) \in Reqs
        BY <1>t, <3>1, InTail DEF Reqs
      <3> QED
        BY <3>1, <3>2
    <2>2. CASE TakeFast(t)
      <3>1. /\ wq # <<>> /\ Head(wq) \in Reqs
            /\ job' = [job EXCEPT ![t] = Head(wq)]
        BY <2>2 DEF TakeFast, StartJob, MustWait
      <3>2. Head(wq) \in In(wq) /\ Head(wq) \in Nodes
        BY <1>t, <3>1, InTail
      <3>3. Head(wq) \notin SlowReqs
        BY <3>1, <3>2, ConstantsAssumption DEF Nodes, Reqs
      <3> QED
        BY <3>1, <3>2, <3>3
    <2> QED
      BY <2>1, <2>2
  <1>2. pc[t] = "top" /\ work' = work
    BY DEF TakeSlow, TakeFast
  <1>3. job[t] = None
    BY <1>2 DEF PInv, IInv, Phases
  <1>4. work[x] = "set" /\ \A u \in Workers : job[u] # x
    BY <1>1, HomeFacts DEF PInv, Fate, One
  <1>5. job'[t] = x /\ \A u \in Workers \ {t} : job'[u] = job[u]
    BY <1>t, <1>1
  <1>6. StageOf(x) = "queued"
    BY <1>4 DEF StageOf
  <1>7. StageOf(x)' = "running"
    BY <1>2, <1>4, <1>5 DEF StageOf
  <1>8. \A r \in Reqs \ {x} : StageOf(r)' = StageOf(r)
    BY <1>3, <1>5, <1>n, <1>2, StageKept
  <1>9. Requests!Move(x, "queued", "running")
    BY <1>6, <1>7, <1>8, StageMove
  <1>10. Requests!Start(x)
    BY <1>3, <1>1, <1>9, StartLimits, SameCardinality DEF Requests!Start
  <1> QED
    BY <1>10 DEF Requests!Next

\* The stages that a step leaves alone.
LEMMA StageStutter ==
  ASSUME UNCHANGED <<work, job>>
  PROVE  [r \in Reqs |-> StageOf(r)]' = [r \in Reqs |-> StageOf(r)]
BY StageKept

\* Every step of the pool is a step of the requests or leaves them alone.
LEMMA RefineStep ==
  ASSUME PInv, [Next]_vars
  PROVE  \/ Requests!Next
         \/ [r \in Reqs |-> StageOf(r)]' = [r \in Reqs |-> StageOf(r)]
  <1>t. /\ job \in [Workers -> Hands] /\ done_wq \in Seq(Reqs)
        /\ work \in [Reqs -> {"none", "set", "null", "cancelled"}]
    BY DEF PInv, IInv, TypeOK, LoopTypeOK, WorkerTypeOK, Hands
  <1>n. None \notin Reqs
    BY ConstantsAssumption
  <1>1. ASSUME NEW t \in Workers, WorkerStep(t)
        PROVE  \/ Requests!Next
               \/ [r \in Reqs |-> StageOf(r)]' = [r \in Reqs |-> StageOf(r)]
    <2>1. CASE TakeSlow(t) \/ TakeFast(t)
      BY <2>1, RefineTake
    <2>2. CASE HandOver(t)
      <3>0. pc[t] = "finish" /\ job[t] \in Reqs
        BY <1>t, <2>2 DEF HandOver, PInv, IInv, Phases, Hands
      <3> PICK x \in Reqs : x = job[t]
        BY <3>0
      <3>1. /\ work' = [work EXCEPT ![x] = "null"]
            /\ job' = [job EXCEPT ![t] = None]
        BY <2>2 DEF HandOver
      <3>2. x \in Reqs /\ work[x] = "set"
        BY <1>t, <1>n DEF PInv, StatusTruthful
      <3>3. \A u \in Workers \ {t} : job'[u] = job[u]
        BY <1>t, <3>1
      <3>4. job'[t] = None
        BY <1>t, <3>1
      <3>5. work'[x] = "null" /\ \A r \in Reqs \ {x} : work'[r] = work[r]
        BY <1>t, <3>1, <3>2
      <3>6. StageOf(x) = "running"
        BY <3>2 DEF StageOf
      <3>7. StageOf(x)' = "finished"
        BY <3>5 DEF StageOf
      <3>8. \A r \in Reqs \ {x} : StageOf(r)' = StageOf(r)
        BY <1>n, <3>3, <3>4, <3>5, StageKept
      <3>9. Requests!Move(x, "running", "finished")
        BY <3>2, <3>6, <3>7, <3>8, StageMove
      <3> QED
        BY <3>2, <3>9 DEF Requests!Finish, Requests!Next
    <2>3. CASE ~(TakeSlow(t) \/ TakeFast(t) \/ HandOver(t))
      <3>1. UNCHANGED <<work, job>>
        BY <1>1, <2>3 DEF WorkerStep, Acquire, HoldsMutex, Lock, CondWait, SpuriousWakeup,
             CondWaitReturn, TakeExit, RequeueSlow, DropSlowMessage, RunWork, workerVars
      <3> QED
        BY <3>1, StageStutter
    <2> QED
      BY <2>1, <2>2, <2>3
  <1>2. ASSUME NEW x \in Reqs, uv__work_submit(x) PROVE Requests!Next
    <2>1. work[x] = "none" /\ work' = [work EXCEPT ![x] = "set"] /\ job' = job
      BY <1>2 DEF uv__work_submit
    <2>2. ~\E u \in Workers : job[u] = x
      BY <2>1, HomeFacts DEF One
    <2>3. work'[x] = "set" /\ \A r \in Reqs \ {x} : work'[r] = work[r]
      BY <1>t, <2>1
    <2>4. StageOf(x) = "free"
      BY <2>1 DEF StageOf
    <2>5. StageOf(x)' = "queued"
      BY <2>1, <2>2, <2>3 DEF StageOf
    <2>6. \A r \in Reqs \ {x} : StageOf(r)' = StageOf(r)
      BY <2>1, <2>3, StageKept
    <2>7. Requests!Move(x, "free", "queued")
      BY <2>4, <2>5, <2>6, StageMove
    <2> QED
      BY <2>7 DEF Requests!Submit, Requests!Next
  <1>3. ASSUME NEW x \in Reqs, CancelRemove(x)
        PROVE  \/ Requests!Next
               \/ [r \in Reqs |-> StageOf(r)]' = [r \in Reqs |-> StageOf(r)]
    <2>1. /\ work[x] \notin {"none", "null"} /\ work' = [work EXCEPT ![x] = "cancelled"]
          /\ job' = job
          /\ x \in In(wq) \/ x \in In(slow_io_pending_wq) \/ x \in In(loop_wq)
             \/ x \in In(done_wq)
      BY <1>3 DEF CancelRemove, workerVars, In
    <2>2. work'[x] = "cancelled" /\ \A r \in Reqs \ {x} : work'[r] = work[r]
      BY <1>t, <2>1
    <2>3. ~\E u \in Workers : job[u] = x
      BY <2>1, HomeFacts DEF One
    <2>4. CASE work[x] = "cancelled"
      BY <1>t, <2>1, <2>4, StageStutter
    <2>5. CASE work[x] # "cancelled"
      BY <2>1, <2>3, <2>5, <2>2, StageKept, StageMove DEF StageOf, Requests!Cancel, Requests!Next
    <2> QED
      BY <2>4, <2>5
  <1>4. CASE WorkDoneNext
    BY <1>t, <1>4, InTail, StageKept, StageMove DEF WorkDoneNext, workerVars, PInv, Fate, StageOf,
       Requests!Done, Requests!Next
  <1>5. CASE post \/ uv__threadpool_cleanup \/ CancelInsert \/ WorkDoneStart
             \/ CallbackReturn \/ WorkDoneEnd \/ ThreadsJoined \/ Terminated
             \/ UNCHANGED vars
    <2>1. UNCHANGED <<work, job>>
      BY <1>5 DEF post, uv__threadpool_cleanup, CancelInsert, WorkDoneStart, CallbackReturn,
           WorkDoneEnd, ThreadsJoined, Terminated, vars, workerVars
    <2> QED
      BY <2>1, StageStutter
  <1> QED
    BY <1>1, <1>2, <1>3, <1>4, <1>5, StepKinds DEF LoopOnly, WorkDone

\* No request of an idle pool is in use.
LEMMA RefineInit == Init => Requests!Init
  BY DEF Init, Requests!Init, StageOf

\* Queues, messages, locks and the worker loop implement the abstract life of
\* the requests: no request starts twice, beyond the number of threads or of
\* slow threads, or after uv_cancel() said that it was cancelled.
THEOREM PoolRefines == Spec => ImplementsRequests
  <1>1. PInv /\ [Next]_vars => [Requests!Next]_([r \in Reqs |-> StageOf(r)])
    BY RefineStep
  <1>2. ImplementsRequests <=>
          Requests!Init /\ [][Requests!Next]_([r \in Reqs |-> StageOf(r)])
    BY DEF ImplementsRequests, Requests!Spec
  <1> QED
    BY <1>1, <1>2, RefineInit, PInvHolds, PTL DEF Spec
=============================================================================
