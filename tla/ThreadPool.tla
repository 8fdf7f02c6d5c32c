----------------------------- MODULE ThreadPool -----------------------------
(***************************************************************************)
(* The worker threads shared by all file-system, DNS and user work         *)
(* (libuv/src/threadpool.c), with one event loop that submits requests,    *)
(* cancels them and runs their done callbacks.                             *)
(*                                                                         *)
(* The pool's mutex is explicit.  A worker's step is one turn of its loop  *)
(* with the mutex held, the work function, or the hand-over to the loop    *)
(* under loop->wq_mutex (short enough to be one step).  The condition      *)
(* variable is the set of workers whose pc is "waiting": a signal moves    *)
(* one of them to "woken", and POSIX lets a waiter wake up for nothing.    *)
(* The wq_async handle is the abstract signal of module AsyncSignal:       *)
(* uv_async_send() raises it, its delivery runs uv__work_done().           *)
(***************************************************************************)
EXTENDS Naturals, Sequences, FiniteSets, Queues

CONSTANTS
  Workers,              \* the threads of the pool; nthreads is their number
  FastReqs,             \* requests submitted as UV__WORK_CPU or _FAST_IO
  SlowReqs,             \* requests submitted as UV__WORK_SLOW_IO
  RunSlow,              \* run_slow_work_message, a node of wq
  Exit,                 \* exit_message, a node of wq
  None                  \* no request, no thread

Reqs == FastReqs \cup SlowReqs

ASSUME ConstantsAssumption ==
  /\ IsFiniteSet(Workers) /\ Workers # {}
  /\ FastReqs \cap SlowReqs = {}
  /\ {RunSlow, Exit, None} \cap Reqs = {}
  /\ RunSlow # Exit /\ RunSlow # None /\ Exit # None
  /\ None \notin Workers

VARIABLES
  pc,                   \* pc[t]: where worker t is
  job,                  \* job[t]: the request worker t took, or None
  is_slow_work,         \* workers that have counted themselves as slow
  mutex,                \* the worker that holds the pool's mutex, or None
  wq, slow_io_pending_wq, idle_threads, slow_io_work_running,
  work,                 \* work[r]: "none", "set", "null" or "cancelled"
  loop_wq,              \* loop->wq
  done_wq,              \* the local list of uv__work_done()
  raised,               \* wq_async has been sent and not delivered
  loop,                 \* "poll", "done", "callback", "shutdown" or "joined"
  call, arg,            \* the call the loop thread is inside, its request
  ran, outcome          \* history: work functions that ran, last status

poolVars == <<wq, slow_io_pending_wq, idle_threads, slow_io_work_running>>
workerVars == <<pc, job, is_slow_work, mutex>>
resultVars == <<loop_wq, raised>>
loopVars == <<done_wq, loop, call, arg, outcome>>
vars == <<workerVars, poolVars, work, resultVars, loopVars, ran>>

slow_work_thread_threshold == (Cardinality(Workers) + 1) \div 2

Init ==
  /\ pc = [t \in Workers |-> "none"]
  /\ job = [t \in Workers |-> None]
  /\ is_slow_work = {}
  /\ mutex = None
  /\ wq = <<>> /\ slow_io_pending_wq = <<>>
  /\ idle_threads = 0 /\ slow_io_work_running = 0
  /\ work = [r \in Reqs |-> "none"]
  /\ loop_wq = <<>> /\ done_wq = <<>> /\ raised = FALSE
  /\ loop = "poll" /\ call = "none" /\ arg = None
  /\ ran = {} /\ outcome = [r \in Reqs |-> "none"]

-----------------------------------------------------------------------------
(* Queues and the condition variable.                                      *)

\* The values pc may take when uv_cond_signal() follows an update to p.
cond_signal(p) ==
  LET waiting == {t \in Workers : p[t] = "waiting"}
  IN IF waiting = {} THEN {p} ELSE {[p EXCEPT ![t] = "woken"] : t \in waiting}

\* Mutant of SignalIfIdle: only the first node of an empty queue wakes a worker.
SignalIfEmpty(p) == IF wq = <<>> THEN cond_signal(p) ELSE {p}

SignalIfIdle(p) == IF idle_threads > 0 THEN cond_signal(p) ELSE {p}

-----------------------------------------------------------------------------
(* worker()                                                                *)

\* uv_mutex_lock() before the first turn and after a request was handed over.
Lock(t) ==
  /\ pc[t] = "lock" /\ mutex = None
  /\ mutex' = t
  /\ pc' = [pc EXCEPT ![t] = "top"]
  /\ slow_io_work_running' =
       IF t \in is_slow_work THEN slow_io_work_running - 1 ELSE slow_io_work_running
  /\ is_slow_work' = is_slow_work \ {t}
  /\ UNCHANGED <<job, wq, slow_io_pending_wq, idle_threads, work, resultVars,
                 loopVars, ran>>

\* Mutant of AtThreshold: one slow request too many.
AboveThreshold == slow_io_work_running > slow_work_thread_threshold

AtThreshold == slow_io_work_running >= slow_work_thread_threshold

\* Mutant of MustWait: the worker does not look behind the slow message.
MustWaitAtHead == wq # <<>> => (Head(wq) = RunSlow /\ AtThreshold)

MustWait == wq = <<>> \/ (wq = <<RunSlow>> /\ AtThreshold)

\* uv_cond_wait() gives the mutex up.
CondWait(t) ==
  /\ pc[t] = "top" /\ MustWait
  /\ idle_threads' = idle_threads + 1
  /\ mutex' = None
  /\ pc' = [pc EXCEPT ![t] = "waiting"]
  /\ UNCHANGED <<job, is_slow_work, wq, slow_io_pending_wq, slow_io_work_running,
                 work, resultVars, loopVars, ran>>

SpuriousWakeup(t) ==
  /\ pc[t] = "waiting"
  /\ pc' = [pc EXCEPT ![t] = "woken"]
  /\ UNCHANGED <<job, is_slow_work, mutex, poolVars, work, resultVars, loopVars, ran>>

\* uv_cond_wait() returns with the mutex held.
CondWaitReturn(t) ==
  /\ pc[t] = "woken" /\ mutex = None
  /\ mutex' = t
  /\ idle_threads' = idle_threads - 1
  /\ pc' = [pc EXCEPT ![t] = "top"]
  /\ UNCHANGED <<job, is_slow_work, wq, slow_io_pending_wq, slow_io_work_running,
                 work, resultVars, loopVars, ran>>

\* Mutant of TakeExit: the next worker is not woken.
TakeExitSilently(t) ==
  /\ pc[t] = "top" /\ ~MustWait /\ Head(wq) = Exit
  /\ pc' = [pc EXCEPT ![t] = "exited"]
  /\ mutex' = None
  /\ UNCHANGED <<job, is_slow_work, poolVars, work, resultVars, loopVars, ran>>

\* The exit message stays in the queue for the other workers.
TakeExit(t) ==
  /\ pc[t] = "top" /\ ~MustWait /\ Head(wq) = Exit
  /\ pc' \in cond_signal([pc EXCEPT ![t] = "exited"])
  /\ mutex' = None
  /\ UNCHANGED <<job, is_slow_work, poolVars, work, resultVars, loopVars, ran>>

\* Enough slow requests run already: the message goes behind the others.
RequeueSlow(t) ==
  /\ pc[t] = "top" /\ ~MustWait /\ Head(wq) = RunSlow
  /\ AtThreshold
  /\ wq' = Append(Tail(wq), RunSlow)
  /\ UNCHANGED <<workerVars, slow_io_pending_wq, idle_threads, slow_io_work_running,
                 work, resultVars, loopVars, ran>>

\* uv_cancel() emptied the slow queue after the message was posted.
DropSlowMessage(t) ==
  /\ pc[t] = "top" /\ ~MustWait /\ Head(wq) = RunSlow
  /\ ~AtThreshold /\ slow_io_pending_wq = <<>>
  /\ wq' = Tail(wq)
  /\ UNCHANGED <<workerVars, slow_io_pending_wq, idle_threads, slow_io_work_running,
                 work, resultVars, loopVars, ran>>

\* The worker leaves the mutex with request r in hand.
StartJob(t, r) ==
  /\ job' = [job EXCEPT ![t] = r]
  /\ mutex' = None

\* Mutant of TakeSlow: the message is not posted again for the rest.
TakeSlowOnce(t) ==
  /\ pc[t] = "top" /\ ~MustWait /\ Head(wq) = RunSlow
  /\ ~AtThreshold /\ slow_io_pending_wq # <<>>
  /\ is_slow_work' = is_slow_work \cup {t}
  /\ slow_io_work_running' = slow_io_work_running + 1
  /\ slow_io_pending_wq' = Tail(slow_io_pending_wq)
  /\ StartJob(t, Head(slow_io_pending_wq))
  /\ wq' = Tail(wq)
  /\ pc' = [pc EXCEPT ![t] = "work"]
  /\ UNCHANGED <<idle_threads, work, resultVars, loopVars, ran>>

\* The first slow request; the message is posted again if there are more.
TakeSlow(t) ==
  /\ pc[t] = "top" /\ ~MustWait /\ Head(wq) = RunSlow
  /\ ~AtThreshold /\ slow_io_pending_wq # <<>>
  /\ is_slow_work' = is_slow_work \cup {t}
  /\ slow_io_work_running' = slow_io_work_running + 1
  /\ slow_io_pending_wq' = Tail(slow_io_pending_wq)
  /\ StartJob(t, Head(slow_io_pending_wq))
  /\ \/ /\ Tail(slow_io_pending_wq) # <<>>
        /\ wq' = Append(Tail(wq), RunSlow)
        /\ pc' \in SignalIfIdle([pc EXCEPT ![t] = "work"])
     \/ /\ Tail(slow_io_pending_wq) = <<>>
        /\ wq' = Tail(wq)
        /\ pc' = [pc EXCEPT ![t] = "work"]
  /\ UNCHANGED <<idle_threads, work, resultVars, loopVars, ran>>

TakeFast(t) ==
  /\ pc[t] = "top" /\ ~MustWait /\ Head(wq) \in Reqs
  /\ wq' = Tail(wq)
  /\ StartJob(t, Head(wq))
  /\ pc' = [pc EXCEPT ![t] = "work"]
  /\ UNCHANGED <<is_slow_work, slow_io_pending_wq, idle_threads, slow_io_work_running,
                 work, resultVars, loopVars, ran>>

\* w->work(w), outside every lock.
RunWork(t) ==
  /\ pc[t] = "work"
  /\ ran' = ran \cup {job[t]}
  /\ pc' = [pc EXCEPT ![t] = "finish"]
  /\ UNCHANGED <<job, is_slow_work, mutex, poolVars, work, resultVars, loopVars>>

\* Under loop->wq_mutex: the request can no longer be cancelled.
HandOver(t) ==
  /\ pc[t] = "finish"
  /\ work' = [work EXCEPT ![job[t]] = "null"]
  /\ loop_wq' = Append(loop_wq, job[t])
  /\ raised' = TRUE
  /\ job' = [job EXCEPT ![t] = None]
  /\ pc' = [pc EXCEPT ![t] = "lock"]
  /\ UNCHANGED <<is_slow_work, mutex, poolVars, loopVars, ran>>

-----------------------------------------------------------------------------
(* The loop thread.  User code runs between two turns of the loop and in a *)
(* done callback; the functions it calls return before it goes on.         *)

UserCode == loop \in {"poll", "callback"} /\ call = "none"

\* uv__work_submit(): the first one starts the threads, which wait for the
\* mutex.  init_threads() resets the queues and not the two counters.
uv__work_submit(r) ==
  /\ UserCode
  /\ work[r] = "none"
  /\ work' = [work EXCEPT ![r] = "set"]
  /\ call' = "post" /\ arg' = r
  /\ ran' = ran \ {r}
  /\ outcome' = [outcome EXCEPT ![r] = "none"]
  /\ \/ /\ \A t \in Workers : pc[t] = "none"
        /\ pc' = [t \in Workers |-> "lock"]
        /\ wq' = <<>> /\ slow_io_pending_wq' = <<>>
     \/ /\ \E t \in Workers : pc[t] # "none"
        /\ UNCHANGED <<pc, wq, slow_io_pending_wq>>
  /\ UNCHANGED <<job, is_slow_work, mutex, idle_threads, slow_io_work_running,
                 resultVars, done_wq, loop>>

\* post() of a node into wq
PostNode(q) ==
  /\ wq' = Append(wq, q)
  /\ pc' \in SignalIfIdle(pc)

\* post()
post ==
  /\ call = "post" /\ mutex = None
  /\ call' = "none" /\ arg' = None
  /\ \/ /\ arg \in FastReqs
        /\ PostNode(arg)
        /\ UNCHANGED slow_io_pending_wq
     \/ /\ arg \in SlowReqs
        /\ slow_io_pending_wq' = Append(slow_io_pending_wq, arg)
        /\ \/ RunSlow \in In(wq) /\ UNCHANGED <<wq, pc>>
           \/ RunSlow \notin In(wq) /\ PostNode(RunSlow)
  /\ UNCHANGED <<job, is_slow_work, mutex, idle_threads, slow_io_work_running, work,
                 resultVars, done_wq, loop, outcome, ran>>

\* uv__work_cancel(), under both locks: take the request off the queue that
\* it is on: one of the pool's or, when it was cancelled before, the loop's.
\* Otherwise the call returns UV_EBUSY and changes nothing.
CancelRemove(r) ==
  /\ UserCode /\ mutex = None
  /\ work[r] \notin {"none", "null"}
  /\ \/ \E i \in DOMAIN wq :
          /\ wq[i] = r
          /\ wq' = RemoveNode(wq, i)
          /\ UNCHANGED <<slow_io_pending_wq, loop_wq, done_wq>>
     \/ \E i \in DOMAIN slow_io_pending_wq :
          /\ slow_io_pending_wq[i] = r
          /\ slow_io_pending_wq' = RemoveNode(slow_io_pending_wq, i)
          /\ UNCHANGED <<wq, loop_wq, done_wq>>
     \/ \E i \in DOMAIN loop_wq :
          /\ loop_wq[i] = r
          /\ loop_wq' = RemoveNode(loop_wq, i)
          /\ UNCHANGED <<wq, slow_io_pending_wq, done_wq>>
     \/ \E i \in DOMAIN done_wq :
          /\ done_wq[i] = r
          /\ done_wq' = RemoveNode(done_wq, i)
          /\ UNCHANGED <<wq, slow_io_pending_wq, loop_wq>>
  /\ work' = [work EXCEPT ![r] = "cancelled"]
  /\ call' = "cancel" /\ arg' = r
  /\ UNCHANGED <<workerVars, idle_threads, slow_io_work_running, raised, loop,
                 outcome, ran>>

\* uv__work_cancel(), second half, under loop->wq_mutex alone.
CancelInsert ==
  /\ call = "cancel"
  /\ loop_wq' = Append(loop_wq, arg)
  /\ raised' = TRUE
  /\ call' = "none" /\ arg' = None
  /\ UNCHANGED <<workerVars, poolVars, work, done_wq, loop, outcome, ran>>

\* uv__work_done() is the callback of wq_async: it takes the whole list.
WorkDoneStart ==
  /\ loop = "poll" /\ call = "none" /\ raised
  /\ raised' = FALSE
  /\ done_wq' = loop_wq
  /\ loop_wq' = <<>>
  /\ loop' = "done"
  /\ UNCHANGED <<workerVars, poolVars, work, call, arg, outcome, ran>>

\* One done callback; from here on the request belongs to the user again.
WorkDoneNext ==
  /\ loop = "done" /\ done_wq # <<>>
  /\ done_wq' = Tail(done_wq)
  /\ outcome' = [outcome EXCEPT ![Head(done_wq)] =
                   IF work[Head(done_wq)] = "cancelled" THEN "ECANCELED" ELSE "ok"]
  /\ work' = [work EXCEPT ![Head(done_wq)] = "none"]
  /\ loop' = "callback"
  /\ UNCHANGED <<workerVars, poolVars, resultVars, call, arg, ran>>

CallbackReturn ==
  /\ loop = "callback" /\ call = "none"
  /\ loop' = "done"
  /\ UNCHANGED <<workerVars, poolVars, work, resultVars, done_wq, call, arg, outcome, ran>>

WorkDoneEnd ==
  /\ loop = "done" /\ done_wq = <<>>
  /\ loop' = "poll"
  /\ UNCHANGED <<workerVars, poolVars, work, resultVars, done_wq, call, arg, outcome, ran>>

\* uv__threadpool_cleanup(), from uv_library_shutdown(): post the exit
\* message and join the threads.  The loop is not run again.
uv__threadpool_cleanup ==
  /\ loop = "poll" /\ call = "none" /\ mutex = None
  /\ \E t \in Workers : pc[t] # "none"
  /\ PostNode(Exit)
  /\ loop' = "shutdown"
  /\ UNCHANGED <<job, is_slow_work, mutex, slow_io_pending_wq, idle_threads,
                 slow_io_work_running, work, resultVars, done_wq, call, arg, outcome, ran>>

\* All the threads have been joined: the pool is gone.
ThreadsJoined ==
  /\ loop = "shutdown"
  /\ \A t \in Workers : pc[t] = "exited"
  /\ loop' = "joined"
  /\ UNCHANGED <<workerVars, poolVars, work, resultVars, done_wq, call, arg, outcome, ran>>

\* The process goes on without the pool; not a deadlock.
Terminated == loop = "joined" /\ UNCHANGED vars

-----------------------------------------------------------------------------
HoldsMutex(t) ==
  \/ CondWait(t) \/ TakeExit(t) \/ RequeueSlow(t) \/ DropSlowMessage(t)
  \/ TakeSlow(t) \/ TakeFast(t)

Acquire(t) == Lock(t) \/ CondWaitReturn(t)

WorkDone == WorkDoneStart \/ WorkDoneNext \/ CallbackReturn \/ WorkDoneEnd

Next ==
  \/ \E t \in Workers :
       Acquire(t) \/ HoldsMutex(t) \/ RunWork(t) \/ HandOver(t) \/ SpuriousWakeup(t)
  \/ \E r \in Reqs : uv__work_submit(r) \/ CancelRemove(r)
  \/ post \/ CancelInsert \/ WorkDone
  \/ uv__threadpool_cleanup \/ ThreadsJoined \/ Terminated

Spec == Init /\ [][Next]_vars

(***************************************************************************)
(* Fairness.  Threads are scheduled: a worker that holds the mutex or has  *)
(* work to hand over goes on, and so does the loop thread inside libuv.    *)
(* User code returns to the loop sooner or later, whatever it calls in     *)
(* between.  The mutex admits every thread that keeps asking for it.  A    *)
(* fast work function returns; Fairness says nothing of slow ones.         *)
(***************************************************************************)
Fairness ==
  /\ \A t \in Workers :
       /\ SF_vars(Acquire(t))
       /\ WF_vars(HoldsMutex(t))
       /\ WF_vars(RunWork(t) /\ job[t] \in FastReqs)
       /\ WF_vars(HandOver(t))
  /\ SF_vars(post) /\ WF_vars(CancelInsert) /\ WF_vars(ThreadsJoined)
  /\ SF_vars(WorkDone)

FairSpec == Spec /\ Fairness

\* uv_cancel() of a request cancelled before succeeds again and moves it to
\* the end of loop->wq, so a user that never stops can put its callback off.
RecancelEnds ==
  <>[][\A r \in Reqs : work[r] = "cancelled" => ~CancelRemove(r)]_vars

\* Every work function returns, slow I/O included, and cancelling comes to rest.
Patient == RecancelEnds /\ \A t \in Workers : WF_vars(RunWork(t))

-----------------------------------------------------------------------------
(* Properties.                                                             *)

WorkerPcs == {"none", "lock", "top", "waiting", "woken", "work", "finish", "exited"}

WorkerTypeOK ==
  /\ pc \in [Workers -> WorkerPcs]
  /\ job \in [Workers -> Reqs \cup {None}]
  /\ is_slow_work \subseteq Workers
  /\ mutex \in Workers \cup {None}

PoolTypeOK ==
  /\ wq \in Seq(FastReqs \cup {RunSlow, Exit})
  /\ slow_io_pending_wq \in Seq(SlowReqs)
  /\ idle_threads \in Nat /\ slow_io_work_running \in Nat

LoopTypeOK ==
  /\ work \in [Reqs -> {"none", "set", "null", "cancelled"}]
  /\ loop_wq \in Seq(Reqs) /\ done_wq \in Seq(Reqs)
  /\ raised \in BOOLEAN
  /\ loop \in {"poll", "done", "callback", "shutdown", "joined"}
  /\ call \in {"none", "post", "cancel"} /\ arg \in Reqs \cup {None}
  /\ ran \subseteq Reqs
  /\ outcome \in [Reqs -> {"none", "ok", "ECANCELED"}]

TypeOK == WorkerTypeOK /\ PoolTypeOK /\ LoopTypeOK

\* The places a request can be in, each with its number of occurrences.
Occurrences(r) ==
  LET At(q) == Cardinality({i \in DOMAIN q : q[i] = r})
  IN At(wq) + At(slow_io_pending_wq) + At(loop_wq) + At(done_wq)
       + Cardinality({t \in Workers : job[t] = r})
       + (IF arg = r THEN 1 ELSE 0)

\* A request is in one place from its submission to its done callback, and in
\* none otherwise: no queue operation loses it, links it twice or, as with
\* uv__work_cancel() between its two locks, leaves it to two threads.
OneHome == \A r \in Reqs : Occurrences(r) = IF work[r] = "none" THEN 0 ELSE 1

\* slow_io_work_running counts the workers inside slow work, and they never
\* outnumber slow_work_thread_threshold(): half of the pool stays available.
SlowBound ==
  /\ slow_io_work_running = Cardinality(is_slow_work)
  /\ slow_io_work_running <= slow_work_thread_threshold
  /\ \A t \in Workers : job[t] \in SlowReqs => t \in is_slow_work

\* Slow requests wait behind exactly one message in wq: post() relies on the
\* message being there to do nothing more.
SlowAnnounced ==
  /\ slow_io_pending_wq # <<>> => RunSlow \in In(wq)
  /\ Cardinality({i \in DOMAIN wq : wq[i] = RunSlow}) <= 1

\* What a free worker would find to do in wq.
Runnable ==
  {i \in DOMAIN wq : wq[i] = RunSlow => ~AtThreshold}

\* The condition variable loses no wake-up: while a worker sleeps, the others
\* that are awake and without a job can take every runnable node.  Signals
\* are sent under idle_threads > 0 only, and may go to nobody.
WorkConserving ==
  (\E t \in Workers : pc[t] = "waiting") =>
    Cardinality(Runnable) <=
      Cardinality({t \in Workers : pc[t] \in {"lock", "top", "woken"}})

\* The status of the done callback tells the truth: 0 means that the work
\* function ran, UV_ECANCELED that it did not; and the worker never calls
\* uv__cancelled(), which would abort().
StatusTruthful ==
  /\ \A r \in Reqs : outcome[r] = "ok" => r \in ran
  /\ \A r \in Reqs : outcome[r] = "ECANCELED" \/ work[r] = "cancelled" => r \notin ran
  /\ \A t \in Workers : job[t] # None => work[job[t]] = "set"

\* The queues between uv__work_submit(), uv__work_cancel(), the workers and the
\* loop: no request is lost, doubled, left unannounced or told wrong, and no wake-up
\* is lost that a worker needs to run one.
PoolSound == OneHome /\ SlowAnnounced /\ StatusTruthful /\ WorkConserving

\* The refinement mapping: the stage of a request.
StageOf(r) ==
  IF work[r] = "none" THEN "free"
  ELSE IF work[r] = "null" THEN "finished"
  ELSE IF work[r] = "cancelled" THEN "cancelled"
  ELSE IF \E t \in Workers : job[t] = r THEN "running"
  ELSE "queued"

Requests == INSTANCE WorkRequests
  WITH stage <- [r \in Reqs |-> StageOf(r)],
       Threads <- Cardinality(Workers),
       SlowThreads <- slow_work_thread_threshold

\* Queues, messages, locks and the worker loop implement the abstract life of
\* the requests: no request starts twice, beyond a limit, or after its cancel.
ImplementsRequests == Requests!Spec

ShutDown == loop \in {"shutdown", "joined"}

\* When every work function returns, every submitted request gets its done
\* callback, unless the library is shut down first.
EveryRequestDone ==
  Patient => \A r \in Reqs : work[r] # "none" ~> work[r] = "none" \/ ShutDown

\* The point of the slow queue: with two threads or more, a fast request is
\* run even if no slow work function ever returns.
FastNotStarved ==
  \A r \in FastReqs :
    work[r] = "set" ~> work[r] # "set" \/ ShutDown

\* uv__threadpool_cleanup() joins its threads: one exit message reaches them all.
ShutdownJoins == Patient => (loop = "shutdown" ~> loop = "joined")
=============================================================================
