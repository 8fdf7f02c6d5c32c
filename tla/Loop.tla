-------------------------------- MODULE Loop --------------------------------
(***************************************************************************)
(* The event loop: uv_run() and its phases (unix/core.c), the idle,        *)
(* prepare and check watchers (unix/loop-watcher.c), the reference counts  *)
(* that keep the loop alive (uv-common.h), closing handles, uv_stop() and  *)
(* uv_loop_close().                                                        *)
(*                                                                         *)
(* Callbacks are user code: while one runs, any call of the API may be     *)
(* made, in any number, before it returns.  Timers and streams are reduced *)
(* to what the loop sees of them: a timer in the heap is due or is not; a  *)
(* stream is active or not and may be in the pending queue.                *)
(***************************************************************************)
EXTENDS Integers, Sequences, FiniteSets, Queues

CONSTANTS
  Handles,
  Kind,       \* the type of each handle
  MaxReqs,    \* bound: requests outstanding at a time
  Greedy      \* whether callbacks start timers that are due at once, and
              \* move the clock

Watchers == {"idle", "prepare", "check"}

ASSUME LoopAssumption ==
  /\ IsFiniteSet(Handles)
  /\ Kind \in [Handles -> Watchers \cup {"timer", "stream"}]
  /\ MaxReqs \in Nat /\ Greedy \in BOOLEAN

VARIABLES
  handle_queue,      \* loop->handle_queue: the handles initialised
  active, ref, closing,  \* the flags UV_HANDLE_ACTIVE, _REF and _CLOSING
  active_handles, active_reqs,
  watchers,          \* loop->idle_handles, prepare_handles, check_handles
  pending_queue, closing_handles,
  due,               \* the timers in the heap with timeout <= loop->time
  stop_flag,
  phase,             \* where uv_run() is; "out" and "closed" are outside
  queue,             \* the local list of the running phase
  incallback,        \* 1 while a user callback runs
  mode, timeout, ran_pending,  \* locals of uv_run()
  waiting,           \* history: watchers the running phase has yet to call
  progress           \* history: this uv_run() called back, or its poll was
                     \* cut short

flags == <<active, ref, closing, active_handles>>
lists == <<watchers, pending_queue, closing_handles, queue>>
run == <<phase, mode, timeout, ran_pending>>
vars == <<handle_queue, flags, active_reqs, lists, due, stop_flag, run,
          incallback, waiting, progress>>

Init ==
  /\ handle_queue = {} /\ active = {} /\ ref = {} /\ closing = {}
  /\ active_handles = 0 /\ active_reqs = 0
  /\ watchers = [k \in Watchers |-> <<>>]
  /\ pending_queue = <<>> /\ closing_handles = <<>> /\ queue = <<>>
  /\ due = {} /\ stop_flag = 0
  /\ phase = "out" /\ mode = "default" /\ timeout = 0 /\ ran_pending = 0
  /\ incallback = 0 /\ waiting = {} /\ progress = 0

-----------------------------------------------------------------------------
(* Flags and counts.                                                       *)

\* Mutant of uv__handle_start: the reference is not looked at.
handle_start_counts_all(h) ==
  /\ active' = active \cup {h}
  /\ active_handles' = IF h \in active THEN active_handles ELSE active_handles + 1

uv__handle_start(h) ==
  /\ active' = active \cup {h}
  /\ active_handles' =
       IF h \notin active /\ h \in ref THEN active_handles + 1 ELSE active_handles

uv__handle_stop(h) ==
  /\ active' = active \ {h}
  /\ active_handles' =
       IF h \in active /\ h \in ref THEN active_handles - 1 ELSE active_handles

IsTimer(h) == Kind[h] = "timer"

\* Mutant of uv__loop_alive: handles on their way out do not count.
alive_without_closing ==
  \/ active_handles > 0 \/ active_reqs > 0
  \/ pending_queue # <<>>

uv__loop_alive ==
  \/ active_handles > 0 \/ active_reqs > 0
  \/ pending_queue # <<>> \/ closing_handles # <<>>

\* uv__next_timeout() as far as the loop cares: now, some time, never
uv__next_timeout ==
  IF due # {} THEN 0 ELSE IF \E h \in active : IsTimer(h) THEN 1 ELSE -1

\* Mutant of uv__backend_timeout: closing handles may wait.
backend_timeout_sleeps ==
  IF /\ stop_flag = 0 /\ (active_handles > 0 \/ active_reqs > 0)
     /\ pending_queue = <<>> /\ watchers["idle"] = <<>>
    THEN uv__next_timeout ELSE 0

uv__backend_timeout ==
  IF /\ stop_flag = 0 /\ (active_handles > 0 \/ active_reqs > 0)
     /\ pending_queue = <<>> /\ watchers["idle"] = <<>> /\ closing_handles = <<>>
    THEN uv__next_timeout ELSE 0

\* uv__update_time(): any timers of the heap may be due by now.
uv__update_time ==
  \E late \in SUBSET {h \in active : IsTimer(h)} : due' = due \cup late

-----------------------------------------------------------------------------
(* Calls of the user, outside uv_run() or in a callback.                   *)

UserCode == phase = "out" \/ incallback = 1

\* uv_idle_init() and its like
HandleInit(h) ==
  /\ UserCode /\ h \notin handle_queue
  /\ handle_queue' = handle_queue \cup {h}
  /\ ref' = ref \cup {h}
  /\ UNCHANGED <<active, closing, active_handles, active_reqs, lists, due, stop_flag,
                 run, incallback, waiting, progress>>

\* uv_idle_start() and its like.  They do not look for UV_HANDLE_CLOSING: that
\* no watcher is started once it is closing is the duty of the caller.
WatcherStart(h) ==
  /\ UserCode /\ h \in handle_queue \ (active \cup closing) /\ Kind[h] \in Watchers
  /\ watchers' = [watchers EXCEPT ![Kind[h]] = <<h>> \o @]
  /\ uv__handle_start(h)
  /\ UNCHANGED <<handle_queue, ref, closing, active_reqs, pending_queue,
                 closing_handles, queue, due, stop_flag, run, incallback, waiting, progress>>

\* QUEUE_REMOVE(): from the list of the loop or of the running phase
Unlink(h) ==
  /\ watchers' = [k \in Watchers |-> Without(watchers[k], h)]
  /\ queue' = Without(queue, h)

\* uv_idle_stop() and its like
WatcherStop(h) ==
  /\ UserCode /\ h \in active /\ Kind[h] \in Watchers
  /\ uv__handle_stop(h)
  /\ Unlink(h)
  /\ waiting' = waiting \ {h}
  /\ UNCHANGED <<handle_queue, ref, closing, active_reqs, pending_queue,
                 closing_handles, due, stop_flag, run, incallback, progress>>

uv_timer_start(h) ==
  /\ UserCode /\ h \in handle_queue \ closing /\ IsTimer(h)
  /\ uv__handle_start(h)
  /\ \/ due' = due \ {h}
     \/ Greedy = TRUE /\ due' = due \cup {h}
  /\ UNCHANGED <<handle_queue, ref, closing, active_reqs, lists, stop_flag, run,
                 incallback, waiting, progress>>

uv_timer_stop(h) ==
  /\ UserCode /\ h \in active /\ IsTimer(h)
  /\ uv__handle_stop(h)
  /\ due' = due \ {h}
  /\ UNCHANGED <<handle_queue, ref, closing, active_reqs, lists, stop_flag, run,
                 incallback, waiting, progress>>

uv_read_start(h) ==
  /\ UserCode /\ h \in handle_queue \ (active \cup closing) /\ Kind[h] = "stream"
  /\ uv__handle_start(h)
  /\ UNCHANGED <<handle_queue, ref, closing, active_reqs, lists, due, stop_flag, run,
                 incallback, waiting, progress>>

uv_read_stop(h) ==
  /\ UserCode /\ h \in active /\ Kind[h] = "stream"
  /\ uv__handle_stop(h)
  /\ UNCHANGED <<handle_queue, ref, closing, active_reqs, lists, due, stop_flag, run,
                 incallback, waiting, progress>>

\* A request of the stream failed at once: its callback is left to the loop.
uv__io_feed(h) ==
  /\ UserCode /\ h \in handle_queue \ closing /\ Kind[h] = "stream"
  /\ h \notin In(pending_queue) /\ (phase = "pending" => h \notin In(queue))
  /\ pending_queue' = Append(pending_queue, h)
  /\ UNCHANGED <<handle_queue, flags, active_reqs, watchers, closing_handles, queue,
                 due, stop_flag, run, incallback, waiting, progress>>

uv__handle_ref(h) ==
  /\ UserCode /\ h \in handle_queue \ ref
  /\ ref' = ref \cup {h}
  /\ active_handles' =
       IF h \notin closing /\ h \in active THEN active_handles + 1 ELSE active_handles
  /\ UNCHANGED <<handle_queue, active, closing, active_reqs, lists, due, stop_flag, run,
                 incallback, waiting, progress>>

uv__handle_unref(h) ==
  /\ UserCode /\ h \in handle_queue \cap ref
  /\ ref' = ref \ {h}
  /\ active_handles' =
       IF h \notin closing /\ h \in active THEN active_handles - 1 ELSE active_handles
  /\ UNCHANGED <<handle_queue, active, closing, active_reqs, lists, due, stop_flag, run,
                 incallback, waiting, progress>>

\* Mutant of Discard: uv__io_close() forgets the pending queue.
DiscardButPending(h) ==
  /\ uv__handle_stop(h)
  /\ Unlink(h)
  /\ due' = due \ {h}
  /\ UNCHANGED pending_queue

\* uv__idle_close(), uv__timer_close(), uv__stream_close() -> uv__io_close()
Discard(h) ==
  /\ uv__handle_stop(h)
  /\ Unlink(h)
  /\ due' = due \ {h}
  /\ pending_queue' = Without(pending_queue, h)

uv__make_close_pending(h) == closing_handles' = <<h>> \o closing_handles

uv_close(h) ==
  /\ UserCode /\ h \in handle_queue \ closing
  /\ closing' = closing \cup {h}
  /\ Discard(h)
  /\ uv__make_close_pending(h)
  /\ waiting' = waiting \ {h}
  /\ UNCHANGED <<handle_queue, ref, active_reqs, stop_flag, run, incallback, progress>>

uv_stop ==
  /\ UserCode /\ stop_flag = 0
  /\ stop_flag' = 1
  /\ UNCHANGED <<handle_queue, flags, active_reqs, lists, due, run, incallback, waiting,
                 progress>>

uv__req_register ==
  /\ UserCode /\ active_reqs < MaxReqs
  /\ active_reqs' = active_reqs + 1
  /\ UNCHANGED <<handle_queue, flags, lists, due, stop_flag, run, incallback, waiting,
                 progress>>

uv_update_time ==
  /\ Greedy = TRUE /\ UserCode
  /\ uv__update_time
  /\ UNCHANGED <<handle_queue, flags, active_reqs, lists, stop_flag, run, incallback,
                 waiting, progress>>

\* Anything else returns UV_EBUSY.
uv_loop_close ==
  /\ phase = "out" /\ active_reqs = 0 /\ handle_queue = {}
  /\ phase' = "closed"
  /\ UNCHANGED <<handle_queue, flags, active_reqs, lists, due, stop_flag, mode, timeout,
                 ran_pending, incallback, waiting, progress>>

UserCall ==
  \/ \E h \in Handles :
       \/ HandleInit(h) \/ WatcherStart(h) \/ WatcherStop(h)
       \/ uv_timer_start(h) \/ uv_timer_stop(h) \/ uv_read_start(h) \/ uv_read_stop(h)
       \/ uv__io_feed(h) \/ uv__handle_ref(h) \/ uv__handle_unref(h) \/ uv_close(h)
  \/ uv_stop \/ uv__req_register \/ uv_update_time \/ uv_loop_close

-----------------------------------------------------------------------------
(* uv_run().  A phase takes its list over when it is entered, and calls    *)
(* back one element after the other.                                       *)

\* The callback of h is called.
Call == incallback' = 1 /\ progress' = 1

\* uv__run_timers() is entered.
RunTimers(p) == uv__update_time /\ phase' = p

\* Nothing to do, or uv_stop() was called before.
uv_run_nothing ==
  /\ phase = "out" /\ (~uv__loop_alive \/ stop_flag = 1)
  /\ IF uv__loop_alive THEN UNCHANGED due ELSE uv__update_time
  /\ stop_flag' = 0
  /\ UNCHANGED <<handle_queue, flags, active_reqs, lists, run, incallback, waiting,
                 progress>>

uv_run(m) ==
  /\ phase = "out" /\ uv__loop_alive /\ stop_flag = 0
  /\ RunTimers("timers")
  /\ mode' = m
  /\ progress' = 0
  /\ UNCHANGED <<handle_queue, flags, active_reqs, lists, stop_flag, timeout,
                 ran_pending, incallback, waiting>>

\* A timer that repeats stays in the heap with a later timeout.
TimerFire(h) ==
  /\ phase \in {"timers", "timers again"} /\ incallback = 0 /\ h \in due
  /\ due' = due \ {h}
  /\ UNCHANGED <<active, active_handles>> \/ uv__handle_stop(h)
  /\ Call
  /\ UNCHANGED <<handle_queue, ref, closing, active_reqs, lists, stop_flag, run, waiting>>

\* uv__run_pending() is entered.
TimersEnd ==
  /\ phase = "timers" /\ incallback = 0 /\ due = {}
  /\ phase' = "pending"
  /\ ran_pending' = IF pending_queue = <<>> THEN 0 ELSE 1
  /\ queue' = pending_queue
  /\ pending_queue' = <<>>
  /\ UNCHANGED <<handle_queue, flags, active_reqs, watchers, closing_handles, due,
                 stop_flag, mode, timeout, incallback, waiting, progress>>

PendingNext(h) ==
  /\ phase = "pending" /\ incallback = 0 /\ queue # <<>> /\ h = Head(queue)
  /\ queue' = Tail(queue)
  /\ Call
  /\ UNCHANGED <<handle_queue, flags, active_reqs, watchers, pending_queue,
                 closing_handles, due, stop_flag, run, waiting>>

\* uv__run_idle(), uv__run_prepare() or uv__run_check() is entered: QUEUE_MOVE
RunWatchers(k) ==
  /\ phase' = k
  /\ queue' = watchers[k]
  /\ watchers' = [watchers EXCEPT ![k] = <<>>]
  /\ waiting' = {h \in active : Kind[h] = k}

PendingEnd ==
  /\ phase = "pending" /\ incallback = 0 /\ queue = <<>>
  /\ RunWatchers("idle")
  /\ UNCHANGED <<handle_queue, flags, active_reqs, pending_queue, closing_handles, due,
                 stop_flag, mode, timeout, ran_pending, incallback, progress>>

\* Mutant of Requeue: the handle goes back into the list being run.
RequeueLocally(h) == queue' = Append(Tail(queue), h) /\ UNCHANGED watchers

\* A handle goes back to the loop before its callback runs.
Requeue(h) ==
  /\ queue' = Tail(queue)
  /\ watchers' = [watchers EXCEPT ![phase] = Append(@, h)]

WatcherNext(h) ==
  /\ phase \in Watchers /\ incallback = 0 /\ queue # <<>> /\ h = Head(queue)
  /\ Requeue(h)
  /\ waiting' = waiting \ {h}
  /\ Call
  /\ UNCHANGED <<handle_queue, flags, active_reqs, pending_queue, closing_handles, due,
                 stop_flag, run>>

IdleEnd ==
  /\ phase = "idle" /\ incallback = 0 /\ queue = <<>>
  /\ RunWatchers("prepare")
  /\ UNCHANGED <<handle_queue, flags, active_reqs, pending_queue, closing_handles, due,
                 stop_flag, mode, timeout, ran_pending, incallback, progress>>

PrepareEnd ==
  /\ phase = "prepare" /\ incallback = 0 /\ queue = <<>>
  /\ phase' = "poll"
  /\ timeout' = IF (mode = "once" /\ ran_pending = 0) \/ mode = "default"
                  THEN uv__backend_timeout ELSE 0
  /\ UNCHANGED <<handle_queue, flags, active_reqs, lists, due, stop_flag, mode,
                 ran_pending, incallback, waiting, progress>>

-----------------------------------------------------------------------------
(* uv__io_poll(): events are reported one after the other; after the first *)
(* it does not block any more.                                             *)

PollStream(h) ==
  /\ phase = "poll" /\ incallback = 0 /\ h \in active /\ Kind[h] = "stream"
  /\ uv__update_time
  /\ timeout' = 0
  /\ Call
  /\ UNCHANGED <<handle_queue, flags, active_reqs, lists, stop_flag, phase, mode,
                 ran_pending, waiting>>

\* A request is complete: uv__req_unregister() and its callback
PollRequest ==
  /\ phase = "poll" /\ incallback = 0 /\ active_reqs > 0
  /\ active_reqs' = active_reqs - 1
  /\ uv__update_time
  /\ timeout' = 0
  /\ Call
  /\ UNCHANGED <<handle_queue, flags, lists, stop_flag, phase, mode, ran_pending, waiting>>

\* The poll ends and no callback is due: the eventfd of the loop or its signal
\* pipe was readable, or interrupts made uv__io_poll() count time twice (module
\* PollTimeout).
PollInternal ==
  /\ phase = "poll" /\ incallback = 0 /\ timeout # 0
  /\ uv__update_time
  /\ timeout' = 0
  /\ progress' = 1
  /\ UNCHANGED <<handle_queue, flags, active_reqs, lists, stop_flag, phase, mode,
                 ran_pending, incallback, waiting>>

\* Time is up: at once, or when the earliest timer is due.
PollReturn ==
  /\ phase = "poll" /\ incallback = 0 /\ timeout # -1
  /\ uv__update_time
  /\ timeout > 0 => due' # {}
  /\ RunWatchers("check")
  /\ UNCHANGED <<handle_queue, flags, active_reqs, pending_queue, closing_handles,
                 stop_flag, mode, timeout, ran_pending, incallback, progress>>

-----------------------------------------------------------------------------
\* uv__run_closing_handles() is entered.
CheckEnd ==
  /\ phase = "check" /\ incallback = 0 /\ queue = <<>>
  /\ phase' = "closing"
  /\ queue' = closing_handles
  /\ closing_handles' = <<>>
  /\ UNCHANGED <<handle_queue, flags, active_reqs, watchers, pending_queue, due,
                 stop_flag, mode, timeout, ran_pending, incallback, waiting, progress>>

\* After the close callback the memory of the handle is the user's again.
uv__finish_close(h) ==
  /\ phase = "closing" /\ incallback = 0 /\ queue # <<>> /\ h = Head(queue)
  /\ queue' = Tail(queue)
  /\ closing' = closing \ {h}
  /\ ref' = ref \ {h}
  /\ handle_queue' = handle_queue \ {h}
  /\ Call
  /\ UNCHANGED <<active, active_handles, active_reqs, watchers, pending_queue,
                 closing_handles, due, stop_flag, run, waiting>>

\* The end of an iteration: uv_run() returns, or the next one begins.
Iterate ==
  IF mode = "default" /\ uv__loop_alive /\ stop_flag = 0
    THEN RunTimers("timers") /\ UNCHANGED stop_flag
    ELSE phase' = "out" /\ stop_flag' = 0 /\ UNCHANGED due

\* Mutant of ClosingEnd: no second look at the timers.
ClosingEndOnce ==
  /\ phase = "closing" /\ incallback = 0 /\ queue = <<>>
  /\ Iterate
  /\ UNCHANGED <<handle_queue, flags, active_reqs, lists, mode, timeout, ran_pending,
                 incallback, waiting, progress>>

ClosingEnd ==
  /\ phase = "closing" /\ incallback = 0 /\ queue = <<>>
  /\ IF mode = "once" THEN RunTimers("timers again") /\ UNCHANGED stop_flag ELSE Iterate
  /\ UNCHANGED <<handle_queue, flags, active_reqs, lists, mode, timeout, ran_pending,
                 incallback, waiting, progress>>

TimersAgainEnd ==
  /\ phase = "timers again" /\ incallback = 0 /\ due = {}
  /\ Iterate
  /\ UNCHANGED <<handle_queue, flags, active_reqs, lists, mode, timeout, ran_pending,
                 incallback, waiting, progress>>

CallbackReturn ==
  /\ incallback = 1
  /\ incallback' = 0
  /\ UNCHANGED <<handle_queue, flags, active_reqs, lists, due, stop_flag, run, waiting,
                 progress>>

-----------------------------------------------------------------------------
LoopStep ==
  \/ \E h \in Handles :
       TimerFire(h) \/ PendingNext(h) \/ WatcherNext(h) \/ uv__finish_close(h)
  \/ TimersEnd \/ PendingEnd \/ IdleEnd \/ PrepareEnd \/ CheckEnd \/ ClosingEnd
  \/ TimersAgainEnd

Event == (\E h \in Handles : PollStream(h)) \/ PollRequest \/ PollInternal

Next ==
  \/ UserCall \/ uv_run_nothing
  \/ \E m \in {"default", "once", "nowait"} : uv_run(m)
  \/ LoopStep \/ Event \/ PollReturn \/ CallbackReturn

Spec == Init /\ [][Next]_vars

\* Callbacks return, the loop goes on, and the events of one poll are finitely
\* many.  Nothing is assumed of the user or of the arrival of events.
FairSpec == Spec /\ WF_vars(LoopStep \/ CallbackReturn) /\ SF_vars(PollReturn)

-----------------------------------------------------------------------------
(* Properties.                                                             *)

TypeOK ==
  /\ handle_queue \subseteq Handles /\ active \subseteq handle_queue
  /\ ref \subseteq handle_queue /\ closing \subseteq handle_queue
  /\ active_handles \in Nat /\ active_reqs \in 0..MaxReqs
  /\ watchers \in [Watchers -> Seq(Handles)]
  /\ pending_queue \in Seq(Handles) /\ closing_handles \in Seq(Handles)
  /\ queue \in Seq(Handles)
  /\ due \subseteq active /\ stop_flag \in 0..1 /\ incallback \in 0..1
  /\ phase \in Watchers \cup {"out", "timers", "pending", "poll", "closing",
                             "timers again", "closed"}
  /\ mode \in {"default", "once", "nowait"} /\ timeout \in {-1, 0, 1}
  /\ ran_pending \in 0..1 /\ waiting \subseteq Handles /\ progress \in 0..1

\* loop->active_handles is the number of handles both active and referenced,
\* whatever order they are started, stopped, referenced and closed in.
ActiveCount == active_handles = Cardinality(active \cap ref)

\* The watchers called in a phase are the ones active when it began and not
\* stopped or closed since, each of them once; a watcher started (again) by a
\* callback of the phase waits for the next iteration.
PassExact ==
  [][/\ \A h \in Handles : WatcherNext(h) => h \in waiting
     /\ phase \in Watchers /\ phase' # phase => waiting = {}]_vars

\* After uv_close() a handle gets no callback but the close callback.
NoLateCallback ==
  [][\A h \in closing :
       ~(TimerFire(h) \/ PendingNext(h) \/ WatcherNext(h) \/ PollStream(h))]_vars

\* uv_run(UV_RUN_ONCE) makes progress: it does not return before a callback
\* was called, unless the poll itself was cut short (PollInternal).
OnceProgress ==
  [][phase \notin {"out", "closed"} /\ phase' = "out" /\ mode = "once" => progress = 1]_vars

\* uv_run(UV_RUN_DEFAULT) that was not stopped returns when nothing is left:
\* no referenced active handle, no request, no close callback still to come.
DefaultDrains ==
  [][phase \notin {"out", "closed"} /\ phase' = "out" /\ mode = "default" /\ stop_flag = 0
       => active \cap ref = {} /\ active_reqs = 0 /\ closing = {} /\ pending_queue = <<>>]_vars

\* uv_loop_close() leaves nothing behind that points to a handle.
LoopCloseClean ==
  phase = "closed" =>
    /\ active = {} /\ active_handles = 0 /\ pending_queue = <<>>
    /\ closing_handles = <<>> /\ \A k \in Watchers : watchers[k] = <<>>

\* A running loop comes round to every close callback and to every stream in
\* the pending queue.
CallbacksDelivered ==
  \A h \in Handles :
    /\ h \in closing /\ phase # "out" ~> h \notin closing \/ phase = "out"
    /\ h \in In(pending_queue) /\ phase # "out"
         ~> h \notin In(pending_queue) \/ phase = "out"
=============================================================================
