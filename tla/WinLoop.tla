------------------------------- MODULE WinLoop -------------------------------
(***************************************************************************)
(* The loop of the Windows port and what belongs to it: uv_run() over the  *)
(* completion port with async handles and the thread pool's wake-ups       *)
(* (win/core.c, win/async.c, win/handle.c), the wait with its timeouts and *)
(* its metrics, signals (win/signal.c), the lists of idle, prepare and     *)
(* check watchers (win/loop-watcher.c), the table of all loops, and name   *)
(* resolution (win/getaddrinfo.c, win/getnameinfo.c).                      *)
(***************************************************************************)
EXTENDS WinHandle, Queues, SequencesExt

CONSTANTS
  RunAsyncs,      \* async handles of the user
  RunSenders,     \* threads that send
  WaitMax,        \* INFINITE, as a timeout
  WaitClock,      \* bound: the time at which the last wait may start
  WinSignals,     \* signal handles
  LoopWatchers,   \* watchers of one list
  ChunkSize,      \* UV__LOOPS_CHUNK_SIZE
  MaxLoops,       \* bound: loops of the process
  AddrStruct      \* sizeof(struct addrinfo), in bytes, for the layout of results

\* A timeout is below INFINITE; names that stand for nothing are no handle's.
ASSUME WaitAssumption == WaitMax \in Nat /\ WaitMax > 3 /\ WaitClock \in Nat
ASSUME WatchersAssumption == "none" \notin LoopWatchers
ASSUME SignalsAssumption == "none" \notin WinSignals
ASSUME LoopsAssumption == ChunkSize \in Nat \ {0} /\ MaxLoops \in Nat
ASSUME ResolveAssumption == AddrStruct \in Nat

-----------------------------------------------------------------------------
(* uv_run().  "wq" is loop->wq_async, which does not keep the loop alive;  *)
(* one request at a time is with the thread pool.                          *)

AllAsyncs == RunAsyncs \cup {"wq"}
ASSUME RunAssumption ==
  /\ IsFiniteSet(RunAsyncs) /\ "wq" \notin RunAsyncs /\ "worker" \notin RunSenders
  /\ {"resume", "none"} \cap AllAsyncs = {}

\* kept: the handles of the user that keep the loop alive, see uv_unref()
WinRunInit ==
 \E kept \in SUBSET RunAsyncs :
  wh = [pc |-> "out", mode |-> "none", cb |-> FALSE, alive |-> FALSE, stop |-> FALSE,
        st |-> [a \in AllAsyncs |-> "open"], ref |-> [a \in AllAsyncs |-> a \in kept],
        sent |-> [a \in AllAsyncs |-> FALSE],
        posting |-> [s \in RunSenders \cup {"worker"} |-> "none"],  \* between exchange and post
        active |-> Cardinality(kept),                               \* loop->active_handles
        iocp |-> <<>>, pending |-> <<>>, walk |-> <<>>, endgames |-> <<>>,
        ran_pending |-> FALSE, timeout |-> "zero",
        work |-> "none", active_reqs |-> 0, idle |-> FALSE, timer |-> "off"]

\* uv_async_send(), in two steps: the exchange of async_sent, and the post
Exchange(h, s, a) == [h EXCEPT !.sent[a] = TRUE, !.posting[s] = IF h.sent[a] THEN @ ELSE a]
uv_async_send(s, a) ==
  /\ wh.posting[s] = "none" /\ wh.st[a] = "open"
  /\ wh' = Exchange(wh, s, a)
Post(s) ==
  /\ wh.posting[s] # "none"
  /\ wh' = [wh EXCEPT !.posting[s] = "none", !.iocp = Append(@, wh.posting[s])]

\* A thread of the pool is done: the request is put on loop->wq, the loop woken.
WorkEnds ==
  /\ wh.work = "running" /\ wh.posting["worker"] = "none"
  /\ wh' = [wh EXCEPT !.work = "done"]
WorkWakes ==
  /\ wh.work = "done" /\ wh.posting["worker"] = "none"
  /\ wh' = [Exchange(wh, "worker", "wq") EXCEPT !.work = "woken"]

\* What the user does in a callback or outside uv_run()
ByUser == wh.cb \/ wh.pc = "out"

Queued(a) == a \in Range(wh.endgames)
uv__want_endgame(h, a) ==
  IF a \in Range(h.endgames) THEN h ELSE [h EXCEPT !.endgames = <<a>> \o @]

\* uv_close() of an async handle: with a wake-up under way, its end waits for it.
uv__async_close(a) ==
  /\ ByUser /\ wh.st[a] = "open"
  /\ LET h == IF wh.sent[a] THEN wh ELSE uv__want_endgame(wh, a)
     IN wh' = [h EXCEPT !.st[a] = "closing", !.active = IF wh.ref[a] THEN @ ELSE @ + 1]

uv_stop == ByUser /\ ~wh.stop /\ wh' = [wh EXCEPT !.stop = TRUE]
Submitted ==
  /\ ByUser /\ wh.work = "none"
  /\ wh' = [wh EXCEPT !.work = "running", !.active_reqs = @ + 1]
IdleToggle ==
  ByUser /\ wh' = [wh EXCEPT !.idle = ~@, !.active = IF wh.idle THEN @ - 1 ELSE @ + 1]
TimerStart ==
  /\ ByUser /\ wh.timer = "off"
  /\ wh' = [wh EXCEPT !.timer = "armed", !.active = @ + 1]
TimePasses == wh.timer = "armed" /\ wh' = [wh EXCEPT !.timer = "due"]
CallbackEnds == wh.cb /\ wh' = [wh EXCEPT !.cb = FALSE]

\* uv__wake_all_loops(): an empty packet, when the system resumes
Resumes == "resume" \notin Range(wh.iocp) /\ wh' = [wh EXCEPT !.iocp = Append(@, "resume")]

uv__loop_alive(h) ==
  h.active > 0 \/ h.active_reqs > 0 \/ h.pending # <<>> \/ h.endgames # <<>>
\* Mutant of uv_backend_timeout: handles whose end is due are not looked at.
BackendIgnoresEnds(h) ==
  IF ~h.stop /\ (h.active > 0 \/ h.active_reqs > 0) /\ h.pending = <<>> /\ ~h.idle
  THEN (IF h.timer = "off" THEN "infinite" ELSE IF h.timer = "due" THEN "zero" ELSE "timer")
  ELSE "zero"
uv_backend_timeout(h) ==
  IF /\ ~h.stop /\ (h.active > 0 \/ h.active_reqs > 0)
     /\ h.pending = <<>> /\ ~h.idle /\ h.endgames = <<>>
  THEN (IF h.timer = "off" THEN "infinite" ELSE IF h.timer = "due" THEN "zero" ELSE "timer")
  ELSE "zero"

At(pc) == wh.pc = pc /\ ~wh.cb
Goes(h) == IF uv__loop_alive(h) /\ ~h.stop THEN "timers" ELSE "return"

RunStart(mode) ==
  /\ At("out")
  /\ wh' = [wh EXCEPT !.mode = mode, !.alive = uv__loop_alive(wh), !.pc = Goes(wh)]
RunTimers(at, next) ==
  /\ At(at)
  /\ wh' = IF wh.timer = "due"
           THEN [wh EXCEPT !.timer = "off", !.active = @ - 1, !.cb = TRUE, !.pc = next]
           ELSE [wh EXCEPT !.pc = next]

\* uv__process_reqs()
TakeReqs ==
  /\ At("reqs")
  /\ wh' = [wh EXCEPT !.walk = wh.pending, !.pending = <<>>, !.ran_pending = wh.pending # <<>>,
                      !.pc = "walk"]
uv__process_async_wakeup_req ==
  /\ At("walk") /\ wh.walk # <<>>
  /\ LET a == Head(wh.walk)
         h == [wh EXCEPT !.sent[a] = FALSE, !.walk = Tail(@)]
     IN wh' = IF wh.st[a] = "closing" THEN uv__want_endgame(h, a)
              ELSE IF a # "wq" THEN [h EXCEPT !.cb = TRUE]
              ELSE [h EXCEPT !.work = "none", !.active_reqs = @ - 1, !.cb = TRUE]
WalkEnds ==
  /\ At("walk") /\ wh.walk = <<>>
  /\ wh' = [wh EXCEPT !.pc = "backend", !.cb = wh.idle]
Backend ==
  /\ At("backend")
  /\ wh' = [wh EXCEPT !.pc = "poll", !.ran_pending = FALSE,
               !.timeout = IF (wh.mode = "once" /\ ~wh.ran_pending) \/ wh.mode = "default"
                           THEN uv_backend_timeout(wh) ELSE "zero"]

\* uv__poll(): up to 128 packets, here 2, or the timeout
TakePacket(h) ==
  [h EXCEPT !.iocp = Tail(@),
            !.pending = IF Head(h.iocp) = "resume" THEN @ ELSE Append(@, Head(h.iocp))]
Dequeue ==
  /\ At("poll") /\ wh.iocp # <<>>
  /\ LET h == TakePacket(wh)
         g == IF h.iocp = <<>> THEN h ELSE TakePacket(h)
     IN wh' = [g EXCEPT !.pc = "endgames", !.timeout = "zero"]
TimesOut ==
  /\ At("poll") /\ wh.iocp = <<>>
  /\ wh.timeout = "zero" \/ (wh.timeout = "timer" /\ wh.timer = "due")
  /\ wh' = [wh EXCEPT !.pc = "endgames", !.timeout = "zero"]

\* uv__process_endgames() with uv__async_endgame()
Endgame ==
  /\ At("endgames") /\ wh.endgames # <<>>
  /\ LET a == Head(wh.endgames)
         h == [wh EXCEPT !.endgames = Tail(@)]
     IN wh' = IF wh.st[a] = "closing" /\ ~wh.sent[a]
              THEN [h EXCEPT !.st[a] = "closed", !.active = @ - 1, !.cb = TRUE] ELSE h
EndgamesDone ==
  /\ At("endgames") /\ wh.endgames = <<>>
  /\ wh' = [wh EXCEPT !.pc = IF wh.mode = "once" THEN "once" ELSE "again"]
RunAgain ==
  /\ At("again")
  /\ wh' = [wh EXCEPT !.alive = uv__loop_alive(wh),
                      !.pc = IF wh.mode = "default" THEN Goes(wh) ELSE "return"]
RunReturns ==
  At("return") /\ wh' = [wh EXCEPT !.stop = FALSE, !.pc = "out", !.mode = "none", !.alive = FALSE]

WinRunNext ==
  \/ \E s \in RunSenders, a \in RunAsyncs : uv_async_send(s, a)
  \/ \E s \in RunSenders \cup {"worker"} : Post(s)
  \/ WorkEnds \/ WorkWakes \/ Resumes \/ TimePasses
  \/ (\E a \in RunAsyncs : uv__async_close(a))
  \/ uv_stop \/ Submitted \/ IdleToggle \/ TimerStart \/ CallbackEnds
  \/ (\E mode \in {"default", "once", "nowait"} : RunStart(mode))
  \/ RunTimers("timers", "reqs") \/ RunTimers("once", "again")
  \/ TakeReqs \/ uv__process_async_wakeup_req \/ WalkEnds \/ Backend
  \/ Dequeue \/ TimesOut \/ Endgame \/ EndgamesDone \/ RunAgain \/ RunReturns

\* Where the wake-up of a handle is
Wakeups(a) ==
  {<<"sender", s>> : s \in {t \in DOMAIN wh.posting : wh.posting[t] = a}}
  \cup {<<"iocp", i>> : i \in {j \in DOMAIN wh.iocp : wh.iocp[j] = a}}
  \cup {<<"pending", i>> : i \in {j \in DOMAIN wh.pending : wh.pending[j] = a}}
  \cup {<<"walk", i>> : i \in {j \in DOMAIN wh.walk : wh.walk[j] = a}}
Resting == \A s \in DOMAIN wh.posting : wh.posting[s] = "none"

\* A handle's request is in one place exactly while async_sent is set, whichever
\* thread got between the exchange and the post, and in none once it is closed; the
\* loop counts what is active or closes.  So a loop that sleeps with nothing under
\* way has told every send and every finished request, has ended every close, and
\* does not keep an idle watcher, a due timer or uv_stop() waiting; a uv_run() that
\* says nothing is left leaves nothing.
WinRunSound ==
  /\ \A a \in AllAsyncs : Cardinality(Wakeups(a)) = IF wh.sent[a] THEN 1 ELSE 0
  /\ \A a \in RunAsyncs :
       /\ wh.st[a] = "closed" => ~wh.sent[a] /\ ~Queued(a)
       /\ wh.st[a] = "closing" /\ ~wh.sent[a] => Queued(a)
  /\ wh.active = Cardinality({a \in AllAsyncs : wh.st[a] = "closing" \/ (wh.st[a] = "open" /\ wh.ref[a])})
                 + (IF wh.idle THEN 1 ELSE 0) + (IF wh.timer = "off" THEN 0 ELSE 1)
  /\ wh.pc = "poll" /\ wh.timeout = "infinite" /\ wh.iocp = <<>> /\ Resting =>
       /\ \A a \in AllAsyncs : ~wh.sent[a] /\ wh.st[a] # "closing"
       /\ wh.work # "woken"
       /\ ~wh.idle /\ wh.timer = "off" /\ ~wh.stop
  /\ wh.pc = "return" /\ ~wh.alive =>
       \A a \in RunAsyncs : wh.st[a] # "closing" /\ (wh.st[a] = "open" => ~wh.ref[a])

-----------------------------------------------------------------------------
(* uv__poll() and uv__poll_wine(), one wait after the other.  The system   *)
(* rounds: it may come back up to 2 too early or 1 too late.               *)

WinWaitInit ==
  \E metrics \in BOOLEAN :
    wh = [st |-> "out", clock |-> 1, time |-> 1,
          metrics |-> metrics,             \* UV_METRICS_IDLE_TIME
          asked |-> 0, timeout |-> 0, timeout_time |-> 0, user_timeout |-> 0,
          reset_timeout |-> FALSE, repeat |-> 0, success |-> FALSE,
          entry |-> 0, idle |-> 0,         \* loop_metrics
          slept |-> 0]                     \* history: time in calls that may block

Capped(t) == IF t < WaitMax THEN t ELSE WaitMax   \* a DWORD

\* Callbacks took some time since loop->time was read.
WaitStart(t, lag) ==
  /\ wh.st = "out" /\ wh.clock + lag <= WaitClock
  /\ wh' = [wh EXCEPT !.st = "call", !.time = wh.clock, !.clock = @ + lag, !.asked = t,
                      !.timeout_time = wh.clock + t, !.user_timeout = IF wh.metrics THEN t ELSE 0,
                      !.timeout = IF wh.metrics THEN 0 ELSE t, !.reset_timeout = wh.metrics,
                      !.repeat = 0, !.success = FALSE]

\* uv__metrics_set_provider_entry_time(), then the system call
WaitCall ==
  /\ wh.st = "call"
  /\ wh' = [wh EXCEPT !.st = "in", !.entry = IF wh.timeout # 0 /\ wh.metrics THEN wh.clock ELSE @]

\* The system returns; uv__metrics_update_idle_time()
UpdateIdle(h) ==
  IF h.entry = 0 THEN h ELSE [h EXCEPT !.idle = @ + h.clock - h.entry, !.entry = 0]
Returns(took, success) ==
  LET h == [wh EXCEPT !.clock = @ + took, !.success = success, !.st = "back",
                      !.slept = IF wh.timeout # 0 THEN @ + took ELSE @]
  IN wh' = [UpdateIdle(h) EXCEPT !.timeout = IF wh.reset_timeout THEN wh.user_timeout ELSE @,
                                 !.reset_timeout = FALSE]
WaitSucceeds == wh.st = "in" /\ \E took \in 0 .. wh.timeout : took <= 3 /\ Returns(took, TRUE)
WaitTimesOut ==
  /\ wh.st = "in" /\ wh.timeout # WaitMax
  /\ \E off \in -2 .. 1 :
       wh.timeout + off >= 0 /\ (wh.timeout = 0 => off = 0) /\ Returns(wh.timeout + off, FALSE)

\* Another turn, with a growing surplus, while the time has not come
WaitAfter ==
  /\ wh.st = "back"
  /\ LET h == IF wh.success \/ wh.timeout > 0 THEN [wh EXCEPT !.time = wh.clock] ELSE wh
         more == IF wh.repeat = 0 THEN 0 ELSE 2 ^ (wh.repeat - 1)
     IN wh' = IF ~wh.success /\ wh.timeout > 0 /\ wh.timeout_time > wh.clock
              THEN [h EXCEPT !.st = "call", !.repeat = @ + 1,
                             !.timeout = Capped(wh.timeout_time - wh.clock + more)]
              ELSE [h EXCEPT !.st = "waited"]
\* The next turn of the loop; the clock of the model starts again
WaitEnds ==
  /\ wh.st = "waited"
  /\ wh' = [wh EXCEPT !.st = "out", !.clock = 1, !.time = 1, !.idle = 0, !.slept = 0]

WinWaitNext ==
  \/ (\E t \in {0, 1, 3, WaitMax}, lag \in 0 .. 1 : WaitStart(t, lag))
  \/ WaitCall \/ WaitSucceeds \/ WaitTimesOut \/ WaitAfter \/ WaitEnds

\* A wait that found nothing lasted to its time, however early the system came back;
\* it is not called again more than 4 times, and never asked for less than what is
\* left; the idle time of the metrics is the time in calls that could block, no more.
WinWaitSound ==
  /\ wh.st = "waited" /\ ~wh.success => wh.time >= wh.timeout_time \/ wh.asked = 0
  /\ wh.st = "waited" /\ ~wh.success /\ wh.asked # WaitMax => wh.clock <= wh.timeout_time + 4
  /\ wh.repeat <= 4
  /\ wh.st = "in" /\ wh.repeat > 0 => wh.timeout >= wh.timeout_time - wh.clock
  /\ wh.st \in {"out", "waited"} => wh.entry = 0 /\ wh.idle = IF wh.metrics THEN wh.slept ELSE 0

-----------------------------------------------------------------------------
(* Watchers of one kind, in a list of pointers.                            *)

WinWatchInit ==
  wh = [head |-> "none", next_handle |-> "none", walking |-> FALSE, cb |-> FALSE, active |-> {},
        next |-> [h \in LoopWatchers |-> "none"], prev |-> [h \in LoopWatchers |-> "none"],
        owed |-> {}, called |-> <<>>,    \* history, of this walk
        order |-> <<>>]                  \* what the list should be

WatchStart(h) ==
  /\ wh.cb \/ ~wh.walking
  /\ h \notin wh.active
  /\ LET old == wh.head
         linked == [wh EXCEPT !.next[h] = old, !.prev[h] = "none", !.head = h,
                              !.active = @ \cup {h}, !.order = <<h>> \o @]
     IN wh' = IF old = "none" THEN linked ELSE [linked EXCEPT !.prev[old] = h]

WatchStop(h) ==
  /\ wh.cb \/ ~wh.walking
  /\ h \in wh.active
  /\ LET next == wh.next[h]
         prev == wh.prev[h]
         g == [wh EXCEPT !.head = IF @ = h THEN next ELSE @,
                         !.next_handle = IF @ = h THEN next ELSE @,
                         !.active = @ \ {h}, !.owed = @ \ {h}, !.order = Without(@, h)]
         k == IF prev = "none" THEN g ELSE [g EXCEPT !.next[prev] = next]
     IN wh' = IF next = "none" THEN k ELSE [k EXCEPT !.prev[next] = prev]

\* uv__idle_invoke() and its like
InvokeStart ==
  /\ ~wh.walking
  /\ wh' = [wh EXCEPT !.walking = TRUE, !.next_handle = wh.head, !.owed = wh.active, !.called = <<>>]
InvokeNext ==
  /\ wh.walking /\ ~wh.cb /\ wh.next_handle # "none"
  /\ LET h == wh.next_handle
     IN wh' = [wh EXCEPT !.next_handle = wh.next[h], !.called = Append(@, h), !.owed = @ \ {h},
                         !.cb = TRUE]
InvokeReturns == wh.cb /\ wh' = [wh EXCEPT !.cb = FALSE]
InvokeEnds ==
  /\ wh.walking /\ ~wh.cb /\ wh.next_handle = "none"
  /\ wh' = [wh EXCEPT !.walking = FALSE, !.called = <<>>]

WinWatchNext ==
  \/ \E h \in LoopWatchers : WatchStart(h) \/ WatchStop(h)
  \/ InvokeStart \/ InvokeNext \/ InvokeReturns \/ InvokeEnds

\* The pointers are the list, both ways, whatever callbacks start and stop; a walk
\* calls no watcher twice, calls only active ones, and owes none at its end that was
\* active at its start and is not stopped since.
WinWatchSound ==
  /\ wh.head = IF wh.order = <<>> THEN "none" ELSE Head(wh.order)
  /\ \A i \in DOMAIN wh.order :
       /\ wh.next[wh.order[i]] = IF i = Len(wh.order) THEN "none" ELSE wh.order[i + 1]
       /\ wh.prev[wh.order[i]] = IF i = 1 THEN "none" ELSE wh.order[i - 1]
  /\ IsInjective(wh.called)
  /\ wh.next_handle # "none" => wh.next_handle \in wh.active
  /\ wh.walking /\ wh.next_handle = "none" => wh.owed = {}
-----------------------------------------------------------------------------
(* Signals 1 and 2.  A thread of the console dispatches under              *)
(* uv__signal_lock, handle by handle; the loop takes the lock to start and *)
(* to stop, not when it handles a request.  A change of flags by both      *)
(* threads at once is taken for one after the other.                       *)

WinSignalInit ==
  wh = [signum |-> [g \in WinSignals |-> 0], pending |-> [g \in WinSignals |-> 0],
        posted |-> [g \in WinSignals |-> 0], oneshot |-> {}, dispatched |-> {},
        st |-> [g \in WinSignals |-> "open"], endgame |-> {}, cb |-> "none", quiet |-> FALSE,
        sig |-> 0, left |-> {},          \* of the dispatch under way
        due |-> {},                      \* history: to be told
        told |-> [g \in WinSignals |-> 0],   \* times told since a start as one-shot
        flawed |-> {}]                   \* see uv__signal_dispatch and SignalAfter

\* uv__signal_control_handler(): the handles of the signal, one after the other
DispatchStart(sig) ==
  /\ wh.left = {}
  /\ wh' = [wh EXCEPT !.sig = sig, !.left = {g \in WinSignals : wh.signum[g] = sig}]
\* uv__signal_dispatch(), of a handle.  pending_signum is set for a one-shot handle
\* that has had its signal too, and then no request will clear it.
uv__signal_dispatch(g) ==
  /\ g \in wh.left
  /\ LET previous == wh.pending[g]
         h == [wh EXCEPT !.pending[g] = wh.sig, !.left = @ \ {g}]
     IN wh' = IF g \in wh.dispatched
              THEN [h EXCEPT !.flawed = IF previous = 0 THEN @ \cup {g} ELSE @]
              ELSE [h EXCEPT !.posted[g] = IF previous = 0 THEN @ + 1 ELSE @,
                             !.due = @ \cup {g},
                             !.dispatched = IF g \in wh.oneshot THEN @ \cup {g} ELSE @]

Locked == wh.left # {}
SignalStopped(h, g) == [h EXCEPT !.signum[g] = 0, !.due = @ \ {g}]
SignalUser(g) == wh.st[g] = "open" /\ ~Locked /\ ~wh.quiet

uv__signal_start(g, sig, oneshot) ==
  /\ SignalUser(g) /\ wh.signum[g] # sig
  /\ wh' = [SignalStopped(wh, g) EXCEPT !.signum[g] = sig, !.told[g] = 0,
               !.oneshot = IF oneshot THEN @ \cup {g} ELSE @]
uv_signal_stop(g) == SignalUser(g) /\ wh.signum[g] # 0 /\ wh' = SignalStopped(wh, g)

\* uv__signal_close(): a signal under way holds the end back.
uv__signal_close(g) ==
  /\ SignalUser(g)
  /\ wh' = [SignalStopped(wh, g) EXCEPT !.st[g] = "closing",
               !.endgame = IF wh.pending[g] = 0 THEN @ \cup {g} ELSE @]

\* uv__process_signal_req(): the callback, if the handle still waits for that signal;
\* what it does after.  A signal that comes during the callback is pending when the
\* end of a handle closed there is asked for.
uv__process_signal_req(g) ==
  /\ wh.cb = "none" /\ wh.posted[g] > 0
  /\ wh' = [wh EXCEPT !.posted[g] = @ - 1, !.pending[g] = 0, !.cb = g,
               !.quiet = wh.pending[g] # wh.signum[g],    \* no callback
               !.due = IF wh.pending[g] = wh.signum[g] THEN @ \ {g} ELSE @,
               !.told[g] = IF wh.pending[g] = wh.signum[g] /\ @ < 2 THEN @ + 1 ELSE @]
SignalAfter(g) ==
  /\ wh.cb = g /\ ~(g \in wh.oneshot /\ Locked)
  /\ LET h == IF g \in wh.oneshot THEN SignalStopped(wh, g) ELSE wh
     IN wh' = IF wh.st[g] # "closing" THEN [h EXCEPT !.cb = "none", !.quiet = FALSE]
              ELSE [h EXCEPT !.cb = "none", !.quiet = FALSE, !.endgame = @ \cup {g},
                             !.flawed = IF wh.pending[g] # 0 THEN @ \cup {g} ELSE @]
uv__signal_endgame(g) ==
  /\ wh.cb = "none" /\ g \in wh.endgame
  /\ wh' = [wh EXCEPT !.endgame = @ \ {g}, !.st[g] = "closed"]

WinSignalNext ==
  \/ \E sig \in 1 .. 2 : DispatchStart(sig)
  \/ \E g \in WinSignals :
       \/ uv__signal_dispatch(g) \/ uv_signal_stop(g) \/ uv__signal_close(g)
       \/ (\E sig \in 1 .. 2, oneshot \in BOOLEAN : uv__signal_start(g, sig, oneshot))
       \/ uv__process_signal_req(g) \/ SignalAfter(g) \/ uv__signal_endgame(g)

\* Unless one of the two flaws above has happened: a request is under way exactly
\* while pending_signum is set, so that none is posted twice and a close that waits
\* for one gets it; what is due to a handle is the signal it waits for now, and its
\* request is under way; the end comes with nothing pending.  A one-shot handle is
\* told once for a start.
WinSignalSound ==
  \A g \in WinSignals :
    /\ g \notin wh.flawed =>
         /\ wh.posted[g] = IF wh.pending[g] = 0 THEN 0 ELSE 1
         /\ g \in wh.due => wh.posted[g] = 1 /\ wh.pending[g] = wh.signum[g]
         /\ wh.st[g] = "closing" /\ wh.cb # g /\ g \notin wh.endgame => wh.posted[g] = 1
         /\ g \in wh.endgame \/ wh.st[g] = "closed" => wh.pending[g] = 0 /\ wh.signum[g] = 0
    /\ g \in wh.oneshot => wh.told[g] <= 1
-----------------------------------------------------------------------------
(* uv__loops, the table of all loops, of which the system's resume wakes   *)
(* each.                                                                   *)

WinLoopsInit == wh = [loops |-> <<>>, size |-> 0, woken |-> {}, ref |-> {}]

\* uv__loops_add(): one chunk more when the table is full; no memory fails it.
Enlarged(h) ==
  IF h.size = Len(h.loops) THEN h.loops \o [i \in 1 .. ChunkSize |-> "NULL"] ELSE h.loops
uv__loops_add(l) ==
  /\ l \notin wh.ref
  /\ \/ wh.size = Len(wh.loops) /\ wh' = [wh EXCEPT !.woken = {}]
     \/ wh' = [wh EXCEPT !.loops = [Enlarged(wh) EXCEPT ![wh.size + 1] = l], !.size = @ + 1,
                         !.ref = @ \cup {l}, !.woken = {}]

\* uv__loops_remove(): the last takes its place; a table less than half used is
\* halved, unless it is small or there is no memory to move it.
Shrinks(size, capacity) == capacity >= 4 * ChunkSize /\ size < capacity \div 2
uv__loops_remove(l) ==
  LET found == {i \in 1 .. wh.size : wh.loops[i] = l}
      h == [wh EXCEPT !.ref = @ \ {l}, !.woken = {}]
  IN IF found = {} THEN wh' = h
     ELSE LET i == CHOOSE k \in found : \A j \in found : k <= j
              g == [h EXCEPT !.loops = [[@ EXCEPT ![i] = wh.loops[wh.size]] EXCEPT ![wh.size] = "NULL"],
                             !.size = @ - 1]
          IN \/ wh' = IF g.size = 0 THEN [g EXCEPT !.loops = <<>>] ELSE g
             \/ /\ Shrinks(g.size, Len(g.loops)) /\ g.size # 0
                /\ wh' = [g EXCEPT !.loops = SubSeq(@, 1, Len(@) \div 2)]

uv__wake_all_loops == wh' = [wh EXCEPT !.woken = {wh.loops[i] : i \in 1 .. wh.size}]

WinLoopsNext ==
  \/ \E l \in 1 .. MaxLoops : uv__loops_add(l) \/ uv__loops_remove(l)
  \/ uv__wake_all_loops

\* The table holds every open loop once, whatever was removed and however the table
\* was moved, so each is woken; the places behind are empty, and not too many.
WinLoopsSound ==
  /\ wh.size <= Len(wh.loops)
  /\ {wh.loops[i] : i \in 1 .. wh.size} = wh.ref /\ Cardinality(wh.ref) = wh.size
  /\ \A i \in wh.size + 1 .. Len(wh.loops) : wh.loops[i] = "NULL"
  /\ wh.woken \in {{}, wh.ref}
  /\ wh.size = 0 => wh.loops = <<>>

-----------------------------------------------------------------------------
(* uv_getaddrinfo() and uv_getnameinfo(): the memory of a request.  Sizes  *)
(* of strings count their end; 0 stands for NULL.                          *)

Aligned4(n) == ((n + 3) \div 4) * 4

WinResolveInit ==
  wh = [phase |-> "new", kind |-> "none", sync |-> FALSE, alloc |-> FALSE, room |-> 0, used |-> 0,
        hints |-> FALSE,         \* req->addrinfow points into alloc
        found |-> <<>>,          \* what the system allocated
        retcode |-> "none", active_reqs |-> 0, told |-> 0,
        len |-> 0, places |-> <<>>, leaked |-> FALSE]

\* A name, a service and hints in one piece of memory
uv_getaddrinfo(node, service, hints, sync) ==
  /\ wh.phase = "new" /\ (node # 0 \/ service # 0)
  /\ LET room == Aligned4(node) + Aligned4(service) + (IF hints THEN Aligned4(AddrStruct) ELSE 0)
         at == Aligned4(node) + (IF service # 0 THEN Aligned4(service) ELSE 0)
         h == [wh EXCEPT !.kind = "addrinfo", !.sync = sync, !.retcode = "none"]
     IN \/ wh' = [h EXCEPT !.phase = "refused", !.retcode = "error"]   \* conversion, memory
        \/ wh' = [h EXCEPT !.phase = "work", !.alloc = TRUE, !.room = room, !.retcode = "ok",
                           !.used = at + (IF hints THEN AddrStruct ELSE 0),
                           !.hints = hints, !.active_reqs = @ + 1]
uv_getnameinfo(family, sync) ==
  /\ wh.phase = "new"
  /\ wh' = IF family = "other" THEN [wh EXCEPT !.phase = "refused", !.retcode = "error"]
           ELSE [wh EXCEPT !.kind = "nameinfo", !.sync = sync, !.phase = "work", !.retcode = "ok",
                           !.active_reqs = @ + 1]

\* uv__getaddrinfo_work() and uv__getnameinfo_work()
NameWork ==
  /\ wh.phase = "work" /\ wh.kind = "nameinfo"
  /\ \E retcode \in {"ok", "error"} : wh' = [wh EXCEPT !.phase = "worked", !.retcode = retcode]
ResolveWork ==
  /\ wh.phase = "work" /\ wh.kind = "addrinfo"
  /\ LET h == [wh EXCEPT !.phase = "worked", !.hints = FALSE]
     IN \/ wh' = [h EXCEPT !.retcode = "error"]
        \/ \E addrs \in 1 .. 2, a \in 0 .. 5, c \in 0 .. 3 :
             wh' = [h EXCEPT !.found = [i \in 1 .. addrs |-> [addr |-> a, name |-> IF i = 1 THEN c ELSE 0]]]
ResolveCancelled ==
  wh.phase = "work" /\ ~wh.sync /\ wh' = [wh EXCEPT !.phase = "worked", !.retcode = "ECANCELED"]

\* uv__getaddrinfo_done(): the size of all results, then each in its place
EntrySize(e) == Aligned4(AddrStruct) + Aligned4(e.addr) + Aligned4(e.name)
Starts(found) ==
  LET at[i \in 0 .. Len(found)] == IF i = 0 THEN 0 ELSE at[i - 1] + EntrySize(found[i])
  IN at
SizeOf(found) == Starts(found)[Len(found)]
PlacesOf(found) ==
  [i \in DOMAIN found |->
     LET at == Starts(found)[i - 1]
         addr == at + Aligned4(AddrStruct)
         name == addr + (IF found[i].addr > 0 THEN Aligned4(found[i].addr) ELSE 0)
     IN <<[at |-> at, len |-> AddrStruct], [at |-> addr, len |-> found[i].addr],
          [at |-> name, len |-> found[i].name]>>]
NameDone ==
  /\ wh.phase = "worked" /\ wh.kind = "nameinfo"
  /\ wh' = [wh EXCEPT !.phase = "done", !.active_reqs = @ - 1, !.told = IF wh.sync THEN @ ELSE @ + 1]
ResolveDone ==
  /\ wh.phase = "worked" /\ wh.kind = "addrinfo"
  /\ LET h == [wh EXCEPT !.phase = "done", !.alloc = FALSE, !.active_reqs = @ - 1, !.found = <<>>,
                         !.told = IF wh.sync THEN @ ELSE @ + 1]
     IN IF wh.retcode # "ok" THEN wh' = h
        ELSE \/ wh' = [h EXCEPT !.len = SizeOf(wh.found), !.places = PlacesOf(wh.found)]
             \/ wh' = [h EXCEPT !.retcode = "EAI_MEMORY"]
             \/ \* a name that cannot be converted: the system's list is not freed
                /\ \E i \in DOMAIN wh.found : wh.found[i].name # 0
                /\ wh' = [h EXCEPT !.retcode = "error", !.leaked = TRUE, !.found = wh.found]

WinResolveNext ==
  \/ \E node \in {0, 1, 2, 4}, service \in {0, 3, 4}, hints, sync \in BOOLEAN :
       uv_getaddrinfo(node, service, hints, sync)
  \/ (\E family \in {"inet", "inet6", "other"}, sync \in BOOLEAN : uv_getnameinfo(family, sync))
  \/ NameWork \/ NameDone \/ ResolveWork \/ ResolveCancelled \/ ResolveDone

\* What is written fits what was allocated, for the request and for every result;
\* each part of a result starts aligned and behind the one before; when the callback
\* runs, once, only the results and a list that could not be converted remain.
WinResolveSound ==
  /\ wh.used <= wh.room
  /\ \A i \in DOMAIN wh.places : \A k \in 1 .. 3 :
       /\ wh.places[i][k].at % 4 = 0 /\ wh.places[i][k].at + wh.places[i][k].len <= wh.len
       /\ k < 3 => wh.places[i][k].at + wh.places[i][k].len <= wh.places[i][k + 1].at
       /\ i < Len(wh.places) => wh.places[i][3].at + wh.places[i][3].len <= wh.places[i + 1][1].at
  /\ wh.phase \in {"refused", "done"} =>
       ~wh.alloc /\ wh.active_reqs = 0 /\ (wh.found # <<>> => wh.leaked)
  /\ wh.phase = "done" => wh.told = (IF wh.sync THEN 0 ELSE 1)
  /\ wh.retcode = "ECANCELED" => wh.places = <<>> /\ ~wh.leaked
=============================================================================
