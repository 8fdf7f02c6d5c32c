# TLA+ models of libuv

This directory models libuv as it is kept in `src/libuv` (an annotated copy of libuv
1.4x; the book under `src/book` explains the same code in Chinese). The models of the
first part follow the Unix build with epoll and eventfd, those whose names begin with
`Win` the Windows port. Every definition that models code is listed in `PROJECT.json`
("map") with the lines it stands for.

## 1. The system and its parts

libuv runs callbacks on one thread per `uv_loop_t`. A turn of `uv_run()` updates the
clock, runs due timers, pending callbacks, idle and prepare watchers, polls for I/O,
runs check watchers and finishes closing handles. Other threads reach the loop only
through `uv_async_send()`; blocking work goes to a thread pool shared by all loops. On
Unix the poll reports readiness and the library does the call; on Windows the library
makes the call first and a completion port reports its end, so every handle there has
to outlive what it asked the system for.

| part | state | operations | interacts with | what is hard |
| --- | --- | --- | --- | --- |
| async handles, `unix/async.c` | `pending` word per handle, one eventfd per loop, `loop->async_handles` | `uv_async_init`, `uv_async_send` (any thread), `uv__async_io`, `uv__async_close`, `uv__async_fork` | poll (eventfd), close phase, thread pool | two compare-and-swaps with a write between them, racing the loop's scan, a close and a fork |
| thread pool, `threadpool.c` | `wq`, `slow_io_pending_wq`, `idle_threads`, `slow_io_work_running`, `loop->wq` | `uv__work_submit`, `worker`, `uv__work_cancel`, `uv__work_done`, `uv__threadpool_cleanup` | async handle `wq_async`, `uv_queue_work`, fs, getaddrinfo, getnameinfo, random | lost wake-ups, starvation by slow I/O, cancel racing a worker, exit of all workers |
| timers, `timer.c`, `heap-inl.h` | binary heap, `timer_counter`, `loop->time` | start, stop, again, set_repeat, `uv__run_timers`, `uv__next_timeout` | loop phase, poll timeout, close | callbacks that change timers during the pass, overflow at 2^64, ties |
| loop and handles, `unix/core.c`, `unix/loop.c`, `unix/loop-watcher.c`, `uv-common.[ch]` | flags of the handles, `active_handles`, `active_reqs`, `closing_handles`, watcher queues, `pending_queue`, `stop_flag` | `uv_run`, `uv_close`, `uv_ref`/`uv_unref`, `uv_stop`, start/stop of idle, prepare, check | everything | callbacks that stop, start and close handles while a queue is walked; reference counts |
| I/O watchers and epoll, `unix/core.c`, `unix/epoll.c` | `watchers[]`, `watcher_queue`, events, pevents | `uv__io_start/stop/close/feed`, `uv__io_poll` | streams, udp, poll handles, async, signals | a descriptor closed while its event is in the batch; EINTR and the timeout |
| poll handles, `unix/poll.c` | events of a descriptor | start, stop, close | I/O watchers | a second handle on the same descriptor |
| signals, `unix/signal.c` | global tree of handles, pipe per loop, caught/dispatched counters | start, stop, one-shot, handler, dispatch, close | async-signal context, close phase | messages in the pipe of a handle that is stopped or closed |
| processes, `unix/process.c` | list of children of a loop | spawn, exit callback, kill, close | signals | several children behind one SIGCHLD |
| streams, `unix/stream.c`, `tcp.c`, `pipe.c` | write queues, shutdown and connect requests, accepted descriptors, flags | read, write, shutdown, connect, listen, accept, close | I/O watchers | partial writes, errors, callbacks that close, no descriptors left |
| UDP, `unix/udp.c` | send queues and counters | send, try_send, recv, connect, close | I/O watchers | callbacks that send or close |
| fs polling, `fs-poll.c` | list of contexts, each with a timer and a stat | start, stop, close, callbacks | thread pool, timers | a stop while a stat is running |
| fs events, `unix/linux-inotify.c` | list of handles per inotify watch | start, stop, read, fork | I/O watchers | a stop inside the iteration |
| file system requests, `unix/fs.c`, `uv-common.c` | one request and what it owns | a system call each; copies and vectors in several | thread pool | partial results, EINTR, memory of cancelled requests |
| names and addresses, `inet.c`, `idna.c`, `unix/getaddrinfo.c`, `getnameinfo.c`, `strscpy.c`, `strtok.c` | one request; pure conversions | print, parse, decode, encode, resolve | thread pool | boundary values, overflow, memory of the request |
| Windows handles, `win/tcp.c`, `pipe.c`, `tty.c`, `udp.c`, `poll.c`, `fs-event.c`, `process.c` | flags, `activecnt`, `reqs_pending`, `endgame_handles`, `pending_reqs`, requests under way | the operations above over the completion port | loop, system threads | requests that outlive `uv_close()`, threads that block in the system, cancellation |
| Windows console output, `win/tty.c` | parser state, virtual window, text buffer | write | | escape sequences cut anywhere |
| Windows files, `win/fs.c`, `fs-fd-hash-inl.h` | sections and positions of mapped files, table of descriptors, requests | open, read, write, ftruncate, close, links, directories, attributes | thread pool | a step that fails half-way; a mapped file has to act like an unmapped one |
| Windows loop, `win/core.c`, `async.c`, `loop-watcher.c`, `signal.c`, `getaddrinfo.c`, `getnameinfo.c` | completion port, list of watchers, tree of signal handles, table of loops | `uv_run`, wait, wake-up, dispatch, resolve | everything | waits that end early, a dispatcher on another thread, hand-made allocations |
| thread primitives, system queries, other Unix backends | locks; nothing; as epoll | wrappers | | |

What makes each part correct:

- async: no wake-up is lost, sends may merge but none is forgotten, a close never pulls
  the handle from under a sender;
- thread pool: a request is in one place at a time, its callback comes once and with a
  true status, slow I/O leaves room for fast work, a wake-up is never lost;
- timers: never early, in order, once a pass; the heap is a set with a least member;
- loop: the reference count is exact, phases call who they must, close callbacks come
  once, `uv_run()` returns when and only when it should;
- I/O watchers: what the kernel watches is what the watchers want whenever the loop may
  block, and an event reaches only the watcher of the file it happened on;
- signals and processes: every caught signal reaches a handle still there or is counted
  as dropped, no handle is freed while a message names it, an exit is reported once;
- streams and UDP: each request gets one callback, in order, with the queue size exact,
  descriptors are given out or closed, and nothing waits for an event nobody asked for;
- fs polling and inotify: no object is freed while a callback may still use it;
- files: bytes arrive once and in place, memory is freed once;
- names and addresses: what is converted means the same;
- Windows handles: the end of a handle comes after everything it asked the system for,
  and it does come; requests are told once.

## 2. Modules

| module | role | code |
| --- | --- | --- |
| `AsyncSignal` | abstract specification: a coalescing signal per handle | what `uv_async_send()` promises |
| `Async`, `AsyncFork` | senders, scan, callback, close; one `fork()` | `unix/async.c`, `unix/loop.c` |
| `WorkRequests` | abstract specification: the life of a work request | what `uv_queue_work()`, `uv_cancel()` promise |
| `ThreadPool` | workers, condition variable, cancel, done, shutdown | `threadpool.c` |
| `Queues` | the lists of `queue.h` as sequences, and lemmas about them | `queue.h` |
| `Heap`, `Timer` | the heap with its pointers; timers on an abstract heap | `heap-inl.h`, `timer.c` |
| `Loop` | `uv_run()` and its phases, watchers, references, close | `unix/core.c`, `unix/loop-watcher.c`, `uv-common.[ch]` |
| `Poll`, `PollFork`, `PollTimeout` | watchers, interest set, dispatch, poll handles; `uv_loop_fork()`; the time arithmetic of `uv__io_poll()` | `unix/epoll.c`, `unix/core.c`, `unix/poll.c`, `unix/loop.c` |
| `Signal`, `Process` | signal handles; children on top of SIGCHLD | `unix/signal.c`, `unix/process.c` |
| `Stream` | connect, read, write, shutdown, close; in its second half listen, accept, passed descriptors | `unix/stream.c`, parts of `unix/tcp.c`, `unix/pipe.c` |
| `Udp` | sends, receives, close | `unix/udp.c` |
| `FsPoll`, `Inotify` | file polling; inotify | `fs-poll.c`, `unix/linux-inotify.c` |
| `FsReq`, `FsCopy` | memory of a file request; copies and vectors | `unix/fs.c`, `uv-common.c` |
| `Address` | names and addresses, and their requests | `inet.c`, `idna.c`, `unix/getaddrinfo.c`, `unix/getnameinfo.c`, `strscpy.c`, `strtok.c` |
| `WinHandle` | the counts and lists all handles of the port share | `win/handle-inl.h`, `win/req-inl.h` |
| `WinTcp`, `WinPipe`, `WinTty`, `WinUdp`, `WinPoll`, `WinFsEvent`, `WinProcess` | one kind of handle each | the file of the same name under `win/`, with `stream.c` and `process-stdio.c` |
| `WinFile`, `WinFs` | open files and mapped files; requests that name files | `win/fs.c`, `win/fs-fd-hash-inl.h` |
| `WinLoop` | loop, wait, watchers, signals, table of loops, name resolution | `win/core.c`, `async.c`, `loop-watcher.c`, `signal.c`, `detect-wakeup.c`, `getaddrinfo.c`, `getnameinfo.c` |
| `ThreadPoolProofs`, `PollProofs` (`Poll`, `PollTimeout`, `Timer`), `HandleProofs` (`Loop`, `Async`, `FsPoll`, `Udp`, `FsReq`, `Inotify`), `StreamProofs` (`Stream`, `Process`, `Signal`), `WinLoopProofs` (`WinLoop`), `WinStreamProofs` (`WinTcp`, `WinPipe`), `WinProofs` | theorems | |
| `MCThreadPool`, `MCLoop`, `MCPoll`, `MCProcess`, `MCHandles`, `MCWindows` | instances for TLC | |

The modules meet where the components do. `ThreadPool` sees `wq_async` as the flag
`raised`, which is what `Async` is shown to implement (`ImplementsSignal`). `Timer` uses
the heap as a set with a least member, which is what `Heap` is shown to be
(`ActsAsSet`). `Loop` sees a timer as due or not due, a stream as a watcher that may be
fed, and a poll as a choice of events; `Timer`, `Stream`, `Poll` and `PollTimeout` open
those boxes. `Process` extends `Signal` and shares its state. The modules of the
handles meet the loop through counts (`active_reqs`, active or not) and through the
watcher's events, which are part of their own state.

`MCLoop`, `MCPoll`, `MCHandles` and `MCWindows` each look at several modules that share
no state: a variable names the part a behaviour belongs to, and only the state of that
part moves. A property of one module is then checked in the states of its part; the
properties that TLC checks under names such as `StreamsSound` or `WinStreamSound` are
conjunctions of those of the parts.

### How state and actions correspond to the code

**Async.** `pending[h]` is `handle->pending` (0, 1, 2), `readable` the eventfd,
`async_handles` and `queue` the two lists of `uv__async_io()`. `uv_async_send()` is one
action per atomic access: `SendCall`, `SendCheck` (the plain read), `SendClaim` (0 to 1),
`SendWrite` (the eventfd), `SendPublish` (1 to 2). The scan is `AsyncIoStart` (drain),
`AsyncIoVisit` per handle and `AsyncIoEnd`; a callback may send, init and close.
`uv__async_close()` is enabled when `uv__async_spin()` would end. `owed` is a history
variable: handles with a send that no callback has answered.

**ThreadPool.** `wq`, `slow_io_pending_wq`, `idle_threads`, `slow_io_work_running`,
`loop_wq` and `done_wq` (the list moved by `uv__work_done()`) have the code's names;
`work[r]` is `w->work`: `"set"`, `"null"` or `"cancelled"`. A worker's turn is cut at
every lock, unlock and wait: `Lock`, `CondWait`, `CondWaitReturn`, then one of
`TakeExit`, `RequeueSlow`, `DropSlowMessage`, `TakeSlow`, `TakeFast`, then `RunWork` and
`HandOver`. `uv__work_cancel()` is two actions, because it lets both locks go between
them. `SpuriousWakeup` is POSIX's. `ran` and `outcome` are history.

**Heap, Timer.** `heap` is the record of `min`, `nelts` and the three pointers of every
node; insertion and removal are written with the pointer assignments of
`heap_node_swap()` and the bit path of the code. `time`, `timeout`, `repeat`,
`start_id`, `timer_counter` are as in the code, with `uint64_t` as `0..Mod-1`, so that
`Clamp` overflows. `RunStart`, `FireNext`, `CallbackReturn` and `RunEnd` are
`uv__run_timers()`; in a callback any call may be made.

**Loop.** The flags of the handles are sets, the lists of the loop sequences, `phase`
the place in `uv_run()`. One action per callback of a phase (`TimerFire`, `PendingNext`,
`WatcherNext`, `PollStream`, `PollRequest`, `uv__finish_close`) and one per end of a
phase, which computes what the code computes there (`PrepareEnd` takes the backend
timeout, `ClosingEnd` decides on the next turn). `queue` is the list a phase has moved
to its stack.

**Poll, PollTimeout.** `io` holds `pevents`, `events`, `watcher_queue`, `watchers` and
`nfds`; `interest` is the kernel's set, keyed by descriptor and file as epoll's is, so a
file still open elsewhere keeps its entry after `close()`. `Register` is a turn of the
loop over `watcher_queue`, `WaitReturn` a batch in any order and of any subset of the
ready events, `Dispatch`/`Skip`/`Disarm`/`NoteSignal` a turn of the loop over it.
`UV__POLLRDHUP` and `UV__POLLPRI` go the same ways as POLLIN and POLLOUT and have no bit
of their own. `PollTimeout` has the locals of `uv__io_poll()` under their names;
`real_timeout` has the width of an int, `Coarse` is the granularity of
`uv__hrtime(UV_CLOCK_FAST)`, `max_safe_timeout` the cap of 32-bit builds, `MaxCount` the
48 batches.

**Signal, Process.** `tree` fields (`signum`, `oneshot`) are the global tree, `kernel`
the disposition of each signal, `handler[t]` a handler that runs in an interrupted
thread. What the code does under the lock pipe is one step; the handler, which holds the
lock over several writes, takes several: `HandlerLock`, `HandlerWrite` and
`HandlerCount` per handle, `HandlerUnlock`. A full pipe drops the message. `EventStep`
dispatches a message, with the callback between reading and counting.
`trapped` is `caught_signals - dispatched_signals`. `Process` adds `uv_spawn()` with the
result the child sends over the pipe, `uv__wait_children()` in two walks as the code has
them (`WaitNext`, then the exit callbacks) and close.

**Stream, Udp.** One thread; `pc` (`srv_pc`, `udp_pc`) is the place where the
code goes on after a callback, in which every operation may be called. `Stream` keeps the
flags, `write_queue`, `write_completed_queue`, `write_queue_size`, the buffers left of
each request (`left`) and `pevents`; the kernel takes any part of a write, or fails.
Its second half (`srv`) numbers the descriptors that arrive, and keeps `accepted_fd`, `queued_fds` and
the spare `emfile_fd`. `Udp` has both ways to receive (`recvmsg`, `recvmmsg` with chunks)
and the flag `UV_HANDLE_UDP_PROCESSING`; `SendEnd` is the number of bytes of the first
`n` datagrams.

**FsPoll, Inotify.** `ctxs` is the list from `handle->poll_ctx` along `previous`; each
context has the state of its stat and its timer. `watcher_lists[wd]` is a
`watcher_list` with its queue and `iterating`; the walk moves the queue to its stack and
puts each handle back before its callback, as the code does.

**FsReq, FsCopy.** A request has the pointers it owns (`path`, `bufs`, `ptr`,
directory entries) and what each step allocates and frees. `FsCopy` follows
`uv__fs_copyfile()` label by label over `pc` (open, stat, chmod, clone, chunks, closes,
unlink) and each chunk through `copy_file_range()`, `sendfile()` and the emulation.
Its second part goes through `uv__fs_write_all()` and `uv__fs_preadv()` call by call.

**Address.** A text is a sequence of digits and separators, an address a sequence of
bytes, a name a sequence of code points. Printing, parsing, decoding and Punycode are
operators translated from the loops of the code with folds; each is compared with a
reference that is written from what the notation means (`MeaningOf`, `WellFormed`,
`Decoded`), not from the code. The requests keep where hints, service and name lie in
their one block of memory.

**WinHandle and the handles of the port.** A handle is one record `wh`: the set `flags`,
`activecnt`, `reqs_pending`, the requests in `kernel` (with the system), in `pending`
(completed) and in `walk` (taken by `uv__process_reqs()`). The macros of `handle-inl.h`
and `req-inl.h` are operators from record to record. A system call that may fail is a
choice in its action; a completion is an action of its own (`TcpCompletes`,
`PipeCompletes`...), as is the walk of `uv__process_reqs()`; `cur` and `pc` say which
handler is in a callback. Threads that block have their own steps: `ReaderEnters`,
`ReaderReturns`, `ReaderLeaves` and the `Interrupt` of `WinPipe`; `LineEnters`,
`LineTakes`, `LineReturns` and the lock of `WinTty`, whose console may refuse the event
that is to wake a thread (`TtyStopFails`); `slow_poll_thread_proc` of `WinPoll`;
`exit_wait_callback` of `WinProcess`. `uv_spawn()` is a chain of allocations, handles
and calls any of which may fail. The second half of `WinTty` is
`uv__tty_write_bufs()` byte by byte, with
the position text and commands should lead to computed beside it (`ref`); any call of a
command may fail, and one that cannot read the console moves the caret by what it never
read (`CaretLost`). `WinFile` runs
each read, write and truncation twice, on a mapped file and on a plain one. `WinFs` has
the memory of a request and what the failing calls of each operation leave, scans and
reads of a directory entry by entry, and the conversions of paths and times. `WinLoop`
has six separate parts: the loop with its senders and the thread pool's completion, the
wait, the doubly linked list of watchers, signals, the table of loops and name
resolution.

## 3. Runs

Every run is `tlc -config <cfg> <module>`.

| run | module, cfg | checks |
| --- | --- | --- |
| `pool` | `MCThreadPool`, `MCThreadPool.cfg` | `PoolSound` (every request in one place, slow work announced, no idle worker beside work, true statuses), `SlowBound`, and that `ThreadPool` implements `WorkRequests` |
| `pool_live` | `MCThreadPool`, `MCThreadPool_live.cfg` | `FastNotStarved`; `EveryRequestDone` and `ShutdownJoins` if slow work returns |
| `loop_live` | `MCLoop`, `MCLoop.cfg` | `PassExact`, `CallbacksDelivered`; `NoLostWakeup`, `CloseWaitsForSender`, `SendDelivered`, and that `Async` implements `AsyncSignal`, liveness included |
| `poll` | `MCPoll`, `MCPoll.cfg` | `PollSound` (no watcher deaf, no abort, queues sound), `NoCrossTalk`; `WaitHonest`; `NeverEarly`, `PassOrdered`, `OncePerPass`, `NextTimeoutSafe`; `ActsAsSet` |
| `process` | `MCProcess`, `MCProcess.cfg` | `ProcessSound` (counters, handlers, one exit), `OneShotOnce`, `SignalCloseDone`, `EveryExitReported` |
| `handles` | `MCHandles`, `MCHandles.cfg` | `ActiveCount`, `NoLateCallback`, `OnceProgress`, `DefaultDrains`; `StreamsSound`, `ReadQuiet`; `UdpSound`; `FsPollSound`; `WalkExact`; `FsExact`; `AddressExact` |
| `windows` | `MCWindows`, `MCWindows.cfg` | `WinStreamSound`, `WinConsoleSound`, `WinHandleSound`, `WinDataExact`, `WinLoopSound` |
| `async_fork` | `AsyncFork`, `AsyncFork.cfg` | violated: `ChildSendDelivered` |
| `poll_shared` | `MCPoll`, `MCPoll_shared.cfg` | violated: `CloseStoppedSafe` |
| `poll_fork_abort` | `PollFork`, `PollFork.cfg` | violated: `NoAbort` in a child |
| `udp_closed` | `MCHandles`, `MCHandles_udp.cfg` | violated: `UdpClosedQuiet` |
| `fs_poll_restart` | `MCHandles`, `MCHandles_fspoll.cfg` | violated: `FsPollOneContext` |

The type invariants of `Async`, `ThreadPool`, `Timer`, `Loop`, `Stream`, `Udp`, `FsPoll`,
`Signal` and `Process` are proved (section 5) and not checked by a run. Each property of a passing run has a mutant in `PROJECT.json`:
a change of one definition, such as a dropped guard, that makes TLC find the property
violated. The mutants stand before the definition they change.

### Bounds

- `pool`: three workers put the threshold of slow work at 2, below the pool and above
  1; three slow requests overrun it. One fast request is enough to see it pass by the
  slow ones. `pool_live`: two workers, one of which slow work can hold for ever.
- `loop_live`: two idle watchers and a stream; two handles and two senders, so that one
  is inside its claim while the other merges into it and the scan is still under way
  when a handle is closed or opened again. What depends on their number is proved.
- `poll`: a stream, a poll handle and the signal watcher with two descriptors, so that a
  descriptor closed in a callback comes back at once under another owner; five files, as
  two may be open and others alive in the batch or in another process. The wait: a clock
  of 10 values, timeouts of 0, 1, 4 and 6 with a cap of 5, so that zero, interrupted and
  capped waits occur; three batches for 48. Timers: `Mod = 4` and delays up to 3 reach
  the overflow at time 1, `IntMax = 1` the cut of `uv__next_timeout()`. The heap: nine
  nodes make four levels, with a removal in the middle whose replacement goes up.
- `process`: the child watcher and one handle of the user, two signals of which one
  cannot be caught, two children and one interrupted thread; a pipe of two messages is
  full after two. Process handles are alike, so `OrderedNext` spawns `p1` first, which a
  renaming brings about in every behaviour.
- `handles`: a check watcher, a timer, a stream and a request for the loop; writes of 2,
  0 and 1 bytes and datagrams alike, so that partial, empty and whole ones occur; five
  descriptors, more than a message and the spare one; three contexts of a file poller
  (one active, one stopped, one of a restart); three handles on two paths with three
  watches, so that a path gets a new one; a source of four bytes copied with a buffer of
  two; three buffers with `iovmax` two; directories of two entries and three calls of one
  request. Addresses: all of eight words with two values each, and edits of right texts
  at every place; names of up to four characters with `UINT_MAX` 16383, which the delta
  of the largest code point overflows and the others do not.
- `windows`: two writes or sends; two accepts, three pipe instances; two keys, and no
  Return of a stop when the console holds more than that; frames of
  up to two; four stdio entries; consoles of at most two columns and three rows with two
  arguments of a sequence, whose values wrap at 128; files of up to three bytes with an
  allocation granularity of two, so that views start inside and at its edge; five
  descriptors in groups of two; directories of up to five entries with an array of one at
  the start; a wait of at most 3 ms on a clock the system may cut short; two signal
  handles and two signals; three watchers; a table of up to five loops.

`CHECK_DEADLOCK FALSE` stands where a clock or an input ends, where a closed loop or
handle has no more steps, and for `PollFork`, where a child that aborts is stuck.

### Fairness

- `Async`: weak fairness of each sender inside `uv_async_send()` and of the loop thread.
  Neither blocks: the compare-and-swaps always succeed or return, and a readable eventfd
  is reported by every poll. Nobody is obliged to send, close or open.
- `ThreadPool`: weak fairness of the steps of a thread that runs or holds the mutex;
  strong fairness of getting the mutex (a thread that keeps asking gets it, as with the
  futex-based mutex in practice) and of the loop's `uv__work_done()`, which user code can
  delay but not for ever. Fast work functions return. Nothing is assumed of slow ones in
  `FastNotStarved`; `Patient` adds that they return, and that the user stops cancelling
  requests that are cancelled already: each such call moves the request to the end of
  the loop's queue and can put its callback off for ever.
- `Loop`: weak fairness of the loop's own steps and of the return of callbacks; strong
  fairness of `PollReturn`, since one poll reports a finite number of events.
  `Greedy = FALSE` in `loop_live`: a callback that starts timers of 0 ms, or moves the
  clock, can keep `uv__run_timers()` in its loop for ever, which is what the code does.
- `Process`: weak fairness of the handler, the dispatch, the walk over the children and
  the close phase; none of the user's calls, of signals or of exits. The lost message of
  a full pipe is the exception `EveryExitReported` names.

The Windows port is checked for safety only. What must happen there is stated as what
is under way: a handle that closes has its end queued or a request out, a handle that
reads has a read with the system.

## 4. Findings

Checked by a run that expects a violation:

1. **`async_fork`**: `uv__async_fork()` replaces the eventfd and keeps every `pending`
   word. A handle with `pending` 1 or 2 at `fork()` never gets a wake-up in the child:
   later sends return early.
2. **`poll_shared`**: `uv__poll_stop()` (so `uv_close()`) of a poll handle that is
   stopped removes the descriptor from epoll although another handle polls it; that
   handle's `events` equals its `pevents`, so it is never registered again. The test
   says that closing a stopped handle is safe in any case.
3. **`poll_fork_abort`**: `uv_loop_fork()` resets `events` only for watchers that are
   not in `watcher_queue`. One that was queued for a change of its events makes the
   child call `EPOLL_CTL_MOD` on the new epoll, get `ENOENT` and `abort()`.
4. **`udp_closed`**: `uv__udp_io()` sends after the recv callback although it may have
   closed the socket, and feeds the watcher of the closed handle to the loop.
5. **`fs_poll_restart`**: a stop and a start while a stat is under way leave two
   contexts that both take the handle for theirs; `assert()` at `fs-poll.c:177` fails.

Observed while modelling; the properties are stated so that they leave these cases out,
and the comments at the definitions say where.

Unix:
- `epoll.c:432`: `uv__io_poll()` never moves `base`, so the time before an earlier EINTR
  is taken off again on each round: a wait of 4 ms interrupted after 1 and after 3 ms
  returns at once. `WaitHonest` says when a wait may be short.
- `threadpool.c:282`: a forked child keeps `slow_io_work_running`; if slow work ran at the
  threshold, the child never takes a slow request.
- `stream.c:1442`: a shutdown requested while connecting is stranded when the connect
  ends and no write is queued.
- `signal.c:512`: a message from before a stop and a start for another signal stops a
  one-shot handle; `UV_SIGNAL_ONE_SHOT` is never cleared; a SIGCHLD message dropped at a
  full pipe loses an exit until the next one; `uv__signal_loop_fork()` keeps the counters.
- `udp.c:262-311`: with a `recvmmsg()` buffer below 64 kB the loop does not count down;
  chunks are still told after a `uv_close()` in their callback; `uv_udp_recv_stop()` there
  skips the `UV_UDP_MMSG_FREE` callback.
- `stream.c:593`: a failed `uv_accept()` outside the callback leaves the server without
  events; `uv_accept()` on an IPC pipe polls for input although nobody reads; EMFILE
  without a spare descriptor is tried again at once.
- `fs.c:824`: a `pread()` that fails with EIO at an offset falls back to `read()` at
  position 0; a copy loops for ever when its source shrinks; a copy onto itself whose
  `close()` or `fstat()` fails unlinks the source; a `mkstemp()` tried again after EINTR
  has lost its template; a cancelled `uv_fs_closedir()` frees the `uv_dir_t` and leaks the
  `DIR`; `uv-common.c:655` leaks the last entry of a scan that was cut short.
- `idna.c:72`: the decoder takes two unmarked continuation bytes, whose marks cancel, and
  a sequence cut at the end as a shorter one; a name that does not fit is cut without an
  error (311). `uv-common.c:247` cuts an address before `%` to 39 characters, so a long
  one with a quad is refused or read as another.

Windows:
- `core.c`: `UV_RUN_ONCE` may return without a callback although the comment at 629 says
  one must have been invoked; under Wine the empty packet of `uv__wake_all_loops()` is
  fatal (480).
- `async.c`: nothing waits for a sender that is before its exchange at `uv_close()`.
- `signal.c`: a signal dispatched in the callback that closes the handle meets the
  assertion at 277; a one-shot handle that was dispatched is marked pending again without
  a request, so its close never ends (95-99, 266); the one-shot flags are never cleared.
- `getaddrinfo.c`: error paths free `req->alloc` before it is set (317, 391); a name that
  cannot be converted leaks the system's list (144).
- `tcp.c`: after a failed re-listen a later `uv_accept()` meets the assertion at 395; a
  second `uv_listen()` counts the handle twice (568).
- `pipe.c`: a close while connecting leaks the handle and reports success (2141, 1010); a
  failed `RegisterWaitForSingleObject()` reports an error of a write under way (1644);
  `uv_pipe_pending_instances()` and a close without a bind use unset requests (713, 994);
  reading again after the end-of-file timer closed the pipe asserts (1316).
- `tty.c`: the error path at 717 stops reading without the count; `CANCELLATION_PENDING`
  outlives its read (982); a line typed just before a stop and a start is dropped (983);
  an argument of 6553x wraps (1887); a resize can be lost (2412). When
  `WriteConsoleInputW()` fails in a stop (1074, 1130) the thread keeps the output lock
  until the user types Return: the next stop, close, change of mode or write blocks the
  loop until then, and the line may be given to the user after the stop; in a change of
  mode the handle stays stopped, as it does when `SetConsoleMode()` fails (394). A
  cancellation made in the callback of a line is forgotten (987), and a raw loop that
  goes on after its callback changed the mode may take the Return meant for the thread
  (741); that and the refused Return are the exceptions of `WinTtySound` (`lost`). A
  failing `GetConsoleScreenBufferInfo()` moves the caret by an unset `info` (1231), and a
  reset that fails half-way (1267) leaves the caret above the virtual window: a clear
  then fills other cells than those asked for, and `cleared` says nothing of it.
- `udp.c:351`: a receive that fails at once is not marked pending, so that a stop and a
  start put one request on the list twice.
- `poll.c`: the error path clears the events without a stop (160, 386); a slow request
  reads `handle->events` late; with both slow requests out a change aborts (353).
- `fs-event.c`: a start while the request of an earlier one is out meets the assertions
  at 39 or 436; a failing name conversion (194) leaves the handle active and its path
  leaked.
- `process.c`: an entry of PATH that is a single quote makes a length wrap (431);
  `uv_process_kill(p, 0)` resets `exit_signal` (1252).
- `fs.c`: `O_TRUNC` with `O_RDONLY` is refused without `O_CREAT` but with it empties the
  file (531); the access `O_WRONLY|O_RDWR` passes with `FILEMAP|O_APPEND` (465), and
  `O_SYNC|O_DSYNC` is refused (598). Errors after `_open_osfhandle()` or in `CreateFileMapping()` close the handle
  under its descriptor (655, 985, 2025, 2050); an error of `sendfile` meets the assertion
  at 73 and a short `_write()` loses bytes (2130); unlink and fchmod leave attributes half
  changed; seconds have 32 bits (100); `mkstemp` may leave a file without a descriptor.

## 5. Theorems

`tlapm` checks the proofs of `ThreadPoolProofs`, `PollProofs`, `HandleProofs`,
`StreamProofs`, `WinLoopProofs`, `WinStreamProofs`, `WinProofs` and the lemmas of `Queues`
for every value of the constants that satisfies the `ASSUME` of the module (finite sets of
workers, handles and descriptors, special values that are no members, a modulus greater
than the clock's bound, sizes that are natural numbers and, for datagrams, add up; for the
Windows loop finitely many async handles, an INFINITE above the timeouts that end, and
chunks of the table of loops that are not empty; for its streams
finitely many writes, at least one accept request or instance, the accept requests all
different, and none of these named like another request); TLC
evaluates these assumptions in the runs. The theorems about `Poll` assume `Exclusive`
besides: one handle per descriptor. `poll_shared` shows that without it they are false.

- **Async** (`AsyncInv`): `NoLostWakeup` says nothing of a sender that has written the
  eventfd and not yet set `pending` to 2. `Bookkeeping` adds that such a sender has a
  readable eventfd or a place in the scan, that a pending word of 1 has a holder, and
  where each open handle is. From it: `WakeupSafe`, `ClaimSafe` (a claim is exclusive,
  the `abort()` of `uv_async_send()` unreachable), `MergeSafe` (a merged send stays
  outstanding), `CloseSafe`, and `RefinesSignal`: every step of `Async` is a step of
  `AsyncSignal` or a stutter.
- **ThreadPool** (`IInv`, `PInv`): `Phases` (what a worker's place says of job, mark and
  mutex), `IdleCount` (`idle_threads` is exact, so a signal is skipped only for nobody),
  `SlowBound` and `SomeoneAwake` give `TypeCorrect` (the unsigned counters do not wrap),
  `SlowSafe`, `PoolAwake`. `PoolSafe` needs more: what the loop's thread holds between the
  two locks of `uv__work_cancel()` (`Turns`), what a request's word says of where it is
  and of what happened to it (`Unstarted`, `Fate`), and that while a worker sleeps the
  others are enough for the queue even when a slow request is about to bring the pool
  below its threshold (`Enough`). `PoolRefines`: every step of the pool is a step of
  `WorkRequests` or a stutter.
- **Timer** (`Inv`): the last key fired is less than every key in the heap (`AfterLast`),
  which new keys respect as `timer_counter` grows (`Numbered`); a timer fired and still
  active is not due (`FiredNotDue`); `Punctual` ties `timeout` to the time asked for,
  through `ClampExact`, which proves the overflow test exact. From it: `FiresInTime`,
  `FiresInOrder`, `FiresOnce`, `ClosingSafe`; and `SleepSafe`, since a set of keys has a
  least member.
- **Loop** (`Inv`): `ActiveCount` is not inductive, since `uv__finish_close()` drops a
  reference without counting: it needs to know that closing lists hold closing handles
  and that those are not active (`InClosingLists`, `Settled`), and lists without repetition
  (`Distinct`) for the unlinking to be complete. From it: `CountExact`,
  `NoneAfterClose`, `PassesExact`, `RunDrains`, `CloseLeavesNothing` (`uv_loop_close()`
  succeeds only when no list holds a handle). `OnceCallsBack` is about a whole iteration:
  as long as a `uv_run(UV_RUN_ONCE)` called nothing back, something is left, in the
  phases that are still to come, that will be called or that makes the poll wait (`Owed`).
- **Poll** (`PollInv`): that `epoll_ctl()` never fails (`NoAbort`) needs that a watcher
  with events is in the interest set under its own file (`Armed`), which a `close()` would
  undo if another handle had the descriptor (`OneEach`) or an entry had no handle
  (`Covered`). That no watcher is deaf needs that one whose events differ from what it
  wants is queued (`Listed`), and that the queue is empty when the poll may block
  (`Quiet`). From it: `PollSafe`, `EventsReachTheirFile`.
- **PollTimeout** (`WaitInv`): what is left of a timeout is what was asked for until the
  first trip through `update_timeout`, and no more after it (`Left`); a wait of 0 was asked
  for or follows callbacks (`Short`), and 48 batches are the most (`Batched`).
  `PollTakesItsTime` is about behaviours in which no poll is under way for 2^31 ms
  (`InSpan`): beyond that `real_timeout`, an int, would overflow and the code promises
  nothing.
- **Signal, Process** (`ProcessInv`): a closed handle is named by no message because no
  handler counts for a handle that is not started (`HandlerHolds`, which the lock gives) and a
  loop in a callback has not thrown its message away (`Busy`). `Installed` follows the
  disposition through the tree (`Watchers`), `Spent` says which one-shot handle may still
  be started after its call, `Children` in which list each child is. From it:
  `ProcessSafe`, `OneShotCalledOnce`.
- **FsPoll** (`FsPollInv`): a context is listed from its making to the close callback of
  its timer (`Linked`), and just then one thing will come back to it (`Awaited`); while
  the handle is active its newest context is among them (`Newest`). From it: `FsPollSafe`.
- **Udp** (`UdpInv`): the queues hold the sends after the last callback in their order
  (`InOrder`), which gives the size and the counts (`UdpCounts`); a pass of the callbacks
  ends where the queue ended when it began (`Pass`); what is queued is polled for or will
  be sent by the code that runs (`Watching`), what is complete is reported (`Reported`).
  From it: `UdpSafe`.
- **FsReq** (`FsReqInv`): the blocks that are allocated are exactly those that the fields
  of the request own and the directory the user holds (`Accounted`), where opening and
  closing a directory are one moment ahead of the user (`DirAlive`); the fields follow the
  kind of the request and how far it is (`Fields`), the result is that of the last call
  (`Outcome`). From it: `FsReqSafe`: nothing is freed twice or used after its end, and
  nothing leaks but the two blocks that `FsReqSound` names.
- **Inotify** (`InoInv`): an active handle is in the list of its watch descriptor or in the
  queue a walk has taken from it (`Placed`); a list links handles of its descriptor and is
  empty only under the walk (`Listed`); the queue of the walk is exactly what is still to
  be told (`Walking`); a watch of the system has its list (`PathsListed`). The parts speak
  of tables they are given, since `maybe_free_watcher_list()` looks at a list that its
  caller may just have emptied; `uv__inotify_fork()` is a fold over the lists, joined and
  numbered anew. From it: `EventsTold`.
- **Stream** (`StreamInv`, `ServerInv`): `submitted` is what was called back, followed by
  the list being told, the completed and the queued requests (`Accounts`): every operation
  of the queue keeps that list or takes its head, and the sum of what its members hold,
  whose lemmas come first in the module. `ReqsCounted` adds the loop's count. The rest says
  who will see to a request in every place of the code: a connect (`Connecting`), a write
  (`SeenTo`), a shutdown (`Shutting`), the callbacks of a close (`Told`), what a stream
  without a socket cannot have (`Opened`, `Closing`), and that who reads has been told of
  no end (`Reading`). From it: `StreamSafe`, `NoReadAfterStop`. For descriptors: those
  held came after those given out, in order (`Arrival`), each is in one place (`Kept1`),
  and where the server is says whether one waits (`FdTurns`). From it: `ServerSafe`.

- **Windows handles** (`WinHandleInv`): the promises speak of counts, the proofs of where
  the requests are. A request is in one of the three sets of the port (`HeldOnce`), a
  handler has taken one that is still counted, and the end is queued just when a handle
  that closes waits for nothing (`Ends`, `Kept`, about `INCREASE_ACTIVE_COUNT` and its
  fellows, which all handles share). For a polled socket what a request asks for is what
  the user wants or there is no request free (`PollInv`); for a watched path the
  directory, its buffer and the request go together (`WatchInv`); for a child the
  allocations, the handles and the wait are those of the step of `uv_spawn()` it has
  reached (`ChildInv`); for datagrams the four counters are the sizes of sets of sends
  and the receive is out whenever the user reads (`DgramInv`). From it: `WinHandlesSafe`.
- **Windows loop** (`WinLoopInv`): six parts that share no state, each with its invariant.
  - `RunInv`: that `async_sent` means one packet under way says nothing of where it is, so
    `Wakes` puts each wake-up with one thread that has yet to post it or in one of three
    queues (the port, `pending_reqs_tail`, the list `uv__process_reqs()` walks), once.
    `Closes` ties the end of a handle to it, `Counts` the loop's counts to the handles,
    and `Phases` says what had been looked at when `uv_backend_timeout()` returned
    INFINITE.
  - `WaitInv`: an early return is answered with a wait that is 1, then 2, then 4 ms longer,
    which is why at most `3 - repeat` ms are left after another one; a timeout held back
    for the metrics (`reset_timeout`) is still that of the user.
  - `ListInv`: the pointers of the handles are the list (`Linked`), and there is a place in
    it such that a walk owes only watchers from there on and has called none of them
    (`WalksFrom`), whatever a callback starts or stops.
  - `SignalInv`: a one-shot handle that was told is in its callback or stopped, and a
    handle that has a signal is open (`Waiting`); a handle that met neither of the two
    flaws of `signal.c` in section 4 has its packet posted while a signal is pending, and
    none when it ends (`Promised`).
  - `TableInv`: the first `size` places of the table hold the loops, each once, through
    its growth, its shrinking and the move of the last loop into a hole.
  - `ResolveInv`: what a request owns in each of its phases, and that the parts of the
    results lie one behind the other, aligned, in the memory that was measured for them.

  From it: `WinLoopSafe`.
- **Windows streams** (`WinStreamInv`): three parts. A stream keeps four counts, each of
  which macros of `win/` move by one in another place; `WinStreamSound` relates the
  counts to each other and to what is out, which is not inductive: a count says nothing of
  which requests it is of. `Core` says that `reqs_pending` is the size of the set of
  requests that are out and what handlers hold, `EndsOnce` when the end is queued, with a
  shutdown or a close.
  - `TcpInv`: `write_reqs_pending` and `active_reqs` are sizes of the parts of that set
    that are writes or keep the handle active, plus the request a handler has taken
    (`TcpCounts`, by `PartMore`). A handler calls the user before it is done, so the
    invariant takes the kind of the handler (`TcpKind`), and for a server the accept
    requests it has (`TcpServes`); while the server changes to a single request
    (`STATE_CHANGING`) the accepts that are out, offered, or counted in
    `processed_accepts` are all there are.
  - `PipeInv`: a write is to be made, in the list of those that wait for a thread, out,
    or answered, in one of these only (`PipeWritten`), and the list has a write before it.
    `PipeLinked` says what the pipe is open for, and who holds a shutdown: the request,
    the handle that waits for its writes, or the timer of the end of file.
    `PipeReader` says how the thread that reads, the word `thread` and a cancellation
    go together: nobody closes a pipe while a thread is in a read of it. `Frames`: the
    bytes that came in are the rest of a frame and then whole frames, which every read
    keeps.
  - `ServerInv`: an accept request is out or offers a connection (`ServerRequests`), and
    has an instance while it waits or offers (`ServerHolds`).

  A step is a chain of operators of `WinHandle`; a lemma for each says which fields move
  and what is left of `Core`. From it: `WinStreamSafe`.

Sums over lists are recursive functions. What is proved of them is proved with the
principle that a set of natural numbers which is not empty has a least member, as the
theorems on induction, whose parameter is an operator, cannot be used by this prover.
`SUBSET X \ {{}}` is written with parentheses everywhere: the tools disagree on which of
the two operators binds tighter.

Only model-checked: all liveness and the refinements' fairness, and ENABLED, which are
beyond this prover; `Heap` (`ActsAsSet`), `Address` (`AddressExact`) and the copies of
`FsCopy` (`FsExact`), whose definitions are recursive operators or folds over data, as
are the strings, times and tables behind `WinDataExact`; and `WinConsoleSound`,
which has no proof yet.

## 6. Not modelled, and the plan

Left out, with the reason:

- `winapi.h`, `winsock.h`, the public headers and the tables of error names: declarations.
- System queries (`linux-core.c`, `win/util.c` and their like), socket, terminal and
  multicast options, getters, metrics of the Unix loop, `uv_loop_configure()`,
  `uv_random()`: one system call or one assignment each, no protocol.
- The other Unix backends (kqueue, event ports, AIX, z/OS, fsevents, `posix-poll.c`):
  the models follow Linux; these fill the same interface.
- Thread primitives: wrappers of pthreads and of the Windows locks, which the models use
  as locks.
- What a single file system call does to the file system on Unix, conversions of stat.
- Growth of the watcher array, `ENOSYS` of old kernels, allocation failures on Unix where
  the code aborts or only returns.
- `fork()` outside async and I/O watchers; `uv_walk()`; more than one loop in `process`
  (the module is written for several).
- Windows: synchronous writes to overlapped pipes, the console's resize watcher and
  virtual-terminal detection, data races on the word of flags, which are taken for one
  write after the other, concurrent requests for one mapped descriptor.
- Calls that are the caller's error, such as starting a watcher that is closing.

In order, for later:

1. Theorems: the console of the Windows port on the lemmas about its counts; the copies
   of `FsCopy`.
2. Liveness of the Windows loop under the fairness of the completion port.
3. `uv_walk()`, the barrier and the semaphore fallbacks of `unix/thread.c`, one more
   backend (kqueue) against the same properties as `Poll`.
