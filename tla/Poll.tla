-------------------------------- MODULE Poll --------------------------------
(***************************************************************************)
(* The I/O watchers of the loop and epoll: uv__io_start(), uv__io_stop(),  *)
(* uv__io_close() (unix/core.c), the registration and the dispatch of      *)
(* uv__io_poll() and uv__platform_invalidate_fd() (unix/epoll.c), and the  *)
(* poll handles (unix/poll.c).  How long the poll waits is module          *)
(* PollTimeout.                                                            *)
(*                                                                         *)
(* A descriptor is a small number the kernel hands out again as soon as it *)
(* is closed, so every opening makes a new file; the kernel's interest set *)
(* is keyed by descriptor and file.  Callbacks are user code: they open,   *)
(* start, stop and close watchers while the batch is dispatched.           *)
(***************************************************************************)
EXTENDS Integers, Sequences, FiniteSets, Queues

CONSTANTS
  Ws,         \* the watchers, uv__io_t
  Kind,       \* "stream" (owns its descriptor), "poll" or "signal"
  Fds,        \* the descriptors
  None,       \* -1, or NULL
  MaxFiles,   \* bound: files the kernel or a batch knows of at a time
  Exclusive   \* TRUE: a descriptor has one handle at most, and is not closed
              \* before the poll handle on it

ASSUME PollAssumption ==
  /\ Kind \in [Ws -> {"stream", "poll", "signal"}]
  /\ None \notin Ws \cup Fds
  /\ MaxFiles \in Nat /\ Exclusive \in BOOLEAN

\* POLLIN and POLLOUT; UV__POLLRDHUP and UV__POLLPRI are treated like them.
Bits == {"in", "out"}

Errors == {"err", "hup"}

VARIABLES
  file,       \* the file behind each descriptor, 0 if it is closed
  fd,         \* w->fd, None before the init and after the close
  io,         \* pevents and events of each watcher; watcher_queue, watchers
              \* and nfds of the loop
  interest,   \* the kernel's interest set
  pc,         \* "out" of uv__io_poll(), "register", "wait" or "dispatch"
  again,      \* 1 if this wait follows a full batch and does not block
  events,     \* the events of the batch still to be looked at
  nevents, have_signals,  \* locals of uv__io_poll(); nevents is 0 or more (1)
  incallback  \* 1 while a callback runs

local == <<pc, again, nevents, have_signals>>
vars == <<file, fd, io, interest, local, events, incallback>>

Init ==
  /\ file = [f \in Fds |-> 0]
  /\ fd = [w \in Ws |-> None]
  /\ io = [pevents |-> [w \in Ws |-> {}], events |-> [w \in Ws |-> {}],
           watcher_queue |-> <<>>, watchers |-> [f \in Fds |-> None], nfds |-> 0]
  /\ interest = {}
  /\ pc = "out" /\ again = 0 /\ nevents = 0 /\ have_signals = 0
  /\ events = <<>> /\ incallback = 0

-----------------------------------------------------------------------------
(* The kernel: epoll and close().                                          *)

Registered(I, f) == {r \in I : r.fd = f /\ r.file = file[f]}

\* EPOLL_CTL_DEL; a closed descriptor is an error, which is ignored.
CtlDel(I, f) == I \ Registered(I, f)

\* EPOLL_CTL_ADD or EPOLL_CTL_MOD
CtlSet(I, f, ev) == CtlDel(I, f) \cup {[fd |-> f, file |-> file[f], ev |-> ev]}

\* The interest sets after a close(): the entry stays if the file is still
\* open in another process.
Closed(I, f) == {I, CtlDel(I, f)}

-----------------------------------------------------------------------------
(* uv__io_start(), uv__io_stop() as functions of the record io.            *)

\* QUEUE_INSERT_TAIL of a watcher that is not linked
Enqueue(q, w) == IF w \in In(q) THEN q ELSE Append(q, w)

\* Mutant of uv__io_start: a watcher that is known is not registered again.
io_start_known(s, w, ev) ==
  LET p == s.pevents[w] \cup ev IN
  IF s.watchers[fd[w]] = w THEN [s EXCEPT !.pevents[w] = p]
  ELSE [s EXCEPT !.pevents[w] = p, !.watcher_queue = Enqueue(@, w),
                 !.watchers[fd[w]] = w, !.nfds = @ + 1]

uv__io_start(s, w, ev) ==
  LET p == s.pevents[w] \cup ev
      free == s.watchers[fd[w]] = None
  IN IF s.events[w] = p THEN [s EXCEPT !.pevents[w] = p]
     ELSE [s EXCEPT !.pevents[w] = p,
                    !.watcher_queue = Enqueue(@, w),
                    !.watchers[fd[w]] = IF free THEN w ELSE @,
                    !.nfds = IF free THEN @ + 1 ELSE @]

\* Mutant of uv__io_stop: events is not reset.
io_stop_keeps_events(s, w, ev) ==
  LET p == s.pevents[w] \ ev
      mine == s.watchers[fd[w]] = w
  IN IF p = {}
     THEN [s EXCEPT !.pevents[w] = {}, !.watcher_queue = Without(@, w),
                    !.watchers[fd[w]] = IF mine THEN None ELSE @,
                    !.nfds = IF mine THEN @ - 1 ELSE @]
     ELSE [s EXCEPT !.pevents[w] = p, !.watcher_queue = Enqueue(@, w)]

uv__io_stop(s, w, ev) ==
  LET p == s.pevents[w] \ ev
      mine == s.watchers[fd[w]] = w
  IN IF p = {}
     THEN [s EXCEPT !.pevents[w] = {}, !.events[w] = {},
                    !.watcher_queue = Without(@, w),
                    !.watchers[fd[w]] = IF mine THEN None ELSE @,
                    !.nfds = IF mine THEN @ - 1 ELSE @]
     ELSE [s EXCEPT !.pevents[w] = p, !.watcher_queue = Enqueue(@, w)]

\* Mutant of Invalidated: the batch is left as it is.
InvalidatedNot(f) == events

\* uv__platform_invalidate_fd(): the batch
Invalidated(f) ==
  [i \in DOMAIN events |-> IF events[i].fd = f THEN [events[i] EXCEPT !.fd = None] ELSE events[i]]

\* uv__platform_invalidate_fd(): the kernel
Forgotten(f) == CtlDel(interest, f)

-----------------------------------------------------------------------------
(* User code, outside the poll or in a callback.                           *)

UserCode == pc = "out" \/ incallback = 1

Live(w) == UserCode /\ fd[w] # None

\* A name for a new file that nothing uses any more
FreshFiles ==
  LET free == {n \in 1..MaxFiles :
                 /\ \A f \in Fds : file[f] # n
                 /\ \A r \in interest : r.file # n
                 /\ \A i \in DOMAIN events : events[i].file # n}
  IN {n \in free : \A k \in free : n <= k}

\* socket(), open(): any descriptor that is free
NewFile(f) ==
  /\ file[f] = 0
  /\ \E n \in FreshFiles : file' = [file EXCEPT ![f] = n]

uv__io_init(w, f) ==
  /\ fd' = [fd EXCEPT ![w] = f]
  /\ io' = [io EXCEPT !.pevents[w] = {}, !.events[w] = {}]

\* uv__stream_init() and uv__stream_open(), uv__signal_loop_once_init()
Open(w, f) ==
  /\ UserCode /\ Kind[w] # "poll" /\ fd[w] = None
  /\ NewFile(f)
  /\ uv__io_init(w, f)
  /\ UNCHANGED <<interest, local, events, incallback>>

\* uv_read_start(), uv_write() and the like
StreamStart(w, ev) ==
  /\ Live(w) /\ Kind[w] # "poll"
  /\ io' = uv__io_start(io, w, ev)
  /\ UNCHANGED <<file, fd, interest, local, events, incallback>>

StreamStop(w, ev) ==
  /\ Live(w) /\ Kind[w] = "stream"
  /\ io' = uv__io_stop(io, w, ev)
  /\ UNCHANGED <<file, fd, interest, local, events, incallback>>

\* uv__stream_close(): uv__io_close(), then close() unless it is a stdio file
StreamClose(w) ==
  /\ Live(w) /\ Kind[w] = "stream"
  /\ io' = uv__io_stop(io, w, Bits)
  /\ events' = Invalidated(fd[w])
  /\ \/ /\ interest' \in Closed(Forgotten(fd[w]), fd[w])
        /\ file' = [file EXCEPT ![fd[w]] = 0]
     \/ interest' = Forgotten(fd[w]) /\ UNCHANGED file
  /\ fd' = [fd EXCEPT ![w] = None]
  /\ UNCHANGED <<local, incallback>>

Owned(f) == \E w \in Ws : fd[w] = f /\ Kind[w] # "poll"

\* The program makes a descriptor of its own, to be polled.
UserOpen(f) ==
  /\ UserCode
  /\ NewFile(f)
  /\ UNCHANGED <<fd, io, interest, local, events, incallback>>

\* The program closes it: not while an active poll handle is on it.
UserClose(f) ==
  /\ UserCode /\ file[f] # 0 /\ ~Owned(f)
  /\ \A w \in Ws : fd[w] = f => Exclusive = FALSE /\ io.pevents[w] = {}
  /\ file' = [file EXCEPT ![f] = 0]
  /\ interest' \in Closed(interest, f)
  /\ UNCHANGED <<fd, io, local, events, incallback>>

\* UV_EEXIST for a descriptor that is watched; uv__io_check_fd() adds it to
\* the interest set and deletes it again.
uv_poll_init(w, f) ==
  /\ UserCode /\ Kind[w] = "poll" /\ fd[w] = None
  /\ file[f] # 0 /\ ~Owned(f) /\ io.watchers[f] = None
  /\ Exclusive = TRUE => \A v \in Ws : fd[v] # f
  /\ interest' = CtlDel(interest, f)
  /\ uv__io_init(w, f)
  /\ UNCHANGED <<file, local, events, incallback>>

\* UV_EEXIST if another watcher has the descriptor
uv_poll_start(w, ev) ==
  /\ Live(w) /\ Kind[w] = "poll" /\ file[fd[w]] # 0 /\ ~Owned(fd[w])
  /\ io.watchers[fd[w]] \in {None, w}
  /\ io' = uv__io_start(uv__io_stop(io, w, Bits), w, ev)
  /\ events' = Invalidated(fd[w])
  /\ interest' = Forgotten(fd[w])
  /\ UNCHANGED <<file, fd, local, incallback>>

uv__poll_stop(w) ==
  /\ Live(w) /\ Kind[w] = "poll"
  /\ io' = uv__io_stop(io, w, Bits)
  /\ events' = Invalidated(fd[w])
  /\ interest' = Forgotten(fd[w])
  /\ UNCHANGED <<file, local, incallback>>

uv_poll_stop(w) == uv__poll_stop(w) /\ UNCHANGED fd

\* uv_close()
uv__poll_close(w) == uv__poll_stop(w) /\ fd' = [fd EXCEPT ![w] = None]

UserCall ==
  \/ \E w \in Ws, f \in Fds : Open(w, f) \/ uv_poll_init(w, f)
  \/ \E w \in Ws, ev \in (SUBSET Bits) \ {{}} :
       StreamStart(w, ev) \/ StreamStop(w, ev) \/ uv_poll_start(w, ev)
  \/ \E w \in Ws : StreamClose(w) \/ uv_poll_stop(w) \/ uv__poll_close(w)
  \/ \E f \in Fds : UserOpen(f) \/ UserClose(f)

-----------------------------------------------------------------------------
(* uv__io_poll().                                                          *)

\* With no watcher it returns at once.
uv__io_poll ==
  /\ pc = "out" /\ incallback = 0 /\ io.nfds > 0
  /\ pc' = "register" /\ again' = 0
  /\ UNCHANGED <<file, fd, io, interest, nevents, have_signals, events, incallback>>

\* The calls of epoll_ctl() for w that succeed: ADD, or MOD if the descriptor
\* is in the set (after an EEXIST too).  Anything else is an abort().
CtlSucceeds(w) ==
  /\ file[fd[w]] # 0
  /\ io.events[w] # {} => Registered(interest, fd[w]) # {}

\* One watcher of the queue
Register(w) ==
  /\ pc = "register" /\ io.watcher_queue # <<>> /\ w = Head(io.watcher_queue)
  /\ CtlSucceeds(w)
  /\ interest' = CtlSet(interest, fd[w], io.pevents[w])
  /\ io' = [io EXCEPT !.watcher_queue = Tail(@), !.events[w] = io.pevents[w]]
  /\ UNCHANGED <<file, fd, local, events, incallback>>

RegisterEnd ==
  /\ pc = "register" /\ io.watcher_queue = <<>>
  /\ pc' = "wait"
  /\ UNCHANGED <<file, fd, io, interest, again, nevents, have_signals, events,
                 incallback>>

\* The orders in which entries of the interest set can be reported
Batches(I) ==
  UNION {{b \in [1..Cardinality(S) -> S] : \A i, j \in DOMAIN b : b[i] = b[j] => i = j} :
         S \in (SUBSET I) \ {{}}}

\* epoll_wait() returns events.
WaitReturn ==
  /\ pc = "wait"
  /\ pc' = "dispatch" /\ nevents' = 0 /\ have_signals' = 0
  /\ events' \in Batches(interest)
  /\ UNCHANGED <<file, fd, io, interest, again, incallback>>

\* The time is up, see PollTimeout.
WaitTimeout ==
  /\ pc = "wait"
  /\ pc' = "out"
  /\ UNCHANGED <<file, fd, io, interest, again, nevents, have_signals, events,
                 incallback>>

Dispatching == pc = "dispatch" /\ incallback = 0 /\ events # <<>>

\* An event that was invalidated
Skip ==
  /\ Dispatching /\ Head(events).fd = None
  /\ events' = Tail(events)
  /\ UNCHANGED <<file, fd, io, interest, local, incallback>>

\* Nobody watches the descriptor any more.
Disarm ==
  /\ Dispatching /\ Head(events).fd # None /\ io.watchers[Head(events).fd] = None
  /\ interest' = CtlDel(interest, Head(events).fd)
  /\ events' = Tail(events)
  /\ UNCHANGED <<file, fd, io, local, incallback>>

\* What the watcher is told of a report: what it wants, and errors; an error
\* alone comes with all it wants.
Told(report, w) ==
  LET got == report \cap (io.pevents[w] \cup Errors)
  IN IF got \in {{"err"}, {"hup"}} THEN got \cup io.pevents[w] ELSE got

\* w is the watcher of the event, and told is what it is told.
Reported(w, told) ==
  /\ Dispatching /\ Head(events).fd # None /\ w = io.watchers[Head(events).fd]
  /\ told \in {Told(r, w) : r \in (SUBSET (Head(events).ev \cup Errors)) \ {{}}}
  /\ events' = Tail(events)

Unwanted(w) ==
  /\ Reported(w, {})
  /\ UNCHANGED <<file, fd, io, interest, local, incallback>>

\* w->cb: uv__poll_io() stops a poll handle that has an error.
Dispatch(w, told) ==
  /\ Kind[w] # "signal" /\ told # {} /\ Reported(w, told)
  /\ io' = IF Kind[w] = "poll" /\ "err" \in told THEN uv__io_stop(io, w, Bits) ELSE io
  /\ nevents' = 1 /\ incallback' = 1
  /\ UNCHANGED <<file, fd, interest, pc, again, have_signals>>

\* Signals come last.
NoteSignal(w, told) ==
  /\ Kind[w] = "signal" /\ told # {} /\ Reported(w, told)
  /\ nevents' = 1 /\ have_signals' = 1
  /\ UNCHANGED <<file, fd, io, interest, pc, again, incallback>>

CallbackReturn ==
  /\ incallback = 1
  /\ incallback' = 0
  /\ UNCHANGED <<file, fd, io, interest, local, events>>

\* The callbacks of the signals run when the rest of the batch has been dealt
\* with, and the poll returns after them.
RunSignals ==
  /\ pc = "dispatch" /\ incallback = 0 /\ events = <<>> /\ have_signals = 1
  /\ incallback' = 1 /\ pc' = "out"
  /\ UNCHANGED <<file, fd, io, interest, again, nevents, have_signals, events>>

\* Back to the wait: after a full batch without blocking, and without another
\* look at watcher_queue; after a batch that called nobody as before.
PollMore ==
  /\ pc = "dispatch" /\ incallback = 0 /\ events = <<>> /\ have_signals = 0
  /\ again = 1 => nevents = 1
  /\ pc' = "wait" /\ again' = IF nevents = 1 THEN 1 ELSE again
  /\ UNCHANGED <<file, fd, io, interest, nevents, have_signals, events, incallback>>

PollReturn ==
  /\ pc = "dispatch" /\ incallback = 0 /\ events = <<>> /\ have_signals = 0
  /\ pc' = "out"
  /\ UNCHANGED <<file, fd, io, interest, again, nevents, have_signals, events,
                 incallback>>

Next ==
  \/ UserCall \/ uv__io_poll \/ RegisterEnd \/ WaitReturn \/ WaitTimeout
  \/ Skip \/ Disarm \/ CallbackReturn \/ RunSignals \/ PollMore \/ PollReturn
  \/ \E w \in Ws : Register(w) \/ Unwanted(w)
  \/ \E w \in Ws, told \in SUBSET (Bits \cup Errors) : Dispatch(w, told) \/ NoteSignal(w, told)

Spec == Init /\ [][Next]_vars

-----------------------------------------------------------------------------
(* Properties.                                                             *)

Entries == [fd : Fds, file : 1..MaxFiles, ev : (SUBSET Bits) \ {{}}]

TypeOK ==
  /\ file \in [Fds -> 0..MaxFiles]
  /\ fd \in [Ws -> Fds \cup {None}]
  /\ io.pevents \in [Ws -> SUBSET Bits] /\ io.events \in [Ws -> SUBSET Bits]
  /\ io.watcher_queue \in Seq(Ws) /\ io.watchers \in [Fds -> Ws \cup {None}]
  /\ io.nfds \in Nat
  /\ interest \subseteq Entries
  /\ \A i \in DOMAIN events : events[i] \in [fd : Fds \cup {None}, file : 1..MaxFiles,
                                            ev : (SUBSET Bits) \ {{}}]
  /\ pc \in {"out", "register", "wait", "dispatch"}
  /\ again \in 0..1 /\ nevents \in 0..1 /\ have_signals \in 0..1 /\ incallback \in 0..1

\* A poll that may block has told the kernel of every watcher and of exactly
\* the events each one wants, and will find the watcher by its descriptor:
\* none is deaf, whatever was stopped, started, closed and reopened before.
NotDeaf ==
  pc = "wait" /\ again = 0 =>
    \A w \in Ws : io.pevents[w] # {} =>
      /\ [fd |-> fd[w], file |-> file[fd[w]], ev |-> io.pevents[w]] \in interest
      /\ io.watchers[fd[w]] = w

\* epoll_ctl() fails in no way that makes uv__io_poll() abort().
NoAbort ==
  pc = "register" /\ io.watcher_queue # <<>> => CtlSucceeds(Head(io.watcher_queue))

\* The assertions of uv__io_stop() and uv__io_poll(): nfds counts the watchers,
\* and what is queued wants something and is the watcher of its descriptor.
QueueSound ==
  /\ io.nfds = Cardinality({f \in Fds : io.watchers[f] # None})
  /\ \A w \in In(io.watcher_queue) :
       io.pevents[w] # {} /\ fd[w] # None /\ io.watchers[fd[w]] = w

\* An event reaches a watcher only if it happened on the watcher's own file,
\* not on one that had its descriptor before.
NoCrossTalk ==
  [][incallback = 0 /\ incallback' = 1 /\ events # <<>> =>
       LET e == Head(events) IN e.file = file[fd[io.watchers[e.fd]]]]_vars

\* No entry of the interest set outlives the descriptor it was made for, even
\* if the file lives on in another process.
NoJunk == \A r \in interest : file[r.fd] = r.file

\* What uv__io_start(), uv__io_stop() and uv__platform_invalidate_fd() keep true
\* between them, so that the next epoll_ctl() does what they mean by it and a poll
\* that may block hears of everything that is wanted.
PollSound == TypeOK /\ QueueSound /\ NoJunk /\ NoAbort /\ NotDeaf

\* "Closing an already stopped polling handle is safe in any case": what the
\* kernel reports to other watchers stays as it is.
CloseStoppedSafe ==
  [][\A w, v \in Ws :
       uv__poll_close(w) /\ io.pevents[w] = {} /\ io.pevents[v] # {}
         => Registered(interest, fd[v]) \subseteq interest']_vars
=============================================================================
