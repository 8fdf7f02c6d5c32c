------------------------------- MODULE WinPipe -------------------------------
(***************************************************************************)
(* A connection over a named pipe of the Windows port (win/pipe.c): with   *)
(* overlapped calls, or, for a pipe that was not made for them, with two   *)
(* threads that block in ReadFile() and WriteFile().  An IPC pipe carries  *)
(* frames with data and sockets.  A shutdown waits until the other end has *)
(* read everything, and then for its end of file, under a timer.           *)
(*                                                                         *)
(* What the thread that connects does to the handle is one step here.      *)
(* The second part of the module is the server.                            *)
(***************************************************************************)
EXTENDS WinHandle, Sequences

CONSTANTS
  PipeWrites,   \* the uv_write_t, each used once
  MaxFrames     \* writes of the other end

ASSUME PipeAssumption ==
  IsFiniteSet(PipeWrites) /\ {"none", "connect", "read", "shutdown"} \cap PipeWrites = {}

IsSet(f) == On(wh, f)

\* Bound: the user writes to the other end, or the other end to the user.  Frames
\* make no difference to a user who writes.
WinPipeInit ==
  \E b, writer \in BOOLEAN :
   /\ ~(b /\ writer)
   /\ wh = HandleOf(NewHandle,
         [ipc |-> b, pipe |-> FALSE, write_reqs_pending |-> 0, shutdown_req |-> FALSE,
          writes |-> <<>>,       \* the list of non-overlapped writes
          thread |-> "null",     \* readfile_thread_handle
          reader |-> "none",     \* where the thread that reads is
          spin |-> "none",       \* who waits for it, with readfile_thread_lock
          result |-> "ok",       \* how the read ended
          timer |-> "none",      \* eof_timer
          input |-> <<>>, avail |-> 0, payload_remaining |-> 0, ipc_xfer_queue |-> 0,
          frames |-> IF writer THEN MaxFrames ELSE 0,  \* history: writes of the other end
          early |-> FALSE,       \* history: closed before the connect callback
          writer |-> writer, todo |-> IF writer THEN PipeWrites ELSE {}, called |-> {}])

\* The loop's thread runs code of the user.
PipeUser == wh.pc # "read_loop" /\ wh.spin = "none"
PipeLoop == wh.spin = "none"
Threaded(h) == On(h, "NON_OVERLAPPED_PIPE")

-----------------------------------------------------------------------------
(* Getting a pipe.                                                         *)

\* uv__set_pipe_handle(): how the pipe was made decides how it is used.  Where it
\* has a completion port already (EMULATE_IOCP), a wait posts the completion that
\* the system posts otherwise.
PipeModes == {{}, {"NON_OVERLAPPED_PIPE"}}
Duplex == {{"READABLE", "WRITABLE"}, {"READABLE"}, {"WRITABLE"}}
SetPipe(h, mode, duplex) == [Set(h, mode \cup duplex) EXCEPT !.pipe = TRUE]

\* An IPC pipe is read and written with overlapped calls.
PipesFor(h) ==
  IF h.ipc THEN {SetPipe(h, {}, {"READABLE", "WRITABLE"})}
  ELSE {SetPipe(h, m, d) : m \in PipeModes, d \in Duplex}

ConnectUnderWay == "connect" \in Outstanding(wh) \/ wh.cur = "connect"
Unused == ~wh.pipe /\ ~IsSet("CONNECTION") /\ ~ConnectUnderWay /\ ~IsSet("CLOSING")

uv_pipe_open ==
  /\ PipeUser /\ Unused
  /\ wh' \in {Set(h, {"CONNECTION"}) : h \in PipesFor(wh)}

\* The parent's end of a child's stdio
uv__create_stdio_pipe_pair ==
  /\ PipeUser /\ Unused
  /\ \E d \in Duplex : wh' = Set(SetPipe(wh, {}, d), {"CONNECTION"})

\* A busy pipe is waited for by a thread; everything else is known at once.
uv_pipe_connect ==
  /\ PipeUser /\ Unused
  /\ \/ wh' = Register(Given(wh, "connect"))
     \/ wh' = Register(Inserted(wh, "connect", FALSE))
     \/ \E h \in PipesFor(wh) : wh' = Register(Inserted(h, "connect", TRUE))

pipe_connect_thread_proc ==
  /\ "connect" \in wh.kernel
  /\ \/ wh' = Completed(wh, "connect", FALSE)
     \/ \E h \in PipesFor(wh) : wh' = Completed(h, "connect", TRUE)

PipeProcessConnect ==
  /\ PipeLoop /\ CanHandle(wh, "connect")
  /\ LET h == Unregister(Handling(wh, "connect"))
     IN wh' = CallUser(IF "connect" \in h.ok THEN Set(h, {"CONNECTION"}) ELSE h,
                       "connect_cb", "connect")

PipeConnectDone == wh.pc = "connect_cb" /\ PipeLoop /\ wh' = DecPending(Returned(wh))

-----------------------------------------------------------------------------
(* Stopping a read that blocks.                                            *)

\* The rest of uv__pipe_cleanup() and uv__pipe_close(), once the read is
\* interrupted.
CloseRest(h) ==
  LET c == IF On(h, "CONNECTION") THEN [h EXCEPT !.timer = "none", !.pipe = FALSE] ELSE h
      g == HandleClosing(Clear(c, {"READABLE", "WRITABLE"}))
  IN IF g.reqs_pending = 0 THEN WantEndgame(g) ELSE g

\* What a caller of uv__pipe_interrupt_read() does next.
GoesOn(h, caller) ==
  CASE caller = "close" -> CloseRest(h)
    [] caller = "error" -> [h EXCEPT !.pc = "eof_cb"]
    [] OTHER -> h

\* uv__pipe_interrupt_read(): a thread in ReadFile() is cancelled again and
\* again until it has left; one that has not begun finds INVALID_HANDLE_VALUE.
Interrupt(h, caller) ==
  LET cancelled == Set(h, {"CANCELLATION_PENDING"})
  IN IF ~On(h, "READ_PENDING") \/ On(h, "CANCELLATION_PENDING") \/ ~h.pipe THEN GoesOn(h, caller)
     ELSE IF ~Threaded(h) THEN GoesOn(cancelled, caller)
     ELSE IF h.thread = "thread" THEN [h EXCEPT !.spin = caller]
     ELSE GoesOn([cancelled EXCEPT !.thread = "invalid"], caller)

InterruptDone ==
  /\ wh.spin # "none" /\ wh.thread = "invalid"
  /\ wh' = GoesOn([Set(wh, {"CANCELLATION_PENDING"}) EXCEPT !.spin = "none"], wh.spin)

PipeStop(h) == DecActive(Clear(h, {"READING"}))

uv__pipe_read_stop ==
  /\ PipeUser /\ IsSet("READING")
  /\ wh' = Interrupt(PipeStop(wh), "stop")

\* uv__pipe_getname() interrupts the read: the query would wait for it.
uv__pipe_getname ==
  /\ PipeUser /\ wh.pipe /\ IsSet("CONNECTION") /\ Threaded(wh)
  /\ wh' = Interrupt(wh, "name")

\* uv_pipe_zero_readfile_thread_proc(): its three steps
ReaderEnters ==
  /\ wh.reader = "start" /\ wh.spin = "none"
  /\ wh' = IF wh.thread = "invalid"
           THEN [Completed(wh, "read", FALSE) EXCEPT !.reader = "none", !.result = "aborted"]
           ELSE [wh EXCEPT !.thread = "thread", !.reader = "reading"]

ReaderReturns ==
  /\ wh.reader = "reading"
  /\ \E r \in {"ok", "error", "aborted"} :
       /\ r = "ok" => wh.input # <<>>
       /\ r = "aborted" => wh.spin # "none"
       /\ wh' = [wh EXCEPT !.thread = "invalid", !.reader = "leaving", !.result = r]

\* Mutant of ReaderLeaves: the thread does not wait for who cancels it.
LeavesAtOnce ==
  /\ wh.reader = "leaving"
  /\ wh' = [Completed(wh, "read", wh.result = "ok") EXCEPT !.reader = "none"]

ReaderLeaves ==
  /\ wh.reader = "leaving" /\ wh.spin = "none"
  /\ wh' = [Completed(wh, "read", wh.result = "ok") EXCEPT !.reader = "none"]

-----------------------------------------------------------------------------
(* Reading.                                                                *)

EofTimerStart(h) == IF h.timer = "none" THEN h ELSE [h EXCEPT !.timer = "on"]
EofTimerStop(h) == IF h.timer = "none" THEN h ELSE [h EXCEPT !.timer = "idle"]

\* What uv__pipe_queue_read() may do.
PipeQueueRead(h) ==
  LET g == Set(h, {"READ_PENDING"})
      under_way == EofTimerStart(Given(g, "read"))
  IN {IF Threaded(h) THEN [under_way EXCEPT !.thread = "null", !.reader = "start"] ELSE under_way,
      [Inserted(IF Threaded(h) THEN [g EXCEPT !.thread = "null"] ELSE g, "read", FALSE)
         EXCEPT !.result = "error"]}

\* Not on a pipe that the timer closed: uv__pipe_queue_read() asserts that.
uv__pipe_read_start ==
  /\ PipeUser /\ ~IsSet("CLOSING") /\ wh.pipe /\ IsSet("CONNECTION")
  /\ IsSet("READABLE") /\ ~IsSet("READING")
  /\ LET h == IncActive(Set(wh, {"READING"}))
     IN IF IsSet("READ_PENDING") THEN wh' = h ELSE wh' \in PipeQueueRead(h)

\* uv__pipe_read_error_or_eof()
PipeEnds(h) == Interrupt(PipeStop([h EXCEPT !.timer = "none"]), "error")

\* The start of uv__process_pipe_read_req()
PipeProcessRead ==
  /\ PipeLoop /\ CanHandle(wh, "read")
  /\ LET c == Clear(Handling(wh, "read"), {"READ_PENDING", "CANCELLATION_PENDING"})
         h == EofTimerStop(DecPending(c))
     IN IF ~On(h, "READING") THEN wh' = h
        ELSE CASE h.result = "aborted" -> wh' \in PipeQueueRead(h)
               [] h.result = "error" -> wh' = PipeEnds(h)
               [] OTHER -> wh' \in {[h EXCEPT !.pc = "read_loop", !.avail = Len(h.input)], PipeEnds(h)}

Take(h, n) ==
  [h EXCEPT !.input = SubSeq(@, n + 1, Len(@)), !.avail = IF n > @ THEN 0 ELSE @ - n]

\* The most a read may take
ReadLimit == IF wh.ipc THEN wh.payload_remaining ELSE Len(wh.input)

CanTurn == wh.pc = "read_loop" /\ wh.avail > 0 /\ IsSet("READING")

\* uv__pipe_read_data(): into the user's buffer, of any length; with none, or
\* when the call fails, the loop ends.
ReadData ==
  /\ CanTurn /\ (wh.ipc => wh.payload_remaining > 0)
  /\ \/ \E n \in 1..ReadLimit :
          wh' = [Take(wh, n) EXCEPT !.pc = "read_cb",
                                    !.payload_remaining = IF wh.ipc THEN @ - n ELSE @]
     \/ wh' = [wh EXCEPT !.pc = "read_cb", !.avail = 0]
     \/ wh' = PipeEnds(wh)

\* uv__pipe_read_ipc(), at the start of a frame
ReadFrame ==
  /\ CanTurn /\ wh.ipc /\ wh.payload_remaining = 0
  /\ LET head == Head(wh.input)
     IN IF ~head.header THEN wh' = PipeEnds(Take(wh, 1))
        ELSE wh' = [Take(wh, 1) EXCEPT !.payload_remaining = head.length,
                                       !.ipc_xfer_queue = @ + (IF head.xfer THEN 1 ELSE 0)]

PipeReadAgain == wh.pc = "read_cb" /\ PipeLoop /\ wh' = [wh EXCEPT !.pc = "read_loop"]

PipeReadDone ==
  /\ PipeLoop
  /\ \/ wh.pc = "eof_cb"
     \/ wh.pc = "read_loop" /\ ~(wh.avail > 0 /\ IsSet("READING"))
  /\ LET h == [Returned(wh) EXCEPT !.avail = 0]
     IN IF IsSet("READING") /\ ~IsSet("READ_PENDING") THEN wh' \in PipeQueueRead(h) ELSE wh' = h

\* uv__pipe_accept() on an IPC pipe
AcceptXfer ==
  /\ PipeUser /\ wh.ipc_xfer_queue > 0 /\ ~IsSet("CLOSING")
  /\ wh' = [wh EXCEPT !.ipc_xfer_queue = @ - 1]

\* The frame uv__pipe_write_ipc() makes of n bytes and a socket, or none.
Frame(n, xfer) ==
  <<[header |-> TRUE, length |-> n, xfer |-> xfer]>>
  \o [i \in 1..n |-> [header |-> FALSE, length |-> 0, xfer |-> FALSE]]

\* The other end writes.
PeerWrites ==
  /\ wh.pipe /\ wh.frames < MaxFrames
  /\ \E n \in {0, 2}, x \in BOOLEAN :
       /\ ~wh.ipc => n > 0 /\ ~x
       /\ wh' = [wh EXCEPT !.frames = @ + 1,
                           !.input = @ \o (IF wh.ipc THEN Frame(n, x) ELSE Tail(Frame(n, x)))]

-----------------------------------------------------------------------------
(* Writing.                                                                *)

uv_stream_set_blocking ==
  /\ PipeUser /\ Threaded(wh) /\ ~IsSet("BLOCKING_WRITES") /\ ~IsSet("CLOSING")
  /\ wh' = Set(wh, {"BLOCKING_WRITES"})

\* uv__queue_non_overlapped_write(): the next of the list to a thread
StartWrite(h) ==
  IF h.writes = <<>> THEN h
  ELSE [h EXCEPT !.writes = Tail(@), !.kernel = @ \cup {Head(h.writes)}]

\* uv__pipe_write_data(): at once, through the list, or overlapped.  A call that
\* fails leaves nothing.  (A connect that ends after uv_close() makes the handle
\* writable again; nobody writes to a handle that is closed.)
uv__pipe_write_data(w) ==
  /\ PipeUser /\ IsSet("WRITABLE") /\ IsSet("CONNECTION") /\ ~IsSet("CLOSING") /\ w \in wh.todo
  /\ LET h == Register([wh EXCEPT !.write_reqs_pending = @ + 1, !.todo = @ \ {w}])
         listed == [h EXCEPT !.writes = Append(@, w), !.reqs_pending = @ + 1]
     IN IF ~Threaded(wh) \/ IsSet("BLOCKING_WRITES") THEN wh' = Given(h, w)
        ELSE wh' = IF wh.write_reqs_pending = 0 THEN StartWrite(listed) ELSE listed

PipeProcessWrite(w) ==
  /\ PipeLoop /\ CanHandle(wh, w)
  /\ wh' = CallUser([Unregister(Handling(wh, w)) EXCEPT !.called = @ \cup {w}], "write_cb", w)

PipeWriteDone ==
  /\ PipeLoop /\ wh.pc = "write_cb"
  /\ LET h == [Returned(wh) EXCEPT !.write_reqs_pending = @ - 1]
         g == IF Threaded(h) THEN StartWrite(h) ELSE h
     IN wh' = DecPending(IF g.shutdown_req /\ g.write_reqs_pending = 0 THEN WantEndgame(g) ELSE g)

-----------------------------------------------------------------------------
(* Shutdown and the end.                                                   *)

PipeShutdown ==
  /\ PipeUser /\ IsSet("WRITABLE") /\ IsSet("CONNECTION")
  /\ ~IsSet("SHUTTING") /\ ~IsSet("CLOSING")
  /\ LET h == Set(Clear(wh, {"WRITABLE"}), {"SHUTTING"})
     IN wh' = WantEndgame(Register([h EXCEPT !.shutdown_req = TRUE, !.reqs_pending = @ + 1]))

\* uv__pipe_endgame(): the shutdown once the writes are done, or the close.
uv__pipe_endgame ==
  /\ PipeLoop /\ CanEnd(wh)
  /\ LET h == Ending(wh)
         s == [h EXCEPT !.shutdown_req = FALSE]
         failed == CallUser(Unregister(s), "shutdown_cb", "shutdown")
     IN IF On(h, "CONNECTION") /\ h.shutdown_req /\ h.write_reqs_pending = 0
        THEN IF On(h, "CLOSING") THEN wh' = failed
             ELSE \/ wh' = Set(failed, {"WRITABLE"})
                  \/ wh' = [s EXCEPT !.pending = @ \cup {"shutdown"}]
                  \/ wh' = [s EXCEPT !.kernel = @ \cup {"shutdown"}]
        ELSE wh' = IF EndDue(h) THEN HandleClose([h EXCEPT !.ipc_xfer_queue = 0]) ELSE h

\* uv__process_pipe_shutdown_req(): the end of file of the other side is waited
\* for, or the pipe is closed.
PipeProcessShutdown ==
  /\ PipeLoop /\ CanHandle(wh, "shutdown")
  /\ LET h == Unregister(Handling(wh, "shutdown"))
         t == [h EXCEPT !.timer = IF On(h, "READ_PENDING") THEN "on" ELSE "idle"]
     IN wh' = CallUser(IF On(h, "READABLE") THEN t ELSE [h EXCEPT !.pipe = FALSE],
                       "shutdown_cb", "shutdown")

PipeShutdownDone == wh.pc = "shutdown_cb" /\ PipeLoop /\ wh' = DecPending(Returned(wh))

\* eof_timer_cb(): no end of file came.  A read that is done is left to its
\* handler; in a thread's read nothing tells whether it is.
eof_timer_cb ==
  /\ PipeLoop /\ wh.pc = "idle" /\ wh.walk = {} /\ wh.timer = "on"
  /\ LET h == [wh EXCEPT !.timer = "none", !.pipe = FALSE]
     IN wh' = IF Threaded(wh) \/ "read" \notin wh.kernel THEN [wh EXCEPT !.timer = "idle"]
              ELSE CallUser(IF IsSet("READING") THEN PipeStop(h) ELSE h, "timer_cb", "none")

EofTimerDone == wh.pc = "timer_cb" /\ PipeLoop /\ wh' = Returned(wh)

uv__pipe_close ==
  /\ PipeUser /\ ~IsSet("CLOSING")
  /\ LET h == [wh EXCEPT !.early = ConnectUnderWay]
     IN wh' = Interrupt(IF IsSet("READING") THEN PipeStop(h) ELSE h, "close")

\* The system answers; a read that is cancelled, or whose pipe was closed, is
\* aborted.
PipeCompletes ==
  \/ \E r \in wh.kernel \ {"read", "connect"}, good \in BOOLEAN : wh' = Completed(wh, r, good)
  \/ /\ "read" \in wh.kernel /\ ~Threaded(wh)
     /\ \E x \in {"ok", "error", "aborted"} :
          /\ x = "ok" => wh.input # <<>> /\ wh.pipe
          /\ x = "aborted" => IsSet("CANCELLATION_PENDING") \/ ~wh.pipe
          /\ wh' = [Completed(wh, "read", x = "ok") EXCEPT !.result = x]

PipeWalk == PipeLoop /\ CanWalk(wh) /\ wh' = WalkReqs(wh)

WinPipeNext ==
  \/ uv_pipe_open \/ uv__create_stdio_pipe_pair \/ uv_pipe_connect \/ pipe_connect_thread_proc
  \/ PipeProcessConnect \/ PipeConnectDone
  \/ InterruptDone \/ uv__pipe_read_stop \/ uv__pipe_getname
  \/ ReaderEnters \/ ReaderReturns \/ ReaderLeaves
  \/ uv__pipe_read_start \/ PipeProcessRead \/ ReadData \/ ReadFrame \/ PipeReadAgain
  \/ PipeReadDone \/ AcceptXfer \/ PeerWrites
  \/ uv_stream_set_blocking \/ (\E w \in PipeWrites : uv__pipe_write_data(w) \/ PipeProcessWrite(w))
  \/ PipeWriteDone \/ PipeShutdown \/ uv__pipe_endgame \/ PipeProcessShutdown \/ PipeShutdownDone
  \/ eof_timer_cb \/ EofTimerDone \/ uv__pipe_close \/ PipeCompletes \/ PipeWalk

-----------------------------------------------------------------------------
\* The thread that reads: who cancels it never uses the handle of a thread that
\* is gone, and a pipe is not closed under its ReadFile().
ReaderSafe ==
  /\ wh.spin # "none" => wh.reader \in {"reading", "leaving"}
  /\ wh.reader = "reading" => wh.thread = "thread" /\ wh.pipe
  /\ wh.thread = "thread" => wh.reader = "reading"
  /\ wh.reader # "none" => IsSet("READ_PENDING") /\ "read" \in wh.kernel

\* A frame is read to its end before the next header.
Framed ==
  wh.ipc => /\ wh.payload_remaining <= Len(wh.input)
            /\ \A i \in 1..wh.payload_remaining : ~wh.input[i].header
            /\ wh.payload_remaining < Len(wh.input) => wh.input[wh.payload_remaining + 1].header

\* The request whose handler has not counted it off.
PipeCurrent == IF wh.cur \in {"none", "read"} THEN 0 ELSE 1

\* Over overlapped calls, waits or threads, with stops and closes in callbacks, a
\* pipe counts its requests exactly; a write in the list has one before it, a
\* shutdown somebody to go on with it; the timer for the end of file only runs
\* beside a read; frames are read whole; and at the end nothing is open, but for
\* a pipe that was closed before its connect callback (win/pipe.c:1010).
WinPipeSound ==
  /\ HandleSound(wh) /\ ReaderSafe /\ Framed
  /\ wh.reqs_pending = Cardinality(Outstanding(wh)) + Len(wh.writes) + PipeCurrent
                       + (IF wh.shutdown_req THEN 1 ELSE 0)
  /\ wh.activecnt = wh.active_reqs + (IF IsSet("READING") THEN 1 ELSE 0)
  /\ wh.writes # <<>> => (Outstanding(wh) \cup {wh.cur}) \cap PipeWrites # {}
  /\ wh.shutdown_req /\ wh.write_reqs_pending = 0 /\ wh.pc = "idle" => IsSet("ENDGAME_QUEUED")
  /\ wh.timer = "on" => IsSet("READ_PENDING") /\ wh.pipe
  /\ IsSet("READING") /\ wh.pc = "idle" => IsSet("READ_PENDING")
  /\ IsSet("CLOSED") => /\ wh.timer = "none" /\ wh.reader = "none" /\ wh.ipc_xfer_queue = 0
                        /\ wh.writer => wh.called \cup wh.todo = PipeWrites
                        /\ ~wh.early => ~wh.pipe

-----------------------------------------------------------------------------
(***************************************************************************)
(* A server on a named pipe of the Windows port (win/pipe.c).  Each of its *)
(* accept requests holds one instance of the pipe: it waits for a client,  *)
(* is given away with uv_accept(), and gets a new instance.                *)
(***************************************************************************)
CONSTANT PipeInstances   \* the accept requests there may be, a sequence

Serves(f) == On(wh, f)
Instances == {PipeInstances[i] : i \in DOMAIN PipeInstances}
ASSUME InstancesAssumption ==
  /\ PipeInstances \in Seq(Instances) /\ PipeInstances # <<>> /\ "none" \notin Instances

WinPipeServerInit ==
  wh = HandleOf(NewHandle,
       [pending_instances |-> 0, accept_reqs |-> FALSE,
        pipeHandle |-> [a \in Instances |-> FALSE],
        pending_accepts |-> <<>>])

Used(h) == {PipeInstances[i] : i \in 1..h.pending_instances}

uv_pipe_pending_instances ==
  /\ ~Serves("BOUND") /\ ~Serves("CLOSING") /\ ~Serves("PIPESERVER")
  /\ \E n \in DOMAIN PipeInstances :
       wh' = [Set(wh, {"PIPESERVER"}) EXCEPT !.pending_instances = n]

\* A name that is taken, or wrong, leaves nothing but the memory of the requests.
uv_pipe_bind ==
  /\ ~Serves("BOUND") /\ ~Serves("CLOSING")
  /\ LET h == [Set(wh, {"PIPESERVER", "BOUND"}) EXCEPT
                 !.pending_instances = IF Serves("PIPESERVER") THEN @ ELSE Len(PipeInstances),
                 !.accept_reqs = TRUE]
     IN wh' = [h EXCEPT !.pipeHandle[PipeInstances[1]] = TRUE]

\* pipe_alloc_accept(), for the requests reqs: some get an instance.  (The first
\* has the one of uv_pipe_bind().)
AllocAccept(h, reqs, some) ==
  [h EXCEPT !.pipeHandle = [a \in Instances |-> IF a \in reqs THEN a \in some ELSE @[a]]]

\* What uv__pipe_queue_accept() may do: no instance or one that fails, one that a
\* client has connected to, one that waits.
PipeQueueAccept(h, reqs) ==
  {LET those(o) == {a \in reqs : out[a] = o}
   IN [AllocAccept(h, reqs, reqs \ those("refused")) EXCEPT
         !.kernel = @ \cup those("waits"), !.pending = @ \cup (reqs \ those("waits")),
         !.ok = (@ \ those("refused")) \cup those("done"),
         !.reqs_pending = @ + Cardinality(reqs)]
   : out \in [reqs -> {"refused", "done", "waits"}]}

\* A second uv_listen() would queue requests that are queued.
uv__pipe_listen ==
  /\ Serves("BOUND") /\ Serves("PIPESERVER") /\ ~Serves("LISTENING") /\ ~Serves("CLOSING")
  /\ wh.accept_reqs
  /\ wh' \in PipeQueueAccept(IncActive(Set(wh, {"LISTENING"})), Used(wh))

\* uv__pipe_accept(), before uv_close()
uv__pipe_accept ==
  /\ wh.pending_accepts # <<>> /\ ~Serves("CLOSING")
  /\ LET a == Head(wh.pending_accepts)
     IN wh' \in PipeQueueAccept([wh EXCEPT !.pending_accepts = Tail(@)], {a})

\* uv__process_pipe_accept_req(): an instance that failed is replaced.
PipeProcessAccept(a) ==
  /\ CanHandle(wh, a)
  /\ LET h == Handling(wh, a)
     IN IF On(h, "CLOSING") THEN wh' = DecPending(h)
        ELSE IF a \in h.ok
          THEN wh' = CallUser([h EXCEPT !.pending_accepts = <<a>> \o @], "connection_cb", a)
        ELSE \E g \in PipeQueueAccept(h, {a}) : wh' = DecPending(g)

ConnectionDone == wh.pc = "connection_cb" /\ wh' = DecPending(Returned(wh))

\* uv__pipe_close() of a server: the instances nobody took are closed.  Between
\* uv_pipe_pending_instances() and uv_pipe_bind() there are no requests to look at.
PipeServerClose ==
  /\ ~Serves("CLOSING") /\ (Serves("PIPESERVER") => wh.accept_reqs)
  /\ LET l == IF Serves("LISTENING") THEN DecActive(Clear(wh, {"LISTENING"})) ELSE wh
         h == HandleClosing([l EXCEPT !.pipeHandle = [a \in Instances |-> FALSE]])
     IN wh' = IF h.reqs_pending = 0 THEN WantEndgame(h) ELSE h

PipeServerEndgame ==
  /\ CanEnd(wh)
  /\ LET h == Ending(wh)
     IN wh' = IF EndDue(h) THEN HandleClose([h EXCEPT !.accept_reqs = FALSE]) ELSE h

\* A client connects, or the instance fails.
InstanceCompletes ==
  \E a \in wh.kernel, good \in BOOLEAN :
    /\ good => wh.pipeHandle[a]
    /\ wh' = Completed(wh, a, good)

PipeServerWalk == CanWalk(wh) /\ wh' = WalkReqs(wh)

WinPipeServerNext ==
  \/ uv_pipe_pending_instances \/ uv_pipe_bind \/ uv__pipe_listen \/ uv__pipe_accept
  \/ (\E a \in Instances : PipeProcessAccept(a))
  \/ ConnectionDone \/ PipeServerClose \/ PipeServerEndgame \/ InstanceCompletes \/ PipeServerWalk

\* While the server listens each of its requests waits for a client, is about to
\* be handled or offers a connection, and only one of them; what fails is tried
\* again, what is closed leaves no instance and no memory.
WinPipeServerSound ==
  /\ HandleSound(wh)
  /\ wh.reqs_pending = Cardinality(Outstanding(wh)) + (IF wh.cur = "none" THEN 0 ELSE 1)
  /\ Serves("LISTENING") =>
       \A a \in Used(wh) :
         LET offered == \E i \in DOMAIN wh.pending_accepts : wh.pending_accepts[i] = a
         IN /\ a \in Outstanding(wh) <=> ~offered
            /\ offered => wh.pipeHandle[a]
            /\ a \in wh.kernel => wh.pipeHandle[a]
  /\ Serves("CLOSED") => ~wh.accept_reqs /\ \A a \in Instances : ~wh.pipeHandle[a]
=============================================================================
