------------------------------- MODULE WinTcp -------------------------------
(***************************************************************************)
(* uv_tcp_t of the Windows port (win/tcp.c, win/stream.c): a connection or *)
(* a server, with its reads, writes, accepts, connect and shutdown under   *)
(* way at once, and a uv_close() at any point, callbacks included.  The    *)
(* port reads with zero bytes to learn that there is something, and then   *)
(* without waiting.                                                        *)
(***************************************************************************)
EXTENDS WinHandle, Sequences

CONSTANTS
  TcpWrites,    \* the uv_write_t, each used once
  TcpAcceptReqs \* the accept requests, uv_simultaneous_server_accepts of them

TcpAccepts == {TcpAcceptReqs[i] : i \in DOMAIN TcpAcceptReqs}

\* There is an accept request at least, and no two requests are the same.
ASSUME TcpAssumption ==
  /\ IsFiniteSet(TcpWrites) /\ TcpAcceptReqs \in Seq(TcpAccepts) /\ TcpAcceptReqs # <<>>
  /\ Cardinality(TcpAccepts) = Len(TcpAcceptReqs)
  /\ TcpWrites \cap TcpAccepts = {}
  /\ {"none", "connect", "read", "shutdown"} \cap (TcpWrites \cup TcpAccepts) = {}

Uses(f) == On(wh, f)

WinTcpInit ==
  wh = HandleOf(NewHandle,
       [socket |-> FALSE, delayed_error |-> FALSE, write_reqs_pending |-> 0,
        shutdown_req |-> FALSE,
        accept_socket |-> [a \in TcpAccepts |-> FALSE],
        pending_accepts |-> <<>>, accept_reqs |-> FALSE, processed_accepts |-> 0,
        listens |-> 0,        \* history: successful uv_listen()s
        todo |-> TcpWrites,   \* the writes not made so far
        called |-> {}])        \* history: writes whose callback was called

TcpUser == wh.pc # "read_loop"
Usable == TcpUser /\ ~Uses("CLOSING")

-----------------------------------------------------------------------------
(* Connections.                                                            *)

\* uv__tcp_try_bind(): an address in use is reported by connect or listen.
TryBind(h) ==
  {[Set(h, {"BOUND"}) EXCEPT !.socket = TRUE, !.delayed_error = d] : d \in BOOLEAN}

uv__tcp_bind ==
  /\ Usable /\ ~Uses("BOUND")
  /\ wh' \in TryBind(wh) \cup {[wh EXCEPT !.socket = TRUE]}

\* uv__tcp_set_socket(): only once.  The flags a socket of the user gets, or one
\* that came through a pipe: bound, connected, or with the error of the other side.
SetSocket(h, fs) == [Set(h, fs) EXCEPT !.socket = TRUE]
Connected == {"CONNECTION", "READABLE", "WRITABLE"}

uv_tcp_open ==
  /\ Usable /\ ~wh.socket
  /\ wh' \in {SetSocket(wh, fs) : fs \in {{}, {"BOUND"}, {"BOUND"} \cup Connected}}

uv__tcp_xfer_import ==
  /\ Usable /\ ~wh.socket
  /\ \E d \in BOOLEAN, fs \in {{}, Connected} :
       wh' = [SetSocket(wh, fs \cup {"BOUND"}) EXCEPT !.delayed_error = d]

\* uv__tcp_try_connect(): a delayed error, and a ConnectEx() that is done at
\* once, are reported through the pending requests.  A handle that listened is
\* not used for a connection: what the two keep shares its memory.
uv__tcp_connect ==
  /\ Usable /\ ~Uses("CONNECTION") /\ wh.listens = 0
  /\ "connect" \notin Outstanding(wh) /\ wh.cur # "connect"
  /\ \E h \in IF Uses("BOUND") THEN {wh} ELSE TryBind(wh) :
       IF h.delayed_error THEN wh' = Register(Inserted(h, "connect", TRUE))
       ELSE \/ wh' = Register(Inserted(h, "connect", TRUE))
            \/ wh' = Register(Given(h, "connect"))
            \/ wh' = h

\* uv__process_tcp_connect_req()
ProcessConnect ==
  /\ CanHandle(wh, "connect")
  /\ LET h == Unregister(Handling(wh, "connect"))
         up == Set(h, Connected)
         g == IF h.delayed_error THEN {[h EXCEPT !.delayed_error = FALSE]}
              ELSE IF "connect" \in h.ok /\ ~On(h, "CLOSING") THEN {up, h} ELSE {h}
     IN \E x \in g : wh' = CallUser(x, "connect_cb", "connect")

\* What uv__tcp_queue_read() may do with the request.
QueueRead(h) ==
  LET g == Set(h, {"READ_PENDING"})
  IN {Given(g, "read"), Inserted(g, "read", TRUE), Inserted(g, "read", FALSE)}

\* uv__tcp_read_start(), after the checks of uv_read_start()
uv__tcp_read_start ==
  /\ Usable /\ Uses("READABLE") /\ ~Uses("READING")
  /\ LET h == IncActive(Set(wh, {"READING"}))
     IN IF Uses("READ_PENDING") THEN wh' = h ELSE wh' \in QueueRead(h)

StopReading(h) == DecActive(Clear(h, {"READING"}))

\* uv_read_stop(): a read that is under way is left alone.
uv_read_stop ==
  /\ TcpUser /\ Uses("READING")
  /\ wh' = StopReading(wh)

\* The start of uv__process_tcp_read_req(): an error is reported if anybody
\* reads.
ProcessRead ==
  /\ CanHandle(wh, "read")
  /\ LET h == Clear(Handling(wh, "read"), {"READ_PENDING"})
     IN wh' = IF "read" \in h.ok THEN CallUser(h, "read_loop", "read")
              ELSE IF On(h, "READING")
                THEN CallUser(Clear(StopReading(h), {"READABLE", "WRITABLE"}), "end_cb", "read")
              ELSE DecPending(h)

\* A turn of its loop of reads that do not wait: data, no buffer or nothing to
\* read, the end of the stream, an error.
ReadTurn ==
  /\ wh.pc = "read_loop" /\ Uses("READING")
  /\ \/ wh' = [wh EXCEPT !.pc = "read_cb"]
     \/ wh' = [wh EXCEPT !.pc = "last_cb"]
     \/ wh' = [StopReading(wh) EXCEPT !.pc = "last_cb"]
     \/ wh' = [Clear(StopReading(wh), {"READABLE", "WRITABLE"}) EXCEPT !.pc = "last_cb"]

ReadAgain == wh.pc = "read_cb" /\ wh' = [wh EXCEPT !.pc = "read_loop"]

\* The end of the handler, after the last callback or after 32 turns.
ReadDone ==
  /\ \/ wh.pc = "last_cb"
     \/ wh.pc = "read_loop" /\ ~Uses("READING")
     \/ wh.pc = "read_cb"
  /\ LET h == Returned(wh)
     IN IF Uses("READING") /\ ~Uses("READ_PENDING")
        THEN \E g \in QueueRead(h) : wh' = DecPending(g)
        ELSE wh' = DecPending(h)

\* uv__tcp_write(): even an error is reported through the pending requests.
uv__tcp_write(w) ==
  /\ TcpUser /\ Uses("WRITABLE") /\ w \in wh.todo
  /\ LET h == Register([wh EXCEPT !.write_reqs_pending = @ + 1, !.todo = @ \ {w}])
     IN wh' \in {Given(h, w), Inserted(h, w, TRUE), Inserted(h, w, FALSE)}

\* uv__process_tcp_write_req(), up to the callback and after it: the socket of a
\* handle that closes is kept for its last write.
ProcessWrite(w) ==
  /\ CanHandle(wh, w)
  /\ wh' = CallUser([Unregister(Handling(wh, w)) EXCEPT !.called = @ \cup {w}], "write_cb", w)

WriteDone ==
  /\ wh.pc = "write_cb"
  /\ LET h == [Returned(wh) EXCEPT !.write_reqs_pending = @ - 1]
         last == h.write_reqs_pending = 0
         g == IF last /\ On(h, "CLOSING") THEN [h EXCEPT !.socket = FALSE] ELSE h
     IN wh' = DecPending(IF last /\ h.shutdown_req THEN WantEndgame(g) ELSE g)

\* uv_shutdown()
uv_shutdown ==
  /\ Usable /\ Uses("WRITABLE") /\ ~Uses("SHUTTING")
  /\ LET h == Set(Clear(wh, {"WRITABLE"}), {"SHUTTING"})
     IN wh' = WantEndgame(Register([h EXCEPT !.shutdown_req = TRUE, !.reqs_pending = @ + 1]))

-----------------------------------------------------------------------------
(* Servers.                                                                *)

\* The requests reqs that wait, or are done at once with a socket or without.
QueueAccepts(h, reqs) ==
  {LET those(o) == {a \in reqs : out[a] = o}
   IN [h EXCEPT !.accept_socket = [a \in TcpAccepts |-> @[a] \/ (a \in reqs /\ out[a] # "refused")],
                !.kernel = @ \cup those("waits"), !.pending = @ \cup (reqs \ those("waits")),
                !.ok = (@ \ those("refused")) \cup those("done"),
                !.reqs_pending = @ + Cardinality(reqs)]
   : out \in [reqs -> {"refused", "done", "waits"}]}

\* What uv__tcp_queue_accept() may do
QueueAccept(h, a) == QueueAccepts(h, {a})

\* uv__tcp_listen(): a second call counts the handle again and queues nothing.
uv__tcp_listen ==
  /\ Usable /\ ~Uses("READING") /\ ~Uses("CONNECTION") /\ wh.listens < 2
  /\ "connect" \notin Outstanding(wh) /\ wh.cur # "connect"
  /\ \E b \in IF Uses("BOUND") THEN {wh} ELSE TryBind(wh) :
       IF b.delayed_error THEN wh' = b
       ELSE LET h == IncActive([Set(b, {"LISTENING"}) EXCEPT !.accept_reqs = TRUE, !.listens = @ + 1])
            IN IF wh.accept_reqs THEN wh' = h
               ELSE wh' \in QueueAccepts(h, IF Uses("SINGLE_ACCEPT") THEN {TcpAcceptReqs[1]} ELSE TcpAccepts)

\* uv_tcp_simultaneous_accepts(handle, 0)
uv_tcp_simultaneous_accepts ==
  /\ Usable /\ ~Uses("CONNECTION") /\ ~Uses("SINGLE_ACCEPT")
  /\ wh' = Set(wh, {"SINGLE_ACCEPT"} \cup IF Uses("LISTENING") THEN {"STATE_CHANGING"} ELSE {})

\* uv__tcp_accept(): the socket goes to the client, or is closed; the request is
\* used again, unless the server is about to have only one.
uv__tcp_accept ==
  /\ TcpUser /\ wh.pending_accepts # <<>>
  /\ LET a == Head(wh.pending_accepts)
         h == [wh EXCEPT !.pending_accepts = Tail(@), !.accept_socket[a] = FALSE]
         n == h.processed_accepts + 1
         end == n >= Len(TcpAcceptReqs)
         g == [h EXCEPT !.processed_accepts = IF end THEN 0 ELSE n]
     IN /\ wh.accept_socket[a]                       \* else WSAENOTCONN
        /\ IF Uses("CLOSING") THEN wh' = h
           ELSE IF ~Uses("STATE_CHANGING") THEN wh' \in QueueAccept(h, a)
           ELSE IF end THEN wh' \in {Clear(x, {"STATE_CHANGING"}) : x \in QueueAccept(g, TcpAcceptReqs[1])}
           ELSE wh' = g

\* uv__process_tcp_accept_req(): no socket means that the server stops.
ProcessAccept(a) ==
  /\ CanHandle(wh, a)
  /\ LET h == Handling(wh, a)
         stopped == DecActive(Clear(h, {"LISTENING"}))
         retry == [h EXCEPT !.accept_socket[a] = FALSE]
     IN \/ /\ ~h.accept_socket[a]
           /\ wh' = IF On(h, "LISTENING") THEN CallUser(stopped, "accept_cb", a) ELSE DecPending(h)
        \/ /\ h.accept_socket[a] /\ a \in h.ok
           /\ wh' = CallUser([h EXCEPT !.pending_accepts = <<a>> \o @], "accept_cb", a)
        \/ /\ h.accept_socket[a]                     \* or setsockopt() failed
           /\ IF On(h, "LISTENING") THEN \E g \in QueueAccept(retry, a) : wh' = DecPending(g)
              ELSE wh' = DecPending(retry)

-----------------------------------------------------------------------------
(* The end of both.                                                        *)

\* connection_cb, connect_cb and the callback of a read that failed
CallbackDone ==
  /\ wh.pc \in {"accept_cb", "connect_cb", "end_cb"}
  /\ wh' = DecPending(Returned(wh))

\* uv__tcp_close(); the socket stays for the writes that are under way.
uv__tcp_close ==
  /\ Usable
  /\ LET r == IF Uses("READING") THEN StopReading(wh) ELSE wh
         a == IF Uses("CONNECTION") THEN r
              ELSE [r EXCEPT !.accept_socket = [x \in TcpAccepts |-> FALSE]]
         l == IF Uses("LISTENING") THEN DecActive(Clear(a, {"LISTENING"})) ELSE a
         s == [l EXCEPT !.socket = @ /\ Uses("CONNECTION") /\ l.write_reqs_pending > 0]
         h == HandleClosing(Clear(s, {"READABLE", "WRITABLE"}))
     IN wh' = IF h.reqs_pending = 0 THEN WantEndgame(h) ELSE h

\* uv__tcp_endgame(): the shutdown, once the writes are done, or the close.
uv__tcp_endgame ==
  /\ CanEnd(wh)
  /\ LET h == Ending(wh)
     IN wh' = IF On(h, "CONNECTION") /\ h.shutdown_req /\ h.write_reqs_pending = 0
                THEN CallUser(Unregister(h), "shutdown_cb", "shutdown")
              ELSE IF EndDue(h) THEN HandleClose([h EXCEPT !.accept_reqs = FALSE])
              ELSE h

ShutdownDone ==
  /\ wh.pc = "shutdown_cb"
  /\ wh' = DecPending([Returned(wh) EXCEPT !.shutdown_req = FALSE])

\* The system answers; a closed socket only gives errors.
TcpCompletes ==
  \E r \in wh.kernel, good \in BOOLEAN :
    /\ good => IF r \in TcpAccepts THEN wh.accept_socket[r] ELSE wh.socket
    /\ wh' = Completed(wh, r, good)

TcpWalk == CanWalk(wh) /\ wh' = WalkReqs(wh)

WinTcpNext ==
  \/ uv__tcp_bind \/ uv_tcp_open \/ uv__tcp_xfer_import \/ uv__tcp_connect \/ uv__tcp_read_start \/ uv_read_stop
  \/ (\E w \in TcpWrites : uv__tcp_write(w) \/ ProcessWrite(w))
  \/ uv_shutdown \/ uv__tcp_listen \/ uv_tcp_simultaneous_accepts \/ uv__tcp_accept
  \/ (\E a \in TcpAccepts : ProcessAccept(a))
  \/ ProcessConnect \/ ProcessRead \/ ReadTurn \/ ReadAgain \/ ReadDone \/ WriteDone
  \/ CallbackDone \/ uv__tcp_close \/ uv__tcp_endgame \/ ShutdownDone
  \/ TcpCompletes \/ TcpWalk

\* The request whose handler has not counted it off.
TcpCurrent == IF wh.cur \in {"none", "shutdown"} THEN 0 ELSE 1

\* Through callbacks that stop, close, shut down or start again, a handle counts
\* its requests exactly, the write and the shutdown that is under way have
\* somebody to finish them, and at the end the socket is closed and every write
\* was answered.  A server that listens has an accept under way, or a
\* connection for the user, even while it changes to a single request.
WinTcpSound ==
  /\ HandleSound(wh)
  /\ wh.reqs_pending = Cardinality(Outstanding(wh)) + TcpCurrent + (IF wh.shutdown_req THEN 1 ELSE 0)
  /\ wh.listens < 2 =>
       wh.activecnt = wh.active_reqs + (IF Uses("READING") THEN 1 ELSE 0)
                                     + (IF Uses("LISTENING") THEN 1 ELSE 0)
  /\ wh.shutdown_req /\ wh.write_reqs_pending = 0 /\ wh.pc = "idle" => Uses("ENDGAME_QUEUED")
  /\ Uses("CLOSED") => ~wh.socket /\ wh.called \cup wh.todo = TcpWrites
                       /\ \A a \in TcpAccepts : ~wh.accept_socket[a]
  /\ Uses("READING") /\ wh.pc = "idle" => Uses("READ_PENDING")
  /\ Uses("LISTENING") /\ wh.listens < 2 =>
       \/ wh.pending_accepts # <<>> \/ wh.cur \in TcpAccepts
       \/ Outstanding(wh) \cap TcpAccepts # {}
=============================================================================
