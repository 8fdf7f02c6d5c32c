------------------------------- MODULE Stream -------------------------------
(***************************************************************************)
(* A stream, TCP socket or pipe (unix/stream.c, the connects of unix/tcp.c *)
(* and unix/pipe.c): its queue of writes, the reads, connect, shutdown and *)
(* close.  The second half has the descriptors that a stream accepts.      *)
(*                                                                         *)
(* Everything happens in the thread of the loop, but every callback is     *)
(* user code that may call any operation on the stream, close it included, *)
(* and the code goes on after it.  pc says where that is.  The kernel      *)
(* takes any part of what is written, or nothing, or fails.                *)
(***************************************************************************)
EXTENDS Integers, Sequences, Queues

CONSTANTS
  Size,       \* the bytes of each write in the order of uv_write(); 0 is allowed
  MaxReads    \* bound: reads of one uv__read(); 32

ASSUME StreamAssumption ==
  /\ Size \in Seq(Nat) /\ MaxReads \in Nat \ {0}

Reqs == DOMAIN Size   \* uv_write_t, each used once

VARIABLES
  s,          \* the fields of the uv_stream_t, and its requests
  pc,         \* where uv__stream_io() or uv__stream_destroy() is
  revents,    \* events of this uv__stream_io()
  count,      \* reads left in this uv__read()
  res,        \* result the running read or connect callback was told
  pq,         \* local list of uv__write_callbacks()
  after,      \* what follows these callbacks
  submitted, called, \* history: writes in the order of uv_write(), of callbacks
  listening   \* history: the user started to read and was told of no end

local == <<pc, revents, count, res, pq, after>>
stream_history == <<submitted, called, listening>>
stream_vars == <<s, local, stream_history>>

Stream0 ==
  [fd |-> 0, flags |-> {}, pevents |-> {}, fed |-> 0,
   connect_req |-> 0, delayed_error |-> 0, shutdown_req |-> 0,
   write_queue |-> <<>>, write_completed_queue |-> <<>>, write_queue_size |-> 0,
   left |-> Size, error |-> [w \in Reqs |-> "ok"], bufs |-> [w \in Reqs |-> 0],
   active_reqs |-> 0]

StreamInit ==
  /\ s = Stream0
  /\ pc = "run" /\ revents = {} /\ count = 0 /\ res = "none"
  /\ pq = <<>> /\ after = "none"
  /\ submitted = <<>> /\ called = <<>> /\ listening = 0

\* Code of the user runs: outside of the stream's code, or in a callback of it
StreamUser ==
  pc \in {"run", "read_cb", "eof_cb", "write_cb", "shutdown_cb", "connect_cb"}

Is(f) == f \in s.flags

-----------------------------------------------------------------------------
(* Writing: operators on the record of the stream.                         *)

\* uv__write_req_finish()
Finish(t, w) ==
  [t EXCEPT !.write_queue = Tail(@),
            !.write_completed_queue = Append(@, w),
            !.bufs[w] = IF t.error[w] = "ok" THEN 0 ELSE 1,
            !.fed = 1]

\* uv__write_req_update(): n bytes were taken.
Took(t, w, n) ==
  [t EXCEPT !.left[w] = @ - n, !.write_queue_size = @ - n]

\* Mutant of uv__write: the watcher is stopped before the request is finished,
\* and nobody is told.
write_error_unfed(t) ==
  LET w == Head(t.write_queue) IN
  IF t.write_queue = <<>> THEN {t}
  ELSE {[t EXCEPT !.pevents = @ \cup {"out"}]}
       \cup {Finish(Took(t, w, t.left[w]), w)}
       \cup {[Finish([t EXCEPT !.error[w] = "failed"], w) EXCEPT
                !.pevents = @ \ {"out"}, !.fed = t.fed]}

\* uv__write(): what may become of the stream when it tries the first request.
\* EAGAIN and a part of the bytes wait for POLLOUT; an error ends the request.
uv__write(t) ==
  LET w == Head(t.write_queue) IN
  IF t.write_queue = <<>> THEN {t}
  ELSE {[x EXCEPT !.pevents = @ \cup {"out"}] :
          x \in {t} \cup {Took(t, w, n) : n \in 1..(t.left[w] - 1)}}
       \cup {Finish(Took(t, w, t.left[w]), w)}
       \cup {[Finish([t EXCEPT !.error[w] = "failed"], w) EXCEPT
                !.pevents = @ \ {"out"}]}

\* Mutant of Flushed: the requests go before those that are complete.
flushed_first(t) ==
  [t EXCEPT !.write_queue = <<>>,
            !.write_completed_queue = t.write_queue \o @,
            !.error = [w \in Reqs |->
                         IF w \in In(t.write_queue) THEN "canceled" ELSE @[w]]]

\* uv__stream_flush_write_queue(UV_ECANCELED)
Flushed(t) ==
  [t EXCEPT !.write_queue = <<>>,
            !.write_completed_queue = @ \o t.write_queue,
            !.error = [w \in Reqs |->
                         IF w \in In(t.write_queue) THEN "canceled" ELSE @[w]]]

\* uv__write_callbacks() begins: QUEUE_MOVE of the completed requests
WriteCallbacks(t, next) ==
  /\ s' = [t EXCEPT !.write_completed_queue = <<>>]
  /\ pq' = t.write_completed_queue
  /\ after' = next
  /\ pc' = "callbacks"

-----------------------------------------------------------------------------
(* Operations of user code.                                                *)

\* uv__stream_open(), from uv_tcp_open(), uv_pipe_open() and uv_accept()
uv__stream_open ==
  /\ StreamUser /\ s.fd = 0 /\ ~Is("CLOSING") /\ s.connect_req = 0
  /\ s' = [s EXCEPT !.fd = 1, !.flags = @ \cup {"READABLE", "WRITABLE"}]
  /\ UNCHANGED <<local, stream_history>>

\* uv__tcp_connect(): refused at once is told later, from the loop.
uv__tcp_connect ==
  /\ StreamUser /\ ~Is("CLOSING") /\ s.connect_req = 0 /\ s.fd = 0
  /\ \E refused \in {0, 1} :
       s' = [s EXCEPT !.fd = 1, !.flags = @ \cup {"READABLE", "WRITABLE"},
                      !.connect_req = 1, !.active_reqs = @ + 1,
                      !.delayed_error = refused,
                      !.pevents = @ \cup {"out"},
                      !.fed = IF refused = 1 THEN 1 ELSE @]
  /\ UNCHANGED <<local, stream_history>>

\* uv_pipe_connect() that fails at once: told from the loop too, without a
\* socket or with one that is not open for reading and writing.
PipeConnectFails ==
  /\ StreamUser /\ ~Is("CLOSING") /\ s.connect_req = 0 /\ s.fd = 0
  /\ \E socket \in {0, 1} :
       s' = [s EXCEPT !.fd = socket, !.connect_req = 1, !.active_reqs = @ + 1,
                      !.delayed_error = 1, !.fed = 1]
  /\ UNCHANGED <<local, stream_history>>

uv__read_start ==
  /\ StreamUser /\ ~Is("CLOSING") /\ ~Is("READING") /\ Is("READABLE")
  /\ s' = [s EXCEPT !.flags = (@ \ {"READ_EOF"}) \cup {"READING"},
                    !.pevents = @ \cup {"in"}]
  /\ listening' = 1
  /\ UNCHANGED <<local, submitted, called>>

ReadStop ==
  /\ StreamUser /\ Is("READING")
  /\ s' = [s EXCEPT !.flags = @ \ {"READING"}, !.pevents = @ \ {"in"}]
  /\ listening' = 0
  /\ UNCHANGED <<local, submitted, called>>

\* uv_write(), uv_write2(): during a connect the request waits for its end; an
\* empty queue is written at once.
uv_write2(w) ==
  /\ StreamUser /\ s.fd = 1 /\ Is("WRITABLE") /\ w = Len(submitted) + 1
  /\ LET t == [s EXCEPT !.write_queue_size = @ + Size[w],
                        !.write_queue = Append(@, w),
                        !.active_reqs = @ + 1, !.bufs[w] = 1]
     IN IF s.connect_req = 1 THEN s' = t
        ELSE IF s.write_queue_size = 0 THEN s' \in uv__write(t)
        ELSE s' = [t EXCEPT !.pevents = @ \cup {"out"}]
  /\ submitted' = Append(submitted, w)
  /\ UNCHANGED <<local, called, listening>>

uv_shutdown ==
  /\ StreamUser /\ Is("WRITABLE")
  /\ {"SHUT", "SHUTTING", "CLOSING"} \cap s.flags = {}
  /\ s' = [s EXCEPT !.shutdown_req = 1, !.active_reqs = @ + 1,
                    !.flags = (@ \ {"WRITABLE"}) \cup {"SHUTTING"},
                    !.pevents = @ \cup {"out"}]
  /\ UNCHANGED <<local, stream_history>>

\* uv_close(), uv__stream_close(): uv__io_close() takes the watcher out of the
\* list of pending ones.
uv__stream_close ==
  /\ StreamUser /\ ~Is("CLOSING")
  /\ s' = [s EXCEPT !.flags = (@ \ {"READING", "READABLE", "WRITABLE"}) \cup {"CLOSING"},
                    !.pevents = {}, !.fed = 0, !.fd = 0]
  /\ listening' = 0
  /\ UNCHANGED <<local, submitted, called>>

-----------------------------------------------------------------------------
(* uv__stream_io() and uv__stream_connect().                               *)

Enter(t, ev) ==
  /\ revents' = ev
  /\ IF t.connect_req = 0 /\ ev \cap {"in", "err", "hup"} # {}
     THEN /\ s' = [t EXCEPT !.flags = @ \ {"READ_PARTIAL"}]
          /\ pc' = "read" /\ count' = MaxReads
     ELSE /\ s' = t /\ count' = 0
          /\ pc' = IF t.connect_req = 1 THEN "connect" ELSE "write"
  /\ UNCHANGED <<res, pq, after, stream_history>>

\* uv__stream_io() returns.
Leave == pc' = "run" /\ revents' = {} /\ count' = 0 /\ res' = "none"

\* The poll reports what was asked for, errors and hang-ups always.
StreamEvent ==
  /\ pc = "run" /\ s.pevents # {}
  /\ \E ev \in (SUBSET (s.pevents \cup {"err", "hup"})) \ {{}} : Enter(s, ev)

\* uv__run_pending()
StreamFed ==
  /\ pc = "run" /\ s.fed = 1
  /\ Enter([s EXCEPT !.fed = 0], {"out"})

\* The connect is still under way, or its end is told.
ConnectWait ==
  /\ pc = "connect" /\ s.delayed_error = 0
  /\ Leave
  /\ UNCHANGED <<s, pq, after, stream_history>>

ConnectDone ==
  /\ pc = "connect"
  /\ \E err \in IF s.delayed_error = 1 THEN {"failed"} ELSE {"ok", "failed"} :
       /\ s' = [s EXCEPT !.connect_req = 0, !.delayed_error = 0,
                         !.active_reqs = @ - 1,
                         !.pevents = IF err # "ok" \/ s.write_queue = <<>>
                                     THEN @ \ {"out"} ELSE @]
       /\ res' = err
  /\ pc' = "connect_cb"
  /\ UNCHANGED <<revents, count, pq, after, stream_history>>

ConnectReturn ==
  /\ pc = "connect_cb"
  /\ IF s.fd = 1 /\ res # "ok"
     THEN WriteCallbacks(Flushed(s), "return") /\ UNCHANGED <<revents, count, res>>
     ELSE Leave /\ UNCHANGED <<s, pq, after>>
  /\ UNCHANGED stream_history

\* uv__read(): one read, or the end of the loop
ReadMore == Is("READING") /\ count > 0

ReadNext ==
  /\ pc = "read" /\ ReadMore
  /\ \E r \in {"nobufs", "again", "failed", "eof", "data", "partial"} :
       /\ res' = r
       /\ s' = [s EXCEPT
                  !.flags = IF r = "failed" THEN @ \ {"READABLE", "WRITABLE"}
                            ELSE IF r = "eof" THEN (@ \ {"READING"}) \cup {"READ_EOF"}
                            ELSE @,
                  !.pevents = IF r = "eof" THEN @ \ {"in"}
                              ELSE IF r = "again" THEN @ \cup {"in"} ELSE @]
       /\ listening' = IF r \in {"eof", "failed"} THEN 0 ELSE listening
  /\ pc' = "read_cb" /\ count' = count - 1
  /\ UNCHANGED <<revents, pq, after, submitted, called>>

\* What uv__read() does after read_cb: it goes on after a full buffer only.
ReadReturn ==
  /\ pc = "read_cb"
  /\ s' = IF res = "partial" THEN [s EXCEPT !.flags = @ \cup {"READ_PARTIAL"}]
          ELSE IF res = "failed" /\ Is("READING")
          THEN [s EXCEPT !.flags = @ \ {"READING"}, !.pevents = @ \ {"in"}]
          ELSE s
  /\ listening' = IF res = "failed" THEN 0 ELSE listening
  /\ pc' = IF res = "data" THEN "read" ELSE "hup"
  /\ UNCHANGED <<revents, count, res, pq, after, submitted, called>>

ReadEnd ==
  /\ pc = "read" /\ ~ReadMore
  /\ pc' = "hup"
  /\ UNCHANGED <<s, revents, count, res, pq, after, stream_history>>

\* Mutant of HupEof: the user may have stopped reading in the callback.
HupEofAlways == "hup" \in revents /\ Is("READ_PARTIAL") /\ ~Is("READ_EOF")

HupEof ==
  "hup" \in revents /\ {"READING", "READ_PARTIAL"} \subseteq s.flags /\ ~Is("READ_EOF")

\* The stream may have been closed by a callback.
WriteOrLeave ==
  IF s.fd = 1 /\ revents \cap {"out", "err", "hup"} # {}
  THEN pc' = "write" /\ revents' = {"out"} /\ count' = 0 /\ res' = "none"
  ELSE Leave

\* After a part of a buffer a hang-up is the end: uv__stream_eof().
AfterRead ==
  /\ pc = "hup"
  /\ IF s.fd = 1 /\ HupEof
     THEN /\ s' = [s EXCEPT !.flags = (@ \ {"READING"}) \cup {"READ_EOF"},
                            !.pevents = @ \ {"in"}]
          /\ pc' = "eof_cb" /\ listening' = 0
          /\ count' = 0 /\ res' = "eof" /\ UNCHANGED revents
     ELSE WriteOrLeave /\ UNCHANGED <<s, listening>>
  /\ UNCHANGED <<pq, after, submitted, called>>

EofReturn ==
  /\ pc = "eof_cb"
  /\ WriteOrLeave
  /\ UNCHANGED <<s, pq, after, stream_history>>

WritePart ==
  /\ pc = "write"
  /\ \E t \in uv__write(s) : WriteCallbacks(t, "drain")
  /\ UNCHANGED <<revents, count, res, stream_history>>

\* Mutant of CallbackNext: the bytes of a failed request stay in the count.
CallbackKeepsSize ==
  /\ pc = "callbacks" /\ pq # <<>>
  /\ s' = [s EXCEPT !.active_reqs = @ - 1, !.bufs[Head(pq)] = 0]
  /\ pq' = Tail(pq) /\ called' = Append(called, Head(pq))
  /\ pc' = "write_cb"
  /\ UNCHANGED <<revents, count, res, after, submitted, listening>>

\* uv__write_callbacks(): what a failed request did not write leaves the count.
CallbackNext ==
  LET w == Head(pq) IN
  /\ pc = "callbacks" /\ pq # <<>>
  /\ s' = [s EXCEPT !.active_reqs = @ - 1,
                    !.write_queue_size = @ - (IF s.bufs[w] = 1 THEN s.left[w] ELSE 0),
                    !.bufs[w] = 0]
  /\ pq' = Tail(pq) /\ called' = Append(called, w)
  /\ pc' = "write_cb"
  /\ UNCHANGED <<revents, count, res, after, submitted, listening>>

WriteReturn ==
  /\ pc = "write_cb"
  /\ pc' = "callbacks"
  /\ UNCHANGED <<s, revents, count, res, pq, after, stream_history>>

\* uv__drain(), when the queue is empty after the callbacks
CallbacksEnd ==
  /\ pc = "callbacks" /\ pq = <<>> /\ after # "destroy"
  /\ IF after = "drain" /\ s.write_queue = <<>>
     THEN LET t == [s EXCEPT !.pevents = @ \ {"out"}] IN
          IF Is("SHUTTING") /\ ~Is("CLOSING") /\ ~Is("SHUT")
          THEN /\ \E ok \in BOOLEAN :
                    s' = [t EXCEPT !.shutdown_req = 0, !.active_reqs = @ - 1,
                                   !.flags = (@ \ {"SHUTTING"}) \cup
                                             (IF ok THEN {"SHUT"} ELSE {})]
               /\ pc' = "shutdown_cb" /\ UNCHANGED <<revents, count, res>>
          ELSE s' = t /\ Leave
     ELSE Leave /\ UNCHANGED s
  /\ after' = "none"
  /\ UNCHANGED <<pq, stream_history>>

ShutdownReturn ==
  /\ pc = "shutdown_cb"
  /\ Leave
  /\ UNCHANGED <<s, pq, after, stream_history>>

-----------------------------------------------------------------------------
(* uv__finish_close() and uv__stream_destroy().  The stream is closed, so  *)
(* whatever user code calls in these callbacks returns an error.           *)

StreamFinishClose ==
  /\ pc = "run" /\ Is("CLOSING") /\ ~Is("CLOSED")
  /\ LET t == [s EXCEPT !.flags = @ \cup {"CLOSED"}, !.connect_req = 0,
                        !.active_reqs = @ - s.connect_req]
     IN WriteCallbacks(Flushed(t), "destroy")
  /\ UNCHANGED <<revents, count, res, stream_history>>

DestroyEnd ==
  /\ pc = "callbacks" /\ pq = <<>> /\ after = "destroy"
  /\ s' = [s EXCEPT !.shutdown_req = 0, !.active_reqs = @ - s.shutdown_req]
  /\ pc' = "closed" /\ after' = "none"
  /\ UNCHANGED <<revents, count, res, pq, stream_history>>

-----------------------------------------------------------------------------
User ==
  \/ uv__stream_open \/ uv__tcp_connect \/ PipeConnectFails
  \/ uv__read_start \/ ReadStop \/ uv_shutdown \/ uv__stream_close
  \/ \E w \in Reqs : uv_write2(w)

Callbacks ==
  \/ ConnectReturn \/ ReadReturn \/ EofReturn \/ WriteReturn \/ ShutdownReturn

Io ==
  \/ ConnectWait \/ ConnectDone \/ ReadNext \/ ReadEnd \/ AfterRead \/ WritePart
  \/ CallbackNext \/ CallbacksEnd \/ DestroyEnd

StreamNext == User \/ Callbacks \/ Io \/ StreamEvent \/ StreamFed \/ StreamFinishClose

StreamSpec == StreamInit /\ [][StreamNext]_stream_vars

-----------------------------------------------------------------------------
(* Properties.                                                             *)

\* The sum of a list of numbers
Total(h) ==
  LET sum[i \in 0..Len(h)] == IF i = 0 THEN 0 ELSE sum[i - 1] + h[i] IN sum[Len(h)]

\* The requests that have not been called back, and what they hold
InFlight == pq \o s.write_completed_queue \o s.write_queue
Holding ==
  [i \in 1..Len(InFlight) |->
     IF s.bufs[InFlight[i]] = 1 THEN s.left[InFlight[i]] ELSE 0]

\* write_queue_size is what the requests that have not been called back still
\* hold, through partial writes, errors, cancellations and the callbacks that
\* write again; so a queue that looks empty to uv_write2() and uv_try_write()
\* holds no bytes.  The loop's count of requests is exact too, and a close with
\* a connect, writes and a shutdown under way leaves none behind.
RequestsExact ==
  /\ s.write_queue_size = Total(Holding)
  /\ s.active_reqs = s.connect_req + s.shutdown_req + Len(InFlight)
  /\ pc = "closed" => s.active_reqs = 0 /\ In(called) = In(submitted)

\* Write callbacks come once each, in the order of the uv_write() calls, and
\* one that reports success means that every byte was taken.
WritesInOrder ==
  /\ called = SubSeq(submitted, 1, Len(called))
  /\ \A w \in In(called) : s.error[w] = "ok" => s.left[w] = 0

\* Between two events nothing waits for an event nobody asked for: a queued
\* write or an unfinished connect has POLLOUT or a place among the pending
\* watchers, and a finished write whose callback is due has that place.
NotStranded ==
  pc = "run" /\ ~Is("CLOSING") =>
    /\ s.write_queue # <<>> \/ s.connect_req = 1 => "out" \in s.pevents \/ s.fed = 1
    /\ s.write_completed_queue # <<>> => s.fed = 1
    /\ Is("READING") => "in" \in s.pevents

\* The write, connect and shutdown requests of a stream through partial writes,
\* errors, callbacks that write or close, and the close itself.
StreamSound == RequestsExact /\ WritesInOrder /\ NotStranded

\* After uv_read_stop(), uv_close(), an error or the end of the file there is
\* no read callback until uv_read_start(), whatever else the event reported.
ReadQuiet ==
  [][pc' # pc /\ pc' \in {"read_cb", "eof_cb"} => listening = 1]_stream_vars

-----------------------------------------------------------------------------
(***************************************************************************)
(* How a stream hands over descriptors (unix/stream.c, the listen calls of *)
(* unix/tcp.c and unix/pipe.c): a listening socket, whose connections      *)
(* uv__server_io() accepts one at a time, and an IPC pipe, over which      *)
(* several descriptors may come with one read.  Both keep the first in     *)
(* accepted_fd, the pipe queues the others, and uv_accept() gives them out *)
(* in a callback or at any later time.                                     *)
(***************************************************************************)
CONSTANT MaxFds   \* bound: descriptors that come in

VARIABLES
  srv,        \* the fields of the uv_stream_t, and emfile_fd of its loop
  srv_pc,     \* where uv__server_io() or uv__read() is
  arrived,    \* history: number of descriptors that came in
  accepted,   \* history: descriptors given to a client, in order
  closed_fds  \* history: descriptors that were closed

srv_history == <<arrived, accepted, closed_fds>>
srv_vars == <<srv, srv_pc, srv_history>>

\* A descriptor is its place in the order of arrival; 0 is -1.
ServerInit ==
  /\ srv \in [ipc : BOOLEAN, fd : {1}, flags : {{}}, pevents : {{}},
              accepted_fd : {0}, queued_fds : {<<>>}, emfile_fd : {0, 1},
              refused : {0}]
  /\ srv_pc = "idle"
  /\ arrived = 0 /\ accepted = <<>> /\ closed_fds = {}

SrvIs(f) == f \in srv.flags
SrvUser == srv_pc \in {"idle", "connection_cb", "read_cb"}

\* uv_listen(), uv__tcp_listen(), uv__pipe_listen(): not for an IPC pipe
uv_listen ==
  /\ SrvUser /\ ~srv.ipc /\ ~SrvIs("CLOSING") /\ ~SrvIs("LISTENING")
  /\ srv' = [srv EXCEPT !.flags = @ \cup {"LISTENING"}, !.pevents = {"in"}]
  /\ UNCHANGED <<srv_pc, srv_history>>

\* uv_read_start() and uv_read_stop() of the pipe, as in module Stream
IpcRead(on) ==
  /\ SrvUser /\ srv.ipc /\ ~SrvIs("CLOSING") /\ SrvIs("READING") # on
  /\ srv' = [srv EXCEPT !.flags = IF on THEN @ \cup {"READING"} ELSE @ \ {"READING"},
                        !.pevents = IF on THEN {"in"} ELSE {}]
  /\ UNCHANGED <<srv_pc, srv_history>>

-----------------------------------------------------------------------------
(* uv_accept()                                                             *)

NextQueued(t) ==
  [t EXCEPT !.accepted_fd = Head(t.queued_fds), !.queued_fds = Tail(@)]

\* What follows: the next of the queue, or the watcher runs again, which it
\* does only when this accept succeeded.
Accepted(t, err) ==
  IF t.queued_fds # <<>> THEN NextQueued(t)
  ELSE [t EXCEPT !.accepted_fd = 0,
                 !.pevents = IF err THEN @ ELSE {"in"},
                 !.refused = IF err THEN 1 ELSE @]

\* The client takes the descriptor, or it is closed because the client cannot.
uv_accept ==
  /\ SrvUser /\ srv.accepted_fd # 0
  /\ \E err \in BOOLEAN :
       /\ srv' = Accepted(srv, err)
       /\ IF err THEN /\ closed_fds' = closed_fds \cup {srv.accepted_fd}
                      /\ UNCHANGED accepted
                 ELSE /\ accepted' = Append(accepted, srv.accepted_fd)
                      /\ UNCHANGED closed_fds
  /\ UNCHANGED <<srv_pc, arrived>>

\* The descriptors the stream holds
Held(t) == ({t.accepted_fd} \ {0}) \cup In(t.queued_fds)

\* uv_close(), uv__stream_close(): they are closed with it.
StreamClose ==
  /\ SrvUser /\ ~SrvIs("CLOSING")
  /\ srv' = [srv EXCEPT !.flags = {"CLOSING"}, !.pevents = {}, !.fd = 0,
                        !.accepted_fd = 0, !.queued_fds = <<>>]
  /\ closed_fds' = closed_fds \cup Held(srv)
  /\ UNCHANGED <<srv_pc, arrived, accepted>>

-----------------------------------------------------------------------------
(* uv__server_io()                                                         *)

ServerEvent ==
  /\ srv_pc = "idle" /\ SrvIs("LISTENING") /\ srv.pevents # {}
  /\ srv_pc' = "accept"
  /\ UNCHANGED <<srv, srv_history>>

\* accept() returns a connection, and the callback is told.
AcceptNext ==
  /\ srv_pc = "accept" /\ srv.fd = 1 /\ arrived < MaxFds
  /\ arrived' = arrived + 1
  /\ srv' = [srv EXCEPT !.accepted_fd = arrived + 1]
  /\ srv_pc' = "connection_cb"
  /\ UNCHANGED <<accepted, closed_fds>>

\* EAGAIN ends the loop, and so does a close by the callback.
AcceptEnd ==
  /\ srv_pc = "accept"
  /\ srv_pc' = "idle"
  /\ UNCHANGED <<srv, srv_history>>

\* EMFILE, ENFILE: uv__emfile_trick() closes the spare descriptor, accepts and
\* closes the n connections that wait, and ends with EAGAIN or another error;
\* without the spare one, or with another error, the callback is told.
AcceptFails ==
  /\ srv_pc = "accept" /\ srv.fd = 1
  /\ \/ /\ srv_pc' = "connection_cb"
        /\ UNCHANGED <<srv, arrived, closed_fds>>
     \/ /\ srv.emfile_fd = 1
        /\ \E n \in 0..(MaxFds - arrived) :
             /\ arrived' = arrived + n
             /\ closed_fds' = closed_fds \cup (arrived + 1)..(arrived + n)
        /\ \E reopened \in {0, 1} : srv' = [srv EXCEPT !.emfile_fd = reopened]
        /\ srv_pc' \in {"idle", "connection_cb"}
  /\ UNCHANGED accepted

\* Mutant of Unclaimed: the watcher runs on.
UnclaimedPolls(t) == t

\* The callback left the connection for later: no other is accepted until then.
Unclaimed(t) == [t EXCEPT !.pevents = {}]

ConnectionReturn ==
  /\ srv_pc = "connection_cb"
  /\ IF srv.accepted_fd # 0 THEN srv' = Unclaimed(srv) /\ srv_pc' = "idle"
     ELSE UNCHANGED srv /\ srv_pc' = "accept"
  /\ UNCHANGED srv_history

-----------------------------------------------------------------------------
(* uv__read() of an IPC pipe: uv__stream_recv_cmsg(), uv__stream_queue_fd() *)

\* n descriptors came; after the first k there is no memory for the queue, and
\* the others are closed.
IpcReceive ==
  /\ srv_pc = "idle" /\ srv.ipc /\ "in" \in srv.pevents /\ SrvIs("READING")
  /\ \E n \in 0..(MaxFds - arrived) : \E k \in 0..n :
       LET new == [i \in 1..k |-> arrived + i]
           first == srv.accepted_fd = 0 /\ k > 0
       IN /\ n > 0 /\ srv.accepted_fd = 0 => k > 0
          /\ srv' = [srv EXCEPT !.accepted_fd = IF first THEN new[1] ELSE @,
                                !.queued_fds = @ \o (IF first THEN Tail(new) ELSE new)]
          /\ arrived' = arrived + n
          /\ closed_fds' = closed_fds \cup (arrived + k + 1)..(arrived + n)
  /\ srv_pc' = "read_cb"
  /\ UNCHANGED accepted

IpcReturn ==
  /\ srv_pc = "read_cb"
  /\ srv_pc' = "idle"
  /\ UNCHANGED <<srv, srv_history>>

-----------------------------------------------------------------------------
ServerNext ==
  \/ uv_listen \/ (\E on \in BOOLEAN : IpcRead(on)) \/ uv_accept \/ StreamClose
  \/ ServerEvent \/ AcceptNext \/ AcceptEnd \/ AcceptFails \/ ConnectionReturn
  \/ IpcReceive \/ IpcReturn

ServerSpec == ServerInit /\ [][ServerNext]_srv_vars

-----------------------------------------------------------------------------
(* Properties.                                                             *)

\* No descriptor that came in leaks and none is used twice: it was given to a
\* client, closed, or is held by the stream, and they are given out in the
\* order in which they came, through failed accepts, a queue that cannot grow
\* and a close with descriptors unclaimed.
FdsConserved ==
  LET given == In(accepted) IN
  /\ given \cup closed_fds \cup Held(srv) = 1..arrived
  /\ given \cap closed_fds = {} /\ (given \cup closed_fds) \cap Held(srv) = {}
  /\ \A i, j \in 1..Len(accepted) : i < j => accepted[i] < accepted[j]
  /\ SrvIs("CLOSING") => Held(srv) = {}

\* Descriptors are conserved; uv__server_io() is entered and goes round its
\* loop only with accepted_fd free (its two assertions), so no connection is
\* overwritten; and a server that is not polled has one that its user may
\* claim, which makes it poll again, unless an uv_accept() failed.
ServerSound ==
  /\ FdsConserved
  /\ SrvIs("LISTENING") =>
       /\ srv_pc = "accept" => srv.accepted_fd = 0
       /\ srv_pc = "idle" /\ srv.pevents # {} => srv.accepted_fd = 0
       /\ srv_pc = "idle" /\ srv.pevents = {} => srv.accepted_fd # 0 \/ srv.refused = 1

\* A stream, and one that hands over descriptors, keep their promises.
StreamsSound == StreamSound /\ ServerSound
=============================================================================
