--------------------------------- MODULE Udp ---------------------------------
(***************************************************************************)
(* A UDP handle (unix/udp.c and the checks of uv-common.c): its queues of  *)
(* sends, the reception, bind and close.                                   *)
(*                                                                         *)
(* One thread; every callback is user code that may call any operation on  *)
(* the handle, and udp_pc says where uv__udp_io() or                       *)
(* uv__udp_finish_close() goes on after it.                                *)
(***************************************************************************)
EXTENDS Integers, Sequences, FiniteSetsExt, Queues

CONSTANTS
  SendEnd,    \* where each datagram ends, in the order of uv_udp_send(), among the
              \* bytes of all of them; one without bytes ends where it begins
  MmsgWidth,  \* bound: UV__MMSG_MAXWIDTH, 20
  MaxRecv     \* bound: datagrams of one uv__udp_recvmsg(), 32

ASSUME UdpAssumption ==
  /\ SendEnd \in Seq(Nat) /\ \A i, j \in DOMAIN SendEnd : i <= j => SendEnd[i] <= SendEnd[j]
  /\ MmsgWidth \in Nat \ {0} /\ MaxRecv \in Nat \ {0}

Sends == DOMAIN SendEnd   \* uv_udp_send_t, each used once

\* The bytes of the first n datagrams, and of the datagram r
Bytes(n) == IF n = 0 THEN 0 ELSE SendEnd[n]
SendSize(r) == Bytes(r) - Bytes(r - 1)

VARIABLES
  u,          \* the fields of the uv_udp_t, and the status of its requests
  udp_pc,     \* where the code is
  udp_revents,
  udp_count,  \* datagrams left to this uv__udp_recvmsg()
  chunks,     \* callbacks left of the datagrams of one recvmmsg()
  nread,      \* what the last receive returned
  udp_pass,   \* history: requests sent when the last pass over callbacks began
  udp_sent, udp_called  \* history: requests in the order of send, of callback

udp_local == <<udp_pc, udp_revents, udp_count, chunks, nread, udp_pass>>
udp_history == <<udp_sent, udp_called>>
udp_vars == <<u, udp_local, udp_history>>

\* mmsg: sendmmsg() and recvmmsg() are available, recvmmsg() was asked for.
UdpInit ==
  /\ u \in [fd : {0}, flags : {{}}, pevents : {{}}, fed : {0}, active : {0},
            recv_cb : {0}, write_queue : {<<>>}, write_completed_queue : {<<>>},
            send_queue_size : {0}, send_queue_count : {0},
            status : {[r \in Sends |-> "none"]}, mmsg : BOOLEAN]
  /\ udp_pc = "idle" /\ udp_revents = {} /\ udp_count = 0
  /\ chunks = 0 /\ nread = "none" /\ udp_pass = 0
  /\ udp_sent = <<>> /\ udp_called = <<>>

UdpIs(f) == f \in u.flags

UdpUser == udp_pc \in {"idle", "recv_cb", "send_cb"} /\ ~UdpIs("CLOSING")

-----------------------------------------------------------------------------
(* Sending: operators on the record of the handle.                         *)

\* The first n requests leave the queue, k of them sent and the others failed.
Complete(t, k, n) ==
  [t EXCEPT !.write_queue = SubSeq(@, n + 1, Len(@)),
            !.write_completed_queue = @ \o SubSeq(t.write_queue, 1, n),
            !.status = [r \in Sends |->
               IF r \in In(SubSeq(t.write_queue, 1, k)) THEN "ok"
               ELSE IF r \in In(SubSeq(t.write_queue, k + 1, n)) THEN "failed"
               ELSE @[r]]]

Feed(t) == [t EXCEPT !.fed = 1]

\* uv__udp_sendmmsg(): batches are sent until the queue is empty, the kernel
\* takes no more (the watcher is not fed then), or a batch fails as a whole.
uv__udp_sendmmsg(t) ==
  LET len == Len(t.write_queue)
      took == IF t.fd = 1 THEN 0..(len - 1) ELSE {0}
  IN IF len = 0 THEN {t}
     ELSE (IF t.fd = 1
           THEN {Feed(Complete(t, len, len))} \cup {Complete(t, k, k) : k \in took}
           ELSE {})
          \cup {Feed(Complete(t, k, Min({k + MmsgWidth, len}))) : k \in took}

\* Without sendmmsg() each of the first n requests is sent alone, or fails.
SendAlone(t, n, bad) ==
  IF n = 0 THEN t
  ELSE Feed([Complete(t, n, n) EXCEPT
               !.status = [r \in Sends |->
                  IF r \in bad \cap In(SubSeq(t.write_queue, 1, n)) THEN "failed" ELSE @[r]]])

\* uv__udp_sendmsg(): a socket that is closed fails them all.
uv__udp_sendmsg(t) ==
  LET sub == t.write_queue IN
  IF t.mmsg THEN uv__udp_sendmmsg(t)
  ELSE IF t.fd = 1 THEN {SendAlone(t, n, bad) : n \in 0..Len(sub), bad \in SUBSET In(sub)}
  ELSE {SendAlone(t, Len(sub), In(sub))}

-----------------------------------------------------------------------------
(* Operations of user code.                                                *)

\* uv__udp_bind(), uv__udp_maybe_deferred_bind(), uv_udp_open(): the socket
\* stays when bind() fails after it was made.
uv__udp_bind ==
  /\ UdpUser /\ u.fd = 0
  /\ u' = [u EXCEPT !.fd = 1]
  /\ UNCHANGED <<udp_local, udp_history>>

\* uv__udp_connect() and uv__udp_disconnect(), which fail or not
uv_udp_connect ==
  /\ UdpUser /\ ~UdpIs("CONNECTED")
  /\ u' = [u EXCEPT !.fd = 1, !.flags = @ \cup {"CONNECTED"}]
  /\ UNCHANGED <<udp_local, udp_history>>

uv__udp_disconnect ==
  /\ UdpUser /\ UdpIs("CONNECTED")
  /\ u' = [u EXCEPT !.flags = @ \ {"CONNECTED"}]
  /\ UNCHANGED <<udp_local, udp_history>>

\* Mutant of SendNow: a send from a send callback is tried at once.
SendInCallback == u.send_queue_count = 0

\* The condition of uv__udp_send(): nothing is queued or in the callbacks.
SendNow == u.send_queue_count = 0 /\ ~UdpIs("PROCESSING")

\* uv__udp_send(); uv__udp_try_send() changes nothing but the socket.
uv__udp_send(r) ==
  /\ UdpUser /\ r = Len(udp_sent) + 1
  /\ LET t == [u EXCEPT !.fd = 1, !.active = 1,
                        !.send_queue_size = @ + SendSize(r),
                        !.send_queue_count = @ + 1,
                        !.write_queue = Append(@, r)]
         Out(x) == [x EXCEPT !.pevents = @ \cup {"out"}]
     IN IF SendNow
        THEN \E x \in uv__udp_sendmsg(t) :
               u' = IF x.write_queue = <<>> THEN x ELSE Out(x)
        ELSE u' = Out(t)
  /\ udp_sent' = Append(udp_sent, r)
  /\ UNCHANGED <<udp_local, udp_called>>

uv__udp_recv_start ==
  /\ UdpUser /\ "in" \notin u.pevents
  /\ u' = [u EXCEPT !.fd = 1, !.recv_cb = 1, !.active = 1, !.pevents = @ \cup {"in"}]
  /\ UNCHANGED <<udp_local, udp_history>>

uv__udp_recv_stop ==
  /\ UdpUser /\ u.recv_cb = 1
  /\ u' = [u EXCEPT !.recv_cb = 0, !.pevents = @ \ {"in"},
                    !.active = IF "out" \in u.pevents THEN @ ELSE 0]
  /\ UNCHANGED <<udp_local, udp_history>>

\* uv_close(), uv__udp_close(): recv_cb stays, the pending watcher is dropped.
uv__udp_close ==
  /\ UdpUser
  /\ u' = [u EXCEPT !.flags = @ \cup {"CLOSING"}, !.pevents = {}, !.fed = 0,
                    !.active = 0, !.fd = 0]
  /\ UNCHANGED <<udp_local, udp_history>>

-----------------------------------------------------------------------------
(* uv__udp_run_completed()                                                 *)

\* A pass begins: from uv__udp_io() or uv__udp_finish_close().
RunCompleted(t) ==
  /\ u' = [t EXCEPT !.flags = @ \cup {"PROCESSING"}]
  /\ udp_pc' = "completed" /\ udp_pass' = Len(udp_sent)

RunNext ==
  LET r == Head(u.write_completed_queue) IN
  /\ udp_pc = "completed" /\ u.write_completed_queue # <<>>
  /\ u' = [u EXCEPT !.write_completed_queue = Tail(@), !.send_queue_count = @ - 1,
                    !.send_queue_size = @ - SendSize(r)]
  /\ udp_called' = Append(udp_called, r)
  /\ udp_pc' = "send_cb"
  /\ UNCHANGED <<udp_revents, udp_count, chunks, nread, udp_pass, udp_sent>>

SendReturn ==
  /\ udp_pc = "send_cb"
  /\ udp_pc' = "completed"
  /\ UNCHANGED <<u, udp_revents, udp_count, chunks, nread, udp_pass, udp_history>>

\* The end of a pass: POLLOUT stays while the callbacks sent more.
RunDone(t) ==
  LET d == [t EXCEPT !.flags = @ \ {"PROCESSING"}] IN
  IF t.write_queue # <<>> THEN d
  ELSE [d EXCEPT !.pevents = @ \ {"out"},
                 !.active = IF "in" \in t.pevents THEN @ ELSE 0]

\* In uv__udp_finish_close() the close callback follows.
RunEnd ==
  /\ udp_pc = "completed" /\ u.write_completed_queue = <<>>
  /\ u' = IF udp_revents = {"close"}
          THEN [RunDone(u) EXCEPT !.flags = @ \cup {"CLOSED"}, !.recv_cb = 0]
          ELSE RunDone(u)
  /\ udp_pc' = "idle" /\ udp_revents' = {}
  /\ UNCHANGED <<udp_count, chunks, nread, udp_pass, udp_history>>

-----------------------------------------------------------------------------
(* uv__udp_io(), uv__udp_recvmsg(), uv__udp_recvmmsg()                     *)

\* The poll reports what was asked for.
UdpEvent ==
  /\ udp_pc = "idle"
  /\ \E ev \in (SUBSET u.pevents) \ {{}} :
       /\ udp_revents' = ev
       /\ udp_pc' = IF "in" \in ev THEN "recv" ELSE "out"
       /\ udp_count' = IF "in" \in ev THEN MaxRecv ELSE 0
  /\ UNCHANGED <<u, chunks, nread, udp_pass, udp_history>>

\* uv__run_pending()
UdpFed ==
  /\ udp_pc = "idle" /\ u.fed = 1
  /\ u' = [u EXCEPT !.fed = 0]
  /\ udp_revents' = {"out"} /\ udp_pc' = "out"
  /\ UNCHANGED <<udp_count, chunks, nread, udp_pass, udp_history>>

\* One receive and its callback.  recvmmsg() returns up to MmsgWidth datagrams,
\* each told on its own, and a last callback gives the buffer back; it returns
\* none for a buffer that is too short, and count stays as it is.
Recv ==
  /\ udp_pc = "recv"
  /\ \/ /\ nread' \in {"nobufs", "again", "failed"}
        /\ chunks' = 0 /\ UNCHANGED udp_count
     \/ /\ u.mmsg /\ nread' = "zero" /\ chunks' = 0 /\ UNCHANGED udp_count
     \/ /\ u.mmsg /\ nread' = "data"
        /\ \E n \in 1..MmsgWidth : chunks' = n /\ udp_count' = udp_count - n
     \/ /\ ~u.mmsg /\ nread' = "data"
        /\ chunks' = 0 /\ udp_count' = udp_count - 1
  /\ udp_pc' = "recv_cb"
  /\ UNCHANGED <<u, udp_revents, udp_pass, udp_history>>

\* The test at the end of the loop of uv__udp_recvmsg()
RecvAgain ==
  nread \in {"data", "zero"} /\ udp_count > 0 /\ u.fd = 1 /\ u.recv_cb = 1

RecvReturn ==
  /\ udp_pc = "recv_cb"
  /\ IF chunks > 0 /\ u.recv_cb = 1
     THEN chunks' = chunks - 1 /\ UNCHANGED udp_pc
     ELSE chunks' = 0 /\ udp_pc' = IF RecvAgain THEN "recv" ELSE "out"
  /\ UNCHANGED <<u, udp_revents, udp_count, nread, udp_pass, udp_history>>

\* The POLLOUT part of uv__udp_io().  It does not look whether a callback of
\* the reception closed the handle.
SendPart ==
  /\ udp_pc = "out"
  /\ IF "out" \in udp_revents
     THEN /\ \E t \in uv__udp_sendmsg(u) : RunCompleted(t)
          /\ UNCHANGED udp_revents
     ELSE u' = u /\ udp_pc' = "idle" /\ udp_revents' = {} /\ UNCHANGED udp_pass
  /\ UNCHANGED <<udp_count, chunks, nread, udp_history>>

\* uv__finish_close() and uv__udp_finish_close()
uv__udp_finish_close ==
  /\ udp_pc = "idle" /\ UdpIs("CLOSING") /\ ~UdpIs("CLOSED")
  /\ RunCompleted(
       [u EXCEPT !.write_queue = <<>>,
                 !.write_completed_queue = @ \o u.write_queue,
                 !.status = [r \in Sends |->
                    IF r \in In(u.write_queue) THEN "canceled" ELSE @[r]]])
  /\ udp_revents' = {"close"}
  /\ UNCHANGED <<udp_count, chunks, nread, udp_history>>

-----------------------------------------------------------------------------
UdpNext ==
  \/ uv__udp_bind \/ uv_udp_connect \/ uv__udp_disconnect
  \/ (\E r \in Sends : uv__udp_send(r))
  \/ uv__udp_recv_start \/ uv__udp_recv_stop \/ uv__udp_close
  \/ UdpEvent \/ UdpFed \/ Recv \/ RecvReturn \/ SendPart
  \/ RunNext \/ SendReturn \/ RunEnd \/ uv__udp_finish_close

UdpSpec == UdpInit /\ [][UdpNext]_udp_vars

-----------------------------------------------------------------------------
(* Properties.                                                             *)

\* send_queue_size and send_queue_count are what the requests that were not
\* called back hold, so uv__udp_send() and uv__udp_try_send() see an empty
\* queue exactly when it is empty.  Callbacks come once each and in the order
\* of the sends, through errors of a whole batch, cancellation and sends from
\* the callbacks; a pass of uv__udp_run_completed() calls back no request that
\* was sent during it, so a callback that always sends again cannot hold the
\* loop.  Between two events every queued request has POLLOUT, and a completed
\* one has POLLOUT or a place among the pending watchers.
UdpSound ==
  LET waiting == u.write_completed_queue \o u.write_queue IN
  /\ u.send_queue_count = Len(waiting)
  /\ u.send_queue_size = Bytes(Len(udp_sent)) - Bytes(Len(udp_called))
  /\ udp_called = SubSeq(udp_sent, 1, Len(udp_called))
  /\ Len(udp_called) <= udp_pass
  /\ udp_pc = "idle" /\ ~UdpIs("CLOSING") =>
       /\ u.write_queue # <<>> => "out" \in u.pevents /\ u.active = 1
       /\ u.write_completed_queue # <<>> => u.fed = 1 \/ "out" \in u.pevents

\* A handle whose close callback ran may be freed by it: its watcher is not
\* among the pending ones.
UdpClosedQuiet == UdpIs("CLOSED") => u.fed = 0
=============================================================================
