------------------------------- MODULE WinUdp -------------------------------
(***************************************************************************)
(* uv_udp_t of the Windows port (win/udp.c): the socket and what binds it, *)
(* the request that waits for a datagram (a read of no bytes that peeks,   *)
(* then a receive that does not wait) and the sends under way, with a      *)
(* uv_close() at any point, callbacks included.                            *)
(***************************************************************************)
EXTENDS WinHandle

CONSTANT UdpSends   \* the uv_udp_send_t, each used once, of one byte each

ASSUME WinUdpAssumption == UdpSends \cap {"recv", "none"} = {}

Sees(f) == On(wh, f)

\* uv__udp_init_ex(), with or without a domain
WinUdpInit ==
  \E domain \in {"none", "ip4", "ip6"} :
    wh = HandleOf(Set(NewHandle, IF domain = "ip6" THEN {"IPV6"} ELSE {}),
         [socket |-> domain,            \* the family of the socket, or none
          send_queue_count |-> 0, send_queue_size |-> 0,
          queued |-> {},                \* sends whose bytes were queued
          streams |-> 0,                \* the share in loop->active_udp_streams
          todo |-> UdpSends, called |-> {},
          failed_bind |-> FALSE])        \* history: a bind() failed

DgramUsable == ~Sees("CLOSING")

\* uv__udp_set_socket(): the socket belongs to the loop's port, or is closed.
SetDgram(h, family) ==
  Set([h EXCEPT !.socket = family], IF family = "ip6" THEN {"IPV6"} ELSE {})

\* uv__udp_maybe_bind(): the socket is made, if need be, and bound to an address of
\* its family.
MaybeBind(h, family) ==
  IF On(h, "BOUND") THEN {h}
  ELSE IF h.socket \notin {"none", family} THEN {}
  ELSE {Set(SetDgram(h, family), {"BOUND"})}

\* Its failures, before and after the socket is there; the flag of IPv6 is set
\* before bind().
BindFails(h, family) ==
  IF On(h, "BOUND") THEN {}
  ELSE LET g == IF h.socket = "none" THEN SetDgram(h, family) ELSE h
           v == Set(g, IF family = "ip6" THEN {"IPV6"} ELSE {})
       IN {h, g, [v EXCEPT !.failed_bind = TRUE]}

Families == {"ip4", "ip6"}

uv__udp_bind ==
  /\ DgramUsable
  /\ \E family \in Families : wh' \in MaybeBind(wh, family) \cup BindFails(wh, family)

uv_udp_open ==
  /\ DgramUsable /\ wh.socket = "none"
  /\ \E family \in Families, fs \in SUBSET {"BOUND", "UDP_CONNECTED"} :
       wh' = Set(SetDgram(wh, family), fs)

\* uv__udp_connect() and uv__udp_disconnect()
uv__udp_connect ==
  /\ DgramUsable /\ ~Sees("UDP_CONNECTED")
  /\ \E family \in Families : \E h \in MaybeBind(wh, family) \cup BindFails(wh, family) :
       wh' \in {h} \cup (IF On(h, "BOUND") THEN {Set(h, {"UDP_CONNECTED"})} ELSE {})

uv__udp_disconnect ==
  /\ DgramUsable /\ Sees("UDP_CONNECTED")
  /\ wh' = Clear(wh, {"UDP_CONNECTED"})

\* uv__udp_set_membership4() and -6(), and the same with a source: they bind what
\* is not bound, and refuse a group of the other family.
Membership4(h) == IF On(h, "IPV6") THEN {} ELSE MaybeBind(h, "ip4") \cup BindFails(h, "ip4")
Membership6(h) ==
  IF On(h, "BOUND") /\ ~On(h, "IPV6") THEN {} ELSE MaybeBind(h, "ip6") \cup BindFails(h, "ip6")

\* uv_udp_set_membership() and uv_udp_set_source_membership(), by the group's address
uv_udp_set_membership == DgramUsable /\ wh' \in Membership4(wh) \cup Membership6(wh)

-----------------------------------------------------------------------------
(* Receiving.                                                              *)

\* uv__udp_queue_recv(): a request that fails at once does not set READ_PENDING.
QueueRecv(h) ==
  LET g == Set(h, {"READ_PENDING"})
  IN {Given(g, "recv"), Inserted(g, "recv", TRUE), Inserted(h, "recv", FALSE)}

\* Then a second start, or the end of the handler whose callback stopped and
\* started, would put the request on loop->pending_reqs twice: behaviours end there.
NotTwice == "recv" \in Outstanding(wh) => Sees("READ_PENDING")

\* uv__udp_recv_start(), after the check of uv_udp_recv_start()
uv__udp_recv_start ==
  /\ DgramUsable /\ ~Sees("READING") /\ NotTwice
  /\ \E b \in MaybeBind(wh, "ip4") :
       LET h == [IncActive(Set(b, {"READING"})) EXCEPT !.streams = @ + 1]
       IN IF On(h, "READ_PENDING") THEN wh' = h ELSE wh' \in QueueRecv(h)

RecvStop(h) ==
  IF On(h, "READING") THEN [DecActive(Clear(h, {"READING"})) EXCEPT !.streams = @ - 1] ELSE h

uv__udp_recv_stop == Sees("READING") /\ wh' = RecvStop(wh)

\* The end of uv__process_udp_recv_req()
AfterRecv(h) ==
  IF On(h, "READING") /\ ~On(h, "READ_PENDING") THEN {DecPending(g) : g \in QueueRecv(h)}
  ELSE {DecPending(h)}

\* Its start.  An error of the size or of an earlier send does not count; another
\* stops reading.  Then the user is given a datagram, nothing, or an error.
uv__process_udp_recv_req ==
  /\ CanHandle(wh, "recv")
  /\ LET h == Clear(Handling(wh, "recv"), {"READ_PENDING"})
     IN IF ~On(h, "READING") THEN wh' \in AfterRecv(h)
        ELSE IF "recv" \notin h.ok THEN wh' = CallUser(RecvStop(h), "recv_cb", "recv")
        ELSE wh' \in {CallUser(h, "recv_cb", "recv"), CallUser(RecvStop(h), "recv_cb", "recv")}

RecvDone ==
  /\ wh.pc = "recv_cb" /\ NotTwice
  /\ wh' \in AfterRecv(Returned(wh))

-----------------------------------------------------------------------------
(* Sending.                                                                *)

\* uv__send(): a datagram that is sent at once is reported all the same.
StartSend(b, s) ==
  LET h == [b EXCEPT !.send_queue_count = @ + 1]
  IN {Register(Inserted(h, s, TRUE)),
      Register(Given([h EXCEPT !.send_queue_size = @ + 1, !.queued = @ \cup {s}], s))}

uv__udp_send(s) ==
  /\ DgramUsable /\ s \in wh.todo
  /\ \E family \in Families : \E b \in MaybeBind(wh, family) :
       wh' \in StartSend([b EXCEPT !.todo = @ \ {s}], s)

\* uv__udp_try_send() passes nobody by: it only binds, and sends, with no send under way.
uv__udp_try_send ==
  /\ DgramUsable /\ wh.send_queue_count = 0
  /\ \E family \in Families : wh' \in MaybeBind(wh, family)

uv__process_udp_send_req(s) ==
  /\ CanHandle(wh, s)
  /\ LET h == [Handling(wh, s) EXCEPT !.send_queue_count = @ - 1, !.called = @ \cup {s},
                                      !.send_queue_size = IF s \in wh.queued THEN @ - 1 ELSE @]
     IN wh' = CallUser(Unregister(h), "send_cb", s)

SendDone == wh.pc = "send_cb" /\ wh' = DecPending(Returned(wh))

-----------------------------------------------------------------------------

\* uv__udp_close(): what the system holds comes back cancelled.
uv__udp_close ==
  /\ ~Sees("CLOSING")
  /\ LET h == HandleClosing([RecvStop(wh) EXCEPT !.socket = "none"])
     IN wh' = IF h.reqs_pending = 0 THEN WantEndgame(h) ELSE h

uv__udp_endgame ==
  /\ CanEnd(wh)
  /\ wh' = IF EndDue(wh) THEN HandleClose(Ending(wh)) ELSE Ending(wh)

DgramCompletes ==
  \E r \in wh.kernel, good \in BOOLEAN : wh' = Completed(wh, r, good)

DgramWalk == CanWalk(wh) /\ wh' = WalkReqs(wh)

WinUdpNext ==
  \/ uv__udp_bind \/ uv_udp_open \/ uv__udp_connect \/ uv__udp_disconnect \/ uv_udp_set_membership
  \/ uv__udp_recv_start \/ uv__udp_recv_stop \/ uv__process_udp_recv_req \/ RecvDone
  \/ (\E s \in UdpSends : uv__udp_send(s) \/ uv__process_udp_send_req(s))
  \/ uv__udp_try_send \/ SendDone \/ uv__udp_close \/ uv__udp_endgame \/ DgramCompletes \/ DgramWalk

\* The counts of what is queued are those of the sends under way, a send is
\* reported once and before the end, one request at most waits for a datagram and
\* one does whenever the user receives, callbacks that stop, start and close
\* included; a bound handle has a socket of the family it says, unless a bind()
\* failed.
WinUdpSound ==
  /\ HandleSound(wh)
  /\ LET sends == Outstanding(wh) \cap UdpSends
     IN /\ wh.send_queue_count = Cardinality(sends)
        /\ wh.send_queue_size = Cardinality(sends \cap wh.queued)
        /\ wh.active_reqs = Cardinality(sends)
        /\ sends \cap wh.called = {}
  /\ wh.reqs_pending = Cardinality(Outstanding(wh)) + (IF wh.cur = "none" THEN 0 ELSE 1)
  /\ wh.activecnt = wh.active_reqs + wh.streams
  /\ wh.streams = (IF Sees("READING") THEN 1 ELSE 0)
  /\ Sees("READ_PENDING") => "recv" \in Outstanding(wh)
  /\ Sees("READING") /\ wh.cur # "recv" => "recv" \in Outstanding(wh)
  /\ Sees("BOUND") /\ ~Sees("CLOSING") =>
       wh.socket # "none" /\ (wh.failed_bind \/ (Sees("IPV6") <=> wh.socket = "ip6"))
  /\ Sees("CLOSED") => wh.called \cup wh.todo = UdpSends /\ wh.streams = 0
=============================================================================
