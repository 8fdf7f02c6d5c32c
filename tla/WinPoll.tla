------------------------------- MODULE WinPoll -------------------------------
(***************************************************************************)
(* uv_poll_t of the Windows port (win/poll.c).  A request to the system    *)
(* waits for events of the socket and cannot be changed, so the handle has *)
(* two: when the user asks for what the first does not wait for, the       *)
(* second is submitted, and masks keep both from reporting one event.  A   *)
(* socket of an unknown provider is slow: a thread of the pool selects,    *)
(* and reads handle->events when it gets to run.                           *)
(***************************************************************************)
EXTENDS WinHandle

PollEvents == {"READABLE", "WRITABLE", "DISCONNECT"}
PollReqs == {1, 2}

Polls(f) == On(wh, f)

\* uv_poll_init_socket(): fast when the provider of the socket is known, and a peer
\* socket of the loop could be made (or one was, for an earlier handle).
PeerSocket(slow) == IF slow THEN {"POLL_SLOW"} ELSE {}
WinPollInit ==
  \E slow \in BOOLEAN :
    wh = HandleOf(Set(NewHandle, PeerSocket(slow)),
         [events |-> {},
          submitted |-> [r \in PollReqs |-> {}], mask |-> [r \in PollReqs |-> {}],
          selects |-> [r \in PollReqs |-> {}],  \* what a slow thread waits for
          starting |-> {}])                      \* slow threads that did not run yet

AllSubmitted(h) == h.submitted[1] \cup h.submitted[2]
Free(h) == {r \in PollReqs : h.submitted[r] = {}}

\* Mutant of Masks: the other request may report what this one asks for.
MasksNothing(h, r) == [o \in PollReqs |-> {}]

\* uv__fast_poll_submit_poll_req() and uv__slow_poll_submit_poll_req().  A free
\* request asks for all the events, and the other is not to report them.  With
\* none free the fast one waits for the first to return; the slow one aborts.
Masks(h, r) == [o \in PollReqs |-> IF o = r THEN {} ELSE h.events]
SubmitTo(h, r) ==
  [h EXCEPT !.submitted[r] = h.events, !.mask = Masks(h, r)]

FastSubmit(h) ==
  IF Free(h) = {} THEN {h}
  ELSE LET r == CHOOSE f \in Free(h) : \A o \in Free(h) : f <= o
           g == SubmitTo(h, r)
       IN {[g EXCEPT !.kernel = @ \cup {r}],
           [g EXCEPT !.pending = @ \cup {r}, !.ok = @ \ {r}]}

SlowSubmit(h) ==
  IF Free(h) = {} THEN {}
  ELSE LET r == CHOOSE f \in Free(h) : \A o \in Free(h) : f <= o
           g == SubmitTo(h, r)
       IN {[g EXCEPT !.kernel = @ \cup {r}, !.starting = @ \cup {r}],
           [g EXCEPT !.pending = @ \cup {r}, !.ok = @ \ {r}]}

Submit(h) == IF On(h, "POLL_SLOW") THEN SlowSubmit(h) ELSE FastSubmit(h)

\* uv__poll_set(), of uv_poll_start() and uv_poll_stop()
uv__poll_set(events) ==
  /\ ~Polls("CLOSING")
  /\ LET h == [wh EXCEPT !.events = events]
     IN IF events = {} THEN wh' = StopHandle(h)
        ELSE IF events \subseteq AllSubmitted(h) THEN wh' = StartHandle(h)
        ELSE wh' \in Submit(StartHandle(h))

-----------------------------------------------------------------------------

\* What the system is asked to wait for, and reports: a disconnect is reported as
\* readable as well.
Waited(events) ==
  (IF events \cap {"READABLE", "DISCONNECT"} # {} THEN {{"READABLE", "DISCONNECT"}} ELSE {})
  \cup (IF "READABLE" \in events THEN {{"READABLE"}} ELSE {})
  \cup (IF "WRITABLE" \in events THEN {{"WRITABLE"}} ELSE {})
Reports(events) == {UNION s : s \in SUBSET Waited(events)}

\* The driver answers a request, or fails; what it reports is chosen when the answer
\* is looked at, among what it was asked for or nothing (the other request took over).
FastCompletes(r) ==
  /\ ~Polls("POLL_SLOW") /\ r \in wh.kernel
  /\ \E good \in BOOLEAN : wh' = Completed(wh, r, good)

\* uv__slow_poll_thread_proc() reads what the handle asks for now; then select()
\* returns, or times out with nothing.  A failure is noted in the first request,
\* whichever the thread has: the second keeps whatever it held.
slow_poll_thread_proc(r) ==
  /\ r \in wh.starting
  /\ wh' = [wh EXCEPT !.starting = @ \ {r}, !.selects[r] = wh.events \ {"DISCONNECT"}]

SlowReturns(r) ==
  /\ Polls("POLL_SLOW") /\ r \in wh.kernel \ wh.starting
  /\ \/ wh' = Completed(wh, r, TRUE)
     \/ r = 1 /\ wh' = Completed(wh, 1, FALSE)
     \/ /\ r = 2
        /\ \E good \in BOOLEAN :
             wh' = [Completed(wh, 2, good) EXCEPT !.ok = @ \ {1}, !.selects[2] = PollEvents]

Results(r) == IF Polls("POLL_SLOW") THEN SUBSET wh.selects[r] ELSE Reports(wh.submitted[r])

\* The end of both uv__fast_poll_process_poll_req() and the slow one
AfterPoll(h) ==
  IF ~(h.events \subseteq AllSubmitted(h)) THEN Submit(h)
  ELSE {IF On(h, "CLOSING") /\ AllSubmitted(h) = {} THEN WantEndgame(h) ELSE h}

\* Their start: an error ends the polling, unless the wait was only interrupted; a
\* socket that was closed under the handle stops it.
PollFails(h, r) ==
  IF h.events = {} THEN AfterPoll(h)
  ELSE {CallUser([h EXCEPT !.events = {}], "poll_cb", r)}
       \cup (IF On(h, "POLL_SLOW") THEN {} ELSE AfterPoll(h))

PollTells(h, r, events) ==
  IF events = {} THEN AfterPoll(h) ELSE {CallUser(h, "poll_cb", r)}

LocalClose(h, r, events) == PollTells(StopHandle([h EXCEPT !.events = {}]), r, events)

uv__process_poll_req(r) ==
  /\ CanHandle(wh, r)
  /\ LET h == [Handling(wh, r) EXCEPT !.submitted[r] = {}, !.ok = @ \ {r}, !.selects[r] = {}]
     IN IF r \notin wh.ok THEN wh' \in PollFails(h, r)
        ELSE \E result \in Results(r) :
               LET events == (result \cap h.events) \ h.mask[r]
               IN wh' \in PollTells(h, r, events)
                          \cup (IF On(h, "POLL_SLOW") THEN {} ELSE LocalClose(h, r, events))

\* The callback returns, after anything the user may do with the handle.
PollDone == wh.pc = "poll_cb" /\ wh' \in AfterPoll(Returned(wh))

\* uv__poll_close(): a poll of everything makes the requests of a fast one return.
WinPollClose ==
  /\ ~Polls("CLOSING")
  /\ LET h == HandleClosing([wh EXCEPT !.events = {}])
     IN wh' = IF AllSubmitted(h) = {} THEN WantEndgame(h) ELSE h

uv__poll_endgame == CanEnd(wh) /\ wh' = HandleClose(Ending(wh))

PollWalk == CanWalk(wh) /\ wh' = WalkReqs(wh)

WinPollNext ==
  \/ \E events \in SUBSET PollEvents : uv__poll_set(events)
  \/ \E r \in PollReqs : FastCompletes(r) \/ slow_poll_thread_proc(r) \/ SlowReturns(r)
                         \/ uv__process_poll_req(r)
  \/ PollDone \/ WinPollClose \/ uv__poll_endgame \/ PollWalk

\* A request is under way exactly while something is submitted with it, so a handle
\* that closed left none.  While the user asks for events every one of them is
\* waited for, or both requests are out and the first to return asks again; what
\* one of two requests may report the other may not.  Nothing is told after
\* uv_close(), and a handle that asks for events keeps the loop alive.
WinPollSound ==
  /\ CountSound(wh)
  /\ \A r \in PollReqs : r \in Outstanding(wh) <=> wh.submitted[r] # {}
  /\ wh.pc = "idle" => wh.events \subseteq AllSubmitted(wh) \/ Free(wh) = {}
  /\ Free(wh) = {} =>
       \A e \in wh.events : \E r \in PollReqs : e \notin wh.submitted[r] \ wh.mask[r]
  /\ Polls("CLOSING") => wh.events = {}
  /\ wh.events # {} => Polls("ACTIVE")
  /\ Polls("CLOSING") /\ ~Polls("CLOSED") /\ AllSubmitted(wh) = {} /\ wh.pc = "idle" =>
       Polls("ENDGAME_QUEUED")
=============================================================================
