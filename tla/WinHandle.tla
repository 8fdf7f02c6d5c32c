------------------------------ MODULE WinHandle ------------------------------
(***************************************************************************)
(* What the handles of the Windows port have in common (win/handle-inl.h,  *)
(* win/req-inl.h): the count of what keeps a handle active, the count of   *)
(* requests the system or the loop still holds, the list of handles whose  *)
(* end is due and the list of completed requests.  A handle is a record h; *)
(* an operator takes it before a macro of the port and gives it after.     *)
(*                                                                         *)
(* The system answers a request through the completion port, from where    *)
(* uv__poll() puts it on loop->pending_reqs.  uv__process_reqs() takes the *)
(* whole list away and calls the handler of each request on it.            *)
(***************************************************************************)
EXTENDS Integers, FiniteSets

VARIABLE wh   \* the handle a module is about

\* The fields every handle has.  counted is its share in loop->active_handles.
NewHandle ==
  [flags |-> {}, activecnt |-> 0, reqs_pending |-> 0, active_reqs |-> 0, counted |-> 0,
   kernel |-> {},          \* requests the system holds
   pending |-> {},         \* requests on loop->pending_reqs
   walk |-> {},            \* requests uv__process_reqs() took and has not come to
   ok |-> {},              \* completed requests whose status is a success
   pc |-> "idle",          \* the callback that runs
   cur |-> "none",         \* the request its handler works on
   ends |-> 0]             \* history: times uv__handle_close() was called

\* With the fields of its type as well.
HandleOf(base, own) ==
  [f \in DOMAIN base \cup DOMAIN own |-> IF f \in DOMAIN base THEN base[f] ELSE own[f]]

On(h, f) == f \in h.flags
Set(h, fs) == [h EXCEPT !.flags = @ \cup fs]
Clear(h, fs) == [h EXCEPT !.flags = @ \ fs]

\* uv__handle_start() and uv__handle_stop(), for a handle that keeps no count
StartHandle(h) ==
  IF On(h, "ACTIVE") THEN h ELSE [Set(h, {"ACTIVE"}) EXCEPT !.counted = @ + 1]
StopHandle(h) ==
  IF On(h, "ACTIVE") THEN [Clear(h, {"ACTIVE"}) EXCEPT !.counted = @ - 1] ELSE h

\* INCREASE_ACTIVE_COUNT, uv__handle_start()
IncActive(h) ==
  LET first == h.activecnt = 0 /\ ~On(h, "ACTIVE")
  IN [h EXCEPT !.activecnt = @ + 1,
               !.flags = @ \cup (IF first THEN {"ACTIVE"} ELSE {}),
               !.counted = @ + (IF first THEN 1 ELSE 0)]

\* DECREASE_ACTIVE_COUNT, uv__handle_stop()
DecActive(h) ==
  LET last == h.activecnt = 1 /\ ~On(h, "CLOSING") /\ On(h, "ACTIVE")
  IN [h EXCEPT !.activecnt = @ - 1,
               !.flags = @ \ (IF last THEN {"ACTIVE"} ELSE {}),
               !.counted = @ - (IF last THEN 1 ELSE 0)]

\* REGISTER_HANDLE_REQ and UNREGISTER_HANDLE_REQ
Register(h) == [IncActive(h) EXCEPT !.active_reqs = @ + 1]
Unregister(h) == [DecActive(h) EXCEPT !.active_reqs = @ - 1]

\* uv__want_endgame()
WantEndgame(h) == Set(h, {"ENDGAME_QUEUED"})

\* DECREASE_PENDING_REQ_COUNT
DecPending(h) ==
  LET g == [h EXCEPT !.reqs_pending = @ - 1]
  IN IF On(g, "CLOSING") /\ g.reqs_pending = 0 THEN WantEndgame(g) ELSE g

\* uv__handle_closing(): a handle that closes keeps the loop alive.
HandleClosing(h) ==
  [h EXCEPT !.flags = (@ \cup {"CLOSING"}) \ {"ACTIVE"},
            !.counted = IF On(h, "ACTIVE") THEN @ ELSE @ + 1]

\* uv__handle_close(), up to the callback
HandleClose(h) == [Set(h, {"CLOSED"}) EXCEPT !.counted = @ - 1, !.ends = @ + 1]

\* A request that is given to the system, and one that is done at once and is
\* put on loop->pending_reqs with its status.
Given(h, r) == [h EXCEPT !.kernel = @ \cup {r}, !.reqs_pending = @ + 1]
Inserted(h, r, good) ==
  [h EXCEPT !.pending = @ \cup {r}, !.reqs_pending = @ + 1,
            !.ok = IF good THEN @ \cup {r} ELSE @ \ {r}]

\* The system, or a thread, answers; uv__poll() finds it.
Completed(h, r, good) ==
  [h EXCEPT !.kernel = @ \ {r}, !.pending = @ \cup {r},
            !.ok = IF good THEN @ \cup {r} ELSE @ \ {r}]

\* The start of uv__process_reqs()
WalkReqs(h) == [h EXCEPT !.walk = h.pending, !.pending = {}]
CanWalk(h) == h.pc = "idle" /\ h.walk = {} /\ h.pending # {}

\* The handler of r is called.
Handling(h, r) == [h EXCEPT !.walk = @ \ {r}]
CanHandle(h, r) == h.pc = "idle" /\ r \in h.walk

\* The handler runs a callback of the user, and goes on after it.
CallUser(h, pc, r) == [h EXCEPT !.pc = pc, !.cur = r]
Returned(h) == [h EXCEPT !.pc = "idle", !.cur = "none"]

\* uv__process_endgames() takes the handle; it runs outside the walk.
CanEnd(h) == h.pc = "idle" /\ h.walk = {} /\ On(h, "ENDGAME_QUEUED")
Ending(h) == Clear(h, {"ENDGAME_QUEUED"})
EndDue(h) == On(h, "CLOSING") /\ h.reqs_pending = 0

\* The requests that are counted in reqs_pending.
Outstanding(h) == h.kernel \cup h.pending \cup h.walk

\* What holds of every handle between two steps of its loop.  The loop counts
\* the handle exactly while it is active or closes.  The end comes once, when no
\* request is left.
CountSound(h) ==
  /\ h.counted = (IF On(h, "ACTIVE") \/ (On(h, "CLOSING") /\ ~On(h, "CLOSED")) THEN 1 ELSE 0)
  /\ On(h, "CLOSED") => h.ends = 1 /\ Outstanding(h) = {} /\ ~On(h, "ENDGAME_QUEUED")

\* And of one that counts its requests: a close that waits for nothing has its end
\* queued.
HandleSound(h) ==
  /\ CountSound(h)
  /\ h.activecnt >= 0 /\ h.active_reqs >= 0 /\ h.reqs_pending >= 0
  /\ ~On(h, "CLOSING") => (On(h, "ACTIVE") <=> h.activecnt > 0)
  /\ On(h, "CLOSED") => h.reqs_pending = 0 /\ h.active_reqs = 0
  /\ EndDue(h) /\ ~On(h, "CLOSED") => On(h, "ENDGAME_QUEUED")
=============================================================================
