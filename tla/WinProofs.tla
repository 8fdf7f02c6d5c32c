------------------------------ MODULE WinProofs ------------------------------
(***************************************************************************)
(* Proofs about the Windows port, part by part: a polled socket, a watched *)
(* path, a child process and a datagram socket; then its loop, with its    *)
(* waits, watchers, signals, table of loops and name resolution; and its   *)
(* streams.  WinLoopProofs and WinStreamProofs have the lemmas about the   *)
(* last two, but for the server of a named pipe, which is here.            *)
(*                                                                         *)
(* What a handle promises speaks of its counts; what makes it so is where  *)
(* its requests are.  So the invariant of each handle names its fields and *)
(* says what set a request is in (HeldOnce), what a handler that runs has  *)
(* taken, and when the end is due (Ends).  A step is taken apart into the  *)
(* macros the code is made of; each lemma says what one of them leaves.    *)
(***************************************************************************)
EXTENDS MCWindows, WinLoopProofs, WinStreamProofs

\* A handle ends once, after it was closed, and is not told to end again.
Ends(h) ==
  /\ CountSound(h)
  /\ h.counted \in Int /\ h.ends \in Int
  /\ On(h, "CLOSED") => On(h, "CLOSING") /\ h.pc = "idle"
  /\ ~On(h, "CLOSED") => h.ends = 0
  /\ On(h, "CLOSING") => ~On(h, "ACTIVE")
  /\ On(h, "ENDGAME_QUEUED") => On(h, "CLOSING")

-----------------------------------------------------------------------------
(* A polled socket.                                                        *)

PollFields == BaseFields \cup {"events", "submitted", "mask", "selects", "starting"}

PollTypes(h) ==
  /\ DOMAIN h = PollFields
  /\ h.events \subseteq PollEvents
  /\ h.submitted \in [PollReqs -> SUBSET PollEvents] /\ h.mask \in [PollReqs -> SUBSET PollEvents]
  /\ Outstanding(h) \subseteq PollReqs /\ h.pc \in {"idle", "poll_cb"}

PollOk(h) ==
  /\ PollTypes(h) /\ Ends(h) /\ HeldOnce(h)
  /\ \A r \in PollReqs : r \in Outstanding(h) <=> h.submitted[r] # {}
  /\ Free(h) = {} => (h.submitted[1] \ h.mask[1]) \cap (h.submitted[2] \ h.mask[2]) = {}
  /\ On(h, "CLOSING") => h.events = {}
  /\ h.events # {} => On(h, "ACTIVE")
  /\ On(h, "ENDGAME_QUEUED") => AllSubmitted(h) = {}

PollAsks(h) == h.events \subseteq AllSubmitted(h) \/ Free(h) = {}

PollEnds(h) ==
  On(h, "CLOSING") /\ ~On(h, "CLOSED") /\ AllSubmitted(h) = {} => On(h, "ENDGAME_QUEUED")

PollInv == PollOk(wh) /\ (wh.pc = "idle" => PollAsks(wh) /\ PollEnds(wh))

LEMMA PollInitInv == WinPollInit => PollInv
BY DEF WinPollInit, NewHandle, BaseFields, Set, HandleOf, PollInv, PollOk, PollTypes, PollFields, Ends, CountSound, On,
   HeldOnce, Outstanding, PollAsks, PollEnds, PeerSocket, PollReqs, PollEvents, AllSubmitted, Free

LEMMA PollInvSound == PollInv => WinPollSound
BY DEF PollInv, WinPollSound, PollOk, Ends, Polls, PollAsks, PollEnds, Free, PollReqs, AllSubmitted, PollTypes

\* What uv__fast_poll_submit_poll_req() and the slow one leave.
LEMMA SubmitKeeps ==
  ASSUME NEW h, PollOk(h), h.events # {}, NEW g \in Submit(h)
  PROVE  PollOk(g) /\ PollAsks(g) /\ g.flags = h.flags /\ g.pc = h.pc
<1>1. CASE Free(h) = {}
  BY <1>1 DEF Submit, FastSubmit, SlowSubmit, PollAsks
<1>2. CASE Free(h) # {}
  <2>1. PICK r \in Free(h) : \A o \in Free(h) : r <= o
    BY <1>2 DEF Free, PollReqs
  <2>2. \A f \in Free(h) : (\A o \in Free(h) : f <= o) => f = r
    BY <2>1 DEF Free, PollReqs
  <2>3. r = CHOOSE f \in Free(h) : \A o \in Free(h) : f <= o
    BY <2>1, <2>2
  <2> DEFINE s == SubmitTo(h, r)
  <2>4. \/ g = [s EXCEPT !.kernel = @ \cup {r}]
        \/ g = [s EXCEPT !.pending = @ \cup {r}, !.ok = @ \ {r}]
        \/ g = [s EXCEPT !.kernel = @ \cup {r}, !.starting = @ \cup {r}]
    BY <1>2, <2>3 DEF Submit, FastSubmit, SlowSubmit
  <2>5. /\ DOMAIN s = DOMAIN h /\ s.submitted = [h.submitted EXCEPT ![r] = h.events]
        /\ s.mask = Masks(h, r)
        /\ s.flags = h.flags /\ s.counted = h.counted /\ s.walk = h.walk /\ s.pc = h.pc
        /\ s.ends = h.ends /\ s.events = h.events
        /\ s.kernel = h.kernel /\ s.pending = h.pending
    BY DEF SubmitTo, PollOk, PollTypes, PollFields, BaseFields
  <2> HIDE DEF s
  <2>6. /\ DOMAIN g = DOMAIN h /\ g.submitted = [h.submitted EXCEPT ![r] = h.events]
        /\ g.mask = Masks(h, r)
        /\ g.flags = h.flags /\ g.counted = h.counted /\ g.walk = h.walk /\ g.pc = h.pc
        /\ g.ends = h.ends /\ g.events = h.events
        /\ \/ g.kernel = h.kernel \cup {r} /\ g.pending = h.pending
           \/ g.kernel = h.kernel /\ g.pending = h.pending \cup {r}
    <3>1. PollFields = DOMAIN s
      BY <2>5 DEF PollOk, PollTypes
    <3>2. CASE g = [s EXCEPT !.kernel = @ \cup {r}]
      BY <2>5, <3>1, <3>2 DEF PollFields, BaseFields
    <3>3. CASE g = [s EXCEPT !.pending = @ \cup {r}, !.ok = @ \ {r}]
      BY <2>5, <3>1, <3>3 DEF PollFields, BaseFields
    <3>4. CASE g = [s EXCEPT !.kernel = @ \cup {r}, !.starting = @ \cup {r}]
      BY <2>5, <3>1, <3>4 DEF PollFields, BaseFields
    <3> QED BY <2>4, <3>2, <3>3, <3>4
  <2>7. r \in PollReqs /\ r \notin Outstanding(h) /\ h.submitted[r] = {}
    BY <2>1 DEF Free, PollOk
  <2>8. Outstanding(g) = Outstanding(h) \cup {r}
    BY <2>6 DEF Outstanding
  <2>9. PollTypes(g)
    BY <2>6, <2>7, <2>8 DEF PollOk, PollTypes, Masks
  <2>10. Ends(g)
    BY <2>6, <2>8 DEF PollOk, Ends, CountSound, On
  <2>11. HeldOnce(g)
    BY <2>6, <2>7 DEF PollOk, HeldOnce, Outstanding
  <2>12. \A q \in PollReqs : q \in Outstanding(g) <=> g.submitted[q] # {}
    BY <2>6, <2>7, <2>8 DEF PollOk, PollTypes
  <2>13. (g.submitted[1] \ g.mask[1]) \cap (g.submitted[2] \ g.mask[2]) = {}
    BY <2>6, <2>7 DEF PollOk, PollTypes, Masks, PollReqs
  <2>14. g.events \subseteq AllSubmitted(g)
    BY <2>6, <2>7 DEF PollOk, PollTypes, AllSubmitted, PollReqs
  <2>15. ~On(h, "ENDGAME_QUEUED") /\ On(h, "ACTIVE") /\ ~On(h, "CLOSING")
    BY DEF PollOk, Ends
  <2> QED BY <2>6, <2>9, <2>10, <2>11, <2>12, <2>13, <2>14, <2>15 DEF PollOk, PollAsks, On
<1> QED BY <1>1, <1>2

\* What the end of the handler leaves.
LEMMA AfterPollKeeps ==
  ASSUME NEW h, PollOk(h), ~On(h, "CLOSED"), NEW g \in AfterPoll(h)
  PROVE  PollOk(g) /\ PollAsks(g) /\ PollEnds(g) /\ g.pc = h.pc
<1>1. CASE ~(h.events \subseteq AllSubmitted(h))
  BY <1>1, SubmitKeeps DEF AfterPoll, PollOk, PollEnds, On
<1>2. CASE h.events \subseteq AllSubmitted(h) /\ ~(On(h, "CLOSING") /\ AllSubmitted(h) = {})
  BY <1>2 DEF AfterPoll, PollAsks, PollEnds
<1>3. CASE h.events \subseteq AllSubmitted(h) /\ On(h, "CLOSING") /\ AllSubmitted(h) = {}
  <2>1. g = WantEndgame(h)
    BY <1>3 DEF AfterPoll
  <2>2. /\ DOMAIN g = DOMAIN h /\ g.flags = h.flags \cup {"ENDGAME_QUEUED"}
        /\ g.submitted = h.submitted /\ g.mask = h.mask /\ g.counted = h.counted
        /\ g.walk = h.walk /\ g.pc = h.pc /\ g.ends = h.ends /\ g.events = h.events
        /\ g.kernel = h.kernel /\ g.pending = h.pending
    BY <2>1 DEF WantEndgame, Set, PollOk, PollTypes, PollFields, BaseFields
  <2> QED
    BY <1>3, <2>2 DEF PollOk, PollTypes, Outstanding, Ends, CountSound, On, HeldOnce, Free,
                      AllSubmitted, PollAsks, PollEnds
<1> QED BY <1>1, <1>2, <1>3

\* Asking for other events, and stopping.
LEMMA PollSetKeeps == ASSUME PollInv, NEW events \in SUBSET PollEvents, uv__poll_set(events)
                      PROVE  PollInv'
<1> DEFINE h == [wh EXCEPT !.events = events]
<1>1. PollTypes(wh) /\ DOMAIN wh = PollFields /\ ~On(wh, "CLOSING") /\ ~On(wh, "CLOSED")
  BY DEF PollInv, PollOk, PollTypes, uv__poll_set, Polls, Ends
<1>2. /\ DOMAIN h = DOMAIN wh /\ h.events = events
      /\ h.flags = wh.flags /\ h.counted = wh.counted /\ h.submitted = wh.submitted
      /\ h.mask = wh.mask /\ h.walk = wh.walk /\ h.pc = wh.pc /\ h.ends = wh.ends
      /\ h.kernel = wh.kernel /\ h.pending = wh.pending
  BY <1>1 DEF PollFields, BaseFields
<1> DEFINE s == StartHandle(h)
<1> HIDE DEF h
<1>3. CASE events = {}
  <2>1. wh' = StopHandle(h)
    BY <1>3 DEF uv__poll_set, h
  <2>2. /\ DOMAIN wh' = DOMAIN wh /\ wh'.flags = wh.flags \ {"ACTIVE"}
        /\ wh'.counted = IF On(wh, "ACTIVE") THEN wh.counted - 1 ELSE wh.counted
        /\ wh'.submitted = wh.submitted /\ wh'.mask = wh.mask /\ wh'.walk = wh.walk
        /\ wh'.pc = wh.pc /\ wh'.ends = wh.ends /\ wh'.events = events
        /\ wh'.kernel = wh.kernel /\ wh'.pending = wh.pending
    BY <1>1, <1>2, <2>1 DEF StopHandle, Clear, On, PollFields, BaseFields
  <2> QED
    BY <1>1, <1>3, <2>2 DEF PollInv, PollOk, PollTypes, Outstanding, Ends, CountSound, On, HeldOnce,
                            Free, AllSubmitted, PollAsks, PollEnds
<1>4. CASE events # {}
  <2>1. /\ DOMAIN s = DOMAIN wh /\ s.flags = wh.flags \cup {"ACTIVE"}
        /\ s.counted = IF On(wh, "ACTIVE") THEN wh.counted ELSE wh.counted + 1
        /\ s.submitted = wh.submitted /\ s.mask = wh.mask /\ s.walk = wh.walk
        /\ s.pc = wh.pc /\ s.ends = wh.ends /\ s.events = events
        /\ s.kernel = wh.kernel /\ s.pending = wh.pending
    BY <1>1, <1>2 DEF StartHandle, Set, On, PollFields, BaseFields
  <2>2. (wh' = s /\ events \subseteq AllSubmitted(s)) \/ wh' \in Submit(s)
    BY <1>2, <1>4 DEF uv__poll_set, h, AllSubmitted, StartHandle, Set
  <2> HIDE DEF s
  <2>3. PollOk(s)
    BY <1>1, <1>4, <2>1 DEF PollInv, PollOk, PollTypes, Outstanding, Ends, CountSound, On, HeldOnce,
                            Free, AllSubmitted
  <2>4. PollEnds(s) /\ ~On(s, "CLOSING")
    BY <1>1, <2>1 DEF PollEnds, On
  <2>5. CASE wh' = s /\ events \subseteq AllSubmitted(s)
    BY <2>1, <2>3, <2>4, <2>5 DEF PollInv, PollAsks
  <2>6. CASE wh' \in Submit(s)
    BY <1>4, <2>1, <2>3, <2>4, <2>6, SubmitKeeps DEF PollInv, PollEnds, On
  <2> QED BY <2>2, <2>5, <2>6
<1> QED BY <1>3, <1>4

\* The system and its threads.
LEMMA PollSystemKeeps ==
  ASSUME PollInv, NEW r \in PollReqs,
         FastCompletes(r) \/ slow_poll_thread_proc(r) \/ SlowReturns(r)
  PROVE  PollInv'
<1>1. DOMAIN wh = PollFields /\ PollTypes(wh)
  BY DEF PollInv, PollOk, PollTypes
<1>2. /\ DOMAIN wh' = DOMAIN wh /\ wh'.flags = wh.flags /\ wh'.counted = wh.counted
      /\ wh'.submitted = wh.submitted /\ wh'.mask = wh.mask /\ wh'.walk = wh.walk
      /\ wh'.pc = wh.pc /\ wh'.ends = wh.ends /\ wh'.events = wh.events
      /\ \/ wh'.kernel = wh.kernel /\ wh'.pending = wh.pending
         \/ r \in wh.kernel /\ wh'.kernel = wh.kernel \ {r} /\ wh'.pending = wh.pending \cup {r}
  <2>1. CASE FastCompletes(r)
    BY <1>1, <2>1 DEF FastCompletes, Completed, PollFields, BaseFields
  <2>2. CASE slow_poll_thread_proc(r)
    BY <1>1, <2>2 DEF slow_poll_thread_proc, PollFields, BaseFields
  <2>3. CASE SlowReturns(r)
    <3>1. r \in wh.kernel
      BY <2>3 DEF SlowReturns
    <3>2. \E good \in BOOLEAN : \/ wh' = Completed(wh, r, good)
            \/ wh' = [Completed(wh, r, good) EXCEPT !.ok = @ \ {1}, !.selects[2] = PollEvents]
      BY <2>3 DEF SlowReturns
    <3> QED BY <1>1, <3>1, <3>2 DEF Completed, PollFields, BaseFields
  <2> QED BY <2>1, <2>2, <2>3
<1>3. Outstanding(wh') = Outstanding(wh)
  BY <1>2 DEF Outstanding
<1>4. HeldOnce(wh')
  BY <1>2 DEF PollInv, PollOk, HeldOnce
<1> QED
  BY <1>2, <1>3, <1>4 DEF PollInv, PollOk, PollTypes, Ends, CountSound, On, Free, AllSubmitted,
                          PollAsks, PollEnds

\* A callback is called.
LEMMA PollCalls ==
  ASSUME NEW h, PollOk(h), ~On(h, "CLOSED"), NEW r, NEW g, g = CallUser(h, "poll_cb", r)
  PROVE  PollOk(g) /\ g.pc = "poll_cb"
<1>1. /\ DOMAIN g = DOMAIN h /\ g.flags = h.flags /\ g.pc = "poll_cb"
      /\ g.submitted = h.submitted /\ g.mask = h.mask /\ g.counted = h.counted
      /\ g.walk = h.walk /\ g.ends = h.ends /\ g.events = h.events
      /\ g.kernel = h.kernel /\ g.pending = h.pending
  BY DEF CallUser, PollOk, PollTypes, PollFields, BaseFields
<1> QED
  BY <1>1 DEF PollOk, PollTypes, Outstanding, Ends, CountSound, On, HeldOnce, Free, AllSubmitted

\* Nothing is asked for any more.
LEMMA PollForgets ==
  ASSUME NEW h, PollOk(h), NEW g, g = [h EXCEPT !.events = {}] \/ g = StopHandle([h EXCEPT !.events = {}])
  PROVE  PollOk(g) /\ (On(g, "CLOSED") => On(h, "CLOSED"))
<1> DEFINE f == [h EXCEPT !.events = {}]
<1>1. /\ DOMAIN f = DOMAIN h /\ f.events = {}
      /\ f.flags = h.flags /\ f.counted = h.counted /\ f.submitted = h.submitted
      /\ f.mask = h.mask /\ f.walk = h.walk /\ f.pc = h.pc /\ f.ends = h.ends
      /\ f.kernel = h.kernel /\ f.pending = h.pending
  BY DEF PollOk, PollTypes, PollFields, BaseFields
<1>2. PollOk(f)
  BY <1>1 DEF PollOk, PollTypes, Outstanding, Ends, CountSound, On, HeldOnce, Free, AllSubmitted
<1>3. CASE g = f
  BY <1>1, <1>2, <1>3 DEF On
<1> HIDE DEF f
<1>4. CASE g = StopHandle(f)
  <2>1. /\ DOMAIN g = DOMAIN f /\ g.flags = f.flags \ {"ACTIVE"}
        /\ g.counted = IF On(f, "ACTIVE") THEN f.counted - 1 ELSE f.counted
        /\ g.submitted = f.submitted /\ g.mask = f.mask /\ g.walk = f.walk
        /\ g.pc = f.pc /\ g.ends = f.ends /\ g.events = {}
        /\ g.kernel = f.kernel /\ g.pending = f.pending
    BY <1>1, <1>2, <1>4 DEF StopHandle, Clear, On, PollOk, PollTypes, PollFields, BaseFields
  <2>2. Ends(g)
    BY <1>2, <2>1 DEF PollOk, Ends, CountSound, On, Outstanding
  <2> QED
    BY <1>1, <1>2, <2>1, <2>2 DEF PollOk, PollTypes, Outstanding, On, HeldOnce, Free, AllSubmitted
<1> QED BY <1>3, <1>4 DEF f

\* The handler of a request.
LEMMA PollReqKeeps == ASSUME PollInv, NEW r \in PollReqs, uv__process_poll_req(r) PROVE PollInv'
<1> DEFINE h == [Handling(wh, r) EXCEPT !.submitted[r] = {}, !.ok = @ \ {r}, !.selects[r] = {}]
<1>1. DOMAIN wh = PollFields /\ r \in wh.walk /\ wh.pc = "idle" /\ wh.submitted[r] # {}
  BY DEF PollInv, PollOk, PollTypes, uv__process_poll_req, CanHandle, Outstanding
<1>2. /\ DOMAIN h = DOMAIN wh /\ h.submitted = [wh.submitted EXCEPT ![r] = {}]
      /\ h.walk = wh.walk \ {r} /\ h.kernel = wh.kernel /\ h.pending = wh.pending
      /\ h.mask = wh.mask /\ h.flags = wh.flags /\ h.counted = wh.counted
      /\ h.pc = "idle" /\ h.ends = wh.ends /\ h.events = wh.events
  BY <1>1 DEF Handling, PollFields, BaseFields
<1>3. /\ ~On(wh, "CLOSED") /\ ~On(wh, "ENDGAME_QUEUED")
      /\ r \notin wh.kernel \cup wh.pending
  BY <1>1 DEF PollInv, PollOk, Ends, CountSound, Outstanding, AllSubmitted, HeldOnce, PollReqs
<1>4. wh' \in PollFails(h, r) \/ \E events : wh' \in PollTells(h, r, events) \cup LocalClose(h, r, events)
  BY DEF uv__process_poll_req
<1> HIDE DEF h
<1>5. PollOk(h)
  BY <1>1, <1>2, <1>3 DEF Outstanding, Free, PollInv, PollOk, PollTypes, Ends, CountSound, On,
     HeldOnce
<1>6. ~On(h, "CLOSED")
  BY <1>2, <1>3 DEF On
<1>7. ASSUME NEW k, PollOk(k), ~On(k, "CLOSED"),
             wh' \in AfterPoll(k) \/ wh' = CallUser(k, "poll_cb", r)
      PROVE  PollInv'
  BY <1>7, AfterPollKeeps, PollCalls DEF PollInv
<1>8. CASE wh' \in PollFails(h, r)
  <2> DEFINE f == [h EXCEPT !.events = {}]
  <2>1. PollOk(f) /\ ~On(f, "CLOSED")
    BY <1>5, <1>6, PollForgets
  <2>2. wh' \in AfterPoll(h) \/ wh' = CallUser(f, "poll_cb", r)
    BY <1>8 DEF PollFails
  <2> HIDE DEF f
  <2> QED BY <1>5, <1>6, <1>7, <2>1, <2>2
<1>9. ASSUME NEW events, wh' \in PollTells(h, r, events) PROVE PollInv'
  BY <1>9, <1>5, <1>6, <1>7 DEF PollTells
<1>10. ASSUME NEW events, wh' \in LocalClose(h, r, events) PROVE PollInv'
  <2> DEFINE f == StopHandle([h EXCEPT !.events = {}])
  <2>1. PollOk(f) /\ ~On(f, "CLOSED")
    BY <1>5, <1>6, PollForgets
  <2>2. wh' \in AfterPoll(f) \/ wh' = CallUser(f, "poll_cb", r)
    BY <1>10 DEF LocalClose, PollTells
  <2> HIDE DEF f
  <2> QED BY <1>7, <2>1, <2>2
<1> QED BY <1>4, <1>8, <1>9, <1>10

\* The callback returns.
LEMMA PollDoneKeeps == ASSUME PollInv, PollDone PROVE PollInv'
<1> DEFINE h == Returned(wh)
<1>1. DOMAIN wh = PollFields /\ wh.pc = "poll_cb" /\ ~On(wh, "CLOSED")
  BY DEF PollInv, PollOk, PollTypes, PollDone, Ends
<1>2. /\ DOMAIN h = DOMAIN wh /\ h.flags = wh.flags /\ h.pc = "idle"
      /\ h.submitted = wh.submitted /\ h.mask = wh.mask /\ h.counted = wh.counted
      /\ h.walk = wh.walk /\ h.ends = wh.ends /\ h.events = wh.events
      /\ h.kernel = wh.kernel /\ h.pending = wh.pending
  BY <1>1 DEF Returned, PollFields, BaseFields
<1>3. wh' \in AfterPoll(h)
  BY DEF PollDone
<1> HIDE DEF h
<1>4. PollOk(h) /\ ~On(h, "CLOSED")
  BY <1>1, <1>2 DEF PollInv, PollOk, PollTypes, Outstanding, Ends, CountSound, On, HeldOnce, Free,
                    AllSubmitted
<1> QED BY <1>3, <1>4, AfterPollKeeps DEF PollInv

\* The end of the handle.
LEMMA PollCloseKeeps == ASSUME PollInv, WinPollClose \/ uv__poll_endgame PROVE PollInv'
<1>1. DOMAIN wh = PollFields /\ PollTypes(wh)
  BY DEF PollInv, PollOk, PollTypes
<1>2. CASE WinPollClose
  <2>1. /\ DOMAIN wh' = DOMAIN wh /\ wh'.events = {}
        /\ wh'.counted = IF On(wh, "ACTIVE") THEN wh.counted ELSE wh.counted + 1
        /\ wh'.flags = ((wh.flags \cup {"CLOSING"}) \ {"ACTIVE"})
                          \cup (IF AllSubmitted(wh) = {} THEN {"ENDGAME_QUEUED"} ELSE {})
        /\ wh'.submitted = wh.submitted /\ wh'.mask = wh.mask /\ wh'.walk = wh.walk
        /\ wh'.pc = wh.pc /\ wh'.ends = wh.ends
        /\ wh'.kernel = wh.kernel /\ wh'.pending = wh.pending
    BY <1>1, <1>2 DEF WinPollClose, HandleClosing, WantEndgame, Set, On, AllSubmitted, PollFields, BaseFields
  <2>2. ~On(wh, "CLOSING") /\ ~On(wh, "CLOSED") /\ ~On(wh, "ENDGAME_QUEUED")
    BY <1>2 DEF WinPollClose, Polls, PollInv, PollOk, Ends
  <2>3. Ends(wh')
    BY <2>1, <2>2 DEF PollInv, PollOk, Ends, CountSound, On, Outstanding
  <2>4. PollAsks(wh') /\ PollEnds(wh')
    BY <2>1 DEF PollAsks, PollEnds, On, AllSubmitted
  <2> QED
    BY <1>1, <2>1, <2>2, <2>3, <2>4 DEF PollInv, PollOk, PollTypes, Outstanding, On, HeldOnce, Free, AllSubmitted
<1>3. CASE uv__poll_endgame
  <2>1. /\ DOMAIN wh' = DOMAIN wh /\ wh'.events = wh.events
        /\ wh'.counted = wh.counted - 1 /\ wh'.ends = wh.ends + 1
        /\ wh'.flags = (wh.flags \ {"ENDGAME_QUEUED"}) \cup {"CLOSED"}
        /\ wh'.submitted = wh.submitted /\ wh'.mask = wh.mask /\ wh'.walk = wh.walk
        /\ wh'.pc = wh.pc /\ wh'.kernel = wh.kernel /\ wh'.pending = wh.pending
    BY <1>1, <1>3 DEF uv__poll_endgame, HandleClose, Ending, Clear, Set, PollFields, BaseFields
  <2>2. wh.pc = "idle" /\ On(wh, "ENDGAME_QUEUED") /\ On(wh, "CLOSING") /\ ~On(wh, "CLOSED")
    BY <1>3 DEF uv__poll_endgame, CanEnd, PollInv, PollOk, Ends, CountSound
  <2>3. AllSubmitted(wh) = {} /\ Outstanding(wh) = {}
    BY <1>1, <2>2 DEF PollInv, PollOk, PollTypes, AllSubmitted, PollReqs
  <2>4. Ends(wh')
    BY <2>1, <2>2, <2>3 DEF PollInv, PollOk, Ends, CountSound, On, Outstanding
  <2>5. PollAsks(wh') /\ PollEnds(wh')
    BY <2>1, <2>2 DEF PollInv, PollOk, PollAsks, PollEnds, On, AllSubmitted
  <2> QED
    BY <1>1, <2>1, <2>2, <2>4, <2>5 DEF PollInv, PollOk, PollTypes, Outstanding, On, HeldOnce, Free, AllSubmitted
<1> QED BY <1>2, <1>3

LEMMA PollWalkKeeps == ASSUME PollInv, PollWalk PROVE PollInv'
<1>1. DOMAIN wh = PollFields /\ PollTypes(wh) /\ wh.walk = {}
  BY DEF PollInv, PollOk, PollTypes, PollWalk, CanWalk
<1>2. /\ DOMAIN wh' = DOMAIN wh /\ wh'.flags = wh.flags /\ wh'.counted = wh.counted
      /\ wh'.submitted = wh.submitted /\ wh'.mask = wh.mask
      /\ wh'.pc = wh.pc /\ wh'.ends = wh.ends /\ wh'.events = wh.events
      /\ wh'.kernel = wh.kernel /\ wh'.pending = {} /\ wh'.walk = wh.pending
  BY <1>1 DEF PollWalk, WalkReqs, PollFields, BaseFields
<1>3. Outstanding(wh') = Outstanding(wh)
  BY <1>1, <1>2 DEF Outstanding
<1>4. HeldOnce(wh')
  BY <1>1, <1>2 DEF PollInv, PollOk, HeldOnce
<1> QED
  BY <1>2, <1>3, <1>4 DEF PollInv, PollOk, PollTypes, Ends, CountSound, On, Free, AllSubmitted,
                          PollAsks, PollEnds

LEMMA PollNextKeeps == ASSUME PollInv, WinPollNext PROVE PollInv'
BY PollSetKeeps, PollSystemKeeps, PollReqKeeps, PollDoneKeeps, PollCloseKeeps, PollWalkKeeps DEF WinPollNext

-----------------------------------------------------------------------------
(* A watched path.                                                         *)

WatchFields ==
  BaseFields \cup {"dir_handle", "buffer", "req_pending", "mem", "locals", "entries"}

WatchTypes(h) ==
  /\ DOMAIN h = WatchFields
  /\ h.dir_handle \in BOOLEAN /\ h.buffer \in BOOLEAN /\ h.req_pending \in BOOLEAN
  /\ Outstanding(h) \subseteq {"req"} /\ h.pc \in {"idle", "fs_event_cb", "next_entry"}

\* While the handler of the request runs, the buffer is there and no request is out.
WatchOk(h) ==
  /\ WatchTypes(h) /\ Ends(h) /\ HeldOnce(h)
  /\ h.req_pending <=> "req" \in Outstanding(h)
  /\ h.req_pending \/ h.pc # "idle" \/ h.dir_handle => h.buffer
  /\ h.pc # "idle" => ~h.req_pending
  /\ h.mem # {} \/ h.dir_handle => On(h, "ACTIVE")
  /\ On(h, "CLOSED") => ~h.buffer

WatchAsks(h) == On(h, "ACTIVE") => h.req_pending \/ "pathw" \in h.locals

WatchEnds(h) ==
  On(h, "CLOSING") /\ ~On(h, "CLOSED") /\ ~h.req_pending => On(h, "ENDGAME_QUEUED")

WatchInv == WatchOk(wh) /\ (wh.pc = "idle" => WatchAsks(wh) /\ WatchEnds(wh))

LEMMA WatchInitInv == WinFsEventInit => WatchInv
<1> SUFFICES ASSUME WinFsEventInit PROVE WatchInv
  OBVIOUS
<1>1. /\ DOMAIN wh = WatchFields /\ wh.flags = {} /\ wh.counted = 0 /\ wh.ends = 0
      /\ wh.kernel = {} /\ wh.pending = {} /\ wh.walk = {} /\ wh.pc = "idle"
  BY DEF WinFsEventInit, NewHandle, HandleOf, BaseFields, WatchFields
<1>2. wh.dir_handle = FALSE /\ wh.buffer = FALSE /\ wh.req_pending = FALSE /\ wh.mem = {}
  BY DEF WinFsEventInit, NewHandle, HandleOf
<1>4. Outstanding(wh) = {} /\ HeldOnce(wh)
  BY <1>1 DEF HeldOnce, Outstanding
<1>5. WatchTypes(wh)
  BY <1>1, <1>2, <1>4 DEF WatchTypes
<1>3. WatchTypes(wh) /\ Ends(wh) /\ HeldOnce(wh)
  BY <1>1, <1>4, <1>5 DEF Ends, CountSound, On
<1> QED
  BY <1>1, <1>2, <1>3 DEF WatchInv, WatchOk, On, Outstanding, WatchAsks, WatchEnds

LEMMA WatchInvSound == WatchInv => WinFsEventSound
BY DEF WatchInv, WinFsEventSound, WatchOk, WatchTypes, Ends, Watches, WatchAsks, WatchEnds, On

\* Starting.
LEMMA WatchStartKeeps == ASSUME WatchInv, uv_fs_event_start PROVE WatchInv'
<1> DEFINE s == StartHandle(wh)
<1>1. /\ DOMAIN wh = WatchFields /\ wh.pc = "idle" /\ Outstanding(wh) = {}
      /\ ~On(wh, "ACTIVE") /\ ~On(wh, "CLOSING") /\ ~On(wh, "CLOSED")
  BY DEF WatchInv, WatchOk, WatchTypes, uv_fs_event_start, Watches, Ends
<1>2. /\ DOMAIN s = DOMAIN wh /\ s.flags = wh.flags \cup {"ACTIVE"} /\ s.counted = wh.counted + 1
      /\ s.kernel = wh.kernel /\ s.pending = wh.pending /\ s.walk = wh.walk /\ s.pc = wh.pc
      /\ s.ends = wh.ends /\ s.dir_handle = wh.dir_handle /\ s.buffer = wh.buffer
      /\ s.req_pending = wh.req_pending /\ s.mem = wh.mem /\ s.locals = wh.locals
  BY <1>1 DEF StartHandle, Set, On, WatchFields, BaseFields
<1>3. wh' \in StartOutcomes(s)
  BY DEF uv_fs_event_start
<1>4. /\ wh.counted = 0 /\ wh.ends = 0 /\ ~wh.req_pending /\ ~wh.dir_handle
      /\ wh.kernel = {} /\ wh.pending = {} /\ wh.walk = {}
  BY <1>1 DEF WatchInv, WatchOk, WatchTypes, Ends, CountSound, Outstanding
<1> HIDE DEF s
<1>5. CASE wh' = [s EXCEPT !.mem = {"path"}, !.locals = @ \cup {"pathw"}]
  <2>1. /\ DOMAIN wh' = DOMAIN wh /\ wh'.flags = s.flags /\ wh'.counted = s.counted
        /\ wh'.kernel = s.kernel /\ wh'.pending = s.pending /\ wh'.walk = s.walk /\ wh'.pc = s.pc
        /\ wh'.ends = s.ends /\ wh'.dir_handle = s.dir_handle /\ wh'.buffer = s.buffer
        /\ wh'.req_pending = s.req_pending /\ "pathw" \in wh'.locals
    BY <1>1, <1>2, <1>5 DEF WatchFields, BaseFields
  <2>8. Ends(wh')
    BY <1>1, <1>2, <1>4, <2>1 DEF WatchInv, WatchOk, Ends, CountSound, On, Outstanding
  <2>9. WatchTypes(wh') /\ HeldOnce(wh')
    BY <1>1, <1>2, <1>4, <2>1 DEF WatchInv, WatchOk, WatchTypes, HeldOnce, Outstanding
  <2> QED
    BY <1>1, <1>2, <1>4, <2>1, <2>8, <2>9 DEF WatchInv, WatchOk, On, Outstanding, WatchAsks, WatchEnds
<1>6. CASE wh' = StartFails(s)
  <2>1. /\ DOMAIN wh' = DOMAIN wh /\ wh'.flags = s.flags \ {"ACTIVE"} /\ wh'.counted = s.counted - 1
        /\ wh'.kernel = s.kernel /\ wh'.pending = s.pending /\ wh'.walk = s.walk /\ wh'.pc = s.pc
        /\ wh'.ends = s.ends /\ wh'.dir_handle = FALSE /\ wh'.buffer = FALSE
        /\ wh'.req_pending = s.req_pending /\ wh'.mem = {}
    BY <1>1, <1>2, <1>6 DEF StartFails, StopHandle, Clear, On, WatchFields, BaseFields
  <2>8. Ends(wh')
    BY <1>1, <1>2, <1>4, <2>1 DEF WatchInv, WatchOk, Ends, CountSound, On, Outstanding
  <2>9. WatchTypes(wh') /\ HeldOnce(wh')
    BY <1>1, <1>2, <1>4, <2>1 DEF WatchInv, WatchOk, WatchTypes, HeldOnce, Outstanding
  <2> QED
    BY <1>1, <1>2, <1>4, <2>1, <2>8, <2>9 DEF WatchInv, WatchOk, On, Outstanding, WatchAsks, WatchEnds
<1>7. ASSUME NEW k, NEW mem, wh' = Started(k, mem),
             k = s \/ \E l : k = [s EXCEPT !.locals = l]
      PROVE  WatchInv'
  <2>1. /\ DOMAIN k = DOMAIN wh /\ k.flags = s.flags /\ k.counted = s.counted
        /\ k.kernel = s.kernel /\ k.pending = s.pending /\ k.walk = s.walk /\ k.pc = s.pc
        /\ k.ends = s.ends
    BY <1>1, <1>2, <1>7 DEF WatchFields, BaseFields
  <2>2. /\ DOMAIN wh' = DOMAIN wh /\ wh'.flags = s.flags /\ wh'.counted = s.counted
        /\ wh'.kernel = s.kernel \cup {"req"} /\ wh'.pending = s.pending /\ wh'.walk = s.walk
        /\ wh'.pc = s.pc /\ wh'.ends = s.ends /\ wh'.dir_handle = TRUE /\ wh'.buffer = TRUE
        /\ wh'.req_pending = TRUE
    BY <1>1, <1>7, <2>1 DEF Started, WatchFields, BaseFields
  <2>8. Ends(wh')
    BY <1>1, <1>2, <1>4, <2>2 DEF WatchInv, WatchOk, Ends, CountSound, On, Outstanding
  <2>7. Outstanding(wh') = {"req"} /\ HeldOnce(wh')
    BY <1>2, <1>4, <2>2 DEF HeldOnce, Outstanding
  <2>9. WatchTypes(wh') /\ HeldOnce(wh')
    BY <1>1, <1>2, <2>2, <2>7 DEF WatchTypes
  <2> QED
    BY <1>1, <1>2, <1>4, <2>2, <2>8, <2>9 DEF WatchInv, WatchOk, On, Outstanding, WatchAsks, WatchEnds
<1>8. \/ wh' = [s EXCEPT !.mem = {"path"}, !.locals = @ \cup {"pathw"}]
      \/ wh' = StartFails(s)
      \/ \E k, mem : wh' = Started(k, mem) /\ (k = s \/ \E l : k = [s EXCEPT !.locals = l])
  BY <1>3 DEF StartOutcomes
<1> QED BY <1>5, <1>6, <1>7, <1>8

\* What stopping leaves of a handle.
LEMMA WatchStopped ==
  ASSUME NEW h, WatchOk(h), NEW g, g = FsEventStop(h)
  PROVE  /\ WatchOk(g) /\ ~On(g, "ACTIVE") /\ g.pc = h.pc /\ g.req_pending = h.req_pending
         /\ g.flags = h.flags \ {"ACTIVE"} /\ g.mem = {} /\ ~g.dir_handle
<1>1. CASE ~On(h, "ACTIVE")
  BY <1>1 DEF FsEventStop, WatchOk, WatchTypes, On
<1>2. CASE On(h, "ACTIVE")
  <2> DEFINE f == [h EXCEPT !.dir_handle = FALSE, !.mem = {}]
  <2>1. /\ DOMAIN f = DOMAIN h /\ f.flags = h.flags /\ f.counted = h.counted
        /\ f.kernel = h.kernel /\ f.pending = h.pending /\ f.walk = h.walk /\ f.pc = h.pc
        /\ f.ends = h.ends /\ f.dir_handle = FALSE /\ f.buffer = h.buffer
        /\ f.req_pending = h.req_pending /\ f.mem = {}
    BY DEF WatchOk, WatchTypes, WatchFields, BaseFields
  <2>2. g = StopHandle(f)
    BY <1>2 DEF FsEventStop
  <2> HIDE DEF f
  <2>3. /\ DOMAIN g = DOMAIN h /\ g.flags = h.flags \ {"ACTIVE"} /\ g.counted = h.counted - 1
        /\ g.kernel = h.kernel /\ g.pending = h.pending /\ g.walk = h.walk /\ g.pc = h.pc
        /\ g.ends = h.ends /\ g.dir_handle = FALSE /\ g.buffer = h.buffer
        /\ g.req_pending = h.req_pending /\ g.mem = {}
    BY <1>2, <2>1, <2>2 DEF StopHandle, Clear, On, WatchOk, WatchTypes, WatchFields, BaseFields
  <2>4. Ends(g)
    BY <1>2, <2>3 DEF WatchOk, Ends, CountSound, On, Outstanding
  <2> QED BY <2>3, <2>4 DEF WatchOk, WatchTypes, On, HeldOnce, Outstanding
<1> QED BY <1>1, <1>2

LEMMA WatchStopKeeps == ASSUME WatchInv, uv_fs_event_stop PROVE WatchInv'
BY WatchStopped DEF WatchInv, uv_fs_event_stop, WatchAsks, WatchEnds, On

\* The end of the handler, of a handle that is not closed and asks for nothing.
LEMMA AfterChangesKeeps ==
  ASSUME NEW h, WatchOk(h), h.pc = "idle", ~On(h, "CLOSED"), ~h.req_pending, h.buffer, NEW g \in AfterChanges(h)
  PROVE  WatchOk(g) /\ g.pc = "idle" /\ WatchAsks(g) /\ WatchEnds(g)
<1>1. DOMAIN h = WatchFields /\ Outstanding(h) = {}
  BY DEF WatchOk, WatchTypes
<1>2. CASE On(h, "CLOSING")
  <2>1. /\ DOMAIN g = DOMAIN h /\ g.flags = h.flags \cup {"ENDGAME_QUEUED"} /\ g.counted = h.counted
        /\ g.kernel = h.kernel /\ g.pending = h.pending /\ g.walk = h.walk /\ g.pc = h.pc
        /\ g.ends = h.ends /\ g.dir_handle = h.dir_handle /\ g.buffer = h.buffer
        /\ g.req_pending = h.req_pending /\ g.mem = h.mem
    BY <1>1, <1>2 DEF AfterChanges, WantEndgame, Set, WatchFields, BaseFields
  <2> QED
    BY <1>2, <2>1 DEF WatchOk, WatchTypes, Ends, CountSound, On, HeldOnce, Outstanding, WatchAsks, WatchEnds
<1>3. CASE ~On(h, "CLOSING") /\ On(h, "ACTIVE")
  <2> DEFINE f == [h EXCEPT !.req_pending = TRUE]
  <2>1. /\ DOMAIN f = DOMAIN h /\ f.flags = h.flags /\ f.counted = h.counted
        /\ f.kernel = h.kernel /\ f.pending = h.pending /\ f.walk = h.walk /\ f.pc = h.pc
        /\ f.ends = h.ends /\ f.dir_handle = h.dir_handle /\ f.buffer = h.buffer
        /\ f.req_pending = TRUE /\ f.mem = h.mem
    BY <1>1 DEF WatchFields, BaseFields
  <2>2. g = [f EXCEPT !.kernel = @ \cup {"req"}] \/ g = [f EXCEPT !.pending = @ \cup {"req"}, !.ok = {}]
    BY <1>3 DEF AfterChanges, QueueChanges
  <2> HIDE DEF f
  <2>3. /\ DOMAIN g = DOMAIN h /\ g.flags = h.flags /\ g.counted = h.counted
        /\ g.walk = h.walk /\ g.pc = h.pc
        /\ g.ends = h.ends /\ g.dir_handle = h.dir_handle /\ g.buffer = h.buffer
        /\ g.req_pending = TRUE /\ g.mem = h.mem
        /\ \/ g.kernel = h.kernel \cup {"req"} /\ g.pending = h.pending
           \/ g.kernel = h.kernel /\ g.pending = h.pending \cup {"req"}
    <3>1. CASE g = [f EXCEPT !.kernel = @ \cup {"req"}]
      BY <1>1, <2>1, <3>1 DEF WatchFields, BaseFields
    <3>2. CASE g = [f EXCEPT !.pending = @ \cup {"req"}, !.ok = {}]
      BY <1>1, <2>1, <3>2 DEF WatchFields, BaseFields
    <3> QED BY <2>2, <3>1, <3>2
  <2>4. Outstanding(g) = {"req"}
    BY <1>1, <2>3 DEF Outstanding
  <2> QED
    BY <1>1, <1>3, <2>3, <2>4 DEF WatchOk, WatchTypes, Ends, CountSound, On, HeldOnce, Outstanding, WatchAsks,
                              WatchEnds
<1>4. CASE ~On(h, "CLOSING") /\ ~On(h, "ACTIVE")
  BY <1>4 DEF AfterChanges, WatchAsks, WatchEnds
<1> QED BY <1>2, <1>3, <1>4

\* The walk over the entries.
LEMMA TellEntryKeeps ==
  ASSUME NEW h, WatchOk(h), ~On(h, "CLOSED"), ~h.req_pending, h.buffer, NEW g \in TellEntry(h)
  PROVE  WatchOk(g) /\ (g.pc = "idle" => WatchAsks(g) /\ WatchEnds(g))
<1>1. DOMAIN h = WatchFields /\ Outstanding(h) = {}
  BY DEF WatchOk, WatchTypes
<1>2. CASE h.entries = <<>> \/ On(h, "CLOSING")
  <2> DEFINE f == [Returned(h) EXCEPT !.entries = <<>>]
  <2>1. /\ DOMAIN f = DOMAIN h /\ f.flags = h.flags /\ f.counted = h.counted
        /\ f.kernel = h.kernel /\ f.pending = h.pending /\ f.walk = h.walk /\ f.pc = "idle"
        /\ f.ends = h.ends /\ f.dir_handle = h.dir_handle /\ f.buffer = h.buffer
        /\ f.req_pending = h.req_pending /\ f.mem = h.mem
    BY <1>1 DEF Returned, WatchFields, BaseFields
  <2>2. g \in AfterChanges(f)
    BY <1>2 DEF TellEntry
  <2> HIDE DEF f
  <2>3. WatchOk(f)
    BY <2>1 DEF WatchOk, WatchTypes, Ends, CountSound, On, HeldOnce, Outstanding
  <2>4. ~On(f, "CLOSED") /\ ~f.req_pending /\ f.buffer
    BY <2>1 DEF On
  <2> QED BY <2>1, <2>2, <2>3, <2>4, AfterChangesKeeps
<1>3. CASE ~(h.entries = <<>> \/ On(h, "CLOSING"))
  <2> DEFINE f == [h EXCEPT !.entries = Tail(@)]
  <2>1. PICK pc \in {"fs_event_cb", "next_entry"} : g = CallUser(f, pc, "req")
    BY <1>3 DEF TellEntry
  <2>2. /\ DOMAIN g = DOMAIN h /\ g.flags = h.flags /\ g.counted = h.counted
        /\ g.kernel = h.kernel /\ g.pending = h.pending /\ g.walk = h.walk /\ g.pc = pc
        /\ g.ends = h.ends /\ g.dir_handle = h.dir_handle /\ g.buffer = h.buffer
        /\ g.req_pending = h.req_pending /\ g.mem = h.mem
    BY <1>1, <2>1 DEF CallUser, WatchFields, BaseFields
  <2> QED
    BY <2>2 DEF WatchOk, WatchTypes, Ends, CountSound, On, HeldOnce, Outstanding
<1> QED BY <1>2, <1>3

LEMMA WatchReqKeeps == ASSUME WatchInv, uv__process_fs_event_req PROVE WatchInv'
<1> DEFINE h == [Handling(wh, "req") EXCEPT !.req_pending = FALSE]
<1>1. DOMAIN wh = WatchFields /\ "req" \in wh.walk /\ wh.pc = "idle" /\ wh.buffer /\ ~On(wh, "CLOSED")
  BY DEF WatchInv, WatchOk, WatchTypes, uv__process_fs_event_req, CanHandle, Outstanding
<1>2. /\ DOMAIN h = DOMAIN wh /\ h.flags = wh.flags /\ h.counted = wh.counted
      /\ h.kernel = wh.kernel /\ h.pending = wh.pending /\ h.walk = wh.walk \ {"req"} /\ h.pc = "idle"
      /\ h.ends = wh.ends /\ h.dir_handle = wh.dir_handle /\ h.buffer = wh.buffer
      /\ h.req_pending = FALSE /\ h.mem = wh.mem
  BY <1>1 DEF Handling, WatchFields, BaseFields
<1>3. \/ ~On(h, "ACTIVE") /\ wh' \in AfterChanges(h)
      \/ wh' = CallUser([h EXCEPT !.entries = <<>>], "fs_event_cb", "req")
      \/ wh' \in TellEntry(h)
  BY DEF uv__process_fs_event_req, AfterChanges
<1> HIDE DEF h
<1>4. Outstanding(h) = {}
  BY <1>1, <1>2 DEF WatchInv, WatchOk, WatchTypes, Outstanding, HeldOnce
<1>5. WatchOk(h) /\ ~On(h, "CLOSED")
  BY <1>1, <1>2, <1>4 DEF WatchInv, WatchOk, WatchTypes, Ends, CountSound, On, HeldOnce
<1>6. CASE wh' \in AfterChanges(h)
  BY <1>1, <1>2, <1>5, <1>6, AfterChangesKeeps DEF WatchInv
<1>7. CASE wh' = CallUser([h EXCEPT !.entries = <<>>], "fs_event_cb", "req")
  <2>1. /\ DOMAIN wh' = DOMAIN h /\ wh'.flags = h.flags /\ wh'.counted = h.counted
        /\ wh'.kernel = h.kernel /\ wh'.pending = h.pending /\ wh'.walk = h.walk /\ wh'.pc = "fs_event_cb"
        /\ wh'.ends = h.ends /\ wh'.dir_handle = h.dir_handle /\ wh'.buffer = h.buffer
        /\ wh'.req_pending = h.req_pending /\ wh'.mem = h.mem
    BY <1>1, <1>2, <1>7 DEF CallUser, WatchFields, BaseFields
  <2> QED
    BY <1>1, <1>2, <1>5, <2>1 DEF WatchInv, WatchOk, WatchTypes, Ends, CountSound, On, HeldOnce, Outstanding
<1>8. CASE wh' \in TellEntry(h)
  BY <1>1, <1>2, <1>5, <1>8, TellEntryKeeps DEF WatchInv
<1> QED BY <1>3, <1>6, <1>7, <1>8

LEMMA NextEntryKeeps == ASSUME WatchInv, NextEntry PROVE WatchInv'
BY TellEntryKeeps DEF NextEntry, WatchInv, WatchOk, Ends

LEMMA WatchCloseKeeps == ASSUME WatchInv, WinFsEventClose \/ uv__fs_event_endgame PROVE WatchInv'
<1>1. CASE WinFsEventClose
  <2> DEFINE f == FsEventStop(wh)
             h == HandleClosing(f)
  <2>1. /\ WatchOk(f) /\ ~On(f, "ACTIVE") /\ f.pc = wh.pc /\ f.req_pending = wh.req_pending
        /\ f.flags = wh.flags \ {"ACTIVE"} /\ f.mem = {} /\ ~f.dir_handle
    BY WatchStopped DEF WatchInv
  <2>2. ~On(f, "CLOSING") /\ ~On(f, "CLOSED")
    BY <1>1, <2>1 DEF WinFsEventClose, Watches, WatchOk, Ends, On
  <2>3. wh' = IF h.req_pending THEN h ELSE WantEndgame(h)
    BY <1>1 DEF WinFsEventClose
  <2> HIDE DEF f
  <2>4. /\ DOMAIN h = DOMAIN f /\ h.flags = (f.flags \cup {"CLOSING"}) \ {"ACTIVE"} /\ h.counted = f.counted + 1
        /\ h.kernel = f.kernel /\ h.pending = f.pending /\ h.walk = f.walk /\ h.pc = f.pc
        /\ h.ends = f.ends /\ h.dir_handle = f.dir_handle /\ h.buffer = f.buffer
        /\ h.req_pending = f.req_pending /\ h.mem = {}
    BY <2>1 DEF HandleClosing, WatchOk, WatchTypes, WatchFields, BaseFields
  <2> HIDE DEF h
  <2>5. /\ DOMAIN wh' = DOMAIN h
        /\ wh'.flags = h.flags \cup (IF h.req_pending THEN {} ELSE {"ENDGAME_QUEUED"})
        /\ wh'.counted = h.counted
        /\ wh'.kernel = h.kernel /\ wh'.pending = h.pending /\ wh'.walk = h.walk /\ wh'.pc = h.pc
        /\ wh'.ends = h.ends /\ wh'.dir_handle = h.dir_handle /\ wh'.buffer = h.buffer
        /\ wh'.req_pending = h.req_pending /\ wh'.mem = {}
    BY <2>1, <2>3, <2>4 DEF WantEndgame, Set, WatchOk, WatchTypes, WatchFields, BaseFields
  <2>6. Ends(wh')
    BY <2>1, <2>2, <2>4, <2>5 DEF WatchOk, Ends, CountSound, On, Outstanding
  <2> QED
    BY <2>1, <2>2, <2>4, <2>5, <2>6 DEF WatchInv, WatchOk, WatchTypes, On, HeldOnce, Outstanding, WatchAsks, WatchEnds
<1>2. CASE uv__fs_event_endgame
  <2>1. DOMAIN wh = WatchFields /\ wh.pc = "idle" /\ On(wh, "CLOSING") /\ ~On(wh, "CLOSED") /\ WatchOk(wh)
    BY <1>2 DEF uv__fs_event_endgame, CanEnd, WatchInv, WatchOk, WatchTypes, Ends, CountSound
  <2>2. CASE wh.req_pending
    <3>1. /\ DOMAIN wh' = DOMAIN wh /\ wh'.flags = wh.flags \ {"ENDGAME_QUEUED"} /\ wh'.counted = wh.counted
          /\ wh'.kernel = wh.kernel /\ wh'.pending = wh.pending /\ wh'.walk = wh.walk /\ wh'.pc = wh.pc
          /\ wh'.ends = wh.ends /\ wh'.dir_handle = wh.dir_handle /\ wh'.buffer = wh.buffer
          /\ wh'.req_pending = wh.req_pending /\ wh'.mem = wh.mem
      BY <1>2, <2>1, <2>2 DEF uv__fs_event_endgame, Ending, Clear, WatchFields, BaseFields
    <3> QED
      BY <2>1, <2>2, <3>1 DEF WatchInv, WatchOk, WatchTypes, Ends, CountSound, On, HeldOnce, Outstanding,
                              WatchAsks, WatchEnds
  <2>3. CASE ~wh.req_pending
    <3>1. /\ DOMAIN wh' = DOMAIN wh /\ wh'.flags = (wh.flags \ {"ENDGAME_QUEUED"}) \cup {"CLOSED"}
          /\ wh'.counted = wh.counted - 1
          /\ wh'.kernel = wh.kernel /\ wh'.pending = wh.pending /\ wh'.walk = wh.walk /\ wh'.pc = wh.pc
          /\ wh'.ends = wh.ends + 1 /\ wh'.dir_handle = wh.dir_handle /\ wh'.buffer = FALSE
          /\ wh'.req_pending = wh.req_pending /\ wh'.mem = wh.mem
      BY <1>2, <2>1, <2>3 DEF uv__fs_event_endgame, HandleClose, Ending, Clear, Set, WatchFields, BaseFields
    <3>2. Outstanding(wh) = {}
      BY <2>1, <2>3 DEF WatchOk, WatchTypes
    <3>3. Ends(wh')
      BY <2>1, <3>1, <3>2 DEF WatchOk, Ends, CountSound, On, Outstanding
    <3>4. ~wh.dir_handle
      BY <2>1 DEF WatchOk, Ends
    <3> QED
      BY <2>1, <2>3, <3>1, <3>2, <3>3, <3>4 DEF WatchInv, WatchOk, WatchTypes, On, HeldOnce, Outstanding,
                                            Ends, WatchAsks, WatchEnds
  <2> QED BY <2>2, <2>3
<1> QED BY <1>1, <1>2

LEMMA WatchSystemKeeps == ASSUME WatchInv, DirectoryChanges \/ FsEventWalk PROVE WatchInv'
<1>1. DOMAIN wh = WatchFields /\ WatchTypes(wh)
  BY DEF WatchInv, WatchOk, WatchTypes
<1>2. /\ DOMAIN wh' = DOMAIN wh /\ wh'.flags = wh.flags /\ wh'.counted = wh.counted /\ wh'.pc = wh.pc
      /\ wh'.ends = wh.ends /\ wh'.dir_handle = wh.dir_handle /\ wh'.buffer = wh.buffer
      /\ wh'.req_pending = wh.req_pending /\ wh'.mem = wh.mem /\ wh'.locals = wh.locals
      /\ \/ /\ "req" \in wh.kernel /\ wh'.kernel = wh.kernel \ {"req"}
            /\ wh'.pending = wh.pending \cup {"req"} /\ wh'.walk = wh.walk
         \/ wh.walk = {} /\ wh'.kernel = wh.kernel /\ wh'.pending = {} /\ wh'.walk = wh.pending
  <2>1. CASE DirectoryChanges
    BY <2>1, <1>1 DEF DirectoryChanges, Completed, WatchFields, BaseFields
  <2>2. CASE FsEventWalk
    BY <1>1, <2>2 DEF FsEventWalk, CanWalk, WalkReqs, WatchFields, BaseFields
  <2> QED BY <2>1, <2>2
<1>3. Outstanding(wh') = Outstanding(wh)
  BY <1>2 DEF Outstanding
<1>4. HeldOnce(wh')
  BY <1>2 DEF WatchInv, WatchOk, HeldOnce
<1> QED
  BY <1>2, <1>3, <1>4 DEF WatchInv, WatchOk, WatchTypes, Ends, CountSound, On, WatchAsks, WatchEnds

LEMMA WatchNextKeeps == ASSUME WatchInv, WinFsEventNext PROVE WatchInv'
BY WatchStartKeeps, WatchStopKeeps, WatchReqKeeps, NextEntryKeeps, WatchCloseKeeps, WatchSystemKeeps
   DEF WinFsEventNext

-----------------------------------------------------------------------------
(* A child process.                                                        *)

ChildFields ==
  BaseFields \cup {"stdio", "env", "step", "mem", "child", "handles", "parent", "process_handle",
                   "wait", "exit_cb_pending", "exit_signal", "alive", "told"}

ChildTypes(h) ==
  /\ DOMAIN h = ChildFields
  /\ h.stdio \in Seq(StdioKinds) /\ h.child \in Nat
  /\ h.step \in {"init", "done"} \cup Range(SpawnStrings)
  /\ h.mem \subseteq Range(SpawnStrings) \cup {"application_path"}
  /\ h.process_handle \in BOOLEAN /\ h.exit_cb_pending \in BOOLEAN
  /\ h.wait \in {"none", "registered", "running", "returned"} /\ h.told \in {0, 1}
  /\ h.pc \in {"idle", "exit_cb"}

\* As long as uv_spawn() runs.
Unborn(h) ==
  /\ ~h.process_handle /\ h.wait = "none" /\ h.told = 0 /\ h.pc = "idle"
  /\ ~On(h, "ACTIVE") /\ ~On(h, "CLOSING")

ChildOk(h) ==
  /\ ChildTypes(h) /\ Ends(h)
  /\ IF h.step = "done" THEN h.mem = {} /\ h.handles = {} ELSE Unborn(h)
  /\ On(h, "ACTIVE") <=> h.process_handle /\ h.told = 0 /\ ~On(h, "CLOSING")
  /\ h.exit_cb_pending <=> h.wait = "running" \/ "exit_req" \in Outstanding(h)
  /\ Outstanding(h) \subseteq {"exit_req"} /\ HeldOnce(h)
  /\ h.wait \in {"registered", "running"} => Outstanding(h) = {}
  /\ h.wait # "none" => On(h, "ACTIVE")
  /\ h.wait = "none" /\ ~On(h, "CLOSING") => Outstanding(h) = {}
  /\ h.pc # "idle" => Outstanding(h) = {} /\ h.wait = "none"
  /\ On(h, "CLOSED") => ~h.process_handle
  /\ On(h, "CLOSING") /\ ~On(h, "CLOSED") =>
       (On(h, "ENDGAME_QUEUED") <=> ~h.exit_cb_pending)

ChildInv == ChildOk(wh)

\* The fields ChildOk() is about are the same.
ChildSame(g, h) ==
  /\ DOMAIN g = DOMAIN h /\ g.flags = h.flags /\ g.counted = h.counted /\ g.ends = h.ends
  /\ g.kernel = h.kernel /\ g.pending = h.pending /\ g.walk = h.walk /\ g.pc = h.pc
  /\ g.process_handle = h.process_handle /\ g.wait = h.wait /\ g.told = h.told
  /\ g.exit_cb_pending = h.exit_cb_pending /\ g.stdio = h.stdio

LEMMA ChildInitInv == WinProcessInit => ChildInv
<1> SUFFICES ASSUME WinProcessInit PROVE ChildInv
  OBVIOUS
<1>1. /\ DOMAIN wh = ChildFields /\ wh.flags = {} /\ wh.counted = 0 /\ wh.ends = 0
      /\ wh.kernel = {} /\ wh.pending = {} /\ wh.walk = {} /\ wh.pc = "idle"
  BY DEF WinProcessInit, NewHandle, HandleOf, BaseFields, ChildFields
<1>2. /\ wh.step = "init" /\ wh.mem = {} /\ wh.process_handle = FALSE /\ wh.wait = "none"
      /\ wh.exit_cb_pending = FALSE /\ wh.told = 0
  BY DEF WinProcessInit, NewHandle, HandleOf
<1>3. Outstanding(wh) = {} /\ HeldOnce(wh)
  BY <1>1 DEF HeldOnce, Outstanding
<1>6. wh.stdio \in Seq(StdioKinds) /\ wh.child \in Nat
  BY WinProcessAssumption DEF WinProcessInit, NewHandle, HandleOf
<1>4. ChildTypes(wh)
  BY <1>1, <1>2, <1>6 DEF ChildTypes
<1>5. Ends(wh)
  BY <1>1, <1>3 DEF Ends, CountSound, On
<1> QED BY <1>1, <1>2, <1>3, <1>4, <1>5 DEF ChildInv, ChildOk, Unborn, On

LEMMA ChildInvSound == ChildInv => WinProcessSound
BY DEF ChildInv, WinProcessSound, ChildOk, ChildTypes, Ends, Spawns, On, Unborn

\* uv_spawn() goes on with something else than what it was about.
LEMMA SpawnGoesOn ==
  ASSUME ChildInv, wh.step # "done", ChildSame(wh', wh), ChildTypes(wh'),
         wh'.step # "done" \/ (wh'.mem = {} /\ wh'.handles = {})
  PROVE  ChildInv'
BY DEF ChildInv, ChildOk, ChildSame, HeldOnce, Outstanding, Ends, CountSound, On, Unborn

\* The end of uv_spawn().
LEMMA SpawnEnded ==
  ASSUME NEW h, ChildTypes(h), NEW g, g = SpawnEnds(h)
  PROVE  ChildSame(g, h) /\ ChildTypes(g) /\ g.step = "done" /\ g.mem = {} /\ g.handles = {}
<1> DEFINE s == StdioDestroy(h)
<1>1. /\ DOMAIN s = DOMAIN h /\ s.mem = h.mem \ {"stdio"} /\ s.handles = {} /\ s.child = 0
      /\ ChildSame(s, h)
  BY DEF StdioDestroy, ChildTypes, ChildFields, BaseFields, ChildSame
<1> HIDE DEF s
<1>2. /\ DOMAIN g = DOMAIN s /\ g.step = "done" /\ g.handles = {} /\ g.child = 0
      /\ g.mem = s.mem \ {"application", "application_path", "arguments", "cwd", "env", "alloc_path"}
      /\ ChildSame(g, s)
  BY <1>1 DEF SpawnEnds, s, ChildTypes, ChildFields, BaseFields, ChildSame
<1>3. Range(SpawnStrings) = {"application", "arguments", "env", "cwd", "alloc_path", "stdio"}
  BY DEF Range, SpawnStrings
<1>4. g.mem = {}
  BY <1>1, <1>2, <1>3 DEF ChildTypes
<1>5. ChildTypes(g)
  BY <1>1, <1>2, <1>4 DEF ChildTypes, ChildSame
<1> QED BY <1>1, <1>2, <1>4, <1>5 DEF ChildSame

LEMMA SpawnStringKeeps == ASSUME ChildInv, SpawnString PROVE ChildInv'
<1> DEFINE i == IF wh.step = "init" THEN 1 ELSE SelectInSeq(SpawnStrings, LAMBDA s : s = wh.step) + 1
           h == [wh EXCEPT !.step = SpawnStrings[i]]
<1>1. i \in 1 .. 6
  <2> DEFINE I == {k \in 1 .. Len(SpawnStrings) : SpawnStrings[k] = wh.step}
  <2>1. SelectInSeq(SpawnStrings, LAMBDA s : s = wh.step) = IF I # {} THEN Min(I) ELSE 0
    BY DEF SelectInSeq
  <2>2. wh.step \in {"init", "application", "arguments", "env", "cwd", "alloc_path"}
    BY DEF SpawnString, Range, SpawnStrings
  <2>3. I = {} \/ \E k \in 1 .. 5 : I = {k}
    BY <2>2 DEF SpawnStrings
  <2>4. \A k \in 1 .. 5 : I = {k} => Min(I) = k
    BY DEF Min
  <2> HIDE DEF I
  <2> QED BY <2>1, <2>3, <2>4
<1> HIDE DEF i
<1>2. ChildTypes(wh) /\ wh.step # "done"
  BY DEF ChildInv, ChildOk, SpawnString, Range, SpawnStrings
<1>3. SpawnStrings[i] \in Range(SpawnStrings) /\ "done" \notin Range(SpawnStrings)
  BY <1>1 DEF Range, SpawnStrings
<1>4. /\ DOMAIN h = DOMAIN wh /\ h.step = SpawnStrings[i] /\ h.mem = wh.mem /\ ChildSame(h, wh)
      /\ h.child = wh.child
  BY <1>2 DEF ChildTypes, ChildFields, BaseFields, ChildSame
<1>5. wh' = [h EXCEPT !.mem = @ \cup {SpawnStrings[i]}] \/ wh' = h \/ wh' = SpawnEnds(wh)
  BY DEF SpawnString, i
<1> HIDE DEF h
<1>6. CASE wh' = [h EXCEPT !.mem = @ \cup {SpawnStrings[i]}]
  BY <1>2, <1>4, <1>6, <1>3, SpawnGoesOn DEF ChildTypes, ChildFields, BaseFields, ChildSame
<1>7. CASE wh' = h
  BY <1>2, <1>3, <1>4, <1>7, SpawnGoesOn DEF ChildTypes, ChildSame
<1>8. CASE wh' = SpawnEnds(wh)
  BY <1>2, <1>8, SpawnEnded, SpawnGoesOn
<1> QED BY <1>5, <1>6, <1>7, <1>8

LEMMA StdioCreateKeeps == ASSUME ChildInv, uv__stdio_create PROVE ChildInv'
<1> DEFINE i == wh.child + 1
           h == [wh EXCEPT !.child = i]
           o == [h EXCEPT !.handles = @ \cup {i}]
           p == [o EXCEPT !.parent = @ \cup {i}]
           d == StdioDestroy(wh)
<1>1. ChildTypes(wh) /\ wh.step = "stdio" /\ i \in Nat \ {0}
  BY DEF ChildInv, ChildOk, uv__stdio_create, ChildTypes
<1>2. StdioKind(i) \in StdioKinds
  BY <1>1 DEF StdioKind, StdioKinds, ChildTypes
<1>3. wh' \in StdioFills(i) \/ wh' = SpawnEnds(d)
  BY DEF uv__stdio_create
<1>4. ASSUME wh' \in StdioFills(i) PROVE wh' = h \/ wh' = o \/ wh' = p
  BY <1>4, <1>2 DEF StdioFills, StdioKinds
<1> HIDE DEF i
<1>5. \A g \in {h, o, p} : ChildSame(g, wh) /\ g.step = wh.step /\ g.mem = wh.mem /\ g.child = i
  <2>1. ChildSame(h, wh) /\ h.step = wh.step /\ h.mem = wh.mem /\ h.child = i
    BY <1>1 DEF ChildTypes, ChildFields, BaseFields, ChildSame
  <2> HIDE DEF h
  <2>2. ChildSame(o, h) /\ o.step = h.step /\ o.mem = h.mem /\ o.child = h.child
    BY <1>1, <2>1 DEF ChildTypes, ChildFields, BaseFields, ChildSame
  <2> HIDE DEF o
  <2>3. ChildSame(p, o) /\ p.step = o.step /\ p.mem = o.mem /\ p.child = o.child
    BY <1>1, <2>1, <2>2 DEF ChildTypes, ChildFields, BaseFields, ChildSame
  <2> HIDE DEF p
  <2> QED BY <2>1, <2>2, <2>3 DEF ChildSame
<1>6. ChildSame(d, wh) /\ d.step = wh.step /\ d.mem \subseteq wh.mem /\ d.child = 0
  BY <1>1 DEF StdioDestroy, ChildTypes, ChildFields, BaseFields, ChildSame
<1> HIDE DEF h, o, p, d
<1>7. CASE wh' \in {h, o, p}
  BY <1>1, <1>5, <1>7, SpawnGoesOn DEF ChildTypes, ChildSame
<1>8. CASE wh' = SpawnEnds(d)
  BY <1>1, <1>6, <1>8, SpawnEnded, SpawnGoesOn DEF ChildTypes, ChildSame
<1> QED BY <1>3, <1>4, <1>7, <1>8

LEMMA CreateProcessKeeps == ASSUME ChildInv, CreateProcess PROVE ChildInv'
<1> DEFINE h == [wh EXCEPT !.mem = @ \cup {"application_path"}]
           c == [wh EXCEPT !.mem = @ \cup {"application_path"}, !.process_handle = TRUE, !.alive = TRUE,
                           !.wait = "registered"]
           s == StartHandle(c)
<1>1. ChildTypes(wh) /\ wh.step # "done" /\ Unborn(wh)
  BY DEF ChildInv, ChildOk, CreateProcess
<1>2. wh' = SpawnEnds(wh) \/ wh' = SpawnEnds(h) \/ wh' = SpawnEnds(s)
  BY DEF CreateProcess
<1>3. /\ ChildSame(h, wh) /\ h.step = wh.step /\ h.mem = wh.mem \cup {"application_path"}
      /\ h.child = wh.child
  BY <1>1 DEF ChildTypes, ChildFields, BaseFields, ChildSame
<1>4. /\ DOMAIN c = DOMAIN wh /\ c.flags = wh.flags /\ c.counted = wh.counted /\ c.ends = wh.ends
      /\ c.kernel = wh.kernel /\ c.pending = wh.pending /\ c.walk = wh.walk /\ c.pc = wh.pc
      /\ c.process_handle = TRUE /\ c.wait = "registered" /\ c.told = wh.told
      /\ c.exit_cb_pending = wh.exit_cb_pending /\ c.stdio = wh.stdio /\ c.step = wh.step
      /\ c.mem = wh.mem \cup {"application_path"} /\ c.child = wh.child
  BY <1>1 DEF ChildTypes, ChildFields, BaseFields
<1> HIDE DEF h, c
<1>5. /\ DOMAIN s = DOMAIN wh /\ s.flags = wh.flags \cup {"ACTIVE"} /\ s.counted = wh.counted + 1
      /\ s.ends = wh.ends
      /\ s.kernel = wh.kernel /\ s.pending = wh.pending /\ s.walk = wh.walk /\ s.pc = wh.pc
      /\ s.process_handle = TRUE /\ s.wait = "registered" /\ s.told = wh.told
      /\ s.exit_cb_pending = wh.exit_cb_pending /\ s.stdio = wh.stdio /\ s.step = wh.step
      /\ s.mem = wh.mem \cup {"application_path"} /\ s.child = wh.child
  BY <1>1, <1>4 DEF StartHandle, Set, On, Unborn, ChildTypes, ChildFields, BaseFields
<1> HIDE DEF s
<1>6. CASE wh' = SpawnEnds(wh)
  BY <1>1, <1>6, SpawnEnded, SpawnGoesOn
<1>7. CASE wh' = SpawnEnds(h)
  BY <1>1, <1>3, <1>7, SpawnEnded, SpawnGoesOn DEF ChildTypes, ChildSame
<1>8. CASE wh' = SpawnEnds(s)
  <2>1. ChildTypes(s)
    BY <1>1, <1>5 DEF ChildTypes
  <2>2. /\ ChildSame(wh', s) /\ ChildTypes(wh') /\ wh'.step = "done"
        /\ wh'.mem = {} /\ wh'.handles = {}
    BY <1>8, <2>1, SpawnEnded
  <2>3. Outstanding(wh) = {} /\ ~wh.exit_cb_pending /\ ~On(wh, "CLOSED")
    BY <1>1 DEF ChildInv, ChildOk, Unborn, Ends
  <2>4. Outstanding(wh') = {} /\ HeldOnce(wh')
    BY <1>5, <2>2, <2>3 DEF ChildSame, Outstanding, HeldOnce
  <2>5. Ends(wh')
    BY <1>1, <1>5, <2>2, <2>3, <2>4 DEF ChildSame, ChildInv, ChildOk, Unborn, Ends, CountSound, On
  <2> QED
    BY <1>1, <1>5, <2>2, <2>3, <2>4, <2>5 DEF ChildSame, ChildInv, ChildOk, Unborn, On
<1> QED BY <1>2, <1>6, <1>7, <1>8

\* Steps that touch nothing ChildOk() is about.
LEMMA ChildQuiet == ASSUME ChildInv, ChildExits \/ uv_process_kill PROVE ChildInv'
<1>1. ChildTypes(wh)
  BY DEF ChildInv, ChildOk
<1>2. /\ ChildSame(wh', wh) /\ wh'.step = wh.step /\ wh'.mem = wh.mem /\ wh'.handles = wh.handles
      /\ wh'.child = wh.child
  BY <1>1 DEF ChildExits, uv_process_kill, ChildTypes, ChildFields, BaseFields, ChildSame
<1>3. Outstanding(wh') = Outstanding(wh) /\ HeldOnce(wh')
  BY <1>2 DEF ChildInv, ChildOk, ChildSame, HeldOnce, Outstanding
<1>4. Ends(wh')
  BY <1>2, <1>3 DEF ChildInv, ChildOk, ChildSame, Ends, CountSound, On
<1>5. ChildTypes(wh')
  BY <1>1, <1>2 DEF ChildTypes, ChildSame
<1> QED BY <1>2, <1>3, <1>4, <1>5 DEF ChildInv, ChildOk, ChildSame, On, Unborn

\* A handle that is done with uv_spawn() and keeps what that set.
LEMMA ChildGoesOn ==
  ASSUME ChildInv, wh.step = "done", DOMAIN wh' = DOMAIN wh, wh'.stdio = wh.stdio,
         wh'.child = wh.child, wh'.step = wh.step, wh'.mem = wh.mem, wh'.handles = wh.handles,
         wh'.process_handle \in BOOLEAN, wh'.exit_cb_pending \in BOOLEAN,
         wh'.wait \in {"none", "registered", "running", "returned"}, wh'.told \in {0, 1},
         wh'.pc \in {"idle", "exit_cb"}
  PROVE  ChildTypes(wh') /\ wh'.step = "done" /\ wh'.mem = {} /\ wh'.handles = {}
BY DEF ChildInv, ChildOk, ChildTypes

LEMMA ExitWaitKeeps == ASSUME ChildInv, exit_wait_callback PROVE ChildInv'
<1>1. /\ ChildTypes(wh) /\ DOMAIN wh = ChildFields /\ wh.step = "done" /\ On(wh, "ACTIVE")
      /\ ~On(wh, "CLOSING") /\ ~On(wh, "CLOSED") /\ Outstanding(wh) = {}
  BY DEF ChildInv, ChildOk, ChildTypes, exit_wait_callback, Unborn, Ends
<1>2. /\ DOMAIN wh' = DOMAIN wh /\ wh'.stdio = wh.stdio /\ wh'.child = wh.child
      /\ wh'.step = wh.step /\ wh'.mem = wh.mem /\ wh'.handles = wh.handles /\ wh'.flags = wh.flags
      /\ wh'.counted = wh.counted /\ wh'.ends = wh.ends /\ wh'.walk = wh.walk /\ wh'.pc = wh.pc
      /\ wh'.process_handle = wh.process_handle /\ wh'.told = wh.told
      /\ \/ /\ wh'.wait = "running" /\ wh'.exit_cb_pending = TRUE /\ wh.wait = "registered"
            /\ wh'.kernel = wh.kernel /\ wh'.pending = wh.pending
         \/ /\ wh'.wait = "returned" /\ wh'.exit_cb_pending = wh.exit_cb_pending
            /\ wh'.kernel = wh.kernel \ {"exit_req"} /\ wh'.pending = wh.pending \cup {"exit_req"}
            /\ wh.wait = "running"
  <2>1. CASE wh.wait = "registered" /\ wh' = [wh EXCEPT !.wait = "running", !.exit_cb_pending = TRUE]
    BY <1>1, <2>1 DEF ChildFields, BaseFields
  <2>2. CASE wh.wait = "running" /\ wh' = [Completed(wh, "exit_req", TRUE) EXCEPT !.wait = "returned"]
    BY <1>1, <2>2 DEF Completed, ChildFields, BaseFields
  <2> QED BY <2>1, <2>2 DEF exit_wait_callback
<1>3. ChildTypes(wh') /\ wh'.step = "done" /\ wh'.mem = {} /\ wh'.handles = {}
  BY <1>1, <1>2, ChildGoesOn DEF ChildTypes
<1>4. wh.kernel = {} /\ wh.pending = {} /\ wh.walk = {}
  BY <1>1 DEF Outstanding
<1>5. Outstanding(wh') = (IF wh.wait = "running" THEN {"exit_req"} ELSE {}) /\ HeldOnce(wh')
  BY <1>2, <1>4 DEF Outstanding, HeldOnce
<1>6. Ends(wh')
  BY <1>1, <1>2 DEF ChildInv, ChildOk, Ends, CountSound, On
<1> QED BY <1>1, <1>2, <1>3, <1>5, <1>6 DEF ChildInv, ChildOk, On

LEMMA ProcExitKeeps == ASSUME ChildInv, uv__process_proc_exit PROVE ChildInv'
<1> DEFINE h == [Handling(wh, "exit_req") EXCEPT !.exit_cb_pending = FALSE]
           s == StopHandle(h)
<1>1. /\ ChildTypes(wh) /\ DOMAIN wh = ChildFields /\ wh.step = "done" /\ ~On(wh, "CLOSED")
      /\ "exit_req" \in wh.walk /\ wh.pc = "idle" /\ "exit_req" \in Outstanding(wh)
      /\ wh.exit_cb_pending
  BY DEF ChildInv, ChildOk, ChildTypes, uv__process_proc_exit, CanHandle, Outstanding, Unborn, Ends,
         CountSound
<1>2. /\ DOMAIN h = DOMAIN wh /\ h.stdio = wh.stdio /\ h.child = wh.child
      /\ h.step = wh.step /\ h.mem = wh.mem /\ h.handles = wh.handles /\ h.flags = wh.flags
      /\ h.counted = wh.counted /\ h.ends = wh.ends /\ h.walk = wh.walk \ {"exit_req"} /\ h.pc = wh.pc
      /\ h.process_handle = wh.process_handle /\ h.told = wh.told /\ h.wait = wh.wait
      /\ h.exit_cb_pending = FALSE /\ h.kernel = wh.kernel /\ h.pending = wh.pending
  BY <1>1 DEF Handling, ChildFields, BaseFields
<1>3. wh' = IF On(h, "CLOSING") THEN WantEndgame(h)
            ELSE CallUser([s EXCEPT !.wait = "none", !.told = @ + 1], "exit_cb", "exit_req")
  BY DEF uv__process_proc_exit
<1> HIDE DEF h
<1>4. Outstanding(h) = {}
  BY <1>1, <1>2 DEF ChildInv, ChildOk, Outstanding, HeldOnce
<1>a. h.kernel = {} /\ h.pending = {} /\ h.walk = {}
  BY <1>4 DEF Outstanding
<1>5. CASE On(h, "CLOSING")
  <2>1. /\ DOMAIN wh' = DOMAIN wh /\ wh'.stdio = wh.stdio /\ wh'.child = wh.child
        /\ wh'.step = wh.step /\ wh'.mem = wh.mem /\ wh'.handles = wh.handles
        /\ wh'.flags = wh.flags \cup {"ENDGAME_QUEUED"}
        /\ wh'.counted = wh.counted /\ wh'.ends = wh.ends /\ wh'.walk = {} /\ wh'.pc = wh.pc
        /\ wh'.process_handle = wh.process_handle /\ wh'.told = wh.told /\ wh'.wait = wh.wait
        /\ wh'.exit_cb_pending = FALSE /\ wh'.kernel = {} /\ wh'.pending = {}
    BY <1>1, <1>2, <1>3, <1>5, <1>a DEF WantEndgame, Set, ChildFields, BaseFields
  <2>2. Outstanding(wh') = {} /\ HeldOnce(wh')
    BY <2>1 DEF Outstanding, HeldOnce
  <2>3. Ends(wh')
    BY <1>1, <1>2, <1>5, <2>1, <2>2 DEF ChildInv, ChildOk, Ends, CountSound, On
  <2>4. ChildTypes(wh') /\ wh'.step = "done" /\ wh'.mem = {} /\ wh'.handles = {}
    BY <1>1, <2>1, ChildGoesOn DEF ChildTypes
  <2>5. wh.wait = "none"
    BY <1>2, <1>5 DEF ChildInv, ChildOk, Ends, On
  <2> QED BY <1>1, <1>2, <1>5, <2>1, <2>2, <2>3, <2>4, <2>5 DEF ChildInv, ChildOk, On
<1>6. CASE ~On(h, "CLOSING")
  <2>1. wh.wait = "returned" /\ On(wh, "ACTIVE") /\ wh.told = 0 /\ ~On(wh, "CLOSING")
    BY <1>1, <1>2, <1>6 DEF ChildInv, ChildOk, ChildTypes, On
  <2>2. /\ DOMAIN s = DOMAIN wh /\ s.stdio = wh.stdio /\ s.child = wh.child
        /\ s.step = wh.step /\ s.mem = wh.mem /\ s.handles = wh.handles
        /\ s.flags = wh.flags \ {"ACTIVE"}
        /\ s.counted = wh.counted - 1 /\ s.ends = wh.ends /\ s.walk = {} /\ s.pc = wh.pc
        /\ s.process_handle = wh.process_handle /\ s.told = wh.told /\ s.wait = wh.wait
        /\ s.exit_cb_pending = FALSE /\ s.kernel = {} /\ s.pending = {}
    BY <1>1, <1>2, <1>a, <2>1 DEF StopHandle, Clear, On, ChildFields, BaseFields
  <2> HIDE DEF s
  <2>3. /\ DOMAIN wh' = DOMAIN wh /\ wh'.stdio = wh.stdio /\ wh'.child = wh.child
        /\ wh'.step = wh.step /\ wh'.mem = wh.mem /\ wh'.handles = wh.handles
        /\ wh'.flags = s.flags
        /\ wh'.counted = s.counted /\ wh'.ends = wh.ends /\ wh'.walk = {} /\ wh'.pc = "exit_cb"
        /\ wh'.process_handle = wh.process_handle /\ wh'.told = s.told + 1 /\ wh'.wait = "none"
        /\ wh'.exit_cb_pending = FALSE /\ wh'.kernel = {} /\ wh'.pending = {}
    BY <1>1, <1>3, <1>6, <2>2 DEF CallUser, ChildFields, BaseFields
  <2>4. Outstanding(wh') = {} /\ HeldOnce(wh') /\ wh'.told = 1
    BY <2>1, <2>2, <2>3 DEF Outstanding, HeldOnce
  <2>5. Ends(wh')
    BY <1>1, <2>1, <2>2, <2>3, <2>4 DEF ChildInv, ChildOk, Ends, CountSound, On
  <2>6. ChildTypes(wh') /\ wh'.step = "done" /\ wh'.mem = {} /\ wh'.handles = {}
    BY <1>1, <2>3, <2>4, ChildGoesOn DEF ChildTypes
  <2> QED BY <1>1, <2>1, <2>2, <2>3, <2>4, <2>5, <2>6 DEF ChildInv, ChildOk, On
<1> QED BY <1>5, <1>6

LEMMA ExitDoneKeeps == ASSUME ChildInv, ExitDone \/ ProcessWalk PROVE ChildInv'
<1>1. ChildTypes(wh) /\ DOMAIN wh = ChildFields
  BY DEF ChildInv, ChildOk, ChildTypes
<1>2. /\ DOMAIN wh' = DOMAIN wh /\ wh'.stdio = wh.stdio /\ wh'.child = wh.child
      /\ wh'.step = wh.step /\ wh'.mem = wh.mem /\ wh'.handles = wh.handles /\ wh'.flags = wh.flags
      /\ wh'.counted = wh.counted /\ wh'.ends = wh.ends /\ wh'.pc = "idle"
      /\ wh'.process_handle = wh.process_handle /\ wh'.told = wh.told /\ wh'.wait = wh.wait
      /\ wh'.exit_cb_pending = wh.exit_cb_pending /\ wh'.kernel = wh.kernel
      /\ \/ wh'.pending = wh.pending /\ wh'.walk = wh.walk
         \/ wh'.pending = {} /\ wh'.walk = wh.pending /\ wh.walk = {}
  <2>1. CASE ExitDone
    BY <1>1, <2>1 DEF ExitDone, Returned, ChildFields, BaseFields
  <2>2. CASE ProcessWalk
    BY <1>1, <2>2 DEF ProcessWalk, CanWalk, WalkReqs, ChildFields, BaseFields
  <2> QED BY <2>1, <2>2
<1>3. Outstanding(wh') = Outstanding(wh) /\ HeldOnce(wh')
  BY <1>2 DEF ChildInv, ChildOk, HeldOnce, Outstanding
<1>4. Ends(wh')
  BY <1>2, <1>3 DEF ChildInv, ChildOk, Ends, CountSound, On
<1>5. ChildTypes(wh')
  BY <1>1, <1>2 DEF ChildTypes
<1> QED BY <1>2, <1>3, <1>4, <1>5 DEF ChildInv, ChildOk, On, Unborn

LEMMA ChildCloseKeeps == ASSUME ChildInv, uv__process_close PROVE ChildInv'
<1> DEFINE n == [wh EXCEPT !.wait = "none"]
           h == HandleClosing(n)
<1>1. /\ ChildTypes(wh) /\ DOMAIN wh = ChildFields /\ wh.step = "done" /\ ~On(wh, "CLOSING")
      /\ ~On(wh, "CLOSED") /\ ~On(wh, "ENDGAME_QUEUED") /\ wh.wait # "running"
  BY DEF ChildInv, ChildOk, ChildTypes, uv__process_close, Spawns, Ends
<1>2. /\ DOMAIN n = DOMAIN wh /\ n.stdio = wh.stdio /\ n.child = wh.child
      /\ n.step = wh.step /\ n.mem = wh.mem /\ n.handles = wh.handles /\ n.flags = wh.flags
      /\ n.counted = wh.counted /\ n.ends = wh.ends /\ n.walk = wh.walk /\ n.pc = wh.pc
      /\ n.process_handle = wh.process_handle /\ n.told = wh.told /\ n.wait = "none"
      /\ n.exit_cb_pending = wh.exit_cb_pending /\ n.kernel = wh.kernel /\ n.pending = wh.pending
  BY <1>1 DEF ChildFields, BaseFields
<1>3. wh' = IF h.exit_cb_pending THEN h ELSE WantEndgame(h)
  BY DEF uv__process_close
<1> HIDE DEF n
<1>4. /\ DOMAIN h = DOMAIN wh /\ h.stdio = wh.stdio /\ h.child = wh.child
      /\ h.step = wh.step /\ h.mem = wh.mem /\ h.handles = wh.handles
      /\ h.flags = (wh.flags \cup {"CLOSING"}) \ {"ACTIVE"}
      /\ h.counted = (IF On(wh, "ACTIVE") THEN wh.counted ELSE wh.counted + 1)
      /\ h.ends = wh.ends /\ h.walk = wh.walk /\ h.pc = wh.pc
      /\ h.process_handle = wh.process_handle /\ h.told = wh.told /\ h.wait = "none"
      /\ h.exit_cb_pending = wh.exit_cb_pending /\ h.kernel = wh.kernel /\ h.pending = wh.pending
  BY <1>1, <1>2 DEF HandleClosing, On, ChildFields, BaseFields
<1> HIDE DEF h
<1>5. /\ DOMAIN wh' = DOMAIN wh /\ wh'.stdio = wh.stdio /\ wh'.child = wh.child
      /\ wh'.step = wh.step /\ wh'.mem = wh.mem /\ wh'.handles = wh.handles
      /\ wh'.flags = h.flags \cup (IF wh.exit_cb_pending THEN {} ELSE {"ENDGAME_QUEUED"})
      /\ wh'.counted = h.counted
      /\ wh'.ends = wh.ends /\ wh'.walk = wh.walk /\ wh'.pc = wh.pc
      /\ wh'.process_handle = wh.process_handle /\ wh'.told = wh.told /\ wh'.wait = "none"
      /\ wh'.exit_cb_pending = wh.exit_cb_pending /\ wh'.kernel = wh.kernel /\ wh'.pending = wh.pending
  BY <1>1, <1>3, <1>4 DEF WantEndgame, Set, ChildFields, BaseFields
<1>6. Outstanding(wh') = Outstanding(wh) /\ HeldOnce(wh')
  BY <1>5 DEF ChildInv, ChildOk, HeldOnce, Outstanding
<1>7. Ends(wh')
  BY <1>1, <1>4, <1>5, <1>6 DEF ChildInv, ChildOk, Ends, CountSound, On
<1>8. ChildTypes(wh') /\ wh'.step = "done" /\ wh'.mem = {} /\ wh'.handles = {}
  BY <1>1, <1>5, ChildGoesOn DEF ChildTypes
<1> QED BY <1>1, <1>4, <1>5, <1>6, <1>7, <1>8 DEF ChildInv, ChildOk, On

LEMMA ChildEndKeeps == ASSUME ChildInv, uv__process_endgame PROVE ChildInv'
<1> DEFINE n == [Ending(wh) EXCEPT !.process_handle = FALSE]
<1>1. /\ ChildTypes(wh) /\ DOMAIN wh = ChildFields /\ wh.pc = "idle" /\ On(wh, "CLOSING")
      /\ ~On(wh, "CLOSED") /\ On(wh, "ENDGAME_QUEUED") /\ ~wh.exit_cb_pending
      /\ ~On(wh, "ACTIVE")
  BY DEF ChildInv, ChildOk, ChildTypes, uv__process_endgame, CanEnd, Ends, CountSound
<1>2. /\ DOMAIN n = DOMAIN wh /\ n.stdio = wh.stdio /\ n.child = wh.child
      /\ n.step = wh.step /\ n.mem = wh.mem /\ n.handles = wh.handles
      /\ n.flags = wh.flags \ {"ENDGAME_QUEUED"}
      /\ n.counted = wh.counted /\ n.ends = wh.ends /\ n.walk = wh.walk /\ n.pc = wh.pc
      /\ n.process_handle = FALSE /\ n.told = wh.told /\ n.wait = wh.wait
      /\ n.exit_cb_pending = wh.exit_cb_pending /\ n.kernel = wh.kernel /\ n.pending = wh.pending
  BY <1>1 DEF Ending, Clear, ChildFields, BaseFields
<1>3. wh' = HandleClose(n)
  BY DEF uv__process_endgame
<1> HIDE DEF n
<1>4. /\ DOMAIN wh' = DOMAIN wh /\ wh'.stdio = wh.stdio /\ wh'.child = wh.child
      /\ wh'.step = wh.step /\ wh'.mem = wh.mem /\ wh'.handles = wh.handles
      /\ wh'.flags = (wh.flags \ {"ENDGAME_QUEUED"}) \cup {"CLOSED"}
      /\ wh'.counted = wh.counted - 1
      /\ wh'.ends = wh.ends + 1 /\ wh'.walk = wh.walk /\ wh'.pc = wh.pc
      /\ wh'.process_handle = FALSE /\ wh'.told = wh.told /\ wh'.wait = wh.wait
      /\ wh'.exit_cb_pending = wh.exit_cb_pending /\ wh'.kernel = wh.kernel /\ wh'.pending = wh.pending
  BY <1>1, <1>2, <1>3 DEF HandleClose, Set, ChildFields, BaseFields
<1>5. Outstanding(wh') = Outstanding(wh) /\ HeldOnce(wh') /\ Outstanding(wh) = {}
  BY <1>1, <1>4 DEF ChildInv, ChildOk, HeldOnce, Outstanding
<1>6. Ends(wh')
  BY <1>1, <1>4, <1>5 DEF ChildInv, ChildOk, Ends, CountSound, On
<1>7. ChildTypes(wh') /\ wh.step = "done"
  BY <1>1, <1>4 DEF ChildTypes, ChildInv, ChildOk, Unborn
<1>8. wh.wait = "none"
  BY <1>1 DEF ChildInv, ChildOk
<1> QED BY <1>1, <1>4, <1>5, <1>6, <1>7, <1>8 DEF ChildInv, ChildOk, On

LEMMA ChildNextKeeps == ASSUME ChildInv, WinProcessNext PROVE ChildInv'
BY SpawnStringKeeps, StdioCreateKeeps, CreateProcessKeeps, ChildQuiet, ExitWaitKeeps, ProcExitKeeps,
   ExitDoneKeeps, ChildCloseKeeps, ChildEndKeeps DEF WinProcessNext

-----------------------------------------------------------------------------
(* The count of what keeps a handle active, and of its requests.           *)

LEMMA IncKeeps ==
  ASSUME NEW h, BaseFields \subseteq DOMAIN h, Kept(h), Ends(h), ~On(h, "CLOSING"), h.activecnt >= 0,
         NEW g, g = IncActive(h)
  PROVE  /\ SameBut(g, h, {"flags", "counted", "activecnt"})
         /\ g.activecnt = h.activecnt + 1 /\ g.flags = h.flags \cup {"ACTIVE"}
         /\ Kept(g) /\ Ends(g)
<1>1. g.activecnt = h.activecnt + 1 /\ SameBut(g, h, {"flags", "counted", "activecnt"})
  BY DEF IncActive, SameBut, BaseFields
<1>2. /\ h.activecnt = 0 => g.flags = h.flags \cup {"ACTIVE"} /\ g.counted = h.counted + 1
      /\ h.activecnt # 0 => g.flags = h.flags \cup {} /\ g.counted = h.counted + 0
  BY DEF IncActive, BaseFields, Kept
<1>3. g.flags = h.flags \cup {"ACTIVE"}
  BY <1>2 DEF Kept, On
<1>4. Outstanding(g) = Outstanding(h) /\ g.ends = h.ends /\ g.pc = h.pc
  BY <1>1 DEF SameBut, BaseFields, Outstanding
<1>5. Kept(g)
  BY <1>1, <1>3 DEF Kept, On
<1>6. Ends(g)
  BY <1>2, <1>3, <1>4 DEF Kept, Ends, CountSound, On
<1> QED BY <1>1, <1>3, <1>5, <1>6

LEMMA DecKeeps ==
  ASSUME NEW h, BaseFields \subseteq DOMAIN h, Kept(h), Ends(h), h.activecnt > 0,
         NEW g, g = DecActive(h)
  PROVE  /\ SameBut(g, h, {"flags", "counted", "activecnt"})
         /\ g.activecnt = h.activecnt - 1
         /\ \A f : f # "ACTIVE" => (On(g, f) <=> On(h, f))
         /\ Kept(g) /\ Ends(g)
<1>1. g.activecnt = h.activecnt - 1 /\ SameBut(g, h, {"flags", "counted", "activecnt"})
  BY DEF DecActive, SameBut, BaseFields
<1> DEFINE last == h.activecnt = 1 /\ ~On(h, "CLOSING") /\ On(h, "ACTIVE")
<1>2. /\ last => g.flags = h.flags \ {"ACTIVE"} /\ g.counted = h.counted - 1
      /\ ~last => g.flags = h.flags \ {} /\ g.counted = h.counted - 0
  BY DEF DecActive, BaseFields
<1>4. Outstanding(g) = Outstanding(h) /\ g.ends = h.ends /\ g.pc = h.pc
  BY <1>1 DEF SameBut, BaseFields, Outstanding
<1>3. \A f : f # "ACTIVE" => (On(g, f) <=> On(h, f))
  BY <1>2 DEF On
<1>5. Kept(g)
  BY <1>1, <1>2 DEF Kept, On
<1>6. Ends(g)
  BY <1>2, <1>4 DEF Ends, CountSound, On
<1> QED BY <1>1, <1>3, <1>5, <1>6

\* DECREASE_PENDING_REQ_COUNT of a handle that did not end.
LEMMA DecPendingKeeps ==
  ASSUME NEW h, BaseFields \subseteq DOMAIN h, Ends(h), ~On(h, "CLOSED"), h.reqs_pending \in Int,
         NEW g, g = DecPending(h)
  PROVE  /\ SameBut(g, h, {"flags", "reqs_pending"}) /\ g.reqs_pending = h.reqs_pending - 1
         /\ \A f : f # "ENDGAME_QUEUED" => (On(g, f) <=> On(h, f))
         /\ Ends(g) /\ (EndDue(g) => On(g, "ENDGAME_QUEUED"))
<1> DEFINE k == [h EXCEPT !.reqs_pending = @ - 1]
<1>1. /\ SameBut(k, h, {"reqs_pending"}) /\ k.reqs_pending = h.reqs_pending - 1
      /\ k.flags = h.flags
  BY DEF SameBut, BaseFields
<1>2. g = IF On(k, "CLOSING") /\ k.reqs_pending = 0 THEN WantEndgame(k) ELSE k
  BY DEF DecPending
<1> HIDE DEF k
<1>3. /\ SameBut(g, h, {"flags", "reqs_pending"}) /\ g.reqs_pending = h.reqs_pending - 1
      /\ g.flags = h.flags \cup (IF On(k, "CLOSING") /\ k.reqs_pending = 0 THEN {"ENDGAME_QUEUED"} ELSE {})
  BY <1>1, <1>2 DEF WantEndgame, Set, SameBut, BaseFields
<1>4. Outstanding(g) = Outstanding(h) /\ g.ends = h.ends /\ g.pc = h.pc /\ g.counted = h.counted
  BY <1>3 DEF SameBut, BaseFields, Outstanding
<1>5. \A f : f # "ENDGAME_QUEUED" => (On(g, f) <=> On(h, f))
  BY <1>3 DEF On
<1>6. Ends(g)
  BY <1>1, <1>3, <1>4, <1>5 DEF Ends, CountSound, On
<1>7. EndDue(g) => On(g, "ENDGAME_QUEUED")
  BY <1>1, <1>3 DEF EndDue, On
<1> QED BY <1>3, <1>5, <1>6, <1>7


-----------------------------------------------------------------------------
(* A datagram socket.                                                      *)

DgramFields ==
  BaseFields \cup {"socket", "send_queue_count", "send_queue_size", "queued", "streams", "todo",
                   "called", "failed_bind"}

Sends(h) == Outstanding(h) \cap UdpSends

\* What binding the socket is about.
DgramBound(h) ==
  ~On(h, "CLOSING") =>
    /\ On(h, "BOUND") => h.socket # "none"
    /\ h.failed_bind \/ (On(h, "IPV6") <=> h.socket = "ip6")

DgramSends(h) ==
  /\ Outstanding(h) \subseteq UdpSends \cup {"recv"} /\ IsFiniteSet(Outstanding(h))
  /\ h.todo \cup h.called \cup Sends(h) = UdpSends
  /\ h.todo \cap h.called = {} /\ Sends(h) \cap (h.todo \cup h.called) = {}
  /\ h.queued \cap h.todo = {}

\* x is 1 while a handler runs: its request is still counted.
DgramCounts(h, x) ==
  /\ h.send_queue_count = Cardinality(Sends(h))
  /\ h.send_queue_size = Cardinality(Sends(h) \cap h.queued)
  /\ h.active_reqs = Cardinality(Sends(h))
  /\ h.reqs_pending = Cardinality(Outstanding(h)) + x
  /\ h.activecnt = h.active_reqs + h.streams
  /\ h.streams = (IF On(h, "READING") THEN 1 ELSE 0)

DgramOk(h, x) ==
  /\ DOMAIN h = DgramFields /\ h.socket \in {"none", "ip4", "ip6"}
  /\ Ends(h) /\ Kept(h) /\ HeldOnce(h)
  /\ DgramBound(h) /\ DgramSends(h) /\ DgramCounts(h, x)
  /\ On(h, "CLOSING") => ~On(h, "READING")
  /\ On(h, "READ_PENDING") => "recv" \in Outstanding(h)
  /\ EndDue(h) => On(h, "CLOSED") \/ On(h, "ENDGAME_QUEUED")

\* The callback that runs is one of the request in cur.
DgramPc(h) ==
  \/ h.pc = "idle" /\ h.cur = "none"
  \/ h.pc = "recv_cb" /\ h.cur = "recv"
  \/ h.pc = "send_cb" /\ h.cur \in UdpSends

DgramReads(h) == On(h, "READING") /\ h.cur # "recv" => "recv" \in Outstanding(h)

DgramInv ==
  DgramOk(wh, IF wh.cur = "none" THEN 0 ELSE 1) /\ DgramPc(wh) /\ DgramReads(wh)

\* Only the socket, and the flags that say what it is, are others.
DgramSame(g, h) ==
  /\ SameBut(g, h, {"flags", "socket", "failed_bind"})
  /\ \A f : f \notin {"BOUND", "IPV6", "UDP_CONNECTED"} => (On(g, f) <=> On(h, f))

LEMMA DgramInitInv == WinUdpInit => DgramInv
<1> SUFFICES ASSUME WinUdpInit PROVE DgramInv
  OBVIOUS
<1>1. PICK domain \in {"none", "ip4", "ip6"} :
        wh = HandleOf(Set(NewHandle, IF domain = "ip6" THEN {"IPV6"} ELSE {}),
                      [socket |-> domain, send_queue_count |-> 0, send_queue_size |-> 0,
                       queued |-> {}, streams |-> 0, todo |-> UdpSends, called |-> {},
                       failed_bind |-> FALSE])
  BY DEF WinUdpInit
<1>2. /\ DOMAIN wh = DgramFields /\ wh.counted = 0 /\ wh.ends = 0
      /\ wh.kernel = {} /\ wh.pending = {} /\ wh.walk = {} /\ wh.pc = "idle" /\ wh.cur = "none"
      /\ wh.activecnt = 0 /\ wh.active_reqs = 0 /\ wh.reqs_pending = 0
  BY <1>1 DEF NewHandle, Set, HandleOf, BaseFields, DgramFields
<1>3. wh.flags = IF domain = "ip6" THEN {"IPV6"} ELSE {}
  BY <1>1 DEF NewHandle, Set, HandleOf
<1>4. /\ wh.socket = domain /\ wh.send_queue_count = 0 /\ wh.send_queue_size = 0 /\ wh.queued = {}
      /\ wh.streams = 0 /\ wh.todo = UdpSends /\ wh.called = {}
  BY <1>1 DEF NewHandle, Set, HandleOf
<1>5. Outstanding(wh) = {} /\ HeldOnce(wh) /\ Sends(wh) = {} /\ Sends(wh) \cap wh.queued = {}
  BY <1>2 DEF HeldOnce, Outstanding, Sends
<1>6. Ends(wh) /\ Kept(wh)
  BY <1>2, <1>3, <1>5 DEF Ends, CountSound, Kept, On
<1>7. IsFiniteSet({}) /\ Cardinality({}) = 0
  BY FS_EmptySet
<1>8. DgramSends(wh)
  BY <1>4, <1>5, <1>7 DEF DgramSends
<1>9. DgramCounts(wh, 0)
  BY <1>2, <1>3, <1>4, <1>5, <1>7 DEF DgramCounts, On
<1>10. DgramBound(wh)
  BY <1>3, <1>4 DEF DgramBound, On
<1> QED BY <1>2, <1>3, <1>4, <1>5, <1>6, <1>8, <1>9, <1>10 DEF DgramInv, DgramOk, DgramPc, DgramReads, EndDue, On

LEMMA DgramInvSound == DgramInv => WinUdpSound
<1> SUFFICES ASSUME DgramInv PROVE WinUdpSound
  OBVIOUS
<1> DEFINE x == IF wh.cur = "none" THEN 0 ELSE 1
           o == Cardinality(Outstanding(wh))
           s == Cardinality(Sends(wh))
<1>1. DgramOk(wh, x)
  BY DEF DgramInv
<1>2. /\ Ends(wh) /\ Kept(wh) /\ DgramBound(wh) /\ DgramSends(wh) /\ DgramCounts(wh, x)
      /\ EndDue(wh) => On(wh, "CLOSED") \/ On(wh, "ENDGAME_QUEUED")
  BY <1>1 DEF DgramOk
<1>3. IsFiniteSet(Outstanding(wh)) /\ IsFiniteSet(Sends(wh)) /\ o \in Nat /\ s \in Nat
  BY <1>2, FS_Subset, FS_CardinalityType DEF DgramSends, Sends
<1>4. On(wh, "CLOSED") => x = 0 /\ o = 0 /\ s = 0 /\ Sends(wh) = {}
  BY <1>2, FS_EmptySet DEF Ends, CountSound, Sends, DgramInv, DgramPc
<1>5. /\ wh.send_queue_count = s /\ wh.active_reqs = s /\ wh.reqs_pending = o + x
      /\ wh.activecnt = s + wh.streams /\ wh.streams = (IF On(wh, "READING") THEN 1 ELSE 0)
      /\ wh.send_queue_size = Cardinality(Sends(wh) \cap wh.queued)
  BY <1>2 DEF DgramCounts
<1>6. Sends(wh) \cap wh.called = {} /\ (On(wh, "CLOSED") => wh.called \cup wh.todo = UdpSends)
  BY <1>2, <1>4 DEF DgramSends
<1>7. /\ On(wh, "READ_PENDING") => "recv" \in Outstanding(wh)
      /\ On(wh, "READING") /\ wh.cur # "recv" => "recv" \in Outstanding(wh)
      /\ On(wh, "CLOSED") => ~On(wh, "READING")
  BY <1>1, <1>2 DEF DgramOk, DgramInv, DgramReads, Ends
<1> HIDE DEF s, o
<1>8. HandleSound(wh)
  BY <1>2, <1>3, <1>4, <1>5 DEF HandleSound, Ends, Kept
<1>9. On(wh, "CLOSED") => wh.streams = 0
  BY <1>5, <1>7
<1>10. wh.reqs_pending = Cardinality(Outstanding(wh)) + (IF wh.cur = "none" THEN 0 ELSE 1)
  BY <1>5 DEF o
<1>11. /\ wh.send_queue_count = Cardinality(Sends(wh)) /\ wh.active_reqs = Cardinality(Sends(wh))
  BY <1>5 DEF s
<1>12. wh.activecnt = wh.active_reqs + wh.streams
  BY <1>5
<1>13. On(wh, "BOUND") /\ ~On(wh, "CLOSING") =>
         wh.socket # "none" /\ (wh.failed_bind \/ (On(wh, "IPV6") <=> wh.socket = "ip6"))
  BY <1>2 DEF DgramBound
<1> QED
  BY <1>5, <1>6, <1>7, <1>8, <1>9, <1>10, <1>11, <1>12, <1>13 DEF WinUdpSound, Sends, Sees

\* What binds the socket, or fails to.
LEMMA SetDgramIs ==
  ASSUME NEW h, DOMAIN h = DgramFields, NEW family, NEW g, g = SetDgram(h, family)
  PROVE  /\ SameBut(g, h, {"flags", "socket"}) /\ g.socket = family
         /\ g.flags = h.flags \cup (IF family = "ip6" THEN {"IPV6"} ELSE {})
<1> DEFINE k == [h EXCEPT !.socket = family]
<1>1. SameBut(k, h, {"socket"}) /\ k.socket = family /\ k.flags = h.flags
  BY DEF SameBut, DgramFields, BaseFields
<1>2. g = [k EXCEPT !.flags = @ \cup (IF family = "ip6" THEN {"IPV6"} ELSE {})]
  BY DEF SetDgram, Set
<1> HIDE DEF k
<1> QED BY <1>1, <1>2 DEF SameBut, DgramFields, BaseFields

LEMMA SetIs ==
  ASSUME NEW h, DOMAIN h = DgramFields, NEW fs, NEW g, g = Set(h, fs)
  PROVE  SameBut(g, h, {"flags"}) /\ g.flags = h.flags \cup fs
BY DEF Set, SameBut, DgramFields, BaseFields

LEMMA BindSame ==
  ASSUME NEW h, DOMAIN h = DgramFields, h.socket \in {"none", "ip4", "ip6"}, DgramBound(h),
         ~On(h, "CLOSING"), NEW family \in Families,
         NEW g \in MaybeBind(h, family) \cup BindFails(h, family)
  PROVE  DgramSame(g, h) /\ DgramBound(g) /\ g.socket \in {"none", "ip4", "ip6"}
<1> DEFINE six == IF family = "ip6" THEN {"IPV6"} ELSE {}
<1>1. CASE g = h
  BY <1>1 DEF DgramSame, SameBut
<1>2. CASE ~On(h, "BOUND") /\ h.socket \in {"none", family} /\ g = Set(SetDgram(h, family), {"BOUND"})
  <2> DEFINE k == SetDgram(h, family)
  <2>1. /\ SameBut(k, h, {"flags", "socket"}) /\ k.socket = family /\ k.flags = h.flags \cup six
        /\ DOMAIN k = DgramFields
    BY SetDgramIs DEF SameBut
  <2> HIDE DEF k
  <2>2. SameBut(g, k, {"flags"}) /\ g.flags = k.flags \cup {"BOUND"}
    BY <1>2, <2>1, SetIs DEF k
  <2>3. g.socket = family /\ g.failed_bind = h.failed_bind
    BY <2>1, <2>2 DEF SameBut, DgramFields
  <2>4. DgramSame(g, h)
    BY <2>1, <2>2 DEF DgramSame, SameBut, On, DgramFields
  <2>5. h.failed_bind \/ (On(g, "IPV6") <=> family = "ip6")
    BY <1>2, <2>1, <2>2 DEF On, DgramBound, Families
  <2> QED BY <2>3, <2>4, <2>5 DEF DgramBound, Families
<1>3. CASE h.socket = "none" /\ ~On(h, "BOUND") /\ g = SetDgram(h, family)
  BY <1>3, SetDgramIs DEF DgramSame, SameBut, On, DgramFields, DgramBound, Families
<1>4. ASSUME NEW k, SameBut(k, h, {"flags", "socket"}), k.socket \in {"none", "ip4", "ip6"},
             \/ k = h \/ k.flags = h.flags \cup six,
             ~On(h, "BOUND"), g = [Set(k, six) EXCEPT !.failed_bind = TRUE]
      PROVE  DgramSame(g, h) /\ DgramBound(g) /\ g.socket \in {"none", "ip4", "ip6"}
  <2> DEFINE v == Set(k, six)
  <2>1. SameBut(v, k, {"flags"}) /\ v.flags = k.flags \cup six /\ DOMAIN v = DgramFields
    BY <1>4, SetIs DEF SameBut
  <2> HIDE DEF v
  <2>2. SameBut(g, v, {"failed_bind"}) /\ g.failed_bind = TRUE /\ g.flags = v.flags
    BY <1>4, <2>1 DEF SameBut, v, DgramFields, BaseFields
  <2>3. g.flags = h.flags \cup six /\ g.socket = k.socket
    BY <1>4, <2>1, <2>2 DEF SameBut, DgramFields
  <2>4. DgramSame(g, h)
    BY <1>4, <2>1, <2>2, <2>3 DEF DgramSame, SameBut, On, DgramFields
  <2> QED BY <1>4, <2>2, <2>3, <2>4 DEF DgramBound, On
<1>5. CASE g \in MaybeBind(h, family)
  BY <1>1, <1>2, <1>5 DEF MaybeBind
<1>6. CASE g \in BindFails(h, family)
  <2> DEFINE k == IF h.socket = "none" THEN SetDgram(h, family) ELSE h
  <2>1. ~On(h, "BOUND") /\ g \in {h, k, [Set(k, six) EXCEPT !.failed_bind = TRUE]}
    BY <1>6 DEF BindFails
  <2>2. /\ SameBut(k, h, {"flags", "socket"}) /\ k.socket \in {"none", "ip4", "ip6"}
        /\ k = h \/ k.flags = h.flags \cup six
    BY SetDgramIs DEF Families, SameBut
  <2>3. CASE g = k
    BY <1>1, <1>3, <2>1, <2>3
  <2> HIDE DEF k
  <2> QED BY <1>1, <1>4, <2>1, <2>2, <2>3
<1> QED BY <1>5, <1>6

LEMMA SameKeeps ==
  ASSUME NEW h, NEW x, DgramOk(h, x), NEW g, DgramSame(g, h), DgramBound(g),
         g.socket \in {"none", "ip4", "ip6"}
  PROVE  /\ DgramOk(g, x) /\ g.pc = h.pc /\ g.cur = h.cur
         /\ g.todo = h.todo /\ g.send_queue_count = h.send_queue_count
         /\ Outstanding(g) = Outstanding(h)
<1>1. DOMAIN h = DgramFields
  BY DEF DgramOk
<1>2. /\ DOMAIN g = DgramFields
      /\ g.kernel = h.kernel /\ g.pending = h.pending /\ g.walk = h.walk /\ g.pc = h.pc /\ g.cur = h.cur
      /\ g.counted = h.counted /\ g.ends = h.ends /\ g.activecnt = h.activecnt
      /\ g.active_reqs = h.active_reqs /\ g.reqs_pending = h.reqs_pending
      /\ g.send_queue_count = h.send_queue_count /\ g.send_queue_size = h.send_queue_size
      /\ g.queued = h.queued /\ g.streams = h.streams /\ g.todo = h.todo /\ g.called = h.called
  BY <1>1 DEF DgramSame, SameBut, DgramFields, BaseFields
<1>3. Outstanding(g) = Outstanding(h) /\ Sends(g) = Sends(h)
  BY <1>2 DEF Outstanding, Sends
<1>4. \A f \in {"ACTIVE", "CLOSING", "CLOSED", "ENDGAME_QUEUED", "READING", "READ_PENDING"} :
        On(g, f) <=> On(h, f)
  BY DEF DgramSame
<1>5. Ends(g) /\ Kept(g) /\ HeldOnce(g)
  BY <1>2, <1>3, <1>4 DEF DgramOk, Ends, CountSound, Kept, HeldOnce
<1>6. DgramSends(g) /\ DgramCounts(g, x)
  BY <1>2, <1>3, <1>4 DEF DgramOk, DgramSends, DgramCounts
<1> QED BY <1>2, <1>3, <1>4, <1>5, <1>6 DEF DgramOk, EndDue

LEMMA DgramSetKeeps ==
  ASSUME DgramInv, uv__udp_bind \/ uv_udp_open \/ uv__udp_connect \/ uv__udp_disconnect
                   \/ uv_udp_set_membership \/ uv__udp_try_send
  PROVE  DgramInv'
<1>1. /\ DOMAIN wh = DgramFields /\ wh.socket \in {"none", "ip4", "ip6"} /\ DgramBound(wh)
      /\ ~On(wh, "CLOSING")
  BY DEF DgramInv, DgramOk, uv__udp_bind, uv_udp_open, uv__udp_connect, uv__udp_disconnect,
         uv_udp_set_membership, uv__udp_try_send, DgramUsable, Sees
<1> DEFINE Binds(g) == \E family \in Families : g \in MaybeBind(wh, family) \cup BindFails(wh, family)
<1>2. ASSUME NEW g, Binds(g)
      PROVE  DgramSame(g, wh) /\ DgramBound(g) /\ g.socket \in {"none", "ip4", "ip6"}
  BY <1>1, <1>2, BindSame
<1>3. ASSUME NEW g, DgramSame(g, wh), DgramBound(g), g.socket \in {"none", "ip4", "ip6"}, NEW k,
             \E fs : fs \subseteq {"UDP_CONNECTED"} /\ (k = Set(g, fs) \/ k = Clear(g, fs))
      PROVE  DgramSame(k, wh) /\ DgramBound(k) /\ k.socket \in {"none", "ip4", "ip6"}
  <2>1. DOMAIN g = DgramFields
    BY <1>1, <1>3 DEF DgramSame, SameBut
  <2>2. /\ SameBut(k, g, {"flags"})
        /\ \A f : f # "UDP_CONNECTED" => (On(k, f) <=> On(g, f))
    BY <1>3, <2>1 DEF Set, Clear, SameBut, DgramFields, BaseFields, On
  <2>3. k.socket = g.socket /\ k.failed_bind = g.failed_bind
    BY <2>1, <2>2 DEF SameBut, DgramFields
  <2> QED BY <1>3, <2>2, <2>3 DEF DgramSame, SameBut, DgramBound
<1>4. DgramSame(wh, wh)
  BY DEF DgramSame, SameBut
<1>5. DgramSame(wh', wh) /\ DgramBound(wh') /\ wh'.socket \in {"none", "ip4", "ip6"}
  <2>1. CASE uv__udp_bind
    BY <1>2, <2>1 DEF uv__udp_bind
  <2>2. CASE uv_udp_set_membership
    BY <1>2, <2>2 DEF uv_udp_set_membership, Membership4, Membership6, Families
  <2>3. CASE uv__udp_try_send
    BY <1>2, <2>3 DEF uv__udp_try_send
  <2>4. CASE uv__udp_connect
    BY <2>4, <1>2, <1>3 DEF uv__udp_connect
  <2>5. CASE uv__udp_disconnect
    BY <1>1, <1>3, <1>4, <2>5 DEF uv__udp_disconnect
  <2>6. CASE uv_udp_open
    <3>1. PICK family \in Families, fs \in SUBSET {"BOUND", "UDP_CONNECTED"} :
            wh' = Set(SetDgram(wh, family), fs)
      BY <2>6 DEF uv_udp_open
    <3> DEFINE g == SetDgram(wh, family)
    <3>2. /\ SameBut(g, wh, {"flags", "socket"}) /\ g.socket = family
          /\ g.flags = wh.flags \cup (IF family = "ip6" THEN {"IPV6"} ELSE {})
          /\ DOMAIN g = DgramFields
      BY <1>1, SetDgramIs DEF SameBut
    <3> HIDE DEF g
    <3>3. SameBut(wh', g, {"flags"}) /\ wh'.flags = g.flags \cup fs
      BY <3>1, <3>2, SetIs DEF g
    <3>4. DgramSame(wh', wh) /\ wh'.socket = family /\ wh'.failed_bind = wh.failed_bind
      BY <1>1, <3>2, <3>3 DEF DgramSame, SameBut, On, DgramFields
    <3>5. wh'.failed_bind \/ (On(wh', "IPV6") <=> family = "ip6")
      BY <1>1, <2>6, <3>2, <3>3, <3>4 DEF DgramBound, uv_udp_open, On, Families
    <3> QED BY <3>4, <3>5 DEF DgramBound, Families
  <2> QED BY <2>1, <2>2, <2>3, <2>4, <2>5, <2>6
<1>6. wh.cur = wh'.cur /\ wh'.pc = wh.pc /\ Outstanding(wh') = Outstanding(wh)
      /\ (On(wh', "READING") <=> On(wh, "READING"))
  BY <1>5, SameKeeps DEF DgramInv, DgramSame
<1> QED BY <1>5, <1>6, SameKeeps DEF DgramInv, DgramPc, DgramReads

\* The sizes of the sets of requests are numbers.
LEMMA DgramSizes ==
  ASSUME NEW h, DgramSends(h)
  PROVE  /\ IsFiniteSet(Outstanding(h)) /\ Cardinality(Outstanding(h)) \in Nat
         /\ IsFiniteSet(Sends(h)) /\ Cardinality(Sends(h)) \in Nat
         /\ IsFiniteSet(Sends(h) \cap h.queued) /\ Cardinality(Sends(h) \cap h.queued) \in Nat
BY FS_Subset, FS_CardinalityType DEF DgramSends, Sends

\* A callback is called, or returns.
LEMMA DgramCallKeeps ==
  ASSUME NEW h, NEW x, DgramOk(h, x), ~On(h, "CLOSED"), NEW g, SameBut(g, h, {"pc", "cur"})
  PROVE  DgramOk(g, x) /\ g.flags = h.flags /\ Outstanding(g) = Outstanding(h)
<1>1. /\ DOMAIN g = DgramFields /\ g.flags = h.flags /\ g.socket = h.socket
      /\ g.failed_bind = h.failed_bind
      /\ g.kernel = h.kernel /\ g.pending = h.pending /\ g.walk = h.walk
      /\ g.counted = h.counted /\ g.ends = h.ends /\ g.activecnt = h.activecnt
      /\ g.active_reqs = h.active_reqs /\ g.reqs_pending = h.reqs_pending
      /\ g.send_queue_count = h.send_queue_count /\ g.send_queue_size = h.send_queue_size
      /\ g.queued = h.queued /\ g.streams = h.streams /\ g.todo = h.todo /\ g.called = h.called
  BY DEF DgramOk, SameBut, DgramFields, BaseFields
<1>2. Outstanding(g) = Outstanding(h) /\ Sends(g) = Sends(h)
  BY <1>1 DEF Outstanding, Sends
<1>3. Ends(g) /\ Kept(g) /\ HeldOnce(g)
  BY <1>1, <1>2 DEF DgramOk, Ends, CountSound, Kept, HeldOnce, On
<1>4. DgramSends(g) /\ DgramCounts(g, x) /\ DgramBound(g)
  BY <1>1, <1>2 DEF DgramOk, DgramSends, DgramCounts, DgramBound, On
<1> QED BY <1>1, <1>2, <1>3, <1>4 DEF DgramOk, EndDue, On

\* The request of a handler that is through is no longer counted.
LEMMA DgramDecKeeps ==
  ASSUME NEW h, DgramOk(h, 1), ~On(h, "CLOSED"), NEW g, g = DecPending(h)
  PROVE  /\ DgramOk(g, 0) /\ Outstanding(g) = Outstanding(h) /\ g.pc = h.pc /\ g.cur = h.cur
         /\ On(g, "READING") <=> On(h, "READING")
<1>0. /\ DOMAIN h = DgramFields /\ BaseFields \subseteq DOMAIN h /\ Ends(h) /\ DgramSends(h)
      /\ DgramCounts(h, 1) /\ h.reqs_pending \in Int
  BY DgramSizes DEF DgramOk, DgramFields, DgramCounts
<1>1. /\ SameBut(g, h, {"flags", "reqs_pending"}) /\ g.reqs_pending = h.reqs_pending - 1
      /\ \A f : f # "ENDGAME_QUEUED" => (On(g, f) <=> On(h, f))
      /\ Ends(g) /\ (EndDue(g) => On(g, "ENDGAME_QUEUED"))
  BY <1>0, DecPendingKeeps
<1>2. /\ DOMAIN g = DgramFields /\ g.socket = h.socket
      /\ g.failed_bind = h.failed_bind /\ g.pc = h.pc /\ g.cur = h.cur
      /\ g.kernel = h.kernel /\ g.pending = h.pending /\ g.walk = h.walk
      /\ g.activecnt = h.activecnt /\ g.active_reqs = h.active_reqs
      /\ g.send_queue_count = h.send_queue_count /\ g.send_queue_size = h.send_queue_size
      /\ g.queued = h.queued /\ g.streams = h.streams /\ g.todo = h.todo /\ g.called = h.called
  BY <1>0, <1>1 DEF SameBut, DgramFields, BaseFields
<1>3. Outstanding(g) = Outstanding(h) /\ Sends(g) = Sends(h)
  BY <1>2 DEF Outstanding, Sends
<1>4. Kept(g) /\ HeldOnce(g) /\ DgramBound(g) /\ DgramSends(g)
  BY <1>1, <1>2, <1>3 DEF DgramOk, Kept, HeldOnce, DgramBound, DgramSends
<1>5. DgramCounts(g, 0)
  BY <1>0, <1>1, <1>2, <1>3, DgramSizes DEF DgramCounts
<1> QED BY <1>1, <1>2, <1>3, <1>4, <1>5 DEF DgramOk

LEMMA RecvStopKeeps ==
  ASSUME NEW h, NEW x, DgramOk(h, x), NEW g, g = RecvStop(h)
  PROVE  /\ DgramOk(g, x) /\ SameBut(g, h, {"flags", "counted", "activecnt", "streams"})
         /\ ~On(g, "READING") /\ Outstanding(g) = Outstanding(h)
         /\ \A f : f \notin {"ACTIVE", "READING"} => (On(g, f) <=> On(h, f))
<1>1. CASE ~On(h, "READING")
  BY <1>1 DEF RecvStop, SameBut
<1>2. CASE On(h, "READING")
  <2> DEFINE k == Clear(h, {"READING"})
             d == DecActive(k)
  <2>0. /\ DOMAIN h = DgramFields /\ Ends(h) /\ Kept(h) /\ DgramSends(h) /\ DgramCounts(h, x)
        /\ h.streams = 1 /\ h.activecnt = Cardinality(Sends(h)) + 1 /\ Cardinality(Sends(h)) \in Nat
    BY <1>2, DgramSizes DEF DgramOk, DgramCounts
  <2>1. /\ SameBut(k, h, {"flags"}) /\ k.flags = h.flags \ {"READING"}
        /\ DOMAIN k = DgramFields /\ BaseFields \subseteq DOMAIN k
    BY <2>0 DEF Clear, SameBut, DgramFields, BaseFields
  <2> HIDE DEF k
  <2>2. /\ k.activecnt = h.activecnt /\ k.counted = h.counted /\ k.ends = h.ends /\ k.pc = h.pc
        /\ Outstanding(k) = Outstanding(h) /\ k.streams = 1
    BY <2>0, <2>1 DEF SameBut, DgramFields, BaseFields, Outstanding
  <2>3. Kept(k) /\ Ends(k) /\ k.activecnt > 0
    BY <2>0, <2>1, <2>2 DEF Kept, Ends, CountSound, On
  <2>4. /\ SameBut(d, k, {"flags", "counted", "activecnt"})
        /\ d.activecnt = k.activecnt - 1
        /\ \A f : f # "ACTIVE" => (On(d, f) <=> On(k, f))
        /\ Kept(d) /\ Ends(d)
    BY <2>1, <2>3, DecKeeps
  <2> HIDE DEF d
  <2>5. g = [d EXCEPT !.streams = @ - 1]
    BY <1>2 DEF RecvStop, d, k
  <2>6. /\ SameBut(g, d, {"streams"}) /\ g.streams = 0 /\ g.flags = d.flags
        /\ DOMAIN d = DgramFields
    BY <2>1, <2>2, <2>4, <2>5 DEF SameBut, DgramFields, BaseFields
  <2>7. \A f : f \notin {"ACTIVE", "READING"} => (On(g, f) <=> On(h, f))
    BY <2>1, <2>4, <2>6 DEF On
  <2>8. ~On(g, "READING")
    BY <2>1, <2>4, <2>6 DEF On
  <2>9. SameBut(g, h, {"flags", "counted", "activecnt", "streams"})
    BY <2>1, <2>4, <2>6 DEF SameBut, DgramFields, BaseFields
  <2>10. /\ DOMAIN g = DgramFields /\ g.socket = h.socket
         /\ g.failed_bind = h.failed_bind /\ g.pc = h.pc /\ g.cur = h.cur
         /\ g.kernel = h.kernel /\ g.pending = h.pending /\ g.walk = h.walk
         /\ g.active_reqs = h.active_reqs /\ g.reqs_pending = h.reqs_pending
         /\ g.send_queue_count = h.send_queue_count /\ g.send_queue_size = h.send_queue_size
         /\ g.queued = h.queued /\ g.todo = h.todo /\ g.called = h.called
    BY <2>0, <2>9 DEF SameBut, DgramFields, BaseFields
  <2>11. /\ g.activecnt = h.activecnt - 1 /\ g.activecnt = d.activecnt /\ g.counted = d.counted
         /\ g.ends = d.ends /\ g.pc = d.pc /\ Outstanding(g) = Outstanding(d)
    BY <2>2, <2>4, <2>6 DEF SameBut, DgramFields, BaseFields, Outstanding
  <2>12. Outstanding(g) = Outstanding(h) /\ Sends(g) = Sends(h)
    BY <2>10 DEF Outstanding, Sends
  <2>13. Ends(g) /\ Kept(g)
    BY <2>4, <2>6, <2>11 DEF Ends, CountSound, Kept, On
  <2>14. HeldOnce(g) /\ DgramBound(g) /\ DgramSends(g)
    BY <2>7, <2>10, <2>12 DEF DgramOk, HeldOnce, DgramBound, DgramSends
  <2>15. DgramCounts(g, x)
    BY <2>0, <2>6, <2>8, <2>10, <2>11, <2>12 DEF DgramCounts
  <2>16. (On(g, "READ_PENDING") => "recv" \in Outstanding(g))
         /\ (EndDue(g) => On(g, "CLOSED") \/ On(g, "ENDGAME_QUEUED"))
    BY <2>7, <2>10, <2>12 DEF DgramOk, EndDue
  <2> QED BY <2>7, <2>8, <2>9, <2>10, <2>12, <2>13, <2>14, <2>15, <2>16 DEF DgramOk
<1> QED BY <1>1, <1>2

\* uv__udp_queue_recv(), when no request waits.
LEMMA QueueRecvKeeps ==
  ASSUME NEW h, NEW x \in Int, DgramOk(h, x), ~On(h, "CLOSING"), "recv" \notin Outstanding(h),
         NEW g \in QueueRecv(h)
  PROVE  /\ DgramOk(g, x) /\ "recv" \in Outstanding(g) /\ g.pc = h.pc /\ g.cur = h.cur
         /\ \A f : f # "READ_PENDING" => (On(g, f) <=> On(h, f))
<1> DEFINE s == Set(h, {"READ_PENDING"})
<1>0. /\ DOMAIN h = DgramFields /\ Ends(h) /\ Kept(h) /\ DgramSends(h) /\ DgramCounts(h, x)
  BY DEF DgramOk
<1>1. /\ SameBut(s, h, {"flags"}) /\ s.flags = h.flags \cup {"READ_PENDING"} /\ DOMAIN s = DgramFields
  BY <1>0, SetIs DEF SameBut
<1> HIDE DEF s
<1>2. PICK k \in {s, h} : g = Given(k, "recv") \/ g = Inserted(k, "recv", TRUE) \/ g = Inserted(k, "recv", FALSE)
  BY DEF QueueRecv, s
<1>3. /\ SameBut(k, h, {"flags"}) /\ DOMAIN k = DgramFields
      /\ k.flags = h.flags \/ k.flags = h.flags \cup {"READ_PENDING"}
      /\ k.kernel = h.kernel /\ k.pending = h.pending /\ k.reqs_pending = h.reqs_pending
  BY <1>0, <1>1 DEF SameBut, DgramFields, BaseFields
<1>4. /\ SameBut(g, k, {"kernel", "pending", "ok", "reqs_pending"})
      /\ g.reqs_pending = k.reqs_pending + 1 /\ g.flags = k.flags
      /\ \/ g.kernel = k.kernel \cup {"recv"} /\ g.pending = k.pending
         \/ g.kernel = k.kernel /\ g.pending = k.pending \cup {"recv"}
  BY <1>3, <1>2 DEF Given, SameBut, DgramFields, BaseFields, Inserted
<1>5. /\ DOMAIN g = DgramFields /\ g.socket = h.socket
      /\ g.failed_bind = h.failed_bind /\ g.pc = h.pc /\ g.cur = h.cur
      /\ g.walk = h.walk /\ g.counted = h.counted /\ g.ends = h.ends
      /\ g.activecnt = h.activecnt /\ g.active_reqs = h.active_reqs
      /\ g.send_queue_count = h.send_queue_count /\ g.send_queue_size = h.send_queue_size
      /\ g.queued = h.queued /\ g.streams = h.streams /\ g.todo = h.todo /\ g.called = h.called
  BY <1>0, <1>3, <1>4 DEF SameBut, DgramFields, BaseFields
<1>6. Outstanding(g) = Outstanding(h) \cup {"recv"} /\ Sends(g) = Sends(h)
  BY <1>3, <1>4, <1>5, WinUdpAssumption DEF Outstanding, Sends
<1>7. \A f : f # "READ_PENDING" => (On(g, f) <=> On(h, f))
  BY <1>3, <1>4 DEF On
<1>8. ~On(h, "CLOSED") /\ ~On(g, "CLOSED") /\ ~On(g, "CLOSING")
  BY <1>0, <1>7 DEF Ends
<1>9. Ends(g) /\ Kept(g)
  BY <1>0, <1>5, <1>7, <1>8 DEF Ends, CountSound, Kept
<1>10. HeldOnce(g) /\ DgramBound(g)
  BY <1>3, <1>4, <1>5, <1>7 DEF DgramOk, HeldOnce, DgramBound, Outstanding
<1>11. DgramSends(g)
  BY <1>0, <1>5, <1>6, OneMore DEF DgramSends
<1>12. DgramCounts(g, x)
  BY <1>0, <1>6, <1>3, <1>4, <1>5, <1>7, OneMore, DgramSizes DEF DgramSends, DgramCounts
<1> QED BY <1>5, <1>6, <1>7, <1>8, <1>9, <1>10, <1>11, <1>12 DEF DgramOk, EndDue

\* The end of the handler of the datagram.
LEMMA AfterRecvKeeps ==
  ASSUME NEW h, DgramOk(h, 1), ~On(h, "CLOSED"), "recv" \in Outstanding(h) => On(h, "READ_PENDING"),
         NEW g \in AfterRecv(h)
  PROVE  DgramOk(g, 0) /\ g.pc = h.pc /\ g.cur = h.cur /\ (On(g, "READING") => "recv" \in Outstanding(g))
<1>1. CASE On(h, "READING") /\ ~On(h, "READ_PENDING")
  BY <1>1, QueueRecvKeeps, DgramDecKeeps DEF AfterRecv, DgramOk
<1>2. CASE ~(On(h, "READING") /\ ~On(h, "READ_PENDING"))
  BY <1>2, DgramDecKeeps DEF AfterRecv, DgramOk
<1> QED BY <1>1, <1>2

LEMMA RecvStartKeeps == ASSUME DgramInv, uv__udp_recv_start PROVE DgramInv'
<1> DEFINE x == IF wh.cur = "none" THEN 0 ELSE 1
<1>0. /\ DgramOk(wh, x) /\ DgramPc(wh) /\ ~On(wh, "CLOSING") /\ ~On(wh, "READING")
      /\ "recv" \in Outstanding(wh) => On(wh, "READ_PENDING")
      /\ x \in Int
  BY DEF DgramInv, uv__udp_recv_start, DgramUsable, Sees, NotTwice
<1> HIDE DEF x
<1>1. PICK b \in MaybeBind(wh, "ip4") :
        LET h == [IncActive(Set(b, {"READING"})) EXCEPT !.streams = @ + 1]
        IN IF On(h, "READ_PENDING") THEN wh' = h ELSE wh' \in QueueRecv(h)
  BY DEF uv__udp_recv_start
<1>2. DgramSame(b, wh) /\ DgramBound(b) /\ b.socket \in {"none", "ip4", "ip6"}
  BY <1>0, <1>1, BindSame DEF DgramOk, Families
<1>3. DgramOk(b, x) /\ b.pc = wh.pc /\ b.cur = wh.cur /\ Outstanding(b) = Outstanding(wh)
  BY <1>0, <1>2, SameKeeps
<1>4. \A f : f \notin {"BOUND", "IPV6", "UDP_CONNECTED"} => (On(b, f) <=> On(wh, f))
  BY <1>2 DEF DgramSame
<1> DEFINE s == Set(b, {"READING"})
           i == IncActive(s)
           h == [i EXCEPT !.streams = @ + 1]
<1>5. /\ DOMAIN b = DgramFields /\ Ends(b) /\ Kept(b) /\ DgramSends(b) /\ DgramCounts(b, x)
      /\ b.streams = 0 /\ Cardinality(Sends(b)) \in Nat
  BY <1>0, <1>3, <1>4, DgramSizes DEF DgramOk, DgramCounts
<1>6. /\ SameBut(s, b, {"flags"}) /\ s.flags = b.flags \cup {"READING"}
      /\ DOMAIN s = DgramFields /\ BaseFields \subseteq DOMAIN s
  BY <1>5, SetIs DEF SameBut, DgramFields
<1> HIDE DEF s
<1>7. /\ s.activecnt = b.activecnt /\ s.counted = b.counted /\ s.ends = b.ends /\ s.pc = b.pc
      /\ Outstanding(s) = Outstanding(b) /\ s.streams = 0
  BY <1>5, <1>6 DEF SameBut, DgramFields, BaseFields, Outstanding
<1>8. Kept(s) /\ Ends(s) /\ s.activecnt >= 0 /\ ~On(s, "CLOSING")
  BY <1>0, <1>4, <1>5, <1>6, <1>7 DEF Kept, Ends, CountSound, On, DgramCounts
<1>9. /\ SameBut(i, s, {"flags", "counted", "activecnt"})
      /\ i.activecnt = s.activecnt + 1 /\ i.flags = s.flags \cup {"ACTIVE"}
      /\ Kept(i) /\ Ends(i)
  BY <1>6, <1>8, IncKeeps
<1> HIDE DEF i
<1>10. /\ SameBut(h, i, {"streams"}) /\ h.streams = 1 /\ h.flags = i.flags /\ DOMAIN i = DgramFields
  BY <1>6, <1>7, <1>9 DEF SameBut, DgramFields, BaseFields
<1> HIDE DEF h
<1>11. SameBut(h, b, {"flags", "counted", "activecnt", "streams"})
  BY <1>6, <1>9, <1>10 DEF SameBut, DgramFields, BaseFields
<1>12. /\ h.flags = b.flags \cup {"READING", "ACTIVE"}
       /\ h.activecnt = b.activecnt + 1 /\ h.activecnt = i.activecnt /\ h.counted = i.counted
       /\ h.ends = i.ends /\ h.pc = i.pc /\ Outstanding(h) = Outstanding(i)
  BY <1>6, <1>7, <1>9, <1>10 DEF SameBut, DgramFields, BaseFields, Outstanding
<1>13. /\ DOMAIN h = DgramFields /\ h.socket = b.socket
       /\ h.failed_bind = b.failed_bind /\ h.pc = b.pc /\ h.cur = b.cur
       /\ h.kernel = b.kernel /\ h.pending = b.pending /\ h.walk = b.walk
       /\ h.active_reqs = b.active_reqs /\ h.reqs_pending = b.reqs_pending
       /\ h.send_queue_count = b.send_queue_count /\ h.send_queue_size = b.send_queue_size
       /\ h.queued = b.queued /\ h.todo = b.todo /\ h.called = b.called
  BY <1>5, <1>11 DEF SameBut, DgramFields, BaseFields
<1>14. Outstanding(h) = Outstanding(b) /\ Sends(h) = Sends(b)
  BY <1>13 DEF Outstanding, Sends
<1>15. \A f : f \notin {"READING", "ACTIVE"} => (On(h, f) <=> On(b, f))
  BY <1>12 DEF On
<1>16. Ends(h) /\ Kept(h) /\ On(h, "READING") /\ ~On(h, "CLOSING")
  BY <1>0, <1>4, <1>15, <1>9, <1>10, <1>12 DEF Ends, CountSound, Kept, On
<1>17. HeldOnce(h) /\ DgramBound(h) /\ DgramSends(h)
  BY <1>3, <1>13, <1>14, <1>15 DEF DgramOk, HeldOnce, DgramBound, DgramSends
<1>18. DgramCounts(h, x)
  BY <1>5, <1>10, <1>12, <1>13, <1>14, <1>16 DEF DgramCounts
<1>19. (On(h, "READ_PENDING") => "recv" \in Outstanding(h))
  BY <1>3, <1>14, <1>15 DEF DgramOk
<1>20. DgramOk(h, x) /\ h.pc = wh.pc /\ h.cur = wh.cur
  BY <1>3, <1>13, <1>16, <1>17, <1>18, <1>19 DEF DgramOk, EndDue
<1>21. IF On(h, "READ_PENDING") THEN wh' = h ELSE wh' \in QueueRecv(h)
  BY <1>1 DEF h, i, s
<1>22. CASE On(h, "READ_PENDING")
  BY <1>0, <1>19, <1>20, <1>21, <1>22 DEF DgramInv, DgramPc, DgramReads, x
<1>23. CASE ~On(h, "READ_PENDING")
  <2>1. "recv" \notin Outstanding(h)
    BY <1>0, <1>3, <1>4, <1>14, <1>15, <1>23
  <2>2. DgramOk(wh', x) /\ "recv" \in Outstanding(wh') /\ wh'.pc = h.pc /\ wh'.cur = h.cur
    BY <1>0, <1>16, <1>20, <1>21, <1>23, <2>1, QueueRecvKeeps
  <2> QED BY <1>0, <1>20, <2>2 DEF DgramInv, DgramPc, DgramReads, x
<1> QED BY <1>22, <1>23

LEMMA DgramStopKeeps == ASSUME DgramInv, uv__udp_recv_stop PROVE DgramInv'
<1> DEFINE x == IF wh.cur = "none" THEN 0 ELSE 1
<1>1. DgramOk(wh', x) /\ ~On(wh', "READING") /\ wh'.pc = wh.pc /\ wh'.cur = wh.cur
  <2>1. DgramOk(wh, x) /\ DOMAIN wh = DgramFields /\ wh' = RecvStop(wh)
    BY DEF DgramInv, DgramOk, uv__udp_recv_stop
  <2>2. /\ DgramOk(wh', x) /\ SameBut(wh', wh, {"flags", "counted", "activecnt", "streams"})
        /\ ~On(wh', "READING")
    BY <2>1, RecvStopKeeps
  <2> QED BY <2>1, <2>2 DEF SameBut, DgramFields, BaseFields
<1> QED BY <1>1 DEF DgramInv, DgramPc, DgramReads

\* A request is taken from those that completed: it is still counted.
LEMMA DgramTaken ==
  ASSUME NEW h, DgramOk(h, 0), NEW r \in h.walk, NEW g, SameBut(g, h, {"flags", "walk"}),
         g.walk = h.walk \ {r}
  PROVE  /\ DOMAIN g = DgramFields /\ g.socket = h.socket
         /\ g.failed_bind = h.failed_bind /\ g.pc = h.pc /\ g.cur = h.cur /\ g.ok = h.ok
         /\ g.kernel = h.kernel /\ g.pending = h.pending
         /\ g.active_reqs = h.active_reqs /\ g.reqs_pending = h.reqs_pending
         /\ g.send_queue_count = h.send_queue_count /\ g.send_queue_size = h.send_queue_size
         /\ g.queued = h.queued /\ g.todo = h.todo /\ g.called = h.called
         /\ g.counted = h.counted /\ g.ends = h.ends /\ g.activecnt = h.activecnt
         /\ g.streams = h.streams
         /\ Outstanding(g) = Outstanding(h) \ {r} /\ r \in Outstanding(h) /\ HeldOnce(g)
         /\ Sends(g) = Sends(h) \ {r}
         /\ IsFiniteSet(Outstanding(g)) /\ ~On(h, "CLOSED")
         /\ g.reqs_pending = Cardinality(Outstanding(g)) + 1 /\ Cardinality(Outstanding(g)) \in Nat
<1>1. DOMAIN h = DgramFields /\ DgramSends(h) /\ DgramCounts(h, 0) /\ HeldOnce(h) /\ Ends(h)
  BY DEF DgramOk
<1>2. /\ DOMAIN g = DgramFields /\ g.socket = h.socket
      /\ g.failed_bind = h.failed_bind /\ g.pc = h.pc /\ g.cur = h.cur /\ g.ok = h.ok
      /\ g.kernel = h.kernel /\ g.pending = h.pending
      /\ g.active_reqs = h.active_reqs /\ g.reqs_pending = h.reqs_pending
      /\ g.send_queue_count = h.send_queue_count /\ g.send_queue_size = h.send_queue_size
      /\ g.queued = h.queued /\ g.todo = h.todo /\ g.called = h.called
      /\ g.counted = h.counted /\ g.ends = h.ends /\ g.activecnt = h.activecnt
      /\ g.streams = h.streams
  BY <1>1 DEF SameBut, DgramFields, BaseFields
<1>3. /\ Outstanding(g) = Outstanding(h) \ {r} /\ r \in Outstanding(h) /\ HeldOnce(g)
  BY <1>1, <1>2 DEF Outstanding, HeldOnce
<1>4. Sends(g) = Sends(h) \ {r}
  BY <1>3 DEF Sends
<1>5. /\ IsFiniteSet(Outstanding(g)) /\ Cardinality(Outstanding(g)) = Cardinality(Outstanding(h)) - 1
      /\ Cardinality(Outstanding(g)) \in Nat /\ Cardinality(Outstanding(h)) \in Nat
  BY <1>1, <1>3, OneMore, FS_CardinalityType DEF DgramSends
<1>6. g.reqs_pending = Cardinality(Outstanding(g)) + 1
  BY <1>1, <1>2, <1>5 DEF DgramCounts
<1>7. ~On(h, "CLOSED")
  BY <1>1, <1>3 DEF Ends, CountSound
<1> QED BY <1>2, <1>3, <1>4, <1>5, <1>6, <1>7

LEMMA RecvReqKeeps == ASSUME DgramInv, uv__process_udp_recv_req PROVE DgramInv'
<1> DEFINE k == Handling(wh, "recv")
           h == Clear(k, {"READ_PENDING"})
<1>0. /\ wh.pc = "idle" /\ wh.cur = "none" /\ "recv" \in wh.walk /\ DgramOk(wh, 0)
      /\ DOMAIN wh = DgramFields
  BY WinUdpAssumption DEF DgramInv, DgramPc, DgramOk, uv__process_udp_recv_req, CanHandle
<1>1. SameBut(k, wh, {"walk"}) /\ k.walk = wh.walk \ {"recv"} /\ k.flags = wh.flags
  BY <1>0 DEF Handling, SameBut, DgramFields, BaseFields
<1>2. /\ IF ~On(h, "READING") THEN wh' \in AfterRecv(h)
         ELSE IF "recv" \notin h.ok THEN wh' = CallUser(RecvStop(h), "recv_cb", "recv")
         ELSE wh' \in {CallUser(h, "recv_cb", "recv"), CallUser(RecvStop(h), "recv_cb", "recv")}
  BY DEF uv__process_udp_recv_req
<1> HIDE DEF k
<1>3. SameBut(h, wh, {"flags", "walk"}) /\ h.walk = wh.walk \ {"recv"} /\ h.flags = wh.flags \ {"READ_PENDING"}
  BY <1>0, <1>1 DEF Clear, SameBut, DgramFields, BaseFields
<1> HIDE DEF h
<1>4. /\ DOMAIN h = DgramFields /\ h.socket = wh.socket
      /\ h.failed_bind = wh.failed_bind /\ h.pc = "idle" /\ h.cur = "none"
      /\ h.active_reqs = wh.active_reqs
      /\ h.send_queue_count = wh.send_queue_count /\ h.send_queue_size = wh.send_queue_size
      /\ h.queued = wh.queued /\ h.todo = wh.todo /\ h.called = wh.called
      /\ h.counted = wh.counted /\ h.ends = wh.ends /\ h.activecnt = wh.activecnt
      /\ h.streams = wh.streams
      /\ Outstanding(h) = Outstanding(wh) \ {"recv"} /\ HeldOnce(h)
      /\ Sends(h) = Sends(wh) \ {"recv"} /\ IsFiniteSet(Outstanding(h)) /\ ~On(wh, "CLOSED")
      /\ h.reqs_pending = Cardinality(Outstanding(h)) + 1 /\ Cardinality(Outstanding(h)) \in Nat
  BY <1>0, <1>3, DgramTaken
<1>5. Sends(h) = Sends(wh)
  BY <1>4, WinUdpAssumption DEF Sends
<1>6. \A f : f # "READ_PENDING" => (On(h, f) <=> On(wh, f))
  BY <1>3 DEF On
<1>7. DgramOk(h, 1) /\ ~On(h, "CLOSED") /\ ~On(h, "READ_PENDING") /\ "recv" \notin Outstanding(h)
  <2>1. Ends(h) /\ Kept(h)
    BY <1>0, <1>4, <1>6 DEF DgramOk, Ends, CountSound, Kept
  <2>2. DgramSends(h)
    BY <1>0, <1>4, <1>5 DEF DgramOk, DgramSends
  <2>3. DgramCounts(h, 1)
    BY <1>0, <1>4, <1>5, <1>6 DEF DgramOk, DgramCounts
  <2>4. DgramBound(h) /\ ~EndDue(h) /\ ~On(h, "READ_PENDING")
    BY <1>0, <1>3, <1>4, <1>6 DEF DgramOk, DgramBound, EndDue, On
  <2> QED BY <1>0, <1>4, <1>6, <2>1, <2>2, <2>3, <2>4 DEF DgramOk
<1>8. ASSUME NEW j, DgramOk(j, 1), ~On(j, "CLOSED"), wh' = CallUser(j, "recv_cb", "recv")
      PROVE  DgramInv'
  <2>1. SameBut(wh', j, {"pc", "cur"}) /\ wh'.pc = "recv_cb" /\ wh'.cur = "recv"
    BY <1>8 DEF CallUser, SameBut, DgramOk, DgramFields, BaseFields
  <2> QED BY <1>8, <2>1, DgramCallKeeps DEF DgramInv, DgramPc, DgramReads
<1>9. DgramOk(RecvStop(h), 1) /\ ~On(RecvStop(h), "CLOSED")
  BY <1>7, RecvStopKeeps
<1>10. CASE wh' \in AfterRecv(h)
  BY <1>4, <1>7, <1>10, AfterRecvKeeps DEF DgramInv, DgramPc, DgramReads
<1> QED BY <1>2, <1>7, <1>8, <1>9, <1>10

LEMMA RecvDoneKeeps == ASSUME DgramInv, RecvDone PROVE DgramInv'
<1> DEFINE h == Returned(wh)
<1>0. /\ wh.pc = "recv_cb" /\ DgramOk(wh, 1) /\ DOMAIN wh = DgramFields /\ wh' \in AfterRecv(h)
      /\ "recv" \in Outstanding(wh) => On(wh, "READ_PENDING")
  BY DEF DgramInv, DgramPc, DgramOk, RecvDone, NotTwice, Sees
<1>1. SameBut(h, wh, {"pc", "cur"}) /\ h.pc = "idle" /\ h.cur = "none"
  BY <1>0 DEF Returned, SameBut, DgramFields, BaseFields
<1>2. ~On(wh, "CLOSED")
  BY <1>0 DEF DgramOk, Ends
<1> HIDE DEF h
<1>3. DgramOk(h, 1) /\ h.flags = wh.flags /\ Outstanding(h) = Outstanding(wh)
  BY <1>0, <1>1, <1>2, DgramCallKeeps
<1>4. DgramOk(wh', 0) /\ wh'.pc = "idle" /\ wh'.cur = "none" /\ (On(wh', "READING") => "recv" \in Outstanding(wh'))
  BY <1>0, <1>1, <1>2, <1>3, AfterRecvKeeps DEF On
<1> QED BY <1>4 DEF DgramInv, DgramPc, DgramReads

\* A send is counted: it is in the system's hands, or done.
LEMMA StartSendKeeps ==
  ASSUME NEW b, NEW x \in Int, DgramOk(b, x), ~On(b, "CLOSING"), NEW s \in b.todo,
         NEW g \in StartSend([b EXCEPT !.todo = @ \ {s}], s)
  PROVE  /\ DgramOk(g, x) /\ g.pc = b.pc /\ g.cur = b.cur
         /\ Outstanding(g) = Outstanding(b) \cup {s} /\ (On(g, "READING") <=> On(b, "READING"))
<1> DEFINE t == [b EXCEPT !.todo = @ \ {s}]
           h == [t EXCEPT !.send_queue_count = @ + 1]
           q == [h EXCEPT !.send_queue_size = @ + 1, !.queued = @ \cup {s}]
<1>0. /\ DOMAIN b = DgramFields /\ Ends(b) /\ Kept(b) /\ DgramSends(b) /\ DgramCounts(b, x)
      /\ HeldOnce(b) /\ DgramBound(b)
      /\ Cardinality(Sends(b)) \in Nat /\ Cardinality(Sends(b) \cap b.queued) \in Nat
      /\ Cardinality(Outstanding(b)) \in Nat
  BY DgramSizes DEF DgramOk
<1>1. s \in UdpSends /\ s # "recv" /\ s \notin Outstanding(b) /\ s \notin Sends(b) /\ s \notin b.queued
      /\ s \notin b.called
  BY <1>0, WinUdpAssumption DEF DgramSends, Sends
<1>2. SameBut(t, b, {"todo"}) /\ t.todo = b.todo \ {s} /\ DOMAIN t = DgramFields
  BY <1>0 DEF SameBut, DgramFields, BaseFields
<1>3. g \in {Register(Inserted(h, s, TRUE)), Register(Given(q, s))}
  BY DEF StartSend
<1> HIDE DEF t
<1>4. SameBut(h, t, {"send_queue_count"}) /\ h.send_queue_count = t.send_queue_count + 1 /\ DOMAIN h = DgramFields
  BY <1>2 DEF SameBut, DgramFields, BaseFields
<1> HIDE DEF h
<1>5. /\ SameBut(q, h, {"send_queue_size", "queued"}) /\ DOMAIN q = DgramFields
      /\ q.send_queue_size = h.send_queue_size + 1 /\ q.queued = h.queued \cup {s}
  BY <1>4 DEF SameBut, DgramFields, BaseFields
<1> HIDE DEF q
\* The record that is registered.
<1>6. PICK k : /\ g = Register(k) /\ DOMAIN k = DgramFields
               /\ SameBut(k, b, {"todo", "send_queue_count", "send_queue_size", "queued", "kernel",
                                 "pending", "ok", "reqs_pending"})
               /\ k.todo = b.todo \ {s} /\ k.send_queue_count = b.send_queue_count + 1
               /\ k.reqs_pending = b.reqs_pending + 1
               /\ \/ k.queued = b.queued /\ k.send_queue_size = b.send_queue_size
                  \/ k.queued = b.queued \cup {s} /\ k.send_queue_size = b.send_queue_size + 1
               /\ \/ k.kernel = b.kernel \cup {s} /\ k.pending = b.pending
                  \/ k.kernel = b.kernel /\ k.pending = b.pending \cup {s}
  <2>1. CASE g = Register(Inserted(h, s, TRUE))
    <3> DEFINE k == Inserted(h, s, TRUE)
    <3>1. /\ SameBut(k, h, {"pending", "ok", "reqs_pending"}) /\ DOMAIN k = DgramFields
          /\ k.reqs_pending = h.reqs_pending + 1 /\ k.pending = h.pending \cup {s}
      BY <1>4 DEF Inserted, SameBut, DgramFields, BaseFields
    <3>2. g = Register(k)
      BY <2>1
    <3> HIDE DEF k
    <3>3. /\ SameBut(k, b, {"todo", "send_queue_count", "send_queue_size", "queued", "kernel",
                            "pending", "ok", "reqs_pending"})
          /\ k.todo = b.todo \ {s} /\ k.send_queue_count = b.send_queue_count + 1
          /\ k.reqs_pending = b.reqs_pending + 1
          /\ k.queued = b.queued /\ k.send_queue_size = b.send_queue_size
          /\ k.kernel = b.kernel /\ k.pending = b.pending \cup {s}
      BY <1>0, <1>2, <1>4, <3>1 DEF SameBut, DgramFields, BaseFields
    <3> QED BY <3>1, <3>2, <3>3
  <2>2. CASE g = Register(Given(q, s))
    <3> DEFINE k == Given(q, s)
    <3>1. /\ SameBut(k, q, {"kernel", "reqs_pending"}) /\ DOMAIN k = DgramFields
          /\ k.reqs_pending = q.reqs_pending + 1 /\ k.kernel = q.kernel \cup {s}
      BY <1>5 DEF Given, SameBut, DgramFields, BaseFields
    <3>2. g = Register(k)
      BY <2>2
    <3> HIDE DEF k
    <3>3. /\ SameBut(k, b, {"todo", "send_queue_count", "send_queue_size", "queued", "kernel",
                            "pending", "ok", "reqs_pending"})
          /\ k.todo = b.todo \ {s} /\ k.send_queue_count = b.send_queue_count + 1
          /\ k.reqs_pending = b.reqs_pending + 1
          /\ k.queued = b.queued \cup {s} /\ k.send_queue_size = b.send_queue_size + 1
          /\ k.kernel = b.kernel \cup {s} /\ k.pending = b.pending
      BY <1>0, <1>2, <1>4, <1>5, <3>1 DEF SameBut, DgramFields, BaseFields
    <3> QED BY <3>1, <3>2, <3>3
  <2> QED BY <1>3, <2>1, <2>2
<1>7. /\ k.activecnt = b.activecnt /\ k.counted = b.counted /\ k.ends = b.ends /\ k.pc = b.pc
      /\ k.flags = b.flags /\ BaseFields \subseteq DOMAIN k
      /\ Outstanding(k) = Outstanding(b) \cup {s}
  BY <1>0, <1>6 DEF SameBut, DgramFields, BaseFields, Outstanding
<1>8. Kept(k) /\ Ends(k) /\ k.activecnt >= 0 /\ ~On(k, "CLOSING")
  BY <1>0, <1>7 DEF Kept, Ends, CountSound, On, DgramCounts
<1> DEFINE i == IncActive(k)
<1>9. /\ SameBut(i, k, {"flags", "counted", "activecnt"})
      /\ i.activecnt = k.activecnt + 1 /\ i.flags = k.flags \cup {"ACTIVE"}
      /\ Kept(i) /\ Ends(i)
  BY <1>7, <1>8, IncKeeps
<1>10. g = [i EXCEPT !.active_reqs = @ + 1]
  BY <1>6 DEF Register
<1> HIDE DEF i
<1>11. /\ SameBut(g, i, {"active_reqs"}) /\ g.active_reqs = i.active_reqs + 1 /\ g.flags = i.flags
       /\ DOMAIN i = DgramFields
  BY <1>6, <1>9, <1>10 DEF SameBut, DgramFields, BaseFields
<1>12. SameBut(g, k, {"flags", "counted", "activecnt", "active_reqs"})
  BY <1>6, <1>9, <1>11 DEF SameBut, DgramFields, BaseFields
<1>13. /\ g.activecnt = i.activecnt /\ g.counted = i.counted /\ g.ends = i.ends /\ g.pc = i.pc
       /\ Outstanding(g) = Outstanding(i) /\ g.active_reqs = k.active_reqs + 1
  BY <1>6, <1>9, <1>11 DEF SameBut, DgramFields, BaseFields, Outstanding
<1>14. /\ DOMAIN g = DgramFields /\ g.kernel = k.kernel /\ g.pending = k.pending /\ g.walk = k.walk
       /\ g.socket = k.socket /\ g.failed_bind = k.failed_bind /\ g.pc = k.pc /\ g.cur = k.cur
       /\ g.reqs_pending = k.reqs_pending /\ g.send_queue_count = k.send_queue_count
       /\ g.send_queue_size = k.send_queue_size /\ g.queued = k.queued /\ g.streams = k.streams
       /\ g.todo = k.todo /\ g.called = k.called
  BY <1>6, <1>12 DEF SameBut, DgramFields, BaseFields
<1>15. /\ k.walk = b.walk /\ k.socket = b.socket /\ k.failed_bind = b.failed_bind /\ k.cur = b.cur
       /\ k.streams = b.streams /\ k.called = b.called /\ k.active_reqs = b.active_reqs
  BY <1>0, <1>6 DEF SameBut, DgramFields, BaseFields
<1>16. Outstanding(g) = Outstanding(b) \cup {s} /\ Sends(g) = Sends(b) \cup {s}
  BY <1>1, <1>7, <1>14 DEF Outstanding, Sends
<1>17. g.flags = b.flags \cup {"ACTIVE"}
  BY <1>7, <1>9, <1>11
<1>18. Ends(g) /\ Kept(g)
  BY <1>9, <1>11, <1>13 DEF Ends, CountSound, Kept, On
<1>19. HeldOnce(g)
  BY <1>0, <1>1, <1>6, <1>14, <1>15 DEF HeldOnce, Outstanding
<1>20. DgramBound(g)
  BY <1>0, <1>14, <1>15, <1>17 DEF DgramBound, On
<1>21. DgramSends(g)
  BY <1>0, <1>1, <1>16, <1>6, <1>14, <1>15, OneMore DEF DgramSends
<1>22. /\ Cardinality(Outstanding(g)) = Cardinality(Outstanding(b)) + 1
       /\ Cardinality(Sends(g)) = Cardinality(Sends(b)) + 1
  BY <1>0, <1>1, <1>16, OneMore, DgramSizes DEF DgramSends
<1>23. g.send_queue_size = Cardinality(Sends(g) \cap g.queued)
  <2>1. CASE g.queued = b.queued /\ g.send_queue_size = b.send_queue_size
    BY <1>1, <1>16, <2>1, <1>0 DEF DgramCounts
  <2>2. CASE g.queued = b.queued \cup {s} /\ g.send_queue_size = b.send_queue_size + 1
    <3>1. Sends(g) \cap g.queued = (Sends(b) \cap b.queued) \cup {s}
      BY <1>1, <1>16, <2>2
    <3>2. Cardinality(Sends(g) \cap g.queued) = Cardinality(Sends(b) \cap b.queued) + 1
      BY <1>0, <1>1, <3>1, OneMore, DgramSizes
    <3> QED BY <1>0, <2>2, <3>2 DEF DgramCounts
  <2> QED BY <1>6, <1>14, <2>1, <2>2
<1>24. DgramCounts(g, x)
  <2>1. On(g, "READING") <=> On(b, "READING")
    BY <1>17 DEF On
  <2>2. /\ b.send_queue_count = Cardinality(Sends(b)) /\ b.active_reqs = Cardinality(Sends(b))
        /\ b.reqs_pending = Cardinality(Outstanding(b)) + x /\ b.activecnt = b.active_reqs + b.streams
        /\ b.streams = (IF On(b, "READING") THEN 1 ELSE 0)
    BY <1>0 DEF DgramCounts
  <2>3. /\ g.send_queue_count = b.send_queue_count + 1 /\ g.active_reqs = b.active_reqs + 1
        /\ g.reqs_pending = b.reqs_pending + 1 /\ g.activecnt = b.activecnt + 1
        /\ g.streams = b.streams
    BY <1>6, <1>7, <1>9, <1>13, <1>14, <1>15
  <2> QED BY <1>0, <1>22, <1>23, <2>1, <2>2, <2>3 DEF DgramCounts
<1>25. \A f : f # "ACTIVE" => (On(g, f) <=> On(b, f))
  BY <1>17 DEF On
<1> QED BY <1>7, <1>14, <1>15, <1>16, <1>18, <1>19, <1>20, <1>21, <1>24, <1>25 DEF DgramOk, EndDue

LEMMA UdpSendKeeps == ASSUME DgramInv, NEW s \in UdpSends, uv__udp_send(s) PROVE DgramInv'
<1> DEFINE x == IF wh.cur = "none" THEN 0 ELSE 1
<1>1. DgramOk(wh, x) /\ ~On(wh, "CLOSING") /\ s \in wh.todo /\ x \in Int
  BY DEF DgramInv, uv__udp_send, DgramUsable, Sees
<1>2. PICK family \in Families : \E b \in MaybeBind(wh, family) :
        wh' \in StartSend([b EXCEPT !.todo = @ \ {s}], s)
  BY DEF uv__udp_send
<1>3. PICK b \in MaybeBind(wh, family) : wh' \in StartSend([b EXCEPT !.todo = @ \ {s}], s)
  BY <1>2
<1>4. DgramSame(b, wh) /\ DgramBound(b) /\ b.socket \in {"none", "ip4", "ip6"}
  BY <1>1, <1>3, BindSame DEF DgramOk
<1> HIDE DEF x
<1>5. /\ DgramOk(b, x) /\ b.pc = wh.pc /\ b.cur = wh.cur /\ b.todo = wh.todo
      /\ Outstanding(b) = Outstanding(wh)
  BY <1>1, <1>4, SameKeeps
<1>6. ~On(b, "CLOSING") /\ (On(b, "READING") <=> On(wh, "READING"))
  BY <1>1, <1>4 DEF DgramSame
<1>7. /\ DgramOk(wh', x) /\ wh'.pc = b.pc /\ wh'.cur = b.cur
      /\ Outstanding(wh') = Outstanding(b) \cup {s} /\ (On(wh', "READING") <=> On(b, "READING"))
  BY <1>1, <1>3, <1>5, <1>6, StartSendKeeps
<1> QED BY <1>5, <1>6, <1>7 DEF DgramInv, DgramPc, DgramReads, x

\* The record the handler of a send works on.
SendTaken(s) ==
  [Handling(wh, s) EXCEPT !.send_queue_count = @ - 1, !.called = @ \cup {s},
                          !.send_queue_size = IF s \in wh.queued THEN @ - 1 ELSE @]

LEMMA SendReqKeeps == ASSUME DgramInv, NEW s \in UdpSends, uv__process_udp_send_req(s) PROVE DgramInv'
<1> DEFINE k == Handling(wh, s)
           h == SendTaken(s)
           d == DecActive(h)
           u == Unregister(h)
<1>0. /\ wh.pc = "idle" /\ wh.cur = "none" /\ s \in wh.walk /\ DgramOk(wh, 0)
      /\ s # "recv" /\ s # "none" /\ DOMAIN wh = DgramFields
  BY WinUdpAssumption DEF DgramInv, DgramPc, DgramOk, uv__process_udp_send_req, CanHandle
<1>1. wh' = CallUser(u, "send_cb", s)
  BY DEF uv__process_udp_send_req, SendTaken
<1>2. SameBut(k, wh, {"walk"}) /\ k.walk = wh.walk \ {s} /\ k.flags = wh.flags /\ DOMAIN k = DgramFields
  BY <1>0 DEF Handling, SameBut, DgramFields, BaseFields
<1>3. /\ SameBut(k, wh, {"flags", "walk"})
      /\ h = [k EXCEPT !.send_queue_count = @ - 1, !.called = @ \cup {s},
                       !.send_queue_size = IF s \in wh.queued THEN @ - 1 ELSE @]
  BY <1>2 DEF SameBut, SendTaken
<1> HIDE DEF k, h
<1>4. /\ DOMAIN k = DgramFields /\ k.socket = wh.socket
      /\ k.failed_bind = wh.failed_bind /\ k.pc = "idle" /\ k.cur = "none"
      /\ k.kernel = wh.kernel /\ k.pending = wh.pending
      /\ k.active_reqs = wh.active_reqs
      /\ k.send_queue_count = wh.send_queue_count /\ k.send_queue_size = wh.send_queue_size
      /\ k.queued = wh.queued /\ k.todo = wh.todo /\ k.called = wh.called
      /\ k.counted = wh.counted /\ k.ends = wh.ends /\ k.activecnt = wh.activecnt
      /\ k.streams = wh.streams
      /\ Outstanding(k) = Outstanding(wh) \ {s} /\ s \in Outstanding(wh) /\ HeldOnce(k)
      /\ Sends(k) = Sends(wh) \ {s} /\ IsFiniteSet(Outstanding(k)) /\ ~On(wh, "CLOSED")
      /\ k.reqs_pending = Cardinality(Outstanding(k)) + 1 /\ Cardinality(Outstanding(k)) \in Nat
  BY <1>0, <1>2, <1>3, DgramTaken
<1>5. /\ SameBut(h, k, {"send_queue_count", "called", "send_queue_size"}) /\ DOMAIN h = DgramFields
      /\ h.send_queue_count = k.send_queue_count - 1 /\ h.called = k.called \cup {s}
      /\ h.send_queue_size = IF s \in wh.queued THEN k.send_queue_size - 1 ELSE k.send_queue_size
  BY <1>2, <1>3 DEF SameBut, DgramFields, BaseFields
<1>6. /\ Ends(wh) /\ Kept(wh) /\ DgramSends(wh) /\ DgramCounts(wh, 0) /\ DgramBound(wh)
      /\ Cardinality(Sends(wh)) \in Nat /\ s \in Sends(wh) /\ IsFiniteSet(Sends(wh))
      /\ IsFiniteSet(Sends(wh) \cap wh.queued) /\ Cardinality(Sends(wh) \cap wh.queued) \in Nat
      /\ Cardinality(Sends(wh)) > 0 /\ Cardinality(Sends(wh) \ {s}) = Cardinality(Sends(wh)) - 1
  <2>1. /\ Ends(wh) /\ Kept(wh) /\ DgramSends(wh) /\ DgramCounts(wh, 0) /\ DgramBound(wh)
        /\ s \in Sends(wh)
    BY <1>0, <1>4 DEF DgramOk, Sends
  <2>2. /\ Cardinality(Sends(wh)) \in Nat /\ IsFiniteSet(Sends(wh))
        /\ IsFiniteSet(Sends(wh) \cap wh.queued) /\ Cardinality(Sends(wh) \cap wh.queued) \in Nat
    BY <2>1, DgramSizes
  <2>3. Cardinality(Sends(wh) \ {s}) = Cardinality(Sends(wh)) - 1 /\ IsFiniteSet(Sends(wh) \ {s})
    BY <2>1, <2>2, OneMore
  <2>4. Cardinality(Sends(wh) \ {s}) \in Nat
    BY <2>3, FS_CardinalityType
  <2> QED BY <2>1, <2>2, <2>3, <2>4
<1>7. /\ h.activecnt = wh.activecnt /\ h.counted = wh.counted /\ h.ends = wh.ends /\ h.pc = wh.pc
      /\ h.flags = wh.flags /\ BaseFields \subseteq DOMAIN h /\ Outstanding(h) = Outstanding(k)
  BY <1>0, <1>2, <1>4, <1>5 DEF SameBut, DgramFields, BaseFields, Outstanding
<1>8. Kept(h) /\ Ends(h) /\ h.activecnt > 0
  BY <1>4, <1>6, <1>7 DEF Kept, Ends, CountSound, On, DgramCounts
<1>9. /\ SameBut(d, h, {"flags", "counted", "activecnt"})
      /\ d.activecnt = h.activecnt - 1
      /\ \A f : f # "ACTIVE" => (On(d, f) <=> On(h, f))
      /\ Kept(d) /\ Ends(d)
  BY <1>7, <1>8, DecKeeps
<1>10. u = [d EXCEPT !.active_reqs = @ - 1]
  BY DEF Unregister
<1> HIDE DEF d, u
<1>11. /\ SameBut(u, d, {"active_reqs"}) /\ u.active_reqs = d.active_reqs - 1 /\ u.flags = d.flags
       /\ DOMAIN d = DgramFields
  BY <1>5, <1>9, <1>10 DEF SameBut, DgramFields, BaseFields
<1>12. /\ u.activecnt = d.activecnt /\ u.counted = d.counted /\ u.ends = d.ends /\ u.pc = d.pc
       /\ Outstanding(u) = Outstanding(d) /\ u.active_reqs = h.active_reqs - 1
       /\ SameBut(u, h, {"flags", "counted", "activecnt", "active_reqs"})
  BY <1>5, <1>9, <1>11 DEF SameBut, DgramFields, BaseFields, Outstanding
<1>13. /\ DOMAIN u = DgramFields /\ u.kernel = h.kernel /\ u.pending = h.pending /\ u.walk = h.walk
       /\ u.socket = h.socket /\ u.failed_bind = h.failed_bind /\ u.pc = h.pc /\ u.cur = h.cur
       /\ u.reqs_pending = h.reqs_pending /\ u.send_queue_count = h.send_queue_count
       /\ u.send_queue_size = h.send_queue_size /\ u.queued = h.queued /\ u.streams = h.streams
       /\ u.todo = h.todo /\ u.called = h.called
  BY <1>5, <1>12 DEF SameBut, DgramFields, BaseFields
<1>14. /\ h.kernel = k.kernel /\ h.pending = k.pending /\ h.walk = k.walk
       /\ h.socket = k.socket /\ h.failed_bind = k.failed_bind
       /\ h.reqs_pending = k.reqs_pending /\ h.queued = k.queued /\ h.streams = k.streams
       /\ h.todo = k.todo /\ h.active_reqs = k.active_reqs
  BY <1>2, <1>5 DEF SameBut, DgramFields, BaseFields
<1>15. Outstanding(u) = Outstanding(k) /\ Sends(u) = Sends(wh) \ {s}
  BY <1>4, <1>13, <1>14 DEF Outstanding, Sends
<1>16. \A f : f # "ACTIVE" => (On(u, f) <=> On(wh, f))
  BY <1>7, <1>9, <1>11 DEF On
<1>17. Ends(u) /\ Kept(u)
  BY <1>9, <1>11, <1>12 DEF Ends, CountSound, Kept, On
<1>18. HeldOnce(u) /\ DgramBound(u)
  BY <1>4, <1>6, <1>13, <1>14, <1>16 DEF HeldOnce, DgramBound
<1>19. DgramSends(u)
  BY <1>4, <1>6, <1>15, <1>5, <1>13, <1>14 DEF DgramSends
<1>20. u.send_queue_size = Cardinality(Sends(u) \cap u.queued)
  <2>1. CASE s \in wh.queued
    <3>1. Sends(u) \cap u.queued = (Sends(wh) \cap wh.queued) \ {s} /\ s \in Sends(wh) \cap wh.queued
      BY <1>4, <1>6, <1>13, <1>14, <1>15, <2>1
    <3>2. Cardinality(Sends(u) \cap u.queued) = Cardinality(Sends(wh) \cap wh.queued) - 1
      BY <1>6, <3>1, OneMore
    <3> QED BY <1>4, <1>5, <1>6, <1>13, <2>1, <3>2 DEF DgramCounts
  <2>2. CASE s \notin wh.queued
    BY <1>4, <1>13, <1>14, <1>15, <2>2, <1>5, <1>6 DEF DgramCounts
  <2> QED BY <2>1, <2>2
<1>21. DgramCounts(u, 1)
  <2>1. /\ u.send_queue_count = wh.send_queue_count - 1 /\ u.active_reqs = wh.active_reqs - 1
        /\ u.activecnt = wh.activecnt - 1 /\ u.streams = wh.streams
        /\ u.reqs_pending = Cardinality(Outstanding(u)) + 1
    BY <1>4, <1>5, <1>7, <1>9, <1>12, <1>13, <1>14, <1>15
  <2>2. On(u, "READING") <=> On(wh, "READING")
    BY <1>16
  <2> QED BY <1>6, <1>15, <1>20, <2>1, <2>2 DEF DgramCounts
<1>22. DgramOk(u, 1) /\ ~On(u, "CLOSED")
  <2>1. ~EndDue(u)
    BY <1>4, <1>13, <1>14, <1>15 DEF EndDue
  <2>2. /\ On(u, "CLOSING") => ~On(u, "READING")
        /\ On(u, "READ_PENDING") => "recv" \in Outstanding(u)
    BY <1>0, <1>4, <1>15, <1>16 DEF DgramOk
  <2>3. u.socket \in {"none", "ip4", "ip6"}
    BY <1>0, <1>4, <1>13, <1>14 DEF DgramOk
  <2> QED BY <1>4, <1>13, <1>16, <1>17, <1>18, <1>19, <1>21, <2>1, <2>2, <2>3 DEF DgramOk
<1>23. SameBut(wh', u, {"pc", "cur"}) /\ wh'.pc = "send_cb" /\ wh'.cur = s
  BY <1>1, <1>13 DEF CallUser, SameBut, DgramFields, BaseFields
<1>24. DgramOk(wh', 1) /\ wh'.flags = u.flags /\ Outstanding(wh') = Outstanding(u)
  BY <1>22, <1>23, DgramCallKeeps
<1>25. DgramReads(wh')
  BY <1>0, <1>16, <1>24, <1>4, <1>15 DEF DgramInv, DgramReads, On
<1> QED BY <1>0, <1>23, <1>24, <1>25 DEF DgramInv, DgramPc

LEMMA SendDoneKeeps == ASSUME DgramInv, SendDone PROVE DgramInv'
<1> DEFINE h == Returned(wh)
<1>0. /\ wh.pc = "send_cb" /\ wh.cur \in UdpSends /\ wh.cur # "recv" /\ DgramOk(wh, 1)
      /\ DOMAIN wh = DgramFields /\ wh' = DecPending(h)
  BY WinUdpAssumption DEF DgramInv, DgramPc, DgramOk, SendDone
<1>1. SameBut(h, wh, {"pc", "cur"}) /\ h.pc = "idle" /\ h.cur = "none"
  BY <1>0 DEF Returned, SameBut, DgramFields, BaseFields
<1>2. ~On(wh, "CLOSED")
  BY <1>0 DEF DgramOk, Ends
<1> HIDE DEF h
<1>3. DgramOk(h, 1) /\ h.flags = wh.flags /\ Outstanding(h) = Outstanding(wh)
  BY <1>0, <1>1, <1>2, DgramCallKeeps
<1>4. /\ DgramOk(wh', 0) /\ Outstanding(wh') = Outstanding(h) /\ wh'.pc = "idle" /\ wh'.cur = "none"
      /\ On(wh', "READING") <=> On(h, "READING")
  BY <1>0, <1>1, <1>2, <1>3, DgramDecKeeps DEF On
<1> QED BY <1>0, <1>3, <1>4 DEF DgramInv, DgramPc, DgramReads, On

LEMMA DgramCloseKeeps == ASSUME DgramInv, uv__udp_close PROVE DgramInv'
<1> DEFINE x == IF wh.cur = "none" THEN 0 ELSE 1
           r == RecvStop(wh)
           k == [r EXCEPT !.socket = "none"]
           h == HandleClosing(k)
<1>0. DgramOk(wh, x) /\ ~On(wh, "CLOSING") /\ DOMAIN wh = DgramFields /\ x \in Int
  BY DEF DgramInv, DgramOk, uv__udp_close, Sees
<1>1. wh' = IF h.reqs_pending = 0 THEN WantEndgame(h) ELSE h
  BY DEF uv__udp_close
<1> HIDE DEF x
<1>2. /\ DgramOk(r, x) /\ SameBut(r, wh, {"flags", "counted", "activecnt", "streams"})
      /\ ~On(r, "READING") /\ Outstanding(r) = Outstanding(wh)
      /\ \A f : f \notin {"ACTIVE", "READING"} => (On(r, f) <=> On(wh, f))
  BY <1>0, RecvStopKeeps
<1> HIDE DEF r
<1>3. /\ DOMAIN r = DgramFields /\ Ends(r) /\ Kept(r) /\ DgramSends(r) /\ DgramCounts(r, x)
      /\ HeldOnce(r) /\ ~On(r, "CLOSING") /\ r.pc = wh.pc /\ r.cur = wh.cur
  BY <1>0, <1>2 DEF DgramOk, SameBut, DgramFields, BaseFields
<1>4. SameBut(k, r, {"socket"}) /\ k.socket = "none" /\ k.flags = r.flags /\ DOMAIN k = DgramFields
  BY <1>3 DEF SameBut, DgramFields, BaseFields
<1> HIDE DEF k
<1>5. /\ SameBut(h, k, {"flags", "counted"}) /\ h.flags = (k.flags \cup {"CLOSING"}) \ {"ACTIVE"}
      /\ h.counted = IF On(k, "ACTIVE") THEN k.counted ELSE k.counted + 1
      /\ DOMAIN h = DgramFields
  BY <1>4 DEF HandleClosing, SameBut, DgramFields, BaseFields
<1> HIDE DEF h
<1>6. /\ SameBut(wh', h, {"flags"}) /\ DOMAIN wh' = DgramFields
      /\ wh'.flags = h.flags \cup (IF h.reqs_pending = 0 THEN {"ENDGAME_QUEUED"} ELSE {})
  BY <1>1, <1>5 DEF WantEndgame, Set, SameBut, DgramFields, BaseFields
<1>7. /\ wh'.socket = "none" /\ wh'.pc = r.pc /\ wh'.cur = r.cur
      /\ wh'.kernel = r.kernel /\ wh'.pending = r.pending /\ wh'.walk = r.walk
      /\ wh'.active_reqs = r.active_reqs /\ wh'.reqs_pending = r.reqs_pending
      /\ wh'.send_queue_count = r.send_queue_count /\ wh'.send_queue_size = r.send_queue_size
      /\ wh'.queued = r.queued /\ wh'.todo = r.todo /\ wh'.called = r.called
      /\ wh'.ends = r.ends /\ wh'.activecnt = r.activecnt
      /\ wh'.streams = r.streams /\ h.reqs_pending = r.reqs_pending
      /\ wh'.counted = IF On(r, "ACTIVE") THEN r.counted ELSE r.counted + 1
  BY <1>3, <1>4, <1>5, <1>6 DEF SameBut, DgramFields, BaseFields, On
<1>8. Outstanding(wh') = Outstanding(r) /\ Sends(wh') = Sends(r)
  BY <1>7 DEF Outstanding, Sends
<1>9. /\ On(wh', "CLOSING") /\ ~On(wh', "ACTIVE") /\ (wh'.reqs_pending = 0 => On(wh', "ENDGAME_QUEUED"))
      /\ \A f : f \notin {"ACTIVE", "CLOSING", "ENDGAME_QUEUED"} => (On(wh', f) <=> On(r, f))
  BY <1>4, <1>5, <1>6, <1>7 DEF On
<1>10. ~On(r, "CLOSED") /\ ~On(wh', "CLOSED") /\ ~On(wh', "READING")
  BY <1>2, <1>3, <1>9 DEF Ends
<1>11. Ends(wh') /\ Kept(wh')
  BY <1>3, <1>7, <1>9, <1>10 DEF Ends, CountSound, Kept
<1>12. HeldOnce(wh') /\ DgramBound(wh') /\ DgramSends(wh')
  BY <1>3, <1>7, <1>8, <1>9 DEF HeldOnce, DgramBound, DgramSends
<1>13. DgramCounts(wh', x)
  BY <1>2, <1>3, <1>7, <1>8, <1>10 DEF DgramCounts
<1>14. On(wh', "READ_PENDING") => "recv" \in Outstanding(wh')
  BY <1>2, <1>8, <1>9 DEF DgramOk
<1>15. DgramOk(wh', x)
  BY <1>6, <1>7, <1>9, <1>10, <1>11, <1>12, <1>13, <1>14 DEF DgramOk, EndDue
<1> QED BY <1>3, <1>7, <1>10, <1>15 DEF DgramInv, DgramPc, DgramReads, x

LEMMA DgramEndKeeps == ASSUME DgramInv, uv__udp_endgame PROVE DgramInv'
<1> DEFINE k == Ending(wh)
<1>0. /\ wh.pc = "idle" /\ wh.cur = "none" /\ DgramOk(wh, 0) /\ On(wh, "ENDGAME_QUEUED")
      /\ DOMAIN wh = DgramFields /\ wh' = IF EndDue(wh) THEN HandleClose(k) ELSE k
  BY WinUdpAssumption DEF DgramInv, DgramPc, DgramOk, uv__udp_endgame, CanEnd
<1> HIDE DEF k
<1>1. /\ Ends(wh) /\ Kept(wh) /\ DgramSends(wh) /\ DgramCounts(wh, 0) /\ HeldOnce(wh) /\ DgramBound(wh)
      /\ On(wh, "CLOSING") /\ ~On(wh, "CLOSED") /\ ~On(wh, "READING") /\ ~On(wh, "ACTIVE")
      /\ wh.counted = 1 /\ wh.ends = 0
  BY <1>0 DEF DgramOk, Ends, CountSound
<1>2. SameBut(k, wh, {"flags"}) /\ k.flags = wh.flags \ {"ENDGAME_QUEUED"} /\ DOMAIN k = DgramFields
  BY <1>0 DEF Ending, Clear, SameBut, DgramFields, BaseFields, k
<1>3. /\ SameBut(wh', wh, {"flags", "counted", "ends"})
      /\ EndDue(wh) => /\ wh'.flags = k.flags \cup {"CLOSED"} /\ wh'.counted = 0 /\ wh'.ends = 1
      /\ ~EndDue(wh) => wh'.flags = k.flags /\ wh'.counted = 1 /\ wh'.ends = 0
  <2>1. CASE EndDue(wh)
    <3>1. /\ SameBut(wh', k, {"flags", "counted", "ends"}) /\ wh'.flags = k.flags \cup {"CLOSED"}
          /\ wh'.counted = k.counted - 1 /\ wh'.ends = k.ends + 1
      BY <1>0, <1>2, <2>1 DEF HandleClose, Set, SameBut, DgramFields, BaseFields
    <3>2. k.counted = 1 /\ k.ends = 0
      BY <1>1, <1>2 DEF SameBut, DgramFields, BaseFields
    <3> QED BY <1>2, <2>1, <3>1, <3>2 DEF SameBut
  <2>2. CASE ~EndDue(wh)
    BY <1>1, <1>2, <1>0, <2>2 DEF SameBut, DgramFields, BaseFields
  <2> QED BY <2>1, <2>2
<1>4. /\ DOMAIN wh' = DgramFields /\ wh'.socket = wh.socket
      /\ wh'.failed_bind = wh.failed_bind /\ wh'.pc = wh.pc /\ wh'.cur = wh.cur
      /\ wh'.kernel = wh.kernel /\ wh'.pending = wh.pending /\ wh'.walk = wh.walk
      /\ wh'.active_reqs = wh.active_reqs /\ wh'.reqs_pending = wh.reqs_pending
      /\ wh'.send_queue_count = wh.send_queue_count /\ wh'.send_queue_size = wh.send_queue_size
      /\ wh'.queued = wh.queued /\ wh'.todo = wh.todo /\ wh'.called = wh.called
      /\ wh'.activecnt = wh.activecnt /\ wh'.streams = wh.streams
  BY <1>0, <1>3 DEF SameBut, DgramFields, BaseFields
<1>5. Outstanding(wh') = Outstanding(wh) /\ Sends(wh') = Sends(wh)
  BY <1>4 DEF Outstanding, Sends
<1>6. EndDue(wh) => Outstanding(wh) = {}
  BY <1>1, DgramSizes, FS_EmptySet DEF EndDue, DgramCounts, DgramSends
<1>7. /\ \A f : f \notin {"CLOSED", "ENDGAME_QUEUED"} => (On(wh', f) <=> On(wh, f))
      /\ (On(wh', "CLOSED") <=> EndDue(wh)) /\ ~On(wh', "ENDGAME_QUEUED")
  BY <1>1, <1>2, <1>3 DEF On
<1>8. Ends(wh') /\ Kept(wh')
  BY <1>0, <1>1, <1>3, <1>4, <1>5, <1>6, <1>7 DEF Ends, CountSound, Kept
<1>9. HeldOnce(wh') /\ DgramBound(wh') /\ DgramSends(wh') /\ DgramCounts(wh', 0)
  BY <1>1, <1>4, <1>5, <1>7 DEF HeldOnce, DgramBound, DgramSends, DgramCounts
<1>10. EndDue(wh') => On(wh', "CLOSED")
  BY <1>4, <1>7 DEF EndDue
<1>11. DgramOk(wh', 0)
  BY <1>0, <1>4, <1>5, <1>7, <1>8, <1>9, <1>10 DEF DgramOk
<1> QED BY <1>0, <1>1, <1>4, <1>7, <1>11 DEF DgramInv, DgramPc, DgramReads

LEMMA DgramSystemKeeps == ASSUME DgramInv, DgramCompletes \/ DgramWalk PROVE DgramInv'
<1> DEFINE x == IF wh.cur = "none" THEN 0 ELSE 1
<1>0. DgramOk(wh, x) /\ DOMAIN wh = DgramFields
  BY DEF DgramInv, DgramOk
<1> HIDE DEF x
<1>1. /\ SameBut(wh', wh, {"kernel", "pending", "walk", "ok"})
      /\ Outstanding(wh') = Outstanding(wh) /\ HeldOnce(wh')
  <2>1. CASE DgramCompletes
    <3>1. PICK r \in wh.kernel, good \in BOOLEAN : wh' = Completed(wh, r, good)
      BY <2>1 DEF DgramCompletes
    <3>2. /\ SameBut(wh', wh, {"kernel", "pending", "ok"}) /\ wh'.kernel = wh.kernel \ {r}
          /\ wh'.pending = wh.pending \cup {r}
      BY <1>0, <3>1 DEF Completed, SameBut, DgramFields, BaseFields
    <3>3. wh'.walk = wh.walk
      BY <1>0, <3>2 DEF SameBut, DgramFields, BaseFields
    <3> QED BY <1>0, <3>1, <3>2, <3>3 DEF SameBut, Outstanding, HeldOnce, DgramOk
  <2>2. CASE DgramWalk
    BY <1>0, <2>2 DEF DgramWalk, CanWalk, WalkReqs, SameBut, DgramFields, BaseFields, Outstanding,
       HeldOnce, DgramOk
  <2> QED BY <2>1, <2>2
<1>2. /\ DOMAIN wh' = DgramFields /\ wh'.socket = wh.socket /\ wh'.flags = wh.flags
      /\ wh'.failed_bind = wh.failed_bind /\ wh'.pc = wh.pc /\ wh'.cur = wh.cur
      /\ wh'.counted = wh.counted /\ wh'.ends = wh.ends
      /\ wh'.active_reqs = wh.active_reqs /\ wh'.reqs_pending = wh.reqs_pending
      /\ wh'.send_queue_count = wh.send_queue_count /\ wh'.send_queue_size = wh.send_queue_size
      /\ wh'.queued = wh.queued /\ wh'.todo = wh.todo /\ wh'.called = wh.called
      /\ wh'.activecnt = wh.activecnt /\ wh'.streams = wh.streams
  BY <1>0, <1>1 DEF SameBut, DgramFields, BaseFields
<1>3. Sends(wh') = Sends(wh)
  BY <1>1 DEF Sends
<1>4. Ends(wh') /\ Kept(wh') /\ DgramBound(wh') /\ DgramSends(wh') /\ DgramCounts(wh', x)
  BY <1>0, <1>1, <1>2, <1>3 DEF DgramOk, Ends, CountSound, Kept, DgramBound, DgramSends, DgramCounts, On
<1>5. DgramOk(wh', x)
  BY <1>0, <1>1, <1>2, <1>4 DEF DgramOk, EndDue, On
<1> QED BY <1>1, <1>2, <1>5 DEF DgramInv, DgramPc, DgramReads, On, x

LEMMA DgramNextKeeps == ASSUME DgramInv, WinUdpNext PROVE DgramInv'
BY DgramSetKeeps, RecvStartKeeps, DgramStopKeeps, RecvReqKeeps, RecvDoneKeeps, UdpSendKeeps,
   SendReqKeeps, SendDoneKeeps, DgramCloseKeeps, DgramEndKeeps, DgramSystemKeeps DEF WinUdpNext

-----------------------------------------------------------------------------
(* All of them.                                                            *)

WinHandleInv ==
  /\ win = "udp" => DgramInv
  /\ win = "poll" => PollInv
  /\ win = "fs_event" => WatchInv
  /\ win = "process" => ChildInv

LEMMA WinHandleInit == WindowsInit => WinHandleInv
BY DgramInitInv, PollInitInv, WatchInitInv, ChildInitInv DEF WindowsInit, WinHandleInv

LEMMA WinHandleStep == WinHandleInv /\ [WindowsNext]_<<win, wh>> => WinHandleInv'
<1> SUFFICES ASSUME WinHandleInv, [WindowsNext]_<<win, wh>> PROVE WinHandleInv'
  OBVIOUS
<1>1. CASE UNCHANGED <<win, wh>>
  BY <1>1 DEF DgramInv, DgramPc, DgramReads, PollInv, WatchInv, ChildInv, WinHandleInv
<1>2. CASE WindowsNext
  BY <1>2, DgramNextKeeps, PollNextKeeps, WatchNextKeeps, ChildNextKeeps DEF WindowsNext,
     WinHandleInv
<1> QED BY <1>1, <1>2

\* A datagram socket, a polled socket, a watched path and a child process of the
\* Windows port keep their promises, for any sends, any number of stdio handles and
\* of entries: the requests the system holds are those the handle counts, callbacks
\* that stop, start and close included, and the end comes once, after the last.
THEOREM WinHandlesSafe == WindowsSpec => []WinHandleSound
<1>1. WinHandleInv => WinHandleSound
  BY DgramInvSound, PollInvSound, WatchInvSound, ChildInvSound DEF WinHandleInv, WinHandleSound
<1> QED BY <1>1, WinHandleInit, WinHandleStep, PTL DEF WindowsSpec

-----------------------------------------------------------------------------
(* All parts of the loop.                                                  *)

WinLoopInv ==
  /\ win = "run" => RunInv
  /\ win = "wait" => WaitInv
  /\ win = "watchers" => ListInv
  /\ win = "signal" => SignalInv
  /\ win = "loops" => TableInv
  /\ win = "resolve" => ResolveInv

LEMMA WinLoopInit == WindowsInit => WinLoopInv
BY RunInitInv, WaitInitInv, ListInitInv, SignalInitInv, TableInitInv, ResolveInitInv
   DEF WindowsInit, WinLoopInv

LEMMA WinLoopStep == WinLoopInv /\ [WindowsNext]_<<win, wh>> => WinLoopInv'
<1> SUFFICES ASSUME WinLoopInv, [WindowsNext]_<<win, wh>> PROVE WinLoopInv'
  OBVIOUS
<1>1. CASE UNCHANGED <<win, wh>>
  BY <1>1 DEF RunInv, WaitInv, SignalInv, ListInv, TableInv, ResolveInv, WinLoopInv
<1>2. CASE WindowsNext
  BY <1>2, RunNextKeeps, WaitNextKeeps, ListNextKeeps, SignalNextKeeps, TableNextKeeps,
     ResolveNextKeeps DEF WindowsNext, WinLoopInv
<1>3. WindowsNext \/ UNCHANGED <<win, wh>>
  OBVIOUS
<1> QED BY <1>1, <1>2, <1>3

\* The loop of the Windows port keeps its promises, for any async handles, senders,
\* signal handles and watchers, any clock, and any number of loops in the table: every
\* wake-up is in one place and a loop that sleeps has missed none, a wait lasts to its
\* time, a walk calls each watcher it owes, a signal is told once, each loop is woken
\* and the results of name resolution fit their memory (uv_run, uv__poll, uv__poll_wine,
\* uv__idle_invoke, uv__signal_dispatch, uv__loops_remove, uv__getaddrinfo_done).
THEOREM WinLoopSafe == WindowsSpec => []WinLoopSound
<1>1. WinLoopInv => WinLoopSound
  BY RunInvSound, WaitInvSound, ListInvSound, SignalInvSound, TableInvSound, ResolveInvSound
  DEF WinLoopInv, WinLoopSound
<1> QED BY <1>1, WinLoopInit, WinLoopStep, PTL DEF WindowsSpec

-----------------------------------------------------------------------------
(* The server of a named pipe.                                             *)

ServerFields ==
  BaseFields \cup {"pending_instances", "accept_reqs", "pipeHandle", "pending_accepts"}

ServerTypes(h) ==
  /\ DOMAIN h = ServerFields
  /\ h.pending_instances \in 0 .. Len(PipeInstances) /\ h.accept_reqs \in BOOLEAN
  /\ h.pipeHandle \in [Instances -> BOOLEAN]
  /\ h.pending_accepts \in Seq(Instances) /\ NoDup(h.pending_accepts)
  /\ h.active_reqs = 0 /\ h.activecnt = IF On(h, "LISTENING") THEN 1 ELSE 0

\* Requests that wait for a client, have one or offer it have an instance.
ServerHolds(h) ==
  \A a \in Instances :
    a \in In(h.pending_accepts) \/ a \in h.kernel \/ a \in h.ok \cap (h.pending \cup h.walk) => h.pipeHandle[a]

\* Where the requests are.
ServerRequests(h) ==
  /\ In(h.pending_accepts) \cap Outstanding(h) = {}
  /\ ~On(h, "LISTENING") /\ ~On(h, "CLOSING") => In(h.pending_accepts) \cup Outstanding(h) = {}
  /\ ~On(h, "CLOSING") => ServerHolds(h)
  /\ On(h, "CLOSING") => \A a \in Instances : ~h.pipeHandle[a]

ServerFlags(h) ==
  /\ On(h, "LISTENING") => On(h, "BOUND") /\ ~On(h, "CLOSING")
  /\ On(h, "CLOSED") => ~h.accept_reqs
  /\ On(h, "ENDGAME_QUEUED") => On(h, "CLOSING")

\* The requests of a server that listens: r is one its handler has.
ServerServes(h, r) ==
  On(h, "LISTENING") => In(h.pending_accepts) \cup Outstanding(h) \cup r = Used(h)

ServerPc(h) ==
  \/ h.pc = "idle" /\ h.cur = "none"
  \/ h.pc = "connection_cb" /\ h.cur \in Instances

ServerOk(h, n, r) ==
  /\ ServerTypes(h) /\ Core(h, Instances, n) /\ ServerRequests(h) /\ ServerFlags(h) /\ ServerServes(h, r)

ServerInv ==
  /\ ServerOk(wh, IF wh.cur = "none" THEN 0 ELSE 1, {}) /\ ServerPc(wh)
  /\ EndDue(wh) /\ ~On(wh, "CLOSED") => On(wh, "ENDGAME_QUEUED")

LEMMA ServerInitInv == WinPipeServerInit => ServerInv
<1> SUFFICES ASSUME WinPipeServerInit PROVE ServerInv
  OBVIOUS
<1>1. /\ DOMAIN wh = ServerFields /\ wh.flags = {} /\ wh.activecnt = 0 /\ wh.reqs_pending = 0
      /\ wh.active_reqs = 0 /\ wh.counted = 0 /\ wh.kernel = {} /\ wh.pending = {} /\ wh.walk = {}
      /\ wh.ok = {} /\ wh.pc = "idle" /\ wh.cur = "none" /\ wh.ends = 0
      /\ wh.pending_instances = 0 /\ wh.accept_reqs = FALSE
      /\ wh.pipeHandle = [a \in Instances |-> FALSE] /\ wh.pending_accepts = <<>>
  BY DEF WinPipeServerInit, HandleOf, NewHandle, ServerFields, BaseFields
<1>2. Outstanding(wh) = {} /\ \A f : ~On(wh, f)
  BY <1>1 DEF Outstanding, On
<1>3. Core(wh, Instances, 0)
  BY <1>1, <1>2, FS_EmptySet DEF Core, EndsOnce, CountSound, Kept, HeldOnce, ServerFields
<1>4. Len(PipeInstances) \in Nat
  BY InstancesAssumption
<1>5. ServerTypes(wh)
  <2>1. wh.pending_accepts \in Seq(Instances) /\ NoDup(wh.pending_accepts)
    BY <1>1, EmptyList
  <2>2. wh.pipeHandle \in [Instances -> BOOLEAN]
    BY <1>1
  <2>3. wh.pending_instances \in 0 .. Len(PipeInstances)
    BY <1>1, <1>4
  <2> QED BY <1>1, <1>2, <2>1, <2>2, <2>3 DEF ServerTypes
<1>6. ServerRequests(wh) /\ ServerFlags(wh) /\ ServerServes(wh, {})
  BY <1>1, <1>2, EmptyList DEF ServerRequests, ServerHolds, ServerFlags, ServerServes
<1> QED BY <1>1, <1>2, <1>3, <1>5, <1>6 DEF ServerInv, ServerOk, ServerPc, EndDue

LEMMA ServerInvSound == ServerInv => WinPipeServerSound
<1> SUFFICES ASSUME ServerInv PROVE WinPipeServerSound
  OBVIOUS
<1> DEFINE n == IF wh.cur = "none" THEN 0 ELSE 1
<1>1. Core(wh, Instances, n) /\ ServerTypes(wh) /\ ServerRequests(wh) /\ ServerFlags(wh)
      /\ ServerServes(wh, {}) /\ ServerPc(wh)
  BY DEF ServerInv, ServerOk
<1>2. Cardinality(Outstanding(wh)) \in Nat
  BY <1>1, FS_CardinalityType DEF Core
<1>3. On(wh, "CLOSED") => wh.reqs_pending = 0
  BY <1>1, FS_EmptySet DEF Core, EndsOnce, CountSound, ServerPc
<1>4. HandleSound(wh)
  BY <1>1, <1>2, <1>3 DEF HandleSound, Core, EndsOnce, Kept, ServerTypes, ServerInv
<1>5. wh.reqs_pending = Cardinality(Outstanding(wh)) + n
  BY <1>1 DEF Core
<1>6. ASSUME Serves("LISTENING"), NEW a \in Used(wh)
      PROVE  LET offered == \E i \in DOMAIN wh.pending_accepts : wh.pending_accepts[i] = a
             IN /\ a \in Outstanding(wh) <=> ~offered
                /\ offered => wh.pipeHandle[a]
                /\ a \in wh.kernel => wh.pipeHandle[a]
  BY <1>1, <1>6 DEF In, ServerServes, Serves, Core, ServerTypes, ServerRequests, ServerHolds,
     ServerFlags
<1>7. Serves("CLOSED") => ~wh.accept_reqs /\ \A a \in Instances : ~wh.pipeHandle[a]
  BY <1>1 DEF Serves, ServerFlags, ServerRequests, Core, EndsOnce
<1> QED BY <1>4, <1>5, <1>6, <1>7 DEF WinPipeServerSound

\* What uv__pipe_queue_accept() leaves.
LEMMA PipeAcceptKeeps ==
  ASSUME NEW h, NEW n, Core(h, Instances, n), ~On(h, "CLOSED"), DOMAIN h = ServerFields,
         h.pipeHandle \in [Instances -> BOOLEAN],
         NEW reqs \in SUBSET Instances, IsFiniteSet(reqs), reqs \cap Outstanding(h) = {},
         NEW g \in PipeQueueAccept(h, reqs)
  PROVE  /\ Core(g, Instances, n) /\ SameBut(g, h, {"pipeHandle", "kernel", "pending", "ok", "reqs_pending"})
         /\ Outstanding(g) = Outstanding(h) \cup reqs
         /\ g.pipeHandle \in [Instances -> BOOLEAN] /\ h.kernel \subseteq g.kernel
         /\ \A a \in Instances \ reqs :
              /\ g.pipeHandle[a] = h.pipeHandle[a]
              /\ a \in g.kernel <=> a \in h.kernel
              /\ a \in g.pending <=> a \in h.pending
              /\ a \in g.ok <=> a \in h.ok
         /\ \A a \in reqs : a \in g.kernel \/ a \in g.ok => g.pipeHandle[a]
<1>1. PICK out \in [reqs -> {"refused", "done", "waits"}] :
        LET those(o) == {a \in reqs : out[a] = o}
        IN g = [AllocAccept(h, reqs, reqs \ those("refused")) EXCEPT
                 !.kernel = @ \cup those("waits"), !.pending = @ \cup (reqs \ those("waits")),
                 !.ok = (@ \ those("refused")) \cup those("done"),
                 !.reqs_pending = @ + Cardinality(reqs)]
  BY DEF PipeQueueAccept
<1> DEFINE R == {a \in reqs : out[a] = "refused"}
           W == {a \in reqs : out[a] = "waits"}
           D == {a \in reqs : out[a] = "done"}
           k == AllocAccept(h, reqs, reqs \ R)
<1>2. R \cup W \cup D = reqs /\ R \cap W = {} /\ R \cap D = {} /\ W \cap D = {}
  OBVIOUS
<1>3. g = [k EXCEPT !.kernel = @ \cup W, !.pending = @ \cup (reqs \ W), !.ok = (@ \ R) \cup D,
                    !.reqs_pending = @ + Cardinality(reqs)]
  BY <1>1
<1> HIDE DEF R, W, D
<1>4. /\ SameBut(k, h, {"pipeHandle"})
      /\ k.pipeHandle = [a \in Instances |-> IF a \in reqs THEN a \in reqs \ R ELSE h.pipeHandle[a]]
  BY DEF AllocAccept, SameBut, ServerFields
<1> HIDE DEF k
<1>5. /\ SameBut(g, k, {"kernel", "pending", "ok", "reqs_pending"}) /\ g.kernel = k.kernel \cup W
      /\ g.pending = k.pending \cup (reqs \ W) /\ g.ok = (k.ok \ R) \cup D
      /\ g.reqs_pending = k.reqs_pending + Cardinality(reqs)
  BY <1>3, <1>4 DEF SameBut, ServerFields, BaseFields
<1>6. /\ SameBut(g, h, {"pipeHandle", "kernel", "pending", "ok", "reqs_pending"})
      /\ g.kernel = h.kernel \cup W /\ g.pending = h.pending \cup (reqs \ W) /\ g.ok = (h.ok \ R) \cup D
      /\ g.reqs_pending = h.reqs_pending + Cardinality(reqs) /\ g.pipeHandle = k.pipeHandle
  BY <1>4, <1>5 DEF SameBut, ServerFields, BaseFields
<1>7. /\ g.walk = h.walk /\ g.flags = h.flags /\ g.counted = h.counted /\ g.ends = h.ends
      /\ g.activecnt = h.activecnt /\ g.pc = h.pc /\ DOMAIN g = ServerFields
  BY <1>6 DEF SameBut, ServerFields, BaseFields
<1>8. Outstanding(g) = Outstanding(h) \cup reqs
  BY <1>2, <1>6, <1>7 DEF Outstanding
<1>9. HeldOnce(g)
  BY <1>2, <1>6, <1>7 DEF Core, HeldOnce, Outstanding
<1>10. EndsOnce(g) /\ Kept(g)
  BY <1>7 DEF Core, EndsOnce, CountSound, Kept, On
<1>11. /\ IsFiniteSet(Outstanding(g)) /\ g.reqs_pending = Cardinality(Outstanding(g)) + n
  <2>1. Cardinality(Outstanding(g)) = Cardinality(Outstanding(h)) + Cardinality(reqs) - Cardinality({})
        /\ IsFiniteSet(Outstanding(g))
    BY <1>8, FS_Union DEF Core
  <2>2. Cardinality({}) = 0 /\ Cardinality(Outstanding(h)) \in Nat /\ Cardinality(reqs) \in Nat
    BY FS_EmptySet, FS_CardinalityType DEF Core
  <2> QED BY <1>6, <2>1, <2>2 DEF Core
<1>12. Core(g, Instances, n)
  BY <1>7, <1>8, <1>9, <1>10, <1>11 DEF Core, ServerFields
<1>13. g.pipeHandle = [a \in Instances |-> IF a \in reqs THEN a \in reqs \ R ELSE h.pipeHandle[a]]
  BY <1>4, <1>6
<1>14. g.pipeHandle \in [Instances -> BOOLEAN]
  <2>1. ASSUME NEW a \in Instances
        PROVE  (IF a \in reqs THEN a \in reqs \ R ELSE h.pipeHandle[a]) \in BOOLEAN
    <3>1. CASE a \in reqs
      <4>1. (a \in reqs \ R) \in BOOLEAN
        OBVIOUS
      <4> QED BY <3>1, <4>1, Zenon
    <3>2. CASE a \notin reqs
      BY <3>2
    <3> QED BY <3>1, <3>2
  <2> QED BY <1>13, <2>1
<1>15. \A a \in Instances \ reqs :
         /\ g.pipeHandle[a] = h.pipeHandle[a]
         /\ a \in g.kernel <=> a \in h.kernel
         /\ a \in g.pending <=> a \in h.pending
         /\ a \in g.ok <=> a \in h.ok
  BY <1>2, <1>6, <1>13
<1>16. \A a \in reqs : a \in g.kernel \/ a \in g.ok => g.pipeHandle[a]
  BY <1>2, <1>6, <1>13 DEF Outstanding
<1> QED BY <1>6, <1>8, <1>12, <1>14, <1>15, <1>16

\* What is said of a server does not speak of these fields.
LEMMA ServerSame ==
  ASSUME NEW h, NEW n, NEW r, ServerOk(h, n, r), NEW g, NEW m, Core(g, Instances, m),
         SameBut(g, h, {"flags", "counted", "reqs_pending", "pc", "cur", "ends"}),
         \A f \in {"LISTENING", "BOUND", "CLOSING"} : On(g, f) <=> On(h, f),
         On(g, "CLOSED") => On(h, "CLOSED"), On(g, "ENDGAME_QUEUED") => On(g, "CLOSING")
  PROVE  ServerOk(g, m, r)
<1>1. /\ DOMAIN g = ServerFields /\ g.pending_instances = h.pending_instances
      /\ g.accept_reqs = h.accept_reqs /\ g.pipeHandle = h.pipeHandle
      /\ g.pending_accepts = h.pending_accepts /\ g.active_reqs = h.active_reqs
      /\ g.activecnt = h.activecnt /\ g.kernel = h.kernel /\ g.pending = h.pending
      /\ g.walk = h.walk /\ g.ok = h.ok
  BY DEF ServerOk, ServerTypes, SameBut, ServerFields, BaseFields
<1>2. Outstanding(g) = Outstanding(h) /\ Used(g) = Used(h)
  BY <1>1 DEF Outstanding, Used
<1>3. ServerTypes(g)
  BY <1>1 DEF ServerOk, ServerTypes
<1>4. ServerRequests(g)
  BY <1>1, <1>2 DEF ServerOk, ServerRequests, ServerHolds
<1>5. ServerFlags(g) /\ ServerServes(g, r)
  BY <1>1, <1>2 DEF ServerOk, ServerFlags, ServerServes
<1> QED BY <1>3, <1>4, <1>5 DEF ServerOk

\* A handler, or the user's callback, has ended.
LEMMA ServerCountsOff ==
  ASSUME NEW h, ServerOk(h, 1, {}), ~On(h, "CLOSED"), h.pc = "idle", h.cur = "none",
         NEW g, g = DecPending(h)
  PROVE  ServerOk(g, 0, {}) /\ g.pc = "idle" /\ g.cur = "none" /\ (EndDue(g) => On(g, "ENDGAME_QUEUED"))
<1>1. Core(h, Instances, 0 + 1) /\ DOMAIN h = ServerFields /\ 0 \in Nat
  BY DEF ServerOk, ServerTypes
<1>2. /\ Core(g, Instances, 0) /\ SameBut(g, h, {"flags", "reqs_pending"})
      /\ \A f : f # "ENDGAME_QUEUED" => (On(g, f) <=> On(h, f))
      /\ EndDue(g) \/ On(h, "ENDGAME_QUEUED") <=> On(g, "ENDGAME_QUEUED")
  BY <1>1, CountOffCore
<1>3. On(g, "ENDGAME_QUEUED") => On(g, "CLOSING")
  BY <1>2 DEF EndDue, ServerOk, ServerFlags
<1>4. SameBut(g, h, {"flags", "counted", "reqs_pending", "pc", "cur", "ends"})
      /\ g.pc = h.pc /\ g.cur = h.cur
  BY <1>1, <1>2 DEF SameBut, ServerFields, BaseFields
<1> QED BY <1>2, <1>3, <1>4, ServerSame

LEMMA ServerBindKeeps == ASSUME ServerInv, uv_pipe_pending_instances \/ uv_pipe_bind PROVE ServerInv'
<1> DEFINE n == IF wh.cur = "none" THEN 0 ELSE 1
<1>1. ServerOk(wh, n, {}) /\ ~On(wh, "CLOSING") /\ ~On(wh, "BOUND") /\ DOMAIN wh = ServerFields
  BY DEF ServerInv, ServerOk, ServerTypes, uv_pipe_pending_instances, uv_pipe_bind, Serves
<1>2. ~On(wh, "LISTENING") /\ ~On(wh, "CLOSED")
  BY <1>1 DEF ServerOk, ServerFlags, Core, EndsOnce
<1>3. PipeInstances[1] \in Instances /\ Len(PipeInstances) \in Nat
  BY InstancesAssumption
<1>4. /\ SameBut(wh', wh, {"flags", "pending_instances", "accept_reqs", "pipeHandle"})
      /\ \A f : f \notin {"PIPESERVER", "BOUND"} => (On(wh', f) <=> On(wh, f))
      /\ wh'.pending_instances \in 0 .. Len(PipeInstances) /\ wh'.accept_reqs \in BOOLEAN
      /\ wh'.pipeHandle \in [Instances -> BOOLEAN]
  <2>1. CASE uv_pipe_pending_instances
    <3>1. PICK i \in DOMAIN PipeInstances :
            wh' = [Set(wh, {"PIPESERVER"}) EXCEPT !.pending_instances = i]
      BY <2>1 DEF uv_pipe_pending_instances
    <3>2. i \in 0 .. Len(PipeInstances)
      BY InstancesAssumption
    <3>3. /\ SameBut(wh', wh, {"flags", "pending_instances"}) /\ wh'.pending_instances = i
          /\ wh'.flags = wh.flags \cup {"PIPESERVER"}
      BY <1>1, <3>1 DEF Set, SameBut, ServerFields, BaseFields
    <3>4. wh'.accept_reqs = wh.accept_reqs /\ wh'.pipeHandle = wh.pipeHandle
      BY <1>1, <3>3 DEF SameBut, ServerFields, BaseFields
    <3>5. wh'.accept_reqs \in BOOLEAN /\ wh'.pipeHandle \in [Instances -> BOOLEAN]
      BY <1>1, <3>4 DEF ServerOk, ServerTypes
    <3> QED BY <3>2, <3>3, <3>5 DEF SameBut, On
  <2>2. CASE uv_pipe_bind
    <3> DEFINE h == [Set(wh, {"PIPESERVER", "BOUND"}) EXCEPT
                      !.pending_instances = IF Serves("PIPESERVER") THEN @ ELSE Len(PipeInstances),
                      !.accept_reqs = TRUE]
    <3>1. /\ SameBut(h, wh, {"flags", "pending_instances", "accept_reqs"}) /\ h.accept_reqs = TRUE
          /\ h.flags = wh.flags \cup {"PIPESERVER", "BOUND"}
          /\ h.pending_instances \in {wh.pending_instances, Len(PipeInstances)}
      BY <1>1 DEF Set, SameBut, ServerFields, BaseFields
    <3>2. wh' = [h EXCEPT !.pipeHandle[PipeInstances[1]] = TRUE]
      BY <2>2 DEF uv_pipe_bind
    <3> HIDE DEF h
    <3>3. SameBut(wh', h, {"pipeHandle"}) /\ wh'.pipeHandle = [wh.pipeHandle EXCEPT ![PipeInstances[1]] = TRUE]
      BY <1>1, <3>1, <3>2 DEF SameBut, ServerFields, BaseFields
    <3>4. wh'.pipeHandle \in [Instances -> BOOLEAN] /\ wh.pending_instances \in 0 .. Len(PipeInstances)
      BY <1>1, <3>3 DEF ServerOk, ServerTypes
    <3>5. wh'.pending_instances = h.pending_instances /\ wh'.accept_reqs = TRUE /\ wh'.flags = h.flags
      BY <1>1, <3>1, <3>3 DEF SameBut, ServerFields, BaseFields
    <3>6. wh'.pending_instances \in 0 .. Len(PipeInstances)
      BY <1>3, <3>1, <3>4, <3>5
    <3> QED BY <3>1, <3>3, <3>4, <3>5, <3>6 DEF SameBut, On
  <2> QED BY <2>1, <2>2
<1>5. Core(wh', Instances, n) /\ Outstanding(wh') = Outstanding(wh)
  BY <1>1, <1>2, <1>4, OtherCore DEF ServerOk, Alike, BaseFields
<1>6. /\ DOMAIN wh' = ServerFields /\ wh'.pending_accepts = wh.pending_accepts
      /\ wh'.active_reqs = wh.active_reqs /\ wh'.activecnt = wh.activecnt /\ wh'.pc = wh.pc
      /\ wh'.cur = wh.cur /\ wh'.reqs_pending = wh.reqs_pending
      /\ wh'.kernel = wh.kernel /\ wh'.pending = wh.pending /\ wh'.walk = wh.walk
  BY <1>1, <1>4 DEF SameBut, ServerFields, BaseFields
<1>7. ServerTypes(wh')
  BY <1>1, <1>4, <1>6 DEF ServerOk, ServerTypes
<1>8. ServerRequests(wh')
  BY <1>1, <1>2, <1>6, <1>4, <1>5 DEF ServerOk, ServerRequests, ServerHolds, Outstanding
<1>9. ServerFlags(wh') /\ ServerServes(wh', {})
  BY <1>1, <1>2, <1>4 DEF ServerOk, ServerFlags, ServerServes
<1>10. ServerOk(wh', n, {})
  BY <1>5, <1>7, <1>8, <1>9 DEF ServerOk
<1> QED BY <1>1, <1>4, <1>6, <1>10 DEF ServerInv, ServerPc, EndDue

LEMMA PipeListenKeeps == ASSUME ServerInv, uv__pipe_listen PROVE ServerInv'
<1> DEFINE n == IF wh.cur = "none" THEN 0 ELSE 1
           s == Set(wh, {"LISTENING"})
           k == IncActive(s)
<1>1. /\ ServerOk(wh, n, {}) /\ ~On(wh, "CLOSING") /\ On(wh, "BOUND") /\ ~On(wh, "LISTENING")
      /\ DOMAIN wh = ServerFields /\ wh' \in PipeQueueAccept(k, Used(wh))
  BY DEF ServerInv, ServerOk, ServerTypes, uv__pipe_listen, Serves
<1>2. /\ Core(wh, Instances, n) /\ ~On(wh, "CLOSED") /\ ~On(wh, "ENDGAME_QUEUED")
      /\ In(wh.pending_accepts) \cup Outstanding(wh) = {} /\ wh.activecnt = 0 /\ wh.active_reqs = 0
  BY <1>1 DEF ServerOk, ServerFlags, Core, EndsOnce, ServerRequests, ServerTypes
<1>3. /\ SameBut(s, wh, {"flags"}) /\ \A f : f # "LISTENING" => (On(s, f) <=> On(wh, f))
      /\ On(s, "LISTENING")
  BY <1>1, FlagsSame DEF ServerFields, BaseFields
<1> HIDE DEF s
<1>4. Core(s, Instances, n) /\ Outstanding(s) = {} /\ s.activecnt = 0 /\ ~On(s, "CLOSING")
  <2>1. Core(s, Instances, n) /\ Outstanding(s) = Outstanding(wh)
    BY <1>2, <1>3, OtherCore DEF Alike, BaseFields
  <2> QED BY <1>1, <1>2, <1>3, <2>1 DEF SameBut, ServerFields, BaseFields
<1>5. /\ Core(k, Instances, n) /\ SameBut(k, s, {"flags", "counted", "activecnt"})
      /\ Outstanding(k) = {} /\ k.activecnt = 1
      /\ \A f : f # "ACTIVE" => (On(k, f) <=> On(s, f))
  BY <1>4, IncCore
<1> HIDE DEF k
<1>6. Used(wh) \in SUBSET Instances /\ IsFiniteSet(Used(wh))
  <2>1. wh.pending_instances \in 0 .. Len(PipeInstances) /\ DOMAIN PipeInstances = 1 .. Len(PipeInstances)
        /\ Len(PipeInstances) \in Nat
    BY <1>1, InstancesAssumption DEF ServerOk, ServerTypes
  <2>2. Used(wh) \in SUBSET Instances
    BY <2>1 DEF Used, Instances
  <2> DEFINE m == wh.pending_instances
             f == [i \in 1 .. m |-> PipeInstances[i]]
  <2>3. f \in Surjection(1 .. m, Used(wh))
    BY DEF Surjection, Used
  <2>4. IsFiniteSet(1 .. m)
    BY <2>1, FS_Interval
  <2>5. IsFiniteSet(Used(wh))
    BY <2>3, <2>4, FS_Surjection
  <2> QED BY <2>2, <2>5
<1>7. /\ DOMAIN k = ServerFields /\ k.pipeHandle = wh.pipeHandle /\ ~On(k, "CLOSED")
      /\ k.pending_accepts = wh.pending_accepts /\ k.active_reqs = 0 /\ k.pc = wh.pc /\ k.cur = wh.cur
      /\ k.pending_instances = wh.pending_instances /\ k.accept_reqs = wh.accept_reqs
  BY <1>1, <1>2, <1>3, <1>5 DEF SameBut, ServerFields, BaseFields
<1>8. wh.pipeHandle \in [Instances -> BOOLEAN]
  BY <1>1 DEF ServerOk, ServerTypes
<1>9. /\ Core(wh', Instances, n) /\ SameBut(wh', k, {"pipeHandle", "kernel", "pending", "ok", "reqs_pending"})
      /\ Outstanding(wh') = Used(wh)
      /\ wh'.pipeHandle \in [Instances -> BOOLEAN]
      /\ \A a \in Used(wh) : a \in wh'.kernel \/ a \in wh'.ok => wh'.pipeHandle[a]
  <2>1. Used(wh) \cap Outstanding(k) = {} /\ Outstanding(k) \cup Used(wh) = Used(wh)
        /\ k.pipeHandle \in [Instances -> BOOLEAN]
    BY <1>5, <1>7, <1>8
  <2>2. wh' \in PipeQueueAccept(k, Used(wh)) /\ Core(k, Instances, n) /\ DOMAIN k = ServerFields
        /\ ~On(k, "CLOSED")
    BY <1>1, <1>5, <1>7
  <2> HIDE DEF n
  <2>3. /\ Core(wh', Instances, n) /\ Outstanding(wh') = Outstanding(k) \cup Used(wh)
        /\ SameBut(wh', k, {"pipeHandle", "kernel", "pending", "ok", "reqs_pending"})
        /\ wh'.pipeHandle \in [Instances -> BOOLEAN]
        /\ \A a \in Used(wh) : a \in wh'.kernel \/ a \in wh'.ok => wh'.pipeHandle[a]
    BY <1>6, <2>1, <2>2, PipeAcceptKeeps
  <2> QED BY <2>1, <2>3
<1>10. /\ DOMAIN wh' = ServerFields /\ wh'.flags = k.flags /\ wh'.pending_accepts = wh.pending_accepts
       /\ wh'.active_reqs = 0 /\ wh'.activecnt = 1 /\ wh'.pc = wh.pc /\ wh'.cur = wh.cur
       /\ wh'.pending_instances = wh.pending_instances /\ wh'.accept_reqs = wh.accept_reqs
  BY <1>5, <1>7, <1>9 DEF SameBut, ServerFields, BaseFields
<1>11. /\ \A f : f \notin {"LISTENING", "ACTIVE"} => (On(wh', f) <=> On(wh, f))
       /\ On(wh', "LISTENING")
  BY <1>3, <1>5, <1>10 DEF On
<1>12. ServerTypes(wh')
  BY <1>1, <1>9, <1>10, <1>11 DEF ServerOk, ServerTypes
<1>13. ServerRequests(wh')
  BY <1>2, <1>9, <1>10, <1>1, <1>11 DEF ServerHolds, Outstanding, ServerRequests
<1>14. ServerFlags(wh') /\ ServerServes(wh', {})
  BY <1>1, <1>2, <1>9, <1>10, <1>11 DEF ServerOk, ServerFlags, ServerServes, Used
<1>15. ServerOk(wh', n, {})
  BY <1>9, <1>12, <1>13, <1>14 DEF ServerOk
<1> QED BY <1>1, <1>10, <1>11, <1>15 DEF ServerInv, ServerPc, EndDue

\* A request that its handler, or the user, has is queued again.
LEMMA RequeueKeeps ==
  ASSUME NEW h, NEW n, NEW a \in Instances, ServerOk(h, n, {a}), On(h, "LISTENING"), ~On(h, "CLOSED"),
         a \notin Outstanding(h), a \notin In(h.pending_accepts), NEW g \in PipeQueueAccept(h, {a})
  PROVE  /\ ServerOk(g, n, {}) /\ g.pc = h.pc /\ g.cur = h.cur /\ g.flags = h.flags
<1>1. /\ Core(h, Instances, n) /\ DOMAIN h = ServerFields /\ h.pipeHandle \in [Instances -> BOOLEAN]
      /\ {a} \in SUBSET Instances /\ IsFiniteSet({a}) /\ {a} \cap Outstanding(h) = {}
  BY FS_Singleton DEF ServerOk, ServerTypes
<1>2. /\ Core(g, Instances, n) /\ SameBut(g, h, {"pipeHandle", "kernel", "pending", "ok", "reqs_pending"})
      /\ Outstanding(g) = Outstanding(h) \cup {a}
      /\ g.pipeHandle \in [Instances -> BOOLEAN]
      /\ \A b \in Instances \ {a} :
           /\ g.pipeHandle[b] = h.pipeHandle[b]
           /\ b \in g.kernel <=> b \in h.kernel
           /\ b \in g.pending <=> b \in h.pending
           /\ b \in g.ok <=> b \in h.ok
      /\ \A b \in {a} : b \in g.kernel \/ b \in g.ok => g.pipeHandle[b]
  BY <1>1, PipeAcceptKeeps
<1>3. /\ DOMAIN g = ServerFields /\ g.flags = h.flags /\ g.pending_accepts = h.pending_accepts
      /\ g.active_reqs = h.active_reqs /\ g.activecnt = h.activecnt /\ g.pc = h.pc /\ g.cur = h.cur
      /\ g.pending_instances = h.pending_instances /\ g.accept_reqs = h.accept_reqs /\ g.walk = h.walk
  BY <1>1, <1>2 DEF SameBut, ServerFields, BaseFields
<1>4. \A f : On(g, f) <=> On(h, f)
  BY <1>3 DEF On
<1>5. ServerTypes(g)
  BY <1>2, <1>3, <1>4 DEF ServerOk, ServerTypes
<1>6. ServerRequests(g)
  BY <1>2, <1>3, <1>4 DEF ServerOk, ServerFlags, ServerRequests, ServerHolds
<1>7. ServerFlags(g) /\ ServerServes(g, {})
  BY <1>2, <1>3, <1>4 DEF ServerOk, ServerFlags, ServerServes, Used
<1> QED BY <1>2, <1>3, <1>5, <1>6, <1>7 DEF ServerOk

LEMMA PipeAcceptedKeeps == ASSUME ServerInv, uv__pipe_accept PROVE ServerInv'
<1> DEFINE n == IF wh.cur = "none" THEN 0 ELSE 1
           a == Head(wh.pending_accepts)
           k == [wh EXCEPT !.pending_accepts = Tail(@)]
<1>1. /\ ServerOk(wh, n, {}) /\ ~On(wh, "CLOSING") /\ wh.pending_accepts # <<>>
      /\ DOMAIN wh = ServerFields /\ wh' \in PipeQueueAccept(k, {a})
  BY DEF ServerInv, ServerOk, ServerTypes, uv__pipe_accept, Serves
<1>2. /\ wh.pending_accepts \in Seq(Instances) /\ NoDup(wh.pending_accepts)
      /\ In(wh.pending_accepts) \subseteq Instances
  BY <1>1 DEF ServerOk, ServerTypes, In
<1>3. /\ Tail(wh.pending_accepts) \in Seq(Instances) /\ NoDup(Tail(wh.pending_accepts))
      /\ a \in In(wh.pending_accepts) /\ In(Tail(wh.pending_accepts)) = In(wh.pending_accepts) \ {a}
      /\ a \in Instances
  BY <1>1, <1>2, TakeHead
<1>4. On(wh, "LISTENING") /\ a \notin Outstanding(wh) /\ ~On(wh, "CLOSED")
  BY <1>1, <1>3 DEF ServerOk, ServerRequests, Core, EndsOnce
<1> HIDE DEF a, n
<1>5. SameBut(k, wh, {"pending_accepts"}) /\ k.pending_accepts = Tail(wh.pending_accepts)
  BY <1>1 DEF SameBut, ServerFields
<1> HIDE DEF k
<1>6. /\ DOMAIN k = ServerFields /\ k.pipeHandle = wh.pipeHandle /\ k.flags = wh.flags
      /\ k.active_reqs = wh.active_reqs /\ k.activecnt = wh.activecnt /\ k.pc = wh.pc /\ k.cur = wh.cur
      /\ k.pending_instances = wh.pending_instances /\ k.accept_reqs = wh.accept_reqs
      /\ k.kernel = wh.kernel /\ k.pending = wh.pending /\ k.walk = wh.walk /\ k.ok = wh.ok
      /\ k.reqs_pending = wh.reqs_pending
  BY <1>1, <1>5 DEF SameBut, ServerFields, BaseFields
<1>7. \A f : On(k, f) <=> On(wh, f)
  BY <1>6 DEF On
<1>8. Core(k, Instances, n) /\ Outstanding(k) = Outstanding(wh)
  BY <1>1, <1>4, <1>5, <1>7, OtherCore DEF ServerOk, Alike, BaseFields
<1>9. ServerTypes(k)
  BY <1>1, <1>3, <1>5, <1>6, <1>7 DEF ServerOk, ServerTypes
<1>10. ServerRequests(k)
  BY <1>1, <1>3, <1>5, <1>6, <1>4, <1>7, <1>8 DEF ServerOk, ServerRequests, ServerHolds
<1>11. ServerFlags(k) /\ ServerServes(k, {a})
  BY <1>1, <1>3, <1>4, <1>5, <1>6, <1>7, <1>8 DEF ServerOk, ServerFlags, ServerServes, Used
<1>12. ServerOk(k, n, {a})
  BY <1>8, <1>9, <1>10, <1>11 DEF ServerOk
<1>13. ServerOk(wh', n, {}) /\ wh'.pc = k.pc /\ wh'.cur = k.cur /\ wh'.flags = k.flags
  BY <1>1, <1>3, <1>4, <1>5, <1>7, <1>8, <1>12, RequeueKeeps
<1> QED BY <1>1, <1>6, <1>13 DEF ServerInv, ServerPc, EndDue, On, n

LEMMA PipeProcessAcceptKeeps ==
  ASSUME ServerInv, NEW a \in Instances, PipeProcessAccept(a) PROVE ServerInv'
<1> DEFINE h == Handling(wh, a)
<1>1. /\ ServerOk(wh, 0, {}) /\ a \in wh.walk /\ wh.pc = "idle" /\ wh.cur = "none"
      /\ DOMAIN wh = ServerFields
  BY InstancesAssumption DEF ServerInv, ServerOk, ServerTypes, ServerPc, PipeProcessAccept, CanHandle
<1>2. /\ Core(h, Instances, 0 + 1) /\ SameBut(h, wh, {"walk"}) /\ h.walk = wh.walk \ {a}
      /\ Outstanding(h) = Outstanding(wh) \ {a} /\ ~On(wh, "CLOSED") /\ a \in Outstanding(wh)
  BY <1>1, TakenKeeps DEF Handling, ServerFields, BaseFields, ServerOk
<1>3. \/ On(h, "CLOSING") /\ wh' = DecPending(h)
      \/ /\ ~On(h, "CLOSING") /\ a \in h.ok
         /\ wh' = CallUser([h EXCEPT !.pending_accepts = <<a>> \o @], "connection_cb", a)
      \/ ~On(h, "CLOSING") /\ \E g \in PipeQueueAccept(h, {a}) : wh' = DecPending(g)
  BY DEF PipeProcessAccept
<1> HIDE DEF h
<1>4. /\ DOMAIN h = ServerFields /\ h.pipeHandle = wh.pipeHandle /\ h.flags = wh.flags
      /\ h.active_reqs = wh.active_reqs /\ h.activecnt = wh.activecnt /\ h.pc = "idle" /\ h.cur = "none"
      /\ h.pending_instances = wh.pending_instances /\ h.accept_reqs = wh.accept_reqs
      /\ h.kernel = wh.kernel /\ h.pending = wh.pending /\ h.ok = wh.ok
      /\ h.pending_accepts = wh.pending_accepts
  BY <1>1, <1>2 DEF SameBut, ServerFields, BaseFields
<1>5. /\ \A f : On(h, f) <=> On(wh, f)
      /\ ~On(wh, "CLOSING") => On(wh, "LISTENING")
  BY <1>1, <1>2, <1>4 DEF On, ServerOk, ServerRequests
<1>6. ServerTypes(h)
  BY <1>1, <1>4, <1>5 DEF ServerOk, ServerTypes
<1>7. ServerRequests(h)
  BY <1>2, <1>4, <1>1, <1>5 DEF ServerHolds, ServerOk, ServerRequests
<1>8. ServerFlags(h) /\ ServerServes(h, {a})
  BY <1>1, <1>2, <1>4, <1>5 DEF ServerOk, ServerFlags, ServerServes, Used
<1>9. ServerOk(h, 1, {a}) /\ a \notin Outstanding(h) /\ a \notin In(h.pending_accepts)
  BY <1>1, <1>2, <1>4, <1>6, <1>7, <1>8 DEF ServerOk, ServerRequests
<1>10. CASE On(h, "CLOSING") /\ wh' = DecPending(h)
  BY <1>9, <1>10, <1>2, <1>4, <1>5, ServerCountsOff DEF ServerOk, ServerServes, ServerFlags,
     ServerInv, ServerPc
<1>11. ASSUME ~On(h, "CLOSING"), NEW g \in PipeQueueAccept(h, {a}), wh' = DecPending(g) PROVE ServerInv'
  BY <1>2, <1>4, <1>5, <1>9, <1>11, RequeueKeeps, ServerCountsOff DEF On, ServerInv, ServerPc
<1>12. CASE /\ ~On(h, "CLOSING") /\ a \in h.ok
            /\ wh' = CallUser([h EXCEPT !.pending_accepts = <<a>> \o @], "connection_cb", a)
  <2> DEFINE q == <<a>> \o h.pending_accepts
  <2>1. /\ SameBut(wh', h, {"pending_accepts", "pc", "cur"}) /\ wh'.pending_accepts = q
        /\ wh'.pc = "connection_cb" /\ wh'.cur = a
    BY <1>4, <1>12 DEF CallUser, SameBut, ServerFields, BaseFields
  <2>2. q \in Seq(Instances) /\ In(q) = In(h.pending_accepts) \cup {a} /\ NoDup(q)
    BY <1>6, <1>9, InsertHead DEF ServerTypes
  <2> HIDE DEF q
  <2>3. /\ DOMAIN wh' = ServerFields /\ wh'.pipeHandle = h.pipeHandle /\ wh'.flags = h.flags
        /\ wh'.active_reqs = h.active_reqs /\ wh'.activecnt = h.activecnt
        /\ wh'.pending_instances = h.pending_instances /\ wh'.accept_reqs = h.accept_reqs
        /\ wh'.kernel = h.kernel /\ wh'.pending = h.pending /\ wh'.walk = h.walk /\ wh'.ok = h.ok
    BY <1>4, <2>1 DEF SameBut, ServerFields, BaseFields
  <2>4. \A f : On(wh', f) <=> On(h, f)
    BY <2>3 DEF On
  <2>5. Core(wh', Instances, 1) /\ Outstanding(wh') = Outstanding(h)
    BY <1>2, <1>5, <2>1, <2>4, OtherCore DEF Alike, BaseFields
  <2>6. ServerTypes(wh')
    BY <1>6, <2>1, <2>2, <2>3, <2>4 DEF ServerTypes
  <2>7. wh.pipeHandle[a]
    BY <1>1, <1>4, <1>5, <1>12 DEF ServerOk, ServerRequests, ServerHolds
  <2>8. ServerRequests(wh')
    <3>1. ServerHolds(wh')
      BY <1>4, <1>7, <1>12, <2>1, <2>2, <2>3, <2>7 DEF ServerRequests, ServerHolds
    <3> QED BY <1>5, <1>7, <1>9, <1>12, <2>1, <2>2, <2>3, <2>4, <2>5, <3>1 DEF ServerRequests
  <2>9. ServerFlags(wh') /\ ServerServes(wh', {})
    BY <1>8, <2>1, <2>2, <2>3, <2>4, <2>5 DEF ServerFlags, ServerServes, Used
  <2>10. ServerOk(wh', 1, {})
    BY <2>5, <2>6, <2>8, <2>9 DEF ServerOk
  <2> QED BY <1>12, <2>1, <2>4, <2>10, InstancesAssumption DEF ServerInv, ServerPc, EndDue
<1> QED BY <1>3, <1>10, <1>11, <1>12

LEMMA ConnectionDoneKeeps == ASSUME ServerInv, ConnectionDone PROVE ServerInv'
<1> DEFINE h == Returned(wh)
<1>1. /\ ServerOk(wh, 1, {}) /\ wh.pc = "connection_cb" /\ DOMAIN wh = ServerFields
      /\ wh' = DecPending(h) /\ ~On(wh, "CLOSED")
  BY InstancesAssumption DEF ServerInv, ServerPc, ConnectionDone, ServerOk, ServerTypes, Core,
     EndsOnce
<1>2. /\ SameBut(h, wh, {"pc", "cur"}) /\ h.pc = "idle" /\ h.cur = "none"
      /\ \A f : On(h, f) <=> On(wh, f)
  BY <1>1, CallSame DEF ServerFields
<1> HIDE DEF h
<1>3. Core(h, Instances, 1)
  BY <1>1, <1>2, OtherCore DEF Alike, BaseFields, ServerOk
<1>4. ServerOk(h, 1, {})
  BY <1>2, <1>1, <1>3, ServerSame DEF SameBut, ServerOk, ServerFlags
<1> QED BY <1>1, <1>2, <1>4, ServerCountsOff DEF ServerInv, ServerPc

LEMMA ServerCloseKeeps == ASSUME ServerInv, PipeServerClose PROVE ServerInv'
<1> DEFINE n == IF wh.cur = "none" THEN 0 ELSE 1
           c == Clear(wh, {"LISTENING"})
           l == IF Serves("LISTENING") THEN DecActive(c) ELSE wh
           k == [l EXCEPT !.pipeHandle = [a \in Instances |-> FALSE]]
           h == HandleClosing(k)
<1>1. /\ ServerOk(wh, n, {}) /\ ~On(wh, "CLOSING") /\ DOMAIN wh = ServerFields
      /\ wh' = IF h.reqs_pending = 0 THEN WantEndgame(h) ELSE h
  BY DEF ServerInv, ServerOk, ServerTypes, PipeServerClose, Serves
<1> HIDE DEF n
<1>2. Core(wh, Instances, n) /\ ~On(wh, "CLOSED") /\ ~On(wh, "ENDGAME_QUEUED") /\ wh.active_reqs = 0
  BY <1>1 DEF ServerOk, ServerFlags, ServerTypes, Core, EndsOnce
<1>3. /\ Core(l, Instances, n) /\ SameBut(l, wh, {"flags", "counted", "activecnt"}) /\ l.activecnt = 0
      /\ \A f : f \notin {"ACTIVE", "LISTENING"} => (On(l, f) <=> On(wh, f))
      /\ ~On(l, "LISTENING") /\ Outstanding(l) = Outstanding(wh)
  <2>1. CASE ~On(wh, "LISTENING")
    BY <2>1, <1>1, <1>2 DEF Serves, ServerOk, ServerTypes, SameBut
  <2>2. CASE On(wh, "LISTENING")
    <3>1. /\ SameBut(c, wh, {"flags"}) /\ ~On(c, "LISTENING")
          /\ \A f : f # "LISTENING" => (On(c, f) <=> On(wh, f))
      BY <1>1, FlagsSame DEF ServerFields, BaseFields
    <3> HIDE DEF c
    <3>2. Core(c, Instances, n) /\ Outstanding(c) = Outstanding(wh)
      BY <1>2, <3>1, OtherCore DEF Alike, BaseFields
    <3>3. c.activecnt = 1
      BY <1>1, <2>2, <3>1 DEF ServerOk, ServerTypes, SameBut, ServerFields, BaseFields
    <3>4. l = DecActive(c)
      BY <2>2 DEF Serves
    <3>5. /\ Core(l, Instances, n) /\ SameBut(l, c, {"flags", "counted", "activecnt"}) /\ l.activecnt = 0
          /\ Outstanding(l) = Outstanding(c)
          /\ \A f : f # "ACTIVE" => (On(l, f) <=> On(c, f))
      BY <3>2, <3>3, <3>4, DecCore
    <3> QED BY <3>1, <3>2, <3>5 DEF SameBut
  <2> QED BY <2>1, <2>2
<1> HIDE DEF l
<1>4. /\ SameBut(k, l, {"pipeHandle"}) /\ k.pipeHandle = [a \in Instances |-> FALSE] /\ k.flags = l.flags
  BY <1>1, <1>3 DEF SameBut, ServerFields, BaseFields
<1> HIDE DEF k
<1>5. Core(k, Instances, n) /\ Outstanding(k) = Outstanding(wh) /\ \A f : On(k, f) <=> On(l, f)
  BY <1>4, <1>2, <1>3, OtherCore DEF On, Alike, BaseFields
<1>6. ~On(k, "CLOSING")
  BY <1>1, <1>3, <1>5
<1>7. /\ Core(wh', Instances, n) /\ SameBut(wh', k, {"flags", "counted"}) /\ Outstanding(wh') = Outstanding(k)
      /\ \A f : f \notin {"ACTIVE", "CLOSING", "ENDGAME_QUEUED"} => (On(wh', f) <=> On(k, f))
      /\ On(wh', "CLOSING") /\ ~On(wh', "CLOSED")
      /\ wh'.reqs_pending = 0 => On(wh', "ENDGAME_QUEUED")
  BY <1>1, <1>5, <1>6, ClosingCore
<1>8. /\ DOMAIN wh' = ServerFields /\ wh'.pipeHandle = [a \in Instances |-> FALSE]
      /\ wh'.active_reqs = 0 /\ wh'.activecnt = 0 /\ wh'.pc = wh.pc /\ wh'.cur = wh.cur
      /\ wh'.pending_instances = wh.pending_instances /\ wh'.accept_reqs = wh.accept_reqs
      /\ wh'.pending_accepts = wh.pending_accepts
  BY <1>1, <1>2, <1>3, <1>4, <1>7 DEF SameBut, ServerFields, BaseFields
<1>9. ~On(wh', "LISTENING")
  BY <1>3, <1>5, <1>7
<1>10. ServerTypes(wh')
  BY <1>1, <1>8, <1>9 DEF ServerOk, ServerTypes
<1>11. ServerRequests(wh') /\ ServerFlags(wh') /\ ServerServes(wh', {})
  BY <1>1, <1>5, <1>7, <1>8, <1>9 DEF ServerOk, ServerRequests, ServerFlags, ServerServes
<1>12. ServerOk(wh', n, {})
  BY <1>7, <1>10, <1>11 DEF ServerOk
<1> QED BY <1>7, <1>8, <1>12 DEF ServerInv, ServerPc, EndDue, n

LEMMA ServerEndKeeps == ASSUME ServerInv, PipeServerEndgame PROVE ServerInv'
<1> DEFINE h == Ending(wh)
           k == [h EXCEPT !.accept_reqs = FALSE]
<1>1. /\ ServerOk(wh, 0, {}) /\ wh.pc = "idle" /\ wh.cur = "none" /\ DOMAIN wh = ServerFields
      /\ On(wh, "ENDGAME_QUEUED") /\ On(wh, "CLOSING") /\ ~On(wh, "CLOSED")
      /\ wh' = IF EndDue(h) THEN HandleClose(k) ELSE h
  BY InstancesAssumption DEF ServerInv, ServerOk, ServerFlags, ServerTypes, ServerPc, PipeServerEndgame, CanEnd,
     Core, EndsOnce, CountSound
<1>2. /\ Core(h, Instances, 0) /\ SameBut(h, wh, {"flags"}) /\ ~On(h, "ENDGAME_QUEUED")
      /\ \A f : f # "ENDGAME_QUEUED" => (On(h, f) <=> On(wh, f))
  BY <1>1, QueuedCore DEF ServerOk
<1> HIDE DEF h
<1>3. h.pc = "idle" /\ h.cur = "none" /\ DOMAIN h = ServerFields
  BY <1>1, <1>2 DEF SameBut, ServerFields, BaseFields
<1>4. ServerOk(h, 0, {})
  BY <1>2, <1>1, ServerSame DEF SameBut
<1>5. CASE ~EndDue(h)
  BY <1>1, <1>3, <1>4, <1>5 DEF ServerInv, ServerPc
<1>6. CASE EndDue(h)
  <2>1. SameBut(k, h, {"accept_reqs"}) /\ k.accept_reqs = FALSE /\ k.flags = h.flags
        /\ k.reqs_pending = h.reqs_pending
    BY <1>3 DEF SameBut, ServerFields, BaseFields
  <2>2. wh' = HandleClose(k)
    BY <1>1, <1>6
  <2> HIDE DEF k
  <2>3. \A f : On(k, f) <=> On(h, f)
    BY <2>1 DEF On
  <2>4. Core(k, Instances, 0) /\ Outstanding(k) = Outstanding(h)
    BY <1>1, <1>2, <2>1, <2>3, OtherCore DEF Alike, BaseFields
  <2>5. EndDue(k) /\ ~On(k, "CLOSED") /\ ~On(k, "ENDGAME_QUEUED") /\ k.pc = "idle"
    BY <1>1, <1>2, <1>3, <1>6, <2>1, <2>3 DEF EndDue, SameBut, ServerFields, BaseFields
  <2>6. /\ Core(wh', Instances, 0) /\ SameBut(wh', k, {"flags", "counted", "ends"})
        /\ Outstanding(wh') = {} /\ On(wh', "CLOSED")
        /\ \A f : f # "CLOSED" => (On(wh', f) <=> On(k, f))
    BY <2>2, <2>4, <2>5, ClosedCore
  <2>7. /\ DOMAIN wh' = ServerFields /\ wh'.pipeHandle = wh.pipeHandle
        /\ wh'.active_reqs = wh.active_reqs /\ wh'.activecnt = wh.activecnt
        /\ wh'.pc = "idle" /\ wh'.cur = "none" /\ wh'.accept_reqs = FALSE
        /\ wh'.pending_instances = wh.pending_instances
        /\ wh'.pending_accepts = wh.pending_accepts
    BY <1>1, <1>2, <1>3, <2>1, <2>6 DEF SameBut, ServerFields, BaseFields
  <2>8. ~On(wh, "LISTENING") /\ ~On(wh', "LISTENING") /\ On(wh', "CLOSING")
    BY <1>1, <1>2, <2>3, <2>6 DEF ServerOk, ServerFlags
  <2>9. ServerTypes(wh')
    BY <1>1, <2>7, <2>8 DEF ServerOk, ServerTypes
  <2>10. ServerRequests(wh') /\ ServerFlags(wh') /\ ServerServes(wh', {})
    BY <1>1, <2>6, <2>7, <2>8 DEF ServerOk, ServerRequests, ServerFlags, ServerServes
  <2> QED BY <2>6, <2>7, <2>9, <2>10 DEF ServerInv, ServerOk, ServerPc
<1> QED BY <1>5, <1>6

LEMMA ServerSystemKeeps == ASSUME ServerInv, InstanceCompletes \/ PipeServerWalk PROVE ServerInv'
<1> DEFINE n == IF wh.cur = "none" THEN 0 ELSE 1
<1>1. ServerOk(wh, n, {}) /\ DOMAIN wh = ServerFields
  BY DEF ServerInv, ServerOk, ServerTypes
<1> HIDE DEF n
<1>2. /\ Core(wh', Instances, n) /\ SameBut(wh', wh, {"kernel", "pending", "walk", "ok"})
      /\ Outstanding(wh') = Outstanding(wh) /\ wh'.kernel \subseteq wh.kernel
      /\ \A a \in wh'.ok \cap (wh'.pending \cup wh'.walk) :
           a \in wh.ok \cap (wh.pending \cup wh.walk) \/ wh.pipeHandle[a]
  <2>1. CASE InstanceCompletes
    <3>1. PICK a \in wh.kernel, good \in BOOLEAN : (good => wh.pipeHandle[a]) /\ wh' = Completed(wh, a, good)
      BY <2>1 DEF InstanceCompletes
    <3>2. /\ wh'.kernel = wh.kernel \ {a} /\ wh'.pending = wh.pending \cup {a} /\ wh'.walk = wh.walk
          /\ wh'.ok = IF good THEN wh.ok \cup {a} ELSE wh.ok \ {a}
      BY <1>1, <3>1 DEF Completed, ServerFields, BaseFields
    <3>3. /\ Core(wh', Instances, n) /\ SameBut(wh', wh, {"kernel", "pending", "ok"})
          /\ Outstanding(wh') = Outstanding(wh)
      BY <1>1, <3>1, CompletedKeeps DEF ServerOk
    <3>4. SameBut(wh', wh, {"kernel", "pending", "walk", "ok"})
      BY <3>3 DEF SameBut
    <3>5. CASE good
      BY <3>1, <3>2, <3>3, <3>4, <3>5
    <3>6. CASE ~good
      BY <3>1, <3>2, <3>3, <3>4, <3>6
    <3> QED BY <3>5, <3>6
  <2>2. CASE PipeServerWalk
    BY <1>1, <2>2, WalkKeeps DEF PipeServerWalk, WalkReqs, ServerFields, BaseFields, ServerOk,
       SameBut
  <2> QED BY <2>1, <2>2
<1>3. /\ DOMAIN wh' = ServerFields /\ wh'.pipeHandle = wh.pipeHandle /\ wh'.flags = wh.flags
      /\ wh'.active_reqs = wh.active_reqs /\ wh'.activecnt = wh.activecnt
      /\ wh'.pc = wh.pc /\ wh'.cur = wh.cur /\ wh'.accept_reqs = wh.accept_reqs
      /\ wh'.pending_instances = wh.pending_instances /\ wh'.reqs_pending = wh.reqs_pending
      /\ wh'.pending_accepts = wh.pending_accepts
  BY <1>1, <1>2 DEF SameBut, ServerFields, BaseFields
<1>4. \A f : On(wh', f) <=> On(wh, f)
  BY <1>3 DEF On
<1>5. ServerTypes(wh')
  BY <1>1, <1>3, <1>4 DEF ServerOk, ServerTypes
<1>6. ServerRequests(wh')
  BY <1>2, <1>3, <1>1, <1>4 DEF ServerHolds, ServerOk, ServerRequests
<1>7. ServerFlags(wh') /\ ServerServes(wh', {})
  BY <1>1, <1>2, <1>3, <1>4 DEF ServerOk, ServerFlags, ServerServes, Used
<1>8. ServerOk(wh', n, {})
  BY <1>2, <1>5, <1>6, <1>7 DEF ServerOk
<1> QED BY <1>1, <1>3, <1>4, <1>8 DEF ServerInv, ServerPc, EndDue, n

LEMMA ServerNextKeeps == ASSUME ServerInv, WinPipeServerNext PROVE ServerInv'
BY ServerBindKeeps, PipeListenKeeps, PipeAcceptedKeeps, PipeProcessAcceptKeeps, ConnectionDoneKeeps,
   ServerCloseKeeps, ServerEndKeeps, ServerSystemKeeps DEF WinPipeServerNext

-----------------------------------------------------------------------------
(* All streams.                                                            *)

WinStreamInv ==
  /\ win = "tcp" => TcpInv
  /\ win = "pipe" => PipeInv
  /\ win = "pipe_server" => ServerInv

LEMMA WinStreamInit == WindowsInit => WinStreamInv
BY TcpInitInv, PipeInitInv, ServerInitInv DEF WindowsInit, WinStreamInv

LEMMA WinStreamStep == WinStreamInv /\ [WindowsNext]_<<win, wh>> => WinStreamInv'
<1> SUFFICES ASSUME WinStreamInv, [WindowsNext]_<<win, wh>> PROVE WinStreamInv'
  OBVIOUS
<1>1. CASE UNCHANGED <<win, wh>>
  BY <1>1 DEF TcpInv, PipeInv, ServerInv, WinStreamInv
<1>2. CASE WindowsNext
  BY <1>2, TcpNextKeeps, PipeNextKeeps, ServerNextKeeps DEF WindowsNext, WinStreamInv
<1>3. WindowsNext \/ UNCHANGED <<win, wh>>
  OBVIOUS
<1> QED BY <1>1, <1>2, <1>3

\* The streams of the Windows port keep their promises, for any writes and accepts and
\* any instances of a pipe, through callbacks that stop, start, shut down and close:
\* reqs_pending, activecnt and active_reqs count what is out, a write that waits has one
\* before it, a shutdown has somebody to go on with it, a frame is read whole, a server
\* that listens has each request waiting or offered, and a handle ends with nothing
\* open and every write answered (uv__tcp_endgame, uv__tcp_listen, uv__pipe_endgame,
\* uv__process_pipe_write_req, uv__process_pipe_read_req, uv__process_pipe_accept_req).
THEOREM WinStreamSafe == WindowsSpec => []WinStreamSound
<1>1. WinStreamInv => WinStreamSound
  BY TcpInvSound, PipeInvSound, ServerInvSound DEF WinStreamInv, WinStreamSound
<1> QED BY <1>1, WinStreamInit, WinStreamStep, PTL DEF WindowsSpec
=============================================================================
