---------------------------- MODULE WinLoopProofs ----------------------------
(***************************************************************************)
(* Proofs about the loop of the Windows port, part by part: its wake-ups,  *)
(* the wait, the lists of watchers, signals, the table of all loops and    *)
(* the memory of name resolution.  For each part an invariant of the       *)
(* record wh: it holds at first, every step keeps it, and what WinLoop     *)
(* promises follows.  WinProofs puts them together.                        *)
(***************************************************************************)
EXTENDS WinLoop, FiniteSetTheorems, TLAPS

-----------------------------------------------------------------------------
(* The loop.                                                               *)

RunFields ==
  {"pc", "mode", "cb", "alive", "stop", "st", "ref", "sent", "posting", "active", "iocp",
   "pending", "walk", "endgames", "ran_pending", "timeout", "work", "active_reqs", "idle", "timer"}
Posters == RunSenders \cup {"worker"}

\* A wake-up is with a thread that has yet to post it, or in one of the queues, once.
WithPoster(h, a) == \E s \in Posters : h.posting[s] = a
InQueues(h) == In(h.iocp) \cup In(h.pending) \cup In(h.walk)
Wakes(h) ==
  /\ h.posting \in [Posters -> AllAsyncs \cup {"none"}] /\ h.sent \in [AllAsyncs -> BOOLEAN]
  /\ h.iocp \in Seq(AllAsyncs \cup {"resume"}) /\ NoDup(h.iocp)
  /\ h.pending \in Seq(AllAsyncs) /\ NoDup(h.pending)
  /\ h.walk \in Seq(AllAsyncs) /\ NoDup(h.walk)
  /\ In(h.iocp) \cap In(h.pending) = {} /\ In(h.iocp) \cap In(h.walk) = {}
  /\ In(h.pending) \cap In(h.walk) = {}
  /\ \A s \in Posters : h.posting[s] \notin InQueues(h)
  /\ \A s, t \in Posters : h.posting[s] = h.posting[t] => s = t \/ h.posting[s] = "none"
  /\ \A a \in AllAsyncs : h.sent[a] <=> (WithPoster(h, a) \/ a \in InQueues(h))

\* The end of a handle is asked for while it closes with no wake-up under way.
Closes(h) ==
  /\ h.st \in [AllAsyncs -> {"open", "closing", "closed"}] /\ h.ref \in [AllAsyncs -> BOOLEAN]
  /\ h.st["wq"] = "open" /\ ~h.ref["wq"]
  /\ h.endgames \in Seq(RunAsyncs) /\ NoDup(h.endgames)
  /\ \A a \in AllAsyncs : a \in In(h.endgames) <=> h.st[a] = "closing" /\ ~h.sent[a]
  /\ \A a \in AllAsyncs : h.st[a] = "closed" => ~h.sent[a]
  /\ h.sent["wq"] <=> h.work = "woken"

\* What the loop counts
Alive(h) == {a \in AllAsyncs : h.st[a] = "closing" \/ (h.st[a] = "open" /\ h.ref[a])}
Counts(h) ==
  /\ h.idle \in BOOLEAN /\ h.timer \in {"off", "armed", "due"}
  /\ h.active = Cardinality(Alive(h)) + (IF h.idle THEN 1 ELSE 0) + (IF h.timer = "off" THEN 0 ELSE 1)
  /\ h.active_reqs = IF h.work = "none" THEN 0 ELSE 1

\* A sleep without end has looked at everything; nothing runs before it ends.
Phases(h) ==
  /\ h.cb \in BOOLEAN /\ h.alive \in BOOLEAN
  /\ h.walk # <<>> => h.pc = "walk"
  /\ h.pc \in {"poll", "return"} => ~h.cb
  /\ h.pc = "poll" /\ h.timeout = "infinite" =>
       h.pending = <<>> /\ h.endgames = <<>> /\ ~h.idle /\ h.timer = "off" /\ ~h.stop
  /\ h.pc = "return" /\ ~h.alive => h.active = 0

RunInv == DOMAIN wh = RunFields /\ Wakes(wh) /\ Closes(wh) /\ Counts(wh) /\ Phases(wh)

\* What a step leaves alone
Keeps(F) == DOMAIN wh' = RunFields /\ \A f \in RunFields \ F : wh'[f] = wh[f]

LEMMA AliveIsFinite == ASSUME NEW h PROVE IsFiniteSet(Alive(h)) /\ Cardinality(Alive(h)) \in Nat
BY RunAssumption, FS_AddElement, FS_Subset, FS_CardinalityType DEF AllAsyncs, Alive

LEMMA RunInitInv == WinRunInit => RunInv
<1> SUFFICES ASSUME WinRunInit PROVE RunInv
  OBVIOUS
<1>1. PICK kept \in SUBSET RunAsyncs :
        /\ DOMAIN wh = RunFields /\ wh.pc = "out" /\ wh.cb = FALSE /\ wh.alive = FALSE
        /\ wh.st = [a \in AllAsyncs |-> "open"] /\ wh.ref = [a \in AllAsyncs |-> a \in kept]
        /\ wh.sent = [a \in AllAsyncs |-> FALSE] /\ wh.posting = [s \in Posters |-> "none"]
        /\ wh.active = Cardinality(kept) /\ wh.iocp = <<>> /\ wh.pending = <<>> /\ wh.walk = <<>>
        /\ wh.endgames = <<>> /\ wh.work = "none" /\ wh.active_reqs = 0 /\ wh.idle = FALSE
        /\ wh.timer = "off"
  BY DEF WinRunInit, RunFields, Posters
<1>2. Wakes(wh)
  BY <1>1, EmptyList, RunAssumption DEF Wakes, WithPoster, InQueues
<1>3. Closes(wh)
  <2>1. wh.endgames \in Seq(RunAsyncs) /\ NoDup(wh.endgames) /\ In(wh.endgames) = {}
    BY <1>1, EmptyList
  <2>2. "wq" \in AllAsyncs /\ "wq" \notin kept
    BY RunAssumption DEF AllAsyncs
  <2>3. wh.st \in [AllAsyncs -> {"open", "closing", "closed"}] /\ \A a \in AllAsyncs : wh.st[a] = "open"
    BY <1>1
  <2>4. wh.ref \in [AllAsyncs -> BOOLEAN] /\ \A a \in AllAsyncs : wh.ref[a] <=> a \in kept
    <3>1. wh.ref = [a \in AllAsyncs |-> a \in kept]
      BY <1>1
    <3>2. \A a \in AllAsyncs : wh.ref[a] = (a \in kept)
      BY <3>1
    <3>3. [a \in AllAsyncs |-> a \in kept] \in [AllAsyncs -> BOOLEAN]
      OBVIOUS
    <3> QED BY <3>1, <3>2, <3>3
  <2>5. \A a \in AllAsyncs : ~wh.sent[a]
    BY <1>1
  <2>6. wh.st["wq"] = "open" /\ ~wh.ref["wq"] /\ ~wh.sent["wq"]
    BY <2>2, <2>3, <2>4, <2>5
  <2> QED BY <1>1, <2>1, <2>3, <2>4, <2>5, <2>6 DEF Closes
<1>4. Counts(wh)
  <2>1. Alive(wh) = kept
    BY ZenonT(30), <1>1 DEF Alive, AllAsyncs
  <2>2. Cardinality(kept) \in Nat
    BY <2>1, AliveIsFinite
  <2>3. Cardinality(Alive(wh)) = wh.active
    BY <1>1, <2>1
  <2>4. wh.active = Cardinality(Alive(wh)) + (IF wh.idle THEN 1 ELSE 0)
                    + (IF wh.timer = "off" THEN 0 ELSE 1)
    BY <1>1, <2>1, <2>2, <2>3
  <2> QED BY <1>1, <2>4 DEF Counts
<1>5. Phases(wh)
  BY <1>1 DEF Phases
<1> QED BY <1>1, <1>2, <1>3, <1>4, <1>5 DEF RunInv

\* The wake-ups of a handle in a queue
Of(name, q, a) == {<<name, i>> : i \in {j \in DOMAIN q : q[j] = a}}

LEMMA OneInQueue ==
  ASSUME NEW q, NEW name, NEW a, NoDup(q)
  PROVE  IF a \in In(q) THEN \E e : Of(name, q, a) = {e} ELSE Of(name, q, a) = {}
<1>1. CASE a \notin In(q)
  BY <1>1 DEF In, Of
<1>2. CASE a \in In(q)
  <2>1. PICK i \in DOMAIN q : q[i] = a
    BY <1>2 DEF In
  <2>2. {j \in DOMAIN q : q[j] = a} = {i}
    BY <2>1 DEF NoDup
  <2>3. Of(name, q, a) = {<<name, i>>}
    BY <2>2 DEF Of
  <2> QED BY <1>2, <2>3
<1> QED BY <1>1, <1>2

LEMMA OneWakeup ==
  ASSUME Wakes(wh), NEW a \in AllAsyncs
  PROVE  Cardinality(Wakeups(a)) = IF wh.sent[a] THEN 1 ELSE 0
<1> DEFINE S == {<<"sender", s>> : s \in {t \in DOMAIN wh.posting : wh.posting[t] = a}}
           I == Of("iocp", wh.iocp, a)
           P == Of("pending", wh.pending, a)
           W == Of("walk", wh.walk, a)
<1>1. Wakeups(a) = S \cup I \cup P \cup W
  BY DEF Wakeups, Of
<1>2. ~WithPoster(wh, a) => S = {}
  BY DEF Wakes, WithPoster
<1>5. ASSUME WithPoster(wh, a) PROVE \E e : S = {e}
  <2>1. PICK s \in Posters : wh.posting[s] = a
    BY <1>5 DEF WithPoster
  <2>2. a # "none" /\ DOMAIN wh.posting = Posters
    BY RunAssumption DEF Wakes
  <2>3. {t \in DOMAIN wh.posting : wh.posting[t] = a} = {s}
    BY <2>1, <2>2 DEF Wakes
  <2>4. S = {<<"sender", s>>}
    BY <2>3
  <2> QED BY <2>4
<1>6. NoDup(wh.iocp) /\ NoDup(wh.pending) /\ NoDup(wh.walk)
  BY DEF Wakes
<1>7. IF a \in In(wh.iocp) THEN \E e : I = {e} ELSE I = {}
  BY <1>6, OneInQueue
<1>8. IF a \in In(wh.pending) THEN \E e : P = {e} ELSE P = {}
  BY <1>6, OneInQueue
<1>9. IF a \in In(wh.walk) THEN \E e : W = {e} ELSE W = {}
  BY <1>6, OneInQueue
<1>10. WithPoster(wh, a) => a \notin InQueues(wh)
  BY DEF Wakes, WithPoster
<1>11. /\ In(wh.iocp) \cap In(wh.pending) = {} /\ In(wh.iocp) \cap In(wh.walk) = {}
       /\ In(wh.pending) \cap In(wh.walk) = {}
       /\ wh.sent[a] <=> (WithPoster(wh, a) \/ a \in InQueues(wh))
  BY DEF Wakes
<1> HIDE DEF S, I, P, W
<1>12. CASE wh.sent[a]
  <2>1. \E e : Wakeups(a) = {e}
    BY <1>1, <1>5, <1>7, <1>8, <1>9, <1>10, <1>2, <1>11, <1>12 DEF InQueues
  <2> QED BY <2>1, <1>12, FS_Singleton
<1>13. CASE ~wh.sent[a]
  BY <1>1, <1>2, <1>7, <1>8, <1>9, <1>11, <1>13, FS_EmptySet DEF InQueues
<1> QED BY <1>12, <1>13

LEMMA RunInvSound == RunInv => WinRunSound
<1> SUFFICES ASSUME RunInv PROVE WinRunSound
  OBVIOUS
<1>1. Wakes(wh) /\ Closes(wh) /\ Counts(wh) /\ Phases(wh)
  BY DEF RunInv
<1>2. \A a \in AllAsyncs : Cardinality(Wakeups(a)) = IF wh.sent[a] THEN 1 ELSE 0
  BY <1>1, OneWakeup
<1>3. ASSUME NEW a \in RunAsyncs
      PROVE  /\ wh.st[a] = "closed" => ~wh.sent[a] /\ ~Queued(a)
             /\ wh.st[a] = "closing" /\ ~wh.sent[a] => Queued(a)
  BY <1>1 DEF Queued, In, Range, Closes, AllAsyncs
<1>4. wh.active = Cardinality({a \in AllAsyncs : wh.st[a] = "closing" \/ (wh.st[a] = "open" /\ wh.ref[a])})
                 + (IF wh.idle THEN 1 ELSE 0) + (IF wh.timer = "off" THEN 0 ELSE 1)
  BY <1>1 DEF Counts, Alive
<1>5. ASSUME wh.pc = "poll" /\ wh.timeout = "infinite" /\ wh.iocp = <<>> /\ Resting
      PROVE  /\ \A a \in AllAsyncs : ~wh.sent[a] /\ wh.st[a] # "closing"
             /\ wh.work # "woken"
             /\ ~wh.idle /\ wh.timer = "off" /\ ~wh.stop
  BY <1>1, <1>5, EmptyList, RunAssumption DEF Phases, InQueues, WithPoster, Resting, Wakes, Closes,
     AllAsyncs
<1>6. ASSUME wh.pc = "return" /\ ~wh.alive
      PROVE  \A a \in RunAsyncs : wh.st[a] # "closing" /\ (wh.st[a] = "open" => ~wh.ref[a])
  <2>1. Cardinality(Alive(wh)) = 0
    BY <1>1, <1>6, AliveIsFinite DEF Phases, Counts
  <2>2. Alive(wh) = {}
    BY <2>1, AliveIsFinite, FS_EmptySet
  <2> QED BY <2>2 DEF Alive, AllAsyncs
<1> QED BY <1>2, <1>3, <1>4, <1>5, <1>6 DEF WinRunSound

-----------------------------------------------------------------------------
(* Steps of the loop that leave the wake-ups alone.                        *)

\* Nothing is sent, posted, taken, closed or ended.
Quiet ==
  /\ DOMAIN wh' = RunFields
  /\ wh'.st = wh.st /\ wh'.ref = wh.ref /\ wh'.sent = wh.sent /\ wh'.posting = wh.posting
  /\ wh'.iocp = wh.iocp /\ wh'.pending = wh.pending /\ wh'.walk = wh.walk
  /\ wh'.endgames = wh.endgames /\ (wh'.work = "woken" <=> wh.work = "woken")

LEMMA QuietKeeps == ASSUME RunInv, Quiet PROVE Wakes(wh') /\ Closes(wh') /\ Alive(wh') = Alive(wh)
BY DEF RunInv, Quiet, Wakes, WithPoster, InQueues, Closes, Alive

\* What the user does, and the clock, with the thread of the pool
LEMMA UserKeeps ==
  ASSUME RunInv,
         WorkEnds \/ uv_stop \/ Submitted \/ IdleToggle \/ TimerStart \/ TimePasses \/ CallbackEnds
  PROVE  RunInv'
<1>1. Wakes(wh) /\ Closes(wh) /\ Counts(wh) /\ Phases(wh) /\ DOMAIN wh = RunFields
  BY DEF RunInv
<1> DEFINE n == Cardinality(Alive(wh))
<1>2. n \in Nat
  BY AliveIsFinite
<1>3. CASE WorkEnds
  BY <1>1, <1>3, QuietKeeps DEF WorkEnds, RunFields, Quiet, RunInv, Counts, Phases
<1>4. CASE uv_stop
  BY <1>1, <1>4, QuietKeeps DEF uv_stop, RunFields, Quiet, ByUser, RunInv, Counts, Phases
<1>5. CASE Submitted
  BY <1>1, <1>5, QuietKeeps DEF Submitted, RunFields, Quiet, RunInv, Counts, Phases
<1>6. CASE IdleToggle
  <2>1. Quiet /\ wh'.work = wh.work
        /\ wh'.active = (IF wh.idle THEN wh.active - 1 ELSE wh.active + 1)
        /\ wh'.active_reqs = wh.active_reqs /\ wh'.idle = ~wh.idle
        /\ wh'.timer = wh.timer /\ wh'.pc = wh.pc /\ wh'.cb = wh.cb /\ wh'.alive = wh.alive
        /\ wh'.stop = wh.stop /\ wh'.timeout = wh.timeout /\ (wh.cb \/ wh.pc = "out")
    BY <1>1, <1>6 DEF IdleToggle, RunFields, Quiet, ByUser
  <2>2. Counts(wh')
    <3>1. CASE wh.idle
      <4>1. wh'.idle = FALSE /\ wh'.active = wh.active - 1
        BY <2>1, <3>1
      <4>2. wh.active = n + 1 + (IF wh.timer = "off" THEN 0 ELSE 1)
        BY <1>1, <3>1 DEF Counts
      <4>3. wh'.active = n + (IF wh'.timer = "off" THEN 0 ELSE 1)
        BY <1>2, <2>1, <4>1, <4>2
      <4> QED BY <1>1, <1>2, <2>1, <4>1, <4>3, QuietKeeps DEF Counts
    <3>2. CASE ~wh.idle
      <4>1. wh'.idle = TRUE /\ wh'.active = wh.active + 1
        BY <1>1, <2>1, <3>2 DEF Counts
      <4>2. wh.active = n + (IF wh.timer = "off" THEN 0 ELSE 1)
        BY <1>1, <1>2, <3>2 DEF Counts
      <4>3. wh'.active = n + 1 + (IF wh'.timer = "off" THEN 0 ELSE 1)
        BY <1>2, <2>1, <4>1, <4>2
      <4> QED BY <1>1, <1>2, <2>1, <4>1, <4>3, QuietKeeps DEF Counts
    <3> QED BY <3>1, <3>2
  <2>3. Phases(wh')
    BY <1>1, <2>1 DEF Phases, Quiet
  <2> QED BY <1>1, <2>1, <2>2, <2>3, QuietKeeps DEF RunInv, Quiet
<1>7. CASE TimerStart
  BY <1>1, <1>7, <1>2, QuietKeeps DEF TimerStart, RunFields, Quiet, ByUser, Counts, Phases, RunInv
<1>8. CASE TimePasses
  BY <1>1, <1>8, <1>2, QuietKeeps DEF TimePasses, RunFields, Quiet, Counts, Phases, RunInv
<1>9. CASE CallbackEnds
  BY <1>1, <1>9, QuietKeeps DEF CallbackEnds, RunFields, Quiet, Phases, RunInv, Counts
<1> QED BY <1>3, <1>4, <1>5, <1>6, <1>7, <1>8, <1>9

\* The steps of uv_run() that look and go on
LEMMA TurnKeeps ==
  ASSUME RunInv,
         \/ \E mode \in {"default", "once", "nowait"} : RunStart(mode)
         \/ RunTimers("timers", "reqs") \/ RunTimers("once", "again")
         \/ WalkEnds \/ Backend \/ TimesOut \/ EndgamesDone \/ RunAgain \/ RunReturns
  PROVE  RunInv'
<1>1. Wakes(wh) /\ Closes(wh) /\ Counts(wh) /\ Phases(wh) /\ DOMAIN wh = RunFields
  BY DEF RunInv
<1> DEFINE n == Cardinality(Alive(wh))
           OnlyTurns == Quiet /\ wh'.work = wh.work /\ wh'.active_reqs = wh.active_reqs /\ wh'.idle = wh.idle
<1>2. n \in Nat /\ wh.active \in Nat
  BY <1>1, AliveIsFinite DEF Counts
<1>3. wh.active_reqs \in Nat
  BY <1>1 DEF Counts
<1> DEFINE alive == uv__loop_alive(wh)
<1>13. alive \in BOOLEAN /\ (~alive => wh.active = 0)
  BY <1>2, <1>3 DEF uv__loop_alive
<1>4. ASSUME OnlyTurns, wh'.active = wh.active, wh'.timer = wh.timer
      PROVE  DOMAIN wh' = RunFields /\ Wakes(wh') /\ Closes(wh') /\ Counts(wh')
  BY <1>1, <1>4, QuietKeeps DEF Quiet, Counts
<1>5. ASSUME NEW mode \in {"default", "once", "nowait"}, RunStart(mode) PROVE RunInv'
  <2>1. OnlyTurns /\ wh'.active = wh.active /\ wh'.timer = wh.timer /\ wh'.alive = alive
        /\ wh'.pc = Goes(wh) /\ wh'.cb = wh.cb /\ wh.pc = "out" /\ ~wh.cb
    BY <1>1, <1>5 DEF RunStart, RunFields, Quiet, At
  <2>2. Phases(wh')
    <3>1. wh'.pc \in {"return", "timers"}
      BY <2>1 DEF Goes
    <3> HIDE DEF alive
    <3> QED BY <1>1, <1>13, <2>1, <3>1 DEF Phases, Quiet
  <2> QED BY <1>4, <2>1, <2>2 DEF RunInv
<1>6. ASSUME NEW at \in {"timers", "once"}, NEW next \in {"reqs", "again"}, RunTimers(at, next)
      PROVE  RunInv'
  <2>1. CASE wh.timer = "due"
    BY <1>1, <1>6, <2>1, <1>2, QuietKeeps DEF RunTimers, RunFields, Quiet, At, Phases, Counts,
       RunInv
  <2>2. CASE wh.timer # "due"
    BY <1>1, <1>6, <2>2, <1>4 DEF RunTimers, RunFields, Quiet, At, Phases, RunInv
  <2> QED BY <2>1, <2>2
<1>7. CASE WalkEnds
  BY <1>1, <1>7, <1>4 DEF WalkEnds, RunFields, Quiet, At, Phases, Counts, RunInv
<1>8. CASE Backend
  BY <1>1, <1>8, <1>4 DEF Backend, RunFields, Quiet, At, Phases, uv_backend_timeout, RunInv
<1>9. CASE TimesOut
  BY <1>1, <1>9, <1>4 DEF TimesOut, RunFields, Quiet, At, Phases, RunInv
<1>10. CASE EndgamesDone
  BY <1>1, <1>10, <1>4 DEF EndgamesDone, RunFields, Quiet, At, Phases, RunInv
<1>11. CASE RunAgain
  <2>1. OnlyTurns /\ wh'.active = wh.active /\ wh'.timer = wh.timer /\ wh'.alive = alive
        /\ wh'.pc \in {"return", "timers"} /\ wh'.cb = wh.cb /\ wh.pc = "again" /\ ~wh.cb
    BY <1>1, <1>11 DEF RunAgain, RunFields, Quiet, At, Goes
  <2>2. Phases(wh')
    <3> HIDE DEF alive
    <3> QED BY <1>1, <1>13, <2>1 DEF Phases, Quiet
  <2> QED BY <1>4, <2>1, <2>2 DEF RunInv
<1>12. CASE RunReturns
  BY <1>1, <1>12, <1>4 DEF RunReturns, RunFields, Quiet, At, Phases, RunInv
<1> QED BY <1>5, <1>6, <1>7, <1>8, <1>9, <1>10, <1>11, <1>12

-----------------------------------------------------------------------------
(* Steps that send, post, take and close.                                  *)

\* A step that leaves alone what is closed and counted
Untouched ==
  /\ DOMAIN wh' = RunFields
  /\ wh'.st = wh.st /\ wh'.ref = wh.ref /\ wh'.endgames = wh.endgames
  /\ wh'.active = wh.active /\ wh'.active_reqs = wh.active_reqs /\ wh'.idle = wh.idle
  /\ wh'.timer = wh.timer /\ (wh'.work = "none" <=> wh.work = "none")

LEMMA UntouchedKeeps == ASSUME RunInv, Untouched PROVE Counts(wh')
BY DEF Untouched, Alive, RunInv, Counts

LEMMA ExchangeWakes ==
  ASSUME NEW g, NEW h, Wakes(g), NEW s \in Posters, NEW a \in AllAsyncs, g.posting[s] = "none",
         h.posting = [g.posting EXCEPT ![s] = IF g.sent[a] THEN "none" ELSE a],
         h.sent = [g.sent EXCEPT ![a] = TRUE],
         h.iocp = g.iocp, h.pending = g.pending, h.walk = g.walk
  PROVE  Wakes(h)
<1>1. h.sent \in [AllAsyncs -> BOOLEAN] /\ h.posting \in [Posters -> AllAsyncs \cup {"none"}]
  BY DEF Wakes
<1>2. InQueues(h) = InQueues(g)
  BY DEF InQueues
<1>3. a # "none" /\ "none" \notin AllAsyncs
  BY RunAssumption
<1>4. CASE g.sent[a]
  <2>1. h.posting = g.posting
    BY <1>4 DEF Wakes
  <2>2. h.sent = g.sent
    <3>1. g.sent[a] = TRUE /\ g.sent \in [AllAsyncs -> BOOLEAN]
      BY <1>4 DEF Wakes
    <3> QED BY <3>1
  <2> QED BY <1>1, <1>2, <2>1, <2>2 DEF Wakes, WithPoster, InQueues
<1>5. CASE ~g.sent[a]
  BY <1>5, <1>2, <1>3, <1>1 DEF Wakes, WithPoster
<1> QED BY <1>4, <1>5

LEMMA SendKeeps ==
  ASSUME RunInv, NEW s \in RunSenders, NEW a \in RunAsyncs, uv_async_send(s, a)
  PROVE  RunInv'
<1>1. Wakes(wh) /\ Closes(wh) /\ Counts(wh) /\ Phases(wh) /\ DOMAIN wh = RunFields
  BY DEF RunInv
<1>2. s \in Posters /\ a \in AllAsyncs /\ a # "wq" /\ wh.posting[s] = "none" /\ wh.st[a] = "open"
  BY RunAssumption DEF Posters, AllAsyncs, uv_async_send
<1>3. /\ Untouched /\ wh'.work = wh.work /\ wh'.pc = wh.pc /\ wh'.cb = wh.cb /\ wh'.alive = wh.alive
      /\ wh'.stop = wh.stop /\ wh'.timeout = wh.timeout
      /\ wh'.sent = [wh.sent EXCEPT ![a] = TRUE]
      /\ wh'.posting = [wh.posting EXCEPT ![s] = IF wh.sent[a] THEN "none" ELSE a]
      /\ wh'.iocp = wh.iocp /\ wh'.pending = wh.pending /\ wh'.walk = wh.walk
  BY <1>1, <1>2 DEF uv_async_send, Exchange, Untouched, RunFields
<1>4. Wakes(wh')
  BY <1>1, <1>2, <1>3, ExchangeWakes
<1>5. Closes(wh')
  BY <1>1, <1>3, <1>2 DEF Wakes, AllAsyncs, Closes, Untouched
<1>6. Phases(wh')
  BY <1>1, <1>3 DEF Phases, Untouched
<1> QED BY <1>3, <1>4, <1>5, <1>6, UntouchedKeeps DEF RunInv, Untouched

LEMMA WorkWakesKeeps == ASSUME RunInv, WorkWakes PROVE RunInv'
<1>1. Wakes(wh) /\ Closes(wh) /\ Counts(wh) /\ Phases(wh) /\ DOMAIN wh = RunFields
  BY DEF RunInv
<1>2. "worker" \in Posters /\ "wq" \in AllAsyncs /\ wh.posting["worker"] = "none" /\ wh.work = "done"
  BY DEF Posters, AllAsyncs, WorkWakes
<1>3. /\ Untouched /\ wh'.work = "woken" /\ wh'.pc = wh.pc /\ wh'.cb = wh.cb /\ wh'.alive = wh.alive
      /\ wh'.stop = wh.stop /\ wh'.timeout = wh.timeout
      /\ wh'.sent = [wh.sent EXCEPT !["wq"] = TRUE]
      /\ wh'.posting = [wh.posting EXCEPT !["worker"] = IF wh.sent["wq"] THEN "none" ELSE "wq"]
      /\ wh'.iocp = wh.iocp /\ wh'.pending = wh.pending /\ wh'.walk = wh.walk
  BY <1>1, <1>2 DEF WorkWakes, Exchange, Untouched, RunFields
<1>4. Wakes(wh')
  BY <1>1, <1>2, <1>3, ExchangeWakes
<1>5. Closes(wh')
  BY <1>1, <1>3, <1>2 DEF Wakes, Closes, Untouched
<1>6. Phases(wh')
  BY <1>1, <1>3 DEF Phases, Untouched
<1> QED BY <1>3, <1>4, <1>5, <1>6, UntouchedKeeps DEF RunInv, Untouched

LEMMA PostKeeps == ASSUME RunInv, NEW s \in Posters, Post(s) PROVE RunInv'
<1>1. Wakes(wh) /\ Closes(wh) /\ Counts(wh) /\ Phases(wh) /\ DOMAIN wh = RunFields
  BY DEF RunInv
<1>2. PICK a \in AllAsyncs : a = wh.posting[s]
  BY <1>1 DEF Post, Wakes
<1>3. /\ Untouched /\ wh'.work = wh.work /\ wh'.pc = wh.pc /\ wh'.cb = wh.cb /\ wh'.alive = wh.alive
      /\ wh'.stop = wh.stop /\ wh'.timeout = wh.timeout /\ wh'.sent = wh.sent
      /\ wh'.posting = [wh.posting EXCEPT ![s] = "none"] /\ wh'.iocp = Append(wh.iocp, a)
      /\ wh'.pending = wh.pending /\ wh'.walk = wh.walk
  BY <1>1, <1>2 DEF Post, Untouched, RunFields
<1>4. a \in AllAsyncs \cup {"resume"} /\ a \notin InQueues(wh) /\ a # "none"
  BY <1>1, <1>2, RunAssumption DEF Wakes
<1>5. /\ wh'.iocp \in Seq(AllAsyncs \cup {"resume"}) /\ NoDup(wh'.iocp)
      /\ In(wh'.iocp) = In(wh.iocp) \cup {a}
  BY <1>1, <1>3, <1>4, InsertTail DEF Wakes, InQueues
<1>6. \A t \in Posters : wh'.posting[t] = IF t = s THEN "none" ELSE wh.posting[t]
  BY <1>1, <1>3 DEF Wakes
<1>7. Wakes(wh')
  <2>1. InQueues(wh') = InQueues(wh) \cup {a}
    BY <1>3, <1>5 DEF InQueues
  <2>2. \A t \in Posters : wh'.posting[t] # a
    BY <1>1, <1>2, <1>4, <1>6 DEF Wakes
  <2>3. "none" \notin InQueues(wh)
    BY <1>1, RunAssumption DEF Wakes, InQueues, In
  <2>4. \A t \in Posters : wh'.posting[t] \notin InQueues(wh')
    BY <1>1, <1>6, <2>1, <2>2, <2>3 DEF Wakes
  <2>5. \A t, u \in Posters : wh'.posting[t] = wh'.posting[u] => t = u \/ wh'.posting[t] = "none"
    BY <1>1, <1>6 DEF Wakes
  <2>6. \A b \in AllAsyncs : WithPoster(wh', b) <=> b # a /\ WithPoster(wh, b)
    BY <1>1, <1>2, <1>6, <2>2, RunAssumption DEF WithPoster
  <2>7. WithPoster(wh, a)
    BY <1>2 DEF WithPoster
  <2>8. \A b \in AllAsyncs : wh'.sent[b] <=> (WithPoster(wh', b) \/ b \in InQueues(wh'))
    BY <1>1, <1>3, <2>1, <2>6, <2>7 DEF Wakes
  <2>9. In(wh'.iocp) \cap In(wh'.pending) = {} /\ In(wh'.iocp) \cap In(wh'.walk) = {}
    BY <1>1, <1>3, <1>4, <1>5 DEF Wakes, InQueues
  <2>10. wh'.posting \in [Posters -> AllAsyncs \cup {"none"}]
    BY <1>1, <1>3 DEF Wakes
  <2> QED BY <1>1, <1>3, <1>5, <2>4, <2>5, <2>8, <2>9, <2>10 DEF Wakes
<1>8. Closes(wh')
  BY <1>1, <1>3 DEF Closes, Untouched
<1>9. Phases(wh')
  BY <1>1, <1>3 DEF Phases, Untouched
<1> QED BY <1>3, <1>7, <1>8, <1>9, UntouchedKeeps DEF RunInv, Untouched

LEMMA ResumesKeeps == ASSUME RunInv, Resumes PROVE RunInv'
<1>1. Wakes(wh) /\ Closes(wh) /\ Counts(wh) /\ Phases(wh) /\ DOMAIN wh = RunFields
  BY DEF RunInv
<1>2. /\ Untouched /\ wh'.work = wh.work /\ wh'.pc = wh.pc /\ wh'.cb = wh.cb /\ wh'.alive = wh.alive
      /\ wh'.stop = wh.stop /\ wh'.timeout = wh.timeout /\ wh'.sent = wh.sent
      /\ wh'.posting = wh.posting /\ wh'.iocp = Append(wh.iocp, "resume")
      /\ wh'.pending = wh.pending /\ wh'.walk = wh.walk
  BY <1>1 DEF Resumes, Untouched, RunFields
<1>3. "resume" \notin In(wh.iocp)
  BY DEF Resumes, In, Range
<1>4. /\ wh'.iocp \in Seq(AllAsyncs \cup {"resume"}) /\ NoDup(wh'.iocp)
      /\ In(wh'.iocp) = In(wh.iocp) \cup {"resume"}
  BY <1>1, <1>2, <1>3, InsertTail DEF Wakes
<1>5. Wakes(wh')
  <2>1. InQueues(wh') = InQueues(wh) \cup {"resume"}
    BY <1>2, <1>4 DEF InQueues
  <2>2. \A s \in Posters : wh.posting[s] # "resume" /\ "resume" \notin AllAsyncs
    BY <1>1, RunAssumption DEF Wakes
  <2>3. "resume" \notin In(wh.pending) /\ "resume" \notin In(wh.walk)
    BY <1>1, RunAssumption DEF Wakes, In
  <2>4. \A a \in AllAsyncs : WithPoster(wh', a) <=> WithPoster(wh, a)
    BY <1>2 DEF WithPoster
  <2>5. \A a \in AllAsyncs : wh'.sent[a] <=> (WithPoster(wh', a) \/ a \in InQueues(wh'))
    BY <1>1, <1>2, <2>1, <2>4, RunAssumption DEF Wakes
  <2> QED BY <1>1, <1>2, <1>4, <2>1, <2>2, <2>3, <2>5 DEF Wakes
<1>6. Closes(wh')
  BY <1>1, <1>2 DEF Closes, Untouched
<1>7. Phases(wh')
  BY <1>1, <1>2 DEF Phases, Untouched
<1> QED BY <1>2, <1>5, <1>6, <1>7, UntouchedKeeps DEF RunInv, Untouched

LEMMA RunCloseKeeps == ASSUME RunInv, NEW a \in RunAsyncs, uv__async_close(a) PROVE RunInv'
<1>1. Wakes(wh) /\ Closes(wh) /\ Counts(wh) /\ Phases(wh) /\ DOMAIN wh = RunFields
  BY DEF RunInv
<1>2. a \in AllAsyncs /\ a # "wq" /\ wh.st[a] = "open" /\ (wh.cb \/ wh.pc = "out")
  BY RunAssumption DEF AllAsyncs, uv__async_close, ByUser
<1>3. a \notin In(wh.endgames) /\ a \notin Range(wh.endgames)
  BY <1>1, <1>2 DEF Closes, In, Range
<1>4. /\ DOMAIN wh' = RunFields /\ wh'.st = [wh.st EXCEPT ![a] = "closing"]
      /\ wh'.endgames = (IF wh.sent[a] THEN wh.endgames ELSE <<a>> \o wh.endgames)
      /\ wh'.active = (IF wh.ref[a] THEN wh.active ELSE wh.active + 1)
      /\ wh'.ref = wh.ref /\ wh'.active_reqs = wh.active_reqs /\ wh'.idle = wh.idle
      /\ wh'.timer = wh.timer /\ wh'.work = wh.work /\ wh'.pc = wh.pc /\ wh'.cb = wh.cb
      /\ wh'.alive = wh.alive /\ wh'.sent = wh.sent
      /\ wh'.posting = wh.posting /\ wh'.iocp = wh.iocp
      /\ wh'.pending = wh.pending /\ wh'.walk = wh.walk
  <2>1. CASE wh.sent[a]
    BY <1>1, <2>1 DEF uv__async_close, RunFields
  <2>2. CASE ~wh.sent[a]
    <3> DEFINE g == [wh EXCEPT !.endgames = <<a>> \o @]
    <3>1. DOMAIN g = RunFields /\ g.endgames = <<a>> \o wh.endgames
          /\ \A f \in RunFields \ {"endgames"} : g[f] = wh[f]
      BY <1>1 DEF RunFields
    <3>2. wh' = [g EXCEPT !.st[a] = "closing", !.active = IF wh.ref[a] THEN @ ELSE @ + 1]
      BY <1>3, <2>2 DEF uv__async_close, uv__want_endgame
    <3> HIDE DEF g
    <3> QED BY <2>2, <3>1, <3>2 DEF RunFields
  <2> QED BY <2>1, <2>2
<1>5. Wakes(wh')
  BY <1>1, <1>4 DEF Wakes, WithPoster, InQueues
<1>6. \A b \in AllAsyncs : wh'.st[b] = IF b = a THEN "closing" ELSE wh.st[b]
  BY <1>1, <1>4 DEF Closes
<1>7. Closes(wh')
  BY <1>1, <1>3, <1>4, <1>2, <1>6, InsertHead DEF Closes, AllAsyncs
<1>8. Counts(wh')
  <2> DEFINE n == Cardinality(Alive(wh))
  <2>1. Alive(wh') = Alive(wh) \cup {a} /\ (a \in Alive(wh) <=> wh.ref[a])
    BY <1>2, <1>4, <1>6 DEF Alive
  <2>2. n \in Nat /\ IsFiniteSet(Alive(wh))
    BY AliveIsFinite
  <2>3. Cardinality(Alive(wh')) = IF wh.ref[a] THEN n ELSE n + 1
    BY <2>1, <2>2, FS_AddElement
  <2>4. CASE wh.ref[a]
    BY <1>1, <1>4, <2>3, <2>4 DEF Counts
  <2>5. CASE ~wh.ref[a]
    <3>1. wh'.active = wh.active + 1 /\ Cardinality(Alive(wh')) = n + 1
      BY <1>4, <2>3, <2>5
    <3> HIDE DEF n
    <3>2. wh.active = n + (IF wh.idle THEN 1 ELSE 0) + (IF wh.timer = "off" THEN 0 ELSE 1)
      BY <1>1 DEF Counts, n
    <3>3. wh'.active = n + 1 + (IF wh'.idle THEN 1 ELSE 0) + (IF wh'.timer = "off" THEN 0 ELSE 1)
      BY <1>4, <2>2, <3>1, <3>2
    <3> QED BY <1>1, <1>4, <3>1, <3>3 DEF Counts
  <2> QED BY <2>4, <2>5
<1>9. Phases(wh')
  BY <1>1, <1>2, <1>4 DEF Phases
<1> QED BY <1>4, <1>5, <1>7, <1>8, <1>9 DEF RunInv

\* uv__process_reqs() takes the list; uv__poll() puts the packets into it.
LEMMA TakeReqsKeeps == ASSUME RunInv, TakeReqs PROVE RunInv'
<1>1. Wakes(wh) /\ Closes(wh) /\ Counts(wh) /\ Phases(wh) /\ DOMAIN wh = RunFields
  BY DEF RunInv
<1>2. /\ Untouched /\ wh'.work = wh.work /\ wh'.pc = "walk" /\ wh'.cb = wh.cb /\ wh'.alive = wh.alive
      /\ wh'.sent = wh.sent /\ wh'.posting = wh.posting /\ wh'.iocp = wh.iocp
      /\ wh'.pending = <<>> /\ wh'.walk = wh.pending /\ wh.pc = "reqs"
  BY <1>1 DEF TakeReqs, Untouched, RunFields, At
<1>3. In(wh.walk) = {} /\ In(wh'.pending) = {} /\ NoDup(wh'.pending) /\ wh'.pending \in Seq(AllAsyncs)
  BY <1>1, <1>2, EmptyList DEF Phases
<1>4. InQueues(wh') = InQueues(wh)
  BY <1>2, <1>3 DEF InQueues
<1>5. Wakes(wh')
  BY <1>1, <1>2, <1>3, <1>4 DEF Wakes, WithPoster
<1>6. Closes(wh')
  BY <1>1, <1>2 DEF Closes, Untouched
<1>7. Phases(wh')
  BY <1>1, <1>2 DEF Phases
<1> QED BY <1>2, <1>5, <1>6, <1>7, UntouchedKeeps DEF RunInv, Untouched

\* A packet goes from the port into the list, with all there is to know about wake-ups.
Took(g, h) ==
  /\ DOMAIN h = RunFields
  /\ \A f \in RunFields \ {"iocp", "pending"} : h[f] = g[f]
  /\ Wakes(h) /\ Closes(h)

LEMMA TakePacketKeeps ==
  ASSUME NEW g, DOMAIN g = RunFields, Wakes(g), Closes(g), g.iocp # <<>>
  PROVE  Took(g, TakePacket(g))
<1> DEFINE h == TakePacket(g)
           p == Head(g.iocp)
<1>1. /\ DOMAIN h = RunFields /\ \A f \in RunFields \ {"iocp", "pending"} : h[f] = g[f]
      /\ h.iocp = Tail(g.iocp)
      /\ h.pending = IF p = "resume" THEN g.pending ELSE Append(g.pending, p)
  BY DEF TakePacket, RunFields
<1>2. h.posting = g.posting /\ h.sent = g.sent /\ h.walk = g.walk /\ h.st = g.st /\ h.ref = g.ref
      /\ h.endgames = g.endgames /\ h.work = g.work
  BY <1>1 DEF RunFields
<1>3. /\ h.iocp \in Seq(AllAsyncs \cup {"resume"}) /\ p \in In(g.iocp)
      /\ In(h.iocp) = In(g.iocp) \ {p} /\ NoDup(h.iocp)
  BY <1>1, TakeHead DEF Wakes
<1>4. p \in AllAsyncs \cup {"resume"} /\ "resume" \notin AllAsyncs
  BY <1>3, RunAssumption DEF Wakes, In
<1> HIDE DEF h, p
<1>5. /\ h.pending \in Seq(AllAsyncs) /\ NoDup(h.pending)
      /\ In(h.pending) = In(g.pending) \cup (IF p = "resume" THEN {} ELSE {p})
  <2>1. CASE p = "resume"
    BY <1>1, <2>1 DEF Wakes
  <2>2. CASE p # "resume"
    BY <1>3, <1>4, <2>2, <1>1, InsertTail DEF Wakes
  <2> QED BY <2>1, <2>2
<1>6. InQueues(h) = InQueues(g) \ (IF p = "resume" THEN {"resume"} ELSE {})
  <2>1. "resume" \notin In(g.pending) /\ "resume" \notin In(g.walk)
    BY <1>4 DEF Wakes, In
  <2> QED BY <1>2, <1>3, <1>5, <2>1 DEF InQueues
<1>7. Wakes(h)
  BY <1>2, <1>3, <1>5, <1>4, <1>6 DEF Wakes, WithPoster
<1>8. Closes(h)
  BY <1>2 DEF Closes
<1> QED BY <1>1, <1>7, <1>8 DEF Took, h

LEMMA DequeueKeeps == ASSUME RunInv, Dequeue PROVE RunInv'
<1>1. Wakes(wh) /\ Closes(wh) /\ Counts(wh) /\ Phases(wh) /\ DOMAIN wh = RunFields
  BY DEF RunInv
<1>2. PICK h : h = TakePacket(wh)
  OBVIOUS
<1>3. PICK g : g = IF h.iocp = <<>> THEN h ELSE TakePacket(h)
  OBVIOUS
<1>4. Took(wh, h)
  BY <1>1, <1>2, TakePacketKeeps DEF Dequeue
<1>5. Took(wh, g)
  <2>1. CASE h.iocp = <<>>
    BY <1>3, <1>4, <2>1
  <2>2. CASE h.iocp # <<>>
    BY <1>3, <1>4, <2>2, TakePacketKeeps DEF Took
  <2> QED BY <2>1, <2>2
<1>6. wh.pc = "poll" /\ ~wh.cb /\ wh' = [g EXCEPT !.pc = "endgames", !.timeout = "zero"]
  BY <1>2, <1>3 DEF Dequeue, At
<1>7. /\ DOMAIN wh' = RunFields /\ wh'.pc = "endgames" /\ wh'.timeout = "zero"
      /\ \A f \in RunFields \ {"pc", "timeout"} : wh'[f] = g[f]
  BY <1>5, <1>6 DEF Took, RunFields
<1>8. Wakes(wh')
  BY <1>7, <1>5 DEF RunFields, Took, Wakes, WithPoster, InQueues
<1>9. Closes(wh')
  BY <1>7, <1>5 DEF RunFields, Took, Closes
<1>10. Untouched /\ wh'.walk = wh.walk /\ wh'.cb = wh.cb /\ wh'.alive = wh.alive
  BY <1>5, <1>7 DEF Took, Untouched, RunFields
<1>11. Phases(wh')
  BY <1>1, <1>6, <1>7, <1>10 DEF Phases
<1> QED BY <1>7, <1>8, <1>9, <1>10, <1>11, UntouchedKeeps DEF RunInv

\* A wake-up is handled: the callback, or the end that waited for it.
LEMMA WakeupReqKeeps == ASSUME RunInv, uv__process_async_wakeup_req PROVE RunInv'
<1>1. Wakes(wh) /\ Closes(wh) /\ Counts(wh) /\ Phases(wh) /\ DOMAIN wh = RunFields
  BY DEF RunInv
<1>2. wh.walk # <<>> /\ wh.pc = "walk" /\ ~wh.cb
  BY DEF uv__process_async_wakeup_req, At
<1>3. PICK a, t : a = Head(wh.walk) /\ t = Tail(wh.walk)
  OBVIOUS
<1>4. t \in Seq(AllAsyncs) /\ a \in In(wh.walk) /\ In(t) = In(wh.walk) \ {a} /\ NoDup(t)
  BY <1>1, <1>2, <1>3, TakeHead DEF Wakes
<1>5. a \in AllAsyncs /\ wh.sent[a] /\ a \notin In(wh.iocp) /\ a \notin In(wh.pending)
      /\ ~WithPoster(wh, a) /\ wh.st[a] # "closed"
  <2>1. a \in AllAsyncs
    BY <1>1, <1>4 DEF Wakes, In
  <2>2. a \in InQueues(wh) /\ ~WithPoster(wh, a) /\ wh.sent[a]
    BY <1>1, <1>4, <2>1 DEF Wakes, InQueues, WithPoster
  <2> QED BY <1>1, <1>4, <2>1, <2>2 DEF Wakes, Closes
<1> DEFINE h == [wh EXCEPT !.sent[a] = FALSE, !.walk = Tail(@)]
<1>6. /\ DOMAIN h = RunFields /\ h.sent = [wh.sent EXCEPT ![a] = FALSE] /\ h.walk = t
      /\ \A f \in RunFields \ {"sent", "walk"} : h[f] = wh[f]
  BY <1>1, <1>3 DEF RunFields
<1>7. wh' = IF wh.st[a] = "closing" THEN uv__want_endgame(h, a)
            ELSE IF a # "wq" THEN [h EXCEPT !.cb = TRUE]
            ELSE [h EXCEPT !.work = "none", !.active_reqs = @ - 1, !.cb = TRUE]
  BY <1>3 DEF uv__process_async_wakeup_req
<1> HIDE DEF h
<1>8. a \notin In(wh.endgames) /\ a \notin Range(wh.endgames)
  BY <1>1, <1>5 DEF Closes, In, Range
<1>9. /\ DOMAIN wh' = RunFields /\ wh'.sent = [wh.sent EXCEPT ![a] = FALSE] /\ wh'.walk = t
      /\ \A f \in RunFields \ {"sent", "walk", "endgames", "work", "active_reqs", "cb"} : wh'[f] = wh[f]
      /\ wh'.endgames = (IF wh.st[a] = "closing" THEN <<a>> \o wh.endgames ELSE wh.endgames)
      /\ wh'.cb = (wh.st[a] # "closing")
      /\ wh'.work = (IF wh.st[a] # "closing" /\ a = "wq" THEN "none" ELSE wh.work)
      /\ wh'.active_reqs = (IF wh.st[a] # "closing" /\ a = "wq" THEN wh.active_reqs - 1
                            ELSE wh.active_reqs)
  <2>1. h.endgames = wh.endgames /\ h.work = wh.work /\ h.active_reqs = wh.active_reqs /\ h.cb = wh.cb
    BY <1>6 DEF RunFields
  <2>2. wh.cb = FALSE
    BY <1>1, <1>2 DEF Phases
  <2>3. CASE wh.st[a] = "closing"
    BY <1>7, <1>8, <2>1, <2>3, <1>6, <2>2 DEF uv__want_endgame, RunFields
  <2>4. CASE wh.st[a] # "closing" /\ a # "wq"
    BY <1>7, <2>4, <1>6, <2>1 DEF RunFields
  <2>5. CASE wh.st[a] # "closing" /\ a = "wq"
    BY <1>7, <2>5, <1>6, <2>1 DEF RunFields
  <2> QED BY <2>3, <2>4, <2>5
<1>10. wh'.posting = wh.posting /\ wh'.iocp = wh.iocp /\ wh'.pending = wh.pending /\ wh'.st = wh.st
       /\ wh'.ref = wh.ref /\ wh'.active = wh.active /\ wh'.idle = wh.idle /\ wh'.timer = wh.timer
       /\ wh'.pc = wh.pc /\ wh'.alive = wh.alive
  BY <1>9 DEF RunFields
<1>11. \A b \in AllAsyncs : wh'.sent[b] <=> wh.sent[b] /\ b # a
  BY <1>1, <1>9 DEF Wakes
<1>12. Wakes(wh')
  <2>1. InQueues(wh') = InQueues(wh) \ {a}
    BY <1>4, <1>5, <1>9, <1>10 DEF InQueues
  <2>2. \A b \in AllAsyncs : WithPoster(wh', b) <=> WithPoster(wh, b)
    BY <1>10 DEF WithPoster
  <2>3. \A b \in AllAsyncs : wh'.sent[b] <=> (WithPoster(wh', b) \/ b \in InQueues(wh'))
    BY <1>1, <1>5, <1>11, <2>1, <2>2 DEF Wakes
  <2>4. wh'.sent \in [AllAsyncs -> BOOLEAN]
    <3>1. wh.sent \in [AllAsyncs -> BOOLEAN]
      BY <1>1 DEF Wakes
    <3>2. wh'.sent = [wh.sent EXCEPT ![a] = FALSE]
      BY <1>9
    <3> QED BY <3>1, <3>2
  <2> QED BY <1>1, <1>4, <1>9, <1>10, <2>1, <2>3, <2>4 DEF Wakes
<1>13. Closes(wh')
  <2>1. CASE wh.st[a] = "closing"
    BY <1>1, <1>5, <2>1, <1>9, <1>8, <1>10, <1>11, InsertHead DEF Closes, AllAsyncs
  <2>2. CASE wh.st[a] # "closing"
    BY <1>9, <2>2, <1>1, <1>5, <1>10, <1>11 DEF AllAsyncs, Closes
  <2> QED BY <2>1, <2>2
<1>14. Counts(wh')
  <2>1. Alive(wh') = Alive(wh)
    BY <1>10 DEF Alive
  <2>2. wh'.active_reqs = IF wh'.work = "none" THEN 0 ELSE 1
    <3>1. CASE wh.st[a] # "closing" /\ a = "wq"
      BY <1>1, <1>5, <3>1, <1>9 DEF Closes, Counts
    <3>2. CASE ~(wh.st[a] # "closing" /\ a = "wq")
      BY <1>1, <1>9, <3>2 DEF Counts
    <3> QED BY <3>1, <3>2
  <2> QED BY <1>1, <1>10, <2>1, <2>2 DEF Counts
<1>15. Phases(wh')
  BY <1>1, <1>2, <1>9, <1>10 DEF Phases
<1> QED BY <1>9, <1>12, <1>13, <1>14, <1>15 DEF RunInv

LEMMA EndgameKeeps == ASSUME RunInv, Endgame PROVE RunInv'
<1>1. Wakes(wh) /\ Closes(wh) /\ Counts(wh) /\ Phases(wh) /\ DOMAIN wh = RunFields
  BY DEF RunInv
<1>2. wh.endgames # <<>> /\ wh.pc = "endgames" /\ ~wh.cb
  BY DEF Endgame, At
<1>3. PICK a, t : a = Head(wh.endgames) /\ t = Tail(wh.endgames)
  OBVIOUS
<1>4. t \in Seq(RunAsyncs) /\ a \in In(wh.endgames) /\ In(t) = In(wh.endgames) \ {a} /\ NoDup(t)
  BY <1>1, <1>2, <1>3, TakeHead DEF Closes
<1>5. a \in AllAsyncs /\ wh.st[a] = "closing" /\ ~wh.sent[a] /\ a # "wq"
  BY <1>1, <1>4 DEF Closes, In, AllAsyncs
<1> DEFINE h == [wh EXCEPT !.endgames = Tail(@)]
<1>6. /\ DOMAIN h = RunFields /\ h.endgames = t /\ \A f \in RunFields \ {"endgames"} : h[f] = wh[f]
  BY <1>1, <1>3 DEF RunFields
<1>7. wh' = [h EXCEPT !.st[a] = "closed", !.active = @ - 1, !.cb = TRUE]
  BY <1>3, <1>5 DEF Endgame
<1> HIDE DEF h
<1>8. /\ DOMAIN wh' = RunFields /\ wh'.endgames = t /\ wh'.st = [wh.st EXCEPT ![a] = "closed"]
      /\ wh'.active = wh.active - 1 /\ wh'.cb = TRUE
      /\ wh'.ref = wh.ref /\ wh'.active_reqs = wh.active_reqs /\ wh'.idle = wh.idle
      /\ wh'.timer = wh.timer /\ wh'.work = wh.work /\ wh'.pc = wh.pc
      /\ wh'.alive = wh.alive /\ wh'.sent = wh.sent
      /\ wh'.posting = wh.posting /\ wh'.iocp = wh.iocp
      /\ wh'.pending = wh.pending /\ wh'.walk = wh.walk
  BY <1>6, <1>7 DEF RunFields
<1>9. Wakes(wh')
  BY <1>1, <1>8 DEF Wakes, WithPoster, InQueues
<1>10. \A b \in AllAsyncs : wh'.st[b] = IF b = a THEN "closed" ELSE wh.st[b]
  BY <1>1, <1>8 DEF Closes
<1>11. Closes(wh')
  BY <1>1, <1>8, <1>4, <1>5, <1>10 DEF Closes, AllAsyncs
<1>12. Counts(wh')
  <2> DEFINE n == Cardinality(Alive(wh))
  <2>1. Alive(wh') = Alive(wh) \ {a} /\ a \in Alive(wh)
    BY <1>5, <1>8, <1>10 DEF Alive
  <2>2. n \in Nat /\ IsFiniteSet(Alive(wh))
    BY AliveIsFinite
  <2>3. Cardinality(Alive(wh')) = n - 1
    BY <2>1, <2>2, FS_RemoveElement
  <2> HIDE DEF n
  <2>4. wh.active = n + (IF wh.idle THEN 1 ELSE 0) + (IF wh.timer = "off" THEN 0 ELSE 1)
    BY <1>1 DEF Counts, n
  <2>5. wh'.active = n - 1 + (IF wh'.idle THEN 1 ELSE 0) + (IF wh'.timer = "off" THEN 0 ELSE 1)
    BY <1>8, <2>2, <2>4
  <2> QED BY <1>1, <1>8, <2>3, <2>5 DEF Counts
<1>13. Phases(wh')
  BY <1>1, <1>2, <1>8 DEF Phases
<1> QED BY <1>8, <1>9, <1>11, <1>12, <1>13 DEF RunInv

LEMMA RunNextKeeps == ASSUME RunInv, WinRunNext PROVE RunInv'
<1>1. CASE \/ WorkEnds \/ uv_stop \/ Submitted \/ IdleToggle \/ TimerStart \/ TimePasses
           \/ CallbackEnds
  BY <1>1, UserKeeps
<1>2. CASE \/ \E mode \in {"default", "once", "nowait"} : RunStart(mode)
           \/ RunTimers("timers", "reqs") \/ RunTimers("once", "again")
           \/ WalkEnds \/ Backend \/ TimesOut \/ EndgamesDone \/ RunAgain \/ RunReturns
  BY <1>2, TurnKeeps
<1>3. CASE \E s \in RunSenders, a \in RunAsyncs : uv_async_send(s, a)
  BY <1>3, SendKeeps
<1>4. CASE \E s \in RunSenders \cup {"worker"} : Post(s)
  BY <1>4, PostKeeps DEF Posters
<1>5. CASE WorkWakes \/ Resumes
  BY <1>5, WorkWakesKeeps, ResumesKeeps
<1>6. CASE \E a \in RunAsyncs : uv__async_close(a)
  BY <1>6, RunCloseKeeps
<1>7. CASE TakeReqs \/ uv__process_async_wakeup_req \/ Dequeue \/ Endgame
  BY <1>7, TakeReqsKeeps, WakeupReqKeeps, DequeueKeeps, EndgameKeeps
<1> QED BY <1>1, <1>2, <1>3, <1>4, <1>5, <1>6, <1>7 DEF WinRunNext

-----------------------------------------------------------------------------
(* The wait.                                                               *)

WaitFields == {"st", "clock", "time", "metrics", "asked", "timeout", "timeout_time",
               "user_timeout", "reset_timeout", "repeat", "success", "entry", "idle", "slept"}

WaitTypes(h) ==
  /\ DOMAIN h = WaitFields
  /\ h.st \in {"out", "call", "in", "back", "waited"}
  /\ h.metrics \in BOOLEAN /\ h.reset_timeout \in BOOLEAN /\ h.success \in BOOLEAN
  /\ h.clock \in Nat \ {0} /\ h.time \in Nat /\ h.asked \in {0, 1, 3, WaitMax}
  /\ h.timeout \in 0 .. WaitMax /\ h.timeout_time \in Nat /\ h.user_timeout \in 0 .. WaitMax
  /\ h.repeat \in 0 .. 3 /\ h.entry \in Nat /\ h.idle \in Nat /\ h.slept \in Nat

\* What is left of the wait
Left(h) == h.timeout_time - h.clock
Surplus(n) == IF n = 0 THEN 0 ELSE IF n = 1 THEN 1 ELSE 2

WaitOk(h) ==
  /\ WaitTypes(h)
  /\ h.reset_timeout =>
       h.metrics /\ h.timeout = 0 /\ h.repeat = 0 /\ h.user_timeout = h.asked
  \* before a call
  /\ h.st \in {"call", "in"} =>
       /\ h.repeat = 0 =>
            /\ h.timeout_time = h.clock + h.asked \/ h.timeout_time + 1 = h.clock + h.asked
            /\ h.reset_timeout = h.metrics /\ (~h.metrics => h.timeout = h.asked)
       /\ h.repeat > 0 =>
            /\ ~h.reset_timeout
            /\ h.timeout = Capped(Left(h) + Surplus(h.repeat - 1))
            /\ Left(h) \in 1 .. WaitMax
  \* after it
  /\ h.st = "back" =>
       /\ ~h.reset_timeout /\ (h.timeout = 0 => h.asked = 0)
       /\ h.repeat > 0 => h.timeout > 0
       /\ ~h.success =>
            /\ h.repeat = 0 => Left(h) <= 2 \/ (h.metrics /\ Left(h) <= h.asked)
            /\ h.repeat \in 1 .. 2 => Left(h) <= 3 - h.repeat
            /\ h.repeat = 3 => Left(h) <= 0
            /\ h.asked # WaitMax => h.clock <= h.timeout_time + 4
  /\ h.st = "in" => h.entry = IF h.timeout # 0 /\ h.metrics THEN h.clock ELSE 0
  /\ h.st # "in" => h.entry = 0
  /\ h.idle = IF h.metrics THEN h.slept ELSE 0
  /\ h.st = "waited" /\ ~h.success =>
       /\ h.time >= h.timeout_time \/ h.asked = 0
       /\ h.asked # WaitMax => h.clock <= h.timeout_time + 4

WaitInv == WaitOk(wh)

LEMMA WaitInitInv == WinWaitInit => WaitInv
BY WaitAssumption DEF WinWaitInit, WaitInv, WaitOk, WaitTypes, WaitFields

LEMMA WaitInvSound == WaitInv => WinWaitSound
BY WaitAssumption DEF WaitInv, WinWaitSound, WaitOk, WaitTypes, Left, Capped, Surplus

LEMMA WaitStartKeeps ==
  ASSUME WaitInv, NEW t \in {0, 1, 3, WaitMax}, NEW lag \in 0 .. 1, WaitStart(t, lag) PROVE WaitInv'
<1>1. DOMAIN wh = WaitFields /\ WaitTypes(wh)
  BY DEF WaitInv, WaitOk, WaitTypes
<1>2. /\ DOMAIN wh' = WaitFields /\ wh'.st = "call" /\ wh'.clock = wh.clock + lag
      /\ wh'.time = wh.clock /\ wh'.metrics = wh.metrics /\ wh'.asked = t
      /\ wh'.timeout_time = wh.clock + t /\ wh'.user_timeout = (IF wh.metrics THEN t ELSE 0)
      /\ wh'.timeout = (IF wh.metrics THEN 0 ELSE t) /\ wh'.reset_timeout = wh.metrics
      /\ wh'.repeat = 0 /\ wh'.success = FALSE /\ wh'.entry = wh.entry /\ wh'.idle = wh.idle
      /\ wh'.slept = wh.slept /\ wh.st = "out"
  BY <1>1 DEF WaitStart, WaitFields
<1>3. WaitTypes(wh')
  <2>1. wh'.reset_timeout \in BOOLEAN /\ wh'.success \in BOOLEAN /\ wh'.metrics \in BOOLEAN
    BY <1>1, <1>2, Zenon DEF WaitTypes
  <2>2. /\ wh'.clock \in Nat \ {0} /\ wh'.time \in Nat /\ wh'.asked \in {0, 1, 3, WaitMax}
        /\ wh'.timeout \in 0 .. WaitMax /\ wh'.timeout_time \in Nat
        /\ wh'.user_timeout \in 0 .. WaitMax
    BY <1>1, <1>2, WaitAssumption DEF WaitTypes
  <2> QED BY <1>1, <1>2, <2>1, <2>2 DEF WaitTypes
<1>4. wh'.timeout_time = wh'.clock + wh'.asked \/ wh'.timeout_time + 1 = wh'.clock + wh'.asked
  BY <1>1, <1>2, WaitAssumption DEF WaitTypes
<1> QED BY <1>1, <1>2, <1>3, <1>4 DEF WaitInv, WaitOk, WaitTypes

LEMMA WaitCallKeeps == ASSUME WaitInv, WaitCall PROVE WaitInv'
BY WaitAssumption DEF WaitInv, WaitOk, WaitTypes, WaitCall, WaitFields, Left

\* The time is up, by the system's clock.
TimeUp(took) ==
  wh.timeout # WaitMax /\ \E off \in -2 .. 1 : took = wh.timeout + off /\ (wh.timeout = 0 => off = 0)

\* The system returns after some time.
LEMMA ReturnsKeeps ==
  ASSUME WaitInv, wh.st = "in", NEW took \in Nat, NEW success \in BOOLEAN, Returns(took, success),
         success \/ TimeUp(took)
  PROVE  WaitInv'
<1>1. DOMAIN wh = WaitFields /\ WaitTypes(wh)
  BY DEF WaitInv, WaitOk, WaitTypes
<1> DEFINE h == [wh EXCEPT !.clock = @ + took, !.success = success, !.st = "back",
                           !.slept = IF wh.timeout # 0 THEN @ + took ELSE @]
           g == UpdateIdle(h)
<1>2. wh' = [g EXCEPT !.timeout = IF wh.reset_timeout THEN wh.user_timeout ELSE @,
                      !.reset_timeout = FALSE]
  BY DEF Returns
<1>3. /\ DOMAIN h = WaitFields /\ h.st = "back" /\ h.clock = wh.clock + took
      /\ h.time = wh.time /\ h.metrics = wh.metrics /\ h.asked = wh.asked
      /\ h.timeout_time = wh.timeout_time /\ h.user_timeout = wh.user_timeout
      /\ h.timeout = wh.timeout /\ h.reset_timeout = wh.reset_timeout
      /\ h.repeat = wh.repeat /\ h.success = success /\ h.idle = wh.idle
      /\ h.slept = (IF wh.timeout # 0 THEN wh.slept + took ELSE wh.slept)
      /\ h.entry = wh.entry
  BY <1>1 DEF WaitFields
<1> HIDE DEF h
<1>4. /\ DOMAIN g = WaitFields /\ g.st = "back" /\ g.clock = wh.clock + took
      /\ g.time = wh.time /\ g.metrics = wh.metrics /\ g.asked = wh.asked
      /\ g.timeout_time = wh.timeout_time /\ g.user_timeout = wh.user_timeout
      /\ g.timeout = wh.timeout /\ g.reset_timeout = wh.reset_timeout
      /\ g.repeat = wh.repeat /\ g.success = success
      /\ g.slept = (IF wh.timeout # 0 THEN wh.slept + took ELSE wh.slept)
      /\ g.idle = (IF wh.entry = 0 THEN wh.idle ELSE wh.idle + wh.clock + took - wh.entry)
      /\ g.entry = 0
  BY <1>1, <1>3 DEF WaitTypes, UpdateIdle, WaitFields
<1> HIDE DEF g
<1>5. /\ DOMAIN wh' = WaitFields /\ wh'.st = "back" /\ wh'.clock = wh.clock + took
      /\ wh'.time = wh.time /\ wh'.metrics = wh.metrics /\ wh'.asked = wh.asked
      /\ wh'.timeout_time = wh.timeout_time /\ wh'.user_timeout = wh.user_timeout
      /\ wh'.timeout = (IF wh.reset_timeout THEN wh.user_timeout ELSE wh.timeout)
      /\ wh'.reset_timeout = FALSE
      /\ wh'.repeat = wh.repeat /\ wh'.success = success
      /\ wh'.slept = (IF wh.timeout # 0 THEN wh.slept + took ELSE wh.slept)
      /\ wh'.idle = (IF wh.entry = 0 THEN wh.idle ELSE wh.idle + wh.clock + took - wh.entry)
      /\ wh'.entry = 0
  BY <1>2, <1>4 DEF WaitFields
<1>6. WaitTypes(wh')
  <2>1. wh.entry \in {0, wh.clock}
    BY <1>1 DEF WaitTypes, WaitInv, WaitOk
  <2>2. wh'.idle \in Nat /\ wh'.slept \in Nat /\ wh'.clock \in Nat \ {0}
    BY <1>1, <1>5, <2>1 DEF WaitTypes
  <2>3. wh'.timeout \in 0 .. WaitMax /\ wh'.reset_timeout \in BOOLEAN
    BY <1>1, <1>5 DEF WaitTypes
  <2>4. wh'.success \in BOOLEAN /\ wh'.metrics \in BOOLEAN
    BY <1>1, <1>5, Zenon DEF WaitTypes
  <2>5. /\ wh'.time \in Nat /\ wh'.asked \in {0, 1, 3, WaitMax} /\ wh'.timeout_time \in Nat
        /\ wh'.user_timeout \in 0 .. WaitMax /\ wh'.repeat \in 0 .. 3 /\ wh'.entry \in Nat
    BY <1>1, <1>5 DEF WaitTypes
  <2> QED BY <1>1, <1>5, <2>2, <2>3, <2>4, <2>5 DEF WaitTypes
<1>7. wh'.idle = IF wh'.metrics THEN wh'.slept ELSE 0
  BY <1>1, <1>5 DEF WaitTypes, WaitInv, WaitOk
<1>8. (wh'.timeout = 0 => wh'.asked = 0) /\ (wh'.repeat > 0 => wh'.timeout > 0)
  BY <1>1, <1>5, WaitAssumption DEF WaitTypes, WaitInv, WaitOk, Left, Capped, Surplus
<1>9. ASSUME ~success
      PROVE  /\ wh.repeat = 0 => Left(wh') <= 2 \/ (wh.metrics /\ Left(wh') <= wh.asked)
             /\ wh.repeat \in 1 .. 2 => Left(wh') <= 3 - wh.repeat
             /\ wh.repeat = 3 => Left(wh') <= 0
             /\ wh.asked # WaitMax => wh'.clock <= wh'.timeout_time + 4
  <2>1. PICK off \in -2 .. 1 : took = wh.timeout + off /\ (wh.timeout = 0 => off = 0)
    BY <1>9 DEF TimeUp
  <2>2. CASE wh.repeat = 0
    <3>1. Left(wh) = wh.asked \/ Left(wh) = wh.asked - 1
      BY <1>1, <2>2, WaitAssumption DEF WaitTypes, WaitInv, WaitOk, Left
    <3>2. wh'.timeout_time = wh.timeout_time /\ Left(wh') = Left(wh) - wh.timeout - off
      BY <1>1, <1>5, <2>1, WaitAssumption DEF WaitTypes, Left
    <3>3. wh.metrics => wh.timeout = 0 /\ off = 0
      BY <1>1, <2>1, <2>2 DEF WaitInv, WaitOk
    <3>4. ~wh.metrics => wh.timeout = wh.asked
      BY <1>1, <2>2 DEF WaitInv, WaitOk
    <3>5. Left(wh') <= 2 \/ (wh.metrics /\ Left(wh') <= wh.asked)
      BY <1>1, <2>1, <3>1, <3>2, <3>3, <3>4, WaitAssumption DEF WaitTypes
    <3>6. Left(wh') >= -2
      BY <1>1, <2>1, <3>1, <3>2, <3>3, <3>4, WaitAssumption DEF WaitTypes
    <3>7. wh'.clock <= wh'.timeout_time + 4
      BY <1>1, <1>5, <3>6 DEF WaitTypes, Left
    <3> QED BY <2>2, <3>5, <3>7
  <2>3. CASE wh.repeat # 0
    <3>1. wh.timeout = Left(wh) + Surplus(wh.repeat - 1) /\ wh.timeout # WaitMax
      BY <1>1, <1>9, <2>3, WaitAssumption DEF WaitTypes, WaitInv, WaitOk, Capped, TimeUp
    <3>2. Left(wh') = - Surplus(wh.repeat - 1) - off /\ off \in -2 .. 1
      <4>1. Left(wh) \in Int /\ Surplus(wh.repeat - 1) \in 0 .. 2
        BY <1>1 DEF WaitTypes, Left, Surplus
      <4>2. Left(wh') = Left(wh) - took
        BY <1>1, <1>5 DEF WaitTypes, Left
      <4> QED BY <2>1, <3>1, <4>1, <4>2
    <3>3. wh.repeat \in 1 .. 3 /\ off >= -2
      BY <1>1, <2>3, <3>2 DEF WaitTypes
    <3>4. wh.repeat = 1 => Left(wh') <= 2
      BY <3>2, <3>3 DEF Surplus
    <3>5. wh.repeat = 2 => Left(wh') <= 1
      BY <3>2, <3>3 DEF Surplus
    <3>6. wh.repeat = 3 => Left(wh') <= 0
      BY <3>2, <3>3 DEF Surplus
    <3>7. Left(wh') >= -4
      BY <3>2, <3>3 DEF Surplus
    <3>8. wh'.clock <= wh'.timeout_time + 4
      BY <1>1, <1>5, <3>7 DEF WaitTypes, Left
    <3> QED BY <2>3, <3>3, <3>4, <3>5, <3>6, <3>8
  <2> QED BY <2>2, <2>3
<1> QED BY <1>5, <1>6, <1>7, <1>8, <1>9 DEF WaitInv, WaitOk

LEMMA WaitReturnKeeps == ASSUME WaitInv, WaitSucceeds \/ WaitTimesOut PROVE WaitInv'
<1>1. wh.timeout \in 0 .. WaitMax
  BY DEF WaitInv, WaitOk, WaitTypes
<1>2. CASE WaitSucceeds
  <2>1. PICK took \in 0 .. wh.timeout : took <= 3 /\ Returns(took, TRUE)
    BY <1>2 DEF WaitSucceeds
  <2>2. took \in Nat /\ wh.st = "in"
    BY <1>1, <1>2, <2>1, WaitAssumption DEF WaitSucceeds
  <2>3. Returns(took, TRUE)
    BY <2>1
  <2> QED BY <2>2, <2>3, ReturnsKeeps
<1>3. CASE WaitTimesOut
  <2>1. PICK off \in -2 .. 1 :
          wh.timeout + off >= 0 /\ (wh.timeout = 0 => off = 0) /\ Returns(wh.timeout + off, FALSE)
    BY <1>3 DEF WaitTimesOut
  <2>2. PICK took : took = wh.timeout + off
    OBVIOUS
  <2>3. took \in Nat /\ wh.st = "in" /\ TimeUp(took)
    BY <1>1, <1>3, <2>1, <2>2, WaitAssumption DEF WaitTimesOut, TimeUp
  <2>4. Returns(took, FALSE)
    BY <2>1, <2>2
  <2> QED BY <2>3, <2>4, ReturnsKeeps
<1> QED BY <1>2, <1>3

LEMMA WaitAfterKeeps == ASSUME WaitInv, WaitAfter PROVE WaitInv'
<1>1. DOMAIN wh = WaitFields /\ WaitTypes(wh) /\ wh.st = "back"
  BY DEF WaitInv, WaitOk, WaitTypes, WaitAfter
<1> DEFINE h == IF wh.success \/ wh.timeout > 0 THEN [wh EXCEPT !.time = wh.clock] ELSE wh
           again == ~wh.success /\ wh.timeout > 0 /\ wh.timeout_time > wh.clock
           more == IF wh.repeat = 0 THEN 0 ELSE 2 ^ (wh.repeat - 1)
<1>2. wh' = IF again THEN [h EXCEPT !.st = "call", !.repeat = @ + 1,
                                    !.timeout = Capped(wh.timeout_time - wh.clock + more)]
            ELSE [h EXCEPT !.st = "waited"]
  BY DEF WaitAfter
<1>3. /\ DOMAIN h = WaitFields /\ h.st = "back" /\ h.clock = wh.clock
      /\ h.time = (IF wh.success \/ wh.timeout > 0 THEN wh.clock ELSE wh.time)
      /\ h.metrics = wh.metrics /\ h.asked = wh.asked
      /\ h.timeout_time = wh.timeout_time /\ h.user_timeout = wh.user_timeout
      /\ h.timeout = wh.timeout /\ h.reset_timeout = wh.reset_timeout
      /\ h.repeat = wh.repeat /\ h.success = wh.success /\ h.idle = wh.idle
      /\ h.slept = wh.slept /\ h.entry = wh.entry
  BY <1>1 DEF WaitFields
<1> HIDE DEF h
<1>4. CASE again
  <2>1. wh.repeat \in 0 .. 2 /\ more = Surplus(wh.repeat)
    <3>1. wh.repeat \in 0 .. 2
      BY <1>1, <1>4 DEF WaitInv, WaitOk, WaitTypes, Left
    <3>2. CASE wh.repeat = 0
      BY <3>2 DEF Surplus
    <3>3. CASE wh.repeat = 1
      BY <3>3 DEF Surplus
    <3>4. CASE wh.repeat = 2
      BY <3>4 DEF Surplus
    <3> QED BY <3>1, <3>2, <3>3, <3>4
  <2> HIDE DEF more
  <2>2. /\ DOMAIN wh' = WaitFields /\ wh'.st = "call" /\ wh'.clock = wh.clock
        /\ wh'.time = wh.clock
        /\ wh'.metrics = wh.metrics /\ wh'.asked = wh.asked
        /\ wh'.timeout_time = wh.timeout_time /\ wh'.user_timeout = wh.user_timeout
        /\ wh'.timeout = Capped(Left(wh) + Surplus(wh.repeat))
        /\ wh'.reset_timeout = wh.reset_timeout
        /\ wh'.repeat = wh.repeat + 1 /\ wh'.success = wh.success /\ wh'.idle = wh.idle
        /\ wh'.slept = wh.slept /\ wh'.entry = wh.entry
    BY <1>2, <1>3, <1>4, <2>1 DEF WaitFields, Left
  <2>3. Left(wh) \in 1 .. WaitMax
    BY <1>1, <1>4, WaitAssumption DEF WaitInv, WaitOk, WaitTypes, Left
  <2> QED
    BY <1>1, <1>4, <2>1, <2>2, <2>3, WaitAssumption DEF WaitInv, WaitOk, WaitTypes, Left, Capped, Surplus
<1>5. CASE ~again
  BY <1>2, <1>3, <1>5, <1>1, WaitAssumption DEF WaitFields, WaitInv, WaitOk, WaitTypes
<1> QED BY <1>4, <1>5

LEMMA WaitEndKeeps == ASSUME WaitInv, WaitEnds PROVE WaitInv'
BY WaitAssumption DEF WaitInv, WaitOk, WaitTypes, WaitEnds, WaitFields, Left

LEMMA WaitNextKeeps == ASSUME WaitInv, WinWaitNext PROVE WaitInv'
BY WaitStartKeeps, WaitCallKeeps, WaitReturnKeeps, WaitAfterKeeps, WaitEndKeeps DEF WinWaitNext

-----------------------------------------------------------------------------
(* The watchers of a list.                                                 *)

ListFields == {"head", "next_handle", "walking", "cb", "active", "next", "prev", "owed",
                "called", "order"}

\* The i-th watcher, and those from there on
Nth(q, i) == IF i \in DOMAIN q THEN q[i] ELSE "none"
From(q, i) == {q[j] : j \in {k \in DOMAIN q : k >= i}}

ListTypes(h) ==
  /\ DOMAIN h = ListFields
  /\ h.order \in Seq(LoopWatchers) /\ NoDup(h.order) /\ h.active = In(h.order)
  /\ h.next \in [LoopWatchers -> LoopWatchers \cup {"none"}]
  /\ h.prev \in [LoopWatchers -> LoopWatchers \cup {"none"}]
  /\ h.called \in Seq(LoopWatchers) /\ NoDup(h.called)
  /\ h.walking \in BOOLEAN /\ h.cb \in BOOLEAN /\ (h.cb => h.walking)

\* The pointers are the list.
Linked(h) ==
  /\ h.head = Nth(h.order, 1)
  /\ \A i \in DOMAIN h.order : h.next[h.order[i]] = Nth(h.order, i + 1)
  /\ \A i \in DOMAIN h.order : h.prev[h.order[i]] = Nth(h.order, i - 1)

\* A walk that goes on with the i-th has called none of those to come, and owes no other.
WalksFrom(h, i) ==
  /\ i \in 1 .. Len(h.order) + 1 /\ h.next_handle = Nth(h.order, i)
  /\ h.owed \subseteq From(h.order, i) /\ In(h.called) \cap From(h.order, i) = {}

ListInv == ListTypes(wh) /\ Linked(wh) /\ \E i \in Nat : WalksFrom(wh, i)

LEMMA ListInitInv == WinWatchInit => ListInv
BY EmptyList DEF WinWatchInit, ListFields, ListTypes, Linked, Nth, WalksFrom, From, ListInv

LEMMA ListInvSound == ListInv => WinWatchSound
<1> SUFFICES ASSUME ListInv PROVE WinWatchSound
  OBVIOUS
<1>1. ListTypes(wh) /\ Linked(wh)
  BY DEF ListInv
<1>2. PICK i \in Nat : WalksFrom(wh, i)
  BY DEF ListInv
<1>3. wh.order \in Seq(LoopWatchers) /\ DOMAIN wh.order = 1 .. Len(wh.order) /\ Len(wh.order) \in Nat
  BY <1>1 DEF ListTypes
<1>4. wh.head = IF wh.order = <<>> THEN "none" ELSE Head(wh.order)
  BY <1>1, <1>3 DEF Linked, Nth
<1>5. \A j \in DOMAIN wh.order :
        /\ wh.next[wh.order[j]] = IF j = Len(wh.order) THEN "none" ELSE wh.order[j + 1]
        /\ wh.prev[wh.order[j]] = IF j = 1 THEN "none" ELSE wh.order[j - 1]
  BY SMTT(30), <1>1, <1>3 DEF Linked, Nth
<1>6. IsInjective(wh.called)
  BY <1>1 DEF ListTypes, NoDup, IsInjective
<1>7. CASE i \in DOMAIN wh.order
  <2>1. wh.next_handle \in LoopWatchers /\ wh.next_handle \in wh.active
    BY <1>1, <1>2, <1>3, <1>7 DEF WalksFrom, Nth, ListTypes, In
  <2> QED BY <1>4, <1>5, <1>6, <2>1, WatchersAssumption DEF WinWatchSound
<1>8. CASE i \notin DOMAIN wh.order
  BY <1>2, <1>3, <1>8, <1>4, <1>5, <1>6 DEF WalksFrom, Nth, From, WinWatchSound
<1> QED BY <1>7, <1>8

\* A watcher is put at the head.
LEMMA ListStartKeeps == ASSUME ListInv, NEW h \in LoopWatchers, WatchStart(h) PROVE ListInv'
<1> DEFINE q == wh.order
           r == <<h>> \o q
           old == wh.head
<1>1. ListTypes(wh) /\ Linked(wh) /\ DOMAIN wh = ListFields
  BY DEF ListInv, ListTypes
<1>2. PICK i \in Nat : WalksFrom(wh, i)
  BY DEF ListInv
<1>3. q \in Seq(LoopWatchers) /\ DOMAIN q = 1 .. Len(q) /\ Len(q) \in Nat /\ NoDup(q)
  BY <1>1 DEF ListTypes
<1>4. /\ r \in Seq(LoopWatchers) /\ DOMAIN r = 1 .. Len(q) + 1 /\ Len(r) = Len(q) + 1 /\ r[1] = h
      /\ \A j \in DOMAIN q : r[j + 1] = q[j]
  BY <1>3
<1>5. h \notin In(q) /\ h \notin wh.active
  BY <1>1 DEF WatchStart, ListTypes
<1>6. /\ DOMAIN wh' = ListFields /\ wh'.order = r /\ wh'.head = h
      /\ wh'.active = wh.active \cup {h} /\ wh'.next = [wh.next EXCEPT ![h] = old]
      /\ wh'.prev = IF old = "none" THEN [wh.prev EXCEPT ![h] = "none"]
                    ELSE [[wh.prev EXCEPT ![h] = "none"] EXCEPT ![old] = h]
      /\ wh'.next_handle = wh.next_handle /\ wh'.walking = wh.walking /\ wh'.cb = wh.cb
      /\ wh'.owed = wh.owed /\ wh'.called = wh.called
  <2> DEFINE linked == [wh EXCEPT !.next[h] = old, !.prev[h] = "none", !.head = h,
                                  !.active = @ \cup {h}, !.order = <<h>> \o @]
  <2>1. /\ DOMAIN linked = ListFields /\ linked.order = r /\ linked.head = h
        /\ linked.active = wh.active \cup {h} /\ linked.next = [wh.next EXCEPT ![h] = old]
        /\ linked.prev = [wh.prev EXCEPT ![h] = "none"]
        /\ linked.next_handle = wh.next_handle /\ linked.walking = wh.walking /\ linked.cb = wh.cb
        /\ linked.owed = wh.owed /\ linked.called = wh.called
    BY <1>1 DEF ListFields
  <2>2. wh' = IF old = "none" THEN linked ELSE [linked EXCEPT !.prev[old] = h]
    BY DEF WatchStart
  <2> HIDE DEF linked, r, q
  <2>3. CASE old = "none"
    BY <2>1, <2>2, <2>3
  <2>4. CASE old # "none"
    BY <2>1, <2>2, <2>4 DEF ListFields
  <2> QED BY <2>3, <2>4
<1>7. /\ r \in Seq(LoopWatchers) /\ In(r) = In(q) \cup {h} /\ NoDup(r)
  BY <1>3, <1>5, InsertHead
<1> HIDE DEF r
<1>8. ListTypes(wh')
  BY <1>1, <1>3, <1>6, <1>7 DEF Linked, Nth, ListTypes
<1>9. Linked(wh')
  <2>1. old = Nth(q, 1) /\ 1 \in DOMAIN r
    BY <1>1, <1>3, <1>4 DEF Linked
  <2>2. wh'.head = Nth(r, 1)
    BY <1>4, <1>6, <2>1 DEF Nth
  <2>3. \A j \in DOMAIN r : j = 1 \/ (j - 1 \in DOMAIN q /\ r[j] = q[j - 1])
    BY <1>3, <1>4
  <2>4. \A j \in DOMAIN q : q[j] # h /\ q[j] \in LoopWatchers
    BY <1>3, <1>5 DEF In
  <2>5. ASSUME NEW j \in DOMAIN r PROVE wh'.next[r[j]] = Nth(r, j + 1)
    <3>1. CASE j = 1
      <4>1. wh'.next[r[j]] = old
        BY <1>1, <1>4, <1>6, <3>1 DEF ListTypes
      <4>2. Nth(r, j + 1) = Nth(q, 1)
        BY <1>3, <1>4, <3>1 DEF Nth
      <4> QED BY <2>1, <4>1, <4>2
    <3>2. CASE j # 1
      <4>1. PICK k \in DOMAIN q : j = k + 1 /\ r[j] = q[k]
        BY <1>3, <1>4, <2>3, <3>2
      <4>2. wh'.next[r[j]] = wh.next[q[k]]
        BY <1>1, <1>6, <2>4, <4>1 DEF ListTypes
      <4>3. Nth(r, j + 1) = Nth(q, k + 1)
        BY <1>3, <1>4, <4>1 DEF Nth
      <4> QED BY <1>1, <4>1, <4>2, <4>3 DEF Linked
    <3> QED BY <3>1, <3>2
  <2>6. ASSUME NEW j \in DOMAIN r PROVE wh'.prev[r[j]] = Nth(r, j - 1)
    <3>1. CASE j = 1
      BY <1>1, <1>3, <2>1, <2>4, <1>4, <1>6, <3>1, WatchersAssumption DEF Nth, ListTypes
    <3>2. CASE j # 1
      <4>1. PICK k \in DOMAIN q : j = k + 1 /\ r[j] = q[k]
        BY <1>3, <1>4, <2>3, <3>2
      <4>2. CASE k = 1
        BY <1>3, <2>1, <2>4, <4>1, <4>2, <1>1, <1>6, <1>4, WatchersAssumption DEF Nth, ListTypes
      <4>3. CASE k # 1
        <5>1. q[k] # old /\ q[k] # h /\ q[k] \in LoopWatchers
          BY <1>3, <2>1, <2>4, <4>1, <4>3, WatchersAssumption DEF Nth, NoDup
        <5>2. wh'.prev[r[j]] = wh.prev[q[k]]
          BY <1>1, <1>6, <4>1, <5>1 DEF ListTypes
        <5>3. Nth(r, j - 1) = Nth(q, k - 1)
          <6>1. k - 1 \in DOMAIN q /\ (k - 1) + 1 = j - 1 /\ j - 1 \in DOMAIN r
            BY <1>3, <1>4, <4>1, <4>3
          <6> QED BY <1>4, <6>1 DEF Nth
        <5> QED BY <1>1, <4>1, <5>2, <5>3 DEF Linked
      <4> QED BY <4>2, <4>3
    <3> QED BY <3>1, <3>2
  <2> QED BY <1>6, <2>2, <2>5, <2>6 DEF Linked
<1>10. WalksFrom(wh', i + 1)
  <2>1. From(r, i + 1) = From(q, i)
    <3>1. ASSUME NEW x \in From(q, i) PROVE x \in From(r, i + 1)
      BY <1>3, <1>4 DEF From
    <3>2. ASSUME NEW x \in From(r, i + 1) PROVE x \in From(q, i)
      <4>1. PICK j \in DOMAIN r : j >= i + 1 /\ x = r[j]
        BY DEF From
      <4>2. i >= 1
        BY <1>2 DEF WalksFrom
      <4>3. j - 1 \in DOMAIN q /\ j - 1 >= i /\ x = q[j - 1]
        BY SMTT(30), <1>3, <1>4, <4>1, <4>2
      <4> QED BY <4>3 DEF From
    <3> QED BY <3>1, <3>2
  <2>2. Nth(r, i + 1) = Nth(q, i)
    BY <1>2, <1>3, <1>4 DEF Nth, WalksFrom
  <2> QED BY <1>2, <1>3, <1>4, <1>6, <2>1, <2>2 DEF WalksFrom
<1>11. i + 1 \in Nat
  OBVIOUS
<1> QED BY <1>8, <1>9, <1>10, <1>11 DEF ListInv

\* r is q without x, its k-th
TakenAt(q, r, x, k) ==
  /\ q[k] = x /\ DOMAIN r = 1 .. Len(q) - 1 /\ Len(r) = Len(q) - 1
  /\ \A j \in Nat : Nth(r, j) = IF j < k THEN Nth(q, j) ELSE Nth(q, j + 1)
  /\ \A j \in DOMAIN r : r[j] = IF j < k THEN q[j] ELSE q[j + 1]

\* A watcher is taken out.
LEMMA TakenOut ==
  ASSUME NEW S, NEW q \in Seq(S), NEW x \in In(q), NoDup(q), NEW r, r = Without(q, x)
  PROVE  \E k \in DOMAIN q : TakenAt(q, r, x, k)
<1> DEFINE k == CHOOSE i \in DOMAIN q : q[i] = x
<1>1. k \in DOMAIN q /\ q[k] = x
  BY DEF In
<1>2. r = [j \in 1 .. (Len(q) - 1) |-> IF j < k THEN q[j] ELSE q[j + 1]]
  BY DEF Without, RemoveNode
<1> HIDE DEF k
<1>3. DOMAIN q = 1 .. Len(q) /\ Len(q) \in Nat /\ Len(q) > 0 /\ k \in 1 .. Len(q)
  BY <1>1
<1>4. DOMAIN r = 1 .. Len(q) - 1 /\ Len(r) = Len(q) - 1
  BY <1>2, <1>3, Unlinked
<1>5. \A j \in DOMAIN r : r[j] = IF j < k THEN q[j] ELSE q[j + 1]
  BY <1>2, <1>4
<1>6. ASSUME NEW j \in Nat PROVE Nth(r, j) = IF j < k THEN Nth(q, j) ELSE Nth(q, j + 1)
  BY <1>3, <1>4, <1>5 DEF Nth
<1> QED BY <1>1, <1>4, <1>5, <1>6 DEF TakenAt

LEMMA ListStopKeeps == ASSUME ListInv, NEW h \in LoopWatchers, WatchStop(h) PROVE ListInv'
<1> DEFINE q == wh.order
           next == wh.next[h]
           prev == wh.prev[h]
<1>1. ListTypes(wh) /\ Linked(wh) /\ DOMAIN wh = ListFields
  BY DEF ListInv, ListTypes
<1>2. PICK i \in Nat : WalksFrom(wh, i)
  BY DEF ListInv
<1>3. /\ q \in Seq(LoopWatchers) /\ DOMAIN q = 1 .. Len(q) /\ Len(q) \in Nat /\ NoDup(q)
      /\ h \in In(q) /\ wh.active = In(q)
  BY <1>1 DEF ListTypes, WatchStop
<1>31. PICK r : r = Without(q, h)
  OBVIOUS
<1>4. PICK k \in DOMAIN q : TakenAt(q, r, h, k)
  BY <1>3, <1>31, TakenOut
<1>41. DOMAIN r = 1 .. Len(q) - 1 /\ Len(r) = Len(q) - 1 /\ q[k] = h
  BY <1>4 DEF TakenAt
<1>42. k \in 1 .. Len(q) /\ DOMAIN q = 1 .. Len(q) /\ Len(q) \in Nat
  BY <1>3
<1>43. \A j \in DOMAIN r : r[j] = IF j < k THEN q[j] ELSE q[j + 1]
  BY <1>4 DEF TakenAt
<1>44. \A j \in Nat : Nth(r, j) = IF j < k THEN Nth(q, j) ELSE Nth(q, j + 1)
  BY <1>4 DEF TakenAt
<1>5. r \in Seq(LoopWatchers) /\ In(r) = In(q) \ {h} /\ NoDup(r)
  BY <1>3, <1>31, Unlinked
<1>6. /\ DOMAIN wh' = ListFields /\ wh'.order = r
      /\ wh'.head = (IF wh.head = h THEN next ELSE wh.head)
      /\ wh'.next_handle = (IF wh.next_handle = h THEN next ELSE wh.next_handle)
      /\ wh'.active = wh.active \ {h} /\ wh'.owed = wh.owed \ {h}
      /\ wh'.next = (IF prev = "none" THEN wh.next ELSE [wh.next EXCEPT ![prev] = next])
      /\ wh'.prev = (IF next = "none" THEN wh.prev ELSE [wh.prev EXCEPT ![next] = prev])
      /\ wh'.walking = wh.walking /\ wh'.cb = wh.cb /\ wh'.called = wh.called
  <2> DEFINE g == [wh EXCEPT !.head = IF @ = h THEN next ELSE @,
                             !.next_handle = IF @ = h THEN next ELSE @,
                             !.active = @ \ {h}, !.owed = @ \ {h}, !.order = Without(@, h)]
             f == IF prev = "none" THEN g ELSE [g EXCEPT !.next[prev] = next]
  <2>1. wh' = IF next = "none" THEN f ELSE [f EXCEPT !.prev[next] = prev]
    BY DEF WatchStop
  <2>2. /\ DOMAIN g = ListFields /\ g.order = r
        /\ g.head = (IF wh.head = h THEN next ELSE wh.head)
        /\ g.next_handle = (IF wh.next_handle = h THEN next ELSE wh.next_handle)
        /\ g.active = wh.active \ {h} /\ g.owed = wh.owed \ {h}
        /\ g.next = wh.next /\ g.prev = wh.prev
        /\ g.walking = wh.walking /\ g.cb = wh.cb /\ g.called = wh.called
    BY <1>1, <1>31 DEF ListFields
  <2> HIDE DEF g, q, next, prev
  <2>3. /\ DOMAIN f = ListFields /\ f.order = r
        /\ f.head = (IF wh.head = h THEN next ELSE wh.head)
        /\ f.next_handle = (IF wh.next_handle = h THEN next ELSE wh.next_handle)
        /\ f.active = wh.active \ {h} /\ f.owed = wh.owed \ {h}
        /\ f.next = (IF prev = "none" THEN wh.next ELSE [wh.next EXCEPT ![prev] = next])
        /\ f.prev = wh.prev
        /\ f.walking = wh.walking /\ f.cb = wh.cb /\ f.called = wh.called
    BY <2>2 DEF ListFields
  <2> HIDE DEF f
  <2> QED BY <2>1, <2>3 DEF ListFields
<1>7. /\ next = Nth(q, k + 1) /\ prev = Nth(q, k - 1) /\ k \in 1 .. Len(q)
      /\ wh.head = Nth(q, 1)
  BY <1>1, <1>3, <1>41 DEF Linked
<1> HIDE DEF next, prev
<1>8. \A j \in DOMAIN q : q[j] \in LoopWatchers /\ q[j] # "none" /\ (q[j] = h => j = k)
  BY <1>3, <1>41, WatchersAssumption DEF NoDup
<1>9. ListTypes(wh')
  BY <1>7, <1>8, <1>1, <1>6, <1>5 DEF Nth, ListTypes
<1>10. Linked(wh')
  <2>1. wh'.head = Nth(r, 1)
    <3>1. CASE k = 1
      BY <1>3, <1>41, <1>43, <1>44, <1>7, <3>1, <1>6 DEF Nth
    <3>2. CASE k # 1
      <4>1. 1 \in DOMAIN q /\ 1 < k
        BY <1>3, <1>7, <3>2
      <4>2. wh.head # h /\ Nth(r, 1) = Nth(q, 1)
        BY <1>41, <1>43, <1>44, <1>7, <1>8, <3>2, <4>1 DEF Nth
      <4> QED BY <1>6, <1>7, <4>2
    <3> QED BY <3>1, <3>2
  <2>2. ASSUME NEW j \in DOMAIN r PROVE wh'.next[r[j]] = Nth(r, j + 1)
    <3>0. j \in Nat /\ j >= 1 /\ j < Len(q) /\ j \in DOMAIN q /\ j + 1 \in DOMAIN q
      BY <1>41, <1>42
    <3>1. CASE j = k - 1
      <4>1. r[j] = q[j] /\ prev = q[j] /\ prev # "none" /\ prev \in LoopWatchers
        BY <1>42, <1>43, <1>7, <1>8, <3>0, <3>1 DEF Nth
      <4>2. wh'.next[r[j]] = next
        BY <1>1, <1>6, <4>1 DEF ListTypes
      <4>3. Nth(r, j + 1) = Nth(q, k + 1)
        BY <1>41, <1>43, <1>44, <1>7, <3>1
      <4> QED BY <1>7, <4>2, <4>3
    <3>2. CASE j # k - 1
      <4> DEFINE m == IF j < k THEN j ELSE j + 1
      <4>1. m \in DOMAIN q /\ r[j] = q[m] /\ m # k - 1
        BY <1>42, <1>43, <3>0, <3>2
      <4>2. prev # q[m]
        BY <1>3, <1>7, <1>8, <4>1 DEF Nth, NoDup
      <4>3. wh'.next[r[j]] = wh.next[q[m]]
        BY <1>1, <1>6, <1>8, <4>1, <4>2 DEF ListTypes
      <4>4. Nth(r, j + 1) = Nth(q, m + 1)
        <5>1. CASE j < k
          BY <1>42, <3>0, <3>2, <5>1, <1>44
        <5>2. CASE ~(j < k)
          BY <1>42, <3>0, <5>2, <1>44
        <5> QED BY <5>1, <5>2
      <4> QED BY <1>1, <4>1, <4>3, <4>4 DEF Linked
    <3> QED BY <3>1, <3>2
  <2>3. ASSUME NEW j \in DOMAIN r PROVE wh'.prev[r[j]] = Nth(r, j - 1)
    <3>0. j \in Nat /\ j >= 1 /\ j < Len(q) /\ j \in DOMAIN q /\ j + 1 \in DOMAIN q
      BY <1>41, <1>42
    <3>1. CASE j = k
      <4>1. r[j] = q[k + 1] /\ next = q[k + 1] /\ next # "none" /\ next \in LoopWatchers
        BY <1>42, <1>43, <1>7, <1>8, <3>0, <3>1 DEF Nth
      <4>2. wh'.prev[r[j]] = prev
        BY <1>1, <1>6, <4>1 DEF ListTypes
      <4>3. Nth(r, j - 1) = Nth(q, k - 1)
        BY <1>41, <1>43, <1>44, <1>7, <3>1
      <4> QED BY <1>7, <4>2, <4>3
    <3>2. CASE j # k
      <4> DEFINE m == IF j < k THEN j ELSE j + 1
      <4>1. m \in DOMAIN q /\ r[j] = q[m] /\ m # k + 1
        BY <1>42, <1>43, <3>0, <3>2
      <4>2. next # q[m]
        BY <1>3, <1>7, <1>8, <4>1 DEF Nth, NoDup
      <4>3. wh'.prev[r[j]] = wh.prev[q[m]]
        BY <1>1, <1>6, <1>8, <4>1, <4>2 DEF ListTypes
      <4>4. Nth(r, j - 1) = Nth(q, m - 1)
        <5>1. j - 1 \in Nat /\ (j - 1 < k <=> j < k)
          BY <1>7, <3>0, <3>2
        <5> QED BY <1>41, <1>43, <1>44, <3>0, <5>1
      <4> QED BY <1>1, <4>1, <4>3, <4>4 DEF Linked
    <3> QED BY <3>1, <3>2
  <2> QED BY <1>6, <2>1, <2>2, <2>3 DEF Linked
<1>11. \E m \in Nat : WalksFrom(wh', m)
  <2> DEFINE m == IF i > k THEN i - 1 ELSE i
  <2>1. i \in 1 .. Len(q) + 1 /\ wh.next_handle = Nth(q, i)
    BY <1>2 DEF WalksFrom
  <2>2. m \in Nat /\ m \in 1 .. Len(r) + 1
    <3>1. CASE i > k
      BY <1>3, <1>41, <1>43, <1>44, <1>7, <2>1, <3>1
    <3>2. CASE ~(i > k)
      BY <1>3, <1>41, <1>43, <1>44, <1>7, <2>1, <3>2
    <3> QED BY <3>1, <3>2
  <2>3. wh'.next_handle = Nth(r, m)
    <3>1. CASE i = k
      <4>1. wh.next_handle = h /\ Nth(r, m) = Nth(q, k + 1)
        BY <1>42, <3>1, <2>1, <1>41, <1>44 DEF Nth
      <4> QED BY <1>6, <1>7, <4>1
    <3>2. CASE i # k
      <4>1. wh.next_handle # h
        BY <1>8, <2>1, <3>2, <1>41, <1>43, <1>44 DEF Nth
      <4>2. Nth(r, m) = Nth(q, i)
        <5>1. CASE i > k
          BY <1>7, <5>1, <1>41, <1>43, <1>44
        <5>2. CASE i < k
          BY <1>41, <1>43, <1>44, <1>7, <5>2
        <5> QED BY <1>7, <3>2, <5>1, <5>2
      <4> QED BY <1>6, <2>1, <4>1, <4>2
    <3> QED BY <3>1, <3>2
  <2>4. From(r, m) = From(q, i) \ {h}
    <3>1. ASSUME NEW x \in From(q, i), x # h PROVE x \in From(r, m)
      <4>1. PICK j \in DOMAIN q : j >= i /\ x = q[j]
        BY DEF From
      <4>2. j # k
        BY <1>41, <1>43, <1>44, <3>1, <4>1
      <4> DEFINE l == IF j < k THEN j ELSE j - 1
      <4>3. l \in DOMAIN r /\ l >= m /\ r[l] = x
        <5>1. j \in 1 .. Len(q) /\ k \in 1 .. Len(q) /\ Len(q) \in Nat /\ i \in Nat
          BY <1>3, <1>7, <4>1
        <5>2. CASE j < k
          BY <4>1, <5>1, <5>2, <1>41, <1>43
        <5>3. CASE j > k
          <6>1. l = j - 1 /\ j - 1 \in 1 .. Len(q) - 1 /\ ~(j - 1 < k) /\ (j - 1) + 1 = j
            BY <5>1, <5>3
          <6>2. j - 1 >= m
            BY <4>1, <5>1, <5>3
          <6> QED BY <1>41, <1>43, <1>44, <4>1, <6>1, <6>2
        <5> QED BY <4>2, <5>1, <5>2, <5>3
      <4> QED BY <4>3 DEF From
    <3>2. ASSUME NEW x \in From(r, m) PROVE x \in From(q, i) \ {h}
      <4>1. PICK j \in DOMAIN r : j >= m /\ x = r[j]
        BY DEF From
      <4> DEFINE l == IF j < k THEN j ELSE j + 1
      <4>2. l \in DOMAIN q /\ l >= i /\ x = q[l] /\ l # k
        <5>1. j \in 1 .. Len(q) - 1 /\ k \in 1 .. Len(q) /\ Len(q) \in Nat /\ i \in Nat
          BY <1>3, <1>41, <1>43, <1>44, <1>7, <4>1
        <5>2. CASE j < k
          BY <1>42, <1>43, <4>1, <5>1, <5>2
        <5>3. CASE ~(j < k)
          BY <1>42, <1>43, <4>1, <5>1, <5>3
        <5> QED BY <5>2, <5>3
      <4> QED BY <1>8, <4>2 DEF From
    <3> QED BY <3>1, <3>2
  <2> HIDE DEF m
  <2>5. WalksFrom(wh', m)
    BY <1>2, <1>6, <2>2, <2>3, <2>4 DEF WalksFrom
  <2> QED BY <2>2, <2>5
<1> QED BY <1>9, <1>10, <1>11 DEF ListInv

\* A walk starts, goes on, and ends.
LEMMA ListWalkKeeps ==
  ASSUME ListInv, InvokeStart \/ InvokeNext \/ InvokeReturns \/ InvokeEnds PROVE ListInv'
<1>1. ListTypes(wh) /\ Linked(wh) /\ DOMAIN wh = ListFields
  BY DEF ListInv, ListTypes
<1>2. PICK i \in Nat : WalksFrom(wh, i)
  BY DEF ListInv
<1>3. /\ wh.order \in Seq(LoopWatchers) /\ DOMAIN wh.order = 1 .. Len(wh.order)
      /\ Len(wh.order) \in Nat /\ NoDup(wh.order) /\ In(wh.order) = wh.active
  BY <1>1 DEF ListTypes
<1>4. CASE InvokeStart
  <2>1. /\ DOMAIN wh' = ListFields /\ wh'.order = wh.order /\ wh'.head = wh.head
        /\ wh'.next = wh.next /\ wh'.prev = wh.prev /\ wh'.active = wh.active
        /\ wh'.next_handle = wh.head /\ wh'.walking = TRUE /\ wh'.cb = wh.cb
        /\ wh'.owed = wh.active /\ wh'.called = <<>>
    BY <1>1, <1>4 DEF InvokeStart, ListFields
  <2>2. ListTypes(wh') /\ Linked(wh')
    BY ZenonT(30), <1>1, <2>1, EmptyList DEF ListTypes, Linked
  <2>3. WalksFrom(wh', 1)
    BY <1>3, <1>1, <2>1, EmptyList DEF From, In, WalksFrom, Linked
  <2> QED BY <2>2, <2>3 DEF ListInv
<1>5. CASE InvokeNext
  <2>1. /\ DOMAIN wh' = ListFields /\ wh'.order = wh.order /\ wh'.head = wh.head
        /\ wh'.next = wh.next /\ wh'.prev = wh.prev /\ wh'.active = wh.active
        /\ wh'.next_handle = wh.next[wh.next_handle] /\ wh'.walking = wh.walking /\ wh'.cb = TRUE
        /\ wh'.owed = wh.owed \ {wh.next_handle} /\ wh'.called = Append(wh.called, wh.next_handle)
        /\ wh.walking
    BY <1>1, <1>5 DEF InvokeNext, ListFields
  <2>2. i \in DOMAIN wh.order /\ wh.next_handle = wh.order[i] /\ wh.next_handle \in LoopWatchers
    BY <1>2, <1>3, <1>5 DEF InvokeNext, WalksFrom, Nth
  <2>3. wh.order[i] \notin In(wh.called)
    BY <1>2, <1>3, <2>2 DEF WalksFrom, From
  <2>4. /\ wh'.called \in Seq(LoopWatchers) /\ NoDup(wh'.called)
        /\ In(wh'.called) = In(wh.called) \cup {wh.order[i]}
    BY <1>1, <2>1, <2>2, <2>3, InsertTail DEF ListTypes
  <2>5. ListTypes(wh') /\ Linked(wh')
    BY ZenonT(30), <1>1, <2>1, <2>4 DEF ListTypes, Linked
  <2>6. WalksFrom(wh', i + 1)
    <3>1. wh'.next_handle = Nth(wh.order, i + 1) /\ i + 1 \in 1 .. Len(wh.order) + 1
      BY <1>1, <1>3, <2>1, <2>2 DEF Linked
    <3>2. From(wh.order, i + 1) = From(wh.order, i) \ {wh.order[i]}
      BY <1>3, <2>2 DEF NoDup, From
    <3> QED BY <1>2, <2>1, <2>2, <2>4, <3>1, <3>2 DEF WalksFrom
  <2>7. i + 1 \in Nat
    OBVIOUS
  <2> QED BY <2>5, <2>6, <2>7 DEF ListInv
<1>6. CASE InvokeReturns
  BY <1>1, <1>6, <1>2 DEF InvokeReturns, ListFields, ListInv, ListTypes, Linked, WalksFrom
<1>7. CASE InvokeEnds
  BY <1>1, <1>7, <1>2, EmptyList DEF InvokeEnds, ListFields, ListTypes, Linked, WalksFrom, ListInv
<1> QED BY <1>4, <1>5, <1>6, <1>7

LEMMA ListNextKeeps == ASSUME ListInv, WinWatchNext PROVE ListInv'
BY ListStartKeeps, ListStopKeeps, ListWalkKeeps DEF WinWatchNext

-----------------------------------------------------------------------------
(* Signals.                                                                *)

SignalFields ==
  {"signum", "pending", "posted", "oneshot", "dispatched", "st", "endgame", "cb", "quiet", "sig",
   "left", "due", "told", "flawed"}

SignalTypes(h) ==
  /\ DOMAIN h = SignalFields
  /\ h.signum \in [WinSignals -> 0 .. 2] /\ h.pending \in [WinSignals -> 0 .. 2]
  /\ h.posted \in [WinSignals -> 0 .. 1] /\ h.told \in [WinSignals -> Nat]
  /\ h.st \in [WinSignals -> {"open", "closing", "closed"}]
  /\ h.cb \in WinSignals \cup {"none"} /\ h.sig \in 0 .. 2
  /\ h.left \subseteq WinSignals /\ (h.left # {} => h.sig # 0)

\* A handle, whatever has happened to it: it is of the dispatch under way while it has
\* the signal, has a signal only while it is open, and a one-shot handle that was told
\* is in its callback or stopped.
Waiting(h, g) ==
  /\ g \in h.left => h.signum[g] = h.sig
  /\ h.signum[g] # 0 => h.st[g] = "open"
  /\ g \in h.endgame => h.st[g] = "closing"
  /\ h.posted[g] = 1 => h.pending[g] # 0
  /\ g \in h.oneshot => h.told[g] <= 1
  /\ g \in h.oneshot /\ h.told[g] = 1 => h.cb = g \/ h.signum[g] = 0

\* A handle none of the two flaws has met
Promised(h, g) ==
  g \notin h.flawed =>
    /\ h.pending[g] # 0 => h.posted[g] = 1
    /\ g \in h.due => h.pending[g] # 0 /\ h.pending[g] = h.signum[g]
    /\ h.st[g] = "closing" /\ h.cb # g /\ g \notin h.endgame => h.posted[g] = 1
    /\ g \in h.endgame \/ h.st[g] = "closed" => h.pending[g] = 0

SignalInv == SignalTypes(wh) /\ \A g \in WinSignals : Waiting(wh, g) /\ Promised(wh, g)

LEMMA SignalInitInv == WinSignalInit => SignalInv
BY DEF WinSignalInit, SignalFields, SignalInv, SignalTypes, Waiting, Promised

LEMMA SignalInvSound == SignalInv => WinSignalSound
BY DEF WinSignalSound, SignalInv, SignalTypes, Waiting, Promised

\* A step that is none of a handle's
LEMMA OfAnother ==
  ASSUME NEW h, NEW k, NEW x \in WinSignals, Waiting(h, x), Promised(h, x),
         k.signum[x] = h.signum[x], k.pending[x] = h.pending[x], k.posted[x] = h.posted[x],
         k.told[x] = h.told[x], k.st[x] = h.st[x], x \in k.left => x \in h.left /\ k.sig = h.sig,
         x \in k.endgame <=> x \in h.endgame, x \in k.oneshot => x \in h.oneshot,
         x \in k.due => x \in h.due, x \in h.flawed => x \in k.flawed,
         k.cb = x <=> h.cb = x
  PROVE  Waiting(k, x) /\ Promised(k, x)
BY DEF Waiting, Promised

LEMMA DispatchStartKeeps == ASSUME SignalInv, NEW sig \in 1 .. 2, DispatchStart(sig) PROVE SignalInv'
<1>1. SignalTypes(wh) /\ DOMAIN wh = SignalFields
  BY DEF SignalInv, SignalTypes
<1>2. /\ DOMAIN wh' = SignalFields /\ wh'.sig = sig
      /\ wh'.left = {g \in WinSignals : wh.signum[g] = sig}
      /\ \A f \in SignalFields \ {"sig", "left"} : wh'[f] = wh[f]
  BY <1>1 DEF DispatchStart, SignalFields
<1>3. /\ wh'.signum = wh.signum /\ wh'.pending = wh.pending /\ wh'.posted = wh.posted
      /\ wh'.told = wh.told /\ wh'.st = wh.st /\ wh'.cb = wh.cb /\ wh'.endgame = wh.endgame
      /\ wh'.oneshot = wh.oneshot /\ wh'.due = wh.due /\ wh'.flawed = wh.flawed
  BY <1>2 DEF SignalFields
<1>4. SignalTypes(wh')
  BY <1>1, <1>2, <1>3 DEF SignalTypes
<1>5. ASSUME NEW x \in WinSignals PROVE Waiting(wh', x) /\ Promised(wh', x)
  BY <1>2, <1>3 DEF SignalInv, Waiting, Promised
<1> QED BY <1>4, <1>5 DEF SignalInv

\* uv__signal_dispatch(): the flag of a request, and the request if the flag was not set
LEMMA DispatchKeeps ==
  ASSUME SignalInv, NEW g \in WinSignals, uv__signal_dispatch(g)
  PROVE  SignalInv'
<1>1. SignalTypes(wh) /\ DOMAIN wh = SignalFields
  BY DEF SignalInv, SignalTypes
<1>2. Waiting(wh, g) /\ Promised(wh, g) /\ g \in wh.left /\ wh.sig \in 1 .. 2
      /\ wh.signum[g] = wh.sig
  BY <1>1 DEF SignalInv, uv__signal_dispatch, Waiting, SignalTypes
<1> DEFINE idle == wh.pending[g] = 0
           again == g \in wh.dispatched
           h == [wh EXCEPT !.pending[g] = wh.sig, !.left = @ \ {g}]
<1>3. /\ DOMAIN h = SignalFields /\ h.pending = [wh.pending EXCEPT ![g] = wh.sig]
      /\ h.left = wh.left \ {g} /\ \A f \in SignalFields \ {"pending", "left"} : h[f] = wh[f]
  BY <1>1 DEF SignalFields
<1>4. wh' = IF again THEN [h EXCEPT !.flawed = IF idle THEN @ \cup {g} ELSE @]
            ELSE [h EXCEPT !.posted[g] = IF idle THEN @ + 1 ELSE @, !.due = @ \cup {g},
                           !.dispatched = IF g \in wh.oneshot THEN @ \cup {g} ELSE @]
  BY DEF uv__signal_dispatch
<1> HIDE DEF h
<1>5. /\ DOMAIN wh' = SignalFields /\ wh'.pending = [wh.pending EXCEPT ![g] = wh.sig]
      /\ wh'.left = wh.left \ {g}
      /\ wh'.signum = wh.signum /\ wh'.told = wh.told /\ wh'.st = wh.st /\ wh'.cb = wh.cb
      /\ wh'.sig = wh.sig /\ wh'.endgame = wh.endgame /\ wh'.oneshot = wh.oneshot
      /\ wh'.posted = (IF ~again /\ idle THEN [wh.posted EXCEPT ![g] = @ + 1] ELSE wh.posted)
      /\ wh'.due = (IF again THEN wh.due ELSE wh.due \cup {g})
      /\ wh'.flawed = (IF again /\ idle THEN wh.flawed \cup {g} ELSE wh.flawed)
  <2>1. h.signum = wh.signum /\ h.told = wh.told /\ h.st = wh.st /\ h.cb = wh.cb /\ h.sig = wh.sig
        /\ h.endgame = wh.endgame /\ h.oneshot = wh.oneshot /\ h.posted = wh.posted /\ h.due = wh.due
        /\ h.flawed = wh.flawed
    BY <1>3 DEF SignalFields
  <2>2. CASE again /\ idle
    BY <1>3, <1>4, <2>1, <2>2 DEF SignalFields
  <2>3. CASE again /\ ~idle
    BY <1>3, <1>4, <2>1, <2>3 DEF SignalFields
  <2>4. CASE ~again /\ idle
    BY <1>3, <1>4, <2>1, <2>4 DEF SignalFields
  <2>5. CASE ~again /\ ~idle
    BY <1>1, <1>3, <1>4, <2>1, <2>5 DEF SignalTypes, SignalFields
  <2> QED BY <2>2, <2>3, <2>4, <2>5
<1>6. idle => wh.posted[g] = 0
  BY <1>1, <1>2 DEF Waiting, SignalTypes
<1>7. SignalTypes(wh')
  <2>1. wh'.posted \in [WinSignals -> 0 .. 1]
    BY <1>1, <1>5, <1>6 DEF SignalTypes
  <2> QED BY <1>1, <1>5, <2>1 DEF SignalTypes
<1>8. /\ \A x \in WinSignals : wh'.pending[x] = IF x = g THEN wh.sig ELSE wh.pending[x]
      /\ \A x \in WinSignals : wh'.posted[x] = IF x = g /\ ~again /\ idle THEN 1 ELSE wh.posted[x]
  BY <1>1, <1>5, <1>6 DEF SignalTypes
<1>9. ASSUME NEW x \in WinSignals PROVE Waiting(wh', x) /\ Promised(wh', x)
  <2>1. Waiting(wh, x) /\ Promised(wh, x)
    BY DEF SignalInv
  <2>2. CASE x # g
    <3>1. /\ (x \in wh'.left => x \in wh.left) /\ (x \in wh'.due => x \in wh.due)
          /\ (x \in wh.flawed => x \in wh'.flawed)
      BY <1>5, <2>2
    <3>2. wh'.pending[x] = wh.pending[x] /\ wh'.posted[x] = wh.posted[x]
      BY <1>8, <2>2
    <3> QED BY ZenonT(30), <1>5, <2>1, <3>1, <3>2, OfAnother
  <2>3. CASE x = g
    BY <1>2, <1>5, <1>8, <2>3 DEF Waiting, Promised
  <2> QED BY <2>2, <2>3
<1> QED BY <1>7, <1>9 DEF SignalInv

\* What a handle that is stopped keeps
LEMMA StoppedLeaves ==
  ASSUME SignalTypes(wh), NEW g \in WinSignals, NEW h, h = SignalStopped(wh, g)
  PROVE  /\ DOMAIN h = SignalFields /\ h.signum = [wh.signum EXCEPT ![g] = 0]
         /\ h.due = wh.due \ {g}
         /\ h.pending = wh.pending /\ h.posted = wh.posted /\ h.told = wh.told /\ h.st = wh.st
         /\ h.cb = wh.cb /\ h.quiet = wh.quiet /\ h.sig = wh.sig /\ h.left = wh.left
         /\ h.endgame = wh.endgame /\ h.oneshot = wh.oneshot /\ h.flawed = wh.flawed
BY DEF SignalTypes, SignalStopped, SignalFields

LEMMA SignalStartKeeps ==
  ASSUME SignalInv, NEW g \in WinSignals, NEW sig \in 1 .. 2, NEW oneshot \in BOOLEAN,
         uv__signal_start(g, sig, oneshot)
  PROVE  SignalInv'
<1>1. SignalTypes(wh) /\ wh.st[g] = "open" /\ wh.left = {}
  BY DEF SignalInv, uv__signal_start, SignalUser, Locked
<1>2. PICK h : h = SignalStopped(wh, g)
  OBVIOUS
<1>3. wh' = [h EXCEPT !.signum[g] = sig, !.told[g] = 0,
                      !.oneshot = IF oneshot THEN @ \cup {g} ELSE @]
  BY <1>2 DEF uv__signal_start
<1>4. /\ DOMAIN h = SignalFields /\ h.signum = [wh.signum EXCEPT ![g] = 0]
      /\ h.due = wh.due \ {g}
      /\ h.pending = wh.pending /\ h.posted = wh.posted /\ h.told = wh.told /\ h.st = wh.st
      /\ h.cb = wh.cb /\ h.sig = wh.sig /\ h.left = wh.left
      /\ h.endgame = wh.endgame /\ h.oneshot = wh.oneshot /\ h.flawed = wh.flawed
  BY <1>1, <1>2, StoppedLeaves
<1>5. /\ DOMAIN wh' = SignalFields /\ wh'.signum = [h.signum EXCEPT ![g] = sig]
      /\ wh'.due = wh.due \ {g} /\ wh'.told = [wh.told EXCEPT ![g] = 0]
      /\ wh'.pending = wh.pending /\ wh'.posted = wh.posted /\ wh'.st = wh.st
      /\ wh'.cb = wh.cb /\ wh'.sig = wh.sig /\ wh'.left = wh.left
      /\ wh'.endgame = wh.endgame /\ wh'.flawed = wh.flawed
      /\ wh'.oneshot = (IF oneshot THEN wh.oneshot \cup {g} ELSE wh.oneshot)
  BY <1>3, <1>4 DEF SignalFields
<1>6. SignalTypes(wh')
  BY <1>1, <1>4, <1>5 DEF SignalTypes
<1>7. /\ \A x \in WinSignals : wh'.signum[x] = IF x = g THEN sig ELSE wh.signum[x]
      /\ \A x \in WinSignals : wh'.told[x] = IF x = g THEN 0 ELSE wh.told[x]
  BY <1>1, <1>4, <1>5 DEF SignalTypes
<1>8. ASSUME NEW x \in WinSignals PROVE Waiting(wh', x) /\ Promised(wh', x)
  <2>1. Waiting(wh, x) /\ Promised(wh, x)
    BY DEF SignalInv
  <2>2. CASE x # g
    <3>1. x \in wh'.oneshot => x \in wh.oneshot
      BY <1>5, <2>2
    <3>2. x \in wh'.due => x \in wh.due
      BY <1>5
    <3>3. wh'.signum[x] = wh.signum[x] /\ wh'.told[x] = wh.told[x]
      BY <1>7, <2>2
    <3> QED BY ZenonT(30), <1>5, <2>1, <3>1, <3>2, <3>3, OfAnother
  <2>3. CASE x = g
    BY <1>1, <1>5, <1>7, <2>1, <2>3 DEF Waiting, Promised
  <2> QED BY <2>2, <2>3
<1> QED BY <1>6, <1>8 DEF SignalInv

LEMMA SignalStopKeeps ==
  ASSUME SignalInv, NEW g \in WinSignals, uv_signal_stop(g)
  PROVE  SignalInv'
<1>1. SignalTypes(wh) /\ wh.left = {} /\ wh' = SignalStopped(wh, g)
  BY DEF SignalInv, uv_signal_stop, SignalUser, Locked
<1>2. /\ DOMAIN wh' = SignalFields /\ wh'.signum = [wh.signum EXCEPT ![g] = 0]
      /\ wh'.due = wh.due \ {g} /\ wh'.told = wh.told
      /\ wh'.pending = wh.pending /\ wh'.posted = wh.posted /\ wh'.st = wh.st
      /\ wh'.cb = wh.cb /\ wh'.sig = wh.sig /\ wh'.left = wh.left
      /\ wh'.endgame = wh.endgame /\ wh'.flawed = wh.flawed /\ wh'.oneshot = wh.oneshot
  BY <1>1, StoppedLeaves
<1>3. SignalTypes(wh')
  BY <1>1, <1>2 DEF SignalTypes
<1>4. \A x \in WinSignals : wh'.signum[x] = IF x = g THEN 0 ELSE wh.signum[x]
  BY <1>1, <1>2 DEF SignalTypes
<1>5. ASSUME NEW x \in WinSignals PROVE Waiting(wh', x) /\ Promised(wh', x)
  <2>1. Waiting(wh, x) /\ Promised(wh, x)
    BY DEF SignalInv
  <2>2. CASE x # g
    <3>1. wh'.signum[x] = wh.signum[x] /\ (x \in wh'.due => x \in wh.due)
      BY <1>2, <1>4, <2>2
    <3> QED BY <1>2, <2>1, <3>1, OfAnother
  <2>3. CASE x = g
    BY <1>1, <1>2, <1>4, <2>1, <2>3 DEF Waiting, Promised
  <2> QED BY <2>2, <2>3
<1> QED BY <1>3, <1>5 DEF SignalInv

LEMMA SignalCloseKeeps ==
  ASSUME SignalInv, NEW g \in WinSignals, uv__signal_close(g)
  PROVE  SignalInv'
<1>1. SignalTypes(wh) /\ wh.left = {} /\ wh.st[g] = "open"
  BY DEF SignalInv, uv__signal_close, SignalUser, Locked
<1>2. PICK h : h = SignalStopped(wh, g)
  OBVIOUS
<1>3. wh' = [h EXCEPT !.st[g] = "closing",
                      !.endgame = IF wh.pending[g] = 0 THEN @ \cup {g} ELSE @]
  BY <1>2 DEF uv__signal_close
<1>4. /\ DOMAIN h = SignalFields /\ h.signum = [wh.signum EXCEPT ![g] = 0]
      /\ h.due = wh.due \ {g}
      /\ h.pending = wh.pending /\ h.posted = wh.posted /\ h.told = wh.told /\ h.st = wh.st
      /\ h.cb = wh.cb /\ h.sig = wh.sig /\ h.left = wh.left
      /\ h.endgame = wh.endgame /\ h.oneshot = wh.oneshot /\ h.flawed = wh.flawed
  BY <1>1, <1>2, StoppedLeaves
<1>5. /\ DOMAIN wh' = SignalFields /\ wh'.signum = [wh.signum EXCEPT ![g] = 0]
      /\ wh'.due = wh.due \ {g} /\ wh'.told = wh.told
      /\ wh'.pending = wh.pending /\ wh'.posted = wh.posted
      /\ wh'.st = [wh.st EXCEPT ![g] = "closing"]
      /\ wh'.cb = wh.cb /\ wh'.sig = wh.sig /\ wh'.left = wh.left
      /\ wh'.endgame = (IF wh.pending[g] = 0 THEN wh.endgame \cup {g} ELSE wh.endgame)
      /\ wh'.flawed = wh.flawed /\ wh'.oneshot = wh.oneshot
  BY <1>3, <1>4 DEF SignalFields
<1>6. SignalTypes(wh')
  BY <1>1, <1>5 DEF SignalTypes
<1>7. /\ \A x \in WinSignals : wh'.signum[x] = IF x = g THEN 0 ELSE wh.signum[x]
      /\ \A x \in WinSignals : wh'.st[x] = IF x = g THEN "closing" ELSE wh.st[x]
  BY <1>1, <1>5 DEF SignalTypes
<1>8. ASSUME NEW x \in WinSignals PROVE Waiting(wh', x) /\ Promised(wh', x)
  <2>1. Waiting(wh, x) /\ Promised(wh, x)
    BY DEF SignalInv
  <2>2. CASE x # g
    <3>1. (x \in wh'.endgame <=> x \in wh.endgame) /\ (x \in wh'.due => x \in wh.due)
      BY <1>5, <2>2
    <3>2. wh'.signum[x] = wh.signum[x] /\ wh'.st[x] = wh.st[x]
      BY <1>7, <2>2
    <3> QED BY <1>5, <2>1, <3>1, <3>2, OfAnother
  <2>3. CASE x = g
    BY <1>1, <1>5, <1>7, <2>1, <2>3 DEF Waiting, Promised
  <2> QED BY <2>2, <2>3
<1> QED BY <1>6, <1>8 DEF SignalInv

\* uv__process_signal_req() and what it does after the callback
LEMMA SignalReqKeeps ==
  ASSUME SignalInv, NEW g \in WinSignals, uv__process_signal_req(g)
  PROVE  SignalInv'
<1>1. SignalTypes(wh) /\ DOMAIN wh = SignalFields /\ wh.cb = "none" /\ wh.posted[g] = 1
  BY DEF SignalInv, SignalTypes, uv__process_signal_req
<1> DEFINE tells == wh.pending[g] = wh.signum[g]
<1>2. /\ DOMAIN wh' = SignalFields /\ wh'.signum = wh.signum
      /\ wh'.due = (IF tells THEN wh.due \ {g} ELSE wh.due)
      /\ wh'.told = [wh.told EXCEPT ![g] = IF tells /\ @ < 2 THEN @ + 1 ELSE @]
      /\ wh'.pending = [wh.pending EXCEPT ![g] = 0] /\ wh'.posted = [wh.posted EXCEPT ![g] = @ - 1]
      /\ wh'.st = wh.st /\ wh'.cb = g /\ wh'.sig = wh.sig /\ wh'.left = wh.left
      /\ wh'.endgame = wh.endgame /\ wh'.flawed = wh.flawed /\ wh'.oneshot = wh.oneshot
  BY <1>1 DEF uv__process_signal_req, SignalFields
<1>3. /\ \A x \in WinSignals : wh'.pending[x] = IF x = g THEN 0 ELSE wh.pending[x]
      /\ \A x \in WinSignals : wh'.posted[x] = IF x = g THEN 0 ELSE wh.posted[x]
      /\ \A x \in WinSignals :
           wh'.told[x] = IF x = g /\ tells /\ wh.told[x] < 2 THEN wh.told[x] + 1 ELSE wh.told[x]
  BY <1>1, <1>2 DEF SignalTypes
<1>4. SignalTypes(wh')
  BY <1>1, <1>2 DEF SignalTypes
<1>5. ASSUME NEW x \in WinSignals PROVE Waiting(wh', x) /\ Promised(wh', x)
  <2>1. Waiting(wh, x) /\ Promised(wh, x) /\ wh.told[x] \in Nat
    BY <1>1 DEF SignalInv, SignalTypes
  <2>2. CASE x # g
    <3>1. wh'.cb = x <=> wh.cb = x
      BY <1>1, <1>2, <2>2, SignalsAssumption
    <3>2. /\ wh'.pending[x] = wh.pending[x] /\ wh'.posted[x] = wh.posted[x]
          /\ wh'.told[x] = wh.told[x]
      BY <1>3, <2>2
    <3>3. x \in wh'.due => x \in wh.due
      BY <1>2
    <3> QED BY <1>2, <2>1, <3>1, <3>2, <3>3, OfAnother
  <2>3. CASE x = g
    <3>1. wh.cb # g
      BY <1>1, SignalsAssumption
    <3>2. Waiting(wh', g)
      BY <1>1, <2>1, <2>3, <3>1, <1>2, <1>3 DEF Waiting
    <3>3. Promised(wh', g)
      BY <1>2, <2>1, <2>3, <1>3 DEF Promised
    <3> QED BY <2>3, <3>2, <3>3
  <2> QED BY <2>2, <2>3
<1> QED BY <1>4, <1>5 DEF SignalInv

LEMMA SignalAfterKeeps == ASSUME SignalInv, NEW g \in WinSignals, SignalAfter(g) PROVE SignalInv'
<1>1. SignalTypes(wh) /\ DOMAIN wh = SignalFields /\ wh.cb = g /\ (g \in wh.oneshot => wh.left = {})
  BY DEF SignalInv, SignalTypes, SignalAfter, Locked
<1> DEFINE once == g \in wh.oneshot
           closing == wh.st[g] = "closing"
<1>2. PICK h : h = IF once THEN SignalStopped(wh, g) ELSE wh
  OBVIOUS
<1>3. wh' = IF ~closing THEN [h EXCEPT !.cb = "none", !.quiet = FALSE]
            ELSE [h EXCEPT !.cb = "none", !.quiet = FALSE, !.endgame = @ \cup {g},
                           !.flawed = IF wh.pending[g] # 0 THEN @ \cup {g} ELSE @]
  BY <1>2 DEF SignalAfter
<1>4. /\ DOMAIN h = SignalFields
      /\ h.signum = (IF once THEN [wh.signum EXCEPT ![g] = 0] ELSE wh.signum)
      /\ h.due = (IF once THEN wh.due \ {g} ELSE wh.due)
      /\ h.pending = wh.pending /\ h.posted = wh.posted /\ h.told = wh.told /\ h.st = wh.st
      /\ h.cb = wh.cb /\ h.sig = wh.sig /\ h.left = wh.left
      /\ h.endgame = wh.endgame /\ h.oneshot = wh.oneshot /\ h.flawed = wh.flawed
  <2>1. CASE once
    BY <1>2, <2>1, <1>1, StoppedLeaves
  <2>2. CASE ~once
    BY <1>1, <1>2, <2>2
  <2> QED BY <2>1, <2>2
<1>5. /\ DOMAIN wh' = SignalFields
      /\ wh'.signum = h.signum /\ wh'.due = h.due
      /\ wh'.pending = wh.pending /\ wh'.posted = wh.posted /\ wh'.told = wh.told /\ wh'.st = wh.st
      /\ wh'.cb = "none" /\ wh'.sig = wh.sig /\ wh'.left = wh.left
      /\ wh'.endgame = (IF closing THEN wh.endgame \cup {g} ELSE wh.endgame)
      /\ wh'.flawed = (IF closing /\ wh.pending[g] # 0 THEN wh.flawed \cup {g} ELSE wh.flawed)
      /\ wh'.oneshot = wh.oneshot
  BY <1>3, <1>4 DEF SignalFields
<1>6. SignalTypes(wh')
  BY <1>1, <1>4, <1>5 DEF SignalTypes
<1>7. \A x \in WinSignals : wh'.signum[x] = IF x = g /\ once THEN 0 ELSE wh.signum[x]
  BY <1>1, <1>4, <1>5 DEF SignalTypes
<1>8. ASSUME NEW x \in WinSignals PROVE Waiting(wh', x) /\ Promised(wh', x)
  <2>1. Waiting(wh, x) /\ Promised(wh, x) /\ wh.told[x] \in Nat
    BY <1>1 DEF SignalInv, SignalTypes
  <2>2. CASE x # g
    <3>1. wh'.cb = x <=> wh.cb = x
      BY <1>1, <1>5, <2>2, SignalsAssumption
    <3>2. x \in wh'.due => x \in wh.due
      BY <1>4, <1>5
    <3>3. (x \in wh'.endgame <=> x \in wh.endgame) /\ (x \in wh.flawed => x \in wh'.flawed)
      BY <1>5, <2>2
    <3>4. wh'.signum[x] = wh.signum[x]
      BY <1>7, <2>2
    <3> QED BY <1>5, <2>1, <3>1, <3>2, <3>3, <3>4, OfAnother
  <2>3. CASE x = g
    BY <1>1, <1>5, <1>7, <2>1, <2>3, <1>4 DEF Waiting, Promised
  <2> QED BY <2>2, <2>3
<1> QED BY <1>6, <1>8 DEF SignalInv

LEMMA SignalEndKeeps ==
  ASSUME SignalInv, NEW g \in WinSignals, uv__signal_endgame(g)
  PROVE  SignalInv'
<1>1. SignalTypes(wh) /\ DOMAIN wh = SignalFields /\ wh.cb = "none" /\ g \in wh.endgame
  BY DEF SignalInv, SignalTypes, uv__signal_endgame
<1>2. /\ DOMAIN wh' = SignalFields /\ wh'.signum = wh.signum
      /\ wh'.due = wh.due /\ wh'.told = wh.told
      /\ wh'.pending = wh.pending /\ wh'.posted = wh.posted
      /\ wh'.st = [wh.st EXCEPT ![g] = "closed"] /\ wh'.cb = wh.cb /\ wh'.sig = wh.sig
      /\ wh'.left = wh.left /\ wh'.endgame = wh.endgame \ {g}
      /\ wh'.flawed = wh.flawed /\ wh'.oneshot = wh.oneshot
  BY <1>1 DEF uv__signal_endgame, SignalFields
<1>3. SignalTypes(wh')
  BY <1>1, <1>2 DEF SignalTypes
<1>4. \A x \in WinSignals : wh'.st[x] = IF x = g THEN "closed" ELSE wh.st[x]
  BY <1>1, <1>2 DEF SignalTypes
<1>5. ASSUME NEW x \in WinSignals PROVE Waiting(wh', x) /\ Promised(wh', x)
  <2>1. Waiting(wh, x) /\ Promised(wh, x)
    BY DEF SignalInv
  <2>2. CASE x # g
    <3>1. (x \in wh'.endgame <=> x \in wh.endgame) /\ wh'.st[x] = wh.st[x]
      BY <1>2, <1>4, <2>2
    <3> QED BY <1>2, <2>1, <3>1, OfAnother
  <2>3. CASE x = g
    BY <1>1, <2>1, <2>3, <1>2, <1>4 DEF Waiting, Promised
  <2> QED BY <2>2, <2>3
<1> QED BY <1>3, <1>5 DEF SignalInv

LEMMA SignalNextKeeps == ASSUME SignalInv, WinSignalNext PROVE SignalInv'
BY DispatchStartKeeps, DispatchKeeps, SignalStartKeeps, SignalStopKeeps, SignalCloseKeeps,
   SignalReqKeeps, SignalAfterKeeps, SignalEndKeeps DEF WinSignalNext

-----------------------------------------------------------------------------
(* The table of all loops.                                                 *)

LoopsFields == {"loops", "size", "woken", "ref"}

\* The first n places hold the loops of R, each once, and the others none.
Holds(loops, n, R) ==
  /\ loops \in Seq((1 .. MaxLoops) \cup {"NULL"}) /\ n \in Nat /\ n <= Len(loops)
  /\ \A i \in 1 .. n : loops[i] \in R
  /\ \A l \in R : \E i \in 1 .. n : loops[i] = l
  /\ \A i, j \in 1 .. n : loops[i] = loops[j] => i = j
  /\ \A i \in n + 1 .. Len(loops) : loops[i] = "NULL"
  /\ n = 0 => loops = <<>>

TableInv ==
  /\ DOMAIN wh = LoopsFields
  /\ wh.ref \subseteq 1 .. MaxLoops /\ IsFiniteSet(wh.ref) /\ Cardinality(wh.ref) = wh.size
  /\ Holds(wh.loops, wh.size, wh.ref)
  /\ wh.woken \in {{}, wh.ref}

LEMMA TableHeld ==
  ASSUME NEW loops, NEW n, NEW R, Holds(loops, n, R) PROVE {loops[i] : i \in 1 .. n} = R
BY DEF Holds

\* A place is written.
LEMMA PlaceWritten ==
  ASSUME NEW S, NEW q \in Seq(S), NEW i \in 1 .. Len(q), NEW x \in S, NEW r, r = [q EXCEPT ![i] = x]
  PROVE  /\ r \in Seq(S) /\ Len(r) = Len(q) /\ r[i] = x
         /\ \A k \in 1 .. Len(q) : k # i => r[k] = q[k]
OBVIOUS

\* Two tables, one behind the other, and the first part of one
LEMMA Joined ==
  ASSUME NEW S, NEW q \in Seq(S), NEW s \in Seq(S), NEW r, r = q \o s
  PROVE  /\ r \in Seq(S) /\ Len(r) = Len(q) + Len(s)
         /\ \A i \in 1 .. Len(q) : r[i] = q[i]
         /\ \A i \in Len(q) + 1 .. Len(q) + Len(s) : r[i] = s[i - Len(q)]
OBVIOUS

LEMMA FirstPart ==
  ASSUME NEW S, NEW q \in Seq(S), NEW m \in 0 .. Len(q), NEW r, r = SubSeq(q, 1, m)
  PROVE  r \in Seq(S) /\ Len(r) = m /\ \A i \in 1 .. m : r[i] = q[i]
OBVIOUS

LEMMA TableInitInv == WinLoopsInit => TableInv
BY EmptyList, FS_EmptySet DEF WinLoopsInit, LoopsFields, Holds, TableInv

LEMMA TableInvSound == TableInv => WinLoopsSound
<1> SUFFICES ASSUME TableInv PROVE WinLoopsSound
  OBVIOUS
<1>1. {wh.loops[i] : i \in 1 .. wh.size} = wh.ref
  BY TableHeld DEF TableInv
<1> QED BY <1>1 DEF TableInv, Holds, WinLoopsSound

\* A loop takes the next place, in a larger table if it must.
LEMMA AddKeeps == ASSUME TableInv, NEW l \in 1 .. MaxLoops, uv__loops_add(l) PROVE TableInv'
<1>1. DOMAIN wh = LoopsFields /\ Holds(wh.loops, wh.size, wh.ref) /\ l \notin wh.ref
  BY DEF TableInv, uv__loops_add
<1>2. CASE wh' = [wh EXCEPT !.woken = {}]
  BY <1>1, <1>2 DEF LoopsFields, TableInv
<1>3. CASE wh' = [wh EXCEPT !.loops = [Enlarged(wh) EXCEPT ![wh.size + 1] = l], !.size = @ + 1,
                            !.ref = @ \cup {l}, !.woken = {}]
  <2> DEFINE table == Enlarged(wh)
             n == wh.size
             S == (1 .. MaxLoops) \cup {"NULL"}
  <2>1. /\ table \in Seq(S) /\ n + 1 \in 1 .. Len(table)
        /\ \A i \in 1 .. n : table[i] = wh.loops[i]
        /\ \A i \in n + 1 .. Len(table) : table[i] = "NULL"
    <3>1. wh.loops \in Seq(S) /\ Len(wh.loops) \in Nat /\ n \in Nat /\ n <= Len(wh.loops)
      BY <1>1 DEF Holds
    <3>2. CASE n = Len(wh.loops)
      <4> DEFINE more == [i \in 1 .. ChunkSize |-> "NULL"]
      <4>1. more \in Seq(S) /\ Len(more) = ChunkSize /\ \A i \in 1 .. ChunkSize : more[i] = "NULL"
        BY LoopsAssumption
      <4>2. table = wh.loops \o more
        BY <3>2 DEF Enlarged
      <4> HIDE DEF more, S, table, n
      <4>3. /\ table \in Seq(S) /\ Len(table) = n + ChunkSize
            /\ \A i \in 1 .. n : table[i] = wh.loops[i]
            /\ \A i \in n + 1 .. n + ChunkSize : table[i] = more[i - n]
        <5>1. Len(wh.loops) = n /\ Len(more) = ChunkSize
          BY <3>2, <4>1
        <5>2. /\ table \in Seq(S) /\ Len(table) = Len(wh.loops) + Len(more)
              /\ \A i \in 1 .. Len(wh.loops) : table[i] = wh.loops[i]
              /\ \A i \in Len(wh.loops) + 1 .. Len(wh.loops) + Len(more) :
                   table[i] = more[i - Len(wh.loops)]
          <6>1. PICK a, b, c : a = wh.loops /\ b = more /\ c = table
            OBVIOUS
          <6>2. a \in Seq(S) /\ b \in Seq(S) /\ c = a \o b
            BY <3>1, <4>1, <4>2, <6>1
          <6>3. /\ c \in Seq(S) /\ Len(c) = Len(a) + Len(b)
                /\ \A i \in 1 .. Len(a) : c[i] = a[i]
                /\ \A i \in Len(a) + 1 .. Len(a) + Len(b) : c[i] = b[i - Len(a)]
            BY <6>2, Joined
          <6> QED BY <6>1, <6>3
        <5> QED BY <5>1, <5>2
      <4>4. \A i \in n + 1 .. n + ChunkSize : i - n \in 1 .. ChunkSize
        BY <3>1, LoopsAssumption
      <4> QED BY <3>1, <4>1, <4>3, <4>4, LoopsAssumption
    <3>3. CASE n # Len(wh.loops)
      BY <1>1, <3>1, <3>3 DEF Enlarged, Holds
    <3> QED BY <3>2, <3>3
  <2> DEFINE r == [table EXCEPT ![n + 1] = l]
  <2>2. /\ DOMAIN wh' = LoopsFields /\ wh'.loops = r /\ wh'.size = n + 1
        /\ wh'.ref = wh.ref \cup {l} /\ wh'.woken = {}
    BY <1>1, <1>3 DEF LoopsFields
  <2> HIDE DEF table
  <2>3. n \in Nat /\ DOMAIN table = 1 .. Len(table) /\ Len(table) \in Nat
    BY <1>1, <2>1 DEF Holds
  <2>4. /\ r \in Seq(S) /\ Len(r) = Len(table) /\ r[n + 1] = l
        /\ \A i \in DOMAIN table : i # n + 1 => r[i] = table[i]
    <3>1. l \in S
      OBVIOUS
    <3> HIDE DEF S
    <3>2. n + 1 \in 1 .. Len(table)
      BY <2>1
    <3> QED BY <2>1, <2>3, <3>1, <3>2, PlaceWritten DEF r
  <2> HIDE DEF r, S
  <2>5. Holds(r, n + 1, wh.ref \cup {l})
    <3>1. n + 1 <= Len(r) /\ n + 1 \in Nat /\ n + 1 # 0
      BY <2>1, <2>3, <2>4
    <3>2. \A i \in 1 .. n : r[i] = wh.loops[i] /\ r[i] \in wh.ref
      <4>1. \A i \in 1 .. n : i \in DOMAIN table /\ i # n + 1
        BY <2>1, <2>3
      <4>2. \A i \in 1 .. n : r[i] = wh.loops[i]
        BY <2>1, <2>4, <4>1
      <4>3. \A i \in 1 .. n : wh.loops[i] \in wh.ref
        BY <1>1 DEF Holds
      <4> QED BY <4>2, <4>3
    <3>3. \A i \in (n + 1) + 1 .. Len(r) : r[i] = "NULL"
      BY <2>1, <2>3, <2>4
    <3>4. \A i \in 1 .. n + 1 : i = n + 1 \/ i \in 1 .. n
      BY <2>3
    <3>5. \A i \in 1 .. n + 1 : r[i] \in wh.ref \cup {l}
      BY <2>4, <3>2, <3>4
    <3>6. \A x \in wh.ref \cup {l} : \E i \in 1 .. n + 1 : r[i] = x
      <4>1. n + 1 \in 1 .. n + 1 /\ 1 .. n \subseteq 1 .. n + 1
        BY <2>3
      <4>2. \A x \in wh.ref : \E i \in 1 .. n : r[i] = x
        BY <1>1, <3>2 DEF Holds
      <4> QED BY <2>4, <4>1, <4>2
    <3>7. \A i, j \in 1 .. n + 1 : r[i] = r[j] => i = j
      BY <1>1, <3>2, <2>4, <3>4 DEF Holds
    <3> QED BY <2>4, <3>1, <3>3, <3>5, <3>6, <3>7 DEF Holds, S
  <2>6. IsFiniteSet(wh.ref \cup {l}) /\ Cardinality(wh.ref \cup {l}) = n + 1
    BY <1>1, FS_AddElement DEF TableInv
  <2> QED BY <2>2, <2>5, <2>6 DEF TableInv
<1> QED BY <1>2, <1>3 DEF uv__loops_add

\* The last takes the place of one that is removed.
LEMMA RemoveKeeps == ASSUME TableInv, NEW l \in 1 .. MaxLoops, uv__loops_remove(l) PROVE TableInv'
<1> DEFINE found == {i \in 1 .. wh.size : wh.loops[i] = l}
           h == [wh EXCEPT !.ref = @ \ {l}, !.woken = {}]
           n == wh.size
           S == (1 .. MaxLoops) \cup {"NULL"}
<1>1. /\ DOMAIN wh = LoopsFields /\ Holds(wh.loops, n, wh.ref)
      /\ wh.loops \in Seq(S) /\ n \in Nat /\ n <= Len(wh.loops) /\ Len(wh.loops) \in Nat
      /\ DOMAIN wh.loops = 1 .. Len(wh.loops)
  BY DEF TableInv, Holds
<1>2. /\ DOMAIN h = LoopsFields /\ h.loops = wh.loops /\ h.size = n
      /\ h.ref = wh.ref \ {l} /\ h.woken = {}
  BY <1>1 DEF LoopsFields
<1>3. CASE found = {}
  <2>1. wh' = h
    BY <1>3 DEF uv__loops_remove
  <2>2. l \notin wh.ref
    BY <1>1, <1>3 DEF Holds
  <2>3. wh.ref \ {l} = wh.ref
    BY <2>2
  <2> HIDE DEF h
  <2> QED BY <1>1, <1>2, <2>1, <2>3 DEF TableInv
<1>4. CASE found # {}
  <2>1. PICK i \in found : TRUE
    BY <1>4
  <2>2. i \in 1 .. n /\ wh.loops[i] = l /\ l \in wh.ref
    BY <1>1, <2>1 DEF Holds
  <2>3. \A k \in found : k = i
    BY <1>1, <2>2 DEF Holds
  <2>4. i = CHOOSE k \in found : \A j \in found : k <= j
    BY <2>2, <2>3, <2>1
  <2> DEFINE r == [[wh.loops EXCEPT ![i] = wh.loops[n]] EXCEPT ![n] = "NULL"]
             g == [h EXCEPT !.loops = [[@ EXCEPT ![i] = wh.loops[wh.size]] EXCEPT ![wh.size] = "NULL"],
                            !.size = @ - 1]
  <2>5. \/ wh' = IF g.size = 0 THEN [g EXCEPT !.loops = <<>>] ELSE g
        \/ /\ Shrinks(g.size, Len(g.loops)) /\ g.size # 0
           /\ wh' = [g EXCEPT !.loops = SubSeq(@, 1, Len(@) \div 2)]
    <3> HIDE DEF g, found, h
    <3> QED BY <1>4, <2>4 DEF uv__loops_remove, g, found, h
  <2>6. DOMAIN g = LoopsFields /\ g.loops = r /\ g.size = n - 1 /\ g.ref = wh.ref \ {l} /\ g.woken = {}
    BY <1>2 DEF LoopsFields
  <2> HIDE DEF g
  <2>7. n \in DOMAIN wh.loops /\ wh.loops[n] \in S /\ i \in DOMAIN wh.loops
    BY <1>1, <2>2
  <2>8. /\ r \in Seq(S) /\ Len(r) = Len(wh.loops) /\ r[n] = "NULL"
        /\ i # n => r[i] = wh.loops[n]
        /\ \A k \in DOMAIN wh.loops : k # i /\ k # n => r[k] = wh.loops[k]
    BY <1>1, <2>7
  <2> HIDE DEF r
  <2> DEFINE Unmoved(q) == /\ \A k \in 1 .. n - 1 : q[k] = IF k = i THEN wh.loops[n] ELSE wh.loops[k]
                           /\ \A k \in n .. Len(q) : q[k] = "NULL"
                           /\ q \in Seq(S) /\ n - 1 <= Len(q) /\ (n - 1 = 0 => q = <<>>)
  <2>9. PICK q : q = wh'.loops
    OBVIOUS
  <2>10. /\ DOMAIN wh' = LoopsFields /\ wh'.size = n - 1 /\ wh'.ref = wh.ref \ {l} /\ wh'.woken = {}
         /\ \/ n - 1 = 0 /\ q = <<>>
            \/ n - 1 # 0 /\ q = r
            \/ n - 1 # 0 /\ n - 1 < Len(r) \div 2 /\ q = SubSeq(r, 1, Len(r) \div 2)
    BY <2>6, <2>9, <2>5 DEF LoopsFields, Shrinks
  <2>11. Unmoved(q)
    <3>1. CASE n - 1 = 0 /\ q = <<>>
      BY <1>1, <3>1
    <3>2. CASE n - 1 # 0 /\ q = r
      <4>1. \A k \in 1 .. n - 1 : q[k] = IF k = i THEN wh.loops[n] ELSE wh.loops[k]
        BY <1>1, <2>2, <2>8, <3>2
      <4>2. \A k \in n .. Len(q) : q[k] = "NULL"
        <5>1. \A k \in n + 1 .. Len(q) : k # i /\ k # n /\ k \in DOMAIN wh.loops
          BY <1>1, <2>2, <2>8, <3>2
        <5>2. \A k \in n + 1 .. Len(q) : q[k] = "NULL"
          BY <1>1, <2>8, <3>2, <5>1 DEF Holds
        <5>3. \A k \in n .. Len(q) : k = n \/ k \in n + 1 .. Len(q)
          BY <1>1, <2>8, <3>2
        <5> QED BY <2>8, <3>2, <5>2, <5>3
      <4> QED BY <1>1, <2>8, <3>2, <4>1, <4>2
    <3>3. CASE n - 1 # 0 /\ n - 1 < Len(r) \div 2 /\ q = SubSeq(r, 1, Len(r) \div 2)
      <4> HIDE DEF S
      <4> DEFINE m == Len(r) \div 2
      <4>1. m \in Nat /\ m <= Len(r) /\ n - 1 < m
        <5>1. Len(r) \in Nat
          BY <1>1, <2>8
        <5> QED BY <3>3, <5>1
      <4> HIDE DEF m
      <4>2. q \in Seq(S) /\ Len(q) = m /\ \A k \in 1 .. m : q[k] = r[k]
        <5>1. m \in 0 .. Len(r)
          BY <1>1, <2>8, <4>1
        <5>2. q = SubSeq(r, 1, m)
          BY <3>3 DEF m
        <5> QED BY <2>8, <5>1, <5>2, FirstPart
      <4>3. \A k \in 1 .. n - 1 : q[k] = IF k = i THEN wh.loops[n] ELSE wh.loops[k]
        <5>1. \A k \in 1 .. n - 1 : k # n /\ k \in 1 .. m /\ k \in DOMAIN wh.loops
          BY <1>1, <4>1
        <5>2. \A k \in 1 .. n - 1 : q[k] = r[k]
          BY <4>2, <5>1
        <5> QED BY <2>8, <5>1, <5>2
      <4>4. \A k \in n .. Len(q) : q[k] = "NULL"
        <5>1. \A k \in n + 1 .. Len(q) : k # i /\ k # n /\ k \in DOMAIN wh.loops /\ k \in 1 .. m
          BY <1>1, <2>2, <2>8, <4>1, <4>2
        <5>2. \A k \in n + 1 .. Len(q) : q[k] = "NULL"
          <6>1. \A k \in n + 1 .. Len(wh.loops) : wh.loops[k] = "NULL"
            BY <1>1 DEF Holds
          <6>2. \A k \in n + 1 .. Len(q) : k \in n + 1 .. Len(wh.loops)
            BY <1>1, <2>8, <4>1, <4>2
          <6> QED BY <2>8, <4>2, <5>1, <6>1, <6>2
        <5>3. \A k \in n .. Len(q) : k = n \/ k \in n + 1 .. Len(q)
          BY <1>1, <4>1, <4>2
        <5>4. n \in 1 .. m
          BY <1>1, <2>2, <4>1
        <5> QED BY <2>8, <4>2, <5>2, <5>3, <5>4
      <4> QED BY <1>1, <3>3, <4>1, <4>2, <4>3, <4>4
    <3> QED BY <2>10, <3>1, <3>2, <3>3
  <2>12. Holds(q, n - 1, wh.ref \ {l})
    <3>0. n - 1 \in Nat /\ (n - 1) + 1 = n
      BY <1>1, <2>2
    <3>1. \A k \in 1 .. n - 1 : q[k] = wh.loops[IF k = i THEN n ELSE k] /\ k \in 1 .. n /\ k # n
      BY <1>1, <2>11
    <3>2. n \in 1 .. n
      BY <1>1, <2>2
    <3>3. \A a, b \in 1 .. n : wh.loops[a] = wh.loops[b] => a = b
      BY <1>1 DEF Holds
    <3>4. \A k \in 1 .. n - 1 : q[k] \in wh.ref \ {l}
      BY <1>1, <3>1, <3>2, <2>2, <3>3 DEF Holds
    <3>5. \A x \in wh.ref \ {l} : \E k \in 1 .. n - 1 : q[k] = x
      <4> SUFFICES ASSUME NEW x \in wh.ref \ {l} PROVE \E k \in 1 .. n - 1 : q[k] = x
        OBVIOUS
      <4>1. PICK a \in 1 .. n : wh.loops[a] = x
        BY <1>1 DEF Holds
      <4>2. a # i
        BY <2>2, <4>1
      <4>3. CASE a = n
        <5>1. i \in 1 .. n - 1
          BY <1>1, <2>2, <4>2, <4>3
        <5> QED BY <3>1, <4>1, <4>3, <5>1
      <4>4. CASE a # n
        BY <1>1, <4>1, <4>4, <3>1, <4>2
      <4> QED BY <4>3, <4>4
    <3>6. \A a, b \in 1 .. n - 1 : q[a] = q[b] => a = b
      BY <3>1, <3>2, <3>3
    <3> HIDE DEF S
    <3>7. q \in Seq(S) /\ n - 1 <= Len(q) /\ (n - 1 = 0 => q = <<>>)
      BY <2>11
    <3>8. \A k \in (n - 1) + 1 .. Len(q) : q[k] = "NULL"
      BY <2>11, <3>0
    <3> QED BY <3>0, <3>4, <3>5, <3>6, <3>7, <3>8 DEF Holds, S
  <2>13. IsFiniteSet(wh.ref \ {l}) /\ Cardinality(wh.ref \ {l}) = n - 1
    BY <2>2, FS_RemoveElement DEF TableInv
  <2> QED BY <2>9, <2>10, <2>12, <2>13 DEF TableInv
<1> QED BY <1>3, <1>4

LEMMA TableNextKeeps == ASSUME TableInv, WinLoopsNext PROVE TableInv'
<1>1. CASE uv__wake_all_loops
  BY <1>1, TableHeld DEF uv__wake_all_loops, TableInv, LoopsFields
<1> QED BY <1>1, AddKeeps, RemoveKeeps DEF WinLoopsNext

-----------------------------------------------------------------------------
(* Name resolution.                                                        *)

ResolveFields == {"phase", "kind", "sync", "alloc", "room", "used", "hints", "found", "retcode",
                  "active_reqs", "told", "len", "places", "leaked"}

\* What the system finds
Entries == [addr : 0 .. 5, name : 0 .. 3]
FoundOk(found) == Len(found) \in 1 .. 2 /\ found \in Seq(Entries)

\* The parts of the results are aligned, one behind the other, and in the memory.
Placed(places, len) ==
  \A i \in DOMAIN places : \A k \in 1 .. 3 :
    /\ places[i][k].at % 4 = 0 /\ places[i][k].at + places[i][k].len <= len
    /\ k < 3 => places[i][k].at + places[i][k].len <= places[i][k + 1].at
    /\ i < Len(places) => places[i][3].at + places[i][3].len <= places[i + 1][1].at

ResolveInv ==
  /\ DOMAIN wh = ResolveFields
  /\ wh.used <= wh.room
  /\ wh.phase \in {"new", "refused", "work", "worked", "done"}
  /\ wh.phase # "done" => wh.told = 0 /\ wh.places = <<>> /\ ~wh.leaked
  /\ wh.phase \in {"new", "refused", "done"} => ~wh.alloc /\ wh.active_reqs = 0
  /\ wh.phase \in {"new", "refused"} => wh.retcode # "ECANCELED"
  /\ wh.phase \in {"work", "worked"} =>
       wh.kind \in {"addrinfo", "nameinfo"} /\ wh.active_reqs = 1 /\ (wh.alloc => wh.kind = "addrinfo")
  /\ wh.phase = "work" => wh.retcode = "ok"
  /\ wh.phase \in {"new", "refused", "work"} => wh.found = <<>>
  /\ wh.phase = "worked" =>
       IF wh.kind = "addrinfo" /\ wh.retcode = "ok" THEN FoundOk(wh.found) ELSE wh.found = <<>>
  /\ wh.phase = "done" =>
       /\ wh.told = IF wh.sync THEN 0 ELSE 1
       /\ wh.found # <<>> => wh.leaked
       /\ wh.retcode = "ECANCELED" => wh.places = <<>> /\ ~wh.leaked
       /\ Placed(wh.places, wh.len)

LEMMA ResolveInitInv == WinResolveInit => ResolveInv
BY DEF WinResolveInit, ResolveInv, ResolveFields

LEMMA ResolveInvSound == ResolveInv => WinResolveSound
<1> SUFFICES ASSUME ResolveInv PROVE WinResolveSound
  OBVIOUS
<1>1. Placed(wh.places, wh.len)
  BY DEF Placed, ResolveInv
<1>2. /\ wh.used <= wh.room
      /\ wh.phase \in {"refused", "done"} =>
           ~wh.alloc /\ wh.active_reqs = 0 /\ (wh.found # <<>> => wh.leaked)
      /\ wh.phase = "done" => wh.told = (IF wh.sync THEN 0 ELSE 1)
      /\ wh.retcode = "ECANCELED" => wh.places = <<>> /\ ~wh.leaked
  BY DEF ResolveInv
<1> QED BY <1>1, <1>2 DEF WinResolveSound, Placed

LEMMA AlignedIs ==
  ASSUME NEW n \in Nat
  PROVE  Aligned4(n) \in Nat /\ Aligned4(n) % 4 = 0 /\ Aligned4(n) >= n /\ (n = 0 => Aligned4(n) = 0)
BY DEF Aligned4

LEMMA EntryIs ==
  ASSUME NEW found, FoundOk(found), NEW i \in DOMAIN found
  PROVE  /\ found[i].addr \in Nat /\ found[i].name \in Nat
         /\ EntrySize(found[i]) \in Nat /\ EntrySize(found[i]) % 4 = 0
<1>1. found[i] \in Entries
  BY DEF FoundOk
<1>2. found[i].addr \in Nat /\ found[i].name \in Nat
  BY <1>1 DEF Entries
<1>3. PICK a, b, c : a = Aligned4(AddrStruct) /\ b = Aligned4(found[i].addr) /\ c = Aligned4(found[i].name)
  OBVIOUS
<1>4. a \in Nat /\ a % 4 = 0 /\ b \in Nat /\ b % 4 = 0 /\ c \in Nat /\ c % 4 = 0
  BY <1>2, <1>3, AlignedIs, ResolveAssumption
<1>5. a + b + c \in Nat /\ (a + b + c) % 4 = 0
  BY <1>4
<1> QED BY <1>2, <1>3, <1>5 DEF EntrySize

LEMMA AlignedSum ==
  ASSUME NEW a \in Nat, NEW b \in Nat, a % 4 = 0, b % 4 = 0 PROVE (a + b) % 4 = 0
OBVIOUS

\* Where the results start
LEMMA StartsAre ==
  ASSUME NEW found, FoundOk(found), NEW s, s = Starts(found)
  PROVE  /\ s[0] = 0 /\ s[1] = EntrySize(found[1])
         /\ Len(found) = 2 => s[2] = s[1] + EntrySize(found[2])
<1>1. Len(found) \in 1 .. 2 /\ found \in Seq(Entries) /\ Len(found) \in Nat
  BY DEF FoundOk
<1>11. Len(found) = 1 \/ Len(found) = 2
  BY <1>1
<1> DEFINE T(at) == at = [i \in 0 .. Len(found) |-> IF i = 0 THEN 0 ELSE at[i - 1] + EntrySize(found[i])]
<1>2. s = CHOOSE at : T(at)
  BY DEF Starts
<1>3. \E at : T(at)
  <2>1. PICK a, b : a = EntrySize(found[1]) /\ b = a + EntrySize(found[2])
    OBVIOUS
  <2> DEFINE f == [i \in 0 .. Len(found) |-> IF i = 0 THEN 0 ELSE IF i = 1 THEN a ELSE b]
  <2>2. a = 0 + EntrySize(found[1])
    BY <1>1, <2>1, EntryIs
  <2>3. \A i \in 0 .. Len(found) : i = 0 \/ i = 1 \/ (i = 2 /\ Len(found) = 2)
    <3>1. CASE Len(found) = 1
      BY <3>1
    <3>2. CASE Len(found) = 2
      BY <3>2
    <3> QED BY <1>11, <3>1, <3>2
  <2>4. \A i \in 0 .. Len(found) : f[i] = IF i = 0 THEN 0 ELSE f[i - 1] + EntrySize(found[i])
    <3>1. f[0] = 0 /\ f[1] = a /\ (Len(found) = 2 => f[2] = b)
      BY <1>1
    <3> HIDE DEF f
    <3> QED BY <2>1, <2>2, <2>3, <3>1
  <2>5. T(f)
    BY <2>4
  <2> QED BY <2>5
<1>4. T(s)
  BY <1>2, <1>3
<1>5. \A i \in 0 .. Len(found) : s[i] = IF i = 0 THEN 0 ELSE s[i - 1] + EntrySize(found[i])
  BY <1>4, Zenon
<1>6. s[0] = 0 /\ s[1] = s[0] + EntrySize(found[1])
  BY <1>1, <1>5
<1>7. Len(found) = 2 => s[2] = s[1] + EntrySize(found[2])
  BY <1>1, <1>5
<1>8. EntrySize(found[1]) \in Nat
  BY <1>1, EntryIs
<1> QED BY <1>6, <1>7, <1>8

LEMMA PlacesPlaced ==
  ASSUME NEW found, FoundOk(found) PROVE Placed(PlacesOf(found), SizeOf(found))
<1>1. /\ Len(found) \in 1 .. 2 /\ Len(found) \in Nat /\ DOMAIN found = 1 .. Len(found)
      /\ Len(found) = 1 \/ Len(found) = 2
  BY DEF FoundOk
<1>2. PICK s, p : s = Starts(found) /\ p = PlacesOf(found)
  OBVIOUS
<1>3. /\ s[0] = 0 /\ s[1] = EntrySize(found[1])
      /\ Len(found) = 2 => s[2] = s[1] + EntrySize(found[2])
  BY <1>2, StartsAre
<1>4. \A i \in DOMAIN found : EntrySize(found[i]) \in Nat /\ EntrySize(found[i]) % 4 = 0
  BY EntryIs
<1>5. /\ \A i \in DOMAIN found : i - 1 \in 0 .. 1 /\ s[i] = s[i - 1] + EntrySize(found[i])
      /\ s[0] \in Nat /\ s[0] % 4 = 0 /\ s[1] \in Nat /\ s[1] % 4 = 0
  <2>1. 1 \in DOMAIN found /\ \A i \in DOMAIN found : i = 1 \/ (i = 2 /\ Len(found) = 2)
    BY <1>1
  <2>3. PICK e : e = EntrySize(found[1])
    OBVIOUS
  <2>4. e \in Nat /\ e % 4 = 0 /\ s[0] = 0 /\ s[1] = e
    BY <1>3, <1>4, <2>1, <2>3
  <2>5. s[1] = s[0] + e
    BY <2>4
  <2>2. s[0] \in Nat /\ s[0] % 4 = 0 /\ s[1] \in Nat /\ s[1] % 4 = 0 /\ s[1] = s[0] + EntrySize(found[1])
    BY <2>3, <2>4, <2>5
  <2>6. ASSUME NEW i \in DOMAIN found PROVE i - 1 \in 0 .. 1 /\ s[i] = s[i - 1] + EntrySize(found[i])
    <3>1. CASE i = 1
      BY <3>1, <2>2
    <3>2. CASE i = 2 /\ Len(found) = 2
      BY <3>2, <1>3
    <3> QED BY <2>1, <3>1, <3>2
  <2> QED BY <2>2, <2>6
<1>6. ASSUME NEW i \in DOMAIN found
      PROVE  /\ p[i][1].at = s[i - 1]
             /\ p[i][1].at % 4 = 0 /\ p[i][2].at % 4 = 0 /\ p[i][3].at % 4 = 0
             /\ p[i][1].at + p[i][1].len <= p[i][2].at
             /\ p[i][2].at + p[i][2].len <= p[i][3].at
             /\ p[i][3].at + p[i][3].len <= s[i]
             /\ p[i][1].at + p[i][1].len <= s[i] /\ p[i][2].at + p[i][2].len <= s[i]
             /\ s[i] \in Int /\ p[i][1].at + p[i][1].len \in Int
             /\ p[i][2].at + p[i][2].len \in Int /\ p[i][3].at + p[i][3].len \in Int
  <2>1. PICK st, a, b, c : /\ st = s[i - 1] /\ a = Aligned4(AddrStruct)
                           /\ b = Aligned4(found[i].addr) /\ c = Aligned4(found[i].name)
    OBVIOUS
  <2>2. found[i].addr \in Nat /\ found[i].name \in Nat
    BY EntryIs
  <2>3. /\ a \in Nat /\ a % 4 = 0 /\ a >= AddrStruct /\ b \in Nat /\ b % 4 = 0
        /\ b >= found[i].addr /\ c \in Nat /\ c >= found[i].name
        /\ (found[i].addr = 0 => b = 0)
    BY <2>1, <2>2, AlignedIs, ResolveAssumption
  <2>4. i - 1 = 0 \/ i - 1 = 1
    BY <1>5
  <2>5. st \in Nat /\ st % 4 = 0
    BY <1>5, <2>1, <2>4
  <2>6. s[i] = st + (a + b + c)
    BY <1>5, <2>1 DEF EntrySize
  <2>7. st + a \in Nat /\ (st + a) % 4 = 0
    BY <2>3, <2>5, AlignedSum
  <2>8. st + a + b \in Nat /\ (st + a + b) % 4 = 0
    BY <2>3, <2>7, AlignedSum
  <2>9. st + a + (IF found[i].addr > 0 THEN b ELSE 0) = st + a + b
    BY <2>2, <2>3, <2>5
  <2>10. p[i] = <<[at |-> st, len |-> AddrStruct], [at |-> st + a, len |-> found[i].addr],
                  [at |-> st + a + b, len |-> found[i].name]>>
    BY <1>2, <2>1, <2>9 DEF PlacesOf
  <2>11. s[i] = st + a + b + c
    BY <2>3, <2>5, <2>6
  <2>12. /\ p[i][1].at = st /\ p[i][1].len = AddrStruct
         /\ p[i][2].at = st + a /\ p[i][2].len = found[i].addr
         /\ p[i][3].at = st + a + b /\ p[i][3].len = found[i].name
    BY <2>10
  <2>13. /\ st + AddrStruct <= st + a /\ st + a + found[i].addr <= st + a + b
         /\ st + a + b + found[i].name <= s[i] /\ st + AddrStruct <= s[i]
         /\ st + a + found[i].addr <= s[i]
         /\ s[i] \in Int /\ st + AddrStruct \in Int /\ st + a + found[i].addr \in Int
         /\ st + a + b + found[i].name \in Int
    BY <2>2, <2>3, <2>5, <2>11, ResolveAssumption
  <2> QED BY <2>1, <2>5, <2>7, <2>8, <2>12, <2>13
<1>7. DOMAIN p = DOMAIN found /\ Len(p) = Len(found)
  BY <1>1, <1>2 DEF PlacesOf
<1>8. ASSUME NEW i \in DOMAIN found PROVE s[i] <= s[Len(found)]
  <2>1. CASE i = Len(found)
    <3>1. s[i] \in Nat
      <4>1. s[i] = s[i - 1] + EntrySize(found[i]) /\ s[i - 1] \in Nat
        BY <1>5
      <4> QED BY <1>4, <4>1
    <3> QED BY <2>1, <3>1
  <2>2. CASE i # Len(found)
    BY <1>1, <2>2, <1>3, <1>4, <1>5
  <2> QED BY <2>1, <2>2
<1>9. SizeOf(found) = s[Len(found)]
  BY <1>2 DEF SizeOf
<1>11. ASSUME NEW i \in DOMAIN p, NEW k \in 1 .. 3
       PROVE  /\ p[i][k].at % 4 = 0 /\ p[i][k].at + p[i][k].len <= s[Len(found)]
              /\ k < 3 => p[i][k].at + p[i][k].len <= p[i][k + 1].at
  <2>1. i \in DOMAIN found /\ s[i] <= s[Len(found)] /\ s[Len(found)] \in Int
    BY <1>1, <1>6, <1>7, <1>8
  <2>2. k = 1 \/ k = 2 \/ k = 3
    OBVIOUS
  <2>3. CASE k = 1
    BY <1>6, <2>1, <2>3
  <2>4. CASE k = 2
    BY <1>6, <2>1, <2>4
  <2>5. CASE k = 3
    BY <1>6, <2>1, <2>5
  <2> QED BY <2>2, <2>3, <2>4, <2>5
<1>12. ASSUME NEW i \in DOMAIN p, i < Len(p)
       PROVE  p[i][3].at + p[i][3].len <= p[i + 1][1].at
  BY <1>1, <1>7, <1>12, <1>6
<1> QED BY <1>2, <1>7, <1>9, <1>11, <1>12 DEF Placed

LEMMA ResolveNextKeeps == ASSUME ResolveInv, WinResolveNext PROVE ResolveInv'
<1>1. DOMAIN wh = ResolveFields
  BY DEF ResolveInv
<1>2. ASSUME NEW node \in {0, 1, 2, 4}, NEW service \in {0, 3, 4}, NEW hints \in BOOLEAN,
             NEW sync \in BOOLEAN, uv_getaddrinfo(node, service, hints, sync)
      PROVE  ResolveInv'
  <2> DEFINE room == Aligned4(node) + Aligned4(service) + (IF hints THEN Aligned4(AddrStruct) ELSE 0)
             at == Aligned4(node) + (IF service # 0 THEN Aligned4(service) ELSE 0)
             h == [wh EXCEPT !.kind = "addrinfo", !.sync = sync, !.retcode = "none"]
             used == at + (IF hints THEN AddrStruct ELSE 0)
  <2>1. used <= room
    <3>1. PICK a, b, c : a = Aligned4(node) /\ b = Aligned4(service) /\ c = Aligned4(AddrStruct)
      OBVIOUS
    <3>2. /\ a \in Nat /\ b \in Nat /\ c \in Nat /\ c >= AddrStruct /\ AddrStruct \in Nat
          /\ service = 0 => b = 0
      BY <3>1, AlignedIs, ResolveAssumption
    <3>3. used = a + b + (IF hints THEN AddrStruct ELSE 0)
      BY <3>1, <3>2
    <3>4. room = a + b + (IF hints THEN c ELSE 0)
      BY <3>1
    <3> QED BY <3>2, <3>3, <3>4
  <2>2. \/ wh' = [h EXCEPT !.phase = "refused", !.retcode = "error"]
        \/ wh' = [h EXCEPT !.phase = "work", !.alloc = TRUE, !.room = room, !.retcode = "ok",
                           !.used = used, !.hints = hints, !.active_reqs = @ + 1]
    BY <1>2 DEF uv_getaddrinfo
  <2>3. /\ DOMAIN h = ResolveFields /\ h.phase = wh.phase /\ h.kind = "addrinfo" /\ h.sync = sync
        /\ h.alloc = wh.alloc /\ h.room = wh.room /\ h.used = wh.used /\ h.found = wh.found
        /\ h.retcode = "none" /\ h.active_reqs = wh.active_reqs /\ h.told = wh.told /\ h.len = wh.len
        /\ h.places = wh.places /\ h.leaked = wh.leaked
    BY <1>1 DEF ResolveFields
  <2> HIDE DEF h, used, room
  <2>4. CASE wh' = [h EXCEPT !.phase = "refused", !.retcode = "error"]
    BY <2>3, <2>4, <1>2 DEF ResolveFields, ResolveInv, uv_getaddrinfo
  <2>5. CASE wh' = [h EXCEPT !.phase = "work", !.alloc = TRUE, !.room = room, !.retcode = "ok",
                             !.used = used, !.hints = hints, !.active_reqs = @ + 1]
    BY <2>3, <2>5, <1>2, <2>1 DEF ResolveFields, ResolveInv, uv_getaddrinfo
  <2> QED BY <2>2, <2>4, <2>5
<1>3. ASSUME NEW family \in {"inet", "inet6", "other"}, NEW sync \in BOOLEAN, uv_getnameinfo(family, sync)
      PROVE  ResolveInv'
  BY <1>3, <1>1 DEF uv_getnameinfo, ResolveFields, ResolveInv
<1>4. CASE NameWork
  BY <1>4, <1>1 DEF NameWork, ResolveFields, ResolveInv
<1>5. CASE ResolveWork
  <2> DEFINE h == [wh EXCEPT !.phase = "worked", !.hints = FALSE]
  <2>1. \/ wh' = [h EXCEPT !.retcode = "error"]
        \/ \E addrs \in 1 .. 2, a \in 0 .. 5, c \in 0 .. 3 :
             wh' = [h EXCEPT !.found = [i \in 1 .. addrs |-> [addr |-> a, name |-> IF i = 1 THEN c ELSE 0]]]
    BY <1>5 DEF ResolveWork
  <2>2. /\ DOMAIN h = ResolveFields /\ h.alloc = wh.alloc /\ h.room = wh.room
        /\ h.used = wh.used /\ h.found = wh.found /\ h.told = wh.told /\ h.retcode = wh.retcode
        /\ h.places = wh.places /\ h.leaked = wh.leaked /\ h.phase = "worked"
        /\ h.kind = wh.kind /\ h.active_reqs = wh.active_reqs
    BY <1>1 DEF ResolveFields
  <2> HIDE DEF h
  <2>3. CASE wh' = [h EXCEPT !.retcode = "error"]
    BY <2>2, <2>3, <1>5 DEF ResolveFields, ResolveInv, ResolveWork
  <2>4. ASSUME NEW addrs \in 1 .. 2, NEW a \in 0 .. 5, NEW c \in 0 .. 3,
               wh' = [h EXCEPT !.found = [i \in 1 .. addrs |-> [addr |-> a, name |-> IF i = 1 THEN c ELSE 0]]]
        PROVE  ResolveInv'
    <3>1. PICK f : f = [i \in 1 .. addrs |-> [addr |-> a, name |-> IF i = 1 THEN c ELSE 0]]
      OBVIOUS
    <3>2. FoundOk(f)
      BY <3>1 DEF Entries, FoundOk
    <3>3. wh' = [h EXCEPT !.found = f]
      BY <2>4, <3>1
    <3>4. /\ DOMAIN wh' = ResolveFields /\ wh'.alloc = wh.alloc /\ wh'.room = wh.room
          /\ wh'.used = wh.used /\ wh'.found = f /\ wh'.told = wh.told /\ wh'.retcode = wh.retcode
          /\ wh'.places = wh.places /\ wh'.leaked = wh.leaked /\ wh'.phase = "worked"
          /\ wh'.kind = wh.kind /\ wh'.active_reqs = wh.active_reqs
      BY <2>2, <3>3 DEF ResolveFields
    <3> QED BY <1>5, <3>2, <3>4 DEF ResolveInv, ResolveWork
  <2> QED BY <2>1, <2>3, <2>4
<1>6. CASE ResolveCancelled
  BY <1>1, <1>6 DEF ResolveCancelled, ResolveFields, ResolveInv
<1>7. CASE NameDone
  BY <1>1, <1>7 DEF NameDone, ResolveFields, Placed, ResolveInv
<1>8. CASE ResolveDone
  <2> DEFINE h == [wh EXCEPT !.phase = "done", !.alloc = FALSE, !.active_reqs = @ - 1, !.found = <<>>,
                             !.told = IF wh.sync THEN @ ELSE @ + 1]
  <2>1. /\ DOMAIN h = ResolveFields /\ h.alloc = FALSE /\ h.room = wh.room
        /\ h.used = wh.used /\ h.found = <<>> /\ h.told = (IF wh.sync THEN wh.told ELSE wh.told + 1)
        /\ h.places = wh.places /\ h.leaked = wh.leaked /\ h.phase = "done" /\ h.len = wh.len
        /\ h.retcode = wh.retcode /\ h.active_reqs = wh.active_reqs - 1 /\ h.sync = wh.sync
        /\ wh.phase = "worked" /\ wh.kind = "addrinfo"
    BY <1>1, <1>8 DEF ResolveDone, ResolveFields
  <2>2. \/ wh' = h
        \/ wh.retcode = "ok" /\ wh' = [h EXCEPT !.len = SizeOf(wh.found), !.places = PlacesOf(wh.found)]
        \/ wh' = [h EXCEPT !.retcode = "EAI_MEMORY"]
        \/ wh' = [h EXCEPT !.retcode = "error", !.leaked = TRUE, !.found = wh.found]
    BY <1>8 DEF ResolveDone
  <2> HIDE DEF h
  <2>3. \A l : Placed(<<>>, l)
    BY DEF Placed
  <2>4. CASE wh' = h
    BY <2>1, <2>3, <2>4 DEF ResolveInv
  <2>5. CASE wh.retcode = "ok" /\ wh' = [h EXCEPT !.len = SizeOf(wh.found), !.places = PlacesOf(wh.found)]
    BY <2>1, <2>5, PlacesPlaced DEF ResolveInv, ResolveFields
  <2>6. CASE wh' = [h EXCEPT !.retcode = "EAI_MEMORY"]
    BY <2>1, <2>6, <2>3 DEF ResolveFields, ResolveInv
  <2>7. CASE wh' = [h EXCEPT !.retcode = "error", !.leaked = TRUE, !.found = wh.found]
    BY <2>1, <2>7, <2>3 DEF ResolveFields, ResolveInv
  <2> QED BY <2>2, <2>4, <2>5, <2>6, <2>7
<1> QED BY <1>2, <1>3, <1>4, <1>5, <1>6, <1>7, <1>8 DEF WinResolveNext
=============================================================================
