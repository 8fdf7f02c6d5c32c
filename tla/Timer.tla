------------------------------- MODULE Timer -------------------------------
(***************************************************************************)
(* Timers (libuv/src/timer.c): starting, stopping and repeating them, the  *)
(* pass of uv__run_timers() with callbacks that do any of this, and the    *)
(* time the loop may sleep.                                                *)
(*                                                                         *)
(* The heap is the set of active timers with its least member; module Heap *)
(* shows that heap-inl.h provides just that.  uint64_t is the range        *)
(* 0..Mod-1, so that the overflow of time + timeout happens.               *)
(***************************************************************************)
EXTENDS Integers, FiniteSets

CONSTANTS
  Timers,           \* the uv_timer_t objects of one loop
  Mod,              \* 2^64 in the code
  IntMax,           \* INT_MAX, the longest poll
  Delays,           \* the timeout and repeat values users ask for
  MaxTime,          \* bound: the clock stops here
  MaxStarts,        \* bound: no user start beyond so many
  NoTimer           \* "no timer has fired in this pass"

ASSUME TimerAssumption ==
  /\ Mod \in Nat \ {0} /\ IntMax \in Nat \ {0} /\ MaxTime \in 0..(Mod - 2)
  /\ Delays \subseteq 0..(Mod - 1) /\ MaxStarts \in Nat
  /\ NoTimer \notin Timers

VARIABLES
  time,             \* loop->time
  active,           \* the timers in the heap
  timeout, repeat, start_id,
  timer_counter,    \* loop->timer_counter
  has_cb,           \* timers with timer_cb # NULL
  closing,          \* timers on which uv_close() was called
  phase,            \* "user", "run" (in uv__run_timers()) or "callback"
  asked,            \* history: when the timer should fire, without overflow
  last,             \* history: key of the last timer fired in this pass
  fired             \* history: timers fired in this pass and not since restarted

heapVars == <<active, timeout, repeat, start_id, timer_counter, asked>>
timer_vars == <<time, heapVars, has_cb, closing, phase, last, fired>>

TimerInit ==
  /\ time \in 0..MaxTime
  /\ active = {}
  /\ timeout = [t \in Timers |-> 0]
  /\ repeat = [t \in Timers |-> 0]
  /\ start_id = [t \in Timers |-> 0]
  /\ timer_counter = 0
  /\ has_cb = {} /\ closing = {}
  /\ phase = "user"
  /\ asked = [t \in Timers |-> 0]
  /\ last = NoTimer
  /\ fired = {}

-----------------------------------------------------------------------------
\* Mutant of timer_less_than: ties go to the timer started last.
less_than_last_first(a, b) ==
  \/ timeout[a] < timeout[b]
  \/ timeout[a] = timeout[b] /\ start_id[a] > start_id[b]

timer_less_than(a, b) ==
  \/ timeout[a] < timeout[b]
  \/ timeout[a] = timeout[b] /\ start_id[a] < start_id[b]

\* heap_min()
IsMin(t) == t \in active /\ \A u \in active \ {t} : timer_less_than(t, u)

\* Mutant of Clamp: the overflow check is missing.
ClampNever(d) == (time + d) % Mod

\* loop->time + timeout, or the largest value when that overflows
Clamp(d) ==
  LET sum == (time + d) % Mod
  IN IF sum < d THEN Mod - 1 ELSE sum

\* uv_timer_start() of a timer that may be started: an active timer is
\* stopped first, which only takes its node out of the heap for a moment.
Start(t, d, r) ==
  /\ active' = active \cup {t}
  /\ timeout' = [timeout EXCEPT ![t] = Clamp(d)]
  /\ repeat' = [repeat EXCEPT ![t] = r]
  /\ start_id' = [start_id EXCEPT ![t] = timer_counter]
  /\ timer_counter' = timer_counter + 1
  /\ asked' = [asked EXCEPT ![t] = IF time + d > Mod - 1 THEN Mod - 1 ELSE time + d]

Stop(t) ==
  /\ active' = active \ {t}
  /\ UNCHANGED <<timeout, repeat, start_id, timer_counter, asked>>

-----------------------------------------------------------------------------
(* Calls of the user, between two passes or in a timer callback.  A call   *)
(* that returns UV_EINVAL changes nothing and is no step.                  *)

TimerUser == phase \in {"user", "callback"}

uv_timer_start(t, d, r) ==
  /\ TimerUser /\ t \notin closing /\ timer_counter < MaxStarts
  /\ Start(t, d, r)
  /\ has_cb' = has_cb \cup {t}
  /\ fired' = fired \ {t}
  /\ UNCHANGED <<time, closing, phase, last>>

uv_timer_stop(t) ==
  /\ TimerUser /\ t \in active
  /\ Stop(t)
  /\ UNCHANGED <<time, has_cb, closing, phase, last, fired>>

\* A closing timer cannot be started; it is stopped already.
uv_timer_again(t) ==
  /\ TimerUser /\ t \in has_cb \ closing /\ repeat[t] # 0 /\ timer_counter < MaxStarts
  /\ Start(t, repeat[t], repeat[t])
  /\ fired' = fired \ {t}
  /\ UNCHANGED <<time, has_cb, closing, phase, last>>

uv_timer_set_repeat(t, r) ==
  /\ TimerUser
  /\ repeat' = [repeat EXCEPT ![t] = r]
  /\ UNCHANGED <<time, active, timeout, start_id, timer_counter, asked, has_cb,
                 closing, phase, last, fired>>

\* uv_close() -> uv__timer_close()
uv__timer_close(t) ==
  /\ TimerUser /\ t \notin closing
  /\ Stop(t)
  /\ closing' = closing \cup {t}
  /\ UNCHANGED <<time, has_cb, phase, last, fired>>

\* uv__finish_close() and the next uv_timer_init() of the same memory
uv_timer_init(t) ==
  /\ phase = "user" /\ t \in closing
  /\ closing' = closing \ {t}
  /\ has_cb' = has_cb \ {t}
  /\ timeout' = [timeout EXCEPT ![t] = 0]
  /\ repeat' = [repeat EXCEPT ![t] = 0]
  /\ UNCHANGED <<time, active, start_id, timer_counter, asked, phase, last, fired>>

\* uv__update_time(): by the loop, after a poll, or by a callback that calls
\* uv_update_time().  Timers that became due by it may fire again.
uv__update_time ==
  /\ TimerUser
  /\ \E now \in (time + 1)..MaxTime : time' = now
  /\ fired' = {}
  /\ UNCHANGED <<heapVars, has_cb, closing, phase, last>>

-----------------------------------------------------------------------------
(* uv__run_timers()                                                        *)

RunStart ==
  /\ phase = "user"
  /\ phase' = "run"
  /\ last' = NoTimer
  /\ fired' = {}
  /\ UNCHANGED <<time, heapVars, has_cb, closing>>

\* Mutant of Rearm: the next period is counted from the timeout missed.
RearmFromTimeout(t) ==
  IF repeat[t] # 0
    THEN /\ timeout' = [timeout EXCEPT ![t] = @ + repeat[t]]
         /\ start_id' = [start_id EXCEPT ![t] = timer_counter]
         /\ timer_counter' = timer_counter + 1
         /\ asked' = [asked EXCEPT ![t] = @ + repeat[t]]
         /\ UNCHANGED <<active, repeat>>
    ELSE Stop(t)

\* uv_timer_stop(), then uv_timer_again()
Rearm(t) == IF repeat[t] # 0 THEN Start(t, repeat[t], repeat[t]) ELSE Stop(t)

\* One turn: the earliest timer, if it is due, is stopped, started again when
\* it repeats, and only then called.
FireNext(t) ==
  /\ phase = "run"
  /\ IsMin(t) /\ timeout[t] <= time
  /\ Rearm(t)
  /\ phase' = "callback"
  /\ last' = <<timeout[t], start_id[t]>>
  /\ fired' = fired \cup {t}
  /\ UNCHANGED <<time, has_cb, closing>>

TimerReturn ==
  /\ phase = "callback"
  /\ phase' = "run"
  /\ UNCHANGED <<time, heapVars, has_cb, closing, last, fired>>

RunEnd ==
  /\ phase = "run"
  /\ \A t \in active : timeout[t] > time
  /\ phase' = "user"
  /\ last' = NoTimer
  /\ fired' = {}
  /\ UNCHANGED <<time, heapVars, has_cb, closing>>

\* Mutant of uv__next_timeout: a timer overdue is not told from one to come.
next_timeout_wraps ==
  IF active = {} THEN -1
  ELSE LET t == CHOOSE u \in active : IsMin(u)
           diff == (timeout[t] - time) % Mod
       IN IF diff > IntMax THEN IntMax ELSE diff

\* uv__next_timeout(): how long the poll may block; -1 is for ever.
uv__next_timeout ==
  IF active = {} THEN -1
  ELSE LET t == CHOOSE u \in active : IsMin(u)
           diff == timeout[t] - time
       IN IF timeout[t] <= time THEN 0 ELSE IF diff > IntMax THEN IntMax ELSE diff

-----------------------------------------------------------------------------
TimerNext ==
  \/ \E t \in Timers :
       \/ \E d, r \in Delays : uv_timer_start(t, d, r)
       \/ uv_timer_stop(t) \/ uv_timer_again(t) \/ uv__timer_close(t)
       \/ uv_timer_init(t) \/ FireNext(t)
       \/ \E r \in Delays : uv_timer_set_repeat(t, r)
  \/ uv__update_time \/ RunStart \/ TimerReturn \/ RunEnd

TimerSpec == TimerInit /\ [][TimerNext]_timer_vars

-----------------------------------------------------------------------------
(* Properties.                                                             *)

Key == (0..(Mod - 1)) \X Nat

TimerTypeOK ==
  /\ time \in 0..MaxTime
  /\ active \subseteq Timers
  /\ timeout \in [Timers -> 0..(Mod - 1)]
  /\ repeat \in [Timers -> Delays \cup {0}]
  /\ start_id \in [Timers -> Nat] /\ timer_counter \in Nat
  /\ has_cb \subseteq Timers /\ closing \subseteq Timers
  /\ phase \in {"user", "run", "callback"}
  /\ asked \in [Timers -> 0..(Mod - 1)]
  /\ last \in Key \cup {NoTimer}
  /\ fired \subseteq Timers

\* No timer fires before its time, not even when time + timeout overflows.
NeverEarly == [][\A t \in Timers : FireNext(t) => time >= asked[t]]_timer_vars

\* Within one pass timers fire in the order of their timeouts, and those of
\* one timeout in the order they were started, whatever the callbacks start,
\* stop or repeat in between.
KeyLess(k, l) == k[1] < l[1] \/ (k[1] = l[1] /\ k[2] < l[2])

PassOrdered ==
  [][\A t \in Timers :
       FireNext(t) /\ last # NoTimer => KeyLess(last, <<timeout[t], start_id[t]>>)]_timer_vars

\* A timer, repeating or not, fires once in a pass, however many periods were missed,
\* unless a callback restarts it or moves the clock.
OncePerPass == [][\A t \in Timers : FireNext(t) => t \notin fired]_timer_vars

\* The poll may block as long as uv__next_timeout() says without any timer
\* becoming overdue by it, and does not block when a timer is due already.
NextTimeoutSafe ==
  LET n == uv__next_timeout
  IN /\ n = -1 <=> active = {}
     /\ n # -1 => \A t \in active : timeout[t] >= time + n \/ n = 0
     /\ n = 0 => \E t \in active : timeout[t] <= time

\* A closing timer is not in the heap: it can neither fire nor hold the poll.
ClosingIsStopped == active \cap closing = {}
=============================================================================
