----------------------------- MODULE PollTimeout -----------------------------
(***************************************************************************)
(* How long uv__io_poll() waits (unix/epoll.c): the arithmetic on timeout, *)
(* real_timeout and base around epoll_wait(), the detour of the idle time  *)
(* metrics, and the number of batches of one poll.  What a batch does to   *)
(* the watchers is module Poll.  A kernel that answers ENOSYS is asked     *)
(* again with the other system call and the same timeout: not modelled.    *)
(***************************************************************************)
EXTENDS Integers

CONSTANTS
  MaxClock,          \* bound: the clock
  Timeouts,          \* the limits uv__io_poll() is called with, besides none (-1)
  MaxLag,            \* bound: how far callbacks let the clock run from loop->time
  Coarse,            \* granularity of the clock behind loop->time
  max_safe_timeout,  \* the longest sleep asked of the kernel, 1789569 on 32 bits
  MaxCount,          \* batches of one poll, 48
  IntSpan            \* 2^31: an int is in -IntSpan..(IntSpan - 1)

ASSUME PollTimeoutAssumption ==
  /\ MaxClock \in Nat /\ Timeouts \subseteq 0..(IntSpan - 1)
  /\ MaxLag \in Nat /\ Coarse \in Nat
  /\ max_safe_timeout \in Nat \ {0} /\ MaxCount \in Nat \ {0} /\ IntSpan \in Nat \ {0}

VARIABLES
  clock,                        \* the time of day
  loop_time,                    \* loop->time
  wait_pc,                      \* "out" of uv__io_poll() or in the "wait"
  wait_timeout, real_timeout, base, count,  \* locals of uv__io_poll()
  reset_timeout, user_timeout,
  wait_asked, entered,          \* history: the argument and the time of the call
  called,                       \* history: a callback was called
  laps,                         \* history: trips through update_timeout, 2 for more
  batches                       \* history: batches dispatched

locals == <<real_timeout, base, count, reset_timeout, user_timeout>>
call == <<wait_asked, entered>>
wait_vars == <<clock, loop_time, wait_pc, wait_timeout, locals, call, called, laps, batches>>

WaitInit ==
  /\ clock = 0 /\ loop_time = 0 /\ wait_pc = "out"
  /\ wait_timeout = 0 /\ real_timeout = 0 /\ base = 0 /\ count = 0
  /\ reset_timeout = 0 /\ user_timeout = 0
  /\ wait_asked = 0 /\ entered = 0 /\ called = 0 /\ laps = 0 /\ batches = 0

\* The value of an int after an assignment of x to it
ToInt(x) == ((x + IntSpan) % (2 * IntSpan)) - IntSpan

\* uv__update_time() d later; loop->time may be behind by the granularity.
Later(d) ==
  /\ clock + d <= MaxClock
  /\ clock' = clock + d
  /\ \E k \in 0..Coarse : loop_time' = IF clock + d - k > loop_time THEN clock + d - k ELSE loop_time

\* lag: what callbacks took since loop->time was read
PollCall(t, metrics, lag) ==
  /\ wait_pc = "out" /\ clock + lag <= MaxClock
  /\ clock' = clock + lag /\ loop_time' = loop_time
  /\ wait_pc' = "wait"
  /\ base' = loop_time /\ count' = MaxCount /\ real_timeout' = t
  /\ reset_timeout' = metrics
  /\ user_timeout' = IF metrics = 1 THEN t ELSE 0
  /\ wait_timeout' = IF metrics = 1 THEN 0 ELSE t
  /\ wait_asked' = t /\ entered' = clock + lag
  /\ called' = 0 /\ laps' = 0 /\ batches' = 0

\* The timeout in force once the metrics had their look without blocking
Restored == IF reset_timeout = 1 THEN user_timeout ELSE wait_timeout

Return == wait_pc' = "out" /\ UNCHANGED <<wait_timeout, real_timeout>>

Lap == laps' = IF laps = 0 THEN 1 ELSE 2

\* Mutant of update_timeout: every round waits the whole timeout.
update_timeout_not ==
  /\ Lap
  /\ real_timeout' = real_timeout
  /\ wait_timeout' = real_timeout /\ wait_pc' = wait_pc

\* the label update_timeout
update_timeout ==
  /\ Lap
  /\ real_timeout' = ToInt(real_timeout - (loop_time' - base))
  /\ IF real_timeout' <= 0 THEN wait_pc' = "out" /\ UNCHANGED wait_timeout
     ELSE wait_timeout' = real_timeout' /\ wait_pc' = wait_pc

\* No callback was called: wait on, give up or wait for the rest.
Retry(t) ==
  /\ reset_timeout' = 0
  /\ \/ t = -1 /\ wait_timeout' = -1 /\ wait_pc' = wait_pc /\ UNCHANGED <<real_timeout, laps>>
     \/ t = 0 /\ Return /\ UNCHANGED laps
     \/ t > 0 /\ update_timeout
  /\ UNCHANGED <<base, count, user_timeout, call, called>>

Sleep == IF wait_timeout > max_safe_timeout THEN max_safe_timeout ELSE wait_timeout

\* epoll_wait() returns 0: the time is up.
TimedOut(d) ==
  /\ wait_pc = "wait" /\ wait_timeout # -1 /\ d >= Sleep
  /\ Later(d)
  /\ Retry(Restored)
  /\ UNCHANGED batches

\* EINTR, or a batch of events that are all stale or unwanted: nevents is 0.
Interrupted(d) ==
  /\ wait_pc = "wait"
  /\ Later(d)
  /\ Retry(Restored)
  /\ UNCHANGED batches

\* --count != 0
More == count - 1 # 0

\* A batch that filled the array and called callbacks: poll on, do not block.
FullBatch(d) ==
  /\ wait_pc = "wait"
  /\ Later(d)
  /\ called' = 1 /\ batches' = batches + 1
  /\ reset_timeout' = 0
  /\ count' = count - 1
  /\ \/ More /\ wait_timeout' = 0 /\ UNCHANGED <<wait_pc, real_timeout>>
     \/ ~More /\ Return
  /\ UNCHANGED <<base, user_timeout, call, laps>>

\* A batch with room left, or one with signals: uv__io_poll() returns.
LastBatch(d) ==
  /\ wait_pc = "wait"
  /\ Later(d)
  /\ called' = 1 /\ batches' = batches + 1
  /\ reset_timeout' = 0
  /\ Return
  /\ UNCHANGED <<base, count, user_timeout, call, laps>>

WaitNext ==
  \/ \E t \in Timeouts \cup {-1}, metrics \in 0..1, lag \in 0..MaxLag : PollCall(t, metrics, lag)
  \/ \E d \in 0..MaxClock :
       TimedOut(d) \/ Interrupted(d) \/ FullBatch(d) \/ LastBatch(d)

WaitSpec == WaitInit /\ [][WaitNext]_wait_vars

-----------------------------------------------------------------------------
(* Properties.                                                             *)

\* A wait that is interrupted and taken up again, however often, is never
\* asked to last beyond the time of the call plus its timeout (and what the
\* clock hides); one with no limit keeps having none.
NeverLonger ==
  wait_pc = "wait" =>
    IF wait_asked = -1 THEN wait_timeout \in {-1, 0}
    ELSE wait_timeout = 0 \/ clock + wait_timeout <= entered + wait_asked + Coarse

\* How long uv__io_poll() may take: no wait outlasts what was asked, one poll
\* dispatches MaxCount batches at most, so that busy descriptors cannot keep
\* the loop from its timers, and a poll that called no callback came back
\* because the time asked for had passed since loop->time was read, as the
\* timers need it to, unless the wait was taken up more than once.
WaitHonest ==
  [][/\ NeverLonger'
     /\ batches' <= MaxCount
     /\ wait_pc = "wait" /\ wait_pc' = "out" /\ called' = 0
          => wait_asked # -1 /\ (loop_time' - base >= wait_asked \/ laps' = 2)]_wait_vars
=============================================================================
