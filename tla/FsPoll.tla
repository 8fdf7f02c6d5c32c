------------------------------- MODULE FsPoll -------------------------------
(***************************************************************************)
(* A file polling handle (fs-poll.c).  Every uv_fs_poll_start() makes a    *)
(* context with a timer and a stat request; a context that is stopped      *)
(* lives on, linked through `previous', until its stat has come back and   *)
(* its timer has been closed, and the close of the handle waits for all of *)
(* them.  The thread pool does the stats, so one is under way while any    *)
(* operation runs.                                                         *)
(***************************************************************************)
EXTENDS Integers, Sequences, FiniteSets, Queues

CONSTANTS
  Ctxs,       \* bound: the contexts that are ever made, an interval from 1
  Results     \* what a stat may find: errors and states of the file

ASSUME CtxsAssumption == Ctxs \subseteq Nat \ {0}

ErrorOf(r) == r \in {"enoent", "eacces"}

VARIABLES
  fp,         \* fields of the uv_fs_poll_t; ctxs is the list from poll_ctx on
  ctx,        \* each context: its stat and its timer, what it saw and told
  fp_pc,      \* user code runs, or the callback that poll_cb() called
  made,       \* contexts made so far
  fp_closed   \* close callback ran

fp_vars == <<fp, ctx, fp_pc, made, fp_closed>>

FsPollInit ==
  /\ fp = [active |-> 0, closing |-> 0, ctxs |-> <<>>, pending |-> 0]
  /\ ctx = [c \in Ctxs |-> [stat |-> 0, timer |-> "none", busy_polling |-> "never",
                            statbuf |-> "zero", told |-> "nothing"]]
  /\ fp_pc = 0 /\ made = 0 /\ fp_closed = 0

\* An assertion that failed ends the process.
Aborted == \E c \in Ctxs : ctx[c].timer = "abort"

\* The loop may call one of its callbacks.
FsPollIdle == fp_pc = 0 /\ ~Aborted

\* The stat of uv_fs_poll_start() may fail at once; then nothing changes.
uv_fs_poll_start ==
  /\ ~Aborted /\ fp.active = 0 /\ fp.closing = 0 /\ made + 1 \in Ctxs
  /\ made' = made + 1
  /\ fp' = [fp EXCEPT !.active = 1, !.ctxs = <<made + 1>> \o @]
  /\ ctx' = [ctx EXCEPT ![made + 1].stat = 1, ![made + 1].timer = "idle"]
  /\ UNCHANGED <<fp_pc, fp_closed>>

\* uv_close() of a timer: its assertion fails if it is closing already.
Closing(t) == IF t \in {"idle", "active"} THEN "closing" ELSE "abort"

\* Mutant of uv_fs_poll_stop: the timer is closed whatever it does, also while
\* the stat is under way.
StopClosesTimer(f) ==
  /\ ctx' = IF fp.active = 0 THEN ctx
            ELSE [ctx EXCEPT ![Head(fp.ctxs)].timer = Closing(@)]
  /\ fp' = [f EXCEPT !.active = 0]

\* Only a timer that runs is closed here: the stat that is under way, or the
\* poll_cb() this is called from, will see the handle inactive.
uv_fs_poll_stop(f) ==
  /\ ctx' = IF fp.active = 1 /\ ctx[Head(fp.ctxs)].timer = "active"
            THEN [ctx EXCEPT ![Head(fp.ctxs)].timer = Closing(@)] ELSE ctx
  /\ fp' = [f EXCEPT !.active = 0]

FsPollStop ==
  /\ ~Aborted /\ fp.active = 1
  /\ uv_fs_poll_stop(fp)
  /\ UNCHANGED <<fp_pc, made, fp_closed>>

\* uv_close(): the close is pending at once if there is no context.
uv__fs_poll_close ==
  /\ ~Aborted /\ fp.closing = 0
  /\ uv_fs_poll_stop([fp EXCEPT !.closing = 1,
                                !.pending = IF fp.ctxs = <<>> THEN 1 ELSE 0])
  /\ UNCHANGED <<fp_pc, made, fp_closed>>

Watched == fp.active = 1 /\ fp.closing = 0

-----------------------------------------------------------------------------
(* poll_cb(), timer_cb(), timer_close_cb()                                 *)

\* poll_cb() calls back: an error that is new, or a state that is new and not
\* the first.
Told(c, r) ==
  LET seen == ctx[c].busy_polling IN
  IF ErrorOf(r) THEN seen # r
  ELSE seen # "never" /\ (ErrorOf(seen) \/ ctx[c].statbuf # r)

\* What poll_cb() keeps: an error leaves the last good state as it was.
Kept(c, r) ==
  IF ErrorOf(r) THEN [ctx[c] EXCEPT !.busy_polling = r]
  ELSE [ctx[c] EXCEPT !.busy_polling = "ok", !.statbuf = r]

\* The part of poll_cb() after the callback: the timer starts, or is closed if
\* the handle was stopped meanwhile.
Rearmed(c) == IF Watched THEN "active" ELSE Closing(ctx[c].timer)

\* The stat of c has come back and the loop runs poll_cb().  The handle is
\* active, or c is left over from before a stop, or both.
PollCb(c) ==
  /\ FsPollIdle /\ ctx[c].stat = 1
  /\ IF ~Watched
     THEN ctx' = [ctx EXCEPT ![c].stat = 0, ![c].timer = Rearmed(c)] /\ UNCHANGED fp_pc
     ELSE \E r \in Results :
            IF Told(c, r)
            THEN /\ fp_pc' = c
                 /\ ctx' = [ctx EXCEPT ![c] = [Kept(c, r) EXCEPT !.stat = 0, !.told = r]]
            ELSE /\ ctx' = [ctx EXCEPT ![c] =
                              [Kept(c, r) EXCEPT !.stat = 0, !.timer = Rearmed(c),
                                 !.told = IF @ = "nothing" THEN r ELSE @]]
                 /\ UNCHANGED fp_pc
  /\ UNCHANGED <<fp, made, fp_closed>>

FsPollReturn(c) ==
  /\ fp_pc = c /\ ~Aborted /\ fp_pc' = 0
  /\ ctx' = [ctx EXCEPT ![c].timer = Rearmed(c)]
  /\ UNCHANGED <<fp, made, fp_closed>>

\* timer_cb() asserts that c is the context of the handle.
timer_cb(c) ==
  /\ FsPollIdle /\ ctx[c].timer = "active"
  /\ ctx' = IF fp.ctxs # <<>> /\ Head(fp.ctxs) = c
            THEN [ctx EXCEPT ![c].stat = 1, ![c].timer = "idle"]
            ELSE [ctx EXCEPT ![c].timer = "abort"]
  /\ UNCHANGED <<fp, fp_pc, made, fp_closed>>

\* The close of the handle becomes pending when its last context goes.
CloseReady(c) == fp.ctxs = <<c>> /\ fp.closing = 1

timer_close_cb(c) ==
  /\ FsPollIdle /\ ctx[c].timer = "closing"
  /\ ctx' = [ctx EXCEPT ![c].timer = "freed"]
  /\ fp' = [fp EXCEPT !.ctxs = Without(@, c),
                      !.pending = IF CloseReady(c) THEN 1 ELSE @]
  /\ UNCHANGED <<fp_pc, made, fp_closed>>

\* uv__finish_close() of the handle
FsPollFinishClose ==
  /\ FsPollIdle /\ fp.pending = 1
  /\ fp_closed' = 1 /\ fp' = [fp EXCEPT !.pending = 0]
  /\ UNCHANGED <<ctx, fp_pc, made>>

FsPollLoop ==
  \/ \E c \in Ctxs : PollCb(c) \/ FsPollReturn(c) \/ timer_cb(c) \/ timer_close_cb(c)
  \/ FsPollFinishClose

FsPollNext == uv_fs_poll_start \/ FsPollStop \/ uv__fs_poll_close \/ FsPollLoop

FsPollSpec == FsPollInit /\ [][FsPollNext]_fp_vars

-----------------------------------------------------------------------------
(* Properties.                                                             *)

\* Every context that was made waits for exactly one thing, its stat, its
\* timer, the callback it made or the close of its timer, and is in the list
\* until it is freed: so the memory is freed once, never under a request or a
\* timer, and the close callback of the handle comes when none is left, and
\* does come then.  What a context told last is what its last stat found.
FsPollSound ==
  LET live == {c \in Ctxs : ctx[c].timer \notin {"none", "freed"}}
      Waits(c) == ctx[c].stat + (IF ctx[c].timer # "idle" THEN 1 ELSE 0)
                  + (IF fp_pc = c THEN 1 ELSE 0)
  IN /\ \A c \in live : Waits(c) = 1
     /\ In(fp.ctxs) = live /\ Len(fp.ctxs) = Cardinality(live)
     /\ fp.closing = 1 => (fp_closed = 1 \/ fp.pending = 1) = (live = {})
     /\ \A c \in live : ctx[c].busy_polling # "never" =>
          ctx[c].told = IF ErrorOf(ctx[c].busy_polling) THEN ctx[c].busy_polling
                        ELSE ctx[c].statbuf

\* The assertion of timer_cb(): the timer that fires is that of the context
\* the handle has.
FsPollOneContext == ~Aborted
=============================================================================
