------------------------------- MODULE Signal -------------------------------
(***************************************************************************)
(* Signal handles (unix/signal.c): the tree of the started handles, shared *)
(* by all loops of the process, the disposition the kernel has for every   *)
(* signal, the handler that runs in an interrupted thread and writes one   *)
(* message for each handle into the pipe of its loop, the dispatch of      *)
(* these messages and the close of a handle with messages under way        *)
(* (uv__finish_close(), unix/core.c).                                      *)
(*                                                                         *)
(* The lock (a pipe holding one byte) makes what is done under it one      *)
(* step; the handler, which holds it over several writes, takes several.   *)
(* A handler that interrupts a loop's thread is a handler of a thread of   *)
(* its own that runs while the loop makes no step.                         *)
(***************************************************************************)
EXTENDS Integers, Sequences, FiniteSets

CONSTANTS
  Handles,     \* uv_signal_t
  Internal,    \* the child_watchers: handles user code does not touch
  Loops, LoopOf,  \* the loops, and the loop of each handle
  Signums,     \* the signals
  Uncatchable, \* signals for which sigaction() fails
  Threads,     \* the threads a signal may interrupt at a time
  None,        \* 0 for a signum, NULL for a handle
  PipeSize,    \* bound: messages a pipe holds
  BatchSize,   \* bound: messages of the buffer of uv__signal_event(); 32
  MaxRaised    \* bound: signals sent to the process

ASSUME SignalAssumption ==
  /\ LoopOf \in [Handles -> Loops] /\ Internal \subseteq Handles
  /\ Uncatchable \subseteq Signums
  /\ None \notin Handles \cup Signums
  /\ PipeSize \in Nat \ {0} /\ BatchSize \in Nat \ {0} /\ MaxRaised \in Nat

VARIABLES
  life,        \* each handle: "closed" (or not yet made), "open", "closing"
  signum,      \* handle->signum; a handle is in the tree while it is not None
  oneshot,     \* UV_SIGNAL_ONE_SHOT of handle->flags
  trapped,     \* caught_signals - dispatched_signals: only the difference is
               \* looked at
  disp,        \* sigaction: "dfl", "uv", or "once", uv with SA_RESETHAND
  raised,      \* signals sent and not yet delivered; equal ones merge
  nraised,     \* how many have been sent
  handler,     \* the handler in each thread
  pipe,        \* messages in signal_pipefd of each loop
  buf,         \* messages read by uv__signal_event() and not yet dispatched
  full,        \* 1 if the last read filled the buffer
  stage,       \* where the thread of each loop is
  alive,       \* the loops that are not closed
  armed,       \* history: started and not called since
  lost         \* history: internal handles with a message dropped at a full pipe

tree == <<signum, disp>>
history == <<armed, lost>>
kernel == <<raised, nraised>>
reader == <<buf, full, stage>>
sigvars == <<life, tree, oneshot, trapped, kernel, handler, pipe, reader,
             alive, history>>

NoHandler == [at |-> "none", signum |-> None, todo |-> {}, wrote |-> None]

SignalInit ==
  /\ life = [h \in Handles |-> IF h \in Internal THEN "open" ELSE "closed"]
  /\ signum = [h \in Handles |-> None]
  /\ oneshot = [h \in Handles |-> FALSE]
  /\ trapped = [h \in Handles |-> 0]
  /\ disp = [s \in Signums |-> "dfl"]
  /\ raised = {} /\ nraised = 0
  /\ handler = [t \in Threads |-> NoHandler]
  /\ pipe = [l \in Loops |-> <<>>] /\ buf = [l \in Loops |-> <<>>]
  /\ full = [l \in Loops |-> 0]
  /\ stage = [l \in Loops |-> "run"]
  /\ alive = Loops
  /\ armed = [h \in Handles |-> FALSE] /\ lost = {}

LockFree == \A t \in Threads : handler[t].at # "locked"

\* Code of the user runs: between two events, and in a callback
UserCode(l) == l \in alive /\ stage[l] \in {"run", "callback", "exit_cb"}

-----------------------------------------------------------------------------
(* The tree and the dispositions: st is the record of signum and disp.     *)

Watching(st, s) == {h \in Handles : st.signum[h] = s}

\* uv__signal_compare() puts handles without the flag first.
FirstIsOneshot(W) == \A h \in W : oneshot[h]

Tree == [signum |-> signum, disp |-> disp]

\* uv__signal_stop(), what it does under the lock
Stopped(st, h) ==
  LET s == st.signum[h]
      sg == [st.signum EXCEPT ![h] = None]
      W == {w \in Handles : sg[w] = s}
  IN IF s = None THEN st
     ELSE [signum |-> sg,
           disp |-> [st.disp EXCEPT ![s] =
                       IF W = {} THEN "dfl"
                       ELSE IF FirstIsOneshot(W) /\ ~oneshot[h] THEN "once"
                       ELSE @]]

\* Mutant of Started: a handle that is not first registers nothing.
started_first_only(st, h, s, once) ==
  [signum |-> [st.signum EXCEPT ![h] = s],
   disp |-> IF Watching(st, s) = {}
            THEN [st.disp EXCEPT ![s] = IF once THEN "once" ELSE "uv"]
            ELSE st.disp]

\* uv__signal_start(), what it does under the lock: the handler is registered
\* for the first handle, and again for the first one without the flag.
Started(st, h, s, once) ==
  LET W == Watching(st, s)
      register == W = {} \/ (~once /\ FirstIsOneshot(W))
  IN [signum |-> [st.signum EXCEPT ![h] = s],
      disp |-> IF register
               THEN [st.disp EXCEPT ![s] = IF once THEN "once" ELSE "uv"]
               ELSE st.disp]

SetTree(st) == signum' = st.signum /\ disp' = st.disp

-----------------------------------------------------------------------------
(* Operations of user code.                                                *)

uv_signal_init(h) ==
  /\ UserCode(LoopOf[h]) /\ life[h] = "closed"
  /\ life' = [life EXCEPT ![h] = "open"]
  /\ signum' = [signum EXCEPT ![h] = None]
  /\ oneshot' = [oneshot EXCEPT ![h] = FALSE]
  /\ trapped' = [trapped EXCEPT ![h] = 0]
  /\ UNCHANGED <<disp, kernel, handler, pipe, reader, alive, history>>

\* uv_signal_start() and uv_signal_start_oneshot(): a handle that watches the
\* signal already gets the new callback only; one that watches another is
\* stopped first, and stays so if sigaction() fails.
uv__signal_start(h, s, once) ==
  /\ UserCode(LoopOf[h]) /\ life[h] = "open" /\ LockFree
  /\ signum[h] # s
  /\ LET st == Stopped(Tree, h) IN
     IF s \in Uncatchable
     THEN /\ signum[h] # None /\ SetTree(st)
          /\ UNCHANGED <<oneshot, armed>>
     ELSE /\ SetTree(Started(st, h, s, once))
          /\ oneshot' = [oneshot EXCEPT ![h] = @ \/ once]
          /\ armed' = [armed EXCEPT ![h] = TRUE]
  /\ UNCHANGED <<life, trapped, kernel, handler, pipe, reader, alive, lost>>

uv_signal_stop(h) ==
  /\ UserCode(LoopOf[h]) /\ life[h] = "open" /\ LockFree
  /\ signum[h] # None
  /\ SetTree(Stopped(Tree, h))
  /\ armed' = [armed EXCEPT ![h] = FALSE]
  /\ UNCHANGED <<life, oneshot, trapped, kernel, handler, pipe, reader, alive,
                 lost>>

\* uv_close(): uv__signal_close() and uv__make_close_pending()
uv__signal_close(h) ==
  /\ UserCode(LoopOf[h]) /\ life[h] = "open" /\ LockFree
  /\ SetTree(Stopped(Tree, h))
  /\ life' = [life EXCEPT ![h] = "closing"]
  /\ armed' = [armed EXCEPT ![h] = FALSE]
  /\ UNCHANGED <<oneshot, trapped, kernel, handler, pipe, reader, alive, lost>>

\* uv_loop_close(), once the handles of the user are closed: the internal ones
\* are stopped and the pipe is closed with what is in it.
uv__signal_loop_cleanup(l) ==
  /\ l \in alive /\ stage[l] = "run" /\ LockFree
  /\ \A h \in Handles \ Internal : LoopOf[h] = l => life[h] = "closed"
  /\ \E w \in Internal : LoopOf[w] = l /\ SetTree(Stopped(Tree, w))
  /\ pipe' = [pipe EXCEPT ![l] = <<>>]
  /\ alive' = alive \ {l}
  /\ UNCHANGED <<life, oneshot, trapped, kernel, handler, reader, history>>

-----------------------------------------------------------------------------
(* The kernel and the handler.                                             *)

\* kill(): a signal that is ignored or ends the process by default is not sent
\* here, one that is pending already is merged.
Raise(s) ==
  /\ nraised < MaxRaised /\ disp[s] # "dfl" /\ s \notin raised
  /\ raised' = raised \cup {s} /\ nraised' = nraised + 1
  /\ UNCHANGED <<life, tree, oneshot, trapped, handler, pipe, reader, alive, history>>

\* A thread is interrupted; SA_RESETHAND takes effect here.  A signal whose
\* disposition went back to the default in the meantime is gone.
Deliver(t, s) ==
  /\ s \in raised /\ handler[t].at = "none"
  /\ raised' = raised \ {s}
  /\ handler' = IF disp[s] = "dfl" THEN handler
                ELSE [handler EXCEPT ![t].at = "called", ![t].signum = s]
  /\ disp' = [disp EXCEPT ![s] = IF @ = "once" THEN "dfl" ELSE @]
  /\ UNCHANGED <<life, signum, oneshot, trapped, nraised, pipe, reader, alive, history>>

\* uv__signal_handler(): the lock and the handles that watch the signal
HandlerLock(t) ==
  /\ handler[t].at = "called" /\ LockFree
  /\ handler' = [handler EXCEPT ![t].at = "locked",
                                ![t].todo = Watching(Tree, handler[t].signum)]
  /\ UNCHANGED <<life, tree, oneshot, trapped, kernel, pipe, reader, alive, history>>

\* Mutant of HandlerWrite: a message that was dropped is counted too.
HandlerWriteCounts(t, h) ==
  LET c == handler[t]
      l == LoopOf[h]
      room == Len(pipe[l]) < PipeSize
  IN /\ c.at = "locked" /\ c.wrote = None /\ h \in c.todo
     /\ oneshot[h] => FirstIsOneshot(c.todo)
     /\ pipe' = IF room THEN [pipe EXCEPT ![l] = Append(@, [handle |-> h, signum |-> c.signum])]
                ELSE pipe
     /\ handler' = [handler EXCEPT ![t].todo = @ \ {h}, ![t].wrote = h]
     /\ lost' = IF room THEN lost ELSE lost \cup ({h} \cap Internal)
     /\ UNCHANGED <<life, tree, oneshot, trapped, kernel, reader, alive, armed>>

\* write() of one message; a full pipe says EAGAIN and the message is dropped.
\* The handles come in the order of the tree: those without the flag first.
HandlerWrite(t, h) ==
  LET c == handler[t]
      l == LoopOf[h]
      room == Len(pipe[l]) < PipeSize
  IN /\ c.at = "locked" /\ c.wrote = None /\ h \in c.todo
     /\ oneshot[h] => FirstIsOneshot(c.todo)
     /\ pipe' = IF room THEN [pipe EXCEPT ![l] = Append(@, [handle |-> h, signum |-> c.signum])]
                ELSE pipe
     /\ handler' = [handler EXCEPT ![t].todo = @ \ {h},
                                   ![t].wrote = IF room THEN h ELSE None]
     /\ lost' = IF room THEN lost ELSE lost \cup ({h} \cap Internal)
     /\ UNCHANGED <<life, tree, oneshot, trapped, kernel, reader, alive, armed>>

\* handle->caught_signals++, after the write
HandlerCount(t) ==
  LET h == handler[t].wrote IN
  /\ h # None
  /\ trapped' = [trapped EXCEPT ![h] = @ + 1]
  /\ handler' = [handler EXCEPT ![t].wrote = None]
  /\ UNCHANGED <<life, tree, oneshot, kernel, pipe, reader, alive, history>>

HandlerUnlock(t) ==
  /\ handler[t].at = "locked" /\ handler[t].todo = {} /\ handler[t].wrote = None
  /\ handler' = [handler EXCEPT ![t] = NoHandler]
  /\ UNCHANGED <<life, tree, oneshot, trapped, kernel, pipe, reader, alive, history>>

-----------------------------------------------------------------------------
(* uv__signal_event(), in the thread of the loop.                          *)

\* read(): up to a buffer of messages; EAGAIN after a full buffer ends it.
EventRead(l) ==
  /\ l \in alive /\ buf[l] = <<>>
  /\ \/ stage[l] = "run" /\ pipe[l] # <<>>
     \/ stage[l] = "event" /\ full[l] = 1
  /\ LET n == IF Len(pipe[l]) < BatchSize THEN Len(pipe[l]) ELSE BatchSize
     IN /\ buf' = [buf EXCEPT ![l] = SubSeq(pipe[l], 1, n)]
        /\ pipe' = [pipe EXCEPT ![l] = SubSeq(@, n + 1, Len(@))]
        /\ full' = [full EXCEPT ![l] = IF n = BatchSize THEN 1 ELSE 0]
        /\ stage' = [stage EXCEPT ![l] = IF n = 0 THEN "run" ELSE "event"]
  /\ UNCHANGED <<life, tree, oneshot, trapped, kernel, handler, alive, history>>

\* The callback of the handle the message names, if it watches that signal
EventCall(l) ==
  /\ stage[l] = "event" /\ buf[l] # <<>>
  /\ LET msg == Head(buf[l]) IN
     /\ msg.signum = signum[msg.handle]
     /\ stage' = [stage EXCEPT ![l] =
                    IF msg.handle \in Internal THEN "chld" ELSE "callback"]
     /\ armed' = [armed EXCEPT ![msg.handle] = FALSE]
  /\ UNCHANGED <<life, tree, oneshot, trapped, kernel, handler, pipe, buf, full, alive, lost>>

\* Mutant of Counted: the one-shot handle goes on.
CountedOnly(l) ==
  LET h == Head(buf[l]).handle IN
  /\ trapped' = [trapped EXCEPT ![h] = @ - 1]
  /\ UNCHANGED tree
  /\ buf' = [buf EXCEPT ![l] = Tail(@)]
  /\ stage' = [stage EXCEPT ![l] =
                  IF Len(buf[l]) = 1 /\ full[l] = 0 THEN "run" ELSE "event"]
  /\ UNCHANGED <<life, oneshot, kernel, handler, pipe, full, alive, history>>

\* The message is counted, and a one-shot handle stopped, whether the callback
\* was called or not.
Counted(l) ==
  LET h == Head(buf[l]).handle IN
  /\ trapped' = [trapped EXCEPT ![h] = @ - 1]
  /\ IF oneshot[h] /\ signum[h] # None
     THEN LockFree /\ SetTree(Stopped(Tree, h))
     ELSE UNCHANGED tree
  /\ buf' = [buf EXCEPT ![l] = Tail(@)]
  /\ stage' = [stage EXCEPT ![l] =
                  IF Len(buf[l]) = 1 /\ full[l] = 0 THEN "run" ELSE "event"]
  /\ UNCHANGED <<life, oneshot, kernel, handler, pipe, full, alive, history>>

EventSkip(l) ==
  /\ stage[l] = "event" /\ buf[l] # <<>>
  /\ Head(buf[l]).signum # signum[Head(buf[l]).handle]
  /\ Counted(l)

CallbackReturn(l) == stage[l] = "callback" /\ Counted(l)

\* Mutant of uv__finish_close: messages under way are not waited for.
FinishCloseAtOnce(h) ==
  /\ LoopOf[h] \in alive /\ stage[LoopOf[h]] = "run" /\ life[h] = "closing"
  /\ life' = [life EXCEPT ![h] = "closed"]
  /\ UNCHANGED <<tree, oneshot, trapped, kernel, handler, pipe, reader, alive, history>>

\* uv__finish_close(): a handle with messages under way goes back into the
\* list of the closing handles.
uv__finish_close(h) ==
  /\ LoopOf[h] \in alive /\ stage[LoopOf[h]] = "run" /\ life[h] = "closing"
  /\ trapped[h] <= 0
  /\ life' = [life EXCEPT ![h] = "closed"]
  /\ UNCHANGED <<tree, oneshot, trapped, kernel, handler, pipe, reader, alive, history>>

-----------------------------------------------------------------------------

SignalUser ==
  \E h \in Handles \ Internal :
    \/ uv_signal_init(h) \/ uv_signal_stop(h) \/ uv__signal_close(h)
    \/ \E s \in Signums, once \in BOOLEAN : uv__signal_start(h, s, once)

HandlerStep(t) ==
  \/ \E s \in Signums : Deliver(t, s)
  \/ HandlerLock(t) \/ HandlerCount(t) \/ HandlerUnlock(t)
  \/ \E h \in Handles : HandlerWrite(t, h)

EventStep(l) ==
  \/ EventRead(l) \/ EventCall(l) \/ EventSkip(l) \/ CallbackReturn(l)

-----------------------------------------------------------------------------
(* Properties.                                                             *)

\* Every message, in the pipe, read, or being dispatched
Messages(h) ==
  LET l == LoopOf[h]
  IN {<<i, "pipe">> : i \in {j \in DOMAIN pipe[l] : pipe[l][j].handle = h}}
     \cup {<<i, "buf">> : i \in {j \in DOMAIN buf[l] : buf[l][j].handle = h}}

\* The counters of a handle differ by its messages under way, whatever was
\* dropped at a full pipe, so uv__finish_close() may trust them: a handle that
\* is closed (its memory may be gone or used again) is named by no message
\* and no handler is about to count for it.
CountersExact ==
  \A h \in Handles : LoopOf[h] \in alive =>
    LET uncounted == {t \in Threads : handler[t].wrote = h} IN
    /\ trapped[h] + Cardinality(uncounted) = Cardinality(Messages(h))
    /\ life[h] = "closed" => Messages(h) = {} /\ uncounted = {}

\* A signal that a handle without UV_SIGNAL_ONE_SHOT watches has libuv's
\* persistent handler, however one-shot handles of any loop come, fire and go
\* beside it, and a signal nobody watches has its default action.
HandlerInstalled ==
  \A s \in Signums :
    /\ (\E h \in Handles : signum[h] = s /\ ~oneshot[h]) => disp[s] = "uv"
    /\ Watching(Tree, s) = {} => disp[s] = "dfl"

\* What the handler, the pipe and the tree of handles keep true between them.
SignalSound == CountersExact /\ HandlerInstalled

\* A one-shot handle is called once for each start, even if a persistent handle
\* beside it lets the signal be caught again before the first message is read.
OneShotOnce ==
  [][\A l \in Loops : stage[l] = "event" /\ stage'[l] \in {"callback", "chld"} =>
       LET h == Head(buf[l]).handle IN oneshot[h] => armed[h]]_sigvars

\* A close always ends, with a full pipe and with messages nobody waits for.
SignalCloseDone ==
  \A h \in Handles \ Internal : life[h] = "closing" ~> life[h] # "closing"
=============================================================================
