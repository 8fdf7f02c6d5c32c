----------------------------- MODULE AsyncFork -----------------------------
(***************************************************************************)
(* Async with one fork() of the process, followed in the child by          *)
(* uv_loop_fork() (libuv/src/unix/loop.c, uv__async_fork() in async.c).    *)
(* Only the loop thread exists in the child; the other senders of the      *)
(* child are threads that it starts later.  uv__async_fork() makes a new,  *)
(* empty eventfd and touches nothing else.                                 *)
(***************************************************************************)
EXTENDS Async

VARIABLE forked         \* this process is the child

forkVars == <<async_vars, forked>>

ForkInit == AsyncInit /\ forked = FALSE

\* fork() and uv_loop_fork() between two turns of the loop.  What the senders
\* of the parent are owed is the parent's business, so owed starts afresh.
Fork ==
  /\ ~forked
  /\ loop = "poll"
  /\ forked' = TRUE
  /\ readable' = FALSE
  /\ pc' = [s \in Senders |-> "idle"]
  /\ target' = [s \in Senders |-> NoHandle]
  /\ owed' = {}
  /\ UNCHANGED <<state, pending, async_handles, async_queue, loop>>

ForkNext == Fork \/ (AsyncNext /\ UNCHANGED forked)

ForkSpec ==
  /\ ForkInit
  /\ [][ForkNext]_forkVars
  /\ \A s \in Senders : WF_forkVars(SenderStep(s) /\ UNCHANGED forked)
  /\ WF_forkVars(AsyncStep /\ UNCHANGED forked)

\* A uv_async_send() called in the child is followed by a callback, or by the
\* close of the handle: what the documentation of uv_async_send() promises.
ChildSendDelivered ==
  \A h \in Asyncs : (forked /\ h \in owed) ~> h \notin owed
=============================================================================
