---------------------------- MODULE WorkRequests ----------------------------
(***************************************************************************)
(* What the thread pool promises about its requests, without queues,       *)
(* threads or locks: the life of a uv__work request.                       *)
(*                                                                         *)
(*   free -> queued -> running -> finished -> free    (done, status 0)     *)
(*               \---> cancelled -----------> free    (done, UV_ECANCELED) *)
(*                                                                         *)
(* At most Threads requests run at a time, and at most SlowThreads of them *)
(* are slow I/O.  Module ThreadPool is shown to implement this.            *)
(***************************************************************************)
EXTENDS Naturals, FiniteSets

CONSTANTS
  Reqs,                 \* the requests
  SlowReqs,             \* those submitted as UV__WORK_SLOW_IO
  Threads,              \* nthreads
  SlowThreads           \* slow_work_thread_threshold()

VARIABLE stage

InStage(s) == {r \in Reqs : stage[r] = s}

Init == stage = [r \in Reqs |-> "free"]

Move(r, from, to) == stage[r] = from /\ stage' = [stage EXCEPT ![r] = to]

\* uv_queue_work() and its relatives
Submit(r) == Move(r, "free", "queued")

\* A worker takes the request, within the two limits.
Start(r) ==
  /\ Cardinality(InStage("running")) < Threads
  /\ r \in SlowReqs => Cardinality(InStage("running") \cap SlowReqs) < SlowThreads
  /\ Move(r, "queued", "running")

Finish(r) == Move(r, "running", "finished")

\* uv_cancel() succeeds only before the work has started.
Cancel(r) == Move(r, "queued", "cancelled")

\* The loop thread runs the request's done callback.
Done(r) == Move(r, "finished", "free") \/ Move(r, "cancelled", "free")

Next ==
  \E r \in Reqs : Submit(r) \/ Start(r) \/ Finish(r) \/ Cancel(r) \/ Done(r)

Spec == Init /\ [][Next]_stage
=============================================================================
