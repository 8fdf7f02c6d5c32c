------------------------------ MODULE Process -------------------------------
(***************************************************************************)
(* Child processes (unix/process.c) on top of the signal handles: one      *)
(* child_watcher for each loop, started by the first uv_spawn() and        *)
(* stopped when the last process handle is closed, and the walk of         *)
(* uv__wait_children() over the children of the loop for one SIGCHLD.      *)
(***************************************************************************)
EXTENDS Signal, Queues

CONSTANTS
  Procs, ProcLoop,   \* uv_process_t, and the loop of each
  Watcher,           \* loop->child_watcher
  SIGCHLD

ASSUME ProcessAssumption ==
  /\ ProcLoop \in [Procs -> Loops]
  /\ Watcher \in [Loops -> Internal]
  /\ \A l \in Loops : LoopOf[Watcher[l]] = l
  /\ SIGCHLD \in Signums \ Uncatchable

VARIABLES
  proc,            \* each handle: "none", "open" (after uv_spawn()), "closing"
  child,           \* its child: "none", "running", "zombie", "reaped"
  process_handles, \* the list of each loop
  walk,            \* the part of the list still to be asked for
  pending,         \* the local list of uv__wait_children()
  exits            \* history: how often exit_cb was called for the handle

procvars == <<proc, child, process_handles, walk, pending, exits>>
vars == <<sigvars, procvars>>

Init ==
  /\ SignalInit
  /\ proc = [p \in Procs |-> "none"] /\ child = [p \in Procs |-> "none"]
  /\ process_handles = [l \in Loops |-> <<>>]
  /\ walk = [l \in Loops |-> <<>>] /\ pending = [l \in Loops |-> <<>>]
  /\ exits = [p \in Procs |-> 0]

-----------------------------------------------------------------------------
\* uv_spawn(): the watcher is started before the fork.  An error of the stdio
\* containers returns before that; an exec() that fails leaves a child that
\* uv__spawn_and_init_child() waits for itself, after its SIGCHLD.
SpawnBadStdio(p) ==
  /\ UserCode(ProcLoop[p]) /\ proc[p] = "none"
  /\ proc' = [proc EXCEPT ![p] = "open"]
  /\ UNCHANGED <<sigvars, child, process_handles, walk, pending, exits>>

StartWatcher(l) ==
  LET w == Watcher[l] IN
  /\ LockFree
  /\ SetTree(IF signum[w] = SIGCHLD THEN Tree ELSE Started(Tree, w, SIGCHLD, FALSE))

SpawnExecFails(p) ==
  /\ UserCode(ProcLoop[p]) /\ proc[p] = "none"
  /\ StartWatcher(ProcLoop[p])
  /\ raised' = raised \cup {SIGCHLD}
  /\ proc' = [proc EXCEPT ![p] = "open"]
  /\ child' = [child EXCEPT ![p] = "reaped"]
  /\ UNCHANGED <<life, oneshot, trapped, nraised, handler, pipe, reader, alive, history,
                 process_handles, walk, pending, exits>>

uv_spawn(p) ==
  LET l == ProcLoop[p] IN
  /\ UserCode(l) /\ proc[p] = "none"
  /\ StartWatcher(l)
  /\ proc' = [proc EXCEPT ![p] = "open"]
  /\ child' = [child EXCEPT ![p] = "running"]
  /\ process_handles' = [process_handles EXCEPT ![l] = Append(@, p)]
  /\ UNCHANGED <<life, oneshot, trapped, kernel, handler, pipe, reader, alive, history,
                 walk, pending, exits>>

\* Mutant of uv__process_close: the handle stays linked where it is.
ProcessCloseKeeps(p) ==
  LET l == ProcLoop[p] IN
  /\ UserCode(l) /\ proc[p] = "open" /\ LockFree
  /\ proc' = [proc EXCEPT ![p] = "closing"]
  /\ UNCHANGED <<sigvars, child, process_handles, walk, pending, exits>>

\* uv_close(): QUEUE_REMOVE unlinks the handle from the list it is in; the
\* watcher is stopped with the last process.
uv__process_close(p) ==
  LET l == ProcLoop[p]
      left == Without(process_handles[l], p)
  IN /\ UserCode(l) /\ proc[p] = "open" /\ LockFree
     /\ proc' = [proc EXCEPT ![p] = "closing"]
     /\ process_handles' = [process_handles EXCEPT ![l] = left]
     /\ pending' = [pending EXCEPT ![l] = Without(@, p)]
     /\ SetTree(IF left = <<>> THEN Stopped(Tree, Watcher[l]) ELSE Tree)
     /\ UNCHANGED <<life, oneshot, trapped, kernel, handler, pipe, reader, alive, history, child, walk, exits>>

-----------------------------------------------------------------------------
\* The child exits: SIGCHLD, unless it is ignored by default
ChildExit(p) ==
  /\ child[p] = "running"
  /\ child' = [child EXCEPT ![p] = "zombie"]
  /\ raised' = IF disp[SIGCHLD] = "dfl" THEN raised ELSE raised \cup {SIGCHLD}
  /\ UNCHANGED <<life, tree, oneshot, trapped, nraised, handler, pipe, reader,
                 alive, history, proc, process_handles, walk, pending, exits>>

\* uv__chld(), uv__wait_children(): the list is walked from its head.
WaitStart(l) ==
  /\ stage[l] = "chld"
  /\ walk' = [walk EXCEPT ![l] = process_handles[l]]
  /\ stage' = [stage EXCEPT ![l] = "walk"]
  /\ UNCHANGED <<life, tree, oneshot, trapped, kernel, handler, pipe, buf, full,
                 alive, history, proc, child, process_handles, pending, exits>>

\* Mutant of WaitNext: one SIGCHLD, one child.
WaitOne(l) ==
  LET p == Head(walk[l])
      dead == child[p] = "zombie"
  IN /\ stage[l] = "walk" /\ walk[l] # <<>>
     /\ walk' = [walk EXCEPT ![l] = IF dead THEN <<>> ELSE Tail(@)]
     /\ IF dead
        THEN /\ child' = [child EXCEPT ![p] = "reaped"]
             /\ process_handles' = [process_handles EXCEPT ![l] = Without(@, p)]
             /\ pending' = [pending EXCEPT ![l] = Append(@, p)]
        ELSE UNCHANGED <<child, process_handles, pending>>
     /\ UNCHANGED <<sigvars, proc, exits>>

\* waitpid(WNOHANG): a child that has exited goes to the pending list.
WaitNext(l) ==
  LET p == Head(walk[l]) IN
  /\ stage[l] = "walk" /\ walk[l] # <<>>
  /\ walk' = [walk EXCEPT ![l] = Tail(@)]
  /\ IF child[p] = "zombie"
     THEN /\ child' = [child EXCEPT ![p] = "reaped"]
          /\ process_handles' = [process_handles EXCEPT ![l] = Without(@, p)]
          /\ pending' = [pending EXCEPT ![l] = Append(@, p)]
     ELSE UNCHANGED <<child, process_handles, pending>>
  /\ UNCHANGED <<sigvars, proc, exits>>

\* exit_cb of the first process of the pending list
ExitCall(l) ==
  /\ stage[l] = "walk" /\ walk[l] = <<>> /\ pending[l] # <<>>
  /\ pending' = [pending EXCEPT ![l] = Tail(@)]
  /\ exits' = [exits EXCEPT ![Head(pending[l])] = @ + 1]
  /\ stage' = [stage EXCEPT ![l] = "exit_cb"]
  /\ UNCHANGED <<life, tree, oneshot, trapped, kernel, handler, pipe, buf, full,
                 alive, history, proc, child, process_handles, walk>>

ExitReturn(l) ==
  /\ stage[l] = "exit_cb"
  /\ stage' = [stage EXCEPT ![l] = "walk"]
  /\ UNCHANGED <<life, tree, oneshot, trapped, kernel, handler, pipe, buf, full,
                 alive, history, procvars>>

WaitEnd(l) ==
  /\ stage[l] = "walk" /\ walk[l] = <<>> /\ pending[l] = <<>>
  /\ Counted(l) /\ UNCHANGED procvars

-----------------------------------------------------------------------------
WaitStep(l) ==
  WaitStart(l) \/ WaitNext(l) \/ ExitCall(l) \/ ExitReturn(l) \/ WaitEnd(l)

ProcessUser ==
  \E p \in Procs :
    SpawnBadStdio(p) \/ SpawnExecFails(p) \/ uv_spawn(p) \/ uv__process_close(p)

\* uv_loop_close() needs the process handles closed as well.
LoopClose(l) ==
  /\ \A p \in Procs : ProcLoop[p] = l => proc[p] \in {"none", "closing"}
  /\ uv__signal_loop_cleanup(l) /\ UNCHANGED procvars

SignalNext ==
  /\ \/ SignalUser
     \/ \E s \in Signums : Raise(s)
     \/ \E t \in Threads : HandlerStep(t)
     \/ \E l \in Loops : EventStep(l)
     \/ \E h \in Handles : uv__finish_close(h)
  /\ UNCHANGED procvars

Next ==
  \/ SignalNext
  \/ ProcessUser
  \/ \E p \in Procs : ChildExit(p)
  \/ \E l \in Loops : WaitStep(l) \/ LoopClose(l)

Spec == Init /\ [][Next]_vars

\* The scheduler runs the interrupted threads and the loops, callbacks return,
\* and a loop goes through its closing handles in every iteration.  One weak
\* fairness for handlers and loops is enough, since signals and children are
\* finitely many.
System ==
  \/ \E t \in Threads : HandlerStep(t) /\ UNCHANGED procvars
  \/ \E l \in Loops : WaitStep(l) \/ (EventStep(l) /\ UNCHANGED procvars)

ProcessFairness ==
  /\ WF_vars(System)
  /\ \A h \in Handles \ Internal : WF_vars(uv__finish_close(h) /\ UNCHANGED procvars)
FairSpec == Spec /\ ProcessFairness

-----------------------------------------------------------------------------
(* Properties.                                                             *)

\* exit_cb comes at most once for a process and never after its uv_close(),
\* though the callback of one process may close others that were reaped in the
\* same walk, and every handle of a list is of a child not yet reaped.
ExitOnce ==
  /\ \A p \in Procs : exits[p] <= 1
  /\ \A l \in Loops : \A p \in In(pending[l]) : proc[p] = "open" /\ exits[p] = 0

\* Handlers, counters and lists stay sound while children come and go.
ProcessSound == SignalSound /\ ExitOnce

\* Every child that exits is reported, even if several exits share one SIGCHLD
\* or a child exits while the list is walked, unless its handle is closed or
\* the pipe had no room for the message.
EveryExitReported ==
  \A p \in Procs :
    (proc[p] = "open" /\ child[p] = "zombie") ~> (exits[p] = 1 \/ proc[p] = "closing" \/ Watcher[ProcLoop[p]] \in lost)
=============================================================================
