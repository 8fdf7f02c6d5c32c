------------------------------ MODULE PollFork ------------------------------
(* Poll with one fork() of the process and uv_loop_fork() in the child     *)
(* (libuv/src/unix/loop.c): a new epoll, in which every watcher has to be  *)
(* registered again.                                                       *)
EXTENDS Poll

VARIABLE forked         \* this process is the child

ForkKinds == [w \in Ws |-> "stream"]

\* The watchers that uv_loop_fork() looks for
Unqueued == {w \in Ws : io.pevents[w] # {} /\ w \notin In(io.watcher_queue)}

\* The loop over loop->watchers: in the order of the descriptors, any here
Rearmed ==
  LET order == CHOOSE q \in [1..Cardinality(Unqueued) -> Unqueued] : In(q) = Unqueued
  IN [io EXCEPT !.events = [w \in Ws |-> IF w \in Unqueued THEN {} ELSE @[w]],
                !.watcher_queue = @ \o order]

uv_loop_fork ==
  /\ forked = 0 /\ pc = "out" /\ incallback = 0
  /\ forked' = 1
  /\ interest' = {}
  /\ io' = Rearmed
  /\ UNCHANGED <<file, fd, local, events, incallback>>

ForkNext == uv_loop_fork \/ (Next /\ UNCHANGED forked)

ForkSpec == Init /\ forked = 0 /\ [][ForkNext]_<<vars, forked>>
=============================================================================
