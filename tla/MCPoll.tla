------------------------------- MODULE MCPoll -------------------------------
(* For TLC, what the loop waits for: its watchers (a stream beside a poll   *)
(* handle and the signal watcher), the time a poll takes, the timers, and   *)
(* the heap they are kept in.  The modules share no state: PollTimeout      *)
(* knows of a batch only that it calls callbacks, Timer sees the heap as a  *)
(* set with a least member, Heap sees timers as numbers.  So a behaviour is *)
(* one of one of them.                                                      *)
EXTENDS Poll, PollTimeout, Timer, Heap

CONSTANTS
  s1, p1, g,  \* the watchers
  Parts       \* the modules to look at

Kinds == [w \in Ws |-> IF w = s1 THEN "stream" ELSE IF w = g THEN "signal" ELSE "poll"]

VARIABLE part

PollsInit ==
  /\ part \in Parts
  /\ Init /\ WaitInit /\ TimerInit /\ HeapInit
  /\ part # "timer" => time = 0

PollsNext ==
  /\ part' = part
  /\ \/ part = "watchers" /\ Next /\ UNCHANGED <<wait_vars, timer_vars, heap>>
     \/ part = "wait" /\ WaitNext /\ UNCHANGED <<vars, timer_vars, heap>>
     \/ part = "timer" /\ TimerNext /\ UNCHANGED <<vars, wait_vars, heap>>
     \/ part = "heap" /\ HeapNext /\ UNCHANGED <<vars, wait_vars, timer_vars>>

PollsSpec == PollsInit /\ [][PollsNext]_<<part, vars, wait_vars, timer_vars, heap>>
=============================================================================
