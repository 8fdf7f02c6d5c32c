------------------------------- MODULE MCLoop -------------------------------
(* For TLC, under fairness: the loop with two idle watchers and a stream,   *)
(* and on their own the async handles that other threads wake it with.  The *)
(* modules share no state, so a behaviour is one of one of them.            *)
EXTENDS Loop, Async

CONSTANTS i1, i2, s1   \* the loop's handles

PassKinds == [h \in Handles |-> IF h = s1 THEN "stream" ELSE "idle"]

VARIABLE part

loop_part_vars == <<part, vars, async_vars>>

LoopPart(A) == part = "loop" /\ A /\ UNCHANGED <<part, async_vars>>
AsyncPart(A) == part = "async" /\ A /\ UNCHANGED <<part, vars>>

LoopAsyncInit == part \in {"loop", "async"} /\ Init /\ AsyncInit

LoopAsyncNext == LoopPart(Next) \/ AsyncPart(AsyncNext)

\* The fairness of Loop!FairSpec and of Async!AsyncFairSpec, each in its part.
LoopAsyncSpec ==
  /\ LoopAsyncInit
  /\ [][LoopAsyncNext]_loop_part_vars
  /\ WF_loop_part_vars(LoopPart(LoopStep \/ CallbackReturn))
  /\ SF_loop_part_vars(LoopPart(PollReturn))
  /\ \A s \in Senders : WF_loop_part_vars(AsyncPart(SenderStep(s)))
  /\ WF_loop_part_vars(AsyncPart(AsyncStep))
=============================================================================
