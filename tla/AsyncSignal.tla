---------------------------- MODULE AsyncSignal ----------------------------
(***************************************************************************)
(* What uv_async_t promises, without saying how: a coalescing signal per   *)
(* handle.  A send raises the signal, the loop thread lowers it and runs   *)
(* the callback, and a raised signal of a handle that stays open is always *)
(* delivered.  Module Async is shown to implement this specification.      *)
(***************************************************************************)
CONSTANT Handles        \* the uv_async_t objects

VARIABLES
  open,                 \* handles initialised and not closed
  raised                \* handles whose callback is owed to a sender

vars == <<open, raised>>

Init == open = {} /\ raised = {}

\* uv_async_init(): a handle starts without a signal, whatever happened to
\* the memory it occupies before.
Open(h) ==
  /\ h \notin open
  /\ open' = open \cup {h}
  /\ raised' = raised \ {h}

\* A send takes effect; sends before the next delivery are merged into it.
\* A sender that entered uv_async_send() before the close may still get here.
Raise(h) ==
  /\ raised' = raised \cup {h}
  /\ UNCHANGED open

\* One callback answers every send merged so far.
Deliver(h) ==
  /\ h \in open \cap raised
  /\ raised' = raised \ {h}
  /\ UNCHANGED open

\* uv_close() drops an undelivered signal with the handle.
Close(h) ==
  /\ h \in open
  /\ open' = open \ {h}
  /\ raised' = raised \ {h}

Next == \E h \in Handles : Open(h) \/ Raise(h) \/ Deliver(h) \/ Close(h)

Spec == Init /\ [][Next]_vars

\* No signal of an open handle stays undelivered for ever.
Delivery == \A h \in Handles : WF_vars(Deliver(h))
FairSpec == Spec /\ Delivery
=============================================================================
