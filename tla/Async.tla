------------------------------- MODULE Async -------------------------------
(***************************************************************************)
(* uv_async_t on Unix (libuv/src/unix/async.c): threads wake an event loop *)
(* through one eventfd shared by all the async handles of the loop.        *)
(*                                                                         *)
(* Each handle has a three-valued word, pending: 0 (no send outstanding),  *)
(* 1 (a sender is between its two compare-and-swaps) and 2 (the sender is  *)
(* done, the callback is due).  A step of a sender is one shared access of *)
(* uv_async_send(); the loop thread's steps are those of uv__async_io(),   *)
(* of the callback it runs, and of uv_close() up to the end of the close.  *)
(* The eventfd is abstracted to "readable": a counter that read() resets,  *)
(* whose writes cannot be told apart, and whose EAGAIN means readable.     *)
(* The handle lists are sets: uv__async_io() visits every member once, and *)
(* no property depends on the order.                                       *)
(***************************************************************************)
EXTENDS Naturals, FiniteSets

CONSTANTS
  Asyncs,          \* the uv_async_t objects of one loop
  Senders,          \* threads other than the loop thread
  NoHandle          \* "not in a uv_async_send() call"

ASSUME NoHandleAssumption == NoHandle \notin Asyncs

VARIABLES
  state,            \* state[h]: "none", "open", "closing" or "closed"
  pending,          \* handle->pending
  readable,         \* the eventfd of loop->async_io_watcher has been written
  async_handles,    \* loop->async_handles
  async_queue,            \* the local list of uv__async_io(), still to be visited
  pc,               \* pc[s]: next shared access of sender s
  target,           \* target[s]: the handle s is sending to
  loop,             \* loop thread: "poll", "scan" or "callback"
  owed              \* history: handles with a send begun since their last callback

async_vars == <<state, pending, readable, async_handles, async_queue, pc, target, loop, owed>>

senderVars == <<pc, target>>
loopVars == <<state, async_handles, async_queue, loop>>

AsyncInit ==
  /\ state = [h \in Asyncs |-> "none"]
  /\ pending = [h \in Asyncs |-> 0]
  /\ readable = FALSE
  /\ async_handles = {}
  /\ async_queue = {}
  /\ pc = [s \in Senders |-> "idle"]
  /\ target = [s \in Senders |-> NoHandle]
  /\ loop = "poll"
  /\ owed = {}

-----------------------------------------------------------------------------
(* uv_async_send(), called by a thread that is not the loop thread.        *)

\* The thread enters the call.  The API asks for an initialised handle that
\* is not being closed; the close may overtake the call from here on.
SendCall(s, h) ==
  /\ pc[s] = "idle"
  /\ state[h] = "open"
  /\ pc' = [pc EXCEPT ![s] = "check"]
  /\ target' = [target EXCEPT ![s] = h]
  /\ owed' = owed \cup {h}
  /\ UNCHANGED <<state, pending, readable, async_handles, async_queue, loop>>

SendEnds(s) ==
  /\ pc' = [pc EXCEPT ![s] = "idle"]
  /\ target' = [target EXCEPT ![s] = NoHandle]

\* ACCESS_ONCE(handle->pending) != 0: the cheap read that merges most sends.
SendCheck(s) ==
  /\ pc[s] = "check"
  /\ \/ pending[target[s]] # 0 /\ SendEnds(s)
     \/ /\ pending[target[s]] = 0
        /\ pc' = [pc EXCEPT ![s] = "claim"]
        /\ UNCHANGED target
  /\ UNCHANGED <<pending, readable, owed, loopVars>>

\* cmpxchgi(&handle->pending, 0, 1)
SendClaim(s) ==
  /\ pc[s] = "claim"
  /\ \/ pending[target[s]] # 0 /\ SendEnds(s) /\ UNCHANGED pending
     \/ /\ pending[target[s]] = 0
        /\ pending' = [pending EXCEPT ![target[s]] = 1]
        /\ pc' = [pc EXCEPT ![s] = "write"]
        /\ UNCHANGED target
  /\ UNCHANGED <<readable, owed, loopVars>>

\* uv__async_send(): write() to the eventfd; EAGAIN leaves it readable.
SendWrite(s) ==
  /\ pc[s] = "write"
  /\ readable' = TRUE
  /\ pc' = [pc EXCEPT ![s] = "publish"]
  /\ UNCHANGED <<pending, target, owed, loopVars>>

\* cmpxchgi(&handle->pending, 1, 2); any other value would abort().
SendPublish(s) ==
  /\ pc[s] = "publish"
  /\ pending[target[s]] = 1
  /\ pending' = [pending EXCEPT ![target[s]] = 2]
  /\ SendEnds(s)
  /\ UNCHANGED <<readable, owed, loopVars>>

-----------------------------------------------------------------------------
(* The loop thread.                                                        *)

\* The user's code runs between two polls and inside a callback.
AsyncUserCode == loop \in {"poll", "callback"}

\* Mutant of uv_async_init: handle->pending = 0 is missing.
InitKeepsPending(h) ==
  /\ AsyncUserCode
  /\ state[h] \in {"none", "closed"}
  /\ \A s \in Senders : target[s] # h
  /\ state' = [state EXCEPT ![h] = "open"]
  /\ async_handles' = async_handles \cup {h}
  /\ UNCHANGED <<pending, readable, async_queue, loop, owed, senderVars>>

\* uv_async_init(): the handle is active at once.  The memory of a closed
\* handle is used again only when no thread is still inside a send to it.
uv_async_init(h) ==
  /\ AsyncUserCode
  /\ state[h] \in {"none", "closed"}
  /\ \A s \in Senders : target[s] # h
  /\ state' = [state EXCEPT ![h] = "open"]
  /\ pending' = [pending EXCEPT ![h] = 0]
  /\ async_handles' = async_handles \cup {h}
  /\ UNCHANGED <<readable, async_queue, loop, owed, senderVars>>

\* uv_async_send() from the loop thread: its accesses are not separated,
\* since no other thread changes a pending word that it has claimed.
LoopSend(h) ==
  /\ AsyncUserCode
  /\ state[h] = "open"
  /\ \/ pending[h] # 0 /\ UNCHANGED <<pending, readable>>
     \/ /\ pending[h] = 0
        /\ pending' = [pending EXCEPT ![h] = 2]
        /\ readable' = TRUE
  /\ owed' = owed \cup {h}
  /\ UNCHANGED <<loopVars, senderVars>>

\* uv__async_spin(): cmpxchgi(&handle->pending, 2, 0) until it is not 1.
Spin(h) ==
  /\ pending[h] # 1
  /\ pending' = [pending EXCEPT ![h] = 0]

\* Mutant of uv__async_close: the handle is closed without uv__async_spin().
CloseWithoutSpin(h) ==
  /\ AsyncUserCode
  /\ state[h] = "open"
  /\ state' = [state EXCEPT ![h] = "closing"]
  /\ async_handles' = async_handles \ {h}
  /\ async_queue' = async_queue \ {h}
  /\ owed' = owed \ {h}
  /\ UNCHANGED <<pending, readable, loop, senderVars>>

\* uv_close() -> uv__async_close() -> uv__make_close_pending()
uv__async_close(h) ==
  /\ AsyncUserCode
  /\ state[h] = "open"
  /\ Spin(h)
  /\ state' = [state EXCEPT ![h] = "closing"]
  /\ async_handles' = async_handles \ {h}
  /\ async_queue' = async_queue \ {h}
  /\ owed' = owed \ {h}
  /\ UNCHANGED <<readable, loop, senderVars>>

\* uv__finish_close(), in the closing phase of the loop iteration.
FinishClose(h) ==
  /\ loop = "poll"
  /\ state[h] = "closing"
  /\ state' = [state EXCEPT ![h] = "closed"]
  /\ UNCHANGED <<pending, readable, async_handles, async_queue, loop, owed, senderVars>>

\* uv__async_io(): the poll found the eventfd readable; drain it, then take
\* all the handles.
AsyncIoStart ==
  /\ loop = "poll"
  /\ readable
  /\ readable' = FALSE
  /\ async_queue' = async_handles
  /\ async_handles' = {}
  /\ loop' = "scan"
  /\ UNCHANGED <<state, pending, owed, senderVars>>

\* uv__async_io(): one turn of the loop over the handles.
AsyncIoVisit(h) ==
  /\ loop = "scan"
  /\ h \in async_queue
  /\ async_queue' = async_queue \ {h}
  /\ async_handles' = async_handles \cup {h}
  /\ Spin(h)
  /\ IF pending[h] = 0
       THEN UNCHANGED <<loop, owed>>
       ELSE loop' = "callback" /\ owed' = owed \ {h}
  /\ UNCHANGED <<state, readable, senderVars>>

AsyncReturn ==
  /\ loop = "callback"
  /\ loop' = "scan"
  /\ UNCHANGED <<state, pending, readable, async_handles, async_queue, owed, senderVars>>

\* Mutant of AsyncIoEnd: the eventfd is drained after the scan.
EndDrains ==
  /\ loop = "scan"
  /\ async_queue = {}
  /\ loop' = "poll"
  /\ readable' = FALSE
  /\ UNCHANGED <<state, pending, async_handles, async_queue, owed, senderVars>>

AsyncIoEnd ==
  /\ loop = "scan"
  /\ async_queue = {}
  /\ loop' = "poll"
  /\ UNCHANGED <<state, pending, readable, async_handles, async_queue, owed, senderVars>>

-----------------------------------------------------------------------------
SenderStep(s) == SendCheck(s) \/ SendClaim(s) \/ SendWrite(s) \/ SendPublish(s)

AsyncStep ==
  \/ AsyncIoStart
  \/ \E h \in Asyncs : AsyncIoVisit(h)
  \/ AsyncReturn
  \/ AsyncIoEnd

UserStep(h) == uv_async_init(h) \/ LoopSend(h) \/ uv__async_close(h) \/ FinishClose(h)

AsyncNext ==
  \/ \E s \in Senders, h \in Asyncs : SendCall(s, h)
  \/ \E s \in Senders : SenderStep(s)
  \/ AsyncStep
  \/ \E h \in Asyncs : UserStep(h)

AsyncSpec == AsyncInit /\ [][AsyncNext]_async_vars

(***************************************************************************)
(* AsyncFairness.  Every thread is scheduled: a sender inside uv_async_send()   *)
(* and the loop thread inside uv__async_io() go on, a callback returns and *)
(* a readable eventfd is polled.  Nobody is obliged to send or to close.   *)
(***************************************************************************)
AsyncFairness == (\A s \in Senders : WF_async_vars(SenderStep(s))) /\ WF_async_vars(AsyncStep)
AsyncFairSpec == AsyncSpec /\ AsyncFairness

-----------------------------------------------------------------------------
(* Properties.                                                             *)

AsyncTypeOK ==
  /\ state \in [Asyncs -> {"none", "open", "closing", "closed"}]
  /\ pending \in [Asyncs -> 0..2]
  /\ readable \in BOOLEAN
  /\ async_handles \subseteq Asyncs
  /\ async_queue \subseteq Asyncs
  /\ pc \in [Senders -> {"idle", "check", "claim", "write", "publish"}]
  /\ target \in [Senders -> Asyncs \cup {NoHandle}]
  /\ loop \in {"poll", "scan", "callback"}
  /\ owed \subseteq Asyncs

\* Sender s has claimed handle h and has not published it yet.
Holds(s, h) == pc[s] \in {"write", "publish"} /\ target[s] = h

\* The claim is a lock: the second compare-and-swap of uv_async_send() always
\* finds 1 (its abort() is unreachable) and two senders never hold one handle.
ClaimExclusive ==
  /\ \A s \in Senders : pc[s] \in {"write", "publish"} => pending[target[s]] = 1
  /\ \A s, t \in Senders, h \in Asyncs : Holds(s, h) /\ Holds(t, h) => s = t

\* No lost wake-up: a callback that is due on an open handle has either a
\* readable eventfd to start uv__async_io() or a place in its current scan.
NoLostWakeup ==
  \A h \in Asyncs :
    state[h] = "open" /\ pending[h] = 2 => readable \/ h \in async_queue

\* A send that merged into another (the early returns of uv_async_send())
\* is not forgotten: until the callback, somebody's send is outstanding.
MergedSendRemembered ==
  \A h \in owed :
    \/ pending[h] # 0
    \/ \E s \in Senders : pc[s] \in {"check", "claim"} /\ target[s] = h

\* What the two lists, the loop's phase and the sender's second half have to
\* do with each other; with the properties above this is inductive.
Bookkeeping ==
  /\ \A s \in Senders : pc[s] = "idle" <=> target[s] = NoHandle
  /\ \A h \in Asyncs : pending[h] = 1 => \E s \in Senders : Holds(s, h)
  /\ \A h \in Asyncs : state[h] = "open" <=> h \in async_handles \cup async_queue
  /\ loop = "poll" => async_queue = {}
  /\ \A h \in owed : state[h] = "open"
  /\ \A s \in Senders, h \in Asyncs :
       pc[s] = "publish" /\ target[s] = h /\ state[h] = "open"
         => readable \/ h \in async_queue

AsyncInv ==
  /\ AsyncTypeOK
  /\ ClaimExclusive
  /\ NoLostWakeup
  /\ MergedSendRemembered
  /\ Bookkeeping

\* uv__async_close() never pulls the handle from under a sender that claimed it.
CloseWaitsForSender ==
  [][\A s \in Senders, h \in Asyncs :
       Holds(s, h) /\ state[h] = "open" => state'[h] = "open"]_async_vars

\* The refinement mapping to the abstract signal.
Signal == INSTANCE AsyncSignal
  WITH Handles <- Asyncs,
       open <- {h \in Asyncs : state[h] = "open"},
       raised <- {h \in Asyncs : pending[h] # 0}

\* The pending words, the eventfd and the scan implement the abstract signal,
\* safety and delivery both.
ImplementsSignal == Signal!FairSpec

\* Every uv_async_send() is followed by a callback that starts after the call
\* began, unless the handle is closed first.
SendDelivered == \A h \in Asyncs : h \in owed ~> h \notin owed
=============================================================================
