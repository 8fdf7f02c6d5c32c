---------------------------- MODULE PollProofs ----------------------------
(***************************************************************************)
(* Proofs about what uv__io_poll() is made of: module Poll, for any        *)
(* watchers and descriptors as long as a descriptor has one handle at most *)
(* (Exclusive), then module Timer, for any number of timers and any width  *)
(* of the clock, and module PollTimeout, for any timeouts and any clock    *)
(* that does not run past an int while one poll waits (InSpan).            *)
(*                                                                         *)
(* None of the parts of PollSound is inductive alone.  That epoll_ctl()    *)
(* succeeds needs that a watcher with events is in the interest set under  *)
(* its file (Armed), which a close() could undo, were there a second       *)
(* handle on the descriptor (OneEach) or an entry without a handle         *)
(* (Covered).  That no watcher is deaf needs that one whose events are not *)
(* what it wants is queued (Listed), and that nothing is queued while the  *)
(* poll may block (Quiet).                                                 *)
(***************************************************************************)
EXTENDS Poll, PollTimeout, Timer, FiniteSetTheorems, TLAPS

Records ==
  [pevents : [Ws -> SUBSET Bits], events : [Ws -> SUBSET Bits],
   watcher_queue : Seq(Ws), watchers : [Fds -> Ws \cup {None}], nfds : Nat]

Reports == [fd : Fds \cup {None}, file : 1..MaxFiles, ev : (SUBSET Bits) \ {{}}]

Types ==
  /\ file \in [Fds -> 0..MaxFiles]
  /\ fd \in [Ws -> Fds \cup {None}]
  /\ interest \in SUBSET Entries /\ IsFiniteSet(interest)
  /\ events \in Seq(Reports)
  /\ pc \in {"out", "register", "wait", "dispatch"}
  /\ again \in 0..1 /\ nevents \in 0..1 /\ have_signals \in 0..1 /\ incallback \in 0..1

\* The descriptors that have a watcher
Taken(s) == {f \in Fds : s.watchers[f] # None}

\* The watchers by themselves: s is the record io and d is fd.
Listed(s, d) ==
  /\ s \in Records
  /\ \A w \in Ws : s.events[w] # {} => s.pevents[w] # {}
  /\ \A w \in Ws : s.pevents[w] # {} => d[w] # None /\ s.watchers[d[w]] = w
  /\ \A f \in Taken(s) : d[s.watchers[f]] = f /\ s.pevents[s.watchers[f]] # {}
  /\ NoDup(s.watcher_queue)
  /\ \A w \in In(s.watcher_queue) : s.pevents[w] # {}
  /\ \A w \in Ws : s.pevents[w] # s.events[w] => w \in In(s.watcher_queue)
  /\ IsFiniteSet(Taken(s)) /\ s.nfds = Cardinality(Taken(s))

\* A descriptor has one handle at most, and stays open as long as it has it.
OneEach ==
  /\ \A v, w \in Ws : fd[v] = fd[w] /\ fd[v] # None => v = w
  /\ \A w \in Ws : fd[w] # None => file[fd[w]] # 0

\* The kernel's entry for a watcher
Entry(w) == [fd |-> fd[w], file |-> file[fd[w]], ev |-> io.events[w]]

\* What the kernel was told of a watcher, it knows.
Armed == \A w \in Ws : io.events[w] # {} => Entry(w) \in interest

HasHandle(f) == \E w \in Ws : fd[w] = f

\* What the kernel knows, or has reported, is about the file of a handle.
Covered ==
  /\ \A r \in interest : file[r.fd] = r.file /\ HasHandle(r.fd)
  /\ \A i \in DOMAIN events :
       events[i].fd # None => file[events[i].fd] = events[i].file /\ HasHandle(events[i].fd)

\* Callbacks run outside the poll or in the dispatch; before a wait that may
\* block there was none since the watchers were registered.
Quiet ==
  /\ pc \in {"register", "wait"} => incallback = 0
  /\ pc = "dispatch" /\ incallback = 1 => nevents = 1
  /\ pc = "wait" /\ again = 0 => io.watcher_queue = <<>>
  /\ pc = "dispatch" /\ again = 0 /\ nevents = 0 => io.watcher_queue = <<>>

PollInv == Types /\ Listed(io, fd) /\ OneEach /\ Armed /\ Covered /\ Quiet

-----------------------------------------------------------------------------
(* uv__io_start() and uv__io_stop().                                       *)

\* Linking a watcher that is not linked yet
LEMMA EnqueueLinks ==
  ASSUME NEW q \in Seq(Ws), NoDup(q), NEW w \in Ws
  PROVE  /\ Enqueue(q, w) \in Seq(Ws) /\ NoDup(Enqueue(q, w))
         /\ In(Enqueue(q, w)) = In(q) \cup {w}
  BY InsertTail DEF Enqueue

\* With one handle for a descriptor, its watcher is that of the handle.
LEMMA OwnWatcher ==
  ASSUME NEW s, Listed(s, fd), Types, OneEach, NEW w \in Ws, fd[w] # None
  PROVE  /\ fd[w] \in Fds /\ s.watchers[fd[w]] \in {None, w}
         /\ s.watchers[fd[w]] = w <=> s.pevents[w] # {}
         /\ \A v \in Ws : v # w => fd[v] # fd[w]
  <1>1. fd[w] \in Fds /\ s.watchers[fd[w]] \in Ws \cup {None}
    BY DEF Listed, Records, Types
  <1>2. s.watchers[fd[w]] # None => s.watchers[fd[w]] = w
    BY <1>1 DEF Listed, Taken, OneEach
  <1>3. s.watchers[fd[w]] = w => s.pevents[w] # {}
    BY <1>1, PollAssumption DEF Listed, Taken
  <1> QED
    BY <1>1, <1>2, <1>3 DEF Listed, OneEach

\* uv__io_start() keeps what is wanted, watched, counted and queued together.
LEMMA StartListed ==
  ASSUME NEW s, Listed(s, fd), Types, OneEach, NEW w \in Ws, fd[w] # None,
         NEW ev \in (SUBSET Bits) \ {{}}
  PROVE  /\ Listed(uv__io_start(s, w, ev), fd)
         /\ uv__io_start(s, w, ev).events = s.events
  <1> DEFINE p == s.pevents[w] \cup ev
             t == uv__io_start(s, w, ev)
  <1>0. s \in Records /\ s.pevents[w] \in SUBSET Bits
    BY DEF Listed, Records
  <1>1. s \in Records /\ p \in SUBSET Bits /\ p # {} /\ fd[w] \in Fds
    BY <1>0 DEF Types
  <1>2. CASE s.events[w] = p
    <2>1. t = [s EXCEPT !.pevents[w] = p]
      BY <1>2 DEF uv__io_start
    <2>2. /\ t \in Records /\ t.pevents = [s.pevents EXCEPT ![w] = p]
          /\ t.events = s.events /\ t.watcher_queue = s.watcher_queue
          /\ t.watchers = s.watchers /\ t.nfds = s.nfds
      BY SMTT(30), <1>1, <2>1 DEF Records
    <2>3. s.pevents[w] # {}
      BY <1>1, <1>2 DEF Listed
    <2>4. Taken(t) = Taken(s)
      BY <2>2 DEF Taken
    <2>5. \A v \in Ws : t.pevents[v] = IF v = w THEN p ELSE s.pevents[v]
      BY <1>1, <2>2 DEF Records
    <2>6. \A f \in Taken(s) : s.watchers[f] \in Ws
      BY <1>1 DEF Taken, Records
    <2>7. \A v \in In(s.watcher_queue) : v \in Ws
      BY <1>1 DEF Records, In
    <2> HIDE DEF p, t
    <2> QED
      BY <1>1, <1>2, <2>2, <2>3, <2>4, <2>5, <2>6, <2>7 DEF Listed, t
  <1>3. CASE s.events[w] # p
    <2> DEFINE free == s.watchers[fd[w]] = None
    <2>1. t = [s EXCEPT !.pevents[w] = p,
                    !.watcher_queue = Enqueue(@, w),
                    !.watchers[fd[w]] = IF free THEN w ELSE @,
                    !.nfds = IF free THEN @ + 1 ELSE @]
      BY <1>3 DEF uv__io_start
    <2>2. /\ Enqueue(s.watcher_queue, w) \in Seq(Ws) /\ NoDup(Enqueue(s.watcher_queue, w))
          /\ In(Enqueue(s.watcher_queue, w)) = In(s.watcher_queue) \cup {w}
      BY <1>1, EnqueueLinks DEF Listed, Records
    <2>3. free \/ s.watchers[fd[w]] = w
      BY OwnWatcher
    <2>f. free \in BOOLEAN /\ (free => s.watchers[fd[w]] # w)
      BY PollAssumption
    <2> HIDE DEF p, free
    <2>g. [s.watchers EXCEPT ![fd[w]] = IF free THEN w ELSE @] = [s.watchers EXCEPT ![fd[w]] = w]
      BY <1>1, <2>3 DEF Records
    <2>h. /\ t.pevents = [s.pevents EXCEPT ![w] = p]
          /\ t.events = s.events /\ t.watcher_queue = Enqueue(s.watcher_queue, w)
          /\ t.watchers = [s.watchers EXCEPT ![fd[w]] = w]
          /\ t.nfds = IF free THEN s.nfds + 1 ELSE s.nfds
          /\ t = [pevents |-> t.pevents, events |-> t.events, watcher_queue |-> t.watcher_queue,
                  watchers |-> t.watchers, nfds |-> t.nfds]
      BY <1>1, <2>1, <2>g DEF Records
    <2>4. /\ t \in Records /\ t.pevents = [s.pevents EXCEPT ![w] = p]
          /\ t.events = s.events /\ t.watcher_queue = Enqueue(s.watcher_queue, w)
          /\ t.watchers = [s.watchers EXCEPT ![fd[w]] = w]
          /\ t.nfds = IF free THEN s.nfds + 1 ELSE s.nfds
      BY <1>1, <2>2, <2>f, <2>h DEF Records
    <2>5. \A v \in Ws : t.pevents[v] = IF v = w THEN p ELSE s.pevents[v]
      BY <1>1, <2>4 DEF Records
    <2>6. \A f \in Fds : t.watchers[f] = IF f = fd[w] THEN w ELSE s.watchers[f]
      BY <1>1, <2>4 DEF Records
    <2>7. Taken(t) = Taken(s) \cup {fd[w]} /\ (free <=> fd[w] \notin Taken(s))
      BY <1>1, <2>6, PollAssumption DEF Taken, free
    <2>8. IsFiniteSet(Taken(t)) /\ t.nfds = Cardinality(Taken(t))
      <3>1. IsFiniteSet(Taken(s)) /\ s.nfds = Cardinality(Taken(s))
        BY DEF Listed
      <3>2. CASE free
        <4>1. /\ IsFiniteSet(Taken(s) \cup {fd[w]})
              /\ Cardinality(Taken(s) \cup {fd[w]}) = Cardinality(Taken(s)) + 1
          BY <2>7, <3>1, <3>2, FS_AddElement
        <4> QED
          BY <2>4, <2>7, <3>1, <3>2, <4>1
      <3>3. CASE ~free
        <4>1. Taken(s) \cup {fd[w]} = Taken(s)
          BY <2>7, <3>3
        <4> QED
          BY <2>4, <2>7, <3>1, <3>3, <4>1
      <3> QED
        BY <3>2, <3>3
    <2>9. \A f \in Taken(s) : f \in Fds /\ s.watchers[f] \in Ws
      BY <1>1 DEF Taken, Records
    <2>10. \A v \in Ws : v # w => fd[v] # fd[w] /\ (fd[v] # None => fd[v] \in Fds)
      BY OwnWatcher DEF Types
    <2>11. \A v \in In(s.watcher_queue) : v \in Ws
      BY <1>1 DEF Records, In
    <2> HIDE DEF t
    <2> QED
      BY <1>1, <2>2, <2>4, <2>5, <2>6, <2>7, <2>8, <2>9, <2>10, <2>11 DEF Listed, t
  <1> QED
    BY <1>2, <1>3

\* uv__io_stop() does too; the kernel knows of the watcher what it knew, or nothing is
\* left to be known.
LEMMA StopListed ==
  ASSUME NEW s, Listed(s, fd), Types, OneEach, NEW w \in Ws, fd[w] # None,
         NEW ev \in SUBSET Bits
  PROVE  /\ Listed(uv__io_stop(s, w, ev), fd)
         /\ \A v \in Ws : uv__io_stop(s, w, ev).events[v] \in {{}, s.events[v]}
         /\ uv__io_stop(s, w, ev).pevents = [s.pevents EXCEPT ![w] = s.pevents[w] \ ev]
         /\ s.watcher_queue = <<>> /\ s.pevents[w] \ ev = {}
              => uv__io_stop(s, w, ev).watcher_queue = <<>>
  <1> DEFINE p == s.pevents[w] \ ev
             t == uv__io_stop(s, w, ev)
             mine == s.watchers[fd[w]] = w
  <1>0. s \in Records /\ s.pevents[w] \in SUBSET Bits
    BY DEF Listed, Records
  <1>1. s \in Records /\ p \in SUBSET Bits /\ fd[w] \in Fds /\ s.watcher_queue \in Seq(Ws)
    BY <1>0 DEF Types, Records
  <1>2. mine \in BOOLEAN /\ (mine <=> s.pevents[w] # {})
    BY OwnWatcher
  <1>3. mine => s.watchers[fd[w]] = w
    OBVIOUS
  <1>4. ~mine => s.watchers[fd[w]] = None
    BY OwnWatcher
  <1>5. /\ \A v \in In(s.watcher_queue) : v \in Ws
        /\ \A f \in Taken(s) : f \in Fds /\ s.watchers[f] \in Ws
        /\ w # None
    BY <1>1, PollAssumption DEF In, Taken, Records
  <1>6. \A v \in Ws : v # w => fd[v] # fd[w] /\ (fd[v] # None => fd[v] \in Fds)
    BY OwnWatcher DEF Types
  <1>7. CASE p = {}
    <2>1. t = [s EXCEPT !.pevents[w] = {}, !.events[w] = {},
                    !.watcher_queue = Without(@, w),
                    !.watchers[fd[w]] = IF mine THEN None ELSE @,
                    !.nfds = IF mine THEN @ - 1 ELSE @]
      BY <1>7 DEF uv__io_stop
    <2>2. /\ Without(s.watcher_queue, w) \in Seq(Ws) /\ NoDup(Without(s.watcher_queue, w))
          /\ In(Without(s.watcher_queue, w)) = In(s.watcher_queue) \ {w}
      <3>1. NoDup(s.watcher_queue)
        BY DEF Listed
      <3> QED
        BY <1>1, <3>1, Unlinked
    <2> HIDE DEF p, mine
    <2>3. [s.watchers EXCEPT ![fd[w]] = IF mine THEN None ELSE @]
            = [s.watchers EXCEPT ![fd[w]] = None]
      BY <1>1, <1>4 DEF Records
    <2>4. /\ t.pevents = [s.pevents EXCEPT ![w] = {}]
          /\ t.events = [s.events EXCEPT ![w] = {}]
          /\ t.watcher_queue = Without(s.watcher_queue, w)
          /\ t.watchers = [s.watchers EXCEPT ![fd[w]] = None]
          /\ t.nfds = IF mine THEN s.nfds - 1 ELSE s.nfds
          /\ t = [pevents |-> t.pevents, events |-> t.events, watcher_queue |-> t.watcher_queue,
                  watchers |-> t.watchers, nfds |-> t.nfds]
      BY <1>1, <2>1, <2>3 DEF Records
    <2>5. \A v \in Ws : /\ t.pevents[v] = IF v = w THEN {} ELSE s.pevents[v]
                        /\ t.events[v] = IF v = w THEN {} ELSE s.events[v]
      BY <1>1, <2>4 DEF Records
    <2>6. \A f \in Fds : t.watchers[f] = IF f = fd[w] THEN None ELSE s.watchers[f]
      BY <1>1, <2>4 DEF Records
    <2>7. Taken(t) = Taken(s) \ {fd[w]} /\ (mine <=> fd[w] \in Taken(s))
      BY <1>1, <1>2, <1>3, <1>4, <1>5, <2>6 DEF Taken
    <2>8. IsFiniteSet(Taken(t)) /\ t.nfds = Cardinality(Taken(t)) /\ t.nfds \in Nat
      <3>1. IsFiniteSet(Taken(s)) /\ s.nfds = Cardinality(Taken(s)) /\ s.nfds \in Nat
        BY <1>1 DEF Listed, Records
      <3>2. CASE mine
        <4>1. /\ IsFiniteSet(Taken(s) \ {fd[w]})
              /\ Cardinality(Taken(s) \ {fd[w]}) = Cardinality(Taken(s)) - 1
          BY <2>7, <3>1, <3>2, FS_RemoveElement
        <4>2. Cardinality(Taken(s) \ {fd[w]}) \in Nat
          BY <4>1, FS_CardinalityType
        <4> QED
          BY <2>4, <2>7, <3>1, <3>2, <4>1, <4>2
      <3>3. CASE ~mine
        <4>1. Taken(s) \ {fd[w]} = Taken(s)
          BY <2>7, <3>3
        <4> QED
          BY <2>4, <2>7, <3>1, <3>3, <4>1
      <3> QED
        BY <3>2, <3>3
    <2>9. t \in Records
      <3>1. /\ t.pevents \in [Ws -> SUBSET Bits] /\ t.events \in [Ws -> SUBSET Bits]
            /\ t.watchers \in [Fds -> Ws \cup {None}]
        BY <1>1, <2>4 DEF Records
      <3>2. t.watcher_queue \in Seq(Ws) /\ t.nfds \in Nat
        BY <2>2, <2>4, <2>8
      <3> HIDE DEF t
      <3> QED
        BY <2>4, <3>1, <3>2 DEF Records
    <2>10. t.pevents = [s.pevents EXCEPT ![w] = p]
      BY <1>7, <2>4
    <2>11. s.watcher_queue = <<>> => t.watcher_queue = <<>>
      BY <2>4 DEF Without, In
    <2> HIDE DEF t
    <2>12. Listed(t, fd)
      BY <1>1, <1>5, <1>6, <2>2, <2>4, <2>5, <2>6, <2>7, <2>8, <2>9 DEF Listed
    <2> QED
      BY <2>5, <2>10, <2>11, <2>12 DEF p, t
  <1>8. CASE p # {}
    <2>1. t = [s EXCEPT !.pevents[w] = p, !.watcher_queue = Enqueue(@, w)]
      BY <1>8 DEF uv__io_stop
    <2>2. /\ Enqueue(s.watcher_queue, w) \in Seq(Ws) /\ NoDup(Enqueue(s.watcher_queue, w))
          /\ In(Enqueue(s.watcher_queue, w)) = In(s.watcher_queue) \cup {w}
      BY <1>1, EnqueueLinks DEF Listed
    <2>3. s.pevents[w] # {}
      BY <1>8
    <2> HIDE DEF p, mine
    <2>4. /\ t.pevents = [s.pevents EXCEPT ![w] = p]
          /\ t.events = s.events
          /\ t.watcher_queue = Enqueue(s.watcher_queue, w)
          /\ t.watchers = s.watchers /\ t.nfds = s.nfds
          /\ t = [pevents |-> t.pevents, events |-> t.events, watcher_queue |-> t.watcher_queue,
                  watchers |-> t.watchers, nfds |-> t.nfds]
      BY <1>1, <2>1 DEF Records
    <2>5. \A v \in Ws : t.pevents[v] = IF v = w THEN p ELSE s.pevents[v]
      BY <1>1, <2>4 DEF Records
    <2>6. Taken(t) = Taken(s)
      BY <2>4 DEF Taken
    <2>7. t \in Records
      BY <1>1, <2>2, <2>4 DEF Records
    <2> HIDE DEF t
    <2>8. Listed(t, fd)
      BY <1>1, <1>5, <1>8, <2>2, <2>3, <2>4, <2>5, <2>6, <2>7 DEF Listed
    <2> QED
      BY <1>8, <2>4, <2>8 DEF p, t
  <1> QED
    BY <1>7, <1>8

-----------------------------------------------------------------------------
(* What user code does to the kernel and to the batch.                     *)

\* Nothing is watched, known or reported when the loop is made.
LEMMA InitPollInv == Init => PollInv
  <1> SUFFICES ASSUME Init PROVE PollInv
    OBVIOUS
  <1> USE PollAssumption DEF Init
  <1>1. Types
    BY FS_EmptySet DEF Types
  <1>2. Taken(io) = {}
    BY DEF Taken
  <1>3. IsFiniteSet(Taken(io)) /\ io.nfds = Cardinality(Taken(io))
    BY <1>2, FS_EmptySet
  <1>4. Listed(io, fd)
    <2>1. io \in Records
      BY EmptyList DEF Records
    <2> QED
      BY <1>2, <1>3, <2>1, EmptyList DEF Listed
  <1>5. OneEach /\ Armed /\ Covered /\ Quiet
    BY DEF OneEach, Armed, Covered, Quiet
  <1> QED
    BY <1>1, <1>4, <1>5 DEF PollInv

\* EPOLL_CTL_DEL of a descriptor, closed or not, deletes all the entries of its number.
LEMMA CtlDelIs ==
  ASSUME Covered, NEW f
  PROVE  CtlDel(interest, f) = {r \in interest : r.fd # f}
  BY DEF CtlDel, Registered, Covered

\* uv__platform_invalidate_fd() leaves no report about the descriptor.
LEMMA InvalidatedIs ==
  ASSUME Types, NEW f \in Fds
  PROVE  /\ Invalidated(f) \in Seq(Reports)
         /\ \A i \in DOMAIN Invalidated(f) :
              /\ i \in DOMAIN events
              /\ Invalidated(f)[i].fd # None =>
                   Invalidated(f)[i] = events[i] /\ events[i].fd # f
  <1>1. events \in Seq(Reports) /\ DOMAIN events = 1..Len(events) /\ Len(events) \in Nat
    BY DEF Types
  <1>0. \A i \in DOMAIN events : events[i] \in Reports
    BY <1>1
  <1>2. \A r \in Reports : [r EXCEPT !.fd = None] \in Reports /\ [r EXCEPT !.fd = None].fd = None
    BY DEF Reports
  <1>3. Invalidated(f) \in [1..Len(events) -> Reports]
    BY <1>0, <1>1, <1>2 DEF Invalidated
  <1>4. \A i \in DOMAIN events : [events[i] EXCEPT !.fd = None].fd = None
    BY <1>0, <1>2
  <1>5. \A i \in DOMAIN Invalidated(f) :
          i \in DOMAIN events /\ (Invalidated(f)[i].fd # None =>
                                    Invalidated(f)[i] = events[i] /\ events[i].fd # f)
    BY <1>1, <1>4 DEF Invalidated
  <1> QED
    BY <1>1, <1>3, <1>5

\* What user code does to the watchers cannot break Quiet.
LEMMA QuietUser ==
  ASSUME PollInv, UserCode, UNCHANGED <<local, incallback>>
  PROVE  Quiet'
  BY DEF PollInv, Types, Quiet, UserCode, local

\* An open handle that wants nothing, or is not open, has told the kernel nothing.
LEMMA Unarmed ==
  ASSUME PollInv, NEW w \in Ws, fd[w] = None
  PROVE  /\ io.pevents[w] = {} /\ io.events[w] = {}
         /\ \A f : uv__io_init(w, f) => io' = io
  <1>1. io \in Records /\ io.pevents[w] = {} /\ io.events[w] = {}
    BY DEF PollInv, Listed
  <1>2. [io EXCEPT !.pevents[w] = {}, !.events[w] = {}] = io
    BY <1>1 DEF Records
  <1> QED
    BY <1>1, <1>2 DEF uv__io_init

\* A descriptor the kernel hands out has no handle, and so no entry and no report of
\* an older file.
LEMMA FreshDescriptor ==
  ASSUME PollInv, NEW f \in Fds, NewFile(f)
  PROVE  /\ \A v \in Ws : fd[v] # f
         /\ \A r \in interest : r.fd # f
         /\ \A i \in DOMAIN events : events[i].fd # f
         /\ file' \in [Fds -> 0..MaxFiles] /\ file'[f] # 0
         /\ \A g \in Fds : g # f => file'[g] = file[g]
  <1>1. file[f] = 0 /\ f # None
    BY PollAssumption DEF NewFile
  <1>2. \A v \in Ws : fd[v] # f
    BY <1>1 DEF PollInv, OneEach
  <1>3. PICK n \in FreshFiles : file' = [file EXCEPT ![f] = n]
    BY DEF NewFile
  <1>4. n \in 1..MaxFiles
    BY <1>3 DEF FreshFiles
  <1>5. file \in [Fds -> 0..MaxFiles]
    BY DEF PollInv, Types
  <1>6. file' \in [Fds -> 0..MaxFiles] /\ file'[f] # 0 /\ \A g \in Fds : g # f => file'[g] = file[g]
    BY <1>3, <1>4, <1>5, PollAssumption
  <1> QED
    BY <1>1, <1>2, <1>6 DEF PollInv, Covered, HasHandle

\* Opening a stream, the signal pipe or a descriptor of the program.
LEMMA OpenSteps ==
  ASSUME PollInv, \/ \E w \in Ws, f \in Fds : Open(w, f)
                  \/ \E f \in Fds : UserOpen(f)
  PROVE  PollInv'
  <1>1. PICK f \in Fds : NewFile(f) /\ \/ UserOpen(f)
                                       \/ \E w \in Ws : Open(w, f)
    BY DEF Open, UserOpen
  <1>2. /\ UserCode /\ UNCHANGED <<interest, local, events, incallback>> /\ io' = io
        /\ \/ fd' = fd
           \/ \E w \in Ws : fd[w] = None /\ fd' = [fd EXCEPT ![w] = f]
    BY <1>1, Unarmed DEF Open, UserOpen, uv__io_init
  <1>3. /\ \A v \in Ws : fd[v] # f
        /\ \A r \in interest : r.fd # f
        /\ \A i \in DOMAIN events : events[i].fd # f
        /\ file' \in [Fds -> 0..MaxFiles] /\ file'[f] # 0
        /\ \A g \in Fds : g # f => file'[g] = file[g]
    BY <1>1, FreshDescriptor
  <1>4. fd \in [Ws -> Fds \cup {None}] /\ interest \in SUBSET Entries /\ events \in Seq(Reports)
    BY DEF PollInv, Types
  <1>5. /\ fd' \in [Ws -> Fds \cup {None}]
        /\ \A v \in Ws : fd[v] # None => fd'[v] = fd[v]
        /\ \A v \in Ws : fd[v] = None => fd'[v] \in {None, f}
        /\ \A u, v \in Ws : fd'[u] = f /\ fd'[v] = f => u = v
    BY <1>2, <1>3, <1>4, PollAssumption
  <1>6. Types'
    BY <1>2, <1>3, <1>5 DEF PollInv, Types, local
  <1>7. \A v \in Ws : io.pevents[v] # {} => fd[v] # None
    BY DEF PollInv, Listed
  <1>8. Listed(io', fd')
    <2>1. Listed(io, fd) /\ \A g \in Taken(io) : io.watchers[g] \in Ws
      BY DEF PollInv, Listed, Taken, Records
    <2> QED
      BY <1>2, <1>5, <1>7, <2>1 DEF Listed
  <1>9. OneEach'
    BY <1>3, <1>4, <1>5, PollAssumption DEF PollInv, OneEach
  <1>10. Armed'
    <2>1. \A v \in Ws : io.events[v] # {} => fd[v] # None /\ Entry(v) \in interest
      BY DEF PollInv, Armed, Listed
    <2>2. \A v \in Ws : fd[v] # None => Entry(v)' = Entry(v)
      BY <1>2, <1>3, <1>4, <1>5 DEF Entry
    <2> QED
      BY <1>2, <2>1, <2>2 DEF Armed
  <1>11. Covered'
    <2>1. \A g \in Fds : HasHandle(g) => HasHandle(g)' /\ file'[g] = file[g]
      BY <1>3, <1>5, PollAssumption DEF HasHandle
    <2>2. /\ \A r \in interest : r.fd \in Fds
          /\ \A i \in DOMAIN events : events[i].fd \in Fds \cup {None}
      <3>1. \A i \in DOMAIN events : events[i] \in Reports
        BY <1>4
      <3> QED
        BY <1>4, <3>1 DEF Entries, Reports
    <2> QED
      BY <1>2, <2>1, <2>2 DEF PollInv, Covered
  <1>12. Quiet'
    BY <1>2, QuietUser
  <1> QED
    BY <1>6, <1>8, <1>9, <1>10, <1>11, <1>12 DEF PollInv

\* The program closes a descriptor that has no handle; uv_poll_init() asks the kernel
\* about one that has none.
LEMMA BareSteps ==
  ASSUME Exclusive = TRUE, PollInv,
         \/ \E w \in Ws, f \in Fds : uv_poll_init(w, f)
         \/ \E f \in Fds : UserClose(f)
  PROVE  PollInv'
  <1>1. PICK f \in Fds : UserClose(f) \/ \E w \in Ws : uv_poll_init(w, f)
    OBVIOUS
  <1>2. /\ UserCode /\ UNCHANGED <<local, events, incallback>> /\ io' = io
        /\ \A v \in Ws : fd[v] # f
        /\ \/ UserClose(f) /\ fd' = fd /\ file' = [file EXCEPT ![f] = 0]
           \/ file' = file /\ file[f] # 0
              /\ \E w \in Ws : fd[w] = None /\ fd' = [fd EXCEPT ![w] = f]
    BY <1>1, Unarmed DEF UserClose, uv_poll_init, uv__io_init
  <1>3. interest' = interest
    <2>1. CtlDel(interest, f) = interest
      <3>1. Covered /\ \A r \in interest : r.fd # f
        BY <1>2 DEF PollInv, Covered, HasHandle
      <3>2. CtlDel(interest, f) = {r \in interest : r.fd # f}
        BY <3>1, CtlDelIs
      <3> QED
        BY <3>1, <3>2
    <2>2. interest' \in Closed(interest, f) \/ interest' = CtlDel(interest, f)
      BY <1>1 DEF UserClose, uv_poll_init
    <2> QED
      BY <2>1, <2>2 DEF Closed
  <1>4. /\ fd \in [Ws -> Fds \cup {None}] /\ interest \in SUBSET Entries
        /\ \A i \in DOMAIN events : events[i] \in Reports
        /\ file \in [Fds -> 0..MaxFiles]
    BY DEF PollInv, Types
  <1>5. /\ fd' \in [Ws -> Fds \cup {None}]
        /\ \A v \in Ws : fd[v] # None => fd'[v] = fd[v]
        /\ \A v \in Ws : fd[v] = None => fd'[v] \in {None, f}
        /\ \A u, v \in Ws : fd'[u] = f /\ fd'[v] = f => u = v
        /\ (\E v \in Ws : fd'[v] = f) => file'[f] # 0
    BY <1>2, <1>4, PollAssumption
  <1>6. /\ file' \in [Fds -> 0..MaxFiles]
        /\ \A g \in Fds : g # f => file'[g] = file[g]
    BY <1>2, <1>4, PollAssumption
  <1>7. Types'
    BY <1>2, <1>3, <1>5, <1>6 DEF PollInv, Types, local
  <1>8. Listed(io', fd')
    <2>1. Listed(io, fd) /\ \A g \in Taken(io) : io.watchers[g] \in Ws
      BY DEF PollInv, Listed, Taken, Records
    <2>2. \A v \in Ws : io.pevents[v] # {} => fd[v] # None
      BY <2>1 DEF Listed
    <2> QED
      BY <1>2, <1>5, <2>1, <2>2 DEF Listed
  <1>9. OneEach'
    BY <1>4, <1>5, <1>6, PollAssumption DEF PollInv, OneEach
  <1>10. Armed'
    <2>1. \A v \in Ws : io.events[v] # {} => fd[v] # None /\ Entry(v) \in interest
      BY DEF PollInv, Armed, Listed
    <2>2. \A v \in Ws : fd[v] # None => Entry(v)' = Entry(v)
      BY <1>2, <1>4, <1>5, <1>6 DEF Entry
    <2> QED
      BY <1>2, <1>3, <2>1, <2>2 DEF Armed
  <1>11. Covered'
    <2>1. \A g \in Fds : HasHandle(g) => HasHandle(g)' /\ file'[g] = file[g]
      BY <1>2, <1>5, <1>6, PollAssumption DEF HasHandle
    <2>2. /\ \A r \in interest : r.fd \in Fds
          /\ \A i \in DOMAIN events : events[i].fd \in Fds \cup {None}
      BY <1>4 DEF Entries, Reports
    <2> QED
      BY <1>2, <1>3, <2>1, <2>2 DEF PollInv, Covered
  <1>12. Quiet'
    BY <1>2, QuietUser
  <1> QED
    BY <1>7, <1>8, <1>9, <1>10, <1>11, <1>12 DEF PollInv

\* A handle is stopped, and the kernel and the batch forget its descriptor; it may be
\* started again, or closed.
LEMMA Released ==
  ASSUME PollInv, NEW w \in Ws, fd[w] # None, UserCode, UNCHANGED <<local, incallback>>,
         Listed(io', fd), io'.events[w] = {},
         \A v \in Ws : io'.events[v] \in {{}, io.events[v]},
         events' = Invalidated(fd[w]), interest' = Forgotten(fd[w]),
         \/ fd' = fd /\ file' = file
         \/ /\ fd' = [fd EXCEPT ![w] = None] /\ io'.pevents[w] = {}
            /\ file' \in {file, [file EXCEPT ![fd[w]] = 0]}
  PROVE  PollInv'
  <1>1. /\ fd \in [Ws -> Fds \cup {None}] /\ interest \in SUBSET Entries
        /\ \A i \in DOMAIN events : events[i] \in Reports
        /\ file \in [Fds -> 0..MaxFiles] /\ IsFiniteSet(interest)
    BY DEF PollInv, Types
  <1>2. fd[w] \in Fds /\ \A v \in Ws : v # w => fd[v] # fd[w]
    BY <1>1 DEF PollInv, OneEach
  <1>3. interest' = {r \in interest : r.fd # fd[w]}
    BY CtlDelIs DEF Forgotten, PollInv
  <1>4. /\ events' \in Seq(Reports)
        /\ \A i \in DOMAIN events' :
             /\ i \in DOMAIN events
             /\ events'[i].fd # None => events'[i] = events[i] /\ events[i].fd # fd[w]
    BY <1>2, InvalidatedIs DEF PollInv
  <1>5. /\ fd' \in [Ws -> Fds \cup {None}]
        /\ \A v \in Ws : v # w => fd'[v] = fd[v]
        /\ fd'[w] \in {None, fd[w]}
        /\ io'.pevents[w] # {} => fd'[w] = fd[w]
        /\ fd'[w] = fd[w] => file' = file
    BY <1>1, PollAssumption
  <1>6. /\ file' \in [Fds -> 0..MaxFiles]
        /\ \A g \in Fds : g # fd[w] => file'[g] = file[g]
    BY <1>1, <1>2, PollAssumption
  <1>7. Types'
    <2>1. interest' \in SUBSET Entries /\ IsFiniteSet(interest')
      BY <1>1, <1>3, FS_Subset
    <2> QED
      BY <1>4, <1>5, <1>6, <2>1 DEF PollInv, Types, local
  <1>8. Listed(io', fd')
    <2>1. \A g \in Taken(io') : io'.watchers[g] \in Ws
      BY DEF Listed, Taken, Records
    <2> QED
      BY <1>5, <2>1 DEF Listed
  <1>9. OneEach'
    BY <1>1, <1>2, <1>5, <1>6 DEF PollInv, OneEach
  <1>10. Armed'
    <2> SUFFICES ASSUME NEW v \in Ws, io'.events[v] # {} PROVE Entry(v)' \in interest'
      BY DEF Armed
    <2>1. v # w /\ io'.events[v] = io.events[v] /\ io.events[v] # {}
      OBVIOUS
    <2>2. fd[v] # None /\ fd[v] # fd[w] /\ fd[v] \in Fds /\ Entry(v) \in interest
      BY <1>1, <1>2, <2>1 DEF PollInv, Armed, Listed
    <2>3. Entry(v)' = Entry(v) /\ Entry(v).fd = fd[v]
      BY <1>5, <1>6, <2>1, <2>2 DEF Entry
    <2> QED
      BY <1>3, <2>2, <2>3
  <1>11. Covered'
    <2>1. \A g \in Fds : g # fd[w] /\ HasHandle(g) => HasHandle(g)' /\ file'[g] = file[g]
      BY <1>2, <1>5, <1>6 DEF HasHandle
    <2>2. /\ \A r \in interest : r.fd \in Fds
          /\ \A i \in DOMAIN events : events[i].fd \in Fds \cup {None}
      BY <1>1 DEF Entries, Reports
    <2> QED
      BY <1>3, <1>4, <2>1, <2>2 DEF PollInv, Covered
  <1>12. Quiet'
    BY QuietUser
  <1> QED
    BY <1>7, <1>8, <1>9, <1>10, <1>11, <1>12 DEF PollInv

\* uv_close() of a stream, and every call on a poll handle
LEMMA ReleaseSteps ==
  ASSUME PollInv, NEW w \in Ws,
         \/ StreamClose(w) \/ uv_poll_stop(w) \/ uv__poll_close(w)
         \/ \E ev \in (SUBSET Bits) \ {{}} : uv_poll_start(w, ev)
  PROVE  PollInv'
  <1> DEFINE t == uv__io_stop(io, w, Bits)
  <1>1. /\ fd[w] # None /\ UserCode /\ UNCHANGED <<local, incallback>>
        /\ events' = Invalidated(fd[w])
    BY DEF StreamClose, uv_poll_stop, uv__poll_close, uv__poll_stop, uv_poll_start, Live
  <1>2. Bits \in SUBSET Bits /\ Listed(io, fd) /\ Types /\ OneEach
    BY DEF PollInv
  <1>3. /\ Listed(t, fd)
        /\ \A v \in Ws : t.events[v] \in {{}, io.events[v]}
        /\ t.pevents = [io.pevents EXCEPT ![w] = io.pevents[w] \ Bits]
    BY <1>1, <1>2, StopListed
  <1>4. t.pevents[w] = {} /\ t.events[w] = {}
    <2>1. io.pevents \in [Ws -> SUBSET Bits]
      BY <1>2 DEF Listed, Records
    <2>2. t.pevents[w] = {}
      BY <1>3, <2>1
    <2> QED
      BY <1>3, <2>2 DEF Listed
  <1> HIDE DEF t
  <1>5. interest' = Forgotten(fd[w])
    <2>1. interest' \in Closed(Forgotten(fd[w]), fd[w]) \/ interest' = Forgotten(fd[w])
      BY DEF StreamClose, uv_poll_stop, uv__poll_close, uv__poll_stop, uv_poll_start
    <2>2. CtlDel(Forgotten(fd[w]), fd[w]) = Forgotten(fd[w])
      BY DEF Forgotten, CtlDel, Registered
    <2> QED
      BY <2>1, <2>2 DEF Closed
  <1>6. CASE StreamClose(w) \/ uv_poll_stop(w) \/ uv__poll_close(w)
    <2>1. /\ io' = t
          /\ \/ fd' = fd /\ file' = file
             \/ /\ fd' = [fd EXCEPT ![w] = None]
                /\ file' \in {file, [file EXCEPT ![fd[w]] = 0]}
      BY <1>6 DEF StreamClose, uv_poll_stop, uv__poll_close, uv__poll_stop, t
    <2> QED
      BY <1>1, <1>3, <1>4, <1>5, <2>1, Released
  <1>7. ASSUME NEW ev \in (SUBSET Bits) \ {{}}, uv_poll_start(w, ev) PROVE PollInv'
    <2>1. io' = uv__io_start(t, w, ev) /\ fd' = fd /\ file' = file
      BY <1>7 DEF uv_poll_start, t
    <2>2. Listed(io', fd) /\ io'.events = t.events
      BY <1>1, <1>2, <1>3, <2>1, StartListed
    <2> QED
      BY <1>1, <1>3, <1>4, <1>5, <2>1, <2>2, Released
  <1> QED
    BY <1>6, <1>7

\* A stream starts or stops: the kernel hears of it later.
LEMMA StreamSteps ==
  ASSUME PollInv, NEW w \in Ws, NEW ev \in (SUBSET Bits) \ {{}},
         StreamStart(w, ev) \/ StreamStop(w, ev)
  PROVE  PollInv'
  <1>1. /\ fd[w] # None /\ UserCode
        /\ UNCHANGED <<file, fd, interest, local, events, incallback>>
        /\ io' = uv__io_start(io, w, ev) \/ io' = uv__io_stop(io, w, ev)
    BY DEF StreamStart, StreamStop, Live
  <1>2. Listed(io, fd) /\ Types /\ OneEach /\ ev \in SUBSET Bits
    BY DEF PollInv
  <1>3. Listed(io', fd) /\ \A v \in Ws : io'.events[v] \in {{}, io.events[v]}
    <2>1. CASE io' = uv__io_start(io, w, ev)
      <3>1. Listed(io', fd) /\ io'.events = io.events
        BY <1>1, <1>2, <2>1, StartListed
      <3> QED
        BY <3>1
    <2>2. CASE io' = uv__io_stop(io, w, ev)
      BY <1>1, <1>2, <2>2, StopListed
    <2> QED
      BY <1>1, <2>1, <2>2
  <1>4. Types' /\ Listed(io', fd') /\ OneEach'
    BY <1>1, <1>2, <1>3 DEF Types, OneEach, local
  <1>5. Armed' /\ Covered'
    BY <1>1, <1>3 DEF PollInv, Armed, Covered, HasHandle, Entry
  <1>6. Quiet'
    BY <1>1, QuietUser
  <1> QED
    BY <1>4, <1>5, <1>6 DEF PollInv

\* Any call of the program
LEMMA UserSteps ==
  ASSUME Exclusive = TRUE, PollInv, UserCall PROVE PollInv'
  BY OpenSteps, BareSteps, ReleaseSteps, StreamSteps DEF UserCall

-----------------------------------------------------------------------------
(* uv__io_poll().                                                          *)

\* A watcher of the queue has an open descriptor, and the kernel has what it was told
\* of it: epoll_ctl() succeeds.
LEMMA QueuedSucceeds ==
  ASSUME PollInv, io.watcher_queue # <<>>
  PROVE  /\ Head(io.watcher_queue) \in Ws
         /\ io.pevents[Head(io.watcher_queue)] # {}
         /\ fd[Head(io.watcher_queue)] # None
         /\ CtlSucceeds(Head(io.watcher_queue))
  <1>1. PICK w : w = Head(io.watcher_queue)
    OBVIOUS
  <1>2. Listed(io, fd) /\ io.watcher_queue \in Seq(Ws) /\ NoDup(io.watcher_queue)
    BY DEF PollInv, Listed, Records
  <1>3. w \in In(io.watcher_queue) /\ w \in Ws
    BY <1>1, <1>2, TakeHead
  <1>4. io.pevents[w] # {} /\ fd[w] # None
    BY <1>2, <1>3 DEF Listed
  <1>5. io.events[w] # {} => Entry(w) \in Registered(interest, fd[w])
    BY <1>3 DEF PollInv, Armed, Entry, Registered
  <1>6. CtlSucceeds(w)
    BY <1>3, <1>4, <1>5 DEF CtlSucceeds, PollInv, OneEach
  <1> QED
    BY <1>1, <1>3, <1>4, <1>6

\* epoll_ctl() for the first watcher of the queue
LEMMA RegisterStep ==
  ASSUME PollInv, NEW w \in Ws, Register(w) PROVE PollInv'
  <1>1. /\ io.watcher_queue # <<>> /\ w = Head(io.watcher_queue) /\ pc = "register"
        /\ interest' = CtlSet(interest, fd[w], io.pevents[w])
        /\ io' = [io EXCEPT !.watcher_queue = Tail(@), !.events[w] = io.pevents[w]]
        /\ UNCHANGED <<file, fd, local, events, incallback>>
    BY DEF Register
  <1>2. io.pevents[w] # {} /\ fd[w] # None /\ io \in Records /\ Listed(io, fd)
    BY <1>1, QueuedSucceeds DEF PollInv, Listed
  <1>3. /\ Tail(io.watcher_queue) \in Seq(Ws) /\ NoDup(Tail(io.watcher_queue))
        /\ In(Tail(io.watcher_queue)) = In(io.watcher_queue) \ {w}
    BY <1>1, <1>2, TakeHead DEF Listed, Records
  <1>4. /\ io'.pevents = io.pevents /\ io'.events = [io.events EXCEPT ![w] = io.pevents[w]]
        /\ io'.watcher_queue = Tail(io.watcher_queue)
        /\ io'.watchers = io.watchers /\ io'.nfds = io.nfds
        /\ io' = [pevents |-> io'.pevents, events |-> io'.events,
                  watcher_queue |-> io'.watcher_queue, watchers |-> io'.watchers,
                  nfds |-> io'.nfds]
    BY <1>1, <1>2 DEF Records
  <1>5. io' \in Records
    BY <1>2, <1>3, <1>4 DEF Records
  <1>6. \A v \in Ws : io'.events[v] = IF v = w THEN io.pevents[w] ELSE io.events[v]
    BY <1>2, <1>4 DEF Records
  <1>7. Listed(io', fd')
    <2>1. Taken(io') = Taken(io)
      BY <1>4 DEF Taken
    <2>2. \A v \in In(io.watcher_queue) : v \in Ws
      BY <1>2 DEF Records, In
    <2>3. \A v \in Ws : io.pevents[v] # io.events[v] => v \in In(io.watcher_queue)
      BY <1>2 DEF Listed
    <2>4. \A v \in Ws : io'.pevents[v] # io'.events[v] => v \in In(io'.watcher_queue)
      BY <1>3, <1>4, <1>6, <2>3
    <2>5. \A v \in Ws : io'.events[v] # {} => io'.pevents[v] # {}
      BY <1>2, <1>4, <1>6 DEF Listed
    <2>6. fd' = fd
      BY <1>1
    <2> QED
      BY <1>2, <1>3, <1>4, <1>5, <2>1, <2>2, <2>4, <2>5, <2>6 DEF Listed
  <1> DEFINE e == [fd |-> fd[w], file |-> file[fd[w]], ev |-> io.pevents[w]]
  <1>8. interest' = {r \in interest : r.fd # fd[w]} \cup {e}
    <2>1. CtlDel(interest, fd[w]) = {r \in interest : r.fd # fd[w]}
      BY CtlDelIs DEF PollInv
    <2> QED
      BY <1>1, <2>1 DEF CtlSet
  <1>9. e \in Entries /\ e.fd = fd[w] /\ e.file = file[fd[w]] /\ fd[w] \in Fds
    <2>1. fd[w] \in Fds /\ file[fd[w]] \in 1..MaxFiles
      BY <1>2, PollAssumption DEF PollInv, Types, OneEach
    <2>2. io.pevents[w] \in SUBSET Bits
      BY <1>2 DEF Records
    <2> QED
      BY <1>2, <2>1, <2>2 DEF Entries
  <1>10. Entry(w)' = e
    BY <1>1, <1>4, <1>6 DEF Entry
  <1> HIDE DEF e
  <1>11. Types'
    <2>1. interest' \in SUBSET Entries
      BY <1>8, <1>9 DEF PollInv, Types
    <2>2. IsFiniteSet({r \in interest : r.fd # fd[w]})
      BY FS_Subset DEF PollInv, Types
    <2>3. IsFiniteSet(interest')
      BY <1>8, <2>2, FS_AddElement
    <2> QED
      BY <1>1, <2>1, <2>3 DEF PollInv, Types, local
  <1>12. OneEach'
    BY <1>1 DEF PollInv, OneEach
  <1>13. Armed'
    <2> SUFFICES ASSUME NEW v \in Ws, io'.events[v] # {} PROVE Entry(v)' \in interest'
      BY DEF Armed
    <2>1. CASE v = w
      BY <1>8, <1>10, <2>1
    <2>2. CASE v # w
      <3>1. io'.events[v] = io.events[v] /\ Entry(v) \in interest /\ fd[v] # fd[w]
        BY <1>2, <1>6, <2>2 DEF PollInv, Armed, OneEach
      <3>2. Entry(v)' = Entry(v) /\ Entry(v).fd = fd[v]
        BY <1>1, <3>1 DEF Entry
      <3> QED
        BY <1>8, <3>1, <3>2
    <2> QED
      BY <2>1, <2>2
  <1>14. Covered'
    BY <1>1, <1>8, <1>9 DEF PollInv, Covered, HasHandle
  <1>15. Quiet'
    BY <1>1 DEF PollInv, Quiet, local
  <1> QED
    BY <1>7, <1>11, <1>12, <1>13, <1>14, <1>15 DEF PollInv

\* The first report of a batch
LEMMA HeadReport ==
  ASSUME PollInv, events # <<>>
  PROVE  /\ Head(events) \in Reports /\ Tail(events) \in Seq(Reports)
         /\ \A i \in DOMAIN Tail(events) :
              i + 1 \in DOMAIN events /\ Tail(events)[i] = events[i + 1]
         /\ Head(events).fd # None =>
              /\ Head(events).fd \in Fds /\ HasHandle(Head(events).fd)
              /\ file[Head(events).fd] = Head(events).file
  <1>1. events \in Seq(Reports)
    BY DEF PollInv, Types
  <1>2. Head(events) \in Reports /\ Head(events) = events[1] /\ 1 \in DOMAIN events
    BY <1>1
  <1>3. /\ Tail(events) \in Seq(Reports)
        /\ \A i \in DOMAIN Tail(events) :
             i + 1 \in DOMAIN events /\ Tail(events)[i] = events[i + 1]
    BY <1>1
  <1> QED
    BY <1>2, <1>3 DEF PollInv, Covered, Reports

\* epoll_wait() returns reports of what it knows.
LEMMA WaitReturnStep == ASSUME PollInv, WaitReturn PROVE PollInv'
  <1>1. PICK S \in SUBSET interest : events' \in [1..Cardinality(S) -> S]
    BY DEF WaitReturn, Batches
  <1>2. IsFiniteSet(S) /\ S \subseteq Entries
    BY FS_Subset DEF PollInv, Types
  <1>3. Cardinality(S) \in Nat
    BY <1>2, FS_CardinalityType
  <1>4. Entries \subseteq Reports
    BY DEF Entries, Reports
  <1>5. events' \in Seq(Reports) /\ \A i \in DOMAIN events' : events'[i] \in interest
    BY <1>1, <1>2, <1>3, <1>4
  <1>6. UNCHANGED <<file, fd, io, interest, again, incallback>> /\ pc' = "dispatch"
        /\ nevents' = 0 /\ have_signals' = 0 /\ pc = "wait"
    BY DEF WaitReturn
  <1>7. Types'
    BY <1>5, <1>6 DEF PollInv, Types
  <1>8. Listed(io', fd')
    BY <1>6 DEF PollInv
  <1>9. OneEach' /\ Armed' /\ Covered' /\ Quiet'
    BY <1>5, <1>6 DEF PollInv, OneEach, Armed, Entry, Covered, HasHandle, Quiet
  <1> QED
    BY <1>7, <1>8, <1>9 DEF PollInv

\* One report is taken from the batch; the watchers of the loop, the queue included, stay
\* as they are unless a callback is about to run.
LEMMA Taking ==
  ASSUME PollInv, events # <<>>, pc = "dispatch", incallback = 0,
         events' = Tail(events), UNCHANGED <<file, fd, pc, again>>,
         have_signals' \in 0..1,
         \/ incallback' = 0 /\ io' = io /\ nevents' \in {nevents, 1}
         \/ incallback' = 1 /\ nevents' = 1,
         Listed(io', fd), \A v \in Ws : io'.events[v] \in {{}, io.events[v]},
         \/ interest' = interest
         \/ \E f \in Fds : io' = io /\ io.watchers[f] = None
                           /\ interest' = {r \in interest : r.fd # f}
  PROVE  PollInv'
  <1>1. /\ Tail(events) \in Seq(Reports)
        /\ \A i \in DOMAIN Tail(events) :
             i + 1 \in DOMAIN events /\ Tail(events)[i] = events[i + 1]
    BY HeadReport
  <1>2. interest' \subseteq interest
    OBVIOUS
  <1>3. IsFiniteSet(interest)
    BY DEF PollInv, Types
  <1>4. Types'
    <2>1. IsFiniteSet(interest')
      BY <1>2, <1>3, FS_Subset
    <2> QED
      BY <1>1, <1>2, <2>1 DEF PollInv, Types
  <1>5. Armed'
    <2> SUFFICES ASSUME NEW v \in Ws, io'.events[v] # {} PROVE Entry(v)' \in interest'
      BY DEF Armed
    <2>1. io'.events[v] = io.events[v] /\ Entry(v) \in interest
      BY DEF PollInv, Armed
    <2>2. Entry(v)' = Entry(v) /\ Entry(v).fd = fd[v]
      BY <2>1 DEF Entry
    <2>3. io.watchers[fd[v]] = v /\ v # None
      BY <2>1, PollAssumption DEF PollInv, Listed
    <2> QED
      BY <2>1, <2>2, <2>3
  <1>6. OneEach' /\ Covered'
    BY <1>1, <1>2 DEF PollInv, OneEach, Covered, HasHandle
  <1>7. Quiet'
    BY DEF PollInv, Quiet
  <1> QED
    BY <1>4, <1>5, <1>6, <1>7 DEF PollInv

\* One step of the dispatch
LEMMA DispatchSteps ==
  ASSUME PollInv,
         \/ Skip \/ Disarm
         \/ \E w \in Ws : Unwanted(w)
         \/ \E w \in Ws, told \in SUBSET (Bits \cup Errors) : Dispatch(w, told) \/ NoteSignal(w, told)
  PROVE  PollInv'
  <1>1. Listed(io, fd) /\ Covered /\ Types /\ OneEach /\ nevents \in 0..1 /\ have_signals \in 0..1
    BY DEF PollInv, Types
  <1>2. CASE Skip \/ (\E w \in Ws : Unwanted(w))
             \/ \E w \in Ws, told \in SUBSET (Bits \cup Errors) : NoteSignal(w, told)
    <2>1. /\ events # <<>> /\ pc = "dispatch" /\ incallback = 0 /\ events' = Tail(events)
          /\ UNCHANGED <<file, fd, pc, again, io, interest, incallback>>
          /\ nevents' \in {nevents, 1} /\ have_signals' \in {have_signals, 1}
      BY <1>2 DEF Skip, Unwanted, NoteSignal, Reported, Dispatching, local
    <2> QED
      BY <1>1, <2>1, Taking
  <1>3. CASE Disarm
    <2> DEFINE f == Head(events).fd
    <2>1. /\ events # <<>> /\ pc = "dispatch" /\ incallback = 0 /\ events' = Tail(events)
          /\ UNCHANGED <<file, fd, io, local, incallback>>
          /\ f # None /\ io.watchers[f] = None /\ interest' = CtlDel(interest, f)
      BY <1>3 DEF Disarm, Dispatching
    <2>2. f \in Fds
      BY <2>1, HeadReport
    <2>3. interest' = {r \in interest : r.fd # f}
      BY <1>1, <2>1, CtlDelIs
    <2> HIDE DEF f
    <2> QED
      BY <1>1, <2>1, <2>2, <2>3, Taking DEF local
  <1>4. ASSUME NEW w \in Ws, NEW told, Dispatch(w, told) PROVE PollInv'
    <2>1. /\ events # <<>> /\ pc = "dispatch" /\ incallback = 0 /\ events' = Tail(events)
          /\ UNCHANGED <<file, fd, pc, again, have_signals, interest>>
          /\ incallback' = 1 /\ nevents' = 1
          /\ Head(events).fd # None /\ w = io.watchers[Head(events).fd]
          /\ io' = io \/ io' = uv__io_stop(io, w, Bits)
      BY <1>4 DEF Dispatch, Reported, Dispatching
    <2>2. Head(events).fd \in Fds
      BY <2>1, HeadReport
    <2>3. fd[w] # None
      BY <1>1, <2>1, <2>2, PollAssumption DEF Listed, Taken
    <2>4. Listed(io', fd) /\ \A v \in Ws : io'.events[v] \in {{}, io.events[v]}
      <3>1. CASE io' = io
        BY <1>1, <3>1
      <3>2. CASE io' = uv__io_stop(io, w, Bits)
        BY <1>1, <2>3, <3>2, StopListed
      <3> QED
        BY <2>1, <3>1, <3>2
    <2> QED
      BY <1>1, <2>1, <2>4, Taking
  <1> QED
    BY <1>2, <1>3, <1>4

\* The steps of uv__io_poll() that touch neither the watchers nor the kernel
LEMMA ControlSteps ==
  ASSUME PollInv,
         \/ uv__io_poll \/ RegisterEnd \/ WaitTimeout \/ CallbackReturn
         \/ RunSignals \/ PollMore \/ PollReturn \/ UNCHANGED vars
  PROVE  PollInv'
  <1>1. UNCHANGED <<file, fd, io, interest, events>>
    BY DEF uv__io_poll, RegisterEnd, WaitTimeout, CallbackReturn, RunSignals, PollMore,
           PollReturn, vars
  <1>2. Types'
    BY <1>1 DEF PollInv, Types, uv__io_poll, RegisterEnd, WaitTimeout, CallbackReturn,
                RunSignals, PollMore, PollReturn, vars, local
  <1>3. Listed(io', fd') /\ OneEach' /\ Armed' /\ Covered'
    BY <1>1 DEF PollInv, OneEach, Armed, Entry, Covered, HasHandle
  <1>4. Quiet'
    BY <1>1 DEF PollInv, Types, Quiet, uv__io_poll, RegisterEnd, WaitTimeout, CallbackReturn,
                RunSignals, PollMore, PollReturn, vars, local
  <1> QED
    BY <1>2, <1>3, <1>4 DEF PollInv

\* No step breaks the invariant.
LEMMA StepPollInv ==
  ASSUME Exclusive = TRUE, PollInv, [Next]_vars PROVE PollInv'
  BY UserSteps, RegisterStep, WaitReturnStep, DispatchSteps, ControlSteps DEF Next

\* It says more than PollSound.
LEMMA PollInvSound == ASSUME PollInv PROVE PollSound
  <1>1. TypeOK
    <2>1. /\ io.pevents \in [Ws -> SUBSET Bits] /\ io.events \in [Ws -> SUBSET Bits]
          /\ io.watcher_queue \in Seq(Ws) /\ io.watchers \in [Fds -> Ws \cup {None}]
          /\ io.nfds \in Nat
      BY DEF PollInv, Listed, Records
    <2>2. \A i \in DOMAIN events : events[i] \in Reports
      BY DEF PollInv, Types
    <2> QED
      BY <2>1, <2>2 DEF PollInv, Types, TypeOK, Reports
  <1>2. NotDeaf
    <2> SUFFICES ASSUME pc = "wait", again = 0, NEW w \in Ws, io.pevents[w] # {}
                 PROVE  /\ [fd |-> fd[w], file |-> file[fd[w]], ev |-> io.pevents[w]] \in interest
                        /\ io.watchers[fd[w]] = w
      BY DEF NotDeaf
    <2>1. io.watcher_queue = <<>> /\ In(<<>>) = {}
      BY EmptyList DEF PollInv, Quiet
    <2>2. io.pevents[w] = io.events[w] /\ io.watchers[fd[w]] = w
      BY <2>1 DEF PollInv, Listed
    <2> QED
      BY <2>2 DEF PollInv, Armed, Entry
  <1>3. NoAbort
    BY QueuedSucceeds DEF NoAbort
  <1>4. QueueSound
    <2>1. \A w \in In(io.watcher_queue) : w \in Ws
      BY DEF PollInv, Listed, Records, In
    <2> QED
      BY <2>1 DEF PollInv, Listed, Taken, QueueSound
  <1>5. NoJunk
    BY DEF PollInv, Covered, NoJunk
  <1> QED
    BY <1>1, <1>2, <1>3, <1>4, <1>5 DEF PollSound

\* Whatever callbacks open, start, stop and close in the middle of a batch, and however
\* soon descriptors are used again: uv__io_poll() never calls abort(), nfds and the queue
\* are as the assertions of uv__io_stop() and uv__io_poll() want them, no entry of the
\* interest set outlives its descriptor, and no watcher is deaf in a wait that may block.
THEOREM PollSafe == ASSUME Exclusive = TRUE PROVE Spec => []PollSound
  <1>1. PollInv /\ [Next]_vars => PollInv'
    BY StepPollInv
  <1> QED
    BY <1>1, InitPollInv, PollInvSound, PTL DEF Spec

\* uv__io_poll() calls w->cb only for an event on the file the watcher has open now.
THEOREM EventsReachTheirFile == ASSUME Exclusive = TRUE PROVE Spec => NoCrossTalk
  <1>1. PollInv /\ [Next]_vars => PollInv'
    BY StepPollInv
  <1>2. ASSUME PollInv, [Next]_vars, incallback = 0, incallback' = 1, events # <<>>
        PROVE  Head(events).file = file[fd[io.watchers[Head(events).fd]]]
    <2>1. \E w \in Ws : \E told : Dispatch(w, told)
      BY <1>2 DEF Next, UserCall, Open, uv_poll_init, StreamStart, StreamStop, uv_poll_start,
                  StreamClose, uv_poll_stop, uv__poll_close, uv__poll_stop, UserOpen, UserClose,
                  uv__io_poll, RegisterEnd, WaitReturn, WaitTimeout, Skip, Disarm,
                  CallbackReturn, RunSignals, PollMore, PollReturn, Register, Unwanted,
                  NoteSignal, vars
    <2>2. PICK w \in Ws : Head(events).fd # None /\ w = io.watchers[Head(events).fd]
      BY <2>1 DEF Dispatch, Reported
    <2>3. Head(events).fd \in Fds /\ file[Head(events).fd] = Head(events).file
      BY <1>2, <2>2, HeadReport
    <2>4. fd[w] = Head(events).fd
      BY <1>2, <2>2, <2>3, PollAssumption DEF PollInv, Listed, Taken
    <2> QED
      BY <2>2, <2>3, <2>4
  <1>3. PollInv /\ [Next]_vars =>
          [incallback = 0 /\ incallback' = 1 /\ events # <<>> =>
             LET e == Head(events) IN e.file = file[fd[io.watchers[e.fd]]]]_vars
    BY <1>2
  <1> QED
    BY <1>1, <1>3, InitPollInv, PTL DEF Spec, NoCrossTalk

-----------------------------------------------------------------------------
(***************************************************************************)
(* Timers.                                                                 *)
(*                                                                         *)
(* TimerTypeOK says nothing of the order of a pass.  What an induction     *)
(* needs on top of it: the key of the timer fired last is less than the    *)
(* key of every timer still in the heap (AfterLast), which new keys        *)
(* respect because timer_counter only grows (Numbered) and the clock never *)
(* runs backwards; and a timer fired and still in the heap is a repeating  *)
(* one that is not due any more (FiredNotDue).                             *)
(***************************************************************************)

Punctual == \A t \in active : timeout[t] = asked[t]

Numbered ==
  /\ \A t \in active : start_id[t] < timer_counter
  /\ \A t, u \in active : t # u => start_id[t] # start_id[u]

AfterLast ==
  last # NoTimer =>
    /\ last[1] <= time /\ last[2] < timer_counter
    /\ \A t \in active : KeyLess(last, <<timeout[t], start_id[t]>>)

FiredNotDue == \A t \in fired \cap active : timeout[t] > time

Inv == /\ TimerTypeOK /\ Punctual /\ Numbered /\ AfterLast /\ FiredNotDue
       /\ ClosingIsStopped

\* The sum computed modulo 2^64 and corrected is the true sum, cut off at the
\* largest value: the overflow test of uv_timer_start() is exact.
LEMMA ClampExact ==
  ASSUME NEW d \in 0..(Mod - 1), time \in 0..(Mod - 1)
  PROVE  /\ Clamp(d) = IF time + d > Mod - 1 THEN Mod - 1 ELSE time + d
         /\ Clamp(d) \in 0..(Mod - 1)
         /\ Clamp(d) >= time
<1>1. CASE time + d < Mod
  <2>1. (time + d) % Mod = time + d
    BY <1>1, TimerAssumption, SMT
  <2> QED BY <1>1, <2>1, TimerAssumption DEF Clamp
<1>2. CASE time + d >= Mod
  <2>1. (time + d) % Mod = time + d - Mod
    BY <1>2, TimerAssumption, SMT
  <2> QED BY <1>2, <2>1, TimerAssumption DEF Clamp
<1> QED BY <1>1, <1>2, TimerAssumption

LEMMA InitInv == TimerInit => Inv
BY TimerAssumption
   DEF TimerInit, Inv, TimerTypeOK, Punctual, Numbered, AfterLast, FiredNotDue, ClosingIsStopped

\* What uv_timer_start() leaves behind.
Started(t, d) ==
  /\ active' \subseteq Timers /\ timeout' \in [Timers -> 0..(Mod - 1)]
  /\ repeat' \in [Timers -> Delays \cup {0}] /\ start_id' \in [Timers -> Nat]
  /\ timer_counter' \in Nat /\ asked' \in [Timers -> 0..(Mod - 1)]
  /\ Punctual' /\ Numbered'
  /\ active' = active \cup {t}
  /\ timeout'[t] >= time /\ start_id'[t] = timer_counter
  /\ timer_counter' = timer_counter + 1
  /\ d # 0 => timeout'[t] > time
  /\ \A u \in active \ {t} : timeout'[u] = timeout[u] /\ start_id'[u] = start_id[u]

LEMMA StartKeeps ==
  ASSUME Inv, NEW t \in Timers, NEW d \in Delays \cup {0}, NEW r \in Delays \cup {0},
         Start(t, d, r), time' = time
  PROVE  Started(t, d)
<1>1. d \in 0..(Mod - 1) /\ time \in 0..(Mod - 1) /\ time < Mod - 1
  BY TimerAssumption DEF Inv, TimerTypeOK
<1>2. /\ Clamp(d) = IF time + d > Mod - 1 THEN Mod - 1 ELSE time + d
      /\ Clamp(d) \in 0..(Mod - 1) /\ Clamp(d) >= time
  BY <1>1, ClampExact
<1>3. d # 0 => Clamp(d) > time
  BY <1>1, <1>2, TimerAssumption
<1> HIDE DEF Clamp
<1>4. Punctual'
  BY <1>2 DEF Start, Inv, TimerTypeOK, Punctual
<1>5. Numbered'
  BY DEF Start, Inv, TimerTypeOK, Numbered
<1>6. asked' \in [Timers -> 0..(Mod - 1)]
  BY <1>1, <1>2 DEF Start, Inv, TimerTypeOK
<1> QED BY <1>2, <1>3, <1>4, <1>5, <1>6 DEF Start, Inv, TimerTypeOK, Started

\* One step keeps the invariant.
LEMMA StepInv == Inv /\ [TimerNext]_timer_vars => Inv'
<1> SUFFICES ASSUME Inv, [TimerNext]_timer_vars PROVE Inv'
  OBVIOUS
<1> USE TimerAssumption
<1>1. ASSUME NEW t \in Timers, NEW d \in Delays, NEW r \in Delays, uv_timer_start(t, d, r)
      PROVE  Inv'
  <2>1. Started(t, d)
    BY <1>1, StartKeeps DEF uv_timer_start
  <2>2. AfterLast'
    BY <1>1, <2>1 DEF Started, Inv, AfterLast, KeyLess, TimerTypeOK, Key, uv_timer_start
  <2>3. FiredNotDue'
    BY <1>1, <2>1 DEF Started, Inv, FiredNotDue, TimerTypeOK, uv_timer_start
  <2> QED
    BY <1>1, <2>1, <2>2, <2>3
    DEF Started, Inv, TimerTypeOK, ClosingIsStopped, uv_timer_start
<1>2. ASSUME NEW t \in Timers, uv_timer_again(t) PROVE Inv'
  <2>0. repeat[t] \in Delays \cup {0}
    BY DEF Inv, TimerTypeOK
  <2>1. Started(t, repeat[t])
    BY <1>2, <2>0, StartKeeps DEF uv_timer_again
  <2>2. AfterLast'
    BY <1>2, <2>1 DEF Started, Inv, AfterLast, KeyLess, TimerTypeOK, Key, uv_timer_again
  <2>3. FiredNotDue'
    BY <1>2, <2>1 DEF Started, Inv, FiredNotDue, TimerTypeOK, uv_timer_again
  <2> QED
    BY <1>2, <2>1, <2>2, <2>3
    DEF Started, Inv, TimerTypeOK, ClosingIsStopped, uv_timer_again
<1>3. ASSUME NEW t \in Timers, FireNext(t) PROVE Inv'
  <2> USE <1>3 DEF FireNext
  <2>0. /\ t \in active /\ timeout[t] <= time /\ time' = time
        /\ start_id[t] < timer_counter
        /\ last' = <<timeout[t], start_id[t]>> /\ last' \in Key
        /\ repeat[t] \in Delays \cup {0}
    BY DEF IsMin, Inv, TimerTypeOK, Numbered, Key
  <2>a. \A u \in active \ {t} : KeyLess(last', <<timeout[u], start_id[u]>>)
    BY <2>0 DEF IsMin, timer_less_than, KeyLess
  <2>1. CASE repeat[t] # 0
    <3>1. Started(t, repeat[t])
      BY <2>0, <2>1, StartKeeps DEF Rearm
    <3>2. AfterLast'
      BY <2>0, <2>a, <2>1, <3>1 DEF Started, Inv, AfterLast, KeyLess, TimerTypeOK, Key
    <3>3. FiredNotDue'
      BY <2>0, <2>1, <3>1 DEF Started, Inv, FiredNotDue, TimerTypeOK
    <3> QED
      BY <2>0, <2>1, <3>1, <3>2, <3>3 DEF Started, Inv, TimerTypeOK, ClosingIsStopped
  <2>2. CASE repeat[t] = 0
    <3>1. Stop(t)
      BY <2>2 DEF Rearm
    <3>2. AfterLast'
      BY <2>0, <2>a, <3>1 DEF Inv, AfterLast, TimerTypeOK, Key, Stop, KeyLess
    <3> QED
      BY <2>0, <3>1, <3>2
      DEF Inv, TimerTypeOK, Punctual, Numbered, FiredNotDue, ClosingIsStopped, Stop
  <2> QED BY <2>1, <2>2
<1>4. ASSUME NEW t \in Timers, uv_timer_stop(t) PROVE Inv'
  BY <1>4
  DEF Inv, TimerTypeOK, Punctual, Numbered, AfterLast, FiredNotDue, ClosingIsStopped,
      uv_timer_stop, Stop
<1>5. ASSUME NEW t \in Timers, uv__timer_close(t) PROVE Inv'
  BY <1>5
  DEF Inv, TimerTypeOK, Punctual, Numbered, AfterLast, FiredNotDue, ClosingIsStopped,
      uv__timer_close, Stop
<1>6. ASSUME NEW t \in Timers, uv_timer_init(t) PROVE Inv'
  BY <1>6
  DEF Inv, TimerTypeOK, Punctual, Numbered, AfterLast, FiredNotDue, ClosingIsStopped,
      uv_timer_init
<1>7. ASSUME NEW t \in Timers, NEW r \in Delays, uv_timer_set_repeat(t, r) PROVE Inv'
  BY <1>7
  DEF Inv, TimerTypeOK, Punctual, Numbered, AfterLast, FiredNotDue, ClosingIsStopped,
      uv_timer_set_repeat
<1>8. CASE uv__update_time
  <2>1. time' \in 0..MaxTime /\ time' > time /\ UNCHANGED last
    BY <1>8 DEF uv__update_time, Inv, TimerTypeOK
  <2>2. AfterLast'
    BY <1>8, <2>1 DEF Inv, TimerTypeOK, Key, AfterLast, uv__update_time, heapVars, KeyLess
  <2> QED
    BY <1>8, <2>1, <2>2
    DEF Inv, TimerTypeOK, Punctual, Numbered, FiredNotDue, ClosingIsStopped,
        uv__update_time, heapVars
<1>9. CASE RunStart \/ TimerReturn \/ RunEnd \/ UNCHANGED timer_vars
  BY <1>9
  DEF Inv, TimerTypeOK, Punctual, Numbered, AfterLast, FiredNotDue, ClosingIsStopped,
      RunStart, TimerReturn, RunEnd, heapVars, timer_vars
<1> QED
  BY <1>1, <1>2, <1>3, <1>4, <1>5, <1>6, <1>7, <1>8, <1>9 DEF TimerNext

\* The inductive invariant holds in every reachable state.
THEOREM InvHolds == TimerSpec => []Inv
<1>1. TimerInit => Inv
  BY InitInv
<1>2. Inv /\ [TimerNext]_timer_vars => Inv'
  BY StepInv
<1> QED BY <1>1, <1>2, PTL DEF TimerSpec

\* The variables keep their types: timeout stays a uint64_t.
THEOREM TypeCorrect == TimerSpec => []TimerTypeOK
<1>1. Inv => TimerTypeOK
  BY DEF Inv
<1> QED BY <1>1, InvHolds, PTL

\* uv_timer_start() never puts a closing timer into the heap.
THEOREM ClosingSafe == TimerSpec => []ClosingIsStopped
<1>1. Inv => ClosingIsStopped
  BY DEF Inv
<1> QED BY <1>1, InvHolds, PTL

\* No timer fires before its time.
THEOREM FiresInTime == TimerSpec => NeverEarly
<1>1. Inv /\ [TimerNext]_timer_vars => [\A t \in Timers : FireNext(t) => time >= asked[t]]_timer_vars
  BY TimerAssumption DEF Inv, TimerTypeOK, Punctual, FireNext, IsMin
<1> QED BY <1>1, InvHolds, PTL DEF TimerSpec, NeverEarly

\* The timers of a pass fire in the order of their keys, whatever callbacks do.
THEOREM FiresInOrder == TimerSpec => PassOrdered
<1>1. Inv /\ [TimerNext]_timer_vars =>
        [\A t \in Timers :
           FireNext(t) /\ last # NoTimer => KeyLess(last, <<timeout[t], start_id[t]>>)]_timer_vars
  BY DEF Inv, AfterLast, FireNext, IsMin
<1> QED BY <1>1, InvHolds, PTL DEF TimerSpec, PassOrdered

\* A timer fires once in a pass.
THEOREM FiresOnce == TimerSpec => OncePerPass
<1>1. Inv /\ [TimerNext]_timer_vars => [\A t \in Timers : FireNext(t) => t \notin fired]_timer_vars
  BY TimerAssumption DEF Inv, TimerTypeOK, FiredNotDue, FireNext, IsMin
<1> QED BY <1>1, InvHolds, PTL DEF TimerSpec, OncePerPass
-----------------------------------------------------------------------------
(* The sleep of the loop.  uv__next_timeout() takes heap_min(), so that it *)
(* is about a least key: there is one because timeouts and start_ids are   *)
(* natural numbers and no two active timers share a start_id.              *)

\* A non-empty set of natural numbers has a least one: the intervals below
\* its members are finite sets, on which inclusion is well-founded.
LEMMA LeastNat ==
  ASSUME NEW T \in SUBSET Nat, T # {}
  PROVE  \E x \in T : \A y \in T : x <= y
<1> DEFINE R == StrictSubsetOrdering(Nat)
           B == {1..n : n \in T}
<1>1. B \subseteq FiniteSubsetsOf(Nat) /\ B # {}
  <2>1. \A n \in T : IsFiniteSet(1..n) /\ 1..n \subseteq Nat
    BY FS_Interval
  <2> QED BY <2>1 DEF FiniteSubsetsOf
<1>2. IsWellFoundedOn(R, FiniteSubsetsOf(Nat))
  BY FS_StrictSubsetOrderingWellFounded
<1> HIDE DEF R, B
<1>3. PICK b \in B : \A c \in B : ~(<<c, b>> \in R)
  BY <1>1, <1>2, WFMin
<1>4. PICK x \in T : b = 1..x
  BY DEF B
<1>5. ASSUME NEW y \in T, y < x PROVE FALSE
  <2>1. x \in 1..x /\ x \notin 1..y
    BY <1>5
  <2>2. 1..y \subseteq 1..x /\ 1..y \in SUBSET Nat /\ 1..x \in SUBSET Nat
    BY <1>5
  <2>3. 1..y \in B
    BY DEF B
  <2>4. <<1..y, 1..x>> \in R
    BY <2>1, <2>2 DEF R, StrictSubsetOrdering
  <2> QED BY <1>3, <1>4, <2>3, <2>4
<1> QED BY <1>5

\* The heap has a least member as long as it has one.
LEMMA MinExists == ASSUME Inv, active # {} PROVE \E t \in active : IsMin(t)
<1> USE DEF Inv, TimerTypeOK
<1> DEFINE Ends == {timeout[t] : t \in active}
<1>1. Ends \in SUBSET Nat /\ Ends # {}
  BY TimerAssumption
<1> HIDE DEF Ends
<1>2. PICK e \in Ends : \A f \in Ends : e <= f
  BY <1>1, LeastNat
<1> DEFINE Ids == {start_id[t] : t \in {u \in active : timeout[u] = e}}
<1>3. Ids \in SUBSET Nat /\ Ids # {}
  BY DEF Ends
<1> HIDE DEF Ids
<1>4. PICK i \in Ids : \A j \in Ids : i <= j
  BY <1>3, LeastNat
<1>5. PICK t \in active : timeout[t] = e /\ start_id[t] = i
  BY DEF Ids
<1>6. ASSUME NEW u \in active \ {t} PROVE timer_less_than(t, u)
  <2>1. timeout[u] \in Ends /\ e <= timeout[u] /\ start_id[u] # i
    BY <1>2, <1>5 DEF Ends, Numbered
  <2>2. timeout[u] = e => i <= start_id[u]
    BY <1>4 DEF Ids
  <2>3. e \in Nat /\ i \in Nat /\ timeout[u] \in Nat /\ start_id[u] \in Nat
    BY <1>1, <1>3, TimerAssumption
  <2> QED BY <1>5, <2>1, <2>2, <2>3 DEF timer_less_than
<1> QED BY <1>5, <1>6 DEF IsMin

\* The loop may block as long as uv__next_timeout() says: no timer becomes
\* overdue by it, and it does not block when one is due.
THEOREM SleepSafe == TimerSpec => []NextTimeoutSafe
<1>1. Inv => NextTimeoutSafe
  <2> SUFFICES ASSUME Inv PROVE NextTimeoutSafe
    OBVIOUS
  <2>1. CASE active = {}
    BY <2>1 DEF NextTimeoutSafe, uv__next_timeout
  <2>2. CASE active # {}
    <3> DEFINE m == CHOOSE u \in active : IsMin(u)
    <3>1. m \in active /\ IsMin(m)
      BY <2>2, MinExists
    <3>2. uv__next_timeout = IF timeout[m] <= time THEN 0
                             ELSE IF timeout[m] - time > IntMax THEN IntMax
                             ELSE timeout[m] - time
      BY <2>2 DEF uv__next_timeout
    <3> HIDE DEF m
    <3>3. /\ timeout[m] \in Nat /\ time \in Nat /\ IntMax \in Nat \ {0}
          /\ \A t \in active : timeout[t] \in Nat
      BY <3>1, TimerAssumption DEF Inv, TimerTypeOK
    <3>4. \A t \in active : timeout[m] <= timeout[t]
      BY <3>1, <3>3 DEF IsMin, timer_less_than
    <3>5. /\ uv__next_timeout \in Nat
          /\ uv__next_timeout = 0 => timeout[m] <= time
          /\ uv__next_timeout # 0 => time + uv__next_timeout <= timeout[m]
      BY <3>2, <3>3
    <3> QED BY <2>2, <3>1, <3>3, <3>4, <3>5 DEF NextTimeoutSafe
  <2> QED BY <2>1, <2>2
<1> QED BY <1>1, InvHolds, PTL

-----------------------------------------------------------------------------
(***************************************************************************)
(* The time a poll takes.  While it waits, what is left of the timeout is  *)
(* what was asked for until the first trip through update_timeout, and no  *)
(* more after it (Left); the deadline holds for the wait under way         *)
(* (NeverLonger), and a wait of 0 comes from the caller or from a batch    *)
(* that called callbacks (Short).                                          *)
(***************************************************************************)
Ints == -IntSpan..(IntSpan - 1)

WaitTypes ==
  /\ clock \in Nat /\ clock <= MaxClock /\ loop_time \in Nat /\ base \in Nat /\ entered \in Nat
  /\ wait_pc \in {"out", "wait"} /\ wait_timeout \in Int /\ real_timeout \in Int
  /\ user_timeout \in Int /\ count \in Int /\ reset_timeout \in {0, 1}
  /\ wait_asked \in Timeouts \cup {-1, 0} /\ called \in {0, 1} /\ laps \in {0, 1, 2}
  /\ batches \in Nat /\ loop_time <= clock

Clocks == base <= entered /\ base <= loop_time /\ entered <= clock

Left ==
  /\ reset_timeout = 1 => user_timeout = wait_asked /\ wait_timeout = 0 /\ laps = 0 /\ called = 0
  /\ wait_asked # -1 => 0 <= real_timeout /\ real_timeout <= wait_asked
  /\ wait_asked # -1 /\ laps = 0 => real_timeout = wait_asked
  /\ wait_asked = -1 => laps = 0 /\ wait_timeout \in {-1, 0}
  /\ wait_asked # -1 => wait_timeout \in {0, real_timeout}

Short ==
  wait_timeout = 0 /\ reset_timeout = 0 => called = 1 \/ wait_asked = 0

Batched == batches + count = MaxCount /\ count >= 1

WaitInv ==
  /\ WaitTypes /\ batches <= MaxCount
  /\ wait_pc = "wait" => Clocks /\ Left /\ Short /\ Batched /\ NeverLonger

\* An int that does not overflow
LEMMA ToIntExact ==
  ASSUME NEW x \in Ints
  PROVE  ToInt(x) = x
<1>1. IntSpan \in Nat \ {0}
  BY PollTimeoutAssumption
<1>2. x + IntSpan \in 0..(2 * IntSpan - 1)
  BY <1>1 DEF Ints
<1>3. (x + IntSpan) % (2 * IntSpan) = x + IntSpan
  BY <1>1, <1>2
<1> QED BY <1>1, <1>3 DEF ToInt, Ints


\* One poll is under way for less than 2^31 ms, so that real_timeout, an int,
\* does not overflow.
InSpan == loop_time - base <= IntSpan

\* The step of WaitHonest
Honest ==
  /\ NeverLonger'
  /\ batches' <= MaxCount
  /\ wait_pc = "wait" /\ wait_pc' = "out" /\ called' = 0
       => wait_asked # -1 /\ (loop_time' - base >= wait_asked \/ laps' = 2)

\* The clock goes on, and loop->time follows it with its granularity.
LEMMA LaterClocks ==
  ASSUME WaitInv, NEW d \in 0..MaxClock, Later(d)
  PROVE  /\ clock' \in Nat /\ clock' <= MaxClock /\ loop_time' \in Nat /\ loop_time' <= clock'
         /\ loop_time <= loop_time' /\ clock' <= loop_time' + Coarse /\ clock <= clock'
<1>1. MaxClock \in Nat /\ Coarse \in Nat /\ clock \in Nat /\ loop_time \in Nat
      /\ loop_time <= clock
  BY PollTimeoutAssumption DEF WaitInv, WaitTypes
<1>2. PICK k \in 0..Coarse : loop_time' = IF clock + d - k > loop_time THEN clock + d - k ELSE loop_time
  BY DEF Later
<1>3. clock' = clock + d /\ clock + d <= MaxClock
  BY DEF Later
<1>4. k \in Nat /\ k <= Coarse /\ d \in Nat
  BY <1>1
<1>5. CASE clock + d - k > loop_time
  <2>1. loop_time' = clock + d - k
    BY <1>2, <1>5
  <2> QED BY <1>1, <1>3, <1>4, <1>5, <2>1
<1>6. CASE ~(clock + d - k > loop_time)
  <2>1. loop_time' = loop_time
    BY <1>2, <1>6
  <2> QED BY <1>1, <1>3, <1>4, <1>6, <2>1
<1> QED BY <1>5, <1>6

\* No callback was called: the wait is over, or goes on for what is left.
LEMMA RetryKeeps ==
  ASSUME WaitInv, InSpan', wait_pc = "wait", NEW d \in 0..MaxClock, Later(d),
         Retry(Restored), batches' = batches
  PROVE  WaitInv' /\ Honest
<1>1. /\ WaitTypes /\ batches <= MaxCount /\ Clocks /\ Left /\ Short /\ Batched
  BY DEF WaitInv
<1>2. /\ MaxClock \in Nat /\ Coarse \in Nat /\ IntSpan \in Nat \ {0} /\ MaxCount \in Nat
      /\ wait_asked = -1 \/ wait_asked \in 0..(IntSpan - 1)
  BY <1>1, PollTimeoutAssumption DEF WaitTypes
<1>3. /\ clock' \in Nat /\ clock' <= MaxClock /\ loop_time' \in Nat /\ loop_time' <= clock'
      /\ loop_time <= loop_time' /\ clock' <= loop_time' + Coarse /\ clock <= clock'
  BY LaterClocks
<1>4. /\ reset_timeout' = 0 /\ base' = base /\ count' = count /\ user_timeout' = user_timeout
      /\ wait_asked' = wait_asked /\ entered' = entered /\ called' = called
  BY DEF Retry, call
<1>5. Clocks' /\ Batched'
  BY <1>1, <1>2, <1>3, <1>4 DEF Clocks, Batched, WaitTypes
<1>9. /\ base \in Nat /\ entered \in Nat /\ clock \in Nat /\ loop_time \in Nat
      /\ base <= entered /\ base <= loop_time /\ entered <= clock
  BY <1>1 DEF WaitTypes, Clocks
<1>10. PICK c, lt, b, e \in Nat :
         /\ clock' = c /\ loop_time' = lt /\ base = b /\ entered = e
         /\ lt <= c /\ c <= lt + Coarse /\ c <= MaxClock /\ b <= e /\ b <= lt
  <2>1. base <= loop_time'
    BY <1>4, <1>5 DEF Clocks
  <2> QED BY <1>3, <1>9, <2>1
<1>11. PICK n \in Nat : n = loop_time' - base /\ n <= IntSpan
  <2>1. lt - b \in Nat
    BY <1>2, <1>10
  <2>2. loop_time' - base <= IntSpan
    BY <1>4 DEF InSpan
  <2> QED BY <1>10, <2>1, <2>2
<1>6. CASE Restored = -1
  <2>1. /\ wait_timeout' = -1 /\ wait_pc' = "wait" /\ real_timeout' = real_timeout /\ laps' = laps
    BY <1>6 DEF Retry
  <2>2. wait_asked = -1
    BY <1>1, <1>2, <1>6 DEF Restored, Left, WaitTypes
  <2>3. WaitTypes' /\ Left' /\ Short' /\ NeverLonger'
    BY <1>1, <1>2, <1>3, <1>4, <2>1, <2>2 DEF WaitTypes, Left, Short, NeverLonger
  <2> QED BY <1>1, <1>4, <1>5, <2>1, <2>3 DEF WaitInv, Honest
<1>7. CASE Restored = 0
  <2>1. /\ wait_timeout' = wait_timeout /\ wait_pc' = "out" /\ real_timeout' = real_timeout
        /\ laps' = laps
    BY <1>7 DEF Retry, Return
  <2>2. called = 0 => wait_asked = 0
    BY <1>1, <1>2, <1>7 DEF Restored, Left, Short, WaitTypes
  <2>3. loop_time' - base >= 0
    BY <1>11
  <2>4. WaitTypes' /\ NeverLonger'
    BY <1>1, <1>3, <1>4, <2>1 DEF WaitTypes, NeverLonger
  <2> QED BY <1>1, <1>4, <2>1, <2>2, <2>3, <2>4 DEF WaitInv, Honest
<1>8. CASE Restored > 0
  <2>1. /\ laps' = IF laps = 0 THEN 1 ELSE 2
        /\ real_timeout' = ToInt(real_timeout - (loop_time' - base))
        /\ IF real_timeout' <= 0 THEN wait_pc' = "out" /\ wait_timeout' = wait_timeout
           ELSE wait_timeout' = real_timeout' /\ wait_pc' = "wait"
    BY <1>8 DEF Retry, update_timeout, Lap
  <2>2. /\ real_timeout \in Nat /\ real_timeout <= wait_asked /\ wait_asked # -1
        /\ (laps = 0 => real_timeout = wait_asked)
    BY <1>1, <1>2, <1>8 DEF Restored, Left, WaitTypes
  <2>3. n = loop_time' - base /\ n <= IntSpan
    BY <1>11
  <2>4. PICK r \in Int : r = real_timeout - n
    BY <2>2
  <2>5. r \in Ints /\ r <= wait_asked /\ 0 < Restored
    BY <1>2, <1>8, <2>2, <2>3, <2>4 DEF Ints
  <2>6. real_timeout' = r
    BY <2>1, <2>3, <2>4, <2>5, ToIntExact
  <2>7. laps' \in {1, 2} /\ (laps # 0 => laps' = 2)
    BY <2>1
  <2>8. wait_timeout' \in Int /\ wait_pc' \in {"out", "wait"}
    BY <1>1, <2>1, <2>4, <2>6 DEF WaitTypes
  <2>9. WaitTypes'
    BY <1>1, <1>3, <1>4, <2>4, <2>6, <2>7, <2>8 DEF WaitTypes
  <2>10. CASE r <= 0
    <3>1. wait_pc' = "out"
      BY <2>1, <2>6, <2>10
    <3>2. laps = 0 => n >= wait_asked
      BY <1>2, <2>2, <2>3, <2>4, <2>10
    <3>3. NeverLonger'
      BY <3>1 DEF NeverLonger
    <3> QED BY <1>1, <1>4, <2>2, <2>3, <2>7, <2>9, <3>1, <3>2, <3>3 DEF WaitInv, Honest
  <2>11. CASE r > 0
    <3>1. wait_pc' = "wait" /\ wait_timeout' = r
      BY <2>1, <2>4, <2>6, <2>11
    <3>2. clock' + r <= entered + wait_asked + Coarse
      <4>1. n = lt - b /\ r <= wait_asked - n /\ wait_asked \in Nat
        BY <1>2, <1>10, <2>2, <2>3, <2>4
      <4>2. c + r <= e + wait_asked + Coarse
        BY <1>2, <1>10, <2>4, <4>1
      <4> QED BY <1>10, <4>2
    <3>3. NeverLonger' /\ Left' /\ Short'
      BY <1>4, <2>2, <2>5, <2>6, <2>7, <2>11, <3>1, <3>2 DEF NeverLonger, Left, Short
    <3> QED BY <1>1, <1>4, <1>5, <2>9, <3>1, <3>3 DEF WaitInv, Honest
  <2> QED BY <2>4, <2>10, <2>11
<1> QED
  <2>1. Restored = -1 \/ Restored = 0 \/ Restored > 0
    BY DEF Retry
  <2> QED BY <1>6, <1>7, <1>8, <2>1

\* uv__io_poll() is called.
LEMMA PollCallKeeps ==
  ASSUME WaitInv, NEW t \in Timeouts \cup {-1}, NEW metrics \in 0..1, NEW lag \in 0..MaxLag,
         PollCall(t, metrics, lag)
  PROVE  WaitInv' /\ Honest
<1>1. /\ MaxClock \in Nat /\ Coarse \in Nat /\ IntSpan \in Nat \ {0} /\ MaxCount \in Nat \ {0}
      /\ lag \in Nat /\ (t = -1 \/ t \in 0..(IntSpan - 1)) /\ metrics \in {0, 1}
  BY PollTimeoutAssumption
<1>2. WaitTypes /\ clock \in Nat /\ loop_time \in Nat /\ loop_time <= clock
  BY DEF WaitInv, WaitTypes
<1>3. /\ wait_pc = "out" /\ clock' = clock + lag /\ clock + lag <= MaxClock
      /\ loop_time' = loop_time /\ wait_pc' = "wait"
      /\ base' = loop_time /\ count' = MaxCount /\ real_timeout' = t /\ reset_timeout' = metrics
      /\ user_timeout' = (IF metrics = 1 THEN t ELSE 0)
      /\ wait_timeout' = (IF metrics = 1 THEN 0 ELSE t)
      /\ wait_asked' = t /\ entered' = clock + lag /\ called' = 0 /\ laps' = 0 /\ batches' = 0
  BY DEF PollCall
<1>4. clock' \in Nat /\ loop_time <= clock' /\ t \in Int
  BY <1>1, <1>2, <1>3
<1>5. WaitTypes'
  BY <1>1, <1>2, <1>3, <1>4 DEF WaitTypes
<1>6. Clocks' /\ Left' /\ Short' /\ Batched'
  BY <1>1, <1>2, <1>3, <1>4 DEF Clocks, Left, Short, Batched
<1>7. NeverLonger'
  BY <1>1, <1>3, <1>4 DEF NeverLonger
<1> QED BY <1>1, <1>3, <1>5, <1>6, <1>7 DEF WaitInv, Honest

\* Callbacks were called.
LEMMA BatchKeeps ==
  ASSUME WaitInv, NEW d \in 0..MaxClock, FullBatch(d) \/ LastBatch(d)
  PROVE  WaitInv' /\ Honest
<1>1. /\ WaitTypes /\ batches <= MaxCount /\ Clocks /\ Left /\ Short /\ Batched /\ wait_pc = "wait"
  BY DEF WaitInv, FullBatch, LastBatch
<1>2. /\ clock' \in Nat /\ clock' <= MaxClock /\ loop_time' \in Nat /\ loop_time' <= clock'
      /\ loop_time <= loop_time' /\ clock <= clock'
  BY LaterClocks DEF FullBatch, LastBatch
<1>3. /\ called' = 1 /\ batches' = batches + 1 /\ reset_timeout' = 0 /\ base' = base
      /\ user_timeout' = user_timeout /\ wait_asked' = wait_asked /\ entered' = entered
      /\ laps' = laps /\ real_timeout' = real_timeout
      /\ \/ count' = count - 1 /\ count' # 0 /\ wait_timeout' = 0 /\ wait_pc' = "wait"
         \/ count' \in {count, count - 1} /\ wait_timeout' = wait_timeout /\ wait_pc' = "out"
  BY <1>1 DEF FullBatch, LastBatch, Return, More, call
<1>4. batches \in Nat /\ count \in Int /\ MaxCount \in Nat
  BY <1>1, PollTimeoutAssumption DEF WaitTypes
<1>5. batches' \in Nat /\ batches' <= MaxCount /\ count' \in Int
  BY <1>1, <1>3, <1>4 DEF Batched
<1>6. WaitTypes'
  BY <1>1, <1>2, <1>3, <1>5 DEF WaitTypes
<1>7. CASE wait_pc' = "out"
  BY <1>3, <1>5, <1>6, <1>7 DEF WaitInv, Honest, NeverLonger
<1>8. CASE wait_pc' = "wait"
  <2>1. count' = count - 1 /\ count' # 0 /\ wait_timeout' = 0
    BY <1>3, <1>8
  <2>2. Clocks' /\ Batched'
    BY <1>1, <1>2, <1>3, <1>4, <2>1 DEF Clocks, Batched, WaitTypes
  <2>3. Left' /\ Short' /\ NeverLonger'
    BY <1>1, <1>3, <2>1 DEF Left, Short, NeverLonger
  <2> QED BY <1>3, <1>5, <1>6, <1>8, <2>2, <2>3 DEF WaitInv, Honest
<1> QED BY <1>3, <1>7, <1>8

\* A poll never waits longer than asked, dispatches a bounded number of batches
\* and comes back early only with a callback (uv__io_poll()), as long as no
\* poll is under way for the 24 days after which real_timeout overflows.
THEOREM PollTakesItsTime == WaitSpec /\ []InSpan => WaitHonest
<1>1. WaitInit => WaitInv
  <2>1. 0 \in Nat /\ MaxClock \in Nat /\ MaxCount \in Nat /\ Timeouts \subseteq Int
    BY PollTimeoutAssumption
  <2> QED BY <2>1 DEF WaitInit, WaitInv, WaitTypes
<1>2. WaitInv /\ InSpan' /\ [WaitNext]_wait_vars => WaitInv' /\ [Honest]_wait_vars
  <2> SUFFICES ASSUME WaitInv, InSpan', [WaitNext]_wait_vars
                  PROVE  WaitInv' /\ [Honest]_wait_vars
    OBVIOUS
  <2>1. ASSUME NEW t \in Timeouts \cup {-1}, NEW metrics \in 0..1, NEW lag \in 0..MaxLag,
               PollCall(t, metrics, lag)
        PROVE  WaitInv' /\ Honest
    BY <2>1, PollCallKeeps
  <2>2. ASSUME NEW d \in 0..MaxClock, TimedOut(d) \/ Interrupted(d) PROVE WaitInv' /\ Honest
    BY <2>2, RetryKeeps DEF TimedOut, Interrupted
  <2>3. ASSUME NEW d \in 0..MaxClock, FullBatch(d) \/ LastBatch(d) PROVE WaitInv' /\ Honest
    BY <2>3, BatchKeeps
  <2>4. CASE UNCHANGED wait_vars
    <3>1. WaitInv'
      BY <2>4 DEF WaitInv, WaitTypes, Clocks, Left, Short, Batched, NeverLonger,
                  wait_vars, locals, call
    <3> QED BY <2>4, <3>1
  <2> QED BY <2>1, <2>2, <2>3, <2>4 DEF WaitNext
<1> QED BY <1>1, <1>2, PTL DEF WaitSpec, WaitHonest, Honest
=============================================================================
