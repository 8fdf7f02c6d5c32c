------------------------------- MODULE Inotify -------------------------------
(***************************************************************************)
(* File event handles on Linux (unix/linux-inotify.c).  The handles that   *)
(* watch one inode share a watch of the kernel, wd, and a watcher_list     *)
(* that is found by it.  An event is told to every handle of the list, and *)
(* the callbacks may stop, start and close any handle, those of the list   *)
(* that is being walked included.                                          *)
(***************************************************************************)
EXTENDS Integers, Sequences, FiniteSets, SequencesExt, Queues

CONSTANTS
  FsHandles,  \* uv_fs_event_t
  Paths,
  MaxWd       \* bound: watches that are ever made; the kernel reuses no wd

VARIABLES
  watcher_lists, \* watcher_list of each wd that has one
  ev,         \* handles: active, wd, closed
  walk,       \* the walk of uv__inotify_read(): its wd, 0 for none, and queue
  kernel,     \* the watch of each path, 0 for none
  last_wd,
  ev_due,      \* history: handles the event is for and that were not stopped
  told        \* history: handles this walk called

ino_vars == <<watcher_lists, ev, walk, kernel, last_wd, ev_due, told>>

InotifyInit ==
  /\ watcher_lists = << >>
  /\ ev = [h \in FsHandles |-> [active |-> 0, wd |-> 0, closed |-> 0]]
  /\ walk = [wd |-> 0, queue |-> <<>>, cb |-> 0]
  /\ kernel = [p \in Paths |-> 0] /\ last_wd = 0
  /\ ev_due = {} /\ told = {}

\* User code runs outside of the walk or in a callback of it.
InoUser == walk.wd = 0 \/ walk.cb = 1

\* Mutant of maybe_free_watcher_list: a list that is being walked is freed too.
free_empty_list(ls, k, wd) ==
  IF ls[wd].watchers # <<>> THEN <<ls, k>>
  ELSE <<[w \in DOMAIN ls \ {wd} |-> ls[w]],
         [p \in Paths |-> IF k[p] = wd THEN 0 ELSE k[p]]>>

\* The lists and the watches of the kernel after maybe_free_watcher_list()
maybe_free_watcher_list(ls, k, wd) ==
  IF ls[wd].iterating = 1 \/ ls[wd].watchers # <<>> THEN <<ls, k>>
  ELSE <<[w \in DOMAIN ls \ {wd} |-> ls[w]],
         [p \in Paths |-> IF k[p] = wd THEN 0 ELSE k[p]]>>

\* uv_fs_event_start(): inotify_add_watch() returns the watch the path has, or
\* a new one; the handle joins the list of it.
uv_fs_event_start(h, p) ==
  /\ InoUser /\ ev[h].active = 0 /\ ev[h].closed = 0
  /\ kernel[p] # 0 \/ last_wd < MaxWd
  /\ LET wd == IF kernel[p] # 0 THEN kernel[p] ELSE last_wd + 1
         old == IF wd \in DOMAIN watcher_lists THEN watcher_lists[wd]
                ELSE [watchers |-> <<>>, iterating |-> 0, path |-> p]
     IN /\ watcher_lists' = [w \in DOMAIN watcher_lists \cup {wd} |->
                       IF w = wd THEN [old EXCEPT !.watchers = Append(@, h)]
                       ELSE watcher_lists[w]]
        /\ ev' = [ev EXCEPT ![h].active = 1, ![h].wd = wd]
        /\ kernel' = [kernel EXCEPT ![p] = wd]
        /\ last_wd' = IF wd > last_wd THEN wd ELSE last_wd
  /\ UNCHANGED <<walk, ev_due, told>>

\* uv_fs_event_stop(): QUEUE_REMOVE() unlinks the handle from the list or from
\* the queue of the walk, whichever it is linked into.
Stop(h, closed) ==
  LET wd == ev[h].wd
      ls == [watcher_lists EXCEPT ![wd].watchers = Without(@, h)]
      freed == maybe_free_watcher_list(ls, kernel, wd)
  IN /\ watcher_lists' = freed[1] /\ kernel' = freed[2]
     /\ walk' = [walk EXCEPT !.queue = Without(@, h)]
     /\ ev' = [ev EXCEPT ![h] = [active |-> 0, wd |-> 0, closed |-> closed]]
     /\ ev_due' = ev_due \ {h}
     /\ UNCHANGED <<last_wd, told>>

uv_fs_event_stop(h) == InoUser /\ ev[h].active = 1 /\ Stop(h, 0)

uv__fs_event_close(h) ==
  /\ InoUser /\ ev[h].closed = 0
  /\ \/ ev[h].active = 1 /\ Stop(h, 1)
     \/ /\ ev[h].active = 0 /\ ev' = [ev EXCEPT ![h].closed = 1]
        /\ UNCHANGED <<watcher_lists, walk, kernel, last_wd, ev_due, told>>

-----------------------------------------------------------------------------
(* uv__inotify_read()                                                      *)

\* An event for wd is read and the list of wd moved to the queue of the walk.
\* An event without a list, of a watch that is gone, is skipped.
ReadEvent(wd) ==
  /\ walk.wd = 0 /\ wd \in DOMAIN watcher_lists
  /\ walk' = [wd |-> wd, queue |-> watcher_lists[wd].watchers, cb |-> 0]
  /\ watcher_lists' = [watcher_lists EXCEPT ![wd].iterating = 1, ![wd].watchers = <<>>]
  /\ ev_due' = In(watcher_lists[wd].watchers) /\ told' = {}
  /\ UNCHANGED <<ev, kernel, last_wd>>

\* The next handle goes back to the list before its callback.
WalkNext ==
  /\ walk.wd # 0 /\ walk.cb = 0 /\ walk.queue # <<>>
  /\ LET h == Head(walk.queue) IN
     /\ walk' = [walk EXCEPT !.queue = Tail(@), !.cb = 1]
     /\ watcher_lists' = [watcher_lists EXCEPT ![walk.wd].watchers = Append(@, h)]
     /\ told' = told \cup {h} /\ ev_due' = ev_due \ {h}
  /\ UNCHANGED <<ev, kernel, last_wd>>

WalkReturn ==
  /\ walk.cb = 1 /\ walk' = [walk EXCEPT !.cb = 0]
  /\ UNCHANGED <<watcher_lists, ev, kernel, last_wd, ev_due, told>>

WalkEnd ==
  /\ walk.wd # 0 /\ walk.cb = 0 /\ walk.queue = <<>>
  /\ LET freed == maybe_free_watcher_list(
                    [watcher_lists EXCEPT ![walk.wd].iterating = 0], kernel, walk.wd)
     IN watcher_lists' = freed[1] /\ kernel' = freed[2]
  /\ walk' = [walk EXCEPT !.wd = 0]
  /\ UNCHANGED <<ev, last_wd, ev_due, told>>

\* The file is gone: the kernel drops its watch, and the list stays.
KernelIgnores(p) ==
  /\ kernel[p] # 0 /\ kernel' = [kernel EXCEPT ![p] = 0]
  /\ UNCHANGED <<watcher_lists, ev, walk, last_wd, ev_due, told>>

-----------------------------------------------------------------------------
\* uv__inotify_fork() in the child: every handle is stopped, its list freed and
\* the handle started again by the path of that list, list by list in the order
\* of wd, on a new inotify descriptor that counts from 1; when a start fails,
\* it and those after it are left stopped.
uv__inotify_fork ==
  /\ walk.wd = 0 /\ watcher_lists # << >>
  /\ \E cut \in 0..last_wd :
       LET ok == {w \in DOMAIN watcher_lists : w <= cut}
           First(p) == Min({w \in ok : watcher_lists[w].path = p})
           firsts == {First(watcher_lists[w].path) : w \in ok}
           NewWd(w) == Cardinality({f \in firsts : f <= First(watcher_lists[w].path)})
           Joined(p) == FlattenSeq([w \in 1..cut |->
                          IF w \in ok /\ watcher_lists[w].path = p THEN watcher_lists[w].watchers ELSE << >>])
       IN /\ watcher_lists' = [n \in 1..Cardinality(firsts) |->
                         LET p == watcher_lists[CHOOSE f \in firsts : NewWd(f) = n].path IN
                         [watchers |-> Joined(p), iterating |-> 0, path |-> p]]
          /\ ev' = [h \in FsHandles |->
                      IF ev[h].wd \in ok THEN [ev[h] EXCEPT !.wd = NewWd(ev[h].wd)]
                      ELSE [ev[h] EXCEPT !.active = 0, !.wd = 0]]
          /\ kernel' = [p \in Paths |->
                          IF \E w \in ok : watcher_lists[w].path = p
                          THEN NewWd(CHOOSE w \in ok : watcher_lists[w].path = p) ELSE 0]
          /\ last_wd' = Cardinality(firsts)
  /\ UNCHANGED <<walk, ev_due, told>>

InotifyNext ==
  \/ \E h \in FsHandles :
       \/ \E p \in Paths : uv_fs_event_start(h, p)
       \/ uv_fs_event_stop(h) \/ uv__fs_event_close(h)
  \/ \E wd \in 1..MaxWd : ReadEvent(wd)
  \/ WalkNext \/ WalkReturn \/ WalkEnd \/ uv__inotify_fork
  \/ \E p \in Paths : KernelIgnores(p)

InotifySpec == InotifyInit /\ [][InotifyNext]_ino_vars

-----------------------------------------------------------------------------
(* Properties.                                                             *)

\* An active handle is linked exactly once, into the list of its wd or into
\* the queue of the walk over that list; the list that is walked is not freed
\* under the walk, and no list outlives its last handle and the walk.
ListsSound ==
  /\ walk.wd # 0 => walk.wd \in DOMAIN watcher_lists
  /\ \A h \in FsHandles : LET wd == ev[h].wd IN
       ev[h].active = 1 =>
         /\ wd \in DOMAIN watcher_lists
         /\ (h \in In(watcher_lists[wd].watchers)) # (walk.wd = wd /\ h \in In(walk.queue))
  /\ \A wd \in DOMAIN watcher_lists :
       /\ \A h \in In(watcher_lists[wd].watchers) : ev[h].active = 1 /\ ev[h].wd = wd
       /\ Len(watcher_lists[wd].watchers) = Cardinality(In(watcher_lists[wd].watchers))
       /\ watcher_lists[wd].watchers = <<>> => walk.wd = wd
  /\ \A p \in Paths : kernel[p] # 0 => kernel[p] \in DOMAIN watcher_lists

\* The lists stay sound, and an event is told once to every handle that watched
\* when it was read and was not stopped before its turn, and to no other: a
\* handle that joins or leaves the list in a callback is not called by the walk
\* that goes on.
WalkExact ==
  [][/\ ListsSound'
     /\ walk.cb = 0 /\ walk'.cb = 1 =>
          \E h \in ev_due \ told : told' = told \cup {h} /\ ev[h].active = 1
     /\ walk.wd # 0 /\ walk'.wd = 0 => ev_due = {}]_ino_vars
=============================================================================
