-------------------------------- MODULE Heap --------------------------------
(***************************************************************************)
(* The binary heap of the timers (libuv/src/heap-inl.h), down to its       *)
(* pointers: a heap is a record of the root pointer, the number of nodes   *)
(* and the three links of every node.  Insert and remove are functions on  *)
(* such records; the state machine applies them in every order.            *)
(*                                                                         *)
(* A node is its own key: the order of the natural numbers stands for      *)
(* less_than(), which timer.c makes a strict total order by the start_id.  *)
(***************************************************************************)
EXTENDS Naturals, Sequences, FiniteSets

CONSTANT N              \* the number of nodes

ASSUME NAssumption == N \in Nat \ {0}

Nodes == 1..N
Null == 0

VARIABLE heap

less_than(a, b) == a < b

heap_init ==
  [min |-> Null, nelts |-> 0, left |-> [x \in Nodes |-> Null],
   right |-> [x \in Nodes |-> Null], parent |-> [x \in Nodes |-> Null]]

\* *x = y for the parent link of a node that may be Null
SetParent(h, x, y) == IF x = Null THEN h ELSE [h EXCEPT !.parent[x] = y]

\* The slot that points to old (a link of its parent p, or the root pointer)
\* points to new.
Relink(h, p, old, new) ==
  IF p = Null THEN [h EXCEPT !.min = new]
  ELSE IF h.left[p] = old THEN [h EXCEPT !.left[p] = new]
  ELSE [h EXCEPT !.right[p] = new]

\* Swap parent p with its child c: c moves closer to the root.
heap_node_swap(h, p, c) ==
  LET onLeft == h.left[p] = c
      sibling == IF onLeft THEN h.right[p] ELSE h.left[p]
      h1 == [h EXCEPT !.left[p] = h.left[c], !.right[p] = h.right[c], !.parent[p] = c,
                      !.left[c] = IF onLeft THEN p ELSE h.left[p],
                      !.right[c] = IF onLeft THEN h.right[p] ELSE p,
                      !.parent[c] = h.parent[p]]
      h2 == SetParent(SetParent(SetParent(h1, sibling, c), h.left[c], p), h.right[c], p)
  IN Relink(h2, h.parent[p], p, c)

\* The path from the root to the n-th place of a complete tree: the bits of n
\* below the leading one, 1 for right.
RECURSIVE Path(_)
Path(n) == IF n < 2 THEN <<>> ELSE Append(Path(n \div 2), n % 2)

RECURSIVE Walk(_, _, _)
Walk(h, x, path) ==
  IF path = <<>> THEN x
  ELSE Walk(h, IF Head(path) = 1 THEN h.right[x] ELSE h.left[x], Tail(path))

RECURSIVE WalkUp(_, _)
WalkUp(h, x) ==
  IF h.parent[x] # Null /\ less_than(x, h.parent[x])
    THEN WalkUp(heap_node_swap(h, h.parent[x], x), x)
    ELSE h

RECURSIVE WalkDown(_, _)
WalkDown(h, x) ==
  LET Smaller(a, b) == IF a # Null /\ less_than(a, b) THEN a ELSE b
      smallest == Smaller(h.right[x], Smaller(h.left[x], x))
  IN IF smallest = x THEN h ELSE WalkDown(heap_node_swap(h, x, smallest), x)

heap_insert(h, x) ==
  LET path == Path(h.nelts + 1)
      fresh == [h EXCEPT !.left[x] = Null, !.right[x] = Null, !.nelts = @ + 1]
      p == Walk(h, h.min, SubSeq(path, 1, Len(path) - 1))
      linked == IF path = <<>> THEN [fresh EXCEPT !.min = x, !.parent[x] = Null]
                ELSE IF path[Len(path)] = 1
                       THEN [fresh EXCEPT !.right[p] = x, !.parent[x] = p]
                       ELSE [fresh EXCEPT !.left[p] = x, !.parent[x] = p]
  IN WalkUp(linked, x)

\* Put node c, unlinked before, in the place of node x.
Replace(h, x, c) ==
  LET h1 == [h EXCEPT !.left[c] = h.left[x], !.right[c] = h.right[x],
                      !.parent[c] = h.parent[x]]
      h2 == SetParent(SetParent(h1, h.left[x], c), h.right[x], c)
  IN Relink(h2, h.parent[x], x, c)

\* Mutant of heap_remove: the replacement only moves down.
remove_without_walk_up(h, x) ==
  LET c == Walk(h, h.min, Path(h.nelts))
      unlinked == [Relink(h, h.parent[c], c, Null) EXCEPT !.nelts = @ - 1]
  IN IF c = x THEN unlinked ELSE WalkDown(Replace(unlinked, x, c), c)

\* The last node of the bottom row takes the place of x and moves down or up.
heap_remove(h, x) ==
  LET c == Walk(h, h.min, Path(h.nelts))
      unlinked == [Relink(h, h.parent[c], c, Null) EXCEPT !.nelts = @ - 1]
  IN IF c = x THEN unlinked
     ELSE WalkUp(WalkDown(Replace(unlinked, x, c), c), c)

-----------------------------------------------------------------------------
\* The nodes that can be reached from the root.
RECURSIVE Below(_, _)
Below(h, x) == IF x = Null THEN {} ELSE {x} \cup Below(h, h.left[x]) \cup Below(h, h.right[x])

Members == Below(heap, heap.min)

HeapInit == heap = heap_init

Insert(x) == x \notin Members /\ heap' = heap_insert(heap, x)

\* The links of a node outside the heap are dead: heap_insert() sets them all
\* before anything reads them.
Forget(h, x) == [h EXCEPT !.left[x] = Null, !.right[x] = Null, !.parent[x] = Null]

\* uv_timer_stop(); heap_dequeue() is the case x = heap.min.
Remove(x) == x \in Members /\ heap' = Forget(heap_remove(heap, x), x)

HeapNext == \E x \in Nodes : Insert(x) \/ Remove(x)

-----------------------------------------------------------------------------
(* Properties.                                                             *)

\* The tree is complete: its places are filled row by row, left to right, and
\* every link down has its link up.
Complete ==
  /\ Cardinality(Members) = heap.nelts
  /\ \A n \in 1..heap.nelts : Walk(heap, heap.min, Path(n)) # Null
  /\ heap.min # Null => heap.parent[heap.min] = Null
  /\ \A x \in Members : \A c \in {heap.left[x], heap.right[x]} \ {Null} :
       heap.parent[c] = x

\* No child comes before its parent; so uv__next_timeout() and
\* uv__run_timers() find the earliest timer at the root.
HeapOrder ==
  /\ \A x \in Members : \A c \in {heap.left[x], heap.right[x]} \ {Null} :
       less_than(x, c)
  /\ heap.min # Null => \A x \in Members \ {heap.min} : less_than(heap.min, x)

\* The heap as a priority set: an operation puts in or takes out one node and
\* keeps the others, wherever it moves them, and leaves a complete tree in
\* order, whatever was inserted and removed before.
PriorityStep == \E x \in Nodes : Members' = Members \cup {x} \/ Members' = Members \ {x}
ActsAsSet == [][PriorityStep /\ Members' # Members /\ (Complete /\ HeapOrder)']_heap
=============================================================================
