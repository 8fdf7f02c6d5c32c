------------------------------- MODULE Queues -------------------------------
(* The intrusive lists of libuv/src/queue.h as sequences of the objects    *)
(* that are linked into them.                                              *)
EXTENDS Naturals, Sequences

In(q) == {q[i] : i \in DOMAIN q}

\* Mutant of RemoveNode: the node stays linked.
RemoveNodeKeeps(q, i) == q

\* QUEUE_REMOVE of the i-th node
RemoveNode(q, i) == [j \in 1..(Len(q) - 1) |-> IF j < i THEN q[j] ELSE q[j + 1]]

\* QUEUE_REMOVE of the node of x, wherever it is linked
Without(q, x) ==
  IF x \in In(q) THEN RemoveNode(q, CHOOSE i \in DOMAIN q : q[i] = x) ELSE q

-----------------------------------------------------------------------------
(* What these operations do to the set of nodes, for every list.          *)

\* A node is linked once at most.
NoDup(q) == \A i, j \in DOMAIN q : q[i] = q[j] => i = j

\* QUEUE_INIT: no node is linked into an empty list.
LEMMA EmptyList == In(<<>>) = {} /\ NoDup(<<>>) /\ \A S : <<>> \in Seq(S)
BY DEF In, NoDup

\* QUEUE_INSERT_HEAD links its node and no other, once if it was not linked.
LEMMA InsertHead ==
  ASSUME NEW S, NEW q \in Seq(S), NEW x \in S
  PROVE  /\ <<x>> \o q \in Seq(S)
         /\ In(<<x>> \o q) = In(q) \cup {x}
         /\ NoDup(q) /\ x \notin In(q) => NoDup(<<x>> \o q)
<1> DEFINE r == <<x>> \o q
<1>1. r \in Seq(S) /\ Len(r) = Len(q) + 1 /\ r[1] = x
      /\ \A i \in 1..Len(q) : r[i + 1] = q[i]
  OBVIOUS
<1>2. \A i \in DOMAIN r : i = 1 \/ (i - 1 \in DOMAIN q /\ r[i] = q[i - 1])
  BY <1>1
<1>3. \A i \in DOMAIN q : i + 1 \in DOMAIN r /\ r[i + 1] = q[i]
  BY <1>1
<1>4. 1 \in DOMAIN r
  BY <1>1
<1> HIDE DEF r
<1>5. In(r) = In(q) \cup {x}
  BY <1>1, <1>2, <1>3, <1>4 DEF In
<1>6. NoDup(q) /\ x \notin In(q) => NoDup(r)
  BY <1>1, <1>2 DEF In, NoDup
<1> QED BY <1>1, <1>5, <1>6 DEF r

\* QUEUE_INSERT_TAIL does the same.
LEMMA InsertTail ==
  ASSUME NEW S, NEW q \in Seq(S), NEW x \in S
  PROVE  /\ Append(q, x) \in Seq(S)
         /\ In(Append(q, x)) = In(q) \cup {x}
         /\ NoDup(q) /\ x \notin In(q) => NoDup(Append(q, x))
<1> DEFINE r == Append(q, x)
<1>1. r \in Seq(S) /\ Len(r) = Len(q) + 1 /\ r[Len(q) + 1] = x
      /\ \A i \in 1..Len(q) : r[i] = q[i]
  OBVIOUS
<1>2. \A i \in DOMAIN r : i = Len(q) + 1 \/ (i \in DOMAIN q /\ r[i] = q[i])
  BY <1>1
<1>3. \A i \in DOMAIN q : i \in DOMAIN r /\ r[i] = q[i]
  BY <1>1
<1>4. Len(q) + 1 \in DOMAIN r
  BY <1>1
<1> HIDE DEF r
<1>5. In(r) = In(q) \cup {x}
  BY <1>1, <1>2, <1>3, <1>4 DEF In
<1>6. NoDup(q) /\ x \notin In(q) => NoDup(r)
  BY <1>1, <1>2 DEF In, NoDup
<1> QED BY <1>1, <1>5, <1>6 DEF r

\* Taking the head off unlinks the head and no other node.
LEMMA TakeHead ==
  ASSUME NEW S, NEW q \in Seq(S), q # <<>>, NoDup(q)
  PROVE  /\ Tail(q) \in Seq(S) /\ Head(q) \in In(q)
         /\ In(Tail(q)) = In(q) \ {Head(q)}
         /\ NoDup(Tail(q))
<1> DEFINE r == Tail(q)
<1>1. r \in Seq(S) /\ Len(r) = Len(q) - 1 /\ Len(q) > 0 /\ Head(q) = q[1]
      /\ \A i \in 1..(Len(q) - 1) : r[i] = q[i + 1]
  OBVIOUS
<1>2. \A i \in DOMAIN r : i + 1 \in DOMAIN q /\ r[i] = q[i + 1]
  BY <1>1
<1>3. \A i \in DOMAIN q : i = 1 \/ (i - 1 \in DOMAIN r /\ r[i - 1] = q[i])
  BY <1>1
<1>4. 1 \in DOMAIN q /\ DOMAIN r \subseteq Nat \ {0}
  BY <1>1
<1> HIDE DEF r
<1>5. In(r) = In(q) \ {q[1]}
  <2>1. \A i \in DOMAIN r : r[i] # q[1]
    BY <1>2, <1>4 DEF NoDup
  <2> QED BY <1>2, <1>3, <2>1 DEF In
<1>6. NoDup(r)
  BY <1>2, <1>4 DEF NoDup
<1>7. q[1] \in In(q)
  BY <1>4 DEF In
<1> QED BY <1>1, <1>5, <1>6, <1>7 DEF r

\* QUEUE_REMOVE unlinks its node and no other.
LEMMA Unlinked ==
  ASSUME NEW S, NEW q \in Seq(S), NEW x, NoDup(q)
  PROVE  /\ Without(q, x) \in Seq(S)
         /\ In(Without(q, x)) = In(q) \ {x}
         /\ NoDup(Without(q, x))
<1>1. CASE x \notin In(q)
  BY <1>1 DEF Without
<1>2. CASE x \in In(q)
  <2> DEFINE k == CHOOSE i \in DOMAIN q : q[i] = x
             r == RemoveNode(q, k)
  <2>1. k \in DOMAIN q /\ q[k] = x
    BY <1>2 DEF In
  <2> HIDE DEF k
  <2>2. k \in 1..Len(q) /\ Len(q) - 1 \in Nat /\ DOMAIN q = 1..Len(q)
    BY <2>1
  <2>3. r \in [1..(Len(q) - 1) -> S]
    BY <2>2 DEF RemoveNode
  <2>4. r \in Seq(S) /\ DOMAIN r = 1..(Len(q) - 1)
    BY <2>2, <2>3
  <2>5. \A i \in DOMAIN r : r[i] = IF i < k THEN q[i] ELSE q[i + 1]
    BY <2>4 DEF RemoveNode
  <2> HIDE DEF r
  <2>6. \A i \in DOMAIN r : r[i] # x
    BY <2>1, <2>2, <2>4, <2>5 DEF NoDup
  <2>7. \A i \in DOMAIN r : \E j \in DOMAIN q : r[i] = q[j]
    BY <2>2, <2>4, <2>5
  <2>8. \A j \in DOMAIN q : j # k => \E i \in DOMAIN r : r[i] = q[j]
    <3> SUFFICES ASSUME NEW j \in DOMAIN q, j # k PROVE \E i \in DOMAIN r : r[i] = q[j]
      OBVIOUS
    <3>1. CASE j < k
      BY <3>1, <2>2, <2>4, <2>5
    <3>2. CASE j > k
      <4>1. j - 1 \in DOMAIN r /\ ~(j - 1 < k) /\ (j - 1) + 1 = j
        BY <3>2, <2>2, <2>4
      <4> QED BY <4>1, <2>5
    <3> QED BY <3>1, <3>2, <2>2
  <2>9. In(r) = In(q) \ {x}
    BY <2>1, <2>6, <2>7, <2>8 DEF In
  <2>10. NoDup(r)
    BY <2>2, <2>4, <2>5 DEF NoDup
  <2> QED BY <1>2, <2>4, <2>9, <2>10 DEF Without, r, k
<1> QED BY <1>1, <1>2
=============================================================================
