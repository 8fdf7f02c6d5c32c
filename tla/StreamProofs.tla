---------------------------- MODULE StreamProofs ----------------------------
(***************************************************************************)
(* Theorems about module Stream.  The lists of requests and the sums of    *)
(* their bytes come first, then the half that hands over descriptors, then *)
(* the stream: where its requests are, what they hold, and who sees to     *)
(* them.                                                                   *)
(*                                                                         *)
(* Then modules Signal and Process, whose pipes are read by the loop like  *)
(* a stream, for any handles, loops, threads and children, and any size of *)
(* the pipes.                                                              *)
(*                                                                         *)
(* That the counters of a closed handle are exact needs that no handler is *)
(* about to count for a handle that is not started (HandlerHolds), which   *)
(* the lock gives; and that a loop which is in a callback has not thrown   *)
(* away the message it is about (Busy).  That a one-shot handle is called  *)
(* once needs that one which was called and is still started is the handle *)
(* of the callback that runs (Spent).  That exit_cb comes once needs where *)
(* every child is: in the list of its loop until it is reaped, then in the *)
(* pending list until it is reported, never twice (Children).              *)
(***************************************************************************)
EXTENDS Stream, Process, FiniteSetTheorems, SequenceTheorems, WellFoundedInduction, TLAPS

-----------------------------------------------------------------------------
(* Lists that lose their head or take in another list                      *)

\* x at the end of list q is at the end of all.
AtTheEnd(p, c, q, x) == p \o c \o Append(q, x) = Append(p \o c \o q, x)

\* x put behind three lists is put behind the last.
LEMMA BehindAll ==
  ASSUME NEW S, NEW p \in Seq(S), NEW c \in Seq(S), NEW q \in Seq(S), NEW x \in S
  PROVE  AtTheEnd(p, c, q, x)
<1>1. p \o c \in Seq(S)
  BY ConcatProperties, Zenon
<1> QED BY <1>1 DEF AtTheEnd

\* The head of list q goes to the end of list c, which is before it.
KeepsOrder(p, c, q) == p \o Append(c, Head(q)) \o Tail(q) = p \o c \o q

\* The order of all is the same.
LEMMA HeadMoves ==
  ASSUME NEW S, NEW p \in Seq(S), NEW c \in Seq(S), NEW q \in Seq(S), q # <<>>
  PROVE  KeepsOrder(p, c, q)
<1>1. Head(q) \in S /\ Tail(q) \in Seq(S) /\ q = <<Head(q)>> \o Tail(q)
  OBVIOUS
<1>2. PICK x \in S, r \in Seq(S) : q = <<x>> \o r /\ x = Head(q) /\ r = Tail(q)
  BY <1>1
<1>3. p \o c \in Seq(S) /\ <<x>> \in Seq(S) /\ Append(c, x) \in Seq(S)
  BY ConcatProperties
<1>4. Append(c, x) = c \o <<x>>
  OBVIOUS
<1>5. p \o Append(c, x) = (p \o c) \o <<x>>
  BY <1>3, <1>4, ConcatAssociative
<1>6. ((p \o c) \o <<x>>) \o r = (p \o c) \o (<<x>> \o r)
  BY SMTT(30), <1>3, ConcatAssociative
<1> QED BY <1>2, <1>5, <1>6 DEF KeepsOrder

\* The third list goes behind the second.
LEMMA AllMove ==
  ASSUME NEW S, NEW p \in Seq(S), NEW c \in Seq(S), NEW q \in Seq(S)
  PROVE  p \o (c \o q) \o <<>> = p \o c \o q
<1>1. c \o q \in Seq(S)
  BY ConcatProperties, Zenon
<1>2. p \o (c \o q) \in Seq(S)
  BY <1>1, ConcatProperties, Zenon
<1>3. p \o (c \o q) \o <<>> = p \o (c \o q)
  BY <1>2, ConcatEmptySeq, Zenon
<1>4. (p \o c) \o q = p \o (c \o q)
  BY ConcatAssociative
<1> QED BY <1>3, <1>4

\* The second list becomes the first.
LEMMA ListMoves ==
  ASSUME NEW S, NEW c \in Seq(S), NEW q \in Seq(S)
  PROVE  c \o <<>> \o q = <<>> \o c \o q
BY ConcatEmptySeq, Zenon

\* The first of three lists loses its head.
LosesHead(p, c, q) ==
  /\ p \o c \o q # <<>> /\ Head(p \o c \o q) = Head(p)
  /\ Tail(p \o c \o q) = Tail(p) \o c \o q

\* That is the head of all.
LEMMA HeadGoes ==
  ASSUME NEW S, NEW p \in Seq(S), NEW c \in Seq(S), NEW q \in Seq(S), p # <<>>
  PROVE  LosesHead(p, c, q)
<1>1. PICK x \in S, r \in Seq(S) : p = <<x>> \o r /\ x = Head(p) /\ r = Tail(p)
  <2>1. Head(p) \in S /\ Tail(p) \in Seq(S) /\ p = <<Head(p)>> \o Tail(p)
    OBVIOUS
  <2> QED BY <2>1
<1>2. <<x>> \in Seq(S) /\ r \o c \in Seq(S)
  BY ConcatProperties
<1>3. (<<x>> \o r) \o c = <<x>> \o (r \o c)
  BY <1>2, ConcatAssociative
<1>4. (<<x>> \o (r \o c)) \o q = <<x>> \o ((r \o c) \o q)
  BY <1>2, ConcatAssociative
<1>5. PICK y \in Seq(S) : y = (r \o c) \o q
  BY <1>2, ConcatProperties
<1>6. p \o c \o q = <<x>> \o y
  BY <1>1, <1>3, <1>4, <1>5
<1>7. <<x>> \o y # <<>> /\ Head(<<x>> \o y) = x /\ Tail(<<x>> \o y) = y
  OBVIOUS
<1> QED BY <1>1, <1>5, <1>6, <1>7 DEF LosesHead

\* The head of list q goes to the end of list c.
Joins(c, q) == Append(c, Head(q)) \o Tail(q) = c \o q

\* What was called back and what is in flight stay in order.
LEMMA HeadJoins ==
  ASSUME NEW S, NEW c \in Seq(S), NEW q \in Seq(S), q # <<>>
  PROVE  Joins(c, q)
<1>1. PICK x \in S, r \in Seq(S) : q = <<x>> \o r /\ x = Head(q) /\ r = Tail(q)
  <2>1. Head(q) \in S /\ Tail(q) \in Seq(S) /\ q = <<Head(q)>> \o Tail(q)
    OBVIOUS
  <2> QED BY <2>1
<1>2. <<x>> \in Seq(S) /\ Append(c, x) = c \o <<x>>
  OBVIOUS
<1>3. (c \o <<x>>) \o r = c \o (<<x>> \o r)
  BY <1>2, ConcatAssociative
<1> QED BY <1>1, <1>2, <1>3 DEF Joins

-----------------------------------------------------------------------------
(* Sums of lists of numbers                                                *)

\* A set of numbers that is not empty has a least one.
LEMMA Least ==
  ASSUME NEW T \in SUBSET Nat, T # {}
  PROVE  \E n \in T : \A m \in T : n <= m
<1> DEFINE R == {p \in Nat \X Nat : p[1] < p[2]}
<1>1. IsWellFoundedOn(R, Nat)
  BY NatLessThanWellFounded DEF OpToRel
<1> HIDE DEF R
<1>2. PICK n \in T : \A m \in T : ~ (<<m, n>> \in R)
  BY <1>1, WFMin
<1>3. \A m \in T : n <= m
  <2> SUFFICES ASSUME NEW m \in T, ~(n <= m) PROVE FALSE
    OBVIOUS
  <2>1. m \in Nat /\ n \in Nat /\ m < n
    OBVIOUS
  <2>2. <<m, n>> \in R
    BY <2>1 DEF R
  <2> QED BY <1>2, <2>2
<1> QED BY <1>3

\* So a set that has 0, and with a number the next, has them all.
LEMMA Induct ==
  ASSUME NEW T \in SUBSET Nat, 0 \in T, \A n \in T : n + 1 \in T
  PROVE  T = Nat
<1> SUFFICES ASSUME T # Nat PROVE FALSE
  OBVIOUS
<1>1. PICK n \in Nat \ T : \A m \in Nat \ T : n <= m
  <2> DEFINE U == Nat \ T
  <2>1. U \in SUBSET Nat /\ U # {}
    OBVIOUS
  <2> HIDE DEF U
  <2>2. \E n \in U : \A m \in U : n <= m
    BY <2>1, Least
  <2> QED BY <2>2 DEF U
<1>2. n # 0 /\ n - 1 \in Nat /\ n \in Nat
  BY <1>1
<1>3. n - 1 \in T
  BY <1>1, <1>2
<1>4. (n - 1) + 1 = n
  BY <1>2
<1> QED BY <1>1, <1>3, <1>4

\* The running sums of h
Sums(h, f) ==
  f = [i \in 0..Len(h) |-> IF i = 0 THEN 0 ELSE f[i - 1] + h[i]]

\* There are such sums, for a list of any length.
LEMMA SumsExist == ASSUME NEW h \in Seq(Int) PROVE \E f : Sums(h, f)
<1> DEFINE Upto(n, f) == /\ f \in [0..n -> Int] /\ f[0] = 0
                         /\ \A i \in 1..n : f[i] = f[i - 1] + h[i]
           Has(n) == n <= Len(h) => \E f : Upto(n, f)
           T == {n \in Nat : Has(n)}
<1>0. Len(h) \in Nat /\ \A i \in 1..Len(h) : h[i] \in Int
  OBVIOUS
<1>1. Has(0)
  <2>1. Upto(0, [i \in 0..0 |-> 0])
    OBVIOUS
  <2> QED BY <2>1
<1>2. ASSUME NEW n \in Nat, Has(n) PROVE Has(n + 1)
  <2> SUFFICES ASSUME n + 1 <= Len(h) PROVE \E g : Upto(n + 1, g)
    OBVIOUS
  <2>0. PICK f : Upto(n, f)
    <3>1. n <= Len(h)
      BY <1>0
    <3> HIDE DEF Upto
    <3> QED BY <1>2, <3>1 
  <2> DEFINE g == [i \in 0..(n + 1) |-> IF i = n + 1 THEN f[n] + h[n + 1] ELSE f[i]]
  <2>1. h[n + 1] \in Int /\ f[n] \in Int
    BY <1>0, <2>0
  <2>2. g \in [0..(n + 1) -> Int] /\ g[0] = 0
    BY <2>0, <2>1
  <2>3. \A i \in 1..(n + 1) : g[i] = g[i - 1] + h[i]
    <3> SUFFICES ASSUME NEW i \in 1..(n + 1) PROVE g[i] = g[i - 1] + h[i]
      OBVIOUS
    <3>1. CASE i = n + 1
      BY <3>1, <2>1
    <3>2. CASE i # n + 1
      BY <3>2, <2>0
    <3> QED BY <3>1, <3>2
  <2>4. Upto(n + 1, g)
    BY <2>2, <2>3
  <2> QED BY <2>4
<1> HIDE DEF Has
<1>3. T \in SUBSET Nat /\ 0 \in T /\ \A n \in T : n + 1 \in T
  BY <1>1, <1>2
<1> HIDE DEF T
<1>4. T = Nat
  BY <1>3, Induct
<1>5. Has(Len(h))
  BY <1>0, <1>4 DEF T
<1>6. PICK f : Upto(Len(h), f)
  BY <1>0, <1>5 DEF Has
<1>7. f = [i \in 0..Len(h) |-> IF i = 0 THEN 0 ELSE f[i - 1] + h[i]]
  BY <1>0, <1>6
<1> QED BY <1>7 DEF Sums

\* Total(h) is the last of them.
LEMMA TotalIsSum ==
  ASSUME NEW h \in Seq(Int)
  PROVE  \E f : Sums(h, f) /\ Total(h) = f[Len(h)]
<1> DEFINE f == CHOOSE g : Sums(h, g)
<1>1. Sums(h, f)
  BY SumsExist
<1>2. Total(h) = f[Len(h)]
  BY DEF Total, Sums
<1> QED BY <1>1, <1>2

\* What the running sums are made of
LEMMA SumsValues ==
  ASSUME NEW h \in Seq(Int), NEW f, Sums(h, f)
  PROVE  f[0] = 0 /\ \A i \in 1..Len(h) : f[i] = f[i - 1] + h[i]
<1>1. \A i \in 0..Len(h) : f[i] = IF i = 0 THEN 0 ELSE f[i - 1] + h[i]
  BY Zenon DEF Sums
<1> QED BY <1>1

\* A sum over a prefix, and so every running sum, is a number.
LEMMA SumsType ==
  ASSUME NEW h \in Seq(Int), NEW f, Sums(h, f)
  PROVE  \A n \in 0..Len(h) : f[n] \in Int
<1> DEFINE Is1(n) == n <= Len(h) => f[n] \in Int
           T == {n \in Nat : Is1(n)}
<1>1. f[0] = 0 /\ \A i \in 1..Len(h) : f[i] = f[i - 1] + h[i]
  BY SumsValues
<1>2. Len(h) \in Nat /\ \A i \in 1..Len(h) : h[i] \in Int
  OBVIOUS
<1>3. Is1(0)
  BY <1>1
<1>4. ASSUME NEW n \in Nat, Is1(n) PROVE Is1(n + 1)
  BY <1>2, <1>1, <1>4
<1> HIDE DEF Is1
<1>5. T \in SUBSET Nat /\ 0 \in T /\ \A n \in T : n + 1 \in T
  BY <1>3, <1>4
<1> HIDE DEF T
<1>6. T = Nat
  BY <1>5, Induct
<1> QED BY <1>2, <1>6 DEF T, Is1

\* e and f, the sums of h and g, differ as the k-th numbers do.
DifferBy(h, e, g, f) ==
  \A k \in Nat \ {0}, d \in Int, m \in Nat :
    /\ m <= Len(h) /\ m <= Len(g)
    /\ \A i \in 1..m : g[i] = h[i] + (IF i = k THEN d ELSE 0)
    => f[m] = e[m] + (IF k <= m THEN d ELSE 0)

\* Two lists whose elements are the same but for one: so are their sums.
LEMMA SumsDiffer ==
  ASSUME NEW h \in Seq(Int), NEW g \in Seq(Int), NEW e, NEW f, Sums(h, e), Sums(g, f)
  PROVE  DifferBy(h, e, g, f)
<1> SUFFICES ASSUME NEW k \in Nat \ {0}, NEW d \in Int, NEW m \in Nat,
                    m <= Len(h), m <= Len(g),
                    \A i \in 1..m : g[i] = h[i] + (IF i = k THEN d ELSE 0)
             PROVE  f[m] = e[m] + (IF k <= m THEN d ELSE 0)
  BY DEF DifferBy
<1> DEFINE P(n) == n <= m => f[n] = e[n] + (IF k <= n THEN d ELSE 0)
           T == {n \in Nat : P(n)}
<1>1. /\ e[0] = 0 /\ \A i \in 1..Len(h) : e[i] = e[i - 1] + h[i]
      /\ f[0] = 0 /\ \A i \in 1..Len(g) : f[i] = f[i - 1] + g[i]
  BY SumsValues
<1>2. /\ Len(h) \in Nat /\ Len(g) \in Nat /\ \A i \in 1..Len(h) : h[i] \in Int
      /\ \A i \in 0..Len(h) : e[i] \in Int
      /\ \A i \in 0..Len(g) : f[i] \in Int
  BY SumsType
<1>3. P(0)
  BY <1>1
<1>4. ASSUME NEW n \in Nat, P(n) PROVE P(n + 1)
  <2> SUFFICES ASSUME n + 1 <= m PROVE f[n + 1] = e[n + 1] + (IF k <= n + 1 THEN d ELSE 0)
    OBVIOUS
  <2>1. n + 1 \in 1..Len(h) /\ n + 1 \in 1..Len(g) /\ n + 1 \in 1..m /\ (n + 1) - 1 = n
        /\ n \in 0..Len(h) /\ n <= m
    BY <1>2
  <2>2. e[n + 1] = e[n] + h[n + 1] /\ f[n + 1] = f[n] + g[n + 1]
    BY <1>1, <2>1
  <2>3. f[n] = e[n] + (IF k <= n THEN d ELSE 0)
    BY <1>4, <2>1
  <2>4. g[n + 1] = h[n + 1] + (IF n + 1 = k THEN d ELSE 0)
    BY <2>1
  <2>5. h[n + 1] \in Int /\ e[n] \in Int
    BY <1>2, <2>1
  <2> QED BY SMTT(30), <2>2, <2>3, <2>4, <2>5
<1> HIDE DEF P
<1>5. T \in SUBSET Nat /\ 0 \in T /\ \A n \in T : n + 1 \in T
  BY <1>3, <1>4
<1> HIDE DEF T
<1>6. T = Nat
  BY <1>5, Induct
<1>7. P(m)
  BY <1>6 DEF T
<1> QED BY <1>7 DEF P

\* The total of no numbers, and the type of every total
LEMMA TotalType ==
  Total(<<>>) = 0 /\ \A h \in Seq(Int) : Total(h) \in Int
<1>1. Total(<<>>) = 0
  <2>1. <<>> \in Seq(Int) /\ Len(<<>>) = 0
    OBVIOUS
  <2>2. PICK f : Sums(<<>>, f) /\ Total(<<>>) = f[0]
    BY <2>1, TotalIsSum
  <2> QED BY <2>1, <2>2, SumsValues
<1>2. ASSUME NEW h \in Seq(Int) PROVE Total(h) \in Int
  BY TotalIsSum, SumsType
<1> QED BY <1>1, <1>2

\* One number more at the end
LEMMA TotalAppend ==
  ASSUME NEW h \in Seq(Int), NEW g \in Seq(Int), Len(g) = Len(h) + 1,
         \A i \in 1..Len(h) : g[i] = h[i]
  PROVE  Total(g) = Total(h) + g[Len(g)]
<1>1. PICK e : Sums(h, e) /\ Total(h) = e[Len(h)]
  BY TotalIsSum
<1>2. PICK f : Sums(g, f) /\ Total(g) = f[Len(g)]
  BY TotalIsSum
<1>3. PICK m \in Nat : m = Len(h)
  OBVIOUS
<1>4. \A i \in 1..m : h[i] \in Int /\ g[i] = h[i] + (IF i = 1 THEN 0 ELSE 0)
  BY <1>3
<1>5. m <= Len(h) /\ m <= Len(g) /\ 0 \in Int /\ 1 \in Nat \ {0}
  BY <1>3
<1>6. f[m] = e[m] + (IF 1 <= m THEN 0 ELSE 0)
  <2>1. \A i \in 1..m : g[i] = h[i] + (IF i = 1 THEN 0 ELSE 0)
    BY <1>4
  <2>2. Sums(h, e) /\ Sums(g, f) /\ 1 \in Nat \ {0} /\ 0 \in Int /\ m <= Len(h) /\ m <= Len(g)
    BY <1>1, <1>2, <1>5
  <2>3. DifferBy(h, e, g, f)
    BY <2>2, SumsDiffer
  <2> QED BY ZenonT(30), <2>1, <2>2, <2>3 DEF DifferBy
<1>7. m + 1 \in 1..Len(g) /\ (m + 1) - 1 = m /\ m \in 0..Len(h)
  BY <1>3
<1>8. f[m + 1] = f[m] + g[m + 1]
  BY ZenonT(30), <1>2, <1>7, SumsValues
<1>9. e[m] \in Int
  BY <1>1, <1>7, SumsType
<1> QED BY <1>1, <1>2, <1>3, <1>6, <1>8, <1>9

\* One number that changes
LEMMA TotalChange ==
  ASSUME NEW h \in Seq(Int), NEW g \in Seq(Int), Len(g) = Len(h), NEW k \in 1..Len(h),
         NEW d \in Int, g[k] = h[k] + d, \A i \in 1..Len(h) : i # k => g[i] = h[i]
  PROVE  Total(g) = Total(h) + d
<1>1. PICK e : Sums(h, e) /\ Total(h) = e[Len(h)]
  BY TotalIsSum
<1>2. PICK f : Sums(g, f) /\ Total(g) = f[Len(g)]
  BY TotalIsSum
<1>3. PICK m \in Nat : m = Len(h)
  OBVIOUS
<1>4. k \in Nat \ {0} /\ m <= Len(h) /\ m <= Len(g) /\ k <= m
  BY <1>3
<1>5. \A i \in 1..m : g[i] = h[i] + (IF i = k THEN d ELSE 0)
  BY <1>3
<1>6. f[m] = e[m] + (IF k <= m THEN d ELSE 0)
  <2>1. Sums(h, e) /\ Sums(g, f) /\ k \in Nat \ {0} /\ m <= Len(h) /\ m <= Len(g)
    BY <1>1, <1>2, <1>4
  <2>2. DifferBy(h, e, g, f)
    BY <2>1, SumsDiffer
  <2> QED BY <1>5, <2>1, <2>2 DEF DifferBy
<1> QED BY <1>1, <1>2, <1>3, <1>4, <1>6

\* The first number goes.
LEMMA TotalTail ==
  ASSUME NEW h \in Seq(Int), NEW g \in Seq(Int), Len(h) = Len(g) + 1,
         \A i \in 1..Len(g) : g[i] = h[i + 1]
  PROVE  Total(h) = Total(g) + h[1]
<1>1. PICK e : Sums(h, e) /\ Total(h) = e[Len(h)]
  BY TotalIsSum
<1>2. PICK f : Sums(g, f) /\ Total(g) = f[Len(g)]
  BY TotalIsSum
<1>3. /\ e[0] = 0 /\ \A i \in 1..Len(h) : e[i] = e[i - 1] + h[i]
      /\ f[0] = 0 /\ \A i \in 1..Len(g) : f[i] = f[i - 1] + g[i]
  BY <1>1, <1>2, SumsValues
<1>4. /\ Len(g) \in Nat /\ \A i \in 1..Len(h) : h[i] \in Int
      /\ \A i \in 0..Len(g) : f[i] \in Int
  BY <1>2, SumsType
<1> DEFINE P(n) == n <= Len(g) => e[n + 1] = f[n] + h[1]
           T == {n \in Nat : P(n)}
<1>5. P(0)
  BY <1>4, <1>3
<1>6. ASSUME NEW n \in Nat, P(n) PROVE P(n + 1)
  <2> SUFFICES ASSUME n + 1 <= Len(g) PROVE e[(n + 1) + 1] = f[n + 1] + h[1]
    OBVIOUS
  <2>1. n + 1 \in 1..Len(g) /\ (n + 1) - 1 = n /\ (n + 1) + 1 \in 1..Len(h)
        /\ ((n + 1) + 1) - 1 = n + 1 /\ n <= Len(g) /\ 1 \in 1..Len(h) /\ n \in 0..Len(g)
    BY <1>4
  <2>2. e[(n + 1) + 1] = e[n + 1] + h[(n + 1) + 1] /\ f[n + 1] = f[n] + g[n + 1]
    BY <1>3, <2>1
  <2>3. e[n + 1] = f[n] + h[1] /\ g[n + 1] = h[(n + 1) + 1]
    BY <1>6, <2>1
  <2>4. h[1] \in Int /\ h[(n + 1) + 1] \in Int /\ f[n] \in Int
    BY <1>4, <2>1
  <2> QED BY SMTT(30), <2>2, <2>3, <2>4
<1> HIDE DEF P
<1>7. T \in SUBSET Nat /\ 0 \in T /\ \A n \in T : n + 1 \in T
  <2>1. T \in SUBSET Nat /\ 0 \in T
    BY <1>5
  <2>2. ASSUME NEW n \in T PROVE n + 1 \in T
    BY <1>6
  <2> QED BY <2>1, <2>2
<1> HIDE DEF T
<1>8. T = Nat
  BY <1>7, Induct
<1>9. P(Len(g))
  BY <1>4, <1>8 DEF T
<1> QED BY <1>1, <1>2, <1>4, <1>9 DEF P

-----------------------------------------------------------------------------
(* Descriptors that come in                                                *)

-----------------------------------------------------------------------------
(* Descriptors.  Those given out, the one that waits and those queued      *)
(* behind it are in the order of arrival (Arrival), so that none is given  *)
(* out twice; and while the server takes connections nothing waits         *)
(* (Turns), so that none is overwritten.                                   *)

ServerPlaces == {"idle", "accept", "connection_cb", "read_cb"}
Servers ==
  [ipc : BOOLEAN, fd : {0, 1}, flags : SUBSET {"LISTENING", "READING", "CLOSING"},
   pevents : SUBSET {"in"}, accepted_fd : Nat, queued_fds : Seq(Nat),
   emfile_fd : {0, 1}, refused : {0, 1}]

ServerTypes ==
  /\ srv \in Servers /\ srv_pc \in ServerPlaces
  /\ arrived \in Nat /\ accepted \in Seq(Nat) /\ closed_fds \in SUBSET Nat

Increasing(q) == \A i, j \in DOMAIN q : i < j => q[i] < q[j]

\* t holds a descriptor in front of those that are queued, all after the ones in q.
Arrival(t, q) ==
  /\ Increasing(q) /\ Increasing(t.queued_fds)
  /\ t.accepted_fd = 0 => t.queued_fds = <<>>
  /\ \A x \in In(t.queued_fds) : t.accepted_fd < x
  /\ \A x \in In(q), y \in Held(t) : x < y

\* Every descriptor that arrived is in one place.
Kept1(given, closed, held, n) ==
  /\ given \cup closed \cup held = 1..n
  /\ given \cap closed = {} /\ (given \cup closed) \cap held = {}

FdTurns ==
  /\ "CLOSING" \in srv.flags => srv.fd = 0 /\ srv.pevents = {} /\ Held(srv) = {}
                                /\ srv.flags = {"CLOSING"}
  /\ "LISTENING" \in srv.flags => ~srv.ipc
  /\ "READING" \in srv.flags => srv.ipc
  /\ ~srv.ipc => srv.queued_fds = <<>> /\ srv_pc # "read_cb"
  /\ srv.ipc => srv_pc \in {"idle", "read_cb"}
  /\ ~srv.ipc /\ srv.flags = {} => srv_pc = "idle" /\ srv.accepted_fd = 0
  /\ srv_pc = "accept" => srv.accepted_fd = 0
  /\ "LISTENING" \in srv.flags =>
       /\ srv_pc # "idle" => srv.pevents # {}
       /\ srv_pc = "idle" /\ srv.pevents # {} => srv.accepted_fd = 0
       /\ srv_pc = "idle" /\ srv.pevents = {} => srv.accepted_fd # 0 \/ srv.refused = 1

ServerInv ==
  /\ ServerTypes /\ FdTurns /\ Arrival(srv, accepted)
  /\ Kept1(In(accepted), closed_fds, Held(srv), arrived)

\* A server that is new holds nothing.
LEMMA ServerInitInv == ServerInit => ServerInv
<1> SUFFICES ASSUME ServerInit PROVE ServerInv
  OBVIOUS
<1>1. srv \in Servers
  <2>1. PICK b \in BOOLEAN, e \in {0, 1} :
          srv = [ipc |-> b, fd |-> 1, flags |-> {}, pevents |-> {}, accepted_fd |-> 0,
                 queued_fds |-> <<>>, emfile_fd |-> e, refused |-> 0]
    BY DEF ServerInit
  <2>2. <<>> \in Seq(Nat) /\ {} \in SUBSET {"LISTENING", "READING", "CLOSING"}
        /\ {} \in SUBSET {"in"} /\ 0 \in Nat /\ 1 \in {0, 1} /\ 0 \in {0, 1}
    OBVIOUS
  <2> QED BY <2>1, <2>2 DEF Servers
<1>2. srv.flags = {} /\ srv.accepted_fd = 0 /\ srv.queued_fds = <<>> /\ accepted = <<>>
      /\ closed_fds = {} /\ arrived = 0 /\ srv_pc = "idle"
  BY DEF ServerInit
<1>3. Held(srv) = {} /\ In(accepted) = {}
  BY <1>2, EmptyList DEF Held
<1>4. ServerTypes
  BY <1>1, <1>2 DEF ServerTypes, ServerPlaces
<1>5. FdTurns
  BY <1>2, <1>3 DEF FdTurns
<1>6. Arrival(srv, accepted)
  BY <1>2, <1>3, EmptyList DEF Arrival, Increasing
<1>7. Kept1(In(accepted), closed_fds, Held(srv), arrived)
  BY <1>2, <1>3 DEF Kept1
<1> QED BY <1>4, <1>5, <1>6, <1>7 DEF ServerInv

\* A step that neither brings, gives nor closes a descriptor.
LEMMA FdsStay ==
  ASSUME ServerInv, srv' \in Servers, srv_pc' \in ServerPlaces, FdTurns',
         srv'.accepted_fd = srv.accepted_fd, srv'.queued_fds = srv.queued_fds,
         UNCHANGED srv_history
  PROVE  ServerInv'
BY DEF srv_history, Held, ServerInv, ServerTypes, Arrival

\* Listening, reading and the turns of the loop leave the descriptors alone.
LEMMA TurnKeeps ==
  ASSUME ServerInv,
         \/ uv_listen \/ (\E on \in BOOLEAN : IpcRead(on)) \/ ServerEvent \/ AcceptEnd
         \/ ConnectionReturn \/ IpcReturn
  PROVE  ServerInv'
<1>1. srv \in Servers /\ srv_pc \in ServerPlaces /\ UNCHANGED srv_history
  BY DEF ServerInv, ServerTypes, uv_listen, IpcRead, ServerEvent, AcceptEnd, ConnectionReturn,
         IpcReturn
<1>2. CASE uv_listen
  BY <1>1, <1>2, FdsStay DEF uv_listen, Servers, SrvIs, ServerInv, FdTurns
<1>3. CASE \E on \in BOOLEAN : IpcRead(on)
  <2>1. /\ srv' \in Servers /\ srv'.flags \in {srv.flags \cup {"READING"}, srv.flags \ {"READING"}}
        /\ srv'.accepted_fd = srv.accepted_fd /\ srv'.queued_fds = srv.queued_fds
        /\ srv'.ipc = srv.ipc /\ srv'.fd = srv.fd
    BY ZenonT(30), <1>1, <1>3 DEF IpcRead, Servers
  <2>2. srv.ipc /\ "CLOSING" \notin srv.flags /\ srv_pc' = srv_pc
    BY <1>3 DEF IpcRead, SrvIs
  <2>3. FdTurns'
    BY <2>1, <2>2 DEF ServerInv, FdTurns
  <2> QED BY <1>1, <2>1, <2>2, <2>3, FdsStay
<1>4. CASE ServerEvent \/ AcceptEnd \/ IpcReturn
  BY <1>4, <1>1, FdsStay DEF ServerEvent, AcceptEnd, IpcReturn, ServerPlaces, ServerInv, FdTurns,
     SrvIs, Servers
<1>5. CASE ConnectionReturn
  <2>1. CASE srv.accepted_fd # 0
    BY <1>1, <1>5, <2>1, FdsStay DEF ConnectionReturn, Unclaimed, Servers, Held, ServerInv, FdTurns,
       ServerPlaces
  <2>2. CASE srv.accepted_fd = 0
    BY <1>5, <2>2, <1>1, FdsStay DEF ConnectionReturn, ServerInv, FdTurns, Servers, ServerPlaces
  <2> QED BY <2>1, <2>2
<1> QED BY <1>2, <1>3, <1>4, <1>5

\* A descriptor behind all of a list keeps the list in order.
LEMMA IncreasingAppend ==
  ASSUME NEW q \in Seq(Nat), NEW x \in Nat, Increasing(q), \A y \in In(q) : y < x
  PROVE  Increasing(Append(q, x))
BY DEF In, Increasing

\* The head of a list in order is before the others.
LEMMA IncreasingTail ==
  ASSUME NEW q \in Seq(Nat), q # <<>>, Increasing(q)
  PROVE  /\ Head(q) \in Nat /\ Tail(q) \in Seq(Nat) /\ Increasing(Tail(q))
         /\ In(q) = In(Tail(q)) \cup {Head(q)}
         /\ \A x \in In(Tail(q)) : Head(q) < x
<1> DEFINE r == Tail(q)
<1>1. /\ r \in Seq(Nat) /\ Head(q) = q[1] /\ q[1] \in Nat /\ 1 \in DOMAIN q
      /\ DOMAIN r = 1..(Len(q) - 1) /\ DOMAIN q = 1..Len(q) /\ Len(q) \in Nat
      /\ \A i \in 1..(Len(q) - 1) : r[i] = q[i + 1]
  OBVIOUS
<1>2. \A i \in DOMAIN r : i + 1 \in DOMAIN q /\ r[i] = q[i + 1] /\ 1 < i + 1
  BY <1>1
<1>3. \A i \in DOMAIN q : i = 1 \/ (i - 1 \in DOMAIN r /\ r[i - 1] = q[i])
  BY <1>1
<1> HIDE DEF r
<1>4. Increasing(r)
  BY <1>1, <1>2 DEF Increasing
<1>5. In(q) = In(r) \cup {q[1]}
  <2>1. \A i \in DOMAIN r : \E j \in DOMAIN q : r[i] = q[j]
    BY <1>2
  <2>2. \A i \in DOMAIN q : q[i] = q[1] \/ \E j \in DOMAIN r : q[i] = r[j]
    BY <1>3
  <2>3. \A x \in In(r) : x \in In(q)
    BY <2>1 DEF In
  <2>4. \A x \in In(q) : x = q[1] \/ x \in In(r)
    BY <2>2 DEF In
  <2>5. q[1] \in In(q)
    BY <1>1 DEF In
  <2> QED BY <2>3, <2>4, <2>5
<1>6. \A i \in DOMAIN r : q[1] < r[i]
  BY <1>1, <1>2 DEF Increasing
<1>7. \A x \in In(r) : q[1] < x
  BY <1>6 DEF In
<1> QED BY <1>1, <1>4, <1>5, <1>7 DEF r

\* uv_accept() gives out or closes the first descriptor and brings up the next.
LEMMA AcceptKeeps == ServerInv /\ uv_accept => ServerInv'
<1> SUFFICES ASSUME ServerInv, uv_accept PROVE ServerInv'
  OBVIOUS
<1> DEFINE a == srv.accepted_fd
           q == srv.queued_fds
<1>1. PICK err \in BOOLEAN :
        /\ srv' = Accepted(srv, err)
        /\ IF err THEN closed_fds' = closed_fds \cup {a} /\ accepted' = accepted
                  ELSE accepted' = Append(accepted, a) /\ closed_fds' = closed_fds
  BY DEF uv_accept
<1>2. SrvUser /\ a # 0 /\ srv_pc' = srv_pc /\ arrived' = arrived
  BY DEF uv_accept
<1>3. /\ srv \in Servers /\ srv_pc \in ServerPlaces /\ arrived \in Nat
      /\ accepted \in Seq(Nat) /\ closed_fds \in SUBSET Nat /\ a \in Nat /\ q \in Seq(Nat)
      /\ Arrival(srv, accepted) /\ FdTurns
      /\ Kept1(In(accepted), closed_fds, Held(srv), arrived)
  BY DEF ServerInv, ServerTypes, Servers
<1>4. srv_pc # "accept"
  BY <1>2 DEF SrvUser
<1>5. a \in Held(srv) /\ "CLOSING" \notin srv.flags
  BY <1>2, <1>3 DEF Held, FdTurns
<1>6. PICK a2 \in Nat, q2 \in Seq(Nat) :
        /\ srv'.accepted_fd = a2 /\ srv'.queued_fds = q2 /\ Increasing(q2)
        /\ ({a2} \ {0}) \cup In(q2) = Held(srv) \ {a}
        /\ a2 = 0 => q2 = <<>>
        /\ \A x \in In(q2) : a2 < x
  <2>1. CASE q # <<>>
    <3>1. Increasing(q) /\ (\A x \in In(q) : a < x)
      BY <1>3 DEF Arrival
    <3>2. /\ Head(q) \in Nat /\ Tail(q) \in Seq(Nat) /\ Increasing(Tail(q))
          /\ In(q) = In(Tail(q)) \cup {Head(q)} /\ \A x \in In(Tail(q)) : Head(q) < x
      BY <1>3, <2>1, <3>1, IncreasingTail
    <3>3. srv'.accepted_fd = Head(q) /\ srv'.queued_fds = Tail(q)
      BY <1>1, <1>3, <2>1 DEF Accepted, NextQueued, Servers
    <3>4. Head(q) \in In(q) /\ a < Head(q)
      BY <3>1, <3>2
    <3>6. Head(q) # 0 /\ a \notin In(q)
      BY <1>3, <3>1, <3>2, <3>4
    <3>5. ({Head(q)} \ {0}) \cup In(Tail(q)) = Held(srv) \ {a}
      BY <1>2, <3>2, <3>6 DEF Held
    <3> QED BY <3>2, <3>3, <3>5, <3>6
  <2>2. CASE q = <<>>
    <3>1. srv'.accepted_fd = 0 /\ srv'.queued_fds = <<>>
      BY <1>1, <1>3, <2>2 DEF Accepted, Servers
    <3>2. Held(srv) = {a} /\ In(<<>>) = {} /\ <<>> \in Seq(Nat) /\ Increasing(<<>>)
      BY <1>2, <2>2, EmptyList DEF Held, Increasing
    <3>3. /\ ({0} \ {0}) \cup In(<<>>) = Held(srv) \ {a}
          /\ \A x \in In(<<>>) : 0 < x
      BY <3>2, Zenon
    <3> QED BY <3>1, <3>2, <3>3, 0 \in Nat
  <2> QED BY <2>1, <2>2
<1>7. /\ srv' \in Servers /\ srv'.flags = srv.flags /\ srv'.fd = srv.fd /\ srv'.ipc = srv.ipc
      /\ ~srv.ipc => (IF err THEN srv'.pevents = srv.pevents /\ srv'.refused = 1
                             ELSE srv'.pevents = {"in"}) /\ srv'.accepted_fd = 0 /\ srv'.queued_fds = <<>>
  <2>1. CASE q # <<>>
    <3>1. Head(q) \in Nat /\ Tail(q) \in Seq(Nat)
      BY <1>3, <2>1
    <3> QED BY <1>1, <1>3, <2>1, <3>1 DEF Accepted, NextQueued, Servers, FdTurns
  <2>2. CASE q = <<>>
    BY <1>1, <1>3, <2>2 DEF Accepted, Servers
  <2> QED BY <2>1, <2>2
<1>8. Held(srv') = Held(srv) \ {a}
  BY <1>6 DEF Held
<1>9. FdTurns'
  BY <1>2, <1>3, <1>4, <1>5, <1>6, <1>7, <1>8 DEF FdTurns, Servers, ServerPlaces
<1> HIDE DEF a, q
<1>10. CASE err
  <2>1. accepted' = accepted /\ closed_fds' = closed_fds \cup {a}
    BY <1>1, <1>10
  <2>2. ServerTypes'
    BY <1>2, <1>3, <1>7, <2>1 DEF ServerTypes
  <2>3. Arrival(srv', accepted')
    BY <1>3, <1>6, <1>8, <2>1 DEF Arrival
  <2>4. Kept1(In(accepted'), closed_fds', Held(srv'), arrived')
    BY <1>2, <1>3, <1>5, <1>8, <2>1 DEF Kept1
  <2> QED BY <1>9, <2>2, <2>3, <2>4 DEF ServerInv
<1>11. CASE ~err
  <2>1. accepted' = Append(accepted, a) /\ closed_fds' = closed_fds
    BY <1>1, <1>11
  <2>2. accepted' \in Seq(Nat) /\ In(accepted') = In(accepted) \cup {a}
    BY SMTT(30), <1>3, <2>1, InsertTail
  <2>3. ServerTypes'
    BY <1>2, <1>3, <1>7, <2>1, <2>2 DEF ServerTypes
  <2>4. Increasing(accepted')
    BY <1>3, <1>5, <2>1, IncreasingAppend DEF Arrival
  <2>5. \A y \in Held(srv') : a < y
    BY <1>3, <1>8 DEF Held, Arrival, a
  <2>6. Arrival(srv', accepted')
    BY <1>3, <1>6, <1>8, <2>2, <2>4, <2>5 DEF Arrival
  <2>7. Kept1(In(accepted'), closed_fds', Held(srv'), arrived')
    BY <1>2, <1>3, <1>5, <1>8, <2>1, <2>2 DEF Kept1
  <2> QED BY <1>9, <2>3, <2>6, <2>7 DEF ServerInv
<1> QED BY <1>10, <1>11

\* A close closes what nobody claimed.
LEMMA StreamCloseKeeps == ServerInv /\ StreamClose => ServerInv'
<1> SUFFICES ASSUME ServerInv, StreamClose PROVE ServerInv'
  OBVIOUS
<1>1. /\ srv \in Servers /\ srv_pc \in ServerPlaces /\ arrived \in Nat
      /\ accepted \in Seq(Nat) /\ closed_fds \in SUBSET Nat
      /\ Arrival(srv, accepted) /\ FdTurns
      /\ Kept1(In(accepted), closed_fds, Held(srv), arrived)
  BY DEF ServerInv, ServerTypes
<1>2. /\ srv_pc # "accept" /\ srv_pc' = srv_pc /\ arrived' = arrived /\ accepted' = accepted
      /\ closed_fds' = closed_fds \cup Held(srv)
  BY DEF StreamClose, SrvUser
<1>3. /\ srv' \in Servers /\ srv'.flags = {"CLOSING"} /\ srv'.pevents = {} /\ srv'.fd = 0
      /\ srv'.accepted_fd = 0 /\ srv'.queued_fds = <<>> /\ srv'.ipc = srv.ipc
  <2>1. <<>> \in Seq(Nat)
    OBVIOUS
  <2> QED BY <1>1, <2>1 DEF StreamClose, Servers
<1>4. Held(srv') = {} /\ In(<<>>) = {}
  BY <1>3, EmptyList DEF Held
<1>5. FdTurns'
  BY <1>1, <1>2, <1>3, <1>4 DEF FdTurns
<1>6. Held(srv) \in SUBSET Nat
  BY <1>1 DEF Kept1
<1>7. ServerTypes'
  BY <1>1, <1>2, <1>3, <1>6 DEF ServerTypes
<1>8. Arrival(srv', accepted')
  BY <1>1, <1>2, <1>3, <1>4 DEF Arrival, Increasing
<1>9. Kept1(In(accepted'), closed_fds', Held(srv'), arrived')
  BY <1>1, <1>2, <1>4 DEF Kept1
<1> QED BY <1>5, <1>7, <1>8, <1>9 DEF ServerInv

\* A connection finds accepted_fd free.
LEMMA AcceptNextKeeps == ServerInv /\ AcceptNext => ServerInv'
<1> SUFFICES ASSUME ServerInv, AcceptNext PROVE ServerInv'
  OBVIOUS
<1>1. /\ srv \in Servers /\ arrived \in Nat
      /\ accepted \in Seq(Nat) /\ closed_fds \in SUBSET Nat
      /\ Arrival(srv, accepted) /\ FdTurns
      /\ Kept1(In(accepted), closed_fds, Held(srv), arrived)
  BY DEF ServerInv, ServerTypes
<1>2. /\ srv_pc = "accept" /\ srv.fd = 1 /\ arrived' = arrived + 1 /\ accepted' = accepted
      /\ closed_fds' = closed_fds /\ srv_pc' = "connection_cb"
      /\ srv' = [srv EXCEPT !.accepted_fd = arrived + 1]
  BY DEF AcceptNext
<1>3. /\ srv' \in Servers /\ srv'.flags = srv.flags /\ srv'.pevents = srv.pevents
      /\ srv'.fd = srv.fd /\ srv'.accepted_fd = arrived + 1
      /\ srv'.queued_fds = srv.queued_fds /\ srv'.ipc = srv.ipc
  <2>1. arrived + 1 \in Nat
    BY <1>1
  <2> QED BY <1>1, <1>2, <2>1 DEF Servers
<1>4. srv.accepted_fd = 0 /\ srv.queued_fds = <<>>
  BY <1>1, <1>2 DEF FdTurns, Arrival
<1>5. Held(srv) = {} /\ Held(srv') = {arrived + 1}
  BY <1>1, <1>3, <1>4, EmptyList DEF Held
<1>6. FdTurns'
  BY <1>1, <1>2, <1>3, <1>4 DEF FdTurns
<1>7. ServerTypes'
  BY <1>1, <1>2, <1>3 DEF ServerTypes, ServerPlaces
<1>8. \A x \in In(accepted) : x < arrived + 1
  BY <1>1 DEF Kept1
<1>9. Arrival(srv', accepted')
  BY <1>1, <1>2, <1>3, <1>4, <1>5, <1>8, EmptyList DEF Arrival
<1>10. Kept1(In(accepted), closed_fds, {arrived + 1}, arrived + 1)
  BY <1>1, <1>5 DEF Kept1
<1> QED BY <1>2, <1>5, <1>6, <1>7, <1>9, <1>10 DEF ServerInv

\* n descriptors that are closed as they come
LEMMA KeptClosed ==
  ASSUME NEW G, NEW C, NEW H, NEW k \in Nat, NEW n \in Nat, Kept1(G, C, H, k)
  PROVE  Kept1(G, C \cup (k + 1)..(k + n), H, k + n)
<1>1. 1..(k + n) = (1..k) \cup (k + 1)..(k + n) /\ (1..k) \cap (k + 1)..(k + n) = {}
  OBVIOUS
<1> QED BY <1>1, Zenon DEF Kept1

\* A connection that cannot be accepted is told of, or closed with those behind it.
LEMMA AcceptFailsKeeps == ServerInv /\ AcceptFails => ServerInv'
<1> SUFFICES ASSUME ServerInv, AcceptFails PROVE ServerInv'
  OBVIOUS
<1>1. /\ srv \in Servers /\ arrived \in Nat
      /\ accepted \in Seq(Nat) /\ closed_fds \in SUBSET Nat
      /\ Arrival(srv, accepted) /\ FdTurns
      /\ Kept1(In(accepted), closed_fds, Held(srv), arrived)
  BY DEF ServerInv, ServerTypes
<1>2. /\ srv_pc = "accept" /\ srv.fd = 1 /\ accepted' = accepted
      /\ srv_pc' \in {"idle", "connection_cb"}
      /\ srv'.flags = srv.flags /\ srv'.pevents = srv.pevents
      /\ srv'.fd = srv.fd /\ srv'.accepted_fd = srv.accepted_fd
      /\ srv'.queued_fds = srv.queued_fds /\ srv'.ipc = srv.ipc /\ srv' \in Servers
  BY <1>1 DEF AcceptFails, Servers
<1>3. FdTurns'
  BY <1>1, <1>2 DEF FdTurns
<1>4. Held(srv') = Held(srv)
  BY <1>2 DEF Held
<1>5. Arrival(srv', accepted')
  BY <1>1, <1>2, <1>4 DEF Arrival
<1>6. CASE arrived' = arrived /\ closed_fds' = closed_fds
  BY <1>1, <1>2, <1>6, <1>3, <1>4, <1>5 DEF ServerTypes, ServerPlaces, ServerInv
<1>7. CASE \E n \in 0..(MaxFds - arrived) :
             /\ arrived' = arrived + n
             /\ closed_fds' = closed_fds \cup (arrived + 1)..(arrived + n)
  BY <1>1, <1>7, <1>2, <1>3, <1>4, <1>5, KeptClosed DEF ServerTypes, ServerPlaces, ServerInv
<1> QED BY <1>6, <1>7 DEF AcceptFails

\* A list in order behind another
LEMMA IncreasingConcat ==
  ASSUME NEW p \in Seq(Nat), NEW q \in Seq(Nat), Increasing(p), Increasing(q),
         \A x \in In(p), y \in In(q) : x < y
  PROVE  p \o q \in Seq(Nat) /\ Increasing(p \o q) /\ In(p \o q) = In(p) \cup In(q)
<1> DEFINE r == p \o q
<1>1. /\ r \in Seq(Nat) /\ DOMAIN r = 1..(Len(p) + Len(q))
      /\ DOMAIN p = 1..Len(p) /\ DOMAIN q = 1..Len(q) /\ Len(p) \in Nat /\ Len(q) \in Nat
      /\ \A i \in 1..Len(p) : r[i] = p[i]
      /\ \A i \in 1..Len(q) : r[Len(p) + i] = q[i]
  OBVIOUS
<1>2. \A i \in DOMAIN r :
        \/ i \in DOMAIN p /\ r[i] = p[i]
        \/ i > Len(p) /\ i - Len(p) \in DOMAIN q /\ r[i] = q[i - Len(p)]
  BY <1>1
<1>3. /\ \A i \in DOMAIN p : i \in DOMAIN r
      /\ \A i \in DOMAIN q : Len(p) + i \in DOMAIN r
  BY <1>1
<1> HIDE DEF r
<1>4. In(r) = In(p) \cup In(q)
  <2>1. \A i \in DOMAIN r : (\E j \in DOMAIN p : r[i] = p[j]) \/ (\E j \in DOMAIN q : r[i] = q[j])
    BY <1>2
  <2>2. \A j \in DOMAIN p : \E i \in DOMAIN r : r[i] = p[j]
    BY <1>1, <1>3
  <2>3. \A j \in DOMAIN q : \E i \in DOMAIN r : r[i] = q[j]
    BY <1>1, <1>3
  <2>4. \A x \in In(r) : x \in In(p) \/ x \in In(q)
    BY <2>1 DEF In
  <2>5. \A x \in In(p) : x \in In(r)
    BY <2>2 DEF In
  <2>6. \A x \in In(q) : x \in In(r)
    BY <2>3 DEF In
  <2> QED BY <2>4, <2>5, <2>6
<1>5. Increasing(r)
  <2> SUFFICES ASSUME NEW i \in DOMAIN r, NEW j \in DOMAIN r, i < j PROVE r[i] < r[j]
    BY DEF Increasing
  <2>1. CASE j \in DOMAIN p
    <3>1. i \in DOMAIN p /\ p[i] < p[j]
      BY <1>1, <2>1 DEF Increasing
    <3> QED BY <1>1, <2>1, <3>1
  <2>2. CASE j > Len(p)
    <3>1. j - Len(p) \in DOMAIN q /\ r[j] = q[j - Len(p)]
      BY <1>1, <1>2, <2>2
    <3>2. CASE i \in DOMAIN p /\ r[i] = p[i]
      BY <3>1, <3>2 DEF In
    <3>3. CASE i - Len(p) \in DOMAIN q /\ r[i] = q[i - Len(p)]
      BY <1>1, <3>1, <3>3 DEF Increasing
    <3> QED BY <1>2, <3>2, <3>3
  <2> QED BY <1>2, <2>1, <2>2
<1> QED BY <1>1, <1>4, <1>5 DEF r

\* Descriptors that come with one read: the first k are kept, the others closed.
LEMMA IpcReceiveKeeps == ServerInv /\ IpcReceive => ServerInv'
<1> SUFFICES ASSUME ServerInv, IpcReceive PROVE ServerInv'
  OBVIOUS
<1> DEFINE q == srv.queued_fds
           c == srv.accepted_fd
<1>1. /\ srv \in Servers /\ arrived \in Nat /\ c \in Nat /\ q \in Seq(Nat)
      /\ accepted \in Seq(Nat) /\ closed_fds \in SUBSET Nat
      /\ Arrival(srv, accepted) /\ FdTurns
      /\ Kept1(In(accepted), closed_fds, Held(srv), arrived)
  BY DEF ServerInv, ServerTypes, Servers
<1>2. PICK n \in 0..(MaxFds - arrived) : \E k \in 0..n :
        LET new == [i \in 1..k |-> arrived + i]
            first == c = 0 /\ k > 0
        IN /\ n > 0 /\ c = 0 => k > 0
           /\ srv' = [srv EXCEPT !.accepted_fd = IF first THEN new[1] ELSE @,
                                 !.queued_fds = @ \o (IF first THEN Tail(new) ELSE new)]
           /\ arrived' = arrived + n
           /\ closed_fds' = closed_fds \cup (arrived + k + 1)..(arrived + n)
  BY DEF IpcReceive
<1>20. PICK k \in 0..n :
        LET new == [i \in 1..k |-> arrived + i]
            first == c = 0 /\ k > 0
        IN /\ n > 0 /\ c = 0 => k > 0
           /\ srv' = [srv EXCEPT !.accepted_fd = IF first THEN new[1] ELSE @,
                                 !.queued_fds = @ \o (IF first THEN Tail(new) ELSE new)]
           /\ arrived' = arrived + n
           /\ closed_fds' = closed_fds \cup (arrived + k + 1)..(arrived + n)
  BY <1>2
<1>3. n \in Nat /\ k \in Nat /\ k <= n
  OBVIOUS
<1>4. srv_pc = "idle" /\ srv_pc' = "read_cb" /\ srv.ipc /\ accepted' = accepted
      /\ "CLOSING" \notin srv.flags /\ "LISTENING" \notin srv.flags
  BY <1>1 DEF IpcReceive, SrvIs, FdTurns
<1>5. PICK new : new = [i \in 1..k |-> arrived + i]
  OBVIOUS
<1>6. new \in Seq(Nat) /\ Len(new) = k /\ DOMAIN new = 1..k
      /\ \A i \in 1..k : new[i] = arrived + i
  BY <1>1, <1>3, <1>5
<1>7. In(new) = (arrived + 1)..(arrived + k) /\ Increasing(new)
  <2>1. \A i \in 1..k : arrived + i \in (arrived + 1)..(arrived + k)
    BY <1>1, <1>3
  <2>2. \A x \in (arrived + 1)..(arrived + k) : x - arrived \in 1..k /\ arrived + (x - arrived) = x
    BY <1>1, <1>3
  <2>3. In(new) = (arrived + 1)..(arrived + k)
    BY <1>6, <2>1, <2>2 DEF In
  <2>4. Increasing(new)
    BY <1>1, <1>3, <1>6 DEF Increasing
  <2> QED BY <2>3, <2>4
<1>8. PICK c2 \in Nat, q2 \in Seq(Nat) :
        /\ srv'.accepted_fd = c2 /\ srv'.queued_fds = q2 /\ Increasing(q2)
        /\ ({c2} \ {0}) \cup In(q2) = Held(srv) \cup In(new)
        /\ c2 = 0 => q2 = <<>>
        /\ \A x \in In(q2) : c2 < x
  <2>1. \A x \in Held(srv), y \in In(new) : x < y
    BY <1>1, <1>7 DEF Kept1
  <2>2. CASE c = 0 /\ k > 0
    <3>1. q = <<>> /\ Held(srv) = {}
      BY <1>1, <2>2, EmptyList DEF Arrival, Held
    <3>2. new # <<>> /\ new[1] = Head(new)
      BY <1>6, <2>2
    <3>3. /\ Head(new) \in Nat /\ Tail(new) \in Seq(Nat) /\ Increasing(Tail(new))
          /\ In(new) = In(Tail(new)) \cup {Head(new)}
          /\ \A x \in In(Tail(new)) : Head(new) < x
      BY <1>6, <1>7, <3>2, IncreasingTail
    <3>4. srv'.accepted_fd = Head(new) /\ srv'.queued_fds = <<>> \o Tail(new)
      BY <1>1, <1>20, <1>5, <2>2, <3>1, <3>2 DEF Servers
    <3>5. <<>> \o Tail(new) = Tail(new)
      BY <3>3
    <3>6. Head(new) # 0
      BY <1>1, <1>3, <1>6, <2>2, <3>2
    <3>7. ({Head(new)} \ {0}) \cup In(Tail(new)) = Held(srv) \cup In(new)
      BY <3>1, <3>3, <3>6
    <3> QED BY <3>3, <3>4, <3>5, <3>6, <3>7
  <2>3. CASE ~(c = 0 /\ k > 0)
    <3>1. srv'.accepted_fd = c /\ srv'.queued_fds = q \o new
      BY <1>1, <1>20, <1>5, <2>3 DEF Servers
    <3>2. \A x \in In(q), y \in In(new) : x < y
      BY <2>1 DEF Held
    <3>3. Increasing(q)
      BY <1>1 DEF Arrival
    <3>4. q \o new \in Seq(Nat) /\ Increasing(q \o new) /\ In(q \o new) = In(q) \cup In(new)
      BY <1>1, <1>6, <1>7, <3>2, <3>3, IncreasingConcat
    <3>5. ({c} \ {0}) \cup In(q \o new) = Held(srv) \cup In(new)
      BY <3>4, Zenon DEF Held
    <3>6. CASE c = 0
      <4>1. k = 0
        BY <1>3, <2>3, <3>6
      <4>2. new = <<>> /\ q = <<>>
        BY <1>1, <1>6, <3>6, <4>1 DEF Arrival
      <4>3. q \o new = <<>> /\ In(<<>>) = {}
        BY <4>2, EmptyList
      <4> QED BY <1>1, <3>1, <3>4, <3>5, <3>6, <4>3
    <3>7. CASE c # 0
      BY <3>7, <1>1, <2>1, <3>4, <3>1, <3>5 DEF Held, Arrival
    <3> QED BY <3>6, <3>7
  <2> QED BY <2>2, <2>3
<1>9. Held(srv') = Held(srv) \cup In(new)
  BY <1>8 DEF Held
<1>10. arrived' = arrived + n /\ closed_fds' = closed_fds \cup (arrived + k + 1)..(arrived + n)
  BY <1>20
<1>11. /\ srv'.flags = srv.flags /\ srv'.pevents = srv.pevents /\ srv'.fd = srv.fd
       /\ srv'.ipc = srv.ipc /\ srv'.emfile_fd = srv.emfile_fd /\ srv'.refused = srv.refused
       /\ srv' \in Servers
  BY <1>20, <1>1, <1>8 DEF Servers
<1>12. srv' \in Servers
  BY <1>11
<1> HIDE DEF q, c
<1>13. FdTurns'
  BY <1>1, <1>4, <1>11 DEF FdTurns
<1>14. ServerTypes'
  BY <1>1, <1>3, <1>10, <1>4, <1>12 DEF ServerTypes, ServerPlaces
<1>15. Arrival(srv', accepted')
  BY <1>1, <1>7, <1>4, <1>8, <1>9 DEF Kept1, Arrival
<1>16. Kept1(In(accepted), closed_fds', Held(srv'), arrived')
  <2>1. /\ 1..(arrived + n) = (1..arrived) \cup (arrived + 1)..(arrived + k)
                              \cup (arrived + k + 1)..(arrived + n)
        /\ (1..arrived) \cap (arrived + 1)..(arrived + k) = {}
        /\ (1..arrived) \cap (arrived + k + 1)..(arrived + n) = {}
        /\ (arrived + 1)..(arrived + k) \cap (arrived + k + 1)..(arrived + n) = {}
    BY <1>1, <1>3
  <2>2. Kept1(In(accepted), closed_fds, Held(srv), arrived)
    BY <1>1
  <2> QED BY <1>7, <1>9, <1>10, <2>1, <2>2, Zenon DEF Kept1
<1> QED BY <1>4, <1>13, <1>14, <1>15, <1>16 DEF ServerInv

-----------------------------------------------------------------------------
\* The invariant holds in every behaviour of the server.
LEMMA ServerInvHolds == ServerSpec => []ServerInv
<1>1. ServerInv /\ [ServerNext]_srv_vars => ServerInv'
  <2> SUFFICES ASSUME ServerInv, [ServerNext]_srv_vars PROVE ServerInv'
    OBVIOUS
  <2>1. CASE UNCHANGED srv_vars
    BY <2>1, FdsStay DEF srv_vars, ServerInv, FdTurns, ServerTypes
  <2> QED BY <2>1, TurnKeeps, AcceptKeeps, StreamCloseKeeps, AcceptNextKeeps,
             AcceptFailsKeeps, IpcReceiveKeeps DEF ServerNext
<1> QED BY ServerInitInv, <1>1, PTL DEF ServerSpec

\* No descriptor leaks or is handed out twice, none overwrites another, and a
\* server that does not poll has one that its user may claim (ServerSound).
THEOREM ServerSafe == ServerSpec => []ServerSound
<1>1. ServerInv => ServerSound
  <2> SUFFICES ASSUME ServerInv PROVE ServerSound
    OBVIOUS
  <2>1. FdsConserved
    BY DEF ServerInv, ServerTypes, Arrival, Increasing, FdsConserved, Kept1, FdTurns, SrvIs
  <2> QED BY <2>1 DEF ServerSound, ServerInv, FdTurns, SrvIs
<1> QED BY <1>1, ServerInvHolds, PTL

-----------------------------------------------------------------------------
(* The requests of a stream                                                *)

-----------------------------------------------------------------------------
StreamFlags ==
  {"READABLE", "WRITABLE", "CLOSING", "READING", "READ_EOF", "SHUT", "SHUTTING",
   "CLOSED", "READ_PARTIAL"}
Errors == {"ok", "failed", "canceled"}
Streams ==
  [fd : {0, 1}, flags : SUBSET StreamFlags, pevents : SUBSET {"in", "out"}, fed : {0, 1},
   connect_req : {0, 1}, delayed_error : {0, 1}, shutdown_req : {0, 1},
   write_queue : Seq(Reqs), write_completed_queue : Seq(Reqs), write_queue_size : Int,
   left : [Reqs -> Nat], error : [Reqs -> Errors], bufs : [Reqs -> {0, 1}],
   active_reqs : Int]
StreamPlaces ==
  {"run", "connect", "connect_cb", "read", "read_cb", "hup", "eof_cb", "write",
   "callbacks", "write_cb", "shutdown_cb", "closed"}

StreamTypes ==
  /\ s \in Streams /\ pc \in StreamPlaces
  /\ revents \in SUBSET {"in", "out", "err", "hup"} /\ count \in Int
  /\ pq \in Seq(Reqs) /\ after \in {"none", "drain", "return", "destroy"}
  /\ submitted \in Seq(Reqs) /\ called \in Seq(Reqs) /\ listening \in {0, 1}

\* The requests of stream t that wait for their callbacks, those of p being told,
\* and what each of a list holds
Flight(t, p) == p \o t.write_completed_queue \o t.write_queue
Holds(t, f) == [i \in 1..Len(f) |-> IF t.bufs[f[i]] = 1 THEN t.left[f[i]] ELSE 0]

\* A request that was not submitted is new, one that is queued has not failed,
\* and a success left no byte behind.
FateOf(t, w, sub) ==
  /\ w \notin In(sub) => t.left[w] = Size[w] /\ t.error[w] = "ok"
  /\ w \in In(t.write_queue) => t.error[w] = "ok" /\ t.bufs[w] = 1
  /\ w \in In(sub) /\ w \notin In(t.write_queue) /\ t.error[w] = "ok" => t.left[w] = 0

\* The requests sub were submitted in their order, cal are called back, the
\* others are in flight in that order, and their bytes are counted.
Accounts(t, p, sub, cal) ==
  /\ sub = cal \o Flight(t, p)
  /\ \A i \in DOMAIN sub : sub[i] = i
  /\ t.write_queue_size = Total(Holds(t, Flight(t, p)))
  /\ \A w \in Reqs : FateOf(t, w, sub)

\* The parts of a stream that uv__write() and the flush leave alone
SameOthers(x, t) ==
  /\ x.fd = t.fd /\ x.flags = t.flags /\ x.connect_req = t.connect_req
  /\ x.delayed_error = t.delayed_error /\ x.shutdown_req = t.shutdown_req
  /\ x.active_reqs = t.active_reqs

-----------------------------------------------------------------------------
\* The loop counts the requests in flight, a connect and a shutdown.
ReqsCounted == s.active_reqs = s.connect_req + s.shutdown_req + Len(Flight(s, pq))

\* A closed stream has no socket, and nothing comes in or goes out.
Closing ==
  Is("CLOSING") =>
    /\ s.fd = 0 /\ s.pevents = {} /\ s.fed = 0 /\ pc \notin {"connect", "write"}
    /\ {"READING", "READABLE", "WRITABLE"} \cap s.flags = {}

\* An open one has its socket wherever the loop needs it, and before it has
\* one nothing was written or is asked for.
Opened ==
  ~Is("CLOSING") =>
    /\ s.fd = 0 => /\ submitted = <<>> /\ s.pevents = {}
                   /\ {"READING", "READABLE", "WRITABLE"} \cap s.flags = {}
                   /\ s.fed = 1 => s.connect_req = 1 /\ pc # "connect"
    /\ pc \in {"read", "read_cb", "hup", "eof_cb", "write", "callbacks", "write_cb",
               "shutdown_cb"} => s.fd = 1
    /\ pc \in {"read", "read_cb", "hup", "eof_cb", "write"} \/ after = "drain" => s.connect_req = 0

\* A connect gets its answer: POLLOUT was asked for, or the error is queued.
Connecting ==
  /\ pc = "connect" => s.connect_req = 1
  /\ ~Is("CLOSING") /\ s.connect_req = 1 =>
       /\ s.write_completed_queue = <<>>
       /\ \/ "out" \in s.pevents
          \/ /\ s.delayed_error = 1 /\ submitted = <<>> /\ ~Is("WRITABLE")
             /\ s.fed = 1 \/ pc = "connect"

\* A write is seen to by the poll, by the list of pending watchers, by the
\* write that runs or by the flush that follows a failed connect.
SeenTo ==
  ~Is("CLOSING") =>
    /\ s.write_queue # <<>> =>
         "out" \in s.pevents \/ s.fed = 1 \/ pc = "write" \/ (pc = "connect_cb" /\ res # "ok")
    /\ s.write_completed_queue # <<>> => s.fed = 1 \/ pc = "write"

\* Who reads is polled, and has not been told of an end.
Reading ==
  Is("READING") => "in" \in s.pevents /\ (listening = 1 \/ (pc = "read_cb" /\ res = "failed"))

\* The shutdown request is there while its flag is.
Shutting == pc # "closed" => (s.shutdown_req = 1 <=> Is("SHUTTING"))

\* The callbacks of the list are made, the last ones of a closed stream among them.
Told ==
  /\ pq # <<>> \/ after # "none" => pc \in {"callbacks", "write_cb"}
  /\ after = "destroy" =>
       /\ Is("CLOSING") /\ s.connect_req = 0
       /\ s.write_queue = <<>> /\ s.write_completed_queue = <<>>
  /\ pc = "closed" => Is("CLOSING") /\ s.active_reqs = 0 /\ submitted = called

Control == Closing /\ Opened /\ Connecting /\ SeenTo /\ Reading /\ Shutting /\ Told

StreamInv ==
  StreamTypes /\ Accounts(s, pq, submitted, called) /\ ReqsCounted /\ Control

-----------------------------------------------------------------------------
\* The lists of a stream are lists of requests, whose bytes have a number.
LEMMA FlightType ==
  ASSUME NEW t \in Streams, NEW p \in Seq(Reqs)
  PROVE  /\ Flight(t, p) \in Seq(Reqs)
         /\ \A f \in Seq(Reqs) :
              /\ Holds(t, f) \in Seq(Int) /\ Len(Holds(t, f)) = Len(f)
              /\ \A i \in 1..Len(f) : Holds(t, f)[i] = IF t.bufs[f[i]] = 1 THEN t.left[f[i]] ELSE 0
<1>1. t.write_completed_queue \in Seq(Reqs) /\ t.write_queue \in Seq(Reqs)
      /\ t.left \in [Reqs -> Nat]
  BY DEF Streams
<1>2. p \o t.write_completed_queue \in Seq(Reqs)
  BY <1>1, ConcatProperties
<1>3. Flight(t, p) \in Seq(Reqs)
  BY <1>1, <1>2, ConcatProperties DEF Flight
<1>4. ASSUME NEW f \in Seq(Reqs)
      PROVE  /\ Holds(t, f) \in Seq(Int) /\ Len(Holds(t, f)) = Len(f)
             /\ \A i \in 1..Len(f) : Holds(t, f)[i] = IF t.bufs[f[i]] = 1 THEN t.left[f[i]] ELSE 0
  BY <1>1 DEF Holds
<1> QED BY <1>3, <1>4

\* List cal is the beginning of list sub.
Begins(cal, sub) == cal = SubSeq(sub, 1, Len(cal))

\* Numbers in their order are different, and in flight too.
LEMMA FlightOnce ==
  ASSUME NEW cal \in Seq(Reqs), NEW f \in Seq(Reqs), NEW sub, sub = cal \o f,
         \A i \in DOMAIN sub : sub[i] = i
  PROVE  /\ \A i \in 1..Len(f) : f[i] = Len(cal) + i
         /\ NoDup(f)
         /\ \A i \in 1..Len(cal) : cal[i] = i
         /\ Len(sub) = Len(cal) + Len(f)
         /\ In(sub) = In(cal) \cup In(f) /\ In(cal) \cap In(f) = {}
         /\ Begins(cal, sub)
<1>1. /\ Len(sub) = Len(cal) + Len(f) /\ sub \in Seq(Reqs)
      /\ DOMAIN sub = 1..(Len(cal) + Len(f)) /\ DOMAIN cal = 1..Len(cal) /\ DOMAIN f = 1..Len(f)
      /\ Len(cal) \in Nat /\ Len(f) \in Nat
      /\ \A i \in 1..Len(cal) : sub[i] = cal[i]
      /\ \A i \in 1..Len(f) : sub[Len(cal) + i] = f[i]
  OBVIOUS
<1>2. \A i \in 1..Len(f) : f[i] = Len(cal) + i
  <2> SUFFICES ASSUME NEW i \in 1..Len(f) PROVE f[i] = Len(cal) + i
    OBVIOUS
  <2>1. Len(cal) + i \in DOMAIN sub
    BY <1>1
  <2> QED BY <1>1, <2>1
<1>3. \A i \in 1..Len(cal) : cal[i] = i
  BY <1>1
<1>4. NoDup(f)
  BY <1>1, <1>2 DEF NoDup
<1>5. In(cal) = 1..Len(cal) /\ In(sub) = 1..Len(sub) /\ In(f) = (Len(cal) + 1)..Len(sub)
  <2>1. In(cal) = 1..Len(cal)
    BY <1>1, <1>3 DEF In
  <2>2. In(sub) = 1..Len(sub)
    BY <1>1 DEF In
  <2>3. \A i \in 1..Len(f) : Len(cal) + i \in (Len(cal) + 1)..Len(sub)
    BY <1>1
  <2>4. \A x \in (Len(cal) + 1)..Len(sub) : x - Len(cal) \in 1..Len(f) /\ Len(cal) + (x - Len(cal)) = x
    BY <1>1
  <2>5. In(f) = (Len(cal) + 1)..Len(sub)
    <3>1. \A x \in In(f) : x \in (Len(cal) + 1)..Len(sub)
      BY <1>1, <1>2, <2>3 DEF In
    <3>2. \A x \in (Len(cal) + 1)..Len(sub) : x \in In(f)
      BY SMTT(30), <1>1, <1>2, <2>4 DEF In
    <3> QED BY <3>1, <3>2
  <2> QED BY <2>1, <2>2, <2>5
<1>6. In(sub) = In(cal) \cup In(f) /\ In(cal) \cap In(f) = {}
  BY <1>1, <1>5
<1>7. cal = SubSeq(sub, 1, Len(cal))
  BY <1>1, SeqEqual
<1> QED BY <1>1, <1>2, <1>3, <1>4, <1>6, <1>7 DEF Begins

\* The members of the three lists
LEMMA FlightMembers ==
  ASSUME NEW t \in Streams, NEW p \in Seq(Reqs)
  PROVE  In(Flight(t, p)) = In(p) \cup In(t.write_completed_queue) \cup In(t.write_queue)
<1>1. ASSUME NEW a \in Seq(Reqs), NEW b \in Seq(Reqs) PROVE In(a \o b) = In(a) \cup In(b)
  <2> DEFINE r == a \o b
  <2>1. /\ r \in Seq(Reqs) /\ DOMAIN r = 1..(Len(a) + Len(b))
        /\ DOMAIN a = 1..Len(a) /\ DOMAIN b = 1..Len(b) /\ Len(a) \in Nat /\ Len(b) \in Nat
        /\ \A i \in 1..Len(a) : r[i] = a[i]
        /\ \A i \in 1..Len(b) : r[Len(a) + i] = b[i]
    OBVIOUS
  <2>2. \A i \in DOMAIN r :
          i \in DOMAIN a \/ (i - Len(a) \in DOMAIN b /\ Len(a) + (i - Len(a)) = i)
    BY <2>1
  <2>3. (\A i \in DOMAIN a : i \in DOMAIN r) /\ \A i \in DOMAIN b : Len(a) + i \in DOMAIN r
    BY <2>1
  <2> HIDE DEF r
  <2>4. \A i \in DOMAIN r : (\E j \in DOMAIN a : r[i] = a[j]) \/ (\E j \in DOMAIN b : r[i] = b[j])
    BY <2>1, <2>2
  <2>5. \A j \in DOMAIN a : \E i \in DOMAIN r : r[i] = a[j]
    BY <2>1, <2>3
  <2>6. \A j \in DOMAIN b : \E i \in DOMAIN r : r[i] = b[j]
    BY <2>1, <2>3
  <2>7. \A x \in In(r) : x \in In(a) \/ x \in In(b)
    BY <2>4 DEF In
  <2>8. (\A x \in In(a) : x \in In(r)) /\ \A x \in In(b) : x \in In(r)
    BY <2>5, <2>6 DEF In
  <2> QED BY <2>7, <2>8 DEF r
<1>2. t.write_completed_queue \in Seq(Reqs) /\ t.write_queue \in Seq(Reqs)
  BY DEF Streams
<1>3. p \o t.write_completed_queue \in Seq(Reqs)
  BY <1>2, ConcatProperties
<1> QED BY <1>1, <1>2, <1>3 DEF Flight

-----------------------------------------------------------------------------
\* The requests in flight follow those called back, each once.
LEMMA AccountsFacts ==
  ASSUME NEW t \in Streams, NEW p \in Seq(Reqs), NEW cal \in Seq(Reqs), NEW sub,
         Accounts(t, p, sub, cal)
  PROVE  /\ Flight(t, p) \in Seq(Reqs) /\ NoDup(Flight(t, p))
         /\ \A i \in 1..Len(Flight(t, p)) : Flight(t, p)[i] = Len(cal) + i
         /\ \A i \in 1..Len(cal) : cal[i] = i
         /\ Len(sub) = Len(cal) + Len(Flight(t, p)) /\ Begins(cal, sub)
         /\ In(sub) = In(cal) \cup In(Flight(t, p)) /\ In(cal) \cap In(Flight(t, p)) = {}
         /\ In(t.write_queue) \subseteq In(Flight(t, p))
         /\ In(t.write_completed_queue) \subseteq In(Flight(t, p))
         /\ In(p) \subseteq In(Flight(t, p))
<1>1. PICK f \in Seq(Reqs) : f = Flight(t, p)
  BY FlightType
<1>2. sub = cal \o f /\ \A i \in DOMAIN sub : sub[i] = i
  BY <1>1 DEF Accounts
<1>3. /\ \A i \in 1..Len(f) : f[i] = Len(cal) + i
      /\ NoDup(f)
      /\ \A i \in 1..Len(cal) : cal[i] = i
      /\ Len(sub) = Len(cal) + Len(f)
      /\ In(sub) = In(cal) \cup In(f) /\ In(cal) \cap In(f) = {}
      /\ Begins(cal, sub)
  BY <1>2, FlightOnce
<1>4. In(f) = In(p) \cup In(t.write_completed_queue) \cup In(t.write_queue)
  BY <1>1, FlightMembers
<1> QED BY <1>1, <1>3, <1>4

\* A stream with the same requests has the same accounts.
LEMMA AccountsStay ==
  ASSUME NEW t, NEW x, NEW p, NEW sub, NEW cal, Accounts(t, p, sub, cal),
         x.write_queue = t.write_queue, x.write_completed_queue = t.write_completed_queue,
         x.write_queue_size = t.write_queue_size, x.left = t.left, x.error = t.error,
         x.bufs = t.bufs
  PROVE  Flight(x, p) = Flight(t, p) /\ Accounts(x, p, sub, cal)
BY DEF Flight, Holds, Accounts, FateOf

\* uv__write_callbacks() takes over the list of completed requests.
LEMMA AccountsTaken ==
  ASSUME NEW t \in Streams, NEW x, NEW sub, NEW cal, Accounts(t, <<>>, sub, cal),
         x = [t EXCEPT !.write_completed_queue = <<>>]
  PROVE  /\ x \in Streams /\ SameOthers(x, t)
         /\ Accounts(x, t.write_completed_queue, sub, cal)
         /\ Flight(x, t.write_completed_queue) = Flight(t, <<>>)
<1>1. <<>> \in Seq(Reqs) /\ t.write_completed_queue \in Seq(Reqs) /\ t.write_queue \in Seq(Reqs)
  BY DEF Streams
<1>2. /\ x \in Streams /\ SameOthers(x, t) /\ x.write_completed_queue = <<>>
      /\ x.write_queue = t.write_queue /\ x.write_queue_size = t.write_queue_size
      /\ x.left = t.left /\ x.error = t.error /\ x.bufs = t.bufs
  BY <1>1 DEF Streams, SameOthers
<1>3. Flight(x, t.write_completed_queue) = Flight(t, <<>>)
  BY <1>1, <1>2, ListMoves DEF Flight
<1>4. Holds(x, Flight(t, <<>>)) = Holds(t, Flight(t, <<>>))
  BY <1>2 DEF Holds
<1>5. \A w \in Reqs : FateOf(x, w, sub)
  BY <1>2 DEF Accounts, FateOf
<1> QED BY <1>2, <1>3, <1>4, <1>5 DEF Accounts

\* uv__stream_flush_write_queue() keeps the order and the bytes.
LEMMA FlushedAccounts ==
  ASSUME NEW t \in Streams, NEW p \in Seq(Reqs), NEW cal \in Seq(Reqs), NEW sub,
         Accounts(t, p, sub, cal)
  PROVE  /\ Flushed(t) \in Streams /\ SameOthers(Flushed(t), t)
         /\ Flushed(t).fed = t.fed /\ Flushed(t).pevents = t.pevents
         /\ Flushed(t).write_queue = <<>>
         /\ Accounts(Flushed(t), p, sub, cal)
         /\ Flight(Flushed(t), p) = Flight(t, p)
<1>1. PICK x : x = Flushed(t)
  OBVIOUS
<1>2. <<>> \in Seq(Reqs) /\ t.write_completed_queue \in Seq(Reqs) /\ t.write_queue \in Seq(Reqs)
      /\ t.write_completed_queue \o t.write_queue \in Seq(Reqs)
      /\ t.error \in [Reqs -> Errors]
  BY ConcatProperties DEF Streams
<1>3. /\ x.write_completed_queue = t.write_completed_queue \o t.write_queue
      /\ x.write_queue = <<>> /\ x.write_queue_size = t.write_queue_size
      /\ x.left = t.left /\ x.bufs = t.bufs
      /\ x.error = [w \in Reqs |-> IF w \in In(t.write_queue) THEN "canceled" ELSE t.error[w]]
      /\ SameOthers(x, t) /\ x.fed = t.fed /\ x.pevents = t.pevents
  BY <1>1 DEF Flushed, Streams, SameOthers
<1>4. x \in Streams
  BY <1>2, <1>1 DEF Errors, Flushed, Streams
<1>5. Flight(x, p) = Flight(t, p)
  <2>1. PICK c \in Seq(Reqs), q \in Seq(Reqs) :
          c = t.write_completed_queue /\ q = t.write_queue
    BY <1>2
  <2>2. p \o (c \o q) \o <<>> = p \o c \o q
    BY SMTT(30), AllMove
  <2> QED BY <1>3, <2>1, <2>2 DEF Flight
<1>6. Holds(x, Flight(t, p)) = Holds(t, Flight(t, p))
  BY <1>3 DEF Holds
<1>7. \A w \in Reqs : FateOf(x, w, sub)
  <2> SUFFICES ASSUME NEW w \in Reqs PROVE FateOf(x, w, sub)
    OBVIOUS
  <2>1. FateOf(t, w, sub) /\ In(x.write_queue) = {}
    BY <1>3, EmptyList DEF Accounts
  <2>2. In(t.write_queue) \subseteq In(sub)
    <3>1. In(t.write_queue) \subseteq In(Flight(t, p)) /\ In(Flight(t, p)) \subseteq In(sub)
      BY AccountsFacts
    <3> QED BY <3>1
  <2> QED BY <1>3, <2>1, <2>2 DEF FateOf
<1> QED BY <1>1, <1>3, <1>4, <1>5, <1>6, <1>7 DEF Accounts

-----------------------------------------------------------------------------
\* n bytes of the first request are taken: they leave its part and the count.
LEMMA TookAccounts ==
  ASSUME NEW t \in Streams, NEW p \in Seq(Reqs), NEW cal \in Seq(Reqs), NEW sub,
         Accounts(t, p, sub, cal), t.write_queue # <<>>, NEW w, w = Head(t.write_queue),
         NEW n \in Nat, n <= t.left[w]
  PROVE  /\ Took(t, w, n) \in Streams /\ SameOthers(Took(t, w, n), t)
         /\ Took(t, w, n).fed = t.fed /\ Took(t, w, n).pevents = t.pevents
         /\ Took(t, w, n).write_queue = t.write_queue
         /\ Took(t, w, n).write_completed_queue = t.write_completed_queue
         /\ Took(t, w, n).left[w] = t.left[w] - n
         /\ Flight(Took(t, w, n), p) = Flight(t, p)
         /\ Accounts(Took(t, w, n), p, sub, cal)
<1>1. PICK x : x = Took(t, w, n)
  OBVIOUS
<1>2. /\ t.left \in [Reqs -> Nat] /\ t.write_queue_size \in Int /\ t.write_queue \in Seq(Reqs)
  BY DEF Streams
<1>3. w \in Reqs /\ w \in In(t.write_queue)
  BY <1>2 DEF In
<1>4. t.left[w] \in Nat /\ t.left[w] - n \in Nat
  BY <1>2, <1>3
<1>5. /\ x.write_completed_queue = t.write_completed_queue /\ x.write_queue = t.write_queue
      /\ x.write_queue_size = t.write_queue_size - n /\ x.left = [t.left EXCEPT ![w] = @ - n]
      /\ x.error = t.error /\ x.bufs = t.bufs
      /\ SameOthers(x, t) /\ x.fed = t.fed /\ x.pevents = t.pevents
  BY <1>1 DEF Took, Streams, SameOthers
<1>6. x \in Streams
  <2>1. [t.left EXCEPT ![w] = @ - n] \in [Reqs -> Nat] /\ t.write_queue_size - n \in Int
    BY <1>2, <1>3, <1>4
  <2> QED BY <1>1, <2>1 DEF Took, Streams
<1>7. Flight(x, p) = Flight(t, p)
  BY <1>5 DEF Flight
<1>8. PICK f \in Seq(Reqs) : f = Flight(t, p)
  BY FlightType
<1>9. NoDup(f) /\ w \in In(f)
  BY <1>3, <1>8, AccountsFacts
<1>10. PICK k \in 1..Len(f) : f[k] = w
  <2>1. PICK k \in DOMAIN f : f[k] = w
    BY <1>9 DEF In
  <2>2. k \in 1..Len(f)
    BY <2>1
  <2> QED BY <2>1, <2>2
<1>11. Total(Holds(x, f)) = Total(Holds(t, f)) + (0 - n)
  <2>1. PICK h \in Seq(Int), g \in Seq(Int) : h = Holds(t, f) /\ g = Holds(x, f)
    BY <1>6, FlightType
  <2>2. /\ Len(h) = Len(f) /\ Len(g) = Len(f)
        /\ \A i \in 1..Len(f) : h[i] = IF t.bufs[f[i]] = 1 THEN t.left[f[i]] ELSE 0
        /\ \A i \in 1..Len(f) : g[i] = IF x.bufs[f[i]] = 1 THEN x.left[f[i]] ELSE 0
    BY <1>6, <2>1, FlightType
  <2>3. t.bufs[w] = 1
    BY <1>3 DEF Accounts, FateOf
  <2>4. g[k] = h[k] + (0 - n)
    <3>1. x.left[w] = t.left[w] - n /\ x.bufs[w] = 1
      BY <1>2, <1>3, <1>5, <2>3
    <3>2. h[k] = t.left[w] /\ g[k] = x.left[w]
      BY <1>10, <2>2, <2>3, <3>1
    <3> QED BY <1>4, <3>1, <3>2
  <2>5. \A i \in 1..Len(h) : i # k => g[i] = h[i]
    <3> SUFFICES ASSUME NEW i \in 1..Len(f), i # k PROVE g[i] = h[i]
      BY <2>2
    <3>1. f[i] \in Reqs /\ f[i] # w
      BY <1>9, <1>10 DEF NoDup
    <3>2. x.left[f[i]] = t.left[f[i]] /\ x.bufs[f[i]] = t.bufs[f[i]]
      BY <1>2, <1>5, <3>1
    <3> QED BY <2>2, <3>2
  <2>6. k \in 1..Len(h) /\ 0 - n \in Int /\ Len(g) = Len(h)
    BY <2>2
  <2>7. Total(g) = Total(h) + (0 - n)
    BY <2>4, <2>5, <2>6, TotalChange
  <2> QED BY <2>1, <2>7
<1>12. Total(Holds(t, f)) \in Int /\ t.write_queue_size = Total(Holds(t, f))
  BY <1>2, <1>8 DEF Accounts
<1>13. \A v \in Reqs : FateOf(x, v, sub)
  <2> SUFFICES ASSUME NEW v \in Reqs PROVE FateOf(x, v, sub)
    OBVIOUS
  <2>1. FateOf(t, v, sub)
    BY DEF Accounts
  <2>2. w \in In(sub)
    BY <1>8, <1>9, AccountsFacts
  <2>3. v # w => x.left[v] = t.left[v]
    BY <1>2, <1>5
  <2> QED BY <1>3, <1>5, <2>1, <2>2, <2>3 DEF FateOf
<1>14. x.write_queue_size = Total(Holds(x, f))
  BY <1>5, <1>11, <1>12
<1>15. x.left[w] = t.left[w] - n
  BY <1>2, <1>3, <1>5
<1>16. Accounts(x, p, sub, cal)
  BY <1>7, <1>8, <1>13, <1>14 DEF Accounts
<1> QED BY <1>1, <1>5, <1>6, <1>7, <1>15, <1>16

\* uv__write_req_finish() moves the first request, which failed or has no bytes left.
LEMMA FinishAccounts ==
  ASSUME NEW t \in Streams, NEW p \in Seq(Reqs), NEW cal \in Seq(Reqs), NEW sub,
         Accounts(t, p, sub, cal), t.write_queue # <<>>, NEW w, w = Head(t.write_queue),
         NEW e \in {"ok", "failed"}, e = "ok" => t.left[w] = 0,
         NEW g, g = [t.error EXCEPT ![w] = e], NEW y, y = [t EXCEPT !.error = g]
  PROVE  /\ Finish(y, w) \in Streams /\ SameOthers(Finish(y, w), t)
         /\ Finish(y, w).fed = 1 /\ Finish(y, w).pevents = t.pevents
         /\ Flight(Finish(y, w), p) = Flight(t, p)
         /\ Accounts(Finish(y, w), p, sub, cal)
<1>1. PICK x : x = Finish(y, w)
  OBVIOUS
<1>2. /\ t.left \in [Reqs -> Nat] /\ t.error \in [Reqs -> Errors] /\ t.bufs \in [Reqs -> {0, 1}]
      /\ t.write_queue \in Seq(Reqs) /\ t.write_completed_queue \in Seq(Reqs)
  BY DEF Streams
<1>3. w \in Reqs /\ w \in In(t.write_queue) /\ Tail(t.write_queue) \in Seq(Reqs)
      /\ Append(t.write_completed_queue, w) \in Seq(Reqs)
  BY <1>2 DEF In
<1>4. [t.error EXCEPT ![w] = e] \in [Reqs -> Errors] /\ [t.error EXCEPT ![w] = e][w] = e
      /\ \A v \in Reqs : v # w => [t.error EXCEPT ![w] = e][v] = t.error[v]
  BY <1>2, <1>3 DEF Errors
<1>5. PICK b \in {0, 1} : b = (IF e = "ok" THEN 0 ELSE 1) /\ y.error[w] = e
  BY <1>4 DEF Streams
<1>6. /\ x.write_completed_queue = Append(t.write_completed_queue, w)
      /\ x.write_queue = Tail(t.write_queue)
      /\ x.write_queue_size = t.write_queue_size /\ x.left = t.left
      /\ x.error = [t.error EXCEPT ![w] = e] /\ x.bufs = [t.bufs EXCEPT ![w] = b]
      /\ SameOthers(x, t) /\ x.fed = 1 /\ x.pevents = t.pevents
  BY <1>1, <1>5 DEF Finish, Streams, SameOthers
<1>7. x \in Streams
  <2>1. [t.bufs EXCEPT ![w] = b] \in [Reqs -> {0, 1}]
    BY <1>2, <1>3
  <2>2. x = [t EXCEPT !.error = [t.error EXCEPT ![w] = e], !.write_queue = Tail(t.write_queue),
                      !.write_completed_queue = Append(t.write_completed_queue, w),
                      !.bufs = [t.bufs EXCEPT ![w] = b], !.fed = 1]
    BY <1>1, <1>5 DEF Finish, Streams
  <2> QED BY <1>3, <1>4, <2>1, <2>2 DEF Streams
<1>8. Flight(x, p) = Flight(t, p)
  <2>1. PICK c \in Seq(Reqs), q \in Seq(Reqs) :
          c = t.write_completed_queue /\ q = t.write_queue
    BY <1>2
  <2>2. KeepsOrder(p, c, q)
    BY <2>1, HeadMoves
  <2>3. w = Head(q)
    BY <2>1
  <2> QED BY <1>6, <2>1, <2>2, <2>3 DEF Flight, KeepsOrder
<1>9. PICK f \in Seq(Reqs) : f = Flight(t, p)
  BY FlightType
<1>10. t.bufs[w] = 1
  BY <1>3 DEF Accounts, FateOf
<1>11. Holds(x, f) = Holds(t, f)
  <2>1. \A i \in 1..Len(f) : (IF x.bufs[f[i]] = 1 THEN x.left[f[i]] ELSE 0)
                             = (IF t.bufs[f[i]] = 1 THEN t.left[f[i]] ELSE 0)
    <3> SUFFICES ASSUME NEW i \in 1..Len(f)
                 PROVE  (IF x.bufs[f[i]] = 1 THEN x.left[f[i]] ELSE 0)
                        = (IF t.bufs[f[i]] = 1 THEN t.left[f[i]] ELSE 0)
      OBVIOUS
    <3>1. f[i] \in Reqs
      OBVIOUS
    <3>2. CASE f[i] # w
      BY <1>2, <1>6, <3>1, <3>2
    <3>3. CASE f[i] = w
      BY <1>2, <1>3, <1>6, <1>5, <1>10, <3>3
    <3> QED BY <3>2, <3>3
  <2> QED BY <2>1 DEF Holds
<1>12. In(Tail(t.write_queue)) \subseteq In(t.write_queue) /\ w \notin In(Tail(t.write_queue))
  <2>1. Flight(t, p) \in Seq(Reqs) /\ NoDup(Flight(t, p))
    BY AccountsFacts
  <2>2. NoDup(t.write_queue)
    <3>1. PICK r \in Seq(Reqs), q \in Seq(Reqs) :
            r = p \o t.write_completed_queue /\ q = t.write_queue
      BY <1>2, ConcatProperties
    <3>2. Flight(t, p) = r \o q
      BY <3>1 DEF Flight
    <3>3. NoDup(r \o q)
      BY <2>1, <3>2
    <3>4. \A i \in DOMAIN q : Len(r) + i \in DOMAIN (r \o q) /\ (r \o q)[Len(r) + i] = q[i]
      OBVIOUS
    <3>5. \A i, j \in DOMAIN q : q[i] = q[j] => Len(r) + i = Len(r) + j
      BY <3>3, <3>4 DEF NoDup
    <3>6. Len(r) \in Nat /\ DOMAIN q \subseteq Nat
      OBVIOUS
    <3>7. NoDup(q)
      BY <3>5, <3>6 DEF NoDup
    <3> QED BY <3>1, <3>7
  <2>3. In(Tail(t.write_queue)) = In(t.write_queue) \ {Head(t.write_queue)}
    BY <1>2, <2>2, TakeHead
  <2> QED BY <2>3
<1>13. \A v \in Reqs : FateOf(x, v, sub)
  <2> SUFFICES ASSUME NEW v \in Reqs PROVE FateOf(x, v, sub)
    OBVIOUS
  <2>1. FateOf(t, v, sub)
    BY DEF Accounts
  <2>2. w \in In(sub)
    <3>1. In(t.write_queue) \subseteq In(Flight(t, p)) /\ In(Flight(t, p)) \subseteq In(sub)
      BY AccountsFacts
    <3> QED BY <1>3, <3>1
  <2>3. v # w => x.error[v] = t.error[v] /\ x.bufs[v] = t.bufs[v]
    BY <1>2, <1>4, <1>6
  <2>4. In(x.write_queue) = In(t.write_queue) \ {w}
    <3>1. In(t.write_queue) = In(Tail(t.write_queue)) \cup {w}
      <4>1. PICK q \in Seq(Reqs) : q = t.write_queue
        BY <1>2
      <4>2. ASSUME NEW i \in DOMAIN q, i # 1
            PROVE  i - 1 \in DOMAIN Tail(q) /\ Tail(q)[i - 1] = q[i]
        <5>1. q # <<>> /\ i \in 2..Len(q)
          BY <4>2
        <5>2. Tail(q) \in Seq(Reqs) /\ Len(Tail(q)) = Len(q) - 1
          BY <5>1
        <5>3. Tail(q)[i - 1] = q[i - 1 + 1]
          BY <5>1, <5>2
        <5> QED BY <5>1, <5>2, <5>3
      <4>3. q[1] = w
        BY <4>1
      <4>4. \A z \in In(q) : z = w \/ z \in In(Tail(q))
        <5> SUFFICES ASSUME NEW i \in DOMAIN q
                     PROVE  q[i] = w \/ q[i] \in In(Tail(q))
          BY DEF In
        <5>1. CASE i = 1
          BY <4>3, <5>1
        <5>2. CASE i # 1
          BY <4>2, <5>2 DEF In
        <5> QED BY <5>1, <5>2
      <4> QED BY <1>3, <1>12, <4>1, <4>4
    <3> QED BY <1>6, <1>12, <3>1
  <2>5. CASE v = w
    BY <1>4, <1>6, <2>1, <2>2, <2>4, <2>5 DEF FateOf
  <2>6. CASE v # w
    BY <1>6, <2>1, <2>3, <2>4, <2>6 DEF FateOf
  <2> QED BY <2>5, <2>6
<1>14. Accounts(x, p, sub, cal)
  BY <1>6, <1>8, <1>9, <1>11, <1>13 DEF Accounts
<1> QED BY <1>1, <1>6, <1>7, <1>8, <1>14

\* A request whose bytes are all taken is finished without an error.
LEMMA TakenAccounts ==
  ASSUME NEW t \in Streams, NEW p \in Seq(Reqs), NEW cal \in Seq(Reqs), NEW sub,
         Accounts(t, p, sub, cal), t.write_queue # <<>>, NEW w, w = Head(t.write_queue),
         t.left[w] = 0, t.error[w] = "ok"
  PROVE  /\ Finish(t, w) \in Streams /\ SameOthers(Finish(t, w), t)
         /\ Finish(t, w).fed = 1 /\ Finish(t, w).pevents = t.pevents
         /\ Flight(Finish(t, w), p) = Flight(t, p)
         /\ Accounts(Finish(t, w), p, sub, cal)
<1>1. PICK e \in {"ok", "failed"} : e = "ok"
  OBVIOUS
<1>2. PICK g, y : g = [t.error EXCEPT ![w] = e] /\ y = [t EXCEPT !.error = g]
  OBVIOUS
<1>3. PICK z : z = Finish(y, w)
  OBVIOUS
<1>4. e = "ok" => t.left[w] = 0
  OBVIOUS
<1>5. /\ z \in Streams /\ SameOthers(z, t) /\ z.fed = 1 /\ z.pevents = t.pevents
      /\ Flight(z, p) = Flight(t, p) /\ Accounts(z, p, sub, cal)
  BY <1>2, <1>3, <1>4, FinishAccounts
<1>6. y = t
  BY <1>1, <1>2 DEF Streams
<1> QED BY <1>3, <1>5, <1>6

-----------------------------------------------------------------------------
\* x is t with its first requests further on.
Serves(x, t, p, sub, cal) ==
  /\ x \in Streams /\ SameOthers(x, t)
  /\ Flight(x, p) = Flight(t, p) /\ Accounts(x, p, sub, cal)

\* What is queued or complete in x will be seen to.
Attended(x, t) ==
  /\ x.write_queue # <<>> => "out" \in x.pevents \/ x.fed = 1
  /\ x.write_completed_queue # <<>> =>
       x.fed = 1 \/ x.write_completed_queue = t.write_completed_queue
  /\ "in" \in t.pevents => "in" \in x.pevents
  /\ t.fed = 1 => x.fed = 1

\* Only the events that are asked for change.
LEMMA ServesPolled ==
  ASSUME NEW y, NEW t, NEW p, NEW sub, NEW cal, Serves(y, t, p, sub, cal),
         NEW ev \in SUBSET {"in", "out"}
  PROVE  Serves([y EXCEPT !.pevents = ev], t, p, sub, cal)
BY AccountsStay DEF Serves, Streams, SameOthers

\* uv__write() of a queue with requests
LEMMA WriteServes ==
  ASSUME NEW t \in Streams, NEW p \in Seq(Reqs), NEW cal \in Seq(Reqs), NEW sub,
         Accounts(t, p, sub, cal), NEW x \in uv__write(t)
  PROVE  Serves(x, t, p, sub, cal) /\ Attended(x, t)
<1>1. CASE t.write_queue = <<>>
  BY <1>1 DEF uv__write, SameOthers, Serves, Attended
<1>2. CASE t.write_queue # <<>>
  <2>1. PICK w : w = Head(t.write_queue)
    OBVIOUS
  <2>2. \/ \E y \in {t} \cup {Took(t, w, n) : n \in 1..(t.left[w] - 1)} :
             x = [y EXCEPT !.pevents = @ \cup {"out"}]
        \/ x = Finish(Took(t, w, t.left[w]), w)
        \/ x = [Finish([t EXCEPT !.error[w] = "failed"], w) EXCEPT !.pevents = @ \ {"out"}]
    BY SMTT(30), <1>2, <2>1 DEF uv__write
  <2>3. w \in Reqs /\ w \in In(t.write_queue) /\ t.left[w] \in Nat
        /\ t.left \in [Reqs -> Nat] /\ t.error \in [Reqs -> Errors] /\ t.pevents \in SUBSET {"in", "out"}
    BY <1>2, <2>1 DEF Streams, In
  <2>4. t.error[w] = "ok"
    BY <2>3 DEF Accounts, FateOf
  <2>5. ASSUME NEW n \in Nat, n <= t.left[w]
        PROVE  /\ Serves(Took(t, w, n), t, p, sub, cal)
               /\ Took(t, w, n).fed = t.fed /\ Took(t, w, n).pevents = t.pevents
               /\ Took(t, w, n).write_queue = t.write_queue
               /\ Took(t, w, n).write_completed_queue = t.write_completed_queue
               /\ Took(t, w, n).left[w] = t.left[w] - n
               /\ Took(t, w, n).error = t.error
    <3>1. Took(t, w, n).error = t.error
      BY DEF Took, Streams
    <3> QED BY <1>2, <2>1, <2>3, <2>5, <3>1, TookAccounts DEF Serves
  <2>6. CASE \E y \in {t} \cup {Took(t, w, n) : n \in 1..(t.left[w] - 1)} :
               x = [y EXCEPT !.pevents = @ \cup {"out"}]
    <3>1. PICK y \in {t} \cup {Took(t, w, n) : n \in 1..(t.left[w] - 1)} :
             x = [y EXCEPT !.pevents = @ \cup {"out"}]
      BY <2>6
    <3>2. /\ Serves(y, t, p, sub, cal) /\ y.fed = t.fed /\ y.pevents = t.pevents
          /\ y.write_completed_queue = t.write_completed_queue
      <4>1. CASE y = t
        BY <4>1 DEF SameOthers, Serves
      <4>2. CASE y \in {Took(t, w, n) : n \in 1..(t.left[w] - 1)}
        BY <4>2, <2>3, <2>5
      <4> QED BY <3>1, <4>1, <4>2
    <3>3. PICK ev \in SUBSET {"in", "out"} : ev = t.pevents \cup {"out"}
      BY <2>3
    <3>4. x = [y EXCEPT !.pevents = ev]
      BY <3>1, <3>2, <3>3
    <3>5. Serves(x, t, p, sub, cal)
      BY <3>2, <3>4, ServesPolled
    <3>6. /\ x.pevents = ev /\ x.fed = t.fed
          /\ x.write_completed_queue = t.write_completed_queue
      BY <3>2, <3>4 DEF Serves, Streams
    <3> QED BY <3>3, <3>5, <3>6 DEF Attended
  <2>7. CASE x = Finish(Took(t, w, t.left[w]), w)
    <3>1. PICK y : y = Took(t, w, t.left[w])
      OBVIOUS
    <3>2. /\ Serves(y, t, p, sub, cal) /\ y.fed = t.fed /\ y.pevents = t.pevents
          /\ y.write_queue = t.write_queue /\ y.left[w] = 0 /\ y.error = t.error
      BY <2>3, <2>5, <3>1
    <3>3. y \in Streams /\ Accounts(y, p, sub, cal) /\ SameOthers(y, t)
          /\ Flight(y, p) = Flight(t, p)
      BY <3>2 DEF Serves
    <3>4. y = [y EXCEPT !.error = [y.error EXCEPT ![w] = "ok"]]
      BY <2>3, <2>4, <3>2, <3>3 DEF Streams
    <3>5. y.write_queue # <<>> /\ w = Head(y.write_queue)
      BY <1>2, <2>1, <3>2
    <3>6. /\ x \in Streams /\ SameOthers(x, y) /\ x.fed = 1 /\ x.pevents = y.pevents
          /\ Flight(x, p) = Flight(y, p) /\ Accounts(x, p, sub, cal)
      <4>1. x = Finish(y, w)
        BY <2>7, <3>1
      <4>2. y.left[w] = 0 /\ y.error[w] = "ok"
        BY <2>3, <2>4, <3>2
      <4> QED BY <3>3, <3>5, <4>1, <4>2, TakenAccounts
    <3>7. SameOthers(x, t)
      BY <3>3, <3>6 DEF SameOthers
    <3> QED BY <3>2, <3>3, <3>6, <3>7 DEF Serves, Attended
  <2>8. CASE x = [Finish([t EXCEPT !.error[w] = "failed"], w) EXCEPT !.pevents = @ \ {"out"}]
    <3>1. PICK g, y : g = [t.error EXCEPT ![w] = "failed"] /\ y = [t EXCEPT !.error = g]
      OBVIOUS
    <3>2. PICK z : z = Finish(y, w)
      OBVIOUS
    <3>3. /\ z \in Streams /\ SameOthers(z, t) /\ z.fed = 1 /\ z.pevents = t.pevents
          /\ Flight(z, p) = Flight(t, p) /\ Accounts(z, p, sub, cal)
      BY <1>2, <2>1, <3>1, <3>2, FinishAccounts
    <3>4. PICK ev \in SUBSET {"in", "out"} : ev = t.pevents \ {"out"}
      BY <2>3
    <3>5. x = [z EXCEPT !.pevents = ev]
      BY <2>8, <3>1, <3>2, <3>3, <3>4
    <3>6. Serves(x, t, p, sub, cal)
      <4>1. Serves(z, t, p, sub, cal)
        BY <3>3 DEF Serves
      <4> QED BY <3>5, <4>1, ServesPolled
    <3>7. x.fed = 1 /\ x.pevents = ev
      BY <3>3, <3>5 DEF Streams
    <3> QED BY <3>4, <3>6, <3>7 DEF Attended
  <2> QED BY <2>2, <2>6, <2>7, <2>8
<1> QED BY <1>1, <1>2

-----------------------------------------------------------------------------
\* The record that uv_write2() makes: the request at the end of the queue.
Submits(t, w) ==
  [t EXCEPT !.write_queue_size = @ + Size[w], !.write_queue = Append(@, w),
            !.active_reqs = @ + 1, !.bufs[w] = 1]

\* The new request is the last in flight, with all of its bytes.
LEMMA SubmitAccounts ==
  ASSUME NEW t \in Streams, NEW p \in Seq(Reqs), NEW cal \in Seq(Reqs), NEW sub \in Seq(Reqs),
         Accounts(t, p, sub, cal), NEW w \in Reqs, w = Len(sub) + 1
  PROVE  /\ Submits(t, w) \in Streams
         /\ Accounts(Submits(t, w), p, Append(sub, w), cal)
         /\ Len(Flight(Submits(t, w), p)) = Len(Flight(t, p)) + 1
<1>1. PICK x : x = Submits(t, w)
  OBVIOUS
<1>2. /\ t.write_queue_size \in Int /\ t.write_queue \in Seq(Reqs) /\ t.active_reqs \in Int
      /\ t.write_completed_queue \in Seq(Reqs)
      /\ t.left \in [Reqs -> Nat] /\ t.bufs \in [Reqs -> {0, 1}]
  BY DEF Streams
<1>3. Size[w] \in Nat
  BY StreamAssumption DEF Reqs
<1>4. /\ x.write_completed_queue = t.write_completed_queue
      /\ x.write_queue = Append(t.write_queue, w)
      /\ x.write_queue_size = t.write_queue_size + Size[w]
      /\ x.left = t.left /\ x.error = t.error /\ x.bufs = [t.bufs EXCEPT ![w] = 1]
  BY <1>1 DEF Submits, Streams
<1>5. x \in Streams
  <2>1. t.write_queue_size + Size[w] \in Int /\ t.active_reqs + 1 \in Int
        /\ Append(t.write_queue, w) \in Seq(Reqs) /\ [t.bufs EXCEPT ![w] = 1] \in [Reqs -> {0, 1}]
    BY <1>2, <1>3
  <2> QED BY <1>1, <2>1 DEF Submits, Streams
<1>6. PICK f \in Seq(Reqs) : f = Flight(t, p)
  BY FlightType
<1>7. /\ Len(sub) = Len(cal) + Len(f) /\ In(sub) = In(cal) \cup In(f)
      /\ In(t.write_queue) \subseteq In(f)
  BY <1>6, AccountsFacts
<1>8. sub = cal \o f /\ \A i \in DOMAIN sub : sub[i] = i
  BY <1>6 DEF Accounts
<1>9. w \notin In(sub)
  BY <1>8 DEF In
<1>10. PICK g \in Seq(Reqs) : g = Append(f, w) /\ g = Flight(x, p)
  <2>1. PICK c \in Seq(Reqs), q \in Seq(Reqs) :
          c = t.write_completed_queue /\ q = t.write_queue
    BY <1>2
  <2>2. AtTheEnd(p, c, q, w)
    BY BehindAll
  <2>3. Flight(x, p) = Append(f, w)
    BY <1>4, <1>6, <2>1, <2>2 DEF Flight, AtTheEnd
  <2>4. Append(f, w) \in Seq(Reqs)
    OBVIOUS
  <2> QED BY <2>3, <2>4
<1>11. Append(sub, w) = cal \o g
  BY SMTT(30), <1>8, <1>10
<1>12. \A i \in DOMAIN Append(sub, w) : Append(sub, w)[i] = i
  BY <1>8
<1>13. x.write_queue_size = Total(Holds(x, g))
  <2>1. PICK h \in Seq(Int), k \in Seq(Int) : h = Holds(t, f) /\ k = Holds(x, g)
    BY <1>5, FlightType
  <2>0. Len(g) = Len(f) + 1
    BY <1>10
  <2>2. /\ Len(h) = Len(f) /\ Len(k) = Len(g) /\ Len(g) = Len(f) + 1
        /\ \A i \in 1..Len(f) : h[i] = IF t.bufs[f[i]] = 1 THEN t.left[f[i]] ELSE 0
        /\ \A i \in 1..Len(g) : k[i] = IF x.bufs[g[i]] = 1 THEN x.left[g[i]] ELSE 0
    BY <1>5, <2>0, <2>1, FlightType
  <2>3. \A i \in 1..Len(f) : k[i] = h[i]
    <3> SUFFICES ASSUME NEW i \in 1..Len(f) PROVE k[i] = h[i]
      OBVIOUS
    <3>1. i \in 1..Len(g) /\ g[i] = f[i] /\ f[i] \in Reqs /\ f[i] \in In(f)
      <4>1. i \in DOMAIN f
        OBVIOUS
      <4>2. f[i] \in Reqs /\ f[i] \in In(f)
        BY <4>1 DEF In
      <4>3. i \in 1..Len(g) /\ g[i] = f[i]
        BY <1>10, <2>2
      <4> QED BY <4>2, <4>3
    <3>2. f[i] # w
      BY <1>7, <1>9, <3>1
    <3>3. x.bufs[f[i]] = t.bufs[f[i]] /\ x.left[f[i]] = t.left[f[i]]
      BY <1>2, <1>4, <3>1, <3>2
    <3> QED BY <2>2, <3>1, <3>3
  <2>4. k[Len(k)] = Size[w]
    <3>1. Len(k) = Len(g) /\ Len(k) \in 1..Len(g) /\ g[Len(k)] = w
      BY <1>10, <2>2
    <3>2. x.bufs[w] = 1 /\ x.left[w] = Size[w]
      BY <1>2, <1>4, <1>9 DEF Accounts, FateOf
    <3> QED BY <2>2, <3>1, <3>2
  <2>5. Len(k) = Len(h) + 1 /\ \A i \in 1..Len(h) : k[i] = h[i]
    BY <2>2, <2>3
  <2>6. Total(k) = Total(h) + k[Len(k)]
    BY <2>5, TotalAppend
  <2> QED BY <1>4, <1>6, <2>1, <2>4, <2>6 DEF Accounts
<1>14. \A v \in Reqs : FateOf(x, v, Append(sub, w))
  <2> SUFFICES ASSUME NEW v \in Reqs PROVE FateOf(x, v, Append(sub, w))
    OBVIOUS
  <2>1. FateOf(t, v, sub) /\ FateOf(t, w, sub)
    BY DEF Accounts
  <2>2. In(Append(sub, w)) = In(sub) \cup {w} /\ In(x.write_queue) = In(t.write_queue) \cup {w}
    BY SMTT(30), <1>2, <1>4, InsertTail
  <2>3. x.bufs[w] = 1 /\ (v # w => x.bufs[v] = t.bufs[v])
    BY <1>2, <1>4
  <2> QED BY <1>4, <1>9, <2>1, <2>2, <2>3 DEF FateOf
<1>15. Accounts(x, p, Append(sub, w), cal)
  BY <1>10, <1>11, <1>12, <1>13, <1>14 DEF Accounts
<1> QED BY <1>1, <1>5, <1>6, <1>10, <1>15

\* The record that the next turn of uv__write_callbacks() makes
CallsBack(t, w) ==
  [t EXCEPT !.active_reqs = @ - 1,
            !.write_queue_size = @ - (IF t.bufs[w] = 1 THEN t.left[w] ELSE 0),
            !.bufs[w] = 0]

\* The first request in flight leaves with what it still holds.
LEMMA CallbackAccounts ==
  ASSUME NEW t \in Streams, NEW p \in Seq(Reqs), NEW cal \in Seq(Reqs), NEW sub \in Seq(Reqs),
         Accounts(t, p, sub, cal), p # <<>>
  PROVE  /\ CallsBack(t, Head(p)) \in Streams
         /\ Accounts(CallsBack(t, Head(p)), Tail(p), sub, Append(cal, Head(p)))
         /\ Len(Flight(CallsBack(t, Head(p)), Tail(p))) = Len(Flight(t, p)) - 1
<1>1. PICK w \in Reqs, r \in Seq(Reqs) : w = Head(p) /\ r = Tail(p)
  <2>1. Head(p) \in Reqs /\ Tail(p) \in Seq(Reqs)
    OBVIOUS
  <2> QED BY <2>1
<1>2. PICK x : x = CallsBack(t, w)
  OBVIOUS
<1>3. /\ t.write_queue_size \in Int /\ t.write_queue \in Seq(Reqs) /\ t.active_reqs \in Int
      /\ t.write_completed_queue \in Seq(Reqs)
      /\ t.left \in [Reqs -> Nat] /\ t.bufs \in [Reqs -> {0, 1}]
  BY DEF Streams
<1>4. PICK m \in Nat : m = (IF t.bufs[w] = 1 THEN t.left[w] ELSE 0)
  BY <1>3
<1>5. /\ x.write_completed_queue = t.write_completed_queue /\ x.write_queue = t.write_queue
      /\ x.write_queue_size = t.write_queue_size - m
      /\ x.left = t.left /\ x.error = t.error /\ x.bufs = [t.bufs EXCEPT ![w] = 0]
  BY <1>2, <1>4 DEF CallsBack, Streams
<1>6. x \in Streams
  <2>1. t.write_queue_size - m \in Int /\ t.active_reqs - 1 \in Int
        /\ [t.bufs EXCEPT ![w] = 0] \in [Reqs -> {0, 1}]
    BY SMTT(30), <1>3
  <2>2. x = [t EXCEPT !.active_reqs = t.active_reqs - 1,
                      !.write_queue_size = t.write_queue_size - m,
                      !.bufs = [t.bufs EXCEPT ![w] = 0]]
    BY <1>2, <1>4 DEF CallsBack, Streams
  <2> QED BY <2>1, <2>2 DEF Streams
<1>7. PICK f \in Seq(Reqs) : f = Flight(t, p)
  BY FlightType
<1>8. /\ NoDup(f) /\ In(cal) \cap In(f) = {} /\ In(t.write_queue) \subseteq In(f)
      /\ In(sub) = In(cal) \cup In(f)
  BY <1>7, AccountsFacts
<1>9. PICK g \in Seq(Reqs) : g = Flight(x, r)
  BY <1>6, FlightType
<1>10. f # <<>> /\ Head(f) = w /\ Tail(f) = g
  <2>1. PICK c \in Seq(Reqs), q \in Seq(Reqs) :
          c = t.write_completed_queue /\ q = t.write_queue
    BY <1>3
  <2>2. LosesHead(p, c, q)
    BY HeadGoes
  <2> QED BY <1>1, <1>5, <1>7, <1>9, <2>1, <2>2 DEF Flight, LosesHead
<1>11. /\ Len(f) = Len(g) + 1 /\ f[1] = w /\ Len(g) \in Nat
       /\ \A i \in 1..Len(g) : g[i] = f[i + 1]
  <2>1. /\ Len(Tail(f)) = Len(f) - 1 /\ Len(f) \in Nat /\ Len(g) \in Nat /\ Head(f) = f[1]
        /\ \A i \in 1..(Len(f) - 1) : Tail(f)[i] = f[i + 1]
    BY <1>10
  <2>2. Len(g) = Len(f) - 1 /\ f[1] = w /\ \A i \in 1..(Len(f) - 1) : g[i] = f[i + 1]
    BY <1>10, <2>1, Zenon
  <2>3. Len(f) = Len(g) + 1 /\ 1..Len(g) = 1..(Len(f) - 1)
    BY <2>1, <2>2
  <2> QED BY <2>1, <2>2, <2>3, Zenon
<1>12. sub = Append(cal, w) \o g
  BY <1>10, <1>7, HeadJoins DEF Accounts, Joins
<1>13. x.write_queue_size = Total(Holds(x, g))
  <2>1. PICK h \in Seq(Int), k \in Seq(Int) : h = Holds(t, f) /\ k = Holds(x, g)
    BY <1>6, FlightType
  <2>2. /\ Len(h) = Len(f) /\ Len(k) = Len(g)
        /\ \A i \in 1..Len(f) : h[i] = IF t.bufs[f[i]] = 1 THEN t.left[f[i]] ELSE 0
        /\ \A i \in 1..Len(g) : k[i] = IF x.bufs[g[i]] = 1 THEN x.left[g[i]] ELSE 0
    BY <1>6, <2>1, FlightType
  <2>3. \A i \in 1..Len(k) : k[i] = h[i + 1]
    <3> SUFFICES ASSUME NEW i \in 1..Len(g) PROVE k[i] = h[i + 1]
      BY <2>2
    <3>1. i + 1 \in 1..Len(f) /\ g[i] = f[i + 1] /\ f[i + 1] \in Reqs /\ i + 1 # 1
          /\ 1 \in DOMAIN f /\ i + 1 \in DOMAIN f
      BY <1>11
    <3>2. f[i + 1] # w
      BY <1>8, <1>11, <3>1 DEF NoDup
    <3>3. x.bufs[f[i + 1]] = t.bufs[f[i + 1]] /\ x.left[f[i + 1]] = t.left[f[i + 1]]
      BY <1>3, <1>5, <3>1, <3>2
    <3> QED BY <2>2, <3>1, <3>3
  <2>4. h[1] = m
    BY <1>11, <1>4, <2>2
  <2>5. Len(h) = Len(k) + 1
    BY <1>11, <2>2
  <2>6. Total(h) = Total(k) + h[1]
    BY <2>3, <2>5, TotalTail
  <2>7. t.write_queue_size = Total(h)
    BY <1>7, <2>1 DEF Accounts
  <2>8. Total(k) \in Int
    BY TotalType
  <2> QED BY <1>5, <2>1, <2>4, <2>6, <2>7, <2>8
<1>14. \A v \in Reqs : FateOf(x, v, sub)
  <2> SUFFICES ASSUME NEW v \in Reqs PROVE FateOf(x, v, sub)
    OBVIOUS
  <2>1. FateOf(t, v, sub)
    BY DEF Accounts
  <2>2. w \notin In(t.write_queue)
    <3>1. In(t.write_queue) \subseteq In(g)
      BY <1>5, <1>6, <1>9, FlightMembers
    <3>2. In(Tail(f)) = In(f) \ {Head(f)}
      BY <1>8, <1>10, TakeHead
    <3> QED BY <1>10, <3>1, <3>2
  <2>3. v # w => x.bufs[v] = t.bufs[v]
    BY <1>3, <1>5
  <2> QED BY <1>5, <2>1, <2>2, <2>3 DEF FateOf
<1>15. Accounts(x, r, sub, Append(cal, w))
  BY <1>9, <1>12, <1>13, <1>14 DEF Accounts
<1>16. Len(Flight(x, r)) = Len(Flight(t, p)) - 1
  BY <1>7, <1>9, <1>11
<1> QED BY <1>1, <1>2, <1>6, <1>15, <1>16

-----------------------------------------------------------------------------
\* A step that leaves the requests alone
LEMMA RequestsStay ==
  ASSUME StreamTypes, Accounts(s, pq, submitted, called), ReqsCounted, s' \in Streams,
         s'.write_queue = s.write_queue, s'.write_completed_queue = s.write_completed_queue,
         s'.write_queue_size = s.write_queue_size, s'.left = s.left, s'.error = s.error,
         s'.bufs = s.bufs, pq' = pq, submitted' = submitted, called' = called,
         s'.active_reqs - s'.connect_req - s'.shutdown_req
           = s.active_reqs - s.connect_req - s.shutdown_req
  PROVE  Accounts(s', pq', submitted', called') /\ ReqsCounted'
<1>1. PICK x : x = s'
  OBVIOUS
<1>2. Flight(x, pq) = Flight(s, pq) /\ Accounts(x, pq, submitted, called)
  BY <1>1, AccountsStay
<1>3. /\ x.active_reqs \in Int /\ x.connect_req \in Int /\ x.shutdown_req \in Int
      /\ s.active_reqs \in Int /\ s.connect_req \in Int /\ s.shutdown_req \in Int
  BY <1>1 DEF StreamTypes, Streams
<1>4. Flight(s, pq) \in Seq(Reqs)
  BY FlightType DEF StreamTypes
<1>5. Len(Flight(s, pq)) \in Nat
  BY <1>4
<1>6. x.active_reqs = x.connect_req + x.shutdown_req + Len(Flight(x, pq))
  <2>1. PICK a \in Int, b \in Int, c \in Int :
          a = x.active_reqs /\ b = x.connect_req /\ c = x.shutdown_req
    BY <1>3
  <2>2. PICK d \in Int, e \in Int, k \in Int :
          d = s.active_reqs /\ e = s.connect_req /\ k = s.shutdown_req
    BY <1>3
  <2>3. PICK n \in Nat : n = Len(Flight(s, pq))
    BY <1>5
  <2>4. a - b - c = d - e - k
    BY <1>1, <2>1, <2>2, Zenon
  <2>5. d = e + k + n
    BY <2>2, <2>3 DEF ReqsCounted
  <2>6. a = b + c + n
    BY <2>4, <2>5
  <2>7. n = Len(Flight(x, pq))
    BY <1>2, <2>3
  <2> QED BY <2>1, <2>6, <2>7, Zenon
<1> QED BY <1>1, <1>2, <1>6 DEF ReqsCounted

\* Nothing submitted, nothing queued or complete
LEMMA NothingQueued ==
  ASSUME StreamTypes, Accounts(s, pq, submitted, called), submitted = <<>>
  PROVE  s.write_queue = <<>> /\ s.write_completed_queue = <<>> /\ pq = <<>>
<1>1. In(submitted) = {}
  BY EmptyList
<1>2. /\ In(s.write_queue) \subseteq In(submitted) /\ In(pq) \subseteq In(submitted)
      /\ In(s.write_completed_queue) \subseteq In(submitted)
  <2>1. s \in Streams /\ pq \in Seq(Reqs) /\ called \in Seq(Reqs)
    BY DEF StreamTypes
  <2>2. /\ In(s.write_queue) \subseteq In(Flight(s, pq)) /\ In(pq) \subseteq In(Flight(s, pq))
        /\ In(s.write_completed_queue) \subseteq In(Flight(s, pq))
        /\ In(Flight(s, pq)) \subseteq In(submitted)
    BY <2>1, AccountsFacts
  <2> QED BY <2>2
<1>3. \A q \in Seq(Reqs) : q # <<>> => q[1] \in In(q)
  BY DEF In
<1> QED BY <1>1, <1>2, <1>3 DEF StreamTypes, Streams

\* The operations of user code but uv_write2()
LEMMA UserKeeps ==
  ASSUME StreamInv,
         \/ uv__stream_open \/ uv__tcp_connect \/ PipeConnectFails
         \/ uv__read_start \/ ReadStop \/ uv_shutdown \/ uv__stream_close
  PROVE  StreamInv'
<1>1. /\ StreamTypes /\ Accounts(s, pq, submitted, called) /\ ReqsCounted /\ Control
      /\ s \in Streams
  BY DEF StreamInv, StreamTypes
<1>2. /\ pc' = pc /\ revents' = revents /\ count' = count /\ res' = res /\ pq' = pq
      /\ after' = after /\ submitted' = submitted /\ called' = called
      /\ listening' \in {0, 1}
      /\ pc \in {"run", "read_cb", "eof_cb", "write_cb", "shutdown_cb", "connect_cb"}
  BY <1>1 DEF uv__stream_open, uv__tcp_connect, PipeConnectFails, uv__read_start, ReadStop,
              uv_shutdown, uv__stream_close, local, stream_history, StreamUser, StreamTypes
<1>3. SUFFICES /\ s' \in Streams
               /\ s'.write_queue = s.write_queue
               /\ s'.write_completed_queue = s.write_completed_queue
               /\ s'.write_queue_size = s.write_queue_size /\ s'.left = s.left
               /\ s'.error = s.error /\ s'.bufs = s.bufs
               /\ s'.active_reqs - s'.connect_req - s'.shutdown_req
                    = s.active_reqs - s.connect_req - s.shutdown_req
               /\ Control'
  BY <1>1, <1>2, <1>3, RequestsStay DEF StreamTypes, StreamInv
<1>4. CASE uv__stream_open
  <2>1. /\ s' = [s EXCEPT !.fd = 1, !.flags = s.flags \cup {"READABLE", "WRITABLE"}]
        /\ listening' = listening /\ s.fd = 0 /\ "CLOSING" \notin s.flags /\ s.connect_req = 0
    BY <1>4 DEF uv__stream_open, stream_history, Is
  <2>2. s.flags \cup {"READABLE", "WRITABLE"} \in SUBSET StreamFlags
    BY <1>1 DEF Streams, StreamFlags
  <2>3. s' \in Streams
    BY <1>1, <2>1, <2>2 DEF Streams
  <2>4. Control'
    BY <1>1, <1>2, <2>1 DEF Control, Closing, Opened, Connecting, SeenTo, Reading, Shutting,
                            Told, Is, Streams
  <2> QED BY <1>1, <2>1, <2>3, <2>4 DEF Streams
<1>5. CASE uv__tcp_connect
  <2>1. PICK r \in {0, 1} :
        s' = [s EXCEPT !.fd = 1, !.flags = s.flags \cup {"READABLE", "WRITABLE"},
                       !.connect_req = 1, !.active_reqs = s.active_reqs + 1,
                       !.delayed_error = r, !.pevents = s.pevents \cup {"out"},
                       !.fed = IF r = 1 THEN 1 ELSE s.fed]
    BY <1>5 DEF uv__tcp_connect
  <2>2. listening' = listening /\ s.fd = 0 /\ "CLOSING" \notin s.flags /\ s.connect_req = 0
    BY <1>5 DEF uv__tcp_connect, stream_history, Is
  <2>3. /\ s.flags \cup {"READABLE", "WRITABLE"} \in SUBSET StreamFlags
        /\ s.pevents \cup {"out"} \in SUBSET {"in", "out"}
        /\ s.active_reqs \in Int /\ s.shutdown_req \in Int /\ s.active_reqs + 1 \in Int
        /\ (IF r = 1 THEN 1 ELSE s.fed) \in {0, 1}
    BY <1>1 DEF Streams, StreamFlags
  <2>4. s' \in Streams
    BY <1>1, <2>1, <2>3 DEF Streams
  <2>5. s.write_completed_queue = <<>>
    BY <1>1, <2>2, NothingQueued DEF Control, Opened, Is
  <2>6. Control'
    <3>1. Closing' /\ Opened' /\ Shutting' /\ Told'
      BY <1>1, <1>2, <2>1, <2>2 DEF Control, Closing, Opened, Shutting, Told, Is, Streams
    <3>2. Connecting' /\ SeenTo' /\ Reading'
      BY <1>1, <1>2, <2>1, <2>2, <2>5 DEF Control, Opened, Connecting, SeenTo, Reading, Is, Streams
    <3> QED BY <3>1, <3>2 DEF Control
  <2>7. /\ s'.write_queue = s.write_queue
        /\ s'.write_completed_queue = s.write_completed_queue
        /\ s'.write_queue_size = s.write_queue_size /\ s'.left = s.left
        /\ s'.error = s.error /\ s'.bufs = s.bufs /\ s'.shutdown_req = s.shutdown_req
        /\ s'.connect_req = 1 /\ s'.active_reqs = s.active_reqs + 1
    BY <1>1, <2>1 DEF Streams
  <2>8. s'.active_reqs - s'.connect_req - s'.shutdown_req
          = s.active_reqs - s.connect_req - s.shutdown_req
    BY <2>2, <2>3, <2>7
  <2> QED BY <2>4, <2>6, <2>7, <2>8
<1>6. CASE PipeConnectFails
  <2>1. PICK r \in {0, 1} :
        s' = [s EXCEPT !.fd = r, !.connect_req = 1, !.active_reqs = s.active_reqs + 1,
                       !.delayed_error = 1, !.fed = 1]
    BY <1>6 DEF PipeConnectFails
  <2>2. listening' = listening /\ s.fd = 0 /\ "CLOSING" \notin s.flags /\ s.connect_req = 0
    BY <1>6 DEF PipeConnectFails, stream_history, Is
  <2>3. s.active_reqs \in Int /\ s.shutdown_req \in Int /\ s.active_reqs + 1 \in Int
    BY <1>1 DEF Streams
  <2>4. s' \in Streams
    BY <1>1, <2>1, <2>3 DEF Streams
  <2>5. s.write_completed_queue = <<>>
    BY <1>1, <2>2, NothingQueued DEF Control, Opened, Is
  <2>6. Control'
    <3>1. Closing' /\ Opened' /\ Shutting' /\ Told'
      BY <1>1, <1>2, <2>1, <2>2 DEF Control, Closing, Opened, Shutting, Told, Is, Streams
    <3>2. Connecting' /\ SeenTo' /\ Reading'
      BY <1>1, <1>2, <2>1, <2>2, <2>5 DEF Control, Opened, Connecting, SeenTo, Reading, Is, Streams
    <3> QED BY <3>1, <3>2 DEF Control
  <2>7. /\ s'.write_queue = s.write_queue
        /\ s'.write_completed_queue = s.write_completed_queue
        /\ s'.write_queue_size = s.write_queue_size /\ s'.left = s.left
        /\ s'.error = s.error /\ s'.bufs = s.bufs /\ s'.shutdown_req = s.shutdown_req
        /\ s'.connect_req = 1 /\ s'.active_reqs = s.active_reqs + 1
    BY <1>1, <2>1 DEF Streams
  <2>8. s'.active_reqs - s'.connect_req - s'.shutdown_req
          = s.active_reqs - s.connect_req - s.shutdown_req
    BY <2>2, <2>3, <2>7
  <2> QED BY <2>4, <2>6, <2>7, <2>8
<1>7. CASE uv__read_start
  <2>1. /\ s' = [s EXCEPT !.flags = (s.flags \ {"READ_EOF"}) \cup {"READING"},
                          !.pevents = s.pevents \cup {"in"}]
        /\ listening' = 1 /\ "CLOSING" \notin s.flags /\ "READABLE" \in s.flags
    BY <1>7 DEF uv__read_start, Is
  <2>2. /\ (s.flags \ {"READ_EOF"}) \cup {"READING"} \in SUBSET StreamFlags
        /\ s.pevents \cup {"in"} \in SUBSET {"in", "out"}
    BY <1>1 DEF Streams, StreamFlags
  <2>3. s' \in Streams
    BY <1>1, <2>1, <2>2 DEF Streams
  <2>4. Control'
    BY <1>1, <1>2, <2>1 DEF Control, Closing, Opened, Connecting, SeenTo, Reading, Shutting,
                            Told, Is, Streams
  <2> QED BY <1>1, <2>1, <2>3, <2>4 DEF Streams
<1>8. CASE ReadStop
  <2>1. /\ s' = [s EXCEPT !.flags = s.flags \ {"READING"}, !.pevents = s.pevents \ {"in"}]
        /\ listening' = 0
    BY <1>8 DEF ReadStop, Is
  <2>2. /\ s.flags \ {"READING"} \in SUBSET StreamFlags
        /\ s.pevents \ {"in"} \in SUBSET {"in", "out"}
    BY <1>1 DEF Streams, StreamFlags
  <2>3. s' \in Streams
    BY <1>1, <2>1, <2>2 DEF Streams
  <2>4. Control'
    BY <1>1, <1>2, <2>1 DEF Control, Closing, Opened, Connecting, SeenTo, Reading, Shutting,
                            Told, Is, Streams
  <2> QED BY <1>1, <2>1, <2>3, <2>4 DEF Streams
<1>9. CASE uv_shutdown
  <2>1. /\ s' = [s EXCEPT !.shutdown_req = 1, !.active_reqs = s.active_reqs + 1,
                          !.flags = (s.flags \ {"WRITABLE"}) \cup {"SHUTTING"},
                          !.pevents = s.pevents \cup {"out"}]
        /\ listening' = listening /\ "WRITABLE" \in s.flags /\ "SHUTTING" \notin s.flags
        /\ "CLOSING" \notin s.flags
    BY <1>9 DEF uv_shutdown, stream_history, Is
  <2>2. /\ (s.flags \ {"WRITABLE"}) \cup {"SHUTTING"} \in SUBSET StreamFlags
        /\ s.pevents \cup {"out"} \in SUBSET {"in", "out"}
        /\ s.active_reqs \in Int /\ s.connect_req \in Int /\ s.shutdown_req = 0
        /\ s.active_reqs + 1 \in Int
    BY <1>1, <1>2, <2>1 DEF Streams, StreamFlags, Control, Shutting, Is
  <2>3. s' \in Streams
    BY ZenonT(30), <1>1, <2>1, <2>2 DEF Streams
  <2>4. Control'
    BY <1>1, <1>2, <2>1 DEF Control, Closing, Opened, Connecting, SeenTo, Reading, Shutting,
                            Told, Is, Streams
  <2>5. /\ s'.write_queue = s.write_queue
        /\ s'.write_completed_queue = s.write_completed_queue
        /\ s'.write_queue_size = s.write_queue_size /\ s'.left = s.left
        /\ s'.error = s.error /\ s'.bufs = s.bufs /\ s'.connect_req = s.connect_req
        /\ s'.shutdown_req = 1 /\ s'.active_reqs = s.active_reqs + 1
    BY <1>1, <2>1 DEF Streams
  <2>6. s'.active_reqs - s'.connect_req - s'.shutdown_req
          = s.active_reqs - s.connect_req - s.shutdown_req
    BY <2>2, <2>5
  <2> QED BY <2>3, <2>4, <2>5, <2>6
<1>10. CASE uv__stream_close
  <2>1. /\ s' = [s EXCEPT !.flags = (s.flags \ {"READING", "READABLE", "WRITABLE"})
                                    \cup {"CLOSING"},
                          !.pevents = {}, !.fed = 0, !.fd = 0]
        /\ listening' = 0 /\ "CLOSING" \notin s.flags
    BY <1>10 DEF uv__stream_close, Is
  <2>2. (s.flags \ {"READING", "READABLE", "WRITABLE"}) \cup {"CLOSING"} \in SUBSET StreamFlags
    BY <1>1 DEF Streams, StreamFlags
  <2>3. s' \in Streams
    BY <1>1, <2>1, <2>2 DEF Streams
  <2>4. Control'
    BY <1>1, <1>2, <2>1 DEF Control, Closing, Opened, Connecting, SeenTo, Reading, Shutting,
                            Told, Is, Streams
  <2> QED BY <1>1, <2>1, <2>3, <2>4 DEF Streams
<1> QED BY <1>4, <1>5, <1>6, <1>7, <1>8, <1>9, <1>10

\* uv_write2(): the request joins the queue and may be written at once.
LEMMA WriteKeeps ==
  ASSUME StreamInv, NEW w \in Reqs, uv_write2(w)
  PROVE  StreamInv'
<1>1. /\ StreamTypes /\ Accounts(s, pq, submitted, called) /\ ReqsCounted /\ Control
      /\ s \in Streams /\ pq \in Seq(Reqs) /\ called \in Seq(Reqs) /\ submitted \in Seq(Reqs)
  BY DEF StreamInv, StreamTypes
<1>2. /\ pc' = pc /\ revents' = revents /\ count' = count /\ res' = res /\ pq' = pq
      /\ after' = after /\ called' = called /\ listening' = listening
      /\ submitted' = Append(submitted, w) /\ w = Len(submitted) + 1
      /\ pc \in {"run", "read_cb", "eof_cb", "write_cb", "shutdown_cb", "connect_cb"}
      /\ s.fd = 1 /\ "WRITABLE" \in s.flags
  BY DEF uv_write2, local, StreamUser, Is
<1>3. PICK t : t = Submits(s, w)
  OBVIOUS
<1>4. /\ t \in Streams /\ Accounts(t, pq, submitted', called)
      /\ Len(Flight(t, pq)) = Len(Flight(s, pq)) + 1
  BY <1>1, <1>2, <1>3, SubmitAccounts
<1>5. /\ t.fd = s.fd /\ t.flags = s.flags /\ t.pevents = s.pevents /\ t.fed = s.fed
      /\ t.connect_req = s.connect_req /\ t.delayed_error = s.delayed_error
      /\ t.shutdown_req = s.shutdown_req /\ t.active_reqs = s.active_reqs + 1
      /\ t.write_completed_queue = s.write_completed_queue
      /\ t.write_queue = Append(s.write_queue, w)
  BY <1>1, <1>3 DEF Submits, Streams
<1>6. "CLOSING" \notin s.flags
  BY <1>1, <1>2 DEF Control, Closing, Is
<1>7. /\ \/ s.connect_req = 1 /\ s' = t
         \/ s.connect_req = 0 /\ s' \in uv__write(t)
         \/ s.connect_req = 0 /\ s' = [t EXCEPT !.pevents = t.pevents \cup {"out"}]
  BY <1>1, <1>3 DEF Streams, uv_write2, Submits
<1>8. Serves(s', t, pq, submitted', called) /\ (s.connect_req = 0 => Attended(s', t))
      /\ (s.connect_req = 1 => s' = t)
  <2>1. Serves(t, t, pq, submitted', called)
    BY <1>4 DEF Serves, SameOthers
  <2>2. CASE s.connect_req = 1 /\ s' = t
    BY <2>1, <2>2
  <2>3. CASE s.connect_req = 0 /\ s' \in uv__write(t)
    BY <1>1, <1>4, <2>3, WriteServes
  <2>4. CASE s.connect_req = 0 /\ s' = [t EXCEPT !.pevents = t.pevents \cup {"out"}]
    <3>1. t.pevents \cup {"out"} \in SUBSET {"in", "out"}
      BY <1>4 DEF Streams
    <3>2. Serves(s', t, pq, submitted', called)
      BY <2>1, <2>4, <3>1, ServesPolled
    <3>3. Attended(s', t)
      BY <1>4, <2>4 DEF Attended, Streams
    <3> QED BY <2>4, <3>2, <3>3
  <2> QED BY <1>7, <2>2, <2>3, <2>4
<1>9. /\ s' \in Streams /\ Accounts(s', pq, submitted', called)
      /\ s'.fd = s.fd /\ s'.flags = s.flags /\ s'.connect_req = s.connect_req
      /\ s'.delayed_error = s.delayed_error /\ s'.shutdown_req = s.shutdown_req
      /\ s'.active_reqs = s.active_reqs + 1
      /\ Len(Flight(s', pq)) = Len(Flight(s, pq)) + 1
  BY <1>4, <1>5, <1>8 DEF Serves, SameOthers
<1>10. ReqsCounted'
  <2>1. /\ s.active_reqs \in Int /\ s.connect_req \in Int /\ s.shutdown_req \in Int
        /\ Len(Flight(s, pq)) \in Nat
    BY <1>1, FlightType DEF Streams
  <2>2. PICK n \in Nat : n = Len(Flight(s, pq))
    BY <2>1
  <2>3. PICK a \in Int, b \in Int, c \in Int :
          a = s.active_reqs /\ b = s.connect_req /\ c = s.shutdown_req
    BY <2>1
  <2>4. a = b + c + n
    BY <1>1, <2>2, <2>3 DEF ReqsCounted
  <2>5. a + 1 = b + c + (n + 1)
    BY <2>4
  <2> QED BY <1>2, <1>9, <2>2, <2>3, <2>5 DEF ReqsCounted
<1>11. StreamTypes'
  BY <1>1, <1>2, <1>9 DEF StreamTypes
<1>12. Closing' /\ Opened' /\ Shutting' /\ Told'
  BY <1>1, <1>2, <1>6, <1>9 DEF Control, Closing, Opened, Shutting, Told, Is
<1>16. s.connect_req \in {0, 1}
  BY <1>1 DEF Streams
<1>13. Connecting'
  BY <1>1, <1>2, <1>5, <1>6, <1>8, <1>9 DEF Control, Connecting, Attended, Is
<1>14. SeenTo'
  BY <1>1, <1>2, <1>6, <1>5, <1>8, <1>16 DEF Control, Connecting, SeenTo, Is, Attended
<1>15. Reading'
  BY <1>5, <1>8, <1>16, <1>1, <1>2, <1>9 DEF Attended, Control, Reading, Is
<1> QED BY <1>2, <1>9, <1>10, <1>11, <1>12, <1>13, <1>14, <1>15 DEF StreamInv, Control

\* A step that leaves the requests alone, but for the end of a connect or a shutdown
SameRequests ==
  /\ s'.write_queue = s.write_queue /\ s'.write_completed_queue = s.write_completed_queue
  /\ s'.write_queue_size = s.write_queue_size /\ s'.left = s.left
  /\ s'.error = s.error /\ s'.bufs = s.bufs
  /\ pq' = pq /\ submitted' = submitted /\ called' = called
  /\ s'.active_reqs - s'.connect_req - s'.shutdown_req
       = s.active_reqs - s.connect_req - s.shutdown_req

\* Such a step keeps the accounts.
LEMMA SameRequestsKeep ==
  ASSUME StreamInv, s' \in Streams, SameRequests, pc' \in StreamPlaces,
         revents' \in SUBSET {"in", "out", "err", "hup"}, count' \in Int,
         after' \in {"none", "drain", "return", "destroy"}, listening' \in {0, 1}
  PROVE  StreamTypes' /\ Accounts(s', pq', submitted', called') /\ ReqsCounted'
BY RequestsStay DEF StreamInv, SameRequests, StreamTypes

\* An event, or the turn of a pending watcher
LEMMA EventKeeps ==
  ASSUME StreamInv, StreamEvent \/ StreamFed
  PROVE  StreamInv'
<1>1. StreamTypes /\ Control /\ s \in Streams /\ Accounts(s, pq, submitted, called)
  BY DEF StreamInv, StreamTypes
<1>2. PICK t, ev :
        /\ Enter(t, ev) /\ pc = "run"
        /\ \/ t = s /\ s.pevents # {} /\ ev \in SUBSET (s.pevents \cup {"err", "hup"})
           \/ t = [s EXCEPT !.fed = 0] /\ s.fed = 1 /\ ev = {"out"}
  BY DEF StreamEvent, StreamFed
<1>3. /\ t \in Streams /\ ev \in SUBSET {"in", "out", "err", "hup"}
      /\ t.fd = s.fd /\ t.flags = s.flags /\ t.pevents = s.pevents
      /\ t.connect_req = s.connect_req /\ t.delayed_error = s.delayed_error
      /\ t.shutdown_req = s.shutdown_req /\ t.active_reqs = s.active_reqs
      /\ t.write_queue = s.write_queue /\ t.write_completed_queue = s.write_completed_queue
      /\ t.write_queue_size = s.write_queue_size /\ t.left = s.left
      /\ t.error = s.error /\ t.bufs = s.bufs /\ t.fed \in {0, 1}
      /\ t.connect_req \in {0, 1}
  BY <1>1, <1>2 DEF Streams
<1>4. /\ s' = t \/ s' = [t EXCEPT !.flags = t.flags \ {"READ_PARTIAL"}]
      /\ revents' = ev /\ count' \in Int /\ pc' \in {"read", "connect", "write"}
      /\ pc' = "connect" <=> t.connect_req = 1
      /\ res' = res /\ pq' = pq /\ after' = after /\ submitted' = submitted
      /\ called' = called /\ listening' = listening
  BY <1>2, <1>3, StreamAssumption DEF Enter, stream_history
<1>5. /\ s' \in Streams /\ s'.fd = s.fd /\ s'.pevents = s.pevents /\ s'.fed = t.fed
      /\ \A f \in StreamFlags \ {"READ_PARTIAL"} : f \in s'.flags <=> f \in s.flags
      /\ s'.connect_req = s.connect_req /\ s'.delayed_error = s.delayed_error
      /\ s'.shutdown_req = s.shutdown_req /\ s'.active_reqs = s.active_reqs
      /\ s'.write_queue = s.write_queue /\ s'.write_completed_queue = s.write_completed_queue
      /\ s'.write_queue_size = s.write_queue_size /\ s'.left = s.left
      /\ s'.error = s.error /\ s'.bufs = s.bufs
  <2>1. t.flags \ {"READ_PARTIAL"} \in SUBSET StreamFlags
    BY <1>3 DEF Streams
  <2>2. CASE s' = t
    BY <1>3, <2>2
  <2>3. CASE s' = [t EXCEPT !.flags = t.flags \ {"READ_PARTIAL"}]
    BY <1>3, <2>1, <2>3 DEF Streams
  <2> QED BY <1>4, <2>2, <2>3
<1>6. StreamTypes' /\ Accounts(s', pq', submitted', called') /\ ReqsCounted'
  BY <1>1, <1>3, <1>4, <1>5, SameRequestsKeep DEF SameRequests, StreamPlaces, StreamTypes
<1>7. \A f \in {"READING", "READABLE", "WRITABLE", "CLOSING", "SHUTTING"} :
        f \in s'.flags <=> f \in s.flags
  BY <1>5 DEF StreamFlags
<1>8. "CLOSING" \notin s.flags /\ pq = <<>> /\ after = "none"
      /\ (s.fd = 0 => s.connect_req = 1 /\ s.pevents = {})
  BY <1>1, <1>2 DEF Control, Closing, Is, Opened, Told
<1>9. submitted = <<>> => s.write_queue = <<>>
  BY <1>1, NothingQueued
<1>10. Closing' /\ Shutting' /\ Reading' /\ Told'
  BY <1>1, <1>2, <1>4, <1>5, <1>7, <1>8 DEF Control, Closing, Shutting, Reading, Told, Is
<1>11. Opened'
  BY <1>2, <1>3, <1>1, <1>4, <1>5, <1>7, <1>8 DEF Streams, Control, Opened, Is
<1>12. Connecting' /\ SeenTo'
  <2>1. /\ s.connect_req = 1 =>
             /\ s.write_completed_queue = <<>>
             /\ \/ "out" \in s.pevents
                \/ s.delayed_error = 1 /\ submitted = <<>> /\ "WRITABLE" \notin s.flags
    BY <1>1, <1>8 DEF Control, Connecting, Is
  <2>2. Connecting'
    BY <1>3, <1>4, <1>5, <1>7, <1>8, <2>1 DEF Connecting, Is
  <2>3. CASE pc' = "connect"
    BY <1>3, <1>4, <1>5, <1>9, <2>1, <2>2, <2>3 DEF SeenTo
  <2>4. CASE pc' = "write"
    BY <2>2, <2>4 DEF SeenTo
  <2>5. CASE pc' = "read"
    <3>1. t = s
      BY <1>2, <2>5 DEF Enter
    <3>2. /\ s.write_queue # <<>> => "out" \in s.pevents \/ s.fed = 1
          /\ s.write_completed_queue # <<>> => s.fed = 1
      BY <1>1, <1>2, <1>8 DEF Control, SeenTo, Is
    <3> QED BY <1>5, <2>2, <3>1, <3>2 DEF SeenTo
  <2> QED BY <1>4, <2>2, <2>3, <2>4, <2>5
<1> QED BY <1>6, <1>10, <1>11, <1>12 DEF StreamInv, Control

\* The steps of a connect, up to its callback
LEMMA ConnectKeeps ==
  ASSUME StreamInv, ConnectWait \/ ConnectDone
  PROVE  StreamInv'
<1>1. StreamTypes /\ Control /\ s \in Streams
  BY DEF StreamInv, StreamTypes
<1>2. pc = "connect" /\ s.connect_req = 1 /\ "CLOSING" \notin s.flags
      /\ s.delayed_error \in {0, 1} /\ s.fed \in {0, 1}
  BY <1>1 DEF ConnectWait, ConnectDone, Control, Connecting, Closing, Is, Streams
<1>3. CASE ConnectWait
  <2>1. /\ s' = s /\ pc' = "run" /\ revents' = {} /\ count' = 0 /\ pq' = pq /\ after' = after
        /\ submitted' = submitted /\ called' = called /\ listening' = listening
        /\ s.delayed_error = 0
    BY <1>3 DEF ConnectWait, Leave, stream_history
  <2>2. StreamTypes' /\ Accounts(s', pq', submitted', called') /\ ReqsCounted'
    BY <1>1, <2>1, SameRequestsKeep DEF SameRequests, StreamPlaces, StreamTypes
  <2>3. Closing' /\ Opened' /\ Connecting' /\ Shutting' /\ Reading' /\ Told' /\ SeenTo'
    BY <1>1, <1>2, <2>1 DEF Control, Closing, Opened, Connecting, Shutting, Reading, Told, SeenTo, Is
  <2> QED BY <2>2, <2>3 DEF StreamInv, Control
<1>4. CASE ConnectDone
  <2>1. PICK err \in {"ok", "failed"}, ev \in SUBSET {"in", "out"} :
          /\ s' = [s EXCEPT !.connect_req = 0, !.delayed_error = 0,
                            !.active_reqs = s.active_reqs - 1, !.pevents = ev]
          /\ res' = err /\ (err = "ok" => s.delayed_error = 0)
          /\ ev = IF err # "ok" \/ s.write_queue = <<>> THEN s.pevents \ {"out"}
                  ELSE s.pevents
    <3>1. PICK err \in IF s.delayed_error = 1 THEN {"failed"} ELSE {"ok", "failed"} :
            /\ s' = [s EXCEPT !.connect_req = 0, !.delayed_error = 0,
                              !.active_reqs = s.active_reqs - 1,
                              !.pevents = IF err # "ok" \/ s.write_queue = <<>>
                                          THEN s.pevents \ {"out"} ELSE s.pevents]
            /\ res' = err
      BY <1>4 DEF ConnectDone
    <3>2. /\ s.pevents \in SUBSET {"in", "out"}
          /\ s.pevents \ {"out"} \in SUBSET {"in", "out"}
      BY <1>1 DEF Streams
    <3> QED BY <1>2, <3>1, <3>2
  <2>2. /\ pc' = "connect_cb" /\ revents' = revents /\ count' = count /\ pq' = pq
        /\ after' = after /\ submitted' = submitted /\ called' = called
        /\ listening' = listening
    BY <1>4 DEF ConnectDone, stream_history
  <2>3. s.active_reqs \in Int /\ s.active_reqs - 1 \in Int /\ s.shutdown_req \in Int
        /\ ev \in SUBSET {"in", "out"}
    BY <1>1, <2>1 DEF Streams
  <2>4. /\ s' \in Streams /\ s'.fd = s.fd /\ s'.flags = s.flags /\ s'.pevents = ev
        /\ s'.fed = s.fed /\ s'.connect_req = 0
        /\ s'.shutdown_req = s.shutdown_req /\ s'.active_reqs = s.active_reqs - 1
        /\ s'.write_queue = s.write_queue /\ s'.write_completed_queue = s.write_completed_queue
        /\ s'.write_queue_size = s.write_queue_size /\ s'.left = s.left
        /\ s'.error = s.error /\ s'.bufs = s.bufs
    BY <1>1, <2>1, <2>3 DEF Streams
  <2>5. SameRequests
    BY <1>2, <2>3, <2>4, <2>2 DEF SameRequests
  <2>6. StreamTypes' /\ Accounts(s', pq', submitted', called') /\ ReqsCounted'
    BY <1>1, <2>2, <2>4, <2>5, SameRequestsKeep DEF StreamPlaces, StreamTypes
  <2>7. Closing' /\ Connecting' /\ Shutting' /\ Reading' /\ Told'
    BY <1>1, <1>2, <2>1, <2>2, <2>4
       DEF Control, Closing, Connecting, Shutting, Reading, Told, Is
  <2>8. Opened'
    BY <1>1, <1>2, <2>1, <2>2, <2>4 DEF Control, Opened, Told, Is
  <2>9. SeenTo'
    BY <1>1, <1>2, <2>1, <2>2, <2>4 DEF Control, Connecting, Is, SeenTo
  <2> QED BY <2>6, <2>7, <2>8, <2>9 DEF StreamInv, Control
<1> QED BY <1>3, <1>4

\* A step that changes no more than what the reads change
Reads ==
  /\ s' = [s EXCEPT !.flags = s'.flags, !.pevents = s'.pevents]
  /\ s'.flags \in SUBSET StreamFlags
  /\ s'.pevents \in SUBSET {"in", "out"}
  /\ "out" \in s'.pevents <=> "out" \in s.pevents
  /\ \A f \in {"CLOSING", "SHUTTING"} : f \in s'.flags <=> f \in s.flags
  /\ {"READING", "READABLE", "WRITABLE"} \cap s'.flags \subseteq s.flags
  /\ pq' = pq /\ submitted' = submitted /\ called' = called
  /\ s.pevents = {} => s'.pevents = {}

\* The accounts and what the reads do not touch stay.
LEMMA ReadsKeep ==
  ASSUME StreamInv, Reads, after' = after, listening' \in {0, 1}, count' \in Int,
         revents' \in SUBSET {"in", "out", "err", "hup"},
         pc \in {"read", "read_cb", "hup", "eof_cb"},
         pc' \in {"read", "read_cb", "hup", "eof_cb", "run", "write"},
         pc' = "write" => s.fd = 1, Reading'
  PROVE  StreamInv'
<1>1. StreamTypes /\ Control /\ s \in Streams
  BY DEF StreamInv, StreamTypes
<1>2. /\ s' \in Streams /\ s'.fd = s.fd /\ s'.fed = s.fed /\ s'.connect_req = s.connect_req
      /\ s'.shutdown_req = s.shutdown_req /\ s'.active_reqs = s.active_reqs
      /\ s'.delayed_error = s.delayed_error
      /\ s'.write_queue = s.write_queue /\ s'.write_completed_queue = s.write_completed_queue
      /\ s'.write_queue_size = s.write_queue_size /\ s'.left = s.left
      /\ s'.error = s.error /\ s'.bufs = s.bufs
  BY <1>1 DEF Reads, Streams
<1>3. StreamTypes' /\ Accounts(s', pq', submitted', called') /\ ReqsCounted'
  BY <1>1, <1>2, SameRequestsKeep DEF SameRequests, Reads, StreamPlaces, StreamTypes
<1>4. Closing' /\ Connecting' /\ Shutting' /\ Told'
  BY <1>1, <1>2 DEF Control, Closing, Reads, Is, Opened, Connecting, Shutting, Told
<1>5. Opened' /\ SeenTo'
  BY <1>1, <1>2 DEF Control, Opened, SeenTo, Reads, Is
<1> QED BY <1>3, <1>4, <1>5 DEF StreamInv, Control

\* The steps of uv__read() and what follows it
LEMMA ReadKeeps ==
  ASSUME StreamInv, ReadNext \/ ReadReturn \/ ReadEnd \/ AfterRead \/ EofReturn
  PROVE  StreamInv'
<1>1. StreamTypes /\ Control /\ s \in Streams
  BY DEF StreamInv, StreamTypes
<1>2. /\ s.flags \in SUBSET StreamFlags /\ s.pevents \in SUBSET {"in", "out"}
      /\ s = [s EXCEPT !.flags = s.flags, !.pevents = s.pevents]
  BY <1>1 DEF Streams
<1>3. "CLOSING" \notin s.flags => s.fd = 1 \/ pc \notin {"read", "read_cb", "hup", "eof_cb"}
  BY <1>1 DEF Control, Opened, Is
<1>4. CASE ReadNext
  BY <1>4, <1>1, <1>2, ReadsKeep DEF ReadNext, ReadMore, Is, Control, Reading, StreamFlags, Streams,
     Reads, StreamTypes
<1>5. CASE ReadReturn
  <2>1. PICK fl, ev :
          /\ s' = [s EXCEPT !.flags = fl, !.pevents = ev]
          /\ \/ res = "partial" /\ fl = s.flags \cup {"READ_PARTIAL"} /\ ev = s.pevents
             \/ /\ res = "failed" /\ fl = s.flags \ {"READING"}
                /\ ev = IF "READING" \in s.flags THEN s.pevents \ {"in"} ELSE s.pevents
             \/ res \notin {"failed", "partial"} /\ fl = s.flags /\ ev = s.pevents
    <3>1. CASE res = "partial"
      BY <1>1, <1>5, <3>1 DEF ReadReturn, Streams
    <3>2. CASE res = "failed" /\ "READING" \in s.flags
      BY <1>5, <3>2 DEF ReadReturn, Is
    <3>3. CASE res = "failed" /\ "READING" \notin s.flags
      <4>1. s' = s /\ s.flags \ {"READING"} = s.flags
        BY <1>5, <3>3 DEF ReadReturn, Is
      <4>2. s' = [s EXCEPT !.flags = s.flags \ {"READING"}, !.pevents = s.pevents]
        BY <1>2, <4>1
      <4> QED BY <3>3, <4>2
    <3>4. CASE res \notin {"failed", "partial"}
      BY <1>5, <3>4, <1>2 DEF ReadReturn, Is
    <3> QED BY <3>1, <3>2, <3>3, <3>4
  <2>2. /\ pc = "read_cb" /\ pc' \in {"read", "hup"} /\ count' = count /\ revents' = revents
        /\ pq' = pq /\ after' = after /\ submitted' = submitted /\ called' = called
        /\ listening' = IF res = "failed" THEN 0 ELSE listening
    BY <1>5 DEF ReadReturn
  <2>3. fl \in SUBSET StreamFlags /\ ev \in SUBSET {"in", "out"}
    BY <1>2, <2>1 DEF StreamFlags
  <2>4. s'.flags = fl /\ s'.pevents = ev
    BY <1>1, <2>1 DEF Streams
  <2>5. Reads
    BY <2>1, <2>2, <2>3, <2>4 DEF Reads
  <2>6. Reading'
    BY <1>1, <2>1, <2>2, <2>4 DEF Reading, Control, Is
  <2> QED BY <1>1, <2>2, <2>5, <2>6, ReadsKeep DEF StreamTypes
<1>6. CASE ReadEnd
  BY <1>6, <1>1, <1>2, ReadsKeep DEF ReadEnd, stream_history, Reads, Reading, Control, Is,
     StreamTypes
<1>7. ASSUME s' = s, WriteOrLeave, pc \in {"hup", "eof_cb"}, pq' = pq, after' = after,
             submitted' = submitted, called' = called, listening' = listening
      PROVE  StreamInv'
  BY <1>1, <1>2, <1>7, ReadsKeep DEF Reads, Reading, Control, Is, WriteOrLeave, Leave, StreamTypes
<1>8. CASE AfterRead
  <2>1. CASE s.fd = 1 /\ HupEof
    <3>1. PICK fl, ev :
          /\ s' = [s EXCEPT !.flags = fl, !.pevents = ev]
          /\ fl = (s.flags \ {"READING"}) \cup {"READ_EOF"} /\ ev = s.pevents \ {"in"}
      BY <1>8, <2>1 DEF AfterRead
    <3>2. /\ pc = "hup" /\ pc' = "eof_cb" /\ listening' = 0 /\ count' = 0 /\ revents' = revents
          /\ pq' = pq /\ after' = after /\ submitted' = submitted /\ called' = called
      BY <1>8, <2>1 DEF AfterRead
    <3>3. fl \in SUBSET StreamFlags /\ ev \in SUBSET {"in", "out"}
      BY <1>2, <3>1 DEF StreamFlags
    <3>4. s'.flags = fl /\ s'.pevents = ev
      BY <1>1, <3>1 DEF Streams
    <3>5. Reads /\ Reading'
      BY <3>1, <3>2, <3>3, <3>4 DEF Reads, Reading, Is
    <3> QED BY <1>1, <3>2, <3>5, ReadsKeep DEF StreamTypes
  <2>2. CASE ~(s.fd = 1 /\ HupEof)
    BY <1>7, <1>8, <2>2 DEF AfterRead
  <2> QED BY <2>1, <2>2
<1>9. CASE EofReturn
  BY <1>7, <1>9 DEF EofReturn, stream_history
<1> QED BY <1>4, <1>5, <1>6, <1>8, <1>9

\* A list of completed requests is taken from t, which has the accounts of s.
LEMMA TakenKeep ==
  ASSUME StreamInv, NEW t \in Streams, Accounts(t, <<>>, submitted, called),
         Flight(t, <<>>) = Flight(s, <<>>), pq = <<>>,
         t.active_reqs - t.connect_req - t.shutdown_req
           = s.active_reqs - s.connect_req - s.shutdown_req,
         NEW next \in {"drain", "return", "destroy"}, WriteCallbacks(t, next),
         revents' = revents, count' = count, submitted' = submitted, called' = called,
         listening' = listening
  PROVE  /\ s' \in Streams /\ SameOthers(s', t) /\ s'.fed = t.fed /\ s'.pevents = t.pevents
         /\ s'.write_queue = t.write_queue /\ s'.write_completed_queue = <<>>
         /\ pc' = "callbacks" /\ after' = next
         /\ StreamTypes' /\ Accounts(s', pq', submitted', called') /\ ReqsCounted'
<1>1. /\ StreamTypes /\ ReqsCounted /\ s \in Streams
  BY DEF StreamInv, StreamTypes
<1>2. PICK x : x = s'
  OBVIOUS
<1>3. /\ x = [t EXCEPT !.write_completed_queue = <<>>] /\ pq' = t.write_completed_queue
      /\ after' = next /\ pc' = "callbacks"
  BY <1>2 DEF WriteCallbacks
<1>4. /\ x \in Streams /\ SameOthers(x, t)
      /\ Accounts(x, t.write_completed_queue, submitted, called)
      /\ Flight(x, t.write_completed_queue) = Flight(t, <<>>)
  BY <1>3, AccountsTaken
<1>5. /\ x.fed = t.fed /\ x.pevents = t.pevents /\ x.write_queue = t.write_queue
      /\ x.write_completed_queue = <<>> /\ t.write_completed_queue \in Seq(Reqs)
  BY <1>3 DEF Streams
<1>6. ReqsCounted'
  <2>1. PICK a \in Int, b \in Int, c \in Int :
          a = x.active_reqs /\ b = x.connect_req /\ c = x.shutdown_req
    BY <1>4 DEF Streams
  <2>2. PICK d \in Int, e \in Int, k \in Int :
          d = s.active_reqs /\ e = s.connect_req /\ k = s.shutdown_req
    BY <1>1 DEF Streams
  <2>3. PICK n \in Nat : n = Len(Flight(s, pq))
    BY <1>1, FlightType DEF StreamTypes
  <2>4. a - b - c = d - e - k
    BY <1>4, <2>1, <2>2 DEF SameOthers
  <2>5. d = e + k + n
    BY <1>1, <2>2, <2>3 DEF ReqsCounted
  <2>6. a = b + c + n
    BY <2>4, <2>5
  <2>7. n = Len(Flight(x, pq'))
    BY <1>3, <1>4, <2>3
  <2> QED BY <1>2, <2>1, <2>6, <2>7, Zenon DEF ReqsCounted
<1>7. StreamTypes'
  BY <1>1, <1>2, <1>3, <1>4, <1>5 DEF StreamTypes, StreamPlaces
<1> QED BY <1>2, <1>3, <1>4, <1>5, <1>6, <1>7

\* The steps that write, and those that take the completed requests
LEMMA TakingKeeps ==
  ASSUME StreamInv, ConnectReturn \/ WritePart \/ StreamFinishClose
  PROVE  StreamInv'
<1>1. /\ StreamTypes /\ Control /\ s \in Streams /\ Accounts(s, pq, submitted, called)
      /\ called \in Seq(Reqs) /\ <<>> \in Seq(Reqs)
  BY DEF StreamInv, StreamTypes
<1>2. pc \in {"run", "connect_cb", "write"} /\ pq = <<>> /\ after = "none"
  BY <1>1 DEF ConnectReturn, WritePart, StreamFinishClose, Control, Told
<1>3. CASE ConnectReturn
  <2>1. pc = "connect_cb" /\ submitted' = submitted /\ called' = called /\ listening' = listening
    BY <1>3 DEF ConnectReturn, stream_history
  <2>2. CASE s.fd = 1 /\ res # "ok"
    <3>1. WriteCallbacks(Flushed(s), "return") /\ revents' = revents /\ count' = count
          /\ res' = res
      BY <1>3, <2>2 DEF ConnectReturn
    <3>2. PICK t : t = Flushed(s)
      OBVIOUS
    <3>3. /\ t \in Streams /\ SameOthers(t, s) /\ t.fed = s.fed /\ t.pevents = s.pevents
          /\ t.write_queue = <<>> /\ Accounts(t, <<>>, submitted, called)
          /\ Flight(t, <<>>) = Flight(s, <<>>)
      BY <1>1, <1>2, <3>2, FlushedAccounts
    <3>4. t.active_reqs - t.connect_req - t.shutdown_req
            = s.active_reqs - s.connect_req - s.shutdown_req
      BY <3>3 DEF SameOthers
    <3>5. /\ s' \in Streams /\ SameOthers(s', t) /\ s'.fed = t.fed /\ s'.pevents = t.pevents
          /\ s'.write_queue = t.write_queue /\ s'.write_completed_queue = <<>>
          /\ pc' = "callbacks" /\ after' = "return"
          /\ StreamTypes' /\ Accounts(s', pq', submitted', called') /\ ReqsCounted'
      BY <1>2, <2>1, <3>1, <3>2, <3>3, <3>4, TakenKeep
    <3>6. /\ s'.fd = 1 /\ s'.flags = s.flags /\ s'.connect_req = s.connect_req
          /\ s'.delayed_error = s.delayed_error /\ s'.shutdown_req = s.shutdown_req
          /\ s'.fed = s.fed /\ s'.pevents = s.pevents /\ s'.write_queue = <<>>
      BY <2>2, <3>3, <3>5 DEF SameOthers
    <3>7. "CLOSING" \notin s.flags
      BY <1>1, <2>2 DEF Control, Closing, Is
    <3>8. Closing' /\ Opened' /\ Shutting' /\ Told' /\ SeenTo'
      BY <1>1, <1>2, <2>1, <3>5, <3>6, <3>7
         DEF Control, Closing, Opened, Shutting, Told, SeenTo, Is
    <3>9. Connecting' /\ Reading'
      BY <1>1, <1>2, <2>1, <3>5, <3>6, <3>7 DEF Control, Connecting, Reading, Is
    <3> QED BY <3>5, <3>8, <3>9 DEF StreamInv, Control
  <2>3. CASE ~(s.fd = 1 /\ res # "ok")
    <3>1. /\ s' = s /\ pc' = "run" /\ revents' = {} /\ count' = 0 /\ pq' = pq /\ after' = after
      BY <1>3, <2>3 DEF ConnectReturn, Leave
    <3>2. StreamTypes' /\ Accounts(s', pq', submitted', called') /\ ReqsCounted'
      BY <1>1, <2>1, <3>1, SameRequestsKeep DEF SameRequests, StreamPlaces, StreamTypes
    <3>3. Closing' /\ Opened' /\ Shutting' /\ Told' /\ Connecting' /\ Reading'
      BY <1>1, <1>2, <2>1, <3>1
         DEF Control, Closing, Opened, Shutting, Told, Connecting, Reading, Is
    <3>4. SeenTo'
      <4>1. s.fd \in {0, 1}
        BY <1>1 DEF Streams
      <4>2. CASE s.fd = 0 /\ "CLOSING" \notin s.flags
        BY <1>1, <4>2, <3>1, NothingQueued DEF Control, Opened, Is, SeenTo
      <4>3. CASE s.fd = 1
        BY <1>1, <2>1, <2>3, <3>1, <4>3 DEF Control, SeenTo, Is
      <4>4. CASE "CLOSING" \in s.flags
        BY <3>1, <4>4 DEF SeenTo, Is
      <4> QED BY <4>1, <4>2, <4>3, <4>4
    <3> QED BY <3>2, <3>3, <3>4 DEF StreamInv, Control
  <2> QED BY <2>2, <2>3
<1>4. CASE WritePart
  <2>1. PICK t \in uv__write(s) : WriteCallbacks(t, "drain")
    BY <1>4 DEF WritePart
  <2>2. /\ pc = "write" /\ revents' = revents /\ count' = count /\ submitted' = submitted
        /\ called' = called /\ listening' = listening
    BY <1>4 DEF WritePart, stream_history
  <2>3. Serves(t, s, <<>>, submitted, called) /\ Attended(t, s)
    BY <1>1, <1>2, WriteServes
  <2>4. /\ t \in Streams /\ SameOthers(t, s) /\ Accounts(t, <<>>, submitted, called)
        /\ Flight(t, <<>>) = Flight(s, <<>>)
    BY <2>3 DEF Serves
  <2>5. t.active_reqs - t.connect_req - t.shutdown_req
          = s.active_reqs - s.connect_req - s.shutdown_req
    BY <2>4 DEF SameOthers
  <2>6. /\ s' \in Streams /\ SameOthers(s', t) /\ s'.fed = t.fed /\ s'.pevents = t.pevents
        /\ s'.write_queue = t.write_queue /\ s'.write_completed_queue = <<>>
        /\ pc' = "callbacks" /\ after' = "drain"
        /\ StreamTypes' /\ Accounts(s', pq', submitted', called') /\ ReqsCounted'
    BY <1>2, <2>1, <2>2, <2>4, <2>5, TakenKeep
  <2>7. "CLOSING" \notin s.flags /\ s.fd = 1 /\ s.connect_req = 0
    BY <1>1, <2>2 DEF Control, Closing, Opened, Is
  <2>8. /\ s'.fd = s.fd /\ s'.flags = s.flags /\ s'.connect_req = s.connect_req
        /\ s'.delayed_error = s.delayed_error /\ s'.shutdown_req = s.shutdown_req
        /\ (s'.write_queue # <<>> => "out" \in s'.pevents \/ s'.fed = 1)
        /\ ("in" \in s.pevents => "in" \in s'.pevents)
    BY <2>3, <2>4, <2>6 DEF SameOthers, Attended
  <2>9. Closing' /\ Opened' /\ Shutting' /\ Told' /\ SeenTo'
    BY <1>1, <1>2, <2>2, <2>6, <2>7, <2>8
       DEF Control, Closing, Opened, Shutting, Told, SeenTo, Is
  <2>10. Connecting' /\ Reading'
    BY <1>1, <1>2, <2>2, <2>6, <2>7, <2>8 DEF Control, Connecting, Reading, Is
  <2> QED BY <2>6, <2>9, <2>10 DEF StreamInv, Control
<1>5. CASE StreamFinishClose
  <2>1. PICK u : u = [s EXCEPT !.flags = s.flags \cup {"CLOSED"}, !.connect_req = 0,
                               !.active_reqs = s.active_reqs - s.connect_req]
    OBVIOUS
  <2>2. /\ pc = "run" /\ "CLOSING" \in s.flags /\ WriteCallbacks(Flushed(u), "destroy")
        /\ revents' = revents /\ count' = count /\ submitted' = submitted
        /\ called' = called /\ listening' = listening
    BY <1>5, <2>1 DEF StreamFinishClose, stream_history, Is
  <2>3. s.flags \cup {"CLOSED"} \in SUBSET StreamFlags /\ s.active_reqs - s.connect_req \in Int
        /\ s.active_reqs \in Int /\ s.connect_req \in Int /\ s.shutdown_req \in Int
    BY <1>1 DEF Streams, StreamFlags
  <2>4. u \in Streams
    BY <1>1, <2>1, <2>3 DEF Streams
  <2>5. /\ u.flags = s.flags \cup {"CLOSED"} /\ u.connect_req = 0
        /\ u.active_reqs = s.active_reqs - s.connect_req
        /\ u.shutdown_req = s.shutdown_req /\ u.delayed_error = s.delayed_error
        /\ u.fd = s.fd /\ u.pevents = s.pevents /\ u.fed = s.fed
        /\ u.write_queue = s.write_queue /\ u.write_completed_queue = s.write_completed_queue
        /\ u.write_queue_size = s.write_queue_size /\ u.left = s.left
        /\ u.error = s.error /\ u.bufs = s.bufs
    BY <1>1, <2>1 DEF Streams
  <2>6. Accounts(u, <<>>, submitted, called) /\ Flight(u, <<>>) = Flight(s, <<>>)
    BY <1>1, <1>2, <2>5, AccountsStay
  <2>7. PICK t : t = Flushed(u)
    OBVIOUS
  <2>8. /\ t \in Streams /\ SameOthers(t, u) /\ t.fed = u.fed /\ t.pevents = u.pevents
        /\ t.write_queue = <<>> /\ Accounts(t, <<>>, submitted, called)
        /\ Flight(t, <<>>) = Flight(u, <<>>)
    BY <1>1, <2>4, <2>6, <2>7, FlushedAccounts
  <2>9. t.active_reqs - t.connect_req - t.shutdown_req
          = s.active_reqs - s.connect_req - s.shutdown_req
    BY <2>3, <2>5, <2>8 DEF SameOthers
  <2>10. /\ s' \in Streams /\ SameOthers(s', t) /\ s'.fed = t.fed /\ s'.pevents = t.pevents
         /\ s'.write_queue = t.write_queue /\ s'.write_completed_queue = <<>>
         /\ pc' = "callbacks" /\ after' = "destroy"
         /\ StreamTypes' /\ Accounts(s', pq', submitted', called') /\ ReqsCounted'
    BY <1>2, <2>2, <2>6, <2>7, <2>8, <2>9, TakenKeep
  <2>11. /\ s'.fd = s.fd /\ s'.flags = s.flags \cup {"CLOSED"} /\ s'.connect_req = 0
         /\ s'.shutdown_req = s.shutdown_req /\ s'.pevents = s.pevents /\ s'.fed = s.fed
         /\ s'.write_queue = <<>>
    BY <2>5, <2>8, <2>10 DEF SameOthers
  <2>12. Closing' /\ Opened' /\ Shutting' /\ Told'
    BY <1>1, <1>2, <2>2, <2>10, <2>11
       DEF Control, Closing, Opened, Shutting, Told, Is
  <2>13. Connecting' /\ Reading' /\ SeenTo'
    BY <1>1, <1>2, <2>2, <2>10, <2>11 DEF Control, Closing, Connecting, Reading, SeenTo, Is
  <2> QED BY <2>10, <2>12, <2>13 DEF StreamInv, Control
<1> QED BY <1>3, <1>4, <1>5

\* The next write callback
LEMMA CallbackKeeps ==
  ASSUME StreamInv, CallbackNext
  PROVE  StreamInv'
<1>1. /\ StreamTypes /\ Accounts(s, pq, submitted, called) /\ ReqsCounted /\ Control
      /\ s \in Streams /\ pq \in Seq(Reqs) /\ called \in Seq(Reqs) /\ submitted \in Seq(Reqs)
  BY DEF StreamInv, StreamTypes
<1>2. /\ s' = CallsBack(s, Head(pq)) /\ pc = "callbacks" /\ pc' = "write_cb" /\ pq # <<>>
      /\ pq' = Tail(pq) /\ called' = Append(called, Head(pq)) /\ submitted' = submitted
      /\ revents' = revents /\ count' = count /\ after' = after /\ listening' = listening
  BY DEF CallbackNext, CallsBack
<1>3. PICK x, w : x = s' /\ w = Head(pq)
  OBVIOUS
<1>4. /\ x \in Streams /\ Accounts(x, Tail(pq), submitted, Append(called, w))
      /\ Len(Flight(x, Tail(pq))) = Len(Flight(s, pq)) - 1
  BY <1>1, <1>2, <1>3, CallbackAccounts
<1>5. /\ x.fd = s.fd /\ x.flags = s.flags /\ x.pevents = s.pevents /\ x.fed = s.fed
      /\ x.connect_req = s.connect_req /\ x.delayed_error = s.delayed_error
      /\ x.shutdown_req = s.shutdown_req /\ x.active_reqs = s.active_reqs - 1
      /\ x.write_queue = s.write_queue /\ x.write_completed_queue = s.write_completed_queue
  BY <1>1, <1>2, <1>3 DEF CallsBack, Streams
<1>6. ReqsCounted'
  <2>1. PICK a \in Int, b \in Int, c \in Int :
          a = s.active_reqs /\ b = s.connect_req /\ c = s.shutdown_req
    BY <1>1 DEF Streams
  <2>2. PICK n \in Nat : n = Len(Flight(s, pq))
    BY <1>1, FlightType
  <2>3. a = b + c + n
    BY <1>1, <2>1, <2>2 DEF ReqsCounted
  <2>4. a - 1 = b + c + (n - 1)
    BY <2>3
  <2>5. Len(Flight(s', pq')) = n - 1
    BY <1>2, <1>3, <1>4, <2>2
  <2> QED BY <1>3, <1>5, <2>1, <2>4, <2>5 DEF ReqsCounted
<1>7. Accounts(s', pq', submitted', called')
  BY <1>2, <1>3, <1>4
<1>8. StreamTypes'
  BY <1>1, <1>2, <1>3, <1>4 DEF StreamTypes, StreamPlaces
<1>9. Control'
  BY <1>1, <1>2, <1>3, <1>5 DEF Control, Closing, Opened, Shutting, Told, SeenTo, Is, Connecting,
     Reading
<1> QED BY <1>6, <1>7, <1>8, <1>9 DEF StreamInv

\* The ends of uv__write_callbacks(), uv__drain() and uv__stream_destroy()
LEMMA EndsKeep ==
  ASSUME StreamInv, WriteReturn \/ ShutdownReturn \/ CallbacksEnd \/ DestroyEnd
  PROVE  StreamInv'
<1>1. /\ StreamTypes /\ Control /\ s \in Streams /\ ReqsCounted
      /\ Accounts(s, pq, submitted, called)
  BY DEF StreamInv, StreamTypes
<1>2. /\ s.active_reqs \in Int /\ s.connect_req \in Int /\ s.shutdown_req \in Int
      /\ s.active_reqs - 1 \in Int /\ s.active_reqs - s.shutdown_req \in Int
  BY <1>1 DEF Streams
<1>3. CASE WriteReturn
  <2>1. /\ s' = s /\ pc = "write_cb" /\ pc' = "callbacks" /\ revents' = revents
        /\ count' = count /\ pq' = pq /\ after' = after /\ submitted' = submitted
        /\ called' = called /\ listening' = listening
    BY <1>3 DEF WriteReturn, stream_history
  <2>2. StreamTypes' /\ Accounts(s', pq', submitted', called') /\ ReqsCounted'
    BY <1>1, <2>1, SameRequestsKeep DEF SameRequests, StreamPlaces, StreamTypes
  <2>3. Control'
    BY <1>1, <2>1 DEF Control, Closing, Opened, Shutting, Told, SeenTo, Connecting, Reading, Is
  <2> QED BY <2>2, <2>3 DEF StreamInv
<1>4. CASE ShutdownReturn
  <2>1. /\ s' = s /\ pc = "shutdown_cb" /\ pc' = "run" /\ revents' = {}
        /\ count' = 0 /\ pq' = pq /\ after' = after /\ submitted' = submitted
        /\ called' = called /\ listening' = listening
    BY <1>4 DEF ShutdownReturn, Leave, stream_history
  <2>2. StreamTypes' /\ Accounts(s', pq', submitted', called') /\ ReqsCounted'
    BY <1>1, <2>1, SameRequestsKeep DEF SameRequests, StreamPlaces, StreamTypes
  <2>3. Control'
    BY <1>1, <2>1 DEF Control, Closing, Opened, Shutting, Told, SeenTo, Connecting, Reading, Is
  <2> QED BY <2>2, <2>3 DEF StreamInv
<1>5. CASE CallbacksEnd
  <2>1. /\ pc = "callbacks" /\ pq = <<>> /\ pq' = pq /\ after # "destroy" /\ after' = "none"
        /\ submitted' = submitted /\ called' = called /\ listening' = listening
    BY <1>5 DEF CallbacksEnd, stream_history
  <2>2. CASE after = "drain" /\ s.write_queue = <<>> /\ Is("SHUTTING") /\ ~Is("CLOSING")
             /\ ~Is("SHUT")
    <3>1. PICK fl : /\ s' = [s EXCEPT !.pevents = s.pevents \ {"out"}, !.shutdown_req = 0,
                                      !.active_reqs = s.active_reqs - 1, !.flags = fl]
                    /\ fl \in {s.flags \ {"SHUTTING"}, (s.flags \ {"SHUTTING"}) \cup {"SHUT"}}
                    /\ pc' = "shutdown_cb" /\ revents' = revents /\ count' = count
      <4>1. PICK ok \in BOOLEAN :
              s' = [s EXCEPT !.pevents = s.pevents \ {"out"}, !.shutdown_req = 0,
                             !.active_reqs = s.active_reqs - 1,
                             !.flags = (s.flags \ {"SHUTTING"}) \cup
                                       (IF ok THEN {"SHUT"} ELSE {})]
        BY <1>1, <1>5, <2>2 DEF CallbacksEnd, Streams
      <4>2. (s.flags \ {"SHUTTING"}) \cup {} = s.flags \ {"SHUTTING"}
        OBVIOUS
      <4>3. pc' = "shutdown_cb" /\ revents' = revents /\ count' = count
        BY <1>5, <2>2 DEF CallbacksEnd
      <4> QED BY <4>1, <4>2, <4>3
    <3>2. fl \in SUBSET StreamFlags /\ s.pevents \ {"out"} \in SUBSET {"in", "out"}
      BY <1>1, <3>1 DEF Streams, StreamFlags
    <3>3. /\ s' \in Streams /\ s'.fd = s.fd /\ s'.flags = fl /\ s'.fed = s.fed
          /\ s'.pevents = s.pevents \ {"out"} /\ s'.connect_req = s.connect_req
          /\ s'.shutdown_req = 0 /\ s'.active_reqs = s.active_reqs - 1
          /\ s'.delayed_error = s.delayed_error
          /\ s'.write_queue = s.write_queue /\ s'.write_completed_queue = s.write_completed_queue
          /\ s'.write_queue_size = s.write_queue_size /\ s'.left = s.left
          /\ s'.error = s.error /\ s'.bufs = s.bufs
      BY <1>1, <1>2, <3>1, <3>2 DEF Streams
    <3>4. s.shutdown_req = 1
      BY <1>1, <2>1, <2>2 DEF Control, Shutting
    <3>5. s'.active_reqs - s'.connect_req - s'.shutdown_req
            = s.active_reqs - s.connect_req - s.shutdown_req
      BY <1>2, <3>3, <3>4
    <3>6. StreamTypes' /\ Accounts(s', pq', submitted', called') /\ ReqsCounted'
      BY <1>1, <2>1, <3>1, <3>3, <3>5, SameRequestsKeep
         DEF SameRequests, StreamPlaces, StreamTypes
    <3>7. \A f \in {"CLOSING", "READING", "READABLE", "WRITABLE"} : f \in fl <=> f \in s.flags
      BY <3>1
    <3>8. "SHUTTING" \notin fl
      BY <3>1
    <3>9. Closing' /\ Opened' /\ Shutting' /\ Told'
      BY <1>1, <2>1, <2>2, <3>1, <3>3, <3>7, <3>8
         DEF Control, Closing, Opened, Shutting, Told, Is
    <3>10. Connecting' /\ Reading' /\ SeenTo'
      BY <1>1, <2>1, <2>2, <3>1, <3>3, <3>7
         DEF Control, Opened, Connecting, Reading, SeenTo, Is
    <3> QED BY <3>6, <3>9, <3>10 DEF StreamInv, Control
  <2>3. CASE ~(after = "drain" /\ s.write_queue = <<>> /\ Is("SHUTTING") /\ ~Is("CLOSING")
               /\ ~Is("SHUT"))
    <3>1. PICK ev : /\ s' = [s EXCEPT !.pevents = ev]
                    /\ pc' = "run" /\ revents' = {} /\ count' = 0
                    /\ \/ ev = s.pevents
                       \/ ev = s.pevents \ {"out"} /\ after = "drain" /\ s.write_queue = <<>>
      <4>1. pc' = "run" /\ revents' = {} /\ count' = 0
        BY <1>5, <2>3 DEF CallbacksEnd, Leave
      <4>2. CASE after = "drain" /\ s.write_queue = <<>>
        BY <1>5, <2>3, <4>2, <4>1 DEF CallbacksEnd
      <4>3. CASE ~(after = "drain" /\ s.write_queue = <<>>)
        BY <1>1, <1>5, <4>3, <4>1 DEF CallbacksEnd, Streams
      <4> QED BY <4>2, <4>3
    <3>2. ev \in SUBSET {"in", "out"} /\ ("in" \in ev <=> "in" \in s.pevents)
          /\ (s.pevents = {} => ev = {})
      BY <1>1, <3>1 DEF Streams
    <3>3. /\ s' \in Streams /\ s'.fd = s.fd /\ s'.flags = s.flags /\ s'.fed = s.fed
          /\ s'.pevents = ev /\ s'.connect_req = s.connect_req
          /\ s'.shutdown_req = s.shutdown_req /\ s'.active_reqs = s.active_reqs
          /\ s'.delayed_error = s.delayed_error
          /\ s'.write_queue = s.write_queue /\ s'.write_completed_queue = s.write_completed_queue
          /\ s'.write_queue_size = s.write_queue_size /\ s'.left = s.left
          /\ s'.error = s.error /\ s'.bufs = s.bufs
      BY <1>1, <3>1, <3>2 DEF Streams
    <3>4. StreamTypes' /\ Accounts(s', pq', submitted', called') /\ ReqsCounted'
      BY <1>1, <2>1, <3>1, <3>3, SameRequestsKeep DEF SameRequests, StreamPlaces, StreamTypes
    <3>5. Closing' /\ Opened' /\ Shutting' /\ Told'
      BY <1>1, <2>1, <3>1, <3>2, <3>3 DEF Control, Closing, Opened, Shutting, Told, Is
    <3>6. Connecting' /\ Reading' /\ SeenTo'
      BY <1>1, <2>1, <3>1, <3>2, <3>3
         DEF Control, Opened, Connecting, Reading, SeenTo, Is
    <3> QED BY <3>4, <3>5, <3>6 DEF StreamInv, Control
  <2> QED BY <2>2, <2>3
<1>6. CASE DestroyEnd
  <2>1. /\ s' = [s EXCEPT !.shutdown_req = 0, !.active_reqs = s.active_reqs - s.shutdown_req]
        /\ pc = "callbacks" /\ pq = <<>> /\ after = "destroy" /\ pc' = "closed"
        /\ after' = "none" /\ revents' = revents /\ count' = count /\ pq' = pq
        /\ submitted' = submitted /\ called' = called /\ listening' = listening
    BY <1>6 DEF DestroyEnd, stream_history
  <2>2. /\ s' \in Streams /\ s'.fd = s.fd /\ s'.flags = s.flags /\ s'.fed = s.fed
        /\ s'.pevents = s.pevents /\ s'.connect_req = s.connect_req
        /\ s'.shutdown_req = 0 /\ s'.active_reqs = s.active_reqs - s.shutdown_req
        /\ s'.delayed_error = s.delayed_error
        /\ s'.write_queue = s.write_queue /\ s'.write_completed_queue = s.write_completed_queue
        /\ s'.write_queue_size = s.write_queue_size /\ s'.left = s.left
        /\ s'.error = s.error /\ s'.bufs = s.bufs
    BY <1>1, <1>2, <2>1 DEF Streams
  <2>3. s'.active_reqs - s'.connect_req - s'.shutdown_req
          = s.active_reqs - s.connect_req - s.shutdown_req
    BY <1>2, <2>2
  <2>4. StreamTypes' /\ Accounts(s', pq', submitted', called') /\ ReqsCounted'
    BY <1>1, <2>1, <2>2, <2>3, SameRequestsKeep DEF SameRequests, StreamPlaces, StreamTypes
  <2>5. /\ "CLOSING" \in s.flags /\ s.connect_req = 0 /\ s.write_queue = <<>>
        /\ s.write_completed_queue = <<>>
    BY <1>1, <2>1 DEF Control, Told, Is
  <2>6. Flight(s, pq) = <<>>
    BY <2>1, <2>5, ConcatEmptySeq DEF Flight
  <2>7. s'.active_reqs = 0
    BY <1>1, <2>6, <1>2, <2>2, <2>5 DEF ReqsCounted
  <2>8. submitted = called
    BY <1>1, <2>6 DEF Accounts, StreamTypes
  <2>9. Control'
    BY <1>1, <2>1, <2>2, <2>5, <2>7, <2>8
       DEF Control, Closing, Opened, Shutting, Told, Connecting, Reading, SeenTo, Is
  <2> QED BY <2>4, <2>9 DEF StreamInv
<1> QED BY <1>3, <1>4, <1>5, <1>6

\* A new stream
LEMMA StreamStarts ==
  ASSUME StreamInit
  PROVE  StreamInv
<1>1. /\ s = Stream0 /\ pc = "run" /\ revents = {} /\ count = 0 /\ pq = <<>>
      /\ after = "none" /\ submitted = <<>> /\ called = <<>> /\ listening = 0
  BY DEF StreamInit
<1>2. /\ Size \in [Reqs -> Nat] /\ <<>> \in Seq(Reqs) /\ Seq(Reqs) = Seq(Reqs)
      /\ [w \in Reqs |-> "ok"] \in [Reqs -> Errors] /\ [w \in Reqs |-> 0] \in [Reqs -> {0, 1}]
  BY StreamAssumption DEF Reqs, Errors
<1>3. s \in Streams
  BY <1>1, <1>2 DEF Stream0, Streams
<1>4. StreamTypes
  BY <1>1, <1>2, <1>3 DEF StreamTypes, StreamPlaces
<1>5. /\ s.write_queue = <<>> /\ s.write_completed_queue = <<>> /\ s.write_queue_size = 0
      /\ s.left = Size /\ s.error = [w \in Reqs |-> "ok"]
      /\ s.fd = 0 /\ s.flags = {} /\ s.pevents = {} /\ s.fed = 0 /\ s.connect_req = 0
      /\ s.delayed_error = 0 /\ s.shutdown_req = 0 /\ s.active_reqs = 0
  BY <1>1 DEF Stream0
<1>6. Flight(s, pq) = <<>>
  BY <1>1, <1>5, ConcatEmptySeq DEF Flight
<1>7. Holds(s, <<>>) = <<>>
  <2>1. Holds(s, <<>>) \in Seq(Int) /\ Len(Holds(s, <<>>)) = 0
    BY <1>1, <1>2, <1>3, FlightType
  <2> QED BY <2>1
<1>8. Total(<<>>) = 0
  BY TotalType
<1>9. Accounts(s, pq, submitted, called)
  BY <1>1, <1>5, <1>6, <1>7, <1>8, EmptyList, ConcatEmptySeq DEF FateOf, Accounts
<1>10. ReqsCounted
  BY <1>5, <1>6 DEF ReqsCounted
<1>11. Control
  BY <1>1, <1>5 DEF Control, Closing, Opened, Shutting, Told, Connecting, Reading, SeenTo, Is
<1> QED BY <1>4, <1>9, <1>10, <1>11 DEF StreamInv

\* Every step keeps the invariant.
LEMMA StreamStep ==
  ASSUME StreamInv, [StreamNext]_stream_vars
  PROVE  StreamInv'
<1>1. CASE User
  BY <1>1, WriteKeeps, UserKeeps DEF User
<1>2. CASE Callbacks
  BY <1>2, TakingKeeps, ReadKeeps, EndsKeep DEF Callbacks
<1>3. CASE Io
  BY <1>3, ConnectKeeps, ReadKeeps, TakingKeeps, CallbackKeeps, EndsKeep DEF Io
<1>4. CASE StreamEvent \/ StreamFed
  BY <1>4, EventKeeps
<1>5. CASE StreamFinishClose
  BY <1>5, TakingKeeps
<1>6. CASE UNCHANGED stream_vars
  <2>1. /\ s' = s /\ pc' = pc /\ revents' = revents /\ count' = count /\ res' = res
        /\ pq' = pq /\ after' = after /\ submitted' = submitted /\ called' = called
        /\ listening' = listening
    BY <1>6 DEF stream_vars, local, stream_history
  <2> QED BY <2>1 DEF StreamInv, StreamTypes, ReqsCounted, Control, Closing, Opened, Connecting,
                      SeenTo, Reading, Shutting, Told, Is
<1> QED BY <1>1, <1>2, <1>3, <1>4, <1>5, <1>6 DEF StreamNext

\* The invariant holds in every state of a stream.
THEOREM StreamInvHolds == StreamSpec => []StreamInv
<1>1. StreamInit => StreamInv
  BY StreamStarts
<1>2. StreamInv /\ [StreamNext]_stream_vars => StreamInv'
  BY StreamStep
<1> QED BY <1>1, <1>2, PTL DEF StreamSpec

\* The count of the queued bytes, the loop's count of requests, the order and
\* the results of the write callbacks and the watcher that sees to the queue.
LEMMA StreamInvSound ==
  ASSUME StreamInv
  PROVE  StreamSound
<1>1. /\ StreamTypes /\ Accounts(s, pq, submitted, called) /\ ReqsCounted /\ Control
      /\ s \in Streams /\ pq \in Seq(Reqs) /\ called \in Seq(Reqs) /\ submitted \in Seq(Reqs)
  BY DEF StreamInv, StreamTypes
<1>2. InFlight = Flight(s, pq)
  BY DEF InFlight, Flight
<1>3. Holding = Holds(s, Flight(s, pq))
  BY <1>2 DEF Holding, Holds
<1>4. /\ called = SubSeq(submitted, 1, Len(called))
      /\ In(called) \cap In(Flight(s, pq)) = {} /\ In(s.write_queue) \subseteq In(Flight(s, pq))
      /\ In(submitted) = In(called) \cup In(Flight(s, pq))
  <2>1. PICK f : f = Flight(s, pq)
    OBVIOUS
  <2>2. /\ In(called) \cap In(f) = {} /\ In(s.write_queue) \subseteq In(f)
        /\ In(submitted) = In(called) \cup In(f)
    BY <1>1, <2>1, AccountsFacts
  <2>3. Begins(called, submitted)
    BY <1>1, AccountsFacts
  <2> QED BY <2>1, <2>2, <2>3 DEF Begins
<1>5. RequestsExact
  BY <1>1, <1>3, <1>2 DEF Accounts, ReqsCounted, Control, Told, RequestsExact
<1>6. WritesInOrder
  <2>1. ASSUME NEW w \in In(called), s.error[w] = "ok" PROVE s.left[w] = 0
    <3>1. w \in Reqs
      BY <1>1 DEF In
    <3>2. FateOf(s, w, submitted)
      BY <1>1, <3>1 DEF Accounts
    <3>3. w \in In(submitted) /\ w \notin In(s.write_queue)
      BY <1>4
    <3> QED BY <2>1, <3>2, <3>3 DEF FateOf
  <2> QED BY <1>4, <2>1 DEF WritesInOrder
<1>7. NotStranded
  BY <1>1 DEF Control, Connecting, SeenTo, Reading, NotStranded, Is
<1> QED BY <1>5, <1>6, <1>7 DEF StreamSound

\* The write, connect and shutdown requests of a stream keep their promises
\* (unix/stream.c).
THEOREM StreamSafe == StreamSpec => []StreamSound
<1>1. StreamInv => StreamSound
  BY StreamInvSound
<1> QED BY <1>1, StreamInvHolds, PTL

\* No read callback comes after the stop, the close, the error or the end that
\* the user knows of (uv__read() and uv__stream_io() look at the flags again).
THEOREM NoReadAfterStop == StreamSpec => ReadQuiet
<1>1. StreamInv /\ [StreamNext]_stream_vars
        => [pc' # pc /\ pc' \in {"read_cb", "eof_cb"} => listening = 1]_stream_vars
  <2> SUFFICES ASSUME StreamInv, StreamNext, pc' # pc, pc' \in {"read_cb", "eof_cb"}
               PROVE  listening = 1
    OBVIOUS
  <2>1. Reading
    BY DEF StreamInv, Control
  <2>2. CASE ReadNext
    BY <2>2, <2>1 DEF ReadNext, ReadMore, Is, Reading
  <2>3. CASE AfterRead
    BY <2>3, <2>1 DEF AfterRead, WriteOrLeave, Leave, HupEof, Reading, Is
  <2>4. CASE User
    BY <2>4 DEF User, uv__stream_open, uv__tcp_connect, PipeConnectFails, uv__read_start,
                ReadStop, uv_shutdown, uv__stream_close, uv_write2, local
  <2>5. CASE Callbacks
    BY <2>5 DEF Callbacks, ConnectReturn, ReadReturn, EofReturn, WriteReturn, ShutdownReturn,
                WriteOrLeave, Leave, WriteCallbacks
  <2>6. CASE StreamEvent \/ StreamFed
    BY <2>6 DEF StreamEvent, StreamFed, Enter
  <2>7. CASE StreamFinishClose \/ WritePart
    BY <2>7 DEF StreamFinishClose, WritePart, WriteCallbacks
  <2>8. CASE ConnectWait \/ ConnectDone \/ ReadEnd \/ CallbackNext \/ CallbacksEnd \/ DestroyEnd
    BY <2>8 DEF ConnectWait, ConnectDone, ReadEnd, CallbackNext, CallbacksEnd, DestroyEnd, Leave
  <2> QED BY <2>2, <2>3, <2>4, <2>5, <2>6, <2>7, <2>8 DEF StreamNext, Io
<1> QED BY <1>1, StreamInvHolds, PTL DEF StreamSpec, ReadQuiet

\* Both halves keep their promises.
THEOREM StreamsSafe == StreamSpec /\ ServerSpec => []StreamsSound
<1>1. StreamSound /\ ServerSound => StreamsSound
  BY DEF StreamsSound
<1> QED BY <1>1, StreamSafe, ServerSafe, PTL

-----------------------------------------------------------------------------
(* Signals and child processes.                                            *)

Message == [handle : Handles, signum : Signums]

HandlerStates ==
  [at : {"none", "called", "locked"}, signum : Signums \cup {None},
   todo : SUBSET Handles, wrote : Handles \cup {None}]

Stages == {"run", "event", "callback", "chld", "walk", "exit_cb"}

SignalTypes ==
  /\ life \in [Handles -> {"closed", "open", "closing"}]
  /\ signum \in [Handles -> Signums \cup {None}]
  /\ oneshot \in [Handles -> BOOLEAN] /\ armed \in [Handles -> BOOLEAN]
  /\ trapped \in [Handles -> Int]
  /\ disp \in [Signums -> {"dfl", "uv", "once"}]
  /\ raised \in SUBSET Signums
  /\ handler \in [Threads -> HandlerStates]
  /\ pipe \in [Loops -> Seq(Message)] /\ buf \in [Loops -> Seq(Message)]
  /\ stage \in [Loops -> Stages]

\* What a handler has in its hands is a handle that was started and stays so, because
\* the handler has the lock.
HandlerHolds ==
  /\ \A t \in Threads :
       /\ handler[t].at # "locked" => handler[t].todo = {} /\ handler[t].wrote = None
       /\ handler[t].at # "none" => handler[t].signum \in Signums
       /\ \A h \in Handles : h \in handler[t].todo \/ handler[t].wrote = h => signum[h] # None
  /\ \A h \in Handles : signum[h] # None => life[h] = "open"
  /\ IsFiniteSet({t \in Threads : handler[t].at # "none"})

\* Nobody but the child_watcher's own loop starts it, and always for SIGCHLD.
Watchers ==
  \A h \in Internal : life[h] = "open" /\ ~oneshot[h] /\ signum[h] \in {None, SIGCHLD}

\* A message stays in the pipe or the buffer of the loop of its handle, and the buffer
\* keeps the message a callback is about.
Busy ==
  \A l \in Loops :
    /\ \A i \in DOMAIN pipe[l] : LoopOf[pipe[l][i].handle] = l
    /\ \A i \in DOMAIN buf[l] : LoopOf[buf[l][i].handle] = l
    /\ stage[l] \notin {"run", "event"} => buf[l] # <<>>

\* A one-shot handle that was called since its start, and is still started, is the one
\* whose callback runs.
Spent ==
  \A h \in Handles :
    oneshot[h] /\ signum[h] # None /\ ~armed[h] =>
      stage[LoopOf[h]] \notin {"run", "event"} /\ Head(buf[LoopOf[h]]).handle = h

-----------------------------------------------------------------------------
(* CountersExact and HandlerInstalled as operators of the state, with      *)
(* numbers for the sets of messages and of handlers.                       *)

Msgs(p, b, h) ==
  {<<i, "pipe">> : i \in {j \in DOMAIN p : p[j].handle = h}}
    \cup {<<i, "buf">> : i \in {j \in DOMAIN b : b[j].handle = h}}

Uncounted(hd, h) == {t \in Threads : hd[t].wrote = h}

UnderWay(p, b, h) == Cardinality(Msgs(p[LoopOf[h]], b[LoopOf[h]], h))

Exact(lf, tr, hd, p, b, al) ==
  \A h \in Handles : LoopOf[h] \in al =>
    /\ tr[h] + Cardinality(Uncounted(hd, h)) = UnderWay(p, b, h)
    /\ lf[h] = "closed" => UnderWay(p, b, h) = 0 /\ Cardinality(Uncounted(hd, h)) = 0

TreeType(st) ==
  /\ st.signum \in [Handles -> Signums \cup {None}]
  /\ st.disp \in [Signums -> {"dfl", "uv", "once"}]

Installed(st, once) ==
  \A sn \in Signums :
    /\ (\E h \in Handles : st.signum[h] = sn /\ ~once[h]) => st.disp[sn] = "uv"
    /\ (\A h \in Handles : st.signum[h] # sn) => st.disp[sn] = "dfl"

SignalInv ==
  /\ SignalTypes /\ HandlerHolds /\ Watchers /\ Busy /\ Spent
  /\ Exact(life, trapped, handler, pipe, buf, alive) /\ Installed(Tree, oneshot)

ProcessTypes ==
  /\ proc \in [Procs -> {"none", "open", "closing"}]
  /\ child \in [Procs -> {"none", "running", "zombie", "reaped"}]
  /\ process_handles \in [Loops -> Seq(Procs)] /\ walk \in [Loops -> Seq(Procs)]
  /\ pending \in [Loops -> Seq(Procs)] /\ exits \in [Procs -> 0..1]

\* Where the children of a loop are
Listed(l) ==
  /\ NoDup(process_handles[l]) /\ NoDup(walk[l]) /\ NoDup(pending[l])
  /\ walk[l] # <<>> => stage[l] = "walk"
  /\ In(walk[l]) \subseteq In(process_handles[l])
  /\ \A p \in In(process_handles[l]) :
       p \in Procs /\ ProcLoop[p] = l /\ proc[p] = "open" /\ exits[p] = 0 /\ child[p] # "reaped"
  /\ \A p \in In(pending[l]) :
       p \in Procs /\ ProcLoop[p] = l /\ proc[p] = "open" /\ exits[p] = 0 /\ child[p] = "reaped"

Children ==
  /\ \A l \in Loops : Listed(l)
  /\ \A p \in Procs : proc[p] = "none" => exits[p] = 0

ProcessInv == SignalInv /\ ProcessTypes /\ Children

-----------------------------------------------------------------------------
(* The messages of a handle in a pipe p and a buffer b.                    *)

\* A message is in the pipe or in the buffer.
LEMMA MsgsMembers ==
  ASSUME NEW p, NEW b, NEW h
  PROVE  /\ \A i : <<i, "pipe">> \in Msgs(p, b, h) <=> i \in DOMAIN p /\ p[i].handle = h
         /\ \A i : <<i, "buf">> \in Msgs(p, b, h) <=> i \in DOMAIN b /\ b[i].handle = h
         /\ \A m \in Msgs(p, b, h) :
              \/ \E i \in DOMAIN p : m = <<i, "pipe">>
              \/ \E i \in DOMAIN b : m = <<i, "buf">>
  BY DEF Msgs

\* They are finitely many.
LEMMA MsgsFinite ==
  ASSUME NEW S, NEW p \in Seq(S), NEW b \in Seq(S), NEW h
  PROVE  IsFiniteSet(Msgs(p, b, h)) /\ Cardinality(Msgs(p, b, h)) \in Nat
  <1> DEFINE M == Msgs(p, b, h)
             T == 1..(Len(p) + Len(b))
             f == [m \in M |-> IF m[2] = "pipe" THEN m[1] ELSE Len(p) + m[1]]
  <1>1. /\ \A m \in M : \/ \E i \in DOMAIN p : m = <<i, "pipe">>
                        \/ \E i \in DOMAIN b : m = <<i, "buf">>
        /\ DOMAIN p = 1..Len(p) /\ Len(p) \in Nat
        /\ DOMAIN b = 1..Len(b) /\ Len(b) \in Nat
    BY MsgsMembers
  <1> HIDE DEF M
  <1>2. f \in [M -> T]
    BY <1>1
  <1>3. \A m, n \in M : f[m] = f[n] => m = n
    BY SMTT(30), <1>1
  <1>4. f \in Injection(M, T)
    BY <1>2, <1>3 DEF Injection, IsInjective
  <1>5. IsFiniteSet(T)
    BY <1>1, FS_Interval
  <1> HIDE DEF T, f
  <1>6. IsFiniteSet(M)
    BY <1>4, <1>5, FS_Injection
  <1> QED
    BY <1>6, FS_CardinalityType DEF M

\* write() of one message to the pipe
LEMMA MsgsWrite ==
  ASSUME NEW S, NEW p \in Seq(S), NEW b \in Seq(S), NEW h, NEW m \in S
  PROVE  Cardinality(Msgs(Append(p, m), b, h)) =
           Cardinality(Msgs(p, b, h)) + (IF m.handle = h THEN 1 ELSE 0)
  <1> DEFINE q == Append(p, m)
             x == <<Len(p) + 1, "pipe">>
  <1>1. /\ DOMAIN p = 1..Len(p) /\ Len(p) \in Nat /\ DOMAIN q = 1..(Len(p) + 1)
        /\ q[Len(p) + 1] = m /\ \A i \in DOMAIN p : q[i] = p[i]
    OBVIOUS
  <1>2. x \notin Msgs(p, b, h)
    BY <1>1, MsgsMembers
  <1>3. Msgs(q, b, h) = IF m.handle = h THEN Msgs(p, b, h) \cup {x} ELSE Msgs(p, b, h)
    <2>1. {j \in DOMAIN q : q[j].handle = h} =
            IF m.handle = h THEN {j \in DOMAIN p : p[j].handle = h} \cup {Len(p) + 1}
            ELSE {j \in DOMAIN p : p[j].handle = h}
      BY <1>1
    <2> HIDE DEF q
    <2> QED
      BY <2>1 DEF Msgs
  <1>4. IsFiniteSet(Msgs(p, b, h)) /\ Cardinality(Msgs(p, b, h)) \in Nat
    BY MsgsFinite
  <1>5. Cardinality(Msgs(p, b, h) \cup {x}) = Cardinality(Msgs(p, b, h)) + 1
    BY <1>2, <1>4, FS_AddElement
  <1> QED
    BY <1>3, <1>4, <1>5

\* What read() takes of the pipe, and what it leaves
LEMMA Halves ==
  ASSUME NEW S, NEW p \in Seq(S), NEW n \in 0..Len(p)
  PROVE  /\ \A i \in DOMAIN SubSeq(p, n + 1, Len(p)) :
              i + n \in DOMAIN p /\ SubSeq(p, n + 1, Len(p))[i] = p[i + n]
         /\ \A i \in DOMAIN SubSeq(p, 1, n) : i \in DOMAIN p /\ SubSeq(p, 1, n)[i] = p[i]
  OBVIOUS

\* read() of the first n messages into the empty buffer
LEMMA MsgsRead ==
  ASSUME NEW S, NEW p \in Seq(S), NEW h, NEW n \in 0..Len(p)
  PROVE  /\ SubSeq(p, n + 1, Len(p)) \in Seq(S) /\ SubSeq(p, 1, n) \in Seq(S)
         /\ Cardinality(Msgs(SubSeq(p, n + 1, Len(p)), SubSeq(p, 1, n), h)) =
              Cardinality(Msgs(p, <<>>, h))
  <1> DEFINE q == SubSeq(p, n + 1, Len(p))
             b == SubSeq(p, 1, n)
             M == Msgs(p, <<>>, h)
             N == Msgs(q, b, h)
             f == [m \in M |-> IF m[1] <= n THEN <<m[1], "buf">> ELSE <<m[1] - n, "pipe">>]
  <1>1. /\ q \in Seq(S) /\ b \in Seq(S)
        /\ Len(p) \in Nat /\ n \in Nat /\ n <= Len(p)
        /\ DOMAIN p = 1..Len(p) /\ DOMAIN q = 1..(Len(p) - n) /\ DOMAIN b = 1..n
        /\ \A i \in DOMAIN q : q[i] = p[i + n]
        /\ \A i \in DOMAIN b : b[i] = p[i]
    BY SMTT(30)
  <1>2. /\ \A i : <<i, "pipe">> \in M <=> i \in DOMAIN p /\ p[i].handle = h
        /\ \A m \in M : \E i \in DOMAIN p : m = <<i, "pipe">>
    BY MsgsMembers
  <1>4. IsFiniteSet(M)
    <2>1. <<>> \in Seq(S)
      OBVIOUS
    <2> QED
      BY <2>1, MsgsFinite
  <1> HIDE DEF M, q, b
  <1>3. /\ \A i : <<i, "pipe">> \in N <=> i \in DOMAIN q /\ q[i].handle = h
        /\ \A i : <<i, "buf">> \in N <=> i \in DOMAIN b /\ b[i].handle = h
        /\ \A m \in N : \/ \E i \in DOMAIN q : m = <<i, "pipe">>
                        \/ \E i \in DOMAIN b : m = <<i, "buf">>
    BY MsgsMembers
  <1> HIDE DEF N
  <1>5. \A m \in M : f[m] \in N
    <2> SUFFICES ASSUME NEW m \in M PROVE f[m] \in N
      OBVIOUS
    <2>1. PICK i \in DOMAIN p : m = <<i, "pipe">> /\ p[i].handle = h
      BY <1>2
    <2>2. CASE i <= n
      BY <1>1, <2>1, <2>2, <1>3
    <2>3. CASE ~(i <= n)
      <3>1. f[m] = <<i - n, "pipe">> /\ i - n \in DOMAIN q /\ (i - n) + n = i
        BY <1>1, <2>1, <2>3
      <3>2. q[i - n].handle = h
        BY <1>1, <2>1, <3>1
      <3> QED
        BY <1>3, <3>1, <3>2
    <2> QED
      BY <2>2, <2>3
  <1>6. \A m, k \in M : f[m] = f[k] => m = k
    <2> SUFFICES ASSUME NEW m \in M, NEW k \in M, f[m] = f[k] PROVE m = k
      OBVIOUS
    <2>1. PICK i \in DOMAIN p : m = <<i, "pipe">>
      BY <1>2
    <2>2. PICK j \in DOMAIN p : k = <<j, "pipe">>
      BY <1>2
    <2>3. /\ f[m] = IF i <= n THEN <<i, "buf">> ELSE <<i - n, "pipe">>
          /\ f[k] = IF j <= n THEN <<j, "buf">> ELSE <<j - n, "pipe">>
      BY <2>1, <2>2
    <2>4. i = j
      BY <1>1, <2>3
    <2> QED
      BY <2>1, <2>2, <2>4
  <1>7. \A m \in N : \E k \in M : f[k] = m
    <2> SUFFICES ASSUME NEW m \in N PROVE \E k \in M : f[k] = m
      OBVIOUS
    <2>1. CASE \E i \in DOMAIN b : m = <<i, "buf">>
      <3>1. PICK i \in DOMAIN b : m = <<i, "buf">> /\ b[i].handle = h
        BY <1>3, <2>1
      <3>2. <<i, "pipe">> \in M /\ i <= n
        BY <1>1, <1>2, <3>1
      <3> QED
        BY <3>1, <3>2
    <2>2. CASE \E i \in DOMAIN q : m = <<i, "pipe">>
      <3>1. PICK i \in DOMAIN q : m = <<i, "pipe">> /\ q[i].handle = h
        BY <1>3, <2>2
      <3>2. i + n \in DOMAIN p /\ p[i + n].handle = h /\ ~(i + n <= n) /\ (i + n) - n = i
        BY <1>1, <3>1
      <3>3. <<i + n, "pipe">> \in M
        BY <1>2, <3>2
      <3>4. f[<<i + n, "pipe">>] = <<i, "pipe">>
        BY <3>2, <3>3
      <3> QED
        BY <3>1, <3>3, <3>4
    <2> QED
      BY <1>3, <2>1, <2>2
  <1>8. f \in Bijection(M, N)
    BY <1>5, <1>6, <1>7 DEF Bijection, Injection, Surjection, IsInjective
  <1> HIDE DEF f
  <1>9. Cardinality(N) = Cardinality(M)
    BY <1>4, <1>8, FS_Bijection DEF ExistsBijection
  <1> QED
    BY <1>1, <1>9 DEF q, b, N, M

\* Removing an element that may not be there
LEMMA CardRemove ==
  ASSUME NEW S, IsFiniteSet(S), NEW x
  PROVE  Cardinality(S \ {x}) = Cardinality(S) - (IF x \in S THEN 1 ELSE 0)
  <1>1. Cardinality(S) \in Nat
    BY FS_CardinalityType
  <1>2. CASE x \in S
    BY <1>1, <1>2, FS_RemoveElement
  <1>3. CASE x \notin S
    <2>1. S \ {x} = S
      BY <1>3
    <2> HIDE <1>3
    <2>2. Cardinality(S \ {x}) = Cardinality(S)
      BY <2>1
    <2> QED
      BY <1>1, <1>3, <2>2
  <1> QED
    BY <1>2, <1>3

\* The first message of the buffer has been dealt with.
LEMMA MsgsTail ==
  ASSUME NEW S, NEW p \in Seq(S), NEW b \in Seq(S), NEW h, b # <<>>
  PROVE  /\ Tail(b) \in Seq(S)
         /\ Cardinality(Msgs(p, Tail(b), h)) =
              Cardinality(Msgs(p, b, h)) - (IF Head(b).handle = h THEN 1 ELSE 0)
  <1> DEFINE c == Tail(b)
             x == <<1, "buf">>
             M == Msgs(p, b, h) \ {x}
             N == Msgs(p, c, h)
             f == [m \in N |-> IF m[2] = "buf" THEN <<m[1] + 1, "buf">> ELSE m]
  <1>1. /\ c \in Seq(S) /\ Len(b) \in Nat \ {0}
        /\ DOMAIN b = 1..Len(b) /\ DOMAIN c = 1..(Len(b) - 1) /\ Head(b) = b[1]
        /\ \A i \in DOMAIN c : c[i] = b[i + 1]
    OBVIOUS
  <1>2. /\ \A i : <<i, "pipe">> \in M <=> i \in DOMAIN p /\ p[i].handle = h
        /\ \A i : <<i, "buf">> \in M <=> i \in DOMAIN b /\ b[i].handle = h /\ i # 1
        /\ \A m \in M : \/ \E i \in DOMAIN p : m = <<i, "pipe">>
                        \/ \E i \in DOMAIN b : m = <<i, "buf">>
    BY MsgsMembers
  <1>4. IsFiniteSet(N) /\ IsFiniteSet(Msgs(p, b, h)) /\ Cardinality(Msgs(p, b, h)) \in Nat
    BY <1>1, MsgsFinite
  <1>5. Cardinality(M) = Cardinality(Msgs(p, b, h)) - (IF Head(b).handle = h THEN 1 ELSE 0)
    <2>1. x \in Msgs(p, b, h) <=> Head(b).handle = h
      BY <1>1, MsgsMembers
    <2>2. Cardinality(M) = Cardinality(Msgs(p, b, h)) - (IF x \in Msgs(p, b, h) THEN 1 ELSE 0)
      BY <1>4, CardRemove
    <2> QED
      BY <2>1, <2>2
  <1> HIDE DEF c
  <1>3. /\ \A i : <<i, "pipe">> \in N <=> i \in DOMAIN p /\ p[i].handle = h
        /\ \A i : <<i, "buf">> \in N <=> i \in DOMAIN c /\ c[i].handle = h
        /\ \A m \in N : \/ \E i \in DOMAIN p : m = <<i, "pipe">>
                        \/ \E i \in DOMAIN c : m = <<i, "buf">>
    BY MsgsMembers
  <1> HIDE DEF M, N
  <1>6. \A m \in N : f[m] \in M
    BY <1>1, <1>2, <1>3
  <1>7. \A m, k \in N : f[m] = f[k] => m = k
    <2> SUFFICES ASSUME NEW m \in N, NEW k \in N, f[m] = f[k] PROVE m = k
      OBVIOUS
    <2>1. DOMAIN c \subseteq Nat
      BY <1>1
    <2>2. CASE (\E i \in DOMAIN c : m = <<i, "buf">>) /\ (\E i \in DOMAIN c : k = <<i, "buf">>)
      BY <2>2, <2>1
    <2> QED
      BY <1>3, <2>2
  <1>8. \A m \in M : \E k \in N : f[k] = m
    <2> SUFFICES ASSUME NEW m \in M PROVE \E k \in N : f[k] = m
      OBVIOUS
    <2>1. CASE \E i \in DOMAIN p : m = <<i, "pipe">>
      BY <1>2, <1>3, <2>1
    <2>2. CASE \E i \in DOMAIN b : m = <<i, "buf">>
      <3>1. PICK i \in DOMAIN b : m = <<i, "buf">> /\ b[i].handle = h /\ i # 1
        BY <1>2, <2>2
      <3>2. i - 1 \in DOMAIN c /\ c[i - 1].handle = h /\ (i - 1) + 1 = i
        BY <1>1, <3>1
      <3>3. <<i - 1, "buf">> \in N
        BY <1>3, <3>2
      <3>4. f[<<i - 1, "buf">>] = <<i, "buf">>
        BY <3>2, <3>3
      <3> QED
        BY <3>1, <3>3, <3>4
    <2> QED
      BY <1>2, <2>1, <2>2
  <1>9. f \in Bijection(N, M)
    BY <1>6, <1>7, <1>8 DEF Bijection, Injection, Surjection, IsInjective
  <1> HIDE DEF f
  <1>10. Cardinality(N) = Cardinality(M)
    BY <1>4, <1>9, FS_Bijection DEF ExistsBijection
  <1> QED
    BY <1>1, <1>5, <1>10 DEF c, N

-----------------------------------------------------------------------------
(* Numbers                                                                 *)

\* The handlers that are about to count for a handle are finitely many.
LEMMA UncountedFinite ==
  ASSUME SignalInv, NEW h \in Handles
  PROVE  IsFiniteSet(Uncounted(handler, h)) /\ Cardinality(Uncounted(handler, h)) \in Nat
BY SignalAssumption, FS_Subset, FS_CardinalityType DEF SignalInv, HandlerHolds, Uncounted

\* The messages of a handle are finitely many.
LEMMA UnderWayFinite ==
  ASSUME SignalInv, NEW h \in Handles
  PROVE  /\ IsFiniteSet(Msgs(pipe[LoopOf[h]], buf[LoopOf[h]], h))
         /\ UnderWay(pipe, buf, h) \in Nat
BY SignalAssumption, MsgsFinite DEF SignalInv, SignalTypes, UnderWay

\* The invariant says what the runs check of the counters and of the tree.
LEMMA SignalIsSound ==
  ASSUME SignalInv
  PROVE  SignalSound
  <1>1. CountersExact
    BY UnderWayFinite, UncountedFinite, FS_EmptySet DEF CountersExact, Uncounted, Messages, Msgs,
       SignalInv, Exact, UnderWay
  <1>2. HandlerInstalled
    BY DEF HandlerInstalled, SignalInv, Installed, Tree, Watching
  <1> QED
    BY <1>1, <1>2 DEF SignalSound

-----------------------------------------------------------------------------
(* The tree                                                                *)

\* uv__signal_stop() leaves a handler for the handles that remain.
LEMMA StoppedTree ==
  ASSUME NEW st, TreeType(st), Installed(st, oneshot), NEW h \in Handles
  PROVE  /\ TreeType(Stopped(st, h)) /\ Installed(Stopped(st, h), oneshot)
         /\ Stopped(st, h).signum = [st.signum EXCEPT ![h] = None]
  <1> DEFINE sn == st.signum[h]
             sg == [st.signum EXCEPT ![h] = None]
             W == {w \in Handles : sg[w] = sn}
             d == IF W = {} THEN "dfl" ELSE IF FirstIsOneshot(W) /\ ~oneshot[h] THEN "once" ELSE st.disp[sn]
             dp == [st.disp EXCEPT ![sn] = d]
  <1>1. CASE sn = None
    BY <1>1 DEF Stopped, TreeType
  <1>2. CASE sn # None
    <2>1. Stopped(st, h) = [signum |-> sg, disp |-> dp]
      BY <1>2 DEF Stopped
    <2>2. Stopped(st, h).signum = sg /\ Stopped(st, h).disp = dp
      BY <2>1
    <2>3. sn \in Signums /\ d \in {"dfl", "uv", "once"}
      BY <1>2 DEF TreeType
    <2>4. /\ sg \in [Handles -> Signums \cup {None}] /\ sg[h] = None
          /\ \A w \in Handles \ {h} : sg[w] = st.signum[w]
      BY DEF TreeType
    <2>5. /\ dp \in [Signums -> {"dfl", "uv", "once"}] /\ dp[sn] = d
          /\ \A r \in Signums \ {sn} : dp[r] = st.disp[r]
      BY <2>3 DEF TreeType
    <2>6. \A r \in Signums : r # None
      BY SignalAssumption
    <2> HIDE DEF sg, dp, d, W
    <2>7. ASSUME NEW r \in Signums, NEW w \in Handles, sg[w] = r, ~oneshot[w]
          PROVE  dp[r] = "uv"
      <3>1. w # h /\ st.signum[w] = r
        BY <2>4, <2>6, <2>7
      <3>2. st.disp[r] = "uv"
        BY <2>7, <3>1 DEF Installed
      <3>3. CASE r = sn
        BY <2>7, <3>3, <2>5, <3>2 DEF W, FirstIsOneshot, d
      <3> QED
        BY <2>5, <3>2, <3>3
    <2>8. ASSUME NEW r \in Signums, \A w \in Handles : sg[w] # r
          PROVE  dp[r] = "dfl"
      <3>1. CASE r = sn
        BY <2>8, <3>1, <2>5 DEF W, d
      <3>2. CASE r # sn
        BY <2>4, <2>8, <3>2, <2>5 DEF Installed
      <3> QED
        BY <3>1, <3>2
    <2>9. Installed(Stopped(st, h), oneshot)
      BY <2>2, <2>7, <2>8 DEF Installed
    <2>10. TreeType(Stopped(st, h))
      BY <2>2, <2>4, <2>5 DEF TreeType
    <2> QED
      BY <2>2, <2>9, <2>10 DEF sg
  <1> QED
    BY <1>1, <1>2

\* uv__signal_start() registers the handler the flag asks for.
LEMMA StartedTree ==
  ASSUME NEW st, TreeType(st), Installed(st, oneshot), oneshot \in [Handles -> BOOLEAN],
         NEW h \in Handles, st.signum[h] = None, NEW sn \in Signums, NEW once \in BOOLEAN,
         NEW fl, \A w \in Handles \ {h} : fl[w] = oneshot[w], ~fl[h] => ~once
  PROVE  /\ TreeType(Started(st, h, sn, once))
         /\ Installed(Started(st, h, sn, once), fl)
         /\ Started(st, h, sn, once).signum = [st.signum EXCEPT ![h] = sn]
  <1> DEFINE W == Watching(st, sn)
             register == W = {} \/ (~once /\ FirstIsOneshot(W))
             sg == [st.signum EXCEPT ![h] = sn]
             dp == IF register THEN [st.disp EXCEPT ![sn] = IF once THEN "once" ELSE "uv"]
                   ELSE st.disp
  <1>1. Started(st, h, sn, once) = [signum |-> sg, disp |-> dp]
    BY DEF Started
  <1>2. Started(st, h, sn, once).signum = sg /\ Started(st, h, sn, once).disp = dp
    BY <1>1
  <1>3. /\ sg \in [Handles -> Signums \cup {None}] /\ sg[h] = sn
        /\ \A w \in Handles \ {h} : sg[w] = st.signum[w]
    BY DEF TreeType
  <1>4. /\ dp \in [Signums -> {"dfl", "uv", "once"}]
        /\ dp[sn] = IF register THEN IF once THEN "once" ELSE "uv" ELSE st.disp[sn]
        /\ \A r \in Signums \ {sn} : dp[r] = st.disp[r]
    BY DEF TreeType
  <1>5. /\ \A w \in Handles \ {h} : fl[w] = oneshot[w]
        /\ ~fl[h] => ~once
    OBVIOUS
  <1> HIDE DEF sg, dp
  <1>6. ASSUME NEW r \in Signums, NEW w \in Handles, sg[w] = r, ~fl[w]
        PROVE  dp[r] = "uv"
    <2>1. CASE w = h
      <3>1. r = sn /\ ~once
        BY <1>3, <1>5, <1>6, <2>1
      <3>2. CASE register
        BY <1>4, <3>1, <3>2
      <3>3. CASE ~register
        BY <3>1, <3>3, <1>4 DEF FirstIsOneshot, Watching, Installed
      <3> QED
        BY <3>2, <3>3
    <2>2. CASE w # h
      <3>1. st.signum[w] = r /\ ~oneshot[w]
        BY <1>3, <1>5, <1>6, <2>2
      <3>2. st.disp[r] = "uv"
        BY <3>1 DEF Installed
      <3>3. CASE r = sn
        BY <3>1, <3>3, <1>4, <3>2 DEF Watching, FirstIsOneshot
      <3> QED
        BY <1>4, <3>2, <3>3
    <2> QED
      BY <2>1, <2>2
  <1>7. ASSUME NEW r \in Signums, \A w \in Handles : sg[w] # r
        PROVE  dp[r] = "dfl"
    BY <1>3, <1>7, <1>4, SignalAssumption DEF Installed
  <1>8. Installed(Started(st, h, sn, once), fl)
    BY <1>2, <1>6, <1>7 DEF Installed
  <1>9. TreeType(Started(st, h, sn, once))
    BY <1>2, <1>3, <1>4 DEF TreeType
  <1> QED
    BY <1>2, <1>8, <1>9 DEF sg

-----------------------------------------------------------------------------
(* The steps that change the tree                                          *)

\* No handler has anything in its hands while another thread has the lock.
LEMMA NothingHeld ==
  ASSUME SignalInv, LockFree
  PROVE  \A t \in Threads : handler[t].todo = {} /\ handler[t].wrote = None
  BY DEF SignalInv, HandlerHolds, LockFree

\* A step under the lock that touches only the tree, the flags and the handle itself
LEMMA LockedStep ==
  ASSUME SignalInv, LockFree, UNCHANGED <<trapped, handler, pipe, buf, stage, alive>>,
         raised' \in SUBSET Signums,
         life' \in [Handles -> {"closed", "open", "closing"}],
         \A h \in Handles : life'[h] = "closed" => life[h] = "closed",
         \A h \in Handles : signum'[h] # None => life'[h] = "open",
         TreeType(Tree'), Installed(Tree', oneshot'),
         oneshot' \in [Handles -> BOOLEAN], armed' \in [Handles -> BOOLEAN],
         \A h \in Internal : life'[h] = "open" /\ ~oneshot'[h] /\ signum'[h] \in {None, SIGCHLD},
         \A h \in Handles :
           oneshot'[h] /\ signum'[h] # None /\ ~armed'[h] =>
             oneshot[h] /\ signum[h] # None /\ ~armed[h]
  PROVE  SignalInv'
  <1>1. SignalTypes'
    BY DEF Tree, SignalInv, SignalTypes, TreeType
  <1>2. HandlerHolds'
    BY NothingHeld, SignalAssumption DEF SignalInv, HandlerHolds
  <1>3. Watchers'
    BY DEF Watchers
  <1>4. Busy'
    BY DEF SignalInv, Busy
  <1>5. Spent'
    BY DEF SignalInv, Spent
  <1>6. Exact(life', trapped', handler', pipe', buf', alive')
    BY DEF SignalInv, Exact
  <1> QED
    BY <1>1, <1>2, <1>3, <1>4, <1>5, <1>6 DEF SignalInv

\* uv_signal_init()
LEMMA InitStep ==
  ASSUME SignalInv, NEW h \in Handles \ Internal, uv_signal_init(h)
  PROVE  SignalInv'
  <1>1. /\ LoopOf[h] \in alive /\ life[h] = "closed" /\ signum[h] = None
        /\ signum' = signum /\ disp' = disp
    BY DEF uv_signal_init, UserCode, SignalInv, SignalTypes, HandlerHolds
  <1>2. trapped' = trapped
    BY <1>1 DEF SignalInv, Exact, SignalTypes, uv_signal_init
  <1>3. SignalTypes'
    BY <1>1, <1>2 DEF uv_signal_init, SignalInv, SignalTypes, kernel, reader, history
  <1>4. HandlerHolds'
    BY <1>1 DEF uv_signal_init, SignalInv, SignalTypes, HandlerHolds
  <1>5. Watchers'
    BY <1>1 DEF uv_signal_init, SignalInv, SignalTypes, Watchers
  <1>6. Busy'
    BY DEF uv_signal_init, SignalInv, Busy, reader
  <1>7. Spent'
    BY <1>1 DEF uv_signal_init, SignalInv, SignalTypes, Spent, reader, history
  <1>8. Exact(life', trapped', handler', pipe', buf', alive')
    BY <1>1, <1>2 DEF uv_signal_init, SignalInv, SignalTypes, Exact, reader
  <1>9. Installed(Tree', oneshot')
    BY <1>1, SignalAssumption DEF Tree, uv_signal_init, SignalInv, SignalTypes, Installed
  <1> QED
    BY <1>3, <1>4, <1>5, <1>6, <1>7, <1>8, <1>9 DEF SignalInv

\* The tree of a state is well typed and keeps the handlers.
LEMMA TreeSound ==
  ASSUME SignalInv
  PROVE  TreeType(Tree) /\ Installed(Tree, oneshot) /\ Tree.signum = signum /\ Tree.disp = disp
  BY DEF SignalInv, SignalTypes, TreeType, Tree

\* What SetTree() assigns
LEMMA SetTreeIs ==
  ASSUME NEW st, SetTree(st), TreeType(st), NEW once, Installed(st, once)
  PROVE  /\ TreeType(Tree') /\ Installed(Tree', once)
         /\ signum' = st.signum /\ disp' = st.disp
BY DEF SetTree, Tree, TreeType, Installed

\* uv_signal_stop()
LEMMA StopStep ==
  ASSUME SignalInv, NEW h \in Handles \ Internal, uv_signal_stop(h)
  PROVE  SignalInv'
  <1>1. SetTree(Stopped(Tree, h)) /\ LockFree
    BY DEF uv_signal_stop
  <1>2. /\ TreeType(Stopped(Tree, h)) /\ Installed(Stopped(Tree, h), oneshot)
        /\ Stopped(Tree, h).signum = [signum EXCEPT ![h] = None]
    BY TreeSound, StoppedTree
  <1>3. /\ TreeType(Tree') /\ Installed(Tree', oneshot)
        /\ signum' = [signum EXCEPT ![h] = None]
    BY <1>1, <1>2, SetTreeIs
  <1>4. UNCHANGED <<life, oneshot, trapped, raised, handler, pipe, buf, stage, alive>>
    BY DEF uv_signal_stop, kernel, reader
  <1>5. armed' \in [Handles -> BOOLEAN] /\ \A g \in Handles \ {h} : armed'[g] = armed[g]
    BY DEF uv_signal_stop, SignalInv, SignalTypes
  <1>6. signum'[h] = None /\ \A g \in Handles \ {h} : signum'[g] = signum[g]
    BY <1>3 DEF SignalInv, SignalTypes
  <1>7. /\ raised' \in SUBSET Signums /\ life' \in [Handles -> {"closed", "open", "closing"}]
        /\ oneshot' \in [Handles -> BOOLEAN]
    BY <1>4, <1>5 DEF SignalInv, SignalTypes
  <1>8. /\ \A g \in Handles : life'[g] = "closed" => life[g] = "closed"
        /\ \A g \in Handles : signum'[g] # None => life'[g] = "open"
    BY <1>4, <1>5, <1>6 DEF SignalInv, HandlerHolds
  <1>9. \A g \in Internal : life'[g] = "open" /\ ~oneshot'[g] /\ signum'[g] \in {None, SIGCHLD}
    BY <1>4, <1>5, <1>6, SignalAssumption DEF SignalInv, Watchers
  <1>10. \A g \in Handles :
           oneshot'[g] /\ signum'[g] # None /\ ~armed'[g] =>
             oneshot[g] /\ signum[g] # None /\ ~armed[g]
    BY <1>4, <1>5, <1>6
  <1> QED
    BY <1>1, <1>3, <1>4, <1>5, <1>7, <1>8, <1>9, <1>10, LockedStep

\* uv_close() of a signal handle
LEMMA CloseStep ==
  ASSUME SignalInv, NEW h \in Handles \ Internal, uv__signal_close(h)
  PROVE  SignalInv'
  <1>1. SetTree(Stopped(Tree, h)) /\ LockFree
    BY DEF uv__signal_close
  <1>2. /\ TreeType(Stopped(Tree, h)) /\ Installed(Stopped(Tree, h), oneshot)
        /\ Stopped(Tree, h).signum = [signum EXCEPT ![h] = None]
    BY TreeSound, StoppedTree
  <1>3. /\ TreeType(Tree') /\ Installed(Tree', oneshot)
        /\ signum' = [signum EXCEPT ![h] = None]
    BY <1>1, <1>2, SetTreeIs
  <1>4. UNCHANGED <<oneshot, trapped, raised, handler, pipe, buf, stage, alive>>
    BY DEF uv__signal_close, kernel, reader
  <1>5. /\ armed' \in [Handles -> BOOLEAN] /\ \A g \in Handles \ {h} : armed'[g] = armed[g]
        /\ life' \in [Handles -> {"closed", "open", "closing"}] /\ life'[h] = "closing"
        /\ \A g \in Handles \ {h} : life'[g] = life[g]
    BY DEF uv__signal_close, SignalInv, SignalTypes
  <1>6. signum'[h] = None /\ \A g \in Handles \ {h} : signum'[g] = signum[g]
    BY <1>3 DEF SignalInv, SignalTypes
  <1>7. /\ raised' \in SUBSET Signums /\ life' \in [Handles -> {"closed", "open", "closing"}]
        /\ oneshot' \in [Handles -> BOOLEAN]
    BY <1>4, <1>5 DEF SignalInv, SignalTypes
  <1>8. /\ \A g \in Handles : life'[g] = "closed" => life[g] = "closed"
        /\ \A g \in Handles : signum'[g] # None => life'[g] = "open"
    BY <1>4, <1>5, <1>6 DEF SignalInv, HandlerHolds
  <1>9. \A g \in Internal : life'[g] = "open" /\ ~oneshot'[g] /\ signum'[g] \in {None, SIGCHLD}
    BY <1>4, <1>5, <1>6, SignalAssumption DEF SignalInv, Watchers
  <1>10. \A g \in Handles :
           oneshot'[g] /\ signum'[g] # None /\ ~armed'[g] =>
             oneshot[g] /\ signum[g] # None /\ ~armed[g]
    BY <1>4, <1>5, <1>6
  <1> QED
    BY <1>1, <1>3, <1>4, <1>5, <1>7, <1>8, <1>9, <1>10, LockedStep

\* uv_signal_start() and uv_signal_start_oneshot()
LEMMA StartStep ==
  ASSUME SignalInv, NEW h \in Handles \ Internal, NEW sn \in Signums, NEW once \in BOOLEAN,
         uv__signal_start(h, sn, once)
  PROVE  SignalInv'
  <1>0. PICK st : st = Stopped(Tree, h)
    OBVIOUS
  <1>1. LockFree /\ life[h] = "open"
    BY DEF uv__signal_start
  <1>2. /\ TreeType(st) /\ Installed(st, oneshot)
        /\ st.signum = [signum EXCEPT ![h] = None]
    BY <1>0, TreeSound, StoppedTree
  <1>3. UNCHANGED <<life, trapped, raised, handler, pipe, buf, stage, alive>>
    BY DEF uv__signal_start, kernel, reader
  <1>4. oneshot \in [Handles -> BOOLEAN] /\ armed \in [Handles -> BOOLEAN]
        /\ signum \in [Handles -> Signums \cup {None}]
        /\ life \in [Handles -> {"closed", "open", "closing"}] /\ raised \in SUBSET Signums
    BY DEF SignalInv, SignalTypes
  <1>5. CASE sn \in Uncatchable
    <2>1. SetTree(st) /\ UNCHANGED <<oneshot, armed>>
      BY <1>0, <1>5 DEF uv__signal_start
    <2>2. /\ TreeType(Tree') /\ Installed(Tree', oneshot)
          /\ signum' = [signum EXCEPT ![h] = None]
      BY <1>2, <2>1, SetTreeIs
    <2>3. signum'[h] = None /\ \A g \in Handles \ {h} : signum'[g] = signum[g]
      BY <1>4, <2>2
    <2> QED
      BY <1>1, <1>3, <1>4, <2>1, <2>2, <2>3, LockedStep DEF SignalInv, HandlerHolds, Watchers
  <1>6. CASE sn \notin Uncatchable
    <2>1. /\ SetTree(Started(st, h, sn, once))
          /\ oneshot' = [oneshot EXCEPT ![h] = @ \/ once]
          /\ armed' = [armed EXCEPT ![h] = TRUE]
      BY <1>0, <1>6 DEF uv__signal_start
    <2>2. st.signum[h] = None
      BY <1>2, <1>4
    <2>3. /\ oneshot' \in [Handles -> BOOLEAN]
          /\ \A g \in Handles \ {h} : oneshot'[g] = oneshot[g]
          /\ ~oneshot'[h] => ~once
      BY <1>4, <2>1
    <2>4. /\ TreeType(Started(st, h, sn, once)) /\ Installed(Started(st, h, sn, once), oneshot')
          /\ Started(st, h, sn, once).signum = [st.signum EXCEPT ![h] = sn]
      <3>1. TreeType(st) /\ Installed(st, oneshot) /\ oneshot \in [Handles -> BOOLEAN]
        BY <1>2, <1>4
      <3>2. \A w \in Handles \ {h} : oneshot'[w] = oneshot[w]
        BY <2>3
      <3>3. ~oneshot'[h] => ~once
        BY <2>3
      <3> QED
        BY <2>2, <3>1, <3>2, <3>3, StartedTree
    <2>5. /\ TreeType(Tree') /\ Installed(Tree', oneshot')
          /\ signum' = [st.signum EXCEPT ![h] = sn]
      BY <2>1, <2>4, SetTreeIs
    <2>6. signum'[h] = sn /\ \A g \in Handles \ {h} : signum'[g] = signum[g]
      BY <1>2, <1>4, <2>5
    <2>7. /\ armed' \in [Handles -> BOOLEAN] /\ armed'[h] = TRUE
          /\ \A g \in Handles \ {h} : armed'[g] = armed[g]
      BY <1>4, <2>1
    <2>8. /\ \A g \in Handles : life'[g] = "closed" => life[g] = "closed"
          /\ \A g \in Handles : signum'[g] # None => life'[g] = "open"
      BY <1>1, <1>3, <2>6 DEF SignalInv, HandlerHolds
    <2>9. \A g \in Internal : life'[g] = "open" /\ ~oneshot'[g] /\ signum'[g] \in {None, SIGCHLD}
      BY <1>3, <2>3, <2>6, SignalAssumption DEF SignalInv, Watchers
    <2>10. \A g \in Handles :
             oneshot'[g] /\ signum'[g] # None /\ ~armed'[g] =>
               oneshot[g] /\ signum[g] # None /\ ~armed[g]
      BY <2>3, <2>6, <2>7
    <2> QED
      BY <1>1, <1>3, <1>4, <2>3, <2>5, <2>7, <2>8, <2>9, <2>10, LockedStep
  <1> QED
    BY <1>5, <1>6

-----------------------------------------------------------------------------
(* The steps of the kernel and of the handler                              *)

\* A step that leaves everything as it is, but for the signals sent and for the stage of
\* loops that are in a callback
LEMMA StageStep ==
  ASSUME SignalInv,
         UNCHANGED <<life, signum, disp, oneshot, trapped, handler, pipe, buf, alive, armed>>,
         raised' \in SUBSET Signums, stage' \in [Loops -> Stages],
         \A l \in Loops : stage'[l] = stage[l] \/
           (stage[l] \notin {"run", "event"} /\ stage'[l] \notin {"run", "event"})
  PROVE  SignalInv'
  <1>1. SignalTypes'
    BY DEF SignalInv, SignalTypes
  <1>2. HandlerHolds'
    BY DEF SignalInv, HandlerHolds
  <1>3. Watchers'
    BY DEF SignalInv, Watchers
  <1>4. Busy'
    BY DEF SignalInv, Busy
  <1>5. Spent'
    BY SignalAssumption DEF SignalInv, Spent
  <1>6. Exact(life', trapped', handler', pipe', buf', alive') /\ Installed(Tree', oneshot')
    BY DEF SignalInv, Tree
  <1> QED
    BY <1>1, <1>2, <1>3, <1>4, <1>5, <1>6 DEF SignalInv

\* The handler of one thread goes on.
LEMMA HandlerHeld ==
  ASSUME SignalInv, NEW t \in Threads, NEW r \in HandlerStates,
         handler' = [handler EXCEPT ![t] = r], signum' = signum, life' = life,
         r.at # "locked" => r.todo = {} /\ r.wrote = None,
         r.at # "none" => r.signum \in Signums,
         \A h \in Handles : h \in r.todo \/ r.wrote = h => signum[h] # None
  PROVE  handler' \in [Threads -> HandlerStates] /\ HandlerHolds'
  <1>1. handler' \in [Threads -> HandlerStates]
    BY DEF SignalInv, SignalTypes
  <1>2. handler'[t] = r /\ \A u \in Threads \ {t} : handler'[u] = handler[u]
    BY DEF SignalInv, SignalTypes
  <1>3. IsFiniteSet({u \in Threads : handler'[u].at # "none"})
    BY <1>2, FS_AddElement, FS_Subset DEF SignalInv, HandlerHolds
  <1>4. \A u \in Threads :
          /\ handler'[u].at # "locked" => handler'[u].todo = {} /\ handler'[u].wrote = None
          /\ handler'[u].at # "none" => handler'[u].signum \in Signums
          /\ \A h \in Handles :
               h \in handler'[u].todo \/ handler'[u].wrote = h => signum[h] # None
    BY <1>2 DEF SignalInv, HandlerHolds
  <1> QED
    BY <1>1, <1>3, <1>4 DEF SignalInv, HandlerHolds

\* A step that writes and counts no message, whatever it does with the handlers
LEMMA SameCounts ==
  ASSUME SignalInv, UNCHANGED <<life, trapped, pipe, buf, alive>>,
         \A u \in Threads : handler'[u].wrote = handler[u].wrote
  PROVE  Exact(life', trapped', handler', pipe', buf', alive')
BY DEF Uncounted, SignalInv, Exact

\* kill()
LEMMA RaiseStep ==
  ASSUME SignalInv, NEW sn \in Signums, Raise(sn)
  PROVE  SignalInv'
  BY StageStep DEF Raise, SignalInv, SignalTypes, tree, reader, history

\* A thread is interrupted.
LEMMA DeliverStep ==
  ASSUME SignalInv, NEW t \in Threads, NEW sn \in Signums, Deliver(t, sn)
  PROVE  SignalInv'
  <1> DEFINE c == handler[t]
  <1>1. /\ handler \in [Threads -> HandlerStates] /\ handler[t] \in HandlerStates
        /\ handler[t].at = "none" /\ handler[t].todo = {} /\ handler[t].wrote = None
    BY DEF Deliver, SignalInv, SignalTypes, HandlerHolds
  <1>2. UNCHANGED <<life, signum, oneshot, trapped, pipe, buf, stage, alive, armed>>
    BY DEF Deliver, reader, history
  <1>3. PICK r \in HandlerStates :
          /\ handler' = [handler EXCEPT ![t] = r]
          /\ r.at \in {"none", "called"} /\ r.todo = {} /\ r.wrote = None
          /\ r.at # "none" => r.signum \in Signums
    <2>1. CASE disp[sn] = "dfl"
      BY <1>1, <2>1 DEF Deliver
    <2>2. CASE disp[sn] # "dfl"
      <3>1. PICK r : r = [handler[t] EXCEPT !.at = "called", !.signum = sn]
        OBVIOUS
      <3>2. r \in HandlerStates
        BY <1>1, <3>1 DEF HandlerStates
      <3>3. r.at = "called" /\ r.signum = sn /\ r.todo = {} /\ r.wrote = None
        BY <1>1, <3>1 DEF HandlerStates
      <3>4. handler' = [handler EXCEPT ![t] = r]
        BY <1>1, <2>2, <3>1 DEF Deliver
      <3> QED
        BY <3>2, <3>3, <3>4
    <2> QED
      BY <2>1, <2>2
  <1>4. \A h \in Handles : h # None
    BY SignalAssumption
  <1>5. handler' \in [Threads -> HandlerStates] /\ HandlerHolds'
    BY <1>2, <1>3, <1>4, HandlerHeld
  <1>6. \A u \in Threads : handler'[u].wrote = handler[u].wrote
    BY <1>1, <1>3
  <1>7. Exact(life', trapped', handler', pipe', buf', alive')
    BY <1>2, <1>6, SameCounts
  <1>8. /\ disp' \in [Signums -> {"dfl", "uv", "once"}]
        /\ \A r1 \in Signums : disp'[r1] = disp[r1] \/ (disp[r1] = "once" /\ disp'[r1] = "dfl")
    BY DEF Deliver, SignalInv, SignalTypes
  <1>9. SignalTypes'
    BY <1>2, <1>5, <1>8 DEF Deliver, SignalInv, SignalTypes
  <1>10. Watchers' /\ Busy' /\ Spent'
    BY <1>2 DEF SignalInv, Watchers, Busy, Spent
  <1>11. Installed(Tree', oneshot')
    BY <1>2, <1>8 DEF Tree, SignalInv, Installed
  <1> QED
    BY <1>5, <1>7, <1>9, <1>10, <1>11 DEF SignalInv

\* uv__signal_handler() takes the lock.
LEMMA LockStep ==
  ASSUME SignalInv, NEW t \in Threads, HandlerLock(t)
  PROVE  SignalInv'
  <1>1. /\ handler \in [Threads -> HandlerStates] /\ handler[t] \in HandlerStates
        /\ handler[t].at = "called" /\ handler[t].signum \in Signums
        /\ handler[t].wrote = None
    BY DEF HandlerLock, SignalInv, SignalTypes, HandlerHolds
  <1>2. UNCHANGED <<life, signum, disp, oneshot, trapped, raised, pipe, buf, stage, alive, armed>>
    BY DEF HandlerLock, tree, kernel, reader, history
  <1>3. PICK r : r = [handler[t] EXCEPT !.at = "locked", !.todo = Watching(Tree, handler[t].signum)]
    OBVIOUS
  <1>4. handler' = [handler EXCEPT ![t] = r]
    BY <1>1, <1>3 DEF HandlerLock
  <1>5. Watching(Tree, handler[t].signum) = {h \in Handles : signum[h] = handler[t].signum}
    BY DEF Watching, Tree
  <1>6. /\ r.at = "locked" /\ r.signum = handler[t].signum /\ r.wrote = None
        /\ r.todo = {h \in Handles : signum[h] = handler[t].signum}
    BY <1>1, <1>3, <1>5 DEF HandlerStates
  <1>7. r \in HandlerStates
    BY <1>1, <1>3, <1>5 DEF HandlerStates
  <1>8. handler' \in [Threads -> HandlerStates] /\ HandlerHolds'
    <2>1. \A h \in Handles : h \in r.todo \/ r.wrote = h => signum[h] # None
      BY <1>1, <1>6, SignalAssumption
    <2>2. signum' = signum /\ life' = life
      BY <1>2
    <2> QED
      BY <1>1, <1>4, <1>6, <1>7, <2>1, <2>2, HandlerHeld
  <1>9. \A u \in Threads : handler'[u].wrote = handler[u].wrote
    BY <1>1, <1>4, <1>6
  <1>10. Exact(life', trapped', handler', pipe', buf', alive')
    BY <1>2, <1>9, SameCounts
  <1>11. SignalTypes'
    BY <1>2, <1>8 DEF SignalInv, SignalTypes
  <1>12. Watchers' /\ Busy' /\ Spent' /\ Installed(Tree', oneshot')
    BY <1>2 DEF SignalInv, Watchers, Busy, Spent, Tree
  <1> QED
    BY <1>8, <1>10, <1>11, <1>12 DEF SignalInv

\* It returns.
LEMMA UnlockStep ==
  ASSUME SignalInv, NEW t \in Threads, HandlerUnlock(t)
  PROVE  SignalInv'
  <1>1. /\ handler \in [Threads -> HandlerStates]
        /\ handler[t].wrote = None /\ handler' = [handler EXCEPT ![t] = NoHandler]
    BY DEF HandlerUnlock, SignalInv, SignalTypes
  <1>2. UNCHANGED <<life, signum, disp, oneshot, trapped, raised, pipe, buf, stage, alive, armed>>
    BY DEF HandlerUnlock, tree, kernel, reader, history
  <1>3. /\ NoHandler \in HandlerStates /\ NoHandler.at = "none"
        /\ NoHandler.todo = {} /\ NoHandler.wrote = None
    BY DEF NoHandler, HandlerStates
  <1>4. \A h \in Handles : h # None
    BY SignalAssumption
  <1>5. handler' \in [Threads -> HandlerStates] /\ HandlerHolds'
    BY <1>1, <1>2, <1>3, <1>4, HandlerHeld
  <1>6. \A u \in Threads : handler'[u].wrote = handler[u].wrote
    BY <1>1, <1>3
  <1>7. Exact(life', trapped', handler', pipe', buf', alive')
    BY <1>2, <1>6, SameCounts
  <1>8. SignalTypes'
    BY <1>2, <1>5 DEF SignalInv, SignalTypes
  <1>9. Watchers' /\ Busy' /\ Spent' /\ Installed(Tree', oneshot')
    BY <1>2 DEF SignalInv, Watchers, Busy, Spent, Tree
  <1> QED
    BY <1>5, <1>7, <1>8, <1>9 DEF SignalInv

\* What write() leaves in the pipe
LEMMA WriteCounts ==
  ASSUME SignalInv, NEW h \in Handles, NEW m \in Message, m.handle = h,
         pipe' = [pipe EXCEPT ![LoopOf[h]] = Append(@, m)], buf' = buf
  PROVE  /\ pipe' \in [Loops -> Seq(Message)]
         /\ \A g \in Handles :
              UnderWay(pipe', buf', g) = UnderWay(pipe, buf, g) + (IF g = h THEN 1 ELSE 0)
  <1>1. /\ pipe \in [Loops -> Seq(Message)] /\ buf \in [Loops -> Seq(Message)]
        /\ LoopOf[h] \in Loops
    BY SignalAssumption DEF SignalInv, SignalTypes
  <1>2. Append(pipe[LoopOf[h]], m) \in Seq(Message)
    BY <1>1
  <1>3. pipe' \in [Loops -> Seq(Message)]
    BY <1>1, <1>2
  <1>4. /\ pipe'[LoopOf[h]] = Append(pipe[LoopOf[h]], m)
        /\ \A l \in Loops \ {LoopOf[h]} : pipe'[l] = pipe[l]
    BY <1>1
  <1>5. ASSUME NEW g \in Handles
        PROVE  UnderWay(pipe', buf', g) = UnderWay(pipe, buf, g) + (IF g = h THEN 1 ELSE 0)
    <2>1. LoopOf[g] \in Loops /\ UnderWay(pipe, buf, g) \in Nat
      BY SignalAssumption, UnderWayFinite
    <2>2. CASE LoopOf[g] = LoopOf[h]
      BY <1>1, <2>1, <1>4, <2>2, MsgsWrite DEF UnderWay
    <2>3. CASE LoopOf[g] # LoopOf[h]
      BY <1>4, <2>1, <2>3 DEF UnderWay
    <2> QED
      BY <2>2, <2>3
  <1> QED
    BY <1>3, <1>5

\* The handler writes a message, or drops it.
LEMMA WriteStep ==
  ASSUME SignalInv, NEW t \in Threads, NEW h \in Handles, HandlerWrite(t, h)
  PROVE  SignalInv'
  <1> DEFINE room == Len(pipe[LoopOf[h]]) < PipeSize
  <1>1. /\ handler \in [Threads -> HandlerStates] /\ handler[t] \in HandlerStates
        /\ handler[t].at = "locked" /\ handler[t].signum \in Signums
        /\ handler[t].wrote = None /\ h \in handler[t].todo
    BY DEF HandlerWrite, SignalInv, SignalTypes, HandlerHolds
  <1>2. UNCHANGED <<life, signum, disp, oneshot, trapped, raised, buf, stage, alive, armed>>
    BY DEF HandlerWrite, tree, kernel, reader
  <1>3. signum[h] # None /\ life[h] = "open" /\ h # None
    BY <1>1, SignalAssumption DEF SignalInv, HandlerHolds
  <1>4. PICK r : r = [handler[t] EXCEPT !.todo = @ \ {h}, !.wrote = IF room THEN h ELSE None]
    OBVIOUS
  <1>5. handler' = [handler EXCEPT ![t] = r]
    BY <1>1, <1>4 DEF HandlerWrite
  <1>6. /\ r.at = "locked" /\ r.signum = handler[t].signum /\ r.todo = handler[t].todo \ {h}
        /\ r.wrote = IF room THEN h ELSE None
    BY <1>1, <1>4 DEF HandlerStates
  <1>7. r \in HandlerStates
    BY <1>1, <1>4 DEF HandlerStates
  <1>8. handler' \in [Threads -> HandlerStates] /\ HandlerHolds'
    BY <1>1, <1>3, <1>6, <1>2, <1>5, <1>7, SignalAssumption, HandlerHeld DEF SignalInv, HandlerHolds
  <1>9. handler'[t] = r /\ \A u \in Threads \ {t} : handler'[u] = handler[u]
    BY <1>1, <1>5
  <1>10. CASE room
    <2>1. PICK m \in Message : m.handle = h /\ pipe' = [pipe EXCEPT ![LoopOf[h]] = Append(@, m)]
      BY <1>1, <1>10 DEF Message, HandlerWrite
    <2>2. /\ pipe' \in [Loops -> Seq(Message)]
          /\ \A g \in Handles :
               UnderWay(pipe', buf', g) = UnderWay(pipe, buf, g) + (IF g = h THEN 1 ELSE 0)
      BY <1>2, <2>1, WriteCounts
    <2>3. ASSUME NEW g \in Handles
          PROVE  Cardinality(Uncounted(handler', g)) =
                   Cardinality(Uncounted(handler, g)) + (IF g = h THEN 1 ELSE 0)
      <3>1. IsFiniteSet(Uncounted(handler, g)) /\ Cardinality(Uncounted(handler, g)) \in Nat
        BY UncountedFinite
      <3>2. CASE g = h
        <4>1. Uncounted(handler', g) = Uncounted(handler, g) \cup {t} /\ t \notin Uncounted(handler, g)
          BY <1>1, <1>3, <1>6, <1>9, <1>10, <3>2 DEF Uncounted
        <4>2. Cardinality(Uncounted(handler, g) \cup {t}) = Cardinality(Uncounted(handler, g)) + 1
          BY <3>1, <4>1, FS_AddElement
        <4> QED
          BY <3>2, <4>1, <4>2
      <3>3. CASE g # h
        <4>1. g # None
          BY SignalAssumption
        <4>2. Uncounted(handler', g) = Uncounted(handler, g)
          BY <1>1, <1>6, <1>9, <1>10, <3>3, <4>1 DEF Uncounted
        <4> QED
          BY <3>1, <3>3, <4>2
      <3> QED
        BY <3>2, <3>3
    <2>4. Exact(life', trapped', handler', pipe', buf', alive')
      <3> SUFFICES ASSUME NEW g \in Handles, LoopOf[g] \in alive
                   PROVE  /\ trapped[g] + Cardinality(Uncounted(handler', g)) = UnderWay(pipe', buf', g)
                          /\ life[g] = "closed" =>
                               UnderWay(pipe', buf', g) = 0 /\ Cardinality(Uncounted(handler', g)) = 0
        BY <1>2 DEF Exact
      <3>1. /\ trapped[g] + Cardinality(Uncounted(handler, g)) = UnderWay(pipe, buf, g)
            /\ life[g] = "closed" =>
                 UnderWay(pipe, buf, g) = 0 /\ Cardinality(Uncounted(handler, g)) = 0
        BY DEF SignalInv, Exact
      <3>2. trapped[g] \in Int /\ Cardinality(Uncounted(handler, g)) \in Nat
            /\ UnderWay(pipe, buf, g) \in Nat
        BY UncountedFinite, UnderWayFinite DEF SignalInv, SignalTypes
      <3> QED
        BY <1>3, <2>2, <2>3, <3>1, <3>2
    <2>5. Busy'
      <3> SUFFICES ASSUME NEW l \in Loops
                   PROVE  /\ \A i \in DOMAIN pipe'[l] : LoopOf[pipe'[l][i].handle] = l
                          /\ \A i \in DOMAIN buf[l] : LoopOf[buf[l][i].handle] = l
                          /\ stage[l] \notin {"run", "event"} => buf[l] # <<>>
        BY <1>2 DEF Busy
      <3>1. pipe \in [Loops -> Seq(Message)]
        BY DEF SignalInv, SignalTypes
      <3>2. pipe[l] \in Seq(Message)
        BY <3>1
      <3>3. CASE l = LoopOf[h]
        BY <2>1, <3>1, <3>3, <3>2 DEF SignalInv, Busy
      <3>4. CASE l # LoopOf[h]
        BY <2>1, <3>1, <3>4 DEF SignalInv, Busy
      <3> QED
        BY <3>3, <3>4
    <2>6. SignalTypes'
      BY <1>2, <1>8, <2>2 DEF SignalInv, SignalTypes
    <2>7. Watchers' /\ Spent' /\ Installed(Tree', oneshot')
      BY <1>2 DEF SignalInv, Watchers, Spent, Tree
    <2> QED
      BY <1>8, <2>4, <2>5, <2>6, <2>7 DEF SignalInv
  <1>11. CASE ~room
    BY <1>11, <1>1, <1>6, <1>9, <1>2, <1>8, SameCounts DEF HandlerWrite, SignalInv, SignalTypes,
       Watchers, Busy, Spent, Tree
  <1> QED
    BY <1>10, <1>11

\* The handler counts the message it has written.
LEMMA CountStep ==
  ASSUME SignalInv, NEW t \in Threads, HandlerCount(t)
  PROVE  SignalInv'
  <1>1. PICK h : h = handler[t].wrote
    OBVIOUS
  <1>2. /\ handler \in [Threads -> HandlerStates] /\ handler[t] \in HandlerStates
        /\ h \in Handles /\ h # None /\ handler[t].at = "locked"
        /\ handler[t].signum \in Signums
    BY <1>1 DEF HandlerCount, SignalInv, SignalTypes, HandlerHolds, HandlerStates
  <1>3. UNCHANGED <<life, signum, disp, oneshot, raised, pipe, buf, stage, alive, armed>>
    BY DEF HandlerCount, tree, kernel, reader, history
  <1>4. PICK r : r = [handler[t] EXCEPT !.wrote = None]
    OBVIOUS
  <1>5. handler' = [handler EXCEPT ![t] = r]
    BY <1>2, <1>4 DEF HandlerCount
  <1>6. r \in HandlerStates /\ r.at = "locked" /\ r.signum = handler[t].signum
        /\ r.todo = handler[t].todo /\ r.wrote = None
    BY <1>2, <1>4 DEF HandlerStates
  <1>7. handler' \in [Threads -> HandlerStates] /\ HandlerHolds'
    BY <1>6, <1>3, <1>2, <1>5, SignalAssumption, HandlerHeld DEF SignalInv, HandlerHolds
  <1>8. handler'[t] = r /\ \A u \in Threads \ {t} : handler'[u] = handler[u]
    BY <1>2, <1>5
  <1>9. /\ trapped \in [Handles -> Int] /\ trapped' \in [Handles -> Int]
        /\ \A g \in Handles : trapped'[g] = trapped[g] + (IF g = h THEN 1 ELSE 0)
    BY <1>1, <1>2 DEF HandlerCount, SignalInv, SignalTypes
  <1>10. ASSUME NEW g \in Handles
         PROVE  Cardinality(Uncounted(handler', g)) =
                  Cardinality(Uncounted(handler, g)) - (IF g = h THEN 1 ELSE 0)
    BY SMTT(30), <1>1, <1>6, <1>8, UncountedFinite, SignalAssumption, CardRemove DEF Uncounted
  <1>11. Exact(life', trapped', handler', pipe', buf', alive')
    <2> SUFFICES ASSUME NEW g \in Handles, LoopOf[g] \in alive
                 PROVE  /\ trapped'[g] + Cardinality(Uncounted(handler', g)) = UnderWay(pipe, buf, g)
                        /\ life[g] = "closed" =>
                             UnderWay(pipe, buf, g) = 0 /\ Cardinality(Uncounted(handler', g)) = 0
      BY <1>3 DEF Exact
    <2>1. /\ trapped[g] + Cardinality(Uncounted(handler, g)) = UnderWay(pipe, buf, g)
          /\ life[g] = "closed" =>
               UnderWay(pipe, buf, g) = 0 /\ Cardinality(Uncounted(handler, g)) = 0
      BY DEF SignalInv, Exact
    <2>2. trapped[g] \in Int /\ Cardinality(Uncounted(handler, g)) \in Nat
          /\ UnderWay(pipe, buf, g) \in Nat
      BY <1>9, UncountedFinite, UnderWayFinite
    <2>3. g = h => life[g] # "closed"
      BY <1>1, <1>2 DEF SignalInv, HandlerHolds
    <2>4. CASE g = h
      <3>1. trapped'[g] = trapped[g] + 1
        BY <1>9, <2>4
      <3>2. Cardinality(Uncounted(handler', g)) = Cardinality(Uncounted(handler, g)) - 1
        BY <1>10, <2>4
      <3>3. trapped[g] + 1 + (Cardinality(Uncounted(handler, g)) - 1) = UnderWay(pipe, buf, g)
        BY <2>1, <2>2
      <3> QED
        BY <2>3, <2>4, <3>1, <3>2, <3>3
    <2>5. CASE g # h
      BY <1>9, <2>2, <2>5, <1>10, <2>1
    <2> QED
      BY <2>4, <2>5
  <1>12. SignalTypes'
    BY <1>3, <1>7, <1>9 DEF SignalInv, SignalTypes
  <1>13. Watchers' /\ Busy' /\ Spent' /\ Installed(Tree', oneshot')
    BY <1>3 DEF SignalInv, Watchers, Busy, Spent, Tree
  <1> QED
    BY <1>7, <1>11, <1>12, <1>13 DEF SignalInv

-----------------------------------------------------------------------------
(* The steps of uv__signal_event() and of uv__finish_close()               *)

\* read() moves messages from the pipe to the buffer.
LEMMA ReadStep ==
  ASSUME SignalInv, NEW l \in Loops, EventRead(l)
  PROVE  SignalInv'
  <1>1. /\ pipe \in [Loops -> Seq(Message)] /\ buf \in [Loops -> Seq(Message)]
        /\ stage \in [Loops -> Stages] /\ pipe[l] \in Seq(Message) /\ Len(pipe[l]) \in Nat
    BY DEF SignalInv, SignalTypes
  <1>2. UNCHANGED <<life, signum, disp, oneshot, trapped, raised, handler, alive, armed>>
    BY DEF EventRead, tree, kernel, history
  <1>3. buf[l] = <<>> /\ stage[l] \in {"run", "event"}
    BY DEF EventRead
  <1>4. PICK n \in 0..Len(pipe[l]) :
          /\ buf' = [buf EXCEPT ![l] = SubSeq(pipe[l], 1, n)]
          /\ pipe' = [pipe EXCEPT ![l] = SubSeq(@, n + 1, Len(@))]
    <2>1. PICK n : n = IF Len(pipe[l]) < BatchSize THEN Len(pipe[l]) ELSE BatchSize
      OBVIOUS
    <2>2. n \in 0..Len(pipe[l])
      BY <1>1, <2>1, SignalAssumption
    <2> QED
      BY <2>1, <2>2 DEF EventRead
  <1>5. /\ stage' \in [Loops -> Stages] /\ stage'[l] \in {"run", "event"}
        /\ \A k \in Loops \ {l} : stage'[k] = stage[k]
    BY <1>1 DEF EventRead, Stages
  <1>6. /\ SubSeq(pipe[l], n + 1, Len(pipe[l])) \in Seq(Message)
        /\ SubSeq(pipe[l], 1, n) \in Seq(Message)
        /\ \A h : Cardinality(Msgs(SubSeq(pipe[l], n + 1, Len(pipe[l])), SubSeq(pipe[l], 1, n), h)) =
                    Cardinality(Msgs(pipe[l], <<>>, h))
    BY <1>1, MsgsRead
  <1>7. /\ pipe' \in [Loops -> Seq(Message)] /\ buf' \in [Loops -> Seq(Message)]
        /\ pipe'[l] = SubSeq(pipe[l], n + 1, Len(pipe[l])) /\ buf'[l] = SubSeq(pipe[l], 1, n)
        /\ \A k \in Loops \ {l} : pipe'[k] = pipe[k] /\ buf'[k] = buf[k]
    BY <1>1, <1>4, <1>6
  <1>8. \A h \in Handles : UnderWay(pipe', buf', h) = UnderWay(pipe, buf, h)
    <2> SUFFICES ASSUME NEW h \in Handles PROVE UnderWay(pipe', buf', h) = UnderWay(pipe, buf, h)
      OBVIOUS
    <2>1. CASE LoopOf[h] = l
      BY <1>3, <1>6, <1>7, <2>1 DEF UnderWay
    <2>2. CASE LoopOf[h] # l
      BY <1>7, <2>2, SignalAssumption DEF UnderWay
    <2> QED
      BY <2>1, <2>2
  <1>9. Exact(life', trapped', handler', pipe', buf', alive')
    BY <1>2, <1>8 DEF SignalInv, Exact
  <1>10. Busy'
    <2>1. \A i \in DOMAIN pipe[l] : LoopOf[pipe[l][i].handle] = l
      BY DEF SignalInv, Busy
    <2>2. \A i \in DOMAIN pipe'[l] : i + n \in DOMAIN pipe[l] /\ pipe'[l][i] = pipe[l][i + n]
      BY <1>1, <1>7, Halves
    <2>3. \A i \in DOMAIN buf'[l] : i \in DOMAIN pipe[l] /\ buf'[l][i] = pipe[l][i]
      BY <1>1, <1>7, Halves
    <2>4. \A i \in DOMAIN pipe'[l] : LoopOf[pipe'[l][i].handle] = l
      BY <2>1, <2>2
    <2>5. \A i \in DOMAIN buf'[l] : LoopOf[buf'[l][i].handle] = l
      BY <2>1, <2>3
    <2>6. \A k \in Loops \ {l} :
            /\ \A i \in DOMAIN pipe'[k] : LoopOf[pipe'[k][i].handle] = k
            /\ \A i \in DOMAIN buf'[k] : LoopOf[buf'[k][i].handle] = k
            /\ stage'[k] \notin {"run", "event"} => buf'[k] # <<>>
      <3> SUFFICES ASSUME NEW k \in Loops \ {l}
                   PROVE  /\ \A i \in DOMAIN pipe'[k] : LoopOf[pipe'[k][i].handle] = k
                          /\ \A i \in DOMAIN buf'[k] : LoopOf[buf'[k][i].handle] = k
                          /\ stage'[k] \notin {"run", "event"} => buf'[k] # <<>>
        OBVIOUS
      <3>1. pipe'[k] = pipe[k] /\ buf'[k] = buf[k] /\ stage'[k] = stage[k]
        BY <1>5, <1>7
      <3>2. /\ \A i \in DOMAIN pipe[k] : LoopOf[pipe[k][i].handle] = k
            /\ \A i \in DOMAIN buf[k] : LoopOf[buf[k][i].handle] = k
            /\ stage[k] \notin {"run", "event"} => buf[k] # <<>>
        BY DEF SignalInv, Busy
      <3> QED
        BY <3>1, <3>2
    <2> QED
      BY <1>5, <2>4, <2>5, <2>6 DEF Busy
  <1>11. Spent'
    <2> SUFFICES ASSUME NEW h \in Handles, oneshot[h], signum[h] # None, ~armed[h]
                 PROVE  stage'[LoopOf[h]] \notin {"run", "event"} /\ Head(buf'[LoopOf[h]]).handle = h
      BY <1>2 DEF Spent
    <2>1. stage[LoopOf[h]] \notin {"run", "event"} /\ Head(buf[LoopOf[h]]).handle = h
      BY DEF SignalInv, Spent
    <2>2. LoopOf[h] # l /\ LoopOf[h] \in Loops
      BY <1>3, <2>1, SignalAssumption
    <2> QED
      BY <1>5, <1>7, <2>1, <2>2
  <1>12. SignalTypes'
    BY <1>2, <1>5, <1>7 DEF SignalInv, SignalTypes
  <1>13. HandlerHolds' /\ Watchers' /\ Installed(Tree', oneshot')
    BY <1>2 DEF SignalInv, HandlerHolds, Watchers, Tree
  <1> QED
    BY <1>9, <1>10, <1>11, <1>12, <1>13 DEF SignalInv

\* The message at the head of the buffer of a loop is about a handle of the loop.
LEMMA HeadIsMine ==
  ASSUME SignalInv, NEW l \in Loops, buf[l] # <<>>
  PROVE  /\ buf[l] \in Seq(Message) /\ Head(buf[l]) \in Message
         /\ Head(buf[l]).handle \in Handles /\ LoopOf[Head(buf[l]).handle] = l
  <1>1. buf[l] \in Seq(Message)
    BY DEF SignalInv, SignalTypes
  <1>2. 1 \in DOMAIN buf[l] /\ Head(buf[l]) = buf[l][1] /\ Head(buf[l]) \in Message
    BY <1>1
  <1>3. LoopOf[buf[l][1].handle] = l
    BY <1>2 DEF SignalInv, Busy
  <1> QED
    BY <1>1, <1>2, <1>3 DEF Message

\* The callback
LEMMA CallStep ==
  ASSUME SignalInv, NEW l \in Loops, EventCall(l)
  PROVE  SignalInv'
  <1>1. PICK h : h = Head(buf[l]).handle
    OBVIOUS
  <1>2. stage[l] = "event" /\ buf[l] # <<>>
    BY DEF EventCall
  <1>3. h \in Handles /\ LoopOf[h] = l
    BY <1>1, <1>2, HeadIsMine
  <1>4. UNCHANGED <<life, signum, disp, oneshot, trapped, raised, handler, pipe, buf, alive>>
    BY DEF EventCall, tree, kernel
  <1>5. /\ stage' \in [Loops -> Stages] /\ stage'[l] \in {"chld", "callback"}
        /\ \A k \in Loops \ {l} : stage'[k] = stage[k]
    BY <1>2 DEF EventCall, SignalInv, SignalTypes, Stages
  <1>6. /\ armed' \in [Handles -> BOOLEAN] /\ \A g \in Handles \ {h} : armed'[g] = armed[g]
    BY <1>1 DEF EventCall, SignalInv, SignalTypes
  <1>7. Spent'
    <2> SUFFICES ASSUME NEW g \in Handles, oneshot[g], signum[g] # None, ~armed'[g]
                 PROVE  stage'[LoopOf[g]] \notin {"run", "event"} /\ Head(buf[LoopOf[g]]).handle = g
      BY <1>4 DEF Spent
    <2>1. CASE g = h
      BY <1>1, <1>3, <1>5, <2>1
    <2>2. CASE g # h
      BY <1>6, <2>2, <1>2, <1>5, SignalAssumption DEF SignalInv, Spent
    <2> QED
      BY <2>1, <2>2
  <1>8. Busy'
    BY <1>2, <1>4, <1>5 DEF SignalInv, Busy
  <1>9. Exact(life', trapped', handler', pipe', buf', alive') /\ Installed(Tree', oneshot')
    BY <1>4 DEF SignalInv, Exact, Tree
  <1>10. SignalTypes'
    BY <1>4, <1>5, <1>6 DEF SignalInv, SignalTypes
  <1>11. HandlerHolds' /\ Watchers'
    BY <1>4 DEF SignalInv, HandlerHolds, Watchers
  <1> QED
    BY <1>7, <1>8, <1>9, <1>10, <1>11 DEF SignalInv

\* What is under way when the first message has been dealt with
LEMMA TailCounts ==
  ASSUME SignalInv, NEW l \in Loops, buf[l] # <<>>,
         buf' = [buf EXCEPT ![l] = Tail(@)], pipe' = pipe
  PROVE  /\ buf' \in [Loops -> Seq(Message)]
         /\ \A g \in Handles :
              /\ UnderWay(pipe', buf', g) \in Nat
              /\ UnderWay(pipe', buf', g) =
                   UnderWay(pipe, buf, g) - (IF g = Head(buf[l]).handle THEN 1 ELSE 0)
  <1>1. /\ pipe \in [Loops -> Seq(Message)] /\ buf \in [Loops -> Seq(Message)]
        /\ pipe[l] \in Seq(Message) /\ buf[l] \in Seq(Message)
    BY DEF SignalInv, SignalTypes
  <1>2. /\ Tail(buf[l]) \in Seq(Message)
        /\ \A g : Cardinality(Msgs(pipe[l], Tail(buf[l]), g)) =
                    Cardinality(Msgs(pipe[l], buf[l], g)) - (IF Head(buf[l]).handle = g THEN 1 ELSE 0)
    BY <1>1, MsgsTail
  <1>3. /\ buf' \in [Loops -> Seq(Message)] /\ buf'[l] = Tail(buf[l])
        /\ \A k \in Loops \ {l} : buf'[k] = buf[k]
    BY <1>1, <1>2
  <1>4. LoopOf[Head(buf[l]).handle] = l
    BY HeadIsMine
  <1>5. ASSUME NEW g \in Handles
        PROVE  /\ UnderWay(pipe', buf', g) \in Nat
               /\ UnderWay(pipe', buf', g) =
                    UnderWay(pipe, buf, g) - (IF g = Head(buf[l]).handle THEN 1 ELSE 0)
    <2>1. LoopOf[g] \in Loops /\ UnderWay(pipe, buf, g) \in Nat
      BY SignalAssumption, UnderWayFinite
    <2>2. CASE LoopOf[g] = l
      BY <1>1, <1>2, <1>3, <2>2, MsgsFinite DEF UnderWay
    <2>3. CASE LoopOf[g] # l
      BY <1>3, <2>1, <2>3, <1>4 DEF UnderWay
    <2> QED
      BY <2>2, <2>3
  <1> QED
    BY <1>3, <1>5

\* A message has been dealt with: it is counted, and its one-shot handle is stopped.
LEMMA CountedStep ==
  ASSUME SignalInv, NEW l \in Loops, buf[l] # <<>>, Counted(l)
  PROVE  SignalInv'
  <1>1. PICK h : h = Head(buf[l]).handle
    OBVIOUS
  <1>2. h \in Handles /\ LoopOf[h] = l
    BY <1>1, HeadIsMine
  <1>3. UNCHANGED <<life, oneshot, raised, handler, pipe, alive, armed>>
    BY DEF Counted, kernel, history
  <1>4. /\ TreeType(Tree') /\ Installed(Tree', oneshot)
        /\ signum' = signum \/ (LockFree /\ signum' = [signum EXCEPT ![h] = None])
        /\ oneshot[h] => signum'[h] = None
    <2>1. CASE oneshot[h] /\ signum[h] # None
      <3>1. LockFree /\ SetTree(Stopped(Tree, h))
        BY <1>1, <2>1 DEF Counted
      <3>2. /\ TreeType(Stopped(Tree, h)) /\ Installed(Stopped(Tree, h), oneshot)
            /\ Stopped(Tree, h).signum = [signum EXCEPT ![h] = None]
        BY <1>2, TreeSound, StoppedTree
      <3>3. /\ TreeType(Tree') /\ Installed(Tree', oneshot)
            /\ signum' = [signum EXCEPT ![h] = None]
        BY <3>1, <3>2, SetTreeIs
      <3>4. signum'[h] = None
        BY <1>2, <3>3 DEF SignalInv, SignalTypes
      <3> QED
        BY <3>1, <3>3, <3>4
    <2>2. CASE ~(oneshot[h] /\ signum[h] # None)
      BY <1>1, <2>2, TreeSound DEF Counted, tree, Tree
    <2> QED
      BY <2>1, <2>2
  <1>5. /\ signum' \in [Handles -> Signums \cup {None}]
        /\ disp' \in [Signums -> {"dfl", "uv", "once"}]
        /\ \A g \in Handles : signum'[g] # None => signum'[g] = signum[g]
        /\ (\A g \in Handles : signum'[g] = signum[g]) \/ LockFree
    BY <1>4 DEF TreeType, Tree, SignalInv, SignalTypes
  <1>6. /\ buf' \in [Loops -> Seq(Message)]
        /\ \A g \in Handles :
             /\ UnderWay(pipe', buf', g) \in Nat
             /\ UnderWay(pipe', buf', g) =
                  UnderWay(pipe, buf, g) - (IF g = Head(buf[l]).handle THEN 1 ELSE 0)
    BY <1>3, TailCounts DEF Counted
  <1>7. /\ trapped \in [Handles -> Int] /\ trapped' \in [Handles -> Int]
        /\ \A g \in Handles : trapped'[g] = trapped[g] - (IF g = h THEN 1 ELSE 0)
    BY <1>1, <1>2 DEF Counted, SignalInv, SignalTypes
  <1>8. /\ stage' \in [Loops -> Stages] /\ stage'[l] \in {"run", "event"}
        /\ \A k \in Loops \ {l} : stage'[k] = stage[k]
    BY DEF Counted, SignalInv, SignalTypes, Stages
  <1>9. Exact(life', trapped', handler', pipe', buf', alive')
    <2> SUFFICES ASSUME NEW g \in Handles, LoopOf[g] \in alive
                 PROVE  /\ trapped'[g] + Cardinality(Uncounted(handler, g)) = UnderWay(pipe', buf', g)
                        /\ life[g] = "closed" =>
                             UnderWay(pipe', buf', g) = 0 /\ Cardinality(Uncounted(handler, g)) = 0
      BY <1>3 DEF Exact
    <2>1. /\ trapped[g] + Cardinality(Uncounted(handler, g)) = UnderWay(pipe, buf, g)
          /\ life[g] = "closed" =>
               UnderWay(pipe, buf, g) = 0 /\ Cardinality(Uncounted(handler, g)) = 0
      BY DEF SignalInv, Exact
    <2>2. trapped[g] \in Int /\ Cardinality(Uncounted(handler, g)) \in Nat
          /\ UnderWay(pipe, buf, g) \in Nat
      BY <1>7, UncountedFinite, UnderWayFinite
    <2>3. CASE g = h
      BY <1>7, <2>3, <1>1, <1>6, <2>1, <2>2
    <2>4. CASE g # h
      <3>1. trapped'[g] = trapped[g]
        BY <1>7, <2>2, <2>4
      <3>2. UnderWay(pipe', buf', g) = UnderWay(pipe, buf, g)
        BY <1>1, <1>6, <2>2, <2>4
      <3> QED
        BY <2>1, <3>1, <3>2
    <2> QED
      BY <2>3, <2>4
  <1>10. buf'[l] = Tail(buf[l]) /\ \A k \in Loops \ {l} : buf'[k] = buf[k]
    BY DEF Counted, SignalInv, SignalTypes
  <1>11. Busy'
    <2> SUFFICES ASSUME NEW k \in Loops
                 PROVE  /\ \A i \in DOMAIN pipe[k] : LoopOf[pipe[k][i].handle] = k
                        /\ \A i \in DOMAIN buf'[k] : LoopOf[buf'[k][i].handle] = k
                        /\ stage'[k] \notin {"run", "event"} => buf'[k] # <<>>
      BY <1>3 DEF Busy
    <2>1. \A i \in DOMAIN buf[k] : LoopOf[buf[k][i].handle] = k
      BY DEF SignalInv, Busy
    <2>2. CASE k = l
      <3>1. buf[l] \in Seq(Message)
        BY DEF SignalInv, SignalTypes
      <3>2. \A i \in DOMAIN buf'[l] : i + 1 \in DOMAIN buf[l] /\ buf'[l][i] = buf[l][i + 1]
        BY <1>10, <3>1
      <3> QED
        BY <1>8, <2>1, <2>2, <3>2 DEF SignalInv, Busy
    <2>3. CASE k # l
      BY <1>8, <1>10, <2>3 DEF SignalInv, Busy
    <2> QED
      BY <2>2, <2>3
  <1>12. Spent'
    BY <1>3, <1>4, <1>5, <1>1, <1>8, <1>10, SignalAssumption DEF Spent, SignalInv
  <1>13. SignalTypes'
    BY <1>3, <1>5, <1>6, <1>7, <1>8 DEF SignalInv, SignalTypes
  <1>14. HandlerHolds'
    <2>1. \A g \in Handles : signum'[g] # None => life[g] = "open"
      BY <1>5 DEF SignalInv, HandlerHolds
    <2>2. \A t \in Threads, g \in Handles :
            g \in handler[t].todo \/ handler[t].wrote = g => signum'[g] # None
      BY <1>5, NothingHeld, SignalAssumption DEF SignalInv, HandlerHolds
    <2> QED
      BY <1>3, <2>1, <2>2 DEF SignalInv, HandlerHolds
  <1>15. Watchers' /\ Installed(Tree', oneshot')
    BY <1>3, <1>4, <1>5, SignalAssumption DEF SignalInv, Watchers
  <1> QED
    BY <1>9, <1>11, <1>12, <1>13, <1>14, <1>15 DEF SignalInv

\* uv__finish_close() closes a handle that has nothing under way.
LEMMA FinishStep ==
  ASSUME SignalInv, NEW h \in Handles, uv__finish_close(h)
  PROVE  SignalInv'
  <1>1. /\ LoopOf[h] \in alive /\ life[h] = "closing" /\ trapped[h] <= 0
        /\ h \in Handles \ Internal
    BY DEF uv__finish_close, SignalInv, Watchers
  <1>2. UNCHANGED <<signum, disp, oneshot, trapped, raised, handler, pipe, buf, stage, alive, armed>>
    BY DEF uv__finish_close, tree, kernel, reader, history
  <1>3. /\ life' \in [Handles -> {"closed", "open", "closing"}] /\ life'[h] = "closed"
        /\ \A g \in Handles \ {h} : life'[g] = life[g]
    BY DEF uv__finish_close, SignalInv, SignalTypes
  <1>4. UnderWay(pipe, buf, h) = 0 /\ Cardinality(Uncounted(handler, h)) = 0
    <2>1. signum[h] = None
      BY <1>1 DEF SignalInv, HandlerHolds
    <2>2. Uncounted(handler, h) = {}
      BY <2>1 DEF SignalInv, HandlerHolds, Uncounted
    <2>3. Cardinality(Uncounted(handler, h)) = 0
      BY <2>2, FS_EmptySet
    <2>4. trapped[h] + Cardinality(Uncounted(handler, h)) = UnderWay(pipe, buf, h)
      BY <1>1 DEF SignalInv, Exact
    <2>5. trapped[h] \in Int /\ UnderWay(pipe, buf, h) \in Nat
      BY UnderWayFinite DEF SignalInv, SignalTypes
    <2> QED
      BY <1>1, <2>3, <2>4, <2>5
  <1>5. Exact(life', trapped', handler', pipe', buf', alive')
    BY <1>2, <1>3, <1>4 DEF SignalInv, Exact
  <1>6. HandlerHolds'
    BY <1>1, <1>3, <1>2 DEF SignalInv, HandlerHolds
  <1>7. SignalTypes'
    BY <1>2, <1>3 DEF SignalInv, SignalTypes
  <1>8. Watchers'
    BY <1>1, <1>2, <1>3, SignalAssumption DEF SignalInv, Watchers
  <1>9. Busy' /\ Spent' /\ Installed(Tree', oneshot')
    BY <1>2 DEF SignalInv, Busy, Spent, Tree
  <1> QED
    BY <1>5, <1>6, <1>7, <1>8, <1>9 DEF SignalInv

\* uv_loop_close() stops the child_watcher and closes the pipe.
LEMMA CleanupStep ==
  ASSUME SignalInv, NEW l \in Loops, uv__signal_loop_cleanup(l)
  PROVE  SignalInv'
  <1>1. LockFree /\ stage[l] = "run" /\ alive' = alive \ {l}
    BY DEF uv__signal_loop_cleanup
  <1>2. UNCHANGED <<life, oneshot, trapped, raised, handler, buf, stage, armed>>
    BY DEF uv__signal_loop_cleanup, kernel, reader, history
  <1>3. PICK w \in Internal : SetTree(Stopped(Tree, w))
    BY DEF uv__signal_loop_cleanup
  <1>4. w \in Handles
    BY SignalAssumption
  <1>5. /\ TreeType(Stopped(Tree, w)) /\ Installed(Stopped(Tree, w), oneshot)
        /\ Stopped(Tree, w).signum = [signum EXCEPT ![w] = None]
    BY <1>4, TreeSound, StoppedTree
  <1>6. /\ TreeType(Tree') /\ Installed(Tree', oneshot)
        /\ signum' = [signum EXCEPT ![w] = None]
    BY <1>3, <1>5, SetTreeIs
  <1>7. /\ signum' \in [Handles -> Signums \cup {None}]
        /\ disp' \in [Signums -> {"dfl", "uv", "once"}]
        /\ \A g \in Handles : signum'[g] # None => signum'[g] = signum[g]
        /\ \A g \in Handles : signum'[g] = signum[g] \/ signum'[g] = None
    BY <1>4, <1>6 DEF TreeType, Tree, SignalInv, SignalTypes
  <1>8. /\ pipe' \in [Loops -> Seq(Message)] /\ pipe'[l] = <<>>
        /\ \A k \in Loops \ {l} : pipe'[k] = pipe[k]
    BY DEF uv__signal_loop_cleanup, SignalInv, SignalTypes
  <1>9. \A g \in Handles : LoopOf[g] \in alive' => UnderWay(pipe', buf', g) = UnderWay(pipe, buf, g)
    BY <1>1, <1>2, <1>8, SignalAssumption DEF UnderWay
  <1>10. Exact(life', trapped', handler', pipe', buf', alive')
    BY <1>1, <1>2, <1>9 DEF SignalInv, Exact
  <1>11. Busy'
    BY <1>2, <1>8 DEF SignalInv, Busy
  <1>12. Spent'
    BY <1>2, <1>7 DEF SignalInv, Spent
  <1>13. HandlerHolds'
    BY <1>1, <1>2, <1>7, NothingHeld, SignalAssumption DEF SignalInv, HandlerHolds
  <1>14. SignalTypes'
    BY <1>2, <1>7, <1>8 DEF SignalInv, SignalTypes
  <1>15. Watchers' /\ Installed(Tree', oneshot')
    BY <1>2, <1>6, <1>7, SignalAssumption DEF SignalInv, Watchers
  <1> QED
    BY <1>10, <1>11, <1>12, <1>13, <1>14, <1>15 DEF SignalInv

-----------------------------------------------------------------------------
(* The children                                                            *)

\* The lists of a loop a step does not touch
LEMMA OtherLoop ==
  ASSUME NEW l \in Loops, Listed(l),
         process_handles'[l] = process_handles[l], walk'[l] = walk[l], pending'[l] = pending[l],
         walk[l] # <<>> => stage'[l] = "walk",
         \A p \in Procs : ProcLoop[p] = l =>
           /\ proc'[p] = proc[p] \/ proc[p] = "none"
           /\ exits'[p] = exits[p]
           /\ child'[p] = child[p] \/ proc[p] = "none" \/ (child[p] = "running" /\ child'[p] = "zombie")
  PROVE  Listed(l)'
BY DEF Listed

\* A step of the signals leaves the children where they are.
LEMMA ChildrenKept ==
  ASSUME ProcessInv, UNCHANGED procvars,
         \A l \in Loops : walk[l] # <<>> /\ stage[l] = "walk" => stage'[l] = "walk"
  PROVE  ProcessTypes' /\ Children'
  <1>1. UNCHANGED <<proc, child, process_handles, walk, pending, exits>>
    BY DEF procvars
  <1>2. ProcessTypes'
    BY <1>1 DEF ProcessInv, ProcessTypes
  <1>3. \A l \in Loops : Listed(l)'
    BY <1>1, OtherLoop DEF ProcessInv, Children, Listed
  <1> QED
    BY <1>1, <1>2, <1>3 DEF ProcessInv, Children

\* uv_spawn() starts the watcher of its loop.
LEMMA WatcherStarted ==
  ASSUME SignalInv, NEW l \in Loops, StartWatcher(l),
         UNCHANGED <<life, oneshot, trapped, handler, pipe, buf, stage, alive, armed>>,
         raised' \in SUBSET Signums
  PROVE  SignalInv'
  <1>1. PICK w : w = Watcher[l]
    OBVIOUS
  <1>2. w \in Internal /\ w \in Handles /\ SIGCHLD \in Signums
    BY <1>1, ProcessAssumption, SignalAssumption
  <1>3. /\ life \in [Handles -> {"closed", "open", "closing"}]
        /\ oneshot \in [Handles -> BOOLEAN] /\ armed \in [Handles -> BOOLEAN]
        /\ signum \in [Handles -> Signums \cup {None}]
    BY DEF SignalInv, SignalTypes
  <1>4. life[w] = "open" /\ ~oneshot[w] /\ signum[w] \in {None, SIGCHLD}
    BY <1>2 DEF SignalInv, Watchers
  <1>5. LockFree
    BY DEF StartWatcher
  <1>6. /\ TreeType(Tree') /\ Installed(Tree', oneshot)
        /\ \A g \in Handles \ {w} : signum'[g] = signum[g]
        /\ signum'[w] = SIGCHLD
    <2>1. CASE signum[w] = SIGCHLD
      BY <1>1, <2>1, TreeSound, SetTreeIs DEF StartWatcher
    <2>2. CASE signum[w] # SIGCHLD
      <3>1. SetTree(Started(Tree, w, SIGCHLD, FALSE))
        BY <1>1, <2>2 DEF StartWatcher
      <3>2. Tree.signum[w] = None
        BY <1>4, <2>2, TreeSound
      <3>3. /\ TreeType(Tree) /\ Installed(Tree, oneshot)
        BY TreeSound
      <3>4. \A g \in Handles \ {w} : oneshot[g] = oneshot[g]
        OBVIOUS
      <3>5. ~oneshot[w] => ~FALSE
        OBVIOUS
      <3>6. /\ TreeType(Started(Tree, w, SIGCHLD, FALSE))
            /\ Installed(Started(Tree, w, SIGCHLD, FALSE), oneshot)
            /\ Started(Tree, w, SIGCHLD, FALSE).signum = [Tree.signum EXCEPT ![w] = SIGCHLD]
        BY <1>2, <1>3, <3>2, <3>3, <3>4, <3>5, StartedTree
      <3>7. /\ TreeType(Tree') /\ Installed(Tree', oneshot)
            /\ signum' = [signum EXCEPT ![w] = SIGCHLD]
        BY <3>1, <3>6, SetTreeIs, TreeSound
      <3> QED
        BY <1>2, <1>3, <3>7
    <2> QED
      BY <2>1, <2>2
  <1>7. /\ \A g \in Handles : life'[g] = "closed" => life[g] = "closed"
        /\ \A g \in Handles : signum'[g] # None => life'[g] = "open"
    BY <1>4, <1>6 DEF SignalInv, HandlerHolds
  <1>8. \A g \in Internal : life'[g] = "open" /\ ~oneshot'[g] /\ signum'[g] \in {None, SIGCHLD}
    BY <1>6, SignalAssumption DEF SignalInv, Watchers
  <1>9. \A g \in Handles :
          oneshot'[g] /\ signum'[g] # None /\ ~armed'[g] =>
            oneshot[g] /\ signum[g] # None /\ ~armed[g]
    BY <1>4, <1>6
  <1>10. oneshot' = oneshot
    OBVIOUS
  <1> QED
    BY <1>3, <1>5, <1>6, <1>7, <1>8, <1>9, <1>10, LockedStep

\* uv_spawn()
LEMMA SpawnStep ==
  ASSUME ProcessInv, NEW p \in Procs, uv_spawn(p)
  PROVE  ProcessInv'
  <1>1. PICK l : l = ProcLoop[p]
    OBVIOUS
  <1>2. l \in Loops
    BY <1>1, ProcessAssumption
  <1>3. /\ proc \in [Procs -> {"none", "open", "closing"}]
        /\ child \in [Procs -> {"none", "running", "zombie", "reaped"}]
        /\ process_handles \in [Loops -> Seq(Procs)] /\ process_handles[l] \in Seq(Procs)
    BY <1>2 DEF ProcessInv, ProcessTypes
  <1>4. /\ proc[p] = "none" /\ stage' = stage
        /\ UNCHANGED <<walk, pending, exits>>
        /\ process_handles' = [process_handles EXCEPT ![l] = Append(@, p)]
    BY <1>1 DEF uv_spawn, reader
  <1>5. SignalInv'
    BY <1>1, <1>2, WatcherStarted DEF uv_spawn, kernel, reader, history, ProcessInv, SignalInv,
       SignalTypes
  <1>6. /\ Append(process_handles[l], p) \in Seq(Procs)
        /\ In(Append(process_handles[l], p)) = In(process_handles[l]) \cup {p}
        /\ NoDup(process_handles[l]) /\ p \notin In(process_handles[l]) =>
             NoDup(Append(process_handles[l], p))
    BY <1>3, InsertTail
  <1>7. Listed(l)
    BY <1>2 DEF ProcessInv, Children
  <1>8. /\ proc' \in [Procs -> {"none", "open", "closing"}] /\ proc'[p] = "open"
        /\ child' \in [Procs -> {"none", "running", "zombie", "reaped"}] /\ child'[p] = "running"
        /\ \A q \in Procs \ {p} : proc'[q] = proc[q] /\ child'[q] = child[q]
        /\ process_handles' \in [Loops -> Seq(Procs)]
        /\ process_handles'[l] = Append(process_handles[l], p)
        /\ \A k \in Loops \ {l} : process_handles'[k] = process_handles[k]
    BY <1>2, <1>3, <1>4, <1>6 DEF uv_spawn
  <1>9. Listed(l)'
    BY <1>4, <1>7, <1>6, <1>8, <1>1 DEF Listed, ProcessInv, Children
  <1>10. \A k \in Loops : Listed(k)'
    BY <1>9, <1>1, <1>8, <1>4, OtherLoop DEF ProcessInv, Children, Listed
  <1>11. ProcessTypes'
    BY <1>4, <1>8 DEF ProcessInv, ProcessTypes
  <1>12. \A q \in Procs : proc'[q] = "none" => exits'[q] = 0
    BY <1>4, <1>8 DEF ProcessInv, Children
  <1> QED
    BY <1>5, <1>10, <1>11, <1>12 DEF ProcessInv, Children

\* uv_spawn() that fails
LEMMA SpawnFails ==
  ASSUME ProcessInv, NEW p \in Procs, SpawnBadStdio(p) \/ SpawnExecFails(p)
  PROVE  ProcessInv'
  <1>1. /\ proc \in [Procs -> {"none", "open", "closing"}]
        /\ child \in [Procs -> {"none", "running", "zombie", "reaped"}]
        /\ ProcLoop[p] \in Loops
    BY ProcessAssumption DEF ProcessInv, ProcessTypes
  <1>2. /\ proc[p] = "none" /\ proc' = [proc EXCEPT ![p] = "open"]
        /\ child' = child \/ child' = [child EXCEPT ![p] = "reaped"]
        /\ UNCHANGED <<process_handles, walk, pending, exits, stage>>
    BY DEF SpawnBadStdio, SpawnExecFails, reader, sigvars
  <1>3. SignalInv'
    <2>1. CASE SpawnBadStdio(p)
      BY <2>1, StageStep DEF SpawnBadStdio, sigvars, tree, kernel, reader, history, ProcessInv,
         SignalInv, SignalTypes
    <2>2. CASE SpawnExecFails(p)
      BY <2>2, <1>1, ProcessAssumption, WatcherStarted DEF SpawnExecFails, reader, history,
         ProcessInv, SignalInv, SignalTypes
    <2> QED
      BY <2>1, <2>2
  <1>4. /\ proc' \in [Procs -> {"none", "open", "closing"}] /\ proc'[p] = "open"
        /\ child' \in [Procs -> {"none", "running", "zombie", "reaped"}]
        /\ \A q \in Procs \ {p} : proc'[q] = proc[q] /\ child'[q] = child[q]
    BY <1>1, <1>2
  <1>5. \A k \in Loops : Listed(k)'
    BY <1>2, <1>4, OtherLoop DEF ProcessInv, Children, Listed
  <1>6. ProcessTypes'
    BY <1>2, <1>4 DEF ProcessInv, ProcessTypes
  <1>7. \A q \in Procs : proc'[q] = "none" => exits'[q] = 0
    BY <1>2, <1>4 DEF ProcessInv, Children
  <1> QED
    BY <1>3, <1>5, <1>6, <1>7 DEF ProcessInv, Children

\* uv_close() of a process handle stops the watcher with the last one.
LEMMA ProcessCloseStep ==
  ASSUME ProcessInv, NEW p \in Procs, uv__process_close(p)
  PROVE  ProcessInv'
  <1>1. PICK l : l = ProcLoop[p]
    OBVIOUS
  <1>2. l \in Loops /\ Listed(l)
    BY <1>1, ProcessAssumption DEF ProcessInv, Children
  <1>3. /\ proc \in [Procs -> {"none", "open", "closing"}]
        /\ process_handles \in [Loops -> Seq(Procs)] /\ process_handles[l] \in Seq(Procs)
        /\ pending \in [Loops -> Seq(Procs)] /\ pending[l] \in Seq(Procs)
    BY <1>2 DEF ProcessInv, ProcessTypes
  <1>4. /\ proc[p] = "open" /\ LockFree /\ stage[l] \in {"run", "callback", "exit_cb"}
        /\ proc' = [proc EXCEPT ![p] = "closing"]
        /\ process_handles' = [process_handles EXCEPT ![l] = Without(process_handles[l], p)]
        /\ pending' = [pending EXCEPT ![l] = Without(@, p)]
        /\ UNCHANGED <<child, walk, exits>>
    BY <1>1 DEF uv__process_close, UserCode
  <1>5. UNCHANGED <<life, oneshot, trapped, raised, handler, pipe, buf, stage, alive, armed>>
    BY DEF uv__process_close, kernel, reader, history
  <1>6. PICK w : w = Watcher[l]
    OBVIOUS
  <1>7. w \in Handles /\ w \in Internal
    BY <1>2, <1>6, ProcessAssumption, SignalAssumption
  <1>8. /\ TreeType(Tree') /\ Installed(Tree', oneshot)
        /\ \A g \in Handles : signum'[g] = signum[g] \/ signum'[g] = None
    <2>1. CASE Without(process_handles[l], p) = <<>>
      <3>1. SetTree(Stopped(Tree, w))
        BY <1>1, <1>6, <2>1 DEF uv__process_close
      <3>2. SignalInv
        BY DEF ProcessInv
      <3>3. /\ TreeType(Stopped(Tree, w)) /\ Installed(Stopped(Tree, w), oneshot)
            /\ Stopped(Tree, w).signum = [signum EXCEPT ![w] = None]
        BY <1>7, <3>2, TreeSound, StoppedTree
      <3>4. /\ TreeType(Tree') /\ Installed(Tree', oneshot)
            /\ signum' = [signum EXCEPT ![w] = None]
        BY <3>1, <3>3, SetTreeIs
      <3> QED
        BY <3>2, <3>4 DEF SignalInv, SignalTypes
    <2>2. CASE Without(process_handles[l], p) # <<>>
      BY <1>1, <2>2, TreeSound, SetTreeIs DEF uv__process_close, ProcessInv
    <2> QED
      BY <2>1, <2>2
  <1>9. SignalInv'
    BY <1>5, <1>8, <1>4, SignalAssumption, LockedStep DEF ProcessInv, SignalInv, SignalTypes,
       HandlerHolds, Watchers
  <1>10. NoDup(process_handles[l]) /\ NoDup(pending[l]) /\ walk[l] = <<>>
    BY <1>2, <1>4 DEF Listed
  <1>11. /\ Without(process_handles[l], p) \in Seq(Procs)
         /\ In(Without(process_handles[l], p)) = In(process_handles[l]) \ {p}
         /\ NoDup(Without(process_handles[l], p))
    BY <1>3, <1>10, Unlinked
  <1>12. /\ Without(pending[l], p) \in Seq(Procs)
         /\ In(Without(pending[l], p)) = In(pending[l]) \ {p}
         /\ NoDup(Without(pending[l], p))
    BY <1>3, <1>10, Unlinked
  <1>13. /\ proc' \in [Procs -> {"none", "open", "closing"}] /\ proc'[p] = "closing"
         /\ \A q \in Procs \ {p} : proc'[q] = proc[q]
         /\ process_handles' \in [Loops -> Seq(Procs)]
         /\ process_handles'[l] = Without(process_handles[l], p)
         /\ \A k \in Loops \ {l} : process_handles'[k] = process_handles[k]
         /\ pending' \in [Loops -> Seq(Procs)]
         /\ pending'[l] = Without(pending[l], p)
         /\ \A k \in Loops \ {l} : pending'[k] = pending[k]
    BY <1>2, <1>3, <1>4, <1>11, <1>12
  <1>14. Listed(l)'
    BY <1>4, <1>10, <1>2, <1>11, <1>12, <1>13, EmptyList DEF Listed
  <1>15. \A k \in Loops : Listed(k)'
    BY <1>14, <1>1, <1>13, <1>5, <1>4, OtherLoop DEF ProcessInv, Children, Listed
  <1>16. ProcessTypes'
    BY <1>4, <1>13 DEF ProcessInv, ProcessTypes
  <1>17. \A q \in Procs : proc'[q] = "none" => exits'[q] = 0
    BY <1>4, <1>13 DEF ProcessInv, Children
  <1> QED
    BY <1>9, <1>15, <1>16, <1>17 DEF ProcessInv, Children

\* A child exits.
LEMMA ExitStep ==
  ASSUME ProcessInv, NEW p \in Procs, ChildExit(p)
  PROVE  ProcessInv'
  <1>1. UNCHANGED <<life, signum, disp, oneshot, trapped, handler, pipe, buf, stage, alive, armed,
                    proc, process_handles, walk, pending, exits>>
    BY DEF ChildExit, tree, reader, history
  <1>2. SignalInv'
    BY <1>1, ProcessAssumption, StageStep DEF ProcessInv, ChildExit, SignalInv, SignalTypes
  <1>3. /\ child' \in [Procs -> {"none", "running", "zombie", "reaped"}]
        /\ child[p] = "running" /\ child'[p] = "zombie"
        /\ \A q \in Procs \ {p} : child'[q] = child[q]
    BY DEF ChildExit, ProcessInv, ProcessTypes
  <1>4. \A k \in Loops : Listed(k)'
    BY <1>1, <1>3, OtherLoop DEF ProcessInv, Children, Listed
  <1>5. ProcessTypes'
    BY <1>1, <1>3 DEF ProcessInv, ProcessTypes
  <1> QED
    BY <1>1, <1>2, <1>4, <1>5 DEF ProcessInv, Children

\* uv__wait_children() begins.
LEMMA WaitStartStep ==
  ASSUME ProcessInv, NEW l \in Loops, WaitStart(l)
  PROVE  ProcessInv'
  <1>1. UNCHANGED <<life, signum, disp, oneshot, trapped, raised, handler, pipe, buf, alive, armed,
                    proc, child, process_handles, pending, exits>>
    BY DEF WaitStart, tree, kernel, history
  <1>2. /\ process_handles \in [Loops -> Seq(Procs)] /\ walk \in [Loops -> Seq(Procs)]
        /\ stage \in [Loops -> Stages]
    BY DEF ProcessInv, ProcessTypes, SignalInv, SignalTypes
  <1>3. /\ stage[l] = "chld" /\ stage' \in [Loops -> Stages] /\ stage'[l] = "walk"
        /\ \A k \in Loops \ {l} : stage'[k] = stage[k]
        /\ walk' \in [Loops -> Seq(Procs)] /\ walk'[l] = process_handles[l]
        /\ \A k \in Loops \ {l} : walk'[k] = walk[k]
    BY <1>2 DEF WaitStart, Stages
  <1>4. SignalInv'
    BY <1>1, <1>3, StageStep DEF ProcessInv, SignalInv, SignalTypes
  <1>5. Listed(l)'
    BY <1>1, <1>3 DEF ProcessInv, Children, Listed
  <1>6. \A k \in Loops : Listed(k)'
    <2> SUFFICES ASSUME NEW k \in Loops, k # l PROVE Listed(k)'
      BY <1>5
    <2>1. Listed(k)
      BY DEF ProcessInv, Children
    <2>2. walk[k] # <<>> => stage'[k] = "walk"
      BY <1>3, <2>1 DEF Listed
    <2> QED
      BY <1>1, <1>3, <2>1, <2>2, OtherLoop
  <1>7. ProcessTypes'
    BY <1>1, <1>3 DEF ProcessInv, ProcessTypes
  <1> QED
    BY <1>1, <1>4, <1>6, <1>7 DEF ProcessInv, Children

\* waitpid() for the next process of the list
LEMMA WaitNextStep ==
  ASSUME ProcessInv, NEW l \in Loops, WaitNext(l)
  PROVE  ProcessInv'
  <1>1. PICK p : p = Head(walk[l])
    OBVIOUS
  <1>2. /\ stage[l] = "walk" /\ walk[l] # <<>> /\ UNCHANGED <<proc, exits>> /\ UNCHANGED sigvars
    BY DEF WaitNext
  <1>3. SignalInv'
    BY <1>2, StageStep DEF ProcessInv, sigvars, tree, kernel, reader, history, SignalInv,
       SignalTypes
  <1>4. /\ child \in [Procs -> {"none", "running", "zombie", "reaped"}]
        /\ process_handles \in [Loops -> Seq(Procs)] /\ process_handles[l] \in Seq(Procs)
        /\ pending \in [Loops -> Seq(Procs)] /\ pending[l] \in Seq(Procs)
        /\ walk \in [Loops -> Seq(Procs)] /\ walk[l] \in Seq(Procs)
    BY DEF ProcessInv, ProcessTypes
  <1>5. Listed(l) /\ NoDup(walk[l]) /\ NoDup(process_handles[l]) /\ NoDup(pending[l])
    BY DEF ProcessInv, Children, Listed
  <1>6. /\ Tail(walk[l]) \in Seq(Procs) /\ p \in In(walk[l])
        /\ In(Tail(walk[l])) = In(walk[l]) \ {p} /\ NoDup(Tail(walk[l]))
    BY <1>1, <1>2, <1>4, <1>5, TakeHead
  <1>7. /\ p \in Procs /\ p \in In(process_handles[l]) /\ ProcLoop[p] = l
        /\ proc[p] = "open" /\ exits[p] = 0 /\ child[p] # "reaped" /\ p \notin In(pending[l])
    BY <1>5, <1>6 DEF Listed
  <1>8. /\ walk' \in [Loops -> Seq(Procs)] /\ walk'[l] = Tail(walk[l])
        /\ \A k \in Loops \ {l} : walk'[k] = walk[k]
    BY <1>4, <1>6 DEF WaitNext
  <1>9. stage' = stage
    BY <1>2 DEF sigvars, reader
  <1>10. CASE child[p] = "zombie"
    <2>1. /\ child' = [child EXCEPT ![p] = "reaped"]
          /\ process_handles' = [process_handles EXCEPT ![l] = Without(@, p)]
          /\ pending' = [pending EXCEPT ![l] = Append(@, p)]
      BY <1>1, <1>10 DEF WaitNext
    <2>2. /\ Without(process_handles[l], p) \in Seq(Procs)
          /\ In(Without(process_handles[l], p)) = In(process_handles[l]) \ {p}
          /\ NoDup(Without(process_handles[l], p))
      BY <1>4, <1>5, Unlinked
    <2>3. /\ Append(pending[l], p) \in Seq(Procs)
          /\ In(Append(pending[l], p)) = In(pending[l]) \cup {p}
          /\ NoDup(Append(pending[l], p))
      BY <1>4, <1>5, <1>7, InsertTail
    <2>4. /\ child' \in [Procs -> {"none", "running", "zombie", "reaped"}] /\ child'[p] = "reaped"
          /\ \A q \in Procs \ {p} : child'[q] = child[q]
          /\ process_handles' \in [Loops -> Seq(Procs)]
          /\ process_handles'[l] = Without(process_handles[l], p)
          /\ \A k \in Loops \ {l} : process_handles'[k] = process_handles[k]
          /\ pending' \in [Loops -> Seq(Procs)]
          /\ pending'[l] = Append(pending[l], p)
          /\ \A k \in Loops \ {l} : pending'[k] = pending[k]
      BY <1>4, <1>7, <2>1, <2>2, <2>3
    <2>5. Listed(l)'
      <3>1. In(walk'[l]) \subseteq In(process_handles'[l])
        BY <1>5, <1>6, <1>8, <2>2, <2>4 DEF Listed
      <3>2. \A q \in In(process_handles'[l]) :
              q \in Procs /\ ProcLoop[q] = l /\ proc[q] = "open" /\ exits[q] = 0 /\ child'[q] # "reaped"
        BY <1>5, <2>2, <2>4 DEF Listed
      <3>3. \A q \in In(pending'[l]) :
              q \in Procs /\ ProcLoop[q] = l /\ proc[q] = "open" /\ exits[q] = 0 /\ child'[q] = "reaped"
        BY <1>5, <1>7, <2>3, <2>4 DEF Listed
      <3> QED
        BY <1>2, <1>6, <1>8, <1>9, <2>2, <2>3, <2>4, <3>1, <3>2, <3>3 DEF Listed
    <2>6. \A k \in Loops : Listed(k)'
      <3> SUFFICES ASSUME NEW k \in Loops, k # l PROVE Listed(k)'
        BY <2>5
      <3>1. Listed(k)
        BY DEF ProcessInv, Children
      <3>2. walk[k] # <<>> => stage'[k] = "walk"
        BY <1>9, <3>1 DEF Listed
      <3>3. \A q \in Procs : ProcLoop[q] = k => child'[q] = child[q]
        BY <1>7, <2>4
      <3> QED
        BY <1>2, <1>8, <2>4, <3>1, <3>2, <3>3, OtherLoop
    <2>7. ProcessTypes'
      BY <1>2, <1>8, <2>4 DEF ProcessInv, ProcessTypes
    <2> QED
      BY <1>2, <1>3, <2>6, <2>7 DEF ProcessInv, Children
  <1>11. CASE child[p] # "zombie"
    <2>1. UNCHANGED <<child, process_handles, pending>>
      BY <1>1, <1>11 DEF WaitNext
    <2>2. Listed(l)'
      BY <1>2, <1>5, <1>6, <1>8, <1>9, <2>1 DEF Listed
    <2>3. \A k \in Loops : Listed(k)'
      <3> SUFFICES ASSUME NEW k \in Loops, k # l PROVE Listed(k)'
        BY <2>2
      <3>1. Listed(k)
        BY DEF ProcessInv, Children
      <3>2. walk[k] # <<>> => stage'[k] = "walk"
        BY <1>9, <3>1 DEF Listed
      <3> QED
        BY <1>2, <1>8, <2>1, <3>1, <3>2, OtherLoop
    <2>4. ProcessTypes'
      BY <1>2, <1>8, <2>1 DEF ProcessInv, ProcessTypes
    <2> QED
      BY <1>2, <1>3, <2>3, <2>4 DEF ProcessInv, Children
  <1> QED
    BY <1>10, <1>11

\* exit_cb of the first process of the pending list
LEMMA ExitCallStep ==
  ASSUME ProcessInv, NEW l \in Loops, ExitCall(l)
  PROVE  ProcessInv'
  <1>1. PICK p : p = Head(pending[l])
    OBVIOUS
  <1>2. /\ UNCHANGED <<life, signum, disp, oneshot, trapped, raised, handler, pipe, buf, alive, armed,
                       proc, child, process_handles, walk>>
        /\ stage[l] = "walk" /\ walk[l] = <<>> /\ pending[l] # <<>>
    BY DEF ExitCall, tree, kernel, history
  <1>3. /\ pending \in [Loops -> Seq(Procs)] /\ pending[l] \in Seq(Procs)
        /\ stage \in [Loops -> Stages] /\ exits \in [Procs -> 0..1]
    BY DEF ProcessInv, ProcessTypes, SignalInv, SignalTypes
  <1>4. Listed(l) /\ NoDup(pending[l])
    BY DEF ProcessInv, Children, Listed
  <1>5. /\ Tail(pending[l]) \in Seq(Procs) /\ p \in In(pending[l])
        /\ In(Tail(pending[l])) = In(pending[l]) \ {p} /\ NoDup(Tail(pending[l]))
    BY <1>1, <1>2, <1>3, <1>4, TakeHead
  <1>6. /\ p \in Procs /\ ProcLoop[p] = l /\ proc[p] = "open" /\ exits[p] = 0
        /\ child[p] = "reaped"
    BY <1>4, <1>5 DEF Listed
  <1>7. /\ stage' \in [Loops -> Stages] /\ stage'[l] = "exit_cb"
        /\ \A k \in Loops \ {l} : stage'[k] = stage[k]
        /\ pending' \in [Loops -> Seq(Procs)] /\ pending'[l] = Tail(pending[l])
        /\ \A k \in Loops \ {l} : pending'[k] = pending[k]
        /\ exits' \in [Procs -> 0..1] /\ \A q \in Procs \ {p} : exits'[q] = exits[q]
    BY <1>1, <1>3, <1>5, <1>6 DEF ExitCall, Stages
  <1>8. SignalInv'
    BY <1>2, <1>7, StageStep DEF ProcessInv, SignalInv, SignalTypes
  <1>9. Listed(l)'
    <2>1. p \notin In(process_handles[l])
      BY <1>4, <1>6 DEF Listed
    <2> QED
      BY <1>2, <1>4, <1>5, <1>7, <2>1 DEF Listed
  <1>10. \A k \in Loops : Listed(k)'
    <2> SUFFICES ASSUME NEW k \in Loops, k # l PROVE Listed(k)'
      BY <1>9
    <2>1. Listed(k)
      BY DEF ProcessInv, Children
    <2>2. walk[k] # <<>> => stage'[k] = "walk"
      BY <1>7, <2>1 DEF Listed
    <2>3. \A q \in Procs : ProcLoop[q] = k => exits'[q] = exits[q]
      BY <1>6, <1>7
    <2> QED
      BY <1>2, <1>7, <2>1, <2>2, <2>3, OtherLoop
  <1>11. ProcessTypes'
    BY <1>2, <1>7 DEF ProcessInv, ProcessTypes
  <1>12. \A q \in Procs : proc'[q] = "none" => exits'[q] = 0
    BY <1>2, <1>6, <1>7 DEF ProcessInv, Children
  <1> QED
    BY <1>8, <1>10, <1>11, <1>12 DEF ProcessInv, Children

\* It returns.
LEMMA ExitReturnStep ==
  ASSUME ProcessInv, NEW l \in Loops, ExitReturn(l)
  PROVE  ProcessInv'
  <1>1. UNCHANGED <<life, signum, disp, oneshot, trapped, raised, handler, pipe, buf, alive, armed>>
        /\ UNCHANGED procvars
    BY DEF ExitReturn, tree, kernel, history
  <1>2. SignalInv
    BY DEF ProcessInv
  <1>3. /\ stage[l] = "exit_cb" /\ stage' \in [Loops -> Stages] /\ stage'[l] = "walk"
        /\ \A k \in Loops \ {l} : stage'[k] = stage[k]
    BY <1>2 DEF ExitReturn, SignalInv, SignalTypes, Stages
  <1>4. SignalInv'
    BY <1>1, <1>2, <1>3, StageStep DEF SignalInv, SignalTypes
  <1>5. \A k \in Loops : walk[k] # <<>> /\ stage[k] = "walk" => stage'[k] = "walk"
    BY <1>3
  <1> QED
    BY <1>1, <1>4, <1>5, ChildrenKept DEF ProcessInv

\* uv__wait_children() ends, and the message about SIGCHLD has been dealt with.
LEMMA WaitEndStep ==
  ASSUME ProcessInv, NEW l \in Loops, WaitEnd(l)
  PROVE  ProcessInv'
  <1>1. /\ stage[l] = "walk" /\ walk[l] = <<>> /\ Counted(l) /\ UNCHANGED procvars /\ SignalInv
    BY DEF WaitEnd, ProcessInv
  <1>2. buf[l] # <<>>
    BY <1>1 DEF SignalInv, Busy
  <1>3. SignalInv'
    BY <1>1, <1>2, CountedStep
  <1>4. \A k \in Loops \ {l} : stage'[k] = stage[k]
    BY <1>1 DEF Counted, SignalInv, SignalTypes
  <1>5. \A k \in Loops : walk[k] # <<>> /\ stage[k] = "walk" => stage'[k] = "walk"
    BY <1>1, <1>4
  <1> QED
    BY <1>1, <1>3, <1>5, ChildrenKept DEF ProcessInv

-----------------------------------------------------------------------------
(* The theorems                                                            *)

\* Nothing is started and there is no child.
LEMMA InitProcessInv ==
  ASSUME Init
  PROVE  ProcessInv
  <1>1. /\ \A l \in Loops : pipe[l] = <<>> /\ buf[l] = <<>> /\ stage[l] = "run"
        /\ \A t \in Threads : handler[t] = NoHandler
        /\ \A h \in Handles : signum[h] = None /\ trapped[h] = 0 /\ ~oneshot[h] /\ ~armed[h]
        /\ \A h \in Internal : life[h] = "open"
        /\ \A sn \in Signums : disp[sn] = "dfl"
    BY SignalAssumption DEF Init, SignalInit
  <1>2. /\ NoHandler \in HandlerStates /\ NoHandler.at = "none"
        /\ NoHandler.todo = {} /\ NoHandler.wrote = None
    BY DEF NoHandler, HandlerStates
  <1>3. SignalTypes
    BY <1>2 DEF Init, SignalInit, SignalTypes, Stages
  <1>4. HandlerHolds
    <2>1. {t \in Threads : handler[t].at # "none"} = {}
      BY <1>1, <1>2
    <2>2. IsFiniteSet({t \in Threads : handler[t].at # "none"})
      BY <2>1, FS_EmptySet
    <2> QED
      BY <1>1, <1>2, <2>2, SignalAssumption DEF HandlerHolds
  <1>5. Watchers /\ Busy /\ Spent
    BY <1>1, SignalAssumption DEF Watchers, Busy, Spent
  <1>6. Exact(life, trapped, handler, pipe, buf, alive)
    <2> SUFFICES ASSUME NEW h \in Handles
                 PROVE  /\ trapped[h] + Cardinality(Uncounted(handler, h)) = UnderWay(pipe, buf, h)
                        /\ UnderWay(pipe, buf, h) = 0 /\ Cardinality(Uncounted(handler, h)) = 0
      BY DEF Exact
    <2>1. LoopOf[h] \in Loops /\ h # None
      BY SignalAssumption
    <2>2. Msgs(pipe[LoopOf[h]], buf[LoopOf[h]], h) = {}
      BY <1>1, <2>1 DEF Msgs
    <2>3. Uncounted(handler, h) = {}
      BY <1>1, <1>2, <2>1 DEF Uncounted
    <2> QED
      BY <1>1, <2>2, <2>3, FS_EmptySet DEF UnderWay
  <1>7. Installed(Tree, oneshot)
    BY <1>1, SignalAssumption DEF Tree, Installed
  <1>8. ProcessTypes
    BY DEF Init, ProcessTypes
  <1>9. Children
    BY EmptyList DEF Init, Children, Listed
  <1> QED
    BY <1>3, <1>4, <1>5, <1>6, <1>7, <1>8, <1>9 DEF ProcessInv, SignalInv

\* Every step of a signal handle, of a handler or of a loop
LEMMA SignalStep ==
  ASSUME SignalInv, SignalNext
  PROVE  SignalInv'
  <1>1. ASSUME SignalUser PROVE SignalInv'
    BY <1>1, InitStep, StopStep, CloseStep, StartStep DEF SignalUser
  <1>2. ASSUME NEW sn \in Signums, Raise(sn) PROVE SignalInv'
    BY <1>2, RaiseStep
  <1>3. ASSUME NEW t \in Threads, HandlerStep(t) PROVE SignalInv'
    BY <1>3, DeliverStep, LockStep, CountStep, UnlockStep, WriteStep DEF HandlerStep
  <1>4. ASSUME NEW l \in Loops, EventStep(l) PROVE SignalInv'
    <2>1. CASE EventRead(l)
      BY <2>1, ReadStep
    <2>2. CASE EventCall(l)
      BY <2>2, CallStep
    <2>3. CASE EventSkip(l)
      BY <2>3, CountedStep DEF EventSkip
    <2>4. CASE CallbackReturn(l)
      BY <2>4, CountedStep DEF CallbackReturn, SignalInv, Busy
    <2> QED
      BY <1>4, <2>1, <2>2, <2>3, <2>4 DEF EventStep
  <1>5. ASSUME NEW h \in Handles, uv__finish_close(h) PROVE SignalInv'
    BY <1>5, FinishStep
  <1> QED
    BY <1>1, <1>2, <1>3, <1>4, <1>5 DEF SignalNext

\* What a step does to the place of a thread in its loop: the walk over the children is
\* left by itself only, and nothing but EventCall() begins a callback.
LEMMA Places ==
  ASSUME SignalInv, SignalNext, NEW k \in Loops
  PROVE  /\ stage[k] = "walk" => stage'[k] = "walk"
         /\ stage[k] = "event" /\ stage'[k] \in {"callback", "chld"} => EventCall(k)
  <1>0. stage \in [Loops -> Stages]
    BY DEF SignalInv, SignalTypes
  <1>1. ASSUME SignalUser PROVE stage' = stage
    BY <1>1 DEF SignalUser, uv_signal_init, uv_signal_stop, uv__signal_close, uv__signal_start, reader
  <1>2. ASSUME NEW sn \in Signums, Raise(sn) PROVE stage' = stage
    BY <1>2 DEF Raise, reader
  <1>3. ASSUME NEW t \in Threads, HandlerStep(t) PROVE stage' = stage
    BY <1>3 DEF HandlerStep, Deliver, HandlerLock, HandlerCount, HandlerUnlock, HandlerWrite, reader
  <1>4. ASSUME NEW h \in Handles, uv__finish_close(h) PROVE stage' = stage
    BY <1>4 DEF uv__finish_close, reader
  <1>5. ASSUME NEW l \in Loops, EventStep(l)
        PROVE  /\ \A j \in Loops \ {l} : stage'[j] = stage[j]
               /\ stage[l] # "walk"
               /\ stage'[l] \in {"callback", "chld"} => EventCall(l)
    BY <1>0, <1>5 DEF EventRead, EventCall, EventSkip, CallbackReturn, Counted, EventStep
  <1>6. CASE stage' = stage
    BY <1>6
  <1>7. CASE \E l \in Loops : EventStep(l)
    BY <1>7, <1>5
  <1> QED
    BY <1>1, <1>2, <1>3, <1>4, <1>6, <1>7 DEF SignalNext

\* uv_loop_close()
LEMMA LoopCloseStep ==
  ASSUME ProcessInv, NEW l \in Loops, LoopClose(l)
  PROVE  ProcessInv'
BY CleanupStep, ChildrenKept DEF LoopClose, ProcessInv, uv__signal_loop_cleanup, reader

\* Every step keeps the invariant.
LEMMA ProcessInvStep ==
  ASSUME ProcessInv, [Next]_vars
  PROVE  ProcessInv'
  <1>1. CASE SignalNext
    BY <1>1, SignalStep, Places, ChildrenKept DEF ProcessInv, SignalNext
  <1>2. CASE ProcessUser
    BY <1>2, SpawnFails, SpawnStep, ProcessCloseStep DEF ProcessUser
  <1>3. CASE \E p \in Procs : ChildExit(p)
    BY <1>3, ExitStep
  <1>4. CASE \E l \in Loops : WaitStep(l)
    BY <1>4, WaitStartStep, WaitNextStep, ExitCallStep, ExitReturnStep, WaitEndStep DEF WaitStep
  <1>5. CASE \E l \in Loops : LoopClose(l)
    BY <1>5, LoopCloseStep
  <1>6. CASE UNCHANGED vars
    BY <1>6, StageStep, ChildrenKept DEF vars, sigvars, tree, kernel, reader, history, ProcessInv,
       SignalInv, SignalTypes
  <1> QED
    BY <1>1, <1>2, <1>3, <1>4, <1>5, <1>6 DEF Next

\* The inductive invariant holds in every state.
THEOREM ProcessInvHolds == Spec => []ProcessInv
  <1>1. Init => ProcessInv
    BY InitProcessInv
  <1>2. ProcessInv /\ [Next]_vars => ProcessInv'
    BY ProcessInvStep
  <1> QED
    BY <1>1, <1>2, PTL DEF Spec

\* The counters of a signal handle differ by its messages under way, a signal has the
\* handler its handles ask for, and exit_cb comes once for each process and never after
\* uv_close(), however signals, children and closes interleave.
THEOREM ProcessSafe == Spec => []ProcessSound
  <1>1. ProcessInv => ProcessSound
    <2> SUFFICES ASSUME ProcessInv PROVE ProcessSound
      OBVIOUS
    <2>1. SignalSound
      BY SignalIsSound DEF ProcessInv
    <2>2. \A p \in Procs : exits[p] <= 1
      <3>1. \A p \in Procs : exits[p] \in 0..1
        BY DEF ProcessInv, ProcessTypes
      <3> QED
        BY <3>1
    <2>3. \A l \in Loops : \A p \in In(pending[l]) : proc[p] = "open" /\ exits[p] = 0
      BY DEF ProcessInv, Children, Listed
    <2> QED
      BY <2>1, <2>2, <2>3 DEF ProcessSound, ExitOnce
  <1> QED
    BY <1>1, ProcessInvHolds, PTL

\* A one-shot signal handle is called once for each start, though the signal may come
\* again, and be written again for it, before its first message is read.
THEOREM OneShotCalledOnce == Spec => OneShotOnce
  <1>1. ProcessInv /\ [Next]_vars =>
          [\A l \in Loops : stage[l] = "event" /\ stage'[l] \in {"callback", "chld"} =>
             LET h == Head(buf[l]).handle IN oneshot[h] => armed[h]]_sigvars
    <2> SUFFICES ASSUME ProcessInv, [Next]_vars, NEW l \in Loops,
                        stage[l] = "event", stage'[l] \in {"callback", "chld"},
                        oneshot[Head(buf[l]).handle]
                 PROVE  armed[Head(buf[l]).handle]
      OBVIOUS
    <2>0. SignalInv /\ stage \in [Loops -> Stages]
      BY DEF ProcessInv, SignalInv, SignalTypes
    <2>1. EventCall(l)
      <3>1. CASE SignalNext
        BY <2>0, <3>1, Places
      <3>2. CASE ProcessUser
        BY <3>2 DEF ProcessUser, SpawnBadStdio, SpawnExecFails, uv_spawn, uv__process_close, reader, sigvars
      <3>3. CASE \E p \in Procs : ChildExit(p)
        BY <3>3 DEF ChildExit, reader
      <3>4. CASE \E k \in Loops : WaitStep(k)
        BY <3>4, <2>0 DEF WaitStep, WaitStart, WaitNext, ExitCall, ExitReturn, WaitEnd, Counted,
           sigvars, reader
      <3>5. CASE \E k \in Loops : LoopClose(k)
        BY <3>5 DEF LoopClose, uv__signal_loop_cleanup, reader
      <3>6. CASE UNCHANGED vars
        BY <3>6 DEF vars, sigvars, reader
      <3> QED
        BY <3>1, <3>2, <3>3, <3>4, <3>5, <3>6 DEF Next
    <2>2. buf[l] # <<>> /\ Head(buf[l]).signum = signum[Head(buf[l]).handle]
      BY <2>1 DEF EventCall
    <2>3. /\ Head(buf[l]) \in Message /\ Head(buf[l]).handle \in Handles
          /\ LoopOf[Head(buf[l]).handle] = l
      BY <2>0, <2>2, HeadIsMine
    <2>4. signum[Head(buf[l]).handle] # None
      BY <2>2, <2>3, SignalAssumption DEF Message
    <2> QED
      BY <2>0, <2>3, <2>4 DEF SignalInv, Spent
  <1> QED
    BY <1>1, ProcessInvHolds, PTL DEF Spec, OneShotOnce
=============================================================================
