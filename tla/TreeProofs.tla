------------------------------ MODULE TreeProofs ------------------------------
(***************************************************************************)
(* What the proofs about both b-trees rest on: induction over the naturals *)
(* as a fact about sets, loops that follow pointers, the room of a page,   *)
(* the search inside one, the decisions of a split and the allocation of   *)
(* pages.                                                                  *)
(***************************************************************************)
EXTENDS TreePages, TLAPS, FiniteSetTheorems, WellFoundedInduction

-----------------------------------------------------------------------------
(* Induction *)

\* A set of naturals that is not empty has a least element.
LEMMA LeastNatural ==
  ASSUME NEW T \in SUBSET Nat, T # {}
  PROVE  \E n \in T : \A m \in T : n <= m
<1> DEFINE R == {ss \in Nat \X Nat : ss[1] < ss[2]}
<1>1. R = OpToRel(<, Nat)
  BY DEF OpToRel
<1>2. IsWellFoundedOn(R, Nat)
  BY <1>1, NatLessThanWellFounded
<1> HIDE DEF R
<1>3. PICK n \in T : \A m \in T : ~(<<m, n>> \in R)
  BY <1>2, WFMin
<1>4. \A m \in Nat : <<m, n>> \in R <=> m < n
  BY DEF R
<1>5. \A m \in T : n <= m
  <2> TAKE m \in T
  <2>1. ~(m < n)
    BY <1>3, <1>4
  <2> QED BY <2>1
<1> QED BY <1>5

\* A set of naturals that has 0, and with each n also n + 1, has them all.
LEMMA SetInduction ==
  ASSUME NEW T \in SUBSET Nat, 0 \in T, \A n \in Nat : n \in T => n + 1 \in T
  PROVE  \A n \in Nat : n \in T
<1> SUFFICES ASSUME Nat \ T # {} PROVE FALSE
  OBVIOUS
<1>1. PICK n \in Nat \ T : \A m \in Nat \ T : n <= m
  BY LeastNatural
<1>2. n - 1 \in T
  BY <1>1
<1> QED BY <1>1, <1>2

\* A set of naturals that is not empty and has a bound has a greatest element.
LEMMA GreatestNatural ==
  ASSUME NEW b \in Nat, NEW T \in SUBSET (0 .. b), T # {}
  PROVE  \E n \in T : \A m \in T : m <= n
<1> DEFINE U == {b - n : n \in T}
<1>1. U \in SUBSET Nat /\ U # {}
  <2>1. \A n \in T : b - n \in Nat
    OBVIOUS
  <2>2. PICK n \in T : TRUE
    OBVIOUS
  <2> QED BY <2>1, <2>2
<1>2. PICK u \in U : \A v \in U : u <= v
  BY <1>1, LeastNatural
<1>3. PICK n \in T : u = b - n
  OBVIOUS
<1>4. \A m \in T : m <= n
  <2> TAKE m \in T
  <2>1. b - m \in U
    OBVIOUS
  <2>2. u <= b - m
    BY <1>2, <2>1
  <2> QED BY <2>2, <1>3
<1> QED BY <1>4

-----------------------------------------------------------------------------
(* Loops that follow pointers *)

FollowsAll(next, f) ==
  f = [q \in DOMAIN next |-> IF next[q] \in DOMAIN next THEN <<q>> \o f[next[q]] ELSE <<q>>]

\* Something gets smaller at every step, so that the loop ends.
Descends(next, mu, bound) ==
  /\ bound \in Nat
  /\ mu \in [DOMAIN next -> Nat]
  /\ \A q \in DOMAIN next : mu[q] < bound
  /\ \A q \in DOMAIN next : next[q] \in DOMAIN next => mu[next[q]] < mu[q]

\* Then the recursive function in Follow exists.
LEMMA FollowExists ==
  ASSUME NEW next, NEW mu, NEW bound, Descends(next, mu, bound)
  PROVE  \E f : FollowsAll(next, f)
<1> DEFINE D == DOMAIN next
           B(f, q) == IF next[q] \in D THEN <<q>> \o f[next[q]] ELSE <<q>>
           Part(h) == {q \in D : mu[q] < h}
           T == {h \in Nat : \E f : f = [q \in Part(h) |-> B(f, q)]}
<1>1. 0 \in T
  <2>1. Part(0) = {}
    BY DEF Descends
  <2> DEFINE f == [q \in {} |-> <<>>]
  <2>2. f = [q \in Part(0) |-> B(f, q)]
    BY <2>1
  <2> HIDE DEF f
  <2> QED BY <2>2
<1>2. ASSUME NEW h \in Nat, h \in T PROVE h + 1 \in T
  <2>1. h \in Nat
    OBVIOUS
  <2>2. PICK f : f = [q \in Part(h) |-> B(f, q)]
    BY <1>2
  <2> DEFINE g == [q \in Part(h + 1) |-> B(f, q)]
  <2>3. \A q \in Part(h + 1) : next[q] \in D => next[q] \in Part(h)
    BY <2>1 DEF Descends
  <2>4. \A q \in Part(h) : q \in Part(h + 1) /\ f[q] = g[q]
    <3>1. \A q \in Part(h) : q \in Part(h + 1)
      BY <2>1 DEF Descends
    <3> HIDE DEF B, Part
    <3> QED BY <3>1, <2>2
  <2>5. \A q \in Part(h + 1) : B(f, q) = B(g, q)
    BY <2>3, <2>4
  <2> HIDE DEF B, Part
  <2>6. g = [q \in Part(h + 1) |-> B(g, q)]
    BY <2>5
  <2> HIDE DEF g
  <2> QED BY <2>1, <2>6
<1>3. T \in SUBSET Nat
  OBVIOUS
<1> HIDE DEF T
<1>4. bound \in T
  BY <1>1, <1>2, <1>3, SetInduction DEF Descends
<1>5. Part(bound) = D
  BY DEF Descends
<1>6. PICK f : f = [q \in D |-> B(f, q)]
  BY <1>4, <1>5 DEF T
<1> QED BY <1>6 DEF FollowsAll

\* Follow() is one step and then the rest of the walk.
LEMMA FollowUnfolds ==
  ASSUME NEW next, NEW mu, NEW bound, Descends(next, mu, bound), NEW q \in DOMAIN next
  PROVE  Follow(next, q) = IF next[q] \in DOMAIN next THEN <<q>> \o Follow(next, next[q]) ELSE <<q>>
<1> DEFINE F == CHOOSE f : FollowsAll(next, f)
<1>1. FollowsAll(next, F)
  BY FollowExists
<1>2. \A p : Follow(next, p) = F[p]
  BY DEF Follow, FollowsAll
<1> HIDE DEF F
<1> QED BY <1>1, <1>2 DEF FollowsAll

\* What a loop that follows pointers visits.
IsWalk(next, p, w) ==
  /\ w \in Seq(DOMAIN next)
  /\ Len(w) >= 1
  /\ w[1] = p
  /\ \A i \in 1 .. Len(w) - 1 : w[i + 1] = next[w[i]]
  /\ next[w[Len(w)]] \notin DOMAIN next

\* What Follow() returns is the walk, from its start to where it can go no further.
LEMMA FollowWalks ==
  ASSUME NEW next, NEW mu, NEW bound, Descends(next, mu, bound), NEW p \in DOMAIN next
  PROVE  IsWalk(next, p, Follow(next, p))
<1> DEFINE D == DOMAIN next
           T == {h \in Nat : \A q \in D : mu[q] < h => IsWalk(next, q, Follow(next, q))}
<1>1. 0 \in T
  BY DEF Descends
<1>2. ASSUME NEW h \in Nat, h \in T PROVE h + 1 \in T
  <2> SUFFICES ASSUME NEW q \in D, mu[q] < h + 1 PROVE IsWalk(next, q, Follow(next, q))
    OBVIOUS
  <2>1. CASE next[q] \in D
    <3> DEFINE v == Follow(next, next[q])  w == <<q>> \o v
    <3>1. Follow(next, q) = w
      BY <2>1, FollowUnfolds
    <3>2. mu[next[q]] < h
      BY <2>1 DEF Descends
    <3>3. IsWalk(next, next[q], v)
      BY <1>2, <3>2, <2>1
    <3> HIDE DEF v
    <3>4. v \in Seq(D) /\ Len(v) \in Nat /\ Len(v) >= 1 /\ v[1] = next[q] /\ next[v[Len(v)]] \notin D
          /\ \A i \in 1 .. Len(v) - 1 : v[i + 1] = next[v[i]]
      BY <3>3 DEF IsWalk
    <3>5. w \in Seq(D) /\ Len(w) = Len(v) + 1 /\ w[1] = q /\ \A i \in 1 .. Len(v) : w[i + 1] = v[i]
      BY <3>4
    <3> HIDE DEF w
    <3>6. ASSUME NEW i \in 1 .. Len(w) - 1 PROVE w[i + 1] = next[w[i]]
      <4>1. CASE i = 1
        BY <4>1, <3>4, <3>5
      <4>2. CASE i > 1
        <5>1. i - 1 \in 1 .. Len(v) - 1 /\ i \in 1 .. Len(v)
          BY <4>2, <3>4, <3>5
        <5>2. PICK j \in 1 .. Len(v) - 1 : i = j + 1
          BY <5>1
        <5>3. w[i + 1] = v[i] /\ w[i] = v[j] /\ v[i] = next[v[j]]
          BY <5>1, <5>2, <3>4, <3>5
        <5> QED BY <5>3
      <4> QED BY <4>1, <4>2
    <3>7. next[w[Len(w)]] \notin D
      BY <3>4, <3>5
    <3> QED BY <3>1, <3>4, <3>5, <3>6, <3>7 DEF IsWalk
  <2>2. CASE next[q] \notin D
    <3>1. Follow(next, q) = <<q>>
      BY <2>2, FollowUnfolds
    <3> QED BY <3>1, <2>2 DEF IsWalk
  <2> QED BY <2>1, <2>2
<1>3. T \in SUBSET Nat
  OBVIOUS
<1> HIDE DEF T
<1>4. bound \in T
  BY <1>1, <1>2, <1>3, SetInduction DEF Descends
<1> QED BY <1>4 DEF T, Descends

-----------------------------------------------------------------------------
(* The room of a page *)

\* A set of cells: they have a size and, to be searched, a key.
CellSet(C) == \A c \in C : c.size \in Nat /\ c.key \in Nat

\* The room of the first n cells, for every n.
RunsUp(cells, f) ==
  f = [n \in 0 .. Len(cells) |-> IF n = 0 THEN 0 ELSE f[n - 1] + cells[n].size]
Run(cells) == CHOOSE f : RunsUp(cells, f)

\* The running total of the cells' sizes exists, and Used() is its last value.
LEMMA RunExists ==
  ASSUME NEW cells, Len(cells) \in Nat
  PROVE  RunsUp(cells, Run(cells)) /\ Used(cells) = Run(cells)[Len(cells)]
<1> DEFINE B(f, n) == IF n = 0 THEN 0 ELSE f[n - 1] + cells[n].size
           T == {m \in Nat : \E f : f = [n \in 0 .. m |-> B(f, n)]}
<1>1. 0 \in T
  <2> DEFINE f == [n \in 0 .. 0 |-> 0]
  <2>1. f = [n \in 0 .. 0 |-> B(f, n)]
    OBVIOUS
  <2> HIDE DEF f
  <2> QED BY <2>1
<1>2. ASSUME NEW m \in Nat, m \in T PROVE m + 1 \in T
  <2>1. PICK f : f = [n \in 0 .. m |-> B(f, n)]
    BY <1>2
  <2> DEFINE g == [n \in 0 .. m + 1 |-> B(f, n)]
  <2>2. \A n \in 0 .. m + 1 : B(f, n) = B(g, n)
    BY <2>1
  <2>3. g = [n \in 0 .. m + 1 |-> B(g, n)]
    <3> HIDE DEF B
    <3> QED BY <2>2
  <2>4. m + 1 \in Nat
    OBVIOUS
  <2> HIDE DEF g, B
  <2> QED BY <2>3, <2>4
<1>3. T \in SUBSET Nat
  OBVIOUS
<1> HIDE DEF T
<1>4. Len(cells) \in T
  BY <1>1, <1>2, <1>3, SetInduction
<1>5. PICK f : f = [n \in 0 .. Len(cells) |-> B(f, n)]
  BY <1>4 DEF T
<1>6. RunsUp(cells, f)
  BY <1>5 DEF RunsUp
<1>7. RunsUp(cells, Run(cells))
  BY <1>6 DEF Run
<1>8. Used(cells) = Run(cells)[Len(cells)]
  BY DEF Used, Run, RunsUp
<1> QED BY <1>7, <1>8

\* The running total: it starts at 0, grows cell by cell, and ends at Used().
LEMMA RunFacts ==
  ASSUME NEW C, CellSet(C), NEW cells \in Seq(C)
  PROVE  /\ Run(cells) \in [0 .. Len(cells) -> Nat]
         /\ Run(cells)[0] = 0
         /\ \A n \in 1 .. Len(cells) : Run(cells)[n] = Run(cells)[n - 1] + cells[n].size
         /\ Used(cells) = Run(cells)[Len(cells)]
         /\ Used(cells) \in Nat
<1> DEFINE R == Run(cells)
           T == {n \in Nat : n <= Len(cells) => R[n] \in Nat}
<1>0. Len(cells) \in Nat /\ \A n \in 1 .. Len(cells) : cells[n].size \in Nat
  BY DEF CellSet
<1>1. RunsUp(cells, R) /\ Used(cells) = R[Len(cells)]
  BY <1>0, RunExists
<1> HIDE DEF R
<1>2. R[0] = 0 /\ \A n \in 1 .. Len(cells) : R[n] = R[n - 1] + cells[n].size
  BY <1>0, <1>1 DEF RunsUp
<1>3. 0 \in T
  BY <1>2
<1>4. ASSUME NEW n \in Nat, n \in T PROVE n + 1 \in T
  <2> SUFFICES ASSUME n + 1 <= Len(cells) PROVE R[n + 1] \in Nat
    OBVIOUS
  <2>1. n + 1 \in 1 .. Len(cells) /\ R[n] \in Nat
    BY <1>4, <1>0
  <2>2. R[n + 1] = R[(n + 1) - 1] + cells[n + 1].size
    BY <1>2, <2>1
  <2> QED BY <1>0, <2>1, <2>2
<1>5. T \in SUBSET Nat
  OBVIOUS
<1> HIDE DEF T
<1>6. \A n \in Nat : n \in T
  BY <1>3, <1>4, <1>5, SetInduction
<1>7. \A n \in 0 .. Len(cells) : R[n] \in Nat
  BY <1>0, <1>6 DEF T
<1>8. R \in [0 .. Len(cells) -> Nat]
  BY <1>1, <1>7 DEF RunsUp
<1> QED BY <1>0, <1>1, <1>2, <1>8 DEF R

\* The m cells of c after the first a are as large as those of d after b.
SameSizes(c, a, d, b, m) == \A i \in 1 .. m : c[a + i].size = d[b + i].size

\* Two stretches of cells with the same sizes take the same room.
LEMMA RunShift ==
  ASSUME NEW C, CellSet(C), NEW c \in Seq(C), NEW D, CellSet(D), NEW d \in Seq(D),
         NEW a \in Nat, NEW b \in Nat, NEW m \in Nat, a + m <= Len(c), b + m <= Len(d),
         SameSizes(c, a, d, b, m)
  PROVE  Run(c)[a + m] - Run(c)[a] = Run(d)[b + m] - Run(d)[b]
<1>1. /\ Run(c) \in [0 .. Len(c) -> Nat] /\ \A n \in 1 .. Len(c) : Run(c)[n] = Run(c)[n - 1] + c[n].size
      /\ Run(d) \in [0 .. Len(d) -> Nat] /\ \A n \in 1 .. Len(d) : Run(d)[n] = Run(d)[n - 1] + d[n].size
  BY RunFacts
<1>2. \A n \in 1 .. Len(c) : c[n].size \in Nat
  BY DEF CellSet
<1>3. \A n \in 1 .. Len(d) : d[n].size \in Nat
  BY DEF CellSet
<1>4. Len(c) \in Nat /\ Len(d) \in Nat
  OBVIOUS
<1>5. \A i \in 0 .. m : Run(c)[a + i] \in Nat /\ Run(d)[b + i] \in Nat
  <2> TAKE i \in 0 .. m
  <2>1. a + i \in 0 .. Len(c) /\ b + i \in 0 .. Len(d)
    BY <1>4
  <2> QED BY <1>1, <2>1
<1>6. \A i \in 0 .. m - 1 : Run(c)[a + (i + 1)] - Run(c)[a + i] = Run(d)[b + (i + 1)] - Run(d)[b + i]
  <2> TAKE i \in 0 .. m - 1
  <2>1. /\ a + (i + 1) \in 1 .. Len(c) /\ b + (i + 1) \in 1 .. Len(d) /\ i + 1 \in 1 .. m
        /\ (a + (i + 1)) - 1 = a + i /\ (b + (i + 1)) - 1 = b + i /\ i \in 0 .. m
    BY <1>4
  <2>2. c[a + (i + 1)].size = d[b + (i + 1)].size
    BY <2>1 DEF SameSizes
  <2>3. Run(c)[a + (i + 1)] = Run(c)[a + i] + c[a + (i + 1)].size
    BY <1>1, <2>1
  <2>4. Run(d)[b + (i + 1)] = Run(d)[b + i] + d[b + (i + 1)].size
    BY <1>1, <2>1
  <2>5. Run(c)[a + i] \in Nat /\ Run(d)[b + i] \in Nat
    BY <1>5, <2>1
  <2>6. c[a + (i + 1)].size \in Nat
    BY <1>2, <2>1
  <2>7. PICK x \in Nat, p \in Nat, q \in Nat :
           x = c[a + (i + 1)].size /\ p = Run(c)[a + i] /\ q = Run(d)[b + i]
    BY ONLY <2>5, <2>6
  <2>8. (p + x) - p = (q + x) - q
    OBVIOUS
  <2> QED BY ONLY <2>2, <2>3, <2>4, <2>7, <2>8
<1> DEFINE p(i) == Run(c)[a + i]  q(i) == Run(d)[b + i]
           T == {n \in Nat : n <= m => p(n) - p(0) = q(n) - q(0)}
<1>7. /\ \A i \in 0 .. m : p(i) \in Nat /\ q(i) \in Nat
      /\ \A i \in 0 .. m - 1 : p(i + 1) - p(i) = q(i + 1) - q(i)
  BY <1>5, <1>6
<1>8. p(0) = Run(c)[a] /\ q(0) = Run(d)[b]
  <2>1. a + 0 = a /\ b + 0 = b
    OBVIOUS
  <2> QED BY <2>1
<1> HIDE DEF p, q
<1>9. 0 \in T
  <2>1. p(0) \in Nat /\ q(0) \in Nat
    BY <1>7
  <2> QED BY <2>1
<1>10. ASSUME NEW n \in Nat, n \in T PROVE n + 1 \in T
  <2> SUFFICES ASSUME n + 1 <= m PROVE p(n + 1) - p(0) = q(n + 1) - q(0)
    OBVIOUS
  <2>1. n \in 0 .. m - 1 /\ n \in 0 .. m /\ n + 1 \in 0 .. m /\ 0 \in 0 .. m
    OBVIOUS
  <2>2. p(n) - p(0) = q(n) - q(0)
    BY <1>10, <2>1
  <2>3. p(n + 1) - p(n) = q(n + 1) - q(n)
    BY <1>7, <2>1
  <2>4. p(n + 1) \in Nat /\ p(n) \in Nat /\ p(0) \in Nat /\ q(n + 1) \in Nat /\ q(n) \in Nat /\ q(0) \in Nat
    BY <1>7, <2>1
  <2>5. PICK p1 \in Nat, pn \in Nat, p0 \in Nat, q1 \in Nat, qn \in Nat, q0 \in Nat :
            p1 = p(n + 1) /\ pn = p(n) /\ p0 = p(0) /\ q1 = q(n + 1) /\ qn = q(n) /\ q0 = q(0)
    BY ONLY <2>4
  <2>6. pn - p0 = qn - q0 /\ p1 - pn = q1 - qn
    BY ONLY <2>2, <2>3, <2>5
  <2>7. p1 - p0 = q1 - q0
    BY ONLY <2>6
  <2> QED BY ONLY <2>5, <2>7
<1>11. T \in SUBSET Nat
  OBVIOUS
<1> HIDE DEF T
<1>12. m \in T
  BY <1>9, <1>10, <1>11, SetInduction
<1>13. p(m) - p(0) = q(m) - q(0)
  BY <1>12 DEF T
<1>14. p(m) = Run(c)[a + m] /\ q(m) = Run(d)[b + m]
  BY DEF p, q
<1> QED BY ONLY <1>8, <1>13, <1>14, Zenon

\* w is c with x at slot s; r is c without its slot s; d is the slots m to n of c.
IsInsert(c, s, x, w) ==
  /\ w[s] = x
  /\ \A i \in 1 .. s - 1 : w[i] = c[i]
  /\ \A i \in s .. Len(c) : w[i + 1] = c[i]
IsRemoval(c, s, r) ==
  /\ \A i \in 1 .. s - 1 : r[i] = c[i]
  /\ \A i \in s .. Len(c) - 1 : r[i] = c[i + 1]
IsPart(c, m, n, d) == \A i \in 1 .. n + 1 - m : d[i] = c[m - 1 + i]

\* The cells of a page with one more.
LEMMA WithCellFacts ==
  ASSUME NEW C, NEW c \in Seq(C), NEW x \in C, NEW s \in 1 .. Len(c) + 1
  PROVE  /\ WithCell(c, s, x) \in Seq(C)
         /\ Len(WithCell(c, s, x)) = Len(c) + 1
         /\ IsInsert(c, s, x, WithCell(c, s, x))
<1> DEFINE a == SubSeq(c, 1, s - 1)  b == SubSeq(c, s, Len(c))
<1>0. Len(c) \in Nat
  OBVIOUS
<1>1. a \in Seq(C) /\ Len(a) = s - 1 /\ \A i \in 1 .. s - 1 : a[i] = c[i]
  BY <1>0
<1>2. b \in Seq(C) /\ Len(b) = Len(c) + 1 - s /\ \A i \in 1 .. Len(c) + 1 - s : b[i] = c[s + i - 1]
  BY <1>0
<1>3. WithCell(c, s, x) = a \o <<x>> \o b
  BY DEF WithCell, InsertAt
<1> HIDE DEF a, b
<1> DEFINE w == (a \o <<x>>) \o b
<1>4. w \in Seq(C) /\ Len(w) = Len(c) + 1 /\ w[s] = x /\ \A i \in 1 .. s - 1 : w[i] = c[i]
  <2> DEFINE v == a \o <<x>>
  <2>1. v \in Seq(C) /\ Len(v) = s /\ v[s] = x /\ \A i \in 1 .. s - 1 : v[i] = c[i]
    BY <1>0, <1>1
  <2> HIDE DEF v
  <2>2. v \o b \in Seq(C) /\ Len(v \o b) = Len(v) + Len(b) /\ \A i \in 1 .. Len(v) : (v \o b)[i] = v[i]
    <3>1. v \in Seq(C) /\ b \in Seq(C)
      BY <1>2, <2>1
    <3> HIDE DEF w
    <3> QED BY ONLY <3>1
  <2>3. Len(v \o b) = Len(c) + 1
    BY <1>0, <1>2, <2>1, <2>2
  <2>4. s \in 1 .. Len(v) /\ \A i \in 1 .. s - 1 : i \in 1 .. Len(v)
    BY <2>1
  <2>5. w = v \o b
    BY DEF v
  <2> HIDE DEF w
  <2> QED BY ONLY <2>1, <2>2, <2>3, <2>4, <2>5
<1>5. \A i \in s .. Len(c) : w[i + 1] = c[i]
  <2> TAKE i \in s .. Len(c)
  <2>1. w[i + 1] = b[i + 1 - s]
    BY <1>0, <1>1, <1>2
  <2>2. i + 1 - s \in 1 .. Len(c) + 1 - s
    BY <1>0
  <2>3. b[i + 1 - s] = c[s + (i + 1 - s) - 1]
    BY <1>2, <2>2
  <2>4. s + (i + 1 - s) - 1 = i
    OBVIOUS
  <2> QED BY <2>1, <2>3, <2>4
<1> QED BY <1>3, <1>4, <1>5 DEF IsInsert

\* ... and with one less.
LEMMA WithoutFacts ==
  ASSUME NEW C, NEW c \in Seq(C), NEW s \in 1 .. Len(c)
  PROVE  /\ RemoveAt(c, s) \in Seq(C)
         /\ Len(RemoveAt(c, s)) = Len(c) - 1
         /\ IsRemoval(c, s, RemoveAt(c, s))
<1> DEFINE a == SubSeq(c, 1, s - 1)  b == SubSeq(c, s + 1, Len(c))
<1>0. Len(c) \in Nat
  OBVIOUS
<1>1. a \in Seq(C) /\ Len(a) = s - 1 /\ \A i \in 1 .. s - 1 : a[i] = c[i]
  BY <1>0
<1>2. b \in Seq(C) /\ Len(b) = Len(c) - s /\ \A i \in 1 .. Len(c) - s : b[i] = c[(s + 1) + i - 1]
  BY <1>0
<1>3. RemoveAt(c, s) = a \o b
  BY DEF RemoveAt
<1> HIDE DEF a, b
<1> DEFINE w == a \o b
<1>4. w \in Seq(C) /\ Len(w) = Len(c) - 1 /\ \A i \in 1 .. s - 1 : w[i] = c[i]
  BY <1>0, <1>1, <1>2
<1>5. \A i \in s .. Len(c) - 1 : w[i] = c[i + 1]
  <2> TAKE i \in s .. Len(c) - 1
  <2>1. w[i] = b[i + 1 - s]
    BY <1>0, <1>1, <1>2
  <2>2. i + 1 - s \in 1 .. Len(c) - s
    BY <1>0
  <2>3. b[i + 1 - s] = c[(s + 1) + (i + 1 - s) - 1]
    BY <1>2, <2>2
  <2>4. (s + 1) + (i + 1 - s) - 1 = i + 1
    OBVIOUS
  <2> QED BY <2>1, <2>3, <2>4
<1> QED BY <1>3, <1>4, <1>5 DEF IsRemoval

\* The cells from m to n.
LEMMA SubSeqFacts ==
  ASSUME NEW C, NEW c \in Seq(C), NEW m \in 1 .. Len(c) + 1, NEW n \in m - 1 .. Len(c)
  PROVE  /\ SubSeq(c, m, n) \in Seq(C)
         /\ Len(SubSeq(c, m, n)) = n + 1 - m
         /\ IsPart(c, m, n, SubSeq(c, m, n))
<1>0. Len(c) \in Nat
  OBVIOUS
<1>1. SubSeq(c, m, n) \in Seq(C) /\ Len(SubSeq(c, m, n)) = n + 1 - m
  BY <1>0
<1>2. \A i \in 1 .. n + 1 - m : SubSeq(c, m, n)[i] = c[m - 1 + i]
  <2> TAKE i \in 1 .. n + 1 - m
  <2>1. SubSeq(c, m, n)[i] = c[m + i - 1] /\ m + i - 1 = m - 1 + i
    BY <1>0
  <2> QED BY <2>1
<1> QED BY <1>1, <1>2 DEF IsPart

\* The first n cells, and the others.
LEMMA UsedParts ==
  ASSUME NEW C, CellSet(C), NEW c \in Seq(C), NEW n \in 0 .. Len(c)
  PROVE  /\ Used(SubSeq(c, 1, n)) = Run(c)[n]
         /\ Used(SubSeq(c, n + 1, Len(c))) = Used(c) - Run(c)[n]
         /\ Run(c)[n] \in Nat /\ Run(c)[n] <= Used(c)
<1> DEFINE a == SubSeq(c, 1, n)  b == SubSeq(c, n + 1, Len(c))
<1>0. Len(c) \in Nat
  OBVIOUS
<1>c. CellSet(C) /\ 0 \in Nat
  OBVIOUS
<1>1. a \in Seq(C) /\ Len(a) = n /\ \A i \in 1 .. n : a[i] = c[i]
  <2>1. 1 \in 1 .. Len(c) + 1 /\ n \in 1 - 1 .. Len(c) /\ n + 1 - 1 = n /\ 1 - 1 = 0
    BY <1>0
  <2>2. a \in Seq(C) /\ Len(a) = n /\ \A i \in 1 .. n : a[i] = c[0 + i]
    BY <2>1, SubSeqFacts DEF IsPart
  <2> QED BY <2>2
<1>2. b \in Seq(C) /\ Len(b) = Len(c) - n /\ \A i \in 1 .. Len(c) - n : b[i] = c[n + i]
  <2>1. n + 1 \in 1 .. Len(c) + 1 /\ Len(c) \in (n + 1) - 1 .. Len(c)
        /\ Len(c) + 1 - (n + 1) = Len(c) - n /\ (n + 1) - 1 = n
    BY <1>0
  <2> QED BY <2>1, SubSeqFacts DEF IsPart
<1> HIDE DEF a, b
<1>3. Run(a)[n] - Run(a)[0] = Run(c)[n] - Run(c)[0]
  <2>1. /\ 0 + n <= Len(a) /\ 0 + n <= Len(c) /\ n \in Nat /\ 0 + n = n
        /\ SameSizes(a, 0, c, 0, n)
    BY <1>0, <1>1 DEF SameSizes
  <2>2. Run(a)[0 + n] - Run(a)[0] = Run(c)[0 + n] - Run(c)[0]
    BY ONLY <2>1, <1>c, <1>1, RunShift
  <2> QED BY <2>1, <2>2
<1>4. Run(b)[Len(c) - n] - Run(b)[0] = Run(c)[Len(c)] - Run(c)[n]
  <2>1. /\ 0 + (Len(c) - n) <= Len(b) /\ n + (Len(c) - n) <= Len(c) /\ n \in Nat /\ Len(c) - n \in Nat
        /\ 0 + (Len(c) - n) = Len(c) - n /\ n + (Len(c) - n) = Len(c)
        /\ SameSizes(b, 0, c, n, Len(c) - n)
    BY <1>0, <1>2 DEF SameSizes
  <2>2. Run(b)[0 + (Len(c) - n)] - Run(b)[0] = Run(c)[n + (Len(c) - n)] - Run(c)[n]
    BY ONLY <2>1, <1>c, <1>2, RunShift
  <2> QED BY <2>1, <2>2
<1>5. Used(a) = Run(a)[n] /\ Used(a) \in Nat /\ Run(a)[0] = 0
  BY <1>1, RunFacts
<1>6. Used(b) = Run(b)[Len(c) - n] /\ Used(b) \in Nat /\ Run(b)[0] = 0
  BY <1>2, RunFacts
<1>7. Used(c) = Run(c)[Len(c)] /\ Used(c) \in Nat /\ Run(c)[0] = 0 /\ Run(c)[n] \in Nat
  BY RunFacts
<1>8. PICK ua \in Nat, ub \in Nat, uc \in Nat, rn \in Nat :
         ua = Used(a) /\ ub = Used(b) /\ uc = Used(c) /\ rn = Run(c)[n]
  BY ONLY <1>5, <1>6, <1>7
<1>9. ua - 0 = rn - 0 /\ ub - 0 = uc - rn
  BY ONLY <1>3, <1>4, <1>5, <1>6, <1>7, <1>8
<1>10. ua = rn /\ ub = uc - rn /\ rn <= uc
  BY ONLY <1>9
<1>11. Used(a) = Run(c)[n] /\ Used(b) = Used(c) - Run(c)[n] /\ Run(c)[n] \in Nat /\ Run(c)[n] <= Used(c)
  BY ONLY <1>8, <1>10
<1> QED BY <1>11 DEF a, b

\* insert_cell() takes the room of the cell.
LEMMA UsedInsert ==
  ASSUME NEW C, CellSet(C), NEW c \in Seq(C), NEW x \in C, NEW s \in 1 .. Len(c) + 1
  PROVE  Used(WithCell(c, s, x)) = Used(c) + x.size
<1> DEFINE w == WithCell(c, s, x)  n == s - 1  m == Len(c) - n
<1>c. CellSet(C) /\ 0 \in Nat
  OBVIOUS
<1>0. Len(c) \in Nat /\ n \in Nat /\ m \in Nat /\ s \in Nat /\ n + 1 = s /\ s - 1 = n
      /\ n \in 0 .. Len(c) /\ n + m = Len(c) /\ s + m = Len(c) + 1 /\ 0 + n = n
  OBVIOUS
<1>1. w \in Seq(C) /\ Len(w) = Len(c) + 1 /\ IsInsert(c, s, x, w)
  BY WithCellFacts
<1>2. SameSizes(w, 0, c, 0, n)
  <2> SUFFICES ASSUME NEW i \in 1 .. n PROVE w[0 + i].size = c[0 + i].size
    BY DEF SameSizes
  <2>1. i \in 1 .. s - 1 /\ 0 + i = i
    BY <1>0
  <2> QED BY <2>1, <1>1 DEF IsInsert
<1>3. SameSizes(w, s, c, n, m)
  <2> SUFFICES ASSUME NEW i \in 1 .. m PROVE w[s + i].size = c[n + i].size
    BY DEF SameSizes
  <2>1. n + i \in s .. Len(c) /\ s + i = (n + i) + 1
    BY <1>0
  <2> QED BY <2>1, <1>1 DEF IsInsert
<1> HIDE DEF w
<1>4. 0 + n <= Len(w) /\ 0 + n <= Len(c) /\ s + m <= Len(w) /\ n + m <= Len(c)
  BY <1>0, <1>1
<1> HIDE DEF n, m
<1>5. Run(w)[0 + n] - Run(w)[0] = Run(c)[0 + n] - Run(c)[0]
  BY ONLY <1>c, <1>0, <1>1, <1>2, <1>4, RunShift
<1>6. Run(w)[s + m] - Run(w)[s] = Run(c)[n + m] - Run(c)[n]
  BY ONLY <1>c, <1>0, <1>1, <1>3, <1>4, RunShift
<1>7. /\ Run(w) \in [0 .. Len(w) -> Nat] /\ Run(w)[0] = 0 /\ Used(w) = Run(w)[Len(w)]
      /\ \A i \in 1 .. Len(w) : Run(w)[i] = Run(w)[i - 1] + w[i].size
  BY <1>1, RunFacts
<1>8. /\ Run(c) \in [0 .. Len(c) -> Nat] /\ Run(c)[0] = 0 /\ Used(c) = Run(c)[Len(c)]
  BY RunFacts
<1>9. s \in 1 .. Len(w) /\ n \in 0 .. Len(w) /\ s \in 0 .. Len(w) /\ Len(w) \in 0 .. Len(w)
      /\ Len(c) \in 0 .. Len(c)
  BY <1>0, <1>1
<1>10. Run(w)[s] = Run(w)[n] + x.size /\ x.size \in Nat
  <2>1. Run(w)[s] = Run(w)[s - 1] + w[s].size
    BY ONLY <1>7, <1>9
  <2>2. x.size \in Nat
    BY DEF CellSet
  <2>3. w[s] = x
    BY <1>1 DEF IsInsert
  <2> QED BY ONLY <1>0, <2>1, <2>2, <2>3
<1>11. /\ Run(w)[n] \in Nat /\ Run(w)[s] \in Nat /\ Run(w)[Len(w)] \in Nat
       /\ Run(c)[n] \in Nat /\ Run(c)[Len(c)] \in Nat
  BY ONLY <1>7, <1>8, <1>9, <1>0
<1>12. PICK wn \in Nat, ws \in Nat, wl \in Nat, cn \in Nat, cl \in Nat, xs \in Nat :
          /\ wn = Run(w)[n] /\ ws = Run(w)[s] /\ wl = Run(w)[Len(w)] /\ cn = Run(c)[n]
          /\ cl = Run(c)[Len(c)] /\ xs = x.size
  BY ONLY <1>10, <1>11
<1>13. wn - 0 = cn - 0 /\ wl - ws = cl - cn /\ ws = wn + xs
  BY ONLY <1>0, <1>1, <1>5, <1>6, <1>7, <1>8, <1>10, <1>12
<1>14. wl = cl + xs
  BY ONLY <1>13
<1>15. Used(w) = Used(c) + x.size
  BY ONLY <1>7, <1>8, <1>12, <1>14
<1> QED BY <1>15 DEF w

\* delete_cell() gives it back.
LEMMA UsedRemove ==
  ASSUME NEW C, CellSet(C), NEW c \in Seq(C), NEW s \in 1 .. Len(c)
  PROVE  Used(c) = Used(WithoutCell(c, s)) + c[s].size
<1> DEFINE r == WithoutCell(c, s)  w == WithCell(r, s, c[s])
<1>0. Len(c) \in Nat /\ c[s] \in C
  OBVIOUS
<1>1. r \in Seq(C) /\ Len(r) = Len(c) - 1 /\ IsRemoval(c, s, r)
  BY WithoutFacts DEF WithoutCell
<1> HIDE DEF r
<1>2. s \in 1 .. Len(r) + 1
  BY <1>0, <1>1
<1>3. w \in Seq(C) /\ Len(w) = Len(r) + 1 /\ IsInsert(r, s, c[s], w)
  BY <1>0, <1>1, <1>2, WithCellFacts
<1>4. Used(w) = Used(r) + c[s].size
  BY <1>0, <1>1, <1>2, UsedInsert
<1> HIDE DEF w
<1>5. \A i \in 1 .. Len(c) : w[i] = c[i]
  <2> TAKE i \in 1 .. Len(c)
  <2>1. CASE i < s
    BY <2>1, <1>1, <1>3 DEF IsInsert, IsRemoval
  <2>2. CASE i = s
    BY <2>2, <1>3 DEF IsInsert
  <2>3. CASE i > s
    <3>1. i - 1 \in s .. Len(r) /\ i - 1 \in s .. Len(c) - 1 /\ (i - 1) + 1 = i
      BY <2>3, <1>0, <1>1
    <3>2. w[(i - 1) + 1] = r[i - 1]
      BY ONLY <1>3, <3>1 DEF IsInsert
    <3>3. r[i - 1] = c[(i - 1) + 1]
      BY ONLY <1>1, <3>1 DEF IsRemoval
    <3> QED BY ONLY <3>1, <3>2, <3>3
  <2> QED BY <2>1, <2>2, <2>3
<1>6. Len(w) = Len(c)
  BY <1>0, <1>1, <1>3
<1>7. w = c
  BY <1>3, <1>5, <1>6
<1> QED BY <1>4, <1>7 DEF r

\* Cells with the same sizes take the same room.
LEMMA UsedSame ==
  ASSUME NEW C, CellSet(C), NEW c \in Seq(C), NEW D, CellSet(D), NEW d \in Seq(D), Len(c) = Len(d),
         \A i \in 1 .. Len(c) : c[i].size = d[i].size
  PROVE  Used(c) = Used(d)
<1>c. CellSet(C) /\ CellSet(D) /\ 0 \in Nat
  OBVIOUS
<1>1. /\ Len(c) \in Nat /\ 0 + Len(c) <= Len(c) /\ 0 + Len(c) <= Len(d) /\ SameSizes(c, 0, d, 0, Len(c))
      /\ 0 + Len(c) = Len(c) /\ Len(c) = Len(d)
  BY DEF SameSizes
<1>2. Run(c)[0 + Len(c)] - Run(c)[0] = Run(d)[0 + Len(c)] - Run(d)[0]
  BY ONLY <1>c, <1>1, RunShift
<1>3. Used(c) = Run(c)[Len(c)] /\ Run(c)[0] = 0 /\ Used(c) \in Nat
  BY RunFacts
<1>4. Used(d) = Run(d)[Len(d)] /\ Run(d)[0] = 0 /\ Used(d) \in Nat
  BY RunFacts
<1>5. PICK uc \in Nat, ud \in Nat : uc = Used(c) /\ ud = Used(d)
  BY ONLY <1>3, <1>4
<1>6. uc - 0 = ud - 0
  BY ONLY <1>1, <1>2, <1>3, <1>4, <1>5
<1>7. uc = ud
  BY ONLY <1>6
<1> QED BY ONLY <1>5, <1>7

\* An interior page of a table takes one unit a cell.
LEMMA UsedUnits ==
  ASSUME NEW C, CellSet(C), NEW c \in Seq(C), \A i \in 1 .. Len(c) : c[i].size = 1
  PROVE  Used(c) = Len(c)
<1> DEFINE T == {n \in Nat : n <= Len(c) => Run(c)[n] = n}
<1>0. Len(c) \in Nat
  OBVIOUS
<1>1. /\ Run(c)[0] = 0 /\ Used(c) = Run(c)[Len(c)]
      /\ \A n \in 1 .. Len(c) : Run(c)[n] = Run(c)[n - 1] + c[n].size
  BY RunFacts
<1>2. 0 \in T
  BY <1>1
<1>3. ASSUME NEW n \in Nat, n \in T PROVE n + 1 \in T
  <2> SUFFICES ASSUME n + 1 <= Len(c) PROVE Run(c)[n + 1] = n + 1
    OBVIOUS
  <2>1. n + 1 \in 1 .. Len(c) /\ (n + 1) - 1 = n /\ Run(c)[n] = n
    BY <1>0, <1>3
  <2>2. Run(c)[n + 1] = Run(c)[(n + 1) - 1] + c[n + 1].size /\ c[n + 1].size = 1
    BY <1>1, <2>1
  <2> QED BY ONLY <2>1, <2>2
<1>4. T \in SUBSET Nat
  OBVIOUS
<1> HIDE DEF T
<1>5. Len(c) \in T
  BY <1>0, <1>2, <1>3, <1>4, SetInduction
<1> QED BY <1>0, <1>1, <1>5 DEF T

-----------------------------------------------------------------------------
(* The search inside a page *)

Sorted(c) == \A i, j \in 1 .. Len(c) : i < j => c[i].key < c[j].key

\* x belongs at slot i of c.
Routes(c, i, x) == \A j \in 1 .. Len(c) : IF j < i THEN c[j].key < x ELSE x <= c[j].key

\* A key belongs to one slot only.
LEMMA RoutesOnce ==
  ASSUME NEW C, CellSet(C), NEW c \in Seq(C), NEW x \in Nat,
         NEW i \in 1 .. Len(c) + 1, NEW j \in 1 .. Len(c) + 1, Routes(c, i, x), Routes(c, j, x)
  PROVE  i = j
<1>0. Len(c) \in Nat /\ \A k \in 1 .. Len(c) : c[k].key \in Nat
  BY DEF CellSet
<1>1. ~(i < j)
  <2> SUFFICES ASSUME i < j PROVE FALSE
    OBVIOUS
  <2>1. i \in 1 .. Len(c)
    BY <1>0
  <2>2. c[i].key < x /\ x <= c[i].key
    BY <2>1 DEF Routes
  <2> QED BY <1>0, <2>1, <2>2
<1>2. ~(j < i)
  <2> SUFFICES ASSUME j < i PROVE FALSE
    OBVIOUS
  <2>1. j \in 1 .. Len(c)
    BY <1>0
  <2>2. c[j].key < x /\ x <= c[j].key
    BY <2>1 DEF Routes
  <2> QED BY <1>0, <2>1, <2>2
<1> QED BY <1>0, <1>1, <1>2

\* leaf_slot_lower_bound() and interior_slot_for_key() find that slot.
LEMMA LowerBoundRoutes ==
  ASSUME NEW C, CellSet(C), NEW c \in Seq(C), Sorted(c), NEW x \in Nat
  PROVE  LowerBound(c, x) \in 1 .. Len(c) + 1 /\ Routes(c, LowerBound(c, x), x)
<1> DEFINE S == {i \in 1 .. Len(c) : x <= c[i].key}
           Q(i) == x <= c[i].key /\ \A j \in 1 .. i - 1 : c[j].key < x
<1>0. Len(c) \in Nat /\ \A k \in 1 .. Len(c) : c[k].key \in Nat
  BY DEF CellSet
<1>1. CASE S = {}
  <2>1. LowerBound(c, x) = Len(c) + 1
    BY <1>1 DEF LowerBound, Slots
  <2>2. Routes(c, Len(c) + 1, x)
    BY <1>0, <1>1 DEF Routes
  <2> QED BY <1>0, <2>1, <2>2
<1>2. CASE S # {}
  <2>1. S \in SUBSET Nat
    BY <1>0
  <2> HIDE DEF S
  <2>2. PICK n \in S : \A m \in S : n <= m
    BY <1>2, <2>1, LeastNatural
  <2>3. n \in 1 .. Len(c) /\ Q(n)
    <3>1. n \in 1 .. Len(c) /\ x <= c[n].key
      BY <2>2 DEF S
    <3>2. ASSUME NEW j \in 1 .. n - 1 PROVE c[j].key < x
      <4>1. j \in 1 .. Len(c) /\ ~(n <= j)
        BY <1>0, <3>1
      <4>2. j \notin S
        BY <2>2, <4>1
      <4>3. ~(x <= c[j].key)
        BY <4>1, <4>2 DEF S
      <4> QED BY <1>0, <4>1, <4>3
    <3> QED BY <3>1, <3>2
  <2>4. LowerBound(c, x) = CHOOSE i \in 1 .. Len(c) : Q(i)
    BY <2>3 DEF LowerBound, Slots
  <2> DEFINE b == LowerBound(c, x)
  <2>5. b \in 1 .. Len(c) /\ Q(b)
    BY <2>3, <2>4
  <2> HIDE DEF b
  <2>6. ASSUME NEW j \in 1 .. Len(c) PROVE IF j < b THEN c[j].key < x ELSE x <= c[j].key
    <3>1. CASE j < b
      BY <3>1, <1>0, <2>5
    <3>2. CASE j = b
      BY <3>2, <2>5
    <3>3. CASE j > b
      <4>1. c[b].key < c[j].key
        BY <2>5, <3>3 DEF Sorted
      <4> QED BY <1>0, <2>5, <3>3, <4>1
    <3> QED BY <1>0, <2>5, <3>1, <3>2, <3>3
  <2>7. Routes(c, b, x)
    BY <2>6 DEF Routes
  <2> QED BY <1>0, <2>5, <2>7 DEF b
<1> QED BY <1>1, <1>2

\* The slot a key belongs to is the one the search finds.
LEMMA RoutesLowerBound ==
  ASSUME NEW C, CellSet(C), NEW c \in Seq(C), Sorted(c), NEW x \in Nat,
         NEW i \in 1 .. Len(c) + 1, Routes(c, i, x)
  PROVE  LowerBound(c, x) = i
BY LowerBoundRoutes, RoutesOnce

-----------------------------------------------------------------------------
(* The decisions of a split *)

\* The loops of split.py find their minimum.
LEMMA LastMinimumFacts ==
  ASSUME NEW b \in Nat, NEW D \in SUBSET (0 .. b), D # {}, NEW f \in [D -> Nat]
  PROVE  LastMinimum(f) \in D /\ \A j \in D : f[LastMinimum(f)] <= f[j]
<1> DEFINE V == {f[i] : i \in D}
<1>1. V \in SUBSET Nat /\ V # {}
  OBVIOUS
<1>2. PICK v \in V : \A u \in V : v <= u
  BY <1>1, LeastNatural
<1> DEFINE E == {i \in D : f[i] = v}
<1>3. E \in SUBSET (0 .. b) /\ E # {}
  OBVIOUS
<1>4. PICK n \in E : \A m \in E : m <= n
  BY <1>3, GreatestNatural
<1>5. n \in D /\ \A j \in D : f[n] < f[j] \/ (f[n] = f[j] /\ j <= n)
  <2>1. n \in D /\ f[n] = v
    OBVIOUS
  <2>2. ASSUME NEW j \in D PROVE f[n] < f[j] \/ (f[n] = f[j] /\ j <= n)
    <3>1. v <= f[j] /\ v \in Nat /\ f[j] \in Nat
      BY <1>1, <1>2
    <3>2. CASE v < f[j]
      BY <3>2, <2>1
    <3>3. CASE v = f[j]
      BY <3>3, <2>1, <1>4
    <3> QED BY ONLY <3>1, <3>2, <3>3
  <2> QED BY <2>1, <2>2
<1> DEFINE Q(i) == \A j \in D : f[i] < f[j] \/ (f[i] = f[j] /\ j <= i)
<1>6. LastMinimum(f) = CHOOSE i \in D : Q(i)
  BY DEF LastMinimum
<1>7. LastMinimum(f) \in D /\ Q(LastMinimum(f))
  <2> HIDE DEF Q
  <2> QED BY <1>5, <1>6 DEF Q
<1> DEFINE x == LastMinimum(f)
<1>8. x \in D /\ \A j \in D : f[x] < f[j] \/ (f[x] = f[j] /\ j <= x)
  BY <1>7
<1> HIDE DEF x
<1>9. \A j \in D : f[x] \in Nat /\ f[j] \in Nat
  BY <1>8
<1>10. \A j \in D : f[x] <= f[j]
  BY <1>8, <1>9
<1> QED BY <1>8, <1>10 DEF x

\* A distance is a natural number.
LEMMA DistanceNat ==
  ASSUME NEW a \in Nat, NEW b \in Nat
  PROVE  Distance(a, b) \in Nat
BY DEF Distance

\* Whatever is split, each half gets a cell; and of all the ways to cut the
\* cells in two, none has a smaller larger half than the one chosen.
LEMMA ClosestToHalfFacts ==
  ASSUME NEW C, CellSet(C), NEW c \in Seq(C), Len(c) >= 2
  PROVE  /\ ClosestToHalf(c) \in 1 .. Len(c) - 1
         /\ \A n \in 1 .. Len(c) - 1 :
               Distance(2 * Run(c)[ClosestToHalf(c)], Used(c)) <= Distance(2 * Run(c)[n], Used(c))
<1> DEFINE D == 1 .. Len(c) - 1
           f == [n \in D |-> Distance(2 * UsedUpTo(c, n), Used(c))]
<1>0. Len(c) \in Nat /\ D \in SUBSET (0 .. Len(c)) /\ D # {}
  <2>1. Len(c) \in Nat
    OBVIOUS
  <2>2. 1 \in D
    BY <2>1
  <2>3. \A n \in D : n \in 0 .. Len(c)
    BY <2>1
  <2> HIDE DEF D
  <2> QED BY ONLY <2>1, <2>2, <2>3
<1>1. Used(c) \in Nat
  BY RunFacts
<1>2. \A n \in D : UsedUpTo(c, n) = Run(c)[n] /\ Run(c)[n] \in Nat
  <2> TAKE n \in D
  <2>1. n \in 0 .. Len(c)
    BY <1>0
  <2> QED BY <2>1, UsedParts DEF UsedUpTo
<1>3. \A n \in D : Distance(2 * Run(c)[n], Used(c)) \in Nat
  <2> TAKE n \in D
  <2>1. 2 * Run(c)[n] \in Nat
    BY <1>2
  <2> QED BY <1>1, <2>1, DistanceNat
<1>4. f = [n \in D |-> Distance(2 * Run(c)[n], Used(c))]
  BY <1>2
<1>5. ClosestToHalf(c) = LastMinimum(f)
  BY DEF ClosestToHalf
<1> HIDE DEF D
<1>6. f \in [D -> Nat]
  BY <1>3, <1>4
<1> HIDE DEF f
<1>7. LastMinimum(f) \in D /\ \A j \in D : f[LastMinimum(f)] <= f[j]
  BY <1>0, <1>6, LastMinimumFacts
<1>8. \A j \in D : f[j] = Distance(2 * Run(c)[j], Used(c))
  BY <1>4
<1> QED BY <1>5, <1>7, <1>8 DEF D

\* A split leaves at least one cell on either side.
LEMMA LeftSizeFacts ==
  ASSUME NEW C, CellSet(C), NEW c \in Seq(C), Len(c) >= 2, NEW append
  PROVE  LeftSize(c, append) \in 1 .. Len(c) - 1
<1>1. Len(c) \in Nat
  OBVIOUS
<1>2. ClosestToHalf(c) \in 1 .. Len(c) - 1
  BY ClosestToHalfFacts
<1>3. Len(c) - 1 \in 1 .. Len(c) - 1
  BY <1>1
<1> QED BY <1>2, <1>3 DEF LeftSize

\* The cell consumed by an interior split is the one that divides the bytes best.
LEMMA ConsumeFacts ==
  ASSUME NEW C, CellSet(C), NEW c \in Seq(C), Len(c) >= 1
  PROVE  /\ ConsumeClosestToHalf(c) \in 1 .. Len(c)
         /\ \A m \in 1 .. Len(c) :
               Distance(Run(c)[ConsumeClosestToHalf(c) - 1] + Run(c)[ConsumeClosestToHalf(c)], Used(c))
                   <= Distance(Run(c)[m - 1] + Run(c)[m], Used(c))
<1> DEFINE D == 1 .. Len(c)
           f == [m \in D |-> Distance(UsedUpTo(c, m - 1) + UsedUpTo(c, m), Used(c))]
<1>0. Len(c) \in Nat /\ D \in SUBSET (0 .. Len(c)) /\ D # {}
  <2>1. Len(c) \in Nat
    OBVIOUS
  <2>2. 1 \in D
    BY <2>1
  <2>3. \A n \in D : n \in 0 .. Len(c)
    BY <2>1
  <2> HIDE DEF D
  <2> QED BY ONLY <2>1, <2>2, <2>3
<1>1. Used(c) \in Nat
  BY RunFacts
<1>2. \A n \in 0 .. Len(c) : UsedUpTo(c, n) = Run(c)[n] /\ Run(c)[n] \in Nat
  BY UsedParts DEF UsedUpTo
<1>3. \A m \in D : Distance(Run(c)[m - 1] + Run(c)[m], Used(c)) \in Nat
  <2> TAKE m \in D
  <2>1. m \in 0 .. Len(c) /\ m - 1 \in 0 .. Len(c)
    BY <1>0
  <2>2. Run(c)[m - 1] \in Nat /\ Run(c)[m] \in Nat
    BY <1>2, <2>1
  <2>3. Run(c)[m - 1] + Run(c)[m] \in Nat
    BY <2>2
  <2> QED BY <1>1, <2>3, DistanceNat
<1>4. f = [m \in D |-> Distance(Run(c)[m - 1] + Run(c)[m], Used(c))]
  <2>1. \A m \in D : UsedUpTo(c, m - 1) = Run(c)[m - 1] /\ UsedUpTo(c, m) = Run(c)[m]
    BY <1>0, <1>2
  <2> QED BY <2>1
<1>5. ConsumeClosestToHalf(c) = LastMinimum(f)
  BY DEF ConsumeClosestToHalf, Slots
<1> HIDE DEF D
<1>6. f \in [D -> Nat]
  BY <1>3, <1>4
<1> HIDE DEF f
<1>7. LastMinimum(f) \in D /\ \A j \in D : f[LastMinimum(f)] <= f[j]
  BY <1>0, <1>6, LastMinimumFacts
<1>8. \A j \in D : f[j] = Distance(Run(c)[j - 1] + Run(c)[j], Used(c))
  BY <1>4
<1> DEFINE x == ConsumeClosestToHalf(c)
<1>9. x \in D /\ \A m \in D : f[x] <= f[m]
  BY ONLY <1>5, <1>7
<1> HIDE DEF x
<1>10. \A m \in D : Distance(Run(c)[x - 1] + Run(c)[x], Used(c)) <= Distance(Run(c)[m - 1] + Run(c)[m], Used(c))
  BY ONLY <1>8, <1>9
<1> QED BY ONLY <1>9, <1>10 DEF D, x

\* Of three cells or more, neither the first nor the last is consumed.
LEMMA ConsumedSlotFacts ==
  ASSUME NEW C, CellSet(C), NEW c \in Seq(C), Len(c) >= 3, NEW append
  PROVE  ConsumedSlot(c, append) \in 2 .. Len(c) - 1
<1>1. Len(c) \in Nat /\ Len(c) >= 1
  OBVIOUS
<1>2. ConsumeClosestToHalf(c) \in 1 .. Len(c)
  BY <1>1, ConsumeFacts
<1> QED BY <1>1, <1>2 DEF ConsumedSlot

-----------------------------------------------------------------------------
(* The shape of a tree.  V is the file, or what it is about to be; C the     *)
(* cells a page may have.                                                    *)

TreePage(V, p) == V[p].kind \in {"leaf", "interior"}

\* The i-th child of p is q.
Edge(V, p, i, q) == V[p].kind = "interior" /\ i \in 1 .. Len(V[p].kids) /\ V[p].kids[i] = q

\* A page as the descent expects it.
Node(C, P, pg) ==
  /\ pg.cells \in Seq(C) /\ Sorted(pg.cells)
  /\ pg.kids \in Seq(P)
  /\ \/ pg.kind = "leaf" /\ pg.kids = <<>>
     \/ pg.kind = "interior" /\ Len(pg.kids) = Len(pg.cells) + 1

\* A page that a deletion has left without children waits to be unlinked.
WellFormed(C, V, hole) ==
  \A p \in DOMAIN V : TreePage(V, p) =>
     Node(C, DOMAIN V, V[p]) \/ (p = hole /\ V[p] = Interior(<<>>, <<>>))

\* Every page has a height: the leaves 0, and a parent one more than its children.
Heights(V, root, ht) ==
  /\ ht \in [DOMAIN V -> Nat]
  /\ root \in DOMAIN V /\ TreePage(V, root)
  /\ \A p \in DOMAIN V : ht[p] <= ht[root]
  /\ \A p \in DOMAIN V : V[p].kind = "leaf" => ht[p] = 0
  /\ \A p \in DOMAIN V : V[p].kind = "interior" => ht[p] > 0
  /\ \A p, q \in DOMAIN V, i \in Nat : Edge(V, p, i, q) => TreePage(V, q) /\ ht[q] + 1 = ht[p]

\* Every page but the root has one parent, and one place there.
Parents(V, root) ==
  /\ \A p, q, c \in DOMAIN V, i, j \in Nat : Edge(V, p, i, c) /\ Edge(V, q, j, c) => p = q /\ i = j
  /\ \A p \in DOMAIN V, i \in Nat : ~Edge(V, p, i, root)
  /\ \A c \in DOMAIN V : TreePage(V, c) /\ c # root => \E p \in DOMAIN V, i \in Nat : Edge(V, p, i, c)

\* The keys at and below each page, with some that have gone from there: at
\* its parent each of them leads to it.
Spans(V, span) ==
  /\ span \in [DOMAIN V -> SUBSET Nat]
  /\ \A p \in DOMAIN V : TreePage(V, p) => \A i \in 1 .. Len(V[p].cells) : V[p].cells[i].key \in span[p]
  /\ \A p, q \in DOMAIN V, i \in Nat : Edge(V, p, i, q) =>
        \A x \in span[q] : x \in span[p] /\ Routes(V[p].cells, i, x)

Structure(C, V, root, hole, ht, span) ==
  WellFormed(C, V, hole) /\ Heights(V, root, ht) /\ Parents(V, root) /\ Spans(V, span)

-----------------------------------------------------------------------------
(* A promotion *)

\* Where keys lead once k has been put in at slot s.
PromotedRoutes(old, new, s, k) ==
  \A x \in Nat, i \in 1 .. Len(old) + 1 : Routes(old, i, x) =>
     /\ i < s => Routes(new, i, x)
     /\ i = s /\ x <= k => Routes(new, s, x)
     /\ i = s /\ x > k => Routes(new, s + 1, x)
     /\ i > s => Routes(new, i + 1, x)

\* An inserted cell keeps the order, and tells the keys up to its own from those past it.
LEMMA InsertRoutes ==
  ASSUME NEW C, CellSet(C), NEW c \in Seq(C), Sorted(c), NEW s \in 1 .. Len(c) + 1, NEW x \in C,
         Routes(c, s, x.key), s <= Len(c) => x.key < c[s].key
  PROVE  Sorted(WithCell(c, s, x)) /\ PromotedRoutes(c, WithCell(c, s, x), s, x.key)
<1> DEFINE w == WithCell(c, s, x)  k == x.key
<1>0. Len(c) \in Nat /\ k \in Nat /\ s \in Nat /\ s >= 1 /\ s <= Len(c) + 1
      /\ \A j \in 1 .. Len(c) : c[j].key \in Nat
  BY DEF CellSet
<1>1. w \in Seq(C) /\ Len(w) = Len(c) + 1 /\ IsInsert(c, s, x, w)
  BY WithCellFacts
<1> HIDE DEF w
<1>2. w[s].key = k
  BY <1>1 DEF IsInsert
<1>3. \A i \in 1 .. s - 1 : i \in 1 .. Len(c) /\ w[i].key = c[i].key
  BY <1>0, <1>1 DEF IsInsert
<1>4. \A i \in s + 1 .. Len(c) + 1 : i - 1 \in 1 .. Len(c) /\ w[i].key = c[i - 1].key
  <2> TAKE i \in s + 1 .. Len(c) + 1
  <2>1. i - 1 \in s .. Len(c) /\ (i - 1) + 1 = i /\ i - 1 \in 1 .. Len(c)
    BY <1>0
  <2>2. w[(i - 1) + 1] = c[i - 1]
    BY ONLY <1>1, <2>1 DEF IsInsert
  <2> QED BY ONLY <2>1, <2>2
<1>5. \A i \in 1 .. s - 1 : c[i].key < k
  BY <1>0 DEF Routes
<1>6. \A i \in s .. Len(c) : k < c[i].key
  <2> TAKE i \in s .. Len(c)
  <2>1. s \in 1 .. Len(c) /\ i \in 1 .. Len(c) /\ k < c[s].key
    BY <1>0
  <2>2. i = s \/ c[s].key < c[i].key
    BY <2>1 DEF Sorted
  <2> QED BY <1>0, <2>1, <2>2
<1> DEFINE W(i) == w[i].key  K(i) == c[i].key
<1>7. /\ W(s) = k /\ \A i \in 1 .. Len(c) : K(i) \in Nat
      /\ \A i \in 1 .. s - 1 : i \in 1 .. Len(c) /\ W(i) = K(i) /\ K(i) < k
      /\ \A i \in s + 1 .. Len(c) + 1 : i - 1 \in 1 .. Len(c) /\ i - 1 \in s .. Len(c) /\ W(i) = K(i - 1) /\ k < K(i - 1)
      /\ \A i, j \in 1 .. Len(c) : i < j => K(i) < K(j)
  <2>1. \A i \in s + 1 .. Len(c) + 1 : i - 1 \in s .. Len(c)
    BY <1>0
  <2> QED BY <1>0, <1>2, <1>3, <1>4, <1>5, <1>6, <2>1 DEF Sorted
<1>8. Sorted(w)
  <2> SUFFICES ASSUME NEW i \in 1 .. Len(c) + 1, NEW j \in 1 .. Len(c) + 1, i < j PROVE W(i) < W(j)
    BY <1>0, <1>1 DEF Sorted
  <2> HIDE DEF W, K, k
  <2>1. CASE j < s
    BY <2>1, <1>0, <1>7
  <2>2. CASE j = s
    BY <2>2, <1>0, <1>7
  <2>3. CASE i < s /\ j > s
    <3>1. i \in 1 .. s - 1 /\ j \in s + 1 .. Len(c) + 1
      BY <2>3, <1>0
    <3>2. W(i) = K(i) /\ K(i) < k /\ W(j) = K(j - 1) /\ k < K(j - 1) /\ K(i) \in Nat /\ K(j - 1) \in Nat
      BY <3>1, <1>7
    <3> QED BY <1>0, <3>2
  <2>4. CASE i = s
    <3>1. j \in s + 1 .. Len(c) + 1
      BY <2>4, <1>0
    <3> QED BY <2>4, <3>1, <1>7
  <2>5. CASE i > s
    <3>1. i \in s + 1 .. Len(c) + 1 /\ j \in s + 1 .. Len(c) + 1 /\ i - 1 < j - 1
      BY <2>5, <1>0
    <3>2. i - 1 \in 1 .. Len(c) /\ j - 1 \in 1 .. Len(c) /\ W(i) = K(i - 1) /\ W(j) = K(j - 1)
      BY <3>1, <1>7
    <3> QED BY <3>1, <3>2, <1>7
  <2> QED BY <1>0, <2>1, <2>2, <2>3, <2>4, <2>5
<1>9. ASSUME NEW y \in Nat, NEW i \in 1 .. Len(c) + 1, Routes(c, i, y), NEW m \in 1 .. Len(c) + 2,
             \/ i < s /\ m = i
             \/ i = s /\ y <= k /\ m = s
             \/ i = s /\ y > k /\ m = s + 1
             \/ i > s /\ m = i + 1
      PROVE  Routes(w, m, y)
  <2> SUFFICES ASSUME NEW j \in 1 .. Len(c) + 1 PROVE IF j < m THEN W(j) < y ELSE y <= W(j)
    BY <1>0, <1>1 DEF Routes
  <2>1. \A h \in 1 .. Len(c) : IF h < i THEN K(h) < y ELSE y <= K(h)
    BY <1>9 DEF Routes
  <2> HIDE DEF W, K, k
  <2>2. CASE j < s
    <3>1. j \in 1 .. s - 1
      BY <2>2, <1>0
    <3>2. j \in 1 .. Len(c) /\ W(j) = K(j) /\ K(j) \in Nat /\ IF j < i THEN K(j) < y ELSE y <= K(j)
      BY <3>1, <2>1, <1>7
    <3> QED BY <1>9, <3>2, <2>2, <1>0
  <2>3. CASE j > s
    <3>1. j \in s + 1 .. Len(c) + 1
      BY <2>3, <1>0
    <3>2. j - 1 \in 1 .. Len(c) /\ W(j) = K(j - 1) /\ K(j - 1) \in Nat /\ IF j - 1 < i THEN K(j - 1) < y ELSE y <= K(j - 1)
      BY <3>1, <2>1, <1>7
    <3> QED BY <1>9, <3>2, <2>3, <1>0
  <2>4. CASE j = s
    <3>1. W(j) = k
      BY <2>4, <1>7
    <3>2. CASE i < s
      <4>1. i \in 1 .. s - 1
        BY <3>2, <1>0
      <4>2. i \in 1 .. Len(c) /\ K(i) < k /\ K(i) \in Nat /\ y <= K(i)
        BY <4>1, <2>1, <1>7
      <4> QED BY <1>9, <3>1, <3>2, <4>2, <1>0, <2>4
    <3>3. CASE i = s
      BY <1>9, <3>1, <3>3, <2>4, <1>0
    <3>4. CASE i > s
      <4>1. s \in 1 .. Len(c) /\ s + 1 \in s + 1 .. Len(c) + 1 /\ (s + 1) - 1 = s
        BY <3>4, <1>0
      <4>2. K(s) < y /\ k < K(s) /\ K(s) \in Nat
        BY <4>1, <3>4, <2>1, <1>7
      <4> QED BY <1>9, <3>1, <3>4, <4>2, <1>0, <2>4
    <3> QED BY <1>0, <3>2, <3>3, <3>4
  <2> QED BY <1>0, <2>2, <2>3, <2>4
<1>10. PromotedRoutes(c, w, s, k)
  <2> SUFFICES ASSUME NEW y \in Nat, NEW i \in 1 .. Len(c) + 1, Routes(c, i, y)
      PROVE /\ i < s => Routes(w, i, y)
            /\ i = s /\ y <= k => Routes(w, s, y)
            /\ i = s /\ y > k => Routes(w, s + 1, y)
            /\ i > s => Routes(w, i + 1, y)
    BY DEF PromotedRoutes
  <2>1. i \in 1 .. Len(c) + 2 /\ s \in 1 .. Len(c) + 2 /\ s + 1 \in 1 .. Len(c) + 2 /\ i + 1 \in 1 .. Len(c) + 2
    BY <1>0
  <2>2. i < s => Routes(w, i, y)
    BY <1>9, <2>1
  <2>3. i = s /\ y <= k => Routes(w, s, y)
    BY <1>9, <2>1
  <2>4. i = s /\ y > k => Routes(w, s + 1, y)
    BY <1>9, <2>1
  <2>5. i > s => Routes(w, i + 1, y)
    BY <1>9, <2>1
  <2> QED BY <2>2, <2>3, <2>4, <2>5
<1> QED BY <1>8, <1>10 DEF w

IsConcat(a, b, w) ==
  /\ \A i \in 1 .. Len(a) : w[i] = a[i]
  /\ \A i \in 1 .. Len(b) : w[Len(a) + i] = b[i]

\* The members of a concatenation.
LEMMA ConcatFacts ==
  ASSUME NEW P, NEW a \in Seq(P), NEW b \in Seq(P)
  PROVE  a \o b \in Seq(P) /\ Len(a \o b) = Len(a) + Len(b) /\ IsConcat(a, b, a \o b)
BY DEF IsConcat

\* The children once l and r have taken the place of the one at slot s.
IsPromoted(kids, s, l, r, new) ==
  /\ new[s] = l /\ new[s + 1] = r
  /\ \A i \in 1 .. s - 1 : new[i] = kids[i]
  /\ \A i \in s + 1 .. Len(kids) : new[i + 1] = kids[i]

KidsPromoted(kids, s, l, r) == SubSeq(kids, 1, s - 1) \o <<l, r>> \o SubSeq(kids, s + 1, Len(kids))

\* The children after a promotion: one more, at the place of the split page.
LEMMA PromotedKids ==
  ASSUME NEW P, NEW kids \in Seq(P), NEW s \in 1 .. Len(kids), NEW l \in P, NEW r \in P
  PROVE  /\ KidsPromoted(kids, s, l, r) \in Seq(P)
         /\ Len(KidsPromoted(kids, s, l, r)) = Len(kids) + 1
         /\ IsPromoted(kids, s, l, r, KidsPromoted(kids, s, l, r))
<1> DEFINE new == KidsPromoted(kids, s, l, r)
<1> DEFINE a == SubSeq(kids, 1, s - 1)  b == SubSeq(kids, s + 1, Len(kids))  m == <<l, r>>  v == a \o m
<1>0. Len(kids) \in Nat /\ s \in Nat /\ s >= 1 /\ s <= Len(kids)
  OBVIOUS
<1>1. a \in Seq(P) /\ Len(a) = s - 1 /\ IsPart(kids, 1, s - 1, a)
  <2>1. 1 \in 1 .. Len(kids) + 1 /\ s - 1 \in 1 - 1 .. Len(kids) /\ (s - 1) + 1 - 1 = s - 1
    BY <1>0
  <2> QED BY <2>1, SubSeqFacts
<1>2. b \in Seq(P) /\ Len(b) = Len(kids) - s /\ IsPart(kids, s + 1, Len(kids), b)
  <2>1. s + 1 \in 1 .. Len(kids) + 1 /\ Len(kids) \in (s + 1) - 1 .. Len(kids) /\ Len(kids) + 1 - (s + 1) = Len(kids) - s
    BY <1>0
  <2> QED BY <2>1, SubSeqFacts
<1>3. m \in Seq(P) /\ Len(m) = 2 /\ m[1] = l /\ m[2] = r
  OBVIOUS
<1>4. new = v \o b
  BY DEF KidsPromoted
<1> HIDE DEF a, b, m, new
<1>5. v \in Seq(P) /\ Len(v) = s + 1 /\ IsConcat(a, m, v)
  <2>1. v \in Seq(P) /\ Len(v) = Len(a) + Len(m) /\ IsConcat(a, m, v)
    BY ONLY <1>1, <1>3, ConcatFacts DEF v
  <2> HIDE DEF v
  <2> QED BY ONLY <1>0, <1>1, <1>3, <2>1
<1> HIDE DEF v
<1>6. v[s] = l /\ v[s + 1] = r
  <2>1. v[Len(a) + 1] = m[1] /\ v[Len(a) + 2] = m[2]
    BY ONLY <1>3, <1>5 DEF IsConcat
  <2>2. Len(a) + 1 = s /\ Len(a) + 2 = s + 1
    BY ONLY <1>0, <1>1
  <2> QED BY ONLY <1>3, <2>1, <2>2
<1>7. \A i \in 1 .. s - 1 : v[i] = kids[i]
  <2> TAKE i \in 1 .. s - 1
  <2>1. a[i] = kids[1 - 1 + i] /\ 1 - 1 + i = i
    BY <1>0, <1>1 DEF IsPart
  <2>2. v[i] = a[i]
    BY ONLY <1>1, <1>5, i \in 1 .. s - 1 DEF IsConcat
  <2> QED BY <2>1, <2>2
<1>8. new \in Seq(P) /\ Len(new) = Len(kids) + 1 /\ IsConcat(v, b, new)
  <2>1. new \in Seq(P) /\ Len(new) = Len(v) + Len(b) /\ IsConcat(v, b, new)
    BY ONLY <1>2, <1>4, <1>5, ConcatFacts
  <2> QED BY ONLY <1>0, <1>2, <1>5, <2>1
<1>9. \A i \in 1 .. s + 1 : new[i] = v[i]
  BY ONLY <1>5, <1>8 DEF IsConcat
<1>10. \A i \in s + 1 .. Len(kids) : new[i + 1] = kids[i]
  <2> TAKE i \in s + 1 .. Len(kids)
  <2>1. i - s \in 1 .. Len(b) /\ Len(v) + (i - s) = i + 1
    BY ONLY <1>0, <1>2, <1>5, i \in s + 1 .. Len(kids)
  <2>2. i - s \in 1 .. Len(kids) + 1 - (s + 1) /\ (s + 1) - 1 + (i - s) = i
    BY <1>0
  <2>3. b[i - s] = kids[(s + 1) - 1 + (i - s)]
    BY ONLY <1>2, <2>2 DEF IsPart
  <2>4. new[Len(v) + (i - s)] = b[i - s]
    BY ONLY <1>8, <2>1 DEF IsConcat
  <2> QED BY ONLY <2>1, <2>2, <2>3, <2>4
<1>11. s \in 1 .. s + 1 /\ s + 1 \in 1 .. s + 1 /\ \A i \in 1 .. s - 1 : i \in 1 .. s + 1
  BY <1>0
<1>12. new[s] = l /\ new[s + 1] = r /\ \A i \in 1 .. s - 1 : new[i] = kids[i]
  BY ONLY <1>6, <1>7, <1>9, <1>11
<1>13. new \in Seq(P) /\ Len(new) = Len(kids) + 1 /\ IsPromoted(kids, s, l, r, new)
  BY ONLY <1>8, <1>10, <1>12 DEF IsPromoted
<1> QED BY ONLY <1>13 DEF new

-----------------------------------------------------------------------------
(* A page cut in two *)

CutKids(kids, l, r) ==
  /\ Len(kids) = Len(l) + Len(r)
  /\ \A i \in 1 .. Len(l) : l[i] = kids[i]
  /\ \A i \in 1 .. Len(r) : r[i] = kids[Len(l) + i]

\* The keys are those of the page, k between the halves.
CutKeys(c, l, r, k) ==
  /\ \E j \in 1 .. Len(c) : c[j].key = k
  /\ \E j \in 1 .. Len(c) : c[j].key > k
  /\ \A i \in 1 .. Len(l) : l[i].key <= k /\ \E j \in 1 .. Len(c) : c[j].key = l[i].key
  /\ \A i \in 1 .. Len(r) : k < r[i].key /\ \E j \in 1 .. Len(c) : c[j].key = r[i].key

\* a children stay on the left.
CutRoutes(c, l, r, k, a, b) ==
  /\ \A x \in Nat, i \in 1 .. a : Routes(c, i, x) => Routes(l, i, x) /\ x <= k
  /\ \A x \in Nat, i \in 1 .. b : Routes(c, a + i, x) => Routes(r, i, x) /\ k < x

IsCut(C, P, pg, l, r, k) ==
  /\ l.kind = pg.kind /\ r.kind = pg.kind
  /\ Node(C, P, l) /\ Node(C, P, r)
  /\ CutKids(pg.kids, l.kids, r.kids)
  /\ CutKeys(pg.cells, l.cells, r.cells, k)
  /\ CutRoutes(pg.cells, l.cells, r.cells, k, Len(l.kids), Len(r.kids))

\* A stretch of sorted cells is sorted.
LEMMA PartSorted ==
  ASSUME NEW C, CellSet(C), NEW c \in Seq(C), Sorted(c), NEW m \in 1 .. Len(c) + 1, NEW n \in m - 1 .. Len(c)
  PROVE  Sorted(SubSeq(c, m, n))
<1>0. Len(c) \in Nat /\ m \in Nat /\ n \in Nat
  OBVIOUS
<1> DEFINE d == SubSeq(c, m, n)
<1>1. Len(d) = n + 1 - m /\ IsPart(c, m, n, d)
  BY SubSeqFacts
<1> HIDE DEF d
<1>2. ASSUME NEW i \in 1 .. n + 1 - m, NEW j \in 1 .. n + 1 - m, i < j PROVE d[i].key < d[j].key
  <2>1. d[i] = c[m - 1 + i] /\ d[j] = c[m - 1 + j]
    BY <1>1 DEF IsPart
  <2>2. m - 1 + i \in 1 .. Len(c) /\ m - 1 + j \in 1 .. Len(c) /\ m - 1 + i < m - 1 + j
    BY <1>0, <1>2
  <2>3. c[m - 1 + i].key < c[m - 1 + j].key
    BY <2>2 DEF Sorted
  <2> QED BY <2>1, <2>3
<1>3. Sorted(d)
  BY <1>1, <1>2 DEF Sorted
<1> QED BY <1>3 DEF d

\* The key of slot m is between the n <= m first cells and those after slot m.
LEMMA CutCells ==
  ASSUME NEW C, CellSet(C), NEW c \in Seq(C), Sorted(c),
         NEW m \in 1 .. Len(c) - 1, NEW n \in 0 .. m
  PROVE  /\ SubSeq(c, 1, n) \in Seq(C) /\ Len(SubSeq(c, 1, n)) = n
         /\ SubSeq(c, m + 1, Len(c)) \in Seq(C) /\ Len(SubSeq(c, m + 1, Len(c))) = Len(c) - m
         /\ IsPart(c, 1, n, SubSeq(c, 1, n)) /\ IsPart(c, m + 1, Len(c), SubSeq(c, m + 1, Len(c)))
         /\ Sorted(SubSeq(c, 1, n)) /\ Sorted(SubSeq(c, m + 1, Len(c)))
         /\ CutKeys(c, SubSeq(c, 1, n), SubSeq(c, m + 1, Len(c)), c[m].key)
<1> DEFINE l == SubSeq(c, 1, n)  r == SubSeq(c, m + 1, Len(c))  k == c[m].key
<1>0. Len(c) \in Nat /\ m \in Nat /\ n \in Nat /\ \A j \in 1 .. Len(c) : c[j].key \in Nat
  BY DEF CellSet
<1>1. l \in Seq(C) /\ Len(l) = n /\ IsPart(c, 1, n, l) /\ Sorted(l)
  <2>1. 1 \in 1 .. Len(c) + 1 /\ n \in 1 - 1 .. Len(c) /\ n + 1 - 1 = n
    BY <1>0
  <2> QED BY <2>1, SubSeqFacts, PartSorted
<1>2. r \in Seq(C) /\ Len(r) = Len(c) - m /\ IsPart(c, m + 1, Len(c), r) /\ Sorted(r)
  <2>1. m + 1 \in 1 .. Len(c) + 1 /\ Len(c) \in (m + 1) - 1 .. Len(c) /\ Len(c) + 1 - (m + 1) = Len(c) - m
    BY <1>0
  <2> QED BY <2>1, SubSeqFacts, PartSorted
<1> HIDE DEF l, r
<1>3. m \in 1 .. Len(c) /\ m + 1 \in 1 .. Len(c) /\ m < m + 1
  BY <1>0
<1>4. \E j \in 1 .. Len(c) : c[j].key > k
  <2>1. c[m].key < c[m + 1].key
    BY <1>3 DEF Sorted
  <2>2. c[m + 1].key > k
    BY <1>0, <1>3, <2>1
  <2> QED BY <1>3, <2>2
<1>5. ASSUME NEW i \in 1 .. n PROVE l[i].key <= k /\ \E j \in 1 .. Len(c) : c[j].key = l[i].key
  <2>1. l[i] = c[1 - 1 + i] /\ 1 - 1 + i = i
    <3>1. i \in 1 .. n + 1 - 1
      BY <1>0
    <3> QED BY <1>1, <3>1 DEF IsPart
  <2>2. i \in 1 .. Len(c) /\ (i < m \/ i = m)
    BY <1>0
  <2>3. c[i].key <= k
    BY <2>2, <1>0, <1>3 DEF Sorted
  <2> QED BY <2>1, <2>2, <2>3
<1>6. ASSUME NEW i \in 1 .. Len(c) - m PROVE k < r[i].key /\ \E j \in 1 .. Len(c) : c[j].key = r[i].key
  <2>1. r[i] = c[(m + 1) - 1 + i] /\ (m + 1) - 1 + i = m + i
    <3>1. i \in 1 .. Len(c) + 1 - (m + 1)
      BY <1>0
    <3> QED BY <1>0, <1>2, <3>1 DEF IsPart
  <2>2. m + i \in 1 .. Len(c) /\ m < m + i
    BY <1>0
  <2>3. k < c[m + i].key
    BY <2>2, <1>0, <1>3 DEF Sorted
  <2> QED BY <2>1, <2>2, <2>3
<1>7. CutKeys(c, l, r, k)
  BY <1>1, <1>2, <1>3, <1>4, <1>5, <1>6 DEF CutKeys
<1> QED BY <1>1, <1>2, <1>7 DEF l, r

\* _split_leaf(), whether the separator is copied or moved.
LEMMA LeafCut ==
  ASSUME NEW C, CellSet(C), NEW P, NEW c \in Seq(C), Sorted(c),
         NEW m \in 1 .. Len(c) - 1, NEW n \in 0 .. m
  PROVE  IsCut(C, P, Leaf(c), Leaf(SubSeq(c, 1, n)), Leaf(SubSeq(c, m + 1, Len(c))), c[m].key)
<1> DEFINE l == SubSeq(c, 1, n)  r == SubSeq(c, m + 1, Len(c))  k == c[m].key
<1>1. l \in Seq(C) /\ r \in Seq(C) /\ Sorted(l) /\ Sorted(r) /\ CutKeys(c, l, r, k)
  BY CutCells
<1> HIDE DEF l, r, k
<1>2. Leaf(c).kids = <<>> /\ Leaf(l).kids = <<>> /\ Leaf(r).kids = <<>> /\ Len(<<>>) = 0
      /\ Leaf(c).cells = c /\ Leaf(l).cells = l /\ Leaf(r).cells = r
      /\ Leaf(c).kind = "leaf" /\ Leaf(l).kind = "leaf" /\ Leaf(r).kind = "leaf"
  BY DEF Leaf
<1>3. Node(C, P, Leaf(l)) /\ Node(C, P, Leaf(r))
  <2>1. <<>> \in Seq(P)
    OBVIOUS
  <2> QED BY <1>1, <1>2, <2>1 DEF Node
<1>4. CutKids(Leaf(c).kids, Leaf(l).kids, Leaf(r).kids)
  BY <1>2 DEF CutKids
<1>5. CutRoutes(c, l, r, k, 0, 0)
  BY DEF CutRoutes
<1>6. IsCut(C, P, Leaf(c), Leaf(l), Leaf(r), k)
  BY ONLY <1>1, <1>2, <1>3, <1>4, <1>5 DEF IsCut
<1> QED BY <1>6 DEF l, r, k

\* split_interior_cells().
LEMMA InteriorCut ==
  ASSUME NEW C, CellSet(C), NEW P, NEW c \in Seq(C), Sorted(c), NEW kids \in Seq(P), Len(kids) = Len(c) + 1,
         NEW m \in 1 .. Len(c) - 1
  PROVE  IsCut(C, P, Interior(c, kids),
               Interior(SubSeq(c, 1, m - 1), SubSeq(kids, 1, m)),
               Interior(SubSeq(c, m + 1, Len(c)), SubSeq(kids, m + 1, Len(kids))), c[m].key)
<1> DEFINE l == SubSeq(c, 1, m - 1)  r == SubSeq(c, m + 1, Len(c))  k == c[m].key
           kl == SubSeq(kids, 1, m)  kr == SubSeq(kids, m + 1, Len(kids))
<1>0. Len(c) \in Nat /\ m \in Nat /\ m >= 1 /\ m <= Len(c) - 1 /\ Len(kids) = Len(c) + 1
      /\ \A j \in 1 .. Len(c) : c[j].key \in Nat
  BY DEF CellSet
<1>1. /\ l \in Seq(C) /\ r \in Seq(C) /\ Sorted(l) /\ Sorted(r) /\ CutKeys(c, l, r, k)
      /\ Len(l) = m - 1 /\ Len(r) = Len(c) - m /\ IsPart(c, 1, m - 1, l) /\ IsPart(c, m + 1, Len(c), r)
  <2>1. m - 1 \in 0 .. m
    BY <1>0
  <2> QED BY <2>1, CutCells
<1>2. kl \in Seq(P) /\ Len(kl) = m /\ IsPart(kids, 1, m, kl)
  <2>1. 1 \in 1 .. Len(kids) + 1 /\ m \in 1 - 1 .. Len(kids) /\ m + 1 - 1 = m
    BY <1>0
  <2> QED BY <2>1, SubSeqFacts
<1>3. kr \in Seq(P) /\ Len(kr) = Len(kids) - m /\ IsPart(kids, m + 1, Len(kids), kr)
  <2>1. m + 1 \in 1 .. Len(kids) + 1 /\ Len(kids) \in (m + 1) - 1 .. Len(kids) /\ Len(kids) + 1 - (m + 1) = Len(kids) - m
    BY <1>0
  <2> QED BY <2>1, SubSeqFacts
<1> HIDE DEF l, r, k, kl, kr
<1>4. Len(kl) = Len(l) + 1 /\ Len(kr) = Len(r) + 1 /\ Len(kids) = Len(kl) + Len(kr)
  BY ONLY <1>0, <1>1, <1>2, <1>3
<1>5. CutKids(kids, kl, kr)
  <2>1. ASSUME NEW i \in 1 .. Len(kl) PROVE kl[i] = kids[i]
    <3>1. i \in 1 .. m + 1 - 1 /\ 1 - 1 + i = i
      BY <1>0, <1>2
    <3>2. kl[i] = kids[1 - 1 + i]
      BY ONLY <1>2, <3>1 DEF IsPart
    <3> QED BY ONLY <3>1, <3>2
  <2>2. ASSUME NEW i \in 1 .. Len(kr) PROVE kr[i] = kids[Len(kl) + i]
    <3>1. i \in 1 .. Len(kids) + 1 - (m + 1) /\ (m + 1) - 1 + i = Len(kl) + i
      BY ONLY <1>0, <1>2, <1>3, i \in 1 .. Len(kr)
    <3>2. kr[i] = kids[(m + 1) - 1 + i]
      BY ONLY <1>3, <3>1 DEF IsPart
    <3> QED BY ONLY <3>1, <3>2
  <2> QED BY ONLY <1>4, <2>1, <2>2 DEF CutKids
<1>6. ASSUME NEW x \in Nat, NEW i \in 1 .. m, Routes(c, i, x) PROVE Routes(l, i, x) /\ x <= k
  <2>1. m \in 1 .. Len(c) /\ ~(m < i)
    BY <1>0
  <2>2. x <= k
    BY <1>6, <2>1 DEF Routes, k
  <2>3. ASSUME NEW j \in 1 .. m - 1 PROVE IF j < i THEN l[j].key < x ELSE x <= l[j].key
    <3>1. j \in 1 .. (m - 1) + 1 - 1 /\ 1 - 1 + j = j /\ j \in 1 .. Len(c)
      BY <1>0
    <3>2. l[j] = c[1 - 1 + j]
      BY ONLY <1>1, <3>1 DEF IsPart
    <3>3. IF j < i THEN c[j].key < x ELSE x <= c[j].key
      BY <1>6, <3>1 DEF Routes
    <3> QED BY ONLY <3>1, <3>2, <3>3
  <2> QED BY <1>1, <2>2, <2>3 DEF Routes
<1>7. ASSUME NEW x \in Nat, NEW i \in 1 .. Len(kr), Routes(c, m + i, x) PROVE Routes(r, i, x) /\ k < x
  <2>1. m \in 1 .. Len(c) /\ m < m + i /\ i \in Nat
    BY <1>0, <1>3
  <2>2. k < x
    BY <1>7, <2>1 DEF Routes, k
  <2>3. ASSUME NEW j \in 1 .. Len(c) - m PROVE IF j < i THEN r[j].key < x ELSE x <= r[j].key
    <3>1. j \in 1 .. Len(c) + 1 - (m + 1) /\ (m + 1) - 1 + j = m + j /\ m + j \in 1 .. Len(c) /\ (j < i <=> m + j < m + i)
      BY <1>0, <2>1
    <3>2. r[j] = c[(m + 1) - 1 + j]
      BY ONLY <1>1, <3>1 DEF IsPart
    <3>3. IF m + j < m + i THEN c[m + j].key < x ELSE x <= c[m + j].key
      BY <1>7, <3>1 DEF Routes
    <3> QED BY ONLY <3>1, <3>2, <3>3
  <2> QED BY <1>1, <2>2, <2>3 DEF Routes
<1>8. CutRoutes(c, l, r, k, Len(kl), Len(kr))
  <2>1. \A x \in Nat, i \in 1 .. Len(kl) : Routes(c, i, x) => Routes(l, i, x) /\ x <= k
    BY ONLY <1>6, <1>2
  <2>2. \A x \in Nat, i \in 1 .. Len(kr) : Routes(c, Len(kl) + i, x) => Routes(r, i, x) /\ k < x
    BY ONLY <1>7, <1>2
  <2> QED BY ONLY <2>1, <2>2 DEF CutRoutes
<1>9. /\ Interior(c, kids).kids = kids /\ Interior(l, kl).kids = kl /\ Interior(r, kr).kids = kr
      /\ Interior(c, kids).cells = c /\ Interior(l, kl).cells = l /\ Interior(r, kr).cells = r
      /\ Interior(c, kids).kind = "interior" /\ Interior(l, kl).kind = "interior" /\ Interior(r, kr).kind = "interior"
  BY DEF Interior
<1>10. Node(C, P, Interior(l, kl)) /\ Node(C, P, Interior(r, kr))
  BY ONLY <1>1, <1>2, <1>3, <1>4, <1>9 DEF Node
<1>11. IsCut(C, P, Interior(c, kids), Interior(l, kl), Interior(r, kr), k)
  BY ONLY <1>1, <1>5, <1>8, <1>9, <1>10 DEF IsCut
<1> QED BY <1>11 DEF l, r, k, kl, kr

-----------------------------------------------------------------------------
(* A split *)

\* p, the child at slot s of par, is cut in two; q, a page of no tree, takes
\* the right half, and the cell between them goes into par.
Splits(C, V, W, par, s, p, q, l, r, cell) ==
  /\ DOMAIN W = DOMAIN V
  /\ par \in DOMAIN V /\ p \in DOMAIN V /\ q \in DOMAIN V /\ s \in Nat
  /\ Edge(V, par, s, p)
  /\ ~TreePage(V, q)
  /\ cell \in C
  /\ IsCut(C, DOMAIN V, V[p], l, r, cell.key)
  /\ W[p] = l /\ W[q] = r /\ W[par] = Promoted(V[par], s, cell, p, q)
  /\ \A x \in DOMAIN V \ {p, q, par} : W[x] = V[x]

SplitHt(ht, p, q) == [x \in DOMAIN ht |-> IF x = q THEN ht[p] ELSE ht[x]]
SplitSpan(span, p, q, k) ==
  [x \in DOMAIN span |-> IF x = p THEN {y \in span[p] : y <= k}
                         ELSE IF x = q THEN {y \in span[p] : y > k} ELSE span[x]]

\* A page of the tree that is not about to go has its cells and children in order.
LEMMA NodeOf ==
  ASSUME NEW C, NEW V, NEW hole, hole \notin DOMAIN V, WellFormed(C, V, hole),
         NEW p \in DOMAIN V, TreePage(V, p)
  PROVE  Node(C, DOMAIN V, V[p])
BY DEF WellFormed

\* What the parent becomes.
LEMMA SplitParent ==
  ASSUME NEW C, CellSet(C), NEW V, NEW W, NEW root, NEW hole, hole \notin DOMAIN V, NEW ht, NEW span,
         Structure(C, V, root, hole, ht, span),
         NEW par, NEW s, NEW p, NEW q, NEW l, NEW r, NEW cell,
         Splits(C, V, W, par, s, p, q, l, r, cell)
  PROVE  /\ Node(C, DOMAIN V, W[par]) /\ W[par].kind = "interior"
         /\ Len(W[par].kids) = Len(V[par].kids) + 1
         /\ Len(W[par].cells) = Len(V[par].cells) + 1
         /\ IsInsert(V[par].cells, s, cell, W[par].cells)
         /\ IsPromoted(V[par].kids, s, p, q, W[par].kids)
         /\ PromotedRoutes(V[par].cells, W[par].cells, s, cell.key)
         /\ Len(V[par].kids) = Len(V[par].cells) + 1 /\ Len(V[par].cells) \in Nat
         /\ cell.key \in span[p] /\ cell.key \in Nat
<1> DEFINE P == DOMAIN V  pc == V[par].cells  pk == V[par].kids  k == cell.key
<1>1. /\ par \in P /\ p \in P /\ q \in P /\ s \in Nat /\ Edge(V, par, s, p) /\ cell \in C
      /\ IsCut(C, P, V[p], l, r, k) /\ W[par] = Promoted(V[par], s, cell, p, q)
  BY DEF Splits
<1>2. V[par].kind = "interior" /\ s \in 1 .. Len(pk) /\ pk[s] = p
  BY <1>1 DEF Edge
<1>3. TreePage(V, par) /\ TreePage(V, p)
  BY <1>1, <1>2 DEF Structure, Heights, TreePage
<1>4. Node(C, P, V[par]) /\ Node(C, P, V[p])
  BY <1>1, <1>3, NodeOf DEF Structure
<1>5. pc \in Seq(C) /\ Sorted(pc) /\ pk \in Seq(P) /\ Len(pk) = Len(pc) + 1 /\ Len(pc) \in Nat
  BY <1>2, <1>4 DEF Node
<1>6. CutKeys(V[p].cells, l.cells, r.cells, k) /\ k \in Nat
  BY <1>1 DEF IsCut, CellSet
<1>7. \A x \in span[p] : x \in Nat /\ Routes(pc, s, x)
  BY <1>1 DEF Structure, Spans
<1>8. \A j \in 1 .. Len(V[p].cells) : V[p].cells[j].key \in span[p]
  BY <1>1, <1>3 DEF Structure, Spans
<1>9. k \in span[p]
  BY <1>6, <1>8 DEF CutKeys
<1>10. s <= Len(pc) => k < pc[s].key
  <2> SUFFICES ASSUME s <= Len(pc) PROVE k < pc[s].key
    OBVIOUS
  <2>1. PICK y \in span[p] : y > k
    BY <1>6, <1>8 DEF CutKeys
  <2>2. s \in 1 .. Len(pc) /\ pc[s].key \in Nat
    BY <1>1, <1>2, <1>5 DEF CellSet
  <2>3. y <= pc[s].key /\ y \in Nat
    BY <1>7, <2>1, <2>2 DEF Routes
  <2> QED BY ONLY <1>6, <2>1, <2>2, <2>3
<1>11. s \in 1 .. Len(pc) + 1 /\ Routes(pc, s, k)
  BY <1>2, <1>5, <1>7, <1>9
<1> HIDE DEF P, pc, pk, k
<1> DEFINE nc == WithCell(pc, s, cell)
           nk == KidsPromoted(pk, s, p, q)
<1>12. nc \in Seq(C) /\ Len(nc) = Len(pc) + 1 /\ IsInsert(pc, s, cell, nc)
  BY ONLY <1>1, <1>5, <1>11, WithCellFacts
<1>13. Sorted(nc) /\ PromotedRoutes(pc, nc, s, k)
  BY <1>1, <1>5, <1>10, <1>11, InsertRoutes DEF k
<1>14. nk \in Seq(P) /\ Len(nk) = Len(pk) + 1 /\ IsPromoted(pk, s, p, q, nk)
  BY ONLY <1>1, <1>2, <1>5, PromotedKids
<1>15. W[par].kind = "interior" /\ W[par].cells = nc /\ W[par].kids = nk
  <2>1. W[par] = Interior(nc, nk)
    BY ONLY <1>1, Zenon DEF Promoted, KidsPromoted, pc, pk
  <2> HIDE DEF nc, nk
  <2> QED BY ONLY <2>1 DEF Interior
<1> HIDE DEF nc, nk
<1>16. Node(C, P, W[par])
  <2>1. Len(nk) = Len(nc) + 1
    BY ONLY <1>5, <1>12, <1>14
  <2> QED BY ONLY <1>12, <1>13, <1>14, <1>15, <2>1 DEF Node
<1>17. /\ Len(W[par].kids) = Len(pk) + 1 /\ Len(W[par].cells) = Len(pc) + 1
       /\ IsInsert(pc, s, cell, W[par].cells) /\ IsPromoted(pk, s, p, q, W[par].kids)
       /\ PromotedRoutes(pc, W[par].cells, s, k)
  BY ONLY <1>12, <1>13, <1>14, <1>15
<1> QED BY <1>5, <1>6, <1>9, <1>15, <1>16, <1>17 DEF pc, pk, k, P

\* The child that a slot of the new file has, found in the old one.
SplitEdge(V, par, s, p, q, a, x, i, y) ==
  \/ x \notin {p, q, par} /\ Edge(V, x, i, y)
  \/ x = par /\ i < s /\ Edge(V, par, i, y)
  \/ x = par /\ i = s /\ y = p
  \/ x = par /\ i = s + 1 /\ y = q
  \/ x = par /\ i > s + 1 /\ Edge(V, par, i - 1, y)
  \/ x = p /\ i <= a /\ Edge(V, p, i, y)
  \/ x = q /\ i >= 1 /\ Edge(V, p, a + i, y)

\* The edges after a split: the parent's move up one, and some of the page's go to the right half.
LEMMA SplitEdges ==
  ASSUME NEW C, CellSet(C), NEW V, NEW W, NEW root, NEW hole, hole \notin DOMAIN V, NEW ht, NEW span,
         Structure(C, V, root, hole, ht, span),
         NEW par, NEW s, NEW p, NEW q, NEW l, NEW r, NEW cell,
         Splits(C, V, W, par, s, p, q, l, r, cell)
  PROVE  /\ p # par /\ q # par /\ p # q /\ Len(l.kids) \in Nat
         /\ \A x, y \in DOMAIN V, i \in Nat :
               Edge(W, x, i, y) <=> SplitEdge(V, par, s, p, q, Len(l.kids), x, i, y)
<1> DEFINE P == DOMAIN V  a == Len(l.kids)  pk == V[par].kids  nk == W[par].kids
<1>1. /\ DOMAIN W = P /\ par \in P /\ p \in P /\ q \in P /\ s \in Nat /\ Edge(V, par, s, p) /\ ~TreePage(V, q)
      /\ IsCut(C, P, V[p], l, r, cell.key) /\ W[p] = l /\ W[q] = r
      /\ \A x \in P \ {p, q, par} : W[x] = V[x]
  BY DEF Splits
<1>2. /\ W[par].kind = "interior" /\ Len(nk) = Len(pk) + 1 /\ IsPromoted(pk, s, p, q, nk)
  BY SplitParent
<1>3. V[par].kind = "interior" /\ s \in 1 .. Len(pk) /\ pk[s] = p
  BY <1>1 DEF Edge
<1>4. ht[p] + 1 = ht[par] /\ ht[p] \in Nat /\ ht[par] \in Nat /\ TreePage(V, p) /\ TreePage(V, par)
  BY <1>1, <1>3 DEF Structure, Heights, TreePage
<1>5. p # par /\ q # par /\ p # q
  BY <1>1, <1>4
<1>6. Node(C, P, V[par]) /\ Node(C, P, V[p])
  BY <1>1, <1>4, NodeOf DEF Structure
<1>7. pk \in Seq(P) /\ Len(pk) \in Nat /\ V[p].kids \in Seq(P) /\ Len(V[p].kids) \in Nat
  BY <1>6 DEF Node
<1>8. /\ l.kind = V[p].kind /\ r.kind = V[p].kind /\ CutKids(V[p].kids, l.kids, r.kids)
      /\ Node(C, P, l) /\ Node(C, P, r)
  BY <1>1 DEF IsCut
<1>9. a \in Nat /\ Len(r.kids) \in Nat
  BY <1>8 DEF Node
<1> HIDE DEF P, a, pk, nk
<1>10. ASSUME NEW x \in P, NEW y \in P, NEW i \in Nat, x \notin {p, q, par}
       PROVE  Edge(W, x, i, y) <=> SplitEdge(V, par, s, p, q, a, x, i, y)
  <2>1. W[x] = V[x]
    BY ONLY <1>1, <1>10, x \in P
  <2>2. Edge(W, x, i, y) <=> Edge(V, x, i, y)
    BY ONLY <2>1 DEF Edge
  <2> QED BY ONLY <1>10, <2>2 DEF SplitEdge
<1>11. ASSUME NEW y \in P, NEW i \in Nat
       PROVE  Edge(W, par, i, y) <=> SplitEdge(V, par, s, p, q, a, par, i, y)
  <2>1. Edge(W, par, i, y) <=> i \in 1 .. Len(pk) + 1 /\ nk[i] = y
    BY <1>2 DEF Edge, nk
  <2>2. \A j \in Nat : Edge(V, par, j, y) <=> j \in 1 .. Len(pk) /\ pk[j] = y
    BY <1>3 DEF Edge, pk
  <2>3. s \in Nat /\ s >= 1 /\ s <= Len(pk)
    BY <1>3, <1>7
  <2>4. CASE i < s
    <3>1. i \in 1 .. Len(pk) + 1 <=> i \in 1 .. Len(pk)
      BY <2>3, <2>4, <1>7
    <3>2. i \in 1 .. Len(pk) => nk[i] = pk[i]
      BY <2>4, <2>3, <1>2 DEF IsPromoted
    <3>3. SplitEdge(V, par, s, p, q, a, par, i, y) <=> Edge(V, par, i, y)
      BY <2>4, <2>3, <1>5 DEF SplitEdge
    <3> QED BY ONLY <2>1, <2>2, <3>1, <3>2, <3>3, i \in Nat
  <2>5. CASE i = s
    <3>1. i \in 1 .. Len(pk) + 1 /\ nk[i] = p
      BY <2>3, <2>5, <1>7, <1>2 DEF IsPromoted
    <3>2. SplitEdge(V, par, s, p, q, a, par, i, y) <=> y = p
      BY <2>5, <2>3, <1>5 DEF SplitEdge
    <3> QED BY ONLY <2>1, <3>1, <3>2
  <2>6. CASE i = s + 1
    <3>1. i \in 1 .. Len(pk) + 1 /\ nk[i] = q
      BY <2>3, <2>6, <1>7, <1>2 DEF IsPromoted
    <3>2. SplitEdge(V, par, s, p, q, a, par, i, y) <=> y = q
      BY <2>6, <2>3, <1>5 DEF SplitEdge
    <3> QED BY ONLY <2>1, <3>1, <3>2
  <2>7. CASE i > s + 1
    <3>1. i - 1 \in Nat /\ (i \in 1 .. Len(pk) + 1 <=> i - 1 \in 1 .. Len(pk)) /\ (i - 1) + 1 = i
      BY <2>3, <2>7, <1>7
    <3>2. i - 1 \in 1 .. Len(pk) => i - 1 \in s + 1 .. Len(pk)
      BY <2>3, <2>7
    <3>3. i - 1 \in 1 .. Len(pk) => nk[(i - 1) + 1] = pk[i - 1]
      BY ONLY <3>2, <1>2 DEF IsPromoted
    <3>4. SplitEdge(V, par, s, p, q, a, par, i, y) <=> Edge(V, par, i - 1, y)
      BY <2>7, <2>3, <1>5 DEF SplitEdge
    <3> QED BY ONLY <2>1, <2>2, <3>1, <3>3, <3>4
  <2> QED BY <2>3, <2>4, <2>5, <2>6, <2>7
<1>12. ASSUME NEW y \in P, NEW i \in Nat
       PROVE  Edge(W, p, i, y) <=> SplitEdge(V, par, s, p, q, a, p, i, y)
  <2>1. SplitEdge(V, par, s, p, q, a, p, i, y) <=> i <= a /\ Edge(V, p, i, y)
    BY <1>5 DEF SplitEdge
  <2>2. \A j \in 1 .. a : l.kids[j] = V[p].kids[j] /\ j \in 1 .. Len(V[p].kids)
    <3>1. Len(V[p].kids) = a + Len(r.kids) /\ \A j \in 1 .. a : l.kids[j] = V[p].kids[j]
      BY ONLY <1>8 DEF CutKids, a
    <3>2. \A j \in 1 .. a : j \in 1 .. Len(V[p].kids)
      BY ONLY <1>7, <1>9, <3>1
    <3> QED BY ONLY <3>1, <3>2
  <2>3. Edge(W, p, i, y) <=> V[p].kind = "interior" /\ i \in 1 .. a /\ l.kids[i] = y
    BY <1>1, <1>8 DEF Edge, a
  <2>4. i <= a /\ Edge(V, p, i, y) <=> V[p].kind = "interior" /\ i \in 1 .. a /\ V[p].kids[i] = y
    BY <1>7, <1>9, <2>2 DEF Edge
  <2> QED BY ONLY <2>1, <2>2, <2>3, <2>4
<1>13. ASSUME NEW y \in P, NEW i \in Nat
       PROVE  Edge(W, q, i, y) <=> SplitEdge(V, par, s, p, q, a, q, i, y)
  <2>1. SplitEdge(V, par, s, p, q, a, q, i, y) <=> i >= 1 /\ Edge(V, p, a + i, y)
    BY <1>5 DEF SplitEdge
  <2>2. \A j \in 1 .. Len(r.kids) : r.kids[j] = V[p].kids[a + j]
    BY <1>8 DEF CutKids, a
  <2>3. Edge(W, q, i, y) <=> V[p].kind = "interior" /\ i \in 1 .. Len(r.kids) /\ r.kids[i] = y
    BY <1>1, <1>8 DEF Edge
  <2>4. Len(V[p].kids) = a + Len(r.kids)
    BY <1>8 DEF CutKids, a
  <2>5. i >= 1 /\ a + i \in 1 .. Len(V[p].kids) <=> i \in 1 .. Len(r.kids)
    BY ONLY <1>7, <1>9, <2>4, i \in Nat
  <2>6. i >= 1 /\ Edge(V, p, a + i, y) <=> V[p].kind = "interior" /\ i \in 1 .. Len(r.kids) /\ V[p].kids[a + i] = y
    BY ONLY <2>5 DEF Edge
  <2> QED BY ONLY <2>1, <2>2, <2>3, <2>6
<1>14. \A x, y \in P, i \in Nat : Edge(W, x, i, y) <=> SplitEdge(V, par, s, p, q, a, x, i, y)
  BY <1>10, <1>11, <1>12, <1>13
<1> QED BY <1>5, <1>9, <1>14 DEF P, a

\* A split leaves a tree.
LEMMA SplitKeeps ==
  ASSUME NEW C, CellSet(C), NEW V, NEW W, NEW root, NEW hole, hole \notin DOMAIN V, NEW ht, NEW span,
         Structure(C, V, root, hole, ht, span),
         NEW par, NEW s, NEW p, NEW q, NEW l, NEW r, NEW cell,
         Splits(C, V, W, par, s, p, q, l, r, cell)
  PROVE  Structure(C, W, root, hole, SplitHt(ht, p, q), SplitSpan(span, p, q, cell.key))
<1> DEFINE P == DOMAIN V  a == Len(l.kids)  k == cell.key
           nht == SplitHt(ht, p, q)  nspan == SplitSpan(span, p, q, cell.key)
<1>1. /\ DOMAIN W = P /\ par \in P /\ p \in P /\ q \in P /\ s \in Nat /\ Edge(V, par, s, p) /\ ~TreePage(V, q)
      /\ IsCut(C, P, V[p], l, r, k) /\ W[p] = l /\ W[q] = r
      /\ \A x \in P \ {p, q, par} : W[x] = V[x]
  BY DEF Splits
<1>2. /\ Node(C, P, W[par]) /\ W[par].kind = "interior" /\ k \in span[p] /\ k \in Nat
      /\ IsInsert(V[par].cells, s, cell, W[par].cells) /\ Len(W[par].cells) = Len(V[par].cells) + 1
      /\ PromotedRoutes(V[par].cells, W[par].cells, s, k)
      /\ Len(V[par].kids) = Len(V[par].cells) + 1 /\ Len(V[par].cells) \in Nat
  BY SplitParent
<1>3. /\ p # par /\ q # par /\ p # q /\ a \in Nat
      /\ \A x, y \in P, i \in Nat : Edge(W, x, i, y) <=> SplitEdge(V, par, s, p, q, a, x, i, y)
  BY SplitEdges
<1>4. /\ WellFormed(C, V, hole)
      /\ ht \in [P -> Nat] /\ root \in P /\ TreePage(V, root)
      /\ \A x \in P : ht[x] <= ht[root]
      /\ \A x \in P : V[x].kind = "leaf" => ht[x] = 0
      /\ \A x \in P : V[x].kind = "interior" => ht[x] > 0
      /\ \A x, y \in P, i \in Nat : Edge(V, x, i, y) => TreePage(V, y) /\ ht[y] + 1 = ht[x]
  BY DEF Structure, Heights
<1>5. /\ \A x, y, c \in P, i, j \in Nat : Edge(V, x, i, c) /\ Edge(V, y, j, c) => x = y /\ i = j
      /\ \A x \in P, i \in Nat : ~Edge(V, x, i, root)
      /\ \A c \in P : TreePage(V, c) /\ c # root => \E x \in P, i \in Nat : Edge(V, x, i, c)
  BY DEF Structure, Parents
<1>6. /\ span \in [P -> SUBSET Nat]
      /\ \A x \in P : TreePage(V, x) => \A i \in 1 .. Len(V[x].cells) : V[x].cells[i].key \in span[x]
      /\ \A x, y \in P, i \in Nat : Edge(V, x, i, y) => \A z \in span[y] : z \in span[x] /\ Routes(V[x].cells, i, z)
  BY DEF Structure, Spans
<1>7. V[par].kind = "interior" /\ TreePage(V, par) /\ TreePage(V, p) /\ s \in 1 .. Len(V[par].kids)
  BY <1>1, <1>4 DEF Edge, TreePage
<1>8. /\ l.kind = V[p].kind /\ r.kind = V[p].kind /\ Node(C, P, l) /\ Node(C, P, r)
      /\ CutKeys(V[p].cells, l.cells, r.cells, k)
      /\ CutRoutes(V[p].cells, l.cells, r.cells, k, a, Len(r.kids))
  BY <1>1 DEF IsCut
<1>9. /\ \A x \in P : x # q => (W[x].kind = V[x].kind /\ (TreePage(W, x) <=> TreePage(V, x)))
      /\ TreePage(W, q) /\ W[q].kind = V[p].kind
  BY <1>1, <1>2, <1>7, <1>8 DEF TreePage
<1>10. \A x \in P, i \in Nat : ~Edge(V, x, i, q) /\ (Edge(V, x, i, p) => x = par /\ i = s)
  BY <1>1, <1>4, <1>5
<1>11. /\ nht \in [P -> Nat] /\ \A x \in P : nht[x] = IF x = q THEN ht[p] ELSE ht[x]
       /\ nspan \in [P -> SUBSET Nat]
       /\ nspan[p] = {z \in span[p] : z <= k} /\ nspan[q] = {z \in span[p] : z > k}
       /\ \A x \in P \ {p, q} : nspan[x] = span[x]
  <2>1. nht = [x \in P |-> IF x = q THEN ht[p] ELSE ht[x]]
    BY <1>4 DEF SplitHt
  <2>2. nspan = [x \in P |-> IF x = p THEN {y \in span[p] : y <= k}
                             ELSE IF x = q THEN {y \in span[p] : y > k} ELSE span[x]]
    BY <1>6 DEF SplitSpan
  <2> HIDE DEF nht, nspan
  <2>3. nht \in [P -> Nat] /\ \A x \in P : nht[x] = IF x = q THEN ht[p] ELSE ht[x]
    BY ONLY <1>1, <1>4, <2>1
  <2>4. \A x \in P : span[x] \in SUBSET Nat
    BY ONLY <1>6
  <2>5. nspan \in [P -> SUBSET Nat]
    BY ONLY <1>1, <2>2, <2>4
  <2>6. nspan[p] = {z \in span[p] : z <= k} /\ nspan[q] = {z \in span[p] : z > k} /\ \A x \in P \ {p, q} : nspan[x] = span[x]
    BY ONLY <1>1, <1>3, <2>2
  <2> QED BY ONLY <2>3, <2>5, <2>6
<1> HIDE DEF P, a, k, nht, nspan
<1>12. WellFormed(C, W, hole)
  <2> SUFFICES ASSUME NEW x \in P, TreePage(W, x) PROVE Node(C, P, W[x])
    BY <1>1 DEF WellFormed
  <2>1. CASE x \notin {p, q, par}
    BY <2>1, <1>1, <1>4, <1>9, NodeOf DEF P
  <2>2. CASE x \in {p, q, par}
    BY ONLY <2>2, <1>1, <1>2, <1>8
  <2> QED BY <2>1, <2>2
<1>13. Heights(W, root, nht)
  <2>1. root # q /\ TreePage(W, root) /\ nht[root] = ht[root]
    BY ONLY <1>1, <1>4, <1>9, <1>11
  <2>2. \A x \in P : nht[x] <= nht[root]
    BY ONLY <1>1, <1>4, <1>11, <2>1
  <2>3. \A x \in P : (W[x].kind = "leaf" => nht[x] = 0) /\ (W[x].kind = "interior" => nht[x] > 0)
    BY ONLY <1>1, <1>4, <1>9, <1>11
  <2>4. ASSUME NEW x \in P, NEW y \in P, NEW i \in Nat, Edge(W, x, i, y)
        PROVE  TreePage(W, y) /\ nht[y] + 1 = nht[x]
    <3>1. SplitEdge(V, par, s, p, q, a, x, i, y)
      BY ONLY <1>3, <2>4, x \in P, y \in P, i \in Nat
    <3>2. ASSUME NEW j \in Nat, NEW u \in P, Edge(V, u, j, y) PROVE y # q /\ TreePage(W, y) /\ nht[y] + 1 = ht[u]
      BY ONLY <3>2, <1>4, <1>9, <1>10, <1>11, y \in P
    <3>3. CASE x \notin {p, q, par} /\ Edge(V, x, i, y)
      BY ONLY <3>2, <3>3, <1>11, x \in P, i \in Nat
    <3>4. CASE x = par /\ i < s /\ Edge(V, par, i, y)
      BY ONLY <3>2, <3>4, <1>1, <1>3, <1>11, i \in Nat
    <3>5. CASE x = par /\ i = s /\ y = p
      BY ONLY <3>2, <3>5, <1>1, <1>3, <1>11, i \in Nat
    <3>6. CASE x = par /\ i = s + 1 /\ y = q
      BY ONLY <3>6, <1>1, <1>3, <1>4, <1>9, <1>11
    <3>7. CASE x = par /\ i > s + 1 /\ Edge(V, par, i - 1, y)
      <4>1. i - 1 \in Nat
        BY ONLY <3>7, <1>1, i \in Nat
      <4> QED BY ONLY <3>2, <3>7, <4>1, <1>1, <1>3, <1>11
    <3>8. CASE x = p /\ i <= a /\ Edge(V, p, i, y)
      BY ONLY <3>2, <3>8, <1>1, <1>3, <1>11, i \in Nat
    <3>9. CASE x = q /\ i >= 1 /\ Edge(V, p, a + i, y)
      <4>1. a + i \in Nat
        BY ONLY <1>3, i \in Nat
      <4> QED BY ONLY <3>2, <3>9, <4>1, <1>1, <1>3, <1>11
    <3> QED BY ONLY <3>1, <3>3, <3>4, <3>5, <3>6, <3>7, <3>8, <3>9 DEF SplitEdge
  <2> QED BY ONLY <1>1, <1>4, <1>11, <2>1, <2>2, <2>3, <2>4 DEF Heights
<1> DEFINE NX(x, i) == IF x = p /\ i > a THEN q ELSE x
           NI(x, i) == IF x = par /\ i > s THEN i + 1 ELSE IF x = p /\ i > a THEN i - a ELSE i
<1>14. ASSUME NEW c \in P, c \notin {p, q}, NEW x \in P, NEW i \in Nat, Edge(W, x, i, c)
       PROVE  \E u \in P, j \in Nat : Edge(V, u, j, c) /\ x = NX(u, j) /\ i = NI(u, j)
  <2>1. SplitEdge(V, par, s, p, q, a, x, i, c)
    BY ONLY <1>3, <1>14, x \in P, i \in Nat, c \in P
  <2>2. CASE x \notin {p, q, par} /\ Edge(V, x, i, c)
    BY ONLY <2>2, x \in P, i \in Nat
  <2>3. CASE x = par /\ i < s /\ Edge(V, par, i, c)
    BY ONLY <2>3, <1>1, <1>3, i \in Nat
  <2>4. CASE x = par /\ i > s + 1 /\ Edge(V, par, i - 1, c)
    <3>1. i - 1 \in Nat /\ i - 1 > s /\ (i - 1) + 1 = i
      BY ONLY <2>4, <1>1, i \in Nat
    <3> QED BY ONLY <2>4, <3>1, <1>1, <1>3
  <2>5. CASE x = p /\ i <= a /\ Edge(V, p, i, c)
    <3>1. ~(i > a)
      BY ONLY <2>5, <1>3, i \in Nat
    <3> QED BY ONLY <2>5, <3>1, <1>1, <1>3, i \in Nat
  <2>6. CASE x = q /\ i >= 1 /\ Edge(V, p, a + i, c)
    <3>1. a + i \in Nat /\ a + i > a /\ (a + i) - a = i
      BY ONLY <2>6, <1>3, i \in Nat
    <3> QED BY ONLY <2>6, <3>1, <1>1, <1>3
  <2> QED BY ONLY <2>1, <2>2, <2>3, <2>4, <2>5, <2>6, <1>14 DEF SplitEdge
<1>15. ASSUME NEW c \in P, c \notin {p, q}, NEW x \in P, NEW i \in Nat, Edge(V, x, i, c)
       PROVE  \E u \in P, j \in Nat : Edge(W, u, j, c)
  <2>0. i >= 1
    BY <1>15 DEF Edge
  <2>1. CASE x \notin {p, q, par}
    <3>1. SplitEdge(V, par, s, p, q, a, x, i, c)
      BY ONLY <2>1, <1>15 DEF SplitEdge
    <3> QED BY ONLY <3>1, <1>3, x \in P, i \in Nat, c \in P
  <2>2. CASE x = par /\ i < s
    <3>1. SplitEdge(V, par, s, p, q, a, x, i, c)
      BY ONLY <2>2, <1>15 DEF SplitEdge
    <3> QED BY ONLY <3>1, <1>3, x \in P, i \in Nat, c \in P
  <2>3. CASE x = par /\ i = s
    BY ONLY <2>3, <1>1, <1>15 DEF Edge
  <2>4. CASE x = par /\ i > s
    <3>1. i + 1 \in Nat /\ i + 1 > s + 1 /\ (i + 1) - 1 = i
      BY ONLY <2>4, <1>1, i \in Nat
    <3>2. SplitEdge(V, par, s, p, q, a, x, i + 1, c)
      BY ONLY <2>4, <3>1, <1>15 DEF SplitEdge
    <3> QED BY ONLY <3>1, <3>2, <1>3, x \in P, c \in P
  <2>5. CASE x = p /\ i <= a
    <3>1. SplitEdge(V, par, s, p, q, a, x, i, c)
      BY ONLY <2>5, <1>15 DEF SplitEdge
    <3> QED BY ONLY <3>1, <1>3, x \in P, i \in Nat, c \in P
  <2>6. CASE x = p /\ i > a
    <3>1. i - a \in Nat /\ i - a >= 1 /\ a + (i - a) = i
      BY ONLY <2>6, <1>3, i \in Nat
    <3>2. SplitEdge(V, par, s, p, q, a, q, i - a, c)
      BY ONLY <2>6, <3>1, <1>15 DEF SplitEdge
    <3> QED BY ONLY <3>1, <3>2, <1>1, <1>3, c \in P
  <2>7. CASE x = q
    BY ONLY <2>7, <1>1, <1>15 DEF Edge, TreePage
  <2>8. i < s \/ i = s \/ i > s
    BY ONLY <1>1, i \in Nat
  <2>9. i <= a \/ i > a
    BY ONLY <1>3, i \in Nat
  <2> QED BY ONLY <2>1, <2>2, <2>3, <2>4, <2>5, <2>6, <2>7, <2>8, <2>9
<1>16. ASSUME NEW x \in P, NEW i \in Nat PROVE (Edge(W, x, i, p) <=> x = par /\ i = s) /\ (Edge(W, x, i, q) <=> x = par /\ i = s + 1)
  <2>1. \A j \in Nat, u \in P : ~Edge(V, u, j, q) /\ (Edge(V, u, j, p) => u = par /\ j = s)
    BY ONLY <1>10
  <2>2. i > s + 1 => i - 1 \in Nat /\ i - 1 # s
    BY ONLY <1>1, i \in Nat
  <2>3. a + i \in Nat
    BY ONLY <1>3, i \in Nat
  <2>4. SplitEdge(V, par, s, p, q, a, x, i, q) <=> x = par /\ i = s + 1
    BY ONLY <2>1, <2>2, <2>3, <1>1, <1>3, x \in P, i \in Nat DEF SplitEdge
  <2>5. SplitEdge(V, par, s, p, q, a, x, i, p) <=> x = par /\ i = s
    BY ONLY <2>1, <2>2, <2>3, <1>1, <1>3, x \in P, i \in Nat DEF SplitEdge
  <2> QED BY ONLY <2>4, <2>5, <1>1, <1>3, x \in P, i \in Nat
<1>17. Parents(W, root)
  <2>1. ASSUME NEW x \in P, NEW y \in P, NEW c \in P, NEW i \in Nat, NEW j \in Nat, Edge(W, x, i, c), Edge(W, y, j, c)
        PROVE  x = y /\ i = j
    <3>1. CASE c \in {p, q}
      BY ONLY <3>1, <2>1, <1>16, x \in P, y \in P, i \in Nat, j \in Nat
    <3>2. CASE c \notin {p, q}
      <4>1. PICK u \in P, m \in Nat : Edge(V, u, m, c) /\ x = NX(u, m) /\ i = NI(u, m)
        BY <3>2, <2>1, <1>14
      <4>2. PICK v \in P, n \in Nat : Edge(V, v, n, c) /\ y = NX(v, n) /\ j = NI(v, n)
        BY <3>2, <2>1, <1>14
      <4>3. u = v /\ m = n
        BY ONLY <4>1, <4>2, <1>5, c \in P
      <4> QED BY ONLY <4>1, <4>2, <4>3
    <3> QED BY <3>1, <3>2
  <2>2. ASSUME NEW x \in P, NEW i \in Nat, Edge(W, x, i, root) PROVE FALSE
    <3>1. root \notin {p, q}
      BY ONLY <1>1, <1>4, <1>5
    <3>2. PICK u \in P, m \in Nat : Edge(V, u, m, root)
      BY <3>1, <2>2, <1>14, <1>4
    <3> QED BY ONLY <3>2, <1>5
  <2>3. ASSUME NEW c \in P, TreePage(W, c), c # root PROVE \E x \in P, i \in Nat : Edge(W, x, i, c)
    <3>1. CASE c \in {p, q}
      <4>1. s + 1 \in Nat
        BY ONLY <1>1
      <4> QED BY ONLY <3>1, <4>1, <1>1, <1>16
    <3>2. CASE c \notin {p, q}
      <4>1. TreePage(V, c)
        BY ONLY <3>2, <2>3, <1>9, c \in P
      <4>2. PICK x \in P, i \in Nat : Edge(V, x, i, c)
        BY ONLY <4>1, <2>3, <1>5, c \in P
      <4> QED BY <3>2, <4>2, <1>15
    <3> QED BY <3>1, <3>2
  <2> QED BY ONLY <1>1, <2>1, <2>2, <2>3 DEF Parents
<1>18. Spans(W, nspan)
  <2>1. ASSUME NEW x \in P, TreePage(W, x), NEW i \in 1 .. Len(W[x].cells) PROVE W[x].cells[i].key \in nspan[x]
    <3>0. \A j \in 1 .. Len(V[p].cells) : V[p].cells[j].key \in span[p]
      BY ONLY <1>1, <1>6, <1>7
    <3>1. CASE x \notin {p, q, par}
      BY ONLY <3>1, <2>1, <1>1, <1>6, <1>9, <1>11, x \in P, i \in 1 .. Len(W[x].cells)
    <3>2. CASE x = p
      BY ONLY <3>2, <3>0, <1>1, <1>8, <1>11, i \in 1 .. Len(W[x].cells) DEF CutKeys
    <3>3. CASE x = q
      <4>1. i \in 1 .. Len(r.cells) /\ W[x].cells[i].key = r.cells[i].key
        BY ONLY <3>3, <1>1, i \in 1 .. Len(W[x].cells)
      <4>2. r.cells[i].key \in span[p] /\ k < r.cells[i].key
        BY ONLY <4>1, <3>0, <1>8 DEF CutKeys
      <4>3. r.cells[i].key \in Nat
        BY ONLY <4>2, <1>1, <1>6
      <4>4. r.cells[i].key > k
        BY ONLY <4>2, <4>3, <1>2
      <4> QED BY ONLY <3>3, <4>1, <4>2, <4>4, <1>11
    <3>4. CASE x = par
      <4>1. \A j \in 1 .. Len(V[par].cells) : V[par].cells[j].key \in span[par]
        BY ONLY <1>1, <1>6, <1>7
      <4>2. k \in span[par]
        BY ONLY <1>1, <1>2, <1>6
      <4>3. i \in 1 .. Len(V[par].cells) + 1
        BY ONLY <3>4, <1>2, i \in 1 .. Len(W[x].cells)
      <4>4. CASE i < s
        <5>1. i \in 1 .. s - 1 /\ i \in 1 .. Len(V[par].cells)
          BY ONLY <4>3, <4>4, <1>1, <1>2, <1>7
        <5>2. W[par].cells[i] = V[par].cells[i]
          BY ONLY <5>1, <1>2 DEF IsInsert
        <5> QED BY ONLY <3>4, <4>1, <5>1, <5>2, <1>1, <1>3, <1>11
      <4>5. CASE i = s
        BY ONLY <4>5, <3>4, <4>2, <1>1, <1>2, <1>3, <1>11 DEF IsInsert, k
      <4>6. CASE i > s
        <5>1. i - 1 \in s .. Len(V[par].cells) /\ i - 1 \in 1 .. Len(V[par].cells) /\ (i - 1) + 1 = i
          BY ONLY <4>3, <4>6, <1>1, <1>2, <1>7
        <5>2. W[par].cells[(i - 1) + 1] = V[par].cells[i - 1]
          BY ONLY <5>1, <1>2 DEF IsInsert
        <5> QED BY ONLY <3>4, <4>1, <5>1, <5>2, <1>1, <1>3, <1>11
      <4> QED BY ONLY <4>3, <4>4, <4>5, <4>6, <1>1, <1>2
    <3> QED BY <3>1, <3>2, <3>3, <3>4
  <2>2. ASSUME NEW x \in P, NEW y \in P, NEW i \in Nat, Edge(W, x, i, y), NEW z \in nspan[y]
        PROVE  z \in nspan[x] /\ Routes(W[x].cells, i, z)
    <3>1. SplitEdge(V, par, s, p, q, a, x, i, y)
      BY ONLY <1>3, <2>2, x \in P, y \in P, i \in Nat
    <3>2. z \in Nat
      BY ONLY <1>11, y \in P, z \in nspan[y]
    <3>3. ASSUME NEW u \in P, NEW j \in Nat, Edge(V, u, j, y)
          PROVE  z \in span[u] /\ Routes(V[u].cells, j, z)
      <4>1. y # q /\ z \in span[y]
        BY ONLY <3>3, <1>1, <1>10, <1>11, y \in P, z \in nspan[y]
      <4> QED BY ONLY <4>1, <3>3, <1>6, y \in P
    <3>4. nspan[par] = span[par]
      BY ONLY <1>1, <1>3, <1>11
    <3>5. ASSUME NEW j \in Nat, Edge(V, par, j, y) PROVE j \in 1 .. Len(V[par].cells) + 1
      BY <3>5, <1>2 DEF Edge
    <3>6. CASE x \notin {p, q, par} /\ Edge(V, x, i, y)
      <4>1. W[x] = V[x] /\ nspan[x] = span[x]
        BY ONLY <3>6, <1>1, <1>11, x \in P
      <4> QED BY ONLY <3>3, <3>6, <4>1, x \in P, i \in Nat
    <3>7. CASE x = par /\ i < s /\ Edge(V, par, i, y)
      <4>1. z \in span[par] /\ Routes(V[par].cells, i, z) /\ i \in 1 .. Len(V[par].cells) + 1
        BY ONLY <3>3, <3>5, <3>7, <1>1, i \in Nat
      <4>2. Routes(W[par].cells, i, z)
        BY ONLY <3>7, <4>1, <3>2, <1>2 DEF PromotedRoutes
      <4> QED BY ONLY <3>4, <3>7, <4>1, <4>2
    <3>8. CASE x = par /\ i = s /\ y = p
      <4>1. z \in span[p] /\ z <= k
        BY ONLY <3>8, <1>11, z \in nspan[y]
      <4>2. z \in span[par] /\ Routes(V[par].cells, s, z) /\ s \in 1 .. Len(V[par].cells) + 1
        BY ONLY <4>1, <1>1, <1>2, <1>6, <1>7
      <4>3. Routes(W[par].cells, s, z)
        BY ONLY <4>1, <4>2, <3>2, <1>2 DEF PromotedRoutes
      <4> QED BY ONLY <3>4, <3>8, <4>2, <4>3
    <3>9. CASE x = par /\ i = s + 1 /\ y = q
      <4>1. z \in span[p] /\ z > k
        BY ONLY <3>9, <1>11, z \in nspan[y]
      <4>2. z \in span[par] /\ Routes(V[par].cells, s, z) /\ s \in 1 .. Len(V[par].cells) + 1
        BY ONLY <4>1, <1>1, <1>2, <1>6, <1>7
      <4>3. Routes(W[par].cells, s + 1, z)
        BY ONLY <4>1, <4>2, <3>2, <1>2 DEF PromotedRoutes
      <4> QED BY ONLY <3>4, <3>9, <4>2, <4>3
    <3>10. CASE x = par /\ i > s + 1 /\ Edge(V, par, i - 1, y)
      <4>0. i - 1 \in Nat /\ i - 1 > s /\ (i - 1) + 1 = i
        BY ONLY <3>10, <1>1, i \in Nat
      <4>1. z \in span[par] /\ Routes(V[par].cells, i - 1, z) /\ i - 1 \in 1 .. Len(V[par].cells) + 1
        BY ONLY <3>3, <3>5, <3>10, <4>0, <1>1
      <4>2. Routes(W[par].cells, (i - 1) + 1, z)
        BY ONLY <4>0, <4>1, <3>2, <1>2 DEF PromotedRoutes
      <4> QED BY ONLY <3>4, <3>10, <4>0, <4>1, <4>2
    <3>11. CASE x = p /\ i <= a /\ Edge(V, p, i, y)
      <4>1. z \in span[p] /\ Routes(V[p].cells, i, z) /\ i \in 1 .. a
        <5>1. i >= 1
          BY <3>11 DEF Edge
        <5>2. i \in 1 .. a
          BY ONLY <5>1, <3>11, <1>3, i \in Nat
        <5> QED BY ONLY <3>3, <3>11, <5>2, <1>1, i \in Nat
      <4>2. Routes(l.cells, i, z) /\ z <= k
        BY ONLY <4>1, <3>2, <1>8 DEF CutRoutes
      <4> QED BY ONLY <3>11, <4>1, <4>2, <1>1, <1>11
    <3>12. CASE x = q /\ i >= 1 /\ Edge(V, p, a + i, y)
      <4>1. z \in span[p] /\ Routes(V[p].cells, a + i, z) /\ i \in 1 .. Len(r.kids)
        <5>1. a + i \in 1 .. Len(V[p].kids)
          BY <3>12 DEF Edge
        <5>2. Len(V[p].kids) = a + Len(r.kids) /\ Len(r.kids) \in Nat
          BY <1>1, <1>8 DEF IsCut, CutKids, a, Node
        <5>3. i \in 1 .. Len(r.kids) /\ a + i \in Nat
          BY ONLY <5>1, <5>2, <3>12, <1>3, i \in Nat
        <5> QED BY ONLY <3>3, <3>12, <5>3, <1>1
      <4>2. Routes(r.cells, i, z) /\ k < z
        BY ONLY <4>1, <3>2, <1>8 DEF CutRoutes
      <4>3. z > k
        BY ONLY <4>2, <3>2, <1>2
      <4> QED BY ONLY <3>12, <4>1, <4>2, <4>3, <1>1, <1>11
    <3> QED BY ONLY <3>1, <3>6, <3>7, <3>8, <3>9, <3>10, <3>11, <3>12 DEF SplitEdge
  <2> QED BY ONLY <1>1, <1>11, <2>1, <2>2 DEF Spans
<1>19. Structure(C, W, root, hole, nht, nspan)
  BY ONLY <1>12, <1>13, <1>17, <1>18 DEF Structure
<1> QED BY <1>19 DEF nht, nspan

-----------------------------------------------------------------------------
(* A split of the root *)

\* The root is cut in two; both halves move out to pages of no tree, and the
\* root becomes the page above them.
RootSplits(C, V, W, root, lp, rp, l, r, cell) ==
  /\ DOMAIN W = DOMAIN V
  /\ lp \in DOMAIN V /\ rp \in DOMAIN V /\ lp # rp
  /\ ~TreePage(V, lp) /\ ~TreePage(V, rp)
  /\ cell \in C
  /\ IsCut(C, DOMAIN V, V[root], l, r, cell.key)
  /\ W[lp] = l /\ W[rp] = r /\ W[root] = Interior(<<cell>>, <<lp, rp>>)
  /\ \A x \in DOMAIN V \ {root, lp, rp} : W[x] = V[x]

RootHt(ht, root, lp, rp) ==
  [x \in DOMAIN ht |-> IF x = root THEN ht[root] + 1 ELSE IF x \in {lp, rp} THEN ht[root] ELSE ht[x]]
RootSpan(span, root, lp, rp, k) ==
  [x \in DOMAIN span |-> IF x = lp THEN {y \in span[root] : y <= k}
                         ELSE IF x = rp THEN {y \in span[root] : y > k} ELSE span[x]]

RootEdge(V, root, lp, rp, a, x, i, y) ==
  \/ x \notin {root, lp, rp} /\ Edge(V, x, i, y)
  \/ x = root /\ i = 1 /\ y = lp
  \/ x = root /\ i = 2 /\ y = rp
  \/ x = lp /\ i <= a /\ Edge(V, root, i, y)
  \/ x = rp /\ i >= 1 /\ Edge(V, root, a + i, y)

\* The edges after the root was split: two from it, and its own from the halves.
LEMMA RootEdges ==
  ASSUME NEW C, CellSet(C), NEW V, NEW W, NEW root, NEW hole, hole \notin DOMAIN V, NEW ht, NEW span,
         Structure(C, V, root, hole, ht, span),
         NEW lp, NEW rp, NEW l, NEW r, NEW cell,
         RootSplits(C, V, W, root, lp, rp, l, r, cell)
  PROVE  /\ lp # root /\ rp # root /\ Len(l.kids) \in Nat
         /\ \A x, y \in DOMAIN V, i \in Nat :
               Edge(W, x, i, y) <=> RootEdge(V, root, lp, rp, Len(l.kids), x, i, y)
<1> DEFINE P == DOMAIN V  a == Len(l.kids)
<1>1. /\ DOMAIN W = P /\ lp \in P /\ rp \in P /\ lp # rp /\ ~TreePage(V, lp) /\ ~TreePage(V, rp)
      /\ IsCut(C, P, V[root], l, r, cell.key) /\ W[lp] = l /\ W[rp] = r /\ W[root] = Interior(<<cell>>, <<lp, rp>>)
      /\ \A x \in P \ {root, lp, rp} : W[x] = V[x]
  BY DEF RootSplits
<1>2. root \in P /\ TreePage(V, root)
  BY DEF Structure, Heights
<1>3. lp # root /\ rp # root
  BY <1>1, <1>2
<1>4. Node(C, P, V[root])
  BY <1>2, NodeOf DEF Structure
<1>5. V[root].kids \in Seq(P) /\ Len(V[root].kids) \in Nat
  BY <1>4 DEF Node
<1>6. /\ l.kind = V[root].kind /\ r.kind = V[root].kind /\ CutKids(V[root].kids, l.kids, r.kids)
      /\ Node(C, P, l) /\ Node(C, P, r)
  BY <1>1 DEF IsCut
<1>7. a \in Nat /\ Len(r.kids) \in Nat
  BY <1>6 DEF Node
<1> HIDE DEF P, a
<1>8. ASSUME NEW x \in P, NEW y \in P, NEW i \in Nat, x \notin {root, lp, rp}
      PROVE  Edge(W, x, i, y) <=> RootEdge(V, root, lp, rp, a, x, i, y)
  <2>1. W[x] = V[x]
    BY ONLY <1>1, <1>8, x \in P
  <2>2. Edge(W, x, i, y) <=> Edge(V, x, i, y)
    BY ONLY <2>1 DEF Edge
  <2> QED BY ONLY <1>8, <2>2 DEF RootEdge
<1>9. ASSUME NEW y \in P, NEW i \in Nat
      PROVE  Edge(W, root, i, y) <=> RootEdge(V, root, lp, rp, a, root, i, y)
  <2>1. W[root].kind = "interior" /\ W[root].kids = <<lp, rp>>
    BY ONLY <1>1 DEF Interior
  <2>2. Edge(W, root, i, y) <=> (i = 1 /\ y = lp) \/ (i = 2 /\ y = rp)
    BY ONLY <2>1, i \in Nat DEF Edge
  <2> QED BY ONLY <1>3, <2>2 DEF RootEdge
<1>10. ASSUME NEW y \in P, NEW i \in Nat
       PROVE  Edge(W, lp, i, y) <=> RootEdge(V, root, lp, rp, a, lp, i, y)
  <2>1. RootEdge(V, root, lp, rp, a, lp, i, y) <=> i <= a /\ Edge(V, root, i, y)
    BY ONLY <1>1, <1>3 DEF RootEdge
  <2>2. \A j \in 1 .. a : l.kids[j] = V[root].kids[j] /\ j \in 1 .. Len(V[root].kids)
    <3>1. Len(V[root].kids) = a + Len(r.kids) /\ \A j \in 1 .. a : l.kids[j] = V[root].kids[j]
      BY ONLY <1>6 DEF CutKids, a
    <3>2. \A j \in 1 .. a : j \in 1 .. Len(V[root].kids)
      BY ONLY <1>5, <1>7, <3>1
    <3> QED BY ONLY <3>1, <3>2
  <2>3. Edge(W, lp, i, y) <=> V[root].kind = "interior" /\ i \in 1 .. a /\ l.kids[i] = y
    BY ONLY <1>1, <1>6 DEF Edge, a
  <2>4. i <= a /\ Edge(V, root, i, y) <=> V[root].kind = "interior" /\ i \in 1 .. a /\ V[root].kids[i] = y
    BY ONLY <1>5, <1>7, <2>2, i \in Nat DEF Edge
  <2> QED BY ONLY <2>1, <2>2, <2>3, <2>4
<1>11. ASSUME NEW y \in P, NEW i \in Nat
       PROVE  Edge(W, rp, i, y) <=> RootEdge(V, root, lp, rp, a, rp, i, y)
  <2>1. RootEdge(V, root, lp, rp, a, rp, i, y) <=> i >= 1 /\ Edge(V, root, a + i, y)
    BY ONLY <1>1, <1>3 DEF RootEdge
  <2>2. \A j \in 1 .. Len(r.kids) : r.kids[j] = V[root].kids[a + j]
    BY ONLY <1>6 DEF CutKids, a
  <2>3. Edge(W, rp, i, y) <=> V[root].kind = "interior" /\ i \in 1 .. Len(r.kids) /\ r.kids[i] = y
    BY ONLY <1>1, <1>6 DEF Edge
  <2>4. Len(V[root].kids) = a + Len(r.kids)
    BY ONLY <1>6 DEF CutKids, a
  <2>5. i >= 1 /\ a + i \in 1 .. Len(V[root].kids) <=> i \in 1 .. Len(r.kids)
    BY ONLY <1>5, <1>7, <2>4, i \in Nat
  <2>6. i >= 1 /\ Edge(V, root, a + i, y)
           <=> V[root].kind = "interior" /\ i \in 1 .. Len(r.kids) /\ V[root].kids[a + i] = y
    BY ONLY <2>5 DEF Edge
  <2> QED BY ONLY <2>1, <2>2, <2>3, <2>6
<1>12. \A x, y \in P, i \in Nat : Edge(W, x, i, y) <=> RootEdge(V, root, lp, rp, a, x, i, y)
  BY <1>8, <1>9, <1>10, <1>11
<1> QED BY <1>3, <1>7, <1>12 DEF P, a

\* It leaves a tree one level higher.
LEMMA RootSplitKeeps ==
  ASSUME NEW C, CellSet(C), NEW V, NEW W, NEW root, NEW hole, hole \notin DOMAIN V, NEW ht, NEW span,
         Structure(C, V, root, hole, ht, span),
         NEW lp, NEW rp, NEW l, NEW r, NEW cell,
         RootSplits(C, V, W, root, lp, rp, l, r, cell)
  PROVE  Structure(C, W, root, hole, RootHt(ht, root, lp, rp), RootSpan(span, root, lp, rp, cell.key))
<1> DEFINE P == DOMAIN V  a == Len(l.kids)  k == cell.key
           nht == RootHt(ht, root, lp, rp)  nspan == RootSpan(span, root, lp, rp, cell.key)
<1>1. /\ DOMAIN W = P /\ lp \in P /\ rp \in P /\ lp # rp /\ ~TreePage(V, lp) /\ ~TreePage(V, rp) /\ cell \in C
      /\ IsCut(C, P, V[root], l, r, k) /\ W[lp] = l /\ W[rp] = r /\ W[root] = Interior(<<cell>>, <<lp, rp>>)
      /\ \A x \in P \ {root, lp, rp} : W[x] = V[x]
  BY DEF RootSplits
<1>2. /\ lp # root /\ rp # root /\ a \in Nat
      /\ \A x, y \in P, i \in Nat : Edge(W, x, i, y) <=> RootEdge(V, root, lp, rp, a, x, i, y)
  BY RootEdges
<1>4. /\ WellFormed(C, V, hole)
      /\ ht \in [P -> Nat] /\ root \in P /\ TreePage(V, root)
      /\ \A x \in P : ht[x] <= ht[root]
      /\ \A x \in P : V[x].kind = "leaf" => ht[x] = 0
      /\ \A x \in P : V[x].kind = "interior" => ht[x] > 0
      /\ \A x, y \in P, i \in Nat : Edge(V, x, i, y) => TreePage(V, y) /\ ht[y] + 1 = ht[x]
  BY DEF Structure, Heights
<1>5. /\ \A x, y, c \in P, i, j \in Nat : Edge(V, x, i, c) /\ Edge(V, y, j, c) => x = y /\ i = j
      /\ \A x \in P, i \in Nat : ~Edge(V, x, i, root)
      /\ \A c \in P : TreePage(V, c) /\ c # root => \E x \in P, i \in Nat : Edge(V, x, i, c)
  BY DEF Structure, Parents
<1>6. /\ span \in [P -> SUBSET Nat]
      /\ \A x \in P : TreePage(V, x) => \A i \in 1 .. Len(V[x].cells) : V[x].cells[i].key \in span[x]
      /\ \A x, y \in P, i \in Nat : Edge(V, x, i, y) => \A z \in span[y] : z \in span[x] /\ Routes(V[x].cells, i, z)
  BY DEF Structure, Spans
<1>8. /\ l.kind = V[root].kind /\ r.kind = V[root].kind /\ Node(C, P, l) /\ Node(C, P, r)
      /\ CutKeys(V[root].cells, l.cells, r.cells, k)
      /\ CutRoutes(V[root].cells, l.cells, r.cells, k, a, Len(r.kids))
  BY <1>1 DEF IsCut
<1>9. /\ \A x \in P \ {root, lp, rp} : (W[x].kind = V[x].kind /\ (TreePage(W, x) <=> TreePage(V, x)))
      /\ TreePage(W, root) /\ W[root].kind = "interior" /\ W[root].cells = <<cell>> /\ W[root].kids = <<lp, rp>>
      /\ TreePage(W, lp) /\ W[lp].kind = V[root].kind
      /\ TreePage(W, rp) /\ W[rp].kind = V[root].kind
  BY <1>1, <1>4, <1>8 DEF TreePage, Interior
<1>10. \A x \in P, i \in Nat : ~Edge(V, x, i, lp) /\ ~Edge(V, x, i, rp) /\ ~Edge(V, x, i, root)
  BY <1>1, <1>4, <1>5
<1>11. /\ nht \in [P -> Nat] /\ nht[root] = ht[root] + 1 /\ nht[lp] = ht[root] /\ nht[rp] = ht[root]
       /\ \A x \in P \ {root, lp, rp} : nht[x] = ht[x]
       /\ nspan \in [P -> SUBSET Nat]
       /\ nspan[lp] = {z \in span[root] : z <= k} /\ nspan[rp] = {z \in span[root] : z > k}
       /\ \A x \in P \ {lp, rp} : nspan[x] = span[x]
  <2>1. nht = [x \in P |-> IF x = root THEN ht[root] + 1 ELSE IF x \in {lp, rp} THEN ht[root] ELSE ht[x]]
    BY <1>4 DEF RootHt
  <2>2. nspan = [x \in P |-> IF x = lp THEN {y \in span[root] : y <= k}
                             ELSE IF x = rp THEN {y \in span[root] : y > k} ELSE span[x]]
    BY <1>6 DEF RootSpan
  <2> HIDE DEF nht, nspan, P, k
  <2>3. /\ nht \in [P -> Nat] /\ nht[root] = ht[root] + 1 /\ nht[lp] = ht[root] /\ nht[rp] = ht[root]
        /\ \A x \in P \ {root, lp, rp} : nht[x] = ht[x]
    BY ONLY <1>1, <1>2, <1>4, <2>1
  <2>4. \A x \in P : span[x] \in SUBSET Nat
    BY ONLY <1>6
  <2>5. nspan \in [P -> SUBSET Nat]
    BY ONLY <1>1, <1>4, <2>2, <2>4
  <2>6. /\ nspan[lp] = {z \in span[root] : z <= k} /\ nspan[rp] = {z \in span[root] : z > k}
        /\ \A x \in P \ {lp, rp} : nspan[x] = span[x]
    BY ONLY <1>1, <1>2, <2>2
  <2> QED BY ONLY <2>3, <2>5, <2>6
<1>12. k \in span[root] /\ k \in Nat
  BY <1>1, <1>4, <1>6, <1>8 DEF CutKeys, CellSet
<1>13. Node(C, P, W[root])
  <2>1. <<cell>> \in Seq(C) /\ <<lp, rp>> \in Seq(P) /\ Len(<<lp, rp>>) = Len(<<cell>>) + 1
    BY <1>1
  <2>2. Sorted(<<cell>>)
    BY DEF Sorted
  <2> QED BY ONLY <1>9, <2>1, <2>2 DEF Node
<1> HIDE DEF P, a, k, nht, nspan
<1>14. WellFormed(C, W, hole)
  <2> SUFFICES ASSUME NEW x \in P, TreePage(W, x) PROVE Node(C, P, W[x])
    BY <1>1 DEF WellFormed
  <2>1. CASE x \notin {root, lp, rp}
    BY <2>1, <1>1, <1>4, <1>9, NodeOf DEF P
  <2>2. CASE x \in {root, lp, rp}
    BY ONLY <2>2, <1>1, <1>8, <1>13
  <2> QED BY <2>1, <2>2
<1>15. Heights(W, root, nht)
  <2>1. \A x \in P : nht[x] <= nht[root]
    <3> TAKE x \in P
    <3>1. ht[x] \in Nat /\ ht[root] \in Nat /\ ht[x] <= ht[root]
      BY ONLY <1>4, x \in P
    <3>2. nht[x] = ht[x] \/ nht[x] = ht[root] \/ nht[x] = ht[root] + 1
      BY ONLY <1>11, x \in P
    <3> QED BY ONLY <3>1, <3>2, <1>11
  <2>2. \A x \in P : (W[x].kind = "leaf" => nht[x] = 0) /\ (W[x].kind = "interior" => nht[x] > 0)
    <3> TAKE x \in P
    <3>1. CASE x \notin {root, lp, rp}
      BY ONLY <3>1, <1>4, <1>9, <1>11, x \in P
    <3>2. CASE x \in {lp, rp}
      BY ONLY <3>2, <1>1, <1>4, <1>9, <1>11
    <3>3. CASE x = root
      BY ONLY <3>3, <1>4, <1>9, <1>11
    <3> QED BY <3>1, <3>2, <3>3
  <2>3. ASSUME NEW x \in P, NEW y \in P, NEW i \in Nat, Edge(W, x, i, y)
        PROVE  TreePage(W, y) /\ nht[y] + 1 = nht[x]
    <3>1. RootEdge(V, root, lp, rp, a, x, i, y)
      BY ONLY <1>2, <2>3, x \in P, y \in P, i \in Nat
    <3>2. ASSUME NEW j \in Nat, NEW u \in P, Edge(V, u, j, y) PROVE TreePage(W, y) /\ nht[y] + 1 = ht[u]
      <4>1. y \in P \ {root, lp, rp}
        BY ONLY <3>2, <1>10, y \in P
      <4> QED BY ONLY <3>2, <4>1, <1>4, <1>9, <1>11
    <3>3. CASE x \notin {root, lp, rp} /\ Edge(V, x, i, y)
      BY ONLY <3>2, <3>3, <1>11, x \in P, i \in Nat
    <3>4. CASE x = root /\ y \in {lp, rp}
      BY ONLY <3>4, <1>4, <1>9, <1>11
    <3>5. CASE x = lp /\ i <= a /\ Edge(V, root, i, y)
      BY ONLY <3>2, <3>5, <1>4, <1>11, i \in Nat
    <3>6. CASE x = rp /\ i >= 1 /\ Edge(V, root, a + i, y)
      <4>1. a + i \in Nat
        BY ONLY <1>2, i \in Nat
      <4> QED BY ONLY <3>2, <3>6, <4>1, <1>4, <1>11
    <3> QED BY ONLY <3>1, <3>3, <3>4, <3>5, <3>6 DEF RootEdge
  <2> QED BY ONLY <1>1, <1>4, <1>9, <1>11, <2>1, <2>2, <2>3 DEF Heights
<1> DEFINE NX(x, i) == IF x = root THEN (IF i > a THEN rp ELSE lp) ELSE x
           NI(x, i) == IF x = root /\ i > a THEN i - a ELSE i
<1>16. ASSUME NEW c \in P, c \notin {lp, rp}, NEW x \in P, NEW i \in Nat, Edge(W, x, i, c)
       PROVE  \E u \in P, j \in Nat : Edge(V, u, j, c) /\ x = NX(u, j) /\ i = NI(u, j)
  <2>1. RootEdge(V, root, lp, rp, a, x, i, c)
    BY ONLY <1>2, <1>16, x \in P, i \in Nat, c \in P
  <2>2. CASE x \notin {root, lp, rp} /\ Edge(V, x, i, c)
    BY ONLY <2>2, x \in P, i \in Nat
  <2>3. CASE x = lp /\ i <= a /\ Edge(V, root, i, c)
    <3>1. ~(i > a)
      BY ONLY <2>3, <1>2, i \in Nat
    <3> QED BY ONLY <2>3, <3>1, <1>4, i \in Nat
  <2>4. CASE x = rp /\ i >= 1 /\ Edge(V, root, a + i, c)
    <3>1. a + i \in Nat /\ a + i > a /\ (a + i) - a = i
      BY ONLY <2>4, <1>2, i \in Nat
    <3> QED BY ONLY <2>4, <3>1, <1>4
  <2> QED BY ONLY <2>1, <2>2, <2>3, <2>4, <1>16 DEF RootEdge
<1>17. ASSUME NEW c \in P, NEW x \in P, NEW i \in Nat, Edge(V, x, i, c)
       PROVE  \E u \in P, j \in Nat : Edge(W, u, j, c)
  <2>1. CASE x \notin {root, lp, rp}
    <3>1. RootEdge(V, root, lp, rp, a, x, i, c)
      BY ONLY <2>1, <1>17 DEF RootEdge
    <3> QED BY ONLY <3>1, <1>2, x \in P, i \in Nat, c \in P
  <2>2. CASE x = root /\ i <= a
    <3>1. RootEdge(V, root, lp, rp, a, lp, i, c)
      BY ONLY <2>2, <1>17 DEF RootEdge
    <3> QED BY ONLY <3>1, <1>1, <1>2, i \in Nat, c \in P
  <2>3. CASE x = root /\ i > a
    <3>1. i - a \in Nat /\ i - a >= 1 /\ a + (i - a) = i
      BY ONLY <2>3, <1>2, i \in Nat
    <3>2. RootEdge(V, root, lp, rp, a, rp, i - a, c)
      BY ONLY <2>3, <3>1, <1>17 DEF RootEdge
    <3> QED BY ONLY <3>1, <3>2, <1>1, <1>2, c \in P
  <2>4. CASE x \in {lp, rp}
    BY ONLY <2>4, <1>1, <1>17 DEF Edge, TreePage
  <2>5. i <= a \/ i > a
    BY ONLY <1>2, i \in Nat
  <2> QED BY ONLY <2>1, <2>2, <2>3, <2>4, <2>5
<1>18. ASSUME NEW x \in P, NEW i \in Nat
       PROVE (Edge(W, x, i, lp) <=> x = root /\ i = 1) /\ (Edge(W, x, i, rp) <=> x = root /\ i = 2)
  <2>1. a + i \in Nat
    BY ONLY <1>2, i \in Nat
  <2>2. RootEdge(V, root, lp, rp, a, x, i, lp) <=> x = root /\ i = 1
    BY ONLY <2>1, <1>1, <1>2, <1>4, <1>10, x \in P, i \in Nat DEF RootEdge
  <2>3. RootEdge(V, root, lp, rp, a, x, i, rp) <=> x = root /\ i = 2
    BY ONLY <2>1, <1>1, <1>2, <1>4, <1>10, x \in P, i \in Nat DEF RootEdge
  <2> QED BY ONLY <2>2, <2>3, <1>1, <1>2, x \in P, i \in Nat
<1>19. Parents(W, root)
  <2>1. ASSUME NEW x \in P, NEW y \in P, NEW c \in P, NEW i \in Nat, NEW j \in Nat, Edge(W, x, i, c), Edge(W, y, j, c)
        PROVE  x = y /\ i = j
    <3>1. CASE c \in {lp, rp}
      BY ONLY <3>1, <2>1, <1>18, x \in P, y \in P, i \in Nat, j \in Nat
    <3>2. CASE c \notin {lp, rp}
      <4>1. PICK u \in P, m \in Nat : Edge(V, u, m, c) /\ x = NX(u, m) /\ i = NI(u, m)
        BY <3>2, <2>1, <1>16
      <4>2. PICK v \in P, n \in Nat : Edge(V, v, n, c) /\ y = NX(v, n) /\ j = NI(v, n)
        BY <3>2, <2>1, <1>16
      <4>3. u = v /\ m = n
        BY ONLY <4>1, <4>2, <1>5, c \in P
      <4> QED BY ONLY <4>1, <4>2, <4>3
    <3> QED BY <3>1, <3>2
  <2>2. ASSUME NEW x \in P, NEW i \in Nat, Edge(W, x, i, root) PROVE FALSE
    <3>1. root \notin {lp, rp}
      BY ONLY <1>2
    <3>2. PICK u \in P, m \in Nat : Edge(V, u, m, root)
      BY <3>1, <2>2, <1>16, <1>4
    <3> QED BY ONLY <3>2, <1>5
  <2>3. ASSUME NEW c \in P, TreePage(W, c), c # root PROVE \E x \in P, i \in Nat : Edge(W, x, i, c)
    <3>1. CASE c \in {lp, rp}
      BY ONLY <3>1, <1>4, <1>18
    <3>2. CASE c \notin {lp, rp}
      <4>1. TreePage(V, c)
        BY ONLY <3>2, <2>3, <1>9, c \in P
      <4>2. PICK x \in P, i \in Nat : Edge(V, x, i, c)
        BY ONLY <4>1, <2>3, <1>5, c \in P
      <4> QED BY <4>2, <1>17
    <3> QED BY <3>1, <3>2
  <2> QED BY ONLY <1>1, <2>1, <2>2, <2>3 DEF Parents
<1>20. \A z \in Nat : (z <= k => Routes(<<cell>>, 1, z)) /\ (z > k => Routes(<<cell>>, 2, z))
  <2> TAKE z \in Nat
  <2>1. Len(<<cell>>) = 1 /\ <<cell>>[1] = cell
    OBVIOUS
  <2>2. \A j \in 1 .. 1 : j = 1
    OBVIOUS
  <2>3. z > k => k < z
    BY ONLY <1>12, z \in Nat
  <2> QED BY ONLY <2>1, <2>2, <2>3 DEF Routes, k
<1>21. Spans(W, nspan)
  <2>1. ASSUME NEW x \in P, TreePage(W, x), NEW i \in 1 .. Len(W[x].cells) PROVE W[x].cells[i].key \in nspan[x]
    <3>0. \A j \in 1 .. Len(V[root].cells) : V[root].cells[j].key \in span[root]
      BY ONLY <1>4, <1>6
    <3>1. CASE x \notin {root, lp, rp}
      BY ONLY <3>1, <2>1, <1>1, <1>6, <1>9, <1>11, x \in P, i \in 1 .. Len(W[x].cells)
    <3>2. CASE x = lp
      BY ONLY <3>2, <3>0, <1>1, <1>8, <1>11, i \in 1 .. Len(W[x].cells) DEF CutKeys
    <3>3. CASE x = rp
      <4>1. i \in 1 .. Len(r.cells) /\ W[x].cells[i].key = r.cells[i].key
        BY ONLY <3>3, <1>1, i \in 1 .. Len(W[x].cells)
      <4>2. r.cells[i].key \in span[root] /\ k < r.cells[i].key
        BY ONLY <4>1, <3>0, <1>8 DEF CutKeys
      <4>3. r.cells[i].key \in Nat
        BY ONLY <4>2, <1>4, <1>6
      <4>4. r.cells[i].key > k
        BY ONLY <4>2, <4>3, <1>12
      <4> QED BY ONLY <3>3, <4>1, <4>2, <4>4, <1>11
    <3>4. CASE x = root
      <4>1. i = 1
        BY ONLY <3>4, <1>9, i \in 1 .. Len(W[x].cells)
      <4>2. W[x].cells[i] = cell
        BY ONLY <3>4, <4>1, <1>9
      <4> QED BY ONLY <3>4, <4>2, <1>2, <1>4, <1>11, <1>12 DEF k
    <3> QED BY <3>1, <3>2, <3>3, <3>4
  <2>2. ASSUME NEW x \in P, NEW y \in P, NEW i \in Nat, Edge(W, x, i, y), NEW z \in nspan[y]
        PROVE  z \in nspan[x] /\ Routes(W[x].cells, i, z)
    <3>1. RootEdge(V, root, lp, rp, a, x, i, y)
      BY ONLY <1>2, <2>2, x \in P, y \in P, i \in Nat
    <3>2. z \in Nat
      BY ONLY <1>11, y \in P, z \in nspan[y]
    <3>3. ASSUME NEW u \in P, NEW j \in Nat, Edge(V, u, j, y)
          PROVE  z \in span[u] /\ Routes(V[u].cells, j, z)
      <4>1. z \in span[y]
        BY ONLY <3>3, <1>10, <1>11, y \in P, z \in nspan[y]
      <4> QED BY ONLY <4>1, <3>3, <1>6, y \in P
    <3>4. CASE x \notin {root, lp, rp} /\ Edge(V, x, i, y)
      <4>1. W[x] = V[x] /\ nspan[x] = span[x]
        BY ONLY <3>4, <1>1, <1>11, x \in P
      <4> QED BY ONLY <3>3, <3>4, <4>1, x \in P, i \in Nat
    <3>5. CASE x = root /\ i = 1 /\ y = lp
      BY ONLY <3>5, <3>2, <1>2, <1>4, <1>9, <1>11, <1>20, z \in nspan[y]
    <3>6. CASE x = root /\ i = 2 /\ y = rp
      BY ONLY <3>6, <3>2, <1>2, <1>4, <1>9, <1>11, <1>20, z \in nspan[y]
    <3>7. CASE x = lp /\ i <= a /\ Edge(V, root, i, y)
      <4>1. z \in span[root] /\ Routes(V[root].cells, i, z) /\ i \in 1 .. a
        <5>1. i >= 1
          BY <3>7 DEF Edge
        <5>2. i \in 1 .. a
          BY ONLY <5>1, <3>7, <1>2, i \in Nat
        <5> QED BY ONLY <3>3, <3>7, <5>2, <1>4, i \in Nat
      <4>2. Routes(l.cells, i, z) /\ z <= k
        BY ONLY <4>1, <3>2, <1>8 DEF CutRoutes
      <4> QED BY ONLY <3>7, <4>1, <4>2, <1>1, <1>11
    <3>8. CASE x = rp /\ i >= 1 /\ Edge(V, root, a + i, y)
      <4>1. z \in span[root] /\ Routes(V[root].cells, a + i, z) /\ i \in 1 .. Len(r.kids)
        <5>1. a + i \in 1 .. Len(V[root].kids)
          BY <3>8 DEF Edge
        <5>2. Len(V[root].kids) = a + Len(r.kids) /\ Len(r.kids) \in Nat
          BY <1>1, <1>8 DEF IsCut, CutKids, a, Node
        <5>3. i \in 1 .. Len(r.kids) /\ a + i \in Nat
          BY ONLY <5>1, <5>2, <3>8, <1>2, i \in Nat
        <5> QED BY ONLY <3>3, <3>8, <5>3, <1>4
      <4>2. Routes(r.cells, i, z) /\ k < z
        BY ONLY <4>1, <3>2, <1>8 DEF CutRoutes
      <4>3. z > k
        BY ONLY <4>2, <3>2, <1>12
      <4> QED BY ONLY <3>8, <4>1, <4>2, <4>3, <1>1, <1>11
    <3> QED BY ONLY <3>1, <3>4, <3>5, <3>6, <3>7, <3>8 DEF RootEdge
  <2> QED BY ONLY <1>1, <1>11, <2>1, <2>2 DEF Spans
<1>22. Structure(C, W, root, hole, nht, nspan)
  BY ONLY <1>14, <1>15, <1>19, <1>21 DEF Structure
<1> QED BY <1>22 DEF nht, nspan

-----------------------------------------------------------------------------
(* A leaf rewritten *)

\* The leaf p gets other cells and, with them, perhaps the key x; the pages of
\* `way` lead x to it.  Pages of no tree may change as well.
LeafWrites(C, V, W, p, way, x) ==
  /\ DOMAIN W = DOMAIN V /\ p \in DOMAIN V /\ x \in Nat
  /\ V[p].kind = "leaf" /\ W[p].kind = "leaf" /\ Node(C, DOMAIN V, W[p])
  /\ \A y \in DOMAIN V \ {p} : IF TreePage(V, y) THEN W[y] = V[y] ELSE ~TreePage(W, y)
  /\ \A u, y \in DOMAIN V, i \in Nat : Edge(V, u, i, y) /\ y \in way => u \in way /\ Routes(V[u].cells, i, x)
  /\ \A i \in 1 .. Len(W[p].cells) :
        \/ \E j \in 1 .. Len(V[p].cells) : V[p].cells[j].key = W[p].cells[i].key
        \/ p \in way /\ W[p].cells[i].key = x

WaySpan(span, way, x) == [y \in DOMAIN span |-> IF y \in way THEN span[y] \cup {x} ELSE span[y]]

\* Writing a leaf keeps the structure, when its keys belong there.
LEMMA LeafKeeps ==
  ASSUME NEW C, NEW V, NEW W, NEW root, NEW hole, hole \notin DOMAIN V, NEW ht, NEW span,
         Structure(C, V, root, hole, ht, span),
         NEW p, NEW way, NEW x, LeafWrites(C, V, W, p, way, x), NEW hole2
  PROVE  Structure(C, W, root, hole2, ht, WaySpan(span, way, x))
<1> DEFINE P == DOMAIN V  nspan == WaySpan(span, way, x)
<1>1. /\ DOMAIN W = P /\ p \in P /\ x \in Nat
      /\ V[p].kind = "leaf" /\ W[p].kind = "leaf" /\ Node(C, P, W[p])
      /\ \A y \in P \ {p} : IF TreePage(V, y) THEN W[y] = V[y] ELSE ~TreePage(W, y)
      /\ \A u, y \in P, i \in Nat : Edge(V, u, i, y) /\ y \in way => u \in way /\ Routes(V[u].cells, i, x)
      /\ \A i \in 1 .. Len(W[p].cells) :
            \/ \E j \in 1 .. Len(V[p].cells) : V[p].cells[j].key = W[p].cells[i].key
            \/ p \in way /\ W[p].cells[i].key = x
  BY DEF LeafWrites
<1>2. /\ WellFormed(C, V, hole)
      /\ ht \in [P -> Nat] /\ root \in P /\ TreePage(V, root)
      /\ \A y \in P : ht[y] <= ht[root]
      /\ \A y \in P : V[y].kind = "leaf" => ht[y] = 0
      /\ \A y \in P : V[y].kind = "interior" => ht[y] > 0
      /\ \A u, y \in P, i \in Nat : Edge(V, u, i, y) => TreePage(V, y) /\ ht[y] + 1 = ht[u]
  BY DEF Structure, Heights
<1>3. /\ \A u, y, c \in P, i, j \in Nat : Edge(V, u, i, c) /\ Edge(V, y, j, c) => u = y /\ i = j
      /\ \A u \in P, i \in Nat : ~Edge(V, u, i, root)
      /\ \A c \in P : TreePage(V, c) /\ c # root => \E u \in P, i \in Nat : Edge(V, u, i, c)
  BY DEF Structure, Parents
<1>4. /\ span \in [P -> SUBSET Nat]
      /\ \A y \in P : TreePage(V, y) => \A i \in 1 .. Len(V[y].cells) : V[y].cells[i].key \in span[y]
      /\ \A u, y \in P, i \in Nat : Edge(V, u, i, y) => \A z \in span[y] : z \in span[u] /\ Routes(V[u].cells, i, z)
  BY DEF Structure, Spans
<1>5. nspan \in [P -> SUBSET Nat] /\ \A y \in P : nspan[y] = IF y \in way THEN span[y] \cup {x} ELSE span[y]
  <2>1. nspan = [y \in P |-> IF y \in way THEN span[y] \cup {x} ELSE span[y]]
    BY <1>4 DEF WaySpan
  <2> HIDE DEF nspan, P
  <2>2. \A y \in P : (IF y \in way THEN span[y] \cup {x} ELSE span[y]) \in SUBSET Nat
    BY ONLY <1>1, <1>4
  <2> QED BY ONLY <2>1, <2>2
<1> HIDE DEF P, nspan
<1>6. TreePage(V, p) /\ TreePage(W, p)
  BY ONLY <1>1 DEF TreePage
<1>7. \A y \in P : W[y].kind = V[y].kind \/ (~TreePage(V, y) /\ ~TreePage(W, y))
  BY ONLY <1>1
<1>8. \A y \in P : TreePage(W, y) <=> TreePage(V, y)
  <2> TAKE y \in P
  <2>1. CASE y = p
    BY ONLY <2>1, <1>6
  <2>2. CASE y # p /\ TreePage(V, y)
    <3>1. W[y] = V[y]
      BY ONLY <2>2, <1>1, y \in P
    <3> QED BY ONLY <2>2, <3>1 DEF TreePage
  <2>3. CASE y # p /\ ~TreePage(V, y)
    BY ONLY <2>3, <1>1, y \in P
  <2> QED BY ONLY <2>1, <2>2, <2>3
<1>9. \A u, y \in P, i \in Nat : Edge(W, u, i, y) <=> Edge(V, u, i, y)
  <2> TAKE u, y \in P, i \in Nat
  <2>1. CASE u = p
    BY ONLY <2>1, <1>1 DEF Edge
  <2>2. CASE u # p /\ TreePage(V, u)
    <3>1. W[u] = V[u]
      BY ONLY <2>2, <1>1, u \in P
    <3> QED BY ONLY <3>1 DEF Edge
  <2>3. CASE u # p /\ ~TreePage(V, u)
    <3>1. ~TreePage(W, u)
      BY ONLY <2>3, <1>1, u \in P
    <3> QED BY ONLY <2>3, <3>1 DEF Edge, TreePage
  <2> QED BY ONLY <2>1, <2>2, <2>3
<1>10. WellFormed(C, W, hole2)
  <2> SUFFICES ASSUME NEW y \in P, TreePage(W, y) PROVE Node(C, P, W[y])
    BY <1>1 DEF WellFormed
  <2>1. CASE y = p
    BY ONLY <2>1, <1>1
  <2>2. CASE y # p
    <3>1. W[y] = V[y] /\ TreePage(V, y)
      BY ONLY <2>2, <1>1, <1>8, TreePage(W, y), y \in P
    <3> QED BY <3>1, <1>2, NodeOf DEF P
  <2> QED BY <2>1, <2>2
<1>11. Heights(W, root, ht)
  <2>1. \A y \in P : (W[y].kind = "leaf" => ht[y] = 0) /\ (W[y].kind = "interior" => ht[y] > 0)
    BY ONLY <1>2, <1>7 DEF TreePage
  <2> QED BY ONLY <1>1, <1>2, <1>8, <1>9, <2>1 DEF Heights
<1>12. Parents(W, root)
  BY ONLY <1>1, <1>2, <1>3, <1>8, <1>9 DEF Parents
<1>13. Spans(W, nspan)
  <2>1. ASSUME NEW y \in P, TreePage(W, y), NEW i \in 1 .. Len(W[y].cells) PROVE W[y].cells[i].key \in nspan[y]
    <3>1. CASE y = p
      <4>1. \A j \in 1 .. Len(V[p].cells) : V[p].cells[j].key \in span[p]
        BY ONLY <1>1, <1>4, <1>6
      <4> QED BY ONLY <3>1, <4>1, <1>1, <1>5, i \in 1 .. Len(W[y].cells)
    <3>2. CASE y # p
      <4>1. W[y] = V[y] /\ TreePage(V, y)
        BY ONLY <3>2, <1>1, <1>8, <2>1, y \in P
      <4> QED BY ONLY <4>1, <1>4, <1>5, y \in P, i \in 1 .. Len(W[y].cells)
    <3> QED BY <3>1, <3>2
  <2>2. ASSUME NEW u \in P, NEW y \in P, NEW i \in Nat, Edge(W, u, i, y), NEW z \in nspan[y]
        PROVE  z \in nspan[u] /\ Routes(W[u].cells, i, z)
    <3>1. Edge(V, u, i, y)
      BY ONLY <2>2, <1>9, u \in P, y \in P, i \in Nat
    <3>2. W[u] = V[u]
      BY ONLY <3>1, <1>1, u \in P DEF Edge, TreePage
    <3>3. CASE z \in span[y]
      BY ONLY <3>1, <3>2, <3>3, <1>4, <1>5, u \in P, y \in P, i \in Nat
    <3>4. CASE y \in way /\ z = x
      BY ONLY <3>1, <3>2, <3>4, <1>1, <1>5, u \in P, y \in P, i \in Nat
    <3> QED BY ONLY <3>3, <3>4, <1>5, y \in P, z \in nspan[y]
  <2> QED BY ONLY <1>1, <1>5, <2>1, <2>2 DEF Spans
<1>14. Structure(C, W, root, hole2, ht, nspan)
  BY ONLY <1>10, <1>11, <1>12, <1>13 DEF Structure
<1> QED BY <1>14 DEF nspan

-----------------------------------------------------------------------------
(* A child unlinked *)

Childless(pg) == pg = Interior(<<>>, <<>>)

\* A parent without the child that was at slot s.
ChildGone(C, P, old, new, s) ==
  /\ new.kind = "interior"
  /\ Node(C, P, new) \/ Childless(new)
  /\ Len(new.kids) = Len(old.kids) - 1 /\ IsRemoval(old.kids, s, new.kids)
  /\ \A i \in 1 .. Len(new.cells) : \E j \in 1 .. Len(old.cells) : old.cells[j].key = new.cells[i].key
  /\ \A z \in Nat, i \in 1 .. Len(old.kids) : Routes(old.cells, i, z) =>
        (i < s => Routes(new.cells, i, z)) /\ (i > s => Routes(new.cells, i - 1, z))

Unlinks(C, V, W, par, s, p) ==
  /\ DOMAIN W = DOMAIN V /\ par \in DOMAIN V /\ p \in DOMAIN V /\ s \in Nat
  /\ Edge(V, par, s, p)
  /\ \A i \in Nat, y \in DOMAIN V : ~Edge(V, p, i, y)
  /\ ~TreePage(W, p)
  /\ Node(C, DOMAIN V, V[par]) /\ ChildGone(C, DOMAIN V, V[par], W[par], s)
  /\ \A y \in DOMAIN V \ {p, par} : W[y] = V[y]

\* Taking a child without rows from its parent keeps the structure.
LEMMA UnlinkKeeps ==
  ASSUME NEW C, CellSet(C), NEW V, NEW W, NEW root, NEW ht, NEW span, NEW par, NEW s, NEW p,
         Structure(C, V, root, p, ht, span), Unlinks(C, V, W, par, s, p),
         NEW hole, Childless(W[par]) => hole = par
  PROVE  Structure(C, W, root, hole, ht, span)
<1> DEFINE P == DOMAIN V
<1>1. /\ DOMAIN W = P /\ par \in P /\ p \in P /\ s \in Nat /\ Edge(V, par, s, p)
      /\ \A i \in Nat, y \in P : ~Edge(V, p, i, y)
      /\ ~TreePage(W, p) /\ Node(C, P, V[par])
      /\ \A y \in P \ {p, par} : W[y] = V[y]
  BY DEF Unlinks
<1>2. /\ WellFormed(C, V, p)
      /\ ht \in [P -> Nat] /\ root \in P /\ TreePage(V, root)
      /\ \A y \in P : ht[y] <= ht[root]
      /\ \A y \in P : V[y].kind = "leaf" => ht[y] = 0
      /\ \A y \in P : V[y].kind = "interior" => ht[y] > 0
      /\ \A u, y \in P, i \in Nat : Edge(V, u, i, y) => TreePage(V, y) /\ ht[y] + 1 = ht[u]
  BY DEF Structure, Heights
<1>3. /\ \A u, y, c \in P, i, j \in Nat : Edge(V, u, i, c) /\ Edge(V, y, j, c) => u = y /\ i = j
      /\ \A u \in P, i \in Nat : ~Edge(V, u, i, root)
      /\ \A c \in P : TreePage(V, c) /\ c # root => \E u \in P, i \in Nat : Edge(V, u, i, c)
  BY DEF Structure, Parents
<1>4. /\ span \in [P -> SUBSET Nat]
      /\ \A y \in P : TreePage(V, y) => \A i \in 1 .. Len(V[y].cells) : V[y].cells[i].key \in span[y]
      /\ \A u, y \in P, i \in Nat : Edge(V, u, i, y) => \A z \in span[y] : z \in span[u] /\ Routes(V[u].cells, i, z)
  BY DEF Structure, Spans
<1>5. /\ W[par].kind = "interior" /\ (Node(C, P, W[par]) \/ Childless(W[par]))
      /\ Len(W[par].kids) = Len(V[par].kids) - 1 /\ IsRemoval(V[par].kids, s, W[par].kids)
      /\ \A i \in 1 .. Len(W[par].cells) : \E j \in 1 .. Len(V[par].cells) : V[par].cells[j].key = W[par].cells[i].key
      /\ \A z \in Nat, i \in 1 .. Len(V[par].kids) : Routes(V[par].cells, i, z) =>
            (i < s => Routes(W[par].cells, i, z)) /\ (i > s => Routes(W[par].cells, i - 1, z))
  BY DEF Unlinks, ChildGone
<1>6. V[par].kind = "interior" /\ s \in 1 .. Len(V[par].kids) /\ Len(V[par].kids) \in Nat
      /\ TreePage(V, par) /\ TreePage(W, par) /\ p # par /\ p # root
  <2>1. V[par].kind = "interior" /\ s \in 1 .. Len(V[par].kids)
    BY ONLY <1>1 DEF Edge
  <2>2. Len(V[par].kids) \in Nat
    BY ONLY <1>1 DEF Node
  <2>3. TreePage(V, par) /\ TreePage(W, par)
    BY ONLY <2>1, <1>5 DEF TreePage
  <2>4. p # par
    BY ONLY <1>1
  <2>5. p # root
    BY ONLY <1>1, <1>3
  <2> QED BY ONLY <2>1, <2>2, <2>3, <2>4, <2>5
<1>7. /\ \A y \in P \ {p} : W[y].kind = V[y].kind /\ (TreePage(W, y) <=> TreePage(V, y))
  BY ONLY <1>1, <1>5, <1>6 DEF TreePage
<1> HIDE DEF P
<1>8. ASSUME NEW u \in P, NEW y \in P, NEW i \in Nat
      PROVE  Edge(W, u, i, y) <=> \/ u \notin {p, par} /\ Edge(V, u, i, y)
                                  \/ u = par /\ i < s /\ Edge(V, par, i, y)
                                  \/ u = par /\ i >= s /\ Edge(V, par, i + 1, y)
  <2>1. CASE u = p
    BY ONLY <2>1, <1>1, <1>6 DEF Edge, TreePage
  <2>2. CASE u \notin {p, par}
    <3>1. W[u] = V[u]
      BY ONLY <2>2, <1>1, u \in P
    <3> QED BY ONLY <2>2, <3>1 DEF Edge
  <2>3. CASE u = par
    <3>1. Edge(W, par, i, y) <=> i \in 1 .. Len(V[par].kids) - 1 /\ W[par].kids[i] = y
      BY ONLY <1>5 DEF Edge
    <3>2. \A j \in Nat : Edge(V, par, j, y) <=> j \in 1 .. Len(V[par].kids) /\ V[par].kids[j] = y
      BY ONLY <1>6 DEF Edge
    <3>3. CASE i < s
      <4>1. i \in 1 .. Len(V[par].kids) - 1 <=> i \in 1 .. Len(V[par].kids)
        BY ONLY <3>3, <1>6, i \in Nat
      <4>2. i \in 1 .. Len(V[par].kids) => W[par].kids[i] = V[par].kids[i]
        <5>1. i \in 1 .. Len(V[par].kids) => i \in 1 .. s - 1
          BY ONLY <3>3, <1>6, i \in Nat
        <5> QED BY ONLY <5>1, <1>5 DEF IsRemoval
      <4>3. ~(i >= s)
        BY ONLY <3>3, <1>1, i \in Nat
      <4> QED BY ONLY <2>3, <3>1, <3>2, <3>3, <4>1, <4>2, <4>3, <1>6, i \in Nat
    <3>4. CASE i >= s
      <4>1. i + 1 \in Nat /\ (i \in 1 .. Len(V[par].kids) - 1 <=> i + 1 \in 1 .. Len(V[par].kids)) /\ ~(i < s)
        BY ONLY <3>4, <1>1, <1>6, i \in Nat
      <4>2. i \in 1 .. Len(V[par].kids) - 1 => W[par].kids[i] = V[par].kids[i + 1]
        <5>1. i \in 1 .. Len(V[par].kids) - 1 => i \in s .. Len(V[par].kids) - 1
          BY ONLY <3>4, <1>6, i \in Nat
        <5> QED BY ONLY <5>1, <1>5 DEF IsRemoval
      <4> QED BY ONLY <2>3, <3>1, <3>2, <3>4, <4>1, <4>2, <1>6
    <3> QED BY ONLY <3>3, <3>4, <1>1, i \in Nat
  <2> QED BY <2>1, <2>2, <2>3
<1>9. \A u \in P, i \in Nat : Edge(V, u, i, p) => u = par /\ i = s
  BY ONLY <1>1, <1>3
<1>10. ASSUME NEW u \in P, NEW c \in P, NEW i \in Nat, Edge(W, u, i, c)
       PROVE  u # p /\ c # p /\ \E j \in Nat : Edge(V, u, j, c) /\ i = (IF u = par /\ j > s THEN j - 1 ELSE j)
  <2>1. i + 1 \in Nat /\ (i >= s => i + 1 > s /\ (i + 1) - 1 = i) /\ (i < s => ~(i > s) /\ i # s) /\ (i >= s => i + 1 # s)
    BY ONLY <1>1, i \in Nat
  <2>2. \/ u \notin {p, par} /\ Edge(V, u, i, c)
        \/ u = par /\ i < s /\ Edge(V, par, i, c)
        \/ u = par /\ i >= s /\ Edge(V, par, i + 1, c)
    BY ONLY <1>8, <1>10, u \in P, c \in P, i \in Nat
  <2>3. u # p
    BY ONLY <2>2, <1>6
  <2>4. c # p
    BY ONLY <2>1, <2>2, <1>9, <1>6, <1>1, u \in P, i \in Nat
  <2>5. \E j \in Nat : Edge(V, u, j, c) /\ i = (IF u = par /\ j > s THEN j - 1 ELSE j)
    <3>1. CASE u = par /\ i >= s /\ Edge(V, par, i + 1, c)
      BY ONLY <2>1, <3>1
    <3>2. CASE \/ u \notin {p, par} /\ Edge(V, u, i, c)
               \/ u = par /\ i < s /\ Edge(V, par, i, c)
      BY ONLY <2>1, <3>2, i \in Nat
    <3> QED BY ONLY <2>2, <3>1, <3>2
  <2> QED BY ONLY <2>3, <2>4, <2>5
<1>11. ASSUME NEW u \in P, NEW c \in P, NEW i \in Nat, Edge(V, u, i, c), c # p
       PROVE  \E j \in Nat : Edge(W, u, j, c)
  <2>0. u # p /\ (u = par => i # s)
    <3>1. V[par].kids[s] = p
      BY <1>1 DEF Edge
    <3>2. u # p
      BY ONLY <1>1, <1>11, c \in P, i \in Nat
    <3>3. u = par /\ i = s => c = p
      BY <1>11, <3>1 DEF Edge
    <3> QED BY ONLY <3>2, <3>3, <1>11
  <2>1. CASE u # par
    BY ONLY <2>0, <2>1, <1>8, <1>11, u \in P, c \in P, i \in Nat
  <2>2. CASE u = par /\ i < s
    BY ONLY <2>2, <1>8, <1>11, u \in P, c \in P, i \in Nat
  <2>3. CASE u = par /\ i > s
    <3>1. i - 1 \in Nat /\ i - 1 >= s /\ (i - 1) + 1 = i
      BY ONLY <2>3, <1>1, i \in Nat
    <3> QED BY ONLY <2>3, <3>1, <1>8, <1>11, u \in P, c \in P
  <2> QED BY ONLY <2>0, <2>1, <2>2, <2>3, <1>1, i \in Nat
<1>12. WellFormed(C, W, hole)
  <2> SUFFICES ASSUME NEW y \in P, TreePage(W, y)
      PROVE Node(C, P, W[y]) \/ (y = hole /\ W[y] = Interior(<<>>, <<>>))
    BY <1>1 DEF WellFormed
  <2>1. y # p
    BY ONLY <1>1, TreePage(W, y)
  <2>2. CASE y = par
    BY <2>2, <1>5 DEF Childless
  <2>3. CASE y # par
    <3>1. W[y] = V[y] /\ TreePage(V, y)
      BY ONLY <2>1, <2>3, <1>1, <1>7, TreePage(W, y), y \in P
    <3> QED BY <3>1, <2>1, <1>2 DEF WellFormed, P
  <2> QED BY <2>2, <2>3
<1>13. Heights(W, root, ht)
  <2>1. TreePage(W, root)
    BY ONLY <1>2, <1>6, <1>7
  <2>2. \A y \in P : (W[y].kind = "leaf" => ht[y] = 0) /\ (W[y].kind = "interior" => ht[y] > 0)
    BY ONLY <1>1, <1>2, <1>7 DEF TreePage
  <2>3. ASSUME NEW u \in P, NEW y \in P, NEW i \in Nat, Edge(W, u, i, y) PROVE TreePage(W, y) /\ ht[y] + 1 = ht[u]
    <3>1. PICK j \in Nat : Edge(V, u, j, y)
      BY <2>3, <1>10
    <3>2. y # p
      BY <2>3, <1>10
    <3> QED BY ONLY <3>1, <3>2, <1>2, <1>7, u \in P, y \in P
  <2> QED BY ONLY <1>1, <1>2, <2>1, <2>2, <2>3 DEF Heights
<1>14. Parents(W, root)
  <2>1. ASSUME NEW u \in P, NEW y \in P, NEW c \in P, NEW i \in Nat, NEW j \in Nat, Edge(W, u, i, c), Edge(W, y, j, c)
        PROVE  u = y /\ i = j
    <3>1. PICK m \in Nat : Edge(V, u, m, c) /\ i = (IF u = par /\ m > s THEN m - 1 ELSE m)
      BY <2>1, <1>10
    <3>2. PICK n \in Nat : Edge(V, y, n, c) /\ j = (IF y = par /\ n > s THEN n - 1 ELSE n)
      BY <2>1, <1>10
    <3>3. u = y /\ m = n
      BY ONLY <3>1, <3>2, <1>3, u \in P, y \in P, c \in P
    <3> QED BY ONLY <3>1, <3>2, <3>3
  <2>2. ASSUME NEW u \in P, NEW i \in Nat, Edge(W, u, i, root) PROVE FALSE
    <3>1. PICK m \in Nat : Edge(V, u, m, root)
      BY <2>2, <1>2, <1>10
    <3> QED BY ONLY <3>1, <1>3, u \in P
  <2>3. ASSUME NEW c \in P, TreePage(W, c), c # root PROVE \E u \in P, i \in Nat : Edge(W, u, i, c)
    <3>1. c # p /\ TreePage(V, c)
      BY ONLY <2>3, <1>1, <1>7, c \in P
    <3>2. PICK u \in P, i \in Nat : Edge(V, u, i, c)
      BY ONLY <3>1, <2>3, <1>3, c \in P
    <3> QED BY <3>1, <3>2, <1>11
  <2> QED BY ONLY <1>1, <2>1, <2>2, <2>3 DEF Parents
<1>15. Spans(W, span)
  <2>1. ASSUME NEW y \in P, TreePage(W, y), NEW i \in 1 .. Len(W[y].cells) PROVE W[y].cells[i].key \in span[y]
    <3>1. y # p /\ TreePage(V, y)
      BY ONLY <2>1, <1>1, <1>7, y \in P
    <3>2. CASE y = par
      BY ONLY <3>1, <3>2, <1>4, <1>5, y \in P, i \in 1 .. Len(W[y].cells)
    <3>3. CASE y # par
      <4>1. W[y] = V[y]
        BY ONLY <3>1, <3>3, <1>1, y \in P
      <4> QED BY ONLY <3>1, <4>1, <1>4, y \in P, i \in 1 .. Len(W[y].cells)
    <3> QED BY <3>2, <3>3
  <2>2. ASSUME NEW u \in P, NEW y \in P, NEW i \in Nat, Edge(W, u, i, y), NEW z \in span[y]
        PROVE  z \in span[u] /\ Routes(W[u].cells, i, z)
    <3>0. z \in Nat
      BY ONLY <1>4, y \in P, z \in span[y]
    <3>1. \/ u \notin {p, par} /\ Edge(V, u, i, y)
          \/ u = par /\ i < s /\ Edge(V, par, i, y)
          \/ u = par /\ i >= s /\ Edge(V, par, i + 1, y)
      BY ONLY <1>8, <2>2, u \in P, y \in P, i \in Nat
    <3>2. CASE u \notin {p, par} /\ Edge(V, u, i, y)
      <4>1. W[u] = V[u]
        BY ONLY <3>2, <1>1, u \in P
      <4> QED BY ONLY <3>2, <4>1, <1>4, u \in P, y \in P, i \in Nat, z \in span[y]
    <3>3. CASE u = par /\ i < s /\ Edge(V, par, i, y)
      <4>1. z \in span[par] /\ Routes(V[par].cells, i, z)
        BY ONLY <3>3, <1>1, <1>4, y \in P, i \in Nat, z \in span[y]
      <4>2. i \in 1 .. Len(V[par].kids)
        BY <3>3 DEF Edge
      <4> QED BY ONLY <3>0, <3>3, <4>1, <4>2, <1>5
    <3>4. CASE u = par /\ i >= s /\ Edge(V, par, i + 1, y)
      <4>0. i + 1 \in Nat /\ i + 1 > s /\ (i + 1) - 1 = i
        BY ONLY <3>4, <1>1, i \in Nat
      <4>1. z \in span[par] /\ Routes(V[par].cells, i + 1, z)
        BY ONLY <3>4, <4>0, <1>1, <1>4, y \in P, z \in span[y]
      <4>2. i + 1 \in 1 .. Len(V[par].kids)
        BY <3>4 DEF Edge
      <4>3. Routes(W[par].cells, (i + 1) - 1, z)
        BY ONLY <3>0, <4>0, <4>1, <4>2, <1>5
      <4> QED BY ONLY <3>4, <4>0, <4>1, <4>3
    <3> QED BY ONLY <3>1, <3>2, <3>3, <3>4
  <2> QED BY ONLY <1>1, <1>4, <2>1, <2>2 DEF Spans
<1> QED BY ONLY <1>12, <1>13, <1>14, <1>15 DEF Structure

-----------------------------------------------------------------------------
(* The way down *)

\* A loop has one way to go.
LEMMA WalkOnce ==
  ASSUME NEW next, NEW p, NEW a, NEW b, IsWalk(next, p, a), IsWalk(next, p, b)
  PROVE  a = b
<1>1. /\ a \in Seq(DOMAIN next) /\ Len(a) >= 1 /\ Len(a) \in Nat /\ a[1] = p
      /\ \A i \in 1 .. Len(a) - 1 : a[i + 1] = next[a[i]]
      /\ next[a[Len(a)]] \notin DOMAIN next
  BY DEF IsWalk
<1>2. /\ b \in Seq(DOMAIN next) /\ Len(b) >= 1 /\ Len(b) \in Nat /\ b[1] = p
      /\ \A i \in 1 .. Len(b) - 1 : b[i + 1] = next[b[i]]
      /\ next[b[Len(b)]] \notin DOMAIN next
  BY DEF IsWalk
<1> DEFINE T == {n \in Nat : n + 1 <= Len(a) /\ n + 1 <= Len(b) => a[n + 1] = b[n + 1]}
<1>3. \A n \in Nat : n \in T
  <2>1. 0 \in T
    BY <1>1, <1>2
  <2>2. ASSUME NEW n \in Nat, n \in T PROVE n + 1 \in T
    <3> SUFFICES ASSUME (n + 1) + 1 <= Len(a), (n + 1) + 1 <= Len(b) PROVE a[(n + 1) + 1] = b[(n + 1) + 1]
      OBVIOUS
    <3>1. n + 1 \in 1 .. Len(a) - 1 /\ n + 1 \in 1 .. Len(b) - 1 /\ n + 1 <= Len(a) /\ n + 1 <= Len(b)
      BY <1>1, <1>2
    <3>2. a[n + 1] = b[n + 1]
      BY <2>2, <3>1
    <3> QED BY ONLY <3>1, <3>2, <1>1, <1>2
  <2> HIDE DEF T
  <2>3. T \in SUBSET Nat
    BY DEF T
  <2> QED BY ONLY <2>1, <2>2, <2>3, SetInduction
<1>4. \A i \in Nat : i \in 1 .. Len(a) /\ i \in 1 .. Len(b) => a[i] = b[i]
  <2> TAKE i \in Nat
  <2> HAVE i \in 1 .. Len(a) /\ i \in 1 .. Len(b)
  <2>1. i - 1 \in Nat /\ (i - 1) + 1 = i
    OBVIOUS
  <2>2. i - 1 \in T
    BY ONLY <2>1, <1>3
  <2> QED BY <2>1, <2>2, <1>1, <1>2
<1> HIDE DEF T
<1>5. ~(Len(a) < Len(b))
  <2> SUFFICES ASSUME Len(a) < Len(b) PROVE FALSE
    OBVIOUS
  <2>1. Len(a) \in 1 .. Len(a) /\ Len(a) \in 1 .. Len(b) - 1 /\ Len(a) \in 1 .. Len(b) /\ Len(a) + 1 \in 1 .. Len(b)
    BY <1>1, <1>2
  <2>2. b[Len(a) + 1] = next[a[Len(a)]]
    BY ONLY <1>1, <1>2, <1>4, <2>1
  <2>3. b[Len(a) + 1] \in DOMAIN next
    BY <1>2, <2>1
  <2> QED BY ONLY <1>1, <2>2, <2>3
<1>6. ~(Len(b) < Len(a))
  <2> SUFFICES ASSUME Len(b) < Len(a) PROVE FALSE
    OBVIOUS
  <2>1. Len(b) \in 1 .. Len(b) /\ Len(b) \in 1 .. Len(a) - 1 /\ Len(b) \in 1 .. Len(a) /\ Len(b) + 1 \in 1 .. Len(a)
    BY <1>1, <1>2
  <2>2. a[Len(b) + 1] = next[b[Len(b)]]
    BY ONLY <1>1, <1>2, <1>4, <2>1
  <2>3. a[Len(b) + 1] \in DOMAIN next
    BY <1>1, <2>1
  <2> QED BY ONLY <1>2, <2>2, <2>3
<1>7. Len(a) = Len(b)
  BY ONLY <1>1, <1>2, <1>5, <1>6
<1> QED BY <1>1, <1>2, <1>4, <1>7

\* The pages of a way down, each with the slot taken there.
Leads(C, V, root, x, path) ==
  /\ path \in Seq((DOMAIN V) \X Nat) /\ Len(path) >= 1 /\ path[1][1] = root
  /\ \A i \in 1 .. Len(path) :
        /\ path[i][2] \in 1 .. Len(V[path[i][1]].cells) + 1
        /\ Routes(V[path[i][1]].cells, path[i][2], x)
        /\ TreePage(V, path[i][1])
  /\ \A i \in 1 .. Len(path) - 1 : Edge(V, path[i][1], path[i][2], path[i + 1][1])
  /\ V[path[Len(path)][1]].kind = "leaf"

\* The descent of _find_leaf() ends at a leaf, and at each page it takes the
\* slot where the key belongs.
LEMMA DescentLeads ==
  ASSUME NEW C, CellSet(C), NEW V, NEW root, NEW hole, hole \notin DOMAIN V, NEW ht, NEW span,
         Structure(C, V, root, hole, ht, span), 0 \notin DOMAIN V, NEW x \in Nat
  PROVE  Leads(C, V, root, x, Descent(V, root, [p \in DOMAIN V |-> LowerBound(V[p].cells, x)]))
<1> DEFINE P == DOMAIN V
           slots == [p \in P |-> LowerBound(V[p].cells, x)]
           child == [p \in P |-> IF V[p].kind = "interior" THEN V[p].kids[slots[p]] ELSE 0]
           w == Follow(child, root)
           path == [n \in 1 .. Len(w) |-> <<w[n], slots[w[n]]>>]
<1>1. Descent(V, root, slots) = path
  BY DEF Descent
<1>2. /\ ht \in [P -> Nat] /\ root \in P /\ TreePage(V, root)
      /\ \A y \in P : ht[y] <= ht[root]
      /\ \A u, y \in P, i \in Nat : Edge(V, u, i, y) => TreePage(V, y) /\ ht[y] + 1 = ht[u]
  BY DEF Structure, Heights
<1>3. \A p \in P : TreePage(V, p) => Node(C, P, V[p])
  BY NodeOf DEF Structure
<1>4. DOMAIN child = P /\ \A p \in P : child[p] = IF V[p].kind = "interior" THEN V[p].kids[slots[p]] ELSE 0
  OBVIOUS
<1>5. \A p \in P : slots[p] = LowerBound(V[p].cells, x)
  OBVIOUS
<1>c. 0 \notin P
  OBVIOUS
<1> HIDE DEF P, slots, child, w
<1>6. \A p \in P : TreePage(V, p) =>
         slots[p] \in 1 .. Len(V[p].cells) + 1 /\ slots[p] \in Nat /\ Routes(V[p].cells, slots[p], x)
  <2> SUFFICES ASSUME NEW p \in P, TreePage(V, p)
      PROVE slots[p] \in 1 .. Len(V[p].cells) + 1 /\ slots[p] \in Nat /\ Routes(V[p].cells, slots[p], x)
    OBVIOUS
  <2>1. V[p].cells \in Seq(C) /\ Sorted(V[p].cells)
    BY <1>3 DEF Node
  <2>2. slots[p] \in 1 .. Len(V[p].cells) + 1 /\ Routes(V[p].cells, slots[p], x)
    BY <1>5, <2>1, LowerBoundRoutes
  <2> QED BY <2>1, <2>2
<1>7. \A p \in P : V[p].kind = "interior" => child[p] \in P /\ Edge(V, p, slots[p], child[p])
  <2> SUFFICES ASSUME NEW p \in P, V[p].kind = "interior" PROVE child[p] \in P /\ Edge(V, p, slots[p], child[p])
    OBVIOUS
  <2>0. TreePage(V, p)
    BY DEF TreePage
  <2>1. V[p].kids \in Seq(P) /\ Len(V[p].kids) = Len(V[p].cells) + 1
    BY <2>0, <1>3 DEF Node
  <2>2. slots[p] \in 1 .. Len(V[p].kids)
    BY <2>0, <2>1, <1>6
  <2>3. child[p] = V[p].kids[slots[p]]
    BY <1>4
  <2> QED BY <2>1, <2>2, <2>3 DEF Edge
<1>8. Descends(child, ht, ht[root] + 1)
  <2>1. \A q \in P : ht[q] < ht[root] + 1
    BY <1>2
  <2>2. ASSUME NEW q \in P, child[q] \in P PROVE ht[child[q]] < ht[q]
    <3>1. V[q].kind = "interior"
      BY <2>2, <1>4, <1>c
    <3>2. Edge(V, q, slots[q], child[q]) /\ slots[q] \in Nat
      BY <3>1, <1>7, <1>6 DEF TreePage
    <3>3. ht[child[q]] + 1 = ht[q]
      BY ONLY <3>2, <1>2, <2>2, q \in P
    <3>4. ht[child[q]] \in Nat
      BY <1>2, <2>2
    <3> QED BY <3>3, <3>4
  <2>3. ht[root] + 1 \in Nat
    BY <1>2
  <2> QED BY ONLY <1>2, <1>4, <2>1, <2>2, <2>3 DEF Descends
<1>9. IsWalk(child, root, w)
  BY <1>2, <1>4, <1>8, FollowWalks DEF w
<1>10. /\ w \in Seq(P) /\ Len(w) >= 1 /\ w[1] = root /\ Len(w) \in Nat
       /\ \A i \in 1 .. Len(w) - 1 : w[i + 1] = child[w[i]]
       /\ child[w[Len(w)]] \notin P
  BY ONLY <1>4, <1>9 DEF IsWalk
<1>11. \A i \in 1 .. Len(w) : w[i] \in P
  BY <1>10
<1>12. \A i \in 1 .. Len(w) - 1 : V[w[i]].kind = "interior" /\ Edge(V, w[i], slots[w[i]], w[i + 1]) /\ i \in 1 .. Len(w) /\ i + 1 \in 1 .. Len(w)
  <2> TAKE i \in 1 .. Len(w) - 1
  <2>0. i \in 1 .. Len(w) /\ i + 1 \in 1 .. Len(w)
    BY <1>10
  <2>1. w[i] \in P /\ w[i + 1] \in P /\ w[i + 1] = child[w[i]]
    BY <2>0, <1>10, <1>11
  <2>2. V[w[i]].kind = "interior"
    BY <2>1, <1>4, <1>c
  <2> QED BY <2>0, <2>1, <2>2, <1>7
<1>13. \A i \in 1 .. Len(w) : TreePage(V, w[i])
  <2> TAKE i \in 1 .. Len(w)
  <2>1. CASE i = 1
    BY <2>1, <1>2, <1>10
  <2>2. CASE i # 1
    <3>1. i - 1 \in 1 .. Len(w) - 1 /\ (i - 1) + 1 = i
      BY <2>2, <1>10
    <3>2. Edge(V, w[i - 1], slots[w[i - 1]], w[i]) /\ w[i - 1] \in P /\ w[i] \in P /\ V[w[i - 1]].kind = "interior"
      BY <3>1, <1>11, <1>12
    <3>3. slots[w[i - 1]] \in Nat
      BY <3>2, <1>6 DEF TreePage
    <3> QED BY ONLY <3>2, <3>3, <1>2
  <2> QED BY <2>1, <2>2
<1>14. V[w[Len(w)]].kind = "leaf"
  <2>1. Len(w) \in 1 .. Len(w)
    BY <1>10
  <2>2. w[Len(w)] \in P /\ TreePage(V, w[Len(w)])
    BY <2>1, <1>11, <1>13
  <2>3. V[w[Len(w)]].kind # "interior"
    BY ONLY <2>2, <1>7, <1>10
  <2> QED BY <2>2, <2>3 DEF TreePage
<1>15. /\ path \in Seq((DOMAIN V) \X Nat) /\ Len(path) = Len(w)
       /\ \A i \in 1 .. Len(w) : path[i][1] = w[i] /\ path[i][2] = slots[w[i]]
  <2>1. \A i \in 1 .. Len(w) : <<w[i], slots[w[i]]>> \in (DOMAIN V) \X Nat
    BY <1>6, <1>11, <1>13 DEF P
  <2> QED BY <2>1, <1>10
<1> HIDE DEF path
<1>16. path[1][1] = root /\ Len(path) >= 1
  BY <1>10, <1>15
<1>17. \A i \in 1 .. Len(path) :
          /\ path[i][2] \in 1 .. Len(V[path[i][1]].cells) + 1
          /\ Routes(V[path[i][1]].cells, path[i][2], x)
          /\ TreePage(V, path[i][1])
  BY <1>6, <1>11, <1>13, <1>15
<1>18. \A i \in 1 .. Len(path) - 1 : Edge(V, path[i][1], path[i][2], path[i + 1][1])
  BY <1>12, <1>15
<1>19. V[path[Len(path)][1]].kind = "leaf"
  <2>1. Len(w) \in 1 .. Len(w)
    BY <1>10
  <2> QED BY <2>1, <1>14, <1>15
<1>20. Leads(C, V, root, x, path)
  <2> QED BY ONLY <1>15, <1>16, <1>17, <1>18, <1>19, Zenon DEF Leads
<1> QED BY <1>1, <1>20 DEF slots, P

-----------------------------------------------------------------------------
(* Pages in the order of their numbers *)

\* Sets of pages are finite.
LEMMA PagesFinite ==
  ASSUME NEW M \in Nat, NEW S \in SUBSET (1 .. M)
  PROVE  IsFiniteSet(S) /\ Cardinality(S) \in Nat /\ S \in SUBSET Nat
<1>1. IsFiniteSet(1 .. M)
  <2>1. 1 \in Int /\ M \in Int
    OBVIOUS
  <2> QED BY ONLY <2>1, FS_Interval
<1>2. IsFiniteSet(S)
  BY ONLY <1>1, S \in SUBSET (1 .. M), FS_Subset
<1>3. S \in SUBSET Nat
  OBVIOUS
<1> QED BY ONLY <1>2, <1>3, FS_CardinalityType

Below(S, p) == {q \in S : q < p}
UpTo(S, p) == {q \in S : q <= p}

\* A page is in the place after those below it.
LEMMA PlaceFacts ==
  ASSUME NEW M \in Nat, NEW S \in SUBSET (1 .. M), NEW p \in S
  PROVE  /\ IsFiniteSet(S) /\ Cardinality(S) \in Nat
         /\ Cardinality(Below(S, p)) \in Nat /\ Cardinality(UpTo(S, p)) \in Nat
         /\ Cardinality(UpTo(S, p)) = Cardinality(Below(S, p)) + 1
         /\ Cardinality(UpTo(S, p)) <= Cardinality(S)
<1>1. IsFiniteSet(S) /\ S \in SUBSET Nat
  BY PagesFinite
<1>2. Below(S, p) \in SUBSET S /\ UpTo(S, p) \in SUBSET S
  BY DEF Below, UpTo
<1>3. IsFiniteSet(Below(S, p)) /\ IsFiniteSet(UpTo(S, p)) /\ Cardinality(UpTo(S, p)) <= Cardinality(S)
  BY ONLY <1>1, <1>2, FS_Subset
<1>4. UpTo(S, p) = Below(S, p) \cup {p} /\ p \notin Below(S, p)
  <2>1. p \in Nat /\ \A q \in S : q \in Nat
    BY <1>1
  <2>2. \A q \in S : q <= p <=> q < p \/ q = p
    BY ONLY <2>1
  <2>3. ~(p < p)
    BY ONLY <2>1
  <2> QED BY ONLY <2>2, <2>3, p \in S DEF Below, UpTo
<1>5. Cardinality(UpTo(S, p)) = Cardinality(Below(S, p)) + 1
  BY ONLY <1>3, <1>4, FS_AddElement
<1> QED BY ONLY <1>1, <1>3, <1>5, FS_CardinalityType

\* Two pages are not in the same place.
LEMMA PlaceOrder ==
  ASSUME NEW M \in Nat, NEW S \in SUBSET (1 .. M), NEW p \in S, NEW q \in S, p < q
  PROVE  Cardinality(UpTo(S, p)) < Cardinality(UpTo(S, q))
<1>1. UpTo(S, p) \in SUBSET Below(S, q)
  <2>1. p \in Nat /\ q \in Nat /\ \A r \in S : r \in Nat
    BY PagesFinite
  <2>2. \A r \in S : r <= p => r < q
    BY ONLY <2>1, p < q
  <2> QED BY ONLY <2>2 DEF UpTo, Below
<1>2. IsFiniteSet(Below(S, q))
  <2>1. IsFiniteSet(S) /\ Below(S, q) \in SUBSET S
    BY PlaceFacts DEF Below
  <2> QED BY ONLY <2>1, FS_Subset
<1>3. Cardinality(UpTo(S, p)) <= Cardinality(Below(S, q))
  BY ONLY <1>1, <1>2, FS_Subset
<1>4. Cardinality(UpTo(S, q)) = Cardinality(Below(S, q)) + 1 /\ Cardinality(Below(S, q)) \in Nat
  BY PlaceFacts
<1>5. Cardinality(UpTo(S, p)) \in Nat
  BY PlaceFacts
<1> QED BY ONLY <1>3, <1>4, <1>5

\* Two pages do not have the same place among the free ones.
LEMMA PlaceOnce ==
  ASSUME NEW M \in Nat, NEW S \in SUBSET (1 .. M), NEW p \in S, NEW q \in S,
         Cardinality(UpTo(S, p)) = Cardinality(UpTo(S, q))
  PROVE  p = q
<1>1. p \in Nat /\ q \in Nat
  OBVIOUS
<1>2. Cardinality(UpTo(S, p)) \in Nat /\ Cardinality(UpTo(S, q)) \in Nat
  BY PlaceFacts
<1>c. Cardinality(UpTo(S, p)) = Cardinality(UpTo(S, q))
  OBVIOUS
<1>3. p < q => Cardinality(UpTo(S, p)) < Cardinality(UpTo(S, q))
  BY PlaceOrder
<1>4. q < p => Cardinality(UpTo(S, q)) < Cardinality(UpTo(S, p))
  BY PlaceOrder
<1>5. ~(p < q) /\ ~(q < p)
  BY ONLY <1>c, <1>2, <1>3, <1>4
<1> QED BY ONLY <1>1, <1>5

\* Every place is taken.
LEMMA PlaceTaken ==
  ASSUME NEW M \in Nat, NEW S \in SUBSET (1 .. M), NEW n \in Nat, n < Cardinality(S)
  PROVE  \E p \in S : Cardinality(Below(S, p)) = n
<1>1. IsFiniteSet(S) /\ S \in SUBSET Nat
  BY PagesFinite
<1>2. Cardinality(S) \in Nat
  BY ONLY <1>1, FS_CardinalityType
<1> DEFINE Q(m) == \E p \in S : Cardinality(Below(S, p)) = m
           T == {m \in Nat : m < Cardinality(S) => Q(m)}
<1>3. 0 \in T
  <2> SUFFICES ASSUME 0 < Cardinality(S) PROVE Q(0)
    OBVIOUS
  <2>1. S # {}
    BY ONLY <1>2, 0 < Cardinality(S), FS_EmptySet
  <2>2. PICK p \in S : \A q \in S : p <= q
    BY ONLY <1>1, <2>1, LeastNatural
  <2>3. Below(S, p) = {}
    <3>1. \A q \in S : q \in Nat /\ p \in Nat
      BY <1>1
    <3>2. \A q \in S : ~(q < p)
      BY ONLY <2>2, <3>1
    <3> QED BY ONLY <3>2 DEF Below
  <2> QED BY <2>3, FS_EmptySet
<1>4. ASSUME NEW m \in Nat, m \in T PROVE m + 1 \in T
  <2> SUFFICES ASSUME m + 1 < Cardinality(S) PROVE Q(m + 1)
    OBVIOUS
  <2>1. m < Cardinality(S)
    BY <1>2
  <2>2. PICK p \in S : Cardinality(Below(S, p)) = m
    BY <2>1, <1>4
  <2>3. Cardinality(UpTo(S, p)) = m + 1
    BY <2>2, PlaceFacts
  <2> DEFINE R == S \ UpTo(S, p)
  <2>4. R # {}
    <3> SUFFICES ASSUME R = {} PROVE FALSE
      OBVIOUS
    <3>1. UpTo(S, p) = S
      BY DEF UpTo
    <3> QED BY ONLY <3>1, <2>3, <1>2, m + 1 < Cardinality(S)
  <2>5. R \in SUBSET Nat
    BY <1>1
  <2> HIDE DEF R
  <2>6. PICK q \in R : \A r \in R : q <= r
    BY ONLY <2>4, <2>5, LeastNatural
  <2>7. q \in S /\ \A r \in S : r < q <=> r <= p
    <3>1. q \in S /\ ~(q <= p) /\ \A r \in S : ~(r <= p) => q <= r
      BY <2>6 DEF R, UpTo
    <3> QED BY ONLY <3>1, <1>1, p \in S
  <2>8. Below(S, q) = UpTo(S, p)
    BY ONLY <2>7 DEF Below, UpTo
  <2> QED BY <2>3, <2>7, <2>8
<1> HIDE DEF Q
<1>5. T \in SUBSET Nat
  OBVIOUS
<1>6. n \in T
  <2> HIDE DEF T
  <2> QED BY ONLY <1>3, <1>4, <1>5, SetInduction, n \in Nat
<1>7. Q(n)
  BY <1>6
<1> QED BY <1>7 DEF Q

\* allocate_page() finds the n-th free page.
LEMMA NthSmallestFacts ==
  ASSUME NEW M \in Nat, NEW S \in SUBSET (1 .. M), NEW n \in Nat, 1 <= n, n <= Cardinality(S)
  PROVE  NthSmallest(S, n) \in S /\ Cardinality(UpTo(S, NthSmallest(S, n))) = n
<1>1. IsFiniteSet(S)
  BY PagesFinite
<1>2. Cardinality(S) \in Nat
  BY ONLY <1>1, FS_CardinalityType
<1>3. n - 1 \in Nat /\ n - 1 < Cardinality(S) /\ (n - 1) + 1 = n
  BY <1>2
<1>4. \E p \in S : Cardinality(Below(S, p)) = n - 1
  BY <1>3, PlaceTaken
<1>5. NthSmallest(S, n) \in S /\ Cardinality(Below(S, NthSmallest(S, n))) = n - 1
  BY <1>4 DEF NthSmallest, Below
<1> QED BY <1>3, <1>5, PlaceFacts

\* What is left once the first n are taken.
LEMMA PagesLeft ==
  ASSUME NEW M \in Nat, NEW S \in SUBSET (1 .. M), NEW n \in Nat, n <= Cardinality(S)
  PROVE  Cardinality({p \in S : Cardinality(UpTo(S, p)) > n}) = Cardinality(S) - n
<1> DEFINE R == {p \in S : Cardinality(UpTo(S, p)) > n}
<1>1. IsFiniteSet(S)
  BY PagesFinite
<1>2. Cardinality(S) \in Nat
  BY ONLY <1>1, FS_CardinalityType
<1>3. CASE n = 0
  <2>1. \A p \in S : Cardinality(UpTo(S, p)) > 0
    <3> TAKE p \in S
    <3>1. Cardinality(UpTo(S, p)) = Cardinality(Below(S, p)) + 1 /\ Cardinality(Below(S, p)) \in Nat
      BY PlaceFacts
    <3> QED BY ONLY <3>1
  <2>2. R = S
    BY <2>1, <1>3
  <2> QED BY <2>2, <1>2, <1>3
<1>4. CASE n # 0
  <2> DEFINE m == NthSmallest(S, n)
  <2>1. m \in S /\ Cardinality(UpTo(S, m)) = n
    BY <1>4, NthSmallestFacts
  <2> HIDE DEF m
  <2>2. \A p \in S : Cardinality(UpTo(S, p)) > n <=> ~(p <= m)
    <3> TAKE p \in S
    <3>0. Cardinality(UpTo(S, p)) \in Nat /\ p \in Nat /\ m \in Nat
      <4>1. Cardinality(UpTo(S, p)) \in Nat
        BY PlaceFacts
      <4>2. S \in SUBSET Nat
        BY PagesFinite
      <4> QED BY ONLY <4>1, <4>2, <2>1, p \in S
    <3>1. CASE p < m
      BY <3>0, <3>1, <2>1, PlaceOrder
    <3>2. CASE p = m
      BY <3>0, <3>2, <2>1
    <3>3. CASE m < p
      <4>1. Cardinality(UpTo(S, m)) < Cardinality(UpTo(S, p))
        BY <3>3, <2>1, PlaceOrder
      <4> QED BY <3>0, <3>3, <4>1, <2>1
    <3> QED BY ONLY <3>0, <3>1, <3>2, <3>3
  <2>3. R = S \ UpTo(S, m) /\ S \cap UpTo(S, m) = UpTo(S, m)
    BY <2>2 DEF UpTo
  <2>4. Cardinality(S \ UpTo(S, m)) = Cardinality(S) - Cardinality(S \cap UpTo(S, m))
    BY ONLY <1>1, FS_Difference
  <2> QED BY <2>1, <2>3, <2>4
<1> QED BY <1>3, <1>4

-----------------------------------------------------------------------------
(* A key is in one place only *)

\* No key belongs to two pages of the same height.
LEMMA SpansApart ==
  ASSUME NEW C, CellSet(C), NEW V, NEW root, NEW hole, NEW ht, NEW span,
         Structure(C, V, root, hole, ht, span), NEW x \in Nat,
         NEW a \in DOMAIN V, NEW b \in DOMAIN V, TreePage(V, a), TreePage(V, b), ht[a] = ht[b],
         x \in span[a], x \in span[b]
  PROVE  a = b
<1> DEFINE P == DOMAIN V
<1>1. /\ ht \in [P -> Nat] /\ root \in P
      /\ \A y \in P : ht[y] <= ht[root]
      /\ \A u, y \in P, i \in Nat : Edge(V, u, i, y) => TreePage(V, y) /\ ht[y] + 1 = ht[u]
  BY DEF Structure, Heights
<1>2. \A c \in P : TreePage(V, c) /\ c # root => \E u \in P, i \in Nat : Edge(V, u, i, c)
  BY DEF Structure, Parents
<1>3. \A u, y \in P, i \in Nat : Edge(V, u, i, y) => \A z \in span[y] : z \in span[u] /\ Routes(V[u].cells, i, z)
  BY DEF Structure, Spans
<1>4. \A u, y \in P, i \in Nat : Edge(V, u, i, y) =>
         TreePage(V, u) /\ V[u].cells \in Seq(C) /\ i \in 1 .. Len(V[u].cells) + 1 /\ V[u].kids[i] = y
  <2> SUFFICES ASSUME NEW u \in P, NEW y \in P, NEW i \in Nat, Edge(V, u, i, y)
      PROVE TreePage(V, u) /\ V[u].cells \in Seq(C) /\ i \in 1 .. Len(V[u].cells) + 1 /\ V[u].kids[i] = y
    OBVIOUS
  <2>1. V[u].kind = "interior" /\ i \in 1 .. Len(V[u].kids) /\ V[u].kids[i] = y
    BY DEF Edge
  <2>2. TreePage(V, u)
    BY <2>1 DEF TreePage
  <2>3. Node(C, P, V[u])
    <3>1. V[u] # Interior(<<>>, <<>>)
      BY <2>1 DEF Interior
    <3> QED BY <2>2, <3>1 DEF Structure, WellFormed
  <2> QED BY <2>1, <2>2, <2>3 DEF Node
<1> HIDE DEF P
<1>5. \A c \in P : TreePage(V, c) /\ ht[c] = ht[root] => c = root
  <2> SUFFICES ASSUME NEW c \in P, TreePage(V, c), ht[c] = ht[root], c # root PROVE FALSE
    OBVIOUS
  <2>1. PICK u \in P, i \in Nat : Edge(V, u, i, c)
    BY <1>2
  <2>2. ht[c] + 1 = ht[u] /\ ht[u] <= ht[root] /\ ht[u] \in Nat /\ ht[c] \in Nat
    BY ONLY <2>1, <1>1, u \in P, c \in P, i \in Nat
  <2> QED BY ONLY <2>2, ht[c] = ht[root]
<1> DEFINE Same(n) == \A c, d \in P : TreePage(V, c) /\ TreePage(V, d) /\ ht[c] = ht[d] /\ ht[c] + n = ht[root]
                                         /\ x \in span[c] /\ x \in span[d] => c = d
           T == {n \in Nat : Same(n)}
<1>6. 0 \in T
  <2>1. Same(0)
    <3> SUFFICES ASSUME NEW c \in P, NEW d \in P, TreePage(V, c), TreePage(V, d), ht[c] = ht[d], ht[c] + 0 = ht[root]
        PROVE c = d
      OBVIOUS
    <3>1. ht[c] = ht[root] /\ ht[d] = ht[root]
      BY <1>1
    <3> QED BY <3>1, <1>5
  <2> QED BY <2>1
<1>7. ASSUME NEW n \in Nat, n \in T PROVE n + 1 \in T
  <2>1. Same(n)
    BY <1>7
  <2>2. ASSUME NEW c \in P, NEW d \in P, TreePage(V, c), TreePage(V, d), ht[c] = ht[d], ht[c] + (n + 1) = ht[root],
               x \in span[c], x \in span[d]
        PROVE  c = d
    <3>0. ht[c] \in Nat /\ ht[root] \in Nat
      BY <1>1
    <3>1. c # root /\ d # root
      <4>1. ht[c] # ht[root]
        BY ONLY <3>0, <2>2, n \in Nat
      <4> QED BY ONLY <4>1, <2>2
    <3>2. PICK u \in P, i \in Nat : Edge(V, u, i, c)
      BY <1>2, <2>2, <3>1
    <3>3. PICK v \in P, j \in Nat : Edge(V, v, j, d)
      BY <1>2, <2>2, <3>1
    <3>4. /\ ht[c] + 1 = ht[u] /\ x \in span[u] /\ Routes(V[u].cells, i, x)
          /\ TreePage(V, u) /\ V[u].cells \in Seq(C) /\ i \in 1 .. Len(V[u].cells) + 1 /\ V[u].kids[i] = c
      BY ONLY <3>2, <2>2, <1>1, <1>3, <1>4, u \in P, c \in P, i \in Nat
    <3>5. /\ ht[d] + 1 = ht[v] /\ x \in span[v] /\ Routes(V[v].cells, j, x)
          /\ TreePage(V, v) /\ V[v].cells \in Seq(C) /\ j \in 1 .. Len(V[v].cells) + 1 /\ V[v].kids[j] = d
      BY ONLY <3>3, <2>2, <1>1, <1>3, <1>4, v \in P, d \in P, j \in Nat
    <3>6. ht[u] = ht[v] /\ ht[u] + n = ht[root]
      <4>1. ht[u] = ht[c] + 1 /\ ht[v] = ht[c] + 1
        BY ONLY <3>4, <3>5, <2>2
      <4>2. (ht[c] + 1) + n = ht[c] + (n + 1)
        BY ONLY <3>0, n \in Nat
      <4> QED BY ONLY <4>1, <4>2, <2>2
    <3>7. u = v
      BY ONLY <3>4, <3>5, <3>6, <2>1, u \in P, v \in P
    <3>8. i = j
      BY <3>4, <3>5, <3>7, RoutesOnce
    <3> QED BY ONLY <3>4, <3>5, <3>7, <3>8
  <2> QED BY <2>2
<1>8. T \in SUBSET Nat
  OBVIOUS
<1>9. \A n \in Nat : n \in T
  <2> HIDE DEF T
  <2> QED BY ONLY <1>6, <1>7, <1>8, SetInduction
<1>10. ht[root] - ht[a] \in Nat /\ ht[a] + (ht[root] - ht[a]) = ht[root] /\ a \in P /\ b \in P
  <2>1. a \in P /\ b \in P
    BY DEF P
  <2>2. ht[a] \in Nat /\ ht[root] \in Nat /\ ht[a] <= ht[root]
    BY <2>1, <1>1
  <2> QED BY ONLY <2>1, <2>2
<1>11. Same(ht[root] - ht[a])
  BY <1>9, <1>10
<1> QED BY <1>10, <1>11

\* A row is in one leaf and in one cell of it.
LEMMA RowOnce ==
  ASSUME NEW C, CellSet(C), NEW V, NEW root, NEW hole, NEW ht, NEW span,
         Structure(C, V, root, hole, ht, span),
         NEW p \in DOMAIN V, NEW q \in DOMAIN V, V[p].kind = "leaf", V[q].kind = "leaf",
         NEW i \in 1 .. Len(V[p].cells), NEW j \in 1 .. Len(V[q].cells),
         V[p].cells[i].key = V[q].cells[j].key
  PROVE  p = q /\ i = j
<1>1. TreePage(V, p) /\ TreePage(V, q)
  BY DEF TreePage
<1>2. ht[p] = ht[q]
  BY DEF Structure, Heights
<1>3. V[p].cells[i].key \in span[p] /\ V[q].cells[j].key \in span[q] /\ span[p] \in SUBSET Nat
  BY <1>1 DEF Structure, Spans
<1>4. p = q
  BY <1>1, <1>2, <1>3, SpansApart
<1>5. V[p] # Interior(<<>>, <<>>)
  BY DEF Interior
<1>6. Node(C, DOMAIN V, V[p])
  BY <1>1, <1>5 DEF Structure, WellFormed
<1>7. V[p].cells \in Seq(C) /\ Sorted(V[p].cells)
  BY <1>6 DEF Node
<1>8. V[p].cells[i].key \in Nat /\ i \in Nat /\ j \in Nat /\ i \in 1 .. Len(V[p].cells) /\ j \in 1 .. Len(V[p].cells)
      /\ V[p].cells[i].key = V[p].cells[j].key
  BY <1>3, <1>4, <1>7
<1>9. ~(i < j) /\ ~(j < i)
  BY ONLY <1>7, <1>8 DEF Sorted
<1> QED BY ONLY <1>4, <1>8, <1>9

-----------------------------------------------------------------------------
(* The root emptied *)

\* The last child of the root goes, and the root is a leaf again.
Empties(V, W, root, p) ==
  /\ DOMAIN W = DOMAIN V /\ p \in DOMAIN V
  /\ Edge(V, root, 1, p) /\ Len(V[root].kids) = 1
  /\ \A i \in Nat, y \in DOMAIN V : ~Edge(V, p, i, y)
  /\ W[root] = Leaf(<<>>) /\ ~TreePage(W, p)
  /\ \A y \in DOMAIN V \ {p, root} : W[y] = V[y]

\* A root that loses its last child is a leaf, and all of the tree.
LEMMA EmptyKeeps ==
  ASSUME NEW C, NEW V, NEW W, NEW root, NEW ht, NEW span, NEW p,
         Structure(C, V, root, p, ht, span), Empties(V, W, root, p), NEW hole
  PROVE  /\ Structure(C, W, root, hole, [y \in DOMAIN V |-> 0], [y \in DOMAIN V |-> {}])
         /\ \A y \in DOMAIN V : TreePage(V, y) => y \in {root, p}
<1> DEFINE P == DOMAIN V
<1>1. /\ DOMAIN W = P /\ p \in P /\ Edge(V, root, 1, p) /\ Len(V[root].kids) = 1
      /\ \A i \in Nat, y \in P : ~Edge(V, p, i, y)
      /\ W[root] = Leaf(<<>>) /\ ~TreePage(W, p)
      /\ \A y \in P \ {p, root} : W[y] = V[y]
  BY DEF Empties
<1>2. /\ ht \in [P -> Nat] /\ root \in P
      /\ \A y \in P : ht[y] <= ht[root]
      /\ \A u, y \in P, i \in Nat : Edge(V, u, i, y) => TreePage(V, y) /\ ht[y] + 1 = ht[u]
  BY DEF Structure, Heights
<1>3. \A c \in P : TreePage(V, c) /\ c # root => \E u \in P, i \in Nat : Edge(V, u, i, c)
  BY DEF Structure, Parents
<1> HIDE DEF P
<1>4. ASSUME NEW z \in P, TreePage(V, z), z \notin {root, p} PROVE FALSE
  <2> DEFINE S == {y \in P : TreePage(V, y) /\ y \notin {root, p}}
             T == {ht[root] - ht[y] : y \in S}
  <2>1. T \in SUBSET Nat /\ T # {}
    <3>1. \A y \in S : ht[root] - ht[y] \in Nat
      BY <1>2
    <3> QED BY <3>1, <1>4
  <2> HIDE DEF T
  <2>2. PICK n \in T : \A m \in T : n <= m
    BY ONLY <2>1, LeastNatural
  <2>3. PICK y \in S : n = ht[root] - ht[y]
    BY <2>2 DEF T
  <2>4. PICK u \in P, i \in Nat : Edge(V, u, i, y)
    BY <2>3, <1>3
  <2>5. y \in P /\ ht[y] + 1 = ht[u] /\ u # p
    BY <2>3, <2>4, <1>1, <1>2
  <2>6. u # root
    <3> SUFFICES ASSUME u = root PROVE FALSE
      OBVIOUS
    <3>1. i \in 1 .. 1 /\ V[root].kids[i] = y
      BY <2>4, <1>1 DEF Edge
    <3>2. i = 1 /\ V[root].kids[1] = p
      BY <3>1, <1>1 DEF Edge
    <3> QED BY <3>1, <3>2, <2>3
  <2>7. u \in S
    BY <2>4, <2>5, <2>6 DEF Edge, TreePage
  <2>8. ht[root] - ht[u] \in T
    BY <2>7 DEF T
  <2>9. ht[root] \in Nat /\ ht[u] \in Nat /\ ht[y] \in Nat
    BY <2>5, <1>2
  <2> QED BY ONLY <2>2, <2>3, <2>5, <2>8, <2>9
<1>5. root # p
  BY ONLY <1>1, <1>2
<1>6. \A y \in P : TreePage(W, y) <=> y = root
  <2> TAKE y \in P
  <2>1. CASE y = root
    BY <2>1, <1>1 DEF TreePage, Leaf
  <2>2. CASE y = p
    BY <2>2, <1>1, <1>5
  <2>3. CASE y \notin {p, root}
    <3>1. W[y] = V[y]
      BY <2>3, <1>1
    <3> QED BY <3>1, <2>3, <1>4 DEF TreePage
  <2> QED BY ONLY <2>1, <2>2, <2>3
<1>7. W[root].kind = "leaf" /\ W[root].cells = <<>> /\ W[root].kids = <<>>
  BY <1>1 DEF Leaf
<1>8. \A u, y \in P, i \in Nat : ~Edge(W, u, i, y)
  <2> SUFFICES ASSUME NEW u \in P, NEW y \in P, NEW i \in Nat, Edge(W, u, i, y) PROVE FALSE
    OBVIOUS
  <2>1. TreePage(W, u) /\ W[u].kind = "interior"
    BY DEF Edge, TreePage
  <2> QED BY <2>1, <1>6, <1>7
<1> DEFINE h == [y \in P |-> 0]  s == [y \in P |-> {}]
<1>9. WellFormed(C, W, hole)
  <2> SUFFICES Node(C, P, W[root])
    BY <1>1, <1>6 DEF WellFormed
  <2> QED BY <1>7 DEF Node, Sorted
<1>10. Heights(W, root, h)
  <2>1. \A y \in P : W[y].kind # "interior"
    BY <1>6, <1>7 DEF TreePage
  <2>2. h \in [P -> Nat] /\ \A y \in P : h[y] = 0
    OBVIOUS
  <2>3. TreePage(W, root) /\ root \in P
    BY <1>2, <1>6
  <2> HIDE DEF h
  <2>4. \A y \in P : h[y] <= h[root]
    BY <2>2, <2>3
  <2> QED BY ONLY <1>1, <1>8, <2>1, <2>2, <2>3, <2>4 DEF Heights
<1>11. Parents(W, root)
  BY ONLY <1>1, <1>2, <1>6, <1>8 DEF Parents
<1>12. Spans(W, s)
  <2>1. s \in [P -> SUBSET Nat]
    OBVIOUS
  <2>2. \A y \in P : TreePage(W, y) => \A i \in 1 .. Len(W[y].cells) : W[y].cells[i].key \in s[y]
    <3>1. \A i \in 1 .. Len(W[root].cells) : FALSE
      BY <1>7
    <3> QED BY <3>1, <1>6
  <2> HIDE DEF s
  <2> QED BY ONLY <1>1, <1>8, <2>1, <2>2 DEF Spans
<1>13. \A y \in P : TreePage(V, y) => y \in {root, p}
  BY <1>4
<1> QED BY <1>9, <1>10, <1>11, <1>12, <1>13 DEF Structure, P

\* The pages of a path.
WayOf(path) == {path[i][1] : i \in 1 .. Len(path)}

\* What a path says of its pages.
LEMMA LeadsFacts ==
  ASSUME NEW C, NEW V, NEW root, NEW x, NEW path, Leads(C, V, root, x, path)
  PROVE  /\ Len(path) \in Nat /\ Len(path) >= 1 /\ path[1][1] = root
         /\ \A i \in 1 .. Len(path) : path[i][1] \in DOMAIN V /\ path[i][2] \in Nat
         /\ Last(path) = path[Len(path)]
         /\ Last(path)[1] \in DOMAIN V /\ V[Last(path)[1]].kind = "leaf"
         /\ Last(path)[2] \in 1 .. Len(V[Last(path)[1]].cells) + 1
         /\ Routes(V[Last(path)[1]].cells, Last(path)[2], x)
         /\ Last(path)[1] \in WayOf(path)
<1>1. path \in Seq((DOMAIN V) \X Nat) /\ Len(path) >= 1 /\ Len(path) \in Nat /\ path[1][1] = root
  BY DEF Leads
<1>2. \A i \in 1 .. Len(path) : path[i][1] \in DOMAIN V /\ path[i][2] \in Nat
  <2> TAKE i \in 1 .. Len(path)
  <2>1. path[i] \in (DOMAIN V) \X Nat
    BY ONLY <1>1, i \in 1 .. Len(path)
  <2> QED BY ONLY <2>1
<1>3. Last(path) = path[Len(path)] /\ Len(path) \in 1 .. Len(path)
  BY ONLY <1>1 DEF Last
<1>4. path[Len(path)][1] \in DOMAIN V /\ path[Len(path)][1] \in WayOf(path)
  BY ONLY <1>2, <1>3 DEF WayOf
<1>5. /\ V[path[Len(path)][1]].kind = "leaf"
      /\ path[Len(path)][2] \in 1 .. Len(V[path[Len(path)][1]].cells) + 1
      /\ Routes(V[path[Len(path)][1]].cells, path[Len(path)][2], x)
  BY <1>3 DEF Leads
<1> QED BY ONLY <1>1, <1>2, <1>3, <1>4, <1>5

\* A page on a path was reached from the page before it.
LEMMA LeadsWay ==
  ASSUME NEW C, NEW V, NEW root, NEW hole, NEW ht, NEW span, Structure(C, V, root, hole, ht, span),
         NEW x, NEW path, Leads(C, V, root, x, path),
         NEW u \in DOMAIN V, NEW y \in DOMAIN V, NEW i \in Nat, Edge(V, u, i, y), y \in WayOf(path)
  PROVE  u \in WayOf(path) /\ Routes(V[u].cells, i, x)
<1>1. /\ \A v, z, c \in DOMAIN V, j, k \in Nat : Edge(V, v, j, c) /\ Edge(V, z, k, c) => v = z /\ j = k
      /\ \A v \in DOMAIN V, j \in Nat : ~Edge(V, v, j, root)
  BY DEF Structure, Parents
<1>2. PICK n \in 1 .. Len(path) : y = path[n][1]
  BY DEF WayOf
<1>3. Len(path) \in Nat /\ path[1][1] = root /\ \A k \in 1 .. Len(path) : path[k][1] \in DOMAIN V /\ path[k][2] \in Nat
  BY LeadsFacts
<1>c. Edge(V, u, i, y)
  OBVIOUS
<1>4. n # 1
  BY ONLY <1>1, <1>2, <1>3, <1>c, u \in DOMAIN V, i \in Nat
<1>5. n - 1 \in 1 .. Len(path) - 1 /\ (n - 1) + 1 = n /\ n - 1 \in 1 .. Len(path)
  BY ONLY <1>3, <1>4, n \in 1 .. Len(path)
<1>6. Edge(V, path[n - 1][1], path[n - 1][2], path[(n - 1) + 1][1]) /\ Routes(V[path[n - 1][1]].cells, path[n - 1][2], x)
  BY <1>5 DEF Leads
<1>7. path[n - 1][1] \in DOMAIN V /\ path[n - 1][2] \in Nat /\ Edge(V, path[n - 1][1], path[n - 1][2], y)
  BY ONLY <1>2, <1>3, <1>5, <1>6
<1>8. u = path[n - 1][1] /\ i = path[n - 1][2]
  BY ONLY <1>1, <1>7, <1>c, u \in DOMAIN V, y \in DOMAIN V, i \in Nat
<1> QED BY ONLY <1>5, <1>6, <1>8 DEF WayOf

\* The leaf that holds a key is the one its path ends at.
LEMMA LeadsHome ==
  ASSUME NEW C, CellSet(C), NEW V, NEW root, NEW hole, hole \notin DOMAIN V, NEW ht, NEW span,
         Structure(C, V, root, hole, ht, span), NEW x \in Nat, NEW path, Leads(C, V, root, x, path),
         NEW p \in DOMAIN V, V[p].kind = "leaf", x \in span[p]
  PROVE  p = Last(path)[1]
<1> DEFINE q == Last(path)[1]  way == WayOf(path)  nspan == WaySpan(span, way, x)
<1>1. q \in DOMAIN V /\ V[q].kind = "leaf" /\ q \in way
  BY LeadsFacts
<1>2. TreePage(V, p) /\ TreePage(V, q)
  BY <1>1 DEF TreePage
<1>3. Node(C, DOMAIN V, V[q])
  BY <1>1, <1>2, NodeOf DEF Structure
<1>4. \A u, y \in DOMAIN V, i \in Nat : Edge(V, u, i, y) /\ y \in way => u \in way /\ Routes(V[u].cells, i, x)
  BY LeadsWay
<1> HIDE DEF q, way
<1>5. LeafWrites(C, V, V, q, way, x)
  BY <1>1, <1>3, <1>4 DEF LeafWrites
<1>6. Structure(C, V, root, hole, ht, nspan)
  BY <1>5, LeafKeeps
<1>7. ht[p] = ht[q]
  BY <1>1 DEF Structure, Heights
<1>8. span \in [DOMAIN V -> SUBSET Nat]
  BY DEF Structure, Spans
<1>9. x \in nspan[p] /\ x \in nspan[q]
  BY <1>1, <1>8 DEF WaySpan
<1> HIDE DEF nspan
<1>10. p = q
  BY <1>1, <1>2, <1>6, <1>7, <1>9, SpansApart
<1> QED BY <1>10 DEF q

\* ... and its slot there is the key's own.
LEMMA HomeSlot ==
  ASSUME NEW C, CellSet(C), NEW c \in Seq(C), Sorted(c), NEW x \in Nat,
         NEW s \in 1 .. Len(c) + 1, Routes(c, s, x), NEW i \in 1 .. Len(c), c[i].key = x
  PROVE  s = i
<1>1. Len(c) \in Nat /\ \A j \in 1 .. Len(c) : c[j].key \in Nat
  BY DEF CellSet
<1>2. \A j \in 1 .. Len(c) : IF j < s THEN c[j].key < x ELSE x <= c[j].key
  BY DEF Routes
<1>3. ~(i < s)
  BY <1>1, <1>2
<1>4. ~(s < i)
  <2> SUFFICES ASSUME s < i PROVE FALSE
    OBVIOUS
  <2>1. s \in 1 .. Len(c) /\ ~(s < s)
    BY <1>1
  <2>2. x <= c[s].key /\ c[s].key < c[i].key
    BY <1>2, <2>1 DEF Sorted
  <2> QED BY <1>1, <2>1, <2>2
<1> QED BY <1>3, <1>4

=============================================================================
