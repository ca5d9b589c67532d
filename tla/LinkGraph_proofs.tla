-------------------------- MODULE LinkGraph_proofs --------------------------
(***************************************************************************)
(* What is counted of a graph agrees with what is in it (LinkGraph), for   *)
(* any banks, names, facts and edges.  First what a fold and an iteration  *)
(* are: their definitions are recursive, and each is shown to have a value *)
(* before anything is shown of it.  Then what a sum is.                    *)
(***************************************************************************)
EXTENDS LinkGraph, FiniteSetTheorems, WellFoundedInduction, TLAPS

-----------------------------------------------------------------------------
(* Least elements *)

\* Every set of naturals that is not empty has a least element.
LEMMA LeastOf ==
    ASSUME NEW K \in SUBSET Nat, K # {}
    PROVE  \E m \in K : \A x \in K : m <= x
<1>1. PICK m \in K : \A y \in K : ~ (<< y, m >> \in OpToRel(<, Nat))
      BY NatLessThanWellFounded, WFMin
<1>2. \A x \in K : ~ (x < m)
      BY <1>1 DEF OpToRel
<1> QED BY <1>2

\* Of subsets of a finite set one has none of the others inside it.
LEMMA SmallestOf ==
    ASSUME NEW S, IsFiniteSet(S), NEW K \in SUBSET (SUBSET S), K # {}
    PROVE  \E T \in K : \A U \in K : U \subseteq T => U = T
<1>1. IsWellFoundedOn(StrictSubsetOrdering(S), FiniteSubsetsOf(S))
      BY FS_StrictSubsetOrderingWellFounded
<1>2. K \subseteq FiniteSubsetsOf(S)
      BY FS_Subset DEF FiniteSubsetsOf
<1>3. PICK T \in K : \A U \in K : ~ (<< U, T >> \in StrictSubsetOrdering(S))
      BY <1>1, <1>2, WFMin
<1>4. \A U \in K : U \subseteq T => U = T
      BY <1>3 DEF StrictSubsetOrdering
<1> QED BY <1>4

\* The greatest element of a bounded set of naturals is its Max.
LEMMA MaxIsGreatest ==
    ASSUME NEW K \in SUBSET Nat, K # {}, NEW b \in Nat, \A x \in K : x <= b
    PROVE  Max(K) \in K /\ \A x \in K : x <= Max(K)
<1> DEFINE Gaps == {b - x : x \in K}
<1>a. \A x \in K : b - x \in Nat
      OBVIOUS
<1>1. Gaps \in SUBSET Nat /\ Gaps # {}
      BY <1>a
<1>2. PICK g \in Gaps : \A y \in Gaps : g <= y
      BY <1>1, LeastOf
<1>3. PICK m \in K : g = b - m
      BY <1>2
<1>4. \A x \in K : b - m <= b - x
      BY <1>2, <1>3
<1>5. \A x \in K : m >= x
      BY <1>4
<1>6. Max(K) \in K /\ \A x \in K : Max(K) >= x
      BY <1>5 DEF Max
<1> QED BY <1>6

-----------------------------------------------------------------------------
(* Recursive definitions *)

\* A function that is iterated: n steps from a base.
Iterated(up, n, base, Step) == up = [k \in 0 .. n |-> IF k = 0 THEN base ELSE Step[up[k - 1]]]

LEMMA IterationIs ==
    ASSUME NEW n \in Nat, NEW X, NEW base \in X, NEW Step \in [X -> X]
    PROVE  \E up : Iterated(up, n, base, Step)
<1> DEFINE Is(up, m) == /\ up \in [0 .. m -> X] /\ up[0] = base
                        /\ \A k \in 1 .. m : up[k] = Step[up[k - 1]]
           Bad == {m \in Nat : ~ \E up : Is(up, m)}
<1>1. Bad = {}
  <2> SUFFICES ASSUME Bad # {} PROVE FALSE
      OBVIOUS
  <2>1. PICK m \in Bad : \A k \in Bad : m <= k
      BY LeastOf
  <2>2. CASE m = 0
    <3> DEFINE up == [k \in 0 .. 0 |-> base]
    <3>1. Is(up, 0)
        OBVIOUS
    <3> QED BY <2>1, <2>2, <3>1
  <2>3. CASE m > 0
    <3>1. m - 1 \in Nat /\ m - 1 \notin Bad
        BY <2>1, <2>3
    <3>2. PICK up : Is(up, m - 1)
        BY <3>1
    <3> DEFINE more == [k \in 0 .. m |-> IF k = m THEN Step[up[m - 1]] ELSE up[k]]
    <3>3. /\ up \in [0 .. m - 1 -> X] /\ up[0] = base
          /\ \A k \in 1 .. m - 1 : up[k] = Step[up[k - 1]]
        BY <3>2
    <3>4. /\ \A k \in 0 .. m - 1 : more[k] = up[k]
          /\ more[m] = Step[up[m - 1]] /\ more \in [0 .. m -> X]
        BY <2>1, <2>3, <3>3
    <3>5. more[0] = base
        BY <2>3, <3>1, <3>3, <3>4
    <3>6. ASSUME NEW k \in 1 .. m PROVE more[k] = Step[more[k - 1]]
      <4>1. k - 1 \in 0 .. m - 1
          BY <2>1, <3>6
      <4>2. CASE k = m
          BY <4>1, <4>2, <3>4
      <4>3. CASE k # m
        <5>1. k \in 1 .. m - 1 /\ k \in 0 .. m - 1
            BY <2>1, <3>6, <4>3
        <5> QED BY <4>1, <5>1, <3>3, <3>4
      <4> QED BY <4>2, <4>3
    <3> HIDE DEF more
    <3>7. Is(more, m)
        BY <3>4, <3>5, <3>6
    <3> QED BY <2>1, <3>7
  <2> QED BY <2>1, <2>2, <2>3
<1>2. PICK up : Is(up, n)
      BY <1>1
<1>3. up = [k \in 0 .. n |-> up[k]]
      BY <1>2
<1>4. \A k \in 0 .. n : up[k] = IF k = 0 THEN base ELSE Step[up[k - 1]]
  <2> TAKE k \in 0 .. n
  <2>1. k = 0 \/ k \in 1 .. n
      OBVIOUS
  <2> QED BY <1>2, <2>1
<1>5. Iterated(up, n, base, Step)
      BY <1>3, <1>4 DEF Iterated
<1> QED BY <1>5

\* What is iterated stays where the steps stay, and is what its steps say.
LEMMA IterationSteps ==
    ASSUME NEW n \in Nat, NEW X, NEW base \in X, NEW Step \in [X -> X],
           NEW up, Iterated(up, n, base, Step)
    PROVE  /\ up \in [0 .. n -> X] /\ up[0] = base
           /\ \A k \in 1 .. n : up[k] = Step[up[k - 1]]
<1>1. /\ DOMAIN up = 0 .. n /\ up = [k \in 0 .. n |-> up[k]]
      /\ \A k \in 0 .. n : up[k] = IF k = 0 THEN base ELSE Step[up[k - 1]]
      BY Zenon DEF Iterated
<1>2. up[0] = base /\ \A k \in 1 .. n : up[k] = Step[up[k - 1]]
      BY <1>1
<1> DEFINE Bad == {k \in 0 .. n : up[k] \notin X}
<1>3. Bad = {}
  <2> SUFFICES ASSUME Bad # {} PROVE FALSE
      OBVIOUS
  <2>0. Bad \in SUBSET Nat
      OBVIOUS
  <2>1. PICK k \in Bad : \A l \in Bad : k <= l
    <3> HIDE DEF Bad
    <3> QED BY <2>0, LeastOf
  <2>2. k # 0
      BY <1>2
  <2>3. k - 1 \in 0 .. n /\ k \in 1 .. n /\ k - 1 \notin Bad
      BY <2>1, <2>2
  <2> QED BY <1>2, <2>1, <2>3
<1> QED BY <1>1, <1>2, <1>3

\* A fold over a finite set, which takes the elements in the order of CHOOSE.
AnyOf(s) == CHOOSE x \in s : TRUE

Folds(iter, S, X, base, Op) ==
    /\ iter \in [SUBSET S -> X]
    /\ \A s \in SUBSET S :
          iter[s] = IF s = {} THEN base ELSE Op[<< AnyOf(s), iter[s \ {AnyOf(s)}] >>]

LEMMA FoldIs ==
    ASSUME NEW S, IsFiniteSet(S), NEW X, NEW base \in X, NEW Op \in [S \X X -> X]
    PROVE  \E iter : Folds(iter, S, X, base, Op)
<1> DEFINE Upto(n) == {s \in SUBSET S : Cardinality(s) <= n}
           Is(iter, n) == /\ iter \in [Upto(n) -> X]
                          /\ \A s \in Upto(n) :
                                iter[s] = IF s = {} THEN base
                                          ELSE Op[<< AnyOf(s), iter[s \ {AnyOf(s)}] >>]
           Bad == {n \in Nat : ~ \E iter : Is(iter, n)}
<1>1. \A s \in SUBSET S : /\ IsFiniteSet(s) /\ Cardinality(s) \in Nat
                          /\ s # {} => /\ AnyOf(s) \in s /\ s \ {AnyOf(s)} \in SUBSET S
                                       /\ Cardinality(s \ {AnyOf(s)}) = Cardinality(s) - 1
                          /\ Cardinality(s) = 0 <=> s = {}
  <2> TAKE s \in SUBSET S
  <2>1. IsFiniteSet(s) /\ Cardinality(s) \in Nat /\ (Cardinality(s) = 0 <=> s = {})
      BY FS_Subset, FS_CardinalityType, FS_EmptySet
  <2>2. s # {} => AnyOf(s) \in s
      BY DEF AnyOf
  <2>3. s # {} => Cardinality(s \ {AnyOf(s)}) = Cardinality(s) - 1
      BY <2>1, <2>2, FS_RemoveElement
  <2> QED BY <2>1, <2>2, <2>3
<1>2. Bad = {}
  <2> SUFFICES ASSUME Bad # {} PROVE FALSE
      OBVIOUS
  <2>0. Bad \in SUBSET Nat
      OBVIOUS
  <2>1. PICK m \in Bad : \A k \in Bad : m <= k
    <3> HIDE DEF Bad
    <3> QED BY <2>0, LeastOf
  <2>2. CASE m = 0
    <3> DEFINE iter == [s \in Upto(0) |-> base]
    <3>1. \A s \in Upto(0) : s = {}
      <4> TAKE s \in Upto(0)
      <4>1. s \in SUBSET S /\ Cardinality(s) <= 0
          OBVIOUS
      <4>2. Cardinality(s) \in Nat /\ (Cardinality(s) = 0 <=> s = {})
          BY <4>1, <1>1
      <4> QED BY <4>1, <4>2
    <3>2. Is(iter, 0)
        BY <3>1
    <3> QED BY <2>1, <2>2, <3>2
  <2>3. CASE m > 0
    <3>1. m - 1 \in Nat /\ m - 1 \notin Bad
      <4> HIDE DEF Bad
      <4> QED BY <2>0, <2>1, <2>3
    <3>2. PICK iter : Is(iter, m - 1)
        BY <3>1
    <3> DEFINE more == [s \in Upto(m) |-> IF s = {} THEN base
                                          ELSE Op[<< AnyOf(s), iter[s \ {AnyOf(s)}] >>]]
    <3>3. \A s \in Upto(m - 1) : more[s] = iter[s]
        BY <1>1, <2>1, <3>1, <3>2
    <3>4. ASSUME NEW s \in Upto(m), s # {}
          PROVE  AnyOf(s) \in S /\ s \ {AnyOf(s)} \in Upto(m - 1) /\ iter[s \ {AnyOf(s)}] \in X
        BY <1>1, <2>1, <3>1, <3>2, <3>4
    <3>5. more \in [Upto(m) -> X]
        BY <3>4
    <3>6. ASSUME NEW s \in Upto(m)
          PROVE  more[s] = IF s = {} THEN base ELSE Op[<< AnyOf(s), more[s \ {AnyOf(s)}] >>]
        BY <3>3, <3>4
    <3> HIDE DEF more
    <3>7. Is(more, m)
        BY <3>5, <3>6
    <3> QED BY <2>1, <3>7
  <2> QED BY <2>1, <2>2, <2>3
<1>3. Cardinality(S) \in Nat /\ Upto(Cardinality(S)) = SUBSET S
      BY FS_CardinalityType, FS_Subset
<1>4. PICK iter : Is(iter, Cardinality(S))
      BY <1>2, <1>3
<1>5. Folds(iter, S, X, base, Op)
      BY <1>3, <1>4 DEF Folds
<1> QED BY <1>5

-----------------------------------------------------------------------------
(***************************************************************************)
(* Sums over a set, which the fold takes in the order of CHOOSE: they are  *)
(* the same in any order, and what is mapped one to one into a set has no  *)
(* greater sum.                                                            *)
(***************************************************************************)

SumsUp(iter, S, F) ==
    /\ iter \in [SUBSET S -> Nat]
    /\ \A s \in SUBSET S : iter[s] = IF s = {} THEN 0 ELSE F[AnyOf(s)] + iter[s \ {AnyOf(s)}]

\* Every sum over a finite set has a value.
LEMMA SumIs ==
    ASSUME NEW S, IsFiniteSet(S), NEW F \in [S -> Nat]
    PROVE  \E iter : SumsUp(iter, S, F)
<1> DEFINE Op == [a \in S \X Nat |-> F[a[1]] + a[2]]
<1>1. Op \in [S \X Nat -> Nat]
      OBVIOUS
<1>2. PICK iter : Folds(iter, S, Nat, 0, Op)
  <2> HIDE DEF Op
  <2> QED BY <1>1, FoldIs
<1>3. /\ iter \in [SUBSET S -> Nat]
      /\ \A s \in SUBSET S :
            iter[s] = IF s = {} THEN 0 ELSE Op[<< AnyOf(s), iter[s \ {AnyOf(s)}] >>]
      BY <1>2 DEF Folds
<1>4. ASSUME NEW s \in SUBSET S, s # {}
      PROVE  Op[<< AnyOf(s), iter[s \ {AnyOf(s)}] >>] = F[AnyOf(s)] + iter[s \ {AnyOf(s)}]
  <2>1. AnyOf(s) \in S /\ s \ {AnyOf(s)} \in SUBSET S
        BY <1>4 DEF AnyOf
  <2>2. << AnyOf(s), iter[s \ {AnyOf(s)}] >> \in S \X Nat
        BY <1>3, <2>1
  <2> QED BY <2>2
<1> HIDE DEF Op
<1>5. SumsUp(iter, S, F)
      BY <1>3, <1>4 DEF SumsUp
<1> QED BY <1>5

\* Any element may be taken first.
LEMMA SumInAnyOrder ==
    ASSUME NEW S, IsFiniteSet(S), NEW F \in [S -> Nat], NEW iter, SumsUp(iter, S, F),
           NEW t \in SUBSET S, NEW x \in t
    PROVE  iter[t] = F[x] + iter[t \ {x}]
<1> DEFINE Bad == {s \in SUBSET S : \E y \in s : iter[s] # F[y] + iter[s \ {y}]}
<1>0. Bad \in SUBSET (SUBSET S)
      OBVIOUS
<1>1. Bad = {}
  <2> SUFFICES ASSUME Bad # {} PROVE FALSE
      OBVIOUS
  <2>1. PICK s \in Bad : \A u \in Bad : u \subseteq s => u = s
    <3> HIDE DEF Bad
    <3> QED BY <1>0, SmallestOf
  <2>2. PICK y \in s : iter[s] # F[y] + iter[s \ {y}]
        BY <2>1
  <2>3. PICK a : a = AnyOf(s)
        OBVIOUS
  <2>4. s \in SUBSET S /\ y \in s /\ a \in s
        BY <2>1, <2>2, <2>3 DEF AnyOf
  <2>5. iter[s] = F[a] + iter[s \ {a}]
        BY <2>3, <2>4 DEF SumsUp
  <2>6. a # y
        BY <2>2, <2>5
  <2>7. s \ {a} \notin Bad /\ s \ {y} \notin Bad
        BY <2>1, <2>4
  <2>8. iter[s \ {a}] = F[y] + iter[(s \ {a}) \ {y}]
        BY <2>4, <2>6, <2>7
  <2>9. iter[s \ {y}] = F[a] + iter[(s \ {y}) \ {a}]
        BY <2>4, <2>6, <2>7
  <2>10. (s \ {a}) \ {y} = (s \ {y}) \ {a} /\ (s \ {y}) \ {a} \in SUBSET S
        BY <2>4
  <2>11. F[a] \in Nat /\ F[y] \in Nat /\ iter[(s \ {y}) \ {a}] \in Nat
        BY <2>4, <2>10 DEF SumsUp
  <2>12. PICK p, q, r \in Nat :
            p = F[a] /\ q = F[y] /\ r = iter[(s \ {y}) \ {a}]
        BY <2>11
  <2>13. iter[s \ {a}] = q + r /\ iter[s \ {y}] = p + r
        BY <2>8, <2>9, <2>10, <2>12
  <2>14. iter[s] = p + (q + r) /\ iter[s] # q + (p + r)
        BY <2>2, <2>5, <2>12, <2>13
  <2> QED BY <2>14
<1> QED BY <1>1

\* What is mapped one to one into a set sums to no more.
LEMMA SumIsNoMore ==
    ASSUME NEW S, IsFiniteSet(S), NEW F \in [S -> Nat], NEW iter, SumsUp(iter, S, F),
           NEW T, IsFiniteSet(T), NEW G \in [T -> Nat], NEW jter, SumsUp(jter, T, G),
           NEW h \in [S -> T], \A i, j \in S : h[i] = h[j] => i = j,
           \A i \in S : F[i] = G[h[i]],
           NEW t \in SUBSET T, \A i \in S : h[i] \in t
    PROVE  iter[S] <= jter[t]
<1> DEFINE Good(s) == \A u \in SUBSET T : (\A i \in s : h[i] \in u) => iter[s] <= jter[u]
           Bad == {s \in SUBSET S : ~Good(s)}
<1>0. Bad \in SUBSET (SUBSET S)
      OBVIOUS
<1>1. Bad = {}
  <2> SUFFICES ASSUME Bad # {} PROVE FALSE
      OBVIOUS
  <2>1. PICK s \in Bad : \A u \in Bad : u \subseteq s => u = s
    <3> HIDE DEF Bad
    <3> QED BY <1>0, SmallestOf
  <2>2. s \in SUBSET S
        BY <2>1
  <2>3. PICK u \in SUBSET T : (\A i \in s : h[i] \in u) /\ ~ (iter[s] <= jter[u])
        BY <2>1
  <2>4. iter[s] \in Nat /\ jter[u] \in Nat
        BY <2>2 DEF SumsUp
  <2>5. CASE s = {}
    <3>1. iter[s] = 0
          BY <2>2, <2>5 DEF SumsUp
    <3> QED BY <2>3, <2>4, <3>1
  <2>6. CASE s # {}
    <3>1. PICK a : a = AnyOf(s)
          OBVIOUS
    <3>2. a \in s
          BY <2>6, <3>1 DEF AnyOf
    <3>3. iter[s] = F[a] + iter[s \ {a}]
          BY <2>2, <2>6, <3>1 DEF SumsUp
    <3>4. PICK v : v = u \ {h[a]}
          OBVIOUS
    <3>5. h[a] \in u /\ v \in SUBSET T
          BY <2>3, <3>2, <3>4
    <3>6. jter[u] = G[h[a]] + jter[v]
          BY <3>4, <3>5, SumInAnyOrder
    <3>7. \A i \in s \ {a} : h[i] \in v
          BY <2>2, <2>3, <3>2, <3>4
    <3>8. PICK r : r = s \ {a}
          OBVIOUS
    <3>9. r \in SUBSET S /\ r \notin Bad
          BY <2>1, <2>2, <3>2, <3>8
    <3>10. iter[r] <= jter[v]
          BY <3>5, <3>7, <3>8, <3>9
    <3>11. iter[r] \in Nat /\ jter[v] \in Nat /\ F[a] = G[h[a]] /\ F[a] \in Nat
          BY <2>2, <3>2, <3>5, <3>9 DEF SumsUp
    <3> HIDE DEF Bad, Good
    <3> QED BY <2>3, <3>3, <3>6, <3>8, <3>10, <3>11
  <2> QED BY <2>5, <2>6
<1>2. S \in SUBSET S /\ S \notin Bad
      BY <1>1
<1>3. Good(S)
      BY <1>2
<1> QED BY <1>3

\* And to less, where an element that counts is missed.
LEMMA SumIsLess ==
    ASSUME NEW S, IsFiniteSet(S), NEW F \in [S -> Nat], NEW iter, SumsUp(iter, S, F),
           NEW T, IsFiniteSet(T), NEW G \in [T -> Nat], NEW jter, SumsUp(jter, T, G),
           NEW h \in [S -> T], \A i, j \in S : h[i] = h[j] => i = j,
           \A i \in S : F[i] = G[h[i]],
           NEW c \in T, G[c] > 0, \A i \in S : h[i] # c
    PROVE  iter[S] # jter[T]
<1>1. PICK t : t = T \ {c}
      OBVIOUS
<1>2. t \in SUBSET T /\ \A i \in S : h[i] \in t
      BY <1>1
<1>3. iter[S] <= jter[t]
      BY <1>2, SumIsNoMore
<1>4. T \in SUBSET T /\ c \in T
      OBVIOUS
<1>5. jter[T] = G[c] + jter[t]
      BY <1>1, <1>4, SumInAnyOrder
<1>6. S \in SUBSET S /\ iter[S] \in Nat /\ jter[t] \in Nat /\ G[c] \in Nat
      BY <1>2 DEF SumsUp
<1> QED BY <1>3, <1>5, <1>6

\* The same equations, of a function that may be more than the sum.
AddsUp(found, S, F) ==
    \A s \in SUBSET S : found[s] = IF s = {} THEN 0 ELSE F[AnyOf(s)] + found[s \ {AnyOf(s)}]

\* What follows them over the subsets of a finite set is the sum there.
LEMMA OnlySum ==
    ASSUME NEW S, IsFiniteSet(S), NEW F, NEW iter, SumsUp(iter, S, F),
           NEW found, AddsUp(found, S, F)
    PROVE  found[S] = iter[S]
<1> DEFINE Bad == {s \in SUBSET S : found[s] # iter[s]}
<1>1. Bad \in SUBSET (SUBSET S)
      OBVIOUS
<1>2. Bad = {}
  <2> SUFFICES ASSUME Bad # {} PROVE FALSE
      OBVIOUS
  <2>1. PICK s \in Bad : \A u \in Bad : u \subseteq s => u = s
    <3> HIDE DEF Bad
    <3> QED BY <1>1, SmallestOf
  <2>2. s \in SUBSET S /\ found[s] # iter[s]
        BY <2>1
  <2>3. s # {} => AnyOf(s) \in s
        BY DEF AnyOf
  <2>4. s # {} => s \ {AnyOf(s)} \in SUBSET S /\ s \ {AnyOf(s)} \notin Bad
        BY <2>1, <2>2, <2>3
  <2>5. s # {} => found[s \ {AnyOf(s)}] = iter[s \ {AnyOf(s)}]
        BY <2>4
  <2> QED BY <2>2, <2>5 DEF SumsUp, AddsUp
<1>3. S \in SUBSET S /\ S \notin Bad
      BY <1>2
<1> QED BY <1>3

-----------------------------------------------------------------------------
(* Union and find *)

\* Find is an iteration: it starts at x and steps to the parent.
Climbs(up, ids, p, x) ==
    /\ up \in [0 .. Cardinality(ids) -> ids]
    /\ up[0] = x /\ Root(p, x) = up[Cardinality(ids)]
    /\ \A k \in 1 .. Cardinality(ids) : up[k] = p[up[k - 1]]

LEMMA RootIsReached ==
    ASSUME NEW ids, IsFiniteSet(ids), NEW p \in [ids -> ids], NEW x \in ids
    PROVE  \E up : Climbs(up, ids, p, x)
<1> DEFINE N == Cardinality(ids)
           found == CHOOSE up : up = [k \in 0 .. N |-> IF k = 0 THEN x ELSE p[up[k - 1]]]
<1>1. N \in Nat
      BY FS_CardinalityType
<1>2. \E up : Iterated(up, N, x, p)
  <2> HIDE DEF N
  <2> QED BY <1>1, IterationIs
<1>3. Iterated(found, N, x, p)
      BY <1>2 DEF Iterated
<1>4. Root(p, x) = found[N]
  <2>1. DOMAIN p = ids
      OBVIOUS
  <2> QED BY <2>1 DEF Root
<1> HIDE DEF found, N
<1>5. /\ found \in [0 .. N -> ids] /\ found[0] = x
      /\ \A k \in 1 .. N : found[k] = p[found[k - 1]]
      BY <1>1, <1>3, IterationSteps
<1>6. Climbs(found, ids, p, x)
      BY <1>4, <1>5 DEF Climbs, N
<1> QED BY <1>6

\* A forest: the parents p, the root r of each, and how far d it is at most.
NotRoots(ids, p) == {x \in ids : p[x] # x}
Forest(ids, p, r, d) ==
    /\ p \in [ids -> ids] /\ r \in [ids -> ids] /\ d \in [ids -> Nat]
    /\ \A x \in ids : /\ r[p[x]] = r[x] /\ p[r[x]] = r[x]
                      /\ p[x] = x => r[x] = x /\ d[x] = 0
                      /\ p[x] # x => d[p[x]] < d[x]
                      /\ d[x] <= Cardinality(NotRoots(ids, p))

\* In a forest find comes to the root.
LEMMA RootIsFound ==
    ASSUME NEW ids, IsFiniteSet(ids), NEW p, NEW r, NEW d, Forest(ids, p, r, d), NEW x \in ids
    PROVE  Root(p, x) = r[x]
<1> DEFINE N == Cardinality(ids)
<1>1. N \in Nat /\ Cardinality(NotRoots(ids, p)) \in Nat /\ Cardinality(NotRoots(ids, p)) <= N
      BY FS_CardinalityType, FS_Subset DEF NotRoots
<1>2. p \in [ids -> ids] /\ r \in [ids -> ids] /\ d \in [ids -> Nat]
      BY DEF Forest
<1>0. PICK up : Climbs(up, ids, p, x)
      BY <1>2, RootIsReached
<1>3. /\ up \in [0 .. N -> ids] /\ up[0] = x /\ Root(p, x) = up[N]
      /\ \A k \in 1 .. N : up[k] = p[up[k - 1]]
      BY <1>0 DEF Climbs
<1> DEFINE Bad == {k \in 0 .. N : ~ /\ r[up[k]] = r[x]
                                    /\ p[up[k]] = up[k] \/ d[up[k]] + k <= d[x]}
<1>4. Bad = {}
  <2> SUFFICES ASSUME Bad # {} PROVE FALSE
      OBVIOUS
  <2>0. Bad \in SUBSET Nat
      BY <1>1
  <2>1. PICK k \in Bad : \A l \in Bad : k <= l
    <3> HIDE DEF Bad
    <3> QED BY <2>0, LeastOf
  <2>2. k # 0
      BY <1>2, <1>3
  <2>3. k - 1 \in 0 .. N /\ k \in 1 .. N /\ k - 1 \notin Bad /\ k \in Int
      BY <1>1, <2>1, <2>2
  <2> DEFINE y == up[k - 1]
  <2>4. y \in ids /\ up[k] = p[y] /\ r[y] = r[x] /\ (p[y] = y \/ d[y] + (k - 1) <= d[x])
      BY <1>3, <2>3
  <2>5. r[up[k]] = r[x]
      BY <2>4 DEF Forest
  <2>6. CASE p[y] = y
      BY <2>1, <2>4, <2>5, <2>6
  <2>7. CASE p[y] # y
    <3>1. d[p[y]] < d[y]
        BY <2>4, <2>7 DEF Forest
    <3>2. d[y] \in Nat /\ d[p[y]] \in Nat /\ d[x] \in Nat
        BY <1>2, <2>4
    <3>3. d[up[k]] + k <= d[x]
        BY <2>3, <2>4, <2>7, <3>1, <3>2
    <3> QED BY <2>1, <2>5, <3>3
  <2> QED BY <2>6, <2>7
<1> DEFINE top == up[N]
<1>5. top \in ids /\ r[top] = r[x] /\ (p[top] = top \/ d[top] + N <= d[x])
      BY <1>1, <1>3, <1>4
<1>6. p[top] = top
  <2> SUFFICES ASSUME p[top] # top PROVE FALSE
      OBVIOUS
  <2>1. d[p[top]] < d[top] /\ d[x] <= Cardinality(NotRoots(ids, p))
      BY <1>5 DEF Forest
  <2>2. d[p[top]] \in Nat /\ d[top] \in Nat /\ d[x] \in Nat
      BY <1>2, <1>5
  <2> QED BY <1>1, <1>5, <2>1, <2>2
<1>7. r[top] = top
      BY <1>5, <1>6 DEF Forest
<1> QED BY <1>3, <1>5, <1>7

\* Closed: no edge leads out of C.
Closed(C, edges) == \A l \in edges : l[1] \in C <=> l[2] \in C

\* What unites the ends of edges: each edge's ends have one root, and no root
\* is further than the edges lead.
Unites(ids, p, edges, r, d) ==
    /\ Forest(ids, p, r, d)
    /\ \A l \in edges : r[l[1]] = r[l[2]]
    /\ \A C \in SUBSET ids : Closed(C, edges) => \A x \in ids : x \in C <=> r[x] \in C

United(ids, p, edges) == \E r, d : Unites(ids, p, edges, r, d)

LEMMA NothingIsUnited ==
    ASSUME NEW ids, IsFiniteSet(ids)
    PROVE  United(ids, [i \in ids |-> i], {})
<1> DEFINE p == [i \in ids |-> i]
           d == [i \in ids |-> 0]
<1>1. NotRoots(ids, p) = {}
      BY DEF NotRoots
<1>2. Forest(ids, p, p, d)
      BY <1>1, FS_EmptySet DEF Forest
<1>3. Unites(ids, p, {}, p, d)
      BY <1>2 DEF Unites
<1> QED BY <1>3 DEF United

LEMMA UnionUnites ==
    ASSUME NEW ids, IsFiniteSet(ids), NEW p, NEW edges, NEW l, l[1] \in ids, l[2] \in ids,
           \A k \in edges : k[1] \in ids /\ k[2] \in ids, United(ids, p, edges)
    PROVE  United(ids, Union(p, l[1], l[2]), edges \cup {l})
<1>0. PICK r, d : Unites(ids, p, edges, r, d)
      BY DEF United
<1>1. /\ Forest(ids, p, r, d)
      /\ \A k \in edges : r[k[1]] = r[k[2]]
      /\ \A C \in SUBSET ids : Closed(C, edges) => \A x \in ids : x \in C <=> r[x] \in C
      BY <1>0 DEF Unites
<1> DEFINE ra == r[l[1]]
           rb == r[l[2]]
           q == [p EXCEPT ![ra] = rb]
<1>2. /\ p \in [ids -> ids] /\ r \in [ids -> ids] /\ d \in [ids -> Nat]
      /\ ra \in ids /\ rb \in ids /\ p[ra] = ra /\ p[rb] = rb /\ r[ra] = ra /\ r[rb] = rb
      BY <1>1 DEF Forest
<1>3. Union(p, l[1], l[2]) = q
  <2>1. Forest(ids, p, r, d)
      BY <1>1
  <2>2. \A x \in ids : Root(p, x) = r[x]
      BY <2>1, RootIsFound
  <2> QED BY <2>2 DEF Union
<1>4. CASE ra = rb
  <2>1. q = p
      BY <1>2, <1>4
  <2>2. \A k \in edges \cup {l} : r[k[1]] = r[k[2]]
      BY <1>1, <1>4
  <2>3. \A C : Closed(C, edges \cup {l}) => Closed(C, edges)
      BY DEF Closed
  <2> HIDE DEF q
  <2>4. Union(p, l[1], l[2]) = p
      BY <1>3, <2>1
  <2>5. \A C \in SUBSET ids : Closed(C, edges \cup {l}) => \A x \in ids : x \in C <=> r[x] \in C
      BY <1>1, <2>3
  <2>6. Unites(ids, p, edges \cup {l}, r, d)
      BY <1>1, <2>2, <2>5 DEF Unites
  <2> QED BY <2>4, <2>6 DEF United
<1>5. CASE ra # rb
  <2> DEFINE s == [x \in ids |-> IF r[x] = ra THEN rb ELSE r[x]]
             e == [x \in ids |-> IF r[x] = ra THEN d[x] + 1 ELSE d[x]]
  <2>1. NotRoots(ids, q) = NotRoots(ids, p) \cup {ra} /\ ra \notin NotRoots(ids, p)
      BY <1>2, <1>5 DEF NotRoots
  <2>2. /\ Cardinality(NotRoots(ids, q)) = Cardinality(NotRoots(ids, p)) + 1
        /\ Cardinality(NotRoots(ids, p)) \in Nat
    <3>1. IsFiniteSet(NotRoots(ids, p))
        BY FS_Subset DEF NotRoots
    <3> QED BY <2>1, <3>1, FS_AddElement, FS_CardinalityType
  <2>3. q \in [ids -> ids] /\ s \in [ids -> ids] /\ e \in [ids -> Nat]
      BY <1>2
  <2>4. ASSUME NEW x \in ids
        PROVE  /\ s[q[x]] = s[x] /\ q[s[x]] = s[x]
               /\ q[x] = x => s[x] = x /\ e[x] = 0
               /\ q[x] # x => e[q[x]] < e[x]
               /\ e[x] <= Cardinality(NotRoots(ids, q))
    <3>1. /\ r[p[x]] = r[x] /\ p[r[x]] = r[x]
          /\ p[x] = x => r[x] = x /\ d[x] = 0
          /\ p[x] # x => d[p[x]] < d[x]
          /\ d[x] <= Cardinality(NotRoots(ids, p))
          /\ p[x] \in ids /\ r[x] \in ids /\ d[x] \in Nat /\ d[p[x]] \in Nat
        BY <1>1, <1>2 DEF Forest
    <3>2. d[ra] = 0 /\ d[rb] = 0
        BY <1>1, <1>2 DEF Forest
    <3>3. /\ s[x] = IF r[x] = ra THEN rb ELSE r[x]
          /\ e[x] = IF r[x] = ra THEN d[x] + 1 ELSE d[x]
          /\ q[x] = IF x = ra THEN rb ELSE p[x]
        BY <1>2
    <3>4. /\ s[p[x]] = IF r[p[x]] = ra THEN rb ELSE r[p[x]]
          /\ e[p[x]] = IF r[p[x]] = ra THEN d[p[x]] + 1 ELSE d[p[x]]
          /\ s[rb] = rb /\ e[rb] = 0
        BY <1>2, <1>5, <3>1, <3>2
    <3>5. q[rb] = rb /\ (r[x] # ra => q[r[x]] = r[x])
        BY <1>2, <1>5, <3>1
    <3> HIDE DEF s, e, q
    <3>6. s[q[x]] = s[x] /\ q[s[x]] = s[x]
        BY <1>2, <3>1, <3>3, <3>4, <3>5
    <3>7. q[x] = x => s[x] = x /\ e[x] = 0
        BY <1>2, <1>5, <3>1, <3>3
    <3>8. q[x] # x => e[q[x]] < e[x]
      <4>1. CASE x = ra
          BY <1>2, <1>5, <3>1, <3>2, <3>3, <3>4, <4>1
      <4>2. CASE x # ra
          BY <3>1, <3>3, <3>4, <4>2
      <4> QED BY <4>1, <4>2
    <3>9. e[x] <= Cardinality(NotRoots(ids, q))
        BY <2>2, <3>1, <3>3
    <3> QED BY <3>6, <3>7, <3>8, <3>9
  <2> HIDE DEF e, q
  <2>5. Forest(ids, q, s, e)
      BY <2>3, <2>4 DEF Forest
  <2>6. \A k \in edges \cup {l} : s[k[1]] = s[k[2]]
    <3> TAKE k \in edges \cup {l}
    <3>1. k[1] \in ids /\ k[2] \in ids
        OBVIOUS
    <3>2. CASE k \in edges
        BY <1>1, <3>1, <3>2
    <3>3. CASE k = l
        BY <1>5, <3>1, <3>3
    <3> QED BY <3>2, <3>3
  <2>7. ASSUME NEW C \in SUBSET ids, Closed(C, edges \cup {l}), NEW x \in ids
        PROVE  x \in C <=> s[x] \in C
    <3>1. Closed(C, edges) /\ (l[1] \in C <=> l[2] \in C)
        BY <2>7 DEF Closed
    <3>2. \A y \in ids : y \in C <=> r[y] \in C
        BY <1>1, <3>1
    <3>3. ra \in C <=> rb \in C
        BY <3>1, <3>2
    <3>4. s[x] = IF r[x] = ra THEN rb ELSE r[x]
        OBVIOUS
    <3> QED BY <3>2, <3>3, <3>4
  <2> HIDE DEF s
  <2>8. Unites(ids, q, edges \cup {l}, s, e)
      BY <2>5, <2>6, <2>7 DEF Unites
  <2> QED BY <1>3, <2>8 DEF United
<1> QED BY <1>4, <1>5

\* ReadEdges unites the ends of every edge that it joins, one after the other.
LEMMA FoldUnites ==
    ASSUME NEW ids, IsFiniteSet(ids), NEW joined, IsFiniteSet(joined),
           \A l \in joined : l[1] \in ids /\ l[2] \in ids
    PROVE  United(ids, FoldSet(LAMBDA l, p : Union(p, l[1], l[2]), [i \in ids |-> i], joined),
                  joined)
<1> DEFINE X == [ids -> ids]
           base == [i \in ids |-> i]
           Op == [e \in joined \X X |-> Union(e[2], e[1][1], e[1][2])]
           Is(iter) == iter = [s \in SUBSET joined |->
                                 IF s = {} THEN base
                                 ELSE Union(iter[s \ {CHOOSE x \in s : TRUE}],
                                            (CHOOSE x \in s : TRUE)[1],
                                            (CHOOSE x \in s : TRUE)[2])]
           found == CHOOSE iter : Is(iter)
<1>1. ASSUME NEW l \in joined, NEW p \in X PROVE Union(p, l[1], l[2]) \in X
  <2>1. PICK up : Climbs(up, ids, p, l[2])
      BY RootIsReached
  <2>2. Root(p, l[2]) \in ids
      BY <2>1, FS_CardinalityType DEF Climbs
  <2> QED BY <2>2 DEF Union
<1>2. base \in X /\ Op \in [joined \X X -> X]
      BY <1>1
<1>0. PICK iter : Folds(iter, joined, X, base, Op)
  <2> HIDE DEF X, base, Op
  <2> QED BY <1>2, FoldIs
<1>3. /\ iter \in [SUBSET joined -> X]
      /\ \A s \in SUBSET joined :
            iter[s] = IF s = {} THEN base ELSE Op[<< AnyOf(s), iter[s \ {AnyOf(s)}] >>]
      BY <1>0 DEF Folds
<1>4. ASSUME NEW s \in SUBSET joined, s # {}
      PROVE  AnyOf(s) \in joined /\ s \ {AnyOf(s)} \in SUBSET joined
      BY <1>4 DEF AnyOf
<1>5. \A s \in SUBSET joined :
         iter[s] = IF s = {} THEN base
                   ELSE Union(iter[s \ {AnyOf(s)}], AnyOf(s)[1], AnyOf(s)[2])
  <2> TAKE s \in SUBSET joined
  <2>1. CASE s = {}
      BY <1>3, <2>1
  <2>2. CASE s # {}
    <3>1. << AnyOf(s), iter[s \ {AnyOf(s)}] >> \in joined \X X
        BY <1>3, <1>4, <2>2
    <3>2. iter[s] = Op[<< AnyOf(s), iter[s \ {AnyOf(s)}] >>]
        BY <1>3, <2>2
    <3> QED BY <2>2, <3>1, <3>2
  <2> QED BY <2>1, <2>2
<1>6. Is(iter)
  <2>1. iter = [s \in SUBSET joined |-> iter[s]]
      BY <1>3
  <2> HIDE DEF base
  <2> QED BY <1>5, <2>1 DEF AnyOf
<1>7. Is(found)
  <2> HIDE DEF Is
  <2> QED BY <1>6, Zenon
<1>8. FoldSet(LAMBDA l, p : Union(p, l[1], l[2]), base, joined) = found[joined]
      BY Zenon DEF FoldSet, MapThenFoldSet
<1> HIDE DEF found
<1>9. \A s \in SUBSET joined :
         found[s] = IF s = {} THEN base
                    ELSE Union(found[s \ {AnyOf(s)}], AnyOf(s)[1], AnyOf(s)[2])
  <2> HIDE DEF base
  <2> QED BY <1>7, Zenon DEF AnyOf
<1> DEFINE Bad == {s \in SUBSET joined : ~ United(ids, found[s], s)}
<1>10. Bad = {}
  <2> SUFFICES ASSUME Bad # {} PROVE FALSE
      OBVIOUS
  <2>0. Bad \in SUBSET (SUBSET joined)
      OBVIOUS
  <2>1. PICK s \in Bad : \A t \in Bad : t \subseteq s => t = s
    <3> HIDE DEF Bad
    <3> QED BY <2>0, SmallestOf
  <2>2. s # {}
      BY <1>9, <2>1, NothingIsUnited
  <2> DEFINE l == AnyOf(s)
             t == s \ {l}
  <2>3. l \in joined /\ l \in s /\ t \in SUBSET joined /\ t # s
      BY <2>1, <2>2 DEF AnyOf
  <2>4. United(ids, found[t], t)
      BY <2>1, <2>3
  <2>5. found[s] = Union(found[t], l[1], l[2])
      BY <1>9, <2>1, <2>2
  <2>6. s = t \cup {l}
      BY <2>3
  <2> HIDE DEF l, t
  <2>7. United(ids, Union(found[t], l[1], l[2]), t \cup {l})
    <3>1. l[1] \in ids /\ l[2] \in ids /\ \A k \in t : k[1] \in ids /\ k[2] \in ids
        BY <2>3
    <3> QED BY <2>4, <3>1, UnionUnites
  <2> QED BY <2>1, <2>5, <2>6, <2>7
<1> QED BY <1>8, <1>10

-----------------------------------------------------------------------------
(* Connected parts *)

\* What is near i after MaxGraphRow steps are the ends of every path from i:
\* it is closed, and lies in every closed set with i.
LEMMA NearIsClosed ==
    ASSUME NEW ids \in SUBSET (1 .. MaxGraphRow), MaxGraphRow \in Nat, NEW joined,
           \A l \in joined : l[1] \in ids /\ l[2] \in ids, NEW i \in ids
    PROVE  \E near : /\ near \in SUBSET ids /\ i \in near /\ Closed(near, joined)
                     /\ \A C \in SUBSET ids : Closed(C, joined) /\ i \in C => near \subseteq C
                     /\ \A j : Connected(joined, i, j) <=> j \in near
<1> DEFINE M == MaxGraphRow
           More(S) == S \cup {l[2] : l \in {k \in joined : k[1] \in S}}
                        \cup {l[1] : l \in {k \in joined : k[2] \in S}}
           Step == [S \in SUBSET ids |-> More(S)]
           near == CHOOSE near : near = [n \in 0 .. M |-> IF n = 0 THEN {i} ELSE More(near[n - 1])]
<1>1. \A S \in SUBSET ids : More(S) \in SUBSET ids /\ S \subseteq More(S)
      OBVIOUS
<1>2. Step \in [SUBSET ids -> SUBSET ids] /\ {i} \in SUBSET ids
      BY <1>1
<1>3. PICK up : Iterated(up, M, {i}, Step)
  <2> HIDE DEF M, Step
  <2> QED BY <1>2, IterationIs DEF M
<1>4. /\ up \in [0 .. M -> SUBSET ids] /\ up[0] = {i}
      /\ \A k \in 1 .. M : up[k] = Step[up[k - 1]]
  <2> HIDE DEF M, Step
  <2> QED BY <1>2, <1>3, IterationSteps DEF M
<1>5. up = [n \in 0 .. M |-> IF n = 0 THEN {i} ELSE More(up[n - 1])]
  <2>1. up = [n \in 0 .. M |-> up[n]]
      BY <1>4
  <2>2. ASSUME NEW n \in 0 .. M PROVE up[n] = IF n = 0 THEN {i} ELSE More(up[n - 1])
    <3> HIDE DEF More
    <3>1. CASE n = 0
        BY <1>4, <3>1
    <3>2. CASE n # 0
      <4>1. n \in 1 .. M /\ n - 1 \in 0 .. M
          BY <3>2
      <4>2. up[n] = Step[up[n - 1]] /\ up[n - 1] \in SUBSET ids
          BY <1>4, <4>1
      <4> QED BY <3>2, <4>2
    <3> QED BY <3>1, <3>2
  <2> HIDE DEF More
  <2> QED BY <2>1, <2>2
<1>6. near = [n \in 0 .. M |-> IF n = 0 THEN {i} ELSE More(near[n - 1])]
  <2> HIDE DEF More
  <2> QED BY <1>5, Zenon
<1>7. \A j : Connected(joined, i, j) <=> j \in near[M]
      BY Zenon DEF Connected
<1> HIDE DEF near
<1>8. near[0] = {i} /\ \A k \in 1 .. M : near[k] = More(near[k - 1])
  <2> HIDE DEF More
  <2>1. \A k \in 0 .. M : near[k] = IF k = 0 THEN {i} ELSE More(near[k - 1])
      BY <1>6, Zenon
  <2> QED BY <2>1
\* What is near is closed, or as many as the steps that led there.
<1> DEFINE Fine(k) == /\ near[k] \in SUBSET ids /\ i \in near[k]
                      /\ Closed(near[k], joined) \/ Cardinality(near[k]) > k
                      /\ \A C \in SUBSET ids : Closed(C, joined) /\ i \in C => near[k] \subseteq C
           Bad == {k \in 0 .. M : ~ Fine(k)}
<1>9. \A S \in SUBSET ids : IsFiniteSet(S) /\ Cardinality(S) \in Nat /\ Cardinality(S) <= M
  <2> TAKE S \in SUBSET ids
  <2>1. IsFiniteSet(1 .. M) /\ Cardinality(1 .. M) = M
      BY FS_Interval
  <2>2. S \in SUBSET (1 .. M)
      OBVIOUS
  <2> HIDE DEF M
  <2> QED BY <2>1, <2>2, FS_Subset, FS_CardinalityType
<1>10. Bad = {}
  <2> SUFFICES ASSUME Bad # {} PROVE FALSE
      OBVIOUS
  <2>0. Bad \in SUBSET Nat
      OBVIOUS
  <2>1. PICK k \in Bad : \A l \in Bad : k <= l
    <3> HIDE DEF Bad
    <3> QED BY <2>0, LeastOf
  <2>2. CASE k = 0
    <3>1. near[0] = {i} /\ Cardinality(near[0]) = 1
        BY <1>8, FS_Singleton
    <3>2. Fine(0)
        BY <3>1
    <3> QED BY <2>1, <2>2, <3>2
  <2>3. CASE k # 0
    <3> DEFINE S == near[k - 1]
    <3>1. k \in 1 .. M /\ k - 1 \in 0 .. M /\ k - 1 \notin Bad
        BY <2>0, <2>1, <2>3
    <3>2. Fine(k - 1) /\ near[k] = More(S)
        BY <1>8, <3>1
    <3>3. near[k] \in SUBSET ids /\ i \in near[k] /\ S \subseteq near[k]
        BY <3>2
    <3>4. ASSUME NEW C \in SUBSET ids, Closed(C, joined), i \in C PROVE near[k] \subseteq C
      <4>1. S \subseteq C
          BY <3>2, <3>4
      <4> QED BY <3>2, <3>4, <4>1 DEF Closed
    <3>5. CASE Closed(S, joined)
      <4>1. near[k] = S
          BY <3>2, <3>5 DEF Closed
      <4> QED BY <2>1, <3>3, <3>4, <3>5, <4>1
    <3>6. CASE ~ Closed(S, joined)
      <4>1. Cardinality(S) > k - 1
          BY <3>2, <3>6
      <4>2. near[k] # S
          BY <3>2, <3>6 DEF Closed
      <4>3. Cardinality(S) < Cardinality(near[k])
        <5> HIDE DEF S, M
        <5>1. IsFiniteSet(near[k]) /\ Cardinality(near[k]) \in Nat /\ Cardinality(S) \in Nat
            BY <1>9, <3>3
        <5>2. Cardinality(S) <= Cardinality(near[k]) /\ Cardinality(S) # Cardinality(near[k])
            BY <3>3, <4>2, <5>1, FS_Subset
        <5> QED BY <5>1, <5>2
      <4>4. Cardinality(near[k]) > k
          BY <1>9, <3>1, <3>3, <4>1, <4>3
      <4> QED BY <2>1, <3>3, <3>4, <4>4
    <3> QED BY <3>5, <3>6
  <2> QED BY <2>2, <2>3
<1>11. Fine(M)
      BY <1>10
<1>12. Closed(near[M], joined)
      BY <1>9, <1>11
<1> QED BY <1>7, <1>11, <1>12

\* Two nodes have one root exactly when a path of edges leads from one to the
\* other.
LEMMA RootsAreParts ==
    ASSUME NEW ids \in SUBSET (1 .. MaxGraphRow), MaxGraphRow \in Nat, NEW joined,
           \A l \in joined : l[1] \in ids /\ l[2] \in ids, NEW p, United(ids, p, joined)
    PROVE  \A i, j \in ids : Root(p, i) = Root(p, j) <=> Connected(joined, i, j)
<1>0. IsFiniteSet(ids)
  <2>1. IsFiniteSet(1 .. MaxGraphRow)
      BY FS_Interval
  <2> QED BY <2>1, FS_Subset
<1>1. PICK r, d : Unites(ids, p, joined, r, d)
      BY DEF United
<1>2. /\ Forest(ids, p, r, d) /\ r \in [ids -> ids]
      /\ \A l \in joined : r[l[1]] = r[l[2]]
      /\ \A C \in SUBSET ids : Closed(C, joined) => \A x \in ids : x \in C <=> r[x] \in C
      BY <1>1 DEF Unites, Forest
<1>3. \A x \in ids : Root(p, x) = r[x]
      BY <1>0, <1>2, RootIsFound
<1> SUFFICES ASSUME NEW i \in ids, NEW j \in ids
             PROVE  r[i] = r[j] <=> Connected(joined, i, j)
      BY <1>3
<1>4. PICK near : /\ near \in SUBSET ids /\ i \in near /\ Closed(near, joined)
                  /\ \A C \in SUBSET ids : Closed(C, joined) /\ i \in C => near \subseteq C
                  /\ \A x : Connected(joined, i, x) <=> x \in near
      BY NearIsClosed
<1>5. ASSUME r[i] = r[j] PROVE j \in near
      BY <1>2, <1>4, <1>5
<1>6. ASSUME j \in near PROVE r[i] = r[j]
  <2> DEFINE C == {x \in ids : r[x] = r[i]}
  <2>1. Closed(C, joined)
      BY <1>2 DEF Closed
  <2> QED BY <1>4, <1>6, <2>1
<1> QED BY <1>4, <1>5, <1>6

-----------------------------------------------------------------------------
(* The counts *)

Namers(e) == {m \in named : m[2] = e}
Meeting(p) == {i \in DOMAIN held : \A e \in p : << i, e >> \in named}

RowsAreBounded == DOMAIN held \subseteq 1 .. MaxGraphRow
NamedIsHeld == named \subseteq (DOMAIN held) \X (DOMAIN mentions)
EntitiesTyped == /\ DOMAIN mentions \subseteq GraphBank \X Name
                 /\ \A e \in DOMAIN mentions : mentions[e] \in Nat
PairsTyped == \A p \in DOMAIN together :
                 /\ p \in SUBSET (GraphBank \X Name)
                 /\ IsFiniteSet(p) /\ Cardinality(p) = 2 /\ together[p] \in Nat

\* Two entities that one node names are counted as a pair.
MetIsCounted == \A i \in DOMAIN held : \A e, f \in DOMAIN mentions :
                   << i, e >> \in named /\ << i, f >> \in named /\ e # f
                   => {e, f} \in DOMAIN together
LinksTyped == links \subseteq (1 .. MaxGraphRow) \X (1 .. MaxGraphRow)
                              \X {"caused_by", "temporal", "semantic"}

TablesSound == /\ RowsAreBounded /\ NamedIsHeld /\ EntitiesTyped /\ PairsTyped
               /\ MetIsCounted /\ LinksTyped /\ CountsCover

\* The rows of the chunk are rows, which nothing names before write_entities.
WriteSound ==
    /\ write.pc \in {"resolve", "entities"} =>
          /\ write.bank \in GraphBank /\ write.ids \subseteq 1 .. MaxGraphRow
          /\ \A m \in named : m[1] \notin write.ids
    /\ write.pc = "entities" => write.names \in [write.ids -> [Name -> Nat]]

AnatomySound == /\ anatomy.pc = "edges" => anatomy.ids \subseteq 1 .. MaxGraphRow
                /\ ComponentsAreParts

\* The bound is a number.
LEMMA BoundIsNat == MaxGraphRow \in Nat
BY LinkGraphAssumption

\* What is part of what is counted is not more.
LEMMA FewerOf ==
    ASSUME NEW B, IsFiniteSet(B), NEW A \in SUBSET B, NEW n \in Nat, Cardinality(B) <= n
    PROVE  Cardinality(A) <= n
<1>1. IsFiniteSet(A) /\ Cardinality(A) <= Cardinality(B)
      BY FS_Subset
<1>2. Cardinality(A) \in Nat /\ Cardinality(B) \in Nat
      BY <1>1, FS_CardinalityType
<1> QED BY <1>1, <1>2

\* Rows are finitely many.
LEMMA RowsAreFinite ==
    ASSUME NEW S, S \subseteq 1 .. MaxGraphRow
    PROVE  IsFiniteSet(S) /\ Cardinality(S) \in Nat
<1>1. IsFiniteSet(1 .. MaxGraphRow)
      BY BoundIsNat, FS_Interval
<1> QED BY <1>1, FS_Subset, FS_CardinalityType

\* What is counted is finite.
LEMMA CountsAreFinite ==
    ASSUME RowsAreBounded, NamedIsHeld
    PROVE  /\ \A e : IsFiniteSet(Namers(e)) /\ Cardinality(Namers(e)) \in Nat
           /\ \A p : IsFiniteSet(Meeting(p)) /\ Cardinality(Meeting(p)) \in Nat
<1>1. IsFiniteSet(DOMAIN held)
      BY RowsAreFinite DEF RowsAreBounded
<1>2. ASSUME NEW e PROVE IsFiniteSet(Namers(e)) /\ Cardinality(Namers(e)) \in Nat
  <2>1. IsFiniteSet({e})
      BY FS_Singleton
  <2>2. IsFiniteSet((DOMAIN held) \X {e})
      BY <1>1, <2>1, FS_Product
  <2>3. \A m \in named : m = << m[1], m[2] >> /\ m[1] \in DOMAIN held
      BY DEF NamedIsHeld
  <2>4. Namers(e) \subseteq (DOMAIN held) \X {e}
      BY <2>3 DEF Namers
  <2> QED BY <2>2, <2>4, FS_Subset, FS_CardinalityType
<1>3. ASSUME NEW p PROVE IsFiniteSet(Meeting(p)) /\ Cardinality(Meeting(p)) \in Nat
  <2>1. Meeting(p) \subseteq DOMAIN held
      BY DEF Meeting
  <2> QED BY <1>1, <2>1, FS_Subset, FS_CardinalityType
<1> QED BY <1>2, <1>3

\* Two that differ are a set of two.
LEMMA TwoAreTwo ==
    ASSUME NEW e, NEW f, e # f
    PROVE  Cardinality({e, f}) = 2
<1>1. IsFiniteSet({e}) /\ Cardinality({e}) = 1 /\ f \notin {e}
      BY FS_Singleton
<1>2. Cardinality({e} \cup {f}) = 1 + 1
      BY <1>1, FS_AddElement
<1>3. {e} \cup {f} = {e, f}
      OBVIOUS
<1> QED BY <1>2, <1>3

\* A name is counted at least once for each fact that it is kept for.
LEMMA OccurrencesCover ==
    ASSUME IsFiniteSet(write.ids), write.names \in [write.ids -> [Name -> Nat]],
           NEW n \in Name
    PROVE  LET e == << write.bank, n >> IN
           /\ Occurrences(e) \in Nat
           /\ Cardinality({i \in write.ids : e \in NamesOf(i)}) <= Occurrences(e)
<1> DEFINE ids == write.ids
           e == << write.bank, n >>
           many(i) == write.names[i][n]
           Op == [a \in ids \X Nat |-> many(a[1]) + a[2]]
           Is(iter) == iter = [s \in SUBSET ids |->
                                 IF s = {} THEN 0
                                 ELSE write.names[CHOOSE x \in s : TRUE][e[2]]
                                      + iter[s \ {CHOOSE x \in s : TRUE}]]
           found == CHOOSE iter : Is(iter)
<1>1. \A i \in ids : many(i) \in Nat
      OBVIOUS
<1>2. Op \in [ids \X Nat -> Nat]
      BY <1>1
<1>3. PICK iter : Folds(iter, ids, Nat, 0, Op)
  <2> HIDE DEF Op
  <2> QED BY <1>2, FoldIs
<1>4. /\ iter \in [SUBSET ids -> Nat]
      /\ \A s \in SUBSET ids :
            iter[s] = IF s = {} THEN 0 ELSE Op[<< AnyOf(s), iter[s \ {AnyOf(s)}] >>]
      BY <1>3 DEF Folds
<1>5. ASSUME NEW s \in SUBSET ids, s # {}
      PROVE  AnyOf(s) \in ids /\ AnyOf(s) \in s /\ s \ {AnyOf(s)} \in SUBSET ids
      BY <1>5 DEF AnyOf
<1>6. \A s \in SUBSET ids :
         iter[s] = IF s = {} THEN 0 ELSE many(AnyOf(s)) + iter[s \ {AnyOf(s)}]
  <2> TAKE s \in SUBSET ids
  <2>1. CASE s = {}
      BY <1>4, <2>1
  <2>2. CASE s # {}
    <3>1. << AnyOf(s), iter[s \ {AnyOf(s)}] >> \in ids \X Nat
        BY <1>4, <1>5, <2>2
    <3> QED BY <1>4, <2>2, <3>1
  <2> QED BY <2>1, <2>2
<1>7. Is(iter)
  <2>1. iter = [s \in SUBSET ids |-> iter[s]]
      BY <1>4
  <2>2. e[2] = n
      OBVIOUS
  <2> HIDE DEF e
  <2> QED BY <1>6, <2>1, <2>2 DEF AnyOf
<1>8. Is(found)
  <2> HIDE DEF Is
  <2> QED BY <1>7, Zenon
<1>9. Occurrences(e) = found[ids]
  <2> HIDE DEF e
  <2> QED BY Zenon DEF Occurrences, MapThenSumSet, MapThenFoldSet
<1> HIDE DEF found
<1>10. \A s \in SUBSET ids :
          found[s] = IF s = {} THEN 0 ELSE many(AnyOf(s)) + found[s \ {AnyOf(s)}]
  <2>1. e[2] = n
      OBVIOUS
  <2>2. \A s \in SUBSET ids :
          found[s] = IF s = {} THEN 0
                     ELSE write.names[AnyOf(s)][e[2]] + found[s \ {AnyOf(s)}]
    <3> HIDE DEF e
    <3> QED BY <1>8, Zenon DEF AnyOf
  <2> QED BY <2>1, <2>2
<1> DEFINE In(s) == {i \in s : many(i) > 0}
           Bad == {s \in SUBSET ids : ~ (found[s] \in Nat /\ Cardinality(In(s)) <= found[s])}
<1>11. Bad = {}
  <2> SUFFICES ASSUME Bad # {} PROVE FALSE
      OBVIOUS
  <2>0. Bad \in SUBSET (SUBSET ids)
      OBVIOUS
  <2>1. PICK s \in Bad : \A t \in Bad : t \subseteq s => t = s
    <3> HIDE DEF Bad
    <3> QED BY <2>0, SmallestOf
  <2>2. CASE s = {}
    <3>1. In(s) = {} /\ found[s] = 0
        BY <1>10, <2>2
    <3>2. Cardinality(In(s)) <= found[s]
      <4> HIDE DEF In
      <4> QED BY <3>1, FS_EmptySet
    <3> QED BY <2>1, <3>1, <3>2
  <2>3. CASE s # {}
    <3> DEFINE i == AnyOf(s)
               t == s \ {i}
    <3>1. i \in ids /\ i \in s /\ t \in SUBSET ids /\ t # s /\ found[s] = many(i) + found[t]
        BY <1>5, <1>10, <2>1, <2>3
    <3>2. found[t] \in Nat /\ Cardinality(In(t)) <= found[t]
        BY <2>1, <3>1
    <3>3. In(s) = In(t) \cup (IF many(i) > 0 THEN {i} ELSE {}) /\ i \notin In(t)
        BY <3>1
    <3>4. IsFiniteSet(In(t)) /\ Cardinality(In(t)) \in Nat
        BY <3>1, FS_Subset, FS_CardinalityType
    <3>5. many(i) \in Nat
        BY <1>1, <3>1
    <3> HIDE DEF i, t, In, many
    <3>6. CASE many(i) > 0
      <4>1. Cardinality(In(s)) = Cardinality(In(t)) + 1
          BY <3>3, <3>4, <3>6, FS_AddElement
      <4> QED BY <2>1, <3>1, <3>2, <3>4, <3>5, <3>6, <4>1
    <3>7. CASE ~ many(i) > 0
      <4>1. In(s) = In(t)
          BY <3>3, <3>7
      <4> QED BY <2>1, <3>1, <3>2, <3>4, <3>5, <3>7, <4>1
    <3> QED BY <3>6, <3>7
  <2> QED BY <2>2, <2>3
<1>12. In(ids) = {i \in ids : e \in NamesOf(i)}
      BY DEF NamesOf
<1>13. found[ids] \in Nat /\ Cardinality(In(ids)) <= found[ids]
      BY <1>11
<1> QED BY <1>9, <1>12, <1>13

-----------------------------------------------------------------------------
(* New rows *)

\* The next rowid is above every row.
LEMMA NextIsNew ==
    ASSUME RowsAreBounded
    PROVE  NextRowid \in Nat \ {0} /\ \A i \in DOMAIN held : i < NextRowid
<1> DEFINE S == {0} \cup DOMAIN held
           Above == {n \in Nat : \A y \in S : y <= n}
<1>1. S \subseteq Nat /\ 0 \in S
      BY DEF RowsAreBounded
<1>2. MaxGraphRow \in Above
      BY BoundIsNat DEF RowsAreBounded
<1>3. PICK m \in Above : \A n \in Above : m <= n
  <2>1. Above \in SUBSET Nat /\ Above # {}
      BY <1>2
  <2> HIDE DEF Above
  <2> QED BY <2>1, LeastOf
<1>4. m \in S
  <2> SUFFICES ASSUME m \notin S PROVE FALSE
      OBVIOUS
  <2>1. m \in Nat /\ m # 0 /\ \A y \in S : y <= m /\ y # m
      BY <1>1, <1>3
  <2>2. m - 1 \in Above
      BY <1>1, <2>1
  <2> QED BY <1>3, <2>1, <2>2
<1>5. m \in S /\ \A y \in S : m >= y
      BY <1>1, <1>3, <1>4
<1> HIDE DEF S
<1>6. Max(S) \in S /\ \A y \in S : Max(S) >= y
      BY <1>5, Zenon DEF Max
<1>7. NextRowid = 1 + Max(S)
      BY DEF NextRowid, S
<1> HIDE DEF NextRowid
<1> QED BY <1>1, <1>6, <1>7 DEF S

\* Rows that nothing names change no count.
LEMMA NewRowsCountNothing ==
    ASSUME TablesSound, UNCHANGED << mentions, named, together, links >>,
           DOMAIN held \subseteq (DOMAIN held)', (DOMAIN held)' \subseteq 1 .. MaxGraphRow
    PROVE  TablesSound'
<1>1. \A m \in named : m[1] \in DOMAIN held /\ m[2] \in DOMAIN mentions /\ m = << m[1], m[2] >>
      BY DEF TablesSound, NamedIsHeld
<1>2. \A p \in DOMAIN together : Meeting(p)' = Meeting(p)
  <2> TAKE p \in DOMAIN together
  <2>1. PICK e : e \in p
    <3>1. Cardinality(p) = 2
        BY DEF TablesSound, PairsTyped
    <3>2. p # {}
        BY <3>1, FS_EmptySet
    <3> QED BY <3>2
  <2>2. \A i : << i, e >> \in named => i \in DOMAIN held
      BY <1>1
  <2> QED BY <2>1, <2>2 DEF Meeting
<1>3. RowsAreBounded' /\ EntitiesTyped' /\ PairsTyped' /\ LinksTyped'
      BY DEF TablesSound, RowsAreBounded, EntitiesTyped, PairsTyped, LinksTyped
<1>4. NamedIsHeld'
      BY DEF TablesSound, NamedIsHeld
<1>5. MetIsCounted'
  <2> SUFFICES ASSUME NEW i, NEW e \in DOMAIN mentions, NEW f \in DOMAIN mentions,
                      << i, e >> \in named, << i, f >> \in named, e # f
               PROVE  {e, f} \in DOMAIN together
      BY DEF MetIsCounted
  <2>1. i \in DOMAIN held
      BY <1>1
  <2> QED BY <2>1 DEF TablesSound, MetIsCounted
<1>6. CountsCover'
  <2>1. CountsCover
      BY DEF TablesSound
  <2> QED BY <1>2, <2>1 DEF CountsCover, Meeting
<1> QED BY <1>3, <1>4, <1>5, <1>6 DEF TablesSound

LEMMA InsertKeepsTables ==
    ASSUME TablesSound, InsertChunk
    PROVE  /\ TablesSound'
           /\ write'.pc = "resolve" /\ write'.bank \in GraphBank
           /\ write'.ids \subseteq 1 .. MaxGraphRow /\ \A m \in named : m[1] \notin write'.ids
<1>1. PICK b \in GraphBank, n \in 1 .. ChunkFacts :
         LET ids == NextRowid .. NextRowid + n - 1 IN
         /\ NextRowid + n - 1 <= MaxGraphRow
         /\ held' = [i \in DOMAIN held \cup ids |->
                       IF i \in ids THEN [bank |-> b, kind |-> "fact"] ELSE held[i]]
         /\ write' = [pc |-> "resolve", bank |-> b, ids |-> ids]
      BY DEF InsertChunk
<1> DEFINE ids == NextRowid .. NextRowid + n - 1
<1>2. NextRowid \in Nat \ {0} /\ \A i \in DOMAIN held : i < NextRowid
      BY NextIsNew DEF TablesSound
<1>3. n \in Nat /\ MaxGraphRow \in Nat
      BY BoundIsNat, LinkGraphAssumption
<1>4. ids \subseteq 1 .. MaxGraphRow /\ DOMAIN held \cap ids = {}
  <2>1. NextRowid + n - 1 <= MaxGraphRow
      BY <1>1
  <2> HIDE DEF NextRowid
  <2> QED BY <1>2, <1>3, <2>1 DEF TablesSound, RowsAreBounded
<1> HIDE DEF ids
<1>5. (DOMAIN held)' = DOMAIN held \cup ids
      BY <1>1 DEF ids
<1>6. TablesSound'
  <2>1. UNCHANGED << mentions, named, together, links >>
      BY DEF InsertChunk
  <2>2. DOMAIN held \subseteq 1 .. MaxGraphRow
      BY DEF TablesSound, RowsAreBounded
  <2> QED BY <1>4, <1>5, <2>1, <2>2, NewRowsCountNothing
<1>7. write'.pc = "resolve" /\ write'.bank = b /\ write'.ids = ids
      BY <1>1 DEF ids
<1>8. \A m \in named : m[1] \in DOMAIN held
      BY DEF TablesSound, NamedIsHeld
<1> QED BY <1>4, <1>6, <1>7, <1>8

LEMMA ObservationKeepsTables ==
    ASSUME TablesSound, AddObservation
    PROVE  TablesSound'
<1>1. NextRowid \in Nat \ {0} /\ NextRowid <= MaxGraphRow
      BY NextIsNew DEF TablesSound, AddObservation
<1>2. (DOMAIN held)' = DOMAIN held \cup {NextRowid}
      BY DEF AddObservation
<1>3. UNCHANGED << mentions, named, together, links >>
      BY DEF AddObservation
<1> HIDE DEF NextRowid
<1>4. (DOMAIN held)' \subseteq 1 .. MaxGraphRow
      BY <1>1, <1>2, BoundIsNat DEF TablesSound, RowsAreBounded
<1> QED BY <1>2, <1>3, <1>4, NewRowsCountNothing

-----------------------------------------------------------------------------
(* Rows and banks that go *)

\* What a cascade leaves is counted by the counts that stay; those that go
\* are those of the entities that go.
LEMMA CascadeKeepsTables ==
    ASSUME TablesSound, NEW ids, NEW entities, Cascade(ids, entities),
           DOMAIN mentions' = {e \in DOMAIN mentions : e \notin entities},
           \A e \in DOMAIN mentions' : mentions'[e] = mentions[e],
           DOMAIN together' = {p \in DOMAIN together : \A e \in p : e \notin entities},
           \A p \in DOMAIN together' : together'[p] = together[p]
    PROVE  TablesSound'
<1>1. /\ (DOMAIN held)' = DOMAIN held \ ids
      /\ named' = {m \in named : m[1] \notin ids /\ m[2] \notin entities}
      /\ links' \subseteq links
      BY DEF Cascade
<1>2. /\ DOMAIN mentions' = {e \in DOMAIN mentions : e \notin entities}
      /\ \A e \in DOMAIN mentions' : mentions'[e] = mentions[e]
      /\ DOMAIN together' = {p \in DOMAIN together : \A e \in p : e \notin entities}
      /\ \A p \in DOMAIN together' : together'[p] = together[p]
      OBVIOUS
<1>3. \A m \in named : m[1] \in DOMAIN held /\ m[2] \in DOMAIN mentions /\ m = << m[1], m[2] >>
      BY DEF TablesSound, NamedIsHeld
<1>5. RowsAreBounded' /\ EntitiesTyped' /\ PairsTyped' /\ LinksTyped'
  <2>1. RowsAreBounded' /\ LinksTyped'
      BY <1>1 DEF TablesSound, RowsAreBounded, LinksTyped
  <2>2. EntitiesTyped' /\ PairsTyped'
      BY <1>2 DEF TablesSound, EntitiesTyped, PairsTyped
  <2> QED BY <2>1, <2>2
<1>6. NamedIsHeld'
  <2>1. ASSUME NEW m \in named' PROVE m \in (DOMAIN held)' \X (DOMAIN mentions)'
    <3>1. /\ m[1] \in DOMAIN held /\ m[2] \in DOMAIN mentions /\ m = << m[1], m[2] >>
          /\ m[1] \notin ids /\ m[2] \notin entities
        BY <1>1, <1>3
    <3> QED BY <1>1, <1>2, <3>1
  <2> QED BY <2>1 DEF NamedIsHeld
<1>7. MetIsCounted'
  <2> SUFFICES ASSUME NEW i \in (DOMAIN held)', NEW e \in (DOMAIN mentions)',
                      NEW f \in (DOMAIN mentions)',
                      << i, e >> \in named', << i, f >> \in named', e # f
               PROVE  {e, f} \in (DOMAIN together)'
      BY DEF MetIsCounted
  <2>1. {e, f} \in DOMAIN together
      BY <1>1, <1>2 DEF TablesSound, MetIsCounted
  <2> QED BY <1>2, <2>1
<1>8. CountsCover'
  <2>0. CountsCover /\ RowsAreBounded /\ NamedIsHeld /\ EntitiesTyped /\ PairsTyped
      BY DEF TablesSound
  <2>1. ASSUME NEW e \in DOMAIN mentions' PROVE Cardinality(Namers(e)') <= mentions'[e]
    <3>1. Namers(e)' \in SUBSET Namers(e)
        BY <1>1 DEF Namers
    <3>2. e \in DOMAIN mentions /\ mentions'[e] = mentions[e] /\ mentions[e] \in Nat
        BY <1>2, <2>0 DEF EntitiesTyped
    <3>3. IsFiniteSet(Namers(e)) /\ Cardinality(Namers(e)) <= mentions[e]
        BY <2>0, <3>2, CountsAreFinite DEF CountsCover, Namers
    <3> QED BY <3>1, <3>2, <3>3, FewerOf
  <2>2. ASSUME NEW p \in DOMAIN together' PROVE Cardinality(Meeting(p)') <= together'[p]
    <3>1. Meeting(p)' \in SUBSET Meeting(p)
        BY <1>1 DEF Meeting
    <3>2. p \in DOMAIN together /\ together'[p] = together[p] /\ together[p] \in Nat
        BY <1>2, <2>0 DEF PairsTyped
    <3>3. IsFiniteSet(Meeting(p)) /\ Cardinality(Meeting(p)) <= together[p]
        BY <2>0, <3>2, CountsAreFinite DEF CountsCover, Meeting
    <3> QED BY <3>1, <3>2, <3>3, FewerOf
  <2>3. \A m \in named' : m[2] \in DOMAIN mentions'
      BY <1>6 DEF NamedIsHeld
  <2> QED BY <2>1, <2>2, <2>3 DEF CountsCover, Namers, Meeting
<1> QED BY <1>5, <1>6, <1>7, <1>8 DEF TablesSound

LEMMA DeletesKeepTables ==
    ASSUME TablesSound, DeleteObservation \/ DeleteBank
    PROVE  TablesSound' /\ named' \subseteq named
<1>0. \A ids, entities : Cascade(ids, entities) => named' \subseteq named
      BY DEF Cascade
<1>1. CASE DeleteObservation
  <2>1. PICK i \in DOMAIN held : Cascade({i}, {})
      BY <1>1 DEF DeleteObservation
  <2>2. mentions' = mentions /\ together' = together
      BY <1>1 DEF DeleteObservation
  <2>3. TablesSound'
      BY <2>1, <2>2, CascadeKeepsTables
  <2> QED BY <1>0, <2>1, <2>3
<1>2. CASE DeleteBank
  <2>1. PICK b \in GraphBank :
          /\ Cascade(HeldBy(b), {b} \X Name)
          /\ mentions' = [e \in {x \in DOMAIN mentions : x[1] # b} |-> mentions[e]]
          /\ together' = [p \in {x \in DOMAIN together : \A e \in x : e[1] # b} |-> together[p]]
      BY <1>2 DEF DeleteBank
  <2> DEFINE entities == {b} \X Name
  <2>2. \A e \in GraphBank \X Name : e[1] # b <=> e \notin entities
      OBVIOUS
  <2> HIDE DEF entities
  <2>3. DOMAIN mentions' = {e \in DOMAIN mentions : e \notin entities}
    <3>1. DOMAIN mentions \subseteq GraphBank \X Name
        BY DEF TablesSound, EntitiesTyped
    <3> QED BY <2>1, <2>2, <3>1
  <2>4. DOMAIN together' = {p \in DOMAIN together : \A e \in p : e \notin entities}
    <3>1. \A p \in DOMAIN together : p \in SUBSET (GraphBank \X Name)
        BY DEF TablesSound, PairsTyped
    <3> QED BY <2>1, <2>2, <3>1
  <2>5. /\ \A e \in DOMAIN mentions' : mentions'[e] = mentions[e]
        /\ \A p \in DOMAIN together' : together'[p] = together[p]
      BY <2>1
  <2>6. Cascade(HeldBy(b), entities)
      BY <2>1 DEF entities
  <2>7. TablesSound'
      BY <2>3, <2>4, <2>5, <2>6, CascadeKeepsTables
  <2> QED BY <1>0, <2>6, <2>7
<1> QED BY <1>1, <1>2

-----------------------------------------------------------------------------
(* The writes of the graph *)

\* Links are written when both their ends are there.
LEMMA LinkedIsTyped ==
    ASSUME TablesSound, NEW batch, links' = Linked(batch),
           \A l \in batch : /\ l = << l[1], l[2], l[3] >>
                            /\ l[3] \in {"caused_by", "temporal", "semantic"},
           UNCHANGED << held, mentions, named, together >>
    PROVE  TablesSound'
<1>1. LinksTyped'
  <2>1. CASE links' = links
      BY <2>1 DEF TablesSound, LinksTyped
  <2>2. CASE links' # links
    <3>1. /\ links' = links \cup batch
          /\ {l[1] : l \in batch} \cup {l[2] : l \in batch} \subseteq DOMAIN held
        BY <2>2 DEF Linked
    <3>2. \A l \in batch : l[1] \in 1 .. MaxGraphRow /\ l[2] \in 1 .. MaxGraphRow
        BY <3>1 DEF TablesSound, RowsAreBounded
    <3>3. ASSUME NEW l \in batch
          PROVE  l \in (1 .. MaxGraphRow) \X (1 .. MaxGraphRow)
                       \X {"caused_by", "temporal", "semantic"}
      <4>1. /\ l[1] \in 1 .. MaxGraphRow /\ l[2] \in 1 .. MaxGraphRow
            /\ l[3] \in {"caused_by", "temporal", "semantic"} /\ l = << l[1], l[2], l[3] >>
          BY <3>2
      <4> QED BY <4>1
    <3>4. links \subseteq (1 .. MaxGraphRow) \X (1 .. MaxGraphRow)
                          \X {"caused_by", "temporal", "semantic"}
        BY DEF TablesSound, LinksTyped
    <3> QED BY <3>1, <3>3, <3>4 DEF LinksTyped
  <2> QED BY <2>1, <2>2
<1>2. RowsAreBounded' /\ NamedIsHeld' /\ EntitiesTyped' /\ PairsTyped' /\ MetIsCounted'
      BY DEF TablesSound, RowsAreBounded, NamedIsHeld, EntitiesTyped, PairsTyped, MetIsCounted
<1>3. CountsCover'
      BY DEF TablesSound, CountsCover
<1> QED BY <1>1, <1>2, <1>3 DEF TablesSound

LEMMA LinksKeepTables ==
    ASSUME TablesSound, LinkChunk \/ \E l \in Linker : WriteLinks(l)
    PROVE  TablesSound'
<1>1. CASE LinkChunk
  <2>1. PICK causal \in SUBSET (write.ids \X write.ids) :
          links' = Linked({<< l[1], l[2], "caused_by" >> : l \in {c \in causal : c[1] # c[2]}}
                          \cup {<< l[1], l[2], "temporal" >> :
                                  l \in {n \in write.ids \X write.near : n[1] # n[2]}})
      BY <1>1 DEF LinkChunk
  <2> DEFINE batch == {<< l[1], l[2], "caused_by" >> : l \in {c \in causal : c[1] # c[2]}}
                      \cup {<< l[1], l[2], "temporal" >> :
                              l \in {n \in write.ids \X write.near : n[1] # n[2]}}
  <2>2. \A l \in batch : /\ l = << l[1], l[2], l[3] >>
                         /\ l[3] \in {"caused_by", "temporal", "semantic"}
      OBVIOUS
  <2>3. links' = Linked(batch)
      BY <2>1
  <2>4. UNCHANGED << held, mentions, named, together >>
      BY <1>1 DEF LinkChunk
  <2> HIDE DEF batch
  <2> QED BY <2>2, <2>3, <2>4, LinkedIsTyped
<1>2. ASSUME NEW k \in Linker, WriteLinks(k) PROVE TablesSound'
  <2> DEFINE batch == {<< linking[k].id, j, "semantic" >> :
                          j \in Alike(linking[k].id, linking[k].kinds)}
  <2>1. \A l \in batch : /\ l = << l[1], l[2], l[3] >>
                         /\ l[3] \in {"caused_by", "temporal", "semantic"}
      OBVIOUS
  <2>2. links' = Linked(batch)
      BY <1>2 DEF WriteLinks
  <2>3. UNCHANGED << held, mentions, named, together >>
      BY <1>2 DEF WriteLinks
  <2> HIDE DEF batch
  <2> QED BY <2>1, <2>2, <2>3, LinkedIsTyped
<1> QED BY <1>1, <1>2

\* The entities of a chunk are counted with the nodes that name them, and the
\* pairs with the nodes that name both.
LEMMA EntitiesKeepTables ==
    ASSUME TablesSound, WriteSound, WriteEntities
    PROVE  TablesSound'
<1> DEFINE ids == write.ids
           of == UNION {NamesOf(i) : i \in ids}
           pairs == UNION {kSubset(2, NamesOf(i)) : i \in ids}
<1>1. /\ write.bank \in GraphBank /\ ids \subseteq 1 .. MaxGraphRow
      /\ \A m \in named : m[1] \notin ids
      /\ write.names \in [ids -> [Name -> Nat]]
      BY DEF WriteSound, WriteEntities
<1>2. /\ RowsAreBounded /\ NamedIsHeld /\ EntitiesTyped /\ PairsTyped /\ MetIsCounted
      /\ LinksTyped /\ CountsCover
      BY DEF TablesSound
<1>3. \A i \in ids : NamesOf(i) \subseteq {write.bank} \X Name
      BY DEF NamesOf
<1>4. /\ DOMAIN mentions' = DOMAIN mentions \cup of
      /\ \A e \in DOMAIN mentions' :
            mentions'[e] = IF e \in of
                           THEN Occurrences(e) + (IF e \in DOMAIN mentions THEN mentions[e] ELSE 0)
                           ELSE mentions[e]
      BY DEF WriteEntities, Upserted, Added
<1>5. /\ DOMAIN together' = DOMAIN together \cup pairs
      /\ \A p \in DOMAIN together' :
            together'[p] = IF p \in pairs
                           THEN SharedBy(p) + (IF p \in DOMAIN together THEN together[p] ELSE 0)
                           ELSE together[p]
      BY DEF WriteEntities, Upserted, Added
<1>6. named' = named \cup UNION {{i} \X NamesOf(i) : i \in ids} /\ held' = held /\ links' = links
      BY DEF WriteEntities
<1>7. \A i \in ids : NamesOf(i) # {} => i \in DOMAIN held
      BY DEF WriteEntities, Mentioning
<1>8. IsFiniteSet(ids)
      BY <1>1, RowsAreFinite
<1>9. ASSUME NEW e \in of
      PROVE  /\ e \in GraphBank \X Name /\ Occurrences(e) \in Nat
             /\ Cardinality({i \in ids : e \in NamesOf(i)}) <= Occurrences(e)
  <2>1. PICK n \in Name : e = << write.bank, n >>
      BY <1>3
  <2> QED BY <1>1, <1>8, <2>1, OccurrencesCover
<1>10. ASSUME NEW p \in pairs
       PROVE  /\ p \in SUBSET (GraphBank \X Name) /\ Cardinality(p) = 2
              /\ IsFiniteSet(p) /\ SharedBy(p) \in Nat
  <2>1. PICK i \in ids : p \in SUBSET NamesOf(i) /\ Cardinality(p) = 2
      BY DEF kSubset
  <2>2. p \in SUBSET (GraphBank \X Name)
      BY <1>1, <1>3, <2>1
  <2>3. SharedBy(p) \in Nat
      BY <1>8, FS_Subset, FS_CardinalityType DEF SharedBy
  <2>4. IsFiniteSet(p)
    <3>1. IsFiniteSet({write.bank})
        BY FS_Singleton
    <3>2. IsFiniteSet({write.bank} \X Name)
        BY <3>1, LinkGraphAssumption, FS_Product
    <3>3. p \in SUBSET ({write.bank} \X Name)
        BY <1>3, <2>1
    <3> QED BY <3>2, <3>3, FS_Subset
  <2> QED BY <2>1, <2>2, <2>3, <2>4
<1>11. \A i, e : << i, e >> \in named' <=> << i, e >> \in named \/ (i \in ids /\ e \in NamesOf(i))
  <2> HIDE DEF ids
  <2> QED BY <1>6
<1>12. \A m \in named' : m = << m[1], m[2] >>
      BY <1>2, <1>6 DEF NamedIsHeld
<1> HIDE DEF ids, of, pairs
<1>13. \A i \in ids : NamesOf(i) \subseteq of
      BY DEF of
<1>14. RowsAreBounded' /\ LinksTyped'
      BY <1>2, <1>6 DEF RowsAreBounded, LinksTyped
<1>15. EntitiesTyped'
  <2>1. \A e \in of : e \in GraphBank \X Name /\ Occurrences(e) \in Nat
      BY <1>9
  <2>2. DOMAIN mentions \subseteq GraphBank \X Name /\ \A e \in DOMAIN mentions : mentions[e] \in Nat
      BY <1>2 DEF EntitiesTyped
  <2>3. ASSUME NEW e \in DOMAIN mentions' PROVE mentions'[e] \in Nat
    <3>1. CASE e \in of
        BY <1>4, <2>1, <2>2, <2>3, <3>1
    <3>2. CASE e \notin of
        BY <1>4, <2>2, <2>3, <3>2
    <3> QED BY <3>1, <3>2
  <2>4. DOMAIN mentions' \subseteq GraphBank \X Name
      BY <1>4, <2>1, <2>2
  <2> QED BY <2>3, <2>4 DEF EntitiesTyped
<1>16. PairsTyped'
      BY <1>2, <1>5, <1>10 DEF PairsTyped
<1>17. NamedIsHeld'
  <2>1. ASSUME NEW i, NEW e, << i, e >> \in named'
        PROVE  i \in (DOMAIN held)' /\ e \in (DOMAIN mentions)'
    <3>1. CASE << i, e >> \in named
        BY <1>2, <1>4, <1>6, <3>1 DEF NamedIsHeld
    <3>2. CASE i \in ids /\ e \in NamesOf(i)
        BY <1>4, <1>6, <1>7, <1>13, <3>2
    <3> QED BY <1>11, <2>1, <3>1, <3>2
  <2>2. ASSUME NEW m \in named' PROVE m \in (DOMAIN held)' \X (DOMAIN mentions)'
    <3>1. m = << m[1], m[2] >> /\ << m[1], m[2] >> \in named'
        BY <1>12
    <3>2. m[1] \in (DOMAIN held)' /\ m[2] \in (DOMAIN mentions)'
        BY <2>1, <3>1
    <3> QED BY <3>1, <3>2
  <2> QED BY <2>2 DEF NamedIsHeld
<1>18. ASSUME NEW p, Cardinality(p) = 2, NEW i \in ids, p \subseteq NamesOf(i)
       PROVE  p \in pairs
      BY <1>18 DEF pairs, kSubset
<1>19. MetIsCounted'
  <2> SUFFICES ASSUME NEW i, NEW e, NEW f, << i, e >> \in named', << i, f >> \in named', e # f
               PROVE  {e, f} \in (DOMAIN together)'
      BY DEF MetIsCounted
  <2>1. CASE i \in ids
    <3>1. e \in NamesOf(i) /\ f \in NamesOf(i)
      <4>1. << i, e >> \notin named /\ << i, f >> \notin named
          BY <1>1, <2>1 DEF ids
      <4> QED BY <1>11, <4>1
    <3>2. {e, f} \in pairs
        BY <1>18, <2>1, <3>1, TwoAreTwo
    <3> QED BY <1>5, <3>2
  <2>2. CASE i \notin ids
    <3>1. << i, e >> \in named /\ << i, f >> \in named
        BY <1>11, <2>2
    <3>2. i \in DOMAIN held /\ e \in DOMAIN mentions /\ f \in DOMAIN mentions
        BY <1>2, <3>1 DEF NamedIsHeld
    <3>3. {e, f} \in DOMAIN together
        BY <1>2, <3>1, <3>2 DEF MetIsCounted
    <3> QED BY <1>5, <3>3
  <2> QED BY <2>1, <2>2
<1>20. ASSUME NEW e \in DOMAIN mentions' PROVE Cardinality(Namers(e)') <= mentions'[e]
  <2> DEFINE new == {i \in ids : e \in NamesOf(i)}
             rows == {<< i, e >> : i \in new}
  <2>1. IsFiniteSet(Namers(e)) /\ Cardinality(Namers(e)) \in Nat
      BY <1>2, CountsAreFinite
  <2>2. IsFiniteSet(new) /\ Cardinality(new) \in Nat
      BY <1>8, FS_Subset, FS_CardinalityType
  <2>3. IsFiniteSet(rows) /\ Cardinality(rows) <= Cardinality(new)
    <3> DEFINE f == [i \in new |-> << i, e >>]
    <3>1. f \in Surjection(new, rows)
        BY DEF Surjection
    <3> HIDE DEF f, new, rows
    <3> QED BY <2>2, <3>1, FS_Surjection
  <2>4. Namers(e)' = Namers(e) \cup rows
    <3>1. Namers(e)' \subseteq Namers(e) \cup rows
      <4> SUFFICES ASSUME NEW m \in named', m[2] = e PROVE m \in Namers(e) \cup rows
          BY DEF Namers
      <4>1. m = << m[1], e >>
          BY <1>12
      <4> QED BY <1>11, <4>1 DEF Namers
    <3>2. Namers(e) \cup rows \subseteq Namers(e)'
        BY <1>6, <1>11 DEF Namers
    <3> QED BY <3>1, <3>2
  <2>5. Cardinality(Namers(e)') <= Cardinality(Namers(e)) + Cardinality(new)
    <3>1. Namers(e) \cap rows = {}
        BY <1>1 DEF Namers, ids
    <3> HIDE DEF new, rows
    <3>2. Cardinality(Namers(e)') = Cardinality(Namers(e)) + Cardinality(rows)
                                    - Cardinality(Namers(e) \cap rows)
        BY <2>1, <2>3, <2>4, FS_Union
    <3>3. Cardinality(rows) \in Nat /\ Cardinality(Namers(e) \cap rows) = 0
        BY <2>3, <3>1, FS_CardinalityType, FS_EmptySet
    <3> QED BY <2>1, <2>2, <2>3, <3>2, <3>3
  <2>6. e \in DOMAIN mentions => Cardinality(Namers(e)) <= mentions[e] /\ mentions[e] \in Nat
      BY <1>2 DEF CountsCover, EntitiesTyped, Namers
  <2>7. e \notin DOMAIN mentions => Cardinality(Namers(e)) = 0
    <3>1. e \notin DOMAIN mentions => Namers(e) = {}
        BY <1>2 DEF Namers, NamedIsHeld
    <3> QED BY <3>1, FS_EmptySet
  <2>8. CASE e \in of
    <3>1. Occurrences(e) \in Nat /\ Cardinality(new) <= Occurrences(e)
        BY <1>9, <2>8
    <3>2. mentions'[e] = Occurrences(e) + (IF e \in DOMAIN mentions THEN mentions[e] ELSE 0)
        BY <1>4, <2>8
    <3>3. Cardinality(Namers(e)') \in Nat
      <4>1. IsFiniteSet(Namers(e)')
          BY <2>1, <2>3, <2>4, FS_Union
      <4> QED BY <4>1, FS_CardinalityType
    <3> HIDE DEF new
    <3>4. CASE e \in DOMAIN mentions
        BY <2>1, <2>2, <2>5, <2>6, <3>1, <3>2, <3>3, <3>4
    <3>5. CASE e \notin DOMAIN mentions
        BY <2>1, <2>2, <2>5, <2>7, <3>1, <3>2, <3>3, <3>5
    <3> QED BY <3>4, <3>5
  <2>9. CASE e \notin of
    <3>1. rows = {}
        BY <1>13, <2>9
    <3>2. Namers(e)' = Namers(e)
        BY <2>4, <3>1
    <3> QED BY <1>4, <2>6, <2>9, <3>2
  <2> QED BY <2>8, <2>9
<1>21. ASSUME NEW p \in DOMAIN together' PROVE Cardinality(Meeting(p)') <= together'[p]
  <2> DEFINE new == {i \in ids : p \subseteq NamesOf(i)}
  <2>1. Cardinality(p) = 2
      BY <1>16 DEF PairsTyped
  <2>2. PICK e \in p, f \in p : e # f
    <3>1. PICK e : e \in p
      <4>1. p # {}
          BY <2>1, FS_EmptySet
      <4> QED BY <4>1
    <3>2. p # {e}
        BY <2>1, FS_Singleton
    <3> QED BY <3>1, <3>2
  <2>3. Meeting(p)' \subseteq Meeting(p) \cup new
    <3> SUFFICES ASSUME NEW i \in (DOMAIN held)', \A x \in p : << i, x >> \in named',
                        i \notin new
                 PROVE  i \in Meeting(p)
        BY DEF Meeting
    <3>1. PICK x \in p : x \notin NamesOf(i) \/ i \notin ids
        OBVIOUS
    <3>2. << i, x >> \in named
        BY <1>11, <3>1
    <3>3. i \notin ids
        BY <1>1, <3>2 DEF ids
    <3>4. \A y \in p : << i, y >> \in named
        BY <1>11, <3>3
    <3> QED BY <1>6, <3>4 DEF Meeting
  <2>4. IsFiniteSet(Meeting(p)) /\ Cardinality(Meeting(p)) \in Nat
      BY <1>2, CountsAreFinite
  <2>5. IsFiniteSet(new) /\ Cardinality(new) \in Nat
      BY <1>8, FS_Subset, FS_CardinalityType
  <2>6. SharedBy(p) = Cardinality(new)
      BY DEF SharedBy, ids
  <2> HIDE DEF new
  <2>7. Cardinality(Meeting(p)') <= Cardinality(Meeting(p)) + Cardinality(new)
    <3>1. /\ IsFiniteSet(Meeting(p) \cup new)
          /\ Cardinality(Meeting(p) \cup new)
                = Cardinality(Meeting(p)) + Cardinality(new) - Cardinality(Meeting(p) \cap new)
        BY <2>4, <2>5, FS_Union
    <3>2. Cardinality(Meeting(p) \cap new) \in Nat
        BY <2>4, FS_Intersection, FS_CardinalityType
    <3>3. Cardinality(Meeting(p) \cup new) <= Cardinality(Meeting(p)) + Cardinality(new)
        BY <2>4, <2>5, <3>1, <3>2
    <3>4. Cardinality(Meeting(p)) + Cardinality(new) \in Nat
        BY <2>4, <2>5
    <3> QED BY <2>3, <3>1, <3>3, <3>4, FewerOf
  <2>8. p \in DOMAIN together => Cardinality(Meeting(p)) <= together[p] /\ together[p] \in Nat
      BY <1>2 DEF CountsCover, PairsTyped, Meeting
  <2>9. p \notin DOMAIN together => Cardinality(Meeting(p)) = 0
    <3>1. ASSUME p \notin DOMAIN together, NEW i \in Meeting(p) PROVE FALSE
      <4>1. << i, e >> \in named /\ << i, f >> \in named /\ i \in DOMAIN held
          BY <2>2, <3>1 DEF Meeting
      <4>2. e \in DOMAIN mentions /\ f \in DOMAIN mentions
          BY <1>2, <4>1 DEF NamedIsHeld
      <4>3. {e, f} \in DOMAIN together
          BY <1>2, <2>2, <4>1, <4>2 DEF MetIsCounted
      <4>4. Cardinality({e, f}) = 2 /\ {e, f} \subseteq p
          BY <2>2, TwoAreTwo
      <4>5. {e, f} = p
        <5>1. IsFiniteSet(p)
            BY <1>16 DEF PairsTyped
        <5> QED BY <2>1, <4>4, <5>1, FS_Subset
      <4> QED BY <3>1, <4>3, <4>5
    <3>2. p \notin DOMAIN together => Meeting(p) = {}
        BY <3>1
    <3> QED BY <3>2, FS_EmptySet
  <2>10. Cardinality(Meeting(p)') \in Nat
    <3>1. IsFiniteSet(Meeting(p) \cup new)
        BY <2>4, <2>5, FS_Union
    <3> QED BY <2>3, <3>1, FS_Subset, FS_CardinalityType
  <2>11. CASE p \in pairs
    <3>1. together'[p] = Cardinality(new) + (IF p \in DOMAIN together THEN together[p] ELSE 0)
        BY <1>5, <2>6, <2>11
    <3>2. CASE p \in DOMAIN together
        BY <2>4, <2>5, <2>7, <2>8, <2>10, <3>1, <3>2
    <3>3. CASE p \notin DOMAIN together
        BY <2>4, <2>5, <2>7, <2>9, <2>10, <3>1, <3>3
    <3> QED BY <3>2, <3>3
  <2>12. CASE p \notin pairs
    <3>1. new = {}
        BY <1>18, <2>1, <2>12 DEF new
    <3>2. Cardinality(new) = 0
        BY <3>1, FS_EmptySet
    <3>3. together'[p] = together[p] /\ p \in DOMAIN together
        BY <1>5, <2>12
    <3> QED BY <2>4, <2>7, <2>8, <2>10, <3>2, <3>3
  <2> QED BY <2>11, <2>12
<1>22. CountsCover'
  <2>1. \A m \in named' : m[2] \in DOMAIN mentions'
      BY <1>17 DEF NamedIsHeld
  <2> QED BY <1>20, <1>21, <2>1 DEF CountsCover, Namers, Meeting
<1> QED BY <1>14, <1>15, <1>16, <1>17, <1>19, <1>22 DEF TablesSound

-----------------------------------------------------------------------------
(* The anatomy *)

\* The components are the connected parts of the edges that were joined.
LEMMA AnatomyIsSound ==
    ASSUME LinksTyped, AnatomySound, ReadEdges
    PROVE  AnatomySound'
<1> DEFINE ids == anatomy.ids
           counted == {l \in links : l[1] \in HeldBy(anatomy.bank)}
           joined == {l \in counted : {l[1], l[2]} \subseteq ids}
           parent == FoldSet(LAMBDA l, p : Union(p, l[1], l[2]), [i \in ids |-> i], joined)
           parts == {{i \in ids : Root(parent, i) = r} : r \in {Root(parent, i) : i \in ids}}
<1>1. ids \in SUBSET (1 .. MaxGraphRow)
      BY DEF AnatomySound, ReadEdges
<1>2. anatomy' = [pc |-> "answered", joined |-> joined, components |-> parts]
      BY DEF ReadEdges
<1>3. \A l \in joined : l[1] \in ids /\ l[2] \in ids
      OBVIOUS
<1>4. IsFiniteSet(joined)
  <2> DEFINE rows == 1 .. MaxGraphRow
             types == {"caused_by", "temporal", "semantic"}
  <2>1. IsFiniteSet(rows) /\ IsFiniteSet(types)
    <3>1. IsFiniteSet({"caused_by"} \cup {"temporal"} \cup {"semantic"})
        BY FS_Singleton, FS_AddElement
    <3>2. types = {"caused_by"} \cup {"temporal"} \cup {"semantic"}
        OBVIOUS
    <3>3. IsFiniteSet(types)
        BY <3>1, <3>2
    <3> QED BY <3>3, BoundIsNat, FS_Interval
  <2>2. \A l \in joined : /\ l[1] \in rows /\ l[2] \in rows /\ l[3] \in types
                          /\ l = << l[1], l[2], l[3] >>
      BY DEF LinksTyped
  <2> DEFINE nested == (rows \X rows) \X types
             flat == {<< t[1][1], t[1][2], t[2] >> : t \in nested}
             f == [t \in nested |-> << t[1][1], t[1][2], t[2] >>]
  <2>3. IsFiniteSet(nested)
    <3> HIDE DEF rows, types
    <3>1. IsFiniteSet(rows \X rows)
        BY <2>1, FS_Product
    <3> QED BY <2>1, <3>1, FS_Product
  <2>4. joined \subseteq flat
    <3> HIDE DEF joined, rows, types
    <3> SUFFICES ASSUME NEW l \in joined PROVE l \in flat
        OBVIOUS
    <3>1. << << l[1], l[2] >>, l[3] >> \in nested
        BY <2>2
    <3>2. l = << l[1], l[2], l[3] >>
        BY <2>2
    <3> QED BY <3>1, <3>2
  <2>5. IsFiniteSet(flat)
    <3>1. f \in Surjection(nested, flat)
        BY DEF Surjection
    <3> HIDE DEF f, nested, flat
    <3> QED BY <2>3, <3>1, FS_Surjection
  <2> HIDE DEF joined, flat
  <2> QED BY <2>4, <2>5, FS_Subset
<1>5. IsFiniteSet(ids)
      BY <1>1, RowsAreFinite
<1>6. United(ids, parent, joined)
  <2> HIDE DEF joined, ids
  <2> QED BY <1>3, <1>4, <1>5, FoldUnites
<1>7. \A i, j \in ids : Root(parent, i) = Root(parent, j) <=> Connected(joined, i, j)
  <2> HIDE DEF joined, ids, parent
  <2> QED BY <1>1, <1>3, <1>6, BoundIsNat, RootsAreParts
<1> HIDE DEF joined, ids, parent
<1>8. UNION parts = ids
      OBVIOUS
<1>9. ASSUME NEW c \in parts, NEW i \in c, NEW j \in ids
      PROVE  j \in c <=> Connected(joined, i, j)
  <2>1. PICK k \in ids : c = {x \in ids : Root(parent, x) = Root(parent, k)}
      OBVIOUS
  <2>2. i \in ids /\ Root(parent, i) = Root(parent, k)
      BY <2>1
  <2>3. j \in c <=> Root(parent, i) = Root(parent, j)
      BY <2>1, <2>2
  <2> QED BY <1>7, <2>2, <2>3
<1> HIDE DEF parts
<1>10. anatomy'.pc = "answered" /\ anatomy'.joined = joined /\ anatomy'.components = parts
      BY <1>2
<1>11. ComponentsAreParts'
      BY <1>8, <1>9, <1>10 DEF ComponentsAreParts
<1> QED BY <1>10, <1>11 DEF AnatomySound

-----------------------------------------------------------------------------
(* Every step *)

GraphInv == TablesSound /\ WriteSound /\ AnatomySound

LEMMA GraphStarts ==
    ASSUME GraphInit
    PROVE  GraphInv
<1>1. DOMAIN held = {} /\ DOMAIN mentions = {} /\ DOMAIN together = {} /\ named = {} /\ links = {}
      BY DEF GraphInit
<1>2. TablesSound
      BY <1>1 DEF TablesSound, RowsAreBounded, NamedIsHeld, EntitiesTyped, PairsTyped,
                  MetIsCounted, LinksTyped, CountsCover
<1>3. write.pc = "idle" /\ anatomy.pc = "idle"
      BY DEF GraphInit, NoWrite, NoAnatomy
<1> QED BY <1>2, <1>3 DEF GraphInv, WriteSound, AnatomySound, ComponentsAreParts

\* What is resolved are names of rows of the chunk, each as often as it came out.
LEMMA ResolvedIsSound ==
    ASSUME WriteSound, Resolve
    PROVE  WriteSound'
<1>1. PICK said \in [write.ids -> SUBSET Name], name \in [write.ids -> [Name -> Name]] :
         write' = [pc |-> "entities", bank |-> write.bank, ids |-> write.ids,
                   names |-> [i \in write.ids |->
                                [n \in Name |-> Cardinality({m \in said[i] : name[i][m] = n})]]]
      BY DEF Resolve
<1>2. \A i \in write.ids, n \in Name : Cardinality({m \in said[i] : name[i][m] = n}) \in Nat
  <2> TAKE i \in write.ids, n \in Name
  <2>1. {m \in said[i] : name[i][m] = n} \in SUBSET Name
      OBVIOUS
  <2> QED BY <2>1, LinkGraphAssumption, FS_Subset, FS_CardinalityType
<1>3. /\ write'.pc = "entities" /\ write'.bank = write.bank /\ write'.ids = write.ids
      /\ write'.names \in [write.ids -> [Name -> Nat]]
      BY <1>1, <1>2
<1>4. named' = named /\ write.pc = "resolve"
      BY DEF Resolve, tables
<1> QED BY <1>3, <1>4 DEF WriteSound

LEMMA GraphGoesOn ==
    ASSUME GraphInv, [GraphNext]_graphVars
    PROVE  GraphInv'
<1> USE DEF GraphInv
<1>0. ASSUME UNCHANGED tables PROVE TablesSound'
      BY <1>0 DEF tables, TablesSound, RowsAreBounded, NamedIsHeld, EntitiesTyped, PairsTyped,
                  MetIsCounted, LinksTyped, CountsCover
<1>1. ASSUME UNCHANGED anatomy PROVE AnatomySound'
      BY <1>1 DEF AnatomySound, ComponentsAreParts
<1>2. ASSUME UNCHANGED write, named' \subseteq named PROVE WriteSound'
      BY <1>2 DEF WriteSound
<1>3. ASSUME write'.pc \notin {"resolve", "entities"} PROVE WriteSound'
      BY <1>3 DEF WriteSound
<1>4. CASE InsertChunk
  <2>1. /\ TablesSound' /\ write'.pc = "resolve" /\ write'.bank \in GraphBank
        /\ write'.ids \subseteq 1 .. MaxGraphRow /\ \A m \in named : m[1] \notin write'.ids
      BY <1>4, InsertKeepsTables
  <2>2. named' = named /\ anatomy' = anatomy
      BY <1>4 DEF InsertChunk
  <2>3. WriteSound'
      BY <2>1, <2>2 DEF WriteSound
  <2> QED BY <1>1, <2>1, <2>2, <2>3
<1>5. CASE Resolve
  <2>1. UNCHANGED tables /\ UNCHANGED anatomy
      BY <1>5 DEF Resolve
  <2> QED BY <1>0, <1>1, <1>5, <2>1, ResolvedIsSound
<1>6. CASE WriteEntities
  <2>1. write' = [write EXCEPT !.pc = "window"] /\ anatomy' = anatomy
      BY <1>6 DEF WriteEntities
  <2>2. write'.pc \notin {"resolve", "entities"}
    <3>1. write.pc = "entities"
        BY <1>6 DEF WriteEntities
    <3> QED BY <2>1, <3>1
  <2> QED BY <1>1, <1>3, <1>6, <2>1, <2>2, EntitiesKeepTables
<1>7. CASE GraphFails \/ ReadWindow
  <2>1. write'.pc \notin {"resolve", "entities"} /\ UNCHANGED tables /\ UNCHANGED anatomy
      BY <1>7 DEF GraphFails, ReadWindow, NoWrite
  <2> QED BY <1>0, <1>1, <1>3, <2>1
<1>8. CASE LinkChunk
  <2>1. write'.pc \notin {"resolve", "entities"} /\ UNCHANGED anatomy
      BY <1>8 DEF LinkChunk, NoWrite
  <2> QED BY <1>1, <1>3, <1>8, <2>1, LinksKeepTables
<1>9. CASE \E l \in Linker : BeginLinks(l) \/ Knn(l) \/ NodeTypes(l)
  <2>1. UNCHANGED tables /\ UNCHANGED write /\ UNCHANGED anatomy
      BY <1>9 DEF BeginLinks, Knn, NodeTypes
  <2>2. named' \subseteq named
      BY <2>1 DEF tables
  <2> QED BY <1>0, <1>1, <1>2, <2>1, <2>2
<1>10. CASE \E l \in Linker : WriteLinks(l)
  <2>1. UNCHANGED write /\ UNCHANGED anatomy /\ named' \subseteq named
      BY <1>10 DEF WriteLinks
  <2> QED BY <1>1, <1>2, <1>10, <2>1, LinksKeepTables
<1>11. CASE AddObservation
  <2>1. UNCHANGED write /\ UNCHANGED anatomy /\ named' \subseteq named
      BY <1>11 DEF AddObservation
  <2> QED BY <1>1, <1>2, <1>11, <2>1, ObservationKeepsTables
<1>12. CASE DeleteObservation \/ DeleteBank
  <2>1. UNCHANGED write /\ UNCHANGED anatomy
      BY <1>12 DEF DeleteObservation, DeleteBank
  <2> QED BY <1>1, <1>2, <1>12, <2>1, DeletesKeepTables
<1>13. CASE ReadNodes \/ Answered
  <2>1. UNCHANGED tables /\ UNCHANGED write
      BY <1>13 DEF ReadNodes, Answered
  <2>2. named' \subseteq named
      BY <2>1 DEF tables
  <2>3. AnatomySound'
    <3>1. CASE ReadNodes
      <4>1. PICK b \in GraphBank : anatomy' = [pc |-> "edges", bank |-> b, ids |-> HeldBy(b)]
          BY <3>1 DEF ReadNodes
      <4>2. HeldBy(b) \subseteq 1 .. MaxGraphRow
          BY DEF TablesSound, RowsAreBounded, HeldBy
      <4>3. anatomy'.pc = "edges" /\ anatomy'.ids = HeldBy(b)
          BY <4>1
      <4> QED BY <4>2, <4>3 DEF AnatomySound, ComponentsAreParts
    <3>2. CASE Answered
      <4>1. anatomy'.pc = "idle"
          BY <3>2 DEF Answered, NoAnatomy
      <4> QED BY <4>1 DEF AnatomySound, ComponentsAreParts
    <3> QED BY <1>13, <3>1, <3>2
  <2> QED BY <1>0, <1>2, <2>1, <2>2, <2>3
<1>14. CASE ReadEdges
  <2>1. UNCHANGED tables /\ UNCHANGED write
      BY <1>14 DEF ReadEdges
  <2>2. named' \subseteq named
      BY <2>1 DEF tables
  <2>3. AnatomySound'
      BY <1>14, AnatomyIsSound DEF TablesSound
  <2> QED BY <1>0, <1>2, <2>1, <2>2, <2>3
<1>15. CASE UNCHANGED graphVars
  <2>1. UNCHANGED tables /\ UNCHANGED write /\ UNCHANGED anatomy
      BY <1>15 DEF graphVars
  <2>2. named' \subseteq named
      BY <2>1 DEF tables
  <2> QED BY <1>0, <1>1, <1>2, <2>1, <2>2
<1> QED BY <1>4, <1>5, <1>6, <1>7, <1>8, <1>9, <1>10, <1>11, <1>12, <1>13, <1>14, <1>15
        DEF GraphNext

\* No entity counts fewer mentions than nodes name it, no pair fewer meetings
\* than nodes name both, whatever deletes come between the transactions; and
\* what an anatomy answers as components are the connected parts of the edges
\* it read (write_entities, the cascades, bank_anatomy's union-find).
THEOREM GraphsAreCounted == GraphSpec => []GraphIsCounted
<1>1. GraphInv => GraphIsCounted
      BY DEF GraphInv, TablesSound, AnatomySound, GraphIsCounted
<1> QED BY <1>1, GraphStarts, GraphGoesOn, PTL DEF GraphSpec
=============================================================================
