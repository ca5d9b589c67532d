---------------------------- MODULE Recall_proofs ----------------------------
(***************************************************************************)
(* What is taken from a list and keeps its sense: the facts of a reply     *)
(* (ExtractedFacts), and the memories of an answer (Recall).  First what a *)
(* selection is.  What a sum is comes from the proofs about the graph.     *)
(***************************************************************************)
EXTENDS LinkGraph_proofs, ExtractedFacts, Recall, SequenceTheorems

-----------------------------------------------------------------------------
(***************************************************************************)
(* Selections: the lists that are taken from a set or from a sequence.     *)
(***************************************************************************)

\* A finite set with a strict total order can be counted off in that order.
Orders(K, before) ==
    /\ \A k \in K : << k, k >> \notin before
    /\ \A k, l \in K : k # l => << k, l >> \in before \/ << l, k >> \in before
    /\ \A k, l, m \in K : << k, l >> \in before /\ << l, m >> \in before => << k, m >> \in before

CountsOff(f, K, before) ==
    /\ f \in [1 .. Cardinality(K) -> K]
    /\ \A k, l \in DOMAIN f : k < l => << f[k], f[l] >> \in before

\* By the smallest subset that cannot be counted off: its last element comes
\* behind the rest.
LEMMA OrderIsThere ==
    ASSUME NEW K, IsFiniteSet(K), NEW before, Orders(K, before)
    PROVE  \E f : CountsOff(f, K, before)
<1> DEFINE Bad == {T \in SUBSET K : ~ \E f : CountsOff(f, T, before)}
<1>0. Bad \in SUBSET (SUBSET K)
      OBVIOUS
<1>1. Bad = {}
  <2> SUFFICES ASSUME Bad # {} PROVE FALSE
      OBVIOUS
  <2>1. PICK T \in Bad : \A U \in Bad : U \subseteq T => U = T
    <3> HIDE DEF Bad
    <3> QED BY <1>0, SmallestOf
  <2>2. T \in SUBSET K /\ ~ \E f : CountsOff(f, T, before)
        BY <2>1
  <2>3. IsFiniteSet(T) /\ Cardinality(T) \in Nat
        BY <2>2, FS_Subset, FS_CardinalityType
  <2>4. T # {}
    <3> SUFFICES ASSUME T = {} PROVE FALSE
        OBVIOUS
    <3>1. Cardinality(T) = 0
          BY FS_EmptySet
    <3>2. CountsOff([k \in 1 .. 0 |-> k], T, before)
          BY <3>1 DEF CountsOff
    <3> QED BY <2>2, <3>2
  <2> DEFINE Beyond(x) == {y \in T : << x, y >> \in before}
             Ups == {Beyond(x) : x \in T}
  <2>5. PICK x \in T : Beyond(x) = {}
    <3>1. Ups \in SUBSET (SUBSET T) /\ Ups # {}
          BY <2>4
    <3>2. PICK U \in Ups : \A V \in Ups : V \subseteq U => V = U
      <4> HIDE DEF Ups
      <4> QED BY <2>3, <3>1, SmallestOf
    <3>3. PICK x \in T : U = Beyond(x)
          OBVIOUS
    <3>4. ASSUME NEW y \in Beyond(x) PROVE FALSE
      <4>1. y \in T /\ << x, y >> \in before
            OBVIOUS
      <4>2. Beyond(y) \subseteq Beyond(x)
            BY <2>2, <4>1 DEF Orders
      <4>3. Beyond(y) \in Ups
            BY <4>1
      <4>4. Beyond(y) = Beyond(x)
        <5> HIDE DEF Ups, Beyond
        <5> QED BY <3>2, <3>3, <4>2, <4>3
      <4> QED BY <2>2, <3>4, <4>1, <4>4 DEF Orders
    <3> QED BY <3>4
  <2>6. \A y \in T \ {x} : << y, x >> \in before
        BY <2>2, <2>5 DEF Orders
  <2>7. PICK S : S = T \ {x}
        OBVIOUS
  <2>8. S \in SUBSET K /\ S \notin Bad
        BY <2>1, <2>2, <2>5, <2>7
  <2>9. PICK f : CountsOff(f, S, before)
        BY <2>8
  <2>10. PICK n \in Nat : n = Cardinality(T)
        BY <2>3
  <2>11. n > 0 /\ Cardinality(S) = n - 1
        BY <2>3, <2>5, <2>7, <2>10, FS_RemoveElement, FS_EmptySet
  <2>12. /\ f \in [1 .. n - 1 -> S]
         /\ \A k, l \in 1 .. n - 1 : k < l => << f[k], f[l] >> \in before
        BY <2>9, <2>11 DEF CountsOff
  <2> DEFINE g == [k \in 1 .. n |-> IF k = n THEN x ELSE f[k]]
  <2>13. \A k \in 1 .. n : k # n => k \in 1 .. n - 1
        BY <2>11
  <2>14. g \in [1 .. n -> T]
        BY <2>7, <2>12, <2>13
  <2>15. ASSUME NEW k \in 1 .. n, NEW l \in 1 .. n, k < l PROVE << g[k], g[l] >> \in before
    <3>1. k # n /\ k \in 1 .. n - 1 /\ g[k] = f[k] /\ f[k] \in S
          BY <2>12, <2>13, <2>15
    <3>2. CASE l = n
          BY <2>6, <2>7, <3>1, <3>2
    <3>3. CASE l # n
      <4>1. l \in 1 .. n - 1 /\ g[l] = f[l]
            BY <2>13, <3>3
      <4> QED BY <2>12, <2>15, <3>1, <4>1
    <3> QED BY <3>2, <3>3
  <2> HIDE DEF g
  <2>16. CountsOff(g, T, before)
        BY <2>10, <2>14, <2>15 DEF CountsOff
  <2> QED BY <2>2, <2>16
<1>2. K \in SUBSET K /\ K \notin Bad
      BY <1>1
<1> QED BY <1>2

\* InOrder lists a set, all of it and nothing twice.
LEMMA InOrderLists ==
    ASSUME NEW K, IsFiniteSet(K), NEW before, Orders(K, before)
    PROVE  LET f == InOrder(K, before) IN
           /\ f \in [1 .. Cardinality(K) -> K]
           /\ \A k, l \in DOMAIN f : k < l => << f[k], f[l] >> \in before
           /\ \A k, l \in DOMAIN f : f[k] = f[l] => k = l
           /\ \A x \in K : \E k \in DOMAIN f : f[k] = x
<1>1. PICK f : f = InOrder(K, before)
      OBVIOUS
<1>2. \E g \in [1 .. Cardinality(K) -> K] :
         \A k, l \in DOMAIN g : k < l => << g[k], g[l] >> \in before
      BY OrderIsThere DEF CountsOff
<1>3. /\ f \in [1 .. Cardinality(K) -> K]
      /\ \A k, l \in DOMAIN f : k < l => << f[k], f[l] >> \in before
      BY <1>1, <1>2, Zenon DEF InOrder
<1>4. PICK n \in Nat : n = Cardinality(K)
      BY FS_CardinalityType
<1>5. DOMAIN f = 1 .. n /\ f \in [1 .. n -> K]
      BY <1>3, <1>4
<1>6. ASSUME NEW k \in DOMAIN f, NEW l \in DOMAIN f, f[k] = f[l] PROVE k = l
  <2>1. f[k] \in K /\ k \in Nat /\ l \in Nat /\ << f[k], f[k] >> \notin before
        BY <1>5 DEF Orders
  <2>2. ~ (k < l) /\ ~ (l < k)
        BY <1>3, <1>6, <2>1
  <2> QED BY <2>1, <2>2
<1>7. ASSUME NEW x \in K PROVE \E k \in DOMAIN f : f[k] = x
  <2> DEFINE R == {f[k] : k \in 1 .. n}
  <2>1. R \in SUBSET K
        BY <1>5
  <2>2. f \in Bijection(1 .. n, R)
        BY <1>5, <1>6 DEF Bijection, Injection, Surjection, IsInjective
  <2>3. IsFiniteSet(1 .. n) /\ Cardinality(1 .. n) = n
    <3>1. \A m \in Nat : IsFiniteSet(1 .. m) /\ Cardinality(1 .. m) = IF 1 > m THEN 0 ELSE m - 1 + 1
          BY FS_Interval
    <3>2. \A m \in Nat : (IF 1 > m THEN 0 ELSE m - 1 + 1) = m
          OBVIOUS
    <3> QED BY <3>1, <3>2
  <2> HIDE DEF R
  <2>4. Cardinality(R) = n
        BY <2>2, <2>3, FS_Bijection DEF ExistsBijection
  <2>5. R = K
        BY <1>4, <2>1, <2>4, FS_Subset
  <2>6. x \in {f[k] : k \in 1 .. n}
        BY <1>7, <2>5 DEF R
  <2> QED BY <1>5, <2>6
<1> QED BY <1>1, <1>3, <1>6, <1>7

\* A function on 1 .. n is a sequence of that length.
LEMMA SequenceOf ==
    ASSUME NEW n \in Nat, NEW X, NEW s \in [1 .. n -> X]
    PROVE  s \in Seq(X) /\ Len(s) = n /\ DOMAIN s = 1 .. n
OBVIOUS

\* One sequence has some elements of another, each place of it once.
Within(t, s, K) ==
    \E h \in [DOMAIN t -> K] :
       /\ \A k, l \in DOMAIN t : h[k] = h[l] => k = l
       /\ \A k \in DOMAIN t : t[k] = s[h[k]]

\* Picked gives the elements at the places asked for, and no others.
LEMMA PickedIs ==
    ASSUME NEW X, NEW s \in Seq(X), NEW K \in SUBSET (DOMAIN s)
    PROVE  LET t == Picked(s, K) IN
           /\ t \in Seq(X) /\ Len(t) \in Nat /\ Len(t) <= Len(s) /\ Within(t, s, K)
           /\ \A x \in K : \E k \in DOMAIN t : t[k] = s[x]
<1> DEFINE before == {m \in K \X K : m[1] < m[2]}
<1>1. DOMAIN s = 1 .. Len(s) /\ Len(s) \in Nat /\ \A k \in K : k \in Nat /\ s[k] \in X
      OBVIOUS
<1>2. IsFiniteSet(DOMAIN s) /\ Cardinality(DOMAIN s) = Len(s)
  <2>1. \A m \in Nat : IsFiniteSet(1 .. m) /\ Cardinality(1 .. m) = IF 1 > m THEN 0 ELSE m - 1 + 1
        BY FS_Interval
  <2>2. \A m \in Nat : (IF 1 > m THEN 0 ELSE m - 1 + 1) = m
        OBVIOUS
  <2> QED BY <1>1, <2>1, <2>2
<1>3. IsFiniteSet(K) /\ Cardinality(K) \in Nat /\ Cardinality(K) <= Len(s)
      BY <1>1, <1>2, FS_Subset, FS_CardinalityType
<1>4. \A k, l \in K : << k, l >> \in before <=> k < l
      OBVIOUS
<1>5. PICK f : f = InOrder(K, before)
      OBVIOUS
<1>6. PICK t : t = Picked(s, K)
      OBVIOUS
<1>7. t = [k \in DOMAIN f |-> s[f[k]]]
      BY <1>5, <1>6 DEF Picked, Ascending
<1> HIDE DEF before
<1>8. Orders(K, before)
      BY <1>1, <1>4 DEF Orders
<1>9. PICK n \in Nat : n = Cardinality(K)
      BY <1>3
<1>10. /\ f \in [1 .. n -> K] /\ \A k, l \in DOMAIN f : f[k] = f[l] => k = l
       /\ \A x \in K : \E k \in DOMAIN f : f[k] = x
      BY <1>3, <1>5, <1>8, <1>9, InOrderLists
<1>11. t \in [1 .. n -> X] /\ DOMAIN t = DOMAIN f /\ \A k \in DOMAIN t : t[k] = s[f[k]]
      BY <1>1, <1>7, <1>10
<1>12. t \in Seq(X) /\ Len(t) = n
      BY <1>11, SequenceOf
<1>13. Within(t, s, K)
      BY <1>10, <1>11 DEF Within
<1> QED BY <1>3, <1>6, <1>9, <1>10, <1>11, <1>12, <1>13

-----------------------------------------------------------------------------
(***************************************************************************)
(* ExtractedFacts: what a fact refers to is what the model named,          *)
(* whichever facts were dropped.  The facts that are kept are counted off  *)
(* in the order of the reply, so that the position of one among them is    *)
(* the number of those before it and one.                                  *)
(***************************************************************************)

Survivors == {i \in DOMAIN reply : Usable(reply[i])}
ReplyTyped == \E n \in Nat : reply \in [1 .. n -> RawFacts]

\* new_index finds a fact where the compaction put it.
LEMMA SurvivorsAre ==
    ASSUME ReplyTyped
    PROVE  LET kept == Ascending(Survivors) IN
           /\ \E m \in Nat : kept \in [1 .. m -> Survivors]
           /\ \A k, l \in DOMAIN kept : kept[k] < kept[l] => k < l
           /\ \A i \in Survivors : \E k \in DOMAIN kept : kept[k] = i
           /\ \A k \in DOMAIN kept : NewIndex(kept[k]) = k
<1>1. PICK K : K = Survivors
      OBVIOUS
<1>2. PICK size \in Nat : reply \in [1 .. size -> RawFacts]
      BY DEF ReplyTyped
<1>3. K \in SUBSET Nat /\ IsFiniteSet(K)
  <2>1. PICK places : places = 1 .. size
        OBVIOUS
  <2>2. K \in SUBSET places /\ places \subseteq Nat
        BY <1>1, <1>2, <2>1 DEF Survivors
  <2>3. IsFiniteSet(places)
        BY <1>2, <2>1, FS_Interval
  <2>4. IsFiniteSet(K)
        BY <2>2, <2>3, FS_Subset
  <2> QED BY <2>2, <2>4
<1> DEFINE before == {m \in K \X K : m[1] < m[2]}
<1>4. \A k, l \in K : << k, l >> \in before <=> k < l
      OBVIOUS
<1>5. PICK kept : kept = Ascending(K)
      OBVIOUS
<1>6. kept = InOrder(K, before)
      BY <1>5 DEF Ascending
<1> HIDE DEF before
<1>7. Orders(K, before)
  <2>1. \A k \in K : k \in Nat
        BY <1>3
  <2> QED BY <1>4, <2>1 DEF Orders
<1>8. PICK m \in Nat : m = Cardinality(K)
      BY <1>3, FS_CardinalityType
<1>9. /\ kept \in [1 .. m -> K]
      /\ \A k, l \in 1 .. m : k < l => << kept[k], kept[l] >> \in before
      /\ \A k, l \in 1 .. m : kept[k] = kept[l] => k = l
      /\ \A i \in K : \E k \in 1 .. m : kept[k] = i
  <2>1. /\ kept \in [1 .. Cardinality(K) -> K]
        /\ \A k, l \in DOMAIN kept : k < l => << kept[k], kept[l] >> \in before
        /\ \A k, l \in DOMAIN kept : kept[k] = kept[l] => k = l
        /\ \A i \in K : \E k \in DOMAIN kept : kept[k] = i
        BY <1>3, <1>6, <1>7, InOrderLists
  <2>2. kept \in [1 .. m -> K] /\ DOMAIN kept = 1 .. m
        BY <1>8, <2>1
  <2> QED BY <2>1, <2>2
<1>10. \A k \in 1 .. m : kept[k] \in K /\ kept[k] \in Nat
      BY <1>3, <1>9
<1>11. \A k, l \in 1 .. m : k < l => kept[k] < kept[l]
      BY <1>4, <1>9, <1>10
<1>12. \A k, l \in 1 .. m : kept[k] < kept[l] => k < l
  <2> SUFFICES ASSUME NEW k \in 1 .. m, NEW l \in 1 .. m, kept[k] < kept[l] PROVE k < l
      OBVIOUS
  <2>1. k # l
        BY <1>10
  <2>2. ~ (l < k)
    <3> SUFFICES ASSUME l < k PROVE FALSE
        OBVIOUS
    <3>1. kept[l] < kept[k]
          BY <1>11
    <3> QED BY <1>10, <3>1
  <2> QED BY <2>1, <2>2
<1>13. ASSUME NEW k \in 1 .. m PROVE NewIndex(kept[k]) = k
  <2>1. PICK n \in Nat : k = n + 1
    <3>1. k - 1 \in Nat
          OBVIOUS
    <3> QED BY <3>1
  <2>2. PICK B : B = KeptBefore(kept[k])
        OBVIOUS
  <2>3. \A x : x \in B <=> x \in K /\ x < kept[k]
        BY <1>1, <2>2 DEF KeptBefore, Survivors
  <2>4. \A l \in 1 .. n : l \in 1 .. m /\ l < k
        BY <2>1
  <2>5. \A l \in 1 .. n : kept[l] \in B
        BY <1>10, <1>11, <2>3, <2>4
  <2>6. \A x \in B : \E l \in 1 .. n : kept[l] = x
    <3> SUFFICES ASSUME NEW x \in B PROVE \E l \in 1 .. n : kept[l] = x
        OBVIOUS
    <3>1. x \in K /\ x < kept[k]
          BY <2>3
    <3>2. PICK l \in 1 .. m : kept[l] = x
          BY <1>9, <3>1
    <3>3. l < k
          BY <1>12, <3>1, <3>2
    <3>4. l \in 1 .. n
          BY <2>1, <3>3
    <3> QED BY <3>2, <3>4
  <2> DEFINE h == [l \in 1 .. n |-> kept[l]]
  <2>7. h \in Bijection(1 .. n, B)
    <3>1. h \in [1 .. n -> B]
          BY <2>5
    <3>2. \A a, b \in 1 .. n : h[a] = h[b] => a = b
          BY <1>9, <2>4
    <3>3. \A x \in B : \E l \in 1 .. n : h[l] = x
          BY <2>6
    <3> HIDE DEF h
    <3> QED BY <3>1, <3>2, <3>3 DEF Bijection, Injection, Surjection, IsInjective
  <2> HIDE DEF h
  <2>8. IsFiniteSet(1 .. n) /\ Cardinality(1 .. n) = n
    <3>1. \A p \in Nat : IsFiniteSet(1 .. p) /\ Cardinality(1 .. p) = IF 1 > p THEN 0 ELSE p - 1 + 1
          BY FS_Interval
    <3>2. \A p \in Nat : (IF 1 > p THEN 0 ELSE p - 1 + 1) = p
          OBVIOUS
    <3> QED BY <3>1, <3>2
  <2>9. Cardinality(B) = n
        BY <2>7, <2>8, FS_Bijection DEF ExistsBijection
  <2> QED BY <2>1, <2>2, <2>9 DEF NewIndex
<1>14. DOMAIN kept = 1 .. m
      BY <1>9
<1> QED BY <1>1, <1>5, <1>9, <1>12, <1>13, <1>14

\* A fact names facts before it.
LEMMA CausesAre ==
    ASSUME NEW raw \in RawFacts, NEW i \in Nat
    PROVE  Causes(raw, i) \in Seq(1 .. i - 1)
<1>1. PICK s : s = raw.causes
      OBVIOUS
<1>2. s \in Seq(Int)
      BY <1>1, ExtractedFactsAssumption
<1>3. PICK K : K = {k \in DOMAIN s : s[k] \in 1 .. i - 1}
      OBVIOUS
<1>4. PICK earlier : earlier = Picked(s, K)
      OBVIOUS
<1>5. K \in SUBSET (DOMAIN s)
      BY <1>3
<1>6. earlier \in Seq(Int) /\ Len(earlier) \in Nat /\ Within(earlier, s, K)
      BY <1>2, <1>4, <1>5, PickedIs
<1>7. PICK m \in Nat : m = (IF Len(earlier) < MAX_CAUSES THEN Len(earlier) ELSE MAX_CAUSES)
      BY <1>6 DEF MAX_CAUSES
<1>8. Causes(raw, i) = SubSeq(earlier, 1, m)
      BY <1>1, <1>3, <1>4, <1>7 DEF Causes
<1>9. m <= Len(earlier)
      BY <1>6, <1>7
<1>10. \A k \in DOMAIN earlier : earlier[k] \in 1 .. i - 1
      BY <1>3, <1>6 DEF Within
<1>11. SubSeq(earlier, 1, m) = [k \in 1 .. m |-> earlier[k]]
      BY <1>6, <1>9
<1>12. 1 .. m \subseteq DOMAIN earlier
      BY <1>6, <1>9
<1>13. [k \in 1 .. m |-> earlier[k]] \in [1 .. m -> 1 .. i - 1]
      BY <1>10, <1>12
<1>14. [k \in 1 .. m |-> earlier[k]] \in Seq(1 .. i - 1)
      BY <1>13, SequenceOf
<1> QED BY <1>8, <1>11, <1>14

\* A fact retracts one fact at most, a listed one that it quotes.
LEMMA SupersedesIs ==
    ASSUME NEW raw \in RawFacts
    PROVE  LET t == Supersedes(raw) IN
           /\ Len(t) <= 1
           /\ \A p \in ToSet(t) :
                 p \in ToSet(raw.supersedes) /\ raw.quote \in KnownQuotes[p] \ ShortQuotes
<1>1. PICK s : s = raw.supersedes
      OBVIOUS
<1>2. s \in Seq(Int)
      BY <1>1, ExtractedFactsAssumption
<1>3. PICK K : K = {k \in DOMAIN s : s[k] \in DOMAIN KnownQuotes /\ Quoted(raw, s[k])}
      OBVIOUS
<1>4. PICK cited : cited = Picked(s, K)
      OBVIOUS
<1>5. K \in SUBSET (DOMAIN s)
      BY <1>3
<1>6. cited \in Seq(Int) /\ Len(cited) \in Nat /\ Within(cited, s, K)
      BY <1>2, <1>4, <1>5, PickedIs
<1>7. PICK m \in Nat : m = (IF cited = << >> THEN 0 ELSE 1)
      OBVIOUS
<1>8. PICK t : t = Supersedes(raw)
      OBVIOUS
<1>9. t = SubSeq(cited, 1, m)
      BY <1>1, <1>3, <1>4, <1>7, <1>8 DEF Supersedes, MAX_SUPERSEDES_PER_FACT
<1>10. m <= Len(cited) /\ m <= 1
      BY <1>6, <1>7
<1>11. t = [k \in 1 .. m |-> cited[k]]
      BY <1>6, <1>9, <1>10
<1>12. \A k \in 1 .. m : k \in DOMAIN cited
      BY <1>6, <1>10
<1>13. t \in [1 .. m -> Int]
      BY <1>6, <1>11, <1>12
<1>14. Len(t) = m /\ DOMAIN t = 1 .. m
      BY <1>13, SequenceOf
<1>15. ASSUME NEW p \in ToSet(t)
       PROVE  p \in ToSet(s) /\ raw.quote \in KnownQuotes[p] \ ShortQuotes
  <2>1. PICK k \in 1 .. m : p = cited[k]
        BY <1>11, <1>14 DEF ToSet
  <2>2. PICK l \in K : cited[k] = s[l]
        BY <1>6, <1>12 DEF Within
  <2>3. p \in ToSet(s) /\ Quoted(raw, p)
        BY <1>3, <2>1, <2>2 DEF ToSet
  <2> QED BY <2>3 DEF Quoted
<1> QED BY <1>1, <1>8, <1>10, <1>14, <1>15

\* What is in a sequence is at one of its places.
LEMMA OneOfThem ==
    ASSUME NEW s, NEW x \in ToSet(s)
    PROVE  \E k \in DOMAIN s : s[k] = x
BY DEF ToSet

\* What a relation becomes: the places of the kept facts that were named.
LEMMA ReindexedIs ==
    ASSUME ReplyTyped, NEW i \in Survivors, NEW kept, kept = Ascending(Survivors),
           NEW n \in DOMAIN kept, kept[n] = i, NEW causes \in Seq(1 .. i - 1)
    PROVE  LET t == Reindexed(causes) IN
           /\ ToSet(t) \subseteq 1 .. n - 1 /\ ToSet(t) \subseteq DOMAIN kept
           /\ {kept[k] : k \in ToSet(t)} = {j \in ToSet(causes) : Usable(reply[j])}
<1>1. PICK m \in Nat : kept \in [1 .. m -> Survivors]
      BY SurvivorsAre
<1>2. /\ \A k, l \in 1 .. m : kept[k] < kept[l] => k < l
      /\ \A j \in Survivors : \E k \in 1 .. m : kept[k] = j
      /\ \A k \in 1 .. m : NewIndex(kept[k]) = k
      /\ DOMAIN kept = 1 .. m /\ n \in 1 .. m
      BY <1>1, SurvivorsAre
<1>3. PICK size \in Nat : DOMAIN reply = 1 .. size
      BY DEF ReplyTyped
<1>4. i \in 1 .. size
      BY <1>3 DEF Survivors
<1>5. PICK K : K = {k \in DOMAIN causes : Usable(reply[causes[k]])}
      OBVIOUS
<1>6. PICK cited : cited = Picked(causes, K)
      OBVIOUS
<1>7. PICK t : t = Reindexed(causes)
      OBVIOUS
<1>8. t = [k \in DOMAIN cited |-> NewIndex(cited[k])]
      BY <1>5, <1>6, <1>7 DEF Reindexed
<1>9. K \in SUBSET (DOMAIN causes)
      BY <1>5
<1>10. Within(cited, causes, K) /\ \A k \in K : \E l \in DOMAIN cited : cited[l] = causes[k]
      BY <1>6, <1>9, PickedIs
<1>11. ASSUME NEW j \in ToSet(causes), Usable(reply[j])
       PROVE  \E k \in 1 .. m : k \in 1 .. n - 1 /\ kept[k] = j /\ NewIndex(j) = k
  <2>1. j \in 1 .. i - 1
    <3>1. PICK before : before = 1 .. i - 1
          OBVIOUS
    <3>2. causes \in Seq(before)
          BY <3>1
    <3>3. \E k \in DOMAIN causes : causes[k] = j
          BY OneOfThem
    <3>4. j \in before
          BY <3>2, <3>3
    <3> QED BY <3>1, <3>4
  <2>2. j \in Survivors /\ j < i
        BY <1>3, <1>4, <1>11, <2>1 DEF Survivors
  <2>3. PICK k \in 1 .. m : kept[k] = j
        BY <1>2, <2>2
  <2>4. k < n
        BY <1>2, <2>2, <2>3
  <2>5. k \in 1 .. n - 1
        BY <1>2, <2>4
  <2> QED BY <1>2, <2>3, <2>5
<1>12. \A l \in DOMAIN cited : cited[l] \in ToSet(causes) /\ Usable(reply[cited[l]])
      BY <1>5, <1>9, <1>10 DEF Within, ToSet
<1>13. \A j \in ToSet(causes) : Usable(reply[j]) => \E l \in DOMAIN cited : cited[l] = j
      BY <1>5, <1>10 DEF ToSet
<1>14. ASSUME NEW k \in ToSet(t)
       PROVE  k \in 1 .. n - 1 /\ k \in 1 .. m /\ kept[k] \in ToSet(causes) /\ Usable(reply[kept[k]])
  <2>1. PICK l \in DOMAIN cited : k = NewIndex(cited[l])
        BY <1>8 DEF ToSet
  <2> QED BY <1>11, <1>12, <2>1
<1>15. ASSUME NEW j \in ToSet(causes), Usable(reply[j])
       PROVE  \E k \in ToSet(t) : kept[k] = j
  <2>1. PICK l \in DOMAIN cited : cited[l] = j
        BY <1>13, <1>15
  <2>2. NewIndex(j) \in ToSet(t)
        BY <1>8, <2>1 DEF ToSet
  <2> QED BY <1>11, <1>15, <2>2
<1>16. {kept[k] : k \in ToSet(t)} = {j \in ToSet(causes) : Usable(reply[j])}
      BY <1>14, <1>15
<1> QED BY <1>2, <1>7, <1>14, <1>16

\* The one step: each fact that is kept, and what it refers to.
LEMMA ParsedIsKept ==
    ASSUME ReplyTyped, ParseFacts
    PROVE  ReferencesAreKept'
<1>1. PICK kept : kept = Ascending(Survivors)
      OBVIOUS
<1>2. UNCHANGED reply
      BY DEF ParseFacts
<1>3. extracted' = [n \in DOMAIN kept |->
                      [Parsed(reply[kept[n]], kept[n]) EXCEPT !.causes = Reindexed(@)]]
      BY <1>1 DEF ParseFacts, Survivors
<1>4. PICK m \in Nat : kept \in [1 .. m -> Survivors]
      BY <1>1, SurvivorsAre
<1>5. DOMAIN extracted' = DOMAIN kept /\ DOMAIN kept = 1 .. m
      BY <1>3, <1>4
<1>6. ASSUME NEW n \in DOMAIN kept
      PROVE  /\ extracted'[n].says = kept[n]
             /\ extracted'[n].causes = Reindexed(Causes(reply[kept[n]], kept[n]))
             /\ extracted'[n].supersedes = Supersedes(reply[kept[n]])
  <2>1. extracted'[n] = [Parsed(reply[kept[n]], kept[n]) EXCEPT !.causes = Reindexed(@)]
        BY <1>3
  <2> QED BY <2>1 DEF Parsed
<1>7. ASSUME NEW n \in DOMAIN kept
      PROVE  LET raw == reply[kept[n]]
                 causes == extracted'[n].causes
                 meant == {extracted'[t].says : t \in ToSet(causes) \cap DOMAIN extracted'}
             IN  /\ ToSet(causes) \subseteq 1 .. n - 1
                 /\ meant = {i \in ToSet(Causes(raw, kept[n])) : Usable(reply[i])}
                 /\ Len(extracted'[n].supersedes) <= 1
                 /\ \A p \in ToSet(extracted'[n].supersedes) :
                       p \in ToSet(raw.supersedes) /\ raw.quote \in KnownQuotes[p] \ ShortQuotes
  <2>1. PICK i : i = kept[n]
        OBVIOUS
  <2>2. PICK raw : raw = reply[i]
        OBVIOUS
  <2>3. i \in Survivors
        BY <1>4, <2>1
  <2>4. i \in Nat /\ raw \in RawFacts
        BY <2>2, <2>3 DEF Survivors, ReplyTyped
  <2>5. PICK causes : causes = Causes(raw, i)
        OBVIOUS
  <2>6. causes \in Seq(1 .. i - 1)
        BY <2>4, <2>5, CausesAre
  <2>7. PICK t : t = Reindexed(causes)
        OBVIOUS
  <2>8. /\ ToSet(t) \subseteq 1 .. n - 1 /\ ToSet(t) \subseteq DOMAIN kept
        /\ {kept[k] : k \in ToSet(t)} = {j \in ToSet(causes) : Usable(reply[j])}
        BY <1>1, <2>1, <2>3, <2>6, <2>7, ReindexedIs
  <2>9. extracted'[n].causes = t /\ extracted'[n].supersedes = Supersedes(raw)
        BY <1>6, <2>1, <2>2, <2>5, <2>7
  <2>10. {extracted'[k].says : k \in ToSet(t) \cap DOMAIN extracted'} = {kept[k] : k \in ToSet(t)}
    <3>1. ToSet(t) \cap DOMAIN extracted' = ToSet(t)
          BY <1>5, <2>8
    <3>2. \A k \in ToSet(t) : extracted'[k].says = kept[k]
          BY <1>6, <2>8
    <3> QED BY <3>1, <3>2
  <2>11. /\ Len(Supersedes(raw)) <= 1
         /\ \A p \in ToSet(Supersedes(raw)) :
               p \in ToSet(raw.supersedes) /\ raw.quote \in KnownQuotes[p] \ ShortQuotes
         BY <2>4, SupersedesIs
  <2> QED BY <2>1, <2>2, <2>5, <2>8, <2>9, <2>10, <2>11
<1>8. SUFFICES ASSUME NEW n \in DOMAIN extracted'
      PROVE  LET raw == reply'[extracted'[n].says]
                 meant == {extracted'[t].says : t \in ToSet(extracted'[n].causes) \cap DOMAIN extracted'}
             IN  /\ ToSet(extracted'[n].causes) \subseteq 1 .. n - 1
                 /\ meant = {i \in ToSet(Causes(raw, extracted'[n].says)) : Usable(reply'[i])}
                 /\ Len(extracted'[n].supersedes) <= 1
                 /\ \A p \in ToSet(extracted'[n].supersedes) :
                       p \in ToSet(raw.supersedes) /\ raw.quote \in KnownQuotes[p] \ ShortQuotes
      BY DEF ReferencesAreKept
<1>9. n \in DOMAIN kept /\ extracted'[n].says = kept[n]
      BY <1>5, <1>6
<1> QED BY <1>2, <1>7, <1>9

\* parse_facts (extract/parse.rs).  For any replies and any listed facts:
\* whichever facts of a reply are dropped, the causes of the others are the
\* kept facts that they meant, all before them, and what one retracts was
\* listed, is quoted and is one.
THEOREM ReferencesFollow == ExtractSpec => []ReferencesAreKept
<1>1. ExtractInit => ReplyTyped /\ ReferencesAreKept
  <2> SUFFICES ASSUME ExtractInit PROVE ReplyTyped /\ ReferencesAreKept
      OBVIOUS
  <2>1. \A n \in 0 .. MaxReply : n \in Nat
        BY ExtractedFactsAssumption
  <2> QED BY <2>1 DEF ExtractInit, ReplyTyped, ReferencesAreKept
<1>2. ReplyTyped /\ ReferencesAreKept /\ [ExtractNext]_extractVars
         => (ReplyTyped /\ ReferencesAreKept)'
  <2> SUFFICES ASSUME ReplyTyped, ReferencesAreKept, [ExtractNext]_extractVars
               PROVE  ReplyTyped' /\ ReferencesAreKept'
      OBVIOUS
  <2>1. UNCHANGED reply
        BY DEF ExtractNext, ParseFacts, extractVars
  <2>2. ReplyTyped'
        BY <2>1 DEF ReplyTyped
  <2>3. CASE ExtractNext
        BY <2>2, <2>3, ParsedIsKept DEF ExtractNext
  <2>4. CASE UNCHANGED extractVars
        BY <2>2, <2>4 DEF extractVars, ReferencesAreKept
  <2> QED BY <2>3, <2>4
<1> QED BY <1>1, <1>2, PTL DEF ExtractSpec

-----------------------------------------------------------------------------
(***************************************************************************)
(* Recall: an answer fits what was asked, and says a thing once.  What is  *)
(* carried along: a row that was read is worded as its text is and was     *)
(* live, a fact stands on nothing, and what the fallback banks gave so far *)
(* is without what the client has.                                         *)
(*                                                                         *)
(* First what the items of a list come to, and how it is cut.              *)
(***************************************************************************)

\* Items that have a size.
Sized(X) == \A t \in X : t.row.tokens \in Nat
SizesOf(s) == [k \in DOMAIN s |-> s[k].row.tokens]

\* The fold over a sequence is the sum over its places.
LEMMA TokensIs ==
    ASSUME NEW X, Sized(X), NEW s \in Seq(X)
    PROVE  /\ IsFiniteSet(DOMAIN s) /\ SizesOf(s) \in [DOMAIN s -> Nat]
           /\ \E iter : SumsUp(iter, DOMAIN s, SizesOf(s)) /\ Tokens(s) = iter[DOMAIN s]
<1> DEFINE D == DOMAIN s
           F == SizesOf(s)
           Is(iter) == iter = [u \in SUBSET D |->
                                 IF u = {} THEN 0
                                 ELSE s[CHOOSE x \in u : TRUE].row.tokens
                                      + iter[u \ {CHOOSE x \in u : TRUE}]]
           found == CHOOSE iter : Is(iter)
<1>1. IsFiniteSet(D)
  <2>1. Len(s) \in Nat /\ D = 1 .. Len(s)
        OBVIOUS
  <2> QED BY <2>1, FS_Interval
<1>2. F \in [D -> Nat] /\ \A k \in D : F[k] = s[k].row.tokens
      BY DEF SizesOf, Sized
<1> HIDE DEF F
<1>3. PICK iter : SumsUp(iter, D, F)
  <2> HIDE DEF D
  <2> QED BY <1>1, <1>2, SumIs
<1>4. \A u \in SUBSET D : u # {} => F[AnyOf(u)] = s[AnyOf(u)].row.tokens
      BY <1>2 DEF AnyOf
<1>5. Is(iter)
  <2>1. iter = [u \in SUBSET D |-> iter[u]]
        BY <1>3 DEF SumsUp
  <2>2. \A u \in SUBSET D :
           iter[u] = IF u = {} THEN 0 ELSE s[AnyOf(u)].row.tokens + iter[u \ {AnyOf(u)}]
        BY <1>3, <1>4 DEF SumsUp
  <2> QED BY <2>1, <2>2 DEF AnyOf
<1>6. Is(found)
  <2> HIDE DEF Is
  <2> QED BY <1>5, Zenon
<1>7. Tokens(s) = found[D]
      BY Zenon DEF Tokens, FoldSeq, FoldFunction, FoldFunctionOnSet, MapThenFoldSet
<1> HIDE DEF found
<1>8. \A u \in SUBSET D :
         found[u] = IF u = {} THEN 0 ELSE s[AnyOf(u)].row.tokens + found[u \ {AnyOf(u)}]
      BY <1>6, Zenon DEF AnyOf
<1>9. AddsUp(found, D, F)
      BY <1>4, <1>8 DEF AddsUp
<1> HIDE DEF D
<1>10. found[D] = iter[D]
      BY <1>1, <1>3, <1>9, OnlySum
<1> QED BY <1>1, <1>2, <1>3, <1>7, <1>10 DEF D, F

LEMMA NoItemNoTokens == Tokens(<< >>) = 0
<1>1. Sized({}) /\ << >> \in Seq({}) /\ DOMAIN << >> = {}
      BY DEF Sized
<1>2. PICK iter : SumsUp(iter, {}, SizesOf(<< >>)) /\ Tokens(<< >>) = iter[{}]
      BY <1>1, TokensIs
<1>3. {} \in SUBSET {} /\ iter[{}] = 0
      BY <1>2 DEF SumsUp
<1> QED BY <1>2, <1>3

\* One sum is of values that another has too.
AddsNoMore(iter, S, F, jter, T, G) ==
    /\ IsFiniteSet(S) /\ F \in [S -> Nat] /\ SumsUp(iter, S, F)
    /\ IsFiniteSet(T) /\ G \in [T -> Nat] /\ SumsUp(jter, T, G)
    /\ \E h \in [S -> T] : /\ \A i, j \in S : h[i] = h[j] => i = j
                           /\ \A i \in S : F[i] = G[h[i]]

\* What is mapped one to one has no greater sum.
LEMMA SumIsAtMost ==
    ASSUME NEW iter, NEW S, NEW F, NEW jter, NEW T, NEW G, AddsNoMore(iter, S, F, jter, T, G)
    PROVE  iter[S] <= jter[T]
<1>1. PICK h \in [S -> T] : /\ \A i, j \in S : h[i] = h[j] => i = j
                            /\ \A i \in S : F[i] = G[h[i]]
      BY DEF AddsNoMore
<1>2. PICK t : t = T
      OBVIOUS
<1>3. t \in SUBSET T /\ \A i \in S : h[i] \in t
      BY <1>2
<1>4. /\ IsFiniteSet(S) /\ F \in [S -> Nat] /\ SumsUp(iter, S, F)
      /\ IsFiniteSet(T) /\ G \in [T -> Nat] /\ SumsUp(jter, T, G)
      BY DEF AddsNoMore
<1>5. iter[S] <= jter[t]
      BY <1>1, <1>3, <1>4, SumIsNoMore
<1> QED BY <1>2, <1>5

\* Some of the items come to no more than all.
LEMMA FewerTokens ==
    ASSUME NEW X, Sized(X), NEW s \in Seq(X), NEW t \in Seq(X), NEW K \in SUBSET (DOMAIN s),
           Within(t, s, K)
    PROVE  Tokens(t) \in Nat /\ Tokens(s) \in Nat /\ Tokens(t) <= Tokens(s)
<1>1. PICK iter : SumsUp(iter, DOMAIN t, SizesOf(t)) /\ Tokens(t) = iter[DOMAIN t]
      BY TokensIs
<1>2. PICK jter : SumsUp(jter, DOMAIN s, SizesOf(s)) /\ Tokens(s) = jter[DOMAIN s]
      BY TokensIs
<1>3. /\ IsFiniteSet(DOMAIN t) /\ SizesOf(t) \in [DOMAIN t -> Nat]
      /\ IsFiniteSet(DOMAIN s) /\ SizesOf(s) \in [DOMAIN s -> Nat]
      BY TokensIs
<1>4. PICK h :
         /\ h \in [DOMAIN t -> DOMAIN s]
         /\ \A k, l \in DOMAIN t : h[k] = h[l] => k = l
         /\ \A k \in DOMAIN t : t[k] = s[h[k]]
      BY DEF Within
<1>5. \A k \in DOMAIN t : SizesOf(t)[k] = SizesOf(s)[h[k]]
      BY <1>4 DEF SizesOf
<1>6. DOMAIN s \in SUBSET (DOMAIN s) /\ \A k \in DOMAIN t : h[k] \in DOMAIN s
      BY <1>4
<1>7. iter[DOMAIN t] \in Nat /\ jter[DOMAIN s] \in Nat
      BY <1>1, <1>2 DEF SumsUp
<1>8. iter[DOMAIN t] <= jter[DOMAIN s]
  <2>1. AddsNoMore(iter, DOMAIN t, SizesOf(t), jter, DOMAIN s, SizesOf(s))
        BY <1>1, <1>2, <1>3, <1>4, <1>5 DEF AddsNoMore
  <2> QED BY <2>1, SumIsAtMost
<1> QED BY <1>1, <1>2, <1>7, <1>8

-----------------------------------------------------------------------------
(* Cuts *)

\* The lesser of two numbers.
LEMMA LesserOf ==
    ASSUME NEW m \in Nat, NEW n \in Nat
    PROVE  Min({m, n}) = IF m <= n THEN m ELSE n
<1>1. \A x \in {m, n} : x <= (IF m <= n THEN m ELSE n) /\ x >= (IF m <= n THEN m ELSE n)
                          => x = IF m <= n THEN m ELSE n
      OBVIOUS
<1>2. PICK l : l = IF m <= n THEN m ELSE n
      OBVIOUS
<1>3. l \in {m, n} /\ \A y \in {m, n} : l <= y
      BY <1>2
<1>4. Min({m, n}) \in {m, n} /\ \A y \in {m, n} : Min({m, n}) <= y
      BY <1>3 DEF Min
<1> QED BY <1>2, <1>3, <1>4

\* FirstOf gives the head of a sequence, as long as asked where there is so much.
LEMMA FirstOfIs ==
    ASSUME NEW X, NEW s \in Seq(X), NEW n \in Nat
    PROVE  LET t == FirstOf(s, n) IN
           /\ t \in Seq(X) /\ Len(t) = (IF n <= Len(s) THEN n ELSE Len(s))
           /\ \A k \in DOMAIN t : k \in DOMAIN s /\ t[k] = s[k]
           /\ Within(t, s, DOMAIN s)
<1>1. PICK m \in Nat : m = IF n <= Len(s) THEN n ELSE Len(s)
      OBVIOUS
<1>2. PICK t : t = FirstOf(s, n)
      OBVIOUS
<1>3. t = SubSeq(s, 1, m)
  <2>1. Len(s) \in Nat /\ Min({n, Len(s)}) = m
        BY <1>1, LesserOf
  <2> QED BY <1>2, <2>1 DEF FirstOf
<1>4. 1 \in Nat /\ m <= Len(s) /\ 1 .. m \subseteq DOMAIN s
      BY <1>1
<1>5. t = [k \in 1 .. m |-> s[k]]
      BY <1>3, <1>4
<1>6. t \in [1 .. m -> X] /\ \A k \in 1 .. m : t[k] = s[k] /\ k \in DOMAIN s
      BY <1>4, <1>5
<1>7. t \in Seq(X) /\ Len(t) = m /\ DOMAIN t = 1 .. m
      BY <1>6, SequenceOf
<1>8. Within(t, s, DOMAIN s)
  <2>1. [k \in DOMAIN t |-> k] \in [DOMAIN t -> DOMAIN s]
        BY <1>6, <1>7
  <2> QED BY <1>6, <1>7, <2>1 DEF Within
<1> QED BY <1>1, <1>2, <1>6, <1>7, <1>8

\* The head that fit_to_budget takes is within the budget; an empty one always is.
LEMMA FitIs ==
    ASSUME NEW X, Sized(X), NEW s \in Seq(X), NEW max \in Nat
    PROVE  Fit(s, max) \in 0 .. Len(s) /\ Tokens(FirstOf(s, Fit(s, max))) <= max
<1> DEFINE fits == {n \in 0 .. Len(s) : Tokens(FirstOf(s, n)) <= max}
<1>1. Len(s) \in Nat /\ fits \in SUBSET Nat /\ \A n \in fits : n <= Len(s)
      OBVIOUS
<1>2. FirstOf(s, 0) = << >>
  <2>1. FirstOf(s, 0) \in Seq(X) /\ Len(FirstOf(s, 0)) = 0
        BY <1>1, FirstOfIs
  <2> QED BY <2>1
<1>3. 0 \in fits
      BY <1>1, <1>2, NoItemNoTokens
<1>4. Max(fits) \in fits
  <2> HIDE DEF fits
  <2>1. fits # {}
        BY <1>3
  <2> QED BY <1>1, <2>1, MaxIsGreatest
<1> QED BY <1>4 DEF Fit

\* What is cut twice, by the budget and by a limit, is within both.
LEMMA FitItemsIs ==
    ASSUME NEW X, Sized(X), NEW s \in Seq(X), NEW limit \in Nat
    PROVE  LET t == FitItems(s, limit) IN
           /\ t \in Seq(X) /\ Len(t) \in Nat /\ Len(t) <= limit /\ Len(t) <= Len(s)
           /\ \A k \in DOMAIN t : k \in DOMAIN s /\ t[k] = s[k]
           /\ Tokens(t) \in Nat /\ Tokens(t) <= MaxTokens
<1>1. MaxTokens \in Nat /\ Len(s) \in Nat
      BY RecallAssumption
<1>2. PICK n \in Nat : n = Fit(s, MaxTokens) /\ n <= Len(s) /\ Tokens(FirstOf(s, n)) <= MaxTokens
      BY <1>1, FitIs
<1>3. PICK m \in Nat : m = Min({n, limit}) /\ m <= n /\ m <= limit
      BY LesserOf
<1>4. PICK u : u = FirstOf(s, n)
      OBVIOUS
<1>5. PICK t : t = FirstOf(s, m)
      OBVIOUS
<1>6. t = FitItems(s, limit)
      BY <1>2, <1>3, <1>5 DEF FitItems
<1>7. /\ u \in Seq(X) /\ Len(u) = n /\ \A k \in DOMAIN u : u[k] = s[k]
      /\ t \in Seq(X) /\ Len(t) = m /\ \A k \in DOMAIN t : k \in DOMAIN s /\ t[k] = s[k]
  <2>1. u \in Seq(X) /\ Len(u) = n /\ \A k \in DOMAIN u : u[k] = s[k]
        BY <1>2, <1>4, FirstOfIs
  <2>2. t \in Seq(X) /\ Len(t) = m /\ \A k \in DOMAIN t : k \in DOMAIN s /\ t[k] = s[k]
    <3>1. m \in Nat /\ m <= Len(s)
          BY <1>1, <1>2, <1>3
    <3> QED BY <1>5, <3>1, FirstOfIs
  <2> QED BY <2>1, <2>2
<1>8. Within(t, u, DOMAIN u)
  <2>1. DOMAIN t = 1 .. m /\ DOMAIN u = 1 .. n /\ 1 .. m \subseteq 1 .. n
        BY <1>3, <1>7
  <2>2. [k \in DOMAIN t |-> k] \in [DOMAIN t -> DOMAIN u]
        BY <2>1
  <2> QED BY <1>7, <2>1, <2>2 DEF Within
<1>9. Tokens(t) \in Nat /\ Tokens(u) \in Nat /\ Tokens(t) <= Tokens(u)
      BY <1>7, <1>8, FewerTokens
<1>10. Tokens(t) <= MaxTokens
  <2>1. Tokens(u) <= MaxTokens
        BY <1>2, <1>4
  <2> QED BY <1>1, <1>9, <2>1
<1>11. Len(t) \in Nat /\ Len(t) <= limit /\ Len(t) <= Len(s)
      BY <1>1, <1>2, <1>3, <1>7
<1> QED BY <1>6, <1>7, <1>9, <1>10, <1>11

-----------------------------------------------------------------------------
(* The invariant *)

RowFields == {"uuid", "sources", "live", "bank", "kind", "text", "words", "tokens"}

\* A row has a size, is worded as its text is, and stands on facts; a fact on
\* nothing.
RowSound(i, r) ==
    /\ DOMAIN r = RowFields /\ r.tokens \in Nat
    /\ \E u \in Texts : r.text = u.text /\ r.words = u.words
    /\ r.sources \subseteq FactRows /\ (i \in FactRows => r.sources = {})

TableSound == DOMAIN table = Rowid /\ \A i \in Rowid : RowSound(i, table[i])

OtherBanks == ToSet(FallbackBanks) \ {Home}
AskTyped ==
    /\ ask = [pc |-> ask.pc, bank |-> ask.bank, embedded |-> ask.embedded, floor |-> ask.floor,
              kinds |-> ask.kinds, exclude |-> ask.exclude, near |-> ask.near, hits |-> ask.hits,
              read |-> ask.read, ranked |-> ask.ranked, kept |-> ask.kept, items |-> ask.items,
              left |-> ask.left]
    /\ ask.embedded \in BOOLEAN /\ ask.floor \in Nat
    /\ \A i \in DOMAIN ask.near : ask.near[i] \in Nat
    /\ ask.bank \in {Home} \cup OtherBanks /\ ask.left \in Seq(OtherBanks)
    /\ ask.pc = "none" => ask.bank = Home

\* What was read are rows as they were; for the bank at hand, live rows of it.
ReadSound ==
    /\ DOMAIN ask.read \subseteq Rowid
    /\ \A i \in DOMAIN ask.read : RowSound(i, ask.read[i])
    /\ ask.pc \in {"expand", "extend", "rank"} =>
          \A i \in DOMAIN ask.read : ask.read[i].live /\ ask.read[i].bank = ask.bank

\* What the fallback banks gave so far.
ItemSound(t) ==
    /\ t.near \in Nat /\ t.row.tokens \in Nat
    /\ t.row.live /\ t.row.kind \in ask.kinds /\ t.row.uuid \notin ask.exclude
Gathered ==
    ask.pc # "answered" =>
       /\ ask.items \in Seq(ToSet(ask.items))
       /\ ask.bank = Home => ask.items = << >>
       /\ \A k \in DOMAIN ask.items : ItemSound(ask.items[k]) /\ ask.items[k].row.bank # Home

\* While rows are read there is no ranking of them.
Unranked == ask.pc \in {"hydrate", "expand", "extend", "rank"} => ask.ranked = << >>

RecallInv == TableSound /\ AskTyped /\ ReadSound /\ Gathered /\ Unranked /\ AnswerIsSound

-----------------------------------------------------------------------------
(* What a ranking comes to *)

\* A ranking is a sequence of rows that were read, of the kinds asked for.
LEMMA RankingIs ==
    ASSUME ReadSound, NEW s \in Rankings
    PROVE  s \in Seq(Keep(DOMAIN ask.near \cup ask.hits))
<1>1. PICK ids : ids = Keep(DOMAIN ask.near \cup ask.hits)
      OBVIOUS
<1>2. PICK S \in Scored : s \in SetToSeqs(S)
      BY DEF Rankings
<1>3. S \subseteq ids
      BY <1>1, <1>2 DEF Scored, kSubset
<1>4. ids \subseteq Rowid
      BY <1>1 DEF Keep, ReadSound
<1>5. IsFiniteSet(S) /\ Cardinality(S) \in Nat
  <2>1. S \subseteq Rowid /\ IsFiniteSet(Rowid)
        BY <1>3, <1>4, RecallAssumption
  <2> QED BY <2>1, FS_Subset, FS_CardinalityType
<1>6. PICK n \in Nat : n = Cardinality(S)
      BY <1>5
<1>7. s \in [1 .. n -> S]
      BY <1>2, <1>6 DEF SetToSeqs
<1>8. s \in [1 .. n -> ids]
      BY <1>3, <1>7
<1>9. s \in Seq(ids)
      BY <1>8, SequenceOf
<1> QED BY <1>1, <1>9

\* An observation and its sources are told apart, so what is restated once is
\* not restated again.
StandsOnce(read, ranked, kept) ==
    LET rows == ToSet(ranked)
        left == ToSet(kept)
        on(i) == read[i].sources \cap rows
        apart == \A i, j \in rows : i # j => on(i) \cap on(j) = {}
    IN  \A i \in rows :
           IF i \in left THEN on(i) \cap left = {}
           ELSE apart => \/ on(i) \cap left # {}
                         \/ \E o \in left : i \in on(o)

\* The second half of the property, said of any ranking.
LEMMA OnceIsRestatedOnce == RestatedOnce <=> StandsOnce(ask.read, ask.ranked, ask.kept)
BY DEF RestatedOnce, StandsOnce, SourcesIn

\* What goes out of a ranking as restated leaves a ranking that says a thing
\* once: facts stand on nothing, so a source is never an observation too.
LEMMA RankedStandsOnce ==
    ASSUME ReadSound, NEW s \in Seq(DOMAIN ask.read), NEW left,
           ToSet(left) = ToSet(s) \ Restated(s)
    PROVE  StandsOnce(ask.read, s, left)
<1> DEFINE rows == ToSet(s)
           on(i) == ask.read[i].sources \cap rows
           observations == {i \in rows : on(i) # {}}
           stands == {i \in observations : \A j \in on(i) : RankOf(s, i) <= RankOf(s, j)}
           apart == \A i, j \in rows : i # j => on(i) \cap on(j) = {}
<1>1. Restated(s) = (observations \ stands) \cup UNION {on(i) : i \in stands}
      BY DEF Restated, SourcesIn
<1>2. rows \subseteq DOMAIN ask.read
      BY DEF ToSet
<1>3. ASSUME NEW i \in rows, NEW j \in on(i) PROVE j \in rows /\ on(j) = {}
  <2>1. RowSound(i, ask.read[i]) /\ i \in DOMAIN ask.read
        BY <1>2 DEF ReadSound
  <2>2. j \in FactRows /\ j \in rows
        BY <2>1, <1>3 DEF RowSound
  <2>3. RowSound(j, ask.read[j])
        BY <1>2, <2>2 DEF ReadSound
  <2> QED BY <2>2, <2>3 DEF RowSound
<1>4. stands \subseteq observations /\ observations \subseteq rows
      OBVIOUS
<1>5. \A i \in observations : on(i) # {}
      OBVIOUS
<1> HIDE DEF stands
<1>6. ASSUME NEW i \in rows, i \in ToSet(left) PROVE on(i) \cap ToSet(left) = {}
  <2>1. i \notin observations \ stands
        BY <1>1, <1>6
  <2>2. CASE on(i) = {}
        BY <2>2
  <2>3. CASE on(i) # {}
    <3>1. i \in stands
          BY <2>1, <2>3
    <3>2. on(i) \subseteq Restated(s)
          BY <1>1, <3>1
    <3> QED BY <3>2
  <2> QED BY <2>2, <2>3
<1>7. ASSUME NEW i \in rows, i \notin ToSet(left), apart
      PROVE  on(i) \cap ToSet(left) # {} \/ \E o \in ToSet(left) : i \in on(o)
  <2>1. i \in Restated(s)
        BY <1>7
  <2>2. CASE i \in observations \ stands
    <3>1. PICK j : j \in on(i)
          BY <1>5, <2>2
    <3>2. j \in rows /\ on(j) = {}
          BY <1>3, <3>1
    <3>3. j \notin observations
          BY <1>5, <3>2
    <3>4. ASSUME NEW k \in stands, j \in on(k) PROVE FALSE
      <4>1. k \in rows /\ k # i
            BY <1>4, <2>2, <3>4
      <4>2. on(i) \cap on(k) = {}
            BY <1>7, <4>1
      <4> QED BY <3>1, <3>4, <4>2
    <3>5. j \notin Restated(s)
          BY <1>1, <3>3, <3>4
    <3>6. j \in ToSet(left)
          BY <3>2, <3>5
    <3> QED BY <3>1, <3>6
  <2>3. CASE \E k \in stands : i \in on(k)
    <3>1. PICK k \in stands : i \in on(k)
          BY <2>3
    <3>2. k \in rows /\ on(k) # {}
          BY <1>4, <1>5, <3>1
    <3>3. ASSUME NEW m \in stands, k \in on(m) PROVE FALSE
      <4>1. m \in rows
            BY <1>4
      <4> QED BY <1>3, <3>2, <3>3, <4>1
    <3>4. k \notin Restated(s)
          BY <1>1, <3>1, <3>3
    <3>5. k \in ToSet(left)
          BY <3>2, <3>4
    <3> QED BY <3>1, <3>5
  <2> QED BY <1>1, <2>1, <2>2, <2>3
<1> QED BY <1>6, <1>7 DEF StandsOnce

\* No two items have the same words; some of the items neither.
Apart(s) == \A k, l \in DOMAIN s : k # l => s[k].row.words # s[l].row.words

LEMMA WithinStaysApart ==
    ASSUME NEW s, NEW t, NEW K \in SUBSET (DOMAIN s), Within(t, s, K), Apart(s)
    PROVE  Apart(t)
BY DEF Within, Apart

\* A selection that looks at each item for itself.
LEMMA UnknownIs ==
    ASSUME NEW X, Sized(X), NEW s \in Seq(X)
    PROVE  LET t == Unknown(s) IN
           /\ t \in Seq(X) /\ Len(t) \in Nat /\ Len(t) <= Len(s)
           /\ Tokens(t) \in Nat /\ Tokens(s) \in Nat /\ Tokens(t) <= Tokens(s)
           /\ Apart(s) => Apart(t)
           /\ \A k \in DOMAIN t : t[k].row.uuid \notin ask.exclude
<1>1. PICK K : K = {n \in DOMAIN s : s[n].row.uuid \notin ask.exclude}
      OBVIOUS
<1>2. PICK t : t = Unknown(s)
      OBVIOUS
<1>3. t = Picked(s, K) /\ K \in SUBSET (DOMAIN s)
      BY <1>1, <1>2 DEF Unknown
<1>4. t \in Seq(X) /\ Len(t) \in Nat /\ Len(t) <= Len(s) /\ Within(t, s, K)
      BY <1>3, PickedIs
<1>5. Tokens(t) \in Nat /\ Tokens(s) \in Nat /\ Tokens(t) <= Tokens(s)
      BY <1>3, <1>4, FewerTokens
<1>6. Apart(s) => Apart(t)
      BY <1>3, <1>4, WithinStaysApart
<1>7. \A k \in DOMAIN t : t[k].row.uuid \notin ask.exclude
      BY <1>1, <1>4 DEF Within
<1> QED BY <1>2, <1>4, <1>5, <1>6, <1>7

\* The floor is one more.
LEMMA AboveFloorIs ==
    ASSUME NEW X, Sized(X), \A t \in X : t.near \in Nat, NEW s \in Seq(X), NEW floor \in Nat
    PROVE  LET t == AboveFloor(s, floor) IN
           /\ t \in Seq(X) /\ Len(t) \in Nat /\ Len(t) <= Len(s)
           /\ Tokens(t) \in Nat /\ Tokens(s) \in Nat /\ Tokens(t) <= Tokens(s)
           /\ Apart(s) => Apart(t)
           /\ \A k \in DOMAIN t : t[k].near >= floor
           /\ \A k \in DOMAIN t : \E l \in DOMAIN s : t[k] = s[l]
<1>1. PICK K : K = {n \in DOMAIN s : floor > 0 => s[n].near >= floor}
      OBVIOUS
<1>2. PICK t : t = AboveFloor(s, floor)
      OBVIOUS
<1>3. t = Picked(s, K) /\ K \in SUBSET (DOMAIN s)
      BY <1>1, <1>2 DEF AboveFloor
<1>4. t \in Seq(X) /\ Len(t) \in Nat /\ Len(t) <= Len(s) /\ Within(t, s, K)
      BY <1>3, PickedIs
<1>5. Tokens(t) \in Nat /\ Tokens(s) \in Nat /\ Tokens(t) <= Tokens(s)
      BY <1>3, <1>4, FewerTokens
<1>6. Apart(s) => Apart(t)
      BY <1>3, <1>4, WithinStaysApart
<1>7. ASSUME NEW k \in DOMAIN t
      PROVE  t[k].near >= floor /\ \E l \in DOMAIN s : t[k] = s[l]
  <2>1. PICK l \in K : t[k] = s[l]
        BY <1>4 DEF Within
  <2>2. l \in DOMAIN s /\ s[l] \in X /\ (floor > 0 => s[l].near >= floor)
        BY <1>1, <2>1
  <2>3. s[l].near \in Nat
        BY <2>2
  <2> QED BY <2>1, <2>2, <2>3
<1> QED BY <1>2, <1>4, <1>5, <1>6, <1>7

\* Worded keeps one item of each wording.
LEMMA WordedIs ==
    ASSUME NEW X, NEW s \in Seq(X)
    PROVE  /\ Worded(s) \in Seq(X)
           /\ \A k, l \in DOMAIN Worded(s) :
                 k # l => ask.read[Worded(s)[k]].words # ask.read[Worded(s)[l]].words
<1>1. PICK K : K = {n \in DOMAIN s : \A k \in DOMAIN s :
                       ask.read[s[k]].words = ask.read[s[n]].words => n <= k}
      OBVIOUS
<1>2. PICK t : t = Worded(s)
      OBVIOUS
<1>3. t = Picked(s, K) /\ K \in SUBSET (DOMAIN s)
      BY <1>1, <1>2 DEF Worded
<1>4. t \in Seq(X) /\ Within(t, s, K)
      BY <1>3, PickedIs
<1>5. PICK h \in [DOMAIN t -> K] :
         /\ \A k, l \in DOMAIN t : h[k] = h[l] => k = l
         /\ \A k \in DOMAIN t : t[k] = s[h[k]]
      BY <1>4 DEF Within
<1>6. ASSUME NEW k \in DOMAIN t, NEW l \in DOMAIN t,
             ask.read[t[k]].words = ask.read[t[l]].words
      PROVE  k = l
  <2>1. PICK m, n : m = h[k] /\ n = h[l]
        OBVIOUS
  <2>2. m \in K /\ n \in K /\ t[k] = s[m] /\ t[l] = s[n]
        BY <1>5, <2>1
  <2>3. m <= n /\ n <= m
        BY <1>1, <1>6, <2>2
  <2>4. m \in Nat /\ n \in Nat
        BY <1>3, <2>2
  <2>5. m = n
        BY <2>3, <2>4
  <2> QED BY <1>5, <2>1, <2>5
<1> QED BY <1>2, <1>4, <1>6

\* What an outcome is, of a bank at hand.
OutcomeSound(o, floor, limit) ==
    /\ o.items \in Seq(ToSet(o.items)) /\ Len(o.items) <= limit
    /\ Tokens(o.items) <= MaxTokens /\ Apart(o.items)
    /\ \A k \in DOMAIN o.items :
          LET t == o.items[k] IN
          /\ ItemSound(t) /\ t.row.bank = ask.bank /\ (ask.embedded => t.near >= floor)
          /\ \E u \in Texts : t.row.text = u.text /\ t.row.words = u.words
    /\ StandsOnce(ask.read, o.ranked, o.left)

\* The ranking of a bank at hand, its cuts and what it withholds, one after
\* the other.
LEMMA OutcomeIs ==
    ASSUME AskTyped, ReadSound, ask.pc = "rank", NEW floor \in Nat, NEW limit \in Nat,
           NEW o \in Outcomes(floor, limit)
    PROVE  OutcomeSound(o, floor, limit)
<1> DEFINE rows == Keep(DOMAIN ask.near \cup ask.hits)
           X == {Item(i) : i \in rows}
           f == IF ask.embedded THEN floor ELSE 0
<1>1. PICK s \in Rankings :
         LET gone == Restated(s)
             left == Picked(s, {n \in DOMAIN s : s[n] \notin gone})
             worded == Worded(left)
             fit == FitItems([k \in DOMAIN worded |-> Item(worded[k])], limit)
         IN  o = [ranked |-> s, left |-> left, items |-> Withheld(fit, floor),
                  excluded |-> Unknown(fit) # fit]
      BY DEF Outcomes
<1>2. PICK K, left : K = {n \in DOMAIN s : s[n] \notin Restated(s)} /\ left = Picked(s, K)
      OBVIOUS
<1>3. PICK worded : worded = Worded(left)
      OBVIOUS
<1>4. PICK listed : listed = [k \in DOMAIN worded |-> Item(worded[k])]
      OBVIOUS
<1>5. PICK fit, known : fit = FitItems(listed, limit) /\ known = Unknown(fit)
      OBVIOUS
<1>6. PICK items : items = AboveFloor(known, f)
      OBVIOUS
<1>7. o.ranked = s /\ o.left = left /\ o.items = items
      BY <1>1, <1>2, <1>3, <1>4, <1>5, <1>6 DEF Withheld
<1>8. s \in Seq(rows) /\ rows \subseteq DOMAIN ask.read
      BY RankingIs DEF Keep
<1>9. /\ K \in SUBSET (DOMAIN s) /\ left \in Seq(rows) /\ Within(left, s, K)
      /\ \A x \in K : \E k \in DOMAIN left : left[k] = s[x]
  <2> HIDE DEF rows
  <2>1. K \in SUBSET (DOMAIN s)
        BY <1>2
  <2> QED BY <1>2, <1>8, <2>1, PickedIs
<1>10. ToSet(left) = ToSet(s) \ Restated(s)
  <2>1. \A k \in DOMAIN left : \E n \in K : left[k] = s[n]
        BY <1>9 DEF Within
  <2>2. \A n \in DOMAIN s : n \in K <=> s[n] \notin Restated(s)
        BY <1>2
  <2> QED BY <1>9, <2>1, <2>2 DEF ToSet
<1>11. StandsOnce(ask.read, s, left)
  <2>1. s \in Seq(DOMAIN ask.read)
    <3> HIDE DEF rows
    <3>1. PICK n \in Nat : n = Len(s) /\ DOMAIN s = 1 .. n
          BY <1>8
    <3>2. s \in [1 .. n -> DOMAIN ask.read]
          BY <1>8, <3>1
    <3> QED BY <3>2, SequenceOf
  <2> QED BY <1>10, <2>1, RankedStandsOnce
<1>12. /\ worded \in Seq(rows)
       /\ \A k, l \in DOMAIN worded :
             k # l => ask.read[worded[k]].words # ask.read[worded[l]].words
  <2> HIDE DEF rows
  <2> QED BY <1>3, <1>9, WordedIs
<1>13. \A i \in rows :
          /\ Item(i).row = ask.read[i] /\ Item(i).near \in Nat
          /\ RowSound(i, ask.read[i]) /\ ask.read[i].live /\ ask.read[i].bank = ask.bank
          /\ ask.read[i].kind \in ask.kinds
      BY DEF Item, AskTyped, ReadSound, Keep
<1>14. Sized(X) /\ \A t \in X : t.near \in Nat
  <2> HIDE DEF rows
  <2>1. \A t \in X : t.row.tokens \in Nat /\ t.near \in Nat
    <3> SUFFICES ASSUME NEW i \in rows PROVE Item(i).row.tokens \in Nat /\ Item(i).near \in Nat
        OBVIOUS
    <3> QED BY <1>13 DEF RowSound
  <2> QED BY <2>1 DEF Sized
<1>15. listed \in Seq(X) /\ Apart(listed)
  <2>1. PICK n \in Nat : n = Len(worded) /\ DOMAIN worded = 1 .. n
        BY <1>12
  <2>2. \A k \in 1 .. n : worded[k] \in rows
        BY <1>12, <2>1
  <2> HIDE DEF rows
  <2>3. listed \in [1 .. n -> X]
        BY <1>4, <2>1, <2>2
  <2>4. DOMAIN listed = 1 .. n /\ \A k \in 1 .. n : listed[k].row = ask.read[worded[k]]
        BY <1>4, <1>13, <2>1, <2>2
  <2>5. Apart(listed)
        BY <1>12, <2>1, <2>4 DEF Apart
  <2> HIDE DEF X
  <2> QED BY <2>3, <2>5, SequenceOf
<1> HIDE DEF X
<1>16. /\ fit \in Seq(X) /\ Len(fit) \in Nat /\ Len(fit) <= limit
       /\ \A k \in DOMAIN fit : k \in DOMAIN listed /\ fit[k] = listed[k]
       /\ Tokens(fit) \in Nat /\ Tokens(fit) <= MaxTokens
      BY <1>5, <1>14, <1>15, FitItemsIs
<1>17. Apart(fit)
      BY <1>15, <1>16 DEF Apart
<1>18. /\ known \in Seq(X) /\ Len(known) \in Nat /\ Len(known) <= Len(fit)
       /\ Tokens(known) \in Nat /\ Tokens(known) <= Tokens(fit) /\ Apart(known)
       /\ \A k \in DOMAIN known : known[k].row.uuid \notin ask.exclude
      BY <1>5, <1>14, <1>16, <1>17, UnknownIs
<1>19. f \in Nat
      OBVIOUS
<1>20. /\ items \in Seq(X) /\ Len(items) \in Nat /\ Len(items) <= Len(known)
       /\ Tokens(items) \in Nat /\ Tokens(items) <= Tokens(known) /\ Apart(items)
       /\ \A k \in DOMAIN items : items[k].near >= f
       /\ \A k \in DOMAIN items : \E l \in DOMAIN known : items[k] = known[l]
  <2> HIDE DEF f
  <2> QED BY <1>6, <1>14, <1>18, <1>19, AboveFloorIs
<1>21. MaxTokens \in Nat
      BY RecallAssumption
<1>22. Len(items) <= limit /\ Tokens(items) <= MaxTokens
      BY <1>16, <1>18, <1>20, <1>21
<1>23. items \in Seq(ToSet(items))
  <2>1. PICK n \in Nat : n = Len(items) /\ DOMAIN items = 1 .. n
        BY <1>20
  <2>2. items = [k \in 1 .. n |-> items[k]]
        BY <1>20, <2>1
  <2>3. items \in [1 .. n -> ToSet(items)]
        BY <2>1, <2>2 DEF ToSet
  <2> QED BY <2>3, SequenceOf
<1>24. ASSUME NEW k \in DOMAIN items
       PROVE  /\ ItemSound(items[k]) /\ items[k].row.bank = ask.bank
              /\ ask.embedded => items[k].near >= floor
              /\ \E u \in Texts : items[k].row.text = u.text /\ items[k].row.words = u.words
  <2>1. items[k] \in X
        BY <1>20
  <2>2. PICK i \in rows : items[k] = Item(i)
        BY <2>1 DEF X
  <2>3. PICK r : r = ask.read[i]
        OBVIOUS
  <2>4. /\ items[k].row = r /\ items[k].near \in Nat /\ RowSound(i, r)
        /\ r.live /\ r.bank = ask.bank /\ r.kind \in ask.kinds
        BY <1>13, <2>2, <2>3
  <2>5. items[k].row.uuid \notin ask.exclude
        BY <1>18, <1>20
  <2>6. ask.embedded => items[k].near >= floor
        BY <1>20
  <2> QED BY <2>4, <2>5, <2>6 DEF ItemSound, RowSound
<1> QED BY <1>7, <1>11, <1>20, <1>22, <1>23, <1>24 DEF OutcomeSound

\* The floor of the fallback banks is a score.
LEMMA FloorIsNat ==
    ASSUME AskTyped
    PROVE  FloorElsewhere \in Nat
<1>1. FallbackFloor \in Nat /\ ask.floor \in Nat
      BY RecallAssumption DEF AskTyped
<1>2. PICK b \in Nat : FallbackFloor <= b /\ ask.floor <= b
  <2>1. FallbackFloor + ask.floor \in Nat
        BY <1>1
  <2> QED BY <1>1, <2>1
<1>3. Max({FallbackFloor, ask.floor}) \in {FallbackFloor, ask.floor}
      BY <1>1, <1>2, MaxIsGreatest
<1> QED BY <1>1, <1>3 DEF FloorElsewhere

\* What the fallback banks gave, merged: near items, no text twice, cut again.
LEMMA MergedIs ==
    ASSUME AskTyped, NEW items, items \in Seq(ToSet(items)),
           \A k \in DOMAIN items : ItemSound(items[k]) /\ items[k].row.bank # Home
    PROVE  LET t == Merged(items) IN
           /\ t \in Seq(ToSet(items)) /\ Len(t) \in Nat /\ Len(t) <= FallbackLimit
           /\ Tokens(t) <= MaxTokens
           /\ \A k \in DOMAIN t : /\ t[k] \in ToSet(items) /\ t[k].near >= FloorElsewhere
                                  /\ \A l \in DOMAIN t \ {k} : t[l].row.text # t[k].row.text
<1>1. PICK X : X = ToSet(items)
      OBVIOUS
<1>2. \A t \in X : ItemSound(t)
      BY <1>1 DEF ToSet
<1>3. Sized(X) /\ (\A t \in X : t.near \in Nat) /\ items \in Seq(X)
      BY <1>1, <1>2 DEF Sized, ItemSound
<1> DEFINE floored == AboveFloor(items, FloorElsewhere)
           places == DOMAIN floored
           nearer == {m \in places \X places : \/ floored[m[1]].near > floored[m[2]].near
                                              \/ /\ floored[m[1]].near = floored[m[2]].near
                                                 /\ m[1] < m[2]}
           order == InOrder(places, nearer)
           sorted == [n \in DOMAIN order |-> floored[order[n]]]
           K == {n \in DOMAIN sorted : \A l \in 1 .. n - 1 :
                    /\ sorted[l].row.text # sorted[n].row.text
                    /\ sorted[l].row.uuid # sorted[n].row.uuid}
           unique == Picked(sorted, K)
<1>4. Merged(items) = FitItems(unique, FallbackLimit)
      BY DEF Merged
<1> HIDE DEF unique
<1>5. K \in SUBSET (DOMAIN sorted)
      OBVIOUS
<1>6. unique = Picked(sorted, K)
      BY DEF unique
<1>7. \A n \in K : \A l \in 1 .. n - 1 : sorted[l].row.text # sorted[n].row.text
      OBVIOUS
<1> HIDE DEF K
<1>8. sorted = [n \in DOMAIN order |-> floored[order[n]]]
      OBVIOUS
<1> HIDE DEF sorted
<1>9. order = InOrder(places, nearer)
      OBVIOUS
<1> HIDE DEF order
<1>10. /\ floored \in Seq(X) /\ Len(floored) \in Nat
       /\ \A k \in DOMAIN floored : floored[k].near >= FloorElsewhere
  <2> HIDE DEF nearer
  <2> QED BY <1>3, FloorIsNat, AboveFloorIs
<1> HIDE DEF floored
<1>11. /\ places \in SUBSET Nat /\ IsFiniteSet(places) /\ Cardinality(places) \in Nat
       /\ \A k \in places : floored[k].near \in Nat
  <2>1. places = 1 .. Len(floored)
        BY <1>10
  <2>2. IsFiniteSet(1 .. Len(floored))
        BY <1>10, FS_Interval
  <2>3. \A k \in places : floored[k] \in X
        BY <1>10
  <2>4. \A k \in places : floored[k].near \in Nat
        BY <1>3, <2>3
  <2>5. places \in SUBSET Nat
        BY <1>10, <2>1
  <2> HIDE DEF places
  <2> QED BY <2>1, <2>2, <2>4, <2>5, FS_CardinalityType
<1> HIDE DEF places
<1>12. Orders(places, nearer)
  <2>1. PICK near : near = [k \in places |-> floored[k].near]
        OBVIOUS
  <2>2. near \in [places -> Nat]
        BY <1>11, <2>1
  <2>3. \A k, l \in places :
           << k, l >> \in nearer <=> near[k] > near[l] \/ (near[k] = near[l] /\ k < l)
        BY <2>1
  <2>4. \A k \in places : k \in Nat /\ near[k] \in Nat
        BY <1>11, <2>2
  <2> HIDE DEF nearer
  <2>5. \A k \in places : << k, k >> \notin nearer
        BY <2>3, <2>4
  <2>6. \A k, l \in places : k # l => << k, l >> \in nearer \/ << l, k >> \in nearer
        BY <2>3, <2>4
  <2>7. ASSUME NEW k \in places, NEW l \in places, NEW m \in places,
               << k, l >> \in nearer, << l, m >> \in nearer
        PROVE  << k, m >> \in nearer
    <3>1. /\ near[k] > near[l] \/ (near[k] = near[l] /\ k < l)
          /\ near[l] > near[m] \/ (near[l] = near[m] /\ l < m)
          BY <2>3, <2>7
    <3>2. near[k] > near[m] \/ (near[k] = near[m] /\ k < m)
          BY <2>4, <3>1
    <3> QED BY <2>3, <3>2
  <2> QED BY <2>5, <2>6, <2>7 DEF Orders
<1> HIDE DEF nearer
<1>13. PICK n \in Nat : n = Cardinality(places)
      BY <1>11
<1>14. order \in [1 .. n -> places]
      BY <1>9, <1>11, <1>12, <1>13, InOrderLists
<1>15. sorted \in [1 .. n -> X]
      BY <1>8, <1>10, <1>14 DEF places
<1>16. sorted \in Seq(X) /\ DOMAIN sorted = 1 .. n
      BY <1>15, SequenceOf
<1>17. \A k \in DOMAIN sorted : sorted[k].near >= FloorElsewhere
  <2> SUFFICES ASSUME NEW k \in 1 .. n PROVE sorted[k].near >= FloorElsewhere
      BY <1>16
  <2>1. PICK l : l = order[k] /\ l \in DOMAIN floored
        BY <1>14 DEF places
  <2>2. sorted[k] = floored[l]
        BY <1>8, <1>14, <2>1
  <2> QED BY <1>10, <2>1, <2>2
<1>19. unique \in Seq(X) /\ Within(unique, sorted, K)
      BY <1>5, <1>6, <1>16, PickedIs
<1>20. PICK h : /\ h \in [DOMAIN unique -> K]
                /\ \A k, l \in DOMAIN unique : h[k] = h[l] => k = l
                /\ \A k \in DOMAIN unique : unique[k] = sorted[h[k]]
      BY <1>19 DEF Within
<1>21. ASSUME NEW k \in DOMAIN unique, NEW l \in DOMAIN unique,
              unique[k].row.text = unique[l].row.text
       PROVE  k = l
  <2>1. PICK a, b : a = h[k] /\ b = h[l]
        OBVIOUS
  <2>2. a \in K /\ b \in K /\ unique[k] = sorted[a] /\ unique[l] = sorted[b]
        BY <1>20, <2>1
  <2>3. a \in 1 .. n /\ b \in 1 .. n
        BY <1>16, <1>5, <2>2
  <2>4. sorted[a].row.text = sorted[b].row.text
        BY <1>21, <2>2
  <2>5. ~ (a < b)
    <3> SUFFICES ASSUME a < b PROVE FALSE
        OBVIOUS
    <3>1. a \in 1 .. b - 1
          BY <2>3
    <3> QED BY <1>7, <2>2, <2>4, <3>1
  <2>6. ~ (b < a)
    <3> SUFFICES ASSUME b < a PROVE FALSE
        OBVIOUS
    <3>1. b \in 1 .. a - 1
          BY <2>3
    <3> QED BY <1>7, <2>2, <2>4, <3>1
  <2>7. a = b
        BY <2>3, <2>5, <2>6
  <2> QED BY <1>20, <2>1, <2>7
<1>22. PICK t : t = Merged(items)
      OBVIOUS
<1>23. /\ t \in Seq(X) /\ Len(t) \in Nat /\ Len(t) <= FallbackLimit /\ Tokens(t) <= MaxTokens
       /\ \A k \in DOMAIN t : k \in DOMAIN unique /\ t[k] = unique[k]
  <2>1. FallbackLimit \in Nat
        BY RecallAssumption
  <2> QED BY <1>3, <1>4, <1>19, <1>22, <2>1, FitItemsIs
<1>24. ASSUME NEW k \in DOMAIN t
       PROVE  /\ t[k] \in X /\ t[k].near >= FloorElsewhere
              /\ \A l \in DOMAIN t \ {k} : t[l].row.text # t[k].row.text
  <2>1. t[k] \in X
        BY <1>23
  <2>2. k \in DOMAIN unique /\ t[k] = unique[k]
        BY <1>23
  <2>3. h[k] \in DOMAIN sorted /\ t[k] = sorted[h[k]]
        BY <1>5, <1>20, <2>2
  <2>4. t[k].near >= FloorElsewhere
        BY <1>17, <2>3
  <2>5. \A l \in DOMAIN t \ {k} : t[l].row.text # t[k].row.text
        BY <1>21, <1>23
  <2> QED BY <2>1, <2>4, <2>5
<1> QED BY <1>1, <1>22, <1>23, <1>24

-----------------------------------------------------------------------------
(* Every step *)

\* A row that is written.
LEMMA NewRowIsSound ==
    ASSUME NEW i, NEW uuid, NEW bank, NEW kind, NEW sources, sources \subseteq FactRows,
           i \in FactRows => sources = {}, NEW t \in Texts
    PROVE  RowSound(i, NewRow(uuid, bank, kind, sources, t))
BY RecallAssumption DEF RowSound, NewRow, RowFields

\* At first the rows are as they were written and nothing was asked.
LEMMA RecallStarts ==
    ASSUME RecallInit
    PROVE  RecallInv
<1>1. ask = NoRequest
      BY DEF RecallInit
<1>2. ask.pc = "none" /\ ask.items = << >> /\ ask.ranked = << >> /\ ask.kept = << >>
      /\ ask.near = << >> /\ ask.read = << >> /\ ask.left = << >> /\ ask.bank = Home
      /\ ask.embedded = FALSE /\ ask.floor = 0
      BY <1>1 DEF NoRequest
<1>3. AskTyped
      BY <1>1, <1>2 DEF AskTyped, NoRequest
<1>4. ReadSound /\ Gathered /\ Unranked
      BY <1>2 DEF ReadSound, Gathered, Unranked
<1>5. ToSet(<< >>) = {}
      BY DEF ToSet
<1>6. AnswerIsSound
      BY <1>2, <1>5 DEF AnswerIsSound, AnswerFits, RestatedOnce
<1>7. TableSound
  <2>1. PICK sources \in [Rowid -> SUBSET FactRows] :
           /\ \A i \in Rowid : i \in FactRows => sources[i] = {}
           /\ table = [i \in Rowid |-> NewRow(i, TableAtFirst[i].bank, TableAtFirst[i].kind,
                                              sources[i], TableAtFirst[i])]
        BY DEF RecallInit
  <2>2. ASSUME NEW i \in Rowid PROVE RowSound(i, table[i])
    <3>1. TableAtFirst[i] \in Texts
          BY <2>2 DEF Texts, ToSet, Rowid
    <3>2. table[i] = NewRow(i, TableAtFirst[i].bank, TableAtFirst[i].kind, sources[i],
                            TableAtFirst[i])
          BY <2>1
    <3>3. sources[i] \subseteq FactRows /\ (i \in FactRows => sources[i] = {})
          BY <2>1
    <3> QED BY <3>1, <3>2, <3>3, NewRowIsSound
  <2> QED BY <2>1, <2>2 DEF TableSound
<1> QED BY <1>3, <1>4, <1>6, <1>7 DEF RecallInv

\* The lemmas that follow are of one step each.
HydratedSound(f) ==
    /\ DOMAIN f \subseteq Rowid
    /\ \A i \in DOMAIN f : RowSound(i, f[i]) /\ f[i].live /\ f[i].bank = ask.bank

\* hydrate gives live rows of the bank.
LEMMA HydratedIs ==
    ASSUME TableSound, NEW ids
    PROVE  HydratedSound(Hydrated(ids))
BY DEF TableSound, Hydrated, HydratedSound, InBank

\* With nothing ranked nothing is said twice.
LEMMA NothingRanked ==
    ASSUME NEW read, NEW kept
    PROVE  StandsOnce(read, << >>, kept)
BY DEF StandsOnce, ToSet

\* The table changes, the request does not.
LEMMA ChangesKeepRecall ==
    ASSUME RecallInv, Retract \/ Reuse
    PROVE  RecallInv'
<1>1. UNCHANGED ask
      BY DEF Retract, Reuse
<1>2. AskTyped' /\ ReadSound' /\ Gathered' /\ Unranked' /\ AnswerIsSound'
  <2>1. AskTyped' /\ ReadSound' /\ Unranked'
        BY <1>1 DEF RecallInv, AskTyped, ReadSound, RowSound, Unranked
  <2>2. Gathered'
        BY <1>1 DEF RecallInv, Gathered, ItemSound
  <2>3. AnswerIsSound'
    <3>1. AnswerFits'
          BY <1>1 DEF RecallInv, AnswerIsSound, AnswerFits
    <3>2. RestatedOnce'
          BY <1>1 DEF RecallInv, AnswerIsSound, RestatedOnce, SourcesIn
    <3> QED BY <3>1, <3>2 DEF AnswerIsSound
  <2> QED BY <2>1, <2>2, <2>3
<1>3. DOMAIN table = Rowid /\ \A i \in Rowid : RowSound(i, table[i])
      BY DEF RecallInv, TableSound
<1>4. CASE Retract
  <2>1. PICK i \in Rowid : table' = [table EXCEPT ![i].live = FALSE]
        BY <1>3, <1>4 DEF Retract
  <2>2. DOMAIN table' = Rowid
        BY <1>3, <2>1
  <2>3. ASSUME NEW j \in Rowid PROVE RowSound(j, table'[j])
    <3>1. PICK r : r = table[j]
          OBVIOUS
    <3>2. RowSound(j, r)
          BY <1>3, <3>1
    <3>3. table'[j] = IF j = i THEN [r EXCEPT !.live = FALSE] ELSE r
          BY <1>3, <2>1, <3>1
    <3>4. RowSound(j, [r EXCEPT !.live = FALSE])
          BY <3>2 DEF RowSound, RowFields
    <3> QED BY <3>2, <3>3, <3>4
  <2> QED BY <1>2, <2>2, <2>3 DEF RecallInv, TableSound
<1>5. CASE Reuse
  <2>1. PICK i \in FactRows, b \in {Home} \cup ToSet(FallbackBanks) :
           table' = [j \in DOMAIN table |-> IF j = i THEN NewRow(100 + i, b, "fact", {}, TextOfNew)
                                            ELSE [table[j] EXCEPT !.sources = @ \ {i}]]
        BY <1>5 DEF Reuse
  <2>2. DOMAIN table' = Rowid
        BY <1>3, <2>1
  <2>3. ASSUME NEW j \in Rowid PROVE RowSound(j, table'[j])
    <3>1. PICK r : r = table[j]
          OBVIOUS
    <3>2. RowSound(j, r)
          BY <1>3, <3>1
    <3>3. CASE j = i
      <4>1. table'[j] = NewRow(100 + i, b, "fact", {}, TextOfNew)
            BY <1>3, <2>1, <3>3
      <4>2. TextOfNew \in Texts
            BY DEF Texts
      <4> QED BY <4>1, <4>2, NewRowIsSound
    <3>4. CASE j # i
      <4>1. table'[j] = [r EXCEPT !.sources = @ \ {i}]
            BY <1>3, <2>1, <3>1, <3>4
      <4>2. RowSound(j, [r EXCEPT !.sources = @ \ {i}])
            BY <3>2 DEF RowSound, RowFields
      <4> QED BY <4>1, <4>2
    <3> QED BY <3>3, <3>4
  <2> QED BY <1>2, <2>2, <2>3 DEF RecallInv, TableSound
<1> QED BY <1>4, <1>5

\* A step of the request leaves the table.
LEMMA TableStays ==
    ASSUME TableSound, UNCHANGED table
    PROVE  TableSound'
BY DEF TableSound, RowSound

\* A step before the ranking, of a bank that has none yet.
LEMMA ReadingGoesOn ==
    ASSUME RecallInv, UNCHANGED table, ask.pc # "answered", AskTyped', ReadSound', Unranked',
           ask'.pc # "answered", ask'.bank = ask.bank, ask'.items = ask.items,
           ask.items = << >> \/ \A t : ItemSound(t) => ItemSound(t)',
           StandsOnce(ask'.read, ask'.ranked, ask'.kept)
    PROVE  RecallInv'
<1>1. Gathered'
      BY DEF RecallInv, Gathered
<1>2. AnswerIsSound'
  <2>1. AnswerFits'
        BY DEF AnswerFits
  <2>2. RestatedOnce'
        BY DEF RestatedOnce, StandsOnce, SourcesIn
  <2> QED BY <2>1, <2>2 DEF AnswerIsSound
<1>3. TableSound'
      BY TableStays DEF RecallInv
<1> QED BY <1>1, <1>2, <1>3 DEF RecallInv

\* A request comes in.
LEMMA AskKeepsRecall ==
    ASSUME RecallInv, AskRecall
    PROVE  RecallInv'
<1>1. PICK embedded \in BOOLEAN, floor \in 0 .. Nearest,
           kinds \in {{"fact"}, {"fact", "observation"}},
           exclude \in {{}} \cup {{table[i].uuid} : i \in DOMAIN table} :
         ask' = [ask EXCEPT !.pc = "search", !.embedded = embedded, !.floor = floor,
                            !.kinds = kinds, !.exclude = exclude]
      BY DEF AskRecall
<1>2. /\ AskTyped /\ ReadSound /\ Gathered /\ ask.pc = "none" /\ UNCHANGED table
      /\ StandsOnce(ask.read, ask.ranked, ask.kept)
      BY OnceIsRestatedOnce DEF RecallInv, AskRecall, AnswerIsSound
<1>3. /\ ask'.pc = "search" /\ ask'.embedded = embedded /\ ask'.floor = floor
      /\ ask'.kinds = kinds /\ ask'.exclude = exclude
      /\ ask'.bank = ask.bank /\ ask'.near = ask.near /\ ask'.hits = ask.hits
      /\ ask'.read = ask.read /\ ask'.ranked = ask.ranked /\ ask'.kept = ask.kept
      /\ ask'.items = ask.items /\ ask'.left = ask.left
      BY <1>1, <1>2 DEF AskTyped
<1>4. floor \in Nat
      BY RecallAssumption
<1>5. AskTyped'
      BY <1>1, <1>2, <1>3, <1>4 DEF AskTyped
<1>6. ReadSound' /\ Unranked'
      BY <1>2, <1>3 DEF ReadSound, RowSound, Unranked
<1>7. ask.items = << >>
      BY <1>2 DEF AskTyped, Gathered
<1>8. StandsOnce(ask'.read, ask'.ranked, ask'.kept)
      BY <1>2, <1>3
<1> QED BY <1>2, <1>3, <1>5, <1>6, <1>7, <1>8, ReadingGoesOn

\* The arms of a bank find what they find.
LEMMA SearchKeepsRecall ==
    ASSUME RecallInv, Search
    PROVE  RecallInv'
<1>1. PICK near, found :
         /\ \A i \in DOMAIN near : near[i] \in 0 .. Nearest
         /\ ask' = [ask EXCEPT !.pc = "hydrate", !.ranked = << >>, !.kept = << >>,
                               !.near = Beside(near, [i \in found |-> 0])]
  <2>1. PICK semantic \in Semantic, keyword \in Keyword, temporal \in Temporal :
           ask' = [ask EXCEPT !.pc = "hydrate", !.ranked = << >>, !.kept = << >>,
                     !.near = Beside(semantic, [i \in DOMAIN semantic \cup keyword \cup temporal |-> 0])]
        BY DEF Search
  <2>2. \A i \in DOMAIN semantic : semantic[i] \in 0 .. Nearest
        BY DEF Semantic
  <2> QED BY <2>1, <2>2
<1>2. /\ AskTyped /\ ReadSound /\ ask.pc = "search" /\ UNCHANGED table
      BY DEF RecallInv, Search
<1>3. /\ ask'.pc = "hydrate" /\ ask'.ranked = << >> /\ ask'.kept = << >>
      /\ ask'.near = Beside(near, [i \in found |-> 0])
      /\ ask'.bank = ask.bank /\ ask'.embedded = ask.embedded /\ ask'.floor = ask.floor
      /\ ask'.kinds = ask.kinds /\ ask'.exclude = ask.exclude /\ ask'.hits = ask.hits
      /\ ask'.read = ask.read /\ ask'.items = ask.items /\ ask'.left = ask.left
      BY <1>1, <1>2 DEF AskTyped
<1>4. \A i \in DOMAIN ask'.near : ask'.near[i] \in Nat
  <2>1. Nearest \in Nat /\ \A n \in 0 .. Nearest : n \in Nat
        BY RecallAssumption
  <2> QED BY <1>1, <1>3, <2>1 DEF Beside
<1>5. AskTyped'
      BY <1>1, <1>2, <1>3, <1>4 DEF AskTyped
<1>6. ReadSound' /\ Unranked'
      BY <1>2, <1>3 DEF ReadSound, RowSound, Unranked
<1>7. \A t : ItemSound(t) => ItemSound(t)'
      BY <1>3 DEF ItemSound
<1>8. StandsOnce(ask'.read, ask'.ranked, ask'.kept)
      BY <1>3, NothingRanked
<1> QED BY <1>2, <1>3, <1>5, <1>6, <1>7, <1>8, ReadingGoesOn

\* What a step that reads rows leaves alone.
Reads(pc) ==
    /\ ask'.pc = pc /\ UNCHANGED table /\ UNCHANGED << ask.bank, ask.embedded, ask.floor >>
    /\ UNCHANGED << ask.kinds, ask.exclude, ask.near, ask.ranked, ask.kept, ask.items, ask.left >>
    /\ ask' = [pc |-> ask'.pc, bank |-> ask'.bank, embedded |-> ask'.embedded,
               floor |-> ask'.floor, kinds |-> ask'.kinds, exclude |-> ask'.exclude,
               near |-> ask'.near, hits |-> ask'.hits, read |-> ask'.read,
               ranked |-> ask'.ranked, kept |-> ask'.kept, items |-> ask'.items,
               left |-> ask'.left]

\* Rows that were read are of the bank at hand and live.
LEMMA ReadsKeepRecall ==
    ASSUME RecallInv, ask.pc \in {"hydrate", "expand", "extend"},
           NEW pc \in {"expand", "extend", "rank"}, Reads(pc), HydratedSound(ask'.read)
    PROVE  RecallInv'
<1>1. ask.ranked = << >> /\ AskTyped
      BY DEF RecallInv, Unranked
<1>2. AskTyped'
      BY <1>1 DEF AskTyped, Reads
<1>3. ReadSound'
      BY DEF ReadSound, RowSound, HydratedSound, Reads
<1>4. Unranked' /\ ask'.ranked = << >>
      BY <1>1 DEF Unranked, Reads
<1>5. \A t : ItemSound(t) => ItemSound(t)'
      BY DEF ItemSound, Reads
<1>6. StandsOnce(ask'.read, ask'.ranked, ask'.kept)
      BY <1>4, NothingRanked
<1>7. /\ UNCHANGED table /\ ask.pc # "answered" /\ ask'.pc # "answered"
      /\ ask'.bank = ask.bank /\ ask'.items = ask.items
      BY DEF Reads
<1> QED BY <1>2, <1>3, <1>4, <1>5, <1>6, <1>7, ReadingGoesOn

\* The rows are read, before the graph is asked and behind it.
LEMMA ReadingKeepsRecall ==
    ASSUME RecallInv, Hydrate \/ Expand \/ Extend
    PROVE  RecallInv'
<1>1. AskTyped /\ ReadSound /\ TableSound
      BY DEF RecallInv
<1>2. CASE Hydrate
  <2>1. /\ ask.pc = "hydrate" /\ UNCHANGED table
        /\ ask' = [ask EXCEPT !.pc = "expand", !.read = Hydrated(DOMAIN ask.near)]
        BY <1>2 DEF Hydrate
  <2>2. Reads("expand") /\ ask'.read = Hydrated(DOMAIN ask.near)
        BY <1>1, <2>1 DEF AskTyped, Reads
  <2>3. HydratedSound(ask'.read)
        BY <1>1, <2>2, HydratedIs
  <2> QED BY <2>1, <2>2, <2>3, ReadsKeepRecall
<1>3. CASE Expand
  <2>1. PICK pc, hits :
           /\ pc \in {"extend", "rank"} /\ ask.pc = "expand" /\ UNCHANGED table
           /\ ask' = [ask EXCEPT !.pc = pc, !.hits = hits]
        BY <1>3 DEF Expand
  <2>2. Reads(pc) /\ ask'.read = ask.read
        BY <1>1, <2>1 DEF AskTyped, Reads
  <2>3. HydratedSound(ask'.read)
        BY <1>1, <2>1, <2>2 DEF ReadSound, HydratedSound
  <2> QED BY <2>1, <2>2, <2>3, ReadsKeepRecall
<1>4. CASE Extend
  <2>1. PICK f : f = Hydrated(ask.hits \ DOMAIN ask.read)
        OBVIOUS
  <2>2. /\ ask.pc = "extend" /\ UNCHANGED table
        /\ ask' = [ask EXCEPT !.pc = "rank", !.read = Beside(ask.read, f)]
        BY <1>1, <1>4, <2>1 DEF Extend
  <2>3. Reads("rank") /\ ask'.read = Beside(ask.read, f)
        BY <1>1, <2>2 DEF AskTyped, Reads
  <2>4. HydratedSound(f)
        BY <1>1, <2>1, HydratedIs
  <2>5. HydratedSound(ask.read)
        BY <1>1, <2>2 DEF ReadSound, HydratedSound
  <2>6. HydratedSound(ask'.read)
        BY <2>3, <2>4, <2>5 DEF HydratedSound, Beside
  <2> QED BY <2>2, <2>3, <2>6, ReadsKeepRecall
<1> QED BY <1>2, <1>3, <1>4

-----------------------------------------------------------------------------
\* The banks that are left to ask are others.
LEMMA OthersAreOther == Others \in Seq(OtherBanks)
<1>1. PICK X, K : X = ToSet(FallbackBanks) /\ K = {n \in DOMAIN FallbackBanks : FallbackBanks[n] # Home}
      OBVIOUS
<1>2. FallbackBanks \in Seq(X) /\ K \in SUBSET (DOMAIN FallbackBanks)
      BY <1>1, RecallAssumption
<1>3. PICK t : t = Others
      OBVIOUS
<1>4. t = Picked(FallbackBanks, K)
      BY <1>1, <1>3 DEF Others
<1>5. t \in Seq(X) /\ Within(t, FallbackBanks, K)
      BY <1>2, <1>4, PickedIs
<1>6. PICK n \in Nat : n = Len(t) /\ DOMAIN t = 1 .. n
      BY <1>5
<1>7. t \in [1 .. n -> OtherBanks]
  <2>1. \A k \in 1 .. n : t[k] \in X /\ t[k] # Home
        BY <1>1, <1>5, <1>6 DEF Within
  <2>2. t = [k \in 1 .. n |-> t[k]]
        BY <1>5, <1>6
  <2> QED BY <1>1, <2>1, <2>2 DEF OtherBanks
<1> QED BY <1>3, <1>7, SequenceOf

\* What every ranking of a bank leaves as it was.
Ranks(o) ==
    /\ UNCHANGED table /\ UNCHANGED << ask.embedded, ask.floor, ask.kinds, ask.exclude >>
    /\ UNCHANGED << ask.near, ask.hits, ask.read >>
    /\ ask'.ranked = o.ranked /\ ask'.kept = o.left
    /\ ask' = [pc |-> ask'.pc, bank |-> ask'.bank, embedded |-> ask'.embedded,
               floor |-> ask'.floor, kinds |-> ask'.kinds, exclude |-> ask'.exclude,
               near |-> ask'.near, hits |-> ask'.hits, read |-> ask'.read,
               ranked |-> ask'.ranked, kept |-> ask'.kept, items |-> ask'.items,
               left |-> ask'.left]

\* A bank is done with, when what is left to do or to give fits.
LEMMA RanksKeepRecall ==
    ASSUME RecallInv, NEW o, Ranks(o), StandsOnce(ask.read, o.ranked, o.left),
           ask'.pc \in {"search", "answered"}, ask'.bank \in {Home} \cup OtherBanks,
           ask'.left \in Seq(OtherBanks), Gathered', AnswerFits'
    PROVE  RecallInv'
<1>1. AskTyped'
      BY DEF RecallInv, AskTyped, Ranks
<1>2. ReadSound' /\ Unranked'
      BY DEF RecallInv, ReadSound, RowSound, Unranked, Ranks
<1>3. TableSound'
      BY TableStays DEF RecallInv, Ranks
<1>4. RestatedOnce'
  <2>1. StandsOnce(ask'.read, ask'.ranked, ask'.kept)
        BY DEF Ranks
  <2> QED BY <2>1 DEF RestatedOnce, StandsOnce, SourcesIn
<1> QED BY <1>1, <1>2, <1>3, <1>4 DEF RecallInv, AnswerIsSound

\* The bank asked: what it gives is the answer, or others are asked and it
\* gave nothing.
LEMMA RankHomeKeepsRecall ==
    ASSUME RecallInv, RankHome
    PROVE  RecallInv'
<1>1. /\ AskTyped /\ ReadSound /\ Gathered /\ ask.pc = "rank" /\ ask.bank = Home
      /\ UNCHANGED table
      BY DEF RecallInv, RankHome
<1>2. PICK o \in Outcomes(ask.floor, Limit), wanted \in BOOLEAN :
         LET fallback == o.items = << >> /\ ~o.excluded /\ Others # << >> /\ wanted IN
         ask' = [ask EXCEPT !.pc = IF fallback THEN "search" ELSE "answered",
                            !.bank = IF fallback THEN Head(Others) ELSE Home,
                            !.left = IF fallback THEN Tail(Others) ELSE << >>,
                            !.ranked = o.ranked, !.kept = o.left, !.items = o.items]
      BY DEF RankHome
<1>3. PICK fallback \in BOOLEAN :
         fallback <=> o.items = << >> /\ ~o.excluded /\ Others # << >> /\ wanted
      OBVIOUS
<1>4. /\ ask'.pc = (IF fallback THEN "search" ELSE "answered")
      /\ ask'.bank = (IF fallback THEN Head(Others) ELSE Home)
      /\ ask'.left = (IF fallback THEN Tail(Others) ELSE << >>)
      /\ ask'.items = o.items /\ Ranks(o)
      BY <1>1, <1>2, <1>3 DEF AskTyped, Ranks
<1>5. Limit \in Nat /\ ask.floor \in Nat
      BY <1>1, RecallAssumption DEF AskTyped
<1>6. OutcomeSound(o, ask.floor, Limit)
      BY <1>1, <1>5, OutcomeIs
<1>7. StandsOnce(ask.read, o.ranked, o.left)
      BY <1>6 DEF OutcomeSound
<1>8. CASE fallback
  <2>1. Others \in Seq(OtherBanks) /\ Others # << >> /\ o.items = << >>
        BY <1>3, <1>8, OthersAreOther
  <2>2. Head(Others) \in OtherBanks /\ Tail(Others) \in Seq(OtherBanks)
        BY <2>1
  <2>3. ask'.pc = "search" /\ ask'.bank \in OtherBanks /\ ask'.left \in Seq(OtherBanks)
        BY <1>4, <1>8, <2>2
  <2>4. Gathered'
    <3>1. ask'.items = << >>
          BY <1>4, <2>1
    <3>2. << >> \in Seq(ToSet(<< >>))
          OBVIOUS
    <3> QED BY <3>1, <3>2 DEF Gathered
  <2>5. AnswerFits'
        BY <2>3 DEF AnswerFits
  <2> QED BY <1>4, <1>7, <2>3, <2>4, <2>5, RanksKeepRecall
<1>9. CASE ~fallback
  <2>1. ask'.pc = "answered" /\ ask'.bank = Home /\ ask'.left = << >> /\ ask'.items = o.items
        BY <1>4, <1>9
  <2>2. Gathered' /\ << >> \in Seq(OtherBanks)
        BY <2>1 DEF Gathered
  <2>3. \A k \in DOMAIN o.items :
           LET t == o.items[k] IN
           /\ t.row.live /\ t.row.kind \in ask.kinds /\ t.row.uuid \notin ask.exclude
           /\ t.row.bank = Home /\ k <= Limit /\ (ask.embedded => t.near >= ask.floor)
           /\ \A l \in DOMAIN o.items \ {k} : o.items[l].row.text # t.row.text
    <3> SUFFICES ASSUME NEW k \in DOMAIN o.items
                 PROVE  LET t == o.items[k] IN
                        /\ t.row.live /\ t.row.kind \in ask.kinds /\ t.row.uuid \notin ask.exclude
                        /\ t.row.bank = Home /\ k <= Limit /\ (ask.embedded => t.near >= ask.floor)
                        /\ \A l \in DOMAIN o.items \ {k} : o.items[l].row.text # t.row.text
        OBVIOUS
    <3>1. /\ ItemSound(o.items[k]) /\ o.items[k].row.bank = Home
          /\ ask.embedded => o.items[k].near >= ask.floor
          BY <1>1, <1>6 DEF OutcomeSound
    <3>2. k <= Limit
      <4>1. o.items \in Seq(ToSet(o.items)) /\ Len(o.items) <= Limit
            BY <1>6 DEF OutcomeSound
      <4>2. k \in 1 .. Len(o.items) /\ Len(o.items) \in Nat
            BY <4>1
      <4> QED BY <1>5, <4>1, <4>2
    <3>3. ASSUME NEW l \in DOMAIN o.items \ {k}, o.items[l].row.text = o.items[k].row.text
          PROVE  FALSE
      <4>1. PICK r, q : r = o.items[k].row /\ q = o.items[l].row
            OBVIOUS
      <4>2. PICK u \in Texts : r.text = u.text /\ r.words = u.words
            BY <1>6, <4>1 DEF OutcomeSound
      <4>3. PICK v \in Texts : q.text = v.text /\ q.words = v.words
            BY <1>6, <4>1 DEF OutcomeSound
      <4>4. u.words = v.words
            BY <3>3, <4>1, <4>2, <4>3, RecallAssumption
      <4>5. r.words # q.words
            BY <1>6, <4>1 DEF OutcomeSound, Apart
      <4> QED BY <4>2, <4>3, <4>4, <4>5
    <3> QED BY <3>1, <3>2, <3>3 DEF ItemSound
  <2>4. Tokens(o.items) <= MaxTokens
        BY <1>6 DEF OutcomeSound
  <2>5. AnswerFits'
        BY <1>4, <2>1, <2>3, <2>4 DEF AnswerFits, Ranks
  <2> QED BY <1>4, <1>7, <2>1, <2>2, <2>5, RanksKeepRecall
<1> QED BY <1>8, <1>9

\* What a bank's items add to those of the banks before it.
LEMMA MoreIsGathered ==
    ASSUME NEW s, NEW t, s \in Seq(ToSet(s)), t \in Seq(ToSet(t)), NEW P,
           \A k \in DOMAIN s : s[k] \in P, \A k \in DOMAIN t : t[k] \in P
    PROVE  s \o t \in Seq(ToSet(s \o t)) /\ \A k \in DOMAIN (s \o t) : (s \o t)[k] \in P
<1>1. PICK X : X = ToSet(s) \cup ToSet(t)
      OBVIOUS
<1>2. s \in Seq(X) /\ t \in Seq(X)
      BY <1>1
<1>3. PICK r : r = s \o t
      OBVIOUS
<1>4. /\ r \in Seq(X) /\ Len(r) \in Nat /\ DOMAIN r = 1 .. Len(r)
      /\ Len(s) \in Nat /\ Len(t) \in Nat /\ DOMAIN s = 1 .. Len(s) /\ DOMAIN t = 1 .. Len(t)
      /\ Len(r) = Len(s) + Len(t)
      /\ \A k \in 1 .. Len(r) : r[k] = IF k <= Len(s) THEN s[k] ELSE t[k - Len(s)]
      BY <1>2, <1>3, ConcatProperties
<1>5. \A k \in DOMAIN r : r[k] \in P
  <2> SUFFICES ASSUME NEW k \in 1 .. Len(r) PROVE r[k] \in P
      BY <1>4
  <2>1. CASE k <= Len(s)
    <3>1. k \in DOMAIN s /\ r[k] = s[k]
          BY <1>4, <2>1
    <3> QED BY <3>1
  <2>2. CASE ~(k <= Len(s))
    <3>1. k - Len(s) \in 1 .. Len(t)
          BY <1>4, <2>2
    <3>2. r[k] = t[k - Len(s)]
          BY <1>4, <2>2
    <3> QED BY <1>4, <3>1, <3>2
  <2> QED BY <2>1, <2>2
<1>6. r \in Seq(ToSet(r))
  <2>1. r = [k \in 1 .. Len(r) |-> r[k]]
        BY <1>4
  <2>2. \A k \in 1 .. Len(r) : r[k] \in ToSet(r)
        BY <1>4 DEF ToSet
  <2>3. r \in [1 .. Len(r) -> ToSet(r)]
        BY <2>1, <2>2
  <2> QED BY <1>4, <2>3, SequenceOf
<1> QED BY <1>3, <1>5, <1>6

\* A fallback bank: what it gives is added, or with it the answer is made.
LEMMA RankFallbackKeepsRecall ==
    ASSUME RecallInv, RankFallback
    PROVE  RecallInv'
<1>1. /\ AskTyped /\ ReadSound /\ Gathered /\ ask.pc = "rank" /\ ask.bank # Home
      /\ UNCHANGED table /\ ask.bank \in OtherBanks
      BY DEF RecallInv, RankFallback, AskTyped
<1>2. PICK o \in Outcomes(FloorElsewhere, FallbackLimit), fails \in BOOLEAN :
         LET items == ask.items \o (IF fails THEN << >> ELSE o.items) IN
         ask' = IF ask.left = << >>
                THEN [ask EXCEPT !.pc = "answered", !.items = Merged(items),
                                 !.ranked = o.ranked, !.kept = o.left]
                ELSE [ask EXCEPT !.pc = "search", !.bank = Head(ask.left), !.left = Tail(ask.left),
                                 !.items = items, !.ranked = o.ranked, !.kept = o.left]
      BY DEF RankFallback
<1>3. PICK added : added = (IF fails THEN << >> ELSE o.items)
      OBVIOUS
<1>4. PICK items : items = ask.items \o added
      OBVIOUS
<1>5. ask' = IF ask.left = << >>
             THEN [ask EXCEPT !.pc = "answered", !.items = Merged(items),
                              !.ranked = o.ranked, !.kept = o.left]
             ELSE [ask EXCEPT !.pc = "search", !.bank = Head(ask.left), !.left = Tail(ask.left),
                              !.items = items, !.ranked = o.ranked, !.kept = o.left]
      BY <1>2, <1>3, <1>4
<1>6. OutcomeSound(o, FloorElsewhere, FallbackLimit)
  <2>1. FallbackLimit \in Nat /\ FloorElsewhere \in Nat
        BY <1>1, RecallAssumption, FloorIsNat
  <2> QED BY <1>1, <2>1, OutcomeIs
<1>7. StandsOnce(ask.read, o.ranked, o.left)
      BY <1>6 DEF OutcomeSound
<1>8. /\ items \in Seq(ToSet(items))
      /\ \A k \in DOMAIN items : ItemSound(items[k]) /\ items[k].row.bank # Home
  <2> DEFINE P == {t \in ToSet(ask.items) \cup ToSet(added) : ItemSound(t) /\ t.row.bank # Home}
  <2>1. added \in Seq(ToSet(added))
    <3>1. << >> \in Seq(ToSet(<< >>))
          OBVIOUS
    <3>2. o.items \in Seq(ToSet(o.items))
          BY <1>6 DEF OutcomeSound
    <3> QED BY <1>3, <3>1, <3>2
  <2>2. \A k \in DOMAIN added : ItemSound(added[k]) /\ added[k].row.bank # Home
    <3>1. CASE fails
      <4>1. DOMAIN added = {}
            BY <1>3, <3>1
      <4> QED BY <4>1
    <3>2. CASE ~fails
      <4>1. added = o.items
            BY <1>3, <3>2
      <4> QED BY <1>1, <1>6, <4>1 DEF OutcomeSound
    <3> QED BY <3>1, <3>2
  <2>3. /\ ask.items \in Seq(ToSet(ask.items))
        /\ \A k \in DOMAIN ask.items : ItemSound(ask.items[k]) /\ ask.items[k].row.bank # Home
        BY <1>1 DEF Gathered
  <2>4. \A k \in DOMAIN added : added[k] \in P
        BY <2>2 DEF ToSet
  <2>5. \A k \in DOMAIN ask.items : ask.items[k] \in P
        BY <2>3 DEF ToSet
  <2>6. \A t \in P : ItemSound(t) /\ t.row.bank # Home
        OBVIOUS
  <2> HIDE DEF P
  <2>7. items \in Seq(ToSet(items)) /\ \A k \in DOMAIN items : items[k] \in P
        BY <1>4, <2>1, <2>3, <2>4, <2>5, MoreIsGathered
  <2> QED BY <2>6, <2>7
<1>9. CASE ask.left = << >>
  <2>1. PICK t : t = Merged(items)
        OBVIOUS
  <2>2. ask' = [ask EXCEPT !.pc = "answered", !.items = t, !.ranked = o.ranked, !.kept = o.left]
        BY <1>5, <1>9, <2>1
  <2>3. /\ ask'.pc = "answered" /\ ask'.bank = ask.bank /\ ask'.left = << >>
        /\ ask'.items = t /\ Ranks(o)
        BY <1>1, <1>9, <2>2 DEF AskTyped, Ranks
  <2>4. Gathered' /\ << >> \in Seq(OtherBanks)
        BY <2>3 DEF Gathered
  <2>5. /\ t \in Seq(ToSet(items)) /\ Len(t) \in Nat /\ Len(t) <= FallbackLimit
        /\ Tokens(t) <= MaxTokens
        /\ \A k \in DOMAIN t : /\ t[k] \in ToSet(items) /\ t[k].near >= FloorElsewhere
                               /\ \A l \in DOMAIN t \ {k} : t[l].row.text # t[k].row.text
        BY <1>1, <1>8, <2>1, MergedIs
  <2>6. \A k \in DOMAIN t : ItemSound(t[k]) /\ t[k].row.bank # Home
        BY <1>8, <2>5 DEF ToSet
  <2>7. \A k \in DOMAIN t : k <= FallbackLimit
    <3>1. FallbackLimit \in Nat
          BY RecallAssumption
    <3>2. \A k \in DOMAIN t : k \in 1 .. Len(t)
          BY <2>5
    <3> QED BY <2>5, <3>1, <3>2
  <2>8. \A k \in DOMAIN t :
           /\ t[k].row.live /\ t[k].row.kind \in ask.kinds /\ t[k].row.uuid \notin ask.exclude
           /\ t[k].row.bank # Home /\ k <= FallbackLimit /\ t[k].near >= Max({FallbackFloor, ask.floor})
           /\ \A l \in DOMAIN t : t[l].row.bank # Home
           /\ \A l \in DOMAIN t \ {k} : t[l].row.text # t[k].row.text
        BY <2>5, <2>6, <2>7 DEF ItemSound, FloorElsewhere
  <2>9. AnswerFits'
        BY <2>3, <2>5, <2>8 DEF AnswerFits, Ranks
  <2> QED BY <1>1, <1>7, <2>3, <2>4, <2>9, RanksKeepRecall
<1>10. CASE ask.left # << >>
  <2>1. ask.left \in Seq(OtherBanks)
        BY <1>1 DEF AskTyped
  <2>2. PICK b, left : b = Head(ask.left) /\ left = Tail(ask.left)
        OBVIOUS
  <2>3. b \in OtherBanks /\ left \in Seq(OtherBanks)
        BY <1>10, <2>1, <2>2
  <2>4. /\ ask'.pc = "search" /\ ask'.bank = b /\ ask'.left = left
        /\ ask'.items = items /\ Ranks(o)
        BY <1>1, <1>5, <1>10, <2>2 DEF AskTyped, Ranks
  <2>5. Gathered'
    <3>1. \A k \in DOMAIN items : ItemSound(items[k])'
          BY <1>8, <2>4 DEF ItemSound, Ranks
    <3>2. ask'.bank # Home
          BY <2>3, <2>4 DEF OtherBanks
    <3> QED BY <1>8, <2>4, <3>1, <3>2 DEF Gathered
  <2>6. AnswerFits'
        BY <2>4 DEF AnswerFits
  <2> QED BY <1>7, <2>3, <2>4, <2>5, <2>6, RanksKeepRecall
<1> QED BY <1>9, <1>10

\* Every step, and none.
LEMMA StepsKeepRecall ==
    ASSUME RecallInv, [RecallNext]_recallVars
    PROVE  RecallInv'
<1>1. CASE UNCHANGED recallVars
  <2>1. UNCHANGED table /\ UNCHANGED ask
        BY <1>1 DEF recallVars
  <2>2. TableSound' /\ AskTyped' /\ ReadSound' /\ Unranked'
        BY <2>1 DEF RecallInv, TableSound, AskTyped, ReadSound, RowSound, Unranked
  <2>3. Gathered'
        BY <2>1 DEF RecallInv, Gathered, ItemSound
  <2>4. AnswerFits'
        BY <2>1 DEF RecallInv, AnswerIsSound, AnswerFits
  <2>5. RestatedOnce'
        BY <2>1 DEF RecallInv, AnswerIsSound, RestatedOnce, SourcesIn
  <2> QED BY <2>2, <2>3, <2>4, <2>5 DEF RecallInv, AnswerIsSound
<1>2. CASE Retract \/ Reuse
      BY <1>2, ChangesKeepRecall
<1>3. CASE AskRecall
      BY <1>3, AskKeepsRecall
<1>4. CASE Search
      BY <1>4, SearchKeepsRecall
<1>5. CASE Hydrate \/ Expand \/ Extend
      BY <1>5, ReadingKeepsRecall
<1>6. CASE RankHome
      BY <1>6, RankHomeKeepsRecall
<1>7. CASE RankFallback
      BY <1>7, RankFallbackKeepsRecall
<1> QED BY <1>1, <1>2, <1>3, <1>4, <1>5, <1>6, <1>7 DEF RecallNext

\* Recall (recall/mod.rs, routes/recall.rs).  For any banks, rows, texts,
\* limits and budgets, whatever the arms find, however the scores order it and
\* however facts are retracted, deleted and written between the statements:
\* what goes into a prompt is within its budget and its limit, of live rows of
\* the bank asked or, near enough, of the others, without what the client has
\* and without one text twice; and no observation is left beside a fact it
\* stands on, nor is either dropped with nothing left to stand for it.
THEOREM AnswersAreSound == RecallSpec => []AnswerIsSound
<1>1. RecallInit => RecallInv
      BY RecallStarts
<1>2. RecallInv /\ [RecallNext]_recallVars => RecallInv'
      BY StepsKeepRecall
<1>3. RecallInv => AnswerIsSound
      BY DEF RecallInv
<1> QED BY <1>1, <1>2, <1>3, PTL DEF RecallSpec
=============================================================================
