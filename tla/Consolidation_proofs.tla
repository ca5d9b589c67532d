------------------------ MODULE Consolidation_proofs ------------------------
(***************************************************************************)
(* A bank's watermark passes decided facts only, a fact is applied once    *)
(* more only where a mark was lost, and no merge loses a source: for any   *)
(* numbers of facts, batches, observations and failures.                   *)
(*                                                                         *)
(* The argument is about the one round that is in progress, beside the     *)
(* strays of dropped ones.  Its facts are in rowid order with nothing      *)
(* undecided between them, its queue has the ranges that are left, one     *)
(* after the other, and everything before the next of them is decided.     *)
(***************************************************************************)
EXTENDS Consolidation, FiniteSetTheorems, TLAPS

(***************************************************************************)
(* The queue of ranges.                                                    *)
(***************************************************************************)

\* The ranges lie in 1 .. n, one after the other.
InOrder(queue, n) ==
    /\ queue \in Seq(Nat \X Nat)
    /\ \A k \in 1 .. Len(queue) :
          1 <= queue[k][1] /\ queue[k][1] <= queue[k][2] /\ queue[k][2] <= n
    /\ \A k \in 1 .. Len(queue) - 1 : queue[k + 1][1] = queue[k][2] + 1

StartsAt(queue, i) == queue # << >> => queue[1][1] = i

LEMMA RangesAreInOrder ==
    ASSUME NEW n \in Nat \ {0}
    PROVE  InOrder(Ranges(n), n) /\ StartsAt(Ranges(n), 1)
<1>. DEFINE L == LlmBatch
            count == (n + L - 1) \div L
<1>1. L \in Nat \ {0}
      BY ConsolidationAssumption
<1>2. count \in Nat /\ count * L <= n + L - 1
      BY <1>1
<1>. HIDE DEF count
<1>3. ASSUME NEW k \in 1 .. count
      PROVE  (k - 1) * L \in Nat /\ k * L = (k - 1) * L + L /\ (k - 1) * L + 1 <= n
  <2>1. k * L <= count * L
        BY <1>1, <1>2
  <2>2. (k - 1) * L = k * L - L
        BY <1>1, <1>2
  <2>3. (k - 1) * L \in Nat
        BY <1>1
  <2>4. k * L \in Nat
        BY <1>1, <1>2
  <2>. QED BY <1>1, <1>2, <2>1, <2>2, <2>3, <2>4
<1>. DEFINE lo(k) == (k - 1) * L + 1
            hi(k) == IF k * L < n THEN k * L ELSE n
<1>4. ASSUME NEW k \in 1 .. count
      PROVE  /\ lo(k) \in Nat /\ hi(k) \in Nat
             /\ 1 <= lo(k) /\ lo(k) <= hi(k) /\ hi(k) <= n
      BY <1>1, <1>3
<1>5. ASSUME NEW k \in 1 .. count - 1
      PROVE  lo(k + 1) = hi(k) + 1
  <2>1. k + 1 \in 1 .. count /\ k \in 1 .. count
        BY <1>2
  <2>2. (k + 1 - 1) * L + 1 <= n /\ k + 1 - 1 = k
        BY <1>3, <2>1
  <2>3. k * L + 1 <= n /\ k * L \in Nat
        BY <1>1, <2>2
  <2>. QED BY <2>2, <2>3
<1>6. lo(1) = 1
      BY <1>1
<1>7. Ranges(n) = [k \in 1 .. count |-> << lo(k), hi(k) >>]
      BY DEF Ranges, count
<1>. HIDE DEF lo, hi
<1>8. /\ Ranges(n) \in Seq(Nat \X Nat) /\ Len(Ranges(n)) = count
      /\ \A k \in 1 .. count : Ranges(n)[k][1] = lo(k) /\ Ranges(n)[k][2] = hi(k)
      BY <1>2, <1>4, <1>7
<1>9. InOrder(Ranges(n), n)
  <2>1. \A k \in 1 .. count : 1 <= Ranges(n)[k][1] /\ Ranges(n)[k][1] <= Ranges(n)[k][2]
                              /\ Ranges(n)[k][2] <= n
        BY <1>4, <1>8
  <2>2. \A k \in 1 .. count - 1 : Ranges(n)[k + 1][1] = Ranges(n)[k][2] + 1
    <3>. SUFFICES ASSUME NEW k \in 1 .. count - 1
                  PROVE  Ranges(n)[k + 1][1] = Ranges(n)[k][2] + 1
         OBVIOUS
    <3>1. k + 1 \in 1 .. count /\ k \in 1 .. count
          BY <1>2
    <3>. QED BY <1>5, <1>8, <3>1
  <2>. QED BY <1>8, <2>1, <2>2 DEF InOrder
<1>10. StartsAt(Ranges(n), 1)
      BY <1>2, <1>6, <1>8 DEF StartsAt
<1>. QED BY <1>9, <1>10

LEMMA QueueAdvances ==
    ASSUME NEW queue, NEW n \in Nat, InOrder(queue, n), queue # << >>
    PROVE  /\ Head(queue) \in Nat \X Nat /\ Head(queue) = queue[1]
           /\ InOrder(Tail(queue), n)
           /\ StartsAt(Tail(queue), Head(queue)[2] + 1)
<1>1. queue \in Seq(Nat \X Nat) /\ Len(queue) \in Nat \ {0}
      BY DEF InOrder
<1>2. /\ Tail(queue) \in Seq(Nat \X Nat) /\ Len(Tail(queue)) = Len(queue) - 1
      /\ \A k \in 1 .. Len(queue) - 1 : Tail(queue)[k] = queue[k + 1]
      BY <1>1
<1>3. Head(queue) \in Nat \X Nat /\ Head(queue) = queue[1]
      BY <1>1
<1>4. \A k \in 1 .. Len(queue) - 1 : k \in 1 .. Len(queue) /\ k + 1 \in 1 .. Len(queue)
      BY <1>1
<1>5. \A k \in 1 .. Len(queue) - 1 - 1 : k \in 1 .. Len(queue) - 1 /\ k + 1 \in 1 .. Len(queue) - 1
      BY <1>1
<1>6. InOrder(Tail(queue), n)
      BY <1>1, <1>2, <1>4, <1>5 DEF InOrder
<1>7. Tail(queue) # << >> => 1 \in 1 .. Len(queue) - 1
      BY <1>1, <1>2
<1>8. StartsAt(Tail(queue), queue[1][2] + 1)
  <2>. SUFFICES ASSUME Tail(queue) # << >> PROVE Tail(queue)[1][1] = queue[1][2] + 1
       BY DEF StartsAt
  <2>1. Tail(queue)[1] = queue[1 + 1]
        BY <1>2, <1>7
  <2>2. queue[1 + 1][1] = queue[1][2] + 1
        BY <1>7 DEF InOrder
  <2>. QED BY <2>1, <2>2
<1>. QED BY <1>3, <1>6, <1>8

LEMMA HalvesAreInOrder ==
    ASSUME NEW queue, NEW n \in Nat, InOrder(queue, n), NEW range \in Nat \X Nat,
           1 <= range[1], range[1] < range[2], range[2] <= n, StartsAt(queue, range[2] + 1)
    PROVE  InOrder(Halves(range) \o queue, n) /\ StartsAt(Halves(range) \o queue, range[1])
<1>. DEFINE lo == range[1]
            hi == range[2]
            mid == lo + (hi - lo + 1) \div 2
            longer == Halves(range) \o queue
<1>1. lo \in Nat /\ hi \in Nat /\ mid \in Nat /\ lo < mid /\ mid <= hi
      BY Z3
<1>. HIDE DEF mid
<1>2. Halves(range) = << << lo, mid - 1 >>, << mid, hi >> >>
      BY DEF Halves, mid
<1>3. queue \in Seq(Nat \X Nat) /\ Halves(range) \in Seq(Nat \X Nat) /\ Len(Halves(range)) = 2
      BY <1>1, <1>2 DEF InOrder
<1>4. /\ longer \in Seq(Nat \X Nat) /\ Len(longer) = Len(queue) + 2
      /\ longer[1] = << lo, mid - 1 >> /\ longer[2] = << mid, hi >>
      /\ \A j \in 1 .. Len(queue) : longer[j + 2] = queue[j]
      BY <1>2, <1>3
<1>. HIDE DEF longer
<1>5. Len(queue) \in Nat
      BY <1>3
<1>6. ASSUME NEW k \in 1 .. Len(longer)
      PROVE  1 <= longer[k][1] /\ longer[k][1] <= longer[k][2] /\ longer[k][2] <= n
  <2>1. CASE k = 1 \/ k = 2
        BY SMTT(60), <1>1, <1>4, <2>1
  <2>2. CASE k \in 3 .. Len(queue) + 2
    <3>1. PICK j \in 1 .. Len(queue) : k = j + 2
          BY <1>5, <2>2
    <3>. QED BY <1>4, <3>1 DEF InOrder
  <2>. QED BY <1>4, <1>5, <1>6, <2>1, <2>2
<1>7. ASSUME NEW k \in 1 .. Len(longer) - 1
      PROVE  longer[k + 1][1] = longer[k][2] + 1
  <2>1. CASE k = 1
        BY <1>1, <1>4, <2>1
  <2>2. CASE k = 2
    <3>1. 1 \in 1 .. Len(queue) /\ queue # << >>
          BY <1>3, <1>4, <1>5, <1>7, <2>2
    <3>2. longer[1 + 2] = queue[1]
          BY <1>4, <3>1
    <3>. QED BY SMTT(60), <1>1, <1>4, <2>2, <3>1, <3>2 DEF StartsAt
  <2>3. CASE k \in 3 .. Len(queue) + 1
    <3>1. PICK j \in 1 .. Len(queue) - 1 : k = j + 2
          BY <1>5, <2>3
    <3>2. j \in 1 .. Len(queue) /\ j + 1 \in 1 .. Len(queue) /\ k + 1 = (j + 1) + 2
          BY <1>5, <3>1
    <3>3. longer[k] = queue[j] /\ longer[k + 1] = queue[j + 1]
          BY <1>4, <3>1, <3>2
    <3>4. queue[j + 1][1] = queue[j][2] + 1
          BY DEF InOrder
    <3>. QED BY <3>3, <3>4
  <2>. QED BY <1>4, <1>5, <1>7, <2>1, <2>2, <2>3
<1>8. InOrder(longer, n)
      BY <1>4, <1>6, <1>7 DEF InOrder
<1>9. StartsAt(longer, lo)
      BY <1>4 DEF StartsAt
<1>. QED BY <1>8, <1>9 DEF longer

(***************************************************************************)
(* The round in progress.                                                  *)
(***************************************************************************)

Active(a) == round[a] # NoRound
Fields == {"pc", "facts", "queue", "range", "mark", "plan", "cands", "budget", "dirty"}
Phases == {"open", "next", "ask", "write", "dedup", "merge", "fail", "close"}
InBatch == {"ask", "write", "dedup", "merge"}

RoundTyped(r) ==
    /\ DOMAIN r = Fields
    /\ r.pc \in Phases
    /\ r.facts \in Seq(Nat)
    /\ r.range \in Nat \X Nat
    /\ r.mark \in Nat
    /\ r.dirty \in BOOLEAN

Settled == decided \cup withdrawn

\* Between the facts of a round, and before them, nothing is undecided.
FactsInOrder(facts) ==
    /\ \A i, j \in DOMAIN facts : i < j => facts[i] < facts[j]
    /\ \A i \in DOMAIN facts : \A f \in 1 .. facts[i] :
          f \in Settled \/ \E j \in DOMAIN facts : facts[j] = f

\* The facts before the i-th are decided, the others are after both marks.
DecidedTo(r, i) ==
    \A j \in DOMAIN r.facts : IF j < i THEN r.facts[j] \in Settled
                              ELSE r.facts[j] > r.mark

InPlace(r) ==
    /\ r.pc = "open" => ~r.dirty
    /\ r.pc \in {"open", "next"} => (r.queue # << >> => DecidedTo(r, r.queue[1][1]))
    /\ r.pc \in InBatch =>
          /\ 1 <= r.range[1] /\ r.range[1] <= r.range[2] /\ r.range[2] <= Len(r.facts)
          /\ DecidedTo(r, r.range[1])
          /\ StartsAt(r.queue, r.range[2] + 1)

RoundSound(r) ==
    /\ RoundTyped(r) /\ FactsInOrder(r.facts) /\ InOrder(r.queue, Len(r.facts))
    /\ \A f \in 1 .. r.mark : f \in Settled
    /\ InPlace(r)

Rounds ==
    /\ DOMAIN round = Caller
    /\ \A a, b \in Caller : Active(a) /\ Active(b) => a = b
    /\ \A a \in Caller : Active(a) => RoundSound(round[a])

Facts == arrived \in Nat /\ mark \in Nat /\ hidden \subseteq withdrawn

\* A stray's mark passes decided facts only.
Late(t) == t.kind = "finish" => /\ t.write.mark \in Nat
                                /\ \A f \in 1 .. t.write.mark : f \in Settled
Strays == \A t \in strays : Late(t)

Decisions == Facts /\ Rounds /\ Strays /\ WatermarkIsDecided

\* What is settled stays so, and so does what is said of a round or a stray.
LEMMA StraysStay ==
    ASSUME Strays, Settled \subseteq Settled', strays' \subseteq strays
    PROVE  Strays'
BY DEF Strays, Late

LEMMA RoundStays ==
    ASSUME NEW r, RoundSound(r), Settled \subseteq Settled'
    PROVE  RoundSound(r)'
<1>1. FactsInOrder(r.facts)' /\ InPlace(r)'
      BY DEF RoundSound, RoundTyped, FactsInOrder, InPlace, DecidedTo
<1>. QED BY <1>1 DEF RoundSound, RoundTyped

LEMMA RoundContinues ==
    ASSUME Decisions, NEW a \in Caller, Active(a), NEW r, RoundSound(r), Continue(a, r),
           UNCHANGED << arrived, mark, hidden, withdrawn, strays >>, decided \subseteq decided'
    PROVE  Decisions'
<1>1. Settled \subseteq Settled'
      BY DEF Settled
<1>2. RoundSound(r)'
      BY <1>1, RoundStays
<1>3. /\ DOMAIN round' = Caller /\ round'[a] = r
      /\ \A b \in Caller \ {a} : round'[b] = round[b] /\ round[b] = NoRound
      BY DEF Continue, Decisions, Rounds, Active
<1>4. Rounds'
      BY <1>2, <1>3 DEF Rounds, Active
<1>5. WatermarkIsDecided' /\ Strays'
      BY <1>1, StraysStay DEF Decisions, WatermarkIsDecided
<1>. QED BY <1>4, <1>5 DEF Decisions, Facts

LEMMA RoundEnds ==
    ASSUME Decisions, NEW a \in Caller, Released(a), Strays',
           UNCHANGED << arrived, hidden, withdrawn, decided >>,
           mark' = mark \/ (Active(a) /\ mark' = Recorded(round[a].mark))
    PROVE  Decisions'
<1>1. /\ DOMAIN round' = Caller /\ round'[a] = NoRound
      /\ \A b \in Caller \ {a} : round'[b] = round[b]
      BY DEF Released, Decisions, Rounds
<1>2. CASE mark' = mark
  <2>1. Settled' = Settled
        BY DEF Settled
  <2>2. \A r : RoundSound(r) => RoundSound(r)'
        BY <1>2, <2>1, RoundStays
  <2>3. Rounds'
        BY <1>1, <2>2 DEF Decisions, Rounds, Active
  <2>. QED BY <1>2, <2>3 DEF Decisions, Facts, WatermarkIsDecided
<1>3. CASE Active(a) /\ mark' = Recorded(round[a].mark)
  <2>1. RoundSound(round[a]) /\ \A b \in Caller \ {a} : round[b] = NoRound
        BY <1>3 DEF Decisions, Rounds, Active
  <2>2. Rounds'
        BY <1>1, <2>1 DEF Rounds, Active
  <2>3. mark' \in Nat /\ (mark' = mark \/ mark' = round[a].mark)
        BY <1>3, <2>1 DEF Decisions, Facts, Recorded, RoundSound, RoundTyped
  <2>4. WatermarkIsDecided'
        BY <2>1, <2>3 DEF Decisions, WatermarkIsDecided, RoundSound, Settled
  <2>. QED BY <2>2, <2>3, <2>4 DEF Decisions, Facts
<1>. QED BY <1>2, <1>3

LEMMA BeginIsSound ==
    ASSUME Decisions, NEW a \in Caller, Begin(a)
    PROVE  Decisions'
<1>1. /\ UNCHANGED << arrived, mark, hidden, withdrawn, decided, strays >>
      /\ \A b \in Caller : round[b] = NoRound
      BY DEF Begin, RoundClaimed
<1>2. PICK facts \in Unconsolidated(mark) :
          /\ facts # << >>
          /\ Continue(a, [pc |-> "open", facts |-> facts,
                          queue |-> Ranges(Len(facts)), range |-> << 1, 1 >>,
                          mark |-> mark, plan |-> << >>, cands |-> << >>,
                          budget |-> Adjudications, dirty |-> FALSE])
      BY DEF Begin
<1>. DEFINE live == {f \in mark + 1 .. arrived : f \notin hidden}
            n == Min({Cardinality(live), BatchSize})
            r == [pc |-> "open", facts |-> facts,
                  queue |-> Ranges(Len(facts)), range |-> << 1, 1 >>,
                  mark |-> mark, plan |-> << >>, cands |-> << >>,
                  budget |-> Adjudications, dirty |-> FALSE]
<1>3. /\ facts \in [1 .. n -> live]
      /\ \A i, j \in 1 .. n : i < j => facts[i] < facts[j]
      /\ \A f \in live : f \in Range(facts) \/ \A i \in 1 .. n : facts[i] < f
      BY <1>2 DEF Unconsolidated
<1>4. n \in Nat
  <2>1. IsFiniteSet(mark + 1 .. arrived) /\ live \in SUBSET (mark + 1 .. arrived)
        BY FS_Interval DEF Decisions, Facts
  <2>2. Cardinality(live) \in Nat
        BY <2>1, FS_Subset, FS_CardinalityType
  <2>. HIDE DEF live
  <2>3. \A x, y \in Nat : Min({x, y}) \in Nat
        BY DEF Min
  <2>. QED BY <2>2, <2>3, ConsolidationAssumption
<1>5. \A f \in live : f \in Nat /\ f > mark /\ f \notin hidden
      BY DEF Decisions, Facts
<1>f. \A f \in live : f <= arrived
      BY DEF Decisions, Facts
<1>g. \A f \in mark + 1 .. arrived : f \in hidden \/ f \in live
      OBVIOUS
<1>. HIDE DEF live, n
<1>6. facts \in Seq(Nat) /\ Len(facts) \in Nat \ {0} /\ DOMAIN facts = 1 .. n
  <2>1. facts \in [1 .. n -> Nat] /\ DOMAIN facts = 1 .. n
        BY <1>3, <1>5
  <2>2. facts \in Seq(Nat) /\ Len(facts) = n
        BY <1>4, <2>1
  <2>. QED BY <1>2, <1>4, <2>1, <2>2
<1>7. RoundTyped(r)
      BY <1>6 DEF RoundTyped, Fields, Phases, Decisions, Facts
<1>8. InOrder(r.queue, Len(facts)) /\ StartsAt(r.queue, 1)
      BY <1>6, RangesAreInOrder
<1>9. FactsInOrder(facts)
  <2>1. ASSUME NEW i \in DOMAIN facts, NEW f \in 1 .. facts[i], f \notin Settled
        PROVE  \E j \in DOMAIN facts : facts[j] = f
    <3>1. facts[i] \in live /\ facts[i] <= arrived
          BY <1>3, <1>6, <1>f, <2>1
    <3>2. f > mark /\ f \notin hidden
          BY <1>5, <2>1 DEF Decisions, WatermarkIsDecided, Facts, Settled
    <3>3. f \in live
          BY <1>5, <1>g, <2>1, <3>1, <3>2 DEF Decisions, Facts
    <3>4. ~ (facts[i] < f)
          BY <1>5, <2>1, <3>1
    <3>. QED BY <1>3, <1>6, <3>3, <3>4 DEF Range
  <2>. QED BY <1>3, <1>6, <2>1 DEF FactsInOrder
<1>10. DecidedTo(r, 1)
      BY <1>3, <1>5, <1>6 DEF DecidedTo
<1>11. RoundSound(r)
  <2>1. InPlace(r)
        BY <1>8, <1>10 DEF InPlace, StartsAt, InBatch
  <2>. QED BY <1>7, <1>8, <1>9, <2>1 DEF RoundSound, Decisions, Facts, WatermarkIsDecided, Settled
<1>. HIDE DEF r
<1>12. Rounds'
  <2>0. PICK s : s = r
        OBVIOUS
  <2>1. /\ DOMAIN round' = Caller /\ round'[a] = s
        /\ \A b \in Caller \ {a} : round'[b] = NoRound
        BY <1>1, <1>2, <2>0 DEF r, Continue, Decisions, Rounds
  <2>2. RoundSound(s)'
        BY <1>1, <1>11, <2>0, RoundStays DEF Settled
  <2>. QED BY <2>1, <2>2 DEF Rounds, Active
<1>13. Strays'
      BY <1>1, StraysStay DEF Decisions, Settled
<1>. QED BY <1>1, <1>12, <1>13 DEF Decisions, Facts, WatermarkIsDecided

\* A round in another phase, of the same facts and mark.
LEMMA Reshaped ==
    ASSUME NEW r, RoundSound(r), NEW w,
           DOMAIN w = Fields, w.pc \in Phases, w.facts = r.facts, w.mark = r.mark,
           w.dirty \in BOOLEAN, w.range \in Nat \X Nat,
           InOrder(w.queue, Len(r.facts)), InPlace(w)
    PROVE  RoundSound(w)
BY DEF RoundSound, RoundTyped

LEMMA PhasesPass ==
    ASSUME Decisions, NEW a \in Caller,
           OpenRun(a) \/ NextBatch(a) \/ Bisect(a) \/ Answer(a)
    PROVE  Decisions'
<1>0. PICK r : r = round[a]
      OBVIOUS
<1>1. UNCHANGED << arrived, mark, hidden, withdrawn, decided, strays >>
      BY DEF OpenRun, NextBatch, Bisect, Answer
<1>p. r.pc = "open" \/ r.pc = "next" \/ r.pc = "ask"
      BY <1>0 DEF OpenRun, NextBatch, Bisect, Answer
<1>2. Active(a)
      BY <1>0, <1>p DEF Active, NoRound
<1>3. RoundSound(r) /\ RoundTyped(r) /\ InPlace(r) /\ InOrder(r.queue, Len(r.facts)) /\ Len(r.facts) \in Nat
      BY <1>0, <1>2 DEF Decisions, Rounds, RoundSound, RoundTyped
<1>4. \A w : RoundSound(w) /\ Continue(a, w) => Decisions'
      BY <1>1, <1>2, RoundContinues
<1>5. CASE Continue(a, [r EXCEPT !.pc = "next"]) /\ r.pc = "open"
  <2>. DEFINE w == [r EXCEPT !.pc = "next"]
  <2>1. /\ DOMAIN w = Fields /\ w.pc = "next" /\ w.facts = r.facts /\ w.mark = r.mark
        /\ w.dirty = r.dirty /\ w.range = r.range /\ w.queue = r.queue
        BY <1>3 DEF RoundTyped, Fields
  <2>. HIDE DEF w
  <2>2. InPlace(w)
        BY <1>3, <1>5, <2>1 DEF InPlace, InBatch, DecidedTo
  <2>3. RoundSound(w)
        BY <1>3, <2>1, <2>2, Reshaped DEF RoundTyped, Phases
  <2>. QED BY <1>4, <1>5, <2>3 DEF w
<1>6. CASE Continue(a, [r EXCEPT !.pc = "close"])
  <2>. DEFINE w == [r EXCEPT !.pc = "close"]
  <2>1. /\ DOMAIN w = Fields /\ w.pc = "close" /\ w.facts = r.facts /\ w.mark = r.mark
        /\ w.dirty = r.dirty /\ w.range = r.range /\ w.queue = r.queue
        BY <1>3 DEF RoundTyped, Fields
  <2>. HIDE DEF w
  <2>2. InPlace(w)
        BY <2>1 DEF InPlace, InBatch
  <2>3. RoundSound(w)
        BY <1>3, <2>1, <2>2, Reshaped DEF RoundTyped, Phases
  <2>. QED BY <1>4, <1>6, <2>3 DEF w
<1>7. CASE /\ Continue(a, [r EXCEPT !.pc = "ask", !.range = Head(r.queue), !.queue = Tail(r.queue)])
           /\ r.pc = "next" /\ r.queue # << >>
  <2>. DEFINE w == [r EXCEPT !.pc = "ask", !.range = Head(r.queue), !.queue = Tail(r.queue)]
  <2>1. /\ DOMAIN w = Fields /\ w.pc = "ask" /\ w.facts = r.facts /\ w.mark = r.mark
        /\ w.dirty = r.dirty /\ w.range = Head(r.queue) /\ w.queue = Tail(r.queue)
        BY <1>3 DEF RoundTyped, Fields
  <2>. HIDE DEF w
  <2>2. /\ Head(r.queue) \in Nat \X Nat /\ Head(r.queue) = r.queue[1]
        /\ InOrder(Tail(r.queue), Len(r.facts))
        /\ StartsAt(Tail(r.queue), Head(r.queue)[2] + 1)
        BY <1>3, <1>7, QueueAdvances
  <2>3. 1 \in 1 .. Len(r.queue)
        BY <1>3, <1>7 DEF InOrder
  <2>4. /\ 1 <= w.range[1] /\ w.range[1] <= w.range[2] /\ w.range[2] <= Len(w.facts)
        BY <1>3, <2>1, <2>2, <2>3 DEF InOrder
  <2>5. DecidedTo(w, w.range[1])
        BY <1>3, <1>7, <2>1, <2>2 DEF InPlace, DecidedTo
  <2>6. InPlace(w)
        BY <2>1, <2>2, <2>4, <2>5 DEF InPlace
  <2>7. RoundSound(w)
        BY <1>3, <2>1, <2>2, <2>6, Reshaped DEF RoundTyped, Phases
  <2>. QED BY <1>4, <1>7, <2>7 DEF w
<1>8. CASE /\ Continue(a, [r EXCEPT !.pc = "next", !.queue = Halves(r.range) \o r.queue])
           /\ r.pc = "ask" /\ ~Alone(r)
  <2>. DEFINE w == [r EXCEPT !.pc = "next", !.queue = Halves(r.range) \o r.queue]
  <2>1. /\ DOMAIN w = Fields /\ w.pc = "next" /\ w.facts = r.facts /\ w.mark = r.mark
        /\ w.dirty = r.dirty /\ w.range = r.range /\ w.queue = Halves(r.range) \o r.queue
        BY <1>3 DEF RoundTyped, Fields
  <2>. HIDE DEF w
  <2>2. /\ r.range \in Nat \X Nat /\ 1 <= r.range[1] /\ r.range[1] < r.range[2]
        /\ r.range[2] <= Len(r.facts)
        /\ DecidedTo(r, r.range[1]) /\ StartsAt(r.queue, r.range[2] + 1)
        BY <1>3, <1>8 DEF InPlace, InBatch, RoundTyped, Alone
  <2>3. InOrder(w.queue, Len(r.facts)) /\ StartsAt(w.queue, r.range[1])
        BY <1>3, <2>1, <2>2, HalvesAreInOrder
  <2>4. InPlace(w)
        BY <2>1, <2>2, <2>3 DEF InPlace, InBatch, StartsAt, DecidedTo
  <2>5. RoundSound(w)
        BY <1>3, <2>1, <2>3, <2>4, Reshaped DEF RoundTyped, Phases
  <2>. QED BY <1>4, <1>8, <2>5 DEF w
<1>9. ASSUME NEW p, Continue(a, [r EXCEPT !.pc = "write", !.plan = p]), r.pc = "ask"
      PROVE  Decisions'
  <2>. DEFINE w == [r EXCEPT !.pc = "write", !.plan = p]
  <2>1. /\ DOMAIN w = Fields /\ w.pc = "write" /\ w.facts = r.facts /\ w.mark = r.mark
        /\ w.dirty = r.dirty /\ w.range = r.range /\ w.queue = r.queue
        BY <1>3 DEF RoundTyped, Fields
  <2>. HIDE DEF w
  <2>2. InPlace(w)
        BY <1>3, <1>9, <2>1 DEF InPlace, InBatch, DecidedTo
  <2>3. RoundSound(w)
        BY <1>3, <2>1, <2>2, Reshaped DEF RoundTyped, Phases
  <2>. QED BY <1>4, <1>9, <2>3 DEF w
<1>. QED BY <1>0, <1>5, <1>6, <1>7, <1>8, <1>9 DEF OpenRun, NextBatch, Bisect, Answer

\* The steps of a batch before and after its plan touch no more of its round
\* than the phase, what is to be written, the candidates and the budget.
LEMMA BatchShapes ==
    ASSUME NEW a \in Caller, NEW r, r = round[a], RoundTyped(r),
           Keep(a) \/ Adjudicate(a) \/ Merge(a) \/ Vanished(a) \/ BatchFails(a)
    PROVE  \E w : /\ Continue(a, w)
                  /\ DOMAIN w = Fields /\ w.pc \in {"dedup", "merge", "fail"}
                  /\ w.facts = r.facts /\ w.mark = r.mark /\ w.dirty = r.dirty
                  /\ w.range = r.range /\ w.queue = r.queue
                  /\ r.pc \in {"dedup", "merge"} /\ w.pc = "fail" => spoils' = spoils + 1
                  /\ w.pc # "fail" => r.pc \in {"dedup", "merge"}
                  /\ spoils' # spoils => spoils' = spoils + 1
<1>1. CASE Keep(a)
  <2>1. PICK called \in {0, 1} :
            Continue(a, [r EXCEPT !.cands = Tail(@), !.budget = @ - called])
        BY <1>1 DEF Keep
  <2>2. r.pc = "dedup" /\ spoils' = spoils
        BY <1>1 DEF Keep
  <2>. DEFINE w == [r EXCEPT !.cands = Tail(@), !.budget = @ - called]
  <2>3. /\ DOMAIN w = Fields /\ w.pc = r.pc /\ w.facts = r.facts /\ w.mark = r.mark
        /\ w.dirty = r.dirty /\ w.range = r.range /\ w.queue = r.queue
        BY DEF RoundTyped, Fields
  <2>4. Continue(a, w)
        BY <2>1
  <2>. HIDE DEF w
  <2>. QED BY <2>2, <2>3, <2>4
<1>2. CASE Adjudicate(a)
  <2>1. PICK plan : Continue(a, [r EXCEPT !.pc = "merge", !.plan = plan])
        BY <1>2 DEF Adjudicate
  <2>2. r.pc = "dedup" /\ spoils' = spoils
        BY <1>2 DEF Adjudicate
  <2>. DEFINE w == [r EXCEPT !.pc = "merge", !.plan = plan]
  <2>3. /\ DOMAIN w = Fields /\ w.pc = "merge" /\ w.facts = r.facts /\ w.mark = r.mark
        /\ w.dirty = r.dirty /\ w.range = r.range /\ w.queue = r.queue
        BY DEF RoundTyped, Fields
  <2>4. Continue(a, w)
        BY <2>1
  <2>. HIDE DEF w
  <2>. QED BY <2>2, <2>3, <2>4
<1>3. CASE Merge(a)
  <2>1. /\ Continue(a, [r EXCEPT !.pc = "dedup", !.plan = << >>, !.cands = Tail(@),
                                 !.budget = @ - 1])
        /\ r.pc = "merge" /\ spoils' = spoils
        BY <1>3 DEF Merge
  <2>. DEFINE w == [r EXCEPT !.pc = "dedup", !.plan = << >>, !.cands = Tail(@), !.budget = @ - 1]
  <2>2. /\ DOMAIN w = Fields /\ w.pc = "dedup" /\ w.facts = r.facts /\ w.mark = r.mark
        /\ w.dirty = r.dirty /\ w.range = r.range /\ w.queue = r.queue
        BY DEF RoundTyped, Fields
  <2>3. Continue(a, w)
        BY <2>1
  <2>. HIDE DEF w
  <2>. QED BY <2>1, <2>2, <2>3
<1>4. CASE Vanished(a) \/ BatchFails(a)
  <2>1. /\ Continue(a, [r EXCEPT !.pc = "fail", !.plan = << >>, !.cands = << >>])
        /\ r.pc \in {"dedup", "merge"} => spoils' = spoils + 1
        /\ spoils' = spoils \/ spoils' = spoils + 1
        BY <1>4 DEF Vanished, BatchFails
  <2>. DEFINE w == [r EXCEPT !.pc = "fail", !.plan = << >>, !.cands = << >>]
  <2>2. /\ DOMAIN w = Fields /\ w.pc = "fail" /\ w.facts = r.facts /\ w.mark = r.mark
        /\ w.dirty = r.dirty /\ w.range = r.range /\ w.queue = r.queue
        BY DEF RoundTyped, Fields
  <2>3. Continue(a, w)
        BY <2>1
  <2>. HIDE DEF w
  <2>. QED BY <2>1, <2>2, <2>3
<1>. QED BY <1>1, <1>2, <1>3, <1>4

LEMMA BatchesMove ==
    ASSUME Decisions, NEW a \in Caller,
           \/ Apply(a) \/ Keep(a) \/ Adjudicate(a) \/ Merge(a) \/ Vanished(a) \/ BatchFails(a)
    PROVE  Decisions'
<1>0. PICK r : r = round[a]
      OBVIOUS
<1>1. UNCHANGED << arrived, mark, hidden, withdrawn, decided, strays >>
      BY DEF Apply, Keep, Adjudicate, Merge, Vanished, BatchFails
<1>p. r.pc \in InBatch
  <2>1. Apply(a) => r.pc = "write"
        BY <1>0 DEF Apply
  <2>2. Keep(a) \/ Adjudicate(a) => r.pc = "dedup"
        BY <1>0 DEF Keep, Adjudicate
  <2>3. Merge(a) => r.pc = "merge"
        BY <1>0 DEF Merge
  <2>4. Vanished(a) \/ BatchFails(a) => r.pc \in InBatch
        BY <1>0 DEF Vanished, BatchFails, InBatch
  <2>. QED BY <2>1, <2>2, <2>3, <2>4 DEF InBatch
<1>2. Active(a) /\ r.pc \in InBatch
      BY <1>0, <1>p DEF Active, NoRound, InBatch
<1>3. RoundSound(r) /\ RoundTyped(r) /\ InPlace(r) /\ InOrder(r.queue, Len(r.facts))
      BY <1>0, <1>2 DEF Decisions, Rounds, RoundSound
<1>4. \A w : RoundSound(w) /\ Continue(a, w) => Decisions'
      BY <1>1, <1>2, RoundContinues
<1>5. ASSUME NEW w, Continue(a, w), DOMAIN w = Fields, w.pc \in {"dedup", "merge", "fail"},
             w.facts = r.facts, w.mark = r.mark, w.dirty \in BOOLEAN, w.range = r.range,
             w.queue = r.queue
      PROVE  Decisions'
  <2>1. InPlace(w)
        BY <1>2, <1>3, <1>5 DEF InPlace, InBatch, DecidedTo
  <2>2. RoundSound(w)
        BY <1>3, <1>5, <2>1, Reshaped DEF RoundTyped, Phases
  <2>. QED BY <1>4, <1>5, <2>2
<1>6. CASE Apply(a)
  <2>1. PICK cands :
            Continue(a, [r EXCEPT !.pc = "dedup", !.plan = << >>, !.dirty = TRUE, !.cands = cands])
        BY <1>0, <1>6 DEF Apply
  <2>. DEFINE w == [r EXCEPT !.pc = "dedup", !.plan = << >>, !.dirty = TRUE, !.cands = cands]
  <2>2. /\ DOMAIN w = Fields /\ w.pc = "dedup" /\ w.facts = r.facts /\ w.mark = r.mark
        /\ w.dirty \in BOOLEAN /\ w.range = r.range /\ w.queue = r.queue
        BY <1>3 DEF RoundTyped, Fields
  <2>. HIDE DEF w
  <2>. QED BY <1>5, <2>1, <2>2 DEF w
<1>7. CASE Keep(a) \/ Adjudicate(a) \/ Merge(a) \/ Vanished(a) \/ BatchFails(a)
  <2>1. PICK w : /\ Continue(a, w)
                 /\ DOMAIN w = Fields /\ w.pc \in {"dedup", "merge", "fail"}
                 /\ w.facts = r.facts /\ w.mark = r.mark /\ w.dirty = r.dirty
                 /\ w.range = r.range /\ w.queue = r.queue
        BY <1>0, <1>3, <1>7, BatchShapes
  <2>2. w.dirty \in BOOLEAN
        BY <1>3, <2>1 DEF RoundTyped
  <2>. QED BY <1>5, <2>1, <2>2
<1>. QED BY <1>6, <1>7

\* After a batch's terminal outcome its facts are decided, and the mark is at
\* the last of them.
LEMMA BatchPasses ==
    ASSUME Decisions, NEW a \in Caller, Abandon(a) \/ BatchApplied(a)
    PROVE  Decisions'
<1>0. PICK r : r = round[a]
      OBVIOUS
<1>1. /\ UNCHANGED << arrived, mark, hidden, withdrawn, strays >>
      /\ decided' = decided \cup Batch(r)
      BY <1>0 DEF Abandon, BatchApplied
<1>2. Active(a) /\ r.pc \in InBatch
      BY <1>0 DEF Abandon, BatchApplied, Active, NoRound, InBatch
<1>3. RoundSound(r) /\ RoundTyped(r) /\ InPlace(r) /\ InOrder(r.queue, Len(r.facts)) /\ FactsInOrder(r.facts)
      BY <1>0, <1>2 DEF Decisions, Rounds, RoundSound
<1>4. PICK w : /\ Continue(a, w)
               /\ w = Passed(r) \/ w = [Passed(r) EXCEPT !.cands = << >>]
      BY <1>0 DEF Abandon, BatchApplied
<1>5. /\ DOMAIN w = Fields /\ w.pc = "next" /\ w.facts = r.facts /\ w.mark = r.facts[r.range[2]]
      /\ w.dirty = r.dirty /\ w.range = r.range /\ w.queue = r.queue
      BY <1>3, <1>4 DEF Passed, RoundTyped, Fields
<1>. DEFINE lo == r.range[1]
            hi == r.range[2]
<1>6. /\ lo \in Nat /\ hi \in Nat /\ 1 <= lo /\ lo <= hi /\ hi <= Len(r.facts)
      /\ DecidedTo(r, lo) /\ StartsAt(r.queue, hi + 1)
      BY <1>2, <1>3 DEF InPlace, RoundTyped
<1>7. hi \in DOMAIN r.facts /\ r.facts \in Seq(Nat) /\ \A i \in DOMAIN r.facts : r.facts[i] \in Nat
  <2>1. PICK s \in Seq(Nat) : s = r.facts
        BY <1>3 DEF RoundTyped
  <2>2. DOMAIN s = 1 .. Len(s) /\ \A i \in DOMAIN s : s[i] \in Nat
        BY <2>1
  <2>. QED BY <1>6, <2>1, <2>2
<1>8. Settled \subseteq Settled' /\ Batch(r) \subseteq Settled'
      BY <1>1 DEF Settled
<1>9. FactsInOrder(r.facts)'
      BY <1>3, <1>8 DEF FactsInOrder
<1>10. \A i \in DOMAIN r.facts : i <= hi => r.facts[i] \in Settled'
  <2>1. ASSUME NEW i \in DOMAIN r.facts, i <= hi
        PROVE  r.facts[i] \in Settled'
    <3>1. CASE i < lo
          BY <1>6, <1>8, <3>1 DEF DecidedTo
    <3>2. CASE ~ (i < lo)
      <4>1. i \in lo .. hi
            BY SMTT(60), <1>6, <1>7, <2>1, <3>2
      <4>. QED BY <1>8, <4>1 DEF Batch
    <3>. QED BY <3>1, <3>2
  <2>. QED BY <2>1
<1>11. \A f \in 1 .. w.mark : f \in Settled'
  <2>1. ASSUME NEW f \in 1 .. r.facts[hi]
        PROVE  f \in Settled'
    <3>1. CASE f \in Settled
          BY <1>8, <3>1
    <3>2. CASE \E j \in DOMAIN r.facts : r.facts[j] = f
      <4>1. PICK j \in DOMAIN r.facts : r.facts[j] = f
            BY <3>2
      <4>2. ~ (hi < j)
            BY <1>3, <1>7, <2>1, <4>1 DEF FactsInOrder
      <4>3. j <= hi
            BY <1>6, <1>7, <4>2
      <4>. QED BY <1>10, <4>1, <4>3
    <3>. QED BY <1>3, <1>7, <3>1, <3>2 DEF FactsInOrder
  <2>. QED BY <1>5, <2>1
<1>12. DecidedTo(w, hi + 1)'
  <2>1. \A j \in DOMAIN r.facts : ~ (j < hi + 1) => r.facts[j] > r.facts[hi]
    <3>. SUFFICES ASSUME NEW j \in DOMAIN r.facts, ~ (j < hi + 1)
                  PROVE  r.facts[j] > r.facts[hi]
         OBVIOUS
    <3>1. j \in Nat
          BY <1>7
    <3>2. hi < j
          BY <1>6, <3>1
    <3>3. r.facts[hi] < r.facts[j]
          BY <1>3, <1>7, <3>2 DEF FactsInOrder
    <3>. QED BY <1>7, <3>3
  <2>. QED BY <1>5, <1>6, <1>7, <1>10, <2>1 DEF DecidedTo
<1>14. InPlace(w)'
      BY <1>5, <1>6, <1>12 DEF InPlace, InBatch, StartsAt
<1>15. RoundSound(w)'
      BY <1>1, <1>3, <1>5, <1>7, <1>9, <1>11, <1>14 DEF RoundSound, RoundTyped, Phases
<1>16. Rounds'
  <2>1. /\ DOMAIN round' = Caller /\ round'[a] = w
        /\ \A b \in Caller \ {a} : round'[b] = NoRound
        BY <1>2, <1>4 DEF Continue, Decisions, Rounds, Active
  <2>. QED BY <1>15, <2>1 DEF Rounds, Active
<1>17. Strays'
      BY <1>1, <1>8, StraysStay DEF Decisions
<1>. QED BY <1>1, <1>16, <1>17 DEF Decisions, Facts, WatermarkIsDecided

\* What a dropped round leaves to be finished has its mark, which passes
\* decided facts only.
LEMMA DropIsSound ==
    ASSUME Decisions, NEW a \in Caller, Drop(a)
    PROVE  Decisions'
<1>0. PICK r : r = round[a]
      OBVIOUS
<1>1. /\ Active(a) /\ Released(a)
      /\ UNCHANGED << arrived, hidden, withdrawn, mark, decided >>
      /\ strays' \subseteq strays \cup Begun(r)
      BY <1>0 DEF Drop, Active
<1>2. RoundSound(r) /\ r.mark \in Nat
      BY <1>0, <1>1 DEF Decisions, Rounds, RoundSound, RoundTyped
<1>3. ASSUME NEW t \in Begun(r), t.kind = "finish"
      PROVE  t.write.mark = r.mark
      BY <1>3 DEF Begun
<1>4. \A t \in Begun(r) : Late(t)
      BY <1>2, <1>3 DEF Late, RoundSound
<1>5. Strays'
      BY <1>1, <1>4 DEF Strays, Late, Decisions, Settled
<1>. QED BY <1>1, <1>5, RoundEnds

LEMMA RoundsStop ==
    ASSUME Decisions
    PROVE  /\ \A a \in Caller : OpenFails(a) \/ Close(a) \/ CloseFailed(a) \/ CloseLost(a) => Decisions'
           /\ KillAndRestart => Decisions'
<1>1. ASSUME NEW a \in Caller, OpenFails(a) \/ Close(a) \/ CloseFailed(a) \/ CloseLost(a)
      PROVE  Decisions'
  <2>1. Released(a) /\ UNCHANGED << arrived, hidden, withdrawn, decided, strays >>
        BY <1>1 DEF OpenFails, Close, CloseFailed, CloseLost
  <2>2. mark' = mark \/ (Active(a) /\ mark' = Recorded(round[a].mark))
        BY <1>1 DEF OpenFails, Close, CloseFailed, CloseLost, Active, NoRound, FinishRun
  <2>3. Strays'
        BY <2>1, StraysStay DEF Decisions, Settled
  <2>. QED BY <2>1, <2>2, <2>3, RoundEnds
<1>2. CASE KillAndRestart
  <2>1. Rounds'
        BY <1>2 DEF KillAndRestart, Rounds, Active
  <2>2. Strays'
        BY <1>2 DEF KillAndRestart, Strays
  <2>. QED BY <1>2, <2>1, <2>2 DEF KillAndRestart, Decisions, Facts, WatermarkIsDecided
<1>. QED BY <1>1, <1>2

\* A stray is of no round: it touches the observations, or the bank's mark.
LEMMA StraysCommit ==
    ASSUME Decisions, LatePlan \/ LateMerge \/ LateFinish
    PROVE  Decisions'
<1>1. /\ UNCHANGED << arrived, hidden, withdrawn, round, decided >>
      /\ strays' \subseteq strays
      BY DEF LatePlan, LateMerge, LateFinish
<1>2. Settled' = Settled
      BY <1>1 DEF Settled
<1>3. Strays'
      BY <1>1, <1>2, StraysStay DEF Decisions
<1>4. \A r : RoundSound(r) => RoundSound(r)'
      BY <1>2, RoundStays
<1>5. Rounds'
      BY <1>1, <1>4 DEF Decisions, Rounds, Active
<1>6. CASE LatePlan \/ LateMerge
  <2>1. mark' = mark
        BY <1>6 DEF LatePlan, LateMerge
  <2>. QED BY <1>1, <1>3, <1>5, <2>1 DEF Decisions, Facts, WatermarkIsDecided
<1>7. CASE LateFinish
  <2>1. PICK t \in strays : t.kind = "finish" /\ mark' = Recorded(t.write.mark)
        BY <1>7 DEF LateFinish, FinishRun
  <2>2. Late(t)
        BY DEF Decisions, Strays
  <2>3. mark' \in Nat /\ (mark' = mark \/ mark' = t.write.mark)
        BY <2>1, <2>2 DEF Decisions, Facts, Recorded, Late
  <2>4. WatermarkIsDecided'
        BY <1>1, <2>1, <2>2, <2>3 DEF Decisions, WatermarkIsDecided, Late, Settled
  <2>. QED BY <1>1, <1>3, <1>5, <2>3, <2>4 DEF Decisions, Facts
<1>. QED BY <1>6, <1>7

LEMMA BankMoves ==
    ASSUME Decisions, RetainArrives \/ RetainSettles \/ Hide \/ Restore
    PROVE  Decisions'
<1>1. UNCHANGED << mark, round, strays, decided >> /\ withdrawn \subseteq withdrawn'
      BY DEF RetainArrives, RetainSettles, Hide, Restore
<1>2. Facts'
      BY DEF Decisions, Facts, RetainArrives, RetainSettles, Hide, Restore
<1>3. Settled \subseteq Settled'
      BY <1>1 DEF Settled
<1>4. \A r : RoundSound(r) => RoundSound(r)'
      BY <1>1, <1>3, RoundStays
<1>5. Rounds'
      BY <1>1, <1>4 DEF Decisions, Rounds, Active
<1>6. Strays'
      BY <1>1, <1>3, StraysStay DEF Decisions
<1>. QED BY <1>1, <1>2, <1>5, <1>6 DEF Decisions, WatermarkIsDecided

LEMMA DecisionsStep ==
    ASSUME Decisions, [RoundNext]_roundVars
    PROVE  Decisions'
<1>1. CASE UNCHANGED roundVars
  <2>1. \A r : RoundSound(r) => RoundSound(r)'
        BY <1>1, RoundStays DEF roundVars, Settled
  <2>2. Rounds'
        BY <1>1, <2>1 DEF roundVars, Decisions, Rounds, Active
  <2>3. Strays'
        BY <1>1, StraysStay DEF roundVars, Decisions, Settled
  <2>. QED BY <1>1, <2>2, <2>3 DEF roundVars, Decisions, Facts, WatermarkIsDecided
<1>. QED BY <1>1, BeginIsSound, PhasesPass, BatchesMove, BatchPasses, RoundsStop, DropIsSound,
            StraysCommit, BankMoves
         DEF RoundNext, RoundStep

LEMMA DecisionsAlways == RoundSpec => []Decisions
<1>1. RoundInit => Decisions
      BY DEF RoundInit, Decisions, Facts, Rounds, Active, Strays, WatermarkIsDecided
<1>2. Decisions /\ [RoundNext]_roundVars => Decisions'
      BY DecisionsStep
<1>. QED BY <1>1, <1>2, PTL DEF RoundSpec

\* A fact at or below the watermark was decided on, unless it was withdrawn at
\* some time: whatever is bisected, put off, fails or dies, and whoever began
\* the round.
THEOREM WatermarkPassesDecided == RoundSpec => []WatermarkIsDecided
<1>1. Decisions => WatermarkIsDecided
      BY DEF Decisions
<1>. QED BY <1>1, DecisionsAlways, PTL

(***************************************************************************)
(* Replays.                                                                *)
(*                                                                         *)
(* A plan is given its facts when it commits, or as a stray.  Whoever has  *)
(* a fact that was given once more than there were spoils is not going to  *)
(* write it again, and keeps it by a mark: the bank's, or that of the      *)
(* round in progress.  Whoever loses that mark makes up for all of them    *)
(* with one spoil.                                                         *)
(***************************************************************************)

Planned(f) == {t \in strays : t.kind = "plan" /\ f \in t.of}
Given(f) == applied[f] + Cardinality(Planned(f))

KeptByRound(r, f) ==
    r.dirty /\ (f <= r.mark \/ (r.pc \in {"dedup", "merge"} /\ f \in Batch(r)))

\* The j-th fact of a round is in a batch still to be written.
Ahead(r, j) == IF r.pc \in {"ask", "write"} THEN r.range[1] <= j
               ELSE r.queue # << >> /\ r.queue[1][1] <= j
ToCome(r, f) == \E j \in DOMAIN r.facts : r.facts[j] = f /\ Ahead(r, j)

Kept(f) ==
    /\ f <= mark \/ \E a \in Caller : Active(a) /\ KeptByRound(round[a], f)
    /\ \A a \in Caller : Active(a) => ~ToCome(round[a], f)

Replays ==
    /\ applied \in [1 .. MaxFacts -> Nat] /\ spoils \in Nat /\ IsFiniteSet(strays)
    /\ \A f \in 1 .. MaxFacts : Given(f) <= spoils + 1 /\ (Kept(f) \/ Given(f) <= spoils)

LEMMA GivenIsNat ==
    ASSUME IsFiniteSet(strays), applied \in [1 .. MaxFacts -> Nat], NEW f \in 1 .. MaxFacts
    PROVE  /\ IsFiniteSet(Planned(f)) /\ Cardinality(Planned(f)) \in Nat
           /\ applied[f] \in Nat /\ Given(f) \in Nat /\ applied[f] <= Given(f)
<1>1. Planned(f) \in SUBSET strays
      BY DEF Planned
<1>2. IsFiniteSet(Planned(f)) /\ Cardinality(Planned(f)) \in Nat
      BY <1>1, FS_Subset, FS_CardinalityType
<1>. QED BY <1>2 DEF Given

LEMMA ReplaysStay ==
    ASSUME Replays, applied' = applied, IsFiniteSet(strays'),
           \A f \in 1 .. MaxFacts : Planned(f)' \subseteq Planned(f),
           spoils' = spoils + 1 \/ (spoils' = spoils /\ \A f \in 1 .. MaxFacts : Kept(f) => Kept(f)')
    PROVE  Replays'
<1>1. ASSUME NEW f \in 1 .. MaxFacts
      PROVE  Given(f)' \in Nat /\ Given(f) \in Nat /\ Given(f)' <= Given(f)
  <2>1. IsFiniteSet(Planned(f)) /\ applied[f] \in Nat /\ Given(f) \in Nat
        BY GivenIsNat DEF Replays
  <2>2. IsFiniteSet(Planned(f)') /\ Cardinality(Planned(f)') <= Cardinality(Planned(f))
        BY <2>1, FS_Subset
  <2>3. Cardinality(Planned(f)) \in Nat /\ Cardinality(Planned(f)') \in Nat
        BY <2>1, <2>2, FS_CardinalityType
  <2>4. Given(f)' = applied[f] + Cardinality(Planned(f)')
        BY DEF Given
  <2>. QED BY <2>1, <2>2, <2>3, <2>4 DEF Given
<1>2. CASE spoils' = spoils + 1
  <2>1. \A f \in 1 .. MaxFacts : Given(f)' <= spoils + 1
    <3>. SUFFICES ASSUME NEW f \in 1 .. MaxFacts
                  PROVE  Given(f)' <= spoils + 1
         OBVIOUS
    <3>1. Given(f) <= spoils + 1 /\ spoils \in Nat
          BY DEF Replays
    <3>. QED BY <1>1, <3>1
  <2>2. \A f \in 1 .. MaxFacts : Given(f)' <= spoils' /\ Given(f)' <= spoils' + 1
    <3>. SUFFICES ASSUME NEW f \in 1 .. MaxFacts
                  PROVE  Given(f)' <= spoils' /\ Given(f)' <= spoils' + 1
         OBVIOUS
    <3>1. Given(f)' \in Nat /\ spoils \in Nat /\ Given(f)' <= spoils + 1
          BY <1>1, <2>1 DEF Replays
    <3>. QED BY <1>2, <3>1
  <2>. QED BY <1>2, <2>2 DEF Replays
<1>3. CASE spoils' = spoils /\ \A f \in 1 .. MaxFacts : Kept(f) => Kept(f)'
  <2>1. ASSUME NEW f \in 1 .. MaxFacts
        PROVE  Given(f)' <= spoils + 1 /\ (Kept(f)' \/ Given(f)' <= spoils)
    <3>1. Given(f) <= spoils + 1 /\ (Kept(f) \/ Given(f) <= spoils) /\ spoils \in Nat
          BY DEF Replays
    <3>2. Given(f)' <= spoils + 1
          BY <1>1, <3>1
    <3>3. Given(f) <= spoils => Given(f)' <= spoils
          BY <1>1, <3>1
    <3>. QED BY <1>3, <3>1, <3>2, <3>3
  <2>. QED BY <1>3, <2>1 DEF Replays
<1>. QED BY <1>2, <1>3

\* A round that goes on keeps what it kept, and has no more to come.
LEMMA RoundKeeps ==
    ASSUME Decisions, NEW a \in Caller, Active(a), NEW r, r = round[a],
           NEW w, Continue(a, w), w.pc \in Phases, UNCHANGED mark,
           w.dirty = r.dirty, w.mark \in Nat, r.mark <= w.mark, w.facts = r.facts,
           \A j \in DOMAIN r.facts : Ahead(w, j) => Ahead(r, j),
           r.pc \in {"dedup", "merge"} =>
               \A f \in Batch(r) : f <= w.mark \/ (w.pc \in {"dedup", "merge"} /\ f \in Batch(w))
    PROVE  \A f \in 1 .. MaxFacts : Kept(f) => Kept(f)'
<1>1. /\ round'[a] = w /\ w # NoRound
      /\ \A b \in Caller \ {a} : ~Active(b) /\ ~Active(b)'
      BY DEF Continue, Decisions, Rounds, Active, NoRound, Phases
<1>2. r.mark \in Nat
      BY DEF Decisions, Rounds, RoundSound, RoundTyped
<1>3. ASSUME NEW f \in 1 .. MaxFacts, KeptByRound(r, f)
      PROVE  KeptByRound(w, f)
  <2>1. r.dirty /\ w.dirty
        BY <1>3 DEF KeptByRound
  <2>2. f <= r.mark => f <= w.mark
        BY <1>2
  <2>. QED BY <1>3, <2>1, <2>2 DEF KeptByRound
<1>4. \A f : ToCome(w, f) => ToCome(r, f)
      BY DEF ToCome
<1>5. ASSUME NEW f \in 1 .. MaxFacts, Kept(f)
      PROVE  Kept(f)'
  <2>1. f <= mark \/ KeptByRound(r, f)
        BY <1>1, <1>5 DEF Kept
  <2>2. ~ToCome(r, f)
        BY <1>5 DEF Kept
  <2>3. f <= mark' \/ KeptByRound(w, f)
        BY <1>3, <2>1
  <2>4. \A b \in Caller : Active(b)' => b = a
        BY <1>1
  <2>5. Active(a)'
        BY <1>1 DEF Active
  <2>. QED BY <1>1, <1>4, <2>2, <2>3, <2>4, <2>5 DEF Kept
<1>. QED BY <1>5

LEMMA ReplaysInBatch ==
    ASSUME Decisions, Replays, NEW a \in Caller,
           \/ OpenRun(a) \/ NextBatch(a) \/ Bisect(a) \/ Answer(a)
           \/ Keep(a) \/ Adjudicate(a) \/ Merge(a) \/ Vanished(a) \/ BatchFails(a)
           \/ Abandon(a) \/ BatchApplied(a)
    PROVE  Replays'
<1>0. PICK r : r = round[a]
      OBVIOUS
<1>1. UNCHANGED << mark, applied, strays >>
      BY DEF OpenRun, NextBatch, Bisect, Answer, Keep, Adjudicate, Merge, Vanished, BatchFails,
             Abandon, BatchApplied
<1>2. Active(a)
  <2>1. r.pc # "idle"
    <3>1. CASE OpenRun(a) \/ NextBatch(a) \/ Bisect(a) \/ Answer(a) \/ Abandon(a) \/ BatchApplied(a)
          BY <1>0, <3>1 DEF OpenRun, NextBatch, Bisect, Answer, Abandon, BatchApplied
    <3>2. CASE Keep(a) \/ Adjudicate(a) \/ Merge(a) \/ Vanished(a) \/ BatchFails(a)
          BY <1>0, <3>2 DEF Keep, Adjudicate, Merge, Vanished, BatchFails
    <3>. QED BY <3>1, <3>2
  <2>. QED BY <1>0, <2>1 DEF Active, NoRound
<1>3. RoundTyped(r) /\ InPlace(r) /\ InOrder(r.queue, Len(r.facts))
      BY <1>0, <1>2 DEF Decisions, Rounds, RoundSound
<1>4. IsFiniteSet(strays') /\ \A f \in 1 .. MaxFacts : Planned(f)' \subseteq Planned(f)
      BY <1>1 DEF Planned, Replays
<1>5. /\ \A i \in Nat \X Nat : i[1] \in Nat /\ i[2] \in Nat
      /\ r.facts \in Seq(Nat) /\ Len(r.facts) \in Nat /\ DOMAIN r.facts \subseteq Nat
      BY <1>3 DEF RoundTyped
<1>6. ASSUME r.pc \in InBatch
      PROVE  \A j \in DOMAIN r.facts :
                 r.queue # << >> /\ r.queue[1][1] <= j => r.range[1] <= j
  <2>1. r.range[1] <= r.range[2] /\ StartsAt(r.queue, r.range[2] + 1) /\ r.range \in Nat \X Nat
        BY <1>3, <1>6 DEF InPlace, RoundTyped
  <2>. QED BY <1>5, <2>1 DEF StartsAt
<1>7. CASE OpenRun(a) \/ NextBatch(a) \/ Bisect(a) \/ Answer(a)
  <2>1. PICK w : /\ Continue(a, w)
                 /\ \/ w = [r EXCEPT !.pc = "next"] /\ r.pc = "open"
                    \/ w = [r EXCEPT !.pc = "close"] /\ r.pc = "next"
                    \/ /\ w = [r EXCEPT !.pc = "ask", !.range = Head(r.queue), !.queue = Tail(r.queue)]
                       /\ r.pc = "next" /\ r.queue # << >>
                    \/ /\ w = [r EXCEPT !.pc = "next", !.queue = Halves(r.range) \o r.queue]
                       /\ r.pc = "ask" /\ ~Alone(r)
                    \/ (\E p : w = [r EXCEPT !.pc = "write", !.plan = p]) /\ r.pc = "ask"
    <3>1. CASE OpenRun(a) \/ NextBatch(a)
          BY <1>0, <3>1 DEF OpenRun, NextBatch
    <3>2. CASE Bisect(a) \/ Answer(a)
          BY <1>0, <3>2 DEF Bisect, Answer
    <3>. QED BY <1>7, <3>1, <3>2
  <2>2. /\ w.pc \in Phases /\ w.mark = r.mark /\ w.dirty = r.dirty /\ w.mark \in Nat
        /\ w.facts = r.facts
        BY <1>3, <2>1 DEF RoundTyped, Fields, Phases
  <2>3. r.pc \notin {"dedup", "merge"} /\ spoils' = spoils
        BY <1>0, <1>7 DEF OpenRun, NextBatch, Bisect, Answer
  <2>4. Continue(a, w) /\ r.mark <= w.mark
    <3>1. Continue(a, w)
          BY <2>1, Zenon
    <3>2. r.mark <= w.mark
          BY <2>2
    <3>. QED BY <3>1, <3>2
  <2>5. \A j \in DOMAIN r.facts : Ahead(w, j) => Ahead(r, j)
    <3>1. CASE w = [r EXCEPT !.pc = "next"] /\ r.pc = "open"
      <4>1. w.pc = "next" /\ w.queue = r.queue
            BY <1>3, <3>1 DEF RoundTyped, Fields
      <4>. QED BY <3>1, <4>1 DEF Ahead
    <3>2. CASE w = [r EXCEPT !.pc = "close"] /\ r.pc = "next"
      <4>1. w.pc = "close" /\ w.queue = r.queue
            BY <1>3, <3>2 DEF RoundTyped, Fields
      <4>. QED BY <3>2, <4>1 DEF Ahead
    <3>3. CASE /\ w = [r EXCEPT !.pc = "ask", !.range = Head(r.queue), !.queue = Tail(r.queue)]
               /\ r.pc = "next" /\ r.queue # << >>
      <4>1. w.pc = "ask" /\ w.range = Head(r.queue)
            BY <1>3, <3>3 DEF RoundTyped, Fields
      <4>2. Head(r.queue) = r.queue[1]
            BY <1>3, <1>5, <3>3, QueueAdvances
      <4>. QED BY <3>3, <4>1, <4>2 DEF Ahead
    <3>4. CASE /\ w = [r EXCEPT !.pc = "next", !.queue = Halves(r.range) \o r.queue]
               /\ r.pc = "ask" /\ ~Alone(r)
      <4>1. w.pc = "next" /\ w.queue = Halves(r.range) \o r.queue
            BY <1>3, <3>4 DEF RoundTyped, Fields
      <4>2. /\ r.range \in Nat \X Nat /\ 1 <= r.range[1] /\ r.range[1] < r.range[2]
            /\ r.range[2] <= Len(r.facts) /\ StartsAt(r.queue, r.range[2] + 1)
            BY <1>3, <3>4 DEF InPlace, InBatch, RoundTyped, Alone
      <4>3. StartsAt(w.queue, r.range[1])
            BY <1>3, <1>5, <4>1, <4>2, HalvesAreInOrder
      <4>. QED BY <3>4, <4>1, <4>3 DEF Ahead, StartsAt
    <3>5. CASE (\E p : w = [r EXCEPT !.pc = "write", !.plan = p]) /\ r.pc = "ask"
      <4>1. w.pc = "write" /\ w.range = r.range
            BY <1>3, <3>5 DEF RoundTyped, Fields
      <4>. QED BY <3>5, <4>1 DEF Ahead
    <3>. QED BY <2>1, <3>1, <3>2, <3>3, <3>4, <3>5
  <2>6. \A f \in 1 .. MaxFacts : Kept(f) => Kept(f)'
        BY <1>0, <1>1, <1>2, <2>2, <2>3, <2>4, <2>5, RoundKeeps
  <2>. QED BY <1>1, <1>4, <2>3, <2>6, ReplaysStay
<1>8. CASE Keep(a) \/ Adjudicate(a) \/ Merge(a) \/ Vanished(a) \/ BatchFails(a)
  <2>1. PICK w : /\ Continue(a, w)
                 /\ DOMAIN w = Fields /\ w.pc \in {"dedup", "merge", "fail"}
                 /\ w.facts = r.facts /\ w.mark = r.mark /\ w.dirty = r.dirty
                 /\ w.range = r.range /\ w.queue = r.queue
                 /\ r.pc \in {"dedup", "merge"} /\ w.pc = "fail" => spoils' = spoils + 1
                 /\ w.pc # "fail" => r.pc \in {"dedup", "merge"}
                 /\ spoils' # spoils => spoils' = spoils + 1
        BY <1>0, <1>3, <1>8, BatchShapes
  <2>2. CASE spoils' = spoils + 1
        BY <1>1, <1>4, <2>2, ReplaysStay
  <2>3. CASE spoils' # spoils + 1
    <3>1. w.mark \in Nat
          BY <1>3, <2>1 DEF RoundTyped
    <3>2. Continue(a, w) /\ spoils' = spoils
          BY <2>1, <2>3
    <3>3. Batch(w) = Batch(r)
          BY <2>1 DEF Batch
    <3>4. r.pc \in InBatch
          BY <1>0, <1>8 DEF Keep, Adjudicate, Merge, Vanished, BatchFails, InBatch
    <3>5. \A j \in DOMAIN r.facts : Ahead(w, j) => Ahead(r, j)
          BY <1>6, <2>1, <3>4 DEF Ahead
    <3>6. r.pc \in {"dedup", "merge"} => w.pc \in {"dedup", "merge"}
          BY <2>1, <2>3
    <3>7. w.pc \in Phases /\ r.mark <= w.mark
          BY <2>1, <3>1 DEF Phases
    <3>8. \A f \in 1 .. MaxFacts : Kept(f) => Kept(f)'
          BY <1>0, <1>1, <1>2, <2>1, <3>1, <3>3, <3>5, <3>6, <3>7, RoundKeeps
    <3>. QED BY <1>1, <1>4, <3>2, <3>8, ReplaysStay
  <2>. QED BY <2>2, <2>3
<1>9. CASE Abandon(a) \/ BatchApplied(a)
  <2>1. PICK w : /\ Continue(a, w)
                 /\ w = Passed(r) \/ w = [Passed(r) EXCEPT !.cands = << >>]
        BY <1>0, <1>9 DEF Abandon, BatchApplied
  <2>2. /\ w.pc = "next" /\ w.mark = r.facts[r.range[2]] /\ w.dirty = r.dirty
        /\ w.facts = r.facts /\ w.queue = r.queue
        BY <1>3, <2>1 DEF Passed, RoundTyped, Fields
  <2>3. r.pc \in InBatch /\ spoils' = spoils
        BY <1>0, <1>9 DEF Abandon, BatchApplied, InBatch
  <2>4. /\ r.range[1] \in Nat /\ r.range[2] \in Nat
        /\ 1 <= r.range[1] /\ r.range[1] <= r.range[2] /\ r.range[2] <= Len(r.facts)
        /\ DecidedTo(r, r.range[1])
        BY <1>3, <2>3 DEF InPlace, RoundTyped
  <2>5. PICK s \in Seq(Nat) : s = r.facts
        BY <1>3 DEF RoundTyped
  <2>6. \A i \in DOMAIN s : s[i] \in Nat /\ i \in Nat
        BY <2>5
  <2>7. r.range[2] \in DOMAIN s /\ \A i \in r.range[1] .. r.range[2] : i \in DOMAIN s
        BY <2>4, <2>5
  <2>8. w.mark \in Nat /\ r.mark <= w.mark
        BY <1>3, <2>2, <2>4, <2>5, <2>6, <2>7 DEF DecidedTo, RoundTyped
  <2>9. \A f \in Batch(r) : f <= w.mark
    <3>1. \A i \in r.range[1] .. r.range[2] : s[i] <= s[r.range[2]]
      <4>. SUFFICES ASSUME NEW i \in r.range[1] .. r.range[2]
                    PROVE  s[i] <= s[r.range[2]]
           OBVIOUS
      <4>1. i = r.range[2] \/ i < r.range[2]
            BY <2>4
      <4>2. \A j, k \in DOMAIN s : j < k => s[j] < s[k]
            BY <1>0, <1>2, <2>5 DEF Decisions, Rounds, RoundSound, FactsInOrder
      <4>. QED BY <2>6, <2>7, <4>1, <4>2
    <3>. QED BY <2>2, <2>5, <3>1 DEF Batch
  <2>10. \A j \in DOMAIN r.facts : Ahead(w, j) => Ahead(r, j)
        BY <1>6, <2>2, <2>3 DEF Ahead
  <2>11. \A f \in 1 .. MaxFacts : Kept(f) => Kept(f)'
        BY <1>0, <1>1, <1>2, <2>1, <2>2, <2>8, <2>9, <2>10, RoundKeeps DEF Phases
  <2>. QED BY <1>1, <1>4, <2>3, <2>11, ReplaysStay
<1>. QED BY <1>7, <1>8, <1>9

\* The facts of a plan were given no more often than there were spoils, and
\* are not given again by the round that writes it.
LEMMA BatchIsAhead ==
    ASSUME Decisions, NEW a \in Caller, Active(a), round[a].pc \in InBatch
    PROVE  /\ \A f \in Batch(round[a]) : f \in Nat
           /\ round[a].pc = "write" => \A f \in Batch(round[a]) : ToCome(round[a], f)
           /\ \A f \in Batch(round[a]) : \A j \in DOMAIN round[a].facts :
                 round[a].facts[j] = f =>
                     ~ (round[a].queue # << >> /\ round[a].queue[1][1] <= j)
<1>0. PICK r : r = round[a]
      OBVIOUS
<1>1. RoundTyped(r) /\ InPlace(r) /\ FactsInOrder(r.facts)
      BY <1>0 DEF Decisions, Rounds, RoundSound
<1>2. PICK s \in Seq(Nat) : s = r.facts
      BY <1>1 DEF RoundTyped
<1>3. \A i \in DOMAIN s : s[i] \in Nat /\ i \in Nat
      BY <1>2
<1>4. /\ r.range[1] \in Nat /\ r.range[2] \in Nat
      /\ 1 <= r.range[1] /\ r.range[2] <= Len(s)
      /\ r.queue # << >> => r.queue[1][1] = r.range[2] + 1
      BY <1>0, <1>1, <1>2 DEF InPlace, RoundTyped, StartsAt
<1>5. \A i \in r.range[1] .. r.range[2] : i \in DOMAIN s /\ r.range[1] <= i /\ i <= r.range[2]
      BY <1>2, <1>4
<1>6. \A f \in Batch(r) : \E i \in r.range[1] .. r.range[2] : f = s[i]
      BY <1>2 DEF Batch
<1>7. \A f \in Batch(r) : f \in Nat
      BY <1>3, <1>5, <1>6
<1>8. r.pc = "write" => \A f \in Batch(r) : ToCome(r, f)
      BY <1>2, <1>5, <1>6 DEF ToCome, Ahead
<1>9. ASSUME NEW f \in Batch(r), NEW j \in DOMAIN s, s[j] = f,
             r.queue # << >>, r.queue[1][1] <= j
      PROVE  FALSE
  <2>1. PICK i \in r.range[1] .. r.range[2] : f = s[i]
        BY <1>6
  <2>0. i \in DOMAIN s /\ i \in Nat /\ j \in Nat /\ i <= r.range[2] /\ r.range[2] + 1 <= j
        BY <1>3, <1>4, <1>5, <1>9
  <2>2. i \in DOMAIN s /\ i < j
        BY <1>4, <2>0
  <2>3. s[i] < s[j]
        BY <1>1, <1>2, <2>2 DEF FactsInOrder
  <2>. QED BY <1>3, <1>9, <2>1, <2>2, <2>3
<1>. QED BY <1>0, <1>2, <1>7, <1>8, <1>9

LEMMA ReplaysWritten ==
    ASSUME Decisions, Replays, NEW a \in Caller, Apply(a)
    PROVE  Replays'
<1>0. PICK r : r = round[a]
      OBVIOUS
<1>1. UNCHANGED << mark, spoils, strays >> /\ r.pc = "write"
      BY <1>0 DEF Apply
<1>2. Active(a) /\ r.pc \in InBatch
      BY <1>0, <1>1 DEF Active, NoRound, InBatch
<1>3. RoundTyped(r) /\ InPlace(r)
      BY <1>0, <1>2 DEF Decisions, Rounds, RoundSound
<1>4. PICK w : /\ Continue(a, w)
               /\ w.pc = "dedup" /\ w.facts = r.facts /\ w.mark = r.mark
               /\ w.range = r.range /\ w.queue = r.queue /\ w.dirty
  <2>1. PICK cands :
            Continue(a, [r EXCEPT !.pc = "dedup", !.plan = << >>, !.dirty = TRUE, !.cands = cands])
        BY <1>0 DEF Apply
  <2>. DEFINE w == [r EXCEPT !.pc = "dedup", !.plan = << >>, !.dirty = TRUE, !.cands = cands]
  <2>2. /\ w.pc = "dedup" /\ w.facts = r.facts /\ w.mark = r.mark
        /\ w.range = r.range /\ w.queue = r.queue /\ w.dirty
        BY <1>3 DEF RoundTyped, Fields
  <2>3. Continue(a, w)
        BY <2>1
  <2>. HIDE DEF w
  <2>. QED BY <2>2, <2>3
<1>5. /\ round'[a] = w /\ Active(a)' /\ \A b \in Caller \ {a} : ~Active(b) /\ ~Active(b)'
      BY <1>0, <1>1, <1>2, <1>4 DEF Continue, Decisions, Rounds, Active, NoRound
<1>6. Batch(w) = Batch(r)
      BY <1>4 DEF Batch
<1>7. /\ \A f \in Batch(r) : ToCome(r, f)
      /\ \A f \in Batch(r) : \A j \in DOMAIN r.facts :
            r.facts[j] = f => ~ (r.queue # << >> /\ r.queue[1][1] <= j)
      BY <1>0, <1>1, <1>2, BatchIsAhead
<1>8. \A f : ToCome(w, f) => ToCome(r, f)
  <2>1. \A j \in DOMAIN r.facts : r.queue # << >> /\ r.queue[1][1] <= j => r.range[1] <= j
    <3>1. /\ r.range \in Nat \X Nat /\ r.range[1] <= r.range[2] /\ StartsAt(r.queue, r.range[2] + 1)
          /\ DOMAIN r.facts \subseteq Nat
          BY <1>2, <1>3 DEF InPlace, RoundTyped
    <3>. QED BY <3>1 DEF StartsAt
  <2>. QED BY <1>1, <1>4, <2>1 DEF ToCome, Ahead
<1>9. \A f \in Batch(r) : ~Kept(f) /\ Kept(f)'
  <2>. SUFFICES ASSUME NEW f \in Batch(r)
                PROVE  ~Kept(f) /\ Kept(f)'
       OBVIOUS
  <2>1. ~Kept(f)
        BY <1>0, <1>2, <1>7 DEF Kept
  <2>2. KeptByRound(w, f) /\ ~ToCome(w, f)
        BY <1>4, <1>6, <1>7 DEF KeptByRound, ToCome, Ahead
  <2>3. \A b \in Caller : Active(b)' => b = a
        BY <1>5
  <2>. QED BY <1>5, <2>1, <2>2, <2>3 DEF Kept
<1>10. \A f \in 1 .. MaxFacts : Kept(f) => Kept(f)'
  <2>. SUFFICES ASSUME NEW f \in 1 .. MaxFacts, Kept(f)
                PROVE  Kept(f)'
       OBVIOUS
  <2>1. f <= mark \/ KeptByRound(r, f)
        BY <1>0, <1>5 DEF Kept
  <2>2. f <= mark' \/ KeptByRound(w, f)
        BY <1>1, <1>4, <2>1 DEF KeptByRound
  <2>3. ~ToCome(w, f)
        BY <1>0, <1>2, <1>8 DEF Kept
  <2>4. \A b \in Caller : Active(b)' => b = a
        BY <1>5
  <2>. QED BY <1>5, <2>2, <2>3, <2>4 DEF Kept
<1>11. /\ applied' \in [1 .. MaxFacts -> Nat]
       /\ \A f \in 1 .. MaxFacts :
             applied'[f] = IF f \in Batch(r) THEN applied[f] + 1 ELSE applied[f]
  <2>1. applied' = [f \in DOMAIN applied |-> IF f \in Batch(r) THEN applied[f] + 1 ELSE applied[f]]
        BY <1>0 DEF Apply
  <2>2. DOMAIN applied = 1 .. MaxFacts /\ \A f \in 1 .. MaxFacts : applied[f] \in Nat
        BY DEF Replays
  <2>. QED BY <2>1, <2>2
<1>12. \A f \in 1 .. MaxFacts : Given(f)' = IF f \in Batch(r) THEN Given(f) + 1 ELSE Given(f)
  <2>. SUFFICES ASSUME NEW f \in 1 .. MaxFacts
                PROVE  Given(f)' = IF f \in Batch(r) THEN Given(f) + 1 ELSE Given(f)
       OBVIOUS
  <2>1. Planned(f)' = Planned(f)
        BY <1>1 DEF Planned
  <2>2. applied[f] \in Nat /\ Cardinality(Planned(f)) \in Nat
        BY GivenIsNat DEF Replays
  <2>3. Given(f)' = applied'[f] + Cardinality(Planned(f)) /\ Given(f) = applied[f] + Cardinality(Planned(f))
        BY <2>1 DEF Given
  <2>. QED BY <1>11, <2>2, <2>3
<1>13. \A f \in 1 .. MaxFacts : Given(f)' <= spoils + 1 /\ (Kept(f)' \/ Given(f)' <= spoils)
  <2>. SUFFICES ASSUME NEW f \in 1 .. MaxFacts
                PROVE  Given(f)' <= spoils + 1 /\ (Kept(f)' \/ Given(f)' <= spoils)
       OBVIOUS
  <2>1. Given(f) \in Nat /\ spoils \in Nat /\ Given(f) <= spoils + 1
        /\ (Kept(f) \/ Given(f) <= spoils)
        BY GivenIsNat DEF Replays
  <2>2. CASE f \in Batch(r)
    <3>1. Given(f) <= spoils /\ Kept(f)' /\ Given(f)' = Given(f) + 1
          BY <1>9, <1>12, <2>1, <2>2
    <3>. QED BY <2>1, <3>1
  <2>3. CASE f \notin Batch(r)
        BY <1>10, <1>12, <2>1, <2>3
  <2>. QED BY <2>2, <2>3
<1>. QED BY <1>1, <1>11, <1>13 DEF Replays

\* What a round keeps is kept by its mark only if it has begun to commit.
LEMMA CleanKeepsNothing ==
    ASSUME Decisions, NEW a \in Caller, Active(a) => ~round[a].dirty,
           \A b \in Caller \ {a} : ~Active(b), \A b \in Caller : ~Active(b)',
           mark' = mark
    PROVE  \A f : Kept(f) => Kept(f)'
BY DEF Kept, KeptByRound

\* A round that ends writes its mark, or is made up for, or had committed
\* nothing.
LEMMA ReplaysAtEnd ==
    ASSUME Decisions, Replays, NEW a \in Caller,
           \/ OpenFails(a) \/ Close(a) \/ CloseFailed(a) \/ CloseLost(a) \/ KillAndRestart
    PROVE  Replays'
<1>1. applied' = applied /\ strays' \subseteq strays
      BY DEF OpenFails, Close, CloseFailed, CloseLost, KillAndRestart
<1>2. IsFiniteSet(strays') /\ \A f \in 1 .. MaxFacts : Planned(f)' \subseteq Planned(f)
      BY <1>1, FS_Subset DEF Planned, Replays
<1>3. ASSUME Released(a), Active(a)
      PROVE  (\A b \in Caller \ {a} : ~Active(b)) /\ \A b \in Caller : ~Active(b)'
      BY <1>3 DEF Released, Decisions, Rounds, Active
<1>4. CASE Close(a) \/ CloseFailed(a)
  <2>0. PICK r : r = round[a]
        OBVIOUS
  <2>1. /\ mark' = Recorded(r.mark) /\ r.pc \notin {"dedup", "merge"} /\ Active(a)
        /\ spoils' = spoils /\ Released(a)
        BY <1>4, <2>0 DEF Close, CloseFailed, FinishRun, Active, NoRound
  <2>2. mark \in Nat /\ r.mark \in Nat
        BY <2>0, <2>1 DEF Decisions, Facts, Rounds, RoundSound, RoundTyped
  <2>3. mark' \in Nat /\ mark <= mark' /\ r.mark <= mark'
        BY <2>1, <2>2 DEF Recorded
  <2>4. (\A b \in Caller \ {a} : ~Active(b)) /\ \A b \in Caller : ~Active(b)'
        BY <1>3, <2>1
  <2>5. \A f \in 1 .. MaxFacts : Kept(f) => f <= mark'
        BY <2>0, <2>1, <2>2, <2>3, <2>4 DEF Kept, KeptByRound
  <2>6. \A f \in 1 .. MaxFacts : Kept(f) => Kept(f)'
        BY <2>4, <2>5 DEF Kept
  <2>. QED BY <1>1, <1>2, <2>1, <2>6, ReplaysStay
<1>5. CASE OpenFails(a)
  <2>1. Active(a) /\ Released(a) /\ mark' = mark /\ spoils' = spoils
        BY <1>5 DEF OpenFails, Active, NoRound
  <2>2. ~round[a].dirty
        BY <1>5, <2>1 DEF OpenFails, Decisions, Rounds, RoundSound, InPlace
  <2>3. \A f : Kept(f) => Kept(f)'
        BY <1>3, <2>1, <2>2, CleanKeepsNothing
  <2>. QED BY <1>1, <1>2, <2>1, <2>3, ReplaysStay
<1>6. CASE CloseLost(a)
  <2>1. Active(a) /\ Released(a) /\ mark' = mark
        BY <1>6 DEF CloseLost, Active, NoRound
  <2>2. CASE round[a].dirty
        BY <1>1, <1>2, <1>6, <2>2, ReplaysStay DEF CloseLost
  <2>3. CASE ~round[a].dirty
    <3>1. \A f : Kept(f) => Kept(f)'
          BY <1>3, <2>1, <2>3, CleanKeepsNothing
    <3>. QED BY <1>1, <1>2, <1>6, <2>3, <3>1, ReplaysStay DEF CloseLost
  <2>. QED BY <2>2, <2>3
<1>7. CASE KillAndRestart
  <2>1. CASE \E b \in Caller : Active(b) /\ round[b].dirty
        BY <1>1, <1>2, <1>7, <2>1, ReplaysStay DEF KillAndRestart, Active
  <2>2. CASE ~ \E b \in Caller : Active(b) /\ round[b].dirty
    <3>1. mark' = mark /\ spoils' = spoils /\ \A b \in Caller : ~Active(b)'
          BY <1>7, <2>2 DEF KillAndRestart, Active
    <3>2. \A f : Kept(f) => Kept(f)'
          BY <2>2, <3>1 DEF Kept, KeptByRound
    <3>. QED BY <1>1, <1>2, <3>1, <3>2, ReplaysStay
  <2>. QED BY <2>1, <2>2
<1>. QED BY <1>4, <1>5, <1>6, <1>7

\* A plan that is left behind gives its facts once more: the drop is a spoil.
LEMMA ReplaysDropped ==
    ASSUME Decisions, Replays, NEW a \in Caller, Drop(a)
    PROVE  Replays'
<1>0. PICK r : r = round[a]
      OBVIOUS
<1>1. Active(a) /\ Released(a) /\ applied' = applied /\ mark' = mark
      BY <1>0 DEF Drop, Active
<1>2. PICK left \in SUBSET Begun(r) :
          /\ strays' = strays \cup left
          /\ spoils' = IF r.dirty \/ (r.pc = "write" /\ left # {}) THEN spoils + 1 ELSE spoils
      BY <1>0 DEF Drop
<1>3. (\A b \in Caller \ {a} : ~Active(b)) /\ \A b \in Caller : ~Active(b)'
      BY <1>1 DEF Released, Decisions, Rounds, Active
<1>4. PICK x : Begun(r) \subseteq {x} /\ (r.pc # "write" => x.kind # "plan")
               /\ (r.pc = "write" => x.of = Batch(r))
  <2>1. CASE r.pc = "write"
    <3>. DEFINE x == [no |-> faults, kind |-> "plan", write |-> r.plan, of |-> Batch(r)]
    <3>1. Begun(r) = {x} /\ x.of = Batch(r)
          BY <2>1 DEF Begun
    <3>. QED BY <2>1, <3>1
  <2>2. CASE r.pc = "merge"
    <3>. DEFINE x == [no |-> faults, kind |-> "merge", write |-> r.plan, of |-> {}]
    <3>1. Begun(r) = {x} /\ x.kind # "plan"
          BY <2>2 DEF Begun
    <3>. QED BY <2>2, <3>1
  <2>3. CASE r.pc \in {"close", "fail"}
    <3>. DEFINE x == [no |-> faults, kind |-> "finish", of |-> {},
                      write |-> [status |-> IF r.pc = "fail" THEN "failed" ELSE "done",
                                 mark |-> r.mark]]
    <3>1. Begun(r) = {x} /\ x.kind # "plan"
          BY <2>3 DEF Begun
    <3>. QED BY <2>3, <3>1
  <2>4. CASE r.pc \notin {"write", "merge", "close", "fail"}
    <3>1. Begun(r) = {}
          BY <2>4 DEF Begun
    <3>2. [kind |-> "none"].kind # "plan"
          OBVIOUS
    <3>. QED BY <2>4, <3>1, <3>2
  <2>. QED BY <2>1, <2>2, <2>3, <2>4
<1>5. IsFiniteSet(strays')
  <2>1. left = {} \/ left = {x}
        BY <1>4
  <2>2. IsFiniteSet(strays \cup {x}) /\ IsFiniteSet(strays \cup {})
        BY FS_AddElement DEF Replays
  <2>. QED BY <1>2, <2>1, <2>2
<1>6. CASE r.pc = "write" /\ left # {}
  <2>1. r.pc \in InBatch /\ spoils' = spoils + 1
        BY <1>2, <1>6 DEF InBatch
  <2>2. \A f \in Batch(r) : ~Kept(f)
        BY <1>0, <1>1, <1>6, <2>1, BatchIsAhead DEF Kept
  <2>3. ASSUME NEW f \in 1 .. MaxFacts
        PROVE  Given(f)' <= spoils'
    <3>1. /\ Given(f) \in Nat /\ spoils \in Nat /\ Given(f) <= spoils + 1
          /\ (Kept(f) \/ Given(f) <= spoils)
          /\ IsFiniteSet(Planned(f)) /\ Cardinality(Planned(f)) \in Nat /\ applied[f] \in Nat
          BY GivenIsNat DEF Replays
    <3>2. Given(f)' = applied[f] + Cardinality(Planned(f)') /\ Given(f) = applied[f] + Cardinality(Planned(f))
          BY <1>1 DEF Given
    <3>3. CASE f \in Batch(r)
      <4>1. Given(f) <= spoils
            BY <2>2, <3>1, <3>3
      <4>2. Planned(f)' \subseteq Planned(f) \cup {x}
            BY <1>2, <1>4 DEF Planned
      <4>3. /\ IsFiniteSet(Planned(f) \cup {x})
            /\ \/ Cardinality(Planned(f) \cup {x}) = Cardinality(Planned(f)) + 1
               \/ Cardinality(Planned(f) \cup {x}) = Cardinality(Planned(f))
            BY <3>1, FS_AddElement
      <4>4. Cardinality(Planned(f)') <= Cardinality(Planned(f) \cup {x}) /\ IsFiniteSet(Planned(f)')
            BY <4>2, <4>3, FS_Subset
      <4>5. Cardinality(Planned(f)') \in Nat
            BY <4>4, FS_CardinalityType
      <4>. QED BY <2>1, <3>1, <3>2, <4>1, <4>3, <4>4, <4>5
    <3>4. CASE f \notin Batch(r)
      <4>1. Planned(f)' = Planned(f)
            BY <1>2, <1>4, <1>6, <3>4 DEF Planned
      <4>. QED BY <2>1, <3>1, <3>2, <4>1
    <3>. QED BY <3>3, <3>4
  <2>4. \A f \in 1 .. MaxFacts : Given(f)' <= spoils' + 1
    <3>. SUFFICES ASSUME NEW f \in 1 .. MaxFacts
                  PROVE  Given(f)' <= spoils' + 1
         OBVIOUS
    <3>1. applied' \in [1 .. MaxFacts -> Nat] /\ spoils' \in Nat
          BY <1>1, <2>1 DEF Replays
    <3>2. Given(f)' \in Nat
      <4>1. Planned(f)' \in SUBSET strays'
            BY DEF Planned
      <4>2. Cardinality(Planned(f)') \in Nat
            BY <1>5, <4>1, FS_Subset, FS_CardinalityType
      <4>. QED BY <3>1, <4>2 DEF Given
    <3>. QED BY <2>3, <3>1, <3>2
  <2>. QED BY <1>1, <1>5, <2>1, <2>3, <2>4 DEF Replays
<1>7. CASE ~ (r.pc = "write" /\ left # {})
  <2>1. \A f \in 1 .. MaxFacts : Planned(f)' \subseteq Planned(f)
    <3>1. left = {} \/ r.pc # "write"
          BY <1>7
    <3>. QED BY <1>2, <1>4, <3>1 DEF Planned
  <2>2. CASE r.dirty
        BY <1>1, <1>2, <1>5, <2>1, <2>2, ReplaysStay
  <2>3. CASE ~r.dirty
    <3>1. \A f : Kept(f) => Kept(f)'
          BY <1>0, <1>1, <1>3, <2>3, CleanKeepsNothing
    <3>. QED BY <1>1, <1>2, <1>5, <1>7, <2>1, <2>3, <3>1, ReplaysStay
  <2>. QED BY <2>2, <2>3
<1>. QED BY <1>6, <1>7

\* A stray plan that commits gives what it was counted for already.
LEMMA ReplaysLate ==
    ASSUME Decisions, Replays, LatePlan \/ LateMerge \/ LateFinish
    PROVE  Replays'
<1>1. round' = round /\ spoils' = spoils /\ strays' \subseteq strays
      BY DEF LatePlan, LateMerge, LateFinish
<1>2. IsFiniteSet(strays')
      BY <1>1, FS_Subset DEF Replays
<1>3. mark \in Nat /\ mark' \in Nat /\ mark <= mark'
  <2>1. CASE LatePlan \/ LateMerge
        BY <2>1 DEF LatePlan, LateMerge, Decisions, Facts
  <2>2. CASE LateFinish
    <3>1. PICK t \in strays : t.kind = "finish" /\ mark' = Recorded(t.write.mark)
          BY <2>2 DEF LateFinish, FinishRun
    <3>2. mark \in Nat /\ t.write.mark \in Nat
          BY <3>1 DEF Decisions, Facts, Strays, Late
    <3>. QED BY <3>1, <3>2 DEF Recorded
  <2>. QED BY <2>1, <2>2
<1>4. \A f \in 1 .. MaxFacts : Kept(f) => Kept(f)'
  <2>1. \A f \in 1 .. MaxFacts : f <= mark => f <= mark'
        BY <1>3
  <2>2. \A b : Active(b)' <=> Active(b)
        BY <1>1 DEF Active
  <2>3. \A b, f : /\ KeptByRound(round[b], f)' <=> KeptByRound(round[b], f)
                  /\ ToCome(round[b], f)' <=> ToCome(round[b], f)
        BY <1>1 DEF KeptByRound, Batch, ToCome, Ahead
  <2>. QED BY <2>1, <2>2, <2>3 DEF Kept
<1>5. CASE LateMerge \/ LateFinish
  <2>1. applied' = applied
        BY <1>5 DEF LateMerge, LateFinish
  <2>2. \A f \in 1 .. MaxFacts : Planned(f)' \subseteq Planned(f)
        BY <1>1 DEF Planned
  <2>. QED BY <1>1, <1>2, <1>4, <2>1, <2>2, ReplaysStay
<1>6. CASE LatePlan
  <2>1. PICK t \in strays :
            /\ t.kind = "plan" /\ strays' = strays \ {t}
            /\ applied' = [f \in DOMAIN applied |->
                              IF f \in t.of THEN applied[f] + 1 ELSE applied[f]]
        BY <1>6 DEF LatePlan
  <2>2. /\ applied' \in [1 .. MaxFacts -> Nat]
        /\ \A f \in 1 .. MaxFacts :
              applied'[f] = IF f \in t.of THEN applied[f] + 1 ELSE applied[f]
    <3>1. DOMAIN applied = 1 .. MaxFacts /\ \A f \in 1 .. MaxFacts : applied[f] \in Nat
          BY DEF Replays
    <3>. QED BY <2>1, <3>1
  <2>3. ASSUME NEW f \in 1 .. MaxFacts
        PROVE  Given(f)' = Given(f)
    <3>1. IsFiniteSet(Planned(f)) /\ Cardinality(Planned(f)) \in Nat /\ applied[f] \in Nat
          BY GivenIsNat DEF Replays
    <3>2. /\ Given(f)' = applied'[f] + Cardinality(Planned(f)')
          /\ Given(f) = applied[f] + Cardinality(Planned(f))
          BY DEF Given
    <3>3. CASE f \in t.of
      <4>1. Planned(f)' = Planned(f) \ {t} /\ t \in Planned(f)
            BY <2>1, <3>3 DEF Planned
      <4>2. Cardinality(Planned(f)') = Cardinality(Planned(f)) - 1
            BY <3>1, <4>1, FS_RemoveElement
      <4>3. applied'[f] = applied[f] + 1
            BY <2>2, <3>3
      <4>. QED BY <3>1, <3>2, <4>2, <4>3
    <3>4. CASE f \notin t.of
      <4>1. Planned(f)' = Planned(f)
            BY <2>1, <3>4 DEF Planned
      <4>. QED BY <2>2, <3>2, <3>4, <4>1
    <3>. QED BY <3>3, <3>4
  <2>4. \A f \in 1 .. MaxFacts : Given(f)' <= spoils + 1 /\ (Kept(f)' \/ Given(f)' <= spoils)
        BY <1>4, <2>3 DEF Replays
  <2>. QED BY <1>1, <1>2, <2>2, <2>4 DEF Replays
<1>. QED BY <1>5, <1>6

LEMMA ReplaysElsewhere ==
    ASSUME Decisions, Decisions', Replays,
           \/ \E a \in Caller : Begin(a)
           \/ RetainArrives \/ RetainSettles \/ Hide \/ Restore \/ UNCHANGED roundVars
    PROVE  Replays'
<1>1. UNCHANGED << mark, applied, spoils, strays >>
      BY DEF Begin, RetainArrives, RetainSettles, Hide, Restore, roundVars
<1>2. IsFiniteSet(strays') /\ \A f \in 1 .. MaxFacts : Planned(f)' \subseteq Planned(f)
      BY <1>1 DEF Planned, Replays
<1>3. CASE \E a \in Caller : Begin(a)
  <2>1. PICK a \in Caller : Begin(a)
        BY <1>3
  <2>2. \A b \in Caller : ~Active(b)
        BY <2>1 DEF Begin, RoundClaimed, Active
  <2>3. PICK facts :
            Continue(a, [pc |-> "open", facts |-> facts,
                         queue |-> Ranges(Len(facts)), range |-> << 1, 1 >>,
                         mark |-> mark, plan |-> << >>, cands |-> << >>,
                         budget |-> Adjudications, dirty |-> FALSE])
        BY <2>1 DEF Begin
  <2>4. PICK r : r = round'[a]
        OBVIOUS
  <2>5. /\ r.pc = "open" /\ r.mark = mark
        /\ Active(a)' /\ \A b \in Caller \ {a} : ~Active(b)'
        BY <2>2, <2>3, <2>4 DEF Continue, Decisions, Rounds, Active, NoRound
  <2>6. RoundTyped(r)' /\ InPlace(r)'
        BY <2>4, <2>5 DEF Decisions, Rounds, RoundSound
  <2>7. \A f : ToCome(r, f) => f \in Nat /\ f > mark
    <3>1. r.queue # << >> => DecidedTo(r, r.queue[1][1])'
          BY <2>5, <2>6 DEF InPlace
    <3>. SUFFICES ASSUME NEW j \in DOMAIN r.facts, Ahead(r, j)
                  PROVE  r.facts[j] \in Nat /\ r.facts[j] > mark
         BY DEF ToCome
    <3>2. r.queue # << >> /\ r.queue[1][1] <= j
          BY <2>5 DEF Ahead
    <3>3. PICK s \in Seq(Nat) : s = r.facts
          BY <2>6 DEF RoundTyped
    <3>4. s[j] \in Nat /\ j \in Nat
          BY <3>3
    <3>5. InOrder(r.queue, Len(r.facts))
          BY <2>4, <2>5 DEF Decisions, Rounds, RoundSound
    <3>6. r.queue[1][1] \in Nat
      <4>1. 1 \in 1 .. Len(r.queue) /\ r.queue \in Seq(Nat \X Nat)
            BY <3>2, <3>5 DEF InOrder
      <4>. QED BY <4>1
    <3>7. ~ (j < r.queue[1][1])
          BY <3>2, <3>4, <3>6
    <3>. QED BY <2>5, <3>1, <3>2, <3>3, <3>4, <3>7 DEF DecidedTo
  <2>8. \A f \in 1 .. MaxFacts : Kept(f) => Kept(f)'
    <3>. SUFFICES ASSUME NEW f \in 1 .. MaxFacts, Kept(f)
                  PROVE  Kept(f)'
         OBVIOUS
    <3>1. f <= mark /\ mark \in Nat
          BY <2>2 DEF Kept, Decisions, Facts
    <3>2. ~ToCome(r, f)
          BY <2>7, <3>1
    <3>. QED BY <1>1, <2>4, <2>5, <3>1, <3>2 DEF Kept
  <2>. QED BY <1>1, <1>2, <2>8, ReplaysStay
<1>4. CASE round' = round
  <2>1. \A f : Kept(f) => Kept(f)'
        BY <1>1, <1>4 DEF Kept, Active, KeptByRound, Batch, ToCome, Ahead
  <2>. QED BY <1>1, <1>2, <2>1, ReplaysStay
<1>. QED BY <1>3, <1>4 DEF RetainArrives, RetainSettles, Hide, Restore, roundVars

LEMMA ReplaysAlways == RoundSpec => []Replays
<1>1. RoundInit => Replays
  <2>. SUFFICES ASSUME RoundInit PROVE Replays
       OBVIOUS
  <2>1. strays = {} /\ applied = [f \in 1 .. MaxFacts |-> 0] /\ spoils = 0
        BY DEF RoundInit
  <2>2. \A f : Planned(f) = {}
        BY <2>1 DEF Planned
  <2>3. \A f \in 1 .. MaxFacts : Given(f) = 0
        BY <2>1, <2>2, FS_EmptySet DEF Given
  <2>. QED BY <2>1, <2>3, FS_EmptySet DEF Replays
<1>2. Decisions /\ Decisions' /\ Replays /\ [RoundNext]_roundVars => Replays'
      BY ReplaysInBatch, ReplaysWritten, ReplaysAtEnd, ReplaysDropped, ReplaysLate,
         ReplaysElsewhere
      DEF RoundNext, RoundStep, Caller
<1>. QED BY <1>1, <1>2, DecisionsAlways, PTL DEF RoundSpec

\* A fact is applied once, and once more only for each round whose mark was
\* lost, or came late, after it had begun to commit.
THEOREM FactsAreAppliedOnce == RoundSpec => []ReplaysAreSpoils
<1>1. Replays => ReplaysAreSpoils
  <2>. SUFFICES ASSUME Replays, NEW f \in 1 .. MaxFacts
                PROVE  applied[f] <= 1 + spoils
       BY DEF ReplaysAreSpoils, Replays
  <2>1. /\ applied[f] \in Nat /\ Given(f) \in Nat /\ applied[f] <= Given(f)
        /\ Given(f) <= spoils + 1 /\ spoils \in Nat
        BY GivenIsNat DEF Replays
  <2>. QED BY <2>1
<1>. QED BY <1>1, ReplaysAlways, PTL

(***************************************************************************)
(* Provenance.                                                             *)
(***************************************************************************)

\* Of the actions only a plan and a merge touch an observation, and a merge,
\* of a round or a stray, moves what it drops into a twin that lives.
LEMMA MergeMovesSources ==
    ASSUME NEW m, m.keep # m.drop, BothLive(m), obs' = Merged(m)
    PROVE  UNION {obs[o].src : o \in Living} \subseteq UNION {obs'[o].src : o \in Living'}
<1>. DEFINE own == m.drop
            twin == m.keep
<1>1. own \in Living /\ twin \in Living /\ twin # own
      BY DEF BothLive
<1>2. own \in DOMAIN obs /\ twin \in DOMAIN obs /\ twin # own
      BY <1>1 DEF Living
<1>3. /\ DOMAIN obs' = DOMAIN obs
      /\ obs'[twin].live /\ obs'[twin].src = obs[twin].src \cup obs[own].src
      /\ \A o \in DOMAIN obs \ {own, twin} : obs'[o] = obs[o]
      BY <1>1, <1>2 DEF Merged, Linked
<1>4. twin \in Living' /\ \A o \in Living \ {own} : o \in Living'
      BY <1>2, <1>3 DEF Living
<1>5. ASSUME NEW o \in Living, NEW f \in obs[o].src
      PROVE  \E k \in Living' : f \in obs'[k].src
  <2>1. CASE o \in {own, twin}
        BY <1>3, <1>4, <1>5, <2>1
  <2>2. CASE o \notin {own, twin}
        BY <1>3, <1>4, <1>5, <2>2 DEF Living
  <2>. QED BY <2>1, <2>2
<1>. QED BY <1>5

\* The two sides of a merge are two observations, in a round and in a stray.
Sides ==
    /\ \A a \in Caller : round[a].pc = "merge" => round[a].plan.keep # round[a].plan.drop
    /\ \A t \in strays : t.kind = "merge" => t.write.keep # t.write.drop

\* The phase each step leaves its round in, as far as a merge is concerned.
LEMMA PhaseShapes ==
    ASSUME NEW a \in Caller, round[a] # NoRound => RoundTyped(round[a]),
           OpenRun(a) \/ NextBatch(a) \/ Bisect(a) \/ Answer(a)
    PROVE  \E w : Continue(a, w) /\ w.pc \in {"next", "close", "ask", "write"}
<1>0. PICK r : r = round[a]
      OBVIOUS
<1>1. r.pc # "idle"
      BY <1>0 DEF OpenRun, NextBatch, Bisect, Answer
<1>2. DOMAIN r = Fields
      BY <1>0, <1>1 DEF NoRound, RoundTyped
<1>3. CASE Continue(a, [r EXCEPT !.pc = "next"])
  <2>1. [r EXCEPT !.pc = "next"].pc = "next"
        BY <1>2 DEF Fields
  <2>. QED BY <1>3, <2>1
<1>4. CASE Continue(a, [r EXCEPT !.pc = "close"])
  <2>1. [r EXCEPT !.pc = "close"].pc = "close"
        BY <1>2 DEF Fields
  <2>. QED BY <1>4, <2>1
<1>5. CASE Continue(a, [r EXCEPT !.pc = "ask", !.range = Head(r.queue), !.queue = Tail(r.queue)])
  <2>1. [r EXCEPT !.pc = "ask", !.range = Head(r.queue), !.queue = Tail(r.queue)].pc = "ask"
        BY <1>2 DEF Fields
  <2>. QED BY <1>5, <2>1
<1>6. CASE Continue(a, [r EXCEPT !.pc = "next", !.queue = Halves(r.range) \o r.queue])
  <2>1. [r EXCEPT !.pc = "next", !.queue = Halves(r.range) \o r.queue].pc = "next"
        BY <1>2 DEF Fields
  <2>. QED BY <1>6, <2>1
<1>7. CASE \E p : Continue(a, [r EXCEPT !.pc = "write", !.plan = p])
  <2>1. PICK p : Continue(a, [r EXCEPT !.pc = "write", !.plan = p])
        BY <1>7
  <2>2. [r EXCEPT !.pc = "write", !.plan = p].pc = "write"
        BY <1>2 DEF Fields
  <2>. QED BY <2>1, <2>2
<1>. QED BY <1>0, <1>3, <1>4, <1>5, <1>6, <1>7 DEF OpenRun, NextBatch, Bisect, Answer

LEMMA PlanShapes ==
    ASSUME NEW a \in Caller, round[a] # NoRound => RoundTyped(round[a]),
           Abandon(a) \/ Apply(a) \/ BatchApplied(a)
    PROVE  \E w : Continue(a, w) /\ w.pc \in {"next", "dedup"}
<1>0. PICK r : r = round[a]
      OBVIOUS
<1>1. r.pc # "idle"
      BY <1>0 DEF Abandon, Apply, BatchApplied
<1>2. DOMAIN r = Fields
      BY <1>0, <1>1 DEF NoRound, RoundTyped
<1>3. CASE Abandon(a)
  <2>1. Continue(a, Passed(r)) /\ Passed(r).pc = "next"
        BY <1>0, <1>2, <1>3 DEF Abandon, Passed, Fields
  <2>. QED BY <2>1
<1>4. CASE BatchApplied(a)
  <2>1. /\ Continue(a, [Passed(r) EXCEPT !.cands = << >>])
        /\ [Passed(r) EXCEPT !.cands = << >>].pc = "next"
        BY <1>0, <1>2, <1>4 DEF BatchApplied, Passed, Fields
  <2>. QED BY <2>1
<1>5. CASE Apply(a)
  <2>1. PICK cands :
            Continue(a, [r EXCEPT !.pc = "dedup", !.plan = << >>, !.dirty = TRUE, !.cands = cands])
        BY <1>0, <1>5 DEF Apply
  <2>2. [r EXCEPT !.pc = "dedup", !.plan = << >>, !.dirty = TRUE, !.cands = cands].pc = "dedup"
        BY <1>2 DEF Fields
  <2>. QED BY <2>1, <2>2
<1>. QED BY <1>3, <1>4, <1>5

LEMMA MergeShapes ==
    ASSUME NEW a \in Caller, round[a] # NoRound => RoundTyped(round[a]),
           Keep(a) \/ Adjudicate(a) \/ Merge(a) \/ Vanished(a) \/ BatchFails(a)
    PROVE  \E w : Continue(a, w) /\ (w.pc = "merge" => w.plan.keep # w.plan.drop)
<1>0. PICK r : r = round[a]
      OBVIOUS
<1>1. r.pc # "idle"
      BY <1>0 DEF Keep, Adjudicate, Merge, Vanished, BatchFails
<1>2. DOMAIN r = Fields
      BY <1>0, <1>1 DEF NoRound, RoundTyped
<1>3. CASE Keep(a)
  <2>1. PICK called \in {0, 1} :
            Continue(a, [r EXCEPT !.cands = Tail(@), !.budget = @ - called])
        BY <1>0, <1>3 DEF Keep
  <2>2. [r EXCEPT !.cands = Tail(@), !.budget = @ - called].pc = "dedup"
        BY <1>0, <1>2, <1>3 DEF Keep, Fields
  <2>. QED BY <2>1, <2>2
<1>4. CASE Adjudicate(a)
  <2>1. PICK twin \in Twins(r.cands[1].id) :
            Continue(a, [r EXCEPT !.pc = "merge",
                                  !.plan = [keep |-> twin, drop |-> r.cands[1].id,
                                            text |-> Shown(twin) \cup r.cands[1].text]])
        BY <1>0, <1>4 DEF Adjudicate
  <2>2. PICK m : m = [keep |-> twin, drop |-> r.cands[1].id,
                      text |-> Shown(twin) \cup r.cands[1].text]
        OBVIOUS
  <2>3. m.keep # m.drop
        BY <2>2 DEF Twins
  <2>4. [r EXCEPT !.pc = "merge", !.plan = m].plan = m
        BY <1>2 DEF Fields
  <2>. QED BY <2>1, <2>2, <2>3, <2>4
<1>5. CASE Merge(a)
  <2>1. Continue(a, [r EXCEPT !.pc = "dedup", !.plan = << >>, !.cands = Tail(@), !.budget = @ - 1])
        BY <1>0, <1>5 DEF Merge
  <2>2. [r EXCEPT !.pc = "dedup", !.plan = << >>, !.cands = Tail(@), !.budget = @ - 1].pc = "dedup"
        BY <1>2 DEF Fields
  <2>. QED BY <2>1, <2>2
<1>6. CASE Vanished(a) \/ BatchFails(a)
  <2>1. Continue(a, [r EXCEPT !.pc = "fail", !.plan = << >>, !.cands = << >>])
        BY <1>0, <1>6 DEF Vanished, BatchFails
  <2>2. [r EXCEPT !.pc = "fail", !.plan = << >>, !.cands = << >>].pc = "fail"
        BY <1>2 DEF Fields
  <2>. QED BY <2>1, <2>2
<1>. QED BY <1>3, <1>4, <1>5, <1>6

LEMMA SidesAlways == RoundSpec => []Sides
<1>1. RoundInit => Sides
      BY DEF RoundInit, Sides, NoRound
<1>2. Decisions /\ Sides /\ [RoundNext]_roundVars => Sides'
  <2>. SUFFICES ASSUME Decisions, Sides, [RoundNext]_roundVars
                PROVE  Sides'
       OBVIOUS
  <2>1. ASSUME NEW a \in Caller, NEW w, Continue(a, w), strays' = strays,
               w.pc = "merge" => w.plan.keep # w.plan.drop
        PROVE  Sides'
        BY <2>1 DEF Sides, Continue, Decisions, Rounds
  <2>2. ASSUME NEW a \in Caller, Released(a), strays' \subseteq strays \cup Begun(round[a])
        PROVE  Sides'
    <3>1. \A t \in Begun(round[a]) : t.kind = "merge" => t.write.keep # t.write.drop
          BY DEF Begun, Sides
    <3>. QED BY <2>2, <3>1 DEF Sides, Released, NoRound, Decisions, Rounds
  <2>3. ASSUME round' = round, strays' \subseteq strays
        PROVE  Sides'
        BY <2>3 DEF Sides
  <2>4. CASE \E a \in Caller : \/ Begin(a) \/ OpenRun(a) \/ NextBatch(a) \/ Bisect(a) \/ Answer(a)
                               \/ Abandon(a) \/ Apply(a) \/ BatchApplied(a)
    <3>1. PICK a \in Caller : \/ Begin(a) \/ OpenRun(a) \/ NextBatch(a) \/ Bisect(a) \/ Answer(a)
                              \/ Abandon(a) \/ Apply(a) \/ BatchApplied(a)
          BY <2>4
    <3>2. round[a] # NoRound => RoundTyped(round[a])
          BY DEF Decisions, Rounds, Active, RoundSound
    <3>3. CASE Begin(a)
      <4>1. PICK facts : Continue(a, [pc |-> "open", facts |-> facts,
                           queue |-> Ranges(Len(facts)), range |-> << 1, 1 >>,
                           mark |-> mark, plan |-> << >>, cands |-> << >>,
                           budget |-> Adjudications, dirty |-> FALSE])
            BY <3>3 DEF Begin
      <4>2. strays' = strays
            BY <3>3 DEF Begin
      <4>. DEFINE w == [pc |-> "open", facts |-> facts,
                        queue |-> Ranges(Len(facts)), range |-> << 1, 1 >>,
                        mark |-> mark, plan |-> << >>, cands |-> << >>,
                        budget |-> Adjudications, dirty |-> FALSE]
      <4>3. Continue(a, w) /\ w.pc # "merge"
            BY <4>1
      <4>. HIDE DEF w
      <4>. QED BY <2>1, <4>2, <4>3
    <3>4. CASE OpenRun(a) \/ NextBatch(a) \/ Bisect(a) \/ Answer(a)
      <4>1. PICK w : Continue(a, w) /\ w.pc \in {"next", "close", "ask", "write"}
            BY <3>2, <3>4, PhaseShapes
      <4>2. strays' = strays
            BY <3>4 DEF OpenRun, NextBatch, Bisect, Answer
      <4>. QED BY <2>1, <4>1, <4>2
    <3>5. CASE Abandon(a) \/ Apply(a) \/ BatchApplied(a)
      <4>1. PICK w : Continue(a, w) /\ w.pc \in {"next", "dedup"}
            BY <3>2, <3>5, PlanShapes
      <4>2. strays' = strays
            BY <3>5 DEF Abandon, Apply, BatchApplied
      <4>. QED BY <2>1, <4>1, <4>2
    <3>. QED BY <3>1, <3>3, <3>4, <3>5
  <2>5. CASE \E a \in Caller : Keep(a) \/ Adjudicate(a) \/ Merge(a) \/ Vanished(a) \/ BatchFails(a)
    <3>1. PICK a \in Caller : Keep(a) \/ Adjudicate(a) \/ Merge(a) \/ Vanished(a) \/ BatchFails(a)
          BY <2>5
    <3>2. strays' = strays
          BY <3>1 DEF Keep, Adjudicate, Merge, Vanished, BatchFails
    <3>3. PICK w : Continue(a, w) /\ (w.pc = "merge" => w.plan.keep # w.plan.drop)
          BY <3>1, MergeShapes DEF Decisions, Rounds, Active, RoundSound
    <3>. QED BY <2>1, <3>2, <3>3
  <2>6. CASE \E a \in Caller : \/ OpenFails(a) \/ Close(a) \/ CloseFailed(a) \/ CloseLost(a)
                               \/ Drop(a)
    <3>1. PICK a \in Caller : /\ Released(a)
                              /\ strays' \subseteq strays \cup Begun(round[a])
          BY <2>6 DEF OpenFails, Close, CloseFailed, CloseLost, Drop
    <3>. QED BY <2>2, <3>1
  <2>7. CASE KillAndRestart
        BY <2>7 DEF KillAndRestart, Sides, NoRound
  <2>8. CASE \/ LatePlan \/ LateMerge \/ LateFinish \/ RetainArrives \/ RetainSettles
             \/ Hide \/ Restore \/ UNCHANGED roundVars
        BY <2>3, <2>8 DEF LatePlan, LateMerge, LateFinish, RetainArrives, RetainSettles, Hide,
                          Restore, roundVars
  <2>. QED BY <2>4, <2>5, <2>6, <2>7, <2>8 DEF RoundNext, RoundStep
<1>. QED BY <1>1, <1>2, DecisionsAlways, PTL DEF RoundSpec

\* Provenance is given up only by a plan: no other step of a round, of a stray,
\* of another caller or of the bank takes a source from the bank's observations.
THEOREM MergesMoveSources == RoundSpec => SourcesAreMoved
<1>. DEFINE Moved == (\A a \in Caller : round[a].pc # "write") /\ (\A t \in strays : t.kind # "plan") =>
                         UNION {obs[o].src : o \in Living}
                             \subseteq UNION {obs'[o].src : o \in Living'}
<1>1. Sides /\ [RoundNext]_roundVars => Moved
  <2>. SUFFICES ASSUME Sides, [RoundNext]_roundVars, \A a \in Caller : round[a].pc # "write",
                       \A t \in strays : t.kind # "plan"
                PROVE  UNION {obs[o].src : o \in Living}
                           \subseteq UNION {obs'[o].src : o \in Living'}
       OBVIOUS
  <2>1. obs' = obs \/ LatePlan \/ LateMerge \/ \E a \in Caller : Apply(a) \/ Merge(a)
        BY DEF RoundNext, RoundStep, roundVars, Begin, OpenRun, OpenFails, NextBatch, Bisect,
               Abandon, Answer, Keep, Adjudicate, Vanished, BatchApplied, BatchFails, Close,
               CloseFailed, CloseLost, Drop, LateFinish, KillAndRestart, RetainArrives,
               RetainSettles, Hide, Restore
  <2>2. CASE obs' = obs
        BY <2>2 DEF Living
  <2>3. CASE LatePlan
        BY <2>3 DEF LatePlan
  <2>4. CASE LateMerge
    <3>1. PICK t \in strays : /\ t.kind = "merge"
                              /\ obs' = IF BothLive(t.write) THEN Merged(t.write) ELSE obs
          BY <2>4 DEF LateMerge
    <3>2. t.write.keep # t.write.drop
          BY <3>1 DEF Sides
    <3>3. CASE BothLive(t.write)
          BY <3>1, <3>2, <3>3, MergeMovesSources
    <3>4. CASE ~BothLive(t.write)
          BY <2>2, <3>1, <3>4
    <3>. QED BY <3>3, <3>4
  <2>5. CASE \E a \in Caller : Apply(a) \/ Merge(a)
    <3>1. PICK a \in Caller : Merge(a)
          BY <2>5 DEF Apply
    <3>2. round[a].pc = "merge" /\ BothLive(round[a].plan) /\ obs' = Merged(round[a].plan)
          BY <3>1 DEF Merge
    <3>3. round[a].plan.keep # round[a].plan.drop
          BY <3>2 DEF Sides
    <3>. QED BY <3>2, <3>3, MergeMovesSources
  <2>. QED BY <2>1, <2>2, <2>3, <2>4, <2>5
<1>. QED BY <1>1, SidesAlways, PTL DEF RoundSpec, SourcesAreMoved
=============================================================================
