------------------------- MODULE Background_proofs -------------------------
(***************************************************************************)
(* Proofs about what the daemon's background tasks keep, for any numbers   *)
(* of banks, rows, stamps and texts: retractions form no cycle             *)
(* (Supersession), every vector is of the text of its row (NodeVectors), a *)
(* model's document is what its folds made of it (MentalModels), and a     *)
(* bank's working state never goes back to an older transcript             *)
(* (TaskLedger); and for any callers of the language model, its permits    *)
(* are accounted for (OllamaPermit).                                       *)
(***************************************************************************)
EXTENDS Supersession, NodeVectors, MentalModels, TaskLedger, OllamaPermit,
        FiniteSetTheorems, SequenceTheorems, WellFoundedInduction, TLAPS

(***************************************************************************)
(* Least and greatest elements of sets of naturals.                        *)
(***************************************************************************)

LEMMA HasLeast ==
    ASSUME NEW K \in SUBSET Nat, K # {}
    PROVE  \E m \in K : \A x \in K : m <= x
<1>1. PICK m \in K : \A y \in K : ~ (<< y, m >> \in OpToRel(<, Nat))
      BY NatLessThanWellFounded, WFMin
<1>2. \A x \in K : ~ (x < m)
      BY <1>1 DEF OpToRel
<1>. QED BY <1>2

LEMMA HasGreatest ==
    ASSUME NEW K \in SUBSET Nat, K # {}, NEW b \in Nat, \A x \in K : x <= b
    PROVE  \E m \in K : \A x \in K : x <= m
<1>. DEFINE Gaps == {b - x : x \in K}
<1>a. \A x \in K : b - x \in Nat
      OBVIOUS
<1>1. Gaps \in SUBSET Nat /\ Gaps # {}
      BY <1>a
<1>2. PICK g \in Gaps : \A y \in Gaps : g <= y
      BY <1>1, HasLeast
<1>3. PICK m \in K : g = b - m
      BY <1>2
<1>4. \A x \in K : b - m <= b - x
      BY <1>2, <1>3
<1>. QED BY <1>4

(***************************************************************************)
(* The type invariant, with what it needs to know of the worker's chunk.   *)
(***************************************************************************)

ChunkTyped ==
    /\ chunk.pc \in {"shown", "mark"} => chunk.bank \in Bank
    /\ chunk.pc = "mark" => DOMAIN chunk.pairs \in SUBSET Nat

Typed == SupersessionTypeOK /\ ChunkTyped

LEMMA NextIdIsNew ==
    ASSUME SupersessionTypeOK
    PROVE  NextId \in Nat \ {0}
<1>. DEFINE Used == {0} \cup DOMAIN nodes
<1>1. Used \in SUBSET Nat /\ Used # {} /\ MaxNode \in Nat /\ \A x \in Used : x <= MaxNode
      BY SupersessionAssumption DEF SupersessionTypeOK, Ids
<1>2. \E m \in Used : \A j \in Used : j <= m
      BY <1>1, HasGreatest
<1>3. \E m \in Used : \A j \in DOMAIN nodes : j <= m
      BY <1>2
<1>4. (CHOOSE m \in Used : \A j \in DOMAIN nodes : j <= m) \in Used
      BY <1>3
<1>. DEFINE top == CHOOSE m \in Used : \A j \in DOMAIN nodes : j <= m
<1>5. top \in Nat
      BY <1>1, <1>4
<1>6. NextId = 1 + top
      BY DEF NextId
<1>. QED BY <1>5, <1>6

\* What a marked row is: untouched, or pointed at a row it may be retracted by.
LEMMA MarkedRows ==
    ASSUME NEW pairs, DOMAIN pairs \in SUBSET Nat, NEW bank
    PROVE  /\ DOMAIN Marked(pairs, bank) = DOMAIN nodes
           /\ \A i \in DOMAIN nodes :
                 \/ Marked(pairs, bank)[i] = nodes[i]
                 \/ \E j \in DOMAIN nodes :
                       /\ MayRetract(i, j)
                       /\ Marked(pairs, bank)[i] = [nodes[i] EXCEPT !.by = j]
<1>1. DOMAIN Marked(pairs, bank) = DOMAIN nodes
      BY DEF Marked
<1>2. ASSUME NEW i \in DOMAIN nodes, Claims(pairs, bank, i) # {}
      PROVE  \E j \in DOMAIN nodes :
                /\ MayRetract(i, j)
                /\ Marked(pairs, bank)[i] = [nodes[i] EXCEPT !.by = j]
  <2>. DEFINE K == Claims(pairs, bank, i)
              k == First(K)
  <2>1. K \in SUBSET Nat
        BY DEF Claims
  <2>2. \E m \in K : \A x \in K : m <= x
        BY <1>2, <2>1, HasLeast
  <2>3. k \in K
        BY <2>2 DEF First
  <2>4. MayRetract(i, pairs[k][2])
        BY <2>3 DEF Claims
  <2>5. pairs[k][2] \in DOMAIN nodes
        BY <2>4 DEF MayRetract
  <2>6. Marked(pairs, bank)[i] = [nodes[i] EXCEPT !.by = pairs[k][2]]
        BY <1>2 DEF Marked
  <2>. QED BY <2>4, <2>5, <2>6
<1>3. ASSUME NEW i \in DOMAIN nodes, Claims(pairs, bank, i) = {}
      PROVE  Marked(pairs, bank)[i] = nodes[i]
      BY <1>3 DEF Marked
<1>. QED BY <1>1, <1>2, <1>3

(***************************************************************************)
(* Every retraction goes forward.                                          *)
(***************************************************************************)

Forward ==
    \A i \in DOMAIN nodes :
        nodes[i].by # 0 =>
            /\ nodes[i].by \in DOMAIN nodes
            /\ nodes[nodes[i].by].bank = nodes[i].bank
            /\ Before(i, nodes[i].by)

Sound == Typed /\ Forward

\* A step of the table that keeps the rows and marks some of them.
LEMMA MarkedIsSound ==
    ASSUME Sound, NEW pairs, DOMAIN pairs \in SUBSET Nat, NEW bank,
           nodes' = Marked(pairs, bank)
    PROVE  SupersessionTypeOK' /\ Forward'
<1>1. /\ DOMAIN nodes' = DOMAIN nodes
      /\ \A i \in DOMAIN nodes :
            \/ nodes'[i] = nodes[i]
            \/ \E j \in DOMAIN nodes : /\ MayRetract(i, j)
                                       /\ nodes'[i] = [nodes[i] EXCEPT !.by = j]
      BY MarkedRows
<1>2. \A i \in DOMAIN nodes : nodes[i] \in Row /\ i \in Ids
      BY DEF Sound, Typed, SupersessionTypeOK
<1>3. \A i \in DOMAIN nodes : /\ nodes'[i] \in Row
                              /\ nodes'[i].bank = nodes[i].bank
                              /\ nodes'[i].stamp = nodes[i].stamp
      BY <1>1, <1>2, SupersessionAssumption DEF Row, Ids
<1>4. SupersessionTypeOK'
      BY <1>1, <1>2, <1>3 DEF SupersessionTypeOK
<1>5. ASSUME NEW i \in DOMAIN nodes, nodes'[i].by # 0
      PROVE  /\ nodes'[i].by \in DOMAIN nodes
             /\ nodes[nodes'[i].by].bank = nodes[i].bank
             /\ Before(i, nodes'[i].by)
  <2>1. CASE nodes'[i] = nodes[i]
        BY <1>5, <2>1 DEF Sound, Forward
  <2>2. CASE \E j \in DOMAIN nodes : /\ MayRetract(i, j)
                                     /\ nodes'[i] = [nodes[i] EXCEPT !.by = j]
    <3>1. PICK j \in DOMAIN nodes : MayRetract(i, j) /\ nodes'[i] = [nodes[i] EXCEPT !.by = j]
          BY <2>2
    <3>2. nodes'[i].by = j
          BY <1>2, <3>1 DEF Row
    <3>. QED BY <3>1, <3>2 DEF MayRetract
  <2>. QED BY <1>1, <2>1, <2>2
<1>6. Forward'
      BY <1>1, <1>3, <1>5 DEF Forward, Before
<1>. QED BY <1>4, <1>6

LEMMA SoundStep == Sound /\ [SupersessionNext]_supersessionVars => Sound'
<1>. SUFFICES ASSUME Sound, [SupersessionNext]_supersessionVars
              PROVE  Sound'
     OBVIOUS
<1>. USE SupersessionAssumption
<1>r. \A i \in DOMAIN nodes : nodes[i] \in Row /\ i \in Ids
      BY DEF Sound, Typed, SupersessionTypeOK
<1>1. CASE Show
      BY <1>1 DEF Show, Sound, Typed, SupersessionTypeOK, ChunkTyped, Forward, Before, NoChunk
<1>2. CASE Insert
  <2>1. PICK n \in 1 .. MaxBatch, stamp \in 0 .. MaxStamp :
           /\ NextId + n - 1 <= MaxNode
           /\ nodes' = Inserted(chunk.bank, n, stamp)
           /\ \E len \in 0 .. MaxPairs :
              \E pairs \in [1 .. len -> chunk.known \X (NextId .. NextId + n - 1)] :
                 chunk' = [pc |-> "mark", bank |-> chunk.bank, pairs |-> pairs]
        BY <1>2 DEF Insert
  <2>2. NextId \in Nat \ {0}
        BY NextIdIsNew DEF Sound, Typed
  <2>3. chunk.bank \in Bank
        BY <1>2 DEF Insert, Sound, Typed, ChunkTyped
  <2>4. /\ DOMAIN nodes' = DOMAIN nodes \cup NextId .. NextId + n - 1
        /\ \A i \in DOMAIN nodes : nodes'[i] = nodes[i]
        /\ \A i \in DOMAIN nodes' \ DOMAIN nodes :
              nodes'[i] = [bank |-> chunk.bank, stamp |-> stamp, by |-> 0]
        BY <2>1 DEF Inserted
  <2>5. DOMAIN nodes' \subseteq Ids
        BY <1>r, <2>1, <2>2, <2>4 DEF Ids
  <2>6. \A i \in DOMAIN nodes' : nodes'[i] \in Row
        BY <1>r, <2>3, <2>4 DEF Row
  <2>7. Forward'
        BY <2>4 DEF Sound, Forward, Before
  <2>8. ChunkTyped'
    <3>1. PICK len \in 0 .. MaxPairs :
             \E pairs \in [1 .. len -> chunk.known \X (NextId .. NextId + n - 1)] :
                 chunk' = [pc |-> "mark", bank |-> chunk.bank, pairs |-> pairs]
          BY <2>1
    <3>. QED BY <2>3, <3>1 DEF ChunkTyped
  <2>. QED BY <2>5, <2>6, <2>7, <2>8 DEF Sound, Typed, SupersessionTypeOK
<1>3. CASE MarkChunk
  <2>1. ChunkTyped'
        BY <1>3 DEF MarkChunk, ChunkTyped, NoChunk
  <2>2. CASE nodes' = Marked(chunk.pairs, chunk.bank)
    <3>1. DOMAIN chunk.pairs \in SUBSET Nat
          BY <1>3 DEF MarkChunk, Sound, Typed, ChunkTyped
    <3>. QED BY <2>1, <2>2, <3>1, MarkedIsSound DEF Sound, Typed
  <2>3. CASE UNCHANGED nodes
        BY <2>1, <2>3 DEF Sound, Typed, SupersessionTypeOK, Forward, Before
  <2>. QED BY <1>3, <2>2, <2>3 DEF MarkChunk
<1>4. CASE SupersedeNode
  <2>1. PICK bank \in Bank, i \in Ids, j \in Ids : nodes' = Marked(<< << i, j >> >>, bank)
        BY <1>4 DEF SupersedeNode
  <2>2. DOMAIN << << i, j >> >> \in SUBSET Nat
        OBVIOUS
  <2>3. SupersessionTypeOK' /\ Forward'
        BY <2>1, <2>2, MarkedIsSound
  <2>. QED BY <1>4, <2>3 DEF SupersedeNode, Sound, Typed, ChunkTyped
<1>5. CASE UnsupersedeNode
  <2>1. PICK i \in DOMAIN nodes : nodes' = [nodes EXCEPT ![i].by = 0]
        BY <1>5 DEF UnsupersedeNode
  <2>2. /\ DOMAIN nodes' = DOMAIN nodes
        /\ \A k \in DOMAIN nodes : /\ nodes'[k] \in Row
                                   /\ nodes'[k].bank = nodes[k].bank
                                   /\ nodes'[k].stamp = nodes[k].stamp
                                   /\ nodes'[k].by \in {0, nodes[k].by}
        BY <1>r, <2>1 DEF Row
  <2>3. SupersessionTypeOK'
        BY <1>r, <2>2 DEF SupersessionTypeOK
  <2>4. Forward'
        BY <2>2 DEF Sound, Forward, Before
  <2>. QED BY <1>5, <2>3, <2>4 DEF UnsupersedeNode, Sound, Typed, ChunkTyped
<1>6. CASE DeleteNode
  <2>1. PICK d \in DOMAIN nodes :
           nodes' = [i \in DOMAIN nodes \ {d} |->
                       IF nodes[i].by = d THEN [nodes[i] EXCEPT !.by = 0] ELSE nodes[i]]
        BY <1>6 DEF DeleteNode
  <2>2. /\ DOMAIN nodes' = DOMAIN nodes \ {d}
        /\ \A k \in DOMAIN nodes' : /\ nodes'[k] \in Row
                                    /\ nodes'[k].bank = nodes[k].bank
                                    /\ nodes'[k].stamp = nodes[k].stamp
                                    /\ nodes'[k].by = IF nodes[k].by = d THEN 0 ELSE nodes[k].by
        BY <1>r, <2>1 DEF Row
  <2>3. SupersessionTypeOK'
        BY <1>r, <2>2 DEF SupersessionTypeOK
  <2>4. Forward'
        BY <2>2 DEF Sound, Forward, Before
  <2>. QED BY <1>6, <2>3, <2>4 DEF DeleteNode, Sound, Typed, ChunkTyped
<1>7. CASE UNCHANGED supersessionVars
      BY <1>7 DEF supersessionVars, Sound, Typed, SupersessionTypeOK, ChunkTyped, Forward, Before
<1>. QED BY <1>1, <1>2, <1>3, <1>4, <1>5, <1>6, <1>7 DEF SupersessionNext

\* The inductive invariant: the table is typed and every retraction goes
\* forward, whichever chunks and requests write it.
THEOREM RetractionsGoForward == SupersessionSpec => []Sound
<1>1. SupersessionInit => Sound
      BY DEF SupersessionInit, Sound, Typed, SupersessionTypeOK, ChunkTyped, Forward, NoChunk
<1>. QED BY <1>1, SoundStep, PTL DEF SupersessionSpec

\* Every row of the table is well typed (mark_superseded, insert_batch).
THEOREM RetractionsAreTyped == SupersessionSpec => []SupersessionTypeOK
<1>1. Sound => SupersessionTypeOK
      BY DEF Sound, Typed
<1>. QED BY <1>1, RetractionsGoForward, PTL

\* Of the nodes of a set the one that is last by (created_at, rowid) is not
\* replaced from within: the WHERE clause of mark_superseded keeps retractions
\* free of cycles.
THEOREM RetractionsAreAcyclic == SupersessionSpec => []NoRetractionCycle
<1>1. ASSUME Sound, NEW S \in SUBSET DOMAIN nodes, S # {}
      PROVE  \E i \in S : nodes[i].by \notin S
  <2>. USE SupersessionAssumption
  <2>r. \A i \in S : nodes[i].stamp \in 0 .. MaxStamp /\ i \in 1 .. MaxNode
        BY <1>1 DEF Sound, Typed, SupersessionTypeOK, Row, Ids
  <2>. DEFINE Stamps == {nodes[i].stamp : i \in S}
  <2>1. Stamps \in SUBSET Nat /\ Stamps # {} /\ \A x \in Stamps : x <= MaxStamp
        BY <1>1, <2>r
  <2>2. PICK t \in Stamps : \A x \in Stamps : x <= t
        BY <2>1, HasGreatest
  <2>. DEFINE Latest == {i \in S : nodes[i].stamp = t}
  <2>3. Latest \in SUBSET Nat /\ Latest # {} /\ \A i \in Latest : i <= MaxNode
        BY <2>r, <2>2
  <2>4. PICK l \in Latest : \A i \in Latest : i <= l
        BY <2>3, HasGreatest
  <2>5. ASSUME nodes[l].by \in S PROVE FALSE
    <3>1. nodes[l].by # 0
          BY <2>r, <2>5
    <3>2. Before(l, nodes[l].by)
          BY <1>1, <2>4, <3>1 DEF Sound, Forward
    <3>3. nodes[nodes[l].by].stamp <= nodes[l].stamp
          BY <2>2, <2>4, <2>5
    <3>4. nodes[nodes[l].by].stamp = nodes[l].stamp => nodes[l].by <= l
          BY <2>4, <2>5
    <3>. QED BY <2>r, <2>4, <2>5, <3>2, <3>3, <3>4 DEF Before
  <2>. QED BY <2>4, <2>5
<1>2. Sound => NoRetractionCycle
      BY <1>1 DEF NoRetractionCycle
<1>. QED BY <1>2, RetractionsGoForward, PTL

\* A retraction points at a row that is there and of the same bank, although
\* rows are deleted and their rowids given again.
THEOREM ReplacementsExist == SupersessionSpec => []ReplacementsAreThere
<1>1. Sound => ReplacementsAreThere
      BY DEF Sound, Forward, ReplacementsAreThere
<1>. QED BY <1>1, RetractionsGoForward, PTL

----------------------------------------------------------------------------
(***************************************************************************)
(* Vectors.                                                                *)
(*                                                                         *)
(* What a writer holds is the text of its row, unless the row was raced;   *)
(* so a vector that arrives is either right or accounted for.              *)
(***************************************************************************)

Texts ==
    /\ texts \in Nat
    /\ DOMAIN rows \in SUBSET (1 .. MaxRow)
    /\ \A i \in DOMAIN rows : \E t, v \in Nat : rows[i] = [text |-> t, vec |-> v]

IsOfItsRow(held) ==
    \A i \in DOMAIN held :
        /\ held[i] \in Nat
        /\ i \in raced \/ (i \in DOMAIN rows /\ rows[i].text = held[i])

Fresh == IsOfItsRow(backlog) /\ IsOfItsRow(sync)
VectorsSound == Texts /\ Fresh /\ VectorsAreAccountedFor

LEMMA NextRowIsNew ==
    ASSUME Texts
    PROVE  NextRow \in Nat \ {0} /\ NextRow \notin DOMAIN rows
<1>. DEFINE Used == {0} \cup DOMAIN rows
<1>1. Used \in SUBSET Nat /\ Used # {} /\ MaxRow \in Nat /\ \A x \in Used : x <= MaxRow
      BY NodeVectorsAssumption DEF Texts
<1>2. \E m \in Used : \A x \in Used : m >= x
      BY <1>1, HasGreatest
<1>3. Max(Used) \in Used /\ \A x \in Used : Max(Used) >= x
      BY <1>2 DEF Max
<1>4. Max(Used) \in Nat /\ \A x \in DOMAIN rows : x \in Nat /\ x <= Max(Used)
      BY <1>1, <1>3
<1>. HIDE DEF Used
<1>5. NextRow = 1 + Max(Used)
      BY DEF NextRow, Used
<1>. QED BY <1>4, <1>5

LEMMA InsertFactIsSound ==
    ASSUME VectorsSound, InsertFact  PROVE VectorsSound'
<1>. DEFINE n == NextRow
<1>1. n \in 1 .. MaxRow /\ n \notin DOMAIN rows
      BY NextRowIsNew, NodeVectorsAssumption DEF InsertFact, VectorsSound
<1>. HIDE DEF n
<1>2. /\ DOMAIN rows' = DOMAIN rows \cup {n}
      /\ rows'[n] = [text |-> texts + 1, vec |-> 0]
      /\ \A i \in DOMAIN rows : rows'[i] = rows[i]
      /\ texts' = texts + 1
      /\ UNCHANGED << index, backlog, sync, raced >>
      BY <1>1 DEF InsertFact, Over, n
<1>3. Texts'
      BY <1>1, <1>2 DEF VectorsSound, Texts
<1>4. Fresh'
      BY <1>1, <1>2 DEF VectorsSound, Fresh, IsOfItsRow
<1>5. VectorsAreAccountedFor'
      BY <1>1, <1>2 DEF VectorsSound, VectorsAreAccountedFor
<1>. QED BY <1>3, <1>4, <1>5 DEF VectorsSound

LEMMA InsertObservationIsSound ==
    ASSUME VectorsSound, InsertObservation  PROVE VectorsSound'
<1>. DEFINE n == NextRow
<1>1. n \in 1 .. MaxRow /\ n \notin DOMAIN rows
      BY NextRowIsNew, NodeVectorsAssumption DEF InsertObservation, VectorsSound
<1>. HIDE DEF n
<1>2. /\ DOMAIN rows' = DOMAIN rows \cup {n}
      /\ rows'[n] = [text |-> texts + 1, vec |-> texts + 1]
      /\ \A i \in DOMAIN rows : rows'[i] = rows[i]
      /\ DOMAIN index' = DOMAIN index \cup {n}
      /\ index'[n] = texts + 1
      /\ \A i \in DOMAIN index \ {n} : index'[i] = index[i]
      /\ texts' = texts + 1
      /\ UNCHANGED << backlog, sync, raced >>
      BY <1>1 DEF InsertObservation, Over, n
<1>a. \E t, v \in Nat : rows'[n] = [text |-> t, vec |-> v]
  <2>1. texts + 1 \in Nat
        BY DEF VectorsSound, Texts
  <2>. QED BY <1>2, <2>1
<1>3. Texts'
      BY <1>1, <1>2, <1>a DEF VectorsSound, Texts
<1>4. Fresh'
      BY <1>1, <1>2 DEF VectorsSound, Fresh, IsOfItsRow
<1>5. VectorsAreAccountedFor'
      BY <1>1, <1>2 DEF VectorsSound, VectorsAreAccountedFor
<1>. QED BY <1>3, <1>4, <1>5 DEF VectorsSound

LEMMA UpdateTextIsSound ==
    ASSUME VectorsSound, UpdateText  PROVE VectorsSound'
<1>1. PICK i \in DOMAIN rows :
          /\ rows' = Rewritten(i, texts')
          /\ Raced(i)
          /\ \/ sync' = sync
             \/ sync = Empty /\ sync' = [j \in {i} |-> texts']
      BY DEF UpdateText
<1>2. /\ texts' = texts + 1 /\ UNCHANGED << index, backlog >>
      /\ DOMAIN rows' = DOMAIN rows
      /\ rows'[i] = [text |-> texts + 1, vec |-> 0]
      /\ \A j \in DOMAIN rows : j # i => rows'[j] = rows[j]
      BY <1>1 DEF UpdateText, Rewritten
<1>3. raced \subseteq raced' /\ (i \in DOMAIN backlog \cup DOMAIN sync => i \in raced')
      BY <1>1 DEF Raced, InFlight
<1>4. Texts'
      BY <1>2 DEF VectorsSound, Texts
<1>5. IsOfItsRow(backlog)'
      BY <1>2, <1>3 DEF VectorsSound, Fresh, IsOfItsRow
<1>6. IsOfItsRow(sync)'
  <2>1. CASE sync' = sync
        BY <2>1, <1>2, <1>3 DEF VectorsSound, Fresh, IsOfItsRow
  <2>2. CASE sync' = [j \in {i} |-> texts']
        BY <2>2, <1>2 DEF VectorsSound, Texts, IsOfItsRow
  <2>. QED BY <1>1, <2>1, <2>2
<1>7. VectorsAreAccountedFor'
      BY <1>2, <1>3 DEF VectorsSound, VectorsAreAccountedFor
<1>. QED BY <1>4, <1>5, <1>6, <1>7 DEF VectorsSound, Fresh

LEMMA DeleteRowIsSound ==
    ASSUME VectorsSound, DeleteRow  PROVE VectorsSound'
<1>1. PICK i \in DOMAIN rows :
          /\ rows' = [j \in DOMAIN rows \ {i} |-> rows[j]]
          /\ index' = [j \in DOMAIN index \ {i} |-> index[j]]
          /\ Raced(i)
      BY DEF DeleteRow
<1>2. UNCHANGED << texts, backlog, sync >>
      BY DEF DeleteRow
<1>3. raced \subseteq raced' /\ (i \in DOMAIN backlog \cup DOMAIN sync => i \in raced')
      BY <1>1 DEF Raced, InFlight
<1>4. Texts'
      BY <1>1, <1>2 DEF VectorsSound, Texts
<1>5. Fresh'
      BY <1>1, <1>2, <1>3 DEF VectorsSound, Fresh, IsOfItsRow
<1>6. VectorsAreAccountedFor'
      BY <1>1, <1>3 DEF VectorsSound, VectorsAreAccountedFor
<1>. QED BY <1>4, <1>5, <1>6 DEF VectorsSound

\* A batch of vectors of texts that are their rows' or were raced.
LEMMA WriteIsSound ==
    ASSUME VectorsSound, NEW held, IsOfItsRow(held),
           SetEmbeddings(held), UNCHANGED << texts, raced >>
    PROVE  /\ Texts' /\ VectorsAreAccountedFor'
           /\ DOMAIN rows' = DOMAIN rows
           /\ \A i \in DOMAIN rows : rows'[i].text = rows[i].text
<1>1. /\ DOMAIN rows' = DOMAIN rows
      /\ \A i \in DOMAIN rows :
            rows'[i] = IF i \in DOMAIN held THEN [rows[i] EXCEPT !.vec = held[i]] ELSE rows[i]
      /\ DOMAIN index' = DOMAIN index \cup DOMAIN held
      /\ \A i \in DOMAIN index' :
            index'[i] = IF i \in DOMAIN held THEN held[i] ELSE index[i]
      BY DEF SetEmbeddings, Over
<1>2. \A i \in DOMAIN rows :
          /\ rows'[i].text = rows[i].text
          /\ rows'[i].vec = IF i \in DOMAIN held THEN held[i] ELSE rows[i].vec
          /\ \E t, v \in Nat : rows'[i] = [text |-> t, vec |-> v]
      BY <1>1 DEF VectorsSound, Texts, IsOfItsRow
<1>3. Texts'
      BY <1>1, <1>2 DEF VectorsSound, Texts
<1>4. VectorsAreAccountedFor'
  <2>1. ASSUME NEW i \in DOMAIN rows, rows'[i].vec # 0
        PROVE  /\ i \in DOMAIN index' /\ index'[i] = rows'[i].vec
               /\ rows'[i].vec = rows'[i].text \/ i \in raced
        BY <1>1, <1>2, <2>1 DEF VectorsSound, VectorsAreAccountedFor, IsOfItsRow
  <2>2. \A i \in DOMAIN index' \ DOMAIN rows : i \in raced
        BY <1>1 DEF VectorsSound, VectorsAreAccountedFor, IsOfItsRow
  <2>. QED BY <1>1, <2>1, <2>2 DEF VectorsAreAccountedFor
<1>. QED BY <1>1, <1>2, <1>3, <1>4

LEMMA VectorStep ==
    ASSUME VectorsSound, [VectorNext]_vectorVars
    PROVE  VectorsSound'
<1>1. CASE InsertFact
      BY <1>1, InsertFactIsSound
<1>2. CASE InsertObservation
      BY <1>2, InsertObservationIsSound
<1>3. CASE UpdateText
      BY <1>3, UpdateTextIsSound
<1>4. CASE DeleteRow
      BY <1>4, DeleteRowIsSound
<1>5. CASE SyncWrite
  <2>1. /\ sync' = Empty /\ UNCHANGED << texts, backlog, raced >>
        /\ SetEmbeddings(sync) \/ UNCHANGED << rows, index >>
        BY <1>5 DEF SyncWrite
  <2>2. IsOfItsRow(sync) /\ IsOfItsRow(backlog)
        BY DEF VectorsSound, Fresh
  <2>3. /\ Texts' /\ VectorsAreAccountedFor'
        /\ DOMAIN rows' = DOMAIN rows
        /\ \A i \in DOMAIN rows : rows'[i].text = rows[i].text
    <3>1. CASE SetEmbeddings(sync)
          BY <2>1, <2>2, <3>1, WriteIsSound
    <3>2. CASE UNCHANGED << rows, index >>
          BY <2>1, <3>2 DEF VectorsSound, Texts, VectorsAreAccountedFor
    <3>. QED BY <2>1, <3>1, <3>2
  <2>. QED BY <2>1, <2>2, <2>3 DEF VectorsSound, Fresh, IsOfItsRow, Empty
<1>6. CASE BacklogRead
  <2>1. PICK B \in SUBSET DOMAIN rows : backlog' = [i \in B |-> rows[i].text]
        BY <1>6 DEF BacklogRead, Pending
  <2>2. UNCHANGED << rows, index, texts, sync, raced >>
        BY <1>6 DEF BacklogRead
  <2>. QED BY <2>1, <2>2 DEF VectorsSound, Fresh, IsOfItsRow, Texts, VectorsAreAccountedFor
<1>7. CASE BacklogWrite
  <2>1. /\ backlog' = Empty /\ UNCHANGED << texts, sync, raced >>
        /\ SetEmbeddings(backlog)
        BY <1>7 DEF BacklogWrite
  <2>2. IsOfItsRow(sync) /\ IsOfItsRow(backlog)
        BY DEF VectorsSound, Fresh
  <2>3. /\ Texts' /\ VectorsAreAccountedFor'
        /\ DOMAIN rows' = DOMAIN rows
        /\ \A i \in DOMAIN rows : rows'[i].text = rows[i].text
        BY <2>1, <2>2, WriteIsSound
  <2>. QED BY <2>1, <2>2, <2>3 DEF VectorsSound, Fresh, IsOfItsRow, Empty
<1>8. CASE BacklogLost
  <2>1. backlog' = Empty /\ UNCHANGED << rows, index, texts, sync, raced >>
        BY <1>8 DEF BacklogLost
  <2>. QED BY <2>1 DEF VectorsSound, Fresh, IsOfItsRow, Texts, VectorsAreAccountedFor, Empty
<1>9. CASE UNCHANGED vectorVars
      BY <1>9 DEF vectorVars, VectorsSound, Fresh, IsOfItsRow, Texts, VectorsAreAccountedFor
<1>. QED BY <1>1, <1>2, <1>3, <1>4, <1>5, <1>6, <1>7, <1>8, <1>9 DEF VectorNext

\* Every vector is in the index and of its row's text, and the index has no
\* rows but those of the table, whatever the writers, the backlog and the
\* rounds do and however many rows a batch has; but for rowids that were
\* rewritten or deleted with a write under way.
THEOREM VectorsAreSound == VectorSpec => []VectorsAreAccountedFor
<1>1. VectorInit => VectorsSound
      BY DEF VectorInit, VectorsSound, Fresh, IsOfItsRow, Texts, VectorsAreAccountedFor, Empty
<1>2. VectorsSound /\ [VectorNext]_vectorVars => VectorsSound'
      BY VectorStep
<1>3. VectorsSound => VectorsAreAccountedFor
      BY DEF VectorsSound
<1>. QED BY <1>1, <1>2, <1>3, PTL DEF VectorSpec

----------------------------------------------------------------------------
(***************************************************************************)
(* Mental models.                                                          *)
(*                                                                         *)
(* A refresh under way has a claim of its own on its document, so the      *)
(* watermark it read is still the document's, what it has to summarise is  *)
(* newer than that watermark, and the one it will write is at least as     *)
(* new; but for a document that is crossed, which was read while a write   *)
(* of a client that had gone was to be made.  What a refresh, a PATCH or a *)
(* start read of a document's text is still its text, unless the document  *)
(* is overlapped.                                                          *)
(***************************************************************************)

Text == Nat \ {0}
Reading == [pc : {"recall", "skip"}, m : Nat, now : Nat, mark : Nat \cup {-1}, name : Text]
Asking == [pc : {"ask"}, m : Nat, now : Nat, name : Text, used : SUBSET Nat, mark : Nat]
Working(c) == work[c] # NoWork

Documents ==
    /\ created \in 0 .. MaxModels
    /\ DOMAIN models \subseteq 1 .. created
    /\ \A m \in DOMAIN models : models[m] \in MentalModel

Times ==
    /\ clock \in 0 .. MaxTime
    /\ committed \in Seq(Nat) /\ \A f \in DOMAIN committed : committed[f] \in 0 .. MaxTime
    /\ writing \in [Writer -> 0 .. MaxTime]

Works ==
    /\ work \in [Worker -> {NoWork} \cup Reading \cup Asking]
    /\ \A c \in Worker : Working(c) => work[c].m \in 1 .. created
    /\ \A c, d \in RefreshCaller :
          Working(c) /\ Working(d) /\ work[c].m = work[d].m => c = d
    /\ crossed \subseteq 1 .. created

\* The write that was left behind has read its facts; who has read since what
\* it will write is of a crossed document.
Left ==
    /\ work["late"].pc # "recall"
    /\ work["late"].pc = "ask" =>
          \A c \in RefreshCaller :
              Working(c) /\ work[c].m = work["late"].m => work[c].m \in crossed

\* The watermark a refresh read, and what it has to summarise.
Marks ==
    \A c \in Worker : work[c].pc \in {"recall", "ask"} /\ work[c].m \notin crossed =>
        /\ work[c].pc = "recall" /\ work[c].m \in DOMAIN models
              => work[c].mark = models[work[c].m].mark
        /\ work[c].pc = "ask"
              => /\ work[c].used \subseteq DOMAIN committed
                 /\ \A f \in work[c].used : committed[f] <= work[c].mark
                 /\ work[c].m \in DOMAIN models =>
                       /\ work[c].mark > models[work[c].m].mark
                       /\ \A f \in work[c].used : committed[f] > models[work[c].m].mark

\* What was summarised is not after its document's watermark.
FoldedBefore(m, f) ==
    /\ folded[<< m, f >>] = 1
    /\ f \in DOMAIN committed /\ m <= created
    /\ m \in DOMAIN models => committed[f] <= models[m].mark

Folds ==
    /\ DOMAIN folded = Ever \X (1 .. MaxCommits)
    /\ \A m \in Ever, f \in 1 .. MaxCommits :
          m \in crossed \/ folded[<< m, f >>] = 0 \/ FoldedBefore(m, f)

\* The text that was read of a document.
NameIs(m, name) == m \in DOMAIN models \ overlapped => models[m].name = name
TextIs(m, name, content) ==
    m \in DOMAIN models \ overlapped => models[m].name = name /\ models[m].content = content

Names ==
    \A c \in Worker :
        work[c].pc \in {"recall", "ask"} => NameIs(work[c].m, work[c].name)

Reads ==
    /\ edit # NoWork =>
          /\ edit.m \in 1 .. created /\ edit.name \in Text /\ edit.content \in Text
          /\ TextIs(edit.m, edit.name, edit.content)
    /\ "rows" \in DOMAIN stale
    /\ \A row \in stale.rows :
          /\ row.m \in 1 .. created /\ row.name \in Text /\ row.content \in Text
          /\ TextIs(row.m, row.name, row.content)

DocumentsSound ==
    /\ Documents /\ Times /\ Works /\ Left /\ Marks /\ Folds /\ Names /\ Reads
    /\ EmbeddingsAreCurrent

\* The watermark that a refresh will write is the latest of what it may
\* summarise.
LEMMA LatestOfScope ==
    ASSUME Times, NEW scope \in SUBSET DOMAIN committed, scope # {}
    PROVE  /\ Max({committed[f] : f \in scope}) \in {committed[f] : f \in scope}
           /\ \A f \in scope : committed[f] <= Max({committed[g] : g \in scope})
<1>. DEFINE Ats == {committed[f] : f \in scope}
<1>0. \A f \in scope : committed[f] \in 0 .. MaxTime
      BY DEF Times
<1>1. Ats \in SUBSET Nat /\ Ats # {} /\ MaxTime \in Nat /\ \A x \in Ats : x <= MaxTime
      BY <1>0, MentalModelsAssumption
<1>2. \E m \in Ats : \A x \in Ats : m >= x
      BY <1>1, HasGreatest
<1>3. Max(Ats) \in Ats /\ \A x \in Ats : Max(Ats) >= x
      BY <1>2 DEF Max
<1>4. \A f \in scope : committed[f] \in Ats
      OBVIOUS
<1>. HIDE DEF Ats
<1>5. Max(Ats) \in Nat /\ \A x \in Ats : x \in Nat /\ x <= Max(Ats)
      BY <1>1, <1>3
<1>6. \A f \in scope : committed[f] <= Max(Ats)
      BY <1>4, <1>5
<1>. QED BY <1>3, <1>6 DEF Ats

(* The steps that leave every document's text and watermark alone. *)

LEMMA BeginIsSound ==
    ASSUME DocumentsSound, NEW c \in RefreshCaller, BeginPass(c) \/ PostRefresh
    PROVE  DocumentsSound'
<1>1. UNCHANGED << clock, committed, writing, models, created, work, edit, stale, folded,
                   overlapped, crossed >>
      BY DEF BeginPass, PostRefresh
<1>. QED BY <1>1 DEF DocumentsSound, Documents, Times, Works, Left, Working, Marks, Folds, FoldedBefore,
               Names, Reads, NameIs, TextIs, EmbeddingsAreCurrent

LEMMA LoadIsSound ==
    ASSUME DocumentsSound, NEW c \in RefreshCaller, Load(c)
    PROVE  DocumentsSound'
<1>1. UNCHANGED << clock, committed, writing, models, created, edit, stale, folded,
                   overlapped >>
      BY DEF Load
<1>2. Documents' /\ Times' /\ EmbeddingsAreCurrent'
      BY <1>1 DEF DocumentsSound, Documents, Times, EmbeddingsAreCurrent
<1>3. CASE UNCHANGED << work, crossed >>
      BY <1>1, <1>2, <1>3 DEF DocumentsSound, Works, Left, Working, Marks, Folds, FoldedBefore, Names,
            Reads, NameIs, TextIs
<1>4. CASE ~ UNCHANGED << work, crossed >>
  <2>1. PICK m \in DOMAIN models :
            /\ ~RefreshClaimed(m)
            /\ work' = [work EXCEPT ![c] = [pc |-> "recall", m |-> m, now |-> clock,
                                            mark |-> models[m].mark, name |-> models[m].name]]
            /\ crossed' = crossed \cup IF work["late"].pc = "ask" /\ work["late"].m = m
                                      THEN {m} ELSE {}
        BY <1>4 DEF Load
  <2>2. /\ m \in 1 .. created /\ models[m] \in MentalModel /\ clock \in Nat
        BY DEF DocumentsSound, Documents, Times
  <2>3. work'[c] \in Reading /\ work'[c].m = m /\ work'[c].mark = models[m].mark
           /\ work'[c].name = models[m].name /\ work'[c].pc = "recall"
        BY <2>1, <2>2 DEF Reading, MentalModel, Text, DocumentsSound, Works, Worker
  <2>4. \A d \in Worker \ {c} : work'[d] = work[d]
        BY <2>1 DEF DocumentsSound, Works
  <2>5. \A d \in RefreshCaller \ {c} : Working(d) => work[d].m # m
        BY <2>1 DEF RefreshClaimed, Working
  <2>6. crossed \subseteq crossed' /\ crossed' \subseteq 1 .. created
        BY <2>1, <2>2 DEF DocumentsSound, Works
  <2>7. Works'
    <3>1. work' \in [Worker -> {NoWork} \cup Reading \cup Asking]
          BY <2>1, <2>3, <2>4 DEF DocumentsSound, Works
    <3>2. \A d \in Worker : Working(d)' => work'[d].m \in 1 .. created
          BY <2>2, <2>3, <2>4 DEF DocumentsSound, Works, Working
    <3>3. \A d, e \in RefreshCaller :
              Working(d)' /\ Working(e)' /\ work'[d].m = work'[e].m => d = e
          BY <2>3, <2>4, <2>5 DEF DocumentsSound, Works, Working, Worker
    <3>. QED BY <1>1, <2>6, <3>1, <3>2, <3>3 DEF Works
  <2>8. Left'
    <3>1. work'["late"] = work["late"]
          BY <2>4 DEF Worker, RefreshCaller
    <3>2. work["late"].pc = "ask" /\ work["late"].m = m => m \in crossed'
          BY <2>1
    <3>. QED BY <2>3, <2>4, <2>6, <3>1, <3>2 DEF DocumentsSound, Left, Working, Worker
  <2>9. Marks'
        BY <1>1, <2>3, <2>4, <2>6 DEF DocumentsSound, Marks
  <2>10. Folds'
        BY <1>1, <2>6 DEF DocumentsSound, Folds, FoldedBefore
  <2>11. Names'
        BY <1>1, <2>3, <2>4 DEF DocumentsSound, Names, NameIs
  <2>12. Reads'
        BY <1>1 DEF DocumentsSound, Reads, TextIs
  <2>. QED BY <1>2, <2>7, <2>8, <2>9, <2>10, <2>11, <2>12 DEF DocumentsSound
<1>. QED BY <1>3, <1>4


\* The work of one caller changes, to one on the same document.
LEMMA WorkChanges ==
    ASSUME Works, Left, NEW c \in RefreshCaller, NEW w,
           w \in Reading \cup Asking, w.m = work[c].m, Working(c),
           work' = [work EXCEPT ![c] = w], UNCHANGED << created, crossed >>
    PROVE  /\ Works' /\ Left' /\ work'[c] = w
           /\ \A d \in Worker \ {c} : work'[d] = work[d]
<1>1. work'[c] = w /\ \A d \in Worker \ {c} : work'[d] = work[d]
      BY DEF Works, Worker
<1>2. work' \in [Worker -> {NoWork} \cup Reading \cup Asking]
      BY DEF Works
<1>3. c \in Worker /\ work'["late"] = work["late"]
      BY <1>1 DEF Worker, RefreshCaller
<1>4. Works'
      BY <1>1, <1>2, <1>3 DEF Works, Working, Worker
<1>5. Left'
      BY <1>1, <1>3 DEF Left, Working, Worker
<1>. QED BY <1>1, <1>4, <1>5

\* The work of one caller ends.
LEMMA WorkEnds ==
    ASSUME Works, Left, NEW c \in Worker, Done(c), UNCHANGED << created, crossed >>
    PROVE  /\ Works' /\ Left' /\ work'[c] = NoWork
           /\ \A d \in Worker \ {c} : work'[d] = work[d]
<1>1. work'[c] = NoWork /\ \A d \in Worker \ {c} : work'[d] = work[d]
      BY DEF Works, Done
<1>2. work' \in [Worker -> {NoWork} \cup Reading \cup Asking]
      BY DEF Works, Done
<1>3. Works'
      BY <1>1, <1>2 DEF Works, Working, Worker
<1>4. Left'
      BY <1>1 DEF Left, Working, Worker, NoWork
<1>. QED BY <1>1, <1>3, <1>4

LEMMA RecallIsSound ==
    ASSUME DocumentsSound, NEW c \in RefreshCaller, Recall(c)
    PROVE  DocumentsSound'
<1>1. UNCHANGED << clock, committed, writing, models, created, edit, stale, folded,
                   overlapped, crossed >>
      BY DEF Recall
<1>2. Documents' /\ Times' /\ Folds' /\ EmbeddingsAreCurrent'
      BY <1>1 DEF DocumentsSound, Documents, Times, Folds, FoldedBefore, EmbeddingsAreCurrent
<1>3. work[c].pc = "recall"
      BY DEF Recall
<1>7. Reads'
      BY <1>1 DEF DocumentsSound, Reads, TextIs
<1>4. work[c] \in Reading /\ Working(c) /\ c \in Worker
      BY <1>3 DEF DocumentsSound, Works, Working, NoWork, Asking, Worker
<1>5. CASE work' = [work EXCEPT ![c].pc = "skip"]
  <2>. DEFINE w == [work[c] EXCEPT !.pc = "skip"]
  <2>1. w \in Reading /\ w.m = work[c].m /\ w.pc = "skip"
        BY <1>4 DEF Reading
  <2>2. work' = [work EXCEPT ![c] = w]
        BY <1>5
  <2>. HIDE DEF w
  <2>3. Works' /\ Left' /\ work'[c] = w /\ \A d \in Worker \ {c} : work'[d] = work[d]
        BY <1>1, <1>4, <2>1, <2>2, WorkChanges DEF DocumentsSound
  <2>4. Marks'
        BY <1>1, <2>1, <2>3 DEF DocumentsSound, Marks
  <2>5. Names'
        BY <1>1, <2>1, <2>3 DEF DocumentsSound, Names, NameIs
  <2>. QED BY <1>2, <1>7, <2>3, <2>4, <2>5 DEF DocumentsSound
<1>6. CASE work' # [work EXCEPT ![c].pc = "skip"]
  <2>1. PICK found \in SUBSET DOMAIN committed :
            \E used \in (SUBSET InScope(found, work[c].mark)) \ {{}} :
                work' = [work EXCEPT ![c] =
                            [pc |-> "ask", m |-> work[c].m, now |-> work[c].now,
                             name |-> work[c].name, used |-> used,
                             mark |-> Max({committed[f] : f \in InScope(found, work[c].mark)})]]
        BY <1>6 DEF Recall
  <2>. DEFINE scope == InScope(found, work[c].mark)
              top == Max({committed[f] : f \in scope})
  <2>2. PICK used \in (SUBSET scope) \ {{}} :
                work' = [work EXCEPT ![c] =
                            [pc |-> "ask", m |-> work[c].m, now |-> work[c].now,
                             name |-> work[c].name, used |-> used, mark |-> top]]
        BY <2>1
  <2>3. scope \in SUBSET DOMAIN committed /\ scope # {}
        /\ \A f \in scope : committed[f] > work[c].mark
        BY <2>2 DEF InScope
  <2>. HIDE DEF scope
  <2>4. top \in {committed[f] : f \in scope} /\ \A f \in scope : committed[f] <= top
        BY <2>3, LatestOfScope DEF DocumentsSound
  <2>. HIDE DEF top
  <2>5. top \in Nat /\ top > work[c].mark /\ used \in SUBSET Nat
        BY <2>3, <2>4 DEF DocumentsSound, Times
  <2>. DEFINE w == [pc |-> "ask", m |-> work[c].m, now |-> work[c].now,
                    name |-> work[c].name, used |-> used, mark |-> top]
  <2>6. w \in Asking /\ w.m = work[c].m /\ w.name = work[c].name
        BY <1>4, <2>5 DEF Reading, Asking
  <2>7. w.pc = "ask" /\ w.used = used /\ w.mark = top
        OBVIOUS
  <2>8. work' = [work EXCEPT ![c] = w]
        BY <2>2
  <2>. HIDE DEF w
  <2>9. Works' /\ Left' /\ work'[c] = w /\ \A d \in Worker \ {c} : work'[d] = work[d]
        BY <1>1, <1>4, <2>6, <2>8, WorkChanges DEF DocumentsSound
  <2>10. Marks'
    <3>1. work[c].m \notin crossed /\ work[c].m \in DOMAIN models
              => work[c].mark = models[work[c].m].mark
          BY <1>3, <1>4 DEF DocumentsSound, Marks
    <3>2. /\ w.used \subseteq DOMAIN committed
          /\ \A f \in w.used : committed[f] <= w.mark /\ committed[f] > work[c].mark
          /\ w.mark > work[c].mark
          BY <2>2, <2>3, <2>4, <2>5, <2>7
    <3>3. ASSUME NEW d \in Worker, work'[d].pc \in {"recall", "ask"}, work'[d].m \notin crossed
          PROVE  /\ work'[d].pc = "recall" /\ work'[d].m \in DOMAIN models
                       => work'[d].mark = models[work'[d].m].mark
                 /\ work'[d].pc = "ask"
                       => /\ work'[d].used \subseteq DOMAIN committed
                          /\ \A f \in work'[d].used : committed[f] <= work'[d].mark
                          /\ work'[d].m \in DOMAIN models =>
                                /\ work'[d].mark > models[work'[d].m].mark
                                /\ \A f \in work'[d].used : committed[f] > models[work'[d].m].mark
      <4>1. CASE d = c
            BY <2>6, <2>7, <2>9, <3>1, <3>2, <3>3, <4>1
      <4>2. CASE d # c
            BY <2>9, <3>3, <4>2 DEF DocumentsSound, Marks
      <4>. QED BY <4>1, <4>2
    <3>. QED BY <1>1, <3>3 DEF Marks
  <2>11. Names'
        BY <1>1, <1>3, <2>6, <2>9 DEF DocumentsSound, Names, NameIs
  <2>. QED BY <1>2, <1>7, <2>9, <2>10, <2>11 DEF DocumentsSound
<1>. QED BY <1>5, <1>6

LEMMA SkipIsSound ==
    ASSUME DocumentsSound, NEW c \in Worker, Skip(c)
    PROVE  DocumentsSound'
<1>1. UNCHANGED << clock, committed, writing, created, edit, stale, folded, overlapped, crossed >>
      BY DEF Skip
<1>2. work[c].pc = "skip" /\ Done(c)
      BY DEF Skip
<1>3. work[c].now \in Nat
      BY <1>2 DEF DocumentsSound, Works, NoWork, Reading, Asking
<1>4. /\ DOMAIN models' = DOMAIN models
      /\ \A m \in DOMAIN models :
            models'[m] = models[m] \/ models'[m] = [models[m] EXCEPT !.at = work[c].now]
      BY DEF Skip, Skipped
<1>5. \A m \in DOMAIN models :
          /\ models'[m] \in MentalModel
          /\ models'[m].mark = models[m].mark
          /\ models'[m].name = models[m].name
          /\ models'[m].content = models[m].content
          /\ models'[m].vec = models[m].vec
      BY <1>3, <1>4 DEF DocumentsSound, Documents, MentalModel
<1>6. Works' /\ Left' /\ work'[c] = NoWork /\ \A d \in Worker \ {c} : work'[d] = work[d]
      BY <1>1, <1>2, WorkEnds DEF DocumentsSound
<1>7. Documents' /\ Times' /\ Folds' /\ EmbeddingsAreCurrent'
      BY <1>1, <1>4, <1>5 DEF DocumentsSound, Documents, Times, Folds, FoldedBefore,
                              EmbeddingsAreCurrent
<1>8. Marks'
      BY <1>1, <1>4, <1>5, <1>6 DEF DocumentsSound, Marks, NoWork
<1>9. Names'
      BY <1>1, <1>4, <1>5, <1>6 DEF DocumentsSound, Names, NameIs, NoWork
<1>10. Reads'
      BY <1>1, <1>4, <1>5 DEF DocumentsSound, Reads, TextIs
<1>. QED BY <1>6, <1>7, <1>8, <1>9, <1>10 DEF DocumentsSound

LEMMA AskFailsIsSound ==
    ASSUME DocumentsSound, NEW c \in Worker, AskFails(c)
    PROVE  DocumentsSound'
<1>1. UNCHANGED << clock, committed, writing, models, created, edit, stale, folded, overlapped, crossed >>
      BY DEF AskFails
<1>2. Done(c)
      BY DEF AskFails
<1>3. Works' /\ Left' /\ work'[c] = NoWork /\ \A d \in Worker \ {c} : work'[d] = work[d]
      BY <1>1, <1>2, WorkEnds DEF DocumentsSound
<1>4. Documents' /\ Times' /\ Folds' /\ EmbeddingsAreCurrent'
      BY <1>1 DEF DocumentsSound, Documents, Times, Folds, FoldedBefore, EmbeddingsAreCurrent
<1>5. Marks'
      BY <1>1, <1>3 DEF DocumentsSound, Marks, NoWork
<1>6. Names'
      BY <1>1, <1>3 DEF DocumentsSound, Names, NameIs, NoWork
<1>7. Reads'
      BY <1>1 DEF DocumentsSound, Reads, TextIs
<1>. QED BY <1>3, <1>4, <1>5, <1>6, <1>7 DEF DocumentsSound


LEMMA HangUpIsSound ==
    ASSUME DocumentsSound, HangUp
    PROVE  DocumentsSound'
<1>1. UNCHANGED << clock, committed, writing, models, created, edit, stale, folded, overlapped,
                   crossed >>
      BY DEF HangUp
<1>2. Documents' /\ Times' /\ Folds' /\ EmbeddingsAreCurrent' /\ Reads'
      BY <1>1 DEF DocumentsSound, Documents, Times, Folds, FoldedBefore, EmbeddingsAreCurrent, Reads,
            TextIs
<1>0. "post" \in RefreshCaller /\ "post" \in Worker /\ "late" \in Worker /\ "late" # "post"
      BY DEF RefreshCaller, Worker
<1>3. CASE Done("post")
  <2>1. /\ Works' /\ Left' /\ work'["post"] = NoWork
        /\ \A d \in Worker \ {"post"} : work'[d] = work[d]
        BY <1>0, <1>1, <1>3, WorkEnds DEF DocumentsSound
  <2>2. Marks'
        BY <1>1, <2>1 DEF DocumentsSound, Marks, NoWork
  <2>3. Names'
        BY <1>1, <2>1 DEF DocumentsSound, Names, NameIs, NoWork
  <2>. QED BY <1>2, <2>1, <2>2, <2>3 DEF DocumentsSound
<1>4. CASE ~Done("post")
  <2>1. /\ work["post"].pc \in {"skip", "ask"} /\ work["post"] # NoWork
        /\ work' = [work EXCEPT !["post"] = NoWork, !["late"] = work["post"]]
        BY <1>4 DEF HangUp
  <2>2. /\ work'["post"] = NoWork /\ work'["late"] = work["post"]
        /\ \A d \in Worker \ {"post", "late"} : work'[d] = work[d]
        BY <1>0, <2>1 DEF DocumentsSound, Works
  <2>3. Works'
    <3>1. work' \in [Worker -> {NoWork} \cup Reading \cup Asking]
          BY <1>0, <2>1 DEF DocumentsSound, Works
    <3>2. \A d \in Worker : Working(d)' => work'[d].m \in 1 .. created
          BY <1>0, <2>2 DEF DocumentsSound, Works, Working
    <3>3. \A d, e \in RefreshCaller :
              Working(d)' /\ Working(e)' /\ work'[d].m = work'[e].m => d = e
          BY <1>0, <2>2 DEF DocumentsSound, Works, Working, Worker, RefreshCaller
    <3>. QED BY <1>1, <3>1, <3>2, <3>3 DEF DocumentsSound, Works
  <2>4. Left'
    <3>1. \A d \in RefreshCaller \ {"post"} : Working(d) => work[d].m # work["post"].m
          BY <1>0, <2>1 DEF DocumentsSound, Works, Working
    <3>2. \A d \in RefreshCaller : Working(d)' => work'[d].m # work'["late"].m
          BY <2>2, <3>1 DEF Working, Worker, RefreshCaller
    <3>. QED BY <2>1, <2>2, <3>2 DEF Left
  <2>5. Marks'
        BY <1>0, <1>1, <2>2 DEF DocumentsSound, Marks, NoWork
  <2>6. Names'
        BY <1>0, <1>1, <2>2 DEF DocumentsSound, Names, NameIs, NoWork
  <2>. QED BY <1>2, <2>3, <2>4, <2>5, <2>6 DEF DocumentsSound
<1>. QED BY <1>3, <1>4

\* What another reads of a document is overlapped when the document is written;
\* but for the name that a refresh has read, which no refresh writes.
LEMMA ReadersAreOverlapped ==
    ASSUME NEW c, NEW m, Overlaps(c, m)
    PROVE  /\ overlapped \subseteq overlapped'
           /\ c # "patch" /\ edit # NoWork /\ edit.m = m => m \in overlapped'
           /\ c # "start" => \A row \in stale.rows : row.m = m => m \in overlapped'
           /\ c \notin Worker
                 => \A d \in Worker : Working(d) /\ work[d].m = m => m \in overlapped'
BY DEF Overlaps, Readers, Working

LEMMA WriteRefreshIsSound ==
    ASSUME DocumentsSound, NEW c \in Worker, WriteRefresh(c)
    PROVE  DocumentsSound'
<1>. DEFINE w == work[c]
<1>1. UNCHANGED << clock, committed, writing, created, edit, stale, crossed >>
      BY DEF WriteRefresh
<1>2. w.pc = "ask" /\ Done(c)
      BY DEF WriteRefresh
<1>3. w \in Asking /\ Working(c) /\ w.m \in 1 .. created
      BY <1>2 DEF DocumentsSound, Works, Working, NoWork, Reading
<1>4. Works' /\ Left' /\ work'[c] = NoWork /\ \A d \in Worker \ {c} : work'[d] = work[d]
      BY <1>1, <1>2, WorkEnds DEF DocumentsSound
<1>5. Times'
      BY <1>1 DEF DocumentsSound, Times
<1>6. CASE w.m \notin DOMAIN models
  <2>1. UNCHANGED << models, folded, overlapped >>
        BY <1>6 DEF WriteRefresh
  <2>2. Documents' /\ Folds' /\ EmbeddingsAreCurrent'
        BY <1>1, <2>1 DEF DocumentsSound, Documents, Folds, FoldedBefore, EmbeddingsAreCurrent
  <2>3. Marks'
        BY <1>1, <2>1, <1>4 DEF DocumentsSound, Marks, NoWork
  <2>4. Names'
        BY <1>1, <2>1, <1>4 DEF DocumentsSound, Names, NameIs, NoWork
  <2>5. Reads'
        BY <1>1, <2>1 DEF DocumentsSound, Reads, TextIs
  <2>. QED BY <1>4, <1>5, <2>2, <2>3, <2>4, <2>5 DEF DocumentsSound
<1>7. CASE w.m \in DOMAIN models
  <2>. DEFINE m == w.m
              content == models[m].content + 1
  <2>1. PICK vec \in Embedding(w.name, content) : models' = Refreshed(m, w, content, vec)
        BY <1>7 DEF WriteRefresh
  <2>2. /\ folded' = [p \in DOMAIN folded |->
                        IF p \in {m} \X w.used THEN folded[p] + 1 ELSE folded[p]]
        /\ Overlaps(c, m)
        BY <1>7 DEF WriteRefresh
  <2>3. models[m] \in MentalModel /\ m \in 1 .. created
        BY <1>3, <1>7 DEF DocumentsSound, Documents
  <2>4. /\ DOMAIN models' = DOMAIN models
        /\ models'[m] = [models[m] EXCEPT !.content = content, !.at = w.now, !.mark = w.mark,
                                          !.vec = vec]
        /\ \A n \in DOMAIN models \ {m} : models'[n] = models[n]
        BY <1>7, <2>1 DEF Refreshed
  <2>5. content \in Text /\ vec \in Nat \X Nat /\ w.now \in Nat /\ w.mark \in Nat
        BY <1>3, <2>3 DEF Embedding, NoVec, MentalModel, Asking, Text
  <2>6. /\ models'[m] \in MentalModel
        /\ models'[m].name = models[m].name /\ models'[m].content = content
        /\ models'[m].mark = w.mark /\ models'[m].vec = vec
        BY <2>3, <2>4, <2>5 DEF MentalModel, Text
  <2>. HIDE DEF content
  <2>a. /\ DOMAIN models' = DOMAIN models
        /\ \A n \in DOMAIN models \ {m} : models'[n] = models[n]
        BY <2>4
  <2>b. \A n \in DOMAIN models : models'[n].name = models[n].name
        BY <2>6, <2>a
  <2>c. models[m].mark \in Int /\ \A n \in DOMAIN models : models[n].mark \in Int
        BY <2>3 DEF DocumentsSound, Documents, MentalModel
  <2>7. /\ overlapped \subseteq overlapped'
        /\ edit # NoWork /\ edit.m = m => m \in overlapped'
        /\ \A row \in stale.rows : row.m = m => m \in overlapped'
        BY <2>2, ReadersAreOverlapped DEF Worker, RefreshCaller
  <2>8. Documents'
        BY <1>1, <2>4, <2>6 DEF DocumentsSound, Documents
  <2>9. Marks'
    <3>1. \A d \in Worker \ {c} : work[d].pc \in {"recall", "ask"} /\ work[d].m \notin crossed
                                     => work[d].m # m
      <4>1. \A d \in Worker : work[d].pc \in {"recall", "ask"} => Working(d)
            BY DEF Working, NoWork
      <4>2. CASE c = "late"
            BY <1>2, <4>1, <4>2 DEF DocumentsSound, Left, Worker
      <4>3. ASSUME NEW d \in Worker \ {c}, c # "late", d = "late", work[d].pc \in {"recall", "ask"}
            PROVE  work[d].m = m => m \in crossed
            BY <1>3, <4>3 DEF DocumentsSound, Left, Worker
      <4>4. ASSUME NEW d \in Worker \ {c}, c # "late", d # "late", work[d].pc \in {"recall", "ask"}
            PROVE  work[d].m # m
            BY <1>3, <4>1, <4>4 DEF DocumentsSound, Works, Worker
      <4>. QED BY <4>2, <4>3, <4>4
    <3>. QED BY <1>1, <1>4, <2>a, <3>1 DEF DocumentsSound, Marks, NoWork
  <2>10. Names'
        BY <1>1, <1>4, <2>a, <2>b, <2>7 DEF DocumentsSound, Names, NameIs, NoWork
  <2>11. Reads'
        BY <1>1, <2>4, <2>7 DEF DocumentsSound, Reads, TextIs
  <2>12. EmbeddingsAreCurrent'
    <3>1. m \notin overlapped' => models[m].name = w.name
          BY <1>2, <1>7, <2>7 DEF DocumentsSound, Names, NameIs
    <3>2. m \notin overlapped' => vec \in {NoVec, << models'[m].name, models'[m].content >>}
          BY <2>1, <2>6, <3>1 DEF Embedding
    <3>. QED BY <2>4, <2>6, <2>7, <3>2 DEF DocumentsSound, EmbeddingsAreCurrent
  <2>13. Folds'
    <3>1. DOMAIN folded' = Ever \X (1 .. MaxCommits)
          BY <2>2 DEF DocumentsSound, Folds
    <3>2. m \notin crossed =>
              /\ w.used \subseteq DOMAIN committed
              /\ \A f \in w.used : committed[f] <= w.mark /\ committed[f] > models[m].mark
              /\ w.mark > models[m].mark
          BY <1>2, <1>7 DEF DocumentsSound, Marks
    <3>3. \A f \in DOMAIN committed : committed[f] \in Nat
          BY DEF DocumentsSound, Times
    <3>4. ASSUME NEW n \in Ever, NEW f \in 1 .. MaxCommits, n \notin crossed
          PROVE  folded'[<< n, f >>] = 0 \/ FoldedBefore(n, f)'
      <4>1. << n, f >> \in DOMAIN folded
            BY DEF DocumentsSound, Folds
      <4>2. folded[<< n, f >>] = 0 \/ FoldedBefore(n, f)
            BY <3>4 DEF DocumentsSound, Folds
      <4>3. CASE n = m /\ f \in w.used
        <5>1. folded[<< n, f >>] = 0
          <6>1. ~ (committed[f] <= models[m].mark)
                BY <2>3, <3>2, <3>3, <3>4, <4>3 DEF MentalModel
          <6>. QED BY <1>7, <4>2, <4>3, <6>1 DEF FoldedBefore
        <5>2. folded'[<< n, f >>] = 1
              BY <2>2, <4>1, <4>3, <5>1
        <5>3. f \in DOMAIN committed /\ m <= created /\ committed[f] <= w.mark
              BY <2>3, <3>2, <3>4, <4>3
        <5>. QED BY <1>1, <2>6, <4>3, <5>2, <5>3 DEF FoldedBefore
      <4>4. CASE ~ (n = m /\ f \in w.used)
        <5>1. folded'[<< n, f >>] = folded[<< n, f >>]
              BY <2>2, <4>1, <4>4
        <5>2. n \in DOMAIN models => models[n].mark <= models'[n].mark
          <6>1. CASE n = m
                BY <2>5, <2>6, <2>c, <3>2, <3>4, <6>1
          <6>2. CASE n # m
                BY <2>a, <2>c, <6>2
          <6>. QED BY <6>1, <6>2
        <5>3. n \in DOMAIN models => models[n].mark \in Int /\ models'[n].mark \in Int
          <6>1. CASE n = m
                BY <2>5, <2>6, <2>c, <6>1
          <6>2. CASE n # m
                BY <2>a, <2>c, <6>2
          <6>. QED BY <6>1, <6>2
        <5>4. CASE folded[<< n, f >>] = 0
              BY <5>1, <5>4
        <5>5. CASE FoldedBefore(n, f)
          <6>1. /\ folded'[<< n, f >>] = 1 /\ f \in DOMAIN committed' /\ n <= created'
                /\ committed'[f] = committed[f] /\ committed[f] \in Nat
                BY <1>1, <3>3, <5>1, <5>5 DEF FoldedBefore
          <6>2. n \in DOMAIN models' => committed[f] <= models[n].mark
                BY <2>a, <5>5 DEF FoldedBefore
          <6>3. n \in DOMAIN models' => committed[f] <= models'[n].mark
                BY <2>a, <5>2, <5>3, <6>1, <6>2
          <6>. QED BY <6>1, <6>3 DEF FoldedBefore
        <5>. QED BY <4>2, <5>4, <5>5
      <4>. QED BY <4>3, <4>4
    <3>. QED BY <1>1, <3>1, <3>4 DEF Folds
  <2>. QED BY <1>4, <1>5, <2>8, <2>9, <2>10, <2>11, <2>12, <2>13 DEF DocumentsSound
<1>. QED BY <1>6, <1>7


LEMMA CreateIsSound ==
    ASSUME DocumentsSound, Create  PROVE DocumentsSound'
<1>1. UNCHANGED << clock, committed, writing, work, edit, stale, folded, overlapped, crossed >>
      /\ created' = created + 1 /\ created < MaxModels
      BY DEF Create
<1>2. PICK trigger \in Trigger, vec \in Embedding(1, 1) :
          models' = [m \in DOMAIN models \cup {created'} |->
                        IF m = created' THEN NewRow(trigger, vec) ELSE models[m]]
      BY DEF Create
<1>. DEFINE n == created + 1
<1>3. n \notin DOMAIN models /\ n \in 1 .. created' /\ created' \in 0 .. MaxModels
      BY <1>1, MentalModelsAssumption DEF DocumentsSound, Documents
<1>4. NewRow(trigger, vec) \in MentalModel
      BY <1>2 DEF NewRow, MentalModel, Embedding, NoVec, Trigger
<1>5. /\ DOMAIN models' = DOMAIN models \cup {n}
      /\ models'[n] = NewRow(trigger, vec)
      /\ \A m \in DOMAIN models : models'[m] = models[m]
      BY <1>1, <1>2, <1>3
<1>6. created \in Nat /\ DOMAIN models \subseteq 1 .. created
      BY DEF DocumentsSound, Documents
<1>7. Documents'
      BY <1>1, <1>3, <1>4, <1>5, <1>6 DEF DocumentsSound, Documents
<1>8. Times'
      BY <1>1 DEF DocumentsSound, Times
<1>9. Works' /\ Left'
      BY <1>1, <1>6 DEF DocumentsSound, Works, Left, Working
<1>10. \A c \in Worker : work[c].pc \in {"recall", "ask"} => work[c].m # n
      BY <1>6 DEF DocumentsSound, Works, Working, NoWork
<1>11. Marks'
      BY <1>1, <1>5, <1>10 DEF DocumentsSound, Marks
<1>12. Names'
      BY <1>1, <1>5, <1>10 DEF DocumentsSound, Names, NameIs
<1>13. (edit # NoWork => edit.m # n) /\ \A row \in stale.rows : row.m # n
      BY <1>6 DEF DocumentsSound, Reads
<1>14. Reads'
      BY <1>1, <1>5, <1>6, <1>13 DEF DocumentsSound, Reads, TextIs
<1>15. Folds'
  <2>1. ASSUME NEW m \in Ever, NEW f \in 1 .. MaxCommits, FoldedBefore(m, f)
        PROVE  FoldedBefore(m, f)'
    <3>1. m # n /\ m <= created'
          BY <1>1, <1>6, <2>1 DEF FoldedBefore, Ever
    <3>. QED BY <1>1, <1>5, <2>1, <3>1 DEF FoldedBefore
  <2>. QED BY <1>1, <2>1 DEF DocumentsSound, Folds
<1>16. EmbeddingsAreCurrent'
  <2>1. models'[n].vec \in {NoVec, << models'[n].name, models'[n].content >>}
        BY <1>2, <1>5 DEF NewRow, Embedding
  <2>. QED BY <1>1, <1>5, <2>1 DEF DocumentsSound, EmbeddingsAreCurrent
<1>. QED BY <1>7, <1>8, <1>9, <1>11, <1>12, <1>14, <1>15, <1>16 DEF DocumentsSound

LEMMA PatchLoadIsSound ==
    ASSUME DocumentsSound, PatchLoad  PROVE DocumentsSound'
<1>1. UNCHANGED << clock, committed, writing, models, created, work, stale, folded, overlapped, crossed >>
      BY DEF PatchLoad
<1>2. PICK m \in DOMAIN models, f \in Fields :
          edit' = [named |-> f.named, worded |-> f.worded, m |-> m,
                   name |-> models[m].name, content |-> models[m].content]
      BY DEF PatchLoad
<1>3. edit'.m = m /\ edit'.name = models[m].name /\ edit'.content = models[m].content
      BY <1>2
<1>4. m \in 1 .. created /\ models[m].name \in Text /\ models[m].content \in Text
      BY DEF DocumentsSound, Documents, MentalModel, Text
<1>5. Reads'
      BY <1>1, <1>3, <1>4 DEF DocumentsSound, Reads, TextIs
<1>. QED BY <1>1, <1>5 DEF DocumentsSound, Documents, Times, Works, Left, Working, Marks, Folds,
               FoldedBefore, Names, NameIs, EmbeddingsAreCurrent

LEMMA PatchWriteIsSound ==
    ASSUME DocumentsSound, PatchWrite  PROVE DocumentsSound'
<1>1. UNCHANGED << clock, committed, writing, created, work, stale, folded, crossed >> /\ edit' = NoWork
      BY DEF PatchWrite
<1>2. edit # NoWork
      BY DEF PatchWrite
<1>3. Times' /\ Works' /\ Left'
      BY <1>1 DEF DocumentsSound, Times, Works, Left, Working
<1>4. CASE edit.m \notin DOMAIN models
  <2>1. UNCHANGED << models, overlapped >>
        BY <1>4 DEF PatchWrite
  <2>. QED BY <1>1, <1>3, <2>1 DEF DocumentsSound, Documents, Marks, Folds, FoldedBefore, Names,
                 NameIs, Reads, TextIs, EmbeddingsAreCurrent
<1>5. CASE edit.m \in DOMAIN models
  <2>. DEFINE m == edit.m
              text == PatchedText(edit)
  <2>1. PICK vec \in Embedding(text[1], text[2]) : models' = Patched(edit, vec)
        BY <1>5 DEF PatchWrite
  <2>2. Overlaps("patch", m)
        BY <1>5 DEF PatchWrite
  <2>3. models[m] \in MentalModel /\ m \in 1 .. created /\ edit.name \in Text /\ edit.content \in Text
        BY <1>2, <1>5 DEF DocumentsSound, Documents, Reads
  <2>4. text[1] \in Nat /\ text[2] \in Nat
        BY <2>3 DEF PatchedText, MentalModel, Text
  <2>5. vec \in Nat \X Nat
        BY <2>1, <2>4 DEF Embedding, NoVec
  <2>. DEFINE name == IF edit.named THEN models[m].name + 1 ELSE models[m].name
              content == IF edit.worded THEN models[m].content + 1 ELSE models[m].content
              kept == IF edit.named \/ edit.worded THEN vec ELSE models[m].vec
  <2>a. models' = [models EXCEPT ![m] = [models[m] EXCEPT !.name = name, !.content = content,
                                                          !.vec = kept]]
        BY <2>1 DEF Patched
  <2>b. name \in Text /\ content \in Text /\ kept \in Nat \X Nat
        BY <2>3, <2>5 DEF MentalModel, Text
  <2>c. /\ ~ (edit.named \/ edit.worded)
             => name = models[m].name /\ content = models[m].content /\ kept = models[m].vec
        /\ edit.named \/ edit.worded => kept = vec
        /\ edit.name = models[m].name => text[1] = name
        /\ edit.content = models[m].content => text[2] = content
        BY DEF PatchedText
  <2>. HIDE DEF name, content, kept, text
  <2>7. /\ models'[m] \in MentalModel
        /\ models'[m].name = name /\ models'[m].content = content /\ models'[m].vec = kept
        /\ models'[m].mark = models[m].mark
        BY <1>5, <2>3, <2>a, <2>b DEF MentalModel, Text
  <2>8. /\ DOMAIN models' = DOMAIN models
        /\ \A n \in DOMAIN models \ {m} : models'[n] = models[n]
        /\ \A n \in DOMAIN models : models'[n].mark = models[n].mark
        BY <2>7, <2>a
  <2>9. /\ overlapped \subseteq overlapped'
        /\ \A row \in stale.rows : row.m = m => m \in overlapped'
        /\ \A d \in Worker : work[d].pc \in {"recall", "ask"} /\ work[d].m = m
                                => m \in overlapped'
        BY <2>2, ReadersAreOverlapped DEF Worker, RefreshCaller, Working, NoWork
  <2>10. Documents'
        BY <1>1, <2>7, <2>8 DEF DocumentsSound, Documents
  <2>11. Marks'
        BY <1>1, <2>8 DEF DocumentsSound, Marks
  <2>12. Folds'
        BY <1>1, <2>8 DEF DocumentsSound, Folds, FoldedBefore
  <2>13. Names'
        BY <1>1, <2>8, <2>9 DEF DocumentsSound, Names, NameIs
  <2>14. Reads'
        BY <1>1, <2>8, <2>9 DEF DocumentsSound, Reads, TextIs
  <2>15. EmbeddingsAreCurrent'
    <3>1. CASE ~ (edit.named \/ edit.worded)
      <4>1. /\ models'[m].name = models[m].name /\ models'[m].content = models[m].content
            /\ models'[m].vec = models[m].vec
            BY <2>7, <2>c, <3>1
      <4>. QED BY <2>8, <2>9, <4>1 DEF DocumentsSound, EmbeddingsAreCurrent
    <3>2. CASE edit.named \/ edit.worded
      <4>1. m \notin overlapped' => edit.name = models[m].name /\ edit.content = models[m].content
            BY <1>2, <1>5, <2>9 DEF DocumentsSound, Reads, TextIs
      <4>2. m \notin overlapped'
              => text[1] = models'[m].name /\ text[2] = models'[m].content
            BY <2>7, <2>c, <4>1
      <4>3. m \notin overlapped'
              => models'[m].vec \in {NoVec, << models'[m].name, models'[m].content >>}
            BY <2>1, <2>7, <2>c, <3>2, <4>2 DEF Embedding
      <4>. QED BY <2>8, <2>9, <4>3 DEF DocumentsSound, EmbeddingsAreCurrent
    <3>. QED BY <3>1, <3>2
  <2>. QED BY <1>3, <2>10, <2>11, <2>12, <2>13, <2>14, <2>15 DEF DocumentsSound
<1>. QED BY <1>4, <1>5

LEMMA TriggerIsSound ==
    ASSUME DocumentsSound, SetTrigger \/ ClearTrigger  PROVE DocumentsSound'
<1>1. UNCHANGED << clock, committed, writing, created, work, edit, stale, folded, overlapped, crossed >>
      BY DEF SetTrigger, ClearTrigger
<1>2. PICK m \in DOMAIN models, trigger \in Trigger : models' = [models EXCEPT ![m].trigger = trigger]
      BY DEF SetTrigger, ClearTrigger, Trigger
<1>3. DOMAIN models' = DOMAIN models
      BY <1>2
<1>4. \A n \in DOMAIN models :
          /\ models'[n] \in MentalModel
          /\ models'[n].mark = models[n].mark
          /\ models'[n].name = models[n].name
          /\ models'[n].content = models[n].content
          /\ models'[n].vec = models[n].vec
      BY <1>2 DEF DocumentsSound, Documents, MentalModel
<1>5. Documents' /\ Times' /\ Works' /\ Left'
      BY <1>1, <1>3, <1>4 DEF DocumentsSound, Documents, Times, Works, Left, Working
<1>6. Marks' /\ Folds'
      BY <1>1, <1>3, <1>4 DEF DocumentsSound, Marks, Folds, FoldedBefore
<1>7. Names' /\ Reads' /\ EmbeddingsAreCurrent'
      BY <1>1, <1>3, <1>4 DEF DocumentsSound, Names, NameIs, Reads, TextIs, EmbeddingsAreCurrent
<1>. QED BY <1>5, <1>6, <1>7 DEF DocumentsSound

LEMMA DeleteModelIsSound ==
    ASSUME DocumentsSound, DeleteModel  PROVE DocumentsSound'
<1>1. UNCHANGED << clock, committed, writing, created, work, edit, stale, folded, overlapped, crossed >>
      BY DEF DeleteModel
<1>2. PICK m \in DOMAIN models : models' = [n \in DOMAIN models \ {m} |-> models[n]]
      BY DEF DeleteModel
<1>3. /\ DOMAIN models' \subseteq DOMAIN models
      /\ \A n \in DOMAIN models' : models'[n] = models[n]
      BY <1>2
<1>4. Documents' /\ Times' /\ Works' /\ Left'
      BY <1>1, <1>3 DEF DocumentsSound, Documents, Times, Works, Left, Working
<1>5. Marks' /\ Folds'
      BY <1>1, <1>3 DEF DocumentsSound, Marks, Folds, FoldedBefore
<1>6. Names' /\ Reads' /\ EmbeddingsAreCurrent'
      BY <1>1, <1>3 DEF DocumentsSound, Names, NameIs, Reads, TextIs, EmbeddingsAreCurrent
<1>. QED BY <1>4, <1>5, <1>6 DEF DocumentsSound

LEMMA ListStaleIsSound ==
    ASSUME DocumentsSound, ListStale  PROVE DocumentsSound'
<1>1. UNCHANGED << clock, committed, writing, models, created, work, edit, folded, overlapped, crossed >>
      /\ stale' = [listed |-> TRUE, rows |-> Stale]
      BY DEF ListStale
<1>2. \A row \in Stale : \E m \in DOMAIN models :
          row = [m |-> m, name |-> models[m].name, content |-> models[m].content]
      BY DEF Stale
<1>3. \A m \in DOMAIN models : m \in 1 .. created /\ models[m].name \in Text /\ models[m].content \in Text
      BY DEF DocumentsSound, Documents, MentalModel, Text
<1>4. Reads'
      BY <1>1, <1>2, <1>3 DEF DocumentsSound, Reads, TextIs
<1>. QED BY <1>1, <1>4 DEF DocumentsSound, Documents, Times, Works, Left, Working, Marks, Folds,
               FoldedBefore, Names, NameIs, EmbeddingsAreCurrent

LEMMA ReembedIsSound ==
    ASSUME DocumentsSound, Reembed  PROVE DocumentsSound'
<1>1. UNCHANGED << clock, committed, writing, created, work, edit, folded, crossed >>
      BY DEF Reembed
<1>r. PICK row \in stale.rows : \E vec \in Embedding(row.name, row.content) :
          /\ IF vec = NoVec \/ row.m \notin DOMAIN models THEN UNCHANGED << models, overlapped >>
             ELSE models' = [models EXCEPT ![row.m].vec = vec] /\ Overlaps("start", row.m)
          /\ stale' = [stale EXCEPT !.rows = @ \ {row}]
      BY DEF Reembed
<1>2. PICK vec \in Embedding(row.name, row.content) :
          /\ IF vec = NoVec \/ row.m \notin DOMAIN models THEN UNCHANGED << models, overlapped >>
             ELSE models' = [models EXCEPT ![row.m].vec = vec] /\ Overlaps("start", row.m)
          /\ stale' = [stale EXCEPT !.rows = @ \ {row}]
      BY <1>r
<1>3. stale'.rows \subseteq stale.rows /\ "rows" \in DOMAIN stale'
      BY <1>2 DEF DocumentsSound, Reads
<1>4. Times' /\ Works' /\ Left'
      BY <1>1 DEF DocumentsSound, Times, Works, Left, Working
<1>5. CASE UNCHANGED << models, overlapped >>
      BY <1>1, <1>3, <1>4, <1>5 DEF DocumentsSound, Documents, Marks, Folds, FoldedBefore, Names,
            NameIs, Reads, TextIs, EmbeddingsAreCurrent
<1>6. CASE ~ UNCHANGED << models, overlapped >>
  <2>. DEFINE m == row.m
  <2>1. /\ m \in DOMAIN models /\ models' = [models EXCEPT ![m].vec = vec]
        /\ vec = << row.name, row.content >>
        BY <1>2, <1>6 DEF Embedding
  <2>2. overlapped \subseteq overlapped'
        BY <1>2, <1>6, ReadersAreOverlapped
  <2>3. /\ models[m] \in MentalModel /\ row.name \in Text /\ row.content \in Text
        /\ TextIs(m, row.name, row.content)
        BY <2>1 DEF DocumentsSound, Documents, Reads
  <2>4. vec \in Nat \X Nat
        BY <2>1, <2>3 DEF Text
  <2>5. /\ DOMAIN models' = DOMAIN models
        /\ models'[m].vec = vec
        /\ \A n \in DOMAIN models \ {m} : models'[n] = models[n]
        BY <2>1, <2>3 DEF MentalModel
  <2>6. \A n \in DOMAIN models :
          /\ models'[n] \in MentalModel
          /\ models'[n].mark = models[n].mark
          /\ models'[n].name = models[n].name
          /\ models'[n].content = models[n].content
        BY <2>1, <2>4 DEF DocumentsSound, Documents, MentalModel
  <2>7. Documents' /\ Marks' /\ Folds'
        BY <1>1, <2>5, <2>6 DEF DocumentsSound, Documents, Marks, Folds, FoldedBefore
  <2>8. Names' /\ Reads'
        BY <1>1, <1>3, <2>2, <2>5, <2>6 DEF DocumentsSound, Names, NameIs, Reads, TextIs
  <2>9. EmbeddingsAreCurrent'
    <3>1. m \notin overlapped' => vec = << models'[m].name, models'[m].content >>
          BY <2>1, <2>2, <2>3, <2>6 DEF TextIs
    <3>. QED BY <2>2, <2>5, <3>1 DEF DocumentsSound, EmbeddingsAreCurrent
  <2>. QED BY <1>4, <2>7, <2>8, <2>9 DEF DocumentsSound
<1>. QED BY <1>5, <1>6

LEMMA TimePassesSoundly ==
    ASSUME DocumentsSound, Elapse \/ \E w \in Writer : Stamp(w) \/ Commit(w)
    PROVE  DocumentsSound'
<1>1. UNCHANGED << models, created, work, edit, stale, folded, overlapped, crossed >>
      BY DEF Elapse, Stamp, Commit
<1>2. Times' /\ DOMAIN committed \subseteq DOMAIN committed'
      /\ \A f \in DOMAIN committed : committed'[f] = committed[f]
  <2>1. CASE Elapse
        BY <2>1, MentalModelsAssumption DEF Elapse, DocumentsSound, Times
  <2>2. ASSUME NEW w \in Writer, Stamp(w)
        PROVE  Times' /\ committed' = committed
        BY <2>2 DEF Stamp, DocumentsSound, Times
  <2>3. ASSUME NEW w \in Writer, Commit(w)
        PROVE  Times' /\ DOMAIN committed \subseteq DOMAIN committed'
               /\ \A f \in DOMAIN committed : committed'[f] = committed[f]
    <3>1. /\ committed' = Append(committed, writing[w]) /\ writing[w] \in 0 .. MaxTime
          /\ committed \in Seq(Nat) /\ UNCHANGED clock
          /\ writing' = [writing EXCEPT ![w] = 0]
          BY <2>3 DEF Commit, DocumentsSound, Times
    <3>2. writing' \in [Writer -> 0 .. MaxTime]
          BY <3>1, MentalModelsAssumption DEF DocumentsSound, Times
    <3>3. /\ committed' \in Seq(Nat) /\ DOMAIN committed \subseteq DOMAIN committed'
          /\ \A f \in DOMAIN committed : committed'[f] = committed[f]
          /\ \A f \in DOMAIN committed' : f \in DOMAIN committed \/ committed'[f] = writing[w]
          BY <3>1
    <3>. QED BY <3>1, <3>2, <3>3 DEF DocumentsSound, Times
  <2>. QED BY <2>1, <2>2, <2>3 DEF Elapse
<1>3. Marks' /\ Folds'
      BY <1>1, <1>2 DEF DocumentsSound, Marks, Folds, FoldedBefore
<1>. QED BY <1>1, <1>2, <1>3 DEF DocumentsSound, Documents, Works, Left, Working, Names, NameIs, Reads,
               TextIs, EmbeddingsAreCurrent

LEMMA MentalStep ==
    ASSUME DocumentsSound, [MentalNext]_mentalVars
    PROVE  DocumentsSound'
<1>1. ASSUME NEW c \in RefreshCaller, BeginPass(c) \/ RefreshStep(c) \/ AskFails(c)
      PROVE  DocumentsSound'
      BY <1>1, BeginIsSound, LoadIsSound, RecallIsSound, SkipIsSound, WriteRefreshIsSound,
         AskFailsIsSound DEF RefreshStep, Worker
<1>4. CASE LateWrite
      BY <1>4, SkipIsSound, WriteRefreshIsSound DEF LateWrite, Worker
<1>2. CASE PostRefresh
      BY <1>2, BeginIsSound DEF RefreshCaller
<1>3. CASE UNCHANGED mentalVars
      BY <1>3 DEF mentalVars, DocumentsSound, Documents, Times, Works, Left, Working, Marks, Folds,
            FoldedBefore, Names, NameIs, Reads, TextIs, EmbeddingsAreCurrent
<1>. QED BY <1>1, <1>2, <1>3, <1>4, HangUpIsSound, CreateIsSound, PatchLoadIsSound, PatchWriteIsSound, TriggerIsSound,
            DeleteModelIsSound, ListStaleIsSound, ReembedIsSound, TimePassesSoundly DEF MentalNext

\* No fact is summarised twice into one document, and a document's vector is of
\* its name and content or missing, whoever refreshes, edits, deletes or embeds
\* it and whenever its facts commit; but for documents that were read while a
\* write of a client gone was to be made, and for the vectors of those that were
\* written while another held a read of them.
THEOREM DocumentsStayCurrent == MentalSpec => []DocumentsAreCurrent
<1>1. MentalInit => DocumentsSound
  <2>. SUFFICES ASSUME MentalInit PROVE DocumentsSound
       OBVIOUS
  <2>1. Documents /\ Times
        BY MentalModelsAssumption DEF MentalInit, Documents, Times
  <2>2. Works /\ Left /\ Marks /\ Names
        BY DEF MentalInit, Works, Left, Working, Worker, Marks, Names, NoWork
  <2>3. Folds
        BY DEF MentalInit, Folds
  <2>4. Reads /\ EmbeddingsAreCurrent
        BY DEF MentalInit, Reads, EmbeddingsAreCurrent
  <2>. QED BY <2>1, <2>2, <2>3, <2>4 DEF DocumentsSound
<1>2. DocumentsSound /\ [MentalNext]_mentalVars => DocumentsSound'
      BY MentalStep
<1>3. DocumentsSound => DocumentsAreCurrent
  <2>. SUFFICES ASSUME DocumentsSound PROVE DocumentsAreCurrent
       OBVIOUS
  <2>1. \A m \in Ever, f \in 1 .. MaxCommits : m \notin crossed => folded[<< m, f >>] <= 1
    <3>1. \A m \in Ever, f \in 1 .. MaxCommits : m \notin crossed => folded[<< m, f >>] \in {0, 1}
          BY DEF DocumentsSound, Folds, FoldedBefore
    <3>2. \A x \in {0, 1} : x <= 1
          OBVIOUS
    <3>. QED BY <3>1, <3>2, Zenon
  <2>2. FoldedOnce
        BY <2>1 DEF DocumentsSound, Folds, FoldedOnce
  <2>. QED BY <2>2 DEF DocumentsSound, DocumentsAreCurrent
<1>. QED BY <1>1, <1>2, <1>3, PTL DEF MentalSpec

(***************************************************************************)
(* The task ledger: one task is in flight, and it is of a job that is      *)
(* newer than all the rows that are written.                               *)
(***************************************************************************)

\* The one task in flight is newer than every row, in its job and, once it
\* has read the clock, in its time.
AheadOfRows ==
    /\ \A f, g \in flights : f = g
    /\ \A b \in DOMAIN ledger : ledger[b].updated \in Nat /\ ledger[b].updated <= ticks
    /\ \A f \in flights : \A b \in DOMAIN ledger :
          /\ ledger[b].job <= f.job
          /\ f.pc = "write" => ledger[b].updated <= f.at

Ahead == LedgerTypeOK /\ AheadOfRows

LEMMA AheadStep == Ahead /\ [LedgerNext]_ledgerVars => Ahead'
<1>. SUFFICES ASSUME Ahead, [LedgerNext]_ledgerVars
              PROVE  Ahead'
     OBVIOUS
<1>. USE TaskLedgerAssumption
<1>r. /\ admitted \in Nat /\ ticks \in Nat
      /\ \A f \in flights : f.job \in Nat /\ f.at \in Nat
      /\ \A b \in DOMAIN ledger : ledger[b].job \in Nat /\ ledger[b].updated \in Nat
      BY DEF Ahead, LedgerTypeOK, AheadOfRows
<1>1. CASE Spawn
  <2>1. PICK b \in there, blank \in BOOLEAN :
           flights' = IF MayFly /\ ~blank
                      THEN flights \cup {[job |-> admitted', bank |-> b, pc |-> "ask", at |-> 0]}
                      ELSE flights
        BY <1>1 DEF Spawn
  <2>2. CASE MayFly /\ ~blank
    <3>1. flights' = {[job |-> admitted', bank |-> b, pc |-> "ask", at |-> 0]}
          BY <2>1, <2>2 DEF MayFly
    <3>. QED BY <1>1, <1>r, <3>1 DEF Spawn, Ahead, LedgerTypeOK, AheadOfRows
  <2>3. CASE ~(MayFly /\ ~blank)
    <3>1. flights' = flights
          BY <2>1, <2>3
    <3>. QED BY <1>1, <1>r, <3>1 DEF Spawn, Ahead, LedgerTypeOK, AheadOfRows
  <2>. QED BY <2>2, <2>3
<1>2. CASE NoGoal
      BY <1>2 DEF NoGoal, Ahead, LedgerTypeOK, AheadOfRows
<1>3. CASE Goal
  <2>1. PICK f \in flights :
           /\ f.pc = "ask"
           /\ flights' = (flights \ {f}) \cup {[f EXCEPT !.pc = "write", !.at = ticks]}
        BY <1>3 DEF Goal
  <2>2. flights = {f}
        BY DEF Ahead, AheadOfRows
  <2>. DEFINE g == [f EXCEPT !.pc = "write", !.at = ticks]
  <2>3. flights' = {g}
        BY <2>1, <2>2
  <2>4. UNCHANGED << admitted, ledger, there, ticks >>
        BY <1>3 DEF Goal
  <2>. QED BY <1>r, <2>2, <2>3, <2>4 DEF Ahead, LedgerTypeOK, AheadOfRows
<1>4. CASE Upsert
  <2>1. PICK f \in flights :
           /\ f.pc = "write"
           /\ flights' = flights \ {f}
           /\ \/ /\ f.bank \in there
                 /\ ledger' = [b \in DOMAIN ledger \cup {f.bank} |->
                               IF b = f.bank THEN Replaced(f) ELSE ledger[b]]
              \/ UNCHANGED ledger
        BY <1>4 DEF Upsert
  <2>2. flights' = {}
        BY <2>1 DEF Ahead, AheadOfRows
  <2>3. UNCHANGED << admitted, there, ticks >>
        BY <1>4 DEF Upsert
  <2>. QED BY <1>r, <2>1, <2>2, <2>3 DEF Replaced, Ahead, LedgerTypeOK, AheadOfRows
<1>5. CASE DeleteBank
      BY <1>5 DEF DeleteBank, Ahead, LedgerTypeOK, AheadOfRows
<1>6. CASE CreateBank
      BY <1>6 DEF CreateBank, Ahead, LedgerTypeOK, AheadOfRows
<1>7. CASE Die
      BY <1>7 DEF Die, Ahead, LedgerTypeOK, AheadOfRows
<1>8. CASE Passes
      BY <1>8, <1>r DEF Passes, Ahead, LedgerTypeOK, AheadOfRows
<1>9. CASE UNCHANGED ledgerVars
      BY <1>9 DEF ledgerVars, Ahead, LedgerTypeOK, AheadOfRows
<1>. QED BY <1>1, <1>2, <1>3, <1>4, <1>5, <1>6, <1>7, <1>8, <1>9 DEF LedgerNext

LEMMA AheadAlways == LedgerSpec => []Ahead
<1>1. LedgerInit => Ahead
  <2>. SUFFICES ASSUME LedgerInit PROVE Ahead
       OBVIOUS
  <2>1. DOMAIN ledger = {}
        BY DEF LedgerInit
  <2>. QED BY <2>1, TaskLedgerAssumption DEF LedgerInit, Ahead, LedgerTypeOK, AheadOfRows
<1>. QED BY <1>1, AheadStep, PTL DEF LedgerSpec

\* Every row and every task is of an admitted job (spawn, upsert).
THEOREM LedgerIsTyped == LedgerSpec => []LedgerTypeOK
<1>1. Ahead => LedgerTypeOK
      BY DEF Ahead
<1>. QED BY <1>1, AheadAlways, PTL

\* A slow task of an older job never replaces what a newer one wrote: the one
\* permit of IN_FLIGHT is enough, although jobs are admitted in between.
THEOREM NewestTranscriptStays == LedgerSpec => LedgerNeverGoesBack
<1>1. ASSUME Ahead, [LedgerNext]_ledgerVars, NEW b \in DOMAIN ledger \cap DOMAIN ledger'
      PROVE  /\ ledger[b].job <= ledger'[b].job
             /\ ledger[b].created = ledger'[b].created
             /\ ledger[b].updated <= ledger'[b].updated
  <2>1. ledger[b].job \in Nat /\ ledger[b].updated \in Nat
        BY <1>1 DEF Ahead, LedgerTypeOK, AheadOfRows
  <2>2. CASE Upsert
    <3>1. PICK f \in flights :
             /\ f.pc = "write"
             /\ \/ /\ f.bank \in there
                   /\ ledger' = [c \in DOMAIN ledger \cup {f.bank} |->
                                 IF c = f.bank THEN Replaced(f) ELSE ledger[c]]
                \/ UNCHANGED ledger
          BY <2>2 DEF Upsert
    <3>2. ledger[b].job <= f.job /\ ledger[b].updated <= f.at
          BY <1>1, <3>1 DEF Ahead, AheadOfRows
    <3>. QED BY <2>1, <3>1, <3>2 DEF Replaced
  <2>3. CASE DeleteBank
        BY <1>1, <2>1, <2>3 DEF DeleteBank
  <2>4. CASE UNCHANGED ledger
        BY <2>1, <2>4
  <2>. QED BY <1>1, <2>2, <2>3, <2>4
           DEF LedgerNext, ledgerVars, Spawn, NoGoal, Goal, CreateBank, Die, Passes
<1>2. Ahead /\ [LedgerNext]_ledgerVars =>
         [\A b \in DOMAIN ledger \cap DOMAIN ledger' :
             /\ ledger[b].job <= ledger'[b].job
             /\ ledger[b].created = ledger'[b].created
             /\ ledger[b].updated <= ledger'[b].updated]_ledgerVars
      BY <1>1
<1>. QED BY <1>2, AheadAlways, PTL DEF LedgerSpec, LedgerNeverGoesBack

-----------------------------------------------------------------------------
(***************************************************************************)
(* Permits and health of the client of the language model, for any callers *)
(* and any number of permits and attempts (OllamaPermit).                  *)
(***************************************************************************)

Outside == {"none", "won", "lost", "clear"}     \* without a permit, and not in the line
Stages == Outside \cup {"wait", "try", "backoff"}
Waiters == {c \in Callers : At(c, "wait")}
Holders == {c \in Callers : Holds(c)}

PermitsTyped ==
    /\ call \in [Callers -> [pc : Stages, attempt : Nat]]
    /\ line \in Seq(Callers) /\ available \in Nat

Permits == PermitsTyped /\ PermitsAreAccountedFor

-----------------------------------------------------------------------------
(***************************************************************************)
(* Lines without repetition.                                               *)
(***************************************************************************)

\* One is taken out of the line, and the others keep their order.
LEMMA RemovedFromLine ==
    ASSUME NEW S, NEW s \in Seq(S), IsInjective(s), NEW k \in DOMAIN s
    PROVE  /\ RemoveAt(s, k) \in Seq(S)
           /\ IsInjective(RemoveAt(s, k))
           /\ ToSet(RemoveAt(s, k)) = ToSet(s) \ {s[k]}
<1> DEFINE n == Len(s)
           r == RemoveAt(s, k)
<1>1. n \in Nat /\ DOMAIN s = 1 .. n /\ \A i \in 1 .. n : s[i] \in S
  BY LenProperties
<1>2. /\ SubSeq(s, 1, k - 1) \in Seq(S) /\ Len(SubSeq(s, 1, k - 1)) = k - 1
      /\ \A i \in 1 .. k - 1 : SubSeq(s, 1, k - 1)[i] = s[i]
  BY <1>1, SubSeqProperties
<1>3. /\ SubSeq(s, k + 1, n) \in Seq(S) /\ Len(SubSeq(s, k + 1, n)) = n - k
      /\ \A i \in 1 .. n - k : SubSeq(s, k + 1, n)[i] = s[k + i]
  BY <1>1, SubSeqProperties
<1>4. /\ r \in Seq(S) /\ Len(r) = n - 1
      /\ \A i \in 1 .. n - 1 : r[i] = IF i < k THEN s[i] ELSE s[i + 1]
  <2>1. /\ r \in Seq(S) /\ Len(r) = (k - 1) + (n - k)
        /\ \A i \in 1 .. (k - 1) + (n - k) :
              r[i] = IF i <= k - 1 THEN SubSeq(s, 1, k - 1)[i]
                     ELSE SubSeq(s, k + 1, n)[i - (k - 1)]
    <3> DEFINE a == SubSeq(s, 1, k - 1)
               b == SubSeq(s, k + 1, n)
    <3>1. r = a \o b
      BY DEF RemoveAt
    <3>2. a \in Seq(S) /\ Len(a) = k - 1 /\ b \in Seq(S) /\ Len(b) = n - k
      BY <1>2, <1>3
    <3> HIDE DEF a, b, r
    <3>3. /\ a \o b \in Seq(S) /\ Len(a \o b) = Len(a) + Len(b)
          /\ \A i \in 1 .. Len(a) + Len(b) :
                (a \o b)[i] = IF i <= Len(a) THEN a[i] ELSE b[i - Len(a)]
      BY <3>2, ConcatProperties
    <3> QED BY <3>1, <3>2, <3>3 DEF a, b
  <2>2. ASSUME NEW i \in 1 .. n - 1, i < k
        PROVE  r[i] = s[i]
    <3>1. i \in 1 .. k - 1 /\ i \in 1 .. (k - 1) + (n - k)
      BY <1>1, <2>2
    <3> QED BY <1>2, <2>1, <3>1
  <2>3. ASSUME NEW i \in 1 .. n - 1, ~(i < k)
        PROVE  r[i] = s[i + 1]
    <3>1. /\ i \in 1 .. (k - 1) + (n - k) /\ ~(i <= k - 1)
          /\ i - (k - 1) \in 1 .. n - k /\ k + (i - (k - 1)) = i + 1
      BY <1>1, <2>3
    <3> HIDE DEF r
    <3> QED BY <1>3, <2>1, <3>1
  <2>4. Len(r) = n - 1
    BY <1>1, <2>1
  <2> QED BY <2>1, <2>2, <2>3, <2>4
<1>5. DOMAIN r = 1 .. n - 1
  BY <1>4, LenProperties
<1> HIDE DEF r, n
<1>6. IsInjective(r)
  <2>1. \A i, j \in 1 .. n : s[i] = s[j] => i = j
    BY <1>1 DEF IsInjective
  <2>2. ASSUME NEW i \in 1 .. n - 1, NEW j \in 1 .. n - 1, r[i] = r[j]
        PROVE  i = j
    <3> DEFINE at(m) == IF m < k THEN m ELSE m + 1
    <3>1. at(i) \in 1 .. n /\ at(j) \in 1 .. n
      BY <1>1
    <3>2. r[i] = s[at(i)] /\ r[j] = s[at(j)]
      BY <1>4
    <3>3. at(i) = at(j)
      <4> HIDE DEF at
      <4> QED BY <2>1, <2>2, <3>1, <3>2
    <3> QED BY <1>1, <3>3
  <2> QED BY <1>5, <2>2 DEF IsInjective
<1>7. ToSet(r) \subseteq ToSet(s) \ {s[k]}
  <2>1. ASSUME NEW i \in 1 .. n - 1 PROVE r[i] \in ToSet(s) /\ r[i] # s[k]
    <3>1. \A j \in 1 .. n : s[j] = s[k] => j = k
      BY <1>1 DEF IsInjective
    <3>2. CASE i < k
      <4>1. i \in 1 .. n /\ i # k /\ r[i] = s[i]
        BY <1>1, <1>4, <3>2
      <4> QED BY <1>1, <3>1, <4>1 DEF ToSet
    <3>3. CASE ~ (i < k)
      <4>1. i + 1 \in 1 .. n /\ i + 1 # k /\ r[i] = s[i + 1]
        BY <1>1, <1>4, <3>3
      <4> QED BY <1>1, <3>1, <4>1 DEF ToSet
    <3> QED BY <3>2, <3>3
  <2> QED BY <1>5, <2>1 DEF ToSet
<1>8. ASSUME NEW i \in DOMAIN s, i # k
      PROVE  s[i] \in ToSet(r)
  <2>1. CASE i < k
    BY <1>1, <1>4, <1>5, <2>1 DEF ToSet
  <2>2. CASE i > k
    <3>1. i - 1 \in DOMAIN r /\ r[i - 1] = s[i]
      BY <1>1, <1>4, <1>5, <2>2
    <3> QED BY <3>1 DEF ToSet
  <2> QED BY <1>1, <1>8, <2>1, <2>2
<1>9. ToSet(s) \ {s[k]} \subseteq ToSet(r)
  BY <1>8 DEF ToSet
<1> QED BY <1>4, <1>6, <1>7, <1>9 DEF r

\* The first of the line is served.
LEMMA ServedFromLine ==
    ASSUME NEW S, NEW s \in Seq(S), IsInjective(s), s # << >>
    PROVE  /\ Tail(s) \in Seq(S)
           /\ IsInjective(Tail(s))
           /\ ToSet(Tail(s)) = ToSet(s) \ {Head(s)}
           /\ Head(s) \in ToSet(s)
<1>1. Len(s) \in Nat \ {0} /\ DOMAIN s = 1 .. Len(s)
  BY EmptySeq, LenProperties
<1>2. /\ Tail(s) \in Seq(S) /\ Len(Tail(s)) = Len(s) - 1
      /\ \A i \in 1 .. Len(Tail(s)) : Tail(s)[i] = s[i + 1]
      /\ DOMAIN Tail(s) = 1 .. Len(s) - 1
  BY HeadTailProperties, LenProperties
<1>3. Head(s) = s[1]
  BY <1>1
<1>4. IsInjective(Tail(s))
  BY <1>1, <1>2 DEF IsInjective
<1>5. ToSet(Tail(s)) \subseteq ToSet(s) \ {s[1]}
  BY <1>1, <1>2 DEF IsInjective, ToSet
<1>6. ASSUME NEW i \in DOMAIN s, i # 1
      PROVE  s[i] \in ToSet(Tail(s))
  <2>1. i - 1 \in DOMAIN Tail(s) /\ Tail(s)[i - 1] = s[i]
    BY <1>1, <1>2, <1>6
  <2> QED BY <2>1 DEF ToSet
<1>7. ToSet(s) \ {s[1]} \subseteq ToSet(Tail(s))
  BY <1>6 DEF ToSet
<1>8. s[1] \in ToSet(s)
  BY <1>1 DEF ToSet
<1> QED BY <1>2, <1>3, <1>4, <1>5, <1>7, <1>8

\* One more joins at the end.
LEMMA JoinedToLine ==
    ASSUME NEW S, NEW s \in Seq(S), IsInjective(s), NEW c \in S \ ToSet(s)
    PROVE  /\ Append(s, c) \in Seq(S) /\ Append(s, c) # << >>
           /\ IsInjective(Append(s, c))
           /\ ToSet(Append(s, c)) = ToSet(s) \cup {c}
<1>1. Len(s) \in Nat /\ DOMAIN s = 1 .. Len(s)
  BY LenProperties
<1>2. /\ Append(s, c) \in Seq(S) /\ Append(s, c) # << >>
      /\ \A i \in 1 .. Len(s) : Append(s, c)[i] = s[i]
      /\ Append(s, c)[Len(s) + 1] = c
      /\ DOMAIN Append(s, c) = 1 .. Len(s) + 1
  BY AppendProperties, LenProperties
<1>3. \A i \in DOMAIN s : s[i] # c
  BY DEF ToSet
<1>4. IsInjective(Append(s, c))
  BY <1>1, <1>2, <1>3 DEF IsInjective
<1>5. ToSet(Append(s, c)) = ToSet(s) \cup {c}
  BY <1>1, <1>2 DEF ToSet
<1> QED BY <1>2, <1>4, <1>5

-----------------------------------------------------------------------------
(***************************************************************************)
(* What handing permits around does to their number.                       *)
(***************************************************************************)
LEMMA HoldersAreFinite ==
    /\ IsFiniteSet(Holders) /\ Cardinality(Holders) \in Nat
    /\ \A H \in SUBSET Callers : IsFiniteSet(H) /\ Cardinality(H) \in Nat
<1>1. \A H \in SUBSET Callers : IsFiniteSet(H) /\ Cardinality(H) \in Nat
  BY OllamaAssumption, FS_Subset, FS_CardinalityType
<1> QED BY <1>1 DEF Holders

\* One call changes its stage.
LEMMA StageOf ==
    ASSUME PermitsTyped, NEW c \in Callers, NEW r \in [pc : Stages, attempt : Nat],
           call' = [call EXCEPT ![c] = r]
    PROVE  /\ call' \in [Callers -> [pc : Stages, attempt : Nat]]
           /\ Holders' = IF r.pc \in {"try", "backoff"} THEN Holders \cup {c} ELSE Holders \ {c}
           /\ Waiters' = IF r.pc = "wait" THEN Waiters \cup {c} ELSE Waiters \ {c}
<1>1. /\ call' \in [Callers -> [pc : Stages, attempt : Nat]]
      /\ call'[c] = r /\ \A d \in Callers \ {c} : call'[d] = call[d]
  BY DEF PermitsTyped
<1>2. Holders' = IF r.pc \in {"try", "backoff"} THEN Holders \cup {c} ELSE Holders \ {c}
  BY <1>1 DEF Holders, Holds
<1>3. Waiters' = IF r.pc = "wait" THEN Waiters \cup {c} ELSE Waiters \ {c}
  BY <1>1 DEF Waiters, At
<1> QED BY <1>1, <1>2, <1>3

\* A permit is handed back: to the first in the line, or to the semaphore.
LEMMA ReleaseKeeps ==
    ASSUME Permits, NEW c \in Callers, Holds(c), NEW r \in [pc : Outside, attempt : Nat],
           Release([call EXCEPT ![c] = r])
    PROVE  Permits'
<1> USE DEF Permits, Stages, Outside
<1> DEFINE calls == [call EXCEPT ![c] = r]
<1>1. /\ calls \in [Callers -> [pc : Stages, attempt : Nat]]
      /\ calls[c] = r /\ \A d \in Callers \ {c} : calls[d] = call[d]
  BY DEF PermitsTyped
<1>2. c \in Holders /\ c \notin Waiters
  BY DEF Holders, Holds, Waiters, At
<1>3. /\ IsInjective(line) /\ ToSet(line) = Waiters /\ (line # << >> => available = 0)
      /\ available + Cardinality(Holders) = MaxConcurrent
  BY DEF PermitsAreAccountedFor, Holders, Waiters
<1>4. CASE line = << >>
  <2>1. call' = calls /\ line' = line /\ available' = available + 1
    BY <1>4 DEF Release, Wakes
  <2>2. Holders' = Holders \ {c} /\ Waiters' = Waiters
    BY <1>1, <1>2, <2>1 DEF Holders, Holds, Waiters, At
  <2>3. Cardinality(Holders') = Cardinality(Holders) - 1
    BY <1>2, <2>2, FS_RemoveElement, HoldersAreFinite
  <2>4. PermitsTyped'
    BY <1>1, <2>1 DEF PermitsTyped
  <2>5. available' + Cardinality(Holders') = MaxConcurrent
    BY <1>3, <2>1, <2>3, HoldersAreFinite, OllamaAssumption DEF PermitsTyped
  <2> QED BY <1>3, <1>4, <2>1, <2>2, <2>4, <2>5 DEF PermitsAreAccountedFor, Holders, Waiters
<1>5. CASE line # << >>
  <2> DEFINE h == Head(line)
  <2>1. /\ Tail(line) \in Seq(Callers) /\ IsInjective(Tail(line))
        /\ ToSet(Tail(line)) = Waiters \ {h} /\ h \in Waiters
    BY <1>3, <1>5, ServedFromLine DEF PermitsTyped
  <2>2. h \in Callers /\ h # c /\ call[h].pc = "wait"
    BY <1>2, <2>1 DEF Waiters, At
  <2>3. /\ call' = [calls EXCEPT ![h].pc = "try"]
        /\ line' = Tail(line) /\ available' = available
    BY <1>5 DEF Release, Wakes
  <2> HIDE DEF h, calls
  <2>4. /\ call' \in [Callers -> [pc : Stages, attempt : Nat]]
        /\ call'[h].pc = "try" /\ call'[c] = r
        /\ \A d \in Callers \ {c, h} : call'[d] = call[d]
    BY <1>1, <2>2, <2>3
  <2>5. Holders' = (Holders \ {c}) \cup {h} /\ Waiters' = Waiters \ {h}
    BY <1>1, <1>2, <2>2, <2>4 DEF Holders, Holds, Waiters, At
  <2>6. Cardinality(Holders') = Cardinality(Holders)
    <3>1. h \notin Holders \ {c}
      BY <2>2 DEF Holders, Holds
    <3>2. IsFiniteSet(Holders \ {c}) /\ Cardinality(Holders \ {c}) = Cardinality(Holders) - 1
      BY <1>2, FS_RemoveElement, HoldersAreFinite
    <3>3. Cardinality((Holders \ {c}) \cup {h}) = Cardinality(Holders) - 1 + 1
      BY <3>1, <3>2, FS_AddElement
    <3> QED BY <2>5, <3>3, HoldersAreFinite
  <2>7. PermitsTyped'
    BY <2>1, <2>3, <2>4 DEF PermitsTyped
  <2>8. /\ available' + Cardinality(Holders') = MaxConcurrent
        /\ ToSet(line') = Waiters' /\ IsInjective(line') /\ available' = 0
    BY <1>3, <1>5, <2>1, <2>3, <2>5, <2>6
  <2> QED BY <2>7, <2>8 DEF PermitsAreAccountedFor, Holders, Waiters
<1> QED BY <1>4, <1>5

\* A waiter leaves the line, and nobody notices.
LEMMA LeavingKeeps ==
    ASSUME Permits, NEW c \in Callers, At(c, "wait"), Leaves(c),
           call' = [call EXCEPT ![c] = NoCall], available' = available
    PROVE  Permits'
<1> USE DEF Permits
<1>1. /\ IsInjective(line) /\ ToSet(line) = Waiters /\ (line # << >> => available = 0)
      /\ available + Cardinality(Holders) = MaxConcurrent
  BY DEF PermitsAreAccountedFor, Holders, Waiters
<1>2. PICK k \in DOMAIN line : line[k] = c /\ line' = RemoveAt(line, k)
  BY DEF Leaves
<1>3. /\ line' \in Seq(Callers) /\ IsInjective(line') /\ ToSet(line') = Waiters \ {c}
  BY <1>1, <1>2, RemovedFromLine DEF PermitsTyped
<1>4. line # << >>
  BY <1>2
<1>5. /\ call' \in [Callers -> [pc : Stages, attempt : Nat]]
      /\ Holders' = Holders \ {c} /\ Waiters' = Waiters \ {c}
  BY StageOf DEF NoCall, Stages, Outside
<1>6. c \notin Holders
  BY DEF Holders, Holds, At
<1>7. Holders' = Holders
  BY <1>5, <1>6
<1>8. PermitsTyped'
  BY <1>3, <1>5 DEF PermitsTyped
<1> QED BY <1>1, <1>3, <1>4, <1>5, <1>7, <1>8 DEF PermitsAreAccountedFor, Holders, Waiters

\* A call goes on without a change of its permit.
LEMMA StayingKeeps ==
    ASSUME Permits, NEW c \in Callers, NEW r \in [pc : Stages, attempt : Nat],
           r.pc # "wait", call[c].pc # "wait",
           r.pc \in {"try", "backoff"} <=> Holds(c),
           call' = [call EXCEPT ![c] = r], UNCHANGED << line, available >>
    PROVE  Permits'
<1> USE DEF Permits
<1>1. /\ call' \in [Callers -> [pc : Stages, attempt : Nat]]
      /\ Holders' = IF r.pc \in {"try", "backoff"} THEN Holders \cup {c} ELSE Holders \ {c}
      /\ Waiters' = Waiters \ {c}
  BY StageOf
<1>2. Holders' = Holders
  BY <1>1 DEF Holders
<1>3. Waiters' = Waiters
  BY <1>1 DEF Waiters, At
<1>4. PermitsTyped'
  BY <1>1 DEF PermitsTyped
<1> QED BY <1>2, <1>3, <1>4 DEF PermitsAreAccountedFor, Holders, Waiters

-----------------------------------------------------------------------------
(***************************************************************************)
(* The two invariants.                                                     *)
(***************************************************************************)

\* What a success is about to take back is a failure, and what the prober
\* reads with the model off the card is that.
Health ==
    /\ shaken \in BOOLEAN
    /\ seen = "cpu-only" /\ ~shaken => status = "cpu-only" /\ probe \in {"none", "cpu-only"}
    /\ seen = "cpu-only" /\ (\E c \in Callers : At(c, "clear")) => shaken

ClientSound == Permits /\ Health

LEMMA SoundAtFirst == PermitInit => ClientSound
<1> SUFFICES ASSUME PermitInit PROVE ClientSound
    OBVIOUS
<1>1. PermitsTyped
  <2>1. << >> \in Seq(Callers)
    BY EmptySeq
  <2> QED BY <2>1, OllamaAssumption DEF PermitInit, PermitsTyped, NoCall, Stages, Outside
<1>2. Holders = {} /\ Waiters = {}
  BY DEF PermitInit, NoCall, Holders, Holds, Waiters, At
<1>3. Cardinality({}) = 0
  BY FS_EmptySet
<1>4. ToSet(<< >>) = {} /\ IsInjective(<< >>)
  BY DEF ToSet, IsInjective
<1>5. PermitsAreAccountedFor
  <2>1. line = << >> /\ available = MaxConcurrent /\ MaxConcurrent + 0 = MaxConcurrent
    BY OllamaAssumption DEF PermitInit
  <2>2. ToSet(line) = Waiters /\ IsInjective(line)
    BY <1>2, <1>4, <2>1
  <2>3. available + Cardinality(Holders) = MaxConcurrent
    BY <1>2, <1>3, <2>1
  <2> QED BY <2>1, <2>2, <2>3 DEF PermitsAreAccountedFor, Holders, Waiters
<1>6. Health
  BY DEF PermitInit, Health, NoCall, At
<1> QED BY <1>1, <1>5, <1>6 DEF ClientSound, Permits

\* The steps of a call that leave the health alone and reach no "clear".
LEMMA HealthIsLeft ==
    ASSUME Health, UNCHANGED << status, probe, seen, shaken >>,
           \A c \in Callers : call'[c].pc = "clear" => call[c].pc = "clear"
    PROVE  Health'
BY DEF Health, At

LEMMA CallsKeepPermits ==
    ASSUME Permits, NEW c \in Callers,
           \/ Acquire(c) \/ GiveUp(c) \/ Replies(c) \/ Refused(c) \/ Retry(c) \/ Fails(c)
           \/ Dropped(c) \/ NoteFailed(c) \/ NoteSucceeded(c) \/ ClearFailing(c)
    PROVE  Permits'
<1>t. call \in [Callers -> [pc : Stages, attempt : Nat]]
  BY DEF Permits, PermitsTyped
<1>g. ASSUME NEW pc \in Stages
      PROVE  /\ [call[c] EXCEPT !.pc = pc] \in [pc : Stages, attempt : Nat]
             /\ [call[c] EXCEPT !.pc = pc].pc = pc
             /\ Go(c, pc) = [call EXCEPT ![c] = [call[c] EXCEPT !.pc = pc]]
  BY <1>t DEF Go
<1>n. NoCall \in [pc : Outside, attempt : Nat] /\ NoCall \in [pc : Stages, attempt : Nat]
      /\ NoCall.pc = "none"
  BY DEF NoCall, Outside, Stages
<1>1. CASE Acquire(c)
  <2>0. /\ call[c].pc = "none" /\ c \notin Holders /\ c \notin Waiters
        /\ IsInjective(line) /\ ToSet(line) = Waiters /\ (line # << >> => available = 0)
        /\ available + Cardinality(Holders) = MaxConcurrent
    BY <1>1 DEF Acquire, Permits, PermitsAreAccountedFor, Holders, Holds, Waiters, At
  <2>1. CASE available > 0 /\ available' = available - 1 /\ call' = Go(c, "try") /\ line' = line
    <3> DEFINE r == [call[c] EXCEPT !.pc = "try"]
    <3>0. /\ r \in [pc : Stages, attempt : Nat] /\ r.pc = "try"
          /\ call' = [call EXCEPT ![c] = r]
      BY <1>t, <2>1 DEF Go, Stages
    <3> HIDE DEF r
    <3>1. /\ call' \in [Callers -> [pc : Stages, attempt : Nat]]
          /\ Holders' = Holders \cup {c} /\ Waiters' = Waiters \ {c}
      BY <3>0, StageOf DEF Permits
    <3>2. Cardinality(Holders') = Cardinality(Holders) + 1
      BY <2>0, <3>1, FS_AddElement, HoldersAreFinite
    <3>3. available' \in Nat /\ available' + Cardinality(Holders') = MaxConcurrent
      <4>1. available \in Nat /\ Cardinality(Holders) \in Nat
        BY HoldersAreFinite DEF Permits, PermitsTyped
      <4> QED BY <2>0, <2>1, <3>2, <4>1
    <3>4. line = << >> /\ Waiters' = Waiters
      BY <2>0, <2>1, <3>1
    <3> QED BY <2>0, <2>1, <3>1, <3>3, <3>4
            DEF Permits, PermitsTyped, PermitsAreAccountedFor, Holders, Waiters
  <2>2. CASE available = 0 /\ line' = Joined(c) /\ call' = Go(c, "wait") /\ available' = available
    <3> DEFINE r == [call[c] EXCEPT !.pc = "wait"]
    <3>0. /\ r \in [pc : Stages, attempt : Nat] /\ r.pc = "wait"
          /\ call' = [call EXCEPT ![c] = r]
      BY <1>t, <2>2 DEF Go, Stages
    <3> HIDE DEF r
    <3>1. /\ call' \in [Callers -> [pc : Stages, attempt : Nat]]
          /\ Holders' = Holders \ {c} /\ Waiters' = Waiters \cup {c}
      BY <3>0, StageOf DEF Permits
    <3>2. Holders' = Holders
      BY <2>0, <3>1
    <3>3. line' \in Seq(Callers) /\ IsInjective(line') /\ ToSet(line') = Waiters'
      <4>1. line \in Seq(Callers) /\ c \in Callers \ ToSet(line)
        BY <2>0 DEF Permits, PermitsTyped
      <4> QED BY <2>0, <2>2, <3>1, <4>1, JoinedToLine DEF Joined
    <3> QED BY <2>0, <2>2, <3>1, <3>2, <3>3
            DEF Permits, PermitsTyped, PermitsAreAccountedFor, Holders, Waiters
  <2> QED BY <1>1, <2>1, <2>2 DEF Acquire
<1>2. CASE GiveUp(c)
  BY <1>2, LeavingKeeps DEF GiveUp
<1>3. CASE Replies(c)
  <2>1. Holds(c) /\ Release([call EXCEPT ![c] = [call[c] EXCEPT !.pc = "won"]])
    <3>1. At(c, "try") /\ Release(Go(c, "won"))
      BY <1>3 DEF Replies
    <3> QED BY <3>1 DEF Go, Holds, At
  <2>2. [call[c] EXCEPT !.pc = "won"] \in [pc : Outside, attempt : Nat]
    BY <1>t DEF Outside
  <2> QED BY <2>1, <2>2, ReleaseKeeps
<1>4. CASE Refused(c)
  <2>1. call' = Go(c, "backoff") /\ call[c].pc = "try" /\ UNCHANGED << line, available >>
    BY <1>4 DEF Refused, At
  <2> DEFINE r == [call[c] EXCEPT !.pc = "backoff"]
  <2>2. /\ r \in [pc : Stages, attempt : Nat] /\ r.pc = "backoff"
        /\ call' = [call EXCEPT ![c] = r]
    BY <1>t, <2>1 DEF Go, Stages
  <2> HIDE DEF r
  <2> QED BY <2>1, <2>2, StayingKeeps DEF Holds
<1>5. CASE Retry(c)
  <2> DEFINE r == [pc |-> "try", attempt |-> call[c].attempt + 1]
  <2>1. call' = [call EXCEPT ![c] = r] /\ call[c].pc = "backoff" /\ UNCHANGED << line, available >>
    BY <1>5 DEF Retry, At
  <2>2. r \in [pc : Stages, attempt : Nat] /\ r.pc = "try"
    BY <1>t DEF Stages
  <2> HIDE DEF r
  <2> QED BY <2>1, <2>2, StayingKeeps DEF Holds
<1>6. CASE Fails(c)
  <2>1. Holds(c) /\ Release([call EXCEPT ![c] = [call[c] EXCEPT !.pc = "lost"]])
    BY <1>6 DEF Fails, Go
  <2>2. [call[c] EXCEPT !.pc = "lost"] \in [pc : Outside, attempt : Nat]
    BY <1>t DEF Outside
  <2> QED BY <2>1, <2>2, ReleaseKeeps
<1>7. CASE Dropped(c)
  <2>1. CASE Holds(c) /\ Release([call EXCEPT ![c] = NoCall])
    BY <2>1, <1>n, ReleaseKeeps
  <2>2. CASE At(c, "wait") /\ Leaves(c) /\ call' = [call EXCEPT ![c] = NoCall]
             /\ UNCHANGED available
    BY <2>2, LeavingKeeps
  <2> QED BY <1>7, <2>1, <2>2 DEF Dropped
<1>8. CASE NoteFailed(c)
  <2>1. /\ call' = [call EXCEPT ![c] = NoCall] /\ call[c].pc = "lost"
        /\ UNCHANGED << line, available >>
    BY <1>8 DEF NoteFailed, At
  <2> QED BY <1>n, <2>1, StayingKeeps DEF Holds
<1>9. CASE NoteSucceeded(c)
  <2>1. /\ call[c].pc = "won" /\ UNCHANGED << line, available >>
        /\ call' = Go(c, "clear") \/ call' = [call EXCEPT ![c] = NoCall]
    BY <1>9 DEF NoteSucceeded, At
  <2>2. CASE call' = Go(c, "clear")
    <3> DEFINE r == [call[c] EXCEPT !.pc = "clear"]
    <3>1. call' = [call EXCEPT ![c] = r]
      BY <2>2 DEF Go
    <3>2. r \in [pc : Stages, attempt : Nat] /\ r.pc = "clear"
      BY <1>t DEF Stages, Outside
    <3> HIDE DEF r
    <3> QED BY <2>1, <3>1, <3>2, StayingKeeps DEF Holds
  <2>3. CASE call' = [call EXCEPT ![c] = NoCall]
    BY <1>n, <2>1, <2>3, StayingKeeps DEF Holds
  <2> QED BY <2>1, <2>2, <2>3
<1>10. CASE ClearFailing(c)
  <2>1. /\ call' = [call EXCEPT ![c] = NoCall] /\ call[c].pc = "clear"
        /\ UNCHANGED << line, available >>
    BY <1>10 DEF ClearFailing, At
  <2> QED BY <1>n, <2>1, StayingKeeps DEF Holds
<1> QED BY <1>1, <1>2, <1>3, <1>4, <1>5, <1>6, <1>7, <1>8, <1>9, <1>10

LEMMA CallsKeepHealth ==
    ASSUME ClientSound, NEW c \in Callers,
           \/ Acquire(c) \/ GiveUp(c) \/ Replies(c) \/ Refused(c) \/ Retry(c) \/ Fails(c)
           \/ Dropped(c) \/ NoteFailed(c) \/ NoteSucceeded(c) \/ ClearFailing(c)
    PROVE  Health'
<1>t. call \in [Callers -> [pc : Stages, attempt : Nat]]
  BY DEF ClientSound, Permits, PermitsTyped
<1>h. Health
  BY DEF ClientSound
<1>w. ASSUME NEW calls \in [Callers -> [pc : Stages, attempt : Nat]], Release(calls),
             \A d \in Callers : calls[d].pc = "clear" => call[d].pc = "clear"
      PROVE  \A d \in Callers : call'[d].pc = "clear" => call[d].pc = "clear"
  <2>1. call' = calls \/ call' = [calls EXCEPT ![Head(line)].pc = "try"]
    BY <1>w DEF Release, Wakes
  <2>2. \A d \in Callers : [calls EXCEPT ![Head(line)].pc = "try"][d].pc \in {"try", calls[d].pc}
    OBVIOUS
  <2> QED BY <1>w, <2>1, <2>2
<1>1. CASE \/ Acquire(c) \/ GiveUp(c) \/ Refused(c) \/ Retry(c)
  <2>1. \A d \in Callers : call'[d].pc = "clear" => call[d].pc = "clear"
    BY <1>1, <1>t DEF Acquire, GiveUp, Refused, Retry, Go, NoCall
  <2> QED BY <1>1, <1>h, <2>1, HealthIsLeft DEF Acquire, GiveUp, Refused, Retry
<1>2. CASE Replies(c) \/ Fails(c)
  <2>1. PICK pc \in Outside \ {"clear"} : Release(Go(c, pc))
    BY <1>2 DEF Replies, Fails, Outside
  <2>2. /\ Go(c, pc) \in [Callers -> [pc : Stages, attempt : Nat]]
        /\ \A d \in Callers : Go(c, pc)[d].pc = "clear" => call[d].pc = "clear"
    BY <1>t, <2>1 DEF Go, Stages, Outside
  <2>3. \A d \in Callers : call'[d].pc = "clear" => call[d].pc = "clear"
    BY <1>w, <2>1, <2>2
  <2> QED BY <1>2, <1>h, <2>3, HealthIsLeft DEF Replies, Fails
<1>3. CASE Dropped(c)
  <2> DEFINE gone == [call EXCEPT ![c] = NoCall]
  <2>1. /\ gone \in [Callers -> [pc : Stages, attempt : Nat]]
        /\ \A d \in Callers : gone[d].pc = "clear" => call[d].pc = "clear"
    BY <1>t DEF NoCall, Stages, Outside
  <2>2. Release(gone) \/ call' = gone
    BY <1>3 DEF Dropped
  <2> HIDE DEF gone
  <2>3. \A d \in Callers : call'[d].pc = "clear" => call[d].pc = "clear"
    BY <1>w, <2>1, <2>2
  <2> QED BY <1>3, <1>h, <2>3, HealthIsLeft DEF Dropped
<1>4. CASE NoteFailed(c)
  BY <1>4 DEF NoteFailed, Health
<1>5. CASE NoteSucceeded(c)
  <2>1. UNCHANGED << status, probe, seen, shaken >>
    BY <1>5 DEF NoteSucceeded
  <2>2. CASE status = "failing"
    <3>1. ~(seen = "cpu-only" /\ ~shaken)
      BY <1>h, <2>2 DEF Health
    <3> QED BY <1>h, <2>1, <3>1 DEF Health
  <2>3. CASE status # "failing"
    <3>1. call' = [call EXCEPT ![c] = NoCall]
      BY <1>5, <2>3 DEF NoteSucceeded, Clears
    <3>2. \A d \in Callers : call'[d].pc = "clear" => call[d].pc = "clear"
      BY <1>t, <3>1 DEF NoCall
    <3> QED BY <1>h, <2>1, <3>2, HealthIsLeft
  <2> QED BY <2>2, <2>3
<1>6. CASE ClearFailing(c)
  <2>1. /\ call' = [call EXCEPT ![c] = NoCall] /\ At(c, "clear")
        /\ UNCHANGED << probe, seen, shaken >>
    BY <1>6 DEF ClearFailing
  <2>2. ~(seen = "cpu-only" /\ ~shaken)
    BY <1>h, <2>1 DEF Health
  <2> QED BY <1>h, <2>1, <2>2 DEF Health
<1> QED BY <1>1, <1>2, <1>3, <1>4, <1>5, <1>6

LEMMA ProbesKeepSound ==
    ASSUME ClientSound, ProbeBegins \/ ProbeEnds
    PROVE  ClientSound'
<1>1. UNCHANGED << available, line, call >>
  BY DEF ProbeBegins, ProbeEnds
<1>2. Permits'
  BY <1>1 DEF ClientSound, Permits, PermitsTyped, PermitsAreAccountedFor, Holds, At
<1>3. CASE ProbeBegins
  BY <1>1, <1>2, <1>3 DEF ProbeBegins, ClientSound, Health, At
<1>4. CASE ProbeEnds
  <2>1. PICK reachable \in BOOLEAN, loaded \in Loaded :
          /\ status' = FoldObservation(probe, reachable, loaded)
          /\ seen' = CASE ~reachable -> "nothing"
                       [] reachable /\ loaded # "nothing" -> loaded
                       [] OTHER -> seen
          /\ shaken' = IF reachable /\ loaded # "nothing"
                       THEN \E c \in Callers : At(c, "clear") ELSE shaken
    BY <1>4 DEF ProbeEnds
  <2>2. probe # "none" /\ probe' = "none" /\ Health
    BY <1>4 DEF ProbeEnds, ClientSound
  <2>3. CASE ~reachable
    BY <1>2, <2>1, <2>2, <2>3 DEF ClientSound, Health
  <2>4. CASE reachable /\ loaded # "nothing"
    BY <1>1, <1>2, <2>1, <2>2, <2>4 DEF ClientSound, Health, FoldObservation, At
  <2>5. CASE reachable /\ loaded = "nothing"
    BY <1>1, <1>2, <2>1, <2>2, <2>5 DEF ClientSound, Health, FoldObservation, At
  <2>6. reachable \in BOOLEAN
    BY <2>1
  <2> QED BY <2>3, <2>4, <2>5, <2>6
<1> QED BY <1>2, <1>3, <1>4 DEF ClientSound

\* The invariant behind the one below: besides the count of the permits, that
\* whoever is about to take a failure back has seen one, and that a probe that
\* runs while the model is off the card has read that.
THEOREM PermitsAreSound == PermitSpec => []ClientSound
<1>1. PermitInit => ClientSound
  BY SoundAtFirst
<1>2. ClientSound /\ [PermitNext]_permitVars => ClientSound'
  <2> SUFFICES ASSUME ClientSound, [PermitNext]_permitVars PROVE ClientSound'
    OBVIOUS
  <2>1. ASSUME NEW c \in Callers, Acquire(c) \/ GiveUp(c) \/ Proceeds(c) \/ Dropped(c)
        PROVE  ClientSound'
    <3>1. \/ Acquire(c) \/ GiveUp(c) \/ Replies(c) \/ Refused(c) \/ Retry(c) \/ Fails(c)
          \/ Dropped(c) \/ NoteFailed(c) \/ NoteSucceeded(c) \/ ClearFailing(c)
      BY <2>1 DEF Proceeds
    <3> QED BY <3>1, CallsKeepPermits, CallsKeepHealth DEF ClientSound
  <2>2. CASE ProbeBegins \/ ProbeEnds
    BY <2>2, ProbesKeepSound
  <2>3. CASE UNCHANGED permitVars
    BY <2>3 DEF permitVars, ClientSound, Health, Permits, PermitsTyped, PermitsAreAccountedFor,
                Holds, At
  <2> QED BY <2>1, <2>2, <2>3 DEF PermitNext
<1> QED BY <1>1, <1>2, PTL DEF PermitSpec

\* Whatever is dropped, times out or fails, every permit is free or with one
\* call, none is free while a caller waits, and the model seen off the card is
\* shown so until it is seen on it, or gone, or a call fails (ollama.rs,
\* chat_json_inner and fold_observation).
THEOREM ModelStaysAccountedFor == PermitSpec => []ModelIsAccountedFor
<1>1. ClientSound => ModelIsAccountedFor
  BY DEF ClientSound, Permits, Health, ModelIsAccountedFor, OffCardIsShown
<1> QED BY <1>1, PermitsAreSound, PTL

=============================================================================
