-------------------------------- MODULE Recall --------------------------------
(***************************************************************************)
(* One recall (memgardend routes/recall.rs, recall/): four arms are        *)
(* searched, their rows read, fused, ranked, stripped of what is said      *)
(* twice and cut to a budget; when the bank has nothing, the fallback      *)
(* banks are asked the same.                                               *)
(*                                                                         *)
(* Every statement reads the table as it is then, while facts are          *)
(* retracted, deleted and written under the rowids of deleted ones.  What  *)
(* an arm finds, how near it is and how the scores order it is arbitrary:  *)
(* nothing here depends on it.                                             *)
(***************************************************************************)
EXTENDS Integers, Sequences, FiniteSets, SequencesExt, FiniteSetsExt, Selections

CONSTANTS Home,           \* the bank asked
          FallbackBanks,  \* recall.fallback_banks, a sequence
          TableAtFirst,   \* rowid -> bank, kind (type and tags), text, tokens, words:
                          \* the text but for its spacing
          TextOfNew,      \* what is written under a rowid freed
          Limit, MaxTokens, FallbackLimit, FallbackFloor, \* of the configuration
          Nearest,        \* the levels of a semantic score, 0 where there is none
          Seeds, TopK,    \* GRAPH_SEEDS, reranker.top_k
          MaxChanges      \* bound: changes of the table during a request

Rowid == DOMAIN TableAtFirst
FactRows == {i \in Rowid : TableAtFirst[i].kind = "fact"}

Texts == ToSet(TableAtFirst) \cup {TextOfNew}

ASSUME RecallAssumption ==
    /\ Rowid \subseteq Nat /\ IsFiniteSet(Rowid)
    /\ FallbackBanks \in Seq(ToSet(FallbackBanks))
    /\ \A t \in Texts : t.tokens \in Nat
    /\ \A t, u \in Texts : t.text = u.text => t.words = u.words
    /\ {Limit, MaxTokens, FallbackLimit, FallbackFloor, Nearest, Seeds, TopK, MaxChanges} \subseteq Nat
    /\ FallbackFloor \in 0 .. Nearest

VARIABLES table,    \* rowid -> the row, its uuid, its sources, whether it is
                    \* live: neither retracted nor expired
          ask,      \* the request
          changes

recallVars == << table, ask, changes >>

\* A request's parameters (RecallParams), what its arms found and read, and
\* what is made of it for the bank at hand and in the end.
NoRequest == [pc |-> "none", bank |-> Home, embedded |-> FALSE, floor |-> 0, kinds |-> {},
              exclude |-> {}, near |-> << >>, hits |-> {}, read |-> << >>,
              ranked |-> << >>, kept |-> << >>, items |-> << >>, left |-> << >>]

\* A row as it is written, and a function with what another adds to it.
NewRow(uuid, bank, kind, sources, t) ==
    [uuid |-> uuid, bank |-> bank, kind |-> kind, sources |-> sources, live |-> TRUE,
     text |-> t.text, words |-> t.words, tokens |-> t.tokens]
Beside(f, g) == [x \in DOMAIN f \cup DOMAIN g |-> IF x \in DOMAIN f THEN f[x] ELSE g[x]]

InBank(b) == {i \in DOMAIN table : table[i].bank = b}
RankOf(s, x) == CHOOSE k \in DOMAIN s : s[k] = x

----------------------------------------------------------------------------
(* The table under the request *)

\* Between two statements of a bank's recall; what changes at another time is
\* another table at first.
Asking == ask.pc \in {"hydrate", "expand", "extend"}

Retract ==
    /\ Asking /\ changes < MaxChanges /\ changes' = changes + 1
    /\ \E i \in DOMAIN table : table[i].live /\ table' = [table EXCEPT ![i].live = FALSE]
    /\ UNCHANGED ask

\* A fact is deleted and its rowid given to a new one, of any bank.
Reuse ==
    /\ Asking /\ changes < MaxChanges /\ changes' = changes + 1
    /\ \E i \in FactRows, b \in {Home} \cup ToSet(FallbackBanks) :
          table' = [j \in DOMAIN table |->
                      IF j = i THEN NewRow(100 + i, b, "fact", {}, TextOfNew)
                      ELSE [table[j] EXCEPT !.sources = @ \ {i}]]
    /\ UNCHANGED ask

----------------------------------------------------------------------------
(* The arms *)

\* recall_inner: the request, once it is found valid and its bank there.  The
\* embedder may still be loading.
AskRecall ==
    /\ ask.pc = "none"
    /\ \E embedded \in BOOLEAN, floor \in 0 .. Nearest, kinds \in {{"fact"}, {"fact", "observation"}},
          exclude \in {{}} \cup {{table[i].uuid} : i \in DOMAIN table} :
          ask' = [ask EXCEPT !.pc = "search", !.embedded = embedded, !.floor = floor,
                             !.kinds = kinds, !.exclude = exclude]
    /\ UNCHANGED << table, changes >>

\* knn: some of the bank's rows, with their scores.
Semantic == IF ask.embedded THEN UNION {[found -> 0 .. Nearest] : found \in SUBSET InBank(ask.bank)}
            ELSE {<< >>}
\* fts_candidates_filtered: the one arm that looks at the kind in its statement.
Keyword == SUBSET {i \in InBank(ask.bank) : table[i].kind \in ask.kinds}
\* temporal_candidates, when the query names a time.
Temporal == SUBSET InBank(ask.bank)

\* The three statements, over rows retracted or not, and the ids they give.
Search ==
    /\ ask.pc = "search"
    /\ \E semantic \in Semantic, keyword \in Keyword, temporal \in Temporal :
          LET found == DOMAIN semantic \cup keyword \cup temporal IN
          ask' = [ask EXCEPT !.pc = "hydrate", !.ranked = << >>, !.kept = << >>,
                             !.near = Beside(semantic, [i \in found |-> 0])]
    /\ UNCHANGED << table, changes >>

\* The rows are read whether or not they were retracted.
MutReadAll(ids) == [i \in ids \cap InBank(ask.bank) |-> table[i]]
\* hydrate: of these rows the live ones of the bank (its three statements as
\* one).
Hydrated(ids) == [i \in {j \in ids \cap InBank(ask.bank) : table[j].live} |-> table[i]]

Hydrate ==
    /\ ask.pc = "hydrate"
    /\ ask' = [ask EXCEPT !.pc = "expand", !.read = Hydrated(DOMAIN ask.near)]
    /\ UNCHANGED << table, changes >>

\* keep, of what the arms found
Keep(ids) == {i \in ids \cap DOMAIN ask.read : ask.read[i].kind \in ask.kinds}

\* reciprocal_rank_fusion of the three arms: its first rows.
SeedSets == LET kept == Keep(DOMAIN ask.near) IN kSubset(Min({Seeds, Cardinality(kept)}), kept)
\* graph::expand: neighbours by a link or an entity, none of them a seed.
Neighbours(seeds) == SUBSET (InBank(ask.bank) \ seeds)

\* graph::arm
Expand ==
    /\ ask.pc = "expand"
    /\ IF Keep(DOMAIN ask.near) = {} THEN ask' = [ask EXCEPT !.pc = "rank", !.hits = {}]
       ELSE \E seeds \in SeedSets : \E hits \in Neighbours(seeds) :
               ask' = [ask EXCEPT !.pc = "extend", !.hits = hits]
    /\ UNCHANGED << table, changes >>

\* The rows of new neighbours are read, the others' stay as they were.
Extend ==
    /\ ask.pc = "extend"
    /\ ask' = [ask EXCEPT !.pc = "rank", !.read = Beside(@, Hydrated(ask.hits \ DOMAIN @))]
    /\ UNCHANGED << table, changes >>

----------------------------------------------------------------------------
(* Scores and cuts *)

\* What is scored: all that was found, or, when the reranker answers, its top_k.
Scored ==
    LET ids == Keep(DOMAIN ask.near \cup ask.hits) IN
    {ids} \cup kSubset(Min({TopK, Cardinality(ids)}), ids)
\* The orders of the scores.
Rankings == UNION {SetToSeqs(ids) : ids \in Scored}

SourcesIn(s, i) == ask.read[i].sources \cap ToSet(s)
\* Pair by pair: the lower end of each goes.
MutPairwise(s) ==
    {i \in ToSet(s) : \E j \in ToSet(s) : /\ i \in SourcesIn(s, j) \/ j \in SourcesIn(s, i)
                                          /\ RankOf(s, j) < RankOf(s, i)}
\* dedupe_restatements: an observation above all its sources stands for them,
\* any other goes.
Restated(s) ==
    LET observations == {i \in ToSet(s) : SourcesIn(s, i) # {}}
        stands == {i \in observations : \A j \in SourcesIn(s, i) : RankOf(s, i) <= RankOf(s, j)}
    IN  (observations \ stands) \cup UNION {SourcesIn(s, i) : i \in stands}

\* dedupe_identical_text: the first of each wording.
Worded(s) ==
    Picked(s, {n \in DOMAIN s : \A k \in DOMAIN s :
                  ask.read[s[k]].words = ask.read[s[n]].words => n <= k})

FirstOf(s, n) == SubSeq(s, 1, Min({n, Len(s)}))
Tokens(items) == FoldSeq(LAMBDA t, total : t.row.tokens + total, 0, items)
\* Looks at the total before the text.
MutFitLate(items, max) == Max({0} \cup {n \in 1 .. Len(items) : Tokens(FirstOf(items, n - 1)) <= max})
\* fit_to_budget: how many leading texts fit.
Fit(items, max) == Max({n \in 0 .. Len(items) : Tokens(FirstOf(items, n)) <= max})
\* rerank_limit is never below the 200 of limit.
FitItems(items, limit) == FirstOf(items, Min({Fit(items, MaxTokens), limit}))

\* A row and its semantic score, 0 for none.
Item(i) == [row |-> ask.read[i], near |-> IF i \in DOMAIN ask.near THEN ask.near[i] ELSE 0]

\* withhold_below_floor
AboveFloor(items, floor) ==
    Picked(items, {n \in DOMAIN items : floor > 0 => items[n].near >= floor})
Unknown(items) ==
    Picked(items, {n \in DOMAIN items : items[n].row.uuid \notin ask.exclude})
\* The exclusions and the floor come behind the fit; without an embedded query
\* there is no floor.
Withheld(items, floor) == AboveFloor(Unknown(items), IF ask.embedded THEN floor ELSE 0)

\* recall of one bank: its ranking, what is left of it, its items.
Outcomes(floor, limit) ==
    {LET gone == Restated(s)
         left == Picked(s, {n \in DOMAIN s : s[n] \notin gone})
         worded == Worded(left)
         fit == FitItems([k \in DOMAIN worded |-> Item(worded[k])], limit)
     IN  [ranked |-> s, left |-> left, items |-> Withheld(fit, floor),
          excluded |-> Unknown(fit) # fit]
     : s \in Rankings}

\* The fallback goes to other banks only.
Others == Picked(FallbackBanks, {n \in DOMAIN FallbackBanks : FallbackBanks[n] # Home})

\* The bank asked: its answer, or nothing and the fallback banks, not when
\* something of it was withheld as known.
RankHome ==
    /\ ask.pc = "rank" /\ ask.bank = Home
    /\ \E o \in Outcomes(ask.floor, Limit), wanted \in BOOLEAN :
          LET fallback == o.items = << >> /\ ~o.excluded /\ Others # << >> /\ wanted IN
          ask' = [ask EXCEPT !.pc = IF fallback THEN "search" ELSE "answered",
                             !.bank = IF fallback THEN Head(Others) ELSE Home,
                             !.left = IF fallback THEN Tail(Others) ELSE << >>,
                             !.ranked = o.ranked, !.kept = o.left, !.items = o.items]
    /\ UNCHANGED << table, changes >>

FloorElsewhere == Max({FallbackFloor, ask.floor})

\* The fallback banks' items: near ones only, even when the query has no
\* embedding, the nearest first, no row and no text twice, cut again.
Merged(items) ==
    LET floored == AboveFloor(items, FloorElsewhere)
        places == DOMAIN floored
        nearer == {m \in places \X places : \/ floored[m[1]].near > floored[m[2]].near
                                           \/ /\ floored[m[1]].near = floored[m[2]].near
                                              /\ m[1] < m[2]}
        order == InOrder(places, nearer)
        sorted == [n \in DOMAIN order |-> floored[order[n]]]
        unique == Picked(sorted, {n \in DOMAIN sorted : \A l \in 1 .. n - 1 :
                     /\ sorted[l].row.text # sorted[n].row.text
                     /\ sorted[l].row.uuid # sorted[n].row.uuid})
    IN  FitItems(unique, FallbackLimit)

\* recall_fallback, one bank; one that is not there or fails is skipped.
RankFallback ==
    /\ ask.pc = "rank" /\ ask.bank # Home
    /\ \E o \in Outcomes(FloorElsewhere, FallbackLimit), fails \in BOOLEAN :
          LET items == ask.items \o (IF fails THEN << >> ELSE o.items) IN
          ask' = IF ask.left = << >>
                 THEN [ask EXCEPT !.pc = "answered", !.items = Merged(items),
                                  !.ranked = o.ranked, !.kept = o.left]
                 ELSE [ask EXCEPT !.pc = "search", !.bank = Head(ask.left), !.left = Tail(ask.left),
                                  !.items = items, !.ranked = o.ranked, !.kept = o.left]
    /\ UNCHANGED << table, changes >>

\* Observations stand on any facts of their bank.
RecallInit ==
    /\ \E sources \in [Rowid -> SUBSET FactRows] :
          /\ \A i \in Rowid : /\ i \in FactRows => sources[i] = {}
                              /\ \A j \in sources[i] : TableAtFirst[j].bank = TableAtFirst[i].bank
          /\ table = [i \in Rowid |-> NewRow(i, TableAtFirst[i].bank, TableAtFirst[i].kind,
                                             sources[i], TableAtFirst[i])]
    /\ ask = NoRequest
    /\ changes = 0

RecallNext ==
    \/ Retract \/ Reuse
    \/ AskRecall \/ Search \/ Hydrate \/ Expand \/ Extend \/ RankHome \/ RankFallback

RecallSpec == RecallInit /\ [][RecallNext]_recallVars

----------------------------------------------------------------------------
(* Properties *)

\* What goes into a prompt is within its budget and its limit, is of the bank
\* asked or, near enough, of another, was live when it was read, is not what
\* the client has and not twice the same: over two reads of a table that
\* changes between them and after the searches, and over several banks whose
\* answers were each cut already.
AnswerFits ==
    ask.pc = "answered" =>
        /\ Tokens(ask.items) <= MaxTokens
        /\ \A k \in DOMAIN ask.items :
              LET t == ask.items[k] IN
              /\ t.row.live /\ t.row.kind \in ask.kinds /\ t.row.uuid \notin ask.exclude
              /\ IF t.row.bank = Home THEN k <= Limit /\ (ask.embedded => t.near >= ask.floor)
                 ELSE /\ k <= FallbackLimit /\ t.near >= Max({FallbackFloor, ask.floor})
                      /\ \A l \in DOMAIN ask.items : ask.items[l].row.bank # Home
              /\ \A l \in DOMAIN ask.items \ {k} : ask.items[l].row.text # t.row.text

\* An observation and a fact it was built from are never both left in a
\* ranking, and, as long as no two observations of it stand on one fact,
\* whichever goes is stood for by one that stays: "either the observation
\* outranks every source it has and stands in for all of them, or it does not
\* and they all stay".
RestatedOnce ==
    LET left == ToSet(ask.kept)
        ranked == ToSet(ask.ranked)
        apart == \A i, j \in ranked :
                    i # j => SourcesIn(ask.ranked, i) \cap SourcesIn(ask.ranked, j) = {}
    IN  \A i \in ranked :
           LET sources == SourcesIn(ask.ranked, i) IN
           IF i \in left THEN sources \cap left = {}
           ELSE apart => \/ sources \cap left # {}
                         \/ \E o \in left : i \in SourcesIn(ask.ranked, o)

\* Both: what is given back fits what was asked, and says a thing once.
AnswerIsSound == AnswerFits /\ RestatedOnce

=============================================================================
