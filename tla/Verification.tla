----------------------------- MODULE Verification -----------------------------
(***************************************************************************)
(* `mg-migrate verify` (memgardend migrate/verify.rs): a snapshot of       *)
(* legacy banks compared with the database it was imported into, by        *)
(* counts, by the rules of the import, and by the contents of a sample.    *)
(*                                                                         *)
(* Migration models the import; here it is done, and the database is right *)
(* or differs from the snapshot in a few places.  A row's position is its  *)
(* id.  A text stands for the wording, the type and the context, a day for *)
(* all the dates.  A bank whose archive is empty is left out, there too.   *)
(***************************************************************************)
EXTENDS Integers, Sequences, SequencesExt, FiniteSets, Functions

CONSTANTS ArchiveBank, \* a sequence of banks: the directories of the snapshot, sorted
          ArchiveDocs,  \* of each its documents, those without a fact too,
          ArchiveFacts, \* its facts: [key: <<document, index>>, text, tags, names: entities,
                        \*    day, causes: keys, the fact's own among them or not]
          ArchiveObs,   \* and its observations: [sources: a sequence of keys, text, tags, day]
          LegacyTemporal, \* counts of temporal links that legacy may have
          BandLow, BandHigh, \* TEMPORAL_BAND, in percent
          Wants,        \* --sample
          Altered,      \* a text that no memory of the archive has
          Unfiled,      \* no document
          NativeDoc,    \* a document of the daemon's
          MaxDeviations \* bound: errors of the import and writes of the daemon

ASSUME VerificationAssumption ==
    MaxDeviations \in Nat /\ LegacyTemporal \cup Wants \subseteq Nat

VARIABLES rows,    \* memory_nodes in the order of their ids
          temporal, \* temporal links between them: pairs of positions
          tables,  \* what is beside them: documents, consolidation_runs that are
                   \* done, with their watermarks, observations with a semantic link
          marked,  \* banks with a done marker of this snapshot
          stats,   \* the frozen /stats: nodes, temporal links
          errors, natives, \* history: errors of the import, writes of the daemon
          report   \* the last report: verdict, rows drawn; NoReport before

verifyVars == << rows, temporal, tables, marked, stats, errors, natives, report >>

NoReport == [verdict |-> "none", drawn |-> 0, full |-> FALSE]
Banks == ToSet(ArchiveBank)

----------------------------------------------------------------------------
(* What the import writes *)

FactRow(b, f) ==
    [bank |-> b, legacy |-> TRUE, kind |-> "fact", key |-> f.key, doc |-> f.key[1], text |-> f.text,
     tags |-> f.tags, names |-> f.names, day |-> f.day, refs |-> f.causes \ {f.key},
     embedded |-> TRUE]
ObservationRow(b, o) ==
    [bank |-> b, legacy |-> TRUE, kind |-> "observation", key |-> o.sources, doc |-> Unfiled,
     text |-> o.text, tags |-> o.tags, names |-> {}, day |-> o.day, refs |-> ToSet(o.sources),
     embedded |-> TRUE]
RowsOfBank(b) ==
    [k \in DOMAIN ArchiveFacts[b] |-> FactRow(b, ArchiveFacts[b][k])]
        \o [k \in DOMAIN ArchiveObs[b] |-> ObservationRow(b, ArchiveObs[b][k])]
ImportedRows == FlattenSeq([k \in DOMAIN ArchiveBank |-> RowsOfBank(ArchiveBank[k])])

\* links.rs: two memories of a kind and of a bank, a day apart at most.
TemporalRule(table, scope) ==
    {<< i, j >> \in scope \X scope :
        /\ i # j /\ table[i].bank = table[j].bank /\ table[i].kind = table[j].kind
        /\ table[i].day - table[j].day \in -1 .. 1}

----------------------------------------------------------------------------
(* The counts of tier 1, over what the import wrote *)

MutAllRows == DOMAIN rows
\* A row that the daemon writes meanwhile has no $.legacy.
MigratedRows == {i \in DOMAIN rows : rows[i].legacy}
CountOf(ids, table, kind) == Cardinality({i \in ids : table[i].kind = kind})
Sizes(ids, table, kinds, field) ==
    FoldFunctionOnSet(LAMBDA r, n : n + Cardinality(r[field]), 0, table,
                      {i \in ids : table[i].kind \in kinds})
Entities(ids, table) == UNION {{table[i].bank} \X table[i].names : i \in ids}

\* documents: of the archive's names, in whichever of the banks.
DocKeys == UNION {ArchiveDocs[b] : b \in Banks}
Filed == UNION {{b} \X ArchiveDocs[b] : b \in Banks}
Counted == {d \in tables.documents : d[1] \in Banks /\ d[2] \in DocKeys}

\* documents, nodes by type, caused_by, node_sources, tags, entities, mentions.
Kinds == {"fact", "observation"}
CountsAgree ==
    LET asked == DOMAIN ImportedRows IN
    /\ Cardinality(MigratedRows) = stats.nodes
    /\ Cardinality(Counted) = Cardinality(Filed)
    /\ \A kind \in Kinds :
          /\ CountOf(MigratedRows, rows, kind) = CountOf(asked, ImportedRows, kind)
          /\ Sizes(MigratedRows, rows, {kind}, "refs") = Sizes(asked, ImportedRows, {kind}, "refs")
    /\ \A field \in {"tags", "names"} :
          Sizes(MigratedRows, rows, Kinds, field) = Sizes(asked, ImportedRows, Kinds, field)
    /\ Cardinality(Entities(MigratedRows, rows)) = Cardinality(Entities(asked, ImportedRows))
\* "documents with the right fact count".
FiledUnder(row, d) == << row.bank, row.doc >> = d
FactsAreFiled ==
    \A d \in Filed :
        Cardinality({i \in MigratedRows : FiledUnder(rows[i], d)}) =
            Cardinality({k \in DOMAIN ArchiveFacts[d[1]] : ArchiveFacts[d[1]][k].key[1] = d[2]})
NoOrphans == \A i \in MigratedRows : rows[i].doc = Unfiled => rows[i].kind = "observation"
EmbeddingCoverage == \A i \in MigratedRows : rows[i].embedded
\* "consolidation watermark": a run of the bank that is past all of them.
WatermarkCovers ==
    \A b \in Banks : \E run \in tables.runs :
        run[1] = b /\ \A i \in MigratedRows : rows[i].bank = b => i <= run[2]
NoSemanticFromObservations == tables.semantic = {}
\* temporal_self_consistency
Stored == temporal \cap (MigratedRows \X MigratedRows)
TemporalSelfConsistency == Stored = TemporalRule(rows, MigratedRows)

Tier1Holds ==
    /\ CountsAgree /\ FactsAreFiled /\ NoOrphans /\ EmbeddingCoverage
    /\ marked = Banks /\ WatermarkCovers /\ NoSemanticFromObservations
    /\ TemporalSelfConsistency

\* tier2: of the links between facts, in percent of legacy's.
InTheBand ==
    LET linked == {e \in temporal : e[1] \in MigratedRows /\ rows[e[1]].kind = "fact"} IN
    stats.temporal > 0 =>
        /\ 100 * Cardinality(linked) >= BandLow * stats.temporal
        /\ 100 * Cardinality(linked) <= BandHigh * stats.temporal

----------------------------------------------------------------------------
(* The sample *)

Smaller(m, n) == IF m < n THEN m ELSE n
Larger(m, n) == IF m < n THEN n ELSE m
Rounded(n, d) == (2 * n + d) \div (2 * d)

Available == Len(ImportedRows)
\* How many of each bank, in the order of the snapshot: its share, one at
\* least, and no more than are still wanted, one again excepted.
Quotas(want) ==
    LET Draw(drawn, b) ==
            LET nodes == Len(RowsOfBank(b))
                share == Larger(Rounded(want * nodes, Available), 1)
                left == Larger(want - FoldSeq(LAMBDA n, sum : n + sum, 0, drawn), 0)
            IN  Append(drawn, IF nodes = 0 THEN 0
                              ELSE Smaller(Larger(Smaller(share, left), 1), nodes))
    IN  FoldLeft(Draw, << >>, ArchiveBank)

MutFirstOfKey(b, k) == 0
\* The observations before it in the archive that have the same provenance.
Ordinal(b, k) ==
    Cardinality({j \in 1 .. k - 1 : ArchiveObs[b][j].sources = ArchiveObs[b][k].sources})

\* node_by_legacy_key, observation_by_provenance: a set of one row or none.
FactFound(b, k) ==
    LET found == {i \in DOMAIN rows : /\ rows[i].bank = b /\ rows[i].legacy
                                      /\ rows[i].kind = "fact" /\ rows[i].key = ArchiveFacts[b][k].key}
    IN  {i \in found : \A j \in found : i <= j}
ObservationFound(b, k) ==
    LET found == {i \in DOMAIN rows : /\ rows[i].bank = b /\ rows[i].legacy
                                      /\ rows[i].kind = "observation"
                                      /\ rows[i].key = ArchiveObs[b][k].sources}
    IN  {i \in found : Cardinality({j \in found : j < i}) = Ordinal(b, k)}

\* compare: the contents, the tags, a fact's entities, and the sources or causes
\* that have a key of the archive.
Contents(r) ==
    << r.text, r.day, r.tags, {key \in r.refs : key[1] # NativeDoc},
       IF r.kind = "fact" THEN r.names ELSE {} >>
Same(found, row) == \E i \in found : Contents(rows[i]) = Contents(row)
Matches(b, n) ==
    LET first == Len(ArchiveFacts[b]) IN
    IF n <= first THEN Same(FactFound(b, n), FactRow(b, ArchiveFacts[b][n]))
    ELSE Same(ObservationFound(b, n - first), ObservationRow(b, ArchiveObs[b][n - first]))

\* The /stats and the archive that were frozen agree.
Integrity == stats.nodes = Available

\* The nodes of a bank that a comparison would fail.
Differing(b) == {n \in 1 .. Len(RowsOfBank(b)) : ~Matches(b, n)}
\* Whether a sample of these sizes, drawn at random from each bank, may be found
\* without a difference; or with one.
MayBeClean(quotas) ==
    \A k \in DOMAIN quotas :
        quotas[k] <= Len(RowsOfBank(ArchiveBank[k])) - Cardinality(Differing(ArchiveBank[k]))
MayDiffer(quotas) == \E k \in DOMAIN quotas : quotas[k] > 0 /\ Differing(ArchiveBank[k]) # {}

\* run
Verify(want) ==
    LET quotas == Quotas(want)
        sound == Integrity /\ Tier1Holds
        drawn == FoldSeq(LAMBDA n, sum : n + sum, 0, quotas)
    IN  /\ \E clean \in BOOLEAN :
              /\ IF clean THEN MayBeClean(quotas) ELSE MayDiffer(quotas)
              /\ report' = [verdict |-> IF ~(sound /\ clean) THEN "FAIL"
                                       ELSE IF InTheBand THEN "PASS" ELSE "REVIEW",
                            drawn |-> drawn, full |-> drawn = Available]
        /\ UNCHANGED << rows, temporal, tables, marked, stats, errors, natives >>

----------------------------------------------------------------------------
(* Errors of an import, before it is verified; and the daemon's writes *)

Err == /\ report = NoReport /\ errors + natives < MaxDeviations /\ errors' = errors + 1
       /\ UNCHANGED natives /\ UNCHANGED report

\* The links of what stands at i are those of what stands at At(i).
Moved(links, At(_)) == {e \in (DOMAIN rows) \X (DOMAIN rows) : << At(e[1]), At(e[2]) >> \in links}
\* Without the row i.
RowGone(i) ==
    LET Later(k) == IF k < i THEN k ELSE k + 1
        Earlier(k) == IF k <= i THEN k ELSE k - 1
    IN  /\ rows' = RemoveAt(rows, i)
        /\ temporal' = {e \in Moved(temporal, Later) : e[1] < Len(rows) /\ e[2] < Len(rows)}
        /\ tables' = [tables EXCEPT !.runs = {<< run[1], Earlier(run[2]) >> : run \in @},
                                    !.semantic = {Earlier(k) : k \in @ \ {i}}]

\* A row's text or vector is lost; it has what another has, or the two have each
\* other's.
Garble(i) ==
    /\ Err
    /\ \/ rows' = [rows EXCEPT ![i].text = Altered]
       \/ rows' = [rows EXCEPT ![i].embedded = FALSE]
       \/ \E k \in DOMAIN rows, field \in {"text", "day", "tags", "names", "refs", "doc"} :
             \/ rows' = [rows EXCEPT ![i][field] = rows[k][field]]
             \/ rows' = [rows EXCEPT ![i][field] = rows[k][field], ![k][field] = rows[i][field]]
    /\ UNCHANGED << temporal, tables, marked, stats >>
\* Two rows stand in the other order.
Reorder(i, k) ==
    /\ Err
    /\ rows' = [rows EXCEPT ![i] = rows[k], ![k] = rows[i]]
    /\ temporal' = Moved(temporal, LAMBDA j : IF j = i THEN k ELSE IF j = k THEN i ELSE j)
    /\ UNCHANGED << tables, marked, stats >>
\* A row is not there, or twice.
Lose(i) == Err /\ RowGone(i) /\ UNCHANGED << marked, stats >>
Double(i) ==
    /\ Err
    /\ rows' = Append(rows, rows[i])
    /\ temporal' = temporal \cup {e \in TemporalRule(rows', DOMAIN rows') : Len(rows') \in {e[1], e[2]}}
    /\ UNCHANGED << tables, marked, stats >>
LoseLink == /\ Err
            /\ \E e \in temporal : temporal' = temporal \ {e}
            /\ UNCHANGED << rows, tables, marked, stats >>
\* A document without a fact, a run or a marker is not there; an observation has a
\* semantic link; the /stats were frozen at another moment than the archive.
Misplace ==
    /\ Err
    /\ \/ \E d \in tables.documents :
             /\ \A i \in DOMAIN rows : ~FiledUnder(rows[i], d)
             /\ tables' = [tables EXCEPT !.documents = @ \ {d}] /\ UNCHANGED << marked, stats >>
       \/ \E run \in tables.runs :
             tables' = [tables EXCEPT !.runs = @ \ {run}] /\ UNCHANGED << marked, stats >>
       \/ \E i \in DOMAIN rows :
             /\ rows[i].kind = "observation"
             /\ tables' = [tables EXCEPT !.semantic = {i}] /\ UNCHANGED << marked, stats >>
       \/ \E b \in marked : marked' = marked \ {b} /\ UNCHANGED << tables, stats >>
       \/ stats' = [stats EXCEPT !.nodes = @ + 1] /\ UNCHANGED << tables, marked >>
    /\ UNCHANGED << rows, temporal >>

\* The daemon is running again before the operator verifies.
Daemon == /\ errors + natives < MaxDeviations /\ natives' = natives + 1
          /\ report' = NoReport /\ UNCHANGED << marked, stats, errors >>

\* It retains a fact of a new document or of one that is there, and links it.
RetainsMeanwhile(b, d) ==
    /\ Daemon
    /\ rows' = Append(rows, [bank |-> b, legacy |-> FALSE, kind |-> "fact", key |-> << NativeDoc, 0 >>,
                             doc |-> d, text |-> Altered, tags |-> {"x"}, names |-> {"n"}, day |-> 1,
                             refs |-> {}, embedded |-> FALSE])
    /\ temporal' = temporal \cup {e \in TemporalRule(rows', DOMAIN rows') : e[1] = Len(rows')}
    /\ tables' = [tables EXCEPT !.documents = @ \cup {<< b, d >>}]

\* A round gives such a fact to an observation of the import, and may rewrite it,
\* which takes its vector until the backlog has been there; or deletes one.
RoundMeanwhile(b) ==
    /\ Daemon
    /\ \E i \in MigratedRows, k \in DOMAIN rows \ MigratedRows :
          /\ rows[i].kind = "observation" /\ rows[i].bank = b /\ rows[k].bank = b
          /\ \/ /\ \E said \in {rows[i].text, Altered} : \E embedded \in {said = rows[i].text, TRUE} :
                      rows' = [rows EXCEPT ![i].refs = @ \cup {rows[k].key}, ![i].text = said,
                                           ![i].embedded = embedded]
                /\ tables' = [tables EXCEPT !.runs = @ \cup {<< b, k >>}]
                /\ UNCHANGED temporal
             \/ RowGone(i)

VerifyInit ==
    /\ rows = ImportedRows
    /\ temporal = TemporalRule(rows, DOMAIN rows)
    /\ tables = [documents |-> Filed, runs |-> {<< b, Len(rows) >> : b \in Banks}, semantic |-> {}]
    /\ marked = Banks
    /\ stats \in [nodes : {Available}, temporal : LegacyTemporal]
    /\ errors = 0 /\ natives = 0 /\ report = NoReport

VerifyNext ==
    \/ report = NoReport /\ \E want \in Wants : Verify(want)
    \/ \E i \in MigratedRows : Garble(i) \/ Lose(i) \/ Double(i) \/ \E k \in MigratedRows : Reorder(i, k)
    \/ LoseLink \/ Misplace
    \/ \E b \in Banks : RoundMeanwhile(b) \/ \E d \in DocKeys \cup {NativeDoc} : RetainsMeanwhile(b, d)

VerifySpec == VerifyInit /\ [][VerifyNext]_verifyVars

----------------------------------------------------------------------------
(* Properties *)

Migrated == SelectSeq(rows, LAMBDA r : r.legacy)
Undocumented(table) == [i \in DOMAIN table |-> [table[i] EXCEPT !.doc = Unfiled]]
DerivedIsRight ==
    /\ marked = Banks /\ stats.nodes = Available /\ WatermarkCovers /\ tables.semantic = {}
    /\ Stored = TemporalRule(rows, MigratedRows)

\* What a verdict says: with every memory drawn a run passes, or stops for a
\* review of what is derived, only if the database holds what the archive does,
\* no memory lost, doubled, altered or exchanged; which document each is filed
\* under, and which documents have none, is left to VerdictMeansFiled.  And a
\* database as the import leaves it never fails, whatever the daemon has added
\* beside it, and however many memories share their sources; what it changes of
\* the import is left to RightNeverFails.
VerdictIsRight ==
    report # NoReport =>
        /\ Migrated = ImportedRows /\ Counted = Filed /\ DerivedIsRight => report.verdict # "FAIL"
        /\ report.full /\ report.verdict # "FAIL" =>
              ToBag(Undocumented(Migrated)) = ToBag(Undocumented(ImportedRows)) /\ DerivedIsRight

\* "The aggregate node count cannot see a fact filed under the wrong document;
\* this can": not two of them, which keep the counts of their documents; nor does
\* the count of the documents see one that is lost where another bank got one.
VerdictMeansFiled ==
    report.full /\ report.verdict # "FAIL" =>
        ToBag(Migrated) = ToBag(ImportedRows) /\ Counted = Filed

\* "Every node predicate is scoped to what the import wrote", lest "a correct
\* migration" fail for what the running daemon does: a round that gives a source
\* to an observation of the import, and a document of another bank's name, count.
RightNeverFails == errors = 0 => report.verdict # "FAIL"

\* "Clamped so the run cannot draw more than asked."
DrawsNoMore == \A want \in Wants : FoldSeq(LAMBDA n, sum : n + sum, 0, Quotas(want)) <= want
=============================================================================
