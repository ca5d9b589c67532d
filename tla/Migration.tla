------------------------------ MODULE Migration ------------------------------
(***************************************************************************)
(* mg-migrate: the snapshot of a legacy daemon's banks (migrate/           *)
(* snapshot.rs), their import (migrate/import.rs) and the verification of  *)
(* what was imported (migrate/verify.rs), with memgardend, which may be    *)
(* started in between and works on what it finds.                          *)
(*                                                                         *)
(* The operator runs one of the three tools at a time; any of them may     *)
(* fail or be killed between two of its writes.  The legacy banks go on    *)
(* being written.  An import has no transaction around a bank: a marker in *)
(* the bank's row tells whether one is under way.                          *)
(*                                                                         *)
(* What a legacy bank holds is its number of nodes and its edition: a      *)
(* write adds a node, or rewords an observation.                           *)
(***************************************************************************)
EXTENDS Integers, Sequences, FiniteSets, FiniteSetsExt

CONSTANTS LegacyBank,  \* the banks
          NoFile,      \* a file that is not there
          MaxRuns,     \* bound: runs of snapshot and import
          MaxWrites,   \* bound: writes to the legacy banks
          MaxStops,    \* bound: runs that fail or are killed
          MaxNative,   \* bound: facts the daemon retains
          MaxRounds    \* bound: consolidation rounds

ASSUME MigrationAssumption ==
    /\ IsFiniteSet(LegacyBank)
    /\ {MaxRuns, MaxWrites, MaxStops, MaxNative, MaxRounds} \subseteq Nat

VARIABLES legacy,   \* the legacy banks: nodes and edition
          dir,      \* the snapshot directory: stats.json, archives, SHA256SUMS
          tool,     \* the run in progress
          marker,   \* the bank rows' import marker: its state and snapshot
          docs,     \* bank -> the edition its documents rows are of, or NoFile
          stored,   \* memory_nodes: rowid -> bank, kind, content, embedded
          derived,  \* bank -> which kinds of links and entities it has
          stamped,  \* bank -> the highest watermark of its run rows
          serving,  \* a daemon listens
          judged,   \* history: facts a consolidation round decided on
          late,     \* history: a daemon was started while an import ran
          spentRuns, writes, stops, natives, rounds

migrationVars == << legacy, dir, tool, marker, docs, stored, derived, stamped, serving,
                    judged, late, spentRuns, writes, stops, natives, rounds >>

frozen == << legacy, dir >>
database == << marker, docs, stored, derived, stamped >>
counters == << spentRuns, writes, stops, natives, rounds >>

Idling == [pc |-> "none"]
NoMarker == [state |-> "none", of |-> NoFile]
Kinds == {"entities", "caused_by", "temporal"}

RowsOf(b) == {i \in DOMAIN stored : stored[i].bank = b}
OfKind(b, kind) == {i \in RowsOf(b) : stored[i].kind = kind}
Migrated(b) == OfKind(b, "fact") \cup OfKind(b, "observation")
Void(b) == legacy[b].nodes = 0

\* The rowid of an insert: INTEGER PRIMARY KEY without AUTOINCREMENT.
FreeRow == 1 + Max({0} \cup DOMAIN stored)
Inserted(i, row) == [j \in DOMAIN stored \cup {i} |-> IF j = i THEN row ELSE stored[j]]
Without(rows) == [j \in DOMAIN stored \ rows |-> stored[j]]

\* The banks are taken in the order of their names, whichever that is.
NextOf(banks) == CHOOSE b \in banks : TRUE

NewRun == tool = Idling /\ spentRuns < MaxRuns /\ spentRuns' = spentRuns + 1

----------------------------------------------------------------------------
(* The legacy side *)

LegacyWrites ==
    /\ writes < MaxWrites /\ writes' = writes + 1
    /\ \E b \in LegacyBank, adds \in {0, 1} :
          /\ adds = 0 => ~Void(b)
          /\ legacy' = [legacy EXCEPT ![b] = [nodes |-> @.nodes + adds,
                                              edition |-> @.edition + 1]]
    /\ UNCHANGED << dir, tool, database, serving, judged, late, spentRuns, stops,
                    natives, rounds >>

----------------------------------------------------------------------------
(* snapshot: run_from *)

SnapshotBegins ==
    /\ NewRun
    /\ tool' = [pc |-> "stats", left |-> LegacyBank, bank |-> NoFile,
                stats |-> [b \in LegacyBank |-> NoFile], listed |-> [b \in LegacyBank |-> NoFile]]
    /\ UNCHANGED << frozen, database, serving, judged, late, writes, stops,
                    natives, rounds >>

\* GET /stats of the next bank.
ReadStats ==
    /\ tool.pc = "stats" /\ tool.left # {}
    /\ LET b == NextOf(tool.left)
       IN  tool' = [tool EXCEPT !.pc = "archive", !.bank = b, !.left = @ \ {b},
                                !.stats[b] = legacy[b].nodes]
    /\ UNCHANGED << frozen, database, serving, judged, late, counters >>

\* GET or the export job, the zip, its unpacking over what is there.
ReadArchive ==
    /\ tool.pc = "archive"
    /\ dir' = [dir EXCEPT !.archive[tool.bank] = legacy[tool.bank]]
    /\ tool' = [tool EXCEPT !.pc = "list"]
    /\ UNCHANGED << legacy, database, serving, judged, late, counters >>

\* GET /documents and /memories/list.
ReadList ==
    /\ tool.pc = "list"
    /\ tool' = [tool EXCEPT !.pc = "stats", !.listed[tool.bank] = legacy[tool.bank].nodes]
    /\ UNCHANGED << frozen, database, serving, judged, late, counters >>

WriteStats ==
    /\ tool.pc = "stats" /\ tool.left = {}
    /\ dir' = [dir EXCEPT !.stats = [b \in LegacyBank |-> << tool.stats[b], tool.listed[b] >>]]
    /\ tool' = [tool EXCEPT !.pc = "seal"]
    /\ UNCHANGED << legacy, database, serving, judged, late, counters >>

\* assert_integrity: every count of the archive is the one both read apart
\* from it.
Agrees(b) ==
    /\ dir.archive[b] # NoFile /\ dir.stats # NoFile
    /\ dir.stats[b] = << dir.archive[b].nodes, dir.archive[b].nodes >>

\* write_sha256sums, the last write: the hash of every file.
Contents == [archive |-> dir.archive, stats |-> dir.stats]
Seal ==
    /\ tool.pc = "seal"
    /\ dir' = IF \A b \in LegacyBank : Agrees(b) THEN [dir EXCEPT !.sums = Contents] ELSE dir
    /\ tool' = Idling
    /\ UNCHANGED << legacy, database, serving, judged, late, counters >>

\* verify_sha256sums
Sealed == dir.sums # NoFile /\ dir.sums = Contents

----------------------------------------------------------------------------
(* import *)

EmptyArchive(b) == dir.archive[b].nodes = 0

\* assert_bank_available
Available(b, replace) == replace \/ (marker[b].state # "running" /\ RowsOf(b) = {})

\* run, up to the first write: no daemon listens on this database, the
\* directory is whole, every bank with something in it may be written.
ImportBegins ==
    /\ NewRun
    /\ ~serving
    /\ Sealed /\ \A b \in LegacyBank : Agrees(b)
    /\ \E replace \in BOOLEAN :
          LET work == {b \in LegacyBank : ~EmptyArchive(b)} IN
          /\ work # {}
          /\ \A b \in work : Available(b, replace)
          /\ tool' = [pc |-> "purge", bank |-> NextOf(work), left |-> work \ {NextOf(work)},
                      replace |-> replace, of |-> dir.sums]
    /\ UNCHANGED << frozen, database, serving, judged, late, writes, stops,
                    natives, rounds >>

\* The marker goes in with the first node.
MutMarkLater ==
    << "purge", "documents", "facts", "running", "entities", "caused_by", "observations",
       "metadata", "temporal", "drain", "watermark", "done" >>
\* import_bank: each step commits by itself.
Steps == << "purge", "running", "documents", "facts", "entities", "caused_by", "observations",
            "metadata", "temporal", "drain", "watermark", "done" >>
StepAfter(pc) == Steps[1 + CHOOSE k \in DOMAIN Steps : Steps[k] = pc]

Archived == tool.of.archive[tool.bank]
Advances == tool' = [tool EXCEPT !.pc = StepAfter(tool.pc)]
Outside == UNCHANGED << frozen, serving, late, counters >>

\* The purge spares the run rows.
MutSpareRuns(b) == stamped
\* purge: nodes with their links, documents, entities, runs.
PurgedRuns(b) == [stamped EXCEPT ![b] = 0]

Purge ==
    /\ tool.pc = "purge"
    /\ IF tool.replace
       THEN /\ stored' = Without(RowsOf(tool.bank))
            /\ judged' = judged \ RowsOf(tool.bank)
            /\ docs' = [docs EXCEPT ![tool.bank] = NoFile]
            /\ derived' = [derived EXCEPT ![tool.bank] = {}]
            /\ stamped' = PurgedRuns(tool.bank)
       ELSE UNCHANGED << stored, judged, docs, derived, stamped >>
    /\ Advances /\ UNCHANGED marker /\ Outside

\* write_marker: the row is made if it is missing.
MarkRunning ==
    /\ tool.pc = "running"
    /\ marker' = [marker EXCEPT ![tool.bank] = [state |-> "running", of |-> tool.of]]
    /\ Advances /\ UNCHANGED << docs, stored, derived, stamped, judged >> /\ Outside

Documents ==
    /\ tool.pc = "documents"
    /\ docs' = [docs EXCEPT ![tool.bank] = Archived.edition]
    /\ Advances /\ UNCHANGED << marker, stored, derived, stamped, judged >> /\ Outside

\* nodes::insert_batch, without embeddings.
Facts ==
    /\ tool.pc = "facts"
    /\ stored' = Inserted(FreeRow, [bank |-> tool.bank, kind |-> "fact", of |-> Archived,
                                    embedded |-> FALSE])
    /\ Advances /\ UNCHANGED << marker, docs, derived, stamped, judged >> /\ Outside

\* insert_observation, embedded at once; without the legacy metadata it is a
\* row like the daemon's own.
Observations ==
    /\ tool.pc = "observations"
    /\ stored' = Inserted(FreeRow, [bank |-> tool.bank, kind |-> "own", of |-> Archived,
                                    embedded |-> TRUE])
    /\ Advances /\ UNCHANGED << marker, docs, derived, stamped, judged >> /\ Outside

Metadata ==
    /\ tool.pc = "metadata"
    /\ stored' = [i \in DOMAIN stored |->
                    IF stored[i].bank = tool.bank /\ stored[i].kind = "own"
                       /\ stored[i].of = Archived
                    THEN [stored[i] EXCEPT !.kind = "observation"] ELSE stored[i]]
    /\ Advances /\ UNCHANGED << marker, docs, derived, stamped, judged >> /\ Outside

\* Entities, the authored links, the links of our own rule.
Derive ==
    /\ tool.pc \in Kinds
    /\ derived' = [derived EXCEPT ![tool.bank] = @ \cup {tool.pc}]
    /\ Advances /\ UNCHANGED << marker, docs, stored, stamped, judged >> /\ Outside

\* drain_backlog, or none of it under --defer-embeddings.
Embedded(b) == [i \in DOMAIN stored |->
                  IF stored[i].bank = b THEN [stored[i] EXCEPT !.embedded = TRUE] ELSE stored[i]]
Drain ==
    /\ tool.pc = "drain"
    /\ stored' \in {stored, Embedded(tool.bank)}
    /\ Advances /\ UNCHANGED << marker, docs, derived, stamped, judged >> /\ Outside

\* A run row at the highest node of the bank.
Watermark ==
    /\ tool.pc = "watermark"
    /\ stamped' = [stamped EXCEPT ![tool.bank] = Max({@} \cup RowsOf(tool.bank))]
    /\ Advances /\ UNCHANGED << marker, docs, stored, derived, judged >> /\ Outside

\* The marker, done; the next bank or the end.
MarkDone ==
    /\ tool.pc = "done"
    /\ marker' = [marker EXCEPT ![tool.bank] = [state |-> "done", of |-> tool.of]]
    /\ tool' = IF tool.left = {} THEN Idling
               ELSE [tool EXCEPT !.pc = "purge", !.bank = NextOf(tool.left),
                                 !.left = @ \ {NextOf(tool.left)}]
    /\ UNCHANGED << docs, stored, derived, stamped, judged >> /\ Outside

ImportStep ==
    \/ Purge \/ MarkRunning \/ Documents \/ Facts \/ Observations \/ Metadata
    \/ Derive \/ Drain \/ Watermark \/ MarkDone

\* A tool fails or is killed; an unzip may leave a directory of both archives.
Stop ==
    /\ tool # Idling /\ stops < MaxStops /\ stops' = stops + 1
    /\ tool' = Idling
    /\ dir' \in {dir} \cup
         (IF tool.pc = "archive" THEN {[dir EXCEPT !.archive[tool.bank] = NoFile]} ELSE {})
    /\ UNCHANGED << legacy, database, serving, judged, late, spentRuns, writes,
                    natives, rounds >>

----------------------------------------------------------------------------
(* verify, which writes nothing *)

\* A marker of any snapshot counts.
MutAnySnapshot(b) == marker[b].state = "done"
\* "state = done AND snapshot = this snapshot's hash"
MarkedByThis(b) == marker[b] = [state |-> "done", of |-> dir.sums]

\* A migrated row stands for the rows of its kind of a whole archive; they are
\* counted over all the banks together.
NodesOf(i) == stored[i].of.nodes
Counted(banks, kind) == MapThenSumSet(NodesOf, UNION {OfKind(b, kind) : b \in banks})
ArchiveNodes(b) == dir.archive[b].nodes
Expected(banks) == MapThenSumSet(ArchiveNodes, banks)

\* tier1
Tier1(banks) ==
    /\ \A b \in banks : docs[b] # NoFile /\ derived[b] = Kinds
    /\ \A kind \in {"fact", "observation"} : Counted(banks, kind) = Expected(banks)
    /\ \A b \in banks : Counted({b}, "fact") = ArchiveNodes(b)
    /\ \A b \in banks : MarkedByThis(b)
    /\ \A b \in banks : stamped[b] >= Max({0} \cup Migrated(b))
    /\ \A b \in banks : \A i \in Migrated(b) : stored[i].embedded

\* The verdict Pass; tier2 and the sample can only turn it into another.
Passes ==
    /\ Sealed /\ \A b \in LegacyBank : Agrees(b)
    /\ \E b \in LegacyBank : ~EmptyArchive(b)
    /\ Tier1({b \in LegacyBank : ~EmptyArchive(b)})

----------------------------------------------------------------------------
(* memgardend over the same database *)

\* Nothing keeps it from starting once the guard of an import has passed.
Serve ==
    /\ ~serving /\ serving' = TRUE
    /\ late' = (late \/ (tool.pc \in {Steps[k] : k \in DOMAIN Steps}))
    /\ UNCHANGED << frozen, tool, database, judged, counters >>

Shutdown ==
    /\ serving /\ serving' = FALSE
    /\ UNCHANGED << frozen, tool, database, judged, late, counters >>

RetainNative ==
    /\ serving /\ natives < MaxNative /\ natives' = natives + 1
    /\ \E b \in LegacyBank :
          stored' = Inserted(FreeRow, [bank |-> b, kind |-> "native", of |-> NoFile,
                                       embedded |-> FALSE])
    /\ UNCHANGED << frozen, tool, marker, docs, derived, stamped, serving, judged, late,
                    spentRuns, writes, stops, rounds >>

\* A consolidation round: the facts above the mark; it may delete an
\* observation, migrated or its own.
ReconsolidateBank ==
    /\ serving /\ rounds < MaxRounds /\ rounds' = rounds + 1
    /\ \E b \in LegacyBank :
          LET found == {i \in OfKind(b, "fact") \cup OfKind(b, "native") : i > stamped[b]}
              seen == OfKind(b, "observation") \cup OfKind(b, "own")
          IN  /\ found # {}
              /\ judged' = judged \cup found
              /\ stamped' = [stamped EXCEPT ![b] = Max(found)]
              /\ \/ stored' = Inserted(FreeRow, [bank |-> b, kind |-> "own", of |-> NoFile,
                                                 embedded |-> TRUE])
                 \/ \E i \in seen : stored' = Without({i})
    /\ UNCHANGED << frozen, tool, marker, docs, derived, serving, late, spentRuns, writes,
                    stops, natives >>

DaemonDrain ==
    /\ serving
    /\ \E b \in LegacyBank : stored' = Embedded(b)
    /\ UNCHANGED << frozen, tool, marker, docs, derived, stamped, serving, judged, late,
                    counters >>

MigrationInit ==
    /\ legacy \in [LegacyBank -> {[nodes |-> n, edition |-> n] : n \in {0, 1}}]
    /\ dir = [stats |-> NoFile, archive |-> [b \in LegacyBank |-> NoFile], sums |-> NoFile]
    /\ tool = Idling
    /\ marker = [b \in LegacyBank |-> NoMarker]
    /\ docs = [b \in LegacyBank |-> NoFile]
    /\ stored = << >> /\ derived = [b \in LegacyBank |-> {}]
    /\ stamped = [b \in LegacyBank |-> 0]
    /\ serving = FALSE /\ judged = {} /\ late = FALSE
    /\ spentRuns = 0 /\ writes = 0 /\ stops = 0 /\ natives = 0 /\ rounds = 0

MigrationNext ==
    \/ LegacyWrites
    \/ SnapshotBegins \/ ReadStats \/ ReadArchive \/ ReadList \/ WriteStats \/ Seal
    \/ ImportBegins \/ ImportStep \/ Stop
    \/ Serve \/ Shutdown \/ RetainNative \/ ReconsolidateBank \/ DaemonDrain

MigrationSpec == MigrationInit /\ [][MigrationNext]_migrationVars

----------------------------------------------------------------------------
(* Properties *)

MigrationTypeOK ==
    /\ \A b \in LegacyBank : marker[b].state \in {"none", "running", "done"}
    /\ \A i \in DOMAIN stored :
          /\ stored[i].bank \in LegacyBank /\ stored[i].embedded \in BOOLEAN
          /\ stored[i].kind \in {"fact", "observation", "own", "native"}
    /\ judged \subseteq DOMAIN stored
    /\ \A b \in LegacyBank : derived[b] \subseteq Kinds /\ stamped[b] \in Nat

\* "A partial bank is never silent": a bank that is marked done has all that
\* the import writes, but for observations the daemon has since merged, or it
\* has nothing: an import --replace that stopped behind its purge.
MarkerIsHonest ==
    \A b \in LegacyBank : marker[b].state = "done" =>
        \/ Migrated(b) = {} /\ docs[b] = NoFile /\ derived[b] = {}
        \/ LET archived == marker[b].of.archive[b] IN
           /\ docs[b] = archived.edition /\ derived[b] = Kinds
           /\ \E i \in OfKind(b, "fact") : stored[i].of = archived
           /\ \A i \in Migrated(b) : stored[i].of = archived

\* What verify passes was imported from the bytes it was compared with, down
\* to what no count tells: whatever was snapshotted, imported, interrupted and
\* served before.
PassMeansImported ==
    Passes => \A b \in LegacyBank : ~EmptyArchive(b) =>
        /\ docs[b] = dir.archive[b].edition
        /\ {stored[i].of : i \in Migrated(b)} = {dir.archive[b]}
        /\ Cardinality(Migrated(b)) = 2

\* Both: what a marker or a verdict says of a bank is so.
VerdictsAreHonest == MarkerIsHonest /\ PassMeansImported

\* The watermark lies between what was imported and what is retained later: no
\* round re-derives a migrated fact of a finished import, none misses a fact
\* the daemon retained; rowids start again at 1 after a purge.  (A daemon
\* started under an import may do both.)
WatermarkSplits ==
    ~late => \A b \in LegacyBank :
        /\ \A i \in OfKind(b, "native") : i <= stamped[b] => i \in judged
        /\ marker[b].state = "done" => OfKind(b, "fact") \cap judged = {}

\* The same claim without the exception for an interrupted purge.
PartialIsMarked ==
    \A b \in LegacyBank : marker[b].state = "done" =>
        docs[b] = marker[b].of.archive[b].edition /\ derived[b] = Kinds

=============================================================================
