---------------------------- MODULE NodeVectors ----------------------------
(***************************************************************************)
(* The vectors of memory nodes: the embedding column of memory_nodes, its  *)
(* index vec_nodes (store nodes.rs), the backlog worker that fills both    *)
(* (embed_task.rs) and the consolidation round that writes them itself     *)
(* (consolidate/round.rs, store consolidate.rs).                           *)
(*                                                                         *)
(* A text is a number, new with every insert and every rewriting; a vector *)
(* is the number of the text it was made from.  Rows are known by rowid,   *)
(* and SQLite gives the rowid of a deleted highest row again.              *)
(***************************************************************************)
EXTENDS Integers, FiniteSets, FiniteSetsExt

CONSTANTS EmbedBatch,  \* embedding.batch_size
          MaxRow,      \* bound: the highest rowid
          MaxText,     \* bound: texts ever written
          MaxMisses    \* bound: failed embeddings and writes

ASSUME NodeVectorsAssumption ==
    EmbedBatch \in Nat \ {0} /\ {MaxRow, MaxText, MaxMisses} \subseteq Nat

VARIABLES rows,    \* rowid -> its text, and the text its embedding is of (0: NULL)
          index,   \* vec_nodes: rowid -> the text its vector is of
          texts,   \* texts written so far
          backlog, \* the worker's batch: rowid -> the text it read
          sync,    \* a round's own re-embedding: the rowid and the text it read
          raced,   \* history: rowids rewritten or deleted with a write under way
          misses

vectorVars == << rows, index, texts, backlog, sync, raced, misses >>

Empty == << >>
NextRow == 1 + Max({0} \cup DOMAIN rows)
\* The backlog is of rows that are not in the index.
MutUnindexed == {i \in DOMAIN rows : i \notin DOMAIN index}
Pending == {i \in DOMAIN rows : rows[i].vec = 0}
InFlight == DOMAIN backlog \cup DOMAIN sync
Raced(i) == raced' = IF i \in InFlight THEN raced \cup {i} ELSE raced

\* f with g's values where g has any.
Over(f, g) == [i \in DOMAIN f \cup DOMAIN g |-> IF i \in DOMAIN g THEN g[i] ELSE f[i]]

\* set_embedding and set_embeddings_batch, one transaction: an UPDATE by rowid
\* that finds the row or does not, a DELETE and an INSERT in the index.
SetEmbeddings(batch) ==
    /\ rows' = [i \in DOMAIN rows |->
                  IF i \in DOMAIN batch THEN [rows[i] EXCEPT !.vec = batch[i]] ELSE rows[i]]
    /\ index' = Over(index, batch)

----------------------------------------------------------------------------
(* Writers of texts *)

\* nodes::insert_batch: a fact goes on the backlog.
InsertFact ==
    /\ texts < MaxText /\ NextRow <= MaxRow
    /\ texts' = texts + 1
    /\ rows' = Over(rows, [i \in {NextRow} |-> [text |-> texts', vec |-> 0]])
    /\ UNCHANGED << index, backlog, sync, raced, misses >>

\* insert_observation_tx: row and vector together.  The index refuses a rowid
\* it still has, and the transaction with it.
InsertObservation ==
    /\ texts < MaxText /\ NextRow <= MaxRow
    /\ NextRow \notin DOMAIN index
    /\ texts' = texts + 1
    /\ rows' = Over(rows, [i \in {NextRow} |-> [text |-> texts', vec |-> texts']])
    /\ index' = Over(index, [i \in {NextRow} |-> texts'])
    /\ UNCHANGED << backlog, sync, raced, misses >>

\* The rewriting leaves the embedding where it is.
MutKeepEmbedding(i, text) == [rows EXCEPT ![i].text = text]
\* update_text_tx: the embedding goes, the index keeps the vector of the old
\* text until the next one.
Rewritten(i, text) == [rows EXCEPT ![i] = [text |-> text, vec |-> 0]]

\* A plan's update or a merge; the round may then re-embed the text itself.
UpdateText ==
    /\ texts < MaxText
    /\ texts' = texts + 1
    /\ \E i \in DOMAIN rows :
          /\ rows' = Rewritten(i, texts')
          /\ Raced(i)
          /\ \/ sync' = sync
             \/ sync = Empty /\ sync' = [j \in {i} |-> texts']
    /\ UNCHANGED << index, backlog, misses >>

\* A merge, a plan's delete, or the cascade of a bank: the trigger takes the
\* vector with the row.
DeleteRow ==
    /\ \E i \in DOMAIN rows :
          /\ rows' = [j \in DOMAIN rows \ {i} |-> rows[j]]
          /\ index' = [j \in DOMAIN index \ {i} |-> index[j]]
          /\ Raced(i)
    /\ UNCHANGED << texts, backlog, sync, misses >>

----------------------------------------------------------------------------
(* Writers of vectors *)

\* embed_one and set_embedding after an update, best effort.
SyncWrite ==
    /\ sync # Empty
    /\ \/ SetEmbeddings(sync) /\ UNCHANGED misses
       \/ /\ misses < MaxMisses /\ misses' = misses + 1
          /\ UNCHANGED << rows, index >>
    /\ sync' = Empty
    /\ UNCHANGED << texts, backlog, raced >>

\* drain_once reads a batch of rows without an embedding, in no order.
BacklogRead ==
    /\ backlog = Empty /\ Pending # {}
    /\ \E B \in SUBSET Pending :
          /\ Cardinality(B) = Min({EmbedBatch, Cardinality(Pending)})
          /\ backlog' = [i \in B |-> rows[i].text]
    /\ UNCHANGED << rows, index, texts, sync, raced, misses >>

BacklogWrite ==
    /\ backlog # Empty
    /\ SetEmbeddings(backlog)
    /\ backlog' = Empty
    /\ UNCHANGED << texts, sync, raced, misses >>

\* The embedder or the write fails, or the process dies with the vectors.
BacklogLost ==
    /\ backlog # Empty
    /\ misses < MaxMisses /\ misses' = misses + 1
    /\ backlog' = Empty
    /\ UNCHANGED << rows, index, texts, sync, raced >>

VectorInit ==
    /\ rows = Empty /\ index = Empty /\ texts = 0 /\ backlog = Empty /\ sync = Empty
    /\ raced = {} /\ misses = 0

VectorNext ==
    \/ InsertFact \/ InsertObservation \/ UpdateText \/ DeleteRow
    \/ SyncWrite \/ BacklogRead \/ BacklogWrite \/ BacklogLost

\* The worker ticks for ever, and what it has begun returns.
VectorFairness ==
    /\ WF_vectorVars(BacklogRead)
    /\ WF_vectorVars(BacklogWrite)

VectorSpec == VectorInit /\ [][VectorNext]_vectorVars /\ VectorFairness

----------------------------------------------------------------------------
(* Properties *)

VectorTypeOK ==
    /\ DOMAIN rows \cup DOMAIN index \cup raced \subseteq 1 .. MaxRow
    /\ \A i \in DOMAIN rows : rows[i].text \in 1 .. texts /\ rows[i].vec \in 0 .. texts
    /\ \A i \in DOMAIN index : index[i] \in 1 .. texts
    /\ Cardinality(DOMAIN backlog) <= EmbedBatch

\* "Kept in sync with the source of truth": the index has the vector of every
\* embedded row, that vector is of the row's text, and the index has no other
\* rows than a rewritten row's old vector; but for rowids that were rewritten
\* or deleted while a writer held a vector of theirs.
VectorsAreAccountedFor ==
    /\ \A i \in DOMAIN rows :
          rows[i].vec # 0 => /\ i \in DOMAIN index /\ index[i] = rows[i].vec
                             /\ rows[i].vec = rows[i].text \/ i \in raced
    /\ \A i \in DOMAIN index \ DOMAIN rows : i \in raced

\* The same without that exception.
IndexIsOfItsRows ==
    /\ \A i \in DOMAIN rows : rows[i].vec \in {0, rows[i].text}
    /\ DOMAIN index \subseteq DOMAIN rows

\* The backlog is empty again and again: every row without an embedding gets
\* one or goes.
BacklogDrains == []<>(\A i \in DOMAIN rows : rows[i].vec # 0)

=============================================================================
