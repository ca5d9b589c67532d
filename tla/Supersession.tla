---------------------------- MODULE Supersession ----------------------------
(***************************************************************************)
(* Which memory node replaces which: the superseded_by column of           *)
(* memory_nodes (store nodes.rs), written by the retain worker from a      *)
(* model's answer and by POST and DELETE .../supersede (routes/graph.rs).  *)
(*                                                                         *)
(* A row is known by its rowid, which SQLite gives again once the highest  *)
(* row is deleted.  A batch of rows carries one created_at, read from the  *)
(* clock before the transaction; the clock may be set back.                *)
(***************************************************************************)
EXTENDS Integers, Sequences, FiniteSets

CONSTANTS Bank,        \* bank ids
          MaxNode,     \* bound: the highest rowid
          MaxStamp,    \* bound: created_at is at most this
          MaxBatch,    \* bound: facts of one chunk
          MaxPairs     \* bound: retractions one answer claims

ASSUME SupersessionAssumption ==
    {MaxNode, MaxStamp, MaxBatch, MaxPairs} \subseteq Nat

VARIABLES nodes,   \* rowid -> its bank, created_at and superseded_by (0: NULL)
          chunk    \* the worker's chunk: its bank, the candidates shown to the
                   \* model, and after the insert the pairs still to be marked

supersessionVars == << nodes, chunk >>

Ids == 1 .. MaxNode
Row == [bank : Bank, stamp : 0 .. MaxStamp, by : 0 .. MaxNode]
NoChunk == [pc |-> "idle"]

\* The rowid of the next insert: one above the highest in use.
NextId == 1 + CHOOSE m \in {0} \cup DOMAIN nodes : \A j \in DOMAIN nodes : j <= m

\* The guard that shipped first: a bare <= on the timestamp.
MutNotOlder(i, j) == nodes[i].stamp <= nodes[j].stamp
\* (old.created_at, old.id) < (new.created_at, new.id)
Before(i, j) ==
    \/ nodes[i].stamp < nodes[j].stamp
    \/ nodes[i].stamp = nodes[j].stamp /\ i < j

\* The bank of the replacement is not checked.
MutAnyBank(i, j) ==
    {i, j} \subseteq DOMAIN nodes /\ nodes[i].by = 0 /\ i # j /\ Before(i, j)
\* The WHERE clause of mark_superseded for one pair <<retracted, replacement>>.
MayRetract(i, j) ==
    /\ {i, j} \subseteq DOMAIN nodes
    /\ nodes[i].bank = nodes[j].bank
    /\ nodes[i].by = 0
    /\ i # j
    /\ Before(i, j)

\* mark_superseded: one transaction over the pairs in order, so of two that
\* would retract the same node the first that may does.
Claims(pairs, bank, i) ==
    {k \in DOMAIN pairs : /\ pairs[k][1] = i /\ MayRetract(i, pairs[k][2])
                          /\ nodes[i].bank = bank}
First(K) == CHOOSE k \in K : \A l \in K : k <= l

Marked(pairs, bank) ==
    [i \in DOMAIN nodes |->
        IF Claims(pairs, bank, i) = {} THEN nodes[i]
        ELSE [nodes[i] EXCEPT !.by = pairs[First(Claims(pairs, bank, i))][2]]]

----------------------------------------------------------------------------
(* The retain worker: candidates, the chunk's rows, the retractions *)

\* candidate_facts: live nodes of the bank near the chunk.
CandidateFacts(bank) == {i \in DOMAIN nodes : nodes[i].bank = bank /\ nodes[i].by = 0}

Show ==
    /\ chunk = NoChunk
    /\ \E bank \in Bank : \E known \in SUBSET CandidateFacts(bank) :
          chunk' = [pc |-> "shown", bank |-> bank, known |-> known]
    /\ UNCHANGED nodes

\* insert_batch: consecutive rowids, one stamp.
Inserted(bank, n, stamp) ==
    [i \in DOMAIN nodes \cup NextId .. NextId + n - 1 |->
        IF i \in DOMAIN nodes THEN nodes[i]
        ELSE [bank |-> bank, stamp |-> stamp, by |-> 0]]

\* The pairs of a model's answer: a candidate it was shown, by rowid, and a
\* row of this chunk.
Insert ==
    /\ chunk.pc = "shown"
    /\ \E n \in 1 .. MaxBatch, stamp \in 0 .. MaxStamp :
          /\ NextId + n - 1 <= MaxNode
          /\ nodes' = Inserted(chunk.bank, n, stamp)
          /\ \E len \in 0 .. MaxPairs :
             \E pairs \in [1 .. len -> chunk.known \X (NextId .. NextId + n - 1)] :
                chunk' = [pc |-> "mark", bank |-> chunk.bank, pairs |-> pairs]

\* apply_supersession is best effort: a failed write, or a kill, loses the
\* pairs and keeps the facts.
MarkChunk ==
    /\ chunk.pc = "mark"
    /\ \/ nodes' = Marked(chunk.pairs, chunk.bank)
       \/ UNCHANGED nodes
    /\ chunk' = NoChunk

----------------------------------------------------------------------------
(* The routes, and what deletes rows *)

\* POST .../nodes/{id}/supersede: any two ids.
SupersedeNode ==
    /\ \E bank \in Bank, i \in Ids, j \in Ids :
          nodes' = Marked(<< << i, j >> >>, bank) /\ nodes' # nodes
    /\ UNCHANGED chunk

\* DELETE .../supersede: clear_superseded.
UnsupersedeNode ==
    /\ \E i \in DOMAIN nodes : /\ nodes[i].by # 0
                               /\ nodes' = [nodes EXCEPT ![i].by = 0]
    /\ UNCHANGED chunk

\* A merge or a plan deletes an observation; ON DELETE SET NULL makes what it
\* had replaced live again.
DeleteNode ==
    /\ \E d \in DOMAIN nodes :
          nodes' = [i \in DOMAIN nodes \ {d} |->
                      IF nodes[i].by = d THEN [nodes[i] EXCEPT !.by = 0] ELSE nodes[i]]
    /\ UNCHANGED chunk

SupersessionInit == nodes = << >> /\ chunk = NoChunk

SupersessionNext ==
    \/ Show \/ Insert \/ MarkChunk
    \/ SupersedeNode \/ UnsupersedeNode \/ DeleteNode

SupersessionSpec == SupersessionInit /\ [][SupersessionNext]_supersessionVars

----------------------------------------------------------------------------
(* Properties *)

SupersessionTypeOK ==
    /\ DOMAIN nodes \subseteq Ids
    /\ \A i \in DOMAIN nodes : nodes[i] \in Row

\* Retractions form no cycle, so that of any set of nodes that replace one
\* another at least one is live, or replaced from outside: recall would
\* otherwise lose all of them.  Chunks and requests add edges in any order,
\* rowids are reused, and stamps collide or go back.
NoRetractionCycle ==
    \A S \in (SUBSET DOMAIN nodes) \ {{}} : \E i \in S : nodes[i].by \notin S

\* A retraction points at a row of its own bank: deletion and reuse of rowids
\* leave no edge to a stranger.
ReplacementsAreThere ==
    \A i \in DOMAIN nodes :
        nodes[i].by # 0 => /\ nodes[i].by \in DOMAIN nodes
                           /\ nodes[nodes[i].by].bank = nodes[i].bank

=============================================================================
