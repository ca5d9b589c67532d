----------------------------- MODULE LinkGraph -----------------------------
(***************************************************************************)
(* Entities and links of a bank's nodes (store graph.rs): written beside   *)
(* the facts of a chunk by the retain worker (retain/mod.rs write_graph),  *)
(* and beside new vectors by the backlog and by POST .../relink            *)
(* (embed_task.rs on_batch_embedded); read by the anatomy of a bank.       *)
(*                                                                         *)
(* Each of them reads and writes in transactions of its own, with rowids   *)
(* in hand.  A foreign key refuses a rowid that is gone; it does not know  *)
(* one that SQLite has given again, the rowid of a deleted highest row.    *)
(* How near dates and vectors are is arbitrary.                            *)
(***************************************************************************)
EXTENDS Integers, FiniteSets, FiniteSetsExt

CONSTANTS GraphBank,    \* bank ids
          Name,         \* mentions, trimmed and in lower case, and entities' names
          Near,         \* <<mention, name>>: alike enough to be one entity
          MaxCandidates,\* MAX_RESOLUTION_CANDIDATES
          Linker,       \* who embeds: the backlog, a relink
          ChunkFacts,   \* bound: facts of a chunk
          MaxGraphRow,  \* bound: the highest rowid
          MaxChunks, MaxWipes \* bounds: chunks, deleted banks

ASSUME LinkGraphAssumption ==
    /\ Near \subseteq Name \X Name
    /\ {MaxCandidates, ChunkFacts, MaxGraphRow, MaxChunks, MaxWipes} \subseteq Nat
    /\ IsFiniteSet(Name)

VARIABLES held,     \* rowid -> bank and kind of a node, of every bank that is there
          mentions, \* <<bank, name>> -> mention_count
          named,    \* node_entities: <<rowid, <<bank, name>>>>
          together, \* a pair of entities -> cooccurrence_count
          links,    \* <<from, to, link_type>>
          write,    \* the worker's chunk
          linking,  \* linker -> its pass
          anatomy,  \* bank_anatomy between its two statements, and its counts
          chunks, wipes

tables == << held, mentions, named, together, links >>
graphVars == << tables, write, linking, anatomy, chunks, wipes >>

NoWrite == [pc |-> "idle"]
NoPass == [pc |-> "idle"]
NoAnatomy == [pc |-> "idle"]

HeldBy(b) == {i \in DOMAIN held : held[i].bank = b}
NextRowid == 1 + Max({0} \cup DOMAIN held)

----------------------------------------------------------------------------
(* The retain worker *)

\* insert_batch: the facts of a chunk, under consecutive rowids.
InsertChunk ==
    /\ write = NoWrite /\ chunks < MaxChunks /\ chunks' = chunks + 1
    /\ \E b \in GraphBank, n \in 1 .. ChunkFacts :
          LET ids == NextRowid .. NextRowid + n - 1 IN
          /\ NextRowid + n - 1 <= MaxGraphRow
          /\ held' = [i \in DOMAIN held \cup ids |->
                        IF i \in ids THEN [bank |-> b, kind |-> "fact"] ELSE held[i]]
          /\ write' = [pc |-> "resolve", bank |-> b, ids |-> ids]
    /\ UNCHANGED << mentions, named, together, links, linking, anatomy, wipes >>

\* load_resolution_context: the entities of the bank seen last.
Candidates == LET known == {n \in Name : << write.bank, n >> \in DOMAIN mentions} IN
              kSubset(Min({MaxCandidates, Cardinality(known)}), known)

\* ratio, digits_differ: what the score lets through, whatever company the
\* mention keeps and however old the candidate is.
Scoring(m, candidates) == {n \in candidates : << m, n >> \in Near}

\* resolve_fact: an exact name is the entity; otherwise a candidate that
\* scores, or a new entity of the mention's own name.
Resolved(m, candidates) ==
    IF m \in candidates THEN {m} ELSE {m} \cup Scoring(m, candidates)

\* The mentions of a fact are a set when they are resolved
\* (normalized_mentions); their names are kept as often as they came out.
Resolve ==
    /\ write.pc = "resolve"
    /\ \E candidates \in Candidates, said \in [write.ids -> SUBSET Name] :
       \E name \in [write.ids -> [Name -> Name]] :
          /\ \A i \in write.ids, m \in Name : name[i][m] \in Resolved(m, candidates)
          /\ write' = [pc |-> "entities", bank |-> write.bank, ids |-> write.ids,
                       names |-> [i \in write.ids |->
                                    [n \in Name |-> Cardinality({m \in said[i] : name[i][m] = n})]]]
    /\ UNCHANGED << tables, linking, anatomy, chunks, wipes >>

NamesOf(i) == {<< write.bank, n >> : n \in {m \in Name : write.names[i][m] > 0}}
Occurrences(e) == MapThenSumSet(LAMBDA i : write.names[i][e[2]], write.ids)
SharedBy(pair) == Cardinality({i \in write.ids : pair \subseteq NamesOf(i)})
Mentioning == {i \in write.ids : NamesOf(i) # {}}

\* Two facts of a chunk that name an entity are counted as one.
MutPerChunk(counts, x, n) == 1 + IF x \in DOMAIN counts THEN counts[x] ELSE 0
\* ON CONFLICT DO UPDATE SET count = count + excluded.count
Added(counts, x, n) == n + IF x \in DOMAIN counts THEN counts[x] ELSE 0

\* f with what is counted of the set added.
Upserted(f, set, Count(_)) ==
    [x \in DOMAIN f \cup set |-> IF x \in set THEN Added(f, x, Count(x)) ELSE f[x]]

\* write_entities: one transaction; names count per occurrence, pairs per
\* fact.  A fact that is gone refuses it all.
WriteEntities ==
    /\ write.pc = "entities" /\ Mentioning \subseteq DOMAIN held
    /\ LET of == UNION {NamesOf(i) : i \in write.ids}
           pairs == UNION {kSubset(2, NamesOf(i)) : i \in write.ids} IN
       /\ mentions' = Upserted(mentions, of, Occurrences)
       /\ together' = Upserted(together, pairs, SharedBy)
    /\ named' = named \cup UNION {{i} \X NamesOf(i) : i \in write.ids}
    /\ write' = [write EXCEPT !.pc = "window"]
    /\ UNCHANGED << held, links, linking, anatomy, chunks, wipes >>

\* A write that fails ends the graph of the chunk; its facts stay.
GraphFails ==
    /\ write.pc = "entities" /\ ~ Mentioning \subseteq DOMAIN held
    /\ write' = NoWrite
    /\ UNCHANGED << tables, linking, anatomy, chunks, wipes >>

\* nodes_in_window: nodes of the bank dated near the chunk, of its kind.
ReadWindow ==
    /\ write.pc = "window"
    /\ \E near \in SUBSET {i \in HeldBy(write.bank) : held[i].kind = "fact"} :
          write' = [pc |-> "links", bank |-> write.bank, ids |-> write.ids, near |-> near]
    /\ UNCHANGED << tables, linking, anatomy, chunks, wipes >>

\* insert_links: one transaction, refused when an end is not there.
Linked(batch) == IF {l[1] : l \in batch} \cup {l[2] : l \in batch} \subseteq DOMAIN held
                 THEN links \cup batch ELSE links

\* causal_links and temporal_links.
LinkChunk ==
    /\ write.pc = "links"
    /\ \E causal \in SUBSET (write.ids \X write.ids) :
          links' = Linked({<< l[1], l[2], "caused_by" >> : l \in {c \in causal : c[1] # c[2]}}
                          \cup {<< l[1], l[2], "temporal" >> :
                                  l \in {n \in write.ids \X write.near : n[1] # n[2]}})
    /\ write' = NoWrite
    /\ UNCHANGED << held, mentions, named, together, linking, anatomy, chunks, wipes >>

----------------------------------------------------------------------------
(* Semantic links: the backlog's batch, a page of a relink *)

Set(f, l, pass) == f' = [f EXCEPT ![l] = pass]

\* The nodes just embedded, or read by embedded_after.
BeginLinks(l) ==
    /\ linking[l] = NoPass
    /\ \E i \in DOMAIN held :
          Set(linking, l, [pc |-> "knn", id |-> i, bank |-> held[i].bank])
    /\ UNCHANGED << tables, write, anatomy, chunks, wipes >>

\* knn: nodes of that bank, near enough (SEMANTIC_LINK_THRESHOLD).
Knn(l) ==
    /\ linking[l].pc = "knn"
    /\ \E found \in SUBSET HeldBy(linking[l].bank) :
          Set(linking, l, [pc |-> "types", id |-> linking[l].id, found |-> found])
    /\ UNCHANGED << tables, write, anatomy, chunks, wipes >>

\* node_types: of these rowids, in whatever bank they are now.
NodeTypes(l) ==
    /\ linking[l].pc = "types"
    /\ LET ids == {linking[l].id} \cup linking[l].found IN
       Set(linking, l, [pc |-> "write", id |-> linking[l].id,
                        kinds |-> [i \in ids \cap DOMAIN held |-> held[i].kind]])
    /\ UNCHANGED << tables, write, anatomy, chunks, wipes >>

\* semantic_links: neighbours of the node's own kind.
Alike(id, kinds) == {i \in DOMAIN kinds : i # id /\ id \in DOMAIN kinds /\ kinds[i] = kinds[id]}

WriteLinks(l) ==
    /\ linking[l].pc = "write"
    /\ links' = Linked({<< linking[l].id, j, "semantic" >> :
                          j \in Alike(linking[l].id, linking[l].kinds)})
    /\ Set(linking, l, NoPass)
    /\ UNCHANGED << held, mentions, named, together, write, anatomy, chunks, wipes >>

----------------------------------------------------------------------------
(* What deletes and adds nodes beside them *)

\* insert_observation_tx of a consolidation round.
AddObservation ==
    /\ NextRowid <= MaxGraphRow
    /\ \E b \in GraphBank :
          held' = [i \in DOMAIN held \cup {NextRowid} |->
                     IF i \in DOMAIN held THEN held[i] ELSE [bank |-> b, kind |-> "observation"]]
    /\ UNCHANGED << mentions, named, together, links, write, linking, anatomy, chunks, wipes >>

\* ON DELETE CASCADE of memory_nodes and of entities.  What counts the
\* entities that stay is not touched.
Cascade(ids, entities) ==
    /\ held' = [i \in DOMAIN held \ ids |-> held[i]]
    /\ named' = {m \in named : m[1] \notin ids /\ m[2] \notin entities}
    /\ links' = {l \in links : {l[1], l[2]} \cap ids = {}}

\* drop_duplicate, a plan's delete.
DeleteObservation ==
    /\ \E i \in DOMAIN held : held[i].kind = "observation" /\ Cascade({i}, {})
    /\ UNCHANGED << mentions, together, write, linking, anatomy, chunks, wipes >>

\* banks::delete, and the bank made anew by the next session that uses it.
DeleteBank ==
    /\ wipes < MaxWipes /\ wipes' = wipes + 1
    /\ \E b \in GraphBank :
          /\ Cascade(HeldBy(b), {b} \X Name)
          /\ mentions' = [e \in {x \in DOMAIN mentions : x[1] # b} |-> mentions[e]]
          /\ together' = [p \in {x \in DOMAIN together : \A e \in x : e[1] # b} |-> together[p]]
    /\ UNCHANGED << write, linking, anatomy, chunks >>

----------------------------------------------------------------------------
(* The anatomy of a bank *)

\* The first statement of bank_anatomy.
ReadNodes ==
    /\ anatomy.pc = "idle"
    /\ \E b \in GraphBank : anatomy' = [pc |-> "edges", bank |-> b, ids |-> HeldBy(b)]
    /\ UNCHANGED << tables, write, linking, chunks, wipes >>

\* find: up the parents to a root.
Root(parent, x) ==
    LET up[n \in 0 .. Cardinality(DOMAIN parent)] == IF n = 0 THEN x ELSE parent[up[n - 1]]
    IN up[Cardinality(DOMAIN parent)]

\* The end is hung under the other end, not its root under the other's.
MutEnds(parent, a, b) == [parent EXCEPT ![a] = b]
\* Union: one root under the other.
Union(parent, a, b) == [parent EXCEPT ![Root(parent, a)] = Root(parent, b)]

\* The second: the edges out of the bank's nodes, each counted, and united
\* when both its ends were among the nodes read before.
ReadEdges ==
    /\ anatomy.pc = "edges"
    /\ LET counted == {l \in links : l[1] \in HeldBy(anatomy.bank)}
           joined == {l \in counted : {l[1], l[2]} \subseteq anatomy.ids}
           parent == FoldSet(LAMBDA l, p : Union(p, l[1], l[2]),
                             [i \in anatomy.ids |-> i], joined) IN
       anatomy' = [pc |-> "answered", joined |-> joined,
                   components |-> {{i \in anatomy.ids : Root(parent, i) = r} :
                                     r \in {Root(parent, i) : i \in anatomy.ids}}]
    /\ UNCHANGED << tables, write, linking, chunks, wipes >>

Answered ==
    /\ anatomy.pc = "answered"
    /\ anatomy' = NoAnatomy
    /\ UNCHANGED << tables, write, linking, chunks, wipes >>

----------------------------------------------------------------------------
GraphInit ==
    /\ held = << >> /\ mentions = << >> /\ named = {} /\ together = << >> /\ links = {}
    /\ write = NoWrite /\ linking = [l \in Linker |-> NoPass] /\ anatomy = NoAnatomy
    /\ chunks = 0 /\ wipes = 0

GraphNext ==
    \/ InsertChunk \/ Resolve \/ WriteEntities \/ GraphFails \/ ReadWindow \/ LinkChunk
    \/ \E l \in Linker : BeginLinks(l) \/ Knn(l) \/ NodeTypes(l) \/ WriteLinks(l)
    \/ AddObservation \/ DeleteObservation \/ DeleteBank
    \/ ReadNodes \/ ReadEdges \/ Answered

GraphSpec == GraphInit /\ [][GraphNext]_graphVars

----------------------------------------------------------------------------
\* No entity counts fewer mentions than there are nodes that name it, and no
\* pair fewer meetings than nodes that name both, although counts are added by
\* chunk and nodes vanish by the row (write_entities, the cascades).
CountsCover ==
    /\ \A e \in DOMAIN mentions : Cardinality({m \in named : m[2] = e}) <= mentions[e]
    /\ \A p \in DOMAIN together :
          Cardinality({i \in DOMAIN held : \A e \in p : << i, e >> \in named}) <= together[p]
    /\ \A m \in named : m[2] \in DOMAIN mentions

Connected(edges, i, j) ==
    LET near[n \in 0 .. MaxGraphRow] ==
          IF n = 0 THEN {i}
          ELSE near[n - 1] \cup {l[2] : l \in {k \in edges : k[1] \in near[n - 1]}}
                           \cup {l[1] : l \in {k \in edges : k[2] \in near[n - 1]}}
    IN j \in near[MaxGraphRow]

\* The components of an anatomy are the connected parts of the edges it could
\* join, also when nodes came and went between its two statements.
ComponentsAreParts ==
    anatomy.pc = "answered" =>
        \A c \in anatomy.components : \A i \in c, j \in UNION anatomy.components :
            j \in c <=> Connected(anatomy.joined, i, j)

\* Both: what is counted of a graph agrees with what is in it.
GraphIsCounted == CountsCover /\ ComponentsAreParts

\* "Not possible today - links are written within a bank" (bank_anatomy, of a
\* link whose other end lives in another bank).
LinksStayInBank == \A l \in links : held[l[1]].bank = held[l[2]].bank

\* "A fact naming the same entity twice must not inflate mention_count"
\* (normalized_mentions, resolve_fact): a count grows by one for each fact of
\* the chunk that names the entity.
MentionedOnce ==
    [][\A e \in DOMAIN mentions' :
          mentions'[e] > (IF e \in DOMAIN mentions THEN mentions[e] ELSE 0) =>
             mentions'[e] = Cardinality({i \in write.ids : e \in NamesOf(i)})
                            + (IF e \in DOMAIN mentions THEN mentions[e] ELSE 0)]_graphVars
=============================================================================
