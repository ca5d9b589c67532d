------------------------------ MODULE BankRows ------------------------------
(***************************************************************************)
(* A bank that is deleted, and perhaps made anew, while documents are      *)
(* posted to it and a job of it runs (routes/banks.rs, banks.rs,           *)
(* documents.rs, and what the retain route and its worker hold).           *)
(*                                                                         *)
(* SQLite gives a deleted document's rowid to the next one when it was the *)
(* greatest.  Handlers and the worker know a document by its rowid alone;  *)
(* that the row and the bank are there is checked by the foreign keys of   *)
(* what they insert, and by nothing where they update.  A restart forgets  *)
(* every job whose row went with its bank: RetainPipeline has it.          *)
(***************************************************************************)
EXTENDS Integers, Sequences, FiniteSetsExt

CONSTANTS Bank, Key, Content, NoHash,
          ChunksOf,               \* content -> for every chunk, has it facts
          Client,                 \* requests at a time
          MaxPosts, MaxDeletions

ASSUME BankRowsAssumption ==
    /\ ChunksOf \in [Content -> Seq(BOOLEAN)] /\ NoHash \notin Content
    /\ {MaxPosts, MaxDeletions} \subseteq Nat

VARIABLES banks,   \* the bank_ids there are
          documents,    \* rowid -> bank, doc_key, metadata.content_sha256
          jobs,    \* job -> the row of retain_jobs
          facts,   \* the facts in memory_nodes: of a job's chunk, bank, document_id
          handler, \* the retain requests
          queue,   \* the tasks that wait for the worker
          worker,  \* and the one it runs
          haunted, \* history: rowids given to a document while a task or a
                   \* handler still held them for a deleted one
          posts, deletions

rowVars == << banks, documents, jobs, facts, handler, queue, worker, haunted, posts, deletions >>

Idle == [pc |-> "idle"]
NoDocument == 0
NextRow == 1 + Max(DOMAIN documents \cup {0})

\* Who knows a document by rowid r.
Holding(r) ==
    \/ \E h \in Client : handler[h].pc \in {"insert", "send"} /\ handler[h].row = r
    \/ \E i \in DOMAIN queue : queue[i].row = r
    \/ worker.pc # "idle" /\ worker.row = r

----------------------------------------------------------------------------
(* banks.rs *)

\* POST /v1/banks: 409 for one that is there.
CreateBank(b) ==
    /\ b \notin banks /\ banks' = banks \cup {b}
    /\ UNCHANGED << documents, jobs, facts, handler, queue, worker, haunted, posts, deletions >>

\* The rows of retain_jobs stay when their bank goes.
MutKeepJobs(b) == jobs
\* ON DELETE CASCADE: jobs go with their bank.
JobsWithout(b) == [j \in {k \in DOMAIN jobs : jobs[k].bank # b} |-> jobs[j]]

\* DELETE /v1/banks/{id}: documents and facts go too, and a fact of another
\* bank under one of those documents loses it (ON DELETE SET NULL).
Delete(b) ==
    /\ b \in banks /\ deletions < MaxDeletions /\ deletions' = deletions + 1
    /\ banks' = banks \ {b}
    /\ documents' = [r \in {q \in DOMAIN documents : documents[q].bank # b} |-> documents[r]]
    /\ jobs' = JobsWithout(b)
    /\ facts' = {[f EXCEPT !.doc = IF @ \in DOMAIN documents' THEN @ ELSE NoDocument] :
                    f \in {g \in facts : g.bank # b}}
    /\ UNCHANGED << handler, queue, worker, haunted, posts >>

----------------------------------------------------------------------------
(* POST /v1/banks/{id}/retain *)

\* prepare finds the bank, and leaves it.
Post(h, b, k, c) ==
    /\ handler[h] = Idle /\ posts < MaxPosts /\ posts' = posts + 1
    /\ b \in banks
    /\ handler' = [handler EXCEPT ![h] =
                     [pc |-> "upsert", job |-> posts', bank |-> b, key |-> k, content |-> c]]
    /\ UNCHANGED << banks, documents, jobs, facts, queue, worker, haunted, deletions >>

\* The request goes on with the document's row, or ends.
Holds(h, row) ==
    handler' = [handler EXCEPT ![h] =
                  [pc |-> "insert", job |-> @.job, bank |-> @.bank, content |-> @.content,
                   row |-> row]]
Replied(h) == handler' = [handler EXCEPT ![h] = Idle]

\* documents::upsert: a duplicate, a row that forgets its hash, a new row, or
\* the foreign key of a bank that is gone.
Upsert(h) ==
    /\ handler[h].pc = "upsert"
    /\ LET b == handler[h].bank
           same == {r \in DOMAIN documents :
                      documents[r].bank = b /\ documents[r].key = handler[h].key}
       IN  \/ /\ \E r \in same :
                    IF documents[r].hash = handler[h].content
                    THEN Replied(h) /\ UNCHANGED documents
                    ELSE Holds(h, r) /\ documents' = [documents EXCEPT ![r].hash = NoHash]
              /\ UNCHANGED haunted
           \/ /\ same = {} /\ b \in banks
              /\ Holds(h, NextRow)
              /\ documents' = [r \in DOMAIN documents \cup {NextRow} |->
                            IF r = NextRow
                            THEN [bank |-> b, key |-> handler[h].key, hash |-> NoHash]
                            ELSE documents[r]]
              /\ haunted' = IF Holding(NextRow) THEN haunted \cup {NextRow}
                            ELSE haunted \ {NextRow}
           \/ /\ same = {} /\ b \notin banks
              /\ Replied(h) /\ UNCHANGED << documents, haunted >>
    /\ UNCHANGED << banks, jobs, facts, queue, worker, posts, deletions >>

\* An insert without its foreign keys.
MutNoKeys(task) == TRUE
\* The foreign keys of a job's row, and of a fact's.
KeysHold(task) == task.bank \in banks /\ task.row \in DOMAIN documents

\* retain_jobs::insert
InsertJob(h) ==
    /\ handler[h].pc = "insert"
    /\ IF KeysHold(handler[h])
       THEN /\ jobs' = [j \in DOMAIN jobs \cup {handler[h].job} |->
                          IF j = handler[h].job
                          THEN [bank |-> handler[h].bank, content |-> handler[h].content,
                                status |-> "pending"]
                          ELSE jobs[j]]
            /\ handler' = [handler EXCEPT ![h].pc = "send"]
       ELSE Replied(h) /\ UNCHANGED jobs
    /\ UNCHANGED << banks, documents, facts, queue, worker, haunted, posts, deletions >>

\* permit.send, 202
Send(h) ==
    /\ handler[h].pc = "send"
    /\ queue' = Append(queue, [handler[h] EXCEPT !.pc = "run"])
    /\ Replied(h)
    /\ UNCHANGED << banks, documents, jobs, facts, worker, haunted, posts, deletions >>

----------------------------------------------------------------------------
(* The worker *)

Flushed(j, status) ==
    jobs' = IF j \in DOMAIN jobs THEN [jobs EXCEPT ![j].status = status] ELSE jobs

Take ==
    /\ worker = Idle /\ queue # << >>
    /\ worker' = [pc |-> "run", job |-> Head(queue).job, bank |-> Head(queue).bank,
                  content |-> Head(queue).content, row |-> Head(queue).row,
                  at |-> 1, failed |-> FALSE]
    /\ queue' = Tail(queue)
    /\ Flushed(worker'.job, "running")
    /\ UNCHANGED << banks, documents, facts, handler, haunted, posts, deletions >>

InChunk == worker.pc = "run" /\ worker.at <= Len(ChunksOf[worker.content])
NextChunk(failed) == worker' = [worker EXCEPT !.at = @ + 1, !.failed = @ \/ failed]

\* write_facts: nothing to insert, or a transaction with its foreign keys.
StoreChunk ==
    /\ InChunk
    /\ IF ~ChunksOf[worker.content][worker.at] THEN NextChunk(FALSE) /\ UNCHANGED facts
       ELSE IF KeysHold(worker)
       THEN /\ facts' = facts \cup {[job |-> worker.job, content |-> worker.content,
                                     chunk |-> worker.at, bank |-> worker.bank,
                                     doc |-> worker.row]}
            /\ NextChunk(FALSE)
       ELSE NextChunk(TRUE) /\ UNCHANGED facts
    /\ UNCHANGED << banks, documents, jobs, handler, queue, haunted, posts, deletions >>

ChunkFails ==
    /\ InChunk /\ NextChunk(TRUE)
    /\ UNCHANGED << banks, documents, jobs, facts, handler, queue, haunted, posts, deletions >>

\* documents::set_content_hash, by rowid, after a clean run.
Stamp ==
    /\ worker.pc = "run" /\ ~InChunk /\ ~worker.failed
    /\ documents' = IF worker.row \in DOMAIN documents
               THEN [documents EXCEPT ![worker.row].hash = worker.content] ELSE documents
    /\ worker' = [worker EXCEPT !.pc = "end"]
    /\ UNCHANGED << banks, jobs, facts, handler, queue, haunted, posts, deletions >>

EndJob ==
    /\ \/ worker.pc = "end" /\ Flushed(worker.job, "done")
       \/ /\ worker.pc = "run" /\ ~InChunk /\ worker.failed
          /\ \E status \in {"partial", "failed"} : Flushed(worker.job, status)
    /\ worker' = Idle
    /\ UNCHANGED << banks, documents, facts, handler, queue, haunted, posts, deletions >>

BankRowsInit ==
    /\ banks = Bank /\ documents = << >> /\ jobs = << >> /\ facts = {}
    /\ handler = [h \in Client |-> Idle] /\ queue = << >> /\ worker = Idle
    /\ haunted = {} /\ posts = 0 /\ deletions = 0

BankRowsNext ==
    \/ \E b \in Bank : CreateBank(b) \/ Delete(b)
    \/ \E h \in Client :
          \/ \E b \in Bank, k \in Key, c \in Content : Post(h, b, k, c)
          \/ Upsert(h) \/ InsertJob(h) \/ Send(h)
    \/ Take \/ StoreChunk \/ ChunkFails \/ Stamp \/ EndJob

BankRowsSpec == BankRowsInit /\ [][BankRowsNext]_rowVars

----------------------------------------------------------------------------
(* Properties *)

BankRowsTypeOK ==
    /\ banks \subseteq Bank /\ haunted \subseteq 1 .. MaxPosts
    /\ \A r \in DOMAIN documents : documents[r].hash \in Content \cup {NoHash}
    /\ \A f \in facts : f.chunk \in DOMAIN ChunksOf[f.content]

\* The facts of a content, in a bank, under a document or any.
Stored(c, some) ==
    \E j \in {f.job : f \in some} \cup {0} :
       \A i \in DOMAIN ChunksOf[c] :
          ChunksOf[c][i] => \E f \in some : f.job = j /\ f.content = c /\ f.chunk = i

\* "A document is a duplicate only when fully ingested": where a hash is
\* stamped the facts are there, unless the row was given to this document
\* while a job of a deleted one still held it.
HashIsEarned ==
    \A r \in DOMAIN documents \ haunted :
       documents[r].hash # NoHash
         => Stored(documents[r].hash, {f \in facts : f.bank = documents[r].bank /\ f.doc = r})

\* A job that is answered as done has its facts in the store; with the bank
\* both go, and a bank made anew brings neither back.
DoneIsThere ==
    \A j \in DOMAIN jobs :
       jobs[j].status = "done"
         => Stored(jobs[j].content, {f \in facts : f.job = j /\ f.bank = jobs[j].bank})

\* A fact is in a bank that is there, under a document of that bank, with the
\* same exception.
FactsBelong ==
    \A f \in facts :
       /\ f.bank \in banks
       /\ f.doc # NoDocument =>
             /\ f.doc \in DOMAIN documents
             /\ documents[f.doc].bank = f.bank \/ f.doc \in haunted

\* However deletions come between the steps of requests and jobs, what is
\* left of documents, jobs and facts agrees.
RowsAgree == HashIsEarned /\ DoneIsThere /\ FactsBelong

\* "this exact content is fully ingested", without the exception.
HashMeansIngestedHere ==
    \A r \in DOMAIN documents :
       documents[r].hash # NoHash
         => Stored(documents[r].hash, {f \in facts : f.bank = documents[r].bank /\ f.doc = r})

\* "links never cross banks" needs facts and documents not to, either.
FactsStayInTheirBank ==
    \A f \in facts : f.doc \in DOMAIN documents => documents[f.doc].bank = f.bank
=============================================================================
