---------------------------- MODULE RetainPipeline ----------------------------
(***************************************************************************)
(* The retain path of memgardend: POST /v1/banks/{bank}/retain, the        *)
(* bounded in-memory queue, the one background worker that extracts and    *)
(* stores a transcript chunk by chunk, and what survives a restart.        *)
(*                                                                         *)
(* A handler runs its SQLite transactions one at a time on a blocking      *)
(* thread, so each is a step of its own; the worker likewise.  jobs, hash, *)
(* sess and facts are the database and survive Kill; everything else is    *)
(* process memory.  Progress, mirror and completion writes are best-effort *)
(* in the code: a failed one is logged and the run goes on (Fault).        *)
(***************************************************************************)
EXTENDS Integers, Sequences, FiniteSets, SessionCursors

CONSTANTS
  Client,      \* connections that may be posting at the same time
  Request,     \* the requests they may post
  Doc,         \* document keys of the bank
  Session,     \* session ids
  Content,     \* normalised transcripts, one per content hash
  Nothing,     \* what plan_ingest gives when there is nothing to retain
  NoHash,      \* a document whose metadata carries no content hash
  Piece,       \* the pieces of text a transcript is made of
  Version,     \* chunker versions of the builds that may be deployed
  Cuts,        \* Cuts[v][c]: the chunks build v cuts content c into
  Capacity,    \* [retain] queue_capacity
  ByteBudget,  \* MAX_QUEUED_BYTES, in transcripts (each weighs one)
  MaxJobs,     \* bound: job rows
  MaxKills,    \* bound: abrupt ends of the process
  MaxTerms,    \* bound: SIGTERMs
  MaxFaults,   \* bound: failed database writes that the code survives
  MaxHangups,  \* bound: connections dropped while their handler runs
  Rollback     \* whether a restart may bring back an older build

ASSUME BoundsAssumption ==
  /\ Capacity \in Nat \ {0} /\ ByteBudget \in Nat /\ MaxJobs \in Nat
  /\ MaxKills \in Nat /\ MaxTerms \in Nat /\ MaxFaults \in Nat
  /\ MaxHangups \in Nat /\ Rollback \in BOOLEAN

ASSUME RequestAssumption ==
  /\ Nothing \notin Content /\ NoHash \notin Content /\ Request # {}
  /\ Request \subseteq [doc : Doc, session : Session,
                        content : Content \cup {Nothing}, from : Nat, to : Nat]

\* A chunk is the set of text pieces it carries; a blank one carries none.
TextCut(v, c) == UNION {Cuts[v][c][k] : k \in DOMAIN Cuts[v][c]}

\* Every build cuts all the text of a transcript.
ASSUME CutsAssumption ==
  /\ Version \subseteq Nat /\ Version # {}
  /\ Cuts \in [Version -> [Content -> Seq(SUBSET Piece)]]
  /\ \A v, w \in Version, c \in Content : TextCut(v, c) = TextCut(w, c)

\* And cuts no piece of it twice: chunks do not overlap.
ASSUME ApartAssumption ==
  \A v \in Version, c \in Content : \A i, k \in DOMAIN Cuts[v][c] :
    i # k => Cuts[v][c][i] \cap Cuts[v][c][k] = {}

VARIABLES
  jobs,      \* retain_jobs: the rows in creation order, a job's id its index
  facts,     \* memory_nodes: how often each job stored each piece of text
  hash,      \* documents: the content hash stamped on each document
  sess,      \* sessions: the cursors of each session
  up,        \* whether a daemon process runs
  build,     \* the chunker version of the running (or last) build
  handler,   \* per connection, its request handler
  queue,     \* the mpsc channel: ids of the queued jobs
  resuming,  \* jobs the startup sender has not yet put in the channel
  held,      \* QUEUED_BYTES
  sigterm,   \* whether this process has been sent SIGTERM
  worker,    \* the retain worker
  accepted,  \* history: jobs whose handler reached its 202
  spent      \* history: how much of each bound is used up

db   == <<jobs, facts, hash, sess>>
ram  == <<handler, queue, resuming, held, sigterm, worker>>
proc == <<up, build>>
vars == <<db, ram, proc, accepted, spent>>

-----------------------------------------------------------------------------
Live     == {"pending", "running"}
Terminal == {"done", "partial", "failed"}

Counts    == [done : Nat, failed : Nat, skipped : Nat]
NoCounts  == [done |-> 0, failed |-> 0, skipped |-> 0]
Tried(n)  == n.done + n.failed + n.skipped
Bump(n, field) == [n EXCEPT ![field] = @ + 1]

\* A retain_jobs row: its request, whether its serialized task is stored, and
\* the chunker version that task was planned with.
JobRow == [status : Live \cup Terminal, req : Request, task : BOOLEAN,
           planned : Version, n : Counts]

JobId == DOMAIN jobs
ReqOf(j) == jobs[j].req
Text(c) == TextCut(CHOOSE v \in Version : TRUE, c)

\* retain_jobs::update: a terminal status drops the stored task.
Written(rows, j, status, n) ==
  [rows EXCEPT ![j].status = status, ![j].n = n,
               ![j].task = @ /\ status \notin Terminal]

Idle == [pc |-> "idle", job |-> 0, n |-> NoCounts, ear |-> "new",
         outcome |-> "none"]
NoHandler == [pc |-> "idle", req |-> CHOOSE r \in Request : TRUE, job |-> 0,
              gone |-> FALSE]

Fault == /\ spent.faults < MaxFaults
         /\ spent' = [spent EXCEPT !.faults = @ + 1]

-----------------------------------------------------------------------------
(***************************************************************************)
(* The request handler.                                                    *)
(***************************************************************************)
At(c, pc) == up /\ handler[c].pc = pc
Goto(c, pc) == handler' = [handler EXCEPT ![c].pc = pc]
Finish(c) == handler' = [handler EXCEPT ![c] = NoHandler]

\* A permit is held from try_reserve until the send, or until the handler is
\* dropped with it.
Permits == {c \in Client : handler[c].pc # "idle" /\ ~handler[c].gone}
FreeSlots == Capacity - Len(queue) - Cardinality(Permits)

\* Handlers that may still insert a row; keeps Len(jobs) within MaxJobs.
Inserting == {c \in Client : handler[c].pc \in {"document", "insert"}}
Room == Len(jobs) + Cardinality(Inserting) < MaxJobs

\* The queue slot is reserved before any database work: a full queue is a
\* clean 429 and a closed one a clean 503, both without effect.
Admit(c, r) ==
  /\ At(c, "idle") /\ worker.pc # "exited" /\ FreeSlots > 0 /\ Room
  /\ handler' = [handler EXCEPT
                   ![c] = [pc |-> "document", req |-> r, job |-> 0, gone |-> FALSE]]
  /\ UNCHANGED <<db, queue, resuming, held, sigterm, worker, proc, accepted, spent>>

\* The metadata a handler writes carries no hash: only a clean run stamps it.
MutEagerHash(r) == r.content
NewHash(r) == NoHash

\* documents::upsert, one transaction: unchanged content is left alone, any
\* other replaces the metadata and with it the stored hash.  A failure is a 500.
UpsertDocument(c) ==
  /\ At(c, "document")
  /\ LET r == handler[c].req IN
     \/ /\ r.content = Nothing \/ hash[r.doc] = r.content
        /\ Goto(c, "settle") /\ UNCHANGED <<hash, spent>>
     \/ /\ r.content # Nothing /\ hash[r.doc] # r.content
        /\ Goto(c, "insert") /\ hash' = [hash EXCEPT ![r.doc] = NewHash(r)]
        /\ UNCHANGED spent
     \/ Fault /\ r.content # Nothing /\ Finish(c) /\ UNCHANGED hash
  /\ UNCHANGED <<jobs, facts, sess, queue, resuming, held, sigterm, worker,
                 proc, accepted>>

\* Nothing to retain, or already ingested: the session is mirrored and the
\* durable cursor follows if nothing is open in front of it.
MirrorAndAnswer(c) ==
  /\ At(c, "settle") /\ Finish(c)
  /\ LET r == handler[c].req IN
     \/ /\ sess' = [sess EXCEPT ![r.session] = MirrorSettled(@, r.to)]
        /\ UNCHANGED spent
     \/ Fault /\ UNCHANGED sess
  /\ UNCHANGED <<jobs, facts, hash, queue, resuming, held, sigterm, worker,
                 proc, accepted>>

\* The job row; the request fails with a 500 when it cannot be inserted.
InsertJob(c) ==
  /\ At(c, "insert")
  /\ \/ /\ jobs' = Append(jobs, [status |-> "pending", req |-> handler[c].req,
                                 task |-> FALSE, planned |-> build, n |-> NoCounts])
        /\ facts' = Append(facts, [p \in Piece |-> 0])
        /\ handler' = [handler EXCEPT ![c] =
                         [@ EXCEPT !.pc = "mirror", !.job = Len(jobs) + 1]]
        /\ UNCHANGED spent
     \/ Fault /\ Finish(c) /\ UNCHANGED <<jobs, facts>>
  /\ UNCHANGED <<hash, sess, queue, resuming, held, sigterm, worker, proc, accepted>>

\* The optimistic half of the mirror.  Never fails the retain.
MirrorSession(c) ==
  /\ At(c, "mirror") /\ Goto(c, "task")
  /\ LET r == handler[c].req IN
     \/ /\ sess' = [sess EXCEPT ![r.session] = MirrorQueued(@, r.to)]
        /\ UNCHANGED spent
     \/ Fault /\ UNCHANGED sess
  /\ UNCHANGED <<jobs, facts, hash, queue, resuming, held, sigterm, worker,
                 proc, accepted>>

\* The row keeps its input until it settles.  A failed write costs only that.
StoreTask(c) ==
  /\ At(c, "task") /\ Goto(c, "enqueue")
  /\ \/ /\ jobs' = [jobs EXCEPT ![handler[c].job].task = TRUE]
        /\ UNCHANGED spent
     \/ Fault /\ UNCHANGED jobs
  /\ UNCHANGED <<facts, hash, sess, queue, resuming, held, sigterm, worker,
                 proc, accepted>>

\* fetch_add within the budget, then the send on the reserved permit and 202.
Enqueue(c) ==
  /\ At(c, "enqueue") /\ ~handler[c].gone /\ held < ByteBudget
  /\ held' = held + 1
  /\ queue' = Append(queue, handler[c].job)
  /\ accepted' = accepted \cup {handler[c].job}
  /\ Finish(c)
  /\ UNCHANGED <<db, resuming, sigterm, worker, proc, spent>>

\* Over budget: fetch_add, fetch_sub, then the row is failed and the answer
\* is 429.  Another handler may read the counter in between.
Overrun(c) ==
  /\ At(c, "enqueue") /\ ~handler[c].gone /\ held >= ByteBudget
  /\ held' = held + 1 /\ Goto(c, "giveback")
  /\ UNCHANGED <<db, queue, resuming, sigterm, worker, proc, accepted, spent>>

GiveBack(c) ==
  /\ At(c, "giveback")
  /\ held' = held - 1 /\ Goto(c, "reject")
  /\ UNCHANGED <<db, queue, resuming, sigterm, worker, proc, accepted, spent>>

RejectJob(c) ==
  /\ At(c, "reject") /\ Finish(c)
  /\ \/ /\ jobs' = Written(jobs, handler[c].job, "failed", NoCounts)
        /\ UNCHANGED spent
     \/ Fault /\ UNCHANGED jobs
  /\ UNCHANGED <<facts, hash, sess, queue, resuming, held, sigterm, worker,
                 proc, accepted>>

\* The server drops the handler of a connection the client closed.  The
\* blocking half runs on to its end; the permit is released and the send
\* after it never happens.
HangUp(c) ==
  /\ up /\ handler[c].pc \in {"document", "settle", "insert", "mirror", "task", "enqueue"}
  /\ ~handler[c].gone
  /\ spent.hangups < MaxHangups
  /\ spent' = [spent EXCEPT !.hangups = @ + 1]
  /\ handler' = [handler EXCEPT ![c].gone = TRUE]
  /\ UNCHANGED <<db, queue, resuming, held, sigterm, worker, proc, accepted>>

Abandon(c) ==
  /\ At(c, "enqueue") /\ handler[c].gone /\ Finish(c)
  /\ UNCHANGED <<db, queue, resuming, held, sigterm, worker, proc, accepted, spent>>

Handle(c) ==
  \/ UpsertDocument(c) \/ MirrorAndAnswer(c) \/ InsertJob(c) \/ MirrorSession(c)
  \/ StoreTask(c) \/ Enqueue(c) \/ Overrun(c) \/ GiveBack(c) \/ RejectJob(c)
  \/ Abandon(c)

-----------------------------------------------------------------------------
(***************************************************************************)
(* The worker: one job at a time, its chunks strictly in order, so the     *)
(* number of chunks tried is the index of the last one.                    *)
(***************************************************************************)
Working(pc) == up /\ worker.pc = pc
Step(pc) == worker' = [worker EXCEPT !.pc = pc]

Chunks == Cuts[build][ReqOf(worker.job).content]
Chunk  == Chunks[Tried(worker.n) + 1]

\* A listener hears a signal only if it was installed before it; it is
\* installed by its first poll.
Ear == IF worker.ear # "new" THEN worker.ear
       ELSE IF sigterm THEN "deaf" ELSE "on"
Interrupted == Ear = "on" /\ sigterm

\* A progress flush is best-effort.
Flush(status, n) ==
  \/ jobs' = Written(jobs, worker.job, status, n) /\ UNCHANGED spent
  \/ Fault /\ UNCHANGED jobs

MutLeakBytes == worker' = Idle /\ UNCHANGED held

\* The end of run_job: the worker is free and the job's bytes are released.
Release == worker' = Idle /\ held' = held - 1

\* The select is biased towards shutdown: a queued job stays queued.
Dequeue ==
  /\ Working("idle") /\ ~sigterm /\ queue # <<>>
  /\ queue' = Tail(queue)
  /\ worker' = [Idle EXCEPT !.pc = "begin", !.job = Head(queue)]
  /\ UNCHANGED <<db, handler, resuming, held, sigterm, proc, accepted, spent>>

MutExitDrained ==
  /\ Working("idle") /\ sigterm /\ queue = <<>> /\ Step("exited")
  /\ UNCHANGED <<db, handler, queue, resuming, held, sigterm, proc, accepted, spent>>

WorkerExit ==
  /\ Working("idle") /\ sigterm /\ Step("exited")
  /\ UNCHANGED <<db, handler, queue, resuming, held, sigterm, proc, accepted, spent>>

\* Where a run of job j begins: the counters its row was left with.
MutFromScratch(j) == NoCounts
ResumeAt(j) == jobs[j].n

MutNeverRecut == FALSE

\* Resume skips chunks by count, which needs the cuts they were counted in.
Recut == Tried(ResumeAt(worker.job)) > 0 /\ jobs[worker.job].planned # build

BeginJob ==
  /\ Working("begin") /\ ~Recut
  /\ Flush("running", ResumeAt(worker.job))
  /\ worker' = [worker EXCEPT !.pc = "loop", !.n = ResumeAt(worker.job)]
  /\ UNCHANGED <<facts, hash, sess, handler, queue, resuming, held, sigterm,
                 proc, accepted>>

RefuseRecut ==
  /\ Working("begin") /\ Recut
  /\ Flush("failed", ResumeAt(worker.job))
  /\ Release
  /\ UNCHANGED <<facts, hash, sess, handler, queue, resuming, sigterm, proc, accepted>>

More == Tried(worker.n) < Len(Chunks)

\* The top of the chunk loop: the wall clock, then shutdown, then the chunk.
WallTimeout ==
  /\ Working("loop") /\ More
  /\ worker' = [worker EXCEPT !.pc = "report", !.outcome = "failed"]
  /\ UNCHANGED <<db, handler, queue, resuming, held, sigterm, proc, accepted, spent>>

PauseBetween ==
  /\ Working("loop") /\ More /\ Interrupted
  /\ Step("pause")
  /\ UNCHANGED <<db, handler, queue, resuming, held, sigterm, proc, accepted, spent>>

SkipBlank ==
  /\ Working("loop") /\ More /\ ~Interrupted /\ Chunk = {}
  /\ worker' = [worker EXCEPT !.pc = "flush", !.n = Bump(@, "skipped"), !.ear = Ear]
  /\ UNCHANGED <<db, handler, queue, resuming, held, sigterm, proc, accepted, spent>>

StartExtract ==
  /\ Working("loop") /\ More /\ ~Interrupted /\ Chunk # {}
  /\ worker' = [worker EXCEPT !.pc = "extract", !.ear = Ear]
  /\ UNCHANGED <<db, handler, queue, resuming, held, sigterm, proc, accepted, spent>>

\* The extraction races the shutdown.
PauseInside ==
  /\ Working("extract") /\ Interrupted
  /\ Step("pause")
  /\ UNCHANGED <<db, handler, queue, resuming, held, sigterm, proc, accepted, spent>>

\* It returned facts and insert_batch committed them in one transaction.
StoreChunk ==
  /\ Working("extract") /\ ~Interrupted
  /\ facts' = [facts EXCEPT ![worker.job] =
                 [p \in Piece |-> @[p] + (IF p \in Chunk THEN 1 ELSE 0)]]
  /\ worker' = [worker EXCEPT !.pc = "flush", !.n = Bump(@, "done")]
  /\ UNCHANGED <<jobs, hash, sess, handler, queue, resuming, held, sigterm,
                 proc, accepted, spent>>

\* The extraction or the transaction failed: the job goes on without it.
ChunkFails ==
  /\ Working("extract") /\ ~Interrupted
  /\ worker' = [worker EXCEPT !.pc = "flush", !.n = Bump(@, "failed")]
  /\ UNCHANGED <<db, handler, queue, resuming, held, sigterm, proc, accepted, spent>>

FlushProgress ==
  /\ Working("flush") /\ Flush("running", worker.n) /\ Step("loop")
  /\ UNCHANGED <<facts, hash, sess, handler, queue, resuming, held, sigterm,
                 proc, accepted>>

FlushPause ==
  /\ Working("pause") /\ Flush("pending", worker.n) /\ Release
  /\ UNCHANGED <<facts, hash, sess, handler, queue, resuming, sigterm, proc, accepted>>

MutLossyDone(n) == IF n.done = 0 /\ n.failed > 0 THEN "failed" ELSE "done"
MutNoPartial(n) == IF n.failed = 0 THEN "done"
                   ELSE IF n.done = 0 THEN "failed" ELSE "running"

\* Every chunk was tried: the outcome, and the completion marks if clean.
Outcome(n) == IF n.failed = 0 THEN "done"
              ELSE IF n.done = 0 THEN "failed" ELSE "partial"

EndLoop ==
  /\ Working("loop") /\ ~More
  /\ LET out == Outcome(worker.n) IN
     worker' = [worker EXCEPT !.pc = IF out = "done" THEN "stamp" ELSE "report",
                              !.outcome = out]
  /\ UNCHANGED <<db, handler, queue, resuming, held, sigterm, proc, accepted, spent>>

\* set_content_hash, then the range confirm: two transactions of one closure,
\* so a failure of the first skips the second.
StampHash ==
  /\ Working("stamp")
  /\ LET r == ReqOf(worker.job) IN
     \/ hash' = [hash EXCEPT ![r.doc] = r.content] /\ Step("confirm") /\ UNCHANGED spent
     \/ Fault /\ Step("report") /\ UNCHANGED hash
  /\ UNCHANGED <<jobs, facts, sess, handler, queue, resuming, held, sigterm,
                 proc, accepted>>

ConfirmOffset ==
  /\ Working("confirm") /\ Step("report")
  /\ LET r == ReqOf(worker.job) IN
     \/ /\ sess' = [sess EXCEPT ![r.session] = ConfirmRange(@, r.from, r.to)]
        /\ UNCHANGED spent
     \/ Fault /\ UNCHANGED sess
  /\ UNCHANGED <<jobs, facts, hash, handler, queue, resuming, held, sigterm,
                 proc, accepted>>

ReportOutcome ==
  /\ Working("report") /\ Flush(worker.outcome, worker.n) /\ Release
  /\ UNCHANGED <<facts, hash, sess, handler, queue, resuming, sigterm, proc, accepted>>

Work ==
  \/ Dequeue \/ WorkerExit \/ BeginJob \/ RefuseRecut \/ WallTimeout
  \/ PauseBetween \/ SkipBlank \/ StartExtract \/ PauseInside \/ StoreChunk
  \/ ChunkFails \/ FlushProgress \/ FlushPause \/ EndLoop \/ StampHash
  \/ ConfirmOffset \/ ReportOutcome

-----------------------------------------------------------------------------
(***************************************************************************)
(* The process: signals, crashes, startup, and the session retention sweep.*)
(***************************************************************************)
Sigterm ==
  /\ up /\ ~sigterm /\ spent.terms < MaxTerms
  /\ sigterm' = TRUE /\ spent' = [spent EXCEPT !.terms = @ + 1]
  /\ UNCHANGED <<db, handler, queue, resuming, held, worker, proc, accepted>>

\* The process is gone and its memory with it.
Die ==
  /\ up' = FALSE
  /\ handler' = [c \in Client |-> NoHandler]
  /\ queue' = <<>> /\ resuming' = {} /\ held' = 0 /\ sigterm' = FALSE /\ worker' = Idle

\* Graceful: the server drains its handlers and main joins the worker.
Exit ==
  /\ Working("exited") /\ \A c \in Client : handler[c].pc = "idle"
  /\ Die
  /\ UNCHANGED <<db, build, accepted, spent>>

Kill ==
  /\ up /\ spent.kills < MaxKills
  /\ Die
  /\ spent' = [spent EXCEPT !.kills = @ + 1]
  /\ UNCHANGED <<db, build, accepted>>

MutKeepStale(rows) == rows

\* fail_stale: unfinished rows without a stored task are closed out.
FailStale(rows) ==
  [j \in DOMAIN rows |->
     IF rows[j].status \in Live /\ ~rows[j].task
     THEN [rows[j] EXCEPT !.status = "failed"] ELSE rows[j]]

\* fail_unfinished: every unfinished row is.
FailUnfinished(rows) ==
  [j \in DOMAIN rows |->
     IF rows[j].status \in Live
     THEN [rows[j] EXCEPT !.status = "failed", !.task = FALSE] ELSE rows[j]]

MutOnlyRunning(rows) == {j \in DOMAIN rows : rows[j].status = "running" /\ rows[j].task}

Resumable(rows) == {j \in DOMAIN rows : rows[j].status \in Live /\ rows[j].task}

\* resumable_tasks: oldest first, while the byte budget lasts; the others and
\* the tasks this build cannot read (bad) are failed.
Admitted(rows, bad) ==
  LET readable == Resumable(rows) \ bad
  IN  {j \in readable : Cardinality({i \in readable : i < j}) < ByteBudget}

Requeued(rows, bad) ==
  [j \in DOMAIN rows |->
     IF j \in Admitted(rows, bad) THEN [rows[j] EXCEPT !.status = "pending"]
     ELSE IF j \in Resumable(rows)
          THEN [rows[j] EXCEPT !.status = "failed", !.task = FALSE]
          ELSE rows[j]]

\* A restart, of this build or of another.  Everything here happens before
\* the listener binds and before the worker starts.  Sessions may have passed
\* the retention cutoff while the daemon was down.
Start ==
  /\ ~up /\ up' = TRUE
  /\ build' \in {v \in Version : Rollback \/ v >= build}
  /\ sess' = [s \in Session |-> [sess[s] EXCEPT !.fresh = FALSE]]
  /\ \/ \E bad \in SUBSET Resumable(jobs) :
          /\ build' = build => bad = {}
          /\ resuming' = Admitted(jobs, bad)
          /\ \/ jobs' = Requeued(FailStale(jobs), bad) /\ UNCHANGED spent
             \/ Fault /\ jobs' = Requeued(jobs, bad)
             \/ \E j \in Resumable(jobs) :
                  Fault /\ jobs' = [Requeued(FailStale(jobs), bad) EXCEPT ![j] = jobs[j]]
     \/ \* the resumable rows cannot be read
        Fault /\ jobs' = FailUnfinished(FailStale(jobs)) /\ resuming' = {}
  /\ held' = Cardinality(resuming')
  /\ UNCHANGED <<facts, hash, handler, queue, sigterm, worker, accepted>>

\* The detached sender puts the resumed jobs in the channel, oldest first, as
\* slots come free; it gives up once the worker is gone.
SendResumed ==
  /\ up /\ worker.pc # "exited" /\ FreeSlots > 0
  /\ \E j \in resuming :
       /\ \A i \in resuming : j <= i
       /\ queue' = Append(queue, j) /\ resuming' = resuming \ {j}
  /\ UNCHANGED <<db, handler, held, sigterm, worker, proc, accepted, spent>>

\* sessions::gc on the metrics tick: a row not written since before the start,
\* or one left alone for the whole retention period.
ExpireSession(s) ==
  /\ up /\ sess[s].present
  /\ \/ ~sess[s].fresh
     \/ /\ worker.pc = "idle" /\ queue = <<>> /\ resuming = {}
        /\ \A c \in Client : handler[c].pc = "idle"
  /\ sess' = [sess EXCEPT ![s] = NoRow]
  /\ UNCHANGED <<jobs, facts, hash, ram, proc, accepted, spent>>

-----------------------------------------------------------------------------
Init ==
  /\ jobs = <<>> /\ facts = <<>>
  /\ hash = [d \in Doc |-> NoHash]
  /\ sess = [s \in Session |-> NoRow]
  /\ up = TRUE /\ build \in Version
  /\ handler = [c \in Client |-> NoHandler]
  /\ queue = <<>> /\ resuming = {} /\ held = 0 /\ sigterm = FALSE /\ worker = Idle
  /\ accepted = {}
  /\ spent = [kills |-> 0, terms |-> 0, faults |-> 0, hangups |-> 0]

Next ==
  \/ \E c \in Client : Handle(c) \/ HangUp(c) \/ \E r \in Request : Admit(c, r)
  \/ Work
  \/ Sigterm \/ Exit \/ Kill \/ Start \/ SendResumed
  \/ \E s \in Session : ExpireSession(s)

Spec == Init /\ [][Next]_vars

(***************************************************************************)
(* A handler that is running goes on, the worker goes on (an extraction    *)
(* ends at its request timeout at the latest), the process manager         *)
(* restarts the daemon, and a resumed job waiting for a slot gets one      *)
(* because the channel's permits are handed out in order of arrival.       *)
(***************************************************************************)
Fairness ==
  /\ \A c \in Client : WF_vars(Handle(c))
  /\ WF_vars(Work) /\ WF_vars(Exit) /\ WF_vars(Start) /\ SF_vars(SendResumed)

FairSpec == Spec /\ Fairness

HandlerState ==
  [pc : {"idle", "document", "settle", "insert", "mirror", "task", "enqueue",
         "giveback", "reject"},
   req : Request, job : Nat, gone : BOOLEAN]

WorkerState ==
  [pc : {"idle", "begin", "loop", "extract", "flush", "pause", "stamp", "confirm",
         "report", "exited"},
   job : Nat, n : Counts, ear : {"new", "on", "deaf"},
   outcome : Terminal \cup {"none"}]

Spending == [kills : 0..MaxKills, terms : 0..MaxTerms, faults : 0..MaxFaults,
             hangups : 0..MaxHangups]

TypeOK ==
  /\ jobs \in Seq(JobRow)
  /\ facts \in Seq([Piece -> Nat]) /\ Len(facts) = Len(jobs)
  /\ hash \in [Doc -> Content \cup {NoHash}]
  /\ sess \in [Session -> SessionRow]
  /\ up \in BOOLEAN /\ build \in Version
  /\ handler \in [Client -> HandlerState]
  /\ queue \in Seq(JobId) /\ resuming \subseteq JobId /\ held \in Int
  /\ sigterm \in BOOLEAN
  /\ worker \in WorkerState
  /\ accepted \subseteq JobId
  /\ spent \in Spending

-----------------------------------------------------------------------------
Stored(f, pieces) == \A p \in pieces : f[p] > 0

Whole(j) == Stored(facts[j], Text(ReqOf(j).content))

\* The first k chunks of a text are stored.
FirstStored(f, chunks, k) == \A i \in DOMAIN chunks : i <= k => Stored(f, chunks[i])

Covers(j, v, k) == FirstStored(facts[j], Cuts[v][ReqOf(j).content], k)

\* A document carries the hash of a content only if some one job of that
\* document stored every piece of its text (`content_sha256` means "this exact
\* content is fully ingested": it is what makes a later post a duplicate).
HashMeansIngested ==
  \A d \in Doc : hash[d] # NoHash =>
    \E j \in JobId : ReqOf(j).doc = d /\ ReqOf(j).content = hash[d] /\ Whole(j)

\* A job row says `done` only if the job stored every piece of its text, over
\* however many restarts it took.
DoneMeansIngested == \A j \in JobId : jobs[j].status = "done" => Whole(j)

RowsAreSound ==
  \A j \in JobId :
    jobs[j].n.failed = 0 =>
      \E v \in Version : /\ jobs[j].planned <= v /\ v <= build
                        /\ Covers(j, v, Tried(jobs[j].n))

WorkerIsSound ==
  worker.pc \notin {"idle", "begin", "exited"} /\ worker.n.failed = 0 =>
    Covers(worker.job, build, Tried(worker.n))

\* A count of chunks means the same text when it is written, when it is read
\* back after a restart and when the worker acts on it: a row with no failed
\* chunk has its first Tried chunks stored as some build since its planning cut
\* them, and the worker's own count holds in the running build.
ResumeIsSound == RowsAreSound /\ WorkerIsSound

\* A job stores a piece of text once; a kill, or a progress write that failed,
\* costs at most one repeat each (the skip by count resumes after the last
\* chunk the row accounts for).
RepeatsAreAccountedFor ==
  \A j \in JobId, p \in Piece : facts[j][p] <= 1 + spent.kills + spent.faults

InHandler(j) == {c \in Client : handler[c].job = j /\ ~handler[c].gone}
InQueue(j)   == {i \in DOMAIN queue : queue[i] = j}
Holders(j) == Cardinality(InHandler(j)) + Cardinality(InQueue(j))
              + (IF j \in resuming THEN 1 ELSE 0)
              + (IF worker.job = j THEN 1 ELSE 0)

\* A running daemon has a job in one place at most, a settled job nowhere, and
\* an unfinished one somewhere, unless it was paused for a shutdown, its handler
\* was dropped or a write about it failed: no job runs twice and none is left
\* waiting with nobody to run it.
JobsAreHeldOnce ==
  up => \A j \in JobId :
    /\ Holders(j) <= 1
    /\ jobs[j].status \in Terminal => Holders(j) = 0
    /\ /\ jobs[j].status \in Live /\ ~sigterm
       /\ spent.faults = 0 /\ spent.hangups = 0
       => Holders(j) = 1

\* The byte budget counts exactly the transcripts in memory (plus the requests
\* about to give theirs back), on every path through handler, queue, startup
\* and worker; reserved slots and queued jobs never exceed the queue.
QueueIsAccountedFor ==
  /\ held = Len(queue) + Cardinality(resuming) + (IF worker.job # 0 THEN 1 ELSE 0)
            + Cardinality({c \in Client : handler[c].pc = "giveback"})
  /\ Len(queue) + Cardinality(Permits) <= Capacity

\* Both: every job, slot and byte is held once.
JobsAreAccountedFor == JobsAreHeldOnce /\ QueueIsAccountedFor

\* What a job row may do: it keeps its request, its progress never falls back,
\* it loses its stored task only by settling, and once settled it is frozen.
RowsOnlyAdvance ==
  [][\A j \in JobId :
       /\ jobs'[j].req = jobs[j].req
       /\ Tried(jobs'[j].n) >= Tried(jobs[j].n)
       /\ jobs[j].task /\ ~jobs'[j].task => jobs'[j].status \in Terminal
       /\ jobs[j].status \in Terminal => jobs'[j] = jobs[j]]_vars

\* Both: a job's progress is never lost, and never counted twice.
ProgressIsKept == []RepeatsAreAccountedFor /\ RowsOnlyAdvance

\* While a session has bytes posted and not known ingested, the durable cursor
\* moves only over a range that starts at or before it and that one job stored
\* whole: no later success confirms over an earlier gap.
ConfirmNeverCrossesGap ==
  [][\A s \in Session :
       sess[s].present /\ sess[s].confirmed < sess[s].byte
         /\ sess'[s].confirmed > sess[s].confirmed =>
       \E j \in JobId : /\ ReqOf(j).session = s /\ Whole(j)
                        /\ ReqOf(j).from <= sess[s].confirmed
                        /\ ReqOf(j).to = sess'[s].confirmed]_vars

\* A job that was answered 202 settles, through any pauses, kills and restarts.
AcceptedSettles ==
  \A j \in 1..MaxJobs :
    j \in accepted ~> j \in JobId /\ jobs[j].status \in Terminal

\* SIGTERM ends the process.
ShutdownEnds == sigterm ~> ~up

(***************************************************************************)
(* The pipeline implements the ledger: a row is an entry, open until its   *)
(* status is terminal, whole once every piece of its text is stored.       *)
(***************************************************************************)
LedgerEntries ==
  [j \in JobId |-> [doc |-> ReqOf(j).doc, content |-> ReqOf(j).content,
                    whole |-> Whole(j),
                    state |-> IF jobs[j].status \in Live THEN "open"
                              ELSE jobs[j].status]]

BlankContent == {c \in Content : Text(c) = {}}

Ledger == INSTANCE IngestLedger WITH entries <- LedgerEntries, mark <- hash,
                                     Blank <- BlankContent

\* Every step of handlers, worker, crash and startup is a step of the ledger
\* or leaves it alone.
ImplementsLedger == Ledger!Spec

\* documents.rs: read, compare and write are one transaction because "two
\* concurrent retains of the same session would otherwise both see "changed"
\* and both extract".
OneOpenJobPerContent ==
  \A i, j \in JobId :
    /\ jobs[i].status \in Live /\ jobs[j].status \in Live
    /\ ReqOf(i).doc = ReqOf(j).doc /\ ReqOf(i).content = ReqOf(j).content
    => i = j

\* sessions.rs: "the durable cursor only ever advances to an offset the
\* optimistic one already reached".
CursorsNeverInvert == \A s \in Session : sess[s].confirmed <= sess[s].byte

\* retain/mod.rs: "a long job must react to SIGTERM between chunks": no chunk
\* is begun once the signal is in.
NoChunkAfterSigterm ==
  [][sigterm => ~(worker.pc = "loop" /\ worker'.pc = "extract")]_vars
=============================================================================
