# A TLA+ development for memgarden

memgarden is a memory daemon for Claude Code. A daemon, `memgardend`, keeps
banks of extracted facts in SQLite and talks to a local Ollama; a small command
line program, `memgarden`, runs from Claude Code's hooks, posts the growing
transcript of each session to the daemon and injects recalled facts into
prompts. This directory models the parts of it whose correctness depends on
order, failure and restart, or on calculations that are easy to get wrong, checks
the models with TLC, and proves the most important properties with TLAPS for
every value of the constants.

Paths below are relative to `src/crates/`.

## 1. Inventory

| component | state | operations | hard behaviour | what makes it correct |
|---|---|---|---|---|
| retain route (`memgardend/src/routes/retain.rs`) | reserved queue slots, the job it is creating | POST retain, GET job | five transactions and a counter per request, each may fail; a closed connection drops the handler between any two | a slot and a byte charge for each queued job, no job in two places, never an answer "duplicate" for text that was not ingested |
| retain worker (`memgardend/src/retain/mod.rs`) | job under way, its progress, byte counter | dequeue, chunk loop, end of job, resume | minutes per job, SIGTERM and the wall clock in the middle, best-effort writes | a job is `done` only if all its text is stored; resume neither skips nor multiplies text; every accepted job settles |
| job rows (`memgarden-store/src/retain_jobs.rs`) | `retain_jobs` | insert, update, stored task, startup sweeps | written by handler, worker and startup | a settled row is final, progress never falls back |
| document rows (`memgarden-store/src/documents.rs`) | content hash per document | upsert, stamp | hash means "fully ingested" and is read by later posts | stamped only after a clean run |
| session mirror (`memgarden-store/src/sessions.rs`) | two cursors per session | upsert with two guarded channels, gc | deltas settle out of order, the row may be swept in between | the durable cursor never crosses a gap |
| daemon process (`memgardend/src/main.rs`, `lib.rs`, the systemd unit) | running or not, signal received | start, resume, drain, exit, kill | each task has its own signal listener | SIGTERM ends the process, a restart resumes |
| task ledger (`memgardend/src/retain/ledger.rs`, store `task_ledger.rs`) | one row per bank | detached upsert after admission | a slow older write against a newer one | the row of the newest transcript wins |
| retain hook (`memgarden-cli/src/cmd/retain.rs`, `state.rs`, `cmd/mod.rs`) | state file per session: cursor, pending job, breaker, poison | Stop hook, forced child of SessionEnd | lost replies, wiped or overwritten state file, one job in flight | everything said before the cursor was taken in or is watched by the pending job; every line is taken in in the end |
| recall hook (`cmd/recall.rs`) | the same file, unlocked when the lock is taken; what the session was shown | record, emit | read-modify-write against a retain in progress | never undoes a cursor for good; what is kept from the model is before it |
| catch-up, session start and end (`cmd/catchup.rs`, `session_start.rs`, `session_end.rs`) | the same file | forced advance, recovery from the mirror, a new context | a selection that is stale when used | as the hook |
| hook installation (`settings.rs`, `cmd/hooks.rs`) | `settings.json`, backups | install, uninstall as edits of text | other writers between read and rename | what others wrote is kept, uninstall undoes install |
| command line plumbing (`http.rs`, `cmd/self_update.rs`, `cmd/update_check.rs`) | binaries, backups, notes of the update check | request, update, notice | slow or wrong peers, an update that stops anywhere | an answer in time and of this daemon; no migration without a backup |
| configuration (`memgarden-core/src/config.rs`) | none | file, environment, profile, validation | four layers, the last one beneath the others | a profile never overrides what was set |
| consolidation (`memgardend/src/consolidate/`, store `consolidate.rs`) | claims, run rows, watermark | round, background tick, manual POST | a round is many transactions around model calls | no fact skipped, none applied twice but after a lost mark |
| mental models (`memgardend/src/mental/`, store `mental_models.rs`) | content, two clocks, vector | refresh, patch, schedule, re-embedding at a start | minutes between read and write | no fact folded in twice, a vector of the current text, a due document is refreshed |
| embedding backlog (`memgardend/src/embed_task.rs`, store `nodes.rs`) | vector per node or none | drain, edit, dedup merge | text edited while its vector is computed | a vector belongs to the current text; the backlog drains |
| Ollama client (`memgardend/src/ollama.rs`) | one permit, health status | interactive and background calls, prober | retries, deadlines and dropped calls under the permit | permits are not lost, background work is not starved |
| memory nodes, links, entities (store `nodes.rs`, `graph.rs`, `memgardend/src/links.rs`, `entities.rs`) | nodes, edges, counts | store chunk, supersede, restore, link, anatomy | edges added in any order over rowids that come back | supersession is acyclic, links stay in their bank, counts cover what they count |
| recall (`memgardend/src/recall/`, `rerank.rs`, store `search.rs`) | none | query | several reads of a changing table | live rows only, within limit and budget, a thing said once |
| transcript normaliser (`retain/transcript.rs`) | none | messages to retained text | overlapping marks, caps before and after | what is marked private is not retained, nothing else is lost |
| chunker (`retain/chunk.rs`) | none | text to chunks | recursion over separators and budgets | a chunk is itself when cut again, fits, and nothing is lost |
| extraction (`memgardend/src/extract/`) | none | reply to facts | references by position through drops and caps | a fact refers to what the model said it refers to |
| temporal parsing (`temporal/`) | none | words to a period | phrases that contain each other, turns of weeks and years | a phrase means its own period |
| migration (`memgardend/src/migrate/`, `mg_migrate`) | target database, marker in a bank, snapshot directory | snapshot, import, verify | interruption half way, a daemon started in between | a marker and a verdict are true |
| store plumbing (`memgarden-store/src/migrate.rs`, `lib.rs`, `conn.rs`) | schema version | open, migrate, backup | a newer file, a crash between versions | an older build refuses |
| banks, HTTP surface, metrics, dashboard | rows, counters | CRUD, routing, feeds | bank deleted under a running job | |

How they interact. The hook posts `[offset_from, byte_offset)` of a transcript;
the route upserts the document, inserts a job row, advances the optimistic
cursor of the session, stores the job's input in its row and sends the job
through a bounded channel to the one worker. The worker cuts the text into
chunks, asks Ollama about each, commits each chunk's facts in one transaction,
and at the end stamps the document, confirms the byte range on the session and
writes the terminal status. The hook later reads that status (or, with no state
file, the session's durable cursor) and decides what to post next. Consolidation
and the task ledger look at the worker's byte counter and stay out of its way;
recall, mental models and consolidation read the facts. The backlog embeds what
the others store, and links it. SQLite gives one writer at a time, so a
transaction is an atomic step; nothing spans two of them.

## 2. Plan

All modules of the first plan are written: the retain path (`SessionCursors`,
`RetainPipeline`, `IngestLedger`), the hooks (`HookRetain`, `Injection`), what the
daemon does behind its requests (`Consolidation`, `MentalModels`, `NodeVectors`,
`OllamaPermit`, `Supersession`, `TaskLedger`, `LinkGraph`), what runs when it is asked
for (`Recall`, `Migration`, `HookInstall`, `Settings`, `SelfUpdate`, `BankRows`), and
the calculations (`Transcript`, `Chunker`, `ExtractedFacts`, `TemporalQuery`,
`HttpClient`, `Verification`; `Selections` for two of them).

Left: `RetainSystem`, the hook and the pipeline composed, with the daemon of
`RetainPipeline` in the place of `Settles`, `Queues` and `Settle`.

## 3. Modules

| module | role |
|---|---|
| `SessionCursors` | the cursor arithmetic of one row of `sessions`, as operators |
| `RetainPipeline` | route, queue, worker, rows, crash, restart, shutdown, deploy |
| `IngestLedger` | what the retain path promises, as a state machine of its own |
| `HookRetain` | the hooks of one session, its state file and lock, and the daemon as they see it |
| `Injection` | what one session is shown, and what its hooks remember of it |
| `Consolidation` | the rounds of one bank |
| `MentalModels` | the documents of one bank and their refreshes |
| `NodeVectors` | embeddings and their index, beside everything that rewrites texts |
| `OllamaPermit` | the permit, its line, the calls' attempts, the health status |
| `Supersession` | which fact replaces which |
| `TaskLedger` | the working-state row of a bank |
| `LinkGraph` | entities, counts, links, the anatomy of a bank |
| `Recall` | one recall over a table that changes under it |
| `Migration` | snapshot, import, verify, and a daemon in between |
| `Verification` | the tiers of verify against an import that may be wrong and a daemon that writes |
| `HookInstall` | install and uninstall as edits of a text others edit too |
| `Settings` | the layers of a configuration |
| `SelfUpdate` | an update beside the service it replaces, and its notice |
| `BankRows` | a bank deleted, and made anew, under the requests and the job that fill it |
| `Transcript`, `Chunker`, `ExtractedFacts`, `TemporalQuery`, `HttpClient` | calculations on what came in |
| `Selections` | operators: what sorting and filtering make of a list, for `Recall` and `ExtractedFacts` |
| `MCRetain`, `MCHook`, `MCDaemon`, `MCOnDemand`, `MCInputs` | the small instances |
| `RetainPipeline_proofs` | type correctness and the control invariant; soundness of hashes, done rows, counts and confirms |
| `RetainLedger_proofs` | where a job is, the refinement of `IngestLedger`, progress |
| `Hooks_proofs` | `HookRetain`: no line is skipped, no job is stacked, the mirror's cursor is durable, the lock keeps provenance; `HttpClient`: answers in time |
| `Background_proofs` | `Supersession`: no cycle of retractions; `NodeVectors`: vectors are of their texts; `MentalModels`: documents are current; `TaskLedger`: no late task replaces a later transcript; `OllamaPermit`: no permit is lost, no observation is laundered |
| `Consolidation_proofs` | the watermark passes decided facts, nothing is applied twice, merges move sources |
| `LinkGraph_proofs` | counts cover what they count, a link joins one component and adds to none |
| `OnDemand_proofs` | `SelfUpdate`: no schema is left behind without a backup; `BankRows`: rows agree under deletions; `Migration`: the watermark splits imported from native facts, markers and verdicts say what is so; `Injection`: memories are shown once; `Settings`: a profile is a layer |
| `Recall_proofs` | `Recall`: an answer fits and says a thing once; `ExtractedFacts`: a reference stays with what it names |

### `RetainPipeline` and the code

State. `jobs` is the `retain_jobs` table in creation order (a job's id is its
index); `facts` counts, per job, how often each piece of its text was stored;
`hash` is `documents.metadata.content_sha256`; `sess` the `sessions` rows. These
four are the database. `handler[c]` is the request handler on connection `c` with
the place it has reached, `queue` the mpsc channel, `resuming` the jobs the
startup sender still holds, `held` the counter `QUEUED_BYTES`, `worker` the
worker's job, counts, listener and outcome, `sigterm` whether this process was
signalled; `Kill` and `Exit` lose all of these. `accepted` and `spent` are
history: jobs answered 202, and how much of each bound is used.

Steps. A handler runs its transactions one at a time on a blocking thread, so
`Admit`, `UpsertDocument`, `InsertJob`, `MirrorSession`, `StoreTask`, `Enqueue`
follow `retain_inner` and `prepare` in order, with `MirrorAndAnswer` for the
duplicate and the empty post and `Overrun`, `GiveBack`, `RejectJob` for the
budget. The worker's actions are the awaits of `run_job_inner`: `BeginJob` or
`RefuseRecut`, per chunk `SkipBlank` or `StartExtract` followed by `StoreChunk`,
`ChunkFails` or `PauseInside`, then `FlushProgress`; at the end `StampHash`,
`ConfirmOffset`, `ReportOutcome` are three separate writes. `Start` is the part of
`main` before the listener binds: the sweeps of unfinished rows and the choice of
jobs to resume; `SendResumed` is the detached sender.

Failure. A database write the code survives by logging (or by a 500) may fail:
`Fault`. `Kill` is SIGKILL, a crash, a power loss, or systemd's
`TimeoutStopSec=30` running out. `HangUp` is axum dropping the handler of a closed
connection: the blocking half runs on, the rest never happens.

Data. A transcript is a model value of `Content`; `Cuts[v][c]` is the sequence of chunks
build `v` cuts it into, each a set of `Piece`s. Every build cuts all of the text
(`CutsAssumption`), and no piece of it twice (`ApartAssumption`): chunks do not overlap,
which is a part of what `ChunksAreSound` checks of `Chunker`. A transcript weighs one
unit of `ByteBudget`.

Signals. `shutdown_signal()` hears SIGTERM only from its first poll on. The worker
polls its own from its start, but each job makes another: `worker.ear` is `new`
until the first poll, then `on`, or `deaf` if the signal was already in.

Abstracted: what happens inside a chunk (extraction, links, entities,
supersession) is one step with three outcomes; the wall clock may run out between
any two chunks; a start includes installing the worker's listener, so a signal in
the milliseconds before that is not modelled; new requests are admitted after
SIGTERM as long as the worker lives, which the draining server mostly refuses;
the metrics, embedding, consolidation and mental-model tasks that `main` also
joins are left out of `Exit`; saving the row cap's victims (`retain_jobs::insert`)
fails like the insert itself.

### `IngestLedger`

An entry per accepted transcript, open, then settled once; `done` only if whole;
a document is marked with a content only when an open entry of it is whole. The
refinement maps a row to an entry, `Live` to open, the stored pieces to `whole`,
and `hash` to `mark`.

### `HookRetain` and the code

State. `len` and `torn` are the transcript: whole lines, and whether Claude Code
has flushed part of the next one; a byte offset of the code is the number of
lines before it. `file` is `<state_dir>/<sid>.json` as `state.rs` reads it, `lock`
the lock file beside it, `hook[p]` a process of the binary (`pc` is the place it
has reached, `st` the state it loaded and will store, `req` the body it posts),
`recall` the one recall process, `late` the posts whose client has given up and
that the daemon may still handle. `bank`, `jobs`, `docs`, `row` and `lastChunk`
are the daemon's tables. `taken` and `spent` are history.

Steps. `Stop`, `SessionEnd`, `CatchUp` and `SessionStart` are how a process comes
to hold a state: `Stop` with its recovery from the mirror (`Recover`) when there
is no file, the two forced ones by way of `picked`, which is the window between
the spawn or the selection and the load under the lock (`Begin`), the start by
way of `greeted`, between its two round trips and its lock (`Greet`). Then
`retain::advance`: `SkipTurn` is the throttles, `Advance` the reconcile followed
by `Read` (turn gate, size, delta), `Answered`, `OverBudget`, `Refused` and
`TimedOut` the rows of the accept table, `Store` the rename and `Leave` the end of
the lock. Holding the lock across the round trips, as the code does, is what makes
load, post and store three steps of one process and not one.

The daemon's side of a post is `Settles` (nothing to keep, or a duplicate) or
`Queues`, and `Settle` the end of a job. `SessionCursors` gives the mirror, the
same operators that `RetainPipeline` uses. `DeleteBank` is the cascade.

Data. A line is `said` (a message the daemon keeps), `brief` (a message it
answers `skipped`) or `quiet` (skipped by the reader). A job takes in the said
lines of its range when it ends `done` or `partial`: a partial job settles for the
hook, and the chunks it lost are the daemon's to report.

Counters. `turns`, `transport` and `rejects` stop at their thresholds, past which
nothing reads them. `breaker` and `poisoned` are the two stamps; `CooldownEnds`
and `PoisonWindowEnds` are the passing of their windows.

Abstracted: the transcript only grows (the code's test for one that shrank is
`Read`'s first line, and documents that it covers half of the cases); the size cap
that drops leading messages, `unconfirmed_bytes` and the count of compactions are
reported and never read; a mirror write that fails and the steps inside the
daemon are in `RetainPipeline`; a 202 without a job id changes nothing, as a 503
does; a job whose bank is deleted ends with it, where the real worker goes on and
fails on missing rows, which is in `BankRows`; the kernel's drop of a killed
process's lock is part of `Die`.

### `Injection` and the code

`state` is the part of the session's file that says what was injected
(`injected_uuids`), the transport failures and the breaker; `shown` is what the
model's context holds. `RecallBegins` takes the snapshot a request is made of,
`Fetch` is the request, `Record` and `Emit` follow `cmd/recall.rs` in that order;
`RetainBegins` and `RetainEnds` are the load and the store of a retain, which
holds the lock in between; `ContextEnds` is Claude Code giving a context up and
`SessionStarts` the hook that runs then. `KillHook` is Claude Code's time limit of
a hook, `LoseState` the state directory's collection. `lapsed` and `cut` are
history: which records were lost, and whether a hook died where the file and the
context part. `HookRetain` has the rest of the same file. `record` takes the lock if
it is free and goes on without it if it is not (`with_try_lock`), so `Record` has no
guard on the lock.

### What the daemon does behind its requests

`Consolidation`. `mark` is the highest watermark of the run rows, `round[a]` the
round of a caller (the tick, or POST) with its claim, its queue of ranges and what
it has read; `obs` are the observation rows. A round is `Begin`, then per range
the reads, the model's answer (a plan out of all the plans that cite what the
prompt listed), the application in one transaction, the deduplication of what the
plan touched (`Adjudicate` picks a twin and asks, `Merge` is the transaction an
answer leads to, `Vanished` the observation that is gone by then), and the run row;
`Halves` is the bisection of a range that was refused or did not fit. Retains,
retractions and restorations go on beside it, and a round may fail, die with the
process, or be dropped (`Drop`): by the tick at its deadline, or with the connection
of a client. The claim is given back at once; a transaction that it awaited on a
blocking thread is a member of `strays` and commits when it does (`LatePlan`,
`LateMerge`, `LateFinish`), perhaps beside the next round. Texts are the sets of
facts whose details they preserve, under a model that does what its prompts ask.

`MentalModels`. A pass takes the page of documents that `list` gives, refreshes
those due, one by one, and each refresh is read, model call and write by id; the
route, the cron tick and the end of a round are three callers with one claim per
document. PATCH and the re-embedding of a start read and write apart from it.
`committed` is the order of commits, which is not that of `created_at`. A PATCH
during a refresh is overwritten by it, as in the code. A client that hangs up ends
the claim of its refresh (`HangUp`); the write it may have begun is work of `"late"`,
which holds no claim (`LateWrite`). `crossed` is history: documents that were read
while such a write was under way.

`NodeVectors`. `rows`, `index` and the batch the worker holds; a text and a vector
are the number of the writing. A round that rewrites a text embeds it itself.

`OllamaPermit`. tokio's semaphore with its line, the wait of an interactive caller,
the attempts of a call, its deadline, a caller dropped anywhere; and `status`,
which calls and the prober write from what they read before.

`Supersession`, `TaskLedger`, `LinkGraph`. The rows, and what a request or the
worker holds of them between its statements. Deleted rows and rowids that SQLite
gives again are in all three. In `LinkGraph` a bank is deleted and made anew in one
step, and likeness of names, nearness of vectors and of dates are arbitrary
relations.

### What runs when it is asked for

`Recall`: the arms, the two reads of their rows, fusion, restatements, the cut to
a budget, and the fallback banks; rowids found before may have been given to other
rows. The three statements that read a row's parts are one step.
`Migration`: each of the three tools write by write; a legacy bank goes on being
written, a daemon may be started at any time and works on what it finds.
`Verification`: the database as the import leaves it, then up to two errors of an
import or writes of a daemon that is running again (rows lost, doubled, exchanged,
altered, filed elsewhere or in another order, links, documents, runs and markers lost;
a fact retained, a round that gives a source to a migrated observation, rewrites or
deletes it), then the comparison in one step, row by row where the code goes row by
row and as sums where it sums.
`HookInstall`: a file is the list of its members and of the hooks of each, with
which of them begin a line; others change it between any two steps of a command, on
lines of ours too. What would leave a comma behind, in an event or in the root, is not
written.
`BankRows`: the tables `banks`, `documents`, `retain_jobs` and the facts, the
requests and the worker with the rowids they hold between their transactions, and
`DELETE /v1/banks/{id}` with its cascade at any time; a document's rowid may be
given again while a request or a task still holds it (`haunted`). Restarts, slots and
bytes are in `RetainPipeline`.
`Settings`: every key some other key, preset or check reads. `SelfUpdate`: the two
renames of each of two binaries, the service that systemd restarts at any time and
that migrates when it starts, the backups; an answer without a schema is as no answer,
and a service that systemd does not run just then is not restarted.

### Calculations

`Transcript`, `Chunker`, `ExtractedFacts` and `TemporalQuery` have an Init that
enumerates small inputs and one action, the function; `Verification` has the steps that
may spoil a database before it; `HttpClient` has the steps of a connection and a clock.
A text is a sequence over the few letters or marks that the code tells apart, a query
the phrase it contains, in each spelling of the rules and in those that people write and
the rules lack, a reply the fields of its facts. What is computed is compared with what
it is for: a period with the calendar, chunks with the text, references with what the
reply named.

## 4. Runs

| run | instance | properties |
|---|---|---|
| `crash` | 2 connections, 2 jobs, 1 kill, 1 failed write, 1 dropped connection, queue and byte budget of 1 | `HashMeansIngested`, `JobsAreAccountedFor`, `ImplementsLedger`, `ConfirmNeverCrossesGap` |
| `deploy` | 1 connection, 2 jobs, 2 builds with different cuts, upgrades only, 1 kill, 1 SIGTERM, fairness | `ResumeIsSound`, `ProgressIsKept`, `AcceptedSettles`, `ShutdownEnds` |
| `delivery` | 2 processes, 2 lines, one of each misfortune, two or three kinds of them together (`Few`) | `NothingSkipped`, `NoStacking`, `MirrorIsDurable`, `LockKeepsProvenance` |
| `retry` | 1 process, 2 lines, thresholds of 2; 1 failed job, 2 outages or rejections, fairness | `EveryLineTakenIn` |
| `daemon` | eight parts, with fairness | `WatermarkIsDecided`, `ReplaysAreSpoils`, `SourcesAreMoved`, `FactsAreDecided`, `DocumentsAreCurrent`, `DueIsRefreshed`, `VectorsAreAccountedFor`, `BacklogDrains`, `NoRetractionCycle`, `ModelIsAccountedFor`, `CallsEnd`, `LedgerNeverGoesBack` |
| `ondemand` | eleven parts | `VerdictsAreHonest`, `WatermarkSplits`, `FileStaysTheirs`, `AnswerIsSound`, `GraphIsCounted`, `ProfileIsALayer`, `MigratedBehindBackup`, `ShownOnce`, `RowsAgree` |
| `inputs` | six calculations over all their small inputs | `PrivateStaysOut`, `ChunksAreSound`, `ReferencesAreKept`, `QueryMeansItsPeriod`, `AnsweredInTime`, `VerdictIsRight` |
| `rollback`, `wipe`, `ended`, `starve`, `crossing` | smallest instances that show a disagreement | section 6 |

The modules of `MCDaemon`, `MCOnDemand` and `MCInputs` share no variables. Their
instance is a sum: `part` says which of them moves, the others stay where they begin,
and the properties of all are checked together. `daemon` takes 718 thousand states,
`ondemand` 2.8 million, `inputs` 289 thousand, `crash` 1.6 million, `deploy` 518
thousand. The mental models are three parts: `models` the passes with PATCH and
deletion, `gone` the passes with a client that hangs up, `start` the re-embedding of a
start beside everything else, in one instant and with one fact. The graph is three:
`names`, `joins` and `anatomy`; `SelfUpdate` two, the update and its notice.

What they show of the retain path. `HashMeansIngested` is the reason a later post
may be answered "duplicate": it survives two handlers racing on one document, a job
overtaken by a later post, a kill at every step of the end of a job. That a `done`
job has stored all its text is a part of `ImplementsLedger`, whose entries settle as
`done` only if whole; `DoneMeansIngested`, which says it alone, is what `rollback`
refutes.
`ProgressIsKept` says that a row never goes back and bounds the cost of
at-least-once: one repeat of a piece per kill or failed write.
`JobsAreAccountedFor` says no job is run by two and none is left with nobody, and
every slot and byte is given back, on every path through handler, channel, startup
and worker. `ConfirmNeverCrossesGap` is what the hook's recovery relies on.
`NothingSkipped` is the promise of the hook: the transcript is the spool, so a
cursor may fall back and never run ahead; it holds with every misfortune, and
without the lock, for a copy of an old state claims less. `NoStacking` is why a
clean job may move the durable cursor, and `MirrorIsDurable` why a lost file may be
rebuilt from it. `LockKeepsProvenance` is what the lock is needed for: two hooks
that load one state post two different deltas under one document. It is claimed
where nothing worse happens than jobs that fail and outages: a post handled after
its client gave up overwrites the metadata of its document with less, and a file
that is lost or never saved takes the next document's number with it (`wipe`).

Of what the daemon does behind its requests. `WatermarkIsDecided` is that no round skips
a fact for good: a range is cut in two when it does not fit, the halves are taken in
order, two callers and their deadlines interleave with retains. `ReplaysAreSpoils`
counts the duplicates: none without a mark that was lost or came late, or a plan that a
dropped round left behind. `SourcesAreMoved` is the merge, whose two observations the
next round's plan or a stray may have changed or deleted since they were read.
`DocumentsAreCurrent` is two claims on a document, that no fact is folded in twice,
unless a write outlived its claim, and that its vector is of its text.
`VectorsAreAccountedFor` compares the embedding column, its index and the text, with the
rows that were rewritten under a writer as the exception the code leaves open.
`NoRetractionCycle` is what recall needs, lest a set of facts hide one another.
`ModelIsAccountedFor` is that a dropped call cannot lose the permit or its place in the
line, and that the status does not forget a model off the card. The liveness properties
are that facts are decided on, vectors drain, due documents are refreshed and background
calls end, over everything that may be deferred, dropped or refused.

Of what runs on demand. `VerdictsAreHonest`: a bank marked done is whole, and one that
verify passes was imported from those very bytes, whatever was stopped, repeated or
snapshotted again. `WatermarkSplits`: no round re-derives what an import brought or
misses what came after, over rowids that begin again; not where a daemon was started
while an import ran, which may do both. `FileStaysTheirs`: uninstall undoes install, and
an edit of others is lost only between a command's last look and its rename.
`AnswerIsSound`: nothing retracted, nothing over the budget, nothing twice.
`GraphIsCounted`: counts cover what they count, and the components of an anatomy are the
parts of what it joined. `MigratedBehindBackup`: an update stopped anywhere, with
restarts anywhere, leaves no migrated database without a backup, unless it went on
without an answer, or the daemon that an interrupted update left at its path was started
under a later one (`outrun`). `ShownOnce`: what the file bars is before the model, what
is before it is not sent again; a killed hook and a lost record are the exceptions.
`RowsAgree`: however a bank is deleted under its requests and jobs, a stamped hash has
the facts of its content in its bank, a `done` job its own, and a fact the bank of its
document; rows whose rowid was given again while someone held it are the exception, and
what happens to those is in section 6.

Bounds. In `MCRetain` `MaxJobs`, `MaxKills`, `MaxTerms`, `MaxFaults`, `MaxHangups`
cap rows and faults. The instances have one session and three pieces of text; the
posts are a first delta, the same document grown, a second delta and an empty one.
Two pieces of text and two chunks are the least that can be half done; a blank
chunk occurs in the grown content so that chunk counts and stored text differ. One
kill per run is enough for the code has no memory of earlier kills beyond the row
it left; `deploy` combines a kill with a shutdown so that a job is resumed twice
and by the other build. In `MCHook` a misfortune has a budget of its own; two lines
are the least that can be two deltas, one delta or a delta and a torn line, and
`MaxChunk` = 4 is more documents than such a session can reach. In `MCDaemon` two
facts in batches of two are the least that can be bisected; two commits and two
instants are the least that can straddle a refresh; three rowids the least for a
cycle over a deleted row; two interactive callers and one in the background on one
permit the least for a line of two. In `MCOnDemand` four runs of a tool are a
snapshot, an import that stops, another snapshot or import, and a verify; three
rows of a graph are two linked nodes and one that takes a rowid; three releases with
a schema each are the least for a daemon of an interrupted update to run under a
later one; two posts and a deletion over contents of three and one chunks are the
least for a rowid that comes back under a job half done. In `MCInputs` a
plain text has up to six of four characters, a reply up to four facts, every phrase
is asked on days around the turns of weeks, months, years and a leap day. Two errors or
writes are the least that exchange two things, or hide one behind another; one
bank of `Verification` has facts in two documents, a document without any and two
observations that share their sources, the other a document and a text of the same
names. Every bound is a constant of its module. With the bounds used up, or
nothing asked, the system idles for ever: `CHECK_DEADLOCK FALSE`. Symmetry, over
connections, is used in `crash` alone, whose properties are safety. Larger instances
that were checked by hand: any three of outage, late post and slip at once in
`HookRetain` (3.4 million states), two banks of `Migration` with three runs (6.2
million), five rows of `Recall` (3.5 million), three posts and two deletions in
`BankRows` (8.1 million).

The type invariants of the modules hold on the same instances; those of
`RetainPipeline`, `HookRetain`, `Supersession` and `TaskLedger` are proved, and those
of the other modules in `_proofs` are parts of their inductive invariants.

Fairness. In `deploy`: `WF(Handle(c))`: a handler is a task that awaits only SQLite.
`WF(Work)`: the worker awaits SQLite, the channel and Ollama, whose request deadline
ends an extraction; its choice between storing and failing a chunk is not assumed.
`WF(Exit)`: main joins the server and the worker. `WF(Start)`: `Restart=always`.
`SF(SendResumed)`: the sender waits on a tokio channel, whose permits are given in
order of arrival, so it cannot be overtaken for ever by handlers. No fairness on
`Sigterm`, `Kill`, `Admit`, faults or hangups.

In `HookRetain`, used by `retry` and `ended`: a process that has begun goes on
(`WF(Run(p))`: timeouts bound every round trip) and gets its turn at the lock
(`SF` of `Begin` and `Greet`: `flock` waits), the daemon settles its jobs, the two
windows end because time passes, a partial line is completed. `LivingSpec` adds
that Stops keep coming, which only a session in use has, and `EveryLineTakenIn`
assumes that the session does not end for good; `EndedSpec` instead adds that the
session ends and that later sessions' catch-ups come for ever. No fairness on any
misfortune, on writing new lines, or on which way a post is answered.

In `daemon`, for the part that moves: the tick begins a round when it may
(`Begin(Tick)`, an interval of tokio), a round that has begun goes on (its model
calls and its deadline end), the retain queue empties now and then
(`RetainSettles`; the tick is deferred while it does not); the cron tick begins a
pass and a refresh that has begun goes on, a transaction of the worker commits; the
backlog worker reads and writes (`backlog_poll_secs`); a call of the model goes on,
for every attempt has a timeout. None on POST, PATCH, kills, failures, on the
interactive callers' coming or on what the model answers; failures are bounded by a
constant, as they must be for anything to be decided in the end. That the embedder
loads, which a tick of the cron waits for, is assumed.

## 5. Proofs

`RetainPipeline_proofs` proves `TypeCorrect == Spec => []TypeOK` for any
connections, requests, contents, builds, capacity and bounds. `TypeOK` is not
inductive: that `worker.job` indexes `jobs` when `worker.pc` says it holds a job,
and the same for handlers, is needed to type the rows they write, hence
`Control` and `Typed == TypeOK /\ Control`.

It proves next, under `~Rollback`, the inductive invariant

    Ingest == Typed /\ Planned /\ ResumeIsSound /\ WorkerIsDone
              /\ DoneMeansIngested /\ HashMeansIngested

The argument. A hash is stamped by a worker with outcome `done`, so the worker
must be known to have stored all (`WorkerIsDone`). It has the outcome `done` when
it has tried every chunk and none failed; that the chunks tried are stored is
`ResumeIsSound` for the worker's own count, which starts from the row's count,
hence `ResumeIsSound` for rows; a row's count may have been made by an earlier
build, and is used by this one only if nothing was counted or the versions agree,
which needs that the plan's version is no later than any build that ran
(`Planned`) and builds only go up (`~Rollback`). `facts` only grow, rows keep
their requests, and every build cuts all the text, so what was whole stays whole.
From `Ingest` follow `HashIsSound`, `DoneIsSound`, `CountsAreSound`, and
`ConfirmIsSound` (the action property `ConfirmNeverCrossesGap`).

`RetainLedger_proofs` has three results about where a job is.

`JobsAreAccounted` comes from `Accounted == Typed /\ Places /\ Counted`. That no job
is in two places (`Apart`) cannot be carried alone: a step that takes a job from a
handler, the queue or the startup's set must know that what it took was unfinished
(`HeldIsOpen`), that a control point without a job has none (`Shapes`), and, for a
restart, that a dead process holds nothing. `Counted` adds up the slots and bytes; its
steps are about which summand an action changes, over finite sets whose one element
comes or goes.

`PipelineImplementsLedger`, under `~Rollback`: with the entries of the ledger defined
from rows and facts, every step of the pipeline is one of the ledger's or leaves it
alone. That a step which settles an entry settles it once needs `Accounted` (the job a
worker ends was live), that it is `done` only if whole needs `Ingest`.

`ProgressIsAccounted`, under `~Rollback`. `Progress` says of every row, and of the
worker's own count (`RowsCount`, `WorkerCounts`), that a piece was stored at most once
more than counts were lost, to a kill or a failed write, and the once more only if
the count that is left has its chunk. Storing the next chunk repeats a piece only if
an earlier chunk has it too, which `ApartAssumption` excludes; a job that a second
build goes on with was not counted by the first (`RefuseRecut`), or is cut alike.

Assumptions: `BoundsAssumption`, `RequestAssumption`, `CutsAssumption`,
`ApartAssumption` (of the last theorem alone), evaluated by TLC in every run, and
`~Rollback` as a hypothesis of the theorems that rest on `Ingest` and of these two
(without it `rollback` is a counterexample).

`Hooks_proofs` proves `HookTypeCorrect == Spec => []TypeOK` (with the one fact
the types lack: a partial line has room to be completed) and, from the inductive
invariant `Sound`, `CursorSkipsNothing`, `MirrorConfirmsDurably` and
`JobsAreNotStacked`, for any number of hook processes, any transcript, thresholds
and budget of misfortunes, with `HookAssumption` alone.

The argument. Call a line number covered when everything said up to it was taken
in. The state file alone is not enough for an induction: hooks and the recall
process hold copies of it and write them back in any order, so `Sound` makes the
same claim, `Held`, of every copy: without a pending job the cursor is covered;
with one, the job has the range the copy describes, the cursor is where it ends,
and it is covered up to where it begins. `Held` names only facts that never become
false: jobs keep their range (`Extends`; deleting the bank makes them `gone`) and
`taken` grows, so an overwritten, stale or resurrected copy is still sound
(`HeldKept`). Accepting a job gives such a copy. A settled job covers its range and a
failed one leaves the copy where it began, so both ways out of `reconcile()` reach
a covered cursor, which is where a post, and with it a job, begins (`JobsSound`);
a request already ingested covers its range because stamps are of lines taken in
(`StampsSound`). The mirror merges only cursors that are covered, hence a recovered
state is too.

`LockSavesProvenance` needs another invariant, `Locked`, which holds as long as no
more than failed jobs and outages happened (`Calm`): one process at a time holds a
state, and the document number in it is past every job that stands, and stays so
should its own job fail (`Numbered`); the file is behind only while its next version
is about to be stored. Then a post describes a document anew only after its job
failed. It assumes that `NoFile` is not a state (`NoFileAssumption`).

`AnswersAreOnTime` of `HttpClient`: what the head said when it was accepted stays
known while the body is read, and the clock does not pass a deadline once there is one.

`Background_proofs` has five modules of what the daemon does behind its requests.
`RetractionsAreAcyclic`, for any banks, rows, stamps and clocks, follows from the
invariant `Sound`: every retraction goes from a pair (`created_at`, rowid) to a greater
one (`Forward`). It is not enough that the guard of `mark_superseded` compares the two:
the pairs must not change under the edges, so `Sound` also says what rowid the next
insert gets (`NextIdIsNew`), that deletion clears the edges into the rows it takes, and
what the chunk of the worker may still mark. A finite set of nodes then has a greatest
pair, whose edge leaves the set. `VectorsAreSound`: every text that the backlog or the
re-embedding of a start holds is the text of its row, unless the row was raced
(`Fresh`). `DocumentsStayCurrent`: callers refresh different documents (`Works`), so the
watermark that a refresh read is still the document's and what it will fold in is newer
(`Marks`), while all that was folded in is not (`Folds`), unless the document was
`crossed`: a write that outlived its claim is known to be of another document than every
caller's, or of one that a caller has read since (`Left`); what a refresh, a PATCH or a
start read of a text is still the text, unless the document was `overlapped` (`Names`,
`Reads`). `NewestTranscriptStays` follows from `Ahead`: at most one task is in flight,
and it is of a job at least as new as every row's, with a clock at least as late once it
has read it.
`ModelStaysAccountedFor`, for any callers, permits and
attempts. The count of the permits is inductive with the types, over lemmas on lines
without repetition: one served, one that leaves from the middle, one that joins. The
status is not: `Health` adds that a probe which runs while the model is off the card
has read that, and that whoever is about to write "ready" has seen a failure.

`Consolidation_proofs`. For `WatermarkPassesDecided` the invariant is about the one
round in progress: its facts are in rowid order with no undecided fact between them
(`FactsInOrder`), its queue has what is left as adjoining ranges (`InOrder`; `Halves`
and taking the head keep that), and what is before the next range is decided
(`DecidedTo`). A run row that a dropped round left has a mark of decided facts
(`Strays`). `FactsAreAppliedOnce`: how often a fact was applied, and how often a stray
plan will yet apply it, are counted together (`Given`). A fact is `Kept` if the bank's
mark covers it, or a round has it behind it that will write one, and no round has it
before it (`ToCome`): such a fact is given at most once more than there are spoils, any
other at most as often. Whoever loses a mark, writes one late or leaves a plan adds one
spoil, which pays for all of its facts. `MergesMoveSources` is about steps: none but a
plan's takes a source away from the observations of the bank. A merge, of a round or
left behind, is between two that are there, or refused (`BothLive`), and of two
different ones (`Sides`).

`LinkGraph_proofs` proves `GraphsAreCounted`, for any banks, rows, names and bounds.
The invariant `GraphInv` has three parts. `TablesSound`: what an id names is an entity
that is there, of a row that is there; two entities that one row names are counted as
a pair (`MetIsCounted`); a counter is no less than the set it counts (`CountsCover`).
`WriteSound`: nothing names the rows of the chunk that is being written, which is why
adding their occurrences to a counter covers them (`OccurrencesCover`: a sum of
occurrences is no less than the number of rows that have one). `AnatomySound`: the
answer of an anatomy are the parts of what it joined (`ComponentsAreParts`). Following
the parents ends at a root (`RootIsReached`); joining two roots unites two parts and
leaves the others (`UnionUnites`, and along the list of the links `FoldUnites`); what
`Connected` computes by iteration is closed (`NearIsClosed`). The list of the links and
the sum over a set are folds of the community modules. What they compute is proved by
the least counterexample (`LeastOf`, `SmallestOf`), which is first-order; the recursive
function that a fold stands for is shown to exist before it is used (`IterationIs`,
`FoldIs`).

`OnDemand_proofs`. `MigratesBehindBackup` holds for any releases, schemas, bounds and
snoozes. The invariant `Saved` says of everything that may raise the schema later, a
daemon that opens the file, a binary at the service's path, an update past its check,
that by then there is a backup, or one of the two exceptions holds. This proof, which
asks of no number of schemas, is how the second exception was found.
`DeletedBanksLeaveNothing`: a job is in one place (`OnePlace`), the rows that its task
knows are its own as far as they are there and were not given again (`RowsAreTheirs`),
and a run without a failure has the facts of every chunk behind it, in the bank and
under the document that its rows will name when it ends (`ChunksBehind`).
`MarksSplit`: rounds leave a watermark at or below a row of its bank (`RoundsAreSound`),
so a new rowid, which is above all rows, is above every mark; and where no daemon was
started under it, an import has its bank to itself from its purge to its marker
(`ImportIsAlone`).
`VerdictsAreKept`: the invariant `Honest` says of every row which archive it is of, one
row of facts and one of observations a bank (`RowsTell`), of an import in progress what
its steps so far have written (`Written`), and of a bank marked done that it is `Bare`
or `Whole`. What verify compares is weaker than what is claimed, one sum over all banks:
a bank that is missed makes the sum smaller (`SumIsLess`, whatever the order of the sum,
`SumInAnyOrder`), and no other bank can make up for it, since none has a row twice.
`MemoriesAreShownOnce`: what is on the list of a session's file, or of the copy of it
that a retain holds, is in the context or about to be printed (`BarredIsShown`), and
what is in the context is on the list or has lapsed (`ShownIsBarred`). That nothing
else falls from the list needs the lemma `NotedIsListed`: a list without repetitions is
as long as its set, so the cap drops nothing that fits under it. `NoStateAssumption`
says that a file lost is told from every file.
`ProfilesAreLayers`: `from_parts` notes what was set and puts the preset over the rest;
the theorem says that this is the same as a preset put under what was set. It assumes
of the environment only that the variables are those that `load` asks for: a variable
for a mission or a budget would have to be noted in `explicit`, and there is none.

`Recall_proofs` has what is taken from a list and keeps its sense. To be reasoned about,
the two models select and sort with `Picked` and `InOrder` of `Selections` in place of
the operators of the library, which are recursive or leave the order to CHOOSE; a finite
set with a strict total order can be listed in it (`OrderIsThere`), by the least
counterexample again, and then all of it and nothing twice (`InOrderLists`, `PickedIs`).
What a sum over a finite set is comes from `LinkGraph_proofs`. `AnswersAreSound`, for
any banks, texts and bounds: the invariant `RecallInv` says of every row, in the table
or read, that its words are those of its text and that a fact stands on nothing
(`RowSound`), of what was read for the bank at hand that it was live and of that bank
(`ReadSound`), and of what the fallback banks gave so far that it is without what the
client has (`Gathered`). The rest is about one ranking (`OutcomeIs`) and one merge
(`MergedIs`): a list that is picked from another has each place of it once (`Within`),
so its tokens, a sum over its places (`TokensIs`), are no more (`FewerTokens`), and what
was cut to the budget stays within it when items are withheld behind the cut. That a
restatement leaves one of the two (`RankedStandsOnce`) needs that no source is itself an
observation. `RecallAssumption` says that texts which are equal have the same words, and
that a text has a number of tokens. `ReferencesFollow`, for any replies and any facts
listed in the prompt. The facts that are kept are counted off in the order of the reply,
so the new index of one, the number of those kept before it and one, is where the
compaction put it (`SurvivorsAre`). What a fact may refer to is told from the reply
alone (`CausesAre`, `SupersedesIs`), and what the renumbering leaves of that is what was
kept (`ReindexedIs`). It assumes that what the model names are lists of integers
(`ExtractedFactsAssumption`), of any sign and size.

The prover's limits. Model-checked only, and why:

- liveness: `AcceptedSettles`, `ShutdownEnds`, `EveryLineTakenIn`, `FactsAreDecided`,
  `BacklogDrains`, `DueIsRefreshed`, `CallsEnd`;
- what a recursive definition computes: `ChunksAreSound`, `FileStaysTheirs` (their
  modules declare RECURSIVE operators);
- what a function computes that walks a sequence, or a selection of the library,
  which needs an induction over data: `VerdictIsRight`, `PrivateStaysOut`,
  `QueryMeansItsPeriod`.

## 6. Where the code and its words disagree

Five runs end with a counterexample:

- `rollback`: `retain/mod.rs:206` says a change of chunker fails the job instead
  of skipping text. A job planned by build A, begun by build B before anything was
  counted, and resumed by A passes both checks and is `done` with text missing.
- `wipe`: the chunk is mirrored so that a hook that lost its state file does not
  post under a document already used (`routes/retain.rs:109`). What is mirrored is
  the chunk of the last posted delta, and recovery uses it as it is, so the next
  delta overwrites that document's metadata; after one delta it is chunk 0, the
  case the column was added for.
- `ended`: the book says a failed retain is re-sent by the next session's catch-up
  (`book/src/usage.md:155`). `catchup::select` compares the cursor, which moved on
  the 202, with the file's size and never looks at `pending`: the last delta of a
  session, posted by its SessionEnd child, is not looked at again when its job
  fails, unless the session is resumed.
- `starve`: `mental/cron.rs:203` says a bank with more documents than a pass takes
  catches up over the following passes, in `list`'s stable order. That order is by
  the latest refresh, so a pass reads the documents it has just refreshed.
- `crossing`: `graph.rs:1060` says a link into another bank is not possible. A
  semantic pass keeps rowids over three transactions, and SQLite gives the rowid of
  a deleted row to the next insert, of whichever bank. `anatomy` then counts the
  link and does not join it.

More are stated as properties of the modules that the code does not keep. TLC
refutes each one when it is put in the place of the properties of the cfg named,
with the constants given:

| property | module, cfg | what the words say and what happens |
|---|---|---|
| `OneOpenJobPerContent` | `MCRetain_crash` | `documents.rs:42`: one transaction keeps two posts of a session from both extracting. The hash it compares is stamped when a job ends, so two posts before that both extract. |
| `NoChunkAfterSigterm` | `MCRetain_deploy` | `retain/mod.rs:423`: a long job reacts to SIGTERM between chunks. A signal between the dequeue and the job's first poll is not heard by that job. |
| `CursorsNeverInvert` | `MCRetain_crash` | `sessions.rs:103`: the durable cursor cannot pass the optimistic one. A mirror write that fails is swallowed (`routes/retain.rs:544`); the worker's confirm then creates the row with only the durable cursor. |
| `RecallKeepsCursor` | `MCHook_delivery` | `state.rs:496`: a recall that does not wait for the lock costs at most a counter. It writes the whole state back, so it can undo the cursor and the pending job stored in between; lines are then sent again. |
| `RecallLeavesRecovery` | `MCHook_delivery` | `cmd/recall.rs:383`: a healthy recall creates no state file, for that would disable the recovery from the mirror. In `full` mode what it injected is part of the state, so it does. |
| `TextCoversSources` | `MCDaemon_daemon`, 3 facts in a batch, 2 adjudications, 3 creates | a merge is asked to keep every detail of both texts; of a chain of merges in one dedup (`consolidate/mod.rs:229`) the second reads a text from before the first. |
| `RestoredIsConsolidated` | `MCDaemon_daemon` | a fact that is superseded while a round passes it, and restored later, is below the watermark and never consolidated. |
| `IndexIsOfItsRows` | `MCDaemon_daemon` | `migrations/0001_init.sql:81`: the index is kept in sync. A text rewritten under the backlog's write gets the old text's vector. |
| `EmbeddingsAreCurrent` without `overlapped` | `MCDaemon_daemon` | `mental_models.rs:181`: text and vector "can therefore never disagree". A PATCH, a refresh and the re-embedding of a start embed a row read before; the last one to write decides. |
| `StraddlersAreNewer` | `MCDaemon_daemon` | `mental/mod.rs:544`: a commit that straddles the read stays newer than the watermark. It does not when a fact of the same instant, or of a later one, was summarised. |
| `MarkIsSummarised` | `MCDaemon_daemon` | migration 0006: the mark is the highest `created_at` summarised. A refresh that cut its list sets it to that of a fact it did not show. |
| `OneAtATime` | `MCDaemon_daemon` | `mental/mod.rs:361`: one refresh per model at a time, lest two summarise the same facts. A client that hangs up gives the claim back (`:498`); the write on its blocking thread goes on beside the refresh that begins then. |
| `AbandonedWritesNothing` | `MCDaemon_daemon` | `consolidate/round.rs:1259`: "abandoning is safe by construction", an abandoned round contributes nothing. The transaction it was waiting for commits after it, a plan or a run row, and the facts of that plan are selected again: the next round may be at work on them by then. |
| `CpuOnlyIsKept` | `MCDaemon_daemon` | `ollama.rs:652`: a success does not promote `CpuOnly`. It reads the status and writes `Ready` in a second step, over the prober's `CpuOnly` of in between. |
| `PartialIsMarked` | `MCOnDemand_ondemand` | `import.rs:29`: a partial bank is never silent. `--replace` purges before it takes the marker back (`import.rs:623`). |
| `LostIsBackedUp` | `MCOnDemand_ondemand` | `settings.rs:893`: for who writes between the last look and the rename the backup is the recovery. The backup is made before the look (`cmd/hooks.rs:226`). |
| `PromptsAreKept` | `MCOnDemand_ondemand` | `settings.rs:628`: a span that holds a second hook "is not ours to delete". What is counted is `"command":`, which a hook of type prompt in the same span does not have: it goes with ours. |
| `LineGoesWhole` | `MCOnDemand_ondemand` | `docs/runbook-hooks.md:257`: what you add to a line that install wrote, a second hook inside an event array of ours, goes with it at uninstall (`settings.rs:585` says so too). A span that holds somebody else's command is left as it is, ours with it (`settings.rs:628`): uninstall refuses, and nothing is lost. `FileStaysTheirs` is what the code does. |
| `BackedUpBefore` | `MCOnDemand_ondemand` | `install.md:137`: an update backs up before a schema change. An update that is stopped may leave its daemon at the path; a later one backs up what the old daemon serves, then a restart starts that daemon, which brings the schema up once, and the later one once more. The schema between the two is in no backup. |
| `HashMeansIngestedHere` | `MCOnDemand_ondemand`, `Part = {"banks"}` | `documents.rs:86`: a hash that is there means "this exact content is fully ingested". A job whose bank was deleted, and whose document's rowid was given to another, stamps the hash of its content on that one (it updates by rowid). |
| `FactsStayInTheirBank` | `MCOnDemand_ondemand`, `Part = {"banks"}` | links never cross banks. A task that holds such a rowid stores facts of its bank under a document of another one. |
| `InstalledCanOpen` | `MCOnDemand_ondemand` | "an older build would refuse to start": the check asks the daemon that runs; one of a newer build that takes its place before the binaries do migrates the database. |
| `PrevIsAnother` | `MCOnDemand_ondemand` | `install.md:138`: the previous binary stays as `.prev`. An update repeated after a stop replaces it by the same release. |
| `WellMeansServed` | `MCOnDemand_ondemand` | an update stopped in the middle is followed by one that says "already up to date" beside a daemon of another build: it looks at the version of the CLI. |
| `NoticedOnceADay`, `SnoozeIsKept` | `MCOnDemand_ondemand` | `install.md:143`, `--snooze 7`: the update check writes back the whole of what it read before its request, so a notice or a snooze in between is undone. |
| `NeverSoldTwice` | `MCOnDemand_ondemand` | `state.rs:167`: the model is not sold the same memory twice; a retain that stores the state it loaded forgets what a recall noted in between. |
| `MentionedOnce` | `MCOnDemand_ondemand`, `Part = {"names"}` | a fact that names an entity under two spellings which resolve to one counts it twice. |
| `PrivateToTheEnd` | `MCInputs_inputs` | `transcript.rs:461`: an open mark drops everything to the end of the message. In the JSON format it does so to the end of its block (`transcript.rs:236`). |
| `FourStepsAreEnough` | `MCInputs_inputs`, today 2101-02-01 | `query.rs:420`: 29 February is never more than four years back. Around 2100 it is eight. |
| `WithinIoTime` | `MCInputs_inputs` | `http.rs:341`: the whole request costs at most `timeouts.io`. Connecting and writing come before the deadline is set. |
| `WeekendsAreNotWeeks` | `MCInputs_inputs` | `query.rs:578`: the weekend rule comes first, or a weekend query widens into a week. `저번주말`, written together, is in no weekend rule (`query.rs:81` has `저번 주말` alone) and contains `저번주` (`query.rs:97`): it means the whole of last week. So do the weekends of this week and of the next, which no rule has. |
| `VerdictMeansFiled` | `MCInputs_inputs` | `verify.rs:815`: the counts per document see a fact filed under the wrong one. Two facts that have each other's documents keep the counts, and `compare` does not read `document_id`; documents without a fact are counted for all banks together. |
| `RightNeverFails` | `MCInputs_inputs` | `verify.rs:613`: every predicate is scoped to what the import wrote, so that a daemon which is running does not fail a right migration. A round that gives a fact of its own to a migrated observation adds to `node_sources` (`:742`), one that rewrites or deletes it changes what is compared, and a document the daemon retains may have a name of the archive. |
| `DrawsNoMore` | `MCInputs_inputs` | verify's sample is "clamped so the run cannot draw more than asked", and takes at least one of each kind and bank. |

Also noticed, without a property: `retain_jobs.rs:218` places `resumable` before
`fail_stale`, `main.rs` calls them the other way round (harmless: `fail_stale` spares
rows with a task); `cli/state.rs:141` and `sessions.rs:34` describe the confirm of the
request path as unconditional, it is guarded since the settled channel exists; the
systemd unit says a shutdown finishes the current chunk, the worker abandons it;
`docs/design/dp-1-seamless-deploy.md:17` describes jobs failed at a restart that are
resumed since migration 0014; `snapshot.rs:25` says a snapshot only GETs, it also POSTs
(`:269`); `backlog_poll_secs = 0` and `embedding.batch_size = 0` pass the validation of
the configuration, the first makes tokio's interval panic, with the second the backlog
never drains; an observation that is updated keeps its `created_at`, so a mental model
does not summarise it again; two observations that share a source may leave a fact
without either of them in a recall, for `dedupe_restatements` (`recall/mod.rs:266`)
reckons with one observation to many facts; a semantic link stays when the text of its
node is rewritten; a name that is beyond the newest `MAX_RESOLUTION_CANDIDATES` may
resolve to another one.

## 7. Not modelled

`PROJECT.json`, `components`, has every part with what is left out of it and why.
Not modelled at all:

- of banks, PATCH (mission and disposition, which nothing else reads) and the
  reads; creation and deletion are in `BankRows`, and deletion in `HookRetain`,
  `TaskLedger`, `LinkGraph` and `Supersession` from the side of what it deletes;
- the HTTP surface: routing, authentication, error mapping, feeds;
- the dashboard, a static page;
- prompts, the repair of malformed JSON, the wording of what is rendered, the
  counters that are only reported, benchmarks: nothing is decided by them that a
  property could be about.

Of the parts that are modelled: likeness of names, scores, embeddings and what a
model answers are arbitrary; a transcript that is rewritten to the same or a greater
length (`cmd/retain.rs:342`) is a limitation the code documents, and the transcript of
`HookRetain` only grows; socket activation and signals in the milliseconds before the
worker listens are not in `RetainPipeline`. `Verification` compares in one step, where
the code reads in several while a daemon may write, and leaves out `--accept-tier2`,
which lets an operator take a tier 2 that failed. `Chunker` cuts turns as they are:
`chunk_conversation` writes each anew (`chunk.rs:76`, `:110`), so a foreign JSON changes
its spacing, the order of its keys and the form of its numbers. `Transcript` has one
field for a touched file, `file_path` and `notebook_path`, without the limit of their
length and characters (data). `LinkGraph` searches for one node at a time where a
pass takes a batch: each of its nodes is searched, looked up and written in the same
three transactions. In `Consolidation` an observation is never given the rowid of a
deleted one; of those, `NodeVectors` and `LinkGraph` have what they mean for vectors and
links, and a merge goes by UUIDs (`mod.rs:229`).
