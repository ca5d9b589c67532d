------------------------------ MODULE HookRetain ------------------------------
(***************************************************************************)
(* One session of Claude Code as the hooks of `memgarden` see it: a growing*)
(* transcript, the session's state file, and the short-lived processes that*)
(* move the cursor in it: `hook retain` on every Stop, its forced child at *)
(* SessionEnd, `hook catchup` and `hook session-start`; `hook recall` shares*)
(* the file.  The daemon is what its replies promise; RetainPipeline is its *)
(* inside.  Cursors count whole transcript lines.                          *)
(***************************************************************************)
EXTENDS Integers, Sequences, FiniteSets, SessionCursors

CONSTANTS
  Process,     \* hook processes that may be running at the same time
  NoProcess,   \* the lock file is not locked
  NoFile,      \* there is no state file
  Recaller,    \* the one recall process
  Lines,       \* bound: lines the transcript grows to
  Kind,        \* what each line is: said, brief or quiet
  RetainEvery, \* [hooks] retain_every_n_turns
  BreakerAt,   \* [hooks] breaker_failures
  PoisonAt,    \* [hooks] max_reject_failures
  FullMode,    \* [hooks] mode = "full": recall injects what it finds
  MaxChunk,    \* bound: the last document of the session
  Bound        \* bounds: how often each misfortune may happen

Misfortune == {"fail", "outage", "late", "slip", "unlocked", "wipe", "delete",
               "recall"}

ASSUME HookAssumption ==
  /\ Lines \in Nat /\ MaxChunk \in Nat
  /\ RetainEvery \in Nat \ {0} /\ BreakerAt \in Nat \ {0} /\ PoisonAt \in Nat \ {0}
  /\ Kind \in [1..Lines -> {"said", "brief", "quiet"}]
  /\ FullMode \in BOOLEAN /\ Bound \in [Misfortune -> Nat]
  /\ NoProcess \notin Process /\ Recaller \notin Process /\ NoProcess # Recaller

VARIABLES
  len, torn, \* the transcript: whole lines, and whether a partial one follows
  ended,     \* whether the session is over
  file,      \* the session's state file
  lock,      \* who holds the lock file
  hook,      \* the hook processes
  recall,    \* the recall process
  late,      \* posts whose client has timed out and that may yet be handled
  bank,      \* whether the bank exists
  jobs,      \* retain_jobs: a job's id is its index
  docs,      \* documents: by chunk, the hash stamped and the range of the metadata
  row,       \* the sessions row
  lastChunk, \* chunk_index of the sessions row
  taken,     \* history: lines a settled job took in
  spent      \* history: misfortunes so far

text   == <<len, torn, ended>>
local  == <<file, lock>>
daemon == <<bank, jobs, docs, row, lastChunk, taken>>
vars   == <<text, local, hook, recall, late, daemon, spent>>

-----------------------------------------------------------------------------
Spend(m) == spent[m] < Bound[m] /\ spent' = [spent EXCEPT ![m] = @ + 1]

NoPending == [job |-> 0, from |-> 0, to |-> 0, chunk |-> 0]
NewState  == [offset |-> 0, chunk |-> 0, turns |-> 0, pending |-> NoPending,
              transport |-> 0, rejects |-> 0, breaker |-> FALSE, poisoned |-> FALSE]
NoRequest == [chunk |-> 0, from |-> 0, to |-> 0]
NoHook    == [pc |-> "idle", forced |-> FALSE, st |-> NewState, req |-> NoRequest,
              mirror |-> "none"]
NoRecall  == [pc |-> "idle", st |-> NewState]
NoDoc     == [stamp |-> {}, from |-> 0, to |-> 0]

\* Counters stop where nothing depends on them any more.
Upto(n, max) == IF n < max THEN n + 1 ELSE max

\* What the reader makes of the lines after from: the messages a delta carries
\* and, of those, what the daemon finds worth keeping.
Messages(from, to) == {i \in (from + 1)..to : Kind[i] # "quiet"}
Said(from, to)     == {i \in (from + 1)..to : Kind[i] = "said"}

MutConsumeTorn == len + (IF torn THEN 1 ELSE 0)

\* The reader stops at a line without a newline; the file's size includes it.
Consumed == len

Size == len + (IF torn THEN 1 ELSE 0)

-----------------------------------------------------------------------------
(***************************************************************************)
(* What a hook does to the state it loaded.                                *)
(***************************************************************************)
Counted(st) == [st EXCEPT !.turns = Upto(@, RetainEvery)]

TransportFailure(st) ==
  [st EXCEPT !.transport = Upto(@, BreakerAt),
             !.breaker = @ \/ st.transport + 1 >= BreakerAt]

Rejection(st) ==
  [st EXCEPT !.rejects = Upto(@, PoisonAt),
             !.poisoned = @ \/ st.rejects + 1 >= PoisonAt]

Healed(st) == [st EXCEPT !.transport = 0, !.breaker = FALSE]

MutKeepCursor(st) == [st EXCEPT !.chunk = st.pending.chunk, !.pending = NoPending]

MutUndoTwice(st) ==
  [st EXCEPT !.offset = st.pending.from, !.chunk = st.pending.chunk - 1,
             !.pending = NoPending]

\* A failed job: cursor and chunk go back together.
RolledBack(st) ==
  [st EXCEPT !.offset = st.pending.from, !.chunk = st.pending.chunk,
             !.pending = NoPending]

MutTrustPost(st, req, job) ==
  [st EXCEPT !.offset = req.to, !.chunk = @ + 1, !.turns = 0,
             !.transport = 0, !.rejects = 0, !.breaker = FALSE, !.poisoned = FALSE,
             !.pending = NoPending]

\* An accepted delta, with the job to watch (0: nothing is outstanding).
Accept(st, req, job) ==
  [st EXCEPT !.offset = req.to, !.chunk = @ + 1, !.turns = 0,
             !.transport = 0, !.rejects = 0, !.breaker = FALSE, !.poisoned = FALSE,
             !.pending = IF job = 0 THEN NoPending
                         ELSE [job |-> job, from |-> req.from, to |-> req.to,
                               chunk |-> st.chunk]]

MutFromByte == [NewState EXCEPT !.offset = row.byte, !.chunk = lastChunk]

\* SessionState::recovered, from the daemon's row.
Recovered == [NewState EXCEPT !.offset = row.confirmed, !.chunk = lastChunk]

MutLatched(st) == st.breaker \/ st.rejects >= PoisonAt

Throttled(st) == st.breaker \/ st.poisoned

-----------------------------------------------------------------------------
(***************************************************************************)
(* The state file and its lock.  A lock that cannot be taken is not a      *)
(* reason to fail: the hook goes on without it.                            *)
(***************************************************************************)
MutNoLock(p) == UNCHANGED <<lock, spent>>

TakeLock(p) ==
  \/ lock = NoProcess /\ lock' = p /\ UNCHANGED spent
  \/ Spend("unlocked") /\ UNCHANGED lock

DropLock(p) == lock' = IF lock = p THEN NoProcess ELSE lock

At(p, pc) == hook[p].pc = pc
Goto(p, pc, st) == hook' = [hook EXCEPT ![p].pc = pc, ![p].st = st]
Leave(p) == hook' = [hook EXCEPT ![p] = NoHook] /\ DropLock(p)

-----------------------------------------------------------------------------
(***************************************************************************)
(* How each process comes to hold a loaded state.                          *)
(***************************************************************************)
\* `hook retain`, the Stop event.
Stop(p) ==
  /\ At(p, "idle") /\ ~ended /\ TakeLock(p)
  /\ IF file = NoFile THEN Goto(p, "absent", NewState)
                      ELSE Goto(p, "ready", Counted(file))
  /\ UNCHANGED <<text, file, recall, late, daemon>>

\* No state file in mid-session: ask the mirror before starting over.
Recover(p) ==
  /\ At(p, "absent")
  /\ \/ /\ Goto(p, "ready", Counted(IF bank /\ row.present THEN Recovered ELSE NewState))
        /\ UNCHANGED spent
     \/ Spend("outage") /\ Goto(p, "ready", Counted(NewState))
  /\ UNCHANGED <<text, local, recall, late, daemon>>

\* `hook session-end` detaches `hook retain --force`.
SessionEnd(p) ==
  /\ At(p, "idle") /\ ~ended /\ ended' = TRUE
  /\ hook' = [hook EXCEPT ![p].pc = "picked", ![p].forced = TRUE]
  /\ UNCHANGED <<len, torn, local, recall, late, daemon, spent>>

\* catchup::select's test on a state file, read without the lock.
Behind == Size > file.offset

\* `hook catchup`, the child of some other session's start.
CatchUp(p) ==
  /\ At(p, "idle") /\ file # NoFile /\ ~file.poisoned /\ Behind
  /\ hook' = [hook EXCEPT ![p].pc = "picked", ![p].forced = TRUE]
  /\ UNCHANGED <<text, local, recall, late, daemon, spent>>

\* Both load the file under the lock and do nothing without one.
Begin(p) ==
  /\ At(p, "picked")
  /\ \/ /\ file # NoFile /\ TakeLock(p) /\ Goto(p, "ready", file)
     \/ /\ file = NoFile /\ hook' = [hook EXCEPT ![p] = NoHook]
        /\ UNCHANGED <<lock, spent>>
  /\ UNCHANGED <<text, file, recall, late, daemon>>

\* `hook session-start` (startup or resume) creates the bank and the session
\* row before it takes the lock; what it answered seeds a missing file.
SessionStart(p) ==
  /\ At(p, "idle") /\ ended' = FALSE
  /\ \/ /\ bank' = TRUE /\ row' = Upsert(row, 0, 0, 0, 0)
        /\ hook' = [hook EXCEPT ![p].pc = "greeted", ![p].st = Recovered,
                                ![p].mirror = "ok"]
        /\ UNCHANGED spent
     \/ /\ Spend("outage") /\ bank' \in {bank, TRUE}
        /\ row' \in {row} \cup (IF bank' THEN {Upsert(row, 0, 0, 0, 0)} ELSE {})
        /\ \E m \in {"none", "transport"} :
             hook' = [hook EXCEPT ![p].pc = "greeted", ![p].mirror = m]
  /\ UNCHANGED <<len, torn, local, recall, late, jobs, docs, lastChunk, taken>>

Greet(p) ==
  /\ At(p, "greeted") /\ TakeLock(p)
  /\ LET st == IF file = NoFile THEN hook[p].st ELSE file IN
     Goto(p, "store", CASE hook[p].mirror = "ok" -> Healed(st)
                        [] hook[p].mirror = "transport" ->
                             [st EXCEPT !.transport = Upto(@, BreakerAt)]
                        [] OTHER -> st)
  /\ UNCHANGED <<text, file, recall, late, daemon>>

-----------------------------------------------------------------------------
(***************************************************************************)
(* retain::advance.                                                        *)
(***************************************************************************)
JobOf(st) == jobs[st.pending.job]

\* Past the reconcile: the turn gate, the size of the file, the delta.
Read(p, st) ==
  LET from == IF Size < st.offset THEN 0 ELSE st.offset
      gated == ~hook[p].forced /\ st.turns < RetainEvery
      rest == [st EXCEPT !.offset = from, !.turns = 0]
  IN  \/ gated /\ Goto(p, "store", st)
      \/ ~gated /\ Size <= from /\ Goto(p, "store", rest)
      \/ /\ ~gated /\ Size > from /\ Messages(from, len) = {}
         /\ Goto(p, "store", [rest EXCEPT !.offset = Consumed])
      \/ /\ ~gated /\ Size > from /\ Messages(from, len) # {}
         /\ hook' = [hook EXCEPT
                       ![p].pc = "post", ![p].st = [st EXCEPT !.offset = from],
                       ![p].req = [chunk |-> st.chunk, from |-> from, to |-> Consumed]]

\* The breaker and the poison throttle come before any socket.
SkipTurn(p) ==
  /\ At(p, "ready") /\ Throttled(hook[p].st) /\ Goto(p, "store", hook[p].st)
  /\ UNCHANGED <<text, local, recall, late, daemon, spent>>

\* reconcile(): a job row that is gone reads as failed.
Advance(p) ==
  /\ At(p, "ready") /\ ~Throttled(hook[p].st)
  /\ LET st == hook[p].st IN
     \/ st.pending = NoPending /\ Read(p, st)
     \/ /\ st.pending # NoPending /\ JobOf(st).status \in {"done", "partial"}
        /\ Read(p, [st EXCEPT !.pending = NoPending])
     \/ /\ st.pending # NoPending /\ JobOf(st).status \in {"failed", "gone"}
        /\ Read(p, RolledBack(st))
     \/ /\ st.pending # NoPending /\ JobOf(st).status = "open"
        /\ Goto(p, "store", st)
  /\ UNCHANGED <<text, local, recall, late, daemon, spent>>

LookupFails(p) ==
  /\ At(p, "ready") /\ ~Throttled(hook[p].st) /\ hook[p].st.pending # NoPending
  /\ Spend("outage") /\ Goto(p, "store", TransportFailure(hook[p].st))
  /\ UNCHANGED <<text, local, recall, late, daemon>>

\* store(): a fresh file renamed over the old one, or a failure that is logged.
Store(p) ==
  /\ At(p, "store")
  /\ \/ file' = hook[p].st /\ UNCHANGED spent
     \/ Spend("slip") /\ UNCHANGED file
  /\ Leave(p)
  /\ UNCHANGED <<text, recall, late, daemon>>

\* A hook killed wherever it is; the kernel drops its lock.
Die(p) ==
  /\ ~At(p, "idle") /\ Spend("slip") /\ Leave(p)
  /\ UNCHANGED <<text, file, recall, late, daemon>>

-----------------------------------------------------------------------------
(***************************************************************************)
(* The daemon's side of a post: nothing to keep, content already ingested, *)
(* or a job of its own.  Every one mirrors the cursor and the chunk.       *)
(***************************************************************************)
Mirrored(req, mirror) ==
  /\ row' = mirror /\ lastChunk' = Larger(lastChunk, req.chunk)

Ingested(req) == Said(req.from, req.to) = docs[req.chunk].stamp

Settles(req) ==
  /\ Said(req.from, req.to) = {} \/ Ingested(req)
  /\ Mirrored(req, MirrorSettled(row, req.to))
  /\ UNCHANGED <<jobs, docs>>

Queues(req, status) ==
  /\ Said(req.from, req.to) # {} /\ ~Ingested(req)
  /\ docs' = [docs EXCEPT ![req.chunk] = [stamp |-> {}, from |-> req.from, to |-> req.to]]
  /\ jobs' = Append(jobs, [status |-> status, chunk |-> req.chunk,
                           from |-> req.from, to |-> req.to])
  /\ Mirrored(req, MirrorQueued(row, req.to))

Request(p) == hook[p].req
Posting(p) == At(p, "post") /\ Request(p).chunk <= MaxChunk

\* A usable answer.  A missing bank is created and the post repeated, once.
Answered(p) ==
  /\ Posting(p) /\ bank' = TRUE
  /\ \/ /\ Settles(Request(p))
        /\ Goto(p, "store", Accept(hook[p].st, Request(p), 0))
     \/ /\ Queues(Request(p), "open")
        /\ Goto(p, "store", Accept(hook[p].st, Request(p), Len(jobs')))
  /\ UNCHANGED <<text, local, recall, late, taken, spent>>

\* 429 for want of bytes leaves a document, a mirror and a failed job behind.
OverBudget(p) ==
  /\ Posting(p) /\ bank /\ Spend("outage")
  /\ Queues(Request(p), "failed") /\ Goto(p, "store", TransportFailure(hook[p].st))
  /\ UNCHANGED <<text, local, recall, late, bank, taken>>

\* Refused, or never reached: 429 and 5xx count as transport, a durable 4xx
\* towards poison, 503 and a bad daemon_url as nothing.
Refused(p) ==
  /\ Posting(p) /\ Spend("outage")
  /\ \E st \in {TransportFailure(hook[p].st), Rejection(hook[p].st), hook[p].st} :
       Goto(p, "store", st)
  /\ bank' \in {bank, TRUE}
  /\ UNCHANGED <<text, local, recall, late, jobs, docs, row, lastChunk, taken>>

\* The client's timeout: the request may yet be handled.
TimedOut(p) ==
  /\ Posting(p) /\ Spend("late")
  /\ Goto(p, "store", TransportFailure(hook[p].st))
  /\ late' = late \cup {Request(p)} /\ bank' \in {bank, TRUE}
  /\ UNCHANGED <<text, local, recall, jobs, docs, row, lastChunk, taken>>

HandleLate ==
  \E req \in late :
    /\ late' = late \ {req}
    /\ \/ bank /\ (Settles(req) \/ Queues(req, "open"))
       \/ ~bank /\ UNCHANGED <<jobs, docs, row, lastChunk>>
    /\ UNCHANGED <<text, local, hook, recall, bank, taken, spent>>

\* A job ends.  A clean one stamps the document and confirms its range.
Settle(j) ==
  /\ jobs[j].status = "open"
  /\ LET job == jobs[j]  said == Said(job.from, job.to) IN
     \/ /\ jobs' = [jobs EXCEPT ![j].status = "done"]
        /\ taken' = taken \cup said
        /\ docs' = [docs EXCEPT ![job.chunk].stamp = said]
        /\ row' = ConfirmRange(row, job.from, job.to)
        /\ UNCHANGED spent
     \/ /\ jobs' = [jobs EXCEPT ![j].status = "partial"]
        /\ taken' = taken \cup said
        /\ UNCHANGED <<docs, row, spent>>
     \/ /\ jobs' = [jobs EXCEPT ![j].status = "failed"] /\ Spend("fail")
        /\ UNCHANGED <<taken, docs, row>>
  /\ UNCHANGED <<text, local, hook, recall, late, bank, lastChunk>>

\* Deleting the bank takes its documents, sessions and jobs with it.
DeleteBank ==
  /\ bank /\ Spend("delete") /\ bank' = FALSE
  /\ jobs' = [j \in DOMAIN jobs |-> [jobs[j] EXCEPT !.status = "gone"]]
  /\ docs' = [c \in 0..MaxChunk |-> NoDoc] /\ row' = NoRow /\ lastChunk' = 0
  /\ UNCHANGED <<text, local, hook, recall, late, taken>>

-----------------------------------------------------------------------------
(***************************************************************************)
(* `hook recall`: one round trip, then the counters.  It takes the lock    *)
(* only when it is free, and goes on without it when it is not.            *)
(***************************************************************************)
Ask ==
  /\ recall.pc = "idle" /\ ~ended /\ Spend("recall")
  /\ file # NoFile => ~file.breaker
  /\ recall' = [recall EXCEPT !.pc = "asked"]
  /\ UNCHANGED <<text, local, hook, late, daemon>>

Baseline == IF file = NoFile THEN NewState ELSE file

\* The file is re-read and only a changed state is written back.  In full mode
\* what was injected is part of the state.
Record(st, changed) ==
  IF changed
  THEN /\ recall' = [pc |-> "store", st |-> st]
       /\ lock' = IF lock = NoProcess THEN Recaller ELSE lock
  ELSE recall' = NoRecall /\ UNCHANGED lock

RecordSuccess ==
  /\ recall.pc = "asked"
  /\ \E injected \in {FALSE, FullMode} :
       Record(Healed(Baseline), Healed(Baseline) # Baseline \/ injected)
  /\ UNCHANGED <<text, file, hook, late, daemon, spent>>

\* A failure of the transport is counted, which changes the state; a rejection
\* is not.
RecordFailure ==
  /\ recall.pc = "asked"
  /\ Record(TransportFailure(Baseline), TRUE) \/ Record(Baseline, FALSE)
  /\ UNCHANGED <<text, file, hook, late, daemon, spent>>

RecallStore ==
  /\ recall.pc = "store"
  /\ \/ file' = recall.st /\ UNCHANGED spent
     \/ Spend("slip") /\ UNCHANGED file
  /\ recall' = NoRecall /\ DropLock(Recaller)
  /\ UNCHANGED <<text, hook, late, daemon>>

-----------------------------------------------------------------------------
(***************************************************************************)
(* The world around them.                                                  *)
(***************************************************************************)
\* Claude Code writes a line, flushing part of it first.
Write ==
  /\ \/ ~torn /\ len < Lines /\ torn' = TRUE /\ UNCHANGED len
     \/ torn /\ torn' = FALSE /\ len' = len + 1
  /\ UNCHANGED <<ended, local, hook, recall, late, daemon, spent>>

\* The state directory is lost, or the file is old enough for gc.
Wipe ==
  /\ file # NoFile /\ Spend("wipe") /\ file' = NoFile
  /\ UNCHANGED <<text, lock, hook, recall, late, daemon>>

\* A stamp means nothing once its window is over, in whichever copy it is.
Lapse(field) ==
  /\ file # NoFile /\ file[field]
  /\ file' = [file EXCEPT ![field] = FALSE]
  /\ hook' = [p \in Process |-> [hook[p] EXCEPT !.st[field] = FALSE]]
  /\ recall' = [recall EXCEPT !.st[field] = FALSE]
  /\ UNCHANGED <<text, lock, late, daemon, spent>>

CooldownEnds     == Lapse("breaker")
PoisonWindowEnds == Lapse("poisoned")

-----------------------------------------------------------------------------
Init ==
  /\ len = 0 /\ torn = FALSE /\ ended = FALSE
  /\ file = NoFile /\ lock = NoProcess
  /\ hook = [p \in Process |-> NoHook] /\ recall = NoRecall /\ late = {}
  /\ bank \in BOOLEAN /\ jobs = <<>> /\ docs = [c \in 0..MaxChunk |-> NoDoc]
  /\ row = NoRow /\ lastChunk = 0 /\ taken = {}
  /\ spent = [m \in Misfortune |-> 0]

\* A process that has begun goes on.
Run(p) ==
  \/ Recover(p) \/ SkipTurn(p) \/ Advance(p) \/ Store(p)
  \/ Answered(p)

Misfortunes(p) == LookupFails(p) \/ Refused(p) \/ OverBudget(p) \/ TimedOut(p) \/ Die(p)

Next ==
  \/ \E p \in Process :
       \/ Stop(p) \/ SessionEnd(p) \/ CatchUp(p) \/ SessionStart(p)
       \/ Begin(p) \/ Greet(p) \/ Run(p) \/ Misfortunes(p)
  \/ HandleLate \/ (\E j \in DOMAIN jobs : Settle(j)) \/ DeleteBank
  \/ Ask \/ RecordSuccess \/ RecordFailure \/ RecallStore
  \/ Write \/ Wipe \/ CooldownEnds \/ PoisonWindowEnds

Spec == Init /\ [][Next]_vars

(***************************************************************************)
(* A process that has begun goes on and gets its turn at the lock, the     *)
(* daemon settles its jobs, time passes and a partial line is completed.   *)
(* While the session lives its Stops keep coming; once it is over all that *)
(* looks at it is the catch-up of later sessions.                          *)
(***************************************************************************)
Progress ==
  /\ \A p \in Process : WF_vars(Run(p)) /\ SF_vars(Begin(p)) /\ SF_vars(Greet(p))
  /\ WF_vars(\E j \in DOMAIN jobs : Settle(j))
  /\ WF_vars(RecordSuccess \/ RecordFailure) /\ WF_vars(RecallStore)
  /\ WF_vars(CooldownEnds) /\ WF_vars(PoisonWindowEnds)
  /\ WF_vars(torn /\ Write)

LivingSpec == Spec /\ Progress /\ \A p \in Process : SF_vars(Stop(p))

EndedSpec == Spec /\ Progress /\ WF_vars(\E p \in Process : SessionEnd(p))
                  /\ SF_vars(\E p \in Process : CatchUp(p))

-----------------------------------------------------------------------------
Cursor == 0..Lines

PendingState == [job : Nat, from : Cursor, to : Cursor, chunk : Nat]
State == [offset : Cursor, chunk : Nat, turns : 0..RetainEvery,
          pending : PendingState, transport : 0..BreakerAt, rejects : 0..PoisonAt,
          breaker : BOOLEAN, poisoned : BOOLEAN]
ASSUME NoFileAssumption == NoFile \notin State

RequestState == [chunk : Nat, from : Cursor, to : Cursor]
HookState == [pc : {"idle", "picked", "absent", "greeted", "ready", "post", "store"},
              forced : BOOLEAN, st : State, req : RequestState,
              mirror : {"none", "ok", "transport"}]
JobState == [status : {"open", "done", "partial", "failed", "gone"},
             chunk : 0..MaxChunk, from : Cursor, to : Cursor]

TypeOK ==
  /\ len \in Cursor /\ torn \in BOOLEAN /\ ended \in BOOLEAN
  /\ file \in State \cup {NoFile} /\ lock \in Process \cup {NoProcess, Recaller}
  /\ hook \in [Process -> HookState]
  /\ recall \in [pc : {"idle", "asked", "store"}, st : State]
  /\ late \subseteq [chunk : 0..MaxChunk, from : Cursor, to : Cursor]
  /\ bank \in BOOLEAN /\ jobs \in Seq(JobState)
  /\ docs \in [0..MaxChunk -> [stamp : SUBSET (1..Lines), from : Cursor, to : Cursor]]
  /\ row \in [present : BOOLEAN, byte : Cursor, confirmed : Cursor, fresh : BOOLEAN]
  /\ lastChunk \in 0..MaxChunk /\ taken \subseteq 1..Lines
  /\ spent \in [Misfortune -> Nat]

\* What a state claims of the transcript: everything said before its cursor was
\* taken in, except the lines its pending job is to answer for.
Accounted(st) ==
  Said(0, st.offset) \subseteq
    taken \cup (IF st.pending = NoPending THEN {}
               ELSE Said(st.pending.from, st.pending.to))

\* cmd/retain.rs: a cursor that advanced past lines nothing ingested has lost
\* them.  Whatever replies are lost, jobs fail, files vanish or are overwritten,
\* what the state file's cursor is past was ingested or is watched by its job.
NothingSkipped == file # NoFile => Accounted(file)

\* The mirror's durable cursor, which is what a lost state file is rebuilt
\* from, is never past a line that no job took in.
MirrorIsDurable == Said(0, row.confirmed) \subseteq taken

\* A job is never stacked on an unconfirmed cursor: when it was posted
\* everything before its range had been taken in, so a clean run may confirm.
NoStacking == \A j \in DOMAIN jobs : Said(0, jobs[j].from) \subseteq taken

\* What the lock is for: as long as every hook got it, the metadata of some
\* document describes every line that was posted and taken in.  A delta's
\* message_count and files_modified are not overwritten by another's.
ProvenanceKept ==
  spent["unlocked"] = 0 =>
  \A j \in DOMAIN jobs : jobs[j].status \in {"done", "partial"} =>
    \A i \in Said(jobs[j].from, jobs[j].to) :
      \E c \in DOMAIN docs : docs[c].from < i /\ i <= docs[c].to

\* So it is while no more happens than jobs that fail and a daemon that is away.
\* (A post handled after its client gave up may describe less than the one that
\* was sent in its place; a state file or a bank that is lost, or never saved,
\* takes the number of the next document with it, as run wipe shows.)
LockKeepsProvenance ==
  (\A m \in Misfortune \ {"fail", "outage", "unlocked"} : spent[m] = 0) => ProvenanceKept

\* The poison of a session is a slow retry and its breaker a pause: as long as
\* the session goes on, every line said is taken in.
EveryLineTakenIn ==
  []<>~ended => \A i \in 1..Lines : (i <= len /\ Kind[i] = "said") ~> (i \in taken)

Dropped(i) == \E j \in DOMAIN jobs : /\ jobs[j].status = "failed"
                                     /\ i \in Said(jobs[j].from, jobs[j].to)

\* book/src/usage.md: "A failed retain does not drop the delta": the next Stop,
\* the SessionEnd child or a later session's catch-up re-sends it.
FailedIsResent == \A i \in 1..Lines : Dropped(i) ~> (i \in taken)

\* state.rs: "the cost of losing the race here is one recall's counter update".
RecallKeepsCursor ==
  [][recall.pc = "store" /\ recall' = NoRecall /\ file # NoFile =>
       /\ file'.offset = file.offset /\ file'.pending = file.pending]_vars

\* cmd/recall.rs: a healthy recall on a session with no state file must not
\* create one, or it would disable the recovery from the mirror.
RecallLeavesRecovery ==
  [][file = NoFile /\ file' # NoFile /\ recall.pc = "store" /\ recall'.pc = "idle"
       => recall.st.transport > 0]_vars
=============================================================================
