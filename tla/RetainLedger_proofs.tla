------------------------- MODULE RetainLedger_proofs -------------------------
(***************************************************************************)
(* Where a job is, and what the pipeline promises about it: every job, slot *)
(* and byte is held once, the pipeline implements IngestLedger, and a job's *)
(* progress is neither lost nor counted twice.                             *)
(***************************************************************************)
EXTENDS RetainPipeline_proofs

\* A row that is appended is there: the rows are not what they were.
LEMMA AppendedIsLonger ==
  ASSUME NEW S, NEW s \in Seq(S), NEW x
  PROVE  s # Append(s, x)
<1>1. Len(s) \in Nat /\ DOMAIN s = 1 .. Len(s)
  BY LenProperties
<1>2. DOMAIN Append(s, x) = 1 .. Len(s) + 1
  BY <1>1
<1>3. Len(s) + 1 \in (1 .. Len(s) + 1) \ (1 .. Len(s))
  BY <1>1
<1> QED BY <1>1, <1>2, <1>3

-----------------------------------------------------------------------------
(***************************************************************************)
(* The inductive invariant.                                                *)
(***************************************************************************)
WithJob == {"mirror", "task", "enqueue", "giveback", "reject"}

\* What a control point says about the job it holds, and a dead process about
\* its memory.
Shapes ==
  /\ \A c \in Client :
       /\ handler[c].job # 0 <=> handler[c].pc \in WithJob
       /\ handler[c].gone => handler[c].pc \notin {"idle", "giveback", "reject"}
       /\ ~up => handler[c].pc = "idle"
       /\ spent.hangups = 0 => ~handler[c].gone
  /\ worker.job = 0 <=> worker.pc \in {"idle", "exited"}
  /\ worker.pc = "pause" => sigterm
  /\ ~up => queue = <<>> /\ resuming = {}

\* No job is in two places.
Apart ==
  /\ \A c, d \in Client :
       handler[c].job # 0 /\ handler[c].job = handler[d].job => c = d
  /\ \A c \in Client :
       handler[c].job # 0 =>
         /\ \A i \in DOMAIN queue : queue[i] # handler[c].job
         /\ handler[c].job \notin resuming /\ handler[c].job # worker.job
  /\ \A i, k \in DOMAIN queue : queue[i] = queue[k] => i = k
  /\ \A i \in DOMAIN queue : queue[i] \notin resuming /\ queue[i] # worker.job
  /\ worker.job \notin resuming

HasJob(j) ==
  \/ \E c \in Client : handler[c].job = j
  \/ \E i \in DOMAIN queue : queue[i] = j
  \/ j \in resuming
  \/ worker.job = j

\* A job that is somewhere is unfinished.
HeldIsOpen == \A j \in JobId : HasJob(j) => jobs[j].status \in Live

\* An unfinished job is somewhere.
Undisturbed == up /\ ~sigterm /\ spent.faults = 0 /\ spent.hangups = 0
NoneLost == Undisturbed => \A j \in JobId : jobs[j].status \in Live => HasJob(j)

Giving == {c \in Client : handler[c].pc = "giveback"}

\* QueueIsAccountedFor, of finite sets.
BytesAndSlots ==
  /\ held = Len(queue) + Cardinality(resuming) + (IF worker.job # 0 THEN 1 ELSE 0)
            + Cardinality(Giving)
  /\ Len(queue) + Cardinality(Permits) <= Capacity

Counted == IsFiniteSet(Giving) /\ IsFiniteSet(Permits) /\ BytesAndSlots

Places == Shapes /\ Apart /\ HeldIsOpen /\ NoneLost
Accounted == Typed /\ Places /\ Counted

-----------------------------------------------------------------------------
(***************************************************************************)
(* Steps that put no job anywhere new.                                     *)
(***************************************************************************)
LEMMA IdsAreNumbers ==
  ASSUME Typed
  PROVE  /\ JobId = 1..Len(jobs) /\ Len(jobs) \in Nat /\ 0 \notin JobId /\ JobId \subseteq Nat
         /\ resuming \subseteq JobId /\ 0 \notin resuming
         /\ \A i \in DOMAIN queue : queue[i] \in JobId
         /\ \A c \in Client : handler[c].job # 0 /\ Shapes => handler[c].job \in JobId
         /\ worker.job # 0 /\ Shapes => worker.job \in JobId
<1>1. JobId = 1..Len(jobs) /\ Len(jobs) \in Nat
  BY LenProperties DEF Typed, TypeOK, JobId
<1>2. \A i \in DOMAIN queue : queue[i] \in JobId
  BY LenProperties, ElementOfSeq DEF Typed, TypeOK
<1>3. resuming \subseteq JobId
  BY DEF Typed, TypeOK
<1> QED BY <1>1, <1>2, <1>3 DEF Typed, Control, Shapes, WithJob

\* Every place keeps its job or gives it up.
LEMMA PlacesStep ==
  ASSUME Typed, Places, Typed', Shapes', JobId' = JobId,
         \A c \in Client : handler'[c].job \in {handler[c].job, 0},
         queue' \in {queue, <<>>}, resuming' \subseteq resuming,
         worker'.job \in {worker.job, 0},
         \A j \in JobId : HasJob(j)' /\ jobs[j].status \in Live => jobs'[j].status \in Live,
         Undisturbed' =>
           /\ Undisturbed
           /\ \A j \in JobId : jobs'[j].status \in Live =>
                jobs[j].status \in Live /\ (HasJob(j) => HasJob(j)')
  PROVE  Places'
<1>1. /\ 0 \notin JobId /\ 0 \notin resuming
      /\ \A i \in DOMAIN queue : queue[i] # 0
  BY IdsAreNumbers
<1>2. DOMAIN queue' \subseteq DOMAIN queue /\ \A i \in DOMAIN queue' : queue'[i] = queue[i]
  BY EmptySeq
<1>3. \A j \in JobId : HasJob(j)' => HasJob(j)
  BY <1>1, <1>2 DEF HasJob
<1>4. HeldIsOpen'
  BY <1>3 DEF Places, HeldIsOpen
<1>5. NoneLost'
  BY DEF Places, NoneLost
<1>6. Apart'
  <2> USE DEF Places, Apart
  <2>1. \A c, d \in Client :
          handler'[c].job # 0 /\ handler'[c].job = handler'[d].job => c = d
    OBVIOUS
  <2>2. \A c \in Client :
          handler'[c].job # 0 =>
            /\ \A i \in DOMAIN queue' : queue'[i] # handler'[c].job
            /\ handler'[c].job \notin resuming' /\ handler'[c].job # worker'.job
    BY <1>2
  <2>3. \A i, k \in DOMAIN queue' : queue'[i] = queue'[k] => i = k
    BY <1>2
  <2>4. \A i \in DOMAIN queue' : queue'[i] \notin resuming' /\ queue'[i] # worker'.job
    BY <1>1, <1>2
  <2>5. worker'.job \notin resuming'
    BY <1>1
  <2> QED BY <2>1, <2>2, <2>3, <2>4, <2>5
<1> QED BY <1>4, <1>5, <1>6 DEF Places

LEMMA SpentStep ==
  ASSUME TypeOK, UNCHANGED spent \/ Fault
  PROVE  /\ spent'.hangups = spent.hangups
         /\ spent'.faults = 0 => spent.faults = 0 /\ ~Fault
BY DEF TypeOK, Spending, Fault

\* A handler moves on with what it had.
LEMMA HandlerMoves ==
  ASSUME Typed, Places, Typed', up, NEW c \in Client,
         UNCHANGED <<queue, resuming, worker, sigterm, up>>, JobId' = JobId,
         \A j \in JobId : jobs'[j].status = jobs[j].status,
         UNCHANGED spent \/ Fault,
         handler'[c].job = handler[c].job,
         handler'[c].job # 0 <=> handler'[c].pc \in WithJob,
         handler'[c].gone =>
           handler[c].gone /\ handler'[c].pc \notin {"idle", "giveback", "reject"},
         \A d \in Client : d # c => handler'[d] = handler[d]
  PROVE  Places'
<1>1. \A d \in Client : handler'[d].job = handler[d].job
  OBVIOUS
<1>2. \A j \in JobId : HasJob(j)' <=> HasJob(j)
  BY <1>1 DEF HasJob
<1>3. Shapes'
  BY SpentStep DEF Places, Shapes, Typed
<1>4. Undisturbed' => Undisturbed
  BY SpentStep DEF Undisturbed, Typed
<1> QED BY <1>1, <1>2, <1>3, <1>4, PlacesStep

\* The worker moves on with its job.
LEMMA WorkerMoves ==
  ASSUME Typed, Places, Typed', up,
         UNCHANGED <<handler, queue, resuming, sigterm, up>>, JobId' = JobId,
         \A j \in JobId : jobs'[j].status \in Live <=> jobs[j].status \in Live,
         UNCHANGED spent \/ Fault,
         worker'.job = worker.job,
         worker'.job = 0 <=> worker'.pc \in {"idle", "exited"},
         worker'.pc = "pause" => sigterm
  PROVE  Places'
<1>1. \A j \in JobId : HasJob(j)' <=> HasJob(j)
  BY DEF HasJob
<1>2. Shapes'
  BY SpentStep DEF Places, Shapes, Typed
<1>3. Undisturbed' => Undisturbed
  BY SpentStep DEF Undisturbed, Typed
<1> QED BY <1>1, <1>2, <1>3, PlacesStep

\* What a progress write does to the statuses.
LEMMA FlushStatus ==
  ASSUME Typed, NEW status \in Live \cup Terminal, NEW n \in Counts, Flush(status, n)
  PROVE  /\ JobId' = JobId
         /\ \A j \in JobId : j # worker.job => jobs'[j].status = jobs[j].status
         /\ \A j \in JobId : \/ jobs'[j].status = jobs[j].status /\ Fault
                             \/ j = worker.job => jobs'[j].status = status
         /\ UNCHANGED spent \/ Fault
<1>1. JobId' = JobId
  BY FlushTyped DEF Typed
<1>2. CASE jobs' = Written(jobs, worker.job, status, n) /\ UNCHANGED spent
  <2>1. jobs \in Seq(JobRow) /\ worker.job \in Nat /\ JobId = DOMAIN jobs
    BY DEF Typed, TypeOK, WorkerState, JobId
  <2>2. \A i \in DOMAIN jobs :
          /\ i # worker.job => Written(jobs, worker.job, status, n)[i] = jobs[i]
          /\ i = worker.job => Written(jobs, worker.job, status, n)[i].status = status
    BY <2>1, WrittenRows
  <2> QED BY <1>1, <1>2, <2>1, <2>2
<1>3. CASE Fault /\ UNCHANGED jobs
  BY <1>1, <1>3
<1> QED BY <1>2, <1>3 DEF Flush

\* The worker writes its row and goes on with its job.
LEMMA WorkerWrites ==
  ASSUME Typed, Places, Typed', up, NEW n \in Counts, Flush("running", n),
         UNCHANGED <<handler, queue, resuming, sigterm, up>>,
         worker'.job = worker.job, worker.pc \notin {"idle", "exited"},
         worker'.pc \notin {"idle", "exited", "pause"}
  PROVE  Places'
<1>1. "running" \in Live
  BY DEF Live
<1>2. worker.job \in JobId /\ worker.job # 0 /\ jobs[worker.job].status \in Live
  BY IdsAreNumbers DEF Places, Shapes, HeldIsOpen, HasJob
<1>3. JobId' = JobId /\ (UNCHANGED spent \/ Fault)
  BY <1>1, FlushStatus
<1>4. \A j \in JobId : jobs'[j].status \in Live <=> jobs[j].status \in Live
  BY <1>1, <1>2, FlushStatus
<1> QED BY <1>2, <1>3, <1>4, WorkerMoves

\* The worker writes its row for the last time and gives up its job.
LEMMA WorkerReleases ==
  ASSUME Typed, Places, Typed', up, NEW status \in Live \cup Terminal, NEW n \in Counts,
         Flush(status, n), worker' = Idle,
         UNCHANGED <<handler, queue, resuming, sigterm, up>>,
         worker.pc \notin {"idle", "exited"},
         status \in Terminal \/ sigterm
  PROVE  Places'
<1>1. worker'.job = 0 /\ worker'.pc = "idle"
  BY IdleTyped
<1>2. worker.job \in JobId /\ worker.job # 0
  BY IdsAreNumbers DEF Places, Shapes
<1>3. /\ JobId' = JobId /\ (UNCHANGED spent \/ Fault)
      /\ \A j \in JobId : j # worker.job => jobs'[j].status = jobs[j].status
      /\ Fault \/ jobs'[worker.job].status = status
  BY <1>2, FlushStatus
<1>4. Shapes'
  BY <1>1, <1>3, SpentStep DEF Places, Shapes, Typed
<1>5. \A j \in JobId : HasJob(j)' => j # worker.job
  BY <1>1, <1>2 DEF HasJob, Places, Apart
<1>6. \A j \in JobId : j # worker.job /\ HasJob(j) => HasJob(j)'
  BY DEF HasJob
<1>7. \A s \in Terminal : s \notin Live
  BY DEF Terminal, Live
<1>8. Undisturbed' => Undisturbed /\ jobs'[worker.job].status \notin Live
  BY <1>3, <1>7, SpentStep DEF Undisturbed, Typed
<1>9. Undisturbed' => \A j \in JobId : jobs'[j].status \in Live =>
                        jobs[j].status \in Live /\ (HasJob(j) => HasJob(j)')
  BY <1>3, <1>6, <1>8
<1>10. \A j \in JobId : HasJob(j)' /\ jobs[j].status \in Live => jobs'[j].status \in Live
  BY <1>3, <1>5
<1> QED BY <1>1, <1>3, <1>4, <1>8, <1>9, <1>10, PlacesStep

-----------------------------------------------------------------------------
(***************************************************************************)
(* The handlers' steps.                                                    *)
(***************************************************************************)
LEMMA PlacesUpsert ==
  ASSUME Typed, Places, Typed', NEW c \in Client,
         UpsertDocument(c) \/ MirrorAndAnswer(c) \/ (InsertJob(c) /\ UNCHANGED jobs)
  PROVE  Places'
<1>1. /\ up /\ handler[c].pc \in {"document", "settle", "insert"}
      /\ UNCHANGED <<jobs, queue, resuming, worker, sigterm, up>>
      /\ UNCHANGED spent \/ Fault
  BY DEF UpsertDocument, MirrorAndAnswer, InsertJob, At, proc
<1>2. handler[c].job = 0
  BY <1>1 DEF Places, Shapes, WithJob
<1>3. JobId' = JobId
  BY <1>1 DEF JobId
<1>4. handler \in [Client -> HandlerState]
  BY DEF Typed, TypeOK
<1>5. /\ handler'[c].job = 0 /\ handler'[c].pc \notin WithJob
      /\ handler'[c].gone => handler[c].gone /\ handler'[c].pc \notin {"idle", "giveback", "reject"}
      /\ \A d \in Client : d # c => handler'[d] = handler[d]
  <2>1. CASE Finish(c)
    BY <1>4, <2>1 DEF Finish, NoHandler, WithJob
  <2>2. CASE Goto(c, "settle") \/ Goto(c, "insert")
    BY <1>2, <1>4, <2>2 DEF Goto, HandlerState, WithJob
  <2>3. Finish(c) \/ Goto(c, "settle") \/ Goto(c, "insert")
    <3>1. InsertJob(c) /\ UNCHANGED jobs => Finish(c)
      <4>1. jobs # Append(jobs, [status |-> "pending", req |-> handler[c].req,
                                 task |-> FALSE, planned |-> build, n |-> NoCounts])
        BY AppendedIsLonger DEF Typed, TypeOK
      <4> QED BY <4>1 DEF InsertJob
    <3> QED BY <3>1 DEF UpsertDocument, MirrorAndAnswer
  <2> QED BY <2>1, <2>2, <2>3
<1> QED BY <1>1, <1>2, <1>3, <1>5, HandlerMoves

\* A row is created with its handler holding it.
LEMMA PlacesInsert ==
  ASSUME Typed, Places, Typed', NEW c \in Client, InsertJob(c), ~UNCHANGED jobs
  PROVE  Places'
<1> DEFINE row == [status |-> "pending", req |-> handler[c].req,
                   task |-> FALSE, planned |-> build, n |-> NoCounts]
<1>0. PICK new : new = Len(jobs) + 1
  OBVIOUS
<1>1. /\ jobs' = Append(jobs, row) /\ up /\ handler[c].pc = "insert"
      /\ handler' = [handler EXCEPT ![c] = [@ EXCEPT !.pc = "mirror", !.job = new]]
      /\ UNCHANGED <<queue, resuming, worker, sigterm, up, spent>>
  BY <1>0 DEF InsertJob, At, proc
<1>2. /\ JobId = 1..Len(jobs) /\ Len(jobs) \in Nat /\ new \notin JobId /\ new # 0 /\ new \in Nat
  BY <1>0, IdsAreNumbers
<1>3. row \in JobRow
  BY RowTyped DEF Typed, TypeOK, HandlerState, JobRow, Live, Counts, NoCounts
<1>4. /\ JobId' = JobId \cup {new} /\ jobs'[new].status \in Live
      /\ \A j \in JobId : jobs'[j] = jobs[j]
  <2>1. /\ Len(jobs') = new /\ jobs'[new] = row
        /\ \A i \in 1..Len(jobs) : jobs'[i] = jobs[i]
    BY <1>0, <1>1, <1>3, AppendProperties DEF Typed, TypeOK
  <2>2. JobId' = 1..Len(jobs')
    BY LenProperties DEF Typed, TypeOK, JobId
  <2> QED BY <1>0, <1>2, <2>1, <2>2 DEF Live
<1>5. /\ handler'[c].pc = "mirror" /\ handler'[c].job = new /\ handler'[c].gone = handler[c].gone
      /\ \A d \in Client : d # c => handler'[d] = handler[d]
  BY <1>1, <1>2 DEF Typed, TypeOK, HandlerState
<1>6. /\ handler[c].job = 0 /\ new \notin resuming /\ worker.job # new
      /\ \A i \in DOMAIN queue : queue[i] # new
      /\ \A d \in Client : handler[d].job # new
  <2>1. handler[c].job = 0
    BY <1>1 DEF Places, Shapes, WithJob
  <2> QED BY <1>2, <2>1, IdsAreNumbers DEF Places
<1>7. Shapes'
  BY <1>1, <1>2, <1>5 DEF Places, Shapes, WithJob
<1>8. Apart'
  BY <1>1, <1>5, <1>6 DEF Places, Apart
<1>9. \A j \in JobId : HasJob(j)' <=> HasJob(j)
  <2>1. \A d \in Client, j \in JobId : handler'[d].job = j <=> handler[d].job = j
    BY <1>2, <1>5, <1>6, IdsAreNumbers
  <2> QED BY <1>1, <2>1 DEF HasJob
<1>10. HasJob(new)'
  BY <1>5 DEF HasJob
<1>11. HeldIsOpen'
  BY <1>4, <1>9 DEF Places, HeldIsOpen
<1>12. NoneLost'
  BY <1>1, <1>4, <1>9, <1>10 DEF Places, NoneLost, Undisturbed
<1> QED BY <1>7, <1>8, <1>11, <1>12 DEF Places

\* Between the row and the send the handler keeps its job.
LEMMA PlacesOnward ==
  ASSUME Typed, Places, Typed', NEW c \in Client,
         MirrorSession(c) \/ StoreTask(c) \/ Overrun(c) \/ GiveBack(c)
  PROVE  Places'
<1>1. /\ up /\ handler[c].pc \in WithJob
      /\ UNCHANGED <<queue, resuming, worker, sigterm, up>>
      /\ UNCHANGED spent \/ Fault
  BY DEF MirrorSession, StoreTask, Overrun, GiveBack, At, proc, db, WithJob
<1>2. \/ Goto(c, "task") \/ Goto(c, "enqueue")
      \/ ~handler[c].gone /\ (Goto(c, "giveback") \/ Goto(c, "reject"))
  BY DEF MirrorSession, StoreTask, Overrun, GiveBack, At, Places, Shapes
<1>3. /\ handler'[c].job = handler[c].job /\ handler'[c].gone = handler[c].gone
      /\ handler'[c].pc \in WithJob
      /\ handler'[c].gone => handler'[c].pc \notin {"idle", "giveback", "reject"}
      /\ \A d \in Client : d # c => handler'[d] = handler[d]
  <2>1. handler \in [Client -> HandlerState]
    BY DEF Typed, TypeOK
  <2>2. CASE Goto(c, "task")
    BY <2>1, <2>2, GotoTyped DEF WithJob
  <2>3. CASE Goto(c, "enqueue")
    BY <2>1, <2>3, GotoTyped DEF WithJob
  <2>4. CASE ~handler[c].gone /\ Goto(c, "giveback")
    BY <2>1, <2>4, GotoTyped DEF WithJob
  <2>5. CASE ~handler[c].gone /\ Goto(c, "reject")
    BY <2>1, <2>5, GotoTyped DEF WithJob
  <2> QED BY <1>2, <2>2, <2>3, <2>4, <2>5
<1>4. handler[c].job # 0
  BY <1>1 DEF Places, Shapes
<1>5. JobId' = JobId /\ \A j \in JobId : jobs'[j].status = jobs[j].status
  <2>1. CASE UNCHANGED jobs
    BY <2>1 DEF JobId
  <2>2. CASE jobs' = [jobs EXCEPT ![handler[c].job].task = TRUE]
    <3>1. jobs \in [JobId -> JobRow]
      BY LenProperties DEF Typed, TypeOK, JobId
    <3> QED BY <2>2, <3>1 DEF JobRow, JobId
  <2> QED BY <2>1, <2>2 DEF MirrorSession, StoreTask, Overrun, GiveBack, db
<1> QED BY <1>1, <1>3, <1>4, <1>5, HandlerMoves

\* The job goes from the handler to the end of the queue.
LEMMA PlacesEnqueue ==
  ASSUME Typed, Places, Typed', NEW c \in Client, Enqueue(c)
  PROVE  Places'
<1>1. /\ up /\ handler[c].pc = "enqueue" /\ ~handler[c].gone
      /\ queue' = Append(queue, handler[c].job) /\ Finish(c)
      /\ UNCHANGED <<jobs, resuming, worker, sigterm, up, spent>>
  BY DEF Enqueue, At, proc, db
<1>2. handler[c].job # 0 /\ handler[c].job \in JobId /\ JobId' = JobId
  <2>1. handler[c].job # 0
    BY <1>1 DEF Places, Shapes, WithJob
  <2> QED BY <1>1, <2>1, IdsAreNumbers DEF Places, JobId
<1>3. /\ handler'[c].pc = "idle" /\ handler'[c].job = 0 /\ handler'[c].gone = FALSE
      /\ \A d \in Client : d # c => handler'[d] = handler[d]
  BY <1>1 DEF Finish, NoHandler, Typed, TypeOK
<1>4. PICK last : last = Len(queue) + 1
  OBVIOUS
<1>5. /\ DOMAIN queue' = DOMAIN queue \cup {last} /\ last \notin DOMAIN queue
      /\ queue'[last] = handler[c].job
      /\ \A i \in DOMAIN queue : queue'[i] = queue[i]
  <2>1. queue \in Seq(JobId) /\ DOMAIN queue = 1..Len(queue) /\ Len(queue) \in Nat
    BY LenProperties DEF Typed, TypeOK
  <2>2. /\ queue' \in Seq(JobId) /\ Len(queue') = Len(queue) + 1
        /\ \A i \in 1..Len(queue) : queue'[i] = queue[i]
        /\ queue'[Len(queue) + 1] = handler[c].job
    BY <1>1, <1>2, <2>1, AppendProperties
  <2>3. DOMAIN queue' = 1..Len(queue')
    BY <2>2, LenProperties
  <2> QED BY <1>4, <2>1, <2>2, <2>3
<1>6. Shapes'
  BY <1>1, <1>3 DEF Places, Shapes, WithJob
<1>7. Apart'
  <2>1. \A d \in Client : handler'[d].job # 0 => d # c /\ handler'[d].job # handler[c].job
    BY <1>2, <1>3 DEF Places, Apart
  <2> QED BY <1>1, <1>2, <1>3, <1>5, <2>1 DEF Places, Apart
<1>8. \A j \in JobId : HasJob(j)' <=> HasJob(j)
  <2>1. \A j \in JobId : j # 0
    BY IdsAreNumbers
  <2> QED BY <1>1, <1>3, <1>5, <2>1 DEF HasJob
<1>9. HeldIsOpen' /\ NoneLost'
  BY <1>1, <1>2, <1>8 DEF Places, HeldIsOpen, NoneLost, Undisturbed
<1> QED BY <1>6, <1>7, <1>9 DEF Places

\* A rejected job is settled, a dropped handler's job is nowhere.
LEMMA PlacesDrop ==
  ASSUME Typed, Places, Typed', NEW c \in Client, RejectJob(c) \/ Abandon(c)
  PROVE  Places'
<1>1. /\ up /\ handler[c].pc \in WithJob /\ Finish(c)
      /\ UNCHANGED <<queue, resuming, worker, sigterm, up>>
  BY DEF RejectJob, Abandon, At, proc, db, WithJob
<1>2. /\ handler'[c].pc = "idle" /\ handler'[c].job = 0 /\ handler'[c].gone = FALSE
      /\ \A d \in Client : d # c => handler'[d] = handler[d]
  BY <1>1 DEF Finish, NoHandler, Typed, TypeOK
<1>3. handler[c].job \in JobId /\ handler[c].job # 0
  BY <1>1, IdsAreNumbers DEF Places, Shapes
<1>4. /\ JobId' = JobId /\ (UNCHANGED spent \/ Fault)
      /\ \A j \in JobId : j # handler[c].job => jobs'[j].status = jobs[j].status
      /\ RejectJob(c) => Fault \/ jobs'[handler[c].job].status = "failed"
  <2>1. CASE UNCHANGED jobs /\ (UNCHANGED spent \/ Fault) /\ (RejectJob(c) => Fault)
    BY <2>1 DEF JobId
  <2>2. CASE jobs' = Written(jobs, handler[c].job, "failed", NoCounts) /\ UNCHANGED spent
    <3>1. jobs \in Seq(JobRow) /\ handler[c].job \in Nat /\ JobId = DOMAIN jobs
          /\ "failed" \in Live \cup Terminal /\ NoCounts \in Counts
      BY <1>3, IdsAreNumbers DEF Typed, TypeOK, JobId, Terminal, NoCounts, Counts
    <3>2. /\ Written(jobs, handler[c].job, "failed", NoCounts) \in [DOMAIN jobs -> JobRow]
          /\ \A i \in DOMAIN jobs :
               /\ i # handler[c].job =>
                    Written(jobs, handler[c].job, "failed", NoCounts)[i] = jobs[i]
               /\ i = handler[c].job =>
                    Written(jobs, handler[c].job, "failed", NoCounts)[i].status = "failed"
      BY <3>1, WrittenRows
    <3>3. JobId' = JobId
      BY <2>2, <3>2 DEF JobId
    <3> QED BY <1>3, <2>2, <3>1, <3>2, <3>3
  <2> QED BY <2>1, <2>2 DEF RejectJob, Abandon, db
<1>5. Shapes'
  BY <1>1, <1>2, <1>4, SpentStep DEF Places, Shapes, WithJob, Typed
<1>6. \A j \in JobId : HasJob(j)' => j # handler[c].job
  BY <1>1, <1>2, <1>3 DEF HasJob, Places, Apart
<1>7. \A j \in JobId : j # handler[c].job /\ HasJob(j) => HasJob(j)'
  BY <1>1, <1>2 DEF HasJob
<1>8. Undisturbed' => Undisturbed /\ RejectJob(c) /\ jobs'[handler[c].job].status \notin Live
  <2>1. Undisturbed' => Undisturbed /\ ~Fault
    BY <1>1, <1>4, SpentStep DEF Undisturbed, Typed
  <2>2. Abandon(c) => spent.hangups # 0
    BY DEF Abandon, Places, Shapes
  <2> QED BY <1>4, <2>1, <2>2 DEF Undisturbed, Live
<1>9. Undisturbed' => \A j \in JobId : jobs'[j].status \in Live =>
                        jobs[j].status \in Live /\ (HasJob(j) => HasJob(j)')
  BY <1>4, <1>7, <1>8
<1> QED BY <1>1, <1>2, <1>4, <1>5, <1>6, <1>8, <1>9, PlacesStep

LEMMA PlacesHandle ==
  ASSUME Typed, Places, Typed', NEW c \in Client, Handle(c)
  PROVE  Places'
BY PlacesUpsert, PlacesInsert, PlacesOnward, PlacesEnqueue, PlacesDrop DEF Handle

LEMMA PlacesClient ==
  ASSUME Typed, Places, Typed', NEW c \in Client, HangUp(c) \/ \E r \in Request : Admit(c, r)
  PROVE  Places'
<1>h. handler \in [Client -> HandlerState] /\ handler[c] \in HandlerState
  BY DEF Typed, TypeOK
<1>1. CASE HangUp(c)
  <2>1. /\ up /\ UNCHANGED <<jobs, queue, resuming, worker, sigterm, up>>
        /\ handler[c].pc \notin {"idle", "giveback", "reject"}
        /\ handler' = [handler EXCEPT ![c].gone = TRUE]
    BY <1>1 DEF HangUp, db, proc
  <2>2. /\ handler'[c].job = handler[c].job /\ handler'[c].pc = handler[c].pc
        /\ \A d \in Client : d # c => handler'[d] = handler[d]
    BY <1>h, <2>1 DEF HandlerState
  <2>3. spent'.hangups # 0
    BY <1>1 DEF HangUp, Typed, TypeOK, Spending
  <2>4. \A j \in JobId : HasJob(j)' <=> HasJob(j)
    BY <2>1, <2>2 DEF HasJob
  <2>5. Shapes'
    BY <2>1, <2>2, <2>3 DEF Places, Shapes
  <2>6. JobId' = JobId /\ ~Undisturbed'
    BY <2>1, <2>3 DEF JobId, Undisturbed
  <2>7. \A d \in Client : handler'[d].job = handler[d].job
    BY <2>2
  <2> QED BY <2>1, <2>4, <2>5, <2>6, <2>7, PlacesStep
<1>2. ASSUME NEW r \in Request, Admit(c, r) PROVE Places'
  <2>1. /\ up /\ handler[c].pc = "idle"
        /\ UNCHANGED <<jobs, queue, resuming, worker, sigterm, up, spent>>
    BY <1>2 DEF Admit, At, db, proc
  <2>2. /\ handler'[c].pc = "document" /\ handler'[c].job = 0 /\ handler'[c].gone = FALSE
        /\ \A d \in Client : d # c => handler'[d] = handler[d]
    BY <1>h, <1>2 DEF Admit
  <2>3. handler[c].job = 0 /\ JobId' = JobId
    BY <2>1 DEF Places, Shapes, WithJob, JobId
  <2> QED BY <2>1, <2>2, <2>3, HandlerMoves DEF WithJob
<1> QED BY <1>1, <1>2

-----------------------------------------------------------------------------
(***************************************************************************)
(* The worker's steps.                                                     *)
(***************************************************************************)
LEMMA PlacesDequeue ==
  ASSUME Typed, Places, Typed', Dequeue
  PROVE  Places'
<1>1. /\ up /\ worker.pc = "idle" /\ queue # <<>> /\ queue' = Tail(queue)
      /\ worker'.pc = "begin" /\ worker'.job = Head(queue)
      /\ UNCHANGED <<jobs, handler, resuming, sigterm, up, spent>>
  BY DEF Dequeue, Working, db, proc, Idle
<1>2. worker.job = 0 /\ JobId' = JobId
  BY <1>1 DEF Places, Shapes, JobId
<1>3. /\ queue \in Seq(JobId) /\ DOMAIN queue = 1..Len(queue) /\ Len(queue) \in Nat /\ Len(queue) > 0
      /\ Head(queue) = queue[1] /\ DOMAIN queue' = 1..(Len(queue) - 1)
      /\ \A i \in 1..(Len(queue) - 1) : queue'[i] = queue[i + 1]
  <2>1. queue \in Seq(JobId)
    BY DEF Typed, TypeOK
  <2>2. /\ Tail(queue) \in Seq(JobId) /\ Len(Tail(queue)) = Len(queue) - 1
        /\ \A i \in 1..Len(Tail(queue)) : Tail(queue)[i] = queue[i + 1]
        /\ Head(queue) = queue[1]
    BY <1>1, <2>1, HeadTailProperties
  <2> QED BY <1>1, <2>1, <2>2, LenProperties, EmptySeq
<1>4. Head(queue) \in JobId /\ Head(queue) # 0 /\ 1 \in DOMAIN queue
  BY <1>3, IdsAreNumbers
<1>5. Shapes'
  BY <1>1, <1>4 DEF Places, Shapes
<1>6. Apart'
  <2>1. \A i \in DOMAIN queue' : i + 1 \in DOMAIN queue /\ queue'[i] = queue[i + 1] /\ i + 1 # 1
    BY <1>3
  <2>2. \A i, k \in DOMAIN queue' : queue'[i] = queue'[k] => i = k
    <3>1. \A i \in DOMAIN queue' : i \in Nat
      BY <1>3
    <3> QED BY <2>1, <3>1 DEF Places, Apart
  <2>3. \A i \in DOMAIN queue' : queue'[i] \notin resuming /\ queue'[i] # worker'.job
    BY <1>1, <1>3, <1>4, <2>1 DEF Places, Apart
  <2>4. \A c \in Client : handler[c].job # 0 =>
          /\ \A i \in DOMAIN queue' : queue'[i] # handler[c].job
          /\ handler[c].job # worker'.job
    BY <1>1, <1>3, <1>4, <2>1 DEF Places, Apart
  <2>5. worker'.job \notin resuming
    BY <1>1, <1>3, <1>4 DEF Places, Apart
  <2> QED BY <1>1, <2>2, <2>3, <2>4, <2>5 DEF Places, Apart
<1>7. \A j \in JobId : HasJob(j)' <=> HasJob(j)
  <2>1. \A j \in JobId :
          (\E i \in DOMAIN queue : queue[i] = j) <=>
             (j = Head(queue) \/ \E i \in DOMAIN queue' : queue'[i] = j)
    <3>1. ASSUME NEW j \in JobId, NEW i \in DOMAIN queue, queue[i] = j, i # 1
          PROVE  i - 1 \in DOMAIN queue' /\ queue'[i - 1] = j
      BY <1>3, <3>1
    <3>2. ASSUME NEW j \in JobId, NEW i \in DOMAIN queue', queue'[i] = j
          PROVE  i + 1 \in DOMAIN queue /\ queue[i + 1] = j
      BY <1>3, <3>2
    <3> QED BY <1>3, <1>4, <3>1, <3>2
  <2>2. \A j \in JobId : j # 0
    BY IdsAreNumbers
  <2> QED BY <1>1, <1>2, <2>1, <2>2 DEF HasJob
<1>8. HeldIsOpen' /\ NoneLost'
  BY <1>1, <1>2, <1>7 DEF Places, HeldIsOpen, NoneLost, Undisturbed
<1> QED BY <1>5, <1>6, <1>8 DEF Places

LEMMA PlacesWork ==
  ASSUME Typed, Places, Typed', Work
  PROVE  Places'
<1>w. worker \in WorkerState /\ worker.n \in Counts
  BY DEF Typed, TypeOK, WorkerState
<1>s. "running" \in Live \cup Terminal /\ "failed" \in Terminal /\ "pending" \in Live
  BY DEF Live, Terminal
<1>1. CASE BeginJob
  <2>1. worker.job \in JobId
    BY <1>1 DEF BeginJob, Working, Typed, Control
  <2>2. ResumeAt(worker.job) \in Counts
    BY <2>1, RowTyped DEF ResumeAt, Typed
  <2>3. worker'.job = worker.job /\ worker'.pc = "loop"
    BY <1>w, <1>1 DEF BeginJob, WorkerState
  <2> QED BY <1>1, <2>2, <2>3, WorkerWrites DEF BeginJob, Working, proc
<1>2. CASE FlushProgress
  <2>1. worker'.job = worker.job /\ worker'.pc = "loop"
    BY <1>w, <1>2, StepTyped DEF FlushProgress
  <2> QED BY <1>w, <1>2, <2>1, WorkerWrites DEF FlushProgress, Working, proc
<1>3. CASE RefuseRecut
  <2>1. worker.job \in JobId
    BY <1>3 DEF RefuseRecut, Working, Typed, Control
  <2>2. ResumeAt(worker.job) \in Counts
    BY <2>1, RowTyped DEF ResumeAt, Typed
  <2> QED BY <1>s, <1>3, <2>2, WorkerReleases DEF RefuseRecut, Release, Working, proc
<1>4. CASE FlushPause
  <2>1. sigterm
    BY <1>4 DEF FlushPause, Working, Places, Shapes
  <2> QED BY <1>s, <1>w, <1>4, <2>1, WorkerReleases DEF FlushPause, Release, Working, proc
<1>5. CASE ReportOutcome
  <2>1. worker.outcome \in Terminal
    BY <1>5 DEF ReportOutcome, Working, Typed, Control
  <2> QED BY <1>w, <1>5, <2>1, WorkerReleases DEF ReportOutcome, Release, Working, proc
<1>6. CASE WorkerExit
  <2>1. worker'.job = worker.job /\ worker'.pc = "exited" /\ worker.job = 0
    BY <1>w, <1>6, StepTyped DEF WorkerExit, Working, Places, Shapes
  <2>2. /\ up /\ UNCHANGED <<jobs, handler, queue, resuming, sigterm, up, spent>> /\ JobId' = JobId
    BY <1>6 DEF WorkerExit, Working, db, proc, JobId
  <2> QED BY <2>1, <2>2, WorkerMoves
<1>7. CASE \/ WallTimeout \/ PauseBetween \/ SkipBlank \/ StartExtract \/ PauseInside
           \/ StoreChunk \/ ChunkFails \/ EndLoop \/ StampHash \/ ConfirmOffset
  <2>1. /\ up /\ UNCHANGED <<jobs, handler, queue, resuming, sigterm, up>> /\ JobId' = JobId
        /\ UNCHANGED spent \/ Fault
        /\ worker.pc \in {"loop", "extract", "stamp", "confirm"}
    BY <1>7 DEF WallTimeout, PauseBetween, SkipBlank, StartExtract, PauseInside, StoreChunk,
                ChunkFails, EndLoop, StampHash, ConfirmOffset, Working, db, proc, JobId
  <2>2. /\ worker'.job = worker.job /\ worker'.pc \notin {"idle", "exited"}
        /\ worker'.pc = "pause" => sigterm
    <3>1. CASE PauseBetween \/ PauseInside
      BY <1>w, <3>1, StepTyped DEF PauseBetween, PauseInside, Interrupted
    <3>2. CASE StampHash \/ ConfirmOffset
      BY <1>w, <3>2, StepTyped DEF StampHash, ConfirmOffset
    <3>3. CASE WallTimeout \/ SkipBlank \/ StartExtract \/ StoreChunk \/ ChunkFails \/ EndLoop
      BY <1>w, <3>3 DEF WallTimeout, SkipBlank, StartExtract, StoreChunk, ChunkFails, EndLoop,
                        WorkerState
    <3> QED BY <1>7, <3>1, <3>2, <3>3
  <2>3. worker.job # 0
    BY <2>1 DEF Places, Shapes
  <2> QED BY <2>1, <2>2, <2>3, WorkerMoves
<1> QED BY <1>1, <1>2, <1>3, <1>4, <1>5, <1>6, <1>7, PlacesDequeue DEF Work

-----------------------------------------------------------------------------
(***************************************************************************)
(* The process's steps.                                                    *)
(***************************************************************************)
\* Closing out the rows without a task leaves the resumable ones.
LEMMA StaleAreNotResumable ==
  ASSUME NEW rows \in Seq(JobRow)
  PROVE  /\ DOMAIN FailStale(rows) = DOMAIN rows
         /\ Resumable(FailStale(rows)) = Resumable(rows)
         /\ \A bad : Admitted(FailStale(rows), bad) = Admitted(rows, bad)
<1>1. rows \in [DOMAIN rows -> JobRow]
  BY LenProperties
<1>2. \A j \in DOMAIN rows :
        FailStale(rows)[j] = IF rows[j].status \in Live /\ ~rows[j].task
                             THEN [rows[j] EXCEPT !.status = "failed"] ELSE rows[j]
  BY DEF FailStale
<1>3. \A j \in DOMAIN rows :
        FailStale(rows)[j].status \in Live /\ FailStale(rows)[j].task
          <=> rows[j].status \in Live /\ rows[j].task
  BY <1>1, <1>2 DEF JobRow, Live, Terminal
<1>4. DOMAIN FailStale(rows) = DOMAIN rows
  BY DEF FailStale
<1>5. Resumable(FailStale(rows)) = Resumable(rows)
  BY <1>3, <1>4 DEF Resumable
<1> QED BY <1>4, <1>5 DEF Admitted

\* Of the resumable rows the admitted ones are reopened and the others closed.
LEMMA RequeuedRows ==
  ASSUME NEW rows \in Seq(JobRow), NEW bad
  PROVE  /\ \A j \in Admitted(rows, bad) :
              j \in DOMAIN rows /\ Requeued(rows, bad)[j].status \in Live
         /\ \A j \in DOMAIN rows :
              /\ j \in Resumable(rows) /\ j \notin Admitted(rows, bad) =>
                   Requeued(rows, bad)[j].status \notin Live
              /\ j \notin Resumable(rows) /\ j \notin Admitted(rows, bad) =>
                   Requeued(rows, bad)[j] = rows[j]
<1>1. rows \in [DOMAIN rows -> JobRow]
  BY LenProperties
<1>2. Admitted(rows, bad) \subseteq DOMAIN rows /\ Resumable(rows) \subseteq DOMAIN rows
  BY DEF Admitted, Resumable
<1>3. \A j \in DOMAIN rows :
        /\ j \in Admitted(rows, bad) =>
             Requeued(rows, bad)[j] = [rows[j] EXCEPT !.status = "pending"]
        /\ j \notin Admitted(rows, bad) /\ j \in Resumable(rows) =>
             Requeued(rows, bad)[j] = [rows[j] EXCEPT !.status = "failed", !.task = FALSE]
        /\ j \notin Admitted(rows, bad) /\ j \notin Resumable(rows) =>
             Requeued(rows, bad)[j] = rows[j]
  BY DEF Requeued
<1>4. \A row \in JobRow :
        /\ [row EXCEPT !.status = "pending"].status \in Live
        /\ [row EXCEPT !.status = "failed", !.task = FALSE].status \notin Live
  BY DEF JobRow, Live, Terminal
<1>5. \A j \in DOMAIN rows : rows[j] \in JobRow
  BY <1>1
<1>6. \A j \in Admitted(rows, bad) : Requeued(rows, bad)[j].status \in Live
  BY <1>2, <1>3, <1>4, <1>5, Zenon
<1>7. \A j \in DOMAIN rows :
        j \in Resumable(rows) /\ j \notin Admitted(rows, bad) =>
          Requeued(rows, bad)[j].status \notin Live
  BY <1>3, <1>4, <1>5, Zenon
<1> QED BY <1>2, <1>3, <1>6, <1>7, Zenon

LEMMA StartRows ==
  ASSUME Typed, Start
  PROVE  /\ JobId' = JobId /\ (UNCHANGED spent \/ Fault)
         /\ resuming' \subseteq JobId
         /\ \A j \in resuming' : jobs'[j].status \in Live
         /\ ~Fault => \A j \in JobId : jobs'[j].status \in Live => j \in resuming'
<1>0. jobs \in Seq(JobRow) /\ JobId = DOMAIN jobs
  BY DEF Typed, TypeOK, JobId
<1>1. JobId' = JobId /\ resuming' \subseteq JobId
  BY StartKeeps, SameIds DEF Kept, JobId, Typed
<1>2. /\ FailStale(jobs) \in Seq(JobRow) /\ DOMAIN FailStale(jobs) = JobId
      /\ Resumable(FailStale(jobs)) = Resumable(jobs)
      /\ \A bad : Admitted(FailStale(jobs), bad) = Admitted(jobs, bad)
  BY <1>0, StaleAreNotResumable, FailStaleKeeps, SameShape DEF Kept
<1>3. \A j \in JobId : FailStale(jobs)[j].status \in Live => j \in Resumable(jobs)
  <2>1. jobs \in [JobId -> JobRow]
    BY <1>0, LenProperties
  <2> QED BY <1>0, <2>1 DEF FailStale, Resumable, JobRow, Live
<1>4. CASE /\ resuming' = {} /\ Fault
  BY <1>1, <1>4
<1>5. ASSUME NEW bad, resuming' = Admitted(jobs, bad), UNCHANGED spent,
             jobs' = Requeued(FailStale(jobs), bad)
      PROVE  /\ \A j \in resuming' : jobs'[j].status \in Live
             /\ \A j \in JobId : jobs'[j].status \in Live => j \in resuming'
  BY <1>2, <1>3, <1>5, RequeuedRows
<1>6. ASSUME NEW bad, resuming' = Admitted(jobs, bad), Fault,
             jobs' = Requeued(jobs, bad)
      PROVE  \A j \in resuming' : jobs'[j].status \in Live
  BY <1>0, <1>6, RequeuedRows
<1>7. ASSUME NEW bad, NEW i \in Resumable(jobs), resuming' = Admitted(jobs, bad), Fault,
             jobs' = [Requeued(FailStale(jobs), bad) EXCEPT ![i] = jobs[i]]
      PROVE  \A j \in resuming' : jobs'[j].status \in Live
  <2>1. jobs[i].status \in Live
    BY DEF Resumable
  <2>2. DOMAIN Requeued(FailStale(jobs), bad) = JobId
    BY <1>2 DEF Requeued
  <2>3. \A j \in resuming' : Requeued(FailStale(jobs), bad)[j].status \in Live
    BY <1>2, <1>7, RequeuedRows
  <2>4. \A j \in JobId : jobs'[j] = IF j = i THEN jobs[i] ELSE Requeued(FailStale(jobs), bad)[j]
    BY <1>7, <2>2
  <2> QED BY <1>1, <2>1, <2>3, <2>4
<1>8. spent.faults \in Nat
  BY DEF Typed, TypeOK, Spending
<1>9. UNCHANGED spent => ~Fault
  BY <1>8 DEF Fault, Typed, TypeOK, Spending
<1> QED BY <1>1, <1>4, <1>5, <1>6, <1>7, <1>9 DEF Start

LEMMA PlacesStart ==
  ASSUME Typed, Places, Typed', Start
  PROVE  Places'
<1>1. /\ ~up /\ up' /\ UNCHANGED <<handler, queue, sigterm, worker>>
      /\ queue = <<>> /\ worker.job = 0 /\ \A c \in Client : handler[c].job = 0
  BY DEF Start, Places, Shapes, WithJob, Typed, Control
<1>2. 0 \notin JobId /\ resuming' \subseteq JobId /\ JobId' = JobId /\ (UNCHANGED spent \/ Fault)
  BY IdsAreNumbers, StartRows
<1>3. Shapes'
  BY <1>1, <1>2, SpentStep DEF Places, Shapes, Typed
<1>4. \A j \in JobId : HasJob(j)' <=> j \in resuming'
  BY <1>1, <1>2, EmptySeq DEF HasJob
<1>5. Apart'
  BY <1>1, <1>2, EmptySeq DEF Apart
<1>6. HeldIsOpen'
  BY <1>2, <1>4, StartRows DEF HeldIsOpen
<1>7. NoneLost'
  <2>1. Undisturbed' => ~Fault
    BY <1>2, SpentStep DEF Undisturbed, Typed
  <2> QED BY <1>2, <1>4, <2>1, StartRows DEF NoneLost
<1> QED BY <1>3, <1>5, <1>6, <1>7 DEF Places

LEMMA PlacesSend ==
  ASSUME Typed, Places, Typed', SendResumed
  PROVE  Places'
<1>1. PICK j \in resuming : queue' = Append(queue, j) /\ resuming' = resuming \ {j}
  BY DEF SendResumed
<1>2. UNCHANGED <<jobs, handler, worker, sigterm, up, spent>> /\ JobId' = JobId
  BY DEF SendResumed, db, proc, JobId
<1>3. j \in JobId /\ j # 0
  BY IdsAreNumbers
<1>4. PICK last : last = Len(queue) + 1
  OBVIOUS
<1>5. /\ DOMAIN queue' = DOMAIN queue \cup {last} /\ last \notin DOMAIN queue
      /\ queue'[last] = j
      /\ \A i \in DOMAIN queue : queue'[i] = queue[i]
  <2>1. queue \in Seq(JobId) /\ DOMAIN queue = 1..Len(queue) /\ Len(queue) \in Nat
    BY LenProperties DEF Typed, TypeOK
  <2>2. /\ queue' \in Seq(JobId) /\ Len(queue') = Len(queue) + 1
        /\ \A i \in 1..Len(queue) : queue'[i] = queue[i]
        /\ queue'[Len(queue) + 1] = j
    BY <1>1, <1>3, <2>1, AppendProperties
  <2>3. DOMAIN queue' = 1..Len(queue')
    BY <2>2, LenProperties
  <2> QED BY <1>4, <2>1, <2>2, <2>3
<1>6. Shapes'
  BY <1>2 DEF Places, Shapes, SendResumed
<1>7. Apart'
  BY <1>1, <1>2, <1>5 DEF Places, Apart
<1>8. \A i \in JobId : HasJob(i)' <=> HasJob(i)
  BY <1>1, <1>2, <1>5 DEF HasJob
<1>9. HeldIsOpen' /\ NoneLost'
  BY <1>2, <1>8 DEF Places, HeldIsOpen, NoneLost, Undisturbed
<1> QED BY <1>6, <1>7, <1>9 DEF Places

LEMMA PlacesProcess ==
  ASSUME Typed, Places, Typed',
         Sigterm \/ Exit \/ Kill \/ Start \/ SendResumed \/ \E s \in Session : ExpireSession(s)
  PROVE  Places'
<1>1. CASE Sigterm
  <2>1. /\ up /\ UNCHANGED <<jobs, handler, queue, resuming, worker, up>> /\ JobId' = JobId
        /\ sigterm' /\ spent'.hangups = spent.hangups
    BY <1>1 DEF Sigterm, db, proc, JobId, Typed, TypeOK, Spending
  <2>2. Shapes' /\ ~Undisturbed'
    BY <2>1 DEF Places, Shapes, Undisturbed
  <2>3. \A j \in JobId : HasJob(j)' <=> HasJob(j)
    BY <2>1 DEF HasJob
  <2> QED BY <2>1, <2>2, <2>3, PlacesStep
<1>2. CASE Exit \/ Kill
  <2>1. /\ UNCHANGED jobs /\ JobId' = JobId /\ ~up' /\ queue' = <<>> /\ resuming' = {}
        /\ \A c \in Client : handler'[c] = NoHandler
        /\ worker' = Idle
    BY <1>2 DEF Exit, Kill, Die, db, JobId
  <2>2. /\ worker'.pc = "idle" /\ worker'.job = 0
        /\ \A c \in Client : /\ handler'[c].pc = "idle" /\ handler'[c].job = 0
                              /\ handler'[c].gone = FALSE
    <3>1. NoHandler.gone = FALSE
      BY DEF NoHandler
    <3> QED BY <2>1, <3>1, IdleTyped
  <2>3. Shapes' /\ ~Undisturbed'
    BY <2>1, <2>2 DEF Shapes, WithJob, Undisturbed
  <2>4. \A j \in JobId : ~HasJob(j)'
    BY <2>1, <2>2, IdsAreNumbers, EmptySeq DEF HasJob
  <2> QED BY <2>1, <2>2, <2>3, <2>4, PlacesStep
<1>3. ASSUME NEW s \in Session, ExpireSession(s) PROVE Places'
  <2>1. /\ UNCHANGED <<jobs, handler, queue, resuming, worker, up, sigterm, spent>>
        /\ JobId' = JobId
    BY <1>3 DEF ExpireSession, ram, proc, JobId
  <2>2. \A j \in JobId : HasJob(j)' <=> HasJob(j)
    BY <2>1 DEF HasJob
  <2>3. Shapes' /\ (Undisturbed' => Undisturbed)
    BY <2>1 DEF Places, Shapes, Undisturbed
  <2> QED BY <2>1, <2>2, <2>3, PlacesStep
<1> QED BY <1>1, <1>2, <1>3, PlacesStart, PlacesSend

-----------------------------------------------------------------------------
(***************************************************************************)
(* Slots and bytes.                                                        *)
(***************************************************************************)
LEMMA ResumingIsFinite ==
  ASSUME Typed
  PROVE  IsFiniteSet(resuming) /\ Cardinality(resuming) \in Nat /\ Len(queue) \in Nat
<1>1. IsFiniteSet(JobId)
  BY IdsAreNumbers, FS_Interval
<1>2. IsFiniteSet(resuming)
  BY <1>1, IdsAreNumbers, FS_Subset
<1>3. Len(queue) \in Nat
  BY LenProperties DEF Typed, TypeOK
<1> QED BY <1>2, <1>3, FS_CardinalityType

\* Which handlers give back bytes, and which hold a permit, after one moved.
LEMMA OneHandler ==
  ASSUME NEW c \in Client, \A d \in Client : d # c => handler'[d] = handler[d]
  PROVE  /\ Giving' = IF handler'[c].pc = "giveback" THEN Giving \cup {c} ELSE Giving \ {c}
         /\ Permits' = IF handler'[c].pc # "idle" /\ ~handler'[c].gone
                       THEN Permits \cup {c} ELSE Permits \ {c}
<1>1. \A d \in Client : d \in Giving' <=> handler'[d].pc = "giveback"
  BY DEF Giving
<1>2. \A d \in Client : d \in Permits' <=> handler'[d].pc # "idle" /\ ~handler'[d].gone
  BY DEF Permits
<1>3. Giving' \subseteq Client /\ Permits' \subseteq Client
  BY DEF Giving, Permits
<1>4. Giving \subseteq Client /\ Permits \subseteq Client
  BY DEF Giving, Permits
<1>5. \A d \in Client : d # c => /\ (d \in Giving' <=> d \in Giving)
                                /\ (d \in Permits' <=> d \in Permits)
  BY DEF Giving, Permits
<1> QED BY <1>1, <1>2, <1>3, <1>4, <1>5

\* A step that moves nothing that is counted, and takes no slot.
LEMMA CountedStill ==
  ASSUME Counted, UNCHANGED <<held, resuming>>, Len(queue') = Len(queue),
         worker'.job = 0 <=> worker.job = 0, Giving' = Giving, Permits' \subseteq Permits,
         Typed
  PROVE  Counted'
<1>1. /\ IsFiniteSet(Permits') /\ Cardinality(Permits') \in Nat /\ Cardinality(Permits) \in Nat
      /\ Cardinality(Permits') <= Cardinality(Permits)
  BY FS_Subset, FS_CardinalityType DEF Counted
<1>2. Len(queue) \in Nat /\ Capacity \in Nat
  BY ResumingIsFinite, BoundsAssumption
<1> QED BY <1>1, <1>2 DEF Counted, BytesAndSlots

LEMMA CountedHandle ==
  ASSUME Typed, Places, Counted, Typed', NEW c \in Client, Handle(c)
  PROVE  Counted'
<1>h. handler \in [Client -> HandlerState]
  BY DEF Typed, TypeOK
<1>f. /\ IsFiniteSet(Giving) /\ IsFiniteSet(Permits)
      /\ Cardinality(Giving) \in Nat /\ Cardinality(Permits) \in Nat
      /\ Len(queue) \in Nat /\ Capacity \in Nat /\ Cardinality(resuming) \in Nat /\ held \in Int
      /\ held = Len(queue) + Cardinality(resuming) + (IF worker.job # 0 THEN 1 ELSE 0)
                 + Cardinality(Giving)
      /\ Len(queue) + Cardinality(Permits) <= Capacity
  BY FS_CardinalityType, ResumingIsFinite, BoundsAssumption
     DEF Counted, BytesAndSlots, Typed, TypeOK
<1>1. CASE \/ UpsertDocument(c) \/ MirrorAndAnswer(c) \/ InsertJob(c) \/ MirrorSession(c)
           \/ StoreTask(c) \/ RejectJob(c) \/ Abandon(c)
  <2>1. /\ UNCHANGED <<held, resuming, queue, worker>>
        /\ handler[c].pc \notin {"idle", "giveback"}
    BY <1>1 DEF UpsertDocument, MirrorAndAnswer, InsertJob, MirrorSession, StoreTask, RejectJob,
                Abandon, At
  <2>2. /\ handler'[c].pc # "giveback" /\ (handler'[c].pc = "idle" \/ handler'[c].gone = handler[c].gone)
        /\ \A d \in Client : d # c => handler'[d] = handler[d]
    <3>1. CASE Finish(c)
      BY <1>h, <3>1, FinishTyped
    <3>2. CASE Goto(c, "settle") \/ Goto(c, "insert") \/ Goto(c, "task") \/ Goto(c, "enqueue")
      <4>1. CASE Goto(c, "settle")
        BY <1>h, <4>1, GotoTyped
      <4>2. CASE Goto(c, "insert")
        BY <1>h, <4>2, GotoTyped
      <4>3. CASE Goto(c, "task")
        BY <1>h, <4>3, GotoTyped
      <4>4. CASE Goto(c, "enqueue")
        BY <1>h, <4>4, GotoTyped
      <4> QED BY <3>2, <4>1, <4>2, <4>3, <4>4
    <3>3. CASE handler' = [handler EXCEPT ![c] =
                            [@ EXCEPT !.pc = "mirror", !.job = Len(jobs) + 1]]
      <4>1. handler'[c] = [handler[c] EXCEPT !.pc = "mirror", !.job = Len(jobs) + 1]
        BY <1>h, <3>3
      <4>2. handler'[c].pc = "mirror" /\ handler'[c].gone = handler[c].gone
        BY <1>h, <4>1 DEF HandlerState
      <4> QED BY <1>h, <3>3, <4>2
    <3> QED BY <1>1, <3>1, <3>2, <3>3 DEF UpsertDocument, MirrorAndAnswer, InsertJob,
                MirrorSession, StoreTask, RejectJob, Abandon
  <2>3. c \notin Giving
    BY <2>1 DEF Giving
  <2>4. c \notin Permits => handler'[c].pc = "idle" \/ handler'[c].gone
    BY <2>1, <2>2 DEF Permits
  <2>5. Giving' = Giving /\ Permits' \subseteq Permits
    BY <2>2, <2>3, <2>4, OneHandler
  <2> QED BY <2>1, <2>5, CountedStill
<1>2. CASE Enqueue(c)
  <2>1. /\ held' = held + 1 /\ queue' = Append(queue, handler[c].job)
        /\ UNCHANGED <<resuming, worker>>
        /\ handler[c].pc = "enqueue" /\ ~handler[c].gone /\ Finish(c)
    BY <1>2 DEF Enqueue, At
  <2>2. Len(queue') = Len(queue) + 1
    <3>1. handler[c].job \in JobId
      BY <2>1 DEF Typed, Control
    <3> QED BY <2>1, <3>1, AppendProperties DEF Typed, TypeOK
  <2>3. handler'[c].pc = "idle" /\ \A d \in Client : d # c => handler'[d] = handler[d]
    BY <1>h, <2>1, FinishTyped
  <2>4. c \in Permits /\ c \notin Giving
    BY <2>1 DEF Permits, Giving
  <2>5. Giving' = Giving /\ Permits' = Permits \ {c}
    BY <2>3, <2>4, OneHandler
  <2>6. /\ IsFiniteSet(Permits') /\ Cardinality(Permits') = Cardinality(Permits) - 1
    BY <1>f, <2>4, <2>5, FS_RemoveElement
  <2>7. /\ held' = held + 1 /\ worker'.job = worker.job
        /\ Cardinality(resuming') = Cardinality(resuming)
        /\ Cardinality(Giving') = Cardinality(Giving) /\ IsFiniteSet(Giving')
    <3>1. held' = held + 1 /\ UNCHANGED <<resuming, worker>>
      BY <2>1
    <3>2. Giving' = Giving
      BY <2>5
    <3> QED BY <1>f, <3>1, <3>2
  <2>8. held' = Len(queue') + Cardinality(resuming') + (IF worker'.job # 0 THEN 1 ELSE 0)
                + Cardinality(Giving')
    BY <1>f, <2>2, <2>7
  <2>9. Len(queue') + Cardinality(Permits') <= Capacity
    BY <1>f, <2>2, <2>6
  <2> QED BY <2>6, <2>7, <2>8, <2>9 DEF Counted, BytesAndSlots
<1>3. CASE Overrun(c)
  <2>1. /\ held' = held + 1 /\ UNCHANGED <<resuming, worker, queue>>
        /\ handler[c].pc = "enqueue" /\ ~handler[c].gone /\ Goto(c, "giveback")
    BY <1>3 DEF Overrun, At
  <2>2. /\ handler'[c].pc = "giveback" /\ handler'[c].gone = handler[c].gone
        /\ \A d \in Client : d # c => handler'[d] = handler[d]
    BY <1>h, <2>1, GotoTyped
  <2>3. c \in Permits /\ c \notin Giving
    BY <2>1 DEF Permits, Giving
  <2>4. Giving' = Giving \cup {c} /\ Permits' = Permits
    BY <2>1, <2>2, <2>3, OneHandler
  <2>5. /\ IsFiniteSet(Giving') /\ Cardinality(Giving') = Cardinality(Giving) + 1
    BY <1>f, <2>3, <2>4, FS_AddElement
  <2>6. /\ held' = Len(queue') + Cardinality(resuming') + (IF worker'.job # 0 THEN 1 ELSE 0)
                   + Cardinality(Giving')
        /\ Len(queue') + Cardinality(Permits') <= Capacity /\ IsFiniteSet(Permits')
    <3>1. /\ held' = held + 1 /\ Len(queue') = Len(queue)
          /\ Cardinality(resuming') = Cardinality(resuming) /\ worker'.job = worker.job
      BY <2>1
    <3>2. Cardinality(Permits') = Cardinality(Permits) /\ IsFiniteSet(Permits')
      BY <1>f, <2>4
    <3> QED BY SMTT(60), <1>f, <2>5, <3>1, <3>2
  <2> QED BY <2>5, <2>6 DEF Counted, BytesAndSlots
<1>4. CASE GiveBack(c)
  <2>1. /\ held' = held - 1 /\ UNCHANGED <<resuming, worker, queue>>
        /\ handler[c].pc = "giveback" /\ Goto(c, "reject")
    BY <1>4 DEF GiveBack, At
  <2>2. /\ handler'[c].pc = "reject" /\ handler'[c].gone = handler[c].gone
        /\ \A d \in Client : d # c => handler'[d] = handler[d]
    BY <1>h, <2>1, GotoTyped
  <2>3. c \in Permits /\ c \in Giving /\ ~handler[c].gone
    BY <2>1 DEF Permits, Giving, Places, Shapes
  <2>4. Giving' = Giving \ {c} /\ Permits' = Permits
    BY <2>2, <2>3, OneHandler
  <2>5. /\ IsFiniteSet(Giving') /\ Cardinality(Giving') = Cardinality(Giving) - 1
    BY <1>f, <2>3, <2>4, FS_RemoveElement
  <2>6. /\ held' = Len(queue') + Cardinality(resuming') + (IF worker'.job # 0 THEN 1 ELSE 0)
                   + Cardinality(Giving')
        /\ Len(queue') + Cardinality(Permits') <= Capacity /\ IsFiniteSet(Permits')
    <3>1. /\ held' = held - 1 /\ Len(queue') = Len(queue)
          /\ Cardinality(resuming') = Cardinality(resuming) /\ worker'.job = worker.job
      BY <2>1
    <3>2. Cardinality(Permits') = Cardinality(Permits) /\ IsFiniteSet(Permits')
      BY <1>f, <2>4
    <3> QED BY <1>f, <2>5, <3>1, <3>2
  <2> QED BY <2>5, <2>6 DEF Counted, BytesAndSlots
<1> QED BY <1>1, <1>2, <1>3, <1>4 DEF Handle

LEMMA CountedClient ==
  ASSUME Typed, Places, Counted, Typed', NEW c \in Client,
         HangUp(c) \/ \E r \in Request : Admit(c, r)
  PROVE  Counted'
<1>h. handler \in [Client -> HandlerState] /\ handler[c] \in HandlerState
  BY DEF Typed, TypeOK
<1>1. CASE HangUp(c)
  <2>1. /\ UNCHANGED <<held, resuming, queue, worker>>
        /\ handler[c].pc \notin {"idle", "giveback"}
        /\ handler' = [handler EXCEPT ![c].gone = TRUE]
    BY <1>1 DEF HangUp
  <2>2. /\ handler'[c].pc = handler[c].pc /\ handler'[c].gone = TRUE
        /\ \A d \in Client : d # c => handler'[d] = handler[d]
    BY <1>h, <2>1 DEF HandlerState
  <2>3. c \notin Giving
    BY <2>1 DEF Giving
  <2>4. Giving' = Giving /\ Permits' \subseteq Permits
    BY <2>1, <2>2, <2>3, OneHandler
  <2> QED BY <2>1, <2>4, CountedStill
<1>2. ASSUME NEW r \in Request, Admit(c, r) PROVE Counted'
  <2>1. /\ UNCHANGED <<held, resuming, queue, worker>>
        /\ handler[c].pc = "idle" /\ FreeSlots > 0
    BY <1>2 DEF Admit, At
  <2>2. /\ handler'[c].pc = "document" /\ handler'[c].gone = FALSE
        /\ \A d \in Client : d # c => handler'[d] = handler[d]
    BY <1>h, <1>2 DEF Admit
  <2>3. c \notin Giving /\ c \notin Permits
    BY <2>1 DEF Giving, Permits
  <2>4. Giving' = Giving /\ Permits' = Permits \cup {c}
    BY <2>2, <2>3, OneHandler
  <2>5. /\ IsFiniteSet(Permits') /\ Cardinality(Permits') = Cardinality(Permits) + 1
    BY <2>3, <2>4, FS_AddElement DEF Counted
  <2>6. Cardinality(Permits) \in Nat /\ Len(queue) \in Nat /\ Capacity \in Nat
    BY FS_CardinalityType, ResumingIsFinite, BoundsAssumption DEF Counted
  <2>7. Len(queue) + Cardinality(Permits) + 1 <= Capacity
    BY <2>1, <2>6 DEF FreeSlots
  <2> QED BY <2>1, <2>4, <2>5, <2>6, <2>7 DEF Counted, BytesAndSlots
<1> QED BY <1>1, <1>2

\* The worker's steps leave the handlers alone, and keep its job but to take
\* one and to release it.
LEMMA CountedWork ==
  ASSUME Typed, Places, Counted, Typed', Work
  PROVE  Counted'
<1>w. worker \in WorkerState
  BY DEF Typed, TypeOK
<1>1. UNCHANGED <<handler, resuming>>
  BY DEF Work, Dequeue, WorkerExit, BeginJob, RefuseRecut, WallTimeout, PauseBetween, SkipBlank,
         StartExtract, PauseInside, StoreChunk, ChunkFails, FlushProgress, FlushPause, EndLoop,
         StampHash, ConfirmOffset, ReportOutcome
<1>2. Giving' = Giving /\ Permits' = Permits
  BY <1>1 DEF Giving, Permits
<1>3. Len(queue) \in Nat /\ Cardinality(Giving) \in Nat /\ Cardinality(resuming) \in Nat
      /\ Cardinality(Permits) \in Nat /\ Capacity \in Nat
  BY FS_CardinalityType, ResumingIsFinite, BoundsAssumption DEF Counted
<1>4. CASE Dequeue
  <2>1. /\ worker.job = 0 /\ worker'.job = Head(queue) /\ UNCHANGED held
        /\ queue # <<>> /\ queue' = Tail(queue)
    BY <1>4 DEF Dequeue, Working, Idle, Places, Shapes
  <2>2. Len(queue') = Len(queue) - 1 /\ Head(queue) \in JobId
    BY <2>1, HeadTailProperties DEF Typed, TypeOK
  <2>3. Head(queue) # 0
    BY <2>2, IdsAreNumbers
  <2>4. worker.job = 0 /\ worker'.job # 0 /\ held' = held
    BY <2>1, <2>3
  <2>5. Len(queue') = Len(queue) - 1
    BY <2>2
  <2>6. /\ Cardinality(resuming') = Cardinality(resuming)
        /\ Cardinality(Giving') = Cardinality(Giving)
        /\ Cardinality(Permits') = Cardinality(Permits)
    BY <1>1, <1>2
  <2>7. /\ held = Len(queue) + Cardinality(resuming) + Cardinality(Giving)
        /\ Len(queue) + Cardinality(Permits) <= Capacity
    BY <1>3, <2>4 DEF Counted, BytesAndSlots
  <2>8. held' = Len(queue') + Cardinality(resuming') + (IF worker'.job # 0 THEN 1 ELSE 0)
                + Cardinality(Giving')
    BY <1>3, <2>4, <2>5, <2>6, <2>7
  <2>9. Len(queue') + Cardinality(Permits') <= Capacity
    BY <1>3, <2>5, <2>6, <2>7
  <2>10. IsFiniteSet(Giving') /\ IsFiniteSet(Permits')
    BY <1>2 DEF Counted
  <2> QED BY <2>8, <2>9, <2>10 DEF Counted, BytesAndSlots
<1>5. CASE RefuseRecut \/ FlushPause \/ ReportOutcome
  <2>1. /\ worker.job # 0 /\ worker' = Idle /\ held' = held - 1 /\ UNCHANGED queue
    BY <1>5 DEF RefuseRecut, FlushPause, ReportOutcome, Release, Working, Places, Shapes
  <2>2. worker'.job = 0
    BY <2>1, IdleTyped
  <2>3. UNCHANGED queue /\ held' = held - 1 /\ worker.job # 0
    BY <2>1
  <2> QED BY <1>1, <1>2, <1>3, <2>2, <2>3 DEF Counted, BytesAndSlots
<1>6. CASE BeginJob \/ WallTimeout \/ SkipBlank \/ StartExtract \/ StoreChunk \/ ChunkFails
           \/ EndLoop
  <2>1. /\ UNCHANGED <<held, queue>> /\ worker'.job = worker.job
    BY <1>w, <1>6 DEF BeginJob, WallTimeout, SkipBlank, StartExtract, StoreChunk, ChunkFails,
                      EndLoop, WorkerState
  <2> QED BY <1>1, <1>2, <2>1, CountedStill
<1>7. CASE WorkerExit \/ PauseBetween \/ PauseInside \/ FlushProgress \/ StampHash \/ ConfirmOffset
  <2>1. UNCHANGED <<held, queue>>
    BY <1>7 DEF WorkerExit, PauseBetween, PauseInside, FlushProgress, StampHash, ConfirmOffset
  <2>2. worker'.job = worker.job
    BY <1>w, <1>7, StepTyped
       DEF WorkerExit, PauseBetween, PauseInside, FlushProgress, StampHash, ConfirmOffset
  <2> QED BY <1>1, <1>2, <2>1, <2>2, CountedStill
<1> QED BY <1>4, <1>5, <1>6, <1>7 DEF Work

LEMMA CountedProcess ==
  ASSUME Typed, Places, Counted, Typed',
         Sigterm \/ Exit \/ Kill \/ Start \/ SendResumed \/ \E s \in Session : ExpireSession(s)
  PROVE  Counted'
<1>f. /\ Len(queue) \in Nat /\ Cardinality(Giving) \in Nat /\ Cardinality(resuming) \in Nat
      /\ Cardinality(Permits) \in Nat /\ Capacity \in Nat /\ IsFiniteSet(resuming)
      /\ IsFiniteSet({}) /\ Cardinality({}) = 0 /\ Len(<<>>) = 0
  BY FS_CardinalityType, FS_EmptySet, EmptySeq, ResumingIsFinite, BoundsAssumption DEF Counted
<1>1. CASE Sigterm \/ \E s \in Session : ExpireSession(s)
  <2>1. UNCHANGED <<held, queue, resuming, worker, handler>>
    BY <1>1 DEF Sigterm, ExpireSession, ram
  <2> QED BY <2>1, CountedStill DEF Giving, Permits
<1>2. CASE Exit \/ Kill
  <2>1. /\ queue' = <<>> /\ resuming' = {} /\ held' = 0 /\ worker' = Idle
        /\ \A c \in Client : handler'[c] = NoHandler
    BY <1>2 DEF Exit, Kill, Die
  <2>2. worker'.job = 0 /\ \A c \in Client : handler'[c].pc = "idle"
    BY <2>1, IdleTyped
  <2>3. Giving' = {} /\ Permits' = {}
    BY <2>2 DEF Giving, Permits
  <2> QED BY <1>f, <2>1, <2>2, <2>3 DEF Counted, BytesAndSlots
<1>3. CASE Start
  <2>1. /\ queue = <<>> /\ worker.job = 0 /\ \A c \in Client : handler[c].pc = "idle"
        /\ UNCHANGED <<queue, worker, handler>> /\ held' = Cardinality(resuming')
    BY <1>3 DEF Start, Places, Shapes, Typed, Control
  <2>2. Giving' = {} /\ Permits' = {}
    BY <2>1 DEF Giving, Permits
  <2>3. Cardinality(resuming') \in Nat
    <3>1. IsFiniteSet(JobId)
      BY IdsAreNumbers, FS_Interval
    <3>2. IsFiniteSet(resuming')
      BY <1>3, <3>1, StartRows, FS_Subset
    <3> QED BY <3>2, FS_CardinalityType
  <2> QED BY <1>f, <2>1, <2>2, <2>3 DEF Counted, BytesAndSlots
<1>4. CASE SendResumed
  <2>1. PICK j \in resuming : queue' = Append(queue, j) /\ resuming' = resuming \ {j}
    BY <1>4 DEF SendResumed
  <2>2. UNCHANGED <<held, worker, handler>> /\ FreeSlots > 0
    BY <1>4 DEF SendResumed
  <2>3. Len(queue') = Len(queue) + 1
    <3>1. j \in JobId
      BY IdsAreNumbers
    <3> QED BY <2>1, <3>1, AppendProperties DEF Typed, TypeOK
  <2>4. Cardinality(resuming') = Cardinality(resuming) - 1
    BY <1>f, <2>1, FS_RemoveElement
  <2>5. Giving' = Giving /\ Permits' = Permits
    BY <2>2 DEF Giving, Permits
  <2>6. Len(queue) + Cardinality(Permits) + 1 <= Capacity
    BY <1>f, <2>2 DEF FreeSlots
  <2>7. UNCHANGED <<held, worker>>
    BY <2>2
  <2> QED BY <1>f, <2>3, <2>4, <2>5, <2>6, <2>7 DEF Counted, BytesAndSlots
<1> QED BY <1>1, <1>2, <1>3, <1>4

-----------------------------------------------------------------------------
LEMMA AccountedInit == Init => Accounted
<1> SUFFICES ASSUME Init PROVE Accounted
  OBVIOUS
<1>1. Typed
  BY TypedInit
<1>2. /\ JobId = {} /\ queue = <<>> /\ resuming = {} /\ held = 0 /\ up = TRUE
      /\ worker.pc = "idle" /\ worker.job = 0
      /\ \A c \in Client : /\ handler[c].pc = "idle" /\ handler[c].job = 0
                            /\ handler[c].gone = FALSE
  <2>1. NoHandler.gone = FALSE
    BY DEF NoHandler
  <2> QED BY <2>1, IdleTyped DEF Init, JobId
<1>3. Giving = {} /\ Permits = {}
  BY <1>2 DEF Giving, Permits
<1>4. Places
  BY <1>2, EmptySeq DEF Places, Shapes, WithJob, Apart, HeldIsOpen, NoneLost
<1>5. Counted
  BY <1>2, <1>3, FS_EmptySet, EmptySeq, BoundsAssumption DEF Counted, BytesAndSlots
<1> QED BY <1>1, <1>4, <1>5 DEF Accounted

LEMMA AccountedStep == Accounted /\ [Next]_vars => Accounted'
<1> SUFFICES ASSUME Accounted, [Next]_vars PROVE Accounted'
  OBVIOUS
<1> USE DEF Accounted
<1>1. Typed'
  BY TypedStep
<1>2. CASE UNCHANGED vars
  <2>1. UNCHANGED <<jobs, handler, queue, resuming, held, sigterm, worker, up, spent>>
    BY <1>2 DEF vars, db, ram, proc
  <2>2. JobId' = JobId /\ \A j \in JobId : HasJob(j)' <=> HasJob(j)
    BY <2>1 DEF JobId, HasJob
  <2>3. Shapes' /\ (Undisturbed' => Undisturbed)
    BY <2>1 DEF Places, Shapes, Undisturbed
  <2>4. Places'
    BY <1>1, <2>1, <2>2, <2>3, PlacesStep
  <2>5. Counted'
    BY <2>1, CountedStill DEF Giving, Permits
  <2> QED BY <1>1, <2>4, <2>5
<1>3. ASSUME NEW c \in Client, Handle(c) \/ HangUp(c) \/ \E r \in Request : Admit(c, r)
      PROVE  Accounted'
  BY <1>1, <1>3, PlacesHandle, PlacesClient, CountedHandle, CountedClient
<1>4. CASE Work
  BY <1>1, <1>4, PlacesWork, CountedWork
<1>5. CASE Sigterm \/ Exit \/ Kill \/ Start \/ SendResumed \/ \E s \in Session : ExpireSession(s)
  BY <1>1, <1>5, PlacesProcess, CountedProcess
<1> QED BY <1>2, <1>3, <1>4, <1>5 DEF Next

LEMMA AtMostOne ==
  ASSUME NEW S, \A x, y \in S : x = y
  PROVE  Cardinality(S) = IF S = {} THEN 0 ELSE 1
<1>1. CASE S = {}
  BY <1>1, FS_EmptySet
<1>2. ASSUME NEW x \in S PROVE Cardinality(S) = 1 /\ S # {}
  <2>1. S = {x}
    OBVIOUS
  <2> QED BY <2>1, FS_Singleton
<1> QED BY <1>1, <1>2

\* The places of the invariant, counted.
LEMMA HeldOnce == Accounted => JobsAreHeldOnce
<1> SUFFICES ASSUME Accounted, up, NEW j \in JobId
             PROVE  /\ Holders(j) <= 1
                    /\ jobs[j].status \in Terminal => Holders(j) = 0
                    /\ jobs[j].status \in Live /\ ~sigterm
                          /\ spent.faults = 0 /\ spent.hangups = 0 => Holders(j) = 1
  BY DEF JobsAreHeldOnce
<1> USE DEF Accounted, Places
<1>1. j # 0
  BY IdsAreNumbers
<1>2. Cardinality(InHandler(j)) = IF InHandler(j) = {} THEN 0 ELSE 1
  <2>1. \A c, d \in InHandler(j) : c = d
    BY <1>1 DEF InHandler, Apart
  <2> QED BY <2>1, AtMostOne
<1>3. Cardinality(InQueue(j)) = IF InQueue(j) = {} THEN 0 ELSE 1
  <2>1. \A i, k \in InQueue(j) : i = k
    BY DEF InQueue, Apart
  <2> QED BY <2>1, AtMostOne
<1>4. Holders(j) = (IF InHandler(j) = {} THEN 0 ELSE 1) + (IF InQueue(j) = {} THEN 0 ELSE 1)
                   + (IF j \in resuming THEN 1 ELSE 0) + (IF worker.job = j THEN 1 ELSE 0)
  BY <1>2, <1>3 DEF Holders
<1>5. /\ InHandler(j) # {} => InQueue(j) = {} /\ j \notin resuming /\ worker.job # j
      /\ InQueue(j) # {} => j \notin resuming /\ worker.job # j
      /\ j \in resuming => worker.job # j
  BY <1>1 DEF InHandler, InQueue, Apart
<1>6. InHandler(j) # {} \/ InQueue(j) # {} \/ j \in resuming \/ worker.job = j => HasJob(j)
  BY DEF InHandler, InQueue, HasJob
<1>7. spent.hangups = 0 /\ HasJob(j) =>
        InHandler(j) # {} \/ InQueue(j) # {} \/ j \in resuming \/ worker.job = j
  BY DEF InHandler, InQueue, HasJob, Shapes
<1>8. Holders(j) <= 1 /\ (~HasJob(j) => Holders(j) = 0)
  BY <1>4, <1>5, <1>6
<1>9. jobs[j].status \in Terminal => ~HasJob(j)
  BY DEF HeldIsOpen, Terminal, Live
<1>10. jobs[j].status \in Live /\ ~sigterm /\ spent.faults = 0 /\ spent.hangups = 0 =>
         Holders(j) = 1
  BY <1>4, <1>5, <1>7 DEF NoneLost, Undisturbed
<1> QED BY <1>8, <1>9, <1>10

\* Through every handler, worker and process step and for any bounds, a running
\* daemon has each job in one place at most and each settled job nowhere, and
\* it loses an unfinished one only by a pause, a dropped handler or a failed
\* write; the byte budget and the channel's slots count what is there.
THEOREM JobsAreAccounted == Spec => []JobsAreAccountedFor
<1>1. Spec => []Accounted
  BY AccountedInit, AccountedStep, PTL DEF Spec
<1>2. Accounted => JobsAreAccountedFor
  <2>1. Accounted => QueueIsAccountedFor
    BY DEF Accounted, Counted, BytesAndSlots, Giving, QueueIsAccountedFor
  <2> QED BY <2>1, HeldOnce DEF JobsAreAccountedFor
<1> QED BY <1>1, <1>2, PTL

-----------------------------------------------------------------------------
(***************************************************************************)
(* The pipeline implements the ledger.                                     *)
(***************************************************************************)
\* The entry a row stands for.
Shown(j) == [doc |-> ReqOf(j).doc, content |-> ReqOf(j).content, whole |-> Whole(j),
             state |-> IF jobs[j].status \in Live THEN "open" ELSE jobs[j].status]

LEMMA EntriesAreShown ==
  /\ DOMAIN LedgerEntries = JobId
  /\ \A j \in JobId : LedgerEntries[j] = Shown(j)
  /\ LedgerEntries = [j \in JobId |-> Shown(j)]
  /\ LedgerEntries' = [j \in JobId' |-> Shown(j)']
BY DEF LedgerEntries, Shown

\* An unfinished row is an open entry.
LEMMA LiveIsOpen ==
  ASSUME NEW j \in JobId, jobs[j].status \in Live
  PROVE  /\ j \in Ledger!OpenEntries
         /\ LedgerEntries[j].whole <=> Whole(j)
         /\ LedgerEntries[j].doc = ReqOf(j).doc
         /\ LedgerEntries[j].content = ReqOf(j).content
<1>1. LedgerEntries[j] = Shown(j) /\ DOMAIN LedgerEntries = JobId
  BY EntriesAreShown
<1>2. /\ Shown(j).state = "open" /\ (Shown(j).whole <=> Whole(j))
      /\ Shown(j).doc = ReqOf(j).doc /\ Shown(j).content = ReqOf(j).content
  BY DEF Shown
<1> QED BY <1>1, <1>2 DEF Ledger!OpenEntries

\* What the pipeline does to one entry.
LEMMA EntryChanges ==
  ASSUME JobId' = JobId, NEW j \in JobId,
         \A k \in JobId : k # j => Shown(k)' = Shown(k)
  PROVE  LedgerEntries' = [LedgerEntries EXCEPT ![j] = Shown(j)']
<1>1. LedgerEntries' = [k \in JobId |-> Shown(k)']
  BY EntriesAreShown
<1>2. LedgerEntries = [k \in JobId |-> Shown(k)]
  BY EntriesAreShown
<1> QED BY <1>1, <1>2

\* A step that settles at most one open row, as done only if it is whole.
LEMMA LedgerSettles ==
  ASSUME Typed, JobId' = JobId, UNCHANGED <<facts, hash>>,
         \A k \in JobId : ReqOf(k)' = ReqOf(k), NEW j \in JobId,
         \A k \in JobId : k # j => jobs'[k].status = jobs[k].status,
         jobs[j].status \in Live, jobs'[j].status \in Live \cup Terminal,
         jobs'[j].status = "done" => Whole(j)
  PROVE  [Ledger!Next]_(Ledger!vars)
<1>1. \A k \in JobId : Whole(k)' = Whole(k)
  BY DEF Whole
<1>2. \A k \in JobId : k # j => Shown(k)' = Shown(k)
  BY <1>1 DEF Shown
<1>3. LedgerEntries' = [LedgerEntries EXCEPT ![j] = Shown(j)']
  BY <1>2, EntryChanges
<1>4. LedgerEntries[j] = Shown(j) /\ DOMAIN LedgerEntries = JobId
  BY EntriesAreShown
<1>5. CASE jobs'[j].status \in Live
  <2>1. Shown(j)' = Shown(j)
    BY <1>1, <1>5 DEF Shown
  <2>2. LedgerEntries' = LedgerEntries
    BY <1>2, <2>1, EntriesAreShown
  <2> QED BY <2>2 DEF Ledger!vars
<1>6. CASE jobs'[j].status \in Terminal
  <2> DEFINE state == jobs'[j].status
  <2>1. Shown(j)' = [Shown(j) EXCEPT !.state = state]
    BY <1>1, <1>6 DEF Shown, Live, Terminal
  <2>2. LedgerEntries' = [LedgerEntries EXCEPT ![j].state = state]
    BY <1>3, <1>4, <2>1
  <2>3. j \in Ledger!OpenEntries /\ (state = "done" => LedgerEntries[j].whole)
    BY LiveIsOpen
  <2> HIDE DEF state
  <2>4. Ledger!Settle(j, state)
    BY <2>2, <2>3 DEF Ledger!Settle
  <2>5. state \in {"done", "partial", "failed"}
    BY <1>6 DEF state, Terminal
  <2> QED BY <2>3, <2>4, <2>5 DEF Ledger!Next
<1> QED BY <1>5, <1>6

\* A step that leaves rows, facts and hashes alone.
LEMMA LedgerUnmoved ==
  ASSUME UNCHANGED <<jobs, facts, hash>>
  PROVE  [Ledger!Next]_(Ledger!vars)
<1>1. JobId' = JobId /\ \A j \in JobId : Shown(j)' = Shown(j)
  BY DEF Shown, Whole, ReqOf, JobId
<1>2. LedgerEntries' = LedgerEntries
  BY <1>1, EntriesAreShown
<1> QED BY <1>2 DEF Ledger!vars

\* A step that leaves rows and facts alone.
LEMMA EntriesUnmoved ==
  ASSUME UNCHANGED <<jobs, facts>>
  PROVE  LedgerEntries' = LedgerEntries
<1>1. JobId' = JobId /\ \A j \in JobId : Shown(j)' = Shown(j)
  BY DEF Shown, Whole, ReqOf, JobId
<1> QED BY <1>1, EntriesAreShown

LEMMA LedgerFlush ==
  ASSUME Ingest, Places, NEW status \in Live \cup Terminal, NEW n \in Counts,
         Flush(status, n), UNCHANGED <<facts, hash>>, worker.job # 0,
         status = "done" => Whole(worker.job)
  PROVE  [Ledger!Next]_(Ledger!vars)
<1> DEFINE j == worker.job
<1>1. j \in JobId /\ jobs[j].status \in Live
  BY IdsAreNumbers DEF Ingest, Places, HeldIsOpen, HasJob
<1>2. /\ JobId' = JobId
      /\ \A k \in JobId : jobs'[k].req = jobs[k].req
      /\ \A k \in JobId :
           jobs'[k] = jobs[k] \/ (k = worker.job /\ jobs'[k].status = status)
  <2>1. Typed
    BY DEF Ingest
  <2>2. /\ JobId' = JobId
        /\ \A k \in JobId : /\ jobs'[k].req = jobs[k].req
                            /\ jobs'[k].planned = jobs[k].planned
                            /\ \/ jobs'[k] = jobs[k]
                               \/ /\ k = worker.job
                                  /\ jobs'[k].status = status /\ jobs'[k].n = n
    BY <2>1, FlushRows
  <2> QED BY <2>2
<1>3. /\ \A k \in JobId : k # j => jobs'[k].status = jobs[k].status
      /\ jobs'[j].status \in Live \cup Terminal
      /\ jobs'[j].status = "done" => Whole(j)
  BY <1>1, <1>2 DEF Live, Terminal
<1>4. \A k \in JobId : ReqOf(k)' = ReqOf(k)
  BY <1>2 DEF ReqOf
<1> QED BY <1>1, <1>2, <1>3, <1>4, LedgerSettles DEF Ingest

LEMMA LedgerInserts ==
  ASSUME Typed, Typed', NEW c \in Client, InsertJob(c)
  PROVE  [Ledger!Next]_(Ledger!vars)
<1>1. CASE UNCHANGED <<jobs, facts>>
  BY <1>1, LedgerUnmoved DEF InsertJob
<1>2. ASSUME jobs' = Append(jobs, [status |-> "pending", req |-> handler[c].req,
                                   task |-> FALSE, planned |-> build, n |-> NoCounts]),
             facts' = Append(facts, [p \in Piece |-> 0])
      PROVE  [Ledger!Next]_(Ledger!vars)
  <2> DEFINE row == [status |-> "pending", req |-> handler[c].req,
                     task |-> FALSE, planned |-> build, n |-> NoCounts]
             d == handler[c].req.doc
             t == handler[c].req.content
             entry == [doc |-> d, content |-> t, whole |-> t \in BlankContent,
                       state |-> "open"]
  <2>0. PICK new : new = Len(jobs) + 1
    OBVIOUS
  <2>1. /\ Len(jobs) \in Nat /\ JobId = 1..Len(jobs) /\ Len(facts) = Len(jobs)
        /\ JobId' = 1..Len(jobs') /\ Len(facts') = Len(jobs')
    BY LenProperties DEF Typed, TypeOK, JobId
  <2>2. row \in JobRow /\ handler[c].req \in Request /\ t \in Content
    BY <1>2, RowTyped DEF InsertJob, At, Typed, Control, TypeOK, HandlerState, JobRow, Live,
                          Counts, NoCounts
  <2>3. /\ Len(jobs') = new /\ jobs'[new] = row
        /\ \A i \in 1..Len(jobs) : jobs'[i] = jobs[i]
    BY <1>2, <2>0, <2>2, AppendProperties DEF Typed, TypeOK
  <2>4. /\ \A i \in 1..Len(facts) : facts'[i] = facts[i]
        /\ facts'[new] = [p \in Piece |-> 0]
    <3>1. [p \in Piece |-> 0] \in [Piece -> Nat]
      OBVIOUS
    <3> QED BY <1>2, <2>0, <2>1, <3>1, AppendProperties DEF Typed, TypeOK
  <2>5. \A i \in JobId : Shown(i)' = Shown(i)
    BY <2>1, <2>3, <2>4 DEF Shown, ReqOf, Whole
  <2>6. Shown(new)' = entry
    <3>1. Whole(new)' <=> t \in BlankContent
      <4>1. Whole(new)' <=> Stored([p \in Piece |-> 0], Text(t))
        BY <2>1, <2>3, <2>4 DEF Whole, ReqOf
      <4>2. Stored([p \in Piece |-> 0], Text(t)) <=> Text(t) = {}
        BY <2>2, TextTyped DEF Stored
      <4> QED BY <2>2, <4>1, <4>2 DEF BlankContent
    <3>2. Whole(new)' = (t \in BlankContent)
      <4>1. Whole(new)' \in BOOLEAN /\ (t \in BlankContent) \in BOOLEAN
        BY DEF Whole, Stored
      <4> QED BY <3>1, <4>1
    <3> QED BY <2>3, <3>2 DEF Shown, ReqOf, Live
  <2>7. LedgerEntries' = Append(LedgerEntries, entry)
    <3>1. /\ DOMAIN LedgerEntries = JobId /\ \A i \in JobId : LedgerEntries[i] = Shown(i)
          /\ LedgerEntries = [i \in JobId |-> Shown(i)]
          /\ LedgerEntries' = [i \in JobId' |-> Shown(i)']
      BY EntriesAreShown
    <3> DEFINE T == {Shown(i) : i \in JobId} \cup {entry}
    <3>2. LedgerEntries \in Seq(T) /\ Len(LedgerEntries) = Len(jobs)
      <4>1. LedgerEntries \in [1..Len(jobs) -> T]
        BY <2>1, <3>1
      <4>2. LedgerEntries \in Seq(T)
        BY <2>1, <4>1, SeqDef
      <4>3. DOMAIN LedgerEntries = 1..Len(LedgerEntries) /\ Len(LedgerEntries) \in Nat
        BY <4>2, LenProperties
      <4> QED BY <2>1, <3>1, <4>2, <4>3
    <3>3. LedgerEntries' \in Seq(T) /\ Len(LedgerEntries') = new
      <4>1. \A i \in JobId' : Shown(i)' \in T
        <5>1. \A i \in JobId' : i \in JobId \/ i = new
          BY <2>0, <2>1, <2>3
        <5> QED BY <2>5, <2>6, <5>1
      <4>2. LedgerEntries' \in [1..new -> T]
        BY <2>1, <2>3, <3>1, <4>1
      <4>3. LedgerEntries' \in Seq(T)
        BY <2>0, <2>1, <4>2, SeqDef
      <4>4. DOMAIN LedgerEntries' = 1..Len(LedgerEntries') /\ Len(LedgerEntries') \in Nat
        BY <4>3, LenProperties
      <4> QED BY <2>0, <2>1, <4>2, <4>3, <4>4
    <3>4. /\ Append(LedgerEntries, entry) \in Seq(T)
          /\ Len(Append(LedgerEntries, entry)) = new
          /\ \A i \in 1..Len(jobs) : Append(LedgerEntries, entry)[i] = LedgerEntries[i]
          /\ Append(LedgerEntries, entry)[new] = entry
      BY <2>0, <3>2, AppendProperties
    <3>5. \A i \in 1..new : LedgerEntries'[i] = Append(LedgerEntries, entry)[i]
      <4>1. \A i \in 1..new : i \in JobId \/ i = new
        BY <2>0, <2>1
      <4>2. \A i \in 1..new : LedgerEntries'[i] = Shown(i)'
        BY <2>1, <2>3, <3>1
      <4>3. \A i \in JobId : Append(LedgerEntries, entry)[i] = Shown(i)
        BY <2>1, <3>1, <3>4
      <4> HIDE DEF entry
      <4> QED BY <2>5, <2>6, <3>4, <4>1, <4>2, <4>3
    <3> QED BY <3>3, <3>4, <3>5, SeqEqual
  <2>8. d \in Doc /\ UNCHANGED hash
    BY <2>2, RequestTyped DEF InsertJob
  <2> QED BY <2>2, <2>7, <2>8 DEF Ledger!Next, Ledger!Accept
<1> QED BY <1>1, <1>2 DEF InsertJob

\* The chunk that completes a text, or one that does not.
LEMMA LedgerStores ==
  ASSUME Typed, Typed', Places, StoreChunk
  PROVE  [Ledger!Next]_(Ledger!vars)
<1>0. PICK j : j = worker.job
  OBVIOUS
<1>1. j \in JobId /\ jobs[j].status \in Live
  <2>1. j \in JobId
    BY <1>0 DEF StoreChunk, Working, Typed, Control
  <2> QED BY <1>0, <2>1 DEF Places, HeldIsOpen, HasJob
<1>2. UNCHANGED <<jobs, hash>>
  BY DEF StoreChunk
<1>3. /\ DOMAIN facts = JobId /\ facts \in [JobId -> [Piece -> Nat]]
      /\ \A k \in JobId : k # j => facts'[k] = facts[k]
  <2>1. DOMAIN facts = JobId /\ facts \in [JobId -> [Piece -> Nat]]
    BY LenProperties DEF Typed, TypeOK, JobId
  <2> QED BY <1>0, <2>1 DEF StoreChunk
<1>4. \A p \in Piece : facts'[j][p] >= facts[j][p]
  BY <1>0, <1>1, <1>3, StoredMore DEF StoreChunk
<1>5. JobId' = JobId /\ \A k \in JobId : ReqOf(k)' = ReqOf(k)
  BY <1>2, SameRows
<1>6. \A k \in JobId : k # j => Shown(k)' = Shown(k)
  BY <1>2, <1>3 DEF Shown, ReqOf, Whole
<1>7. Whole(j) => Whole(j)'
  BY <1>1, <1>4, <1>5, WholeStays
<1>8. CASE Whole(j)' = Whole(j)
  <2>1. Shown(j)' = Shown(j)
    BY <1>2, <1>8 DEF Shown, ReqOf
  <2>2. LedgerEntries' = LedgerEntries
    BY <1>5, <1>6, <2>1, EntriesAreShown
  <2> QED BY <1>2, <2>2 DEF Ledger!vars
<1>9. CASE ~Whole(j) /\ Whole(j)' = TRUE
  <2>1. Shown(j)' = [Shown(j) EXCEPT !.whole = TRUE]
    <3> DEFINE state == IF jobs[j].status \in Live THEN "open" ELSE jobs[j].status
               entry(w) == [doc |-> ReqOf(j).doc, content |-> ReqOf(j).content, whole |-> w,
                            state |-> state]
    <3>1. Shown(j) = entry(Whole(j)) /\ Shown(j)' = entry(Whole(j)')
      BY <1>2 DEF Shown, ReqOf
    <3>2. \A w, x : [entry(w) EXCEPT !.whole = x] = entry(x)
      OBVIOUS
    <3>3. entry(Whole(j)') = entry(TRUE)
      BY <1>9, Zenon
    <3> HIDE DEF entry
    <3> QED BY ZenonT(60), <3>1, <3>2, <3>3
  <2>2. LedgerEntries' = [LedgerEntries EXCEPT ![j].whole = TRUE]
    <3>1. LedgerEntries' = [LedgerEntries EXCEPT ![j] = Shown(j)']
      BY <1>1, <1>5, <1>6, EntryChanges
    <3>2. LedgerEntries[j] = Shown(j)
      BY <1>1, EntriesAreShown
    <3> QED BY <2>1, <3>1, <3>2, Zenon
  <2>3. j \in Ledger!OpenEntries /\ ~LedgerEntries[j].whole
    BY <1>1, <1>9, LiveIsOpen
  <2>4. Ledger!Complete(j)
    BY <1>2, <2>2, <2>3 DEF Ledger!Complete
  <2> QED BY <2>3, <2>4 DEF Ledger!Next
<1>10. Whole(j) \in BOOLEAN /\ Whole(j)' \in BOOLEAN
  BY DEF Whole, Stored
<1> QED BY <1>7, <1>8, <1>9, <1>10

\* The hash of a content is stamped while its job is open and whole.
LEMMA LedgerStamps ==
  ASSUME Ingest, Places, StampHash
  PROVE  [Ledger!Next]_(Ledger!vars)
<1> DEFINE j == worker.job
<1>1. j \in JobId /\ jobs[j].status \in Live /\ Whole(j)
  <2>1. worker.pc = "stamp"
    BY DEF StampHash, Working
  <2>2. j \in JobId /\ Whole(j)
    BY <2>1 DEF Ingest, Typed, Control, WorkerIsDone
  <2> QED BY <2>2 DEF Places, HeldIsOpen, HasJob
<1>2. UNCHANGED <<jobs, facts>>
  BY DEF StampHash
<1>3. CASE UNCHANGED hash
  BY <1>2, <1>3, LedgerUnmoved
<1>4. CASE hash' = [hash EXCEPT ![ReqOf(j).doc] = ReqOf(j).content]
  <2>1. LedgerEntries' = LedgerEntries
    BY <1>2, EntriesUnmoved
  <2>2. /\ j \in Ledger!OpenEntries /\ LedgerEntries[j].whole
        /\ LedgerEntries[j].doc = ReqOf(j).doc /\ LedgerEntries[j].content = ReqOf(j).content
    BY <1>1, LiveIsOpen
  <2>3. Ledger!Mark(j)
    BY <1>4, <2>1, <2>2 DEF Ledger!Mark
  <2> QED BY <2>2, <2>3 DEF Ledger!Next
<1> QED BY <1>3, <1>4 DEF StampHash

\* New content takes the mark of its document away.
LEMMA LedgerUnmarks ==
  ASSUME Typed, NEW c \in Client, UpsertDocument(c)
  PROVE  [Ledger!Next]_(Ledger!vars)
<1>1. UNCHANGED <<jobs, facts>>
  BY DEF UpsertDocument
<1>2. CASE UNCHANGED hash
  BY <1>1, <1>2, LedgerUnmoved
<1>3. CASE hash' = [hash EXCEPT ![handler[c].req.doc] = NoHash]
  <2>1. handler[c].req.doc \in Doc
    BY RequestTyped DEF Typed, TypeOK, HandlerState
  <2>2. LedgerEntries' = LedgerEntries
    BY <1>1, EntriesUnmoved
  <2> QED BY <1>3, <2>1, <2>2 DEF Ledger!Next, Ledger!Unmark
<1> QED BY <1>2, <1>3 DEF UpsertDocument, NewHash

\* A restart fails some of the unfinished rows and reopens the others.
LEMMA LedgerRestarts ==
  ASSUME Typed, Start
  PROVE  [Ledger!Next]_(Ledger!vars)
<1> DEFINE some == {j \in JobId : jobs[j].status \in Live /\ jobs'[j].status \notin Live}
<1>1. UNCHANGED <<facts, hash>>
  BY DEF Start
<1>2. Kept(jobs, jobs') /\ JobId' = JobId
  BY StartKeeps, StartRows DEF Typed
<1>3. \A j \in JobId :
        /\ jobs'[j].req = jobs[j].req
        /\ \/ jobs'[j].status = jobs[j].status
           \/ jobs[j].status \in Live /\ jobs'[j].status \in {"pending", "failed"}
  BY <1>2 DEF Kept, JobId
<1>4. \A j \in JobId : /\ Whole(j)' = Whole(j) /\ ReqOf(j)' = ReqOf(j)
  BY <1>1, <1>3 DEF Whole, ReqOf
<1>5. \A j \in JobId \ some : Shown(j)' = Shown(j)
  BY <1>3, <1>4 DEF Shown, Live
<1>6. \A j \in some : Shown(j)' = [Shown(j) EXCEPT !.state = "failed"]
  BY <1>3, <1>4 DEF Shown, Live
<1>7. some \subseteq Ledger!OpenEntries
  BY LiveIsOpen
<1> HIDE DEF some
<1>8. LedgerEntries' = [j \in JobId |-> IF j \in some
                                       THEN [Shown(j) EXCEPT !.state = "failed"]
                                       ELSE Shown(j)]
  BY <1>2, <1>5, <1>6, EntriesAreShown
<1>9. Ledger!GiveUp(some)
  BY <1>1, <1>7, <1>8, EntriesAreShown DEF Ledger!GiveUp
<1> QED BY <1>7, <1>9 DEF Ledger!Next

LEMMA LedgerHandle ==
  ASSUME Ingest, Accounted, NEW c \in Client, Handle(c)
  PROVE  [Ledger!Next]_(Ledger!vars)
<1>t. Typed /\ Typed' /\ Places
  BY TypedHandle DEF Accounted
<1>1. CASE UpsertDocument(c)
  BY <1>t, <1>1, LedgerUnmarks
<1>2. CASE InsertJob(c)
  BY <1>t, <1>2, LedgerInserts
<1>3. CASE StoreTask(c) \/ RejectJob(c)
  <2>1. CASE UNCHANGED jobs
    BY <1>3, <2>1, LedgerUnmoved DEF StoreTask, RejectJob
  <2> DEFINE j == handler[c].job
  <2>2. /\ j \in JobId /\ jobs[j].status \in Live /\ UNCHANGED <<facts, hash>>
        /\ jobs \in Seq(JobRow) /\ jobs \in [JobId -> JobRow] /\ JobId = DOMAIN jobs
    <3>1. j \in JobId /\ UNCHANGED <<facts, hash>>
      BY <1>3, <1>t DEF StoreTask, RejectJob, At, Typed, Control
    <3>2. jobs \in Seq(JobRow) /\ jobs \in [JobId -> JobRow] /\ JobId = DOMAIN jobs
      BY <1>t, LenProperties DEF Typed, TypeOK, JobId
    <3> QED BY <1>t, <3>1, <3>2 DEF Places, HeldIsOpen, HasJob
  <2>3. CASE StoreTask(c) /\ jobs' = [jobs EXCEPT ![j].task = TRUE]
    <3>1. /\ JobId' = JobId
          /\ \A k \in JobId : jobs'[k].req = jobs[k].req /\ jobs'[k].status = jobs[k].status
      BY <2>2, <2>3 DEF JobId, JobRow
    <3>2. /\ \A k \in JobId : ReqOf(k)' = ReqOf(k)
          /\ jobs'[j].status \in Live /\ jobs'[j].status # "done"
      BY <2>2, <3>1 DEF ReqOf, Live
    <3> QED BY <1>t, <2>2, <3>1, <3>2, LedgerSettles
  <2>4. CASE jobs' = Written(jobs, j, "failed", NoCounts)
    <3>1. "failed" \in Live \cup Terminal /\ NoCounts \in Counts /\ j \in Nat
      BY <1>t, <2>2, IdsAreNumbers DEF Terminal, Counts, NoCounts
    <3>2. /\ jobs' \in [JobId -> JobRow]
          /\ \A k \in JobId :
               /\ jobs'[k].req = jobs[k].req
               /\ k # j => jobs'[k] = jobs[k]
               /\ k = j => jobs'[k].status = "failed"
      BY <2>2, <2>4, <3>1, WrittenRows
    <3>3. JobId' = JobId
      BY <3>2 DEF JobId
    <3>4. /\ \A k \in JobId : ReqOf(k)' = ReqOf(k)
          /\ jobs'[j].status \in Live \cup Terminal /\ jobs'[j].status # "done"
      BY <2>2, <3>1, <3>2 DEF ReqOf
    <3> QED BY <1>t, <2>2, <3>2, <3>3, <3>4, LedgerSettles
  <2> QED BY <1>3, <2>1, <2>3, <2>4 DEF StoreTask, RejectJob
<1>4. CASE MirrorAndAnswer(c) \/ MirrorSession(c) \/ Enqueue(c) \/ Overrun(c) \/ GiveBack(c)
             \/ Abandon(c)
  BY <1>4, LedgerUnmoved
     DEF MirrorAndAnswer, MirrorSession, Enqueue, Overrun, GiveBack, Abandon, db
<1> QED BY <1>1, <1>2, <1>3, <1>4 DEF Handle

LEMMA LedgerWork ==
  ASSUME Ingest, Accounted, Work
  PROVE  [Ledger!Next]_(Ledger!vars)
<1>t. Typed /\ Typed' /\ Places
  BY TypedWork DEF Accounted
<1>1. CASE StoreChunk
  BY <1>t, <1>1, LedgerStores
<1>2. CASE StampHash
  BY <1>t, <1>2, LedgerStamps
<1>3. CASE BeginJob \/ RefuseRecut \/ FlushProgress \/ FlushPause \/ ReportOutcome
  <2>1. UNCHANGED <<facts, hash>> /\ worker.job # 0 /\ worker.n \in Counts
    BY <1>t, <1>3 DEF BeginJob, RefuseRecut, FlushProgress, FlushPause, ReportOutcome, Working, Places,
                      Shapes, Typed, TypeOK, WorkerState
  <2>2. CASE BeginJob \/ RefuseRecut
    <3>1. PICK status \in {"running", "failed"} : Flush(status, ResumeAt(worker.job))
      BY <2>2 DEF BeginJob, RefuseRecut
    <3>2. ResumeAt(worker.job) \in Counts
      BY <1>t, <2>1, IdsAreNumbers, RowTyped DEF ResumeAt, Typed, Places
    <3>3. status \in Live \cup Terminal /\ status # "done"
      BY DEF Live, Terminal
    <3> QED BY <1>t, <2>1, <3>1, <3>2, <3>3, LedgerFlush
  <2>3. CASE FlushProgress \/ FlushPause
    <3>1. PICK status \in Live : Flush(status, worker.n)
      BY <2>3 DEF FlushProgress, FlushPause, Live
    <3>2. status # "done"
      BY DEF Live
    <3> QED BY <1>t, <2>1, <3>1, <3>2, LedgerFlush
  <2>4. CASE ReportOutcome
    <3>1. /\ Flush(worker.outcome, worker.n) /\ worker.outcome \in Terminal
          /\ worker.outcome = "done" => Whole(worker.job)
      BY <1>t, <2>4 DEF ReportOutcome, Working, Typed, Control, Ingest, WorkerIsDone
    <3> QED BY <1>t, <2>1, <3>1, LedgerFlush
  <2> QED BY <1>3, <2>2, <2>3, <2>4
<1>4. CASE Dequeue \/ WorkerExit \/ WallTimeout \/ PauseBetween \/ SkipBlank
             \/ StartExtract \/ PauseInside \/ ChunkFails \/ EndLoop \/ ConfirmOffset
  BY <1>4, LedgerUnmoved
     DEF Dequeue, WorkerExit, WallTimeout, PauseBetween, SkipBlank, StartExtract,
         PauseInside, ChunkFails, EndLoop, ConfirmOffset, db
<1> QED BY <1>1, <1>2, <1>3, <1>4 DEF Work

LEMMA LedgerNext ==
  ASSUME Ingest, Accounted, [Next]_vars
  PROVE  [Ledger!Next]_(Ledger!vars)
<1>1. CASE UNCHANGED vars
  BY <1>1, LedgerUnmoved DEF vars, db
<1>2. ASSUME NEW c \in Client, HangUp(c) \/ \E r \in Request : Admit(c, r)
      PROVE  [Ledger!Next]_(Ledger!vars)
  BY <1>2, LedgerUnmoved DEF HangUp, Admit, db
<1>3. CASE Sigterm \/ Exit \/ Kill \/ SendResumed \/ \E s \in Session : ExpireSession(s)
  BY <1>3, LedgerUnmoved DEF Sigterm, Exit, Kill, SendResumed, ExpireSession, db
<1>4. CASE Start
  BY <1>4, LedgerRestarts DEF Accounted
<1> QED BY <1>1, <1>2, <1>3, <1>4, LedgerHandle, LedgerWork DEF Next

\* Whatever is killed, paused, dropped, lost or redeployed forward, the rows and
\* hashes of the pipeline go through no step that the ledger does not take: an
\* entry is settled once, as done only when its text is stored, and a document
\* is marked only with a content stored whole.
THEOREM PipelineImplementsLedger == ~Rollback => (Spec => ImplementsLedger)
<1> SUFFICES ASSUME ~Rollback PROVE Spec => ImplementsLedger
  OBVIOUS
<1>1. Init => Ledger!Init
  <2> SUFFICES ASSUME Init PROVE Ledger!Init
    OBVIOUS
  <2>1. JobId = {} /\ hash = [d \in Doc |-> NoHash]
    BY EmptySeq DEF Init, JobId
  <2>2. LedgerEntries = <<>>
    BY <2>1, EntriesAreShown
  <2> QED BY <2>1, <2>2 DEF Ledger!Init
<1>2. Ingest /\ Accounted /\ [Next]_vars => [Ledger!Next]_(Ledger!vars)
  BY LedgerNext
<1>3. Spec => []Ingest
  BY IngestIsInvariant
<1>4. Spec => []Accounted
  BY AccountedInit, AccountedStep, PTL DEF Spec
<1> QED BY <1>1, <1>2, <1>3, <1>4, PTL DEF Spec, ImplementsLedger, Ledger!Spec

-----------------------------------------------------------------------------
(***************************************************************************)
(* Progress: a job stores a piece once, whatever it is paused, restarted   *)
(* or rebuilt for, and its row never falls back.  A count of chunks is     *)
(* lost with the worker that has it, to a kill or a write that fails:      *)
(* what is carried along is that a piece is stored no more often than      *)
(* that, and once more where the count that is left has it.                *)
(***************************************************************************)
\* What kills and failed writes may have cost.
Lost == spent.kills + spent.faults

\* The piece is in the first k chunks of a cut.
InFirst(v, c, k, p) == \E i \in DOMAIN Cuts[v][c] : i <= k /\ p \in Cuts[v][c][i]

\* No piece is stored more often than was lost, and once more where counted.
OnceEach(f, c, v, k, lost) ==
  \A p \in Piece : f[p] <= lost + 1 /\ (InFirst(v, c, k, p) \/ f[p] <= lost)

Busy == worker.pc \notin {"idle", "begin", "exited"}

\* The row of a job that is not run counts in some build since its planning.
RowsCount ==
  \A j \in JobId : ~(Busy /\ j = worker.job) =>
    \E v \in Version :
      /\ jobs[j].planned <= v /\ v <= build
      /\ OnceEach(facts[j], ReqOf(j).content, v, Tried(jobs[j].n), Lost)

\* The worker counts in the build that runs, its row behind it.
WorkerCounts ==
  Busy =>
    /\ OnceEach(facts[worker.job], ReqOf(worker.job).content, build, Tried(worker.n), Lost)
    /\ Tried(jobs[worker.job].n) <= Tried(worker.n)

\* A handler's job was not run yet.
HandlersAreFirst ==
  \A c \in Client : handler[c].job # 0 => Tried(jobs[handler[c].job].n) = 0

ChunkIsThere == worker.pc = "extract" => More

Progress == RowsCount /\ WorkerCounts /\ HandlersAreFirst /\ ChunkIsThere

-----------------------------------------------------------------------------
(***************************************************************************)
(* Counting.                                                               *)
(***************************************************************************)
LEMMA LostTyped ==
  ASSUME spent \in Spending, spent' \in Spending
  PROVE  /\ Lost \in Nat /\ Lost' \in Nat
         /\ UNCHANGED spent => Lost' = Lost
         /\ Fault => Lost' = Lost + 1
BY BoundsAssumption DEF Lost, Spending, Fault

LEMMA OnceGrows ==
  ASSUME NEW f \in [Piece -> Nat], NEW c, NEW v, NEW k \in Nat, NEW l \in Nat,
         OnceEach(f, c, v, k, l), NEW m \in Nat, k <= m, NEW lost \in Nat, l <= lost,
         Cuts[v][c] \in Seq(SUBSET Piece)
  PROVE  OnceEach(f, c, v, m, lost)
<1>1. DOMAIN Cuts[v][c] \subseteq Nat
  BY LenProperties
<1>2. \A p \in Piece : InFirst(v, c, k, p) => InFirst(v, c, m, p)
  BY <1>1 DEF InFirst
<1>3. \A p \in Piece : f[p] \in Nat
  OBVIOUS
<1>4. ASSUME NEW p \in Piece
      PROVE  f[p] <= lost + 1 /\ (InFirst(v, c, m, p) \/ f[p] <= lost)
  <2>1. f[p] <= l + 1 /\ (InFirst(v, c, k, p) \/ f[p] <= l)
    BY DEF OnceEach
  <2> QED BY <1>2, <1>3, <2>1
<1> QED BY <1>4 DEF OnceEach

LEMMA OnceStays ==
  ASSUME NEW f \in [Piece -> Nat], NEW c, NEW v, NEW k, NEW l \in Nat,
         OnceEach(f, c, v, k, l), NEW lost \in Nat, l <= lost
  PROVE  OnceEach(f, c, v, k, lost)
<1>1. \A p \in Piece : f[p] \in Nat
  OBVIOUS
<1> QED BY <1>1 DEF OnceEach

\* Where a count was lost, any other does.
LEMMA OnceLost ==
  ASSUME NEW f \in [Piece -> Nat], NEW c, NEW v, NEW k, NEW l \in Nat,
         OnceEach(f, c, v, k, l), NEW lost \in Nat, l < lost, NEW w, NEW m
  PROVE  OnceEach(f, c, w, m, lost)
<1>1. \A p \in Piece : f[p] \in Nat /\ f[p] <= l + 1
  BY DEF OnceEach
<1> QED BY <1>1 DEF OnceEach

\* A count of nothing holds in any build.
LEMMA OnceNone ==
  ASSUME NEW f, NEW c \in Content, NEW v \in Version, NEW w \in Version, NEW l,
         OnceEach(f, c, v, 0, l)
  PROVE  OnceEach(f, c, w, 0, l)
<1>1. Cuts[v][c] \in Seq(SUBSET Piece)
  BY ChunksTyped
<1>2. \A i \in DOMAIN Cuts[v][c] : ~(i <= 0)
  BY <1>1, LenProperties
<1>3. \A p : ~InFirst(v, c, 0, p)
  BY <1>2 DEF InFirst
<1> QED BY <1>3 DEF OnceEach

LEMMA OnceStored ==
  ASSUME NEW f \in [Piece -> Nat], NEW g, NEW c \in Content, NEW v \in Version,
         NEW k \in Nat, NEW l \in Nat, OnceEach(f, c, v, k, l), k + 1 \in DOMAIN Cuts[v][c],
         \A p \in Piece : g[p] = f[p] + (IF p \in Cuts[v][c][k + 1] THEN 1 ELSE 0)
  PROVE  OnceEach(g, c, v, k + 1, l)
<1>1. Cuts[v][c] \in Seq(SUBSET Piece)
  BY ChunksTyped
<1>2. DOMAIN Cuts[v][c] \subseteq Nat
  BY <1>1, LenProperties
<1>3. ASSUME NEW p \in Piece
      PROVE  g[p] <= l + 1 /\ (InFirst(v, c, k + 1, p) \/ g[p] <= l)
  <2>1. f[p] \in Nat /\ f[p] <= l + 1 /\ (InFirst(v, c, k, p) \/ f[p] <= l)
    BY DEF OnceEach
  <2>2. CASE p \in Cuts[v][c][k + 1]
    <3>1. ~InFirst(v, c, k, p)
      <4>1. ASSUME NEW i \in DOMAIN Cuts[v][c], i <= k, p \in Cuts[v][c][i] PROVE FALSE
        BY <1>2, <2>2, <4>1, ApartAssumption
      <4> QED BY <4>1 DEF InFirst
    <3>2. InFirst(v, c, k + 1, p)
      BY <2>2 DEF InFirst
    <3> QED BY <2>1, <2>2, <3>1, <3>2
  <2>3. CASE p \notin Cuts[v][c][k + 1]
    <3>1. InFirst(v, c, k, p) => InFirst(v, c, k + 1, p)
      BY <1>2 DEF InFirst
    <3> QED BY <2>1, <2>3, <3>1
  <2> QED BY <2>2, <2>3
<1> QED BY <1>3 DEF OnceEach

-----------------------------------------------------------------------------
(***************************************************************************)
(* A step that adds no row.                                                *)
(***************************************************************************)
LEMMA CountsTyped ==
  ASSUME Typed
  PROVE  /\ \A j \in JobId : /\ facts[j] \in [Piece -> Nat] /\ Tried(jobs[j].n) \in Nat
                             /\ jobs[j].planned \in Nat /\ jobs[j].planned \in Version
                             /\ ReqOf(j).content \in Content
         /\ Tried(worker.n) \in Nat /\ build \in Version /\ build \in Nat
         /\ Version \subseteq Nat /\ spent \in Spending
<1>1. worker.n \in Counts /\ build \in Version /\ spent \in Spending
  BY DEF Typed, TypeOK, WorkerState
<1>2. \A j \in JobId : jobs[j].n \in Counts /\ jobs[j].planned \in Version
  BY RowTyped DEF Typed
<1>3. \A j \in JobId : facts[j] \in [Piece -> Nat]
  BY FactsTyped DEF Typed
<1> QED BY <1>1, <1>2, <1>3, BumpTyped, CutsAssumption DEF Typed, Control

LEMMA ProgressStep ==
  ASSUME Typed, Typed', Planned, Shapes, Apart, Progress, JobId' = JobId, build <= build',
         Lost <= Lost',
         \A j \in JobId : /\ jobs'[j].req = jobs[j].req
                          /\ jobs'[j].planned = jobs[j].planned,
         \A j \in JobId :
           j # worker.job \/ ~Busy =>
             Tried(jobs'[j].n) = Tried(jobs[j].n) /\ facts'[j] = facts[j],
         Busy /\ ~Busy' =>
           /\ facts'[worker.job] = facts[worker.job]
           /\ Tried(jobs'[worker.job].n) = Tried(worker.n) \/ Lost < Lost',
         Busy /\ Busy' => worker'.job = worker.job,
         \A c \in Client : handler'[c].job \in {handler[c].job, 0},
         WorkerCounts', ChunkIsThere'
  PROVE  Progress'
<1>1. /\ \A j \in JobId : ReqOf(j)' = ReqOf(j)
      /\ \A j \in JobId : /\ facts[j] \in [Piece -> Nat] /\ Tried(jobs[j].n) \in Nat
                          /\ jobs[j].planned \in Nat /\ ReqOf(j).content \in Content
                          /\ jobs[j].planned <= build
      /\ Tried(worker.n) \in Nat /\ build \in Version /\ build' \in Version
      /\ Version \subseteq Nat /\ Lost \in Nat /\ Lost' \in Nat
  BY CountsTyped, LostTyped DEF ReqOf, Planned, Typed, TypeOK
<1>2. Busy => worker.job \in JobId
  BY DEF Busy, Typed, Control
<1>3. RowsCount'
  <2> SUFFICES ASSUME NEW j \in JobId, ~(Busy' /\ j = worker'.job)
               PROVE  \E v \in Version :
                        /\ jobs'[j].planned <= v /\ v <= build'
                        /\ OnceEach(facts'[j], ReqOf(j)'.content, v, Tried(jobs'[j].n), Lost')
    BY DEF RowsCount
  <2>1. CASE ~(Busy /\ j = worker.job)
    <3>1. PICK v \in Version :
            /\ jobs[j].planned <= v /\ v <= build
            /\ OnceEach(facts[j], ReqOf(j).content, v, Tried(jobs[j].n), Lost)
      BY <2>1 DEF Progress, RowsCount
    <3>2. OnceEach(facts[j], ReqOf(j).content, v, Tried(jobs[j].n), Lost')
      BY <1>1, <3>1, OnceStays
    <3>3. Tried(jobs'[j].n) = Tried(jobs[j].n) /\ facts'[j] = facts[j]
      BY <2>1
    <3>4. v <= build'
      BY <1>1, <3>1
    <3> QED BY <1>1, <3>1, <3>2, <3>3, <3>4
  <2>2. CASE Busy /\ j = worker.job
    <3>1. ~Busy' /\ facts'[j] = facts[j]
      BY <2>2
    <3>2. OnceEach(facts[j], ReqOf(j).content, build, Tried(worker.n), Lost)
      BY <2>2 DEF Progress, WorkerCounts
    <3>3. OnceEach(facts[j], ReqOf(j).content, build, Tried(jobs'[j].n), Lost')
      <4>1. CASE Tried(jobs'[j].n) = Tried(worker.n)
        BY <1>1, <3>2, <4>1, OnceStays
      <4>2. CASE Lost < Lost'
        BY <1>1, <3>2, <4>2, OnceLost
      <4> QED BY <2>2, <3>1, <4>1, <4>2
    <3> QED BY <1>1, <3>1, <3>3
  <2> QED BY <2>1, <2>2
<1>4. HandlersAreFirst'
  <2> SUFFICES ASSUME NEW c \in Client, handler'[c].job # 0
               PROVE  Tried(jobs'[handler'[c].job].n) = 0
    BY DEF HandlersAreFirst
  <2>1. handler'[c].job = handler[c].job /\ handler[c].job # 0
    OBVIOUS
  <2>2. handler[c].job # worker.job /\ handler[c].job \in JobId
    BY <2>1, IdsAreNumbers DEF Apart
  <2>3. Tried(jobs[handler[c].job].n) = 0
    BY <2>1 DEF Progress, HandlersAreFirst
  <2> QED BY <2>1, <2>2, <2>3
<1> QED BY <1>3, <1>4 DEF Progress

\* The worker's claims stay where it goes on with its count or a greater one.
LEMMA WorkerCountsOn ==
  ASSUME Typed, Typed', Progress, Busy, JobId' = JobId, UNCHANGED build, Lost <= Lost',
         worker'.job = worker.job, Tried(worker.n) <= Tried(worker'.n),
         facts'[worker.job] = facts[worker.job],
         jobs'[worker.job].req = jobs[worker.job].req,
         Tried(jobs'[worker.job].n) \in {Tried(jobs[worker.job].n), Tried(worker.n)}
  PROVE  WorkerCounts'
<1>1. worker.job \in JobId
  BY DEF Busy, Typed, Control
<1>2. /\ facts[worker.job] \in [Piece -> Nat] /\ Tried(jobs[worker.job].n) \in Nat
      /\ Tried(worker.n) \in Nat /\ Tried(worker'.n) \in Nat /\ Lost \in Nat /\ Lost' \in Nat
      /\ build \in Version /\ ReqOf(worker.job).content \in Content
      /\ ReqOf(worker.job)' = ReqOf(worker.job)
  <2>1. worker.n \in Counts /\ worker'.n \in Counts /\ Tried(worker'.n) \in Nat
    BY BumpTyped DEF Typed, TypeOK, WorkerState
  <2> QED BY <1>1, <2>1, CountsTyped, LostTyped DEF ReqOf, Typed, TypeOK
<1>3. /\ OnceEach(facts[worker.job], ReqOf(worker.job).content, build, Tried(worker.n), Lost)
      /\ Tried(jobs[worker.job].n) <= Tried(worker.n)
  BY DEF Progress, WorkerCounts
<1>4. OnceEach(facts[worker.job], ReqOf(worker.job).content, build, Tried(worker'.n), Lost')
  <2>1. Cuts[build][ReqOf(worker.job).content] \in Seq(SUBSET Piece)
    BY <1>2, ChunksTyped
  <2> QED BY <1>2, <1>3, <2>1, OnceGrows
<1>5. Tried(jobs'[worker.job].n) <= Tried(worker'.n)
  BY <1>2, <1>3
<1> QED BY <1>2, <1>4, <1>5 DEF WorkerCounts

\* A step that leaves the worker, its row and its facts alone.
LEMMA WorkerCountsStay ==
  ASSUME Typed, Typed', Progress, UNCHANGED <<worker, build>>, JobId' = JobId, Lost <= Lost',
         worker.job \in JobId =>
           /\ facts'[worker.job] = facts[worker.job]
           /\ jobs'[worker.job].req = jobs[worker.job].req
           /\ Tried(jobs'[worker.job].n) = Tried(jobs[worker.job].n)
  PROVE  WorkerCounts' /\ ChunkIsThere' /\ (Busy' <=> Busy)
<1>1. Busy' <=> Busy
  BY DEF Busy
<1>2. Busy => worker.job \in JobId
  BY DEF Busy, Typed, Control
<1>3. WorkerCounts'
  <2>1. CASE Busy
    <3>1. Tried(worker.n) \in Nat
      BY CountsTyped
    <3>2. Tried(worker.n) <= Tried(worker'.n) /\ worker'.job = worker.job
      BY <3>1
    <3> QED BY <1>2, <2>1, <3>2, WorkerCountsOn
  <2>2. CASE ~Busy
    BY <1>1, <2>2 DEF WorkerCounts
  <2> QED BY <2>1, <2>2
<1>4. ChunkIsThere'
  <2>1. worker.pc = "extract" => worker.job \in JobId
    BY DEF Typed, Control
  <2> QED BY <2>1 DEF Progress, ChunkIsThere, More, Chunks, ReqOf
<1> QED BY <1>1, <1>3, <1>4

\* The rows, the facts, the worker and the build are as they were.
LEMMA ProgressStays ==
  ASSUME Typed, Typed', Planned, Shapes, Apart, Progress, Lost <= Lost',
         UNCHANGED <<jobs, facts, worker, build>>,
         \A c \in Client : handler'[c].job \in {handler[c].job, 0}
  PROVE  Progress'
<1>1. JobId' = JobId /\ build <= build'
  BY CountsTyped DEF JobId
<1>2. WorkerCounts' /\ ChunkIsThere' /\ (Busy' <=> Busy)
  BY <1>1, WorkerCountsStay
<1> QED BY <1>1, <1>2, ProgressStep

-----------------------------------------------------------------------------
(***************************************************************************)
(* The handlers' steps.                                                    *)
(***************************************************************************)
LEMMA ProgressInsert ==
  ASSUME Ingest, Accounted, Progress, Typed', NEW c \in Client, InsertJob(c), ~UNCHANGED jobs
  PROVE  Progress'
<1> USE DEF Accounted, Places
<1>0. PICK new : new = Len(jobs) + 1
  OBVIOUS
<1>n. PICK none : none = [p \in Piece |-> 0]
  OBVIOUS
<1> DEFINE row == [status |-> "pending", req |-> handler[c].req,
                   task |-> FALSE, planned |-> build, n |-> NoCounts]
<1>1. /\ jobs' = Append(jobs, row) /\ facts' = Append(facts, none)
      /\ handler' = [handler EXCEPT ![c] = [@ EXCEPT !.pc = "mirror", !.job = new]]
      /\ UNCHANGED <<worker, build, spent>>
  BY <1>0, <1>n DEF InsertJob, proc
<1>2. /\ JobId = 1..Len(jobs) /\ Len(jobs) \in Nat /\ new \notin JobId /\ new \in Nat
      /\ JobId' = 1..Len(jobs')
  <2>1. JobId' = 1..Len(jobs')
    BY LenProperties DEF Typed, TypeOK, JobId
  <2> QED BY <1>0, <2>1, IdsAreNumbers
<1>3. row \in JobRow
  BY RowTyped DEF Typed, TypeOK, HandlerState, JobRow, Live, Counts, NoCounts
<1>4. /\ Len(jobs') = new /\ jobs'[new] = row
      /\ \A i \in 1..Len(jobs) : jobs'[i] = jobs[i]
  BY <1>0, <1>1, <1>3, AppendProperties DEF Typed, TypeOK
<1>5. facts'[new] = none /\ \A i \in JobId : facts'[i] = facts[i]
  <2>1. none \in [Piece -> Nat] /\ facts \in Seq([Piece -> Nat]) /\ Len(facts) = Len(jobs)
    BY <1>n DEF Typed, TypeOK
  <2> QED BY <1>0, <1>1, <1>2, <2>1, AppendProperties
<1>6. /\ \A j \in JobId : ReqOf(j)' = ReqOf(j) /\ jobs'[j] = jobs[j] /\ j \in JobId'
      /\ \A j \in JobId' : j \in JobId \/ j = new
      /\ new \in JobId'
  BY <1>0, <1>2, <1>4 DEF ReqOf
<1>7. /\ Lost' = Lost /\ Lost \in Nat /\ build \in Version /\ build \in Nat
      /\ worker.pc \notin {"idle", "exited"} => worker.job \in JobId
  BY <1>1, CountsTyped, LostTyped DEF Typed, TypeOK, Control
<1>8. Busy' <=> Busy
  BY <1>1 DEF Busy
<1>b. Busy => worker.job \in JobId
  BY <1>7 DEF Busy
<1>9. RowsCount'
  <2> SUFFICES ASSUME NEW j \in JobId', ~(Busy' /\ j = worker'.job)
               PROVE  \E v \in Version :
                        /\ jobs'[j].planned <= v /\ v <= build'
                        /\ OnceEach(facts'[j], ReqOf(j)'.content, v, Tried(jobs'[j].n), Lost')
    BY DEF RowsCount
  <2>1. CASE j \in JobId
    BY <1>1, <1>5, <1>6, <1>7, <1>8, <2>1 DEF Progress, RowsCount
  <2>2. CASE j = new
    <3>1. jobs'[j].planned = build
      BY <1>4, <2>2
    <3>2. \A p \in Piece : facts'[j][p] = 0
      BY <1>5, <1>n, <2>2
    <3>3. OnceEach(facts'[j], ReqOf(j)'.content, build, Tried(jobs'[j].n), Lost')
      <4>1. \A p \in Piece : facts'[j][p] <= Lost' + 1 /\ facts'[j][p] <= Lost'
        BY <1>7, <3>2
      <4> QED BY <4>1 DEF OnceEach
    <3>4. build \in Version /\ jobs'[j].planned <= build /\ build <= build'
      <4>1. build \in Version /\ build \in Nat /\ build' = build
        BY <1>1, <1>7
      <4> QED BY <3>1, <4>1
    <3> QED BY <3>3, <3>4, Zenon
  <2> QED BY <1>6, <2>1, <2>2
<1>10. WorkerCounts'
  BY <1>1, <1>5, <1>6, <1>7, <1>8, <1>b DEF Progress, WorkerCounts
<1>11. HandlersAreFirst'
  <2>1. /\ handler'[c].job = new /\ \A d \in Client : d # c => handler'[d] = handler[d]
    BY <1>1, <1>2 DEF Typed, TypeOK, HandlerState
  <2>2. Tried(row.n) = 0
    BY DEF Tried, NoCounts
  <2>3. \A d \in Client : handler[d].job # 0 => handler[d].job \in JobId
    BY IdsAreNumbers
  <2> QED BY <1>4, <1>6, <2>1, <2>2, <2>3 DEF Progress, HandlersAreFirst
<1>12. ChunkIsThere'
  BY <1>1, <1>6, <1>7 DEF Progress, ChunkIsThere, More, Chunks, ReqOf
<1> QED BY <1>9, <1>10, <1>11, <1>12 DEF Progress

LEMMA ProgressHandle ==
  ASSUME Ingest, Accounted, Progress, Typed', NEW c \in Client, Handle(c)
  PROVE  Progress'
<1> USE DEF Accounted, Places
<1>h. handler \in [Client -> HandlerState] /\ jobs \in [JobId -> JobRow] /\ Planned
  BY LenProperties DEF Typed, TypeOK, JobId, Ingest
<1>l. (UNCHANGED spent \/ Fault) => Lost <= Lost'
  BY LostTyped DEF Typed, TypeOK
<1>1. CASE UpsertDocument(c) \/ MirrorAndAnswer(c) \/ MirrorSession(c) \/ Enqueue(c)
             \/ Overrun(c) \/ GiveBack(c) \/ Abandon(c) \/ (InsertJob(c) /\ UNCHANGED jobs)
  <2>1. UNCHANGED <<jobs, facts, worker, build>> /\ (UNCHANGED spent \/ Fault)
    <3>1. ~(jobs = Append(jobs, [status |-> "pending", req |-> handler[c].req,
                                 task |-> FALSE, planned |-> build, n |-> NoCounts]))
      BY AppendedIsLonger DEF Typed, TypeOK
    <3> QED BY <1>1, <3>1 DEF UpsertDocument, MirrorAndAnswer, MirrorSession, Enqueue, Overrun,
                              GiveBack, Abandon, InsertJob, db, proc
  <2>2. \A d \in Client : handler'[d].job \in {handler[d].job, 0}
    <3>1. Finish(c) \/ \E pc : Goto(c, pc)
      <4>1. InsertJob(c) /\ UNCHANGED jobs => Finish(c)
        <5>1. ~(jobs = Append(jobs, [status |-> "pending", req |-> handler[c].req,
                                     task |-> FALSE, planned |-> build, n |-> NoCounts]))
          BY AppendedIsLonger DEF Typed, TypeOK
        <5> QED BY <5>1 DEF InsertJob
      <4> QED BY <1>1, <4>1 DEF UpsertDocument, MirrorAndAnswer, MirrorSession, Enqueue,
                                Overrun, GiveBack, Abandon
    <3> QED BY <1>h, <3>1, IdleTyped DEF Finish, Goto, HandlerState
  <2> QED BY <1>h, <1>l, <2>1, <2>2, ProgressStays
<1>2. CASE InsertJob(c) /\ ~UNCHANGED jobs
  BY <1>2, ProgressInsert DEF Accounted, Places
<1>3. CASE StoreTask(c) \/ RejectJob(c)
  <2> DEFINE j == handler[c].job
  <2>1. /\ UNCHANGED <<facts, worker, build>> /\ (UNCHANGED spent \/ Fault)
        /\ handler[c].pc \in {"task", "reject"}
        /\ Goto(c, "enqueue") \/ Finish(c)
        /\ \/ UNCHANGED jobs
           \/ jobs' = [jobs EXCEPT ![j].task = TRUE]
           \/ jobs' = Written(jobs, j, "failed", NoCounts)
    BY <1>3 DEF StoreTask, RejectJob, At, proc
  <2>2. j \in JobId /\ Tried(jobs[j].n) = 0
    <3>1. j # 0
      BY <2>1 DEF Shapes, WithJob
    <3> QED BY <3>1, IdsAreNumbers DEF Progress, HandlersAreFirst
  <2>3. \A d \in Client : handler'[d].job \in {handler[d].job, 0}
    BY <1>h, <2>1, IdleTyped DEF Finish, Goto, HandlerState
  <2>4. /\ JobId' = JobId
        /\ \A k \in JobId : /\ jobs'[k].req = jobs[k].req
                            /\ jobs'[k].planned = jobs[k].planned
                            /\ Tried(jobs'[k].n) = Tried(jobs[k].n)
    <3>1. CASE UNCHANGED jobs
      BY <3>1 DEF JobId
    <3>2. CASE jobs' = [jobs EXCEPT ![j].task = TRUE]
      <4>1. JobId' = JobId /\ \A k \in JobId :
              /\ jobs'[k].req = jobs[k].req /\ jobs'[k].planned = jobs[k].planned
              /\ jobs'[k].n = jobs[k].n
        BY <1>h, <3>2 DEF JobId, JobRow
      <4> QED BY <4>1
    <3>3. CASE jobs' = Written(jobs, j, "failed", NoCounts)
      <4>1. /\ jobs \in Seq(JobRow) /\ j \in Nat /\ "failed" \in Live \cup Terminal
            /\ NoCounts \in Counts /\ DOMAIN jobs = JobId /\ Tried(NoCounts) = 0
        BY <2>2, IdsAreNumbers DEF Typed, TypeOK, Terminal, Counts, NoCounts, JobId, Tried
      <4>2. PICK rows : rows = Written(jobs, j, "failed", NoCounts)
        OBVIOUS
      <4>3. /\ rows \in [JobId -> JobRow]
            /\ \A k \in JobId : /\ rows[k].req = jobs[k].req /\ rows[k].planned = jobs[k].planned
                                /\ k # j => rows[k] = jobs[k]
                                /\ k = j => rows[k].n = NoCounts
        BY <4>1, <4>2, WrittenRows
      <4>4. JobId' = JobId
        BY <3>3, <4>2, <4>3 DEF JobId
      <4> QED BY <2>2, <3>3, <4>1, <4>2, <4>3, <4>4
    <3> QED BY <2>1, <3>1, <3>2, <3>3
  <2>5. WorkerCounts' /\ ChunkIsThere' /\ (Busy' <=> Busy)
    BY <1>l, <2>1, <2>4, WorkerCountsStay
  <2>6. build <= build'
    BY <2>1, CountsTyped
  <2> QED BY <1>h, <1>l, <2>1, <2>3, <2>4, <2>5, <2>6, ProgressStep
<1> QED BY <1>1, <1>2, <1>3 DEF Handle

-----------------------------------------------------------------------------
(***************************************************************************)
(* The worker's steps.                                                     *)
(***************************************************************************)
\* The worker goes on alone, with its count or one chunk more.
LEMMA ProgressAlone ==
  ASSUME Typed, Typed', Planned, Shapes, Apart, Progress, Busy, Busy',
         UNCHANGED <<jobs, facts, handler, build>>, UNCHANGED spent \/ Fault,
         worker'.job = worker.job, Tried(worker.n) <= Tried(worker'.n), ChunkIsThere'
  PROVE  Progress'
<1>1. JobId' = JobId /\ build <= build'
  BY CountsTyped DEF JobId
<1>2. Lost <= Lost'
  BY LostTyped DEF Typed, TypeOK
<1>3. WorkerCounts'
  <2>1. worker.job \in JobId
    BY DEF Busy, Typed, Control
  <2> QED BY <1>1, <1>2, <2>1, WorkerCountsOn
<1> QED BY <1>1, <1>2, <1>3, ProgressStep

LEMMA ProgressTake ==
  ASSUME Ingest, Accounted, Progress, Typed', Dequeue \/ WorkerExit
  PROVE  Progress'
<1>1. /\ UNCHANGED <<jobs, facts, handler, build, spent>> /\ worker.pc = "idle"
      /\ worker'.pc \in {"begin", "exited"}
  BY StepTyped DEF Dequeue, WorkerExit, Working, db, proc, Idle, Accounted, Typed, TypeOK
<1>2. ~Busy /\ ~Busy'
  BY <1>1 DEF Busy
<1>3. JobId' = JobId /\ build <= build' /\ Lost <= Lost'
  BY <1>1, CountsTyped, LostTyped DEF JobId, Accounted, Typed, TypeOK
<1>4. WorkerCounts' /\ ChunkIsThere'
  BY <1>1, <1>2 DEF WorkerCounts, ChunkIsThere
<1> QED BY <1>1, <1>2, <1>3, <1>4, ProgressStep DEF Accounted, Places, Ingest

LEMMA ProgressBegin ==
  ASSUME Ingest, Accounted, Progress, Typed', BeginJob
  PROVE  Progress'
<1> DEFINE j == worker.job
<1> DEFINE row == jobs[j].n
<1>0. Typed /\ worker \in WorkerState
  BY DEF Accounted, Typed, TypeOK
<1>1. /\ ~Recut /\ Flush("running", row) /\ worker.pc = "begin"
      /\ UNCHANGED <<facts, handler, build>>
      /\ worker'.pc = "loop" /\ worker'.n = row /\ worker'.job = j
  BY <1>0 DEF BeginJob, Working, ResumeAt, proc, WorkerState
<1>2. j \in JobId /\ row \in Counts
  BY <1>0, <1>1, RowTyped DEF Typed, Control
<1>3. /\ JobId' = JobId
      /\ \A i \in JobId : /\ jobs'[i].req = jobs[i].req /\ jobs'[i].planned = jobs[i].planned
                          /\ Tried(jobs'[i].n) = Tried(jobs[i].n)
  BY <1>0, <1>1, <1>2, FlushRows DEF Live
<1>4. /\ UNCHANGED spent \/ Fault
      /\ Lost <= Lost' /\ Lost \in Nat /\ Lost' \in Nat /\ build <= build'
  <2>1. UNCHANGED spent \/ Fault
    BY <1>1 DEF Flush
  <2> QED BY <1>0, <1>1, <2>1, LostTyped, CountsTyped DEF Typed, TypeOK
<1>5. ~Busy /\ Busy'
  BY <1>1 DEF Busy
<1>6. /\ facts[j] \in [Piece -> Nat] /\ Tried(row) \in Nat /\ build \in Version
      /\ jobs[j].planned \in Version /\ ReqOf(j).content \in Content /\ Version \subseteq Nat
  BY <1>0, <1>2, CountsTyped
<1>7. OnceEach(facts[j], ReqOf(j).content, build, Tried(row), Lost)
  <2>1. PICK v \in Version :
          /\ jobs[j].planned <= v /\ v <= build
          /\ OnceEach(facts[j], ReqOf(j).content, v, Tried(row), Lost)
    BY <1>2, <1>5 DEF Progress, RowsCount
  <2>2. CASE Tried(row) = 0
    BY <1>6, <2>1, <2>2, OnceNone
  <2>3. CASE jobs[j].planned = build
    <3>1. v = build
      BY <1>6, <2>1, <2>3
    <3> QED BY <2>1, <3>1
  <2>4. Tried(row) = 0 \/ jobs[j].planned = build
    BY <1>1, <1>6 DEF Recut, ResumeAt
  <2> QED BY <2>2, <2>3, <2>4
<1>8. WorkerCounts'
  <2>1. OnceEach(facts[j], ReqOf(j).content, build, Tried(row), Lost')
    BY <1>4, <1>6, <1>7, OnceStays
  <2>2. ReqOf(j)' = ReqOf(j) /\ Tried(jobs'[j].n) <= Tried(row)
    BY <1>1, <1>2, <1>3, <1>6 DEF ReqOf
  <2> QED BY <1>1, <2>1, <2>2 DEF WorkerCounts
<1>9. ChunkIsThere'
  BY <1>1 DEF ChunkIsThere
<1> QED BY <1>0, <1>1, <1>3, <1>4, <1>5, <1>8, <1>9, ProgressStep
        DEF Accounted, Places, Ingest

\* The chunk that is stored is the next of the count.
LEMMA ProgressStore ==
  ASSUME Ingest, Accounted, Progress, Typed', StoreChunk
  PROVE  Progress'
<1> DEFINE j == worker.job
<1>0. Typed /\ worker \in WorkerState
  BY DEF Accounted, Typed, TypeOK
<1>1. /\ worker.pc = "extract" /\ UNCHANGED <<jobs, handler, build, spent>>
      /\ worker'.pc = "flush" /\ worker'.job = j /\ worker'.n = Bump(worker.n, "done")
      /\ worker.n \in Counts
  BY <1>0, EarTyped, CountTyped DEF StoreChunk, Working, proc
<1>2. j \in JobId /\ Busy /\ Busy'
  BY <1>0, <1>1 DEF Typed, Control, Busy
<1>3. /\ JobId' = JobId /\ build <= build' /\ build \in Version /\ Lost' = Lost /\ Lost \in Nat
      /\ Tried(worker.n) \in Nat /\ Tried(worker'.n) = Tried(worker.n) + 1
      /\ facts[j] \in [Piece -> Nat] /\ ReqOf(j).content \in Content /\ ReqOf(j)' = ReqOf(j)
      /\ Tried(jobs[j].n) \in Nat
  <2>1. JobId' = JobId /\ ReqOf(j)' = ReqOf(j)
    BY <1>1 DEF JobId, ReqOf
  <2>2. Lost' = Lost /\ Lost \in Nat
    BY <1>0, <1>1, LostTyped DEF Typed, TypeOK
  <2>3. Tried(Bump(worker.n, "done")) = Tried(worker.n) + 1
    BY <1>1, BumpTyped
  <2>4. /\ build \in Version /\ build \in Nat /\ Tried(worker.n) \in Nat
        /\ facts[j] \in [Piece -> Nat] /\ ReqOf(j).content \in Content
        /\ Tried(jobs[j].n) \in Nat
    BY <1>0, <1>2, CountsTyped
  <2> QED BY <1>1, <2>1, <2>2, <2>3, <2>4
<1>4. /\ \A p \in Piece : facts'[j][p] = facts[j][p] + (IF p \in Chunk THEN 1 ELSE 0)
      /\ \A i \in JobId : i # j => facts'[i] = facts[i]
  <2>1. facts \in [JobId -> [Piece -> Nat]]
    BY <1>0, LenProperties DEF Typed, TypeOK, JobId
  <2>2. facts' = [facts EXCEPT ![j] = [p \in Piece |-> @[p] + (IF p \in Chunk THEN 1 ELSE 0)]]
    BY DEF StoreChunk
  <2> HIDE DEF j
  <2> QED BY <1>2, <2>1, <2>2
<1>5. Tried(worker.n) + 1 \in DOMAIN Cuts[build][ReqOf(j).content]
  <2>1. Tried(worker.n) < Len(Cuts[build][ReqOf(j).content])
    BY <1>1 DEF Progress, ChunkIsThere, More, Chunks
  <2>2. Cuts[build][ReqOf(j).content] \in Seq(SUBSET Piece)
    BY <1>3, ChunksTyped
  <2> QED BY <1>3, <2>1, <2>2, LenProperties
<1>6. WorkerCounts'
  <2>1. /\ OnceEach(facts[j], ReqOf(j).content, build, Tried(worker.n), Lost)
        /\ Tried(jobs[j].n) <= Tried(worker.n)
    BY <1>2 DEF Progress, WorkerCounts
  <2>2. \A p \in Piece : facts'[j][p] =
          facts[j][p] + (IF p \in Cuts[build][ReqOf(j).content][Tried(worker.n) + 1]
                         THEN 1 ELSE 0)
    BY <1>4 DEF Chunk, Chunks
  <2>3. OnceEach(facts'[j], ReqOf(j).content, build, Tried(worker.n) + 1, Lost)
    BY <1>3, <1>5, <2>1, <2>2, OnceStored
  <2>4. Tried(jobs'[j].n) <= Tried(worker.n) + 1
    BY <1>1, <1>3, <2>1
  <2> QED BY <1>1, <1>3, <2>3, <2>4 DEF WorkerCounts
<1>7. ChunkIsThere'
  BY <1>1 DEF ChunkIsThere
<1> QED BY <1>0, <1>1, <1>2, <1>3, <1>4, <1>6, <1>7, ProgressStep
        DEF Accounted, Places, Ingest

\* The row takes the worker's count, or the write is lost.
LEMMA ProgressFlush ==
  ASSUME Ingest, Accounted, Progress, Typed', Busy,
         NEW status \in Live \cup Terminal, Flush(status, worker.n),
         UNCHANGED <<facts, handler, build>>,
         Release \/ Step("loop")
  PROVE  Progress'
<1> DEFINE j == worker.job
<1>0. Typed /\ worker \in WorkerState /\ worker.n \in Counts
  BY DEF Accounted, Typed, TypeOK, WorkerState
<1>1. j \in JobId
  BY <1>0 DEF Typed, Control, Busy
<1>2. /\ JobId' = JobId
      /\ \A i \in JobId : /\ jobs'[i].req = jobs[i].req /\ jobs'[i].planned = jobs[i].planned
                          /\ i # j => jobs'[i] = jobs[i]
                          /\ \/ jobs'[i] = jobs[i]
                             \/ jobs'[i].n = worker.n
  BY <1>0, FlushRows
<1>3. /\ Lost <= Lost' /\ build <= build'
      /\ Tried(jobs'[j].n) = Tried(worker.n) \/ Lost < Lost'
  <2>1. CASE UNCHANGED spent /\ jobs' = Written(jobs, j, status, worker.n)
    <3>1. jobs \in Seq(JobRow) /\ j \in Nat /\ DOMAIN jobs = JobId
      BY <1>0, <1>1, IdsAreNumbers DEF Typed, TypeOK, JobId
    <3>2. Written(jobs, j, status, worker.n)[j].n = worker.n
      BY <1>0, <1>1, <3>1, WrittenRows
    <3> QED BY <1>0, <2>1, <3>2, LostTyped, CountsTyped DEF Typed, TypeOK
  <2>2. CASE Fault
    BY <1>0, <2>2, LostTyped, CountsTyped DEF Typed, TypeOK
  <2> QED BY <2>1, <2>2 DEF Flush
<1>4. CASE Step("loop")
  <2>1. worker'.pc = "loop" /\ worker'.job = j /\ worker'.n = worker.n
    BY <1>0, <1>4, StepTyped
  <2>2. Busy'
    BY <2>1 DEF Busy
  <2>3. Tried(worker.n) \in Nat /\ Tried(worker.n) <= Tried(worker'.n)
    BY <1>0, <2>1, CountsTyped
  <2>4. Tried(jobs'[j].n) \in {Tried(jobs[j].n), Tried(worker.n)}
    BY <1>1, <1>2
  <2>5. WorkerCounts'
    BY <1>0, <1>1, <1>2, <1>3, <2>1, <2>3, <2>4, WorkerCountsOn
  <2>6. ChunkIsThere'
    BY <2>1 DEF ChunkIsThere
  <2> QED BY <1>0, <1>2, <1>3, <2>1, <2>2, <2>5, <2>6, ProgressStep
          DEF Accounted, Places, Ingest
<1>5. CASE Release
  <2>1. worker'.pc = "idle"
    BY <1>5, IdleTyped DEF Release
  <2>2. ~Busy' /\ WorkerCounts' /\ ChunkIsThere'
    BY <2>1 DEF Busy, WorkerCounts, ChunkIsThere
  <2> QED BY <1>0, <1>2, <1>3, <2>2, ProgressStep DEF Accounted, Places, Ingest
<1> QED BY <1>4, <1>5

LEMMA ProgressWork ==
  ASSUME Ingest, Accounted, Progress, Typed', Work
  PROVE  Progress'
<1>0. /\ Typed /\ worker \in WorkerState /\ worker.n \in Counts
      /\ Planned /\ Shapes /\ Apart
      /\ Tried(worker.n) \in Nat
  <2>1. Typed
    BY DEF Accounted
  <2> QED BY <2>1, CountsTyped DEF Accounted, Places, Ingest, Typed, TypeOK, WorkerState
<1>s. "running" \in Live \cup Terminal /\ "failed" \in Live \cup Terminal
      /\ "pending" \in Live \cup Terminal
  BY DEF Live, Terminal
<1>1. CASE FlushProgress
  BY <1>s, <1>1, ProgressFlush DEF FlushProgress, Working, Busy, proc
<1>2. CASE FlushPause
  BY <1>s, <1>2, ProgressFlush DEF FlushPause, Working, Busy, proc
<1>3. CASE ReportOutcome
  <2>1. worker.outcome \in Live \cup Terminal
    BY <1>0, <1>3 DEF ReportOutcome, Working, Typed, Control
  <2> QED BY <1>3, <2>1, ProgressFlush DEF ReportOutcome, Working, Busy, proc
<1>4. CASE RefuseRecut
  <2>1. /\ Flush("failed", jobs[worker.job].n) /\ worker' = Idle /\ worker.pc = "begin"
        /\ UNCHANGED <<facts, handler, build>>
    BY <1>4 DEF RefuseRecut, Release, Working, ResumeAt, proc
  <2>2. worker.job \in JobId
    BY <1>0, <2>1 DEF Typed, Control
  <2>3. jobs[worker.job].n \in Counts
    BY <1>0, <2>2, RowTyped DEF Typed
  <2>4. /\ JobId' = JobId
        /\ \A i \in JobId : /\ jobs'[i].req = jobs[i].req /\ jobs'[i].planned = jobs[i].planned
                            /\ Tried(jobs'[i].n) = Tried(jobs[i].n)
    BY <1>0, <1>s, <2>1, <2>3, FlushRows
  <2>5. Lost <= Lost' /\ build <= build'
    <3>1. UNCHANGED spent \/ Fault
      BY <2>1 DEF Flush
    <3> QED BY <1>0, <2>1, <3>1, LostTyped, CountsTyped DEF Typed, TypeOK
  <2>6. ~Busy /\ ~Busy' /\ WorkerCounts' /\ ChunkIsThere'
    BY <2>1, IdleTyped DEF Busy, WorkerCounts, ChunkIsThere
  <2> QED BY <1>0, <2>1, <2>4, <2>5, <2>6, ProgressStep
<1>5. CASE PauseBetween \/ PauseInside
  <2>1. /\ worker'.pc = "pause" /\ worker'.job = worker.job /\ worker'.n = worker.n
        /\ worker.pc \in {"loop", "extract"}
        /\ UNCHANGED <<jobs, facts, handler, build, spent>>
    BY <1>0, <1>5, StepTyped DEF PauseBetween, PauseInside, Working, db, proc
  <2> QED BY <1>0, <2>1, ProgressAlone DEF Busy, ChunkIsThere
<1>6. CASE StampHash \/ ConfirmOffset
  <2>1. /\ worker'.pc \in {"confirm", "report"} /\ worker'.job = worker.job
        /\ worker'.n = worker.n /\ worker.pc \in {"stamp", "confirm"}
        /\ UNCHANGED <<jobs, facts, handler, build>> /\ (UNCHANGED spent \/ Fault)
    BY <1>0, <1>6, StepTyped DEF StampHash, ConfirmOffset, Working, proc
  <2> QED BY <1>0, <2>1, ProgressAlone DEF Busy, ChunkIsThere
<1>7. CASE WallTimeout \/ EndLoop
  <2>1. /\ worker'.pc \in {"stamp", "report"} /\ worker'.job = worker.job
        /\ worker'.n = worker.n /\ worker.pc = "loop"
        /\ UNCHANGED <<jobs, facts, handler, build, spent>>
    BY <1>0, <1>7 DEF WallTimeout, EndLoop, Working, db, proc, WorkerState
  <2> QED BY <1>0, <2>1, ProgressAlone DEF Busy, ChunkIsThere
<1>8. CASE SkipBlank \/ ChunkFails
  <2>1. /\ worker'.pc = "flush" /\ worker'.job = worker.job
        /\ worker'.n \in {Bump(worker.n, "skipped"), Bump(worker.n, "failed")}
        /\ worker.pc \in {"loop", "extract"}
        /\ UNCHANGED <<jobs, facts, handler, build, spent>>
    <3>1. CASE SkipBlank
      BY <1>0, <3>1, EarTyped, CountTyped DEF SkipBlank, Working, db, proc
    <3>2. CASE ChunkFails
      BY <1>0, <3>2, EarTyped, CountTyped DEF ChunkFails, Working, db, proc
    <3> QED BY <1>8, <3>1, <3>2
  <2>2. Tried(worker.n) <= Tried(worker'.n)
    <3>1. Tried(worker'.n) = Tried(worker.n) + 1
      BY <1>0, <2>1, BumpTyped
    <3> QED BY <1>0, <3>1
  <2> QED BY <1>0, <2>1, <2>2, ProgressAlone DEF Busy, ChunkIsThere
<1>9. CASE StartExtract
  <2>1. /\ worker'.pc = "extract" /\ worker'.job = worker.job
        /\ worker'.n = worker.n /\ worker.pc = "loop" /\ More
        /\ UNCHANGED <<jobs, facts, handler, build, spent>>
    BY <1>0, <1>9 DEF StartExtract, Working, db, proc, WorkerState
  <2>2. ChunkIsThere'
    BY <2>1 DEF ChunkIsThere, More, Chunks, ReqOf
  <2> QED BY <1>0, <2>1, <2>2, ProgressAlone DEF Busy
<1> QED BY <1>1, <1>2, <1>3, <1>4, <1>5, <1>6, <1>7, <1>8, <1>9,
           ProgressTake, ProgressBegin, ProgressStore DEF Work

-----------------------------------------------------------------------------
(***************************************************************************)
(* The clients' and the process's steps.                                   *)
(***************************************************************************)
LEMMA ProgressClient ==
  ASSUME Ingest, Accounted, Progress, Typed', NEW c \in Client,
         HangUp(c) \/ \E r \in Request : Admit(c, r)
  PROVE  Progress'
<1>0. Typed /\ Planned /\ Shapes /\ Apart /\ handler \in [Client -> HandlerState]
  BY DEF Accounted, Places, Ingest, Typed, TypeOK
<1>1. UNCHANGED <<jobs, facts, worker, build>>
  BY DEF HangUp, Admit, db, proc
<1>2. \A d \in Client : handler'[d].job \in {handler[d].job, 0}
  BY <1>0 DEF HangUp, Admit, HandlerState
<1>3. Lost' = Lost /\ Lost \in Nat
  <2>1. spent'.kills = spent.kills /\ spent'.faults = spent.faults
    BY <1>0 DEF HangUp, Admit, Typed, TypeOK, Spending
  <2> QED BY <1>0, <2>1, LostTyped DEF Lost, Typed, TypeOK
<1> QED BY <1>0, <1>1, <1>2, <1>3, ProgressStays

\* A restart takes the rows as they are, in a build no older.
LEMMA ProgressStart ==
  ASSUME ~Rollback, Ingest, Accounted, Progress, Typed', Start
  PROVE  Progress'
<1>0. Typed /\ Planned /\ Shapes /\ Apart
  BY DEF Accounted, Places, Ingest
<1>1. ~up /\ UNCHANGED <<facts, handler, worker>> /\ worker.pc = "idle"
  BY <1>0 DEF Start, Typed, Control
<1>2. /\ JobId' = JobId /\ build <= build'
      /\ \A j \in JobId : /\ jobs'[j].req = jobs[j].req
                          /\ jobs'[j].planned = jobs[j].planned
                          /\ Tried(jobs'[j].n) = Tried(jobs[j].n)
  <2>1. Kept(jobs, jobs') /\ build' >= build
    BY <1>0, StartKeeps DEF Typed
  <2>2. build \in Nat /\ build' \in Nat
    BY <1>0, CutsAssumption DEF Typed, TypeOK
  <2>3. JobId' = JobId
    BY <2>1 DEF Kept, JobId
  <2> QED BY <2>1, <2>2, <2>3 DEF Kept, JobId
<1>3. Lost <= Lost'
  BY <1>0, LostTyped, StartRows DEF Typed, TypeOK
<1>4. ~Busy /\ ~Busy' /\ WorkerCounts' /\ ChunkIsThere'
  BY <1>1 DEF Busy, WorkerCounts, ChunkIsThere
<1> QED BY <1>0, <1>1, <1>2, <1>3, <1>4, ProgressStep

\* The end of the process: in order, or with the count the worker had.
LEMMA ProgressDie ==
  ASSUME Ingest, Accounted, Progress, Typed', Exit \/ Kill
  PROVE  Progress'
<1>0. Typed /\ Planned /\ Shapes /\ Apart
  BY DEF Accounted, Places, Ingest
<1>1. /\ UNCHANGED <<jobs, facts, build>> /\ JobId' = JobId /\ worker' = Idle
      /\ \A c \in Client : handler'[c].job = 0
  BY IdleTyped DEF Exit, Kill, Die, db, JobId
<1>2. Lost \in Nat /\ Lost' \in Nat /\ (Busy => Lost < Lost') /\ Lost <= Lost'
  <2>1. Lost \in Nat /\ Lost' \in Nat
    BY <1>0, LostTyped DEF Typed, TypeOK
  <2>2. CASE Exit
    BY <1>0, <2>1, <2>2, LostTyped DEF Exit, Working, Busy, Typed, TypeOK
  <2>3. CASE Kill
    <3>1. spent'.kills = spent.kills + 1 /\ spent'.faults = spent.faults
          /\ spent.kills \in Nat /\ spent.faults \in Nat
      BY <1>0, <2>3, BoundsAssumption DEF Kill, Typed, TypeOK, Spending
    <3> QED BY <3>1, <2>1 DEF Lost
  <2> QED BY <2>2, <2>3
<1>3. ~Busy' /\ WorkerCounts' /\ ChunkIsThere'
  BY <1>1, IdleTyped DEF Busy, WorkerCounts, ChunkIsThere
<1>4. build <= build'
  BY <1>0, <1>1, CountsTyped
<1> QED BY <1>0, <1>1, <1>2, <1>3, <1>4, ProgressStep

LEMMA ProgressProcess ==
  ASSUME ~Rollback, Ingest, Accounted, Progress, Typed',
         Sigterm \/ Exit \/ Kill \/ Start \/ SendResumed \/ \E s \in Session : ExpireSession(s)
  PROVE  Progress'
<1>0. Typed /\ Planned /\ Shapes /\ Apart
  BY DEF Accounted, Places, Ingest
<1>1. CASE Sigterm \/ SendResumed \/ \E s \in Session : ExpireSession(s)
  <2>1. UNCHANGED <<jobs, facts, handler, worker, build>>
    BY <1>1 DEF Sigterm, SendResumed, ExpireSession, db, ram, proc
  <2>2. Lost' = Lost /\ Lost \in Nat
    <3>1. spent'.kills = spent.kills /\ spent'.faults = spent.faults
      BY <1>0, <1>1 DEF Sigterm, SendResumed, ExpireSession, Typed, TypeOK, Spending
    <3> QED BY <1>0, <3>1, LostTyped DEF Lost, Typed, TypeOK
  <2> QED BY <1>0, <2>1, <2>2, ProgressStays
<1> QED BY <1>1, ProgressStart, ProgressDie

LEMMA ProgressInit == Init => Progress
<1> SUFFICES ASSUME Init PROVE Progress
  OBVIOUS
<1>1. JobId = {} /\ worker = Idle /\ \A c \in Client : handler[c] = NoHandler
  BY EmptySeq DEF Init, JobId
<1>2. ~Busy /\ worker.pc # "extract" /\ \A c \in Client : handler[c].job = 0
  BY <1>1, IdleTyped DEF Busy
<1> QED BY <1>1, <1>2 DEF Progress, RowsCount, WorkerCounts, HandlersAreFirst, ChunkIsThere

LEMMA ProgressNext ==
  ~Rollback /\ Ingest /\ Accounted /\ Progress /\ [Next]_vars => Progress'
<1> SUFFICES ASSUME ~Rollback, Ingest, Accounted, Progress, [Next]_vars PROVE Progress'
  OBVIOUS
<1>0. Typed /\ Typed' /\ Planned /\ Shapes /\ Apart
  BY TypedStep DEF Accounted, Places, Ingest
<1>1. CASE UNCHANGED vars
  <2>1. UNCHANGED <<jobs, facts, handler, worker, build, spent>>
    BY <1>1 DEF vars, db, ram, proc
  <2>2. Lost <= Lost'
    BY <1>0, <2>1, LostTyped DEF Typed, TypeOK
  <2> QED BY <1>0, <2>1, <2>2, ProgressStays
<1>2. CASE Next
  BY <1>0, <1>2, ProgressHandle, ProgressClient, ProgressWork, ProgressProcess DEF Next
<1> QED BY <1>1, <1>2

LEMMA RepeatsAreFew == Typed /\ Progress => RepeatsAreAccountedFor
<1> SUFFICES ASSUME Typed, Progress, NEW j \in JobId, NEW p \in Piece
             PROVE  facts[j][p] <= 1 + spent.kills + spent.faults
  BY DEF RepeatsAreAccountedFor
<1>1. facts[j][p] <= Lost + 1
  <2>1. CASE Busy /\ j = worker.job
    BY <2>1 DEF Progress, WorkerCounts, OnceEach
  <2>2. CASE ~(Busy /\ j = worker.job)
    BY <2>2 DEF Progress, RowsCount, OnceEach
  <2> QED BY <2>1, <2>2
<1>2. facts[j] \in [Piece -> Nat] /\ spent \in Spending
  BY CountsTyped
<1>3. facts[j][p] \in Nat /\ spent.kills \in Nat /\ spent.faults \in Nat
  BY <1>2, BoundsAssumption DEF Spending
<1> QED BY <1>1, <1>3 DEF Lost

-----------------------------------------------------------------------------
(***************************************************************************)
(* Rows only advance.                                                      *)
(***************************************************************************)
\* One row's part of RowsOnlyAdvance.
RowAdvances(old, new) ==
  /\ new.req = old.req
  /\ Tried(new.n) >= Tried(old.n)
  /\ old.task /\ ~new.task => new.status \in Terminal
  /\ old.status \in Terminal => new = old

\* The same of a table, between the passes of a start.
Advances(old, new) ==
  /\ new \in [DOMAIN old -> JobRow]
  /\ \A j \in DOMAIN old : RowAdvances(old[j], new[j])

LEMMA RowStays ==
  ASSUME NEW row \in JobRow
  PROVE  RowAdvances(row, row)
<1>1. Tried(row.n) \in Nat
  BY BumpTyped DEF JobRow
<1> QED BY <1>1 DEF RowAdvances

\* A write of an unfinished row that keeps or raises its count.
LEMMA RowWritten ==
  ASSUME NEW rows \in Seq(JobRow), NEW j \in DOMAIN rows, rows[j].status \in Live,
         NEW status \in Live \cup Terminal, NEW n \in Counts, Tried(rows[j].n) <= Tried(n),
         NEW new, new = Written(rows, j, status, n)
  PROVE  \A i \in DOMAIN rows : RowAdvances(rows[i], new[i])
<1>1. rows \in [DOMAIN rows -> JobRow]
  BY LenProperties
<1>2. /\ \A i \in DOMAIN rows : i # j => new[i] = rows[i]
      /\ new[j].req = rows[j].req /\ new[j].n = n /\ new[j].status = status
      /\ new[j].task = (rows[j].task /\ status \notin Terminal)
  BY <1>1 DEF Written, JobRow
<1>3. Tried(rows[j].n) \in Nat /\ Tried(n) \in Nat
  BY <1>1, BumpTyped DEF JobRow
<1>4. RowAdvances(rows[j], new[j])
  BY <1>2, <1>3 DEF RowAdvances, Live, Terminal
<1> QED BY <1>1, <1>2, <1>4, RowStays

LEMMA AdvancesTrans ==
  ASSUME NEW a \in Seq(JobRow), NEW b, NEW c, Advances(a, b), Advances(b, c)
  PROVE  Advances(a, c)
<1>1. DOMAIN b = DOMAIN a /\ DOMAIN c = DOMAIN a
  BY DEF Advances
<1>2. ASSUME NEW j \in DOMAIN a
      PROVE  RowAdvances(a[j], c[j])
  <2>1. a[j] \in JobRow /\ b[j] \in JobRow /\ c[j] \in JobRow
    BY <1>1, LenProperties DEF Advances
  <2>2. Tried(a[j].n) \in Nat /\ Tried(b[j].n) \in Nat /\ Tried(c[j].n) \in Nat
    BY <2>1, BumpTyped DEF JobRow
  <2>3. RowAdvances(a[j], b[j]) /\ RowAdvances(b[j], c[j])
    BY <1>1 DEF Advances
  <2>4. b[j].task \in BOOLEAN
    BY <2>1 DEF JobRow
  <2> QED BY <2>2, <2>3, <2>4 DEF RowAdvances
<1> QED BY <1>1, <1>2 DEF Advances

LEMMA FailStaleAdvances ==
  ASSUME NEW rows \in Seq(JobRow)
  PROVE  Advances(rows, FailStale(rows))
<1>1. rows \in [DOMAIN rows -> JobRow]
  BY LenProperties
<1>2. FailStale(rows) \in [DOMAIN rows -> JobRow]
  BY FailStaleKeeps DEF Kept
<1>3. ASSUME NEW j \in DOMAIN rows
      PROVE  RowAdvances(rows[j], FailStale(rows)[j])
  <2>1. rows[j] \in JobRow /\ Tried(rows[j].n) \in Nat
    BY <1>1, BumpTyped DEF JobRow
  <2>2. CASE rows[j].status \in Live /\ ~rows[j].task
    <3>1. FailStale(rows)[j] = [rows[j] EXCEPT !.status = "failed"]
      BY <2>2 DEF FailStale
    <3>2. PICK new : new = FailStale(rows)[j]
      OBVIOUS
    <3>3. new.req = rows[j].req /\ new.n = rows[j].n
      BY <2>1, <3>1, <3>2 DEF JobRow
    <3> QED BY <2>1, <2>2, <3>2, <3>3 DEF RowAdvances, Live, Terminal
  <2>3. CASE ~(rows[j].status \in Live /\ ~rows[j].task)
    <3>1. FailStale(rows)[j] = rows[j]
      BY <2>3 DEF FailStale
    <3> QED BY <2>1, <3>1, RowStays
  <2> QED BY <2>2, <2>3
<1> QED BY <1>2, <1>3 DEF Advances

LEMMA FailUnfinishedAdvances ==
  ASSUME NEW rows \in Seq(JobRow)
  PROVE  Advances(rows, FailUnfinished(rows))
<1>1. rows \in [DOMAIN rows -> JobRow]
  BY LenProperties
<1>2. FailUnfinished(rows) \in [DOMAIN rows -> JobRow]
  BY FailUnfinishedKeeps DEF Kept
<1>3. ASSUME NEW j \in DOMAIN rows
      PROVE  RowAdvances(rows[j], FailUnfinished(rows)[j])
  <2>1. rows[j] \in JobRow /\ Tried(rows[j].n) \in Nat
    BY <1>1, BumpTyped DEF JobRow
  <2>2. CASE rows[j].status \in Live
    <3>1. PICK new : new = FailUnfinished(rows)[j]
      OBVIOUS
    <3>2. new = [rows[j] EXCEPT !.status = "failed", !.task = FALSE]
      BY <2>2, <3>1 DEF FailUnfinished
    <3>3. new.req = rows[j].req /\ new.n = rows[j].n /\ new.status = "failed"
      BY <2>1, <3>2 DEF JobRow
    <3> QED BY <2>1, <2>2, <3>1, <3>3 DEF RowAdvances, Live, Terminal
  <2>3. CASE rows[j].status \notin Live
    <3>1. FailUnfinished(rows)[j] = rows[j]
      BY <2>3 DEF FailUnfinished
    <3> QED BY <2>1, <3>1, RowStays
  <2> QED BY <2>2, <2>3
<1> QED BY <1>2, <1>3 DEF Advances

LEMMA RequeuedAdvances ==
  ASSUME NEW rows \in Seq(JobRow), NEW bad
  PROVE  Advances(rows, Requeued(rows, bad))
<1>1. rows \in [DOMAIN rows -> JobRow]
  BY LenProperties
<1>2. Requeued(rows, bad) \in [DOMAIN rows -> JobRow]
  BY RequeuedKeeps DEF Kept
<1>3. \A j \in DOMAIN rows :
        j \in Admitted(rows, bad) \/ j \in Resumable(rows) => rows[j].status \in Live
  BY DEF Admitted, Resumable
<1>4. ASSUME NEW j \in DOMAIN rows
      PROVE  RowAdvances(rows[j], Requeued(rows, bad)[j])
  <2>1. rows[j] \in JobRow /\ Tried(rows[j].n) \in Nat
    BY <1>1, BumpTyped DEF JobRow
  <2>2. PICK new : new = Requeued(rows, bad)[j]
    OBVIOUS
  <2>3. CASE j \in Admitted(rows, bad)
    <3>1. new = [rows[j] EXCEPT !.status = "pending"]
      BY <2>2, <2>3 DEF Requeued
    <3>2. new.req = rows[j].req /\ new.n = rows[j].n /\ new.task = rows[j].task
      BY <2>1, <3>1 DEF JobRow
    <3> QED BY <1>3, <2>1, <2>2, <2>3, <3>2 DEF RowAdvances, Live, Terminal
  <2>4. CASE j \notin Admitted(rows, bad) /\ j \in Resumable(rows)
    <3>1. new = [rows[j] EXCEPT !.status = "failed", !.task = FALSE]
      BY <2>2, <2>4 DEF Requeued
    <3>2. new.req = rows[j].req /\ new.n = rows[j].n /\ new.status = "failed"
      BY <2>1, <3>1 DEF JobRow
    <3> QED BY <1>3, <2>1, <2>2, <2>4, <3>2 DEF RowAdvances, Live, Terminal
  <2>5. CASE j \notin Admitted(rows, bad) /\ j \notin Resumable(rows)
    <3>1. new = rows[j]
      BY <2>2, <2>5 DEF Requeued
    <3> QED BY <2>1, <2>2, <3>1, RowStays
  <2> QED BY <2>3, <2>4, <2>5
<1> QED BY <1>2, <1>4 DEF Advances

LEMMA StartAdvances ==
  ASSUME Typed, Start
  PROVE  \A j \in JobId : RowAdvances(jobs[j], jobs'[j])
<1>0. jobs \in Seq(JobRow) /\ DOMAIN jobs = JobId
  BY DEF Typed, TypeOK, JobId
<1>1. /\ Advances(jobs, FailStale(jobs)) /\ FailStale(jobs) \in Seq(JobRow)
      /\ DOMAIN FailStale(jobs) = JobId
  BY <1>0, FailStaleAdvances, SameShape DEF Advances
<1>2. \A bad : Advances(jobs, Requeued(FailStale(jobs), bad)) /\ Advances(jobs, Requeued(jobs, bad))
  BY <1>0, <1>1, RequeuedAdvances, AdvancesTrans
<1>3. Advances(jobs, FailUnfinished(FailStale(jobs)))
  BY <1>0, <1>1, FailUnfinishedAdvances, AdvancesTrans
<1>4. ASSUME NEW bad, NEW i \in Resumable(jobs),
             jobs' = [Requeued(FailStale(jobs), bad) EXCEPT ![i] = jobs[i]]
      PROVE  \A j \in JobId : RowAdvances(jobs[j], jobs'[j])
  <2>1. DOMAIN Requeued(FailStale(jobs), bad) = JobId
    BY <1>1 DEF Requeued
  <2>2. i \in JobId /\ jobs[i] \in JobRow
    BY <1>0, LenProperties DEF Resumable
  <2>3. \A j \in JobId : jobs'[j] = IF j = i THEN jobs[i] ELSE Requeued(FailStale(jobs), bad)[j]
    BY <1>4, <2>1
  <2> QED BY <1>0, <1>2, <2>2, <2>3, RowStays DEF Advances
<1>5. (\E bad : jobs' = Requeued(FailStale(jobs), bad) \/ jobs' = Requeued(jobs, bad))
      \/ jobs' = FailUnfinished(FailStale(jobs))
      => \A j \in JobId : RowAdvances(jobs[j], jobs'[j])
  BY <1>0, <1>2, <1>3 DEF Advances
<1> QED BY <1>4, <1>5 DEF Start

\* A flush is of an unfinished row, with a count it had or that is ahead of it.
LEMMA FlushAdvances ==
  ASSUME Accounted, worker.job \in JobId, NEW status \in Live \cup Terminal, NEW n \in Counts,
         Flush(status, n), Tried(jobs[worker.job].n) <= Tried(n)
  PROVE  \A j \in JobId : RowAdvances(jobs[j], jobs'[j])
<1>0. jobs \in Seq(JobRow) /\ DOMAIN jobs = JobId /\ jobs \in [JobId -> JobRow]
  BY LenProperties DEF Accounted, Typed, TypeOK, JobId
<1>1. jobs[worker.job].status \in Live
  BY DEF Accounted, Places, HeldIsOpen, HasJob
<1>2. CASE jobs' = Written(jobs, worker.job, status, n)
  BY <1>0, <1>1, <1>2, RowWritten
<1>3. CASE UNCHANGED jobs
  BY <1>0, <1>3, RowStays
<1> QED BY <1>2, <1>3 DEF Flush

LEMMA WorkAdvances ==
  ASSUME Accounted, Progress, Work
  PROVE  \A j \in JobId : RowAdvances(jobs[j], jobs'[j])
<1>0. /\ Typed /\ jobs \in [JobId -> JobRow] /\ worker.n \in Counts
      /\ \A j \in JobId : jobs[j].n \in Counts /\ Tried(jobs[j].n) \in Nat
  <2>1. Typed
    BY DEF Accounted
  <2> QED BY <2>1, LenProperties, CountsTyped, RowTyped DEF Typed, TypeOK, JobId, WorkerState
<1>1. CASE BeginJob \/ RefuseRecut
  <2>1. worker.job \in JobId
    BY <1>0, <1>1 DEF BeginJob, RefuseRecut, Working, Typed, Control
  <2>2. \E status \in Live \cup Terminal : Flush(status, jobs[worker.job].n)
    BY <1>1 DEF BeginJob, RefuseRecut, ResumeAt, Live, Terminal
  <2>3. Tried(jobs[worker.job].n) <= Tried(jobs[worker.job].n)
    BY <1>0, <2>1
  <2> QED BY <1>0, <2>1, <2>2, <2>3, FlushAdvances
<1>2. CASE FlushProgress \/ FlushPause \/ ReportOutcome
  <2>1. Busy
    BY <1>2 DEF FlushProgress, FlushPause, ReportOutcome, Working, Busy
  <2>2. worker.job \in JobId
    BY <1>0, <2>1 DEF Busy, Typed, Control
  <2>3. \E status \in Live \cup Terminal : Flush(status, worker.n)
    <3>1. ReportOutcome => worker.outcome \in Terminal
      BY <1>0 DEF ReportOutcome, Working, Typed, Control
    <3> QED BY <1>2, <3>1 DEF FlushProgress, FlushPause, ReportOutcome, Live, Terminal
  <2>4. Tried(jobs[worker.job].n) <= Tried(worker.n)
    BY <2>1 DEF Progress, WorkerCounts
  <2> QED BY <1>0, <2>2, <2>3, <2>4, FlushAdvances
<1>3. CASE \/ Dequeue \/ WorkerExit \/ WallTimeout \/ PauseBetween \/ SkipBlank \/ StartExtract
           \/ PauseInside \/ StoreChunk \/ ChunkFails \/ EndLoop \/ StampHash \/ ConfirmOffset
  <2>1. UNCHANGED jobs
    BY <1>3 DEF Dequeue, WorkerExit, WallTimeout, PauseBetween, SkipBlank, StartExtract,
                PauseInside, StoreChunk, ChunkFails, EndLoop, StampHash, ConfirmOffset, db
  <2> QED BY <1>0, <2>1, RowStays
<1> QED BY <1>1, <1>2, <1>3 DEF Work

LEMMA HandleAdvances ==
  ASSUME Accounted, Progress, NEW c \in Client, Handle(c)
  PROVE  \A j \in JobId : RowAdvances(jobs[j], jobs'[j])
<1> DEFINE k == handler[c].job
<1>0. /\ Typed /\ jobs \in Seq(JobRow) /\ jobs \in [JobId -> JobRow] /\ DOMAIN jobs = JobId
      /\ Shapes
  BY LenProperties DEF Accounted, Places, Typed, TypeOK, JobId
<1>1. CASE UNCHANGED jobs
  BY <1>0, <1>1, RowStays
<1>2. CASE InsertJob(c)
  <2> DEFINE row == [status |-> "pending", req |-> handler[c].req,
                     task |-> FALSE, planned |-> build, n |-> NoCounts]
  <2>1. jobs' = Append(jobs, row) \/ UNCHANGED jobs
    BY <1>2 DEF InsertJob
  <2>2. row \in JobRow
    BY <1>0 DEF Typed, TypeOK, HandlerState, JobRow, Live, Counts, NoCounts
  <2> HIDE DEF row
  <2>3. jobs' = Append(jobs, row) => \A j \in JobId : jobs'[j] = jobs[j]
    BY <1>0, <2>2, IdsAreNumbers, AppendProperties
  <2> QED BY <1>0, <2>1, <2>3, RowStays
<1>3. CASE StoreTask(c) \/ RejectJob(c)
  <2>1. handler[c].pc \in {"task", "reject"}
    BY <1>3 DEF StoreTask, RejectJob, At
  <2>2. k # 0 /\ k \in JobId
    BY <1>0, <2>1, IdsAreNumbers DEF Shapes, WithJob
  <2>3. jobs[k].status \in Live /\ Tried(jobs[k].n) = 0
    BY <2>2 DEF Accounted, Places, HeldIsOpen, HasJob, Progress, HandlersAreFirst
  <2>4. CASE jobs' = [jobs EXCEPT ![k].task = TRUE]
    <3>1. /\ \A j \in JobId : j # k => jobs'[j] = jobs[j]
          /\ jobs'[k].req = jobs[k].req /\ jobs'[k].n = jobs[k].n /\ jobs'[k].task = TRUE
      BY <1>0, <2>2, <2>4 DEF JobRow
    <3>2. RowAdvances(jobs[k], jobs'[k])
      BY <2>3, <3>1 DEF RowAdvances, Live, Terminal
    <3> QED BY <1>0, <3>1, <3>2, RowStays
  <2>5. CASE jobs' = Written(jobs, k, "failed", NoCounts)
    <3>1. NoCounts \in Counts /\ Tried(NoCounts) = 0 /\ "failed" \in Live \cup Terminal
      BY DEF NoCounts, Counts, Tried, Terminal
    <3> HIDE DEF k
    <3> QED BY <1>0, <2>2, <2>3, <2>5, <3>1, RowWritten
  <2> QED BY <1>1, <1>3, <2>4, <2>5 DEF StoreTask, RejectJob
<1>4. CASE \/ UpsertDocument(c) \/ MirrorAndAnswer(c) \/ MirrorSession(c) \/ Enqueue(c)
           \/ Overrun(c) \/ GiveBack(c) \/ Abandon(c)
  BY <1>1, <1>4 DEF UpsertDocument, MirrorAndAnswer, MirrorSession, Enqueue, Overrun, GiveBack,
                    Abandon, db
<1> QED BY <1>2, <1>3, <1>4 DEF Handle

LEMMA RowsAdvance ==
  ASSUME Accounted, Progress, [Next]_vars
  PROVE  \A j \in JobId : RowAdvances(jobs[j], jobs'[j])
<1>0. Typed /\ jobs \in [JobId -> JobRow]
  BY LenProperties DEF Accounted, Typed, TypeOK, JobId
<1>1. CASE UNCHANGED jobs
  BY <1>0, <1>1, RowStays
<1>2. \/ UNCHANGED jobs \/ Work \/ Start \/ \E c \in Client : Handle(c)
  BY DEF Next, HangUp, Admit, Sigterm, Exit, Kill, SendResumed, ExpireSession, vars, db
<1> QED BY <1>0, <1>1, <1>2, WorkAdvances, StartAdvances, HandleAdvances

-----------------------------------------------------------------------------
\* Every piece a job stored more than once is accounted for by a kill or by a
\* write that failed, and its row only advances, where no older build is
\* brought back: the workers' counts are of their build's chunks, which a
\* restart keeps, takes to be none, or refuses.
THEOREM ProgressIsAccounted == ~Rollback => (Spec => ProgressIsKept)
<1> SUFFICES ASSUME ~Rollback PROVE Spec => ProgressIsKept
  OBVIOUS
<1>1. Init => Accounted /\ Progress
  BY AccountedInit, ProgressInit
<1>2. Ingest /\ Accounted /\ Progress /\ [Next]_vars => Accounted' /\ Progress'
  BY AccountedStep, ProgressNext
<1>3. Accounted /\ Progress => RepeatsAreAccountedFor
  BY RepeatsAreFew DEF Accounted
<1>4. Accounted /\ Progress /\ [Next]_vars =>
        [\A j \in JobId :
           /\ jobs'[j].req = jobs[j].req
           /\ Tried(jobs'[j].n) >= Tried(jobs[j].n)
           /\ jobs[j].task /\ ~jobs'[j].task => jobs'[j].status \in Terminal
           /\ jobs[j].status \in Terminal => jobs'[j] = jobs[j]]_vars
  BY RowsAdvance DEF RowAdvances
<1>5. Spec => []Ingest
  BY IngestIsInvariant
<1> QED BY <1>1, <1>2, <1>3, <1>4, <1>5, PTL DEF Spec, ProgressIsKept, RowsOnlyAdvance
=============================================================================
