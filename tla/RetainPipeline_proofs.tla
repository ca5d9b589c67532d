------------------------ MODULE RetainPipeline_proofs ------------------------
(***************************************************************************)
(* Proofs about RetainPipeline, for any clients, requests, transcripts,    *)
(* builds, queue and bounds: its types and control, and that what is       *)
(* marked as ingested is ingested.                                         *)
(***************************************************************************)
EXTENDS RetainPipeline, FiniteSetTheorems, SequenceTheorems, TLAPS

(***************************************************************************)
(* What the updates of the job table do to its rows.                       *)
(***************************************************************************)

\* new has the rows of old with, at most, another status of those unfinished,
\* which it may reopen or fail.
Kept(old, new) ==
  /\ new \in [DOMAIN old -> JobRow]
  /\ \A j \in DOMAIN old :
       /\ new[j].req = old[j].req /\ new[j].planned = old[j].planned
       /\ new[j].n = old[j].n
       /\ new[j].status \in Live => old[j].status \in Live
       /\ new[j].status = "done" => old[j].status = "done"
       /\ \/ new[j].status = old[j].status
          \/ old[j].status \in Live /\ new[j].status \in {"pending", "failed"}

LEMMA SameShape ==
  ASSUME NEW T, NEW old \in Seq(T), NEW new \in [DOMAIN old -> T]
  PROVE  new \in Seq(T) /\ DOMAIN new = DOMAIN old /\ Len(new) = Len(old)
<1>1. Len(old) \in Nat /\ DOMAIN old = 1..Len(old)
  BY LenProperties
<1>2. new \in Seq(T) /\ DOMAIN new = 1..Len(old)
  BY <1>1, SeqDef
<1>3. Len(new) \in Nat /\ DOMAIN new = 1..Len(new)
  BY <1>2, LenProperties
<1> QED BY <1>1, <1>2, <1>3

\* retain_jobs::update touches one row: its status, its counters, its task.
LEMMA WrittenRows ==
  ASSUME NEW rows \in Seq(JobRow), NEW j \in Nat, NEW status \in Live \cup Terminal,
         NEW n \in Counts
  PROVE  /\ Written(rows, j, status, n) \in [DOMAIN rows -> JobRow]
         /\ \A i \in DOMAIN rows :
              /\ Written(rows, j, status, n)[i].req = rows[i].req
              /\ Written(rows, j, status, n)[i].planned = rows[i].planned
              /\ i # j => Written(rows, j, status, n)[i] = rows[i]
              /\ i = j => /\ Written(rows, j, status, n)[i].status = status
                          /\ Written(rows, j, status, n)[i].n = n
<1>1. rows \in [DOMAIN rows -> JobRow]
  BY LenProperties
<1> QED BY <1>1, ZenonT(90) DEF Written, JobRow, Live, Terminal

LEMMA KeptTrans ==
  ASSUME NEW a \in Seq(JobRow), NEW b, NEW c, Kept(a, b), Kept(b, c)
  PROVE  Kept(a, c)
BY DEF Kept

LEMMA FailStaleKeeps ==
  ASSUME NEW rows \in Seq(JobRow)
  PROVE  Kept(rows, FailStale(rows))
<1>1. rows \in [DOMAIN rows -> JobRow]
  BY LenProperties
<1> QED BY <1>1 DEF Kept, FailStale, JobRow, Live, Terminal

LEMMA FailUnfinishedKeeps ==
  ASSUME NEW rows \in Seq(JobRow)
  PROVE  Kept(rows, FailUnfinished(rows))
<1>1. rows \in [DOMAIN rows -> JobRow]
  BY LenProperties
<1> QED BY <1>1 DEF Kept, FailUnfinished, JobRow, Live, Terminal

LEMMA RequeuedKeeps ==
  ASSUME NEW rows \in Seq(JobRow), NEW bad
  PROVE  Kept(rows, Requeued(rows, bad))
<1>1. rows \in [DOMAIN rows -> JobRow]
  BY LenProperties
<1>2. /\ \A j \in Admitted(rows, bad) : j \in DOMAIN rows /\ rows[j].status \in Live
      /\ \A j \in Resumable(rows) : rows[j].status \in Live
  BY DEF Admitted, Resumable
<1> QED BY <1>1, <1>2 DEF Kept, Requeued, JobRow, Live, Terminal

-----------------------------------------------------------------------------
(***************************************************************************)
(* Type correctness.  It needs to know what each control point has already *)
(* established about the request and the row it works on.                  *)
(***************************************************************************)
Control ==
  /\ \A j \in JobId : ReqOf(j).content \in Content
  /\ \A c \in Client :
       /\ handler[c].pc \in {"insert", "mirror", "task", "enqueue", "giveback", "reject"}
            => handler[c].req.content \in Content
       /\ handler[c].pc \in {"mirror", "task", "enqueue", "giveback", "reject"}
            => handler[c].job \in JobId
  /\ worker.pc \notin {"idle", "exited"} => worker.job \in JobId
  /\ worker.pc \in {"stamp", "confirm"} => worker.outcome = "done"
  /\ worker.pc = "report" => worker.outcome \in Terminal
  /\ ~up => worker.pc = "idle"

Typed == TypeOK /\ Control

LEMMA IdleTyped ==
  /\ NoHandler \in HandlerState /\ NoHandler.pc = "idle" /\ NoHandler.job = 0
  /\ Idle \in WorkerState /\ Idle.pc = "idle" /\ Idle.job = 0
BY RequestAssumption
   DEF NoHandler, HandlerState, Idle, WorkerState, Counts, NoCounts, Terminal

LEMMA TypedInit == Init => Typed
<1> SUFFICES ASSUME Init PROVE Typed
  OBVIOUS
<1>1. jobs \in Seq(JobRow) /\ facts \in Seq([Piece -> Nat]) /\ Len(facts) = Len(jobs)
  BY EmptySeq DEF Init
<1>2. queue \in Seq(JobId)
  BY EmptySeq DEF Init
<1>3. JobId = {}
  BY DEF Init, JobId
<1>4. sess \in [Session -> SessionRow] /\ spent \in Spending
  <2>1. NoRow \in SessionRow
    BY DEF NoRow, SessionRow
  <2>2. [kills |-> 0, terms |-> 0, faults |-> 0, hangups |-> 0] \in Spending
    BY BoundsAssumption DEF Spending
  <2> QED BY <2>1, <2>2 DEF Init
<1>5. /\ hash \in [Doc -> Content \cup {NoHash}]
      /\ handler \in [Client -> HandlerState] /\ worker \in WorkerState
  <2>1. hash \in [Doc -> Content \cup {NoHash}]
    BY DEF Init
  <2>2. handler \in [Client -> HandlerState]
    BY IdleTyped DEF Init
  <2>3. worker \in WorkerState
    BY IdleTyped DEF Init
  <2> QED BY <2>1, <2>2, <2>3
<1>6. TypeOK
  <2>1. up \in BOOLEAN /\ sigterm \in BOOLEAN
    BY Zenon DEF Init
  <2>2. build \in Version /\ resuming \subseteq JobId /\ held \in Int /\ accepted \subseteq JobId
    BY DEF Init
  <2> QED BY <1>1, <1>2, <1>4, <1>5, <2>1, <2>2 DEF TypeOK
<1>7. Control
  BY <1>3, IdleTyped DEF Control, Init
<1> QED BY <1>6, <1>7 DEF Typed

(***************************************************************************)
(* The building blocks of the actions.                                     *)
(***************************************************************************)
LEMMA FaultTyped == spent \in Spending /\ Fault => spent' \in Spending
BY BoundsAssumption DEF Spending, Fault

LEMMA HangupTyped ==
  spent \in Spending /\ spent.hangups < MaxHangups
    /\ spent' = [spent EXCEPT !.hangups = @ + 1] => spent' \in Spending
BY BoundsAssumption DEF Spending

LEMMA TermTyped ==
  spent \in Spending /\ spent.terms < MaxTerms
    /\ spent' = [spent EXCEPT !.terms = @ + 1] => spent' \in Spending
BY BoundsAssumption DEF Spending

LEMMA KillTyped ==
  spent \in Spending /\ spent.kills < MaxKills
    /\ spent' = [spent EXCEPT !.kills = @ + 1] => spent' \in Spending
BY BoundsAssumption DEF Spending

LEMMA UpsertTyped ==
  ASSUME NEW row \in SessionRow, NEW byte \in Nat, NEW from \in Nat, NEW to \in Nat,
         NEW settled \in Nat
  PROVE  Upsert(row, byte, from, to, settled) \in SessionRow
BY DEF Upsert, SessionRow, Larger, RangeConfirm, SettledConfirm

LEMMA RequestTyped ==
  ASSUME NEW r \in Request
  PROVE  /\ r.doc \in Doc /\ r.session \in Session /\ r.from \in Nat /\ r.to \in Nat
         /\ r.content # Nothing => r.content \in Content
BY RequestAssumption

LEMMA GotoTyped ==
  ASSUME handler \in [Client -> HandlerState], NEW c \in Client, NEW pc, Goto(c, pc),
         pc \in {"idle", "document", "settle", "insert", "mirror", "task", "enqueue",
                 "giveback", "reject"}
  PROVE  /\ handler' \in [Client -> HandlerState]
         /\ handler'[c].pc = pc /\ handler'[c].req = handler[c].req
         /\ handler'[c].job = handler[c].job /\ handler'[c].gone = handler[c].gone
         /\ \A d \in Client : d # c => handler'[d] = handler[d]
BY DEF Goto, HandlerState

LEMMA WithJobTyped ==
  ASSUME NEW h \in HandlerState, NEW k \in Nat
  PROVE  /\ [h EXCEPT !.pc = "mirror", !.job = k] \in HandlerState
         /\ [h EXCEPT !.pc = "mirror", !.job = k].req = h.req
         /\ [h EXCEPT !.pc = "mirror", !.job = k].job = k
BY DEF HandlerState

LEMMA FinishTyped ==
  ASSUME handler \in [Client -> HandlerState], NEW c \in Client, Finish(c)
  PROVE  /\ handler' \in [Client -> HandlerState] /\ handler'[c].pc = "idle"
         /\ \A d \in Client : d # c => handler'[d] = handler[d]
BY IdleTyped DEF Finish

\* A step that leaves the table alone keeps Typed when it keeps the types of
\* what it writes and the worker's and the handlers' control.
LEMMA SameRows ==
  ASSUME UNCHANGED jobs
  PROVE  JobId' = JobId /\ \A j \in JobId : ReqOf(j)' = ReqOf(j)
BY DEF JobId, ReqOf

\* A step that keeps the ids and the requests of the rows.
LEMMA SameIds ==
  ASSUME TypeOK, jobs' \in [JobId -> JobRow], \A j \in JobId : jobs'[j].req = jobs[j].req
  PROVE  /\ jobs' \in Seq(JobRow) /\ Len(jobs') = Len(jobs) /\ JobId' = JobId
         /\ \A j \in JobId : ReqOf(j)' = ReqOf(j)
BY SameShape DEF TypeOK, JobId, ReqOf

LEMMA FlushTyped ==
  ASSUME TypeOK, NEW status \in Live \cup Terminal, NEW n \in Counts, Flush(status, n)
  PROVE  /\ jobs' \in Seq(JobRow) /\ Len(jobs') = Len(jobs) /\ JobId' = JobId
         /\ \A j \in JobId : ReqOf(j)' = ReqOf(j)
         /\ spent' \in Spending
<1>1. CASE jobs' = Written(jobs, worker.job, status, n) /\ UNCHANGED spent
  <2>1. jobs \in Seq(JobRow) /\ worker.job \in Nat
    BY DEF TypeOK, WorkerState
  <2>2. jobs' \in [JobId -> JobRow] /\ \A j \in JobId : jobs'[j].req = jobs[j].req
    <3>1. /\ Written(jobs, worker.job, status, n) \in [DOMAIN jobs -> JobRow]
          /\ \A i \in DOMAIN jobs :
               Written(jobs, worker.job, status, n)[i].req = jobs[i].req
      BY <2>1, WrittenRows
    <3> QED BY <1>1, <3>1 DEF JobId
  <2> QED BY <1>1, <2>2, SameIds DEF TypeOK
<1>2. CASE Fault /\ UNCHANGED jobs
  BY <1>2, SameRows, FaultTyped DEF TypeOK
<1> QED BY <1>1, <1>2 DEF Flush

LEMMA TypedHandle ==
  ASSUME Typed, NEW c \in Client, Handle(c)
  PROVE  Typed'
<1> USE DEF Typed
<1>r. handler[c] \in HandlerState /\ handler[c].req \in Request
  BY DEF TypeOK, HandlerState
<1>1. CASE UpsertDocument(c)
  <2>1. JobId' = JobId /\ \A j \in JobId : ReqOf(j)' = ReqOf(j)
    BY <1>1, SameRows DEF UpsertDocument
  <2>2. UNCHANGED <<jobs, facts, sess, queue, resuming, held, sigterm, worker, up,
                    build, accepted>>
    BY <1>1 DEF UpsertDocument, proc
  <2>3. CASE Goto(c, "settle") /\ UNCHANGED <<hash, spent>>
    <3>1. /\ handler' \in [Client -> HandlerState] /\ handler'[c].pc = "settle"
          /\ \A d \in Client : d # c => handler'[d] = handler[d]
      BY <2>3, GotoTyped DEF TypeOK
    <3>2. TypeOK'
      BY <2>1, <2>2, <2>3, <3>1 DEF TypeOK
    <3>3. Control'
      BY <2>1, <2>2, <3>1 DEF Control
    <3> QED BY <3>2, <3>3
  <2>4. CASE /\ handler[c].req.content # Nothing /\ Goto(c, "insert")
             /\ hash' = [hash EXCEPT ![handler[c].req.doc] = NewHash(handler[c].req)]
             /\ UNCHANGED spent
    <3>1. /\ handler' \in [Client -> HandlerState] /\ handler'[c].pc = "insert"
          /\ handler'[c].req = handler[c].req
          /\ \A d \in Client : d # c => handler'[d] = handler[d]
      BY <2>4, GotoTyped DEF TypeOK
    <3>2. TypeOK'
      BY <2>1, <2>2, <2>4, <3>1 DEF TypeOK, NewHash
    <3>3. Control'
      BY <1>r, <2>1, <2>2, <2>4, <3>1, RequestTyped DEF Control
    <3> QED BY <3>2, <3>3
  <2>5. CASE Fault /\ Finish(c) /\ UNCHANGED hash
    <3>1. /\ handler' \in [Client -> HandlerState] /\ handler'[c].pc = "idle"
          /\ \A d \in Client : d # c => handler'[d] = handler[d]
      BY <2>5, FinishTyped DEF TypeOK
    <3>2. TypeOK'
      BY <2>1, <2>2, <2>5, <3>1, FaultTyped DEF TypeOK
    <3>3. Control'
      BY <2>1, <2>2, <3>1 DEF Control
    <3> QED BY <3>2, <3>3
  <2> QED BY <1>1, <2>3, <2>4, <2>5 DEF UpsertDocument
<1>2. CASE MirrorAndAnswer(c)
  <2>1. MirrorSettled(sess[handler[c].req.session], handler[c].req.to) \in SessionRow
    BY <1>r, RequestTyped, UpsertTyped DEF MirrorSettled, TypeOK
  <2>2. JobId' = JobId /\ \A j \in JobId : ReqOf(j)' = ReqOf(j)
    BY <1>2, SameRows DEF MirrorAndAnswer
  <2>3. sess' \in [Session -> SessionRow] /\ spent' \in Spending
    BY <1>r, <1>2, <2>1, RequestTyped, FaultTyped DEF MirrorAndAnswer, TypeOK
  <2>4. handler' \in [Client -> HandlerState] /\ handler'[c].pc = "idle"
        /\ \A d \in Client : d # c => handler'[d] = handler[d]
    BY <1>2, FinishTyped DEF MirrorAndAnswer, TypeOK
  <2>5. TypeOK'
    BY <1>2, <2>2, <2>3, <2>4 DEF MirrorAndAnswer, TypeOK, proc
  <2>6. Control'
    BY <1>2, <2>2, <2>4 DEF MirrorAndAnswer, Control, proc
  <2> QED BY <2>5, <2>6
<1>3. CASE InsertJob(c)
  <2>1. UNCHANGED <<hash, sess, queue, resuming, held, sigterm, worker, up, build, accepted>>
    BY <1>3 DEF InsertJob, proc
  <2>2. handler[c].pc = "insert" /\ handler[c].req.content \in Content
    BY <1>3 DEF InsertJob, At, Control
  <2>3. CASE Fault /\ Finish(c) /\ UNCHANGED <<jobs, facts>>
    <3>1. JobId' = JobId /\ \A j \in JobId : ReqOf(j)' = ReqOf(j)
      BY <2>3, SameRows
    <3>2. /\ handler' \in [Client -> HandlerState] /\ handler'[c].pc = "idle"
          /\ \A d \in Client : d # c => handler'[d] = handler[d]
      BY <2>3, FinishTyped DEF TypeOK
    <3>3. TypeOK'
      BY <2>1, <2>3, <3>1, <3>2, FaultTyped DEF TypeOK
    <3>4. Control'
      BY <2>1, <3>1, <3>2 DEF Control
    <3> QED BY <3>3, <3>4
  <2>4. ASSUME jobs' = Append(jobs, [status |-> "pending", req |-> handler[c].req,
                                     task |-> FALSE, planned |-> build, n |-> NoCounts]),
               facts' = Append(facts, [p \in Piece |-> 0]),
               handler' = [handler EXCEPT ![c] =
                             [@ EXCEPT !.pc = "mirror", !.job = Len(jobs) + 1]],
               UNCHANGED spent
        PROVE  Typed'
    <3> DEFINE row == [status |-> "pending", req |-> handler[c].req,
                       task |-> FALSE, planned |-> build, n |-> NoCounts]
    <3>1. row \in JobRow
      BY <1>r DEF JobRow, Live, Counts, NoCounts, TypeOK
    <3>2. Len(jobs) \in Nat /\ JobId = 1..Len(jobs)
      BY LenProperties DEF TypeOK, JobId
    <3>3. /\ jobs' \in Seq(JobRow) /\ Len(jobs') = Len(jobs) + 1
          /\ \A i \in 1..Len(jobs) : jobs'[i] = jobs[i]
          /\ jobs'[Len(jobs) + 1] = row
      BY <2>4, <3>1, <3>2, AppendProperties DEF TypeOK
    <3>4. JobId' = 1..(Len(jobs) + 1) /\ JobId \subseteq JobId'
      <4>1. JobId' = 1..Len(jobs')
        BY <3>3, LenProperties DEF JobId
      <4> QED BY <4>1, <3>2, <3>3
    <3>5. facts' \in Seq([Piece -> Nat]) /\ Len(facts') = Len(jobs')
      <4>1. [p \in Piece |-> 0] \in [Piece -> Nat]
        OBVIOUS
      <4> QED BY <2>4, <3>3, <4>1, AppendProperties DEF TypeOK
    <3>6. /\ handler' \in [Client -> HandlerState]
          /\ handler'[c].req = handler[c].req /\ handler'[c].job = Len(jobs) + 1
          /\ \A d \in Client : d # c => handler'[d] = handler[d]
      <4>1. handler' = [handler EXCEPT ![c] = [handler[c] EXCEPT !.pc = "mirror",
                                                                 !.job = Len(jobs) + 1]]
        BY <2>4
      <4>2. /\ [handler[c] EXCEPT !.pc = "mirror", !.job = Len(jobs) + 1] \in HandlerState
            /\ [handler[c] EXCEPT !.pc = "mirror", !.job = Len(jobs) + 1].req = handler[c].req
            /\ [handler[c] EXCEPT !.pc = "mirror", !.job = Len(jobs) + 1].job = Len(jobs) + 1
        <5>1. Len(jobs) + 1 \in Nat
          BY <3>2
        <5> QED BY <1>r, <5>1, WithJobTyped
      <4> QED BY <4>1, <4>2 DEF TypeOK
    <3>7. queue' \in Seq(JobId')
      BY <2>1, <3>4, SeqMonotonic DEF TypeOK
    <3>8. TypeOK'
      BY <2>1, <2>4, <3>3, <3>4, <3>5, <3>6, <3>7 DEF TypeOK
    <3>9. \A j \in JobId' : ReqOf(j)'.content \in Content
      BY <2>2, <3>2, <3>3, <3>4 DEF Control, ReqOf
    <3>10. Control'
      BY <2>1, <2>2, <3>2, <3>4, <3>6, <3>9 DEF Control
    <3> QED BY <3>8, <3>10
  <2> QED BY <1>3, <2>3, <2>4 DEF InsertJob
<1>4. CASE MirrorSession(c)
  <2>1. MirrorQueued(sess[handler[c].req.session], handler[c].req.to) \in SessionRow
    BY <1>r, RequestTyped, UpsertTyped DEF MirrorQueued, TypeOK
  <2>2. JobId' = JobId /\ \A j \in JobId : ReqOf(j)' = ReqOf(j)
    BY <1>4, SameRows DEF MirrorSession
  <2>3. sess' \in [Session -> SessionRow] /\ spent' \in Spending
    BY <1>r, <1>4, <2>1, RequestTyped, FaultTyped DEF MirrorSession, TypeOK
  <2>4. /\ handler' \in [Client -> HandlerState] /\ handler'[c].pc = "task"
        /\ handler'[c].req = handler[c].req /\ handler'[c].job = handler[c].job
        /\ \A d \in Client : d # c => handler'[d] = handler[d]
    BY <1>4, GotoTyped DEF MirrorSession, TypeOK
  <2>5. handler[c].pc = "mirror"
    BY <1>4 DEF MirrorSession, At
  <2>6. TypeOK'
    BY <1>4, <2>2, <2>3, <2>4 DEF MirrorSession, TypeOK, proc
  <2>7. Control'
    BY <1>4, <2>2, <2>4, <2>5 DEF MirrorSession, Control, proc
  <2> QED BY <2>6, <2>7
<1>5. CASE StoreTask(c)
  <2>1. jobs' \in Seq(JobRow) /\ Len(jobs') = Len(jobs) /\ JobId' = JobId
        /\ \A j \in JobId : ReqOf(j)' = ReqOf(j)
    <3>1. CASE UNCHANGED jobs
      BY <3>1, SameRows DEF TypeOK
    <3>2. CASE jobs' = [jobs EXCEPT ![handler[c].job].task = TRUE]
      <4>1. jobs \in [JobId -> JobRow]
        BY LenProperties DEF TypeOK, JobId
      <4>2. jobs' \in [JobId -> JobRow] /\ \A j \in JobId : jobs'[j].req = jobs[j].req
        BY <3>2, <4>1 DEF JobRow
      <4> QED BY <4>2, SameIds
    <3> QED BY <1>5, <3>1, <3>2 DEF StoreTask
  <2>2. spent' \in Spending
    BY <1>5, FaultTyped DEF StoreTask, TypeOK
  <2>3. /\ handler' \in [Client -> HandlerState] /\ handler'[c].pc = "enqueue"
        /\ handler'[c].req = handler[c].req /\ handler'[c].job = handler[c].job
        /\ \A d \in Client : d # c => handler'[d] = handler[d]
    BY <1>5, GotoTyped DEF StoreTask, TypeOK
  <2>4. handler[c].pc = "task"
    BY <1>5 DEF StoreTask, At
  <2>5. TypeOK'
    BY <1>5, <2>1, <2>2, <2>3 DEF StoreTask, TypeOK, proc
  <2>6. Control'
    BY <1>5, <2>1, <2>3, <2>4 DEF StoreTask, Control, proc
  <2> QED BY <2>5, <2>6
<1>6. CASE Enqueue(c)
  <2>1. JobId' = JobId /\ \A j \in JobId : ReqOf(j)' = ReqOf(j)
    BY <1>6, SameRows DEF Enqueue, db
  <2>2. handler[c].job \in JobId
    BY <1>6 DEF Enqueue, At, Control
  <2>3. queue' \in Seq(JobId) /\ accepted' \subseteq JobId /\ held' \in Int
    BY <1>6, <2>2, AppendProperties DEF Enqueue, TypeOK
  <2>4. /\ handler' \in [Client -> HandlerState] /\ handler'[c].pc = "idle"
        /\ \A d \in Client : d # c => handler'[d] = handler[d]
    BY <1>6, FinishTyped DEF Enqueue, TypeOK
  <2>5. TypeOK'
    BY <1>6, <2>1, <2>3, <2>4 DEF Enqueue, TypeOK, proc, db
  <2>6. Control'
    BY <1>6, <2>1, <2>4 DEF Enqueue, Control, proc
  <2> QED BY <2>5, <2>6
<1>7. CASE Overrun(c) \/ GiveBack(c)
  <2>1. JobId' = JobId /\ \A j \in JobId : ReqOf(j)' = ReqOf(j)
    BY <1>7, SameRows DEF Overrun, GiveBack, db
  <2>2. UNCHANGED <<jobs, facts, hash, sess, queue, resuming, sigterm, worker, up,
                    build, accepted, spent>>
    BY <1>7 DEF Overrun, GiveBack, db, proc
  <2>3. handler[c].pc \in {"enqueue", "giveback"}
    BY <1>7 DEF Overrun, GiveBack, At
  <2>4. /\ handler' \in [Client -> HandlerState]
        /\ handler'[c].pc \in {"giveback", "reject"}
        /\ handler'[c].req = handler[c].req /\ handler'[c].job = handler[c].job
        /\ \A d \in Client : d # c => handler'[d] = handler[d]
    BY <1>7, GotoTyped DEF Overrun, GiveBack, TypeOK
  <2>5. held' \in Int
    BY <1>7 DEF Overrun, GiveBack, TypeOK
  <2>6. TypeOK'
    BY <2>1, <2>2, <2>4, <2>5 DEF TypeOK
  <2>7. Control'
    BY <2>1, <2>2, <2>3, <2>4 DEF Control
  <2> QED BY <2>6, <2>7
<1>8. CASE RejectJob(c)
  <2>1. jobs' \in Seq(JobRow) /\ Len(jobs') = Len(jobs) /\ JobId' = JobId
        /\ \A j \in JobId : ReqOf(j)' = ReqOf(j)
    <3>1. CASE UNCHANGED jobs
      BY <3>1, SameRows DEF TypeOK
    <3>2. CASE jobs' = Written(jobs, handler[c].job, "failed", NoCounts)
      <4>1. jobs \in Seq(JobRow) /\ handler[c].job \in Nat /\ NoCounts \in Counts
            /\ "failed" \in Live \cup Terminal
        BY <1>r DEF TypeOK, HandlerState, Counts, NoCounts, Terminal
      <4>2. jobs' \in [JobId -> JobRow] /\ \A j \in JobId : jobs'[j].req = jobs[j].req
        <5>1. /\ Written(jobs, handler[c].job, "failed", NoCounts) \in [DOMAIN jobs -> JobRow]
              /\ \A i \in DOMAIN jobs :
                   Written(jobs, handler[c].job, "failed", NoCounts)[i].req = jobs[i].req
          BY <4>1, WrittenRows
        <5> QED BY <3>2, <5>1 DEF JobId
      <4> QED BY <4>2, SameIds
    <3> QED BY <1>8, <3>1, <3>2 DEF RejectJob
  <2>2. spent' \in Spending
    BY <1>8, FaultTyped DEF RejectJob, TypeOK
  <2>3. /\ handler' \in [Client -> HandlerState] /\ handler'[c].pc = "idle"
        /\ \A d \in Client : d # c => handler'[d] = handler[d]
    BY <1>8, FinishTyped DEF RejectJob, TypeOK
  <2>4. TypeOK'
    BY <1>8, <2>1, <2>2, <2>3 DEF RejectJob, TypeOK, proc
  <2>5. Control'
    BY <1>8, <2>1, <2>3 DEF RejectJob, Control, proc
  <2> QED BY <2>4, <2>5
<1>9. CASE Abandon(c)
  <2>1. JobId' = JobId /\ \A j \in JobId : ReqOf(j)' = ReqOf(j)
    BY <1>9, SameRows DEF Abandon, db
  <2>2. /\ handler' \in [Client -> HandlerState] /\ handler'[c].pc = "idle"
        /\ \A d \in Client : d # c => handler'[d] = handler[d]
    BY <1>9, FinishTyped DEF Abandon, TypeOK
  <2>3. TypeOK'
    BY <1>9, <2>1, <2>2 DEF Abandon, TypeOK, proc, db
  <2>4. Control'
    BY <1>9, <2>1, <2>2 DEF Abandon, Control, proc
  <2> QED BY <2>3, <2>4
<1> QED
  BY <1>1, <1>2, <1>3, <1>4, <1>5, <1>6, <1>7, <1>8, <1>9 DEF Handle

LEMMA TypedClient ==
  ASSUME Typed, NEW c \in Client, HangUp(c) \/ \E r \in Request : Admit(c, r)
  PROVE  Typed'
<1> USE DEF Typed
<1>1. CASE HangUp(c)
  <2>1. UNCHANGED <<jobs, facts, hash, sess, queue, resuming, held, sigterm, worker, up,
                    build, accepted>>
    BY <1>1 DEF HangUp, db, proc
  <2>2. JobId' = JobId /\ \A j \in JobId : ReqOf(j)' = ReqOf(j)
    BY <2>1, SameRows
  <2>3. /\ handler' \in [Client -> HandlerState]
        /\ handler'[c].pc = handler[c].pc /\ handler'[c].req = handler[c].req
        /\ handler'[c].job = handler[c].job
        /\ \A d \in Client : d # c => handler'[d] = handler[d]
    BY <1>1 DEF HangUp, TypeOK, HandlerState
  <2>4. spent' \in Spending
    BY <1>1, HangupTyped DEF HangUp, TypeOK
  <2>5. TypeOK'
    BY <2>1, <2>2, <2>3, <2>4 DEF TypeOK
  <2>6. Control'
    BY <2>1, <2>2, <2>3 DEF Control
  <2> QED BY <2>5, <2>6
<1>2. ASSUME NEW r \in Request, Admit(c, r) PROVE Typed'
  <2>1. UNCHANGED <<jobs, facts, hash, sess, queue, resuming, held, sigterm, worker, up,
                    build, accepted, spent>>
    BY <1>2 DEF Admit, db, proc
  <2>2. JobId' = JobId /\ \A j \in JobId : ReqOf(j)' = ReqOf(j)
    BY <2>1, SameRows
  <2>3. /\ handler' \in [Client -> HandlerState] /\ handler'[c].pc = "document"
        /\ \A d \in Client : d # c => handler'[d] = handler[d]
    <3>1. [pc |-> "document", req |-> r, job |-> 0, gone |-> FALSE] \in HandlerState
      BY DEF HandlerState
    <3> QED BY <1>2, <3>1 DEF Admit, TypeOK
  <2>4. TypeOK'
    BY <2>1, <2>2, <2>3 DEF TypeOK
  <2>5. Control'
    BY <2>1, <2>2, <2>3 DEF Control
  <2> QED BY <2>4, <2>5
<1> QED BY <1>1, <1>2

(***************************************************************************)
(* The worker.                                                             *)
(***************************************************************************)
LEMMA StepTyped ==
  ASSUME worker \in WorkerState, NEW pc, Step(pc),
         pc \in {"idle", "begin", "loop", "extract", "flush", "pause", "stamp", "confirm",
                 "report", "exited"}
  PROVE  /\ worker' \in WorkerState /\ worker'.pc = pc /\ worker'.job = worker.job
         /\ worker'.n = worker.n /\ worker'.outcome = worker.outcome
BY DEF Step, WorkerState

LEMMA BumpTyped ==
  ASSUME NEW n \in Counts, NEW field \in {"done", "failed", "skipped"}
  PROVE  /\ Bump(n, field) \in Counts /\ Tried(Bump(n, field)) = Tried(n) + 1
         /\ Tried(n) \in Nat
         /\ Bump(n, field).failed = n.failed + (IF field = "failed" THEN 1 ELSE 0)
<1>1. CASE field = "done"
  BY <1>1 DEF Bump, Counts, Tried
<1>2. CASE field = "failed"
  BY <1>2 DEF Bump, Counts, Tried
<1>3. CASE field = "skipped"
  BY <1>3 DEF Bump, Counts, Tried
<1> QED BY <1>1, <1>2, <1>3

\* Counting a chunk: the control point, the counters and the listener change.
LEMMA CountTyped ==
  ASSUME worker \in WorkerState, NEW ear \in {"new", "on", "deaf"},
         NEW field \in {"done", "failed", "skipped"},
         \/ worker' = [worker EXCEPT !.pc = "flush", !.n = Bump(@, field), !.ear = ear]
         \/ worker' = [worker EXCEPT !.pc = "flush", !.n = Bump(@, field)]
  PROVE  /\ worker' \in WorkerState /\ worker'.pc = "flush" /\ worker'.job = worker.job
         /\ worker'.n = Bump(worker.n, field) /\ worker.n \in Counts
<1>1. worker.n \in Counts
  BY DEF WorkerState
<1>2. Bump(worker.n, field) \in Counts
  BY <1>1, BumpTyped
<1> QED BY <1>1, <1>2 DEF WorkerState

LEMMA EarTyped == worker \in WorkerState => Ear \in {"new", "on", "deaf"}
BY DEF WorkerState, Ear

\* A step of the worker in memory only.
LEMMA WorkerAlone ==
  ASSUME Typed, up,
         UNCHANGED <<db, handler, queue, resuming, held, sigterm, proc, accepted, spent>>,
         worker' \in WorkerState,
         worker'.pc \notin {"idle", "exited"} =>
           worker'.job = worker.job /\ worker.pc \notin {"idle", "exited"},
         worker'.pc \in {"stamp", "confirm"} => worker'.outcome = "done",
         worker'.pc = "report" => worker'.outcome \in Terminal
  PROVE  Typed'
<1>1. UNCHANGED <<jobs, facts, hash, sess, up, build, handler, queue, resuming, held,
                  sigterm, accepted, spent>>
  BY DEF db, proc
<1>2. JobId' = JobId /\ \A j \in JobId : ReqOf(j)' = ReqOf(j)
  BY <1>1, SameRows
<1>3. TypeOK'
  BY <1>1, <1>2 DEF Typed, TypeOK
<1>4. Control'
  BY <1>1, <1>2 DEF Typed, Control
<1> QED BY <1>3, <1>4 DEF Typed

\* A step of the worker that writes the row of its job, or tries to.
LEMMA WorkerFlushes ==
  ASSUME Typed, up, NEW status \in Live \cup Terminal, NEW n \in Counts, Flush(status, n),
         UNCHANGED <<facts, hash, sess, handler, queue, resuming, sigterm, proc, accepted>>,
         held' \in Int, worker' \in WorkerState,
         worker'.pc \in {"idle", "loop"},
         worker'.pc = "loop" => worker'.job = worker.job /\ worker.job \in JobId
  PROVE  Typed'
<1>1. /\ jobs' \in Seq(JobRow) /\ Len(jobs') = Len(jobs) /\ JobId' = JobId
      /\ \A j \in JobId : ReqOf(j)' = ReqOf(j)
      /\ spent' \in Spending
  BY FlushTyped DEF Typed
<1>2. TypeOK'
  BY <1>1 DEF Typed, TypeOK, proc
<1>3. Control'
  BY <1>1 DEF Typed, Control, proc
<1> QED BY <1>2, <1>3 DEF Typed

LEMMA RowInTable ==
  ASSUME NEW rows \in Seq(JobRow), NEW j \in DOMAIN rows
  PROVE  rows[j] \in JobRow /\ rows[j].n \in Counts /\ rows[j].planned \in Version
<1>1. rows[j] \in JobRow
  BY LenProperties, ElementOfSeq
<1> QED BY <1>1 DEF JobRow

LEMMA RowTyped ==
  ASSUME TypeOK, NEW j \in JobId
  PROVE  jobs[j] \in JobRow /\ jobs[j].n \in Counts /\ jobs[j].planned \in Version
BY RowInTable DEF TypeOK, JobId

\* insert_batch adds the pieces of one chunk to the facts of one job.
LEMMA StoredMore ==
  ASSUME NEW D, NEW f \in [D -> [Piece -> Nat]], NEW k \in D, NEW chunk,
         NEW g, g = [f EXCEPT ![k] = [p \in Piece |-> @[p] + (IF p \in chunk THEN 1 ELSE 0)]]
  PROVE  /\ g \in [D -> [Piece -> Nat]]
         /\ \A i \in D, p \in Piece : g[i][p] >= f[i][p]
         /\ \A p \in Piece : p \in chunk => g[k][p] > 0
<1> DEFINE new == [p \in Piece |-> f[k][p] + (IF p \in chunk THEN 1 ELSE 0)]
<1>1. f[k] \in [Piece -> Nat]
  OBVIOUS
<1>2. new \in [Piece -> Nat] /\ \A p \in Piece : new[p] >= f[k][p]
                             /\ (p \in chunk => new[p] > 0)
  BY <1>1
<1>3. g = [f EXCEPT ![k] = new]
  OBVIOUS
<1>4. \A i \in D : g[i] = IF i = k THEN new ELSE f[i]
  BY <1>3
<1> HIDE DEF new
<1>5. \A i \in D, p \in Piece : g[i][p] >= f[i][p]
  BY <1>2, <1>4
<1> QED BY <1>2, <1>3, <1>4, <1>5

LEMMA ReleaseTyped ==
  ASSUME held \in Int, Release
  PROVE  held' \in Int /\ worker' \in WorkerState /\ worker'.pc = "idle"
BY IdleTyped DEF Release

LEMMA TypedWork ==
  ASSUME Typed, Work
  PROVE  Typed'
<1> USE DEF Typed
<1>w. worker \in WorkerState /\ worker.n \in Counts /\ held \in Int
  BY DEF TypeOK, WorkerState
<1>1. CASE Dequeue
  <2>1. UNCHANGED <<jobs, facts, hash, sess, up, build, handler, resuming, held, sigterm,
                    accepted, spent>>
    BY <1>1 DEF Dequeue, db, proc
  <2>2. JobId' = JobId /\ \A j \in JobId : ReqOf(j)' = ReqOf(j)
    BY <2>1, SameRows
  <2>3. JobId \subseteq Nat
    BY LenProperties DEF TypeOK, JobId
  <2>4. queue' \in Seq(JobId) /\ Head(queue) \in JobId
    BY <1>1, HeadTailProperties DEF Dequeue, TypeOK
  <2>5. worker' \in WorkerState /\ worker'.pc = "begin" /\ worker'.job = Head(queue)
    <3>1. Head(queue) \in Nat
      BY <2>3, <2>4
    <3> QED BY <1>1, <3>1, IdleTyped DEF Dequeue, WorkerState
  <2>6. up
    BY <1>1 DEF Dequeue, Working
  <2>7. TypeOK'
    BY <2>1, <2>2, <2>4, <2>5 DEF TypeOK
  <2>8. Control'
    BY <2>1, <2>2, <2>4, <2>5, <2>6 DEF Control
  <2> QED BY <2>7, <2>8
<1>2. CASE WorkerExit
  <2>1. worker' \in WorkerState /\ worker'.pc = "exited"
    BY <1>w, <1>2, StepTyped DEF WorkerExit
  <2> QED BY <1>2, <2>1, WorkerAlone DEF WorkerExit, Working
<1>3. CASE BeginJob
  <2>1. worker.job \in JobId
    BY <1>3 DEF BeginJob, Working, Control
  <2>2. ResumeAt(worker.job) \in Counts
    BY <2>1, RowTyped DEF ResumeAt
  <2>3. /\ worker' \in WorkerState /\ worker'.pc = "loop" /\ worker'.job = worker.job
    BY <1>w, <1>3, <2>2 DEF BeginJob, WorkerState
  <2>4. "running" \in Live \cup Terminal
    BY DEF Live
  <2> QED BY <1>w, <1>3, <2>1, <2>2, <2>3, <2>4, WorkerFlushes DEF BeginJob, Working
<1>4. CASE RefuseRecut
  <2>1. worker.job \in JobId
    BY <1>4 DEF RefuseRecut, Working, Control
  <2>2. ResumeAt(worker.job) \in Counts
    BY <2>1, RowTyped DEF ResumeAt
  <2>3. "failed" \in Live \cup Terminal
    BY DEF Terminal
  <2> QED BY <1>w, <1>4, <2>2, <2>3, ReleaseTyped, WorkerFlushes DEF RefuseRecut, Working
<1>5. CASE WallTimeout
  <2>1. /\ worker' \in WorkerState /\ worker'.pc = "report" /\ worker'.job = worker.job
        /\ worker'.outcome = "failed"
    BY <1>w, <1>5 DEF WallTimeout, WorkerState, Terminal
  <2>2. "failed" \in Terminal
    BY DEF Terminal
  <2> QED BY <1>5, <2>1, <2>2, WorkerAlone DEF WallTimeout, Working
<1>6. CASE PauseBetween \/ PauseInside
  <2>1. worker' \in WorkerState /\ worker'.pc = "pause" /\ worker'.job = worker.job
    BY <1>w, <1>6, StepTyped DEF PauseBetween, PauseInside
  <2> QED BY <1>6, <2>1, WorkerAlone DEF PauseBetween, PauseInside, Working
<1>7. CASE SkipBlank
  <2>1. worker' \in WorkerState /\ worker'.pc = "flush" /\ worker'.job = worker.job
    BY <1>w, <1>7, EarTyped, CountTyped DEF SkipBlank
  <2> QED BY <1>7, <2>1, WorkerAlone DEF SkipBlank, Working
<1>8. CASE StartExtract
  <2>1. worker' \in WorkerState /\ worker'.pc = "extract" /\ worker'.job = worker.job
    BY <1>w, <1>8, EarTyped DEF StartExtract, WorkerState
  <2> QED BY <1>8, <2>1, WorkerAlone DEF StartExtract, Working
<1>9. CASE StoreChunk
  <2>1. worker' \in WorkerState /\ worker'.pc = "flush" /\ worker'.job = worker.job
    BY <1>w, <1>9, EarTyped, CountTyped DEF StoreChunk
  <2>2. UNCHANGED <<jobs, hash, sess, up, build, handler, queue, resuming, held, sigterm,
                    accepted, spent>>
    BY <1>9 DEF StoreChunk, proc
  <2>3. JobId' = JobId /\ \A j \in JobId : ReqOf(j)' = ReqOf(j)
    BY <2>2, SameRows
  <2>4. facts' \in Seq([Piece -> Nat]) /\ Len(facts') = Len(jobs)
    <3>1. facts \in [DOMAIN facts -> [Piece -> Nat]]
      BY LenProperties DEF TypeOK
    <3>2. worker.job \in DOMAIN facts
      BY <1>9, LenProperties DEF StoreChunk, Working, Control, JobId, TypeOK
    <3>3. facts' \in [DOMAIN facts -> [Piece -> Nat]]
      BY <1>9, <3>1, <3>2, StoredMore DEF StoreChunk
    <3> QED BY <3>3, SameShape DEF TypeOK
  <2>5. TypeOK'
    BY <2>1, <2>2, <2>3, <2>4 DEF TypeOK
  <2>6. worker.pc = "extract" /\ up
    BY <1>9 DEF StoreChunk, Working
  <2>7. Control'
    BY <2>1, <2>2, <2>3, <2>6 DEF Control
  <2> QED BY <2>5, <2>7
<1>10. CASE ChunkFails
  <2>1. worker' \in WorkerState /\ worker'.pc = "flush" /\ worker'.job = worker.job
    BY <1>w, <1>10, EarTyped, CountTyped DEF ChunkFails
  <2> QED BY <1>10, <2>1, WorkerAlone DEF ChunkFails, Working
<1>11. CASE FlushProgress
  <2>1. worker' \in WorkerState /\ worker'.pc = "loop" /\ worker'.job = worker.job
    BY <1>w, <1>11, StepTyped DEF FlushProgress
  <2>2. worker.job \in JobId
    BY <1>11 DEF FlushProgress, Working, Control
  <2>3. "running" \in Live \cup Terminal
    BY DEF Live
  <2> QED BY <1>w, <1>11, <2>1, <2>2, <2>3, WorkerFlushes DEF FlushProgress, Working
<1>12. CASE FlushPause
  <2>1. "pending" \in Live \cup Terminal
    BY DEF Live
  <2> QED BY <1>w, <1>12, <2>1, ReleaseTyped, WorkerFlushes DEF FlushPause, Working
<1>13. CASE EndLoop
  <2>1. Outcome(worker.n) \in Terminal
    BY DEF Outcome, Terminal
  <2>2. /\ worker' \in WorkerState /\ worker'.job = worker.job
        /\ worker'.outcome = Outcome(worker.n)
        /\ worker'.pc = IF Outcome(worker.n) = "done" THEN "stamp" ELSE "report"
    BY <1>w, <1>13, <2>1 DEF EndLoop, WorkerState
  <2> QED BY <1>13, <2>1, <2>2, WorkerAlone DEF EndLoop, Working
<1>14. CASE StampHash
  <2>1. worker.pc = "stamp" /\ worker.job \in JobId /\ worker.outcome = "done" /\ up
    BY <1>14 DEF StampHash, Working, Control
  <2>2. UNCHANGED <<jobs, facts, sess, up, build, handler, queue, resuming, held, sigterm,
                    accepted>>
    BY <1>14 DEF StampHash, proc
  <2>3. JobId' = JobId /\ \A j \in JobId : ReqOf(j)' = ReqOf(j)
    BY <2>2, SameRows
  <2>4. worker' \in WorkerState /\ worker'.pc \in {"confirm", "report"}
        /\ worker'.job = worker.job /\ worker'.outcome = "done"
    BY <1>w, <1>14, <2>1, StepTyped DEF StampHash
  <2>5. ReqOf(worker.job).content \in Content
    BY <2>1 DEF Control
  <2>6. hash' \in [Doc -> Content \cup {NoHash}] /\ spent' \in Spending
    BY <1>14, <2>5, FaultTyped DEF StampHash, TypeOK
  <2>7. TypeOK'
    BY <2>2, <2>3, <2>4, <2>6 DEF TypeOK
  <2>8. Control'
    BY <2>1, <2>2, <2>3, <2>4 DEF Control, Terminal
  <2> QED BY <2>7, <2>8
<1>15. CASE ConfirmOffset
  <2>1. worker.pc = "confirm" /\ worker.job \in JobId /\ worker.outcome = "done" /\ up
    BY <1>15 DEF ConfirmOffset, Working, Control
  <2>2. UNCHANGED <<jobs, facts, hash, up, build, handler, queue, resuming, held, sigterm,
                    accepted>>
    BY <1>15 DEF ConfirmOffset, proc
  <2>3. JobId' = JobId /\ \A j \in JobId : ReqOf(j)' = ReqOf(j)
    BY <2>2, SameRows
  <2>4. worker' \in WorkerState /\ worker'.pc = "report"
        /\ worker'.job = worker.job /\ worker'.outcome = "done"
    BY <1>w, <1>15, <2>1, StepTyped DEF ConfirmOffset
  <2>5. ReqOf(worker.job) \in Request
    BY <2>1, RowTyped DEF ReqOf, JobRow
  <2>6. ConfirmRange(sess[ReqOf(worker.job).session], ReqOf(worker.job).from,
                     ReqOf(worker.job).to) \in SessionRow
    BY <2>5, RequestTyped, UpsertTyped DEF ConfirmRange, TypeOK
  <2>7. sess' \in [Session -> SessionRow] /\ spent' \in Spending
    BY <1>15, <2>5, <2>6, RequestTyped, FaultTyped DEF ConfirmOffset, TypeOK
  <2>8. TypeOK'
    BY <2>2, <2>3, <2>4, <2>7 DEF TypeOK
  <2>9. Control'
    BY <2>1, <2>2, <2>3, <2>4 DEF Control, Terminal
  <2> QED BY <2>8, <2>9
<1>16. CASE ReportOutcome
  <2>1. worker.outcome \in Live \cup Terminal
    BY <1>16 DEF ReportOutcome, Working, Control
  <2> QED BY <1>w, <1>16, <2>1, ReleaseTyped, WorkerFlushes DEF ReportOutcome, Working
<1> QED
  BY <1>1, <1>2, <1>3, <1>4, <1>5, <1>6, <1>7, <1>8, <1>9, <1>10, <1>11, <1>12, <1>13,
     <1>14, <1>15, <1>16 DEF Work

(***************************************************************************)
(* The process.                                                            *)
(***************************************************************************)
\* What startup does to the rows.
LEMMA StartKeeps ==
  ASSUME TypeOK, Start
  PROVE  /\ Kept(jobs, jobs') /\ resuming' \subseteq JobId /\ spent' \in Spending
         /\ build' \in Version /\ (Rollback \/ build' >= build)
<1>0. jobs \in Seq(JobRow) /\ JobId = DOMAIN jobs
  BY DEF TypeOK, JobId
<1>1. Kept(jobs, FailStale(jobs)) /\ FailStale(jobs) \in Seq(JobRow)
      /\ DOMAIN FailStale(jobs) = DOMAIN jobs
  BY <1>0, FailStaleKeeps, SameShape DEF Kept
<1>2. \A bad : /\ Kept(jobs, Requeued(FailStale(jobs), bad))
               /\ Kept(jobs, Requeued(jobs, bad))
  BY <1>0, <1>1, RequeuedKeeps, KeptTrans
<1>3. Kept(jobs, FailUnfinished(FailStale(jobs)))
  BY <1>0, <1>1, FailUnfinishedKeeps, KeptTrans
<1>4. \A j \in JobId : \A new : Kept(jobs, new) => Kept(jobs, [new EXCEPT ![j] = jobs[j]])
  BY <1>0, LenProperties DEF Kept
<1>5. \A bad : Admitted(jobs, bad) \subseteq JobId
  BY DEF Admitted, Resumable, JobId
<1>6. Resumable(jobs) \subseteq JobId
  BY DEF Resumable, JobId
<1>7. build' \in Version /\ (Rollback \/ build' >= build)
  BY DEF Start
<1>8. Kept(jobs, jobs') /\ resuming' \subseteq JobId /\ spent' \in Spending
  BY <1>2, <1>3, <1>4, <1>5, <1>6, FaultTyped DEF Start, TypeOK
<1> QED BY <1>7, <1>8

LEMMA TypedProcess ==
  ASSUME Typed,
         Sigterm \/ Exit \/ Kill \/ Start \/ SendResumed \/ \E s \in Session : ExpireSession(s)
  PROVE  Typed'
<1> USE DEF Typed
<1>1. CASE Sigterm
  <2>1. JobId' = JobId /\ \A j \in JobId : ReqOf(j)' = ReqOf(j)
    BY <1>1, SameRows DEF Sigterm, db
  <2>2. spent' \in Spending
    BY <1>1, TermTyped DEF Sigterm, TypeOK
  <2>3. TypeOK'
    BY <1>1, <2>1, <2>2 DEF Sigterm, TypeOK, db, proc
  <2>4. Control'
    BY <1>1, <2>1 DEF Sigterm, Control, db, proc
  <2> QED BY <2>3, <2>4
<1>2. CASE Exit \/ Kill
  <2>1. UNCHANGED <<jobs, facts, hash, sess, build, accepted>>
    BY <1>2 DEF Exit, Kill, db
  <2>2. JobId' = JobId /\ \A j \in JobId : ReqOf(j)' = ReqOf(j)
    BY <2>1, SameRows
  <2>3. spent' \in Spending
    BY <1>2, KillTyped DEF Exit, Kill, TypeOK
  <2>4. Die
    BY <1>2 DEF Exit, Kill
  <2>5. /\ handler' \in [Client -> HandlerState] /\ \A c \in Client : handler'[c].pc = "idle"
        /\ worker' \in WorkerState /\ worker'.pc = "idle"
        /\ resuming' = {} /\ held' = 0
    BY <2>4, IdleTyped DEF Die
  <2>6. queue' \in Seq(JobId')
    BY <2>4, EmptySeq DEF Die
  <2>7. up' \in BOOLEAN /\ sigterm' \in BOOLEAN
    BY Zenon, <2>4 DEF Die
  <2>8. TypeOK'
    BY <2>1, <2>2, <2>3, <2>5, <2>6, <2>7 DEF TypeOK
  <2>9. Control'
    BY <2>1, <2>2, <2>5 DEF Control
  <2> QED BY <2>8, <2>9
<1>3. CASE Start
  <2>1. Kept(jobs, jobs') /\ resuming' \subseteq JobId /\ spent' \in Spending
        /\ build' \in Version
    BY <1>3, StartKeeps
  <2>2. /\ jobs' \in Seq(JobRow) /\ Len(jobs') = Len(jobs) /\ JobId' = JobId
        /\ \A j \in JobId : ReqOf(j)' = ReqOf(j)
    BY <2>1, SameIds DEF Kept, JobId
  <2>3. UNCHANGED <<facts, hash, handler, queue, sigterm, worker, accepted>>
    BY <1>3 DEF Start
  <2>4. sess' \in [Session -> SessionRow]
    BY <1>3 DEF Start, TypeOK, SessionRow
  <2>5. held' \in Int
    <3>1. IsFiniteSet(JobId)
      BY LenProperties, FS_Interval DEF TypeOK, JobId
    <3>2. IsFiniteSet(resuming')
      BY <2>1, <3>1, FS_Subset
    <3> QED BY <1>3, <3>2, FS_CardinalityType DEF Start
  <2>6. up' \in BOOLEAN /\ up'
    BY Zenon, <1>3 DEF Start
  <2>7. TypeOK'
    BY <2>1, <2>2, <2>3, <2>4, <2>5, <2>6 DEF TypeOK
  <2>8. Control'
    BY <2>2, <2>3, <2>6 DEF Control
  <2> QED BY <2>7, <2>8
<1>4. CASE SendResumed
  <2>1. UNCHANGED <<jobs, facts, hash, sess, up, build, handler, held, sigterm, worker,
                    accepted, spent>>
    BY <1>4 DEF SendResumed, db, proc
  <2>2. JobId' = JobId /\ \A j \in JobId : ReqOf(j)' = ReqOf(j)
    BY <2>1, SameRows
  <2>3. queue' \in Seq(JobId) /\ resuming' \subseteq JobId
    BY <1>4, AppendProperties DEF SendResumed, TypeOK
  <2>4. TypeOK'
    BY <2>1, <2>2, <2>3 DEF TypeOK
  <2>5. Control'
    BY <2>1, <2>2 DEF Control
  <2> QED BY <2>4, <2>5
<1>5. ASSUME NEW s \in Session, ExpireSession(s) PROVE Typed'
  <2>1. UNCHANGED <<jobs, facts, hash, handler, queue, resuming, held, sigterm, worker,
                    up, build, accepted, spent>>
    BY <1>5 DEF ExpireSession, ram, proc
  <2>2. JobId' = JobId /\ \A j \in JobId : ReqOf(j)' = ReqOf(j)
    BY <2>1, SameRows
  <2>3. NoRow \in SessionRow
    BY DEF NoRow, SessionRow
  <2>4. sess' \in [Session -> SessionRow]
    BY <1>5, <2>3 DEF ExpireSession, TypeOK
  <2>5. TypeOK'
    BY <2>1, <2>2, <2>4 DEF TypeOK
  <2>6. Control'
    BY <2>1, <2>2 DEF Control
  <2> QED BY <2>5, <2>6
<1> QED BY <1>1, <1>2, <1>3, <1>4, <1>5

LEMMA TypedStep == Typed /\ [Next]_vars => Typed'
<1>1. ASSUME Typed, UNCHANGED vars PROVE Typed'
  <2>1. UNCHANGED <<jobs, facts, hash, sess, handler, queue, resuming, held, sigterm, worker,
                    up, build, accepted, spent>>
    BY <1>1 DEF vars, db, ram, proc
  <2>2. JobId' = JobId /\ \A j \in JobId : ReqOf(j)' = ReqOf(j)
    BY <2>1, SameRows
  <2>3. TypeOK'
    BY <1>1, <2>1, <2>2 DEF Typed, TypeOK
  <2>4. Control'
    BY <1>1, <2>1, <2>2 DEF Typed, Control
  <2> QED BY <2>3, <2>4 DEF Typed
<1> QED
  BY <1>1, TypedHandle, TypedClient, TypedWork, TypedProcess DEF Next

\* Every variable keeps its type: ids stay ids of rows, a document's hash is
\* a content, the cursors are naturals, through every handler, worker and
\* process step and for any bounds.
THEOREM TypeCorrect == Spec => []TypeOK
<1>1. Spec => []Typed
  BY TypedInit, TypedStep, PTL DEF Spec
<1>2. Typed => TypeOK
  BY DEF Typed
<1> QED BY <1>1, <1>2, PTL

-----------------------------------------------------------------------------
(***************************************************************************)
(* What is marked as ingested is ingested.  The argument is an inductive   *)
(* invariant on the chunk counters: the counters of a row, and of the      *)
(* worker, stand for text that is in the store.  It needs builds that only *)
(* move forward (~Rollback): see MCRetain_rollback for why.                *)
(***************************************************************************)

\* Nothing was planned by a build that is yet to come.
Planned == \A j \in JobId : jobs[j].planned <= build

\* A job about to be marked complete is complete.
WorkerIsDone ==
  worker.pc \in {"stamp", "confirm"} \/ (worker.pc = "report" /\ worker.outcome = "done")
    => Whole(worker.job)

Ingest == Typed /\ Planned /\ ResumeIsSound /\ WorkerIsDone
            /\ DoneMeansIngested /\ HashMeansIngested

-----------------------------------------------------------------------------
(***************************************************************************)
(* Text and chunks.                                                        *)
(***************************************************************************)
LEMMA ChunksTyped ==
  ASSUME NEW c \in Content, NEW v \in Version
  PROVE  /\ Cuts[v][c] \in Seq(SUBSET Piece)
         /\ \A i \in DOMAIN Cuts[v][c] : Cuts[v][c][i] \subseteq Piece
<1>1. Cuts[v][c] \in Seq(SUBSET Piece)
  BY CutsAssumption
<1> QED BY <1>1, LenProperties

\* All builds agree on the text of a transcript.
LEMMA TextOfAnyBuild ==
  ASSUME NEW c \in Content, NEW v \in Version
  PROVE  Text(c) = TextCut(v, c)
<1> DEFINE w == CHOOSE w \in Version : TRUE
<1>1. w \in Version
  BY CutsAssumption
<1>2. Text(c) = TextCut(w, c)
  BY DEF Text
<1> HIDE DEF w
<1> QED BY <1>1, <1>2, CutsAssumption

LEMMA TextTyped ==
  ASSUME NEW c \in Content
  PROVE  Text(c) \subseteq Piece
<1>1. PICK v \in Version : TRUE
  BY CutsAssumption
<1>2. TextCut(v, c) \subseteq Piece
  BY ChunksTyped DEF TextCut
<1> QED BY <1>1, <1>2, TextOfAnyBuild

LEMMA AllChunksAreTheText ==
  ASSUME NEW f, NEW c \in Content, NEW v \in Version, NEW k \in Nat,
         k >= Len(Cuts[v][c]), FirstStored(f, Cuts[v][c], k)
  PROVE  Stored(f, Text(c))
<1>1. Cuts[v][c] \in Seq(SUBSET Piece)
  BY ChunksTyped
<1>2. DOMAIN Cuts[v][c] = 1..Len(Cuts[v][c]) /\ Len(Cuts[v][c]) \in Nat
  BY <1>1, LenProperties
<1>3. \A i \in DOMAIN Cuts[v][c] : Stored(f, Cuts[v][c][i])
  BY <1>2 DEF FirstStored
<1> QED BY <1>3, TextOfAnyBuild DEF Stored, TextCut

LEMMA StoredGrows ==
  ASSUME NEW f, NEW g, NEW P, P \subseteq Piece,
         f \in [Piece -> Nat], g \in [Piece -> Nat], \A p \in Piece : g[p] >= f[p],
         Stored(f, P)
  PROVE  Stored(g, P)
BY DEF Stored

LEMMA FirstStoredGrows ==
  ASSUME NEW f \in [Piece -> Nat], NEW g \in [Piece -> Nat],
         \A p \in Piece : g[p] >= f[p],
         NEW c \in Content, NEW v \in Version, NEW k, FirstStored(f, Cuts[v][c], k)
  PROVE  FirstStored(g, Cuts[v][c], k)
BY ChunksTyped, StoredGrows DEF FirstStored

LEMMA NoneStored ==
  ASSUME NEW f, NEW c \in Content, NEW v \in Version
  PROVE  FirstStored(f, Cuts[v][c], 0)
<1>1. Cuts[v][c] \in Seq(SUBSET Piece)
  BY ChunksTyped
<1>2. \A i \in DOMAIN Cuts[v][c] : ~(i <= 0)
  BY <1>1, LenProperties
<1> QED BY <1>2 DEF FirstStored

LEMMA OneMoreStored ==
  ASSUME NEW f, NEW c \in Content, NEW v \in Version, NEW k \in Nat,
         FirstStored(f, Cuts[v][c], k),
         k + 1 \in DOMAIN Cuts[v][c] => Stored(f, Cuts[v][c][k + 1])
  PROVE  FirstStored(f, Cuts[v][c], k + 1)
<1>1. Cuts[v][c] \in Seq(SUBSET Piece)
  BY ChunksTyped
<1>2. DOMAIN Cuts[v][c] \subseteq Nat
  BY <1>1, LenProperties
<1> QED BY <1>2 DEF FirstStored

-----------------------------------------------------------------------------
(***************************************************************************)
(* A step that adds no row: what has to be shown of it.                    *)
(***************************************************************************)
LEMMA FactsTyped ==
  ASSUME TypeOK, NEW j \in JobId
  PROVE  facts[j] \in [Piece -> Nat]
BY LenProperties, ElementOfSeq DEF TypeOK, JobId

\* Stored text stays stored.
LEMMA WholeStays ==
  ASSUME Typed, Typed', NEW j \in JobId, j \in JobId', ReqOf(j)' = ReqOf(j),
         \A p \in Piece : facts'[j][p] >= facts[j][p]
  PROVE  /\ Whole(j) => Whole(j)'
         /\ \A v \in Version, k \in Nat :
              Covers(j, v, k) => FirstStored(facts'[j], Cuts[v][ReqOf(j)'.content], k)
<1>1. facts[j] \in [Piece -> Nat] /\ facts'[j] \in [Piece -> Nat]
  BY FactsTyped DEF Typed, TypeOK, JobId
<1>2. ReqOf(j).content \in Content
  BY DEF Typed, Control
<1>3. Whole(j) => Whole(j)'
  BY <1>1, <1>2, TextTyped, StoredGrows DEF Whole
<1>4. \A v \in Version, k \in Nat :
        Covers(j, v, k) => FirstStored(facts'[j], Cuts[v][ReqOf(j)'.content], k)
  BY <1>1, <1>2, FirstStoredGrows DEF Covers
<1> QED BY <1>3, <1>4

\* A step that adds no row keeps the invariant if what the new rows, the worker
\* and the new hashes claim was so before it, or is so after it.
LEMMA IngestStep ==
  ASSUME Ingest, Typed', JobId' = JobId, build <= build',
         \A j \in JobId : /\ jobs'[j].req = jobs[j].req
                          /\ jobs'[j].planned = jobs[j].planned,
         \A j \in JobId, p \in Piece : facts'[j][p] >= facts[j][p],
         \A j \in JobId :
           jobs'[j].n.failed = 0 =>
             jobs'[j].n = jobs[j].n \/ Covers(j, build, Tried(jobs'[j].n)),
         \A j \in JobId :
           jobs'[j].status = "done" => jobs[j].status = "done" \/ Whole(j),
         \A d \in Doc :
           hash'[d] # NoHash =>
             \/ hash'[d] = hash[d]
             \/ \E j \in JobId : ReqOf(j).doc = d /\ ReqOf(j).content = hash'[d] /\ Whole(j),
         WorkerIsSound', WorkerIsDone'
  PROVE  Ingest'
<1> USE DEF Ingest
<1>1. \A j \in JobId : ReqOf(j)' = ReqOf(j)
  BY DEF ReqOf
<1>2. /\ \A j \in JobId : Whole(j) => Whole(j)'
      /\ \A j \in JobId, v \in Version, k \in Nat :
           Covers(j, v, k) => FirstStored(facts'[j], Cuts[v][ReqOf(j)'.content], k)
  BY <1>1, WholeStays
<1>3. build \in Nat /\ build' \in Nat /\ build \in Version /\ Version \subseteq Nat
  BY CutsAssumption DEF Typed, TypeOK
<1>4. \A j \in JobId : /\ jobs[j].planned \in Nat /\ Tried(jobs[j].n) \in Nat
                       /\ Tried(jobs'[j].n) \in Nat
  <2>1. \A j \in JobId : jobs[j].n \in Counts /\ jobs[j].planned \in Version
    BY RowTyped DEF Typed
  <2>2. \A j \in JobId : jobs'[j].n \in Counts
    <3>1. jobs' \in Seq(JobRow) /\ DOMAIN jobs' = JobId
      BY DEF Typed, TypeOK, JobId
    <3> QED BY <3>1, RowInTable
  <2> QED BY <2>1, <2>2, <1>3, BumpTyped
<1>5. Planned'
  BY <1>3, <1>4 DEF Planned
<1>6. RowsAreSound'
  <2> SUFFICES ASSUME NEW j \in JobId, jobs'[j].n.failed = 0
               PROVE  \E v \in Version :
                        /\ jobs'[j].planned <= v /\ v <= build'
                        /\ FirstStored(facts'[j], Cuts[v][ReqOf(j)'.content], Tried(jobs'[j].n))
    BY DEF RowsAreSound, Covers
  <2>1. CASE jobs'[j].n = jobs[j].n
    <3>1. PICK v \in Version : /\ jobs[j].planned <= v /\ v <= build
                               /\ Covers(j, v, Tried(jobs[j].n))
      BY <2>1 DEF ResumeIsSound, RowsAreSound
    <3>2. v <= build'
      BY <1>3, <3>1
    <3>3. FirstStored(facts'[j], Cuts[v][ReqOf(j)'.content], Tried(jobs'[j].n))
      BY <1>2, <1>4, <2>1, <3>1
    <3> QED BY <3>1, <3>2, <3>3
  <2>2. CASE Covers(j, build, Tried(jobs'[j].n))
    <3>1. FirstStored(facts'[j], Cuts[build][ReqOf(j)'.content], Tried(jobs'[j].n))
      BY <1>2, <1>3, <1>4, <2>2
    <3>2. jobs'[j].planned <= build
      BY DEF Planned
    <3> QED BY <1>3, <3>1, <3>2
  <2> QED BY <2>1, <2>2
<1>7. DoneMeansIngested'
  BY <1>2 DEF DoneMeansIngested
<1>8. HashMeansIngested'
  <2> SUFFICES ASSUME NEW d \in Doc, hash'[d] # NoHash
               PROVE  \E j \in JobId : /\ ReqOf(j)'.doc = d /\ ReqOf(j)'.content = hash'[d]
                                       /\ Whole(j)'
    BY DEF HashMeansIngested
  <2>1. PICK j \in JobId : ReqOf(j).doc = d /\ ReqOf(j).content = hash'[d] /\ Whole(j)
    BY DEF HashMeansIngested
  <2> QED BY <1>1, <1>2, <2>1
<1> QED BY <1>5, <1>6, <1>7, <1>8 DEF ResumeIsSound

\* A step that leaves rows, facts, hashes, worker and build alone.
LEMMA IngestUnmoved ==
  ASSUME Ingest, Typed', UNCHANGED <<jobs, facts, hash, build, worker>>
  PROVE  Ingest'
<1>1. /\ \A j, v, k : Covers(j, v, k)' <=> Covers(j, v, k)
      /\ \A j : (Whole(j)' <=> Whole(j)) /\ ReqOf(j)' = ReqOf(j)
      /\ JobId' = JobId
  BY DEF Covers, Whole, ReqOf, JobId
<1> QED
  BY <1>1 DEF Ingest, Planned, ResumeIsSound, RowsAreSound, WorkerIsSound, WorkerIsDone,
              DoneMeansIngested, HashMeansIngested, Covers, Whole, ReqOf, JobId

LEMMA IngestInit == Init => Ingest
<1> SUFFICES ASSUME Init PROVE Ingest
  OBVIOUS
<1>1. Typed
  BY TypedInit
<1>2. JobId = {} /\ worker.pc = "idle" /\ \A d \in Doc : hash[d] = NoHash
  BY IdleTyped DEF Init, JobId
<1> QED
  BY <1>1, <1>2 DEF Ingest, Planned, ResumeIsSound, RowsAreSound, WorkerIsSound, WorkerIsDone,
                    DoneMeansIngested, HashMeansIngested

-----------------------------------------------------------------------------
(***************************************************************************)
(* The steps.                                                              *)
(***************************************************************************)
\* A step that leaves facts, worker and build alone keeps the worker's claims.
LEMMA WorkerUnmoved ==
  ASSUME Ingest, UNCHANGED <<facts, build, worker>>,
         worker.job \in JobId => ReqOf(worker.job)' = ReqOf(worker.job)
  PROVE  WorkerIsSound' /\ WorkerIsDone'
<1>1. worker.pc \notin {"idle", "exited"} => worker.job \in JobId
  BY DEF Ingest, Typed, Control
<1> QED
  BY <1>1 DEF Ingest, ResumeIsSound, WorkerIsSound, WorkerIsDone, Covers, Whole

\* An idle worker claims nothing.
LEMMA WorkerFreed ==
  ASSUME worker'.pc \in {"idle", "begin", "exited"}
  PROVE  WorkerIsSound' /\ WorkerIsDone'
BY DEF WorkerIsSound, WorkerIsDone

LEMMA IngestInsert ==
  ASSUME Ingest, Typed', NEW c \in Client, InsertJob(c)
  PROVE  Ingest'
<1> USE DEF Ingest
<1>1. CASE UNCHANGED <<jobs, facts>>
  BY <1>1, IngestUnmoved DEF InsertJob, proc
<1>2. ASSUME jobs' = Append(jobs, [status |-> "pending", req |-> handler[c].req,
                                   task |-> FALSE, planned |-> build, n |-> NoCounts]),
             facts' = Append(facts, [p \in Piece |-> 0])
      PROVE  Ingest'
  <2> DEFINE row == [status |-> "pending", req |-> handler[c].req,
                     task |-> FALSE, planned |-> build, n |-> NoCounts]
  <2>0. PICK new : new = Len(jobs) + 1
    OBVIOUS
  <2>1. UNCHANGED <<hash, worker, build>>
    BY DEF InsertJob, proc
  <2>2. /\ Len(jobs) \in Nat /\ JobId = 1..Len(jobs) /\ Len(facts) = Len(jobs)
        /\ Len(jobs') \in Nat /\ JobId' = 1..Len(jobs') /\ Len(facts') = Len(jobs')
    BY LenProperties DEF Typed, TypeOK, JobId
  <2>3. row \in JobRow
    BY RowTyped DEF Typed, TypeOK, HandlerState, JobRow, Live, Counts, NoCounts
  <2>4. /\ Len(jobs') = new /\ jobs'[new] = row
        /\ \A i \in 1..Len(jobs) : jobs'[i] = jobs[i]
    BY <1>2, <2>0, <2>3, AppendProperties DEF Typed, TypeOK
  <2>5. \A i \in 1..Len(facts) : facts'[i] = facts[i]
    <3>1. [p \in Piece |-> 0] \in [Piece -> Nat]
      OBVIOUS
    <3> QED BY <1>2, <3>1, AppendProperties DEF Typed, TypeOK
  <2>6. \A j \in JobId : /\ j \in JobId' /\ ReqOf(j)' = ReqOf(j) /\ jobs'[j] = jobs[j]
                         /\ (Whole(j)' <=> Whole(j))
                         /\ \A v, k : Covers(j, v, k)' <=> Covers(j, v, k)
    BY <2>0, <2>2, <2>4, <2>5 DEF ReqOf, Whole, Covers
  <2>7. \A j \in JobId' : j \in JobId \/ j = new
    BY <2>0, <2>2, <2>4
  <2>8. worker.pc \notin {"idle", "exited"} => worker.job \in JobId
    BY DEF Typed, Control
  <2>9. build \in Version /\ build \in Nat
    BY CutsAssumption DEF Typed, TypeOK
  <2>10. Planned'
    BY <2>1, <2>4, <2>6, <2>7, <2>9 DEF Planned
  <2>11. WorkerIsSound' /\ WorkerIsDone'
    BY <2>1, <2>6, <2>8 DEF ResumeIsSound, WorkerIsSound, WorkerIsDone
  <2>12. RowsAreSound'
    <3> DEFINE Sound(j) ==
          \E v \in Version :
            /\ jobs'[j].planned <= v /\ v <= build'
            /\ FirstStored(facts'[j], Cuts[v][jobs'[j].req.content], Tried(jobs'[j].n))
    <3>1. ASSUME NEW j \in JobId, jobs'[j].n.failed = 0
          PROVE  Sound(j)
      <4>1. PICK v \in Version : /\ jobs[j].planned <= v /\ v <= build
                                 /\ Covers(j, v, Tried(jobs[j].n))
        BY <2>6, <3>1 DEF ResumeIsSound, RowsAreSound
      <4>2. FirstStored(facts'[j], Cuts[v][jobs'[j].req.content], Tried(jobs'[j].n))
        BY <2>2, <2>5, <2>6, <4>1 DEF Covers, ReqOf
      <4> QED BY <2>1, <2>6, <4>1, <4>2
    <3>2. Sound(new)
      <4>1. Tried(row.n) = 0 /\ row.planned = build
        BY DEF Tried, NoCounts
      <4>2. jobs'[new].req.content \in Content
        BY <2>0, <2>2, <2>4 DEF Typed, Control, ReqOf
      <4>3. FirstStored(facts'[new], Cuts[build][jobs'[new].req.content], Tried(jobs'[new].n))
        BY <2>4, <2>9, <4>1, <4>2, NoneStored
      <4> QED BY <2>1, <2>4, <2>9, <4>1, <4>3
    <3> HIDE DEF Sound
    <3>3. \A j \in JobId' : jobs'[j].n.failed = 0 => Sound(j)
      BY <2>7, <3>1, <3>2
    <3> QED BY <3>3 DEF Sound, RowsAreSound, Covers, ReqOf
  <2>13. DoneMeansIngested'
    <3>1. row.status # "done"
      OBVIOUS
    <3> QED BY <2>4, <2>6, <2>7, <3>1 DEF DoneMeansIngested
  <2>14. HashMeansIngested'
    BY <2>1, <2>6 DEF HashMeansIngested
  <2> QED BY <2>10, <2>11, <2>12, <2>13, <2>14 DEF ResumeIsSound
<1> QED BY <1>1, <1>2 DEF InsertJob

\* What Flush does to the rows.
LEMMA FlushRows ==
  ASSUME Typed, NEW status \in Live \cup Terminal, NEW n \in Counts, Flush(status, n)
  PROVE  /\ JobId' = JobId
         /\ \A j \in JobId : /\ jobs'[j].req = jobs[j].req
                             /\ jobs'[j].planned = jobs[j].planned
                             /\ \/ jobs'[j] = jobs[j]
                                \/ /\ j = worker.job
                                   /\ jobs'[j].status = status /\ jobs'[j].n = n
<1> USE DEF Typed
<1>1. JobId' = JobId
  BY FlushTyped
<1>2. CASE jobs' = Written(jobs, worker.job, status, n)
  <2>1. jobs \in Seq(JobRow) /\ worker.job \in Nat /\ JobId = DOMAIN jobs
    BY DEF TypeOK, WorkerState, JobId
  <2>2. \A i \in DOMAIN jobs :
          /\ Written(jobs, worker.job, status, n)[i].req = jobs[i].req
          /\ Written(jobs, worker.job, status, n)[i].planned = jobs[i].planned
          /\ i # worker.job => Written(jobs, worker.job, status, n)[i] = jobs[i]
          /\ i = worker.job =>
               /\ Written(jobs, worker.job, status, n)[i].status = status
               /\ Written(jobs, worker.job, status, n)[i].n = n
    BY <2>1, WrittenRows
  <2> QED BY <1>1, <1>2, <2>1, <2>2
<1>3. CASE UNCHANGED jobs
  BY <1>1, <1>3
<1> QED BY <1>2, <1>3 DEF Flush

LEMMA FactsStay ==
  ASSUME TypeOK, UNCHANGED facts
  PROVE  \A j \in JobId, p \in Piece : facts'[j][p] >= facts[j][p]
<1>1. \A j \in JobId : facts[j] \in [Piece -> Nat]
  BY FactsTyped
<1> QED BY <1>1

LEMMA IngestHandle ==
  ASSUME Ingest, NEW c \in Client, Handle(c)
  PROVE  Ingest'
<1> USE DEF Ingest
<1>t. Typed'
  BY TypedHandle
<1>v. build \in Version /\ build \in Nat
  BY CutsAssumption DEF Typed, TypeOK
<1>1. CASE UpsertDocument(c)
  <2>1. UNCHANGED <<jobs, facts, build, worker>>
    BY <1>1 DEF UpsertDocument, proc
  <2>2. JobId' = JobId /\ \A j \in JobId : ReqOf(j)' = ReqOf(j)
    BY <2>1, SameRows
  <2>3. \A d \in Doc : hash'[d] # NoHash => hash'[d] = hash[d]
    BY <1>1 DEF UpsertDocument, NewHash, Typed, TypeOK
  <2>4. WorkerIsSound' /\ WorkerIsDone'
    BY <2>1, <2>2, WorkerUnmoved
  <2> QED BY <1>t, <1>v, <2>1, <2>2, <2>3, <2>4, FactsStay, IngestStep DEF Typed
<1>2. CASE InsertJob(c)
  BY <1>t, <1>2, IngestInsert
<1>3. CASE StoreTask(c)
  <2>1. UNCHANGED <<facts, hash, build, worker>>
    BY <1>3 DEF StoreTask, proc
  <2>2. /\ JobId' = JobId
        /\ \A j \in JobId : /\ jobs'[j].req = jobs[j].req /\ jobs'[j].planned = jobs[j].planned
                            /\ jobs'[j].n = jobs[j].n /\ jobs'[j].status = jobs[j].status
    <3>1. jobs \in [JobId -> JobRow]
      BY LenProperties DEF Typed, TypeOK, JobId
    <3> QED BY <1>3, <3>1 DEF StoreTask, JobId, JobRow
  <2>3. WorkerIsSound' /\ WorkerIsDone'
    BY <2>1, <2>2, WorkerUnmoved DEF ReqOf
  <2> QED BY <1>t, <1>v, <2>1, <2>2, <2>3, FactsStay, IngestStep DEF Typed
<1>4. CASE RejectJob(c)
  <2>1. UNCHANGED <<facts, hash, build, worker>>
    BY <1>4 DEF RejectJob, proc
  <2>2. /\ JobId' = JobId
        /\ \A j \in JobId : /\ jobs'[j].req = jobs[j].req /\ jobs'[j].planned = jobs[j].planned
                            /\ \/ jobs'[j] = jobs[j]
                               \/ jobs'[j].n = NoCounts /\ jobs'[j].status = "failed"
    <3>1. CASE UNCHANGED jobs
      BY <3>1 DEF JobId
    <3>2. CASE jobs' = Written(jobs, handler[c].job, "failed", NoCounts)
      <4>1. jobs \in Seq(JobRow) /\ handler[c].job \in Nat /\ NoCounts \in Counts
            /\ "failed" \in Live \cup Terminal /\ JobId = DOMAIN jobs
        BY DEF Typed, TypeOK, HandlerState, Counts, NoCounts, Terminal, JobId
      <4>2. /\ Written(jobs, handler[c].job, "failed", NoCounts) \in [DOMAIN jobs -> JobRow]
            /\ \A i \in DOMAIN jobs :
                 /\ Written(jobs, handler[c].job, "failed", NoCounts)[i].req = jobs[i].req
                 /\ Written(jobs, handler[c].job, "failed", NoCounts)[i].planned = jobs[i].planned
                 /\ i # handler[c].job =>
                      Written(jobs, handler[c].job, "failed", NoCounts)[i] = jobs[i]
                 /\ i = handler[c].job =>
                      /\ Written(jobs, handler[c].job, "failed", NoCounts)[i].status = "failed"
                      /\ Written(jobs, handler[c].job, "failed", NoCounts)[i].n = NoCounts
        BY <4>1, WrittenRows
      <4> QED BY <3>2, <4>1, <4>2 DEF JobId
    <3> QED BY <1>4, <3>1, <3>2 DEF RejectJob
  <2>3. WorkerIsSound' /\ WorkerIsDone'
    BY <2>1, <2>2, WorkerUnmoved DEF ReqOf
  <2>4. \A j \in JobId : Covers(j, build, Tried(NoCounts))
    <3>1. Tried(NoCounts) = 0
      BY DEF Tried, NoCounts
    <3>2. \A j \in JobId : ReqOf(j).content \in Content
      BY DEF Typed, Control
    <3> QED BY <1>v, <3>1, <3>2, NoneStored DEF Covers
  <2>5. \A j \in JobId :
          jobs'[j].n = jobs[j].n \/ Covers(j, build, Tried(jobs'[j].n))
    BY <2>2, <2>4
  <2>6. \A j \in JobId : jobs'[j].status = "done" => jobs[j].status = "done"
    BY <2>2
  <2> QED BY <1>t, <1>v, <2>1, <2>2, <2>3, <2>5, <2>6, FactsStay, IngestStep DEF Typed
<1>5. CASE MirrorAndAnswer(c) \/ MirrorSession(c) \/ Enqueue(c) \/ Overrun(c) \/ GiveBack(c)
             \/ Abandon(c)
  <2>1. UNCHANGED <<jobs, facts, hash, build, worker>>
    BY <1>5 DEF MirrorAndAnswer, MirrorSession, Enqueue, Overrun, GiveBack, Abandon, db, proc
  <2> QED BY <1>t, <2>1, IngestUnmoved
<1> QED BY <1>1, <1>2, <1>3, <1>4, <1>5 DEF Handle

\* A step of the worker that writes the row of its job, or tries to.
LEMMA IngestFlush ==
  ASSUME Ingest, Typed', NEW status \in Live \cup Terminal, NEW n \in Counts,
         Flush(status, n), UNCHANGED <<facts, hash, build>>,
         n.failed = 0 => n = jobs[worker.job].n \/ Covers(worker.job, build, Tried(n)),
         status = "done" => Whole(worker.job),
         WorkerIsSound', WorkerIsDone'
  PROVE  Ingest'
<1>1. /\ JobId' = JobId
      /\ \A j \in JobId : /\ jobs'[j].req = jobs[j].req /\ jobs'[j].planned = jobs[j].planned
                          /\ \/ jobs'[j] = jobs[j]
                             \/ /\ j = worker.job
                                /\ jobs'[j].status = status /\ jobs'[j].n = n
  BY FlushRows DEF Ingest
<1>2. \A j \in JobId : jobs'[j].n.failed = 0 =>
                         jobs'[j].n = jobs[j].n \/ Covers(j, build, Tried(jobs'[j].n))
  BY <1>1
<1>3. \A j \in JobId : jobs'[j].status = "done" => jobs[j].status = "done" \/ Whole(j)
  BY <1>1
<1>4. build \in Nat
  BY CutsAssumption DEF Ingest, Typed, TypeOK
<1>5. \A j \in JobId, p \in Piece : facts'[j][p] >= facts[j][p]
  BY FactsStay DEF Ingest, Typed
<1> QED BY <1>1, <1>2, <1>3, <1>4, <1>5, IngestStep

\* A step of the worker in memory only.
LEMMA IngestAlone ==
  ASSUME Ingest, Typed', UNCHANGED <<jobs, facts, hash, build>>, WorkerIsSound', WorkerIsDone'
  PROVE  Ingest'
<1>1. JobId' = JobId /\ build \in Nat
  BY CutsAssumption DEF Ingest, Typed, TypeOK, JobId
<1>2. \A j \in JobId, p \in Piece : facts'[j][p] >= facts[j][p]
  BY FactsStay DEF Ingest, Typed
<1> QED BY <1>1, <1>2, IngestStep

LEMMA WorkerGoesOn ==
  ASSUME Ingest, UNCHANGED <<facts, build>>, worker'.job = worker.job, worker'.n = worker.n,
         ReqOf(worker.job)' = ReqOf(worker.job),
         worker.pc \notin {"idle", "begin", "exited"}
  PROVE  WorkerIsSound'
BY DEF Ingest, ResumeIsSound, WorkerIsSound, Covers

LEMMA IngestWork ==
  ASSUME Ingest, Work
  PROVE  Ingest'
<1> USE DEF Ingest
<1>t. Typed'
  BY TypedWork
<1>v. build \in Version /\ build \in Nat
  BY CutsAssumption DEF Typed, TypeOK
<1>w. worker \in WorkerState /\ worker.n \in Counts /\ Tried(worker.n) \in Nat
  BY BumpTyped DEF Typed, TypeOK, WorkerState
<1>1. CASE Dequeue
  <2>1. UNCHANGED <<jobs, facts, hash, build>> /\ worker'.pc = "begin"
    BY <1>1, IdleTyped DEF Dequeue, db, proc, WorkerState
  <2> QED BY <1>t, <2>1, WorkerFreed, IngestAlone
<1>2. CASE WorkerExit
  <2>1. UNCHANGED <<jobs, facts, hash, build>> /\ worker'.pc = "exited"
    BY <1>w, <1>2, StepTyped DEF WorkerExit, db, proc
  <2> QED BY <1>t, <2>1, WorkerFreed, IngestAlone
<1>3. CASE BeginJob
  <2> DEFINE j == worker.job
  <2>1. j \in JobId /\ ReqOf(j).content \in Content
    BY <1>3 DEF BeginJob, Working, Typed, Control
  <2>2. ResumeAt(j) \in Counts /\ ResumeAt(j) = jobs[j].n /\ Tried(ResumeAt(j)) \in Nat
    BY <2>1, RowTyped, BumpTyped DEF Typed, ResumeAt
  <2>3. ResumeAt(j).failed = 0 => Covers(j, build, Tried(ResumeAt(j)))
    <3>1. CASE Tried(ResumeAt(j)) = 0
      BY <1>v, <2>1, <3>1, NoneStored DEF Covers
    <3>2. CASE Tried(ResumeAt(j)) # 0
      <4>1. jobs[j].planned = build
        BY <1>3, <2>2, <3>2 DEF BeginJob, Recut
      <4>2. ASSUME ResumeAt(j).failed = 0
            PROVE  Covers(j, build, Tried(ResumeAt(j)))
        <5>1. PICK v \in Version : /\ jobs[j].planned <= v /\ v <= build
                                   /\ Covers(j, v, Tried(jobs[j].n))
          BY <2>1, <2>2, <4>2 DEF ResumeIsSound, RowsAreSound
        <5>2. v = build
          BY <1>v, <4>1, <5>1, CutsAssumption
        <5> QED BY <2>2, <5>1, <5>2
      <4> QED BY <4>2
    <3> QED BY <3>1, <3>2
  <2>4. UNCHANGED <<facts, hash, build>>
    BY <1>3 DEF BeginJob, proc
  <2>5. Flush("running", ResumeAt(j)) /\ "running" \in Live \cup Terminal
    BY <1>3 DEF BeginJob, Live
  <2>6. worker'.pc = "loop" /\ worker'.job = j /\ worker'.n = ResumeAt(j)
    BY <1>w, <1>3 DEF BeginJob, WorkerState
  <2>7. ReqOf(j)' = ReqOf(worker.job)
    BY <2>1, <2>2, <2>5, <2>6, FlushRows DEF ReqOf
  <2>8. WorkerIsSound' /\ WorkerIsDone'
    BY <2>3, <2>4, <2>6, <2>7 DEF WorkerIsSound, WorkerIsDone, Covers, ReqOf
  <2> QED BY <1>t, <2>2, <2>3, <2>4, <2>5, <2>8, IngestFlush
<1>4. CASE RefuseRecut
  <2> DEFINE j == worker.job
  <2>1. j \in JobId
    BY <1>4 DEF RefuseRecut, Working, Typed, Control
  <2>2. ResumeAt(j) \in Counts /\ ResumeAt(j) = jobs[j].n
    BY <2>1, RowTyped DEF Typed, ResumeAt
  <2>3. UNCHANGED <<facts, hash, build>> /\ worker'.pc = "idle"
    BY <1>4, IdleTyped DEF RefuseRecut, Release, proc
  <2>4. Flush("failed", ResumeAt(j)) /\ "failed" \in Live \cup Terminal
    BY <1>4 DEF RefuseRecut, Terminal
  <2> QED BY <1>t, <2>2, <2>3, <2>4, WorkerFreed, IngestFlush
<1>5. CASE WallTimeout
  <2>1. UNCHANGED <<jobs, facts, hash, build>> /\ worker.pc = "loop"
    BY <1>5 DEF WallTimeout, Working, db, proc
  <2>2. worker'.pc = "report" /\ worker'.outcome = "failed" /\ worker'.job = worker.job
        /\ worker'.n = worker.n
    BY <1>w, <1>5 DEF WallTimeout, WorkerState
  <2>3. WorkerIsSound' /\ WorkerIsDone'
    BY <2>1, <2>2, WorkerGoesOn DEF WorkerIsDone, ReqOf
  <2> QED BY <1>t, <2>1, <2>3, IngestAlone
<1>6. CASE PauseBetween \/ PauseInside
  <2>1. UNCHANGED <<jobs, facts, hash, build>> /\ worker.pc \in {"loop", "extract"}
    BY <1>6 DEF PauseBetween, PauseInside, Working, db, proc
  <2>2. worker'.pc = "pause" /\ worker'.job = worker.job /\ worker'.n = worker.n
    BY <1>w, <1>6, StepTyped DEF PauseBetween, PauseInside
  <2>3. WorkerIsSound' /\ WorkerIsDone'
    BY <2>1, <2>2, WorkerGoesOn DEF WorkerIsDone, ReqOf
  <2> QED BY <1>t, <2>1, <2>3, IngestAlone
<1>7. CASE SkipBlank
  <2>1. UNCHANGED <<jobs, facts, hash, build>> /\ worker.pc = "loop" /\ Chunk = {}
    BY <1>7 DEF SkipBlank, Working, db, proc
  <2>2. worker'.pc = "flush" /\ worker'.job = worker.job
        /\ worker'.n = Bump(worker.n, "skipped")
    BY <1>w, <1>7, EarTyped, CountTyped DEF SkipBlank
  <2>3. Tried(worker'.n) = Tried(worker.n) + 1 /\ worker'.n.failed = worker.n.failed
    BY <1>w, <2>2, BumpTyped DEF Counts
  <2>4. ReqOf(worker.job).content \in Content
    BY <2>1 DEF Typed, Control
  <2>5. worker.n.failed = 0 => Covers(worker.job, build, Tried(worker.n) + 1)
    BY <1>v, <1>w, <2>1, <2>4, OneMoreStored
       DEF ResumeIsSound, WorkerIsSound, Covers, Chunk, Chunks, Stored
  <2>6. WorkerIsSound' /\ WorkerIsDone'
    BY <2>1, <2>2, <2>3, <2>5 DEF WorkerIsSound, WorkerIsDone, Covers, ReqOf
  <2> QED BY <1>t, <2>1, <2>6, IngestAlone
<1>8. CASE StartExtract
  <2>1. UNCHANGED <<jobs, facts, hash, build>> /\ worker.pc = "loop"
    BY <1>8 DEF StartExtract, Working, db, proc
  <2>2. worker'.pc = "extract" /\ worker'.job = worker.job /\ worker'.n = worker.n
    BY <1>w, <1>8, EarTyped DEF StartExtract, WorkerState
  <2>3. WorkerIsSound' /\ WorkerIsDone'
    BY <2>1, <2>2, WorkerGoesOn DEF WorkerIsDone, ReqOf
  <2> QED BY <1>t, <2>1, <2>3, IngestAlone
<1>9. CASE StoreChunk
  <2>1. UNCHANGED <<jobs, hash, build>> /\ worker.pc = "extract" /\ worker.job \in JobId
    BY <1>9 DEF StoreChunk, Working, Typed, Control, proc
  <2>2. worker'.pc = "flush" /\ worker'.job = worker.job /\ worker'.n = Bump(worker.n, "done")
    BY <1>w, <1>9, EarTyped, CountTyped DEF StoreChunk
  <2>3. Tried(worker'.n) = Tried(worker.n) + 1 /\ worker'.n.failed = worker.n.failed
    BY <1>w, <2>2, BumpTyped DEF Counts
  <2>4. JobId' = JobId /\ \A j \in JobId : ReqOf(j)' = ReqOf(j)
    BY <2>1, SameRows
  <2>5. facts \in [JobId -> [Piece -> Nat]]
    BY LenProperties DEF Typed, TypeOK, JobId
  <2>6. /\ facts' \in [JobId -> [Piece -> Nat]]
        /\ \A j \in JobId, p \in Piece : facts'[j][p] >= facts[j][p]
        /\ \A p \in Piece : p \in Chunk => facts'[worker.job][p] > 0
    BY <1>9, <2>1, <2>5, StoredMore DEF StoreChunk
  <2> DEFINE c == ReqOf(worker.job).content
  <2>7. c \in Content
    BY <2>1 DEF Typed, Control
  <2>8. Chunk = Cuts[build][c][Tried(worker.n) + 1]
    BY DEF Chunk, Chunks
  <2>9. Tried(worker.n) + 1 \in DOMAIN Cuts[build][c] =>
          Stored(facts'[worker.job], Cuts[build][c][Tried(worker.n) + 1])
    BY <1>v, <2>6, <2>7, <2>8, ChunksTyped DEF Stored
  <2>10. worker.n.failed = 0 => FirstStored(facts'[worker.job], Cuts[build][c], Tried(worker.n))
    <3>1. worker.n.failed = 0 => FirstStored(facts[worker.job], Cuts[build][c], Tried(worker.n))
      BY <2>1 DEF ResumeIsSound, WorkerIsSound, Covers
    <3>2. facts[worker.job] \in [Piece -> Nat] /\ facts'[worker.job] \in [Piece -> Nat]
      BY <2>1, <2>5, <2>6
    <3> QED BY <1>v, <2>1, <2>6, <2>7, <3>1, <3>2, FirstStoredGrows
  <2>11. worker.n.failed = 0 =>
           FirstStored(facts'[worker.job], Cuts[build][c], Tried(worker.n) + 1)
    BY <1>v, <1>w, <2>7, <2>9, <2>10, OneMoreStored
  <2>12. WorkerIsSound' /\ WorkerIsDone'
    BY <2>1, <2>2, <2>3, <2>4, <2>11 DEF WorkerIsSound, WorkerIsDone, Covers
  <2> QED BY <1>t, <1>v, <2>1, <2>4, <2>6, <2>12, IngestStep
<1>10. CASE ChunkFails
  <2>1. UNCHANGED <<jobs, facts, hash, build>>
    BY <1>10 DEF ChunkFails, db, proc
  <2>2. worker'.pc = "flush" /\ worker'.job = worker.job /\ worker'.n = Bump(worker.n, "failed")
    BY <1>w, <1>10, EarTyped, CountTyped DEF ChunkFails
  <2>3. worker'.n.failed # 0
    BY <1>w, <2>2, BumpTyped DEF Counts
  <2>4. WorkerIsSound' /\ WorkerIsDone'
    BY <2>2, <2>3 DEF WorkerIsSound, WorkerIsDone
  <2> QED BY <1>t, <2>1, <2>4, IngestAlone
<1>11. CASE FlushProgress
  <2>1. UNCHANGED <<facts, hash, build>> /\ worker.pc = "flush" /\ worker.job \in JobId
    BY <1>11 DEF FlushProgress, Working, Typed, Control, proc
  <2>2. worker'.pc = "loop" /\ worker'.job = worker.job /\ worker'.n = worker.n
    BY <1>w, <1>11, StepTyped DEF FlushProgress
  <2>3. Flush("running", worker.n) /\ "running" \in Live \cup Terminal
    BY <1>11 DEF FlushProgress, Live
  <2>4. JobId' = JobId /\ \A j \in JobId : ReqOf(j)' = ReqOf(j)
    BY <1>w, <2>3, FlushTyped DEF Typed
  <2>5. WorkerIsSound' /\ WorkerIsDone'
    BY <2>1, <2>2, <2>4 DEF ResumeIsSound, WorkerIsSound, WorkerIsDone, Covers
  <2>6. worker.n.failed = 0 => Covers(worker.job, build, Tried(worker.n))
    BY <2>1 DEF ResumeIsSound, WorkerIsSound
  <2> QED BY <1>t, <1>w, <2>1, <2>3, <2>5, <2>6, IngestFlush
<1>12. CASE FlushPause
  <2>1. UNCHANGED <<facts, hash, build>> /\ worker.pc = "pause" /\ worker'.pc = "idle"
    BY <1>12, IdleTyped DEF FlushPause, Working, Release, proc
  <2>2. Flush("pending", worker.n) /\ "pending" \in Live \cup Terminal
    BY <1>12 DEF FlushPause, Live
  <2>3. worker.n.failed = 0 => Covers(worker.job, build, Tried(worker.n))
    BY <2>1 DEF ResumeIsSound, WorkerIsSound
  <2> QED BY <1>t, <1>w, <2>1, <2>2, <2>3, WorkerFreed, IngestFlush
<1>13. CASE EndLoop
  <2>1. UNCHANGED <<jobs, facts, hash, build>> /\ worker.pc = "loop"
    BY <1>13 DEF EndLoop, Working, db, proc
  <2>2. /\ worker'.job = worker.job /\ worker'.n = worker.n
        /\ worker'.outcome = Outcome(worker.n)
        /\ worker'.pc = IF Outcome(worker.n) = "done" THEN "stamp" ELSE "report"
    BY <1>w, <1>13 DEF EndLoop, WorkerState
  <2>3. WorkerIsSound'
    BY <2>1, <2>2, WorkerGoesOn DEF ReqOf
  <2>4. ReqOf(worker.job).content \in Content
    BY <2>1 DEF Typed, Control
  <2>5. Outcome(worker.n) = "done" => Whole(worker.job)
    <3>1. ASSUME Outcome(worker.n) = "done" PROVE Whole(worker.job)
      <4>1. worker.n.failed = 0
        BY <1>w, <3>1 DEF Outcome
      <4>2. FirstStored(facts[worker.job], Cuts[build][ReqOf(worker.job).content],
                        Tried(worker.n))
        BY <2>1, <4>1 DEF ResumeIsSound, WorkerIsSound, Covers
      <4>3. Cuts[build][ReqOf(worker.job).content] \in Seq(SUBSET Piece)
        BY <1>v, <2>4, ChunksTyped
      <4>4. Tried(worker.n) >= Len(Cuts[build][ReqOf(worker.job).content])
        BY <1>w, <1>13, <4>3, LenProperties DEF EndLoop, More, Chunks
      <4> QED BY <1>v, <1>w, <2>4, <4>2, <4>4, AllChunksAreTheText DEF Whole
    <3> QED BY <3>1
  <2>6. WorkerIsDone'
    BY <2>1, <2>2, <2>5 DEF WorkerIsDone, Whole, ReqOf
  <2> QED BY <1>t, <2>1, <2>3, <2>6, IngestAlone
<1>14. CASE StampHash
  <2>1. UNCHANGED <<jobs, facts, build>> /\ worker.pc = "stamp" /\ worker.job \in JobId
    BY <1>14 DEF StampHash, Working, Typed, Control, proc
  <2>2. worker'.pc \in {"confirm", "report"} /\ worker'.job = worker.job /\ worker'.n = worker.n
    BY <1>w, <1>14, StepTyped DEF StampHash
  <2>3. JobId' = JobId /\ \A j \in JobId : ReqOf(j)' = ReqOf(j)
    BY <2>1, SameRows
  <2>4. Whole(worker.job)
    BY <2>1 DEF WorkerIsDone
  <2>5. WorkerIsSound' /\ WorkerIsDone'
    BY <2>1, <2>2, <2>3, <2>4, WorkerGoesOn DEF WorkerIsDone, Whole
  <2>6. \A d \in Doc : hash'[d] # NoHash =>
          \/ hash'[d] = hash[d]
          \/ \E j \in JobId : ReqOf(j).doc = d /\ ReqOf(j).content = hash'[d] /\ Whole(j)
    BY <1>14, <2>1, <2>4 DEF StampHash, Typed, TypeOK
  <2>7. \A j \in JobId, p \in Piece : facts'[j][p] >= facts[j][p]
    BY <2>1, FactsStay DEF Typed
  <2> QED BY <1>t, <1>v, <2>1, <2>3, <2>5, <2>6, <2>7, IngestStep
<1>15. CASE ConfirmOffset
  <2>1. UNCHANGED <<jobs, facts, hash, build>> /\ worker.pc = "confirm"
    BY <1>15 DEF ConfirmOffset, Working, proc
  <2>2. worker'.pc = "report" /\ worker'.job = worker.job /\ worker'.n = worker.n
    BY <1>w, <1>15, StepTyped DEF ConfirmOffset
  <2>3. WorkerIsSound' /\ WorkerIsDone'
    BY <2>1, <2>2, WorkerGoesOn DEF WorkerIsDone, Whole, ReqOf
  <2> QED BY <1>t, <2>1, <2>3, IngestAlone
<1>16. CASE ReportOutcome
  <2>1. UNCHANGED <<facts, hash, build>> /\ worker.pc = "report" /\ worker'.pc = "idle"
    BY <1>16, IdleTyped DEF ReportOutcome, Working, Release, proc
  <2>2. Flush(worker.outcome, worker.n) /\ worker.outcome \in Live \cup Terminal
    BY <1>16, <2>1 DEF ReportOutcome, Typed, Control
  <2>3. /\ worker.n.failed = 0 => Covers(worker.job, build, Tried(worker.n))
        /\ worker.outcome = "done" => Whole(worker.job)
    BY <2>1 DEF ResumeIsSound, WorkerIsSound, WorkerIsDone
  <2> QED BY <1>t, <1>w, <2>1, <2>2, <2>3, WorkerFreed, IngestFlush
<1> QED
  BY <1>1, <1>2, <1>3, <1>4, <1>5, <1>6, <1>7, <1>8, <1>9, <1>10, <1>11, <1>12, <1>13,
     <1>14, <1>15, <1>16 DEF Work

\* The process: only a restart touches the rows, and no restart goes back to
\* an older build.
LEMMA IngestProcess ==
  ASSUME ~Rollback, Ingest,
         Sigterm \/ Exit \/ Kill \/ Start \/ SendResumed \/ \E s \in Session : ExpireSession(s)
  PROVE  Ingest'
<1> USE DEF Ingest
<1>t. Typed'
  BY TypedProcess
<1>1. CASE Sigterm \/ SendResumed \/ \E s \in Session : ExpireSession(s)
  <2>1. UNCHANGED <<jobs, facts, hash, build, worker>>
    BY <1>1 DEF Sigterm, SendResumed, ExpireSession, db, ram, proc
  <2> QED BY <1>t, <2>1, IngestUnmoved
<1>2. CASE Exit \/ Kill
  <2>1. UNCHANGED <<jobs, facts, hash, build>> /\ worker'.pc = "idle"
    BY <1>2, IdleTyped DEF Exit, Kill, Die, db
  <2> QED BY <1>t, <2>1, WorkerFreed, IngestAlone
<1>3. CASE Start
  <2>1. Kept(jobs, jobs') /\ build' >= build /\ build' \in Version
    BY <1>3, StartKeeps DEF Typed
  <2>2. JobId' = JobId /\ DOMAIN jobs = JobId
    BY <2>1 DEF Kept, JobId
  <2>3. UNCHANGED <<facts, hash, worker>> /\ worker.pc = "idle"
    BY <1>3 DEF Start, Typed, Control
  <2>4. WorkerIsSound' /\ WorkerIsDone'
    BY <2>3, WorkerFreed
  <2>5. \A j \in JobId, p \in Piece : facts'[j][p] >= facts[j][p]
    BY <2>3, FactsStay DEF Typed
  <2>6. build <= build'
    BY <2>1, CutsAssumption DEF Typed, TypeOK
  <2> QED BY <1>t, <2>1, <2>2, <2>3, <2>4, <2>5, <2>6, IngestStep DEF Kept
<1> QED BY <1>1, <1>2, <1>3

LEMMA IngestNext == ~Rollback /\ Ingest /\ [Next]_vars => Ingest'
<1> SUFFICES ASSUME ~Rollback, Ingest, [Next]_vars PROVE Ingest'
  OBVIOUS
<1>t. Typed'
  BY TypedStep DEF Ingest
<1>1. CASE UNCHANGED vars
  <2>1. UNCHANGED <<jobs, facts, hash, build, worker>>
    BY <1>1 DEF vars, db, ram, proc
  <2> QED BY <1>t, <2>1, IngestUnmoved
<1>2. ASSUME NEW c \in Client, HangUp(c) \/ \E r \in Request : Admit(c, r)
      PROVE  Ingest'
  <2>1. UNCHANGED <<jobs, facts, hash, build, worker>>
    BY <1>2 DEF HangUp, Admit, db, proc
  <2> QED BY <1>t, <2>1, IngestUnmoved
<1> QED BY <1>1, <1>2, IngestHandle, IngestWork, IngestProcess DEF Next

-----------------------------------------------------------------------------
(***************************************************************************)
(* The theorems.                                                           *)
(***************************************************************************)

\* Every reachable state satisfies the inductive invariant.
THEOREM IngestIsInvariant == ~Rollback => (Spec => []Ingest)
<1> SUFFICES ASSUME ~Rollback PROVE Spec => []Ingest
  OBVIOUS
<1>1. Ingest /\ [Next]_vars => Ingest'
  BY IngestNext
<1> QED BY <1>1, IngestInit, PTL DEF Spec

\* A document is marked with a content (which makes a later post of it a
\* duplicate, answered without a job) only when one job of that document has
\* stored every piece of it, whatever was killed, paused, lost or redeployed.
THEOREM HashIsSound == ~Rollback => (Spec => []HashMeansIngested)
<1> SUFFICES ASSUME ~Rollback PROVE Spec => []HashMeansIngested
  OBVIOUS
<1>1. Ingest => HashMeansIngested
  BY DEF Ingest
<1>2. Spec => []Ingest
  BY IngestIsInvariant
<1> QED BY <1>1, <1>2, PTL

\* A job row that says `done` has all of its text in the store.
THEOREM DoneIsSound == ~Rollback => (Spec => []DoneMeansIngested)
<1> SUFFICES ASSUME ~Rollback PROVE Spec => []DoneMeansIngested
  OBVIOUS
<1>1. Ingest => DoneMeansIngested
  BY DEF Ingest
<1>2. Spec => []Ingest
  BY IngestIsInvariant
<1> QED BY <1>1, <1>2, PTL

\* The counters a job resumes from stand for stored text.
THEOREM CountsAreSound == ~Rollback => (Spec => []ResumeIsSound)
<1> SUFFICES ASSUME ~Rollback PROVE Spec => []ResumeIsSound
  OBVIOUS
<1>1. Ingest => ResumeIsSound
  BY DEF Ingest
<1>2. Spec => []Ingest
  BY IngestIsInvariant
<1> QED BY <1>1, <1>2, PTL

-----------------------------------------------------------------------------
(***************************************************************************)
(* The durable cursor.                                                     *)
(***************************************************************************)
\* Of the three upserts, only a range confirm moves a durable cursor that is
\* behind, and only over a range that starts at or before it.
LEMMA GuardedUpsert ==
  ASSUME NEW row \in SessionRow, NEW byte \in Nat, NEW from \in Nat, NEW to \in Nat,
         NEW settled \in Nat, row.present, row.confirmed < row.byte,
         Upsert(row, byte, from, to, settled).confirmed > row.confirmed
  PROVE  from <= row.confirmed /\ to = Upsert(row, byte, from, to, settled).confirmed
BY DEF Upsert, SessionRow, Larger, RangeConfirm, SettledConfirm

Behind(s) == sess[s].present /\ sess[s].confirmed < sess[s].byte

Justified(s) ==
  \E j \in JobId : /\ ReqOf(j).session = s /\ Whole(j)
                   /\ ReqOf(j).from <= sess[s].confirmed
                   /\ ReqOf(j).to = sess'[s].confirmed

LEMMA OnlyRangesConfirm ==
  ASSUME Ingest, Next, NEW s \in Session, Behind(s), sess'[s].confirmed > sess[s].confirmed
  PROVE  Justified(s)
<1> USE DEF Ingest, Behind
<1>1. sess[s] \in SessionRow /\ sess \in [Session -> SessionRow]
  BY DEF Typed, TypeOK
<1>2. ASSUME NEW c \in Client, MirrorAndAnswer(c) \/ MirrorSession(c) PROVE FALSE
  <2>1. handler[c].req \in Request
    BY DEF Typed, TypeOK, HandlerState
  <2>2. handler[c].req.to \in Nat
    BY <2>1, RequestTyped
  <2>3. sess'[s] = sess[s] \/ sess'[s] = MirrorSettled(sess[s], handler[c].req.to)
          \/ sess'[s] = MirrorQueued(sess[s], handler[c].req.to)
    BY <1>1, <1>2 DEF MirrorAndAnswer, MirrorSession
  <2>4. MirrorSettled(sess[s], handler[c].req.to).confirmed <= sess[s].confirmed
          /\ MirrorQueued(sess[s], handler[c].req.to).confirmed <= sess[s].confirmed
    BY <1>1, <2>2
       DEF MirrorSettled, MirrorQueued, Upsert, SessionRow, Larger, RangeConfirm,
           SettledConfirm
  <2>5. /\ MirrorSettled(sess[s], handler[c].req.to) \in SessionRow
        /\ MirrorQueued(sess[s], handler[c].req.to) \in SessionRow
    BY <1>1, <2>2, UpsertTyped DEF MirrorSettled, MirrorQueued
  <2> QED BY <1>1, <2>3, <2>4, <2>5 DEF SessionRow
<1>3. CASE ConfirmOffset
  <2> DEFINE j == worker.job
  <2>1. j \in JobId /\ Whole(j)
    BY <1>3 DEF ConfirmOffset, Working, Typed, Control, WorkerIsDone
  <2>2. ReqOf(j) \in Request
    BY <2>1, RowTyped DEF Typed, ReqOf, JobRow
  <2>3. sess' = [sess EXCEPT ![ReqOf(j).session] = ConfirmRange(@, ReqOf(j).from, ReqOf(j).to)]
    BY <1>1, <1>3 DEF ConfirmOffset, SessionRow
  <2>4. s = ReqOf(j).session
    BY <1>1, <2>3 DEF SessionRow
  <2>5. sess'[s] = Upsert(sess[s], 0, ReqOf(j).from, ReqOf(j).to, 0)
    BY <1>1, <2>3, <2>4 DEF ConfirmRange
  <2>6. ReqOf(j).from <= sess[s].confirmed /\ ReqOf(j).to = sess'[s].confirmed
    BY <1>1, <2>2, <2>5, RequestTyped, GuardedUpsert
  <2> QED BY <2>1, <2>4, <2>6 DEF Justified
<1>4. CASE Start
  <2>1. sess'[s].confirmed = sess[s].confirmed
    BY <1>1, <1>4 DEF Start, SessionRow
  <2> QED BY <1>1, <2>1 DEF SessionRow
<1>5. ASSUME NEW t \in Session, ExpireSession(t) PROVE FALSE
  <2>1. sess'[s] = sess[s] \/ sess'[s].confirmed = 0
    BY <1>1, <1>5 DEF ExpireSession, NoRow
  <2> QED BY <1>1, <2>1 DEF SessionRow
<1>6. CASE UNCHANGED sess
  BY <1>1, <1>6 DEF SessionRow
<1>7. ASSUME NEW c \in Client, Handle(c) PROVE Justified(s)
  BY <1>2, <1>6, <1>7
     DEF Handle, UpsertDocument, InsertJob, StoreTask, Enqueue, Overrun, GiveBack, RejectJob,
         Abandon, db
<1>8. ASSUME NEW c \in Client, HangUp(c) \/ \E r \in Request : Admit(c, r)
      PROVE  Justified(s)
  BY <1>6, <1>8 DEF HangUp, Admit, db
<1>9. CASE Work
  BY <1>3, <1>6, <1>9
     DEF Work, Dequeue, WorkerExit, BeginJob, RefuseRecut, WallTimeout, PauseBetween, SkipBlank,
         StartExtract, PauseInside, StoreChunk, ChunkFails, FlushProgress, FlushPause, EndLoop,
         StampHash, ReportOutcome, db
<1>10. CASE Sigterm \/ Exit \/ Kill \/ SendResumed
  BY <1>6, <1>10 DEF Sigterm, Exit, Kill, SendResumed, db
<1> QED BY <1>4, <1>5, <1>7, <1>8, <1>9, <1>10 DEF Next

\* While a session has bytes posted and not known ingested, its durable cursor
\* moves only over a range that begins at or before it and that one job of the
\* session stored whole.
THEOREM ConfirmIsSound == ~Rollback => (Spec => ConfirmNeverCrossesGap)
<1> SUFFICES ASSUME ~Rollback PROVE Spec => ConfirmNeverCrossesGap
  OBVIOUS
<1>1. Ingest /\ [Next]_vars =>
        [\A s \in Session :
           Behind(s) /\ sess'[s].confirmed > sess[s].confirmed => Justified(s)]_vars
  BY OnlyRangesConfirm
<1>2. Spec => []Ingest
  BY IngestIsInvariant
<1>3. Spec => [][\A s \in Session :
                   Behind(s) /\ sess'[s].confirmed > sess[s].confirmed => Justified(s)]_vars
  BY <1>1, <1>2, PTL DEF Spec
<1> QED BY <1>3 DEF ConfirmNeverCrossesGap, Behind, Justified
=============================================================================
