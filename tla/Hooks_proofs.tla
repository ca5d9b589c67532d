------------------------------ MODULE Hooks_proofs ------------------------------
(***************************************************************************)
(* Proofs about what runs inside a session's hooks, for any processes,     *)
(* transcripts, thresholds and misfortunes: HookRetain, and at the end the *)
(* HTTP client that it posts with.                                         *)
(***************************************************************************)
EXTENDS HookRetain, HttpClient, SequenceTheorems, TLAPS

(***************************************************************************)
(* The inductive invariant.  js are the job rows and tk the lines taken in.*)
(***************************************************************************)

\* Everything said up to line n was taken in.
Covered(n, tk) == Said(0, n) \subseteq tk

\* What a copy of the state claims, wherever it is held: without a pending job
\* its cursor is covered; with one, the job is the one it describes, the cursor
\* is where the job ends, and it is covered up to where the job begins.
Held(st, js, tk) ==
  /\ st.pending = NoPending => Covered(st.offset, tk)
  /\ st.pending # NoPending =>
       /\ st.pending.job \in DOMAIN js
       /\ js[st.pending.job].from = st.pending.from
       /\ js[st.pending.job].to = st.pending.to
       /\ st.offset = st.pending.to
       /\ Covered(st.pending.from, tk)

\* A process about to post posts from the cursor of the state it holds.
PostsFromCursor(h) ==
  h.pc = "post" => h.st.pending = NoPending /\ h.req.from = h.st.offset

JobsSound(js, tk) ==
  \A j \in DOMAIN js :
    /\ Covered(js[j].from, tk)
    /\ js[j].status \in {"done", "partial"} => Said(js[j].from, js[j].to) \subseteq tk

StampsSound(ds, tk) == \A c \in DOMAIN ds : ds[c].stamp \subseteq tk

HookSound(h, js, tk) == Held(h.st, js, tk) /\ PostsFromCursor(h)

Sound ==
  /\ file # NoFile => Held(file, jobs, taken)
  /\ \A p \in Process : HookSound(hook[p], jobs, taken)
  /\ Held(recall.st, jobs, taken)
  /\ \A req \in late : Covered(req.from, taken)
  /\ JobsSound(jobs, taken)
  /\ StampsSound(docs, taken)
  /\ Covered(row.confirmed, taken)

Typed == TypeOK /\ (torn => len < Lines)

-----------------------------------------------------------------------------
(***************************************************************************)
(* What the operators of the model return.                                 *)
(***************************************************************************)
LEMMA SameShape ==
  ASSUME NEW T, NEW old \in Seq(T), NEW new \in [DOMAIN old -> T]
  PROVE  new \in Seq(T) /\ DOMAIN new = DOMAIN old
<1>1. Len(old) \in Nat /\ DOMAIN old = 1..Len(old)
  BY LenProperties
<1>2. new \in Seq(T) /\ DOMAIN new = 1..Len(old)
  BY <1>1, SeqDef
<1> QED BY <1>1, <1>2

LEMMA SaidInside ==
  ASSUME NEW from \in Cursor, NEW to \in Cursor
  PROVE  Said(from, to) \subseteq 1..Lines /\ Said(from, to) \subseteq Messages(from, to)
<1>1. (from + 1)..to \subseteq 1..Lines
  BY HookAssumption DEF Cursor
<1> QED BY <1>1 DEF Said, Messages

\* What was said in two adjoining ranges, or in one that reaches further.
LEMMA SaidSplit ==
  ASSUME NEW a \in Nat, NEW b \in Nat, NEW c \in Nat
  PROVE  Said(a, c) \subseteq Said(a, b) \cup Said(b, c)
BY DEF Said

LEMMA NothingSaidYet == \A tk : Covered(0, tk)
BY DEF Covered, Said

LEMMA ZeroTyped ==
  0 \in Cursor /\ 0 \in 0..RetainEvery /\ 0 \in 0..BreakerAt /\ 0 \in 0..PoisonAt
BY HookAssumption DEF Cursor

LEMMA NewStateTyped == NewState \in State /\ NoRequest \in RequestState
BY HookAssumption DEF NewState, NoPending, NoRequest, State, PendingState, RequestState, Cursor

LEMMA NoHookTyped == NoHook \in HookState
BY NewStateTyped DEF NoHook, HookState

\* Counting, healing and rolling back keep a state a state.
LEMMA UpdatesTyped ==
  ASSUME NEW st \in State
  PROVE  /\ Counted(st) \in State
         /\ TransportFailure(st) \in State
         /\ Rejection(st) \in State
         /\ Healed(st) \in State
         /\ RolledBack(st) \in State
         /\ [st EXCEPT !.pending = NoPending] \in State
         /\ [st EXCEPT !.transport = Upto(@, BreakerAt)] \in State
<1>1. Counted(st) \in State
  BY HookAssumption, SMTT(20) DEF Counted, Upto, State
<1>2. TransportFailure(st) \in State
  <2>1. Upto(st.transport, BreakerAt) \in 0..BreakerAt
    BY HookAssumption DEF Upto, State
  <2>2. (st.breaker \/ st.transport + 1 >= BreakerAt) \in BOOLEAN
    BY Zenon
  <2>3. \A n \in 0..BreakerAt, b \in BOOLEAN :
          [st EXCEPT !.transport = n, !.breaker = b] \in State
    BY DEF State
  <2> QED BY <2>1, <2>2, <2>3, Zenon DEF TransportFailure
<1>3. Rejection(st) \in State
  <2>1. Upto(st.rejects, PoisonAt) \in 0..PoisonAt
    BY HookAssumption DEF Upto, State
  <2>2. (st.poisoned \/ st.rejects + 1 >= PoisonAt) \in BOOLEAN
    BY Zenon
  <2>3. \A n \in 0..PoisonAt, b \in BOOLEAN :
          [st EXCEPT !.rejects = n, !.poisoned = b] \in State
    BY DEF State
  <2> QED BY <2>1, <2>2, <2>3, Zenon DEF Rejection
<1>4. Healed(st) \in State
  BY ZeroTyped DEF Healed, State
<1>5. NoPending \in PendingState
  BY HookAssumption DEF NoPending, PendingState, Cursor
<1>6. RolledBack(st) \in State
  BY <1>5 DEF RolledBack, State, PendingState
<1>7. [st EXCEPT !.pending = NoPending] \in State
  BY <1>5 DEF State
<1>8. [st EXCEPT !.transport = Upto(@, BreakerAt)] \in State
  BY HookAssumption DEF Upto, State
<1> QED BY <1>1, <1>2, <1>3, <1>4, <1>6, <1>7, <1>8

LEMMA AcceptTyped ==
  ASSUME NEW st \in State, NEW req \in RequestState, NEW job \in Nat
  PROVE  Accept(st, req, job) \in State
<1>1. (IF job = 0 THEN NoPending
       ELSE [job |-> job, from |-> req.from, to |-> req.to, chunk |-> st.chunk])
        \in PendingState
  BY HookAssumption DEF NoPending, PendingState, RequestState, State, Cursor
<1>2. req.to \in Cursor /\ st.chunk + 1 \in Nat
  BY DEF State, RequestState
<1>3. \A q \in PendingState, t \in Cursor, n \in Nat :
        [st EXCEPT !.offset = t, !.chunk = n, !.turns = 0, !.transport = 0,
                   !.rejects = 0, !.breaker = FALSE, !.poisoned = FALSE,
                   !.pending = q] \in State
  BY ZeroTyped DEF State
<1> QED BY <1>1, <1>2, <1>3, Zenon DEF Accept

RowState == [present : BOOLEAN, byte : Cursor, confirmed : Cursor, fresh : BOOLEAN]

LEMMA UpsertTyped ==
  ASSUME NEW r \in RowState, NEW byte \in Cursor, NEW from \in Cursor,
         NEW to \in Cursor, NEW settled \in Cursor
  PROVE  Upsert(r, byte, from, to, settled) \in RowState
BY HookAssumption, SMTT(30)
   DEF Upsert, RowState, Larger, RangeConfirm, SettledConfirm, Cursor

LEMMA RecoveredTyped ==
  TypeOK => Recovered \in State
<1> SUFFICES ASSUME TypeOK PROVE Recovered \in State
  OBVIOUS
<1>1. row.confirmed \in Cursor /\ lastChunk \in Nat
  BY HookAssumption DEF TypeOK
<1> QED BY <1>1, NewStateTyped, ZenonT(90) DEF Recovered, State

ControlPoint == {"idle", "picked", "absent", "greeted", "ready", "post", "store"}

LEMMA GotoTyped ==
  ASSUME hook \in [Process -> HookState], NEW p \in Process,
         NEW pc \in ControlPoint, NEW st \in State, Goto(p, pc, st)
  PROVE  hook' \in [Process -> HookState]
BY ZenonT(90) DEF Goto, HookState, ControlPoint

LEMMA ToPostTyped ==
  ASSUME NEW h \in [Process -> HookState], NEW p \in Process,
         NEW st \in State, NEW req \in RequestState
  PROVE  [h EXCEPT ![p].pc = "post", ![p].st = st, ![p].req = req]
           \in [Process -> HookState]
<1> DEFINE a == [h EXCEPT ![p].pc = "post", ![p].st = st]
<1>1. a \in [Process -> HookState]
  BY ZenonT(90) DEF HookState
<1> HIDE DEF a
<1>2. [a EXCEPT ![p].req = req] \in [Process -> HookState]
  BY <1>1, ZenonT(90) DEF HookState
<1> QED BY <1>2 DEF a

LEMMA ToGreetedTyped ==
  ASSUME NEW h \in [Process -> HookState], NEW p \in Process,
         NEW st \in State, NEW m \in {"none", "ok", "transport"}
  PROVE  /\ [h EXCEPT ![p].pc = "greeted", ![p].st = st, ![p].mirror = m]
                \in [Process -> HookState]
         /\ [h EXCEPT ![p].pc = "greeted", ![p].mirror = m] \in [Process -> HookState]
<1>1. [h EXCEPT ![p].pc = "greeted", ![p].mirror = m] \in [Process -> HookState]
  BY ZenonT(90) DEF HookState
<1> DEFINE a == [h EXCEPT ![p].pc = "greeted", ![p].st = st]
<1>2. a \in [Process -> HookState]
  BY ZenonT(90) DEF HookState
<1> HIDE DEF a
<1>3. [a EXCEPT ![p].mirror = m] \in [Process -> HookState]
  BY <1>2, ZenonT(90) DEF HookState
<1> QED BY <1>1, <1>3 DEF a

LEMMA LeaveTyped ==
  ASSUME hook \in [Process -> HookState], NEW p \in Process, Leave(p),
         lock \in Process \cup {NoProcess, Recaller}
  PROVE  /\ hook' \in [Process -> HookState]
         /\ lock' \in Process \cup {NoProcess, Recaller}
BY NoHookTyped DEF Leave, DropLock

LEMMA SpendTyped ==
  ASSUME spent \in [Misfortune -> Nat], NEW m \in Misfortune, Spend(m)
  PROVE  spent' \in [Misfortune -> Nat]
BY DEF Spend

LEMMA TakeLockTyped ==
  ASSUME spent \in [Misfortune -> Nat], NEW p \in Process, TakeLock(p),
         lock \in Process \cup {NoProcess, Recaller}
  PROVE  /\ spent' \in [Misfortune -> Nat]
         /\ lock' \in Process \cup {NoProcess, Recaller}
BY SpendTyped DEF TakeLock, Misfortune

\* The turn gate, the truncated file, the quiet delta and the post.
LEMMA ReadTyped ==
  ASSUME TypeOK, NEW p \in Process, NEW st \in State, Read(p, st)
  PROVE  hook' \in [Process -> HookState]
<1> DEFINE from == IF Size < st.offset THEN 0 ELSE st.offset
           rest == [st EXCEPT !.offset = from, !.turns = 0]
           req  == [chunk |-> st.chunk, from |-> from, to |-> Consumed]
<1>1. from \in Cursor
  BY ZeroTyped DEF State
<1>2. st.chunk \in Nat /\ Consumed \in Cursor
  BY DEF TypeOK, State, Consumed
<1>3. [st EXCEPT !.offset = from] \in State
  <2> HIDE DEF from
  <2> QED BY <1>1 DEF State
<1>4. rest \in State /\ [rest EXCEPT !.offset = Consumed] \in State
  <2>1. rest \in State
    <3> HIDE DEF from
    <3> QED BY <1>1, ZeroTyped DEF State
  <2>2. [rest EXCEPT !.offset = Consumed] \in State
    <3> HIDE DEF rest
    <3> QED BY <2>1, <1>2 DEF State
  <2> QED BY <2>1, <2>2
<1>5. req \in RequestState
  <2> HIDE DEF from
  <2> QED BY <1>1, <1>2 DEF RequestState
<1>6. \/ Goto(p, "store", st) \/ Goto(p, "store", rest)
      \/ Goto(p, "store", [rest EXCEPT !.offset = Consumed])
      \/ hook' = [hook EXCEPT ![p].pc = "post", ![p].st = [st EXCEPT !.offset = from],
                              ![p].req = req]
  BY Zenon DEF Read
<1>7. hook \in [Process -> HookState]
  BY DEF TypeOK
<1> HIDE DEF from, rest, req
<1>8. CASE hook' = [hook EXCEPT ![p].pc = "post", ![p].st = [st EXCEPT !.offset = from],
                              ![p].req = req]
  BY <1>3, <1>5, <1>7, <1>8, ToPostTyped, Zenon
<1>9. CASE ~(hook' = [hook EXCEPT ![p].pc = "post", ![p].st = [st EXCEPT !.offset = from],
                              ![p].req = req])
  BY <1>4, <1>6, <1>7, <1>9, GotoTyped DEF ControlPoint
<1> QED BY <1>8, <1>9

\* What the daemon writes while it handles a post.
LEMMA LargerTyped ==
  ASSUME NEW n \in Nat, NEW a \in 0..n, NEW b \in 0..n
  PROVE  Larger(a, b) \in 0..n
BY DEF Larger

LEMMA SettlesTyped ==
  ASSUME TypeOK, NEW req \in RequestState, req.chunk \in 0..MaxChunk, Settles(req)
  PROVE  /\ row' \in RowState /\ lastChunk' \in 0..MaxChunk
         /\ jobs' = jobs /\ docs' = docs
<1>1. row \in RowState /\ req.to \in Cursor /\ lastChunk \in 0..MaxChunk
  BY DEF TypeOK, RowState, RequestState
<1>2. row' = Upsert(row, req.to, 0, 0, req.to)
  BY DEF Settles, Mirrored, MirrorSettled
<1>3. lastChunk' \in 0..MaxChunk
  <2>1. lastChunk' = Larger(lastChunk, req.chunk) /\ MaxChunk \in Nat
    BY HookAssumption, Zenon DEF Settles, Mirrored
  <2> QED BY <1>1, <2>1, LargerTyped
<1> QED BY <1>1, <1>2, <1>3, ZeroTyped, UpsertTyped DEF Settles

DocState == [stamp : SUBSET (1..Lines), from : Cursor, to : Cursor]

LEMMA QueuesTyped ==
  ASSUME TypeOK, NEW req \in RequestState, req.chunk \in 0..MaxChunk,
         NEW status \in {"open", "failed"}, Queues(req, status)
  PROVE  /\ row' \in RowState /\ lastChunk' \in 0..MaxChunk
         /\ jobs' \in Seq(JobState) /\ Len(jobs') = Len(jobs) + 1
         /\ docs' \in [0..MaxChunk -> DocState]
<1>1. row \in RowState /\ lastChunk \in 0..MaxChunk
  BY DEF TypeOK, RowState
<1>2. req.to \in Cursor /\ req.from \in Cursor
  BY DEF RequestState
<1>3. row' = Upsert(row, req.to, 0, 0, 0)
  BY DEF Queues, Mirrored, MirrorQueued
<1>4. lastChunk' \in 0..MaxChunk
  BY <1>1, LargerTyped, HookAssumption DEF Queues, Mirrored
<1>5. jobs' \in Seq(JobState) /\ Len(jobs') = Len(jobs) + 1
  <2> DEFINE job == [status |-> status, chunk |-> req.chunk,
                     from |-> req.from, to |-> req.to]
  <2>1. job \in JobState
    BY <1>2 DEF JobState
  <2>2. jobs' = Append(jobs, job) /\ jobs \in Seq(JobState)
    BY DEF Queues, TypeOK
  <2> HIDE DEF job
  <2> QED BY <2>1, <2>2, AppendProperties
<1>6. docs' \in [0..MaxChunk -> DocState]
  <2>1. docs \in [0..MaxChunk -> DocState]
    BY DEF TypeOK, DocState
  <2>2. [stamp |-> {}, from |-> req.from, to |-> req.to] \in DocState
    BY <1>2 DEF DocState
  <2> QED BY <2>1, <2>2 DEF Queues
<1> QED BY <1>1, <1>2, <1>3, <1>4, <1>5, <1>6, ZeroTyped, UpsertTyped

-----------------------------------------------------------------------------
(***************************************************************************)
(* Type correctness: one step per action.  Only Write needs more than the  *)
(* types: a partial line has room to be completed.                         *)
(***************************************************************************)
LEMMA TypedInit == Init => Typed
<1> SUFFICES ASSUME Init PROVE Typed
  OBVIOUS
<1>1. len \in Cursor /\ lastChunk \in 0..MaxChunk /\ taken \subseteq 1..Lines
  BY ZeroTyped, HookAssumption DEF Init
<1>b. bank \in BOOLEAN /\ torn \in BOOLEAN /\ ended \in BOOLEAN /\ torn = FALSE
  BY Zenon DEF Init
<1>2. hook \in [Process -> HookState]
  BY NoHookTyped DEF Init
<1>3. recall \in [pc : {"idle", "asked", "store"}, st : State]
  BY NewStateTyped DEF Init, NoRecall
<1>4. jobs \in Seq(JobState)
  BY EmptySeq DEF Init
<1>5. docs \in [0..MaxChunk -> [stamp : SUBSET (1..Lines), from : Cursor, to : Cursor]]
  BY ZeroTyped DEF Init, NoDoc
<1>6. row \in [present : BOOLEAN, byte : Cursor, confirmed : Cursor, fresh : BOOLEAN]
  BY ZeroTyped DEF Init, NoRow
<1>7. spent \in [Misfortune -> Nat] /\ late = {} /\ file = NoFile /\ lock = NoProcess
  BY DEF Init
<1> QED BY <1>1, <1>b, <1>2, <1>3, <1>4, <1>5, <1>6, <1>7 DEF Typed, TypeOK

LEMMA TypedNext == Typed /\ [Next]_vars => Typed'
<1> SUFFICES ASSUME Typed, [Next]_vars PROVE Typed'
  OBVIOUS
<1>0. TypeOK /\ (torn => len < Lines)
  BY DEF Typed
<1>t. /\ hook \in [Process -> HookState] /\ spent \in [Misfortune -> Nat]
      /\ lock \in Process \cup {NoProcess, Recaller}
      /\ file # NoFile => file \in State
      /\ \A p \in Process : hook[p] \in HookState /\ hook[p].st \in State
                              /\ hook[p].req \in RequestState
      /\ \A p \in Process : Posting(p) => Request(p).chunk \in 0..MaxChunk
  <2>1. /\ hook \in [Process -> HookState] /\ spent \in [Misfortune -> Nat]
        /\ lock \in Process \cup {NoProcess, Recaller}
        /\ file \in State \cup {NoFile}
    BY <1>0 DEF TypeOK
  <2>2. \A p \in Process : hook[p] \in HookState /\ hook[p].st \in State
                           /\ hook[p].req \in RequestState
    BY <2>1 DEF HookState
  <2>3. \A p \in Process : Posting(p) => Request(p).chunk \in 0..MaxChunk
    BY <2>2, HookAssumption DEF Posting, Request, RequestState
  <2> QED BY <2>1, <2>2, <2>3
<1>1. ASSUME NEW p \in Process, Stop(p) PROVE Typed'
  <2>1. spent' \in [Misfortune -> Nat] /\ lock' \in Process \cup {NoProcess, Recaller}
    BY <1>1, <1>t, TakeLockTyped DEF Stop
  <2>2. hook' \in [Process -> HookState]
    BY <1>1, <1>t, NewStateTyped, UpdatesTyped, GotoTyped DEF Stop, ControlPoint
  <2> QED BY <1>0, <1>1, <2>1, <2>2 DEF Stop, Typed, TypeOK, text, daemon
<1>2. ASSUME NEW p \in Process, Recover(p) PROVE Typed'
  <2>1. spent' \in [Misfortune -> Nat]
    BY <1>2, <1>t, SpendTyped DEF Recover, Misfortune
  <2>2. hook' \in [Process -> HookState]
    BY <1>0, <1>2, <1>t, NewStateTyped, RecoveredTyped, UpdatesTyped, GotoTyped
       DEF Recover, ControlPoint
  <2> QED BY <1>0, <1>2, <2>1, <2>2 DEF Recover, Typed, TypeOK, text, local, daemon
<1>3. ASSUME NEW p \in Process, SessionEnd(p) PROVE Typed'
  <2>1. hook' \in [Process -> HookState]
    BY <1>3, <1>t, ZenonT(90) DEF SessionEnd, HookState
  <2> QED BY <1>0, <1>3, <2>1 DEF SessionEnd, Typed, TypeOK, local, daemon
<1>4. ASSUME NEW p \in Process, CatchUp(p) PROVE Typed'
  <2>1. hook' \in [Process -> HookState]
    BY <1>4, <1>t, ZenonT(90) DEF CatchUp, HookState
  <2> QED BY <1>0, <1>4, <2>1 DEF CatchUp, Typed, TypeOK, text, local, daemon
<1>5. ASSUME NEW p \in Process, Begin(p) PROVE Typed'
  <2>1. spent' \in [Misfortune -> Nat] /\ lock' \in Process \cup {NoProcess, Recaller}
    BY <1>5, <1>t, TakeLockTyped DEF Begin
  <2>2. hook' \in [Process -> HookState]
    BY <1>5, <1>t, NoHookTyped, GotoTyped DEF Begin, ControlPoint
  <2> QED BY <1>0, <1>5, <2>1, <2>2 DEF Begin, Typed, TypeOK, text, daemon
<1>6. ASSUME NEW p \in Process, SessionStart(p) PROVE Typed'
  <2>1. row' \in RowState /\ bank' \in BOOLEAN /\ spent' \in [Misfortune -> Nat]
    <3>1. row \in RowState /\ bank \in BOOLEAN
      BY <1>0 DEF TypeOK, RowState
    <3>2. Upsert(row, 0, 0, 0, 0) \in RowState
      BY <3>1, ZeroTyped, UpsertTyped
    <3> QED BY <1>6, <1>t, <3>1, <3>2, SpendTyped DEF SessionStart, Misfortune
  <2>2. hook' \in [Process -> HookState]
    <3>1. Recovered \in State
      BY <1>0, RecoveredTyped
    <3>2. CASE hook' = [hook EXCEPT ![p].pc = "greeted", ![p].st = Recovered,
                                    ![p].mirror = "ok"]
      BY <1>t, <3>1, <3>2, ToGreetedTyped, Zenon
    <3>3. ASSUME NEW m \in {"none", "transport"},
                 hook' = [hook EXCEPT ![p].pc = "greeted", ![p].mirror = m]
          PROVE  hook' \in [Process -> HookState]
      BY <1>t, <3>1, <3>3, ToGreetedTyped
    <3> QED BY <1>6, <3>2, <3>3, Zenon DEF SessionStart
  <2>3. ended' \in BOOLEAN
    BY <1>6, Zenon DEF SessionStart
  <2> QED BY <1>0, <1>6, <2>1, <2>2, <2>3
          DEF SessionStart, Typed, TypeOK, local, RowState
<1>7. ASSUME NEW p \in Process, Greet(p) PROVE Typed'
  <2>1. spent' \in [Misfortune -> Nat] /\ lock' \in Process \cup {NoProcess, Recaller}
    BY <1>7, <1>t, TakeLockTyped DEF Greet
  <2>2. hook' \in [Process -> HookState]
    <3> DEFINE st == IF file = NoFile THEN hook[p].st ELSE file
    <3>1. st \in State
      BY <1>t
    <3>2. \/ Goto(p, "store", Healed(st)) \/ Goto(p, "store", st)
          \/ Goto(p, "store", [st EXCEPT !.transport = Upto(@, BreakerAt)])
      BY <1>7 DEF Greet
    <3> HIDE DEF st
    <3> QED BY <1>t, <3>1, <3>2, UpdatesTyped, GotoTyped DEF ControlPoint
  <2> QED BY <1>0, <1>7, <2>1, <2>2 DEF Greet, Typed, TypeOK, text, daemon
<1>8. ASSUME NEW p \in Process, SkipTurn(p) PROVE Typed'
  <2>1. hook' \in [Process -> HookState]
    BY <1>8, <1>t, GotoTyped DEF SkipTurn, ControlPoint
  <2> QED BY <1>0, <1>8, <2>1 DEF SkipTurn, Typed, TypeOK, text, local, daemon
<1>9. ASSUME NEW p \in Process, Advance(p) PROVE Typed'
  <2>1. hook' \in [Process -> HookState]
    <3>1. \/ Read(p, hook[p].st) \/ Read(p, [hook[p].st EXCEPT !.pending = NoPending])
          \/ Read(p, RolledBack(hook[p].st)) \/ Goto(p, "store", hook[p].st)
      BY <1>9, Zenon DEF Advance
    <3>2. /\ hook[p].st \in State /\ RolledBack(hook[p].st) \in State
          /\ [hook[p].st EXCEPT !.pending = NoPending] \in State
      BY <1>t, UpdatesTyped
    <3>3. ASSUME NEW st \in State, Read(p, st) PROVE hook' \in [Process -> HookState]
      BY <1>0, <3>3, ReadTyped
    <3> QED BY <1>t, <3>1, <3>2, <3>3, GotoTyped DEF ControlPoint
  <2> QED BY <1>0, <1>9, <2>1 DEF Advance, Typed, TypeOK, text, local, daemon
<1>10. ASSUME NEW p \in Process, LookupFails(p) PROVE Typed'
  <2>1. hook' \in [Process -> HookState]
    BY <1>10, <1>t, UpdatesTyped, GotoTyped DEF LookupFails, ControlPoint
  <2>2. spent' \in [Misfortune -> Nat]
    BY <1>10, <1>t, SpendTyped DEF LookupFails, Misfortune
  <2> QED BY <1>0, <1>10, <2>1, <2>2 DEF LookupFails, Typed, TypeOK, text, local, daemon
<1>11. ASSUME NEW p \in Process, Store(p) PROVE Typed'
  <2>1. /\ hook' \in [Process -> HookState]
        /\ lock' \in Process \cup {NoProcess, Recaller}
    BY <1>11, <1>t, LeaveTyped DEF Store
  <2>2. spent' \in [Misfortune -> Nat]
    BY <1>11, <1>t, SpendTyped DEF Store, Misfortune
  <2>3. file' \in State \cup {NoFile}
    BY <1>0, <1>11, <1>t DEF Store, TypeOK
  <2> QED BY <1>0, <1>11, <2>1, <2>2, <2>3 DEF Store, Typed, TypeOK, text, daemon
<1>12. ASSUME NEW p \in Process, Die(p) PROVE Typed'
  <2>1. /\ hook' \in [Process -> HookState]
        /\ lock' \in Process \cup {NoProcess, Recaller}
    BY <1>12, <1>t, LeaveTyped DEF Die
  <2>2. spent' \in [Misfortune -> Nat]
    BY <1>12, <1>t, SpendTyped DEF Die, Misfortune
  <2> QED BY <1>0, <1>12, <2>1, <2>2 DEF Die, Typed, TypeOK, text, daemon

<1>13. ASSUME NEW p \in Process, Answered(p) PROVE Typed'
  <2>1. /\ row' \in RowState /\ lastChunk' \in 0..MaxChunk
        /\ jobs' \in Seq(JobState) /\ docs' \in [0..MaxChunk -> DocState]
    <3>1. CASE Settles(Request(p))
      BY <1>0, <1>13, <1>t, <3>1, SettlesTyped DEF Answered, Request, TypeOK, DocState
    <3>2. CASE Queues(Request(p), "open")
      BY <1>0, <1>13, <1>t, <3>2, QueuesTyped DEF Answered, Request
    <3> QED BY <1>13, <3>1, <3>2 DEF Answered
  <2>2. hook' \in [Process -> HookState]
    <3>1. Len(jobs') \in Nat
      BY <2>1, LenProperties
    <3>2. \A n \in Nat : Accept(hook[p].st, Request(p), n) \in State
      BY <1>t, AcceptTyped DEF Request
    <3>3. \E n \in Nat : Goto(p, "store", Accept(hook[p].st, Request(p), n))
      BY <1>13, <3>1 DEF Answered
    <3> QED BY <1>t, <3>2, <3>3, GotoTyped DEF ControlPoint
  <2> QED BY <1>0, <1>13, <2>1, <2>2
          DEF Answered, Typed, TypeOK, text, local, RowState, DocState
<1>14. ASSUME NEW p \in Process, OverBudget(p) PROVE Typed'
  <2>1. /\ row' \in RowState /\ lastChunk' \in 0..MaxChunk
        /\ jobs' \in Seq(JobState) /\ docs' \in [0..MaxChunk -> DocState]
    BY <1>0, <1>14, <1>t, QueuesTyped DEF OverBudget, Request
  <2>2. hook' \in [Process -> HookState]
    BY <1>14, <1>t, UpdatesTyped, GotoTyped DEF OverBudget, ControlPoint
  <2>3. spent' \in [Misfortune -> Nat]
    BY <1>14, <1>t, SpendTyped DEF OverBudget, Misfortune
  <2> QED BY <1>0, <1>14, <2>1, <2>2, <2>3
          DEF OverBudget, Typed, TypeOK, text, local, RowState, DocState
<1>15. ASSUME NEW p \in Process, Refused(p) PROVE Typed'
  <2>1. hook' \in [Process -> HookState]
    <3>1. \E st \in State : Goto(p, "store", st)
      BY <1>15, <1>t, UpdatesTyped DEF Refused
    <3> QED BY <1>t, <3>1, GotoTyped DEF ControlPoint
  <2>2. spent' \in [Misfortune -> Nat]
    BY <1>15, <1>t, SpendTyped DEF Refused, Misfortune
  <2>3. bank' \in BOOLEAN
    BY <1>0, <1>15, Zenon DEF Refused, TypeOK
  <2> QED BY <1>0, <1>15, <2>1, <2>2, <2>3 DEF Refused, Typed, TypeOK, text, local
<1>16. ASSUME NEW p \in Process, TimedOut(p) PROVE Typed'
  <2>1. hook' \in [Process -> HookState]
    BY <1>16, <1>t, UpdatesTyped, GotoTyped DEF TimedOut, ControlPoint
  <2>2. spent' \in [Misfortune -> Nat]
    BY <1>16, <1>t, SpendTyped DEF TimedOut, Misfortune
  <2>3. bank' \in BOOLEAN
    BY <1>0, <1>16, Zenon DEF TimedOut, TypeOK
  <2>4. late' \subseteq [chunk : 0..MaxChunk, from : Cursor, to : Cursor]
    <3>1. Request(p) \in [chunk : 0..MaxChunk, from : Cursor, to : Cursor]
      BY <1>16, <1>t DEF TimedOut, Request, RequestState
    <3> QED BY <1>0, <1>16, <3>1 DEF TimedOut, TypeOK
  <2> QED BY <1>0, <1>16, <2>1, <2>2, <2>3, <2>4 DEF TimedOut, Typed, TypeOK, text, local
<1>17. CASE HandleLate
  <2>1. PICK req \in late : HandleLate!(req)
    BY <1>17 DEF HandleLate
  <2>2. req \in RequestState /\ req.chunk \in 0..MaxChunk
    <3>1. req \in [chunk : 0..MaxChunk, from : Cursor, to : Cursor]
      BY <1>0, <2>1 DEF TypeOK
    <3> QED BY <3>1, HookAssumption DEF RequestState
  <2>3. /\ row' \in RowState /\ lastChunk' \in 0..MaxChunk
        /\ jobs' \in Seq(JobState) /\ docs' \in [0..MaxChunk -> DocState]
    <3>1. CASE Settles(req)
      BY <1>0, <2>2, <3>1, SettlesTyped DEF TypeOK, DocState
    <3>2. CASE Queues(req, "open")
      BY <1>0, <2>2, <3>2, QueuesTyped
    <3>3. CASE UNCHANGED <<jobs, docs, row, lastChunk>>
      BY <1>0, <3>3 DEF TypeOK, RowState, DocState
    <3> QED BY <2>1, <3>1, <3>2, <3>3
  <2>4. late' \subseteq late
    BY <2>1
  <2> QED BY <1>0, <2>1, <2>3, <2>4 DEF Typed, TypeOK, text, local, RowState, DocState
<1>18. ASSUME NEW j \in DOMAIN jobs, Settle(j) PROVE Typed'
  <2>1. PICK status \in {"done", "partial", "failed"} :
          jobs' = [jobs EXCEPT ![j].status = status]
    BY <1>18 DEF Settle
  <2>2. jobs \in Seq(JobState) /\ jobs \in [DOMAIN jobs -> JobState]
    BY <1>0, LenProperties DEF TypeOK
  <2>3. jobs' \in Seq(JobState)
    <3>1. jobs' \in [DOMAIN jobs -> JobState]
      BY <2>1, <2>2 DEF JobState
    <3> QED BY <2>2, <3>1, SameShape
  <2>4. jobs[j].chunk \in 0..MaxChunk /\ jobs[j].from \in Cursor /\ jobs[j].to \in Cursor
    BY <2>2 DEF JobState
  <2>5. row' \in RowState
    <3>1. row' = row \/ row' = Upsert(row, 0, jobs[j].from, jobs[j].to, 0)
      BY <1>18 DEF Settle, ConfirmRange
    <3>2. row \in RowState
      BY <1>0 DEF TypeOK, RowState
    <3> QED BY <2>4, <3>1, <3>2, ZeroTyped, UpsertTyped
  <2>6. Said(jobs[j].from, jobs[j].to) \subseteq 1..Lines
    BY <2>4, SaidInside
  <2>7. docs' \in [0..MaxChunk -> DocState] /\ taken' \subseteq 1..Lines
    <3>1. docs \in [0..MaxChunk -> DocState] /\ taken \subseteq 1..Lines
      BY <1>0 DEF TypeOK, DocState
    <3>2. \/ docs' = docs
          \/ docs' = [docs EXCEPT ![jobs[j].chunk].stamp = Said(jobs[j].from, jobs[j].to)]
      BY <1>18, Zenon DEF Settle
    <3>3. taken' = taken \/ taken' = taken \cup Said(jobs[j].from, jobs[j].to)
      BY <1>18, Zenon DEF Settle
    <3> QED BY <2>4, <2>6, <3>1, <3>2, <3>3 DEF DocState
  <2>8. spent' \in [Misfortune -> Nat]
    BY <1>18, <1>t, SpendTyped DEF Settle, Misfortune
  <2> QED BY <1>0, <1>18, <2>3, <2>5, <2>7, <2>8
          DEF Settle, Typed, TypeOK, text, local, RowState, DocState
<1>19. CASE DeleteBank
  <2>1. jobs \in Seq(JobState) /\ jobs \in [DOMAIN jobs -> JobState]
    BY <1>0, LenProperties DEF TypeOK
  <2>2. jobs' \in Seq(JobState)
    <3>1. jobs' \in [DOMAIN jobs -> JobState]
      BY <1>19, <2>1 DEF DeleteBank, JobState
    <3> QED BY <2>1, <3>1, SameShape
  <2>3. row' \in RowState /\ docs' \in [0..MaxChunk -> DocState] /\ lastChunk' \in 0..MaxChunk
    BY <1>19, ZeroTyped, HookAssumption DEF DeleteBank, NoRow, NoDoc, RowState, DocState
  <2>4. spent' \in [Misfortune -> Nat] /\ bank' \in BOOLEAN
    BY <1>19, <1>t, SpendTyped DEF DeleteBank, Misfortune
  <2> QED BY <1>0, <1>19, <2>2, <2>3, <2>4
          DEF DeleteBank, Typed, TypeOK, text, local, RowState, DocState
<1>20. CASE Ask
  <2>1. spent' \in [Misfortune -> Nat]
    BY <1>20, <1>t, SpendTyped DEF Ask, Misfortune
  <2>2. recall' \in [pc : {"idle", "asked", "store"}, st : State]
    BY <1>0, <1>20 DEF Ask, TypeOK
  <2> QED BY <1>0, <1>20, <2>1, <2>2 DEF Ask, Typed, TypeOK, text, local, daemon
<1>21. ASSUME NEW st \in State, NEW changed \in BOOLEAN, Record(st, changed),
              UNCHANGED <<text, file, hook, late, daemon, spent>>
       PROVE  Typed'
  <2>1. recall' \in [pc : {"idle", "asked", "store"}, st : State]
    BY <1>21, NewStateTyped DEF Record, NoRecall
  <2>2. lock' \in Process \cup {NoProcess, Recaller}
    BY <1>t, <1>21 DEF Record
  <2> QED BY <1>0, <1>21, <2>1, <2>2 DEF Typed, TypeOK, text, daemon
<1>22. Baseline \in State
  BY <1>t, NewStateTyped DEF Baseline
<1>23. CASE RecordSuccess
  <2>1. Healed(Baseline) \in State
    BY <1>22, UpdatesTyped
  <2>2. \E changed \in BOOLEAN : Record(Healed(Baseline), changed)
    BY <1>23, Zenon DEF RecordSuccess
  <2> QED BY <1>21, <1>23, <2>1, <2>2 DEF RecordSuccess
<1>24. CASE RecordFailure
  <2>1. TransportFailure(Baseline) \in State
    BY <1>22, UpdatesTyped
  <2> QED BY <1>21, <1>22, <1>24, <2>1 DEF RecordFailure
<1>25. CASE RecallStore
  <2>1. spent' \in [Misfortune -> Nat]
    BY <1>25, <1>t, SpendTyped DEF RecallStore, Misfortune
  <2>2. recall' \in [pc : {"idle", "asked", "store"}, st : State]
    BY <1>25, NewStateTyped DEF RecallStore, NoRecall
  <2>3. file' \in State \cup {NoFile} /\ lock' \in Process \cup {NoProcess, Recaller}
    BY <1>0, <1>25 DEF RecallStore, DropLock, TypeOK
  <2> QED BY <1>0, <1>25, <2>1, <2>2, <2>3 DEF RecallStore, Typed, TypeOK, text, daemon
<1>26. CASE Write
  <2>1. len' \in Cursor /\ (torn' => len' < Lines)
    BY <1>0, <1>26, HookAssumption DEF Write, TypeOK, Cursor
  <2>2. torn' \in BOOLEAN
    BY <1>26, Zenon DEF Write
  <2> QED BY <1>0, <1>26, <2>1, <2>2 DEF Write, Typed, TypeOK, local, daemon
<1>27. CASE Wipe
  <2>1. spent' \in [Misfortune -> Nat]
    BY <1>27, <1>t, SpendTyped DEF Wipe, Misfortune
  <2> QED BY <1>0, <1>27, <2>1 DEF Wipe, Typed, TypeOK, text, daemon
<1>28. ASSUME NEW field \in {"breaker", "poisoned"}, Lapse(field) PROVE Typed'
  <2>1. \A st \in State : [st EXCEPT ![field] = FALSE] \in State
    BY DEF State
  <2>2. hook' \in [Process -> HookState]
    <3>1. \A h \in HookState : [h EXCEPT !.st[field] = FALSE] \in HookState
      BY <2>1 DEF HookState
    <3> QED BY <1>28, <1>t, <3>1 DEF Lapse
  <2>3. recall' \in [pc : {"idle", "asked", "store"}, st : State]
    BY <1>0, <1>28, <2>1 DEF Lapse, TypeOK
  <2>4. file' \in State
    BY <1>28, <1>t, <2>1 DEF Lapse
  <2> QED BY <1>0, <1>28, <2>2, <2>3, <2>4 DEF Lapse, Typed, TypeOK, text, daemon
<1>29. CASE UNCHANGED vars
  BY <1>0, <1>29 DEF vars, Typed, TypeOK, text, local, daemon
<1>30. CASE Next
  BY <1>1, <1>2, <1>3, <1>4, <1>5, <1>6, <1>7, <1>8, <1>9, <1>10, <1>11, <1>12,
     <1>13, <1>14, <1>15, <1>16, <1>17, <1>18, <1>19, <1>20, <1>23, <1>24, <1>25,
     <1>26, <1>27, <1>28, <1>30, Zenon
     DEF Next, Run, Misfortunes, CooldownEnds, PoisonWindowEnds
<1> QED BY <1>29, <1>30

\* Every state of a session, its hooks and its rows is well typed: cursors stay
\* inside the transcript, counters stop at their thresholds.
THEOREM HookTypeCorrect == Spec => []TypeOK
<1>1. Typed => TypeOK
  BY DEF Typed
<1> QED BY <1>1, TypedInit, TypedNext, PTL DEF Spec

-----------------------------------------------------------------------------
(***************************************************************************)
(* Soundness.  First what each update does to the claim a state makes.     *)
(***************************************************************************)

\* Jobs keep their identity and their range: they are settled, never reused.
Extends(js, new) ==
  /\ DOMAIN js \subseteq DOMAIN new
  /\ \A j \in DOMAIN js : new[j].from = js[j].from /\ new[j].to = js[j].to

LEMMA HeldKept ==
  ASSUME NEW st, NEW js, NEW new, NEW tk, NEW more, tk \subseteq more,
         Extends(js, new), Held(st, js, tk)
  PROVE  Held(st, new, more)
BY DEF Extends, Held, Covered

LEMMA CoveredSplit ==
  ASSUME NEW a \in Cursor, NEW b \in Cursor, NEW tk, Covered(a, tk),
         Said(a, b) \subseteq tk
  PROVE  Covered(b, tk)
<1>1. a \in Nat /\ b \in Nat
  BY HookAssumption DEF Cursor
<1>2. Said(0, b) \subseteq Said(0, a) \cup Said(a, b)
  BY <1>1, SaidSplit
<1> QED BY <1>2 DEF Covered

LEMMA NewStateHeld == \A js, tk : Held(NewState, js, tk) /\ HookSound(NoHook, js, tk)
BY NothingSaidYet DEF Held, NewState, HookSound, NoHook, PostsFromCursor

\* What touches neither the cursor nor the pending job.
LEMMA UpdatesHeld ==
  ASSUME NEW st \in State, NEW js, NEW tk, Held(st, js, tk)
  PROVE  /\ Held(Counted(st), js, tk)
         /\ Held(TransportFailure(st), js, tk)
         /\ Held(Rejection(st), js, tk)
         /\ Held(Healed(st), js, tk)
         /\ Held([st EXCEPT !.transport = Upto(@, BreakerAt)], js, tk)
<1>1. ASSUME NEW new, new.offset = st.offset, new.pending = st.pending
      PROVE  Held(new, js, tk)
  BY <1>1 DEF Held
<1>2. Held(Counted(st), js, tk)
  BY <1>1 DEF Counted, State
<1>3. Held(TransportFailure(st), js, tk)
  BY <1>1 DEF TransportFailure, State
<1>4. Held(Rejection(st), js, tk)
  BY <1>1 DEF Rejection, State
<1>5. Held(Healed(st), js, tk)
  BY <1>1 DEF Healed, State
<1>6. Held([st EXCEPT !.transport = Upto(@, BreakerAt)], js, tk)
  BY <1>1 DEF State
<1> QED BY <1>2, <1>3, <1>4, <1>5, <1>6

LEMMA GotoSound ==
  ASSUME hook \in [Process -> HookState], NEW p \in Process, NEW pc, pc # "post",
         NEW st, Goto(p, pc, st), NEW js, NEW tk, Held(st, js, tk),
         \A q \in Process : HookSound(hook[q], js, tk)
  PROVE  \A q \in Process : HookSound(hook'[q], js, tk)
<1>1. \A q \in Process : q # p => hook'[q] = hook[q]
  BY DEF Goto
<1>2. hook'[p].st = st /\ hook'[p].pc = pc
  BY DEF Goto, HookState
<1> QED BY <1>1, <1>2 DEF HookSound, PostsFromCursor

\* Past the reconcile, the cursor only moves to where it is covered, and what
\* is posted starts there.
LEMMA ReadSound ==
  ASSUME TypeOK, NEW p \in Process, NEW st \in State, Read(p, st),
         st.pending = NoPending, Covered(st.offset, taken),
         \A q \in Process : HookSound(hook[q], jobs, taken)
  PROVE  \A q \in Process : HookSound(hook'[q], jobs, taken)
<1> DEFINE from == IF Size < st.offset THEN 0 ELSE st.offset
           moved == [st EXCEPT !.offset = from]
           rest == [st EXCEPT !.offset = from, !.turns = 0]
           req  == [chunk |-> st.chunk, from |-> from, to |-> Consumed]
<1>1. from \in Cursor /\ Covered(from, taken)
  BY ZeroTyped, NothingSaidYet DEF State
<1>2. len \in Cursor
  BY DEF TypeOK
<1>3. hook \in [Process -> HookState]
  BY DEF TypeOK
<1>4. Held(st, jobs, taken)
  BY DEF Held
<1>5. \A new : new.pending = NoPending /\ Covered(new.offset, taken)
             => Held(new, jobs, taken)
  BY DEF Held
<1>6. /\ rest.pending = NoPending /\ rest.offset = from
      /\ moved.pending = NoPending /\ moved.offset = from
      /\ [rest EXCEPT !.offset = Consumed].pending = NoPending
      /\ [rest EXCEPT !.offset = Consumed].offset = len
  <2> HIDE DEF from
  <2> QED BY DEF State, Consumed
<1>7. \/ Goto(p, "store", st) \/ Goto(p, "store", rest)
      \/ /\ Messages(from, len) = {}
         /\ Goto(p, "store", [rest EXCEPT !.offset = Consumed])
      \/ hook' = [hook EXCEPT ![p].pc = "post", ![p].st = moved, ![p].req = req]
  BY Zenon DEF Read
<1>8. req.from = from
  OBVIOUS
<1> HIDE DEF from, rest, moved, req
<1>9. CASE Goto(p, "store", st)
  BY <1>3, <1>4, <1>9, GotoSound
<1>10. CASE Goto(p, "store", rest)
  <2>1. Held(rest, jobs, taken)
    BY <1>1, <1>5, <1>6
  <2> QED BY <1>3, <1>10, <2>1, GotoSound
<1>11. CASE /\ Messages(from, len) = {}
            /\ Goto(p, "store", [rest EXCEPT !.offset = Consumed])
  <2>1. Said(from, len) \subseteq taken
    BY <1>1, <1>2, <1>11, SaidInside
  <2>2. Covered(len, taken)
    BY <1>1, <1>2, <2>1, CoveredSplit
  <2>3. Held([rest EXCEPT !.offset = Consumed], jobs, taken)
    BY <1>5, <1>6, <2>2
  <2> QED BY <1>3, <1>11, <2>3, GotoSound
<1>12. CASE hook' = [hook EXCEPT ![p].pc = "post", ![p].st = moved, ![p].req = req]
  <2>1. \A q \in Process : q # p => hook'[q] = hook[q]
    BY <1>3, <1>12
  <2>2. hook'[p].st = moved /\ hook'[p].req = req
    BY <1>3, <1>12 DEF HookState
  <2>3. Held(moved, jobs, taken)
    BY <1>1, <1>5, <1>6
  <2>4. HookSound(hook'[p], jobs, taken)
    BY <1>6, <1>8, <2>2, <2>3 DEF HookSound, PostsFromCursor
  <2> QED BY <2>1, <2>4
<1> QED BY <1>7, <1>9, <1>10, <1>11, <1>12

\* A cursor of the mirror is never invented: it is one of those it merges.
LEMMA UpsertCovered ==
  ASSUME NEW r, NEW byte, NEW from, NEW to, NEW settled, NEW tk,
         Covered(r.confirmed, tk), Covered(to, tk), Covered(settled, tk)
  PROVE  Covered(Upsert(r, byte, from, to, settled).confirmed, tk)
<1>1. Upsert(r, byte, from, to, settled).confirmed \in {r.confirmed, to, settled, 0}
  BY DEF Upsert, Larger, RangeConfirm, SettledConfirm
<1> QED BY <1>1, NothingSaidYet

\* A posted range that the daemon answers for by itself is covered.
LEMMA SettlesSound ==
  ASSUME TypeOK, NEW req \in RequestState, req.chunk \in 0..MaxChunk, Settles(req),
         Covered(req.from, taken), StampsSound(docs, taken), Covered(row.confirmed, taken)
  PROVE  Covered(req.to, taken) /\ Covered(row'.confirmed, taken)
<1>1. Said(req.from, req.to) \subseteq taken
  <2>1. CASE Said(req.from, req.to) = {}
    BY <2>1
  <2>2. CASE Ingested(req)
    <3>1. req.chunk \in DOMAIN docs
      BY DEF TypeOK
    <3> QED BY <2>2, <3>1 DEF Ingested, StampsSound
  <2> QED BY <2>1, <2>2 DEF Settles
<1>2. Covered(req.to, taken)
  BY <1>1, CoveredSplit DEF RequestState
<1>3. row' = Upsert(row, req.to, 0, 0, req.to)
  BY DEF Settles, Mirrored, MirrorSettled
<1>4. Covered(row'.confirmed, taken)
  BY <1>2, <1>3, UpsertCovered, NothingSaidYet
<1> QED BY <1>2, <1>4

\* A job starts where everything before it was taken in.
LEMMA QueuesSound ==
  ASSUME TypeOK, NEW req \in RequestState, req.chunk \in 0..MaxChunk,
         NEW status \in {"open", "failed"}, Queues(req, status),
         Covered(req.from, taken), StampsSound(docs, taken), JobsSound(jobs, taken),
         Covered(row.confirmed, taken)
  PROVE  /\ Extends(jobs, jobs') /\ JobsSound(jobs', taken)
         /\ StampsSound(docs', taken) /\ Covered(row'.confirmed, taken)
         /\ Len(jobs') \in DOMAIN jobs' /\ Len(jobs') # 0
         /\ jobs'[Len(jobs')].from = req.from /\ jobs'[Len(jobs')].to = req.to
<1> DEFINE job == [status |-> status, chunk |-> req.chunk,
                   from |-> req.from, to |-> req.to]
<1>1. job \in JobState /\ jobs \in Seq(JobState)
  BY DEF JobState, RequestState, TypeOK
<1>2. job.status \notin {"done", "partial"} /\ job.from = req.from /\ job.to = req.to
  OBVIOUS
<1>3. jobs' = Append(jobs, job)
  BY DEF Queues
<1> HIDE DEF job
<1>4. /\ jobs' \in Seq(JobState) /\ Len(jobs') = Len(jobs) + 1
      /\ \A i \in 1..Len(jobs) : jobs'[i] = jobs[i]
      /\ jobs'[Len(jobs) + 1] = job
  BY <1>1, <1>3, AppendProperties
<1>5. /\ Len(jobs) \in Nat /\ DOMAIN jobs = 1..Len(jobs)
      /\ Len(jobs') \in Nat /\ DOMAIN jobs' = 1..Len(jobs')
  BY <1>1, <1>4, LenProperties
<1>6. Extends(jobs, jobs')
  BY <1>4, <1>5 DEF Extends
<1>7. JobsSound(jobs', taken)
  <2> SUFFICES ASSUME NEW j \in DOMAIN jobs'
               PROVE  /\ Covered(jobs'[j].from, taken)
                      /\ jobs'[j].status \in {"done", "partial"}
                           => Said(jobs'[j].from, jobs'[j].to) \subseteq taken
    BY DEF JobsSound
  <2>1. CASE j \in DOMAIN jobs
    BY <1>4, <1>5, <2>1 DEF JobsSound
  <2>2. CASE j = Len(jobs) + 1
    BY <1>2, <1>4, <2>2
  <2> QED BY <1>4, <1>5, <2>1, <2>2
<1>8. StampsSound(docs', taken)
  BY DEF Queues, StampsSound, TypeOK
<1>9. row' = Upsert(row, req.to, 0, 0, 0)
  BY DEF Queues, Mirrored, MirrorQueued
<1> QED BY <1>2, <1>4, <1>5, <1>6, <1>7, <1>8, <1>9, UpsertCovered, NothingSaidYet

LEMMA SoundInit == Init => Sound
<1> SUFFICES ASSUME Init PROVE Sound
  OBVIOUS
<1>1. file = NoFile /\ late = {} /\ taken = {} /\ jobs = <<>> /\ recall = NoRecall
  BY DEF Init
<1>2. \A p \in Process : HookSound(hook[p], jobs, taken)
  BY NewStateHeld DEF Init
<1>3. Held(recall.st, jobs, taken)
  BY <1>1, NewStateHeld DEF NoRecall
<1>4. JobsSound(jobs, taken)
  BY <1>1 DEF JobsSound
<1>5. StampsSound(docs, taken) /\ Covered(row.confirmed, taken)
  BY NothingSaidYet DEF Init, StampsSound, NoDoc, NoRow
<1> QED BY <1>1, <1>2, <1>3, <1>4, <1>5 DEF Sound

\* A step that settles, queues or extends leaves every other claim standing.
LEMMA ClaimsKept ==
  ASSUME Sound, Extends(jobs, jobs'), taken \subseteq taken'
  PROVE  /\ file # NoFile => Held(file, jobs', taken')
         /\ \A p \in Process : HookSound(hook[p], jobs', taken')
         /\ Held(recall.st, jobs', taken')
         /\ \A req \in late : Covered(req.from, taken')
         /\ Covered(row.confirmed, taken')
BY HeldKept DEF Sound, HookSound, Covered

\* What a loaded, seeded or recovered state claims.
LEMMA LoadedHeld ==
  ASSUME Sound, TypeOK
  PROVE  /\ Held(Recovered, jobs, taken)
         /\ Held(Counted(Recovered), jobs, taken)
         /\ Held(Counted(NewState), jobs, taken)
         /\ file # NoFile => Held(Counted(file), jobs, taken)
<1>1. Recovered.offset = row.confirmed /\ Recovered.pending = NoPending
  BY DEF Recovered, NewState
<1>2. Held(Recovered, jobs, taken)
  BY <1>1 DEF Held, Sound
<1>3. Recovered \in State /\ NewState \in State /\ (file # NoFile => file \in State)
  BY RecoveredTyped, NewStateTyped DEF TypeOK
<1> QED BY <1>2, <1>3, NewStateHeld, UpdatesHeld DEF Sound

\* The steps of a hook that leave the daemon's rows alone.
LEMMA LocalSound ==
  ASSUME Sound, UNCHANGED <<jobs, docs, taken>>, Covered(row'.confirmed, taken),
         file' = file, recall' = recall,
         \A req \in late' : req \in late \/ Covered(req.from, taken),
         \A p \in Process : HookSound(hook'[p], jobs, taken)
  PROVE  Sound'
BY DEF Sound

LEMMA AcceptHeld ==
  ASSUME NEW st \in State, NEW req \in RequestState, NEW job \in Nat, NEW js, NEW tk,
         job = 0 => Covered(req.to, tk),
         job # 0 => /\ job \in DOMAIN js /\ Covered(req.from, tk)
                    /\ js[job].from = req.from /\ js[job].to = req.to
  PROVE  Held(Accept(st, req, job), js, tk)
<1> DEFINE pending == IF job = 0 THEN NoPending
                      ELSE [job |-> job, from |-> req.from, to |-> req.to,
                            chunk |-> st.chunk]
<1>1. Accept(st, req, job).offset = req.to /\ Accept(st, req, job).pending = pending
  <2> HIDE DEF pending
  <2>1. \A q : /\ [st EXCEPT !.offset = req.to, !.chunk = @ + 1, !.turns = 0,
                     !.transport = 0, !.rejects = 0, !.breaker = FALSE,
                     !.poisoned = FALSE, !.pending = q].offset = req.to
               /\ [st EXCEPT !.offset = req.to, !.chunk = @ + 1, !.turns = 0,
                     !.transport = 0, !.rejects = 0, !.breaker = FALSE,
                     !.poisoned = FALSE, !.pending = q].pending = q
    BY DEF State
  <2> QED BY <2>1 DEF Accept, pending
<1>2. CASE job = 0
  BY <1>1, <1>2 DEF Held
<1>3. CASE job # 0
  <2>1. /\ pending # NoPending /\ pending.job = job
        /\ pending.from = req.from /\ pending.to = req.to
    BY <1>3 DEF NoPending
  <2> HIDE DEF pending
  <2> QED BY <1>1, <1>3, <2>1 DEF Held
<1> QED BY <1>2, <1>3

LEMMA SoundNext == TypeOK /\ Sound /\ [Next]_vars => Sound'
<1> SUFFICES ASSUME TypeOK, Sound, [Next]_vars PROVE Sound'
  OBVIOUS
<1>t. /\ hook \in [Process -> HookState]
      /\ \A p \in Process : /\ hook[p] \in HookState /\ hook[p].st \in State
                             /\ hook[p].req \in RequestState
      /\ file # NoFile => file \in State
      /\ \A p \in Process : Posting(p) => Request(p).chunk \in 0..MaxChunk
  <2>1. hook \in [Process -> HookState] /\ file \in State \cup {NoFile}
    BY DEF TypeOK
  <2>2. \A p \in Process : hook[p] \in HookState /\ hook[p].st \in State
                           /\ hook[p].req \in RequestState
    BY <2>1 DEF HookState
  <2>3. \A p \in Process : Posting(p) => Request(p).chunk \in 0..MaxChunk
    BY <2>2, HookAssumption DEF Posting, Request, RequestState
  <2> QED BY <2>1, <2>2, <2>3
<1>s. /\ \A p \in Process : HookSound(hook[p], jobs, taken)
      /\ \A p \in Process : Held(hook[p].st, jobs, taken)
      /\ file # NoFile => Held(file, jobs, taken)
      /\ Covered(row.confirmed, taken)
  BY DEF Sound, HookSound
<1>c. \A p \in Process : Posting(p) => /\ hook[p].st.pending = NoPending
                                       /\ Request(p).from = hook[p].st.offset
                                       /\ Covered(Request(p).from, taken)
  BY <1>s DEF Posting, At, Request, HookSound, PostsFromCursor, Held
<1>g. ASSUME NEW p \in Process, NEW pc \in ControlPoint \ {"post"}, NEW st \in State,
             Goto(p, pc, st), Held(st, jobs, taken)
      PROVE  \A q \in Process : HookSound(hook'[q], jobs, taken)
  BY <1>t, <1>s, <1>g, GotoSound
<1>u. \A p \in Process : /\ TransportFailure(hook[p].st) \in State
                         /\ Held(TransportFailure(hook[p].st), jobs, taken)
                         /\ Rejection(hook[p].st) \in State
                         /\ Held(Rejection(hook[p].st), jobs, taken)
  BY <1>t, <1>s, UpdatesTyped, UpdatesHeld
<1>l. ASSUME NEW p \in Process, Leave(p)
      PROVE  \A q \in Process : HookSound(hook'[q], jobs, taken)
  BY <1>t, <1>s, <1>l, NewStateHeld DEF Leave
<1>1. ASSUME NEW p \in Process, Stop(p) PROVE Sound'
  <2>1. \A q \in Process : HookSound(hook'[q], jobs, taken)
    BY <1>1, <1>t, <1>g, LoadedHeld, NewStateHeld, NewStateTyped, UpdatesTyped
       DEF Stop, ControlPoint
  <2> QED BY <1>1, <1>s, <2>1, LocalSound DEF Stop, daemon
<1>2. ASSUME NEW p \in Process, Recover(p) PROVE Sound'
  <2>1. \A q \in Process : HookSound(hook'[q], jobs, taken)
    BY <1>2, <1>g, LoadedHeld, NewStateTyped, RecoveredTyped, UpdatesTyped
       DEF Recover, ControlPoint
  <2> QED BY <1>2, <1>s, <2>1, LocalSound DEF Recover, daemon, local
<1>3. ASSUME NEW p \in Process, SessionEnd(p) \/ CatchUp(p) PROVE Sound'
  <2>1. hook' = [hook EXCEPT ![p].pc = "picked", ![p].forced = TRUE]
    BY <1>3 DEF SessionEnd, CatchUp
  <2>2. \A q \in Process : q # p => hook'[q] = hook[q]
    BY <1>t, <2>1
  <2>3. hook'[p].st = hook[p].st /\ hook'[p].pc = "picked"
    BY <1>t, <2>1 DEF HookState
  <2>4. \A q \in Process : HookSound(hook'[q], jobs, taken)
    BY <1>s, <2>2, <2>3 DEF HookSound, PostsFromCursor
  <2> QED BY <1>3, <1>s, <2>4, LocalSound DEF SessionEnd, CatchUp, daemon, local
<1>4. ASSUME NEW p \in Process, Begin(p) PROVE Sound'
  <2>1. \A q \in Process : HookSound(hook'[q], jobs, taken)
    BY <1>4, <1>t, <1>s, <1>g, NewStateHeld DEF Begin, ControlPoint
  <2> QED BY <1>4, <1>s, <2>1, LocalSound DEF Begin, daemon
<1>5. ASSUME NEW p \in Process, SessionStart(p) PROVE Sound'
  <2>1. Covered(row'.confirmed, taken)
    BY <1>5, <1>s, UpsertCovered, NothingSaidYet DEF SessionStart
  <2>2. PICK m \in {"none", "ok", "transport"} :
          \/ hook' = [hook EXCEPT ![p].pc = "greeted", ![p].st = Recovered, ![p].mirror = m]
          \/ hook' = [hook EXCEPT ![p].pc = "greeted", ![p].mirror = m]
    BY <1>5 DEF SessionStart
  <2>3. /\ \A q \in Process : q # p => hook'[q] = hook[q]
        /\ hook'[p].st \in {Recovered, hook[p].st}
        /\ hook'[p].pc = "greeted"
    BY <1>t, <2>2 DEF HookState
  <2>4. \A q \in Process : HookSound(hook'[q], jobs, taken)
    BY <1>s, <2>3, LoadedHeld DEF HookSound, PostsFromCursor
  <2> QED BY <1>5, <2>1, <2>4, LocalSound DEF SessionStart, local
<1>6. ASSUME NEW p \in Process, Greet(p) PROVE Sound'
  <2>1. \A q \in Process : HookSound(hook'[q], jobs, taken)
    <3> DEFINE st == IF file = NoFile THEN hook[p].st ELSE file
    <3>1. st \in State /\ Held(st, jobs, taken)
      BY <1>t, <1>s
    <3>2. \/ Goto(p, "store", Healed(st)) \/ Goto(p, "store", st)
          \/ Goto(p, "store", [st EXCEPT !.transport = Upto(@, BreakerAt)])
      BY <1>6 DEF Greet
    <3> HIDE DEF st
    <3> QED BY <1>g, <3>1, <3>2, UpdatesTyped, UpdatesHeld DEF ControlPoint
  <2> QED BY <1>6, <1>s, <2>1, LocalSound DEF Greet, daemon
<1>7. ASSUME NEW p \in Process, SkipTurn(p) PROVE Sound'
  <2>1. \A q \in Process : HookSound(hook'[q], jobs, taken)
    BY <1>7, <1>t, <1>s, <1>g DEF SkipTurn, ControlPoint
  <2> QED BY <1>7, <1>s, <2>1, LocalSound DEF SkipTurn, daemon, local
<1>8. ASSUME NEW p \in Process, Advance(p) PROVE Sound'
  <2> DEFINE st == hook[p].st
  <2>1. st \in State /\ Held(st, jobs, taken)
    BY <1>t, <1>s
  <2>2. \/ st.pending = NoPending /\ Read(p, st)
        \/ /\ st.pending # NoPending /\ JobOf(st).status \in {"done", "partial"}
           /\ Read(p, [st EXCEPT !.pending = NoPending])
        \/ st.pending # NoPending /\ Read(p, RolledBack(st))
        \/ Goto(p, "store", st)
    BY <1>8, Zenon DEF Advance
  <2> HIDE DEF st
  <2>3. \A q \in Process : HookSound(hook'[q], jobs, taken)
    <3>1. CASE st.pending = NoPending /\ Read(p, st)
      BY <1>s, <2>1, <3>1, ReadSound DEF Held
    <3>2. CASE /\ st.pending # NoPending /\ JobOf(st).status \in {"done", "partial"}
               /\ Read(p, [st EXCEPT !.pending = NoPending])
      <4>1. /\ [st EXCEPT !.pending = NoPending].pending = NoPending
            /\ [st EXCEPT !.pending = NoPending].offset = st.offset
        BY <2>1 DEF State
      <4>2. /\ Covered(st.pending.from, taken)
            /\ Said(st.pending.from, st.pending.to) \subseteq taken
            /\ st.offset = st.pending.to
        BY <2>1, <3>2 DEF Held, JobOf, Sound, JobsSound
      <4>3. st.pending.from \in Cursor /\ st.pending.to \in Cursor
        BY <2>1 DEF State, PendingState
      <4>4. Covered(st.offset, taken)
        BY <4>2, <4>3, CoveredSplit
      <4>5. [st EXCEPT !.pending = NoPending] \in State
        BY <2>1, UpdatesTyped
      <4> QED BY <1>s, <3>2, <4>1, <4>4, <4>5, ReadSound
    <3>3. CASE st.pending # NoPending /\ Read(p, RolledBack(st))
      <4>1. RolledBack(st).pending = NoPending /\ RolledBack(st).offset = st.pending.from
        BY <2>1 DEF State, RolledBack
      <4>2. Covered(st.pending.from, taken) /\ RolledBack(st) \in State
        BY <2>1, <3>3, UpdatesTyped DEF Held
      <4> QED BY <1>s, <3>3, <4>1, <4>2, ReadSound
    <3>4. CASE Goto(p, "store", st)
      BY <1>g, <2>1, <3>4 DEF ControlPoint
    <3> QED BY <2>2, <3>1, <3>2, <3>3, <3>4
  <2> QED BY <1>8, <1>s, <2>3, LocalSound DEF Advance, daemon, local
<1>9. ASSUME NEW p \in Process, LookupFails(p) PROVE Sound'
  <2>1. \A q \in Process : HookSound(hook'[q], jobs, taken)
    BY <1>9, <1>u, <1>g DEF LookupFails, ControlPoint
  <2> QED BY <1>9, <1>s, <2>1, LocalSound DEF LookupFails, daemon, local
<1>10. ASSUME NEW p \in Process, Store(p) PROVE Sound'
  <2>1. \A q \in Process : HookSound(hook'[q], jobs, taken)
    BY <1>10, <1>l DEF Store
  <2>2. file' # NoFile => Held(file', jobs, taken)
    BY <1>10, <1>s DEF Store
  <2> QED BY <1>10, <2>1, <2>2 DEF Store, Sound, daemon
<1>11. ASSUME NEW p \in Process, Die(p) PROVE Sound'
  <2>1. \A q \in Process : HookSound(hook'[q], jobs, taken)
    BY <1>11, <1>l DEF Die
  <2> QED BY <1>11, <1>s, <2>1, LocalSound DEF Die, daemon
<1>12. ASSUME NEW p \in Process, Refused(p) PROVE Sound'
  <2>1. PICK st \in State : Goto(p, "store", st) /\ Held(st, jobs, taken)
    BY <1>12, <1>t, <1>s, <1>u DEF Refused
  <2>2. \A q \in Process : HookSound(hook'[q], jobs, taken)
    BY <1>g, <2>1 DEF ControlPoint
  <2> QED BY <1>12, <1>s, <2>2, LocalSound DEF Refused, local
<1>13. ASSUME NEW p \in Process, TimedOut(p) PROVE Sound'
  <2>1. \A q \in Process : HookSound(hook'[q], jobs, taken)
    BY <1>13, <1>u, <1>g DEF TimedOut, ControlPoint
  <2>2. \A req \in late' : req \in late \/ Covered(req.from, taken)
    BY <1>13, <1>c DEF TimedOut
  <2> QED BY <1>13, <1>s, <2>1, <2>2, LocalSound DEF TimedOut, local
<1>14. ASSUME NEW p \in Process, Answered(p) PROVE Sound'
  <2>1. /\ Request(p) \in RequestState /\ Request(p).chunk \in 0..MaxChunk
        /\ Covered(Request(p).from, taken) /\ hook[p].st \in State
    BY <1>14, <1>t, <1>c DEF Answered, Request
  <2>2. CASE /\ Settles(Request(p))
             /\ Goto(p, "store", Accept(hook[p].st, Request(p), 0))
    <3>1. Covered(Request(p).to, taken) /\ Covered(row'.confirmed, taken)
      BY <2>1, <2>2, SettlesSound DEF Sound
    <3>2. /\ Accept(hook[p].st, Request(p), 0) \in State
          /\ Held(Accept(hook[p].st, Request(p), 0), jobs, taken)
      BY <2>1, <3>1, AcceptTyped, AcceptHeld
    <3>3. \A q \in Process : HookSound(hook'[q], jobs, taken)
      BY <1>g, <2>2, <3>2 DEF ControlPoint
    <3> QED BY <1>14, <2>2, <3>1, <3>3, LocalSound DEF Answered, Settles, local
  <2>3. CASE /\ Queues(Request(p), "open")
             /\ Goto(p, "store", Accept(hook[p].st, Request(p), Len(jobs')))
    <3>1. /\ Extends(jobs, jobs') /\ JobsSound(jobs', taken)
          /\ StampsSound(docs', taken) /\ Covered(row'.confirmed, taken)
          /\ Len(jobs') \in DOMAIN jobs' /\ Len(jobs') # 0
          /\ jobs'[Len(jobs')].from = Request(p).from
          /\ jobs'[Len(jobs')].to = Request(p).to
      BY <2>1, <2>3, QueuesSound DEF Sound
    <3>2. Len(jobs') \in Nat /\ taken' = taken
      BY <1>14, <2>1, <2>3, QueuesTyped, LenProperties DEF Answered
    <3>3. Held(Accept(hook[p].st, Request(p), Len(jobs')), jobs', taken)
      BY <2>1, <3>1, <3>2, AcceptHeld
    <3>4. \A q \in Process : HookSound(hook[q], jobs', taken)
      BY <3>1, <3>2, ClaimsKept
    <3>5. \A q \in Process : HookSound(hook'[q], jobs', taken)
      BY <1>t, <2>3, <3>3, <3>4, GotoSound
    <3> QED BY <1>14, <3>1, <3>2, <3>5, ClaimsKept DEF Answered, Sound, local
  <2> QED BY <1>14, <2>2, <2>3 DEF Answered
<1>15. ASSUME NEW p \in Process, OverBudget(p) PROVE Sound'
  <2>1. /\ Request(p) \in RequestState /\ Request(p).chunk \in 0..MaxChunk
        /\ Covered(Request(p).from, taken) /\ hook[p].st \in State
    BY <1>15, <1>t, <1>c DEF OverBudget, Request
  <2>2. /\ Extends(jobs, jobs') /\ JobsSound(jobs', taken)
        /\ StampsSound(docs', taken) /\ Covered(row'.confirmed, taken)
    BY <1>15, <2>1, QueuesSound DEF OverBudget, Sound
  <2>3. taken' = taken
    BY <1>15 DEF OverBudget
  <2>4. \A q \in Process : HookSound(hook[q], jobs', taken)
    BY <2>2, <2>3, ClaimsKept
  <2>5. Held(TransportFailure(hook[p].st), jobs', taken)
    BY <2>1, <2>4, UpdatesHeld DEF HookSound
  <2>6. \A q \in Process : HookSound(hook'[q], jobs', taken)
    BY <1>15, <1>t, <2>4, <2>5, GotoSound DEF OverBudget
  <2> QED BY <1>15, <2>2, <2>3, <2>6, ClaimsKept DEF OverBudget, Sound, local
<1>16. CASE HandleLate
  <2>1. PICK req \in late : HandleLate!(req)
    BY <1>16 DEF HandleLate
  <2>2. req \in RequestState /\ req.chunk \in 0..MaxChunk /\ Covered(req.from, taken)
    <3>1. req \in [chunk : 0..MaxChunk, from : Cursor, to : Cursor]
      BY <2>1 DEF TypeOK
    <3> QED BY <2>1, <3>1, HookAssumption DEF RequestState, Sound
  <2>3. late' \subseteq late /\ taken' = taken /\ UNCHANGED <<file, hook, recall>>
    BY <2>1 DEF local
  <2>4. CASE Settles(req)
    <3>1. Covered(row'.confirmed, taken)
      BY <2>2, <2>4, SettlesSound DEF Sound
    <3> QED BY <1>s, <2>3, <2>4, <3>1, LocalSound DEF Settles
  <2>5. CASE Queues(req, "open")
    <3>1. /\ Extends(jobs, jobs') /\ JobsSound(jobs', taken)
          /\ StampsSound(docs', taken) /\ Covered(row'.confirmed, taken)
      BY <2>2, <2>5, QueuesSound DEF Sound
    <3> QED BY <2>3, <3>1, ClaimsKept DEF Sound
  <2>6. CASE UNCHANGED <<jobs, docs, row, lastChunk>>
    BY <1>s, <2>3, <2>6, LocalSound
  <2> QED BY <2>1, <2>4, <2>5, <2>6
<1>17. ASSUME NEW j \in DOMAIN jobs, Settle(j) PROVE Sound'
  <2> DEFINE said == Said(jobs[j].from, jobs[j].to)
  <2>1. PICK status \in {"done", "partial", "failed"} :
          /\ jobs' = [jobs EXCEPT ![j].status = status]
          /\ taken' = taken \cup (IF status = "failed" THEN {} ELSE said)
    BY <1>17 DEF Settle
  <2>2. jobs \in [DOMAIN jobs -> JobState] /\ jobs[j] \in JobState
    BY LenProperties DEF TypeOK
  <2>3. Extends(jobs, jobs') /\ taken \subseteq taken'
    BY <2>1, <2>2 DEF Extends, JobState
  <2>4. JobsSound(jobs', taken')
    <3> SUFFICES ASSUME NEW i \in DOMAIN jobs
                 PROVE  /\ Covered(jobs'[i].from, taken')
                        /\ jobs'[i].status \in {"done", "partial"}
                             => Said(jobs'[i].from, jobs'[i].to) \subseteq taken'
      BY <2>1, <2>2 DEF JobsSound
    <3>1. Covered(jobs'[i].from, taken')
      BY <2>3 DEF Extends, Covered, Sound, JobsSound
    <3>2. CASE i = j
      <4>1. jobs'[i].status = status
        BY <2>1, <2>2, <3>2 DEF JobState
      <4> QED BY <2>1, <2>3, <3>1, <3>2, <4>1 DEF Extends
    <3>3. CASE i # j
      <4>1. jobs'[i] = jobs[i]
        BY <2>1, <2>2, <3>3
      <4> QED BY <2>3, <3>1, <4>1 DEF Sound, JobsSound
    <3> QED BY <3>2, <3>3
  <2>5. StampsSound(docs', taken')
    <3>1. StampsSound(docs, taken') /\ docs \in [0..MaxChunk -> DocState]
      BY <2>3 DEF Sound, StampsSound, TypeOK, DocState
    <3>2. CASE docs' = docs
      BY <3>1, <3>2
    <3>3. CASE /\ docs' = [docs EXCEPT ![jobs[j].chunk].stamp = said]
               /\ taken' = taken \cup said
      <4>1. said \subseteq taken'
        BY <3>3
      <4> HIDE DEF said
      <4> QED BY <3>1, <3>3, <4>1 DEF StampsSound, DocState
    <3> QED BY <1>17, <3>2, <3>3, Zenon DEF Settle
  <2>6. Covered(row'.confirmed, taken')
    <3>1. Covered(row.confirmed, taken') /\ Covered(jobs[j].from, taken')
      BY <1>s, <2>3 DEF Covered, Sound, JobsSound
    <3>2. CASE row' = row
      BY <3>1, <3>2
    <3>3. CASE /\ row' = ConfirmRange(row, jobs[j].from, jobs[j].to)
               /\ taken' = taken \cup said
      <4>1. Covered(jobs[j].to, taken')
        BY <2>2, <3>1, <3>3, CoveredSplit DEF JobState
      <4> QED BY <3>1, <3>3, <4>1, UpsertCovered, NothingSaidYet DEF ConfirmRange
    <3> QED BY <1>17, <3>2, <3>3, Zenon DEF Settle
  <2>7. UNCHANGED <<file, hook, recall, late>>
    BY <1>17 DEF Settle, local
  <2> QED BY <2>3, <2>4, <2>5, <2>6, <2>7, ClaimsKept DEF Sound
<1>18. CASE DeleteBank
  <2>1. jobs \in [DOMAIN jobs -> JobState]
    BY LenProperties DEF TypeOK
  <2>2. /\ DOMAIN jobs' = DOMAIN jobs
        /\ \A j \in DOMAIN jobs : /\ jobs'[j].from = jobs[j].from /\ jobs'[j].to = jobs[j].to
                                  /\ jobs'[j].status = "gone"
    BY <1>18, <2>1 DEF DeleteBank, JobState
  <2>3. Extends(jobs, jobs') /\ taken' = taken
    BY <1>18, <2>2 DEF Extends, DeleteBank
  <2>4. JobsSound(jobs', taken')
    BY <2>2, <2>3 DEF JobsSound, Sound
  <2>5. StampsSound(docs', taken') /\ Covered(row'.confirmed, taken')
    BY <1>18, NothingSaidYet DEF DeleteBank, StampsSound, NoDoc, NoRow
  <2> QED BY <1>18, <2>3, <2>4, <2>5, ClaimsKept DEF DeleteBank, Sound, local
<1>19. CASE Ask
  <2>1. recall'.st = recall.st
    BY <1>19 DEF Ask, TypeOK
  <2> QED BY <1>19, <2>1 DEF Ask, Sound, daemon, local
<1>20. Baseline \in State /\ Held(Baseline, jobs, taken)
  BY <1>t, <1>s, NewStateTyped, NewStateHeld DEF Baseline
<1>21. ASSUME NEW st, NEW changed, Held(st, jobs, taken), Record(st, changed),
              UNCHANGED <<file, hook, late, daemon>>
       PROVE  Sound'
  <2>1. Held(recall'.st, jobs, taken)
    BY <1>21, NewStateHeld DEF Record, NoRecall
  <2> QED BY <1>21, <2>1 DEF Sound, daemon
<1>22. CASE RecordSuccess
  <2>1. Held(Healed(Baseline), jobs, taken)
    BY <1>20, UpdatesHeld
  <2>2. \E changed : Record(Healed(Baseline), changed)
    BY <1>22, Zenon DEF RecordSuccess
  <2> QED BY <1>21, <1>22, <2>1, <2>2 DEF RecordSuccess
<1>23. CASE RecordFailure
  <2>1. Held(TransportFailure(Baseline), jobs, taken)
    BY <1>20, UpdatesHeld
  <2> QED BY <1>20, <1>21, <1>23, <2>1 DEF RecordFailure
<1>24. CASE RecallStore
  <2>1. Held(recall'.st, jobs, taken)
    BY <1>24, NewStateHeld DEF RecallStore, NoRecall
  <2>2. file' # NoFile => Held(file', jobs, taken)
    BY <1>24, <1>s DEF RecallStore, Sound
  <2> QED BY <1>24, <2>1, <2>2 DEF RecallStore, Sound, daemon
<1>25. CASE Write \/ Wipe
  BY <1>25 DEF Write, Wipe, Sound, daemon, local
<1>26. ASSUME NEW field \in {"breaker", "poisoned"}, Lapse(field) PROVE Sound'
  <2>1. ASSUME NEW st \in State, Held(st, jobs, taken)
        PROVE  Held([st EXCEPT ![field] = FALSE], jobs, taken)
    <3>1. /\ [st EXCEPT ![field] = FALSE].offset = st.offset
          /\ [st EXCEPT ![field] = FALSE].pending = st.pending
      BY DEF State
    <3> QED BY <2>1, <3>1 DEF Held
  <2>2. file' # NoFile => Held(file', jobs, taken)
    BY <1>26, <1>t, <1>s, <2>1 DEF Lapse
  <2>3. recall'.st = [recall.st EXCEPT ![field] = FALSE] /\ recall.st \in State
    BY <1>26 DEF Lapse, TypeOK
  <2>4. ASSUME NEW p \in Process PROVE HookSound(hook'[p], jobs, taken)
    <3>1. /\ hook'[p].st = [hook[p].st EXCEPT ![field] = FALSE]
          /\ hook'[p].pc = hook[p].pc /\ hook'[p].req = hook[p].req
      BY <1>26, <1>t DEF Lapse, HookState
    <3>2. /\ hook'[p].st.offset = hook[p].st.offset
          /\ hook'[p].st.pending = hook[p].st.pending
      BY <1>t, <3>1 DEF State
    <3> QED BY <1>s, <3>1, <3>2 DEF HookSound, PostsFromCursor, Held
  <2>5. Held(recall'.st, jobs, taken)
    BY <2>1, <2>3 DEF Sound
  <2> QED BY <1>26, <2>2, <2>4, <2>5 DEF Lapse, Sound, daemon
<1>27. CASE UNCHANGED vars
  BY <1>27 DEF vars, local, daemon, Sound
<1>28. CASE Next
  BY <1>1, <1>2, <1>3, <1>4, <1>5, <1>6, <1>7, <1>8, <1>9, <1>10, <1>11, <1>12,
     <1>13, <1>14, <1>15, <1>16, <1>17, <1>18, <1>19, <1>22, <1>23, <1>24, <1>25,
     <1>26, <1>28, Zenon
     DEF Next, Run, Misfortunes, CooldownEnds, PoisonWindowEnds
<1> QED BY <1>27, <1>28

\* What the delivery protocol keeps true in every state: whoever holds a copy of
\* the state, in whatever order the copies are written back, its cursor is
\* covered or its job is to answer for the rest.
THEOREM SoundIsInvariant == Spec => []Sound
<1>1. Typed => TypeOK
  BY DEF Typed
<1> QED BY <1>1, TypedInit, TypedNext, SoundInit, SoundNext, PTL DEF Spec

\* No line that was said is skipped by the cursor of the state file: lost
\* replies, failed jobs, wiped files, unlocked writers and deleted banks
\* included, it was taken in or the pending job is to answer for it.
THEOREM CursorSkipsNothing == Spec => []NothingSkipped
<1>1. TypeOK /\ Sound => NothingSkipped
  <2> SUFFICES ASSUME TypeOK, Sound, file # NoFile PROVE Accounted(file)
    BY DEF NothingSkipped
  <2>1. file \in State /\ Held(file, jobs, taken)
    BY DEF TypeOK, Sound
  <2>2. CASE file.pending = NoPending
    BY <2>1, <2>2 DEF Accounted, Held, Covered
  <2>3. CASE file.pending # NoPending
    <3>1. file.pending.from \in Nat /\ file.pending.to \in Nat
      BY <2>1, HookAssumption DEF State, PendingState, Cursor
    <3>2. Said(0, file.pending.to)
            \subseteq Said(0, file.pending.from) \cup Said(file.pending.from, file.pending.to)
      BY <3>1, SaidSplit
    <3> QED BY <2>1, <2>3, <3>2 DEF Accounted, Held, Covered
  <2> QED BY <2>2, <2>3
<1> QED BY <1>1, HookTypeCorrect, SoundIsInvariant, PTL

\* The daemon's mirror never confirms past a line that no job took in, so a
\* state rebuilt from it skips nothing.
THEOREM MirrorConfirmsDurably == Spec => []MirrorIsDurable
<1>1. Sound => MirrorIsDurable
  BY DEF Sound, Covered, MirrorIsDurable
<1> QED BY <1>1, SoundIsInvariant, PTL

\* No job is posted from a cursor that is still unconfirmed.
THEOREM JobsAreNotStacked == Spec => []NoStacking
<1>1. Sound => NoStacking
  BY DEF Sound, JobsSound, Covered, NoStacking
<1> QED BY <1>1, SoundIsInvariant, PTL

-----------------------------------------------------------------------------
(***************************************************************************)
(* Provenance.  While nothing is lost and every hook gets the lock, one    *)
(* process at a time holds a state, and the number of the next document in *)
(* it is past every job that is not to be sent again; so a document is     *)
(* described anew only after its job failed.                               *)
(***************************************************************************)
Calm == \A m \in Misfortune \ {"fail", "outage"} : spent[m] = 0

\* A job whose delta will not be posted again.
Stands(job) == job.status \notin {"failed", "gone"}

\* The next document of a state is past those of the jobs that stand, and so it
\* will be if its own job fails.
Numbered(st, js) ==
  /\ \A j \in DOMAIN js : Stands(js[j]) => js[j].chunk < st.chunk
  /\ st.pending # NoPending =>
       \A j \in DOMAIN js \ {st.pending.job} : Stands(js[j]) => js[j].chunk < st.pending.chunk

Described(js, ds) ==
  \A j \in DOMAIN js : Stands(js[j]) =>
    ds[js[j].chunk].from = js[j].from /\ ds[js[j].chunk].to = js[j].to

Holding == {"absent", "ready", "post", "store"}
Storing == \E p \in Process : hook[p].pc = "store"

\* What holds of one process, with file and lock.
Holds(p) ==
  /\ hook[p].pc \in Holding => lock = p
  /\ hook[p].pc = "absent" => file = NoFile
  /\ hook[p].pc \in {"ready", "post", "store"} => Numbered(hook[p].st, jobs)
  /\ hook[p].pc = "post" => hook[p].req.chunk = hook[p].st.chunk

\* The file is behind only while its next version is about to be stored.
FileNumbered ==
  Storing \/ IF file = NoFile THEN jobs = << >> ELSE Numbered(file, jobs)

Locked ==
  /\ recall.pc = "idle" /\ late = {}
  /\ \A p \in Process : Holds(p)
  /\ FileNumbered
  /\ Described(jobs, docs)

-----------------------------------------------------------------------------
LEMMA NumberedSame ==
  ASSUME NEW st, NEW w, NEW js, Numbered(st, js), w.chunk = st.chunk, w.pending = st.pending
  PROVE  Numbered(w, js)
BY DEF Numbered

LEMMA UpdatesNumbered ==
  ASSUME NEW st \in State, NEW js, Numbered(st, js)
  PROVE  /\ Numbered(Counted(st), js)
         /\ Numbered(TransportFailure(st), js)
         /\ Numbered(Rejection(st), js)
         /\ Numbered(Healed(st), js)
         /\ Numbered([st EXCEPT !.transport = Upto(@, BreakerAt)], js)
<1>1. ASSUME NEW new, new.chunk = st.chunk, new.pending = st.pending
      PROVE  Numbered(new, js)
  BY <1>1, NumberedSame
<1>2. Numbered(Counted(st), js)
  BY <1>1 DEF Counted, State
<1>3. Numbered(TransportFailure(st), js)
  BY <1>1 DEF TransportFailure, State
<1>4. Numbered(Rejection(st), js)
  BY <1>1 DEF Rejection, State
<1>5. Numbered(Healed(st), js)
  BY <1>1 DEF Healed, State
<1>6. Numbered([st EXCEPT !.transport = Upto(@, BreakerAt)], js)
  BY <1>1 DEF State
<1> QED BY <1>2, <1>3, <1>4, <1>5, <1>6

LEMMA JobsTyped ==
  ASSUME TypeOK
  PROVE  \A j \in DOMAIN jobs :
           /\ jobs[j] \in JobState /\ jobs[j].chunk \in DOMAIN docs
           /\ jobs[j].chunk \in Nat /\ jobs[j].from \in Nat /\ jobs[j].to \in Nat
<1>1. DOMAIN docs = 0..MaxChunk /\ \A j \in DOMAIN jobs : jobs[j] \in JobState
  BY DEF TypeOK
<1> QED BY <1>1, HookAssumption DEF JobState, Cursor

\* Jobs that only fail or end stay below every number.
LEMMA NumberedKept ==
  ASSUME NEW st, NEW js, NEW new, Numbered(st, js), DOMAIN new = DOMAIN js,
         \A j \in DOMAIN js : new[j].chunk = js[j].chunk /\ (Stands(new[j]) => Stands(js[j]))
  PROVE  Numbered(st, new)
BY DEF Numbered

\* With no job at all any state without one is numbered.
LEMMA NumberedAtFirst ==
  ASSUME NEW st, NEW tk, Held(st, << >>, tk)
  PROVE  Numbered(st, << >>)
BY DEF Numbered, Held

LEMMA GoneTo ==
  ASSUME hook \in [Process -> HookState], NEW p \in Process, NEW pc, NEW st, Goto(p, pc, st)
  PROVE  /\ hook'[p].pc = pc /\ hook'[p].st = st
         /\ \A q \in Process \ {p} : hook'[q] = hook[q]
BY DEF Goto, HookState

\* A step of one process that leaves the file and the jobs alone.
LEMMA ProcessMoves ==
  ASSUME Locked, NEW p \in Process, hook[p].pc # "store",
         \A q \in Process \ {p} : hook'[q] = hook[q],
         UNCHANGED <<file, jobs, docs, recall, late>>,
         lock' = lock \/ lock = NoProcess,
         Holds(p)'
  PROVE  Locked'
<1>1. \A q \in Process \ {p} : Holds(q)'
  BY HookAssumption DEF Locked, Holds, Holding
<1>2. FileNumbered'
  BY DEF Locked, FileNumbered, Storing
<1> QED BY <1>1, <1>2 DEF Locked

\* No two processes hold a state.
LEMMA HeldByOne ==
  ASSUME Locked, NEW p \in Process, NEW q \in Process \ {p},
         hook[p].pc \in Holding
  PROVE  hook[q].pc \notin Holding
BY DEF Locked, Holds

LEMMA FreeFile ==
  ASSUME Locked, lock = NoProcess
  PROVE  IF file = NoFile THEN jobs = << >> ELSE Numbered(file, jobs)
BY HookAssumption DEF Locked, Holds, Holding, FileNumbered, Storing

LEMMA LockTaken ==
  ASSUME Calm', spent \in [Misfortune -> Nat], NEW p \in Process, TakeLock(p)
  PROVE  lock = NoProcess /\ lock' = p
BY DEF Calm, TakeLock, Spend, Misfortune

LEMMA CalmBefore ==
  ASSUME TypeOK, [Next]_vars, Calm'
  PROVE  Calm
<1>1. \A m \in Misfortune : Spend(m) => \A n \in Misfortune : spent'[n] >= spent[n]
  BY DEF Spend, TypeOK
<1>2. spent' = spent \/ \E m \in Misfortune : Spend(m)
  BY DEF Next, Run, Misfortunes, vars, Stop, SessionEnd, CatchUp, SessionStart, Begin, Greet,
     Recover, SkipTurn, Advance, Store, Answered, LookupFails, Refused, OverBudget, TimedOut,
     Die, HandleLate, Settle, DeleteBank, Ask, RecordSuccess, RecordFailure, RecallStore,
     Write, Wipe, CooldownEnds, PoisonWindowEnds, Lapse, TakeLock, Misfortune
<1>3. \A n \in Misfortune : spent'[n] >= spent[n] /\ spent[n] \in Nat
  BY <1>1, <1>2 DEF TypeOK
<1> QED BY <1>3 DEF Calm

\* What Read makes of a state keeps its number.
LEMMA ReadLocked ==
  ASSUME TypeOK, Locked, UNCHANGED <<lock, file, jobs, docs, recall, late>>,
         NEW p \in Process, hook[p].pc = "ready",
         NEW st \in State, Numbered(st, jobs), Read(p, st)
  PROVE  Locked'
<1> DEFINE from == IF Size < st.offset THEN 0 ELSE st.offset
           moved == [st EXCEPT !.offset = from]
           rest == [st EXCEPT !.offset = from, !.turns = 0]
           req  == [chunk |-> st.chunk, from |-> from, to |-> Consumed]
<1>1. hook \in [Process -> HookState]
  BY DEF TypeOK
<1>2. /\ rest.chunk = st.chunk /\ rest.pending = st.pending
      /\ moved.chunk = st.chunk /\ moved.pending = st.pending
      /\ [rest EXCEPT !.offset = Consumed].chunk = st.chunk
      /\ [rest EXCEPT !.offset = Consumed].pending = st.pending
      /\ req.chunk = st.chunk
  <2> HIDE DEF from
  <2> QED BY DEF State
<1>3. \/ Goto(p, "store", st) \/ Goto(p, "store", rest)
      \/ Goto(p, "store", [rest EXCEPT !.offset = Consumed])
      \/ hook' = [hook EXCEPT ![p].pc = "post", ![p].st = moved, ![p].req = req]
  BY Zenon DEF Read
<1> HIDE DEF from, rest, moved, req
<1>4. /\ Numbered(rest, jobs) /\ Numbered(moved, jobs)
      /\ Numbered([rest EXCEPT !.offset = Consumed], jobs)
  BY <1>2, NumberedSame
<1>5. lock = p
  BY DEF Locked, Holds, Holding
<1>6. ASSUME NEW w, Numbered(w, jobs), Goto(p, "store", w)
      PROVE  Locked'
  <2>1. /\ hook'[p].pc = "store" /\ hook'[p].st = w
        /\ \A q \in Process \ {p} : hook'[q] = hook[q]
    BY <1>1, <1>6, GoneTo
  <2>2. Holds(p)'
    BY <1>5, <1>6, <2>1 DEF Holds
  <2> QED BY <2>1, <2>2, ProcessMoves
<1>7. CASE hook' = [hook EXCEPT ![p].pc = "post", ![p].st = moved, ![p].req = req]
  <2>1. /\ hook'[p].pc = "post" /\ hook'[p].st = moved /\ hook'[p].req = req
        /\ \A q \in Process \ {p} : hook'[q] = hook[q]
    BY <1>1, <1>7 DEF HookState
  <2>2. Holds(p)'
    BY <1>2, <1>4, <1>5, <2>1 DEF Holds
  <2> QED BY <2>1, <2>2, ProcessMoves
<1> QED BY <1>3, <1>4, <1>6, <1>7

\* A delta that becomes a job, accepted or out of budget: the document of its
\* number is described anew, and no job that stands has that number.
LEMMA QueuesLocked ==
  ASSUME TypeOK, Locked, NEW p \in Process, hook[p].pc = "post", hook[p].st.pending = NoPending,
         Request(p).chunk \in 0..MaxChunk, UNCHANGED <<lock, file, recall, late>>,
         NEW status \in {"open", "failed"}, Queues(Request(p), status),
         hook'[p].pc = "store", \A q \in Process \ {p} : hook'[q] = hook[q],
         \/ status = "open" /\ hook'[p].st = Accept(hook[p].st, Request(p), Len(jobs'))
         \/ /\ status = "failed"
            /\ hook'[p].st.pending = NoPending /\ hook'[p].st.chunk = hook[p].st.chunk
  PROVE  Locked'
<1> DEFINE st == hook[p].st
           req == Request(p)
           job == [status |-> status, chunk |-> req.chunk, from |-> req.from, to |-> req.to]
<1>0. req = hook[p].req /\ req \in RequestState /\ st \in State
  BY DEF TypeOK, HookState, Request
<1>1. job \in JobState /\ jobs \in Seq(JobState)
  BY <1>0 DEF JobState, RequestState, TypeOK
<1>2. /\ jobs' = Append(jobs, job)
      /\ docs' = [docs EXCEPT ![req.chunk] = [stamp |-> {}, from |-> req.from, to |-> req.to]]
  BY DEF Queues
<1>3. /\ job.status = status /\ job.chunk = req.chunk
      /\ job.from = req.from /\ job.to = req.to
  OBVIOUS
<1>4. /\ Numbered(st, jobs) /\ req.chunk = st.chunk /\ lock = p /\ st.chunk \in Nat
      /\ st.pending = NoPending
  BY <1>0 DEF Locked, Holds, Holding, State
<1> HIDE DEF job
<1>5. /\ Len(jobs') = Len(jobs) + 1
      /\ \A i \in 1..Len(jobs) : jobs'[i] = jobs[i]
      /\ jobs'[Len(jobs) + 1] = job /\ jobs' \in Seq(JobState)
  BY <1>1, <1>2, AppendProperties
<1>6. /\ Len(jobs) \in Nat /\ DOMAIN jobs = 1..Len(jobs)
      /\ DOMAIN jobs' = 1..Len(jobs')
  BY <1>1, <1>5, LenProperties
<1>7. \A j \in DOMAIN jobs' : \/ j \in DOMAIN jobs /\ jobs'[j] = jobs[j]
                              \/ j = Len(jobs') /\ jobs'[j] = job
  BY <1>5, <1>6
<1>8. \A j \in DOMAIN jobs : Stands(jobs[j]) => jobs[j].chunk < st.chunk
  BY <1>4 DEF Numbered
<1>9. \A j \in DOMAIN jobs : jobs[j].chunk \in DOMAIN docs /\ jobs[j].chunk \in Nat
  BY JobsTyped
<1>10. Described(jobs', docs')
  <2> SUFFICES ASSUME NEW j \in DOMAIN jobs', Stands(jobs'[j])
               PROVE  /\ docs'[jobs'[j].chunk].from = jobs'[j].from
                      /\ docs'[jobs'[j].chunk].to = jobs'[j].to
    BY DEF Described
  <2>1. DOMAIN docs = 0..MaxChunk
    BY DEF TypeOK
  <2>2. CASE jobs'[j] = job
    BY <1>2, <1>3, <2>1, <2>2
  <2>3. CASE j \in DOMAIN jobs /\ jobs'[j] = jobs[j]
    <3>1. jobs[j].chunk # req.chunk /\ jobs[j].chunk \in DOMAIN docs
      BY <1>4, <1>8, <1>9, <2>3
    <3>2. docs'[jobs[j].chunk] = docs[jobs[j].chunk]
      BY <1>2, <2>1, <3>1
    <3> QED BY <2>3, <3>2 DEF Locked, Described
  <2> QED BY <1>7, <2>2, <2>3
<1>11. Numbered(hook'[p].st, jobs')
  <2>1. CASE status = "failed" /\ hook'[p].st.pending = NoPending
             /\ hook'[p].st.chunk = hook[p].st.chunk
    <3>1. ~Stands(job)
      BY <1>3, <2>1 DEF Stands
    <3> QED BY <1>7, <1>8, <2>1, <3>1 DEF Numbered
  <2>2. CASE status = "open" /\ hook'[p].st = Accept(st, req, Len(jobs'))
    <3>1. /\ hook'[p].st.chunk = st.chunk + 1
          /\ hook'[p].st.pending = [job |-> Len(jobs'), from |-> req.from, to |-> req.to,
                                    chunk |-> st.chunk]
      <4>1. Len(jobs') # 0
        BY <1>5, <1>6
      <4>2. \A q : /\ [st EXCEPT !.offset = req.to, !.chunk = @ + 1, !.turns = 0,
                         !.transport = 0, !.rejects = 0, !.breaker = FALSE,
                         !.poisoned = FALSE, !.pending = q].chunk = st.chunk + 1
                   /\ [st EXCEPT !.offset = req.to, !.chunk = @ + 1, !.turns = 0,
                         !.transport = 0, !.rejects = 0, !.breaker = FALSE,
                         !.poisoned = FALSE, !.pending = q].pending = q
        BY <1>0 DEF State
      <4> QED BY <2>2, <4>1, <4>2 DEF Accept
    <3>2. hook'[p].st.pending.job = Len(jobs') /\ hook'[p].st.pending.chunk = st.chunk
      BY <3>1
    <3>3. \A j \in DOMAIN jobs' : Stands(jobs'[j]) => jobs'[j].chunk < st.chunk + 1
      <4> SUFFICES ASSUME NEW j \in DOMAIN jobs', Stands(jobs'[j])
                   PROVE  jobs'[j].chunk < st.chunk + 1
        OBVIOUS
      <4>1. CASE jobs'[j] = job
        BY <1>3, <1>4, <4>1
      <4>2. CASE j \in DOMAIN jobs /\ jobs'[j] = jobs[j]
        <5>1. jobs[j].chunk \in Nat /\ jobs[j].chunk < st.chunk
          BY <1>8, <1>9, <4>2
        <5> QED BY <1>4, <4>2, <5>1
      <4> QED BY <1>7, <4>1, <4>2
    <3>4. \A j \in DOMAIN jobs' \ {Len(jobs')} : Stands(jobs'[j]) => jobs'[j].chunk < st.chunk
      BY <1>7, <1>8
    <3> QED BY <3>1, <3>2, <3>3, <3>4 DEF Numbered
  <2> QED BY <2>1, <2>2
<1>12. \A q \in Process : Holds(q)'
  <2>1. Holds(p)'
    BY <1>4, <1>11 DEF Holds
  <2>2. \A q \in Process \ {p} : hook'[q].pc \notin Holding
    BY HeldByOne DEF Holding
  <2>3. \A q \in Process \ {p} : Holds(q)'
    BY <2>2 DEF Holds, Holding
  <2> QED BY <2>1, <2>3
<1>13. FileNumbered'
  BY DEF FileNumbered, Storing
<1> QED BY <1>10, <1>12, <1>13 DEF Locked

LEMMA NotWhileCalm ==
  ASSUME TypeOK, Calm', NEW m \in Misfortune \ {"fail", "outage"}, Spend(m)
  PROVE  FALSE
<1>1. spent[m] \in Nat /\ spent'[m] = spent[m] + 1
  BY DEF TypeOK, Spend
<1> QED BY <1>1 DEF Calm

LEMMA LockedInit == Init => Locked
<1> SUFFICES ASSUME Init PROVE Locked
  OBVIOUS
<1>1. /\ recall.pc = "idle" /\ late = {} /\ file = NoFile /\ jobs = << >>
      /\ \A p \in Process : hook[p].pc = "idle"
  BY DEF Init, NoRecall, NoHook
<1> QED BY <1>1 DEF Locked, Holds, Holding, FileNumbered, Described

\* The steps by which a process gets hold of the file.
LEMMA LockedAtLoad ==
  ASSUME TypeOK, Sound, Locked, Calm', NEW p \in Process,
         Stop(p) \/ Begin(p) \/ Greet(p)
  PROVE  Locked'
<1>t. /\ hook \in [Process -> HookState] /\ hook[p] \in HookState /\ hook[p].st \in State
      /\ spent \in [Misfortune -> Nat]
      /\ file # NoFile => file \in State
  BY DEF TypeOK, HookState
<1>1. UNCHANGED <<file, jobs, docs, recall, late>>
  BY DEF Stop, Begin, Greet, daemon
<1>2. hook[p].pc # "store"
  BY DEF Stop, Begin, Greet, At
<1>3. ASSUME TakeLock(p), NEW pc \in {"ready", "store"}, NEW w, Goto(p, pc, w), Numbered(w, jobs)
      PROVE  Locked'
  <2>1. lock = NoProcess /\ lock' = p
    BY <1>3, <1>t, LockTaken
  <2>2. /\ hook'[p].pc = pc /\ hook'[p].st = w
        /\ \A q \in Process \ {p} : hook'[q] = hook[q]
    BY <1>3, <1>t, GoneTo
  <2>3. Holds(p)'
    BY <1>1, <1>3, <2>1, <2>2 DEF Holds
  <2> QED BY <1>1, <1>2, <2>1, <2>2, <2>3, ProcessMoves
<1>4. TakeLock(p) => IF file = NoFile THEN jobs = << >> ELSE Numbered(file, jobs)
  BY <1>t, LockTaken, FreeFile
<1>5. CASE Stop(p)
  <2>1. CASE file = NoFile
    <3>1. lock = NoProcess /\ lock' = p /\ Goto(p, "absent", NewState)
      BY <1>t, <1>5, <2>1, LockTaken DEF Stop
    <3>2. /\ hook'[p].pc = "absent" /\ \A q \in Process \ {p} : hook'[q] = hook[q]
      BY <1>t, <3>1, GoneTo
    <3>3. Holds(p)'
      BY <1>1, <2>1, <3>1, <3>2 DEF Holds
    <3> QED BY <1>1, <1>2, <3>1, <3>2, <3>3, ProcessMoves
  <2>2. CASE file # NoFile
    <3>1. TakeLock(p) /\ Goto(p, "ready", Counted(file))
      BY <1>5, <2>2 DEF Stop
    <3>2. Numbered(Counted(file), jobs)
      BY <1>4, <1>t, <2>2, <3>1, UpdatesNumbered
    <3> QED BY <1>3, <3>1, <3>2
  <2> QED BY <2>1, <2>2
<1>6. CASE Begin(p)
  <2>1. CASE file # NoFile
    <3>1. TakeLock(p) /\ Goto(p, "ready", file)
      BY <1>6, <2>1 DEF Begin
    <3> QED BY <1>3, <1>4, <2>1, <3>1
  <2>2. CASE file = NoFile
    <3>1. hook' = [hook EXCEPT ![p] = NoHook] /\ lock' = lock
      BY <1>6, <2>2 DEF Begin
    <3>2. hook'[p].pc = "idle" /\ \A q \in Process \ {p} : hook'[q] = hook[q]
      BY <1>t, <3>1 DEF NoHook
    <3>3. Holds(p)'
      BY <3>2 DEF Holds, Holding
    <3> QED BY <1>1, <1>2, <3>1, <3>2, <3>3, ProcessMoves
  <2> QED BY <2>1, <2>2
<1>7. CASE Greet(p)
  <2> DEFINE st == IF file = NoFile THEN hook[p].st ELSE file
  <2>1. TakeLock(p)
    BY <1>7 DEF Greet
  <2>2. Numbered(st, jobs) /\ st \in State
    <3>1. CASE file = NoFile
      <4>1. Held(hook[p].st, << >>, taken)
        BY <1>4, <2>1, <3>1 DEF Sound, HookSound
      <4> QED BY <1>4, <1>t, <2>1, <3>1, <4>1, NumberedAtFirst
    <3>2. CASE file # NoFile
      BY <1>4, <1>t, <2>1, <3>2
    <3> QED BY <3>1, <3>2
  <2>3. \/ Goto(p, "store", Healed(st)) \/ Goto(p, "store", st)
        \/ Goto(p, "store", [st EXCEPT !.transport = Upto(@, BreakerAt)])
    <3>1. Goto(p, "store", CASE hook[p].mirror = "ok" -> Healed(st)
                             [] hook[p].mirror = "transport" ->
                                  [st EXCEPT !.transport = Upto(@, BreakerAt)]
                             [] OTHER -> st)
      BY <1>7 DEF Greet
    <3> HIDE DEF st
    <3> QED BY <3>1
  <2> HIDE DEF st
  <2>4. /\ Numbered(Healed(st), jobs)
        /\ Numbered([st EXCEPT !.transport = Upto(@, BreakerAt)], jobs)
    BY <2>2, UpdatesNumbered
  <2> QED BY <1>3, <2>1, <2>2, <2>3, <2>4
<1> QED BY <1>5, <1>6, <1>7

\* The steps of a process that has not yet loaded the file.
LEMMA LockedBefore ==
  ASSUME TypeOK, Sound, Locked, NEW p \in Process,
         SessionEnd(p) \/ CatchUp(p) \/ SessionStart(p) \/ Recover(p)
  PROVE  Locked'
<1>t. hook \in [Process -> HookState] /\ hook[p] \in HookState
  BY DEF TypeOK
<1>1. UNCHANGED <<lock, file, jobs, docs, recall, late>>
  BY DEF SessionEnd, CatchUp, SessionStart, Recover, daemon, local
<1>2. hook[p].pc # "store"
  BY DEF SessionEnd, CatchUp, SessionStart, Recover, At
<1>3. CASE SessionEnd(p) \/ CatchUp(p)
  <2>1. hook' = [hook EXCEPT ![p].pc = "picked", ![p].forced = TRUE]
    BY <1>3 DEF SessionEnd, CatchUp
  <2>2. hook'[p].pc = "picked" /\ \A q \in Process \ {p} : hook'[q] = hook[q]
    BY <1>t, <2>1 DEF HookState
  <2>3. Holds(p)'
    BY <2>2 DEF Holds, Holding
  <2> QED BY <1>1, <1>2, <2>2, <2>3, ProcessMoves
<1>4. CASE SessionStart(p)
  <2>1. \/ hook' = [hook EXCEPT ![p].pc = "greeted", ![p].st = Recovered, ![p].mirror = "ok"]
        \/ \E m : hook' = [hook EXCEPT ![p].pc = "greeted", ![p].mirror = m]
    BY <1>4 DEF SessionStart
  <2>2. hook'[p].pc = "greeted" /\ \A q \in Process \ {p} : hook'[q] = hook[q]
    <3>1. CASE hook' = [hook EXCEPT ![p].pc = "greeted", ![p].st = Recovered, ![p].mirror = "ok"]
      BY <1>t, <3>1 DEF HookState
    <3>2. CASE \E m : hook' = [hook EXCEPT ![p].pc = "greeted", ![p].mirror = m]
      BY <1>t, <3>2 DEF HookState
    <3> QED BY <2>1, <3>1, <3>2
  <2>3. Holds(p)'
    BY <2>2 DEF Holds, Holding
  <2> QED BY <1>1, <1>2, <2>2, <2>3, ProcessMoves
<1>5. CASE Recover(p)
  <2>1. hook[p].pc = "absent" /\ lock = p /\ file = NoFile
    BY <1>5 DEF Recover, At, Locked, Holds, Holding
  <2>2. ~Storing
    BY <2>1, HeldByOne DEF Storing, Holding
  <2>3. jobs = << >>
    BY <2>1, <2>2 DEF Locked, FileNumbered
  <2>4. PICK w \in {Counted(Recovered), Counted(NewState)} : Goto(p, "ready", w)
    BY <1>5 DEF Recover
  <2>5. Numbered(w, jobs)
    BY <2>3, <2>4, LoadedHeld, NumberedAtFirst
  <2>6. /\ hook'[p].pc = "ready" /\ hook'[p].st = w
        /\ \A q \in Process \ {p} : hook'[q] = hook[q]
    BY <1>t, <2>4, GoneTo
  <2>7. Holds(p)'
    BY <1>1, <2>1, <2>5, <2>6 DEF Holds
  <2> QED BY <1>1, <1>2, <2>6, <2>7, ProcessMoves
<1> QED BY <1>3, <1>4, <1>5

\* The steps of retain::advance that create no job.
LEMMA LockedAdvancing ==
  ASSUME TypeOK, Sound, Locked, Calm', NEW p \in Process,
         \/ SkipTurn(p) \/ Advance(p) \/ LookupFails(p) \/ Refused(p) \/ TimedOut(p)
         \/ Answered(p) /\ Settles(Request(p))
              /\ Goto(p, "store", Accept(hook[p].st, Request(p), 0))
  PROVE  Locked'
<1> DEFINE st == hook[p].st
<1>t. hook \in [Process -> HookState] /\ hook[p] \in HookState /\ st \in State
  BY DEF TypeOK, HookState
<1>0. ~TimedOut(p)
  BY NotWhileCalm DEF TimedOut, Misfortune
<1>1. UNCHANGED <<lock, file, jobs, docs, recall, late>>
  BY <1>0 DEF SkipTurn, Advance, LookupFails, Refused, Answered, Settles, daemon, local
<1>2. hook[p].pc \in {"ready", "post"}
  BY <1>0 DEF SkipTurn, Advance, LookupFails, Refused, Answered, Posting, At
<1>3. lock = p /\ Numbered(st, jobs) /\ Held(st, jobs, taken)
  BY <1>2 DEF Locked, Holds, Holding, Sound, HookSound
<1>4. ASSUME NEW w, Goto(p, "store", w), Numbered(w, jobs)
      PROVE  Locked'
  <2>1. /\ hook'[p].pc = "store" /\ hook'[p].st = w
        /\ \A q \in Process \ {p} : hook'[q] = hook[q]
    BY <1>4, <1>t, GoneTo
  <2>2. Holds(p)'
    BY <1>1, <1>3, <1>4, <2>1 DEF Holds
  <2> QED BY <1>1, <1>2, <2>1, <2>2, ProcessMoves
<1>5. /\ Numbered(TransportFailure(st), jobs) /\ Numbered(Rejection(st), jobs)
  BY <1>3, <1>t, UpdatesNumbered
<1> HIDE DEF st
<1>6. CASE SkipTurn(p)
  BY <1>3, <1>4, <1>6 DEF SkipTurn, st
<1>7. CASE LookupFails(p) \/ Refused(p)
  BY <1>3, <1>4, <1>5, <1>7 DEF LookupFails, Refused, st
<1>8. CASE Answered(p) /\ Settles(Request(p))
              /\ Goto(p, "store", Accept(hook[p].st, Request(p), 0))
  <2>1. Accept(st, Request(p), 0).chunk = st.chunk + 1
        /\ Accept(st, Request(p), 0).pending = NoPending
    BY <1>t DEF Accept, State
  <2>2. st.chunk \in Nat /\ \A j \in DOMAIN jobs : jobs[j].chunk \in Nat
    BY <1>t, JobsTyped DEF State
  <2>3. Numbered(Accept(st, Request(p), 0), jobs)
    BY <1>3, <2>1, <2>2 DEF Numbered
  <2> QED BY <1>4, <1>8, <2>3 DEF st
<1>9. CASE Advance(p)
  <2>1. hook[p].pc = "ready"
    BY <1>9 DEF Advance, At
  <2>2. CASE st.pending = NoPending /\ Read(p, st)
    BY <1>1, <1>3, <1>t, <2>1, <2>2, ReadLocked
  <2>3. CASE Read(p, [st EXCEPT !.pending = NoPending])
    <3> DEFINE w == [st EXCEPT !.pending = NoPending]
    <3>1. w.pending = NoPending /\ w.chunk = st.chunk
      BY <1>t DEF State
    <3>2. w \in State
      BY <1>t, UpdatesTyped
    <3> HIDE DEF w
    <3>3. Numbered(w, jobs)
      BY <1>3, <3>1 DEF Numbered
    <3>4. Read(p, w)
      BY <2>3 DEF w
    <3> QED BY <1>1, <2>1, <3>2, <3>3, <3>4, ReadLocked
  <2>4. CASE /\ st.pending # NoPending /\ JobOf(st).status \in {"failed", "gone"}
             /\ Read(p, RolledBack(st))
    <3>1. /\ RolledBack(st).pending = NoPending /\ RolledBack(st).chunk = st.pending.chunk
          /\ RolledBack(st) \in State
      BY <1>t, UpdatesTyped DEF RolledBack, State
    <3>2. ~Stands(jobs[st.pending.job])
      BY <2>4 DEF JobOf, Stands
    <3>3. Numbered(RolledBack(st), jobs)
      BY <1>3, <2>4, <3>1, <3>2 DEF Numbered
    <3> QED BY <1>1, <2>1, <2>4, <3>1, <3>3, ReadLocked
  <2>5. CASE Goto(p, "store", st)
    BY <1>3, <1>4, <2>5
  <2> QED BY <1>9, <2>2, <2>3, <2>4, <2>5 DEF Advance, st
<1> QED BY <1>0, <1>6, <1>7, <1>8, <1>9

\* A post that becomes a job.
LEMMA LockedQueueing ==
  ASSUME TypeOK, Sound, Locked, NEW p \in Process, Answered(p) \/ OverBudget(p)
  PROVE  Locked' \/ (Settles(Request(p)) /\ Goto(p, "store", Accept(hook[p].st, Request(p), 0)))
<1>t. /\ hook \in [Process -> HookState] /\ hook[p] \in HookState /\ hook[p].st \in State
      /\ hook[p].req \in RequestState
  BY DEF TypeOK, HookState
<1>1. UNCHANGED <<lock, file, recall, late>>
  BY DEF Answered, OverBudget, local
<1>2. hook[p].pc = "post" /\ Request(p).chunk \in 0..MaxChunk
  BY <1>t, HookAssumption DEF Answered, OverBudget, Posting, At, Request, RequestState
<1>3. hook[p].st.pending = NoPending
  BY <1>2 DEF Sound, HookSound, PostsFromCursor
<1>4. CASE /\ Queues(Request(p), "open")
           /\ Goto(p, "store", Accept(hook[p].st, Request(p), Len(jobs')))
  <2>1. /\ hook'[p].pc = "store" /\ hook'[p].st = Accept(hook[p].st, Request(p), Len(jobs'))
        /\ \A q \in Process \ {p} : hook'[q] = hook[q]
    BY <1>4, <1>t, GoneTo
  <2> QED BY <1>1, <1>2, <1>3, <1>4, <2>1, QueuesLocked
<1>5. CASE /\ Queues(Request(p), "failed") /\ Goto(p, "store", TransportFailure(hook[p].st))
  <2>1. /\ hook'[p].pc = "store" /\ hook'[p].st = TransportFailure(hook[p].st)
        /\ \A q \in Process \ {p} : hook'[q] = hook[q]
    BY <1>5, <1>t, GoneTo
  <2>2. hook'[p].st.pending = NoPending /\ hook'[p].st.chunk = hook[p].st.chunk
    BY <1>3, <1>t, <2>1 DEF TransportFailure, State
  <2> QED BY <1>1, <1>2, <1>3, <1>5, <2>1, <2>2, QueuesLocked
<1> QED BY <1>4, <1>5 DEF Answered, OverBudget

\* What is stored becomes the file that the next process loads.
LEMMA LockedStored ==
  ASSUME TypeOK, Locked, Calm', NEW p \in Process, Store(p)
  PROVE  Locked'
<1>t. hook \in [Process -> HookState] /\ hook[p].st \in State
  BY DEF TypeOK, HookState
<1>1. file' = hook[p].st
  BY NotWhileCalm DEF Store, Misfortune
<1>2. /\ hook[p].pc = "store" /\ lock = p /\ Numbered(hook[p].st, jobs)
  BY DEF Store, At, Locked, Holds, Holding
<1>3. UNCHANGED <<jobs, docs, recall, late>>
  BY DEF Store, daemon
<1>4. /\ hook'[p].pc = "idle" /\ \A q \in Process \ {p} : hook'[q] = hook[q]
  BY <1>t DEF Store, Leave, NoHook
<1>5. \A q \in Process : hook'[q].pc \notin Holding
  BY <1>2, <1>4, HeldByOne DEF Holding
<1>6. \A q \in Process : Holds(q)'
  BY <1>5 DEF Holds, Holding
<1>7. FileNumbered'
  BY <1>1, <1>2, <1>3, <1>t, NoFileAssumption DEF FileNumbered
<1> QED BY <1>3, <1>6, <1>7 DEF Locked

LEMMA LockedSettled ==
  ASSUME TypeOK, Locked, NEW j \in DOMAIN jobs, Settle(j)
  PROVE  Locked'
<1>1. UNCHANGED <<file, lock, hook, recall, late>>
  BY DEF Settle, local
<1>2. PICK status \in {"done", "partial", "failed"} : jobs' = [jobs EXCEPT ![j].status = status]
  BY DEF Settle
<1>3. jobs[j] \in JobState /\ Stands(jobs[j])
  BY DEF Settle, TypeOK, Stands
<1>4. /\ DOMAIN jobs' = DOMAIN jobs
      /\ \A i \in DOMAIN jobs : /\ jobs'[i].chunk = jobs[i].chunk /\ jobs'[i].from = jobs[i].from
                                /\ jobs'[i].to = jobs[i].to
                                /\ Stands(jobs'[i]) => Stands(jobs[i])
  <2>1. DOMAIN jobs' = DOMAIN jobs /\ \A i \in DOMAIN jobs \ {j} : jobs'[i] = jobs[i]
    BY <1>2
  <2>2. jobs'[j].chunk = jobs[j].chunk /\ jobs'[j].from = jobs[j].from /\ jobs'[j].to = jobs[j].to
    BY <1>2, <1>3 DEF JobState
  <2> QED BY <1>3, <2>1, <2>2
<1>5. \A st : Numbered(st, jobs) => Numbered(st, jobs')
  BY <1>4, NumberedKept
<1>6. \A i \in DOMAIN jobs : /\ docs'[jobs[i].chunk].from = docs[jobs[i].chunk].from
                             /\ docs'[jobs[i].chunk].to = docs[jobs[i].chunk].to
  <2>1. docs' = docs \/ \E said : docs' = [docs EXCEPT ![jobs[j].chunk].stamp = said]
    BY DEF Settle
  <2>2. \A i \in DOMAIN jobs : jobs[i].chunk \in DOMAIN docs
    BY JobsTyped
  <2>3. \A c \in DOMAIN docs : docs[c] \in [stamp : SUBSET (1..Lines), from : Cursor, to : Cursor]
    BY DEF TypeOK
  <2>4. \A c \in DOMAIN docs : docs'[c].from = docs[c].from /\ docs'[c].to = docs[c].to
    <3>1. CASE docs' = docs
      BY <3>1
    <3>2. CASE \E said : docs' = [docs EXCEPT ![jobs[j].chunk].stamp = said]
      <4>1. PICK said : docs' = [docs EXCEPT ![jobs[j].chunk].stamp = said]
        BY <3>2
      <4>2. \A c \in DOMAIN docs \ {jobs[j].chunk} : docs'[c] = docs[c]
        BY <4>1
      <4>3. docs'[jobs[j].chunk] = [docs[jobs[j].chunk] EXCEPT !.stamp = said]
        BY <2>2, <4>1
      <4>4. docs'[jobs[j].chunk].from = docs[jobs[j].chunk].from
            /\ docs'[jobs[j].chunk].to = docs[jobs[j].chunk].to
        BY <2>2, <2>3, <4>3
      <4> QED BY <4>2, <4>4
    <3> QED BY <2>1, <3>1, <3>2
  <2> QED BY <2>2, <2>4
<1>7. Described(jobs', docs')
  BY <1>4, <1>6 DEF Locked, Described
<1>8. jobs = << >> => jobs' = << >>
  BY DEF Settle
<1>9. \A p \in Process : Holds(p)'
  BY <1>1, <1>5 DEF Locked, Holds
<1>10. FileNumbered'
  BY <1>1, <1>5, <1>8 DEF Locked, FileNumbered, Storing
<1> QED BY <1>1, <1>7, <1>9, <1>10 DEF Locked

LEMMA LockedLapsed ==
  ASSUME TypeOK, Locked, NEW field \in {"breaker", "poisoned"}, Lapse(field)
  PROVE  Locked'
<1>t. /\ hook \in [Process -> HookState] /\ \A p \in Process : hook[p].st \in State
      /\ file # NoFile /\ file \in State
  BY DEF TypeOK, HookState, Lapse
<1>1. UNCHANGED <<lock, jobs, docs, late>>
  BY DEF Lapse, daemon
<1>2. ASSUME NEW st \in State
      PROVE  /\ [st EXCEPT ![field] = FALSE] \in State
             /\ [st EXCEPT ![field] = FALSE].chunk = st.chunk
             /\ [st EXCEPT ![field] = FALSE].pending = st.pending
  BY <1>2 DEF State
<1>3. file' \in State /\ file'.chunk = file.chunk /\ file'.pending = file.pending
  BY <1>2, <1>t DEF Lapse
<1>4. \A p \in Process : /\ hook'[p].pc = hook[p].pc /\ hook'[p].req = hook[p].req
                         /\ hook'[p].st = [hook[p].st EXCEPT ![field] = FALSE]
  BY <1>t DEF Lapse, HookState
<1>5. \A p \in Process : hook'[p].st.chunk = hook[p].st.chunk
                         /\ hook'[p].st.pending = hook[p].st.pending
  BY <1>2, <1>4, <1>t
<1>6. recall'.pc = "idle"
  BY DEF Lapse, Locked, TypeOK
<1>7. \A p \in Process : Holds(p)'
  <2> SUFFICES ASSUME NEW p \in Process PROVE Holds(p)'
    OBVIOUS
  <2>1. Holds(p) /\ hook[p].pc # "absent"
    BY <1>t DEF Locked, Holds
  <2>2. Numbered(hook[p].st, jobs) => Numbered(hook'[p].st, jobs)
    BY <1>5, NumberedSame
  <2> QED BY <1>1, <1>4, <1>5, <2>1, <2>2 DEF Holds
<1>8. FileNumbered'
  <2>1. Storing => Storing'
    BY <1>4 DEF Storing
  <2>2. Numbered(file, jobs) => Numbered(file', jobs)
    BY <1>3, NumberedSame
  <2> QED BY <1>1, <1>3, <1>t, <2>1, <2>2, NoFileAssumption DEF Locked, FileNumbered
<1> QED BY <1>1, <1>6, <1>7, <1>8 DEF Locked

LEMMA LockedNext ==
  ASSUME TypeOK, Sound, Calm => Locked, [Next]_vars, Calm'
  PROVE  Locked'
<1>0. Locked
  BY CalmBefore
<1>1. ASSUME NEW p \in Process,
             \/ Stop(p) \/ SessionEnd(p) \/ CatchUp(p) \/ SessionStart(p)
             \/ Begin(p) \/ Greet(p) \/ Recover(p)
      PROVE  Locked'
  BY <1>0, <1>1, LockedAtLoad, LockedBefore
<1>2. ASSUME NEW p \in Process, Answered(p) \/ OverBudget(p)
      PROVE  Locked'
  BY <1>0, <1>2, LockedQueueing, LockedAdvancing DEF OverBudget, Queues, Settles
<1>3. ASSUME NEW p \in Process,
             SkipTurn(p) \/ Advance(p) \/ LookupFails(p) \/ Refused(p) \/ TimedOut(p)
      PROVE  Locked'
  BY <1>0, <1>3, LockedAdvancing
<1>4. ASSUME NEW p \in Process, Store(p) PROVE Locked'
  BY <1>0, <1>4, LockedStored
<1>5. \A p \in Process : ~Die(p)
  BY NotWhileCalm DEF Die, Misfortune
<1>6. ~HandleLate /\ ~DeleteBank /\ ~Ask /\ ~RecordSuccess /\ ~RecordFailure /\ ~RecallStore /\ ~Wipe
  BY <1>0, NotWhileCalm
     DEF Locked, HandleLate, DeleteBank, Ask, RecordSuccess, RecordFailure, RecallStore,
         Wipe, Misfortune
<1>7. CASE Write \/ UNCHANGED vars
  BY <1>0, <1>7 DEF Write, vars, local, daemon, Locked, Holds, FileNumbered, Storing
<1>8. CASE CooldownEnds \/ PoisonWindowEnds
  BY <1>0, <1>8, LockedLapsed DEF CooldownEnds, PoisonWindowEnds
<1>9. ASSUME NEW j \in DOMAIN jobs, Settle(j) PROVE Locked'
  BY <1>0, <1>9, LockedSettled
<1> QED BY <1>1, <1>2, <1>3, <1>4, <1>5, <1>6, <1>7, <1>8, <1>9, Zenon
        DEF Next, Run, Misfortunes

\* What the lock is for: while every hook gets it and nothing is lost but
\* replies and jobs, a document describes every delta whose job was not given
\* up, however the hooks of a session overlap.
THEOREM LockSavesProvenance == Spec => []LockKeepsProvenance
<1>1. Calm <=> spent["unlocked"] = 0
               /\ \A m \in Misfortune \ {"fail", "outage", "unlocked"} : spent[m] = 0
  BY DEF Calm, Misfortune
<1>2. TypeOK /\ (Calm => Locked) => LockKeepsProvenance
  <2> SUFFICES ASSUME TypeOK, Calm, Locked,
                      NEW j \in DOMAIN jobs, jobs[j].status \in {"done", "partial"},
                      NEW i \in Said(jobs[j].from, jobs[j].to)
               PROVE  \E c \in DOMAIN docs : docs[c].from < i /\ i <= docs[c].to
    BY <1>1 DEF LockKeepsProvenance, ProvenanceKept
  <2>1. jobs[j].chunk \in DOMAIN docs /\ jobs[j].from \in Nat /\ jobs[j].to \in Nat
    BY JobsTyped
  <2>2. docs[jobs[j].chunk].from = jobs[j].from /\ docs[jobs[j].chunk].to = jobs[j].to
    BY DEF Locked, Described, Stands
  <2>3. jobs[j].from < i /\ i <= jobs[j].to
    BY <2>1 DEF Said
  <2> QED BY <2>1, <2>2, <2>3
<1>3. TypeOK /\ Sound /\ (Calm => Locked) /\ [Next]_vars => (Calm => Locked)'
  BY LockedNext
<1>4. Init => (Calm => Locked)
  BY LockedInit
<1> QED BY <1>2, <1>3, <1>4, HookTypeCorrect, SoundIsInvariant, PTL DEF Spec

-----------------------------------------------------------------------------

(***************************************************************************)
(* HttpClient: an answer is whole, is the daemon's, and comes within its   *)
(* time.  What is carried along: what the head said when it was accepted,  *)
(* and that the clock has not passed the deadline since there is one.      *)
(***************************************************************************)

HttpTyped ==
    /\ peer \in Replies /\ step \in {"connect", "write", "head", "body", "done"}
    /\ {clock, unsent, got, deadline} \subseteq Nat

\* What is known where reading has begun: the address was good, and the time
\* is not over; where a head was accepted; and where nothing was read yet.
Reading ==
    /\ got <= peer.head + peer.body
    /\ step \in {"connect", "write"} => got = 0 /\ deadline = 0
    /\ step # "done" => outcome = Pending
    /\ step \in {"write", "head", "body"} => IsTarget(url)
    /\ step \in {"head", "body"} => clock <= deadline
    /\ got > 0 \/ deadline > 0 => clock <= deadline
    /\ step = "body" => HeadIsGood
    /\ step = "body" \/ Expected = NoToken \/ Expected \in Values("token")
         \/ got < peer.head + ReadSize
    /\ outcome.is = "response" =>
          /\ HeadIsGood /\ IsTarget(url) /\ outcome.bytes = ContentLength
          /\ got >= peer.head + ContentLength

HttpInv == HttpTyped /\ Reading

-----------------------------------------------------------------------------

\* An accepted head says one length, and has the token where one is asked for.
LEMMA AcceptedHead ==
    ASSUME HeadIsGood
    PROVE  /\ ContentLength \in Nat /\ Values("content-length") = {ContentLength}
           /\ Values("transfer-encoding") = {}
           /\ Expected = NoToken \/ Expected \in Values("token")
<1>1. PICK n \in 0 .. MaxResponse : Values("content-length") = {n}
      BY DEF HeadIsGood
<1>2. ContentLength \in 0 .. MaxResponse /\ Values("content-length") = {ContentLength}
      BY <1>1 DEF ContentLength
<1>3. Expected = NoToken \/ Expected \in Values("token")
  <2>1. ASSUME Expected # NoToken
        PROVE  Expected \in Values("token")
    <3>1. PICK i \in DOMAIN peer.lines : peer.lines[i] = << "token", Expected >>
          BY <2>1 DEF HeadIsGood, TokenMatches
    <3>2. peer.lines[i] \in ToSet(peer.lines)
          BY DEF ToSet
    <3>3. peer.lines[i][1] = "token" /\ peer.lines[i][2] = Expected
          BY <3>1
    <3> QED BY <3>2, <3>3 DEF Values
  <2> QED BY <2>1
<1> QED BY <1>2, <1>3, HttpClientAssumption DEF HeadIsGood

\* One read, within what is left of the time.
LEMMA ReadKeeps ==
    ASSUME HttpInv, step \in {"head", "body"}, NEW want \in Nat, want <= ReadSize, ReadSome(want),
           step = "head" => got < peer.head,
           UNCHANGED << url, peer, unsent, deadline >>
    PROVE  HttpInv'
<1>1. /\ clock \in Nat /\ deadline \in Nat /\ got \in Nat /\ unsent \in Nat
      /\ clock <= deadline /\ peer \in Replies
      BY DEF HttpInv, HttpTyped, Reading
<1>2. peer.head \in Nat /\ peer.body \in Nat /\ ReadSize \in Nat
      BY <1>1, HttpClientAssumption
<1>3. /\ clock' \in Nat /\ clock' <= deadline /\ got' \in Nat
      /\ got' <= peer.head + peer.body /\ got' <= got + ReadSize
      /\ \/ UNCHANGED << step, outcome >>
         \/ /\ step' = "done" /\ got' = got
            /\ \E is \in {"timeout", "protocol", "io"} : outcome' = [is |-> is, bytes |-> 0]
  <2>1. TimeLeft = deadline - clock /\ TimeLeft \in Int
        BY <1>1 DEF TimeLeft
  <2>2. CASE TimeLeft <= 0
        BY <1>1, <1>2, <2>2 DEF ReadSome, EndsAs, HttpInv, Reading
  <2>3. CASE ~(TimeLeft <= 0)
    <3>1. CASE \E n \in 1 .. want, t \in 0 .. TimeLeft - 1 :
                 /\ got + n <= peer.head + peer.body
                 /\ got' = got + n /\ clock' = clock + t
                 /\ UNCHANGED << step, outcome >>
          BY <1>1, <1>2, <2>1, <3>1
    <3>2. CASE \E t \in 0 .. TimeLeft - 1 :
                 clock' = clock + t /\ EndsAs("protocol", 0) /\ UNCHANGED got
          BY <1>1, <1>2, <2>1, <3>2 DEF EndsAs, HttpInv, Reading
    <3>3. CASE clock' = clock + TimeLeft /\ EndsAs("timeout", 0) /\ UNCHANGED got
          BY <1>1, <1>2, <2>1, <3>3 DEF EndsAs, HttpInv, Reading
    <3>4. CASE EndsAs("io", 0) /\ UNCHANGED << clock, got >>
          BY <1>1, <1>2, <3>4 DEF EndsAs, HttpInv, Reading
    <3> QED BY <2>3, <3>1, <3>2, <3>3, <3>4 DEF ReadSome
  <2> QED BY <2>2, <2>3
<1>4. /\ IsTarget(url)' = IsTarget(url) /\ (HeadIsGood' <=> HeadIsGood)
      /\ Values("token")' = Values("token")
      BY DEF IsTarget, HeadIsGood, TokenMatches, Values
<1>5. outcome = Pending
      BY DEF HttpInv, Reading
<1>6. HttpTyped'
      BY <1>1, <1>3 DEF HttpInv, HttpTyped
<1>7. step' = "body" \/ Expected = NoToken \/ Expected \in Values("token")
        \/ got' < peer.head + ReadSize
  <2>1. CASE step = "body"
        BY <2>1, AcceptedHead DEF HttpInv, Reading
  <2>2. CASE step = "head"
        BY <1>1, <1>2, <1>3, <2>2
  <2> QED BY <2>1, <2>2
<1>8. Reading'
      BY <1>1, <1>3, <1>4, <1>5, <1>7 DEF HttpInv, Reading, Pending
<1> QED BY <1>6, <1>8 DEF HttpInv

LEMMA ConnectKeeps ==
    ASSUME HttpInv, Connect
    PROVE  HttpInv'
<1>1. clock' \in Nat /\ (step' = "done" \/ step' = "write")
      BY HttpClientAssumption DEF Connect, EndsAs, HttpInv, HttpTyped
<1>2. HttpTyped'
      BY <1>1 DEF Connect, HttpInv, HttpTyped
<1>3. /\ step = "connect" /\ got = 0 /\ deadline = 0 /\ outcome = Pending
      /\ UNCHANGED << url, peer, got, deadline >>
      BY DEF Connect, HttpInv, Reading
<1>4. peer.head \in Nat /\ peer.body \in Nat /\ ReadSize \in Nat \ {0}
      BY HttpClientAssumption DEF HttpInv, HttpTyped
<1>5. /\ outcome'.is # "response"
      /\ step' = "done" \/ (step' = "write" /\ IsTarget(url) /\ outcome' = Pending)
  <2>1. CASE ~IsTarget(url) /\ EndsAs("url", 0)
        BY <2>1 DEF EndsAs
  <2>2. CASE IsTarget(url)
    <3>1. CASE EndsAs("connect", 0)
          BY <3>1 DEF EndsAs
    <3>2. CASE step' = "write" /\ UNCHANGED outcome
          BY <1>3, <2>2, <3>2 DEF Pending
    <3> QED BY <2>2, <3>1, <3>2 DEF Connect
  <2> QED BY <2>1, <2>2 DEF Connect
<1>6. IsTarget(url)' = IsTarget(url) /\ Values("token")' = Values("token")
      BY <1>3 DEF IsTarget, Values
<1>7. Reading'
      BY <1>3, <1>4, <1>5, <1>6 DEF Reading
<1> QED BY <1>2, <1>7 DEF HttpInv

\* The deadline is set with the last byte that is written.
LEMMA WriteKeeps ==
    ASSUME HttpInv, WriteAll
    PROVE  HttpInv'
<1>1. /\ step = "write" /\ got = 0 /\ deadline = 0 /\ outcome = Pending /\ IsTarget(url)
      /\ peer \in Replies /\ clock \in Nat /\ unsent \in Nat /\ IoTime \in Nat \ {0}
      BY HttpClientAssumption DEF WriteAll, HttpInv, HttpTyped, Reading
<1>2. peer.head \in Nat /\ peer.body \in Nat /\ ReadSize \in Nat \ {0}
      BY <1>1, HttpClientAssumption
<1>3. IsTarget(url)' /\ Values("token")' = Values("token") /\ got' = 0 /\ peer' = peer
      BY <1>1 DEF WriteAll, IsTarget, Values
<1>4. /\ clock' \in Nat /\ unsent' \in Nat /\ deadline' \in Nat
      /\ step' \in {"write", "head", "done"}
      /\ deadline' > 0 \/ step' = "head" => clock' <= deadline'
      /\ step' # "head" => deadline' = 0
      /\ step' # "done" => outcome' = Pending
      /\ outcome'.is # "response"
  <2>1. CASE \E n \in 1 .. unsent, t \in 0 .. IoTime - 1 :
               /\ unsent' = unsent - n /\ clock' = clock + t
               /\ IF n = unsent THEN step' = "head" /\ deadline' = clock' + IoTime
                  ELSE UNCHANGED << step, deadline >>
               /\ UNCHANGED outcome
        BY <1>1, <2>1 DEF Pending
  <2>2. CASE clock' = clock + IoTime /\ EndsAs("timeout", 0) /\ UNCHANGED << unsent, deadline >>
        BY <1>1, <2>2 DEF EndsAs
  <2>3. CASE EndsAs("io", 0) /\ UNCHANGED << clock, unsent, deadline >>
        BY <1>1, <2>3 DEF EndsAs
  <2> QED BY <2>1, <2>2, <2>3 DEF WriteAll
<1>5. HttpTyped'
      BY <1>1, <1>3, <1>4 DEF HttpTyped
<1>6. Reading'
      BY <1>2, <1>3, <1>4 DEF Reading
<1> QED BY <1>5, <1>6 DEF HttpInv

LEMMA ReadHeadKeeps ==
    ASSUME HttpInv, ReadHead
    PROVE  HttpInv'
<1>1. step = "head" /\ UNCHANGED << url, peer, unsent, deadline >>
      BY DEF ReadHead
<1>2. CASE ~(got >= peer.head) /\ ~(got > MaxHead)
  <2>1. ReadSome(ReadSize) /\ ReadSize \in Nat
        BY <1>2, HttpClientAssumption DEF ReadHead
  <2>2. got < peer.head
        BY <1>2, HttpClientAssumption DEF HttpInv, HttpTyped
  <2> QED BY <1>1, <2>1, <2>2, ReadKeeps
<1>3. CASE got >= peer.head \/ got > MaxHead
  <2>1. /\ UNCHANGED << clock, got >>
        /\ \/ step' = "body" /\ HeadIsGood /\ UNCHANGED outcome
           \/ step' = "done" /\ outcome' = [is |-> "protocol", bytes |-> 0]
        BY <1>3 DEF ReadHead, EndsAs
  <2>2. /\ IsTarget(url)' = IsTarget(url) /\ (HeadIsGood' <=> HeadIsGood)
        /\ Values("token")' = Values("token")
        BY <1>1 DEF IsTarget, HeadIsGood, TokenMatches, Values
  <2>3. HttpTyped'
        BY <1>1, <2>1 DEF HttpInv, HttpTyped
  <2>4. Reading'
        BY <1>1, <2>1, <2>2 DEF HttpInv, Reading, Pending
  <2> QED BY <2>3, <2>4 DEF HttpInv
<1> QED BY <1>2, <1>3

LEMMA ReadBodyKeeps ==
    ASSUME HttpInv, ReadBody
    PROVE  HttpInv'
<1>1. /\ step = "body" /\ UNCHANGED << url, peer, unsent, deadline >>
      /\ HeadIsGood /\ IsTarget(url)
      BY DEF ReadBody, HttpInv, Reading
<1>2. ContentLength \in Nat /\ (Expected = NoToken \/ Expected \in Values("token"))
      BY <1>1, AcceptedHead
<1>3. got \in Nat /\ peer.head \in Nat /\ peer.body \in Nat /\ ReadSize \in Nat \ {0}
      BY HttpClientAssumption DEF HttpInv, HttpTyped
<1> DEFINE left == ContentLength - (got - peer.head)
<1>4. CASE left <= 0
  <2>1. /\ UNCHANGED << clock, got >> /\ step' = "done"
        /\ outcome' = [is |-> "response", bytes |-> ContentLength]
        BY <1>4 DEF ReadBody, EndsAs
  <2>2. got >= peer.head + ContentLength
        BY <1>2, <1>3, <1>4
  <2>3. /\ IsTarget(url)' = IsTarget(url) /\ (HeadIsGood' <=> HeadIsGood)
        /\ Values("token")' = Values("token") /\ ContentLength' = ContentLength
        BY <1>1 DEF IsTarget, HeadIsGood, TokenMatches, Values, ContentLength
  <2>4. HttpTyped'
        BY <1>1, <2>1 DEF HttpInv, HttpTyped
  <2>5. Reading'
        BY <1>1, <1>2, <2>1, <2>2, <2>3 DEF HttpInv, Reading
  <2> QED BY <2>4, <2>5 DEF HttpInv
<1>5. CASE ~(left <= 0)
  <2>1. PICK want : want = IF left < ReadSize THEN left ELSE ReadSize
        OBVIOUS
  <2>2. ReadSome(want) /\ want \in Nat /\ want <= ReadSize
        BY <1>2, <1>3, <1>5, <2>1 DEF ReadBody
  <2> QED BY <1>1, <2>2, ReadKeeps
<1> QED BY <1>4, <1>5

\* A response is whole and the daemon's, and however the peer paces its bytes
\* it is read or given up within the time allowed once the request is out.
THEOREM AnswersAreOnTime == HttpSpec => []AnsweredInTime
<1>1. HttpInit => HttpInv
  <2> SUFFICES ASSUME HttpInit PROVE HttpInv
        OBVIOUS
  <2>1. peer.head \in Nat /\ peer.body \in Nat /\ ReadSize \in Nat \ {0}
        BY HttpClientAssumption DEF HttpInit
  <2> QED BY <2>1, HttpClientAssumption DEF HttpInit, HttpInv, HttpTyped, Reading, Pending
<1>2. HttpInv /\ [HttpNext]_httpVars => HttpInv'
  <2> SUFFICES ASSUME HttpInv, [HttpNext]_httpVars PROVE HttpInv'
        OBVIOUS
  <2>1. CASE HttpNext
        BY <2>1, ConnectKeeps, WriteKeeps, ReadHeadKeeps, ReadBodyKeeps DEF HttpNext
  <2>2. CASE UNCHANGED httpVars
    <3>1. \A name : Values(name)' = Values(name)
          BY <2>2 DEF httpVars, Values
    <3>2. TokenMatches' = TokenMatches
          BY <2>2 DEF httpVars, TokenMatches
    <3>3. HeadIsGood' = HeadIsGood
          BY <2>2, <3>1, <3>2 DEF httpVars, HeadIsGood
    <3>4. ContentLength' = ContentLength
          BY <3>1 DEF ContentLength
    <3> QED BY <2>2, <3>1, <3>3, <3>4 DEF httpVars, HttpInv, HttpTyped, Reading
  <2> QED BY <2>1, <2>2
<1>3. HttpInv => AnsweredInTime
  <2> SUFFICES ASSUME HttpInv PROVE AnsweredInTime
        OBVIOUS
  <2>1. got \in Nat /\ peer.head \in Nat /\ peer.body \in Nat /\ ReadSize \in Nat
        BY HttpClientAssumption DEF HttpInv, HttpTyped
  <2>2. outcome.is = "response" => outcome.bytes \in Nat
        BY AcceptedHead DEF HttpInv, Reading
  <2>3. outcome.is = "response" =>
            /\ Values("content-length") = {outcome.bytes}
            /\ got >= peer.head + outcome.bytes /\ outcome.bytes <= peer.body
            /\ Values("transfer-encoding") = {} /\ IsTarget(url)
        BY <2>1, <2>2, AcceptedHead DEF HttpInv, Reading
  <2>4. step = "body" \/ outcome.is = "response" =>
            Expected = NoToken \/ Expected \in Values("token")
        BY AcceptedHead DEF HttpInv, Reading
  <2>5. Expected # NoToken /\ Expected \notin Values("token") => got < peer.head + ReadSize
        BY AcceptedHead DEF HttpInv, Reading
  <2>6. got > 0 \/ (step = "done" /\ deadline > 0) => clock <= deadline
        BY DEF HttpInv, Reading
  <2> QED BY <2>3, <2>4, <2>5, <2>6 DEF AnsweredInTime
<1> QED BY <1>1, <1>2, <1>3, PTL DEF HttpSpec
=============================================================================
