----------------------------- MODULE MentalModels -----------------------------
(***************************************************************************)
(* The mental models of one bank (memgardend mental/mod.rs, mental/cron.rs,*)
(* store mental_models.rs): documents that a language model rewrites from  *)
(* the facts written since their watermark.                                *)
(*                                                                         *)
(* A refresh has three callers: the cron tick, the end of a consolidation  *)
(* round and the route.  It reads the row and the facts, waits for the     *)
(* model, and writes by id; a claim in memory keeps two refreshes of one   *)
(* document apart, and nothing keeps a PATCH apart from either.  Where the *)
(* client of the route goes, its claim goes, and its write may stay.       *)
(*                                                                         *)
(* Documents are numbered in the order of their creation.  A name and a    *)
(* content are the numbers of their writing; an embedding is the pair it   *)
(* was made from.  A fact is its position in the order of commits.         *)
(***************************************************************************)
EXTENDS Integers, Sequences, FiniteSets, FiniteSetsExt, SequencesExt

CONSTANTS PerPass,      \* MAX_PER_TICK: the page a pass reads
          RecallLimit,  \* facts a refresh recalls
          PromptFacts,  \* facts that fit the refresh prompt
          Fires,        \* the times at which the cron expression fires
          MaxModels,    \* bound: documents ever created
          MaxCommits,   \* bound: facts and observations ever committed
          MaxTime,      \* bound of the clock
          MaxEdits,     \* bound: PATCHes and deletions
          MaxFailures   \* bound: model calls that fail, clients that go

ASSUME MentalModelsAssumption ==
    /\ {PerPass, RecallLimit, PromptFacts, MaxTime} \subseteq Nat \ {0}
    /\ {MaxModels, MaxCommits, MaxEdits, MaxFailures} \subseteq Nat
    /\ Fires \subseteq 1 .. MaxTime

VARIABLES clock,    \* now_ms()
          committed, \* created_at of the committed rows, in commit order
          writing,  \* created_at of each writer's transaction under way, or 0
          models,   \* the rows of mental_models
          created,  \* documents created so far
          pass,     \* the documents each caller has still to refresh
          work,     \* the refresh each caller is in, and the write left by one
          edit,     \* the PATCH that has read its row and not written yet
          edits,    \* PATCHes and deletions so far
          stale,    \* what a start has listed to embed anew
          folded,   \* history: <<document, fact>> -> how often it was summarised
          overlapped, \* history: documents written while another held a read
          crossed,  \* history: documents read with a write of theirs left behind
          failures

mentalVars == << clock, committed, writing, models, created, pass, work, edit, edits,
                 stale, folded, overlapped, crossed, failures >>

RefreshCaller == {"tick", "round", "post"}
Worker == RefreshCaller \cup {"late"}
Writer == {"retain", "consolidate"}     \* insert_batch, apply_plan
NoWork == [pc |-> "idle"]
NoVec == << 0, 0 >>                      \* embedding NULL

\* A row of mental_models.
Trigger == {"none", "cron", "after"}
MentalModel == [trigger: Trigger, name: Nat \ {0}, content: Nat \ {0}, vec: Nat \X Nat,
                at: Nat, mark: Nat \cup {-1}]

\* embed_one of embedding_text: nothing while the embedder loads, or if it fails.
Embedding(name, content) == {NoVec, << name, content >>}
Ever == 1 .. MaxModels

\* Writing m while a refresh or a PATCH of another holds a read of it; of what
\* a refresh has read it keeps the name, which another refresh does not write.
Readers(c) == {work[d].m : d \in {d \in Worker : c \notin Worker /\ work[d] # NoWork}}
              \cup (IF edit # NoWork /\ c # "patch" THEN {edit.m} ELSE {})
              \cup (IF c # "start" THEN {row.m : row \in stale.rows} ELSE {})
Overlaps(c, m) == overlapped' = IF m \in Readers(c) THEN overlapped \cup {m} ELSE overlapped

----------------------------------------------------------------------------
(* The schedule *)

\* is_due, for an expression that parses.
PrevFire(now) == Max({0} \cup {t \in Fires : t <= now})
IsDue(m) == /\ models[m].trigger = "cron"
            /\ models[m].at = 0 \/ PrevFire(clock) > models[m].at

\* store::list: newest refresh first, never refreshed last, then the newest
\* row; one page from the start.
Newer(m, n) ==
    \/ models[m].at > models[n].at
    \/ models[m].at = models[n].at /\ m > n
Page == LET all == SetToSortSeq(DOMAIN models, Newer)
        IN  SubSeq(all, 1, IF Len(all) < PerPass THEN Len(all) ELSE PerPass)

Idle(c) == pass[c] = << >> /\ work[c] = NoWork

\* A pass begins: the tick with the due documents of the page, unless a retain
\* is in flight; the end of a round with those that wait for it; the route
\* with the one it names.
Awaited(m) == models[m].trigger = "after"
Queue(c) == IF c = "tick" THEN SelectSeq(Page, IsDue) ELSE SelectSeq(Page, Awaited)

BeginPass(c) ==
    /\ c \in {"tick", "round"}
    /\ Idle(c)
    /\ c = "tick" => writing["retain"] = 0
    /\ Queue(c) # << >>
    /\ pass' = [pass EXCEPT ![c] = Queue(c)]
    /\ UNCHANGED << clock, committed, writing, models, created, work, edit, edits, stale,
                    folded, overlapped, crossed, failures >>

PostRefresh ==
    /\ Idle("post")
    /\ \E m \in DOMAIN models : pass' = [pass EXCEPT !["post"] = << m >>]
    /\ UNCHANGED << clock, committed, writing, models, created, work, edit, edits, stale,
                    folded, overlapped, crossed, failures >>

----------------------------------------------------------------------------
(* refresh *)

\* claim: no other refresh of the document is under way.
RefreshClaimed(m) == \E d \in RefreshCaller : work[d] # NoWork /\ work[d].m = m

\* The claim and the read of the row; a conflict or a deleted row is an error,
\* and the pass goes on.
Load(c) ==
    /\ pass[c] # << >> /\ work[c] = NoWork
    /\ LET m == Head(pass[c])
           left == work["late"]
       IN  IF RefreshClaimed(m) \/ m \notin DOMAIN models THEN UNCHANGED << work, crossed >>
           ELSE /\ work' = [work EXCEPT ![c] = [pc |-> "recall", m |-> m, now |-> clock,
                                               mark |-> models[m].mark,
                                               name |-> models[m].name]]
                /\ crossed' = crossed \cup IF left.pc = "ask" /\ left.m = m THEN {m} ELSE {}
    /\ pass' = [pass EXCEPT ![c] = Tail(@)]
    /\ UNCHANGED << clock, committed, writing, models, created, edit, edits, stale, folded,
                    overlapped, failures >>

\* created_at >= since.
MutInclusive(found, since) == {f \in found : committed[f] >= since}
\* supporting_facts and assemble_refresh: of what recall finds, the rows after
\* the watermark read with the document; the prompt sheds from the tail.
InScope(found, since) == {f \in found : committed[f] > since}

Recall(c) ==
    /\ work[c].pc = "recall"
    /\ \E found \in SUBSET DOMAIN committed :
          /\ Cardinality(found) <= RecallLimit
          /\ LET scope == InScope(found, work[c].mark)
             IN  IF scope = {}
                 THEN work' = [work EXCEPT ![c].pc = "skip"]
                 ELSE \E used \in (SUBSET scope) \ {{}} :
                        /\ Cardinality(used) <= PromptFacts
                        /\ work' = [work EXCEPT ![c] =
                              [pc |-> "ask", m |-> work[c].m, now |-> work[c].now,
                               name |-> work[c].name, used |-> used,
                               mark |-> Max({committed[f] : f \in scope})]]
    /\ UNCHANGED << clock, committed, writing, models, created, pass, edit, edits, stale,
                    folded, overlapped, crossed, failures >>

Done(c) == work' = [work EXCEPT ![c] = NoWork]

\* A refresh with nothing to fold leaves the row as it was.
MutSkipNothing(m, now) == models
\* No new facts: the wall clock moves, the watermark does not.
Skipped(m, now) == [models EXCEPT ![m].at = now]

Skip(c) ==
    /\ work[c].pc = "skip"
    /\ LET m == work[c].m
       IN  models' = IF m \in DOMAIN models THEN Skipped(m, work[c].now) ELSE models
    /\ Done(c)
    /\ UNCHANGED << clock, committed, writing, created, pass, edit, edits, stale, folded,
                    overlapped, crossed, failures >>

\* The call fails, or answers with nothing: content and both clocks stay.
AskFails(c) ==
    /\ work[c].pc = "ask"
    /\ failures < MaxFailures /\ failures' = failures + 1
    /\ Done(c)
    /\ UNCHANGED << clock, committed, writing, models, created, pass, edit, edits, stale,
                    folded, overlapped, crossed >>

\* The client of the route goes: the future is dropped, and the claim with it.
\* A write that a blocking thread has by then is made all the same.
HangUp ==
    /\ work["post"] # NoWork
    /\ failures < MaxFailures /\ failures' = failures + 1
    /\ \/ Done("post")
       \/ /\ work["post"].pc \in {"skip", "ask"} /\ work["late"] = NoWork
          /\ work' = [work EXCEPT !["post"] = NoWork, !["late"] = work["post"]]
    /\ UNCHANGED << clock, committed, writing, models, created, pass, edit, edits, stale,
                    folded, overlapped, crossed >>

\* The vector survives a refresh that could not embed.
MutKeepVec(m, w, content, vec) ==
    [models EXCEPT ![m] = [@ EXCEPT !.content = content, !.at = w.now, !.mark = w.mark,
                                    !.vec = IF vec = NoVec THEN @ ELSE vec]]
\* write_refresh: content, both clocks and the embedding of the name that was
\* read with the new content, or none if the embedder is away.
Refreshed(m, w, content, vec) ==
    [models EXCEPT ![m] = [@ EXCEPT !.content = content, !.at = w.now, !.mark = w.mark,
                                    !.vec = vec]]

WriteRefresh(c) ==
    LET w == work[c] IN
    /\ w.pc = "ask"
    /\ \/ /\ w.m \in DOMAIN models
          /\ LET content == models[w.m].content + 1
             IN  \E vec \in Embedding(w.name, content) :
                    models' = Refreshed(w.m, w, content, vec)
          /\ folded' = [p \in DOMAIN folded |->
                          IF p \in {w.m} \X w.used THEN folded[p] + 1 ELSE folded[p]]
          /\ Overlaps(c, w.m)
       \/ w.m \notin DOMAIN models /\ UNCHANGED << models, folded, overlapped >>
    /\ Done(c)
    /\ UNCHANGED << clock, committed, writing, created, pass, edit, edits, stale,
                    crossed, failures >>

----------------------------------------------------------------------------
(* The routes *)

\* store::insert, of what create embedded before.
NewRow(trigger, vec) ==
    [trigger |-> trigger, name |-> 1, content |-> 1, vec |-> vec, at |-> 0, mark |-> -1]

\* Only MaxModels documents are ever created.
Create ==
    /\ created < MaxModels /\ created' = created + 1
    /\ \E trigger \in Trigger, vec \in Embedding(1, 1) :
          models' = [m \in DOMAIN models \cup {created'} |->
                        IF m = created' THEN NewRow(trigger, vec) ELSE models[m]]
    /\ UNCHANGED << clock, committed, writing, pass, work, edit, edits, stale, folded,
                    overlapped, crossed, failures >>

Edit == edits < MaxEdits /\ edits' = edits + 1

\* What a PATCH names of the embedded text: None leaves a column alone.
Fields == [named: BOOLEAN, worded: BOOLEAN]

\* patch reads the row, embeds what the row will say, and writes by id.
PatchLoad ==
    /\ edit = NoWork /\ Edit
    /\ \E m \in DOMAIN models, f \in Fields :
          edit' = [named |-> f.named, worded |-> f.worded, m |-> m,
                   name |-> models[m].name, content |-> models[m].content]
    /\ UNCHANGED << clock, committed, writing, models, created, pass, work, stale, folded,
                    overlapped, crossed, failures >>

\* The text that patch embeds: what it names over the row as it was read.
PatchedText(e) ==
    LET now == models[e.m]
    IN  << IF e.named THEN now.name + 1 ELSE e.name,
           IF e.worded THEN now.content + 1 ELSE e.content >>

\* COALESCE keeps a column the PATCH does not name; a changed text replaces
\* the embedding, or clears it.
Patched(e, vec) ==
    LET now == models[e.m]
    IN  [models EXCEPT ![e.m] = [now EXCEPT
            !.name = IF e.named THEN now.name + 1 ELSE now.name,
            !.content = IF e.worded THEN now.content + 1 ELSE now.content,
            !.vec = IF e.named \/ e.worded THEN vec ELSE now.vec]]

PatchWrite ==
    /\ edit # NoWork
    /\ \/ /\ edit.m \in DOMAIN models
          /\ LET text == PatchedText(edit)
             IN  \E vec \in Embedding(text[1], text[2]) : models' = Patched(edit, vec)
          /\ Overlaps("patch", edit.m)
       \/ edit.m \notin DOMAIN models /\ UNCHANGED << models, overlapped >>
    /\ edit' = NoWork
    /\ UNCHANGED << clock, committed, writing, created, pass, work, edits, stale, folded,
                    crossed, failures >>

\* A PATCH of the trigger alone embeds nothing.
SetTrigger ==
    /\ Edit
    /\ \E m \in DOMAIN models, trigger \in Trigger \ {"none"} :
          models' = [models EXCEPT ![m].trigger = trigger]
    /\ UNCHANGED << clock, committed, writing, created, pass, work, edit, stale, folded,
                    overlapped, crossed, failures >>

\* clear_trigger: of a document that has one.
ClearTrigger ==
    /\ Edit
    /\ \E m \in DOMAIN models :
          /\ models[m].trigger # "none"
          /\ models' = [models EXCEPT ![m].trigger = "none"]
    /\ UNCHANGED << clock, committed, writing, created, pass, work, edit, stale, folded,
                    overlapped, crossed, failures >>

DeleteModel ==
    /\ Edit
    /\ \E m \in DOMAIN models : models' = [n \in DOMAIN models \ {m} |-> models[n]]
    /\ UNCHANGED << clock, committed, writing, created, pass, work, edit, stale, folded,
                    overlapped, crossed, failures >>

----------------------------------------------------------------------------
(* The start of a daemon: the embedder is ready, once *)

\* stale_embeddings: the rows without a vector of this embedder.
Stale == {[m |-> m, name |-> models[m].name, content |-> models[m].content] :
            m \in {m \in DOMAIN models : models[m].vec = NoVec}}
\* A list of none changes nothing.
ListStale ==
    /\ ~stale.listed /\ Stale # {}
    /\ stale' = [listed |-> TRUE, rows |-> Stale]
    /\ UNCHANGED << clock, committed, writing, models, created, pass, work, edit, edits, folded,
                    overlapped, crossed, failures >>

\* reembed_stale_mental_models: each row, in the order of their ids, which are
\* random, as it was listed; the vector is written by id.
Reembed ==
    /\ \E row \in stale.rows : \E vec \in Embedding(row.name, row.content) :
          /\ IF vec = NoVec \/ row.m \notin DOMAIN models THEN UNCHANGED << models, overlapped >>
             ELSE models' = [models EXCEPT ![row.m].vec = vec] /\ Overlaps("start", row.m)
          /\ stale' = [stale EXCEPT !.rows = @ \ {row}]
    /\ UNCHANGED << clock, committed, writing, created, pass, work, edit, edits, folded,
                    crossed, failures >>

----------------------------------------------------------------------------
(* Facts and time *)

\* insert_batch and apply_plan read the clock, then wait for the write lock.
Stamp(w) ==
    /\ writing[w] = 0
    /\ Len(committed) + Cardinality({v \in Writer : writing[v] # 0}) < MaxCommits
    /\ writing' = [writing EXCEPT ![w] = clock]
    /\ UNCHANGED << clock, committed, models, created, pass, work, edit, edits, stale,
                    folded, overlapped, crossed, failures >>

Commit(w) ==
    /\ writing[w] # 0
    /\ committed' = Append(committed, writing[w])
    /\ writing' = [writing EXCEPT ![w] = 0]
    /\ UNCHANGED << clock, models, created, pass, work, edit, edits, stale, folded,
                    overlapped, crossed, failures >>

Elapse ==
    /\ clock < MaxTime /\ clock' = clock + 1
    /\ UNCHANGED << committed, writing, models, created, pass, work, edit, edits, stale,
                    folded, overlapped, crossed, failures >>

MentalInit ==
    /\ clock = 1 /\ committed = << >> /\ writing = [w \in Writer |-> 0]
    /\ models = << >> /\ created = 0
    /\ pass = [c \in RefreshCaller |-> << >>]
    /\ work = [c \in Worker |-> NoWork] /\ edit = NoWork /\ edits = 0
    /\ stale = [listed |-> FALSE, rows |-> {}]
    /\ folded = [p \in Ever \X (1 .. MaxCommits) |-> 0]
    /\ overlapped = {} /\ crossed = {} /\ failures = 0

RefreshStep(c) == Load(c) \/ Recall(c) \/ Skip(c) \/ WriteRefresh(c)
LateWrite == Skip("late") \/ WriteRefresh("late")

MentalNext ==
    \/ \E c \in RefreshCaller : BeginPass(c) \/ RefreshStep(c) \/ AskFails(c)
    \/ PostRefresh \/ HangUp \/ LateWrite
    \/ Create \/ PatchLoad \/ PatchWrite \/ SetTrigger \/ ClearTrigger \/ DeleteModel
    \/ ListStale \/ Reembed
    \/ \E w \in Writer : Stamp(w) \/ Commit(w)
    \/ Elapse

\* The tick fires for ever, a refresh ends, and so does a retain's write.
Refreshes(c) == RefreshStep(c) \/ AskFails(c)
MentalFairness ==
    /\ WF_mentalVars(BeginPass("tick"))
    /\ \A c \in RefreshCaller : WF_mentalVars(Refreshes(c))
    /\ WF_mentalVars(Commit("retain"))

MentalSpec == MentalInit /\ [][MentalNext]_mentalVars /\ MentalFairness

----------------------------------------------------------------------------
(* Properties *)

MentalTypeOK ==
    /\ clock \in 1 .. MaxTime /\ created \in 0 .. MaxModels
    /\ DOMAIN models \subseteq 1 .. created /\ Range(models) \subseteq MentalModel
    /\ \A m \in DOMAIN models : models[m].at \in 0 .. clock /\ models[m].mark <= clock
    /\ \A c \in RefreshCaller : Len(pass[c]) <= PerPass
    /\ \A c \in Worker : work[c] # NoWork => work[c].m \in 1 .. created
    /\ overlapped \cup crossed \subseteq 1 .. created

\* "Which facts have we already folded in": no fact is summarised twice into
\* one document, whoever refreshes it and however their calls interleave; but
\* for a document that was read while a write to it was left behind.
FoldedOnce == \A p \in DOMAIN folded : p[1] \notin crossed => folded[p] <= 1

\* A document's embedding is missing or that of its name and content, but for
\* a document that was written while another held a read of it.
EmbeddingsAreCurrent ==
    \A m \in DOMAIN models \ overlapped :
        models[m].vec \in {NoVec, << models[m].name, models[m].content >>}

\* Both: a document is of what was read for it, and its vector of the document.
DocumentsAreCurrent == FoldedOnce /\ EmbeddingsAreCurrent

\* "It stays due" and "catches up over the following passes": a due document
\* is refreshed in the end, or no longer due.
DueIsRefreshed ==
    \A m \in Ever : (m \in DOMAIN models /\ IsDue(m))
                        ~> ~(m \in DOMAIN models /\ IsDue(m))

\* "A straddling commit stays newer than the watermark": whatever is under way
\* is after every mark when it commits.
StraddlersAreNewer ==
    \A w \in Writer, m \in DOMAIN models : writing[w] # 0 => writing[w] > models[m].mark

\* "One refresh per model at a time", lest two overlapping refreshes "both
\* summarise the facts after T": not past a client that goes.
OneAtATime == \A p \in DOMAIN folded : folded[p] <= 1

\* "The highest created_at a refresh has actually summarised".
MarkIsSummarised ==
    \A m \in DOMAIN models : models[m].mark > 0 =>
        \E f \in DOMAIN committed : committed[f] = models[m].mark /\ folded[<< m, f >>] > 0

=============================================================================
