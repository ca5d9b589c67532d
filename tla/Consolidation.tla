--------------------------- MODULE Consolidation ---------------------------
(***************************************************************************)
(* One bank's consolidation rounds (memgardend consolidate/round.rs, the   *)
(* dedup of consolidate/mod.rs, the rows of store consolidate.rs).         *)
(*                                                                         *)
(* A round reads the bank's watermark, selects the facts above it, asks a  *)
(* model batch by batch what to do with them, applies each plan in one     *)
(* transaction, deduplicates what the plan touched, and writes the new     *)
(* watermark with its last write.  Two callers start rounds, the tick and  *)
(* POST /consolidate; a claim in memory keeps them apart.  A round ends    *)
(* well, fails, dies with the process or is dropped: by its deadline, by a *)
(* client that goes.  A transaction that a dropped round was waiting for   *)
(* is on a blocking thread and commits all the same, without the claim.    *)
(*                                                                         *)
(* Facts are numbered in rowid order.  A text is the set of facts whose    *)
(* details it preserves, under a model that does what its prompts ask.     *)
(***************************************************************************)
EXTENDS Integers, Sequences, FiniteSets, FiniteSetsExt, SequencesExt

CONSTANTS Tick,          \* the background task's tick, with a deadline
          Post,          \* the route's caller, who may hang up
          BatchSize,     \* consolidation.batch_size: facts of a round
          LlmBatch,      \* consolidation.llm_batch_size: facts of a prompt
          Adjudications, \* MAX_ADJUDICATIONS_PER_ROUND
          MaxFacts,      \* bound: facts the bank ever retains
          MaxCreates,    \* bound: observations one plan creates
          MaxObs,        \* bound: observations ever created
          MaxHides,      \* bound: facts ever withdrawn
          MaxFaults      \* bound: failed calls, dropped rounds and kills

Caller == {Tick, Post}

ASSUME ConsolidationAssumption ==
    /\ Tick # Post
    /\ {BatchSize, LlmBatch, Adjudications} \subseteq Nat \ {0}
    /\ {MaxFacts, MaxCreates, MaxObs, MaxHides, MaxFaults} \subseteq Nat

VARIABLES arrived,   \* facts 1 .. arrived of the bank are stored
          hidden,    \* facts superseded or expired at present
          withdrawn, \* history: facts that ever were
          retaining, \* retain::queued_bytes() > 0
          obs,       \* observation rows by uuid: its sources and text, or Gone
          mark,      \* the highest watermark among the bank's run rows
          round,     \* each caller's round in progress
          strays,    \* transactions of dropped rounds that are still to commit
          decided,   \* history: facts applied, abandoned, skipped or dropped
          applied,   \* history: how many committed plans had the fact
          faults,    \* failures so far
          spoils     \* history: rounds whose mark was lost, or late, for a plan
                     \* that was committed or is a stray

roundVars == << arrived, hidden, withdrawn, retaining, obs, mark, round, strays,
                decided, applied, faults, spoils >>

Gone == [src |-> {}, text |-> {}, live |-> FALSE]
NoRound == [pc |-> "idle"]

\* store::watermark is the MAX over every run row that recorded one, and 0
\* with none: of the rows only that maximum is kept here.  A row that stays
\* or is swept without a mark (fail_stale_runs) leaves it as it was.
Recorded(m) == IF m > mark THEN m ELSE mark

\* store::unconsolidated: the oldest live facts above the mark; the set has one
\* sequence of them, in rowid order.
Unconsolidated(above) ==
    LET live == {f \in above + 1 .. arrived : f \notin hidden}
        n == Min({Cardinality(live), BatchSize})
    IN  {s \in [1 .. n -> live] :
            /\ \A i, j \in 1 .. n : i < j => s[i] < s[j]
            /\ \A f \in live : f \in Range(s) \/ \A i \in 1 .. n : s[i] < f}

\* The queue of index ranges, cut by llm_batch_size.
Ranges(n) ==
    [k \in 1 .. (n + LlmBatch - 1) \div LlmBatch |->
        << (k - 1) * LlmBatch + 1,
           IF k * LlmBatch < n THEN k * LlmBatch ELSE n >>]

Batch(r) == {r.facts[i] : i \in r.range[1] .. r.range[2]}
Alone(r) == r.range[1] = r.range[2]

\* The guard of a round is held for as long as its future lives.
RoundClaimed == \E a \in Caller : round[a] # NoRound

\* The claim outlives its round.
MutKeepClaim(a) == round' = [round EXCEPT ![a].pc = "over"]
\* What the dropped future or the dead process leaves of a round: nothing.
Released(a) == round' = [round EXCEPT ![a] = NoRound]
Continue(a, r) == round' = [round EXCEPT ![a] = r]

Fault == faults < MaxFaults /\ faults' = faults + 1

Living == {o \in DOMAIN obs : obs[o].live}

----------------------------------------------------------------------------
(* run_round *)

\* The claim, then one read of watermark and facts.  A tick does not begin
\* while a retain is queued; a bank with nothing new costs no run row.  (The
\* tick also waits for the embedder and for a bank's vectors: see RoundFairness.)
Begin(a) ==
    /\ round[a] = NoRound
    /\ ~RoundClaimed
    /\ a = Tick => ~retaining
    /\ \E facts \in Unconsolidated(mark) :
           /\ facts # << >>
           /\ Continue(a, [pc |-> "open", facts |-> facts,
                           queue |-> Ranges(Len(facts)), range |-> << 1, 1 >>,
                           mark |-> mark, plan |-> << >>, cands |-> << >>,
                           budget |-> Adjudications, dirty |-> FALSE])
    /\ UNCHANGED << arrived, hidden, withdrawn, retaining, obs, mark, strays,
                    decided, applied, faults, spoils >>

OpenRun(a) ==
    /\ round[a].pc = "open"
    /\ Continue(a, [round[a] EXCEPT !.pc = "next"])
    /\ UNCHANGED << arrived, hidden, withdrawn, retaining, obs, mark, strays,
                    decided, applied, faults, spoils >>

\* start_run is refused: the round ends with its error and no row.
OpenFails(a) ==
    /\ round[a].pc = "open"
    /\ Fault
    /\ Released(a)
    /\ UNCHANGED << arrived, hidden, withdrawn, retaining, obs, mark, strays,
                    decided, applied, spoils >>

\* The retain guard is rechecked before every batch.
NextBatch(a) ==
    LET r == round[a]
    IN  /\ r.pc = "next"
        /\ \/ /\ r.queue = << >> \/ retaining
              /\ Continue(a, [r EXCEPT !.pc = "close"])
           \/ /\ r.queue # << >> /\ ~retaining
              /\ Continue(a, [r EXCEPT !.pc = "ask", !.range = Head(r.queue),
                                       !.queue = Tail(r.queue)])
        /\ UNCHANGED << arrived, hidden, withdrawn, retaining, obs, mark, strays,
                        decided, applied, faults, spoils >>

\* The halves are pushed in the other order.
MutHalvesSwapped(range) ==
    LET mid == range[1] + (range[2] - range[1] + 1) \div 2
    IN  << << mid, range[2] >>, << range[1], mid - 1 >> >>
\* The halves of a range go back on the front of the queue, in order.
Halves(range) ==
    LET mid == range[1] + (range[2] - range[1] + 1) \div 2
    IN  << << range[1], mid - 1 >>, << mid, range[2] >> >>

\* Too big for the prompt budget, or refused on every attempt.
Bisect(a) ==
    LET r == round[a]
    IN  /\ r.pc = "ask"
        /\ ~Alone(r)
        /\ Continue(a, [r EXCEPT !.pc = "next", !.queue = Halves(r.range) \o r.queue])
        /\ UNCHANGED << arrived, hidden, withdrawn, retaining, obs, mark, strays,
                        decided, applied, faults, spoils >>

\* Where the mark goes after a batch's terminal outcome.
Passed(r) == [r EXCEPT !.pc = "next", !.mark = r.facts[r.range[2]]]

\* A lone fact refused or too big, or a batch whose calls never arrived.
Abandon(a) ==
    LET r == round[a]
    IN  /\ r.pc = "ask"
        /\ Continue(a, Passed(r))
        /\ decided' = decided \cup Batch(r)
        /\ UNCHANGED << arrived, hidden, withdrawn, retaining, obs, mark, strays,
                        applied, faults, spoils >>

\* pool_observations: what the batch's facts recall and the token budget keeps
\* is arbitrary, so a plan may be about any observation.
Pooled == Living

\* The text an answer made of that of an observation it was shown.
Shown(o) == IF o = 0 THEN {} ELSE obs[o].text

\* A plan: the sources of each create, one update and one delete, or 0.
Plan(batch) == [creates : SeqOf((SUBSET batch) \ {{}}, MaxCreates),
                update : {0} \cup Pooled, from : SUBSET batch, delete : {0} \cup Pooled]

\* What validate lets through: every entry cites facts of the batch, one update
\* per pooled observation, no delete of an updated one.
Plans(batch) ==
    {p \in Plan(batch) :
        /\ p.update = 0 <=> p.from = {}
        /\ p.update # 0 => p.update # p.delete
        /\ p.creates = << >> \/ Len(obs) + Len(p.creates) <= MaxObs}

Answer(a) ==
    LET r == round[a]
    IN  /\ r.pc = "ask"
        /\ \E p \in Plans(Batch(r)) :
              Continue(a, [r EXCEPT !.pc = "write",
                                    !.plan = p @@ [text |-> Shown(p.update) \cup p.from]])
        /\ UNCHANGED << arrived, hidden, withdrawn, retaining, obs, mark, strays,
                        decided, applied, faults, spoils >>

\* link_sources: the sources are united, never replaced.
Linked(o, from) == obs[o].src \cup from

\* apply_plan, one transaction: creates, the update with its sources united,
\* the delete.  An entry whose target is gone is skipped.
Written(p) ==
    LET made == [i \in DOMAIN p.creates |->
                    [src |-> p.creates[i], text |-> p.creates[i], live |-> TRUE]]
        rewritten == [o \in DOMAIN obs |->
                        IF o = p.update /\ obs[o].live
                        THEN [src |-> Linked(o, p.from),
                              text |-> p.text, live |-> TRUE]
                        ELSE IF o = p.delete THEN Gone ELSE obs[o]]
    IN  rewritten \o made

\* The dedup candidates: creates first, then the update if it was re-embedded;
\* each with the text the plan gave it.
DedupCandidates(p, reembedded) ==
    [i \in DOMAIN p.creates |-> [id |-> Len(obs) + i, text |-> p.creates[i]]]
    \o (IF reembedded
        THEN << [id |-> p.update, text |-> p.text] >>
        ELSE << >>)

Apply(a) ==
    LET r == round[a]
    IN  /\ r.pc = "write"
        /\ obs' = Written(r.plan)
        /\ applied' = [f \in DOMAIN applied |->
                          IF f \in Batch(r) THEN applied[f] + 1 ELSE applied[f]]
        /\ \E reembedded \in BOOLEAN :
              /\ reembedded => r.plan.update \in Living
              /\ Continue(a, [r EXCEPT !.pc = "dedup", !.plan = << >>, !.dirty = TRUE,
                                       !.cands = DedupCandidates(r.plan, reembedded)])
        /\ UNCHANGED << arrived, hidden, withdrawn, retaining, mark, strays,
                        decided, faults, spoils >>

\* observation_vectors: what a candidate is compared with.  Which twin is near
\* enough is arbitrary.
Twins(own) == Living \ {own}

\* dedup_created without a merge: no twin above the threshold (no call), or
\* the model keeps both.
Keep(a) ==
    LET r == round[a]
    IN  /\ r.pc = "dedup" /\ r.cands # << >> /\ r.budget > 0
        /\ \E called \in {0, 1} :
              /\ called = 1 => r.cands[1].id \in Living /\ Twins(r.cands[1].id) # {}
              /\ Continue(a, [r EXCEPT !.cands = Tail(@), !.budget = @ - called])
        /\ UNCHANGED << arrived, hidden, withdrawn, retaining, obs, mark, strays,
                        decided, applied, faults, spoils >>

\* select_twin, and a model that is asked to merge: both are known by their
\* uuids from here on, the text is made of the two texts it was shown.
Adjudicate(a) ==
    LET r == round[a]
    IN  /\ r.pc = "dedup" /\ r.cands # << >> /\ r.budget > 0
        /\ r.cands[1].id \in Living
        /\ \E twin \in Twins(r.cands[1].id) :
              Continue(a, [r EXCEPT !.pc = "merge",
                                    !.plan = [keep |-> twin, drop |-> r.cands[1].id,
                                              text |-> Shown(twin) \cup r.cands[1].text]])
        /\ UNCHANGED << arrived, hidden, withdrawn, retaining, obs, mark, strays,
                        decided, applied, faults, spoils >>

\* The merge forgets the sources of the one it drops.
MutDropSources(m) == [obs EXCEPT ![m.keep].text = m.text, ![m.drop] = Gone]
\* merge_observation: the twin takes the sources and the text, the candidate
\* is deleted.
Merged(m) ==
    [obs EXCEPT ![m.keep] = [src |-> Linked(m.keep, obs[m.drop].src), text |-> m.text,
                             live |-> TRUE],
                ![m.drop] = Gone]
BothLive(m) == {m.keep, m.drop} \subseteq Living

Merge(a) ==
    LET r == round[a]
    IN  /\ r.pc = "merge" /\ BothLive(r.plan)
        /\ obs' = Merged(r.plan)
        /\ Continue(a, [r EXCEPT !.pc = "dedup", !.plan = << >>,
                                 !.cands = Tail(@), !.budget = @ - 1])
        /\ UNCHANGED << arrived, hidden, withdrawn, retaining, mark, strays,
                        decided, applied, faults, spoils >>

\* "vanished": a stray took the candidate before its twin was selected, or
\* either of the two while the model was asked.
Vanished(a) ==
    LET r == round[a]
    IN  /\ \/ /\ r.pc = "dedup" /\ r.cands # << >> /\ r.budget > 0
              /\ r.cands[1].id \notin Living /\ Living # {}
           \/ r.pc = "merge" /\ ~BothLive(r.plan)
        /\ Continue(a, [r EXCEPT !.pc = "fail", !.plan = << >>, !.cands = << >>])
        /\ spoils' = spoils + 1
        /\ UNCHANGED << arrived, hidden, withdrawn, retaining, obs, mark, strays,
                        decided, applied, faults >>

\* The candidates are done, or the round's adjudications are spent.
BatchApplied(a) ==
    LET r == round[a]
    IN  /\ r.pc = "dedup" /\ (r.cands = << >> \/ r.budget = 0)
        /\ Continue(a, [Passed(r) EXCEPT !.cands = << >>])
        /\ decided' = decided \cup Batch(r)
        /\ UNCHANGED << arrived, hidden, withdrawn, retaining, obs, mark, strays,
                        applied, faults, spoils >>

\* A query, an embedding or a write fails: process_batch returns Err.  After
\* the plan is committed the failure spoils the batch.
BatchFails(a) ==
    LET r == round[a]
    IN  /\ \/ r.pc \in {"ask", "write", "merge"}
           \/ r.pc = "dedup" /\ r.cands # << >> /\ r.budget > 0
        /\ Fault
        /\ Continue(a, [r EXCEPT !.pc = "fail", !.plan = << >>, !.cands = << >>])
        /\ spoils' = IF r.pc \in {"dedup", "merge"} THEN spoils + 1 ELSE spoils
        /\ UNCHANGED << arrived, hidden, withdrawn, retaining, obs, mark, strays,
                        decided, applied >>

\* A failed run records no watermark.
MutFailedForgets(status, m) == IF status = "failed" THEN mark ELSE Recorded(m)
\* finish_run, after the last batch or after a failure (best effort there):
\* the mark is written for both.
FinishRun(status, m) == Recorded(m)

Close(a) ==
    LET r == round[a]
    IN  /\ r.pc = "close"
        /\ mark' = FinishRun("done", r.mark)
        /\ Released(a)
        /\ UNCHANGED << arrived, hidden, withdrawn, retaining, obs, strays,
                        decided, applied, faults, spoils >>

CloseFailed(a) ==
    LET r == round[a]
    IN  /\ r.pc = "fail"
        /\ mark' = FinishRun("failed", r.mark)
        /\ Released(a)
        /\ UNCHANGED << arrived, hidden, withdrawn, retaining, obs, strays,
                        decided, applied, faults, spoils >>

\* The last write is refused: the row stays open and the mark is lost.
CloseLost(a) ==
    /\ round[a].pc \in {"close", "fail"}
    /\ Fault
    /\ spoils' = IF round[a].dirty THEN spoils + 1 ELSE spoils
    /\ Released(a)
    /\ UNCHANGED << arrived, hidden, withdrawn, retaining, obs, mark, strays,
                    decided, applied >>

\* The transaction whose end a round waits for, with what it goes by.
Begun(r) ==
    CASE r.pc = "write" ->
             {[no |-> faults, kind |-> "plan", write |-> r.plan, of |-> Batch(r)]}
      [] r.pc = "merge" -> {[no |-> faults, kind |-> "merge", write |-> r.plan, of |-> {}]}
      [] r.pc \in {"close", "fail"} ->
             {[no |-> faults, kind |-> "finish", of |-> {},
               write |-> [status |-> IF r.pc = "fail" THEN "failed" ELSE "done",
                          mark |-> r.mark]]}
      [] OTHER -> {}

\* tick_once gives a round two intervals, then drops its future; axum drops
\* that of a client that is gone.  The claim goes with it.  A transaction on a
\* blocking thread does not: whether one was begun (a plan is embedded before,
\* a merge waits for the model) is open, finish_run's was.
Drop(a) ==
    LET r == round[a]
    IN  /\ r # NoRound
        /\ Fault
        /\ \E left \in SUBSET Begun(r) :
              /\ r.pc \in {"close", "fail"} => left # {}
              /\ strays' = strays \cup left
              /\ spoils' = IF r.dirty \/ (r.pc = "write" /\ left # {})
                           THEN spoils + 1 ELSE spoils
        /\ Released(a)
        /\ UNCHANGED << arrived, hidden, withdrawn, retaining, obs, mark, decided,
                        applied >>

\* A stray commits, beside whatever round has begun meanwhile.  (One that is
\* refused is one that never does.)
LatePlan ==
    \E t \in strays :
        /\ t.kind = "plan"
        /\ obs' = Written(t.write)
        /\ applied' = [f \in DOMAIN applied |->
                          IF f \in t.of THEN applied[f] + 1 ELSE applied[f]]
        /\ strays' = strays \ {t}
        /\ UNCHANGED << arrived, hidden, withdrawn, retaining, mark, round,
                        decided, faults, spoils >>

LateMerge ==
    \E t \in strays :
        /\ t.kind = "merge"
        /\ obs' = IF BothLive(t.write) THEN Merged(t.write) ELSE obs
        /\ strays' = strays \ {t}
        /\ UNCHANGED << arrived, hidden, withdrawn, retaining, mark, round,
                        decided, applied, faults, spoils >>

LateFinish ==
    \E t \in strays :
        /\ t.kind = "finish"
        /\ mark' = FinishRun(t.write.status, t.write.mark)
        /\ strays' = strays \ {t}
        /\ UNCHANGED << arrived, hidden, withdrawn, retaining, obs, round,
                        decided, applied, faults, spoils >>

\* The process dies and starts again, with its strays: fail_stale_runs closes
\* the open rows without a mark.
KillAndRestart ==
    /\ Fault
    /\ spoils' = IF \E a \in Caller : round[a] # NoRound /\ round[a].dirty
                 THEN spoils + 1 ELSE spoils
    /\ round' = [a \in Caller |-> NoRound]
    /\ strays' = {}
    /\ UNCHANGED << arrived, hidden, withdrawn, retaining, obs, mark, decided,
                    applied >>

----------------------------------------------------------------------------
(* The rest of the bank: retains, supersessions *)

RetainArrives ==
    /\ ~retaining /\ arrived < MaxFacts
    /\ retaining' = TRUE
    /\ UNCHANGED << arrived, hidden, withdrawn, obs, mark, round, strays, decided,
                    applied, faults, spoils >>

\* A job's chunk commits a fact, and its bytes leave the counter with it.
RetainSettles ==
    /\ retaining
    /\ retaining' = FALSE
    /\ arrived' = arrived + 1
    /\ UNCHANGED << hidden, withdrawn, obs, mark, round, strays, decided, applied,
                    faults, spoils >>

Hide ==
    /\ \E f \in 1 .. arrived :
          /\ f \notin withdrawn /\ Cardinality(withdrawn) < MaxHides
          /\ hidden' = hidden \cup {f}
          /\ withdrawn' = withdrawn \cup {f}
    /\ UNCHANGED << arrived, retaining, obs, mark, round, strays, decided,
                    applied, faults, spoils >>

\* nodes::clear_superseded makes a retracted fact live again.
Restore ==
    /\ \E f \in hidden : hidden' = hidden \ {f}
    /\ UNCHANGED << arrived, withdrawn, retaining, obs, mark, round, strays,
                    decided, applied, faults, spoils >>

RoundInit ==
    /\ arrived = 0 /\ hidden = {} /\ withdrawn = {} /\ retaining = FALSE
    /\ obs = << >> /\ mark = 0
    /\ round = [a \in Caller |-> NoRound] /\ strays = {}
    /\ decided = {} /\ applied = [f \in 1 .. MaxFacts |-> 0]
    /\ faults = 0 /\ spoils = 0

RoundStep(a) ==
    \/ OpenRun(a) \/ NextBatch(a) \/ Bisect(a) \/ Abandon(a) \/ Answer(a)
    \/ Apply(a) \/ Keep(a) \/ Adjudicate(a) \/ Merge(a) \/ Vanished(a)
    \/ BatchApplied(a) \/ Close(a) \/ CloseFailed(a)

RoundNext ==
    \/ \E a \in Caller : Begin(a) \/ RoundStep(a) \/ OpenFails(a) \/ BatchFails(a)
                         \/ CloseLost(a) \/ Drop(a)
    \/ KillAndRestart \/ LatePlan \/ LateMerge \/ LateFinish
    \/ RetainArrives \/ RetainSettles \/ Hide \/ Restore

\* The tick fires for ever, a round's awaits return, and the retain worker
\* ends its jobs.  That the tick gets past its wait for the vectors of a bank is
\* what NodeVectors!BacklogDrains says.
RoundFairness ==
    /\ WF_roundVars(Begin(Tick))
    /\ \A a \in Caller : WF_roundVars(RoundStep(a))
    /\ WF_roundVars(RetainSettles)

RoundSpec == RoundInit /\ [][RoundNext]_roundVars /\ RoundFairness

----------------------------------------------------------------------------
(* Properties *)

RoundTypeOK ==
    /\ arrived \in 0 .. MaxFacts /\ retaining \in BOOLEAN
    /\ hidden \subseteq withdrawn /\ withdrawn \subseteq 1 .. arrived
    /\ decided \subseteq 1 .. arrived /\ applied \in [1 .. MaxFacts -> Nat]
    /\ \A o \in DOMAIN obs : obs[o].src \cup obs[o].text \subseteq 1 .. arrived
    /\ mark \in 0 .. arrived
    /\ \A t \in strays : t.no < faults /\ t.of \subseteq 1 .. arrived
    /\ \A a \in Caller : round[a] # NoRound =>
          /\ round[a].budget \in 0 .. Adjudications
          /\ round[a].mark \in 0 .. arrived
          /\ \A i \in DOMAIN round[a].facts : round[a].facts[i] \in 1 .. arrived

\* "Every fact in the range has reached a terminal decision, so the mark may
\* pass it": a fact at or below the stored watermark, which no later round
\* will select, was decided on, unless it was withdrawn at some time.
\* Bisection, deferral, failures and races of the two callers bear on it.
WatermarkIsDecided ==
    \A f \in 1 .. mark : f \in decided \/ f \in withdrawn

\* "Replaying them would create duplicate observations": a fact is applied
\* once, and once more for each round whose mark was lost, or came late, after
\* it had begun to commit: a kill, a deadline, a client that goes, a failure.
\* A stray plan and a round that has its facts again bear on it.
ReplaysAreSpoils == \A f \in DOMAIN applied : applied[f] <= 1 + spoils

\* Provenance is given up only by a plan's delete: a merge moves every source
\* of the observation it drops, whatever a stray made of the two meanwhile.
SourcesAreMoved ==
    [][(\A a \in Caller : round[a].pc # "write") /\ (\A t \in strays : t.kind # "plan") =>
          UNION {obs[o].src : o \in Living}
             \subseteq UNION {obs'[o].src : o \in Living'}]_roundVars

\* "A merge is asked to preserve EVERY detail from both": the text of an
\* observation preserves every fact it counts as a proof.
TextCoversSources == \A o \in DOMAIN obs : obs[o].src \subseteq obs[o].text

\* A retracted fact that is live again is consolidated like any other.
RestoredIsConsolidated ==
    \A f \in 1 .. mark : f \in decided \/ f \in hidden

\* "Abandoning is safe by construction ... an abandoned round contributes
\* nothing": what is written is written by a round in progress.
AbandonedWritesNothing ==
    [][obs' # obs \/ mark' # mark => \E a \in Caller : round[a] # NoRound]_roundVars

\* The bank is caught up again and again, every fact of it decided on, whatever
\* is deferred, fails or dies.
FactsAreDecided == []<>(1 .. arrived \subseteq decided \cup withdrawn)

=============================================================================
