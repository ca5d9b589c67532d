------------------------------- MODULE Injection -------------------------------
(***************************************************************************)
(* What the hooks of one session put before the model, and what they       *)
(* remember of it (cmd/recall.rs; state.rs injected_uuids; cmd/            *)
(* session_start.rs): a recall for every prompt, sent with the memories    *)
(* that are not to come again; the retain of a Stop, which runs beside the *)
(* next recalls and stores the state it loaded; a session-start after a    *)
(* compaction.  Claude Code kills a hook that overruns its time.           *)
(***************************************************************************)
EXTENDS Integers, Sequences, SequencesExt, FiniteSets

CONSTANTS Memory,       \* uuids
          Mode,         \* [hooks] mode
          InjectedCap,  \* INJECTED_CAP
          BreakerAfter, \* [hooks] breaker_failures
          NoState,      \* there is no state file
          MaxPrompts, MaxClears, MaxKills, MaxLosses \* bounds: recalls, contexts given
                        \* up, hooks killed, state files or writes of them lost

ASSUME InjectionAssumption ==
    /\ IsFiniteSet(Memory) /\ Mode \in {"shadow", "full"}
    /\ InjectedCap \in Nat /\ BreakerAfter \in Nat \ {0}
    /\ {MaxPrompts, MaxClears, MaxKills, MaxLosses} \subseteq Nat

\* SessionState, of what the hooks here read of it.
Files == [barred : Seq(Memory), failures : Nat, open : BOOLEAN]
\* That there is no file is not a file.
ASSUME NoStateAssumption == NoState \notin Files

VARIABLES state,    \* the session's file: barred (injected_uuids), failures, open
          shown,    \* the memories in the model's context
          prompting, stopping, starting, \* the recall, the retain, the session-start
          heldBy,   \* the lock file
          lapsed,   \* history: memories whose record was lost, or that the cap dropped
          cut,      \* history: a hook was killed, or could not write, where the file
                    \* and the context part
          recalls, clears, kills, losses

hooks == << prompting, stopping, starting, heldBy >>
injectionVars == << state, shown, hooks, lapsed, cut, recalls, clears, kills, losses >>

NotRunning == [pc |-> "none"]
FreshState == [barred |-> << >>, failures |-> 0, open |-> FALSE]
Loaded == IF state = NoState THEN FreshState ELSE state
Barred == IF state = NoState THEN {} ELSE ToSet(state.barred)

----------------------------------------------------------------------------
(* recall *)

\* The list stays behind.
MutNoneExcluded(st) == {}
\* Nothing is excluded where nothing is injected.
Excluded(st) == IF Mode = "full" THEN ToSet(st.barred) ELSE {}

\* run: the snapshot that the request is made of; a breaker that is open makes
\* none.
RecallBegins ==
    /\ prompting = NotRunning /\ starting = NotRunning
    /\ recalls < MaxPrompts /\ recalls' = recalls + 1
    /\ ~Loaded.open
    /\ prompting' = [pc |-> "asked", exclude |-> Excluded(Loaded)]
    /\ UNCHANGED << state, shown, stopping, starting, heldBy, lapsed, cut, clears, kills, losses >>

\* fetch: what the bank has to say, in as many bytes as it takes; nothing; a
\* refusal; no answer.
Fetch ==
    /\ prompting.pc = "asked"
    /\ \E found \in SUBSET (Memory \ prompting.exclude), oversize \in BOOLEAN,
          outcome \in {"recalled", "rejected", "transport"} :
          prompting' = [pc |-> "record", outcome |-> outcome, found |-> found,
                        oversize |-> oversize]
    /\ UNCHANGED << state, shown, stopping, starting, heldBy, lapsed, cut, recalls, clears,
                    kills, losses >>

\* What goes to the model, and is noted.
Injectable ==
    IF Mode = "full" /\ prompting.outcome = "recalled" /\ ~prompting.oversize
    THEN prompting.found ELSE {}

\* note_injected: those that are not on the list go behind it; beyond the cap
\* the oldest are dropped.
Noted(barred, new) ==
    LET all == barred \o new
        over == Len(all) - InjectedCap
    IN  IF over > 0 THEN SubSeq(all, over + 1, Len(all)) ELSE all

Reached(st) == [st EXCEPT !.failures = 0, !.open = FALSE]
Missed(st) == [st EXCEPT !.failures = IF @ < BreakerAfter THEN @ + 1 ELSE @,
                         !.open = @ \/ st.failures + 1 >= BreakerAfter]

AfterOutcome(st, new) ==
    CASE prompting.outcome = "recalled" -> [Reached(st) EXCEPT !.barred = Noted(@, new)]
      [] prompting.outcome = "transport" -> Missed(st)
      [] OTHER -> st

\* record: with the lock or without (with_try_lock), upon what the file holds
\* now; a file that would not change is not written, none is made.
Record ==
    /\ prompting.pc = "record"
    /\ \E new \in SetToSeqs(Injectable \ Barred) :
          LET after == AfterOutcome(Loaded, new) IN
          /\ \/ state' = (IF after = Loaded THEN state ELSE after) /\ UNCHANGED losses
             \/ losses < MaxLosses /\ losses' = losses + 1 /\ UNCHANGED state
          /\ lapsed' = lapsed \cup
                (IF losses' # losses THEN Injectable
                 ELSE IF Cardinality(Barred \cup Injectable) > InjectedCap
                      THEN (Barred \cup Injectable) \ ToSet(after.barred) ELSE {})
    /\ prompting' = [prompting EXCEPT !.pc = "emit"]
    /\ UNCHANGED << shown, stopping, starting, heldBy, cut, recalls, clears, kills >>

\* emit: the line on stdout; in shadow mode a line of the log.
Emit ==
    /\ prompting.pc = "emit"
    /\ shown' = shown \cup Injectable
    /\ prompting' = NotRunning
    /\ UNCHANGED << state, stopping, starting, heldBy, lapsed, cut, recalls, clears, kills,
                    losses >>

\* The breaker's cooldown ends.
Cooldown ==
    /\ state # NoState /\ state.open
    /\ state' = [state EXCEPT !.open = FALSE]
    /\ UNCHANGED << shown, hooks, lapsed, cut, recalls, clears, kills, losses >>

----------------------------------------------------------------------------
(* retain, under the lock from its load to its store *)

RetainBegins ==
    /\ stopping = NotRunning /\ heldBy = "none"
    /\ prompting = NotRunning
    /\ stopping' = [pc |-> "posting", st |-> Loaded] /\ heldBy' = "retain"
    /\ UNCHANGED << state, shown, prompting, starting, lapsed, cut, recalls, clears, kills,
                    losses >>

\* Its own fields apart, it stores what it loaded.
RetainEnds ==
    /\ stopping # NotRunning
    /\ \/ state' \in {Reached(stopping.st), Missed(stopping.st), stopping.st} /\ UNCHANGED losses
       \/ losses < MaxLosses /\ losses' = losses + 1 /\ UNCHANGED state
    /\ stopping' = NotRunning /\ heldBy' = "none"
    /\ lapsed' = lapsed \cup
          (Barred \ (IF state' = NoState THEN {} ELSE ToSet(state'.barred)))
    /\ UNCHANGED << shown, prompting, starting, cut, recalls, clears, kills >>

----------------------------------------------------------------------------
(* session-start *)

\* The context is given up, or goes on as it was.
ContextEnds ==
    /\ prompting = NotRunning /\ starting = NotRunning
    /\ clears < MaxClears /\ clears' = clears + 1
    /\ \E source \in {"compact", "clear", "resume"} :
          /\ starting' = [pc |-> "waiting", source |-> source]
          /\ shown' = IF source = "resume" THEN shown ELSE {}
    /\ UNCHANGED << state, prompting, stopping, heldBy, lapsed, cut, recalls, kills, losses >>

MutForgetful == {"compact"}
\* The sources after which the context no longer holds what was injected.
Emptying == {"compact", "clear"}

\* with_lock: once the mirror has answered, or has not, and the lock is free.
SessionStarts ==
    /\ starting # NotRunning /\ heldBy = "none"
    /\ \E answered \in {"ok", "rejected", "transport"} :
          LET kept == [Loaded EXCEPT !.barred =
                         IF starting.source \in Emptying THEN << >> ELSE @]
              st == CASE answered = "ok" -> Reached(kept)
                      [] answered = "transport" -> [Missed(kept) EXCEPT !.open = kept.open]
                      [] OTHER -> kept
          IN  \/ state' = st /\ UNCHANGED << losses, cut >>
              \/ losses < MaxLosses /\ losses' = losses + 1 /\ cut' = TRUE /\ UNCHANGED state
    /\ starting' = NotRunning
    /\ UNCHANGED << shown, prompting, stopping, heldBy, lapsed, recalls, clears, kills >>

----------------------------------------------------------------------------
(* What goes wrong *)

\* A hook overruns its time (SessionStart 5 s, UserPromptSubmit 10 s, Stop 30
\* s), or the machine is switched off; a lock goes with its holder.
KillHook ==
    /\ kills < MaxKills /\ kills' = kills + 1
    /\ \/ /\ prompting # NotRunning /\ prompting' = NotRunning
          /\ cut' = (cut \/ prompting.pc = "emit")
          /\ UNCHANGED << stopping, starting, heldBy >>
       \/ /\ stopping # NotRunning /\ stopping' = NotRunning /\ heldBy' = "none"
          /\ UNCHANGED << prompting, starting, cut >>
       \/ /\ starting # NotRunning /\ starting' = NotRunning /\ cut' = TRUE
          /\ UNCHANGED << prompting, stopping, heldBy >>
    /\ UNCHANGED << state, shown, lapsed, recalls, clears, losses >>

\* The state directory is collected or deleted.
LoseState ==
    /\ state # NoState /\ losses < MaxLosses /\ losses' = losses + 1
    /\ state' = NoState /\ lapsed' = lapsed \cup Barred
    /\ UNCHANGED << shown, hooks, cut, recalls, clears, kills >>

InjectionInit ==
    /\ state = NoState /\ shown = {}
    /\ prompting = NotRunning /\ stopping = NotRunning /\ starting = NotRunning
    /\ heldBy = "none" /\ lapsed = {} /\ cut = FALSE
    /\ recalls = 0 /\ clears = 0 /\ kills = 0 /\ losses = 0

InjectionNext ==
    \/ RecallBegins \/ Fetch \/ Record \/ Emit \/ Cooldown
    \/ RetainBegins \/ RetainEnds
    \/ ContextEnds \/ SessionStarts
    \/ KillHook \/ LoseState

InjectionSpec == InjectionInit /\ [][InjectionNext]_injectionVars

----------------------------------------------------------------------------
(* Properties *)

\* What is kept from the model is before it: once the hooks at work are done,
\* every memory the file bars is in the context, whatever was compacted,
\* cleared, raced or lost, unless a hook was cut off between the two.
BarredWasShown ==
    prompting = NotRunning /\ starting = NotRunning /\ ~cut => Barred \subseteq shown

\* What the file of a session says was shown is what was shown, after every
\* step of a hook; and "the model is not sold the same memory twice", unless the
\* record of it was lost, to a retain that stored what it had loaded, to the cap
\* or with the file.
ShownOnce ==
    [][/\ BarredWasShown'
       /\ prompting.pc = "emit" /\ prompting' = NotRunning /\ kills' = kills
            => Injectable \cap shown \subseteq lapsed]_injectionVars

\* The same without an exception.
NeverSoldTwice ==
    [][prompting.pc = "emit" /\ prompting' = NotRunning /\ kills' = kills
         => Injectable \cap shown = {}]_injectionVars
=============================================================================
