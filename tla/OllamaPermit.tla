----------------------------- MODULE OllamaPermit -----------------------------
(***************************************************************************)
(* The client of the language model (memgardend ollama.rs): permits every  *)
(* call takes from one semaphore, the attempts of a call, and the health   *)
(* that calls and a prober write into one atomic.                          *)
(*                                                                         *)
(* tokio's semaphore is fair: a freed permit goes to the first waiter.     *)
(* Interactive callers (chat_json, chat_json_bounded) wait for it a short  *)
(* while, background ones (chat_json_background...) without limit.  Any    *)
(* call may be dropped: a closed connection, a round's deadline, an exit.  *)
(***************************************************************************)
EXTENDS Integers, Sequences, FiniteSets, SequencesExt

CONSTANTS Interactive, Background,  \* callers
          MaxConcurrent,            \* ollama.max_concurrent, at least 1
          MaxRetries                \* ollama.max_retries

Callers == Interactive \cup Background

ASSUME OllamaAssumption ==
    /\ IsFiniteSet(Callers) /\ Interactive \cap Background = {}
    /\ MaxConcurrent \in Nat \ {0} /\ MaxRetries \in Nat

VARIABLES available, \* free permits
          line,      \* the callers that wait for one, first come first
          call,      \* where each call is, and its attempt
          status,    \* OLLAMA_STATUS
          probe,     \* the prober: between probes, or the status it had read
          seen,      \* history: what /api/ps last said of a loaded model
          shaken     \* history: a call failed since, or a success was about to
                     \* take back an older failure

permitVars == << available, line, call, status, probe, seen, shaken >>

NoCall == [pc |-> "none", attempt |-> 0]
At(c, pc) == call[c].pc = pc
Go(c, pc) == [call EXCEPT ![c].pc = pc]
Holds(c) == call[c].pc \in {"try", "backoff"}

\* A freed permit is given to a waiter and counted as free.
MutKeepWaiting(calls, waiting) == calls
\* A permit handed back: to the first waiter, or to the semaphore.
Wakes(calls, waiting) ==
    IF waiting = << >> THEN calls ELSE [calls EXCEPT ![Head(waiting)].pc = "try"]
Release(calls) ==
    /\ call' = Wakes(calls, line)
    /\ line' = IF line = << >> THEN line ELSE Tail(line)
    /\ available' = IF line = << >> THEN available + 1 ELSE available

----------------------------------------------------------------------------
(* chat_json_inner *)

\* A waiter goes before the others.
MutFirstIn(c) == << c >> \o line
\* The place of a new waiter: behind those that wait already.
Joined(c) == Append(line, c)

Acquire(c) ==
    /\ At(c, "none")
    /\ \/ /\ available > 0
          /\ available' = available - 1
          /\ call' = Go(c, "try") /\ UNCHANGED line
       \/ /\ available = 0
          /\ line' = Joined(c)
          /\ call' = Go(c, "wait") /\ UNCHANGED available
    /\ UNCHANGED << status, probe, seen, shaken >>

\* A waiter that is gone is taken out of the line.
Leaves(c) ==
    \E k \in DOMAIN line : line[k] = c /\ line' = RemoveAt(line, k)

\* ACQUIRE_TIMEOUT: Busy, which is no failure of the model.
GiveUp(c) ==
    /\ c \in Interactive /\ At(c, "wait")
    /\ Leaves(c)
    /\ call' = [call EXCEPT ![c] = NoCall]
    /\ UNCHANGED << available, status, probe, seen, shaken >>

\* A reply that parses.
Replies(c) ==
    /\ At(c, "try")
    /\ Release(Go(c, "won"))
    /\ UNCHANGED << status, probe, seen, shaken >>

\* One attempt more.
MutOneMore(attempt) == attempt < MaxRetries + 1
\* Transport, 5xx or 429, a degenerate or malformed reply: once more after a
\* pause, while attempts are left.
More(attempt) == attempt + 1 < MaxRetries + 1

Refused(c) ==
    /\ At(c, "try") /\ More(call[c].attempt)
    /\ call' = Go(c, "backoff")
    /\ UNCHANGED << available, line, status, probe, seen, shaken >>

Retry(c) ==
    /\ At(c, "backoff")
    /\ call' = [call EXCEPT ![c] = [pc |-> "try", attempt |-> @.attempt + 1]]
    /\ UNCHANGED << available, line, status, probe, seen, shaken >>

\* The last attempt, a 4xx, a reply cut at the output limit, or the deadline
\* over all attempts, pauses included.
Fails(c) ==
    /\ Holds(c)
    /\ Release(Go(c, "lost"))
    /\ UNCHANGED << status, probe, seen, shaken >>

\* The future is dropped, in the line or with the permit.
Dropped(c) ==
    /\ \/ Holds(c) /\ Release([call EXCEPT ![c] = NoCall])
       \/ /\ At(c, "wait")
          /\ Leaves(c) /\ call' = [call EXCEPT ![c] = NoCall]
          /\ UNCHANGED available
    /\ UNCHANGED << status, probe, seen, shaken >>

----------------------------------------------------------------------------
(* Health *)

NoteFailed(c) ==
    /\ At(c, "lost")
    /\ status' = "failing" /\ shaken' = TRUE
    /\ call' = [call EXCEPT ![c] = NoCall]
    /\ UNCHANGED << available, line, probe, seen >>

\* note_call_succeeded reads the status, and writes it in a second step.
Clears(s) == s = "failing"

NoteSucceeded(c) ==
    /\ At(c, "won")
    /\ call' = IF Clears(status) THEN Go(c, "clear") ELSE [call EXCEPT ![c] = NoCall]
    /\ UNCHANGED << available, line, status, probe, seen, shaken >>

ClearFailing(c) ==
    /\ At(c, "clear")
    /\ status' = "ready"
    /\ call' = [call EXCEPT ![c] = NoCall]
    /\ UNCHANGED << available, line, probe, seen, shaken >>

\* run_prober reads the status, then asks twice over HTTP, then writes what
\* it makes of the answers and of the status it had read.
ProbeBegins ==
    /\ probe = "none" /\ probe' = status
    /\ UNCHANGED << available, line, call, status, seen, shaken >>

Loaded == {"nothing", "ready", "cpu-only"}     \* classify_loaded

\* The fold forgets what it knew when nothing is loaded.
MutLaunder(prev, reachable, loaded) ==
    CASE ~reachable -> "unreachable"
      [] reachable /\ loaded # "nothing" -> loaded
      [] OTHER -> "ready"
FoldObservation(prev, reachable, loaded) ==
    CASE ~reachable -> "unreachable"
      [] reachable /\ loaded # "nothing" -> loaded
      [] OTHER -> IF prev = "unreachable" THEN "ready" ELSE prev

ProbeEnds ==
    /\ probe # "none"
    /\ \E reachable \in BOOLEAN, loaded \in Loaded :
          /\ status' = FoldObservation(probe, reachable, loaded)
          /\ seen' = CASE ~reachable -> "nothing"
                       [] reachable /\ loaded # "nothing" -> loaded
                       [] OTHER -> seen
          /\ shaken' = IF reachable /\ loaded # "nothing"
                       THEN \E c \in Callers : At(c, "clear") ELSE shaken
    /\ probe' = "none"
    /\ UNCHANGED << available, line, call >>

PermitInit ==
    /\ available = MaxConcurrent /\ line = << >>
    /\ call = [c \in Callers |-> NoCall]
    /\ status = "ready" /\ probe = "none" /\ seen = "nothing" /\ shaken = FALSE

\* What an admitted call does by itself.
Proceeds(c) ==
    \/ Replies(c) \/ Refused(c) \/ Retry(c) \/ Fails(c)
    \/ NoteFailed(c) \/ NoteSucceeded(c) \/ ClearFailing(c)

PermitNext ==
    \/ \E c \in Callers : Acquire(c) \/ GiveUp(c) \/ Proceeds(c) \/ Dropped(c)
    \/ ProbeBegins \/ ProbeEnds

\* The timeout of an attempt and the deadline over all of them: whoever holds
\* a permit goes on.
PermitFairness == \A c \in Callers : WF_permitVars(Proceeds(c))

PermitSpec == PermitInit /\ [][PermitNext]_permitVars /\ PermitFairness

----------------------------------------------------------------------------
(* Properties *)

PermitTypeOK ==
    /\ available \in 0 .. MaxConcurrent
    /\ \A c \in Callers : call[c].attempt \in 0 .. MaxRetries
    /\ status \in {"unreachable", "ready", "cpu-only", "failing"}

\* Every permit is free or with one call, whatever is dropped or times out,
\* and no permit is free while a caller waits.
PermitsAreAccountedFor ==
    /\ available + Cardinality({c \in Callers : Holds(c)}) = MaxConcurrent
    /\ ToSet(line) = {c \in Callers : At(c, "wait")} /\ IsInjective(line)
    /\ line # << >> => available = 0

\* A background caller waits without a limit, and gets its turn however many
\* interactive callers come and go.
CallsEnd == \A c \in Background : ~At(c, "none") ~> At(c, "none")

\* "Nothing loaded must not launder a CpuOnly observation": the model seen off
\* the card keeps the status until it is seen on it, or gone, or a call fails.
OffCardIsShown == (seen = "cpu-only" /\ ~shaken) => status = "cpu-only"

\* Both: what the client holds of the model, and says of it, is so.
ModelIsAccountedFor == PermitsAreAccountedFor /\ OffCardIsShown

\* "Only a model seen on the GPU, or Ollama going away and coming back, changes
\* it", and a success "must not promote CpuOnly to Ready".
CpuOnlyIsKept == seen = "cpu-only" => status # "ready"

=============================================================================
