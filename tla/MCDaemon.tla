------------------------------- MODULE MCDaemon -------------------------------
(***************************************************************************)
(* Small instances of the parts of memgardend that work behind its         *)
(* requests.  Their models share no state, so a behaviour is of one part:  *)
(* the others stay where they begin.                                       *)
(***************************************************************************)
EXTENDS Consolidation, MentalModels, NodeVectors, Supersession, OllamaPermit,
        TaskLedger, TLC

CONSTANTS Part,        \* the parts of this run
          i1, i2, g1   \* callers
VARIABLE part          \* the one that moves

vars == << part, roundVars, mentalVars, vectorVars, supersessionVars, permitVars,
           ledgerVars >>

DaemonInit ==
    /\ part \in Part
    /\ RoundInit /\ MentalInit /\ VectorInit /\ SupersessionInit /\ PermitInit
    /\ LedgerInit

Rounds ==
    /\ part = "rounds"
    /\ UNCHANGED << part, mentalVars, vectorVars, supersessionVars, permitVars, ledgerVars >>
\* A start that embeds documents anew is a part of its own, in one instant and
\* with one fact; a client that goes is, without a PATCH or a deletion.
Models ==
    /\ \/ part = "models" /\ UNCHANGED stale /\ ~HangUp
       \/ part = "gone" /\ UNCHANGED << stale, edits >>
       \/ /\ part = "start" /\ UNCHANGED << clock, failures >>
          /\ Len(committed') + Cardinality({w \in Writer : writing'[w] # 0}) <= 1
    /\ UNCHANGED << part, roundVars, vectorVars, supersessionVars, permitVars, ledgerVars >>
Vectors ==
    /\ part = "vectors"
    /\ UNCHANGED << part, roundVars, mentalVars, supersessionVars, permitVars, ledgerVars >>
Edges ==
    /\ part = "edges"
    /\ UNCHANGED << part, roundVars, mentalVars, vectorVars, permitVars, ledgerVars >>
Calls ==
    /\ part = "calls"
    /\ UNCHANGED << part, roundVars, mentalVars, vectorVars, supersessionVars, ledgerVars >>
Rows ==
    /\ part = "ledger"
    /\ UNCHANGED << part, roundVars, mentalVars, vectorVars, supersessionVars, permitVars >>

DaemonNext ==
    \/ Rounds /\ RoundNext
    \/ MentalNext /\ Models
    \/ Vectors /\ VectorNext
    \/ Edges /\ SupersessionNext
    \/ Calls /\ PermitNext
    \/ Rows /\ LedgerNext

\* The fairness of each component, for the part that moves.
DaemonFairness ==
    /\ WF_roundVars(part = "rounds" /\ Begin(Tick))
    /\ \A a \in Caller : WF_roundVars(part = "rounds" /\ RoundStep(a))
    /\ WF_roundVars(part = "rounds" /\ RetainSettles)
    /\ WF_mentalVars(part \in {"models", "gone", "start"} /\ BeginPass("tick"))
    /\ \A c \in RefreshCaller : WF_mentalVars(part \in {"models", "gone", "start"} /\ Refreshes(c))
    /\ WF_mentalVars(part \in {"models", "gone", "start"} /\ Commit("retain"))
    /\ WF_vectorVars(part = "vectors" /\ BacklogRead)
    /\ WF_vectorVars(part = "vectors" /\ BacklogWrite)
    /\ \A c \in Callers : WF_permitVars(part = "calls" /\ Proceeds(c))

DaemonSpec == DaemonInit /\ [][DaemonNext]_vars /\ DaemonFairness

DaemonTypeOK ==
    /\ RoundTypeOK /\ MentalTypeOK /\ VectorTypeOK /\ SupersessionTypeOK
    /\ PermitTypeOK /\ LedgerTypeOK
=============================================================================
