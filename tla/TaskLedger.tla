------------------------------ MODULE TaskLedger ------------------------------
(***************************************************************************)
(* The working-state row of a bank (memgardend retain/ledger.rs, store     *)
(* task_ledger.rs): a task that the retain route starts for an accepted    *)
(* job and does not wait for, one model call over the transcript's tail    *)
(* and one upsert.  At most one is in flight in the process; the others    *)
(* are skipped.  Jobs are numbered in the order of their admission.        *)
(***************************************************************************)
EXTENDS Integers, FiniteSets

CONSTANTS LedgerBank,  \* bank ids
          MaxJobs,     \* bound: jobs ever admitted
          MaxTicks,    \* bound of the clock
          MaxDrops     \* bound: banks deleted and processes killed

ASSUME TaskLedgerAssumption == {MaxJobs, MaxDrops} \subseteq Nat /\ MaxTicks \in Nat \ {0}

VARIABLES admitted, \* jobs admitted so far
          flights,  \* the ledger tasks in flight
          ledger,     \* task_ledger: bank -> the job it is of and its two times
          there,    \* banks that exist
          ticks,    \* now_ms()
          drops

ledgerVars == << admitted, flights, ledger, there, ticks, drops >>

\* IN_FLIGHT.try_acquire.
MutNoPermit == TRUE
MayFly == flights = {}

\* spawn, from the handler of an accepted job; a tail of blanks ends at once.
Spawn ==
    /\ admitted < MaxJobs /\ admitted' = admitted + 1
    /\ \E b \in there, blank \in BOOLEAN :
          flights' = IF MayFly /\ ~blank
                     THEN flights \cup {[job |-> admitted', bank |-> b, pc |-> "ask", at |-> 0]}
                     ELSE flights
    /\ UNCHANGED << ledger, there, ticks, drops >>

\* The call fails, or its goal is empty: nothing is written.
NoGoal ==
    /\ \E f \in flights : f.pc = "ask" /\ flights' = flights \ {f}
    /\ UNCHANGED << admitted, ledger, there, ticks, drops >>

\* upsert reads the clock, then waits for the write lock.
Goal ==
    /\ \E f \in flights :
          /\ f.pc = "ask"
          /\ flights' = (flights \ {f}) \cup {[f EXCEPT !.pc = "write", !.at = ticks]}
    /\ UNCHANGED << admitted, ledger, there, ticks, drops >>

\* One row per bank: every field replaced, created_at kept.
MutReplaceAll(f) == [job |-> f.job, created |-> f.at, updated |-> f.at]
Replaced(f) ==
    [job |-> f.job, updated |-> f.at,
     created |-> IF f.bank \in DOMAIN ledger THEN ledger[f.bank].created ELSE f.at]

Upsert ==
    /\ \E f \in flights :
          /\ f.pc = "write"
          /\ flights' = flights \ {f}
          /\ \/ /\ f.bank \in there
                /\ ledger' = [b \in DOMAIN ledger \cup {f.bank} |->
                              IF b = f.bank THEN Replaced(f) ELSE ledger[b]]
             \/ UNCHANGED ledger          \* refused, or its bank is gone
    /\ UNCHANGED << admitted, there, ticks, drops >>

\* A bank is deleted with its row, and may be created again under its name.
DeleteBank ==
    /\ drops < MaxDrops /\ drops' = drops + 1
    /\ \E b \in there : /\ there' = there \ {b}
                        /\ ledger' = [c \in DOMAIN ledger \ {b} |-> ledger[c]]
    /\ UNCHANGED << admitted, flights, ticks >>

CreateBank ==
    /\ \E b \in LedgerBank \ there : there' = there \cup {b}
    /\ UNCHANGED << admitted, flights, ledger, ticks, drops >>

Die ==
    /\ drops < MaxDrops /\ drops' = drops + 1
    /\ flights' = {}
    /\ UNCHANGED << admitted, ledger, there, ticks >>

Passes ==
    /\ ticks < MaxTicks /\ ticks' = ticks + 1
    /\ UNCHANGED << admitted, flights, ledger, there, drops >>

LedgerInit ==
    /\ admitted = 0 /\ flights = {} /\ ledger = << >>
    /\ there = LedgerBank /\ ticks = 1 /\ drops = 0

LedgerNext == \/ Spawn \/ NoGoal \/ Goal \/ Upsert
              \/ DeleteBank \/ CreateBank \/ Die \/ Passes

LedgerSpec == LedgerInit /\ [][LedgerNext]_ledgerVars

----------------------------------------------------------------------------
(* Properties *)

LedgerTypeOK ==
    /\ admitted \in 0 .. MaxJobs /\ ticks \in 1 .. MaxTicks
    /\ DOMAIN ledger \subseteq there /\ there \subseteq LedgerBank
    /\ \A f \in flights : /\ f.job \in 1 .. admitted /\ f.bank \in LedgerBank
                          /\ f.pc \in {"ask", "write"} /\ f.at \in 0 .. ticks
    /\ \A b \in DOMAIN ledger : ledger[b].job \in 1 .. admitted

\* A slow task of an older job never replaces what a newer one wrote: while a
\* bank's row stays, its job only goes forward, and so does its update, after
\* a creation that is the first one's.
LedgerNeverGoesBack ==
    [][\A b \in DOMAIN ledger \cap DOMAIN ledger' :
          /\ ledger[b].job <= ledger'[b].job
          /\ ledger[b].created = ledger'[b].created
          /\ ledger[b].updated <= ledger'[b].updated]_ledgerVars
=============================================================================
