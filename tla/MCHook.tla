-------------------------------- MODULE MCHook --------------------------------
(***************************************************************************)
(* Instances of HookRetain: one session of a few lines and a budget of     *)
(* misfortunes per run.                                                    *)
(***************************************************************************)
EXTENDS HookRetain, TLC

NoMisfortune == [m \in Misfortune |-> 0]

\* Replies lost or late, jobs that fail, hooks that die or cannot write; the
\* state file or the bank lost in mid-session; a recall that writes the file
\* without waiting for the lock.
EachOnce ==
  ("fail" :> 1 @@ "outage" :> 1 @@ "late" :> 1 @@ "slip" :> 1 @@ "wipe" :> 1
     @@ "delete" :> 1 @@ "recall" :> 1 @@ "unlocked" :> 1) @@ NoMisfortune

Spent(M) == \E m \in M : spent[m] > 0
\* One hook after the other: which of them it is makes no difference.
First == CHOOSE p \in Process : TRUE
InTurn == \A p \in Process \ {First} : hook[p].pc = "idle"

\* A failed job with: two of an outage, a late reply and a save that fails;
\* losses; a loss and a recall; or two hooks on one file at a time, one of which
\* may go on without the lock.
Few == \/ /\ InTurn /\ ~Spent({"unlocked"})
          /\ \/ /\ ~Spent({"wipe", "delete", "recall"})
                /\ \E m \in {"outage", "late", "slip"} : ~Spent({m})
             \/ ~Spent({"outage", "late", "slip", "recall"})
             \/ ~Spent({"outage", "late", "slip", "delete"})
       \/ ~Spent({"outage", "late", "slip", "wipe", "delete", "recall"})

\* The daemon is away for a while.
Outages == ("fail" :> 1 @@ "outage" :> 2) @@ NoMisfortune
OneFailure == ("fail" :> 1) @@ NoMisfortune
OneWipe == ("wipe" :> 1 @@ "recall" :> 1) @@ NoMisfortune
OneRecall == ("recall" :> 1) @@ NoMisfortune

QuietSaidSaid == <<"said", "quiet", "said">>
AllSaid == <<"said", "said", "said">>
TwoSaid == <<"said", "said">>
BriefSaid == <<"brief", "said">>

=============================================================================
