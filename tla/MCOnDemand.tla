------------------------------ MODULE MCOnDemand ------------------------------
(***************************************************************************)
(* Small instances of what runs when it is asked for: the migration of a   *)
(* legacy daemon's banks, the hooks in settings.json, a recall and what a  *)
(* session is shown of it, the settings a process loads, an update and its *)
(* notice; the deletion of a bank; and of the graph of a bank, in three    *)
(* parts: its names, the links of new vectors, and its anatomy over the    *)
(* links of chunks.  They share no state: a behaviour is of one of them.   *)
(***************************************************************************)
EXTENDS Migration, HookInstall, Recall, LinkGraph, Settings, SelfUpdate, Injection, BankRows

CONSTANTS Part,     \* the parts of this run
          e1, e2,   \* events
          n1, n2,   \* names of entities
          v1, v2, v3, \* releases
          c1, c2    \* contents
VARIABLE part       \* the one that moves

asked == << recallVars, settingsVars, updateVars, injectionVars, rowVars >>
vars == << part, migrationVars, installVars, graphVars, asked >>
MCNear == {<< n1, n2 >>, << n2, n1 >>}
MCHookEvents == << e1, e2 >>

Row(bank, kind, text, tokens) ==
    [bank |-> bank, kind |-> kind, text |-> text, words |-> text, tokens |-> tokens]
MCTable == << Row("home", "fact", "a", 1), Row("home", "fact", "b", 2),
              Row("home", "observation", "c", 1), Row("away", "fact", "a", 1) >>
MCTextOfNew == [text |-> "a ", words |-> "a", tokens |-> 1]
MCFallbackBanks == << "away" >>

\* Chunks with facts, and one without.
MCChunks == (c1 :> << TRUE, TRUE, FALSE >>) @@ (c2 :> << TRUE >>)

MCInFile == {<< "profile", "coding" >>, << "include_tool_calls", FALSE >>, << "limit", 0 >>,
             << "recall_budget", "high" >>, << "bank_mission", "mine" >>,
             << "hooks_enabled", FALSE >>, << "fallback_banks", << "b" >> >>,
             << "fallback_min_semantic", 10 >>}
MCInEnv == {<< "profile", "coding" >>, << "profile", "" >>, << "profile", "other" >>,
            << "include_tool_calls", "1" >>, << "include_tool_calls", "no" >>,
            << "hooks_enabled", "yes" >>, << "hooks_enabled", "0" >>,
            << "max_initial", 10 >>, << "max_initial", -1 >>}

MCSchema == (v1 :> 1) @@ (v2 :> 2) @@ (v3 :> 3)
MCPublished == (v1 :> 0) @@ (v2 :> 2) @@ (v3 :> 3)

OnDemandInit ==
    /\ part \in Part
    /\ MigrationInit /\ InstallInit /\ RecallInit /\ GraphInit
    /\ part # "migration" => \A b \in LegacyBank : Void(b)
    /\ part # "hooks" => file = Missing
    /\ part # "recall" => \A i \in DOMAIN table : table[i].sources = {}
    /\ SelfUpdateInit /\ InjectionInit /\ BankRowsInit
    /\ IF part = "settings" THEN SettingsInit
       ELSE configFile = << >> /\ environ = << >> /\ config = NotLoaded

Graph ==
    \/ part = "names" /\ UNCHANGED << links, linking, anatomy >>
    \/ part = "joins" /\ UNCHANGED << mentions, anatomy, wipes >> /\ write.pc # "window"
    \/ part = "anatomy" /\ UNCHANGED << mentions, linking, wipes >>

\* Of those that the CLI or the dashboard ask of a running daemon.
Asked ==
    \/ part = "recall" /\ RecallNext
       /\ UNCHANGED << settingsVars, updateVars, injectionVars, rowVars >>
    \/ part = "settings" /\ SettingsNext
       /\ UNCHANGED << recallVars, updateVars, injectionVars, rowVars >>
    \/ /\ \/ part = "update" /\ UNCHANGED << notice, today >>
          \/ part = "notice" /\ UNCHANGED install
       /\ SelfUpdateNext /\ UNCHANGED << recallVars, settingsVars, injectionVars, rowVars >>
    \/ part = "injection" /\ InjectionNext
       /\ UNCHANGED << recallVars, settingsVars, updateVars, rowVars >>
    \/ part = "banks" /\ BankRowsNext
       /\ UNCHANGED << recallVars, settingsVars, updateVars, injectionVars >>

OnDemandNext ==
    \/ part = "migration" /\ MigrationNext /\ UNCHANGED << part, installVars, graphVars, asked >>
    \/ part = "hooks" /\ InstallNext /\ UNCHANGED << part, migrationVars, graphVars, asked >>
    \/ Graph /\ GraphNext /\ UNCHANGED << part, migrationVars, installVars, asked >>
    \/ Asked /\ UNCHANGED << part, migrationVars, installVars, graphVars >>

OnDemandSpec == OnDemandInit /\ [][OnDemandNext]_vars
=============================================================================
