------------------------------- MODULE Settings -------------------------------
(***************************************************************************)
(* What a process of memgarden runs with (memgarden-core config.rs): the   *)
(* defaults, config.toml over them, the environment over both, the preset  *)
(* of a profile under what the two set, and the validation of it all.      *)
(*                                                                         *)
(* A setting that nothing else reads or checks here is left out.  A        *)
(* fraction is in hundredths.                                              *)
(***************************************************************************)
EXTENDS Integers, Sequences, FiniteSetsExt, Functions

CONSTANTS InFile,      \* what config.toml may set: <<key, value>>
          InEnv,       \* what the environment may set: <<key, raw value>>
          MaxInFile,   \* bound: keys a config.toml sets
          MaxInEnv     \* bound: variables set

\* MEMGARDEN_*: the keys that have a variable.
Variables ==
    {"profile", "include_tool_calls", "hooks_enabled", "max_initial", "daemon_url", "base_url"}

ASSUME SettingsAssumption ==
    /\ {MaxInFile, MaxInEnv} \subseteq Nat
    /\ \A o \in InEnv : o[1] \in Variables

VARIABLES configFile, environ, \* key -> value, of the keys they set
          config               \* what from_parts makes of them; Refused

settingsVars == << configFile, environ, config >>

\* The keys of both, f's value where both have one.
Above(f, g) == [k \in DOMAIN f \cup DOMAIN g |-> IF k \in DOMAIN f THEN f[k] ELSE g[k]]

NotLoaded == [loaded |-> "no"]
Refused == [loaded |-> "refused"]

\* Config::defaults, section by section: [reranker] and [consolidation] ...
RoundSections ==
    [ rerank_model |-> "ms-marco", rerank_top_k |-> 10, rerank_threads |-> 4, rerank_batch |-> 16,
      dedup_threshold |-> 98, consolidation_batch |-> 50, llm_batch |-> 8, max_attempts |-> 3,
      consolidation_budget |-> "low", consolidation_tokens |-> 512 ]
\* ... [recall] ...
RecallSection ==
    [ types |-> {"world", "observation", "experience"}, limit |-> 20, max_tokens |-> 1024,
      min_semantic |-> 83, fallback_banks |-> << >>, fallback_min_semantic |-> 88,
      fallback_limit |-> 3 ]
\* ... [retain] ...
RetainSection ==
    [ chunk_size |-> 3000, queue_capacity |-> 32, wall_timeout_secs |-> 7200,
      include_tool_calls |-> FALSE, max_initial |-> 300 ]
\* ... [profile] ...
ProfileSection == [profile |-> "", bank_mission |-> "", retain_mission |-> "", recall_budget |-> "mid"]
\* ... [ollama] and [embedding]: the server's side.
ModelSections ==
    [ embedding_batch |-> 8, backlog_poll_secs |-> 5, base_url |-> "http", max_concurrent |-> 1,
      request_timeout_secs |-> 300 ]
ServerDefaults ==
    Above(RoundSections, Above(RecallSection, Above(RetainSection, Above(ProfileSection, ModelSections))))
\* ... and of the hooks'.
HookDefaults ==
    [ hooks_enabled |-> TRUE, mode |-> "shadow", daemon_url |-> "http", connect_timeout_ms |-> 50,
      recall_timeout_ms |-> 400, retain_timeout_ms |-> 5000, retain_every_n_turns |-> 10,
      recall_max_query_chars |-> 800, breaker_failures |-> 3, breaker_cooldown_secs |-> 60,
      max_reject_failures |-> 10, poison_retry_secs |-> 3600, catchup_max_sessions |-> 3,
      session_retention_days |-> 90, max_post_bytes |-> 24 * 1024 * 1024,
      max_inject_bytes |-> 64 * 1024, shadow_log_max_bytes |-> 64 * 1024 * 1024 ]

Keys == DOMAIN ServerDefaults \cup DOMAIN HookDefaults
Defaults == Above(HookDefaults, ServerDefaults)

----------------------------------------------------------------------------
(* The layers *)

\* A key that is there replaces the default.
Overlaid(cfg, keys) == [k \in Keys |-> IF k \in keys \cap DOMAIN configFile THEN configFile[k] ELSE cfg[k]]
\* parsed.<section>, of the server's sections and of [hooks].
FromServerSections(cfg) == Overlaid(cfg, DOMAIN ServerDefaults)
FromHooksSection(cfg) == Overlaid(cfg, DOMAIN HookDefaults)
FromFile(cfg) == FromHooksSection(FromServerSections(cfg))

\* is_truthy
Truthy(raw) == raw \in {"true", "1", "yes"}

\* secs.parse(), raw.parse(): a number that is none refuses to start.
Parses == \A k \in DOMAIN environ : k = "max_initial" => environ[k] \in Nat

\* The variables, each over its key; MEMGARDEN_HOOKS_DISABLE only ever takes away.
FromEnv(cfg) ==
    [k \in Keys |->
        IF k \notin DOMAIN environ THEN cfg[k]
        ELSE IF k = "include_tool_calls" THEN Truthy(environ[k])
        ELSE IF k = "hooks_enabled" THEN cfg[k] /\ ~Truthy(environ[k])
        ELSE environ[k]]

PresetKeys == {"include_tool_calls", "bank_mission", "retain_mission", "recall_budget"}
\* The variable is not noted.
MutNotNoted == PresetKeys \cap DOMAIN configFile
\* What from_parts noted as set, of the keys a preset knows.
Explicit ==
    PresetKeys \cap (DOMAIN configFile \cup (DOMAIN environ \cap {"include_tool_calls"}))

Preset == [include_tool_calls |-> TRUE, bank_mission |-> "coding", retain_mission |-> "coding",
           recall_budget |-> "low"]

Known(profile) == profile \in {"", "coding"}

\* The preset comes last, and only to the keys nobody set.
UnderPreset(cfg) ==
    IF cfg.profile = "" THEN cfg
    ELSE [k \in Keys |-> IF k \in DOMAIN Preset \ Explicit THEN Preset[k] ELSE cfg[k]]

----------------------------------------------------------------------------
(* The validation *)

MAX_RECALL_TOKENS == 8192
MAX_RECALL_QUERY_CHARS == (8 * 1024) \div 4
MAX_BODY_BYTES == 32 * 1024 * 1024
MAX_INJECT_BYTES == 8 * 1024 * 1024

ValidRecall(cfg) ==
    /\ cfg.recall_budget \in {"low", "mid", "high"}
    /\ cfg.types # {}
    /\ cfg.limit \in 1 .. 200 /\ cfg.max_tokens \in 1 .. MAX_RECALL_TOKENS
    /\ cfg.min_semantic \in 0 .. 100 /\ cfg.fallback_min_semantic \in 0 .. 100
    /\ cfg.fallback_banks # << >> => cfg.fallback_min_semantic >= cfg.min_semantic
    /\ IsInjective(cfg.fallback_banks) /\ \A k \in DOMAIN cfg.fallback_banks : cfg.fallback_banks[k] # ""
    /\ cfg.fallback_limit \in 1 .. 20

ValidRounds(cfg) ==
    /\ cfg.rerank_top_k \in 1 .. 200 /\ cfg.rerank_threads > 0 /\ cfg.rerank_batch > 0
    /\ cfg.rerank_model # ""
    /\ cfg.dedup_threshold \in 50 .. 100
    /\ cfg.consolidation_batch \in 1 .. 500 /\ cfg.llm_batch > 0 /\ cfg.max_attempts \in 1 .. 10
    /\ cfg.consolidation_budget \in {"low", "mid", "high"}
    /\ cfg.consolidation_tokens \in 1 .. MAX_RECALL_TOKENS

ValidServer(cfg) ==
    /\ cfg.chunk_size > 0 /\ cfg.queue_capacity > 0 /\ cfg.wall_timeout_secs > 0
    /\ cfg.base_url \in {"http", "https"}
    /\ cfg.request_timeout_secs > 0 /\ cfg.max_concurrent > 0

ValidHooks(cfg) ==
    /\ cfg.mode \in {"shadow", "full"} /\ cfg.daemon_url = "http"
    /\ \A k \in {"connect_timeout_ms", "recall_timeout_ms", "retain_timeout_ms",
                 "retain_every_n_turns", "breaker_failures", "max_reject_failures",
                 "max_post_bytes", "max_inject_bytes", "breaker_cooldown_secs",
                 "poison_retry_secs", "shadow_log_max_bytes"} : cfg[k] > 0
    /\ cfg.max_post_bytes <= MAX_BODY_BYTES
    /\ cfg.session_retention_days \in 1 .. 36500
    /\ cfg.max_inject_bytes <= MAX_INJECT_BYTES
    /\ cfg.recall_max_query_chars \in 1 .. MAX_RECALL_QUERY_CHARS

Valid(cfg) == ValidRecall(cfg) /\ ValidRounds(cfg) /\ ValidServer(cfg) /\ ValidHooks(cfg)

\* from_parts
FromParts ==
    LET layered == FromEnv(FromFile(Defaults)) IN
    IF ~Parses \/ ~Known(layered.profile) \/ ~Valid(UnderPreset(layered)) THEN Refused
    ELSE Above([loaded |-> "yes"], UnderPreset(layered))

\* Config::load: the file if there is one, the variables that are there.
LoadConfig ==
    /\ config = NotLoaded
    /\ config' = FromParts
    /\ UNCHANGED << configFile, environ >>

\* Settings of at most n keys out of those offered.
SettingsOf(offered, n) ==
    {[k \in {o[1] : o \in set} |-> (CHOOSE o \in set : o[1] = k)[2]] :
        set \in {s \in UNION {kSubset(k, offered) : k \in 0 .. n} :
                    \A o, p \in s : o[1] = p[1] => o = p}}

SettingsInit ==
    /\ configFile \in SettingsOf(InFile, MaxInFile) /\ environ \in SettingsOf(InEnv, MaxInEnv)
    /\ config = NotLoaded

SettingsNext == LoadConfig
SettingsSpec == SettingsInit /\ [][SettingsNext]_settingsVars

----------------------------------------------------------------------------
(* Properties *)

\* A profile is a layer between the defaults and what was set: what the file
\* or the environment sets stays as they set it, whichever of them named the
\* profile, and what neither sets is the preset's.
ProfileIsALayer ==
    config.loaded = "yes" =>
        LET base == IF config.profile = "" THEN Defaults ELSE Above(Preset, Defaults)
        IN  config = Above([loaded |-> "yes"], FromEnv(FromFile(base)))
=============================================================================
