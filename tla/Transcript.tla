------------------------------ MODULE Transcript ------------------------------
(***************************************************************************)
(* What of a delta's messages is retained (memgardend retain/transcript.rs *)
(* and plan_ingest of retain/mod.rs): the cap on a first backfill, the     *)
(* roles, the text less what its author marked private and less memories   *)
(* that were injected, tool calls and their caps, and the files they       *)
(* touch.                                                                  *)
(*                                                                         *)
(* A text is a sequence of marks and words, each word at one place only.   *)
(* A message's content is a text, or a sequence of blocks.  <mem> stands   *)
(* for the three memory tags, <channel> for that tag with its attributes.  *)
(***************************************************************************)
EXTENDS Integers, Sequences, SequencesExt, FiniteSets, Functions

CONSTANTS Messages,     \* messages of a delta: [role, content] or [role, blocks]
          MaxMessages,  \* bound: messages of a delta
          MaxInitial,   \* [retain] max_initial_messages, 0: no cap
          FieldMax, TotalMax, ResultMax, FileTagCap, \* [retain] caps
          PriorityKeys, \* PRIORITY_INPUT_KEYS
          Operational,  \* tools of memory servers (is_operational_mcp_tool)
          Mutating      \* FILE_MUTATING_TOOLS

ASSUME TranscriptAssumption ==
    {MaxMessages, MaxInitial, FieldMax, TotalMax, ResultMax, FileTagCap} \subseteq Nat

VARIABLES delta,   \* the messages of the request
          initial, \* it is the first of its session
          asJson,  \* [retain] include_tool_calls
          plan     \* plan_ingest: the transcript, its files; NoPlan before

transcriptVars == << delta, initial, asJson, plan >>

NoPlan == [kept |-> << >>, files |-> << "not asked" >>]
Roles == {"user", "assistant"}

----------------------------------------------------------------------------
(* Texts *)

\* Between an opening mark and the next closing one, both included.
InBlock(s, k, open, close) ==
    \E i \in 1 .. k : s[i] = open /\ \A j \in i .. k - 1 : s[j] # close
Without(s, dropped(_)) ==
    LET kept == SelectSeq([k \in DOMAIN s |-> k], LAMBDA k : ~dropped(k))
    IN  [n \in DOMAIN kept |-> s[kept[n]]]

\* As remove_blocks has it: a block that does not end stays.
MutClosedOnly(s) ==
    Without(s, LAMBDA k : /\ InBlock(s, k, "<private>", "</private>")
                          /\ \E j \in k .. Len(s) : s[j] = "</private>")
\* strip_private: a block that does not end goes on to the end of the text.
StripPrivate(s) == Without(s, LAMBDA k : InBlock(s, k, "<private>", "</private>"))
\* strip_memory_tags, remove_blocks.
StripMemory(s) ==
    Without(s, LAMBDA k : /\ InBlock(s, k, "<mem>", "</mem>")
                          /\ \E j \in k .. Len(s) : s[j] = "</mem>")
\* strip_channel_envelope: what the first envelope encloses, if there is one.
StripChannel(s) ==
    LET opens == {i \in DOMAIN s : s[i] = "<channel>"}
        open == CHOOSE i \in opens : \A j \in opens : i <= j
        closes == {i \in DOMAIN s : i > open /\ s[i] = "</channel>"}
    IN  IF opens = {} \/ closes = {} THEN s
        ELSE SubSeq(s, open + 1, (CHOOSE i \in closes : \A j \in closes : i <= j) - 1)
Cleaned(s) == StripChannel(StripMemory(StripPrivate(s)))

----------------------------------------------------------------------------
(* Tool calls: an input is a function from its keys to how long they are *)

Total(input) == FoldFunction(LAMBDA a, b : a + b, 0, input)
\* compact_tool_input: every field is cut; if they are too much together, only
\* those with priority stay, with a list of the others.
CompactToolInput(input) ==
    LET cut == [k \in DOMAIN input |-> IF input[k] > FieldMax THEN FieldMax ELSE input[k]] IN
    IF Total(cut) <= TotalMax THEN [fields |-> cut, truncated |-> {}]
    ELSE [fields |-> [k \in DOMAIN input \cap PriorityKeys |-> cut[k]],
          truncated |-> DOMAIN input \ PriorityKeys]

\* message_blocks of one block: a sequence of one or none.
BlocksOf(block, role) ==
    CASE block.kind = "text" ->
            LET left == Cleaned(block.text)
            IN  IF left = << >> THEN << >> ELSE << [kind |-> "text", text |-> left] >>
      [] block.kind = "tool_use" ->
            IF role # "assistant" \/ block.tool \in Operational THEN << >>
            ELSE << [kind |-> "tool_use", tool |-> block.tool,
                     input |-> CompactToolInput(block.input)] >>
      [] block.kind = "tool_result" ->
            IF block.size = 0 THEN << >>
            ELSE << [kind |-> "tool_result",
                     size |-> IF block.size > ResultMax THEN ResultMax ELSE block.size] >>
      [] OTHER -> << >>

IsText(m) == "content" \in DOMAIN m
TextBlocks(m) == SelectSeq(m.blocks, LAMBDA b : b.kind = "text")

\* text_content: the texts of a message's blocks, one after the other.
TextContent(m) ==
    IF IsText(m) THEN m.content ELSE FlattenSeq([k \in DOMAIN TextBlocks(m) |-> TextBlocks(m)[k].text])

\* json_transcript and text_transcript of one message; << >>: left out.
MessageBlocks(m) ==
    IF ~asJson THEN BlocksOf([kind |-> "text", text |-> TextContent(m)], m.role)
    ELSE IF IsText(m) THEN BlocksOf([kind |-> "text", text |-> m.content], m.role)
    ELSE FlattenSeq([k \in DOMAIN m.blocks |-> BlocksOf(m.blocks[k], m.role)])

\* apply_backfill_cap: the last messages of a first delta.
Capped(messages) ==
    IF ~initial \/ MaxInitial = 0 \/ Len(messages) <= MaxInitial THEN messages
    ELSE SubSeq(messages, Len(messages) - MaxInitial + 1, Len(messages))

\* normalize.  (Its floor of ten characters is below what the marks of one
\* message take, so that it only ever refuses an empty transcript.)
Normalize(messages) ==
    LET said == SelectSeq(messages, LAMBDA m : m.role \in Roles /\ MessageBlocks(m) # << >>)
    IN  [k \in DOMAIN said |-> [role |-> said[k].role, blocks |-> MessageBlocks(said[k])]]

\* extract_touched_files: in the order of the first touch.
TouchedFiles(messages) ==
    LET edits(m) == SelectSeq(m.blocks, LAMBDA b : /\ b.kind = "tool_use"
                                                   /\ b.tool \in Mutating /\ b.path # "")
        paths(m) == IF IsText(m) \/ m.role # "assistant" THEN << >>
                    ELSE [k \in DOMAIN edits(m) |-> edits(m)[k].path]
    IN  FoldLeft(LAMBDA files, p : IF p \in ToSet(files) THEN files ELSE Append(files, p),
                 << >>, FlattenSeq([k \in DOMAIN messages |-> paths(messages[k])]))

FirstOf(s, n) == SubSeq(s, 1, IF Len(s) < n THEN Len(s) ELSE n)

\* plan_ingest: nothing to retain where nothing is left.
PlanIngest ==
    /\ plan = NoPlan
    /\ LET kept == Normalize(Capped(delta))
       IN  plan' = [kept |-> kept,
                    files |-> IF kept = << >> THEN << >>
                              ELSE FirstOf(TouchedFiles(Capped(delta)), FileTagCap)]
    /\ UNCHANGED << delta, initial, asJson >>

TranscriptInit ==
    /\ delta \in UNION {[1 .. n -> Messages] : n \in 0 .. MaxMessages}
    /\ initial \in BOOLEAN /\ asJson \in BOOLEAN
    /\ plan = NoPlan

TranscriptNext == PlanIngest
TranscriptSpec == TranscriptInit /\ [][TranscriptNext]_transcriptVars

----------------------------------------------------------------------------
(* Properties *)

Words(s) == {s[k] : k \in DOMAIN s} \ {"<private>", "</private>", "<mem>", "</mem>",
                                       "<channel>", "</channel>"}
TextsOf(m) == IF IsText(m) THEN << m.content >>
              ELSE [k \in DOMAIN TextBlocks(m) |-> TextBlocks(m)[k].text]
Retained ==
    UNION {UNION {Words(m.blocks[k].text) : k \in {j \in DOMAIN m.blocks : m.blocks[j].kind = "text"}} :
             m \in ToSet(plan.kept)}
\* The words after an opening mark that nothing closes before them.
Private(s) == {s[k] : k \in {j \in DOMAIN s : InBlock(s, j, "<private>", "</private>")}}
Unmarked(s) == ToSet(s) \cap {"<private>", "</private>", "<mem>", "<channel>"} = {}

\* transcript.rs: what a text marks private is not retained, whatever else the
\* text is wrapped in and whether the mark is closed or not; in the text format,
\* nothing that follows an open mark in the same message is.  And the marks take
\* nothing else: a text without any is retained as a whole, if its message is
\* one of the last of a first delta, and a call's input says what it lost.
PrivateStaysOut ==
    plan # NoPlan =>
        /\ \A m \in ToSet(delta) :
              /\ \A k \in DOMAIN TextsOf(m) : Private(TextsOf(m)[k]) \cap Retained = {}
              /\ ~asJson => Private(TextContent(m)) \cap Retained = {}
        /\ \A n \in DOMAIN delta :
              LET m == delta[n] IN
              /\ m.role \in Roles
              /\ initial /\ MaxInitial > 0 => n > Len(delta) - MaxInitial
              => /\ \A k \in DOMAIN TextsOf(m) : asJson /\ Unmarked(TextsOf(m)[k]) =>
                       Words(TextsOf(m)[k]) \subseteq Retained
                 /\ asJson /\ ~IsText(m) /\ m.role = "assistant" =>
                       \A b \in ToSet(m.blocks) : b.kind = "tool_use" /\ b.tool \notin Operational =>
                          \E kept \in ToSet(plan.kept) : \E c \in ToSet(kept.blocks) :
                             /\ c.kind = "tool_use" /\ c.tool = b.tool
                             /\ DOMAIN c.input.fields \cup c.input.truncated = DOMAIN b.input

\* transcript.rs, of strip_private: "everything from the marker to the end of
\* that message is dropped".
PrivateToTheEnd ==
    plan # NoPlan => \A m \in ToSet(delta) : Private(TextContent(m)) \cap Retained = {}
=============================================================================
