---------------------------- MODULE ExtractedFacts ----------------------------
(***************************************************************************)
(* From the reply of the extraction model to the facts of a chunk          *)
(* (memgardend extract/mod.rs, extract/parse.rs): which of the reply's     *)
(* facts are kept, and what becomes of the positions by which they refer   *)
(* to each other and to the facts the prompt listed.                       *)
(*                                                                         *)
(* What a fact says is its position in the reply.  Indices are those of    *)
(* the code less where it counts from 0: positions in the reply and in     *)
(* what is kept count from 1 here.                                         *)
(***************************************************************************)
EXTENDS Integers, Sequences, SequencesExt, FiniteSets, Selections

CONSTANTS RawFacts,    \* what the model may say of a fact
          KnownQuotes, \* the facts of the prompt: a sequence of the quotes each contains
          ShortQuotes, \* quotes of less than MIN_QUOTE_CHARS
          NoText,      \* a field that is not there, is empty or "N/A"
          MaxReply     \* bound: facts of a reply

ASSUME ExtractedFactsAssumption ==
    /\ MaxReply \in Nat
    /\ \A raw \in RawFacts : raw.causes \in Seq(Int) /\ raw.supersedes \in Seq(Int)

VARIABLES reply,     \* the facts array, wrapped or bare
          extracted  \* what parse_facts makes of it; NoFacts before

extractVars == << reply, extracted >>

NoFacts == << [says |-> 0] >>

MAX_CAUSES == 2
MAX_SUPERSEDES_PER_FACT == 1

\* parse_one lets a fact go that is no object, says nothing, is junk or runs on.
Usable(raw) == raw.says \notin {"no object", "no what", "degenerate", "too long"}

\* The fact's own text names the day where the model does not.
Start(raw) == IF raw.start = NoText /\ raw.relative THEN "inferred" ELSE raw.start
\* Only an event has dates, and at least the same end.
Dates(raw) ==
    IF raw.kind # "event" THEN << NoText, NoText >>
    ELSE << Start(raw), IF raw.end = NoText THEN Start(raw) ELSE raw.end >>

\* fact_type, or the kind that was taken for it.
TypeOfFact(raw) ==
    CASE raw.type = "assistant" -> "experience"
      [] raw.type = "world" -> "world"
      [] OTHER -> IF raw.kind = "assistant" THEN "experience" ELSE "world"

\* causal_relations: to facts before this one, the first two.
Causes(raw, i) ==
    LET earlier == Picked(raw.causes, {k \in DOMAIN raw.causes : raw.causes[k] \in 1 .. i - 1})
    IN  SubSeq(earlier, 1, IF Len(earlier) < MAX_CAUSES THEN Len(earlier) ELSE MAX_CAUSES)

\* quote_is_in
Quoted(raw, k) ==
    raw.quote # NoText /\ raw.quote \notin ShortQuotes /\ raw.quote \in KnownQuotes[k]

\* supersedes: the first of the listed positions that the quote is from.
Supersedes(raw) ==
    LET held == Picked(raw.supersedes,
                       {k \in DOMAIN raw.supersedes :
                           /\ raw.supersedes[k] \in DOMAIN KnownQuotes
                           /\ Quoted(raw, raw.supersedes[k])})
    IN  SubSeq(held, 1, IF held = << >> THEN 0 ELSE MAX_SUPERSEDES_PER_FACT)

\* parse_one
Parsed(raw, i) ==
    [ says |-> i, type |-> TypeOfFact(raw), dates |-> Dates(raw),
      causes |-> Causes(raw, i), supersedes |-> Supersedes(raw) ]

KeptBefore(i) == {j \in DOMAIN reply : j < i /\ Usable(reply[j])}
\* The position stays the reply's.
MutAsSaid(i) == i
\* new_index: the position among the facts kept.
NewIndex(i) == 1 + Cardinality(KeptBefore(i))

\* A relation to a fact that is kept gets its new position, any other goes.
Reindexed(causes) ==
    LET held == Picked(causes, {k \in DOMAIN causes : Usable(reply[causes[k]])})
    IN  [k \in DOMAIN held |-> NewIndex(held[k])]

\* parse_facts
ParseFacts ==
    /\ extracted = NoFacts
    /\ LET kept == Ascending({i \in DOMAIN reply : Usable(reply[i])})
           parsed(n) == Parsed(reply[kept[n]], kept[n])
       IN  extracted' = [n \in DOMAIN kept |->
                           [parsed(n) EXCEPT !.causes = Reindexed(@)]]
    /\ UNCHANGED reply

ExtractInit ==
    /\ reply \in UNION {[1 .. n -> RawFacts] : n \in 0 .. MaxReply}
    /\ extracted = NoFacts

ExtractNext == ParseFacts
ExtractSpec == ExtractInit /\ [][ExtractNext]_extractVars

----------------------------------------------------------------------------
(* Properties *)

\* What a fact refers to is what the model said it refers to, whichever facts
\* of the reply were dropped: its causes are kept facts that it named and come
\* before it, so the causes have no cycle; none of the first two that it may
\* name is lost but with its fact; what it retracts is listed, quoted and one.
ReferencesAreKept ==
    extracted # NoFacts => \A n \in DOMAIN extracted :
        LET raw == reply[extracted[n].says]
            said == {extracted[t].says : t \in ToSet(extracted[n].causes) \cap DOMAIN extracted}
        IN  /\ ToSet(extracted[n].causes) \subseteq 1 .. n - 1
            /\ said = {i \in ToSet(Causes(raw, extracted[n].says)) : Usable(reply[i])}
            /\ Len(extracted[n].supersedes) <= 1
            /\ \A p \in ToSet(extracted[n].supersedes) :
                  p \in ToSet(raw.supersedes) /\ raw.quote \in KnownQuotes[p] \ ShortQuotes
=============================================================================
