-------------------------------- MODULE Chunker --------------------------------
(***************************************************************************)
(* How a text is cut into chunks (memgardend retain/chunk.rs).             *)
(*                                                                         *)
(* A text is of one of four forms: plain; a JSON array of turns; lines,    *)
(* each a JSON object; or one JSON object.  Its units are the plain text,  *)
(* the turns, the lines or the object, each a sequence of characters, of   *)
(* which only those that separate are told apart.                          *)
(***************************************************************************)
EXTENDS Integers, Sequences, SequencesExt

CONSTANTS Letter, Stop, \* any character, and the full stop of ". " (or "! ", ", ", ...)
          Blank, Newline,
          Budgets,      \* values of max_chars
          MaxPlain,     \* bound: characters of a plain text
          Turns,        \* texts of turns and of lines: no newline, braces around
          MaxTurns      \* bound: turns or lines

ASSUME ChunkerAssumption ==
    /\ Budgets \subseteq Nat /\ MaxPlain \in Nat /\ MaxTurns \in Nat

VARIABLES text, budget, \* the arguments of chunk_text
          cuts          \* what it returns; NoCuts before

chunkerVars == << text, budget, cuts >>

Text(form, units) == [form |-> form, units |-> units]
NoCuts == << Text("none", << >>) >>

\* Brackets and commas of an array, newlines between lines.
Length(t) ==
    LET chars == Len(FlattenSeq(t.units)) n == Len(t.units) IN
    CASE t.form = "turns" -> IF n = 0 THEN 2 ELSE chars + n + 1
      [] t.form = "lines" -> chars + n - 1
      [] OTHER -> chars

----------------------------------------------------------------------------
(* Plain text: the ladder of separators *)

SEPARATORS == << << Newline, Newline >>, << Newline >>, << Stop, Blank >>, << Blank >> >>
Blanks == {Blank, Newline}
IsBlank(s) == ToSet(s) \subseteq Blanks
Trim(s) ==
    LET solid == {i \in DOMAIN s : s[i] \notin Blanks} IN
    IF solid = {} THEN << >>
    ELSE SubSeq(s, CHOOSE i \in solid : \A j \in solid : i <= j,
                   CHOOSE i \in solid : \A j \in solid : j <= i)

Occurs(sep, s) == \E i \in Len(sep) .. Len(s) : SubSeq(s, i - Len(sep) + 1, i) = sep
\* Where pieces end, each with the separator that terminates it.
Ends(s, sep) ==
    FoldLeft(LAMBDA ends, i :
                IF /\ i >= Len(sep) /\ SubSeq(s, i - Len(sep) + 1, i) = sep
                   /\ i - Len(sep) >= (IF ends = << >> THEN 0 ELSE Last(ends))
                THEN Append(ends, i) ELSE ends,
             << >>, [i \in DOMAIN s |-> i])
Pieces(s, sep) ==
    LET ends == Ends(s, sep) \o << Len(s) >> IN
    [k \in DOMAIN ends |-> SubSeq(s, (IF k = 1 THEN 0 ELSE ends[k - 1]) + 1, ends[k])]

HardCut(s, max) ==
    SelectSeq([k \in 1 .. (Len(s) + max - 1) \div max |->
                 SubSeq(s, max * (k - 1) + 1, IF max * k < Len(s) THEN max * k ELSE Len(s))],
              LAMBDA piece : ~IsBlank(piece))

\* What is written of a piece or of pieces that are put together.
Kept(s) == IF IsBlank(s) THEN << >> ELSE << Trim(s) >>

\* split_recursive: the first separator that occurs; pieces put together while
\* they fit, and those too long split by the separators after it.
RECURSIVE Split(_, _, _)
Split(s, max, from) ==
    LET rungs == {r \in from .. Len(SEPARATORS) : Occurs(SEPARATORS[r], s)}
        rung == CHOOSE r \in rungs : \A q \in rungs : r <= q
        Pack(st, piece) ==
            IF Len(piece) > max
            THEN [out |-> st.out \o Kept(st.buf) \o Split(piece, max, rung + 1), buf |-> << >>]
            ELSE IF Len(st.buf) + Len(piece) > max
            THEN [out |-> st.out \o Kept(st.buf), buf |-> piece]
            ELSE [st EXCEPT !.buf = @ \o piece]
        packed == FoldLeft(Pack, [out |-> << >>, buf |-> << >>], Pieces(s, SEPARATORS[rung]))
    IN  IF Len(s) <= max THEN Kept(s)
        ELSE IF rungs = {} THEN HardCut(s, max)
        ELSE packed.out \o Kept(packed.buf)

\* split_oversized_unit: a text that is all blank is returned as it is.
SplitUnit(s, max) ==
    LET parts == Split(s, max, 1)
    IN  [k \in DOMAIN parts |-> Text("plain", << parts[k] >>)]
            \o (IF parts = << >> THEN << Text("plain", << s >>) >> ELSE << >>)

----------------------------------------------------------------------------
(* Turns and lines: whole units, packed *)

MutBareTurn(form, unit, max) == Len(unit) > max
\* A turn stands in an array of its own at least.
TooLarge(form, unit, max) == Len(unit) + (IF form = "turns" THEN 2 ELSE 0) > max

\* flush
Flushed(st, form) ==
    IF st.current = << >> THEN st.out ELSE Append(st.out, Text(form, st.current))

\* chunk_conversation, chunk_jsonl: a unit too large is split as text, after
\* what was collected before it.
PackUnits(form, units, max) ==
    LET empty == IF form = "turns" THEN 2 ELSE 0
        Take(st, unit) ==
            IF TooLarge(form, unit, max)
            THEN [out |-> Flushed(st, form) \o SplitUnit(unit, max),
                  current |-> << >>, size |-> empty]
            ELSE IF st.size + Len(unit) + 1 > max /\ st.current # << >>
            THEN [out |-> Flushed(st, form), current |-> << unit >>,
                  size |-> empty + Len(unit) + 1]
            ELSE [st EXCEPT !.current = Append(@, unit), !.size = @ + Len(unit) + 1]
        packed == FoldLeft(Take, [out |-> << >>, current |-> << >>, size |-> empty], units)
    IN  Flushed(packed, form)

AtLeastOne(n) == IF n < 1 THEN 1 ELSE n
\* chunk_text; an empty array that is too long is written again.
ChunkText(t, limit) ==
    LET max == AtLeastOne(limit) IN
    CASE Length(t) <= max -> << t >>
      [] Length(t) > max /\ t.form \in {"plain", "object"} -> SplitUnit(t.units[1], max)
      [] Length(t) > max /\ t.form \in {"turns", "lines"} ->
            IF t.units = << >> THEN << t >> ELSE PackUnits(t.form, t.units, max)

Cut ==
    /\ cuts = NoCuts
    /\ cuts' = ChunkText(text, budget)
    /\ UNCHANGED << text, budget >>

Plain == UNION {[1 .. n -> {Letter, Stop, Blank, Newline}] : n \in 0 .. MaxPlain}
Texts ==
    {Text("plain", << s >>) : s \in Plain} \cup {Text("object", << u >>) : u \in Turns}
        \cup UNION {{Text("turns", units), Text("lines", units)} :
                       units \in UNION {[1 .. n -> Turns] : n \in 2 .. MaxTurns}}
        \cup {Text("turns", << >>)} \cup {Text("turns", << u >>) : u \in Turns}

ChunkerInit == text \in Texts /\ budget \in Budgets /\ cuts = NoCuts
ChunkerNext == Cut
ChunkerSpec == ChunkerInit /\ [][ChunkerNext]_chunkerVars

----------------------------------------------------------------------------
(* Properties *)

Solid(s) == SelectSeq(s, LAMBDA c : c \notin Blanks)

\* "Idempotence is the load-bearing property": a chunk that is cut again, by the
\* extractor or after a restart, is itself.  Every chunk but a blank text and an
\* empty array fits the budget; nothing but blanks gets lost, and nothing is
\* repeated or moved; a turn or line that fits is whole in one chunk.
ChunksAreSound ==
    cuts # NoCuts =>
        /\ \A k \in DOMAIN cuts :
              /\ ChunkText(cuts[k], budget) = << cuts[k] >>
              /\ Length(cuts[k]) <= AtLeastOne(budget) \/ cuts[k] = text
        /\ Solid(FlattenSeq([k \in DOMAIN cuts |-> FlattenSeq(cuts[k].units)])) = Solid(FlattenSeq(text.units))
        /\ text.form \in {"turns", "lines"} => \A unit \in ToSet(text.units) :
              \/ TooLarge(text.form, unit, AtLeastOne(budget))
              \/ \E k \in DOMAIN cuts : cuts[k].form = text.form /\ unit \in ToSet(cuts[k].units)
=============================================================================
