----------------------------- MODULE TemporalQuery -----------------------------
(***************************************************************************)
(* What a recall's query says about time (memgardend temporal/query.rs,    *)
(* temporal/parse.rs): the rules in the order they match, the markers next *)
(* to what matched, dates that are written out, and the days it all comes  *)
(* to.                                                                     *)
(*                                                                         *)
(* A query mentions one phrase at most; other words are none to the rules. *)
(* An English phrase is its words; a Korean one its syllables and blanks,  *)
(* transliterated, in each spelling of its own: the code matches them      *)
(* wherever they occur, inside a longer word too.  A day is its number, 0  *)
(* on 1 January of the year 0, a Saturday.                                 *)
(***************************************************************************)
EXTENDS Integers, Sequences, SequencesExt, FiniteSets

CONSTANTS Todays,   \* days on which queries are asked: <<year, month, day>>
          Written,  \* month and day of dates written out, with a year or 0
          Silent    \* no marker next to the phrase

VARIABLES today, query, \* the day and the query
          window        \* extract_constraint: first and last day; NotAsked before

queryVars == << today, query, window >>

NotAsked == << "not asked" >>
Unconstrained == << "no constraint" >>     \* None: the query names no time
Unconstrainable == << "unconstrainable" >> \* it names one that is no range

----------------------------------------------------------------------------
(* Days *)

IsLeap(y) == y % 4 = 0 /\ (y % 100 # 0 \/ y % 400 = 0)
MonthLength(y, m) ==
    IF m = 2 THEN IF IsLeap(y) THEN 29 ELSE 28 ELSE IF m \in {4, 6, 9, 11} THEN 30 ELSE 31
DaysBefore(y) == 365 * y + (y + 3) \div 4 - (y + 99) \div 100 + (y + 399) \div 400
IsDate(y, m, d) == m \in 1 .. 12 /\ d \in 1 .. MonthLength(y, m)
\* The days of the months before.
DaysInMonths(y, m) ==
    FoldLeft(LAMBDA days, k : days + MonthLength(y, k), 0, [k \in 1 .. m - 1 |-> k])
DayOf(y, m, d) == DaysBefore(y) + DaysInMonths(y, m) + d - 1
DayNumber(date) == DayOf(date[1], date[2], date[3])
\* Monday is 0.
Weekday(day) == (day + 5) % 7

\* The first of the month n months from a date's.
FirstOfMonth(date, n) ==
    LET m == date[1] * 12 + date[2] - 1 + n IN DayOf(m \div 12, (m % 12) + 1, 1)
NoDay == << >>
FirstOfYear(date, n) == DayOf(date[1] + n, 1, 1)

----------------------------------------------------------------------------
(* RULES *)

Rule(phrases, kind, from, to) == [phrases |-> phrases, kind |-> kind, from |-> from, to |-> to]

Spaced(a, b) == a \o << " " >> \o b
Either(a, b) == {a \o b, Spaced(a, b)}

Jinan == << "ji", "nan" >>
Jijinan == << "ji" >> \o Jinan
Jeobeon == << "jeo", "beon" >>
Ibeon == << "i", "beon" >>
Daeum == << "da", "eum" >>
Jumal == << "ju", "mal" >>
MyeotJeon(unit) == Spaced(<< "myeot" >>, Spaced(unit, << "jeon" >>))
Ago(unit) == {<< "couple", "of", unit, "ago" >>, << "couple", unit, "ago" >>}
Few(unit) == << "few", unit, "ago" >>

WeekendRules ==
    << Rule(Either(Jijinan, Jumal), "weekend", 2, 2),
       Rule({<< "last", "weekend" >>, Spaced(Jeobeon, Jumal)} \cup Either(Jinan, Jumal),
            "weekend", 1, 1) >>
DayRules ==
    << Rule({<< "day", "before", "yesterday" >>, << "geu", "jeo", "kke" >>, << "geu", "je" >>},
            "day", -2, -2),
       Rule({<< "yesterday" >>, << "eo", "je" >>}, "day", -1, -1),
       Rule({<< "today" >>, << "o", "neul" >>}, "day", 0, 0),
       Rule({<< "tomorrow" >>, << "nae", "il" >>}, "day", 1, 1),
       Rule(Ago("days"), "day", -3, -1),
       Rule({Few("days"), Spaced(<< "myeo", "chil" >>, << "jeon" >>), MyeotJeon(<< "il" >>)},
            "day", -5, -2) >>
WeekRules ==
    << Rule(Either(Jijinan, << "ju" >>), "week", -2, -2),
       Rule({<< "last", "week" >>} \cup Either(Jinan, << "ju" >>) \cup Either(Jeobeon, << "ju" >>),
            "week", -1, -1),
       Rule({<< "this", "week" >>, << "geum", "ju" >>} \cup Either(Ibeon, << "ju" >>), "week", 0, 0),
       Rule({<< "next", "week" >>, << "dam", "ju" >>} \cup Either(Daeum, << "ju" >>), "week", 1, 1),
       Rule(Ago("weeks"), "day", -21, -7),
       Rule({Few("weeks"), MyeotJeon(<< "ju" >>)}, "day", -35, -14) >>
MonthRules ==
    << Rule(Either(Jijinan, << "dal" >>), "month", -2, -2),
       Rule({<< "last", "month" >>} \cup Either(Jinan, << "dal" >>) \cup Either(Jeobeon, << "dal" >>),
            "month", -1, -1),
       Rule({<< "this", "month" >>, << "geum", "wol" >>} \cup Either(Ibeon, << "dal" >>), "month", 0, 0),
       Rule({<< "next", "month" >>} \cup Either(Daeum, << "dal" >>), "month", 1, 1),
       Rule(Ago("months"), "day", -90, -30),
       Rule({Few("months"), MyeotJeon(<< "dal" >>), MyeotJeon(<< "gae", "wol" >>)}, "day", -150, -60) >>
YearRules ==
    << Rule({<< "jae", "jak", "nyeon" >>} \cup Either(Jijinan, << "hae" >>), "year", -2, -2),
       Rule({<< "last", "year" >>, << "jak", "nyeon" >>} \cup Either(Jinan, << "hae" >>),
            "year", -1, -1),
       Rule({<< "this", "year" >>, << "ol", "hae" >>, << "geum", "nyeon" >>}, "year", 0, 0) >>

\* Weeks before weekends, as an English reader may sort them.
MutWeeksFirst == WeekRules \o WeekendRules \o DayRules \o MonthRules \o YearRules
RULES == WeekendRules \o DayRules \o WeekRules \o MonthRules \o YearRules

\* contains_expression: the phrases that occur in the query's, as words or as
\* syllables.
Occurring == SubSeqs(query.phrase)
Phrases == UNION {RULES[k].phrases : k \in DOMAIN RULES}

\* find_period: the first rule with a phrase that occurs.
Matching == {k \in DOMAIN RULES : RULES[k].phrases \cap Occurring # {}}
FirstRule == RULES[CHOOSE k \in Matching : \A l \in Matching : k <= l]
\* marker_before: next to what matched, which may be a part of the phrase.
Marked(marker) ==
    /\ query.marker = marker
    /\ \E p \in FirstRule.phrases \cap Occurring : IsSuffix(p, query.phrase)

\* resolve
Resolved(rule) ==
    LET now == DayNumber(today) IN
    CASE rule.kind = "day" -> << now + rule.from, now + rule.to >>
      [] rule.kind = "week" -> LET monday == now - Weekday(now) + 7 * rule.from
                               IN  << monday, monday + 6 >>
      [] rule.kind = "weekend" ->
            LET since == (Weekday(now) + 2) % 7
                saturday == now - ((IF since = 0 THEN 7 ELSE since) + 7 * (rule.from - 1))
            IN  << saturday, saturday + 1 >>
      [] rule.kind = "month" -> << FirstOfMonth(today, rule.from),
                                   FirstOfMonth(today, rule.from + 1) - 1 >>
      [] rule.kind = "year" -> << FirstOfYear(today, rule.from), FirstOfYear(today, rule.from + 1) - 1 >>

\* most_recent_occurrence: this year's or that of one of the four years before;
\* NoDay where there is none.
MostRecent(m, d) ==
    LET past == {y \in today[1] - 4 .. today[1] :
                    IsDate(y, m, d) /\ DayOf(y, m, d) <= DayNumber(today)}
    IN  IF past = {} THEN NoDay ELSE << DayOf(CHOOSE y \in past : \A z \in past : z <= y, m, d) >>

\* fallback_date, korean_absolute_date: a day, written with its year or not.
WrittenDay ==
    LET y == query.written[1] m == query.written[2] d == query.written[3] IN
    IF y = 0 THEN MostRecent(m, d) ELSE IF IsDate(y, m, d) THEN << DayOf(y, m, d) >> ELSE NoDay

\* is_recurring first; then a period, with the marker next to it; then a date.
Constraint ==
    LET now == DayNumber(today) IN
    IF query.recurring THEN Unconstrainable
    ELSE IF Matching # {}
    THEN IF Marked("before") THEN Unconstrainable
         ELSE LET days == Resolved(FirstRule) IN
              IF ~Marked("since") THEN days
              ELSE IF days[1] > now THEN Unconstrainable ELSE << days[1], now >>
    ELSE IF query.written = NoDay \/ WrittenDay = NoDay THEN Unconstrained
    ELSE << WrittenDay[1], WrittenDay[1] >>

\* extract_constraint
ExtractConstraint ==
    /\ window = NotAsked
    /\ window' = Constraint
    /\ UNCHANGED << today, query >>

\* Every spelling of the rules, each written without its blanks, and the
\* weekends that have no rule.
Asked == Phrases \cup {SelectSeq(p, LAMBDA s : s # " ") : p \in Phrases}
                 \cup Either(Ibeon, Jumal) \cup Either(Daeum, Jumal)
NoPhrase == << >>

QueryInit ==
    /\ today \in Todays
    /\ query \in [phrase : Asked, marker : {Silent, "before", "since"}, recurring : {FALSE},
                  written : {NoDay}]
           \cup [phrase : {NoPhrase, << "this", "week" >>}, marker : {Silent}, recurring : BOOLEAN,
                 written : Written \cup {NoDay}]
    /\ window = NotAsked

QueryNext == ExtractConstraint
QuerySpec == QueryInit /\ [][QueryNext]_queryVars

----------------------------------------------------------------------------
(* Properties *)

\* The date of a day near today.
DateOf(day) ==
    LET y == CHOOSE z \in today[1] - 4 .. today[1] + 2 : day \in DayOf(z, 1, 1) .. DayOf(z, 12, 31)
        m == CHOOSE k \in 1 .. 12 : day \in DayOf(y, k, 1) .. DayOf(y, k, MonthLength(y, k))
    IN  << y, m, day - DayOf(y, m, 1) + 1 >>

\* The rule that was written for the phrase.
OwnRule == CHOOSE k \in DOMAIN RULES : query.phrase \in RULES[k].phrases
MonthIndex(date) == 12 * date[1] + date[2]

\* A phrase in a spelling of the rules means its own period, whatever shorter
\* phrase it contains, and the period is the one a calendar shows: whole weeks
\* from their Monday, months and years by the dates of their days, a Saturday
\* and its Sunday, of which the Saturday is over; a date without a year is its
\* last occurrence.  Of other spellings see WeekendsAreNotWeeks.
QueryMeansItsPeriod ==
    window \notin {NotAsked, Unconstrained, Unconstrainable}
        /\ query.phrase \in Phrases \cup {NoPhrase} =>
        LET first == window[1]
            last == window[2]
            now == DayNumber(today)
            rule == RULES[OwnRule]
        IN  /\ first <= last /\ DateOf(now) = today
            /\ query.marker = "since" => last = now
            /\ query.phrase # NoPhrase /\ query.marker = Silent =>
                  CASE rule.kind = "day" -> << first, last >> = << now + rule.from, now + rule.to >>
                    [] rule.kind = "week" ->
                          /\ Weekday(first) = 0 /\ last = first + 6
                          /\ now + 7 * rule.from \in first .. last
                    [] rule.kind = "weekend" ->
                          /\ Weekday(first) = 5 /\ last = first + 1
                          /\ first < now - 7 * (rule.from - 1)
                          /\ first + 7 >= now - 7 * (rule.from - 1)
                    [] rule.kind = "month" ->
                          \A day \in {first - 1, first, last, last + 1} :
                              (day \in first .. last) <=>
                              (MonthIndex(DateOf(day)) = MonthIndex(today) + rule.from)
                    [] rule.kind = "year" ->
                          \A day \in {first - 1, first, last, last + 1} :
                              (day \in first .. last) <=> (DateOf(day)[1] = today[1] + rule.from)
            /\ query.phrase = NoPhrase =>
                  LET y == query.written[1] m == query.written[2] d == query.written[3] IN
                  /\ first = last
                  /\ IF y # 0 THEN first = DayOf(y, m, d)
                     ELSE /\ first <= now /\ DateOf(first)[2] = m /\ DateOf(first)[3] = d
                          /\ \A n \in 0 .. 4 : IsDate(today[1] - n, m, d) =>
                                 DayOf(today[1] - n, m, d) \notin first + 1 .. now

\* "The weekend rule has to come first or the weekend query silently widens
\* into a whole week": of a weekend in any spelling.  "jeobeonjumal" is in no
\* rule and contains "jeobeonju", and ibeon and daeum have no weekend at all.
WeekendsAreNotWeeks ==
    /\ window \notin {NotAsked, Unconstrained, Unconstrainable}
    /\ IsSuffix(Jumal, query.phrase) /\ query.marker = Silent
    => window[2] = window[1] + 1

\* "Only 2wol 29il needs more than one step back, and never more than four."
FourStepsAreEnough ==
    window = Unconstrained => query.written = NoDay \/ \A y \in today[1] - 8 .. today[1] :
        query.written[1] = 0 => ~IsDate(y, query.written[2], query.written[3])
=============================================================================
