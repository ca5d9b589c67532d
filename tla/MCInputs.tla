------------------------------- MODULE MCInputs -------------------------------
(***************************************************************************)
(* Small instances of what memgarden reads and makes something of: the     *)
(* messages of a transcript, a text that is cut into chunks, the reply of  *)
(* the extraction model, the time that a query names, the daemon's         *)
(* response to a hook, and a migrated database beside the archive that it  *)
(* was made from.  They share no state: a behaviour is of one of them.     *)
(***************************************************************************)
EXTENDS Transcript, Chunker, ExtractedFacts, TemporalQuery, HttpClient, Verification, TLC

CONSTANT Part  \* the parts of this run
VARIABLE part  \* the one that moves

vars == << part, transcriptVars, chunkerVars, extractVars, queryVars, httpVars, verifyVars >>

----------------------------------------------------------------------------
(* Messages: a mark of each kind, alone and in another; blocks of each kind *)

Note(role, s) == [role |-> role, content |-> s]
Blocks(role, bs) == [role |-> role, blocks |-> bs]
Says(s) == [kind |-> "text", text |-> s]
Call(tool, path, input) == [kind |-> "tool_use", tool |-> tool, path |-> path, input |-> input]
MCMessages ==
    { Note("user", << "a1" >>), Note("system", << "b1" >>),
      Note("user", << "c1", "<private>", "c2", "</private>", "c3" >>),
      Note("user", << "<mem>", "d1", "<private>", "</mem>", "d2" >>),
      Note("user", << "<channel>", "e1", "<private>", "e2", "</private>", "</channel>", "e3" >>),
      Note("assistant", << "<mem>", "f1", "</mem>", "f2", "<mem>", "f3" >>),
      Blocks("user", << Says(<< "g1", "<private>", "g2" >>), Says(<< "g3" >>),
                        Call("edit", "p1", "path" :> 1) >>),
      Blocks("assistant", << Call("edit", "p1", "path" :> 2 @@ "old" :> 3 @@ "new" :> 1),
                             Call("recall", "", << >>), [kind |-> "tool_result", size |-> 3] >>),
      Blocks("assistant", << [kind |-> "thinking"], Says(<< "h1" >>), Call("edit", "p2", "path" :> 1) >>) }

\* Turns and lines: shorter and longer than the budgets, and one with its own
\* places to cut.
MCTurns == {<< Letter, Letter >>, << Letter, Letter, Letter >>, << Letter, Stop, Blank, Letter >>,
            << Letter, Letter, Letter, Letter, Letter >>,
            << Letter, Stop, Blank, Letter, Blank, Letter >>}

Raw(says, start, end, rel, kind, type, causes, sup, quote) ==
    [says |-> says, start |-> start, end |-> end, relative |-> rel, kind |-> kind, type |-> type,
     causes |-> causes, supersedes |-> sup, quote |-> quote]
MCRawFacts ==
    { Raw("this", NoText, NoText, FALSE, "conversation", "world", << >>, << >>, NoText),
      Raw("this", "d1", NoText, FALSE, "event", "assistant", << 1, 2, 3 >>, << 2 >>, "q1"),
      Raw("this", NoText, "d2", TRUE, "event", NoText, << 3, 1, 4 >>, << 3, 2, 1 >>, "q2"),
      Raw("this", NoText, NoText, TRUE, "conversation", "other", << 0, 2, 2 >>, << 1 >>, "s"),
      Raw("this", "d1", "d2", FALSE, "assistant", NoText, << 2 >>, << 1, 2 >>, "q1"),
      Raw("no what", "d1", NoText, FALSE, "event", "world", << 1 >>, << >>, NoText),
      Raw("degenerate", NoText, NoText, FALSE, "event", "world", << >>, << 2 >>, "q2") }
MCKnownQuotes == << {"q1", "s"}, {"q1", "q2"} >>

\* Days at the ends of weeks, months and years, of leap years and others.
MCTodays ==
    {t \in {2024, 2026, 2027} \X {1, 2, 3, 8, 12} \X {1, 3, 28, 31} : IsDate(t[1], t[2], t[3])}
        \cup {<< 2024, 2, 29 >>, << 2026, 8, 9 >>, << 2026, 8, 8 >>, << 2101, 2, 1 >>}
MCWritten == {<< 0, 2, 29 >>, << 0, 12, 31 >>, << 0, 2, 30 >>, << 0, 8, 2 >>, << 0, 13, 1 >>,
              << 2025, 3, 15 >>, << 2027, 2, 29 >>, << 2024, 2, 29 >>}

Url(scheme, host, path) == [scheme |-> scheme, host |-> host, path |-> path]
MCUrls == {Url("http", "localhost", "/"), Url("https", "127.0.0.1", ""),
           Url("http", "127.0.0.1", "/api"), Url("http", "daemon.local", "")}
Token == << "token", "ours" >>
Bytes(n) == << "content-length", n >>
Reply(head, http, lines, body) == [head |-> head, http |-> http, lines |-> lines, body |-> body]
MCReplies ==
    { Reply(3, TRUE, << Token, Bytes(3) >>, 5), Reply(2, TRUE, << Bytes(2), Token, Bytes(2) >>, 1),
      Reply(3, TRUE, << Token, Bytes(2), Bytes(3) >>, 3),
      Reply(2, TRUE, << Token, << "token", "other" >>, Bytes(2) >>, 4),
      Reply(3, TRUE, << Bytes(0) >>, 4), Reply(3, TRUE, << Token >>, 2),
      Reply(2, TRUE, << Token, << "transfer-encoding", "chunked" >>, Bytes(2) >>, 3),
      Reply(2, TRUE, << Token, Bytes(99) >>, 4), Reply(8, TRUE, << Token, Bytes(1) >>, 1),
      Reply(1, FALSE, << Token, Bytes(1) >>, 2), Reply(1, TRUE, << Token, Bytes(0) >>, 0) }

\* Two observations of one bank have the same sources, and two banks a document
\* and a text of the same name.
Fact(key, said, tags, names, day, causes) ==
    [key |-> key, text |-> said, tags |-> tags, names |-> names, day |-> day, causes |-> causes]
Obs(sources, said) == [sources |-> sources, text |-> said, tags |-> {"x"}, day |-> 2]
MCArchiveBank == << "b1", "b2" >>
MCArchiveDocs == "b1" :> {"d1", "d2", "d3"} @@ "b2" :> {"d1"}
MCArchiveFacts ==
    "b1" :> << Fact(<< "d1", 1 >>, "t1", {"x"}, {"n"}, 1, {}),
               Fact(<< "d1", 2 >>, "t2", {}, {"m", "n"}, 2, {<< "d1", 1 >>, << "d1", 2 >>}),
               Fact(<< "d2", 1 >>, "t3", {"x", "y"}, {}, 2, {}) >>
    @@ "b2" :> << Fact(<< "d1", 1 >>, "t1", {}, {"n"}, 9, {}) >>
MCArchiveObs ==
    "b1" :> << Obs(<< << "d1", 1 >>, << "d1", 2 >> >>, "o1"),
               Obs(<< << "d1", 1 >>, << "d1", 2 >> >>, "o2") >>
    @@ "b2" :> << >>

----------------------------------------------------------------------------

\* The inputs of a part that does not move are fixed.
InputsInit ==
    /\ part \in Part
    /\ TranscriptInit /\ (part # "transcript" => delta = << >> /\ initial /\ asJson)
    /\ IF part = "chunks" THEN ChunkerInit
       ELSE text = Text("plain", << << >> >>) /\ budget = 0 /\ cuts = NoCuts
    /\ IF part = "reply" THEN ExtractInit ELSE reply = << >> /\ extracted = NoFacts
    /\ IF part = "query" THEN QueryInit ELSE today = << >> /\ query = << >> /\ window = NotAsked
    /\ HttpInit /\ (part # "response" => /\ peer = CHOOSE r \in Replies : TRUE
                                         /\ url = CHOOSE u \in Urls : TRUE)
    /\ VerifyInit /\ (part # "verify" => stats.temporal = Min(LegacyTemporal))

InputsNext ==
    /\ UNCHANGED part
    /\ \/ /\ part = "transcript" /\ TranscriptNext
          /\ UNCHANGED << chunkerVars, extractVars, queryVars, httpVars, verifyVars >>
       \/ /\ part = "chunks" /\ ChunkerNext
          /\ UNCHANGED << transcriptVars, extractVars, queryVars, httpVars, verifyVars >>
       \/ /\ part = "reply" /\ ExtractNext
          /\ UNCHANGED << transcriptVars, chunkerVars, queryVars, httpVars, verifyVars >>
       \/ /\ part = "query" /\ QueryNext
          /\ UNCHANGED << transcriptVars, chunkerVars, extractVars, httpVars, verifyVars >>
       \/ /\ part = "response" /\ HttpNext
          /\ UNCHANGED << transcriptVars, chunkerVars, extractVars, queryVars, verifyVars >>
       \/ /\ part = "verify" /\ VerifyNext
          /\ UNCHANGED << transcriptVars, chunkerVars, extractVars, queryVars, httpVars >>

InputsSpec == InputsInit /\ [][InputsNext]_vars
=============================================================================
