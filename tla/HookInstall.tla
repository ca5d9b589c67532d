----------------------------- MODULE HookInstall -----------------------------
(***************************************************************************)
(* memgarden hooks install and uninstall (memgarden-cli cmd/hooks.rs,      *)
(* settings.rs): a settings.json that other programs and the user write    *)
(* too is edited as text.  Install puts a line in for each event; uninstall *)
(* finds those lines again, whatever has happened to the file since, and   *)
(* takes them out; both back the file up, and check that it did not change *)
(* before they rename the new one over it.                                 *)
(*                                                                         *)
(* Of the text the model keeps what the scan looks at: the members of the  *)
(* "hooks" object and the hooks of each, in order, and which of them begin *)
(* a line.  What else a writer changes is a number.                        *)
(***************************************************************************)
EXTENDS Integers, Sequences, FiniteSets, FiniteSetsExt, SequencesExt

CONSTANTS HookEvents,   \* ENTRIES: the events, in order
          Other,        \* an event that is none of them
          Missing,      \* no settings.json
          Runs,         \* install and uninstall commands at the same time
          MaxCommands,  \* bound: commands ever run
          MaxForeign    \* bound: changes by others

ASSUME HookInstallAssumption ==
    /\ HookEvents \in Seq(ToSet(HookEvents)) /\ IsInjective(HookEvents)
    /\ Other \notin ToSet(HookEvents)
    /\ {MaxCommands, MaxForeign} \subseteq Nat

VARIABLES file,      \* settings.json
          command,   \* each command: where it is, what it read and would write
          backups,   \* the copies under backups/
          commands,  \* commands so far
          foreign,   \* changes by others so far
          prompts,   \* history: those of them that added a prompt hook
          overtaken  \* history: those made between a command's check and rename

installVars == << file, command, backups, commands, foreign, prompts, overtaken >>

\* A hook: "ours" on one line, "spread" over several by a reformatter,
\* "theirs" with a command of its own, or a "prompt", which has none.
NoHooks == [there |-> FALSE, own |-> FALSE, members |-> << >>]
\* Of the other members of the document, those in front of "hooks".
EmptyObject == [hooks |-> NoHooks, rest |-> {}, front |-> {}]
NoCommand == [pc |-> "none"]

\* The places in the text, in order: the hooks member << 0, 0 >>, its members
\* << m, 0 >>, the hooks of a member << m, g >>.
Members(d) == DOMAIN d.hooks.members
HooksAt(d, m) == DOMAIN d.hooks.members[m].hooks
Hook(d, p) == d.hooks.members[p[1]].hooks[p[2]]
Hooks(d) == UNION {{<< m, g >> : g \in HooksAt(d, m)} : m \in Members(d)}
Places(d) == {<< 0, 0 >>} \cup {<< m, 0 >> : m \in Members(d)} \cup Hooks(d)
NotAfter(p, q) == p[1] < q[1] \/ (p[1] = q[1] /\ p[2] <= q[2])
BeginsLine(d, p) == CASE p[1] = 0 -> d.hooks.own
                      [] p[1] # 0 /\ p[2] = 0 -> d.hooks.members[p[1]].own
                      [] OTHER -> Hook(d, p).own

\* What others have in the file.
Theirs(d) == d.rest \cup {Hook(d, p).id : p \in {p \in Hooks(d) : Hook(d, p).kind = "theirs"}}
Prompts(d) == {Hook(d, p).id : p \in {p \in Hooks(d) : Hook(d, p).kind = "prompt"}}

----------------------------------------------------------------------------
(* settings::install *)

\* wired_events, which reads the parsed document.
Wired(d) == {e \in ToSet(HookEvents) :
                \E p \in Hooks(d) : /\ d.hooks.members[p[1]].key = e
                                    /\ Hook(d, p).kind \in {"ours", "spread"}
                                    /\ Hook(d, p).id = e}

Ours(e, own) == [kind |-> "ours", id |-> e, own |-> own]

\* The new member goes behind the others.
MutAtEnd(d, e) ==
    LET at == {m \in Members(d) : d.hooks.members[m].key = e}
        alone == [key |-> e, own |-> TRUE, hooks |-> << Ours(e, FALSE) >>]
    IN  IF ~d.hooks.there
        THEN [d EXCEPT !.hooks = [there |-> TRUE, own |-> TRUE, members |-> << alone >>]]
        ELSE IF at = {} THEN [d EXCEPT !.hooks.members = Append(@, alone)]
        ELSE [d EXCEPT !.hooks.members[Min(at)].hooks = << Ours(e, TRUE) >> \o @]
\* insertion: the whole member, an event, or a hook in front of the others;
\* each begins a line, and what was behind the bracket now follows it.
Spliced(d, e) ==
    LET at == {m \in Members(d) : d.hooks.members[m].key = e}
        alone(own) == [key |-> e, own |-> own, hooks |-> << Ours(e, FALSE) >>]
    IN  IF ~d.hooks.there
        THEN [d EXCEPT !.hooks = [there |-> TRUE, own |-> TRUE, members |-> << alone(FALSE) >>]]
        ELSE IF at = {} THEN [d EXCEPT !.hooks.members = << alone(TRUE) >> \o @]
        ELSE [d EXCEPT !.hooks.members[Min(at)].hooks = << Ours(e, TRUE) >> \o @]

Installed(d) ==
    FoldLeft(LAMBDA text, e : IF e \in Wired(d) THEN text ELSE Spliced(text, e), d, HookEvents)

----------------------------------------------------------------------------
(* settings::uninstall *)

Place(d, p) == IF p[1] = 0 THEN Hooks(d)
               ELSE IF p[2] = 0 THEN {<< p[1], g >> : g \in HooksAt(d, p[1])} ELSE {p}

\* The span may hold the commands of others.
MutNoCount(d, span) == TRUE
\* "The span has to hold exactly one hook": one that has a "command".
OnlyOurs(d, span) == Cardinality({q \in span : Hook(d, q).kind # "prompt"}) = 1

\* What the marker's line begins with, if it holds the marker: none or one.
LineStarts(d, p) ==
    {h \in Places(d) :
        /\ BeginsLine(d, h) /\ NotAfter(h, p) /\ p \in Place(d, h)
        /\ \A q \in Places(d) : BeginsLine(d, q) /\ NotAfter(q, p) => NotAfter(q, h)}

\* chunk_span: a hook, a member of one of our names, or the hooks member, with
\* the marker and no other command in it.
Chunks(d, p) ==
    {h \in LineStarts(d, p) :
        /\ h[1] # 0 /\ h[2] = 0 => d.hooks.members[h[1]].key \in ToSet(HookEvents)
        /\ OnlyOurs(d, Place(d, h))}

\* The chunk goes with the comma behind it.
Cut(d, h) ==
    IF h[1] = 0 THEN [d EXCEPT !.hooks = NoHooks, !.front = {}]
    ELSE IF h[2] = 0 THEN [d EXCEPT !.hooks.members = RemoveAt(@, h[1])]
    ELSE [d EXCEPT !.hooks.members[h[1]].hooks = RemoveAt(@, h[2])]

\* Taking out the last of several leaves the comma before it: the text does
\* not parse, and nothing is written.
LastOfSeveral(d, h) ==
    \/ h[1] = 0 /\ d.front # {} /\ d.front = d.rest
    \/ h[1] # 0 /\ h[2] = 0 /\ h[1] > 1 /\ h[1] = Len(d.hooks.members)
    \/ h[2] > 1 /\ h[2] = Len(d.hooks.members[h[1]].hooks)

\* Each round takes the first marker that has a chunk.
RECURSIVE Stripped(_, _)
Stripped(d, parses) ==
    LET found == {p \in Hooks(d) : Hook(d, p).kind = "ours" /\ Chunks(d, p) # {}}
    IN  IF found = {} THEN [text |-> d, parses |-> parses]
        ELSE LET p == CHOOSE p \in found : \A q \in found : NotAfter(p, q)
                 h == CHOOSE h \in Chunks(d, p) : TRUE
             IN  Stripped(Cut(d, h), parses /\ ~LastOfSeveral(d, h))

\* The text without our lines, or the text as it was: a marker is left over,
\* or the result would not parse.
Uninstalled(d) ==
    LET s == Stripped(d, TRUE)
    IN  IF s.parses /\ Wired(s.text) = {} THEN s.text ELSE d

----------------------------------------------------------------------------
(* The commands *)

Changed(sub, d) == IF sub = "install" THEN Installed(d) ELSE Uninstalled(d)
Source == IF file = Missing THEN EmptyObject ELSE file

\* Read and edit in memory; a command with nothing to do, or refused, ends.
Read(c) ==
    /\ command[c] = NoCommand /\ commands < MaxCommands /\ commands' = commands + 1
    /\ \E sub \in {"install", "uninstall"} :
          /\ sub = "uninstall" => file # Missing
          /\ Changed(sub, Source) # Source
          /\ command' = [command EXCEPT ![c] =
                [pc |-> IF file = Missing THEN "check" ELSE "backup", sub |-> sub,
                 src |-> file, text |-> Changed(sub, Source)]]
    /\ UNCHANGED << file, backups, foreign, prompts, overtaken >>

\* backup opens the file anew.
Backup(c) ==
    /\ command[c].pc = "backup" /\ file # Missing
    /\ backups' = backups \cup {file}
    /\ command' = [command EXCEPT ![c].pc = "check"]
    /\ UNCHANGED << file, commands, foreign, prompts, overtaken >>

\* The new text is renamed over whatever is there.
MutNoCheck(c) == TRUE
\* "settings.json changed while we were editing it"
StillAsRead(c) == file = command[c].src

Check(c) ==
    /\ command[c].pc = "check"
    /\ command' = [command EXCEPT ![c] = IF StillAsRead(c) THEN [@ EXCEPT !.pc = "rename"]
                                         ELSE NoCommand]
    /\ UNCHANGED << file, backups, commands, foreign, prompts, overtaken >>

Rename(c) ==
    /\ command[c].pc = "rename"
    /\ file' = command[c].text
    /\ command' = [command EXCEPT ![c] = NoCommand]
    /\ UNCHANGED << backups, commands, foreign, prompts, overtaken >>

\* Killed, or the disk is full: the file is as it was.
Abort(c) ==
    /\ command[c] # NoCommand
    /\ command' = [command EXCEPT ![c] = NoCommand]
    /\ UNCHANGED << file, backups, commands, foreign, prompts, overtaken >>

----------------------------------------------------------------------------
(* The user and the other programs *)

Foreign ==
    /\ foreign < MaxForeign /\ foreign' = foreign + 1
    /\ overtaken' = IF \E c \in Runs : command[c].pc = "rename"
                    THEN overtaken \cup {foreign'} ELSE overtaken
    /\ UNCHANGED << command, backups, commands >>

\* A member more, behind the others or in front of "hooks".
ChangeRest ==
    /\ Foreign /\ UNCHANGED prompts
    /\ file' = [Source EXCEPT !.rest = @ \cup {foreign'}]
       \/ /\ Source.hooks.there
          /\ file' = [file EXCEPT !.rest = @ \cup {foreign'}, !.front = @ \cup {foreign'}]

\* A hook more, in a new member at the end or behind those of a member.
AddHook ==
    /\ Foreign
    /\ \E kind \in {"theirs", "prompt"}, own \in BOOLEAN, key \in ToSet(HookEvents) \cup {Other} :
          LET hook(o) == [kind |-> kind, id |-> foreign', own |-> o]
              d == Source
              at == {m \in Members(d) : d.hooks.members[m].key = key}
              member == [key |-> key, own |-> own, hooks |-> << hook(FALSE) >>]
          IN  /\ prompts' = IF kind = "prompt" THEN prompts \cup {foreign'} ELSE prompts
              /\ file' =
                   IF at # {}
                   THEN [d EXCEPT !.hooks.members[Min(at)].hooks = Append(@, hook(own))]
                   ELSE [d EXCEPT !.front = IF d.hooks.there THEN @ ELSE d.rest,
                                  !.hooks = [there |-> TRUE,
                                             own |-> d.hooks.own \/ ~d.hooks.there,
                                             members |-> Append(d.hooks.members, member)]]

\* A reformatter: every member and hook begins a line, ours are spread out.
Reformat ==
    /\ Foreign /\ file # Missing /\ UNCHANGED prompts
    /\ file' = [file EXCEPT
         !.rest = @ \cup {foreign'},
         !.hooks.members = [m \in DOMAIN @ |-> [@[m] EXCEPT !.own = TRUE,
            !.hooks = [g \in DOMAIN @ |-> [@[g] EXCEPT !.own = TRUE,
                          !.kind = IF @ = "ours" THEN "spread" ELSE @]]]]]

InstallInit ==
    /\ file \in {Missing, EmptyObject}
    /\ command = [c \in Runs |-> NoCommand] /\ backups = {}
    /\ commands = 0 /\ foreign = 0 /\ prompts = {} /\ overtaken = {}

InstallNext ==
    \/ \E c \in Runs : Read(c) \/ Backup(c) \/ Check(c) \/ Rename(c) \/ Abort(c)
    \/ ChangeRest \/ AddHook \/ Reformat

InstallSpec == InstallInit /\ [][InstallNext]_installVars

----------------------------------------------------------------------------
(* Properties *)

InstallTypeOK ==
    /\ commands \in 0 .. MaxCommands /\ foreign \in 0 .. MaxForeign
    /\ overtaken \cup prompts \subseteq 1 .. foreign
    /\ \A c \in Runs : command[c].pc \in {"none", "backup", "check", "rename"}

\* "Uninstall restores the file to its pre-install bytes", whatever is in the
\* file, and an event is never wired twice.
InstallIsUndone ==
    file # Missing =>
        /\ Wired(file) = {} => Uninstalled(Installed(file)) = file
        /\ Installed(Installed(file)) = Installed(file)

\* "A member holding someone else's hook is never deleted" (of a line that holds
\* one, see LineGoesWhole), and "a file that changed under us is not
\* overwritten": every change of others is in the
\* file, however commands and edits interleave, but for prompts, and for what
\* was written between a command's last look and its rename.
OthersAreKept ==
    file # Missing =>
        1 .. foreign \subseteq Theirs(file) \cup prompts \cup overtaken

\* Both: a file of others is given back as it was, but for our own lines.
FileStaysTheirs == InstallIsUndone /\ OthersAreKept

\* "Someone writing between this read and the rename still loses, and backup
\* is its recovery": what is not in the file is in a backup.
LostIsBackedUp ==
    file # Missing =>
        1 .. foreign \subseteq UNION {Theirs(d) \cup Prompts(d) : d \in backups \cup {file}}

\* "uninstall deletes the line it wrote, so anything you add to that line - a
\* second hook inside an event array MemGarden created - goes with it": of a
\* hook of others on a line that begins with a member of ours.  It is why
\* OthersAreKept may say what it says, and what the runbook does not.
LineGoesWhole ==
    file # Missing =>
        \A p \in Hooks(file) : Hook(file, p).kind = "ours" =>
            \A h \in LineStarts(file, p) :
                \A q \in Place(file, h) :
                    Hook(file, q).kind = "theirs" => Hook(file, q).id \notin Theirs(Uninstalled(file))

\* The same of a prompt hook.
PromptsAreKept ==
    file # Missing => prompts \subseteq Prompts(file) \cup overtaken

=============================================================================
