------------------------------ MODULE SelfUpdate ------------------------------
(***************************************************************************)
(* `memgarden self-update` (cmd/self_update.rs) beside the service it      *)
(* replaces: releases, the two binaries on the disk, memgardend under      *)
(* systemd, which opens the database and brings its schema up to its own   *)
(* (store lib.rs, migrate.rs), the backups taken; and the notice that      *)
(* there is a newer release (cmd/update_check.rs).                         *)
(*                                                                         *)
(* One person runs one update at a time; it may fail or be killed between  *)
(* any two steps, and the daemon may stop and be restarted at any time.    *)
(* The download and its checksum change nothing and are left out.          *)
(***************************************************************************)
EXTENDS Integers, FiniteSets, FiniteSetsExt

CONSTANTS Schema,      \* release -> LATEST_VERSION of its build
          Published,   \* release -> the day it is published
          FirstBuild,  \* the release that is installed
          NoBinary,    \* a path without a file
          Snoozes,     \* days of a --snooze
          LastDay,     \* bound: days
          MaxUpdates, MaxStopped, MaxFalls, MaxSnoozes \* bounds: updates, kills of them,
                       \* falls of the daemon, snoozes

Releases == DOMAIN Schema

ASSUME SelfUpdateAssumption ==
    /\ Schema \in [Releases -> Nat] /\ Published \in [Releases -> Nat]
    /\ FirstBuild \in Releases /\ NoBinary \notin Releases
    /\ Snoozes \subseteq Nat
    /\ {LastDay, MaxUpdates, MaxStopped, MaxFalls, MaxSnoozes} \subseteq Nat

Binaries == << "memgardend", "memgarden" >>
Names == {"memgardend", "memgarden"}

VARIABLES bin, prev,  \* binary -> the release at its path, and at <path>.prev
          schema,     \* PRAGMA user_version
          served,     \* history: the schema a daemon last served, or was restored
          service,    \* memgardend
          taken,      \* the schemas of the backups taken
          updating,   \* the run of self-update
          exits,      \* history: what the last update ended with
          blind,      \* history: an update went on without the schema of the daemon
          outrun,     \* history: a daemon brought the schema up while the binaries
                      \* of an update past its check were not all in place
          notes,      \* update-check.json
          checking,   \* `hook update-check`, between its read and its write
          today, said, quiet, \* the day; history: notices of today, end of the last snooze
          updates, stopped, falls, snoozed

install == << bin, prev, schema, served, service, taken, updating, exits, blind,
              outrun >>
notice == << notes, checking, said, quiet >>
updateVars == << install, notice, today, updates, stopped, falls, snoozed >>

Resting == [pc |-> "none"]
Down == [pc |-> "down"]
NoNotes == [checked |-> 0, latest |-> NoBinary, notified |-> 0, snooze |-> 0]

----------------------------------------------------------------------------
(* memgardend *)

\* systemd starts what is at the path (Restart=always); a file newer than the
\* binary is refused.
StartService ==
    /\ service = Down /\ bin["memgardend"] # NoBinary
    /\ Schema[bin["memgardend"]] >= schema
    /\ service' = [pc |-> "opening", build |-> bin["memgardend"]]
    /\ UNCHANGED << bin, prev, schema, served, taken, updating, exits, blind, notice,
                    today, updates, stopped, falls, snoozed, outrun >>

\* migrate: a transaction for every version.
MigrateOne ==
    /\ service.pc = "opening" /\ schema < Schema[service.build]
    /\ schema' = schema + 1
    /\ UNCHANGED << bin, prev, served, service, taken, updating, exits, blind, notice,
                    today, updates, stopped, falls, snoozed, outrun >>

ServeNow ==
    /\ service.pc = "opening" /\ schema >= Schema[service.build]
    /\ service' = [service EXCEPT !.pc = "serving"] /\ served' = schema
    /\ outrun' = (outrun \/ (/\ schema # served
                             /\ \/ updating.pc \in {"displace", "place"}
                                \/ bin["memgardend"] # service.build))
    /\ UNCHANGED << bin, prev, schema, taken, updating, exits, blind, notice,
                    today, updates, stopped, falls, snoozed >>

Fall ==
    /\ service # Down /\ falls < MaxFalls /\ falls' = falls + 1
    /\ service' = Down
    /\ UNCHANGED << bin, prev, schema, served, taken, updating, exits, blind, notice,
                    today, updates, stopped, snoozed, outrun >>

\* By hand, with the service stopped: the way back that migrate's refusal names.
RestoreBackup ==
    /\ service = Down /\ updating = Resting
    /\ \E s \in taken : s < schema /\ schema' = s /\ served' = s
    /\ UNCHANGED << bin, prev, service, taken, updating, exits, blind, notice,
                    today, updates, stopped, falls, snoozed, outrun >>

----------------------------------------------------------------------------
(* self-update *)

At(pc) == updating.pc = pc
Goes(pc) == updating' = [updating EXCEPT !.pc = pc]
Ends(how) == updating' = Resting /\ exits' = how
Untouched == UNCHANGED << notice, today, stopped, falls, snoozed >>

\* The release of this binary is nothing to do.
BeginUpdate ==
    /\ updating = Resting /\ updates < MaxUpdates /\ updates' = updates + 1
    /\ bin["memgarden"] # NoBinary
    /\ \E r \in Releases :
          IF r = bin["memgarden"] THEN Ends("already up to date")
          ELSE updating' = [pc |-> "schema", tag |-> r, left |-> Binaries] /\ UNCHANGED exits
    /\ UNCHANGED << bin, prev, schema, served, service, taken, blind, outrun >>
    /\ Untouched

\* No backup is due.
MutInstallFirst == "displace"
\* Where the schemas of the release and of the daemon that answers lead.
AfterSchema ==
    IF Schema[updating.tag] > schema THEN "backup" ELSE "displace"

\* GET /healthz, if there is an answer that has the schema: the daemon's is null
\* when it cannot read its database.
CheckSchema ==
    /\ At("schema")
    /\ \/ /\ service.pc = "serving" /\ UNCHANGED blind
          /\ IF Schema[updating.tag] < schema THEN Ends("refused")
             ELSE Goes(AfterSchema) /\ UNCHANGED exits
       \/ blind' = TRUE /\ Goes("displace") /\ UNCHANGED exits
    /\ UNCHANGED << bin, prev, schema, served, service, taken, updates, outrun >>
    /\ Untouched

\* memgardend --backup-to, of the new build, which does not migrate.
BackUp ==
    /\ At("backup")
    /\ taken' = taken \cup {schema}
    /\ Goes("displace")
    /\ UNCHANGED << bin, prev, schema, served, service, exits, blind, updates, outrun >>
    /\ Untouched

Binary == updating.left[1]

\* Each binary: to <path>.prev, if it is there; then the new one to its path.
Displace ==
    /\ At("displace")
    /\ IF bin[Binary] = NoBinary THEN UNCHANGED << bin, prev >>
       ELSE /\ prev' = [prev EXCEPT ![Binary] = bin[Binary]]
            /\ bin' = [bin EXCEPT ![Binary] = NoBinary]
    /\ Goes("place")
    /\ UNCHANGED << schema, served, service, taken, exits, blind, updates, outrun >>
    /\ Untouched

PutInPlace ==
    /\ At("place")
    /\ bin' = [bin EXCEPT ![Binary] = updating.tag]
    /\ updating' = IF Binary = "memgarden" THEN [updating EXCEPT !.pc = "restart"]
                   ELSE [updating EXCEPT !.pc = "displace", !.left = << "memgarden" >>]
    /\ UNCHANGED << prev, schema, served, service, taken, exits, blind, updates, outrun >>
    /\ Untouched

\* systemctl restart, of a service that is active; not of one that systemd has
\* still to start, or that is not under it: "restart the daemon yourself".
Restart ==
    /\ At("restart")
    /\ \/ service' = Down /\ Goes("verify") /\ UNCHANGED exits
       \/ Ends("not under systemd") /\ UNCHANGED service
    /\ UNCHANGED << bin, prev, schema, served, taken, blind, updates, outrun >>
    /\ Untouched

\* /healthz reports the build, or does not for thirty seconds.
Verify ==
    /\ At("verify")
    /\ \/ service.pc = "serving" /\ service.build = updating.tag /\ Ends("updated")
       \/ Ends("not reported")
    /\ UNCHANGED << bin, prev, schema, served, service, taken, blind, updates, outrun >>
    /\ Untouched

\* A command of it fails, or it is killed.
StopUpdate ==
    /\ updating # Resting /\ stopped < MaxStopped /\ stopped' = stopped + 1
    /\ Ends("stopped")
    /\ UNCHANGED << bin, prev, schema, served, service, taken, blind, notice,
                    today, updates, falls, snoozed, outrun >>

----------------------------------------------------------------------------
(* The notice *)

Elsewhere == UNCHANGED << install, updates, stopped, falls >>

\* session-start's child reads the file and asks GitHub, once a day.
CheckBegins ==
    /\ checking = Resting /\ today > notes.checked
    /\ checking' = [pc |-> "asked", notes |-> notes, day |-> today]
    /\ UNCHANGED << notes, said, quiet, today, snoozed >> /\ Elsewhere

Newest(day) == CHOOSE r \in Releases : /\ Published[r] <= day
                                       /\ \A q \in Releases : Published[q] <= day =>
                                             Published[q] <= Published[r]

\* ... and writes the whole of it, or nothing where the request failed.
CheckEnds ==
    /\ checking # Resting
    /\ notes' \in {notes, [checking.notes EXCEPT !.checked = checking.day,
                                                 !.latest = Newest(checking.day)]}
    /\ checking' = Resting
    /\ UNCHANGED << said, quiet, today, snoozed >> /\ Elsewhere

\* should_notify; a binary is as old as its release or younger.
Notable ==
    /\ notes.latest # NoBinary /\ bin["memgarden"] # NoBinary
    /\ notes.latest # bin["memgarden"]
    /\ Published[notes.latest] > Published[bin["memgarden"]]
    /\ today >= notes.snooze /\ today > notes.notified

\* notice, from the recall of a prompt; its read and write are next to each other.
Notify ==
    /\ Notable
    /\ notes' = [notes EXCEPT !.notified = today] /\ said' = said + 1
    /\ UNCHANGED << checking, quiet, today, snoozed >> /\ Elsewhere

Snooze ==
    /\ snoozed < MaxSnoozes /\ snoozed' = snoozed + 1
    /\ \E n \in Snoozes : /\ notes' = [notes EXCEPT !.snooze = today + n]
                          /\ quiet' = today + n
    /\ UNCHANGED << checking, said, today >> /\ Elsewhere

NextDay ==
    /\ today < LastDay /\ today' = today + 1 /\ said' = 0
    /\ UNCHANGED << notes, checking, quiet, snoozed >> /\ Elsewhere

SelfUpdateInit ==
    /\ bin = [b \in Names |-> FirstBuild] /\ prev = [b \in Names |-> NoBinary]
    /\ schema = Schema[FirstBuild] /\ served = schema
    /\ service = [pc |-> "serving", build |-> FirstBuild]
    /\ taken = {} /\ updating = Resting /\ exits = "none" /\ blind = FALSE /\ outrun = FALSE
    /\ notes = NoNotes /\ checking = Resting /\ today = 1 /\ said = 0 /\ quiet = 0
    /\ updates = 0 /\ stopped = 0 /\ falls = 0 /\ snoozed = 0

SelfUpdateNext ==
    \/ StartService \/ MigrateOne \/ ServeNow \/ Fall \/ RestoreBackup
    \/ BeginUpdate \/ CheckSchema \/ BackUp \/ Displace \/ PutInPlace \/ Restart \/ Verify
    \/ StopUpdate
    \/ CheckBegins \/ CheckEnds \/ Notify \/ Snooze \/ NextDay

SelfUpdateSpec == SelfUpdateInit /\ [][SelfUpdateNext]_updateVars

----------------------------------------------------------------------------
(* Properties *)

\* "backs up before a schema change": the database leaves the schema it was
\* served with only behind a backup of that schema, however an update was
\* stopped and whenever the service was restarted, unless an update went on
\* without an answer ("no schema check possible, installing anyway"), or the
\* binary of an interrupted update was started, and brought the schema up,
\* under a later one that had made its backup.
MigratedBehindBackup == schema # served => served \in taken \/ blind \/ outrun

\* The same without the second exception.
BackedUpBefore == schema # served => served \in taken \/ blind

\* "an older build would refuse to start": what is installed can open the
\* database, with the same exception.
InstalledCanOpen ==
    ~blind /\ bin["memgardend"] # NoBinary => Schema[bin["memgardend"]] >= schema

\* "verify by build": an update that ends well leaves the service running the
\* release, or on its way to it.
WellMeansServed ==
    updating = Resting /\ exits \in {"updated", "already up to date"}
       => service = Down \/ service.build = bin["memgarden"]

\* "previous kept as .prev": beside what is installed is what it replaced.
PrevIsAnother == \A b \in Names : prev[b] # NoBinary => prev[b] # bin[b]

\* "once a day, not every prompt"
NoticedOnceADay == said <= 1

\* "--snooze 7 defers it"
SnoozeIsKept == [][Notify => today >= quiet]_updateVars
=============================================================================
