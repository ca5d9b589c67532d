--------------------------- MODULE OnDemand_proofs ---------------------------
(***************************************************************************)
(* What an operator asks for from outside, beside the running pipeline: a  *)
(* release put in place of another (SelfUpdate), a bank deleted under the  *)
(* jobs that fill it (BankRows), and an earlier store's facts imported     *)
(* while native ones arrive (Migration).  And what a session is shown, and *)
(* remembers of it (Injection), and what a process loads (Settings).       *)
(* What a fold, a sum and a greatest rowid are comes from the proofs about *)
(* the graph.                                                              *)
(***************************************************************************)
EXTENDS LinkGraph_proofs, SelfUpdate, BankRows, Migration, Injection, Settings,
        FiniteSetTheorems, SequenceTheorems, WellFoundedInduction, TLAPS

-----------------------------------------------------------------------------

(***************************************************************************)
(* SelfUpdate: the database is backed up before it leaves a schema, for    *)
(* any releases, any number of updates, kills of them and falls of the     *)
(* daemon.  What has to be carried along is that nothing newer than the    *)
(* database is about to open it without a backup: not the daemon that      *)
(* opens it, not the binary at the path, not the one that is being put     *)
(* there.                                                                  *)
(***************************************************************************)

Phases == {"schema", "backup", "displace", "place", "restart", "verify"}

UpdateTyped ==
    /\ schema \in Nat /\ served \in Nat /\ taken \subseteq Nat
    /\ blind \in BOOLEAN /\ outrun \in BOOLEAN
    /\ bin \in [Names -> Releases \cup {NoBinary}]
    /\ service \in {Down} \cup [pc : {"opening", "serving"}, build : Releases]
    /\ updating \in {Resting} \cup
         [pc : Phases, tag : Releases, left : {Binaries, << "memgarden" >>}]

\* There is a way back, or one of the two exceptions.
Safe == served \in taken \/ blind \/ outrun
Raises(build) == Schema[build] > schema

NothingNewerUnsaved ==
    /\ schema # served => Safe
    /\ service.pc = "opening" /\ Raises(service.build) => Safe
    /\ bin["memgardend"] # NoBinary /\ Raises(bin["memgardend"]) => Safe
    /\ updating.pc \in {"displace", "place"} /\ Raises(updating.tag) => Safe

Saved == UpdateTyped /\ NothingNewerUnsaved

-----------------------------------------------------------------------------
LEMMA SavedAtFirst == SelfUpdateInit => Saved
<1> SUFFICES ASSUME SelfUpdateInit PROVE Saved
    OBVIOUS
<1>1. /\ FirstBuild \in Releases /\ Schema \in [Releases -> Nat]
      /\ "memgardend" \in Names
  BY SelfUpdateAssumption DEF Names
<1>2. UpdateTyped
  BY <1>1 DEF SelfUpdateInit, UpdateTyped
<1>3. NothingNewerUnsaved
  BY <1>1 DEF SelfUpdateInit, NothingNewerUnsaved, Raises, Resting
<1> QED BY <1>2, <1>3 DEF Saved

\* What the daemon does.
LEMMA DaemonSaves ==
    ASSUME Saved, StartService \/ MigrateOne \/ ServeNow \/ Fall \/ RestoreBackup
    PROVE  Saved'
<1> USE SelfUpdateAssumption DEF Saved
<1>t. Schema \in [Releases -> Nat] /\ NoBinary \notin Releases /\ "memgardend" \in Names
  BY DEF Names
<1>1. CASE StartService
  <2>1. bin["memgardend"] \in Releases
    BY <1>1, <1>t DEF StartService, UpdateTyped
  <2>2. UpdateTyped'
    BY <1>1, <2>1 DEF StartService, UpdateTyped
  <2>3. NothingNewerUnsaved'
    BY <1>1, <2>1, <1>t DEF StartService, NothingNewerUnsaved, Safe, Raises
  <2> QED BY <2>2, <2>3
<1>2. CASE MigrateOne
  <2>1. service.build \in Releases
    BY <1>2 DEF MigrateOne, UpdateTyped, Down
  <2>2. UpdateTyped'
    BY <1>2 DEF MigrateOne, UpdateTyped
  <2>3. Safe /\ Safe'
    BY <1>2, <2>1, <1>t DEF MigrateOne, NothingNewerUnsaved, Safe, Raises
  <2> QED BY <2>2, <2>3 DEF NothingNewerUnsaved
<1>3. CASE ServeNow
  <2>1. service \in [pc : {"opening", "serving"}, build : Releases]
    BY <1>3 DEF ServeNow, UpdateTyped, Down
  <2>2. service' = [service EXCEPT !.pc = "serving"]
    BY <1>3 DEF ServeNow
  <2>3. service' = [pc |-> "serving", build |-> service.build]
    BY <2>1, <2>2
  <2>4. /\ service.pc = "opening" /\ ~Raises(service.build)
        /\ schema' = schema /\ served' = schema
        /\ UNCHANGED << bin, taken, updating, blind >>
        /\ outrun' = (outrun \/ (/\ schema # served
                                 /\ \/ updating.pc \in {"displace", "place"}
                                    \/ bin["memgardend"] # service.build))
    BY <1>3, <2>1, <1>t DEF ServeNow, Raises, UpdateTyped
  <2>5. UpdateTyped'
    BY <2>1, <2>3, <2>4 DEF UpdateTyped
  <2>6. service'.pc # "opening" /\ schema' = served'
    BY <2>3, <2>4
  <2>7. CASE schema = served
    <3>1. Safe => Safe'
      BY <2>4, <2>7 DEF Safe
    <3> QED BY <2>4, <2>5, <2>6, <2>7, <3>1 DEF NothingNewerUnsaved, Raises
  <2>8. CASE /\ schema # served
             /\ updating.pc \in {"displace", "place"} \/ bin["memgardend"] # service.build
    <3>1. Safe'
      BY <2>4, <2>8 DEF Safe
    <3> QED BY <2>5, <3>1 DEF NothingNewerUnsaved
  <2>9. CASE ~(updating.pc \in {"displace", "place"}) /\ bin["memgardend"] = service.build
    BY <2>4, <2>5, <2>6, <2>9 DEF NothingNewerUnsaved, Raises
  <2> QED BY <2>7, <2>8, <2>9
<1>4. CASE Fall
  <2>1. service' = Down /\ UNCHANGED << bin, schema, served, taken, updating, blind, outrun >>
    BY <1>4 DEF Fall
  <2>2. service'.pc # "opening"
    BY <2>1 DEF Down
  <2> QED BY <2>1, <2>2 DEF UpdateTyped, NothingNewerUnsaved, Safe, Raises
<1>5. CASE RestoreBackup
  <2>1. PICK s \in taken : s < schema /\ schema' = s /\ served' = s
    BY <1>5 DEF RestoreBackup
  <2>2. Safe'
    BY <1>5, <2>1 DEF RestoreBackup, Safe
  <2> QED BY <1>5, <2>2 DEF RestoreBackup, UpdateTyped, NothingNewerUnsaved
<1> QED BY <1>1, <1>2, <1>3, <1>4, <1>5

\* What the update does.
LEMMA UpdateSaves ==
    ASSUME Saved,
           BeginUpdate \/ CheckSchema \/ BackUp \/ Displace \/ PutInPlace \/ Restart
             \/ Verify \/ StopUpdate
    PROVE  Saved'
<1> USE SelfUpdateAssumption DEF Saved
<1>t. Schema \in [Releases -> Nat] /\ NoBinary \notin Releases /\ "memgardend" \in Names
  BY DEF Names
<1>1. CASE BeginUpdate
  <2>1. \/ updating' = Resting
        \/ \E r \in Releases : updating' = [pc |-> "schema", tag |-> r, left |-> Binaries]
    <3>1. PICK r \in Releases :
             IF r = bin["memgarden"] THEN Ends("already up to date")
             ELSE updating' = [pc |-> "schema", tag |-> r, left |-> Binaries] /\ UNCHANGED exits
      BY <1>1, Zenon DEF BeginUpdate
    <3>2. CASE r = bin["memgarden"]
      BY <3>1, <3>2, Zenon DEF Ends
    <3>3. CASE r # bin["memgarden"]
      BY <3>1, <3>3, Zenon
    <3> QED BY <3>2, <3>3
  <2>2. UNCHANGED << bin, schema, served, service, taken, blind, outrun >>
    BY <1>1, Zenon DEF BeginUpdate
  <2>3. UpdateTyped'
    BY <2>1, <2>2 DEF UpdateTyped, Phases
  <2>4. ~(updating'.pc \in {"displace", "place"})
    BY <2>1 DEF Resting
  <2> QED BY <2>2, <2>3, <2>4 DEF NothingNewerUnsaved, Safe, Raises
<1>2. CASE CheckSchema
  <2>1. updating \in [pc : Phases, tag : Releases, left : {Binaries, << "memgarden" >>}]
    BY <1>2 DEF CheckSchema, At, UpdateTyped, Resting
  <2>2. /\ UNCHANGED << bin, schema, served, service, taken, outrun >>
        /\ \/ updating' = Resting /\ blind' = blind
           \/ updating' = [updating EXCEPT !.pc = "backup"] /\ blind' = blind
           \/ /\ updating' = [updating EXCEPT !.pc = "displace"] /\ blind' = blind
              /\ ~Raises(updating.tag)
           \/ updating' = [updating EXCEPT !.pc = "displace"] /\ blind' = TRUE
    BY <1>2 DEF CheckSchema, Goes, Ends, AfterSchema, Raises
  <2>3. UpdateTyped'
    BY <2>1, <2>2 DEF UpdateTyped, Phases
  <2>4. Safe => Safe'
    BY <2>2 DEF Safe
  <2>5. updating'.pc \in {"displace", "place"} /\ Raises(updating.tag) => Safe'
    BY <2>1, <2>2 DEF Resting, Safe
  <2>6. updating'.pc \in {"displace", "place"} => updating'.tag = updating.tag
    BY <2>1, <2>2 DEF Resting
  <2> QED BY <2>2, <2>3, <2>4, <2>5, <2>6 DEF NothingNewerUnsaved, Raises
<1>3. CASE BackUp
  <2>1. updating \in [pc : Phases, tag : Releases, left : {Binaries, << "memgarden" >>}]
    BY <1>3 DEF BackUp, At, UpdateTyped, Resting
  <2>2. /\ UNCHANGED << bin, schema, served, service, blind, outrun >>
        /\ updating' = [updating EXCEPT !.pc = "displace"] /\ taken' = taken \cup {schema}
    BY <1>3 DEF BackUp, Goes
  <2>3. UpdateTyped'
    BY <2>1, <2>2 DEF UpdateTyped, Phases
  <2>4. Safe'
    BY <2>2 DEF NothingNewerUnsaved, Safe
  <2> QED BY <2>3, <2>4 DEF NothingNewerUnsaved
<1>4. CASE Displace
  <2>1. updating \in [pc : Phases, tag : Releases, left : {Binaries, << "memgarden" >>}]
    BY <1>4 DEF Displace, At, UpdateTyped, Resting
  <2>2. /\ UNCHANGED << schema, served, service, taken, blind, outrun >>
        /\ updating' = [updating EXCEPT !.pc = "place"] /\ updating.pc = "displace"
        /\ bin' = bin \/ bin' = [bin EXCEPT ![Binary] = NoBinary]
    BY <1>4 DEF Displace, At, Goes
  <2>3. UpdateTyped'
    BY <2>1, <2>2 DEF UpdateTyped, Phases
  <2>4. bin'["memgardend"] \in {bin["memgardend"], NoBinary}
    BY <2>2, <1>t DEF UpdateTyped
  <2>5. updating'.pc = "place" /\ updating'.tag = updating.tag
    BY <2>1, <2>2
  <2> QED BY <2>2, <2>3, <2>4, <2>5 DEF NothingNewerUnsaved, Safe, Raises
<1>5. CASE PutInPlace
  <2>1. updating \in [pc : Phases, tag : Releases, left : {Binaries, << "memgarden" >>}]
    BY <1>5 DEF PutInPlace, At, UpdateTyped, Resting
  <2>2. /\ UNCHANGED << schema, served, service, taken, blind, outrun >>
        /\ bin' = [bin EXCEPT ![Binary] = updating.tag] /\ updating.pc = "place"
        /\ \/ updating' = [updating EXCEPT !.pc = "restart"]
           \/ updating' = [updating EXCEPT !.pc = "displace", !.left = << "memgarden" >>]
    BY <1>5 DEF PutInPlace, At
  <2>3. UpdateTyped'
    BY <2>1, <2>2 DEF UpdateTyped, Phases
  <2>4. bin'["memgardend"] \in {bin["memgardend"], updating.tag}
    BY <2>2, <1>t DEF UpdateTyped
  <2>5. updating'.tag = updating.tag
    BY <2>1, <2>2
  <2> QED BY <2>2, <2>3, <2>4, <2>5 DEF NothingNewerUnsaved, Safe, Raises
<1>6. CASE Restart
  <2>t. updating \in [pc : Phases, tag : Releases, left : {Binaries, << "memgarden" >>}]
    <3>1. At("restart")
      BY <1>6 DEF Restart
    <3> QED BY <3>1 DEF At, UpdateTyped, Resting
  <2>0. UNCHANGED << bin, schema, served, taken, blind, outrun >>
    BY <1>6 DEF Restart
  <2>1. CASE service' = Down /\ Goes("verify")
    <3>1. updating' = [updating EXCEPT !.pc = "verify"]
      BY <2>1 DEF Goes
    <3>2. UpdateTyped'
      BY <2>t, <2>0, <2>1, <3>1 DEF UpdateTyped, Phases
    <3>3. updating'.pc = "verify" /\ service'.pc = "down"
      BY <2>t, <2>1, <3>1 DEF Down
    <3> QED BY <2>0, <3>2, <3>3 DEF NothingNewerUnsaved, Safe, Raises
  <2>2. CASE Ends("not under systemd") /\ UNCHANGED service
    <3>1. updating' = Resting
      BY <2>2 DEF Ends
    <3>2. UpdateTyped'
      BY <2>0, <2>2, <3>1 DEF UpdateTyped
    <3> QED BY <2>0, <2>2, <3>1, <3>2 DEF NothingNewerUnsaved, Safe, Raises, Resting
  <2> QED BY <1>6, <2>1, <2>2 DEF Restart
<1>7. CASE Verify \/ StopUpdate
  <2>1. UNCHANGED << bin, schema, served, service, taken, blind, outrun >> /\ updating' = Resting
    <3>1. CASE Verify
      BY <3>1, Zenon DEF Verify, Ends
    <3>2. CASE StopUpdate
      BY <3>2, Zenon DEF StopUpdate, Ends
    <3> QED BY <1>7, <3>1, <3>2
  <2>2. updating'.pc = "none"
    BY <2>1 DEF Resting
  <2> QED BY <2>1, <2>2 DEF UpdateTyped, NothingNewerUnsaved, Safe, Raises
<1> QED BY <1>1, <1>2, <1>3, <1>4, <1>5, <1>6, <1>7

\* The notice has no part in it.
LEMMA NoticeSaves ==
    ASSUME Saved,
           CheckBegins \/ CheckEnds \/ Notify \/ Snooze \/ NextDay \/ UNCHANGED updateVars
    PROVE  Saved'
<1>1. UNCHANGED install
  BY DEF CheckBegins, CheckEnds, Notify, Snooze, NextDay, Elsewhere, updateVars
<1> QED BY <1>1 DEF install, Saved, UpdateTyped, NothingNewerUnsaved, Safe, Raises

\* Nothing newer than the database comes near it without a way back.
THEOREM UpdatesAreSaved == SelfUpdateSpec => []Saved
<1>1. Saved /\ [SelfUpdateNext]_updateVars => Saved'
  BY DaemonSaves, UpdateSaves, NoticeSaves DEF SelfUpdateNext
<1> QED BY <1>1, SavedAtFirst, PTL DEF SelfUpdateSpec

\* The database leaves the schema it was served with only behind a backup of
\* that schema (self_update.rs, before the binaries are exchanged), unless the
\* daemon did not answer or was restarted between backup and exchange.
THEOREM MigratesBehindBackup == SelfUpdateSpec => []MigratedBehindBackup
<1>1. Saved => MigratedBehindBackup
  BY DEF Saved, NothingNewerUnsaved, Safe, MigratedBehindBackup
<1> QED BY <1>1, UpdatesAreSaved, PTL

-----------------------------------------------------------------------------

(***************************************************************************)
(* BankRows: documents, jobs and facts agree however banks are deleted     *)
(* under them.  What is carried along: each job is in one place, the rows  *)
(* that its task knows are its own or were given again under it, and a run *)
(* that has not failed has the facts of every chunk behind it.             *)
(***************************************************************************)

Asked == [pc : {"upsert"}, job : Nat, bank : Bank, key : Key, content : Content]
Tasks(pcs) == [pc : pcs, job : Nat, bank : Bank, content : Content, row : Nat]
Runs == [pc : {"run", "end"}, job : Nat, bank : Bank, content : Content, row : Nat,
         at : Nat \ {0}, failed : BOOLEAN]

Statuses == {"pending", "running", "done", "partial", "failed"}

RowsTyped ==
    /\ posts \in Nat /\ banks \subseteq Bank
    /\ \A r \in DOMAIN documents :
          documents[r] \in [bank : Bank, key : Key, hash : Content \cup {NoHash}]
    /\ \A j \in DOMAIN jobs : jobs[j] \in [bank : Bank, content : Content, status : Statuses]
    /\ facts \subseteq [job : Nat, content : Content, chunk : Nat, bank : Bank, doc : Nat]
    /\ \E n \in Nat : DOMAIN documents \subseteq 1 .. n
    /\ handler \in [Client -> {Idle} \cup Asked \cup Tasks({"insert", "send"})]
    /\ queue \in Seq(Tasks({"run"}))
    /\ worker \in {Idle} \cup Runs
    /\ worker.pc = "end" => ~worker.failed /\ worker.at > Len(ChunksOf[worker.content])

\* A job is in one place: a handler's, in the queue, or the worker's.
OnePlace ==
    /\ \A h \in Client : handler[h].pc # "idle" =>
          /\ handler[h].job <= posts
          /\ \A g \in Client \ {h} : handler[g].pc # "idle" => handler[g].job # handler[h].job
          /\ \A i \in DOMAIN queue : queue[i].job # handler[h].job
          /\ worker.pc # "idle" => worker.job # handler[h].job
    /\ \A i \in DOMAIN queue :
          /\ queue[i].job <= posts
          /\ \A k \in DOMAIN queue \ {i} : queue[k].job # queue[i].job
          /\ worker.pc # "idle" => worker.job # queue[i].job
    /\ worker.pc # "idle" => worker.job <= posts

\* A row that a task knows is its own: the job's, and the document's but for a
\* rowid that was given again under it.
JobIsIts(t) == t.job \in DOMAIN jobs => jobs[t.job].bank = t.bank /\ jobs[t.job].content = t.content
RowIsIts(t) == t.row \in DOMAIN documents \ haunted => documents[t.row].bank = t.bank

RowsAreTheirs ==
    /\ \A h \in Client :
          /\ handler[h].pc \in {"insert", "send"} => RowIsIts(handler[h])
          /\ handler[h].pc = "send" => JobIsIts(handler[h])
    /\ \A i \in DOMAIN queue : RowIsIts(queue[i]) /\ JobIsIts(queue[i])
    /\ worker.pc # "idle" => RowIsIts(worker) /\ JobIsIts(worker)

\* The facts of every chunk behind the worker are where its rows, as far as
\* they are still there, will say.
FactOfRun(f, i) ==
    /\ f.job = worker.job /\ f.content = worker.content /\ f.chunk = i /\ f.bank = worker.bank

ChunksBehind ==
    worker.pc # "idle" /\ ~worker.failed =>
       \A i \in DOMAIN ChunksOf[worker.content] :
          i < worker.at /\ ChunksOf[worker.content][i] =>
             /\ worker.job \in DOMAIN jobs => \E f \in facts : FactOfRun(f, i)
             /\ worker.row \in DOMAIN documents \ haunted =>
                   \E f \in facts : FactOfRun(f, i) /\ f.doc = worker.row

Held == RowsTyped /\ OnePlace /\ RowsAreTheirs /\ ChunksBehind
Rows == Held /\ RowsAgree

-----------------------------------------------------------------------------

\* What is stored stays stored when each fact of it is kept, whatever else is
\* changed in it.
LEMMA StoredStays ==
    ASSUME NEW c, NEW some, NEW more, Stored(c, some),
           \A f \in some : \E g \in more :
              g.job = f.job /\ g.content = f.content /\ g.chunk = f.chunk
    PROVE  Stored(c, more)
<1>1. PICK j \in {f.job : f \in some} \cup {0} :
          \A i \in DOMAIN ChunksOf[c] :
             ChunksOf[c][i] => \E f \in some : f.job = j /\ f.content = c /\ f.chunk = i
      BY DEF Stored
<1>2. j \in {f.job : f \in more} \cup {0}
      OBVIOUS
<1>3. \A i \in DOMAIN ChunksOf[c] :
         ChunksOf[c][i] => \E f \in more : f.job = j /\ f.content = c /\ f.chunk = i
      BY <1>1
<1> QED BY <1>2, <1>3 DEF Stored

\* The facts of one job are what is stored.
OfJob(c, some, j) ==
    \A i \in DOMAIN ChunksOf[c] :
       ChunksOf[c][i] => \E f \in some : f.job = j /\ f.content = c /\ f.chunk = i

LEMMA StoredByJob ==
    ASSUME NEW c, NEW some, NEW j, OfJob(c, some, j)
    PROVE  Stored(c, some)
<1> USE DEF OfJob
<1>1. CASE \E f \in some : f.job = j
      BY <1>1 DEF Stored
<1>2. CASE ~ \E f \in some : f.job = j
  <2>1. \A i \in DOMAIN ChunksOf[c] : ~ChunksOf[c][i]
        BY <1>2
  <2> QED BY <2>1 DEF Stored
<1> QED BY <1>1, <1>2

\* A new rowid is the rowid of no document.
LEMMA NextRowIsFree ==
    ASSUME RowsTyped
    PROVE  /\ NextRow \in Nat \ {0} /\ NextRow \notin DOMAIN documents
           /\ \E n \in Nat : DOMAIN documents \cup {NextRow} \subseteq 1 .. n
<1> DEFINE K == DOMAIN documents \cup {0}
<1>1. PICK n \in Nat : DOMAIN documents \subseteq 1 .. n
      BY DEF RowsTyped
<1>2. K \in SUBSET Nat /\ K # {} /\ \A x \in K : x <= n
      BY <1>1
<1>3. Max(K) \in K /\ \A x \in K : x <= Max(K)
      BY <1>1, <1>2, MaxIsGreatest
<1>4. NextRow = 1 + Max(K)
      BY DEF NextRow
<1>a. Max(K) \in Nat /\ \A x \in DOMAIN documents : x <= Max(K) /\ x \in Nat
      BY <1>2, <1>3
<1> HIDE DEF K
<1>5. NextRow \in Nat \ {0} /\ NextRow \notin DOMAIN documents
      BY <1>a, <1>4
<1>6. DOMAIN documents \cup {NextRow} \subseteq 1 .. n + NextRow
      BY <1>1, <1>5
<1> QED BY <1>1, <1>5, <1>6

LEMMA QueuedTyped ==
    ASSUME RowsTyped
    PROVE  \A i \in DOMAIN queue : queue[i] \in Tasks({"run"})
<1>1. queue \in Seq(Tasks({"run"}))
      BY DEF RowsTyped
<1> QED BY <1>1, ElementOfSeq, LenProperties

LEMMA RowsAtFirst == BankRowsInit => Rows
<1> SUFFICES ASSUME BankRowsInit PROVE Rows
      OBVIOUS
<1> USE DEF BankRowsInit
<1>1. RowsTyped
  <2>1. DOMAIN documents \subseteq 1 .. 0
        OBVIOUS
  <2> QED BY <2>1, BankRowsAssumption DEF RowsTyped, Idle
<1>2. OnePlace /\ RowsAreTheirs /\ ChunksBehind
      BY DEF OnePlace, RowsAreTheirs, ChunksBehind, Idle
<1>3. RowsAgree
      BY DEF RowsAgree, HashIsEarned, DoneIsThere, FactsBelong
<1> QED BY <1>1, <1>2, <1>3 DEF Rows, Held

LEMMA RowsStutter ==
    ASSUME Rows, UNCHANGED rowVars
    PROVE  Rows'
<1> USE DEF rowVars
<1>1. RowsTyped' /\ OnePlace'
      BY DEF Rows, Held, RowsTyped, OnePlace
<1>2. RowsAreTheirs' /\ ChunksBehind'
      BY DEF Rows, Held, RowsAreTheirs, RowIsIts, JobIsIts, ChunksBehind, FactOfRun
<1>3. RowsAgree'
      BY DEF Rows, RowsAgree, HashIsEarned, DoneIsThere, FactsBelong, Stored
<1> QED BY <1>1, <1>2, <1>3 DEF Rows, Held

LEMMA CreateKeepsRows ==
    ASSUME Rows, NEW b \in Bank, CreateBank(b)
    PROVE  Rows'
<1> USE DEF CreateBank
<1>1. RowsTyped' /\ OnePlace'
      BY DEF Rows, Held, RowsTyped, OnePlace
<1>2. RowsAreTheirs' /\ ChunksBehind'
      BY DEF Rows, Held, RowsAreTheirs, RowIsIts, JobIsIts, ChunksBehind, FactOfRun
<1>3. RowsAgree'
      BY DEF Rows, RowsAgree, HashIsEarned, DoneIsThere, FactsBelong, Stored
<1> QED BY <1>1, <1>2, <1>3 DEF Rows, Held

\* What goes with a bank is all of one bank: what is left agrees as before.
LEMMA DeleteKeepsRows ==
    ASSUME Rows, NEW b \in Bank, Delete(b)
    PROVE  Rows'
<1> USE DEF Rows, Held
<1>1. /\ banks' = banks \ {b} /\ posts' = posts /\ haunted' = haunted
      /\ handler' = handler /\ queue' = queue /\ worker' = worker
      BY DEF Delete
<1>2. /\ DOMAIN documents' = {q \in DOMAIN documents : documents[q].bank # b}
      /\ \A r \in DOMAIN documents' : documents'[r] = documents[r]
      BY DEF Delete
<1>3. /\ DOMAIN jobs' = {k \in DOMAIN jobs : jobs[k].bank # b}
      /\ \A j \in DOMAIN jobs' : jobs'[j] = jobs[j]
      BY DEF Delete, JobsWithout
<1> DEFINE Kept(f, g) ==
             /\ g.job = f.job /\ g.content = f.content /\ g.chunk = f.chunk /\ g.bank = f.bank
             /\ g.doc = IF f.doc \in DOMAIN documents' THEN f.doc ELSE NoDocument
           News == [job : Nat, content : Content, chunk : Nat, bank : Bank, doc : Nat]
<1>4. /\ \A f \in facts : f.bank # b => \E g \in facts' : Kept(f, g)
      /\ \A g \in facts' : g \in News /\ \E f \in facts : f.bank # b /\ Kept(f, g)
  <2> DEFINE Cut(f) == [f EXCEPT !.doc = IF @ \in DOMAIN documents' THEN @ ELSE NoDocument]
  <2>1. facts' = {Cut(f) : f \in {g \in facts : g.bank # b}}
        BY DEF Delete
  <2>2. ASSUME NEW f \in facts
        PROVE  Cut(f) \in News /\ Kept(f, Cut(f))
        BY DEF RowsTyped, NoDocument
  <2> HIDE DEF Cut, Kept, News
  <2> QED BY <2>1, <2>2
<1>5. RowsTyped'
  <2>1. \E n \in Nat : DOMAIN documents' \subseteq 1 .. n
        BY <1>2 DEF RowsTyped
  <2>2. facts' \subseteq News
        BY <1>4
  <2>3. \A r \in DOMAIN documents' :
           documents'[r] \in [bank : Bank, key : Key, hash : Content \cup {NoHash}]
        BY <1>2 DEF RowsTyped
  <2>4. \A j \in DOMAIN jobs' : jobs'[j] \in [bank : Bank, content : Content, status : Statuses]
        BY <1>3 DEF RowsTyped
  <2> QED BY <1>1, <2>1, <2>2, <2>3, <2>4 DEF RowsTyped
<1>6. OnePlace'
      BY <1>1 DEF OnePlace
<1>7. RowsAreTheirs'
      BY <1>1, <1>2, <1>3 DEF RowsAreTheirs, RowIsIts, JobIsIts
<1> HIDE DEF News
<1>8. ChunksBehind'
  <2> SUFFICES ASSUME worker.pc # "idle", ~worker.failed,
                      NEW i \in DOMAIN ChunksOf[worker.content],
                      i < worker.at, ChunksOf[worker.content][i]
               PROVE  /\ worker.job \in DOMAIN jobs' => \E f \in facts' : FactOfRun(f, i)
                      /\ worker.row \in DOMAIN documents' \ haunted =>
                            \E f \in facts' : FactOfRun(f, i) /\ f.doc = worker.row
        BY <1>1 DEF ChunksBehind, FactOfRun
  <2>1. ASSUME worker.job \in DOMAIN jobs'
        PROVE  \E f \in facts' : FactOfRun(f, i)
    <3>1. worker.bank # b /\ worker.job \in DOMAIN jobs
          BY <1>3, <2>1 DEF RowsAreTheirs, JobIsIts
    <3>2. PICK f \in facts : FactOfRun(f, i)
          BY <3>1 DEF ChunksBehind
    <3>3. f.bank # b
          BY <3>1, <3>2 DEF FactOfRun
    <3> QED BY <1>4, <3>2, <3>3 DEF FactOfRun
  <2>2. ASSUME worker.row \in DOMAIN documents' \ haunted
        PROVE  \E f \in facts' : FactOfRun(f, i) /\ f.doc = worker.row
    <3>1. worker.bank # b /\ worker.row \in DOMAIN documents \ haunted
          BY <1>2, <2>2 DEF RowsAreTheirs, RowIsIts
    <3>2. PICK f \in facts : FactOfRun(f, i) /\ f.doc = worker.row
          BY <3>1 DEF ChunksBehind
    <3>3. f.bank # b
          BY <3>1, <3>2 DEF FactOfRun
    <3> QED BY <1>4, <2>2, <3>2, <3>3 DEF FactOfRun
  <2> QED BY <2>1, <2>2
<1>9. HashIsEarned'
  <2> SUFFICES ASSUME NEW r \in DOMAIN documents' \ haunted', documents'[r].hash # NoHash
               PROVE  Stored(documents'[r].hash,
                             {f \in facts' : f.bank = documents'[r].bank /\ f.doc = r})
        BY DEF HashIsEarned
  <2>1. /\ r \in DOMAIN documents \ haunted /\ documents'[r] = documents[r]
        /\ documents[r].bank # b
        BY <1>1, <1>2
  <2> DEFINE some == {f \in facts : f.bank = documents[r].bank /\ f.doc = r}
             more == {f \in facts' : f.bank = documents[r].bank /\ f.doc = r}
  <2>2. Stored(documents[r].hash, some)
        BY <2>1 DEF RowsAgree, HashIsEarned
  <2>3. \A f \in some : \E g \in more :
           g.job = f.job /\ g.content = f.content /\ g.chunk = f.chunk
        BY <1>4, <2>1
  <2> HIDE DEF some, more
  <2>4. Stored(documents[r].hash, more)
        BY <2>2, <2>3, StoredStays
  <2> QED BY <2>1, <2>4 DEF more
<1>10. DoneIsThere'
  <2> SUFFICES ASSUME NEW j \in DOMAIN jobs', jobs'[j].status = "done"
               PROVE  Stored(jobs'[j].content,
                             {f \in facts' : f.job = j /\ f.bank = jobs'[j].bank})
        BY DEF DoneIsThere
  <2>1. j \in DOMAIN jobs /\ jobs'[j] = jobs[j] /\ jobs[j].bank # b
        BY <1>3
  <2> DEFINE some == {f \in facts : f.job = j /\ f.bank = jobs[j].bank}
             more == {f \in facts' : f.job = j /\ f.bank = jobs[j].bank}
  <2>2. Stored(jobs[j].content, some)
        BY <2>1 DEF RowsAgree, DoneIsThere
  <2>3. \A f \in some : \E g \in more :
           g.job = f.job /\ g.content = f.content /\ g.chunk = f.chunk
        BY <1>4, <2>1
  <2> HIDE DEF some, more
  <2>4. Stored(jobs[j].content, more)
        BY <2>2, <2>3, StoredStays
  <2> QED BY <2>1, <2>4 DEF more
<1>11. FactsBelong'
      BY <1>1, <1>2, <1>4 DEF RowsAgree, FactsBelong
<1> QED BY <1>5, <1>6, <1>7, <1>8, <1>9, <1>10, <1>11 DEF RowsAgree

\* A request takes the next job number, which is nowhere yet.
LEMMA PostKeepsRows ==
    ASSUME Rows, NEW h \in Client, NEW b \in Bank, NEW k \in Key, NEW c \in Content,
           Post(h, b, k, c)
    PROVE  Rows'
<1> USE DEF Rows, Held
<1>1. /\ posts' = posts + 1 /\ posts \in Nat /\ handler[h] = Idle
      /\ handler' = [handler EXCEPT ![h] =
                       [pc |-> "upsert", job |-> posts', bank |-> b, key |-> k, content |-> c]]
      /\ UNCHANGED << banks, documents, jobs, facts, queue, worker, haunted >>
      BY DEF Post, RowsTyped
<1>2. /\ handler'[h] = [pc |-> "upsert", job |-> posts + 1, bank |-> b, key |-> k, content |-> c]
      /\ \A g \in Client \ {h} : handler'[g] = handler[g]
      BY <1>1 DEF RowsTyped
<1>3. RowsTyped'
  <2>1. [pc |-> "upsert", job |-> posts + 1, bank |-> b, key |-> k, content |-> c] \in Asked
        BY <1>1 DEF Asked
  <2>2. handler' \in [Client -> {Idle} \cup Asked \cup Tasks({"insert", "send"})]
        BY <1>1, <2>1 DEF RowsTyped
  <2> QED BY <1>1, <2>2 DEF RowsTyped
<1>4. OnePlace'
  <2>1. \A g \in Client \ {h} : handler[g].pc # "idle" => handler[g].job # posts + 1
        BY <1>1 DEF OnePlace
  <2>2. \A i \in DOMAIN queue : queue[i].job # posts + 1
        BY <1>1 DEF OnePlace
  <2>3. worker.pc # "idle" => worker.job # posts + 1
        BY <1>1 DEF OnePlace
  <2>4. \A g \in Client : handler'[g].pc # "idle" =>
          /\ handler'[g].job <= posts + 1
          /\ \A f \in Client \ {g} : handler'[f].pc # "idle" => handler'[f].job # handler'[g].job
          /\ \A i \in DOMAIN queue : queue[i].job # handler'[g].job
          /\ worker.pc # "idle" => worker.job # handler'[g].job
    <3> TAKE g \in Client
    <3>1. CASE g = h
          BY <1>1, <1>2, <2>1, <2>2, <2>3, <3>1
    <3>2. CASE g # h
      <4> SUFFICES ASSUME handler[g].pc # "idle"
                   PROVE  /\ handler[g].job <= posts + 1 /\ handler[g].job # posts + 1
                          /\ \A f \in Client \ {g, h} :
                                handler[f].pc # "idle" => handler[f].job # handler[g].job
                          /\ \A i \in DOMAIN queue : queue[i].job # handler[g].job
                          /\ worker.pc # "idle" => worker.job # handler[g].job
            BY <1>2, <3>2
      <4>1. handler[g].job \in Nat
            BY DEF RowsTyped, Asked, Tasks, Idle
      <4> QED BY <1>1, <4>1, <3>2, <2>1 DEF OnePlace
    <3> QED BY <3>1, <3>2
  <2>5. /\ \A i \in DOMAIN queue : queue[i].job \in Nat
        /\ worker.pc # "idle" => worker.job \in Nat
    <3>1. \A i \in DOMAIN queue : queue[i].job \in Nat
          BY QueuedTyped DEF Tasks
    <3>2. worker.pc # "idle" => worker.job \in Nat
          BY DEF RowsTyped, Runs, Idle
    <3> QED BY <3>1, <3>2
  <2> QED BY <1>1, <2>4, <2>5 DEF OnePlace
<1>5. RowsAreTheirs'
      BY <1>1, <1>2 DEF RowsAreTheirs, RowIsIts, JobIsIts
<1>6. ChunksBehind'
      BY <1>1 DEF ChunksBehind, FactOfRun
<1>7. RowsAgree'
      BY <1>1 DEF RowsAgree, HashIsEarned, DoneIsThere, FactsBelong, Stored
<1> QED BY <1>3, <1>4, <1>5, <1>6, <1>7

\* A handler that goes on with its job, or gives it up, leaves every job in
\* one place.
LEMMA HandlerGoesOn ==
    ASSUME OnePlace, NEW h \in Client, handler \in [Client -> {handler[g] : g \in Client}],
           handler[h].pc # "idle",
           UNCHANGED << queue, worker, posts >>,
           NEW next, handler' = [handler EXCEPT ![h] = next],
           next.pc # "idle" => next.job = handler[h].job
    PROVE  OnePlace'
<1>1. /\ handler'[h] = next
      /\ \A g \in Client \ {h} : handler'[g] = handler[g]
      OBVIOUS
<1>2. \A g \in Client : handler'[g].pc # "idle" =>
         handler[g].pc # "idle" /\ handler'[g].job = handler[g].job
      BY <1>1
<1> HIDE DEF OnePlace
<1> QED BY <1>2 DEF OnePlace

LEMMA UpsertKeepsRows ==
    ASSUME Rows, NEW h \in Client, Upsert(h)
    PROVE  Rows'
<1> USE DEF Rows, Held
<1>1. /\ handler[h] \in Asked /\ handler[h].pc = "upsert"
      /\ UNCHANGED << banks, jobs, facts, queue, worker, posts >>
      BY DEF Upsert, RowsTyped, Asked, Tasks, Idle
<1> DEFINE b == handler[h].bank
           same == {r \in DOMAIN documents :
                      documents[r].bank = b /\ documents[r].key = handler[h].key}
           Going(row) == [pc |-> "insert", job |-> handler[h].job, bank |-> b,
                         content |-> handler[h].content, row |-> row]
<1>2. /\ \A row : Holds(h, row) <=> handler' = [handler EXCEPT ![h] = Going(row)]
      /\ Replied(h) <=> handler' = [handler EXCEPT ![h] = Idle]
      /\ handler \in [Client -> {handler[g] : g \in Client}]
      BY DEF Holds, Replied, RowsTyped
<1>3. \A row \in Nat : Going(row) \in Tasks({"insert", "send"})
      BY <1>1 DEF Asked, Tasks
<1>4. CASE UNCHANGED << documents, haunted >> /\ Replied(h)
  <2>1. /\ handler'[h] = Idle /\ \A g \in Client \ {h} : handler'[g] = handler[g]
        /\ handler' = [handler EXCEPT ![h] = Idle]
        BY <1>2, <1>4
  <2>2. RowsTyped'
        BY <1>1, <1>4, <2>1 DEF RowsTyped
  <2>3. OnePlace'
        BY <1>1, <1>2, <2>1, HandlerGoesOn DEF Idle
  <2>4. RowsAreTheirs'
        BY <1>1, <1>4, <2>1 DEF RowsAreTheirs, RowIsIts, JobIsIts, Idle
  <2>5. ChunksBehind'
        BY <1>1, <1>4 DEF ChunksBehind, FactOfRun
  <2>6. RowsAgree'
        BY <1>1, <1>4 DEF RowsAgree, HashIsEarned, DoneIsThere, FactsBelong, Stored
  <2> QED BY <2>2, <2>3, <2>4, <2>5, <2>6
<1>5. ASSUME NEW r \in same, Holds(h, r), UNCHANGED haunted,
             documents' = [documents EXCEPT ![r].hash = NoHash]
      PROVE  Rows'
  <2>1. /\ handler' = [handler EXCEPT ![h] = Going(r)] /\ handler'[h] = Going(r)
        /\ \A g \in Client \ {h} : handler'[g] = handler[g]
        BY <1>2, <1>5
  <2>2. /\ DOMAIN documents' = DOMAIN documents
        /\ \A q \in DOMAIN documents :
              /\ documents'[q].bank = documents[q].bank
              /\ documents'[q] \in [bank : Bank, key : Key, hash : Content \cup {NoHash}]
              /\ documents'[q].hash # NoHash => documents'[q] = documents[q]
        BY <1>5 DEF RowsTyped
  <2>3. r \in DOMAIN documents /\ documents[r].bank = b /\ r \in Nat
        BY DEF RowsTyped
  <2> HIDE DEF b, same
  <2>4. RowsTyped'
    <3>1. handler' \in [Client -> {Idle} \cup Asked \cup Tasks({"insert", "send"})]
          BY <1>3, <2>1, <2>3 DEF RowsTyped
    <3> QED BY <1>1, <2>2, <3>1 DEF RowsTyped
  <2>5. OnePlace'
        BY <1>1, <1>2, <2>1, HandlerGoesOn
  <2>6. RowsAreTheirs'
        BY <1>1, <1>5, <2>1, <2>2, <2>3 DEF RowsAreTheirs, RowIsIts, JobIsIts
  <2>7. ChunksBehind'
        BY <1>1, <1>5, <2>2 DEF ChunksBehind, FactOfRun
  <2>8. HashIsEarned'
    <3> SUFFICES ASSUME NEW q \in DOMAIN documents \ haunted, documents'[q].hash # NoHash
                 PROVE  Stored(documents[q].hash,
                               {f \in facts : f.bank = documents[q].bank /\ f.doc = q})
          BY <1>1, <1>5, <2>2 DEF HashIsEarned, Stored
    <3> QED BY <2>2 DEF RowsAgree, HashIsEarned
  <2>9. DoneIsThere' /\ FactsBelong'
        BY <1>1, <1>5, <2>2 DEF RowsAgree, DoneIsThere, FactsBelong, Stored
  <2> QED BY <2>4, <2>5, <2>6, <2>7, <2>8, <2>9 DEF RowsAgree
<1>6. ASSUME b \in banks, Holds(h, NextRow),
             documents' = [r \in DOMAIN documents \cup {NextRow} |->
                            IF r = NextRow
                            THEN [bank |-> b, key |-> handler[h].key, hash |-> NoHash]
                            ELSE documents[r]],
             haunted' = IF Holding(NextRow) THEN haunted \cup {NextRow} ELSE haunted \ {NextRow}
      PROVE  Rows'
  <2>1. PICK row : row = NextRow
        OBVIOUS
  <2>2. /\ row \in Nat \ {0} /\ row \notin DOMAIN documents
        /\ \E n \in Nat : DOMAIN documents \cup {row} \subseteq 1 .. n
        BY <2>1, NextRowIsFree
  <2>3. /\ handler' = [handler EXCEPT ![h] = Going(row)] /\ handler'[h] = Going(row)
        /\ \A g \in Client \ {h} : handler'[g] = handler[g]
        BY <1>2, <1>6, <2>1
  <2>4. /\ DOMAIN documents' = DOMAIN documents \cup {row}
        /\ documents'[row] = [bank |-> b, key |-> handler[h].key, hash |-> NoHash]
        /\ \A r \in DOMAIN documents : documents'[r] = documents[r]
        BY <1>6, <2>1, <2>2
  <2>5. /\ \A r \in DOMAIN documents : r \in haunted' <=> r \in haunted
        /\ Holding(row) => row \in haunted'
        BY <1>6, <2>1, <2>2
  <2>6. documents'[row] \in [bank : Bank, key : Key, hash : Content \cup {NoHash}]
        BY <1>1, <2>4 DEF Asked
  <2>7. RowsTyped'
    <3>1. handler' \in [Client -> {Idle} \cup Asked \cup Tasks({"insert", "send"})]
          BY <1>3, <2>2, <2>3 DEF RowsTyped
    <3>2. \A r \in DOMAIN documents' :
             documents'[r] \in [bank : Bank, key : Key, hash : Content \cup {NoHash}]
          BY <2>4, <2>6 DEF RowsTyped
    <3> HIDE DEF b, Going
    <3> QED BY <1>1, <2>2, <2>4, <3>1, <3>2 DEF RowsTyped
  <2>8. OnePlace'
        BY <1>1, <1>2, <2>3, HandlerGoesOn
  <2>9. RowsAreTheirs'
    <3>1. \A t : RowIsIts(t) /\ (t.row = row => Holding(row)) =>
             (t.row \in DOMAIN documents' \ haunted' => documents'[t.row].bank = t.bank)
          BY <2>4, <2>5 DEF RowIsIts
    <3>2. ASSUME NEW g \in Client \ {h}
          PROVE  /\ handler[g].pc \in {"insert", "send"} =>
                      (handler[g].row \in DOMAIN documents' \ haunted'
                         => documents'[handler[g].row].bank = handler[g].bank)
                 /\ handler[g].pc = "send" => JobIsIts(handler[g])
          BY <3>1 DEF RowsAreTheirs, Holding
    <3>3. \A i \in DOMAIN queue :
             /\ queue[i].row \in DOMAIN documents' \ haunted'
                   => documents'[queue[i].row].bank = queue[i].bank
             /\ JobIsIts(queue[i])
          BY <3>1 DEF RowsAreTheirs, Holding
    <3>4. worker.pc # "idle" =>
             /\ worker.row \in DOMAIN documents' \ haunted'
                   => documents'[worker.row].bank = worker.bank
             /\ JobIsIts(worker)
          BY <3>1 DEF RowsAreTheirs, Holding
    <3>5. \A t : JobIsIts(t) => JobIsIts(t)'
          BY <1>1 DEF JobIsIts
    <3>6. /\ Going(row).row = row /\ Going(row).bank = documents'[row].bank
          /\ Going(row).pc = "insert"
          BY <2>4
    <3> HIDE DEF b, Going
    <3>7. \A g \in Client :
             /\ handler'[g].pc \in {"insert", "send"} => RowIsIts(handler[g])'
             /\ handler'[g].pc = "send" => JobIsIts(handler[g])'
          BY <1>1, <2>3, <3>2, <3>6 DEF RowIsIts, JobIsIts
    <3>8. /\ \A i \in DOMAIN queue' : RowIsIts(queue[i])' /\ JobIsIts(queue[i])'
          /\ worker'.pc # "idle" => RowIsIts(worker)' /\ JobIsIts(worker)'
          BY <1>1, <3>3, <3>4 DEF RowIsIts, JobIsIts
    <3> QED BY <3>7, <3>8 DEF RowsAreTheirs
  <2>10. ChunksBehind'
    <3>1. worker.pc # "idle" /\ worker.row \in DOMAIN documents' \ haunted'
             => worker.row \in DOMAIN documents \ haunted
          BY <2>4, <2>5 DEF Holding
    <3> QED BY <1>1, <3>1 DEF ChunksBehind, FactOfRun
  <2>11. HashIsEarned'
    <3> SUFFICES ASSUME NEW q \in DOMAIN documents' \ haunted', documents'[q].hash # NoHash
                 PROVE  Stored(documents'[q].hash,
                               {f \in facts : f.bank = documents'[q].bank /\ f.doc = q})
          BY <1>1 DEF HashIsEarned, Stored
    <3>1. q \in DOMAIN documents \ haunted /\ documents'[q] = documents[q]
          BY <2>4, <2>5
    <3> QED BY <3>1 DEF RowsAgree, HashIsEarned
  <2>12. DoneIsThere'
        BY <1>1 DEF RowsAgree, DoneIsThere, Stored
  <2>13. FactsBelong'
        BY <1>1, <2>4, <2>5 DEF RowsAgree, FactsBelong
  <2> QED BY <2>7, <2>8, <2>9, <2>10, <2>11, <2>12, <2>13 DEF RowsAgree
<1>7. \/ UNCHANGED << documents, haunted >> /\ Replied(h)
      \/ \E r \in same : /\ Holds(h, r) /\ UNCHANGED haunted
                         /\ documents' = [documents EXCEPT ![r].hash = NoHash]
      \/ /\ b \in banks /\ Holds(h, NextRow)
         /\ documents' = [r \in DOMAIN documents \cup {NextRow} |->
                            IF r = NextRow
                            THEN [bank |-> b, key |-> handler[h].key, hash |-> NoHash]
                            ELSE documents[r]]
         /\ haunted' = IF Holding(NextRow) THEN haunted \cup {NextRow}
                       ELSE haunted \ {NextRow}
  <2> HIDE DEF Rows, Held
  <2> QED BY DEF Upsert
<1> QED BY <1>4, <1>5, <1>6, <1>7

\* The row of a job comes with its task still at the handler: no other task
\* is of that job.
LEMMA InsertKeepsRows ==
    ASSUME Rows, NEW h \in Client, InsertJob(h)
    PROVE  Rows'
<1> USE DEF Rows, Held
<1>1. /\ handler[h] \in Tasks({"insert", "send"}) /\ handler[h].pc = "insert"
      /\ UNCHANGED << banks, documents, facts, queue, worker, haunted, posts >>
      BY DEF InsertJob, RowsTyped, Asked, Tasks, Idle
<1>j. PICK j : j = handler[h].job
      OBVIOUS
<1>r. PICK row : row = [bank |-> handler[h].bank, content |-> handler[h].content,
                        status |-> "pending"]
      OBVIOUS
<1>n. PICK next : next = [handler[h] EXCEPT !.pc = "send"]
      OBVIOUS
<1>2. handler \in [Client -> {handler[g] : g \in Client}]
      BY DEF RowsTyped
<1>3. CASE Replied(h) /\ UNCHANGED jobs
  <2>1. /\ handler' = [handler EXCEPT ![h] = Idle]
        /\ handler'[h] = Idle /\ \A g \in Client \ {h} : handler'[g] = handler[g]
        BY <1>2, <1>3 DEF Replied
  <2>2. RowsTyped'
        BY <1>1, <1>3, <2>1 DEF RowsTyped
  <2>3. OnePlace'
        BY <1>1, <1>2, <2>1, HandlerGoesOn DEF Idle
  <2>4. RowsAreTheirs'
        BY <1>1, <1>3, <2>1 DEF RowsAreTheirs, RowIsIts, JobIsIts, Idle
  <2>5. ChunksBehind'
        BY <1>1, <1>3 DEF ChunksBehind, FactOfRun
  <2>6. RowsAgree'
    <3>1. RowsAgree /\ UNCHANGED << banks, documents, facts, jobs, haunted >>
          BY <1>1, <1>3
    <3> HIDE DEF Rows, Held
    <3>2. HashIsEarned'
          BY ONLY <3>1 DEF RowsAgree, HashIsEarned, Stored
    <3>3. DoneIsThere'
          BY ONLY <3>1 DEF RowsAgree, DoneIsThere, Stored
    <3>4. FactsBelong'
          BY ONLY <3>1 DEF RowsAgree, FactsBelong
    <3> QED BY <3>2, <3>3, <3>4 DEF RowsAgree
  <2> QED BY <2>2, <2>3, <2>4, <2>5, <2>6
<1>4. CASE /\ jobs' = [k \in DOMAIN jobs \cup {j} |-> IF k = j THEN row ELSE jobs[k]]
           /\ handler' = [handler EXCEPT ![h].pc = "send"]
  <2>1. /\ handler' = [handler EXCEPT ![h] = next]
        /\ handler'[h] = next /\ \A g \in Client \ {h} : handler'[g] = handler[g]
        BY <1>2, <1>4, <1>n
  <2>2. /\ next \in Tasks({"insert", "send"}) /\ next.pc = "send" /\ next.job = j
        /\ next.bank = handler[h].bank /\ next.content = handler[h].content
        /\ next.row = handler[h].row
        BY <1>1, <1>j, <1>n DEF Tasks
  <2>3. /\ DOMAIN jobs' = DOMAIN jobs \cup {j} /\ jobs'[j] = row
        /\ \A k \in DOMAIN jobs \ {j} : jobs'[k] = jobs[k]
        BY <1>4
  <2>4. /\ row \in [bank : Bank, content : Content, status : Statuses]
        /\ row.status # "done" /\ row.bank = handler[h].bank /\ row.content = handler[h].content
    <3>1. handler[h].bank \in Bank /\ handler[h].content \in Content
          BY <1>1 DEF Tasks
    <3> QED BY <1>r, <3>1 DEF Statuses
  <2>5. /\ \A g \in Client \ {h} : handler[g].pc # "idle" => handler[g].job # j
        /\ \A i \in DOMAIN queue : queue[i].job # j
        /\ worker.pc # "idle" => worker.job # j
        BY <1>1, <1>j DEF OnePlace
  <2>6. RowsTyped'
    <3>1. handler' \in [Client -> {Idle} \cup Asked \cup Tasks({"insert", "send"})]
          BY <2>1, <2>2 DEF RowsTyped
    <3>2. \A k \in DOMAIN jobs' : jobs'[k] \in [bank : Bank, content : Content, status : Statuses]
          BY <2>3, <2>4 DEF RowsTyped
    <3> QED BY <1>1, <3>1, <3>2 DEF RowsTyped
  <2>7. OnePlace'
        BY <1>1, <1>2, <1>j, <2>1, <2>2, HandlerGoesOn
  <2>8. RowsAreTheirs'
    <3>3. RowIsIts(next) /\ JobIsIts(next)'
          BY <1>1, <1>j, <2>2, <2>3, <2>4 DEF RowsAreTheirs, RowIsIts, JobIsIts
    <3>4. \A g \in Client :
             /\ handler'[g].pc \in {"insert", "send"} => RowIsIts(handler[g])'
             /\ handler'[g].pc = "send" => JobIsIts(handler[g])'
      <4> TAKE g \in Client
      <4>1. CASE g = h
            BY <1>1, <2>1, <3>3, <4>1 DEF RowIsIts, JobIsIts
      <4>2. CASE g # h
        <5>1. handler'[g] = handler[g]
              BY <2>1, <4>2
        <5>2. handler[g].pc \in {"insert", "send"} => RowIsIts(handler[g])
              BY DEF RowsAreTheirs
        <5>3. handler[g].pc = "send" => JobIsIts(handler[g]) /\ handler[g].job # j
              BY <2>5, <4>2 DEF RowsAreTheirs
        <5> QED BY <1>1, <2>3, <5>1, <5>2, <5>3 DEF RowIsIts, JobIsIts
      <4> QED BY <4>1, <4>2
    <3>5. \A i \in DOMAIN queue : RowIsIts(queue[i])' /\ JobIsIts(queue[i])'
          BY <1>1, <2>3, <2>5 DEF RowsAreTheirs, RowIsIts, JobIsIts
    <3>6. worker.pc # "idle" => RowIsIts(worker)' /\ JobIsIts(worker)'
          BY <1>1, <2>3, <2>5 DEF RowsAreTheirs, RowIsIts, JobIsIts
    <3> QED BY <1>1, <3>4, <3>5, <3>6 DEF RowsAreTheirs
  <2>9. ChunksBehind'
        BY <1>1, <2>3, <2>5 DEF ChunksBehind, FactOfRun
  <2>10. HashIsEarned' /\ FactsBelong'
        BY <1>1 DEF RowsAgree, HashIsEarned, FactsBelong, Stored
  <2>11. DoneIsThere'
    <3> SUFFICES ASSUME NEW k \in DOMAIN jobs', jobs'[k].status = "done"
                 PROVE  Stored(jobs'[k].content,
                               {f \in facts : f.job = k /\ f.bank = jobs'[k].bank})
          BY <1>1 DEF DoneIsThere, Stored
    <3>1. k \in DOMAIN jobs /\ jobs'[k] = jobs[k]
          BY <2>3, <2>4
    <3> QED BY <3>1 DEF RowsAgree, DoneIsThere
  <2> QED BY <2>6, <2>7, <2>8, <2>9, <2>10, <2>11 DEF RowsAgree
<1> QED BY <1>3, <1>4, <1>j, <1>r DEF InsertJob

\* A task moves from its handler to the end of the queue.
LEMMA SendKeepsRows ==
    ASSUME Rows, NEW h \in Client, Send(h)
    PROVE  Rows'
<1> USE DEF Rows, Held
<1>1. /\ handler[h] \in Tasks({"insert", "send"}) /\ handler[h].pc = "send"
      /\ UNCHANGED << banks, documents, jobs, facts, worker, haunted, posts >>
      BY DEF Send, RowsTyped, Asked, Tasks, Idle
<1>t. PICK task : task = [handler[h] EXCEPT !.pc = "run"]
      OBVIOUS
<1>n. PICK n : n = Len(queue)
      OBVIOUS
<1>2. /\ task \in Tasks({"run"}) /\ task.job = handler[h].job /\ task.bank = handler[h].bank
      /\ task.content = handler[h].content /\ task.row = handler[h].row
      BY <1>1, <1>t DEF Tasks
<1>3. /\ handler' = [handler EXCEPT ![h] = Idle] /\ handler'[h] = Idle
      /\ \A g \in Client \ {h} : handler'[g] = handler[g]
      /\ queue' = Append(queue, task)
      BY <1>t DEF Send, Replied, RowsTyped
<1>4. queue \in Seq(Tasks({"run"})) /\ n \in Nat /\ DOMAIN queue = 1 .. n
      BY <1>n, LenProperties DEF RowsTyped
<1>5. /\ queue' \in Seq(Tasks({"run"})) /\ DOMAIN queue' = 1 .. n + 1
      /\ \A i \in 1 .. n : queue'[i] = queue[i]
      /\ queue'[n + 1] = task
      BY <1>2, <1>3, <1>4, <1>n, AppendProperties, LenProperties
<1>6. RowsTyped'
      BY <1>1, <1>3, <1>5 DEF RowsTyped
<1>7. handler[h].pc # "idle"
      BY <1>1
<1>8. \A i \in DOMAIN queue' :
         \/ i \in DOMAIN queue /\ queue'[i] = queue[i]
         \/ i = n + 1 /\ i \notin DOMAIN queue /\ queue'[i] = task
      BY <1>4, <1>5
<1>9. OnePlace'
  <2>1. \A g \in Client : handler'[g].pc # "idle" =>
          /\ g # h /\ handler[g].pc # "idle" /\ handler'[g] = handler[g]
        BY <1>3 DEF Idle
  <2>2. \A g \in Client : handler'[g].pc # "idle" =>
          /\ handler'[g].job <= posts
          /\ \A f \in Client \ {g} : handler'[f].pc # "idle" => handler'[f].job # handler'[g].job
          /\ \A i \in DOMAIN queue' : queue'[i].job # handler'[g].job
          /\ worker.pc # "idle" => worker.job # handler'[g].job
        BY <1>2, <1>7, <1>8, <2>1 DEF OnePlace
  <2>3. \A i \in DOMAIN queue' :
          /\ queue'[i].job <= posts
          /\ \A k \in DOMAIN queue' \ {i} : queue'[k].job # queue'[i].job
          /\ worker.pc # "idle" => worker.job # queue'[i].job
        BY <1>2, <1>7, <1>8 DEF OnePlace
  <2> QED BY <1>1, <2>2, <2>3 DEF OnePlace
<1>10. RowsAreTheirs'
  <2>1. RowIsIts(task) /\ JobIsIts(task)
        BY <1>1, <1>2 DEF RowsAreTheirs, RowIsIts, JobIsIts
  <2>3. \A g \in Client :
           /\ handler'[g].pc \in {"insert", "send"} => RowIsIts(handler[g])'
           /\ handler'[g].pc = "send" => JobIsIts(handler[g])'
        BY <1>1, <1>3 DEF RowsAreTheirs, RowIsIts, JobIsIts, Idle
  <2>4. \A i \in DOMAIN queue' : RowIsIts(queue[i])' /\ JobIsIts(queue[i])'
        BY <1>1, <1>8, <2>1 DEF RowsAreTheirs, RowIsIts, JobIsIts
  <2>5. worker.pc # "idle" => RowIsIts(worker)' /\ JobIsIts(worker)'
        BY <1>1 DEF RowsAreTheirs, RowIsIts, JobIsIts
  <2> QED BY <1>1, <2>3, <2>4, <2>5 DEF RowsAreTheirs
<1>11. ChunksBehind'
      BY <1>1 DEF ChunksBehind, FactOfRun
<1>12. RowsAgree'
      BY <1>1 DEF RowsAgree, HashIsEarned, DoneIsThere, FactsBelong, Stored
<1> QED BY <1>6, <1>9, <1>10, <1>11, <1>12

\* A status that is set in the row of a job, if it is there, and changes
\* nothing else that tasks know.
LEMMA FlushedRows ==
    ASSUME RowsTyped, NEW j, NEW status \in Statuses, Flushed(j, status)
    PROVE  /\ DOMAIN jobs' = DOMAIN jobs
           /\ \A k \in DOMAIN jobs :
                 /\ jobs'[k].bank = jobs[k].bank /\ jobs'[k].content = jobs[k].content
                 /\ jobs'[k] \in [bank : Bank, content : Content, status : Statuses]
                 /\ k # j => jobs'[k] = jobs[k]
                 /\ k = j => jobs'[k].status = status
<1>1. CASE j \in DOMAIN jobs
  <2>1. jobs' = [jobs EXCEPT ![j].status = status]
        BY <1>1 DEF Flushed
  <2>2. \A k \in DOMAIN jobs : jobs[k] \in [bank : Bank, content : Content, status : Statuses]
        BY DEF RowsTyped
  <2> QED BY <2>1, <2>2
<1>2. CASE j \notin DOMAIN jobs
  <2>1. jobs' = jobs
        BY <1>2 DEF Flushed
  <2> QED BY <1>2, <2>1 DEF RowsTyped
<1> QED BY <1>1, <1>2

\* The worker takes the task at the head of the queue, with no chunk behind it.
LEMMA TakeKeepsRows ==
    ASSUME Rows, Take
    PROVE  Rows'
<1> USE DEF Rows, Held
<1>q. PICK q : q = queue
      OBVIOUS
<1>t. PICK task : task = Head(queue)
      OBVIOUS
<1>1. /\ worker = Idle /\ queue # << >> /\ queue' = Tail(queue)
      /\ worker' = [pc |-> "run", job |-> task.job, bank |-> task.bank,
                    content |-> task.content, row |-> task.row, at |-> 1, failed |-> FALSE]
      /\ Flushed(task.job, "running")
      /\ UNCHANGED << banks, documents, facts, handler, haunted, posts >>
      BY <1>t DEF Take
<1>2. /\ queue \in Seq(Tasks({"run"})) /\ Len(q) \in Nat /\ DOMAIN queue = 1 .. Len(q)
      /\ Len(q) > 0
      BY <1>q, <1>1, LenProperties, EmptySeq DEF RowsTyped
<1>3. /\ queue' \in Seq(Tasks({"run"})) /\ DOMAIN queue' = 1 .. Len(q) - 1
      /\ \A i \in 1 .. Len(q) - 1 : queue'[i] = queue[i + 1]
      /\ task = queue[1] /\ 1 \in DOMAIN queue
      BY <1>q, <1>t, <1>1, <1>2, HeadTailProperties, LenProperties
<1>4. \A i \in DOMAIN queue' :
         /\ i + 1 \in DOMAIN queue /\ i + 1 # 1 /\ queue'[i] = queue[i + 1]
         /\ \A k \in DOMAIN queue' \ {i} : k + 1 # i + 1
      BY <1>2, <1>3
<1>5. task \in Tasks({"run"})
      BY <1>3, QueuedTyped
<1>6. /\ worker' \in Runs /\ worker'.pc = "run" /\ worker'.job = task.job
      /\ worker'.bank = task.bank /\ worker'.content = task.content
      /\ worker'.row = task.row /\ worker'.at = 1
      BY <1>1, <1>5 DEF Tasks, Runs
<1>7. /\ DOMAIN jobs' = DOMAIN jobs
      /\ \A k \in DOMAIN jobs :
            /\ jobs'[k].bank = jobs[k].bank /\ jobs'[k].content = jobs[k].content
            /\ jobs'[k] \in [bank : Bank, content : Content, status : Statuses]
            /\ jobs'[k].status = "done" => jobs'[k] = jobs[k]
  <2>1. "running" \in Statuses
        BY DEF Statuses
  <2>2. \A k \in DOMAIN jobs : k = task.job => jobs'[k].status # "done"
        BY <1>1, <2>1, FlushedRows
  <2> QED BY <1>1, <2>1, <2>2, FlushedRows
<1>8. RowsTyped'
      BY <1>1, <1>3, <1>6, <1>7 DEF RowsTyped
<1>9. OnePlace'
  <2>1. \A h \in Client : handler[h].pc # "idle" =>
          /\ handler[h].job <= posts
          /\ \A g \in Client \ {h} : handler[g].pc # "idle" => handler[g].job # handler[h].job
          /\ \A i \in DOMAIN queue' : queue'[i].job # handler[h].job
          /\ worker'.job # handler[h].job
        BY <1>3, <1>4, <1>6 DEF OnePlace
  <2>2. \A i \in DOMAIN queue' :
          /\ queue'[i].job <= posts
          /\ \A k \in DOMAIN queue' \ {i} : queue'[k].job # queue'[i].job
          /\ worker'.job # queue'[i].job
        BY <1>3, <1>4, <1>6 DEF OnePlace
  <2>3. worker'.job <= posts
        BY <1>3, <1>6 DEF OnePlace
  <2> QED BY <1>1, <2>1, <2>2, <2>3 DEF OnePlace
<1>10. RowsAreTheirs'
  <2>1. \A h \in Client :
           /\ handler[h].pc \in {"insert", "send"} => RowIsIts(handler[h])'
           /\ handler[h].pc = "send" => JobIsIts(handler[h])'
        BY <1>1, <1>7 DEF RowsAreTheirs, RowIsIts, JobIsIts
  <2>2. \A i \in DOMAIN queue' : RowIsIts(queue[i])' /\ JobIsIts(queue[i])'
        BY <1>1, <1>4, <1>7 DEF RowsAreTheirs, RowIsIts, JobIsIts
  <2>3. RowIsIts(worker)' /\ JobIsIts(worker)'
        BY <1>1, <1>3, <1>6, <1>7 DEF RowsAreTheirs, RowIsIts, JobIsIts
  <2> QED BY <1>1, <2>1, <2>2, <2>3 DEF RowsAreTheirs
<1>11. ChunksBehind'
  <2>1. DOMAIN ChunksOf[task.content] \subseteq Nat \ {0}
    <3>1. task.content \in Content
          BY <1>5 DEF Tasks
    <3>2. ChunksOf[task.content] \in Seq(BOOLEAN)
          BY <3>1, BankRowsAssumption
    <3> QED BY <3>2, LenProperties
  <2> QED BY <1>6, <2>1 DEF ChunksBehind
<1>12. HashIsEarned' /\ FactsBelong'
      BY <1>1 DEF RowsAgree, HashIsEarned, FactsBelong, Stored
<1>13. DoneIsThere'
  <2> SUFFICES ASSUME NEW k \in DOMAIN jobs', jobs'[k].status = "done"
               PROVE  Stored(jobs'[k].content,
                             {f \in facts' : f.job = k /\ f.bank = jobs'[k].bank})
        BY DEF DoneIsThere
  <2>1. k \in DOMAIN jobs /\ jobs'[k] = jobs[k] /\ facts' = facts
        BY <1>1, <1>7
  <2>2. Stored(jobs[k].content, {f \in facts : f.job = k /\ f.bank = jobs[k].bank})
        BY <2>1 DEF RowsAgree, DoneIsThere
  <2> QED BY <2>1, <2>2
<1> QED BY <1>8, <1>9, <1>10, <1>11, <1>12, <1>13 DEF RowsAgree

\* What a step of the worker leaves, when it keeps its job and the rows.
LEMMA RunGoesOn ==
    ASSUME Held, worker \in Runs,
           NEW next, worker' = next, next \in Runs,
           next.job = worker.job, next.bank = worker.bank,
           next.content = worker.content, next.row = worker.row,
           UNCHANGED << banks, jobs, handler, queue, haunted, posts >>,
           DOMAIN documents' = DOMAIN documents,
           \A r \in DOMAIN documents : documents'[r].bank = documents[r].bank
    PROVE  OnePlace' /\ RowsAreTheirs'
<1>1. worker.pc # "idle"
      BY DEF Runs
<1>2. OnePlace'
      BY <1>1 DEF Held, OnePlace
<1>3. RowIsIts(worker)' /\ JobIsIts(worker)'
      BY <1>1 DEF Held, RowsAreTheirs, RowIsIts, JobIsIts
<1>4. RowsAreTheirs'
      BY <1>3 DEF Held, RowsAreTheirs, RowIsIts, JobIsIts
<1> QED BY <1>2, <1>4

\* Chunks without facts, chunks whose facts go in under the keys they need,
\* and chunks that fail.
LEMMA ChunkKeepsRows ==
    ASSUME Rows, StoreChunk \/ ChunkFails
    PROVE  Rows'
<1> SUFFICES ASSUME RowsTyped, OnePlace, RowsAreTheirs, ChunksBehind,
                    HashIsEarned, DoneIsThere, FactsBelong
             PROVE  Rows'
      BY DEF Rows, Held, RowsAgree
<1>1. /\ worker \in Runs /\ worker.pc = "run" /\ worker.at <= Len(ChunksOf[worker.content])
      /\ UNCHANGED << banks, documents, jobs, handler, queue, haunted, posts >>
  <2>1. /\ worker.pc = "run" /\ worker.at <= Len(ChunksOf[worker.content])
        /\ UNCHANGED << banks, documents, jobs, handler, queue, haunted, posts >>
        BY DEF StoreChunk, ChunkFails, InChunk
  <2> QED BY <2>1 DEF RowsTyped, Idle
<1>2. /\ worker.job \in Nat /\ worker.bank \in Bank /\ worker.content \in Content
      /\ worker.row \in Nat /\ worker.at \in Nat \ {0} /\ worker.failed \in BOOLEAN
      BY <1>1 DEF Runs
<1>3. DOMAIN ChunksOf[worker.content] = 1 .. Len(ChunksOf[worker.content])
      BY <1>2, LenProperties, BankRowsAssumption
<1> DEFINE i == worker.at
           new == [job |-> worker.job, content |-> worker.content, chunk |-> i,
                   bank |-> worker.bank, doc |-> worker.row]
           Next(failed) == [worker EXCEPT !.at = @ + 1, !.failed = @ \/ failed]
<1>4. ASSUME NEW failed \in BOOLEAN, NEW next, next = Next(failed)
      PROVE  /\ next \in Runs /\ next.pc = "run" /\ next.at = i + 1
             /\ next.failed = (worker.failed \/ failed)
             /\ next.job = worker.job /\ next.bank = worker.bank
             /\ next.content = worker.content /\ next.row = worker.row
  <2>1. next = [pc |-> "run", job |-> worker.job, bank |-> worker.bank,
                content |-> worker.content, row |-> worker.row, at |-> i + 1,
                failed |-> worker.failed \/ failed]
        BY <1>1, <1>4 DEF Runs
  <2>2. (worker.failed \/ failed) \in BOOLEAN
        BY <1>2
  <2>3. i + 1 \in Nat \ {0}
        BY <1>2
  <2> HIDE DEF Next
  <2> QED BY <1>2, <2>1, <2>2, <2>3 DEF Runs
<1>5. \/ worker' = Next(TRUE) /\ UNCHANGED facts
      \/ worker' = Next(FALSE) /\ UNCHANGED facts /\ ~ChunksOf[worker.content][i]
      \/ worker' = Next(FALSE) /\ facts' = facts \cup {new} /\ KeysHold(worker)
  <2> QED BY DEF StoreChunk, ChunkFails, NextChunk
<1>6. PICK failed \in BOOLEAN :
         /\ worker' = Next(failed)
         /\ \/ facts' = facts /\ (failed \/ ~ChunksOf[worker.content][i])
            \/ facts' = facts \cup {new} /\ KeysHold(worker)
      BY <1>5
<1>7. PICK next : next = Next(failed)
      OBVIOUS
<1>8. /\ worker' = next /\ next \in Runs /\ next.pc = "run" /\ next.at = i + 1
      /\ next.failed = (worker.failed \/ failed)
      /\ next.job = worker.job /\ next.bank = worker.bank
      /\ next.content = worker.content /\ next.row = worker.row
      BY <1>4, <1>6, <1>7
<1>9. new \in [job : Nat, content : Content, chunk : Nat, bank : Bank, doc : Nat]
      BY <1>2
<1> HIDE DEF Next
<1>10. RowsTyped'
  <2>1. facts' \subseteq [job : Nat, content : Content, chunk : Nat, bank : Bank, doc : Nat]
        BY <1>6, <1>9 DEF RowsTyped
  <2> QED BY <1>1, <1>8, <2>1 DEF RowsTyped
<1>11. OnePlace' /\ RowsAreTheirs'
      BY <1>1, <1>8, RunGoesOn DEF Held
<1>12. facts \subseteq facts'
      BY <1>6
<1>13. ChunksBehind'
  <2> SUFFICES ASSUME ~next.failed, NEW k \in DOMAIN ChunksOf[worker.content],
                      k < i + 1, ChunksOf[worker.content][k]
               PROVE  /\ worker.job \in DOMAIN jobs => \E f \in facts' : FactOfRun(f, k)
                      /\ worker.row \in DOMAIN documents \ haunted =>
                            \E f \in facts' : FactOfRun(f, k) /\ f.doc = worker.row
        BY <1>1, <1>8 DEF ChunksBehind, FactOfRun
  <2>1. CASE k < i
        BY <1>1, <1>8, <1>12, <2>1 DEF ChunksBehind
  <2>2. CASE k = i
    <3>1. new \in facts'
          BY <1>6, <1>8, <2>2
    <3>2. FactOfRun(new, k) /\ new.doc = worker.row
          BY <2>2 DEF FactOfRun
    <3> QED BY <3>1, <3>2
  <2> QED BY <1>2, <1>3, <2>1, <2>2
<1>14. HashIsEarned'
  <2> SUFFICES ASSUME NEW r \in DOMAIN documents' \ haunted', documents'[r].hash # NoHash
               PROVE  Stored(documents'[r].hash,
                             {f \in facts' : f.bank = documents'[r].bank /\ f.doc = r})
        BY DEF HashIsEarned
  <2>a. r \in DOMAIN documents \ haunted /\ documents' = documents
        BY <1>1
  <2> DEFINE some == {f \in facts : f.bank = documents[r].bank /\ f.doc = r}
             more == {f \in facts' : f.bank = documents[r].bank /\ f.doc = r}
  <2>1. Stored(documents[r].hash, some) /\ some \subseteq more
        BY <1>12, <2>a DEF HashIsEarned
  <2> HIDE DEF some, more
  <2>2. Stored(documents[r].hash, more)
        BY <2>1, StoredStays
  <2> QED BY <2>2, <2>a DEF more
<1>15. DoneIsThere'
  <2> SUFFICES ASSUME NEW j \in DOMAIN jobs', jobs'[j].status = "done"
               PROVE  Stored(jobs'[j].content,
                             {f \in facts' : f.job = j /\ f.bank = jobs'[j].bank})
        BY DEF DoneIsThere
  <2>a. j \in DOMAIN jobs /\ jobs' = jobs
        BY <1>1
  <2> DEFINE some == {f \in facts : f.job = j /\ f.bank = jobs[j].bank}
             more == {f \in facts' : f.job = j /\ f.bank = jobs[j].bank}
  <2>1. Stored(jobs[j].content, some) /\ some \subseteq more
        BY <1>12, <2>a DEF DoneIsThere
  <2> HIDE DEF some, more
  <2>2. Stored(jobs[j].content, more)
        BY <2>1, StoredStays
  <2> QED BY <2>2, <2>a DEF more
<1>16. FactsBelong'
  <2>1. \A f \in facts :
           /\ f.bank \in banks
           /\ f.doc # NoDocument =>
                 /\ f.doc \in DOMAIN documents
                 /\ documents[f.doc].bank = f.bank \/ f.doc \in haunted
        BY DEF FactsBelong
  <2>2. KeysHold(worker) =>
           /\ new.bank \in banks /\ new.doc \in DOMAIN documents
           /\ documents[new.doc].bank = new.bank \/ new.doc \in haunted
        BY <1>1 DEF KeysHold, RowsAreTheirs, RowIsIts
  <2> HIDE DEF new
  <2> QED BY <1>1, <1>6, <2>1, <2>2 DEF FactsBelong
<1> QED BY <1>10, <1>11, <1>13, <1>14, <1>15, <1>16 DEF Rows, Held, RowsAgree

\* The hash is stamped with every chunk behind the worker.
LEMMA StampKeepsRows ==
    ASSUME Rows, Stamp
    PROVE  Rows'
<1> SUFFICES ASSUME RowsTyped, OnePlace, RowsAreTheirs, ChunksBehind,
                    HashIsEarned, DoneIsThere, FactsBelong
             PROVE  Rows'
      BY DEF Rows, Held, RowsAgree
<1>1. /\ worker \in Runs /\ worker.pc = "run" /\ ~worker.failed
      /\ ~(worker.at <= Len(ChunksOf[worker.content]))
      /\ UNCHANGED << banks, jobs, facts, handler, queue, haunted, posts >>
      BY DEF Stamp, InChunk, RowsTyped, Idle
<1>2. /\ worker.job \in Nat /\ worker.bank \in Bank /\ worker.content \in Content
      /\ worker.row \in Nat /\ worker.at \in Nat \ {0} /\ worker.failed \in BOOLEAN
      BY <1>1 DEF Runs
<1>3. /\ DOMAIN ChunksOf[worker.content] = 1 .. Len(ChunksOf[worker.content])
      /\ Len(ChunksOf[worker.content]) \in Nat
      BY <1>2, LenProperties, BankRowsAssumption
<1>4. PICK next : next = [worker EXCEPT !.pc = "end"]
      OBVIOUS
<1>5. /\ worker' = next /\ next \in Runs /\ next.pc = "end" /\ next.at = worker.at
      /\ ~next.failed /\ next.job = worker.job /\ next.bank = worker.bank
      /\ next.content = worker.content /\ next.row = worker.row
      BY <1>1, <1>4 DEF Stamp, Runs
<1>6. /\ DOMAIN documents' = DOMAIN documents
      /\ \A r \in DOMAIN documents :
            /\ documents'[r].bank = documents[r].bank
            /\ documents'[r] \in [bank : Bank, key : Key, hash : Content \cup {NoHash}]
            /\ r # worker.row => documents'[r] = documents[r]
            /\ r = worker.row => documents'[r].hash = worker.content
  <2>1. \A r \in DOMAIN documents :
           documents[r] \in [bank : Bank, key : Key, hash : Content \cup {NoHash}]
        BY DEF RowsTyped
  <2>2. documents' = IF worker.row \in DOMAIN documents
               THEN [documents EXCEPT ![worker.row].hash = worker.content] ELSE documents
        BY DEF Stamp
  <2> QED BY <1>2, <2>1, <2>2
<1>7. RowsTyped'
      BY <1>1, <1>2, <1>3, <1>5, <1>6 DEF RowsTyped
<1>8. OnePlace' /\ RowsAreTheirs'
      BY <1>1, <1>5, <1>6, RunGoesOn DEF Held
<1>9. ChunksBehind'
      BY <1>1, <1>5, <1>6 DEF ChunksBehind, FactOfRun
<1>10. HashIsEarned'
  <2> SUFFICES ASSUME NEW r \in DOMAIN documents' \ haunted', documents'[r].hash # NoHash
               PROVE  Stored(documents'[r].hash,
                             {f \in facts' : f.bank = documents'[r].bank /\ f.doc = r})
        BY DEF HashIsEarned
  <2>a. /\ r \in DOMAIN documents \ haunted /\ facts' = facts
        /\ documents'[r].bank = documents[r].bank
        BY <1>1, <1>6
  <2>1. CASE r # worker.row
    <3>1. documents'[r] = documents[r]
          BY <1>6, <2>a, <2>1
    <3> QED BY <2>a, <3>1 DEF HashIsEarned
  <2>2. CASE r = worker.row
    <3>1. documents[r].bank = worker.bank /\ documents'[r].hash = worker.content
          BY <1>1, <1>6, <2>a, <2>2 DEF RowsAreTheirs, RowIsIts
    <3>2. \A i \in DOMAIN ChunksOf[worker.content] :
             ChunksOf[worker.content][i] =>
                \E f \in facts : FactOfRun(f, i) /\ f.doc = r
          BY <1>1, <1>2, <1>3, <2>a, <2>2 DEF ChunksBehind
    <3> DEFINE some == {f \in facts : f.bank = documents[r].bank /\ f.doc = r}
    <3>3. OfJob(worker.content, some, worker.job)
          BY <3>1, <3>2 DEF OfJob, FactOfRun
    <3> HIDE DEF some
    <3>4. Stored(worker.content, some)
          BY <3>3, StoredByJob
    <3> QED BY <2>a, <3>1, <3>4 DEF some
  <2> QED BY <2>1, <2>2
<1>11. DoneIsThere'
  <2>1. jobs' = jobs /\ facts' = facts
        BY <1>1
  <2> QED BY <2>1 DEF DoneIsThere
<1>12. FactsBelong'
      BY <1>1, <1>6 DEF FactsBelong
<1> QED BY <1>7, <1>8, <1>9, <1>10, <1>11, <1>12 DEF Rows, Held, RowsAgree

\* A job is answered as done with every chunk behind it.
LEMMA EndKeepsRows ==
    ASSUME Rows, EndJob
    PROVE  Rows'
<1> SUFFICES ASSUME RowsTyped, OnePlace, RowsAreTheirs, ChunksBehind,
                    HashIsEarned, DoneIsThere, FactsBelong
             PROVE  Rows'
      BY DEF Rows, Held, RowsAgree
<1>1. /\ worker \in Runs /\ worker' = Idle
      /\ UNCHANGED << banks, documents, facts, handler, queue, haunted, posts >>
      BY DEF EndJob, RowsTyped, Idle
<1>2. PICK status \in Statuses :
         /\ Flushed(worker.job, status)
         /\ status = "done" => worker.pc = "end"
      BY DEF EndJob, Statuses
<1>3. /\ DOMAIN jobs' = DOMAIN jobs
      /\ \A k \in DOMAIN jobs :
            /\ jobs'[k].bank = jobs[k].bank /\ jobs'[k].content = jobs[k].content
            /\ jobs'[k] \in [bank : Bank, content : Content, status : Statuses]
            /\ k # worker.job => jobs'[k] = jobs[k]
            /\ k = worker.job => jobs'[k].status = status
      BY <1>2, FlushedRows
<1>4. RowsTyped'
      BY <1>1, <1>3 DEF RowsTyped, Idle
<1>5. OnePlace'
      BY <1>1 DEF OnePlace, Idle
<1>6. RowsAreTheirs'
      BY <1>1, <1>3 DEF RowsAreTheirs, RowIsIts, JobIsIts, Idle
<1>7. ChunksBehind'
      BY <1>1 DEF ChunksBehind, Idle
<1>8. HashIsEarned' /\ FactsBelong'
      BY <1>1 DEF HashIsEarned, FactsBelong, Stored
<1>9. DoneIsThere'
  <2> SUFFICES ASSUME NEW j \in DOMAIN jobs', jobs'[j].status = "done"
               PROVE  Stored(jobs'[j].content,
                             {f \in facts' : f.job = j /\ f.bank = jobs'[j].bank})
        BY DEF DoneIsThere
  <2>a. /\ j \in DOMAIN jobs /\ facts' = facts
        /\ jobs'[j].bank = jobs[j].bank /\ jobs'[j].content = jobs[j].content
        BY <1>1, <1>3
  <2>1. CASE j # worker.job
    <3>1. jobs'[j] = jobs[j]
          BY <1>3, <2>a, <2>1
    <3> QED BY <2>a, <3>1 DEF DoneIsThere
  <2>2. CASE j = worker.job
    <3>1. worker.pc = "end"
          BY <1>2, <1>3, <2>a, <2>2
    <3>2. jobs[j].bank = worker.bank /\ jobs[j].content = worker.content
          BY <2>a, <2>2, <3>1 DEF RowsAreTheirs, JobIsIts
    <3>3. ~worker.failed /\ worker.at > Len(ChunksOf[worker.content])
          BY <3>1 DEF RowsTyped
    <3>4. /\ DOMAIN ChunksOf[worker.content] = 1 .. Len(ChunksOf[worker.content])
          /\ Len(ChunksOf[worker.content]) \in Nat /\ worker.at \in Nat
          BY <1>1, LenProperties, BankRowsAssumption DEF Runs
    <3>5. \A i \in DOMAIN ChunksOf[worker.content] :
             ChunksOf[worker.content][i] => \E f \in facts : FactOfRun(f, i)
          BY <2>a, <2>2, <3>1, <3>3, <3>4 DEF ChunksBehind
    <3> DEFINE some == {f \in facts : f.job = j /\ f.bank = jobs[j].bank}
    <3>6. OfJob(worker.content, some, j)
          BY <2>2, <3>2, <3>5 DEF OfJob, FactOfRun
    <3> HIDE DEF some
    <3>7. Stored(worker.content, some)
          BY <3>6, StoredByJob
    <3> QED BY <2>a, <3>2, <3>7 DEF some
  <2> QED BY <2>1, <2>2
<1> QED BY <1>4, <1>5, <1>6, <1>7, <1>8, <1>9 DEF Rows, Held, RowsAgree

\* However deletions come between the steps of requests and jobs, the hash of
\* a document, the status of a job and the facts agree with what is stored,
\* but for a rowid that was given again while it was held.
THEOREM DeletedBanksLeaveNothing == BankRowsSpec => []RowsAgree
<1>1. BankRowsInit => Rows
      BY RowsAtFirst
<1>2. Rows /\ [BankRowsNext]_rowVars => Rows'
  <2> SUFFICES ASSUME Rows, [BankRowsNext]_rowVars PROVE Rows'
        OBVIOUS
  <2>1. ASSUME NEW b \in Bank, CreateBank(b) \/ Delete(b) PROVE Rows'
        BY <2>1, CreateKeepsRows, DeleteKeepsRows
  <2>2. ASSUME NEW h \in Client, NEW b \in Bank, NEW k \in Key, NEW c \in Content,
               Post(h, b, k, c)
        PROVE  Rows'
        BY <2>2, PostKeepsRows
  <2>3. ASSUME NEW h \in Client, Upsert(h) \/ InsertJob(h) \/ Send(h) PROVE Rows'
        BY <2>3, UpsertKeepsRows, InsertKeepsRows, SendKeepsRows
  <2>4. CASE Take \/ StoreChunk \/ ChunkFails \/ Stamp \/ EndJob
        BY <2>4, TakeKeepsRows, ChunkKeepsRows, StampKeepsRows, EndKeepsRows
  <2>5. CASE UNCHANGED rowVars
        BY <2>5, RowsStutter
  <2> QED BY <2>1, <2>2, <2>3, <2>4, <2>5 DEF BankRowsNext
<1>3. Rows => RowsAgree
      BY DEF Rows
<1> QED BY <1>1, <1>2, <1>3, PTL DEF BankRowsSpec

-----------------------------------------------------------------------------

(***************************************************************************)
(* Migration: the watermark lies between what was imported and what is     *)
(* retained later.  What is carried along: rounds leave no watermark above *)
(* the rows of its bank, so that a new rowid always is; and as long as no  *)
(* daemon was started under it, an import has its banks for itself.        *)
(***************************************************************************)

Importing == {Steps[k] : k \in DOMAIN Steps}
Snapshotting == {"stats", "archive", "list", "seal"}
RowKinds == {"fact", "observation", "own", "native"}

StoredTyped ==
    /\ \E n \in Nat : DOMAIN stored \subseteq 1 .. n
    /\ \A i \in DOMAIN stored :
          /\ stored[i] = [bank |-> stored[i].bank, kind |-> stored[i].kind,
                          of |-> stored[i].of, embedded |-> stored[i].embedded]
          /\ stored[i].bank \in LegacyBank /\ stored[i].kind \in RowKinds

SnapshotTool(t) ==
    /\ t.pc \in Snapshotting
    /\ t = [pc |-> t.pc, left |-> t.left, bank |-> t.bank, stats |-> t.stats,
            listed |-> t.listed]
ImportTool(t) ==
    /\ t.pc \in Importing
    /\ t = [pc |-> t.pc, bank |-> t.bank, left |-> t.left, replace |-> t.replace, of |-> t.of]
    /\ t.bank \in LegacyBank /\ t.left \subseteq LegacyBank \ {t.bank}

MigrationTyped ==
    /\ StoredTyped
    /\ stamped \in [LegacyBank -> Nat] /\ DOMAIN marker = LegacyBank
    /\ tool = Idling \/ SnapshotTool(tool) \/ ImportTool(tool)

\* What a round decided on is there, and no observation; a watermark is at or
\* below a row of its bank.
RoundsAreSound ==
    /\ \A i \in judged : i \in DOMAIN stored /\ stored[i].kind \in {"fact", "native"}
    /\ \A b \in LegacyBank : stamped[b] = 0 \/ \E i \in RowsOf(b) : stamped[b] <= i

\* An import has its banks for itself.
ImportIsAlone ==
    tool.pc \in Importing =>
       /\ ~serving
       /\ ~tool.replace => \A b \in tool.left : RowsOf(b) = {}
       /\ tool.pc = "purge" /\ ~tool.replace => RowsOf(tool.bank) = {}
       /\ tool.pc = "running" => RowsOf(tool.bank) = {}
       /\ tool.pc # "purge" =>
             OfKind(tool.bank, "native") = {} /\ RowsOf(tool.bank) \cap judged = {}
       /\ tool.pc \notin {"purge", "running"} => marker[tool.bank].state = "running"
       /\ tool.pc = "done" => \A i \in OfKind(tool.bank, "fact") : i <= stamped[tool.bank]

\* A native fact at or below the mark was decided on; a migrated fact of a
\* finished import is, and was not.
NativesAreSeen ==
    \A b \in LegacyBank : \A i \in OfKind(b, "native") : i <= stamped[b] => i \in judged
FactsAreSpared ==
    \A b \in LegacyBank :
       marker[b].state = "done" =>
          \A i \in OfKind(b, "fact") : i <= stamped[b] /\ i \notin judged

Split ==
    /\ MigrationTyped /\ RoundsAreSound
    /\ ~late => ImportIsAlone /\ NativesAreSeen /\ FactsAreSpared

-----------------------------------------------------------------------------

\* The steps of the import of a bank, in their order.
LEMMA StepsInOrder ==
    /\ Importing = {"purge", "running", "documents", "facts", "entities", "caused_by",
                    "observations", "metadata", "temporal", "drain", "watermark", "done"}
    /\ StepAfter("purge") = "running" /\ StepAfter("running") = "documents"
    /\ StepAfter("documents") = "facts" /\ StepAfter("facts") = "entities"
    /\ StepAfter("entities") = "caused_by" /\ StepAfter("caused_by") = "observations"
    /\ StepAfter("observations") = "metadata" /\ StepAfter("metadata") = "temporal"
    /\ StepAfter("temporal") = "drain" /\ StepAfter("drain") = "watermark"
    /\ StepAfter("watermark") = "done"
<1>1. DOMAIN Steps = 1 .. 12
      BY DEF Steps
<1>2. /\ Steps[1] = "purge" /\ Steps[2] = "running" /\ Steps[3] = "documents"
      /\ Steps[4] = "facts" /\ Steps[5] = "entities" /\ Steps[6] = "caused_by"
      /\ Steps[7] = "observations" /\ Steps[8] = "metadata" /\ Steps[9] = "temporal"
      /\ Steps[10] = "drain" /\ Steps[11] = "watermark" /\ Steps[12] = "done"
      BY DEF Steps
<1>3. \A k \in 1 .. 12 : k = 1 \/ k = 2 \/ k = 3 \/ k = 4 \/ k = 5 \/ k = 6 \/ k = 7 \/ k = 8
                         \/ k = 9 \/ k = 10 \/ k = 11 \/ k = 12
      OBVIOUS
<1>4. Importing = {"purge", "running", "documents", "facts", "entities", "caused_by",
                   "observations", "metadata", "temporal", "drain", "watermark", "done"}
      BY <1>1, <1>2, <1>3 DEF Importing
<1>5. \A k, l \in 1 .. 12 : Steps[k] = Steps[l] => k = l
      BY <1>2, <1>3
<1>6. ASSUME NEW k \in 1 .. 11
      PROVE  StepAfter(Steps[k]) = Steps[k + 1]
  <2>1. k \in 1 .. 12 /\ \A l \in 1 .. 12 : Steps[l] = Steps[k] => l = k
        BY <1>5
  <2>2. (CHOOSE l \in DOMAIN Steps : Steps[l] = Steps[k]) = k
        BY <1>1, <2>1
  <2>3. StepAfter(Steps[k]) = Steps[1 + k]
        BY <2>2 DEF StepAfter
  <2>4. 1 + k = k + 1
        OBVIOUS
  <2> QED BY <2>3, <2>4
<1>7. /\ StepAfter(Steps[1]) = Steps[2] /\ StepAfter(Steps[2]) = Steps[3]
      /\ StepAfter(Steps[3]) = Steps[4] /\ StepAfter(Steps[4]) = Steps[5]
      /\ StepAfter(Steps[5]) = Steps[6] /\ StepAfter(Steps[6]) = Steps[7]
      /\ StepAfter(Steps[7]) = Steps[8] /\ StepAfter(Steps[8]) = Steps[9]
      /\ StepAfter(Steps[9]) = Steps[10] /\ StepAfter(Steps[10]) = Steps[11]
      /\ StepAfter(Steps[11]) = Steps[12]
      BY <1>6
<1> QED BY <1>2, <1>4, <1>7

\* Which steps an import has, and which comes after which.
LEMMA StepOrder ==
    /\ Importing = {"purge", "running", "documents", "facts", "entities", "caused_by",
                    "observations", "metadata", "temporal", "drain", "watermark", "done"}
    /\ StepAfter("purge") = "running" /\ StepAfter("running") = "documents"
    /\ StepAfter("watermark") = "done"
    /\ \A pc \in {"documents", "facts", "entities", "caused_by", "observations", "metadata",
                  "temporal", "drain"} :
          StepAfter(pc) \in {"facts", "entities", "caused_by", "observations", "metadata",
                             "temporal", "drain", "watermark"}
BY StepsInOrder

\* A new rowid is above every row.
LEMMA FreeRowIsAbove ==
    ASSUME StoredTyped
    PROVE  /\ FreeRow \in Nat \ {0} /\ \A i \in DOMAIN stored : i \in Nat /\ i < FreeRow
           /\ \E n \in Nat : DOMAIN stored \cup {FreeRow} \subseteq 1 .. n
<1> DEFINE K == {0} \cup DOMAIN stored
<1>1. PICK n \in Nat : DOMAIN stored \subseteq 1 .. n
      BY DEF StoredTyped
<1>2. K \in SUBSET Nat /\ K # {} /\ \A x \in K : x <= n
      BY <1>1
<1>3. Max(K) \in K /\ \A x \in K : x <= Max(K)
      BY <1>1, <1>2, MaxIsGreatest
<1>4. FreeRow = 1 + Max(K)
      BY DEF FreeRow
<1>5. Max(K) \in Nat /\ \A x \in DOMAIN stored : x <= Max(K) /\ x \in Nat
      BY <1>2, <1>3
<1> HIDE DEF K
<1>6. FreeRow \in Nat \ {0} /\ \A i \in DOMAIN stored : i \in Nat /\ i < FreeRow
      BY <1>4, <1>5
<1>7. DOMAIN stored \cup {FreeRow} \subseteq 1 .. n + FreeRow
      BY <1>1, <1>6
<1> QED BY <1>1, <1>6, <1>7

\* The greatest of some rows of a bank.
LEMMA GreatestRow ==
    ASSUME StoredTyped, NEW R, R \subseteq DOMAIN stored, R # {}
    PROVE  Max(R) \in R /\ \A i \in R : i <= Max(R)
<1>1. PICK n \in Nat : DOMAIN stored \subseteq 1 .. n
      BY DEF StoredTyped
<1>2. R \in SUBSET Nat /\ \A x \in R : x <= n
      BY <1>1
<1> QED BY <1>1, <1>2, MaxIsGreatest

\* What an insert, a deletion and a rewriting of rows leave.
LEMMA RowInserted ==
    ASSUME StoredTyped, NEW b \in LegacyBank, NEW kind \in RowKinds, NEW of, NEW embedded,
           stored' = Inserted(FreeRow, [bank |-> b, kind |-> kind, of |-> of,
                                        embedded |-> embedded])
    PROVE  /\ StoredTyped'
           /\ DOMAIN stored' = DOMAIN stored \cup {FreeRow}
           /\ \A i \in DOMAIN stored : stored'[i] = stored[i] /\ i # FreeRow
           /\ stored'[FreeRow].bank = b /\ stored'[FreeRow].kind = kind
<1>0. PICK n : n = FreeRow
      OBVIOUS
<1>1. /\ n \in Nat \ {0} /\ n \notin DOMAIN stored
      /\ \E m \in Nat : DOMAIN stored \cup {n} \subseteq 1 .. m
      BY <1>0, FreeRowIsAbove
<1>2. PICK row : row = [bank |-> b, kind |-> kind, of |-> of, embedded |-> embedded]
      OBVIOUS
<1>3. stored' = [j \in DOMAIN stored \cup {n} |-> IF j = n THEN row ELSE stored[j]]
      BY <1>0, <1>2 DEF Inserted
<1>4. /\ DOMAIN stored' = DOMAIN stored \cup {n} /\ stored'[n] = row
      /\ \A i \in DOMAIN stored : stored'[i] = stored[i] /\ i # n
      BY <1>1, <1>3
<1>5. /\ row = [bank |-> row.bank, kind |-> row.kind, of |-> row.of, embedded |-> row.embedded]
      /\ row.bank = b /\ row.kind = kind
      BY <1>2
<1>6. StoredTyped'
      BY <1>1, <1>4, <1>5 DEF StoredTyped
<1> QED BY <1>0, <1>4, <1>5, <1>6

LEMMA RowsDeleted ==
    ASSUME StoredTyped, NEW R, stored' = Without(R)
    PROVE  /\ StoredTyped' /\ DOMAIN stored' = DOMAIN stored \ R
           /\ \A i \in DOMAIN stored' : stored'[i] = stored[i]
<1>1. /\ DOMAIN stored' = DOMAIN stored \ R
      /\ \A i \in DOMAIN stored' : stored'[i] = stored[i]
      BY DEF Without
<1>2. StoredTyped'
      BY <1>1 DEF StoredTyped
<1> QED BY <1>1, <1>2

\* Rows are embedded, or become observations.
Rewritten ==
    /\ StoredTyped' /\ DOMAIN stored' = DOMAIN stored
    /\ \A i \in DOMAIN stored :
          /\ stored'[i].bank = stored[i].bank
          /\ \/ stored'[i].kind = stored[i].kind
             \/ stored[i].kind = "own" /\ stored'[i].kind = "observation"

LEMMA EmbeddedRows ==
    ASSUME StoredTyped, NEW b, stored' = Embedded(b)
    PROVE  Rewritten
<1>1. /\ DOMAIN stored' = DOMAIN stored
      /\ \A i \in DOMAIN stored :
            stored'[i] = IF stored[i].bank = b THEN [stored[i] EXCEPT !.embedded = TRUE]
                         ELSE stored[i]
      BY DEF Embedded
<1>2. ASSUME NEW i \in DOMAIN stored
      PROVE  /\ stored'[i] = [bank |-> stored'[i].bank, kind |-> stored'[i].kind,
                              of |-> stored'[i].of, embedded |-> stored'[i].embedded]
             /\ stored'[i].bank = stored[i].bank /\ stored'[i].kind = stored[i].kind
  <2>1. PICK r : r = stored[i]
        OBVIOUS
  <2>2. r = [bank |-> r.bank, kind |-> r.kind, of |-> r.of, embedded |-> r.embedded]
        BY <2>1 DEF StoredTyped
  <2>3. stored'[i] = r \/ stored'[i] = [r EXCEPT !.embedded = TRUE]
        BY <1>1, <2>1
  <2>4. [r EXCEPT !.embedded = TRUE] = [bank |-> r.bank, kind |-> r.kind, of |-> r.of,
                                        embedded |-> TRUE]
    <3>1. \A yes : [r EXCEPT !.embedded = yes] = [bank |-> r.bank, kind |-> r.kind,
                                                  of |-> r.of, embedded |-> yes]
          BY <2>2
    <3> QED BY <3>1, Zenon
  <2> QED BY <2>1, <2>2, <2>3, <2>4
<1>3. StoredTyped'
      BY <1>1, <1>2 DEF StoredTyped
<1> QED BY <1>1, <1>2, <1>3 DEF Rewritten

LEMMA DescribedRows ==
    ASSUME Split, Metadata
    PROVE  Rewritten
<1>0. StoredTyped
      BY DEF Split, MigrationTyped
<1>1. /\ DOMAIN stored' = DOMAIN stored
      /\ \A i \in DOMAIN stored :
            \/ stored'[i] = stored[i]
            \/ stored[i].kind = "own" /\ stored'[i] = [stored[i] EXCEPT !.kind = "observation"]
      BY DEF Metadata
<1>2. ASSUME NEW i \in DOMAIN stored
      PROVE  /\ stored'[i] = [bank |-> stored'[i].bank, kind |-> stored'[i].kind,
                              of |-> stored'[i].of, embedded |-> stored'[i].embedded]
             /\ stored'[i].bank = stored[i].bank
             /\ \/ stored'[i].kind = stored[i].kind
                \/ stored[i].kind = "own" /\ stored'[i].kind = "observation"
  <2>1. PICK r : r = stored[i]
        OBVIOUS
  <2>2. r = [bank |-> r.bank, kind |-> r.kind, of |-> r.of, embedded |-> r.embedded]
        BY <1>0, <2>1 DEF StoredTyped
  <2>3. stored'[i] = r \/ (r.kind = "own" /\ stored'[i] = [r EXCEPT !.kind = "observation"])
        BY <1>1, <2>1
  <2>4. [r EXCEPT !.kind = "observation"] = [bank |-> r.bank, kind |-> "observation",
                                             of |-> r.of, embedded |-> r.embedded]
        BY <2>2
  <2> QED BY <2>1, <2>2, <2>3, <2>4
<1>3. StoredTyped'
      BY <1>0, <1>1, <1>2 DEF StoredTyped, RowKinds
<1> QED BY <1>1, <1>2, <1>3 DEF Rewritten

\* What rewriting rows, or nothing, changes of the rest: nothing.
LEMMA RewritingKeeps ==
    ASSUME Split, Rewritten, UNCHANGED << marker, stamped, judged, late >>
    PROVE  /\ StoredTyped' /\ RoundsAreSound'
           /\ ~late => NativesAreSeen' /\ FactsAreSpared'
           /\ \A b : /\ RowsOf(b)' = RowsOf(b)
                     /\ OfKind(b, "native")' = OfKind(b, "native")
                     /\ OfKind(b, "fact")' = OfKind(b, "fact")
<1>1. \A b : /\ RowsOf(b)' = RowsOf(b)
             /\ OfKind(b, "native")' = OfKind(b, "native")
             /\ OfKind(b, "fact")' = OfKind(b, "fact")
      BY DEF Rewritten, RowsOf, OfKind
<1>2. RoundsAreSound'
      BY <1>1 DEF Split, RoundsAreSound, Rewritten
<1>3. ~late => NativesAreSeen' /\ FactsAreSpared'
      BY <1>1 DEF Split, NativesAreSeen, FactsAreSpared
<1> QED BY <1>1, <1>2, <1>3 DEF Rewritten

LEMMA SameIsRewritten ==
    ASSUME Split, UNCHANGED stored
    PROVE  Rewritten
BY DEF Split, MigrationTyped, StoredTyped, Rewritten

\* A step that touches neither the database nor the daemon, and leaves the
\* tool as it is, or not at an import.
LEMMA ElsewhereKeepsSplit ==
    ASSUME Split, UNCHANGED << marker, stored, stamped, judged, late, serving >>,
           tool' = tool \/ tool' = Idling \/ SnapshotTool(tool')
    PROVE  Split'
<1>1. MigrationTyped'
  <2>1. tool' = Idling \/ SnapshotTool(tool') \/ ImportTool(tool')
        BY DEF Split, MigrationTyped
  <2>2. StoredTyped'
        BY DEF Split, MigrationTyped, StoredTyped
  <2>3. /\ SnapshotTool(tool') => SnapshotTool(tool)'
        /\ ImportTool(tool') => ImportTool(tool)'
        BY DEF SnapshotTool, ImportTool
  <2> QED BY <2>1, <2>2, <2>3 DEF Split, MigrationTyped
<1>2. RoundsAreSound' /\ (~late' => NativesAreSeen' /\ FactsAreSpared')
      BY DEF Split, RoundsAreSound, NativesAreSeen, FactsAreSpared, RowsOf, OfKind
<1>3. ~late' => ImportIsAlone'
  <2>1. CASE tool' = tool
        BY <2>1 DEF Split, ImportIsAlone, RowsOf, OfKind
  <2>2. CASE tool' = Idling \/ SnapshotTool(tool')
    <3>1. tool'.pc \notin Importing
          BY <2>2, StepOrder DEF Idling, SnapshotTool, Snapshotting
    <3> QED BY <3>1 DEF ImportIsAlone
  <2> QED BY <2>1, <2>2
<1> QED BY <1>1, <1>2, <1>3 DEF Split

\* The snapshot reads and writes its directory alone.
LEMMA SnapshotKeepsSplit ==
    ASSUME Split,
           LegacyWrites \/ SnapshotBegins \/ ReadStats \/ ReadArchive \/ ReadList \/ WriteStats
             \/ Seal \/ Stop
    PROVE  Split'
<1> USE DEF database, frozen, counters
<1>1. \A t : tool = Idling \/ SnapshotTool(tool) \/ ImportTool(tool)
      BY DEF Split, MigrationTyped
<1>2. CASE LegacyWrites
      BY <1>2, ElsewhereKeepsSplit DEF LegacyWrites
<1>3. CASE SnapshotBegins
  <2>1. SnapshotTool(tool')
        BY <1>3 DEF SnapshotBegins, SnapshotTool, Snapshotting
  <2> QED BY <1>3, <2>1, ElsewhereKeepsSplit DEF SnapshotBegins
<1>4. CASE ReadStats \/ ReadArchive \/ ReadList \/ WriteStats
  <2>1. tool.pc \in Snapshotting /\ UNCHANGED << marker, stored, stamped, judged, late, serving >>
        BY <1>4 DEF ReadStats, ReadArchive, ReadList, WriteStats, Snapshotting
  <2>2. SnapshotTool(tool)
        BY <1>1, <2>1, StepOrder DEF Idling, Snapshotting, ImportTool
  <2>3. PICK pc, left, bank, stats, listed :
           tool = [pc |-> pc, left |-> left, bank |-> bank, stats |-> stats, listed |-> listed]
        BY <2>2 DEF SnapshotTool
  <2>4. \E c \in Snapshotting : \E l, b, s, m :
           tool' = [pc |-> c, left |-> l, bank |-> b, stats |-> s, listed |-> m]
    <3>1. CASE ReadStats
      <4>1. \E l, b, s : tool' = [pc |-> "archive", left |-> l, bank |-> b, stats |-> s,
                                  listed |-> listed]
            BY <2>3, <3>1 DEF ReadStats
      <4> QED BY <4>1 DEF Snapshotting
    <3>2. CASE ReadArchive
      <4>1. tool' = [pc |-> "list", left |-> left, bank |-> bank, stats |-> stats,
                     listed |-> listed]
            BY <2>3, <3>2 DEF ReadArchive
      <4> QED BY <4>1 DEF Snapshotting
    <3>3. CASE ReadList
      <4>1. \E m : tool' = [pc |-> "stats", left |-> left, bank |-> bank, stats |-> stats,
                            listed |-> m]
            BY <2>3, <3>3 DEF ReadList
      <4> QED BY <4>1 DEF Snapshotting
    <3>4. CASE WriteStats
      <4>1. tool' = [pc |-> "seal", left |-> left, bank |-> bank, stats |-> stats,
                     listed |-> listed]
            BY <2>3, <3>4 DEF WriteStats
      <4> QED BY <4>1 DEF Snapshotting
    <3> QED BY <1>4, <3>1, <3>2, <3>3, <3>4
  <2>5. SnapshotTool(tool')
        BY <2>4 DEF SnapshotTool
  <2> QED BY <2>1, <2>5, ElsewhereKeepsSplit
<1>5. CASE Seal \/ Stop
      BY <1>5, ElsewhereKeepsSplit DEF Seal, Stop
<1> QED BY <1>2, <1>3, <1>4, <1>5

\* The guard of an import: no daemon, and banks with nothing in them unless
\* they are to be purged.
LEMMA ImportBeginsSplit ==
    ASSUME Split, ImportBegins
    PROVE  Split'
<1>1. UNCHANGED << marker, stored, stamped, judged, late, serving >> /\ ~serving
      BY DEF ImportBegins, frozen, database
<1>2. PICK replace \in BOOLEAN :
         LET work == {b \in LegacyBank : ~EmptyArchive(b)} IN
         /\ work # {}
         /\ \A b \in work : Available(b, replace)
         /\ tool' = [pc |-> "purge", bank |-> NextOf(work), left |-> work \ {NextOf(work)},
                     replace |-> replace, of |-> dir.sums]
      BY DEF ImportBegins
<1> DEFINE work == {b \in LegacyBank : ~EmptyArchive(b)}
<1>3. NextOf(work) \in work
      BY <1>2 DEF NextOf
<1>4. /\ tool'.pc = "purge" /\ tool'.bank = NextOf(work) /\ tool'.replace = replace
      /\ tool'.left = work \ {NextOf(work)}
      /\ tool' = [pc |-> tool'.pc, bank |-> tool'.bank, left |-> tool'.left,
                  replace |-> tool'.replace, of |-> tool'.of]
      BY <1>2
<1>5. ~replace => \A b \in work : RowsOf(b) = {}
      BY <1>2 DEF Available
<1>6. work \subseteq LegacyBank
      OBVIOUS
<1> HIDE DEF work
<1>7. ImportTool(tool)'
      BY <1>3, <1>4, <1>6, StepOrder DEF ImportTool
<1>8. MigrationTyped'
      BY <1>1, <1>7 DEF Split, MigrationTyped, StoredTyped
<1>9. RoundsAreSound' /\ (~late' => NativesAreSeen' /\ FactsAreSpared')
      BY <1>1 DEF Split, RoundsAreSound, NativesAreSeen, FactsAreSpared, RowsOf, OfKind
<1>10. ImportIsAlone'
      BY <1>1, <1>3, <1>4, <1>5 DEF ImportIsAlone, RowsOf
<1> QED BY <1>8, <1>9, <1>10 DEF Split

Middle == {"documents", "facts", "entities", "caused_by", "observations", "metadata",
           "temporal", "drain"}

\* The tool at the next step of the same bank.
LEMMA ToolAdvances ==
    ASSUME Split, tool.pc \in Importing, tool.pc # "done", Advances
    PROVE  /\ ImportTool(tool) /\ ImportTool(tool') /\ tool'.pc = StepAfter(tool.pc)
           /\ tool'.bank = tool.bank /\ tool'.left = tool.left /\ tool'.replace = tool.replace
           /\ tool'.of = tool.of
<1>1. ImportTool(tool)
      BY StepOrder DEF Split, MigrationTyped, Idling, SnapshotTool, Snapshotting
<1>2. PICK bank, left, replace, of, pc :
         tool = [pc |-> pc, bank |-> bank, left |-> left, replace |-> replace, of |-> of]
      BY <1>1 DEF ImportTool
<1>3. tool' = [pc |-> StepAfter(tool.pc), bank |-> bank, left |-> left, replace |-> replace,
               of |-> of]
      BY <1>2 DEF Advances
<1>4. StepAfter(tool.pc) \in Importing
      BY StepOrder
<1> QED BY <1>1, <1>2, <1>3, <1>4 DEF ImportTool

\* Steps between the marker and the watermark that add no row.
LEMMA MiddleKeepsSplit ==
    ASSUME Split, tool.pc \in Middle, Advances, Rewritten,
           UNCHANGED << marker, stamped, judged, late, serving >>
    PROVE  Split'
<1>1. tool.pc \in Importing /\ tool.pc \notin {"purge", "running", "done"}
      BY StepOrder DEF Middle
<1>2. /\ ImportTool(tool') /\ tool'.pc = StepAfter(tool.pc)
      /\ tool'.bank = tool.bank /\ tool'.left = tool.left /\ tool'.replace = tool.replace
      BY <1>1, ToolAdvances
<1>3. tool'.pc \notin {"purge", "running", "done"}
      BY <1>2, StepOrder DEF Middle
<1>4. /\ StoredTyped' /\ RoundsAreSound'
      /\ ~late => NativesAreSeen' /\ FactsAreSpared'
      /\ \A b : /\ RowsOf(b)' = RowsOf(b)
                /\ OfKind(b, "native")' = OfKind(b, "native")
                /\ OfKind(b, "fact")' = OfKind(b, "fact")
      BY RewritingKeeps
<1>5. MigrationTyped'
      BY <1>2, <1>4 DEF Split, MigrationTyped, ImportTool
<1>6. ~late => ImportIsAlone'
      BY <1>1, <1>2, <1>3, <1>4 DEF Split, ImportIsAlone
<1> QED BY <1>4, <1>5, <1>6 DEF Split

\* A migrated row goes into a bank that is marked as running.
LEMMA ImportedRowKeepsSplit ==
    ASSUME Split, tool.pc \in Middle, Advances,
           NEW kind \in {"fact", "own"}, NEW of, NEW embedded,
           stored' = Inserted(FreeRow, [bank |-> tool.bank, kind |-> kind, of |-> of,
                                        embedded |-> embedded]),
           UNCHANGED << marker, stamped, judged, late, serving >>
    PROVE  Split'
<1>1. tool.pc \in Importing /\ tool.pc \notin {"purge", "running", "done"}
      BY StepOrder DEF Middle
<1>2. /\ ImportTool(tool) /\ ImportTool(tool') /\ tool'.pc = StepAfter(tool.pc)
      /\ tool'.bank = tool.bank /\ tool'.left = tool.left /\ tool'.replace = tool.replace
      BY <1>1, ToolAdvances
<1>3. tool'.pc \notin {"purge", "running", "done"}
      BY <1>2, StepOrder DEF Middle
<1>4. PICK n : n = FreeRow
      OBVIOUS
<1>5. /\ StoredTyped' /\ DOMAIN stored' = DOMAIN stored \cup {n}
      /\ \A i \in DOMAIN stored : stored'[i] = stored[i] /\ i # n
      /\ stored'[n].bank = tool.bank /\ stored'[n].kind = kind
  <2>1. tool.bank \in LegacyBank /\ kind \in RowKinds /\ StoredTyped
        BY <1>2 DEF ImportTool, RowKinds, Split, MigrationTyped
  <2> QED BY <1>4, <2>1, RowInserted
<1>6. MigrationTyped'
      BY <1>2, <1>5 DEF Split, MigrationTyped, ImportTool
<1>7. n \notin DOMAIN stored
      BY <1>5
<1>8. /\ \A b : b # tool.bank => RowsOf(b)' = RowsOf(b)
      /\ \A b : RowsOf(b) \subseteq RowsOf(b)' /\ RowsOf(b)' \subseteq RowsOf(b) \cup {n}
      /\ \A b : OfKind(b, "native")' = OfKind(b, "native")
      /\ \A b : b # tool.bank => OfKind(b, "fact")' = OfKind(b, "fact")
      BY <1>5, <1>7 DEF RowsOf, OfKind
<1>9. RoundsAreSound'
  <2>1. \A i \in judged : i \in DOMAIN stored' /\ stored'[i].kind \in {"fact", "native"}
        BY <1>5 DEF Split, RoundsAreSound
  <2>2. \A b \in LegacyBank : stamped[b] = 0 \/ \E i \in RowsOf(b)' : stamped[b] <= i
        BY <1>8 DEF Split, RoundsAreSound
  <2> QED BY <2>1, <2>2 DEF RoundsAreSound
<1>10. n \notin judged
      BY <1>7 DEF Split, RoundsAreSound
<1>11. ~late => ImportIsAlone'
  <2>1. tool.bank \notin tool.left
        BY <1>2 DEF ImportTool
  <2> QED BY <1>1, <1>2, <1>3, <1>8, <1>10, <2>1 DEF Split, ImportIsAlone
<1>12. ~late => NativesAreSeen'
      BY <1>8 DEF Split, NativesAreSeen
<1>13. ~late => FactsAreSpared'
  <2>1. ~late => marker[tool.bank].state # "done"
        BY <1>1 DEF Split, ImportIsAlone
  <2> QED BY <1>8, <2>1 DEF Split, FactsAreSpared
<1> QED BY <1>6, <1>9, <1>11, <1>12, <1>13 DEF Split

\* Of a bank that is purged nothing is left that its marks are about.
LEMMA PurgeKeepsSplit ==
    ASSUME Split, Purge
    PROVE  Split'
<1>1. /\ tool.pc = "purge" /\ Advances /\ tool.pc \in Importing /\ tool.pc # "done"
      /\ UNCHANGED << marker, late, serving >>
      BY StepOrder DEF Purge, Outside
<1>2. /\ ImportTool(tool) /\ ImportTool(tool') /\ tool'.pc = "running"
      /\ tool'.bank = tool.bank /\ tool'.left = tool.left /\ tool'.replace = tool.replace
      BY <1>1, ToolAdvances, StepOrder
<1>3. tool.bank \in LegacyBank /\ tool.bank \notin tool.left
      BY <1>2 DEF ImportTool
<1>4. CASE tool.replace
  <2>1. /\ stored' = Without(RowsOf(tool.bank)) /\ judged' = judged \ RowsOf(tool.bank)
        /\ stamped' = [stamped EXCEPT ![tool.bank] = 0]
        BY <1>4 DEF Purge, PurgedRuns
  <2>2. /\ StoredTyped' /\ DOMAIN stored' = DOMAIN stored \ RowsOf(tool.bank)
        /\ \A i \in DOMAIN stored' : stored'[i] = stored[i]
        BY <2>1, RowsDeleted DEF Split, MigrationTyped
  <2>3. /\ RowsOf(tool.bank)' = {} /\ \A kind : OfKind(tool.bank, kind)' = {}
        /\ \A b : b # tool.bank => RowsOf(b)' = RowsOf(b)
                    /\ \A kind : OfKind(b, kind)' = OfKind(b, kind)
        BY <1>2, <2>2 DEF RowsOf, OfKind
  <2>4. /\ stamped' \in [LegacyBank -> Nat] /\ stamped'[tool.bank] = 0
        /\ \A b \in LegacyBank \ {tool.bank} : stamped'[b] = stamped[b]
        BY <1>3, <2>1 DEF Split, MigrationTyped
  <2>5. MigrationTyped'
        BY <1>1, <1>2, <2>2, <2>4 DEF Split, MigrationTyped, ImportTool
  <2>6. RoundsAreSound'
    <3>1. \A i \in judged' : i \in DOMAIN stored' /\ stored'[i].kind \in {"fact", "native"}
          BY <2>1, <2>2 DEF Split, RoundsAreSound
    <3>2. \A b \in LegacyBank : stamped'[b] = 0 \/ \E i \in RowsOf(b)' : stamped'[b] <= i
          BY <2>3, <2>4 DEF Split, RoundsAreSound
    <3> QED BY <3>1, <3>2 DEF RoundsAreSound
  <2>7. ~late => ImportIsAlone'
        BY <1>1, <1>2, <1>4, <2>3 DEF Split, ImportIsAlone
  <2>8. ~late => NativesAreSeen'
    <3>1. ASSUME ~late, NEW b \in LegacyBank, NEW i \in OfKind(b, "native")',
                 i <= stamped'[b]
          PROVE  i \in judged'
      <4>a. b # tool.bank
            BY <2>3, <3>1
      <4>b. i \in OfKind(b, "native")
            BY <2>3, <3>1, <4>a
      <4>c. stamped'[b] = stamped[b]
            BY <2>4, <4>a
      <4>1. b # tool.bank /\ i \in OfKind(b, "native") /\ i <= stamped[b]
            BY <3>1, <4>a, <4>b, <4>c
      <4>2. i \in judged /\ i \notin RowsOf(tool.bank)
            BY <3>1, <4>1 DEF Split, NativesAreSeen, OfKind, RowsOf
      <4> QED BY <2>1, <4>2
    <3> QED BY <3>1 DEF NativesAreSeen
  <2>9. ~late => FactsAreSpared'
    <3>1. ASSUME ~late, NEW b \in LegacyBank, marker[b].state = "done",
                 NEW i \in OfKind(b, "fact")'
          PROVE  i <= stamped'[b] /\ i \notin judged'
      <4>1. b # tool.bank /\ i \in OfKind(b, "fact") /\ stamped'[b] = stamped[b]
            BY ZenonT(60), <2>3, <2>4, <3>1
      <4>2. i <= stamped[b] /\ i \notin judged
            BY <3>1, <4>1 DEF Split, FactsAreSpared
      <4> QED BY <2>1, <4>1, <4>2
    <3> QED BY <1>1, <3>1 DEF FactsAreSpared
  <2> QED BY <1>1, <2>5, <2>6, <2>7, <2>8, <2>9 DEF Split
<1>5. CASE ~tool.replace
  <2>1. UNCHANGED << stored, judged, stamped >>
        BY <1>5 DEF Purge
  <2>2. MigrationTyped'
        BY <1>1, <1>2, <2>1 DEF Split, MigrationTyped, StoredTyped, ImportTool
  <2>3. RoundsAreSound' /\ (~late => NativesAreSeen' /\ FactsAreSpared')
        BY <1>1, <2>1 DEF Split, RoundsAreSound, NativesAreSeen, FactsAreSpared, RowsOf, OfKind
  <2>4. ~late => ImportIsAlone'
        BY <1>1, <1>2, <1>5, <2>1 DEF Split, ImportIsAlone, RowsOf, OfKind
  <2> QED BY <1>1, <2>2, <2>3, <2>4 DEF Split
<1> QED BY <1>4, <1>5

LEMMA MarkRunningKeepsSplit ==
    ASSUME Split, MarkRunning
    PROVE  Split'
<1>1. /\ tool.pc = "running" /\ Advances /\ tool.pc \in Importing /\ tool.pc # "done"
      /\ UNCHANGED << stored, stamped, judged, late, serving >>
      /\ marker' = [marker EXCEPT ![tool.bank] = [state |-> "running", of |-> tool.of]]
      BY StepOrder DEF MarkRunning, Outside
<1>2. /\ ImportTool(tool) /\ ImportTool(tool') /\ tool'.pc = "documents"
      /\ tool'.bank = tool.bank /\ tool'.left = tool.left /\ tool'.replace = tool.replace
      BY <1>1, ToolAdvances, StepOrder
<1>3. tool.bank \in LegacyBank
      BY <1>2 DEF ImportTool
<1>4. /\ DOMAIN marker' = LegacyBank /\ marker'[tool.bank].state = "running"
      /\ \A b \in LegacyBank : b # tool.bank => marker'[b] = marker[b]
      BY <1>1, <1>3 DEF Split, MigrationTyped
<1>5. MigrationTyped'
      BY <1>1, <1>2, <1>4 DEF Split, MigrationTyped, StoredTyped, ImportTool
<1>6. RoundsAreSound' /\ (~late' => NativesAreSeen')
      BY <1>1 DEF Split, RoundsAreSound, NativesAreSeen, RowsOf, OfKind
<1>7. ~late' => FactsAreSpared'
      BY <1>1, <1>4 DEF Split, FactsAreSpared, RowsOf, OfKind
<1>8. ~late' => ImportIsAlone'
      BY <1>1, <1>2, <1>4 DEF Split, ImportIsAlone, RowsOf, OfKind
<1> QED BY <1>5, <1>6, <1>7, <1>8 DEF Split

\* The watermark is set to the greatest row of the bank, with no native fact
\* in it.
LEMMA WatermarkKeepsSplit ==
    ASSUME Split, Watermark
    PROVE  Split'
<1>1. /\ tool.pc = "watermark" /\ Advances /\ tool.pc \in Importing /\ tool.pc # "done"
      /\ UNCHANGED << marker, stored, judged, late, serving >>
      /\ stamped' = [stamped EXCEPT ![tool.bank] = Max({@} \cup RowsOf(tool.bank))]
      BY StepOrder DEF Watermark, Outside
<1>2. /\ ImportTool(tool) /\ ImportTool(tool') /\ tool'.pc = "done"
      /\ tool'.bank = tool.bank /\ tool'.left = tool.left /\ tool'.replace = tool.replace
      BY <1>1, ToolAdvances, StepOrder
<1>3. tool.bank \in LegacyBank /\ StoredTyped /\ stamped \in [LegacyBank -> Nat]
      BY <1>2 DEF ImportTool, Split, MigrationTyped
<1>4. PICK m : m = stamped'[tool.bank]
      OBVIOUS
<1>5. /\ m \in Nat /\ stamped[tool.bank] <= m /\ \A i \in RowsOf(tool.bank) : i <= m
      /\ m = stamped[tool.bank] \/ m \in RowsOf(tool.bank)
  <2> DEFINE K == {stamped[tool.bank]} \cup RowsOf(tool.bank)
  <2>1. PICK n \in Nat : DOMAIN stored \subseteq 1 .. n
        BY <1>3 DEF StoredTyped
  <2>2. K \in SUBSET Nat /\ K # {} /\ \A x \in K : x <= n + stamped[tool.bank]
        BY <1>3, <2>1 DEF RowsOf
  <2>3. n + stamped[tool.bank] \in Nat
        BY <1>3
  <2> HIDE DEF K
  <2>4. Max(K) \in K /\ \A x \in K : x <= Max(K)
        BY <2>2, <2>3, MaxIsGreatest
  <2>5. m = Max(K)
        BY <1>1, <1>3, <1>4 DEF K
  <2> QED BY <2>2, <2>4, <2>5 DEF K
<1>6. /\ stamped' \in [LegacyBank -> Nat] /\ stamped'[tool.bank] = m
      /\ \A b \in LegacyBank : b # tool.bank => stamped'[b] = stamped[b]
  <2>1. stamped' = [stamped EXCEPT ![tool.bank] = m]
        BY <1>1, <1>3, <1>4
  <2> QED BY <1>3, <1>5, <2>1
<1>7. MigrationTyped'
      BY <1>1, <1>2, <1>6 DEF Split, MigrationTyped, StoredTyped, ImportTool
<1>8. RoundsAreSound'
  <2>1. \A b \in LegacyBank : stamped'[b] = 0 \/ \E i \in RowsOf(b) : stamped'[b] <= i
    <3> TAKE b \in LegacyBank
    <3>1. CASE b # tool.bank
          BY <1>6, <3>1 DEF Split, RoundsAreSound
    <3>2. CASE b = tool.bank /\ m \in RowsOf(tool.bank)
          BY <1>5, <1>6, <3>2
    <3>3. CASE b = tool.bank /\ m = stamped[tool.bank]
          BY <1>6, <3>3 DEF Split, RoundsAreSound
    <3> QED BY <1>5, <3>1, <3>2, <3>3
  <2> QED BY <1>1, <2>1 DEF Split, RoundsAreSound, RowsOf
<1>9. ~late' => ImportIsAlone'
  <2>1. \A i \in OfKind(tool.bank, "fact") : i <= m
        BY <1>5 DEF OfKind
  <2>2. /\ ~late => /\ ~serving /\ (~tool.replace => \A b \in tool.left : RowsOf(b) = {})
                    /\ OfKind(tool.bank, "native") = {} /\ RowsOf(tool.bank) \cap judged = {}
                    /\ marker[tool.bank].state = "running"
        BY <1>1 DEF Split, ImportIsAlone
  <2>3. \A b : RowsOf(b)' = RowsOf(b)
        BY <1>1 DEF RowsOf
  <2>4. \A b, kind : OfKind(b, kind)' = OfKind(b, kind)
        BY <1>1, <2>3 DEF OfKind
  <2>5. \A i \in OfKind(tool.bank, "fact") : i <= stamped'[tool.bank]
        BY <1>6, <2>1
  <2>6. /\ RowsOf(tool.bank)' = RowsOf(tool.bank)
        /\ \A kind : OfKind(tool.bank, kind)' = OfKind(tool.bank, kind)
        BY <1>1, <1>2 DEF RowsOf, OfKind
  <2> QED BY <1>1, <1>2, <2>2, <2>3, <2>5, <2>6, ZenonT(60) DEF ImportIsAlone
<1>10. ~late' => NativesAreSeen'
  <2>1. ~late => OfKind(tool.bank, "native") = {}
        BY <1>1 DEF Split, ImportIsAlone
  <2>2. ASSUME ~late PROVE NativesAreSeen'
    <3>1. \A b \in LegacyBank : \A i \in OfKind(b, "native") : i <= stamped'[b] => i \in judged
          BY <1>6, <2>1, <2>2 DEF Split, NativesAreSeen
    <3> QED BY <1>1, <3>1 DEF NativesAreSeen, OfKind, RowsOf
  <2> QED BY <1>1, <2>2
<1>11. ~late' => FactsAreSpared'
  <2>1. ~late => marker[tool.bank].state # "done"
        BY <1>1 DEF Split, ImportIsAlone
  <2>2. ASSUME ~late PROVE FactsAreSpared'
    <3>1. \A b \in LegacyBank :
             marker[b].state = "done" =>
                \A i \in OfKind(b, "fact") : i <= stamped'[b] /\ i \notin judged
          BY <1>6, <2>1, <2>2 DEF Split, FactsAreSpared
    <3> QED BY <1>1, <3>1 DEF FactsAreSpared, OfKind, RowsOf
  <2> QED BY <1>1, <2>2
<1> QED BY <1>7, <1>8, <1>9, <1>10, <1>11 DEF Split

\* The marker, done; the next bank, which has been nobody's since the guard.
LEMMA MarkDoneKeepsSplit ==
    ASSUME Split, MarkDone
    PROVE  Split'
<1>1. /\ tool.pc = "done" /\ tool.pc \in Importing
      /\ UNCHANGED << stored, stamped, judged, late, serving >>
      /\ marker' = [marker EXCEPT ![tool.bank] = [state |-> "done", of |-> tool.of]]
      BY StepOrder DEF MarkDone, Outside
<1>2. ImportTool(tool)
      BY <1>1, StepOrder DEF Split, MigrationTyped, Idling, SnapshotTool, Snapshotting
<1>3. tool.bank \in LegacyBank /\ tool.left \subseteq LegacyBank \ {tool.bank}
      BY <1>2 DEF ImportTool
<1>4. /\ DOMAIN marker' = LegacyBank
      /\ \A b \in LegacyBank : b # tool.bank => marker'[b] = marker[b]
      BY <1>1, <1>3 DEF Split, MigrationTyped
<1>5. \/ tool' = Idling
      \/ /\ tool'.pc = "purge" /\ tool'.bank \in tool.left /\ tool'.replace = tool.replace
         /\ tool'.left = tool.left \ {tool'.bank} /\ ImportTool(tool')
  <2>1. CASE tool.left = {}
        BY <2>1 DEF MarkDone
  <2>2. CASE tool.left # {}
    <3>1. NextOf(tool.left) \in tool.left
          BY <2>2 DEF NextOf
    <3>2. PICK next : next = NextOf(tool.left)
          OBVIOUS
    <3>3. PICK bank, left, replace, of, pc :
             tool = [pc |-> pc, bank |-> bank, left |-> left, replace |-> replace, of |-> of]
          BY <1>2 DEF ImportTool
    <3>4. tool' = [tool EXCEPT !.pc = "purge", !.bank = next, !.left = @ \ {next}]
          BY <2>2, <3>2 DEF MarkDone
    <3>5. tool' = [pc |-> "purge", bank |-> next, left |-> left \ {next}, replace |-> replace,
                   of |-> of]
          BY <3>3, <3>4
    <3> QED BY <1>3, <3>1, <3>2, <3>3, <3>5, StepOrder DEF ImportTool
  <2> QED BY <2>1, <2>2
<1>6. MigrationTyped'
      BY <1>1, <1>4, <1>5 DEF Split, MigrationTyped, StoredTyped, ImportTool
<1>7. RoundsAreSound' /\ (~late' => NativesAreSeen')
      BY <1>1 DEF Split, RoundsAreSound, NativesAreSeen, RowsOf, OfKind
<1>8. ~late' => FactsAreSpared'
  <2>1. ~late => \A i \in OfKind(tool.bank, "fact") : i <= stamped[tool.bank] /\ i \notin judged
        BY <1>1 DEF Split, ImportIsAlone, OfKind
  <2>2. ASSUME ~late PROVE FactsAreSpared'
    <3>1. \A b \in LegacyBank :
             marker'[b].state = "done" =>
                \A i \in OfKind(b, "fact") : i <= stamped[b] /\ i \notin judged
          BY <1>4, <2>1, <2>2 DEF Split, FactsAreSpared
    <3> QED BY <1>1, <3>1 DEF FactsAreSpared, OfKind, RowsOf
  <2> QED BY <1>1, <2>2
<1>9. ~late' => ImportIsAlone'
  <2>1. CASE tool' = Idling
        BY <2>1, StepOrder DEF ImportIsAlone, Idling
  <2>2. CASE tool' # Idling
        BY <1>1, <1>5, <2>2 DEF Split, ImportIsAlone, RowsOf, OfKind
  <2> QED BY <2>1, <2>2
<1> QED BY <1>6, <1>7, <1>8, <1>9 DEF Split

LEMMA ImportKeepsSplit ==
    ASSUME Split, ImportStep
    PROVE  Split'
<1>1. CASE Documents \/ Derive
  <2>1. /\ tool.pc \in Middle /\ Advances
        /\ UNCHANGED << stored, marker, stamped, judged, late, serving >>
        BY <1>1 DEF Documents, Derive, Outside, Middle, Kinds
  <2> QED BY <2>1, SameIsRewritten, MiddleKeepsSplit
<1>2. CASE Metadata
  <2>1. /\ tool.pc \in Middle /\ Advances
        /\ UNCHANGED << marker, stamped, judged, late, serving >>
        BY <1>2 DEF Metadata, Outside, Middle
  <2> QED BY <1>2, <2>1, DescribedRows, MiddleKeepsSplit
<1>3. CASE Drain
  <2>1. /\ tool.pc \in Middle /\ Advances
        /\ UNCHANGED << marker, stamped, judged, late, serving >>
        /\ stored' = stored \/ stored' = Embedded(tool.bank)
        BY <1>3 DEF Drain, Outside, Middle
  <2>2. Rewritten
        BY <2>1, SameIsRewritten, EmbeddedRows DEF Split, MigrationTyped
  <2> QED BY <2>1, <2>2, MiddleKeepsSplit
<1>4. CASE Facts
  <2>1. /\ tool.pc \in Middle /\ Advances
        /\ UNCHANGED << marker, stamped, judged, late, serving >>
        /\ stored' = Inserted(FreeRow, [bank |-> tool.bank, kind |-> "fact", of |-> Archived,
                                        embedded |-> FALSE])
        BY <1>4 DEF Facts, Outside, Middle
  <2> QED BY <2>1, ImportedRowKeepsSplit
<1>5. CASE Observations
  <2>1. /\ tool.pc \in Middle /\ Advances
        /\ UNCHANGED << marker, stamped, judged, late, serving >>
        /\ stored' = Inserted(FreeRow, [bank |-> tool.bank, kind |-> "own", of |-> Archived,
                                        embedded |-> TRUE])
        BY <1>5 DEF Observations, Outside, Middle
  <2> QED BY <2>1, ImportedRowKeepsSplit
<1> QED BY <1>1, <1>2, <1>3, <1>4, <1>5, PurgeKeepsSplit, MarkRunningKeepsSplit,
           WatermarkKeepsSplit, MarkDoneKeepsSplit
        DEF ImportStep

-----------------------------------------------------------------------------

\* A daemon that is started under an import is the exception.
LEMMA ServeKeepsSplit ==
    ASSUME Split, Serve \/ Shutdown
    PROVE  Split'
<1>1. UNCHANGED << tool, marker, stored, stamped, judged >>
      BY DEF Serve, Shutdown, database, frozen
<1>2. MigrationTyped' /\ RoundsAreSound'
      BY <1>1 DEF Split, MigrationTyped, StoredTyped, SnapshotTool, ImportTool, RoundsAreSound,
                  RowsOf
<1>3. /\ ~late' => ~late
      /\ ~late' /\ tool.pc \in Importing => ~serving'
  <2>1. CASE Shutdown
        BY <2>1 DEF Shutdown
  <2>2. CASE Serve
    <3>1. late' = (late \/ (tool.pc \in Importing))
          BY <2>2 DEF Serve, Importing
    <3> QED BY <3>1, Zenon
  <2> QED BY <2>1, <2>2
<1>4. ~late' => NativesAreSeen' /\ FactsAreSpared'
      BY <1>1, <1>3 DEF Split, NativesAreSeen, FactsAreSpared, RowsOf, OfKind
<1>5. ~late' => ImportIsAlone'
      BY <1>1, <1>3 DEF Split, ImportIsAlone, RowsOf, OfKind
<1> QED BY <1>2, <1>4, <1>5 DEF Split

\* Where the daemon runs there is no import, but for the exception.
LEMMA ServedIsNotImported ==
    ASSUME Split, serving, UNCHANGED << tool, late >>
    PROVE  ~late' => ImportIsAlone'
BY DEF Split, ImportIsAlone

\* A fact the daemon retains is above the mark of its bank.
LEMMA RetainKeepsSplit ==
    ASSUME Split, RetainNative
    PROVE  Split'
<1>1. serving /\ UNCHANGED << tool, marker, stamped, judged, late, serving >>
      BY DEF RetainNative, frozen
<1>2. PICK b \in LegacyBank :
         stored' = Inserted(FreeRow, [bank |-> b, kind |-> "native", of |-> NoFile,
                                      embedded |-> FALSE])
      BY DEF RetainNative
<1>3. PICK n : n = FreeRow
      OBVIOUS
<1>4. /\ StoredTyped' /\ DOMAIN stored' = DOMAIN stored \cup {n}
      /\ \A i \in DOMAIN stored : stored'[i] = stored[i] /\ i # n
      /\ stored'[n].bank = b /\ stored'[n].kind = "native"
  <2>1. "native" \in RowKinds /\ StoredTyped
        BY DEF RowKinds, Split, MigrationTyped
  <2> QED BY <1>2, <1>3, <2>1, RowInserted
<1>5. n \in Nat \ {0} /\ \A i \in DOMAIN stored : i \in Nat /\ i < n
      BY <1>3, FreeRowIsAbove DEF Split, MigrationTyped
<1>6. MigrationTyped'
      BY <1>1, <1>4 DEF Split, MigrationTyped, SnapshotTool, ImportTool
<1>7. /\ \A c : RowsOf(c) \subseteq RowsOf(c)'
      /\ \A c : OfKind(c, "native")' \subseteq OfKind(c, "native") \cup {n}
      /\ \A c : OfKind(c, "fact")' = OfKind(c, "fact")
      BY <1>4 DEF RowsOf, OfKind
<1>8. RoundsAreSound'
  <2>1. \A i \in judged : i \in DOMAIN stored' /\ stored'[i].kind \in {"fact", "native"}
        BY <1>4 DEF Split, RoundsAreSound
  <2>2. \A c \in LegacyBank : stamped[c] = 0 \/ \E i \in RowsOf(c)' : stamped[c] <= i
        BY <1>7 DEF Split, RoundsAreSound
  <2> QED BY <1>1, <2>1, <2>2 DEF RoundsAreSound
<1>9. \A c \in LegacyBank : ~(n <= stamped[c])
  <2> TAKE c \in LegacyBank
  <2>1. stamped[c] \in Nat /\ (stamped[c] = 0 \/ \E i \in RowsOf(c) : stamped[c] <= i)
        BY DEF Split, MigrationTyped, RoundsAreSound
  <2>2. \A i \in RowsOf(c) : i \in Nat /\ i < n
        BY <1>5 DEF RowsOf
  <2> QED BY <1>5, <2>1, <2>2
<1>10. ~late' => NativesAreSeen'
      BY <1>1, <1>7, <1>9 DEF Split, NativesAreSeen
<1>11. ~late' => FactsAreSpared'
      BY <1>1, <1>7 DEF Split, FactsAreSpared
<1>12. ~late' => ImportIsAlone'
      BY <1>1, ServedIsNotImported
<1> QED BY <1>6, <1>8, <1>10, <1>11, <1>12 DEF Split

\* A round decides on all facts above the mark, which it moves to the greatest
\* of them; a row it deletes is no fact.
LEMMA RoundKeepsSplit ==
    ASSUME Split, ReconsolidateBank
    PROVE  Split'
<1>1. serving /\ UNCHANGED << tool, marker, late, serving >>
      BY DEF ReconsolidateBank, frozen
<1>2. PICK b \in LegacyBank :
          LET found == {i \in OfKind(b, "fact") \cup OfKind(b, "native") : i > stamped[b]}
              seen == OfKind(b, "observation") \cup OfKind(b, "own")
          IN  /\ found # {}
              /\ judged' = judged \cup found
              /\ stamped' = [stamped EXCEPT ![b] = Max(found)]
              /\ \/ stored' = Inserted(FreeRow, [bank |-> b, kind |-> "own", of |-> NoFile,
                                                 embedded |-> TRUE])
                 \/ \E i \in seen : stored' = Without({i})
      BY DEF ReconsolidateBank
<1>3. PICK found :
         found = {i \in OfKind(b, "fact") \cup OfKind(b, "native") : i > stamped[b]}
      OBVIOUS
<1>4. /\ found # {} /\ judged' = judged \cup found
      /\ stamped' = [stamped EXCEPT ![b] = Max(found)]
      /\ \/ stored' = Inserted(FreeRow, [bank |-> b, kind |-> "own", of |-> NoFile,
                                         embedded |-> TRUE])
         \/ \E i \in OfKind(b, "observation") \cup OfKind(b, "own") : stored' = Without({i})
      BY <1>2, <1>3
<1>5. StoredTyped /\ stamped \in [LegacyBank -> Nat]
      BY DEF Split, MigrationTyped
<1>6. PICK m : m = Max(found)
      OBVIOUS
<1>7. m \in found /\ \A i \in found : i <= m
  <2>1. found \subseteq DOMAIN stored
        BY <1>3 DEF OfKind, RowsOf
  <2> QED BY <1>4, <1>5, <1>6, <2>1, GreatestRow
<1>8. \A i \in DOMAIN stored : i \in Nat
      BY <1>5 DEF StoredTyped
<1>9. m \in Nat /\ m > stamped[b] /\ m \in DOMAIN stored
      BY <1>3, <1>7, <1>8 DEF OfKind, RowsOf
<1>10. /\ stamped' \in [LegacyBank -> Nat] /\ stamped'[b] = m
       /\ \A c \in LegacyBank : c # b => stamped'[c] = stamped[c]
  <2>1. stamped' = [stamped EXCEPT ![b] = m]
        BY <1>4, <1>6
  <2> QED BY <1>5, <1>9, <2>1
\* Facts stay, and stay what they are; the others are of this bank.
<1>11. /\ StoredTyped'
       /\ \A i \in DOMAIN stored : stored[i].kind \in {"fact", "native"} \/ stored[i].bank # b
             => i \in DOMAIN stored' /\ stored'[i] = stored[i]
       /\ \A c : OfKind(c, "native")' = OfKind(c, "native")
       /\ \A c : OfKind(c, "fact")' = OfKind(c, "fact")
  <2>1. ASSUME stored' = Inserted(FreeRow, [bank |-> b, kind |-> "own", of |-> NoFile,
                                            embedded |-> TRUE])
        PROVE  /\ StoredTyped' /\ DOMAIN stored' = DOMAIN stored \cup {FreeRow}
               /\ \A i \in DOMAIN stored : stored'[i] = stored[i] /\ i # FreeRow
               /\ stored'[FreeRow].kind = "own"
    <3>1. "own" \in RowKinds
          BY DEF RowKinds
    <3> QED BY <1>5, <2>1, <3>1, RowInserted
  <2>2. ASSUME NEW d \in OfKind(b, "observation") \cup OfKind(b, "own"), stored' = Without({d})
        PROVE  /\ StoredTyped' /\ DOMAIN stored' = DOMAIN stored \ {d}
               /\ \A i \in DOMAIN stored' : stored'[i] = stored[i]
               /\ stored[d].kind \notin {"fact", "native"} /\ stored[d].bank = b
          BY <1>5, <2>2, RowsDeleted DEF OfKind, RowsOf
  <2>3. PICK n : n = FreeRow
        OBVIOUS
  <2>4. \/ /\ StoredTyped' /\ DOMAIN stored' = DOMAIN stored \cup {n}
           /\ \A i \in DOMAIN stored : stored'[i] = stored[i] /\ i # n
           /\ stored'[n].kind = "own"
        \/ \E d : /\ StoredTyped' /\ DOMAIN stored' = DOMAIN stored \ {d}
                  /\ \A i \in DOMAIN stored' : stored'[i] = stored[i]
                  /\ stored[d].kind \notin {"fact", "native"} /\ stored[d].bank = b
        BY <1>4, <2>1, <2>2, <2>3
  <2> QED BY <2>4 DEF OfKind, RowsOf
<1>12. MigrationTyped'
      BY <1>1, <1>10, <1>11 DEF Split, MigrationTyped, SnapshotTool, ImportTool
<1>13. RoundsAreSound'
  <2>1. \A i \in judged' : i \in DOMAIN stored' /\ stored'[i].kind \in {"fact", "native"}
        BY <1>3, <1>4, <1>11 DEF Split, RoundsAreSound, OfKind, RowsOf
  <2>2. ASSUME NEW c \in LegacyBank
        PROVE  stamped'[c] = 0 \/ \E i \in RowsOf(c)' : stamped'[c] <= i
    <3>1. CASE c = b
      <4>1. m \in RowsOf(b)'
            BY <1>3, <1>7, <1>11 DEF OfKind, RowsOf
      <4> QED BY <1>9, <1>10, <3>1, <4>1
    <3>2. CASE c # b
      <4>1. RowsOf(c) \subseteq RowsOf(c)'
            BY <1>11, <3>2 DEF RowsOf
      <4> QED BY <1>10, <3>2, <4>1 DEF Split, RoundsAreSound
    <3> QED BY <3>1, <3>2
  <2> QED BY <2>1, <2>2 DEF RoundsAreSound
<1>14. ~late' => NativesAreSeen'
  <2>1. ASSUME ~late, NEW c \in LegacyBank, NEW i \in OfKind(c, "native"), i <= stamped'[c]
        PROVE  i \in judged \cup found
    <3>1. CASE c # b
          BY <1>10, <2>1, <3>1 DEF Split, NativesAreSeen
    <3>2. CASE c = b
      <4>1. i \in Nat /\ stamped[b] \in Nat
            BY <1>5, <1>8 DEF OfKind, RowsOf
      <4>2. CASE i <= stamped[b]
            BY <2>1, <3>2, <4>2 DEF Split, NativesAreSeen
      <4>3. CASE i > stamped[b]
            BY <1>3, <3>2, <4>3
      <4> QED BY <4>1, <4>2, <4>3
    <3> QED BY <3>1, <3>2
  <2> QED BY <1>1, <1>4, <1>11, <2>1 DEF NativesAreSeen
<1>15. ~late' => FactsAreSpared'
  <2>1. ASSUME ~late, NEW c \in LegacyBank, marker[c].state = "done",
               NEW i \in OfKind(c, "fact")
        PROVE  i <= stamped'[c] /\ i \notin judged \cup found
    <3>1. i <= stamped[c] /\ i \notin judged /\ i \in Nat /\ stamped[c] \in Nat
          BY <1>5, <1>8, <2>1 DEF Split, FactsAreSpared, OfKind, RowsOf
    <3>2. stamped[c] <= stamped'[c] /\ stamped'[c] \in Nat
          BY <1>5, <1>9, <1>10
    <3>3. i \notin found
      <4>1. CASE c = b
            BY <1>3, <1>5, <3>1, <4>1
      <4>2. CASE c # b
            BY <1>3, <4>2 DEF OfKind, RowsOf
      <4> QED BY <4>1, <4>2
    <3> QED BY <3>1, <3>2, <3>3
  <2> QED BY <1>1, <1>4, <1>11, <2>1 DEF FactsAreSpared
<1>16. ~late' => ImportIsAlone'
      BY <1>1, ServedIsNotImported
<1> QED BY <1>12, <1>13, <1>14, <1>15, <1>16 DEF Split

LEMMA DaemonDrainKeepsSplit ==
    ASSUME Split, DaemonDrain
    PROVE  Split'
<1>1. serving /\ UNCHANGED << tool, marker, stamped, judged, late, serving >>
      BY DEF DaemonDrain, frozen
<1>2. Rewritten
      BY EmbeddedRows DEF DaemonDrain, Split, MigrationTyped
<1>3. /\ StoredTyped' /\ RoundsAreSound'
      /\ ~late => NativesAreSeen' /\ FactsAreSpared'
      BY <1>1, <1>2, RewritingKeeps
<1>4. MigrationTyped'
      BY <1>1, <1>3 DEF Split, MigrationTyped, SnapshotTool, ImportTool
<1>5. ~late' => ImportIsAlone'
      BY <1>1, ServedIsNotImported
<1> QED BY <1>1, <1>3, <1>4, <1>5 DEF Split

\* What is carried along holds always.
LEMMA SplitAlways == MigrationSpec => []Split
<1>1. MigrationInit => Split
  <2> SUFFICES ASSUME MigrationInit PROVE Split
        OBVIOUS
  <2> USE DEF MigrationInit
  <2>1. DOMAIN stored = {} /\ DOMAIN stored \subseteq 1 .. 0
        OBVIOUS
  <2>2. MigrationTyped
        BY <2>1 DEF MigrationTyped, StoredTyped
  <2>3. RoundsAreSound /\ NativesAreSeen
        BY <2>1 DEF RoundsAreSound, NativesAreSeen, OfKind, RowsOf
  <2>4. FactsAreSpared
        BY DEF FactsAreSpared, NoMarker
  <2>5. ImportIsAlone
        BY StepOrder DEF ImportIsAlone, Idling
  <2> QED BY <2>2, <2>3, <2>4, <2>5 DEF Split
<1>2. Split /\ [MigrationNext]_migrationVars => Split'
  <2> SUFFICES ASSUME Split, [MigrationNext]_migrationVars PROVE Split'
        OBVIOUS
  <2>1. CASE MigrationNext
        BY <2>1, SnapshotKeepsSplit, ImportBeginsSplit, ImportKeepsSplit, ServeKeepsSplit,
           RetainKeepsSplit, RoundKeepsSplit, DaemonDrainKeepsSplit
        DEF MigrationNext
  <2>2. CASE UNCHANGED migrationVars
        BY <2>2, ElsewhereKeepsSplit DEF migrationVars
  <2> QED BY <2>1, <2>2
<1> QED BY <1>1, <1>2, PTL DEF MigrationSpec

\* No round re-derives a migrated fact of a finished import, and none misses a
\* fact the daemon retained, however imports, kills, rounds and purges came
\* before, unless a daemon was started under an import.
THEOREM MarksSplit == MigrationSpec => []WatermarkSplits
<1>1. Split => WatermarkSplits
      BY DEF Split, NativesAreSeen, FactsAreSpared, WatermarkSplits
<1> QED BY <1>1, SplitAlways, PTL

-----------------------------------------------------------------------------
(***************************************************************************)
(* Migration: what a marker or a verdict says of a bank is so.  What is    *)
(* carried along: a row of a legacy bank tells which archive it is of, and *)
(* a bank has at most one row of facts and one of observations from        *)
(* archives; an import finds its banks without such rows unless it purges  *)
(* them, and has written what the steps behind it write.                   *)
(***************************************************************************)

File == [nodes : Nat, edition : Nat]

FilesTyped ==
    /\ legacy \in [LegacyBank -> File]
    /\ dir = [stats |-> dir.stats, archive |-> dir.archive, sums |-> dir.sums]
    /\ dir.archive \in [LegacyBank -> File \cup {NoFile}]
    /\ DOMAIN docs = LegacyBank /\ derived \in [LegacyBank -> SUBSET Kinds]

\* The rows of one archive: its facts; its observations, which are rows like
\* the daemon's own until their metadata is written.
SameSort(k, l) == (k = "fact" /\ l = "fact") \/ {k, l} \subseteq {"own", "observation"}
RowsTell ==
    /\ \A i \in DOMAIN stored :
          stored[i].kind \in {"fact", "observation"} => stored[i].of # NoFile
    /\ \A i, j \in DOMAIN stored :
          /\ stored[i].bank = stored[j].bank /\ stored[i].of # NoFile /\ stored[j].of # NoFile
          /\ SameSort(stored[i].kind, stored[j].kind)
          => i = j

\* No row is of an archive; none is of another archive; the facts of one are
\* there; no observation is of an archive; what is migrated is all of one.
Clean(b) == \A i \in RowsOf(b) : stored[i].of = NoFile
Bears(b, f) == \A i \in RowsOf(b) : stored[i].of \in {NoFile, f}
HasFacts(b, f) == \E i \in OfKind(b, "fact") : stored[i].of = f
NoneSeen(b) == \A i \in OfKind(b, "own") \cup OfKind(b, "observation") : stored[i].of = NoFile
AllOf(b, f) == \A i \in Migrated(b) : stored[i].of = f

\* What the steps behind this one have written of a bank whose archive is f.
Written(pc, b, f) ==
    /\ pc \in {"running", "documents", "facts"} => Clean(b)
    /\ pc \notin {"purge", "running"} => marker[b].state = "running" /\ Bears(b, f)
    /\ pc \notin {"purge", "running", "documents"} => docs[b] = f.edition
    /\ pc \notin {"purge", "running", "documents", "facts"} => HasFacts(b, f)
    /\ pc \in {"entities", "caused_by", "observations"} => NoneSeen(b)
    /\ pc \in {"caused_by", "observations", "metadata", "temporal", "drain", "watermark",
               "done"} => "entities" \in derived[b]
    /\ pc \in {"observations", "metadata", "temporal", "drain", "watermark", "done"} =>
          "caused_by" \in derived[b]
    /\ pc \in {"drain", "watermark", "done"} => "temporal" \in derived[b]

ImportIsKept ==
    tool.pc \in Importing =>
       /\ \A b \in LegacyBank : tool.of.archive[b] # NoFile
       /\ ~tool.replace => \A b \in tool.left : Clean(b)
       /\ tool.pc = "purge" /\ ~tool.replace => Clean(tool.bank)
       /\ Written(tool.pc, tool.bank, Archived)

\* Bank by bank: there is nothing, or all of one archive.
Bare(b) == Migrated(b) = {} /\ docs[b] = NoFile /\ derived[b] = {}
Whole(b, f) == /\ docs[b] = f.edition /\ derived[b] = Kinds
               /\ HasFacts(b, f) /\ AllOf(b, f)
BankIsHonest(b) == marker[b].state = "done" => Bare(b) \/ Whole(b, marker[b].of.archive[b])

Honest ==
    /\ FilesTyped /\ RowsTell /\ ImportIsKept
    /\ \A b \in LegacyBank : BankIsHonest(b)

\* Bank by bank, that is what a marker says.
LEMMA HonestMarkers == (\A b \in LegacyBank : BankIsHonest(b)) <=> MarkerIsHonest
BY DEF BankIsHonest, Bare, Whole, HasFacts, AllOf, MarkerIsHonest

\* In some banks the rows that are of an archive stay as they are, or leave,
\* but for facts, which stay.
RowsKept(B) ==
    /\ \A i \in DOMAIN stored' :
          /\ stored'[i].bank \in B
          /\ stored'[i].of # NoFile \/ stored'[i].kind \in {"fact", "observation"}
          => /\ i \in DOMAIN stored /\ stored'[i].bank = stored[i].bank
             /\ stored'[i].kind = stored[i].kind /\ stored'[i].of = stored[i].of
    /\ \A i \in DOMAIN stored :
          stored[i].bank \in B /\ stored[i].kind = "fact"
          => /\ i \in DOMAIN stored' /\ stored'[i].bank = stored[i].bank
             /\ stored'[i].kind = stored[i].kind /\ stored'[i].of = stored[i].of

\* What is said of a bank stays true where its rows are kept.
LEMMA KeptInBank ==
    ASSUME NEW B, RowsKept(B), NEW b \in B
    PROVE  /\ Clean(b) => Clean(b)'
           /\ \A f : Bears(b, f) => Bears(b, f)'
           /\ \A f : HasFacts(b, f) => HasFacts(b, f)'
           /\ \A f : AllOf(b, f) => AllOf(b, f)'
           /\ NoneSeen(b) => NoneSeen(b)'
           /\ Migrated(b) = {} => Migrated(b)' = {}
<1>1. \A i \in RowsOf(b)' : stored'[i].of # NoFile => i \in RowsOf(b) /\ stored'[i].of = stored[i].of
      BY DEF RowsKept, RowsOf
<1>2. \A i \in Migrated(b)' : i \in Migrated(b) /\ stored'[i].of = stored[i].of
      BY DEF RowsKept, RowsOf, OfKind, Migrated
<1>3. \A i \in OfKind(b, "fact") : i \in OfKind(b, "fact")' /\ stored'[i].of = stored[i].of
      BY DEF RowsKept, RowsOf, OfKind
<1>4. \A i \in OfKind(b, "own")' \cup OfKind(b, "observation")' :
         stored'[i].of # NoFile =>
            /\ i \in OfKind(b, "own") \cup OfKind(b, "observation")
            /\ stored'[i].of = stored[i].of
      BY DEF RowsKept, RowsOf, OfKind
<1>5. Clean(b) => Clean(b)'
      BY <1>1 DEF Clean
<1>6. \A f : Bears(b, f) => Bears(b, f)'
      BY <1>1 DEF Bears
<1>7. \A f : HasFacts(b, f) => HasFacts(b, f)'
      BY <1>3 DEF HasFacts
<1>8. \A f : AllOf(b, f) => AllOf(b, f)'
      BY <1>2 DEF AllOf
<1>9. NoneSeen(b) => NoneSeen(b)'
      BY <1>4 DEF NoneSeen
<1>10. Migrated(b) = {} => Migrated(b)' = {}
      BY <1>2
<1> QED BY <1>5, <1>6, <1>7, <1>8, <1>9, <1>10

\* A bank stays honest where its rows are kept and nothing else is written.
LEMMA KeptIsHonest ==
    ASSUME NEW B, RowsKept(B), NEW b \in B, BankIsHonest(b),
           marker'[b] = marker[b], docs'[b] = docs[b], derived'[b] = derived[b]
    PROVE  BankIsHonest(b)'
<1> SUFFICES ASSUME marker[b].state = "done"
             PROVE  Bare(b)' \/ Whole(b, marker[b].of.archive[b])'
    BY DEF BankIsHonest
<1>1. PICK f : f = marker[b].of.archive[b]
      OBVIOUS
<1>2. Bare(b) \/ Whole(b, f)
      BY <1>1 DEF BankIsHonest
<1>3. Bare(b) => Bare(b)'
      BY KeptInBank DEF Bare
<1>4. Whole(b, f) => Whole(b, f)'
      BY KeptInBank DEF Whole
<1>5. f = marker'[b].of.archive[b]
      BY <1>1
<1> QED BY <1>2, <1>3, <1>4, <1>5 DEF Whole

\* Of rows that are kept none tells less.
LEMMA KeptRowsTell ==
    ASSUME StoredTyped', RowsTell, RowsKept(LegacyBank)
    PROVE  RowsTell'
<1>1. \A i \in DOMAIN stored' : stored'[i].bank \in LegacyBank
      BY DEF StoredTyped
<1>2. \A i \in DOMAIN stored' :
         stored'[i].of # NoFile \/ stored'[i].kind \in {"fact", "observation"} =>
            /\ i \in DOMAIN stored /\ stored'[i].bank = stored[i].bank
            /\ stored'[i].kind = stored[i].kind /\ stored'[i].of = stored[i].of
      BY <1>1 DEF RowsKept
<1>3. \A i \in DOMAIN stored' :
         stored'[i].kind \in {"fact", "observation"} => stored'[i].of # NoFile
      BY <1>2 DEF RowsTell
<1>4. ASSUME NEW i \in DOMAIN stored', NEW j \in DOMAIN stored',
             stored'[i].bank = stored'[j].bank, stored'[i].of # NoFile, stored'[j].of # NoFile,
             SameSort(stored'[i].kind, stored'[j].kind)
      PROVE  i = j
  <2>1. /\ i \in DOMAIN stored /\ stored'[i].bank = stored[i].bank
        /\ stored'[i].kind = stored[i].kind /\ stored'[i].of = stored[i].of
        BY <1>2, <1>4
  <2>2. /\ j \in DOMAIN stored /\ stored'[j].bank = stored[j].bank
        /\ stored'[j].kind = stored[j].kind /\ stored'[j].of = stored[j].of
        BY <1>2, <1>4
  <2> QED BY <1>4, <2>1, <2>2 DEF RowsTell
<1> QED BY <1>3, <1>4 DEF RowsTell

\* Rows that are not touched are kept.
LEMMA SameRowsAreKept ==
    ASSUME UNCHANGED stored, NEW B
    PROVE  RowsKept(B)
BY DEF RowsKept

\* A row embedded is the row otherwise.
LEMMA EmbeddedRowsAreKept ==
    ASSUME StoredTyped, NEW b, stored' = Embedded(b), NEW B
    PROVE  RowsKept(B)
<1>1. /\ DOMAIN stored' = DOMAIN stored
      /\ \A i \in DOMAIN stored :
            stored'[i] = IF stored[i].bank = b THEN [stored[i] EXCEPT !.embedded = TRUE]
                         ELSE stored[i]
      BY DEF Embedded
<1>2. ASSUME NEW i \in DOMAIN stored
      PROVE  /\ stored'[i].bank = stored[i].bank /\ stored'[i].kind = stored[i].kind
             /\ stored'[i].of = stored[i].of
  <2>1. PICK r : r = stored[i]
        OBVIOUS
  <2>2. r = [bank |-> r.bank, kind |-> r.kind, of |-> r.of, embedded |-> r.embedded]
        BY <2>1 DEF StoredTyped
  <2>3. stored'[i] = r \/ stored'[i] = [r EXCEPT !.embedded = TRUE]
        BY <1>1, <2>1
  <2>4. [r EXCEPT !.embedded = TRUE] = [bank |-> r.bank, kind |-> r.kind, of |-> r.of,
                                        embedded |-> TRUE]
    <3>1. \A yes : [r EXCEPT !.embedded = yes] = [bank |-> r.bank, kind |-> r.kind,
                                                  of |-> r.of, embedded |-> yes]
          BY <2>2
    <3> QED BY <3>1, Zenon
  <2> QED BY <2>1, <2>3, <2>4
<1> QED BY <1>1, <1>2 DEF RowsKept

\* A new row, and the rows beside it.
LEMMA RowAdded ==
    ASSUME StoredTyped, NEW n, n = FreeRow, NEW row, stored' = Inserted(FreeRow, row)
    PROVE  /\ n \notin DOMAIN stored /\ DOMAIN stored' = DOMAIN stored \cup {n}
           /\ stored'[n] = row /\ \A i \in DOMAIN stored : stored'[i] = stored[i]
<1>1. n \notin DOMAIN stored
      BY FreeRowIsAbove
<1>2. stored' = [j \in DOMAIN stored \cup {n} |-> IF j = n THEN row ELSE stored[j]]
      BY DEF Inserted
<1> QED BY <1>1, <1>2

\* The daemon's own rows are of no archive.
LEMMA OwnRowIsKept ==
    ASSUME StoredTyped, NEW b, NEW kind \in {"own", "native"}, NEW embedded,
           stored' = Inserted(FreeRow, [bank |-> b, kind |-> kind, of |-> NoFile,
                                        embedded |-> embedded]), NEW B
    PROVE  RowsKept(B)
<1>1. PICK n, row : /\ n = FreeRow
                    /\ row = [bank |-> b, kind |-> kind, of |-> NoFile, embedded |-> embedded]
      OBVIOUS
<1>2. /\ n \notin DOMAIN stored /\ DOMAIN stored' = DOMAIN stored \cup {n}
      /\ stored'[n] = row /\ \A i \in DOMAIN stored : stored'[i] = stored[i]
      BY <1>1, RowAdded
<1>3. row.of = NoFile /\ row.kind \notin {"fact", "observation"}
      BY <1>1
<1> QED BY <1>2, <1>3 DEF RowsKept

\* A round may delete a row that is no fact.
LEMMA OthersDeletedAreKept ==
    ASSUME NEW R, stored' = Without(R), NEW B,
           \A i \in R : stored[i].bank \in B => stored[i].kind # "fact"
    PROVE  RowsKept(B)
<1>1. /\ DOMAIN stored' = DOMAIN stored \ R
      /\ \A i \in DOMAIN stored' : stored'[i] = stored[i]
      BY DEF Without
<1> QED BY <1>1 DEF RowsKept

-----------------------------------------------------------------------------

\* Files that are not touched keep their types.
LEMMA FilesStayTyped ==
    ASSUME FilesTyped, UNCHANGED << legacy, dir, docs, derived >>
    PROVE  FilesTyped'
BY DEF FilesTyped

\* What is said of a bank that is at hand.
LEMMA ThisIsKept ==
    ASSUME NEW pc, NEW b, NEW f, Written(pc, b, f)',
           pc = tool'.pc, b = tool'.bank, f = tool'.of.archive[tool'.bank],
           \A c \in LegacyBank : tool'.of.archive[c] # NoFile,
           ~tool'.replace => \A c \in tool'.left : Clean(c)',
           pc = "purge" /\ ~tool'.replace => Clean(b)'
    PROVE  ImportIsKept'
<1>1. Written(tool.pc, tool.bank, Archived)'
      BY DEF Written, Clean, Bears, HasFacts, NoneSeen, Archived, RowsOf, OfKind
<1>2. Clean(b)' => Clean(tool.bank)'
      BY DEF Clean, RowsOf
<1> QED BY <1>1, <1>2 DEF ImportIsKept

\* An import in progress keeps what it has written where the rows are kept.
LEMMA WrittenIsKept ==
    ASSUME NEW B, RowsKept(B), NEW b \in B, NEW pc, NEW f, Written(pc, b, f),
           marker'[b] = marker[b], docs'[b] = docs[b], derived'[b] = derived[b]
    PROVE  Written(pc, b, f)'
<1>1. /\ Clean(b) => Clean(b)'
      /\ Bears(b, f) => Bears(b, f)'
      /\ HasFacts(b, f) => HasFacts(b, f)'
      /\ NoneSeen(b) => NoneSeen(b)'
      BY KeptInBank
<1> QED BY <1>1 DEF Written

\* An import is where it was when others write rows of no archive.
LEMMA KeptImport ==
    ASSUME Split, ImportIsKept, RowsKept(LegacyBank), UNCHANGED << marker, docs, derived, tool >>
    PROVE  ImportIsKept'
<1> SUFFICES ASSUME tool.pc \in Importing PROVE ImportIsKept'
    BY DEF ImportIsKept
<1>1. ImportTool(tool)
      BY StepOrder DEF Split, MigrationTyped, Idling, SnapshotTool, Snapshotting
<1>2. PICK pc, b, f : pc = tool.pc /\ b = tool.bank /\ f = Archived
      OBVIOUS
<1>3. b \in LegacyBank /\ tool.left \subseteq LegacyBank
      BY <1>1, <1>2 DEF ImportTool
<1>4. \A c \in LegacyBank : Clean(c) => Clean(c)'
      BY KeptInBank
<1>5. Written(pc, b, f)
      BY <1>2 DEF ImportIsKept
<1>6. Written(pc, b, f)'
      BY <1>3, <1>5, WrittenIsKept
<1>7. f = tool'.of.archive[tool'.bank]
      BY <1>2 DEF Archived
<1>8. pc = "purge" /\ ~tool.replace => Clean(b)
      BY <1>2 DEF ImportIsKept
<1>9. /\ \A c \in LegacyBank : tool.of.archive[c] # NoFile
      /\ ~tool.replace => \A c \in tool.left : Clean(c)
      BY DEF ImportIsKept
<1> QED BY <1>2, <1>3, <1>4, <1>6, <1>7, <1>8, <1>9, ThisIsKept

\* A step beside the import, or its end.
LEMMA AsideKeepsHonest ==
    ASSUME Split, Honest, StoredTyped', FilesTyped', RowsKept(LegacyBank),
           UNCHANGED << marker, docs, derived >>, tool' = tool \/ tool'.pc \notin Importing
    PROVE  Honest'
<1>1. RowsTell'
      BY KeptRowsTell DEF Honest
<1>2. \A b \in LegacyBank : BankIsHonest(b)'
      BY KeptIsHonest DEF Honest
<1>3. ImportIsKept'
  <2>1. CASE tool' = tool
        BY <2>1, KeptImport DEF Honest
  <2>2. CASE tool'.pc \notin Importing
        BY <2>2 DEF ImportIsKept
  <2> QED BY <2>1, <2>2
<1> QED BY <1>1, <1>2, <1>3 DEF Honest

\* The earlier daemon and a snapshot write nothing of the new store.
LEMMA SnapshotKeepsHonest ==
    ASSUME Split, Honest,
           LegacyWrites \/ SnapshotBegins \/ ReadStats \/ ReadArchive \/ ReadList \/ WriteStats
             \/ Seal \/ Stop
    PROVE  Honest'
<1> USE DEF database, frozen, counters
<1>1. UNCHANGED << marker, docs, stored, derived >>
      BY DEF LegacyWrites, SnapshotBegins, ReadStats, ReadArchive, ReadList, WriteStats, Seal,
             Stop
<1>2. StoredTyped' /\ RowsKept(LegacyBank)
      BY <1>1, SameRowsAreKept DEF Split, MigrationTyped, StoredTyped
<1>3. tool' = tool \/ tool'.pc \notin Importing
  <2>1. CASE LegacyWrites
        BY <2>1 DEF LegacyWrites
  <2>2. CASE SnapshotBegins
        BY <2>2, StepOrder DEF SnapshotBegins
  <2>3. CASE ReadStats \/ ReadArchive \/ ReadList \/ WriteStats
    <3>1. tool.pc \in Snapshotting
          BY <2>3 DEF ReadStats, ReadArchive, ReadList, WriteStats, Snapshotting
    <3>2. SnapshotTool(tool)
          BY <3>1, StepOrder DEF Split, MigrationTyped, Idling, Snapshotting, ImportTool
    <3>3. PICK pc, left, bank, stats, listed :
             tool = [pc |-> pc, left |-> left, bank |-> bank, stats |-> stats,
                     listed |-> listed]
          BY <3>2 DEF SnapshotTool
    <3>4. tool'.pc \in Snapshotting
          BY <2>3, <3>3 DEF ReadStats, ReadArchive, ReadList, WriteStats, Snapshotting
    <3> QED BY <3>4, StepOrder DEF Snapshotting
  <2>4. CASE Seal \/ Stop
    <3>1. tool' = Idling
          BY <2>4 DEF Seal, Stop
    <3> QED BY <3>1, StepOrder DEF Idling
  <2> QED BY <2>1, <2>2, <2>3, <2>4
<1>4. FilesTyped'
  <2>1. PICK stats, archive, sums :
           /\ dir = [stats |-> stats, archive |-> archive, sums |-> sums]
           /\ archive \in [LegacyBank -> File \cup {NoFile}]
        BY DEF Honest, FilesTyped
  <2>2. legacy \in [LegacyBank -> File]
        BY DEF Honest, FilesTyped
  <2>3. /\ dir' = [stats |-> dir'.stats, archive |-> dir'.archive, sums |-> dir'.sums]
        /\ dir'.archive \in [LegacyBank -> File \cup {NoFile}]
    <3>1. CASE LegacyWrites \/ SnapshotBegins \/ ReadStats \/ ReadList
          BY <2>1, <3>1 DEF LegacyWrites, SnapshotBegins, ReadStats, ReadList
    <3>2. CASE ReadArchive
      <4>1. PICK more : more = [archive EXCEPT ![tool.bank] = legacy[tool.bank]]
            OBVIOUS
      <4>2. dir' = [stats |-> stats, archive |-> more, sums |-> sums]
            BY <2>1, <3>2, <4>1 DEF ReadArchive
      <4>3. more \in [LegacyBank -> File \cup {NoFile}]
        <5>1. CASE tool.bank \in LegacyBank
              BY <2>1, <2>2, <4>1, <5>1
        <5>2. CASE tool.bank \notin LegacyBank
              BY <2>1, <4>1, <5>2
        <5> QED BY <5>1, <5>2
      <4> QED BY <4>2, <4>3
    <3>3. CASE WriteStats
      <4>1. \E s : dir' = [stats |-> s, archive |-> archive, sums |-> sums]
            BY <2>1, <3>3 DEF WriteStats
      <4> QED BY <2>1, <4>1
    <3>4. CASE Seal
      <4>1. \E s : dir' = [stats |-> stats, archive |-> archive, sums |-> s]
            BY <2>1, <3>4 DEF Seal
      <4> QED BY <2>1, <4>1
    <3>5. CASE Stop
      <4>1. PICK more : more = [archive EXCEPT ![tool.bank] = NoFile]
            OBVIOUS
      <4>2. \/ dir' = dir
            \/ dir' = [stats |-> stats, archive |-> more, sums |-> sums]
            BY <2>1, <3>5, <4>1 DEF Stop
      <4>3. more \in [LegacyBank -> File \cup {NoFile}]
            BY <2>1, <4>1
      <4> QED BY <2>1, <4>2, <4>3
    <3> QED BY <3>1, <3>2, <3>3, <3>4, <3>5
  <2>4. legacy' \in [LegacyBank -> File]
    <3>1. CASE LegacyWrites
      <4>1. PICK b \in LegacyBank, adds \in {0, 1} :
               legacy' = [legacy EXCEPT ![b] = [nodes |-> @.nodes + adds,
                                                edition |-> @.edition + 1]]
            BY <3>1 DEF LegacyWrites
      <4>2. PICK file : file = [nodes |-> legacy[b].nodes + adds,
                                edition |-> legacy[b].edition + 1]
            OBVIOUS
      <4>3. legacy[b].nodes \in Nat /\ legacy[b].edition \in Nat
            BY <2>2 DEF File
      <4>4. file \in File
            BY <4>2, <4>3 DEF File
      <4>5. legacy' = [legacy EXCEPT ![b] = file]
            BY <2>2, <4>1, <4>2
      <4> QED BY <2>2, <4>4, <4>5
    <3>2. CASE ~LegacyWrites
          BY <2>2, <3>2 DEF SnapshotBegins, ReadStats, ReadArchive, ReadList, WriteStats, Seal,
                            Stop
    <3> QED BY <3>1, <3>2
  <2> QED BY <1>1, <2>3, <2>4 DEF Honest, FilesTyped
<1> QED BY <1>1, <1>2, <1>3, <1>4, AsideKeepsHonest

\* An import begins where every bank of its is clean, unless it purges it, and
\* every archive is there.
LEMMA ImportBeginsHonest ==
    ASSUME Split, Honest, ImportBegins
    PROVE  Honest'
<1>1. UNCHANGED << legacy, dir, marker, docs, stored, derived >>
      BY DEF ImportBegins, frozen, database
<1>2. FilesTyped' /\ StoredTyped' /\ RowsKept(LegacyBank)
      BY <1>1, FilesStayTyped, SameRowsAreKept DEF Honest, Split, MigrationTyped, StoredTyped
<1>3. RowsTell' /\ \A b \in LegacyBank : BankIsHonest(b)'
      BY <1>1, <1>2, KeptRowsTell, KeptIsHonest DEF Honest
<1>4. PICK replace \in BOOLEAN :
         LET work == {b \in LegacyBank : ~EmptyArchive(b)} IN
         /\ work # {}
         /\ \A b \in work : Available(b, replace)
         /\ tool' = [pc |-> "purge", bank |-> NextOf(work), left |-> work \ {NextOf(work)},
                     replace |-> replace, of |-> dir.sums]
      BY DEF ImportBegins
<1> DEFINE work == {b \in LegacyBank : ~EmptyArchive(b)}
<1>5. NextOf(work) \in work
      BY <1>4 DEF NextOf
<1>6. /\ tool'.pc = "purge" /\ tool'.bank = NextOf(work) /\ tool'.replace = replace
      /\ tool'.left \subseteq work /\ tool'.of = dir.sums
      BY <1>4
<1>7. ~replace => \A b \in work : RowsOf(b) = {}
      BY <1>4 DEF Available
<1>8. \A b \in LegacyBank : dir.sums.archive[b] # NoFile
      BY DEF ImportBegins, Sealed, Contents, Agrees
<1> HIDE DEF work
<1>9. \A b : RowsOf(b) = {} => Clean(b)'
      BY <1>1 DEF Clean, RowsOf
<1>10. ImportIsKept'
  <2>1. \A b \in LegacyBank : tool'.of.archive[b] # NoFile
        BY <1>6, <1>8
  <2>2. PICK c, f : c = tool'.bank /\ f = tool'.of.archive[tool'.bank]
        OBVIOUS
  <2>3. ~tool'.replace => Clean(c)' /\ \A b \in tool'.left : Clean(b)'
        BY <1>5, <1>6, <1>7, <1>9, <2>2
  <2>4. Written("purge", c, f)'
        BY DEF Written
  <2> QED BY <1>6, <2>1, <2>2, <2>3, <2>4, ThisIsKept
<1> QED BY <1>2, <1>3, <1>10 DEF Honest

-----------------------------------------------------------------------------

\* What is kept in some banks is kept in fewer.
LEMMA KeptInFewer ==
    ASSUME NEW B, RowsKept(B), NEW C \in SUBSET B
    PROVE  RowsKept(C)
BY DEF RowsKept

\* The next step of the same bank: the other banks are as they were.
LEMMA ImportGoesOn ==
    ASSUME Split, Honest, tool.pc \in Importing, tool.pc # "done", Advances,
           NEW b, b = tool.bank, NEW f, f = Archived, NEW pc, pc = StepAfter(tool.pc),
           RowsKept(LegacyBank \ {b}),
           \A c \in LegacyBank \ {b} :
              marker'[c] = marker[c] /\ docs'[c] = docs[c] /\ derived'[c] = derived[c],
           FilesTyped', RowsTell', BankIsHonest(b)', Written(pc, b, f)'
    PROVE  Honest'
<1>1. /\ ImportTool(tool) /\ tool'.pc = pc /\ tool'.bank = b /\ tool'.left = tool.left
      /\ tool'.replace = tool.replace /\ tool'.of = tool.of
      BY ToolAdvances
<1>2. tool.left \subseteq LegacyBank \ {b}
      BY <1>1 DEF ImportTool
<1>3. \A c \in LegacyBank \ {b} : BankIsHonest(c)'
      BY KeptIsHonest DEF Honest
<1>4. \A c \in LegacyBank \ {b} : Clean(c) => Clean(c)'
      BY KeptInBank
<1>5. /\ \A c \in LegacyBank : tool.of.archive[c] # NoFile
      /\ ~tool.replace => \A c \in tool.left : Clean(c)
      BY DEF Honest, ImportIsKept
<1>6. pc # "purge"
      BY StepsInOrder
<1>7. f = tool'.of.archive[tool'.bank]
      BY <1>1 DEF Archived
<1>8. \A c \in LegacyBank : tool'.of.archive[c] # NoFile
      BY <1>1, <1>5
<1>9. ~tool'.replace => \A c \in tool'.left : Clean(c)'
      BY <1>1, <1>2, <1>4, <1>5
<1>10. ImportIsKept'
      BY <1>1, <1>6, <1>7, <1>8, <1>9, ThisIsKept
<1> QED BY <1>3, <1>10 DEF Honest

\* The bank at hand, and what is written of it.
LEMMA BankAtHand ==
    ASSUME Split, Honest, tool.pc \in Importing
    PROVE  /\ ImportTool(tool) /\ tool.bank \in LegacyBank
           /\ Written(tool.pc, tool.bank, Archived) /\ Archived # NoFile
           /\ FilesTyped /\ RowsTell /\ BankIsHonest(tool.bank) /\ StoredTyped
           /\ DOMAIN marker = LegacyBank
<1>1. ImportTool(tool)
      BY StepOrder DEF Split, MigrationTyped, Idling, SnapshotTool, Snapshotting
<1>2. tool.bank \in LegacyBank
      BY <1>1 DEF ImportTool
<1>3. Written(tool.pc, tool.bank, Archived) /\ Archived # NoFile
      BY <1>2 DEF Honest, ImportIsKept, Archived
<1> QED BY <1>1, <1>2, <1>3 DEF Honest, Split, MigrationTyped

\* A purge leaves the bank bare, with a marker that says what it said.
LEMMA PurgeKeepsHonest ==
    ASSUME Split, Honest, Purge
    PROVE  Honest'
<1>1. PICK b, f : b = tool.bank /\ f = Archived
      OBVIOUS
<1>2. /\ tool.pc = "purge" /\ Advances /\ tool.pc \in Importing /\ tool.pc # "done"
      /\ UNCHANGED << marker, legacy, dir >>
      BY StepOrder DEF Purge, Outside, frozen
<1>3. /\ b \in LegacyBank /\ StoredTyped /\ FilesTyped /\ RowsTell /\ BankIsHonest(b)
      BY <1>1, <1>2, BankAtHand
<1>4. "running" = StepAfter(tool.pc)
      BY <1>2, StepsInOrder
<1>5. CASE tool.replace
  <2>1. /\ stored' = Without(RowsOf(b)) /\ docs' = [docs EXCEPT ![b] = NoFile]
        /\ derived' = [derived EXCEPT ![b] = {}]
        BY <1>1, <1>5 DEF Purge
  <2>2. /\ StoredTyped' /\ DOMAIN stored' = DOMAIN stored \ RowsOf(b)
        /\ \A i \in DOMAIN stored' : stored'[i] = stored[i]
        BY <1>3, <2>1, RowsDeleted
  <2>3. RowsOf(b)' = {}
        BY <2>2 DEF RowsOf
  <2>4. RowsKept(LegacyBank \ {b})
        BY <2>1, OthersDeletedAreKept DEF RowsOf
  <2>5. RowsTell'
        BY <1>3, <2>2 DEF RowsTell
  <2>6. /\ FilesTyped' /\ docs'[b] = NoFile /\ derived'[b] = {}
        /\ \A c \in LegacyBank \ {b} : docs'[c] = docs[c] /\ derived'[c] = derived[c]
    <3>1. /\ DOMAIN docs' = LegacyBank /\ derived' \in [LegacyBank -> SUBSET Kinds]
          /\ docs'[b] = NoFile /\ derived'[b] = {}
          /\ \A c \in LegacyBank \ {b} : docs'[c] = docs[c] /\ derived'[c] = derived[c]
          BY <1>3, <2>1 DEF FilesTyped
    <3> QED BY <1>2, <1>3, <3>1 DEF FilesTyped
  <2>7. Bare(b)'
        BY <2>3, <2>6 DEF Bare, Migrated, OfKind
  <2>8. BankIsHonest(b)'
        BY <2>7 DEF BankIsHonest
  <2>9. Written("running", b, f)'
        BY <2>3 DEF Written, Clean
  <2>10. \A c \in LegacyBank \ {b} :
            marker'[c] = marker[c] /\ docs'[c] = docs[c] /\ derived'[c] = derived[c]
        BY <1>2, <2>6
  <2> QED BY <1>1, <1>2, <1>4, <2>4, <2>5, <2>6, <2>8, <2>9, <2>10, ImportGoesOn
<1>6. CASE ~tool.replace
  <2>1. UNCHANGED << stored, docs, derived >>
        BY <1>6 DEF Purge
  <2>2. /\ FilesTyped' /\ StoredTyped' /\ RowsKept(LegacyBank)
        BY <1>2, <1>3, <2>1, FilesStayTyped, SameRowsAreKept DEF StoredTyped
  <2>3. RowsTell' /\ BankIsHonest(b)' /\ RowsKept(LegacyBank \ {b})
        BY <1>2, <1>3, <2>1, <2>2, KeptRowsTell, KeptIsHonest, KeptInFewer
  <2>4. Clean(b)
        BY <1>1, <1>2, <1>6 DEF Honest, ImportIsKept
  <2>5. Clean(b)'
        BY <1>3, <2>2, <2>4, KeptInBank
  <2>6. Written("running", b, f)'
        BY <2>5 DEF Written
  <2>7. \A c \in LegacyBank \ {b} :
            marker'[c] = marker[c] /\ docs'[c] = docs[c] /\ derived'[c] = derived[c]
        BY <1>2, <2>1
  <2> QED BY <1>1, <1>2, <1>4, <2>2, <2>3, <2>6, <2>7, ImportGoesOn
<1> QED BY <1>5, <1>6

\* A bank marked as running claims nothing.
LEMMA MarkRunningKeepsHonest ==
    ASSUME Split, Honest, MarkRunning
    PROVE  Honest'
<1>1. PICK b, f : b = tool.bank /\ f = Archived
      OBVIOUS
<1>2. /\ tool.pc = "running" /\ Advances /\ tool.pc \in Importing /\ tool.pc # "done"
      /\ UNCHANGED << docs, stored, derived, legacy, dir >>
      /\ marker' = [marker EXCEPT ![b] = [state |-> "running", of |-> tool.of]]
      BY <1>1, StepOrder DEF MarkRunning, Outside, frozen
<1>3. /\ b \in LegacyBank /\ StoredTyped /\ FilesTyped /\ RowsTell /\ DOMAIN marker = LegacyBank
      /\ Written("running", b, f)
      BY <1>1, <1>2, BankAtHand
<1>4. "documents" = StepAfter(tool.pc)
      BY <1>2, StepsInOrder
<1>5. /\ marker'[b].state = "running"
      /\ \A c \in LegacyBank \ {b} : marker'[c] = marker[c]
      BY <1>2, <1>3
<1>6. /\ FilesTyped' /\ StoredTyped' /\ RowsKept(LegacyBank)
      BY <1>2, <1>3, FilesStayTyped, SameRowsAreKept DEF StoredTyped
<1>7. RowsTell' /\ RowsKept(LegacyBank \ {b})
      BY <1>3, <1>6, KeptRowsTell, KeptInFewer
<1>8. BankIsHonest(b)'
      BY <1>5 DEF BankIsHonest
<1>9. Clean(b)'
  <2>1. Clean(b)
        BY <1>3 DEF Written
  <2> QED BY <1>3, <1>6, <2>1, KeptInBank
<1>10. Bears(b, f)'
      BY <1>9 DEF Clean, Bears
<1>11. Written("documents", b, f)'
      BY <1>5, <1>9, <1>10 DEF Written
<1>12. \A c \in LegacyBank \ {b} :
            marker'[c] = marker[c] /\ docs'[c] = docs[c] /\ derived'[c] = derived[c]
      BY <1>2, <1>5
<1> QED BY <1>1, <1>2, <1>4, <1>6, <1>7, <1>8, <1>11, <1>12, ImportGoesOn

-----------------------------------------------------------------------------

\* The steps while the bank is marked as running.
LEMMA RunningGoesOn ==
    ASSUME Split, Honest, tool.pc \in Importing, tool.pc \notin {"purge", "running", "done"},
           Advances, UNCHANGED << marker, legacy, dir >>,
           NEW b, b = tool.bank, NEW f, f = Archived, NEW pc, pc = StepAfter(tool.pc),
           RowsKept(LegacyBank \ {b}), RowsTell',
           UNCHANGED docs \/ docs' = [docs EXCEPT ![b] = f.edition],
           UNCHANGED derived \/ \E kind \in Kinds : derived' = [derived EXCEPT ![b] = @ \cup {kind}],
           Written(pc, b, f)'
    PROVE  Honest'
<1>1. b \in LegacyBank /\ FilesTyped /\ Written(tool.pc, b, f)
      BY BankAtHand
<1>2. /\ DOMAIN docs' = LegacyBank /\ \A c \in LegacyBank \ {b} : docs'[c] = docs[c]
      BY <1>1 DEF FilesTyped
<1>3. /\ derived' \in [LegacyBank -> SUBSET Kinds]
      /\ \A c \in LegacyBank \ {b} : derived'[c] = derived[c]
  <2>1. CASE UNCHANGED derived
        BY <1>1, <2>1 DEF FilesTyped
  <2>2. ASSUME NEW kind \in Kinds, derived' = [derived EXCEPT ![b] = @ \cup {kind}]
        PROVE  /\ derived' \in [LegacyBank -> SUBSET Kinds]
               /\ \A c \in LegacyBank \ {b} : derived'[c] = derived[c]
    <3>1. derived \in [LegacyBank -> SUBSET Kinds]
          BY <1>1 DEF FilesTyped
    <3>2. derived[b] \cup {kind} \in SUBSET Kinds
          BY <1>1, <3>1
    <3> QED BY <1>1, <2>2, <3>1, <3>2
  <2> QED BY <2>1, <2>2
<1>4. FilesTyped'
      BY <1>1, <1>2, <1>3 DEF FilesTyped
<1>5. marker'[b].state = "running"
      BY <1>1 DEF Written
<1>6. BankIsHonest(b)'
      BY <1>5 DEF BankIsHonest
<1> QED BY <1>2, <1>3, <1>4, <1>6, ImportGoesOn

\* A row of an archive goes into a bank that has none of its sort.
LEMMA RowIsOfTheArchive ==
    ASSUME StoredTyped, RowsTell, NEW b \in LegacyBank, NEW f, f # NoFile,
           NEW kind \in {"fact", "own"}, NEW embedded,
           stored' = Inserted(FreeRow, [bank |-> b, kind |-> kind, of |-> f,
                                        embedded |-> embedded]),
           \A i \in RowsOf(b) : stored[i].of # NoFile => ~SameSort(stored[i].kind, kind),
           Bears(b, f)
    PROVE  /\ RowsTell' /\ RowsKept(LegacyBank \ {b}) /\ Bears(b, f)'
           /\ HasFacts(b, f) => HasFacts(b, f)'
           /\ kind = "fact" => /\ HasFacts(b, f)'
                               /\ NoneSeen(b) => NoneSeen(b)'
<1>1. PICK n, row : n = FreeRow /\ row = [bank |-> b, kind |-> kind, of |-> f,
                                          embedded |-> embedded]
      OBVIOUS
<1>2. /\ n \notin DOMAIN stored /\ DOMAIN stored' = DOMAIN stored \cup {n}
      /\ stored'[n] = row /\ \A i \in DOMAIN stored : stored'[i] = stored[i]
      BY <1>1, RowAdded
<1>3. row.bank = b /\ row.kind = kind /\ row.of = f
      BY <1>1
<1>4. RowsTell'
  <2>1. \A i \in DOMAIN stored' :
           stored'[i].kind \in {"fact", "observation"} => stored'[i].of # NoFile
        BY <1>2, <1>3 DEF RowsTell
  <2>2. ASSUME NEW i \in DOMAIN stored', NEW j \in DOMAIN stored',
               stored'[i].bank = stored'[j].bank, stored'[i].of # NoFile,
               stored'[j].of # NoFile, SameSort(stored'[i].kind, stored'[j].kind)
        PROVE  i = j
    <3>1. CASE i \in DOMAIN stored /\ j \in DOMAIN stored
          BY <1>2, <2>2, <3>1 DEF RowsTell
    <3>2. CASE i = n /\ j \in DOMAIN stored
      <4>1. j \in RowsOf(b) /\ stored[j].of # NoFile /\ SameSort(kind, stored[j].kind)
            BY <1>2, <1>3, <2>2, <3>2 DEF RowsOf
      <4>2. SameSort(stored[j].kind, kind)
            BY <4>1 DEF SameSort
      <4> QED BY <4>1, <4>2
    <3>3. CASE i \in DOMAIN stored /\ j = n
      <4>1. i \in RowsOf(b) /\ stored[i].of # NoFile /\ SameSort(stored[i].kind, kind)
            BY <1>2, <1>3, <2>2, <3>3 DEF RowsOf
      <4> QED BY <4>1
    <3> QED BY <1>2, <3>1, <3>2, <3>3
  <2> QED BY <2>1, <2>2 DEF RowsTell
<1>5. RowsKept(LegacyBank \ {b})
      BY <1>2, <1>3 DEF RowsKept
<1>6. Bears(b, f)'
      BY <1>2, <1>3 DEF Bears, RowsOf
<1>7. HasFacts(b, f) => HasFacts(b, f)'
      BY <1>2 DEF HasFacts, OfKind, RowsOf
<1>8. kind = "fact" => HasFacts(b, f)'
  <2>1. kind = "fact" => n \in OfKind(b, "fact")' /\ stored'[n].of = f
        BY <1>2, <1>3 DEF OfKind, RowsOf
  <2> QED BY <2>1 DEF HasFacts
<1>9. kind = "fact" /\ NoneSeen(b) => NoneSeen(b)'
      BY <1>2, <1>3 DEF NoneSeen, OfKind, RowsOf
<1> QED BY <1>4, <1>5, <1>6, <1>7, <1>8, <1>9

\* The step that copies the documents.
LEMMA DocumentsKeepHonest ==
    ASSUME Split, Honest, Documents
    PROVE  Honest'
<1>1. PICK b, f : b = tool.bank /\ f = Archived
      OBVIOUS
<1>2. /\ tool.pc = "documents" /\ Advances /\ tool.pc \in Importing
      /\ tool.pc \notin {"purge", "running", "done"}
      /\ UNCHANGED << marker, stored, derived, legacy, dir >>
      /\ docs' = [docs EXCEPT ![b] = f.edition]
      BY <1>1, StepOrder DEF Documents, Outside, frozen
<1>3. /\ b \in LegacyBank /\ StoredTyped /\ FilesTyped /\ RowsTell
      /\ Written("documents", b, f)
      BY <1>1, <1>2, BankAtHand
<1>4. "facts" = StepAfter(tool.pc)
      BY <1>2, StepsInOrder
<1>5. StoredTyped' /\ RowsKept(LegacyBank)
      BY <1>2, <1>3, SameRowsAreKept DEF StoredTyped
<1>6. RowsTell' /\ RowsKept(LegacyBank \ {b})
      BY <1>3, <1>5, KeptRowsTell, KeptInFewer
<1>7. docs'[b] = f.edition
      BY <1>2, <1>3 DEF FilesTyped
<1>8. Clean(b)' /\ Bears(b, f)' /\ marker'[b].state = "running"
  <2>1. Clean(b) /\ Bears(b, f) /\ marker[b].state = "running"
        BY <1>3 DEF Written
  <2> QED BY <1>2, <1>3, <1>5, <2>1, KeptInBank
<1>9. Written("facts", b, f)'
      BY <1>7, <1>8 DEF Written
<1> QED BY <1>1, <1>2, <1>4, <1>6, <1>9, RunningGoesOn

\* The step that inserts the facts: the one row of them.
LEMMA FactsKeepHonest ==
    ASSUME Split, Honest, Facts
    PROVE  Honest'
<1>1. PICK b, f : b = tool.bank /\ f = Archived
      OBVIOUS
<1>2. /\ tool.pc = "facts" /\ Advances /\ tool.pc \in Importing
      /\ tool.pc \notin {"purge", "running", "done"}
      /\ UNCHANGED << marker, docs, derived, legacy, dir >>
      /\ stored' = Inserted(FreeRow, [bank |-> b, kind |-> "fact", of |-> f,
                                      embedded |-> FALSE])
      BY <1>1, StepOrder DEF Facts, Outside, frozen
<1>3. /\ b \in LegacyBank /\ StoredTyped /\ RowsTell /\ f # NoFile
      /\ Written("facts", b, f)
      BY <1>1, <1>2, BankAtHand
<1>4. "entities" = StepAfter(tool.pc)
      BY <1>2, StepsInOrder
<1>5. Clean(b) /\ Bears(b, f) /\ marker[b].state = "running" /\ docs[b] = f.edition
      BY <1>3 DEF Written
<1>6. /\ NoneSeen(b)
      /\ \A i \in RowsOf(b) : stored[i].of # NoFile => ~SameSort(stored[i].kind, "fact")
      BY <1>5 DEF Clean, NoneSeen, OfKind
<1>7. /\ RowsTell' /\ RowsKept(LegacyBank \ {b}) /\ Bears(b, f)'
      /\ HasFacts(b, f)' /\ NoneSeen(b)'
      BY <1>2, <1>3, <1>5, <1>6, RowIsOfTheArchive
<1>8. Written("entities", b, f)'
      BY <1>2, <1>5, <1>7 DEF Written
<1> QED BY <1>1, <1>2, <1>4, <1>7, <1>8, RunningGoesOn

\* The step that inserts the observations, as rows of the daemon's own.
LEMMA ObservationsKeepHonest ==
    ASSUME Split, Honest, Observations
    PROVE  Honest'
<1>1. PICK b, f : b = tool.bank /\ f = Archived
      OBVIOUS
<1>2. /\ tool.pc = "observations" /\ Advances /\ tool.pc \in Importing
      /\ tool.pc \notin {"purge", "running", "done"}
      /\ UNCHANGED << marker, docs, derived, legacy, dir >>
      /\ stored' = Inserted(FreeRow, [bank |-> b, kind |-> "own", of |-> f,
                                      embedded |-> TRUE])
      BY <1>1, StepOrder DEF Observations, Outside, frozen
<1>3. /\ b \in LegacyBank /\ StoredTyped /\ RowsTell /\ f # NoFile
      /\ Written("observations", b, f)
      BY <1>1, <1>2, BankAtHand
<1>4. "metadata" = StepAfter(tool.pc)
      BY <1>2, StepsInOrder
<1>5. /\ Bears(b, f) /\ marker[b].state = "running" /\ docs[b] = f.edition /\ HasFacts(b, f)
      /\ NoneSeen(b) /\ "entities" \in derived[b] /\ "caused_by" \in derived[b]
      BY <1>3 DEF Written
<1>6. \A i \in RowsOf(b) : stored[i].of # NoFile => ~SameSort(stored[i].kind, "own")
      BY <1>5 DEF NoneSeen, OfKind, SameSort
<1>7. RowsTell' /\ RowsKept(LegacyBank \ {b}) /\ Bears(b, f)' /\ HasFacts(b, f)'
      BY <1>2, <1>3, <1>5, <1>6, RowIsOfTheArchive
<1>8. Written("metadata", b, f)'
      BY <1>2, <1>5, <1>7 DEF Written
<1> QED BY <1>1, <1>2, <1>4, <1>7, <1>8, RunningGoesOn

\* The observations of the archive become what they are.
LEMMA MetadataKeepsHonest ==
    ASSUME Split, Honest, Metadata
    PROVE  Honest'
<1>1. PICK b, f : b = tool.bank /\ f = Archived
      OBVIOUS
<1>2. /\ tool.pc = "metadata" /\ Advances /\ tool.pc \in Importing
      /\ tool.pc \notin {"purge", "running", "done"}
      /\ UNCHANGED << marker, docs, derived, legacy, dir >>
      BY StepOrder DEF Metadata, Outside, frozen
<1>3. /\ b \in LegacyBank /\ StoredTyped /\ RowsTell /\ f # NoFile
      /\ Written("metadata", b, f)
      BY <1>1, <1>2, BankAtHand
<1>4. "temporal" = StepAfter(tool.pc)
      BY <1>2, StepsInOrder
<1>5. /\ Bears(b, f) /\ marker[b].state = "running" /\ docs[b] = f.edition /\ HasFacts(b, f)
      /\ "entities" \in derived[b] /\ "caused_by" \in derived[b]
      BY <1>3 DEF Written
<1>6. /\ DOMAIN stored' = DOMAIN stored
      /\ \A i \in DOMAIN stored :
            \/ stored'[i] = stored[i]
            \/ /\ stored[i].bank = b /\ stored[i].kind = "own" /\ stored[i].of = f
               /\ stored'[i] = [stored[i] EXCEPT !.kind = "observation"]
      BY <1>1 DEF Metadata
<1>7. ASSUME NEW i \in DOMAIN stored
      PROVE  /\ stored'[i].bank = stored[i].bank /\ stored'[i].of = stored[i].of
             /\ \/ stored'[i].kind = stored[i].kind
                \/ /\ stored[i].bank = b /\ stored[i].of = f
                   /\ stored[i].kind = "own" /\ stored'[i].kind = "observation"
  <2>1. PICK r : r = stored[i]
        OBVIOUS
  <2>2. r = [bank |-> r.bank, kind |-> r.kind, of |-> r.of, embedded |-> r.embedded]
        BY <1>3, <2>1 DEF StoredTyped
  <2>3. [r EXCEPT !.kind = "observation"] = [bank |-> r.bank, kind |-> "observation",
                                             of |-> r.of, embedded |-> r.embedded]
        BY <2>2
  <2>4. \/ stored'[i] = r
        \/ /\ r.bank = b /\ r.kind = "own" /\ r.of = f
           /\ stored'[i] = [r EXCEPT !.kind = "observation"]
        BY <1>6, <2>1
  <2> QED BY <2>1, <2>3, <2>4
<1>8. RowsTell'
  <2>1. \A i \in DOMAIN stored' :
           stored'[i].kind \in {"fact", "observation"} => stored'[i].of # NoFile
        BY <1>3, <1>6, <1>7 DEF RowsTell
  <2>2. ASSUME NEW i \in DOMAIN stored', NEW j \in DOMAIN stored',
               stored'[i].bank = stored'[j].bank, stored'[i].of # NoFile,
               stored'[j].of # NoFile, SameSort(stored'[i].kind, stored'[j].kind)
        PROVE  i = j
    <3>1. SameSort(stored[i].kind, stored[j].kind)
          BY <1>6, <1>7, <2>2 DEF SameSort
    <3> QED BY <1>3, <1>6, <1>7, <2>2, <3>1 DEF RowsTell
  <2> QED BY <2>1, <2>2 DEF RowsTell
<1>9. RowsKept(LegacyBank \ {b})
      BY <1>6, <1>7 DEF RowsKept
<1>10. Bears(b, f)' /\ HasFacts(b, f)'
  <2>1. Bears(b, f)'
        BY <1>5, <1>6, <1>7 DEF Bears, RowsOf
  <2>2. HasFacts(b, f)'
        BY <1>5, <1>6, <1>7 DEF HasFacts, OfKind, RowsOf
  <2> QED BY <2>1, <2>2
<1>11. Written("temporal", b, f)'
      BY <1>2, <1>5, <1>10 DEF Written
<1> QED BY <1>1, <1>2, <1>4, <1>8, <1>9, <1>11, RunningGoesOn

\* Steps that add to no table but that of the links, or none.
LEMMA QuietStepKeepsHonest ==
    ASSUME Split, Honest, Derive \/ Drain \/ Watermark
    PROVE  Honest'
<1>1. PICK b, f, pc : b = tool.bank /\ f = Archived /\ pc = tool.pc
      OBVIOUS
<1>2. /\ pc \in {"entities", "caused_by", "temporal", "drain", "watermark"}
      /\ Advances /\ UNCHANGED << marker, docs, legacy, dir >>
      BY <1>1 DEF Derive, Drain, Watermark, Outside, frozen, Kinds
<1>3. tool.pc \in Importing /\ tool.pc \notin {"purge", "running", "done"}
      BY <1>1, <1>2, StepOrder
<1>4. /\ b \in LegacyBank /\ StoredTyped /\ FilesTyped /\ RowsTell /\ Written(pc, b, f)
      BY <1>1, <1>3, BankAtHand
<1>5. stored' = stored \/ stored' = Embedded(b)
      BY <1>1 DEF Derive, Drain, Watermark
<1>6. StoredTyped' /\ RowsKept(LegacyBank)
      BY <1>4, <1>5, SameRowsAreKept, EmbeddedRows, EmbeddedRowsAreKept
      DEF StoredTyped, Rewritten
<1>7. RowsTell' /\ RowsKept(LegacyBank \ {b})
      BY <1>4, <1>6, KeptRowsTell, KeptInFewer
<1>8. /\ Bears(b, f)' /\ HasFacts(b, f)' /\ (NoneSeen(b) => NoneSeen(b)')
      /\ marker'[b].state = "running" /\ docs'[b] = f.edition
  <2>1. Bears(b, f) /\ HasFacts(b, f) /\ marker[b].state = "running" /\ docs[b] = f.edition
        BY <1>2, <1>4 DEF Written
  <2> QED BY <1>2, <1>4, <1>6, <2>1, KeptInBank
<1>9. CASE pc \in Kinds
  <2>1. derived' = [derived EXCEPT ![b] = @ \cup {pc}]
        BY <1>1, <1>9 DEF Derive, Drain, Watermark, Kinds
  <2>2. derived'[b] = derived[b] \cup {pc}
        BY <1>4, <2>1 DEF FilesTyped
  <2>3. CASE pc = "entities"
    <3>1. "caused_by" = StepAfter(tool.pc)
          BY <1>1, <2>3, StepsInOrder
    <3>2. Written("caused_by", b, f)'
          BY <1>4, <1>8, <2>2, <2>3 DEF Written
    <3> QED BY <1>1, <1>2, <1>3, <1>7, <1>9, <2>1, <3>1, <3>2, RunningGoesOn
  <2>4. CASE pc = "caused_by"
    <3>1. "observations" = StepAfter(tool.pc)
          BY <1>1, <2>4, StepsInOrder
    <3>2. Written("observations", b, f)'
          BY <1>4, <1>8, <2>2, <2>4 DEF Written
    <3> QED BY <1>1, <1>2, <1>3, <1>7, <1>9, <2>1, <3>1, <3>2, RunningGoesOn
  <2>5. CASE pc = "temporal"
    <3>1. "drain" = StepAfter(tool.pc)
          BY <1>1, <2>5, StepsInOrder
    <3>2. Written("drain", b, f)'
          BY <1>4, <1>8, <2>2, <2>5 DEF Written
    <3> QED BY <1>1, <1>2, <1>3, <1>7, <1>9, <2>1, <3>1, <3>2, RunningGoesOn
  <2> QED BY <1>9, <2>3, <2>4, <2>5 DEF Kinds
<1>10. CASE pc \in {"drain", "watermark"}
  <2>1. UNCHANGED derived
        BY <1>1, <1>10 DEF Derive, Drain, Watermark, Kinds
  <2>2. CASE pc = "drain"
    <3>1. "watermark" = StepAfter(tool.pc)
          BY <1>1, <2>2, StepsInOrder
    <3>2. Written("watermark", b, f)'
          BY <1>4, <1>8, <2>1, <2>2 DEF Written
    <3> QED BY <1>1, <1>2, <1>3, <1>7, <2>1, <3>1, <3>2, RunningGoesOn
  <2>3. CASE pc = "watermark"
    <3>1. "done" = StepAfter(tool.pc)
          BY <1>1, <2>3, StepsInOrder
    <3>2. Written("done", b, f)'
          BY <1>4, <1>8, <2>1, <2>3 DEF Written
    <3> QED BY <1>1, <1>2, <1>3, <1>7, <2>1, <3>1, <3>2, RunningGoesOn
  <2> QED BY <1>10, <2>2, <2>3
<1> QED BY <1>2, <1>9, <1>10 DEF Kinds

\* What is marked done is all there; the next bank is as the guard found it.
LEMMA MarkDoneKeepsHonest ==
    ASSUME Split, Honest, MarkDone
    PROVE  Honest'
<1>1. PICK b, f : b = tool.bank /\ f = Archived
      OBVIOUS
<1>2. /\ tool.pc = "done" /\ tool.pc \in Importing
      /\ UNCHANGED << docs, stored, derived, legacy, dir >>
      /\ marker' = [marker EXCEPT ![b] = [state |-> "done", of |-> tool.of]]
      BY <1>1, StepOrder DEF MarkDone, Outside, frozen
<1>3. /\ b \in LegacyBank /\ StoredTyped /\ FilesTyped /\ RowsTell /\ DOMAIN marker = LegacyBank
      /\ Written("done", b, f) /\ ImportTool(tool)
      BY <1>1, <1>2, BankAtHand
<1>4. /\ FilesTyped' /\ StoredTyped' /\ RowsKept(LegacyBank)
      BY <1>2, <1>3, FilesStayTyped, SameRowsAreKept DEF StoredTyped
<1>5. RowsTell'
      BY <1>3, <1>4, KeptRowsTell
<1>6. /\ marker'[b].state = "done" /\ marker'[b].of.archive[b] = f
      /\ \A c \in LegacyBank : c # b => marker'[c] = marker[c]
      BY <1>1, <1>2, <1>3 DEF Archived
<1>7. Whole(b, f)
  <2>1. /\ Bears(b, f) /\ docs[b] = f.edition /\ HasFacts(b, f)
        /\ {"entities", "caused_by", "temporal"} \subseteq derived[b]
        BY <1>3 DEF Written
  <2>2. AllOf(b, f)
        BY <1>3, <2>1 DEF AllOf, Bears, Migrated, OfKind, RowsOf, RowsTell
  <2>3. derived[b] = Kinds
        BY <1>3, <2>1 DEF FilesTyped, Kinds
  <2> QED BY <2>1, <2>2, <2>3 DEF Whole
<1>8. Whole(b, f)'
      BY <1>2, <1>3, <1>4, <1>7, KeptInBank DEF Whole
<1>9. BankIsHonest(b)'
  <2>1. Whole(b, f)' => Whole(b, marker[b].of.archive[b])'
        BY <1>6 DEF Whole, HasFacts, AllOf
  <2> QED BY <1>8, <2>1 DEF BankIsHonest
<1>10. \A c \in LegacyBank : BankIsHonest(c)'
  <2>1. \A c \in LegacyBank : c # b => BankIsHonest(c)'
        BY <1>2, <1>4, <1>6, KeptIsHonest DEF Honest
  <2> QED BY <1>9, <2>1
<1>11. ImportIsKept'
  <2>1. CASE tool.left = {}
    <3>1. tool'.pc \notin Importing
          BY <2>1, StepOrder DEF MarkDone, Idling
    <3> QED BY <3>1 DEF ImportIsKept
  <2>2. CASE tool.left # {}
    <3>1. PICK next : next = NextOf(tool.left)
          OBVIOUS
    <3>2. next \in tool.left
          BY <2>2, <3>1 DEF NextOf
    <3>3. PICK bank, left, replace, of, pc :
             tool = [pc |-> pc, bank |-> bank, left |-> left, replace |-> replace, of |-> of]
          BY <1>3 DEF ImportTool
    <3>4. tool' = [tool EXCEPT !.pc = "purge", !.bank = next, !.left = @ \ {next}]
          BY <2>2, <3>1 DEF MarkDone
    <3>5. tool' = [pc |-> "purge", bank |-> next, left |-> left \ {next}, replace |-> replace,
                   of |-> of]
          BY <3>3, <3>4
    <3>6. /\ tool'.pc = "purge" /\ tool'.bank = next /\ tool'.left \subseteq tool.left
          /\ tool'.replace = tool.replace /\ tool'.of = tool.of
          BY <3>3, <3>5
    <3>7. tool.left \subseteq LegacyBank
          BY <1>3 DEF ImportTool
    <3>8. /\ \A c \in LegacyBank : tool.of.archive[c] # NoFile
          /\ ~tool.replace => \A c \in tool.left : Clean(c)
          BY <1>2 DEF Honest, ImportIsKept
    <3>9. ~tool.replace => \A c \in tool.left : Clean(c)'
          BY <1>4, <3>7, <3>8, KeptInBank
    <3>10. PICK g : g = tool'.of.archive[tool'.bank]
          OBVIOUS
    <3>11. Written("purge", next, g)'
          BY DEF Written
    <3> QED BY <3>2, <3>6, <3>8, <3>9, <3>10, <3>11, ThisIsKept
  <2> QED BY <2>1, <2>2
<1> QED BY <1>4, <1>5, <1>10, <1>11 DEF Honest

\* The daemon, which writes nothing that is of an archive and deletes no fact.
LEMMA DaemonKeepsHonest ==
    ASSUME Split, Honest, Serve \/ Shutdown \/ RetainNative \/ ReconsolidateBank \/ DaemonDrain
    PROVE  Honest'
<1>1. UNCHANGED << tool, marker, docs, derived, legacy, dir >>
      BY DEF Serve, Shutdown, RetainNative, ReconsolidateBank, DaemonDrain, database, frozen
<1>2. FilesTyped' /\ StoredTyped
      BY <1>1, FilesStayTyped DEF Honest, Split, MigrationTyped
<1>3. StoredTyped' /\ RowsKept(LegacyBank)
  <2>1. CASE Serve \/ Shutdown
    <3>1. UNCHANGED stored
          BY <2>1 DEF Serve, Shutdown, database
    <3> QED BY <1>2, <3>1, SameRowsAreKept DEF StoredTyped
  <2>2. ASSUME NEW b \in LegacyBank, NEW kind \in {"own", "native"}, NEW embedded,
               stored' = Inserted(FreeRow, [bank |-> b, kind |-> kind, of |-> NoFile,
                                            embedded |-> embedded])
        PROVE  StoredTyped' /\ RowsKept(LegacyBank)
    <3>1. kind \in RowKinds
          BY DEF RowKinds
    <3> QED BY <1>2, <2>2, <3>1, RowInserted, OwnRowIsKept
  <2>3. CASE RetainNative
    <3>1. PICK b \in LegacyBank :
             stored' = Inserted(FreeRow, [bank |-> b, kind |-> "native", of |-> NoFile,
                                          embedded |-> FALSE])
          BY <2>3 DEF RetainNative
    <3> QED BY <2>2, <3>1
  <2>4. CASE ReconsolidateBank
    <3>1. PICK b \in LegacyBank :
             \/ stored' = Inserted(FreeRow, [bank |-> b, kind |-> "own", of |-> NoFile,
                                             embedded |-> TRUE])
             \/ \E i \in OfKind(b, "observation") \cup OfKind(b, "own") : stored' = Without({i})
          BY <2>4 DEF ReconsolidateBank
    <3>2. ASSUME NEW i \in OfKind(b, "observation") \cup OfKind(b, "own"), stored' = Without({i})
          PROVE  StoredTyped' /\ RowsKept(LegacyBank)
      <4>1. stored[i].kind # "fact"
            BY DEF OfKind
      <4>2. PICK R : R = {i}
            OBVIOUS
      <4>3. stored' = Without(R) /\ \A j \in R : stored[j].kind # "fact"
            BY <3>2, <4>1, <4>2
      <4>4. StoredTyped'
            BY <1>2, <4>3, RowsDeleted
      <4>5. RowsKept(LegacyBank)
            BY <4>3, OthersDeletedAreKept
      <4> QED BY <4>4, <4>5
    <3> QED BY <2>2, <3>1, <3>2
  <2>5. CASE DaemonDrain
    <3>1. PICK b \in LegacyBank : stored' = Embedded(b)
          BY <2>5 DEF DaemonDrain
    <3> QED BY <1>2, <3>1, EmbeddedRows, EmbeddedRowsAreKept DEF Rewritten
  <2> QED BY <2>1, <2>3, <2>4, <2>5
<1> QED BY <1>1, <1>2, <1>3, AsideKeepsHonest

\* All of it holds in every state.
LEMMA HonestAlways == MigrationSpec => []Honest
<1>1. MigrationInit => Honest
  <2> SUFFICES ASSUME MigrationInit PROVE Honest
      OBVIOUS
  <2>1. DOMAIN stored = {}
        BY DEF MigrationInit
  <2>2. RowsTell
        BY <2>1 DEF RowsTell
  <2>3. ImportIsKept
        BY StepOrder DEF ImportIsKept, MigrationInit, Idling
  <2>4. \A b \in LegacyBank : BankIsHonest(b)
        BY DEF BankIsHonest, MigrationInit, NoMarker
  <2>5. FilesTyped
        BY DEF FilesTyped, File, MigrationInit
  <2> QED BY <2>2, <2>3, <2>4, <2>5 DEF Honest
<1>2. Split /\ Honest /\ [MigrationNext]_migrationVars => Honest'
  <2> SUFFICES ASSUME Split, Honest, [MigrationNext]_migrationVars PROVE Honest'
      OBVIOUS
  <2>1. CASE MigrationNext
    <3>1. ASSUME ImportStep PROVE Honest'
          BY <3>1, PurgeKeepsHonest, MarkRunningKeepsHonest, DocumentsKeepHonest,
             FactsKeepHonest, ObservationsKeepHonest, MetadataKeepsHonest,
             QuietStepKeepsHonest, MarkDoneKeepsHonest
          DEF ImportStep
    <3> QED BY <2>1, <3>1, SnapshotKeepsHonest, ImportBeginsHonest, DaemonKeepsHonest
            DEF MigrationNext
  <2>2. CASE UNCHANGED migrationVars
    <3>1. UNCHANGED << legacy, dir, tool, marker, docs, stored, derived >>
          BY <2>2 DEF migrationVars
    <3>2. FilesTyped' /\ StoredTyped' /\ RowsKept(LegacyBank)
          BY <3>1, FilesStayTyped, SameRowsAreKept
          DEF Honest, Split, MigrationTyped, StoredTyped
    <3> QED BY <3>1, <3>2, AsideKeepsHonest
  <2> QED BY <2>1, <2>2
<1> QED BY <1>1, <1>2, SplitAlways, PTL DEF MigrationSpec

-----------------------------------------------------------------------------

\* What tier1 counts and what it expects are such sums.
LEMMA CountedIs ==
    ASSUME NEW R, IsFiniteSet(R), NEW F \in [R -> Nat], \A i \in R : F[i] = NodesOf(i)
    PROVE  \E iter : SumsUp(iter, R, F) /\ MapThenSumSet(NodesOf, R) = iter[R]
<1> DEFINE Is(iter) == iter = [s \in SUBSET R |->
                                 IF s = {} THEN 0
                                 ELSE NodesOf(CHOOSE x \in s : TRUE)
                                      + iter[s \ {CHOOSE x \in s : TRUE}]]
           found == CHOOSE iter : Is(iter)
<1>1. PICK iter : SumsUp(iter, R, F)
      BY SumIs
<1>2. \A s \in SUBSET R : s # {} => F[AnyOf(s)] = NodesOf(AnyOf(s))
      BY DEF AnyOf
<1>3. Is(iter)
  <2>1. iter = [s \in SUBSET R |-> iter[s]]
        BY <1>1 DEF SumsUp
  <2>2. \A s \in SUBSET R :
           iter[s] = IF s = {} THEN 0 ELSE NodesOf(AnyOf(s)) + iter[s \ {AnyOf(s)}]
        BY <1>1, <1>2 DEF SumsUp
  <2> QED BY <2>1, <2>2 DEF AnyOf
<1>4. Is(found)
  <2> HIDE DEF Is
  <2> QED BY <1>3, Zenon
<1>5. MapThenSumSet(NodesOf, R) = found[R]
      BY Zenon DEF MapThenSumSet, MapThenFoldSet
<1> HIDE DEF found
<1>6. \A s \in SUBSET R :
         found[s] = IF s = {} THEN 0 ELSE NodesOf(AnyOf(s)) + found[s \ {AnyOf(s)}]
      BY <1>4, Zenon DEF AnyOf
<1>7. AddsUp(found, R, F)
      BY <1>2, <1>6 DEF AddsUp
<1>8. found[R] = iter[R]
      BY <1>1, <1>7, OnlySum
<1> QED BY <1>1, <1>5, <1>8

\* What verify expects is a sum over the banks it looks at.
LEMMA ExpectedIs ==
    ASSUME NEW W, IsFiniteSet(W), NEW G \in [W -> Nat], \A b \in W : G[b] = ArchiveNodes(b)
    PROVE  \E iter : SumsUp(iter, W, G) /\ Expected(W) = iter[W]
<1> DEFINE Is(iter) == iter = [s \in SUBSET W |->
                                 IF s = {} THEN 0
                                 ELSE ArchiveNodes(CHOOSE x \in s : TRUE)
                                      + iter[s \ {CHOOSE x \in s : TRUE}]]
           found == CHOOSE iter : Is(iter)
<1>1. PICK iter : SumsUp(iter, W, G)
      BY SumIs
<1>2. \A s \in SUBSET W : s # {} => G[AnyOf(s)] = ArchiveNodes(AnyOf(s))
      BY DEF AnyOf
<1>3. Is(iter)
  <2>1. iter = [s \in SUBSET W |-> iter[s]]
        BY <1>1 DEF SumsUp
  <2>2. \A s \in SUBSET W :
           iter[s] = IF s = {} THEN 0 ELSE ArchiveNodes(AnyOf(s)) + iter[s \ {AnyOf(s)}]
        BY <1>1, <1>2 DEF SumsUp
  <2> QED BY <2>1, <2>2 DEF AnyOf
<1>4. Is(found)
  <2> HIDE DEF Is
  <2> QED BY <1>3, Zenon
<1>5. Expected(W) = found[W]
      BY Zenon DEF Expected, MapThenSumSet, MapThenFoldSet
<1> HIDE DEF found
<1>6. \A s \in SUBSET W :
         found[s] = IF s = {} THEN 0 ELSE ArchiveNodes(AnyOf(s)) + found[s \ {AnyOf(s)}]
      BY <1>4, Zenon DEF AnyOf
<1>7. AddsUp(found, W, G)
      BY <1>2, <1>6 DEF AddsUp
<1>8. found[W] = iter[W]
      BY <1>1, <1>7, OnlySum
<1> QED BY <1>1, <1>5, <1>8

\* What passes was imported, bank by bank.
LEMMA PassedIsWhole ==
    ASSUME Honest, Passes, NEW b \in LegacyBank, ~EmptyArchive(b)
    PROVE  /\ dir.archive[b] \in File /\ dir.archive[b].nodes > 0
           /\ Whole(b, dir.archive[b])
<1>1. /\ dir.sums = Contents /\ dir.archive[b] # NoFile
      /\ docs[b] # NoFile /\ marker[b] = [state |-> "done", of |-> dir.sums]
      BY DEF Passes, Sealed, Agrees, Tier1, MarkedByThis
<1>2. dir.archive[b] \in File /\ dir.archive[b].nodes # 0
      BY <1>1 DEF Honest, FilesTyped, EmptyArchive
<1>3. marker[b].state = "done" /\ marker[b].of.archive[b] = dir.archive[b]
      BY <1>1 DEF Contents
<1>4. BankIsHonest(b)
      BY DEF Honest
<1>5. Whole(b, dir.archive[b])
      BY <1>1, <1>3, <1>4 DEF BankIsHonest, Bare
<1> QED BY <1>2, <1>5 DEF File

\* The sum of the observations is that of the archives only where every bank
\* has its row of them.
LEMMA ObservationsAreThere ==
    ASSUME Honest, Split, Passes, NEW b \in LegacyBank, ~EmptyArchive(b)
    PROVE  OfKind(b, "observation") # {}
<1> DEFINE W == {c \in LegacyBank : ~EmptyArchive(c)}
           R == UNION {OfKind(c, "observation") : c \in W}
           F == [i \in R |-> stored[i].of.nodes]
           G == [c \in W |-> dir.archive[c].nodes]
           h == [i \in R |-> stored[i].bank]
<1> SUFFICES ASSUME OfKind(b, "observation") = {} PROVE FALSE
    OBVIOUS
<1>1. \A c \in W : /\ dir.archive[c] \in File /\ dir.archive[c].nodes > 0
                    /\ AllOf(c, dir.archive[c])
      BY PassedIsWhole DEF Whole
<1>2. ASSUME NEW i \in R
      PROVE  /\ i \in DOMAIN stored /\ stored[i].bank \in W /\ stored[i].kind = "observation"
             /\ stored[i].of = dir.archive[stored[i].bank] /\ stored[i].bank # b
  <2>1. PICK c \in W : i \in OfKind(c, "observation")
        OBVIOUS
  <2>2. /\ i \in DOMAIN stored /\ stored[i].bank = c /\ stored[i].kind = "observation"
        /\ i \in Migrated(c) /\ c # b
        BY <2>1 DEF OfKind, RowsOf, Migrated
  <2> HIDE DEF W
  <2> QED BY <1>1, <2>2 DEF AllOf
<1>3. IsFiniteSet(W)
  <2>1. W \subseteq LegacyBank /\ IsFiniteSet(LegacyBank)
        BY MigrationAssumption
  <2> HIDE DEF W
  <2> QED BY <2>1, FS_Subset
<1>4. IsFiniteSet(R)
  <2>1. PICK n \in Nat : DOMAIN stored \subseteq 1 .. n
        BY DEF Split, MigrationTyped, StoredTyped
  <2>2. \A i \in R : i \in DOMAIN stored
        BY <1>2
  <2> HIDE DEF R
  <2>3. R \subseteq 1 .. n
        BY <2>1, <2>2
  <2>4. IsFiniteSet(1 .. n)
        BY FS_Interval
  <2> QED BY <2>3, <2>4, FS_Subset
<1>5. G \in [W -> Nat] /\ \A c \in W : G[c] = ArchiveNodes(c) /\ G[c] > 0
      BY <1>1 DEF File, ArchiveNodes
<1>6. /\ F \in [R -> Nat] /\ h \in [R -> W]
      /\ \A i \in R : F[i] = G[h[i]] /\ F[i] = NodesOf(i) /\ h[i] # b
  <2> HIDE DEF W, R
  <2>1. h \in [R -> W] /\ \A i \in R : h[i] = stored[i].bank /\ h[i] # b
        BY <1>2
  <2>2. \A i \in R : stored[i].of.nodes = G[h[i]]
        BY <1>2, <2>1
  <2>3. \A i \in R : G[h[i]] \in Nat
        BY <1>5, <2>1
  <2> QED BY <2>1, <2>2, <2>3 DEF NodesOf
<1>7. \A i, j \in R : h[i] = h[j] => i = j
  <2>1. ASSUME NEW i \in R, NEW j \in R, h[i] = h[j]
        PROVE  i = j
    <3>1. /\ i \in DOMAIN stored /\ j \in DOMAIN stored /\ stored[i].bank = stored[j].bank
          /\ stored[i].kind = "observation" /\ stored[j].kind = "observation"
          BY <1>2, <2>1
    <3> QED BY <3>1 DEF Honest, RowsTell, SameSort
  <2> QED BY <2>1
<1>8. b \in W
      OBVIOUS
<1>9. MapThenSumSet(NodesOf, R) = Expected(W)
  <2>1. Counted(W, "observation") = Expected(W)
        BY DEF Passes, Tier1
  <2> HIDE DEF W
  <2> QED BY <2>1 DEF Counted
<1> HIDE DEF W, R, F, G, h
<1>10. PICK iter : SumsUp(iter, R, F) /\ MapThenSumSet(NodesOf, R) = iter[R]
      BY <1>4, <1>6, CountedIs
<1>11. PICK jter : SumsUp(jter, W, G) /\ Expected(W) = jter[W]
      BY <1>3, <1>5, ExpectedIs
<1>12. F \in [R -> Nat] /\ G \in [W -> Nat] /\ h \in [R -> W] /\ G[b] > 0
      BY <1>5, <1>6, <1>8
<1>13. /\ \A i \in R : F[i] = G[h[i]]
       /\ \A i \in R : h[i] # b
      BY <1>6
<1>14. SumsUp(iter, R, F) /\ SumsUp(jter, W, G)
      BY <1>10, <1>11
<1>15. iter[R] # jter[W]
      BY <1>3, <1>4, <1>7, <1>8, <1>12, <1>13, <1>14, SumIsLess
<1> QED BY <1>9, <1>10, <1>11, <1>15

\* A bank marked done is whole, or was purged; what verify passes was imported
\* from the bytes it was compared with, each bank once.
THEOREM VerdictsAreKept == MigrationSpec => []VerdictsAreHonest
<1>1. Honest /\ Split => VerdictsAreHonest
  <2> SUFFICES ASSUME Honest, Split PROVE VerdictsAreHonest
      OBVIOUS
  <2>1. MarkerIsHonest
        BY HonestMarkers DEF Honest
  <2>2. ASSUME Passes, NEW b \in LegacyBank, ~EmptyArchive(b)
        PROVE  /\ docs[b] = dir.archive[b].edition
               /\ {stored[i].of : i \in Migrated(b)} = {dir.archive[b]}
               /\ Cardinality(Migrated(b)) = 2
    <3>1. Whole(b, dir.archive[b])
          BY <2>2, PassedIsWhole
    <3>2. /\ docs[b] = dir.archive[b].edition
          /\ \A i \in Migrated(b) : stored[i].of = dir.archive[b]
          BY <3>1 DEF Whole, AllOf
    <3>3. PICK i : i \in OfKind(b, "fact")
          BY <3>1 DEF Whole, HasFacts
    <3>4. PICK j : j \in OfKind(b, "observation")
          BY <2>2, ObservationsAreThere
    <3>5. \A k \in OfKind(b, "fact") : k = i
          BY <3>3 DEF Honest, RowsTell, SameSort, OfKind, RowsOf
    <3>6. \A k \in OfKind(b, "observation") : k = j
          BY <3>4 DEF Honest, RowsTell, SameSort, OfKind, RowsOf
    <3>7. i # j
          BY <3>3, <3>4 DEF OfKind
    <3>8. Migrated(b) = {i, j}
          BY <3>3, <3>4, <3>5, <3>6 DEF Migrated
    <3>9. {stored[k].of : k \in Migrated(b)} = {dir.archive[b]}
          BY <3>2, <3>8
    <3>10. Cardinality(Migrated(b)) = 2
          BY <3>7, <3>8, TwoAreTwo
    <3> QED BY <3>2, <3>9, <3>10
  <2>3. PassMeansImported
        BY <2>2 DEF PassMeansImported
  <2> QED BY <2>1, <2>3 DEF VerdictsAreHonest
<1> QED BY <1>1, HonestAlways, SplitAlways, PTL

-----------------------------------------------------------------------------
(***************************************************************************)
(* Injection: the model is not sold the same memory twice, and nothing is  *)
(* kept from it that it has not seen.  What is carried along, of the file  *)
(* and of the copy a retain holds: what is on the list is in the context   *)
(* or about to be, and what is in the context is on the list or has        *)
(* lapsed.                                                                 *)
(***************************************************************************)

PromptHooks ==
    {NotRunning} \cup [pc : {"asked"}, exclude : SUBSET Memory]
    \cup [pc : {"record", "emit"}, outcome : {"recalled", "rejected", "transport"},
          found : SUBSET Memory, oversize : BOOLEAN]
StartHooks == {NotRunning} \cup [pc : {"waiting"}, source : {"compact", "clear", "resume"}]

\* A file lists no memory twice.
Listing(list) ==
    /\ list \in Seq(Memory)
    /\ \A i, j \in DOMAIN list : list[i] = list[j] => i = j
Listed(st) == st \in Files /\ Listing(st.barred)

InjectionTyped ==
    /\ prompting \in PromptHooks /\ starting \in StartHooks
    /\ prompting = NotRunning \/ starting = NotRunning
    /\ state # NoState => Listed(state)
    /\ stopping # NotRunning =>
          stopping = [pc |-> "posting", st |-> stopping.st] /\ Listed(stopping.st)
    /\ heldBy = IF stopping = NotRunning THEN "none" ELSE "retain"
    /\ cut \in BOOLEAN /\ losses \in Nat

\* The context was given up, and the list not yet.
Empties == starting # NotRunning /\ starting.source \in Emptying
\* What is noted is sent next.
Sending == IF prompting.pc = "emit" THEN Injectable ELSE {}

\* What is barred was shown or is about to be, in the file and in the copy a
\* retain will store.
BarredIsShown ==
    /\ Empties => shown = {}
    /\ ~cut /\ ~Empties =>
          /\ Barred \subseteq shown \cup Sending
          /\ stopping # NotRunning => ToSet(stopping.st.barred) \subseteq shown

\* What was shown is barred, but for what lapsed.
ShownIsBarred ==
    /\ shown \cup Sending \subseteq Barred \cup lapsed
    /\ prompting.pc = "asked" /\ Mode = "full" => shown \subseteq prompting.exclude \cup lapsed
    /\ prompting.pc \in {"record", "emit"} => Injectable \cap shown \subseteq lapsed

Shown == InjectionTyped /\ BarredIsShown /\ ShownIsBarred

-----------------------------------------------------------------------------
\* A list without repetitions is as long as its set.
LEMMA ListIsCounted ==
    ASSUME NEW list, Listing(list)
    PROVE  /\ ToSet(list) \subseteq Memory /\ IsFiniteSet(ToSet(list))
           /\ Cardinality(ToSet(list)) = Len(list)
<1>1. list \in [1 .. Len(list) -> Memory] /\ Len(list) \in Nat /\ DOMAIN list = 1 .. Len(list)
  BY DEF Listing
<1>2. ToSet(list) \subseteq Memory
  BY <1>1 DEF ToSet
<1>3. list \in Bijection(1 .. Len(list), ToSet(list))
  BY <1>1 DEF Listing, ToSet, Bijection, Injection, Surjection, IsInjective
<1>4. IsFiniteSet(1 .. Len(list)) /\ Cardinality(1 .. Len(list)) = Len(list)
  <2>1. \A n \in Nat : IsFiniteSet(1 .. n) /\ Cardinality(1 .. n) = IF 1 > n THEN 0 ELSE n - 1 + 1
    BY FS_Interval
  <2>2. \A n \in Nat : (IF 1 > n THEN 0 ELSE n - 1 + 1) = n
    OBVIOUS
  <2> QED BY <1>1, <2>1, <2>2
<1> QED BY <1>2, <1>3, <1>4, FS_Bijection DEF ExistsBijection

\* An enumeration of what is new lists it, all of it, and nothing twice.
LEMMA NewIsListed ==
    ASSUME NEW S \in SUBSET Memory, NEW new \in SetToSeqs(S)
    PROVE  Listing(new) /\ ToSet(new) = S /\ Len(new) = Cardinality(S)
<1>1. IsFiniteSet(S) /\ Cardinality(S) \in Nat
  BY InjectionAssumption, FS_Subset, FS_CardinalityType
<1>2. /\ new \in [1 .. Cardinality(S) -> S]
      /\ \A i, j \in 1 .. Cardinality(S) : i # j => new[i] # new[j]
  BY DEF SetToSeqs
<1>3. new \in Seq(Memory) /\ Len(new) = Cardinality(S)
  BY <1>1, <1>2
<1>4. Listing(new)
  BY <1>1, <1>2, <1>3 DEF Listing
<1>5. ToSet(new) \in SUBSET S
  BY <1>2 DEF ToSet
<1>6. Cardinality(ToSet(new)) = Cardinality(S)
  BY <1>3, <1>4, ListIsCounted
<1> QED BY <1>1, <1>3, <1>4, <1>5, <1>6, FS_Subset

\* note_injected keeps the list one, and drops nothing that fits.
LEMMA NotedIsListed ==
    ASSUME NEW list, Listing(list),
           NEW S \in SUBSET Memory, ToSet(list) \cap S = {}, NEW new \in SetToSeqs(S)
    PROVE  /\ Listing(Noted(list, new))
           /\ ToSet(Noted(list, new)) \subseteq ToSet(list) \cup S
           /\ Cardinality(ToSet(list) \cup S) <= InjectedCap =>
                 ToSet(Noted(list, new)) = ToSet(list) \cup S
<1> DEFINE all == list \o new
<1>1. /\ Listing(new) /\ ToSet(new) = S /\ Len(new) = Cardinality(S)
      /\ list \in Seq(Memory) /\ new \in Seq(Memory) /\ Len(list) \in Nat /\ Len(new) \in Nat
  BY NewIsListed DEF Listing
<1>2. /\ all \in Seq(Memory) /\ Len(all) = Len(list) + Len(new)
      /\ \A i \in 1 .. Len(list) + Len(new) :
            all[i] = IF i <= Len(list) THEN list[i] ELSE new[i - Len(list)]
  BY <1>1, ConcatProperties
<1> HIDE DEF all
<1>3. DOMAIN all = 1 .. Len(all) /\ DOMAIN list = 1 .. Len(list) /\ DOMAIN new = 1 .. Len(new)
      /\ Len(all) \in Nat
  BY <1>1, <1>2
<1>4. ToSet(all) \subseteq ToSet(list) \cup S
  <2> SUFFICES ASSUME NEW i \in 1 .. Len(all) PROVE all[i] \in ToSet(list) \cup ToSet(new)
    BY <1>1, <1>3 DEF ToSet
  <2>1. CASE i <= Len(list)
    <3>1. i \in DOMAIN list /\ all[i] = list[i]
      BY <2>1, <1>1, <1>2, <1>3
    <3> QED BY <3>1 DEF ToSet
  <2>2. CASE ~(i <= Len(list))
    <3>1. i - Len(list) \in DOMAIN new /\ all[i] = new[i - Len(list)]
      BY <2>2, <1>1, <1>2, <1>3
    <3> QED BY <3>1 DEF ToSet
  <2> QED BY <2>1, <2>2
<1>5. ToSet(list) \cup S \subseteq ToSet(all)
  <2>1. ASSUME NEW i \in DOMAIN list PROVE list[i] \in ToSet(all)
    <3>1. i \in DOMAIN all /\ all[i] = list[i]
      BY <1>1, <1>2, <1>3
    <3> QED BY <3>1 DEF ToSet
  <2>2. ASSUME NEW i \in DOMAIN new PROVE new[i] \in ToSet(all)
    <3>1. i + Len(list) \in DOMAIN all /\ all[i + Len(list)] = new[i]
      BY <1>1, <1>2, <1>3
    <3> QED BY <3>1 DEF ToSet
  <2>3. ToSet(list) \subseteq ToSet(all)
    BY <2>1 DEF ToSet
  <2>4. ToSet(new) \subseteq ToSet(all)
    BY <2>2 DEF ToSet
  <2> QED BY <2>3, <2>4, <1>1
<1>6. Listing(all)
  <2>1. ASSUME NEW i \in 1 .. Len(list), NEW k \in 1 .. Len(new) PROVE list[i] # new[k]
    <3>1. list[i] \in ToSet(list) /\ new[k] \in ToSet(new)
      BY <1>3 DEF ToSet
    <3> QED BY <3>1, <1>1
  <2> SUFFICES ASSUME NEW i \in 1 .. Len(all), NEW j \in 1 .. Len(all), all[i] = all[j] PROVE i = j
    BY <1>2, <1>3 DEF Listing
  <2>2. CASE i <= Len(list) /\ j <= Len(list)
    BY SMTT(60), <2>2, <1>1, <1>2, <1>3 DEF Listing
  <2>3. CASE ~(i <= Len(list)) /\ ~(j <= Len(list))
    <3>1. i - Len(list) \in DOMAIN new /\ j - Len(list) \in DOMAIN new
      BY <2>3, <1>1, <1>2, <1>3
    <3>2. new[i - Len(list)] = new[j - Len(list)]
      BY <2>3, <1>1, <1>2, <1>3
    <3>3. i - Len(list) = j - Len(list)
      BY <3>1, <3>2, <1>1 DEF Listing
    <3> QED BY <3>3, <1>1
  <2>4. CASE i <= Len(list) /\ ~(j <= Len(list))
    <3>1. j - Len(list) \in 1 .. Len(new) /\ all[j] = new[j - Len(list)] /\ all[i] = list[i]
      BY <2>4, <1>1, <1>2, <1>3
    <3>2. i \in 1 .. Len(list)
      BY <2>4, <1>1, <1>3
    <3> QED BY <2>1, <3>1, <3>2
  <2>5. CASE ~(i <= Len(list)) /\ j <= Len(list)
    <3>1. i - Len(list) \in 1 .. Len(new) /\ all[i] = new[i - Len(list)] /\ all[j] = list[j]
      BY <2>5, <1>1, <1>2, <1>3
    <3>2. j \in 1 .. Len(list)
      BY <2>5, <1>1, <1>3
    <3> QED BY <2>1, <3>1, <3>2
  <2> QED BY <2>2, <2>3, <2>4, <2>5
<1>7. Noted(list, new) = IF Len(all) - InjectedCap > 0
                         THEN SubSeq(all, Len(all) - InjectedCap + 1, Len(all)) ELSE all
  BY DEF Noted, all
<1>8. InjectedCap \in Nat
  BY InjectionAssumption
<1>9. CASE Len(all) - InjectedCap > 0
  <2> DEFINE some == SubSeq(all, Len(all) - InjectedCap + 1, Len(all))
  <2>1. /\ some \in Seq(Memory) /\ Len(some) \in Nat
        /\ \A i \in DOMAIN some :
              i + (Len(all) - InjectedCap) \in DOMAIN all /\ some[i] = all[i + (Len(all) - InjectedCap)]
    <3>1. \A i \in Len(all) - InjectedCap + 1 .. Len(all) : all[i] \in Memory
      BY <1>2, <1>3, <1>8, <1>9
    <3>2. /\ some \in Seq(Memory)
          /\ Len(some) = IF Len(all) - InjectedCap + 1 <= Len(all) THEN InjectedCap ELSE 0
          /\ \A i \in 1 .. InjectedCap : some[i] = all[Len(all) - InjectedCap + 1 + i - 1]
      BY <3>1, <1>3, <1>8, <1>9, SubSeqProperties
    <3> HIDE DEF some
    <3>3. DOMAIN some = 1 .. Len(some) /\ Len(some) <= InjectedCap /\ Len(some) \in Nat
      BY <3>2, <1>3, <1>8
    <3>4. ASSUME NEW i \in DOMAIN some
          PROVE  i + (Len(all) - InjectedCap) \in DOMAIN all /\ some[i] = all[i + (Len(all) - InjectedCap)]
      <4>1. i \in 1 .. InjectedCap
        BY <3>3, <1>8
      <4>2. Len(all) - InjectedCap + 1 + i - 1 = i + (Len(all) - InjectedCap)
        BY <4>1, <1>3, <1>8
      <4>3. some[i] = all[i + (Len(all) - InjectedCap)]
        BY <4>1, <4>2, <3>2
      <4> QED BY <4>1, <4>3, <1>3, <1>8, <1>9
    <3> QED BY <3>2, <3>3, <3>4
  <2>2. Noted(list, new) = some
    BY <1>7, <1>9
  <2> HIDE DEF some
  <2>3. Listing(some)
    <3> SUFFICES ASSUME NEW i \in DOMAIN some, NEW j \in DOMAIN some, some[i] = some[j]
                 PROVE  i = j
      BY <2>1 DEF Listing
    <3>1. i + (Len(all) - InjectedCap) = j + (Len(all) - InjectedCap)
      BY <2>1, <1>6 DEF Listing
    <3>2. i \in Nat /\ j \in Nat
      BY <2>1
    <3> QED BY <3>1, <3>2, <1>3, <1>8
  <2>4. ToSet(some) \subseteq ToSet(all)
    BY <2>1 DEF ToSet
  <2>5. Cardinality(ToSet(list) \cup S) > InjectedCap
    <3>1. Cardinality(ToSet(all)) = Len(all)
      BY <1>6, ListIsCounted
    <3>2. ToSet(list) \cup S = ToSet(all)
      BY <1>4, <1>5
    <3>3. Cardinality(ToSet(list) \cup S) = Len(all)
      BY <3>1, <3>2, Zenon
    <3>4. Len(all) > InjectedCap
      BY <1>3, <1>8, <1>9
    <3> QED BY ONLY <3>3, <3>4
  <2>6. ~(Cardinality(ToSet(list) \cup S) <= InjectedCap)
    <3>1. IsFiniteSet(ToSet(list) \cup S)
      BY <1>4, <1>5, <1>6, ListIsCounted
    <3> QED BY <2>5, <3>1, <1>8, FS_CardinalityType
  <2> QED BY <2>2, <2>3, <2>4, <2>6, <1>4
<1>10. CASE ~(Len(all) - InjectedCap > 0)
  BY <1>4, <1>5, <1>6, <1>7, <1>10
<1> QED BY <1>9, <1>10

-----------------------------------------------------------------------------
\* What is typed of a running hook.
LEMMA PromptTyped ==
    ASSUME prompting \in PromptHooks
    PROVE  /\ prompting.pc = "asked" => prompting.exclude \subseteq Memory
           /\ prompting.pc \in {"record", "emit"} =>
                 /\ prompting \in [pc : {"record", "emit"},
                                   outcome : {"recalled", "rejected", "transport"},
                                   found : SUBSET Memory, oversize : BOOLEAN]
                 /\ Injectable \subseteq Memory
           /\ prompting = NotRunning <=> prompting.pc = "none"
           /\ prompting.pc \in {"none", "asked", "record", "emit"}
BY DEF PromptHooks, NotRunning, Injectable

\* Its own fields apart, a hook leaves the file's list alone.
LEMMA FilesKeepTheirList ==
    ASSUME NEW st, Listed(st)
    PROVE  /\ Listed(Reached(st)) /\ Reached(st).barred = st.barred
           /\ Listed(Missed(st)) /\ Missed(st).barred = st.barred
           /\ \A open \in BOOLEAN : /\ Listed([st EXCEPT !.open = open])
                                    /\ [st EXCEPT !.open = open].barred = st.barred
           /\ Listed([st EXCEPT !.barred = << >>])
           /\ ToSet([st EXCEPT !.barred = << >>].barred) = {}
           /\ st # NoState /\ ToSet(st.barred) \subseteq Memory
<1>1. st \in [barred : Seq(Memory), failures : Nat, open : BOOLEAN]
  BY DEF Listed, Files
<1>3. Listing(<< >>) /\ ToSet(<< >>) = {}
  BY DEF Listing, ToSet
<1>4. st # NoState
  BY NoStateAssumption DEF Listed
<1>5. ToSet(st.barred) \subseteq Memory
  BY <1>1, ElementOfSeq DEF ToSet
<1>6. Listed(Reached(st)) /\ Reached(st).barred = st.barred
  BY <1>1 DEF Reached, Listed, Files
<1>7. Listed(Missed(st)) /\ Missed(st).barred = st.barred
  <2>1. (IF st.failures < BreakerAfter THEN st.failures + 1 ELSE st.failures) \in Nat
    BY <1>1
  <2>2. (st.open \/ st.failures + 1 >= BreakerAfter) \in BOOLEAN
    BY Zenon
  <2>3. Missed(st) = [st EXCEPT !.failures = IF st.failures < BreakerAfter THEN st.failures + 1
                                             ELSE st.failures,
                                !.open = st.open \/ st.failures + 1 >= BreakerAfter]
    BY <1>1 DEF Missed
  <2> QED BY <1>1, <2>1, <2>2, <2>3 DEF Listed, Files
<1>8. ASSUME NEW open \in BOOLEAN
      PROVE  Listed([st EXCEPT !.open = open]) /\ [st EXCEPT !.open = open].barred = st.barred
  BY <1>1 DEF Listed, Files
<1>9. Listed([st EXCEPT !.barred = << >>]) /\ ToSet([st EXCEPT !.barred = << >>].barred) = {}
  <2>1. [st EXCEPT !.barred = << >>] \in Files /\ [st EXCEPT !.barred = << >>].barred = << >>
    <3>1. \A e \in Seq(Memory) : /\ [st EXCEPT !.barred = e] \in Files
                                 /\ [st EXCEPT !.barred = e].barred = e
      BY <1>1 DEF Files
    <3>2. << >> \in Seq(Memory)
      OBVIOUS
    <3> QED BY ONLY <3>1, <3>2
  <2> QED BY <2>1, <1>3 DEF Listed
<1> QED BY <1>4, <1>5, <1>6, <1>7, <1>8, <1>9

LEMMA LoadedIsListed ==
    ASSUME InjectionTyped
    PROVE  Listed(Loaded) /\ ToSet(Loaded.barred) = Barred /\ Barred \subseteq Memory
<1>1. Listed(FreshState) /\ ToSet(FreshState.barred) = {}
  BY DEF FreshState, Listed, Files, Listing, ToSet
<1>2. state # NoState => Listed(state)
  BY DEF InjectionTyped
<1>3. \A st : Listed(st) => ToSet(st.barred) \subseteq Memory
  BY FilesKeepTheirList
<1> QED BY <1>1, <1>2, <1>3 DEF Loaded, Barred

\* The types, part by part.
LEMMA TypedStep ==
    ASSUME prompting' \in PromptHooks, starting' \in StartHooks,
           prompting' = NotRunning \/ starting' = NotRunning,
           state' # NoState => Listed(state'),
           stopping' # NotRunning => /\ stopping' = [pc |-> "posting", st |-> stopping'.st]
                                     /\ Listed(stopping'.st),
           heldBy' = IF stopping' = NotRunning THEN "none" ELSE "retain",
           cut' \in BOOLEAN, losses' \in Nat
    PROVE  InjectionTyped'
<1>1. NotRunning' = NotRunning /\ PromptHooks' = PromptHooks /\ StartHooks' = StartHooks
  BY DEF NotRunning, PromptHooks, StartHooks
<1>2. state' # NoState => Listed(state)'
  BY DEF Listed, Listing, Files
<1>3. stopping' # NotRunning => Listed(stopping.st)'
  BY DEF Listed, Listing, Files
<1> QED BY <1>1, <1>2, <1>3 DEF InjectionTyped

LEMMA ShownAtFirst == InjectionInit => Shown
<1> SUFFICES ASSUME InjectionInit PROVE Shown
  OBVIOUS
<1>1. /\ state = NoState /\ shown = {} /\ heldBy = "none" /\ lapsed = {} /\ cut = FALSE
      /\ prompting = NotRunning /\ stopping = NotRunning /\ starting = NotRunning /\ losses = 0
  BY DEF InjectionInit
<1>2. prompting.pc = "none" /\ Barred = {} /\ ~Empties /\ Sending = {}
  BY <1>1 DEF NotRunning, Barred, Empties, Sending
<1>3. InjectionTyped
  BY <1>1 DEF InjectionTyped, PromptHooks, StartHooks
<1>4. BarredIsShown
  BY <1>1, <1>2 DEF BarredIsShown
<1>5. ShownIsBarred
  BY <1>1, <1>2 DEF ShownIsBarred
<1> QED BY <1>3, <1>4, <1>5 DEF Shown

\* What the steps of a recall, a retain or a session-start leave alone.
LEMMA ShownStutter == Shown /\ UNCHANGED injectionVars => Shown'
<1> SUFFICES ASSUME Shown, UNCHANGED injectionVars PROVE Shown'
  OBVIOUS
<1>1. UNCHANGED << state, shown, prompting, stopping, starting, heldBy, lapsed, cut, losses >>
  BY DEF injectionVars, hooks
<1>2. InjectionTyped'
  BY <1>1, TypedStep DEF Shown, InjectionTyped
<1>3. Barred' = Barred /\ Empties' = Empties /\ Sending' = Sending /\ Injectable' = Injectable
  BY <1>1 DEF Barred, Empties, Sending, Injectable
<1>4. BarredIsShown' /\ ShownIsBarred'
  BY <1>1, <1>3 DEF Shown, BarredIsShown, ShownIsBarred
<1> QED BY <1>2, <1>4 DEF Shown

LEMMA RecallKeepsShown ==
    ASSUME Shown, RecallBegins \/ Fetch \/ Emit
    PROVE  Shown'
<1>1. CASE RecallBegins
  <2>1. /\ prompting = NotRunning /\ starting = NotRunning
        /\ prompting' = [pc |-> "asked", exclude |-> Excluded(Loaded)]
        /\ UNCHANGED << state, shown, stopping, starting, heldBy, lapsed, cut >>
    BY <1>1 DEF RecallBegins
  <2>2. /\ ToSet(Loaded.barred) = Barred /\ Barred \subseteq Memory
        /\ Excluded(Loaded) = IF Mode = "full" THEN Barred ELSE {}
    BY LoadedIsListed DEF Shown, Excluded
  <2>3. Barred' = Barred /\ Empties' = Empties /\ Sending = {} /\ Sending' = {}
    BY <2>1 DEF Barred, Empties, Sending, NotRunning
  <2>4. InjectionTyped'
    <3>1. prompting' \in PromptHooks
      BY <2>1, <2>2 DEF PromptHooks
    <3>2. losses' = losses
      BY <1>1 DEF RecallBegins
    <3> QED BY <2>1, <3>1, <3>2, TypedStep DEF Shown, InjectionTyped
  <2>5. BarredIsShown'
    BY <2>1, <2>3 DEF Shown, BarredIsShown
  <2>6. ShownIsBarred'
    <3>1. prompting'.pc = "asked" /\ prompting'.exclude = Excluded(Loaded)
      BY <2>1
    <3> QED BY <3>1, <2>1, <2>2, <2>3 DEF Shown, ShownIsBarred
  <2> QED BY <2>4, <2>5, <2>6 DEF Shown
<1>2. CASE Fetch
  <2>1. PICK found \in SUBSET (Memory \ prompting.exclude), oversize \in BOOLEAN,
             outcome \in {"recalled", "rejected", "transport"} :
          prompting' = [pc |-> "record", outcome |-> outcome, found |-> found,
                        oversize |-> oversize]
    BY <1>2 DEF Fetch
  <2>2. /\ prompting.pc = "asked" /\ prompting'.pc = "record" /\ prompting # NotRunning
        /\ UNCHANGED << state, shown, stopping, starting, heldBy, lapsed, cut >>
    BY <1>2, <2>1 DEF Fetch, NotRunning
  <2>3. Barred' = Barred /\ Empties' = Empties /\ Sending = {} /\ Sending' = {}
    BY <2>2 DEF Barred, Empties, Sending
  <2>4. InjectionTyped'
    <3>1. prompting' \in PromptHooks
      <4>1. found \in SUBSET Memory
        OBVIOUS
      <4> QED BY <2>1, <4>1 DEF PromptHooks
    <3>2. losses' = losses /\ starting = NotRunning
      BY <1>2, <2>2 DEF Fetch, Shown, InjectionTyped
    <3> QED BY <2>2, <3>1, <3>2, TypedStep DEF Shown, InjectionTyped
  <2>5. BarredIsShown'
    BY <2>2, <2>3 DEF Shown, BarredIsShown
  <2>6. ShownIsBarred'
    <3>1. Injectable' \subseteq found /\ (Mode # "full" => Injectable' = {})
      BY <2>1 DEF Injectable
    <3> QED BY <3>1, <2>1, <2>2, <2>3 DEF Shown, ShownIsBarred
  <2> QED BY <2>4, <2>5, <2>6 DEF Shown
<1>3. CASE Emit
  <2>1. /\ prompting.pc = "emit" /\ prompting' = NotRunning /\ shown' = shown \cup Injectable
        /\ UNCHANGED << state, stopping, starting, heldBy, lapsed, cut >>
    BY <1>3 DEF Emit
  <2>2. Barred' = Barred /\ Empties' = Empties /\ Sending = Injectable /\ Sending' = {}
        /\ prompting'.pc = "none" /\ prompting # NotRunning
    BY <2>1 DEF Barred, Empties, Sending, NotRunning
  <2>3. ~Empties
    BY <2>2 DEF Shown, InjectionTyped, Empties
  <2>4. InjectionTyped'
    <3>1. prompting' \in PromptHooks
      BY <2>1 DEF PromptHooks
    <3>2. losses' = losses /\ starting = NotRunning
      BY <1>3, <2>2 DEF Emit, Shown, InjectionTyped
    <3> QED BY <2>1, <3>1, <3>2, TypedStep DEF Shown, InjectionTyped
  <2>5. BarredIsShown'
    BY <2>1, <2>2, <2>3 DEF Shown, BarredIsShown
  <2>6. ShownIsBarred'
    BY <2>1, <2>2 DEF Shown, ShownIsBarred
  <2> QED BY <2>4, <2>5, <2>6 DEF Shown
<1> QED BY <1>1, <1>2, <1>3

\* record: what is noted is barred, or lapsed with its record or over the cap.
LEMMA RecordKeepsShown ==
    ASSUME Shown, Record
    PROVE  Shown'
<1>1. /\ prompting.pc = "record" /\ prompting' = [prompting EXCEPT !.pc = "emit"]
      /\ UNCHANGED << shown, stopping, starting, heldBy, cut >>
  BY DEF Record
<1>2. PICK new \in SetToSeqs(Injectable \ Barred) :
        /\ \/ /\ state' = (IF AfterOutcome(Loaded, new) = Loaded THEN state
                           ELSE AfterOutcome(Loaded, new))
              /\ UNCHANGED losses
           \/ losses < MaxLosses /\ losses' = losses + 1 /\ UNCHANGED state
        /\ lapsed' = lapsed \cup
             (IF losses' # losses THEN Injectable
              ELSE IF Cardinality(Barred \cup Injectable) > InjectedCap
                   THEN (Barred \cup Injectable) \ ToSet(AfterOutcome(Loaded, new).barred) ELSE {})
  BY DEF Record
<1>3. /\ Injectable \subseteq Memory /\ prompting # NotRunning
      /\ prompting \in [pc : {"record", "emit"}, outcome : {"recalled", "rejected", "transport"},
                        found : SUBSET Memory, oversize : BOOLEAN]
  BY <1>1, PromptTyped DEF Shown, InjectionTyped, NotRunning
<1>4. /\ Listed(Loaded) /\ ToSet(Loaded.barred) = Barred /\ Barred \subseteq Memory
      /\ Listing(Loaded.barred) /\ Loaded \in Files
  BY LoadedIsListed DEF Shown, Listed
<1>5. /\ Injectable' = Injectable /\ prompting'.pc = "emit" /\ prompting' # NotRunning
      /\ prompting' \in PromptHooks
  BY <1>1, <1>3 DEF Injectable, PromptHooks, NotRunning
<1> DEFINE list == Noted(Loaded.barred, new)
           after == AfterOutcome(Loaded, new)
<1>6. /\ Listing(list) /\ ToSet(list) \subseteq Barred \cup Injectable
      /\ Cardinality(Barred \cup Injectable) <= InjectedCap => ToSet(list) = Barred \cup Injectable
  <2>1. Injectable \ Barred \in SUBSET Memory /\ Barred \cup (Injectable \ Barred) = Barred \cup Injectable
    BY <1>3
  <2>2. ToSet(Loaded.barred) \cap (Injectable \ Barred) = {}
    BY <1>4
  <2>3. /\ Listing(list) /\ ToSet(list) \subseteq Barred \cup (Injectable \ Barred)
        /\ Cardinality(Barred \cup (Injectable \ Barred)) <= InjectedCap =>
              ToSet(list) = Barred \cup (Injectable \ Barred)
    <3>1. /\ Listing(list) /\ ToSet(list) \subseteq ToSet(Loaded.barred) \cup (Injectable \ Barred)
          /\ Cardinality(ToSet(Loaded.barred) \cup (Injectable \ Barred)) <= InjectedCap =>
                ToSet(list) = ToSet(Loaded.barred) \cup (Injectable \ Barred)
      BY <2>1, <2>2, <1>4, NotedIsListed
    <3> QED BY <3>1, <1>4
  <2> QED BY <2>1, <2>3
<1> HIDE DEF list
<1>7. /\ Listed(after) /\ ToSet(after.barred) \subseteq Barred \cup Injectable
      /\ Cardinality(Barred \cup Injectable) <= InjectedCap =>
            Barred \cup Injectable \subseteq ToSet(after.barred)
  <2>1. CASE prompting.outcome = "recalled"
    <3>1. after = [Reached(Loaded) EXCEPT !.barred = Noted(Reached(Loaded).barred, new)]
      BY <2>1, FilesKeepTheirList, <1>4 DEF AfterOutcome, Listed, Files
    <3>2. Listed(Reached(Loaded)) /\ Reached(Loaded).barred = Loaded.barred
      BY <1>4, FilesKeepTheirList
    <3>3. after = [Reached(Loaded) EXCEPT !.barred = list]
      BY <3>1, <3>2 DEF list
    <3> HIDE DEF after
    <3>4. after.barred = list /\ after \in Files
      BY <3>2, <3>3, <1>6 DEF Listed, Files, Listing
    <3> QED BY <3>4, <1>6 DEF Listed
  <2>2. CASE prompting.outcome # "recalled"
    <3>1. Injectable = {}
      BY <2>2 DEF Injectable
    <3>2. after = Missed(Loaded) \/ after = Loaded
      BY <2>2 DEF AfterOutcome
    <3>3. Listed(after) /\ after.barred = Loaded.barred
      BY <3>2, <1>4, FilesKeepTheirList
    <3> QED BY <3>1, <3>3, <1>4
  <2> QED BY <2>1, <2>2
<1>8. /\ state' # NoState => Listed(state')
      /\ Barred' \subseteq Barred \cup Injectable
      /\ shown \cup Injectable \subseteq Barred' \cup lapsed'
      /\ lapsed \subseteq lapsed'
  <2>1. shown \subseteq Barred \cup lapsed
    BY DEF Shown, ShownIsBarred
  <2>2. CASE state' = state /\ losses' # losses
    <3>1. Barred' = Barred
      BY <2>2 DEF Barred
    <3>2. lapsed' = lapsed \cup Injectable
      BY <2>2, <1>2
    <3>3. state # NoState => Listed(state)
      BY DEF Shown, InjectionTyped
    <3> QED BY <3>1, <3>2, <3>3, <2>1, <2>2
  <2>3. CASE losses' = losses
    <3>1. state' = IF after = Loaded THEN state ELSE after
      <4>1. losses \in Nat => losses + 1 # losses
        OBVIOUS
      <4> QED BY <1>2, <2>3, <4>1 DEF Shown, InjectionTyped
    <3>2. lapsed' = lapsed \cup (IF Cardinality(Barred \cup Injectable) > InjectedCap
                                 THEN (Barred \cup Injectable) \ ToSet(after.barred) ELSE {})
      BY <1>2, <2>3
    <3> HIDE DEF after
    <3>3. Barred' = ToSet(after.barred)
      <4>1. CASE after = Loaded
        BY <4>1, <3>1, <1>4 DEF Barred
      <4>2. CASE after # Loaded
        <5>1. state' = after /\ after # NoState
          BY <4>2, <3>1, <1>7, FilesKeepTheirList
        <5> QED BY <5>1 DEF Barred
      <4> QED BY <4>1, <4>2
    <3>4. state' # NoState => Listed(state')
      BY <3>1, <1>7 DEF Shown, InjectionTyped
    <3>5. Barred \cup Injectable \subseteq Barred' \cup lapsed'
      <4>1. IsFiniteSet(Barred \cup Injectable)
        <5>1. Barred \cup Injectable \in SUBSET Memory
          BY <1>3, <1>4
        <5> QED BY <5>1, InjectionAssumption, FS_Subset
      <4>2. \/ Cardinality(Barred \cup Injectable) > InjectedCap
            \/ Cardinality(Barred \cup Injectable) <= InjectedCap
        BY <4>1, FS_CardinalityType, InjectionAssumption
      <4>3. CASE Cardinality(Barred \cup Injectable) > InjectedCap
        BY <4>3, <3>2, <3>3
      <4>4. CASE Cardinality(Barred \cup Injectable) <= InjectedCap
        BY <4>4, <3>3, <1>7
      <4> QED BY <4>2, <4>3, <4>4
    <3>6. lapsed \subseteq lapsed'
      BY <3>2
    <3> QED BY <3>3, <3>4, <3>5, <3>6, <2>1, <1>7
  <2> QED BY <1>2, <2>2, <2>3
<1>9. InjectionTyped'
  <2>1. losses' \in Nat /\ starting = NotRunning
    BY <1>2, <1>3 DEF Shown, InjectionTyped
  <2> QED BY <1>1, <1>5, <1>8, <2>1, TypedStep DEF Shown, InjectionTyped
<1>10. BarredIsShown'
  <2>1. Sending = {} /\ Sending' = Injectable /\ Empties' = Empties
    BY <1>1, <1>5 DEF Sending, Empties
  <2>2. ToSet(stopping.st.barred)' = ToSet(stopping.st.barred)
    BY <1>1
  <2> QED BY <2>1, <2>2, <1>1, <1>8 DEF Shown, BarredIsShown
<1>11. ShownIsBarred'
  <2>1. Sending' = Injectable
    BY <1>5 DEF Sending
  <2> QED BY <2>1, <1>1, <1>5, <1>8 DEF Shown, ShownIsBarred
<1> QED BY <1>9, <1>10, <1>11 DEF Shown

\* Steps that leave prompt and context alone.
LEMMA RetainKeepsShown ==
    ASSUME Shown, Cooldown \/ RetainBegins \/ RetainEnds \/ LoseState
    PROVE  Shown'
<1>1. UNCHANGED << shown, prompting, starting, cut >>
  BY DEF Cooldown, RetainBegins, RetainEnds, LoseState, hooks
<1>2. Empties' = Empties /\ Sending' = Sending /\ Injectable' = Injectable
  BY <1>1 DEF Empties, Sending, Injectable
\* What is left to show of each: the list, and what lapses with it.
<1>3. ASSUME state' # NoState => Listed(state'), losses' \in Nat,
             stopping' # NotRunning => /\ stopping' = [pc |-> "posting", st |-> stopping'.st]
                                       /\ Listed(stopping'.st),
             heldBy' = IF stopping' = NotRunning THEN "none" ELSE "retain",
             ~cut /\ ~Empties => Barred' \subseteq shown \cup Sending,
             ~cut /\ ~Empties /\ stopping' # NotRunning => ToSet(stopping'.st.barred) \subseteq shown,
             lapsed \subseteq lapsed', Barred \subseteq Barred' \cup lapsed'
      PROVE  Shown'
  <2>1. InjectionTyped'
    BY <1>1, <1>3, TypedStep DEF Shown, InjectionTyped
  <2>2. BarredIsShown'
    <3>1. ToSet(stopping.st.barred)' = ToSet(stopping'.st.barred) /\ NotRunning' = NotRunning
      BY DEF NotRunning
    <3> QED BY <1>1, <1>2, <1>3, <3>1 DEF Shown, BarredIsShown
  <2>3. ShownIsBarred'
    BY <1>1, <1>2, <1>3 DEF Shown, ShownIsBarred
  <2> QED BY <2>1, <2>2, <2>3 DEF Shown
<1>4. CASE Cooldown
  <2>1. /\ state # NoState /\ state' = [state EXCEPT !.open = FALSE] /\ Listed(state)
        /\ UNCHANGED << stopping, heldBy, lapsed, losses >>
    BY <1>4 DEF Cooldown, hooks, Shown, InjectionTyped
  <2>2. Listed(state') /\ state' # NoState /\ state'.barred = state.barred
    BY <2>1, FilesKeepTheirList
  <2>3. Barred' = Barred
    BY <2>1, <2>2 DEF Barred
  <2> QED BY <1>3, <2>1, <2>2, <2>3 DEF Shown, InjectionTyped, BarredIsShown
<1>5. CASE RetainBegins
  <2>1. /\ prompting = NotRunning /\ stopping' = [pc |-> "posting", st |-> Loaded]
        /\ heldBy' = "retain" /\ UNCHANGED << state, lapsed, losses >>
    BY <1>5 DEF RetainBegins
  <2>2. Listed(Loaded) /\ ToSet(Loaded.barred) = Barred
    BY LoadedIsListed DEF Shown
  <2>3. Barred' = Barred /\ Sending = {} /\ stopping' # NotRunning /\ stopping'.st = Loaded
    BY <2>1 DEF Barred, Sending, NotRunning
  <2> QED BY <1>3, <2>1, <2>2, <2>3 DEF Shown, InjectionTyped, BarredIsShown
<1>6. CASE RetainEnds
  <2>1. /\ stopping # NotRunning /\ stopping' = NotRunning /\ heldBy' = "none"
        /\ \/ state' \in {Reached(stopping.st), Missed(stopping.st), stopping.st} /\ losses' = losses
           \/ losses' = losses + 1 /\ state' = state
        /\ lapsed' = lapsed \cup
             (Barred \ (IF state' = NoState THEN {} ELSE ToSet(state'.barred)))
    BY <1>6 DEF RetainEnds
  <2>2. Barred' = IF state' = NoState THEN {} ELSE ToSet(state'.barred)
    BY DEF Barred
  <2>3. Listed(stopping.st)
    BY <2>1 DEF Shown, InjectionTyped
  <2>4. \/ Listed(state') /\ state'.barred = stopping.st.barred
        \/ state' = state
    BY <2>1, <2>3, FilesKeepTheirList
  <2>5. state' # NoState => Listed(state')
    BY <2>4 DEF Shown, InjectionTyped
  <2>6. ~cut /\ ~Empties => Barred' \subseteq shown \cup Sending
    <3>1. CASE state' = state
      BY <3>1 DEF Barred, Shown, BarredIsShown
    <3>2. CASE Listed(state') /\ state'.barred = stopping.st.barred
      BY <3>2, <2>1, <2>2 DEF Shown, BarredIsShown
    <3> QED BY <2>4, <3>1, <3>2
  <2>7. losses' \in Nat
    BY <2>1 DEF Shown, InjectionTyped
  <2> QED BY <1>3, <2>1, <2>2, <2>5, <2>6, <2>7
<1>7. CASE LoseState
  <2>1. /\ state' = NoState /\ lapsed' = lapsed \cup Barred /\ losses' = losses + 1
        /\ UNCHANGED << stopping, heldBy >>
    BY <1>7 DEF LoseState, hooks
  <2>2. Barred' = {}
    BY <2>1 DEF Barred
  <2> QED BY <1>3, <2>1, <2>2 DEF Shown, InjectionTyped, BarredIsShown
<1> QED BY <1>4, <1>5, <1>6, <1>7

LEMMA ContextKeepsShown ==
    ASSUME Shown, ContextEnds \/ SessionStarts
    PROVE  Shown'
<1>1. CASE ContextEnds
  <2>1. PICK source \in {"compact", "clear", "resume"} :
          /\ starting' = [pc |-> "waiting", source |-> source]
          /\ shown' = IF source = "resume" THEN shown ELSE {}
    BY <1>1 DEF ContextEnds
  <2>2. /\ prompting = NotRunning /\ starting = NotRunning
        /\ UNCHANGED << state, prompting, stopping, heldBy, lapsed, cut, losses >>
    BY <1>1 DEF ContextEnds
  <2>3. /\ Barred' = Barred /\ Sending = {} /\ Sending' = {} /\ ~Empties
        /\ prompting.pc = "none" /\ (Empties' <=> source # "resume")
    BY <2>1, <2>2 DEF Barred, Sending, Empties, Emptying, NotRunning
  <2>4. InjectionTyped'
    <3>1. starting' \in StartHooks
      BY <2>1 DEF StartHooks
    <3> QED BY <2>2, <3>1, TypedStep DEF Shown, InjectionTyped
  <2>5. BarredIsShown'
    BY <2>1, <2>2, <2>3 DEF Shown, BarredIsShown
  <2>6. ShownIsBarred'
    BY <2>1, <2>2, <2>3 DEF Shown, ShownIsBarred
  <2> QED BY <2>4, <2>5, <2>6 DEF Shown
<1>2. CASE SessionStarts
  <2> DEFINE kept == [Loaded EXCEPT !.barred = IF starting.source \in Emptying THEN << >> ELSE @]
  <2>1. /\ starting # NotRunning /\ heldBy = "none" /\ starting' = NotRunning
        /\ UNCHANGED << shown, prompting, stopping, heldBy, lapsed >>
        /\ \/ losses' = losses /\ cut' = cut
           \/ losses' = losses + 1 /\ cut' = TRUE /\ state' = state
    BY <1>2 DEF SessionStarts
  <2>2. \/ state' \in {Reached(kept), [Missed(kept) EXCEPT !.open = kept.open], kept}
        \/ cut' = TRUE /\ state' = state
    BY <1>2 DEF SessionStarts
  <2>3. /\ Listed(kept) /\ kept.open \in BOOLEAN
        /\ ToSet(kept.barred) = IF starting.source \in Emptying THEN {} ELSE Barred
    <3>1. Listed(Loaded) /\ ToSet(Loaded.barred) = Barred
      BY LoadedIsListed DEF Shown
    <3>2. CASE starting.source \in Emptying
      <4>1. kept = [Loaded EXCEPT !.barred = << >>]
        BY <3>2
      <4>2. Listed(kept) /\ ToSet(kept.barred) = {}
        BY <4>1, <3>1, FilesKeepTheirList
      <4> QED BY <4>2, <3>2 DEF Listed, Files
    <3>3. CASE starting.source \notin Emptying
      <4>1. kept = Loaded
        BY <3>1, <3>3 DEF Listed, Files
      <4> QED BY <4>1, <3>1, <3>3 DEF Listed, Files
    <3> QED BY <3>2, <3>3
  <2> HIDE DEF kept
  <2>4. \/ Listed(state') /\ state'.barred = kept.barred
        \/ cut' = TRUE /\ state' = state
    <3>1. Listed(Missed(kept)) /\ Missed(kept).barred = kept.barred
      BY <2>3, FilesKeepTheirList
    <3> QED BY ZenonT(60), <2>2, <2>3, <3>1, FilesKeepTheirList
  <2>5. prompting = NotRunning /\ prompting.pc = "none" /\ stopping = NotRunning
    BY <2>1 DEF Shown, InjectionTyped, NotRunning
  <2>6. state' # NoState => Listed(state')
    BY <2>4 DEF Shown, InjectionTyped
  <2>7. InjectionTyped'
    <3>1. starting' \in StartHooks
      BY <2>1 DEF StartHooks
    <3>2. losses' \in Nat
      BY <2>1 DEF Shown, InjectionTyped
    <3>3. cut' \in BOOLEAN
      BY <2>1 DEF Shown, InjectionTyped
    <3> QED BY <2>1, <2>5, <2>6, <3>1, <3>2, <3>3, TypedStep DEF Shown, InjectionTyped
  <2>8. ~Empties' /\ Sending = {} /\ Sending' = {}
    BY <2>1, <2>5 DEF Empties, Sending, NotRunning
  <2>9. \/ Barred' = Barred /\ (cut' = TRUE \/ ~Empties)
        \/ Barred' = {} /\ Empties
    <3>1. CASE cut' = TRUE /\ state' = state
      BY <3>1 DEF Barred
    <3>2. CASE Listed(state') /\ state'.barred = kept.barred
      <4>1. Barred' = ToSet(kept.barred)
        BY <3>2, NoStateAssumption DEF Barred, Listed
      <4> QED BY <4>1, <2>1, <2>3 DEF Empties
    <3> QED BY <2>4, <3>1, <3>2
  <2>10. BarredIsShown'
    BY <2>1, <2>5, <2>8, <2>9 DEF Shown, BarredIsShown
  <2>11. ShownIsBarred'
    BY <2>1, <2>5, <2>8, <2>9 DEF Shown, ShownIsBarred, BarredIsShown
  <2> QED BY <2>7, <2>10, <2>11 DEF Shown
<1> QED BY <1>1, <1>2

LEMMA KillKeepsShown ==
    ASSUME Shown, KillHook
    PROVE  Shown'
<1>1. UNCHANGED << state, shown, lapsed, losses >>
  BY DEF KillHook
<1>2. Barred' = Barred
  BY <1>1 DEF Barred
<1>3. CASE /\ prompting # NotRunning /\ prompting' = NotRunning
           /\ cut' = (cut \/ prompting.pc = "emit")
           /\ UNCHANGED << stopping, starting, heldBy >>
  <2>1. Sending' = {} /\ Empties' = Empties /\ prompting'.pc = "none"
    BY <1>3 DEF Sending, Empties, NotRunning
  <2>2. cut' \in BOOLEAN /\ (~cut' => ~cut /\ Sending = {})
    BY <1>3 DEF Shown, InjectionTyped, Sending
  <2>3. InjectionTyped'
    <3>1. prompting' \in PromptHooks
      BY <1>3 DEF PromptHooks
    <3> QED BY <1>1, <1>3, <2>2, <3>1, TypedStep DEF Shown, InjectionTyped
  <2>4. BarredIsShown'
    BY <1>1, <1>2, <1>3, <2>1, <2>2 DEF Shown, BarredIsShown
  <2>5. ShownIsBarred'
    BY <1>1, <1>2, <2>1 DEF Shown, ShownIsBarred
  <2> QED BY <2>3, <2>4, <2>5 DEF Shown
<1>4. CASE /\ stopping # NotRunning /\ stopping' = NotRunning /\ heldBy' = "none"
           /\ UNCHANGED << prompting, starting, cut >>
  <2>1. Sending' = Sending /\ Empties' = Empties /\ Injectable' = Injectable
    BY <1>4 DEF Sending, Empties, Injectable
  <2>2. InjectionTyped'
    BY <1>1, <1>4, TypedStep DEF Shown, InjectionTyped
  <2>3. BarredIsShown'
    BY <1>1, <1>2, <1>4, <2>1 DEF Shown, BarredIsShown
  <2>4. ShownIsBarred'
    BY <1>1, <1>2, <1>4, <2>1 DEF Shown, ShownIsBarred
  <2> QED BY <2>2, <2>3, <2>4 DEF Shown
<1>5. CASE /\ starting # NotRunning /\ starting' = NotRunning /\ cut' = TRUE
           /\ UNCHANGED << prompting, stopping, heldBy >>
  <2>1. Sending' = Sending /\ ~Empties' /\ Injectable' = Injectable
    BY <1>5 DEF Sending, Empties, Injectable
  <2>2. InjectionTyped'
    <3>1. starting' \in StartHooks
      BY <1>5 DEF StartHooks
    <3> QED BY <1>1, <1>5, <3>1, TypedStep DEF Shown, InjectionTyped
  <2>3. BarredIsShown'
    BY <1>5, <2>1 DEF BarredIsShown
  <2>4. ShownIsBarred'
    BY <1>1, <1>2, <1>5, <2>1 DEF Shown, ShownIsBarred
  <2> QED BY <2>2, <2>3, <2>4 DEF Shown
<1> QED BY <1>3, <1>4, <1>5 DEF KillHook

LEMMA ShownAlways == InjectionSpec => []Shown
<1>1. Shown /\ [InjectionNext]_injectionVars => Shown'
  BY ShownStutter, RecallKeepsShown, RecordKeepsShown, RetainKeepsShown, ContextKeepsShown,
     KillKeepsShown DEF InjectionNext
<1> QED BY ShownAtFirst, <1>1, PTL DEF InjectionSpec

\* ShownOnce, for any memories, cap of the list, threshold of the breaker and
\* number of recalls, kills and losses: whatever hooks overlap, are killed or
\* lose their file, what the file of a session bars is in the model's context,
\* but for a hook cut off between the two, and what a recall sends was not
\* there already, but for a record that lapsed.
THEOREM MemoriesAreShownOnce == InjectionSpec => ShownOnce
<1>1. Shown /\ Shown' /\ [InjectionNext]_injectionVars
        => [/\ BarredWasShown'
            /\ prompting.pc = "emit" /\ prompting' = NotRunning /\ kills' = kills
                 => Injectable \cap shown \subseteq lapsed]_injectionVars
  <2>1. Shown => BarredWasShown
    BY DEF Shown, BarredIsShown, BarredWasShown, Empties, Sending, NotRunning
  <2>2. Shown' => BarredWasShown'
    BY <2>1, PTL
  <2> QED BY <2>2 DEF Shown, ShownIsBarred
<1> QED BY ShownAlways, <1>1, PTL DEF InjectionSpec, ShownOnce
-----------------------------------------------------------------------------
(* What a process runs with, Settings. *)

\* What is set of a key, by the file or by a variable, is set whatever is beneath.
LEMMA LayersKeepWhatIsSet ==
    ASSUME DOMAIN environ \subseteq Variables, NEW k \in Keys
    PROVE  FromEnv(FromFile(Above(Preset, Defaults)))[k] =
             IF k \in DOMAIN Preset \ Explicit THEN Preset[k] ELSE FromEnv(FromFile(Defaults))[k]
<1> DEFINE base == Above(Preset, Defaults)
<1>1. DOMAIN Preset = PresetKeys
  BY DEF Preset, PresetKeys
<1>2. DOMAIN Defaults = Keys
  BY DEF Defaults, Keys, Above
<1>3. base[k] = IF k \in PresetKeys THEN Preset[k] ELSE Defaults[k]
  BY <1>1, <1>2 DEF Above
<1> HIDE DEF base
<1>4. k \in DOMAIN ServerDefaults \/ k \in DOMAIN HookDefaults
  BY DEF Keys
<1>5. \A cfg : FromFile(cfg)[k] = IF k \in DOMAIN configFile THEN configFile[k] ELSE cfg[k]
  BY <1>4 DEF FromFile, FromHooksSection, FromServerSections, Overlaid
<1>6. \A cfg : FromEnv(cfg)[k] =
        IF k \notin DOMAIN environ THEN cfg[k]
        ELSE IF k = "include_tool_calls" THEN Truthy(environ[k])
        ELSE IF k = "hooks_enabled" THEN cfg[k] /\ ~Truthy(environ[k])
        ELSE environ[k]
  BY DEF FromEnv
<1>7. CASE k \in PresetKeys \ Explicit
  <2>1. k \notin DOMAIN configFile /\ k \notin DOMAIN environ
    BY <1>7 DEF Explicit, PresetKeys, Variables
  <2> QED BY <2>1, <1>1, <1>3, <1>5, <1>6, <1>7 DEF base
<1>8. CASE k \in PresetKeys \cap Explicit
  <2>1. k \in DOMAIN configFile \/ (k = "include_tool_calls" /\ k \in DOMAIN environ)
    BY <1>8 DEF Explicit
  <2>2. k # "hooks_enabled"
    BY <1>8 DEF PresetKeys
  <2> QED BY <2>1, <2>2, <1>1, <1>5, <1>6, <1>8 DEF base
<1>9. CASE k \notin PresetKeys
  <2>1. FromFile(base)[k] = FromFile(Defaults)[k]
    BY <1>3, <1>5, <1>9
  <2> QED BY <2>1, <1>1, <1>6, <1>9 DEF base
<1> QED BY <1>7, <1>8, <1>9

LEMMA ProfileIsAKey == "profile" \in Keys \ PresetKeys
BY DEF Keys, ServerDefaults, ProfileSection, PresetKeys, Above

\* A configuration that is loaded has the profile's keys beneath what was set.
LEMMA LoadedInLayers ==
    ASSUME DOMAIN environ \subseteq Variables, FromParts # Refused
    PROVE  LET base == IF FromParts.profile = "" THEN Defaults ELSE Above(Preset, Defaults)
           IN  FromParts = Above([loaded |-> "yes"], FromEnv(FromFile(base)))
<1> DEFINE layered == FromEnv(FromFile(Defaults))
<1>1. FromParts = Above([loaded |-> "yes"], UnderPreset(layered))
  BY DEF FromParts
<1>2. DOMAIN layered = Keys /\ layered = [k \in Keys |-> layered[k]]
  BY DEF FromEnv
<1> HIDE DEF layered
<1>3. DOMAIN UnderPreset(layered) = Keys /\ UnderPreset(layered).profile = layered.profile
  <2>1. "profile" \in Keys /\ "profile" \notin DOMAIN Preset
    BY ProfileIsAKey DEF Preset, PresetKeys
  <2> QED BY <2>1, <1>2 DEF UnderPreset
<1>4. FromParts.profile = layered.profile
  BY <1>1, <1>3, ProfileIsAKey DEF Above
<1>5. CASE layered.profile = ""
  <2>1. UnderPreset(layered) = layered
    BY <1>5 DEF UnderPreset
  <2> QED BY <2>1, <1>1, <1>4, <1>5 DEF layered
<1>6. CASE layered.profile # ""
  <2> DEFINE over == FromEnv(FromFile(Above(Preset, Defaults)))
  <2>1. UnderPreset(layered) = [k \in Keys |-> IF k \in DOMAIN Preset \ Explicit THEN Preset[k]
                                               ELSE layered[k]]
    BY <1>6 DEF UnderPreset
  <2>2. over = [k \in Keys |-> over[k]]
    BY DEF FromEnv
  <2>3. \A k \in Keys : over[k] = IF k \in DOMAIN Preset \ Explicit THEN Preset[k] ELSE layered[k]
    BY LayersKeepWhatIsSet DEF layered
  <2> HIDE DEF over
  <2>4. UnderPreset(layered) = over
    BY <2>1, <2>2, <2>3
  <2> QED BY <2>4, <1>1, <1>4, <1>6 DEF over
<1> QED BY <1>5, <1>6

SettingsSound == DOMAIN environ \subseteq Variables /\ ProfileIsALayer

\* ProfileIsALayer, for any file and any setting of the variables: what either
\* sets stays as it is set, and the preset is beneath.
THEOREM ProfilesAreLayers == SettingsSpec => []ProfileIsALayer
<1>1. SettingsInit => SettingsSound
  <2> SUFFICES ASSUME SettingsInit PROVE SettingsSound
    OBVIOUS
  <2>1. PICK set \in SUBSET InEnv : environ = [k \in {o[1] : o \in set} |-> (CHOOSE o \in set : o[1] = k)[2]]
    BY DEF SettingsInit, SettingsOf, kSubset
  <2>2. DOMAIN environ \subseteq Variables
    BY <2>1, SettingsAssumption
  <2>3. config.loaded = "no"
    BY DEF SettingsInit, NotLoaded
  <2> QED BY <2>2, <2>3 DEF SettingsSound, ProfileIsALayer
<1>2. SettingsSound /\ [SettingsNext]_settingsVars => SettingsSound'
  <2> SUFFICES ASSUME SettingsSound, [SettingsNext]_settingsVars PROVE SettingsSound'
    OBVIOUS
  <2>1. UNCHANGED << configFile, environ >>
    BY DEF SettingsNext, LoadConfig, settingsVars
  <2>2. \A base : FromEnv(FromFile(base))' = FromEnv(FromFile(base))
    BY <2>1 DEF FromEnv, FromFile, FromHooksSection, FromServerSections, Overlaid
  <2>3. FromEnv(FromFile(Defaults))' = FromEnv(FromFile(Defaults))
        /\ FromEnv(FromFile(Above(Preset, Defaults)))' = FromEnv(FromFile(Above(Preset, Defaults)))
    BY <2>1 DEF FromEnv, FromFile, FromHooksSection, FromServerSections, Overlaid
  <2>4. CASE LoadConfig
    <3>1. config' = FromParts
      BY <2>4 DEF LoadConfig
    <3>2. CASE FromParts = Refused
      BY <2>1, <3>1, <3>2 DEF SettingsSound, ProfileIsALayer, Refused
    <3>3. CASE FromParts # Refused
      <4>1. LET base == IF config'.profile = "" THEN Defaults ELSE Above(Preset, Defaults)
            IN  config' = Above([loaded |-> "yes"], FromEnv(FromFile(base)))
        BY <3>1, <3>3, LoadedInLayers DEF SettingsSound
      <4> QED BY <4>1, <2>1, <2>3 DEF SettingsSound, ProfileIsALayer
    <3> QED BY <3>2, <3>3
  <2>5. CASE UNCHANGED settingsVars
    BY <2>3, <2>5 DEF SettingsSound, ProfileIsALayer, settingsVars
  <2> QED BY <2>4, <2>5 DEF SettingsNext
<1>3. SettingsSound => ProfileIsALayer
  BY DEF SettingsSound
<1> QED BY <1>1, <1>2, <1>3, PTL DEF SettingsSpec
=============================================================================
