----------------------------- MODULE OidImport -----------------------------
(***************************************************************************)
(* scripts/import_government_oid.py: the government organisations are       *)
(* replaced by an official CSV in one SQLite transaction, after a run was   *)
(* committed as running; and mark_oid_source_active_when_imported, which    *)
(* init_benefit_catalog.py calls.  Importers may overlap and may be killed. *)
(***************************************************************************)
EXTENDS Integers, Sequences, FiniteSets

CONSTANTS
  Oids,       \* identifiers that match OID_PATTERN and occur in a file
  Details,    \* the official fields of an organisation, told apart by hash
  Feeds,      \* CSV files the importer may be given, each a sequence of rows
  Importers,  \* processes running at the same time
  Blank,      \* a CSV line without any value
  Invalid,    \* a row without a usable OID or name
  Nothing,    \* no row, nobody
  MaxImports  \* model bound: runs opened altogether

Records == [oid : Oids, details : Details]

Organization == [details : Details, active : BOOLEAN, firstSeen : Nat]

ASSUME ImportAssumption ==
  /\ Feeds \subseteq Seq(Records \cup {Blank, Invalid})
  /\ Blank \notin Records /\ Invalid \notin Records /\ Blank # Invalid
  /\ Nothing \notin Organization \cup Importers
  /\ IsFiniteSet(Oids)
  /\ MaxImports \in Nat

VARIABLES
  orgs,       \* [Oids -> row or none], government_organizations as committed
  draft,      \* the same table as the open transaction sees it
  writer,     \* the importer whose transaction holds the database, if any
  imports,    \* the table sync_runs, by order of insertion
  importers,  \* [Importers -> where a process stands]
  oidSource   \* connection_status of government_oid_dataset

importVars == <<orgs, draft, writer, imports, importers, oidSource>>

Import == [feed : Feeds, status : {"running", "completed", "failed"},
           completedAt : Nat, source : Nat, valid : Nat, invalid : Nat,
           duplicate : Nat, inserted : Nat, updated : Nat, unchanged : Nat,
           deactivated : Nat]

Importer == [at : {"idle", "open", "begin", "record"}, feed : Feeds \cup {<<>>},
             run : Nat, todo : SUBSET Records, inserted : Nat, updated : Nat,
             unchanged : Nat]

IdleImporter ==
  [at |-> "idle", feed |-> <<>>, run |-> 0, todo |-> {}, inserted |-> 0,
   updated |-> 0, unchanged |-> 0]

ImportInit ==
  /\ orgs = [o \in Oids |-> Nothing]
  /\ draft = orgs
  /\ writer = Nothing
  /\ imports = <<>>
  /\ importers = [p \in Importers |-> IdleImporter]
  /\ oidSource = "pending"

-----------------------------------------------------------------------------
(* parse_official_csv.                                                     *)

RecordsOf(feed) == {feed[k] : k \in DOMAIN feed} \cap Records

\* Mutant of SourceRows: blank lines are counted as source rows.
AllRows(feed) == Len(feed)

SourceRows(feed) == Cardinality({k \in DOMAIN feed : feed[k] # Blank})
InvalidRows(feed) == Cardinality({k \in DOMAIN feed : feed[k] = Invalid})

DuplicateRows(feed) ==
  Cardinality({k \in DOMAIN feed :
    feed[k] \in Records /\ \E j \in 1..(k - 1) : feed[j] = feed[k]})

\* Two different records of one OID, or no record at all, refuse the file.
Acceptable(feed) ==
  /\ RecordsOf(feed) # {}
  /\ \A a, b \in RecordsOf(feed) : a.oid = b.oid => a = b

-----------------------------------------------------------------------------
(* import_into_sqlite.                                                     *)

ImporterAt(p, step) == importers[p].at = step

\* The file is read and parsed before the database is touched.
ReadFeed(p, feed) ==
  /\ ImporterAt(p, "idle")
  /\ Acceptable(feed)
  /\ importers' = [importers EXCEPT ![p] =
       [IdleImporter EXCEPT !.at = "open", !.feed = feed, !.todo = RecordsOf(feed)]]
  /\ UNCHANGED <<orgs, draft, writer, imports, oidSource>>

NewRun(feed) ==
  [feed |-> feed, status |-> "running", completedAt |-> 0,
   source |-> SourceRows(feed), valid |-> Cardinality(RecordsOf(feed)),
   invalid |-> InvalidRows(feed), duplicate |-> DuplicateRows(feed),
   inserted |-> 0, updated |-> 0, unchanged |-> 0, deactivated |-> 0]

\* The run is committed as running.
OpenRun(p) ==
  /\ ImporterAt(p, "open")
  /\ writer = Nothing
  /\ Len(imports) < MaxImports
  /\ imports' = Append(imports, NewRun(importers[p].feed))
  /\ importers' = [importers EXCEPT ![p].at = "begin", ![p].run = Len(imports')]
  /\ UNCHANGED <<orgs, draft, writer, oidSource>>

\* The first statement on the table takes the database; another transaction
\* waits for it, until the timeout of its connection makes it fail.
BeginTransaction(p) ==
  /\ ImporterAt(p, "begin")
  /\ writer = Nothing
  /\ writer' = p
  /\ draft' = orgs
  /\ importers' = [importers EXCEPT ![p].at = "record"]
  /\ UNCHANGED <<orgs, imports, oidSource>>

\* Mutant of Outcome: an inactive row with the same hash counts as unchanged.
OutcomeByHash(row, record) ==
  IF row = Nothing THEN "inserted"
  ELSE IF row.details # record.details THEN "updated" ELSE "unchanged"

\* A row that was inactive is an update, even with the same hash.
Outcome(row, record) ==
  IF row = Nothing THEN "inserted"
  ELSE IF row.details # record.details \/ ~row.active THEN "updated"
  ELSE "unchanged"

\* What the row becomes; first_seen_at, here the run, is set by the INSERT only.
Written(row, record, run, outcome) ==
  CASE outcome = "inserted" ->
         [details |-> record.details, active |-> TRUE, firstSeen |-> run]
    [] outcome = "updated" ->
         [row EXCEPT !.details = record.details, !.active = TRUE]
    [] outcome = "unchanged" -> row

\* One more record is done, and counted.
Counted(me, record, outcome) ==
  LET One(name) == IF outcome = name THEN 1 ELSE 0
  IN  [me EXCEPT !.todo = @ \ {record}, !.inserted = @ + One("inserted"),
                 !.updated = @ + One("updated"),
                 !.unchanged = @ + One("unchanged")]

\* The records are keyed by OID, so their order does not matter.
ImportRecord(p, record) ==
  LET me == importers[p]
      row == draft[record.oid]
      outcome == Outcome(row, record)
  IN
  /\ ImporterAt(p, "record")
  /\ record \in me.todo
  /\ draft' = [draft EXCEPT ![record.oid] = Written(row, record, me.run, outcome)]
  /\ importers' = [importers EXCEPT ![p] = Counted(me, record, outcome)]
  /\ UNCHANGED <<orgs, writer, imports, oidSource>>

\* Active rows the feed does not mention.
Missing(p) ==
  {o \in Oids : /\ draft[o] # Nothing /\ draft[o].active
                /\ ~\E r \in RecordsOf(importers[p].feed) : r.oid = o}

\* Mutant of Deactivated: the row is deleted.
Deleted(p) == [o \in Oids |-> IF o \in Missing(p) THEN Nothing ELSE draft[o]]

Deactivated(p) ==
  [o \in Oids |-> IF o \in Missing(p) THEN [draft[o] EXCEPT !.active = FALSE]
                                      ELSE draft[o]]

\* utc_now(): later than every run closed so far.
Now == 1 + Cardinality({r \in DOMAIN imports : imports[r].status # "running"})

CommitImport(p) ==
  LET me == importers[p] IN
  /\ ImporterAt(p, "record")
  /\ me.todo = {}
  /\ orgs' = Deactivated(p)
  /\ imports' = [imports EXCEPT ![me.run] =
       [@ EXCEPT !.status = "completed", !.completedAt = Now,
                 !.inserted = me.inserted, !.updated = me.updated,
                 !.unchanged = me.unchanged,
                 !.deactivated = Cardinality(Missing(p))]]
  /\ writer' = Nothing
  /\ draft' = orgs'
  /\ importers' = [importers EXCEPT ![p] = IdleImporter]
  /\ UNCHANGED oidSource

\* A process ends without committing: SQLite discards its transaction.
Discard(p) ==
  /\ writer' = IF writer = p THEN Nothing ELSE writer
  /\ draft' = IF writer = p THEN orgs ELSE draft
  /\ importers' = [importers EXCEPT ![p] = IdleImporter]

\* The except branch closes the run, unless the database is still locked.
FailImport(p) ==
  /\ ImporterAt(p, "begin") \/ ImporterAt(p, "record")
  /\ \/ /\ writer \in {Nothing, p}
        /\ imports' = [imports EXCEPT ![importers[p].run] =
                         [@ EXCEPT !.status = "failed", !.completedAt = Now]]
     \/ writer \notin {Nothing, p} /\ UNCHANGED imports
  /\ Discard(p)
  /\ UNCHANGED <<orgs, oidSource>>

\* The process is killed, or the run could not even be opened.
KillImporter(p) ==
  /\ ~ImporterAt(p, "idle")
  /\ Discard(p)
  /\ UNCHANGED <<orgs, imports, oidSource>>

-----------------------------------------------------------------------------

ImportHasWorked == \E r \in DOMAIN imports : imports[r].status = "completed"

\* mark_oid_source_active_when_imported.
MarkOidSource ==
  /\ ImportHasWorked
  /\ writer = Nothing
  /\ oidSource # "active"
  /\ oidSource' = "active"
  /\ UNCHANGED <<orgs, draft, writer, imports, importers>>

ImportNext ==
  \/ \E p \in Importers :
       \/ \E feed \in Feeds : ReadFeed(p, feed)
       \/ OpenRun(p) \/ BeginTransaction(p) \/ CommitImport(p)
       \/ \E record \in importers[p].todo : ImportRecord(p, record)
       \/ FailImport(p) \/ KillImporter(p)
  \/ MarkOidSource

ImportSpec == ImportInit /\ [][ImportNext]_importVars

-----------------------------------------------------------------------------
(* Properties.                                                             *)

\* The tables, the open transaction and the processes keep their shape.
ImportTypeOK ==
  /\ orgs \in [Oids -> Organization \cup {Nothing}]
  /\ draft \in [Oids -> Organization \cup {Nothing}]
  /\ writer \in Importers \cup {Nothing}
  /\ imports \in Seq(Import)
  /\ importers \in [Importers -> Importer]
  /\ oidSource \in {"pending", "active"}

Completed == {r \in DOMAIN imports : imports[r].status = "completed"}

\* The run that closed last.
Latest == CHOOSE r \in Completed :
  \A q \in Completed : imports[q].completedAt <= imports[r].completedAt

ActiveRecords ==
  {[oid |-> o, details |-> orgs[o].details] :
     o \in {x \in Oids : orgs[x] # Nothing /\ orgs[x].active}}

\* The active organisations are exactly the records of the file imported last,
\* whatever overlapped, failed or was killed: no import is ever visible in part,
\* a record that returns is active again, one that is gone is not.
\* (import_into_sqlite: "Atomically refresh official fields")
ActiveIsLatestFeed ==
  ActiveRecords = IF Completed = {} THEN {} ELSE RecordsOf(imports[Latest].feed)

\* What a run reports adds up: every source row is valid, invalid or a duplicate,
\* and every valid record was inserted, updated or left unchanged.
\* (ADR 0009: record import counts for debugging and data review)
CountsAddUp ==
  \A r \in Completed :
    LET run == imports[r] IN
    /\ run.source = run.valid + run.invalid + run.duplicate
    /\ run.valid = run.inserted + run.updated + run.unchanged

\* ADR 0009: a record missing from a later file is marked inactive instead of
\* being deleted, and refreshing it keeps its history.
HistoryIsKept ==
  [][\A o \in Oids : orgs[o] # Nothing =>
       orgs'[o] # Nothing /\ orgs'[o].firstSeen = orgs[o].firstSeen]_importVars

\* ADR 0010: a source remains pending until a completed import actually works.
OidSourceIsHonest == oidSource = "active" => Completed # {}
=============================================================================
