--------------------------- MODULE OidImportProofs ---------------------------
(***************************************************************************)
(* Theorems about the import of the government organisations, for any number  *)
(* of importers at once and any files.                                        *)
(***************************************************************************)
EXTENDS OidImport, FiniteSetTheorems, FunctionTheorems, SequenceTheorems,
        WellFoundedInduction, TLAPS

\* A file has finitely many records.
LEMMA RecordsAreFinite ==
  ASSUME NEW feed \in Feeds
  PROVE  IsFiniteSet(RecordsOf(feed))
<1>1. feed \in Seq(Records \cup {Blank, Invalid})
  BY ImportAssumption
<1>2. DOMAIN feed = 1..Len(feed) /\ Len(feed) \in Nat
  BY <1>1
<1>3. IsFiniteSet(DOMAIN feed)
  BY <1>2, FS_Interval
<1> DEFINE rows == {feed[k] : k \in DOMAIN feed}
<1>4. [k \in DOMAIN feed |-> feed[k]] \in Surjection(DOMAIN feed, rows)
  BY DEF Surjection
<1> HIDE DEF rows
<1>5. IsFiniteSet(rows)
  BY <1>3, <1>4, FS_Surjection
<1> QED BY <1>5, FS_Subset DEF RecordsOf, rows

\* The counts of a file are numbers (parse_official_csv).
LEMMA CountsAreNumbers ==
  ASSUME NEW feed \in Feeds
  PROVE  /\ SourceRows(feed) \in Nat /\ InvalidRows(feed) \in Nat
         /\ DuplicateRows(feed) \in Nat
         /\ Cardinality(RecordsOf(feed)) \in Nat
<1>1. feed \in Seq(Records \cup {Blank, Invalid})
  BY ImportAssumption
<1>2. DOMAIN feed = 1..Len(feed) /\ Len(feed) \in Nat
  BY <1>1
<1>3. IsFiniteSet(DOMAIN feed)
  BY <1>2, FS_Interval
<1>4. \A T \in SUBSET DOMAIN feed : Cardinality(T) \in Nat
  BY <1>3, FS_Subset, FS_CardinalityType
<1>5. Cardinality(RecordsOf(feed)) \in Nat
  BY RecordsAreFinite, FS_CardinalityType
<1> QED BY <1>4, <1>5 DEF SourceRows, InvalidRows, DuplicateRows

\* What happens to a row (import_into_sqlite).
LEMMA WrittenRow ==
  ASSUME NEW row \in Organization \cup {Nothing}, NEW record \in Records, NEW run \in Nat
  PROVE  LET new == Written(row, record, run, Outcome(row, record))
         IN  /\ new \in Organization
             /\ new.active /\ new.details = record.details
             /\ row # Nothing => new.firstSeen = row.firstSeen
<1>1. record.details \in Details
  BY DEF Records
<1> DEFINE outcome == Outcome(row, record)
<1>2. CASE row = Nothing
  BY <1>1, <1>2 DEF Outcome, Written, Organization
<1>3. CASE row # Nothing
  <2>1. row \in Organization
    BY <1>3
  <2>2. CASE row.details # record.details \/ ~row.active
    BY <1>1, <1>3, <2>1, <2>2 DEF Outcome, Written, Organization
  <2>3. CASE row.details = record.details /\ row.active
    BY <1>1, <1>3, <2>1, <2>3 DEF Outcome, Written, Organization
  <2> QED BY <2>2, <2>3
<1> QED BY <1>2, <1>3

\* Counting a record changes what is left to do and the counts.
LEMMA CountedImporter ==
  ASSUME NEW me \in Importer, NEW record, NEW outcome
  PROVE  /\ Counted(me, record, outcome) \in Importer
         /\ Counted(me, record, outcome).todo = me.todo \ {record}
         /\ Counted(me, record, outcome).at = me.at
         /\ Counted(me, record, outcome).run = me.run
         /\ Counted(me, record, outcome).feed = me.feed
<1> DEFINE One(name) == IF outcome = name THEN 1 ELSE 0
<1>1. /\ me.inserted + One("inserted") \in Nat
      /\ me.updated + One("updated") \in Nat
      /\ me.unchanged + One("unchanged") \in Nat
  BY DEF Importer
<1>2. Counted(me, record, outcome) =
        [me EXCEPT !.todo = me.todo \ {record},
                   !.inserted = me.inserted + One("inserted"),
                   !.updated = me.updated + One("updated"),
                   !.unchanged = me.unchanged + One("unchanged")]
  BY DEF Counted, Importer
<1> HIDE DEF One
<1> QED BY <1>1, <1>2 DEF Importer

\* Organisations a file no longer mentions stay, inactive.
LEMMA DeactivatedRow ==
  ASSUME ImportTypeOK, NEW p \in Importers, NEW o \in Oids
  PROVE  /\ Deactivated(p)[o] = Nothing <=> draft[o] = Nothing
         /\ Deactivated(p)[o] \in Organization \cup {Nothing}
         /\ draft[o] # Nothing =>
              /\ Deactivated(p)[o].firstSeen = draft[o].firstSeen
              /\ Deactivated(p)[o].details = draft[o].details
              /\ Deactivated(p)[o].active <=> draft[o].active /\ o \notin Missing(p)
<1>1. draft[o] \in Organization \cup {Nothing} /\ Nothing \notin Organization
  BY ImportAssumption DEF ImportTypeOK
<1>2. CASE o \in Missing(p)
  <2>1. draft[o] \in Organization /\ draft[o] # Nothing
    BY <1>1, <1>2 DEF Missing
  <2>2. Deactivated(p)[o] = [draft[o] EXCEPT !.active = FALSE]
    BY <1>2 DEF Deactivated
  <2>3. /\ Deactivated(p)[o] \in Organization
        /\ Deactivated(p)[o].firstSeen = draft[o].firstSeen
        /\ Deactivated(p)[o].details = draft[o].details
        /\ ~Deactivated(p)[o].active
    BY <2>1, <2>2 DEF Organization
  <2> QED BY <1>1, <1>2, <2>1, <2>3
<1>3. CASE o \notin Missing(p)
  BY <1>1, <1>3 DEF Deactivated
<1> QED BY <1>2, <1>3

\* The clock counts the runs that were closed.
LEMMA ClockIsNumber ==
  ASSUME ImportTypeOK
  PROVE  Now \in Nat
<1>1. IsFiniteSet(DOMAIN imports)
  BY FS_Interval DEF ImportTypeOK
<1> QED BY <1>1, FS_Subset, FS_CardinalityType DEF Now

\* A process that ends leaves a table and a writer of the right shape.
LEMMA DiscardType ==
  ASSUME ImportTypeOK, NEW p \in Importers, Discard(p)
  PROVE  /\ draft' \in [Oids -> Organization \cup {Nothing}]
         /\ writer' \in Importers \cup {Nothing}
         /\ importers' \in [Importers -> Importer]
<1>1. IdleImporter \in Importer
  BY DEF IdleImporter, Importer
<1> QED BY <1>1 DEF ImportTypeOK, Discard

\* Closing a run keeps the table of runs, and its length.
LEMMA CloseType ==
  ASSUME ImportTypeOK, NEW r \in Nat, NEW run,
         r \in DOMAIN imports => run \in Import,
         imports' = [imports EXCEPT ![r] = run]
  PROVE  imports' \in Seq(Import) /\ DOMAIN imports' = DOMAIN imports
<1>1. /\ Len(imports) \in Nat /\ DOMAIN imports = 1..Len(imports)
      /\ imports \in [1..Len(imports) -> Import]
  BY DEF ImportTypeOK
<1>2. imports' \in [1..Len(imports) -> Import]
  BY <1>1
<1> QED BY <1>1, <1>2, SeqDef

\* A process at work holds a file that was accepted.
Reading ==
  \A p \in Importers :
    ~ImporterAt(p, "idle") => /\ importers[p].feed \in Feeds
                      /\ Acceptable(importers[p].feed)

\* Only the reading of a file starts a process.
LEMMA ReadingStep == ImportTypeOK /\ Reading /\ [ImportNext]_importVars => Reading'
<1> SUFFICES ASSUME ImportTypeOK, Reading, [ImportNext]_importVars PROVE Reading'
  OBVIOUS
<1>1. ASSUME NEW p \in Importers,
             \A q \in Importers \ {p} : importers'[q] = importers[q],
             \/ importers'[p].at = "idle"
             \/ ~ImporterAt(p, "idle") /\ importers'[p].feed = importers[p].feed
             \/ importers'[p].feed \in Feeds /\ Acceptable(importers'[p].feed)
      PROVE  Reading'
  BY <1>1 DEF Reading, ImporterAt
<1>2. ASSUME NEW p \in Importers, NEW feed \in Feeds, ReadFeed(p, feed)
      PROVE  Reading'
  <2>1. importers'[p].feed = feed /\ Acceptable(feed)
    BY <1>2 DEF ReadFeed, ImportTypeOK, IdleImporter
  <2> QED BY <1>1, <1>2, <2>1 DEF ReadFeed, ImportTypeOK
<1>3. ASSUME NEW p \in Importers, OpenRun(p) \/ BeginTransaction(p) PROVE Reading'
  <2>1. ~ImporterAt(p, "idle") /\ importers'[p].feed = importers[p].feed
    BY <1>3 DEF OpenRun, BeginTransaction, ImporterAt, ImportTypeOK, Importer
  <2>2. \A q \in Importers \ {p} : importers'[q] = importers[q]
    BY <1>3 DEF OpenRun, BeginTransaction, ImportTypeOK
  <2> QED BY <1>1, <2>1, <2>2
<1>4. ASSUME NEW p \in Importers, NEW record, ImportRecord(p, record) PROVE Reading'
  <2>1. ~ImporterAt(p, "idle") /\ importers'[p].feed = importers[p].feed
    BY <1>4, CountedImporter DEF ImportRecord, ImporterAt, ImportTypeOK
  <2>2. \A q \in Importers \ {p} : importers'[q] = importers[q]
    BY <1>4 DEF ImportRecord, ImportTypeOK
  <2> QED BY <1>1, <2>1, <2>2
<1>5. ASSUME NEW p \in Importers, CommitImport(p) \/ FailImport(p) \/ KillImporter(p)
      PROVE  Reading'
  <2>1. importers' = [importers EXCEPT ![p] = IdleImporter]
    BY <1>5 DEF CommitImport, FailImport, KillImporter, Discard
  <2> QED BY <1>1, <2>1 DEF ImportTypeOK, IdleImporter
<1>6. CASE MarkOidSource \/ UNCHANGED importVars
  BY <1>6 DEF MarkOidSource, importVars, Reading, ImporterAt
<1> QED BY <1>2, <1>3, <1>4, <1>5, <1>6 DEF ImportNext

\* The tables, the open transaction and the processes keep their shape
\* (initialize_schema).
THEOREM ImportTypeCorrect == ImportSpec => []ImportTypeOK
<1>1. ImportInit => ImportTypeOK
  BY ImportAssumption DEF ImportInit, ImportTypeOK, IdleImporter, Importer
<1>2. ImportTypeOK /\ Reading /\ [ImportNext]_importVars => ImportTypeOK'
  <2> SUFFICES ASSUME ImportTypeOK, Reading, [ImportNext]_importVars PROVE ImportTypeOK'
    OBVIOUS
  <2>1. CASE UNCHANGED importVars
    BY <2>1 DEF importVars, ImportTypeOK
  <2>2. ASSUME NEW p \in Importers, NEW feed \in Feeds, ReadFeed(p, feed)
        PROVE  ImportTypeOK'
    <3>1. [IdleImporter EXCEPT !.at = "open", !.feed = feed, !.todo = RecordsOf(feed)]
            \in Importer
      BY DEF IdleImporter, Importer, RecordsOf
    <3> QED BY <2>2, <3>1 DEF ReadFeed, ImportTypeOK
  <2>3. ASSUME NEW p \in Importers, OpenRun(p) PROVE ImportTypeOK'
    <3>1. NewRun(importers[p].feed) \in Import
      <4>1. importers[p].feed \in Feeds
        BY <2>3 DEF OpenRun, ImporterAt, Reading
      <4> QED BY <4>1, CountsAreNumbers DEF NewRun, Import
    <3>2. imports' \in Seq(Import) /\ Len(imports') \in Nat
      BY <2>3, <3>1 DEF OpenRun, ImportTypeOK
    <3>3. importers' \in [Importers -> Importer]
      <4> DEFINE new == [importers[p] EXCEPT !.at = "begin", !.run = Len(imports')]
      <4>1. importers' = [importers EXCEPT ![p] = new]
        BY <2>3, Zenon DEF OpenRun
      <4>2. new \in Importer
        BY <3>2 DEF ImportTypeOK, Importer
      <4> HIDE DEF new
      <4> QED BY <4>1, <4>2 DEF ImportTypeOK
    <3> QED BY <2>3, <3>2, <3>3 DEF OpenRun, ImportTypeOK
  <2>4. ASSUME NEW p \in Importers, BeginTransaction(p) PROVE ImportTypeOK'
    BY <2>4 DEF BeginTransaction, ImportTypeOK, Importer
  <2>5. ASSUME NEW p \in Importers, CommitImport(p) PROVE ImportTypeOK'
    <3> DEFINE me == importers[p]
    <3>1. me \in Importer /\ Now \in Nat /\ Cardinality(Missing(p)) \in Nat
      <4>1. Missing(p) \in SUBSET Oids
        BY DEF Missing
      <4> QED BY <4>1, ClockIsNumber, ImportAssumption, FS_Subset, FS_CardinalityType
              DEF ImportTypeOK
    <3>2. [imports[me.run] EXCEPT
             !.status = "completed", !.completedAt = Now,
             !.inserted = me.inserted, !.updated = me.updated,
             !.unchanged = me.unchanged,
             !.deactivated = Cardinality(Missing(p))] \in Import
          \/ me.run \notin DOMAIN imports
      <4>1. me.inserted \in Nat /\ me.updated \in Nat /\ me.unchanged \in Nat
        BY <3>1 DEF Importer
      <4>2. me.run \in DOMAIN imports => imports[me.run] \in Import
        BY DEF ImportTypeOK
      <4> HIDE DEF me
      <4> QED BY <3>1, <4>1, <4>2 DEF Import
    <3>3. imports' \in Seq(Import)
      BY <2>5, <3>1, <3>2, CloseType DEF CommitImport, Importer
    <3>4. orgs' \in [Oids -> Organization \cup {Nothing}]
      BY <2>5, DeactivatedRow DEF CommitImport, Deactivated
    <3>5. IdleImporter \in Importer
      BY DEF IdleImporter, Importer
    <3> QED BY <2>5, <3>3, <3>4, <3>5 DEF CommitImport, ImportTypeOK
  <2>6. ASSUME NEW p \in Importers, NEW record \in importers[p].todo,
               ImportRecord(p, record)
        PROVE  ImportTypeOK'
    <3>1. importers[p] \in Importer /\ record \in Records /\ record.oid \in Oids
      BY DEF ImportTypeOK, Importer, Records
    <3> DEFINE row == draft[record.oid]
               new == Written(row, record, importers[p].run, Outcome(row, record))
    <3>2. importers[p].run \in Nat /\ row \in Organization \cup {Nothing}
      BY <3>1 DEF ImportTypeOK, Importer
    <3>3. new \in Organization
      BY <3>1, <3>2, WrittenRow
    <3>4. draft' = [draft EXCEPT ![record.oid] = new]
      BY <2>6 DEF ImportRecord
    <3>5. draft' \in [Oids -> Organization \cup {Nothing}]
      BY <3>1, <3>3, <3>4 DEF ImportTypeOK
    <3>6. importers' \in [Importers -> Importer]
      BY <2>6, <3>1, CountedImporter DEF ImportRecord, ImportTypeOK
    <3> QED BY <2>6, <3>5, <3>6 DEF ImportRecord, ImportTypeOK
  <2>7. ASSUME NEW p \in Importers, FailImport(p) PROVE ImportTypeOK'
    <3>1. Now \in Nat /\ importers[p].run \in Nat
      BY ClockIsNumber DEF ImportTypeOK, Importer
    <3>2. importers[p].run \in DOMAIN imports =>
            [imports[importers[p].run] EXCEPT !.status = "failed", !.completedAt = Now]
              \in Import
      <4>1. importers[p].run \in DOMAIN imports => imports[importers[p].run] \in Import
        BY DEF ImportTypeOK
      <4> QED BY <3>1, <4>1 DEF Import
    <3>3. imports' \in Seq(Import)
      BY <2>7, <3>1, <3>2, CloseType DEF FailImport, ImportTypeOK
    <3> QED BY <2>7, <3>3, DiscardType DEF FailImport, ImportTypeOK
  <2>8. ASSUME NEW p \in Importers, KillImporter(p) PROVE ImportTypeOK'
    BY <2>8, DiscardType DEF KillImporter, ImportTypeOK
  <2>9. CASE MarkOidSource
    BY <2>9 DEF MarkOidSource, ImportTypeOK
  <2> QED BY <2>1, <2>2, <2>3, <2>4, <2>5, <2>6, <2>7, <2>8, <2>9 DEF ImportNext
<1>3. ImportInit => Reading
  BY DEF ImportInit, Reading, ImporterAt, IdleImporter
<1>4. ImportTypeOK /\ Reading /\ [ImportNext]_importVars => Reading'
  BY ReadingStep
<1> QED BY <1>1, <1>2, <1>3, <1>4, PTL DEF ImportSpec

-----------------------------------------------------------------------------
(* History.                                                                 *)

\* The open transaction sees every committed organisation, with its history.
DraftKeepsHistory ==
  \A o \in Oids : orgs[o] # Nothing =>
    draft[o] # Nothing /\ draft[o].firstSeen = orgs[o].firstSeen

LEMMA DraftStep == ImportTypeOK /\ DraftKeepsHistory /\ [ImportNext]_importVars => DraftKeepsHistory'
<1> SUFFICES ASSUME ImportTypeOK, DraftKeepsHistory, [ImportNext]_importVars PROVE DraftKeepsHistory'
  OBVIOUS
<1>1. CASE UNCHANGED <<orgs, draft>>
  BY <1>1 DEF DraftKeepsHistory
<1>2. CASE draft' = orgs'
  BY <1>2 DEF DraftKeepsHistory
<1>3. ASSUME NEW p \in Importers, NEW record \in importers[p].todo,
             ImportRecord(p, record)
      PROVE  DraftKeepsHistory'
  <2>1. record \in Records /\ record.oid \in Oids /\ importers[p].run \in Nat
    BY DEF ImportTypeOK, Importer, Records
  <2> DEFINE row == draft[record.oid]
             new == Written(row, record, importers[p].run, Outcome(row, record))
  <2>2. new \in Organization /\ (row # Nothing => new.firstSeen = row.firstSeen)
    BY <2>1, WrittenRow DEF ImportTypeOK
  <2>3. draft' = [draft EXCEPT ![record.oid] = new] /\ orgs' = orgs
    BY <1>3 DEF ImportRecord
  <2> HIDE DEF new
  <2>4. new # Nothing
    BY <2>2, ImportAssumption
  <2> QED BY <2>1, <2>2, <2>3, <2>4 DEF DraftKeepsHistory, ImportTypeOK
<1> QED BY <1>1, <1>2, <1>3
        DEF ImportNext, importVars, ReadFeed, OpenRun, BeginTransaction, CommitImport,
            FailImport, KillImporter, Discard, MarkOidSource

\* An organisation is never deleted, and keeps the time it was first seen
\* (import_into_sqlite, ADR 0009).
THEOREM OrganisationsStay == ImportSpec => HistoryIsKept
<1>1. ImportInit => DraftKeepsHistory
  BY DEF ImportInit, DraftKeepsHistory
<1>2. ImportTypeOK /\ DraftKeepsHistory /\ [ImportNext]_importVars =>
        [\A o \in Oids : orgs[o] # Nothing =>
           orgs'[o] # Nothing /\ orgs'[o].firstSeen = orgs[o].firstSeen]_importVars
  <2> SUFFICES ASSUME ImportTypeOK, DraftKeepsHistory, ImportNext, NEW o \in Oids, orgs[o] # Nothing
               PROVE  orgs'[o] # Nothing /\ orgs'[o].firstSeen = orgs[o].firstSeen
    OBVIOUS
  <2>1. ASSUME NEW p \in Importers, CommitImport(p)
        PROVE  orgs'[o] # Nothing /\ orgs'[o].firstSeen = orgs[o].firstSeen
    BY <2>1, DeactivatedRow DEF CommitImport, DraftKeepsHistory
  <2>2. CASE UNCHANGED orgs
    BY <2>2
  <2> QED BY <2>1, <2>2
          DEF ImportNext, ReadFeed, OpenRun, BeginTransaction, ImportRecord, FailImport,
              KillImporter, MarkOidSource
<1> QED BY <1>1, <1>2, DraftStep, ImportTypeCorrect, PTL DEF ImportSpec, HistoryIsKept

-----------------------------------------------------------------------------
(* All or nothing.                                                          *)

Working(p) == ImporterAt(p, "begin") \/ ImporterAt(p, "record")
Closed == {r \in DOMAIN imports : imports[r].status # "running"}

\* Each process at work has a run of its own, which is still running, and holds
\* the database exactly while it writes records.
RunsInv ==
  /\ \A p \in Importers : Working(p) =>
       /\ importers[p].run \in DOMAIN imports
       /\ imports[importers[p].run].status = "running"
       /\ imports[importers[p].run].feed = importers[p].feed
  /\ \A p, q \in Importers :
       Working(p) /\ Working(q) /\ p # q => importers[p].run # importers[q].run
  /\ \A p \in Importers : ImporterAt(p, "record") <=> writer = p

\* The records that are no longer to be done are in the draft.
DraftInv ==
  \A p \in Importers :
    /\ ImporterAt(p, "open") \/ ImporterAt(p, "begin") =>
         importers[p].todo = RecordsOf(importers[p].feed)
    /\ importers[p].todo \subseteq RecordsOf(importers[p].feed)
    /\ ImporterAt(p, "record") =>
         \A r \in RecordsOf(importers[p].feed) \ importers[p].todo :
           /\ draft[r.oid] # Nothing
           /\ draft[r.oid].active
           /\ draft[r.oid].details = r.details

\* One of the completed runs closed after all the others, and the active rows
\* are the records of its file.
Newest(r) ==
  /\ r \in Completed
  /\ \A q \in Completed \ {r} : imports[q].completedAt < imports[r].completedAt
LatestInv ==
  /\ \A r \in Closed : imports[r].completedAt <= Cardinality(Closed)
  /\ Completed = {} => ActiveRecords = {}
  /\ Completed # {} =>
       \E r \in Completed : Newest(r) /\ ActiveRecords = RecordsOf(imports[r].feed)

ImportInv == RunsInv /\ DraftInv /\ LatestInv

\* What the steps do to a process, as far as the invariant looks at it.
LEMMA ProcessSteps ==
  ASSUME ImportTypeOK, NEW p \in Importers
  PROVE  /\ \A feed \in Feeds : ReadFeed(p, feed) =>
              /\ \A q \in Importers \ {p} : importers'[q] = importers[q]
              /\ importers'[p].at = "open" /\ importers'[p].feed = feed
              /\ importers'[p].todo = RecordsOf(feed)
         /\ OpenRun(p) =>
              /\ \A q \in Importers \ {p} : importers'[q] = importers[q]
              /\ importers'[p].at = "begin" /\ importers'[p].run = Len(imports)+1
              /\ importers'[p].feed = importers[p].feed
              /\ importers'[p].todo = importers[p].todo
         /\ BeginTransaction(p) =>
              /\ \A q \in Importers \ {p} : importers'[q] = importers[q]
              /\ importers'[p].at = "record"
              /\ importers'[p].run = importers[p].run
              /\ importers'[p].feed = importers[p].feed
              /\ importers'[p].todo = importers[p].todo
         /\ CommitImport(p) \/ FailImport(p) \/ KillImporter(p) =>
              /\ \A q \in Importers \ {p} : importers'[q] = importers[q]
              /\ importers'[p].at = "idle" /\ importers'[p].todo = {}
<1>1. ASSUME NEW feed \in Feeds, ReadFeed(p, feed)
      PROVE  /\ \A q \in Importers \ {p} : importers'[q] = importers[q]
             /\ importers'[p].at = "open" /\ importers'[p].feed = feed
             /\ importers'[p].todo = RecordsOf(feed)
  BY <1>1 DEF ReadFeed, ImportTypeOK, IdleImporter
<1>2. ASSUME OpenRun(p)
      PROVE  /\ \A q \in Importers \ {p} : importers'[q] = importers[q]
             /\ importers'[p].at = "begin" /\ importers'[p].run = Len(imports)+1
             /\ importers'[p].feed = importers[p].feed
             /\ importers'[p].todo = importers[p].todo
  <2>1. Len(imports') = Len(imports) + 1
    BY <1>2 DEF OpenRun, ImportTypeOK
  <2> QED BY <1>2, <2>1 DEF OpenRun, ImportTypeOK, Importer
<1>3. ASSUME BeginTransaction(p)
      PROVE  /\ \A q \in Importers \ {p} : importers'[q] = importers[q]
             /\ importers'[p].at = "record"
             /\ importers'[p].run = importers[p].run
             /\ importers'[p].feed = importers[p].feed
             /\ importers'[p].todo = importers[p].todo
  BY <1>3 DEF BeginTransaction, ImportTypeOK, Importer
<1>4. ASSUME CommitImport(p) \/ FailImport(p) \/ KillImporter(p)
      PROVE  /\ \A q \in Importers \ {p} : importers'[q] = importers[q]
             /\ importers'[p].at = "idle" /\ importers'[p].todo = {}
  BY <1>4 DEF CommitImport, FailImport, KillImporter, Discard, ImportTypeOK, IdleImporter
<1> QED BY <1>1, <1>2, <1>3, <1>4

LEMMA RecordStep ==
  ASSUME ImportTypeOK, NEW p \in Importers, NEW record \in importers[p].todo,
         ImportRecord(p, record)
  PROVE  /\ \A q \in Importers \ {p} : importers'[q] = importers[q]
         /\ importers'[p].at = "record" /\ ImporterAt(p, "record")
         /\ importers'[p].run = importers[p].run
         /\ importers'[p].feed = importers[p].feed
         /\ importers'[p].todo = importers[p].todo \ {record}
         /\ record \in Records
         /\ draft'[record.oid] \in Organization
         /\ draft'[record.oid].active
         /\ draft'[record.oid].details = record.details
         /\ \A o \in Oids \ {record.oid} : draft'[o] = draft[o]
<1>1. record \in Records /\ record.oid \in Oids /\ importers[p] \in Importer
      /\ importers[p].run \in Nat
  BY DEF ImportTypeOK, Importer, Records
<1>2. importers' = [importers EXCEPT ![p] =
         Counted(importers[p], record, Outcome(draft[record.oid], record))]
  BY DEF ImportRecord
<1> DEFINE row == draft[record.oid]
           new == Written(row, record, importers[p].run, Outcome(row, record))
<1>3. new \in Organization /\ new.active /\ new.details = record.details
  BY <1>1, WrittenRow DEF ImportTypeOK
<1>4. draft' = [draft EXCEPT ![record.oid] = new]
  BY DEF ImportRecord
<1>5. importers'[p].at = "record" /\ ImporterAt(p, "record")
      /\ importers'[p].run = importers[p].run
      /\ importers'[p].feed = importers[p].feed
      /\ importers'[p].todo = importers[p].todo \ {record}
      /\ \A q \in Importers \ {p} : importers'[q] = importers[q]
  BY <1>1, <1>2, CountedImporter DEF ImportTypeOK, ImportRecord, ImporterAt
<1> HIDE DEF new
<1> QED BY <1>1, <1>3, <1>4, <1>5 DEF ImportTypeOK

\* A step closes run r and leaves the other runs alone.
Closes(r, status) ==
  /\ r \in DOMAIN imports /\ DOMAIN imports' = DOMAIN imports
  /\ \A q \in DOMAIN imports \ {r} : imports'[q] = imports[q]
  /\ imports'[r].feed = imports[r].feed
  /\ imports'[r].completedAt = Now
  /\ imports'[r].status = status

\* What the steps do to the table of runs, as far as the invariant looks at it.
LEMMA RunTableSteps ==
  ASSUME ImportTypeOK, Reading, RunsInv, NEW p \in Importers
  PROVE  /\ OpenRun(p) =>
              /\ DOMAIN imports' = DOMAIN imports \cup {Len(imports) + 1}
              /\ Len(imports) + 1 \notin DOMAIN imports
              /\ \A q \in DOMAIN imports : imports'[q] = imports[q]
              /\ imports'[Len(imports) + 1].status = "running"
              /\ imports'[Len(imports) + 1].feed = importers[p].feed
         /\ CommitImport(p) => Closes(importers[p].run, "completed")
         /\ FailImport(p) => \/ Closes(importers[p].run, "failed")
                             \/ UNCHANGED imports
<1>1. ASSUME OpenRun(p)
      PROVE  /\ DOMAIN imports' = DOMAIN imports \cup {Len(imports) + 1}
             /\ Len(imports) + 1 \notin DOMAIN imports
             /\ \A q \in DOMAIN imports : imports'[q] = imports[q]
             /\ imports'[Len(imports) + 1].status = "running"
             /\ imports'[Len(imports) + 1].feed = importers[p].feed
  <2> DEFINE new == NewRun(importers[p].feed)
  <2>1. new.status = "running" /\ new.feed = importers[p].feed
    BY DEF NewRun
  <2>2. new \in Import
    <3>1. importers[p].feed \in Feeds
      BY <1>1 DEF OpenRun, ImporterAt, Reading
    <3> QED BY <3>1, CountsAreNumbers DEF NewRun, Import
  <2>3. imports \in Seq(Import) /\ imports' = Append(imports, new)
    BY <1>1 DEF OpenRun, ImportTypeOK
  <2> HIDE DEF new
  <2>4. /\ Len(imports) \in Nat /\ DOMAIN imports = 1..Len(imports)
        /\ Len(imports') = Len(imports) + 1 /\ DOMAIN imports' = 1..Len(imports')
        /\ \A q \in 1..Len(imports) : imports'[q] = imports[q]
        /\ imports'[Len(imports) + 1] = new
    BY <2>2, <2>3
  <2> QED BY <2>1, <2>4
<1>2. Working(p) => /\ importers[p].run \in DOMAIN imports
                    /\ imports[importers[p].run] \in Import
  BY DEF RunsInv, ImportTypeOK
<1>3. ASSUME CommitImport(p) PROVE Closes(importers[p].run, "completed")
  BY <1>2, <1>3 DEF CommitImport, Import, ImportTypeOK, Closes, Working
<1>4. ASSUME FailImport(p)
      PROVE  Closes(importers[p].run, "failed") \/ UNCHANGED imports
  BY <1>2, <1>4 DEF FailImport, Import, ImportTypeOK, Closes, Working
<1> QED BY <1>1, <1>3, <1>4

\* Every process at work keeps a running run of its own.
LEMMA RunsStep == ImportTypeOK /\ Reading /\ RunsInv /\ [ImportNext]_importVars => RunsInv'
<1> SUFFICES ASSUME ImportTypeOK, Reading, RunsInv, [ImportNext]_importVars PROVE RunsInv'
  OBVIOUS
<1>0. Nothing \notin Importers
  BY ImportAssumption
<1>1. CASE MarkOidSource \/ UNCHANGED importVars
  BY <1>1 DEF MarkOidSource, importVars, RunsInv, Working, ImporterAt
<1>2. ASSUME NEW p \in Importers, NEW feed \in Feeds, ReadFeed(p, feed)
      PROVE  RunsInv'
  <2>1. UNCHANGED <<imports, writer>> /\ ImporterAt(p, "idle")
    BY <1>2 DEF ReadFeed
  <2> QED BY <1>2, <2>1, ProcessSteps DEF RunsInv, Working, ImporterAt
<1>3. ASSUME NEW p \in Importers, OpenRun(p) PROVE RunsInv'
  <2>1. writer' = writer /\ ImporterAt(p, "open")
    BY <1>3 DEF OpenRun
  <2> QED BY <1>3, <2>1, ProcessSteps, RunTableSteps DEF RunsInv, Working, ImporterAt
<1>4. ASSUME NEW p \in Importers, BeginTransaction(p) PROVE RunsInv'
  <2>1. writer = Nothing /\ writer' = p /\ UNCHANGED imports /\ ImporterAt(p, "begin")
    BY <1>4 DEF BeginTransaction
  <2> QED BY <1>0, <1>4, <2>1, ProcessSteps DEF RunsInv, Working, ImporterAt
<1>5. ASSUME NEW p \in Importers, NEW record \in importers[p].todo,
             ImportRecord(p, record)
      PROVE  RunsInv'
  <2>1. UNCHANGED <<imports, writer>>
    BY <1>5 DEF ImportRecord
  <2> QED BY <1>5, <2>1, RecordStep DEF RunsInv, Working, ImporterAt
<1>6. ASSUME NEW p \in Importers, CommitImport(p) \/ FailImport(p) \/ KillImporter(p)
      PROVE  RunsInv'
  <2>1. \/ UNCHANGED imports
        \/ /\ Working(p)
           /\ DOMAIN imports' = DOMAIN imports
           /\ \A q \in DOMAIN imports \ {importers[p].run} : imports'[q] = imports[q]
    BY <1>6, RunTableSteps DEF CommitImport, FailImport, KillImporter, Closes, Working
  <2>2. writer' = IF writer = p THEN Nothing ELSE writer
    BY <1>6 DEF CommitImport, FailImport, KillImporter, Discard, RunsInv
  <2> QED BY <1>0, <1>6, <2>1, <2>2, ProcessSteps DEF RunsInv, Working, ImporterAt
<1> QED BY <1>1, <1>2, <1>3, <1>4, <1>5, <1>6 DEF ImportNext

\* What is no longer to be done is in the draft.
LEMMA TodoStep ==
  ImportTypeOK /\ Reading /\ RunsInv /\ DraftInv /\ [ImportNext]_importVars => DraftInv'
<1> SUFFICES ASSUME ImportTypeOK, Reading, RunsInv, DraftInv, [ImportNext]_importVars PROVE DraftInv'
  OBVIOUS
<1>0. Nothing \notin Importers
  BY ImportAssumption
<1>1. CASE MarkOidSource \/ UNCHANGED importVars
  BY <1>1 DEF MarkOidSource, importVars, DraftInv, ImporterAt
<1>2. ASSUME NEW p \in Importers, NEW feed \in Feeds, ReadFeed(p, feed)
      PROVE  DraftInv'
  <2>1. UNCHANGED draft
    BY <1>2 DEF ReadFeed
  <2> QED BY <1>2, <2>1, ProcessSteps DEF DraftInv, ImporterAt
<1>3. ASSUME NEW p \in Importers, OpenRun(p) PROVE DraftInv'
  <2>1. UNCHANGED draft /\ ImporterAt(p, "open")
    BY <1>3 DEF OpenRun
  <2> QED BY <1>3, <2>1, ProcessSteps DEF DraftInv, ImporterAt
<1>4. ASSUME NEW p \in Importers, BeginTransaction(p) PROVE DraftInv'
  <2>1. \A q \in Importers : ~ImporterAt(q, "record")
    BY <1>0, <1>4 DEF BeginTransaction, RunsInv
  <2>2. ImporterAt(p, "begin")
    BY <1>4 DEF BeginTransaction
  <2> QED BY <1>4, <2>1, <2>2, ProcessSteps DEF DraftInv, ImporterAt
<1>5. ASSUME NEW p \in Importers, NEW record \in importers[p].todo,
             ImportRecord(p, record)
      PROVE  DraftInv'
  <2>1. \A q \in Importers \ {p} : ~ImporterAt(q, "record")
    BY <1>5, RecordStep DEF RunsInv
  <2>2. importers[p].feed \in Feeds /\ Acceptable(importers[p].feed)
    BY <1>5, RecordStep DEF Reading, ImporterAt
  <2>3. RecordsOf(importers[p].feed) \subseteq Records
    BY DEF RecordsOf
  <2>4. ASSUME NEW r \in RecordsOf(importers[p].feed) \ importers'[p].todo
        PROVE  draft'[r.oid] # Nothing /\ draft'[r.oid].active
               /\ draft'[r.oid].details = r.details
    <3>1. r.oid \in Oids /\ r \in Records /\ record \in Records /\ record.oid \in Oids
      BY <2>3, <2>4, <1>5, RecordStep DEF Records
    <3>2. CASE r.oid = record.oid
      <4>1. r = record \/ (r \notin importers[p].todo /\ r # record)
        BY <1>5, <2>4, RecordStep
      <4>2. CASE r = record
        BY <1>5, <4>2, RecordStep, ImportAssumption
      <4>3. CASE r # record
        <5>1. record \in RecordsOf(importers[p].feed)
          BY DEF DraftInv
        <5> QED BY <5>1, <2>2, <2>4, <3>2, <4>3 DEF Acceptable
      <4> QED BY <4>2, <4>3
    <3>3. CASE r.oid # record.oid
      <4>1. draft'[r.oid] = draft[r.oid] /\ r \notin importers[p].todo
        BY <1>5, <2>4, <3>1, <3>3, RecordStep
      <4> QED BY <1>5, <2>4, <4>1, RecordStep DEF DraftInv
    <3> QED BY <3>2, <3>3
  <2> QED BY <1>5, <2>1, <2>4, RecordStep DEF DraftInv, ImporterAt
<1>6. ASSUME NEW p \in Importers, CommitImport(p) \/ FailImport(p) \/ KillImporter(p)
      PROVE  DraftInv'
  <2>1. \/ \A q \in Importers \ {p} : ~ImporterAt(q, "record")
        \/ UNCHANGED draft
    BY <1>6 DEF CommitImport, FailImport, KillImporter, Discard, RunsInv
  <2> QED BY <1>6, <2>1, ProcessSteps DEF DraftInv, ImporterAt
<1> QED BY <1>1, <1>2, <1>3, <1>4, <1>5, <1>6 DEF ImportNext

\* The records of an accepted file that is done are the active rows.
LEMMA DoneIsFeed ==
  ASSUME ImportTypeOK, Reading, RunsInv, DraftInv, NEW p \in Importers, CommitImport(p)
  PROVE  ActiveRecords' = RecordsOf(importers[p].feed)
<1> DEFINE feed == importers[p].feed
<1>1. ImporterAt(p, "record") /\ importers[p].todo = {} /\ orgs' = Deactivated(p)
  BY DEF CommitImport
<1>2. RecordsOf(feed) \subseteq Records
  BY DEF RecordsOf
<1>3. \A r \in RecordsOf(feed) : r.oid \in Oids /\ r = [oid |-> r.oid, details |-> r.details]
  BY <1>2 DEF Records
<1>4. \A r \in RecordsOf(feed) :
        draft[r.oid] # Nothing /\ draft[r.oid].active /\ draft[r.oid].details = r.details
  BY <1>1 DEF DraftInv
<1> DEFINE live(o) == orgs'[o] # Nothing /\ orgs'[o].active
<1>5. \A o \in Oids : live(o) <=> \E r \in RecordsOf(feed) : r.oid = o
  <2> SUFFICES ASSUME NEW o \in Oids
               PROVE  live(o) <=> \E r \in RecordsOf(feed) : r.oid = o
    OBVIOUS
  <2>1. live(o) <=> draft[o] # Nothing /\ draft[o].active /\ o \notin Missing(p)
    BY <1>1, DeactivatedRow
  <2> QED BY <1>4, <2>1 DEF Missing
<1>6. \A r \in RecordsOf(feed) : orgs'[r.oid].details = r.details
  BY <1>1, <1>3, <1>4, DeactivatedRow
<1>7. ActiveRecords' = {[oid |-> o, details |-> orgs'[o].details] : o \in {x \in Oids : live(x)}}
  BY DEF ActiveRecords
<1>8. ASSUME NEW a \in ActiveRecords' PROVE a \in RecordsOf(feed)
  <2>1. PICK o \in Oids : live(o) /\ a = [oid |-> o, details |-> orgs'[o].details]
    BY <1>7
  <2>2. PICK r \in RecordsOf(feed) : r.oid = o
    BY <1>5, <2>1
  <2>3. a = r
    BY <1>3, <1>6, <2>1, <2>2
  <2> QED BY <2>3
<1>9. ASSUME NEW r \in RecordsOf(feed) PROVE r \in ActiveRecords'
  <2>1. r.oid \in Oids /\ live(r.oid)
    BY <1>3, <1>5
  <2>2. r = [oid |-> r.oid, details |-> orgs'[r.oid].details]
    BY <1>3, <1>6
  <2> HIDE DEF live
  <2> QED BY <1>7, <2>1, <2>2
<1> QED BY <1>8, <1>9

\* A run that is closed makes one more, later than all before.
LEMMA ClosedGrows ==
  ASSUME ImportTypeOK, NEW r, NEW status, status # "running", Closes(r, status),
         imports[r].status = "running"
  PROVE  /\ Closed' = Closed \cup {r} /\ r \notin Closed
         /\ Cardinality(Closed) \in Nat
         /\ Cardinality(Closed') = Cardinality(Closed) + 1
         /\ Now = Cardinality(Closed) + 1
<1>1. Closed' = Closed \cup {r} /\ r \notin Closed
  BY DEF Closed, Closes
<1>2. IsFiniteSet(Closed)
  <2>1. IsFiniteSet(DOMAIN imports)
    BY FS_Interval DEF ImportTypeOK
  <2> QED BY <2>1, FS_Subset DEF Closed
<1>3. Cardinality(Closed) \in Nat
  BY <1>2, FS_CardinalityType
<1>4. Cardinality(Closed \cup {r}) = Cardinality(Closed) + 1
  BY <1>1, <1>2, FS_AddElement
<1>5. Now = Cardinality(Closed) + 1
  BY <1>3 DEF Now, Closed
<1> QED BY <1>1, <1>3, <1>4, <1>5

LEMMA ClosingTimes ==
  ASSUME ImportTypeOK
  PROVE  \A q \in DOMAIN imports : imports[q].completedAt \in Nat
<1>1. \A q \in DOMAIN imports : imports[q] \in Import
  BY DEF ImportTypeOK
<1> QED BY <1>1 DEF Import

LEMMA LatestStep ==
  ImportTypeOK /\ Reading /\ RunsInv /\ DraftInv /\ LatestInv /\ [ImportNext]_importVars => LatestInv'
<1> SUFFICES ASSUME ImportTypeOK, Reading, RunsInv, DraftInv, LatestInv, [ImportNext]_importVars
             PROVE  LatestInv'
  OBVIOUS
<1>1. CASE UNCHANGED <<orgs, imports>>
  BY <1>1 DEF LatestInv, Closed, Completed, Newest, ActiveRecords
<1>2. ASSUME NEW p \in Importers, OpenRun(p) PROVE LatestInv'
  <2>1. orgs' = orgs
    BY <1>2 DEF OpenRun
  <2>2. Closed' = Closed /\ Completed' = Completed
    BY <1>2, RunTableSteps DEF Closed, Completed
  <2>3. \A r \in Closed : imports'[r] = imports[r]
    BY <1>2, RunTableSteps DEF Closed
  <2>4. Completed \subseteq Closed
    BY DEF Closed, Completed
  <2>5. ActiveRecords' = ActiveRecords
    BY <2>1 DEF ActiveRecords
  <2>6. \A r : Newest(r) => Newest(r)'
    BY <2>2, <2>3, <2>4 DEF Newest
  <2> QED BY <2>2, <2>3, <2>4, <2>5, <2>6 DEF LatestInv
<1>3. ASSUME NEW p \in Importers, NEW status \in {"completed", "failed"},
             NEW run, run = importers[p].run, Working(p), Closes(run, status),
             status = "completed" => ActiveRecords' = RecordsOf(importers[p].feed),
             status = "failed" => orgs' = orgs
      PROVE  LatestInv'
  <2>1. /\ imports[run].status = "running" /\ imports[run].feed = importers[p].feed
    BY <1>3 DEF RunsInv
  <2>2. /\ Closed' = Closed \cup {run} /\ run \notin Closed
        /\ Cardinality(Closed) \in Nat
        /\ Cardinality(Closed') = Cardinality(Closed) + 1
        /\ imports'[run].completedAt = Cardinality(Closed) + 1
    BY <1>3, <2>1, ClosedGrows DEF Closes
  <2>3. \A q \in Closed : imports'[q] = imports[q]
                          /\ imports[q].completedAt \in Nat
                          /\ imports[q].completedAt <= Cardinality(Closed)
    BY <1>3, <2>2, ClosingTimes DEF Closed, Closes, LatestInv
  <2>4. \A q \in Closed' : imports'[q].completedAt <= Cardinality(Closed')
    BY <2>2, <2>3
  <2>5. Completed \subseteq Closed
    BY DEF Closed, Completed
  <2>6. CASE status = "completed"
    <3>1. Completed' = Completed \cup {run}
      BY <1>3, <2>1, <2>6 DEF Completed, Closes
    <3>2. Newest(run)'
      BY <2>2, <2>3, <2>5, <3>1 DEF Newest
    <3>3. ActiveRecords' = RecordsOf(imports'[run].feed)
      BY <1>3, <2>1, <2>6 DEF Closes
    <3> QED BY <2>4, <3>1, <3>2, <3>3 DEF LatestInv
  <2>7. CASE status = "failed"
    <3>1. Completed' = Completed
      BY <1>3, <2>1, <2>7 DEF Completed, Closes
    <3>2. \A r : Newest(r) => Newest(r)'
      BY <2>3, <2>5, <3>1 DEF Newest
    <3>3. ActiveRecords' = ActiveRecords
      BY <1>3, <2>7 DEF ActiveRecords
    <3> QED BY <2>3, <2>4, <2>5, <3>1, <3>2, <3>3 DEF LatestInv
  <2> QED BY <2>6, <2>7
<1>4. ASSUME NEW p \in Importers, CommitImport(p) PROVE LatestInv'
  <2>1. Working(p)
    BY <1>4 DEF CommitImport, Working
  <2> QED BY <1>3, <1>4, <2>1, RunTableSteps, DoneIsFeed
<1>5. ASSUME NEW p \in Importers, FailImport(p) PROVE LatestInv'
  <2>1. Working(p) /\ orgs' = orgs
    BY <1>5 DEF FailImport, Working
  <2> QED BY <1>1, <1>3, <1>5, <2>1, RunTableSteps
<1> QED BY <1>1, <1>2, <1>4, <1>5
        DEF ImportNext, importVars, ReadFeed, BeginTransaction, ImportRecord, KillImporter, MarkOidSource

LEMMA ImportInvInit == ImportInit => Reading /\ ImportInv
<1> SUFFICES ASSUME ImportInit PROVE Reading /\ ImportInv
  OBVIOUS
<1>1. DOMAIN imports = {}
  BY DEF ImportInit
<1>2. \A p \in Importers : importers[p].at = "idle" /\ importers[p].todo = {}
  BY DEF ImportInit, IdleImporter
<1>3. ActiveRecords = {}
  BY DEF ImportInit, ActiveRecords
<1>4. writer = Nothing /\ Nothing \notin Importers
  BY ImportAssumption DEF ImportInit
<1>5. Closed = {} /\ Completed = {}
  BY <1>1 DEF Closed, Completed
<1> QED BY <1>2, <1>3, <1>4, <1>5
        DEF ImportInv, RunsInv, DraftInv, LatestInv, Working, ImporterAt, Reading

LEMMA ImportInvStep == ImportTypeOK /\ Reading /\ ImportInv /\ [ImportNext]_importVars => Reading' /\ ImportInv'
BY ReadingStep, RunsStep, TodoStep, LatestStep DEF ImportInv

\* No import is ever visible in part: the active organisations are the records
\* of the file imported last (import_into_sqlite).
THEOREM ImportIsAtomic == ImportSpec => []ActiveIsLatestFeed
<1>1. ImportTypeOK /\ ImportInv => ActiveIsLatestFeed
  <2> SUFFICES ASSUME ImportTypeOK, ImportInv, Completed # {}
               PROVE  ActiveRecords = RecordsOf(imports[Latest].feed)
    BY DEF ActiveIsLatestFeed, ImportInv, LatestInv
  <2>1. PICK r \in Completed : Newest(r) /\ ActiveRecords = RecordsOf(imports[r].feed)
    BY DEF ImportInv, LatestInv
  <2>2. \A q \in Completed : imports[q].completedAt \in Nat
    BY ClosingTimes DEF Completed
  <2> DEFINE isLast(x) == x \in Completed
                /\ \A q \in Completed : imports[q].completedAt <= imports[x].completedAt
  <2>3. isLast(r)
    BY <2>1, <2>2 DEF Newest
  <2>4. \A x : isLast(x) => x = r
    BY <2>1, <2>2 DEF Newest
  <2>5. Latest \in Completed
        /\ \A q \in Completed : imports[q].completedAt <= imports[Latest].completedAt
    BY <2>3 DEF Latest
  <2>6. Latest = r
    BY <2>4, <2>5
  <2> QED BY <2>1, <2>6
<1> QED BY <1>1, ImportInvInit, ImportInvStep, ImportTypeCorrect, PTL DEF ImportSpec

\* The source counts as active only after a run has completed, and a completed
\* run stays one (mark_oid_source_active_when_imported).
THEOREM SourceIsHonest == ImportSpec => []OidSourceIsHonest
<1>1. ImportInit => OidSourceIsHonest
  BY DEF ImportInit, OidSourceIsHonest
<1>2. ImportTypeOK /\ Reading /\ ImportInv /\ OidSourceIsHonest /\ [ImportNext]_importVars
        => OidSourceIsHonest'
  <2> SUFFICES ASSUME ImportTypeOK, Reading, ImportInv, OidSourceIsHonest, [ImportNext]_importVars
               PROVE  OidSourceIsHonest'
    OBVIOUS
  <2>1. CASE UNCHANGED <<imports, oidSource>>
    BY <2>1 DEF OidSourceIsHonest, Completed
  <2>2. CASE MarkOidSource
    BY <2>2 DEF MarkOidSource, ImportHasWorked, OidSourceIsHonest, Completed
  <2>3. ASSUME NEW p \in Importers, OpenRun(p) \/ CommitImport(p) \/ FailImport(p)
        PROVE  OidSourceIsHonest'
    <3>1. oidSource' = oidSource
      BY <2>3 DEF OpenRun, CommitImport, FailImport
    <3>2. Completed \subseteq Completed'
      <4>1. CommitImport(p) \/ FailImport(p) =>
              imports[importers[p].run].status = "running"
        BY DEF CommitImport, FailImport, ImportInv, RunsInv, Working
      <4> QED BY <2>3, <4>1, RunTableSteps DEF Completed, Closes, ImportInv
    <3> QED BY <3>1, <3>2 DEF OidSourceIsHonest
  <2> QED BY <2>1, <2>2, <2>3
          DEF ImportNext, importVars, ReadFeed, BeginTransaction, ImportRecord, KillImporter
<1> QED BY <1>1, <1>2, ImportInvInit, ImportInvStep, ImportTypeCorrect, PTL DEF ImportSpec
-----------------------------------------------------------------------------
(* What a run reports adds up.                                              *)

\* Every nonempty set of numbers has a smallest one.
LEMMA HasSmallest ==
  ASSUME NEW K \in SUBSET Nat, K # {}
  PROVE  \E k \in K : \A j \in K : k <= j
<1> DEFINE R == OpToRel(<, Nat)
<1>1. IsWellFoundedOn(R, Nat)
  BY NatLessThanWellFounded
<1>2. \A i, j \in Nat : i < j => <<i, j>> \in R
  BY Zenon DEF OpToRel
<1> HIDE DEF R
<1>3. PICK k \in K : \A j \in K : ~(<<j, k>> \in R)
  BY <1>1, WFMin, Zenon
<1>4. \A j \in K : j \in Nat
  OBVIOUS
<1>5. \A j \in K : ~(j < k)
  BY <1>2, <1>3, <1>4, Zenon
<1> QED BY <1>4, <1>5

\* The rows that show a record first (parse_official_csv).
FirstRows(feed) ==
  {k \in DOMAIN feed : /\ feed[k] \in Records
                       /\ ~\E j \in 1..(k - 1) : feed[j] = feed[k]}

\* There are as many of them as there are records.
LEMMA FirstRowsCountRecords ==
  ASSUME NEW feed \in Feeds
  PROVE  Cardinality(FirstRows(feed)) = Cardinality(RecordsOf(feed))
<1>1. feed \in Seq(Records \cup {Blank, Invalid}) /\ Len(feed) \in Nat
      /\ DOMAIN feed = 1..Len(feed)
  BY ImportAssumption
<1> DEFINE F == FirstRows(feed)
           f == [k \in F |-> feed[k]]
<1>2. F \subseteq 1..Len(feed)
  BY <1>1 DEF FirstRows
<1>3. IsFiniteSet(F)
  <2>1. IsFiniteSet(1..Len(feed))
    BY <1>1, FS_Interval
  <2> QED BY <1>2, <2>1, FS_Subset
<1>4. \A k \in F : feed[k] \in RecordsOf(feed)
  BY DEF FirstRows, RecordsOf
<1>5. \A k, l \in F : feed[k] = feed[l] => k = l
  <2> SUFFICES ASSUME NEW k \in F, NEW l \in F, feed[k] = feed[l], k < l PROVE FALSE
    BY <1>2
  <2>1. k \in 1..(l - 1)
    BY <1>2
  <2> QED BY <2>1 DEF FirstRows
<1>6. \A r \in RecordsOf(feed) : \E k \in F : feed[k] = r
  <2> SUFFICES ASSUME NEW r \in RecordsOf(feed) PROVE \E k \in F : feed[k] = r
    OBVIOUS
  <2> DEFINE K == {k \in 1..Len(feed) : feed[k] = r}
  <2>1. r \in Records /\ K # {}
    BY <1>1 DEF RecordsOf
  <2>2. K \in SUBSET Nat
    OBVIOUS
  <2>3. PICK k \in K : \A j \in K : k <= j
    BY <2>1, <2>2, HasSmallest
  <2>4. k \in 1..Len(feed) /\ feed[k] = r
    OBVIOUS
  <2>5. \A j \in 1..(k - 1) : feed[j] # r
    <3> SUFFICES ASSUME NEW j \in 1..(k - 1), feed[j] = r PROVE FALSE
      OBVIOUS
    <3>1. j \in K /\ j < k
      BY <1>1, <2>4
    <3> QED BY <2>3, <2>4, <3>1
  <2> QED BY <1>1, <2>1, <2>4, <2>5 DEF FirstRows
<1> HIDE DEF F
<1>7. f \in Bijection(F, RecordsOf(feed))
  <2>1. f \in [F -> RecordsOf(feed)]
    BY <1>4
  <2>2. \A r \in RecordsOf(feed) : \E k \in F : f[k] = r
    BY <1>6
  <2>3. \A k, l \in F : f[k] = f[l] => k = l
    BY <1>5
  <2> QED BY <2>1, <2>2, <2>3, Fun_IsBij
<1>8. ExistsBijection(F, RecordsOf(feed))
  BY <1>7 DEF ExistsBijection
<1> QED BY <1>3, <1>8, FS_Bijection DEF F

\* Two finite sets without a common element have as many elements together as
\* both have.
LEMMA DisjointUnion ==
  ASSUME NEW S, IsFiniteSet(S), NEW T, IsFiniteSet(T), S \cap T = {}
  PROVE  /\ IsFiniteSet(S \cup T)
         /\ Cardinality(S) \in Nat /\ Cardinality(T) \in Nat
         /\ Cardinality(S \cup T) = Cardinality(S) + Cardinality(T)
<1>1. Cardinality(S) \in Nat /\ Cardinality(T) \in Nat
  BY FS_CardinalityType
<1>2. Cardinality(S \cap T) = 0
  BY FS_EmptySet
<1>3. /\ IsFiniteSet(S \cup T)
      /\ Cardinality(S \cup T) = Cardinality(S) + Cardinality(T) - Cardinality(S \cap T)
  BY FS_Union
<1> QED BY <1>1, <1>2, <1>3

\* Every source row is invalid, shows a record first, or repeats one.
LEMMA RowsAddUp ==
  ASSUME NEW feed \in Feeds
  PROVE  SourceRows(feed) =
           Cardinality(RecordsOf(feed)) + InvalidRows(feed) + DuplicateRows(feed)
<1>1. feed \in Seq(Records \cup {Blank, Invalid}) /\ Len(feed) \in Nat
      /\ DOMAIN feed = 1..Len(feed)
  BY ImportAssumption
<1> DEFINE N == {k \in DOMAIN feed : feed[k] # Blank}
           I == {k \in DOMAIN feed : feed[k] = Invalid}
           D == {k \in DOMAIN feed :
                   feed[k] \in Records /\ \E j \in 1..(k - 1) : feed[j] = feed[k]}
           F == FirstRows(feed)
<1>2. \A k \in DOMAIN feed : feed[k] \in Records \cup {Blank, Invalid}
  BY <1>1
<1>3. N = (F \cup I) \cup D
  BY <1>2, ImportAssumption DEF FirstRows
<1>4. F \cap I = {} /\ (F \cup I) \cap D = {}
  BY ImportAssumption DEF FirstRows
<1>5. IsFiniteSet(DOMAIN feed)
  BY <1>1, FS_Interval
<1>6. F \subseteq DOMAIN feed /\ I \subseteq DOMAIN feed /\ D \subseteq DOMAIN feed
  BY DEF FirstRows
<1>7. SourceRows(feed) = Cardinality(N) /\ InvalidRows(feed) = Cardinality(I)
      /\ DuplicateRows(feed) = Cardinality(D)
  BY DEF SourceRows, InvalidRows, DuplicateRows
<1> HIDE DEF N, I, D, F
<1>8. IsFiniteSet(F) /\ IsFiniteSet(I) /\ IsFiniteSet(D)
  BY <1>5, <1>6, FS_Subset
<1>9. /\ Cardinality(F) \in Nat /\ Cardinality(I) \in Nat /\ IsFiniteSet(F \cup I)
      /\ Cardinality(F \cup I) = Cardinality(F) + Cardinality(I)
  BY <1>4, <1>8, DisjointUnion
<1>10. Cardinality(D) \in Nat
       /\ Cardinality((F \cup I) \cup D) = Cardinality(F \cup I) + Cardinality(D)
  BY <1>4, <1>8, <1>9, DisjointUnion
<1>11. Cardinality(N) = Cardinality(F) + Cardinality(I) + Cardinality(D)
  BY <1>3, <1>9, <1>10
<1>12. Cardinality(F) = Cardinality(RecordsOf(feed))
  BY FirstRowsCountRecords DEF F
<1> QED BY <1>7, <1>9, <1>10, <1>11, <1>12

\* The counts of a run are those of its file; the records a process has counted
\* and those it still has to do make up its file; and what a completed run
\* reports is what its process had counted.
TallyInv ==
  /\ \A r \in DOMAIN imports :
       /\ imports[r].source = SourceRows(imports[r].feed)
       /\ imports[r].valid = Cardinality(RecordsOf(imports[r].feed))
       /\ imports[r].invalid = InvalidRows(imports[r].feed)
       /\ imports[r].duplicate = DuplicateRows(imports[r].feed)
  /\ \A p \in Importers : ~ImporterAt(p, "idle") =>
       importers[p].inserted + importers[p].updated + importers[p].unchanged
         + Cardinality(importers[p].todo) = Cardinality(RecordsOf(importers[p].feed))
  /\ \A r \in Completed :
       imports[r].valid = imports[r].inserted + imports[r].updated + imports[r].unchanged

\* Doing one record moves it from what is to be done to exactly one count.
LEMMA CountedTally ==
  ASSUME NEW me \in Importer, IsFiniteSet(me.todo), NEW record \in me.todo,
         NEW outcome \in {"inserted", "updated", "unchanged"}
  PROVE  LET one == Counted(me, record, outcome)
         IN  one.inserted + one.updated + one.unchanged + Cardinality(one.todo)
               = me.inserted + me.updated + me.unchanged + Cardinality(me.todo)
<1> DEFINE One(name) == IF outcome = name THEN 1 ELSE 0
<1>1. me.inserted \in Nat /\ me.updated \in Nat /\ me.unchanged \in Nat
  BY DEF Importer
<1>2. Counted(me, record, outcome) =
        [me EXCEPT !.todo = me.todo \ {record},
                   !.inserted = me.inserted + One("inserted"),
                   !.updated = me.updated + One("updated"),
                   !.unchanged = me.unchanged + One("unchanged")]
  BY DEF Counted, Importer
<1>3. One("inserted") + One("updated") + One("unchanged") = 1
  OBVIOUS
<1>4. One("inserted") \in Nat /\ One("updated") \in Nat /\ One("unchanged") \in Nat
  OBVIOUS
<1>5. /\ Cardinality(me.todo) \in Nat /\ Cardinality(me.todo \ {record}) \in Nat
      /\ Cardinality(me.todo \ {record}) = Cardinality(me.todo) - 1
  BY FS_RemoveElement, FS_CardinalityType, FS_Subset
<1> HIDE DEF One
<1>6. /\ Counted(me, record, outcome).todo = me.todo \ {record}
      /\ Counted(me, record, outcome).inserted = me.inserted + One("inserted")
      /\ Counted(me, record, outcome).updated = me.updated + One("updated")
      /\ Counted(me, record, outcome).unchanged = me.unchanged + One("unchanged")
  BY <1>2 DEF Importer
<1> QED BY <1>1, <1>3, <1>4, <1>5, <1>6

\* A run keeps what it said of its file when it is closed, and completes with
\* the counts of its process.
LEMMA ClosedCounts ==
  ASSUME ImportTypeOK, RunsInv, NEW p \in Importers, CommitImport(p) \/ FailImport(p)
  PROVE  /\ DOMAIN imports' = DOMAIN imports
         /\ \A r \in DOMAIN imports :
              /\ imports'[r].feed = imports[r].feed
              /\ imports'[r].source = imports[r].source
              /\ imports'[r].valid = imports[r].valid
              /\ imports'[r].invalid = imports[r].invalid
              /\ imports'[r].duplicate = imports[r].duplicate
         /\ \A r \in Completed' :
              \/ r \in Completed /\ imports'[r] = imports[r]
              \/ /\ CommitImport(p) /\ r = importers[p].run /\ r \in DOMAIN imports
                 /\ imports'[r].inserted = importers[p].inserted
                 /\ imports'[r].updated = importers[p].updated
                 /\ imports'[r].unchanged = importers[p].unchanged
<1> DEFINE run == importers[p].run
<1>1. \A r \in DOMAIN imports : imports[r] \in Import
  BY DEF ImportTypeOK
<1>2. run \in DOMAIN imports
  BY DEF RunsInv, Working, CommitImport, FailImport
<1>3. CASE CommitImport(p)
  <2> DEFINE new == [imports[run] EXCEPT !.status = "completed", !.completedAt = Now,
                       !.inserted = importers[p].inserted,
                       !.updated = importers[p].updated,
                       !.unchanged = importers[p].unchanged,
                       !.deactivated = Cardinality(Missing(p))]
  <2>1. imports' = [imports EXCEPT ![run] = new]
    BY <1>3 DEF CommitImport
  <2>2. /\ new.feed = imports[run].feed /\ new.source = imports[run].source
        /\ new.valid = imports[run].valid /\ new.invalid = imports[run].invalid
        /\ new.duplicate = imports[run].duplicate
        /\ new.inserted = importers[p].inserted
        /\ new.updated = importers[p].updated
        /\ new.unchanged = importers[p].unchanged
    BY <1>1, <1>2 DEF Import
  <2> HIDE DEF new
  <2>3. /\ DOMAIN imports' = DOMAIN imports /\ imports'[run] = new
        /\ \A r \in DOMAIN imports \ {run} : imports'[r] = imports[r]
    BY <1>2, <2>1 DEF ImportTypeOK
  <2> HIDE DEF run
  <2>4. \A r \in Completed' : r = run \/ (r \in Completed /\ imports'[r] = imports[r])
    BY <2>3 DEF Completed
  <2> QED BY <1>2, <1>3, <2>2, <2>3, <2>4 DEF run
<1>4. CASE FailImport(p)
  <2> DEFINE new == [imports[run] EXCEPT !.status = "failed", !.completedAt = Now]
  <2>1. UNCHANGED imports \/ imports' = [imports EXCEPT ![run] = new]
    BY <1>4 DEF FailImport
  <2>2. /\ new.feed = imports[run].feed /\ new.source = imports[run].source
        /\ new.valid = imports[run].valid /\ new.invalid = imports[run].invalid
        /\ new.duplicate = imports[run].duplicate /\ new.status = "failed"
    BY <1>1, <1>2 DEF Import
  <2> HIDE DEF new
  <2>3. CASE imports' = [imports EXCEPT ![run] = new]
    <3>1. /\ DOMAIN imports' = DOMAIN imports /\ imports'[run] = new
          /\ \A r \in DOMAIN imports \ {run} : imports'[r] = imports[r]
      BY <1>2, <2>3 DEF ImportTypeOK
    <3> QED BY <1>2, <2>2, <3>1 DEF Completed
  <2> QED BY <2>1, <2>3 DEF Completed
<1> QED BY <1>3, <1>4

LEMMA TallyStep ==
  ImportTypeOK /\ Reading /\ RunsInv /\ DraftInv /\ TallyInv /\ [ImportNext]_importVars
    => TallyInv'
<1> SUFFICES ASSUME ImportTypeOK, Reading, RunsInv, DraftInv, TallyInv,
                    [ImportNext]_importVars
             PROVE  TallyInv'
  OBVIOUS
<1> DEFINE Tallied(me) ==
      me.at # "idle" => me.inserted + me.updated + me.unchanged + Cardinality(me.todo)
                          = Cardinality(RecordsOf(me.feed))
<1>1. CASE UNCHANGED <<imports, importers>>
  BY <1>1 DEF TallyInv, Completed, ImporterAt
<1>2. ASSUME NEW p \in Importers, Tallied(importers'[p]),
             \A q \in Importers \ {p} : importers'[q] = importers[q]
      PROVE  \A q \in Importers : Tallied(importers'[q])
  BY <1>2 DEF TallyInv, ImporterAt
<1>3. ASSUME NEW p \in Importers, NEW feed \in Feeds, ReadFeed(p, feed)
      PROVE  TallyInv'
  <2>1. importers'[p] =
          [IdleImporter EXCEPT !.at = "open", !.feed = feed, !.todo = RecordsOf(feed)]
    BY <1>3 DEF ReadFeed, ImportTypeOK
  <2>2. Cardinality(RecordsOf(feed)) \in Nat
    BY CountsAreNumbers
  <2>3. Tallied(importers'[p])
    BY <2>1, <2>2 DEF IdleImporter
  <2>4. UNCHANGED imports
    BY <1>3 DEF ReadFeed
  <2> QED BY <1>2, <1>3, <2>3, <2>4, ProcessSteps DEF TallyInv, Completed, ImporterAt
<1>4. ASSUME NEW p \in Importers, OpenRun(p) PROVE TallyInv'
  <2>1. /\ importers'[p] = [importers[p] EXCEPT !.at = "begin", !.run = Len(imports')]
        /\ importers[p] \in Importer /\ importers[p].at = "open"
    BY <1>4 DEF OpenRun, ImportTypeOK, ImporterAt
  <2>2. Tallied(importers'[p])
    BY <2>1 DEF TallyInv, ImporterAt, Importer
  <2> DEFINE new == NewRun(importers[p].feed)
  <2>3. /\ new.source = SourceRows(new.feed) /\ new.invalid = InvalidRows(new.feed)
        /\ new.valid = Cardinality(RecordsOf(new.feed))
        /\ new.duplicate = DuplicateRows(new.feed) /\ new.status = "running"
    BY DEF NewRun
  <2>4. new \in Import
    <3>1. importers[p].feed \in Feeds
      BY <1>4 DEF OpenRun, ImporterAt, Reading
    <3> QED BY <3>1, CountsAreNumbers DEF NewRun, Import
  <2>5. imports \in Seq(Import) /\ imports' = Append(imports, new)
    BY <1>4 DEF OpenRun, ImportTypeOK
  <2> HIDE DEF new
  <2>6. /\ Len(imports) \in Nat /\ DOMAIN imports = 1..Len(imports)
        /\ DOMAIN imports' = DOMAIN imports \cup {Len(imports) + 1}
        /\ \A q \in DOMAIN imports : imports'[q] = imports[q]
        /\ imports'[Len(imports) + 1] = new
    BY <2>4, <2>5
  <2>7. Completed' = Completed
    BY <2>3, <2>6 DEF Completed
  <2>8. \A q \in Completed : imports'[q] = imports[q]
    BY <2>6 DEF Completed
  <2>9. \A q \in Importers \ {p} : importers'[q] = importers[q]
    BY <1>4, ProcessSteps
  <2> QED BY <1>2, <2>2, <2>3, <2>6, <2>7, <2>8, <2>9 DEF TallyInv, ImporterAt
<1>5. ASSUME NEW p \in Importers, BeginTransaction(p) PROVE TallyInv'
  <2>1. /\ importers'[p] = [importers[p] EXCEPT !.at = "record"]
        /\ importers[p] \in Importer /\ importers[p].at = "begin"
        /\ UNCHANGED imports
    BY <1>5 DEF BeginTransaction, ImportTypeOK, ImporterAt
  <2>2. Tallied(importers'[p])
    BY <2>1 DEF TallyInv, ImporterAt, Importer
  <2> QED BY <1>2, <1>5, <2>1, <2>2, ProcessSteps DEF TallyInv, Completed, ImporterAt
<1>6. ASSUME NEW p \in Importers, NEW record \in importers[p].todo,
             ImportRecord(p, record)
      PROVE  TallyInv'
  <2> DEFINE me == importers[p]
             outcome == Outcome(draft[record.oid], record)
  <2>1. me \in Importer /\ importers'[p] = Counted(me, record, outcome)
    BY <1>6 DEF ImportRecord, ImportTypeOK
  <2>2. outcome \in {"inserted", "updated", "unchanged"}
    BY DEF Outcome
  <2>3. IsFiniteSet(me.todo)
    <3>1. me.feed \in Feeds
      BY <1>6, RecordStep DEF Reading, ImporterAt
    <3>2. IsFiniteSet(RecordsOf(me.feed))
      BY <3>1, RecordsAreFinite
    <3> QED BY <3>2, FS_Subset DEF DraftInv
  <2>4. me.at # "idle"
    BY <1>6 DEF ImportRecord, ImporterAt
  <2>5. Tallied(me)
    BY DEF TallyInv, ImporterAt
  <2>6. /\ Counted(me, record, outcome).at = me.at
        /\ Counted(me, record, outcome).feed = me.feed
    BY <2>1, CountedImporter
  <2>7. LET one == Counted(me, record, outcome)
        IN  one.inserted + one.updated + one.unchanged + Cardinality(one.todo)
               = me.inserted + me.updated + me.unchanged + Cardinality(me.todo)
    BY <2>1, <2>2, <2>3, CountedTally
  <2> HIDE DEF me, outcome
  <2>8. Tallied(importers'[p])
    BY <2>1, <2>4, <2>5, <2>6, <2>7
  <2>9. UNCHANGED imports
    BY <1>6 DEF ImportRecord
  <2> QED BY <1>2, <1>6, <2>8, <2>9, RecordStep DEF TallyInv, Completed, ImporterAt
<1>7. ASSUME NEW p \in Importers, CommitImport(p) \/ FailImport(p) \/ KillImporter(p)
      PROVE  TallyInv'
  <2>1. \A q \in Importers : Tallied(importers'[q])
    BY <1>2, <1>7, ProcessSteps
  <2>2. CASE UNCHANGED imports
    BY <2>1, <2>2 DEF TallyInv, Completed, ImporterAt
  <2>3. CASE CommitImport(p) \/ FailImport(p)
    <3>1. ASSUME NEW r \in Completed'
          PROVE  imports'[r].valid = imports'[r].inserted + imports'[r].updated
                                       + imports'[r].unchanged
      <4>1. CASE r \in Completed /\ imports'[r] = imports[r]
        BY <4>1 DEF TallyInv
      <4>2. CASE /\ CommitImport(p) /\ r = importers[p].run /\ r \in DOMAIN imports
                 /\ imports'[r].inserted = importers[p].inserted
                 /\ imports'[r].updated = importers[p].updated
                 /\ imports'[r].unchanged = importers[p].unchanged
        <5>1. /\ importers[p].todo = {} /\ ~ImporterAt(p, "idle")
              /\ imports[r].feed = importers[p].feed
          BY <4>2 DEF CommitImport, RunsInv, Working, ImporterAt
        <5>2. Cardinality(importers[p].todo) = 0
          BY <5>1, FS_EmptySet
        <5>3. /\ imports'[r].valid = imports[r].valid
              /\ imports[r].valid = Cardinality(RecordsOf(importers[p].feed))
          BY <2>3, <4>2, <5>1, ClosedCounts DEF TallyInv
        <5>4. /\ importers[p].inserted \in Nat /\ importers[p].updated \in Nat
              /\ importers[p].unchanged \in Nat
          BY DEF ImportTypeOK, Importer
        <5>5. importers[p].inserted + importers[p].updated + importers[p].unchanged + 0
                = Cardinality(RecordsOf(importers[p].feed))
          BY <5>1, <5>2 DEF TallyInv
        <5> QED BY <4>2, <5>3, <5>4, <5>5
      <4> QED BY <2>3, <4>1, <4>2, ClosedCounts
    <3>2. \A r \in DOMAIN imports' :
            /\ imports'[r].source = SourceRows(imports'[r].feed)
            /\ imports'[r].valid = Cardinality(RecordsOf(imports'[r].feed))
            /\ imports'[r].invalid = InvalidRows(imports'[r].feed)
            /\ imports'[r].duplicate = DuplicateRows(imports'[r].feed)
      BY <2>3, ClosedCounts DEF TallyInv
    <3> QED BY <2>1, <3>1, <3>2 DEF TallyInv, ImporterAt
  <2> QED BY <1>7, <2>2, <2>3 DEF KillImporter
<1> QED BY <1>1, <1>3, <1>4, <1>5, <1>6, <1>7 DEF ImportNext, importVars, MarkOidSource

\* Every source row of a completed run is valid, invalid or a duplicate, and
\* every valid record was inserted, updated or left unchanged
\* (parse_official_csv, import_into_sqlite).
THEOREM ReportsAddUp == ImportSpec => []CountsAddUp
<1>1. ImportInit => TallyInv
  BY DEF ImportInit, TallyInv, Completed, ImporterAt, IdleImporter
<1>2. ImportTypeOK /\ TallyInv => CountsAddUp
  <2> SUFFICES ASSUME ImportTypeOK, TallyInv, NEW r \in Completed
               PROVE  /\ imports[r].source = imports[r].valid + imports[r].invalid
                                               + imports[r].duplicate
                      /\ imports[r].valid = imports[r].inserted + imports[r].updated
                                               + imports[r].unchanged
    BY DEF CountsAddUp
  <2>1. r \in DOMAIN imports
    BY DEF Completed
  <2>2. imports[r] \in Import
    BY <2>1 DEF ImportTypeOK
  <2>3. imports[r].feed \in Feeds
    BY <2>2 DEF Import
  <2> QED BY <2>1, <2>3, RowsAddUp DEF TallyInv
<1>3. ImportTypeOK /\ Reading /\ ImportInv /\ TallyInv /\ [ImportNext]_importVars => TallyInv'
  BY TallyStep DEF ImportInv
<1> QED BY <1>1, <1>2, <1>3, ImportInvInit, ImportInvStep, ImportTypeCorrect, PTL DEF ImportSpec

=============================================================================
