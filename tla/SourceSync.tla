----------------------------- MODULE SourceSync -----------------------------
(***************************************************************************)
(* The source connector (services/source_connector.py) and the two scripts  *)
(* that drive it, sync_benefit_sources.py and fetch_reviewed_benefit_pages,  *)
(* over the SQLite catalogue and the directory of raw pages.  Several such   *)
(* processes may run at once.  What a process has committed survives its     *)
(* crash; a crash in between leaves the last commit, and the files, as they  *)
(* are.                                                                     *)
(***************************************************************************)
EXTENDS Naturals, Sequences

CONSTANTS
  Sources,   \* source_id of the registered web sources
  Enabled,   \* those the seed file enables
  Verified,  \* those whose official_status is verified_official
  Urls,      \* pages, by canonical URL
  GovUrls,   \* HTTPS URLs of a Taiwan government host
  LandsOn,   \* [Urls -> SUBSET Urls], where a request may end up
  Bodies,    \* page contents the web may answer with
  Texts,     \* hashes of their visible texts
  TextOf,    \* [Bodies -> Texts]
  Jobs,      \* sequences of items a script may be started on
  None,      \* no row, no page
  Workers,   \* processes running at the same time
  MaxRuns    \* model bound: sync runs started altogether

\* What a script works on: the entry page of a source, a reviewed page to
\* fetch, or a reviewed page that must be in the catalogue already.
Items == [kind : {"entry", "reviewed", "reuse"}, source : Sources, url : Urls]

\* storage_ref: the file of that source and that body.
Files == [source : Sources, body : Bodies]

\* connection_status; "unregistered" stands for a source without a row.
HealthStates == {"unregistered", "pending", "active", "degraded", "failed"}

Run == [source : Sources, updatesHealth : BOOLEAN, changed : BOOLEAN,
        status : {"running", "completed", "failed"}]

Document == [text : Texts, ref : Files]

Page == [url : Urls, body : Bodies]

ASSUME CatalogueAssumption ==
  /\ Enabled \subseteq Sources
  /\ Verified \subseteq Sources
  /\ GovUrls \subseteq Urls
  /\ LandsOn \in [Urls -> SUBSET Urls]
  /\ TextOf \in [Bodies -> Texts]
  /\ Jobs \subseteq Seq(Items)
  /\ \A job \in Jobs : \A j, k \in DOMAIN job :   \* one script or the other
       job[j].kind = "entry" <=> job[k].kind = "entry"
  /\ None \notin Document \cup Page
  /\ MaxRuns \in Nat

VARIABLES
  health,       \* [Sources -> connection_status], the table source_registry
  runs,         \* the table source_sync_runs, by order of insertion
  documents,    \* [Urls -> row or None], the table source_documents
  discoveries,  \* [Urls -> [Sources -> last_sync_run_id, 0 for no row]]
  files,        \* [Files -> "absent", "torn" or "whole"], the raw directory
  workers,      \* [Workers -> where a process stands and what it holds]
  givenUp       \* history: the runs whose process was killed, or could not
                \* write down how they ended

syncVars == <<health, runs, documents, discoveries, files, workers, givenUp>>

Worker ==
  [at : {"idle", "next", "fetch", "read", "store", "writing", "commit", "fail"},
   todo : Seq(Items), run : Nat, page : Page \cup {None},
   existing : Document \cup {None}]

Idle == [at |-> "idle", todo |-> <<>>, run |-> 0, page |-> None,
         existing |-> None]

SyncInit ==
  /\ health = [s \in Sources |-> "unregistered"]
  /\ runs = <<>>
  /\ documents = [u \in Urls |-> None]
  /\ discoveries = [u \in Urls |-> [s \in Sources |-> 0]]
  /\ files = [f \in Files |-> "absent"]
  /\ workers = [w \in Workers |-> Idle]
  /\ givenUp = {}

-----------------------------------------------------------------------------
(* A script and its items.                                                 *)

At(w, step) == workers[w].at = step
Goto(w, step) == workers' = [workers EXCEPT ![w].at = step]
Item(w) == Head(workers[w].todo)

\* The item is done: on to the next one, or the end of the job.
Proceed(w) ==
  workers' = [workers EXCEPT ![w] =
    IF Len(@.todo) > 1
    THEN [Idle EXCEPT !.at = "next", !.todo = Tail(workers[w].todo)]
    ELSE Idle]

Quit(w) == workers' = [workers EXCEPT ![w] = Idle]

\* An exception ends sync_sources.  fetch_reviewed_batch records the failure
\* of the item and goes on, unless it is of a kind it does not catch.
Raise(w) == Quit(w) \/ (Item(w).kind # "entry" /\ Proceed(w))

\* Mutant of SeedSourceRegistry: seeding overwrites the runtime status.
SeedOverwrites == health' = [s \in Sources |-> "pending"]

\* Both scripts begin with initialize_database: sources not yet registered
\* are inserted as pending, the others keep their connection status.
SeedSourceRegistry ==
  health' = [s \in Sources |->
               IF health[s] = "unregistered" THEN "pending" ELSE health[s]]

StartJob(w, job) ==
  /\ At(w, "idle")
  /\ job # <<>>
  /\ SeedSourceRegistry
  /\ workers' = [workers EXCEPT ![w] =
                   [Idle EXCEPT !.at = "next", !.todo = job]]
  /\ UNCHANGED <<runs, documents, discoveries, files, givenUp>>

\* _load_registered_source, and the two tests of sync_reviewed_source_page.
MaySync(item) ==
  /\ item.source \in Enabled
  /\ item.kind = "reviewed" => item.source \in Verified /\ item.url \in GovUrls

RunOf(item) == [source |-> item.source, updatesHealth |-> item.kind = "entry",
                changed |-> FALSE, status |-> "running"]

CanBegin(w) ==
  /\ At(w, "next")
  /\ Item(w).kind # "reuse"
  /\ MaySync(Item(w))

\* The run is committed as running before anything is fetched ...
BeginRun(w) ==
  /\ CanBegin(w)
  /\ Len(runs) < MaxRuns
  /\ runs' = Append(runs, RunOf(Item(w)))
  /\ workers' = [workers EXCEPT ![w].at = "fetch", ![w].run = Len(runs')]
  /\ UNCHANGED <<health, documents, discoveries, files, givenUp>>

\* ... unless the database is locked or full: this lies outside the try.
FailToBegin(w) ==
  /\ CanBegin(w)
  /\ Raise(w)
  /\ UNCHANGED <<health, runs, documents, discoveries, files, givenUp>>

\* If only the commit is refused, the row is saved by the next commit of a batch
\* that goes on, and nobody works on that run.  (Saved at once in the model;
\* a row that is never saved is FailToBegin.)
BeginInVain(w) ==
  /\ CanBegin(w)
  /\ Len(runs) < MaxRuns
  /\ Item(w).kind # "entry" /\ Proceed(w)
  /\ runs' = Append(runs, RunOf(Item(w)))
  /\ givenUp' = givenUp \cup {Len(runs')}
  /\ UNCHANGED <<health, documents, discoveries, files>>

RejectItem(w) ==
  /\ At(w, "next")
  /\ Item(w).kind # "reuse" /\ ~MaySync(Item(w))
  /\ Raise(w)
  /\ UNCHANGED <<health, runs, documents, discoveries, files, givenUp>>

\* _reuse_existing_document: a page not in the catalogue is a failed item, and
\* the batch goes on either way.
ReuseExisting(w) ==
  /\ At(w, "next")
  /\ Item(w).kind = "reuse"
  /\ Proceed(w)
  /\ UNCHANGED <<health, runs, documents, discoveries, files, givenUp>>

-----------------------------------------------------------------------------
(* _sync_source_page.                                                      *)

\* fetch_html answers with some page, possibly after a redirect ...
Fetch(w) ==
  /\ At(w, "fetch")
  /\ \E u \in LandsOn[Item(w).url], b \in Bodies :
       /\ Item(w).kind = "reviewed" => u \in GovUrls
       /\ workers' = [workers EXCEPT ![w].at = "read",
                                     ![w].page = [url |-> u, body |-> b]]
  /\ UNCHANGED <<health, runs, documents, discoveries, files, givenUp>>

\* ... or this step raises: the network, a page that is no HTML or is too long,
\* a redirect off the government hosts, a full disk, a locked database.
GiveUp(w) ==
  /\ \E step \in {"fetch", "read", "store", "writing", "commit"} : At(w, step)
  /\ Goto(w, "fail")
  /\ UNCHANGED <<health, runs, documents, discoveries, files, givenUp>>

\* The SELECT runs outside any transaction.
ReadExisting(w) ==
  /\ At(w, "read")
  /\ workers' = [workers EXCEPT ![w].at = "store",
                    ![w].existing = documents[workers[w].page.url]]
  /\ UNCHANGED <<health, runs, documents, discoveries, files, givenUp>>

NewText(w) == TextOf[workers[w].page.body]

Changed(w) == workers[w].existing = None \/ workers[w].existing.text # NewText(w)
MyFile(w) == [source |-> Item(w).source, body |-> workers[w].page.body]

\* Mutant of StorageRef: an unchanged page keeps the file the row names by then.
StorageRefOfRow(w) ==
  IF Changed(w) THEN MyFile(w) ELSE documents[workers[w].page.url].ref

StorageRef(w) == IF Changed(w) THEN MyFile(w) ELSE workers[w].existing.ref

\* _write_raw_page: a file that exists is taken to be the page, whole or not.
StorePage(w) ==
  /\ At(w, "store")
  /\ IF Changed(w) /\ files[MyFile(w)] = "absent"
     THEN files' = [files EXCEPT ![MyFile(w)] = "torn"] /\ Goto(w, "writing")
     ELSE UNCHANGED files /\ Goto(w, "commit")
  /\ UNCHANGED <<health, runs, documents, discoveries, givenUp>>

FinishWriting(w) ==
  /\ At(w, "writing")
  /\ files' = [files EXCEPT ![MyFile(w)] = "whole"]
  /\ Goto(w, "commit")
  /\ UNCHANGED <<health, runs, documents, discoveries, givenUp>>

\* The INSERT meets UNIQUE (canonical_url) when another process was faster.
Conflict(w) ==
  workers[w].existing = None /\ documents[workers[w].page.url] # None

\* The upsert into document_discoveries.
Discovered(u, s, r) ==
  discoveries' = [discoveries EXCEPT ![u][s] = r]

\* One transaction.
CommitSync(w) ==
  LET u == workers[w].page.url
      s == Item(w).source
      r == workers[w].run
  IN
  /\ At(w, "commit")
  /\ ~Conflict(w)
  /\ documents' = [documents EXCEPT ![u] =
                     [text |-> NewText(w), ref |-> StorageRef(w)]]
  /\ Discovered(u, s, r)
  /\ runs' = [runs EXCEPT ![r].status = "completed", ![r].changed = Changed(w)]
  /\ health' = IF runs[r].updatesHealth THEN [health EXCEPT ![s] = "active"]
                                        ELSE health
  /\ Proceed(w)
  /\ UNCHANGED <<files, givenUp>>

\* Mutant of CloseRun: the failed run stays open.
LeaveRunOpen(r) == UNCHANGED runs

CloseRun(r) == runs' = [runs EXCEPT ![r].status = "failed"]

AfterFailure(status) ==
  IF status \in {"active", "degraded"} THEN "degraded" ELSE "failed"

\* Mutant of RollBack: what the transaction inserted before it failed stays.
RollBackTooLate(w) ==
  LET s == Item(w).source
      r == workers[w].run
  IN
  /\ At(w, "fail") \/ (At(w, "commit") /\ Conflict(w))
  /\ CloseRun(r)
  /\ health' = IF runs[r].updatesHealth
               THEN [health EXCEPT ![s] = AfterFailure(@)] ELSE health
  /\ documents' = IF workers[w].page = None THEN documents
                  ELSE [documents EXCEPT ![workers[w].page.url] =
                          [text |-> NewText(w), ref |-> MyFile(w)]]
  /\ Raise(w)
  /\ UNCHANGED <<discoveries, files, givenUp>>

\* The except branch: the transaction is rolled back, the run is closed.
RollBack(w) ==
  LET s == Item(w).source
      r == workers[w].run
  IN
  /\ At(w, "fail") \/ (At(w, "commit") /\ Conflict(w))
  /\ CloseRun(r)
  /\ health' = IF runs[r].updatesHealth
               THEN [health EXCEPT ![s] = AfterFailure(@)] ELSE health
  /\ Raise(w)
  /\ UNCHANGED <<documents, discoveries, files, givenUp>>

\* The except branch has no handler of its own: a database that is still locked
\* or full refuses the end of the run as well, and nothing closes it any more.
\* (An UPDATE whose commit is refused may be saved by the next commit of a batch
\* that goes on: that is RollBack, a little early.)
FailToClose(w) ==
  /\ At(w, "fail") \/ (At(w, "commit") /\ Conflict(w))
  /\ Raise(w)
  /\ givenUp' = givenUp \cup {workers[w].run}
  /\ UNCHANGED <<health, runs, documents, discoveries, files>>

-----------------------------------------------------------------------------

\* A process is killed: the files and the last commit stay.
Crash(w) ==
  /\ ~At(w, "idle")
  /\ Quit(w)
  /\ givenUp' = givenUp \cup ({workers[w].run} \ {0})
  /\ UNCHANGED <<health, runs, documents, discoveries, files>>

Work(w) ==
  \/ BeginRun(w) \/ FailToBegin(w) \/ BeginInVain(w)
  \/ RejectItem(w) \/ ReuseExisting(w)
  \/ Fetch(w) \/ GiveUp(w) \/ ReadExisting(w) \/ StorePage(w)
  \/ FinishWriting(w) \/ CommitSync(w) \/ RollBack(w) \/ FailToClose(w)
  \/ Crash(w)

SyncNext ==
  \E w \in Workers : (\E job \in Jobs : StartJob(w, job)) \/ Work(w)

SyncSpec == SyncInit /\ [][SyncNext]_syncVars

-----------------------------------------------------------------------------
(* Properties.                                                             *)

\* The tables, the directory and the processes keep their shape.
SyncTypeOK ==
  /\ health \in [Sources -> HealthStates]
  /\ runs \in Seq(Run)
  /\ documents \in [Urls -> Document \cup {None}]
  /\ discoveries \in [Urls -> [Sources -> Nat]]
  /\ files \in [Files -> {"absent", "torn", "whole"}]
  /\ workers \in [Workers -> Worker]
  /\ givenUp \subseteq DOMAIN runs

\* Runs of the entry page of s that ended this way.
Ended(s, outcome) ==
  {r \in DOMAIN runs : /\ runs[r].source = s
                       /\ runs[r].updatesHealth
                       /\ runs[r].status = outcome}

\* The connection status is what the table of runs justifies: pending until a
\* run has ended, active or degraded only if one has ever worked, failed only
\* if none has, degraded only after a failure.  (_sync_source_page, and ADR
\* 0010: a source remains pending until a connector actually works)
HealthMatchesRuns ==
  \A s \in Sources :
    /\ health[s] \in {"active", "degraded"} <=> Ended(s, "completed") # {}
    /\ health[s] \in {"failed", "degraded"} => Ended(s, "failed") # {}
    /\ health[s] \in {"pending", "unregistered"} => Ended(s, "failed") = {}

\* The documents of a source, as get_registered_source_statuses counts them.
DocumentsOf(s) == {u \in Urls : discoveries[u][s] # 0}

\* A document and its provenance go together: every document was discovered by
\* a source, each discovery names a completed run of that source, and a source
\* with a completed run - hence every one that is shown as connected - also
\* shows a document.  No crash, failure or lost race leaves one without the
\* other.
ProvenanceIsComplete ==
  /\ \A u \in Urls : documents[u] # None <=> \E s \in Sources : u \in DocumentsOf(s)
  /\ \A s \in Sources : \A u \in DocumentsOf(s) :
       /\ discoveries[u][s] \in DOMAIN runs
       /\ runs[discoveries[u][s]].source = s
       /\ runs[discoveries[u][s]].status = "completed"
  /\ \A r \in DOMAIN runs :
       runs[r].status = "completed" => DocumentsOf(runs[r].source) # {}

\* The content hash of a document is that of the raw page it refers to, and
\* the file is there, whichever process wrote the row last.
StoredPageMatches ==
  \A u \in Urls : documents[u] # None =>
    /\ documents[u].text = TextOf[documents[u].ref.body]
    /\ files[documents[u].ref] # "absent"

\* The table shows as running exactly the runs that a process is at work on and
\* those that were given up: no path through a job forgets the run it opened or
\* ends another one, and only a kill, or a database that refuses to save the
\* beginning or the end of a run, leaves it open for good.
RunsAreClosed ==
  \A r \in DOMAIN runs : runs[r].status = "running" <=>
    (r \in givenUp \/ \E w \in Workers : workers[w].run = r)
=============================================================================
