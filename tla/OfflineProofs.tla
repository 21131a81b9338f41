--------------------------- MODULE OfflineProofs ---------------------------
(***************************************************************************)
(* Theorems about the source connector (SourceSync), for any number of        *)
(* processes, any jobs and any pages the web answers with; about the refresh  *)
(* after a response (SourceRefresh), for any threads, sources, events and     *)
(* days; and about the four offline parts together.                          *)
(***************************************************************************)
EXTENDS MCOffline, OidImportProofs, CatalogReviewProofs, FiniteSetTheorems,
        FunctionTheorems, SequenceTheorems, TLAPS

-----------------------------------------------------------------------------
(* The source connector.                                                    *)

\* A process on an item holds a run of its own, still running, of the item's
\* source; one that fetched a page knows it.  A run that was given up is still
\* running, and nobody's.
WorkersInv ==
  /\ \A w \in Workers :
       /\ workers[w].at \in {"idle", "next"} <=> workers[w].run = 0
       /\ ~At(w, "idle") => workers[w].todo # <<>>
       /\ workers[w].run # 0 =>
            /\ workers[w].run \in DOMAIN runs
            /\ runs[workers[w].run].status = "running"
            /\ runs[workers[w].run].source = Item(w).source
       /\ workers[w].at \in {"read", "store", "writing", "commit"} =>
            workers[w].page # None
  /\ \A v, w \in Workers :
       v # w /\ workers[w].run # 0 => workers[v].run # workers[w].run
  /\ \A r \in givenUp : /\ r \in DOMAIN runs /\ runs[r].status = "running"
                        /\ \A w \in Workers : workers[w].run # r

\* What is on disk of a row: its text is that of its page, and the page is there.
Sound(directory, row) ==
  row.text = TextOf[row.ref.body] /\ directory[row.ref] # "absent"

\* A process holds a sound row, if any, and writes its own page before it commits.
PagesInv ==
  \A w \in Workers :
    /\ workers[w].existing # None => Sound(files, workers[w].existing)
    /\ workers[w].at \in {"writing", "commit"} /\ Changed(w) =>
         files[MyFile(w)] # "absent"

SyncInv == WorkersInv /\ PagesInv /\ HealthMatchesRuns /\ ProvenanceIsComplete
           /\ StoredPageMatches /\ RunsAreClosed

\* Runs are added at the end and keep their length.
LEMMA RunsAreIndexed ==
  ASSUME SyncTypeOK
  PROVE  /\ Len(runs) \in Nat /\ DOMAIN runs = 1..Len(runs)
         /\ \A r \in DOMAIN runs : runs[r] \in Run
         /\ runs \in [1..Len(runs) -> Run]
BY DEF SyncTypeOK

\* The item a process works on.
LEMMA ItemType ==
  ASSUME SyncTypeOK, NEW w \in Workers, workers[w].todo # <<>>
  PROVE  /\ Item(w) \in Items /\ Item(w).source \in Sources /\ Item(w).url \in Urls
         /\ Tail(workers[w].todo) \in Seq(Items)
         /\ Len(workers[w].todo) > 1 => Tail(workers[w].todo) # <<>>
<1>1. workers[w].todo \in Seq(Items)
  BY DEF SyncTypeOK, Worker
<1>2. Head(workers[w].todo) \in Items /\ Tail(workers[w].todo) \in Seq(Items)
      /\ Len(Tail(workers[w].todo)) = Len(workers[w].todo) - 1
  BY <1>1, HeadTailProperties
<1>3. Len(workers[w].todo) \in Nat /\ Len(<<>>) = 0
  BY <1>1
<1>4. ASSUME Len(workers[w].todo) > 1, Tail(workers[w].todo) = <<>> PROVE FALSE
  <2> DEFINE n == Len(workers[w].todo)
             m == Len(Tail(workers[w].todo))
  <2>1. m = 0 /\ m = n - 1 /\ n > 1 /\ n \in Nat
    BY <1>2, <1>3, <1>4, Zenon
  <2> HIDE DEF n, m
  <2> QED BY <2>1
<1>5. Item(w) \in Items
  BY <1>2 DEF Item
<1> QED BY <1>2, <1>4, <1>5 DEF Items

\* A page that was fetched names a file and a text.
LEMMA PageType ==
  ASSUME SyncTypeOK, NEW w \in Workers, workers[w].page # None,
         workers[w].todo # <<>>
  PROVE  /\ workers[w].page.url \in Urls /\ MyFile(w) \in Files
         /\ MyFile(w).body = workers[w].page.body
         /\ NewText(w) \in Texts
         /\ NewText(w) = TextOf[workers[w].page.body]
         /\ StorageRef(w) \in Files
<1>1. workers[w].page \in Page
  BY DEF SyncTypeOK, Worker
<1>2. workers[w].page.url \in Urls /\ workers[w].page.body \in Bodies
  BY <1>1 DEF Page
<1>3. workers[w].existing \in Document \cup {None}
  BY DEF SyncTypeOK, Worker
<1>4. workers[w].existing # None => workers[w].existing.ref \in Files
  BY <1>3 DEF Document
<1>5. NewText(w) \in Texts
  BY <1>2, CatalogueAssumption DEF NewText
<1>6. MyFile(w) \in Files
  BY <1>2, ItemType DEF MyFile, Files
<1> QED BY <1>2, <1>4, <1>5, <1>6 DEF NewText, MyFile, StorageRef, Changed

\* A process that is done with its item, or gives up, holds no run any more.
Leaves(w) ==
  /\ workers' \in [Workers -> Worker]
  /\ \A v \in Workers \ {w} : workers'[v] = workers[v]
  /\ workers'[w].at \in {"idle", "next"} /\ workers'[w].run = 0
  /\ workers'[w].page = None /\ workers'[w].existing = None
  /\ workers'[w].at # "idle" => workers'[w].todo # <<>>

LEMMA LeavingStep ==
  ASSUME SyncTypeOK, NEW w \in Workers, Proceed(w) \/ Quit(w) \/ Raise(w),
         workers[w].todo # <<>>
  PROVE  Leaves(w)
<1>1. Idle \in Worker /\ Idle.at = "idle" /\ Idle.run = 0 /\ Idle.page = None
      /\ Idle.existing = None
  BY DEF Idle, Worker
<1> DEFINE more == [Idle EXCEPT !.at = "next", !.todo = Tail(workers[w].todo)]
<1>2. more \in Worker /\ more.at = "next" /\ more.run = 0 /\ more.page = None
      /\ more.existing = None /\ more.todo = Tail(workers[w].todo)
  BY ItemType DEF Idle, Worker
<1>3. CASE Proceed(w)
  <2>1. workers' = [workers EXCEPT ![w] =
                      IF Len(workers[w].todo) > 1 THEN more ELSE Idle]
    BY <1>3 DEF Proceed, SyncTypeOK
  <2> HIDE DEF more
  <2>2. CASE Len(workers[w].todo) > 1
    BY <1>2, <2>1, <2>2, ItemType DEF Leaves, SyncTypeOK
  <2>3. CASE ~(Len(workers[w].todo) > 1)
    BY <1>1, <2>1, <2>3 DEF Leaves, SyncTypeOK
  <2> QED BY <2>2, <2>3
<1>4. CASE Quit(w)
  BY <1>1, <1>4 DEF Quit, Leaves, SyncTypeOK
<1> QED BY <1>3, <1>4 DEF Raise

\* A process that stays with its item keeps its run.
Stays(w) ==
  /\ workers' \in [Workers -> Worker]
  /\ \A v \in Workers \ {w} : workers'[v] = workers[v]
  /\ workers[w].run # 0 /\ workers'[w].run = workers[w].run
  /\ workers'[w].at \notin {"idle", "next"}
  /\ workers'[w].todo = workers[w].todo /\ workers[w].todo # <<>>
  /\ workers'[w].at \in {"read", "store", "writing", "commit"} => workers'[w].page # None

LEMMA StayingStep ==
  ASSUME SyncTypeOK, WorkersInv, NEW w \in Workers,
         Fetch(w) \/ GiveUp(w) \/ ReadExisting(w) \/ StorePage(w) \/ FinishWriting(w)
  PROVE  Stays(w)
<1>1. workers[w] \in Worker
  BY DEF SyncTypeOK
<1>2. ASSUME NEW step \in {"fail", "writing", "commit"}, Goto(w, step),
             workers[w].at \notin {"idle", "next"},
             step = "fail" \/ workers[w].at \in {"store", "writing"}
      PROVE  Stays(w)
  BY <1>1, <1>2 DEF Goto, SyncTypeOK, WorkersInv, Worker, Stays, At
<1>3. CASE Fetch(w)
  <2>1. PICK u \in LandsOn[Item(w).url], b \in Bodies :
          workers' = [workers EXCEPT ![w].at = "read",
                                     ![w].page = [url |-> u, body |-> b]]
    BY <1>3 DEF Fetch
  <2>2. workers[w].at = "fetch" /\ workers[w].todo # <<>> /\ workers[w].run # 0
    BY <1>3 DEF Fetch, At, WorkersInv
  <2>3. u \in Urls
    BY <2>2, ItemType, CatalogueAssumption
  <2>4. [url |-> u, body |-> b] \in Page /\ [url |-> u, body |-> b] # None
    BY <2>3, CatalogueAssumption DEF Page
  <2> QED BY <1>1, <2>1, <2>2, <2>4 DEF SyncTypeOK, Worker, Stays
<1>4. CASE ReadExisting(w)
  <2>1. workers[w].at = "read" /\ workers[w].todo # <<>> /\ workers[w].run # 0
        /\ workers[w].page # None
    BY <1>4 DEF ReadExisting, At, WorkersInv
  <2>2. documents[workers[w].page.url] \in Document \cup {None}
    BY <2>1, PageType DEF SyncTypeOK
  <2> QED BY <1>1, <1>4, <2>1, <2>2 DEF ReadExisting, SyncTypeOK, Worker, Stays
<1>5. CASE GiveUp(w)
  BY <1>2, <1>5 DEF GiveUp, At
<1>6. CASE StorePage(w)
  BY <1>2, <1>6 DEF StorePage, At
<1>7. CASE FinishWriting(w)
  BY <1>2, <1>7 DEF FinishWriting, At
<1> QED BY <1>3, <1>4, <1>5, <1>6, <1>7

\* The runs a step closes: run r ends as status, the others stay.
Ends(r, status) ==
  /\ r \in DOMAIN runs /\ DOMAIN runs' = DOMAIN runs /\ runs' \in Seq(Run)
  /\ \A q \in DOMAIN runs \ {r} : runs'[q] = runs[q]
  /\ runs'[r].source = runs[r].source
  /\ runs'[r].updatesHealth = runs[r].updatesHealth
  /\ runs'[r].status = status

LEMMA EndingRun ==
  ASSUME SyncTypeOK, NEW r \in DOMAIN runs, NEW status \in {"completed", "failed"},
         NEW changed \in BOOLEAN,
         runs' = [runs EXCEPT ![r] =
                    [runs[r] EXCEPT !.status = status, !.changed = changed]]
  PROVE  Ends(r, status)
<1> DEFINE new == [runs[r] EXCEPT !.status = status, !.changed = changed]
<1>1. /\ Len(runs) \in Nat /\ DOMAIN runs = 1..Len(runs)
      /\ runs \in [1..Len(runs) -> Run] /\ runs[r] \in Run
  BY RunsAreIndexed
<1>2. new \in Run /\ new.source = runs[r].source /\ new.status = status
      /\ new.updatesHealth = runs[r].updatesHealth
  BY <1>1 DEF Run
<1> HIDE DEF new
<1>3. runs' = [runs EXCEPT ![r] = new]
  BY DEF new
<1>4. runs' \in [1..Len(runs) -> Run] /\ runs'[r] = new
      /\ DOMAIN runs' = DOMAIN runs
      /\ \A q \in DOMAIN runs \ {r} : runs'[q] = runs[q]
  BY <1>1, <1>2, <1>3
<1>5. runs' \in Seq(Run)
  BY <1>1, <1>4, SeqDef
<1> QED BY <1>2, <1>4, <1>5 DEF Ends

\* CommitSync and RollBack end the run of the process, which leaves.
LEMMA EndingStep ==
  ASSUME SyncTypeOK, WorkersInv, NEW w \in Workers
  PROVE  /\ CommitSync(w) => Ends(workers[w].run, "completed") /\ Leaves(w)
         /\ RollBack(w) => Ends(workers[w].run, "failed") /\ Leaves(w)
<1> DEFINE r == workers[w].run
<1>1. ASSUME CommitSync(w) \/ RollBack(w)
      PROVE  /\ r \in DOMAIN runs /\ runs[r] \in Run /\ workers[w].todo # <<>>
             /\ Changed(w) \in BOOLEAN
  <2>1. workers[w].at \in {"fail", "commit"}
    BY <1>1 DEF CommitSync, RollBack, At
  <2>2. r \in DOMAIN runs /\ workers[w].todo # <<>>
    BY <2>1 DEF WorkersInv, At
  <2> QED BY <2>2, RunsAreIndexed DEF Changed
<1>2. ASSUME CommitSync(w) PROVE Ends(r, "completed")
  <2> DEFINE changed == Changed(w)
  <2>1. runs' = [runs EXCEPT ![r].status = "completed", ![r].changed = changed]
    BY <1>2 DEF CommitSync
  <2>2. changed \in BOOLEAN /\ r \in DOMAIN runs /\ runs[r] \in Run
    BY <1>1, <1>2
  <2> HIDE DEF changed, r
  <2>3. runs' = [runs EXCEPT ![r] =
                   [runs[r] EXCEPT !.status = "completed", !.changed = changed]]
    BY <2>1, <2>2
  <2> QED BY <2>2, <2>3, EndingRun
<1>3. ASSUME RollBack(w) PROVE Ends(r, "failed")
  <2>1. runs' = [runs EXCEPT ![r].status = "failed"]
    BY <1>3 DEF RollBack, CloseRun
  <2>2. r \in DOMAIN runs /\ runs[r] \in Run
    BY <1>1, <1>3
  <2> HIDE DEF r
  <2>3. runs[r].changed \in BOOLEAN
        /\ [runs[r] EXCEPT !.status = "failed"]
             = [runs[r] EXCEPT !.status = "failed", !.changed = runs[r].changed]
    BY <2>2 DEF Run
  <2>4. runs' = [runs EXCEPT ![r] =
                   [runs[r] EXCEPT !.status = "failed", !.changed = runs[r].changed]]
    BY <2>1, <2>2, <2>3
  <2> QED BY <2>2, <2>3, <2>4, EndingRun
<1>4. ASSUME CommitSync(w) \/ RollBack(w) PROVE Leaves(w)
  BY <1>1, <1>4, LeavingStep DEF CommitSync, RollBack
<1> QED BY <1>2, <1>3, <1>4

\* A new run is appended, running.
LEMMA AppendingStep ==
  ASSUME SyncTypeOK, WorkersInv, NEW w \in Workers, BeginRun(w) \/ BeginInVain(w)
  PROVE  LET r == Len(runs) + 1
         IN  /\ runs' \in Seq(Run) /\ Len(runs') = r /\ r \in Nat \ {0}
             /\ r \notin DOMAIN runs /\ DOMAIN runs' = DOMAIN runs \cup {r}
             /\ \A q \in DOMAIN runs : runs'[q] = runs[q]
             /\ runs'[r].status = "running" /\ runs'[r].source = Item(w).source
             /\ workers[w].todo # <<>> /\ workers[w].run = 0
<1> DEFINE new == RunOf(Item(w))
<1>1. At(w, "next") /\ workers[w].todo # <<>> /\ runs' = Append(runs, new)
      /\ workers[w].run = 0
  BY DEF BeginRun, BeginInVain, CanBegin, WorkersInv, At
<1>2. new \in Run /\ new.status = "running" /\ new.source = Item(w).source
  <2>1. Item(w).source \in Sources
    BY <1>1, ItemType
  <2>2. (Item(w).kind = "entry") \in BOOLEAN
    OBVIOUS
  <2> QED BY <2>1, <2>2 DEF Run, RunOf
<1> HIDE DEF new
<1>3. runs \in Seq(Run) /\ Len(runs) \in Nat /\ DOMAIN runs = 1..Len(runs)
  BY RunsAreIndexed DEF SyncTypeOK
<1>4. /\ runs' \in Seq(Run) /\ Len(runs') = Len(runs) + 1
      /\ DOMAIN runs' = 1..(Len(runs) + 1)
      /\ \A q \in 1..Len(runs) : runs'[q] = runs[q]
      /\ runs'[Len(runs) + 1] = new
  BY <1>1, <1>2, <1>3
<1> QED BY <1>1, <1>2, <1>3, <1>4

LEMMA BeginningStep ==
  ASSUME SyncTypeOK, WorkersInv, NEW w \in Workers, BeginRun(w)
  PROVE  /\ workers' \in [Workers -> Worker]
         /\ \A v \in Workers \ {w} : workers'[v] = workers[v]
         /\ workers'[w].at = "fetch" /\ workers'[w].run = Len(runs) + 1
         /\ workers'[w].todo = workers[w].todo
         /\ workers'[w].existing = workers[w].existing
<1> DEFINE n == Len(runs) + 1
           me == [workers[w] EXCEPT !.at = "fetch", !.run = n]
<1>1. workers' = [workers EXCEPT ![w].at = "fetch", ![w].run = Len(runs')]
      /\ Len(runs') = n /\ n \in Nat
  BY AppendingStep DEF BeginRun
<1>2. workers[w] \in Worker
  BY DEF SyncTypeOK
<1> HIDE DEF n
<1>3. /\ me \in Worker /\ me.at = "fetch" /\ me.run = n /\ me.todo = workers[w].todo
      /\ me.existing = workers[w].existing
  BY <1>1, <1>2 DEF Worker
<1>4. workers' = [workers EXCEPT ![w] = me]
  BY <1>1
<1> HIDE DEF me
<1> QED BY <1>3, <1>4 DEF SyncTypeOK, n

\* Starting a job, skipping an item and giving up leave the process without a run.
LEMMA IdlingStep ==
  ASSUME SyncTypeOK, WorkersInv, NEW w \in Workers,
         \/ \E job \in Jobs : StartJob(w, job)
         \/ RejectItem(w) \/ ReuseExisting(w) \/ FailToBegin(w) \/ BeginInVain(w)
         \/ FailToClose(w) \/ Crash(w)
  PROVE  Leaves(w)
<1>1. ASSUME NEW job \in Jobs, StartJob(w, job) PROVE Leaves(w)
  <2> DEFINE me == [Idle EXCEPT !.at = "next", !.todo = job]
  <2>1. job \in Seq(Items) /\ job # <<>> /\ workers' = [workers EXCEPT ![w] = me]
    BY <1>1, CatalogueAssumption DEF StartJob
  <2>2. me \in Worker /\ me.at = "next" /\ me.run = 0 /\ me.page = None
        /\ me.existing = None /\ me.todo = job
    BY <2>1 DEF Idle, Worker
  <2> HIDE DEF me
  <2> QED BY <2>1, <2>2 DEF Leaves, SyncTypeOK
<1>2. ASSUME \/ RejectItem(w) \/ ReuseExisting(w) \/ FailToBegin(w) \/ BeginInVain(w)
             \/ FailToClose(w) \/ Crash(w)
      PROVE  Leaves(w)
  <2>1. workers[w].todo # <<>>
    BY <1>2 DEF RejectItem, ReuseExisting, FailToBegin, BeginInVain, CanBegin,
                FailToClose, Crash, WorkersInv, At
  <2> QED BY <1>2, <2>1, LeavingStep
          DEF RejectItem, ReuseExisting, FailToBegin, BeginInVain, FailToClose, Crash
<1> QED BY <1>1, <1>2

\* The processes keep runs of their own.
LEMMA WorkersStep ==
  SyncTypeOK /\ WorkersInv /\ [SyncNext]_syncVars => WorkersInv'
<1> SUFFICES ASSUME SyncTypeOK, WorkersInv, [SyncNext]_syncVars PROVE WorkersInv'
  OBVIOUS
<1>0. DOMAIN runs \subseteq Nat /\ 0 \notin DOMAIN runs
  BY RunsAreIndexed
<1>1. ASSUME NEW w \in Workers, Leaves(w), UNCHANGED givenUp,
             UNCHANGED runs \/ \E status : Ends(workers[w].run, status)
      PROVE  WorkersInv'
  <2>1. \A r \in DOMAIN runs \ {workers[w].run} : r \in DOMAIN runs' /\ runs'[r] = runs[r]
    BY <1>1 DEF Ends
  <2> QED BY <1>0, <1>1, <2>1 DEF Leaves, WorkersInv, At, Item
<1>2. ASSUME NEW w \in Workers, Stays(w), UNCHANGED <<runs, givenUp>> PROVE WorkersInv'
  BY <1>2 DEF Stays, WorkersInv, At, Item
<1>3. ASSUME NEW w \in Workers, BeginRun(w) PROVE WorkersInv'
  <2>1. givenUp' = givenUp
    BY <1>3 DEF BeginRun
  <2> QED BY <1>3, <2>1, AppendingStep, BeginningStep DEF WorkersInv, At, Item
<1>4. ASSUME NEW w \in Workers, BeginInVain(w) PROVE WorkersInv'
  <2>1. givenUp' = givenUp \cup {Len(runs) + 1} /\ Leaves(w)
    BY <1>4, AppendingStep, IdlingStep DEF BeginInVain
  <2> QED BY <1>0, <1>4, <2>1, AppendingStep DEF Leaves, WorkersInv, At, Item
<1>5. ASSUME NEW w \in Workers,
             \/ Fetch(w) \/ GiveUp(w) \/ ReadExisting(w) \/ StorePage(w)
             \/ FinishWriting(w)
      PROVE  WorkersInv'
  BY <1>2, <1>5, StayingStep
     DEF Fetch, GiveUp, ReadExisting, StorePage, FinishWriting
<1>6. ASSUME NEW w \in Workers,
             \/ \E job \in Jobs : StartJob(w, job)
             \/ RejectItem(w) \/ ReuseExisting(w) \/ FailToBegin(w)
      PROVE  WorkersInv'
  BY <1>1, <1>6, IdlingStep DEF StartJob, RejectItem, ReuseExisting, FailToBegin
<1>7. ASSUME NEW w \in Workers, FailToClose(w) \/ Crash(w) PROVE WorkersInv'
  <2>1. Leaves(w) /\ UNCHANGED runs
        /\ givenUp' \subseteq givenUp \cup ({workers[w].run} \ {0})
    <3>1. FailToClose(w) => workers[w].run # 0
      BY DEF FailToClose, At, WorkersInv
    <3> QED BY <1>7, <3>1, IdlingStep DEF FailToClose, Crash
  <2> QED BY <1>0, <2>1 DEF Leaves, WorkersInv, At, Item
<1>8. ASSUME NEW w \in Workers, CommitSync(w) \/ RollBack(w) PROVE WorkersInv'
  BY <1>1, <1>8, EndingStep DEF CommitSync, RollBack
<1>9. CASE UNCHANGED syncVars
  BY <1>9 DEF syncVars, WorkersInv, At, Item
<1> QED BY <1>3, <1>4, <1>5, <1>6, <1>7, <1>8, <1>9 DEF SyncNext, Work

\* The tables, the directory and the processes keep their shape
\* (source_connector.py).
THEOREM SyncTypeCorrect == SyncSpec => [](SyncTypeOK /\ WorkersInv)
<1>1. SyncInit => SyncTypeOK /\ WorkersInv
  <2> SUFFICES ASSUME SyncInit PROVE SyncTypeOK /\ WorkersInv
    OBVIOUS
  <2>1. Idle \in Worker
    BY DEF Idle, Worker
  <2>2. SyncTypeOK
    BY <2>1 DEF SyncInit, SyncTypeOK, HealthStates
  <2>3. givenUp = {} /\ \A w \in Workers : workers[w].at = "idle" /\ workers[w].run = 0
    BY DEF SyncInit, Idle
  <2> QED BY <2>2, <2>3 DEF WorkersInv, At
<1>2. SyncTypeOK /\ WorkersInv /\ [SyncNext]_syncVars => SyncTypeOK'
  <2> SUFFICES ASSUME SyncTypeOK, WorkersInv, [SyncNext]_syncVars PROVE SyncTypeOK'
    OBVIOUS
  <2>1. ASSUME NEW w \in Workers, NEW job \in Jobs, StartJob(w, job)
        PROVE  SyncTypeOK'
    <3>1. workers' \in [Workers -> Worker]
      BY <2>1, IdlingStep DEF Leaves
    <3> QED BY <2>1, <3>1
            DEF StartJob, SeedSourceRegistry, SyncTypeOK, HealthStates
  <2>2. ASSUME NEW w \in Workers, RejectItem(w) \/ ReuseExisting(w) \/ FailToBegin(w)
        PROVE  SyncTypeOK'
    <3>1. workers' \in [Workers -> Worker]
      BY <2>2, IdlingStep DEF Leaves
    <3> QED BY <2>2, <3>1 DEF RejectItem, ReuseExisting, FailToBegin, SyncTypeOK
  <2>3. ASSUME NEW w \in Workers, FailToClose(w) \/ Crash(w) PROVE SyncTypeOK'
    <3>1. workers' \in [Workers -> Worker]
      BY <2>3, IdlingStep DEF Leaves
    <3>2. givenUp' \subseteq DOMAIN runs
      BY <2>3 DEF FailToClose, Crash, At, WorkersInv, SyncTypeOK
    <3> QED BY <2>3, <3>1, <3>2 DEF FailToClose, Crash, SyncTypeOK
  <2>4. ASSUME NEW w \in Workers, BeginRun(w) \/ BeginInVain(w) PROVE SyncTypeOK'
    <3>1. workers' \in [Workers -> Worker]
      BY <2>4, BeginningStep, IdlingStep DEF Leaves
    <3>2. givenUp' \subseteq DOMAIN runs'
      BY <2>4, AppendingStep DEF BeginRun, BeginInVain, SyncTypeOK
    <3> QED BY <2>4, <3>1, <3>2, AppendingStep DEF BeginRun, BeginInVain, SyncTypeOK
  <2>5. ASSUME NEW w \in Workers, Fetch(w) \/ GiveUp(w) \/ ReadExisting(w)
        PROVE  SyncTypeOK'
    <3>1. workers' \in [Workers -> Worker]
      BY <2>5, StayingStep DEF Stays
    <3> QED BY <2>5, <3>1 DEF Fetch, GiveUp, ReadExisting, SyncTypeOK
  <2>6. ASSUME NEW w \in Workers, StorePage(w) \/ FinishWriting(w)
        PROVE  SyncTypeOK'
    <3>1. workers' \in [Workers -> Worker]
      BY <2>6, StayingStep DEF Stays
    <3>2. files' \in [Files -> {"absent", "torn", "whole"}]
      BY <2>6 DEF StorePage, FinishWriting, SyncTypeOK
    <3> QED BY <2>6, <3>1, <3>2 DEF StorePage, FinishWriting, SyncTypeOK
  <2>7. ASSUME NEW w \in Workers, CommitSync(w) PROVE SyncTypeOK'
    <3> DEFINE row == [text |-> NewText(w), ref |-> StorageRef(w)]
               u == workers[w].page.url
               s == Item(w).source
    <3>1. workers[w].todo # <<>> /\ workers[w].page # None
      BY <2>7 DEF CommitSync, At, WorkersInv
    <3>2. row \in Document /\ u \in Urls /\ s \in Sources
      BY <3>1, PageType, ItemType DEF Document
    <3>3. documents' = [documents EXCEPT ![u] = row]
          /\ discoveries' = [discoveries EXCEPT ![u][s] = workers[w].run]
          /\ health' \in {health, [health EXCEPT ![s] = "active"]}
          /\ UNCHANGED files
      BY <2>7 DEF CommitSync, Discovered
    <3>4. workers[w].run \in Nat
      BY DEF SyncTypeOK, Worker
    <3> HIDE DEF row, u, s
    <3>5. /\ documents' \in [Urls -> Document \cup {None}]
          /\ discoveries' \in [Urls -> [Sources -> Nat]]
          /\ health' \in [Sources -> HealthStates]
      BY <3>2, <3>3, <3>4 DEF SyncTypeOK, HealthStates
    <3> QED BY <2>7, <3>3, <3>5, EndingStep DEF CommitSync, SyncTypeOK, Ends, Leaves
  <2>8. ASSUME NEW w \in Workers, RollBack(w) PROVE SyncTypeOK'
    <3>1. health' \in [Sources -> HealthStates]
      BY <2>8 DEF RollBack, SyncTypeOK, HealthStates, AfterFailure
    <3> QED BY <2>8, <3>1, EndingStep DEF RollBack, SyncTypeOK, Ends, Leaves
  <2>9. CASE UNCHANGED syncVars
    BY <2>9 DEF syncVars, SyncTypeOK
  <2> QED BY <2>1, <2>2, <2>3, <2>4, <2>5, <2>6, <2>7, <2>8, <2>9 DEF SyncNext, Work
<1> QED BY <1>1, <1>2, WorkersStep, PTL DEF SyncSpec

-----------------------------------------------------------------------------
(* What the tables say of one another.                                      *)

\* A run that is still running stays with its process until it is closed or
\* given up.
LEMMA ClosingStep ==
  SyncTypeOK /\ WorkersInv /\ RunsAreClosed /\ [SyncNext]_syncVars => RunsAreClosed'
<1> SUFFICES ASSUME SyncTypeOK, WorkersInv, RunsAreClosed, [SyncNext]_syncVars
             PROVE  RunsAreClosed'
  OBVIOUS
<1>0. DOMAIN runs \subseteq Nat /\ 0 \notin DOMAIN runs
  BY RunsAreIndexed
<1>1. ASSUME NEW w \in Workers, CommitSync(w) \/ RollBack(w) PROVE RunsAreClosed'
  <2>1. /\ Leaves(w) /\ UNCHANGED givenUp
        /\ Ends(workers[w].run, "completed") \/ Ends(workers[w].run, "failed")
    BY <1>1, EndingStep DEF CommitSync, RollBack
  <2>2. workers[w].run # 0
    BY <1>0, <2>1 DEF Ends
  <2>3. workers[w].run \notin givenUp
        /\ \A v \in Workers \ {w} : workers[v].run # workers[w].run
    BY <2>2 DEF WorkersInv
  <2> QED BY <1>0, <2>1, <2>3 DEF Leaves, Ends, RunsAreClosed
<1>2. ASSUME NEW w \in Workers,
             \/ \E job \in Jobs : StartJob(w, job)
             \/ RejectItem(w) \/ ReuseExisting(w) \/ FailToBegin(w)
      PROVE  RunsAreClosed'
  <2>1. workers[w].run = 0 /\ UNCHANGED <<runs, givenUp>>
    BY <1>2 DEF StartJob, RejectItem, ReuseExisting, FailToBegin, CanBegin, At, WorkersInv
  <2>2. Leaves(w)
    BY <1>2, IdlingStep
  <2> QED BY <1>0, <2>1, <2>2 DEF Leaves, RunsAreClosed
<1>3. ASSUME NEW w \in Workers, FailToClose(w) \/ Crash(w) PROVE RunsAreClosed'
  <2>1. Leaves(w) /\ UNCHANGED runs
        /\ givenUp' = givenUp \cup ({workers[w].run} \ {0})
    <3>1. FailToClose(w) => workers[w].run # 0
      BY DEF FailToClose, At, WorkersInv
    <3> QED BY <1>3, <3>1, IdlingStep DEF FailToClose, Crash
  <2> QED BY <1>0, <2>1 DEF Leaves, RunsAreClosed
<1>4. ASSUME NEW w \in Workers,
             \/ Fetch(w) \/ GiveUp(w) \/ ReadExisting(w) \/ StorePage(w)
             \/ FinishWriting(w)
      PROVE  RunsAreClosed'
  <2>1. Stays(w) /\ UNCHANGED <<runs, givenUp>>
    BY <1>4, StayingStep DEF Fetch, GiveUp, ReadExisting, StorePage, FinishWriting
  <2> QED BY <2>1 DEF Stays, RunsAreClosed
<1>5. ASSUME NEW w \in Workers, BeginRun(w) PROVE RunsAreClosed'
  <2>1. givenUp' = givenUp
    BY <1>5 DEF BeginRun
  <2> QED BY <1>0, <1>5, <2>1, AppendingStep, BeginningStep DEF RunsAreClosed
<1>6. ASSUME NEW w \in Workers, BeginInVain(w) PROVE RunsAreClosed'
  <2>1. givenUp' = givenUp \cup {Len(runs) + 1} /\ Leaves(w)
    BY <1>6, AppendingStep, IdlingStep DEF BeginInVain
  <2> QED BY <1>0, <1>6, <2>1, AppendingStep DEF Leaves, RunsAreClosed
<1>7. CASE UNCHANGED syncVars
  BY <1>7 DEF syncVars, RunsAreClosed
<1> QED BY <1>1, <1>2, <1>3, <1>4, <1>5, <1>6, <1>7 DEF SyncNext, Work

\* Only CommitSync and RollBack end a run; a new run has not ended.
LEMMA EndedGrows ==
  ASSUME SyncTypeOK, WorkersInv, NEW w \in Workers, NEW s \in Sources
  PROVE  /\ \A status \in {"completed", "failed"} :
              Ends(workers[w].run, status) /\ runs[workers[w].run].status = "running" =>
                /\ Ended(s, status)' = Ended(s, status) \cup
                     (IF runs[workers[w].run].source = s /\ runs[workers[w].run].updatesHealth
                      THEN {workers[w].run} ELSE {})
                /\ \A other \in {"completed", "failed"} \ {status} :
                     Ended(s, other)' = Ended(s, other)
         /\ BeginRun(w) \/ BeginInVain(w) => \A status \in {"completed", "failed"} :
              Ended(s, status)' = Ended(s, status)
<1> DEFINE r == workers[w].run
<1>1. ASSUME NEW status \in {"completed", "failed"}, Ends(r, status),
             runs[r].status = "running"
      PROVE  /\ Ended(s, status)' = Ended(s, status) \cup
                  (IF runs[r].source = s /\ runs[r].updatesHealth THEN {r} ELSE {})
             /\ \A other \in {"completed", "failed"} \ {status} :
                  Ended(s, other)' = Ended(s, other)
  BY <1>1 DEF Ends, Ended
<1>2. ASSUME BeginRun(w) \/ BeginInVain(w), NEW status \in {"completed", "failed"}
      PROVE  Ended(s, status)' = Ended(s, status)
  BY <1>2, AppendingStep DEF Ended
<1> QED BY <1>1, <1>2

\* The connection status follows the runs.
LEMMA HealthStep ==
  SyncTypeOK /\ WorkersInv /\ HealthMatchesRuns /\ [SyncNext]_syncVars
    => HealthMatchesRuns'
<1> SUFFICES ASSUME SyncTypeOK, WorkersInv, HealthMatchesRuns, [SyncNext]_syncVars,
                    NEW s \in Sources
             PROVE  /\ health'[s] \in {"active", "degraded"} <=> Ended(s, "completed")' # {}
                    /\ health'[s] \in {"failed", "degraded"} => Ended(s, "failed")' # {}
                    /\ health'[s] \in {"pending", "unregistered"} => Ended(s, "failed")' = {}
  BY DEF HealthMatchesRuns
<1> DEFINE Goal == /\ health'[s] \in {"active", "degraded"} <=> Ended(s, "completed")' # {}
                   /\ health'[s] \in {"failed", "degraded"} => Ended(s, "failed")' # {}
                   /\ health'[s] \in {"pending", "unregistered"} => Ended(s, "failed")' = {}
<1>1. CASE UNCHANGED <<health, runs>>
  BY <1>1 DEF HealthMatchesRuns, Ended
<1>2. ASSUME NEW w \in Workers, NEW job \in Jobs, StartJob(w, job) PROVE Goal
  <2>1. UNCHANGED runs
        /\ health'[s] = IF health[s] = "unregistered" THEN "pending" ELSE health[s]
    BY <1>2 DEF StartJob, SeedSourceRegistry
  <2> QED BY <2>1 DEF HealthMatchesRuns, Ended
<1>3. ASSUME NEW w \in Workers, BeginRun(w) \/ BeginInVain(w) PROVE Goal
  <2>1. health' = health
    BY <1>3 DEF BeginRun, BeginInVain
  <2> QED BY <1>3, <2>1, EndedGrows DEF HealthMatchesRuns
<1>4. ASSUME NEW w \in Workers, CommitSync(w) PROVE Goal
  <2> DEFINE r == workers[w].run
  <2>1. /\ Ends(r, "completed") /\ runs[r].status = "running"
        /\ runs[r].source = Item(w).source
    BY <1>4, EndingStep DEF CommitSync, At, WorkersInv
  <2>2. health' = IF runs[r].updatesHealth
                  THEN [health EXCEPT ![Item(w).source] = "active"] ELSE health
    BY <1>4 DEF CommitSync
  <2>3. /\ Ended(s, "completed")' = Ended(s, "completed") \cup
                  (IF runs[r].source = s /\ runs[r].updatesHealth THEN {r} ELSE {})
        /\ Ended(s, "failed")' = Ended(s, "failed")
    BY <2>1, EndedGrows
  <2> HIDE DEF r
  <2>4. CASE runs[r].source = s /\ runs[r].updatesHealth
    <3>1. health'[s] = "active"
      BY <2>1, <2>2, <2>4 DEF SyncTypeOK
    <3> QED BY <2>3, <2>4, <3>1
  <2>5. CASE ~(runs[r].source = s /\ runs[r].updatesHealth)
    <3>1. health'[s] = health[s]
      BY <2>1, <2>2, <2>5 DEF SyncTypeOK
    <3> QED BY <2>3, <2>5, <3>1 DEF HealthMatchesRuns
  <2> QED BY <2>4, <2>5
<1>5. ASSUME NEW w \in Workers, RollBack(w) PROVE Goal
  <2> DEFINE r == workers[w].run
  <2>1. /\ Ends(r, "failed") /\ runs[r].status = "running"
        /\ runs[r].source = Item(w).source
    BY <1>5, EndingStep DEF RollBack, At, WorkersInv
  <2>2. health' = IF runs[r].updatesHealth
                  THEN [health EXCEPT ![Item(w).source]
                          = AfterFailure(health[Item(w).source])] ELSE health
    BY <1>5 DEF RollBack
  <2>3. /\ Ended(s, "failed")' = Ended(s, "failed") \cup
                  (IF runs[r].source = s /\ runs[r].updatesHealth THEN {r} ELSE {})
        /\ Ended(s, "completed")' = Ended(s, "completed")
    BY <2>1, EndedGrows
  <2> HIDE DEF r
  <2>4. CASE runs[r].source = s /\ runs[r].updatesHealth
    <3>1. health'[s] = AfterFailure(health[s])
      BY <2>1, <2>2, <2>4 DEF SyncTypeOK
    <3> QED BY <2>3, <2>4, <3>1 DEF HealthMatchesRuns, AfterFailure
  <2>5. CASE ~(runs[r].source = s /\ runs[r].updatesHealth)
    <3>1. health'[s] = health[s]
      BY <2>1, <2>2, <2>5 DEF SyncTypeOK
    <3> QED BY <2>3, <2>5, <3>1 DEF HealthMatchesRuns
  <2> QED BY <2>4, <2>5
<1> QED BY <1>1, <1>2, <1>3, <1>4, <1>5
        DEF SyncNext, Work, syncVars, RejectItem, ReuseExisting, Fetch, GiveUp,
            ReadExisting, StorePage, FinishWriting, FailToBegin, FailToClose, Crash

\* Documents and discoveries are written by the transaction that completes a run.
LEMMA ProvenanceStep ==
  SyncTypeOK /\ WorkersInv /\ ProvenanceIsComplete /\ [SyncNext]_syncVars
    => ProvenanceIsComplete'
<1> SUFFICES ASSUME SyncTypeOK, WorkersInv, ProvenanceIsComplete, [SyncNext]_syncVars
             PROVE  ProvenanceIsComplete'
  OBVIOUS
<1>1. CASE UNCHANGED <<documents, discoveries, runs>>
  BY <1>1 DEF ProvenanceIsComplete, DocumentsOf
<1>2. ASSUME NEW w \in Workers, BeginRun(w) \/ BeginInVain(w) PROVE ProvenanceIsComplete'
  <2>1. UNCHANGED <<documents, discoveries>>
    BY <1>2 DEF BeginRun, BeginInVain
  <2>2. \A s \in Sources : DocumentsOf(s)' = DocumentsOf(s)
    BY <2>1 DEF DocumentsOf
  <2>3. \A r \in DOMAIN runs' : runs'[r].status = "completed" =>
          r \in DOMAIN runs /\ runs[r].status = "completed" /\ runs'[r] = runs[r]
    BY <1>2, AppendingStep
  <2>4. \A r \in DOMAIN runs : r \in DOMAIN runs' /\ runs'[r] = runs[r]
    BY <1>2, AppendingStep
  <2> QED BY <2>1, <2>2, <2>3, <2>4 DEF ProvenanceIsComplete, DocumentsOf
<1>3. ASSUME NEW w \in Workers, RollBack(w) PROVE ProvenanceIsComplete'
  <2> DEFINE run == workers[w].run
  <2>1. UNCHANGED <<documents, discoveries>>
    BY <1>3 DEF RollBack
  <2>2. Ends(run, "failed") /\ runs[run].status = "running"
    BY <1>3, EndingStep DEF RollBack, At, WorkersInv
  <2> HIDE DEF run
  <2>3. \A r \in DOMAIN runs : runs[r].status = "completed" \/ runs'[r].status = "completed"
          => r \in DOMAIN runs' /\ runs'[r] = runs[r]
    BY <2>2 DEF Ends
  <2> QED BY <2>1, <2>2, <2>3 DEF ProvenanceIsComplete, DocumentsOf, Ends
<1>4. ASSUME NEW w \in Workers, CommitSync(w) PROVE ProvenanceIsComplete'
  <2> DEFINE run == workers[w].run
             u == workers[w].page.url
             s == Item(w).source
             row == [text |-> NewText(w), ref |-> StorageRef(w)]
  <2>1. workers[w].todo # <<>> /\ workers[w].page # None
        /\ runs[run].status = "running" /\ runs[run].source = s
    BY <1>4 DEF CommitSync, At, WorkersInv
  <2>2. u \in Urls /\ s \in Sources /\ row \in Document
    BY <2>1, PageType, ItemType DEF Document
  <2>3. row # None
    BY <2>2, CatalogueAssumption
  <2>4. Ends(run, "completed")
    BY <1>4, EndingStep
  <2>5. run \in Nat \ {0}
    BY <2>4, RunsAreIndexed DEF Ends
  <2>6. documents' = [documents EXCEPT ![u] = row]
        /\ discoveries' = [discoveries EXCEPT ![u][s] = run]
    BY <1>4 DEF CommitSync, Discovered
  <2> HIDE DEF run, u, s, row
  <2>7. /\ documents'[u] # None
        /\ \A v \in Urls \ {u} : documents'[v] = documents[v]
        /\ discoveries'[u][s] = run
        /\ \A v \in Urls, t \in Sources :
             v # u \/ t # s => discoveries'[v][t] = discoveries[v][t]
    BY <2>2, <2>3, <2>6 DEF SyncTypeOK
  <2>8. \A t \in Sources :
          DocumentsOf(t)' = IF t = s THEN DocumentsOf(t) \cup {u} ELSE DocumentsOf(t)
    BY <2>2, <2>5, <2>7 DEF DocumentsOf
  <2>9. \A v \in Urls : documents'[v] # None <=> \E t \in Sources : v \in DocumentsOf(t)'
    BY <2>2, <2>7, <2>8 DEF ProvenanceIsComplete
  <2>10. \A t \in Sources : \A v \in DocumentsOf(t)' :
           /\ discoveries'[v][t] \in DOMAIN runs'
           /\ runs'[discoveries'[v][t]].source = t
           /\ runs'[discoveries'[v][t]].status = "completed"
    <3> SUFFICES ASSUME NEW t \in Sources, NEW v \in DocumentsOf(t)'
                 PROVE  /\ discoveries'[v][t] \in DOMAIN runs'
                        /\ runs'[discoveries'[v][t]].source = t
                        /\ runs'[discoveries'[v][t]].status = "completed"
      OBVIOUS
    <3>1. CASE v = u /\ t = s
      BY <2>1, <2>4, <2>7, <3>1 DEF Ends
    <3>2. CASE v # u \/ t # s
      <4>1. v \in DocumentsOf(t) /\ v \in Urls
        BY <2>8, <3>2 DEF DocumentsOf
      <4>2. discoveries'[v][t] = discoveries[v][t] /\ discoveries[v][t] \in DOMAIN runs
            /\ runs[discoveries[v][t]].source = t
            /\ runs[discoveries[v][t]].status = "completed"
        BY <2>7, <3>2, <4>1 DEF ProvenanceIsComplete
      <4> QED BY <2>1, <2>4, <4>2 DEF Ends
    <3> QED BY <3>1, <3>2
  <2>11. \A r \in DOMAIN runs' : runs'[r].status = "completed" =>
           \E v \in Urls : discoveries'[v][runs'[r].source] # 0
    <3> SUFFICES ASSUME NEW r \in DOMAIN runs', runs'[r].status = "completed"
                 PROVE  \E v \in Urls : discoveries'[v][runs'[r].source] # 0
      OBVIOUS
    <3>1. CASE r = run
      BY <2>1, <2>2, <2>4, <2>5, <2>7, <3>1 DEF Ends
    <3>2. CASE r # run
      <4>1. r \in DOMAIN runs /\ runs'[r] = runs[r] /\ runs[r].source \in Sources
        BY <2>4, <3>2, RunsAreIndexed DEF Ends, Run
      <4>2. PICK v \in Urls : discoveries[v][runs[r].source] # 0
        BY <4>1 DEF ProvenanceIsComplete, DocumentsOf
      <4>3. discoveries'[v][runs[r].source] # 0
        BY <2>2, <2>5, <2>7, <4>1, <4>2
      <4> QED BY <4>1, <4>2, <4>3
    <3> QED BY <3>1, <3>2
  <2> QED BY <2>9, <2>10, <2>11 DEF ProvenanceIsComplete, DocumentsOf
<1> QED BY <1>1, <1>2, <1>3, <1>4
        DEF SyncNext, Work, syncVars, StartJob, RejectItem, ReuseExisting, Fetch, GiveUp,
            ReadExisting, StorePage, FinishWriting, FailToBegin, FailToClose, Crash

\* A file that is there stays there.
LEMMA FilesStay ==
  ASSUME SyncTypeOK, [SyncNext]_syncVars, NEW f \in Files, files[f] # "absent"
  PROVE  files'[f] # "absent"
<1>1. ASSUME NEW w \in Workers, StorePage(w) \/ FinishWriting(w)
      PROVE  files'[f] # "absent"
  BY <1>1 DEF StorePage, FinishWriting, SyncTypeOK
<1>2. CASE UNCHANGED files
  BY <1>2
<1> QED BY <1>1, <1>2
        DEF SyncNext, Work, syncVars, StartJob, BeginRun, RejectItem, ReuseExisting,
            Fetch, GiveUp, ReadExisting, CommitSync, RollBack, FailToBegin, BeginInVain,
            FailToClose, Crash

\* So a row that is sound stays sound.
LEMMA RowsStaySound ==
  ASSUME SyncTypeOK, [SyncNext]_syncVars, NEW row \in Document, Sound(files, row)
  PROVE  Sound(files', row)
BY FilesStay DEF Sound, Document

\* A process that keeps its item and its page keeps what it knows of them.
LEMMA PagesStep ==
  SyncTypeOK /\ WorkersInv /\ PagesInv /\ StoredPageMatches /\ [SyncNext]_syncVars
    => PagesInv'
<1> SUFFICES ASSUME SyncTypeOK, WorkersInv, PagesInv, StoredPageMatches,
                    [SyncNext]_syncVars
             PROVE  PagesInv'
  OBVIOUS
<1> DEFINE Held(v) == /\ workers'[v].existing # None => Sound(files', workers'[v].existing)
                      /\ workers'[v].at \in {"writing", "commit"} /\ Changed(v)' =>
                           files'[MyFile(v)'] # "absent"
<1>1. ASSUME NEW v \in Workers, workers'[v] = workers[v] PROVE Held(v)
  <2>1. workers'[v].existing # None => Sound(files', workers'[v].existing)
    <3>1. workers[v].existing \in Document \cup {None}
      BY DEF SyncTypeOK, Worker
    <3> QED BY <1>1, <3>1, RowsStaySound DEF PagesInv, Sound
  <2>2. ASSUME workers'[v].at \in {"writing", "commit"}, Changed(v)'
        PROVE  files'[MyFile(v)'] # "absent"
    <3>1. workers[v].at \in {"writing", "commit"} /\ Changed(v)
          /\ MyFile(v)' = MyFile(v)
      BY <1>1, <2>2 DEF Changed, NewText, MyFile, Item
    <3>2. files[MyFile(v)] # "absent" /\ MyFile(v) \in Files
      BY <3>1, PageType DEF PagesInv, WorkersInv, At
    <3> QED BY <3>1, <3>2, FilesStay
  <2> QED BY <2>1, <2>2
<1>2. ASSUME NEW w \in Workers, \A v \in Workers \ {w} : workers'[v] = workers[v], Held(w)
      PROVE  PagesInv'
  BY <1>1, <1>2 DEF PagesInv
<1>3. ASSUME NEW w \in Workers, Leaves(w) PROVE PagesInv'
  BY <1>2, <1>3 DEF Leaves
<1>4. ASSUME NEW w \in Workers, BeginRun(w) PROVE PagesInv'
  <2>1. workers'[w].existing = workers[w].existing /\ workers'[w].at = "fetch"
        /\ \A v \in Workers \ {w} : workers'[v] = workers[v]
    BY <1>4, BeginningStep
  <2>2. workers'[w].existing # None => Sound(files', workers'[w].existing)
    <3>1. workers[w].existing \in Document \cup {None}
      BY DEF SyncTypeOK, Worker
    <3> QED BY <2>1, <3>1, RowsStaySound DEF PagesInv, Sound
  <2> QED BY <1>2, <2>1, <2>2
<1>5. ASSUME NEW w \in Workers, Stays(w), workers'[w].existing = workers[w].existing,
             workers'[w].at \in {"writing", "commit"} /\ Changed(w)' =>
               files'[MyFile(w)'] # "absent"
      PROVE  PagesInv'
  <2>1. workers'[w].existing # None => Sound(files', workers'[w].existing)
    <3>1. workers[w].existing \in Document \cup {None}
      BY DEF SyncTypeOK, Worker
    <3> QED BY <1>5, <3>1, RowsStaySound DEF PagesInv, Sound
  <2> QED BY <1>2, <1>5, <2>1 DEF Stays
<1>6. ASSUME NEW w \in Workers, Fetch(w) \/ GiveUp(w) PROVE PagesInv'
  <2>1. workers'[w].existing = workers[w].existing /\ workers'[w].at \in {"read", "fail"}
    BY <1>6 DEF Fetch, GiveUp, Goto, SyncTypeOK, Worker
  <2> QED BY <1>5, <1>6, <2>1, StayingStep
<1>7. ASSUME NEW w \in Workers, ReadExisting(w) PROVE PagesInv'
  <2>1. workers'[w].existing = documents[workers[w].page.url]
        /\ workers'[w].at = "store" /\ UNCHANGED files
    BY <1>7 DEF ReadExisting, SyncTypeOK, Worker
  <2>2. workers[w].page.url \in Urls
    BY <1>7, PageType DEF ReadExisting, At, WorkersInv
  <2>3. workers'[w].existing # None => Sound(files', workers'[w].existing)
    BY <2>1, <2>2 DEF StoredPageMatches, Sound
  <2> QED BY <1>2, <1>7, <2>1, <2>3, StayingStep DEF Stays
<1>8. ASSUME NEW w \in Workers, StorePage(w) \/ FinishWriting(w) PROVE PagesInv'
  <2>1. /\ workers'[w].existing = workers[w].existing
        /\ workers'[w].page = workers[w].page /\ workers'[w].todo = workers[w].todo
    BY <1>8 DEF StorePage, FinishWriting, Goto, SyncTypeOK, Worker
  <2>2. MyFile(w)' = MyFile(w) /\ Changed(w)' = Changed(w)
    BY <2>1 DEF MyFile, Item, Changed, NewText
  <2>3. MyFile(w) \in Files
    BY <1>8, PageType DEF StorePage, FinishWriting, At, WorkersInv
  <2>4. Changed(w) => files'[MyFile(w)] # "absent"
    BY <1>8, <2>3 DEF StorePage, FinishWriting, SyncTypeOK
  <2> QED BY <1>5, <1>8, <2>1, <2>2, <2>4, StayingStep
<1>9. CASE UNCHANGED syncVars
  BY <1>1, <1>9 DEF syncVars, PagesInv
<1> QED BY <1>3, <1>4, <1>6, <1>7, <1>8, <1>9, IdlingStep, EndingStep DEF SyncNext, Work

\* What a transaction writes into documents is sound.
LEMMA StoredStep ==
  SyncTypeOK /\ WorkersInv /\ PagesInv /\ StoredPageMatches /\ [SyncNext]_syncVars
    => StoredPageMatches'
<1> SUFFICES ASSUME SyncTypeOK, WorkersInv, PagesInv, StoredPageMatches,
                    [SyncNext]_syncVars, NEW u \in Urls, documents'[u] # None
             PROVE  Sound(files', documents'[u])
  BY DEF StoredPageMatches, Sound
<1>1. CASE documents'[u] = documents[u]
  <2>1. documents[u] \in Document /\ Sound(files, documents[u])
    BY <1>1 DEF SyncTypeOK, StoredPageMatches, Sound
  <2> QED BY <1>1, <2>1, RowsStaySound DEF Sound
<1>2. ASSUME NEW w \in Workers, CommitSync(w), u = workers[w].page.url
      PROVE  Sound(files', documents'[u])
  <2> DEFINE row == [text |-> NewText(w), ref |-> StorageRef(w)]
  <2>1. workers[w].at = "commit" /\ workers[w].todo # <<>> /\ workers[w].page # None
    BY <1>2 DEF CommitSync, At, WorkersInv
  <2>2. documents'[u] = row /\ UNCHANGED files
    BY <1>2 DEF CommitSync, SyncTypeOK
  <2>3. Sound(files, row)
    <3>1. CASE Changed(w)
      <4>1. row.ref = MyFile(w) /\ files[MyFile(w)] # "absent"
        BY <2>1, <3>1 DEF StorageRef, PagesInv
      <4> QED BY <2>1, <4>1, PageType DEF Sound
    <3>2. CASE ~Changed(w)
      <4>1. row.ref = workers[w].existing.ref /\ row.text = workers[w].existing.text
            /\ workers[w].existing # None
        BY <3>2 DEF StorageRef, Changed
      <4> QED BY <4>1 DEF Sound, PagesInv
    <3> QED BY <3>1, <3>2
  <2> QED BY <2>2, <2>3 DEF Sound
<1>3. ASSUME NEW w \in Workers, CommitSync(w), u # workers[w].page.url
      PROVE  documents'[u] = documents[u]
  BY <1>3 DEF CommitSync, SyncTypeOK
<1> QED BY <1>1, <1>2, <1>3
        DEF SyncNext, Work, syncVars, StartJob, BeginRun, RejectItem, ReuseExisting,
            Fetch, GiveUp, ReadExisting, StorePage, FinishWriting, RollBack, FailToBegin,
            BeginInVain, FailToClose, Crash

LEMMA SyncInvInit == SyncInit => SyncInv
<1> SUFFICES ASSUME SyncInit PROVE SyncInv
  OBVIOUS
<1>1. \A w \in Workers : /\ workers[w].at = "idle" /\ workers[w].run = 0
                         /\ workers[w].existing = None
  BY DEF SyncInit, Idle
<1>2. DOMAIN runs = {} /\ givenUp = {}
  BY DEF SyncInit
<1> QED BY <1>1, <1>2
        DEF SyncInit, SyncInv, WorkersInv, PagesInv, HealthMatchesRuns, Ended,
            ProvenanceIsComplete, DocumentsOf, StoredPageMatches, RunsAreClosed, At

LEMMA SyncInvStep == SyncTypeOK /\ SyncInv /\ [SyncNext]_syncVars => SyncInv'
BY WorkersStep, PagesStep, HealthStep, ProvenanceStep, StoredStep, ClosingStep DEF SyncInv

LEMMA SyncInvariant == SyncSpec => []SyncInv
BY SyncInvInit, SyncInvStep, SyncTypeCorrect, PTL DEF SyncSpec

\* No path through a job forgets the run it opened or ends another one: a run is
\* shown as running as long as a process works on it, or if it was given up - by
\* a kill, or by a database that refused to save how it began or ended
\* (_sync_source_page, fetch_reviewed_batch).
THEOREM NoRunIsForgotten == SyncSpec => []RunsAreClosed
<1>1. SyncInv => RunsAreClosed
  BY DEF SyncInv
<1> QED BY <1>1, SyncInvariant, PTL

\* The connection status of a source is what its runs justify, however many
\* processes sync it (_sync_source_page, ADR 0010).
THEOREM HealthIsEarned == SyncSpec => []HealthMatchesRuns
<1>1. SyncInv => HealthMatchesRuns
  BY DEF SyncInv
<1> QED BY <1>1, SyncInvariant, PTL

\* A document and the run it was found by are committed together
\* (_sync_source_page).
THEOREM EveryPageHasASource == SyncSpec => []ProvenanceIsComplete
<1>1. SyncInv => ProvenanceIsComplete
  BY DEF SyncInv
<1> QED BY <1>1, SyncInvariant, PTL

\* Whichever process wrote a row last, its hash is that of a page on disk
\* (_write_raw_page, _sync_source_page).
THEOREM RowsMatchPages == SyncSpec => []StoredPageMatches
<1>1. SyncInv => StoredPageMatches
  BY DEF SyncInv
<1> QED BY <1>1, SyncInvariant, PTL

-----------------------------------------------------------------------------
(* The refresh after a response.                                            *)

\* What is due and what is over is the same.
LEMMA DueIsOver ==
  ASSUME NEW e \in Events, NEW t \in Int
  PROVE  /\ Due(e, t) \subseteq SourceIds
         /\ \A s : s \in Due(e, t) <=> PeriodIsOver(s, e, t)
<1>1. Related[e] \subseteq SourceIds
  BY RefreshAssumption
<1>2. ASSUME NEW s \in Related[e], Crawled[s] # Never
      PROVE  t - Crawled[s] >= 2 * Frequency[s] <=> Crawled[s] + 2 * Frequency[s] <= t
  <2>1. Crawled[s] \in Int /\ Frequency[s] \in Nat
    BY <1>1, <1>2, RefreshAssumption
  <2> QED BY <2>1
<1> QED BY <1>1, <1>2 DEF Due, IsDue, PeriodIsOver

\* The first of some sources is one of them.
LEMMA FirstIsIn == ASSUME NEW S, S # {} PROVE FirstOf(S) \in S
BY DEF FirstOf

\* What a request stands for, wherever it stands.
KeyOf(r, s) == <<s, r.event, Day(r.now)>>

RequestInv(t) ==
  LET r == requests[t]
  IN  /\ r.at # "idle" => r.event \in Events
      /\ r.at \in {"idle", "answered"} => r.due = {} /\ r.fresh = {}
      /\ r.at = "check" => r.due # {}
      /\ r.at \in {"add", "append"} => r.due = {} /\ r.fresh # {}
      /\ r.at = "append" => KeyOf(r, FirstOf(r.fresh)) \in triggered
      /\ r.at # "idle" => \A s \in SourceIds :
           /\ s \in r.due \cup r.fresh => PeriodIsOver(s, r.event, r.now)
           /\ PeriodIsOver(s, r.event, r.now) =>
                s \in r.due \cup r.fresh \/ KeyOf(r, s) \in triggered
      /\ r.since <= Len(queue)
      /\ \A s \in r.fresh : \A i \in DOMAIN queue :
           JobKey(queue[i]) = KeyOf(r, s) => r.since < i

\* What was queued was remembered before, and what is remembered is queued or
\* about to be.  So a source that a request still finds fresh was not in the
\* queue when the request was made.
RefreshInv ==
  /\ \A t \in Threads : RequestInv(t)
  /\ \A i \in DOMAIN queue :
       /\ JobKey(queue[i]) \in triggered
       /\ PeriodIsOver(queue[i].source, queue[i].event, queue[i].at)
  /\ \A k \in triggered :
       \/ \E i \in DOMAIN queue : JobKey(queue[i]) = k
       \/ \E t \in Threads : /\ Reached(t, "append")
                             /\ KeyOf(requests[t], FirstOf(requests[t].fresh)) = k
  /\ \A i, j \in DOMAIN queue :
       i < j /\ JobKey(queue[i]) = JobKey(queue[j]) => queue[j].since < i

\* The steps of a request, as records.
LEMMA AskStep ==
  ASSUME RefreshTypeOK, NEW t \in Threads, NEW e \in Events, Ask(t, e)
  PROVE  /\ requests' \in [Threads -> Request]
         /\ \A u \in Threads \ {t} : requests'[u] = requests[u]
         /\ requests'[t].event = e /\ requests'[t].now = clock
         /\ requests'[t].due = Due(e, clock) /\ requests'[t].fresh = {}
         /\ requests'[t].at = Stage(Due(e, clock), {})
         /\ requests'[t].since = Len(queue)
<1> DEFINE new == [at |-> Stage(Due(e, clock), {}), event |-> e, now |-> clock,
                   due |-> Due(e, clock), fresh |-> {}, since |-> Len(queue)]
<1>1. Due(e, clock) \subseteq SourceIds /\ clock \in 0..LastHalfDay /\ Len(queue) \in Nat
  BY DueIsOver DEF RefreshTypeOK
<1>2. new \in Request
  BY <1>1 DEF Request, Stage
<1>3. requests' = [requests EXCEPT ![t] = new]
  BY DEF Ask
<1>4. /\ new.event = e /\ new.now = clock /\ new.due = Due(e, clock) /\ new.fresh = {}
      /\ new.at = Stage(Due(e, clock), {}) /\ new.since = Len(queue)
  OBVIOUS
<1> HIDE DEF new
<1> QED BY <1>2, <1>3, <1>4 DEF RefreshTypeOK

Moves(t, due, fresh, at) ==
  requests' = [requests EXCEPT ![t] =
    [requests[t] EXCEPT !.due = due, !.fresh = fresh, !.at = at]]

LEMMA MovingStep ==
  ASSUME RefreshTypeOK, NEW t \in Threads, NEW due \in SUBSET SourceIds,
         NEW fresh \in SUBSET SourceIds, NEW at \in {"check", "add", "append", "answered"},
         Moves(t, due, fresh, at)
  PROVE  /\ requests' \in [Threads -> Request]
         /\ \A u \in Threads \ {t} : requests'[u] = requests[u]
         /\ requests'[t].due = due /\ requests'[t].fresh = fresh /\ requests'[t].at = at
         /\ requests'[t].event = requests[t].event /\ requests'[t].now = requests[t].now
         /\ requests'[t].since = requests[t].since
<1> DEFINE new == [requests[t] EXCEPT !.due = due, !.fresh = fresh, !.at = at]
<1>1. requests[t] \in Request
  BY DEF RefreshTypeOK
<1>2. /\ new \in Request /\ new.due = due /\ new.fresh = fresh /\ new.at = at
      /\ new.event = requests[t].event /\ new.now = requests[t].now
      /\ new.since = requests[t].since
  BY <1>1 DEF Request
<1>3. requests' = [requests EXCEPT ![t] = new]
  BY DEF Moves
<1> HIDE DEF new
<1> QED BY <1>2, <1>3 DEF RefreshTypeOK

\* The queue with one more job.
LEMMA AppendedJob ==
  ASSUME RefreshTypeOK, NEW job \in Job, queue' = Append(queue, job)
  PROVE  /\ queue' \in Seq(Job) /\ Len(queue) \in Nat /\ Len(queue') = Len(queue) + 1
         /\ DOMAIN queue = 1..Len(queue) /\ DOMAIN queue' = 1..(Len(queue) + 1)
         /\ \A i \in 1..Len(queue) : queue'[i] = queue[i]
         /\ queue'[Len(queue) + 1] = job
<1>1. queue \in Seq(Job)
  BY DEF RefreshTypeOK
<1> QED BY <1>1

\* A thread that does not move keeps what it knows, whatever another remembers
\* or queues: a job queued now comes after its request was made.
LEMMA WaitingStep ==
  ASSUME RefreshTypeOK, NEW u \in Threads, RequestInv(u), requests'[u] = requests[u],
         triggered \subseteq triggered',
         queue' = queue \/ \E job \in Job : queue' = Append(queue, job)
  PROVE  RequestInv(u)'
<1>1. CASE queue' = queue
  BY <1>1 DEF RequestInv
<1>2. ASSUME NEW job \in Job, queue' = Append(queue, job) PROVE RequestInv(u)'
  <2> DEFINE r == requests[u]
  <2>1. /\ Len(queue) \in Nat /\ Len(queue') = Len(queue) + 1
        /\ DOMAIN queue = 1..Len(queue) /\ DOMAIN queue' = 1..(Len(queue) + 1)
        /\ \A i \in 1..Len(queue) : queue'[i] = queue[i]
    BY <1>2, AppendedJob
  <2>2. r.since \in Nat /\ r.since <= Len(queue)
    BY DEF RefreshTypeOK, Request, RequestInv
  <2>3. r.since <= Len(queue')
    BY <2>1, <2>2
  <2>4. \A s \in r.fresh : \A i \in DOMAIN queue' :
          JobKey(queue'[i]) = KeyOf(r, s) => r.since < i
    <3> SUFFICES ASSUME NEW s \in r.fresh, NEW i \in DOMAIN queue',
                        JobKey(queue'[i]) = KeyOf(r, s)
                 PROVE  r.since < i
      OBVIOUS
    <3>1. CASE i \in 1..Len(queue)
      BY <2>1, <3>1 DEF RequestInv
    <3>2. CASE i = Len(queue) + 1
      BY <2>1, <2>2, <3>2
    <3> QED BY <2>1, <3>1, <3>2
  <2> QED BY <2>3, <2>4 DEF RequestInv
<1> QED BY <1>1, <1>2

\* The set, the queue and the requests keep their shape, and what they say of
\* one another.
LEMMA RefreshInvStep ==
  RefreshTypeOK /\ RefreshInv /\ [RefreshNext]_refreshVars => RefreshTypeOK' /\ RefreshInv'
<1> SUFFICES ASSUME RefreshTypeOK, RefreshInv, [RefreshNext]_refreshVars
             PROVE  RefreshTypeOK' /\ RefreshInv'
  OBVIOUS
<1>0. /\ clock \in 0..LastHalfDay /\ clock \in Int
      /\ \A t \in Threads : requests[t] \in Request
  BY DEF RefreshTypeOK
<1>1. ASSUME NEW t \in Threads, NEW e \in Events, Ask(t, e)
      PROVE  RefreshTypeOK' /\ RefreshInv'
  <2> DEFINE new == requests'[t]
  <2>1. UNCHANGED <<clock, triggered, queue>>
        /\ requests[t].at \in {"idle", "answered"}
    BY <1>1 DEF Ask, Reached
  <2>2. /\ requests' \in [Threads -> Request]
        /\ \A u \in Threads \ {t} : requests'[u] = requests[u]
        /\ new.event = e /\ new.now = clock /\ new.since = Len(queue)
        /\ new.due = Due(e, clock) /\ new.fresh = {} /\ new.at = Stage(Due(e, clock), {})
    BY <1>1, AskStep
  <2>3. \A u \in Threads \ {t} : RequestInv(u)'
    BY <2>1, <2>2, WaitingStep DEF RefreshInv
  <2>4. RequestInv(t)'
    <3>1. Len(queue) \in Nat
      BY DEF RefreshTypeOK
    <3> HIDE DEF new
    <3>2. /\ new.event \in Events
          /\ new.at = IF new.due # {} THEN "check" ELSE "answered"
          /\ new.since <= Len(queue')
      BY <2>1, <2>2, <3>1 DEF Stage
    <3>3. \A s \in SourceIds : s \in new.due <=> PeriodIsOver(s, new.event, new.now)
      BY <1>0, <2>2, DueIsOver
    <3> QED BY <2>2, <3>2, <3>3 DEF RequestInv, new
  <2>5. \A u \in Threads : Reached(u, "append") => u # t /\ requests'[u] = requests[u]
    BY <2>1, <2>2 DEF Reached
  <2>6. RefreshTypeOK'
    BY <2>1, <2>2 DEF RefreshTypeOK
  <2> QED BY <2>1, <2>3, <2>4, <2>5, <2>6 DEF RefreshInv, Reached
<1>2. ASSUME NEW t \in Threads, Check(t) PROVE RefreshTypeOK' /\ RefreshInv'
  <2> DEFINE r == requests[t]
             new == requests'[t]
             s == FirstOf(r.due)
             rest == r.due \ {s}
             fresh == r.fresh \cup (IF Key(t, s) \in triggered THEN {} ELSE {s})
             at == Stage(rest, fresh)
  <2>1. r.at = "check" /\ UNCHANGED <<clock, triggered, queue>>
        /\ requests' = [requests EXCEPT ![t].due = rest, ![t].fresh = fresh, ![t].at = at]
    BY <1>2 DEF Check, Reached
  <2>2. r.due # {} /\ s \in r.due /\ Key(t, s) = KeyOf(r, s)
        /\ RequestInv(t)
    BY <2>1, FirstIsIn DEF RefreshInv, RequestInv, Key, KeyOf
  <2>3. r.due \subseteq SourceIds /\ r.fresh \subseteq SourceIds
    BY <1>0 DEF Request
  <2>4. rest \in SUBSET SourceIds /\ fresh \in SUBSET SourceIds
        /\ at \in {"check", "add", "append", "answered"}
    BY <2>2, <2>3 DEF Stage
  <2>5. at = IF rest # {} THEN "check" ELSE IF fresh # {} THEN "add" ELSE "answered"
    BY DEF Stage
  <2>6. \A x \in r.fresh \cup r.due :
          x \in rest \cup fresh \/ KeyOf(r, x) \in triggered
    BY <2>2
  <2>7. \A x \in fresh : x \in r.fresh \/ (x = s /\ KeyOf(r, s) \notin triggered)
    BY <2>2
  <2>8. rest \cup fresh \subseteq r.due \cup r.fresh
    BY <2>2
  <2> HIDE DEF rest, fresh, at, s
  <2>9. Moves(t, rest, fresh, at)
    BY <2>1 DEF RefreshTypeOK, Moves
  <2>10. /\ requests' \in [Threads -> Request]
         /\ \A u \in Threads \ {t} : requests'[u] = requests[u]
         /\ new.due = rest /\ new.fresh = fresh /\ new.at = at
         /\ new.event = r.event /\ new.now = r.now /\ new.since = r.since
    BY <2>4, <2>9, MovingStep
  <2>11. \A u \in Threads \ {t} : RequestInv(u)'
    BY <2>1, <2>10, WaitingStep DEF RefreshInv
  <2>12. \A x : KeyOf(new, x) = KeyOf(r, x)
    BY <2>10 DEF KeyOf
  <2>13. RequestInv(t)'
    <3> HIDE DEF new
    <3>1. /\ new.event \in Events /\ new.since <= Len(queue')
          /\ \A x \in SourceIds :
               /\ x \in r.due \cup r.fresh => PeriodIsOver(x, r.event, r.now)
               /\ PeriodIsOver(x, r.event, r.now) =>
                    x \in r.due \cup r.fresh \/ KeyOf(r, x) \in triggered
      BY <2>1, <2>2, <2>10 DEF RequestInv
    <3>2. \A x \in SourceIds :
            /\ x \in new.due \cup new.fresh => PeriodIsOver(x, new.event, new.now)
            /\ PeriodIsOver(x, new.event, new.now) =>
                 x \in new.due \cup new.fresh \/ KeyOf(new, x) \in triggered'
      BY <2>1, <2>6, <2>8, <2>10, <2>12, <3>1
    <3>3. \A x \in new.fresh : \A i \in DOMAIN queue' :
            JobKey(queue'[i]) = KeyOf(new, x) => new.since < i
      <4> SUFFICES ASSUME NEW x \in fresh, NEW i \in DOMAIN queue,
                          JobKey(queue[i]) = KeyOf(r, x)
                   PROVE  r.since < i
        BY <2>1, <2>10, <2>12
      <4>1. JobKey(queue[i]) \in triggered
        BY DEF RefreshInv
      <4> QED BY <2>2, <2>7, <4>1 DEF RequestInv
    <3> QED BY <2>5, <2>10, <3>1, <3>2, <3>3 DEF RequestInv, new
  <2>14. \A u \in Threads : Reached(u, "append") => u # t /\ requests'[u] = requests[u]
    BY <2>1, <2>10 DEF Reached
  <2>15. RefreshTypeOK'
    BY <2>1, <2>10 DEF RefreshTypeOK
  <2> QED BY <2>1, <2>11, <2>13, <2>14, <2>15 DEF RefreshInv, Reached
<1>3. ASSUME NEW t \in Threads, Remember(t) PROVE RefreshTypeOK' /\ RefreshInv'
  <2> DEFINE r == requests[t]
             new == requests'[t]
             s == FirstOf(r.fresh)
  <2>1. r.at = "add" /\ UNCHANGED <<clock, queue>>
        /\ triggered' = triggered \cup {KeyOf(r, s)}
        /\ requests' = [requests EXCEPT ![t].at = "append"]
    BY <1>3 DEF Remember, Reached, Key, KeyOf
  <2>2. r.due = {} /\ r.fresh # {} /\ s \in r.fresh /\ r.event \in Events
    BY <2>1, FirstIsIn DEF RefreshInv, RequestInv
  <2>3. r \in Request /\ r.due \subseteq SourceIds /\ r.fresh \subseteq SourceIds
        /\ r.now \in 0..LastHalfDay
    BY <1>0 DEF Request
  <2> HIDE DEF s
  <2>4. Moves(t, r.due, r.fresh, "append")
    <3>1. [requests[t] EXCEPT !.at = "append"]
            = [requests[t] EXCEPT !.due = r.due, !.fresh = r.fresh, !.at = "append"]
      BY <2>3 DEF Request
    <3> QED BY <2>1, <3>1 DEF RefreshTypeOK, Moves
  <2>5. /\ requests' \in [Threads -> Request]
        /\ \A u \in Threads \ {t} : requests'[u] = requests[u]
        /\ new.due = r.due /\ new.fresh = r.fresh /\ new.at = "append"
        /\ new.event = r.event /\ new.now = r.now /\ new.since = r.since
    BY <2>3, <2>4, MovingStep
  <2>6. \A u \in Threads \ {t} : RequestInv(u)'
    BY <2>1, <2>5, WaitingStep DEF RefreshInv
  <2>7. \A x : KeyOf(new, x) = KeyOf(r, x)
    BY <2>5 DEF KeyOf
  <2>8. FirstOf(new.fresh) = s
    BY <2>5 DEF s
  <2>9. RequestInv(t)'
    <3> HIDE DEF new
    <3>1. RequestInv(t)
      BY DEF RefreshInv
    <3> QED BY <2>1, <2>2, <2>5, <2>7, <2>8, <3>1 DEF RequestInv, new
  <2>10. \A u \in Threads : Reached(u, "append") => u # t /\ requests'[u] = requests[u]
    BY <2>1, <2>5 DEF Reached
  <2>11. RefreshTypeOK'
    <3>1. Day(r.now) \in 0..LastHalfDay
      BY <2>3, RefreshAssumption DEF Day
    <3>2. KeyOf(r, s) \in SourceIds \X Events \X (0..LastHalfDay)
      BY <2>2, <2>3, <3>1 DEF KeyOf
    <3> QED BY <2>1, <2>5, <3>2 DEF RefreshTypeOK
  <2>12. ASSUME NEW k \in triggered'
         PROVE  \/ \E i \in DOMAIN queue' : JobKey(queue'[i]) = k
                \/ \E u \in Threads :
                     /\ requests'[u].at = "append"
                     /\ KeyOf(requests'[u], FirstOf(requests'[u].fresh)) = k
    <3>1. CASE k = KeyOf(r, s)
      BY <2>5, <2>7, <2>8, <3>1
    <3>2. CASE k \in triggered
      BY <2>1, <2>10, <3>2 DEF RefreshInv, Reached
    <3> QED BY <2>1, <3>1, <3>2
  <2> QED BY <2>1, <2>6, <2>9, <2>11, <2>12 DEF RefreshInv, Reached
<1>4. ASSUME NEW t \in Threads, Enqueue(t) PROVE RefreshTypeOK' /\ RefreshInv'
  <2> DEFINE r == requests[t]
             new == requests'[t]
             s == FirstOf(r.fresh)
             rest == r.fresh \ {s}
             job == JobOf(t, s)
             at == Stage({}, rest)
             n == Len(queue) + 1
  <2>1. r.at = "append" /\ UNCHANGED <<clock, triggered>>
        /\ queue' = Append(queue, job)
        /\ requests' = [requests EXCEPT ![t].fresh = rest, ![t].at = at]
    BY <1>4 DEF Enqueue, Reached
  <2>2. r.due = {} /\ r.fresh # {} /\ s \in r.fresh /\ r.event \in Events
        /\ RequestInv(t)
    BY <2>1, FirstIsIn DEF RefreshInv, RequestInv
  <2>3. r \in Request /\ r.due \subseteq SourceIds /\ r.fresh \subseteq SourceIds
        /\ r.now \in 0..LastHalfDay /\ r.since \in Nat
    BY <1>0 DEF Request
  <2>4. /\ job \in Job /\ JobKey(job) = KeyOf(r, s) /\ job.since = r.since
        /\ job.source = s /\ job.event = r.event /\ job.at = r.now
    BY <2>2, <2>3 DEF Job, JobOf, JobKey, KeyOf
  <2>5. /\ rest \in SUBSET SourceIds /\ r.due \in SUBSET SourceIds
        /\ at \in {"check", "add", "append", "answered"}
        /\ at = (IF rest # {} THEN "add" ELSE "answered")
        /\ \A x \in r.fresh : x = s \/ x \in rest
        /\ rest \subseteq r.fresh /\ s \notin rest
    BY <2>2, <2>3 DEF Stage
  <2> HIDE DEF s, job, rest, at
  <2>6. Moves(t, r.due, rest, at)
    <3>1. [requests[t] EXCEPT !.fresh = rest, !.at = at]
            = [requests[t] EXCEPT !.due = r.due, !.fresh = rest, !.at = at]
      BY <2>3 DEF Request
    <3> QED BY <2>1, <3>1 DEF RefreshTypeOK, Moves
  <2>7. /\ requests' \in [Threads -> Request]
        /\ \A u \in Threads \ {t} : requests'[u] = requests[u]
        /\ new.due = r.due /\ new.fresh = rest /\ new.at = at
        /\ new.event = r.event /\ new.now = r.now /\ new.since = r.since
    <3>1. /\ r.due \in SUBSET SourceIds /\ rest \in SUBSET SourceIds
          /\ at \in {"check", "add", "append", "answered"}
      BY <2>5
    <3> QED BY <2>6, <3>1, MovingStep
  <2>8. /\ queue' \in Seq(Job) /\ n \in Nat \ {0} /\ Len(queue') = n
        /\ DOMAIN queue = 1..(n - 1) /\ DOMAIN queue' = 1..n
        /\ \A i \in 1..(n - 1) : queue'[i] = queue[i]
        /\ queue'[n] = job
        /\ r.since < n
    <3>1. r.since <= Len(queue)
      BY <2>2 DEF RequestInv
    <3> QED BY <2>1, <2>3, <2>4, <3>1, AppendedJob
  <2>9. \A u \in Threads \ {t} : RequestInv(u)'
    BY <2>1, <2>4, <2>7, WaitingStep DEF RefreshInv
  <2>10. \A x : KeyOf(new, x) = KeyOf(r, x)
    BY <2>7 DEF KeyOf
  <2> HIDE DEF n
  <2>11. RequestInv(t)'
    <3> HIDE DEF new
    <3>1. /\ KeyOf(r, s) \in triggered
          /\ \A x \in SourceIds :
               /\ x \in r.fresh => PeriodIsOver(x, r.event, r.now)
               /\ PeriodIsOver(x, r.event, r.now) =>
                    x \in r.fresh \/ KeyOf(r, x) \in triggered
      BY <2>1, <2>2 DEF RequestInv, s
    <3>2. \A x \in SourceIds :
            /\ x \in new.due \cup new.fresh => PeriodIsOver(x, new.event, new.now)
            /\ PeriodIsOver(x, new.event, new.now) =>
                 x \in new.due \cup new.fresh \/ KeyOf(new, x) \in triggered'
      BY <2>1, <2>2, <2>5, <2>7, <2>10, <3>1
    <3>3. \A x \in new.fresh : \A i \in DOMAIN queue' :
            JobKey(queue'[i]) = KeyOf(new, x) => new.since < i
      <4> SUFFICES ASSUME NEW x \in rest, NEW i \in 1..n,
                          JobKey(queue'[i]) = KeyOf(r, x)
                   PROVE  r.since < i
        BY <2>7, <2>8, <2>10
      <4>1. CASE i \in 1..(n - 1)
        BY <2>2, <2>5, <2>8, <4>1 DEF RequestInv
      <4>2. CASE i = n
        BY <2>8, <4>2
      <4> QED BY <2>8, <4>1, <4>2
    <3>4. new.since <= Len(queue')
      BY <2>3, <2>7, <2>8
    <3> QED BY <2>2, <2>5, <2>7, <3>2, <3>3, <3>4 DEF RequestInv, new
  <2>12. RefreshTypeOK'
    BY <2>1, <2>7, <2>8 DEF RefreshTypeOK
  <2>13. \A i \in 1..n : /\ JobKey(queue'[i]) \in triggered'
                         /\ PeriodIsOver(queue'[i].source, queue'[i].event, queue'[i].at)
    <3>1. JobKey(job) \in triggered /\ PeriodIsOver(s, r.event, r.now)
      BY <2>1, <2>2, <2>3, <2>4 DEF RequestInv, s
    <3>2. \A i \in 1..(n - 1) :
            /\ JobKey(queue[i]) \in triggered
            /\ PeriodIsOver(queue[i].source, queue[i].event, queue[i].at)
      BY <2>8 DEF RefreshInv
    <3>3. \A i \in 1..n : i = n \/ i \in 1..(n - 1)
      BY <2>8
    <3> QED BY <2>1, <2>4, <2>8, <3>1, <3>2, <3>3
  <2>14. ASSUME NEW k \in triggered'
         PROVE  \/ \E i \in DOMAIN queue' : JobKey(queue'[i]) = k
                \/ \E u \in Threads :
                     /\ requests'[u].at = "append"
                     /\ KeyOf(requests'[u], FirstOf(requests'[u].fresh)) = k
    <3>1. n \in 1..n /\ 1..(n - 1) \subseteq 1..n
      BY <2>8
    <3>2. CASE k = KeyOf(r, s)
      BY <2>4, <2>8, <3>1, <3>2
    <3>3. CASE \E i \in DOMAIN queue : JobKey(queue[i]) = k
      BY <2>8, <3>1, <3>3
    <3>4. ASSUME NEW u \in Threads, requests[u].at = "append", k # KeyOf(r, s),
                 KeyOf(requests[u], FirstOf(requests[u].fresh)) = k
          PROVE  requests'[u] = requests[u]
      BY <2>7, <3>4 DEF s
    <3> QED BY <2>1, <3>2, <3>3, <3>4 DEF RefreshInv, Reached
  <2>15. \A i, j \in 1..n :
           i < j /\ JobKey(queue'[i]) = JobKey(queue'[j]) => queue'[j].since < i
    <3> SUFFICES ASSUME NEW i \in 1..n, NEW j \in 1..n, i < j,
                        JobKey(queue'[i]) = JobKey(queue'[j])
                 PROVE  queue'[j].since < i
      OBVIOUS
    <3>1. i \in 1..(n - 1) /\ (j = n \/ j \in 1..(n - 1))
      BY <2>8
    <3>2. CASE j = n
      <4>1. JobKey(queue[i]) = KeyOf(r, s) /\ i \in DOMAIN queue
        BY <2>4, <2>8, <3>1, <3>2
      <4> QED BY <2>2, <2>4, <2>8, <3>2, <4>1 DEF RequestInv
    <3>3. CASE j \in 1..(n - 1)
      BY <2>8, <3>1, <3>3 DEF RefreshInv
    <3> QED BY <3>1, <3>2, <3>3
  <2> QED BY <2>8, <2>9, <2>11, <2>12, <2>13, <2>14, <2>15 DEF RefreshInv, Reached
<1>5. CASE Restart
  <2>1. /\ triggered' = {} /\ queue' = <<>> /\ clock' = clock
        /\ \A t \in Threads : requests'[t] = NoRequest
        /\ requests' = [t \in Threads |-> NoRequest]
    BY <1>5 DEF Restart
  <2>2. NoRequest \in Request
    BY RefreshAssumption DEF NoRequest, Request
  <2>3. RefreshTypeOK'
    BY <2>1, <2>2 DEF RefreshTypeOK
  <2>4. \A t \in Threads : RequestInv(t)'
    BY <2>1 DEF RequestInv, NoRequest
  <2> QED BY <2>1, <2>3, <2>4 DEF RefreshInv
<1>6. CASE Tick \/ UNCHANGED refreshVars
  <2>1. UNCHANGED <<triggered, queue, requests>> /\ clock' \in 0..LastHalfDay
    BY <1>0, <1>6, RefreshAssumption DEF Tick, refreshVars
  <2> QED BY <2>1 DEF RefreshTypeOK, RefreshInv, RequestInv, Reached
<1> QED BY <1>1, <1>2, <1>3, <1>4, <1>5, <1>6 DEF RefreshNext, Serve

LEMMA RefreshInvariant == RefreshSpec => [](RefreshTypeOK /\ RefreshInv)
<1>1. RefreshInit => RefreshTypeOK /\ RefreshInv
  <2> SUFFICES ASSUME RefreshInit PROVE RefreshTypeOK /\ RefreshInv
    OBVIOUS
  <2>1. NoRequest \in Request
    BY RefreshAssumption DEF NoRequest, Request
  <2>2. RefreshTypeOK
    BY <2>1, RefreshAssumption DEF RefreshInit, RefreshTypeOK
  <2>3. \A t \in Threads : RequestInv(t)
    BY DEF RefreshInit, RequestInv, NoRequest
  <2> QED BY <2>2, <2>3 DEF RefreshInit, RefreshInv
<1> QED BY <1>1, RefreshInvStep, PTL DEF RefreshSpec

\* The clock, the set, the queue and the requests keep their shape
\* (LocalSourceRefreshService).
THEOREM RefreshTypeCorrect == RefreshSpec => []RefreshTypeOK
BY RefreshInvariant, PTL

\* After an answered request every due source of the event has a job for the day
\* or is about to, nothing else is queued, and a second job for one source, event
\* and day comes only from requests that overlap, for any number of threads
\* (refresh_after_response, request_on_demand_refresh).
THEOREM EverythingDueIsQueued == RefreshSpec => []DueIsQueued
<1>1. RefreshTypeOK /\ RefreshInv => DueIsQueued
  <2> SUFFICES ASSUME RefreshTypeOK, RefreshInv PROVE DueIsQueued
    OBVIOUS
  <2>1. \A t \in Threads : \A s : JobKey(JobOf(t, s)) = KeyOf(requests[t], s)
    BY DEF JobKey, JobOf, KeyOf
  <2>2. ASSUME NEW t \in Threads, Reached(t, "answered"), NEW s \in SourceIds,
               PeriodIsOver(s, requests[t].event, requests[t].now)
        PROVE  KeyOf(requests[t], s) \in triggered
    BY <2>2 DEF RefreshInv, RequestInv, Reached
  <2> QED BY <2>1, <2>2 DEF DueIsQueued, RefreshInv
<1> QED BY <1>1, RefreshInvariant, PTL

-----------------------------------------------------------------------------
(* The parts together.                                                      *)

\* Each part runs by itself: what the others do leaves it alone.
THEOREM PartsAreIndependent ==
  Spec => SyncSpec /\ ImportSpec /\ ReviewSpec /\ RefreshSpec
<1>1. Init => SyncInit /\ ImportInit /\ ReviewInit /\ RefreshInit
  BY DEF Init
<1> DEFINE vars == <<syncVars, importVars, reviewVars, refreshVars, part>>
<1>2. [Next]_vars => [SyncNext]_syncVars
  BY DEF Next, Others
<1>3. [Next]_vars => [ImportNext]_importVars
  BY DEF Next, Others
<1>4. [Next]_vars => [ReviewNext]_reviewVars
  BY DEF Next, Others
<1>5. [Next]_vars => [RefreshNext]_refreshVars
  BY DEF Next, Others
<1> QED BY <1>1, <1>2, <1>3, <1>4, <1>5, PTL
        DEF Spec, SyncSpec, ImportSpec, ReviewSpec, RefreshSpec

\* All tables, files, queues and processes keep their shape, for every value of
\* the constants.
THEOREM OfflineTypeCorrect == Spec => []TypeOK
<1>1. SyncSpec => []SyncTypeOK
  BY SyncTypeCorrect, PTL
<1> QED BY <1>1, PartsAreIndependent, ImportTypeCorrect, ReviewTypeCorrect,
           RefreshTypeCorrect, PTL DEF TypeOK

=============================================================================
