---------------------------- MODULE SourceRefresh ----------------------------
(***************************************************************************)
(* refresh_after_response (source_refresh.py) and the local service behind    *)
(* it (LocalSourceRefreshService, protocols.py): after a response, the        *)
(* sources of a life event that are due are queued for a new crawl, unless     *)
(* they were queued for that event on the same day.  One service is shared by  *)
(* the requests of several threads, which it does not lock out: a request      *)
(* first tests its sources one after the other, and only then remembers and    *)
(* queues them.  The clock counts half days, so that a source can fall due     *)
(* within a day that has been served.                                        *)
(***************************************************************************)
EXTENDS Integers, Sequences

CONSTANTS
  SourceIds,    \* rows of the source table
  Events,       \* life events
  Related,      \* [Events -> SUBSET SourceIds], by their domain tags
  Crawled,      \* [SourceIds -> half day of the last crawl, or Never]
  Frequency,    \* [SourceIds -> check_frequency_days]
  Never,        \* pending_crawl, or no last_crawled_at; no event
  Threads,      \* that serve a response each
  LastHalfDay,  \* model bound: the clock
  MaxQueued     \* model bound: no request is made with more jobs in the queue

ASSUME RefreshAssumption ==
  /\ Related \in [Events -> SUBSET SourceIds]
  /\ Crawled \in [SourceIds -> Int \cup {Never}] /\ Frequency \in [SourceIds -> Nat]
  /\ Never \notin Int \cup Events /\ LastHalfDay \in Nat /\ MaxQueued \in Nat

VARIABLES
  clock,
  triggered,  \* <<source, event, day>>
  queue,      \* the jobs, in the order they were queued
  requests    \* [Threads -> where its last request stands and what it holds]

refreshVars == <<clock, triggered, queue, requests>>

Day(t) == t \div 2

\* since: the length of the queue when the request was made, history only.
Job == [source : SourceIds, event : Events, at : 0..LastHalfDay, since : Nat]
Request == [at : {"idle", "check", "add", "append", "answered"},
            event : Events \cup {Never}, now : 0..LastHalfDay,
            due : SUBSET SourceIds,    \* due, not tested yet
            fresh : SUBSET SourceIds,  \* tested, not queued yet
            since : Nat]
NoRequest == [at |-> "idle", event |-> Never, now |-> 0, due |-> {},
              fresh |-> {}, since |-> 0]

RefreshInit ==
  /\ clock = 0 /\ triggered = {} /\ queue = <<>>
  /\ requests = [t \in Threads |-> NoRequest]

\* Never crawled, or crawled check_frequency_days ago or earlier.
IsDue(s, now) == Crawled[s] = Never \/ now - Crawled[s] >= 2 * Frequency[s]

\* get_coverage_status, and which of its sources are due.
Due(e, now) == {s \in Related[e] : IsDue(s, now)}

Stage(due, fresh) == IF due # {} THEN "check" ELSE IF fresh # {} THEN "add" ELSE "answered"

Reached(t, stage) == requests[t].at = stage

\* Mutant of Key: the day is that of the test, not that of the request.
KeyOfToday(t, s) == <<s, requests[t].event, Day(clock)>>

\* The key of the de-duplication.
Key(t, s) == <<s, requests[t].event, Day(requests[t].now)>>

\* The clock is read once.  An event without sources sends no request.
Ask(t, e) ==
  /\ Reached(t, "idle") \/ Reached(t, "answered")
  /\ Related[e] # {}
  /\ Len(queue) <= MaxQueued
  /\ requests' = [requests EXCEPT ![t] =
       [at |-> Stage(Due(e, clock), {}), event |-> e, now |-> clock,
        due |-> Due(e, clock), fresh |-> {}, since |-> Len(queue)]]
  /\ UNCHANGED <<clock, triggered, queue>>

\* In the order of their ids, which is some fixed order.
FirstOf(S) == CHOOSE s \in S : TRUE

\* One source is looked up among those triggered ...
Check(t) ==
  LET s == FirstOf(requests[t].due)
      rest == requests[t].due \ {s}
      fresh == requests[t].fresh \cup (IF Key(t, s) \in triggered THEN {} ELSE {s})
  IN
  /\ Reached(t, "check")
  /\ requests' = [requests EXCEPT ![t].due = rest, ![t].fresh = fresh,
                                  ![t].at = Stage(rest, fresh)]
  /\ UNCHANGED <<clock, triggered, queue>>

\* ... and once all were, the fresh ones are remembered and queued, one by one.
Remember(t) ==
  /\ Reached(t, "add")
  /\ triggered' = triggered \cup {Key(t, FirstOf(requests[t].fresh))}
  /\ requests' = [requests EXCEPT ![t].at = "append"]
  /\ UNCHANGED <<clock, queue>>

JobOf(t, s) == [source |-> s, event |-> requests[t].event, at |-> requests[t].now,
                since |-> requests[t].since]

Enqueue(t) ==
  LET s == FirstOf(requests[t].fresh)
      rest == requests[t].fresh \ {s}
  IN
  /\ Reached(t, "append")
  /\ queue' = Append(queue, JobOf(t, s))
  /\ requests' = [requests EXCEPT ![t].fresh = rest, ![t].at = Stage({}, rest)]
  /\ UNCHANGED <<clock, triggered>>

\* A new process: the set and the queue were in memory.
Restart ==
  /\ triggered' = {} /\ queue' = <<>>
  /\ requests' = [t \in Threads |-> NoRequest]
  /\ UNCHANGED clock

Tick ==
  /\ clock < LastHalfDay /\ clock' = clock + 1
  /\ UNCHANGED <<triggered, queue, requests>>

Serve(t) == (\E e \in Events : Ask(t, e)) \/ Check(t) \/ Remember(t) \/ Enqueue(t)

RefreshNext == (\E t \in Threads : Serve(t)) \/ Restart \/ Tick

RefreshSpec == RefreshInit /\ [][RefreshNext]_refreshVars

-----------------------------------------------------------------------------
(* Properties.                                                             *)

\* The clock, the set, the queue and the requests keep their shape.
RefreshTypeOK ==
  /\ clock \in 0..LastHalfDay
  /\ triggered \subseteq SourceIds \X Events \X (0..LastHalfDay)
  /\ queue \in Seq(Job)
  /\ requests \in [Threads -> Request]

\* What must be queued: the period of the source has run out.
PeriodIsOver(s, e, now) ==
  /\ s \in Related[e]
  /\ Crawled[s] = Never \/ Crawled[s] + 2 * Frequency[s] <= now

\* The day a job is for, as the key has it.
JobKey(job) == <<job.source, job.event, Day(job.at)>>

\* The de-duplication loses nothing, and fails only where requests overlap.
\* Once a request is answered, every source of its event whose period had run
\* out has a job for that day, or another thread is just about to queue it;
\* only such sources are queued; and a source has a second job for one event and
\* day only if the request for the second was made before the first was queued.
\* (request_on_demand_refresh; "once a day" holds of requests one after another.)
DueIsQueued ==
  /\ \A t \in Threads : Reached(t, "answered") =>
       \A s \in SourceIds : PeriodIsOver(s, requests[t].event, requests[t].now) =>
         \/ \E i \in DOMAIN queue : JobKey(queue[i]) = JobKey(JobOf(t, s))
         \/ \E u \in Threads :
              /\ Reached(u, "append")
              /\ JobKey(JobOf(u, FirstOf(requests[u].fresh))) = JobKey(JobOf(t, s))
  /\ \A i \in DOMAIN queue : PeriodIsOver(queue[i].source, queue[i].event, queue[i].at)
  /\ \A i, j \in DOMAIN queue :
       i < j /\ JobKey(queue[i]) = JobKey(queue[j]) => queue[j].since < i
=============================================================================
