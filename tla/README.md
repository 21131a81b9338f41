# A TLA+ development of the benefits navigation agent

This directory specifies and verifies the repository's own logic: the
deterministic workflow that guides a person from "my spouse has died" to a list
of benefits with verdicts, the session service that runs it for concurrent
requests, the browser's side of a consultation, and the offline side that fills
the catalogue: page syncs, the import of government organisations, the review of
candidates, the rule engine. The modules are translated from `src/backend/app`,
`src/scripts` and `src/frontend/src`; `PROJECT.json` maps every definition to the
lines it stands for.

## 1. Inventory

| part | state | operations | hard behaviour |
|---|---|---|---|
| Workflow engine (`orchestration/state_machine.py`, `state.py`, `life_event_selection.py`, `jurisdiction_items.py`) | one frozen `SessionState`: workflow state, events, answers, items with status, counters, exit reason, question | `advance(state, input)`: life event text, event confirmation or denial, question card, chat turn, decline, review, referral, help; automatic steps after each | guardrails on the loop, entry guards, a list that changes under the answers |
| Determination (`determination.py`, `rule_adapter.py`, `missing_fields.py`, `field_registry.py`) | none | which items are ready, undeclared or gated; verdict to status; which fields to ask | one item failing, unknown verdicts, governance status of programmes |
| Privacy gate (`privacy/attribute_gate.py`) | none | accept or refuse a set of answers | one bad answer refuses all |
| Session store and API (`session_store.py`, `api/sessions.py`) | a dictionary id -> state, a clock | create, read, explain, advance, delete; expiry on read | handlers run on a thread pool and the store takes no lock; restart loses everything |
| Language model port and tasks (`llm/`) | last call time in the Bedrock adapter | recognise events, read answers out of a message, explain | unavailable, wrong or late answers, rate slot behind one lock |
| Source refresh (`source_refresh.py`, `LocalSourceRefreshService` in `protocols.py`) | triggered set, queue | coverage, request of a refresh | due sources, de-duplication per day |
| Rule engine (`rules/engine.py`) | none | judge a programme's rule fields, score | early returns mixed with missing inputs, cap |
| Source connector (`services/source_connector.py`, `sync_benefit_sources.py`, `fetch_reviewed_benefit_pages.py`) | SQLite tables of sources, runs, documents, discoveries; a directory of raw pages | sync an entry page or a reviewed page | two commits per run, files outside the transaction, overlapping scripts, kills |
| OID import (`import_government_oid.py`) | table of organisations, table of runs | parse a CSV, replace the organisations | a run opened before the transaction, overlapping imports, kills |
| Review (`load_candidates_to_db.py`, `review_server.py`) | tables of programmes, their sources, roles, rule fields | load, edit, verify, revert | evidence that arrives late, CHECK constraints that undo a request |
| Frontend hook (`useBackendSession.ts`, `sessionClient.ts`, guards of `HomePageAlt.tsx`) | session id, snapshot, status, the call it awaits | describe, confirm, answer, reset, reload | lost and late responses, create and retry, sessions that vanish |
| Tracked cases (`trackingStore.ts`, `TrackedCasesPage.tsx`, `ResultList.tsx`) | tracked items shared by all tabs, pending items per tab, what a page shows | add, advance, remove, clear | pages that are out of date |
| Link discovery, navigator prototype, pages, observability, configuration | none of their own | parsing, rendering, packaging | not modelled, see section 7 |

How they interact: the hook sends one request per user action; the API looks the
session up (which may expire it), calls `advance` on the snapshot it read and
saves the result; `advance` calls the model tasks, the privacy gate, the
entitlement expansion and the determination, and each of these returns before it
goes on. Nothing else writes sessions. After a response a background task may ask for a
refresh of the sources of the event. The catalogue side fills the database off
line, in this order: the sources are seeded, pages synced, candidates extracted
to a file, loaded and reviewed; the organisations are imported on their own. The
workflow reads fixtures and the JSON snapshots, not this database.

What makes each part correct:

- engine: it always stops where the user can act; a list at the end has no open
  item; the question loop ends; the list follows the answers; what ended stays ended.
- determination: no conclusion without verified data and complete answers; what is
  concluded is not judged again; a failing item does not touch the others (with one
  exception, section 6).
- gate: nothing illegal or unregistered is ever kept.
- store and API: what is stored is always a consultation the engine could have
  produced; nothing is served after its time; deleted and ended means so.
- refresh: nothing that is due is lost; nothing is queued twice, unless requests overlap.
- connector: a document always has its provenance and its file; the status shown for
  a source is what its runs justify.
- import: the organisations are those of one file, never of two; their history stays.
- review: what is verified rests on verified evidence; no reload resets it.
- rule engine: the order in which a person answers does not matter.
- frontend: an answer goes to the consultation that asked for it; a text starts one
  consultation; the buttons are never locked for good.
- tracking: what a page shows is what is stored; progress is not reset.

`PROJECT.json` lists the hazards of this code at their lines and the property that
covers each, or why none does.

## 2. Modules

| module | extends | what it is |
|---|---|---|
| `WorkflowRules` | | the session record and one operator per input: the set of sessions `advance()` may return for a session; the predicates every session should satisfy |
| `Workflow` | `WorkflowRules` | one consultation as a state machine, with its properties |
| `SessionService` | `WorkflowRules` | the store, the clock and the calls in flight; one action per dictionary operation, the engine as an operator in between |
| `SerialService` | `SessionService` | the service with one session watched by a history variable; refines `Workflow` |
| `SessionClient` | | the hook and its page, the requests and responses under way, and a server reduced to the step each session rests at |
| `RateLimiter` | | the lock and the clock of the rate slot, and the calls behind it |
| `SourceRefresh` | | threads that test, remember and queue the sources of a request; the triggered set and the queue they share |
| `SourceSync` | | scripts at work on sources, documents, runs and raw files, one action per commit, read or file operation |
| `OidImport` | | importers with an open transaction, one action per record |
| `CatalogReview` | | the tables of the review, one action per SQLite transaction |
| `RuleEngine` | | `evaluate_program` and `compute_relevance_score` as operators, a person who answers as the actions |
| `TrackedCases` | | the two browser storages and the pages of several tabs |
| `RulesProofs` | `WorkflowRules` | lemmas about the operators: types, rest states, evidence, the list |
| `WorkflowProofs` | `Workflow`, `RulesProofs` | theorems about one consultation |
| `ServiceProofs` | `SerialService`, `RulesProofs` | theorems about the concurrent service, and the refinement of the serial one |
| `CatalogReviewProofs`, `OidImportProofs`, `SessionClientProofs` | their module | theorems about it |
| `OfflineProofs` | `MCOffline`, `OidImportProofs`, `CatalogReviewProofs` | theorems about `SourceSync` and `SourceRefresh`, and about the four offline parts side by side |
| `OnlineProofs` | `MCOnline`, `SessionClientProofs` | theorems about `TrackedCases`, `RateLimiter` and `RuleEngine`, and about the four online parts side by side |
| `MCWorkflow`, `MCWorkflowPatient`, `MCSessionService`, `MCSerialService` | their module | the small instances the runs use |
| `MCOffline` | `SourceSync`, `OidImport`, `CatalogReview`, `SourceRefresh` | small instances of the four, side by side |
| `MCOnline` | `SessionClient`, `TrackedCases`, `RateLimiter`, `RuleEngine` | small instances of the four, side by side |

The modules that `MCOffline` and `MCOnline` bring together share no variable. A behaviour of these two modules therefore
chooses one part at its beginning and stays with it, and all other variables stay as they are: this reaches
every state of each part, and an interleaving of two parts would show nothing more. It is why the operators of these
modules carry the name of their part (`SyncInit`, `ImportNext`, `reviewVars`). Fairness and the bounds are each part's own.

### The engine

`SessionState` keeps the fields that control depends on: `ws` (workflow_state),
`events` (the recognised and then confirmed life events), `extras` (the offered
alternatives), `retries`, `attrs`, `items` (status per item, or `absent`),
`loops` (loop_iterations), `exit`, `question` (a field id, or `model` for the model's own
wording), `referral`. Timestamps, texts, the audit trail and amounts are left out.

`Advance(s)` is the union of `ReceiveLifeEvent`, `ConfirmEvent`, `DenyEvent`,
`RecordAnswers`, `ChatUnavailable`, `CollectFromChat`, `DeclineItem`,
`ConfirmReview`, `ReturnFromReview`, `ChooseReferral` and `RequestHelp`. Each is a
whole `advance()`, automatic steps included: `AutoAdvance` runs
RESOLVE_ENTITLEMENTS, or RETRIEVE_RULES with the evaluation, the two guardrails
and the loop-back rule, and sets a default question when it stops in collection.
EXPLAIN_RESULT and RETRIEVE_RULES do nothing to the session, so they do not appear as
states where an `advance()` may end. A refused input gives the empty set: the code
raises and nothing is saved.

Three things are free choices, because they are not the engine's:

- what the model recognises (`Recognised`) and reads out of a message
  (`ChatAnswers`), within what the tasks filter: registered events, legal values
  of fields that are still missing;
- the verdict of the eligibility service (`Decision`): a known status, an unknown
  one or an exception, with or without conditions, or a decision that cannot be read (a period of the amount
  nobody knows). The last is converted outside the `try` and refuses the whole `advance()`: there is a next session only
  under those `Judgements` that give every item consulted a decision that can be read. The default service of the
  application sends everything to a human, which is one of these;
- what the user sends, illegal values and unknown fields included.

The catalogue is made of constants: which items an event brings in, their governance
status, which fields they need, the order of the question cards, the legal values,
the local items of a place, the relevance conditions. `CatalogAssumption` says what
the repository's own data satisfies: registered fields are among the fields, local
items are no base items and are not hidden, the jurisdiction is registered.

### The service

FastAPI runs the synchronous handlers on a thread pool, and `InMemorySessionStore` has no
lock. A call therefore moves through the steps `get` (read the dictionary),
`expiry` (compare the clock), `drop` (the `del`), `compute` (the engine, on the
snapshot), `check` (the membership test of `save`) and `write` (the assignment);
any other call, a deletion, a tick or a restart may come in between. Creating and deleting
are one dictionary operation each. Explaining holds the session exactly as a
read does. `issued` records when an id was handed out, so that a property can speak of
the promised time even when the entry is gone; `late` records whether a call arrived
after it. A call that ends keeps its `reply` until its slot is used again.

`Refuse` may answer any advance: the inputs the engine refuses are always among
those a client may send.

### The browser

`SessionClient` follows `useBackendSession.ts` statement by statement where a
statement changes what the next one sees: `ref` is `sessionIdRef`, `shown` the
snapshot, `call` the fetch the hook awaits. `describeEvent` may send four requests (create and advance,
twice); `Resume` is the code after an `await`, and its three disjuncts are the created session, the success
and `AfterFailure`, which holds the catch blocks. A connection may fail before the request arrives, while the server works
or after it has answered (`ConnectionFails`): the request then stays on the wire, is served and answered to
nobody. `DELETE` is sent and not awaited. The page offers an action only when no call is under way and the step on
screen has it; these guards are part of the actions. The server keeps of a session the step `deriveUiStep`
would show and a version; `After` says where an accepted input may lead, which `Workflow` refines.

### The catalogue

`SourceSync` divides `_sync_source_page` where another process can see the difference: the
commit of the run, the fetch, the SELECT outside the transaction, the file (absent, torn, whole), and the
transaction with everything in it. `GiveUp` stands for whatever may raise in a step; `RollBack` is the except branch, also
taken when the INSERT meets another process's row. `Raise` says what the two scripts do with the exception.
`UPDATE ... WHERE connection_status` is the column's value at the commit, so `health` is read in the same action.
The database may refuse more than the sync itself: the commit of the new run (`FailToBegin`; `BeginInVain` if the row is saved after all, by
the next commit of a batch that goes on) and the end of a failed run (`FailToClose`), since neither lies in a `try`. What a refused
commit leaves in the connection is saved by the next one; the models save it at once. `givenUp` is a history variable: the runs
whose process was killed or could not write down how they began or ended.

`OidImport` keeps the table as committed (`orgs`) and as the open transaction sees it (`draft`); `writer` holds the
database. A deferred `BEGIN` takes it with the first statement that touches the table; a process that finds it taken waits or fails. The
`except` branch closes the run, unless the database is locked even then.

`CatalogReview` has one action per request. A request is one transaction: `FailVerify` is the request that a CHECK
constraint of `program_sources` or `program_organization_roles` undoes.

`RuleEngine` keeps the early returns as one disjunction (`Ineligible`): a return in the middle differs from
the others in its text only, and missing inputs are read only when none was taken. The points of the score are as in the code, the sum is
before its cap.

### The rest

`RateLimiter` reads the clock twice, as the code does: on entry, to compute the wait, and after the
sleep. `SourceRefresh` counts half days, so that a source can fall due within a day. One service is shared by threads,
and the class takes no lock: a request tests its sources one after the other (`Check`) and then remembers and queues those it
found fresh (`Remember`, `Enqueue`), and anything may come in between, midnight included. As the application is
wired, the table of sources is empty and the service new for every advance (`state_machine.py:288-293`, called at 977-978), and nothing
takes jobs off the queue: the module is about the class as its docstring describes its use, and as wired nothing is ever queued.
`TrackedCases` runs each operation of the store to its end, as the browser does. An item is drawn once under each of its
life events, and each such row (`Rows`) knows for itself whether its item is tracked.

## 3. Runs

| run | question | result |
|---|---|---|
| `workflow` | a funeral and a care consultation: national and local items, a verified and a rejected programme, a list that is re-expanded after each answer, items that become irrelevant and return, an unregistered field, an illegal answer, an event without items | 13 properties hold (98,788 states) |
| `patient` | does a user who keeps answering get out of the question loop? | `QuestionsEnd` holds (2,191 states) |
| `service` | two calls on one session, with deletion, expiry and restart | 3 invariants hold (2,001,492 states) |
| `serial` | one call at a time, two sessions: is every session in the store a consultation of `Workflow`? | `StoreImplementsWorkflow` holds (578,077 states) |
| `offline` | two scripts over two sources with redirects, failures and kills; two importers over five files; three candidates under review while pages arrive; the same scripts failing to save how a run began or ended; two threads that queue due sources over two days | 11 properties hold (3,758,324 states) |
| `online` | the hook over a connection that fails, against a server that refuses, expires and restarts; the tracked items in one tab or two; three threads at the rate slot; six programmes under all orders of answers | 11 properties hold (410,580 states) |
| `loops`, `refresh`, `ended`, `gone`, `lookup`, `forgotten` | statements of the documents that the code does not keep | each violated, see section 6 |

What the properties say beyond their names:

- `ListMatchesAnswers`: at any time the list is exactly the one the confirmed events and
  the present answers call for, however often answers were corrected.
- `ItemLifecycle`: the conclusion about a national item is never replaced by another, whatever is answered
  and evaluated later; only the user may decline it. An item whose answers did not suffice (`needs_information`) may still be
  concluded, but never waits as `pending` again. That the code leaves such an item alone is not asserted: the documents
  say otherwise (section 6). Only the care event may remove an item, when it is no longer relevant.
- `ReviewIffNeeded`: the loop ends in the review exactly when some item needs a human,
  although the code's guard also looks at `needs_information`.
- `FinishedMeansSettled`, `LimitDowngrades`: what "open" means is the same
  in the loop-back rule, in the guardrail and in the list at the end.
- `QuestionsEnd`: whatever the verdicts and the inputs in between, a session that keeps
  receiving answers is let out of the question loop: it moves on, or a guardrail ends it.
- `StoredSessionsAreSound`: the races on the store may lose an update, but never mix
  two sessions: what is stored satisfies all the predicates of section 2 at once.
- `ExpiredIsNeverServed`: also when a slow call has just put an expired session
  back, a call that arrives after the time is not served.
- `StoreImplementsWorkflow`: `session <- last`, where `last` is the state the watched
  session was last stored in. Deletion, expiry, restart, reads and refusals are
  stutters, a save is exactly one `advance()`.

- `ProvenanceIsComplete`, `StoredPageMatches`: a document, the run that discovered it, and the raw page
  its hash belongs to stay together, although two processes may be between the SELECT and the commit of the same page.
- `HealthMatchesRuns`: the status of a source can be read off the table of runs, whatever failed and however often
  the sources were seeded again.
- `RunsAreClosed`: no other failure, wherever it strikes, leaves a run open than a kill or a database that refuses to
  save how the run began or ended; every other open run has a process at work on it, and one only.
- `ActiveIsLatestFeed`: no interleaving, failure or kill shows an import in part.
- `VerifiedMeansReviewed`: neither a reload nor a page that arrives later puts unreviewed evidence
  under a verified programme; `ReviewHistoryIsKept`: nor does either reset it.
- `AnswersGoWhereAsked`: the hook alone would not keep this (a reset during a call would break it, as the mutant
  shows); the page's guards do.
- `DescribedOnce`: the automatic second attempt never leaves a person's text in two sessions.
- `LockedWhileAwaiting`: each catch block frees the buttons, and none does so before the call is over.
- `DueIsQueued`: the de-duplication loses nothing, neither a source that falls due on a day that has had its request nor one that
  two overlapping requests both count on: its job is queued or a thread is about to queue it. A second job for the same source, event
  and day exists only if its request was made before the first job was queued: "once a day" holds of requests one after another.
- `VerdictIsStable`: new answers never turn a verdict round (`RefusalIsFinal`, `EligibleIsStable`). The second has one exception,
  the date of today: without it the period is not looked at.
- `PageIsCurrent`, `ProgressKept` are about one tab, and fail with two; what holds for two is the number of steps (`TypeOK` of
  `online`).
- `ProgressKept`: adding an item replaces its entry, progress included. A second row of the item may still offer it when the first
  has added it, but no row outlives a visit to the page where steps are completed, and that protects them.

### Bounds

- `MaxEventRetries = 2`, `MaxLoopIterations = 6`, `MaxConfirmed = 5`,
  `MaxExtras = 3` are the code's own values in the runs of one consultation. The
  service runs use smaller ones (0 retries, 2 or 3 rounds), which makes every
  exit reachable within a few calls; nothing in the service depends on their size.
- `TurnBound` is the one bound the code does not have: from that many rounds on no
  further chat turn and no return from the review happens. Chat turns count rounds
  without a guardrail, so they would go on for ever. It is 8, two above the
  loop limit, so sessions beyond the limit occur; in `patient` it is 4,
  and the question card alone takes the session on to the limit.
- Three events, five items, three fields and values (fewer in `patient`): enough for a
  verified, a candidate, a rejected, a local and an undeclared item, for an item that
  needs two fields, and for a place with local items and one without.
- `service` has one session and two calls: the store's entries are independent of each
  other, and every race of the code is between two calls on the same entry. `serial` has two
  sessions so that what happens to the other one is seen to be a stutter. `SessionTTL = 1` and
  `LastTick = 1` give a time before and a time after expiry; a restart needs no more.
- Ids are handed out once: `secrets.token_urlsafe` does not repeat.

- `offline`, page syncs: two workers and three runs give two overlapping syncs of one page and a later one; three bodies
  with two texts give a changed page, an unchanged one and one that differs in its markup only; the child page may be redirected to
  the other page or off the government hosts. Two jobs: the entry pages of both sources, and a batch of reviewed pages of both, with the same page
  for two sources and the reuse of a document. `MaxRuns` is the only bound the code lacks.
- `offline`, imports: five files give a change, a drop, a return, a repeated, an invalid and a blank row, a contradiction and an
  empty file. `MaxImports = 4` is two overlapping imports after two others.
- `offline`, review: one candidate with everything but a key field, one without an agency, one without an excerpt. `LastTick`
  bounds the verifications that are told apart.
- `offline`, refresh: four half days, so that midnight falls between two steps; two threads; a source that was never crawled, two that fall
  due at noon of the second day, one that does not; two events that share a source. No request is made with more than `MaxQueued = 4` jobs in the queue; a restart
  empties it.
- `online`, hook: `MaxSent` is six requests, so a description with its four requests is followed by two more inputs or a
  reset; two lost connections.
- `online`, tracking: two items of two steps under two life events, in either tab alone and in both.
- `online`, rate slot: a gap of two ticks, three threads, three calls, seven ticks.
- `online`, rule engine: one to three answers per attribute, on both sides of each boundary; the six programmes use every rule field, with
  the registration in a city required, not required and not said.

Deadlock is not checked where the system really stops: a consultation that has ended accepts nothing more, and in the service
the clock stops at `LastTick` with every id handed out. It is checked in `offline` and `online`; there only the bounded clock
of the rate slot stops, which `ClockStopped` says.

The symmetry in `service` and `offline` permutes the calls and the processes; it is used with invariants and action properties only.

### Fairness

- `PatientSpec`: weak fairness of "some accepted question card arrives". It is an
  assumption on the user, not on the code; `QuestionsEnd` is about such users.
- `FairSpec`: weak fairness of the clock and of each accepted call: the server's threads are
  scheduled and return. No client is obliged to send anything. It is used in
  `forgotten`, where the violation is therefore not a server that simply stopped.
- `FairClientSpec` (`SessionClient`): weak fairness of the server's answer to each request and of the code after an `await`.
  A call that fails on the network resumes as well; the user need not act.
- `AskedSpec` (`RuleEngine`): a person who goes on answering what is asked, an assumption on the person.

`Spec` of `MCOnline` states the last two, each for the behaviours of its own part.

## 4. Proofs

Every invariant, every action property and the refinement that a passing run checks is a theorem, for every value of
the constants; what is left to TLC is liveness and the violations.

The theorems about the workflow and the service hold for every catalogue and every limit that satisfies
`CatalogAssumption`, `BoundAssumption` and, for the service, `ServiceAssumption`
(a positive time to live, and a marker for an empty entry that is no entry) and `WatchedAssumption` (the watched id is one of the sessions). No set of
the catalogue is assumed finite, and the sets of sessions and calls are arbitrary. The other modules
each have one assumption about their constants (`CatalogueAssumption` of the syncs, `ImportAssumption`, `ReviewAssumption`, `RefreshAssumption`,
`ClientAssumption`, `TrackingAssumption`, `RateAssumption`, `EngineAssumption`): types, markers that are no rows, and the finiteness of the OIDs
of a file; of the syncs also that a job is one script's or the other's. `OfflineProofs` and `OnlineProofs` extend the MC modules for the composition only; the
instances are values a `.cfg` gives, of which the proofs know nothing.

| module | theorem | what it proves |
|---|---|---|
| `WorkflowProofs` | `TypeCorrect`, `GateHolds`, `ConclusionsHaveEvidence`, `EngineRestsSafely`, `ReviewIsSettled`, `LimitLeavesNothing`, `RetryLimitHolds`, `NeverSpeechless`, `ListIsCurrent` | the nine invariants of `workflow`: `TypeOK`, `PrivacyGateHolds`, `NoConclusionWithoutEvidence`, `SessionRests`, `FinishedMeansSettled`, `LimitDowngrades`, `RetryExit`, `QuestionWhileMissing`, `ListMatchesAnswers` |
| | `EndIsFinal`, `AnswersStay`, `ReviewOnlyIfNeeded`, `ItemsAge` | its four action properties: `EndedIsFinal`, `AnswersAreKept`, `ReviewIffNeeded`, `ItemLifecycle` |
| `ServiceProofs` | `ServiceTypeCorrect`, `ConcurrentSessionsAreSound`, `ExpiryIsKept` | `TypeOK`, `StoredSessionsAreSound`, `ExpiredIsNeverServed`, for any number of calls and sessions |
| | `SerialStoreImplements` | the refinement `StoreImplementsWorkflow`, if no two calls are in flight |
| | `SerialEndStays` | under the same hypothesis, an ended consultation is never open again: what `ended` refutes for two calls |
| `OfflineProofs` | `SyncTypeCorrect`, `NoRunIsForgotten`, `HealthIsEarned`, `EveryPageHasASource`, `RowsMatchPages` | the type of `SourceSync`; `RunsAreClosed`, `HealthMatchesRuns`, `ProvenanceIsComplete`, `StoredPageMatches` |
| | `RefreshTypeCorrect`, `EverythingDueIsQueued` | the type of `SourceRefresh`; `DueIsQueued` |
| | `PartsAreIndependent`, `OfflineTypeCorrect` | the composition implies the specification of each part; its `TypeOK` |
| `OidImportProofs` | `ImportTypeCorrect`, `OrganisationsStay`, `ImportIsAtomic`, `ReportsAddUp`, `SourceIsHonest` | the type; `HistoryIsKept`, `ActiveIsLatestFeed`, `CountsAddUp`, `OidSourceIsHonest` |
| `CatalogReviewProofs` | `ReviewTypeCorrect`, `EvidenceIsReviewed`, `ProgrammesStay` | the type; `VerifiedMeansReviewed`, `ReviewHistoryIsKept` |
| `SessionClientProofs` | `ClientTypeCorrect`, `AnswersStayHome`, `LockIsExact`, `OneTextOneSession` | the type; `AnswersGoWhereAsked`, `LockedWhileAwaiting`, `DescribedOnce` |
| `OnlineProofs` | `TrackedTypeCorrect`, `OneTabIsCurrent`, `NoStepIsLost` | the type; `PageIsCurrent`, `ProgressKept` |
| | `RateTypeCorrect`, `SlotsKeepTheGap` | the type; `SlotsAreSpaced` |
| | `CapIsNeverReached`, `RefusalsStand`, `EligibleStands`, `VerdictsStand` | `ScoreWithinCap`; the two halves of `VerdictIsStable`, and itself |
| | `PartsAreIndependent`, `OnlineTypeCorrect` | the composition implies the specification of each part; its `TypeOK` |

The argument for the workflow. `RulesProofs` works on the operators, not on a
specification: `SessionInv(s)` is a predicate on one session, and `StepHolds` shows that every
element of `Advance(s)` satisfies it if `s` does. It has three parts.

1. `Grounded`: the type, the gate and the evidence. Answers are never forgotten by `Merge`,
   so evidence once given stays.
2. `AtRest`: where the engine stopped and what holds there. The predicates alone are not inductive:
   that the list is settled in the review needs that the review is only entered through
   the loop-back rule, the retry exit needs that nobody denies after it, a default question exists only because
   a nonempty set of missing fields has a least element in the order of the cards
   (`WellFoundedInduction`).
3. `ListInv`: the list is exact. `_merge_local_entitlements` only replaces local
   items, so one also needs that the national part of the list is that of the confirmed events,
   and that the events do not change after the confirmation; that no base item is local
   comes from `CatalogAssumption`.

Both specifications reuse it. In `Workflow` it is the inductive invariant as it
stands. In `SessionService` the invariant `ServiceInv` says that every stored entry and every
held snapshot satisfies it, together with `CallInv` on where each call stands: a late call
holds nothing that could still be served. A save writes a snapshot that satisfies
`SessionInv`, whatever has happened to the store meanwhile.

The action properties of the workflow. `ReviewIffNeeded` follows one round (`RoundJudges`): the round is left for the review or the end
only with nothing unsettled, so of the two statuses the guard of the review looks at only `needs_human_review` can be there.
For `ItemLifecycle`, `Ages` says what one input may do to the status of a national item, and is shown of the refresh, of
the evaluation, of the guardrails and of declining in turn.

The refinement. With one call in flight, `SerialInv` adds to `ServiceInv` that the stored entry of the watched session, if there is one,
is `last`; that an id never issued has `last` still at a new session; and `Following`, that what a call on the session holds
is `last` before the engine has run and an element of `Advance(last)` afterwards. `Following` is what a second call breaks: it
stores, and the snapshot of the first is not `last` any more. `Workflow` is instantiated with `session <- last` and so has copies
of the operators of `WorkflowRules`; the lemmas `SameSets` to `SameInputs` say that the copies agree with the originals.

The other invariants.

- Page syncs (`SyncInv`): `WorkersInv` says which run a working process has open, that no two have the same, that a run given up is
  open and nobody's, and what the process has read; `PagesInv`
  that the page it is about to commit is on disk. A run is completed in the transaction that writes its document and the health
  of its source, so `HealthMatchesRuns` and `ProvenanceIsComplete` need each other and are proved as one.
- Refresh (`RefreshInv`): what is in the queue is remembered, and what is remembered is in the queue or about to be. A request (`RequestInv`) accounts
  for every source that was due when it was made: still to be tested, found fresh, or remembered. And a source it still finds
  fresh has no job older than the request: so the job it will queue is a second one only to a job queued meanwhile.
- The import: `Reading` says which rows of the draft are done, `DraftInv` that the draft is the committed table
  with the done rows of the file written over it, `RunsInv` that each working process has a run of its own that is still open and
  holds the database exactly while it writes records, `LatestInv` that the active rows are the records of the newest completed run. At the commit nothing is left to do, so the active rows of the draft,
  after those the file lacks are deactivated, are the records of the file. `TallyInv`: what a process has counted and the records it still has to do make up its file.
- The review: a role with a document has a source row, because both look at the same page at the same
  time; without this a verified role could stand without its source.
- The hook (`WireInv`, `HookInv`): while a session is being created nothing is on screen, and while another input
  is under way the screen is not cleared; requests and responses always name a session. Its type (`TypeInv`) needs two more: each
  request on its way accounts for a session or a version still to come, and a description has room for all the requests it may send.
- One text in one session (`OnceInv`): a text is on its way at most once, and no more once the server has it (`TextsInv`); while a
  description waits for its session, or after a refusal, its text is with nobody (`CallInv`). So the second attempt makes no second copy.
- Tracking (`PageInv`): with one tab, the pending list and the page offer nothing that is tracked, and an item a row offers has no completed
  step to lose; the page alone is not inductive, because going to it shows the pending list.
- The rate slot (`RateInv`): the stamp stored last is that of the last slot, since only the holder of the lock writes it.
- The rule engine needs no invariant: the properties follow from one state and one step.

Only proved: `OidSourceIsHonest`, `SerialEndStays`, the independence of the parts, the types of the parts by themselves (the runs check them
together as `TypeOK`), and the two halves of `VerdictIsStable`.

Only model-checked: `QuestionsEnd`, `CallEnds` and `AskingEnds` (liveness under fairness is
outside the prover's reach: they need ENABLED and induction), and the violations, which are counterexamples.

## 5. Running

`tlc -config MCWorkflow.cfg MCWorkflow`, and so on for each row of
`runs` in `PROJECT.json`; `tlapm WorkflowProofs.tla`, likewise for the other proof
modules. The runs take from a few seconds to two and a half minutes, the proofs a minute or two per module.

Each property of a passing run has a mutant, an operator beside the definition it
changes and commented "Mutant of ...": a plausible mistake in the code that makes
the run report the property violated.

## 6. What the runs show against the documents

- `loops`: `design.md` Property 4 says that `loop_iterations` never exceeds its maximum. Chat turns
  count rounds but end before the guardrail: seven messages the model makes nothing of are enough.
- `refresh`: `_refresh_entitlements` is documented to keep the status of items that remain. For a
  bereavement every answer rebuilds the local items as pending: one that was declined, or
  handed to a human, is open again.
- `ended`: requirement 5.3 says an ended consultation accepts no more input. Two overlapping
  advances: one ends it, the slower one saves an open session over it.
- `gone`: a deletion between the two halves of `save` is undone.
- `lookup`: two lookups of an expired session, the second `del` raises `KeyError`.
- `forgotten`: `purge_expired` exists so that unread sessions do not stay in memory; nothing calls it.

Seen while modelling, and no run of its own:

- ADR 0010 wants the official source of every displayed programme to be openable. A candidate loaded before its page
  was fetched gets no source row, is skipped by every later load, and can be verified (`NewSource`, `Skipped`, `VerifyProgram`).
- `verify_program` is documented to need the key fields only; without an excerpt or a document it fails
  on a CHECK constraint, as an unhandled error (`FailVerify`).
- The contract tells the client to fetch the snapshot again after `invalid_transition`. The hook never does: after a lost
  response the page offers an input the server refuses, again and again (`AfterRun`).
- The contract tells the client to forget an id the server does not know. The second attempt of `describeEvent` keeps it,
  until the next description (`AfterSecond`).
- The header of the Bedrock adapter promises 1.05 seconds between two calls; the lock keeps slots apart, and a thread may be
  late between its slot and its call (`LeaveLock`, `Converse`).
- `LocalSourceRefreshService` is documented to trigger a source once a day whatever requests there are; the key contains the
  event, so a source two events share is queued twice (`Key`); and the test and the remembering are two steps without a lock, so two
  requests that overlap may both queue it (`Check`, `Remember`). As wired, nothing is queued at all.
- The pending items of the tracking page are per tab, the tracked ones are not: with two tabs an item that is tracked already can be
  offered and added again, and its progress starts anew (`AddFromPending`), or a step completed that the page does not show (`AdvanceStep`).
- An item listed under two life events has two rows in the results, and the second still offers it after the first has added it
  (`AddFromResults`). No step can have been completed by then, so nothing is lost.
- Requirement 7.1 of the workflow (`requirements.md:104`) and `design.md` (201, 408, 659) have the rules run again on items that are pending or need
  information, and `rule_adapter.py:179` and `determination.py:89` call the latter unsettled. `_resolve_item` (`determination.py:199`) judges pending items only:
  an item that once needed information is never judged again, however much is answered later (`ResolveItem`).
- A concluded item keeps its verdict when the answers it rests on are corrected: requirement 7.2 wants it so. `no_progress` ends a consultation without
  handing its open items to a human, unlike the loop limit.
- `_resolve_item` is documented never to raise, so that one item's failure does not touch the others (`determination.py:198`). A period of the amount
  nobody knows raises `ValueError` (`rule_adapter.py:173-177`, called at `determination.py:233` outside the `try`): the whole request fails, with every
  other item's verdict, and fails again when it is repeated (`Judgements`). `QuestionsEnd` is about consultations whose decisions can be read.
- A run may stay `running` for ever: its process is killed, or the database refuses its beginning or its end (`Crash`, `BeginInVain`, `FailToClose`; the
  except branch of `source_connector.py:413-448` has no handler of its own). Nothing looks for such runs later.
- A raw page torn by a kill stays, since later syncs find the file (`StorePage`); a page that changes after a verification leaves the
  programme verified.
- A page is reported unchanged by comparison with the row as it was read before the transaction (`Changed`): with two processes
  the report may be outdated when it is committed.

## 7. Not modelled, and why

- Amounts, reasons, labels and citations of a result, timestamps and the audit trail: no control depends on
  them, except that an amount may be unreadable, which is modelled.
- `link_discovery.py`, `extract_benefit_candidates.py`, `discover_benefit_links.py`, `review_benefit_status.py`: functions from one
  file or page to another; their content is HTML parsing and string ranking, and they keep no state.
- The download page and the encodings of the OID file, the definition of visible text in the
  connector: parsing, of which the models keep the outcomes (acceptable or not, same text or not).
- Seeding of jurisdictions, organisations and links: idempotent upserts of one file.
- Prompts, schemas and reply parsing of the model tasks: the engine's modules let the tasks return whatever they may.
- The page is left while a call is under way: the call then ends unseen, and a page opened later starts anew, as after `Reload`.
- `purge_expired` and the adapter of a remote refresh service: nothing calls them.
- The navigator prototype runs on mock data and shares no state with the session service; pages, observability,
  configuration and deployment are rendering, wording and packaging.
- A composition of `SessionClient` with `SessionService`: the client sees of a session its step and whether it is there, and the service's
  races are about stored states the client cannot tell apart; the two together exceed what can be enumerated.
