--------------------------- MODULE WorkflowRules ---------------------------
(***************************************************************************)
(* The deterministic workflow engine of backend/app/orchestration.         *)
(*                                                                         *)
(* state_machine.advance is a function from a session record and one user  *)
(* input to a new session record.  Here every input kind is an operator    *)
(* that gives the set of records advance() may return, so that both the    *)
(* single-session machine (Workflow) and the store that serves concurrent  *)
(* requests (SessionService) are built from it.  The set is not a single   *)
(* record because the language model's reading of a text and the verdict   *)
(* of the eligibility service are not the engine's: any of them may come.  *)
(***************************************************************************)
EXTENDS Integers, FiniteSets

CONSTANTS
  Events,          \* registered life events
  CareEvent,       \* the event whose list is re-expanded after each answer
  FuneralEvents,   \* the events that bring in local (city or county) items
  Items,           \* every item any event can bring in
  BaseItems,       \* [Events -> SUBSET Items], the national items of an event
  ProgramStatus,   \* [Items -> governance status of the programme]
  Fields,          \* every field id a client may send
  Registered,      \* those declared in the field registry
  UsedBy,          \* [Fields -> SUBSET Items], the items that need a field
  AskOrder,        \* [Fields -> Nat], position in the question cards
  Values,          \* answers a client may send
  NoValue,         \* marks a field without an answer
  Legal,           \* [Fields -> SUBSET Values], what the privacy gate accepts
  Jurisdiction,    \* the field that selects the local items
  LocalOf,         \* [Values -> SUBSET Items], the local items of a place
  RelevantWhen,    \* [Items -> set of [field, accepted]] relevance conditions
  MaxEventRetries,   \* how often "that is not it" is tolerated
  MaxLoopIterations, \* guardrail on the question loop
  MaxConfirmed,      \* most events a session may hold
  MaxExtras,         \* most alternatives offered beside the recognised events
  TurnBound          \* model bound: no chat turn or return from there on

LocalItems == UNION {LocalOf[v] : v \in Values}
Hidden == {"rejected", "inactive"}

ASSUME CatalogAssumption ==
  /\ FuneralEvents \subseteq Events
  /\ BaseItems \in [Events -> SUBSET Items]
  /\ ProgramStatus \in [Items -> STRING]
  /\ Registered \subseteq Fields
  /\ Fields \cap {"none", "model"} = {}
  /\ Jurisdiction \in Registered
  /\ UsedBy \in [Fields -> SUBSET Items]
  /\ AskOrder \in [Fields -> Nat]
  /\ NoValue \notin Values
  /\ Legal \in [Fields -> SUBSET Values]
  /\ LocalOf \in [Values -> SUBSET Items]
  /\ \A i \in LocalItems : ProgramStatus[i] \notin Hidden
  /\ \A e \in Events : BaseItems[e] \cap LocalItems = {}
  /\ RelevantWhen \in
       [Items -> SUBSET [field : Fields, accepted : SUBSET Values]]

ASSUME BoundAssumption ==
  /\ MaxEventRetries \in Nat
  /\ MaxLoopIterations \in Nat
  /\ MaxConfirmed \in Nat
  /\ MaxExtras \in Nat
  /\ TurnBound \in Nat

-----------------------------------------------------------------------------
(* The shape of a session record.                                          *)

WorkflowStates ==
  {"understand_event", "resolve_entitlements", "collect_missing_fields",
   "retrieve_rules", "evaluate_eligibility", "explain_result", "confirm",
   "complete"}

RuleEngineStatuses ==
  {"eligible", "ineligible", "needs_information", "needs_human_review"}
ItemStatuses == RuleEngineStatuses \cup {"pending", "declined_by_user"}
Unsettled == {"pending", "needs_information"}

ExitReasons ==
  {"event_retry_limit_reached", "loop_limit_reached", "no_progress",
   "user_requested_help"}

\* A collector question asks for a field or is the model's own wording.
Questions == Fields \cup {"none", "model"}

SessionState ==
  [ws       : WorkflowStates,
   events   : SUBSET Events,
   extras   : SUBSET Events,
   retries  : Nat,
   attrs    : [Fields -> Values \cup {NoValue}],
   items    : [Items -> ItemStatuses \cup {"absent"}],
   loops    : Nat,
   exit     : ExitReasons \cup {"none"},
   question : Questions,
   referral : BOOLEAN]

NewSession ==
  [ws       |-> "understand_event",
   events   |-> {},
   extras   |-> {},
   retries  |-> 0,
   attrs    |-> [f \in Fields |-> NoValue],
   items    |-> [i \in Items |-> "absent"],
   loops    |-> 0,
   exit     |-> "none",
   question |-> "none",
   referral |-> FALSE]

-----------------------------------------------------------------------------
(* The three tables: allowed inputs, entry guards, nominal path.           *)

AllowedInputs ==
  [ws \in WorkflowStates |->
     CASE ws = "understand_event" -> {"life_event_text", "event_confirmation"}
       [] ws = "collect_missing_fields" ->
            {"attribute_answers", "attribute_chat_turn", "item_decline"}
       [] ws = "confirm" -> {"review_confirmation", "referral_choice"}
       [] OTHER -> {}]

\* advance() refuses everything once the consultation has ended.
Open(s) == s.exit = "none" /\ s.ws # "complete"

\* Mutant of Accepts: the early exit is not looked at.
AcceptsDespiteExit(s, kind) == kind \in AllowedInputs[s.ws]

Accepts(s, kind) == Open(s) /\ kind \in AllowedInputs[s.ws]

HasUnsettled(s) == \E i \in Items : s.items[i] \in Unsettled

\* Mutant of ConfirmGuard: the entry guard is not declared.
ConfirmAlways(s) == TRUE

\* ENTRY_GUARDS["confirm"]
ConfirmGuard(s) ==
  \E i \in Items : s.items[i] \in {"needs_human_review", "needs_information"}

\* Mutant of ShouldLoopBack: UNSETTLED_STATUSES written out a second time.
LoopBackOnPending(s) ==
  s.loops < MaxLoopIterations /\ \E i \in Items : s.items[i] = "pending"

ShouldLoopBack(s) == s.loops < MaxLoopIterations /\ HasUnsettled(s)
\* Mutant of AfterEvaluate: the engine stops in the state it passes through.
StopAtExplain(s) ==
  IF s.loops < MaxLoopIterations /\ HasUnsettled(s)
  THEN "collect_missing_fields" ELSE "explain_result"

\* Where the engine goes after EVALUATE_ELIGIBILITY: back to the questions, or
\* along the nominal path.  EXPLAIN_RESULT changes nothing and waits for
\* nobody, so entering it and skipping it lead to the same state.
AfterEvaluate(s) ==
  IF ShouldLoopBack(s) THEN "collect_missing_fields"
  ELSE IF ConfirmGuard(s) THEN "confirm" ELSE "complete"

-----------------------------------------------------------------------------
(* Which items a consultation shows.                                       *)

Answered(s) == {f \in Fields : s.attrs[f] # NoValue}
FieldsFor(i) == {f \in Registered : i \in UsedBy[f]}
Visible(S) == {i \in S : ProgramStatus[i] \notin Hidden}

Relevant(i, attrs) ==
  \A c \in RelevantWhen[i] : attrs[c.field] \in c.accepted \cup {NoValue}

LocalItemsFor(events, attrs) ==
  IF events \cap FuneralEvents = {} \/ attrs[Jurisdiction] = NoValue
  THEN {} ELSE LocalOf[attrs[Jurisdiction]]

\* expand_from_event: an event without base items brings in nothing, not even
\* local items; only the care event filters by relevance.
ExpandFromEvent(e, attrs) ==
  IF BaseItems[e] = {} THEN {}
  ELSE {i \in BaseItems[e] : e = CareEvent => Relevant(i, attrs)}
         \cup LocalItemsFor({e}, attrs)

Expansion(s) == Visible(UNION {ExpandFromEvent(e, s.attrs) : e \in s.events})

\* _do_resolve_entitlements expands once: a list that is not empty is kept.
ResolveEntitlements(s) ==
  IF \E i \in Items : s.items[i] # "absent" THEN s
  ELSE [s EXCEPT !.items =
          [i \in Items |-> IF i \in Expansion(s) THEN "pending" ELSE "absent"]]

\* _merge_local_entitlements drops every local item and appends those of the
\* present jurisdiction afresh, so each of them starts again as pending.
MergeLocalEntitlements(s) ==
  [s EXCEPT !.items =
     [i \in Items |->
        IF i \notin LocalItems THEN s.items[i]
        ELSE IF i \in LocalItemsFor(s.events, s.attrs) THEN "pending"
        ELSE "absent"]]

\* Mutant of ReexpandAll: the status of an item that stays is not kept.
ReexpandAfresh(s) ==
  [s EXCEPT !.items =
     [i \in Items |-> IF i \in Expansion(s) THEN "pending" ELSE "absent"]]

\* The care event re-expands the whole list and keeps the status of an item
\* that is still there.
ReexpandAll(s) ==
  [s EXCEPT !.items =
     [i \in Items |->
        IF i \notin Expansion(s) THEN "absent"
        ELSE IF s.items[i] = "absent" THEN "pending" ELSE s.items[i]]]

\* Mutant of RefreshEntitlements: the list is not refreshed after an answer.
KeepEntitlements(s) == s

RefreshEntitlements(s) ==
  IF s.events = {} THEN s
  ELSE IF CareEvent \in s.events THEN ReexpandAll(s)
  ELSE MergeLocalEntitlements(s)

-----------------------------------------------------------------------------
(* What is still to be asked.                                              *)

Missing(s) ==
  {f \in Registered : /\ s.attrs[f] = NoValue
                      /\ \E i \in UsedBy[f] : s.items[i] \in Unsettled}

\* The first field of the first question card.
DefaultQuestion(s) ==
  IF Missing(s) = {} THEN "none"
  ELSE CHOOSE f \in Missing(s) :
         \A g \in Missing(s) : AskOrder[f] <= AskOrder[g]

-----------------------------------------------------------------------------
(* Judging the items that are ready.                                       *)

\* What the eligibility service may return for one item: a status the
\* adapter knows or not, with or without decisive conditions, an exception, or
\* a decision with an amount period the adapter cannot read.
Decision ==
  [status : RuleEngineStatuses \cup {"unknown", "raised", "unreadable"},
   explained : BOOLEAN]

\* Mutant of ApplyDecision: a status the adapter does not know passes through.
PassThrough(d) == d.status

\* apply_decision with downgrade_unexplained_ineligible
ApplyDecision(d) ==
  IF \/ d.status \notin RuleEngineStatuses
     \/ d.status = "ineligible" /\ ~d.explained
  THEN "needs_human_review" ELSE d.status

VerifiedItems == {i \in Items : ProgramStatus[i] = "verified"}
Decisions == [VerifiedItems -> Decision]

\* Mutants of ResolveItem: items that wait for an answer are judged as well;
\* items that were settled before are judged again.
JudgeUnready(s, i, dec) ==
  IF s.items[i] # "pending" THEN s.items[i]
  ELSE IF FieldsFor(i) = {} \/ i \notin VerifiedItems THEN "needs_human_review"
  ELSE ApplyDecision(dec[i])
JudgeAgain(s, i, dec) ==
  IF s.items[i] = "absent" THEN "absent"
  ELSE IF FieldsFor(i) = {} THEN "needs_human_review"
  ELSE IF ~(FieldsFor(i) \subseteq Answered(s)) THEN "pending"
  ELSE IF i \notin VerifiedItems THEN "needs_human_review"
  ELSE ApplyDecision(dec[i])

\* _resolve_item: only pending items are looked at, undeclared ones go to a
\* human, those that wait for an answer wait on, and the service is consulted
\* for verified programmes only.
ResolveItem(s, i, dec) ==
  IF s.items[i] # "pending" THEN s.items[i]
  ELSE IF FieldsFor(i) = {} THEN "needs_human_review"
  ELSE IF ~(FieldsFor(i) \subseteq Answered(s)) THEN "pending"
  ELSE IF i \notin VerifiedItems THEN "needs_human_review"
  ELSE ApplyDecision(dec[i])

\* The items for which the service is consulted, and what it may say of them
\* so that there is a next session at all: the conversion of a decision lies
\* outside the try, so a single unreadable one fails the whole input.
Consulted(s) ==
  {i \in VerifiedItems : /\ s.items[i] = "pending"
                         /\ FieldsFor(i) # {}
                         /\ FieldsFor(i) \subseteq Answered(s)}
Judgements(s) ==
  {dec \in Decisions : \A i \in Consulted(s) : dec[i].status # "unreadable"}

EvaluateReadyItems(s, dec) ==
  [s EXCEPT !.ws = "evaluate_eligibility",
            !.items = [i \in Items |->
                         IF ProgramStatus[i] \in Hidden THEN "absent"
                         ELSE ResolveItem(s, i, dec)]]

-----------------------------------------------------------------------------
(* The guardrails and the automatic steps.                                 *)

\* Mutant of DowngradeUnsettled: "information insufficient" is left as it is.
DowngradePending(items) ==
  [i \in Items |-> IF items[i] = "pending" THEN "needs_human_review"
                   ELSE items[i]]

DowngradeUnsettled(items) ==
  [i \in Items |-> IF items[i] \in Unsettled THEN "needs_human_review"
                   ELSE items[i]]

\* "Progress" compares the whole status map and the number of answers with
\* the session as it was before this input.
NoProgress(s, before) ==
  /\ s.loops > 1
  /\ s.items = before.items
  /\ Cardinality(Answered(s)) <= Cardinality(Answered(before))

CheckLoopGuardrails(s, before) ==
  IF s.loops >= MaxLoopIterations /\ HasUnsettled(s)
  THEN [s EXCEPT !.exit = "loop_limit_reached",
                 !.items = DowngradeUnsettled(s.items)]
  ELSE IF NoProgress(s, before) THEN [s EXCEPT !.exit = "no_progress"]
  ELSE [s EXCEPT !.ws = AfterEvaluate(s)]

\* Mutant of AskIfCollecting: no default question.
AskNothing(s) == s

AskIfCollecting(s) ==
  IF s.ws = "collect_missing_fields" /\ s.question = "none"
  THEN [s EXCEPT !.question = DefaultQuestion(s)] ELSE s

\* _auto_advance: RESOLVE_ENTITLEMENTS stops at the questions, RETRIEVE_RULES
\* runs through the evaluation, every other state waits for the user.
AutoAdvance(s, before, dec) ==
  AskIfCollecting(
    CASE s.ws = "resolve_entitlements" ->
           [ResolveEntitlements(s) EXCEPT !.ws = "collect_missing_fields"]
      [] s.ws = "retrieve_rules" ->
           CheckLoopGuardrails(EvaluateReadyItems(s, dec), before)
      [] OTHER -> s)

-----------------------------------------------------------------------------
(* The inputs.  Each operator gives the sessions advance() may return for a *)
(* session s; it gives none when the input is refused or the engine raises. *)

\* The model recognised the text as these events; alternatives are added up
\* to MaxExtras as long as there are other registered events.
Recognised ==
  {r \in [ids : SUBSET Events \ {{}}, extras : SUBSET Events] :
     /\ Cardinality(r.ids) <= MaxConfirmed
     /\ r.extras \cap r.ids = {}
     /\ \/ Cardinality(r.extras) = MaxExtras
        \/ Cardinality(r.extras) < MaxExtras /\ r.extras = Events \ r.ids}

ReceiveLifeEvent(s) ==
  {[s EXCEPT !.events = r.ids, !.extras = r.extras] :
     r \in {x \in Recognised : Accepts(s, "life_event_text")}}

\* Whatever ids are sent, only suggested or offered ones survive the filter;
\* a denial needs something to deny, too.
CanConfirm(s) == Accepts(s, "event_confirmation") /\ s.events # {}

ConfirmEvent(s) ==
  {AutoAdvance([s EXCEPT !.events = chosen, !.extras = {},
                         !.ws = "resolve_entitlements"], s, <<>>) :
     chosen \in {E \in SUBSET (s.events \cup s.extras) :
                   /\ CanConfirm(s)
                   /\ E # {}
                   /\ Cardinality(E) <= MaxConfirmed}}

\* Mutant of DenyEvent: the last tolerated denial already ends it.
DenyEventEarly(s) ==
  IF ~CanConfirm(s) THEN {}
  ELSE {[s EXCEPT !.events = {}, !.extras = {}, !.retries = @ + 1,
                  !.exit = IF s.retries + 1 >= MaxEventRetries
                           THEN "event_retry_limit_reached" ELSE @]}

DenyEvent(s) ==
  IF ~CanConfirm(s) THEN {}
  ELSE {[s EXCEPT !.events = {}, !.extras = {}, !.retries = @ + 1,
                  !.exit = IF s.retries + 1 > MaxEventRetries
                           THEN "event_retry_limit_reached" ELSE @]}

\* A set of answers is one value, or none, for each field id.
Answers == [Fields -> Values \cup {NoValue}]

\* Mutant of GateAccepts: registered fields take any value.
GateRegisteredOnly(a) == \A f \in Fields : a[f] # NoValue => f \in Registered

\* The registry check and the privacy gate: one bad field refuses them all.
GateAccepts(a) ==
  \A f \in Fields : a[f] # NoValue => f \in Registered /\ a[f] \in Legal[f]

\* Mutant of Merge: the new answers replace the old ones.
Replace(s, a) == [s EXCEPT !.attrs = a]

Merge(s, a) ==
  [s EXCEPT !.attrs =
     [f \in Fields |-> IF a[f] = NoValue THEN s.attrs[f] ELSE a[f]]]

\* Mutant of ToRetrieve: the round is not counted.
ToRetrieveUncounted(s) == [s EXCEPT !.ws = "retrieve_rules", !.question = "none"]

\* Sends the loop on to RETRIEVE_RULES.
ToRetrieve(s) ==
  [s EXCEPT !.ws = "retrieve_rules", !.loops = @ + 1, !.question = "none"]

\* The question card sends at least one answer.
RecordAnswers(s) ==
  UNION {LET u == RefreshEntitlements(ToRetrieve(Merge(s, a)))
         IN {AutoAdvance(u, s, dec) : dec \in Judgements(u)} :
         a \in {x \in Answers : /\ Accepts(s, "attribute_answers")
                                /\ \E f \in Fields : x[f] # NoValue
                                /\ GateAccepts(x)}}

CanChat(s) == Accepts(s, "attribute_chat_turn") /\ s.loops < TurnBound

\* The model could not be reached and no keyword matched: ask again.
ChatUnavailable(s) ==
  IF CanChat(s) /\ Missing(s) # {}
  THEN {[s EXCEPT !.question = DefaultQuestion(s), !.loops = @ + 1]} ELSE {}

\* A chat turn yields legal values for some of the missing fields, perhaps for
\* none.  While something is still missing the session stays where it is and
\* asks on, in the model's words or its own.
ChatAnswers(s) ==
  {a \in Answers : /\ CanChat(s)
                   /\ GateAccepts(a)
                   /\ \A f \in Fields : a[f] # NoValue => f \in Missing(s)}

AskOn(s) ==
  {[s EXCEPT !.loops = @ + 1, !.question = q] : q \in {DefaultQuestion(s), "model"}}

CollectFromChat(s) ==
  UNION {LET u == RefreshEntitlements(Merge(s, a))
         IN IF Missing(u) # {} THEN AskOn(u)
            ELSE {AutoAdvance(ToRetrieve(u), s, dec) : dec \in Judgements(u)} :
         a \in ChatAnswers(s)}

\* An item the user does not want is declined whatever its status was.
DeclineItem(s) ==
  {AskIfCollecting([s EXCEPT !.items[i] = "declined_by_user"]) :
     i \in {j \in Items : /\ Accepts(s, "item_decline")
                          /\ s.items[j] # "absent"}}

ConfirmReview(s) ==
  IF Accepts(s, "review_confirmation")
  THEN {[s EXCEPT !.ws = "complete"]} ELSE {}

ReturnFromReview(s) ==
  IF Accepts(s, "review_confirmation") /\ s.loops < TurnBound
  THEN {AskIfCollecting([s EXCEPT !.ws = "collect_missing_fields"])} ELSE {}

ChooseReferral(s) ==
  {[s EXCEPT !.referral = requested] :
     requested \in {r \in BOOLEAN : Accepts(s, "referral_choice")}}

\* Help may be asked for wherever the engine waits for the user.
RequestHelp(s) ==
  IF Open(s) /\ AllowedInputs[s.ws] # {}
  THEN {[s EXCEPT !.exit = "user_requested_help"]} ELSE {}

Advance(s) ==
  UNION {ReceiveLifeEvent(s), ConfirmEvent(s), DenyEvent(s), RecordAnswers(s),
         ChatUnavailable(s), CollectFromChat(s), DeclineItem(s),
         ConfirmReview(s), ReturnFromReview(s), ChooseReferral(s),
         RequestHelp(s)}

-----------------------------------------------------------------------------
(* What every session satisfies, whichever requests produced it.           *)

\* An open session rests where some input is allowed: the automatic steps
\* never leave it in a state nobody can move it out of.
RestsWhereUserCanAct(s) == Open(s) => AllowedInputs[s.ws] # {}

\* A review or a final list holds no item that still waits for an answer.
NothingLeftOpen(s) == s.ws \in {"confirm", "complete"} => ~HasUnsettled(s)

\* After the loop limit every unanswered item has been handed to a human.
LimitLeavesNoneOpen(s) == s.exit = "loop_limit_reached" => ~HasUnsettled(s)

\* A conclusion, or "information insufficient", is only ever reached for a
\* verified programme with declared fields that have all been answered.
JudgedOnEvidence(s) ==
  \A i \in Items :
    s.items[i] \in {"eligible", "ineligible", "needs_information"} =>
      /\ i \in VerifiedItems
      /\ FieldsFor(i) # {}
      /\ FieldsFor(i) \subseteq Answered(s)

\* The list is exactly what the confirmed events and the answers as they are
\* now call for: no local item of a place the user has corrected away, none of
\* the present place missing, and before the confirmation no item at all.
Listed(s) == {i \in Items : s.items[i] # "absent"}
CalledFor(s) ==
  Expansion(s) \cup (IF CareEvent \in s.events THEN {}
                    ELSE LocalItemsFor(s.events, s.attrs))
ListIsExact(s) ==
  Listed(s) = IF s.ws = "understand_event" THEN {} ELSE CalledFor(s)

\* The consultation ends over denied events exactly when the denials exceed
\* the tolerated number.
RetryLimitIsExact(s) ==
  /\ s.exit = "event_retry_limit_reached" <=> s.retries > MaxEventRetries
  /\ s.retries <= MaxEventRetries + 1

\* Whatever was sent or read out of a text, what is kept is a legal value of a
\* registered field.
OnlyGatedAnswers(s) ==
  \A f \in Answered(s) : f \in Registered /\ s.attrs[f] \in Legal[f]

\* While there is something to ask, a collecting session has a question.
AlwaysAQuestion(s) ==
  s.ws = "collect_missing_fields" /\ Missing(s) # {} => s.question # "none"

=============================================================================
