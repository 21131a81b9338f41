---------------------------- MODULE RulesProofs ----------------------------
(***************************************************************************)
(* Lemmas about the operators of WorkflowRules: what advance() returns for  *)
(* a session record has the record's shape, reaches no verdict without     *)
(* evidence, comes to rest where the user can act and keeps the list exact. *)
(* They hold for every catalogue of events, items and fields and for every  *)
(* value of the limits.                                                     *)
(***************************************************************************)
EXTENDS WorkflowRules, WellFoundedInduction, TLAPS

-----------------------------------------------------------------------------
(* The type of what the helpers return.                                    *)

\* A set of fields has a first one in the order of the question cards.
LEMMA FirstField ==
  ASSUME NEW S \in SUBSET Fields, S # {}
  PROVE  \E f \in S : \A g \in S : AskOrder[f] <= AskOrder[g]
<1> DEFINE T == {AskOrder[f] : f \in S}
<1>1. T \subseteq Nat /\ T # {}
  BY CatalogAssumption
<1>2. PICK x \in T : \A y \in T : ~(<<y, x>> \in OpToRel(<, Nat))
  <2> HIDE DEF T
  <2> QED BY <1>1, NatLessThanWellFounded, WFMin
<1>3. \A y \in Nat, z \in Nat : y < z => <<y, z>> \in OpToRel(<, Nat)
  BY Zenon DEF OpToRel
<1>4. \A y \in T : ~(y < x)
  <2> HIDE DEF T
  <2> QED BY <1>1, <1>2, <1>3, Zenon
<1>5. \A y \in T : x <= y
  <2> HIDE DEF T
  <2> QED BY <1>1, <1>4
<1> QED BY <1>5

\* The default question asks for a field exactly when one is missing.
LEMMA DefaultQuestionType ==
  ASSUME NEW s \in SessionState
  PROVE  /\ DefaultQuestion(s) \in Questions
         /\ Missing(s) # {} => DefaultQuestion(s) # "none"
<1>1. Missing(s) \in SUBSET Fields
  BY CatalogAssumption DEF Missing
<1>2. CASE Missing(s) = {}
  BY <1>2 DEF DefaultQuestion, Questions
<1>3. CASE Missing(s) # {}
  <2>1. \E f \in Missing(s) : \A g \in Missing(s) : AskOrder[f] <= AskOrder[g]
    BY <1>1, <1>3, FirstField
  <2>2. DefaultQuestion(s) \in Fields
    BY <1>1, <1>3, <2>1 DEF DefaultQuestion
  <2> QED BY <2>2, CatalogAssumption DEF Questions
<1> QED BY <1>2, <1>3

\* Asking the default question keeps the record's shape (_auto_advance, end).
LEMMA AskIfCollectingType ==
  ASSUME NEW s \in SessionState
  PROVE  AskIfCollecting(s) \in SessionState
BY DefaultQuestionType DEF AskIfCollecting, SessionState

\* Recording gated answers keeps the record's shape (_record_answers).
LEMMA MergeType ==
  ASSUME NEW s \in SessionState, NEW a \in Answers
  PROVE  Merge(s, a) \in SessionState
BY DEF Merge, Answers, SessionState

\* Counting a round keeps the record's shape (_record_answers).
LEMMA ToRetrieveType ==
  ASSUME NEW s \in SessionState
  PROVE  ToRetrieve(s) \in SessionState
<1>1. s.loops \in Nat /\ s.loops + 1 \in Nat
  BY DEF SessionState
<1>2. "retrieve_rules" \in WorkflowStates /\ "none" \in Questions
  BY DEF WorkflowStates, Questions
<1>3. ToRetrieve(s) = [s EXCEPT !.ws = "retrieve_rules", !.loops = s.loops + 1,
                                !.question = "none"]
  BY DEF ToRetrieve, SessionState
<1> QED BY <1>1, <1>2, <1>3 DEF SessionState

\* Whatever the refresh does, it changes the item list only.
LEMMA RefreshType ==
  ASSUME NEW s \in SessionState
  PROVE  /\ RefreshEntitlements(s) \in SessionState
         /\ \E list \in [Items -> ItemStatuses \cup {"absent"}] :
              RefreshEntitlements(s) = [s EXCEPT !.items = list]
<1>1. s = [s EXCEPT !.items = s.items] /\ s.items \in [Items -> ItemStatuses \cup {"absent"}]
  BY DEF SessionState
<1>2. \E list \in [Items -> ItemStatuses \cup {"absent"}] :
        RefreshEntitlements(s) = [s EXCEPT !.items = list]
  <2>1. CASE s.events = {}
    BY <1>1, <2>1 DEF RefreshEntitlements
  <2>2. CASE s.events # {} /\ CareEvent \in s.events
    BY <1>1, <2>2 DEF RefreshEntitlements, ReexpandAll, ItemStatuses
  <2>3. CASE s.events # {} /\ CareEvent \notin s.events
    BY <1>1, <2>3 DEF RefreshEntitlements, MergeLocalEntitlements, ItemStatuses
  <2> QED BY <2>1, <2>2, <2>3
<1> QED BY <1>2 DEF SessionState

\* A judged item has a status the contract knows (_resolve_item).
LEMMA ResolveItemType ==
  ASSUME NEW s \in SessionState, NEW i \in Items, NEW dec \in Decisions
  PROVE  ResolveItem(s, i, dec) \in ItemStatuses \cup {"absent"}
<1>1. i \in VerifiedItems => ApplyDecision(dec[i]) \in ItemStatuses
  BY DEF Decisions, Decision, ApplyDecision, ItemStatuses, RuleEngineStatuses
<1>2. s.items[i] \in ItemStatuses \cup {"absent"}
  BY DEF SessionState
<1> QED BY <1>1, <1>2 DEF ResolveItem, ItemStatuses, RuleEngineStatuses

\* Judging the items keeps the record's shape (evaluate_ready_items).
LEMMA EvaluateType ==
  ASSUME NEW s \in SessionState, NEW dec \in Decisions
  PROVE  EvaluateReadyItems(s, dec) \in SessionState
<1>1. [i \in Items |-> IF ProgramStatus[i] \in Hidden THEN "absent"
                       ELSE ResolveItem(s, i, dec)]
        \in [Items -> ItemStatuses \cup {"absent"}]
  BY ResolveItemType
<1> QED BY <1>1 DEF EvaluateReadyItems, SessionState, WorkflowStates

\* The guardrails keep the record's shape (_check_loop_guardrails).
LEMMA GuardrailsType ==
  ASSUME NEW s \in SessionState, NEW before
  PROVE  CheckLoopGuardrails(s, before) \in SessionState
<1>1. DowngradeUnsettled(s.items) \in [Items -> ItemStatuses \cup {"absent"}]
  BY DEF DowngradeUnsettled, SessionState, ItemStatuses, RuleEngineStatuses
<1>2. AfterEvaluate(s) \in WorkflowStates
  BY DEF AfterEvaluate, WorkflowStates
<1>3. {"loop_limit_reached", "no_progress"} \subseteq ExitReasons
  BY DEF ExitReasons
<1> QED BY <1>1, <1>2, <1>3 DEF CheckLoopGuardrails, SessionState

\* The first expansion keeps the record's shape (_do_resolve_entitlements).
LEMMA ResolveEntitlementsType ==
  ASSUME NEW s \in SessionState
  PROVE  ResolveEntitlements(s) \in SessionState
BY DEF ResolveEntitlements, SessionState, ItemStatuses

\* Confirming the events advances through RESOLVE_ENTITLEMENTS only, so the
\* verdicts do not matter there.
LEMMA AutoAdvanceType ==
  ASSUME NEW s \in SessionState, NEW before, NEW dec,
         s.ws = "retrieve_rules" => dec \in Decisions
  PROVE  AutoAdvance(s, before, dec) \in SessionState
<1>1. CASE s.ws = "resolve_entitlements"
  <2>1. [ResolveEntitlements(s) EXCEPT !.ws = "collect_missing_fields"]
          \in SessionState
    BY ResolveEntitlementsType DEF SessionState, WorkflowStates
  <2> QED BY <1>1, <2>1, AskIfCollectingType DEF AutoAdvance
<1>2. CASE s.ws = "retrieve_rules"
  BY <1>2, EvaluateType, GuardrailsType, AskIfCollectingType DEF AutoAdvance
<1>3. CASE s.ws \notin {"resolve_entitlements", "retrieve_rules"}
  BY <1>3, AskIfCollectingType DEF AutoAdvance
<1> QED BY <1>1, <1>2, <1>3

-----------------------------------------------------------------------------
(* The type of what advance() returns, one lemma per group of inputs.      *)

\* Life event text, confirmation and denial.
LEMMA EventInputsType ==
  ASSUME NEW s \in SessionState,
         NEW t \in ReceiveLifeEvent(s) \cup ConfirmEvent(s) \cup DenyEvent(s)
  PROVE  t \in SessionState
<1>1. CASE t \in ReceiveLifeEvent(s)
  BY <1>1 DEF ReceiveLifeEvent, Recognised, SessionState
<1>2. CASE t \in ConfirmEvent(s)
  <2>1. PICK chosen \in SUBSET (s.events \cup s.extras) :
          t = AutoAdvance([s EXCEPT !.events = chosen, !.extras = {},
                                    !.ws = "resolve_entitlements"], s, <<>>)
    BY <1>2 DEF ConfirmEvent
  <2>2. [s EXCEPT !.events = chosen, !.extras = {},
                  !.ws = "resolve_entitlements"] \in SessionState
    BY DEF SessionState, WorkflowStates
  <2>3. [s EXCEPT !.events = chosen, !.extras = {},
                  !.ws = "resolve_entitlements"].ws # "retrieve_rules"
    BY DEF SessionState
  <2> QED BY <2>1, <2>2, <2>3, AutoAdvanceType
<1>3. CASE t \in DenyEvent(s)
  <2>1. s.retries \in Nat /\ s.retries + 1 \in Nat
    BY DEF SessionState
  <2>2. PICK exit \in {"event_retry_limit_reached", s.exit} :
          t = [s EXCEPT !.events = {}, !.extras = {},
                        !.retries = s.retries + 1, !.exit = exit]
    BY <1>3 DEF DenyEvent, SessionState
  <2> QED BY <2>1, <2>2 DEF SessionState, ExitReasons
<1> QED BY <1>1, <1>2, <1>3

\* The answers of a question card are merged, the list is refreshed and a round
\* of the evaluation follows (_record_answers).
LEMMA AnswersAdvance ==
  ASSUME NEW s, NEW t \in RecordAnswers(s)
  PROVE  \E a \in Answers, dec \in Decisions :
           /\ GateAccepts(a)
           /\ t = AutoAdvance(RefreshEntitlements(ToRetrieve(Merge(s, a))), s, dec)
<1> DEFINE u(a) == RefreshEntitlements(ToRetrieve(Merge(s, a)))
<1>1. PICK a \in Answers :
        GateAccepts(a) /\ t \in {AutoAdvance(u(a), s, dec) : dec \in Judgements(u(a))}
  BY DEF RecordAnswers
<1>2. Judgements(u(a)) \subseteq Decisions
  BY DEF Judgements
<1> HIDE DEF u
<1>3. PICK dec \in Decisions : t = AutoAdvance(u(a), s, dec)
  BY <1>1, <1>2
<1> QED BY <1>1, <1>3 DEF u

\* A chat turn asks on or is followed by a round of the evaluation
\* (_collect_from_chat).
LEMMA ChatAdvances ==
  ASSUME NEW s, NEW t \in CollectFromChat(s)
  PROVE  \E a \in ChatAnswers(s) :
           LET u == RefreshEntitlements(Merge(s, a))
           IN  t \in IF Missing(u) # {} THEN AskOn(u)
                     ELSE {AutoAdvance(ToRetrieve(u), s, dec) : dec \in Decisions}
<1> DEFINE U(a) == RefreshEntitlements(Merge(s, a))
<1>1. PICK a \in ChatAnswers(s) :
        t \in IF Missing(U(a)) # {} THEN AskOn(U(a))
              ELSE {AutoAdvance(ToRetrieve(U(a)), s, dec) : dec \in Judgements(U(a))}
  BY DEF CollectFromChat
<1>2. Judgements(U(a)) \subseteq Decisions
  BY DEF Judgements
<1> HIDE DEF U
<1>3. t \in IF Missing(U(a)) # {} THEN AskOn(U(a))
            ELSE {AutoAdvance(ToRetrieve(U(a)), s, dec) : dec \in Decisions}
  BY <1>1, <1>2
<1> QED BY <1>3 DEF U

\* Answers from the question card, and declined items.
LEMMA CardInputsType ==
  ASSUME NEW s \in SessionState,
         NEW t \in RecordAnswers(s) \cup DeclineItem(s)
  PROVE  t \in SessionState
<1>1. CASE t \in RecordAnswers(s)
  <2>1. PICK a \in Answers, dec \in Decisions :
          t = AutoAdvance(RefreshEntitlements(ToRetrieve(Merge(s, a))), s, dec)
    BY <1>1, AnswersAdvance
  <2>2. RefreshEntitlements(ToRetrieve(Merge(s, a))) \in SessionState
    BY MergeType, ToRetrieveType, RefreshType
  <2> QED BY <2>1, <2>2, AutoAdvanceType
<1>2. CASE t \in DeclineItem(s)
  <2>1. PICK i \in Items :
          t = AskIfCollecting([s EXCEPT !.items[i] = "declined_by_user"])
    BY <1>2 DEF DeclineItem
  <2>2. [s EXCEPT !.items[i] = "declined_by_user"] \in SessionState
    BY DEF SessionState, ItemStatuses
  <2> QED BY <2>1, <2>2, AskIfCollectingType
<1> QED BY <1>1, <1>2

\* Chat turns, with the model or without it.
LEMMA ChatInputsType ==
  ASSUME NEW s \in SessionState,
         NEW t \in ChatUnavailable(s) \cup CollectFromChat(s)
  PROVE  t \in SessionState
<1>1. \A u \in SessionState, q \in Questions :
        [u EXCEPT !.loops = @ + 1, !.question = q] \in SessionState
  <2> SUFFICES ASSUME NEW u \in SessionState, NEW q \in Questions
               PROVE  [u EXCEPT !.loops = @ + 1, !.question = q] \in SessionState
    OBVIOUS
  <2>1. u.loops \in Nat /\ u.loops + 1 \in Nat
    BY DEF SessionState
  <2>2. [u EXCEPT !.loops = @ + 1, !.question = q]
          = [u EXCEPT !.loops = u.loops + 1, !.question = q]
    BY DEF SessionState
  <2> QED BY <2>1, <2>2 DEF SessionState
<1>2. CASE t \in ChatUnavailable(s)
  BY <1>1, <1>2, DefaultQuestionType DEF ChatUnavailable
<1>3. CASE t \in CollectFromChat(s)
  <2> DEFINE U(a) == RefreshEntitlements(Merge(s, a))
  <2>1. PICK a \in ChatAnswers(s) :
          t \in IF Missing(U(a)) # {} THEN AskOn(U(a))
                ELSE {AutoAdvance(ToRetrieve(U(a)), s, dec) : dec \in Decisions}
    BY <1>3, ChatAdvances
  <2>2. U(a) \in SessionState
    BY MergeType, RefreshType DEF ChatAnswers
  <2> HIDE DEF U
  <2>3. CASE Missing(U(a)) # {}
    <3>1. DefaultQuestion(U(a)) \in Questions /\ "model" \in Questions
      BY <2>2, DefaultQuestionType DEF Questions
    <3> QED BY <1>1, <2>1, <2>2, <2>3, <3>1 DEF AskOn
  <2>4. CASE Missing(U(a)) = {}
    BY <2>1, <2>2, <2>4, ToRetrieveType, AutoAdvanceType
  <2> QED BY <2>3, <2>4
<1> QED BY <1>2, <1>3

\* The inputs of the review, and the request for help.
LEMMA ReviewInputsType ==
  ASSUME NEW s \in SessionState,
         NEW t \in UNION {ConfirmReview(s), ReturnFromReview(s),
                          ChooseReferral(s), RequestHelp(s)}
  PROVE  t \in SessionState
<1>1. CASE t \in ConfirmReview(s)
  BY <1>1 DEF ConfirmReview, SessionState, WorkflowStates
<1>2. CASE t \in ReturnFromReview(s)
  <2>1. [s EXCEPT !.ws = "collect_missing_fields"] \in SessionState
    BY DEF SessionState, WorkflowStates
  <2> QED BY <1>2, <2>1, AskIfCollectingType DEF ReturnFromReview
<1>3. CASE t \in ChooseReferral(s)
  BY <1>3 DEF ChooseReferral, SessionState
<1>4. CASE t \in RequestHelp(s)
  BY <1>4 DEF RequestHelp, SessionState, ExitReasons
<1> QED BY <1>1, <1>2, <1>3, <1>4

\* A new session has the record's shape (SessionState defaults).
LEMMA NewSessionType == NewSession \in SessionState
BY DEF NewSession, SessionState, WorkflowStates, Questions

\* advance() returns a session record for every session record and input
\* (state_machine.advance).
LEMMA AdvanceType ==
  ASSUME NEW s \in SessionState, NEW t \in Advance(s)
  PROVE  t \in SessionState
BY EventInputsType, CardInputsType, ChatInputsType, ReviewInputsType DEF Advance

-----------------------------------------------------------------------------
(* Answers and verdicts: the part of the invariant that also holds between  *)
(* the automatic steps.                                                     *)

Grounded(s) ==
  /\ s \in SessionState
  /\ OnlyGatedAnswers(s)
  /\ JudgedOnEvidence(s)

\* Items may become pending, absent, declined or a case for a human, and fields
\* may be answered, without any new verdict being reached.
LEMMA GroundedWithoutVerdict ==
  ASSUME NEW s, Grounded(s), NEW t \in SessionState, OnlyGatedAnswers(t),
         Answered(s) \subseteq Answered(t),
         \A i \in Items : t.items[i] \in {s.items[i], "pending", "absent",
                                 "declined_by_user", "needs_human_review"}
  PROVE  Grounded(t)
<1> SUFFICES ASSUME NEW i \in Items,
                    t.items[i] \in {"eligible", "ineligible", "needs_information"}
             PROVE  /\ i \in VerifiedItems
                    /\ FieldsFor(i) # {}
                    /\ FieldsFor(i) \subseteq Answered(t)
  BY DEF Grounded, JudgedOnEvidence
<1>1. t.items[i] = s.items[i]
  OBVIOUS
<1> QED BY <1>1 DEF Grounded, JudgedOnEvidence

\* Answers that passed the gate take no evidence away (_record_answers).
LEMMA GroundedMerge ==
  ASSUME NEW s, Grounded(s), NEW a \in Answers, GateAccepts(a)
  PROVE  Grounded(Merge(s, a))
<1>1. s \in SessionState /\ Merge(s, a) \in SessionState
  BY MergeType DEF Grounded
<1>2. /\ Merge(s, a).items = s.items
      /\ Merge(s, a).attrs = [f \in Fields |->
                               IF a[f] = NoValue THEN s.attrs[f] ELSE a[f]]
  BY <1>1 DEF Merge, SessionState
<1>3. OnlyGatedAnswers(Merge(s, a))
  BY <1>2 DEF OnlyGatedAnswers, Answered, GateAccepts, Grounded
<1>4. Answered(s) \subseteq Answered(Merge(s, a))
  BY <1>2 DEF Answered
<1> QED BY <1>1, <1>2, <1>3, <1>4, GroundedWithoutVerdict

\* A record that differs in neither items nor answers.
LEMMA GroundedSame ==
  ASSUME NEW s, Grounded(s), NEW t \in SessionState,
         t.items = s.items, t.attrs = s.attrs
  PROVE  Grounded(t)
BY DEF Grounded, OnlyGatedAnswers, JudgedOnEvidence, Answered

\* Asking the default question changes the question only.
LEMMA AskIfCollectingKeeps ==
  ASSUME NEW s \in SessionState
  PROVE  \E q \in Questions : AskIfCollecting(s) = [s EXCEPT !.question = q]
<1>1. s = [s EXCEPT !.question = s.question] /\ s.question \in Questions
  BY DEF SessionState
<1> QED BY <1>1, DefaultQuestionType DEF AskIfCollecting

\* Asking reaches no verdict.
LEMMA GroundedAsk ==
  ASSUME NEW s, Grounded(s)
  PROVE  Grounded(AskIfCollecting(s))
<1>1. s \in SessionState /\ AskIfCollecting(s) \in SessionState
  BY AskIfCollectingType DEF Grounded
<1>2. AskIfCollecting(s).items = s.items /\ AskIfCollecting(s).attrs = s.attrs
  BY <1>1, AskIfCollectingKeeps DEF SessionState
<1> QED BY <1>1, <1>2, GroundedSame

\* Refreshing the list reaches no verdict (_refresh_entitlements).
LEMMA GroundedRefresh ==
  ASSUME NEW s, Grounded(s)
  PROVE  Grounded(RefreshEntitlements(s))
<1> DEFINE t == RefreshEntitlements(s)
<1>1. s \in SessionState /\ t \in SessionState
  BY RefreshType DEF Grounded
<1>2. t.attrs = s.attrs
  BY <1>1, RefreshType DEF SessionState
<1>3. \A i \in Items : t.items[i] \in {s.items[i], "pending", "absent"}
  BY <1>1 DEF RefreshEntitlements, ReexpandAll, MergeLocalEntitlements,
              SessionState
<1>4. OnlyGatedAnswers(t) /\ Answered(s) \subseteq Answered(t)
  BY <1>2 DEF Grounded, OnlyGatedAnswers, Answered
<1> QED BY <1>1, <1>3, <1>4, GroundedWithoutVerdict

\* Judging reaches verdicts on complete evidence only (_resolve_item).
LEMMA GroundedEvaluate ==
  ASSUME NEW s, Grounded(s), NEW dec \in Decisions
  PROVE  Grounded(EvaluateReadyItems(s, dec))
<1> DEFINE t == EvaluateReadyItems(s, dec)
<1>1. s \in SessionState /\ t \in SessionState
  BY EvaluateType DEF Grounded
<1>2. /\ t.attrs = s.attrs
      /\ t.items = [i \in Items |-> IF ProgramStatus[i] \in Hidden THEN "absent"
                                    ELSE ResolveItem(s, i, dec)]
  BY <1>1 DEF EvaluateReadyItems, SessionState
<1>3. Answered(t) = Answered(s) /\ OnlyGatedAnswers(t)
  BY <1>2 DEF Answered, OnlyGatedAnswers, Grounded
<1>4. JudgedOnEvidence(t)
  <2> SUFFICES ASSUME NEW i \in Items,
                      t.items[i] \in {"eligible", "ineligible", "needs_information"}
               PROVE  /\ i \in VerifiedItems
                      /\ FieldsFor(i) # {}
                      /\ FieldsFor(i) \subseteq Answered(s)
    BY <1>3 DEF JudgedOnEvidence
  <2>1. ResolveItem(s, i, dec) \in {"eligible", "ineligible", "needs_information"}
    BY <1>2
  <2>2. CASE s.items[i] = "pending"
    BY <2>1, <2>2 DEF ResolveItem
  <2>3. CASE s.items[i] # "pending"
    BY <2>1, <2>3 DEF ResolveItem, Grounded, JudgedOnEvidence
  <2> QED BY <2>2, <2>3
<1> QED BY <1>1, <1>3, <1>4 DEF Grounded

\* The guardrails only hand items to a human (_downgrade_unsettled_items).
LEMMA GroundedGuardrails ==
  ASSUME NEW s, Grounded(s), NEW before
  PROVE  Grounded(CheckLoopGuardrails(s, before))
<1> DEFINE t == CheckLoopGuardrails(s, before)
<1>1. s \in SessionState /\ t \in SessionState
  BY GuardrailsType DEF Grounded
<1>2. t.attrs = s.attrs
  BY <1>1 DEF CheckLoopGuardrails, SessionState
<1>3. \A i \in Items : t.items[i] \in {s.items[i], "needs_human_review"}
  BY <1>1 DEF CheckLoopGuardrails, DowngradeUnsettled, SessionState
<1>4. OnlyGatedAnswers(t) /\ Answered(s) \subseteq Answered(t)
  BY <1>2 DEF Grounded, OnlyGatedAnswers, Answered
<1> QED BY <1>1, <1>3, <1>4, GroundedWithoutVerdict

\* So no automatic step reaches a verdict without evidence (_auto_advance).
LEMMA GroundedAutoAdvance ==
  ASSUME NEW s, Grounded(s), NEW before, NEW dec,
         s.ws = "retrieve_rules" => dec \in Decisions
  PROVE  Grounded(AutoAdvance(s, before, dec))
<1>0. s \in SessionState
  BY DEF Grounded
<1>1. CASE s.ws = "resolve_entitlements"
  <2> DEFINE t == [ResolveEntitlements(s) EXCEPT !.ws = "collect_missing_fields"]
  <2>1. t \in SessionState
    BY <1>0, ResolveEntitlementsType DEF SessionState, WorkflowStates
  <2>2. /\ t.attrs = s.attrs
        /\ \A i \in Items : t.items[i] \in {s.items[i], "pending", "absent"}
    BY <1>0 DEF ResolveEntitlements, SessionState
  <2>3. OnlyGatedAnswers(t) /\ Answered(s) \subseteq Answered(t)
    BY <2>2 DEF Grounded, OnlyGatedAnswers, Answered
  <2>4. Grounded(t)
    BY <2>1, <2>2, <2>3, GroundedWithoutVerdict
  <2> QED BY <1>1, <2>4, GroundedAsk DEF AutoAdvance
<1>2. CASE s.ws = "retrieve_rules"
  BY <1>2, GroundedEvaluate, GroundedGuardrails, GroundedAsk DEF AutoAdvance
<1>3. CASE s.ws \notin {"resolve_entitlements", "retrieve_rules"}
  BY <1>3, GroundedAsk DEF AutoAdvance
<1> QED BY <1>1, <1>2, <1>3

\* No input does either (advance).
LEMMA GroundedStep ==
  ASSUME NEW s, Grounded(s), NEW t \in Advance(s)
  PROVE  Grounded(t)
<1>1. s \in SessionState /\ t \in SessionState
  BY AdvanceType DEF Grounded
<1>2. CASE t \in RecordAnswers(s)
  <2>1. PICK a \in Answers, dec \in Decisions :
          /\ GateAccepts(a)
          /\ t = AutoAdvance(RefreshEntitlements(ToRetrieve(Merge(s, a))), s, dec)
    BY <1>2, AnswersAdvance
  <2>2. Grounded(Merge(s, a))
    BY <2>1, GroundedMerge
  <2>3. Grounded(ToRetrieve(Merge(s, a)))
    <3> DEFINE m == Merge(s, a)
    <3>1. m \in SessionState /\ ToRetrieve(m) \in SessionState
      BY <2>2, ToRetrieveType DEF Grounded
    <3>2. ToRetrieve(m).items = m.items /\ ToRetrieve(m).attrs = m.attrs
      BY <3>1 DEF ToRetrieve, SessionState
    <3> QED BY <2>2, <3>1, <3>2, GroundedSame
  <2> QED BY <2>1, <2>3, GroundedRefresh, GroundedAutoAdvance
<1>3. CASE t \in CollectFromChat(s)
  <2> DEFINE U(a) == RefreshEntitlements(Merge(s, a))
  <2>1. PICK a \in ChatAnswers(s) :
          t \in IF Missing(U(a)) # {} THEN AskOn(U(a))
                ELSE {AutoAdvance(ToRetrieve(U(a)), s, dec) : dec \in Decisions}
    BY <1>3, ChatAdvances
  <2>2. Grounded(U(a))
    BY GroundedMerge, GroundedRefresh DEF ChatAnswers
  <2>3. U(a) \in SessionState
    BY <2>2 DEF Grounded
  <2> HIDE DEF U
  <2>4. CASE Missing(U(a)) # {}
    <3>1. t.items = U(a).items /\ t.attrs = U(a).attrs
      BY <2>1, <2>3, <2>4 DEF AskOn, SessionState
    <3> QED BY <1>1, <2>2, <3>1, GroundedSame
  <2>5. CASE Missing(U(a)) = {}
    <3>1. /\ ToRetrieve(U(a)) \in SessionState
          /\ ToRetrieve(U(a)).items = U(a).items
          /\ ToRetrieve(U(a)).attrs = U(a).attrs
      BY <2>3, ToRetrieveType DEF ToRetrieve, SessionState
    <3>2. Grounded(ToRetrieve(U(a)))
      BY <2>2, <3>1, GroundedSame
    <3> QED BY <2>1, <2>5, <3>2, GroundedAutoAdvance
  <2> QED BY <2>4, <2>5
<1>4. CASE t \in ConfirmEvent(s)
  <2>1. PICK chosen \in SUBSET (s.events \cup s.extras) :
          t = AutoAdvance([s EXCEPT !.events = chosen, !.extras = {},
                                    !.ws = "resolve_entitlements"], s, <<>>)
    BY <1>4 DEF ConfirmEvent
  <2> DEFINE u == [s EXCEPT !.events = chosen, !.extras = {},
                            !.ws = "resolve_entitlements"]
  <2>2. /\ u \in SessionState /\ u.ws = "resolve_entitlements"
        /\ u.items = s.items /\ u.attrs = s.attrs
    BY <1>1 DEF SessionState, WorkflowStates
  <2>3. Grounded(u)
    BY <2>2, GroundedSame
  <2> QED BY <2>1, <2>2, <2>3, GroundedAutoAdvance
<1>5. CASE t \in DeclineItem(s)
  <2>1. PICK i \in Items :
          t = AskIfCollecting([s EXCEPT !.items[i] = "declined_by_user"])
    BY <1>5 DEF DeclineItem
  <2> DEFINE u == [s EXCEPT !.items[i] = "declined_by_user"]
  <2>2. /\ u \in SessionState /\ u.attrs = s.attrs
        /\ \A j \in Items : u.items[j] \in {s.items[j], "declined_by_user"}
    BY <1>1 DEF SessionState, ItemStatuses
  <2>3. Grounded(u)
    BY <2>2, GroundedWithoutVerdict DEF Grounded, OnlyGatedAnswers, Answered
  <2> QED BY <2>1, <2>3, GroundedAsk
<1>6. CASE t \in ReturnFromReview(s)
  <2> DEFINE u == [s EXCEPT !.ws = "collect_missing_fields"]
  <2>1. u \in SessionState /\ u.items = s.items /\ u.attrs = s.attrs
    BY <1>1 DEF SessionState, WorkflowStates
  <2> QED BY <1>6, <2>1, GroundedSame, GroundedAsk DEF ReturnFromReview
<1>7. CASE t \in UNION {ReceiveLifeEvent(s), DenyEvent(s), ChatUnavailable(s),
                        ConfirmReview(s), ChooseReferral(s), RequestHelp(s)}
  <2>1. t \in ReceiveLifeEvent(s) => t.items = s.items /\ t.attrs = s.attrs
    BY <1>1 DEF ReceiveLifeEvent, SessionState
  <2>2. t \in DenyEvent(s) => t.items = s.items /\ t.attrs = s.attrs
    BY <1>1 DEF DenyEvent, SessionState
  <2>3. t \in ChatUnavailable(s) => t.items = s.items /\ t.attrs = s.attrs
    BY <1>1 DEF ChatUnavailable, SessionState
  <2>4. t \in ConfirmReview(s) \cup ChooseReferral(s) \cup RequestHelp(s)
          => t.items = s.items /\ t.attrs = s.attrs
    BY <1>1 DEF ConfirmReview, ChooseReferral, RequestHelp, SessionState
  <2> QED BY <1>1, <1>7, <2>1, <2>2, <2>3, <2>4, GroundedSame
<1> QED BY <1>2, <1>3, <1>4, <1>5, <1>6, <1>7 DEF Advance

-----------------------------------------------------------------------------
(* Where advance() comes to rest.                                           *)

\* The part of the invariant that only holds between two inputs.
AtRest(s) ==
  /\ RestsWhereUserCanAct(s)
  /\ NothingLeftOpen(s)
  /\ LimitLeavesNoneOpen(s)
  /\ AlwaysAQuestion(s)
  /\ RetryLimitIsExact(s)

\* Asking changes the question only, and there is one if a field is missing.
LEMMA AskIfCollectingRests ==
  ASSUME NEW s \in SessionState,
         RestsWhereUserCanAct(s), NothingLeftOpen(s), LimitLeavesNoneOpen(s),
         RetryLimitIsExact(s)
  PROVE  AtRest(AskIfCollecting(s))
<1> DEFINE t == AskIfCollecting(s)
<1>1. PICK q \in Questions : t = [s EXCEPT !.question = q]
  BY AskIfCollectingKeeps
<1>2. /\ t.ws = s.ws /\ t.items = s.items /\ t.exit = s.exit
      /\ t.retries = s.retries /\ t.attrs = s.attrs
  BY <1>1 DEF SessionState
<1>3. AlwaysAQuestion(t)
  <2> SUFFICES ASSUME s.ws = "collect_missing_fields", Missing(s) # {}
               PROVE  t.question # "none"
    BY <1>2 DEF AlwaysAQuestion, Missing
  <2> QED BY DefaultQuestionType DEF AskIfCollecting, SessionState
<1> HIDE DEF t
<1>4. RestsWhereUserCanAct(t) /\ NothingLeftOpen(t) /\ LimitLeavesNoneOpen(t)
  BY <1>2 DEF RestsWhereUserCanAct, NothingLeftOpen, LimitLeavesNoneOpen,
              HasUnsettled, Open
<1>5. RetryLimitIsExact(t)
  BY <1>2 DEF RetryLimitIsExact
<1>6. AtRest(t)
  BY <1>3, <1>4, <1>5 DEF AtRest
<1> QED BY <1>6 DEF t

\* The guardrails stop the consultation, ask on, or finish with every item
\* settled; they never report the limit of the event confirmation.
LEMMA GuardrailsRest ==
  ASSUME NEW s \in SessionState, s.exit = "none",
         s.ws = "evaluate_eligibility", s.retries <= MaxEventRetries, NEW before
  PROVE  AtRest(AskIfCollecting(CheckLoopGuardrails(s, before)))
<1> DEFINE t == CheckLoopGuardrails(s, before)
<1>0. t \in SessionState
  BY GuardrailsType
<1>1. s.loops \in Nat /\ s.retries \in Nat
  BY DEF SessionState
<1>2. t.retries = s.retries
  BY DEF CheckLoopGuardrails, SessionState
<1>3. CASE s.loops >= MaxLoopIterations /\ HasUnsettled(s)
  <2>1. /\ t.exit = "loop_limit_reached" /\ t.ws = "evaluate_eligibility"
        /\ t.items = DowngradeUnsettled(s.items)
    BY <1>3 DEF CheckLoopGuardrails, SessionState
  <2>2. ~HasUnsettled(t)
    BY <2>1 DEF HasUnsettled, DowngradeUnsettled, Unsettled
  <2>3. /\ RestsWhereUserCanAct(t) /\ NothingLeftOpen(t)
        /\ LimitLeavesNoneOpen(t) /\ RetryLimitIsExact(t)
    BY <1>1, <1>2, <2>1, <2>2, BoundAssumption
       DEF RestsWhereUserCanAct, NothingLeftOpen, LimitLeavesNoneOpen,
           RetryLimitIsExact, Open
  <2> QED BY <1>0, <2>3, AskIfCollectingRests
<1>4. CASE ~(s.loops >= MaxLoopIterations /\ HasUnsettled(s)) /\ NoProgress(s, before)
  <2>1. t.exit = "no_progress" /\ t.ws = "evaluate_eligibility"
    BY <1>4 DEF CheckLoopGuardrails, SessionState
  <2>2. /\ RestsWhereUserCanAct(t) /\ NothingLeftOpen(t)
        /\ LimitLeavesNoneOpen(t) /\ RetryLimitIsExact(t)
    BY <1>1, <1>2, <2>1, BoundAssumption
       DEF RestsWhereUserCanAct, NothingLeftOpen, LimitLeavesNoneOpen,
           RetryLimitIsExact, Open
  <2> QED BY <1>0, <2>2, AskIfCollectingRests
<1>5. CASE ~(s.loops >= MaxLoopIterations /\ HasUnsettled(s)) /\ ~NoProgress(s, before)
  <2>1. t.exit = "none" /\ t.items = s.items /\ t.ws = AfterEvaluate(s)
    BY <1>5 DEF CheckLoopGuardrails, SessionState
  <2>2. t.ws \in {"collect_missing_fields", "confirm", "complete"}
    BY <2>1 DEF AfterEvaluate
  <2>3. NothingLeftOpen(t)
    BY <1>1, <1>5, <2>1, BoundAssumption
       DEF NothingLeftOpen, HasUnsettled, AfterEvaluate, ShouldLoopBack
  <2>4. RestsWhereUserCanAct(t)
    BY <2>2 DEF RestsWhereUserCanAct, Open, AllowedInputs, WorkflowStates
  <2>5. LimitLeavesNoneOpen(t) /\ RetryLimitIsExact(t)
    BY <1>1, <1>2, <2>1, BoundAssumption
       DEF LimitLeavesNoneOpen, RetryLimitIsExact
  <2> QED BY <1>0, <2>3, <2>4, <2>5, AskIfCollectingRests
<1> QED BY <1>3, <1>4, <1>5

\* An open session whose denials are within the limit.
Going(s) == s \in SessionState /\ s.exit = "none" /\ s.retries <= MaxEventRetries

\* The automatic steps end where the user can act (_auto_advance).
LEMMA AutoAdvanceRests ==
  ASSUME NEW s, Going(s), NEW before, NEW dec,
         \/ s.ws = "resolve_entitlements"
         \/ s.ws = "retrieve_rules" /\ dec \in Decisions
  PROVE  AtRest(AutoAdvance(s, before, dec))
<1>1. CASE s.ws = "resolve_entitlements"
  <2> DEFINE t == [ResolveEntitlements(s) EXCEPT !.ws = "collect_missing_fields"]
  <2>1. ResolveEntitlements(s) \in SessionState
    BY ResolveEntitlementsType DEF Going
  <2>2. /\ ResolveEntitlements(s).exit = s.exit
        /\ ResolveEntitlements(s).retries = s.retries
    BY DEF ResolveEntitlements, Going, SessionState
  <2>3. /\ t \in SessionState /\ t.exit = "none" /\ t.retries = s.retries
        /\ t.ws = "collect_missing_fields"
    BY <2>1, <2>2 DEF Going, SessionState, WorkflowStates
  <2>4. s.retries \in Nat /\ s.retries <= MaxEventRetries
    BY DEF Going, SessionState
  <2>5. /\ RestsWhereUserCanAct(t) /\ NothingLeftOpen(t)
        /\ LimitLeavesNoneOpen(t) /\ RetryLimitIsExact(t)
    BY <2>3, <2>4, BoundAssumption
       DEF RestsWhereUserCanAct, NothingLeftOpen, LimitLeavesNoneOpen,
           RetryLimitIsExact, AllowedInputs, WorkflowStates
  <2> QED BY <1>1, <2>3, <2>5, AskIfCollectingRests DEF AutoAdvance
<1>2. CASE s.ws = "retrieve_rules" /\ dec \in Decisions
  <2> DEFINE u == EvaluateReadyItems(s, dec)
  <2>1. /\ u \in SessionState /\ u.exit = "none" /\ u.retries <= MaxEventRetries
        /\ u.ws = "evaluate_eligibility"
    BY <1>2, EvaluateType DEF EvaluateReadyItems, Going, SessionState
  <2> HIDE DEF u
  <2>2. AtRest(AskIfCollecting(CheckLoopGuardrails(u, before)))
    BY <2>1, GuardrailsRest
  <2> QED BY <1>2, <2>2 DEF AutoAdvance, u
<1> QED BY <1>1, <1>2

\* Recording answers and refreshing the list do not end the consultation.
LEMMA GoingKept ==
  ASSUME NEW s, Going(s)
  PROVE  /\ \A a \in Answers : Going(Merge(s, a)) /\ Merge(s, a).ws = s.ws
         /\ Going(ToRetrieve(s)) /\ ToRetrieve(s).ws = "retrieve_rules"
         /\ Going(RefreshEntitlements(s)) /\ RefreshEntitlements(s).ws = s.ws
<1>0. s \in SessionState
  BY DEF Going
<1>1. \A a \in Answers : Going(Merge(s, a)) /\ Merge(s, a).ws = s.ws
  BY <1>0, MergeType DEF Going, Merge, SessionState
<1>2. Going(ToRetrieve(s)) /\ ToRetrieve(s).ws = "retrieve_rules"
  BY <1>0, ToRetrieveType DEF Going, ToRetrieve, SessionState
<1>3. Going(RefreshEntitlements(s)) /\ RefreshEntitlements(s).ws = s.ws
  BY <1>0, RefreshType DEF Going, SessionState
<1> QED BY <1>1, <1>2, <1>3

\* Every input that is accepted finds the session going.
LEMMA AcceptedWhileGoing ==
  ASSUME NEW s \in SessionState, AtRest(s), Open(s)
  PROVE  Going(s) /\ s.ws \in {"understand_event", "collect_missing_fields", "confirm"}
<1>1. s.exit = "none" /\ AllowedInputs[s.ws] # {} /\ s.ws \in WorkflowStates
  BY DEF AtRest, RestsWhereUserCanAct, Open, SessionState
<1>2. s.retries \in Nat /\ ~(s.retries > MaxEventRetries)
  BY <1>1 DEF AtRest, RetryLimitIsExact, SessionState
<1>3. s.ws \in {"understand_event", "collect_missing_fields", "confirm"}
  BY <1>1 DEF AllowedInputs, WorkflowStates
<1> QED BY <1>1, <1>2, <1>3, BoundAssumption DEF Going

\* Inputs about the events leave the consultation at rest.
LEMMA RestAfterEvents ==
  ASSUME NEW s \in SessionState, AtRest(s),
         NEW t \in ReceiveLifeEvent(s) \cup ConfirmEvent(s) \cup DenyEvent(s)
  PROVE  AtRest(t)
<1>0. /\ Open(s) /\ s.ws = "understand_event" /\ s.exit = "none"
      /\ s.retries \in Nat /\ s.retries <= MaxEventRetries
  <2>1. Open(s)
    BY DEF ReceiveLifeEvent, ConfirmEvent, DenyEvent, CanConfirm, Accepts
  <2>2. {"life_event_text", "event_confirmation"} \cap AllowedInputs[s.ws] # {}
    BY DEF ReceiveLifeEvent, ConfirmEvent, DenyEvent, CanConfirm, Accepts
  <2>3. s.ws = "understand_event"
    BY <2>1, <2>2, AcceptedWhileGoing DEF AllowedInputs, WorkflowStates
  <2> QED BY <2>1, <2>3, AcceptedWhileGoing DEF Going, SessionState
<1>1. CASE t \in ConfirmEvent(s)
  <2>1. PICK chosen \in SUBSET (s.events \cup s.extras) :
          t = AutoAdvance([s EXCEPT !.events = chosen, !.extras = {},
                                    !.ws = "resolve_entitlements"], s, <<>>)
    BY <1>1 DEF ConfirmEvent
  <2> DEFINE u == [s EXCEPT !.events = chosen, !.extras = {},
                            !.ws = "resolve_entitlements"]
  <2>2. Going(u) /\ u.ws = "resolve_entitlements"
    BY <1>0 DEF Going, SessionState, WorkflowStates
  <2> QED BY <2>1, <2>2, AutoAdvanceRests
<1>2. CASE t \in ReceiveLifeEvent(s)
  <2>1. t.ws = s.ws /\ t.exit = s.exit /\ t.retries = s.retries /\ t.items = s.items
    BY <1>2 DEF ReceiveLifeEvent, SessionState
  <2> QED BY <1>0, <2>1, BoundAssumption
          DEF AtRest, RestsWhereUserCanAct, NothingLeftOpen, LimitLeavesNoneOpen,
              AlwaysAQuestion, RetryLimitIsExact, AllowedInputs, WorkflowStates
<1>3. CASE t \in DenyEvent(s)
  <2>1. /\ t.ws = s.ws /\ t.retries = s.retries + 1
        /\ t.exit = IF s.retries + 1 > MaxEventRetries
                    THEN "event_retry_limit_reached" ELSE s.exit
    BY <1>3 DEF DenyEvent, SessionState
  <2> QED BY <1>0, <2>1, BoundAssumption
          DEF AtRest, RestsWhereUserCanAct, NothingLeftOpen, LimitLeavesNoneOpen,
              AlwaysAQuestion, RetryLimitIsExact, AllowedInputs, WorkflowStates
<1> QED BY <1>1, <1>2, <1>3

\* Answers, chat turns and declined items leave the consultation at rest.
LEMMA RestAfterCollecting ==
  ASSUME NEW s \in SessionState, AtRest(s),
         NEW t \in UNION {RecordAnswers(s), ChatUnavailable(s), CollectFromChat(s),
                         DeclineItem(s)}
  PROVE  AtRest(t)
<1>0. Going(s) /\ s.ws = "collect_missing_fields"
  <2>1. Open(s) /\ {"attribute_answers", "attribute_chat_turn", "item_decline"}
                     \cap AllowedInputs[s.ws] # {}
    <3>1. CASE t \in RecordAnswers(s)
      BY <3>1 DEF RecordAnswers, Accepts
    <3>2. CASE t \in ChatUnavailable(s)
      BY <3>2 DEF ChatUnavailable, CanChat, Accepts
    <3>3. CASE t \in CollectFromChat(s)
      BY <3>3 DEF CollectFromChat, ChatAnswers, CanChat, Accepts
    <3>4. CASE t \in DeclineItem(s)
      BY <3>4 DEF DeclineItem, Accepts
    <3> QED BY <3>1, <3>2, <3>3, <3>4
  <2> QED BY <2>1, AcceptedWhileGoing DEF AllowedInputs, WorkflowStates
\* A going session that collects and has its question is at rest.
<1>1. ASSUME NEW u, Going(u), u.ws = "collect_missing_fields", AlwaysAQuestion(u)
      PROVE  AtRest(u)
  <2>1. u.exit = "none" /\ u.retries \in Nat /\ u.retries <= MaxEventRetries
    BY <1>1 DEF Going, SessionState
  <2> QED BY <1>1, <2>1, BoundAssumption
          DEF AtRest, RestsWhereUserCanAct, NothingLeftOpen, LimitLeavesNoneOpen,
              RetryLimitIsExact, AllowedInputs, WorkflowStates
<1>2. CASE t \in RecordAnswers(s)
  <2>1. PICK a \in Answers, dec \in Decisions :
          t = AutoAdvance(RefreshEntitlements(ToRetrieve(Merge(s, a))), s, dec)
    BY <1>2, AnswersAdvance
  <2> DEFINE u == RefreshEntitlements(ToRetrieve(Merge(s, a)))
  <2>2. Going(u) /\ u.ws = "retrieve_rules"
    BY <1>0, GoingKept
  <2> QED BY <2>1, <2>2, AutoAdvanceRests
<1>3. CASE t \in ChatUnavailable(s)
  <2>1. t = [s EXCEPT !.question = DefaultQuestion(s), !.loops = @ + 1]
        /\ Missing(s) # {}
    BY <1>3 DEF ChatUnavailable
  <2>2. t \in SessionState
    BY <1>3, ChatInputsType
  <2>3. Going(t) /\ t.ws = "collect_missing_fields" /\ t.question = DefaultQuestion(s)
    BY <1>0, <2>1, <2>2 DEF Going, SessionState
  <2> QED BY <1>1, <2>1, <2>3, DefaultQuestionType DEF AlwaysAQuestion
<1>4. CASE t \in CollectFromChat(s)
  <2> DEFINE U(a) == RefreshEntitlements(Merge(s, a))
  <2>1. PICK a \in ChatAnswers(s) :
          t \in IF Missing(U(a)) # {} THEN AskOn(U(a))
                ELSE {AutoAdvance(ToRetrieve(U(a)), s, dec) : dec \in Decisions}
    BY <1>4, ChatAdvances
  <2>2. Going(U(a)) /\ U(a).ws = "collect_missing_fields"
    BY <1>0, GoingKept DEF ChatAnswers
  <2> HIDE DEF U
  <2>3. CASE Missing(U(a)) # {}
    <3>1. U(a) \in SessionState /\ t \in SessionState
      BY <1>4, <2>2, ChatInputsType DEF Going
    <3>2. PICK q \in {DefaultQuestion(U(a)), "model"} :
            t = [U(a) EXCEPT !.loops = @ + 1, !.question = q]
      BY <2>1, <2>3 DEF AskOn
    <3>3. q # "none"
      BY <2>3, <3>1, DefaultQuestionType
    <3>4. Going(t) /\ t.ws = "collect_missing_fields" /\ t.question = q
      BY <2>2, <3>1, <3>2 DEF Going, SessionState
    <3> QED BY <1>1, <3>3, <3>4 DEF AlwaysAQuestion
  <2>4. CASE Missing(U(a)) = {}
    <3>1. Going(ToRetrieve(U(a))) /\ ToRetrieve(U(a)).ws = "retrieve_rules"
      BY <2>2, GoingKept
    <3> QED BY <2>1, <2>4, <3>1, AutoAdvanceRests
  <2> QED BY <2>3, <2>4
<1>5. CASE t \in DeclineItem(s)
  <2>1. PICK i \in Items :
          t = AskIfCollecting([s EXCEPT !.items[i] = "declined_by_user"])
    BY <1>5 DEF DeclineItem
  <2> DEFINE u == [s EXCEPT !.items[i] = "declined_by_user"]
  <2>2. Going(u) /\ u.ws = "collect_missing_fields"
    BY <1>0 DEF Going, SessionState, ItemStatuses
  <2>3. u.exit = "none" /\ u.retries \in Nat /\ u.retries <= MaxEventRetries
    BY <2>2 DEF Going, SessionState
  <2> HIDE DEF u
  <2>4. /\ RestsWhereUserCanAct(u) /\ NothingLeftOpen(u)
        /\ LimitLeavesNoneOpen(u) /\ RetryLimitIsExact(u)
    BY <2>2, <2>3, BoundAssumption
       DEF RestsWhereUserCanAct, NothingLeftOpen, LimitLeavesNoneOpen,
           RetryLimitIsExact, AllowedInputs, WorkflowStates
  <2>5. AtRest(AskIfCollecting(u))
    BY <2>2, <2>4, AskIfCollectingRests DEF Going
  <2> QED BY <2>1, <2>5 DEF u
<1> QED BY <1>2, <1>3, <1>4, <1>5

\* The review and a request for help leave the consultation at rest.
LEMMA RestAfterReview ==
  ASSUME NEW s \in SessionState, AtRest(s),
         NEW t \in UNION {ConfirmReview(s), ReturnFromReview(s),
                          ChooseReferral(s), RequestHelp(s)}
  PROVE  AtRest(t)
<1>0. Open(s)
  BY DEF ConfirmReview, ReturnFromReview, ChooseReferral, RequestHelp, Accepts
<1>1. Going(s) /\ s.retries \in Nat /\ s.retries <= MaxEventRetries
  BY <1>0, AcceptedWhileGoing DEF Going, SessionState
<1>2. CASE t \in ConfirmReview(s)
  <2>1. s.ws = "confirm"
    BY <1>0, <1>2, AcceptedWhileGoing
       DEF ConfirmReview, Accepts, AllowedInputs, WorkflowStates
  <2>2. /\ t.ws = "complete" /\ t.exit = s.exit /\ t.items = s.items
        /\ t.retries = s.retries
    BY <1>2 DEF ConfirmReview, SessionState
  <2> QED BY <1>1, <2>1, <2>2, BoundAssumption
          DEF AtRest, RestsWhereUserCanAct, NothingLeftOpen, LimitLeavesNoneOpen,
              AlwaysAQuestion, RetryLimitIsExact, HasUnsettled, Open, Going
<1>3. CASE t \in ReturnFromReview(s)
  <2> DEFINE u == [s EXCEPT !.ws = "collect_missing_fields"]
  <2>1. /\ u \in SessionState /\ u.ws = "collect_missing_fields"
        /\ u.exit = "none" /\ u.retries = s.retries
    BY <1>1 DEF Going, SessionState, WorkflowStates
  <2> HIDE DEF u
  <2>2. /\ RestsWhereUserCanAct(u) /\ NothingLeftOpen(u)
        /\ LimitLeavesNoneOpen(u) /\ RetryLimitIsExact(u)
    BY <1>1, <2>1, BoundAssumption
       DEF RestsWhereUserCanAct, NothingLeftOpen, LimitLeavesNoneOpen,
           RetryLimitIsExact, AllowedInputs, WorkflowStates
  <2>3. t = AskIfCollecting(u)
    BY <1>3 DEF ReturnFromReview, u
  <2> QED BY <2>1, <2>2, <2>3, AskIfCollectingRests
<1>4. CASE t \in ChooseReferral(s)
  <2>1. /\ t.ws = s.ws /\ t.exit = s.exit /\ t.items = s.items
        /\ t.retries = s.retries /\ t.attrs = s.attrs /\ t.question = s.question
    BY <1>4 DEF ChooseReferral, SessionState
  <2>2. RestsWhereUserCanAct(t) /\ NothingLeftOpen(t) /\ LimitLeavesNoneOpen(t)
    BY <2>1 DEF AtRest, RestsWhereUserCanAct, NothingLeftOpen,
                LimitLeavesNoneOpen, HasUnsettled, Open
  <2>3. AlwaysAQuestion(t) /\ RetryLimitIsExact(t)
    BY <2>1 DEF AtRest, AlwaysAQuestion, RetryLimitIsExact, Missing
  <2> QED BY <2>2, <2>3 DEF AtRest
<1>5. CASE t \in RequestHelp(s)
  <2>1. /\ t.ws = s.ws /\ t.exit = "user_requested_help" /\ t.items = s.items
        /\ t.retries = s.retries /\ t.attrs = s.attrs /\ t.question = s.question
    BY <1>5 DEF RequestHelp, SessionState
  <2>2. RestsWhereUserCanAct(t) /\ NothingLeftOpen(t) /\ LimitLeavesNoneOpen(t)
    BY <2>1 DEF AtRest, RestsWhereUserCanAct, NothingLeftOpen,
                LimitLeavesNoneOpen, HasUnsettled, Open
  <2>3. RetryLimitIsExact(t)
    BY <1>1, <2>1, BoundAssumption DEF RetryLimitIsExact
  <2>4. AlwaysAQuestion(t)
    BY <2>1 DEF AtRest, AlwaysAQuestion, Missing
  <2> QED BY <2>2, <2>3, <2>4 DEF AtRest
<1> QED BY <1>2, <1>3, <1>4, <1>5

\* So every input does (advance).
LEMMA RestStep ==
  ASSUME NEW s \in SessionState, AtRest(s), NEW t \in Advance(s)
  PROVE  AtRest(t)
BY RestAfterEvents, RestAfterCollecting, RestAfterReview DEF Advance

\* A new session is grounded and at rest.
LEMMA NewSessionInv == Grounded(NewSession) /\ AtRest(NewSession)
<1>1. /\ NewSession.ws = "understand_event" /\ NewSession.exit = "none"
      /\ NewSession.retries = 0
      /\ \A i \in Items : NewSession.items[i] = "absent"
      /\ \A f \in Fields : NewSession.attrs[f] = NoValue
  BY DEF NewSession
<1>2. Grounded(NewSession)
  BY <1>1, NewSessionType DEF Grounded, OnlyGatedAnswers, Answered, JudgedOnEvidence
<1>3. AtRest(NewSession)
  BY <1>1, BoundAssumption
     DEF AtRest, RestsWhereUserCanAct, NothingLeftOpen, LimitLeavesNoneOpen,
         AlwaysAQuestion, RetryLimitIsExact, AllowedInputs, WorkflowStates
<1> QED BY <1>2, <1>3

-----------------------------------------------------------------------------
(* The list is always exactly what the confirmed events and the present     *)
(* answers call for, although it is built by three different functions      *)
(* (first expansion, re-expansion, merge of the local items) and edited by  *)
(* the evaluation.                                                          *)

\* The national items of the confirmed events that the evaluation shows.
National(s) ==
  {i \in Items : /\ ProgramStatus[i] \notin Hidden
                 /\ \E e \in s.events : i \in BaseItems[e]}

\* Local items are items of a place (jurisdiction_items.py).
LEMMA LocalItemsAreLocal ==
  ASSUME NEW s \in SessionState, NEW E \in SUBSET Events
  PROVE  LocalItemsFor(E, s.attrs) \subseteq LocalItems
BY CatalogAssumption DEF LocalItemsFor, LocalItems, SessionState

\* What is called for are items, and none of them is hidden (visible_items).
LEMMA CalledForIsVisible ==
  ASSUME NEW s \in SessionState
  PROVE  CalledFor(s) \subseteq {i \in Items : ProgramStatus[i] \notin Hidden}
<1>1. s.events \subseteq Events
  BY DEF SessionState
<1>2. LocalItems \subseteq {i \in Items : ProgramStatus[i] \notin Hidden}
  BY CatalogAssumption DEF LocalItems
<1>3. Expansion(s) \subseteq {i \in Items : ProgramStatus[i] \notin Hidden}
  <2> SUFFICES ASSUME NEW i \in Expansion(s) PROVE i \in Items
    BY DEF Expansion, Visible
  <2>1. PICK e \in s.events : i \in ExpandFromEvent(e, s.attrs)
    BY DEF Expansion, Visible
  <2>2. i \in BaseItems[e] \/ i \in LocalItemsFor({e}, s.attrs)
    BY <2>1 DEF ExpandFromEvent
  <2>3. {e} \in SUBSET Events /\ BaseItems[e] \subseteq Items
    BY <1>1, CatalogAssumption
  <2> QED BY <1>2, <2>2, <2>3, LocalItemsAreLocal
<1> QED BY <1>1, <1>2, <1>3, LocalItemsAreLocal DEF CalledFor

\* Without the care event the list splits into the national items, which the
\* answers do not touch, and the local items of the jurisdiction
\* (_merge_local_entitlements relies on it).
LEMMA PlainListSplits ==
  ASSUME NEW s \in SessionState, CareEvent \notin s.events
  PROVE  /\ CalledFor(s) = National(s) \cup LocalItemsFor(s.events, s.attrs)
         /\ National(s) \cap LocalItems = {}
<1>1. s.events \subseteq Events
  BY DEF SessionState
<1>2. National(s) \cap LocalItems = {}
  BY <1>1, CatalogAssumption DEF National
<1>3. ASSUME NEW e \in s.events
      PROVE  LocalItemsFor({e}, s.attrs) \subseteq LocalItemsFor(s.events, s.attrs)
  BY DEF LocalItemsFor
<1>4. Expansion(s) \subseteq National(s) \cup LocalItemsFor(s.events, s.attrs)
  <2> SUFFICES ASSUME NEW i \in Expansion(s), i \notin LocalItemsFor(s.events, s.attrs)
               PROVE  i \in National(s)
    OBVIOUS
  <2>1. PICK e \in s.events : i \in ExpandFromEvent(e, s.attrs)
    BY DEF Expansion, Visible
  <2>2. i \in BaseItems[e]
    BY <1>3, <2>1 DEF ExpandFromEvent
  <2>3. BaseItems[e] \subseteq Items
    BY <1>1, CatalogAssumption
  <2>4. ProgramStatus[i] \notin Hidden
    BY DEF Expansion, Visible
  <2> QED BY <2>2, <2>3, <2>4 DEF National
<1>5. National(s) \subseteq Expansion(s)
  <2> SUFFICES ASSUME NEW i \in National(s) PROVE i \in Expansion(s)
    OBVIOUS
  <2>1. PICK e \in s.events : i \in BaseItems[e]
    BY DEF National
  <2>2. BaseItems[e] # {} /\ e # CareEvent
    BY <2>1
  <2>3. i \in ExpandFromEvent(e, s.attrs)
    BY <2>1, <2>2 DEF ExpandFromEvent
  <2> QED BY <2>3 DEF Expansion, Visible, National
<1>6. CalledFor(s) = Expansion(s) \cup LocalItemsFor(s.events, s.attrs)
  BY DEF CalledFor
<1> QED BY <1>2, <1>4, <1>5, <1>6

\* What is called for depends on the events and the answers alone.
LEMMA CalledForSame ==
  ASSUME NEW s, NEW t, t.events = s.events, t.attrs = s.attrs
  PROVE  CalledFor(t) = CalledFor(s)
BY DEF CalledFor, Expansion

-----------------------------------------------------------------------------
(* The steps that build and edit the list.                                 *)

\* The list is exact; holds between the automatic steps as well.
Exact(s) == s \in SessionState /\ Listed(s) = CalledFor(s)

\* A record with the same events, answers and listed items.
LEMMA ExactSame ==
  ASSUME NEW s, Exact(s), NEW t \in SessionState,
         t.events = s.events, t.attrs = s.attrs, Listed(t) = Listed(s)
  PROVE  Exact(t)
BY CalledForSame DEF Exact

\* Whatever the answers have become meanwhile, a refresh makes a list exact
\* again that was exact for the answers before (_refresh_entitlements).
LEMMA RefreshExact ==
  ASSUME NEW s, Exact(s), NEW m \in SessionState,
         m.events = s.events, m.items = s.items
  PROVE  Exact(RefreshEntitlements(m))
<1> DEFINE t == RefreshEntitlements(m)
<1>1. /\ s \in SessionState /\ t \in SessionState
      /\ t.events = m.events /\ t.attrs = m.attrs
  BY RefreshType DEF Exact, SessionState
<1>2. CalledFor(t) = CalledFor(m)
  BY <1>1, CalledForSame
<1>3. Listed(m) = Listed(s) /\ Listed(s) = CalledFor(s)
  BY DEF Listed, Exact
<1>4. CASE m.events = {}
  <2>1. t = m
    BY <1>4 DEF RefreshEntitlements
  <2>2. CalledFor(m) = {} /\ CalledFor(s) = {}
    BY <1>4 DEF CalledFor, Expansion, Visible, LocalItemsFor
  <2> QED BY <1>1, <1>3, <2>1, <2>2 DEF Exact
<1>5. CASE m.events # {} /\ CareEvent \in m.events
  <2>1. t.items = [i \in Items |->
                     IF i \notin Expansion(m) THEN "absent"
                     ELSE IF m.items[i] = "absent" THEN "pending" ELSE m.items[i]]
    BY <1>5 DEF RefreshEntitlements, ReexpandAll, SessionState
  <2>2. Listed(t) = {i \in Items : i \in Expansion(m)}
    BY <2>1 DEF Listed
  <2>3. CalledFor(m) = Expansion(m) /\ CalledFor(m) \subseteq Items
    BY <1>5, CalledForIsVisible DEF CalledFor
  <2> QED BY <1>1, <1>2, <2>2, <2>3 DEF Exact
<1>6. CASE m.events # {} /\ CareEvent \notin m.events
  <2>1. t.items = [i \in Items |->
                     IF i \notin LocalItems THEN m.items[i]
                     ELSE IF i \in LocalItemsFor(m.events, m.attrs) THEN "pending"
                     ELSE "absent"]
    BY <1>6 DEF RefreshEntitlements, MergeLocalEntitlements, SessionState
  <2>2. LocalItems \subseteq Items /\ m.events \in SUBSET Events
    BY CatalogAssumption DEF LocalItems, SessionState
  <2>3. Listed(t) = (Listed(m) \ LocalItems) \cup LocalItemsFor(m.events, m.attrs)
    BY <2>1, <2>2, LocalItemsAreLocal DEF Listed
  <2>4. /\ CalledFor(s) = National(s) \cup LocalItemsFor(s.events, s.attrs)
        /\ National(s) \cap LocalItems = {}
        /\ LocalItemsFor(s.events, s.attrs) \subseteq LocalItems
    BY <1>1, <1>6, <2>2, PlainListSplits, LocalItemsAreLocal
  <2>5. Listed(m) \ LocalItems = National(s)
    BY <1>3, <2>4
  <2>6. National(s) = National(m)
    BY DEF National
  <2>7. CalledFor(m) = National(m) \cup LocalItemsFor(m.events, m.attrs)
    BY <1>6, PlainListSplits
  <2> QED BY <1>1, <1>2, <2>3, <2>5, <2>6, <2>7 DEF Exact
<1> QED BY <1>4, <1>5, <1>6

\* Asking changes the question only.
LEMMA ExactAsk ==
  ASSUME NEW s, Exact(s)
  PROVE  Exact(AskIfCollecting(s)) /\ AskIfCollecting(s).ws = s.ws
<1>1. s \in SessionState /\ AskIfCollecting(s) \in SessionState
  BY AskIfCollectingType DEF Exact
<1>2. /\ AskIfCollecting(s).items = s.items /\ AskIfCollecting(s).attrs = s.attrs
      /\ AskIfCollecting(s).events = s.events /\ AskIfCollecting(s).ws = s.ws
  BY <1>1, AskIfCollectingKeeps DEF SessionState
<1> QED BY <1>1, <1>2, ExactSame DEF Listed

\* Judging an item never adds it to the list nor takes it off (_resolve_item).
LEMMA ResolveKeepsListed ==
  ASSUME NEW s \in SessionState, NEW i \in Items, NEW dec \in Decisions
  PROVE  ResolveItem(s, i, dec) = "absent" <=> s.items[i] = "absent"
<1>1. i \in VerifiedItems => ApplyDecision(dec[i]) # "absent"
  BY DEF Decisions, Decision, ApplyDecision, RuleEngineStatuses
<1> QED BY <1>1 DEF ResolveItem

\* The evaluation drops hidden programmes; an exact list has none
\* (evaluate_ready_items).
LEMMA ExactEvaluate ==
  ASSUME NEW s, Exact(s), NEW dec \in Decisions
  PROVE  Exact(EvaluateReadyItems(s, dec))
<1> DEFINE t == EvaluateReadyItems(s, dec)
<1>1. s \in SessionState /\ t \in SessionState
  BY EvaluateType DEF Exact
<1>2. /\ t.attrs = s.attrs /\ t.events = s.events
      /\ t.items = [i \in Items |-> IF ProgramStatus[i] \in Hidden THEN "absent"
                                    ELSE ResolveItem(s, i, dec)]
  BY <1>1 DEF EvaluateReadyItems, SessionState
<1>3. \A i \in Items : ProgramStatus[i] \in Hidden => s.items[i] = "absent"
  BY <1>1, CalledForIsVisible DEF Exact, Listed
<1>4. \A i \in Items : t.items[i] = "absent" <=> s.items[i] = "absent"
  BY <1>1, <1>2, <1>3, ResolveKeepsListed
<1>5. Listed(t) = Listed(s)
  BY <1>4 DEF Listed
<1> QED BY <1>1, <1>2, <1>5, ExactSame

\* The guardrails change statuses, never the list (_check_loop_guardrails).
LEMMA ExactGuardrails ==
  ASSUME NEW s, Exact(s), NEW before, s.ws = "evaluate_eligibility"
  PROVE  /\ Exact(CheckLoopGuardrails(s, before))
         /\ CheckLoopGuardrails(s, before).ws # "understand_event"
<1> DEFINE t == CheckLoopGuardrails(s, before)
<1>1. s \in SessionState /\ t \in SessionState
  BY GuardrailsType DEF Exact
<1>2. /\ t.attrs = s.attrs /\ t.events = s.events
      /\ t.ws \in {s.ws, "collect_missing_fields", "confirm", "complete"}
  BY <1>1 DEF CheckLoopGuardrails, AfterEvaluate, SessionState
<1>3. \A i \in Items : t.items[i] = "absent" <=> s.items[i] = "absent"
  <2>1. t.items = s.items \/ t.items = DowngradeUnsettled(s.items)
    BY <1>1 DEF CheckLoopGuardrails, SessionState
  <2> QED BY <2>1 DEF DowngradeUnsettled, Unsettled
<1>4. Listed(t) = Listed(s)
  BY <1>3 DEF Listed
<1> QED BY <1>1, <1>2, <1>4, ExactSame

\* The evaluation round as a whole (_auto_advance from RETRIEVE_RULES).
LEMMA ExactRound ==
  ASSUME NEW s, Exact(s), s.ws = "retrieve_rules", NEW before, NEW dec \in Decisions
  PROVE  /\ Exact(AutoAdvance(s, before, dec))
         /\ AutoAdvance(s, before, dec).ws # "understand_event"
<1> DEFINE u == EvaluateReadyItems(s, dec)
           t == CheckLoopGuardrails(u, before)
<1>1. Exact(u)
  BY ExactEvaluate
<1>2. u.ws = "evaluate_eligibility"
  BY DEF EvaluateReadyItems, Exact, SessionState
<1> HIDE DEF u
<1>3. Exact(t) /\ t.ws # "understand_event"
  BY <1>1, <1>2, ExactGuardrails
<1>4. AutoAdvance(s, before, dec) = AskIfCollecting(t)
  BY DEF AutoAdvance, u
<1> QED BY <1>3, <1>4, ExactAsk

-----------------------------------------------------------------------------
(* The invariant of the list.                                              *)

\* Before the confirmation nothing is listed and no place is known, so that
\* the first expansion, which brings in the local items of some events only,
\* brings in no local items at all.
ListInv(s) ==
  /\ s \in SessionState
  /\ ListIsExact(s)
  /\ s.ws = "understand_event" => s.attrs[Jurisdiction] = NoValue

\* Confirming the events builds the list (_confirm_event).
LEMMA ListAfterConfirm ==
  ASSUME NEW s, ListInv(s), s.ws = "understand_event", NEW t \in ConfirmEvent(s)
  PROVE  ListInv(t)
<1>0. s \in SessionState
  BY DEF ListInv
<1>1. PICK chosen \in SUBSET (s.events \cup s.extras) :
        t = AutoAdvance([s EXCEPT !.events = chosen, !.extras = {},
                                  !.ws = "resolve_entitlements"], s, <<>>)
  BY DEF ConfirmEvent
<1> DEFINE u == [s EXCEPT !.events = chosen, !.extras = {},
                          !.ws = "resolve_entitlements"]
           v == [ResolveEntitlements(u) EXCEPT !.ws = "collect_missing_fields"]
<1>2. /\ u \in SessionState /\ u.ws = "resolve_entitlements"
      /\ u.items = s.items /\ u.attrs = s.attrs
  BY <1>0 DEF SessionState, WorkflowStates
<1>3. \A i \in Items : u.items[i] = "absent"
  BY <1>2 DEF ListInv, ListIsExact, Listed
<1>4. u.attrs[Jurisdiction] = NoValue
  BY <1>2 DEF ListInv
<1>5. t = AskIfCollecting(v)
  BY <1>1, <1>2 DEF AutoAdvance
<1> HIDE DEF u
<1>6. /\ v \in SessionState /\ v.ws = "collect_missing_fields"
      /\ v.events = u.events /\ v.attrs = u.attrs
      /\ v.items = [i \in Items |-> IF i \in Expansion(u) THEN "pending" ELSE "absent"]
  <2>1. ResolveEntitlements(u) = [u EXCEPT !.items =
          [i \in Items |-> IF i \in Expansion(u) THEN "pending" ELSE "absent"]]
    BY <1>3 DEF ResolveEntitlements
  <2> QED BY <1>2, <2>1, ResolveEntitlementsType DEF SessionState, WorkflowStates
<1> HIDE DEF v
<1>7. CalledFor(v) = Expansion(u)
  <2>1. CalledFor(v) = CalledFor(u)
    BY <1>6, CalledForSame
  <2>2. LocalItemsFor(u.events, u.attrs) = {}
    BY <1>4 DEF LocalItemsFor
  <2> QED BY <2>1, <2>2 DEF CalledFor
<1>8. Listed(v) = {i \in Items : i \in Expansion(u)}
  BY <1>6 DEF Listed
<1>9. Exact(v)
  BY <1>6, <1>7, <1>8, CalledForIsVisible DEF Exact
<1> QED BY <1>5, <1>6, <1>9, ExactAsk DEF ListInv, Exact, ListIsExact

\* Answers refresh the list before the items are judged (_record_answers,
\* _collect_from_chat).
LEMMA ListAfterAnswers ==
  ASSUME NEW s, Exact(s), s.ws = "collect_missing_fields",
         NEW t \in RecordAnswers(s) \cup CollectFromChat(s)
  PROVE  Exact(t) /\ t.ws # "understand_event"
<1>0. s \in SessionState
  BY DEF Exact
<1>1. ASSUME NEW a \in Answers
      PROVE  /\ Merge(s, a) \in SessionState
             /\ Merge(s, a).events = s.events /\ Merge(s, a).items = s.items
             /\ Merge(s, a).ws = s.ws
  BY <1>0, MergeType DEF Merge, SessionState
<1>2. ASSUME NEW u \in SessionState
      PROVE  /\ ToRetrieve(u) \in SessionState /\ ToRetrieve(u).ws = "retrieve_rules"
             /\ ToRetrieve(u).events = u.events /\ ToRetrieve(u).items = u.items
             /\ ToRetrieve(u).attrs = u.attrs
  BY ToRetrieveType DEF ToRetrieve, SessionState
<1>3. ASSUME NEW u \in SessionState
      PROVE  RefreshEntitlements(u).ws = u.ws
  BY RefreshType DEF SessionState
<1>4. CASE t \in RecordAnswers(s)
  <2>1. PICK a \in Answers, dec \in Decisions :
          t = AutoAdvance(RefreshEntitlements(ToRetrieve(Merge(s, a))), s, dec)
    BY <1>4, AnswersAdvance
  <2> DEFINE m == ToRetrieve(Merge(s, a))
  <2>2. /\ m \in SessionState /\ m.ws = "retrieve_rules"
        /\ m.events = s.events /\ m.items = s.items
    BY <1>1, <1>2
  <2> HIDE DEF m
  <2>3. Exact(RefreshEntitlements(m)) /\ RefreshEntitlements(m).ws = "retrieve_rules"
    BY <1>3, <2>2, RefreshExact
  <2> QED BY <2>1, <2>3, ExactRound DEF m
<1>5. CASE t \in CollectFromChat(s)
  <2> DEFINE U(a) == RefreshEntitlements(Merge(s, a))
  <2>1. PICK a \in ChatAnswers(s) :
          t \in IF Missing(U(a)) # {} THEN AskOn(U(a))
                ELSE {AutoAdvance(ToRetrieve(U(a)), s, dec) : dec \in Decisions}
    BY <1>5, ChatAdvances
  <2>2. Exact(U(a)) /\ U(a).ws = "collect_missing_fields"
    BY <1>1, <1>3, RefreshExact DEF ChatAnswers
  <2>3. t \in SessionState
    BY <1>0, <1>5, ChatInputsType
  <2> HIDE DEF U
  <2>4. CASE Missing(U(a)) # {}
    <3>0. PICK q \in {DefaultQuestion(U(a)), "model"} :
            t = [U(a) EXCEPT !.loops = @ + 1, !.question = q]
      BY <2>1, <2>4 DEF AskOn
    <3>1. /\ t.events = U(a).events /\ t.attrs = U(a).attrs
          /\ t.items = U(a).items /\ t.ws = U(a).ws
      BY <2>2, <3>0 DEF Exact, SessionState
    <3> QED BY <2>2, <2>3, <3>1, ExactSame DEF Listed
  <2>5. CASE Missing(U(a)) = {}
    <3>1. U(a) \in SessionState
      BY <2>2 DEF Exact
    <3>2. Exact(ToRetrieve(U(a))) /\ ToRetrieve(U(a)).ws = "retrieve_rules"
      BY <1>2, <2>2, <3>1, ExactSame DEF Listed
    <3> QED BY <2>1, <2>5, <3>2, ExactRound
  <2> QED BY <2>4, <2>5
<1> QED BY <1>4, <1>5

\* Every input keeps the list exact (advance).  Where a session rests is taken
\* from the invariant of WorkflowProofs.
LEMMA ListStep ==
  ASSUME NEW s, ListInv(s), AtRest(s), NEW t \in Advance(s)
  PROVE  ListInv(t)
<1>0. s \in SessionState /\ t \in SessionState
  BY AdvanceType DEF ListInv
<1>1. CASE t \in ConfirmEvent(s)
  <2>1. Open(s) /\ "event_confirmation" \in AllowedInputs[s.ws]
    BY <1>1 DEF ConfirmEvent, CanConfirm, Accepts
  <2>2. s.ws = "understand_event"
    BY <1>0, <2>1, AcceptedWhileGoing DEF AllowedInputs, WorkflowStates
  <2> QED BY <1>1, <2>2, ListAfterConfirm
<1>2. CASE t \in RecordAnswers(s) \cup CollectFromChat(s)
  <2>1. Open(s) /\ {"attribute_answers", "attribute_chat_turn"}
                     \cap AllowedInputs[s.ws] # {}
    BY <1>2 DEF RecordAnswers, CollectFromChat, ChatAnswers, CanChat, Accepts
  <2>2. s.ws = "collect_missing_fields"
    BY <1>0, <2>1, AcceptedWhileGoing DEF AllowedInputs, WorkflowStates
  <2>3. Exact(s)
    BY <2>2 DEF ListInv, ListIsExact, Exact
  <2> QED BY <1>0, <1>2, <2>2, <2>3, ListAfterAnswers DEF ListInv, ListIsExact, Exact
<1>3. CASE t \in ReceiveLifeEvent(s) \cup DenyEvent(s)
  <2>1. Open(s) /\ {"life_event_text", "event_confirmation"}
                     \cap AllowedInputs[s.ws] # {}
    BY <1>3 DEF ReceiveLifeEvent, DenyEvent, CanConfirm, Accepts
  <2>2. s.ws = "understand_event"
    BY <1>0, <2>1, AcceptedWhileGoing DEF AllowedInputs, WorkflowStates
  <2>3. t.ws = s.ws /\ t.items = s.items /\ t.attrs = s.attrs
    <3>1. t \in ReceiveLifeEvent(s) => t.ws = s.ws /\ t.items = s.items /\ t.attrs = s.attrs
      BY <1>0 DEF ReceiveLifeEvent, SessionState
    <3>2. t \in DenyEvent(s) => t.ws = s.ws /\ t.items = s.items /\ t.attrs = s.attrs
      BY <1>0 DEF DenyEvent, SessionState
    <3> QED BY <1>3, <3>1, <3>2
  <2> QED BY <1>0, <2>2, <2>3 DEF ListInv, ListIsExact, Listed
<1>4. CASE t \in DeclineItem(s)
  <2>1. Open(s) /\ "item_decline" \in AllowedInputs[s.ws]
    BY <1>4 DEF DeclineItem, Accepts
  <2>2. s.ws = "collect_missing_fields"
    BY <1>0, <2>1, AcceptedWhileGoing DEF AllowedInputs, WorkflowStates
  <2>3. Exact(s)
    BY <2>2 DEF ListInv, ListIsExact, Exact
  <2>4. PICK i \in Items :
          /\ s.items[i] # "absent"
          /\ t = AskIfCollecting([s EXCEPT !.items[i] = "declined_by_user"])
    BY <1>4 DEF DeclineItem
  <2> DEFINE u == [s EXCEPT !.items[i] = "declined_by_user"]
  <2>5. /\ u \in SessionState /\ u.events = s.events /\ u.attrs = s.attrs
        /\ u.ws = s.ws
        /\ \A j \in Items : u.items[j] = "absent" <=> s.items[j] = "absent"
    BY <1>0, <2>4 DEF SessionState, ItemStatuses
  <2> HIDE DEF u
  <2>6. Exact(u)
    BY <2>3, <2>5, ExactSame DEF Listed
  <2> QED BY <2>2, <2>4, <2>5, <2>6, ExactAsk DEF ListInv, ListIsExact, Exact, u
<1>5. CASE t \in UNION {ChatUnavailable(s), ConfirmReview(s), ReturnFromReview(s),
                        ChooseReferral(s), RequestHelp(s)}
  <2>1. /\ t.items = s.items /\ t.attrs = s.attrs /\ t.events = s.events
        /\ t.ws = "understand_event" <=> s.ws = "understand_event"
    <3>1. CASE t \in ReturnFromReview(s)
      <4>1. Open(s) /\ "review_confirmation" \in AllowedInputs[s.ws]
        BY <3>1 DEF ReturnFromReview, Accepts
      <4>2. s.ws = "confirm"
        BY <1>0, <4>1, AcceptedWhileGoing DEF AllowedInputs, WorkflowStates
      <4>3. [s EXCEPT !.ws = "collect_missing_fields"] \in SessionState
        BY <1>0 DEF SessionState, WorkflowStates
      <4>4. PICK q \in Questions :
              t = [[s EXCEPT !.ws = "collect_missing_fields"] EXCEPT !.question = q]
        BY <3>1, <4>3, AskIfCollectingKeeps DEF ReturnFromReview
      <4> QED BY <1>0, <4>2, <4>4 DEF SessionState
    <3>2. CASE t \in ConfirmReview(s)
      <4>1. Open(s) /\ "review_confirmation" \in AllowedInputs[s.ws]
        BY <3>2 DEF ConfirmReview, Accepts
      <4>2. s.ws = "confirm"
        BY <1>0, <4>1, AcceptedWhileGoing DEF AllowedInputs, WorkflowStates
      <4> QED BY <1>0, <3>2, <4>2 DEF ConfirmReview, SessionState
    <3>3. CASE t \in ChatUnavailable(s)
      BY <1>0, <3>3 DEF ChatUnavailable, SessionState
    <3>4. CASE t \in ChooseReferral(s)
      BY <1>0, <3>4 DEF ChooseReferral, SessionState
    <3>5. CASE t \in RequestHelp(s)
      BY <1>0, <3>5 DEF RequestHelp, SessionState
    <3> QED BY <1>5, <3>1, <3>2, <3>3, <3>4, <3>5
  <2>2. CalledFor(t) = CalledFor(s) /\ Listed(t) = Listed(s)
    BY <2>1, CalledForSame DEF Listed
  <2> QED BY <1>0, <2>1, <2>2 DEF ListInv, ListIsExact
<1> QED BY <1>1, <1>2, <1>3, <1>4, <1>5 DEF Advance

-----------------------------------------------------------------------------
(* Everything a session satisfies between two inputs.                      *)

SessionInv(s) == Grounded(s) /\ AtRest(s) /\ ListInv(s)

\* A new session satisfies it (SessionState defaults).
LEMMA NewSessionHolds == SessionInv(NewSession)
BY NewSessionType, NewSessionInv, CatalogAssumption
   DEF SessionInv, ListInv, ListIsExact, Listed, NewSession

\* Every input preserves it, whatever the language model and the eligibility
\* service answer (advance).
LEMMA StepHolds ==
  ASSUME NEW s, SessionInv(s), NEW t \in Advance(s)
  PROVE  SessionInv(t)
BY GroundedStep, RestStep, ListStep DEF SessionInv, Grounded

\* Every input is refused once the consultation has ended (advance).
LEMMA OnlyWhileOpen ==
  ASSUME NEW s, NEW t \in Advance(s)
  PROVE  Open(s)
<1>1. t \in ReceiveLifeEvent(s) \cup ConfirmEvent(s) \cup DenyEvent(s) => Open(s)
  BY DEF ReceiveLifeEvent, ConfirmEvent, DenyEvent, CanConfirm, Accepts
<1>2. CASE t \in RecordAnswers(s)
  <2>1. Accepts(s, "attribute_answers")
    BY <1>2 DEF RecordAnswers
  <2> QED BY <2>1 DEF Accepts
<1>3. CASE t \in DeclineItem(s)
  <2>1. Accepts(s, "item_decline")
    BY <1>3 DEF DeclineItem
  <2> QED BY <2>1 DEF Accepts
<1>4. t \in ChatUnavailable(s) \cup CollectFromChat(s) => Open(s)
  BY DEF ChatUnavailable, CollectFromChat, ChatAnswers, CanChat, Accepts
<1>5. t \in UNION {ConfirmReview(s), ReturnFromReview(s), ChooseReferral(s),
                   RequestHelp(s)} => Open(s)
  BY DEF ConfirmReview, ReturnFromReview, ChooseReferral, RequestHelp, Accepts
<1> QED BY <1>1, <1>2, <1>3, <1>4, <1>5 DEF Advance

=============================================================================
