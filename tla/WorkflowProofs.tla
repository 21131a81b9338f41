--------------------------- MODULE WorkflowProofs ---------------------------
(***************************************************************************)
(* Theorems about Workflow, for every catalogue of events, items and       *)
(* fields and for every value of the limits.                               *)
(***************************************************************************)
EXTENDS Workflow, RulesProofs

\* The actions of Workflow are the alternatives of advance().
LEMMA NextIsAdvance == Next <=> session' \in Advance(session)
BY DEF Next, Advance

\* The session record keeps its shape in every reachable state
\* (SessionState, the frozen model with extra fields forbidden).
THEOREM TypeCorrect == Spec => []TypeOK
<1>1. Init => TypeOK
  BY NewSessionType DEF Init, TypeOK
<1>2. TypeOK /\ [Next]_vars => TypeOK'
  BY NextIsAdvance, AdvanceType DEF TypeOK, vars
<1> QED BY <1>1, <1>2, PTL DEF Spec

-----------------------------------------------------------------------------
(* The safety theorems.                                                     *)

\* The inductive invariant.  Its parts need one another: the type to know that
\* a default question exists, the place of rest to know that the confirmation
\* of the events comes first and only once, the evidence and the list the
\* states between the automatic steps.
IInv == SessionInv(session)

\* It holds in every reachable state of Workflow.
LEMMA Invariant == Spec => []IInv
<1>1. Init => IInv
  BY NewSessionHolds DEF Init, IInv
<1>2. IInv /\ [Next]_vars => IInv'
  BY NextIsAdvance, StepHolds DEF IInv, vars
<1> QED BY <1>1, <1>2, PTL DEF Spec

\* A verdict is only ever given to a verified programme with declared fields
\* that have all been answered (determination.py).
THEOREM ConclusionsHaveEvidence == Spec => []NoConclusionWithoutEvidence
<1>1. IInv => NoConclusionWithoutEvidence
  BY DEF IInv, SessionInv, Grounded, NoConclusionWithoutEvidence
<1> QED BY <1>1, Invariant, PTL

\* No unregistered field and no illegal value is ever kept (attribute_gate.py).
THEOREM GateHolds == Spec => []PrivacyGateHolds
<1>1. IInv => PrivacyGateHolds
  BY DEF IInv, SessionInv, Grounded, PrivacyGateHolds
<1> QED BY <1>1, Invariant, PTL

\* advance() always stops where the user can act: an open consultation has an
\* allowed input (_auto_advance and the entry guards of state_machine.py).
THEOREM EngineRestsSafely == Spec => []SessionRests
<1>1. IInv => SessionRests
  BY DEF IInv, SessionInv, AtRest, SessionRests
<1> QED BY <1>1, Invariant, PTL

\* A consultation is in review or complete only with every item settled (the
\* loop-back rule after the evaluation, state_machine.py).
THEOREM ReviewIsSettled == Spec => []FinishedMeansSettled
<1>1. IInv => FinishedMeansSettled
  BY DEF IInv, SessionInv, AtRest, FinishedMeansSettled
<1> QED BY <1>1, Invariant, PTL

\* The loop limit hands every open item to a human (_check_loop_guardrails).
THEOREM LimitLeavesNothing == Spec => []LimitDowngrades
<1>1. IInv => LimitDowngrades
  BY DEF IInv, SessionInv, AtRest, LimitDowngrades
<1> QED BY <1>1, Invariant, PTL

\* The consultation ends over denied events exactly when the denials exceed
\* max_event_retries (confirmation of events, state_machine.py).
THEOREM RetryLimitHolds == Spec => []RetryExit
<1>1. IInv => RetryExit
  BY DEF IInv, SessionInv, AtRest, RetryExit
<1> QED BY <1>1, Invariant, PTL

\* A collecting session in which something is missing asks for something
\* (the collector question of state_machine.py).
THEOREM NeverSpeechless == Spec => []QuestionWhileMissing
<1>1. IInv => QuestionWhileMissing
  BY DEF IInv, SessionInv, AtRest, QuestionWhileMissing
<1> QED BY <1>1, Invariant, PTL

\* The list always matches the present answers: no local item of a place that
\* was corrected away, none of the present place missing
\* (_expand_all_events, _refresh_entitlements, _merge_local_entitlements).
THEOREM ListIsCurrent == Spec => []ListMatchesAnswers
<1>1. IInv => ListMatchesAnswers
  BY DEF IInv, SessionInv, ListInv, ListMatchesAnswers
<1> QED BY <1>1, Invariant, PTL

-----------------------------------------------------------------------------
(* What a step may never do.                                                *)

\* No input moves an ended consultation, not even its counters or the reason
\* it ended for (advance, design.md: exit_reason).
THEOREM EndIsFinal == Spec => EndedIsFinal
<1>1. [Next]_vars => [Open(session)]_vars
  BY NextIsAdvance, OnlyWhileOpen DEF vars
<1> QED BY <1>1, PTL DEF Spec, EndedIsFinal

\* A step that takes neither answers nor events away, and does not lead back to
\* the recognition of events.
Keeps(s, t) ==
  /\ Answered(s) \subseteq Answered(t)
  /\ t.events = s.events
  /\ s.ws # "understand_event" => t.ws # "understand_event"

\* Recording answers, and the automatic steps, keep them.
LEMMA AnswersKeep ==
  ASSUME NEW s \in SessionState
  PROVE  /\ \A a \in Answers : Keeps(s, Merge(s, a))
         /\ Keeps(s, ToRetrieve(s))
         /\ Keeps(s, RefreshEntitlements(s))
         /\ Keeps(s, AskIfCollecting(s))
<1>1. ASSUME NEW a \in Answers PROVE Keeps(s, Merge(s, a))
  BY DEF Keeps, Merge, Answered, SessionState
<1>2. Keeps(s, ToRetrieve(s))
  BY DEF Keeps, ToRetrieve, Answered, SessionState
<1>3. Keeps(s, RefreshEntitlements(s))
  BY RefreshType DEF Keeps, Answered, SessionState
<1>4. Keeps(s, AskIfCollecting(s))
  BY AskIfCollectingKeeps DEF Keeps, Answered, SessionState
<1> QED BY <1>1, <1>2, <1>3, <1>4

LEMMA RoundKeeps ==
  ASSUME NEW s \in SessionState, NEW before, NEW dec \in Decisions,
         s.ws = "retrieve_rules"
  PROVE  Keeps(s, AutoAdvance(s, before, dec))
<1> DEFINE e == EvaluateReadyItems(s, dec)
           g == CheckLoopGuardrails(e, before)
<1>1. e \in SessionState /\ Keeps(s, e) /\ e.ws = "evaluate_eligibility"
  BY EvaluateType DEF EvaluateReadyItems, Keeps, Answered, SessionState
<1> HIDE DEF e
<1>2. g \in SessionState
  BY <1>1, GuardrailsType
<1>3. Keeps(e, g)
  BY <1>1 DEF CheckLoopGuardrails, AfterEvaluate, Keeps, Answered, SessionState
<1> HIDE DEF g
<1>4. Keeps(g, AskIfCollecting(g))
  BY <1>2, AnswersKeep
<1>5. AutoAdvance(s, before, dec) = AskIfCollecting(g)
  BY DEF AutoAdvance, g, e
<1> QED BY <1>1, <1>3, <1>4, <1>5 DEF Keeps

\* Inputs that need the recognition of events are refused afterwards.
LEMMA EventsSettled ==
  ASSUME NEW s \in SessionState, AtRest(s), s.ws # "understand_event"
  PROVE  ReceiveLifeEvent(s) \cup ConfirmEvent(s) \cup DenyEvent(s) = {}
<1>1. /\ ~Accepts(s, "life_event_text")
      /\ ~Accepts(s, "event_confirmation")
  BY AcceptedWhileGoing DEF Accepts, AllowedInputs, WorkflowStates
<1> QED BY <1>1 DEF ReceiveLifeEvent, ConfirmEvent, DenyEvent, CanConfirm

\* Every input after the confirmation of the events keeps them and the answers.
LEMMA LaterStepKeeps ==
  ASSUME NEW s \in SessionState, AtRest(s), s.ws # "understand_event",
         NEW t \in Advance(s)
  PROVE  Keeps(s, t)
<1>0. t \in SessionState
  BY AdvanceType
<1>1. CASE t \in RecordAnswers(s)
  <2>1. PICK a \in Answers, dec \in Decisions :
          t = AutoAdvance(RefreshEntitlements(ToRetrieve(Merge(s, a))), s, dec)
    BY <1>1, AnswersAdvance
  <2> DEFINE m == Merge(s, a)
             r == ToRetrieve(m)
             u == RefreshEntitlements(r)
  <2>2. m \in SessionState /\ r \in SessionState /\ u \in SessionState
    BY MergeType, ToRetrieveType, RefreshType
  <2>3. Keeps(s, m) /\ Keeps(m, r) /\ Keeps(r, u)
    BY <2>2, AnswersKeep
  <2> HIDE DEF m
  <2>6. r.ws = "retrieve_rules"
    BY <2>2 DEF ToRetrieve, SessionState
  <2> HIDE DEF r
  <2>4. u.ws = "retrieve_rules"
    BY <2>2, <2>6, RefreshType DEF SessionState
  <2> HIDE DEF u
  <2>5. Keeps(u, AutoAdvance(u, s, dec))
    BY <2>2, <2>4, RoundKeeps
  <2> QED BY <2>1, <2>3, <2>5 DEF Keeps, m, r, u
<1>2. CASE t \in CollectFromChat(s)
  <2> DEFINE U(a) == RefreshEntitlements(Merge(s, a))
  <2>1. PICK a \in ChatAnswers(s) :
          t \in IF Missing(U(a)) # {} THEN AskOn(U(a))
                ELSE {AutoAdvance(ToRetrieve(U(a)), s, dec) : dec \in Decisions}
    BY <1>2, ChatAdvances
  <2> DEFINE m == Merge(s, a)
             u == RefreshEntitlements(m)
             r == ToRetrieve(u)
  <2>2. a \in Answers
    BY DEF ChatAnswers
  <2>3. m \in SessionState /\ u \in SessionState /\ r \in SessionState
    BY <2>2, MergeType, ToRetrieveType, RefreshType
  <2>4. Keeps(s, m) /\ Keeps(m, u) /\ Keeps(u, r)
    BY <2>2, <2>3, AnswersKeep
  <2>5. r.ws = "retrieve_rules"
    BY <2>3 DEF ToRetrieve, SessionState
  <2>6. CASE Missing(u) # {}
    <3>1. t \in AskOn(u)
      BY <2>1, <2>6
    <3> HIDE DEF m, u
    <3>2. Keeps(u, t)
      BY <2>3, <3>1 DEF AskOn, Keeps, Answered, SessionState
    <3> QED BY <2>4, <3>2 DEF Keeps
  <2>7. CASE Missing(u) = {}
    <3>1. PICK dec \in Decisions : t = AutoAdvance(r, s, dec)
      BY <2>1, <2>7
    <3> HIDE DEF m, u, r
    <3>2. Keeps(r, AutoAdvance(r, s, dec))
      BY <2>3, <2>5, RoundKeeps
    <3> QED BY <2>4, <3>1, <3>2 DEF Keeps
  <2> QED BY <2>6, <2>7
<1>3. CASE t \in DeclineItem(s)
  <2>1. PICK i \in Items :
          t = AskIfCollecting([s EXCEPT !.items[i] = "declined_by_user"])
    BY <1>3 DEF DeclineItem
  <2> DEFINE u == [s EXCEPT !.items[i] = "declined_by_user"]
  <2>2. u \in SessionState /\ Keeps(s, u)
    BY DEF SessionState, ItemStatuses, Keeps, Answered
  <2>3. Keeps(u, AskIfCollecting(u))
    BY <2>2, AnswersKeep
  <2> QED BY <2>1, <2>2, <2>3 DEF Keeps
<1>4. CASE t \in ReturnFromReview(s)
  <2> DEFINE u == [s EXCEPT !.ws = "collect_missing_fields"]
  <2>1. u \in SessionState /\ Keeps(s, u)
    BY DEF SessionState, WorkflowStates, Keeps, Answered
  <2>2. Keeps(u, AskIfCollecting(u))
    BY <2>1, AnswersKeep
  <2> QED BY <1>4, <2>1, <2>2 DEF ReturnFromReview, Keeps
<1>5. CASE t \in UNION {ChatUnavailable(s), ConfirmReview(s), ChooseReferral(s),
                        RequestHelp(s)}
  <2>1. t \in ChatUnavailable(s) => Keeps(s, t)
    BY DEF ChatUnavailable, Keeps, Answered, SessionState
  <2>2. t \in ConfirmReview(s) => Keeps(s, t)
    BY DEF ConfirmReview, Keeps, Answered, SessionState
  <2>3. t \in ChooseReferral(s) \cup RequestHelp(s) => Keeps(s, t)
    BY DEF ChooseReferral, RequestHelp, Keeps, Answered, SessionState
  <2> QED BY <1>5, <2>1, <2>2, <2>3
<1> QED BY <1>1, <1>2, <1>3, <1>4, <1>5, EventsSettled DEF Advance

\* Before the confirmation there is nothing but events: no input of that state
\* takes an answer away.
LEMMA EarlierStepKeeps ==
  ASSUME NEW s \in SessionState, s.ws = "understand_event", NEW t \in Advance(s)
  PROVE  Answered(s) \subseteq Answered(t)
<1>1. /\ ~Accepts(s, "attribute_answers") /\ ~Accepts(s, "attribute_chat_turn")
      /\ ~Accepts(s, "item_decline") /\ ~Accepts(s, "review_confirmation")
      /\ ~Accepts(s, "referral_choice")
  BY DEF Accepts, AllowedInputs, WorkflowStates
<1>2. t \in UNION {ReceiveLifeEvent(s), ConfirmEvent(s), DenyEvent(s), RequestHelp(s)}
  <2>1. RecordAnswers(s) = {}
    BY <1>1 DEF RecordAnswers
  <2>2. ChatUnavailable(s) = {} /\ CollectFromChat(s) = {}
    BY <1>1 DEF ChatUnavailable, CollectFromChat, ChatAnswers, CanChat
  <2>3. DeclineItem(s) = {} /\ ConfirmReview(s) = {} /\ ReturnFromReview(s) = {}
    BY <1>1 DEF DeclineItem, ConfirmReview, ReturnFromReview
  <2>4. ChooseReferral(s) = {}
    BY <1>1 DEF ChooseReferral
  <2> QED BY <2>1, <2>2, <2>3, <2>4 DEF Advance
<1>3. CASE t \in ConfirmEvent(s)
  <2>1. PICK chosen \in SUBSET (s.events \cup s.extras) :
          t = AutoAdvance([s EXCEPT !.events = chosen, !.extras = {},
                                    !.ws = "resolve_entitlements"], s, <<>>)
    BY <1>3 DEF ConfirmEvent
  <2> DEFINE u == [s EXCEPT !.events = chosen, !.extras = {},
                            !.ws = "resolve_entitlements"]
             v == [ResolveEntitlements(u) EXCEPT !.ws = "collect_missing_fields"]
  <2>2. u \in SessionState /\ u.attrs = s.attrs /\ u.ws = "resolve_entitlements"
    BY DEF SessionState, WorkflowStates
  <2> HIDE DEF u
  <2>3. v \in SessionState /\ v.attrs = u.attrs
    BY <2>2, ResolveEntitlementsType DEF ResolveEntitlements, SessionState, WorkflowStates
  <2>4. t = AskIfCollecting(v)
    BY <2>1, <2>2 DEF AutoAdvance, u
  <2> HIDE DEF v
  <2>5. t.attrs = v.attrs
    BY <2>3, <2>4, AskIfCollectingKeeps DEF SessionState
  <2> QED BY <2>2, <2>3, <2>5 DEF Answered
<1>4. CASE t \in ReceiveLifeEvent(s) \cup DenyEvent(s) \cup RequestHelp(s)
  <2>1. t \in ReceiveLifeEvent(s) => t.attrs = s.attrs
    BY DEF ReceiveLifeEvent, SessionState
  <2>2. t \in DenyEvent(s) => t.attrs = s.attrs
    BY DEF DenyEvent, SessionState
  <2>3. t \in RequestHelp(s) => t.attrs = s.attrs
    BY DEF RequestHelp, SessionState
  <2> QED BY <1>4, <2>1, <2>2, <2>3 DEF Answered
<1> QED BY <1>2, <1>3, <1>4

\* Answers are never forgotten, and confirmed events are final (_record_answers,
\* _refresh_entitlements and the allowed inputs of state_machine.py).
THEOREM AnswersStay == Spec => AnswersAreKept
<1>1. IInv /\ [Next]_vars =>
        [/\ Answered(session) \subseteq Answered(session')
         /\ session.ws # "understand_event" =>
              /\ session'.ws # "understand_event"
              /\ session'.events = session.events]_vars
  <2> SUFFICES ASSUME IInv, session' \in Advance(session)
               PROVE  /\ Answered(session) \subseteq Answered(session')
                      /\ session.ws # "understand_event" =>
                           /\ session'.ws # "understand_event"
                           /\ session'.events = session.events
    BY NextIsAdvance DEF vars
  <2>1. session \in SessionState /\ AtRest(session)
    BY DEF IInv, SessionInv, Grounded
  <2> QED BY <2>1, LaterStepKeeps, EarlierStepKeeps DEF Keeps
<1> QED BY <1>1, Invariant, PTL DEF Spec, AnswersAreKept

-----------------------------------------------------------------------------
(* The life of an item, and the review.                                     *)

\* What a round of the evaluation may make of the items, listed ones only.
Judged(s, t) ==
  \A i \in Items :
    t.items[i] \in IF s.items[i] = "absent" THEN {"absent"}
                   ELSE NextStatuses(s.items[i])

\* A review is entered for a reason, and skipped only without one.
ReviewedIfNeeded(t) ==
  LET needs == \E i \in Items : t.items[i] = "needs_human_review"
  IN  (t.ws = "confirm" => needs) /\ (t.ws = "complete" => ~needs)

\* A refresh leaves a national item as it is, or takes it off the list of the
\* care event (_refresh_entitlements).
LEMMA RefreshKeepsNational ==
  ASSUME NEW s \in SessionState, NEW i \in Items \ LocalItems, s.items[i] # "absent"
  PROVE  \/ RefreshEntitlements(s).items[i] = s.items[i]
         \/ RefreshEntitlements(s).items[i] = "absent" /\ CareEvent \in s.events
BY DEF RefreshEntitlements, ReexpandAll, MergeLocalEntitlements, SessionState

\* One round judges the items that are pending and downgrades what the loop limit
\* leaves behind; it ends in the review exactly if a human is needed
\* (evaluate_ready_items, _check_loop_guardrails, ENTRY_GUARDS).
LEMMA RoundJudges ==
  ASSUME NEW s, Exact(s), s.ws = "retrieve_rules", NEW before, NEW dec \in Decisions
  PROVE  /\ Judged(s, AutoAdvance(s, before, dec))
         /\ ReviewedIfNeeded(AutoAdvance(s, before, dec))
<1> DEFINE e == EvaluateReadyItems(s, dec)
           g == CheckLoopGuardrails(e, before)
           t == AutoAdvance(s, before, dec)
<1>1. s \in SessionState /\ e \in SessionState
  BY EvaluateType DEF Exact
<1>2. e.ws = "evaluate_eligibility"
      /\ e.items = [i \in Items |-> IF ProgramStatus[i] \in Hidden THEN "absent"
                                    ELSE ResolveItem(s, i, dec)]
  BY <1>1 DEF EvaluateReadyItems, SessionState
<1>3. \A i \in Items : ProgramStatus[i] \in Hidden => s.items[i] = "absent"
  BY <1>1, CalledForIsVisible DEF Exact, Listed
<1>4. ASSUME NEW i \in Items
      PROVE  e.items[i] \in IF s.items[i] = "absent" THEN {"absent"}
                            ELSE IF s.items[i] = "pending" THEN ItemStatuses
                            ELSE {s.items[i]}
  <2>1. ResolveItem(s, i, dec) \in ItemStatuses \cup {"absent"}
        /\ (ResolveItem(s, i, dec) = "absent" <=> s.items[i] = "absent")
    BY <1>1, ResolveItemType, ResolveKeepsListed
  <2>2. s.items[i] # "pending" => ResolveItem(s, i, dec) = s.items[i]
    BY DEF ResolveItem
  <2> QED BY <1>2, <1>3, <2>1, <2>2
<1> HIDE DEF e
<1>5. g \in SessionState
  BY <1>1, GuardrailsType
<1>6. g.items = e.items \/ g.items = DowngradeUnsettled(e.items)
  BY <1>1 DEF CheckLoopGuardrails, SessionState
<1>7. ASSUME NEW i \in Items
      PROVE  g.items[i] = e.items[i]
             \/ (e.items[i] \in Unsettled /\ g.items[i] = "needs_human_review")
  BY <1>6 DEF DowngradeUnsettled
<1>8. Judged(s, g)
  <2> SUFFICES ASSUME NEW i \in Items
               PROVE  g.items[i] \in IF s.items[i] = "absent" THEN {"absent"}
                                     ELSE NextStatuses(s.items[i])
    BY DEF Judged
  <2>1. s.items[i] \in ItemStatuses \cup {"absent"} /\ "absent" \notin Unsettled
    BY <1>1 DEF SessionState, ItemStatuses, RuleEngineStatuses, Unsettled
  <2>2. CASE s.items[i] = "absent"
    BY <1>4, <1>7, <2>1, <2>2
  <2>3. CASE s.items[i] = "pending"
    <3>1. e.items[i] \in ItemStatuses
      BY <1>4, <2>3
    <3>2. "needs_human_review" \in ItemStatuses /\ NextStatuses("pending") = ItemStatuses
      BY DEF ItemStatuses, RuleEngineStatuses, NextStatuses
    <3> QED BY <1>7, <2>3, <3>1, <3>2
  <2>4. CASE s.items[i] \notin {"absent", "pending"}
    <3>1. e.items[i] = s.items[i]
      BY <1>4, <2>4
    <3>2. s.items[i] = "needs_information" => g.items[i] \in
            {"needs_information", "needs_human_review"}
      BY <1>7, <3>1
    <3>3. s.items[i] # "needs_information" => g.items[i] = s.items[i]
      BY <1>7, <2>4, <3>1 DEF Unsettled
    <3> QED BY <2>1, <2>4, <3>2, <3>3
            DEF NextStatuses, ItemStatuses, RuleEngineStatuses
  <2> QED BY <2>2, <2>3, <2>4
<1>9. ReviewedIfNeeded(g)
  <2>1. CASE g.ws = "evaluate_eligibility"
    BY <2>1 DEF ReviewedIfNeeded
  <2>2. CASE g.ws # "evaluate_eligibility"
    <3>1. /\ g.items = e.items /\ g.ws = AfterEvaluate(e)
          /\ ~(e.loops >= MaxLoopIterations /\ HasUnsettled(e))
      BY <1>1, <1>2, <2>2 DEF CheckLoopGuardrails, SessionState
    <3>2. e.loops \in Nat /\ MaxLoopIterations \in Nat
      BY <1>1, BoundAssumption DEF SessionState
    <3>3. g.ws \in {"confirm", "complete"} => ~HasUnsettled(e)
      BY <3>1, <3>2 DEF AfterEvaluate, ShouldLoopBack
    <3>4. ~HasUnsettled(e) =>
            (ConfirmGuard(e) <=> \E i \in Items : e.items[i] = "needs_human_review")
      BY DEF HasUnsettled, ConfirmGuard, Unsettled
    <3>5. /\ g.ws = "confirm" => ConfirmGuard(e)
          /\ g.ws = "complete" => ~ConfirmGuard(e)
      BY <3>1 DEF AfterEvaluate
    <3> QED BY <3>1, <3>3, <3>4, <3>5 DEF ReviewedIfNeeded
  <2> QED BY <2>1, <2>2
<1> HIDE DEF g
<1>10. t = AskIfCollecting(g)
  BY DEF AutoAdvance, g, e
<1>11. t.items = g.items /\ t.ws = g.ws
  BY <1>5, <1>10, AskIfCollectingKeeps DEF SessionState
<1> QED BY <1>8, <1>9, <1>11 DEF Judged, ReviewedIfNeeded

\* A national item of t is one that s may lead to.
Ages(s, t) ==
  \A i \in Items \ LocalItems :
    s.items[i] # "absent" =>
      \/ t.items[i] \in NextStatuses(s.items[i])
      \/ t.items[i] = "absent" /\ CareEvent \in s.events

\* A step that leaves the items alone, or declines one of them.
LEMMA SameItemsAge ==
  ASSUME NEW s \in SessionState, NEW t, t.items = s.items
  PROVE  Ages(s, t)
BY DEF Ages, NextStatuses, ItemStatuses, SessionState

LEMMA DeclinedAges ==
  ASSUME NEW s \in SessionState, NEW t, NEW j \in Items,
         t.items = [s.items EXCEPT ![j] = "declined_by_user"]
  PROVE  Ages(s, t)
BY DEF Ages, NextStatuses, ItemStatuses, SessionState

\* A refresh followed by a round.
LEMMA RoundAges ==
  ASSUME NEW s \in SessionState, NEW m \in SessionState, NEW u, NEW t,
         m.items = s.items, m.events = s.events,
         u.items = RefreshEntitlements(m).items, Judged(u, t)
  PROVE  Ages(s, t)
<1> SUFFICES ASSUME NEW i \in Items \ LocalItems, s.items[i] # "absent"
             PROVE  \/ t.items[i] \in NextStatuses(s.items[i])
                    \/ t.items[i] = "absent" /\ CareEvent \in s.events
  BY DEF Ages
<1>1. u.items[i] = s.items[i] \/ (u.items[i] = "absent" /\ CareEvent \in s.events)
  BY RefreshKeepsNational
<1> QED BY <1>1 DEF Judged

\* While answers are collected, every input ages the items and enters the review
\* only as needed (the inputs of COLLECT_MISSING_FIELDS).
LEMMA CollectingStep ==
  ASSUME NEW s, SessionInv(s), s.ws = "collect_missing_fields", NEW t \in Advance(s)
  PROVE  Ages(s, t) /\ ReviewedIfNeeded(t)
<1>0. s \in SessionState /\ AtRest(s) /\ Exact(s)
  BY DEF SessionInv, Grounded, ListInv, ListIsExact, Exact
<1>1. ASSUME t.ws = "collect_missing_fields" PROVE ReviewedIfNeeded(t)
  BY <1>1 DEF ReviewedIfNeeded
<1>2. CASE t \in RecordAnswers(s)
  <2>1. PICK a \in Answers, dec \in Decisions :
          t = AutoAdvance(RefreshEntitlements(ToRetrieve(Merge(s, a))), s, dec)
    BY <1>2, AnswersAdvance
  <2> DEFINE m == Merge(s, a)
             r == ToRetrieve(m)
             u == RefreshEntitlements(r)
  <2>2. m \in SessionState /\ r \in SessionState /\ u \in SessionState
    BY <1>0, MergeType, ToRetrieveType, RefreshType
  <2>3. m.items = s.items /\ m.events = s.events
    BY <1>0 DEF Merge, SessionState
  <2> HIDE DEF m
  <2>4. r.items = s.items /\ r.events = s.events /\ r.ws = "retrieve_rules"
    BY <2>2, <2>3 DEF ToRetrieve, SessionState
  <2> HIDE DEF r
  <2>5. Exact(u) /\ u.ws = "retrieve_rules"
    BY <1>0, <2>2, <2>4, RefreshExact, RefreshType DEF SessionState
  <2> HIDE DEF u
  <2>6. t = AutoAdvance(u, s, dec)
    BY <2>1 DEF m, r, u
  <2>7. Judged(u, t) /\ ReviewedIfNeeded(t)
    BY <2>5, <2>6, RoundJudges
  <2>8. Ages(s, t)
    BY <1>0, <2>2, <2>4, <2>7, RoundAges DEF u
  <2> QED BY <2>7, <2>8
<1>3. CASE t \in CollectFromChat(s)
  <2> DEFINE U(a) == RefreshEntitlements(Merge(s, a))
  <2>1. PICK a \in ChatAnswers(s) :
          t \in IF Missing(U(a)) # {} THEN AskOn(U(a))
                ELSE {AutoAdvance(ToRetrieve(U(a)), s, dec) : dec \in Decisions}
    BY <1>3, ChatAdvances
  <2> DEFINE m == Merge(s, a)
             u == RefreshEntitlements(m)
             r == ToRetrieve(u)
  <2>2. a \in Answers
    BY DEF ChatAnswers
  <2>3. m \in SessionState /\ u \in SessionState /\ r \in SessionState
    BY <1>0, <2>2, MergeType, ToRetrieveType, RefreshType
  <2>4. m.items = s.items /\ m.events = s.events /\ m.ws = s.ws
    BY <1>0 DEF Merge, SessionState
  <2> HIDE DEF m
  <2>5. Exact(u) /\ u.ws = "collect_missing_fields"
    BY <1>0, <2>3, <2>4, RefreshExact, RefreshType DEF SessionState
  <2>6. CASE Missing(u) # {}
    <3>1. t \in AskOn(u)
      BY <2>1, <2>6 DEF m
    <3> HIDE DEF u
    <3>2. t.items = u.items /\ t.ws = "collect_missing_fields"
      BY <2>3, <2>5, <3>1 DEF AskOn, SessionState
    <3>3. Judged(u, u)
      BY <2>3 DEF Judged, NextStatuses, SessionState
    <3>4. Judged(u, t)
      BY <3>2, <3>3 DEF Judged
    <3> QED BY <1>0, <1>1, <2>3, <2>4, <3>2, <3>4, RoundAges DEF u
  <2>7. CASE Missing(u) = {}
    <3>1. PICK dec \in Decisions : t = AutoAdvance(r, s, dec)
      BY <2>1, <2>7 DEF m
    <3>2. r.items = u.items /\ r.attrs = u.attrs /\ r.events = u.events
          /\ r.ws = "retrieve_rules"
      BY <2>3 DEF ToRetrieve, SessionState
    <3> HIDE DEF r
    <3>3. Exact(r)
      BY <2>3, <2>5, <3>2, ExactSame DEF Listed
    <3>4. Judged(r, t) /\ ReviewedIfNeeded(t)
      BY <3>1, <3>2, <3>3, RoundJudges
    <3>5. Ages(s, t)
      BY <1>0, <2>3, <2>4, <3>2, <3>4, RoundAges
    <3> QED BY <3>4, <3>5
  <2> QED BY <2>6, <2>7
<1>4. CASE t \in DeclineItem(s)
  <2>1. PICK i \in Items :
          t = AskIfCollecting([s EXCEPT !.items[i] = "declined_by_user"])
    BY <1>4 DEF DeclineItem
  <2> DEFINE u == [s EXCEPT !.items[i] = "declined_by_user"]
  <2>2. u \in SessionState /\ u.ws = s.ws
        /\ u.items = [s.items EXCEPT ![i] = "declined_by_user"]
    BY <1>0 DEF SessionState, ItemStatuses
  <2> HIDE DEF u
  <2>3. t = AskIfCollecting(u)
    BY <2>1 DEF u
  <2>4. t.items = u.items /\ t.ws = u.ws
    BY <2>2, <2>3, AskIfCollectingKeeps DEF SessionState
  <2> QED BY <1>0, <1>1, <2>2, <2>4, DeclinedAges
<1>5. CASE t \in ChatUnavailable(s) \cup RequestHelp(s)
  <2>1. t.items = s.items /\ t.ws = s.ws
    BY <1>0, <1>5 DEF ChatUnavailable, RequestHelp, SessionState
  <2> QED BY <1>0, <1>1, <2>1, SameItemsAge
<1>6. t \notin ReceiveLifeEvent(s) \cup ConfirmEvent(s) \cup DenyEvent(s)
  BY <1>0, EventsSettled
<1>7. t \notin UNION {ConfirmReview(s), ReturnFromReview(s), ChooseReferral(s)}
  BY DEF ConfirmReview, ReturnFromReview, ChooseReferral, Accepts, AllowedInputs,
         WorkflowStates
<1> QED BY <1>2, <1>3, <1>4, <1>5, <1>6, <1>7 DEF Advance

\* The other inputs leave the items alone, and before the confirmation nothing is
\* listed.
LEMMA OtherStepAges ==
  ASSUME NEW s, SessionInv(s), s.ws # "collect_missing_fields", NEW t \in Advance(s)
  PROVE  Ages(s, t)
<1>0. s \in SessionState /\ AtRest(s)
  BY DEF SessionInv, Grounded
<1>1. CASE s.ws = "understand_event"
  BY <1>1 DEF SessionInv, ListInv, ListIsExact, Listed, Ages
<1>2. CASE s.ws # "understand_event"
  <2>1. /\ ~Accepts(s, "attribute_answers") /\ ~Accepts(s, "attribute_chat_turn")
        /\ ~Accepts(s, "item_decline")
    BY <1>0, AcceptedWhileGoing DEF Accepts, AllowedInputs, WorkflowStates
  <2>2. t \in UNION {ConfirmReview(s), ReturnFromReview(s), ChooseReferral(s),
                     RequestHelp(s)}
    <3>1. RecordAnswers(s) = {}
      BY <2>1 DEF RecordAnswers
    <3>2. ChatUnavailable(s) = {} /\ CollectFromChat(s) = {} /\ DeclineItem(s) = {}
      BY <2>1 DEF ChatUnavailable, CollectFromChat, ChatAnswers, CanChat, DeclineItem
    <3> QED BY <1>0, <1>2, <3>1, <3>2, EventsSettled DEF Advance
  <2>3. t \in ConfirmReview(s) \cup ChooseReferral(s) \cup RequestHelp(s)
          => t.items = s.items
    BY <1>0 DEF ConfirmReview, ChooseReferral, RequestHelp, SessionState
  <2>4. t \in ReturnFromReview(s) => t.items = s.items
    <3> DEFINE u == [s EXCEPT !.ws = "collect_missing_fields"]
    <3>1. u \in SessionState /\ u.items = s.items
      BY <1>0 DEF SessionState, WorkflowStates
    <3>2. AskIfCollecting(u).items = u.items
      BY <3>1, AskIfCollectingKeeps DEF SessionState
    <3> QED BY <3>1, <3>2 DEF ReturnFromReview
  <2> QED BY <1>0, <2>2, <2>3, <2>4, SameItemsAge
<1> QED BY <1>1, <1>2

\* The question loop ends in a review if and only if some item needs a human
\* (ENTRY_GUARDS of CONFIRM and the settled items behind it).
THEOREM ReviewOnlyIfNeeded == Spec => ReviewIffNeeded
<1>1. IInv /\ [Next]_vars =>
        [session.ws = "collect_missing_fields" =>
           /\ session'.ws = "confirm" => NeedsHuman
           /\ session'.ws = "complete" => ~NeedsHuman]_vars
  BY NextIsAdvance, CollectingStep DEF IInv, ReviewedIfNeeded, NeedsHuman, vars
<1> QED BY <1>1, Invariant, PTL DEF Spec, ReviewIffNeeded

\* The conclusion about a national item stands until the user declines it, a
\* judged item never waits for answers again, and an item leaves the list only
\* when the care event finds it no longer relevant (_resolve_item,
\* _refresh_entitlements, _decline_item).
THEOREM ItemsAge == Spec => ItemLifecycle
<1>1. IInv /\ [Next]_vars =>
        [\A i \in Items \ LocalItems :
           session.items[i] # "absent" =>
             \/ session'.items[i] \in NextStatuses(session.items[i])
             \/ session'.items[i] = "absent" /\ CareEvent \in session.events]_vars
  BY NextIsAdvance, CollectingStep, OtherStepAges DEF IInv, Ages, vars
<1> QED BY <1>1, Invariant, PTL DEF Spec, ItemLifecycle

=============================================================================
