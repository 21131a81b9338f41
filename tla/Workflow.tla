------------------------------ MODULE Workflow ------------------------------
(***************************************************************************)
(* One consultation: a session record that the inputs of one user move, one *)
(* whole advance() at a time.  SessionService adds the store and the       *)
(* concurrent requests.                                                    *)
(***************************************************************************)
EXTENDS WorkflowRules

VARIABLE session   \* the SessionState of the consultation

vars == <<session>>

Init == session = NewSession

Next ==
  \/ session' \in ReceiveLifeEvent(session)
  \/ session' \in ConfirmEvent(session)
  \/ session' \in DenyEvent(session)
  \/ session' \in RecordAnswers(session)
  \/ session' \in ChatUnavailable(session)
  \/ session' \in CollectFromChat(session)
  \/ session' \in DeclineItem(session)
  \/ session' \in ConfirmReview(session)
  \/ session' \in ReturnFromReview(session)
  \/ session' \in ChooseReferral(session)
  \/ session' \in RequestHelp(session)

Spec == Init /\ [][Next]_vars

\* A user who keeps answering the question card, with any answers at all.
\* Nothing else is assumed of the user.
PatientSpec == Spec /\ WF_vars(session' \in RecordAnswers(session))

-----------------------------------------------------------------------------
(* Properties.                                                             *)

\* The session record keeps its shape.
TypeOK == session \in SessionState

\* advance() always stops where the user can act (auto-advance, entry guards).
SessionRests == RestsWhereUserCanAct(session)

\* CONFIRM and COMPLETE are reached with every item settled (loop-back rule).
FinishedMeansSettled == NothingLeftOpen(session)

\* The loop limit downgrades every item it leaves behind (first guardrail).
LimitDowngrades == LimitLeavesNoneOpen(session)

\* No conclusion without verified data and complete answers (determination).
NoConclusionWithoutEvidence == JudgedOnEvidence(session)

\* The list always matches the present answers (refresh of the entitlements).
ListMatchesAnswers == ListIsExact(session)

\* The event retry exit is neither early nor late (confirmation of events).
RetryExit == RetryLimitIsExact(session)

\* No unregistered field and no illegal value is ever kept (privacy gate).
PrivacyGateHolds == OnlyGatedAnswers(session)

\* A collecting session with missing fields asks for one (collector question).
QuestionWhileMissing == AlwaysAQuestion(session)

\* Requirement 3: the loop ends in a review if and only if some item needs a
\* human; otherwise the review is skipped.
NeedsHuman == \E i \in Items : session'.items[i] = "needs_human_review"
ReviewIffNeeded ==
  [][session.ws = "collect_missing_fields" =>
       /\ session'.ws = "confirm" => NeedsHuman
       /\ session'.ws = "complete" => ~NeedsHuman]_vars

\* Requirement 7.2: the conclusion about a national item stands - whatever is
\* answered, evaluated or refreshed later, only the user's decline replaces it -
\* and an item that was judged never waits for answers again.  An item leaves
\* the list only when the care event finds it no longer relevant.
NextStatuses(status) ==
  CASE status = "pending" -> ItemStatuses
    [] status = "needs_information" -> ItemStatuses \ {"pending"}
    [] OTHER -> {status, "declined_by_user"}
ItemLifecycle ==
  [][\A i \in Items \ LocalItems :
       session.items[i] # "absent" =>
         \/ session'.items[i] \in NextStatuses(session.items[i])
         \/ session'.items[i] = "absent" /\ CareEvent \in session.events]_vars

\* An ended consultation stays as it ended, with the reason it ended for.
EndedIsFinal == [][Open(session)]_vars

\* Answers may be corrected but are never forgotten, and a consultation that
\* has confirmed its events never goes back to guessing them.
AnswersAreKept ==
  [][/\ Answered(session) \subseteq Answered(session')
     /\ session.ws # "understand_event" =>
          /\ session'.ws # "understand_event"
          /\ session'.events = session.events]_vars

\* The guardrails' promise: a user who keeps answering is let out of the
\* question loop, whatever the answers are.
Collecting == Open(session) /\ session.ws = "collect_missing_fields"
QuestionsEnd == Collecting ~> ~Collecting

(* Statements of the documentation that the code does not keep.            *)

\* design.md, Property 4: loop_iterations never exceeds max_iterations.
LoopsBounded == session.loops <= MaxLoopIterations

\* _refresh_entitlements: items that are still listed keep their status.
RefreshKeepsStatus ==
  [][\A i \in Items :
       /\ session.items[i] \in ItemStatuses \ Unsettled
       /\ session'.items[i] # "absent"
       => session'.items[i] \in {session.items[i], "declined_by_user"}]_vars

=============================================================================
