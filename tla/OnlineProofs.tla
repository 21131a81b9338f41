---------------------------- MODULE OnlineProofs -----------------------------
(***************************************************************************)
(* Theorems about the tracked cases, the rate slot and the rule engine, for   *)
(* any number of tabs, items and threads, any gap and any programme, and      *)
(* about the composition of the online parts.                                *)
(***************************************************************************)
EXTENDS MCOnline, SessionClientProofs, TLAPS

(* The tracked cases.                                                       *)

LEMMA ElsewhereIsAScreen == Elsewhere \in Screen
BY TrackingAssumption DEF Elsewhere, Screen, Untracked, Progress

\* The storages and the pages keep their shape, and no number of tabs takes an
\* item past the last step of its flow (trackingStore.ts).
THEOREM TrackedTypeCorrect == TrackedSpec => []TrackedTypeOK
<1>1. TrackedInit => TrackedTypeOK
  BY ElsewhereIsAScreen, TrackingAssumption
     DEF TrackedInit, TrackedTypeOK, Untracked, Progress
<1>2. TrackedTypeOK /\ [TrackedNext]_trackedVars => TrackedTypeOK'
  <2> SUFFICES ASSUME TrackedTypeOK, [TrackedNext]_trackedVars PROVE TrackedTypeOK'
    OBVIOUS
  <2>1. CASE UNCHANGED trackedVars
    BY <2>1 DEF trackedVars, TrackedTypeOK
  <2>2. ASSUME TrackedNext PROVE TrackedTypeOK'
    <3>1. PICK t \in open :
            \/ OpenResults(t) \/ OpenTracking(t) \/ ClearAll(t) \/ LeavePage(t)
            \/ \E r \in Rows : AddFromResults(t, r)
            \/ \E i \in Items : AddFromPending(t, i) \/ AdvanceStep(t, i)
                                  \/ Remove(t, i)
      BY <2>2 DEF TrackedNext
    <3>2. open' = open /\ t \in Tabs
      BY <2>2 DEF TrackedNext, TrackedTypeOK
    <3>3. ASSUME tracked' \in [Items -> Progress], pending' \in [Tabs -> SUBSET Items],
                 Redraw(t)
          PROVE  TrackedTypeOK'
      <4>1. Redrawn(t) \in Screen
        BY <3>2, <3>3, ElsewhereIsAScreen DEF Redrawn, Elsewhere, Screen
      <4> QED BY <3>2, <3>3, <4>1 DEF Redraw, TrackedTypeOK
    <3>4. CASE OpenResults(t)
      <4>1. PICK rows \in SUBSET Rows \ {{}} :
              /\ screen' = [screen EXCEPT ![t] =
                   [Elsewhere EXCEPT !.page = "results",
                                     !.offers = OffersOnMount(rows)]]
              /\ pending' = [pending EXCEPT ![t] =
                   {i \in Items : ~IsTracked(i) /\ \E r \in rows : r.item = i}]
              /\ UNCHANGED tracked
        BY <3>4 DEF OpenResults
      <4>2. [Elsewhere EXCEPT !.page = "results", !.offers = OffersOnMount(rows)]
              \in Screen
        <5>1. OffersOnMount(rows) \in SUBSET Rows
          BY DEF OffersOnMount
        <5> HIDE DEF Rows
        <5> QED BY <5>1, ElsewhereIsAScreen DEF Elsewhere, Screen
      <4>3. {i \in Items : ~IsTracked(i) /\ \E r \in rows : r.item = i} \in SUBSET Items
        OBVIOUS
      <4> HIDE DEF Screen, Elsewhere
      <4> QED BY <3>2, <4>1, <4>2, <4>3 DEF TrackedTypeOK
    <3>5. CASE OpenTracking(t)
      BY <3>3, <3>5 DEF OpenTracking, TrackedTypeOK
    <3>6. CASE ClearAll(t)
      <4>1. tracked' \in [Items -> Progress]
        BY <3>6, TrackingAssumption DEF ClearAll, Untracked, Progress
      <4> QED BY <3>3, <3>6, <4>1 DEF ClearAll, TrackedTypeOK
    <3>7. CASE LeavePage(t)
      BY <3>2, <3>7, ElsewhereIsAScreen DEF LeavePage, TrackedTypeOK
    <3>8. ASSUME NEW i \in Items, AddTracked(t, i)
          PROVE  tracked' \in [Items -> Progress] /\ pending' \in [Tabs -> SUBSET Items]
      BY <3>2, <3>8, TrackingAssumption
         DEF AddTracked, LeftToTrack, TrackedTypeOK, Progress
    <3>9. ASSUME NEW r \in Rows, AddFromResults(t, r) PROVE TrackedTypeOK'
      <4>0. r.item \in Items
        BY DEF Rows
      <4>1. screen[t] \in Screen
        BY <3>2 DEF TrackedTypeOK
      <4> DEFINE new == [screen[t] EXCEPT !.offers = @ \ {r}]
      <4>2. new \in Screen
        BY <4>1 DEF Screen
      <4>3. screen' = [screen EXCEPT ![t] = new]
        BY <3>9 DEF AddFromResults
      <4> HIDE DEF new
      <4>4. screen' \in [Tabs -> Screen]
        BY <3>2, <4>2, <4>3 DEF TrackedTypeOK
      <4> QED BY <3>2, <3>8, <3>9, <4>0, <4>4 DEF AddFromResults, TrackedTypeOK
    <3>10. ASSUME NEW i \in Items, AddFromPending(t, i) PROVE TrackedTypeOK'
      BY <3>3, <3>8, <3>10 DEF AddFromPending
    <3>11. ASSUME NEW i \in Items, AdvanceStep(t, i) PROVE TrackedTypeOK'
      <4>1. Advanced(tracked[i]) \in Progress
        BY TrackingAssumption DEF Advanced, TrackedTypeOK, Progress
      <4>2. tracked' = [tracked EXCEPT ![i] = Advanced(tracked[i])]
        BY <3>11 DEF AdvanceStep
      <4> QED BY <3>3, <3>11, <4>1, <4>2 DEF AdvanceStep, TrackedTypeOK
    <3>12. ASSUME NEW i \in Items, Remove(t, i) PROVE TrackedTypeOK'
      <4>1. tracked' \in [Items -> Progress]
        BY <3>12, TrackingAssumption DEF Remove, TrackedTypeOK, Progress
      <4> QED BY <3>3, <3>12, <4>1 DEF Remove, TrackedTypeOK
    <3> QED BY <3>1, <3>4, <3>5, <3>6, <3>7, <3>9, <3>10, <3>11, <3>12
  <2> QED BY <2>1, <2>2
<1> QED BY <1>1, <1>2, PTL DEF TrackedSpec

\* In one tab nothing waits to be tracked that is tracked already, neither on the
\* pending list in the storage nor on the page, and an item that a row offers
\* has no completed step to lose.
TabInv(t) ==
  /\ \A i \in pending[t] : ~IsTracked(i)
  /\ screen[t].page = "results" => \A r \in screen[t].offers : tracked[r.item] <= 0
  /\ OnPage(t) => screen[t].shown = tracked /\ screen[t].list = pending[t]

PageInv == TrackedTypeOK /\ (OneTab => \A t \in open : TabInv(t))

\* What one tab does to its storage and to what it shows: the items it adds had
\* no completed step, and a step is completed, never taken back.
LEMMA TabStep ==
  ASSUME TrackedTypeOK, TrackedTypeOK', NEW t \in Tabs, open = {t}, TabInv(t), TrackedNext
  PROVE  /\ TabInv(t)'
         /\ \A i \in Items : IsTracked(i) /\ tracked'[i] # -1 => tracked'[i] >= tracked[i]
<1> DEFINE Kept == \A i \in Items : IsTracked(i) /\ tracked'[i] # -1 => tracked'[i] >= tracked[i]
<1>1. \/ OpenResults(t) \/ OpenTracking(t) \/ ClearAll(t) \/ LeavePage(t)
      \/ \E r \in Rows : AddFromResults(t, r)
      \/ \E i \in Items : AddFromPending(t, i) \/ AdvanceStep(t, i) \/ Remove(t, i)
  BY DEF TrackedNext
<1>2. tracked \in [Items -> Int] /\ tracked' \in [Items -> Int]
  BY DEF TrackedTypeOK, Progress
<1>3. pending \in [Tabs -> SUBSET Items] /\ screen \in [Tabs -> Screen]
      /\ screen[t] \in Screen
  BY DEF TrackedTypeOK
<1>4. ASSUME Redraw(t), \A i \in pending'[t] : tracked'[i] = -1
      PROVE  TabInv(t)'
  <2>1. screen'[t] = Redrawn(t)
    BY <1>3, <1>4 DEF Redraw
  <2>2. screen'[t].page = "tracking" /\ screen'[t].shown = tracked'
        /\ screen'[t].list = pending'[t]
    BY <2>1 DEF Redrawn, Elsewhere
  <2> QED BY <1>4, <2>2 DEF TabInv, IsTracked, OnPage
<1>5. CASE OpenResults(t)
  <2>1. PICK rows \in SUBSET Rows \ {{}} :
          /\ screen' = [screen EXCEPT ![t] =
               [Elsewhere EXCEPT !.page = "results", !.offers = OffersOnMount(rows)]]
          /\ pending' = [pending EXCEPT ![t] =
               {i \in Items : ~IsTracked(i) /\ \E r \in rows : r.item = i}]
          /\ UNCHANGED tracked
    BY <1>5 DEF OpenResults
  <2>2. /\ screen'[t].page = "results" /\ screen'[t].offers = OffersOnMount(rows)
        /\ pending'[t] = {i \in Items : ~IsTracked(i) /\ \E r \in rows : r.item = i}
    BY <1>3, <2>1 DEF Elsewhere
  <2>3. \A r \in OffersOnMount(rows) : tracked'[r.item] <= 0
    BY <2>1 DEF OffersOnMount, IsTracked
  <2>4. \A i \in pending'[t] : tracked'[i] = -1
    BY <2>1, <2>2 DEF IsTracked
  <2>5. tracked' = tracked
    BY <2>1
  <2> QED BY <1>2, <2>2, <2>3, <2>4, <2>5 DEF TabInv, OnPage, IsTracked
<1>6. CASE OpenTracking(t)
  BY <1>2, <1>4, <1>6 DEF OpenTracking, TabInv, IsTracked
<1>7. CASE ClearAll(t)
  <2>1. \A i \in Items : tracked'[i] = -1
    BY <1>7 DEF ClearAll, Untracked
  <2> QED BY <1>3, <1>4, <1>7, <2>1 DEF ClearAll
<1>8. CASE LeavePage(t)
  <2>1. screen'[t].page = "other"
    BY <1>3, <1>8 DEF LeavePage, Elsewhere
  <2> QED BY <1>2, <1>8, <2>1 DEF LeavePage, TabInv, OnPage, IsTracked
<1>9. ASSUME NEW i \in Items, AddTracked(t, i), tracked[i] <= 0
      PROVE  /\ tracked'[i] = 0 /\ \A j \in Items : j # i => tracked'[j] = tracked[j]
             /\ Kept
             /\ \A j \in pending'[t] : tracked'[j] = -1
  <2>1. tracked'[i] = 0 /\ \A j \in Items : j # i => tracked'[j] = tracked[j]
    BY <1>2, <1>9 DEF AddTracked
  <2>2. pending'[t] = pending[t] \ {i}
    BY <1>3, <1>9 DEF AddTracked, LeftToTrack
  <2>3. Kept
    BY <1>2, <1>9, <2>1 DEF IsTracked
  <2> QED BY <1>3, <2>1, <2>2, <2>3 DEF TabInv, IsTracked
<1>10. ASSUME NEW r \in Rows, AddFromResults(t, r) PROVE TabInv(t)' /\ Kept
  <2>0. r.item \in Items /\ \A q \in screen[t].offers : q.item \in Items
    BY <1>3 DEF Rows, Screen
  <2>1. AddTracked(t, r.item) /\ tracked[r.item] <= 0
    BY <1>10 DEF AddFromResults, TabInv
  <2>2. /\ screen'[t].page = "results"
        /\ screen'[t].offers = screen[t].offers \ {r}
    BY <1>3, <1>10 DEF AddFromResults, Screen
  <2>3. \A q \in screen[t].offers : tracked[q.item] <= 0
    BY <1>10 DEF AddFromResults, TabInv
  <2>4. \A q \in screen'[t].offers : tracked'[q.item] <= 0
    BY <1>9, <2>0, <2>1, <2>2, <2>3
  <2> QED BY <1>9, <2>0, <2>1, <2>2, <2>4 DEF TabInv, OnPage, IsTracked
<1>11. ASSUME NEW i \in Items, AddFromPending(t, i) PROVE TabInv(t)' /\ Kept
  <2>1. AddTracked(t, i) /\ Redraw(t) /\ tracked[i] = -1
    BY <1>11 DEF AddFromPending, TabInv, IsTracked
  <2> QED BY <1>2, <1>4, <1>9, <2>1
<1>12. ASSUME NEW i \in Items, AdvanceStep(t, i) PROVE TabInv(t)' /\ Kept
  <2>1. tracked' = [tracked EXCEPT ![i] = Advanced(tracked[i])] /\ pending' = pending
    BY <1>12 DEF AdvanceStep
  <2>2. \A j \in Items : /\ tracked'[j] >= tracked[j]
                         /\ tracked[j] = -1 => tracked'[j] = -1
    BY <1>2, <2>1, TrackingAssumption DEF Advanced
  <2> QED BY <1>3, <1>4, <1>12, <2>1, <2>2 DEF AdvanceStep, TabInv, IsTracked
<1>13. ASSUME NEW i \in Items, Remove(t, i) PROVE TabInv(t)' /\ Kept
  <2>1. /\ tracked' = [tracked EXCEPT ![i] = -1] /\ pending' = pending
        /\ Redraw(t)
    BY <1>13 DEF Remove
  <2>2. \A j \in Items : /\ tracked'[j] = tracked[j] \/ tracked'[j] = -1
                         /\ tracked[j] = -1 => tracked'[j] = -1
    BY <1>2, <2>1
  <2>3. \A j \in pending'[t] : tracked'[j] = -1
    BY <1>3, <2>1, <2>2 DEF TabInv, IsTracked
  <2> QED BY <1>2, <1>4, <2>1, <2>2, <2>3
<1>14. OpenResults(t) \/ OpenTracking(t) \/ LeavePage(t) => Kept
  <2>1. OpenResults(t) \/ OpenTracking(t) \/ LeavePage(t) => tracked' = tracked
    BY DEF OpenResults, OpenTracking, LeavePage
  <2> QED BY <1>2, <2>1
<1>15. ClearAll(t) => Kept
  BY DEF ClearAll, Untracked
<1> QED BY <1>1, <1>5, <1>6, <1>7, <1>8, <1>10, <1>11, <1>12, <1>13, <1>14, <1>15

\* It holds in every reachable state.
LEMMA PageInvariant == TrackedSpec => []PageInv
<1>1. TrackedInit /\ TrackedTypeOK => PageInv
  <2> SUFFICES ASSUME TrackedInit, TrackedTypeOK, NEW t \in open PROVE TabInv(t)
    BY DEF PageInv
  <2>1. t \in Tabs /\ pending[t] = {} /\ screen[t].page = "other"
    BY DEF TrackedInit, TrackedTypeOK, Elsewhere
  <2> QED BY <2>1 DEF TabInv, OnPage
<1>2. PageInv /\ TrackedTypeOK' /\ [TrackedNext]_trackedVars => PageInv'
  <2> SUFFICES ASSUME PageInv, TrackedTypeOK', [TrackedNext]_trackedVars PROVE PageInv'
    OBVIOUS
  <2>1. CASE UNCHANGED trackedVars
    BY <2>1 DEF trackedVars, PageInv, TabInv, OneTab, OnPage, IsTracked
  <2>2. ASSUME TrackedNext, OneTab' PROVE \A t \in open' : TabInv(t)'
    <3>1. open' = open
      BY <2>2 DEF TrackedNext
    <3>2. PICK t \in Tabs : open = {t}
      BY <2>2, <3>1 DEF OneTab
    <3>3. TabInv(t)
      BY <3>2 DEF PageInv, OneTab
    <3>4. TabInv(t)'
      BY <2>2, <3>2, <3>3, TabStep DEF PageInv
    <3> QED BY <3>1, <3>2, <3>4
  <2> QED BY <2>1, <2>2 DEF PageInv
<1> QED BY <1>1, <1>2, TrackedTypeCorrect, PTL DEF TrackedSpec

\* In one tab the tracking page is never out of date, and its pending section
\* offers only what is not tracked yet (pages/TrackedCasesPage.tsx).
THEOREM OneTabIsCurrent == TrackedSpec => []PageIsCurrent
<1>1. PageInv => PageIsCurrent
  BY DEF PageInv, TabInv, PageIsCurrent
<1> QED BY <1>1, PageInvariant, PTL

\* In one tab no completed step of an item that stays tracked is ever taken away,
\* although addTrackedBenefitItem replaces the entry.
THEOREM NoStepIsLost == TrackedSpec => ProgressKept
<1>1. ASSUME PageInv, TrackedTypeOK', TrackedNext, OneTab, NEW i \in Items,
             IsTracked(i), tracked'[i] # -1
      PROVE  tracked'[i] >= tracked[i]
  <2>1. PICK t \in Tabs : open = {t}
    BY <1>1 DEF OneTab
  <2>2. TabInv(t)
    BY <1>1, <2>1 DEF PageInv
  <2> QED BY <1>1, <2>1, <2>2, TabStep DEF PageInv
<1>2. PageInv /\ TrackedTypeOK' /\ [TrackedNext]_trackedVars =>
        [OneTab => \A i \in Items : IsTracked(i) /\ tracked'[i] # -1
                     => tracked'[i] >= tracked[i]]_trackedVars
  BY <1>1
<1> QED BY <1>2, PageInvariant, TrackedTypeCorrect, PTL DEF TrackedSpec, ProgressKept

-----------------------------------------------------------------------------
(* The rate slot, for any number of threads and any gap.                      *)

\* The rate slot keeps its shape (_rate_lock, _last_request_monotonic).
THEOREM RateTypeCorrect == RateSpec => []RateTypeOK
<1>1. RateInit => RateTypeOK
  BY RateAssumption DEF RateInit, RateTypeOK, Where
<1>2. RateTypeOK /\ [RateNext]_rateVars => RateTypeOK'
  <2> SUFFICES ASSUME RateTypeOK, [RateNext]_rateVars PROVE RateTypeOK'
    OBVIOUS
  <2> USE DEF RateTypeOK
  <2>1. CASE UNCHANGED rateVars
    BY <2>1 DEF rateVars
  <2>2. ASSUME NEW t \in Threads, GenerateStructured(t) PROVE RateTypeOK'
    BY <2>2 DEF GenerateStructured, Move, Where
  <2>3. ASSUME NEW t \in Threads, TakeLock(t) PROVE RateTypeOK'
    BY <2>3 DEF TakeLock, Move, Where
  <2>4. ASSUME NEW t \in Threads, LeaveLock(t) PROVE RateTypeOK'
    BY <2>4 DEF LeaveLock, Move, Where, Stamp
  <2>5. ASSUME NEW t \in Threads, Converse(t) PROVE RateTypeOK'
    BY <2>5 DEF Converse, Move, Where
  <2>6. CASE Tick
    BY <2>6 DEF Tick
  <2> QED BY <2>1, <2>2, <2>3, <2>4, <2>5, <2>6 DEF RateNext
<1> QED BY <1>1, <1>2, PTL DEF RateSpec

\* What was stored last is the stamp of the last slot: nobody else writes it
\* between the computation of a wait and the stamp that follows it.
RateInv ==
  /\ RateTypeOK
  /\ SlotsAreSpaced
  /\ slots # <<>> => last = slots[Len(slots)]

\* A log stays spaced when a stamp is added at least a gap after the last one.
LEMMA SpacedAppend ==
  ASSUME NEW log \in Seq(Nat), NEW n \in Nat, Spaced(log),
         log # <<>> => n - log[Len(log)] >= Gap
  PROVE  /\ Spaced(Append(log, n))
         /\ Append(log, n)[Len(Append(log, n))] = n
<1>1. /\ Len(Append(log, n)) = Len(log) + 1
      /\ \A i \in 1..Len(log) : Append(log, n)[i] = log[i]
      /\ Append(log, n)[Len(log) + 1] = n
      /\ Len(log) \in Nat
  OBVIOUS
<1>2. ASSUME NEW i \in 1..Len(log)
      PROVE  Append(log, n)[i + 1] - Append(log, n)[i] >= Gap
  <2>1. CASE i = Len(log)
    BY <1>1, <2>1
  <2>2. CASE i < Len(log)
    <3>1. i \in 1..Len(log) - 1 /\ i + 1 \in 1..Len(log)
      BY <1>1, <2>2
    <3> QED BY <1>1, <3>1 DEF Spaced
  <2> QED BY <1>1, <2>1, <2>2
<1> QED BY <1>1, <1>2 DEF Spaced

\* Two slots of _wait_for_rate_slot are never closer than the gap, whatever the
\* threads and the clock do.
THEOREM SlotsKeepTheGap == RateSpec => []SlotsAreSpaced
<1>1. RateInit => RateInv
  BY RateAssumption DEF RateInit, RateInv, RateTypeOK, Where, SlotsAreSpaced, Spaced
<1>2. RateTypeOK' /\ RateInv /\ [RateNext]_rateVars => RateInv'
  <2> SUFFICES ASSUME RateTypeOK', RateInv, [RateNext]_rateVars PROVE RateInv'
    OBVIOUS
  <2>1. CASE UNCHANGED <<slots, last>>
    BY <2>1 DEF RateInv, SlotsAreSpaced
  <2>2. ASSUME NEW t \in Threads, LeaveLock(t) PROVE RateInv'
    <3>1. /\ slots' = Append(slots, time) /\ last' = time
          /\ time \in Nat /\ last \in Nat /\ entered[t] \in Nat /\ Gap \in Nat
          /\ slots \in Seq(Nat)
      BY <2>2, RateAssumption DEF LeaveLock, Stamp, RateInv, RateTypeOK
    <3>2. time - last >= Gap
      BY <2>2, <3>1 DEF LeaveLock, SleptEnough, Wait
    <3>3. Spaced(slots') /\ slots'[Len(slots')] = last'
      BY <3>1, <3>2, SpacedAppend DEF RateInv, SlotsAreSpaced
    <3> QED BY <3>3 DEF RateInv, SlotsAreSpaced
  <2> QED BY <2>1, <2>2 DEF RateNext, rateVars, GenerateStructured, TakeLock, Converse, Tick
<1>3. RateInv => SlotsAreSpaced
  BY DEF RateInv
<1> QED BY <1>1, <1>2, <1>3, RateTypeCorrect, PTL DEF RateSpec

-----------------------------------------------------------------------------
(* The rule engine, for every programme and every set of answers: no field of  *)
(* a rule is assumed to be consistent with another one.                       *)

\* The points of the criteria of compute_relevance_score add up to 100 at most,
\* so its cap never takes anything away.
THEOREM CapIsNeverReached == RuleSpec => []ScoreWithinCap
<1>1. ScoreWithinCap
  <2> DEFINE days == rules.application_deadline_days
             start == rules.application_period_start
             end == rules.application_period_end
             now == attrs["current_date"]
             place == Points(attrs["jurisdiction"] = rules.jurisdiction, 25)
             remains == Points(attrs["remains_type"] \in rules.eligible_remains_types, 15)
             person == Points(attrs["deceased_status"]
                                \in rules.eligible_deceased_statuses, 20)
             intime == Points(/\ days # NoRule /\ days # 0
                              /\ rules.deadline_starts_from
                              /\ Known("days_since") /\ ~TooLate, 10)
             inside == Points(/\ start # NoRule /\ end # NoRule
                              /\ Known("current_date")
                              /\ start <= now /\ now <= end, 5)
             city == Points(/\ rules.requires_city_registration = FALSE
                            /\ Known("registered_in_city")
                                 => ~attrs["registered_in_city"], 5)
             paid == Points(rules.min_amount # NoRule, 5)
  <2>1. /\ place \in 0..25 /\ remains \in 0..15 /\ person \in 0..20
        /\ intime \in 0..10 /\ inside \in 0..5 /\ city \in 0..5 /\ paid \in 0..5
    BY DEF Points
  <2>2. EcoPoints \in 0..15
    BY DEF EcoPoints, EcoAlignment, Points
  <2>3. Score = place + remains + EcoPoints + person + intime + inside + city + paid
    BY DEF Score
  <2> HIDE DEF place, remains, person, intime, inside, city, paid
  <2> QED BY <2>1, <2>2, <2>3 DEF ScoreWithinCap
<1> QED BY <1>1, PTL

-----------------------------------------------------------------------------
(* Verdicts while a person answers.                                         *)

\* The programme is one and the same while a person answers.
LEMMA RulesStay == RuleSpec => [](rules \in Programs) /\ [][rules' = rules]_ruleVars
<1>1. RuleInit => rules \in Programs
  BY DEF RuleInit
<1>2. [RuleNext]_ruleVars => rules' = rules
  BY DEF RuleNext, Answer, ruleVars
<1>3. rules \in Programs /\ [RuleNext]_ruleVars => (rules \in Programs)'
  BY <1>2
<1>4. [RuleNext]_ruleVars => [rules' = rules]_ruleVars
  BY <1>2
<1> QED BY <1>1, <1>3, <1>4, PTL DEF RuleSpec

\* What was answered before a new answer is answered the same after it.
LEMMA KnownStays ==
  ASSUME NewAnswer
  PROVE  \A f \in Attributes : Known(f) => Known(f)' /\ attrs'[f] = attrs[f]
BY DEF NewAnswer, Known

\* A given answer refuses now what it refused before, and nothing else.
LEMMA RefusesSame ==
  ASSUME rules' = rules, NEW f \in Needed, attrs'[f] = attrs[f]
  PROVE  Refuses(f)' = Refuses(f)
BY DEF Refuses, TooLate, Needed

LEMMA NeededAreAttributes == Needed \cup {"current_date"} \subseteq Attributes
BY EngineAssumption DEF Needed

\* What refuses a programme is an answer; it refuses whatever else is said.
LEMMA RefusedStays ==
  ASSUME rules' = rules, NewAnswer, Ineligible
  PROVE  Ineligible'
<1>1. CASE OutsidePeriod
  <2>1. Known("current_date")' /\ attrs'["current_date"] = attrs["current_date"]
    BY <1>1, KnownStays, NeededAreAttributes DEF OutsidePeriod
  <2>2. OutsidePeriod'
    BY <1>1, <2>1 DEF OutsidePeriod
  <2> QED BY <2>2 DEF Ineligible
<1>2. ASSUME NEW f \in Needed, Known(f), Refuses(f)
      PROVE  Ineligible'
  <2>1. Known(f)' /\ attrs'[f] = attrs[f]
    BY <1>2, KnownStays, NeededAreAttributes
  <2>2. Needed' = Needed
    BY DEF Needed
  <2>3. Refuses(f)'
    BY <1>2, <2>1, RefusesSame
  <2> QED BY <2>1, <2>2, <2>3 DEF Ineligible
<1> QED BY <1>1, <1>2 DEF Ineligible

\* A refusal is never taken back by answering more questions: the early returns
\* of evaluate_program rest on answers that were given.
THEOREM RefusalsStand == RuleSpec => RefusalIsFinal
<1>1. rules' = rules =>
        (NewAnswer /\ Status = "ineligible" => Status' = "ineligible")
  BY RefusedStays DEF Status
<1>2. [rules' = rules]_ruleVars =>
        [NewAnswer /\ Status = "ineligible" => Status' = "ineligible"]_ruleVars
  BY <1>1
<1> QED BY <1>2, RulesStay, PTL DEF RefusalIsFinal

\* Once nothing was missing for the amount, nothing comes to be missing for it.
LEMMA AmountStays ==
  ASSUME rules \in Programs, rules' = rules, NewAnswer, AmountMissing = {}
  PROVE  AmountMissing' = {}
<1> DEFINE conditions == rules.amount_conditions
<1>1. CASE Matching # {}
  <2>1. PICK i \in DOMAIN conditions : Holds(conditions[i])
    BY <1>1 DEF Matching
  <2>2. \A f \in DOMAIN conditions[i].wants :
          f \in Attributes /\ conditions[i].wants[f] # Unknown
    BY EngineAssumption
  <2>3. \A f \in DOMAIN conditions[i].wants : attrs'[f] = attrs[f]
    BY <2>1, <2>2, KnownStays DEF Holds, Known
  <2>4. Holds(conditions[i])'
    BY <2>1, <2>3 DEF Holds
  <2>5. Matching' # {}
    BY <2>1, <2>4 DEF Matching
  <2> QED BY <2>5 DEF AmountMissing
<1>2. CASE Matching = {}
  <2>1. \A i \in DOMAIN conditions : \A f \in DOMAIN conditions[i].wants :
          f \in Attributes /\ Known(f)
    BY <1>2, EngineAssumption DEF AmountMissing
  <2>2. \A i \in DOMAIN conditions : \A f \in DOMAIN conditions[i].wants : Known(f)'
    BY <2>1, KnownStays
  <2> QED BY <2>2 DEF AmountMissing
<1> QED BY <1>1, <1>2

\* A programme found eligible stays so when more is said, today's date being
\* known from the start or not at all.
THEOREM EligibleStands == RuleSpec => EligibleIsStable
<1>1. ASSUME rules \in Programs, rules' = rules, NewAnswer, Status = "eligible",
             Known("current_date") \/ ~Known("current_date")'
      PROVE  Status' = "eligible"
  <2>1. ~Ineligible /\ MissingInputs = {}
    BY <1>1 DEF Status
  <2>2. \A f \in Needed : Known(f) /\ Known(f)' /\ attrs'[f] = attrs[f]
    BY <1>1, <2>1, KnownStays, NeededAreAttributes DEF MissingInputs
  <2>3. Needed' = Needed
    BY <1>1 DEF Needed
  <2>4. \A f \in Needed : ~Refuses(f)'
    BY <1>1, <2>1, <2>2, RefusesSame DEF Ineligible
  <2>5. ~OutsidePeriod'
    <3>1. CASE Known("current_date")
      <4>1. attrs'["current_date"] = attrs["current_date"]
        BY <1>1, <3>1, KnownStays, NeededAreAttributes
      <4> QED BY <1>1, <2>1, <3>1, <4>1 DEF OutsidePeriod, Ineligible
    <3>2. CASE ~Known("current_date")'
      BY <3>2 DEF OutsidePeriod
    <3> QED BY <1>1, <3>1, <3>2
  <2>6. ~Ineligible'
    BY <2>3, <2>4, <2>5 DEF Ineligible
  <2>7. AmountMissing' = {}
    BY <1>1, <2>1, AmountStays DEF MissingInputs
  <2>8. MissingInputs' = {}
    BY <2>2, <2>3, <2>7 DEF MissingInputs
  <2> QED BY <2>6, <2>8 DEF Status
<1>2. rules \in Programs /\ [rules' = rules]_ruleVars =>
        [/\ NewAnswer /\ Status = "eligible"
         /\ Known("current_date") \/ ~Known("current_date")'
         => Status' = "eligible"]_ruleVars
  BY <1>1
<1> QED BY <1>2, RulesStay, PTL DEF EligibleIsStable

\* New answers turn no verdict round, whatever the programme asks for.
THEOREM VerdictsStand == RuleSpec => VerdictIsStable
BY RefusalsStand, EligibleStands DEF VerdictIsStable

-----------------------------------------------------------------------------
(* The composition.                                                         *)

\* The parts share no variable, so a behaviour of the whole is one of every part:
\* what is proved about a part holds for it among the others.
THEOREM PartsAreIndependent == Spec => ClientSpec /\ TrackedSpec /\ RateSpec /\ RuleSpec
<1>1. Init => ClientInit /\ TrackedInit /\ RateInit /\ RuleInit
  BY DEF Init
<1>2. [Next]_<<clientVars, trackedVars, rateVars, ruleVars, part>> =>
        /\ [ClientNext]_clientVars /\ [TrackedNext]_trackedVars
        /\ [RateNext]_rateVars /\ [RuleNext]_ruleVars
  BY DEF Next, Others, ClockStopped
<1> QED BY <1>1, <1>2, PTL DEF Spec, ClientSpec, TrackedSpec, RateSpec, RuleSpec

\* All that the client, the tracked cases and the rate slot keep has its shape.
THEOREM OnlineTypeCorrect == Spec => []TypeOK
<1>1. ClientTypeOK /\ TrackedTypeOK /\ RateTypeOK => TypeOK
  BY DEF TypeOK
<1> QED BY <1>1, PartsAreIndependent, ClientTypeCorrect, TrackedTypeCorrect,
           RateTypeCorrect, PTL

=============================================================================
