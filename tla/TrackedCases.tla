---------------------------- MODULE TrackedCases -----------------------------
(***************************************************************************)
(* The list of benefits a person tracks (trackingStore.ts) and the two pages   *)
(* that work on it, ResultList and TrackedCasesPage.  Tracked items live in    *)
(* localStorage, which all tabs share; what the last results left to track     *)
(* lives in sessionStorage, one per tab; what a page shows is a copy of both,   *)
(* made when it was drawn.  An operation of the store runs to its end.  Which  *)
(* tabs the person has open is chosen once.                                   *)
(***************************************************************************)
EXTENDS Integers

CONSTANTS
  Tabs,       \* tabs a browser may have open
  Items,
  LifeEvents, \* life events an item may be listed under
  FlowSteps   \* steps of the flow of an item

ASSUME TrackingAssumption == FlowSteps \in Nat

VARIABLES
  tracked,  \* [Items -> completedStepCount, or -1]: localStorage
  pending,  \* [Tabs -> SUBSET Items]: sessionStorage
  screen,   \* [Tabs -> what the tab shows]
  open      \* the tabs in use

trackedVars == <<tracked, pending, screen, open>>

Progress == -1..FlowSteps
Rows == [item : Items, event : LifeEvents]
Screen == [page : {"other", "results", "tracking"}, offers : SUBSET Rows,
           list : SUBSET Items, shown : [Items -> Progress]]
Untracked == [i \in Items |-> -1]
Elsewhere ==
  [page |-> "other", offers |-> {}, list |-> {}, shown |-> Untracked]

IsTracked(i) == tracked[i] # -1

TrackedInit ==
  /\ tracked = Untracked
  /\ pending = [t \in Tabs |-> {}]
  /\ screen = [t \in Tabs |-> Elsewhere]
  /\ open \in SUBSET Tabs \ {{}}

-----------------------------------------------------------------------------
(* ResultList: an item has a row under each of its life events, and each row    *)
(* keeps for itself whether it is tracked; `offers` are the rows with a button  *)
(* to add their item.                                                         *)

\* Mutant of OffersOnMount: every row starts as one that can be added.
OffersAll(rows) == rows

OffersOnMount(rows) == {r \in rows : ~IsTracked(r.item)}

\* The rows look at the store once, when they are mounted, and what is not yet
\* tracked becomes the pending list of the tab.
OpenResults(t) ==
  \E rows \in SUBSET Rows \ {{}} :
    /\ screen' = [screen EXCEPT ![t] =
         [Elsewhere EXCEPT !.page = "results", !.offers = OffersOnMount(rows)]]
    /\ pending' = [pending EXCEPT ![t] =
         {i \in Items : ~IsTracked(i) /\ \E r \in rows : r.item = i}]
    /\ UNCHANGED tracked

\* Mutant of LeftToTrack: an item that was added stays on the pending list.
LeftUnchanged(t, i) == pending[t]

LeftToTrack(t, i) == pending[t] \ {i}

\* addTrackedBenefitItem: a new entry takes the place of an old one.
AddTracked(t, i) ==
  /\ tracked' = [tracked EXCEPT ![i] = 0]
  /\ pending' = [pending EXCEPT ![t] = LeftToTrack(t, i)]

\* Only the row itself learns of it: another row of the item offers it still.
AddFromResults(t, r) ==
  /\ screen[t].page = "results" /\ r \in screen[t].offers
  /\ AddTracked(t, r.item)
  /\ screen' = [screen EXCEPT ![t].offers = @ \ {r}]

-----------------------------------------------------------------------------
(* TrackedCasesPage: `shown` is the progress, `list` the pending items.         *)

\* refreshLocalTracking, after every operation.
Redrawn(t) ==
  [Elsewhere EXCEPT !.page = "tracking", !.shown = tracked', !.list = pending'[t]]

Redraw(t) == screen' = [screen EXCEPT ![t] = Redrawn(t)]

OpenTracking(t) ==
  /\ UNCHANGED <<tracked, pending>>
  /\ Redraw(t)

OnPage(t) == screen[t].page = "tracking"

AddFromPending(t, i) ==
  /\ OnPage(t) /\ i \in screen[t].list
  /\ AddTracked(t, i)
  /\ Redraw(t)

\* Mutant of Advanced: the page is trusted to offer no step beyond the last.
AdvancedUnbounded(n) == IF n = -1 THEN n ELSE n + 1

Advanced(n) == IF n \in 0..FlowSteps - 1 THEN n + 1 ELSE n

\* advanceTrackedBenefitStep: whatever step the store is at now is completed; an
\* item that is gone or done is left alone.
AdvanceStep(t, i) ==
  /\ OnPage(t) /\ screen[t].shown[i] \in 0..FlowSteps - 1
  /\ tracked' = [tracked EXCEPT ![i] = Advanced(@)]
  /\ UNCHANGED pending
  /\ Redraw(t)

Remove(t, i) ==
  /\ OnPage(t) /\ screen[t].shown[i] # -1
  /\ tracked' = [tracked EXCEPT ![i] = -1]
  /\ UNCHANGED pending
  /\ Redraw(t)

ClearAll(t) ==
  /\ OnPage(t) /\ screen[t].shown # Untracked
  /\ tracked' = Untracked
  /\ UNCHANGED pending
  /\ Redraw(t)

LeavePage(t) ==
  /\ screen[t].page # "other"
  /\ screen' = [screen EXCEPT ![t] = Elsewhere]
  /\ UNCHANGED <<tracked, pending>>

TrackedNext ==
  /\ \E t \in open :
       \/ OpenResults(t) \/ OpenTracking(t) \/ ClearAll(t) \/ LeavePage(t)
       \/ \E r \in Rows : AddFromResults(t, r)
       \/ \E i \in Items : AddFromPending(t, i) \/ AdvanceStep(t, i) \/ Remove(t, i)
  /\ UNCHANGED open

TrackedSpec == TrackedInit /\ [][TrackedNext]_trackedVars

-----------------------------------------------------------------------------
(* Properties.                                                             *)

\* The storages and the pages keep their shape; above all, no number of tabs
\* takes an item past the last step of its flow.
TrackedTypeOK ==
  /\ tracked \in [Items -> Progress]
  /\ pending \in [Tabs -> SUBSET Items]
  /\ screen \in [Tabs -> Screen]
  /\ open \subseteq Tabs

OneTab == \E t \in Tabs : open = {t}

\* In one tab no sequence of adding, removing and going back and forth takes
\* completed steps away from an item that stays tracked, although adding
\* replaces the entry and a second row may offer an item that was just added:
\* no row outlives a visit to the page where steps are completed.
ProgressKept ==
  [][OneTab => \A i \in Items : IsTracked(i) /\ tracked'[i] # -1
                 => tracked'[i] >= tracked[i]]_trackedVars

\* In one tab the page is never out of date: the step a button names is the
\* step it completes, and the pending section shows "items of this consultation
\* that are not yet tracked" (pages/TrackedCasesPage.tsx:560).
PageIsCurrent ==
  OneTab => \A t \in open : OnPage(t) =>
              /\ screen[t].shown = tracked
              /\ \A i \in screen[t].list : ~IsTracked(i)
=============================================================================
