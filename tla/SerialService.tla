--------------------------- MODULE SerialService ---------------------------
(***************************************************************************)
(* The session API as one caller uses it: with no second call in flight,   *)
(* every consultation it keeps is a behaviour of Workflow, whatever is     *)
(* deleted, expires or is lost in a restart in between.                    *)
(***************************************************************************)
EXTENDS SessionService

CONSTANT Watched   \* the session whose consultation is followed

ASSUME WatchedAssumption == Watched \in Sessions

VARIABLE last      \* history: the last state it was stored in

serialVars == <<store, issued, calls, now, last>>

SerialInit == Init /\ last = NewSession

SerialNext ==
  /\ Next
  /\ last' = IF store'[Watched] = NoSession THEN last
             ELSE store'[Watched].state

SerialSpec == SerialInit /\ [][SerialNext]_serialVars

Consultation == INSTANCE Workflow WITH session <- last

\* With one call at a time the service implements the workflow: what a session
\* goes through in the store is a behaviour of state_machine.advance.
StoreImplementsWorkflow == Consultation!Spec

=============================================================================
