--------------------------- MODULE SessionService ---------------------------
(***************************************************************************)
(* The session API over the in-memory store: api/sessions.py on top of      *)
(* orchestration/session_store.py.  FastAPI runs the synchronous handlers   *)
(* on a thread pool and the store takes no lock, so calls on one session    *)
(* interleave between the dictionary operations of get() and save().  An    *)
(* action below is one such operation; the engine in between is the         *)
(* operator Advance of WorkflowRules, applied to the snapshot a call holds. *)
(***************************************************************************)
EXTENDS WorkflowRules

CONSTANTS
  Sessions,   \* the ids secrets.token_urlsafe may hand out, each at most once
  NoSession,  \* marks an id the store does not hold
  Calls,      \* requests in flight at the same time
  SessionTTL, \* how long a session lives, in ticks
  LastTick    \* model bound: the clock stops here

ASSUME ServiceAssumption ==
  /\ SessionTTL \in Nat \ {0}
  /\ LastTick \in Nat
  /\ NoSession \notin [state : SessionState, expires : Nat]

VARIABLES
  store,   \* [Sessions -> entry or NoSession], the _states dictionary
  issued,  \* [Sessions -> tick of creation or -1], which ids were handed out
  calls,   \* [Calls -> what the call has read and where it stands]
  now      \* the clock of the store

vars == <<store, issued, calls, now>>

Entry == [state : SessionState, expires : Nat]

\* get: _states.get(id); expiry: the clock comparison; drop: the del;
\* compute: the engine; check: the membership test of save(); write: the
\* assignment of save().
Steps == {"get", "expiry", "drop", "compute", "check", "write"}

\* The answers a call may get.  KeyError and NotFoundOnSave escape the
\* handlers and leave the server as internal errors.
Replies == {"none", "ok", "not_found", "expired", "refused",
            "KeyError", "NotFoundOnSave"}

Call == [at : Steps \cup {"idle"}, kind : {"advance", "read"}, id : Sessions,
         held : Entry \cup {NoSession}, late : BOOLEAN, reply : Replies]

Stored(i) == store[i] # NoSession

\* The consultation i is past the time it was promised to be kept for.
PastItsTime(i) == issued[i] # -1 /\ now >= issued[i] + SessionTTL

Init ==
  /\ store = [i \in Sessions |-> NoSession]
  /\ issued = [i \in Sessions |-> -1]
  /\ calls \in [Calls -> {[at |-> "idle", kind |-> "read", id |-> i,
                           held |-> NoSession, late |-> FALSE,
                           reply |-> "none"] : i \in Sessions}]
  /\ now = 0

-----------------------------------------------------------------------------
(* POST /sessions and DELETE /sessions/current: one dictionary operation.  *)

CreateSession(i) ==
  /\ issued[i] = -1
  /\ issued' = [issued EXCEPT ![i] = now]
  /\ store' = [store EXCEPT ![i] =
                 [state |-> NewSession, expires |-> now + SessionTTL]]
  /\ UNCHANGED <<calls, now>>

DeleteSession(i) ==
  /\ Stored(i)
  /\ store' = [store EXCEPT ![i] = NoSession]
  /\ UNCHANGED <<issued, calls, now>>

-----------------------------------------------------------------------------
(* POST /sessions/advance, GET /sessions/current and POST ../explain.       *)

At(c, step) == calls[c].at = step

Goto(c, step) == calls' = [calls EXCEPT ![c].at = step]

Reply(c, reply) ==
  calls' = [calls EXCEPT ![c] = [@ EXCEPT !.at = "idle", !.held = NoSession,
                                          !.reply = reply]]

\* A request arrives; reading and explaining hold the session the same way.
Begin(c, i, kind) ==
  /\ At(c, "idle")
  /\ calls' = [calls EXCEPT ![c] =
                 [at |-> "get", kind |-> kind, id |-> i, held |-> NoSession,
                  late |-> PastItsTime(i), reply |-> "none"]]
  /\ UNCHANGED <<store, issued, now>>

GetState(c) ==
  /\ At(c, "get")
  /\ IF Stored(calls[c].id)
     THEN calls' = [calls EXCEPT ![c].at = "expiry",
                                 ![c].held = store[calls[c].id]]
     ELSE Reply(c, "not_found")
  /\ UNCHANGED <<store, issued, now>>

\* Mutant of CheckExpiry: the boundary tick still counts as alive.
CheckExpiryLate(c) ==
  /\ At(c, "expiry")
  /\ IF now > calls[c].held.expires THEN Goto(c, "drop")
     ELSE IF calls[c].kind = "advance" THEN Goto(c, "compute") ELSE Reply(c, "ok")
  /\ UNCHANGED <<store, issued, now>>

CheckExpiry(c) ==
  /\ At(c, "expiry")
  /\ IF now >= calls[c].held.expires THEN Goto(c, "drop")
     ELSE IF calls[c].kind = "advance" THEN Goto(c, "compute") ELSE Reply(c, "ok")
  /\ UNCHANGED <<store, issued, now>>

\* del raises KeyError when another call was faster.
DropExpired(c) ==
  /\ At(c, "drop")
  /\ store' = [store EXCEPT ![calls[c].id] = NoSession]
  /\ Reply(c, IF Stored(calls[c].id) THEN "expired" ELSE "KeyError")
  /\ UNCHANGED <<issued, now>>

\* Mutant of Compute: an input is retried although it was already applied.
ComputeTwice(c) ==
  /\ At(c, "compute")
  /\ \E t \in UNION {Advance(u) : u \in Advance(calls[c].held.state)} :
       calls' = [calls EXCEPT ![c].at = "check", ![c].held.state = t]
  /\ UNCHANGED <<store, issued, now>>

\* The engine works on the snapshot, however old it is by now ...
Compute(c) ==
  /\ At(c, "compute")
  /\ \E t \in Advance(calls[c].held.state) :
       calls' = [calls EXCEPT ![c].at = "check", ![c].held.state = t]
  /\ UNCHANGED <<store, issued, now>>

\* ... or refuses the input (409 or 422) or raises, and nothing is saved.
Refuse(c) ==
  /\ At(c, "compute")
  /\ Reply(c, "refused")
  /\ UNCHANGED <<store, issued, now>>

CheckStored(c) ==
  /\ At(c, "check")
  /\ IF Stored(calls[c].id) THEN Goto(c, "write")
     ELSE Reply(c, "NotFoundOnSave")
  /\ UNCHANGED <<store, issued, now>>

\* Mutant of WriteBack: a save keeps the items that are stored by then.
WriteOntoCurrent(c) ==
  /\ At(c, "write")
  /\ store' = [store EXCEPT ![calls[c].id] =
       IF @ = NoSession THEN calls[c].held
       ELSE [calls[c].held EXCEPT !.state.items = store[calls[c].id].state.items]]
  /\ Reply(c, "ok")
  /\ UNCHANGED <<issued, now>>

WriteBack(c) ==
  /\ At(c, "write")
  /\ store' = [store EXCEPT ![calls[c].id] = calls[c].held]
  /\ Reply(c, "ok")
  /\ UNCHANGED <<issued, now>>

-----------------------------------------------------------------------------

\* A restart loses the dictionary and every call in flight.
Restart ==
  /\ store' = [i \in Sessions |-> NoSession]
  /\ calls' = [c \in Calls |-> [calls[c] EXCEPT !.at = "idle",
                                 !.held = NoSession, !.reply = "none"]]
  /\ UNCHANGED <<issued, now>>

Tick ==
  /\ now < LastTick
  /\ now' = now + 1
  /\ UNCHANGED <<store, issued, calls>>

Next ==
  \/ \E i \in Sessions : CreateSession(i) \/ DeleteSession(i)
  \/ \E c \in Calls, i \in Sessions, kind \in {"advance", "read"} :
       Begin(c, i, kind)
  \/ \E c \in Calls :
       GetState(c) \/ CheckExpiry(c) \/ DropExpired(c) \/ Compute(c)
         \/ Refuse(c) \/ CheckStored(c) \/ WriteBack(c)
  \/ Restart
  \/ Tick

Spec == Init /\ [][Next]_vars

\* The server works on every call it has accepted, and time passes.  Nobody is
\* obliged to send another request.
CallStep(c) ==
  GetState(c) \/ CheckExpiry(c) \/ DropExpired(c) \/ Compute(c) \/ Refuse(c)
    \/ CheckStored(c) \/ WriteBack(c)
FairSpec == Spec /\ WF_vars(Tick) /\ \A c \in Calls : WF_vars(CallStep(c))

-----------------------------------------------------------------------------
(* Properties.                                                             *)

\* The dictionary, the calls and the clock keep their shape.
TypeOK ==
  /\ store \in [Sessions -> Entry \cup {NoSession}]
  /\ issued \in [Sessions -> {-1} \cup 0..LastTick]
  /\ calls \in [Calls -> Call]
  /\ now \in 0..LastTick

\* However calls on a session interleave, what is stored - and what a call is
\* about to store - is a session the engine could have produced: nothing left
\* open at the end, no conclusion without evidence, a list that matches the
\* answers, a question while something is missing.
Sound(s) ==
  /\ RestsWhereUserCanAct(s) /\ NothingLeftOpen(s) /\ LimitLeavesNoneOpen(s)
  /\ JudgedOnEvidence(s) /\ ListIsExact(s) /\ RetryLimitIsExact(s)
  /\ OnlyGatedAnswers(s) /\ AlwaysAQuestion(s)
StoredSessionsAreSound ==
  /\ \A i \in Sessions : Stored(i) => Sound(store[i].state)
  /\ \A c \in Calls :
       calls[c].held # NoSession => Sound(calls[c].held.state)

\* A call that arrives when the promised time is over is never served, not even
\* when a slower call has just put the session back or kept it active.
ExpiredIsNeverServed ==
  \A c \in Calls : calls[c].late => calls[c].reply # "ok"

\* The failures of a lookup are those of the contract: no session, expired.
\* (require_session_state: "turns the three failures into contract errors")
LookupErrorsAreTranslated ==
  \A c \in Calls : calls[c].reply # "KeyError"

\* Requirement 5.3: a consultation that has ended is never open again.
EndedStaysEnded ==
  [][\A i \in Sessions :
       Stored(i) /\ ~Open(store[i].state) /\ store'[i] # NoSession
         => ~Open(store'[i].state)]_vars

\* delete(): the caller wants to be sure that the session is gone.
GoneStaysGone ==
  [][\A i \in Sessions :
       issued[i] # -1 /\ ~Stored(i) => store'[i] = NoSession]_vars

\* purge_expired(): a session nobody comes back for does not stay in memory.
ExpiredIsForgotten ==
  \A i \in Sessions : PastItsTime(i) ~> ~Stored(i)

=============================================================================
