---------------------------- MODULE ServiceProofs ---------------------------
(***************************************************************************)
(* Theorems about SessionService: for any number of sessions and of calls   *)
(* in flight, and for every catalogue.                                      *)
(* Theorems about SerialService: with one call at a time, what a session     *)
(* goes through in the store is a behaviour of Workflow.                     *)
(***************************************************************************)
EXTENDS SerialService, RulesProofs

-----------------------------------------------------------------------------
(* How a call moves.                                                       *)

\* A call moves: it stands somewhere else, holds something else, has replied.
Moves(c, at, held, reply) ==
  /\ calls' \in [Calls -> Call]
  /\ \A d \in Calls \ {c} : calls'[d] = calls[d]
  /\ calls'[c].at = at /\ calls'[c].held = held /\ calls'[c].reply = reply
  /\ calls'[c].kind = calls[c].kind /\ calls'[c].id = calls[c].id
  /\ calls'[c].late = calls[c].late

\* A call whose record has been edited has moved.
LEMMA EditedCallMoves ==
  ASSUME calls \in [Calls -> Call], NEW c \in Calls, NEW r \in Call,
         r.kind = calls[c].kind, r.id = calls[c].id, r.late = calls[c].late,
         calls' = [calls EXCEPT ![c] = r]
  PROVE  Moves(c, r.at, r.held, r.reply)
BY DEF Moves

\* Going on to the next dictionary operation (session_store.py).
LEMMA GotoMoves ==
  ASSUME calls \in [Calls -> Call], NEW c \in Calls, NEW step \in Steps,
         Goto(c, step)
  PROVE  Moves(c, step, calls[c].held, calls[c].reply)
<1> DEFINE r == [calls[c] EXCEPT !.at = step]
<1>1. /\ r \in Call /\ r.at = step /\ r.held = calls[c].held
      /\ r.reply = calls[c].reply /\ r.kind = calls[c].kind
      /\ r.id = calls[c].id /\ r.late = calls[c].late
  BY DEF Call
<1>2. calls' = [calls EXCEPT ![c] = r]
  BY Zenon DEF Goto
<1> HIDE DEF r
<1> QED BY <1>1, <1>2, EditedCallMoves

\* Replying (sessions.py).
LEMMA ReplyMoves ==
  ASSUME calls \in [Calls -> Call], NEW c \in Calls, NEW reply \in Replies,
         Reply(c, reply)
  PROVE  Moves(c, "idle", NoSession, reply)
<1> DEFINE r == [calls[c] EXCEPT !.at = "idle", !.held = NoSession, !.reply = reply]
<1>1. /\ r \in Call /\ r.at = "idle" /\ r.held = NoSession /\ r.reply = reply
      /\ r.kind = calls[c].kind /\ r.id = calls[c].id /\ r.late = calls[c].late
  BY DEF Call
<1>2. calls' = [calls EXCEPT ![c] = r]
  BY Zenon DEF Reply
<1> HIDE DEF r
<1> QED BY <1>1, <1>2, EditedCallMoves

\* Reading the entry (get).
LEMMA GetMoves ==
  ASSUME calls \in [Calls -> Call], store \in [Sessions -> Entry \cup {NoSession}],
         NEW c \in Calls, GetState(c)
  PROVE  \/ Stored(calls[c].id) /\ Moves(c, "expiry", store[calls[c].id], calls[c].reply)
         \/ Moves(c, "idle", NoSession, "not_found")
<1>1. CASE Stored(calls[c].id)
  <2> DEFINE e == store[calls[c].id]
             r == [calls[c] EXCEPT !.at = "expiry", !.held = e]
  <2>0. e \in Entry \cup {NoSession}
    BY DEF Call
  <2>1. calls' = [calls EXCEPT ![c].at = "expiry", ![c].held = e]
    BY <1>1 DEF GetState
  <2> HIDE DEF e
  <2>2. /\ r \in Call /\ r.at = "expiry" /\ r.held = e
        /\ r.reply = calls[c].reply /\ r.kind = calls[c].kind
        /\ r.id = calls[c].id /\ r.late = calls[c].late
    BY <2>0 DEF Call, Steps
  <2>3. calls' = [calls EXCEPT ![c] = r]
    BY <2>1, Zenon
  <2> HIDE DEF r
  <2>4. Moves(c, "expiry", e, calls[c].reply)
    BY <2>2, <2>3, EditedCallMoves
  <2> QED BY <1>1, <2>4 DEF e
<1>2. CASE ~Stored(calls[c].id)
  BY <1>2, ReplyMoves DEF GetState, Replies
<1> QED BY <1>1, <1>2

\* Applying the engine to what the call holds (advance).
LEMMA ComputeMoves ==
  ASSUME calls \in [Calls -> Call], NEW c \in Calls, Compute(c),
         calls[c].held \in Entry
  PROVE  \E t \in Advance(calls[c].held.state), e \in Entry :
           /\ e.state = t /\ e.expires = calls[c].held.expires
           /\ Moves(c, "check", e, calls[c].reply)
<1>1. PICK t \in Advance(calls[c].held.state) :
        calls' = [calls EXCEPT ![c].at = "check", ![c].held.state = t]
  BY DEF Compute
<1> DEFINE e == [calls[c].held EXCEPT !.state = t]
           r == [calls[c] EXCEPT !.at = "check", !.held = e]
<1>2. t \in SessionState
  BY AdvanceType DEF Entry
<1>3. e \in Entry /\ e.state = t /\ e.expires = calls[c].held.expires
  BY <1>2 DEF Entry
<1>4. calls' = [calls EXCEPT ![c] = r]
  BY <1>1, Zenon
<1> HIDE DEF e
<1>5. /\ r \in Call /\ r.at = "check" /\ r.held = e
      /\ r.reply = calls[c].reply /\ r.kind = calls[c].kind
      /\ r.id = calls[c].id /\ r.late = calls[c].late
  BY <1>3 DEF Call, Steps
<1> HIDE DEF r
<1>6. Moves(c, "check", e, calls[c].reply)
  BY <1>4, <1>5, EditedCallMoves
<1> QED BY <1>3, <1>6

-----------------------------------------------------------------------------
(* The inductive invariant.                                                *)

\* An entry of a session issued at tick t: the record is one the engine
\* produces, and the entry expires when the session was promised to.
Good(e, t) ==
  \/ e = NoSession
  \/ SessionInv(e.state) /\ t # -1 /\ e.expires = t + SessionTTL

\* Holding nothing is good.
LEMMA NothingIsGood ==
  ASSUME NEW t
  PROVE  Good(NoSession, t)
BY DEF Good

\* A call past the lookup holds a good entry; a call that came too late is not
\* on its way to a success.
CallInv(c) ==
  /\ calls[c].at \notin {"idle", "get"} => calls[c].held # NoSession
  /\ Good(calls[c].held, issued[calls[c].id])
  /\ calls[c].late => /\ PastItsTime(calls[c].id)
                      /\ calls[c].reply # "ok"
                      /\ calls[c].at \notin {"compute", "check", "write"}

ServiceInv ==
  /\ TypeOK
  /\ \A i \in Sessions : Good(store[i], issued[i])
  /\ \A c \in Calls : CallInv(c)

\* A call that moves keeps the invariant of all calls if it keeps its own.
LEMMA MovesKeeps ==
  ASSUME ServiceInv, NEW c \in Calls, NEW at, NEW held, NEW reply,
         Moves(c, at, held, reply), UNCHANGED <<issued, now>>,
         at \notin {"idle", "get"} => held # NoSession,
         Good(held, issued[calls[c].id]),
         calls[c].late => reply # "ok" /\ at \notin {"compute", "check", "write"}
  PROVE  (\A d \in Calls : CallInv(d))'
<1> SUFFICES ASSUME NEW d \in Calls PROVE CallInv(d)'
  OBVIOUS
<1>1. CASE d # c
  <2>1. calls'[d] = calls[d]
    BY <1>1 DEF Moves
  <2> QED BY <2>1 DEF ServiceInv, CallInv, PastItsTime
<1>2. CASE d = c
  BY <1>2 DEF ServiceInv, CallInv, PastItsTime, Moves
<1> QED BY <1>1, <1>2

\* A call that replies does.
LEMMA ReplyKeeps ==
  ASSUME ServiceInv, NEW c \in Calls, NEW reply,
         Moves(c, "idle", NoSession, reply), UNCHANGED <<issued, now>>,
         calls[c].late => reply # "ok"
  PROVE  calls' \in [Calls -> Call] /\ (\A d \in Calls : CallInv(d))'
<1>1. calls' \in [Calls -> Call]
  BY DEF Moves
<1>2. (\A d \in Calls : CallInv(d))'
  BY MovesKeeps, NothingIsGood
<1> QED BY <1>1, <1>2

\* The actions that leave the store alone.
LEMMA ReadingKeeps ==
  ASSUME ServiceInv, NEW c \in Calls,
         GetState(c) \/ CheckExpiry(c) \/ Compute(c) \/ Refuse(c) \/ CheckStored(c)
  PROVE  ServiceInv'
<1>0. /\ calls \in [Calls -> Call] /\ store \in [Sessions -> Entry \cup {NoSession}]
      /\ calls[c] \in Call /\ calls[c].id \in Sessions
      /\ calls[c].held \in Entry \cup {NoSession} /\ CallInv(c)
      /\ calls[c].reply \in Replies
  BY DEF ServiceInv, TypeOK, Call
<1>1. UNCHANGED <<store, issued, now>>
  BY DEF GetState, CheckExpiry, Compute, Refuse, CheckStored
<1>2. SUFFICES calls' \in [Calls -> Call] /\ (\A d \in Calls : CallInv(d))'
  BY <1>1 DEF ServiceInv, TypeOK
<1>3. CASE GetState(c)
  <2>1. CASE /\ Stored(calls[c].id)
             /\ Moves(c, "expiry", store[calls[c].id], calls[c].reply)
    <3>1. Good(store[calls[c].id], issued[calls[c].id])
      BY <1>0 DEF ServiceInv
    <3>2. calls[c].late => calls[c].reply # "ok"
      BY <1>0 DEF CallInv
    <3> QED BY <1>1, <2>1, <3>1, <3>2, MovesKeeps DEF Stored, Moves
  <2>2. CASE Moves(c, "idle", NoSession, "not_found")
    BY <1>1, <2>2, ReplyKeeps
  <2> QED BY <1>0, <1>3, <2>1, <2>2, GetMoves
<1>4. CASE CheckExpiry(c)
  <2>0. calls[c].at = "expiry" /\ calls[c].held # NoSession /\ calls[c].held \in Entry
    BY <1>0, <1>4 DEF CheckExpiry, At, CallInv
  <2>1. CASE Goto(c, "drop")
    <3>1. Moves(c, "drop", calls[c].held, calls[c].reply)
      BY <1>0, <2>1, GotoMoves DEF Steps
    <3> QED BY <1>0, <1>1, <2>0, <3>1, MovesKeeps DEF CallInv, Moves
  <2>2. CASE ~(now >= calls[c].held.expires)
    <3>1. ~calls[c].late
      <4>1. calls[c].held.expires = issued[calls[c].id] + SessionTTL
        BY <1>0, <2>0 DEF CallInv, Good
      <4> QED BY <1>0, <2>2, <4>1 DEF CallInv, PastItsTime
    <3>2. CASE Goto(c, "compute")
      <4>1. Moves(c, "compute", calls[c].held, calls[c].reply)
        BY <1>0, <3>2, GotoMoves DEF Steps
      <4> QED BY <1>0, <1>1, <2>0, <3>1, <4>1, MovesKeeps DEF CallInv, Moves
    <3>3. CASE Reply(c, "ok")
      <4>1. Moves(c, "idle", NoSession, "ok")
        BY <1>0, <3>3, ReplyMoves DEF Replies
      <4> QED BY <1>1, <3>1, <4>1, ReplyKeeps
    <3> QED BY <1>4, <2>2, <3>2, <3>3 DEF CheckExpiry
  <2> QED BY <1>4, <2>1, <2>2 DEF CheckExpiry
<1>5. CASE Compute(c)
  <2>0. calls[c].at = "compute" /\ calls[c].held \in Entry /\ ~calls[c].late
        /\ Good(calls[c].held, issued[calls[c].id]) /\ calls[c].held # NoSession
    BY <1>0, <1>5 DEF Compute, At, CallInv
  <2>1. PICK t \in Advance(calls[c].held.state), e \in Entry :
          /\ e.state = t /\ e.expires = calls[c].held.expires
          /\ Moves(c, "check", e, calls[c].reply)
    BY <1>0, <1>5, <2>0, ComputeMoves
  <2>2. SessionInv(e.state)
    BY <2>0, <2>1, StepHolds DEF Good
  <2>3. Good(e, issued[calls[c].id]) /\ e # NoSession
    BY <2>0, <2>1, <2>2, ServiceAssumption DEF Good, Entry
  <2> QED BY <1>1, <2>0, <2>1, <2>3, MovesKeeps DEF Moves
<1>6. CASE Refuse(c)
  <2>1. Moves(c, "idle", NoSession, "refused")
    BY <1>0, <1>6, ReplyMoves DEF Refuse, Replies
  <2> QED BY <1>1, <2>1, ReplyKeeps
<1>7. CASE CheckStored(c)
  <2>0. calls[c].at = "check" /\ calls[c].held # NoSession /\ ~calls[c].late
        /\ Good(calls[c].held, issued[calls[c].id])
    BY <1>0, <1>7 DEF CheckStored, At, CallInv
  <2>1. CASE Goto(c, "write")
    <3>1. Moves(c, "write", calls[c].held, calls[c].reply)
      BY <1>0, <2>1, GotoMoves DEF Steps
    <3> QED BY <1>1, <2>0, <3>1, MovesKeeps DEF Moves
  <2>2. CASE Reply(c, "NotFoundOnSave")
    <3>1. Moves(c, "idle", NoSession, "NotFoundOnSave")
      BY <1>0, <2>2, ReplyMoves DEF Replies
    <3> QED BY <1>1, <3>1, ReplyKeeps
  <2> QED BY <1>7, <2>1, <2>2 DEF CheckStored
<1> QED BY <1>3, <1>4, <1>5, <1>6, <1>7

\* The actions of a call that change the store (get of an expired session, save).
LEMMA WritingKeeps ==
  ASSUME ServiceInv, NEW c \in Calls, DropExpired(c) \/ WriteBack(c)
  PROVE  ServiceInv'
<1>0. /\ calls \in [Calls -> Call] /\ store \in [Sessions -> Entry \cup {NoSession}]
      /\ calls[c] \in Call /\ calls[c].id \in Sessions
      /\ calls[c].held \in Entry \cup {NoSession} /\ CallInv(c)
  BY DEF ServiceInv, TypeOK, Call
<1>1. UNCHANGED <<issued, now>>
  BY DEF DropExpired, WriteBack
<1>2. CASE DropExpired(c)
  <2>1. PICK reply \in {"expired", "KeyError"} : Reply(c, reply)
    BY <1>2 DEF DropExpired
  <2>2. Moves(c, "idle", NoSession, reply)
    BY <1>0, <2>1, ReplyMoves DEF Replies
  <2>3. calls' \in [Calls -> Call] /\ (\A d \in Calls : CallInv(d))'
    BY <1>1, <2>2, ReplyKeeps
  <2>4. store' = [store EXCEPT ![calls[c].id] = NoSession]
    BY <1>2 DEF DropExpired
  <2>5. /\ store' \in [Sessions -> Entry \cup {NoSession}]
        /\ \A i \in Sessions : store'[i] \in {store[i], NoSession}
    BY <1>0, <2>4
  <2> QED BY <1>1, <2>3, <2>5, NothingIsGood DEF ServiceInv, TypeOK
<1>3. CASE WriteBack(c)
  <2>0. calls[c].at = "write" /\ calls[c].held # NoSession /\ ~calls[c].late
        /\ Good(calls[c].held, issued[calls[c].id])
    BY <1>0, <1>3 DEF WriteBack, At, CallInv
  <2>2. Moves(c, "idle", NoSession, "ok")
    BY <1>0, <1>3, ReplyMoves DEF WriteBack, Replies
  <2>3. calls' \in [Calls -> Call] /\ (\A d \in Calls : CallInv(d))'
    BY <1>1, <2>0, <2>2, ReplyKeeps
  <2>4. store' = [store EXCEPT ![calls[c].id] = calls[c].held]
    BY <1>3 DEF WriteBack
  <2>5. /\ store' \in [Sessions -> Entry \cup {NoSession}]
        /\ \A i \in Sessions : store'[i] = IF i = calls[c].id THEN calls[c].held
                                           ELSE store[i]
    BY <1>0, <2>4
  <2> QED BY <1>1, <2>0, <2>3, <2>5 DEF ServiceInv, TypeOK
<1> QED BY <1>2, <1>3

\* Creating, deleting, a new call, a restart and the clock.
LEMMA OtherKeeps ==
  ASSUME ServiceInv,
         \/ \E i \in Sessions : CreateSession(i) \/ DeleteSession(i)
         \/ \E c \in Calls, i \in Sessions, kind \in {"advance", "read"} :
              Begin(c, i, kind)
         \/ Restart
         \/ Tick
  PROVE  ServiceInv'
<1>0. /\ calls \in [Calls -> Call] /\ store \in [Sessions -> Entry \cup {NoSession}]
      /\ issued \in [Sessions -> {-1} \cup 0..LastTick] /\ now \in 0..LastTick
  BY DEF ServiceInv, TypeOK
<1>1. ASSUME NEW i \in Sessions, CreateSession(i) PROVE ServiceInv'
  <2>1. /\ issued[i] = -1 /\ UNCHANGED <<calls, now>>
        /\ issued' = [issued EXCEPT ![i] = now]
        /\ store' = [store EXCEPT ![i] =
                       [state |-> NewSession, expires |-> now + SessionTTL]]
    BY <1>1 DEF CreateSession
  <2> DEFINE e == [state |-> NewSession, expires |-> now + SessionTTL]
  <2>2. e \in Entry /\ Good(e, now)
    BY <1>0, NewSessionType, NewSessionHolds, ServiceAssumption DEF Entry, Good
  <2> HIDE DEF e
  <2>3. /\ store' \in [Sessions -> Entry \cup {NoSession}]
        /\ issued' \in [Sessions -> {-1} \cup 0..LastTick]
        /\ store'[i] = e /\ issued'[i] = now
        /\ \A j \in Sessions \ {i} : store'[j] = store[j] /\ issued'[j] = issued[j]
    BY <1>0, <2>1, <2>2 DEF e
  <2>4. \A j \in Sessions : Good(store'[j], issued'[j])
    BY <2>2, <2>3 DEF ServiceInv
  <2>5. ASSUME NEW c \in Calls PROVE CallInv(c)'
    <3>1. calls[c].id \in Sessions /\ calls'[c] = calls[c] /\ CallInv(c)
      BY <1>0, <2>1 DEF ServiceInv, Call
    <3>2. CASE calls[c].id = i
      <4>1. calls[c].held = NoSession /\ ~calls[c].late
        BY <2>1, <3>1, <3>2 DEF CallInv, Good, PastItsTime
      <4> QED BY <3>1, <4>1, NothingIsGood DEF CallInv
    <3>3. CASE calls[c].id # i
      BY <2>1, <2>3, <3>1, <3>3 DEF CallInv, PastItsTime
    <3> QED BY <3>2, <3>3
  <2> QED BY <1>0, <2>1, <2>3, <2>4, <2>5 DEF ServiceInv, TypeOK
<1>2. ASSUME NEW i \in Sessions, DeleteSession(i) PROVE ServiceInv'
  <2>1. UNCHANGED <<issued, calls, now>> /\ store' = [store EXCEPT ![i] = NoSession]
    BY <1>2 DEF DeleteSession
  <2>2. /\ store' \in [Sessions -> Entry \cup {NoSession}]
        /\ \A j \in Sessions : store'[j] \in {store[j], NoSession}
    BY <1>0, <2>1
  <2>3. \A j \in Sessions : Good(store'[j], issued'[j])
    BY <2>1, <2>2, NothingIsGood DEF ServiceInv
  <2>4. (\A c \in Calls : CallInv(c))'
    BY <2>1 DEF ServiceInv, CallInv, PastItsTime
  <2> QED BY <1>0, <2>1, <2>2, <2>3, <2>4 DEF ServiceInv, TypeOK
<1>3. ASSUME NEW c \in Calls, NEW i \in Sessions, NEW kind \in {"advance", "read"},
             Begin(c, i, kind)
      PROVE  ServiceInv'
  <2> DEFINE r == [at |-> "get", kind |-> kind, id |-> i, held |-> NoSession,
                   late |-> PastItsTime(i), reply |-> "none"]
  <2>1. UNCHANGED <<store, issued, now>> /\ calls' = [calls EXCEPT ![c] = r]
    BY <1>3 DEF Begin
  <2>2. PastItsTime(i) \in BOOLEAN
    BY Zenon DEF PastItsTime
  <2>3. /\ r \in Call /\ r.at = "get" /\ r.id = i /\ r.held = NoSession
        /\ r.reply = "none"
    BY <2>2 DEF Call, Steps, Replies
  <2>4. r.late = PastItsTime(i)
    BY Zenon
  <2> HIDE DEF r
  <2>5. calls' \in [Calls -> Call]
    BY <1>0, <2>1, <2>3
  <2>6. ASSUME NEW d \in Calls PROVE CallInv(d)'
    <3>1. CASE d = c
      <4>1. calls'[d] = r
        BY <1>0, <2>1, <3>1
      <4>2. calls'[d].late => PastItsTime(i)
        BY <2>4, <4>1
      <4> QED BY <2>1, <2>3, <4>1, <4>2, NothingIsGood DEF CallInv, PastItsTime
    <3>2. CASE d # c
      <4>1. calls'[d] = calls[d]
        BY <1>0, <2>1, <3>2
      <4> QED BY <2>1, <4>1 DEF ServiceInv, CallInv, PastItsTime
    <3> QED BY <3>1, <3>2
  <2> QED BY <2>1, <2>5, <2>6 DEF ServiceInv, TypeOK
<1>4. CASE Restart
  <2> DEFINE r(c) == [calls[c] EXCEPT !.at = "idle", !.held = NoSession,
                                      !.reply = "none"]
  <2>1. /\ UNCHANGED <<issued, now>> /\ store' = [i \in Sessions |-> NoSession]
        /\ calls' = [c \in Calls |-> r(c)]
    BY <1>4 DEF Restart
  <2>2. ASSUME NEW c \in Calls
        PROVE  /\ r(c) \in Call /\ r(c).at = "idle" /\ r(c).held = NoSession
               /\ r(c).reply = "none" /\ r(c).id = calls[c].id
               /\ r(c).late = calls[c].late
    <3>1. calls[c] \in Call
      BY <1>0
    <3> QED BY <3>1 DEF Call, Replies
  <2> HIDE DEF r
  <2>3. calls' \in [Calls -> Call] /\ \A c \in Calls : calls'[c] = r(c)
    BY <2>1, <2>2
  <2>4. store' \in [Sessions -> Entry \cup {NoSession}]
        /\ \A i \in Sessions : Good(store'[i], issued'[i])
    BY <2>1, NothingIsGood
  <2>5. ASSUME NEW c \in Calls PROVE CallInv(c)'
    BY <2>1, <2>2, <2>3, NothingIsGood DEF ServiceInv, CallInv, PastItsTime
  <2> QED BY <2>1, <2>3, <2>4, <2>5 DEF ServiceInv, TypeOK
<1>5. CASE Tick
  <2>1. now < LastTick /\ now' = now + 1 /\ UNCHANGED <<store, issued, calls>>
    BY <1>5 DEF Tick
  <2>2. now' \in 0..LastTick
    BY <1>0, <2>1, ServiceAssumption
  <2>3. ASSUME NEW c \in Calls PROVE CallInv(c)'
    <3>1. calls[c].id \in Sessions
      BY <1>0 DEF Call
    <3>2. PastItsTime(calls[c].id) => PastItsTime(calls[c].id)'
      BY <1>0, <2>1, <3>1, ServiceAssumption DEF PastItsTime
    <3> QED BY <2>1, <3>2 DEF ServiceInv, CallInv
  <2> QED BY <2>1, <2>2, <2>3 DEF ServiceInv, TypeOK
<1> QED BY <1>1, <1>2, <1>3, <1>4, <1>5

\* The invariant holds when the server starts.
LEMMA ServiceInit ==
  ASSUME Init
  PROVE  ServiceInv
<1>1. ASSUME NEW c \in Calls
      PROVE  /\ calls[c] \in Call /\ calls[c].at = "idle"
             /\ calls[c].held = NoSession /\ calls[c].late = FALSE
  <2>1. PICK i \in Sessions :
          calls[c] = [at |-> "idle", kind |-> "read", id |-> i,
                      held |-> NoSession, late |-> FALSE, reply |-> "none"]
    BY DEF Init
  <2> QED BY <2>1 DEF Call, Replies
<1>2. calls \in [Calls -> Call]
  <2>1. calls = [c \in Calls |-> calls[c]]
    BY DEF Init
  <2> QED BY <1>1, <2>1
<1>3. \A i \in Sessions : Good(store[i], issued[i])
  BY NothingIsGood DEF Init
<1>4. \A c \in Calls : CallInv(c)
  BY <1>1, NothingIsGood DEF CallInv
<1> QED BY <1>2, <1>3, <1>4, ServiceAssumption DEF Init, ServiceInv, TypeOK

\* Every step keeps it.
LEMMA ServiceStep ==
  ASSUME ServiceInv, [Next]_vars
  PROVE  ServiceInv'
<1>1. CASE Next
  BY <1>1, ReadingKeeps, WritingKeeps, OtherKeeps DEF Next
<1>2. CASE UNCHANGED vars
  BY <1>2 DEF vars, ServiceInv, TypeOK, CallInv, PastItsTime
<1> QED BY <1>1, <1>2

\* The invariant holds in every reachable state of SessionService.
LEMMA ServiceInvariant == Spec => []ServiceInv
BY ServiceInit, ServiceStep, PTL DEF Spec

-----------------------------------------------------------------------------
(* The theorems.                                                           *)

\* The dictionary, the calls and the clock keep their shape
\* (InMemorySessionStore and the handlers of api/sessions.py).
THEOREM ServiceTypeCorrect == Spec => []TypeOK
<1>1. ServiceInv => TypeOK
  BY DEF ServiceInv
<1> QED BY <1>1, ServiceInvariant, PTL

\* However the calls interleave, whatever is stored or about to be stored is a
\* session the engine produces (get and save of session_store.py around
\* advance): races lose updates, they never mix two of them.
THEOREM ConcurrentSessionsAreSound == Spec => []StoredSessionsAreSound
<1>1. ASSUME NEW s, SessionInv(s) PROVE Sound(s)
  BY <1>1 DEF SessionInv, Grounded, AtRest, ListInv, Sound
<1>2. ServiceInv => StoredSessionsAreSound
  BY <1>1 DEF ServiceInv, StoredSessionsAreSound, Good, CallInv, Stored
<1> QED BY <1>2, ServiceInvariant, PTL

\* A call that comes when the promised time is over is never served, although
\* saving a session does not renew its expiry (get, save, _now).
THEOREM ExpiryIsKept == Spec => []ExpiredIsNeverServed
<1>1. ServiceInv => ExpiredIsNeverServed
  BY DEF ServiceInv, CallInv, ExpiredIsNeverServed
<1> QED BY <1>1, ServiceInvariant, PTL

-----------------------------------------------------------------------------
(* One call at a time.                                                     *)

\* What a call on the watched session holds is the consultation as it was last
\* stored, or, once the engine has run, a step of it.
Following(c) ==
  calls[c].id = Watched /\ calls[c].held # NoSession =>
    IF calls[c].at \in {"check", "write"}
    THEN calls[c].held.state \in Advance(last)
    ELSE calls[c].held.state = last

SerialInv ==
  /\ ServiceInv
  /\ Stored(Watched) => store[Watched].state = last
  /\ issued[Watched] = -1 => last = NewSession
  /\ \A c \in Calls : Following(c)

\* Nothing new in the store, nothing new in the history (get, delete).
LEMMA LastStays ==
  ASSUME SerialInv, SerialNext, store'[Watched] \in {store[Watched], NoSession}
  PROVE  last' = last
BY DEF SerialInv, SerialNext, Stored

\* A call that moves follows the consultation if what it now holds does.
LEMMA MovesFollow ==
  ASSUME \A c, d \in Calls : c = d, NEW c \in Calls, NEW at, NEW held, NEW reply,
         Moves(c, at, held, reply),
         calls[c].id = Watched /\ held # NoSession =>
           IF at \in {"check", "write"} THEN held.state \in Advance(last')
           ELSE held.state = last'
  PROVE  (\A d \in Calls : Following(d))'
<1>1. calls'[c].at = at /\ calls'[c].held = held /\ calls'[c].id = calls[c].id
  BY DEF Moves
<1>2. Following(c)'
  BY <1>1 DEF Following
<1> QED BY <1>2

\* The actions of a call keep the invariant; a save is a step of the engine.
LEMMA CallFollows ==
  ASSUME SerialInv, SerialNext, \A c, d \in Calls : c = d, NEW c \in Calls,
         CallStep(c)
  PROVE  /\ last' \in Advance(last) \cup {last}
         /\ (\A d \in Calls : Following(d))'
         /\ (Stored(Watched) => store[Watched].state = last)'
         /\ (issued[Watched] = -1 => last = NewSession)'
<1>0. /\ ServiceInv /\ Following(c) /\ CallInv(c) /\ calls[c].id \in Sessions
      /\ calls \in [Calls -> Call] /\ store \in [Sessions -> Entry \cup {NoSession}]
      /\ Watched \in Sessions /\ calls[c].reply \in Replies
  BY WatchedAssumption DEF SerialInv, ServiceInv, TypeOK, Call
<1>1. CASE store' = store
  <2>1. last' = last
    BY <1>1, LastStays
  <2> DEFINE Right(at, held) ==
        calls[c].id = Watched /\ held # NoSession =>
          IF at \in {"check", "write"} THEN held.state \in Advance(last)
          ELSE held.state = last
  <2>2. /\ Right("idle", NoSession)
        /\ calls[c].at \notin {"check", "write"} => Right("compute", calls[c].held)
                                                 /\ Right("drop", calls[c].held)
        /\ calls[c].at = "check" => Right("write", calls[c].held)
        /\ Stored(calls[c].id) => Right("expiry", store[calls[c].id])
    BY <1>0 DEF Following, SerialInv
  <2>3. \E at, held, reply : Right(at, held) /\ Moves(c, at, held, reply)
    <3>1. CASE GetState(c)
      BY <1>0, <2>2, <3>1, GetMoves
    <3>2. CASE CheckExpiry(c)
      <4>1. calls[c].at = "expiry"
        BY <3>2 DEF CheckExpiry, At
      <4> QED BY <1>0, <2>2, <3>2, <4>1, GotoMoves, ReplyMoves
              DEF CheckExpiry, Steps, Replies
    <3>3. CASE DropExpired(c)
      BY <1>0, <2>2, <3>3, ReplyMoves DEF DropExpired, Replies
    <3>4. CASE Compute(c)
      <4>1. calls[c].at = "compute" /\ calls[c].held \in Entry
        BY <1>0, <3>4 DEF Compute, At, CallInv, Call
      <4>2. PICK t \in Advance(calls[c].held.state), e \in Entry :
              e.state = t /\ Moves(c, "check", e, calls[c].reply)
        BY <1>0, <3>4, <4>1, ComputeMoves
      <4>3. Right("check", e)
        BY <1>0, <4>1, <4>2 DEF Following, CallInv
      <4> QED BY <4>2, <4>3
    <3>5. CASE Refuse(c)
      BY <1>0, <2>2, <3>5, ReplyMoves DEF Refuse, Replies
    <3>6. CASE CheckStored(c)
      <4>1. calls[c].at = "check"
        BY <3>6 DEF CheckStored, At
      <4> QED BY <1>0, <2>2, <3>6, <4>1, GotoMoves, ReplyMoves
              DEF CheckStored, Steps, Replies
    <3>7. CASE WriteBack(c)
      BY <1>0, <2>2, <3>7, ReplyMoves DEF WriteBack, Replies
    <3> QED BY <3>1, <3>2, <3>3, <3>4, <3>5, <3>6, <3>7 DEF CallStep
  <2> HIDE DEF Right
  <2>4. PICK at, held, reply : Right(at, held) /\ Moves(c, at, held, reply)
    BY <2>3
  <2>5. (\A d \in Calls : Following(d))'
    BY <2>1, <2>4, MovesFollow DEF Right
  <2>6. issued' = issued
    BY DEF CallStep, GetState, CheckExpiry, DropExpired, Compute, Refuse,
           CheckStored, WriteBack
  <2>7. (Stored(Watched) => store[Watched].state = last)'
    BY <1>1, <2>1 DEF SerialInv, Stored
  <2> QED BY <2>1, <2>5, <2>6, <2>7 DEF SerialInv
<1>2. CASE DropExpired(c)
  <2>1. /\ UNCHANGED <<issued, now>>
        /\ store' = [store EXCEPT ![calls[c].id] = NoSession]
    BY <1>2 DEF DropExpired
  <2>2. store'[Watched] \in {store[Watched], NoSession}
    BY <1>0, <2>1
  <2>3. last' = last
    BY <2>2, LastStays
  <2>4. PICK reply : Moves(c, "idle", NoSession, reply)
    BY <1>0, <1>2, ReplyMoves DEF DropExpired, Replies
  <2>5. (\A d \in Calls : Following(d))'
    BY <2>4, MovesFollow
  <2>6. (Stored(Watched) => store[Watched].state = last)'
    BY <2>2, <2>3 DEF SerialInv, Stored
  <2> QED BY <2>1, <2>3, <2>5, <2>6 DEF SerialInv
<1>3. CASE WriteBack(c)
  <2>1. /\ UNCHANGED <<issued, now>> /\ calls[c].at = "write"
        /\ store' = [store EXCEPT ![calls[c].id] = calls[c].held]
    BY <1>3 DEF WriteBack, At
  <2>2. Moves(c, "idle", NoSession, "ok")
    BY <1>0, <1>3, ReplyMoves DEF WriteBack, Replies
  <2>3. (\A d \in Calls : Following(d))'
    BY <2>2, MovesFollow
  <2>4. calls[c].held # NoSession
    BY <1>0, <2>1 DEF CallInv
  <2>5. CASE calls[c].id = Watched
    <3>1. store'[Watched] = calls[c].held
      BY <1>0, <2>1, <2>5
    <3>2. last' = calls[c].held.state
      BY <2>4, <3>1 DEF SerialNext
    <3>3. last' \in Advance(last)
      BY <1>0, <2>1, <2>4, <2>5, <3>2 DEF Following
    <3>4. issued[Watched] # -1
      BY <1>0, <2>4, <2>5 DEF CallInv, Good
    <3> QED BY <2>1, <2>3, <3>1, <3>2, <3>3, <3>4 DEF Stored
  <2>6. CASE calls[c].id # Watched
    <3>1. store'[Watched] = store[Watched]
      BY <1>0, <2>1, <2>6
    <3>2. last' = last
      BY <3>1, LastStays
    <3> QED BY <2>1, <2>3, <3>1, <3>2 DEF SerialInv, Stored
  <2> QED BY <2>5, <2>6
<1> QED BY <1>1, <1>2, <1>3 DEF CallStep, GetState, CheckExpiry, Compute,
           Refuse, CheckStored

\* So do creating, deleting, a new call, a restart and the clock.
LEMMA OtherFollows ==
  ASSUME SerialInv, SerialNext,
         \/ \E i \in Sessions : CreateSession(i) \/ DeleteSession(i)
         \/ \E c \in Calls, i \in Sessions, kind \in {"advance", "read"} :
              Begin(c, i, kind)
         \/ Restart
         \/ Tick
  PROVE  /\ last' = last
         /\ (\A d \in Calls : Following(d))'
         /\ (Stored(Watched) => store[Watched].state = last)'
         /\ (issued[Watched] = -1 => last = NewSession)'
<1>0. /\ ServiceInv /\ Watched \in Sessions /\ calls \in [Calls -> Call]
      /\ store \in [Sessions -> Entry \cup {NoSession}]
      /\ issued \in [Sessions -> {-1} \cup 0..LastTick] /\ now \in 0..LastTick
      /\ \A c \in Calls : CallInv(c) /\ Following(c)
  BY WatchedAssumption DEF SerialInv, ServiceInv, TypeOK
\* The calls are as they were, and so is the history, so they still follow.
<1>1. ASSUME last' = last, calls' = calls PROVE (\A d \in Calls : Following(d))'
  BY <1>0, <1>1 DEF Following
<1>2. ASSUME NEW i \in Sessions, CreateSession(i)
      PROVE  /\ last' = last /\ calls' = calls
             /\ (Stored(Watched) => store[Watched].state = last)'
             /\ issued'[Watched] = -1 => issued[Watched] = -1
  <2>1. /\ issued[i] = -1 /\ UNCHANGED calls
        /\ issued' = [issued EXCEPT ![i] = now]
        /\ store' = [store EXCEPT ![i] =
                       [state |-> NewSession, expires |-> now + SessionTTL]]
    BY <1>2 DEF CreateSession
  <2>2. CASE i = Watched
    <3> DEFINE e == [state |-> NewSession, expires |-> now + SessionTTL]
    <3>1. store'[Watched] = e
      BY <1>0, <2>1, <2>2
    <3>2. e \in Entry /\ e.state = NewSession
      BY <1>0, NewSessionType, ServiceAssumption DEF Entry
    <3>3. e # NoSession
      BY <3>2, ServiceAssumption DEF Entry
    <3> HIDE DEF e
    <3>4. last = NewSession
      BY <2>1, <2>2 DEF SerialInv
    <3>5. last' = NewSession
      BY <3>1, <3>2, <3>3 DEF SerialNext
    <3> QED BY <2>1, <2>2, <3>1, <3>2, <3>4, <3>5
  <2>3. CASE i # Watched
    <3>1. store'[Watched] = store[Watched] /\ issued'[Watched] = issued[Watched]
      BY <1>0, <2>1, <2>3
    <3>2. last' = last
      BY <3>1, LastStays
    <3> QED BY <2>1, <3>1, <3>2 DEF SerialInv, Stored
  <2> QED BY <2>2, <2>3
<1>3. ASSUME store'[Watched] \in {store[Watched], NoSession}
      PROVE  last' = last /\ (Stored(Watched) => store[Watched].state = last)'
  <2>1. last' = last
    BY <1>3, LastStays
  <2> QED BY <1>3, <2>1 DEF SerialInv, Stored
<1>4. ASSUME NEW i \in Sessions, DeleteSession(i)
      PROVE  /\ store'[Watched] \in {store[Watched], NoSession}
             /\ UNCHANGED <<calls, issued>>
  BY <1>0, <1>4 DEF DeleteSession
<1>5. ASSUME NEW c \in Calls, NEW i \in Sessions, NEW kind \in {"advance", "read"},
             Begin(c, i, kind), last' = last
      PROVE  (\A d \in Calls : Following(d))'
  <2> SUFFICES ASSUME NEW d \in Calls PROVE Following(d)'
    OBVIOUS
  <2>1. calls'[d].held = NoSession \/ calls'[d] = calls[d]
    BY <1>0, <1>5 DEF Begin
  <2> QED BY <1>0, <1>5, <2>1 DEF Following
<1>6. CASE Restart
  <2>1. store'[Watched] = NoSession /\ issued' = issued
    BY <1>0, <1>6 DEF Restart
  <2>2. ASSUME NEW d \in Calls PROVE Following(d)'
    <3>1. calls'[d].held = NoSession
      BY <1>0, <1>6 DEF Restart, Call
    <3> QED BY <3>1 DEF Following
  <2> QED BY <1>3, <2>1, <2>2 DEF SerialInv
<1>7. CASE Tick
  BY <1>1, <1>3, <1>7 DEF Tick, SerialInv
<1>8. ASSUME NEW c \in Calls, NEW i \in Sessions, NEW kind \in {"advance", "read"},
             Begin(c, i, kind)
      PROVE  UNCHANGED <<store, issued>>
  BY <1>8 DEF Begin
<1> QED BY <1>1, <1>2, <1>3, <1>4, <1>5, <1>6, <1>7, <1>8 DEF SerialInv

\* Every step of the service keeps the invariant and is a step of the engine on
\* the consultation, or leaves it as it is.
LEMMA SerialStep ==
  ASSUME SerialInv, SerialNext, \A c, d \in Calls : c = d
  PROVE  SerialInv' /\ last' \in Advance(last) \cup {last}
<1>1. ServiceInv'
  BY ServiceStep DEF SerialInv, SerialNext
<1>2. \/ \E c \in Calls : CallStep(c)
      \/ \E i \in Sessions : CreateSession(i) \/ DeleteSession(i)
      \/ \E c \in Calls, i \in Sessions, kind \in {"advance", "read"} :
           Begin(c, i, kind)
      \/ Restart
      \/ Tick
  BY DEF SerialNext, Next, CallStep
<1>3. CASE \E c \in Calls : CallStep(c)
  BY <1>1, <1>3, CallFollows DEF SerialInv
<1>4. CASE ~\E c \in Calls : CallStep(c)
  BY <1>1, <1>2, <1>4, OtherFollows DEF SerialInv
<1> QED BY <1>3, <1>4

\* The invariant holds in every reachable state of SerialService.
LEMMA SerialInvariant ==
  ASSUME \A c, d \in Calls : c = d
  PROVE  SerialSpec => []SerialInv
<1>1. SerialInit => SerialInv
  <2> SUFFICES ASSUME SerialInit PROVE SerialInv
    OBVIOUS
  <2>1. ASSUME NEW c \in Calls PROVE Following(c)
    <3>1. calls[c].held = NoSession
      BY DEF SerialInit, Init
    <3> QED BY <3>1 DEF Following
  <2>2. ~Stored(Watched)
    BY WatchedAssumption DEF SerialInit, Init, Stored
  <2> QED BY <2>1, <2>2, ServiceInit DEF SerialInit, SerialInv
<1>2. SerialInv /\ [SerialNext]_serialVars => SerialInv'
  <2> SUFFICES ASSUME SerialInv, UNCHANGED serialVars PROVE SerialInv'
    BY SerialStep
  <2>1. ServiceInv'
    BY ServiceStep DEF serialVars, SerialInv, vars
  <2> QED BY <2>1 DEF serialVars, SerialInv, Following, Stored
<1> QED BY <1>1, <1>2, PTL DEF SerialSpec

-----------------------------------------------------------------------------
(* The engine of the consultation is the engine of the service: Workflow has *)
(* its own copy of the operators of WorkflowRules, with the same constants.  *)

\* Counting.
LEMMA SameCount == \A S : Consultation!Cardinality(S) = Cardinality(S)
BY DEF Consultation!Cardinality, Cardinality

\* The sets the inputs are taken from.
LEMMA SameSets ==
  /\ Consultation!Recognised = Recognised
  /\ Consultation!Answers = Answers
  /\ Consultation!Decisions = Decisions
<1>1. Consultation!Recognised = Recognised
  BY SameCount DEF Recognised, Consultation!Recognised
<1>2. Consultation!Answers = Answers
  BY DEF Answers, Consultation!Answers
<1>3. Consultation!Decisions = Decisions
  BY DEF Decisions, VerifiedItems, Decision, RuleEngineStatuses,
       Consultation!Decisions, Consultation!VerifiedItems,
       Consultation!Decision, Consultation!RuleEngineStatuses
<1> QED BY <1>1, <1>2, <1>3

\* The entry guards: what is accepted, what is missing.
LEMMA SameGuards ==
  ASSUME NEW s
  PROVE  /\ \A k : Consultation!Accepts(s, k) <=> Accepts(s, k)
         /\ \A a : Consultation!GateAccepts(a) <=> GateAccepts(a)
         /\ Consultation!CanConfirm(s) <=> CanConfirm(s)
         /\ Consultation!CanChat(s) <=> CanChat(s)
         /\ Consultation!Missing(s) = Missing(s)
         /\ Consultation!DefaultQuestion(s) = DefaultQuestion(s)
<1>1. \A k : Consultation!Accepts(s, k) <=> Accepts(s, k)
  BY DEF Accepts, Open, AllowedInputs, WorkflowStates, Consultation!Accepts,
       Consultation!Open, Consultation!AllowedInputs,
       Consultation!WorkflowStates
<1>2. \A a : Consultation!GateAccepts(a) <=> GateAccepts(a)
  BY DEF GateAccepts, Consultation!GateAccepts
<1>3. /\ Consultation!CanConfirm(s) <=> CanConfirm(s)
      /\ Consultation!CanChat(s) <=> CanChat(s)
  BY <1>1 DEF CanConfirm, CanChat, Consultation!CanConfirm,
       Consultation!CanChat
<1>4. Consultation!Missing(s) = Missing(s)
  BY DEF Missing, Unsettled, Consultation!Missing, Consultation!Unsettled
<1>5. Consultation!DefaultQuestion(s) = DefaultQuestion(s)
  BY <1>4 DEF DefaultQuestion, Consultation!DefaultQuestion
<1> QED BY <1>1, <1>2, <1>3, <1>4, <1>5

\* The edits of the record an input is made of.
LEMMA SameEdits ==
  ASSUME NEW s, NEW a
  PROVE  /\ Consultation!Merge(s, a) = Merge(s, a)
         /\ Consultation!ToRetrieve(s) = ToRetrieve(s)
         /\ Consultation!RefreshEntitlements(s) = RefreshEntitlements(s)
         /\ Consultation!AskIfCollecting(s) = AskIfCollecting(s)
         /\ Consultation!AskOn(s) = AskOn(s)
<1>1. /\ Consultation!Merge(s, a) = Merge(s, a)
      /\ Consultation!ToRetrieve(s) = ToRetrieve(s)
  BY DEF Merge, ToRetrieve, Consultation!Merge, Consultation!ToRetrieve
<1>2. Consultation!RefreshEntitlements(s) = RefreshEntitlements(s)
  BY DEF RefreshEntitlements, ReexpandAll, Expansion, Visible, Hidden,
       ExpandFromEvent, Relevant, LocalItemsFor, MergeLocalEntitlements,
       LocalItems, Consultation!RefreshEntitlements, Consultation!ReexpandAll,
       Consultation!Expansion, Consultation!Visible, Consultation!Hidden,
       Consultation!ExpandFromEvent, Consultation!Relevant,
       Consultation!LocalItemsFor, Consultation!MergeLocalEntitlements,
       Consultation!LocalItems
<1>3. /\ Consultation!AskIfCollecting(s) = AskIfCollecting(s)
      /\ Consultation!AskOn(s) = AskOn(s)
  BY SameGuards DEF AskIfCollecting, AskOn, Consultation!AskIfCollecting,
       Consultation!AskOn
<1> QED BY <1>1, <1>2, <1>3

\* The automatic steps, the guardrails included.
LEMMA SameAutoAdvance ==
  ASSUME NEW s, NEW before, NEW dec
  PROVE  Consultation!AutoAdvance(s, before, dec) = AutoAdvance(s, before, dec)
<1>1. ASSUME NEW u
      PROVE  Consultation!CheckLoopGuardrails(u, before)
               = CheckLoopGuardrails(u, before)
  BY SameCount DEF CheckLoopGuardrails, HasUnsettled, Unsettled,
       DowngradeUnsettled, NoProgress, Answered, AfterEvaluate, ShouldLoopBack,
       ConfirmGuard, Consultation!CheckLoopGuardrails,
       Consultation!HasUnsettled, Consultation!Unsettled,
       Consultation!DowngradeUnsettled, Consultation!NoProgress,
       Consultation!Answered, Consultation!AfterEvaluate,
       Consultation!ShouldLoopBack, Consultation!ConfirmGuard
<1>2. Consultation!EvaluateReadyItems(s, dec) = EvaluateReadyItems(s, dec)
  BY DEF EvaluateReadyItems, Hidden, ResolveItem, FieldsFor, Answered,
       VerifiedItems, ApplyDecision, RuleEngineStatuses,
       Consultation!EvaluateReadyItems, Consultation!Hidden,
       Consultation!ResolveItem, Consultation!FieldsFor, Consultation!Answered,
       Consultation!VerifiedItems, Consultation!ApplyDecision,
       Consultation!RuleEngineStatuses
<1>3. Consultation!ResolveEntitlements(s) = ResolveEntitlements(s)
  BY DEF ResolveEntitlements, Expansion, Visible, Hidden, ExpandFromEvent,
       Relevant, LocalItemsFor, Consultation!ResolveEntitlements,
       Consultation!Expansion, Consultation!Visible, Consultation!Hidden,
       Consultation!ExpandFromEvent, Consultation!Relevant,
       Consultation!LocalItemsFor
<1> QED
  BY <1>1, <1>2, <1>3, SameEdits DEF AutoAdvance, Consultation!AutoAdvance

\* What the service may say of the items it is consulted for.
LEMMA SameJudgements ==
  ASSUME NEW s
  PROVE  Consultation!Judgements(s) = Judgements(s)
<1>1. Consultation!Consulted(s) = Consulted(s)
  BY DEF Consulted, VerifiedItems, FieldsFor, Answered, Consultation!Consulted,
         Consultation!VerifiedItems, Consultation!FieldsFor, Consultation!Answered
<1> QED BY <1>1, SameSets DEF Judgements, Consultation!Judgements

\* The answers of a question card.
LEMMA SameRecordAnswers ==
  ASSUME NEW s, NEW t \in RecordAnswers(s)
  PROVE  t \in Consultation!RecordAnswers(s)
<1> DEFINE Sent == {x \in Answers : /\ Accepts(s, "attribute_answers")
                                   /\ \E f \in Fields : x[f] # NoValue
                                   /\ GateAccepts(x)}
           Taken == {x \in Consultation!Answers :
                       /\ Consultation!Accepts(s, "attribute_answers")
                       /\ \E f \in Fields : x[f] # NoValue
                       /\ Consultation!GateAccepts(x)}
           u(a) == RefreshEntitlements(ToRetrieve(Merge(s, a)))
           v(a) == Consultation!RefreshEntitlements(
                     Consultation!ToRetrieve(Consultation!Merge(s, a)))
<1>1. PICK a \in Sent : t \in {AutoAdvance(u(a), s, dec) : dec \in Judgements(u(a))}
  BY DEF RecordAnswers
<1>2. a \in Taken
  BY <1>1, SameSets, SameGuards
<1>3. v(a) = u(a)
  BY SameEdits
<1>4. {Consultation!AutoAdvance(v(a), s, dec) : dec \in Consultation!Judgements(v(a))}
        = {AutoAdvance(u(a), s, dec) : dec \in Judgements(u(a))}
  BY <1>3, SameJudgements, SameAutoAdvance
<1> QED BY <1>1, <1>2, <1>4 DEF Consultation!RecordAnswers

\* A chat turn.
LEMMA SameCollectFromChat ==
  ASSUME NEW s, NEW t \in CollectFromChat(s)
  PROVE  t \in Consultation!CollectFromChat(s)
<1> DEFINE U(a) == RefreshEntitlements(Merge(s, a))
           V(a) == Consultation!RefreshEntitlements(Consultation!Merge(s, a))
<1>1. PICK a \in ChatAnswers(s) :
        t \in IF Missing(U(a)) # {} THEN AskOn(U(a))
              ELSE {AutoAdvance(ToRetrieve(U(a)), s, dec) : dec \in Judgements(U(a))}
  BY DEF CollectFromChat
<1>2. a \in Consultation!ChatAnswers(s)
  BY <1>1, SameGuards, SameSets DEF ChatAnswers, Consultation!ChatAnswers
<1>3. V(a) = U(a)
  BY SameEdits
<1>4. /\ Consultation!Missing(U(a)) = Missing(U(a))
      /\ Consultation!AskOn(U(a)) = AskOn(U(a))
      /\ Consultation!ToRetrieve(U(a)) = ToRetrieve(U(a))
  BY SameGuards, SameEdits
<1>5. {Consultation!AutoAdvance(ToRetrieve(U(a)), s, dec)
         : dec \in Consultation!Judgements(U(a))}
        = {AutoAdvance(ToRetrieve(U(a)), s, dec) : dec \in Judgements(U(a))}
  BY SameJudgements, SameAutoAdvance
<1>6. t \in IF Consultation!Missing(V(a)) # {} THEN Consultation!AskOn(V(a))
            ELSE {Consultation!AutoAdvance(Consultation!ToRetrieve(V(a)), s, dec)
                    : dec \in Consultation!Judgements(V(a))}
  BY <1>1, <1>3, <1>4, <1>5, Zenon
<1> QED BY <1>2, <1>6 DEF Consultation!CollectFromChat

\* Every input of the engine is one of the consultation's.
LEMMA SameInputs ==
  ASSUME NEW t \in Advance(last), last' = t
  PROVE  Consultation!Next
<1>1. Consultation!ReceiveLifeEvent(last) = ReceiveLifeEvent(last)
  BY SameSets, SameGuards DEF ReceiveLifeEvent, Consultation!ReceiveLifeEvent
<1>2. Consultation!ConfirmEvent(last) = ConfirmEvent(last)
  BY SameAutoAdvance, SameCount, SameGuards DEF ConfirmEvent,
       Consultation!ConfirmEvent
<1>3. Consultation!DenyEvent(last) = DenyEvent(last)
  BY SameGuards DEF DenyEvent, Consultation!DenyEvent
<1>4. Consultation!ChatUnavailable(last) = ChatUnavailable(last)
  BY SameGuards DEF ChatUnavailable, Consultation!ChatUnavailable
<1>5. Consultation!DeclineItem(last) = DeclineItem(last)
  BY SameGuards, SameEdits DEF DeclineItem, Consultation!DeclineItem
<1>6. Consultation!ConfirmReview(last) = ConfirmReview(last)
  BY SameGuards DEF ConfirmReview, Consultation!ConfirmReview
<1>7. Consultation!ReturnFromReview(last) = ReturnFromReview(last)
  BY SameGuards, SameEdits DEF ReturnFromReview, Consultation!ReturnFromReview
<1>8. Consultation!ChooseReferral(last) = ChooseReferral(last)
  BY SameGuards DEF ChooseReferral, Consultation!ChooseReferral
<1>9. Consultation!RequestHelp(last) = RequestHelp(last)
  BY DEF RequestHelp, Open, AllowedInputs, WorkflowStates,
       Consultation!RequestHelp, Consultation!Open, Consultation!AllowedInputs,
       Consultation!WorkflowStates
<1> QED BY <1>1, <1>2, <1>3, <1>4, <1>5, <1>6, <1>7, <1>8, <1>9,
           SameRecordAnswers, SameCollectFromChat DEF Advance, Consultation!Next

\* With one call at a time, what the watched session goes through in the store
\* is a behaviour of Workflow (get, advance and save of the handlers of
\* api/sessions.py), whatever is deleted, expires or is lost in between.  With
\* two calls it is not: EndedStaysEnded is violated.
THEOREM SerialStoreImplements ==
  ASSUME \A c, d \in Calls : c = d
  PROVE  SerialSpec => StoreImplementsWorkflow
<1>1. SerialInit => Consultation!Init
  BY DEF SerialInit, Consultation!Init, NewSession, Consultation!NewSession
<1>2. SerialInv /\ [SerialNext]_serialVars => [Consultation!Next]_(Consultation!vars)
  <2> SUFFICES ASSUME SerialInv, SerialNext, last' # last PROVE Consultation!Next
    BY DEF serialVars, Consultation!vars
  <2> QED BY SerialStep, SameInputs
<1>3. SerialSpec => []SerialInv
  BY SerialInvariant
<1> QED BY <1>1, <1>2, <1>3, PTL
        DEF SerialSpec, StoreImplementsWorkflow, Consultation!Spec

\* Requirement 5.3, with one call at a time: a consultation that has ended is
\* never open again while it is stored (save of session_store.py).  The run
\* "ended" shows that a second call in flight breaks it.
THEOREM SerialEndStays ==
  ASSUME \A c, d \in Calls : c = d
  PROVE  SerialSpec =>
           [][Stored(Watched) /\ ~Open(store[Watched].state)
                /\ store'[Watched] # NoSession
              => ~Open(store'[Watched].state)]_serialVars
<1> DEFINE Ends == Stored(Watched) /\ ~Open(store[Watched].state)
                     /\ store'[Watched] # NoSession
                   => ~Open(store'[Watched].state)
<1>1. SerialInv /\ [SerialNext]_serialVars => [Ends]_serialVars
  <2> SUFFICES ASSUME SerialInv, SerialNext, Stored(Watched),
                      ~Open(store[Watched].state), store'[Watched] # NoSession
               PROVE  ~Open(store'[Watched].state)
    BY DEF serialVars
  <2>1. last = store[Watched].state /\ store'[Watched].state = last'
    BY DEF SerialInv, SerialNext
  <2>2. last' = last
    BY <2>1, SerialStep, OnlyWhileOpen
  <2> QED BY <2>1, <2>2
<1>2. SerialSpec => []SerialInv
  BY SerialInvariant
<1> QED BY <1>1, <1>2, PTL DEF SerialSpec

=============================================================================
