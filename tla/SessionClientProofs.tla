------------------------- MODULE SessionClientProofs -------------------------
(***************************************************************************)
(* Theorems about the browser's side of a consultation, whatever gets lost    *)
(* and however long the user goes on.                                         *)
(***************************************************************************)
EXTENDS SessionClient, FiniteSetTheorems, TLAPS

\* What travels and what is shown names a session.
WireInv ==
  /\ created \in Nat
  /\ \A q \in wire : q.n # 0 /\ (q.kind \in Inputs => q.id # 0)
  /\ \A m \in replies : m.n # 0 /\ (m.snap = NoSnapshot \/ m.snap.id # 0)

\* What the hook holds: the snapshot belongs to the session of the id, there is
\* none while a session is being created, there is one while an input other than
\* a description is on its way, and the page is locked for just that long.
HookInv ==
  /\ sent \in Nat
  /\ shown = NoSnapshot \/ (shown.id = ref /\ ref # 0)
  /\ Awaiting /\ call.kind = "create" => shown = NoSnapshot
  /\ Awaiting /\ call.task = "run" => shown # NoSnapshot /\ call.kind # "create"
  /\ Busy <=> Awaiting

ClientInv == WireInv /\ HookInv

\* A request names the session it is about, except to create one.
LEMMA PostKeeps ==
  ASSUME NEW kind, NEW id, NEW op, Post(kind, id, op), WireInv, sent \in Nat,
         kind \in Inputs => id # 0, UNCHANGED created,
         replies' \subseteq replies
  PROVE  WireInv' /\ sent' \in Nat /\ sent' # 0
BY DEF Post, WireInv

\* A description creates a session when the hook holds no id.
LEMMA DescriptionKeeps ==
  ASSUME NEW id, NEW op, NEW attempt, SendDescription(id, op, attempt),
         WireInv, sent \in Nat, UNCHANGED created, replies' \subseteq replies
  PROVE  /\ WireInv' /\ sent' \in Nat /\ Awaiting'
         /\ call'.task = "describe"
         /\ call'.kind = IF id = 0 THEN "create" ELSE "life_event_text"
<1> DEFINE kind == IF id = 0 THEN "create" ELSE "life_event_text"
<1>1. Post(kind, id, op) /\ (kind \in Inputs => id # 0)
  BY DEF SendDescription, Inputs
<1>2. WireInv' /\ sent' \in Nat /\ sent' # 0
  BY <1>1, PostKeeps
<1>3. /\ call'.n = sent + 1 /\ call'.task = "describe" /\ call'.kind = kind
      /\ sent' = sent + 1
  BY DEF SendDescription, Post
<1> QED BY <1>2, <1>3 DEF Awaiting, NoCall

\* The end of a call frees the page.
LEMMA EndKeeps ==
  ASSUME HookInv, EndCall, status' # "working",
         \/ ref' = 0 /\ shown' = NoSnapshot
         \/ UNCHANGED <<ref, shown>>
         \/ shown' = NoSnapshot
         \/ shown'.id = ref' /\ ref' # 0
  PROVE  HookInv'
BY DEF HookInv, EndCall, Awaiting, Busy, NoCall

\* However a call fails, the page is freed or goes on with a new attempt.
LEMMA FailureKeeps ==
  ASSUME ClientInv, Awaiting, NEW r, AfterFailure(r), UNCHANGED created,
         replies' \subseteq replies
  PROVE  ClientInv'
<1>0. WireInv /\ HookInv /\ sent \in Nat
  BY DEF ClientInv, HookInv
<1>1. CASE EndCall /\ (NotRecognised \/ (Fail(r) /\ KeepSession) \/ (Fail(r) /\ ForgetSession))
  <2>1. WireInv'
    BY <1>0, <1>1 DEF EndCall, WireInv
  <2>2. HookInv'
    BY <1>0, <1>1, EndKeeps DEF NotRecognised, Fail, KeepSession, ForgetSession
  <2> QED BY <2>1, <2>2 DEF ClientInv
<1>2. CASE /\ SendDescription(0, call.op, 2) /\ ForgetSession
           /\ UNCHANGED <<status, error, unrecognized>>
  <2>1. /\ WireInv' /\ sent' \in Nat /\ Awaiting'
        /\ call'.task = "describe"
    BY <1>0, <1>2, DescriptionKeeps
  <2>2. HookInv'
    BY <1>0, <1>2, <2>1 DEF ForgetSession, HookInv, Busy
  <2> QED BY <2>1, <2>2 DEF ClientInv
<1> QED BY <1>1, <1>2 DEF AfterFailure, AfterFirst, AfterSecond, AfterRun

\* Reading a response (useBackendSession.ts, sessionClient.ts).
LEMMA ResumeKeeps == ClientInv /\ Resume => ClientInv'
<1> SUFFICES ASSUME ClientInv, Resume PROVE ClientInv'
  OBVIOUS
<1>0. WireInv /\ HookInv /\ sent \in Nat
  BY DEF ClientInv, HookInv
<1>1. PICK m \in replies :
        /\ m.n = call.n /\ replies' = replies \ {m}
        /\ \/ /\ m.result = "snapshot" /\ call.kind = "create"
              /\ ref' = m.snap.id
              /\ SendDescription(m.snap.id, call.op, call.attempt)
              /\ UNCHANGED <<shown, status, error, unrecognized>>
           \/ /\ m.result = "snapshot" /\ call.kind # "create"
              /\ EndCall /\ ApplySnapshot(m.snap)
           \/ /\ m.result # "snapshot"
              /\ AfterFailure(m.result)
        /\ UNCHANGED <<server, lost>>
  BY DEF Resume
<1>2. Awaiting /\ (m.snap = NoSnapshot \/ m.snap.id # 0)
  BY <1>0, <1>1 DEF WireInv, Awaiting, NoCall
<1>3. UNCHANGED created /\ replies' \subseteq replies
  BY <1>1 DEF server
<1>4. CASE /\ call.kind = "create" /\ ref' = m.snap.id
           /\ SendDescription(m.snap.id, call.op, call.attempt)
           /\ UNCHANGED <<shown, status, error, unrecognized>>
  <2>1. /\ WireInv' /\ sent' \in Nat /\ Awaiting'
        /\ call'.task = "describe"
    BY <1>0, <1>3, <1>4, DescriptionKeeps
  <2>2. HookInv'
    BY <1>0, <1>2, <1>4, <2>1 DEF HookInv, Busy
  <2> QED BY <2>1, <2>2 DEF ClientInv
<1>5. CASE EndCall /\ ApplySnapshot(m.snap)
  <2>1. WireInv'
    BY <1>0, <1>3, <1>5 DEF EndCall, WireInv
  <2>2. HookInv'
    BY <1>0, <1>2, <1>5, EndKeeps DEF ApplySnapshot, NoSnapshot
  <2> QED BY <2>1, <2>2 DEF ClientInv
<1>6. CASE AfterFailure(m.result)
  BY <1>2, <1>3, <1>6, FailureKeeps
<1> QED BY <1>1, <1>4, <1>5, <1>6

\* What the page lets a user do.
LEMMA PageKeeps ==
  ClientInv /\ (DescribeEvent \/ ConfirmEvent \/ AnswerQuestions \/ ResetSession \/ Reload) => ClientInv'
<1> SUFFICES ASSUME ClientInv PROVE
      DescribeEvent \/ ConfirmEvent \/ AnswerQuestions \/ ResetSession \/ Reload => ClientInv'
  OBVIOUS
<1>0. WireInv /\ HookInv /\ sent \in Nat
  BY DEF ClientInv, HookInv
<1>1. CASE DescribeEvent
  <2>1. /\ StartWorking /\ SendDescription(ref, sent + 1, 1)
        /\ UNCHANGED created /\ replies' \subseteq replies
    BY <1>1 DEF DescribeEvent, server
  <2>2. /\ WireInv' /\ sent' \in Nat /\ Awaiting'
        /\ call'.task = "describe"
        /\ call'.kind = IF ref = 0 THEN "create" ELSE "life_event_text"
    BY <1>0, <2>1, DescriptionKeeps
  <2>3. HookInv'
    BY <1>0, <2>1, <2>2 DEF HookInv, StartWorking, Busy
  <2> QED BY <2>2, <2>3 DEF ClientInv
<1>2. ASSUME NEW kind \in {"event_confirmation", "attribute_answers"},
             NEW step \in {"confirm", "questions"}, SendInput(kind, step)
      PROVE  ClientInv'
  <2>1. /\ Post(kind, ref, sent + 1) /\ ref # 0 /\ AtStep = step
        /\ UNCHANGED created /\ replies' \subseteq replies
    BY <1>2 DEF SendInput, server
  <2>2. WireInv' /\ sent' \in Nat /\ sent' # 0
    BY <1>0, <2>1, PostKeeps
  <2>3. shown # NoSnapshot /\ UNCHANGED <<ref, shown>> /\ status' = "working"
    BY <1>2, <2>1 DEF AtStep, SendInput, StartWorking
  <2>4. /\ call'.n = sent' /\ call'.task = "run" /\ call'.kind = kind
    BY <1>2 DEF SendInput, Post
  <2>5. Awaiting'
    BY <2>2, <2>4 DEF Awaiting, NoCall
  <2>6. HookInv'
    BY <1>0, <2>2, <2>3, <2>4, <2>5 DEF HookInv, Busy
  <2> QED BY <2>2, <2>6 DEF ClientInv
<1>3. CASE ResetSession
  <2>1. /\ ~Busy /\ UNCHANGED <<call, created, replies>>
        /\ ref' = 0 /\ shown' = NoSnapshot /\ status' = "idle"
    BY <1>3 DEF ResetSession, MayReset, server
  <2>2. WireInv' /\ sent' \in Nat
    <3>1. CASE ref = 0
      BY <1>0, <1>3, <2>1, <3>1 DEF ResetSession, WireInv
    <3>2. CASE ref # 0
      BY <1>0, <1>3, <2>1, <3>2, PostKeeps DEF ResetSession
    <3> QED BY <3>1, <3>2
  <2>3. HookInv'
    BY <1>0, <2>1, <2>2 DEF HookInv, Busy, Awaiting
  <2> QED BY <2>2, <2>3 DEF ClientInv
<1>4. CASE Reload
  <2>1. WireInv'
    BY <1>0, <1>4 DEF Reload, WireInv, server, net
  <2>2. HookInv'
    BY <1>0, <1>4 DEF Reload, HookInv, net, Busy, Awaiting
  <2> QED BY <2>1, <2>2 DEF ClientInv
<1> QED BY <1>1, <1>2, <1>3, <1>4 DEF ConfirmEvent, AnswerQuestions

\* What the server and the network do.
LEMMA ServerKeeps ==
  ASSUME ClientInv, (\E n \in Numbers : Serve(n)) \/ Lose \/ ConnectionFails \/ DropReply
  PROVE  ClientInv'
<1>0. WireInv /\ HookInv /\ sent \in Nat
  BY DEF ClientInv, HookInv
<1>1. CASE ConnectionFails
  BY <1>1, FailureKeeps DEF ConnectionFails, server
<1>2. CASE DropReply
  <2>1. WireInv'
    BY <1>0, <1>2 DEF DropReply, WireInv, server
  <2>2. HookInv'
    BY <1>0, <1>2 DEF DropReply, HookInv, view, Busy, Awaiting
  <2> QED BY <2>1, <2>2 DEF ClientInv
<1>3. CASE Lose
  <2>1. WireInv'
    BY <1>0, <1>3 DEF Lose, WireInv, net
  <2>2. HookInv'
    BY <1>0, <1>3 DEF Lose, HookInv, view, net, Busy, Awaiting
  <2> QED BY <2>1, <2>2 DEF ClientInv
<1>4. ASSUME NEW n \in Numbers, Serve(n) PROVE ClientInv'
  <2>1. PICK q \in wire :
          ServeCreate(q) \/ ServeAdvance(q) \/ Refuse(q) \/ ServeDelete(q)
    BY <1>4 DEF Serve
  <2>2. HookInv'
    BY <1>0, <1>4 DEF Serve, HookInv, view, Busy, Awaiting
  <2>3. q.n # 0 /\ (q.kind \in Inputs => q.id # 0) /\ created \in Nat
    BY <1>0 DEF WireInv
  <2>4. ASSUME NEW result, NEW snap, Respond(q, result, snap), created' \in Nat,
               snap = NoSnapshot \/ snap.id # 0
        PROVE  WireInv'
    BY <1>0, <2>3, <2>4 DEF Respond, WireInv
  <2>5. ASSUME ServeCreate(q) PROVE WireInv'
    <3>1. created' \in Nat /\ created' # 0
      BY <2>3, <2>5 DEF ServeCreate
    <3>2. SnapOf(created', store'[created']).id # 0
      BY <3>1 DEF SnapOf
    <3> QED BY <2>4, <2>5, <3>1, <3>2 DEF ServeCreate
  <2>6. ASSUME ServeAdvance(q) PROVE WireInv'
    <3>1. SnapOf(q.id, store'[q.id]).id # 0
      BY <2>3, <2>6 DEF ServeAdvance, SnapOf
    <3>2. Respond(q, "snapshot", SnapOf(q.id, store'[q.id]))
      BY <2>6 DEF ServeAdvance
    <3> QED BY <2>3, <2>4, <2>6, <3>1, <3>2 DEF ServeAdvance
  <2>7. ASSUME Refuse(q) PROVE WireInv'
    BY <2>3, <2>4, <2>7 DEF Refuse, server
  <2>8. ASSUME ServeDelete(q) PROVE WireInv'
    BY <1>0, <2>8 DEF ServeDelete, WireInv
  <2>9. WireInv'
    BY <2>1, <2>5, <2>6, <2>7, <2>8
  <2> QED BY <2>2, <2>9 DEF ClientInv
<1> QED BY <1>1, <1>2, <1>3, <1>4

-----------------------------------------------------------------------------

\* It holds in every reachable state.
LEMMA ClientInvariant == ClientSpec => []ClientInv
<1>1. ClientInit => ClientInv
  BY DEF ClientInit, ClientInv, WireInv, HookInv, Awaiting, Busy, NoCall
<1>2. ClientInv /\ [ClientNext]_clientVars => ClientInv'
  <2>1. ClientInv /\ UNCHANGED clientVars => ClientInv'
    BY DEF ClientInv, WireInv, HookInv, Awaiting, Busy, clientVars, server, view, net
  <2> QED BY <2>1, ResumeKeeps, PageKeeps, ServerKeeps DEF ClientNext
<1> QED BY <1>1, <1>2, PTL DEF ClientSpec

\* An answer is never sent to another consultation than the one on screen
\* (sessionIdRef and the snapshot of useBackendSession.ts).
THEOREM AnswersStayHome == ClientSpec => []AnswersGoWhereAsked
<1>1. ClientInv => AnswersGoWhereAsked
  BY DEF ClientInv, HookInv, AnswersGoWhereAsked
<1> QED BY <1>1, ClientInvariant, PTL

\* The page is locked exactly while the hook awaits a response (status of
\* useBackendSession.ts).
THEOREM LockIsExact == ClientSpec => []LockedWhileAwaiting
<1>1. ClientInv => LockedWhileAwaiting
  BY DEF ClientInv, HookInv, LockedWhileAwaiting
<1> QED BY <1>1, ClientInvariant, PTL

-----------------------------------------------------------------------------
(* The shape of both sides, and what it rests on.                            *)

\* What a description may still send: a session that is refused is made anew once.
Left(c) ==
  CASE c.kind = "create" /\ c.attempt = 1 -> 3
    [] c.kind # "create" /\ c.attempt = 1 -> 2
    [] c.kind = "create" /\ c.attempt # 1 -> 1
    [] OTHER -> 0

\* Every request on its way can still make a session or a version, and none of
\* them was sent twice; a description has room for all it may send.
CountInv ==
  /\ IsFiniteSet(wire)
  /\ created + Cardinality(wire) <= sent
  /\ \A i \in Ids : store[i].version + Cardinality(wire) <= sent

RoomInv ==
  /\ Awaiting /\ call.task = "describe" => sent + Left(call) <= MaxSent
  /\ Awaiting /\ call.task = "run" => call.kind # "create"

\* A success comes with a snapshot.
ReplyInv == \A m \in replies : m.result = "snapshot" => m.snap \in Snapshot

TypeInv == ClientInv /\ ClientTypeOK /\ CountInv /\ RoomInv /\ ReplyInv

\* One more request on its way.
LEMMA PostTypes ==
  ASSUME ClientTypeOK, CountInv, NEW kind \in Kinds, NEW id \in Ids \cup {0},
         NEW op \in Numbers, Post(kind, id, op), sent + 1 <= MaxSent,
         UNCHANGED <<store, created>>
  PROVE  /\ wire' \subseteq Request /\ sent' \in 0..MaxSent /\ sent' = sent + 1
         /\ sent' \in Numbers /\ CountInv'
<1> DEFINE q == [n |-> sent + 1, op |-> op, kind |-> kind, id |-> id]
<1>1. sent \in Nat /\ MaxSent \in Nat /\ created \in Nat
      /\ \A i \in Ids : store[i].version \in Nat
  BY ClientAssumption DEF ClientTypeOK, Session
<1>2. q \in Request /\ wire' = wire \cup {q} /\ sent' = sent + 1
  BY <1>1 DEF Post, Request, Numbers
<1> HIDE DEF q
<1>3. IsFiniteSet(wire') /\ Cardinality(wire') \in Nat /\ Cardinality(wire) \in Nat
      /\ Cardinality(wire') <= Cardinality(wire) + 1
  <2>1. IsFiniteSet(wire) /\ Cardinality(wire) \in Nat
    BY FS_CardinalityType DEF CountInv
  <2>2. /\ IsFiniteSet(wire \cup {q})
        /\ \/ Cardinality(wire \cup {q}) = Cardinality(wire)
           \/ Cardinality(wire \cup {q}) = Cardinality(wire) + 1
    BY <2>1, FS_AddElement
  <2> QED BY <1>2, <2>1, <2>2
<1> DEFINE a == Cardinality(wire)
           b == Cardinality(wire')
<1>4. a \in Nat /\ b \in Nat /\ b <= a + 1
  BY <1>3
<1>5. created + a <= sent /\ \A i \in Ids : store[i].version + a <= sent
  BY DEF CountInv
<1>6. /\ created' + b <= sent'
      /\ \A i \in Ids : store'[i].version + b <= sent'
  <2> HIDE DEF a, b
  <2> QED BY <1>1, <1>2, <1>4, <1>5
<1>7. CountInv'
  BY <1>3, <1>6 DEF CountInv
<1>8. wire' \subseteq Request
  BY <1>2 DEF ClientTypeOK
<1>9. sent' \in 0..MaxSent /\ sent' \in 1..MaxSent
  BY <1>1, <1>2
<1> QED BY <1>2, <1>7, <1>8, <1>9 DEF Numbers

\* One more description, or a session for it, on its way.
LEMMA DescriptionTypes ==
  ASSUME ClientTypeOK, CountInv, NEW id \in Ids \cup {0}, NEW op \in Numbers,
         NEW attempt \in {1, 2}, SendDescription(id, op, attempt),
         UNCHANGED <<store, created>>,
         sent + (IF attempt = 1 THEN IF id = 0 THEN 4 ELSE 3
                                ELSE IF id = 0 THEN 2 ELSE 1) <= MaxSent
  PROVE  /\ wire' \subseteq Request /\ sent' \in 0..MaxSent
         /\ call' \in Call /\ CountInv' /\ RoomInv'
<1> DEFINE kind == IF id = 0 THEN "create" ELSE "life_event_text"
<1>1. sent \in Nat /\ MaxSent \in Nat
  BY ClientAssumption DEF ClientTypeOK
<1>2. Post(kind, id, op) /\ kind \in Kinds /\ sent + 1 <= MaxSent
  BY <1>1 DEF SendDescription, Kinds, Inputs
<1>3. /\ wire' \subseteq Request /\ sent' \in 0..MaxSent /\ sent' = sent + 1
      /\ sent' \in Numbers /\ CountInv'
  BY <1>2, PostTypes
<1>4. call' = [n |-> sent', op |-> op, kind |-> kind, attempt |-> attempt,
               task |-> "describe"]
  BY <1>3 DEF SendDescription
<1>5. call' \in Call
  BY <1>2, <1>3, <1>4 DEF Call
<1>6. call'.task = "describe" /\ call'.kind = kind /\ call'.attempt = attempt
  BY <1>4
<1>7. sent' + Left(call') <= MaxSent
  BY <1>1, <1>3, <1>6 DEF Left
<1> QED BY <1>3, <1>5, <1>6, <1>7 DEF RoomInv

\* One request less on its way.
LEMMA HandledTypes ==
  ASSUME ClientTypeOK, CountInv, NEW q \in wire, wire' = wire \ {q}
  PROVE  /\ wire' \subseteq Request /\ IsFiniteSet(wire')
         /\ Cardinality(wire) \in Nat /\ Cardinality(wire') \in Nat
         /\ Cardinality(wire') = Cardinality(wire) - 1
BY FS_RemoveElement, FS_CardinalityType DEF ClientTypeOK, CountInv

\* However a call fails, the hook keeps its shape and has room to go on.
LEMMA FailureTypes ==
  ASSUME TypeInv, Awaiting, NEW r \in Results \ {"snapshot"}, AfterFailure(r),
         UNCHANGED server, replies' \subseteq replies, lost' \in 0..MaxLost
  PROVE  ClientTypeOK' /\ CountInv' /\ RoomInv'
<1>1. /\ ClientTypeOK /\ CountInv /\ RoomInv /\ UNCHANGED <<store, created, accepted>>
      /\ call \in Call
  BY DEF TypeInv, server, ClientTypeOK, Awaiting
<1>2. r \in Errors \/ r = "event_not_recognized"
  BY DEF Results
<1>3. ClientInv'
  BY <1>1, FailureKeeps DEF TypeInv
<1>4. CASE /\ EndCall
           /\ \/ NotRecognised
              \/ r \in Errors /\ Fail(r) /\ (KeepSession \/ ForgetSession)
  <2>1. CountInv' /\ RoomInv'
    BY <1>1, <1>4 DEF EndCall, CountInv, RoomInv, Awaiting
  <2>2. ClientTypeOK'
    BY <1>1, <1>4 DEF EndCall, ClientTypeOK, NotRecognised, Fail, KeepSession, ForgetSession
  <2> QED BY <2>1, <2>2
<1>5. CASE /\ call.task = "describe" /\ call.attempt = 1
           /\ SendDescription(0, call.op, 2) /\ ForgetSession
           /\ UNCHANGED <<status, error, unrecognized>>
  <2>1. sent + 2 <= MaxSent
    <3>1. sent + Left(call) <= MaxSent
      BY <1>1, <1>5 DEF RoomInv
    <3>2. sent \in Nat /\ MaxSent \in Nat /\ Left(call) \in {2, 3}
      BY <1>1, <1>5, ClientAssumption DEF Left, ClientTypeOK
    <3> QED BY <3>1, <3>2
  <2>2. call.op \in Numbers
    BY <1>1 DEF Call
  <2>3. /\ wire' \subseteq Request /\ sent' \in 0..MaxSent
        /\ call' \in Call /\ CountInv' /\ RoomInv'
    BY <1>1, <1>5, <2>1, <2>2, DescriptionTypes
  <2>4. ClientTypeOK'
    BY <1>1, <1>5, <2>3 DEF ClientTypeOK, ForgetSession
  <2> QED BY <2>3, <2>4
<1> QED BY <1>2, <1>4, <1>5 DEF AfterFailure, AfterFirst, AfterSecond, AfterRun, Errors

\* Reading a response keeps the shape of both sides.
LEMMA ResumeTypes == TypeInv /\ Resume => ClientTypeOK' /\ CountInv' /\ RoomInv'
<1> SUFFICES ASSUME TypeInv, Resume PROVE ClientTypeOK' /\ CountInv' /\ RoomInv'
  OBVIOUS
<1>1. PICK m \in replies :
        /\ m.n = call.n /\ replies' = replies \ {m}
        /\ \/ /\ m.result = "snapshot" /\ call.kind = "create"
              /\ ref' = m.snap.id
              /\ SendDescription(m.snap.id, call.op, call.attempt)
              /\ UNCHANGED <<shown, status, error, unrecognized>>
           \/ /\ m.result = "snapshot" /\ call.kind # "create"
              /\ EndCall /\ ApplySnapshot(m.snap)
           \/ /\ m.result # "snapshot"
              /\ AfterFailure(m.result)
        /\ UNCHANGED <<server, lost>>
  BY DEF Resume
<1>2. /\ ClientTypeOK /\ CountInv /\ RoomInv /\ WireInv /\ HookInv
      /\ UNCHANGED <<store, created, accepted, lost>>
  BY <1>1 DEF TypeInv, ClientInv, server
<1>3. Awaiting /\ call \in Call
  BY <1>1, <1>2 DEF WireInv, Awaiting, NoCall, ClientTypeOK
<1>4. m \in Reply /\ m.snap \in Snapshot \cup {NoSnapshot} /\ m.result \in Results
      /\ m.snap.id \in Ids \cup {0}
  BY <1>2 DEF ClientTypeOK, Reply, Snapshot, NoSnapshot
<1>5. CASE /\ call.kind = "create" /\ ref' = m.snap.id
           /\ SendDescription(m.snap.id, call.op, call.attempt)
           /\ UNCHANGED <<shown, status, error, unrecognized>>
           /\ m.result = "snapshot"
  <2>1. call.task = "describe" /\ call.attempt \in {1, 2} /\ call.op \in Numbers
    BY <1>2, <1>3, <1>5 DEF RoomInv, Call
  <2>2. sent + Left(call) <= MaxSent
    BY <1>2, <1>3, <2>1 DEF RoomInv
  <2>3. sent \in Nat /\ MaxSent \in Nat /\ Left(call) = IF call.attempt = 1 THEN 3 ELSE 1
    BY <1>2, <1>5, ClientAssumption DEF Left, ClientTypeOK
  <2>4. m.snap.id # 0
    BY <1>5 DEF TypeInv, ReplyInv, Snapshot, Ids
  <2>5. /\ wire' \subseteq Request /\ sent' \in 0..MaxSent
        /\ call' \in Call /\ CountInv' /\ RoomInv'
    BY <1>2, <1>4, <1>5, <2>1, <2>2, <2>3, <2>4, DescriptionTypes
  <2>6. ClientTypeOK'
    BY <1>1, <1>2, <1>4, <1>5, <2>5 DEF ClientTypeOK
  <2> QED BY <2>5, <2>6
<1>6. CASE EndCall /\ ApplySnapshot(m.snap)
  <2>1. CountInv' /\ RoomInv'
    BY <1>2, <1>6 DEF EndCall, CountInv, RoomInv, Awaiting
  <2>2. ClientTypeOK'
    BY <1>1, <1>2, <1>4, <1>6 DEF EndCall, ClientTypeOK, ApplySnapshot
  <2> QED BY <2>1, <2>2
<1>7. CASE m.result # "snapshot" /\ AfterFailure(m.result)
  BY <1>1, <1>2, <1>3, <1>4, <1>7, FailureTypes DEF ClientTypeOK
<1> QED BY <1>1, <1>5, <1>6, <1>7

\* What the page does keeps the shape of both sides.
LEMMA PageTypes ==
  ASSUME TypeInv, DescribeEvent \/ ConfirmEvent \/ AnswerQuestions \/ ResetSession \/ Reload
  PROVE  ClientTypeOK' /\ CountInv' /\ RoomInv'
<1>1. ClientTypeOK /\ CountInv /\ RoomInv /\ HookInv /\ sent \in Nat /\ MaxSent \in Nat
  BY ClientAssumption DEF TypeInv, ClientInv, HookInv
<1>2. CASE DescribeEvent
  <2>1. /\ StartWorking /\ SendDescription(ref, sent + 1, 1) /\ sent + 4 <= MaxSent
        /\ UNCHANGED <<store, created, accepted, replies, lost>>
    BY <1>2 DEF DescribeEvent, server, Budget
  <2>2. sent + 1 \in Numbers /\ ref \in Ids \cup {0}
    BY <1>1, <2>1 DEF Numbers, ClientTypeOK
  <2>3. sent + 4 <= MaxSent /\ sent + 3 <= MaxSent
    BY <1>1, <2>1
  <2>4. /\ wire' \subseteq Request /\ sent' \in 0..MaxSent
        /\ call' \in Call /\ CountInv' /\ RoomInv'
    BY <1>1, <2>1, <2>2, <2>3, DescriptionTypes
  <2>5. ClientTypeOK'
    BY <1>1, <2>1, <2>4 DEF ClientTypeOK, StartWorking
  <2> QED BY <2>4, <2>5
<1>3. ASSUME NEW kind \in {"event_confirmation", "attribute_answers"},
             NEW step, SendInput(kind, step)
      PROVE  ClientTypeOK' /\ CountInv' /\ RoomInv'
  <2>1. /\ StartWorking /\ Post(kind, ref, sent + 1) /\ sent + 1 <= MaxSent
        /\ UNCHANGED <<store, created, accepted, replies, lost>>
        /\ call' = [n |-> sent + 1, op |-> sent + 1, kind |-> kind, attempt |-> 1,
                    task |-> "run"]
    BY <1>3 DEF SendInput, server, Budget
  <2>2. sent + 1 \in Numbers /\ ref \in Ids \cup {0} /\ kind \in Kinds
    BY <1>1, <2>1 DEF Numbers, ClientTypeOK, Kinds, Inputs
  <2>3. wire' \subseteq Request /\ sent' \in 0..MaxSent /\ CountInv'
    BY <1>1, <2>1, <2>2, PostTypes
  <2>4. call' \in Call /\ call'.task = "run" /\ call'.kind = kind
    BY <2>1, <2>2 DEF Call
  <2>5. RoomInv'
    BY <2>4 DEF RoomInv
  <2>6. ClientTypeOK'
    BY <1>1, <2>1, <2>3, <2>4 DEF ClientTypeOK, StartWorking
  <2> QED BY <2>3, <2>5, <2>6
<1>4. CASE ResetSession
  <2>1. /\ sent + 1 <= MaxSent /\ ~Busy
        /\ ref' = 0 /\ shown' = NoSnapshot
        /\ status' = "idle" /\ error' = "none" /\ unrecognized' = FALSE
        /\ IF ref = 0 THEN UNCHANGED <<wire, sent>> ELSE Post("delete", ref, sent + 1)
        /\ UNCHANGED <<store, created, accepted, call, replies, lost>>
    BY <1>4 DEF ResetSession, server, Budget, MayReset
  <2>2. sent + 1 \in Numbers /\ ref \in Ids \cup {0} /\ "delete" \in Kinds
    BY <1>1, <2>1 DEF Numbers, ClientTypeOK, Kinds
  <2>3. wire' \subseteq Request /\ sent' \in 0..MaxSent /\ CountInv'
    <3>1. CASE ref = 0
      BY <1>1, <2>1, <3>1 DEF ClientTypeOK, CountInv
    <3>2. CASE ref # 0
      BY <1>1, <2>1, <2>2, <3>2, PostTypes
    <3> QED BY <3>1, <3>2
  <2>4. ~Awaiting'
    BY <1>1, <2>1 DEF HookInv, Awaiting
  <2>5. ClientTypeOK'
    BY <1>1, <2>1, <2>3 DEF ClientTypeOK
  <2> QED BY <2>3, <2>4, <2>5 DEF RoomInv
<1>5. CASE Reload
  <2>1. CountInv' /\ ~Awaiting'
    BY <1>1, <1>5 DEF Reload, CountInv, Awaiting, server, net
  <2>2. ClientTypeOK'
    BY <1>1, <1>5 DEF Reload, ClientTypeOK, server, net
  <2> QED BY <2>1, <2>2 DEF RoomInv
<1> QED BY <1>2, <1>3, <1>4, <1>5 DEF ConfirmEvent, AnswerQuestions

\* Answering a request keeps the shape of both sides.
LEMMA ServeTypes ==
  ASSUME TypeInv, NEW n \in Numbers, Serve(n)
  PROVE  ClientTypeOK' /\ CountInv' /\ RoomInv' /\ ReplyInv'
<1>1. /\ ClientTypeOK /\ CountInv /\ RoomInv /\ WireInv /\ ReplyInv
      /\ MaxSent \in Nat /\ sent \in 0..MaxSent /\ created \in Nat
      /\ UNCHANGED <<ref, shown, status, error, unrecognized, call, sent, lost>>
  BY ClientAssumption DEF TypeInv, ClientInv, ClientTypeOK, WireInv, Serve, view
<1>2. PICK q \in wire :
        ServeCreate(q) \/ ServeAdvance(q) \/ Refuse(q) \/ ServeDelete(q)
  BY DEF Serve
<1>3. q \in Request /\ (q.kind \in Inputs => q.id \in Ids)
  BY <1>1 DEF ClientTypeOK, Request, WireInv
<1>4. wire' = wire \ {q}
  BY <1>2 DEF ServeCreate, ServeAdvance, Refuse, ServeDelete, Respond
<1> DEFINE a == Cardinality(wire)
           b == Cardinality(wire')
<1>5. wire' \subseteq Request /\ IsFiniteSet(wire') /\ a \in Nat /\ b \in Nat /\ b = a - 1
  BY <1>1, <1>4, HandledTypes
<1>6. created + a <= sent /\ \A i \in Ids : store[i].version + a <= sent
  BY <1>1 DEF CountInv
<1>7. RoomInv'
  BY <1>1 DEF RoomInv, Awaiting
<1>8. \A i \in Ids : store[i] \in Session /\ store[i].version \in Nat
  BY <1>1 DEF ClientTypeOK, Session
<1>9. ASSUME NEW i \in Ids, NEW s \in Session, s.version + b <= sent,
             store' = [store EXCEPT ![i] = s], created' \in Nat, created' + b <= sent
      PROVE  store' \in [Ids -> Session] /\ created' \in 0..MaxSent /\ CountInv'
  <2> HIDE DEF a, b
  <2>1. created' \in 0..MaxSent
    <3>1. b \in Nat /\ sent \in Nat /\ sent <= MaxSent /\ MaxSent \in Nat
      BY <1>1, <1>5
    <3>2. created' \in Nat /\ created' + b <= sent
      BY <1>9
    <3>3. \A c, d, e, m \in Nat : c + d <= e /\ e <= m => c <= m
      OBVIOUS
    <3>4. created' <= MaxSent
      BY <3>1, <3>2, <3>3
    <3> QED BY <3>1, <3>2, <3>4
  <2>2. store' \in [Ids -> Session]
    BY <1>1, <1>9 DEF ClientTypeOK
  <2>3. \A j \in Ids : store'[j].version + b <= sent
    <3> SUFFICES ASSUME NEW j \in Ids PROVE store'[j].version + b <= sent
      OBVIOUS
    <3>1. CASE j = i
      BY <1>1, <1>9, <3>1 DEF ClientTypeOK
    <3>2. CASE j # i
      <4>1. store'[j] = store[j]
        BY <1>1, <1>9, <3>2 DEF ClientTypeOK
      <4>2. store[j].version + a <= sent /\ store[j].version \in Nat
        BY <1>6, <1>8
      <4> QED BY <1>1, <1>5, <4>1, <4>2
    <3> QED BY <3>1, <3>2
  <2>4. sent' = sent /\ IsFiniteSet(wire')
    BY <1>1, <1>5
  <2> USE DEF b
  <2> QED BY <1>9, <2>1, <2>2, <2>3, <2>4 DEF CountInv
<1>10. ASSUME NEW result \in Results, NEW snap \in Snapshot \cup {NoSnapshot},
              Respond(q, result, snap), result = "snapshot" => snap \in Snapshot
       PROVE  replies' \subseteq Reply /\ ReplyInv'
  <2>1. [n |-> q.n, result |-> result, snap |-> snap] \in Reply
    BY <1>3 DEF Reply, Request
  <2> QED BY <1>1, <1>10, <2>1 DEF Respond, ClientTypeOK, ReplyInv
<1>11. CASE ServeCreate(q)
  <2> DEFINE s == [step |-> "describe", version |-> 0]
  <2>1. /\ created' = created + 1 /\ store' = [store EXCEPT ![created'] = s]
        /\ Respond(q, "snapshot", SnapOf(created', store'[created']))
        /\ accepted' = accepted
    BY <1>11 DEF ServeCreate
  <2>2. created' + b <= sent /\ created' \in Ids /\ created' \in Nat /\ s.version + b <= sent
    <3> HIDE DEF a, b
    <3> QED BY <1>1, <1>5, <1>6, <2>1 DEF Ids
  <2>3. s \in Session
    BY <1>1 DEF Session, Screens
  <2> HIDE DEF s
  <2>4. store' \in [Ids -> Session] /\ created' \in 0..MaxSent /\ CountInv'
    BY <1>9, <2>1, <2>2, <2>3
  <2>5. store'[created'] = s
    BY <1>1, <2>1, <2>2 DEF ClientTypeOK
  <2>6. SnapOf(created', store'[created']) \in Snapshot
    BY <1>1, <2>2, <2>5 DEF SnapOf, Snapshot, Screens, s
  <2>7. replies' \subseteq Reply /\ ReplyInv'
    BY <1>10, <2>1, <2>6 DEF Results
  <2>8. ClientTypeOK'
    BY <1>1, <1>5, <2>1, <2>4, <2>7 DEF ClientTypeOK
  <2> QED BY <1>7, <2>4, <2>7, <2>8
<1>12. CASE ServeAdvance(q)
  <2>1. PICK step \in After(store[q.id].step, q.kind) :
          /\ store' = [store EXCEPT ![q.id] =
                         [step |-> step, version |-> store[q.id].version + 1]]
          /\ Respond(q, "snapshot", SnapOf(q.id, store'[q.id]))
    BY <1>12 DEF ServeAdvance
  <2> DEFINE s == [step |-> step, version |-> store[q.id].version + 1]
  <2>2. q.id \in Ids /\ created' = created
    BY <1>3, <1>12 DEF ServeAdvance
  <2>3. step \in Screens
    BY <2>1 DEF After, Screens
  <2>4. /\ store[q.id].version + 1 \in 0..MaxSent
        /\ store[q.id].version + 1 + b <= sent /\ created + b <= sent
    <3> HIDE DEF a, b
    <3> QED BY <1>1, <1>5, <1>6, <1>8, <2>2
  <2>5. s \in Session /\ s.version + b <= sent
    BY <2>3, <2>4 DEF Session
  <2>6. store' = [store EXCEPT ![q.id] = s]
    BY <2>1
  <2>7. store'[q.id] = s
    BY <1>1, <2>2, <2>6 DEF ClientTypeOK
  <2>8. SnapOf(q.id, store'[q.id]) \in Snapshot
    BY <2>2, <2>3, <2>4, <2>7 DEF SnapOf, Snapshot
  <2> HIDE DEF s
  <2>9. store' \in [Ids -> Session] /\ created' \in 0..MaxSent /\ CountInv'
    BY <1>1, <1>9, <2>2, <2>4, <2>5, <2>6
  <2>10. replies' \subseteq Reply /\ ReplyInv'
    BY <1>10, <2>1, <2>8 DEF Results
  <2>11. accepted' \subseteq Numbers \X Ids
    BY <1>1, <1>3, <1>12, <2>2 DEF ServeAdvance, ClientTypeOK, Request
  <2>12. ClientTypeOK'
    BY <1>1, <1>5, <2>9, <2>10, <2>11 DEF ClientTypeOK
  <2> QED BY <1>7, <2>9, <2>10, <2>12
<1>13. CASE Refuse(q)
  <2>1. PICK result \in Results : Refusal(q, result) /\ Respond(q, result, NoSnapshot)
    BY <1>13 DEF Refuse
  <2>2. result # "snapshot" /\ UNCHANGED <<store, created, accepted>>
    BY <1>13, <2>1 DEF Refusal, Refuse, server
  <2>3. replies' \subseteq Reply /\ ReplyInv'
    BY <1>10, <2>1, <2>2
  <2>4. /\ created' + b <= sent'
        /\ \A i \in Ids : store'[i].version + b <= sent'
    <3> HIDE DEF a, b
    <3> QED BY <1>1, <1>5, <1>6, <1>8, <2>2
  <2>5. CountInv'
    BY <1>5, <2>4 DEF CountInv
  <2>6. ClientTypeOK'
    BY <1>1, <1>5, <2>2, <2>3 DEF ClientTypeOK
  <2> QED BY <1>7, <2>3, <2>5, <2>6
<1>14. CASE ServeDelete(q)
  <2>1. store' = [store EXCEPT ![q.id] = Absent] /\ UNCHANGED <<created, accepted, replies>>
    BY <1>14 DEF ServeDelete
  <2>2. Absent \in Session /\ Absent.version = 0
    BY <1>1 DEF Absent, Session
  <2>3. \A i \in Ids : store'[i] = Absent \/ store'[i] = store[i]
    BY <1>1, <2>1 DEF ClientTypeOK
  <2>4. store' \in [Ids -> Session]
    BY <1>1, <2>1, <2>2 DEF ClientTypeOK
  <2>5. /\ created' + b <= sent'
        /\ \A i \in Ids : store'[i].version + b <= sent'
    <3> HIDE DEF a, b
    <3> QED BY <1>1, <1>5, <1>6, <1>8, <2>1, <2>2, <2>3
  <2>6. CountInv'
    BY <1>5, <2>5 DEF CountInv
  <2>7. ClientTypeOK' /\ ReplyInv'
    BY <1>1, <1>5, <2>1, <2>4 DEF ClientTypeOK, ReplyInv
  <2> QED BY <1>7, <2>6, <2>7
<1> QED BY <1>2, <1>11, <1>12, <1>13, <1>14

\* What the network loses keeps the shape of both sides.
LEMMA LossTypes ==
  ASSUME TypeInv, Lose \/ ConnectionFails \/ DropReply
  PROVE  ClientTypeOK' /\ CountInv' /\ RoomInv'
<1>1. ClientTypeOK /\ CountInv /\ RoomInv /\ MaxSent \in Nat /\ MaxLost \in Nat
  BY ClientAssumption DEF TypeInv
<1>2. CASE Lose
  <2>1. PICK gone : store' = [i \in Ids |-> IF i \in gone THEN Absent ELSE store[i]]
    BY <1>2 DEF Lose
  <2>2. UNCHANGED <<created, accepted, ref, shown, status, error, unrecognized,
                    wire, replies, sent, lost, call>>
    BY <1>2 DEF Lose, view, net
  <2>3. Absent \in Session /\ Absent.version = 0
    BY <1>1 DEF Absent, Session
  <2>4. store' \in [Ids -> Session]
    BY <1>1, <2>1, <2>3 DEF ClientTypeOK
  <2> DEFINE a == Cardinality(wire)
  <2>5. a \in Nat /\ created + a <= sent /\ created \in Nat /\ sent \in Nat
        /\ \A i \in Ids : store[i].version + a <= sent
    BY <1>1, FS_CardinalityType DEF CountInv, ClientTypeOK
  <2>6. \A i \in Ids : store'[i].version + a <= sent
    <3> HIDE DEF a
    <3> QED BY <2>1, <2>3, <2>5
  <2>7. CountInv'
    BY <1>1, <2>2, <2>6 DEF CountInv
  <2>8. ClientTypeOK' /\ RoomInv'
    BY <1>1, <2>2, <2>4 DEF ClientTypeOK, RoomInv, Awaiting
  <2> QED BY <2>7, <2>8
<1>3. CASE ConnectionFails
  <2>1. lost' \in 0..MaxLost /\ UNCHANGED server /\ replies' = replies
    BY <1>1, <1>3 DEF ConnectionFails, ClientTypeOK
  <2>2. "internal_error" \in Results \ {"snapshot"}
    BY DEF Results, Errors
  <2> QED BY <1>3, <2>1, <2>2, FailureTypes DEF ConnectionFails
<1>4. CASE DropReply
  <2>1. CountInv' /\ RoomInv'
    BY <1>1, <1>4 DEF DropReply, CountInv, RoomInv, Awaiting, server
  <2>2. ClientTypeOK'
    BY <1>1, <1>4 DEF DropReply, ClientTypeOK, server, view
  <2> QED BY <2>1, <2>2
<1> QED BY <1>2, <1>3, <1>4

\* What is read is gone, and nothing but an answer is added.
LEMMA RepliesShrink ==
  ASSUME ReplyInv, replies' \subseteq replies
  PROVE  ReplyInv'
BY DEF ReplyInv

\* It holds in every reachable state.
LEMMA TypeInvariant == ClientSpec => []TypeInv
<1>1. ClientInit => TypeInv
  <2> SUFFICES ASSUME ClientInit PROVE TypeInv
    OBVIOUS
  <2>1. ClientInv
    BY DEF ClientInit, ClientInv, WireInv, HookInv, Awaiting, Busy, NoCall
  <2>2. ClientTypeOK
    <3>1. Absent \in Session /\ 0 \in 0..MaxSent /\ 0 \in 0..MaxLost
      BY ClientAssumption DEF Absent, Session
    <3>2. store \in [Ids -> Session]
      BY <3>1 DEF ClientInit
    <3> QED BY <3>1, <3>2 DEF ClientInit, ClientTypeOK
  <2>3. CountInv
    BY FS_EmptySet DEF ClientInit, CountInv, Absent
  <2>4. RoomInv /\ ReplyInv
    BY DEF ClientInit, RoomInv, ReplyInv, Awaiting
  <2> QED BY <2>1, <2>2, <2>3, <2>4 DEF TypeInv
<1>2. TypeInv /\ ClientInv' /\ [ClientNext]_clientVars => TypeInv'
  <2> SUFFICES ASSUME TypeInv, ClientInv', [ClientNext]_clientVars
               PROVE  ClientTypeOK' /\ CountInv' /\ RoomInv' /\ ReplyInv'
    BY DEF TypeInv
  <2>1. CASE UNCHANGED clientVars
    BY <2>1 DEF TypeInv, ClientTypeOK, CountInv, RoomInv, ReplyInv, Awaiting,
                clientVars, server, view, net
  <2>2. CASE DescribeEvent \/ ConfirmEvent \/ AnswerQuestions \/ ResetSession \/ Reload
    <3>1. replies' = replies
      BY <2>2 DEF DescribeEvent, ConfirmEvent, AnswerQuestions, SendInput, ResetSession,
                  Reload, net
    <3> QED BY <2>2, <3>1, PageTypes, RepliesShrink DEF TypeInv
  <2>3. CASE Resume
    <3>1. replies' \subseteq replies
      BY <2>3 DEF Resume
    <3> QED BY <2>3, <3>1, ResumeTypes, RepliesShrink DEF TypeInv
  <2>4. CASE Lose \/ ConnectionFails \/ DropReply
    <3>1. replies' \subseteq replies
      BY <2>4 DEF Lose, ConnectionFails, DropReply, net
    <3> QED BY <2>4, <3>1, LossTypes, RepliesShrink DEF TypeInv
  <2>5. CASE \E n \in Numbers : Serve(n)
    BY <2>5, ServeTypes
  <2> QED BY <2>1, <2>2, <2>3, <2>4, <2>5 DEF ClientNext
<1> QED BY <1>1, <1>2, ClientInvariant, PTL DEF ClientSpec

\* Both sides of a consultation, and what is between them, keep their shape: no
\* description sends more than it has room for (the two attempts of
\* describeEvent).
THEOREM ClientTypeCorrect == ClientSpec => []ClientTypeOK
<1>1. TypeInv => ClientTypeOK
  BY DEF TypeInv
<1> QED BY <1>1, TypeInvariant, PTL

-----------------------------------------------------------------------------
(* One text, one session.                                                   *)

IsText(q) == q.kind = "life_event_text"

\* The text of an operation is neither on its way nor with the server.
Fresh(op) ==
  /\ \A q \in wire : IsText(q) => q.op # op
  /\ \A a \in accepted : a[1] # op

\* The text of an operation is on its way once at most, and not any more when the
\* server has taken it.
TextsInv ==
  /\ \A q \in wire : q.n <= sent /\ q.op <= sent
  /\ \A m \in replies : m.n <= sent
  /\ \A a \in accepted : a[1] <= sent
  /\ \A p, q \in wire : IsText(p) /\ IsText(q) /\ p.op = q.op => p = q
  /\ \A q \in wire : IsText(q) => \A a \in accepted : a[1] # q.op
  /\ DescribedOnce

Refused == \E m \in replies : m.n = call.n /\ m.result # "snapshot"

\* While a description is waiting for its session, or after a refusal, its text
\* is with nobody: sending it once more makes no second one.
CallInv ==
  Awaiting =>
    /\ call.op <= sent
    /\ \A q \in wire : q.n = call.n => q.op = call.op /\ q.kind = call.kind
    /\ call.task = "describe" =>
         /\ call.kind \in {"create", "life_event_text"}
         /\ call.kind = "create" \/ Refused => Fresh(call.op)

OnceInv == TypeInv /\ TextsInv /\ CallInv

\* A request gets a number nobody has seen; a text goes out when it is nowhere.
LEMMA PostOnce ==
  ASSUME TypeInv, TextsInv, NEW kind, NEW id, NEW op \in Numbers, Post(kind, id, op),
         op <= sent + 1, kind = "life_event_text" => Fresh(op),
         UNCHANGED accepted, replies' \subseteq replies
  PROVE  /\ TextsInv' /\ sent' = sent + 1
         /\ \A q \in wire' : q.n = sent' => q.op = op /\ q.kind = kind
         /\ \A m \in replies' : m.n # sent'
         /\ kind # "life_event_text" => \A o : Fresh(o) => Fresh(o)'
<1> DEFINE new == [n |-> sent + 1, op |-> op, kind |-> kind, id |-> id]
<1>1. /\ sent \in Nat /\ op \in Nat
      /\ \A q \in wire : q.n \in Nat /\ q.op \in Nat
      /\ \A m \in replies : m.n \in Nat
      /\ \A a \in accepted : a[1] \in Nat
  BY ClientAssumption
     DEF TypeInv, ClientTypeOK, Request, Reply, Numbers
<1>2. wire' = wire \cup {new} /\ sent' = sent + 1
      /\ new.n = sent + 1 /\ new.op = op /\ new.kind = kind
  BY DEF Post
<1> HIDE DEF new
<1>3. /\ \A q \in wire' : q.n <= sent' /\ q.op <= sent'
      /\ \A m \in replies' : m.n <= sent' /\ m.n # sent'
      /\ \A a \in accepted' : a[1] <= sent'
  BY <1>1, <1>2 DEF TextsInv
<1>4. \A p, q \in wire' : IsText(p) /\ IsText(q) /\ p.op = q.op => p = q
  BY <1>2 DEF TextsInv, Fresh, IsText
<1>5. \A q \in wire' : IsText(q) => \A a \in accepted' : a[1] # q.op
  BY <1>2 DEF TextsInv, Fresh, IsText
<1>6. DescribedOnce'
  BY DEF TextsInv, DescribedOnce
<1>7. \A q \in wire' : q.n = sent' => q.op = op /\ q.kind = kind
  BY <1>1, <1>2 DEF TextsInv
<1>8. kind # "life_event_text" => \A o : Fresh(o) => Fresh(o)'
  BY <1>2 DEF Fresh, IsText
<1> QED BY <1>2, <1>3, <1>4, <1>5, <1>6, <1>7, <1>8 DEF TextsInv

\* An attempt is made for a text that is with nobody.
LEMMA DescriptionOnce ==
  ASSUME TypeInv, TextsInv, NEW id, NEW op \in Numbers, NEW attempt,
         SendDescription(id, op, attempt), op <= sent + 1, Fresh(op),
         UNCHANGED accepted, replies' \subseteq replies
  PROVE  TextsInv' /\ CallInv'
<1> DEFINE kind == IF id = 0 THEN "create" ELSE "life_event_text"
<1>1. Post(kind, id, op) /\ kind \in {"create", "life_event_text"}
  BY DEF SendDescription
<1>2. call'.n = sent + 1 /\ call'.op = op /\ call'.kind = kind
  BY DEF SendDescription
<1> HIDE DEF kind
<1>3. /\ TextsInv' /\ sent' = sent + 1
      /\ \A q \in wire' : q.n = sent' => q.op = op /\ q.kind = kind
      /\ \A m \in replies' : m.n # sent'
      /\ kind # "life_event_text" => \A o : Fresh(o) => Fresh(o)'
  BY <1>1, PostOnce
<1>4. ~Refused'
  BY <1>2, <1>3 DEF Refused
<1>5. kind = "create" => Fresh(op)'
  BY <1>3
<1>6. kind = "create" => Fresh(call.op)'
  BY <1>2, <1>5 DEF Fresh
<1> QED BY <1>1, <1>2, <1>3, <1>4, <1>6 DEF CallInv

\* After a failure the hook sends a text again only when it was refused.
LEMMA FailureOnce ==
  ASSUME OnceInv, Awaiting, NEW r, AfterFailure(r), UNCHANGED accepted,
         replies' \subseteq replies,
         Retried(r) /\ call.task = "describe" => Fresh(call.op)
  PROVE  TextsInv' /\ CallInv'
<1>1. TypeInv /\ TextsInv /\ CallInv
  BY DEF OnceInv
<1>2. CASE EndCall
  <2>1. TextsInv'
    BY <1>1, <1>2 DEF EndCall, TextsInv, DescribedOnce
  <2>2. CallInv'
    BY <1>2 DEF EndCall, CallInv, Awaiting
  <2> QED BY <2>1, <2>2
<1>3. CASE call.task = "describe" /\ Retried(r) /\ SendDescription(0, call.op, 2)
  <2>1. call.op \in Numbers /\ call.op <= sent + 1
    BY <1>1, ClientAssumption DEF TypeInv, ClientTypeOK, Awaiting, Call, CallInv, Numbers
  <2> QED BY <1>1, <1>3, <2>1, DescriptionOnce
<1> QED BY <1>2, <1>3 DEF AfterFailure, AfterFirst, AfterSecond, AfterRun

\* Reading a response: a session is there for the text, or the text was refused.
LEMMA ResumeOnce ==
  ASSUME OnceInv, Resume
  PROVE  TextsInv' /\ CallInv'
<1>1. PICK m \in replies :
        /\ m.n = call.n /\ replies' = replies \ {m}
        /\ \/ /\ m.result = "snapshot" /\ call.kind = "create"
              /\ SendDescription(m.snap.id, call.op, call.attempt)
           \/ /\ m.result = "snapshot" /\ call.kind # "create"
              /\ EndCall
           \/ /\ m.result # "snapshot"
              /\ AfterFailure(m.result)
        /\ UNCHANGED accepted
  BY DEF Resume, server
<1>2. TypeInv /\ TextsInv /\ CallInv /\ Awaiting
  BY <1>1 DEF OnceInv, TypeInv, ClientInv, WireInv, Awaiting, NoCall
<1>3. CASE call.kind = "create" /\ SendDescription(m.snap.id, call.op, call.attempt)
  <2>1. call.op \in Numbers /\ call.op <= sent + 1
    BY <1>2, ClientAssumption DEF TypeInv, ClientTypeOK, Awaiting, Call, CallInv, Numbers
  <2>2. call.task = "describe"
    BY <1>2, <1>3 DEF TypeInv, RoomInv, ClientTypeOK, Awaiting, Call
  <2>3. Fresh(call.op)
    BY <1>2, <1>3, <2>2 DEF CallInv
  <2> QED BY <1>1, <1>2, <1>3, <2>1, <2>3, DescriptionOnce
<1>4. CASE EndCall
  <2>1. TextsInv'
    BY <1>1, <1>2, <1>4 DEF EndCall, TextsInv, DescribedOnce
  <2>2. CallInv'
    BY <1>4 DEF EndCall, CallInv, Awaiting
  <2> QED BY <2>1, <2>2
<1>5. CASE m.result # "snapshot" /\ AfterFailure(m.result)
  <2>1. Refused
    BY <1>1, <1>5 DEF Refused
  <2>2. call.task = "describe" => Fresh(call.op)
    BY <1>2, <2>1 DEF CallInv
  <2> QED BY <1>1, <1>2, <1>5, <2>2, FailureOnce
<1> QED BY <1>1, <1>3, <1>4, <1>5

\* What the page does, under a number that is new.
LEMMA PageOnce ==
  ASSUME OnceInv, DescribeEvent \/ ConfirmEvent \/ AnswerQuestions \/ ResetSession \/ Reload
  PROVE  TextsInv' /\ CallInv'
<1>1. TypeInv /\ TextsInv /\ CallInv /\ HookInv /\ sent \in Nat /\ MaxSent \in Nat
  BY ClientAssumption DEF OnceInv, TypeInv, ClientInv, HookInv
<1>2. Fresh(sent + 1)
  <2>1. /\ \A q \in wire : q.op \in Nat /\ q.op <= sent
        /\ \A a \in accepted : a[1] \in Nat /\ a[1] <= sent
    BY <1>1 DEF TypeInv, ClientTypeOK, Request, Numbers, TextsInv
  <2> QED BY <1>1, <2>1 DEF Fresh
<1>3. sent + 1 <= MaxSent => sent + 1 \in Numbers
  BY <1>1 DEF Numbers
<1>4. CASE DescribeEvent
  <2>1. /\ SendDescription(ref, sent + 1, 1) /\ sent + 1 <= MaxSent
        /\ UNCHANGED <<accepted, replies>>
    BY <1>1, <1>4 DEF DescribeEvent, server, Budget
  <2>2. sent + 1 <= sent + 1 /\ replies' \subseteq replies
    BY <1>1, <2>1
  <2> QED BY <1>1, <1>2, <1>3, <2>1, <2>2, DescriptionOnce
<1>5. ASSUME NEW kind \in {"event_confirmation", "attribute_answers"},
             NEW step, SendInput(kind, step)
      PROVE  TextsInv' /\ CallInv'
  <2>1. /\ Post(kind, ref, sent + 1) /\ sent + 1 <= MaxSent
        /\ UNCHANGED <<accepted, replies>>
        /\ call'.n = sent + 1 /\ call'.op = sent + 1 /\ call'.kind = kind
        /\ call'.task = "run"
    BY <1>5 DEF SendInput, server, Budget
  <2>2. sent + 1 <= sent + 1 /\ replies' \subseteq replies
        /\ kind # "life_event_text"
    BY <1>1, <2>1
  <2>3. /\ TextsInv' /\ sent' = sent + 1
        /\ \A q \in wire' : q.n = sent' => q.op = sent + 1 /\ q.kind = kind
    BY <1>1, <1>3, <2>1, <2>2, PostOnce
  <2>4. CallInv'
    BY <1>1, <2>1, <2>3 DEF CallInv
  <2> QED BY <2>3, <2>4
<1>6. CASE ResetSession
  <2>1. /\ sent + 1 <= MaxSent /\ ~Busy /\ UNCHANGED <<accepted, call, replies>>
        /\ status' = "idle"
        /\ IF ref = 0 THEN UNCHANGED <<wire, sent>> ELSE Post("delete", ref, sent + 1)
    BY <1>6 DEF ResetSession, server, Budget, MayReset
  <2>2. ~Awaiting'
    BY <1>1, <2>1 DEF HookInv, Awaiting
  <2>3. TextsInv'
    <3>1. CASE ref = 0
      BY <1>1, <2>1, <3>1 DEF TextsInv, DescribedOnce
    <3>2. CASE ref # 0
      <4>1. sent + 1 <= sent + 1 /\ replies' \subseteq replies
        BY <1>1, <2>1
      <4> QED BY <1>1, <1>3, <2>1, <3>2, <4>1, PostOnce
    <3> QED BY <3>1, <3>2
  <2> QED BY <2>2, <2>3 DEF CallInv
<1>7. CASE Reload
  <2>1. ~Awaiting' /\ UNCHANGED <<wire, replies, accepted, sent>>
    BY <1>7 DEF Reload, Awaiting, server, net
  <2> QED BY <1>1, <2>1 DEF TextsInv, DescribedOnce, CallInv
<1> QED BY <1>4, <1>5, <1>6, <1>7 DEF ConfirmEvent, AnswerQuestions

\* The server takes a text once; a refusal leaves it nowhere.
LEMMA ServeOnce ==
  ASSUME OnceInv, NEW n \in Numbers, Serve(n)
  PROVE  TextsInv' /\ CallInv'
<1>1. TypeInv /\ TextsInv /\ CallInv /\ UNCHANGED <<call, sent>>
  BY DEF OnceInv, Serve
<1>2. PICK q \in wire :
        ServeCreate(q) \/ ServeAdvance(q) \/ Refuse(q) \/ ServeDelete(q)
  BY DEF Serve
<1>3. wire' = wire \ {q}
  BY <1>2 DEF ServeCreate, ServeAdvance, Refuse, ServeDelete, Respond
<1>4. /\ q.n <= sent /\ q.op <= sent
      /\ \A p \in wire' : IsText(p) /\ IsText(q) => p.op # q.op
      /\ IsText(q) => \A a \in accepted : a[1] # q.op
  BY <1>1, <1>3 DEF TextsInv
<1>5. CASE accepted' = accepted
  <2>0. ASSUME NEW result, NEW snap, Respond(q, result, snap)
        PROVE  \A m \in replies' : m \in replies \/ (m.n = q.n /\ m.result = result)
    BY <2>0 DEF Respond
  <2>1. \A m \in replies' : m \in replies \/ m.n = q.n
    BY <1>2, <2>0 DEF ServeCreate, ServeAdvance, Refuse, ServeDelete
  <2>2. TextsInv'
    BY <1>1, <1>3, <1>4, <1>5, <2>1 DEF TextsInv, DescribedOnce
  <2>3. \A o : Fresh(o) => Fresh(o)'
    BY <1>3, <1>5 DEF Fresh
  <2>4. CASE ~Refuse(q)
    <3>1. \A m \in replies' : m \in replies \/ m.result = "snapshot"
      BY <1>2, <2>0, <2>4 DEF ServeCreate, ServeAdvance, ServeDelete
    <3>2. Refused' => Refused
      BY <1>1, <3>1 DEF Refused
    <3>3. Fresh(call.op) => Fresh(call.op)'
      BY <1>1, <2>3 DEF Fresh
    <3>4. CallInv'
      BY <1>1, <1>3, <3>2, <3>3 DEF CallInv, Awaiting
    <3> QED BY <2>2, <3>4
  <2>5. CASE Refuse(q)
    <3>1. q.kind # "create" /\ \A m \in replies' : m \in replies \/ m.n = q.n
      BY <2>1, <2>5 DEF Refuse, Inputs
    <3>2. ASSUME Awaiting, call.task = "describe", q.n = call.n
          PROVE  Fresh(call.op)'
      <4>1. IsText(q) /\ q.op = call.op
        BY <1>1, <3>1, <3>2 DEF CallInv, IsText
      <4> QED BY <1>1, <1>4, <1>5, <4>1 DEF Fresh
    <3>3. Refused' => Refused \/ q.n = call.n
      BY <1>1, <3>1 DEF Refused
    <3>4. Fresh(call.op) => Fresh(call.op)'
      BY <1>1, <2>3 DEF Fresh
    <3>5. CallInv'
      BY <1>1, <1>3, <3>2, <3>3, <3>4 DEF CallInv, Awaiting
    <3> QED BY <2>2, <3>5
  <2> QED BY <2>4, <2>5
<1>6. CASE /\ IsText(q) /\ accepted' = accepted \cup {<<q.op, q.id>>}
           /\ ServeAdvance(q)
  <2>1. \A m \in replies' : m \in replies \/ (m.n = q.n /\ m.result = "snapshot")
    BY <1>6 DEF ServeAdvance, Respond
  <2>2. \A a \in accepted' : a \in accepted \/ (a[1] = q.op /\ a[2] = q.id)
    BY <1>6
  <2>3. DescribedOnce'
    BY <1>1, <1>4, <1>6, <2>2 DEF TextsInv, DescribedOnce
  <2>4. /\ \A p \in wire' : p.n <= sent' /\ p.op <= sent'
        /\ \A m \in replies' : m.n <= sent'
        /\ \A a \in accepted' : a[1] <= sent'
    BY <1>1, <1>3, <1>4, <2>1, <2>2 DEF TextsInv
  <2>5. /\ \A p, r \in wire' : IsText(p) /\ IsText(r) /\ p.op = r.op => p = r
        /\ \A p \in wire' : IsText(p) => \A a \in accepted' : a[1] # p.op
    BY <1>1, <1>3, <1>4, <1>6, <2>2 DEF TextsInv
  <2>6. TextsInv'
    BY <2>3, <2>4, <2>5 DEF TextsInv
  <2>7. Refused' => Refused
    BY <1>1, <2>1 DEF Refused
  <2>8. Fresh(call.op) => Fresh(call.op)'
    BY <1>1, <1>3, <1>6, <2>2 DEF Fresh
  <2>9. CallInv'
    BY <1>1, <1>3, <2>7, <2>8 DEF CallInv, Awaiting
  <2> QED BY <2>6, <2>9
<1> QED BY <1>2, <1>5, <1>6
    DEF ServeCreate, ServeAdvance, Refuse, ServeDelete, server, IsText

\* It holds in every reachable state.
LEMMA OnceInvariant == ClientSpec => []OnceInv
<1>1. ClientInit /\ TypeInv => OnceInv
  BY DEF ClientInit, OnceInv, TextsInv, CallInv, DescribedOnce, Awaiting
<1>2. OnceInv /\ TypeInv' /\ [ClientNext]_clientVars => OnceInv'
  <2> SUFFICES ASSUME OnceInv, [ClientNext]_clientVars PROVE TextsInv' /\ CallInv'
    BY DEF OnceInv
  <2>1. TextsInv /\ CallInv
    BY DEF OnceInv
  <2>2. CASE UNCHANGED clientVars
    BY <2>1, <2>2 DEF TextsInv, DescribedOnce, CallInv, Awaiting, Refused, Fresh,
                      clientVars, server, net
  <2>3. CASE Lose
    BY <2>1, <2>3 DEF Lose, net, TextsInv, DescribedOnce, CallInv, Awaiting, Refused, Fresh
  <2>4. CASE ConnectionFails
    <3>1. ~Retried("internal_error")
      BY DEF Retried
    <3> QED BY <2>4, <3>1, FailureOnce DEF ConnectionFails, server
  <2>5. CASE DropReply
    <3>1. /\ replies' \subseteq replies
          /\ UNCHANGED <<wire, accepted, sent, call>>
      BY <2>5 DEF DropReply, server
    <3>2. TextsInv'
      BY <2>1, <3>1 DEF TextsInv, DescribedOnce
    <3>3. CallInv'
      BY <2>1, <3>1 DEF CallInv, Awaiting, Refused, Fresh
    <3> QED BY <3>2, <3>3
  <2> QED BY <2>2, <2>3, <2>4, <2>5, ResumeOnce, PageOnce, ServeOnce DEF ClientNext
<1> QED BY <1>1, <1>2, TypeInvariant, PTL DEF ClientSpec

\* The text of a person is kept in one session at most, whatever is lost, comes
\* late or is tried again (describeEvent of useBackendSession.ts).
THEOREM OneTextOneSession == ClientSpec => []DescribedOnce
<1>1. OnceInv => DescribedOnce
  BY DEF OnceInv, TextsInv
<1> QED BY <1>1, OnceInvariant, PTL

=============================================================================
