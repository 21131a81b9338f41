---------------------------- MODULE SessionClient ----------------------------
(***************************************************************************)
(* The browser's side of a consultation: the hook useBackendSession, the      *)
(* calls of sessionClient.ts and the page that offers the actions, against a  *)
(* server reduced to the step each session rests at (module SessionService    *)
(* has the rest of it).  A fetch may fail while the server goes on working on *)
(* the request; sessions expire and are lost by a restart.                    *)
(***************************************************************************)
EXTENDS Naturals

CONSTANTS
  MaxSent,   \* model bound: requests the browser sends altogether
  MaxLost    \* model bound: calls that fail on the network

ASSUME ClientAssumption == MaxSent \in Nat /\ MaxLost \in Nat

Ids == 1..MaxSent     \* session ids in the order of creation, 0 for none
Numbers == 1..MaxSent \* requests in the order they are sent

VARIABLES
  store,        \* [Ids -> session], the server's dictionary
  wire,         \* requests the server has not handled
  replies,      \* responses the browser has not read
  created,      \* sessions created so far
  accepted,     \* <<operation, session>> of every description the server took
  ref, shown,   \* sessionIdRef and the snapshot
  status, error, unrecognized,
  call,         \* the call the hook awaits
  sent, lost

server == <<store, created, accepted>>
view == <<ref, shown, status, error, unrecognized>>
net == <<wire, replies, sent, lost>>
clientVars == <<server, view, net, call>>

\* The steps of deriveUiStep; "result" is whatever asks no more questions, open
\* or closed.
Screens == {"describe", "confirm", "questions", "result", "closed"}
Session == [step : Screens \cup {"absent"}, version : 0..MaxSent]
Absent == [step |-> "absent", version |-> 0]
Snapshot == [id : Ids, step : Screens, version : 0..MaxSent]
NoSnapshot == [id |-> 0, step |-> "describe", version |-> 0]

Inputs == {"life_event_text", "event_confirmation", "attribute_answers"}
Kinds == Inputs \cup {"create", "delete"}
Errors == {"stale", "invalid_transition", "internal_error"}
Request == [n : Numbers, op : Numbers, kind : Kinds, id : Ids \cup {0}]
Results == {"snapshot", "event_not_recognized"} \cup Errors
Reply == [n : Numbers, result : Results, snap : Snapshot \cup {NoSnapshot}]
Call == [n : Numbers, op : Numbers, kind : Kinds, attempt : {1, 2},
         task : {"describe", "run"}]
NoCall == [n |-> 0, op |-> 0, kind |-> "delete", attempt |-> 1, task |-> "run"]

ClientInit ==
  /\ store = [i \in Ids |-> Absent]
  /\ created = 0 /\ accepted = {} /\ wire = {} /\ replies = {}
  /\ ref = 0 /\ shown = NoSnapshot
  /\ status = "idle" /\ error = "none" /\ unrecognized = FALSE
  /\ call = NoCall /\ sent = 0 /\ lost = 0

-----------------------------------------------------------------------------
(* The hook.                                                               *)

Busy == status = "working"
Awaiting == call # NoCall

Post(kind, id, op) ==
  /\ sent' = sent + 1
  /\ wire' = wire \cup {[n |-> sent + 1, op |-> op, kind |-> kind, id |-> id]}

\* createSession when the hook holds no id, advanceSession when it does.
SendDescription(id, op, attempt) ==
  LET kind == IF id = 0 THEN "create" ELSE "life_event_text"
  IN /\ Post(kind, id, op)
     /\ call' = [n |-> sent + 1, op |-> op, kind |-> kind,
                 attempt |-> attempt, task |-> "describe"]

StartWorking ==
  /\ status' = "working" /\ error' = "none" /\ unrecognized' = FALSE
  /\ UNCHANGED <<ref, shown>>

ApplySnapshot(s) ==
  /\ ref' = s.id /\ shown' = s
  /\ status' = "idle" /\ error' = "none" /\ unrecognized' = FALSE

Fail(e) == error' = e /\ status' = "error" /\ UNCHANGED unrecognized
KeepSession == UNCHANGED <<ref, shown>>
ForgetSession == ref' = 0 /\ shown' = NoSnapshot

\* A description nobody understood is not an error: the session stays.
NotRecognised ==
  /\ unrecognized' = TRUE /\ status' = "idle"
  /\ UNCHANGED <<ref, shown, error>>

EndCall == call' = NoCall /\ UNCHANGED <<wire, sent>>

\* Mutant of Retried: a description is sent again after any failure.
RetriedAlways(e) == TRUE

\* The failures describeEvent answers with a new session and a second attempt.
Retried(e) == e \in {"stale", "invalid_transition"}

\* Mutant of AfterSecond: an unrecognised text on the retry is swallowed.
AfterSecondSilently(r) ==
  /\ EndCall
  /\ IF r = "event_not_recognized" THEN UNCHANGED view
     ELSE Fail(r) /\ KeepSession

\* The second attempt ends describeEvent, with the new session still held.
AfterSecond(r) ==
  /\ EndCall
  /\ IF r = "event_not_recognized" THEN NotRecognised
     ELSE Fail(r) /\ KeepSession

AfterFirst(r) ==
  \/ /\ r = "event_not_recognized"
     /\ EndCall /\ NotRecognised
  \/ /\ r \in Errors /\ Retried(r)
     /\ SendDescription(0, call.op, 2)
     /\ ForgetSession
     /\ UNCHANGED <<status, error, unrecognized>>
  \/ /\ r \in Errors /\ ~Retried(r)
     /\ EndCall /\ Fail(r) /\ KeepSession

\* run(): every other input.
AfterRun(r) ==
  /\ EndCall
  /\ \/ r = "event_not_recognized" /\ NotRecognised
     \/ r = "stale" /\ Fail(r) /\ ForgetSession
     \/ r \in Errors \ {"stale"} /\ Fail(r) /\ KeepSession

AfterFailure(r) ==
  \/ call.task = "describe" /\ call.attempt = 1 /\ AfterFirst(r)
  \/ call.task = "describe" /\ call.attempt = 2 /\ AfterSecond(r)
  \/ call.task = "run" /\ AfterRun(r)

\* The awaited fetch answers.
Resume ==
  \E m \in replies :
    /\ m.n = call.n
    /\ replies' = replies \ {m}
    /\ \/ /\ m.result = "snapshot" /\ call.kind = "create"
          /\ ref' = m.snap.id
          /\ SendDescription(m.snap.id, call.op, call.attempt)
          /\ UNCHANGED <<shown, status, error, unrecognized>>
       \/ /\ m.result = "snapshot" /\ call.kind # "create"
          /\ EndCall /\ ApplySnapshot(m.snap)
       \/ /\ m.result # "snapshot"
          /\ AfterFailure(m.result)
    /\ UNCHANGED <<server, lost>>

\* The connection fails; the request may be on its way still.
ConnectionFails ==
  /\ Awaiting /\ lost < MaxLost
  /\ lost' = lost + 1
  /\ AfterFailure("internal_error")
  /\ UNCHANGED <<server, replies>>

\* A response nobody awaits any more.
DropReply ==
  \E m \in replies :
    /\ m.n # call.n
    /\ replies' = replies \ {m}
    /\ UNCHANGED <<server, view, call, wire, sent, lost>>

-----------------------------------------------------------------------------
(* The page.  No action is offered while a call is under way, and none that  *)
(* does not belong to the step on screen.                                    *)

\* Model bound: there is room for the requests one more action may send.
Budget(k) == sent + k <= MaxSent

AtStep == IF shown = NoSnapshot THEN "describe" ELSE shown.step

DescribeEvent ==
  /\ Budget(4) /\ ~Busy /\ AtStep = "describe"
  /\ StartWorking
  /\ SendDescription(ref, sent + 1, 1)
  /\ UNCHANGED <<server, replies, lost>>

\* confirmEvent, and answerFields or answerChatTurn: nothing without a session.
SendInput(kind, step) ==
  /\ Budget(1) /\ ~Busy /\ AtStep = step /\ ref # 0
  /\ StartWorking
  /\ Post(kind, ref, sent + 1)
  /\ call' = [n |-> sent + 1, op |-> sent + 1, kind |-> kind, attempt |-> 1,
              task |-> "run"]
  /\ UNCHANGED <<server, replies, lost>>

ConfirmEvent == SendInput("event_confirmation", "confirm")
AnswerQuestions == SendInput("attribute_answers", "questions")

\* Mutant of MayReset: starting over does not wait for a running call.
MayResetAnytime == status = "error" \/ shown # NoSnapshot

\* The alert of a failure and the gate before the results offer to start over.
MayReset == ~Busy /\ (status = "error" \/ AtStep \in {"result", "closed"})

\* The DELETE is sent and its outcome ignored.
ResetSession ==
  /\ Budget(1) /\ MayReset
  /\ ref' = 0 /\ shown' = NoSnapshot
  /\ status' = "idle" /\ error' = "none" /\ unrecognized' = FALSE
  /\ IF ref = 0 THEN UNCHANGED <<wire, sent>> ELSE Post("delete", ref, sent + 1)
  /\ UNCHANGED <<server, call, replies, lost>>

\* The page is reloaded: the id lives in memory only.
Reload ==
  /\ ref' = 0 /\ shown' = NoSnapshot
  /\ status' = "idle" /\ error' = "none" /\ unrecognized' = FALSE
  /\ call' = NoCall
  /\ UNCHANGED <<server, net>>

-----------------------------------------------------------------------------
(* The server.                                                             *)

Respond(q, result, snap) ==
  /\ wire' = wire \ {q}
  /\ replies' = replies \cup {[n |-> q.n, result |-> result, snap |-> snap]}

SnapOf(i, s) == [id |-> i, step |-> s.step, version |-> s.version]

ServeCreate(q) ==
  /\ q.kind = "create"
  /\ created' = created + 1
  /\ store' = [store EXCEPT ![created'] = [step |-> "describe", version |-> 0]]
  /\ Respond(q, "snapshot", SnapOf(created', store'[created']))
  /\ UNCHANGED accepted

\* Where an accepted input leaves a session: the steps of module Workflow.
After(step, kind) ==
  CASE step \in {"describe", "confirm"} /\ kind = "life_event_text" -> {"confirm"}
    [] step = "confirm" /\ kind = "event_confirmation" ->
         {"describe", "questions", "result", "closed"}
    [] step \in {"questions", "result"} /\ kind = "attribute_answers" ->
         {"questions", "result", "closed"}
    [] OTHER -> {}

ServeAdvance(q) ==
  /\ q.kind \in Inputs /\ store[q.id].step # "absent"
  /\ \E step \in After(store[q.id].step, q.kind) :
       /\ store' = [store EXCEPT ![q.id] = [step |-> step, version |-> @.version + 1]]
       /\ Respond(q, "snapshot", SnapOf(q.id, store'[q.id]))
  /\ accepted' = IF q.kind = "life_event_text"
                 THEN accepted \cup {<<q.op, q.id>>} ELSE accepted
  /\ UNCHANGED created

\* Refusals change nothing.
Refusal(q, result) ==
  \/ result = "stale" /\ store[q.id].step = "absent"
  \/ /\ store[q.id].step # "absent"
     /\ \/ /\ result = "event_not_recognized"
           /\ q.kind = "life_event_text" /\ After(store[q.id].step, q.kind) # {}
        \/ result = "invalid_transition" /\ After(store[q.id].step, q.kind) = {}

Refuse(q) ==
  /\ q.kind \in Inputs
  /\ \E result \in Results :
       Refusal(q, result) /\ Respond(q, result, NoSnapshot)
  /\ UNCHANGED server

ServeDelete(q) ==
  /\ q.kind = "delete"
  /\ store' = [store EXCEPT ![q.id] = Absent]
  /\ wire' = wire \ {q}
  /\ UNCHANGED <<created, accepted, replies>>

Serve(n) ==
  /\ \E q \in wire :
       /\ q.n = n
       /\ ServeCreate(q) \/ ServeAdvance(q) \/ Refuse(q) \/ ServeDelete(q)
  /\ UNCHANGED <<view, call, sent, lost>>

\* Sessions expire one by one and are lost together by a restart.
Lose ==
  /\ \E gone \in {{i} : i \in Ids} \cup {Ids} :
       /\ \E i \in gone : store[i] # Absent
       /\ store' = [i \in Ids |-> IF i \in gone THEN Absent ELSE store[i]]
  /\ UNCHANGED <<created, accepted, view, net, call>>

ClientNext ==
  \/ DescribeEvent \/ ConfirmEvent \/ AnswerQuestions \/ ResetSession \/ Reload
  \/ Resume \/ ConnectionFails \/ DropReply
  \/ (\E n \in Numbers : Serve(n)) \/ Lose

ClientSpec == ClientInit /\ [][ClientNext]_clientVars

\* The server answers what it has received, the browser reads what arrives.
\* Nobody has to act, fail or expire.
FairClientSpec == ClientSpec /\ WF_clientVars(Resume) /\ \A n \in Numbers : WF_clientVars(Serve(n))

-----------------------------------------------------------------------------
(* Properties.                                                             *)

\* Both sides, and what is between them, keep their shape.
ClientTypeOK ==
  /\ store \in [Ids -> Session] /\ created \in 0..MaxSent
  /\ accepted \subseteq Numbers \X Ids
  /\ wire \subseteq Request /\ replies \subseteq Reply
  /\ ref \in Ids \cup {0} /\ shown \in Snapshot \cup {NoSnapshot}
  /\ status \in {"idle", "working", "error"} /\ error \in Errors \cup {"none"}
  /\ unrecognized \in BOOLEAN
  /\ call \in Call \cup {NoCall} /\ sent \in 0..MaxSent /\ lost \in 0..MaxLost

\* What is on screen belongs to the session the next input goes to: an answer
\* is never sent to another consultation than the one that asked for it, not
\* even when responses come late, sessions vanish or the user starts over.
AnswersGoWhereAsked ==
  /\ shown # NoSnapshot => shown.id = ref
  /\ call.task = "run" /\ Awaiting => shown # NoSnapshot

\* One description starts one consultation: the second attempt is made only
\* when the server refused the first, so that the text of a person is never
\* kept in two sessions.
DescribedOnce ==
  \A a, b \in accepted : a[1] = b[1] => a[2] = b[2]

\* The buttons are locked exactly while the hook awaits a response: no path
\* through the failures leaves them locked for good or frees them too early.
LockedWhileAwaiting == Busy <=> Awaiting

\* However calls fail, the page comes out of "working".
CallEnds == Busy ~> ~Busy
=============================================================================
