----------------------------- MODULE RateLimiter -----------------------------
(***************************************************************************)
(* The process-wide rate slot in front of Amazon Bedrock (llm/bedrock.py):    *)
(* request threads call generate_structured, which sleeps for its slot under  *)
(* a lock and then, with the lock released, makes a client and calls.  Time   *)
(* is the monotonic clock in ticks.                                          *)
(***************************************************************************)
EXTENDS Integers, Sequences, FiniteSets

CONSTANTS
  Threads,   \* request threads of the API
  Gap,       \* _MIN_SECONDS_BETWEEN_REQUESTS in ticks
  NoThread,  \* the lock is free
  MaxCalls,  \* model bound: requests to the model
  LastTick   \* model bound: the clock

ASSUME RateAssumption ==
  Gap \in Nat /\ MaxCalls \in Nat /\ LastTick \in Nat /\ NoThread \notin Threads

VARIABLES
  time,
  lock,     \* holder of _rate_lock
  last,     \* _last_request_monotonic
  at,       \* [Threads -> where the thread is]
  entered,  \* [Threads -> now, as read when the lock was taken]
  slots,    \* every stamp that was made, in order
  started   \* when every converse() call was made, in order

rateVars == <<time, lock, last, at, entered, slots, started>>

Where == {"idle", "ready", "sleeping", "granted"}

RateInit ==
  /\ time \in 0..Gap /\ lock = NoThread /\ last = 0
  /\ at = [t \in Threads |-> "idle"]
  /\ entered = [t \in Threads |-> 0]
  /\ slots = <<>> /\ started = <<>>

Move(t, from, to) == at[t] = from /\ at' = [at EXCEPT ![t] = to]

InUse == {t \in Threads : at[t] # "idle"}

\* A task asks the model; the schema check and the request come first.
GenerateStructured(t) ==
  /\ Len(started) + Cardinality(InUse) < MaxCalls
  /\ Move(t, "idle", "ready")
  /\ UNCHANGED <<time, lock, last, entered, slots, started>>

TakeLock(t) ==
  /\ lock = NoThread /\ lock' = t
  /\ Move(t, "ready", "sleeping")
  /\ entered' = [entered EXCEPT ![t] = time]
  /\ UNCHANGED <<time, last, slots, started>>

\* wait = gap - (now - last); a sleep takes at least that long.
Wait(t) == Gap - (entered[t] - last)
SleptEnough(t) == time - entered[t] >= Wait(t)

\* Mutant of Stamp: the time read on entry is stored.
StampOfEntry(t) == entered[t]

\* The clock is read again after the sleep.
Stamp(t) == time

LeaveLock(t) ==
  /\ lock = t /\ SleptEnough(t)
  /\ Move(t, "sleeping", "granted")
  /\ last' = Stamp(t)
  /\ slots' = Append(slots, time)
  /\ lock' = NoThread
  /\ UNCHANGED <<time, entered, started>>

\* The client is created and called whenever the thread gets to it; the call may
\* fail, and its slot is spent all the same.
Converse(t) ==
  /\ Move(t, "granted", "idle")
  /\ started' = Append(started, time)
  /\ UNCHANGED <<time, lock, last, entered, slots>>

Tick ==
  /\ time < LastTick
  /\ time' = time + 1
  /\ UNCHANGED <<lock, last, at, entered, slots, started>>

RateNext ==
  \/ \E t \in Threads :
       GenerateStructured(t) \/ TakeLock(t) \/ LeaveLock(t) \/ Converse(t)
  \/ Tick

RateSpec == RateInit /\ [][RateNext]_rateVars

-----------------------------------------------------------------------------
(* Properties.                                                             *)

\* The lock, the clock and the logs keep their shape.
RateTypeOK ==
  /\ time \in Nat /\ last \in Nat
  /\ lock \in Threads \cup {NoThread}
  /\ at \in [Threads -> Where]
  /\ entered \in [Threads -> Nat]
  /\ slots \in Seq(Nat) /\ started \in Seq(Nat)

Spaced(log) == \A i \in 1..Len(log) - 1 : log[i + 1] - log[i] >= Gap

\* However many threads ask at once, two slots of _wait_for_rate_slot are never
\* closer than the gap, although the clock is read twice and the thread sleeps
\* in between.
SlotsAreSpaced == Spaced(slots)
=============================================================================
