--------------------------- MODULE CircuitBreaker ---------------------------
(***************************************************************************)
(* The circuit breaker of one backend (load_balancer.rs, struct Backend),  *)
(* at the granularity of its atomic operations.                            *)
(*                                                                         *)
(* Two kinds of tasks share the three atomics failures, last_failure and   *)
(* circuit_open without any lock: the request tasks, which call is_healthy *)
(* in select and record_success when the backend answered, and the one     *)
(* health checker of the domain, which calls record_success or             *)
(* record_failure after each check.  Only the checker calls                *)
(* record_failure: proxy_http and proxy_websocket drop a failed request    *)
(* without a word to the breaker.                                          *)
(*                                                                         *)
(* Every access is Ordering::Relaxed, so the stores a method makes to      *)
(* different atomics become visible in any order (aarch64 is a release     *)
(* target): a method's stores are a set, pending[a], drained one by one.   *)
(***************************************************************************)
EXTENDS Integers

CONSTANTS
  Requests,        \* the request tasks that may pick this backend
  Checker,         \* the health checker of the domain
  CB_THRESHOLD,    \* failures before the circuit opens
  CB_RESET_SECS,   \* seconds before an open circuit may be tried again
  MaxNow,          \* bound on the wall clock
  MaxFailures,     \* the failure counter saturates here: >= CB_THRESHOLD is
                   \* all the code ever asks of it
  U64,             \* 2^64, the modulus of the elapsed-time subtraction
  ClockStepsBack   \* SystemTime may be set back

ASSUME BreakerAssumption ==
  /\ Checker \notin Requests
  /\ CB_THRESHOLD \in Nat \ {0}
  /\ CB_RESET_SECS \in Nat
  /\ MaxNow \in Nat /\ MaxNow >= CB_RESET_SECS
  /\ MaxFailures \in Nat /\ MaxFailures >= CB_THRESHOLD
  /\ U64 \in Nat /\ U64 >= MaxNow + CB_RESET_SECS
  /\ ClockStepsBack \in BOOLEAN

VARIABLES
  failures,        \* Backend::failures
  last_failure,    \* Backend::last_failure
  circuit_open,    \* Backend::circuit_open
  now,             \* what unix_now() returns
  pc,              \* where each task is
  pending,         \* the stores a task's current method still has to make
  stamp,           \* the clock reading a task holds in a local variable
  probe_ok,        \* the backend answers the health path with a 2xx in time
  serving,         \* the backend answers proxied requests
  streak,          \* history: failed checks since the last passed one
  overtaken        \* history: the tasks in is_healthy whose reading of the
                   \* clock a failure or a clock set back has made old

vars == <<failures, last_failure, circuit_open, now, pc, pending, stamp,
          probe_ok, serving, streak, overtaken>>

Actors == Requests \cup {Checker}

RequestPC == {"idle", "loaded", "clocked", "resetting", "forwarding", "recording"}
CheckerPC == {"waiting", "passing", "counted", "failing"}

\* The stores: circuit_open := false, failures := 0, last_failure := stamp,
\* circuit_open := true.
Stores == {"close", "zero", "stamp", "open"}

Saturated(n) == IF n > MaxFailures THEN MaxFailures ELSE n

\* Mutant: both ends of the time are counted.
SubInclusive(a, b) == IF a >= b THEN a - b + 1 ELSE U64 + a - b

\* u64 subtraction in a release build: it wraps.
WrappingSub(a, b) == IF a >= b THEN a - b ELSE U64 + a - b

\* What the clock can read: the epoch is always more than CB_RESET_SECS ago,
\* so a last_failure that was never stored (0) counts as long past.
Times == CB_RESET_SECS..MaxNow

\* Mutant: record_success forgets to close the circuit.
SuccessStoresCountOnly == {"zero"}

\* The stores of record_success, and those of is_healthy when it resets.
SuccessStores == {"close", "zero"}
ResetStores == {"close", "zero"}

\* Mutant: the circuit opens one failure early.
TripsEarly(f) == f + 1 >= CB_THRESHOLD

\* Whether the count fetch_add leaves makes record_failure open the circuit.
Trips(f) == f >= CB_THRESHOLD

\* The tasks between is_healthy's reading of the clock and its last store.
Measuring == {r \in Requests : pc[r] \in {"clocked", "resetting"}}

Goto(a, place) == pc' = [pc EXCEPT ![a] = place]

-----------------------------------------------------------------------------
(* is_healthy, called by a request task while it selects a backend         *)

\* The circuit is closed: the request is admitted without further ado.
IsHealthyClosed(r) ==
  /\ pc[r] = "idle"
  /\ ~circuit_open
  /\ Goto(r, "forwarding")
  /\ UNCHANGED <<failures, last_failure, circuit_open, now, pending, stamp,
                 probe_ok, serving, streak, overtaken>>

IsHealthyOpen(r) ==
  /\ pc[r] = "idle"
  /\ circuit_open
  /\ Goto(r, "loaded")
  /\ UNCHANGED <<failures, last_failure, circuit_open, now, pending, stamp,
                 probe_ok, serving, streak, overtaken>>

\* unix_now() is evaluated before last_failure is loaded.
ReadClock(r) ==
  /\ pc[r] = "loaded"
  /\ Goto(r, "clocked")
  /\ stamp' = [stamp EXCEPT ![r] = now]
  /\ overtaken' = IF last_failure > now THEN overtaken \cup {r} ELSE overtaken
  /\ UNCHANGED <<failures, last_failure, circuit_open, now, pending,
                 probe_ok, serving, streak>>

\* Load last_failure and compare: either refuse, or admit and reset.
JudgeElapsed(r) ==
  /\ pc[r] = "clocked"
  /\ IF WrappingSub(stamp[r], last_failure) >= CB_RESET_SECS
     THEN /\ Goto(r, "resetting")
          /\ pending' = [pending EXCEPT ![r] = ResetStores]
          /\ UNCHANGED overtaken
     ELSE /\ Goto(r, "idle")
          /\ overtaken' = overtaken \ {r}
          /\ UNCHANGED pending
  /\ stamp' = [stamp EXCEPT ![r] = 0]
  /\ UNCHANGED <<failures, last_failure, circuit_open, now, probe_ok,
                 serving, streak>>

-----------------------------------------------------------------------------
(* The outcome of a forwarded request                                      *)

\* The backend answered, whatever the status: record_success.
Respond(r) ==
  /\ pc[r] = "forwarding"
  /\ serving
  /\ Goto(r, "recording")
  /\ pending' = [pending EXCEPT ![r] = SuccessStores]
  /\ UNCHANGED <<failures, last_failure, circuit_open, now, stamp, probe_ok,
                 serving, streak, overtaken>>

\* Mutant: the error path reports a success too.
FailReportsSuccess(r) ==
  /\ pc[r] = "forwarding"
  /\ Goto(r, "recording")
  /\ pending' = [pending EXCEPT ![r] = SuccessStores]
  /\ UNCHANGED <<failures, last_failure, circuit_open, now, stamp, probe_ok,
                 serving, streak, overtaken>>

\* Refused connection, timeout, broken response or a cancelled task: the
\* error leaves through `?` and the breaker hears nothing.
FailSilently(r) ==
  /\ pc[r] = "forwarding"
  /\ Goto(r, "idle")
  /\ UNCHANGED <<failures, last_failure, circuit_open, now, pending, stamp,
                 probe_ok, serving, streak, overtaken>>

-----------------------------------------------------------------------------
(* The health checker                                                      *)

\* A 2xx in time: record_success.
CheckPasses ==
  /\ pc[Checker] = "waiting"
  /\ probe_ok
  /\ Goto(Checker, "passing")
  /\ pending' = [pending EXCEPT ![Checker] = SuccessStores]
  /\ UNCHANGED <<failures, last_failure, circuit_open, now, stamp, probe_ok,
                 serving, streak, overtaken>>

\* Anything else: record_failure.  The fetch_add decides whether the circuit
\* will be opened; the clock is read and the stores are made after it.
CheckFails ==
  /\ pc[Checker] = "waiting"
  /\ ~probe_ok
  /\ LET f == Saturated(failures + 1)
     IN  /\ failures' = f
         /\ pending' = [pending EXCEPT ![Checker] =
                          IF Trips(f) THEN {"stamp", "open"}
                                       ELSE {"stamp"}]
  /\ Goto(Checker, "counted")
  /\ streak' = Saturated(streak + 1)
  /\ UNCHANGED <<last_failure, circuit_open, now, stamp, probe_ok, serving,
                 overtaken>>

\* unix_now() inside record_failure.
StampFailure ==
  /\ pc[Checker] = "counted"
  /\ Goto(Checker, "failing")
  /\ stamp' = [stamp EXCEPT ![Checker] = now]
  /\ UNCHANGED <<failures, last_failure, circuit_open, now, pending,
                 probe_ok, serving, streak, overtaken>>

-----------------------------------------------------------------------------
(* One atomic store of a method in progress; the last one ends the method. *)

After(place) ==
  CASE place = "resetting" -> "forwarding"
    [] place = "recording" -> "idle"
    [] OTHER -> "waiting"

Store(a, s) ==
  /\ s \in pending[a]
  /\ pc[a] # "counted"
  /\ pending' = [pending EXCEPT ![a] = @ \ {s}]
  /\ circuit_open' = CASE s = "close" -> FALSE
                       [] s = "open" -> TRUE
                       [] OTHER -> circuit_open
  /\ failures' = IF s = "zero" THEN 0 ELSE failures
  /\ last_failure' = IF s = "stamp" THEN stamp[a] ELSE last_failure
  /\ pc' = IF pending[a] = {s} THEN [pc EXCEPT ![a] = After(@)] ELSE pc
  /\ stamp' = IF pending[a] = {s} THEN [stamp EXCEPT ![a] = 0] ELSE stamp
  /\ streak' = IF pc[a] = "passing" /\ pending[a] = {s} THEN 0 ELSE streak
  /\ overtaken' = (overtaken \cup IF s = "stamp" THEN Measuring ELSE {})
                    \ (IF pending[a] = {s} THEN {a} ELSE {})
  /\ UNCHANGED <<now, probe_ok, serving>>

-----------------------------------------------------------------------------
(* The environment                                                         *)

\* The wall clock moves on, or is set back.
Clock ==
  /\ \E t \in Times :
       /\ t > now \/ (ClockStepsBack /\ t < now)
       /\ now' = t
       /\ overtaken' = IF t < now THEN overtaken \cup Measuring ELSE overtaken
  /\ UNCHANGED <<failures, last_failure, circuit_open, pc, pending, stamp,
                 probe_ok, serving, streak>>

\* The backend starts or stops passing its checks, or answering requests;
\* the two are independent (a backend may answer every request with a 500).
BackendChanges ==
  /\ \/ probe_ok' = ~probe_ok /\ UNCHANGED serving
     \/ serving' = ~serving /\ UNCHANGED probe_ok
  /\ UNCHANGED <<failures, last_failure, circuit_open, now, pc, pending,
                 stamp, streak, overtaken>>

-----------------------------------------------------------------------------
\* Backend::new: closed, nothing recorded yet.
Init ==
  /\ failures = 0
  /\ last_failure = 0
  /\ circuit_open = FALSE
  /\ now = CB_RESET_SECS
  /\ pc = [a \in Actors |-> IF a = Checker THEN "waiting" ELSE "idle"]
  /\ pending = [a \in Actors |-> {}]
  /\ stamp = [a \in Actors |-> 0]
  /\ probe_ok \in BOOLEAN
  /\ serving \in BOOLEAN
  /\ streak = 0
  /\ overtaken = {}

RequestStep(r) ==
  \/ ReadClock(r)
  \/ JudgeElapsed(r)
  \/ Respond(r)
  \/ FailSilently(r)

Check == CheckPasses \/ CheckFails \/ StampFailure

Next ==
  \/ \E r \in Requests : IsHealthyClosed(r) \/ IsHealthyOpen(r) \/ RequestStep(r)
  \/ Check
  \/ \E a \in Actors : \E s \in Stores : Store(a, s)
  \/ Clock
  \/ BackendChanges

\* A task that has begun goes on (the runtime schedules ready tasks, and both
\* timeouts of proxy_http bound the wait for a backend), and the checker's
\* interval keeps ticking.  New requests and a change of the backend are never
\* owed.
Fairness ==
  /\ \A r \in Requests : WF_vars(RequestStep(r))
  /\ \A a \in Actors : WF_vars(\E s \in Stores : Store(a, s))
  /\ WF_vars(Check)

Spec == Init /\ [][Next]_vars

FairSpec == Spec /\ Fairness

-----------------------------------------------------------------------------
(* Properties                                                              *)

\* Types of the atomics, the tasks' places and their pending stores.
TypeOK ==
  /\ failures \in 0..MaxFailures
  /\ last_failure \in 0..MaxNow
  /\ circuit_open \in BOOLEAN
  /\ now \in Times
  /\ pc \in [Actors -> RequestPC \cup CheckerPC]
  /\ \A r \in Requests : pc[r] \in RequestPC
  /\ pc[Checker] \in CheckerPC
  /\ pending \in [Actors -> SUBSET Stores]
  /\ stamp \in [Actors -> 0..MaxNow]
  /\ probe_ok \in BOOLEAN
  /\ serving \in BOOLEAN
  /\ streak \in 0..MaxFailures
  /\ overtaken \subseteq Requests

\* A circuit is open only while at least CB_THRESHOLD checks in a row have
\* failed (record_failure): no race of record_failure with is_healthy and
\* record_success, and no reordering of their stores, opens it on less.
OpenMeansFailedChecks == circuit_open => streak >= CB_THRESHOLD

\* is_healthy admits a request through an open circuit, and closes it, only
\* CB_RESET_SECS after the last failure, unless a failure was stored or the
\* clock set back after it read the clock, or what it read was before the last
\* failure: these are all the ways to the early reset of NoEarlyReset.
ResetsAreDue ==
  \A r \in Requests \ overtaken :
    pc[r] = "resetting" => now - last_failure >= CB_RESET_SECS

\* A backend that passes its checks for good ends with its circuit closed for
\* good (record_success by the checker): no late store of an earlier failure
\* or of a request task can leave it open.
Recovery == <>[]probe_ok => <>[]~circuit_open

\* A backend that fails its checks for good and answers nobody is shut out
\* again and again: however often is_healthy half-opens the circuit and resets
\* the count, it opens again.
Detection == <>[](~probe_ok /\ ~serving) => []<>circuit_open

\* What is_healthy says of the reset: an open circuit is closed, unless by a
\* success, only CB_RESET_SECS after the last failure.
NoEarlyReset ==
  [][circuit_open /\ ~circuit_open' =>
       \/ \E a \in Actors : pc[a] \in {"recording", "passing"} /\ pending'[a] # pending[a]
       \/ now - last_failure >= CB_RESET_SECS]_vars
=============================================================================
