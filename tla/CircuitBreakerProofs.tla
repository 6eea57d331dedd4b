------------------------ MODULE CircuitBreakerProofs ------------------------
(***************************************************************************)
(* Proofs about the circuit breaker, for any number of request tasks and   *)
(* any thresholds.                                                         *)
(*                                                                         *)
(* OpenMeansFailedChecks is not inductive: a circuit may be opened by a    *)
(* store that was decided long before.  The inductive invariant adds who   *)
(* may have which stores pending (Ownership), that the count never exceeds *)
(* the number of failed checks in a row (CountBelowStreak), that a pending *)
(* "open" was decided on enough of them (OpenDecided), and how far a       *)
(* passing check has got (PassingProgress), since it is the last store of  *)
(* record_success that ends the row.                                       *)
(*                                                                         *)
(* ResetsAreDue needs what a task has measured so far (Measured).          *)
(***************************************************************************)
EXTENDS CircuitBreaker, TLAPS

\* Only the checker, and only in record_failure, opens the circuit or stamps
\* it; nobody has stores pending outside a method.
Ownership ==
  /\ \A r \in Requests :
       /\ pending[r] \subseteq {"close", "zero"}
       /\ pc[r] \notin {"resetting", "recording"} => pending[r] = {}
  /\ pc[Checker] = "waiting" => pending[Checker] = {}
  /\ pc[Checker] = "passing" => pending[Checker] \subseteq {"close", "zero"}
  /\ pc[Checker] \in {"counted", "failing"} =>
       pending[Checker] \subseteq {"stamp", "open"}

CountBelowStreak == failures <= streak

OpenDecided == "open" \in pending[Checker] => streak >= CB_THRESHOLD

PassingProgress ==
  pc[Checker] = "passing" =>
    /\ "zero" \in pending[Checker] \/ failures = 0
    /\ "close" \in pending[Checker] \/ ~circuit_open

IInv ==
  /\ TypeOK
  /\ Ownership
  /\ CountBelowStreak
  /\ OpenDecided
  /\ PassingProgress
  /\ OpenMeansFailedChecks

-----------------------------------------------------------------------------
\* Saturated keeps the counter in range and monotone.
LEMMA SaturatedBounds ==
  ASSUME NEW n \in 0..MaxFailures
  PROVE  /\ Saturated(n + 1) \in 0..MaxFailures
         /\ Saturated(n + 1) >= n
         /\ \A m \in 0..MaxFailures : m <= n => Saturated(m + 1) <= Saturated(n + 1)
BY BreakerAssumption DEF Saturated

\* Backend::new and the freshly spawned tasks satisfy the invariant.
LEMMA InitIInv == Init => IInv
<1> SUFFICES ASSUME Init PROVE IInv
  OBVIOUS
<1> USE DEF Init
<1>1. TypeOK
  <2>1. circuit_open \in BOOLEAN /\ probe_ok \in BOOLEAN /\ serving \in BOOLEAN
    BY Zenon
  <2>2. failures \in 0..MaxFailures /\ last_failure \in 0..MaxNow
        /\ now \in Times /\ streak \in 0..MaxFailures
        /\ stamp \in [Actors -> 0..MaxNow]
    BY BreakerAssumption DEF Times
  <2>3. /\ pc \in [Actors -> RequestPC \cup CheckerPC]
        /\ \A r \in Requests : pc[r] \in RequestPC
        /\ pc[Checker] \in CheckerPC
        /\ pending \in [Actors -> SUBSET Stores]
    BY BreakerAssumption DEF Actors, RequestPC, CheckerPC
  <2> QED BY <2>1, <2>2, <2>3 DEF TypeOK
<1>2. Ownership /\ OpenDecided /\ PassingProgress
  BY BreakerAssumption DEF Ownership, OpenDecided, PassingProgress, Actors
<1>3. CountBelowStreak /\ OpenMeansFailedChecks
  BY DEF CountBelowStreak, OpenMeansFailedChecks
<1> QED BY <1>1, <1>2, <1>3 DEF IInv

\* The loads of is_healthy, the outcome of a request and the clock read of
\* record_failure: no atomic is written.
LEMMA ReadsKeepIInv ==
  ASSUME IInv,
         \/ \E r \in Requests : IsHealthyClosed(r) \/ IsHealthyOpen(r) \/ RequestStep(r)
         \/ StampFailure
  PROVE  IInv'
<1> USE BreakerAssumption DEF IInv, TypeOK, Ownership, CountBelowStreak,
       OpenDecided, PassingProgress, OpenMeansFailedChecks, Actors,
       RequestPC, CheckerPC, Stores, Times, Goto
<1>1. ASSUME NEW r \in Requests, IsHealthyClosed(r) PROVE IInv'
  BY <1>1 DEF IsHealthyClosed
<1>2. ASSUME NEW r \in Requests, IsHealthyOpen(r) PROVE IInv'
  BY <1>2 DEF IsHealthyOpen
<1>3. ASSUME NEW r \in Requests, ReadClock(r) PROVE IInv'
  BY <1>3 DEF ReadClock
<1>4. ASSUME NEW r \in Requests, JudgeElapsed(r) PROVE IInv'
  <2>1. CASE WrappingSub(stamp[r], last_failure) >= CB_RESET_SECS
    BY <1>4, <2>1 DEF JudgeElapsed, ResetStores
  <2>2. CASE ~(WrappingSub(stamp[r], last_failure) >= CB_RESET_SECS)
    BY <1>4, <2>2 DEF JudgeElapsed
  <2> QED BY <2>1, <2>2
<1>5. ASSUME NEW r \in Requests, Respond(r) PROVE IInv'
  BY <1>5 DEF Respond, SuccessStores
<1>6. ASSUME NEW r \in Requests, FailSilently(r) PROVE IInv'
  BY <1>6 DEF FailSilently
<1>7. ASSUME StampFailure PROVE IInv'
  BY <1>7 DEF StampFailure
<1> QED BY <1>1, <1>2, <1>3, <1>4, <1>5, <1>6, <1>7 DEF RequestStep

\* The beginning of record_success and of record_failure by the checker.
LEMMA ChecksKeepIInv ==
  ASSUME IInv, CheckPasses \/ CheckFails
  PROVE  IInv'
<1> USE BreakerAssumption DEF IInv, TypeOK, Ownership, CountBelowStreak,
       OpenDecided, PassingProgress, OpenMeansFailedChecks, Actors,
       RequestPC, CheckerPC, Stores, Times, Goto
<1>1. CASE CheckPasses
  BY <1>1 DEF CheckPasses, SuccessStores
<1>2. CASE CheckFails
  <2>1. /\ failures' = Saturated(failures + 1)
        /\ streak' = Saturated(streak + 1)
        /\ failures' \in 0..MaxFailures
        /\ streak' \in 0..MaxFailures
        /\ failures' <= streak'
        /\ streak' >= streak
    BY <1>2, SaturatedBounds DEF CheckFails
  <2>2. "open" \in pending'[Checker] => streak' >= CB_THRESHOLD
    BY <1>2, <2>1 DEF CheckFails, Trips
  <2>3. pending' \in [Actors -> SUBSET Stores] /\ pending'[Checker] \subseteq {"stamp", "open"}
    BY <1>2 DEF CheckFails
  <2> QED BY <1>2, <2>1, <2>2, <2>3 DEF CheckFails
<1> QED BY <1>1, <1>2

\* Every atomic store, whichever task makes it and in whichever order.
LEMMA StoreKeepsIInv ==
  ASSUME IInv, NEW a \in Actors, NEW s \in Stores, Store(a, s)
  PROVE  IInv'
<1> USE BreakerAssumption DEF IInv
<1> DEFINE last == pending[a] = {s}
<1>1. TypeOK'
  <2>1. circuit_open' \in BOOLEAN /\ probe_ok' \in BOOLEAN /\ serving' \in BOOLEAN
    BY DEF TypeOK, Store
  <2>2. /\ failures' \in 0..MaxFailures
        /\ last_failure' \in 0..MaxNow
        /\ now' \in Times
        /\ streak' \in 0..MaxFailures
        /\ stamp' \in [Actors -> 0..MaxNow]
    BY DEF TypeOK, Store, Times
  <2>3. /\ pc' \in [Actors -> RequestPC \cup CheckerPC]
        /\ \A r \in Requests : pc'[r] \in RequestPC
        /\ pc'[Checker] \in CheckerPC
    BY DEF TypeOK, Ownership, Store, Actors, RequestPC, CheckerPC, After
  <2>4. pending' \in [Actors -> SUBSET Stores]
    BY DEF TypeOK, Store
  <2>5. overtaken' \subseteq Requests
    BY DEF TypeOK, Store, Measuring
  <2> QED BY <2>1, <2>2, <2>3, <2>4, <2>5 DEF TypeOK
<1>2. Ownership'
  BY DEF TypeOK, Ownership, Store, Actors, RequestPC, CheckerPC, Stores, After
<1>3. a = Checker /\ pc[a] = "passing" /\ last => failures' = 0 /\ circuit_open' = FALSE
  BY DEF TypeOK, Ownership, PassingProgress, Store, Actors, Stores
<1>4. /\ failures' \in {0, failures}
      /\ streak' \in {0, streak}
      /\ streak' # streak => a = Checker /\ pc[a] = "passing" /\ last
  BY DEF TypeOK, Store, Actors, RequestPC, CheckerPC
<1>5. CountBelowStreak'
  BY <1>3, <1>4 DEF CountBelowStreak, TypeOK
<1>6. OpenDecided'
  <2>1. CASE "open" \in pending'[Checker]
    <3>1. "open" \in pending[Checker] /\ pc[Checker] # "passing"
      BY <2>1 DEF TypeOK, Ownership, Store, Actors
    <3> QED BY <3>1, <1>4 DEF OpenDecided
  <2> QED BY <2>1 DEF OpenDecided
<1>7. PassingProgress'
  <2>1. SUFFICES ASSUME pc'[Checker] = "passing" PROVE PassingProgress'
    BY DEF PassingProgress
  <2>2. pc[Checker] = "passing" /\ s \in {"close", "zero"}
    BY <2>1 DEF TypeOK, Ownership, Store, Actors, RequestPC, After
  <2>3. /\ "zero" \in pending'[Checker] \/ failures' = 0
        /\ "close" \in pending'[Checker] \/ ~circuit_open'
    BY <2>2 DEF TypeOK, PassingProgress, Store, Actors, Stores
  <2> QED BY <2>3 DEF PassingProgress
<1>8. OpenMeansFailedChecks'
  <2>1. SUFFICES ASSUME circuit_open' PROVE streak' >= CB_THRESHOLD
    BY DEF OpenMeansFailedChecks
  <2>2. circuit_open \/ (s = "open" /\ a = Checker)
    BY <2>1 DEF TypeOK, Ownership, Store, Actors, Stores
  <2>3. streak >= CB_THRESHOLD
    BY <2>2 DEF OpenMeansFailedChecks, OpenDecided, Store
  <2>4. streak' = streak
    BY <1>3, <1>4, <2>1
  <2> QED BY <2>3, <2>4
<1> QED BY <1>1, <1>2, <1>5, <1>6, <1>7, <1>8

\* The clock and the backend touch none of the breaker's state.
LEMMA EnvironmentKeepsIInv ==
  ASSUME IInv, Clock \/ BackendChanges \/ UNCHANGED vars
  PROVE  IInv'
<1> USE DEF IInv, Ownership, CountBelowStreak, OpenDecided, PassingProgress,
        OpenMeansFailedChecks
<1>1. CASE Clock
  <2>1. now' \in Times /\ overtaken' \subseteq Requests
    BY <1>1 DEF TypeOK, Clock, Measuring
  <2> QED BY <1>1, <2>1 DEF TypeOK, Clock
<1>2. CASE BackendChanges
  <2>1. probe_ok' \in BOOLEAN /\ serving' \in BOOLEAN
    BY <1>2 DEF TypeOK, BackendChanges
  <2> QED BY <1>2, <2>1 DEF TypeOK, BackendChanges
<1>3. CASE UNCHANGED vars
  BY <1>3 DEF TypeOK, vars
<1> QED BY <1>1, <1>2, <1>3

LEMMA NextIInv == IInv /\ [Next]_vars => IInv'
<1> SUFFICES ASSUME IInv, [Next]_vars PROVE IInv'
  OBVIOUS
<1>1. CASE Next
  BY <1>1, ReadsKeepIInv, ChecksKeepIInv, StoreKeepsIInv, EnvironmentKeepsIInv
     DEF Next, Check
<1>2. CASE UNCHANGED vars
  BY <1>2, EnvironmentKeepsIInv
<1> QED BY <1>1, <1>2

-----------------------------------------------------------------------------
\* The invariant holds throughout, whatever the interleaving of is_healthy,
\* record_success and record_failure and the order of their stores.
THEOREM BreakerInvariant == Spec => []IInv
BY InitIInv, NextIInv, PTL DEF Spec

\* The atomics, the tasks' places and their pending stores keep their types.
THEOREM TypeCorrect == Spec => []TypeOK
<1>1. IInv => TypeOK
  BY DEF IInv
<1> QED BY <1>1, BreakerInvariant, PTL

\* record_failure opens a circuit only on CB_THRESHOLD failed checks in a row,
\* and the circuit is not left open once a check has passed.
THEOREM OpenOnlyOnFailedChecks == Spec => []OpenMeansFailedChecks
<1>1. IInv => OpenMeansFailedChecks
  BY DEF IInv
<1> QED BY <1>1, BreakerInvariant, PTL
-----------------------------------------------------------------------------
(* When is_healthy resets                                                  *)

\* The time a task has measured, or is about to, if nothing has come between:
\* what it read of the clock is at or after the last failure, and not ahead of
\* the clock.
Measured ==
  /\ overtaken \subseteq Measuring
  /\ \A r \in Requests \ overtaken :
       pc[r] = "clocked" => last_failure <= stamp[r] /\ stamp[r] <= now
  /\ ResetsAreDue

\* A task whose place, reading and freshness are as before keeps what it measured.
LEMMA StillMeasured ==
  ASSUME TypeOK, Measured, NEW r \in Requests \ overtaken, now' \in Times,
         pc'[r] = pc[r], stamp'[r] = stamp[r], last_failure' = last_failure,
         now' >= now \/ r \notin Measuring
  PROVE  /\ pc'[r] = "clocked" => last_failure' <= stamp'[r] /\ stamp'[r] <= now'
         /\ pc'[r] = "resetting" => now' - last_failure' >= CB_RESET_SECS
<1>1. /\ last_failure \in Nat /\ stamp[r] \in Nat /\ now \in Nat /\ now' \in Nat
      /\ CB_RESET_SECS \in Nat
  BY BreakerAssumption DEF TypeOK, Actors, Times
<1>2. pc[r] \in {"clocked", "resetting"} => now' >= now
  BY DEF Measuring
<1> QED BY <1>1, <1>2 DEF Measured, ResetsAreDue

\* The steps of is_healthy: the reading, and the comparison.
LEMMA IsHealthyMeasures ==
  ASSUME IInv, Measured, NEW q \in Requests, ReadClock(q) \/ JudgeElapsed(q)
  PROVE  Measured'
<1>0. /\ TypeOK /\ q \in Actors /\ now' = now /\ now \in Times
      /\ last_failure' = last_failure /\ overtaken \subseteq Measuring
  BY DEF IInv, TypeOK, Actors, ReadClock, JudgeElapsed, Measured
<1>1. \A r \in Requests \ {q} : pc'[r] = pc[r] /\ stamp'[r] = stamp[r]
                                /\ (r \in overtaken' <=> r \in overtaken)
  BY <1>0 DEF TypeOK, Actors, ReadClock, JudgeElapsed, Goto
<1>2. now \in Nat /\ last_failure \in Nat /\ stamp[q] \in Nat /\ CB_RESET_SECS \in Nat
      /\ now' \in Times /\ now' >= now
  BY <1>0, BreakerAssumption DEF TypeOK, Times, Actors
<1>3. \A r \in Requests \ {q} : r \notin overtaken' =>
        /\ pc'[r] = "clocked" => last_failure' <= stamp'[r] /\ stamp'[r] <= now'
        /\ pc'[r] = "resetting" => now' - last_failure' >= CB_RESET_SECS
  BY <1>0, <1>1, <1>2, StillMeasured
<1>4. CASE ReadClock(q)
  <2>1. pc'[q] = "clocked" /\ stamp'[q] = now
        /\ (q \notin overtaken' => last_failure <= now)
    BY <1>0, <1>2, <1>4 DEF ReadClock, Goto, TypeOK
  <2>2. overtaken' \subseteq Measuring'
    BY <1>0, <1>1, <1>4, <2>1 DEF Measuring, ReadClock
  <2> QED BY <1>0, <1>2, <1>3, <2>1, <2>2 DEF Measured, ResetsAreDue
<1>5. CASE JudgeElapsed(q)
  <2>1. CASE WrappingSub(stamp[q], last_failure) >= CB_RESET_SECS
    <3>1. pc'[q] = "resetting" /\ overtaken' = overtaken
      BY <1>0, <1>5, <2>1 DEF JudgeElapsed, Goto, TypeOK
    <3>2. q \notin overtaken => now - last_failure >= CB_RESET_SECS
      <4>1. SUFFICES ASSUME q \notin overtaken PROVE now - last_failure >= CB_RESET_SECS
        OBVIOUS
      <4>2. last_failure <= stamp[q] /\ stamp[q] <= now
        BY <1>5, <4>1 DEF Measured, JudgeElapsed
      <4>3. WrappingSub(stamp[q], last_failure) = stamp[q] - last_failure
        BY <1>2, <4>2 DEF WrappingSub
      <4> QED BY <1>2, <2>1, <4>2, <4>3
    <3>3. overtaken' \subseteq Measuring'
      BY <1>0, <1>1, <3>1 DEF Measuring
    <3> QED BY <1>0, <1>3, <3>1, <3>2, <3>3 DEF Measured, ResetsAreDue
  <2>2. CASE ~(WrappingSub(stamp[q], last_failure) >= CB_RESET_SECS)
    <3>1. pc'[q] = "idle" /\ overtaken' = overtaken \ {q}
      BY <1>0, <1>5, <2>2 DEF JudgeElapsed, Goto, TypeOK
    <3>2. overtaken' \subseteq Measuring'
      BY <1>0, <1>1, <3>1 DEF Measuring
    <3> QED BY <1>3, <3>1, <3>2 DEF Measured, ResetsAreDue
  <2> QED BY <2>1, <2>2
<1> QED BY <1>4, <1>5

\* Steps by which no task begins or ends to measure, the clock read of
\* record_failure among them.
LEMMA OthersMeasure ==
  ASSUME IInv, Measured, last_failure' = last_failure, now' = now, overtaken' = overtaken,
         \A r \in Requests :
           \/ pc'[r] = pc[r] /\ stamp'[r] = stamp[r]
           \/ r \notin Measuring /\ r \notin Measuring'
  PROVE  Measured'
<1>1. TypeOK /\ now' \in Times /\ now' >= now /\ overtaken \subseteq Measuring
  BY BreakerAssumption DEF IInv, TypeOK, Times, Measured
<1>2. ASSUME NEW r \in Requests \ overtaken
      PROVE  /\ pc'[r] = "clocked" => last_failure' <= stamp'[r] /\ stamp'[r] <= now'
             /\ pc'[r] = "resetting" => now' - last_failure' >= CB_RESET_SECS
  <2>1. CASE pc'[r] = pc[r] /\ stamp'[r] = stamp[r]
    BY <1>1, <2>1, StillMeasured
  <2>2. CASE r \notin Measuring'
    BY <2>2 DEF Measuring
  <2> QED BY <2>1, <2>2
<1>3. overtaken' \subseteq Measuring'
  BY <1>1 DEF Measuring
<1> QED BY <1>2, <1>3 DEF Measured, ResetsAreDue

\* A stored time makes every measurement in progress old; any other store ends
\* at most the one of the task that makes it.
LEMMA StoresMeasure ==
  ASSUME IInv, Measured, NEW a \in Actors, NEW s \in Stores, Store(a, s)
  PROVE  Measured'
<1>1. /\ TypeOK /\ now' = now /\ now' \in Times /\ now' >= now /\ overtaken \subseteq Measuring
      /\ \A r \in Requests \ {a} : pc'[r] = pc[r] /\ stamp'[r] = stamp[r]
  BY BreakerAssumption DEF IInv, TypeOK, Times, Measured, Store, Actors
<1>2. a \in Requests => pc[a] \in {"resetting", "recording"} /\ s # "stamp"
  BY DEF IInv, Ownership, Store
<1>3. a \in Requests => \/ pc'[a] = pc[a] /\ pending[a] # {s} /\ stamp'[a] = stamp[a]
                        \/ pc'[a] \in {"forwarding", "idle"} /\ pending[a] = {s}
  BY <1>1, <1>2 DEF Store, After, TypeOK
<1>4. overtaken' \subseteq Measuring'
  <2>1. ASSUME NEW r \in overtaken' PROVE r \in Measuring'
    <3>1. r \in Measuring /\ (r = a => pending[a] # {s})
      BY <1>1, <2>1 DEF Store
    <3>2. r \in Requests /\ pc[r] \in {"clocked", "resetting"}
      BY <3>1 DEF Measuring
    <3>3. pc'[r] = pc[r]
      BY <1>1, <1>3, <3>1, <3>2
    <3> QED BY <3>2, <3>3 DEF Measuring
  <2> QED BY <2>1
<1>5. ASSUME NEW r \in Requests \ overtaken'
      PROVE  /\ pc'[r] = "clocked" => last_failure' <= stamp'[r] /\ stamp'[r] <= now'
             /\ pc'[r] = "resetting" => now' - last_failure' >= CB_RESET_SECS
  <2>1. CASE r = a
    <3>1. CASE pending[a] = {s}
      BY <1>3, <2>1, <3>1
    <3>2. CASE pending[a] # {s}
      <4>1. last_failure' = last_failure /\ r \notin overtaken
        BY <1>2, <1>5, <2>1, <3>2 DEF Store
      <4> QED BY <1>1, <1>3, <2>1, <3>2, <4>1, StillMeasured
    <3> QED BY <3>1, <3>2
  <2>2. CASE r # a /\ s = "stamp"
    <3>1. r \notin Measuring /\ pc'[r] = pc[r]
      BY <1>1, <1>5, <2>2 DEF Store
    <3> QED BY <3>1 DEF Measuring
  <2>3. CASE r # a /\ s # "stamp"
    <3>1. last_failure' = last_failure /\ r \notin overtaken
      BY <1>5, <2>3 DEF Store
    <3> QED BY <1>1, <2>3, <3>1, StillMeasured
  <2> QED BY <2>1, <2>2, <2>3
<1> QED BY <1>4, <1>5 DEF Measured, ResetsAreDue

\* Time only adds to what was measured; a clock set back makes it old.
LEMMA ClockMeasures ==
  ASSUME IInv, Measured, Clock
  PROVE  Measured'
<1>1. PICK t \in Times : /\ now' = t
                         /\ overtaken' = IF t < now THEN overtaken \cup Measuring ELSE overtaken
  BY DEF Clock
<1>2. TypeOK /\ pc' = pc /\ stamp' = stamp /\ last_failure' = last_failure
      /\ overtaken \subseteq Measuring /\ t \in Int /\ now \in Int
  BY BreakerAssumption DEF IInv, TypeOK, Clock, Measured, Times
<1>3. overtaken' \subseteq Measuring'
  BY <1>1, <1>2 DEF Measuring
<1>4. ASSUME NEW r \in Requests \ overtaken'
      PROVE  /\ pc'[r] = "clocked" => last_failure' <= stamp'[r] /\ stamp'[r] <= now'
             /\ pc'[r] = "resetting" => now' - last_failure' >= CB_RESET_SECS
  <2>1. r \in Requests \ overtaken /\ (now' >= now \/ r \notin Measuring)
    BY <1>1, <1>2, <1>4
  <2> QED BY <1>1, <1>2, <2>1, StillMeasured
<1> QED BY <1>3, <1>4 DEF Measured, ResetsAreDue

LEMMA NextMeasured == IInv /\ Measured /\ [Next]_vars => Measured'
<1> SUFFICES ASSUME IInv, Measured, [Next]_vars PROVE Measured'
  OBVIOUS
<1>0. pc \in [Actors -> RequestPC \cup CheckerPC] /\ stamp \in [Actors -> 0..MaxNow]
      /\ Requests \subseteq Actors /\ Checker \in Actors /\ Checker \notin Requests
  BY BreakerAssumption DEF IInv, TypeOK, Actors
<1>1. ASSUME NEW q \in Requests, IsHealthyClosed(q) \/ IsHealthyOpen(q)
                                  \/ Respond(q) \/ FailSilently(q)
      PROVE  Measured'
  <2>1. /\ last_failure' = last_failure /\ now' = now /\ overtaken' = overtaken
        /\ stamp' = stamp /\ pc[q] \in {"idle", "forwarding"}
        /\ pc' = [pc EXCEPT ![q] = pc'[q]] /\ pc'[q] \notin {"clocked", "resetting"}
    BY <1>0, <1>1 DEF IsHealthyClosed, IsHealthyOpen, Respond, FailSilently, Goto
  <2>2. \A r \in Requests : \/ pc'[r] = pc[r] /\ stamp'[r] = stamp[r]
                            \/ r \notin Measuring /\ r \notin Measuring'
    BY <1>0, <2>1 DEF Measuring
  <2> QED BY <2>1, <2>2, OthersMeasure
<1>2. ASSUME NEW q \in Requests, ReadClock(q) \/ JudgeElapsed(q) PROVE Measured'
  BY <1>2, IsHealthyMeasures
<1>3. CASE Check
  <2>1. /\ last_failure' = last_failure /\ now' = now /\ overtaken' = overtaken
        /\ \A r \in Requests : pc'[r] = pc[r] /\ stamp'[r] = stamp[r]
    BY <1>0, <1>3 DEF Check, CheckPasses, CheckFails, StampFailure, Goto
  <2> QED BY <2>1, OthersMeasure
<1>4. ASSUME NEW a \in Actors, NEW s \in Stores, Store(a, s) PROVE Measured'
  BY <1>4, StoresMeasure
<1>5. CASE BackendChanges \/ UNCHANGED vars
  <2>1. /\ last_failure' = last_failure /\ now' = now /\ overtaken' = overtaken
        /\ pc' = pc /\ stamp' = stamp
    BY <1>5 DEF BackendChanges, vars
  <2> QED BY <2>1, OthersMeasure
<1> QED BY <1>1, <1>2, <1>3, <1>4, <1>5, ClockMeasures DEF Next, RequestStep

\* is_healthy resets before CB_RESET_SECS have passed since the last failure
\* only if record_failure stored its time, or the clock was set back, while it
\* measured, or it read a clock that was set back before.
THEOREM EarlyOnlyByRace == Spec => []ResetsAreDue
<1>1. Init => Measured
  BY BreakerAssumption DEF Init, Measured, ResetsAreDue, Actors, Measuring
<1>2. Measured => ResetsAreDue
  BY DEF Measured
<1> QED BY <1>1, <1>2, NextMeasured, BreakerInvariant, PTL DEF Spec
=============================================================================
