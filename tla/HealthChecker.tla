--------------------------- MODULE HealthChecker ----------------------------
(***************************************************************************)
(* The health checker of one domain (health_check.rs) with time: a ticker, *)
(* rounds that check the backends one after another, and what they do to   *)
(* the circuit of each backend (load_balancer.rs), which requests use      *)
(* meanwhile.                                                              *)
(*                                                                         *)
(* A tick of the model is a second.  Timers fire in the second in which    *)
(* they are due, and there is no absolute time: last_failure and the       *)
(* ticker's deadline are kept as distances from now.  The methods of the   *)
(* breaker are atomic; CircuitBreaker has their races.                     *)
(***************************************************************************)
EXTENDS Integers

CONSTANTS
  N,              \* number of backends, checked in the order 1 .. N
  Settings,       \* records [interval, timeout] the configuration may hold
  CB_THRESHOLD,
  CB_RESET_SECS

\* interval(0) panics, so a task that runs has a positive interval.
ASSUME HealthAssumption ==
  /\ N \in Nat \ {0}
  /\ Settings \subseteq [interval : Nat \ {0}, timeout : Nat]
  /\ CB_THRESHOLD \in Nat \ {0}
  /\ CB_RESET_SECS \in Nat

VARIABLES
  interval, timeout,   \* HealthCheckConfig, fixed
  due,                 \* seconds to the ticker's deadline; below 0 it is missed
  checking,            \* the backend being checked, 0 while waiting for a tick
  spent,               \* how long its check has taken
  up,                  \* up[b]: the backend answers checks and requests
  failures,            \* failures[b], saturated at CB_THRESHOLD
  elapsed,             \* elapsed[b]: seconds since last_failure, saturated
  circuit_open,
  \* history
  last, secondLast,    \* seconds since the last two rounds began, saturated
  downFor              \* downFor[b]: how long it has been down, saturated

config == <<interval, timeout>>
breaker == <<failures, elapsed, circuit_open>>
history == <<last, secondLast, downFor>>
vars == <<config, due, checking, spent, up, breaker, history>>

Backends == 1 .. N

\* The longest time between two reports on one backend: the checks of a round
\* take up to N timeouts, and rounds that are not late begin an interval apart.
LongestGap == interval + N * timeout

UpTo(bound, n) == IF n > bound THEN bound ELSE n

-----------------------------------------------------------------------------
(* The ticker and the rounds                                               *)

\* Mutant: MissedTickBehavior::Burst, the default.
NextDueBurst == due + interval

\* The first tick is due at once; a missed one fires when it is asked for, and
\* the next is the next of the original schedule (MissedTickBehavior::Skip).
NextDue == IF due = 0 THEN interval ELSE interval - ((-due) % interval)

BeginRound ==
  /\ checking = 0 /\ due <= 0
  /\ checking' = 1
  /\ spent' = 0
  /\ due' = NextDue
  /\ last' = 0
  /\ secondLast' = last
  /\ UNCHANGED <<config, up, breaker, downFor>>

\* On to the next backend, or to waiting for the next tick.
NextCheck ==
  /\ checking' = (checking + 1) % (N + 1)
  /\ spent' = 0
  /\ UNCHANGED <<config, due, up, history>>

\* record_success.
RecordSuccess(b) ==
  /\ failures' = [failures EXCEPT ![b] = 0]
  /\ circuit_open' = [circuit_open EXCEPT ![b] = FALSE]
  /\ UNCHANGED elapsed

\* Mutant: only the failure that opens the circuit is stamped.
RecordFailureStampsOnce(b) ==
  LET f == UpTo(CB_THRESHOLD, failures[b] + 1)
  IN  /\ failures' = [failures EXCEPT ![b] = f]
      /\ elapsed' = [elapsed EXCEPT ![b] = IF circuit_open[b] THEN @ ELSE 0]
      /\ circuit_open' = [circuit_open EXCEPT ![b] = @ \/ f >= CB_THRESHOLD]

\* Mutant: it takes one failure more.
RecordFailureLate(b) ==
  LET f == UpTo(CB_THRESHOLD, failures[b] + 1)
  IN  /\ failures' = [failures EXCEPT ![b] = f]
      /\ elapsed' = [elapsed EXCEPT ![b] = 0]
      /\ circuit_open' = [circuit_open EXCEPT ![b] = @ \/ failures[b] >= CB_THRESHOLD]

\* record_failure.
RecordFailure(b) ==
  LET f == UpTo(CB_THRESHOLD, failures[b] + 1)
  IN  /\ failures' = [failures EXCEPT ![b] = f]
      /\ elapsed' = [elapsed EXCEPT ![b] = 0]
      /\ circuit_open' = [circuit_open EXCEPT ![b] = @ \/ f >= CB_THRESHOLD]

\* A 2xx before the timeout.
CheckPasses ==
  /\ checking \in Backends /\ up[checking]
  /\ RecordSuccess(checking)
  /\ NextCheck

\* An error, another status, or the timeout.
CheckFails ==
  /\ checking \in Backends /\ (~up[checking] \/ spent = timeout)
  /\ RecordFailure(checking)
  /\ NextCheck

-----------------------------------------------------------------------------
(* Requests, backends and time                                             *)

\* A request is answered by b.
Answered(b) ==
  /\ up[b]
  /\ RecordSuccess(b)
  /\ UNCHANGED <<config, due, checking, spent, up, history>>

\* is_healthy finds the circuit open for long enough and lets requests in.
HalfOpen(b) ==
  /\ circuit_open[b] /\ elapsed[b] >= CB_RESET_SECS
  /\ circuit_open' = [circuit_open EXCEPT ![b] = FALSE]
  /\ failures' = [failures EXCEPT ![b] = 0]
  /\ UNCHANGED <<config, due, checking, spent, up, elapsed, history>>

Changes(b) ==
  /\ up' = [up EXCEPT ![b] = ~@]
  /\ downFor' = [downFor EXCEPT ![b] = 0]
  /\ UNCHANGED <<config, due, checking, spent, breaker, last, secondLast>>

Second ==
  /\ IF checking = 0 THEN due > 0 ELSE spent < timeout
  /\ due' = due - 1
  /\ spent' = IF checking = 0 THEN 0 ELSE spent + 1
  /\ elapsed' = [b \in Backends |-> UpTo(CB_RESET_SECS, elapsed[b] + 1)]
  /\ last' = UpTo(interval, last + 1)
  /\ secondLast' = UpTo(interval, secondLast + 1)
  /\ downFor' = [b \in Backends |->
                   IF up[b] THEN 0
                   ELSE UpTo(CB_THRESHOLD * LongestGap + 1, downFor[b] + 1)]
  /\ UNCHANGED <<config, checking, up, failures, circuit_open>>

-----------------------------------------------------------------------------
Init ==
  /\ \E s \in Settings : interval = s.interval /\ timeout = s.timeout
  /\ due = 0
  /\ checking = 0
  /\ spent = 0
  /\ up \in [Backends -> BOOLEAN]
  /\ failures = [b \in Backends |-> 0]
  /\ elapsed = [b \in Backends |-> CB_RESET_SECS]
  /\ circuit_open = [b \in Backends |-> FALSE]
  /\ last = interval
  /\ secondLast = interval
  /\ downFor = [b \in Backends |-> 0]

Next ==
  \/ BeginRound \/ CheckPasses \/ CheckFails
  \/ \E b \in Backends : Answered(b) \/ HalfOpen(b) \/ Changes(b)
  \/ Second

Spec == Init /\ [][Next]_vars

-----------------------------------------------------------------------------
(* Properties                                                              *)

\* Types; the ticker is never later than a round takes.
TypeOK ==
  /\ [interval |-> interval, timeout |-> timeout] \in Settings
  /\ due \in -(N * timeout) .. interval
  /\ checking \in 0 .. N
  /\ spent \in 0 .. timeout
  /\ up \in [Backends -> BOOLEAN]
  /\ failures \in [Backends -> 0 .. CB_THRESHOLD]
  /\ elapsed \in [Backends -> 0 .. CB_RESET_SECS]
  /\ circuit_open \in [Backends -> BOOLEAN]
  /\ last \in 0 .. interval
  /\ secondLast \in 0 .. interval
  /\ downFor \in [Backends -> 0 .. CB_THRESHOLD * LongestGap + 1]

\* With checks that come often enough an open circuit is never old enough for
\* is_healthy to try it again: each failed check of a round renews
\* last_failure, however long the checks before it take.  So once its circuit is
\* open, no request is spent on a backend that keeps failing its checks.
StaysShut ==
  LongestGap < CB_RESET_SECS =>
    \A b \in Backends : circuit_open[b] => elapsed[b] < CB_RESET_SECS

\* Then a backend that is down is shut out after CB_THRESHOLD reports, and
\* stays so.
ShutOutInTime ==
  LongestGap < CB_RESET_SECS =>
    \A b \in Backends : downFor[b] > CB_THRESHOLD * LongestGap => circuit_open[b]

\* After rounds that took longer than the interval the checker does not make
\* up for the missed ones: of three rounds the first and the last begin at
\* least an interval apart (MissedTickBehavior::Skip).
NoCatchingUp == [][checking = 0 /\ checking' = 1 => secondLast >= interval]_vars
=============================================================================
