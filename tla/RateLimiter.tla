---------------------------- MODULE RateLimiter -----------------------------
(***************************************************************************)
(* The per-address token bucket (rate_limit.rs) used by concurrent         *)
(* requests.                                                               *)
(*                                                                         *)
(* is_allowed reads the clock first and takes the entry of its bucket      *)
(* second; the entry is locked until it returns.  Between the two any      *)
(* other request of the same address may use the bucket with a later       *)
(* reading, so the readings reach a bucket out of order.                   *)
(*                                                                         *)
(* Time is counted in ticks, TPS to the second, and tokens in units of     *)
(* 1/TPS, so that a tick refills rps units exactly; the code computes in   *)
(* f64, and its rounding is not modelled.                                  *)
(***************************************************************************)
EXTENDS Integers

CONSTANTS
  Tasks,       \* concurrent requests
  IPs,         \* client addresses
  RpsChoices, BurstChoices,  \* what the configuration may say
  TPS,         \* ticks per second: the price of a request in units
  MaxNow       \* bound on the clock

ASSUME LimiterAssumption ==
  /\ RpsChoices \subseteq Nat
  /\ BurstChoices \subseteq Nat
  /\ TPS \in Nat \ {0}
  /\ MaxNow \in Nat

VARIABLES
  rps, burst,      \* RateLimiter::rps and burst, fixed
  now,             \* Instant::now(), monotonic
  pc,              \* where each request is in is_allowed
  ip,              \* the address of each request
  reading,         \* the local `now` of each request
  known,           \* the addresses that have a bucket
  tokens,          \* Bucket::tokens, in units
  last_refill,     \* Bucket::last_refill
  \* history, for each address
  wstart,          \* where the window of observation begins
  granted,         \* requests allowed in the window
  late,            \* how far the readings used in the window lay in the past
                   \* of the bucket, or of the window, in total
  fullAt,          \* the last refill that filled the bucket
  used             \* requests allowed since

bucket == <<known, tokens, last_refill>>
window == <<wstart, granted, late>>
vars == <<rps, burst, now, pc, ip, reading, bucket, window, fullAt, used>>

Times == 0 .. MaxNow
Capacity == burst * TPS

Least(a, b) == IF a <= b THEN a ELSE b
Latest(a, b) == IF a >= b THEN a ELSE b

\* Instant::duration_since saturates: an earlier instant gives zero.
Since(later, earlier) == IF later >= earlier THEN later - earlier ELSE 0

Goto(t, place) == pc' = [pc EXCEPT ![t] = place]

-----------------------------------------------------------------------------
(* is_allowed                                                              *)

\* The early return when rps is 0, or the reading of the clock.
Enter(t, a) ==
  /\ pc[t] = "idle"
  /\ ip' = [ip EXCEPT ![t] = a]
  /\ IF rps = 0
     THEN Goto(t, "allowed") /\ UNCHANGED reading
     ELSE Goto(t, "timed") /\ reading' = [reading EXCEPT ![t] = now]
  /\ UNCHANGED <<rps, burst, now, bucket, window, fullAt, used>>

\* What is in the bucket after the refill; a new bucket is full.
LastRefill(t) == IF ip[t] \in known THEN last_refill[ip[t]] ELSE reading[t]
Lateness(t) == Since(Latest(LastRefill(t), wstart[ip[t]]), reading[t])
Held(t) == IF ip[t] \in known THEN tokens[ip[t]] ELSE Capacity

\* Mutant: the refill is not capped by the burst.
RefilledUncapped(t) == Held(t) + rps * Since(reading[t], LastRefill(t))

Refilled(t) == Least(Capacity, Held(t) + rps * Since(reading[t], LastRefill(t)))

\* Mutant: last_refill is kept when the bucket has been emptied.
UseBucketForgetsTime(t) ==
  /\ pc[t] = "timed"
  /\ LET a == ip[t]
         ok == Refilled(t) >= TPS
     IN  /\ known' = known \cup {a}
         /\ tokens' = [tokens EXCEPT ![a] = IF ok THEN Refilled(t) - TPS ELSE Refilled(t)]
         /\ last_refill' = [last_refill EXCEPT ![a] = LastRefill(t)]
         /\ Goto(t, IF ok THEN "allowed" ELSE "refused")
         /\ late' = [late EXCEPT ![a] = @ + Lateness(t)]
         /\ granted' = [granted EXCEPT ![a] = IF ok THEN @ + 1 ELSE @]
         /\ fullAt' = [fullAt EXCEPT ![a] = IF Refilled(t) = Capacity THEN reading[t] ELSE @]
         /\ used' = [used EXCEPT ![a] = (IF Refilled(t) = Capacity THEN 0 ELSE @)
                                          + (IF ok THEN 1 ELSE 0)]
  /\ UNCHANGED <<rps, burst, now, ip, reading, wstart>>

\* Mutant: a request that is refused pays as much as there is.
UseBucketRefusedPays(t) ==
  /\ pc[t] = "timed"
  /\ LET a == ip[t]
         ok == Refilled(t) >= TPS
     IN  /\ known' = known \cup {a}
         /\ tokens' = [tokens EXCEPT ![a] = IF ok THEN Refilled(t) - TPS ELSE 0]
         /\ last_refill' = [last_refill EXCEPT ![a] = reading[t]]
         /\ Goto(t, IF ok THEN "allowed" ELSE "refused")
         /\ late' = [late EXCEPT ![a] = @ + Lateness(t)]
         /\ granted' = [granted EXCEPT ![a] = IF ok THEN @ + 1 ELSE @]
         /\ fullAt' = [fullAt EXCEPT ![a] = IF Refilled(t) = Capacity THEN reading[t] ELSE @]
         /\ used' = [used EXCEPT ![a] = (IF Refilled(t) = Capacity THEN 0 ELSE @)
                                          + (IF ok THEN 1 ELSE 0)]
  /\ UNCHANGED <<rps, burst, now, ip, reading, wstart>>

\* The bucket's entry: refill, stamp with the request's own reading, take one
\* token if there is one.
UseBucket(t) ==
  /\ pc[t] = "timed"
  /\ LET a == ip[t]
         ok == Refilled(t) >= TPS
     IN  /\ known' = known \cup {a}
         /\ tokens' = [tokens EXCEPT ![a] = IF ok THEN Refilled(t) - TPS ELSE Refilled(t)]
         /\ last_refill' = [last_refill EXCEPT ![a] = reading[t]]
         /\ Goto(t, IF ok THEN "allowed" ELSE "refused")
         /\ late' = [late EXCEPT ![a] = @ + Lateness(t)]
         /\ granted' = [granted EXCEPT ![a] = IF ok THEN @ + 1 ELSE @]
         /\ fullAt' = [fullAt EXCEPT ![a] = IF Refilled(t) = Capacity THEN reading[t] ELSE @]
         /\ used' = [used EXCEPT ![a] = (IF Refilled(t) = Capacity THEN 0 ELSE @)
                                          + (IF ok THEN 1 ELSE 0)]
  /\ UNCHANGED <<rps, burst, now, ip, reading, wstart>>

\* is_allowed returns; a refused request is answered with 429.
Return(t) ==
  /\ pc[t] \in {"allowed", "refused"}
  /\ Goto(t, "idle")
  /\ reading' = [reading EXCEPT ![t] = 0]
  /\ UNCHANGED <<rps, burst, now, ip, bucket, window, fullAt, used>>

Tick ==
  /\ now < MaxNow
  /\ now' = now + 1
  /\ UNCHANGED <<rps, burst, pc, ip, reading, bucket, window, fullAt, used>>

\* History: an observer starts to count the requests of an address.
OpenWindow(a) ==
  /\ wstart' = [wstart EXCEPT ![a] = now]
  /\ granted' = [granted EXCEPT ![a] = 0]
  /\ late' = [late EXCEPT ![a] = 0]
  /\ UNCHANGED <<rps, burst, now, pc, ip, reading, bucket, fullAt, used>>

-----------------------------------------------------------------------------
\* RateLimiter::new.
Init ==
  /\ rps \in RpsChoices
  /\ burst \in BurstChoices
  /\ now = 0
  /\ pc = [t \in Tasks |-> "idle"]
  /\ ip \in [Tasks -> IPs]
  /\ reading = [t \in Tasks |-> 0]
  /\ known = {}
  /\ tokens = [a \in IPs |-> 0]
  /\ last_refill = [a \in IPs |-> 0]
  /\ wstart = [a \in IPs |-> 0]
  /\ granted = [a \in IPs |-> 0]
  /\ late = [a \in IPs |-> 0]
  /\ fullAt = [a \in IPs |-> 0]
  /\ used = [a \in IPs |-> 0]

Next ==
  \/ \E t \in Tasks : (\E a \in IPs : Enter(t, a)) \/ UseBucket(t) \/ Return(t)
  \/ \E a \in IPs : OpenWindow(a)
  \/ Tick

Spec == Init /\ [][Next]_vars

-----------------------------------------------------------------------------
(* Properties                                                              *)

\* Types; a bucket holds between nothing and the burst.
TypeOK ==
  /\ rps \in RpsChoices
  /\ burst \in BurstChoices
  /\ now \in Times
  /\ pc \in [Tasks -> {"idle", "timed", "allowed", "refused"}]
  /\ ip \in [Tasks -> IPs]
  /\ reading \in [Tasks -> 0 .. now]
  /\ known \subseteq IPs
  /\ tokens \in [IPs -> 0 .. Capacity]
  /\ last_refill \in [IPs -> 0 .. now]
  /\ wstart \in [IPs -> 0 .. now]
  /\ granted \in [IPs -> Nat]
  /\ late \in [IPs -> Nat]
  /\ fullAt \in [IPs -> 0 .. now]
  /\ used \in [IPs -> Nat]

\* The ceiling: whenever one begins to count, an address is allowed no more
\* than the burst and what rps adds in that time, plus rps for all the time by
\* which readings reached its bucket late: is_allowed reads the clock before
\* it takes the bucket.
WindowRate ==
  \A a \in IPs :
    granted[a] * TPS <= Capacity + rps * (now - wstart[a] + late[a])

\* The floor: a client that keeps its bucket from filling loses nothing, not
\* even by requests that are refused or overtaken: since the bucket was last
\* full it has been allowed, or still holds, the burst and what rps added.
NothingLost ==
  \A a \in known :
    used[a] * TPS + tokens[a] >= Capacity + rps * (last_refill[a] - fullAt[a])

\* What rate_limit.rs says: tokens refill at rps per second, a bucket holds up
\* to burst.  So from the start no more is allowed than the burst and rps per
\* second.
SustainedRate ==
  \A a \in IPs : wstart[a] = 0 => granted[a] * TPS <= Capacity + rps * now
=============================================================================
