-------------------------- MODULE HealthCheckerProofs -------------------------
(***************************************************************************)
(* Proofs about the health checker, for any number of backends and any     *)
(* interval, timeout, threshold and reset time.  The argument is a bound   *)
(* on the time since a backend's last report that depends on where the     *)
(* round is: reports on one backend are never more than LongestGap apart,  *)
(* whether the round before kept to the interval or outlasted it.          *)
(***************************************************************************)
EXTENDS HealthChecker, TLAPS

\* The last report on b may be x seconds old, or a little less than that.
\* Between rounds it is at most as old as the round that is over, and if a tick
\* was missed that round lasted for the checks after b and no longer.  In a
\* round the checks before this one come on top.
Within(b, x) ==
  IF checking = 0
  THEN IF due >= 0 THEN x <= interval - due ELSE x <= (N - b) * timeout
  ELSE IF b < checking
  THEN x <= (checking - 1 - b) * timeout + spent /\ x <= interval - due
  ELSE \/ x <= interval + (checking - 1) * timeout + spent
       \/ x <= (N - b) * timeout + (checking - 1) * timeout + spent

\* How far a round may be behind its ticker.
Ticker ==
  /\ checking = 0 => spent = 0
  /\ checking # 0 => due >= 1 - ((checking - 1) * timeout + spent)

\* The ticker's deadline lies after the last round's beginning, and an interval
\* after that of the one before.
Rounds ==
  /\ last = interval \/ last + due >= 1
  /\ secondLast = interval \/ secondLast + due >= interval

\* The age of an open circuit, and the time a backend has been down without
\* being shut out: each failed check accounts for one gap at most.
Told(b) ==
  /\ circuit_open[b] => Within(b, elapsed[b])
  /\ up[b] => downFor[b] = 0
  /\ ~circuit_open[b] => failures[b] < CB_THRESHOLD
  /\ LongestGap < CB_RESET_SECS /\ ~up[b] /\ ~circuit_open[b] =>
       \E x \in Nat : Within(b, x) /\ downFor[b] <= failures[b] * LongestGap + x

IInv == TypeOK /\ Ticker /\ Rounds /\ \A b \in Backends : Told(b)

-----------------------------------------------------------------------------
(* Arithmetic                                                              *)

LEMMA Products ==
  ASSUME NEW t \in Nat, NEW i \in Int, NEW j \in Int
  PROVE  /\ i * t \in Int
         /\ (i + j) * t = i * t + j * t
         /\ i >= 0 => i * t >= 0
         /\ i <= j => i * t <= j * t
         /\ (i + 1) * t = i * t + t
<1>1. i * t \in Int /\ (i + j) * t = i * t + j * t /\ (i + 1) * t = i * t + t
  BY SMTT(20)
<1>2. \A k \in Nat : k * t >= 0
  BY SMTT(20)
<1>3. i >= 0 => i * t >= 0
  BY <1>2
<1>4. i <= j => i * t <= j * t
  <2> SUFFICES ASSUME i <= j PROVE i * t <= j * t
    OBVIOUS
  <2>1. PICK k \in Nat : k = j - i
    OBVIOUS
  <2>2. j * t = i * t + k * t /\ j * t \in Int /\ k * t \in Int
    BY <2>1, SMTT(20)
  <2> QED BY <1>1, <1>2, <2>2
<1> QED BY <1>1, <1>3, <1>4

LEMMA Remainder ==
  ASSUME NEW i \in Nat \ {0}, NEW k \in Nat
  PROVE  k % i \in 0 .. i - 1 /\ k % i <= k
<1>1. k = i * (k \div i) + (k % i) /\ k % i \in 0 .. i - 1 /\ k \div i \in Nat
  BY SMTT(20)
<1>2. i * (k \div i) >= 0 /\ i * (k \div i) \in Int
  BY <1>1, SMTT(20)
<1> QED BY <1>1, <1>2

\* The constants and the configuration are numbers.
LEMMA Numbers ==
  ASSUME TypeOK
  PROVE  /\ N \in Nat \ {0} /\ CB_THRESHOLD \in Nat \ {0} /\ CB_RESET_SECS \in Nat
         /\ interval \in Nat \ {0} /\ timeout \in Nat
         /\ checking \in 0 .. N /\ spent \in 0 .. timeout /\ due \in Int
         /\ LongestGap \in Nat /\ N * timeout \in Nat
         /\ LongestGap = interval + N * timeout
<1>1. PICK s \in Settings : s = [interval |-> interval, timeout |-> timeout]
  BY DEF TypeOK
<1>2. s.interval = interval /\ s.timeout = timeout
  BY <1>1
<1>3. interval \in Nat \ {0} /\ timeout \in Nat
  BY <1>1, <1>2, HealthAssumption
<1>4. N \in Nat \ {0} /\ CB_THRESHOLD \in Nat \ {0} /\ CB_RESET_SECS \in Nat
  BY HealthAssumption
<1>5. N * timeout \in Nat
  BY <1>3, <1>4, Products
<1>6. LongestGap \in Nat /\ LongestGap = interval + N * timeout
  BY <1>3, <1>5 DEF LongestGap
<1>7. due \in Int /\ checking \in 0 .. N /\ spent \in 0 .. timeout
  BY <1>3, <1>5 DEF TypeOK
<1> QED BY <1>3, <1>4, <1>5, <1>6, <1>7

-----------------------------------------------------------------------------
(* The time since a report                                                 *)

\* A report that is just in is within bounds, and none is older than a gap.
LEMMA WithinBounds ==
  ASSUME TypeOK, Ticker, NEW b \in Backends, NEW x \in Nat
  PROVE  /\ Within(b, 0)
         /\ Within(b, x) => x <= LongestGap
         /\ \A y \in Nat : y <= x /\ Within(b, x) => Within(b, y)
<1>1. /\ N \in Nat \ {0} /\ interval \in Nat \ {0} /\ timeout \in Nat
      /\ checking \in 0 .. N /\ spent \in 0 .. timeout /\ due \in Int /\ b \in 1 .. N
      /\ LongestGap = interval + N * timeout /\ due <= interval
  BY Numbers DEF Backends, TypeOK
<1>2. PICK n, c, r, d :
        /\ n = N * timeout /\ c = (checking - 1) * timeout /\ r = (N - b) * timeout
        /\ d = (checking - 1 - b) * timeout
  OBVIOUS
<1>3. n \in Nat /\ c \in Int /\ r \in Nat /\ d \in Int /\ r <= n
  BY <1>1, <1>2, Products
<1>4. checking # 0 => c >= 0 /\ c + timeout <= n
  <2> SUFFICES ASSUME checking # 0 PROVE c >= 0 /\ c + timeout <= n
    OBVIOUS
  <2>1. c >= 0 /\ (checking - 1 + 1) * timeout = c + timeout
    BY <1>1, <1>2, Products
  <2>2. checking * timeout <= N * timeout /\ checking - 1 + 1 = checking
    BY <1>1, Products
  <2> QED BY <1>2, <2>1, <2>2
<1>5. checking # 0 /\ b < checking => d >= 0 /\ d <= c
  BY <1>1, <1>2, Products
<1>6. checking # 0 /\ b >= checking => r + c + timeout <= n
  <2> SUFFICES ASSUME checking # 0, b >= checking PROVE r + c + timeout <= n
    OBVIOUS
  <2>1. ((N - b) + (checking - 1)) * timeout = r + c
    BY <1>1, <1>2, Products
  <2>2. ((N - b) + (checking - 1) + 1) * timeout = r + c + timeout
    BY <1>1, <2>1, Products
  <2>3. (N - b) + (checking - 1) + 1 <= N /\ (N - b) + (checking - 1) + 1 \in Int
    BY <1>1
  <2>4. ((N - b) + (checking - 1) + 1) * timeout <= N * timeout
    BY <1>1, <2>3, Products
  <2> QED BY <1>2, <2>2, <2>4
<1>7. \A y : Within(b, y) <=>
               IF checking = 0
               THEN IF due >= 0 THEN y <= interval - due ELSE y <= r
               ELSE IF b < checking
               THEN y <= d + spent /\ y <= interval - due
               ELSE y <= interval + c + spent \/ y <= r + c + spent
  BY <1>2 DEF Within
<1>8. Within(b, 0)
  BY <1>1, <1>3, <1>4, <1>5, <1>7
<1>9. Within(b, x) => x <= LongestGap
  <2> SUFFICES ASSUME Within(b, x) PROVE x <= interval + n
    BY <1>1, <1>2
  <2>1. CASE checking = 0
    BY <1>1, <1>3, <1>7, <2>1
  <2>2. CASE checking # 0 /\ b < checking
    BY <1>1, <1>3, <1>4, <1>5, <1>7, <2>2
  <2>3. CASE checking # 0 /\ b >= checking
    BY <1>1, <1>3, <1>4, <1>6, <1>7, <2>3
  <2> QED BY <1>1, <2>1, <2>2, <2>3
<1>10. ASSUME NEW y \in Nat, y <= x, Within(b, x) PROVE Within(b, y)
  BY <1>1, <1>3, <1>7, <1>10
<1> QED BY <1>8, <1>9, <1>10

\* A second passes.
LEMMA WithinSecond ==
  ASSUME TypeOK, Second, NEW b \in Backends, NEW x \in Nat, Within(b, x),
         NEW y \in Nat, y <= x + 1
  PROVE  Within(b, y)'
<1>1. /\ interval \in Nat /\ timeout \in Nat /\ checking \in 0 .. N /\ spent \in 0 .. timeout
      /\ due \in Int /\ N \in Nat /\ b \in 1 .. N
  BY Numbers DEF Backends
<1>2. /\ UNCHANGED <<interval, timeout, checking>> /\ due' = due - 1
      /\ checking = 0 => due > 0
      /\ checking # 0 => spent' = spent + 1
  BY DEF Second, config
<1>3. PICK c, r, d :
        /\ c = (checking - 1) * timeout /\ r = (N - b) * timeout
        /\ d = (checking - 1 - b) * timeout
  OBVIOUS
<1>4. c \in Int /\ r \in Int /\ d \in Int
  BY <1>1, <1>3, Products
<1>5. IF checking = 0
      THEN IF due >= 0 THEN x <= interval - due ELSE x <= r
      ELSE IF b < checking
      THEN x <= d + spent /\ x <= interval - due
      ELSE x <= interval + c + spent \/ x <= r + c + spent
  BY <1>3 DEF Within
<1>6. IF checking = 0
      THEN IF due' >= 0 THEN y <= interval - due' ELSE y <= r
      ELSE IF b < checking
      THEN y <= d + spent' /\ y <= interval - due'
      ELSE y <= interval + c + spent' \/ y <= r + c + spent'
  BY <1>1, <1>2, <1>4, <1>5
<1> QED BY <1>2, <1>3, <1>6 DEF Within

\* A round begins.
LEMMA WithinBegin ==
  ASSUME TypeOK, BeginRound, NEW b \in Backends, NEW x \in Nat, Within(b, x)
  PROVE  Within(b, x)'
<1>1. interval \in Nat /\ timeout \in Nat /\ due \in Int /\ N \in Nat /\ b \in 1 .. N
  BY Numbers DEF Backends
<1>2. /\ UNCHANGED <<interval, timeout>> /\ checking = 0 /\ due <= 0
      /\ checking' = 1 /\ spent' = 0
  BY DEF BeginRound, config
<1>3. (checking' - 1) * timeout = 0
  <2>1. checking' - 1 = 0
    BY <1>2
  <2>2. 0 * timeout = 0
    BY <1>1, SMTT(20)
  <2> QED BY <2>1, <2>2
<1>4. PICK r \in Int : r = (N - b) * timeout
  BY <1>1, Products
<1>5. x <= interval \/ x <= r
  BY <1>1, <1>2, <1>4 DEF Within
<1>6. x <= interval + 0 + spent' \/ x <= r + 0 + spent'
  BY <1>1, <1>2, <1>4, <1>5
<1>7. checking' # 0 /\ ~(b < checking')
  BY <1>1, <1>2
<1> QED BY <1>2, <1>3, <1>4, <1>6, <1>7 DEF Within

\* A check is over: that of b itself is a report, the others take their time.
LEMMA WithinNext ==
  ASSUME TypeOK, Ticker, checking \in Backends, NextCheck, NEW b \in Backends,
         NEW x \in Nat, b = checking => x = 0, b # checking => Within(b, x)
  PROVE  Within(b, x)'
<1>1. /\ interval \in Nat \ {0} /\ timeout \in Nat /\ checking \in 1 .. N
      /\ spent \in 0 .. timeout /\ due \in Int /\ N \in Nat \ {0} /\ b \in 1 .. N
      /\ due <= interval
  BY Numbers DEF Backends, TypeOK
<1>2. UNCHANGED <<interval, timeout, due>> /\ spent' = 0
  BY DEF NextCheck, config
<1>3. checking' = IF checking = N THEN 0 ELSE checking + 1
  <2>1. CASE checking = N
    <3>1. (N + 1) % (N + 1) = 0
      BY <1>1, SMTT(20)
    <3> QED BY <2>1, <3>1 DEF NextCheck
  <2>2. CASE checking # N
    <3>1. checking + 1 \in 0 .. N
      BY <1>1, <2>2
    <3>2. \A n \in Nat : \A m \in 0 .. n : m % (n + 1) = m
      BY SMTT(20)
    <3> QED BY <1>1, <2>2, <3>1, <3>2 DEF NextCheck
  <2> QED BY <2>1, <2>2
<1>4. PICK c, r, d :
        /\ c = (checking - 1) * timeout /\ r = (N - b) * timeout
        /\ d = (checking - 1 - b) * timeout
  OBVIOUS
<1>5. c \in Int /\ r \in Nat /\ d \in Int
  BY <1>1, <1>4, Products
<1>6. c + timeout = checking * timeout /\ d + timeout = (checking - b) * timeout /\ c >= 0
  <2>1. (checking - 1 + 1) * timeout = c + timeout /\ (checking - 1 - b + 1) * timeout = d + timeout
    BY <1>1, <1>4, Products
  <2>2. checking - 1 + 1 = checking /\ checking - 1 - b + 1 = checking - b
    BY <1>1
  <2> QED BY <1>1, <1>4, <2>1, <2>2, Products
<1>7. CASE checking = N
  <2>1. checking' = 0
    BY <1>3, <1>7
  <2>2. x <= r /\ x <= interval - due
    <3>1. CASE b = checking
      BY <1>1, <1>5, <3>1
    <3>2. CASE b # checking
      <4>1. x <= d + spent /\ x <= interval - due
        BY <1>1, <1>4, <1>7, <3>2 DEF Within
      <4>2. d + timeout = r
        BY <1>4, <1>6, <1>7
      <4> QED BY <1>1, <1>5, <4>1, <4>2
    <3> QED BY <3>1, <3>2
  <2> QED BY <1>2, <1>4, <2>1, <2>2 DEF Within
<1>8. CASE checking # N
  <2>1. checking' = checking + 1 /\ checking' # 0
    BY <1>1, <1>3, <1>8
  <2>2. checking' - 1 = checking /\ checking' - 1 - b = checking - b
    BY <1>1, <2>1
  <2>3. CASE b = checking
    <3>1. x <= (checking - b) * timeout + 0 /\ x <= interval - due
      <4>1. (checking - b) * timeout >= 0 /\ (checking - b) * timeout \in Int
        BY <1>1, <2>3, Products
      <4> QED BY <1>1, <2>3, <4>1
    <3>2. b < checking'
      BY <1>1, <2>1, <2>3
    <3> QED BY <1>2, <2>1, <2>2, <3>1, <3>2 DEF Within
  <2>4. CASE b < checking
    <3>1. x <= d + spent /\ x <= interval - due
      BY <1>1, <1>4, <2>4 DEF Within
    <3>2. x <= (checking - b) * timeout + 0 /\ b < checking'
      BY <1>1, <1>5, <1>6, <2>1, <2>4, <3>1
    <3> QED BY <1>2, <2>1, <2>2, <3>1, <3>2 DEF Within
  <2>5. CASE b > checking
    <3>1. x <= interval + c + spent \/ x <= r + c + spent
      BY <1>1, <1>4, <2>5 DEF Within
    <3>2. ~(b < checking')
      BY <1>1, <2>1, <2>5
    <3>3. \/ x <= interval + checking * timeout + 0
          \/ x <= (N - b) * timeout + checking * timeout + 0
      BY <1>1, <1>4, <1>5, <1>6, <3>1
    <3> QED BY <1>2, <2>1, <2>2, <3>2, <3>3 DEF Within
  <2> QED BY <1>1, <2>3, <2>4, <2>5
<1> QED BY <1>7, <1>8

-----------------------------------------------------------------------------
(* The ticker                                                              *)

\* The next deadline is within an interval, and an interval after the last.
LEMMA NextDueBounds ==
  ASSUME TypeOK, due <= 0
  PROVE  NextDue \in 1 .. interval /\ NextDue >= interval + due
<1>1. interval \in Nat \ {0} /\ due \in Int
  BY Numbers
<1>2. CASE due = 0
  BY <1>1, <1>2 DEF NextDue
<1>3. CASE due # 0
  <2>1. -due \in Nat
    BY <1>1
  <2>2. (-due) % interval \in 0 .. interval - 1 /\ (-due) % interval <= -due
    BY <1>1, <2>1, Remainder
  <2>3. NextDue = interval - ((-due) % interval)
    BY <1>3 DEF NextDue
  <2> QED BY <1>1, <2>2, <2>3
<1> QED BY <1>2, <1>3

LEMMA BeginKeepsIInv == IInv /\ BeginRound => IInv'
<1> SUFFICES ASSUME IInv, BeginRound PROVE IInv'
  OBVIOUS
<1>1. /\ TypeOK /\ Rounds /\ interval \in Nat \ {0} /\ timeout \in Nat /\ due \in Int
      /\ N \in Nat \ {0} /\ last \in 0 .. interval /\ N * timeout \in Nat
  BY Numbers DEF IInv, TypeOK
<1>2. /\ checking = 0 /\ due <= 0 /\ checking' = 1 /\ spent' = 0 /\ due' = NextDue
      /\ last' = 0 /\ secondLast' = last
      /\ UNCHANGED <<interval, timeout, up, failures, elapsed, circuit_open, downFor>>
  BY DEF BeginRound, config, breaker
<1>3. due' \in 1 .. interval /\ due' >= interval + due
  BY <1>1, <1>2, NextDueBounds
<1>4. TypeOK'
  <2>1. /\ due' \in -(N * timeout) .. interval /\ checking' \in 0 .. N
        /\ spent' \in 0 .. timeout /\ last' \in 0 .. interval /\ secondLast' \in 0 .. interval
    BY <1>1, <1>2, <1>3
  <2> QED BY <1>1, <1>2, <2>1 DEF TypeOK, LongestGap
<1>5. Ticker'
  <2>1. (checking' - 1) * timeout = 0
    <3>1. checking' - 1 = 0
      BY <1>2
    <3>2. 0 * timeout = 0
      BY <1>1, SMTT(20)
    <3> QED BY <3>1, <3>2
  <2>2. checking' # 0 /\ due' >= 1 - (0 + spent')
    BY <1>1, <1>2, <1>3
  <2> QED BY <1>2, <2>1, <2>2 DEF Ticker
<1>6. Rounds'
  BY <1>1, <1>2, <1>3 DEF Rounds
<1>7. ASSUME NEW b \in Backends PROVE Told(b)'
  <2>1. Told(b) /\ elapsed[b] \in Nat
    <3>1. elapsed[b] \in 0 .. CB_RESET_SECS /\ CB_RESET_SECS \in Nat
      BY <1>1, Numbers DEF TypeOK
    <3> QED BY <3>1 DEF IInv
  <2>2. \A x \in Nat : Within(b, x) => Within(b, x)'
    BY <1>1, WithinBegin
  <2>3. circuit_open'[b] => Within(b, elapsed[b])'
    <3>1. PICK e \in Nat : e = elapsed[b]
      BY <2>1
    <3>2. circuit_open[b] => Within(b, e)'
      BY <2>1, <2>2, <3>1 DEF Told
    <3> QED BY <1>2, <3>1, <3>2 DEF Within
  <2>4. LongestGap' = LongestGap
    BY <1>2 DEF LongestGap
  <2> QED BY <1>2, <2>1, <2>2, <2>3, <2>4 DEF Told
<1> QED BY <1>4, <1>5, <1>6, <1>7 DEF IInv

LEMMA SecondKeepsIInv == IInv /\ Second => IInv'
<1> SUFFICES ASSUME IInv, Second PROVE IInv'
  OBVIOUS
<1>1. /\ TypeOK /\ Rounds /\ Ticker /\ interval \in Nat \ {0} /\ timeout \in Nat
      /\ due \in Int /\ due <= interval
      /\ N \in Nat \ {0} /\ CB_THRESHOLD \in Nat /\ CB_RESET_SECS \in Nat
      /\ last \in 0 .. interval /\ secondLast \in 0 .. interval
      /\ checking \in 0 .. N /\ spent \in 0 .. timeout
      /\ N * timeout \in Nat /\ LongestGap \in Nat
  BY Numbers DEF IInv, TypeOK
<1>2. /\ UNCHANGED <<interval, timeout, checking, up, failures, circuit_open>>
      /\ due' = due - 1
      /\ checking = 0 => due > 0 /\ spent' = 0
      /\ checking # 0 => spent < timeout /\ spent' = spent + 1
      /\ elapsed' = [b \in Backends |-> UpTo(CB_RESET_SECS, elapsed[b] + 1)]
      /\ last' = UpTo(interval, last + 1)
      /\ secondLast' = UpTo(interval, secondLast + 1)
      /\ downFor' = [b \in Backends |->
                       IF up[b] THEN 0
                       ELSE UpTo(CB_THRESHOLD * LongestGap + 1, downFor[b] + 1)]
  BY DEF Second, config
<1>3. PICK bound \in Nat : bound = CB_THRESHOLD * LongestGap + 1
  BY <1>1, Products
<1>4. PICK c \in Int, n \in Nat : c = (checking - 1) * timeout /\ n = N * timeout
  BY <1>1, Products
<1>5. checking # 0 => c >= 0 /\ c + timeout <= n
  <2> SUFFICES ASSUME checking # 0 PROVE c >= 0 /\ c + timeout <= n
    OBVIOUS
  <2>1. c >= 0
    BY <1>1, <1>4, Products
  <2>2. (checking - 1 + 1) * timeout = c + timeout
    BY <1>1, <1>4, Products
  <2>3. checking * timeout <= n /\ checking - 1 + 1 = checking
    BY <1>1, <1>4, Products
  <2> QED BY <2>1, <2>2, <2>3
<1>6. checking # 0 => due >= 1 - (c + spent)
  <2>1. c + spent = (checking - 1) * timeout + spent
    BY <1>4
  <2> QED BY <1>1, <2>1 DEF Ticker
<1>7. TypeOK'
  <2>1. /\ due' \in -n .. interval /\ spent' \in 0 .. timeout
        /\ last' \in 0 .. interval /\ secondLast' \in 0 .. interval
    <3>1. due' >= -n /\ due' <= interval /\ due' \in Int
      BY <1>1, <1>2, <1>4, <1>5, <1>6
    <3>2. last' \in 0 .. interval /\ secondLast' \in 0 .. interval
      BY <1>1, <1>2 DEF UpTo
    <3> QED BY <1>1, <1>2, <3>1, <3>2
  <2>2. elapsed' \in [Backends -> 0 .. CB_RESET_SECS]
    BY <1>1, <1>2 DEF TypeOK, UpTo
  <2>3. downFor' \in [Backends -> 0 .. bound]
    BY <1>1, <1>2, <1>3 DEF TypeOK, UpTo
  <2>4. LongestGap' = LongestGap
    BY <1>2 DEF LongestGap
  <2> QED BY <1>1, <1>2, <1>3, <1>4, <2>1, <2>2, <2>3, <2>4 DEF TypeOK
<1>8. Ticker'
  <2>1. checking # 0 => due' >= 1 - (c + spent')
    BY <1>1, <1>2, <1>6
  <2>2. c + spent' = (checking - 1) * timeout + spent'
    BY <1>4
  <2> QED BY <1>2, <2>1, <2>2 DEF Ticker
<1>9. Rounds'
  BY <1>1, <1>2 DEF Rounds, UpTo
<1>10. ASSUME NEW b \in Backends PROVE Told(b)'
  <2>1. /\ Told(b) /\ elapsed[b] \in Nat /\ downFor[b] \in Nat /\ failures[b] \in Nat
        /\ failures[b] * LongestGap \in Nat
    <3>1. /\ elapsed[b] \in 0 .. CB_RESET_SECS /\ downFor[b] \in 0 .. bound
          /\ failures[b] \in 0 .. CB_THRESHOLD
      BY <1>1, <1>3 DEF TypeOK
    <3>2. failures[b] * LongestGap \in Nat
      <4>1. failures[b] \in Nat /\ failures[b] \in Int /\ failures[b] >= 0
        BY <1>1, <3>1
      <4> QED BY <1>1, <4>1, Products
    <3> QED BY <1>1, <3>1, <3>2 DEF IInv
  <2>2. LongestGap' = LongestGap
    BY <1>2 DEF LongestGap
  <2>3. circuit_open'[b] => Within(b, elapsed[b])'
    <3>1. PICK e \in Nat : e = elapsed'[b] /\ e <= elapsed[b] + 1
      <4>1. /\ UpTo(CB_RESET_SECS, elapsed[b] + 1) \in Nat
            /\ UpTo(CB_RESET_SECS, elapsed[b] + 1) <= elapsed[b] + 1
        BY <1>1, <2>1 DEF UpTo
      <4> QED BY <1>2, <4>1
    <3>2. circuit_open[b] => Within(b, e)'
      BY <1>1, <2>1, <3>1, WithinSecond DEF Told
    <3> QED BY <1>2, <3>1, <3>2 DEF Within
  <2>4. up'[b] => downFor'[b] = 0
    BY <1>2
  <2>5. ~circuit_open'[b] => failures'[b] < CB_THRESHOLD
    BY <1>2, <2>1 DEF Told
  <2>6. ASSUME LongestGap < CB_RESET_SECS, ~up[b], ~circuit_open[b]
        PROVE  \E x \in Nat : Within(b, x)' /\ downFor'[b] <= failures[b] * LongestGap + x
    <3>1. PICK x \in Nat : Within(b, x) /\ downFor[b] <= failures[b] * LongestGap + x
      BY <2>1, <2>6 DEF Told
    <3>2. Within(b, x + 1)' /\ x + 1 \in Nat
      <4>1. PICK y \in Nat : y = x + 1
        OBVIOUS
      <4>2. Within(b, y)'
        BY <1>1, <3>1, <4>1, WithinSecond
      <4> QED BY <4>1, <4>2
    <3>3. downFor'[b] <= downFor[b] + 1
      <4>1. downFor'[b] = UpTo(bound, downFor[b] + 1)
        BY <1>2, <1>3, <2>6
      <4> QED BY <1>3, <2>1, <4>1 DEF UpTo
    <3>4. downFor'[b] \in Nat
      BY <1>2, <1>3, <2>1, <2>6 DEF UpTo
    <3>5. downFor'[b] <= failures[b] * LongestGap + (x + 1)
      BY <2>1, <3>1, <3>3, <3>4
    <3> QED BY <3>2, <3>5
  <2> QED BY <1>2, <2>2, <2>3, <2>4, <2>5, <2>6 DEF Told
<1> QED BY <1>7, <1>8, <1>9, <1>10 DEF IInv

\* The end of a check leaves the ticker alone.
LEMMA NextKeepsTicker ==
  ASSUME TypeOK, Ticker, Rounds, checking \in Backends, NextCheck
  PROVE  Ticker' /\ Rounds' /\ checking' \in 0 .. N /\ spent' = 0
<1>1. /\ interval \in Nat \ {0} /\ timeout \in Nat /\ checking \in 1 .. N
      /\ spent \in 0 .. timeout /\ due \in Int /\ N \in Nat \ {0}
  BY Numbers DEF Backends
<1>2. /\ UNCHANGED <<interval, timeout, due, last, secondLast>> /\ spent' = 0
      /\ checking' = (checking + 1) % (N + 1)
  BY DEF NextCheck, config, history
<1>3. checking' \in 0 .. N /\ (checking' # 0 => checking' = checking + 1)
  <2>1. CASE checking = N
    <3>1. (N + 1) % (N + 1) = 0
      BY <1>1, SMTT(20)
    <3> QED BY <1>1, <1>2, <2>1, <3>1
  <2>2. CASE checking # N
    <3>1. checking + 1 \in 0 .. N
      BY <1>1, <2>2
    <3>2. \A n \in Nat : \A m \in 0 .. n : m % (n + 1) = m
      BY SMTT(20)
    <3> QED BY <1>1, <1>2, <2>2, <3>1, <3>2
  <2> QED BY <2>1, <2>2
<1>4. Rounds'
  BY <1>2 DEF Rounds
<1>5. checking' # 0 => due' >= 1 - ((checking' - 1) * timeout + spent')
  <2> SUFFICES ASSUME checking' # 0
               PROVE  due' >= 1 - ((checking' - 1) * timeout + spent')
    OBVIOUS
  <2>1. PICK c \in Int : c = (checking - 1) * timeout
    BY <1>1, Products
  <2>2. checking * timeout = c + timeout
    <3>1. (checking - 1 + 1) * timeout = c + timeout
      BY <1>1, <2>1, Products
    <3>2. checking - 1 + 1 = checking
      BY <1>1
    <3> QED BY <3>1, <3>2
  <2>3. due >= 1 - (c + spent)
    BY <1>1, <2>1 DEF Ticker
  <2>4. due' >= 1 - ((c + timeout) + spent')
    BY <1>1, <1>2, <2>1, <2>3
  <2>5. checking' - 1 = checking
    BY <1>1, <1>3
  <2> QED BY <2>2, <2>4, <2>5
<1> QED BY <1>2, <1>3, <1>4, <1>5 DEF Ticker

-----------------------------------------------------------------------------
(* Checks                                                                  *)

\* What a report on another backend leaves of Told.
LEMMA OthersAreTold ==
  ASSUME TypeOK, Ticker, checking \in Backends, NextCheck,
         NEW b \in Backends, b # checking, Told(b),
         elapsed'[b] = elapsed[b], failures'[b] = failures[b],
         circuit_open'[b] = circuit_open[b]
  PROVE  Told(b)'
<1>1. UNCHANGED <<interval, timeout, up, downFor>>
  BY DEF NextCheck, config, history
<1>2. \A x \in Nat : Within(b, x) => Within(b, x)'
  BY WithinNext
<1>3. circuit_open'[b] => Within(b, elapsed[b])'
  <2>1. PICK e \in Nat : e = elapsed[b]
    BY Numbers DEF TypeOK
  <2>2. circuit_open[b] => Within(b, e)'
    BY <1>2, <2>1 DEF Told
  <2> QED BY <2>1, <2>2 DEF Within
<1>4. LongestGap' = LongestGap
  BY <1>1 DEF LongestGap
<1> QED BY <1>1, <1>2, <1>3, <1>4 DEF Told

LEMMA PassKeepsIInv == IInv /\ CheckPasses => IInv'
<1> SUFFICES ASSUME IInv, CheckPasses PROVE IInv'
  OBVIOUS
<1>1. /\ TypeOK /\ Ticker /\ Rounds /\ checking \in Backends /\ up[checking]
      /\ NextCheck /\ RecordSuccess(checking) /\ \A b \in Backends : Told(b)
  BY DEF IInv, CheckPasses
<1>2. Ticker' /\ Rounds' /\ checking' \in 0 .. N /\ spent' = 0
  BY <1>1, NextKeepsTicker
<1>3. /\ UNCHANGED <<interval, timeout, due, up, last, secondLast, downFor, elapsed>>
      /\ failures' = [failures EXCEPT ![checking] = 0]
      /\ circuit_open' = [circuit_open EXCEPT ![checking] = FALSE]
  BY <1>1 DEF NextCheck, RecordSuccess, config, history
<1>4. /\ CB_THRESHOLD \in Nat \ {0} /\ timeout \in Nat
      /\ failures \in [Backends -> 0 .. CB_THRESHOLD]
      /\ circuit_open \in [Backends -> BOOLEAN]
  BY <1>1, Numbers DEF TypeOK
<1>5. TypeOK'
  <2>1. failures' \in [Backends -> 0 .. CB_THRESHOLD]
    <3>1. 0 \in 0 .. CB_THRESHOLD
      BY <1>4
    <3> QED BY <1>3, <1>4, <3>1, Zenon
  <2>2. circuit_open' \in [Backends -> BOOLEAN]
    BY <1>3, <1>4, Zenon
  <2>3. spent' \in 0 .. timeout
    BY <1>2, <1>4
  <2>4. LongestGap' = LongestGap
    BY <1>3 DEF LongestGap
  <2> QED BY <1>1, <1>2, <1>3, <2>1, <2>2, <2>3, <2>4 DEF TypeOK
<1>6. ASSUME NEW b \in Backends PROVE Told(b)'
  <2>1. CASE b = checking
    <3>1. ~circuit_open'[b] /\ failures'[b] = 0
      BY <1>1, <1>3, <1>4, <2>1
    <3>2. up'[b] /\ downFor'[b] = 0
      BY <1>1, <1>3, <2>1 DEF Told
    <3> QED BY <1>4, <3>1, <3>2 DEF Told
  <2>2. CASE b # checking
    <3>1. /\ elapsed'[b] = elapsed[b] /\ failures'[b] = failures[b]
          /\ circuit_open'[b] = circuit_open[b]
      BY <1>3, <1>4, <2>2
    <3> QED BY <1>1, <2>2, <3>1, OthersAreTold
  <2> QED BY <2>1, <2>2
<1> QED BY <1>2, <1>5, <1>6 DEF IInv

LEMMA FailKeepsIInv == IInv /\ CheckFails => IInv'
<1> SUFFICES ASSUME IInv, CheckFails PROVE IInv'
  OBVIOUS
<1>1. /\ TypeOK /\ Ticker /\ Rounds /\ checking \in Backends
      /\ NextCheck /\ RecordFailure(checking) /\ \A b \in Backends : Told(b)
  BY DEF IInv, CheckFails
<1>2. Ticker' /\ Rounds' /\ checking' \in 0 .. N /\ spent' = 0
  BY <1>1, NextKeepsTicker
<1>3. PICK f : f = UpTo(CB_THRESHOLD, failures[checking] + 1)
  OBVIOUS
<1>4. /\ UNCHANGED <<interval, timeout, due, up, last, secondLast, downFor>>
      /\ failures' = [failures EXCEPT ![checking] = f]
      /\ elapsed' = [elapsed EXCEPT ![checking] = 0]
      /\ circuit_open' = [circuit_open EXCEPT ![checking] = @ \/ f >= CB_THRESHOLD]
  BY <1>1, <1>3 DEF NextCheck, RecordFailure, config, history
<1>5. /\ CB_THRESHOLD \in Nat \ {0} /\ CB_RESET_SECS \in Nat /\ timeout \in Nat
      /\ failures \in [Backends -> 0 .. CB_THRESHOLD]
      /\ elapsed \in [Backends -> 0 .. CB_RESET_SECS]
      /\ circuit_open \in [Backends -> BOOLEAN]
      /\ LongestGap \in Nat
  BY <1>1, Numbers DEF TypeOK
<1>6. /\ failures[checking] \in 0 .. CB_THRESHOLD /\ f \in 0 .. CB_THRESHOLD
      /\ f < CB_THRESHOLD => f = failures[checking] + 1
  BY <1>1, <1>3, <1>5 DEF UpTo
<1>7. LongestGap' = LongestGap
  BY <1>4 DEF LongestGap
<1>8. TypeOK'
  <2>1. failures' \in [Backends -> 0 .. CB_THRESHOLD]
    BY <1>4, <1>5, <1>6
  <2>2. circuit_open' \in [Backends -> BOOLEAN]
    <3>1. (circuit_open[checking] \/ f >= CB_THRESHOLD) \in BOOLEAN
      BY Zenon
    <3> QED BY <1>4, <1>5, <3>1, Zenon
  <2>3. spent' \in 0 .. timeout
    BY <1>2, <1>5
  <2>4. elapsed' \in [Backends -> 0 .. CB_RESET_SECS]
    <3>1. 0 \in 0 .. CB_RESET_SECS
      BY <1>5
    <3> QED BY <1>4, <1>5, <3>1, Zenon
  <2> QED BY <1>1, <1>2, <1>4, <1>7, <2>1, <2>2, <2>3, <2>4 DEF TypeOK
<1>9. ASSUME NEW b \in Backends PROVE Told(b)'
  <2>1. CASE b = checking
    <3>1. /\ failures'[b] = f /\ elapsed'[b] = 0
          /\ circuit_open'[b] = (circuit_open[b] \/ f >= CB_THRESHOLD)
      BY <1>4, <1>5, <2>1
    <3>2. Within(b, 0)'
      <4>1. PICK x \in Nat : x = 0
        OBVIOUS
      <4>2. Within(b, x)'
        BY <1>1, <2>1, <4>1, WithinNext
      <4> QED BY <4>1, <4>2
    <3>3. circuit_open'[b] => Within(b, elapsed[b])'
      BY <3>1, <3>2 DEF Within
    <3>4. up'[b] => downFor'[b] = 0
      BY <1>1, <1>4 DEF Told
    <3>5. ~circuit_open'[b] => ~circuit_open[b] /\ f < CB_THRESHOLD
      <4>1. ~circuit_open'[b] => ~circuit_open[b] /\ ~(f >= CB_THRESHOLD)
        BY <3>1, Zenon
      <4> QED BY <1>5, <1>6, <4>1
    <3>6. ASSUME LongestGap < CB_RESET_SECS, ~up[b], ~circuit_open'[b]
          PROVE  downFor[b] <= f * LongestGap + 0
      <4>1. PICK x \in Nat : Within(b, x) /\ downFor[b] <= failures[b] * LongestGap + x
        BY <1>1, <3>5, <3>6 DEF Told
      <4>2. x <= LongestGap
        BY <1>1, <4>1, WithinBounds
      <4>3. PICK p \in Int : p = failures[b] * LongestGap
        BY <1>5, <1>6, <2>1, Products
      <4>4. f * LongestGap = p + LongestGap
        <5>1. (failures[b] + 1) * LongestGap = p + LongestGap
          BY <1>5, <1>6, <2>1, <4>3, Products
        <5> QED BY <1>5, <1>6, <2>1, <3>5, <3>6, <5>1
      <4>5. downFor[b] \in Int
        <5>1. CB_THRESHOLD * LongestGap \in Int
          BY <1>5, Products
        <5> QED BY <1>1, <5>1 DEF TypeOK
      <4> QED BY <1>5, <4>1, <4>2, <4>3, <4>4, <4>5
    <3> QED BY <1>4, <1>7, <3>1, <3>2, <3>3, <3>4, <3>5, <3>6 DEF Told
  <2>2. CASE b # checking
    <3>1. /\ elapsed'[b] = elapsed[b] /\ failures'[b] = failures[b]
          /\ circuit_open'[b] = circuit_open[b]
      BY <1>4, <1>5, <2>2
    <3> QED BY <1>1, <2>2, <3>1, OthersAreTold
  <2> QED BY <2>1, <2>2
<1> QED BY <1>2, <1>8, <1>9 DEF IInv

-----------------------------------------------------------------------------
(* Requests and backends                                                   *)

\* What an action that leaves the rounds alone leaves of Told.
LEMMA StillTold ==
  ASSUME NEW b \in Backends, Told(b),
         UNCHANGED <<interval, timeout, due, checking, spent>>,
         up'[b] = up[b], downFor'[b] = downFor[b], elapsed'[b] = elapsed[b],
         failures'[b] = failures[b], circuit_open'[b] = circuit_open[b]
  PROVE  Told(b)'
<1>1. \A x : Within(b, x) <=> Within(b, x)'
  BY DEF Within
<1>2. Within(b, elapsed[b]) <=> Within(b, elapsed[b])'
  BY DEF Within
<1>3. LongestGap' = LongestGap
  BY DEF LongestGap
<1> QED BY <1>1, <1>2, <1>3 DEF Told

LEMMA AnswerKeepsIInv == ASSUME NEW a \in Backends PROVE IInv /\ Answered(a) => IInv'
<1> SUFFICES ASSUME IInv, Answered(a) PROVE IInv'
  OBVIOUS
<1>1. /\ TypeOK /\ Ticker /\ Rounds /\ \A b \in Backends : Told(b) /\ up[a]
  BY DEF IInv, Answered
<1>2. /\ UNCHANGED <<interval, timeout, due, checking, spent, up, last, secondLast,
                     downFor, elapsed>>
      /\ failures' = [failures EXCEPT ![a] = 0]
      /\ circuit_open' = [circuit_open EXCEPT ![a] = FALSE]
  BY DEF Answered, RecordSuccess, config, history
<1>3. /\ CB_THRESHOLD \in Nat \ {0}
      /\ failures \in [Backends -> 0 .. CB_THRESHOLD]
      /\ circuit_open \in [Backends -> BOOLEAN]
  BY <1>1, Numbers DEF TypeOK
<1>4. TypeOK'
  <2>1. failures' \in [Backends -> 0 .. CB_THRESHOLD]
    <3>1. 0 \in 0 .. CB_THRESHOLD
      BY <1>3
    <3> QED BY <1>2, <1>3, <3>1, Zenon
  <2>2. circuit_open' \in [Backends -> BOOLEAN]
    BY <1>2, <1>3, Zenon
  <2>3. LongestGap' = LongestGap
    BY <1>2 DEF LongestGap
  <2> QED BY <1>1, <1>2, <2>1, <2>2, <2>3 DEF TypeOK
<1>5. Ticker' /\ Rounds'
  BY <1>1, <1>2 DEF Ticker, Rounds
<1>6. ASSUME NEW b \in Backends PROVE Told(b)'
  <2>1. CASE b = a
    <3>1. ~circuit_open'[b] /\ failures'[b] = 0
      BY <1>2, <1>3, <2>1
    <3>2. up'[b] /\ downFor'[b] = 0
      BY <1>1, <1>2, <2>1 DEF Told
    <3> QED BY <1>3, <3>1, <3>2 DEF Told
  <2>2. CASE b # a
    <3>1. failures'[b] = failures[b] /\ circuit_open'[b] = circuit_open[b]
      BY <1>2, <1>3, <2>2
    <3> QED BY <1>1, <1>2, <3>1, StillTold
  <2> QED BY <2>1, <2>2
<1> QED BY <1>4, <1>5, <1>6 DEF IInv

\* With frequent checks no circuit gets old enough.
LEMMA HalfOpenKeepsIInv == ASSUME NEW a \in Backends PROVE IInv /\ HalfOpen(a) => IInv'
<1> SUFFICES ASSUME IInv, HalfOpen(a) PROVE IInv'
  OBVIOUS
<1>1. /\ TypeOK /\ Ticker /\ Rounds /\ \A b \in Backends : Told(b)
      /\ circuit_open[a] /\ elapsed[a] >= CB_RESET_SECS
  BY DEF IInv, HalfOpen
<1>2. /\ UNCHANGED <<interval, timeout, due, checking, spent, up, last, secondLast,
                     downFor, elapsed>>
      /\ failures' = [failures EXCEPT ![a] = 0]
      /\ circuit_open' = [circuit_open EXCEPT ![a] = FALSE]
  BY DEF HalfOpen, config, history
<1>3. /\ CB_THRESHOLD \in Nat \ {0} /\ CB_RESET_SECS \in Nat /\ LongestGap \in Nat
      /\ failures \in [Backends -> 0 .. CB_THRESHOLD]
      /\ elapsed \in [Backends -> 0 .. CB_RESET_SECS]
      /\ circuit_open \in [Backends -> BOOLEAN]
  BY <1>1, Numbers DEF TypeOK
<1>4. LongestGap' = LongestGap
  BY <1>2 DEF LongestGap
<1>5. TypeOK'
  <2>1. failures' \in [Backends -> 0 .. CB_THRESHOLD]
    <3>1. 0 \in 0 .. CB_THRESHOLD
      BY <1>3
    <3> QED BY <1>2, <1>3, <3>1, Zenon
  <2>2. circuit_open' \in [Backends -> BOOLEAN]
    BY <1>2, <1>3, Zenon
  <2> QED BY <1>1, <1>2, <1>4, <2>1, <2>2 DEF TypeOK
<1>6. Ticker' /\ Rounds'
  BY <1>1, <1>2 DEF Ticker, Rounds
<1>7. ~(LongestGap < CB_RESET_SECS)
  <2>1. PICK e \in Nat : e = elapsed[a]
    BY <1>3
  <2>2. Within(a, e)
    BY <1>1, <2>1 DEF Told
  <2>3. e <= LongestGap
    BY <1>1, <2>2, WithinBounds
  <2> QED BY <1>1, <1>3, <2>1, <2>3
<1>8. ASSUME NEW b \in Backends PROVE Told(b)'
  <2>1. CASE b = a
    <3>1. ~circuit_open'[b] /\ failures'[b] = 0
      BY <1>2, <1>3, <2>1
    <3>2. up'[b] => downFor'[b] = 0
      BY <1>1, <1>2 DEF Told
    <3>3. ~(LongestGap < CB_RESET_SECS)'
      BY <1>4, <1>7
    <3> QED BY <1>3, <3>1, <3>2, <3>3 DEF Told
  <2>2. CASE b # a
    <3>1. failures'[b] = failures[b] /\ circuit_open'[b] = circuit_open[b]
      BY <1>2, <1>3, <2>2
    <3> QED BY <1>1, <1>2, <3>1, StillTold
  <2> QED BY <2>1, <2>2
<1> QED BY <1>5, <1>6, <1>8 DEF IInv

LEMMA ChangeKeepsIInv == ASSUME NEW a \in Backends PROVE IInv /\ Changes(a) => IInv'
<1> SUFFICES ASSUME IInv, Changes(a) PROVE IInv'
  OBVIOUS
<1>1. TypeOK /\ Ticker /\ Rounds /\ \A b \in Backends : Told(b)
  BY DEF IInv
<1>2. /\ UNCHANGED <<interval, timeout, due, checking, spent, last, secondLast,
                     failures, elapsed, circuit_open>>
      /\ up' = [up EXCEPT ![a] = ~@]
      /\ downFor' = [downFor EXCEPT ![a] = 0]
  BY DEF Changes, config, breaker
<1>3. LongestGap' = LongestGap
  BY <1>2 DEF LongestGap
<1>4. PICK bound \in Nat : bound = CB_THRESHOLD * LongestGap + 1
  <2>1. CB_THRESHOLD * LongestGap >= 0 /\ CB_THRESHOLD * LongestGap \in Int
    BY <1>1, Numbers, Products
  <2> QED BY <2>1
<1>5. up \in [Backends -> BOOLEAN] /\ downFor \in [Backends -> 0 .. bound]
  BY <1>1, <1>4 DEF TypeOK
<1>6. TypeOK'
  <2>1. up' \in [Backends -> BOOLEAN]
    BY <1>2, <1>5, Zenon
  <2>2. downFor' \in [Backends -> 0 .. bound]
    <3>1. 0 \in 0 .. bound
      BY <1>4
    <3> QED BY <1>2, <1>5, <3>1, Zenon
  <2> QED BY <1>1, <1>2, <1>3, <1>4, <2>1, <2>2 DEF TypeOK
<1>7. Ticker' /\ Rounds'
  BY <1>1, <1>2 DEF Ticker, Rounds
<1>8. ASSUME NEW b \in Backends PROVE Told(b)'
  <2>1. CASE b = a
    <3>1. downFor'[b] = 0
      BY <1>2, <1>5, <2>1
    <3>2. circuit_open'[b] => Within(b, elapsed[b])'
      BY <1>1, <1>2 DEF Told, Within
    <3>3. Within(b, 0)'
      <4>1. PICK x \in Nat : x = 0
        OBVIOUS
      <4>2. Within(b, x)
        BY <1>1, <4>1, WithinBounds
      <4> QED BY <1>2, <4>1, <4>2 DEF Within
    <3>4. failures[b] * LongestGap >= 0 /\ failures[b] * LongestGap \in Int
      <4>1. failures[b] \in Nat /\ LongestGap \in Nat
        BY <1>1, Numbers DEF TypeOK
      <4> QED BY <4>1, Products
    <3>5. downFor'[b] <= failures'[b] * LongestGap' + 0
      BY <1>2, <1>3, <3>1, <3>4
    <3>6. ~circuit_open'[b] => failures'[b] < CB_THRESHOLD
      BY <1>1, <1>2 DEF Told
    <3> QED BY <3>1, <3>2, <3>3, <3>5, <3>6 DEF Told
  <2>2. CASE b # a
    <3>1. up'[b] = up[b] /\ downFor'[b] = downFor[b]
      BY <1>2, <1>5, <2>2
    <3> QED BY <1>1, <1>2, <3>1, StillTold
  <2> QED BY <2>1, <2>2
<1> QED BY <1>6, <1>7, <1>8 DEF IInv

-----------------------------------------------------------------------------
(* The invariant and what follows from it                                  *)

LEMMA InitIInv == Init => IInv
<1> SUFFICES ASSUME Init PROVE IInv
  OBVIOUS
<1>1. PICK s \in Settings : interval = s.interval /\ timeout = s.timeout
  BY DEF Init
<1>2. /\ interval \in Nat \ {0} /\ timeout \in Nat /\ N \in Nat \ {0}
      /\ CB_THRESHOLD \in Nat \ {0} /\ CB_RESET_SECS \in Nat
  BY <1>1, HealthAssumption
<1>3. N * timeout \in Nat /\ LongestGap \in Nat /\ CB_THRESHOLD * LongestGap \in Nat
  <2>1. N * timeout \in Nat /\ LongestGap \in Nat
    BY <1>2, Products DEF LongestGap
  <2> QED BY <1>2, <2>1, Products
<1>4. /\ due = 0 /\ checking = 0 /\ spent = 0 /\ last = interval /\ secondLast = interval
      /\ up \in [Backends -> BOOLEAN]
      /\ failures = [b \in Backends |-> 0] /\ downFor = [b \in Backends |-> 0]
      /\ elapsed = [b \in Backends |-> CB_RESET_SECS]
      /\ circuit_open = [b \in Backends |-> FALSE]
  BY DEF Init
<1>5. TypeOK
  <2>1. [interval |-> interval, timeout |-> timeout] \in Settings
    <3>1. s = [interval |-> interval, timeout |-> timeout]
      BY <1>1, HealthAssumption
    <3> QED BY <3>1
  <2>2. /\ due \in -(N * timeout) .. interval /\ checking \in 0 .. N
        /\ spent \in 0 .. timeout /\ last \in 0 .. interval /\ secondLast \in 0 .. interval
    BY <1>2, <1>3, <1>4
  <2>3. /\ failures \in [Backends -> 0 .. CB_THRESHOLD]
        /\ elapsed \in [Backends -> 0 .. CB_RESET_SECS]
        /\ downFor \in [Backends -> 0 .. CB_THRESHOLD * LongestGap + 1]
    BY <1>2, <1>3, <1>4
  <2>4. circuit_open \in [Backends -> BOOLEAN]
    BY <1>4
  <2> QED BY <1>4, <2>1, <2>2, <2>3, <2>4 DEF TypeOK
<1>6. Ticker /\ Rounds
  BY <1>4 DEF Ticker, Rounds
<1>7. ASSUME NEW b \in Backends PROVE Told(b)
  <2>1. PICK x \in Nat : x = 0
    OBVIOUS
  <2>2. Within(b, x) /\ failures[b] = 0 /\ downFor[b] = 0 /\ ~circuit_open[b]
    BY <1>4, <1>5, <1>6, <2>1, WithinBounds
  <2>3. 0 * LongestGap = 0
    BY <1>3, SMTT(20)
  <2>4. downFor[b] <= failures[b] * LongestGap + x
    BY <2>1, <2>2, <2>3
  <2> QED BY <1>2, <2>2, <2>4 DEF Told
<1> QED BY <1>5, <1>6, <1>7 DEF IInv

LEMMA NextIInv == IInv /\ [Next]_vars => IInv'
<1> SUFFICES ASSUME IInv, [Next]_vars PROVE IInv'
  OBVIOUS
<1>1. CASE BeginRound
  BY <1>1, BeginKeepsIInv
<1>2. CASE CheckPasses
  BY <1>2, PassKeepsIInv
<1>3. CASE CheckFails
  BY <1>3, FailKeepsIInv
<1>4. ASSUME NEW b \in Backends, Answered(b) PROVE IInv'
  BY <1>4, AnswerKeepsIInv
<1>5. ASSUME NEW b \in Backends, HalfOpen(b) PROVE IInv'
  BY <1>5, HalfOpenKeepsIInv
<1>6. ASSUME NEW b \in Backends, Changes(b) PROVE IInv'
  BY <1>6, ChangeKeepsIInv
<1>7. CASE Second
  BY <1>7, SecondKeepsIInv
<1>8. CASE UNCHANGED vars
  <2>1. UNCHANGED <<interval, timeout, due, checking, spent, up, failures, elapsed,
                    circuit_open, last, secondLast, downFor>>
    BY <1>8 DEF vars, config, breaker, history
  <2>2. TypeOK' /\ Ticker' /\ Rounds'
    BY <2>1 DEF IInv, TypeOK, Ticker, Rounds, LongestGap
  <2>3. ASSUME NEW b \in Backends PROVE Told(b)'
    BY <2>1, StillTold DEF IInv
  <2> QED BY <2>2, <2>3 DEF IInv
<1> QED BY <1>1, <1>2, <1>3, <1>4, <1>5, <1>6, <1>7, <1>8 DEF Next

THEOREM HealthInvariant == Spec => []IInv
BY InitIInv, NextIInv, PTL DEF Spec

\* The state of the health checker keeps its types, and its ticker is never
\* further behind than the checks of a round take.
THEOREM TypeCorrect == Spec => []TypeOK
<1>1. IInv => TypeOK
  BY DEF IInv
<1> QED BY <1>1, HealthInvariant, PTL

\* No open circuit gets old enough for is_healthy to spend a client's request
\* on it, if the interval and a timeout for each backend are less than the
\* reset time.
THEOREM OpenStaysShut == Spec => []StaysShut
<1>1. IInv => StaysShut
  <2> SUFFICES ASSUME IInv, LongestGap < CB_RESET_SECS,
                      NEW b \in Backends, circuit_open[b]
               PROVE  elapsed[b] < CB_RESET_SECS
    BY DEF StaysShut
  <2>1. PICK e \in Nat : e = elapsed[b]
    BY Numbers DEF IInv, TypeOK
  <2>2. Within(b, e)
    BY <2>1 DEF IInv, Told
  <2>3. e <= LongestGap
    BY <2>2, WithinBounds DEF IInv
  <2> QED BY <2>1, <2>3, Numbers DEF IInv
<1> QED BY <1>1, HealthInvariant, PTL

\* And a backend that is down is shut out after CB_THRESHOLD of the longest
\* gaps between two reports: record_failure counts one failure for each.
THEOREM DownIsShutOut == Spec => []ShutOutInTime
<1>1. IInv => ShutOutInTime
  <2> SUFFICES ASSUME IInv, LongestGap < CB_RESET_SECS,
                      NEW b \in Backends, ~circuit_open[b]
               PROVE  ~(downFor[b] > CB_THRESHOLD * LongestGap)
    BY DEF ShutOutInTime
  <2>1. /\ TypeOK /\ Ticker /\ Told(b)
        /\ LongestGap \in Nat /\ CB_THRESHOLD \in Nat \ {0}
        /\ failures[b] \in 0 .. CB_THRESHOLD
    BY Numbers DEF IInv, TypeOK
  <2>2. PICK m \in Nat : m = CB_THRESHOLD * LongestGap
    BY <2>1, Products
  <2>3. downFor[b] \in 0 .. m + 1
    BY <2>1, <2>2 DEF TypeOK
  <2>4. CASE up[b]
    BY <2>1, <2>2, <2>3, <2>4 DEF Told
  <2>5. CASE ~up[b]
    <3>1. PICK x \in Nat : Within(b, x) /\ downFor[b] <= failures[b] * LongestGap + x
      BY <2>1, <2>5 DEF Told
    <3>2. x <= LongestGap
      BY <2>1, <3>1, WithinBounds
    <3>3. failures[b] < CB_THRESHOLD
      BY <2>1 DEF Told
    <3>4. PICK p \in Int : p = failures[b] * LongestGap
      BY <2>1, Products
    <3>5. (failures[b] + 1) * LongestGap = p + LongestGap
      BY <2>1, <3>4, Products
    <3>6. (failures[b] + 1) * LongestGap <= CB_THRESHOLD * LongestGap
      <4>1. failures[b] + 1 <= CB_THRESHOLD /\ failures[b] + 1 \in Int
        BY <2>1, <3>3
      <4> QED BY <2>1, <4>1, Products
    <3>7. downFor[b] <= p + x /\ p + LongestGap <= m
      BY <2>2, <3>1, <3>4, <3>5, <3>6
    <3> QED BY <2>1, <2>2, <2>3, <3>2, <3>4, <3>7
  <2> QED BY <2>4, <2>5
<1> QED BY <1>1, HealthInvariant, PTL

\* A checker whose rounds took longer than the interval does not make up for
\* the missed ones: MissedTickBehavior::Skip puts the next deadline an interval
\* or more after the last but one.
THEOREM MissedRoundsAreSkipped == Spec => NoCatchingUp
<1>1. IInv /\ [Next]_vars => [checking = 0 /\ checking' = 1 => secondLast >= interval]_vars
  <2> SUFFICES ASSUME IInv, Next, checking = 0, checking' = 1
               PROVE  secondLast >= interval
    OBVIOUS
  <2>1. /\ N \in Nat \ {0} /\ interval \in Nat /\ due \in Int
        /\ secondLast \in 0 .. interval /\ Rounds
    BY Numbers DEF IInv, TypeOK
  <2>2. CASE BeginRound
    BY <2>1, <2>2 DEF BeginRound, Rounds
  <2>3. CASE CheckPasses \/ CheckFails
    BY <2>1, <2>3 DEF CheckPasses, CheckFails, Backends
  <2>4. CASE Second \/ \E b \in Backends : Answered(b) \/ HalfOpen(b) \/ Changes(b)
    BY <2>4 DEF Second, Answered, HalfOpen, Changes
  <2> QED BY <2>2, <2>3, <2>4 DEF Next
<1> QED BY <1>1, HealthInvariant, PTL DEF Spec, NoCatchingUp
=============================================================================
