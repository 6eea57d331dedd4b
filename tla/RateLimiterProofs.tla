------------------------- MODULE RateLimiterProofs --------------------------
(***************************************************************************)
(* Proofs about the token bucket, for any rate, burst, number of requests  *)
(* and order in which their clock readings reach a bucket.                 *)
(*                                                                         *)
(* WindowRate speaks of the clock, which the bucket does not follow.  The  *)
(* inductive form, Ceiling, speaks of the bucket instead: what was granted *)
(* in the window, plus what the bucket would hold at the beginning of the  *)
(* window or holds now, stays below the burst plus what rps adds up to the *)
(* last refill.  Products with rps are handled by scaling every time by    *)
(* rps (ScaleTimes), after which the steps are linear (CeilingStep).            *)
(***************************************************************************)
EXTENDS RateLimiter, TLAPS

Ceiling ==
  \A a \in IPs :
    IF a \in known
    THEN granted[a] * TPS
           + Least(Capacity, tokens[a] + rps * Since(wstart[a], last_refill[a]))
         <= Capacity + rps * (Latest(last_refill[a], wstart[a]) - wstart[a] + late[a])
    ELSE granted[a] = 0

IInv == TypeOK /\ Ceiling /\ NothingLost

-----------------------------------------------------------------------------
\* Multiplying by rps goes through sums, differences and the operations on
\* times.
LEMMA ScaleSum == \A r, a, b \in Nat : r * (a + b) = r * a + r * b
OBVIOUS

LEMMA ScaleDiff == \A r, a, b \in Nat : r * (a - b) = r * a - r * b
OBVIOUS

LEMMA ScaleMonotone == \A r, a, b \in Nat : a <= b => r * a <= r * b
<1> SUFFICES ASSUME NEW r \in Nat, NEW a \in Nat, NEW b \in Nat, a <= b
             PROVE  r * a <= r * b
  OBVIOUS
<1>1. r * (b - a) \in Nat /\ r * a \in Nat /\ r * b \in Nat
  <2>1. b - a \in Nat
    OBVIOUS
  <2> QED BY <2>1
<1>2. r * (b - a) = r * b - r * a
  OBVIOUS
<1> QED BY <1>1, <1>2

LEMMA ScaleTimes ==
  \A r, a, b \in Nat : /\ r * Since(a, b) = Since(r * a, r * b)
                       /\ r * Latest(a, b) = Latest(r * a, r * b)
<1> TAKE r \in Nat
<1> TAKE a, b \in Nat
<1>1. r * a \in Nat /\ r * b \in Nat /\ r * (a - b) = r * a - r * b /\ r * 0 = 0
  OBVIOUS
<1>2. CASE a >= b
  <2>1. r * a >= r * b
    BY <1>2, ScaleMonotone
  <2> QED BY <1>1, <1>2, <2>1 DEF Since, Latest
<1>3. CASE ~(a >= b)
  <2>1. r * b >= r * a
    BY <1>3, ScaleMonotone
  <2> QED BY <1>1, <1>3, <2>1 DEF Since, Latest
<1> QED BY <1>2, <1>3

\* The refill keeps a bucket between nothing and the capacity.
LEMMA RefillBounds ==
  ASSUME NEW B \in Nat, NEW T \in 0 .. B, NEW x \in Nat
  PROVE  Least(B, T + x) \in 0 .. B /\ Least(B, T + x) >= T
BY DEF Least

\* One use of the bucket, with all times scaled by rps: L the last refill, C
\* the reading, W the window's beginning, M the lateness so far, T the tokens,
\* G what was granted and P what is granted now.
LEMMA CeilingStep ==
  ASSUME NEW B \in Nat, NEW T \in 0 .. B, NEW G \in Nat,
         NEW W \in Nat, NEW C \in Nat, NEW L \in Nat, NEW M \in Nat, NEW P \in Nat,
         P <= Least(B, T + Since(C, L)),
         G + Least(B, T + Since(W, L)) <= B + (Latest(L, W) - W) + M
  PROVE  G + P + Least(B, Least(B, T + Since(C, L)) - P + Since(W, C))
           <= B + (Latest(C, W) - W) + M + Since(Latest(L, W), C)
BY DEF Least, Since, Latest

-----------------------------------------------------------------------------
\* What one request does to its bucket, in terms of the tokens it finds.
LEMMA UseBucketEffect ==
  ASSUME IInv, NEW t \in Tasks, UseBucket(t)
  PROVE  \E a \in IPs, P \in Nat :
           /\ a = ip[t] /\ (P = 0 \/ P = TPS) /\ P <= Refilled(t)
           /\ known' = known \cup {a}
           /\ tokens' = [tokens EXCEPT ![a] = Refilled(t) - P]
           /\ last_refill' = [last_refill EXCEPT ![a] = reading[t]]
           /\ late' = [late EXCEPT ![a] = @ + Lateness(t)]
           /\ granted' \in [IPs -> Nat] /\ used' \in [IPs -> Nat]
           /\ granted'[a] * TPS = granted[a] * TPS + P
           /\ \A b \in IPs \ {a} : granted'[b] = granted[b] /\ used'[b] = used[b]
           /\ fullAt' = [fullAt EXCEPT ![a] = IF Refilled(t) = Capacity THEN reading[t] ELSE @]
           /\ used'[a] * TPS = (IF Refilled(t) = Capacity THEN 0 ELSE used[a] * TPS) + P
<1> DEFINE a == ip[t]
           ok == Refilled(t) >= TPS
           P == IF ok THEN TPS ELSE 0
           u == IF Refilled(t) = Capacity THEN 0 ELSE used[a]
<1>1. a \in IPs /\ TPS \in Nat /\ P \in Nat
  BY LimiterAssumption DEF IInv, TypeOK
<1>2. granted[a] \in Nat /\ used[a] \in Nat /\ u \in Nat
  BY <1>1 DEF IInv, TypeOK
<1>3. Capacity \in Nat
  BY LimiterAssumption DEF IInv, TypeOK, Capacity
<1>4. Held(t) \in 0 .. Capacity
  BY <1>1, <1>3 DEF IInv, TypeOK, Held
<1>5. rps * Since(reading[t], LastRefill(t)) \in Nat
  <2>1. reading[t] \in Nat /\ LastRefill(t) \in Nat /\ rps \in Nat
    BY LimiterAssumption DEF IInv, TypeOK, Times, LastRefill
  <2>2. Since(reading[t], LastRefill(t)) \in Nat
    BY <2>1 DEF Since
  <2> QED BY <2>1, <2>2
<1>6. Refilled(t) \in 0 .. Capacity
  BY <1>3, <1>4, <1>5, RefillBounds DEF Refilled
<1>7. P <= Refilled(t)
  BY <1>1, <1>3, <1>6
<1>8. /\ granted' = [granted EXCEPT ![a] = IF ok THEN @ + 1 ELSE @]
      /\ used' = [used EXCEPT ![a] = (IF Refilled(t) = Capacity THEN 0 ELSE @)
                                       + (IF ok THEN 1 ELSE 0)]
      /\ tokens' = [tokens EXCEPT ![a] = IF ok THEN Refilled(t) - TPS ELSE Refilled(t)]
  BY DEF UseBucket
<1>9. /\ granted' \in [IPs -> Nat] /\ used' \in [IPs -> Nat]
      /\ granted'[a] = granted[a] + (IF ok THEN 1 ELSE 0)
      /\ used'[a] = u + (IF ok THEN 1 ELSE 0)
      /\ \A b \in IPs \ {a} : granted'[b] = granted[b] /\ used'[b] = used[b]
  BY <1>1, <1>2, <1>8 DEF IInv, TypeOK
<1>10. /\ (granted[a] + 1) * TPS = granted[a] * TPS + TPS
       /\ (u + 1) * TPS = u * TPS + TPS
       /\ u * TPS = IF Refilled(t) = Capacity THEN 0 ELSE used[a] * TPS
  BY <1>1, <1>2
<1>11. /\ granted[a] * TPS \in Nat /\ u * TPS \in Nat
  BY <1>1, <1>2
<1>12. granted'[a] * TPS = granted[a] * TPS + P /\ used'[a] * TPS = u * TPS + P
  BY <1>9, <1>10, <1>11, <1>1, <1>2
<1>13. tokens' = [tokens EXCEPT ![a] = Refilled(t) - P]
  <2>1. CASE ok
    BY <1>8, <2>1
  <2>2. CASE ~ok
    <3>1. Refilled(t) - P = Refilled(t)
      BY <2>2, <1>3, <1>6
    <3> QED BY <1>8, <2>2, <3>1
  <2> QED BY <2>1, <2>2
<1>14. /\ known' = known \cup {a}
       /\ last_refill' = [last_refill EXCEPT ![a] = reading[t]]
       /\ late' = [late EXCEPT ![a] = @ + Lateness(t)]
       /\ fullAt' = [fullAt EXCEPT ![a] = IF Refilled(t) = Capacity THEN reading[t] ELSE @]
  BY DEF UseBucket
<1> USE <1>1
<1> WITNESS a \in IPs, P \in Nat
<1> QED BY <1>7, <1>9, <1>10, <1>12, <1>13, <1>14

\* A request at the bucket.
LEMMA UseBucketKeepsIInv ==
  ASSUME IInv, NEW t \in Tasks, UseBucket(t)
  PROVE  IInv'
<1>1. PICK a \in IPs, P \in Nat :
        /\ a = ip[t] /\ (P = 0 \/ P = TPS) /\ P <= Refilled(t)
        /\ known' = known \cup {a}
        /\ tokens' = [tokens EXCEPT ![a] = Refilled(t) - P]
        /\ last_refill' = [last_refill EXCEPT ![a] = reading[t]]
        /\ late' = [late EXCEPT ![a] = @ + Lateness(t)]
        /\ granted' \in [IPs -> Nat] /\ used' \in [IPs -> Nat]
        /\ granted'[a] * TPS = granted[a] * TPS + P
        /\ \A b \in IPs \ {a} : granted'[b] = granted[b] /\ used'[b] = used[b]
        /\ fullAt' = [fullAt EXCEPT ![a] = IF Refilled(t) = Capacity THEN reading[t] ELSE @]
        /\ used'[a] * TPS = (IF Refilled(t) = Capacity THEN 0 ELSE used[a] * TPS) + P
  BY UseBucketEffect
<1>2. UNCHANGED <<rps, burst, now, ip, reading, wstart>> /\ Capacity' = Capacity
  BY DEF UseBucket, Capacity
<1> DEFINE B == Capacity
           T == Held(t)
           c == reading[t]
           l == LastRefill(t)
           w == wstart[a]
           m == late[a]
           R == Refilled(t)
<1>3. /\ rps \in Nat /\ TPS \in Nat /\ now \in Nat /\ B \in Nat
      /\ c \in 0 .. now /\ l \in 0 .. now /\ w \in 0 .. now /\ m \in Nat
      /\ T \in 0 .. B
      /\ granted[a] \in Nat /\ used[a] \in Nat /\ fullAt[a] \in 0 .. now
      /\ granted[a] * TPS \in Nat /\ used[a] * TPS \in Nat
      /\ c \in Nat /\ l \in Nat /\ w \in Nat /\ fullAt[a] \in Nat
  <2>1. rps \in Nat /\ TPS \in Nat /\ now \in Nat
    BY LimiterAssumption DEF IInv, TypeOK, Times
  <2>2. B \in Nat
    BY LimiterAssumption DEF IInv, TypeOK, Capacity
  <2>3. /\ c \in 0 .. now /\ w \in 0 .. now /\ m \in Nat /\ l \in 0 .. now
        /\ granted[a] \in Nat /\ used[a] \in Nat /\ fullAt[a] \in 0 .. now
    BY <1>1 DEF IInv, TypeOK, LastRefill
  <2>4. T \in 0 .. B
    BY <1>1, <2>2 DEF IInv, TypeOK, Held
  <2>5. granted[a] * TPS \in Nat /\ used[a] * TPS \in Nat
    BY <2>1, <2>3
  <2>6. c \in Nat /\ l \in Nat /\ w \in Nat /\ fullAt[a] \in Nat
    BY <2>1, <2>3
  <2> QED BY <2>1, <2>2, <2>3, <2>4, <2>5, <2>6
<1>31. rps \in Nat
  BY <1>3
<1>32. c \in Nat /\ l \in Nat
  BY <1>3
<1>33. w \in Nat
  BY <1>3
<1>4. /\ rps * Since(c, l) = Since(rps * c, rps * l)
      /\ R = Least(B, T + Since(rps * c, rps * l))
      /\ R \in 0 .. B /\ Since(rps * c, rps * l) \in Nat
      /\ rps * c \in Nat /\ rps * l \in Nat /\ rps * w \in Nat /\ rps * m \in Nat
  <2>1. /\ rps * Since(c, l) = Since(rps * c, rps * l)
        /\ rps * c \in Nat /\ rps * l \in Nat /\ rps * w \in Nat /\ rps * m \in Nat
    <3>1. rps * Since(c, l) = Since(rps * c, rps * l)
      BY <1>31, <1>32, ScaleTimes, Zenon
    <3>2. rps * c \in Nat /\ rps * l \in Nat /\ rps * w \in Nat /\ rps * m \in Nat
      BY <1>3
    <3> QED BY <3>1, <3>2
  <2>2. R = Least(B, T + Since(rps * c, rps * l))
    BY <2>1 DEF Refilled
  <2>3. Since(rps * c, rps * l) \in Nat
    BY <2>1 DEF Since
  <2> QED BY <1>3, <2>1, <2>2, <2>3, RefillBounds
<1>5. TypeOK'
  <2>1. Lateness(t) \in Nat
    BY <1>1, <1>3 DEF Lateness, Since, Latest
  <2>2. pc' \in [Tasks -> {"idle", "timed", "allowed", "refused"}]
    BY DEF UseBucket, Goto, IInv, TypeOK
  <2>3. R - P \in 0 .. B
    BY <1>1, <1>3, <1>4
  <2>4. tokens' \in [IPs -> 0 .. Capacity'] /\ late' \in [IPs -> Nat]
    BY <1>1, <1>2, <2>1, <2>3 DEF IInv, TypeOK
  <2>5. last_refill' \in [IPs -> 0 .. now'] /\ fullAt' \in [IPs -> 0 .. now']
    BY <1>1, <1>2, <1>3 DEF IInv, TypeOK
  <2> QED BY <1>1, <1>2, <2>2, <2>4, <2>5 DEF IInv, TypeOK
<1>6. Ceiling'
  <2>1. granted[a] * TPS + Least(B, T + Since(rps * w, rps * l))
          <= B + (Latest(rps * l, rps * w) - rps * w) + rps * m
    <3>1. CASE a \in known
      <4>1. granted[a] * TPS + Least(B, T + rps * Since(w, l))
              <= B + rps * (Latest(l, w) - w + m)
        BY <1>1, <3>1 DEF IInv, Ceiling, Held, LastRefill
      <4>2. /\ rps * Since(w, l) = Since(rps * w, rps * l)
            /\ rps * (Latest(l, w) - w + m) = Latest(rps * l, rps * w) - rps * w + rps * m
        <5>1. Latest(l, w) \in Nat /\ Latest(l, w) - w \in Nat
          BY <1>3 DEF Latest
        <5>2. rps * (Latest(l, w) - w) = rps * Latest(l, w) - rps * w
          BY <5>1, <1>31, <1>33, ScaleDiff, Zenon
        <5>3. rps * ((Latest(l, w) - w) + m) = rps * (Latest(l, w) - w) + rps * m
          <6>1. m \in Nat
            BY <1>3
          <6> QED BY <5>1, <6>1, <1>31, ScaleSum, Zenon
        <5>4. rps * Latest(l, w) = Latest(rps * l, rps * w) /\ rps * Since(w, l) = Since(rps * w, rps * l)
          BY <1>31, <1>32, <1>33, ScaleTimes, Zenon
        <5> QED BY <5>2, <5>3, <5>4
      <4>3. Latest(rps * l, rps * w) \in Int
        BY <1>4 DEF Latest
      <4> QED BY <4>1, <4>2, <4>3, <1>3, <1>4
    <3>2. CASE a \notin known
      <4>1. granted[a] * TPS = 0 /\ T = B
        BY <1>1, <1>3, <3>2 DEF IInv, Ceiling, Held
      <4> QED BY <4>1, <1>3, <1>4 DEF Least, Since, Latest
    <3> QED BY <3>1, <3>2
  <2>2. (granted[a] * TPS) + P + Least(B, R - P + Since(rps * w, rps * c))
          <= B + (Latest(rps * c, rps * w) - rps * w) + rps * m
               + Since(Latest(rps * l, rps * w), rps * c)
    <3>1. P <= Least(B, T + Since(rps * c, rps * l))
      BY <1>1, <1>4
    <3> QED BY <1>3, <1>4, <2>1, <3>1, CeilingStep
  <2>3. /\ rps * Since(w, c) = Since(rps * w, rps * c)
        /\ rps * (Latest(c, w) - w + (m + Lateness(t)))
             = (Latest(rps * c, rps * w) - rps * w) + rps * m
                 + Since(Latest(rps * l, rps * w), rps * c)
    <3>1. Latest(c, w) \in Nat /\ Latest(c, w) - w \in Nat /\ Latest(l, w) \in Nat
      BY <1>3 DEF Latest
    <3>2. Lateness(t) = Since(Latest(l, w), c) /\ Lateness(t) \in Nat
      BY <1>1, <1>3, <3>1 DEF Lateness, Since
    <3>3. rps * Lateness(t) = Since(Latest(rps * l, rps * w), rps * c)
      <4>1. rps * Since(Latest(l, w), c) = Since(rps * Latest(l, w), rps * c)
        BY <1>31, <1>32, <3>1, ScaleTimes, Zenon
      <4>2. rps * Latest(l, w) = Latest(rps * l, rps * w)
        BY <1>31, <1>32, <1>33, ScaleTimes, Zenon
      <4> QED BY <3>2, <4>1, <4>2, Zenon
    <3>4. rps * (Latest(c, w) - w) = Latest(rps * c, rps * w) - rps * w
      <4>1. rps * (Latest(c, w) - w) = rps * Latest(c, w) - rps * w
        BY <1>31, <1>33, <3>1, ScaleDiff, Zenon
      <4>2. rps * Latest(c, w) = Latest(rps * c, rps * w)
        BY <1>31, <1>32, <1>33, ScaleTimes, Zenon
      <4> QED BY <4>1, <4>2, Zenon
    <3>9. m \in Nat
      BY <1>3
    <3>5. rps * (m + Lateness(t)) = rps * m + rps * Lateness(t)
      BY <1>31, <3>2, <3>9, ScaleSum, Zenon
    <3>6. rps * ((Latest(c, w) - w) + (m + Lateness(t)))
            = rps * (Latest(c, w) - w) + rps * (m + Lateness(t))
      <4>1. m + Lateness(t) \in Nat
        BY <1>3, <3>2
      <4> QED BY <1>31, <3>1, <4>1, ScaleSum, Zenon
    <3>7. /\ Latest(rps * c, rps * w) \in Int
          /\ Since(Latest(rps * l, rps * w), rps * c) \in Int
      BY <1>4 DEF Latest, Since
    <3>8. rps * Since(w, c) = Since(rps * w, rps * c)
      BY <1>31, <1>32, <1>33, ScaleTimes, Zenon
    <3>11. rps * (Latest(c, w) - w + (m + Lateness(t)))
             = (Latest(rps * c, rps * w) - rps * w)
                 + (rps * m + Since(Latest(rps * l, rps * w), rps * c))
      BY <3>3, <3>4, <3>5, <3>6, Zenon
    <3> QED BY <1>4, <3>7, <3>8, <3>11
  <2>4. granted'[a] * TPS
          + Least(B, (R - P) + rps * Since(w, c))
          <= B + rps * (Latest(c, w) - w + (m + Lateness(t)))
    <3>1. /\ Latest(rps * c, rps * w) \in Int
          /\ Since(Latest(rps * l, rps * w), rps * c) \in Int
      BY <1>4 DEF Latest, Since
    <3> QED BY <1>1, <1>3, <1>4, <2>2, <2>3, <3>1
  <2>5. /\ tokens'[a] = R - P /\ last_refill'[a] = c /\ late'[a] = m + Lateness(t)
        /\ wstart'[a] = w /\ a \in known' /\ rps' = rps
    BY <1>1, <1>2 DEF IInv, TypeOK
  <2>6. \A b \in IPs \ {a} :
          /\ granted'[b] = granted[b] /\ tokens'[b] = tokens[b]
          /\ last_refill'[b] = last_refill[b] /\ late'[b] = late[b]
          /\ wstart'[b] = wstart[b] /\ (b \in known' <=> b \in known)
    BY <1>1, <1>2 DEF IInv, TypeOK
  <2>7. SUFFICES ASSUME NEW b \in IPs
                 PROVE  IF b \in known'
                        THEN granted'[b] * TPS
                               + Least(Capacity', tokens'[b] + rps' * Since(wstart'[b], last_refill'[b]))
                             <= Capacity' + rps' * (Latest(last_refill'[b], wstart'[b]) - wstart'[b] + late'[b])
                        ELSE granted'[b] = 0
    BY DEF Ceiling
  <2>8. CASE b = a
    BY <2>4, <2>5, <2>8, <1>2
  <2>9. CASE b # a
    BY <2>5, <2>6, <2>9, <1>2 DEF IInv, Ceiling
  <2> QED BY <2>8, <2>9
<1>7. NothingLost'
  <2>1. SUFFICES ASSUME NEW b \in known'
                 PROVE  used'[b] * TPS + tokens'[b]
                          >= Capacity' + rps' * (last_refill'[b] - fullAt'[b])
    BY DEF NothingLost
  <2>2. b \in IPs
    BY <1>1 DEF IInv, TypeOK
  <2>3. CASE b # a
    <3>1. /\ b \in known /\ used'[b] = used[b] /\ tokens'[b] = tokens[b]
          /\ last_refill'[b] = last_refill[b] /\ fullAt'[b] = fullAt[b]
      BY <1>1, <2>2, <2>3 DEF IInv, TypeOK
    <3> QED BY <3>1, <1>2 DEF IInv, NothingLost
  <2>4. CASE b = a
    <3>1. tokens'[a] = R - P /\ last_refill'[a] = c /\ rps' = rps
          /\ fullAt'[a] = IF R = B THEN c ELSE fullAt[a]
      BY <1>1, <1>2 DEF IInv, TypeOK
    <3>2. CASE R = B
      <4>1. used'[a] * TPS = P /\ rps * (c - c) = 0
        BY <1>1, <1>3, <3>2
      <4> QED BY <1>1, <1>2, <1>3, <2>4, <3>1, <3>2, <4>1
    <3>3. CASE R # B
      <4>1. a \in known
        <5>1. a \notin known => T = B
          BY <1>1 DEF Held
        <5>2. T = B => R = B
          BY <1>3, <1>4 DEF Least
        <5> QED BY <5>1, <5>2, <3>3
      <4>2. T = tokens[a] /\ l = last_refill[a]
        BY <1>1, <4>1 DEF Held, LastRefill
      <4>3. used[a] * TPS + T >= B + rps * (l - fullAt[a])
        BY <4>1, <4>2 DEF IInv, NothingLost
      <4>4. R = T + Since(rps * c, rps * l) /\ Since(rps * c, rps * l) >= rps * c - rps * l
        BY <1>3, <1>4, <3>3 DEF Least, Since
      <4>5. /\ rps * (l - fullAt[a]) = rps * l - rps * fullAt[a]
            /\ rps * (c - fullAt[a]) = rps * c - rps * fullAt[a]
            /\ rps * fullAt[a] \in Nat
        <5>1. fullAt[a] \in Nat
          BY <1>3
        <5>2. rps * (l - fullAt[a]) = rps * l - rps * fullAt[a]
          BY <1>31, <1>32, <5>1, ScaleDiff, Zenon
        <5>3. rps * (c - fullAt[a]) = rps * c - rps * fullAt[a]
          BY <1>31, <1>32, <5>1, ScaleDiff, Zenon
        <5>4. rps * fullAt[a] \in Nat
          BY <1>31, <5>1
        <5> QED BY <5>2, <5>3, <5>4
      <4>6. used'[a] * TPS = used[a] * TPS + P
        BY <1>1, <3>3
      <4>7. Since(rps * c, rps * l) \in Nat
        BY <1>4 DEF Since
      <4>8. used[a] * TPS + P + (R - P) >= B + rps * (c - fullAt[a])
        BY <1>1, <1>3, <1>4, <4>3, <4>4, <4>5, <4>7
      <4> QED BY <1>2, <2>4, <3>1, <3>3, <4>6, <4>8
    <3> QED BY <3>2, <3>3
  <2> QED BY <2>3, <2>4
<1> QED BY <1>5, <1>6, <1>7 DEF IInv

\* The other steps of a request, the clock and the observer.
LEMMA OthersKeepIInv ==
  ASSUME IInv,
         \/ \E t \in Tasks : (\E a \in IPs : Enter(t, a)) \/ Return(t)
         \/ \E a \in IPs : OpenWindow(a)
         \/ Tick
         \/ UNCHANGED vars
  PROVE  IInv'
<1>0. /\ now \in Nat /\ rps \in Nat /\ TPS \in Nat /\ Capacity \in Nat /\ MaxNow \in Nat
  BY LimiterAssumption DEF IInv, TypeOK, Times, Capacity
<1>1. CASE \/ \E t \in Tasks : (\E a \in IPs : Enter(t, a)) \/ Return(t)
           \/ Tick
           \/ UNCHANGED vars
  <2>1. /\ UNCHANGED <<rps, burst, bucket, window, fullAt, used>>
        /\ now' \in Times /\ now <= now'
    BY <1>0, <1>1 DEF Enter, Return, Tick, vars, Times, IInv, TypeOK
  <2>2. /\ pc' \in [Tasks -> {"idle", "timed", "allowed", "refused"}]
        /\ ip' \in [Tasks -> IPs]
        /\ reading' \in [Tasks -> 0 .. now']
    BY <1>0, <1>1, <2>1 DEF Enter, Return, Tick, vars, Times, Goto, IInv, TypeOK
  <2>3. TypeOK'
    BY <1>0, <2>1, <2>2 DEF IInv, TypeOK, Times, bucket, window, Capacity
  <2> QED BY <2>1, <2>3 DEF IInv, Ceiling, NothingLost, Capacity, bucket, window
<1>2. ASSUME NEW a \in IPs, OpenWindow(a) PROVE IInv'
  <2>1. TypeOK'
    BY <1>0, <1>2 DEF OpenWindow, IInv, TypeOK, Times, bucket, Capacity
  <2>2. NothingLost'
    BY <1>2 DEF OpenWindow, IInv, NothingLost, bucket, Capacity
  <2>3. UNCHANGED <<rps, burst, bucket>> /\ Capacity' = Capacity
    BY <1>2 DEF OpenWindow, Capacity
  <2>4. granted'[a] = 0 /\ late'[a] = 0 /\ wstart'[a] = now
    BY <1>2 DEF OpenWindow, IInv, TypeOK
  <2>5. a \in known => last_refill[a] \in 0 .. now /\ tokens[a] \in 0 .. Capacity
    BY DEF IInv, TypeOK
  <2>6. Latest(last_refill[a], now) - now + 0 = 0 /\ rps * 0 = 0 /\ 0 * TPS = 0
    BY <1>0 DEF IInv, TypeOK, Latest
  <2>7. Least(Capacity, tokens[a] + rps * Since(now, last_refill[a])) <= Capacity
    <3>1. now - last_refill[a] \in Nat /\ Since(now, last_refill[a]) \in Nat
      BY <1>0 DEF IInv, TypeOK, Since
    <3>2. rps * Since(now, last_refill[a]) \in Nat
      BY <1>0, <3>1
    <3> QED BY <1>0, <3>2, RefillBounds DEF IInv, TypeOK
  <2>8. \A b \in IPs \ {a} : granted'[b] = granted[b] /\ late'[b] = late[b] /\ wstart'[b] = wstart[b]
    BY <1>2 DEF OpenWindow, IInv, TypeOK
  <2>9. \A b \in IPs : tokens'[b] = tokens[b] /\ last_refill'[b] = last_refill[b]
    BY <2>3 DEF bucket
  <2>10. known' = known /\ rps' = rps
    BY <2>3 DEF bucket
  <2>11. Ceiling'
    <3>1. SUFFICES ASSUME NEW b \in IPs
                   PROVE  IF b \in known'
                          THEN granted'[b] * TPS
                                 + Least(Capacity', tokens'[b] + rps' * Since(wstart'[b], last_refill'[b]))
                               <= Capacity' + rps' * (Latest(last_refill'[b], wstart'[b]) - wstart'[b] + late'[b])
                          ELSE granted'[b] = 0
      BY DEF Ceiling
    <3>2. CASE b = a
      <4>1. 0 + Least(Capacity, tokens[a] + rps * Since(now, last_refill[a])) <= Capacity + 0
        <5>1. Least(Capacity, tokens[a] + rps * Since(now, last_refill[a])) \in Int
          <6>1. Since(now, last_refill[a]) \in Nat
            BY <1>0 DEF IInv, TypeOK, Since
          <6>2. rps * Since(now, last_refill[a]) \in Nat
            BY <1>0, <6>1
          <6> QED BY <1>0, <6>2, RefillBounds DEF IInv, TypeOK
        <5> QED BY <1>0, <2>7, <5>1
      <4> QED BY <3>2, <4>1, <2>3, <2>4, <2>6, <2>9, <2>10
    <3>3. CASE b # a
      BY <3>3, <2>3, <2>8, <2>9, <2>10 DEF IInv, Ceiling
    <3> QED BY <3>2, <3>3
  <2> QED BY <2>1, <2>2, <2>11 DEF IInv
<1> QED BY <1>1, <1>2

\* RateLimiter::new: no buckets.
LEMMA InitIInv == Init => IInv
<1> SUFFICES ASSUME Init PROVE IInv
  OBVIOUS
<1>1. burst \in Nat /\ Capacity \in Nat /\ MaxNow \in Nat
  BY LimiterAssumption DEF Init, Capacity
<1>2. TypeOK
  BY <1>1 DEF Init, TypeOK, Times
<1>3. Ceiling /\ NothingLost
  BY DEF Init, Ceiling, NothingLost
<1> QED BY <1>2, <1>3 DEF IInv

LEMMA NextIInv == IInv /\ [Next]_vars => IInv'
BY UseBucketKeepsIInv, OthersKeepIInv DEF Next

\* The bound at the bucket gives the bound on the clock.
LEMMA CeilingBoundsWindow == IInv => WindowRate
<1> SUFFICES ASSUME IInv, NEW a \in IPs
             PROVE  granted[a] * TPS <= Capacity + rps * (now - wstart[a] + late[a])
  BY DEF WindowRate
<1> DEFINE l == last_refill[a]
           w == wstart[a]
           m == late[a]
<1>1. /\ now \in Nat /\ rps \in Nat /\ TPS \in Nat /\ Capacity \in Nat
      /\ l \in 0 .. now /\ w \in 0 .. now /\ m \in Nat
      /\ tokens[a] \in 0 .. Capacity /\ granted[a] \in Nat
  BY LimiterAssumption DEF IInv, TypeOK, Times, Capacity
<1>2. granted[a] * TPS \in Nat
  BY <1>1
<1>3. rps * (now - w + m) \in Nat
  <2>1. now - w + m \in Nat
    BY <1>1
  <2> QED BY <1>1, <2>1
<1>4. CASE a \notin known
  BY <1>1, <1>3, <1>4 DEF IInv, Ceiling
<1>5. CASE a \in known
  <2>1. granted[a] * TPS + Least(Capacity, tokens[a] + rps * Since(w, l))
          <= Capacity + rps * (Latest(l, w) - w + m)
    BY <1>5 DEF IInv, Ceiling
  <2>2. Least(Capacity, tokens[a] + rps * Since(w, l)) \in Nat
    <3>1. Since(w, l) \in Nat
      BY <1>1 DEF Since
    <3>2. rps * Since(w, l) \in Nat
      BY <1>1, <3>1
    <3> QED BY <1>1, <3>2, RefillBounds
  <2>3. rps * (Latest(l, w) - w + m) <= rps * (now - w + m)
    <3>1. /\ Latest(l, w) - w + m \in Nat /\ now - w + m \in Nat
          /\ Latest(l, w) - w + m <= now - w + m
      BY <1>1 DEF Latest
    <3>2. rps \in Nat
      BY <1>1
    <3> QED BY <3>1, <3>2, ScaleMonotone, Zenon
  <2>4. rps * (Latest(l, w) - w + m) \in Nat
    <3>1. Latest(l, w) - w + m \in Nat
      BY <1>1 DEF Latest
    <3> QED BY <1>1, <3>1
  <2> QED BY <1>1, <1>2, <1>3, <2>1, <2>2, <2>3, <2>4
<1> QED BY <1>4, <1>5

-----------------------------------------------------------------------------
\* Types and both bounds hold throughout, in whichever order the readings of
\* concurrent requests reach a bucket.
THEOREM LimiterInvariant == Spec => []IInv
BY InitIInv, NextIInv, PTL DEF Spec

\* A bucket never holds more than the burst, nor less than nothing.
THEOREM TypeCorrect == Spec => []TypeOK
<1>1. IInv => TypeOK
  BY DEF IInv
<1> QED BY <1>1, LimiterInvariant, PTL

\* In no window is an address allowed more than the burst, what rps adds, and
\* what late readings add a second time.
THEOREM RateIsBounded == Spec => []WindowRate
BY CeilingBoundsWindow, LimiterInvariant, PTL

\* A client is never kept below the burst and the rate since its bucket was
\* last full.
THEOREM RateIsGuaranteed == Spec => []NothingLost
<1>1. IInv => NothingLost
  BY DEF IInv
<1> QED BY <1>1, LimiterInvariant, PTL
=============================================================================
