------------------------- MODULE LoadBalancerProofs -------------------------
(***************************************************************************)
(* Proofs about the load balancer, for any number of tasks and backends    *)
(* and any cursor width.  First the counts: the active counts are the      *)
(* guards that are alive, and no index leaves the list of backends.  The   *)
(* two need each other: the count of the backend a guard is held for is    *)
(* positive only because it counts that guard, and the guard counts only   *)
(* because its backend is in the list.  Then, on top of it, what each      *)
(* strategy promises: ip_hash's affinity, least_connections' choice, that  *)
(* every search finds what was available throughout, and round_robin's     *)
(* even split.                                                             *)
(***************************************************************************)
EXTENDS LoadBalancer, FiniteSetTheorems, TLAPS

\* select returns at once when the domain has no backend.
EmptyRefuses == N = 0 => \A t \in Tasks : pc[t] \in {"idle", "refused"}

IInv == TypeOK /\ EmptyRefuses /\ ActiveIsInFlight

-----------------------------------------------------------------------------
\* Guards can be counted.
LEMMA HoldersFinite ==
  ASSUME NEW b
  PROVE  IsFiniteSet(Holders(b)) /\ Cardinality(Holders(b)) \in Nat
<1>1. Holders(b) \subseteq Tasks
  BY DEF Holders
<1> QED BY <1>1, BalancerAssumption, FS_Subset, FS_CardinalityType

\* Updating a function keeps its type, even at a point outside its domain.
LEMMA ExceptType ==
  ASSUME NEW S, NEW T, NEW f \in [S -> T], NEW x, NEW v \in T
  PROVE  [f EXCEPT ![x] = v] \in [S -> T]
OBVIOUS

\* An index computed with % n is in the list.
LEMMA SlotInRange ==
  ASSUME NEW k \in Nat, N # 0
  PROVE  k % N \in Index
BY BalancerAssumption DEF Index

\* A step that touches no guard and no count keeps ActiveIsInFlight.
LEMMA SameHolders ==
  ASSUME ActiveIsInFlight, UNCHANGED active,
         \A t \in Tasks : pc[t] \in Holding \/ pc'[t] \in Holding =>
                            pc[t] \in Holding /\ pc'[t] \in Holding /\ best'[t] = best[t]
  PROVE  ActiveIsInFlight'
<1>1. \A b : Holders(b)' = Holders(b)
  BY DEF Holders
<1> QED BY <1>1 DEF ActiveIsInFlight

\* Advance leads to a new look at the list or to an answer.
LEMMA AdvanceTypes ==
  ASSUME TypeOK, NEW t \in Tasks, pc[t] \in {"judging", "counting"}, Advance(t),
         best' \in [Tasks -> Index \cup {NoBackend}]
  PROVE  /\ tried' \in [Tasks -> Index \cup {0}]
         /\ pc' \in [Tasks -> PCs]
         /\ pc'[t] \in {"looking", "refused", "picked"}
         /\ pc'[t] = "picked" => best'[t] \in Index
         /\ \A u \in Tasks \ {t} : pc'[u] = pc[u]
<1>1. N # 0
  BY DEF TypeOK, Index
<1>2. CASE tried[t] + 1 < N
  <2>1. tried' = [tried EXCEPT ![t] = tried[t] + 1] /\ pc' = [pc EXCEPT ![t] = "looking"]
    BY <1>2 DEF Advance, Goto
  <2>2. tried[t] \in Nat /\ N \in Nat
    BY BalancerAssumption DEF TypeOK, Index
  <2>3. tried[t] + 1 \in Index
    BY <1>2, <2>2 DEF Index
  <2> QED BY <2>1, <2>3 DEF TypeOK, PCs, Selecting
<1>3. CASE ~(tried[t] + 1 < N)
  <2>1. tried' = [tried EXCEPT ![t] = 0]
        /\ pc' = [pc EXCEPT ![t] = IF best'[t] = NoBackend THEN "refused" ELSE "picked"]
    BY <1>3 DEF Advance, Goto
  <2> QED BY <2>1, BalancerAssumption DEF TypeOK, PCs, Selecting
<1> QED BY <1>2, <1>3

\* What a circuit's change does to the history keeps the types.
LEMMA WitnessTypes ==
  ASSUME TypeOK, NEW b, NEW c, Witness(b, c)
  PROVE  /\ up' \in [Tasks -> SUBSET Index]
         /\ settled' \in [Tasks -> BOOLEAN]
         /\ raced' \in [Tasks -> BOOLEAN]
         /\ calm' \in BOOLEAN
         /\ picks' \in [Index -> Nat]
<1>1. up' \in [Tasks -> SUBSET Index]
  BY DEF Witness, TypeOK
<1>2. settled' \in [Tasks -> BOOLEAN] /\ raced' \in [Tasks -> BOOLEAN]
  BY DEF Witness, TypeOK
<1>3. calm' \in BOOLEAN
  BY Zenon DEF Witness, TypeOK
<1>4. picks' \in [Index -> Nat]
  BY DEF Witness, TypeOK
<1> QED BY <1>1, <1>2, <1>3, <1>4

-----------------------------------------------------------------------------
\* LoadBalancer::new.
LEMMA InitIInv == Init => IInv
<1> SUFFICES ASSUME Init PROVE IInv
  OBVIOUS
<1>1. N \in Nat /\ USize \in Nat \ {0} /\ CB_THRESHOLD \in Nat \ {0}
  BY BalancerAssumption
<1>2. TypeOK
  <2>1. /\ calm \in BOOLEAN
        /\ settled \in [Tasks -> BOOLEAN] /\ raced \in [Tasks -> BOOLEAN]
    BY DEF Init
  <2>2. /\ strategy \in Strategies /\ url \in UrlLists
        /\ ip \in [Tasks -> IPs]
        /\ pc \in [Tasks -> PCs]
        /\ \A t \in Tasks : pc[t] = "idle"
        /\ circuit \in [Index -> {"closed", "open", "expired"}]
        /\ up \in [Tasks -> SUBSET Index]
        /\ best \in [Tasks -> Index \cup {NoBackend}]
    BY DEF Init, PCs
  <2>3. /\ cursor \in 0 .. USize - 1
        /\ active \in [Index -> Nat] /\ failures \in [Index -> 0 .. CB_THRESHOLD]
        /\ tried \in [Tasks -> Index \cup {0}] /\ slot \in [Tasks -> Index \cup {0}]
        /\ bestLoad \in [Tasks -> Nat] /\ picks \in [Index -> Nat]
    BY <1>1 DEF Init
  <2> QED BY <2>1, <2>2, <2>3 DEF TypeOK, Holding
<1>3. ActiveIsInFlight
  <2>1. \A b \in Index : Holders(b) = {}
    BY DEF Init, Holders, Holding
  <2> QED BY <2>1, FS_EmptySet DEF Init, ActiveIsInFlight
<1>4. EmptyRefuses
  BY DEF Init, EmptyRefuses
<1> QED BY <1>2, <1>3, <1>4 DEF IInv

\* The steps of select up to its answer: no guard is made or dropped.
LEMMA SearchKeepsIInv ==
  ASSUME IInv, NEW t \in Tasks,
         \/ Begin(t) \/ RoundRobin(t) \/ LeastConnections(t) \/ IpHash(t)
         \/ JudgeDown(t) \/ JudgeUp(t) \/ CountActive(t) \/ Refuse(t)
  PROVE  IInv'
<1> USE DEF IInv
<1>1. CASE Begin(t)
  <2>1. TypeOK'
    BY <1>1 DEF Begin, Goto, TypeOK, PCs, Selecting, Holding, config, shared, locals
  <2>2. ActiveIsInFlight'
    BY <1>1, SameHolders DEF Begin, Goto, TypeOK, Holding, shared, locals
  <2>3. EmptyRefuses'
    BY <1>1 DEF Begin, Goto, TypeOK, EmptyRefuses
  <2> QED BY <2>1, <2>2, <2>3
<1>2. CASE RoundRobin(t)
  <2>1. N # 0
    BY <1>2 DEF RoundRobin, EmptyRefuses
  <2>2. slot' \in [Tasks -> Index \cup {0}] /\ slot'[t] \in Index
    <3>1. cursor % N \in Index
      <4>1. cursor \in Nat
        BY BalancerAssumption DEF TypeOK
      <4> QED BY <2>1, <4>1, SlotInRange
    <3> QED BY <1>2, <3>1 DEF RoundRobin, TypeOK
  <2>3. cursor' \in 0 .. USize - 1
    BY <1>2, BalancerAssumption DEF RoundRobin, MoveCursor, TypeOK
  <2>4. raced' \in [Tasks -> BOOLEAN]
    <3>1. \/ raced' = [u \in Tasks |-> raced[u] \/ (u # t /\ CursorMatters(u))]
          \/ raced' = [u \in Tasks |-> raced[u] \/ CursorMatters(u)]
      BY <1>2 DEF RoundRobin, MoveCursor
    <3>2. \A u \in Tasks : raced[u] \in BOOLEAN /\ CursorMatters(u) \in BOOLEAN
      BY DEF TypeOK, CursorMatters
    <3> QED BY <3>1, <3>2
  <2>9. picks' \in [Index -> Nat] /\ pc' = [pc EXCEPT ![t] = "judging"]
    BY <1>2 DEF RoundRobin, MoveCursor, Goto, TypeOK
  <2>5. calm' \in BOOLEAN
    BY <1>2, Zenon DEF RoundRobin, MoveCursor, TypeOK
  <2>6. TypeOK'
    BY <1>2, <2>2, <2>3, <2>4, <2>5, <2>9
       DEF RoundRobin, MoveCursor, TypeOK, PCs, Selecting, Holding, config
  <2>7. ActiveIsInFlight'
    BY <1>2, <2>9, SameHolders DEF RoundRobin, MoveCursor, TypeOK, Holding
  <2> QED BY <2>1, <2>6, <2>7 DEF EmptyRefuses
<1>3. CASE LeastConnections(t) \/ IpHash(t)
  <2>1. N # 0
    BY <1>3 DEF LeastConnections, IpHash, EmptyRefuses
  <2>2. slot' \in [Tasks -> Index \cup {0}] /\ slot'[t] \in Index
    <3>1. CASE LeastConnections(t)
      BY <3>1, <2>1, BalancerAssumption DEF LeastConnections, TypeOK, Index
    <3>2. CASE IpHash(t)
      <4>1. Hash[ip[t]] + tried[t] \in Nat
        <5>1. Hash[ip[t]] \in Nat
          BY BalancerAssumption DEF TypeOK
        <5>2. tried[t] \in Nat
          BY BalancerAssumption DEF TypeOK, Index
        <5> QED BY <5>1, <5>2
      <4>2. (Hash[ip[t]] + tried[t]) % N \in Index
        BY <4>1, <2>1, SlotInRange
      <4> QED BY <3>2, <4>2 DEF IpHash, TypeOK
    <3> QED BY <1>3, <3>1, <3>2
  <2>3. /\ pc' = [pc EXCEPT ![t] = "judging"] /\ pc[t] = "looking"
        /\ UNCHANGED <<config, shared, tried, best, bestLoad, history>>
    BY <1>3 DEF LeastConnections, IpHash, Goto
  <2>6. \A u \in Tasks \ {t} : slot'[u] = slot[u]
    BY <1>3 DEF LeastConnections, IpHash, TypeOK
  <2>4. TypeOK'
    BY <2>2, <2>3, <2>6 DEF TypeOK, PCs, Selecting, Holding, config, shared, history
  <2>5. ActiveIsInFlight'
    BY <2>3, SameHolders DEF TypeOK, Holding, shared
  <2> QED BY <2>1, <2>4, <2>5 DEF EmptyRefuses
<1>4. CASE JudgeDown(t)
  <2>1. best' = best /\ best' \in [Tasks -> Index \cup {NoBackend}]
        /\ pc[t] = "judging" /\ Advance(t)
    BY <1>4 DEF JudgeDown, TypeOK
  <2>2. /\ tried' \in [Tasks -> Index \cup {0}]
        /\ pc' \in [Tasks -> PCs]
        /\ pc'[t] \in {"looking", "refused", "picked"}
        /\ pc'[t] = "picked" => best'[t] \in Index
        /\ \A u \in Tasks \ {t} : pc'[u] = pc[u]
    BY <2>1, AdvanceTypes
  <2>3. TypeOK'
    BY <1>4, <2>1, <2>2 DEF JudgeDown, TypeOK, Holding, config, shared, history
  <2>4. ActiveIsInFlight'
    BY <1>4, <2>1, <2>2, SameHolders DEF JudgeDown, Holding, shared
  <2>5. N # 0
    BY <2>1 DEF EmptyRefuses
  <2> QED BY <2>3, <2>4, <2>5 DEF EmptyRefuses
<1>5. CASE JudgeUp(t)
  <2>1. /\ slot[t] \in Index /\ pc[t] = "judging"
        /\ pc' \in [Tasks -> PCs]
        /\ pc'[t] \in {"counting", "picked"}
        /\ \A u \in Tasks \ {t} : pc'[u] = pc[u] /\ best'[u] = best[u]
        /\ best' \in [Tasks -> Index \cup {NoBackend}]
        /\ pc'[t] = "picked" => best'[t] \in Index
    BY <1>5 DEF JudgeUp, Goto, TypeOK, PCs, Selecting
  <2>2. /\ tried' \in [Tasks -> Index \cup {0}]
        /\ failures' \in [Index -> 0 .. CB_THRESHOLD]
        /\ circuit' \in [Index -> {"closed", "open", "expired"}]
    BY <1>5, BalancerAssumption DEF JudgeUp, TypeOK
  <2>3. TypeOK'
    BY <1>5, <2>1, <2>2 DEF JudgeUp, TypeOK, Holding, config, history
  <2>4. ActiveIsInFlight'
    BY <1>5, <2>1, SameHolders DEF JudgeUp, Holding
  <2>5. N # 0
    BY <2>1 DEF EmptyRefuses
  <2> QED BY <2>3, <2>4, <2>5 DEF EmptyRefuses
<1>6. CASE CountActive(t)
  <2>1. /\ slot[t] \in Index /\ pc[t] = "counting"
        /\ best' \in [Tasks -> Index \cup {NoBackend}]
        /\ bestLoad' \in [Tasks -> Nat]
        /\ \A u \in Tasks \ {t} : best'[u] = best[u]
    BY <1>6 DEF CountActive, TypeOK
  <2>2. /\ tried' \in [Tasks -> Index \cup {0}]
        /\ pc' \in [Tasks -> PCs]
        /\ pc'[t] \in {"looking", "refused", "picked"}
        /\ pc'[t] = "picked" => best'[t] \in Index
        /\ \A u \in Tasks \ {t} : pc'[u] = pc[u]
    BY <1>6, <2>1, AdvanceTypes DEF CountActive
  <2>3. TypeOK'
    BY <1>6, <2>1, <2>2 DEF CountActive, TypeOK, Holding, config, shared, history
  <2>4. ActiveIsInFlight'
    BY <1>6, <2>1, <2>2, SameHolders DEF CountActive, Holding, shared
  <2>5. N # 0
    BY <2>1 DEF EmptyRefuses
  <2> QED BY <2>3, <2>4, <2>5 DEF EmptyRefuses
<1>7. CASE Refuse(t)
  <2>1. TypeOK'
    BY <1>7, BalancerAssumption DEF Refuse, Goto, TypeOK, PCs, Holding, config, shared
  <2>2. ActiveIsInFlight'
    BY <1>7, SameHolders DEF Refuse, Goto, TypeOK, Holding, shared
  <2> QED BY <1>7, <2>1, <2>2 DEF Refuse, Goto, TypeOK, EmptyRefuses
<1> QED BY <1>1, <1>2, <1>3, <1>4, <1>5, <1>6, <1>7

\* acquire makes a guard and counts it.
LEMMA AcquireKeepsIInv ==
  ASSUME IInv, NEW t \in Tasks, Acquire(t)
  PROVE  IInv'
<1> USE DEF IInv
<1>1. /\ pc[t] = "picked" /\ best[t] \in Index
      /\ pc' = [pc EXCEPT ![t] = "serving"] /\ best' = best
      /\ active' = [active EXCEPT ![best[t]] = @ + 1]
  BY DEF Acquire, Goto, TypeOK
<1>2. TypeOK'
  <2>1. active' \in [Index -> Nat] /\ slot' \in [Tasks -> Index \cup {0}] /\ bestLoad' \in [Tasks -> Nat]
        /\ picks' \in [Index -> Nat]
    BY <1>1, BalancerAssumption DEF Acquire, TypeOK
  <2>2. raced' \in [Tasks -> BOOLEAN] /\ up' \in [Tasks -> SUBSET Index]
    BY DEF Acquire, TypeOK
  <2> QED BY <1>1, <2>1, <2>2 DEF Acquire, TypeOK, PCs, Holding, config
<1>3. Holders(best[t])' = Holders(best[t]) \cup {t} /\ t \notin Holders(best[t])
  BY <1>1 DEF Holders, Holding, TypeOK
<1>4. \A b \in Index \ {best[t]} : Holders(b)' = Holders(b)
  BY <1>1 DEF Holders, Holding, TypeOK
<1>5. Cardinality(Holders(best[t])') = Cardinality(Holders(best[t])) + 1
  BY <1>3, HoldersFinite, FS_AddElement
<1>6. ActiveIsInFlight'
  BY <1>1, <1>4, <1>5 DEF ActiveIsInFlight, TypeOK
<1> QED BY <1>1, <1>2, <1>6 DEF EmptyRefuses

\* Dropping the guard takes it off the count, which was positive.
LEMMA ReleaseKeepsIInv ==
  ASSUME IInv, NEW t \in Tasks, Release(t)
  PROVE  IInv'
<1> USE DEF IInv
<1>1. PICK x \in Index : x = best[t]
  BY DEF Release, TypeOK
<1>2. /\ pc[t] \in Holding
      /\ pc' = [pc EXCEPT ![t] = "idle"] /\ best' = [best EXCEPT ![t] = NoBackend]
      /\ active' = [active EXCEPT ![x] = @ - 1]
  BY <1>1 DEF Release, Goto
<1>3. NoBackend \notin Index
  BY BalancerAssumption DEF NoBackend, Index
<1>4. t \in Holders(x) /\ Holders(x)' = Holders(x) \ {t}
  BY <1>1, <1>2, <1>3 DEF Holders, Holding, TypeOK
<1>5. \A b \in Index \ {x} : Holders(b)' = Holders(b)
  BY <1>1, <1>2, <1>3 DEF Holders, Holding, TypeOK
<1>6. /\ Cardinality(Holders(x)') = Cardinality(Holders(x)) - 1
      /\ Cardinality(Holders(x)') \in Nat
  BY <1>4, HoldersFinite, FS_RemoveElement, FS_CardinalityType
<1>7. ActiveIsInFlight'
  <2>1. active'[x] = Cardinality(Holders(x)')
    BY <1>2, <1>6 DEF ActiveIsInFlight, TypeOK
  <2>2. \A b \in Index \ {x} : active'[b] = Cardinality(Holders(b)')
    BY <1>2, <1>5 DEF ActiveIsInFlight, TypeOK
  <2> QED BY <2>1, <2>2 DEF ActiveIsInFlight
<1>8. active' \in [Index -> Nat]
  BY <1>2, <1>6, <1>7 DEF ActiveIsInFlight, TypeOK
<1>9. TypeOK'
  <2>1. raced' \in [Tasks -> BOOLEAN] /\ settled' \in [Tasks -> BOOLEAN]
    BY DEF Release, TypeOK
  <2> QED BY <1>2, <1>8, <2>1 DEF Release, TypeOK, PCs, Holding, config
<1> QED BY <1>2, <1>7, <1>9 DEF EmptyRefuses, TypeOK

\* The reports to the circuits, of a request and of the health checker, and
\* the passing of time: guards and counts are left alone.
LEMMA ReportsKeepIInv ==
  ASSUME IInv,
         \/ \E t \in Tasks : Succeed(t)
         \/ \E b \in Index : CheckPassed(b) \/ CheckFailed(b) \/ Expire(b)
  PROVE  IInv'
<1> USE DEF IInv
<1>1. ASSUME NEW b, record_success(b) \/ record_failure(b)
      PROVE  /\ failures' \in [Index -> 0 .. CB_THRESHOLD]
             /\ circuit' \in [Index -> {"closed", "open", "expired"}]
             /\ up' \in [Tasks -> SUBSET Index]
             /\ settled' \in [Tasks -> BOOLEAN]
             /\ raced' \in [Tasks -> BOOLEAN]
             /\ calm' \in BOOLEAN
             /\ picks' \in [Index -> Nat]
  <2>1. \E c : Witness(b, c)
    BY <1>1 DEF record_success, record_failure
  <2>2. failures' \in [Index -> 0 .. CB_THRESHOLD]
    <3>1. CASE record_success(b)
      <4>1. 0 \in 0 .. CB_THRESHOLD /\ failures' = [failures EXCEPT ![b] = 0]
        BY <3>1, BalancerAssumption DEF record_success
      <4> QED BY <4>1, ExceptType DEF TypeOK
    <3>2. CASE record_failure(b)
      <4>1. CASE b \in Index
        <5> DEFINE f == IF failures[b] < CB_THRESHOLD THEN failures[b] + 1 ELSE failures[b]
        <5>1. f \in 0 .. CB_THRESHOLD
          BY <4>1, BalancerAssumption DEF TypeOK
        <5>2. failures' = [failures EXCEPT ![b] = f]
          BY <3>2 DEF record_failure
        <5> QED BY <5>1, <5>2, ExceptType DEF TypeOK
      <4>2. CASE b \notin Index
        BY <3>2, <4>2 DEF record_failure, TypeOK
      <4> QED BY <4>1, <4>2
    <3> QED BY <1>1, <3>1, <3>2
  <2>3. circuit' \in [Index -> {"closed", "open", "expired"}]
    BY <1>1 DEF record_success, record_failure, TypeOK
  <2> QED BY <2>1, <2>2, <2>3, WitnessTypes
<1>2. ASSUME NEW t \in Tasks, Succeed(t) PROVE IInv'
  <2>1. TypeOK'
    BY <1>1, <1>2 DEF Succeed, Goto, TypeOK, PCs, Holding, config, locals
  <2>2. ActiveIsInFlight'
    BY <1>2, SameHolders DEF Succeed, Goto, TypeOK, Holding, locals
  <2> QED BY <1>2, <2>1, <2>2 DEF Succeed, EmptyRefuses
<1>3. ASSUME NEW b \in Index, CheckPassed(b) \/ CheckFailed(b) PROVE IInv'
  <2>1. TypeOK'
    BY <1>1, <1>3 DEF CheckPassed, CheckFailed, TypeOK, config, locals
  <2>2. ActiveIsInFlight'
    BY <1>3, SameHolders DEF CheckPassed, CheckFailed, locals
  <2> QED BY <1>3, <2>1, <2>2 DEF CheckPassed, CheckFailed, EmptyRefuses
<1>4. ASSUME NEW b \in Index, Expire(b) PROVE IInv'
  <2>1. TypeOK'
    BY <1>4, WitnessTypes DEF Expire, TypeOK, config, locals
  <2>2. ActiveIsInFlight'
    BY <1>4, SameHolders DEF Expire, locals
  <2> QED BY <1>4, <2>1, <2>2 DEF Expire, EmptyRefuses
<1> QED BY <1>2, <1>3, <1>4

LEMMA NextIInv == IInv /\ [Next]_vars => IInv'
<1> SUFFICES ASSUME IInv, [Next]_vars PROVE IInv'
  OBVIOUS
<1>1. CASE Next
  BY <1>1, SearchKeepsIInv, AcquireKeepsIInv, ReleaseKeepsIInv, ReportsKeepIInv
     DEF Next, Select
<1>2. CASE UNCHANGED vars
  BY <1>2, SameHolders
     DEF IInv, TypeOK, EmptyRefuses, vars, config, shared, locals, history
<1> QED BY <1>1, <1>2

-----------------------------------------------------------------------------
\* Types and counts hold throughout, for every interleaving of the selects
\* and every way a request ends.
THEOREM BalancerInvariant == Spec => []IInv
BY InitIInv, NextIInv, PTL DEF Spec

\* No select, with any strategy, cursor or address, indexes past the list.
THEOREM TypeCorrect == Spec => []TypeOK
<1>1. IInv => TypeOK
  BY DEF IInv
<1> QED BY <1>1, BalancerInvariant, PTL

\* The active count of a backend is the number of its live guards.
THEOREM CountsAreGuards == Spec => []ActiveIsInFlight
<1>1. IInv => ActiveIsInFlight
  BY DEF IInv
<1> QED BY <1>1, BalancerInvariant, PTL

-----------------------------------------------------------------------------
(* ip_hash                                                                 *)

\* The backend a task looks at in its j-th iteration.
Probe(t, j) == (Hash[ip[t]] + j) % N

\* The first available backend on the task's walk.
FirstAvailable(t, b) ==
  \E j \in Nat : /\ b = Probe(t, j) /\ Available(Probe(t, j))
                 /\ \A i \in 0 .. j - 1 : ~Available(Probe(t, i))

\* As long as no backend came or went, a task has passed only unavailable
\* backends and ends with the first one that is available.
Walks(t) ==
  /\ pc[t] # "counting"
  /\ pc[t] \notin {"picked"} \cup Holding => best[t] = NoBackend
  /\ pc[t] \notin {"looking", "judging"} => tried[t] = 0
  /\ pc[t] = "judging" => slot[t] = Probe(t, tried[t])
  /\ settled[t] /\ pc[t] \in {"looking", "judging"} =>
       \A j \in 0 .. tried[t] - 1 : ~Available(Probe(t, j))
  /\ settled[t] /\ pc[t] \in {"picked"} \cup Holding => FirstAvailable(t, best[t])

AllWalk == strategy = "IpHash" => \A t \in Tasks : Walks(t)

\* A walk never leaves the list.
LEMMA ProbeInList ==
  ASSUME IInv, N # 0, NEW t \in Tasks, NEW j \in Nat
  PROVE  Probe(t, j) \in Index
<1>1. Hash[ip[t]] \in Nat
  BY BalancerAssumption DEF IInv, TypeOK
<1>2. Hash[ip[t]] + j \in Nat
  BY <1>1
<1> QED BY <1>2, SlotInRange DEF Probe

\* A task that a step does not move keeps its walk, if no backend came or went
\* or if the task is told so (settled).
LEMMA UnmovedWalks ==
  ASSUME IInv, NEW u \in Tasks, Walks(u), N # 0, ip' = ip,
         pc'[u] = pc[u], tried'[u] = tried[u], slot'[u] = slot[u], best'[u] = best[u],
         \/ settled'[u] => settled[u] /\ \A x \in Index : Available(x)' = Available(x)
         \/ settled'[u] => pc[u] = "idle"
  PROVE  Walks(u)'
<1>1. \A j \in Nat : Probe(u, j)' = Probe(u, j) /\ Probe(u, j) \in Index
  BY ProbeInList DEF Probe
<1>2. tried[u] \in Nat
  BY BalancerAssumption DEF IInv, TypeOK, Index
<1>3. CASE settled'[u] => settled[u] /\ \A x \in Index : Available(x)' = Available(x)
  <2>1. ASSUME settled'[u], NEW b, FirstAvailable(u, b)
        PROVE  \E j \in Nat : /\ b = Probe(u, j)' /\ Available(Probe(u, j))'
                             /\ \A i \in 0 .. j - 1 : ~Available(Probe(u, i))'
    <3>1. PICK j \in Nat : /\ b = Probe(u, j) /\ Available(Probe(u, j))
                           /\ \A i \in 0 .. j - 1 : ~Available(Probe(u, i))
      BY <2>1 DEF FirstAvailable
    <3>2. \A i \in Nat : Available(Probe(u, i))' = Available(Probe(u, i))
      BY <1>1, <1>3, <2>1 DEF Available
    <3>3. b = Probe(u, j)' /\ Available(Probe(u, j))'
          /\ \A i \in 0 .. j - 1 : ~Available(Probe(u, i))'
      BY <1>1, <3>1, <3>2
    <3> QED BY <3>3
  <2>2. settled'[u] /\ pc[u] \in {"picked"} \cup Holding => FirstAvailable(u, best[u])'
    BY <1>3, <2>1 DEF Walks, FirstAvailable
  <2>3. settled'[u] /\ pc[u] \in {"looking", "judging"} =>
          \A j \in 0 .. tried[u] - 1 : ~Available(Probe(u, j))'
    BY <1>1, <1>2, <1>3 DEF Walks, Available
  <2> QED BY <1>1, <1>2, <2>2, <2>3 DEF Walks
<1>4. CASE settled'[u] => pc[u] = "idle"
  BY <1>1, <1>2, <1>4 DEF Walks, Holding
<1> QED BY <1>3, <1>4

\* What Witness says of a circuit's change.
LEMMA WitnessTells ==
  ASSUME TypeOK, NEW b, NEW c, Witness(b, c), circuit' = [circuit EXCEPT ![b] = c]
  PROVE  \/ UNCHANGED settled /\ \A x \in Index : Available(x)' = Available(x)
         \/ settled' = [t \in Tasks |-> pc[t] = "idle"]
<1>1. CASE Available(b) = (c # "open")
  BY <1>1 DEF Witness, Available, TypeOK
<1>2. CASE Available(b) # (c # "open")
  BY <1>2 DEF Witness
<1> QED BY <1>1, <1>2

\* A step of the search keeps every task's walk.
LEMMA SearchWalks ==
  ASSUME IInv, strategy = "IpHash", \A u \in Tasks : Walks(u), NEW t \in Tasks,
         IpHash(t) \/ JudgeDown(t) \/ JudgeUp(t)
  PROVE  \A u \in Tasks : Walks(u)'
<1>1. /\ pc \in [Tasks -> PCs] /\ tried \in [Tasks -> Index \cup {0}]
      /\ slot \in [Tasks -> Index \cup {0}] /\ best \in [Tasks -> Index \cup {NoBackend}]
      /\ circuit \in [Index -> {"closed", "open", "expired"}]
  BY DEF IInv, TypeOK
<1>2. N # 0 /\ N \in Nat
  BY BalancerAssumption DEF IInv, EmptyRefuses, IpHash, JudgeDown, JudgeUp
<1>3. ip' = ip /\ settled' = settled /\ tried[t] \in Nat
  BY <1>1, <1>2 DEF IpHash, JudgeDown, JudgeUp, config, history, Index
<1>4. \A x \in Index : Available(x)' = Available(x)
  BY <1>1 DEF IpHash, JudgeDown, JudgeUp, Available, shared
<1>5. ASSUME NEW u \in Tasks, u # t PROVE Walks(u)'
  <2>1. /\ pc'[u] = pc[u] /\ tried'[u] = tried[u] /\ slot'[u] = slot[u]
        /\ best'[u] = best[u]
    BY <1>1, <1>5 DEF IpHash, JudgeDown, JudgeUp, Goto, Advance
  <2> QED BY <1>2, <1>3, <1>4, <2>1, UnmovedWalks
<1>6. \A j \in Nat : /\ Probe(t, j)' = Probe(t, j)
                     /\ Available(Probe(t, j))' = Available(Probe(t, j))
  BY <1>2, <1>3, <1>4, ProbeInList DEF Probe, Available
<1>7. CASE IpHash(t)
  <2>1. /\ pc[t] = "looking" /\ pc' = [pc EXCEPT ![t] = "judging"]
        /\ slot' = [slot EXCEPT ![t] = Probe(t, tried[t])]
        /\ tried' = tried /\ best' = best
    BY <1>7 DEF IpHash, Goto, Probe
  <2>2. \A j \in 0 .. tried[t] - 1 : j \in Nat
    BY <1>3
  <2>3. Walks(t)'
    BY <1>1, <1>3, <1>6, <2>1, <2>2 DEF Walks, Holding
  <2> QED BY <1>5, <2>3
<1>8. CASE JudgeDown(t)
  <2>1. pc[t] = "judging" /\ slot[t] = Probe(t, tried[t]) /\ ~Available(slot[t])
    BY <1>8 DEF JudgeDown, Walks
  <2>2. settled[t] => \A j \in 0 .. tried[t] : ~Available(Probe(t, j))
    <3>1. settled[t] => \A j \in 0 .. tried[t] - 1 : ~Available(Probe(t, j))
      BY <2>1 DEF Walks
    <3>2. \A j \in 0 .. tried[t] : j \in 0 .. tried[t] - 1 \/ j = tried[t]
      BY <1>3
    <3> QED BY <2>1, <3>1, <3>2
  <2>3. CASE tried[t] + 1 < N
    <3>1. tried' = [tried EXCEPT ![t] = tried[t] + 1] /\ pc' = [pc EXCEPT ![t] = "looking"]
          /\ best' = best
      BY <1>8, <2>3 DEF JudgeDown, Advance, Goto
    <3>2. \A j \in 0 .. (tried[t] + 1) - 1 : j \in 0 .. tried[t] /\ j \in Nat
      BY <1>3
    <3>3. settled'[t] => \A j \in 0 .. tried'[t] - 1 : ~Available(Probe(t, j))'
      BY <1>1, <1>3, <1>6, <2>2, <3>1, <3>2
    <3>4. best[t] = NoBackend
      BY <2>1 DEF Walks, Holding
    <3>5. Walks(t)'
      BY <1>1, <3>1, <3>3, <3>4 DEF Walks, Holding
    <3> QED BY <1>5, <3>5
  <2>4. CASE ~(tried[t] + 1 < N)
    <3>1. best[t] = NoBackend
      BY <2>1 DEF Walks, Holding
    <3>2. tried' = [tried EXCEPT ![t] = 0] /\ pc' = [pc EXCEPT ![t] = "refused"]
          /\ best' = best
      BY <1>8, <2>4, <3>1 DEF JudgeDown, Advance, Goto
    <3>3. Walks(t)'
      BY <1>1, <1>3, <3>1, <3>2 DEF Walks, Holding
    <3> QED BY <1>5, <3>3
  <2> QED BY <2>3, <2>4
<1>9. CASE JudgeUp(t)
  <2>1. /\ pc[t] = "judging" /\ slot[t] = Probe(t, tried[t]) /\ Available(slot[t])
        /\ pc' = [pc EXCEPT ![t] = "picked"] /\ tried' = [tried EXCEPT ![t] = 0]
        /\ best' = [best EXCEPT ![t] = slot[t]]
    BY <1>9 DEF JudgeUp, Walks, Goto
  <2>2. settled[t] => \A j \in 0 .. tried[t] - 1 : ~Available(Probe(t, j))
    BY <2>1 DEF Walks
  <2>3. \A j \in 0 .. tried[t] - 1 : j \in Nat
    BY <1>3
  <2>4. settled[t] => FirstAvailable(t, best[t])'
    BY <1>1, <1>3, <1>6, <2>1, <2>2, <2>3 DEF FirstAvailable
  <2>5. Walks(t)'
    BY <1>1, <1>3, <2>1, <2>4 DEF Walks, Holding
  <2> QED BY <1>5, <2>5
<1> QED BY <1>7, <1>8, <1>9

\* So does every other step of a request.
LEMMA RequestWalks ==
  ASSUME IInv, strategy = "IpHash", \A u \in Tasks : Walks(u), NEW t \in Tasks,
         Begin(t) \/ Refuse(t) \/ Acquire(t) \/ Release(t)
  PROVE  \A u \in Tasks : Walks(u)'
<1>1. /\ pc \in [Tasks -> PCs] /\ tried \in [Tasks -> Index \cup {0}]
      /\ slot \in [Tasks -> Index \cup {0}] /\ best \in [Tasks -> Index \cup {NoBackend}]
      /\ settled \in [Tasks -> BOOLEAN]
  BY DEF IInv, TypeOK
<1>2. ip' = ip /\ circuit' = circuit /\ tried' = tried
  BY DEF Begin, Refuse, Acquire, Release, config, shared, locals
<1>3. \A x : Available(x)' = Available(x)
  BY <1>2 DEF Available
<1>4. \A u, j : Probe(u, j)' = Probe(u, j)
  BY <1>2 DEF Probe
<1>5. ASSUME NEW u \in Tasks, u # t PROVE Walks(u)'
  <2>1. /\ pc'[u] = pc[u] /\ slot'[u] = slot[u] /\ best'[u] = best[u]
        /\ settled'[u] = settled[u]
    BY <1>1, <1>5 DEF Begin, Refuse, Acquire, Release, Goto, locals
  <2>2. \A b : FirstAvailable(u, b)' = FirstAvailable(u, b)
    BY <1>3, <1>4 DEF FirstAvailable
  <2> QED BY <1>2, <1>3, <1>4, <2>1, <2>2 DEF Walks
<1>6. Walks(t)'
  <2>1. CASE Begin(t)
    <3>1. PICK place \in {"refused", "looking"} : pc' = [pc EXCEPT ![t] = place]
      BY <2>1 DEF Begin, Goto
    <3>2. pc[t] = "idle" /\ best' = best /\ tried[t] = 0 /\ best[t] = NoBackend
      BY <2>1 DEF Begin, locals, Walks, Holding
    <3>3. \A j \in 0 .. tried'[t] - 1 : FALSE
      BY <1>2, <3>2
    <3> QED BY <1>1, <1>2, <3>1, <3>2, <3>3 DEF Walks, Holding
  <2>2. CASE Refuse(t)
    <3>1. /\ pc[t] = "refused" /\ pc' = [pc EXCEPT ![t] = "idle"] /\ best' = best
          /\ tried[t] = 0 /\ best[t] = NoBackend
      BY <2>2 DEF Refuse, Goto, Walks, Holding
    <3> QED BY <1>1, <1>2, <3>1 DEF Walks, Holding
  <2>3. CASE Acquire(t)
    <3>1. /\ pc[t] = "picked" /\ pc' = [pc EXCEPT ![t] = "serving"] /\ best' = best
          /\ tried[t] = 0 /\ settled' = settled
      BY <2>3 DEF Acquire, Goto, Walks
    <3>2. settled[t] => FirstAvailable(t, best[t])
      BY <3>1 DEF Walks
    <3>3. FirstAvailable(t, best[t])' = FirstAvailable(t, best[t])
      BY <1>3, <1>4, <3>1 DEF FirstAvailable
    <3> QED BY <1>1, <1>2, <3>1, <3>2, <3>3 DEF Walks, Holding
  <2>4. CASE Release(t)
    <3>1. /\ pc[t] \in Holding /\ pc' = [pc EXCEPT ![t] = "idle"]
          /\ best' = [best EXCEPT ![t] = NoBackend] /\ tried[t] = 0
      BY <2>4 DEF Release, Goto, Walks, Holding
    <3> QED BY <1>1, <1>2, <3>1 DEF Walks, Holding
  <2> QED BY <2>1, <2>2, <2>3, <2>4
<1> QED BY <1>5, <1>6

\* A report, or time, may bring a backend or take it away: then every task that
\* is on its way is told so.
LEMMA ReportWalks ==
  ASSUME IInv, strategy = "IpHash", \A u \in Tasks : Walks(u), NEW b, NEW c,
         Witness(b, c), circuit' = [circuit EXCEPT ![b] = c],
         UNCHANGED <<ip, locals>>,
         \/ UNCHANGED pc
         \/ \E t \in Tasks : pc[t] = "serving" /\ pc' = [pc EXCEPT ![t] = "answered"]
  PROVE  \A u \in Tasks : Walks(u)'
<1>1. /\ pc \in [Tasks -> PCs] /\ settled \in [Tasks -> BOOLEAN] /\ TypeOK
  BY DEF IInv, TypeOK
<1> SUFFICES ASSUME NEW u \in Tasks PROVE Walks(u)'
  OBVIOUS
<1>2. tried' = tried /\ slot' = slot /\ best' = best /\ ip' = ip
  BY DEF locals
<1>3. CASE UNCHANGED settled /\ \A x \in Index : Available(x)' = Available(x)
  <2>1. \/ pc'[u] = pc[u]
        \/ pc[u] = "serving" /\ pc'[u] = "answered"
    BY <1>1
  <2>2. CASE N = 0
    BY <1>1, <1>2, <2>1, <2>2 DEF Walks, IInv, EmptyRefuses, Holding
  <2>3. CASE N # 0 /\ pc'[u] = pc[u]
    BY <1>2, <1>3, <2>3, UnmovedWalks
  <2>4. CASE N # 0 /\ pc[u] = "serving" /\ pc'[u] = "answered"
    <3>1. \A j \in Nat : /\ Probe(u, j)' = Probe(u, j)
                         /\ Available(Probe(u, j))' = Available(Probe(u, j))
      BY <1>2, <1>3, <2>4, ProbeInList DEF Probe, Available
    <3>2. settled[u] => FirstAvailable(u, best[u])
      BY <2>4 DEF Walks, Holding
    <3>3. \A j \in Nat : \A i \in 0 .. j - 1 : i \in Nat
      OBVIOUS
    <3>4. settled'[u] => FirstAvailable(u, best[u])'
      BY <1>2, <1>3, <3>1, <3>2, <3>3 DEF FirstAvailable
    <3> QED BY <1>2, <2>4, <3>4 DEF Walks, Holding
  <2> QED BY <2>1, <2>2, <2>3, <2>4
<1>4. CASE settled' = [t \in Tasks |-> pc[t] = "idle"]
  <2>1. settled'[u] => pc[u] = "idle"
    BY <1>4
  <2>2. \/ pc'[u] = pc[u]
        \/ pc[u] = "serving" /\ pc'[u] = "answered"
    BY <1>1
  <2>3. \A j : Probe(u, j)' = Probe(u, j)
    BY <1>2 DEF Probe
  <2> QED BY <1>2, <2>1, <2>2, <2>3 DEF Walks, Holding
<1> QED BY <1>1, <1>3, <1>4, WitnessTells

LEMMA NextWalks == IInv /\ AllWalk /\ [Next]_vars => AllWalk'
<1> SUFFICES ASSUME IInv, AllWalk, [Next]_vars PROVE AllWalk'
  OBVIOUS
<1>1. strategy' = strategy
  BY DEF Next, Select, Begin, RoundRobin, MoveCursor, LeastConnections, IpHash,
     JudgeDown, JudgeUp, CountActive, Refuse, Acquire, Succeed, Release,
     CheckPassed, CheckFailed, Expire, config, vars
<1> SUFFICES ASSUME strategy = "IpHash" PROVE \A u \in Tasks : Walks(u)'
  BY <1>1 DEF AllWalk
<1>2. \A u \in Tasks : Walks(u)
  BY DEF AllWalk
<1>3. ASSUME NEW t \in Tasks, Select(t) PROVE \A u \in Tasks : Walks(u)'
  <2>1. ~RoundRobin(t) /\ ~LeastConnections(t) /\ ~CountActive(t)
    BY <1>2 DEF RoundRobin, LeastConnections, CountActive, Walks
  <2> QED BY <1>2, <1>3, <2>1, SearchWalks, RequestWalks DEF Select
<1>4. ASSUME NEW t \in Tasks, Succeed(t) PROVE \A u \in Tasks : Walks(u)'
  <2>1. PICK b : b = Find(url[best[t]])
    OBVIOUS
  <2>2. /\ Witness(b, "closed") /\ circuit' = [circuit EXCEPT ![b] = "closed"]
        /\ UNCHANGED <<ip, locals>>
        /\ pc[t] = "serving" /\ pc' = [pc EXCEPT ![t] = "answered"]
    BY <1>4, <2>1 DEF Succeed, record_success, Goto, config
  <2> QED BY <1>2, <2>2, ReportWalks
<1>5. ASSUME NEW t \in Tasks, Release(t) PROVE \A u \in Tasks : Walks(u)'
  BY <1>2, <1>5, RequestWalks
<1>6. ASSUME NEW x \in Index, CheckPassed(x) \/ CheckFailed(x)
      PROVE  \A u \in Tasks : Walks(u)'
  <2>1. PICK b : b = Find(url[x])
    OBVIOUS
  <2>2. PICK c \in {"open", "closed"} :
          Witness(b, c) /\ circuit' = [circuit EXCEPT ![b] = c]
    BY <1>6, <2>1 DEF CheckPassed, CheckFailed, record_success, record_failure
  <2>3. UNCHANGED <<ip, locals, pc>>
    BY <1>6 DEF CheckPassed, CheckFailed, config
  <2> QED BY <1>2, <2>2, <2>3, ReportWalks
<1>7. ASSUME NEW b \in Index, Expire(b) PROVE \A u \in Tasks : Walks(u)'
  <2>1. /\ Witness(b, "expired") /\ circuit' = [circuit EXCEPT ![b] = "expired"]
        /\ UNCHANGED <<ip, locals, pc>>
    BY <1>7 DEF Expire, config
  <2> QED BY <1>2, <2>1, ReportWalks
<1>8. CASE UNCHANGED vars
  BY <1>2, <1>8 DEF vars, config, shared, locals, history, Walks, Probe, Available,
     FirstAvailable
<1> QED BY <1>3, <1>4, <1>5, <1>6, <1>7, <1>8 DEF Next

\* The first available backend of an address is one.
LEMMA FirstIsUnique ==
  ASSUME NEW t, NEW u, ip[t] = ip[u], NEW b, NEW c,
         FirstAvailable(t, b), FirstAvailable(u, c)
  PROVE  b = c
<1>1. \A j : Probe(u, j) = Probe(t, j)
  BY DEF Probe
<1>2. PICK j \in Nat : /\ b = Probe(t, j) /\ Available(Probe(t, j))
                       /\ \A i \in 0 .. j - 1 : ~Available(Probe(t, i))
  BY DEF FirstAvailable
<1>3. PICK k \in Nat : /\ c = Probe(t, k) /\ Available(Probe(t, k))
                       /\ \A i \in 0 .. k - 1 : ~Available(Probe(t, i))
  BY <1>1 DEF FirstAvailable
<1>4. ~(j < k) /\ ~(k < j)
  <2>1. (j < k => j \in 0 .. k - 1) /\ (k < j => k \in 0 .. j - 1)
    OBVIOUS
  <2> QED BY <1>2, <1>3, <2>1
<1>5. j = k
  BY <1>4
<1> QED BY <1>2, <1>3, <1>5

\* ip_hash keeps an address on one backend while none comes or goes, for any
\* number of tasks and backends, however busy they are and however the selects
\* are interleaved.
THEOREM AddressStays == Spec => []Affinity
<1>1. Init => AllWalk
  BY DEF Init, AllWalk, Walks, Holding
<1>2. IInv /\ AllWalk => Affinity
  BY FirstIsUnique DEF AllWalk, Walks, Affinity
<1> QED BY <1>1, <1>2, NextWalks, BalancerInvariant, PTL DEF Spec

-----------------------------------------------------------------------------
(* least_connections.  The scan of a task has seen the backends below       *)
(* tried[t]: if one of them was available throughout, the scan has a        *)
(* candidate, and unless a count moved meanwhile none of them has fewer     *)
(* active requests than that candidate.                                     *)
Scanning == {"looking", "judging", "counting"}

HasCandidate(t, k) == \A b \in up[t] : b < k => best[t] \in Index

Least(t, k) ==
  /\ best[t] \in Index => bestLoad[t] = active[best[t]]
  /\ \A b \in up[t] : b < k => active[best[t]] <= active[b]

Scans(t) ==
  /\ \A b \in up[t] : Available(b)
  /\ pc[t] \in {"idle", "refused"} => best[t] = NoBackend
  /\ pc[t] \notin Scanning => tried[t] = 0
  /\ pc[t] \in {"judging", "counting"} => slot[t] = tried[t]
  /\ pc[t] \in Scanning => HasCandidate(t, tried[t])
  /\ pc[t] = "refused" => up[t] = {}
  /\ pc[t] \in Scanning /\ ~raced[t] => Least(t, tried[t])
  /\ pc[t] = "picked" /\ ~raced[t] => Least(t, N)

AllScan == strategy = "LeastConnections" => \A t \in Tasks : Scans(t)

\* Scans of a task that does not move itself, whatever becomes of the counts,
\* as long as it is told.
LEMMA UnmovedScans ==
  ASSUME NEW u \in Tasks, Scans(u),
         pc'[u] = pc[u], tried'[u] = tried[u], slot'[u] = slot[u],
         best'[u] = best[u], bestLoad'[u] = bestLoad[u],
         up'[u] \subseteq up[u], \A b \in up'[u] : Available(b)',
         (raced'[u] = raced[u] /\ UNCHANGED active) \/ (pc[u] \in Selecting => raced'[u])
  PROVE  Scans(u)'
<1>1. /\ \A b \in up'[u] : Available(b)'
      /\ pc'[u] \in {"idle", "refused"} => best'[u] = NoBackend
      /\ pc'[u] \notin Scanning => tried'[u] = 0
      /\ pc'[u] \in {"judging", "counting"} => slot'[u] = tried'[u]
      /\ pc'[u] = "refused" => up'[u] = {}
  BY DEF Scans
<1>2. pc'[u] \in Scanning => HasCandidate(u, tried[u])'
  BY DEF Scans, HasCandidate
<1>3. \A k : Least(u, k) /\ UNCHANGED active => Least(u, k)'
  BY DEF Least
<1>4. pc'[u] \in Scanning /\ ~raced'[u] => Least(u, tried[u])'
  BY <1>3 DEF Scans, Scanning, Selecting
<1>5. pc'[u] = "picked" /\ ~raced'[u] => Least(u, N)'
  BY <1>3 DEF Scans, Selecting
<1> QED BY <1>1, <1>2, <1>4, <1>5 DEF Scans, HasCandidate, Least

\* Advance, once the backend under examination is accounted for.
LEMMA AdvanceScans ==
  ASSUME IInv, NEW t \in Tasks, Scans(t), pc[t] \in {"judging", "counting"},
         Advance(t), best' \in [Tasks -> Index \cup {NoBackend}],
         up' = up, raced' = raced, slot' = slot,
         \A b \in up[t] : Available(b)',
         NEW k, k = tried[t] + 1, HasCandidate(t, k)', ~raced[t] => Least(t, k)'
  PROVE  Scans(t)'
<1>1. /\ pc \in [Tasks -> PCs] /\ tried \in [Tasks -> Index \cup {0}]
      /\ up \in [Tasks -> SUBSET Index] /\ N \in Nat /\ tried[t] \in Nat
  BY BalancerAssumption DEF IInv, TypeOK, Index
<1>2. CASE tried[t] + 1 < N
  <2>1. tried'[t] = tried[t] + 1 /\ pc'[t] = "looking"
    BY <1>1, <1>2 DEF Advance, Goto
  <2>2. HasCandidate(t, tried[t])' /\ (~raced'[t] => Least(t, tried[t])')
    BY <2>1, <1>1 DEF HasCandidate, Least
  <2> QED BY <2>1, <2>2 DEF Scans, Scanning
<1>3. CASE ~(tried[t] + 1 < N)
  <2>1. tried'[t] = 0 /\ pc'[t] = IF best'[t] = NoBackend THEN "refused" ELSE "picked"
    BY <1>1, <1>3 DEF Advance, Goto
  <2>2. \A b \in up[t] : b < N /\ b < k
    BY <1>1, <1>3 DEF Index
  <2>3. NoBackend \notin Index
    BY <1>1 DEF NoBackend, Index
  <2>4. best'[t] = NoBackend => up'[t] = {}
    BY <2>2, <2>3 DEF HasCandidate
  <2>5. ~raced'[t] => Least(t, N)'
    BY <2>2 DEF Least
  <2> QED BY <2>1, <2>4, <2>5 DEF Scans, Scanning
<1> QED BY <1>2, <1>3

\* The steps of the scan itself.
LEMMA ScanScans ==
  ASSUME IInv, strategy = "LeastConnections", \A u \in Tasks : Scans(u),
         NEW t \in Tasks, LeastConnections(t) \/ JudgeDown(t) \/ JudgeUp(t) \/ CountActive(t)
  PROVE  \A u \in Tasks : Scans(u)'
<1>1. /\ pc \in [Tasks -> PCs] /\ tried \in [Tasks -> Index \cup {0}]
      /\ slot \in [Tasks -> Index \cup {0}] /\ best \in [Tasks -> Index \cup {NoBackend}]
      /\ bestLoad \in [Tasks -> Nat] /\ up \in [Tasks -> SUBSET Index]
      /\ active \in [Index -> Nat] /\ N \in Nat
      /\ circuit \in [Index -> {"closed", "open", "expired"}]
  BY BalancerAssumption DEF IInv, TypeOK
<1>2. up' = up /\ raced' = raced /\ active' = active
  BY DEF LeastConnections, JudgeDown, JudgeUp, CountActive, shared, history
<1>3. \A x \in Index : Available(x)' = Available(x)
  BY <1>1 DEF LeastConnections, JudgeDown, JudgeUp, CountActive, Available, shared
<1>4. \A u \in Tasks : \A b \in up[u] : Available(b)'
  BY <1>1, <1>3 DEF Scans
<1>5. ASSUME NEW u \in Tasks, u # t PROVE Scans(u)'
  <2>1. /\ pc'[u] = pc[u] /\ tried'[u] = tried[u] /\ slot'[u] = slot[u]
        /\ best'[u] = best[u] /\ bestLoad'[u] = bestLoad[u]
    BY <1>1, <1>5 DEF LeastConnections, JudgeDown, JudgeUp, CountActive, Goto, Advance
  <2> QED BY <1>2, <1>4, <2>1, UnmovedScans
<1>6. CASE LeastConnections(t)
  <2>1. /\ pc[t] = "looking" /\ pc' = [pc EXCEPT ![t] = "judging"]
        /\ slot' = [slot EXCEPT ![t] = tried[t]]
        /\ tried' = tried /\ best' = best /\ bestLoad' = bestLoad
    BY <1>6 DEF LeastConnections, Goto
  <2>2. HasCandidate(t, tried[t])' /\ (~raced'[t] => Least(t, tried[t])')
    BY <1>2, <2>1 DEF Scans, Scanning, HasCandidate, Least
  <2>3. Scans(t)'
    BY <1>1, <1>2, <1>4, <2>1, <2>2 DEF Scans, Scanning
  <2> QED BY <1>5, <2>3
<1>7. PICK k : k = tried[t] + 1
  OBVIOUS
<1>8. CASE JudgeDown(t)
  <2>1. /\ pc[t] = "judging" /\ slot[t] = tried[t] /\ ~Available(tried[t]) /\ Advance(t)
        /\ best' = best /\ bestLoad' = bestLoad /\ slot' = slot
    BY <1>8 DEF JudgeDown, Scans
  <2>2. \A b \in up[t] : b < k => b < tried[t]
    BY <1>1, <1>7, <2>1 DEF Scans, Index
  <2>3. HasCandidate(t, k)'
    BY <1>2, <2>1, <2>2 DEF Scans, Scanning, HasCandidate
  <2>4. ~raced[t] => Least(t, k)'
    BY <1>2, <2>1, <2>2 DEF Scans, Scanning, Least
  <2>5. Scans(t)'
    BY <1>1, <1>2, <1>4, <1>7, <2>1, <2>3, <2>4, AdvanceScans
  <2> QED BY <1>5, <2>5
<1>9. CASE JudgeUp(t)
  <2>1. /\ pc[t] = "judging" /\ pc' = [pc EXCEPT ![t] = "counting"]
        /\ tried' = tried /\ best' = best /\ slot' = slot /\ bestLoad' = bestLoad
    BY <1>9 DEF JudgeUp, Goto
  <2>2. HasCandidate(t, tried[t])' /\ (~raced'[t] => Least(t, tried[t])')
    BY <1>2, <2>1 DEF Scans, Scanning, HasCandidate, Least
  <2>3. Scans(t)'
    BY <1>1, <1>2, <1>4, <2>1, <2>2 DEF Scans, Scanning
  <2> QED BY <1>5, <2>3
<1>10. CASE CountActive(t)
  <2>1. /\ pc[t] = "counting" /\ slot[t] = tried[t] /\ Advance(t) /\ slot' = slot
        /\ slot[t] \in Index
    BY <1>10 DEF CountActive, Scans, IInv, TypeOK
  <2>2. HasCandidate(t, tried[t]) /\ (~raced[t] => Least(t, tried[t]))
    BY <2>1 DEF Scans, Scanning
  <2>3. \A b \in up[t] : b < k => b < tried[t] \/ b = tried[t]
    BY <1>1, <1>7, <2>1 DEF Index
  <2>4. NoBackend \notin Index
    BY <1>1 DEF NoBackend, Index
  <2>5. CASE best[t] = NoBackend \/ active[slot[t]] < bestLoad[t]
    <3>1. /\ best' = [best EXCEPT ![t] = slot[t]]
          /\ bestLoad' = [bestLoad EXCEPT ![t] = active[slot[t]]]
      BY <1>10, <2>5 DEF CountActive
    <3>2. best'[t] = tried[t] /\ bestLoad'[t] = active[tried[t]] /\ tried[t] \in Index
      BY <1>1, <2>1, <3>1
    <3>3. HasCandidate(t, k)'
      BY <3>2 DEF HasCandidate
    <3>4. ASSUME ~raced[t], NEW b \in up[t], b < k PROVE active[tried[t]] <= active[b]
      <4>1. CASE b = tried[t]
        BY <1>1, <4>1, <3>2
      <4>2. CASE b < tried[t]
        <5>1. best[t] \in Index /\ active[best[t]] <= active[b] /\ bestLoad[t] = active[best[t]]
          BY <2>2, <3>4, <4>2 DEF HasCandidate, Least
        <5>2. active[tried[t]] < bestLoad[t]
          BY <2>1, <2>4, <2>5, <5>1
        <5>3. active[b] \in Nat /\ active[tried[t]] \in Nat /\ bestLoad[t] \in Nat
          BY <1>1, <3>2
        <5> QED BY <5>1, <5>2, <5>3
      <4> QED BY <2>3, <3>4, <4>1, <4>2
    <3>5. ~raced[t] => Least(t, k)'
      BY <1>2, <3>2, <3>4 DEF Least
    <3>6. Scans(t)'
      BY <1>1, <1>2, <1>4, <1>7, <2>1, <3>1, <3>3, <3>5, AdvanceScans
    <3> QED BY <1>5, <3>6
  <2>6. CASE ~(best[t] = NoBackend \/ active[slot[t]] < bestLoad[t])
    <3>1. best' = best /\ bestLoad' = bestLoad
      BY <1>10, <2>6 DEF CountActive
    <3>2. best[t] \in Index
      BY <1>1, <2>6
    <3>3. HasCandidate(t, k)'
      BY <3>1, <3>2 DEF HasCandidate
    <3>4. ASSUME ~raced[t], NEW b \in up[t], b < k PROVE active[best[t]] <= active[b]
      <4>1. CASE b = tried[t]
        <5>1. bestLoad[t] = active[best[t]]
          BY <2>2, <3>2, <3>4 DEF Least
        <5>2. active[b] \in Nat /\ bestLoad[t] \in Nat /\ ~(active[b] < bestLoad[t])
          BY <1>1, <2>1, <2>6, <4>1
        <5> QED BY <5>1, <5>2
      <4>2. CASE b < tried[t]
        BY <2>2, <3>4, <4>2 DEF Least
      <4> QED BY <2>3, <3>4, <4>1, <4>2
    <3>5. ~raced[t] => Least(t, k)'
      BY <1>2, <2>2, <3>1, <3>4 DEF Least
    <3>6. Scans(t)'
      BY <1>1, <1>2, <1>4, <1>7, <2>1, <3>1, <3>3, <3>5, AdvanceScans
    <3> QED BY <1>5, <3>6
  <2> QED BY <2>5, <2>6
<1> QED BY <1>6, <1>8, <1>9, <1>10

\* The steps that open and close a request; where a count moves, the scans of
\* the others are told.
LEMMA RequestScans ==
  ASSUME IInv, strategy = "LeastConnections", \A u \in Tasks : Scans(u),
         NEW t \in Tasks, Begin(t) \/ Refuse(t) \/ Acquire(t) \/ Release(t)
  PROVE  \A u \in Tasks : Scans(u)'
<1>1. /\ pc \in [Tasks -> PCs] /\ up \in [Tasks -> SUBSET Index]
      /\ slot \in [Tasks -> Index \cup {0}] /\ best \in [Tasks -> Index \cup {NoBackend}]
      /\ bestLoad \in [Tasks -> Nat] /\ raced \in [Tasks -> BOOLEAN] /\ N \in Nat
  BY BalancerAssumption DEF IInv, TypeOK
<1>2. tried' = tried /\ \A x : Available(x)' = Available(x)
  BY DEF Begin, Refuse, Acquire, Release, locals, shared, Available
<1>3. ASSUME NEW u \in Tasks, u # t PROVE Scans(u)'
  <2>1. /\ pc'[u] = pc[u] /\ slot'[u] = slot[u] /\ best'[u] = best[u]
        /\ bestLoad'[u] = bestLoad[u] /\ up'[u] = up[u]
    BY <1>1, <1>3 DEF Begin, Refuse, Acquire, Release, Goto, locals
  <2>2. \A b \in up'[u] : Available(b)'
    BY <1>2, <2>1 DEF Scans
  <2>3. CASE Begin(t) \/ Refuse(t)
    <3>1. raced'[u] = raced[u] /\ active' = active
      BY <1>1, <1>3, <2>3 DEF Begin, Refuse, shared
    <3> QED BY <1>2, <2>1, <2>2, <3>1, UnmovedScans
  <2>4. CASE Acquire(t) \/ Release(t)
    <3>1. pc[u] \in Selecting => raced'[u]
      BY <1>3, <2>4 DEF Acquire, Release, CountsMatter
    <3> QED BY <1>2, <2>1, <2>2, <3>1, UnmovedScans
  <2> QED BY <2>3, <2>4
<1>4. Scans(t)'
  <2>1. CASE Begin(t)
    <3>1. /\ pc[t] = "idle" /\ best' = best /\ tried[t] = 0 /\ best[t] = NoBackend
          /\ pc' = [pc EXCEPT ![t] = IF N = 0 THEN "refused" ELSE "looking"]
          /\ up' = [up EXCEPT ![t] = {b \in Index : Available(b)}]
      BY <2>1 DEF Begin, locals, Scans, Scanning, Goto
    <3>2. pc'[t] = (IF N = 0 THEN "refused" ELSE "looking")
          /\ up'[t] = {b \in Index : Available(b)}
      BY <1>1, <3>1
    <3>3. \A b \in up'[t] : Available(b)' /\ ~(b < 0)
      BY <1>1, <1>2, <3>2 DEF Index
    <3>4. NoBackend \notin Index /\ (N = 0 => Index = {})
      BY <1>1 DEF NoBackend, Index
    <3> QED BY <1>2, <3>1, <3>2, <3>3, <3>4 DEF Scans, Scanning, HasCandidate, Least
  <2>2. CASE Refuse(t)
    <3>1. pc[t] = "refused" /\ pc'[t] = "idle" /\ best'[t] = best[t] /\ up'[t] = {}
      BY <1>1, <2>2 DEF Refuse, Goto
    <3> QED BY <1>2, <3>1 DEF Scans, Scanning
  <2>3. CASE Acquire(t)
    <3>1. pc[t] = "picked" /\ pc'[t] = "serving" /\ up'[t] = {}
      BY <1>1, <2>3 DEF Acquire, Goto
    <3> QED BY <1>2, <3>1 DEF Scans, Scanning
  <2>4. CASE Release(t)
    <3>1. pc[t] \in Holding /\ pc'[t] = "idle" /\ best'[t] = NoBackend /\ up'[t] = up[t]
      BY <1>1, <2>4 DEF Release, Goto
    <3> QED BY <1>2, <3>1 DEF Scans, Scanning, Holding
  <2> QED BY <2>1, <2>2, <2>3, <2>4
<1> QED BY <1>3, <1>4

\* A report, or time: a backend that goes is taken from what was available
\* throughout.
LEMMA ReportScans ==
  ASSUME IInv, strategy = "LeastConnections", \A u \in Tasks : Scans(u), NEW b, NEW c,
         Witness(b, c), circuit' = [circuit EXCEPT ![b] = c],
         UNCHANGED <<active, locals>>,
         \/ UNCHANGED pc
         \/ \E t \in Tasks : pc[t] = "serving" /\ pc' = [pc EXCEPT ![t] = "answered"]
  PROVE  \A u \in Tasks : Scans(u)'
<1>1. /\ pc \in [Tasks -> PCs] /\ up \in [Tasks -> SUBSET Index]
      /\ circuit \in [Index -> {"closed", "open", "expired"}]
  BY DEF IInv, TypeOK
<1> SUFFICES ASSUME NEW u \in Tasks PROVE Scans(u)'
  OBVIOUS
<1>2. tried' = tried /\ slot' = slot /\ best' = best /\ bestLoad' = bestLoad
      /\ raced' = raced
  BY DEF locals, Witness
<1>3. up'[u] \subseteq up[u]
  BY <1>1 DEF Witness
<1>4. \A x \in up'[u] : Available(x)'
  <2> SUFFICES ASSUME NEW x \in up'[u] PROVE Available(x)'
    OBVIOUS
  <2>1. x \in Index /\ Available(x)
    BY <1>1, <1>3 DEF Scans
  <2>2. CASE x # b
    BY <1>1, <2>1, <2>2 DEF Available
  <2>3. CASE x = b
    <3>1. c # "open"
      <4>1. ASSUME c = "open" PROVE up' = [t \in Tasks |-> up[t] \ {b}]
        BY <2>1, <2>3, <4>1, Zenon DEF Witness
      <4> QED BY <2>3, <4>1
    <3> QED BY <1>1, <2>1, <2>3, <3>1 DEF Available
  <2> QED BY <2>2, <2>3
<1>5. CASE pc'[u] = pc[u]
  BY <1>2, <1>3, <1>4, <1>5, UnmovedScans
<1>6. CASE pc[u] = "serving" /\ pc'[u] = "answered"
  BY <1>2, <1>4, <1>6 DEF Scans, Scanning
<1> QED BY <1>1, <1>5, <1>6

LEMMA NextScans == IInv /\ AllScan /\ [Next]_vars => AllScan'
<1> SUFFICES ASSUME IInv, AllScan, [Next]_vars PROVE AllScan'
  OBVIOUS
<1>1. strategy' = strategy
  BY DEF Next, Select, Begin, RoundRobin, MoveCursor, LeastConnections, IpHash,
     JudgeDown, JudgeUp, CountActive, Refuse, Acquire, Succeed, Release,
     CheckPassed, CheckFailed, Expire, config, vars
<1> SUFFICES ASSUME strategy = "LeastConnections" PROVE \A u \in Tasks : Scans(u)'
  BY <1>1 DEF AllScan
<1>2. \A u \in Tasks : Scans(u)
  BY DEF AllScan
<1>3. ASSUME NEW t \in Tasks, Select(t) PROVE \A u \in Tasks : Scans(u)'
  <2>1. ~RoundRobin(t) /\ ~IpHash(t)
    BY DEF RoundRobin, IpHash
  <2> QED BY <1>2, <1>3, <2>1, ScanScans, RequestScans DEF Select
<1>4. ASSUME NEW t \in Tasks, Succeed(t) PROVE \A u \in Tasks : Scans(u)'
  <2>1. PICK b : b = Find(url[best[t]])
    OBVIOUS
  <2>2. /\ Witness(b, "closed") /\ circuit' = [circuit EXCEPT ![b] = "closed"]
        /\ UNCHANGED <<active, locals>>
        /\ pc[t] = "serving" /\ pc' = [pc EXCEPT ![t] = "answered"]
    BY <1>4, <2>1 DEF Succeed, record_success, Goto
  <2> QED BY <1>2, <2>2, ReportScans
<1>5. ASSUME NEW t \in Tasks, Release(t) PROVE \A u \in Tasks : Scans(u)'
  BY <1>2, <1>5, RequestScans
<1>6. ASSUME NEW x \in Index, CheckPassed(x) \/ CheckFailed(x)
      PROVE  \A u \in Tasks : Scans(u)'
  <2>1. PICK b : b = Find(url[x])
    OBVIOUS
  <2>2. PICK c \in {"open", "closed"} :
          Witness(b, c) /\ circuit' = [circuit EXCEPT ![b] = c]
    BY <1>6, <2>1 DEF CheckPassed, CheckFailed, record_success, record_failure
  <2>3. UNCHANGED <<active, locals, pc>>
    BY <1>6 DEF CheckPassed, CheckFailed
  <2> QED BY <1>2, <2>2, <2>3, ReportScans
<1>7. ASSUME NEW b \in Index, Expire(b) PROVE \A u \in Tasks : Scans(u)'
  <2>1. /\ Witness(b, "expired") /\ circuit' = [circuit EXCEPT ![b] = "expired"]
        /\ UNCHANGED <<active, locals, pc>>
    BY <1>7 DEF Expire
  <2> QED BY <1>2, <2>1, ReportScans
<1>8. CASE UNCHANGED vars
  BY <1>2, <1>8 DEF vars, config, shared, locals, history, Scans, Available,
     HasCandidate, Least
<1> QED BY <1>3, <1>4, <1>5, <1>6, <1>7, <1>8 DEF Next

\* What least_connections picks was the least loaded when it was picked, for any
\* number of tasks and backends, unless a count moved during the scan.
THEOREM PickIsLeastLoaded == Spec => []LeastLoaded
<1>1. Init => AllScan
  BY BalancerAssumption DEF Init, AllScan, Scans, Scanning, NoBackend
<1>2. IInv /\ AllScan => LeastLoaded
  <2> SUFFICES ASSUME IInv, strategy = "LeastConnections", NEW t \in Tasks,
                      Scans(t), pc[t] = "picked", ~raced[t], NEW b \in up[t]
               PROVE  active[best[t]] <= active[b]
    BY DEF AllScan, LeastLoaded
  <2>1. b \in Index /\ Least(t, N)
    BY DEF IInv, TypeOK, Scans
  <2> QED BY <2>1, BalancerAssumption DEF Least, Index
<1> QED BY <1>1, <1>2, NextScans, BalancerInvariant, PTL DEF Spec

-----------------------------------------------------------------------------
(* A walk of N steps from anywhere, modulo N, meets every index.           *)
LEMMA DivMod ==
  ASSUME NEW n \in Nat \ {0}, NEW h \in Nat
  PROVE  h = n * (h \div n) + (h % n) /\ h % n \in 0 .. n - 1 /\ h \div n \in Nat
BY SMTT(20)

LEMMA RemainderIsUnique ==
  ASSUME NEW n \in Nat \ {0}, NEW k \in Int, NEW a \in 0 .. n - 1, NEW b \in 0 .. n - 1,
         n * k = a - b
  PROVE  a = b
<1>1. k >= 1 => n * k >= n
  BY SMTT(20)
<1>2. k <= -1 => n * k <= -n
  BY SMTT(20)
<1>3. k = 0 => n * k = 0
  BY SMTT(20)
<1> QED BY <1>1, <1>2, <1>3, SMTT(20)

LEMMA WalkMeetsAll ==
  ASSUME NEW n \in Nat \ {0}, NEW h \in Nat, NEW b \in 0 .. n - 1
  PROVE  \E j \in 0 .. n - 1 : (h + j) % n = b
<1>1. PICK q \in Nat, r \in 0 .. n - 1 : h = n * q + r
  BY DivMod
<1>2. PICK j \in 0 .. n - 1 : j + r = b \/ j + r = b + n
  <2>1. CASE b >= r
    <3>1. b - r \in 0 .. n - 1 /\ (b - r) + r = b
      BY <2>1
    <3> QED BY <3>1
  <2>2. CASE b < r
    <3>1. b - r + n \in 0 .. n - 1 /\ (b - r + n) + r = b + n
      BY <2>2
    <3> QED BY <3>1
  <2> QED BY <2>1, <2>2
<1>3. PICK d \in Nat, m \in 0 .. n - 1 : h + j = n * d + m /\ m = (h + j) % n
  <2>1. h + j \in Nat
    OBVIOUS
  <2> QED BY <2>1, DivMod
<1>4. PICK e \in Int : n * e = b - m
  <2>1. PICK x \in Int, y \in Int : x = n * d /\ y = n * q
    BY SMTT(20)
  <2>2. x - y = b - m \/ x - y - n = b - m
    <3>1. h + j = x + m /\ h = y + r
      BY <1>1, <1>3, <2>1
    <3> QED BY <1>2, <3>1
  <2>3. n * (d - q) = x - y /\ n * (d - q - 1) = x - y - n
    BY <2>1, SMTT(20)
  <2>4. d - q \in Int /\ d - q - 1 \in Int
    OBVIOUS
  <2> QED BY <2>2, <2>3, <2>4
<1>5. m = b
  BY <1>4, RemainderIsUnique
<1> QED BY <1>3, <1>5

-----------------------------------------------------------------------------
(* round_robin and ip_hash find what was available.  A search that nothing  *)
(* threw off has an origin, and nothing it passed on its way from there was *)
(* available throughout.                                                    *)
Lost(t) == strategy = "RoundRobin" /\ raced[t]

Origin(t) ==
  IF strategy = "IpHash" THEN Hash[ip[t]]
  ELSE cursor - tried[t] - (IF pc[t] = "judging" THEN 1 ELSE 0)

Underway == {"looking", "judging"}

Passed(t, o, k) == \A j \in 0 .. k - 1 : (o + j) % N \notin up[t]

Goes(t) ==
  /\ \A b \in up[t] : Available(b)
  /\ pc[t] # "counting"
  /\ pc[t] \notin Underway => tried[t] = 0
  /\ pc[t] \notin {"picked"} \cup Holding => best[t] = NoBackend
  /\ pc[t] \in Underway /\ ~Lost(t) =>
       Origin(t) \in Nat /\ Passed(t, Origin(t), tried[t])
  /\ pc[t] = "judging" /\ ~Lost(t) => slot[t] = (Origin(t) + tried[t]) % N
  /\ pc[t] = "refused" /\ ~Lost(t) => up[t] = {}

AllGo == strategy # "LeastConnections" => \A t \in Tasks : Goes(t)

\* The search of a task that does not move itself.
LEMMA UnmovedGoes ==
  ASSUME NEW u \in Tasks, Goes(u), UNCHANGED <<strategy, ip>>,
         pc'[u] = pc[u], tried'[u] = tried[u], slot'[u] = slot[u], best'[u] = best[u],
         up'[u] \subseteq up[u], \A b \in up'[u] : Available(b)',
         Lost(u) => Lost(u)',
         pc[u] \in Underway => Lost(u)' \/ UNCHANGED cursor \/ strategy = "IpHash"
  PROVE  Goes(u)'
<1>1. /\ \A b \in up'[u] : Available(b)'
      /\ pc'[u] # "counting"
      /\ pc'[u] \notin Underway => tried'[u] = 0
      /\ pc'[u] \notin {"picked"} \cup Holding => best'[u] = NoBackend
      /\ pc'[u] = "refused" /\ ~Lost(u)' => up'[u] = {}
  BY DEF Goes
<1>2. \A o, k : Passed(u, o, k) => Passed(u, o, k)'
  BY DEF Passed
<1>3. ASSUME pc[u] \in Underway, ~Lost(u)'
      PROVE  /\ Origin(u)' = Origin(u)
             /\ Origin(u) \in Nat /\ Passed(u, Origin(u), tried[u])'
             /\ pc[u] = "judging" => slot'[u] = (Origin(u) + tried[u]) % N
  <2>1. Origin(u)' = Origin(u)
    BY <1>3 DEF Origin
  <2>2. Origin(u) \in Nat /\ Passed(u, Origin(u), tried[u])
    BY <1>3 DEF Goes
  <2>3. PICK o, k : o = Origin(u) /\ k = tried[u]
    OBVIOUS
  <2>4. Passed(u, o, k)'
    BY <1>2, <2>2, <2>3
  <2>5. Passed(u, Origin(u), tried[u])'
    BY <2>1, <2>3, <2>4 DEF Passed
  <2>6. pc[u] = "judging" => slot'[u] = (Origin(u) + tried[u]) % N
    BY <1>3 DEF Goes
  <2> QED BY <2>1, <2>2, <2>5, <2>6
<1>4. pc'[u] \in Underway /\ ~Lost(u)' =>
        Origin(u)' \in Nat /\ Passed(u, Origin(u), tried[u])'
  BY <1>3
<1>5. pc'[u] = "judging" /\ ~Lost(u)' => slot'[u] = (Origin(u)' + tried'[u]) % N
  BY <1>3 DEF Underway
<1> QED BY <1>1, <1>4, <1>5 DEF Goes

\* A task looks at the next backend.
LEMMA LookGoes ==
  ASSUME IInv, \A u \in Tasks : Goes(u), NEW t \in Tasks, RoundRobin(t) \/ IpHash(t)
  PROVE  \A u \in Tasks : Goes(u)'
<1>1. /\ pc \in [Tasks -> PCs] /\ tried \in [Tasks -> Index \cup {0}]
      /\ slot \in [Tasks -> Index \cup {0}] /\ raced \in [Tasks -> BOOLEAN]
      /\ cursor \in 0 .. USize - 1 /\ USize \in Nat \ {0} /\ N \in Nat
  BY BalancerAssumption DEF IInv, TypeOK
<1>2. /\ strategy' = strategy /\ ip' = ip /\ up' = up /\ tried' = tried /\ best' = best
      /\ pc[t] = "looking" /\ pc' = [pc EXCEPT ![t] = "judging"]
      /\ \A x : Available(x)' = Available(x)
  BY DEF RoundRobin, IpHash, MoveCursor, Goto, config, shared, history, Available
<1>3. \A u \in Tasks : \A b \in up'[u] : Available(b)'
  BY <1>2 DEF Goes
<1>4. \A u \in Tasks : Lost(u) => Lost(u)'
  BY <1>2, Zenon DEF RoundRobin, IpHash, MoveCursor, Lost, history
<1>5. ASSUME NEW u \in Tasks, u # t PROVE Goes(u)'
  <2>1. pc'[u] = pc[u] /\ slot'[u] = slot[u]
    BY <1>1, <1>2, <1>5 DEF RoundRobin, IpHash
  <2>2. pc[u] \in Underway => Lost(u)' \/ UNCHANGED cursor \/ strategy = "IpHash"
    BY <1>2, <1>5 DEF RoundRobin, IpHash, MoveCursor, CursorMatters, Underway, Selecting, Lost
  <2>3. Goes(u) /\ (Lost(u) => Lost(u)') /\ \A b \in up'[u] : Available(b)'
    BY <1>3, <1>4
  <2>4. /\ UNCHANGED <<strategy, ip>>
        /\ tried'[u] = tried[u] /\ best'[u] = best[u] /\ up'[u] \subseteq up[u]
    BY <1>2
  <2> QED BY <2>1, <2>2, <2>3, <2>4, UnmovedGoes
<1>6. pc'[t] = "judging"
  BY <1>1, <1>2
<1>7. ASSUME ~Lost(t)'
      PROVE  Origin(t)' = Origin(t) /\ slot'[t] = (Origin(t) + tried[t]) % N
  <2>1. CASE IpHash(t)
    BY <1>1, <1>2, <2>1 DEF IpHash, Origin
  <2>2. CASE RoundRobin(t)
    <3>1. strategy = "RoundRobin" /\ slot'[t] = cursor % N /\ cursor' = (cursor + 1) % USize
      BY <1>1, <2>2 DEF RoundRobin, MoveCursor
    <3>2. cursor + 1 < USize
      BY <1>2, <1>7, <2>2, <3>1 DEF RoundRobin, MoveCursor, Lost, CursorMatters, Selecting
    <3>3. cursor' = cursor + 1
      <4>1. cursor + 1 \in 0 .. USize - 1
        BY <1>1, <3>2
      <4> QED BY <1>1, <3>1, <4>1, SMTT(20)
    <3>4. tried[t] \in Int /\ cursor \in Int
      BY <1>1 DEF Index
    <3>5. Origin(t) = cursor - tried[t] /\ Origin(t)' = cursor' - tried[t] - 1
      BY <1>2, <1>6, <3>1, <3>4 DEF Origin
    <3>6. Origin(t) + tried[t] = cursor /\ Origin(t)' = Origin(t)
      BY <3>3, <3>4, <3>5
    <3> QED BY <3>1, <3>6
  <2> QED BY <2>1, <2>2
<1>8. Goes(t)'
  <2>1. ~Lost(t)' => Origin(t) \in Nat /\ Passed(t, Origin(t), tried[t])
    BY <1>2, <1>4 DEF Goes, Underway
  <2>2. ~Lost(t)' => Origin(t)' \in Nat /\ Passed(t, Origin(t), tried[t])'
    BY <1>2, <1>7, <2>1 DEF Passed
  <2>3. best[t] = NoBackend
    BY <1>2 DEF Goes, Holding
  <2> QED BY <1>2, <1>3, <1>6, <1>7, <2>2, <2>3 DEF Goes, Underway
<1> QED BY <1>5, <1>8

\* It is refused, or accepted.
LEMMA JudgeGoes ==
  ASSUME IInv, strategy # "LeastConnections", \A u \in Tasks : Goes(u),
         NEW t \in Tasks, JudgeDown(t) \/ JudgeUp(t)
  PROVE  \A u \in Tasks : Goes(u)'
<1>1. /\ pc \in [Tasks -> PCs] /\ tried \in [Tasks -> Index \cup {0}]
      /\ up \in [Tasks -> SUBSET Index] /\ best \in [Tasks -> Index \cup {NoBackend}]
      /\ circuit \in [Index -> {"closed", "open", "expired"}]
      /\ cursor \in Nat
  BY BalancerAssumption DEF IInv, TypeOK
<1>2. /\ strategy' = strategy /\ ip' = ip /\ up' = up /\ cursor' = cursor /\ raced' = raced
      /\ slot' = slot
  BY DEF JudgeDown, JudgeUp, config, shared, history
<1>3. \A u \in Tasks : \A b \in up'[u] : Available(b)'
  <2>1. \A x \in Index : Available(x) => Available(x)'
    BY <1>1 DEF JudgeDown, JudgeUp, Available, shared
  <2> QED BY <1>1, <1>2, <2>1 DEF Goes
<1>4. \A u \in Tasks : Lost(u)' = Lost(u)
  BY <1>2 DEF Lost
<1>5. ASSUME NEW u \in Tasks, u # t PROVE Goes(u)'
  <2>1. pc'[u] = pc[u] /\ tried'[u] = tried[u] /\ best'[u] = best[u]
    BY <1>1, <1>5 DEF JudgeDown, JudgeUp, Advance, Goto
  <2> QED BY <1>2, <1>3, <1>4, <1>5, <2>1, UnmovedGoes
<1>6. N \in Nat \ {0} /\ tried[t] \in Index /\ tried[t] \in Nat /\ Index = 0 .. N - 1
  <2>1. N # 0 /\ N \in Nat
    BY BalancerAssumption DEF IInv, EmptyRefuses, JudgeDown, JudgeUp
  <2> QED BY <1>1, <2>1 DEF Index
<1>7. CASE JudgeDown(t)
  <2>1. pc[t] = "judging" /\ ~Available(slot[t]) /\ best' = best /\ best[t] = NoBackend
        /\ Advance(t)
    BY <1>7 DEF JudgeDown, Goes, Holding
  <2>2. PICK o, k : o = Origin(t) /\ k = tried[t] + 1
    OBVIOUS
  <2>3. ~Lost(t) => o \in Nat /\ Passed(t, o, k)
    <3> SUFFICES ASSUME ~Lost(t), NEW j \in 0 .. k - 1
                 PROVE  o \in Nat /\ (o + j) % N \notin up[t]
      BY <2>1, <2>2 DEF Passed, Goes, Underway
    <3>1. j \in 0 .. tried[t] - 1 \/ j = tried[t]
      BY <1>6, <2>2
    <3>2. o \in Nat /\ \A i \in 0 .. tried[t] - 1 : (o + i) % N \notin up[t]
      BY <2>1, <2>2 DEF Goes, Underway, Passed
    <3>3. slot[t] = (o + tried[t]) % N /\ slot[t] \notin up[t]
      BY <2>1, <2>2 DEF Goes
    <3> QED BY <3>1, <3>2, <3>3
  <2>4. CASE tried[t] + 1 < N
    <3>1. tried'[t] = k /\ pc'[t] = "looking"
      BY <1>1, <2>1, <2>2, <2>4 DEF Advance, Goto
    <3>2. Origin(t)' = o
      BY <1>1, <1>2, <1>6, <2>1, <2>2, <3>1 DEF Origin
    <3>3. ~Lost(t)' => Origin(t)' \in Nat /\ Passed(t, Origin(t), tried[t])'
      BY <1>2, <1>4, <2>3, <3>1, <3>2 DEF Passed
    <3>4. Goes(t)'
      BY <1>3, <2>1, <3>1, <3>3 DEF Goes, Underway
    <3> QED BY <1>5, <3>4
  <2>5. CASE ~(tried[t] + 1 < N)
    <3>1. tried'[t] = 0 /\ pc'[t] = "refused"
      BY <1>1, <2>1, <2>5 DEF Advance, Goto
    <3>2. k - 1 = N - 1
      BY <1>6, <2>2, <2>5
    <3>3. ASSUME ~Lost(t), NEW b \in up[t] PROVE FALSE
      <4>1. PICK j \in 0 .. N - 1 : (o + j) % N = b
        BY <1>1, <1>6, <2>3, <3>3, WalkMeetsAll
      <4> QED BY <2>3, <3>2, <3>3, <4>1 DEF Passed
    <3>4. Goes(t)'
      BY <1>2, <1>3, <1>4, <2>1, <3>1, <3>3 DEF Goes, Underway
    <3> QED BY <1>5, <3>4
  <2> QED BY <2>4, <2>5
<1>8. CASE JudgeUp(t)
  <2>1. pc'[t] = "picked" /\ tried'[t] = 0
    BY <1>1, <1>8 DEF JudgeUp, Goto
  <2>2. Goes(t)'
    BY <1>3, <2>1 DEF Goes, Underway
  <2> QED BY <1>5, <2>2
<1> QED BY <1>7, <1>8

\* A request begins or ends.
LEMMA RequestGoes ==
  ASSUME IInv, strategy # "LeastConnections", \A u \in Tasks : Goes(u),
         NEW t \in Tasks, Begin(t) \/ Refuse(t) \/ Acquire(t) \/ Release(t)
  PROVE  \A u \in Tasks : Goes(u)'
<1>1. /\ pc \in [Tasks -> PCs] /\ up \in [Tasks -> SUBSET Index]
      /\ slot \in [Tasks -> Index \cup {0}] /\ best \in [Tasks -> Index \cup {NoBackend}]
      /\ raced \in [Tasks -> BOOLEAN] /\ cursor \in Nat /\ N \in Nat /\ ip \in [Tasks -> IPs]
      /\ Hash \in [IPs -> Nat]
  BY BalancerAssumption DEF IInv, TypeOK
<1>2. /\ tried' = tried /\ strategy' = strategy /\ ip' = ip /\ cursor' = cursor
      /\ \A x : Available(x)' = Available(x)
  BY DEF Begin, Refuse, Acquire, Release, config, locals, shared, Available
<1>3. ASSUME NEW u \in Tasks, u # t PROVE Goes(u)'
  <2>1. /\ pc'[u] = pc[u] /\ slot'[u] = slot[u] /\ best'[u] = best[u] /\ up'[u] = up[u]
    BY <1>1, <1>3 DEF Begin, Refuse, Acquire, Release, Goto, locals
  <2>2. \A b \in up'[u] : Available(b)'
    BY <1>2, <2>1 DEF Goes
  <2>3. Lost(u) => Lost(u)'
    BY <1>1, <1>2, <1>3 DEF Lost, Begin, Refuse, Acquire, Release
  <2> QED BY <1>2, <2>1, <2>2, <2>3, UnmovedGoes
<1>4. Goes(t)'
  <2>1. CASE Begin(t)
    <3>1. /\ pc[t] = "idle" /\ best' = best /\ tried[t] = 0 /\ best[t] = NoBackend
          /\ pc' = [pc EXCEPT ![t] = IF N = 0 THEN "refused" ELSE "looking"]
          /\ up' = [up EXCEPT ![t] = {b \in Index : Available(b)}]
      BY <2>1 DEF Begin, locals, Goes, Underway, Holding, Goto
    <3>2. pc'[t] = (IF N = 0 THEN "refused" ELSE "looking")
          /\ up'[t] = {b \in Index : Available(b)}
      BY <1>1, <3>1
    <3>3. (\A b \in up'[t] : Available(b)') /\ (N = 0 => up'[t] = {})
      BY <1>1, <1>2, <3>2 DEF Index
    <3>4. pc'[t] = "looking" => Origin(t)' \in Nat
      BY <1>1, <1>2, <3>1 DEF Origin
    <3>5. Passed(t, Origin(t), tried[t])'
      BY <1>2, <3>1 DEF Passed
    <3> QED BY <1>2, <3>1, <3>2, <3>3, <3>4, <3>5 DEF Goes, Underway
  <2>2. CASE Refuse(t)
    <3>1. pc[t] = "refused" /\ pc'[t] = "idle" /\ best'[t] = best[t] /\ up'[t] = {}
      BY <1>1, <2>2 DEF Refuse, Goto
    <3> QED BY <1>2, <3>1 DEF Goes, Underway, Holding
  <2>3. CASE Acquire(t)
    <3>1. pc[t] = "picked" /\ pc'[t] = "serving" /\ up'[t] = {}
      BY <1>1, <2>3 DEF Acquire, Goto
    <3> QED BY <1>2, <3>1 DEF Goes, Underway, Holding
  <2>4. CASE Release(t)
    <3>1. pc[t] \in Holding /\ pc'[t] = "idle" /\ best'[t] = NoBackend /\ up'[t] = up[t]
      BY <1>1, <2>4 DEF Release, Goto
    <3> QED BY <1>2, <3>1 DEF Goes, Underway, Holding
  <2> QED BY <2>1, <2>2, <2>3, <2>4
<1> QED BY <1>3, <1>4

\* A report, or time.
LEMMA ReportGoes ==
  ASSUME IInv, \A u \in Tasks : Goes(u), NEW b, NEW c,
         Witness(b, c), circuit' = [circuit EXCEPT ![b] = c],
         UNCHANGED <<strategy, ip, cursor, locals>>,
         \/ UNCHANGED pc
         \/ \E t \in Tasks : pc[t] = "serving" /\ pc' = [pc EXCEPT ![t] = "answered"]
  PROVE  \A u \in Tasks : Goes(u)'
<1>1. /\ pc \in [Tasks -> PCs] /\ up \in [Tasks -> SUBSET Index]
      /\ circuit \in [Index -> {"closed", "open", "expired"}]
  BY DEF IInv, TypeOK
<1> SUFFICES ASSUME NEW u \in Tasks PROVE Goes(u)'
  OBVIOUS
<1>2. tried' = tried /\ slot' = slot /\ best' = best /\ raced' = raced
  BY DEF locals, Witness
<1>3. up'[u] \subseteq up[u]
  BY <1>1 DEF Witness
<1>4. \A x \in up'[u] : Available(x)'
  <2> SUFFICES ASSUME NEW x \in up'[u] PROVE Available(x)'
    OBVIOUS
  <2>1. x \in Index /\ Available(x)
    BY <1>1, <1>3 DEF Goes
  <2>2. CASE x # b
    BY <1>1, <2>1, <2>2 DEF Available
  <2>3. CASE x = b
    <3>1. c # "open"
      <4>1. ASSUME c = "open" PROVE up' = [t \in Tasks |-> up[t] \ {b}]
        BY <2>1, <2>3, <4>1, Zenon DEF Witness
      <4> QED BY <2>3, <4>1
    <3> QED BY <1>1, <2>1, <2>3, <3>1 DEF Available
  <2> QED BY <2>2, <2>3
<1>5. CASE pc'[u] = pc[u]
  <2>1. Lost(u)' = Lost(u)
    BY <1>2 DEF Lost
  <2> QED BY <1>2, <1>3, <1>4, <1>5, <2>1, UnmovedGoes
<1>6. CASE pc[u] = "serving" /\ pc'[u] = "answered"
  BY <1>2, <1>4, <1>6 DEF Goes, Underway, Holding
<1> QED BY <1>1, <1>5, <1>6

LEMMA NextGoes == IInv /\ AllGo /\ [Next]_vars => AllGo'
<1> SUFFICES ASSUME IInv, AllGo, [Next]_vars PROVE AllGo'
  OBVIOUS
<1>1. strategy' = strategy
  BY DEF Next, Select, Begin, RoundRobin, MoveCursor, LeastConnections, IpHash,
     JudgeDown, JudgeUp, CountActive, Refuse, Acquire, Succeed, Release,
     CheckPassed, CheckFailed, Expire, config, vars
<1> SUFFICES ASSUME strategy # "LeastConnections" PROVE \A u \in Tasks : Goes(u)'
  BY <1>1 DEF AllGo
<1>2. \A u \in Tasks : Goes(u)
  BY DEF AllGo
<1>3. ASSUME NEW t \in Tasks, Select(t) PROVE \A u \in Tasks : Goes(u)'
  <2>1. ~LeastConnections(t) /\ ~CountActive(t)
    BY <1>2 DEF LeastConnections, CountActive, Goes
  <2> QED BY <1>2, <1>3, <2>1, LookGoes, JudgeGoes, RequestGoes DEF Select
<1>4. ASSUME NEW t \in Tasks, Succeed(t) PROVE \A u \in Tasks : Goes(u)'
  <2>1. PICK b : b = Find(url[best[t]])
    OBVIOUS
  <2>2. /\ Witness(b, "closed") /\ circuit' = [circuit EXCEPT ![b] = "closed"]
        /\ UNCHANGED <<strategy, ip, cursor, locals>>
        /\ pc[t] = "serving" /\ pc' = [pc EXCEPT ![t] = "answered"]
    BY <1>1, <1>4, <2>1 DEF Succeed, record_success, Goto, config
  <2> QED BY <1>2, <2>2, ReportGoes
<1>5. ASSUME NEW t \in Tasks, Release(t) PROVE \A u \in Tasks : Goes(u)'
  BY <1>2, <1>5, RequestGoes
<1>6. ASSUME NEW x \in Index, CheckPassed(x) \/ CheckFailed(x)
      PROVE  \A u \in Tasks : Goes(u)'
  <2>1. PICK b : b = Find(url[x])
    OBVIOUS
  <2>2. PICK c \in {"open", "closed"} :
          Witness(b, c) /\ circuit' = [circuit EXCEPT ![b] = c]
    BY <1>6, <2>1 DEF CheckPassed, CheckFailed, record_success, record_failure
  <2>3. UNCHANGED <<strategy, ip, cursor, locals, pc>>
    BY <1>6 DEF CheckPassed, CheckFailed, config
  <2> QED BY <1>2, <2>2, <2>3, ReportGoes
<1>7. ASSUME NEW b \in Index, Expire(b) PROVE \A u \in Tasks : Goes(u)'
  <2>1. /\ Witness(b, "expired") /\ circuit' = [circuit EXCEPT ![b] = "expired"]
        /\ UNCHANGED <<strategy, ip, cursor, locals, pc>>
    BY <1>7 DEF Expire, config
  <2> QED BY <1>2, <2>1, ReportGoes
<1>8. CASE UNCHANGED vars
  BY <1>2, <1>8 DEF vars, config, shared, locals, history, Goes, Available,
     Lost, Origin, Passed
<1> QED BY <1>3, <1>4, <1>5, <1>6, <1>7, <1>8 DEF Next

\* Under every strategy a request is refused only if no backend was available
\* throughout its select, for any number of tasks and backends; round_robin's
\* may also have had the cursor moved under it.
THEOREM SelectFinds == Spec => []FindsAvailable
<1>1. Init => AllScan
  BY BalancerAssumption DEF Init, AllScan, Scans, Scanning, NoBackend
<1>2. Init => AllGo
  BY BalancerAssumption DEF Init, AllGo, Goes, Underway, NoBackend
<1>3. AllScan /\ AllGo => FindsAvailable
  BY DEF AllScan, Scans, AllGo, Goes, Lost, FindsAvailable
<1> QED BY <1>1, <1>2, <1>3, NextScans, NextGoes, BalancerInvariant, PTL DEF Spec

-----------------------------------------------------------------------------
(* round_robin's even split.  As long as the cursor has not wrapped, the    *)
(* indices it has given out are the numbers below it: each backend has had  *)
(* its share, and what it has had is in the hands of a select or picked.    *)

\* Selects that have been given b and are not dispatched yet.
InHand(b) ==
  {t \in Tasks : \/ pc[t] = "judging" /\ slot[t] = b
                 \/ pc[t] = "picked" /\ best[t] = b}

\* How many numbers below c are b modulo N.
Share(b, c) == (c + (N - 1 - b)) \div N

Spread ==
  /\ strategy = "RoundRobin" => \A t \in Tasks : pc[t] # "counting"
  /\ calm => \A b \in Index : Available(b)
  /\ strategy = "RoundRobin" /\ calm =>
       \A b \in Index : picks[b] + Cardinality(InHand(b)) = Share(b, cursor)
  /\ strategy # "RoundRobin" => \A b \in Index : picks[b] = 0

\* A quotient is known by its remainder.
LEMMA Quotient ==
  ASSUME NEW n \in Nat \ {0}, NEW q \in Int, NEW m \in Nat, NEW r \in 0 .. n - 1,
         m = n * q + r
  PROVE  m \div n = q
<1>1. m = n * (m \div n) + (m % n) /\ m % n \in 0 .. n - 1 /\ m \div n \in Nat
  BY DivMod
<1>2. PICK d \in Int : d = q - (m \div n)
  BY <1>1
<1>3. n * d = n * q - n * (m \div n)
  BY <1>1, <1>2, SMTT(20)
<1>4. PICK p, o \in Int : p = n * q /\ o = n * (m \div n)
  BY <1>1, SMTT(20)
<1>5. n * d = (m % n) - r
  BY <1>1, <1>3, <1>4
<1>6. m % n = r
  BY <1>1, <1>2, <1>5, RemainderIsUnique
<1>7. n * d = 0
  BY <1>1, <1>5, <1>6
<1>8. d = 0
  <2>1. d >= 1 => n * d >= n
    BY <1>2, SMTT(20)
  <2>2. d <= -1 => n * d <= -n
    BY <1>2, SMTT(20)
  <2> QED BY <1>2, <1>7, <2>1, <2>2
<1> QED BY <1>1, <1>2, <1>8

\* Sums of up to two lists' length.
LEMMA Sums ==
  ASSUME NEW n \in Nat \ {0}, NEW q \in Nat, NEW p \in Nat, p = n * q
  PROVE  \A s \in 0 .. n - 1 : (p + s) \div n = q /\ (p + n + s) \div n = q + 1
<1> TAKE s \in 0 .. n - 1
<1>1. (p + s) \div n = q
  <2>1. PICK m \in Nat : m = p + s
    OBVIOUS
  <2> QED BY <2>1, Quotient
<1>2. (p + n + s) \div n = q + 1
  <2>1. PICK m \in Nat : m = p + n + s
    OBVIOUS
  <2>2. n * (q + 1) = p + n
    BY SMTT(20)
  <2>3. m = n * (q + 1) + s
    BY <2>1, <2>2
  <2> QED BY <2>1, <2>3, Quotient
<1> QED BY <1>1, <1>2

\* Nobody has had anything at first; the next number is the share of the one
\* backend it stands for; and no two shares differ by more than one.
LEMMA Shares ==
  ASSUME N # 0, NEW c \in Nat, NEW b \in Index
  PROVE  /\ Share(b, 0) = 0
         /\ Share(b, c) \in Nat
         /\ Share(b, c + 1) = IF c % N = b THEN Share(b, c) + 1 ELSE Share(b, c)
         /\ \A d \in Index : Share(b, c) <= Share(d, c) + 1
<1>1. N \in Nat \ {0} /\ \A d \in Index : d \in 0 .. N - 1
  BY BalancerAssumption DEF Index
<1>2. PICK q \in Nat, r \in 0 .. N - 1, p \in Nat : c = p + r /\ p = N * q /\ r = c % N
  <2>1. c = N * (c \div N) + (c % N) /\ c % N \in 0 .. N - 1 /\ c \div N \in Nat
    BY <1>1, DivMod
  <2>2. N * (c \div N) \in Nat
    BY <1>1, <2>1, SMTT(20)
  <2> QED BY <2>1, <2>2
<1>3. \A s \in 0 .. N - 1 : (p + s) \div N = q /\ (p + N + s) \div N = q + 1
  <2>1. N \in Nat \ {0} /\ p = N * q
    BY <1>1, <1>2
  <2> QED BY <2>1, Sums
<1>4. ASSUME NEW d \in Index
      PROVE  Share(d, c) = IF r <= d THEN q ELSE q + 1
  <2>1. CASE r <= d
    <3>1. PICK s \in 0 .. N - 1 : s = r + (N - 1 - d)
      BY <1>1, <2>1
    <3>2. c + (N - 1 - d) = p + s
      BY <1>1, <1>2, <3>1
    <3>3. (p + s) \div N = q
      BY <1>3, Zenon
    <3> QED BY <2>1, <3>2, <3>3 DEF Share
  <2>2. CASE r > d
    <3>1. PICK s \in 0 .. N - 1 : s = r - 1 - d
      BY <1>1, <2>2
    <3>2. c + (N - 1 - d) = p + N + s
      BY <1>1, <1>2, <3>1
    <3>3. ~(r <= d)
      BY <1>1, <2>2
    <3>4. (p + N + s) \div N = q + 1
      BY <1>3, Zenon
    <3> QED BY <3>2, <3>3, <3>4 DEF Share
  <2> QED BY <1>1, <2>1, <2>2
<1>5. Share(b, c + 1) = IF r < b THEN q ELSE q + 1
  <2>1. CASE r < b
    <3>1. PICK s \in 0 .. N - 1 : s = r + (N - b)
      BY <1>1, <2>1
    <3>2. (c + 1) + (N - 1 - b) = p + s
      BY <1>1, <1>2, <3>1
    <3>3. (p + s) \div N = q
      BY <1>3, Zenon
    <3> QED BY <2>1, <3>2, <3>3 DEF Share
  <2>2. CASE r >= b
    <3>1. PICK s \in 0 .. N - 1 : s = r - b
      BY <1>1, <2>2
    <3>2. (c + 1) + (N - 1 - b) = p + N + s
      BY <1>1, <1>2, <3>1
    <3>3. ~(r < b)
      BY <1>1, <2>2
    <3>4. (p + N + s) \div N = q + 1
      BY <1>3, Zenon
    <3> QED BY <3>2, <3>3, <3>4 DEF Share
  <2> QED BY <1>1, <2>1, <2>2
<1>6. Share(b, 0) = 0
  <2>1. PICK m \in Nat : m = N - 1 - b /\ m \in 0 .. N - 1
    BY <1>1
  <2>2. N \in Nat \ {0} /\ m = N * 0 + m
    BY <1>1, <2>1, SMTT(20)
  <2>3. m \div N = 0
    BY <2>1, <2>2, Quotient
  <2>4. 0 + (N - 1 - b) = m
    BY <1>1, <2>1
  <2> QED BY <2>3, <2>4 DEF Share
<1>7. Share(b, c) \in Nat
  BY <1>2, <1>4
<1>8. \A d \in Index : Share(b, c) <= Share(d, c) + 1
  BY <1>2, <1>4
<1> QED BY <1>1, <1>2, <1>4, <1>5, <1>6, <1>7, <1>8

\* Hands are counted: they are among the tasks.
LEMMA HandsFinite ==
  ASSUME NEW b
  PROVE  IsFiniteSet(InHand(b)) /\ Cardinality(InHand(b)) \in Nat
<1>1. InHand(b) \subseteq Tasks
  BY DEF InHand
<1> QED BY <1>1, BalancerAssumption, FS_Subset, FS_CardinalityType

\* A step that gives nothing out and dispatches nothing.
LEMMA NothingSpent ==
  ASSUME Spread, UNCHANGED <<strategy, cursor>>,
         calm' => calm /\ UNCHANGED picks /\ \A b \in Index : Available(b)',
         picks' = picks \/ picks' = [b \in Index |-> 0],
         strategy = "RoundRobin" /\ calm => \A b \in Index : InHand(b)' = InHand(b),
         strategy = "RoundRobin" => \A t \in Tasks : pc'[t] # "counting"
  PROVE  Spread'
<1>1. strategy' = "RoundRobin" => \A t \in Tasks : pc'[t] # "counting"
  OBVIOUS
<1>2. ASSUME strategy' = "RoundRobin", calm', NEW b \in Index
      PROVE  picks'[b] + Cardinality(InHand(b)') = Share(b, cursor')
  <2>1. picks' = picks /\ InHand(b)' = InHand(b) /\ cursor' = cursor
    BY <1>2
  <2>2. picks[b] + Cardinality(InHand(b)) = Share(b, cursor)
    BY <1>2 DEF Spread
  <2> QED BY <2>1, <2>2
<1>3. strategy' # "RoundRobin" => \A b \in Index : picks'[b] = 0
  BY DEF Spread
<1>4. calm' => \A b \in Index : Available(b)'
  OBVIOUS
<1> QED BY <1>1, <1>2, <1>3, <1>4 DEF Spread

\* A circuit that changes leaves everything available, or it is noted.
LEMMA WitnessCalm ==
  ASSUME TypeOK, NEW b, NEW c, Witness(b, c), circuit' = [circuit EXCEPT ![b] = c],
         calm => \A x \in Index : Available(x)
  PROVE  /\ calm' => calm /\ UNCHANGED picks /\ \A x \in Index : Available(x)'
         /\ picks' = picks \/ picks' = [x \in Index |-> 0]
<1>1. CASE Available(b) = (c # "open")
  <2>1. UNCHANGED <<calm, picks>>
    BY <1>1, Zenon DEF Witness
  <2>2. ASSUME calm', NEW x \in Index
        PROVE  Available(x)'
    <3>1. Available(x)
      BY <2>1, <2>2
    <3>2. circuit'[x] = IF x = b THEN c ELSE circuit[x]
      BY DEF TypeOK
    <3> QED BY <1>1, <3>1, <3>2 DEF Available
  <2> QED BY <2>1, <2>2
<1>2. CASE ~(Available(b) = (c # "open"))
  <2>1. calm' = FALSE /\ picks' = [x \in Index |-> 0]
    BY <1>2, Zenon DEF Witness
  <2> QED BY <2>1
<1> QED BY <1>1, <1>2

-----------------------------------------------------------------------------
\* The number a round-robin select draws is the share of one backend, which is
\* in its hand from then on.
LEMMA DrawSpreads ==
  ASSUME IInv, Spread, NEW t \in Tasks, RoundRobin(t)
  PROVE  Spread'
<1>1. /\ N # 0 /\ cursor \in Nat
      /\ strategy = "RoundRobin" /\ UNCHANGED <<strategy, circuit, best>>
  <2>1. N # 0
    BY DEF IInv, EmptyRefuses, RoundRobin
  <2>2. cursor \in Nat
    BY BalancerAssumption DEF IInv, TypeOK
  <2>3. strategy = "RoundRobin" /\ UNCHANGED <<strategy, circuit, best>>
    BY DEF RoundRobin, MoveCursor, config
  <2> QED BY <2>1, <2>2, <2>3
<1>2. /\ pc[t] = "looking" /\ pc' = [pc EXCEPT ![t] = "judging"]
      /\ slot' = [slot EXCEPT ![t] = cursor % N]
  BY DEF RoundRobin, MoveCursor, Goto
<1>3. \A u \in Tasks : pc'[u] # "counting"
  BY <1>1, <1>2 DEF IInv, TypeOK, Spread
<1>4. ASSUME calm', NEW b \in Index
      PROVE  Available(b)' /\ picks'[b] + Cardinality(InHand(b)') = Share(b, cursor')
  <2>1. cursor + 1 < USize /\ UNCHANGED <<calm, picks>> /\ cursor' = (cursor + 1) % USize
    BY <1>4, Zenon DEF RoundRobin, MoveCursor
  <2>2. cursor' = cursor + 1
    <3>1. PICK w \in Nat \ {0} : w = USize
      BY BalancerAssumption
    <3>2. PICK m \in Nat : m = cursor + 1
      BY <1>1
    <3>3. m = w * 0 + m /\ m \in 0 .. w - 1
      BY <2>1, <3>1, <3>2, SMTT(20)
    <3>4. m % w = m
      BY <3>3, SMTT(20)
    <3> QED BY <2>1, <3>1, <3>2, <3>4
  <2>3. Available(b) /\ picks[b] + Cardinality(InHand(b)) = Share(b, cursor)
    BY <1>1, <1>4, <2>1 DEF Spread
  <2>4. Available(b)'
    BY <1>1, <2>3 DEF Available
  <2>5. Share(b, cursor + 1) = IF cursor % N = b THEN Share(b, cursor) + 1
                                                 ELSE Share(b, cursor)
    BY <1>1, Shares
  <2>6. IsFiniteSet(InHand(b)) /\ Cardinality(InHand(b)) \in Nat /\ picks[b] \in Nat
    BY HandsFinite DEF IInv, TypeOK
  <2>7. CASE cursor % N = b
    <3>1. InHand(b)' = InHand(b) \cup {t} /\ t \notin InHand(b)
      BY <1>1, <1>2, <2>7 DEF InHand, IInv, TypeOK
    <3>2. Cardinality(InHand(b)') = Cardinality(InHand(b)) + 1
      BY <2>6, <3>1, FS_AddElement
    <3> QED BY <2>1, <2>2, <2>3, <2>4, <2>5, <2>6, <2>7, <3>2
  <2>8. CASE cursor % N # b
    <3>1. InHand(b)' = InHand(b)
      BY <1>1, <1>2, <2>8 DEF InHand, IInv, TypeOK
    <3> QED BY <2>1, <2>2, <2>3, <2>4, <2>5, <2>8, <3>1
  <2> QED BY <2>7, <2>8
<1> QED BY <1>1, <1>3, <1>4 DEF Spread

\* A backend that is acquired leaves the hand and is counted as picked.
LEMMA AcquireSpreads ==
  ASSUME IInv, Spread, NEW t \in Tasks, Acquire(t)
  PROVE  Spread'
<1>1. /\ UNCHANGED <<strategy, cursor, circuit, best, calm>>
      /\ pc[t] = "picked" /\ pc' = [pc EXCEPT ![t] = "serving"]
      /\ slot' = [slot EXCEPT ![t] = 0]
      /\ best[t] \in Index
  BY DEF Acquire, Goto, config, IInv, TypeOK
<1>2. strategy = "RoundRobin" => \A u \in Tasks : pc'[u] # "counting"
  BY <1>1 DEF IInv, TypeOK, Spread
<1>3. ASSUME strategy = "RoundRobin", calm, NEW b \in Index
      PROVE  picks'[b] + Cardinality(InHand(b)') = Share(b, cursor)
  <2>1. picks[b] + Cardinality(InHand(b)) = Share(b, cursor)
    BY <1>3 DEF Spread
  <2>3. picks' = [picks EXCEPT ![best[t]] = @ + 1]
    BY <1>3 DEF Acquire
  <2>4. IsFiniteSet(InHand(b)) /\ Cardinality(InHand(b)) \in Nat /\ picks[b] \in Nat
        /\ picks'[b] = IF best[t] = b THEN picks[b] + 1 ELSE picks[b]
    BY <2>3, HandsFinite DEF IInv, TypeOK
  <2>5. CASE best[t] = b
    <3>1. InHand(b)' = InHand(b) \ {t} /\ t \in InHand(b)
      BY <1>1, <2>5 DEF InHand, IInv, TypeOK
    <3>2. Cardinality(InHand(b)') = Cardinality(InHand(b)) - 1
      BY <2>4, <3>1, FS_RemoveElement
    <3> QED BY <2>1, <2>4, <2>5, <3>2
  <2>6. CASE best[t] # b
    <3>1. InHand(b)' = InHand(b)
      BY <1>1, <2>6 DEF InHand, IInv, TypeOK
    <3> QED BY <2>1, <2>4, <2>6, <3>1
  <2> QED BY <2>5, <2>6
<1>4. strategy # "RoundRobin" => picks' = picks
  BY DEF Acquire
<1>5. calm => \A b \in Index : Available(b)'
  BY <1>1 DEF Available, Spread
<1> QED BY <1>1, <1>2, <1>3, <1>4, <1>5 DEF Spread

\* What a search does otherwise: while all is calm it is never turned away.
LEMMA SearchSpreads ==
  ASSUME IInv, Spread, NEW t \in Tasks,
         \/ Begin(t) \/ LeastConnections(t) \/ IpHash(t)
         \/ JudgeDown(t) \/ JudgeUp(t) \/ CountActive(t) \/ Refuse(t)
  PROVE  Spread'
<1>1. /\ UNCHANGED <<strategy, cursor, calm, picks>>
      /\ \A b \in Index : Available(b) => Available(b)'
  <2>1. CASE JudgeUp(t)
    <3>1. circuit' = [circuit EXCEPT ![slot[t]] = "closed"]
      BY <2>1 DEF JudgeUp
    <3>2. \A b \in Index : Available(b) => Available(b)'
      BY <3>1 DEF Available, IInv, TypeOK
    <3> QED BY <2>1, <3>2 DEF JudgeUp, config, history
  <2>2. CASE ~JudgeUp(t)
    <3>1. UNCHANGED <<strategy, cursor, calm, picks, circuit>>
      BY <2>2 DEF Begin, LeastConnections, IpHash, JudgeDown, CountActive, Refuse,
                  config, shared, history
    <3> QED BY <3>1 DEF Available
  <2> QED BY <2>1, <2>2
<1>2. calm => \A b \in Index : Available(b)'
  BY <1>1 DEF Spread
<1>3. ASSUME strategy = "RoundRobin", calm, NEW b \in Index
      PROVE  InHand(b)' = InHand(b)
  <2>1. CASE Begin(t)
    BY <2>1 DEF Begin, Goto, locals, InHand, IInv, TypeOK
  <2>2. CASE LeastConnections(t) \/ IpHash(t)
    BY <1>3, <2>2 DEF LeastConnections, IpHash
  <2>3. CASE JudgeDown(t)
    <3>1. slot[t] \in Index /\ ~Available(slot[t])
      BY <2>3 DEF JudgeDown, IInv, TypeOK
    <3> QED BY <1>3, <3>1 DEF Spread
  <2>4. CASE JudgeUp(t)
    <3>1. /\ pc[t] = "judging" /\ pc' = [pc EXCEPT ![t] = "picked"]
          /\ best' = [best EXCEPT ![t] = slot[t]] /\ slot' = slot
      BY <1>3, <2>4 DEF JudgeUp, Goto
    <3> QED BY <3>1 DEF InHand, IInv, TypeOK
  <2>5. CASE CountActive(t)
    BY <1>3, <2>5 DEF CountActive, Spread
  <2>6. CASE Refuse(t)
    BY <2>6 DEF Refuse, Goto, InHand, IInv, TypeOK
  <2> QED BY <2>1, <2>2, <2>3, <2>4, <2>5, <2>6
<1>4. ASSUME strategy = "RoundRobin", NEW u \in Tasks
      PROVE  pc'[u] # "counting"
  <2>1. pc[u] # "counting" /\ pc[t] # "counting"
    BY <1>4 DEF Spread
  <2>2. CASE JudgeDown(t)
    BY <2>1, <2>2 DEF JudgeDown, Advance, Goto, IInv, TypeOK
  <2>3. CASE JudgeUp(t)
    BY <1>4, <2>1, <2>3 DEF JudgeUp, Goto, IInv, TypeOK
  <2>4. CASE Begin(t) \/ Refuse(t)
    BY <2>1, <2>4 DEF Begin, Refuse, Goto, IInv, TypeOK
  <2> QED BY <1>4, <2>1, <2>2, <2>3, <2>4 DEF LeastConnections, IpHash, CountActive
<1> QED BY <1>1, <1>2, <1>3, <1>4, NothingSpent

\* Nothing is in hand while a request is served, or when a report comes in.
LEMMA RestSpreads ==
  ASSUME IInv, Spread,
         \/ \E t \in Tasks : Succeed(t) \/ Release(t)
         \/ \E b \in Index : CheckPassed(b) \/ CheckFailed(b) \/ Expire(b)
         \/ UNCHANGED vars
  PROVE  Spread'
<1>1. UNCHANGED <<strategy, cursor>>
  BY DEF Succeed, Release, CheckPassed, CheckFailed, Expire, config, vars, shared
<1>2. (\A b : InHand(b)' = InHand(b))
      /\ (strategy = "RoundRobin" => \A u \in Tasks : pc'[u] # "counting")
  <2>1. CASE \E t \in Tasks : Succeed(t)
    <3>1. PICK t \in Tasks : pc[t] = "serving" /\ pc' = [pc EXCEPT ![t] = "answered"]
                             /\ slot' = slot /\ best' = best
      BY <2>1 DEF Succeed, Goto, locals
    <3> QED BY <3>1 DEF InHand, Spread, IInv, TypeOK
  <2>2. CASE \E t \in Tasks : Release(t)
    <3>1. PICK t \in Tasks : pc[t] \in Holding /\ pc' = [pc EXCEPT ![t] = "idle"]
                             /\ slot' = slot /\ best' = [best EXCEPT ![t] = NoBackend]
      BY <2>2 DEF Release, Goto
    <3> QED BY <3>1 DEF Holding, InHand, Spread, IInv, TypeOK
  <2>3. CASE \/ \E b \in Index : CheckPassed(b) \/ CheckFailed(b) \/ Expire(b)
             \/ UNCHANGED vars
    <3>1. UNCHANGED <<pc, slot, best>>
      BY <2>3 DEF CheckPassed, CheckFailed, Expire, vars, locals
    <3> QED BY <3>1 DEF InHand, Spread
  <2> QED BY <2>1, <2>2, <2>3
<1>3. /\ calm' => calm /\ UNCHANGED picks /\ \A b \in Index : Available(b)'
      /\ picks' = picks \/ picks' = [b \in Index |-> 0]
  <2> DEFINE Noted ==
        /\ calm' => calm /\ UNCHANGED picks /\ \A b \in Index : Available(b)'
        /\ picks' = picks \/ picks' = [b \in Index |-> 0]
  <2>1. calm => \A b \in Index : Available(b)
    BY DEF Spread
  <2>2. ASSUME (\E t \in Tasks : Release(t)) \/ UNCHANGED vars
        PROVE  Noted
    <3>1. UNCHANGED <<calm, picks, circuit>>
      BY <2>2 DEF Release, vars, shared, history
    <3> QED BY <2>1, <3>1 DEF Available
  <2>3. ASSUME NEW b, record_success(b)
        PROVE  Noted
    BY <2>1, <2>3, WitnessCalm DEF record_success, IInv
  <2>4. ASSUME NEW b, record_failure(b)
        PROVE  Noted
    BY <2>1, <2>4, WitnessCalm DEF record_failure, IInv
  <2>5. ASSUME NEW b, Expire(b)
        PROVE  Noted
    BY <2>1, <2>5, WitnessCalm DEF Expire, IInv
  <2>6. Noted
    <3> HIDE DEF Noted
    <3>1. CASE \E t \in Tasks : Succeed(t)
      BY <2>3, <3>1, Zenon DEF Succeed
    <3>2. CASE \E b \in Index : CheckPassed(b) \/ CheckFailed(b) \/ Expire(b)
      BY <2>3, <2>4, <2>5, <3>2, Zenon DEF CheckPassed, CheckFailed
    <3> QED BY <2>2, <3>1, <3>2
  <2> QED BY <2>6
<1> QED BY <1>1, <1>2, <1>3, NothingSpent

-----------------------------------------------------------------------------
LEMMA NextSpread == IInv /\ Spread /\ [Next]_vars => Spread'
<1> SUFFICES ASSUME IInv, Spread, [Next]_vars PROVE Spread'
  OBVIOUS
<1>1. ASSUME NEW t \in Tasks, Select(t) PROVE Spread'
  <2>1. CASE RoundRobin(t)
    BY <2>1, DrawSpreads
  <2>2. CASE Acquire(t)
    BY <2>2, AcquireSpreads
  <2> QED BY <1>1, <2>1, <2>2, SearchSpreads DEF Select
<1>2. CASE \/ \E t \in Tasks : Succeed(t) \/ Release(t)
           \/ \E b \in Index : CheckPassed(b) \/ CheckFailed(b) \/ Expire(b)
           \/ UNCHANGED vars
  BY <1>2, RestSpreads
<1> QED BY <1>1, <1>2 DEF Next

LEMMA InitSpread == Init => Spread
<1> SUFFICES ASSUME Init PROVE Spread
  OBVIOUS
<1>1. (\A t \in Tasks : pc[t] = "idle") /\ (\A b \in Index : Available(b) /\ picks[b] = 0)
  BY DEF Init, Available
<1>2. ASSUME NEW b \in Index
      PROVE  picks[b] + Cardinality(InHand(b)) = Share(b, cursor)
  <2>1. InHand(b) = {}
    BY <1>1 DEF InHand
  <2>2. N # 0 /\ cursor = 0 /\ 0 \in Nat
    BY BalancerAssumption DEF Init, Index
  <2>3. Share(b, 0) = 0
    BY <2>2, Shares
  <2> QED BY <1>1, <2>1, <2>2, <2>3, FS_EmptySet
<1> QED BY <1>1, <1>2 DEF Spread

LEMMA SpreadIsEven == IInv /\ Spread => EvenSplit
<1> SUFFICES ASSUME IInv, Spread, calm, \A t \in Tasks : pc[t] \notin Selecting,
                    NEW b \in Index, NEW c \in Index
             PROVE  picks[b] <= picks[c] + 1
  BY DEF EvenSplit
<1>1. CASE strategy # "RoundRobin"
  BY <1>1 DEF Spread
<1>2. CASE strategy = "RoundRobin"
  <2>1. InHand(b) = {} /\ InHand(c) = {}
    BY DEF InHand, Selecting
  <2>2. N # 0 /\ cursor \in Nat
    BY BalancerAssumption DEF IInv, TypeOK, Index
  <2>3. ASSUME NEW x \in Index, InHand(x) = {}
        PROVE  picks[x] = Share(x, cursor)
    <3>1. Cardinality(InHand(x)) = 0
      BY <2>3, FS_EmptySet, Zenon
    <3>2. picks[x] \in Nat /\ picks[x] + Cardinality(InHand(x)) = Share(x, cursor)
      BY <1>2 DEF Spread, IInv, TypeOK
    <3> QED BY <3>1, <3>2
  <2> QED BY <2>1, <2>2, <2>3, Shares
<1> QED BY <1>1, <1>2

\* However the selects of round_robin interleave, and wherever each of them is
\* between its draw and its dispatch, the backends have had the same number of
\* requests to within one, as long as all are available and the cursor has not
\* wrapped (load_balancer.rs, round_robin).
THEOREM DrawsSpreadEvenly == Spec => []EvenSplit
<1>1. Init => IInv /\ Spread
  BY InitIInv, InitSpread
<1>2. IInv /\ Spread /\ [Next]_vars => (IInv /\ Spread)'
  BY NextIInv, NextSpread
<1> QED BY <1>1, <1>2, SpreadIsEven, PTL DEF Spec
=============================================================================
