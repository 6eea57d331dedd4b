------------------------- MODULE ConnectionsProofs --------------------------
(***************************************************************************)
(* Proofs about the connections, for any number of them, any addresses and *)
(* any limits: counts and permits are exact, an address is blocked by its  *)
(* failures and by nothing else, and each listener lets in at most one     *)
(* connection of an address after that.                                    *)
(*                                                                         *)
(* Counts and permits are cardinalities of sets of connections: a step     *)
(* adds one element, removes one, or leaves the sets alone.  That it does  *)
(* rests on Places: what a loop has in hand is an accepted connection of   *)
(* its own listener, and every connection that exists has an address.      *)
(*                                                                         *)
(* The last part shows that Connections implements Admission: the loops    *)
(* and their tasks, with their counts, permits and steps in between,       *)
(* decide as if each decision were atomic.  Spawn is the moment a          *)
(* connection is let in, Block the one that bans, ReleaseIp the one that   *)
(* lets go; all else stutters.                                             *)
(***************************************************************************)
EXTENDS Connections, FiniteSetTheorems, TLAPS

Places ==
  /\ \A l \in Listeners : lpc[l] # "accept" => cur[l] \in Conns
  /\ \A l \in Listeners : cur[l] \in Conns =>
       cpc[cur[l]] = "accepted" /\ listener[cur[l]] = l
  /\ \A c \in Conns : cpc[c] # "none" => peer[c] \in IPs

\* A task that is about to block an address has seen enough failures of it.
BlockersHaveCounted ==
  \A c \in Conns : cpc[c] = "blocking" =>
    block_tls_abusers /\ tls_failures[peer[c]] >= MaxTlsFailures

\* The connection that slipped was the one past the block list: the loop has
\* left it behind, and no other can get there.
SlippedIsOver ==
  \A l \in Listeners, a \in IPs :
    /\ slipped[l][a] <= 1
    /\ slipped[l][a] = 1 => /\ a \in blocked_ips
                            /\ ~(lpc[l] = "count" /\ peer[cur[l]] = a)

IInv ==
  /\ TypeOK
  /\ Places
  /\ PerIpCount
  /\ PermitsConserved
  /\ BlockedByFailures
  /\ BlockersHaveCounted
  /\ SlippedIsOver

-----------------------------------------------------------------------------
\* Connections can be counted.
LEMMA ConnsFinite ==
  ASSUME NEW S \in SUBSET Conns
  PROVE  IsFiniteSet(S) /\ Cardinality(S) \in Nat
BY ConnectionsAssumption, FS_Subset, FS_CardinalityType

LEMMA SetsOfConns ==
  /\ \A a : LiveOf(a) \in SUBSET Conns
  /\ \A l : PermitHolders(l) \in SUBSET Conns
BY DEF LiveOf, PermitHolders

\* A step that leaves counts and tasks where they are.
LEMMA SameLive ==
  ASSUME PerIpCount, UNCHANGED connections,
         \A c \in Conns : cpc[c] \in Live \/ cpc'[c] \in Live =>
           cpc[c] \in Live /\ cpc'[c] \in Live /\ peer'[c] = peer[c]
  PROVE  PerIpCount'
<1>1. \A a : LiveOf(a)' = LiveOf(a)
  BY DEF LiveOf
<1> QED BY <1>1 DEF PerIpCount

\* A step that leaves permits and their holders as they are.
LEMMA SameHolders ==
  ASSUME PermitsConserved, UNCHANGED permits,
         \A l \in Listeners : PermitHolders(l)' = PermitHolders(l)
  PROVE  PermitsConserved'
BY DEF PermitsConserved

\* A step that leaves blocking and failures as they are.
LEMMA SameBlocks ==
  ASSUME BlockedByFailures, BlockersHaveCounted,
         UNCHANGED <<block_tls_abusers, tls_failures, blocked_ips>>,
         \A c \in Conns : cpc[c] = "blocking" \/ cpc'[c] = "blocking" =>
           cpc[c] = "blocking" /\ cpc'[c] = "blocking" /\ peer'[c] = peer[c]
  PROVE  BlockedByFailures' /\ BlockersHaveCounted'
<1>1. BlockersHaveCounted'
  BY DEF BlockersHaveCounted
<1>2. BlockedByFailures'
  <2> SUFFICES ASSUME NEW a \in IPs
               PROVE  /\ (a \in blocked_ips)' =>
                           (block_tls_abusers /\ tls_failures[a] >= MaxTlsFailures)'
                      /\ (tls_failures[a] >= MaxTlsFailures /\ tls_failures[a] > 0)' =>
                           \/ (a \in blocked_ips)'
                           \/ \E c \in Conns : cpc'[c] = "blocking" /\ peer'[c] = a
    BY DEF BlockedByFailures
  <2> QED BY DEF BlockedByFailures
<1> QED BY <1>1, <1>2

-----------------------------------------------------------------------------
\* The listeners start with all their permits and no connection.
LEMMA InitIInv == Init => IInv
<1> SUFFICES ASSUME Init PROVE IInv
  OBVIOUS
<1> USE DEF Init
<1>1. TypeOK
  <2>1. block_tls_abusers \in BOOLEAN
    BY Zenon
  <2>2. /\ permits \in [Listeners -> 0 .. MaxConnections]
        /\ connections \in [IPs -> Nat] /\ tls_failures \in [IPs -> Nat]
        /\ slipped \in [Listeners -> [IPs -> 0 .. 2]]
    BY ConnectionsAssumption
  <2>3. /\ lpc \in [Listeners -> LoopPC] /\ cur \in [Listeners -> Conns \cup {NoConn}]
        /\ cpc \in [Conns -> ConnPC] /\ listener \in [Conns -> Listeners]
        /\ peer \in [Conns -> IPs \cup {NoIp}] /\ blocked_ips \subseteq IPs
    BY DEF LoopPC, ConnPC, Listeners
  <2> QED BY <2>1, <2>2, <2>3 DEF TypeOK
<1>2. Places
  BY ConnectionsAssumption DEF Places
<1>3. PerIpCount
  <2>1. \A a : LiveOf(a) = {}
    BY DEF LiveOf, Live
  <2>2. Cardinality({}) = 0 /\ MaxPerIp \in Nat
    BY FS_EmptySet, ConnectionsAssumption
  <2>3. connections = [a \in IPs |-> 0]
    OBVIOUS
  <2> HIDE DEF Init
  <2> QED BY <2>1, <2>2, <2>3 DEF PerIpCount
<1>4. PermitsConserved
  <2>1. \A l \in Listeners : PermitHolders(l) = {}
    BY DEF PermitHolders, Live
  <2>2. Cardinality({}) = 0 /\ MaxConnections \in Nat
    BY FS_EmptySet, ConnectionsAssumption
  <2>3. permits = [l \in Listeners |-> MaxConnections]
    OBVIOUS
  <2> HIDE DEF Init
  <2> QED BY <2>1, <2>2, <2>3 DEF PermitsConserved
<1>5. BlockedByFailures /\ BlockersHaveCounted /\ SlippedIsOver
  BY DEF BlockedByFailures, BlockersHaveCounted, SlippedIsOver
<1> QED BY <1>1, <1>2, <1>3, <1>4, <1>5 DEF IInv

-----------------------------------------------------------------------------
\* A connection that a loop drops was nowhere counted but, if the loop had its
\* permit, among the permit's holders.
LEMMA DropEffect ==
  ASSUME IInv, NEW l \in Listeners, lpc[l] # "accept", Drop(l),
         UNCHANGED <<block_tls_abusers, security, slipped>>
  PROVE  /\ lpc' \in [Listeners -> LoopPC] /\ cur' \in [Listeners -> Conns \cup {NoConn}]
         /\ cpc' \in [Conns -> ConnPC] /\ listener' \in [Conns -> Listeners]
         /\ peer' \in [Conns -> IPs \cup {NoIp}]
         /\ Places' /\ PerIpCount'
         /\ BlockedByFailures' /\ BlockersHaveCounted' /\ SlippedIsOver'
         /\ \A k \in Listeners : PermitHolders(k)' = PermitHolders(k) \ {cur[l]}
         /\ \A k \in Listeners \ {l} : cur[l] \notin PermitHolders(k)
         /\ cur[l] \in PermitHolders(l) <=> lpc[l] \in {"blocked", "count"}
<1>1. PICK c \in Conns : c = cur[l]
  BY DEF IInv, Places
<1>2. /\ cpc[c] = "accepted" /\ listener[c] = l
      /\ lpc' = [lpc EXCEPT ![l] = "accept"] /\ cur' = [cur EXCEPT ![l] = NoConn]
      /\ cpc' = [cpc EXCEPT ![c] = "none"] /\ peer' = [peer EXCEPT ![c] = NoIp]
      /\ listener' = [listener EXCEPT ![c] = "http"]
  BY <1>1 DEF IInv, Places, Drop, To
<1>3. /\ lpc \in [Listeners -> LoopPC] /\ cur \in [Listeners -> Conns \cup {NoConn}]
      /\ cpc \in [Conns -> ConnPC] /\ listener \in [Conns -> Listeners]
      /\ peer \in [Conns -> IPs \cup {NoIp}]
  BY DEF IInv, TypeOK
<1>4. /\ lpc' \in [Listeners -> LoopPC] /\ cur' \in [Listeners -> Conns \cup {NoConn}]
      /\ cpc' \in [Conns -> ConnPC] /\ listener' \in [Conns -> Listeners]
      /\ peer' \in [Conns -> IPs \cup {NoIp}]
  BY <1>2, <1>3 DEF LoopPC, ConnPC, Listeners
<1>5. \A k \in Listeners \ {l} : cur[k] # c
  BY <1>2 DEF IInv, Places
<1>6. Places'
  BY <1>2, <1>3, <1>5, ConnectionsAssumption DEF IInv, Places
<1>7. PerIpCount'
  BY <1>2, <1>3, SameLive DEF IInv, security, Live
<1>8. BlockedByFailures' /\ BlockersHaveCounted'
  BY <1>2, <1>3, SameBlocks DEF IInv, security
<1>9. SlippedIsOver'
  BY <1>2, <1>3, <1>5 DEF IInv, Places, SlippedIsOver, security
<1>10. \A k \in Listeners : PermitHolders(k)' = PermitHolders(k) \ {c}
  <2> SUFFICES ASSUME NEW k \in Listeners, NEW d \in Conns
               PROVE  d \in PermitHolders(k)' <=> d \in PermitHolders(k) /\ d # c
    BY DEF PermitHolders
  <2>1. CASE d = c
    BY <1>2, <1>3, <1>5, <2>1, ConnectionsAssumption DEF PermitHolders, Live
  <2>2. CASE d # c
    BY <1>1, <1>2, <1>3, <2>2, ConnectionsAssumption DEF PermitHolders
  <2> QED BY <2>1, <2>2
<1>11. \A k \in Listeners : c \in PermitHolders(k) <=> k = l /\ lpc[l] \in {"blocked", "count"}
  BY <1>1, <1>2 DEF PermitHolders, Live
<1> QED BY <1>1, <1>4, <1>6, <1>7, <1>8, <1>9, <1>10, <1>11

\* One permit for one holder: taken ...
LEMMA PermitTaken ==
  ASSUME IInv, NEW l \in Listeners, NEW c \in Conns, permits[l] > 0,
         permits' = [permits EXCEPT ![l] = @ - 1], c \notin PermitHolders(l),
         PermitHolders(l)' = PermitHolders(l) \cup {c},
         \A k \in Listeners \ {l} : PermitHolders(k)' = PermitHolders(k)
  PROVE  permits' \in [Listeners -> 0 .. MaxConnections] /\ PermitsConserved'
<1>1. /\ permits \in [Listeners -> 0 .. MaxConnections] /\ MaxConnections \in Nat
      /\ \A k \in Listeners : permits[k] + Cardinality(PermitHolders(k)) = MaxConnections
  BY ConnectionsAssumption DEF IInv, TypeOK, PermitsConserved
<1>2. /\ Cardinality(PermitHolders(l)) \in Nat
      /\ Cardinality(PermitHolders(l) \cup {c}) = Cardinality(PermitHolders(l)) + 1
  BY ConnsFinite, SetsOfConns, FS_AddElement
<1>3. permits' \in [Listeners -> 0 .. MaxConnections]
  BY <1>1
<1>4. ASSUME NEW k \in Listeners
      PROVE  permits'[k] + Cardinality(PermitHolders(k)') = MaxConnections
  <2>1. CASE k = l
    <3>1. permits'[l] = permits[l] - 1 /\ permits[l] \in Nat
      BY <1>1
    <3>2. Cardinality(PermitHolders(l)') = Cardinality(PermitHolders(l)) + 1
      BY <1>2
    <3>3. permits[l] + Cardinality(PermitHolders(l)) = MaxConnections
      BY <1>1
    <3>4. permits'[l] + Cardinality(PermitHolders(l)') = MaxConnections
      BY <1>2, <3>1, <3>2, <3>3
    <3> QED BY <2>1, <3>4
  <2>2. CASE k # l
    BY <1>1, <2>2
  <2> QED BY <2>1, <2>2
<1> QED BY <1>3, <1>4 DEF PermitsConserved

\* ... and given back.
LEMMA PermitReturned ==
  ASSUME IInv, NEW l \in Listeners, NEW c \in Conns,
         permits' = [permits EXCEPT ![l] = @ + 1], c \in PermitHolders(l),
         PermitHolders(l)' = PermitHolders(l) \ {c},
         \A k \in Listeners \ {l} : PermitHolders(k)' = PermitHolders(k)
  PROVE  permits' \in [Listeners -> 0 .. MaxConnections] /\ PermitsConserved'
<1>1. /\ permits \in [Listeners -> 0 .. MaxConnections] /\ MaxConnections \in Nat
      /\ \A k \in Listeners : permits[k] + Cardinality(PermitHolders(k)) = MaxConnections
  BY ConnectionsAssumption DEF IInv, TypeOK, PermitsConserved
<1>2. /\ Cardinality(PermitHolders(l)) \in Nat
      /\ Cardinality(PermitHolders(l) \ {c}) \in Nat
      /\ Cardinality(PermitHolders(l) \ {c}) = Cardinality(PermitHolders(l)) - 1
  <2>1. PermitHolders(l) \ {c} \in SUBSET Conns
    BY SetsOfConns
  <2> QED BY <2>1, ConnsFinite, SetsOfConns, FS_RemoveElement
<1>3. permits' \in [Listeners -> 0 .. MaxConnections]
  <2>1. permits[l] + 1 \in 0 .. MaxConnections
    BY <1>1, <1>2
  <2> QED BY <1>1, <2>1
<1>4. ASSUME NEW k \in Listeners
      PROVE  permits'[k] + Cardinality(PermitHolders(k)') = MaxConnections
  <2>1. CASE k = l
    <3>1. permits'[l] = permits[l] + 1 /\ permits[l] \in Nat
      BY <1>1
    <3>2. Cardinality(PermitHolders(l)') = Cardinality(PermitHolders(l)) - 1
      BY <1>2
    <3>3. permits[l] + Cardinality(PermitHolders(l)) = MaxConnections
      BY <1>1
    <3>4. permits'[l] + Cardinality(PermitHolders(l)') = MaxConnections
      BY <1>2, <3>1, <3>2, <3>3
    <3> QED BY <2>1, <3>4
  <2>2. CASE k # l
    BY <1>1, <2>2
  <2> QED BY <2>1, <2>2
<1> QED BY <1>3, <1>4 DEF PermitsConserved

-----------------------------------------------------------------------------
\* The loop of a listener, a step at a time.
LEMMA AcceptStep ==
  ASSUME IInv, NEW l \in Listeners, NEW c \in Conns, NEW a \in IPs, Accept(l, c, a)
  PROVE  IInv'
<1>1. /\ lpc[l] = "accept" /\ cpc[c] = "none"
      /\ lpc' = [lpc EXCEPT ![l] = "permit"] /\ cur' = [cur EXCEPT ![l] = c]
      /\ cpc' = [cpc EXCEPT ![c] = "accepted"] /\ listener' = [listener EXCEPT ![c] = l]
      /\ peer' = [peer EXCEPT ![c] = a]
      /\ UNCHANGED <<block_tls_abusers, permits, connections, tls_failures,
                     blocked_ips, slipped>>
  BY DEF Accept, To, security
<1>2. /\ lpc \in [Listeners -> LoopPC] /\ cur \in [Listeners -> Conns \cup {NoConn}]
      /\ cpc \in [Conns -> ConnPC] /\ listener \in [Conns -> Listeners]
      /\ peer \in [Conns -> IPs \cup {NoIp}]
  BY DEF IInv, TypeOK
<1>3. TypeOK'
  <2>1. block_tls_abusers' \in BOOLEAN
    BY <1>1, Zenon DEF IInv, TypeOK
  <2>2. /\ lpc' \in [Listeners -> LoopPC] /\ cur' \in [Listeners -> Conns \cup {NoConn}]
        /\ cpc' \in [Conns -> ConnPC] /\ listener' \in [Conns -> Listeners]
        /\ peer' \in [Conns -> IPs \cup {NoIp}]
    BY <1>1, <1>2 DEF LoopPC, ConnPC
  <2>3. /\ permits' \in [Listeners -> 0 .. MaxConnections]
        /\ connections' \in [IPs -> Nat] /\ tls_failures' \in [IPs -> Nat]
        /\ blocked_ips' \subseteq IPs /\ slipped' \in [Listeners -> [IPs -> 0 .. 2]]
    BY <1>1 DEF IInv, TypeOK
  <2> QED BY <2>1, <2>2, <2>3 DEF TypeOK
<1>4. \A k \in Listeners : cur[k] # c
  BY <1>1 DEF IInv, Places
<1>5. Places'
  BY <1>1, <1>2, <1>4 DEF IInv, Places
<1>6. PerIpCount'
  BY <1>1, <1>2, SameLive DEF IInv, Live
<1>7. PermitsConserved'
  <2>1. ASSUME NEW k \in Listeners, NEW d \in Conns
        PROVE  d \in PermitHolders(k)' <=> d \in PermitHolders(k)
    <3>1. CASE d = c
      BY <1>1, <1>2, <1>4, <3>1 DEF PermitHolders, Live
    <3>2. CASE d # c
      BY <1>1, <1>2, <3>2 DEF PermitHolders
    <3> QED BY <3>1, <3>2
  <2>2. \A k \in Listeners : PermitHolders(k)' = PermitHolders(k)
    BY <2>1 DEF PermitHolders
  <2> QED BY <1>1, <2>2, SameHolders DEF IInv
<1>8. BlockedByFailures' /\ BlockersHaveCounted'
  BY <1>1, <1>2, SameBlocks DEF IInv
<1>9. SlippedIsOver'
  BY <1>1, <1>2, <1>4 DEF IInv, Places, SlippedIsOver
<1> QED BY <1>3, <1>5, <1>6, <1>7, <1>8, <1>9 DEF IInv

\* A loop turns its connection away: without a permit, blocked, or full.
LEMMA DropStep ==
  ASSUME IInv, NEW l \in Listeners,
         NoPermit(l) \/ RefuseBlocked(l) \/ RefuseFull(l)
  PROVE  IInv'
<1>1. /\ lpc[l] # "accept" /\ Drop(l)
      /\ UNCHANGED <<block_tls_abusers, security, slipped>>
  BY DEF NoPermit, RefuseBlocked, RefuseFull, DropPermit
<1>2. PICK c \in Conns : c = cur[l]
  BY <1>1 DEF IInv, Places
<1>3. /\ lpc' \in [Listeners -> LoopPC] /\ cur' \in [Listeners -> Conns \cup {NoConn}]
      /\ cpc' \in [Conns -> ConnPC] /\ listener' \in [Conns -> Listeners]
      /\ peer' \in [Conns -> IPs \cup {NoIp}]
      /\ Places' /\ PerIpCount'
      /\ BlockedByFailures' /\ BlockersHaveCounted' /\ SlippedIsOver'
      /\ \A k \in Listeners : PermitHolders(k)' = PermitHolders(k) \ {c}
      /\ \A k \in Listeners \ {l} : c \notin PermitHolders(k)
      /\ c \in PermitHolders(l) <=> lpc[l] \in {"blocked", "count"}
  BY <1>1, <1>2, DropEffect
<1>4. \A k \in Listeners \ {l} : PermitHolders(k)' = PermitHolders(k)
  <2> SUFFICES ASSUME NEW k \in Listeners \ {l}
               PROVE  PermitHolders(k) \ {c} = PermitHolders(k)
    BY <1>3
  <2> QED BY <1>3
<1>5. permits' \in [Listeners -> 0 .. MaxConnections] /\ PermitsConserved'
  <2>1. CASE NoPermit(l)
    <3>1. lpc[l] = "permit" /\ permits' = permits
      BY <2>1 DEF NoPermit
    <3>2. c \notin PermitHolders(l)
      BY <1>3, <3>1
    <3>3. PermitHolders(l)' = PermitHolders(l)
      BY <1>3, <3>2
    <3>4. PermitsConserved'
      BY <1>4, <3>1, <3>3, SameHolders DEF IInv
    <3> QED BY <3>1, <3>4 DEF IInv, TypeOK
  <2>2. CASE RefuseBlocked(l) \/ RefuseFull(l)
    <3>1. /\ lpc[l] \in {"blocked", "count"}
          /\ permits' = [permits EXCEPT ![l] = @ + 1]
      BY <2>2 DEF RefuseBlocked, RefuseFull, DropPermit
    <3>2. c \in PermitHolders(l) /\ PermitHolders(l)' = PermitHolders(l) \ {c}
      BY <1>3, <3>1
    <3> QED BY <1>4, <3>1, <3>2, PermitReturned
  <2> QED BY <2>1, <2>2
<1>6. TypeOK'
  <2>1. block_tls_abusers' \in BOOLEAN
    BY <1>1, Zenon DEF IInv, TypeOK
  <2>2. /\ connections' \in [IPs -> Nat] /\ tls_failures' \in [IPs -> Nat]
        /\ blocked_ips' \subseteq IPs /\ slipped' \in [Listeners -> [IPs -> 0 .. 2]]
    BY <1>1 DEF IInv, TypeOK, security
  <2> QED BY <1>3, <1>5, <2>1, <2>2 DEF TypeOK
<1> QED BY <1>3, <1>5, <1>6 DEF IInv

\* A loop goes on from the permit to the block list, and from there to the
\* count: no connection moves.
LEMMA PassStep ==
  ASSUME IInv, NEW l \in Listeners, TakePermit(l) \/ PassBlocked(l)
  PROVE  IInv'
<1>1. PICK c \in Conns : c = cur[l]
  BY DEF IInv, Places, TakePermit, PassBlocked
<1>2. /\ UNCHANGED <<block_tls_abusers, cur, cpc, listener, peer, connections,
                     tls_failures, blocked_ips, slipped>>
      /\ cpc[c] = "accepted" /\ listener[c] = l /\ lpc[l] # "accept"
  BY <1>1 DEF TakePermit, PassBlocked, security, IInv, Places
<1>3. /\ lpc \in [Listeners -> LoopPC] /\ permits \in [Listeners -> 0 .. MaxConnections]
      /\ cur \in [Listeners -> Conns \cup {NoConn}]
  BY DEF IInv, TypeOK
<1>4. \A k \in Listeners \ {l} : lpc'[k] = lpc[k]
  BY <1>3 DEF TakePermit, PassBlocked, To
<1>5. \A k \in Listeners \ {l} : PermitHolders(k)' = PermitHolders(k)
  BY <1>2, <1>4 DEF PermitHolders
<1>6. /\ lpc' \in [Listeners -> LoopPC]
      /\ permits' \in [Listeners -> 0 .. MaxConnections]
      /\ PermitsConserved'
  <2>1. CASE TakePermit(l)
    <3>1. /\ lpc[l] = "permit" /\ permits[l] > 0
          /\ permits' = [permits EXCEPT ![l] = @ - 1]
          /\ lpc' = [lpc EXCEPT ![l] = "blocked"]
      BY <2>1 DEF TakePermit, To
    <3>2. c \notin PermitHolders(l)
      BY <1>2, <3>1 DEF PermitHolders, Live
    <3>3. PermitHolders(l)' = PermitHolders(l) \cup {c}
      BY <1>1, <1>2, <1>3, <3>1 DEF PermitHolders
    <3>4. permits' \in [Listeners -> 0 .. MaxConnections] /\ PermitsConserved'
      BY <1>5, <3>1, <3>2, <3>3, PermitTaken
    <3> QED BY <1>3, <3>1, <3>4 DEF LoopPC
  <2>2. CASE PassBlocked(l)
    <3>1. /\ lpc[l] = "blocked" /\ permits' = permits
          /\ lpc' = [lpc EXCEPT ![l] = "count"]
      BY <2>2 DEF PassBlocked, To
    <3>2. PermitHolders(l)' = PermitHolders(l)
      BY <1>2, <1>3, <3>1 DEF PermitHolders
    <3>3. PermitsConserved'
      BY <1>5, <3>1, <3>2, SameHolders DEF IInv
    <3> QED BY <1>3, <3>1, <3>3 DEF LoopPC
  <2> QED BY <2>1, <2>2
<1>7. TypeOK'
  <2>1. block_tls_abusers' \in BOOLEAN
    BY <1>2, Zenon DEF IInv, TypeOK
  <2> QED BY <1>2, <1>6, <2>1 DEF IInv, TypeOK
<1>8. Places'
  BY <1>1, <1>2, <1>4 DEF IInv, Places
<1>9. PerIpCount' /\ BlockedByFailures' /\ BlockersHaveCounted'
  BY <1>2, SameLive, SameBlocks DEF IInv
<1>10. SlippedIsOver'
  <2>1. CASE TakePermit(l)
    BY <1>2, <1>3, <1>4, <2>1 DEF IInv, SlippedIsOver, TakePermit, To
  <2>2. CASE PassBlocked(l)
    BY <1>2, <1>3, <1>4, <2>2 DEF IInv, SlippedIsOver, PassBlocked, IsBlocked
  <2> QED BY <2>1, <2>2
<1> QED BY <1>6, <1>7, <1>8, <1>9, <1>10 DEF IInv

\* A loop counts its connection and spawns the task: the one step that adds a
\* live connection, and the one that may let one slip.
LEMMA SpawnStep ==
  ASSUME IInv, NEW l \in Listeners, Spawn(l)
  PROVE  IInv'
<1>1. PICK c \in Conns : c = cur[l]
  BY DEF IInv, Places, Spawn
<1>2. PICK a \in IPs : a = peer[c]
  BY <1>1 DEF IInv, Places
<1>3. PICK place \in {"handshake", "serving"} :
        place = IF l = "https" THEN "handshake" ELSE "serving"
  OBVIOUS
<1>4. /\ lpc[l] = "count" /\ ~(connections[a] >= MaxPerIp)
      /\ cpc[c] = "accepted" /\ listener[c] = l
      /\ connections' = [connections EXCEPT ![a] = @ + 1]
      /\ cpc' = [cpc EXCEPT ![c] = place]
      /\ lpc' = [lpc EXCEPT ![l] = "accept"] /\ cur' = [cur EXCEPT ![l] = NoConn]
      /\ UNCHANGED <<block_tls_abusers, permits, listener, peer, tls_failures,
                     blocked_ips>>
  BY <1>1, <1>2, <1>3 DEF Spawn, To, IpFull, IInv, Places
<1>5. slipped' = IF a \in blocked_ips /\ slipped[l][a] < 2
                 THEN [slipped EXCEPT ![l][a] = @ + 1] ELSE slipped
  BY <1>1, <1>2 DEF Spawn
<1>6. /\ lpc \in [Listeners -> LoopPC] /\ cur \in [Listeners -> Conns \cup {NoConn}]
      /\ cpc \in [Conns -> ConnPC] /\ permits \in [Listeners -> 0 .. MaxConnections]
      /\ connections \in [IPs -> Nat] /\ slipped \in [Listeners -> [IPs -> 0 .. 2]]
      /\ MaxPerIp \in Nat
  BY ConnectionsAssumption DEF IInv, TypeOK
<1>7. \A k \in Listeners \ {l} : cur[k] # c
  BY <1>4 DEF IInv, Places
<1>8. a \in blocked_ips => slipped[l][a] = 0
  <2>1. slipped[l][a] <= 1 /\ slipped[l][a] # 1 /\ slipped[l][a] \in 0 .. 2
    BY <1>1, <1>2, <1>4, <1>6 DEF IInv, SlippedIsOver
  <2> QED BY <2>1
<1>9. TypeOK'
  <2>1. block_tls_abusers' \in BOOLEAN
    BY <1>4, Zenon DEF IInv, TypeOK
  <2>2. /\ lpc' \in [Listeners -> LoopPC] /\ cur' \in [Listeners -> Conns \cup {NoConn}]
        /\ cpc' \in [Conns -> ConnPC]
    BY <1>4, <1>6 DEF LoopPC, ConnPC, Live
  <2>3. connections' \in [IPs -> Nat]
    BY <1>4, <1>6
  <2>4. slipped' \in [Listeners -> [IPs -> 0 .. 2]]
    <3>1. CASE a \in blocked_ips
      <4>1. [slipped[l] EXCEPT ![a] = @ + 1] \in [IPs -> 0 .. 2]
        BY <1>6, <1>8, <3>1
      <4>2. slipped' = [slipped EXCEPT ![l] = [slipped[l] EXCEPT ![a] = @ + 1]]
        BY <1>5, <1>8, <3>1
      <4> QED BY <1>6, <4>1, <4>2
    <3>2. CASE a \notin blocked_ips
      BY <1>5, <1>6, <3>2
    <3> QED BY <3>1, <3>2
  <2>5. /\ permits' \in [Listeners -> 0 .. MaxConnections]
        /\ listener' \in [Conns -> Listeners] /\ peer' \in [Conns -> IPs \cup {NoIp}]
        /\ tls_failures' \in [IPs -> Nat] /\ blocked_ips' \subseteq IPs
    BY <1>4 DEF IInv, TypeOK
  <2> QED BY <2>1, <2>2, <2>3, <2>4, <2>5 DEF TypeOK
<1>10. Places'
  BY <1>1, <1>2, <1>4, <1>6, <1>7, ConnectionsAssumption DEF IInv, Places
<1>11. PerIpCount'
  <2>1. LiveOf(a)' = LiveOf(a) \cup {c} /\ c \notin LiveOf(a)
    BY <1>2, <1>3, <1>4, <1>6 DEF LiveOf, Live
  <2>2. \A b \in IPs \ {a} : LiveOf(b)' = LiveOf(b)
    BY <1>2, <1>3, <1>4, <1>6 DEF LiveOf, Live
  <2>3. Cardinality(LiveOf(a)') = Cardinality(LiveOf(a)) + 1
    BY <2>1, ConnsFinite, SetsOfConns, FS_AddElement
  <2>4. connections[a] = Cardinality(LiveOf(a)) /\ connections'[a] = connections[a] + 1
    BY <1>4, <1>6 DEF IInv, PerIpCount
  <2>5. connections'[a] = Cardinality(LiveOf(a)') /\ connections'[a] <= MaxPerIp
    BY <1>4, <1>6, <2>3, <2>4
  <2>6. \A b \in IPs \ {a} : connections'[b] = connections[b]
    BY <1>4, <1>6
  <2> QED BY <2>2, <2>5, <2>6, <1>4 DEF IInv, PerIpCount
<1>12. PermitsConserved'
  <2>1. ASSUME NEW k \in Listeners, NEW d \in Conns
        PROVE  d \in PermitHolders(k)' <=> d \in PermitHolders(k)
    <3>1. CASE d = c
      BY <1>1, <1>3, <1>4, <1>6, <1>7, <3>1 DEF PermitHolders, Live
    <3>2. CASE d # c
      BY <1>1, <1>4, <1>6, <3>2, ConnectionsAssumption DEF PermitHolders
    <3> QED BY <3>1, <3>2
  <2>2. \A k \in Listeners : PermitHolders(k)' = PermitHolders(k)
    BY <2>1 DEF PermitHolders
  <2> QED BY <1>4, <2>2, SameHolders DEF IInv
<1>13. BlockedByFailures' /\ BlockersHaveCounted'
  BY <1>3, <1>4, <1>6, SameBlocks DEF IInv
<1>14. SlippedIsOver'
  <2>1. ASSUME NEW k \in Listeners, NEW b \in IPs, k # l \/ b # a
        PROVE  slipped'[k][b] = slipped[k][b]
    BY <1>5, <1>6, <2>1
  <2>2. a \in blocked_ips => slipped'[l][a] = 1
    BY <1>5, <1>6, <1>8
  <2>3. a \notin blocked_ips => slipped'[l][a] = slipped[l][a]
    BY <1>5
  <2>4. lpc'[l] = "accept" /\ \A k \in Listeners \ {l} : lpc'[k] = lpc[k] /\ cur'[k] = cur[k]
    BY <1>4, <1>6
  <2> QED BY <1>4, <2>1, <2>2, <2>3, <2>4 DEF IInv, SlippedIsOver
<1> QED BY <1>9, <1>10, <1>11, <1>12, <1>13, <1>14 DEF IInv

-----------------------------------------------------------------------------
\* A task goes on to another of its places: connection and permit stay its own.
LEMMA TaskMoves ==
  ASSUME IInv, NEW c \in Conns, NEW place \in Live \cup {"released"},
         cpc[c] \in Live, cpc' = [cpc EXCEPT ![c] = place],
         UNCHANGED <<block_tls_abusers, lpc, cur, permits, listener, peer, slipped>>,
         blocked_ips \subseteq blocked_ips'
  PROVE  /\ block_tls_abusers' \in BOOLEAN
         /\ lpc' \in [Listeners -> LoopPC] /\ cur' \in [Listeners -> Conns \cup {NoConn}]
         /\ permits' \in [Listeners -> 0 .. MaxConnections]
         /\ cpc' \in [Conns -> ConnPC] /\ listener' \in [Conns -> Listeners]
         /\ peer' \in [Conns -> IPs \cup {NoIp}]
         /\ slipped' \in [Listeners -> [IPs -> 0 .. 2]]
         /\ Places' /\ PermitsConserved' /\ SlippedIsOver'
<1>1. cpc \in [Conns -> ConnPC] /\ cur \in [Listeners -> Conns \cup {NoConn}]
  BY DEF IInv, TypeOK
<1>2. block_tls_abusers' \in BOOLEAN
  BY Zenon DEF IInv, TypeOK
<1>3. /\ lpc' \in [Listeners -> LoopPC] /\ cur' \in [Listeners -> Conns \cup {NoConn}]
      /\ permits' \in [Listeners -> 0 .. MaxConnections]
      /\ cpc' \in [Conns -> ConnPC] /\ listener' \in [Conns -> Listeners]
      /\ peer' \in [Conns -> IPs \cup {NoIp}]
      /\ slipped' \in [Listeners -> [IPs -> 0 .. 2]]
  BY <1>1 DEF IInv, TypeOK, ConnPC
<1>4. Places'
  BY <1>1 DEF IInv, Places, Live
<1>5. PermitsConserved'
  <2>1. \A k \in Listeners : PermitHolders(k)' = PermitHolders(k)
    BY <1>1 DEF PermitHolders
  <2> QED BY <2>1, SameHolders DEF IInv
<1>6. SlippedIsOver'
  BY DEF IInv, SlippedIsOver
<1> QED BY <1>2, <1>3, <1>4, <1>5, <1>6

\* Handshakes and serving: nothing that is counted changes.
LEMMA ServeStep ==
  ASSUME IInv, NEW c \in Conns, HandshakeOk(c) \/ HandshakeFails(c) \/ StopServing(c)
  PROVE  IInv'
<1>1. PICK place \in {"serving", "failing", "closing"} :
        cpc' = [cpc EXCEPT ![c] = place]
  BY DEF HandshakeOk, HandshakeFails, StopServing, To
<1>2. /\ cpc[c] \in {"handshake", "serving"}
      /\ UNCHANGED <<block_tls_abusers, lpc, cur, permits, listener, peer,
                     connections, tls_failures, blocked_ips, slipped>>
  BY DEF HandshakeOk, HandshakeFails, StopServing, security
<1>3. place \in Live /\ cpc[c] \in Live /\ cpc \in [Conns -> ConnPC]
  BY <1>2 DEF Live, IInv, TypeOK
<1>4. TypeOK' /\ Places' /\ PermitsConserved' /\ SlippedIsOver'
  BY <1>1, <1>2, <1>3, TaskMoves DEF IInv, TypeOK
<1>5. PerIpCount'
  BY <1>1, <1>2, <1>3, SameLive DEF IInv
<1>6. BlockedByFailures' /\ BlockersHaveCounted'
  BY <1>1, <1>2, <1>3, SameBlocks DEF IInv
<1> QED BY <1>4, <1>5, <1>6 DEF IInv

\* A failed handshake is recorded; the one that reaches the limit is the one
\* that goes on to block the address.
LEMMA RecordTlsFailureStep ==
  ASSUME IInv, NEW c \in Conns, RecordTlsFailure(c)
  PROVE  IInv'
<1>1. PICK a \in IPs : a = peer[c]
  BY DEF RecordTlsFailure, IInv, Places
<1>2. PICK place \in {"blocking", "closing"} : cpc' = [cpc EXCEPT ![c] = place]
  BY DEF RecordTlsFailure, To
<1>3. /\ cpc[c] = "failing"
      /\ UNCHANGED <<block_tls_abusers, lpc, cur, permits, listener, peer,
                     connections, blocked_ips, slipped>>
  BY DEF RecordTlsFailure
<1>4. /\ cpc \in [Conns -> ConnPC] /\ tls_failures \in [IPs -> Nat]
      /\ MaxTlsFailures \in Nat /\ block_tls_abusers \in BOOLEAN
      /\ place \in Live /\ cpc[c] \in Live
  BY <1>3, ConnectionsAssumption DEF IInv, TypeOK, Live
<1>5. /\ tls_failures' \in [IPs -> Nat]
      /\ \A b \in IPs \ {a} : tls_failures'[b] = tls_failures[b]
      /\ tls_failures'[a] >= tls_failures[a]
      /\ place = "blocking" => block_tls_abusers /\ tls_failures'[a] >= MaxTlsFailures
      /\ tls_failures'[a] >= MaxTlsFailures =>
           tls_failures'[a] = tls_failures[a] \/ place = "blocking"
  <2>1. CASE block_tls_abusers
    <3>1. PICK n \in Nat : n = tls_failures[a] + 1
      BY <1>4
    <3>2. /\ tls_failures' = IF n <= MaxTlsFailures
                             THEN [tls_failures EXCEPT ![a] = n] ELSE tls_failures
          /\ cpc' = [cpc EXCEPT ![c] = IF n >= MaxTlsFailures THEN "blocking" ELSE "closing"]
      BY <1>1, <2>1, <3>1 DEF RecordTlsFailure, Reaches, To
    <3>3. place = IF n >= MaxTlsFailures THEN "blocking" ELSE "closing"
      BY <1>2, <1>4, <3>2
    <3>4. CASE n <= MaxTlsFailures
      BY <1>4, <2>1, <3>1, <3>2, <3>3, <3>4
    <3>5. CASE ~(n <= MaxTlsFailures)
      BY <1>4, <2>1, <3>1, <3>2, <3>3, <3>5
    <3> QED BY <3>4, <3>5
  <2>2. CASE ~block_tls_abusers
    <3>1. tls_failures' = tls_failures /\ cpc' = [cpc EXCEPT ![c] = "closing"]
      BY <2>2 DEF RecordTlsFailure, To
    <3>2. place = "closing"
      BY <1>2, <1>4, <3>1
    <3> QED BY <1>4, <3>1, <3>2
  <2> QED BY <2>1, <2>2
<1>6. TypeOK' /\ Places' /\ PermitsConserved' /\ SlippedIsOver'
  BY <1>2, <1>3, <1>4, <1>5, TaskMoves DEF IInv, TypeOK
<1>7. PerIpCount'
  BY <1>2, <1>3, <1>4, SameLive DEF IInv
<1>8. BlockersHaveCounted'
  <2> SUFFICES ASSUME NEW d \in Conns, cpc'[d] = "blocking"
               PROVE  block_tls_abusers /\ tls_failures'[peer[d]] >= MaxTlsFailures
    BY <1>3 DEF BlockersHaveCounted
  <2>1. CASE d = c
    BY <1>1, <1>2, <1>4, <1>5, <2>1
  <2>2. CASE d # c
    <3>1. cpc[d] = "blocking"
      BY <1>2, <1>4, <2>2
    <3>2. PICK b \in IPs : b = peer[d]
      BY <3>1 DEF IInv, Places
    <3>3. block_tls_abusers /\ tls_failures[b] >= MaxTlsFailures
      BY <3>1, <3>2 DEF IInv, BlockersHaveCounted
    <3>4. tls_failures'[b] >= tls_failures[b] /\ tls_failures'[b] \in Nat /\ tls_failures[b] \in Nat
      BY <1>4, <1>5
    <3>5. tls_failures'[b] >= MaxTlsFailures
      BY <1>4, <3>3, <3>4
    <3> QED BY <3>2, <3>3, <3>5
  <2> QED BY <2>1, <2>2
<1>9. BlockedByFailures'
  <2> SUFFICES ASSUME NEW b \in IPs
               PROVE  /\ b \in blocked_ips =>
                           block_tls_abusers /\ tls_failures'[b] >= MaxTlsFailures
                      /\ tls_failures'[b] >= MaxTlsFailures /\ tls_failures'[b] > 0 =>
                           \/ b \in blocked_ips
                           \/ \E d \in Conns : cpc'[d] = "blocking" /\ peer[d] = b
    BY <1>3 DEF BlockedByFailures
  <2>1. tls_failures'[b] >= tls_failures[b] /\ tls_failures'[b] \in Nat /\ tls_failures[b] \in Nat
    BY <1>4, <1>5
  <2>2. b \in blocked_ips =>
          block_tls_abusers /\ tls_failures'[b] >= MaxTlsFailures
    BY <1>4, <2>1 DEF IInv, BlockedByFailures
  <2>3. \A d \in Conns : cpc[d] = "blocking" => cpc'[d] = "blocking"
    BY <1>2, <1>3, <1>4
  <2>4. CASE tls_failures'[b] = tls_failures[b]
    BY <2>2, <2>3, <2>4 DEF IInv, BlockedByFailures
  <2>5. CASE tls_failures'[b] # tls_failures[b]
    <3>1. b = a
      BY <1>5, <2>5
    <3>2. tls_failures'[b] >= MaxTlsFailures => cpc'[c] = "blocking" /\ peer[c] = b
      BY <1>1, <1>2, <1>4, <1>5, <2>5, <3>1
    <3> QED BY <2>2, <3>2
  <2> QED BY <2>4, <2>5
<1> QED BY <1>6, <1>7, <1>8, <1>9 DEF IInv

\* The address is blocked, by a task that has counted enough failures of it.
LEMMA BlockStep ==
  ASSUME IInv, NEW c \in Conns, Block(c)
  PROVE  IInv'
<1>1. /\ cpc[c] = "blocking" /\ cpc' = [cpc EXCEPT ![c] = "closing"]
      /\ blocked_ips' = blocked_ips \cup {peer[c]}
      /\ UNCHANGED <<block_tls_abusers, lpc, cur, permits, listener, peer,
                     connections, tls_failures, slipped>>
  BY DEF Block, To
<1>2. /\ cpc \in [Conns -> ConnPC] /\ peer[c] \in IPs
      /\ "closing" \in Live /\ cpc[c] \in Live
  BY <1>1 DEF IInv, TypeOK, Places, Live
<1>3. TypeOK' /\ Places' /\ PermitsConserved' /\ SlippedIsOver'
  BY <1>1, <1>2, TaskMoves DEF IInv, TypeOK
<1>4. PerIpCount'
  BY <1>1, <1>2, SameLive DEF IInv
<1>5. BlockersHaveCounted'
  BY <1>1, <1>2 DEF IInv, BlockersHaveCounted
<1>6. BlockedByFailures'
  <2> SUFFICES ASSUME NEW b \in IPs
               PROVE  /\ b \in blocked_ips' =>
                           block_tls_abusers /\ tls_failures[b] >= MaxTlsFailures
                      /\ tls_failures[b] >= MaxTlsFailures /\ tls_failures[b] > 0 =>
                           \/ b \in blocked_ips'
                           \/ \E d \in Conns : cpc'[d] = "blocking" /\ peer[d] = b
    BY <1>1 DEF BlockedByFailures
  <2>1. CASE b = peer[c]
    BY <1>1, <2>1 DEF IInv, BlockersHaveCounted
  <2>2. CASE b # peer[c]
    BY <1>1, <1>2, <2>2 DEF IInv, BlockedByFailures
  <2> QED BY <2>1, <2>2
<1> QED BY <1>3, <1>4, <1>5, <1>6 DEF IInv

\* The guard of the address is dropped: the one step that takes a live
\* connection away.
LEMMA ReleaseIpStep ==
  ASSUME IInv, NEW c \in Conns, ReleaseIp(c)
  PROVE  IInv'
<1>1. PICK a \in IPs : a = peer[c]
  BY DEF ReleaseIp, IInv, Places
<1>2. /\ cpc[c] = "closing" /\ cpc' = [cpc EXCEPT ![c] = "released"]
      /\ connections' = IF connections[a] > 0
                        THEN [connections EXCEPT ![a] = @ - 1] ELSE connections
      /\ UNCHANGED <<block_tls_abusers, lpc, cur, permits, listener, peer,
                     tls_failures, blocked_ips, slipped>>
  BY <1>1 DEF ReleaseIp, To
<1>3. /\ cpc \in [Conns -> ConnPC] /\ connections \in [IPs -> Nat]
      /\ cpc[c] \in Live /\ "released" \notin Live /\ MaxPerIp \in Nat
  BY <1>2, ConnectionsAssumption DEF IInv, TypeOK, Live
<1>4. connections' \in [IPs -> Nat]
  BY <1>2, <1>3
<1>5. TypeOK' /\ Places' /\ PermitsConserved' /\ SlippedIsOver'
  BY <1>2, <1>3, <1>4, TaskMoves DEF IInv, TypeOK
<1>6. PerIpCount'
  <2>1. LiveOf(a)' = LiveOf(a) \ {c} /\ c \in LiveOf(a)
    BY <1>1, <1>2, <1>3 DEF LiveOf
  <2>2. \A b \in IPs \ {a} : LiveOf(b)' = LiveOf(b)
    BY <1>1, <1>2, <1>3 DEF LiveOf
  <2>3. /\ Cardinality(LiveOf(a)) \in Nat /\ Cardinality(LiveOf(a)') \in Nat
        /\ Cardinality(LiveOf(a)') = Cardinality(LiveOf(a)) - 1
    <3>1. LiveOf(a) \ {c} \in SUBSET Conns
      BY SetsOfConns
    <3> QED BY <2>1, <3>1, ConnsFinite, SetsOfConns, FS_RemoveElement
  <2>4. connections[a] = Cardinality(LiveOf(a)) /\ connections[a] <= MaxPerIp
    BY DEF IInv, PerIpCount
  <2>5. connections'[a] = connections[a] - 1
    BY <1>2, <1>3, <2>3, <2>4
  <2>6. connections'[a] = Cardinality(LiveOf(a)') /\ connections'[a] <= MaxPerIp
    BY <1>3, <2>3, <2>4, <2>5
  <2>7. \A b \in IPs \ {a} : connections'[b] = connections[b]
    BY <1>2, <1>3
  <2> QED BY <2>2, <2>6, <2>7 DEF IInv, PerIpCount
<1>7. BlockedByFailures' /\ BlockersHaveCounted'
  BY <1>2, <1>3, SameBlocks DEF IInv
<1> QED BY <1>5, <1>6, <1>7 DEF IInv

\* The permit is dropped, and the connection is gone.
LEMMA ReleasePermitStep ==
  ASSUME IInv, NEW c \in Conns, ReleasePermit(c)
  PROVE  IInv'
<1>1. PICK l \in Listeners : l = listener[c]
  BY DEF IInv, TypeOK
<1>2. /\ cpc[c] = "released" /\ cpc' = [cpc EXCEPT ![c] = "none"]
      /\ permits' = [permits EXCEPT ![l] = @ + 1]
      /\ peer' = [peer EXCEPT ![c] = NoIp] /\ listener' = [listener EXCEPT ![c] = "http"]
      /\ UNCHANGED <<block_tls_abusers, lpc, cur, connections, tls_failures,
                     blocked_ips, slipped>>
  BY <1>1 DEF ReleasePermit, To, security
<1>3. /\ cpc \in [Conns -> ConnPC] /\ listener \in [Conns -> Listeners]
      /\ peer \in [Conns -> IPs \cup {NoIp}] /\ cur \in [Listeners -> Conns \cup {NoConn}]
  BY DEF IInv, TypeOK
<1>4. \A k \in Listeners : cur[k] # c
  BY <1>2 DEF IInv, Places
<1>5. /\ c \in PermitHolders(l) /\ PermitHolders(l)' = PermitHolders(l) \ {c}
      /\ \A k \in Listeners \ {l} : PermitHolders(k)' = PermitHolders(k)
  <2>1. \A k \in Listeners : c \in PermitHolders(k) <=> k = l
    BY <1>1, <1>2, <1>4 DEF PermitHolders
  <2>2. \A k \in Listeners : c \notin PermitHolders(k)'
    BY <1>2, <1>3, <1>4 DEF PermitHolders, Live
  <2>3. \A k \in Listeners, d \in Conns \ {c} :
          d \in PermitHolders(k)' <=> d \in PermitHolders(k)
    BY <1>2, <1>3 DEF PermitHolders
  <2>4. \A k \in Listeners : PermitHolders(k) \subseteq Conns /\ PermitHolders(k)' \subseteq Conns
    BY DEF PermitHolders
  <2>5. \A k \in Listeners : PermitHolders(k)' = PermitHolders(k) \ {c}
    BY <2>2, <2>3, <2>4
  <2> QED BY <2>1, <2>5
<1>6. permits' \in [Listeners -> 0 .. MaxConnections] /\ PermitsConserved'
  BY <1>2, <1>5, PermitReturned
<1>7. TypeOK'
  <2>1. block_tls_abusers' \in BOOLEAN
    BY <1>2, Zenon DEF IInv, TypeOK
  <2>2. /\ cpc' \in [Conns -> ConnPC] /\ listener' \in [Conns -> Listeners]
        /\ peer' \in [Conns -> IPs \cup {NoIp}]
    BY <1>2, <1>3 DEF ConnPC, Listeners
  <2> QED BY <1>2, <1>6, <2>1, <2>2 DEF IInv, TypeOK
<1>8. Places'
  BY <1>2, <1>3, <1>4, ConnectionsAssumption DEF IInv, Places
<1>9. PerIpCount'
  BY <1>2, <1>3, SameLive DEF IInv, Live
<1>10. BlockedByFailures' /\ BlockersHaveCounted'
  BY <1>2, <1>3, SameBlocks DEF IInv
<1>11. SlippedIsOver'
  BY <1>2, <1>3, <1>4 DEF IInv, Places, SlippedIsOver
<1> QED BY <1>6, <1>7, <1>8, <1>9, <1>10, <1>11 DEF IInv

-----------------------------------------------------------------------------
\* Every step of every loop and task keeps the invariant.
LEMMA NextIInv == IInv /\ [Next]_vars => IInv'
<1> SUFFICES ASSUME IInv, [Next]_vars PROVE IInv'
  OBVIOUS
<1>1. ASSUME NEW l \in Listeners, Loop(l) PROVE IInv'
  BY <1>1, DropStep, PassStep, SpawnStep DEF Loop
<1>2. ASSUME NEW l \in Listeners, NEW c \in Conns, NEW a \in IPs, Accept(l, c, a)
      PROVE  IInv'
  BY <1>2, AcceptStep
<1>3. ASSUME NEW c \in Conns, Task(c) PROVE IInv'
  BY <1>3, ServeStep, RecordTlsFailureStep, BlockStep, ReleaseIpStep,
     ReleasePermitStep DEF Task
<1>4. CASE UNCHANGED vars
  <2>1. UNCHANGED <<block_tls_abusers, lpc, cur, permits, cpc, listener, peer,
                    connections, tls_failures, blocked_ips, slipped>>
    BY <1>4 DEF vars, security
  <2>2. TypeOK'
    <3>1. block_tls_abusers' \in BOOLEAN
      BY <2>1, Zenon DEF IInv, TypeOK
    <3> QED BY <2>1, <3>1 DEF IInv, TypeOK
  <2>3. PerIpCount' /\ BlockedByFailures' /\ BlockersHaveCounted'
    BY <2>1, SameLive, SameBlocks DEF IInv
  <2>4. PermitsConserved'
    BY <2>1 DEF IInv, PermitsConserved, PermitHolders
  <2>5. Places' /\ SlippedIsOver'
    BY <2>1 DEF IInv, Places, SlippedIsOver
  <2> QED BY <2>2, <2>3, <2>4, <2>5 DEF IInv
<1> QED BY <1>1, <1>2, <1>3, <1>4 DEF Next

\* The invariant holds in every state of the two loops and their tasks.
THEOREM ConnectionsInvariant == Spec => []IInv
BY InitIInv, NextIInv, PTL DEF Spec

\* Loops, tasks and maps keep their types; permits stay within the semaphore.
THEOREM TypeCorrect == Spec => []TypeOK
<1>1. IInv => TypeOK
  BY DEF IInv
<1> QED BY <1>1, ConnectionsInvariant, PTL

\* connections[ip] is the number of connection tasks of the address, and never
\* passes the limit (check_and_acquire_connection, release_connection).
THEOREM CountsAreExact == Spec => []PerIpCount
<1>1. IInv => PerIpCount
  BY DEF IInv
<1> QED BY <1>1, ConnectionsInvariant, PTL

\* No way out of an accept loop or of a task loses a permit or makes one.
THEOREM PermitsAreConserved == Spec => []PermitsConserved
<1>1. IInv => PermitsConserved
  BY DEF IInv
<1> QED BY <1>1, ConnectionsInvariant, PTL

\* An address is blocked by max_tls_failures failed handshakes and by nothing
\* else (record_tls_failure).
THEOREM BlockedOnlyByFailures == Spec => []BlockedByFailures
<1>1. IInv => BlockedByFailures
  BY DEF IInv
<1> QED BY <1>1, ConnectionsInvariant, PTL

\* The check of blocked_ips and the count are two steps; still each listener
\* lets in at most one connection of an address after it was blocked.
THEOREM OneSlipAtMost == Spec => []AtMostOneSlips
<1>1. IInv => AtMostOneSlips
  BY DEF IInv, SlippedIsOver, AtMostOneSlips
<1> QED BY <1>1, ConnectionsInvariant, PTL

-----------------------------------------------------------------------------
(* The refinement of Admission                                             *)

Open(l, a) == {c \in LiveOf(a) : listener[c] = l}

\* Handshakes belong to the TLS listener.
TlsPlaces ==
  \A c \in Conns : cpc[c] \in {"handshake", "failing", "blocking"} =>
    listener[c] = "https"

-----------------------------------------------------------------------------
\* No connection gets a handshake but by the spawn of serve_https, and none
\* changes its listener while it has one.
LEMMA TlsPlacesStep == IInv /\ TlsPlaces /\ [Next]_vars => TlsPlaces'
<1> SUFFICES ASSUME IInv, TlsPlaces, [Next]_vars PROVE TlsPlaces'
  OBVIOUS
<1> USE DEF To, TlsPlaces
<1>1. cpc \in [Conns -> ConnPC] /\ listener \in [Conns -> Listeners]
  BY DEF IInv, TypeOK
<1>2. ASSUME NEW l \in Listeners, Loop(l) PROVE TlsPlaces'
  <2>1. PICK c \in Conns : c = cur[l]
    BY <1>2 DEF IInv, Places, Loop, NoPermit, TakePermit, RefuseBlocked,
       PassBlocked, RefuseFull, Spawn
  <2>2. cpc[c] = "accepted" /\ listener[c] = l
    BY <2>1 DEF IInv, Places
  <2>3. CASE cpc' = [cpc EXCEPT ![c] = "none"]
             /\ listener' = [listener EXCEPT ![c] = "http"]
    BY <1>1, <2>3
  <2>4. CASE UNCHANGED <<cpc, listener>>
    BY <2>4
  <2>5. CASE Spawn(l)
    <3>1. /\ cpc' = [cpc EXCEPT ![c] = IF l = "https" THEN "handshake" ELSE "serving"]
          /\ listener' = listener
      BY <2>1, <2>5 DEF Spawn
    <3> QED BY <1>1, <2>2, <3>1
  <2> QED
    BY <1>2, <2>1, <2>3, <2>4, <2>5 DEF Loop, NoPermit, TakePermit, RefuseBlocked,
       PassBlocked, RefuseFull, DropPermit, Drop
<1>3. ASSUME NEW l \in Listeners, NEW c \in Conns, NEW a \in IPs, Accept(l, c, a)
      PROVE  TlsPlaces'
  BY <1>1, <1>3 DEF Accept
<1>4. ASSUME NEW c \in Conns, Task(c) PROVE TlsPlaces'
  <2>1. CASE ReleasePermit(c)
    BY <1>1, <2>1 DEF ReleasePermit
  <2>2. CASE \E place \in Live \cup {"released"} :
               /\ cpc' = [cpc EXCEPT ![c] = place]
               /\ place \in {"handshake", "failing", "blocking"} =>
                    cpc[c] \in {"handshake", "failing"}
               /\ listener' = listener
    BY <1>1, <2>2
  <2>3. CASE RecordTlsFailure(c)
    <3>1. cpc[c] = "failing" /\ listener' = listener
      BY <2>3 DEF RecordTlsFailure
    <3>2. PICK place \in {"blocking", "closing"} : cpc' = [cpc EXCEPT ![c] = place]
      BY <2>3 DEF RecordTlsFailure
    <3> QED BY <2>2, <3>1, <3>2 DEF Live
  <2> QED
    BY <1>4, <2>1, <2>2, <2>3 DEF Task, HandshakeOk, HandshakeFails, Block,
       StopServing, ReleaseIp, Live
<1>5. CASE UNCHANGED vars
  BY <1>5 DEF vars
<1> QED BY <1>2, <1>3, <1>4, <1>5 DEF Next

-----------------------------------------------------------------------------
\* What Admission counts: the connections of a listener and of an address.
LEMMA OpenFromIsLive ==
  ASSUME IInv, NEW a \in IPs
  PROVE  Promise!OpenFrom(a) = LiveOf(a)
<1>1. \A c \in LiveOf(a) : listener[c] \in Listeners
  BY DEF LiveOf, IInv, TypeOK
<1>2. Promise!OpenFrom(a) = UNION {Open(l, a) : l \in Listeners}
  BY DEF Promise!OpenFrom, Promise!Listeners, Listeners, Open
<1> QED BY <1>1, <1>2 DEF Open

LEMMA OpenAtHoldsPermits ==
  ASSUME IInv, NEW l \in Listeners
  PROVE  Promise!OpenAt(l) \subseteq {c \in PermitHolders(l) : cpc[c] \in Live}
<1>1. Promise!OpenAt(l) = UNION {Open(l, a) : a \in IPs}
  BY DEF Promise!OpenAt, Promise!Listeners, Listeners, Open
<1>2. ASSUME NEW a \in IPs, NEW c \in Open(l, a)
      PROVE  c \in PermitHolders(l) /\ cpc[c] \in Live
  BY DEF Open, LiveOf, PermitHolders
<1> QED BY <1>1, <1>2

\* Admission counts as we do.
LEMMA SameCardinality == \A S : Promise!Cardinality(S) = Cardinality(S)
  BY DEF Promise!Cardinality, Cardinality, Promise!IsFiniteSet, IsFiniteSet

\* A step that leaves what is open alone is none of Admission's.
LEMMA Stutters ==
  ASSUME UNCHANGED <<blocked_ips, slipped>>,
         \A c \in Conns : cpc[c] \in Live \/ cpc'[c] \in Live =>
           /\ cpc[c] \in Live /\ cpc'[c] \in Live
           /\ peer'[c] = peer[c] /\ listener'[c] = listener[c]
  PROVE  UNCHANGED Promise!vars
<1>1. \A l, a : Open(l, a)' = Open(l, a)
  BY DEF Open, LiveOf
<1>2. [l \in Listeners |-> [a \in IPs |-> Open(l, a)]]'
        = [l \in Listeners |-> [a \in IPs |-> Open(l, a)]]
  BY <1>1
<1> QED BY <1>2 DEF Promise!vars, Open

\* The loop decides, at once as it seems: its permit, which it has had since
\* before, stands for the place among the listener's connections, and the
\* block list it has passed for the one connection that may slip.
LEMMA SpawnAdmits ==
  ASSUME IInv, NEW l \in Listeners, Spawn(l)
  PROVE  Promise!Next
<1>1. PICK c \in Conns : c = cur[l]
  BY DEF IInv, Places, Spawn
<1>2. PICK a \in IPs : a = peer[c]
  BY <1>1 DEF IInv, Places, Spawn
<1>3. PICK place \in {"handshake", "serving"} :
        place = IF l = "https" THEN "handshake" ELSE "serving"
  OBVIOUS
<1>4. /\ lpc[l] = "count" /\ ~(connections[a] >= MaxPerIp)
      /\ cpc[c] = "accepted" /\ listener[c] = l
      /\ cpc' = [cpc EXCEPT ![c] = place]
      /\ UNCHANGED <<listener, peer, blocked_ips>>
  BY <1>1, <1>2, <1>3 DEF Spawn, To, IpFull, IInv, Places
<1>5. slipped' = IF a \in blocked_ips /\ slipped[l][a] < 2
                 THEN [slipped EXCEPT ![l][a] = @ + 1] ELSE slipped
  BY <1>1, <1>2 DEF Spawn
<1>6. /\ cpc \in [Conns -> ConnPC] /\ slipped \in [Listeners -> [IPs -> 0 .. 2]]
      /\ permits \in [Listeners -> 0 .. MaxConnections]
      /\ MaxPerIp \in Nat /\ MaxConnections \in Nat
  BY ConnectionsAssumption DEF IInv, TypeOK
<1>7. \A k \in Listeners : c \notin Promise!OpenAt(k)
  BY <1>4, OpenAtHoldsPermits DEF Live
<1>8. Cardinality(Promise!OpenAt(l)) < MaxConnections
  <2>1. /\ PermitHolders(l) \in SUBSET Conns /\ PermitHolders(l) \ {c} \in SUBSET Conns
        /\ Promise!OpenAt(l) \subseteq PermitHolders(l) \ {c}
    BY <1>4, SetsOfConns, OpenAtHoldsPermits DEF Live
  <2>2. c \in PermitHolders(l)
    BY <1>1, <1>4 DEF PermitHolders
  <2>3. /\ IsFiniteSet(PermitHolders(l)) /\ IsFiniteSet(PermitHolders(l) \ {c})
        /\ Cardinality(PermitHolders(l)) \in Nat
        /\ Cardinality(PermitHolders(l) \ {c}) \in Nat
    BY <2>1, ConnsFinite
  <2>4. Cardinality(PermitHolders(l) \ {c}) = Cardinality(PermitHolders(l)) - 1
    BY <2>2, <2>3, FS_RemoveElement
  <2>5. /\ Cardinality(Promise!OpenAt(l)) <= Cardinality(PermitHolders(l) \ {c})
        /\ Cardinality(Promise!OpenAt(l)) \in Nat
    BY <2>1, <2>3, FS_Subset, FS_CardinalityType
  <2>6. Cardinality(PermitHolders(l)) <= MaxConnections
    <3>1. /\ permits[l] + Cardinality(PermitHolders(l)) = MaxConnections
          /\ permits[l] \in Nat
      BY <1>6 DEF IInv, PermitsConserved
    <3> QED BY <1>6, <2>3, <3>1
  <2> QED BY <1>6, <2>3, <2>4, <2>5, <2>6
<1>9. Cardinality(Promise!OpenFrom(a)) < MaxPerIp
  <2>1. connections[a] = Cardinality(LiveOf(a)) /\ Cardinality(LiveOf(a)) \in Nat
    BY ConnsFinite, SetsOfConns DEF IInv, PerIpCount
  <2> QED BY <1>4, <1>6, <2>1, OpenFromIsLive
<1>10. a \in blocked_ips => slipped[l][a] = 0
  <2>1. slipped[l][a] <= 1 /\ slipped[l][a] # 1 /\ slipped[l][a] \in 0 .. 2
    BY <1>1, <1>2, <1>4, <1>6 DEF IInv, SlippedIsOver
  <2> QED BY <2>1
<1> DEFINE opened == [k \in Listeners |-> [b \in IPs |-> Open(k, b)]]
           slips == [k \in Listeners |-> {b \in IPs : slipped[k][b] > 0}]
<1>11. opened' = [opened EXCEPT ![l][a] = @ \cup {c}]
  <2>1. ASSUME NEW k \in Listeners, NEW b \in IPs
        PROVE  Open(k, b)' = IF k = l /\ b = a THEN Open(k, b) \cup {c} ELSE Open(k, b)
    BY <1>2, <1>3, <1>4, <1>6 DEF Open, LiveOf, Live
  <2> QED BY <2>1
<1>12. CASE a \in blocked_ips
  <2>1. slipped'[l][a] = 1 /\ \A k \in Listeners, b \in IPs :
          k # l \/ b # a => slipped'[k][b] = slipped[k][b]
    BY <1>5, <1>6, <1>10, <1>12
  <2>2. slips' = [slips EXCEPT ![l] = @ \cup {a}] /\ a \notin slips[l]
    <3>1. ASSUME NEW k \in Listeners, NEW b \in IPs
          PROVE  slipped'[k][b] > 0 <=> slipped[k][b] > 0 \/ (k = l /\ b = a)
      BY <1>6, <2>1
    <3>2. slips' = [slips EXCEPT ![l] = @ \cup {a}]
      BY <3>1
    <3>3. ~(slipped[l][a] > 0)
      BY <1>10, <1>12
    <3> QED BY <3>2, <3>3
  <2>3. Promise!Admit(c, l, a)
    BY <1>4, <1>7, <1>8, <1>9, <1>11, <1>12, <2>2, SameCardinality
    DEF Promise!Admit, Promise!Listeners, Listeners, Open
  <2> QED BY <2>3 DEF Promise!Next, Promise!Listeners, Listeners
<1>13. CASE a \notin blocked_ips
  <2>1. slips' = slips
    BY <1>5, <1>13
  <2>2. Promise!Admit(c, l, a)
    BY <1>4, <1>7, <1>8, <1>9, <1>11, <1>13, <2>1, SameCardinality
    DEF Promise!Admit, Promise!Listeners, Listeners, Open
  <2> QED BY <2>2 DEF Promise!Next, Promise!Listeners, Listeners
<1> QED BY <1>12, <1>13

\* A task of the TLS listener bans its address while it is still open itself.
LEMMA BlockBans ==
  ASSUME IInv, TlsPlaces, NEW c \in Conns, Block(c)
  PROVE  Promise!Next
<1>1. PICK a \in IPs : a = peer[c]
  BY DEF IInv, Places, Block
<1>2. /\ cpc[c] = "blocking" /\ listener[c] = "https"
      /\ cpc' = [cpc EXCEPT ![c] = "closing"] /\ blocked_ips' = blocked_ips \cup {a}
      /\ UNCHANGED <<listener, peer, slipped>>
  BY <1>1 DEF Block, To, TlsPlaces
<1>3. cpc \in [Conns -> ConnPC]
  BY DEF IInv, TypeOK
<1>4. c \in Open("https", a)
  BY <1>1, <1>2 DEF Open, LiveOf, Live
<1>5. \A l, b : Open(l, b)' = Open(l, b)
  BY <1>2, <1>3 DEF Open, LiveOf, Live
<1>6. [l \in Listeners |-> [b \in IPs |-> Open(l, b)]]'
        = [l \in Listeners |-> [b \in IPs |-> Open(l, b)]]
  BY <1>5
<1>7. Promise!Ban(a)
  BY <1>2, <1>4, <1>6 DEF Promise!Ban, Promise!Listeners, Listeners, Open
<1> QED BY <1>7 DEF Promise!Next

\* The guard of a connection lets go of it.
LEMMA ReleaseLeaves ==
  ASSUME IInv, NEW c \in Conns, ReleaseIp(c)
  PROVE  Promise!Next
<1>1. PICK a \in IPs : a = peer[c]
  BY DEF IInv, Places, ReleaseIp
<1>2. PICK l \in Listeners : l = listener[c]
  BY DEF IInv, TypeOK
<1>3. /\ cpc[c] = "closing" /\ cpc' = [cpc EXCEPT ![c] = "released"]
      /\ UNCHANGED <<listener, peer, blocked_ips, slipped>>
  BY DEF ReleaseIp, To
<1>4. cpc \in [Conns -> ConnPC]
  BY DEF IInv, TypeOK
<1> DEFINE opened == [k \in Listeners |-> [b \in IPs |-> Open(k, b)]]
<1>5. c \in opened[l][a]
  BY <1>1, <1>2, <1>3 DEF Open, LiveOf, Live
<1>6. opened' = [opened EXCEPT ![l][a] = @ \ {c}]
  <2>1. ASSUME NEW k \in Listeners, NEW b \in IPs
        PROVE  Open(k, b)' = IF k = l /\ b = a THEN Open(k, b) \ {c} ELSE Open(k, b)
    BY <1>1, <1>2, <1>3, <1>4 DEF Open, LiveOf, Live
  <2> QED BY <2>1
<1>7. Promise!Leave(c, l, a)
  BY <1>3, <1>5, <1>6 DEF Promise!Leave, Promise!Listeners, Listeners, Open
<1> QED BY <1>7 DEF Promise!Next, Promise!Listeners, Listeners

\* Every step is one of Admission's or none.
LEMMA StepSimulation ==
  IInv /\ TlsPlaces /\ [Next]_vars => [Promise!Next]_(Promise!vars)
<1> SUFFICES ASSUME IInv, TlsPlaces, [Next]_vars
             PROVE  Promise!Next \/ UNCHANGED Promise!vars
  OBVIOUS
<1>1. /\ cpc \in [Conns -> ConnPC] /\ listener \in [Conns -> Listeners]
      /\ peer \in [Conns -> IPs \cup {NoIp}]
  BY DEF IInv, TypeOK
<1>2. ASSUME NEW l \in Listeners, Loop(l)
      PROVE  Promise!Next \/ UNCHANGED Promise!vars
  <2>1. CASE Spawn(l)
    BY <2>1, SpawnAdmits
  <2>2. CASE ~Spawn(l)
    <3>1. PICK c \in Conns : c = cur[l]
      BY <1>2 DEF IInv, Places, Loop, NoPermit, TakePermit, RefuseBlocked,
         PassBlocked, RefuseFull, Spawn
    <3>2. cpc[c] = "accepted"
      BY <3>1 DEF IInv, Places
    <3>3. UNCHANGED <<blocked_ips, slipped>>
      BY <1>2, <2>2 DEF Loop, NoPermit, TakePermit, RefuseBlocked, PassBlocked,
         RefuseFull, security
    <3>4. \/ UNCHANGED <<cpc, peer, listener>>
          \/ /\ cpc' = [cpc EXCEPT ![c] = "none"] /\ peer' = [peer EXCEPT ![c] = NoIp]
             /\ listener' = [listener EXCEPT ![c] = "http"]
      BY <1>2, <2>2, <3>1 DEF Loop, NoPermit, TakePermit, RefuseBlocked, PassBlocked,
         RefuseFull, DropPermit, Drop, To
    <3>5. \A d \in Conns : cpc[d] \in Live \/ cpc'[d] \in Live =>
            /\ cpc[d] \in Live /\ cpc'[d] \in Live
            /\ peer'[d] = peer[d] /\ listener'[d] = listener[d]
      BY <1>1, <3>2, <3>4 DEF Live
    <3>6. UNCHANGED Promise!vars
      BY <3>3, <3>5, Stutters
    <3> QED BY <3>6
  <2> QED BY <2>1, <2>2
<1>3. ASSUME NEW l \in Listeners, NEW c \in Conns, NEW a \in IPs, Accept(l, c, a)
      PROVE  UNCHANGED Promise!vars
  <2>1. /\ cpc[c] = "none" /\ cpc' = [cpc EXCEPT ![c] = "accepted"]
        /\ listener' = [listener EXCEPT ![c] = l] /\ peer' = [peer EXCEPT ![c] = a]
        /\ UNCHANGED <<blocked_ips, slipped>>
    BY <1>3 DEF Accept, To, security
  <2> QED BY <1>1, <2>1, Stutters DEF Live
<1>4. ASSUME NEW c \in Conns, Task(c)
      PROVE  Promise!Next \/ UNCHANGED Promise!vars
  <2>1. CASE Block(c)
    BY <2>1, BlockBans
  <2>2. CASE ReleaseIp(c)
    BY <2>2, ReleaseLeaves
  <2>3. CASE ReleasePermit(c)
    BY <1>1, <2>3, Stutters DEF ReleasePermit, To, Live, security
  <2>4. CASE HandshakeOk(c) \/ HandshakeFails(c) \/ StopServing(c)
    BY <1>1, <2>4, Stutters DEF HandshakeOk, HandshakeFails, StopServing, To, Live,
       security
  <2>5. CASE RecordTlsFailure(c)
    <3>1. PICK place \in {"blocking", "closing"} : cpc' = [cpc EXCEPT ![c] = place]
      BY <2>5 DEF RecordTlsFailure, To
    <3> QED BY <1>1, <2>5, <3>1, Stutters DEF RecordTlsFailure, Live
  <2> QED BY <1>4, <2>1, <2>2, <2>3, <2>4, <2>5 DEF Task
<1>5. CASE UNCHANGED vars
  BY <1>5, Stutters DEF vars, security
<1> QED BY <1>2, <1>3, <1>4, <1>5 DEF Next

LEMMA InitSimulation == Init => TlsPlaces /\ Promise!Init
<1> SUFFICES ASSUME Init PROVE TlsPlaces /\ Promise!Init
  OBVIOUS
<1>1. \A l, a : Open(l, a) = {}
  BY DEF Init, Open, LiveOf, Live
<1>2. Promise!Init
  BY <1>1 DEF Init, Promise!Init, Promise!Listeners, Listeners, Open
<1>3. TlsPlaces
  BY DEF Init, TlsPlaces
<1> QED BY <1>2, <1>3

-----------------------------------------------------------------------------
\* The loops and tasks, each check a step of its own, keep the promise of one
\* atomic decision per connection (check_and_acquire_connection with the
\* semaphores of both listeners), for any connections, addresses and limits.
THEOREM AdmissionImplemented == Spec => ImplementsAdmission
<1>1. Spec => []TlsPlaces
  BY InitSimulation, TlsPlacesStep, ConnectionsInvariant, PTL DEF Spec
<1>2. Init => Promise!Init
  BY InitSimulation
<1>3. IInv /\ TlsPlaces /\ [Next]_vars => [Promise!Next]_(Promise!vars)
  BY StepSimulation
<1> QED
  BY <1>1, <1>2, <1>3, ConnectionsInvariant, PTL
  DEF Spec, ImplementsAdmission, Promise!Spec
=============================================================================
