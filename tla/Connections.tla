---------------------------- MODULE Connections -----------------------------
(***************************************************************************)
(* The two accept loops (main.rs, serve_http and serve_https), the tasks   *)
(* they spawn, and the SecurityChecker's connection and TLS state they     *)
(* share (security.rs).                                                    *)
(*                                                                         *)
(* Each loop is sequential; the two loops and all connection tasks run     *)
(* concurrently.  A DashMap entry is locked while a reference to it lives: *)
(* so the count of an address is tested and incremented in one step, while *)
(* the test of blocked_ips before it is a step of its own; and             *)
(* record_tls_failure holds the entry of its address until it has blocked  *)
(* it.                                                                     *)
(***************************************************************************)
EXTENDS Integers, FiniteSets

CONSTANTS
  Conns,            \* connections that may exist at a time
  IPs,              \* peer addresses
  NoConn, NoIp,     \* no connection, no address
  MaxConnections,   \* max_connections
  MaxPerIp,         \* max_connections_per_ip
  MaxTlsFailures    \* max_tls_failures

ASSUME ConnectionsAssumption ==
  /\ IsFiniteSet(Conns)
  /\ NoConn \notin Conns /\ NoIp \notin IPs
  /\ MaxConnections \in Nat
  /\ MaxPerIp \in Nat
  /\ MaxTlsFailures \in Nat

VARIABLES
  block_tls_abusers, \* SecurityFlags::block_tls_abusers, fixed
  lpc,               \* lpc[l]: where the loop of listener l is
  cur,               \* cur[l]: the connection it has in hand, or NoConn
  permits,           \* permits[l]: what is left in its semaphore
  cpc,               \* cpc[c]: where a connection is
  listener,          \* listener[c], and
  peer,              \* peer[c]: where it came in and from whom ("http" and
                     \* NoIp while there is no such connection)
  connections,       \* SecurityChecker::connections
  tls_failures,      \* SecurityChecker::tls_failures, saturated
  blocked_ips,       \* SecurityChecker::blocked_ips
  slipped            \* history: connections of an address that listener l let
                     \* in after it had been blocked, saturated at 2

security == <<connections, tls_failures, blocked_ips>>
vars == <<block_tls_abusers, lpc, cur, permits, cpc, listener, peer, security,
          slipped>>

Listeners == {"http", "https"}

LoopPC == {"accept", "permit", "blocked", "count"}
\* A spawned task, from its first step to the drop of its IpConnectionGuard.
Live == {"handshake", "failing", "blocking", "serving", "closing"}
ConnPC == Live \cup {"none", "accepted", "released"}

To(f, x, place) == [f EXCEPT ![x] = place]

-----------------------------------------------------------------------------
(* The accept loops                                                        *)

\* accept() returns; an error is logged and tried again.
Accept(l, c, a) ==
  /\ lpc[l] = "accept" /\ cpc[c] = "none"
  /\ lpc' = To(lpc, l, "permit")
  /\ cur' = To(cur, l, c)
  /\ cpc' = To(cpc, c, "accepted")
  /\ listener' = To(listener, c, l)
  /\ peer' = To(peer, c, a)
  /\ UNCHANGED <<block_tls_abusers, permits, security, slipped>>

\* `continue`: the stream is dropped, and the permit if there is one.
Drop(l) ==
  /\ lpc' = To(lpc, l, "accept")
  /\ cur' = To(cur, l, NoConn)
  /\ cpc' = To(cpc, cur[l], "none")
  /\ peer' = To(peer, cur[l], NoIp)
  /\ listener' = To(listener, cur[l], "http")

\* Mutant: a permit is forgotten when the connection is turned away.
DropKeepsPermit(l) == Drop(l) /\ UNCHANGED permits

DropPermit(l) == Drop(l) /\ permits' = [permits EXCEPT ![l] = @ + 1]

\* Mutant: a permit is given back that was not had.
NoPermitReleases(l) ==
  /\ lpc[l] = "permit" /\ permits[l] = 0
  /\ DropPermit(l)
  /\ UNCHANGED <<block_tls_abusers, security, slipped>>

\* try_acquire_owned.
NoPermit(l) ==
  /\ lpc[l] = "permit" /\ permits[l] = 0
  /\ Drop(l)
  /\ UNCHANGED <<block_tls_abusers, permits, security, slipped>>

TakePermit(l) ==
  /\ lpc[l] = "permit" /\ permits[l] > 0
  /\ permits' = [permits EXCEPT ![l] = @ - 1]
  /\ lpc' = To(lpc, l, "blocked")
  /\ UNCHANGED <<block_tls_abusers, cur, cpc, listener, peer, security, slipped>>

\* Mutant: only the TLS listener asks whether the address is blocked.
IsBlockedTlsOnly(l) == l = "https" /\ peer[cur[l]] \in blocked_ips

IsBlocked(l) == peer[cur[l]] \in blocked_ips

\* check_and_acquire_connection: first the block list, then the count.
RefuseBlocked(l) ==
  /\ lpc[l] = "blocked" /\ IsBlocked(l)
  /\ DropPermit(l)
  /\ UNCHANGED <<block_tls_abusers, security, slipped>>

PassBlocked(l) ==
  /\ lpc[l] = "blocked" /\ ~IsBlocked(l)
  /\ lpc' = To(lpc, l, "count")
  /\ UNCHANGED <<block_tls_abusers, cur, permits, cpc, listener, peer, security,
                 slipped>>

\* Mutant: off by one.
IpFullLate(a) == connections[a] > MaxPerIp

IpFull(a) == connections[a] >= MaxPerIp

RefuseFull(l) ==
  /\ lpc[l] = "count" /\ IpFull(peer[cur[l]])
  /\ DropPermit(l)
  /\ UNCHANGED <<block_tls_abusers, security, slipped>>

\* The count goes up and the task is spawned with permit and guard.
Spawn(l) ==
  LET a == peer[cur[l]]
  IN  /\ lpc[l] = "count" /\ ~IpFull(a)
      /\ connections' = [connections EXCEPT ![a] = @ + 1]
      /\ cpc' = To(cpc, cur[l], IF l = "https" THEN "handshake" ELSE "serving")
      /\ lpc' = To(lpc, l, "accept")
      /\ cur' = To(cur, l, NoConn)
      /\ slipped' = IF a \in blocked_ips /\ slipped[l][a] < 2
                    THEN [slipped EXCEPT ![l][a] = @ + 1] ELSE slipped
      /\ UNCHANGED <<block_tls_abusers, permits, listener, peer, tls_failures,
                     blocked_ips>>

-----------------------------------------------------------------------------
(* A connection task                                                       *)

HandshakeOk(c) ==
  /\ cpc[c] = "handshake"
  /\ cpc' = To(cpc, c, "serving")
  /\ UNCHANGED <<block_tls_abusers, lpc, cur, permits, listener, peer, security,
                 slipped>>

\* An error, or ten seconds without an answer.
HandshakeFails(c) ==
  /\ cpc[c] = "handshake"
  /\ cpc' = To(cpc, c, "failing")
  /\ UNCHANGED <<block_tls_abusers, lpc, cur, permits, listener, peer, security,
                 slipped>>

\* Mutant: a failure too many is needed.
ReachesLate(n) == n > MaxTlsFailures

Reaches(n) == n >= MaxTlsFailures

\* record_tls_failure up to the test of the count.  It waits while another
\* task holds the entry of the address, and keeps it to block the address.
RecordTlsFailure(c) ==
  /\ cpc[c] = "failing"
  /\ \A d \in Conns : ~(cpc[d] = "blocking" /\ peer[d] = peer[c])
  /\ IF block_tls_abusers
     THEN LET n == tls_failures[peer[c]] + 1
          IN  /\ tls_failures' = IF n <= MaxTlsFailures
                                 THEN [tls_failures EXCEPT ![peer[c]] = n]
                                 ELSE tls_failures
              /\ cpc' = To(cpc, c, IF Reaches(n) THEN "blocking" ELSE "closing")
     ELSE /\ cpc' = To(cpc, c, "closing")
          /\ UNCHANGED tls_failures
  /\ UNCHANGED <<block_tls_abusers, lpc, cur, permits, listener, peer,
                 connections, blocked_ips, slipped>>

\* blocked_ips.insert.
Block(c) ==
  /\ cpc[c] = "blocking"
  /\ blocked_ips' = blocked_ips \cup {peer[c]}
  /\ cpc' = To(cpc, c, "closing")
  /\ UNCHANGED <<block_tls_abusers, lpc, cur, permits, listener, peer,
                 connections, tls_failures, slipped>>

\* The client leaves, the connection breaks, or its 60 seconds are over.
StopServing(c) ==
  /\ cpc[c] = "serving"
  /\ cpc' = To(cpc, c, "closing")
  /\ UNCHANGED <<block_tls_abusers, lpc, cur, permits, listener, peer, security,
                 slipped>>

\* Locals are dropped in reverse order: the IpConnectionGuard first ...
ReleaseIp(c) ==
  /\ cpc[c] = "closing"
  /\ connections' = IF connections[peer[c]] > 0
                    THEN [connections EXCEPT ![peer[c]] = @ - 1]
                    ELSE connections
  /\ cpc' = To(cpc, c, "released")
  /\ UNCHANGED <<block_tls_abusers, lpc, cur, permits, listener, peer,
                 tls_failures, blocked_ips, slipped>>

\* ... then the permit.
ReleasePermit(c) ==
  /\ cpc[c] = "released"
  /\ permits' = [permits EXCEPT ![listener[c]] = @ + 1]
  /\ cpc' = To(cpc, c, "none")
  /\ peer' = To(peer, c, NoIp)
  /\ listener' = To(listener, c, "http")
  /\ UNCHANGED <<block_tls_abusers, lpc, cur, security, slipped>>

-----------------------------------------------------------------------------
Init ==
  /\ block_tls_abusers \in BOOLEAN
  /\ lpc = [l \in Listeners |-> "accept"]
  /\ cur = [l \in Listeners |-> NoConn]
  /\ permits = [l \in Listeners |-> MaxConnections]
  /\ cpc = [c \in Conns |-> "none"]
  /\ listener = [c \in Conns |-> "http"]
  /\ peer = [c \in Conns |-> NoIp]
  /\ connections = [a \in IPs |-> 0]
  /\ tls_failures = [a \in IPs |-> 0]
  /\ blocked_ips = {}
  /\ slipped = [l \in Listeners |-> [a \in IPs |-> 0]]

Loop(l) ==
  \/ NoPermit(l) \/ TakePermit(l)
  \/ RefuseBlocked(l) \/ PassBlocked(l)
  \/ RefuseFull(l) \/ Spawn(l)

Task(c) ==
  \/ HandshakeOk(c) \/ HandshakeFails(c)
  \/ RecordTlsFailure(c) \/ Block(c)
  \/ StopServing(c)
  \/ ReleaseIp(c) \/ ReleasePermit(c)

Next ==
  \/ \E l \in Listeners : Loop(l) \/ \E c \in Conns, a \in IPs : Accept(l, c, a)
  \/ \E c \in Conns : Task(c)

\* A loop goes on with the connection in hand, a task goes on to its end: the
\* handshake and the serving of a connection are both under a timeout.  That a
\* client connects is never owed.
Fairness ==
  /\ \A l \in Listeners : WF_vars(Loop(l))
  /\ \A c \in Conns : WF_vars(Task(c))

Spec == Init /\ [][Next]_vars

FairSpec == Spec /\ Fairness

-----------------------------------------------------------------------------
(* Properties                                                              *)

\* Types of the loops, the tasks and the shared maps.
TypeOK ==
  /\ block_tls_abusers \in BOOLEAN
  /\ lpc \in [Listeners -> LoopPC]
  /\ cur \in [Listeners -> Conns \cup {NoConn}]
  /\ permits \in [Listeners -> 0 .. MaxConnections]
  /\ cpc \in [Conns -> ConnPC]
  /\ listener \in [Conns -> Listeners]
  /\ peer \in [Conns -> IPs \cup {NoIp}]
  /\ connections \in [IPs -> Nat]
  /\ tls_failures \in [IPs -> Nat]
  /\ blocked_ips \subseteq IPs
  /\ slipped \in [Listeners -> [IPs -> 0 .. 2]]

\* Connection tasks of an address, on both listeners.
LiveOf(a) == {c \in Conns : cpc[c] \in Live /\ peer[c] = a}

\* The count of an address is the number of its connection tasks, and never
\* passes max_connections_per_ip: the two listeners count into one map, every
\* way out of a task releases once, and the guard against a count below zero
\* in release_connection never has to act.
PerIpCount ==
  \A a \in IPs : /\ connections[a] = Cardinality(LiveOf(a))
                 /\ connections[a] <= MaxPerIp

\* Who holds a permit of listener l: its loop between try_acquire_owned and
\* the spawn, and every task until its last drop.
PermitHolders(l) ==
  {c \in Conns : /\ listener[c] = l
                 /\ \/ cpc[c] \in Live \cup {"released"}
                    \/ c = cur[l] /\ lpc[l] \in {"blocked", "count"}}

\* No permit is lost or made on any way out of the loop or of a task.
PermitsConserved ==
  \A l \in Listeners :
    permits[l] + Cardinality(PermitHolders(l)) = MaxConnections

\* What the comment in serve_http calls the global connection cap, and the doc
\* comment of max_connections a limit across all clients: no more connection
\* tasks than that at a time.  It does not hold: each listener has a semaphore.
GlobalCap == Cardinality({c \in Conns : cpc[c] \in Live}) <= MaxConnections

\* An address is blocked by max_tls_failures failed handshakes, not sooner and
\* at the latest when the last of them has been recorded (record_tls_failure).
BlockedByFailures ==
  \A a \in IPs :
    /\ a \in blocked_ips => block_tls_abusers /\ tls_failures[a] >= MaxTlsFailures
    /\ tls_failures[a] >= MaxTlsFailures /\ tls_failures[a] > 0 =>
         a \in blocked_ips \/ \E c \in Conns : cpc[c] = "blocking" /\ peer[c] = a

\* Once an address is blocked, each listener can let in at most one more of
\* its connections: the one that had passed the block list but was not yet
\* counted (check_and_acquire_connection).
AtMostOneSlips == \A l \in Listeners, a \in IPs : slipped[l][a] <= 1

\* A blocked address ends without connections for good, through the listener
\* that never sees a handshake too.
BlockedEndsOutside == \A a \in IPs : a \in blocked_ips ~> [](LiveOf(a) = {})

\* Seen as connections let in and addresses banned, the loops and tasks do what
\* Admission promises: each check and what follows from it, steps apart and
\* interleaved with the other listener and the tasks, amount to one atomic
\* decision (check_and_acquire_connection, the semaphores and the guards).  The
\* limit is that of a listener, for want of one across both (GlobalCap).
Promise ==
  INSTANCE Admission WITH
    ListenerLimit <- MaxConnections,
    open <- [l \in Listeners |->
               [a \in IPs |-> {c \in LiveOf(a) : listener[c] = l}]],
    banned <- blocked_ips,
    late <- [l \in Listeners |-> {a \in IPs : slipped[l][a] > 0}]

ImplementsAdmission == Promise!Spec
=============================================================================
