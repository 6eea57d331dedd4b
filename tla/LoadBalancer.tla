---------------------------- MODULE LoadBalancer ----------------------------
(***************************************************************************)
(* LoadBalancer::select of one domain (load_balancer.rs) run by concurrent *)
(* request tasks, with the life of the ConnectionGuard it returns          *)
(* (proxy.rs, proxy_http and proxy_websocket) and the reports of the       *)
(* health checker (health_check.rs).                                       *)
(*                                                                         *)
(* select takes no lock: between its accesses to the cursor, to a circuit  *)
(* and to an active count any other task may run.  It has no await, so it  *)
(* is never cancelled half-way.  The circuit breaker's methods are atomic  *)
(* here (their own races are in CircuitBreaker), and time is abstracted: a *)
(* circuit is closed, open, or "expired", open for CB_RESET_SECS.          *)
(***************************************************************************)
EXTENDS Integers, FiniteSets

CONSTANTS
  Tasks,          \* request tasks
  IPs,            \* client addresses
  Hash,           \* Hash[ip]: the 32 bits ip_hash takes of an address
  N,              \* number of backends, indexed from 0
  UrlLists,       \* the lists of URLs the domain may be configured with
  CB_THRESHOLD,   \* failures before a circuit opens
  USize           \* modulus of the cursor, 2^64 in the code

Index == 0 .. N - 1

Strategies == {"RoundRobin", "LeastConnections", "IpHash"}

NoBackend == N

ASSUME BalancerAssumption ==
  /\ IsFiniteSet(Tasks)
  /\ Hash \in [IPs -> Nat]
  /\ N \in Nat
  /\ \A u \in UrlLists : DOMAIN u = Index
  /\ CB_THRESHOLD \in Nat \ {0}
  /\ USize \in Nat \ {0}

VARIABLES
  \* LoadBalancer
  strategy,       \* LoadBalancer::strategy, fixed by the configuration
  url,            \* url[b], fixed by the configuration
  cursor,         \* LoadBalancer::cursor
  active,         \* active[b]: Backend::active
  failures,       \* failures[b], saturated at CB_THRESHOLD
  circuit,        \* circuit[b]: "closed", "open" or "expired"
  \* the locals of each request task
  pc,
  ip,             \* the peer of the connection it serves, fixed
  tried,          \* loop variable of round_robin and ip_hash, scan of
                  \* least_connections
  slot,           \* the backend under examination
  best,           \* the backend chosen (so far)
  bestLoad,       \* the active count it had when it was examined
  \* history
  up,             \* up[t]: backends available ever since t's select began
  settled,        \* settled[t]: no backend became available or unavailable
                  \* since t's select began
  raced,          \* raced[t]: since t's select began another task moved what
                  \* it depends on, or the cursor wrapped
  calm,           \* every backend was available and the cursor has not wrapped
                  \* since the start
  picks           \* picks[b]: round-robin picks while calm

shared == <<cursor, active, failures, circuit>>
config == <<strategy, url, ip>>
locals == <<tried, slot, best, bestLoad>>
history == <<up, settled, raced, calm, picks>>
vars == <<config, shared, pc, locals, history>>

-----------------------------------------------------------------------------
Selecting == {"looking", "judging", "counting", "picked"}
Holding == {"serving", "answered"}
PCs == Selecting \cup Holding \cup {"idle", "refused"}

Goto(t, place) == pc' = [pc EXCEPT ![t] = place]

\* is_healthy says yes: closed, or open long enough.
Available(b) == circuit[b] # "open"

\* The first backend with this URL: the one success() and failure() find.
Find(u) == CHOOSE b \in Index : url[b] = u /\ \A c \in Index : url[c] = u => b <= c

\* History: a step sets circuit[b] to c; what matters is whether b becomes
\* available or unavailable by it.
Witness(b, c) ==
  /\ IF Available(b) = (c # "open")
     THEN UNCHANGED <<up, settled, calm, picks>>
     ELSE /\ up' = IF c = "open" THEN [t \in Tasks |-> up[t] \ {b}] ELSE up
          /\ settled' = [t \in Tasks |-> pc[t] = "idle"]
          /\ calm' = FALSE
          /\ picks' = [x \in Index |-> 0]
  /\ UNCHANGED raced

\* History: the selects of the other tasks that a moved cursor, or a moved
\* active count, throws off.
CursorMatters(t) == pc[t] \in Selecting
CountsMatter(t) == strategy = "LeastConnections" /\ pc[t] \in Selecting

\* Backend::record_success.
record_success(b) ==
  /\ failures' = [failures EXCEPT ![b] = 0]
  /\ circuit' = [circuit EXCEPT ![b] = "closed"]
  /\ Witness(b, "closed")

\* Backend::record_failure; it stamps last_failure in any case, so a circuit
\* that is still open is no longer expired.
record_failure(b) ==
  LET f == IF failures[b] < CB_THRESHOLD THEN failures[b] + 1 ELSE failures[b]
      c == IF f >= CB_THRESHOLD \/ circuit[b] # "closed" THEN "open" ELSE "closed"
  IN  /\ failures' = [failures EXCEPT ![b] = f]
      /\ circuit' = [circuit EXCEPT ![b] = c]
      /\ Witness(b, c)

-----------------------------------------------------------------------------
(* select                                                                  *)

\* A request for this domain arrives; a domain without backends has None.
Begin(t) ==
  /\ pc[t] = "idle"
  /\ Goto(t, IF N = 0 THEN "refused" ELSE "looking")
  /\ up' = [up EXCEPT ![t] = {b \in Index : Available(b)}]
  /\ UNCHANGED <<config, shared, locals, settled, raced, calm, picks>>

\* The fetch_add of round_robin, which leaves the cursor at next.
MoveCursor(t, next) ==
  /\ cursor' = next % USize
  /\ Goto(t, "judging")
  /\ IF next < USize
     THEN /\ raced' = [u \in Tasks |-> raced[u] \/ (u # t /\ CursorMatters(u))]
          /\ UNCHANGED <<calm, picks>>
     ELSE /\ raced' = [u \in Tasks |-> raced[u] \/ CursorMatters(u)]
          /\ calm' = FALSE
          /\ picks' = [b \in Index |-> 0]
  /\ UNCHANGED <<config, active, failures, circuit, tried, best, bestLoad,
                 up, settled>>

\* Mutant: the cursor is not reduced to an index.
RoundRobinUnreduced(t) ==
  /\ strategy = "RoundRobin" /\ pc[t] = "looking"
  /\ slot' = [slot EXCEPT ![t] = cursor]
  /\ MoveCursor(t, cursor + 1)

\* Mutant: the cursor is loaded, not advanced.
RoundRobinStays(t) ==
  /\ strategy = "RoundRobin" /\ pc[t] = "looking"
  /\ slot' = [slot EXCEPT ![t] = cursor % N]
  /\ MoveCursor(t, cursor)

\* round_robin: one fetch_add per iteration, on the cursor every task shares.
RoundRobin(t) ==
  /\ strategy = "RoundRobin" /\ pc[t] = "looking"
  /\ slot' = [slot EXCEPT ![t] = cursor % N]
  /\ MoveCursor(t, cursor + 1)

\* least_connections: the scan goes over the backends in order.
LeastConnections(t) ==
  /\ strategy = "LeastConnections" /\ pc[t] = "looking"
  /\ slot' = [slot EXCEPT ![t] = tried[t]]
  /\ Goto(t, "judging")
  /\ UNCHANGED <<config, shared, tried, best, bestLoad, history>>

\* Mutant: the walk starts one further when the home backend is busy.
IpHashAvoidsBusy(t) ==
  /\ strategy = "IpHash" /\ pc[t] = "looking"
  /\ LET home == Hash[ip[t]] % N
         shift == IF active[home] > 0 THEN 1 ELSE 0
     IN  slot' = [slot EXCEPT ![t] = (home + shift + tried[t]) % N]
  /\ Goto(t, "judging")
  /\ UNCHANGED <<config, shared, tried, best, bestLoad, history>>

\* ip_hash: the walk starts at the hash of the address.
IpHash(t) ==
  /\ strategy = "IpHash" /\ pc[t] = "looking"
  /\ slot' = [slot EXCEPT ![t] = (Hash[ip[t]] + tried[t]) % N]
  /\ Goto(t, "judging")
  /\ UNCHANGED <<config, shared, tried, best, bestLoad, history>>

\* Mutant: the loop leaves the last backend out.
AdvanceTooFew(t) ==
  IF tried[t] + 2 < N
  THEN /\ tried' = [tried EXCEPT ![t] = @ + 1]
       /\ Goto(t, "looking")
  ELSE /\ tried' = [tried EXCEPT ![t] = 0]
       /\ Goto(t, IF best'[t] = NoBackend THEN "refused" ELSE "picked")

\* On to the next backend; after the last one select has its answer.
Advance(t) ==
  IF tried[t] + 1 < N
  THEN /\ tried' = [tried EXCEPT ![t] = @ + 1]
       /\ Goto(t, "looking")
  ELSE /\ tried' = [tried EXCEPT ![t] = 0]
       /\ Goto(t, IF best'[t] = NoBackend THEN "refused" ELSE "picked")

\* is_healthy refuses the backend under examination.
JudgeDown(t) ==
  /\ pc[t] = "judging"
  /\ ~Available(slot[t])
  /\ UNCHANGED best
  /\ Advance(t)
  /\ UNCHANGED <<config, shared, slot, bestLoad, history>>

\* is_healthy accepts it, closing a circuit that was open long enough.
\* round_robin and ip_hash return it at once, least_connections goes on to
\* read its active count.
JudgeUp(t) ==
  /\ pc[t] = "judging"
  /\ Available(slot[t])
  /\ circuit' = [circuit EXCEPT ![slot[t]] = "closed"]
  /\ failures' = IF circuit[slot[t]] = "expired"
                 THEN [failures EXCEPT ![slot[t]] = 0] ELSE failures
  /\ IF strategy = "LeastConnections"
     THEN Goto(t, "counting") /\ UNCHANGED <<tried, best>>
     ELSE /\ Goto(t, "picked")
          /\ tried' = [tried EXCEPT ![t] = 0]
          /\ best' = [best EXCEPT ![t] = slot[t]]
  /\ UNCHANGED <<config, cursor, active, slot, bestLoad, history>>

\* Mutant: whichever healthy backend comes last is kept.
CountActiveKeepsLast(t) ==
  /\ pc[t] = "counting"
  /\ best' = [best EXCEPT ![t] = slot[t]]
  /\ bestLoad' = [bestLoad EXCEPT ![t] = active[slot[t]]]
  /\ Advance(t)
  /\ UNCHANGED <<config, shared, slot, history>>

\* min_by_key: the first of the smallest counts is kept.
CountActive(t) ==
  /\ pc[t] = "counting"
  /\ IF best[t] = NoBackend \/ active[slot[t]] < bestLoad[t]
     THEN /\ best' = [best EXCEPT ![t] = slot[t]]
          /\ bestLoad' = [bestLoad EXCEPT ![t] = active[slot[t]]]
     ELSE UNCHANGED <<best, bestLoad>>
  /\ Advance(t)
  /\ UNCHANGED <<config, shared, slot, history>>

\* select returns None and the request ends with a 502.
Refuse(t) ==
  /\ pc[t] = "refused"
  /\ Goto(t, "idle")
  /\ slot' = [slot EXCEPT ![t] = 0]
  /\ up' = [up EXCEPT ![t] = {}]
  /\ settled' = [settled EXCEPT ![t] = TRUE]
  /\ raced' = [raced EXCEPT ![t] = FALSE]
  /\ UNCHANGED <<config, shared, tried, best, bestLoad, calm, picks>>

\* acquire(), and the guard that will release.
Acquire(t) ==
  /\ pc[t] = "picked"
  /\ active' = [active EXCEPT ![best[t]] = @ + 1]
  /\ Goto(t, "serving")
  /\ slot' = [slot EXCEPT ![t] = 0]
  /\ bestLoad' = [bestLoad EXCEPT ![t] = 0]
  /\ up' = [up EXCEPT ![t] = {}]
  /\ raced' = [u \in Tasks |-> u # t /\ (raced[u] \/ CountsMatter(u))]
  /\ picks' = IF calm /\ strategy = "RoundRobin"
              THEN [picks EXCEPT ![best[t]] = @ + 1] ELSE picks
  /\ UNCHANGED <<config, cursor, failures, circuit, tried, best, settled, calm>>

-----------------------------------------------------------------------------
(* The request, while it holds the guard                                   *)

\* proxy_http has a response: success(url), then the guard goes.
Succeed(t) ==
  /\ pc[t] = "serving"
  /\ record_success(Find(url[best[t]]))
  /\ Goto(t, "answered")
  /\ UNCHANGED <<config, cursor, active, locals>>

\* Mutant: the guard of a request that failed is forgotten.
ReleaseOnlyAnswered(t) ==
  /\ pc[t] \in Holding
  /\ active' = IF pc[t] = "answered"
               THEN [active EXCEPT ![best[t]] = @ - 1] ELSE active
  /\ Goto(t, "idle")
  /\ best' = [best EXCEPT ![t] = NoBackend]
  /\ settled' = [settled EXCEPT ![t] = TRUE]
  /\ raced' = [u \in Tasks |-> raced[u] \/ CountsMatter(u)]
  /\ UNCHANGED <<config, cursor, failures, circuit, tried, slot, bestLoad,
                 up, calm, picks>>

\* The guard is dropped: after a success, on every error return, when the
\* connection's task is cancelled, and at the end of proxy_websocket, which
\* reports no success.
Release(t) ==
  /\ pc[t] \in Holding
  /\ active' = [active EXCEPT ![best[t]] = @ - 1]
  /\ Goto(t, "idle")
  /\ best' = [best EXCEPT ![t] = NoBackend]
  /\ settled' = [settled EXCEPT ![t] = TRUE]
  /\ raced' = [u \in Tasks |-> raced[u] \/ CountsMatter(u)]
  /\ UNCHANGED <<config, cursor, failures, circuit, tried, slot, bestLoad,
                 up, calm, picks>>

-----------------------------------------------------------------------------
(* The health checker and time                                             *)

\* The check of the b-th configured URL passed, or failed.
CheckPassed(b) ==
  /\ record_success(Find(url[b]))
  /\ UNCHANGED <<config, cursor, active, pc, locals>>

CheckFailed(b) ==
  /\ record_failure(Find(url[b]))
  /\ UNCHANGED <<config, cursor, active, pc, locals>>

\* CB_RESET_SECS have passed since the last failure of an open circuit.
Expire(b) ==
  /\ circuit[b] = "open"
  /\ circuit' = [circuit EXCEPT ![b] = "expired"]
  /\ Witness(b, "expired")
  /\ UNCHANGED <<config, cursor, active, failures, pc, locals>>

-----------------------------------------------------------------------------
\* LoadBalancer::new.
Init ==
  /\ strategy \in Strategies
  /\ url \in UrlLists
  /\ cursor = 0
  /\ active = [b \in Index |-> 0]
  /\ failures = [b \in Index |-> 0]
  /\ circuit = [b \in Index |-> "closed"]
  /\ pc = [t \in Tasks |-> "idle"]
  /\ ip \in [Tasks -> IPs]
  /\ tried = [t \in Tasks |-> 0]
  /\ slot = [t \in Tasks |-> 0]
  /\ best = [t \in Tasks |-> NoBackend]
  /\ bestLoad = [t \in Tasks |-> 0]
  /\ up = [t \in Tasks |-> {}]
  /\ settled = [t \in Tasks |-> TRUE]
  /\ raced = [t \in Tasks |-> FALSE]
  /\ calm = TRUE
  /\ picks = [b \in Index |-> 0]

Select(t) ==
  \/ Begin(t)
  \/ RoundRobin(t) \/ LeastConnections(t) \/ IpHash(t)
  \/ JudgeDown(t) \/ JudgeUp(t) \/ CountActive(t)
  \/ Refuse(t) \/ Acquire(t)

Next ==
  \/ \E t \in Tasks : Select(t) \/ Succeed(t) \/ Release(t)
  \/ \E b \in Index : CheckPassed(b) \/ CheckFailed(b) \/ Expire(b)

Spec == Init /\ [][Next]_vars

-----------------------------------------------------------------------------
(* Properties                                                              *)

\* Types; an index never leaves the list of backends.
TypeOK ==
  /\ strategy \in Strategies
  /\ url \in UrlLists
  /\ cursor \in 0 .. USize - 1
  /\ active \in [Index -> Nat]
  /\ failures \in [Index -> 0 .. CB_THRESHOLD]
  /\ circuit \in [Index -> {"closed", "open", "expired"}]
  /\ pc \in [Tasks -> PCs]
  /\ ip \in [Tasks -> IPs]
  /\ tried \in [Tasks -> Index \cup {0}]
  /\ slot \in [Tasks -> Index \cup {0}]
  /\ \A t \in Tasks : pc[t] \in {"judging", "counting"} => slot[t] \in Index
  /\ best \in [Tasks -> Index \cup {NoBackend}]
  /\ \A t \in Tasks : pc[t] \in {"picked"} \cup Holding => best[t] \in Index
  /\ bestLoad \in [Tasks -> Nat]
  /\ up \in [Tasks -> SUBSET Index]
  /\ settled \in [Tasks -> BOOLEAN]
  /\ raced \in [Tasks -> BOOLEAN]
  /\ calm \in BOOLEAN
  /\ picks \in [Index -> Nat]

\* The active count of a backend is the number of guards that are alive for
\* it (acquire in select, release in ConnectionGuard::drop): no path through
\* proxy_http or proxy_websocket leaks one or releases it twice, and the
\* unsigned count never goes below zero.
Holders(b) == {t \in Tasks : pc[t] \in Holding /\ best[t] = b}
ActiveIsInFlight == \A b \in Index : active[b] = Cardinality(Holders(b))

\* select finds a backend that was available throughout, unless round_robin's
\* cursor was moved under it (by another select, or by wrapping).
FindsAvailable ==
  \A t \in Tasks :
    pc[t] = "refused" => up[t] = {} \/ (strategy = "RoundRobin" /\ raced[t])

\* ip_hash: two requests of one address are on the same backend if no backend
\* came or went since either was dispatched, however loaded the backends are
\* and however the two were interleaved.
Affinity ==
  \A t, u \in Tasks :
    /\ strategy = "IpHash" /\ ip[t] = ip[u]
    /\ pc[t] \in {"picked"} \cup Holding /\ settled[t]
    /\ pc[u] \in {"picked"} \cup Holding /\ settled[u]
    => best[t] = best[u]

\* round_robin: as long as no backend has gone, the requests that were
\* dispatched are spread evenly, concurrent ones too.
EvenSplit ==
  calm /\ (\A t \in Tasks : pc[t] \notin Selecting) =>
    \A b, c \in Index : picks[b] <= picks[c] + 1

\* least_connections: unless a count moved during the scan, no backend that
\* was available throughout has fewer active requests than the one picked.
LeastLoaded ==
  \A t \in Tasks :
    strategy = "LeastConnections" /\ pc[t] = "picked" /\ ~raced[t] =>
      \A b \in up[t] : active[best[t]] <= active[b]

\* What select's comment says: None is returned when all backends have open
\* circuits (so not while one was available throughout).
NoneMeansAllOpen == \A t \in Tasks : pc[t] = "refused" => up[t] = {}
=============================================================================
