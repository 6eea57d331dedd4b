--------------------------- MODULE StartupProofs ----------------------------
(* Proofs about Startup: what main has built by the time anything listens, *)
(* for any domains, configurations, command lines and taken ports.         *)
EXTENDS Startup, TLAPS

\* The domains main's loop has been through.
Visited == IF pc = "domains" THEN Domains \ todo ELSE Domains

\* Nothing is there before the loop; after it, all domains are.
Progress ==
  /\ pc = "load" => balancers = {} /\ keys = [d \in Domains |-> NoKey]
  /\ pc \notin {"load", "ended"} => balancers = Visited

\* A key is there for each visited domain with TLS, and for no other.
KeysLoaded ==
  pc \notin {"load", "ended"} =>
    \A d \in Domains :
      IF d \in Visited /\ Tls(d) # Absent
      THEN Loads(Tls(d)) /\ keys[d] = LoadKey(Tls(d).keys)
      ELSE keys[d] = NoKey

StaticBuilt ==
  pc \in {"checks", "build", "bind", "wait", "serving"} =>
    static = {d \in Domains : settings.domains[d].static_files # Absent}

\* What main has started when.
Started ==
  /\ http # "none" => pc \in {"build", "bind", "wait", "serving"}
  /\ https = "listening" => pc = "serving"
  /\ pc \in {"load", "domains", "ended"} => checker = [d \in Domains |-> "none"]

AcceptorBuilt ==
  pc \in {"bind", "serving"} =>
    /\ acceptor = TlsDomains
    /\ \A d \in TlsDomains : Usable(Tls(d), LoadKey(Tls(d).keys))

IInv ==
  /\ TypeOK /\ Progress /\ KeysLoaded /\ StaticBuilt /\ Started /\ AcceptorBuilt
  /\ CheckersKnowDomains

-----------------------------------------------------------------------------
\* A key file yields one of four kinds (load_key).
LEMMA LoadKeyType ==
  ASSUME NEW found
  PROVE  LoadKey(found) \in {"pkcs8", "rsa", "ec", NoKey}
  BY DEF LoadKey

\* The end of the process keeps the invariant: it takes everything that runs
\* with it, and what is left promises nothing.
LEMMA ExitIInv ==
  ASSUME IInv, NEW why \in {"failed", "aborted", "signal"}, Exit(why),
         todo' \subseteq Domains, balancers' \subseteq Domains,
         keys' = keys, acceptor' = acceptor, static' = static
  PROVE  IInv'
<1>1. TypeOK'
  BY DEF IInv, TypeOK, Exit
<1>2. Progress' /\ KeysLoaded' /\ StaticBuilt' /\ Started' /\ AcceptorBuilt'
  BY DEF Progress, KeysLoaded, StaticBuilt, Started, AcceptorBuilt, Exit
<1>3. CheckersKnowDomains'
  BY DEF CheckersKnowDomains, Exit
<1> QED BY <1>1, <1>2, <1>3 DEF IInv

\* The invariant holds before main begins.
LEMMA InitIInv == Init => IInv
<1> SUFFICES ASSUME Init PROVE IInv
  OBVIOUS
<1>1. TypeOK
  BY DEF Init, TypeOK
<1>2. Progress /\ KeysLoaded /\ StaticBuilt /\ Started /\ AcceptorBuilt
  BY DEF Init, Progress, KeysLoaded, StaticBuilt, Started, AcceptorBuilt
<1>3. CheckersKnowDomains
  BY DEF Init, CheckersKnowDomains
<1> QED BY <1>1, <1>2, <1>3 DEF IInv

\* Main's sequence keeps the invariant.
LEMMA LoadIInv == IInv /\ Load => IInv'
<1> SUFFICES ASSUME IInv, Load PROVE IInv'
  OBVIOUS
<1>1. CASE file = Absent
  BY <1>1, ExitIInv DEF Load, IInv, TypeOK
<1>2. CASE file # Absent
  <2>1. TypeOK'
    BY <1>2 DEF Load, IInv, TypeOK, fixed
  <2>2. Visited' = {}
    BY <1>2 DEF Load, Visited
  <2>3. Progress' /\ Started'
    BY <1>2, <2>2 DEF Load, IInv, Progress, Started
  <2>4. KeysLoaded'
    BY <1>2, <2>2 DEF Load, IInv, Progress, KeysLoaded
  <2>5. StaticBuilt' /\ AcceptorBuilt'
    BY <1>2 DEF Load, StaticBuilt, AcceptorBuilt
  <2>6. CheckersKnowDomains'
    BY <1>2 DEF Load, IInv, CheckersKnowDomains
  <2> QED BY <2>1, <2>3, <2>4, <2>5, <2>6 DEF IInv
<1> QED BY <1>1, <1>2

LEMMA AddDomainIInv == \A d \in Domains : IInv /\ AddDomain(d) => IInv'
<1> SUFFICES ASSUME NEW d \in Domains, IInv, AddDomain(d) PROVE IInv'
  OBVIOUS
<1>1. CASE Tls(d) # Absent /\ ~Loads(Tls(d))
  BY <1>1, ExitIInv DEF AddDomain, IInv, TypeOK
<1>2. CASE ~(Tls(d) # Absent /\ ~Loads(Tls(d)))
  <2>1. TypeOK'
    <3>1. keys' \in [Domains -> {"pkcs8", "rsa", "ec", NoKey}]
      BY <1>2, LoadKeyType DEF AddDomain, IInv, TypeOK
    <3> QED BY <1>2, <3>1 DEF AddDomain, IInv, TypeOK, fixed
  <2>2. pc = "domains" /\ pc' = "domains" /\ settings' = settings
    BY <1>2 DEF AddDomain
  <2>3. Visited' = Visited \cup {d} /\ d \notin Visited
    BY <1>2, <2>2 DEF AddDomain, IInv, TypeOK, Visited
  <2>4. Progress' /\ Started'
    BY <1>2, <2>2, <2>3 DEF AddDomain, IInv, Progress, Started
  <2>5. KeysLoaded'
    <3>1. \A e \in Domains : Tls(e)' = Tls(e)
      BY <2>2 DEF Tls
    <3> SUFFICES ASSUME NEW e \in Domains
                 PROVE  IF e \in Visited' /\ Tls(e) # Absent
                        THEN Loads(Tls(e)) /\ keys'[e] = LoadKey(Tls(e).keys)
                        ELSE keys'[e] = NoKey
      BY <3>1 DEF KeysLoaded
    <3>2. IF e \in Visited /\ Tls(e) # Absent
          THEN Loads(Tls(e)) /\ keys[e] = LoadKey(Tls(e).keys)
          ELSE keys[e] = NoKey
      BY <2>2 DEF IInv, KeysLoaded
    <3>3. keys \in [Domains -> {"pkcs8", "rsa", "ec", NoKey}]
      BY DEF IInv, TypeOK
    <3>4. keys' = IF Tls(d) = Absent THEN keys
                  ELSE [keys EXCEPT ![d] = LoadKey(Tls(d).keys)]
      BY <1>2 DEF AddDomain
    <3> QED BY <1>2, <2>3, <3>2, <3>3, <3>4
  <2>6. StaticBuilt' /\ AcceptorBuilt'
    BY <2>2 DEF StaticBuilt, AcceptorBuilt
  <2>7. CheckersKnowDomains'
    BY <1>2 DEF AddDomain, IInv, CheckersKnowDomains
  <2> QED BY <2>1, <2>4, <2>5, <2>6, <2>7 DEF IInv
<1> QED BY <1>1, <1>2

LEMMA BuildHandlerIInv == IInv /\ BuildHandler => IInv'
<1> SUFFICES ASSUME IInv, BuildHandler PROVE IInv'
  OBVIOUS
<1>1. TypeOK'
  BY DEF BuildHandler, IInv, TypeOK, Checked, fixed
<1>2. Visited' = Visited
  BY DEF BuildHandler, Visited
<1>3. Progress' /\ Started'
  BY <1>2 DEF BuildHandler, IInv, Progress, Started
<1>4. KeysLoaded'
  BY <1>2 DEF BuildHandler, IInv, KeysLoaded, Tls
<1>5. StaticBuilt' /\ AcceptorBuilt'
  BY DEF BuildHandler, StaticBuilt, AcceptorBuilt
<1>6. CheckersKnowDomains'
  BY DEF BuildHandler, IInv, CheckersKnowDomains
<1> QED BY <1>1, <1>3, <1>4, <1>5, <1>6 DEF IInv

LEMMA StartCheckIInv == \A d \in Domains : IInv /\ StartCheck(d) => IInv'
<1> SUFFICES ASSUME NEW d \in Domains, IInv, StartCheck(d) PROVE IInv'
  OBVIOUS
<1>1. TypeOK'
  BY DEF StartCheck, IInv, TypeOK, fixed, built
<1>2. Visited' = Visited
  BY DEF StartCheck, Visited
<1>3. Progress' /\ Started'
  BY <1>2 DEF StartCheck, IInv, Progress, Started, built
<1>4. KeysLoaded'
  BY <1>2 DEF StartCheck, IInv, KeysLoaded, Tls, built
<1>5. StaticBuilt' /\ AcceptorBuilt'
  BY DEF StartCheck, IInv, StaticBuilt, AcceptorBuilt, built
<1>6. CheckersKnowDomains'
  BY DEF StartCheck, IInv, TypeOK, CheckersKnowDomains
<1> QED BY <1>1, <1>3, <1>4, <1>5, <1>6 DEF IInv

LEMMA SpawnHttpIInv == IInv /\ SpawnHttp => IInv'
<1> SUFFICES ASSUME IInv, SpawnHttp PROVE IInv'
  OBVIOUS
<1>1. TypeOK'
  BY DEF SpawnHttp, IInv, TypeOK, fixed, built
<1>2. Visited' = Visited
  BY DEF SpawnHttp, Visited
<1>3. Progress' /\ Started'
  BY <1>2 DEF SpawnHttp, IInv, Progress, Started, built
<1>4. KeysLoaded'
  BY <1>2 DEF SpawnHttp, IInv, KeysLoaded, Tls, built
<1>5. StaticBuilt' /\ AcceptorBuilt'
  BY DEF SpawnHttp, IInv, StaticBuilt, AcceptorBuilt, built
<1>6. CheckersKnowDomains'
  BY DEF SpawnHttp, IInv, CheckersKnowDomains
<1> QED BY <1>1, <1>3, <1>4, <1>5, <1>6 DEF IInv

\* The names build takes from SslManager are the domains with TLS.
LEMMA KeysAreTls ==
  ASSUME IInv, pc \notin {"load", "domains", "ended"}
  PROVE  {d \in Domains : keys[d] # NoKey} = TlsDomains
<1> SUFFICES ASSUME NEW d \in Domains PROVE keys[d] # NoKey <=> Tls(d) # Absent
  BY DEF TlsDomains
<1>1. IF Tls(d) # Absent
      THEN Loads(Tls(d)) /\ keys[d] = LoadKey(Tls(d).keys)
      ELSE keys[d] = NoKey
  BY DEF IInv, KeysLoaded, Visited
<1> QED BY <1>1 DEF Loads

LEMMA BuildIInv == IInv /\ Build => IInv'
<1> SUFFICES ASSUME IInv, Build PROVE IInv'
  OBVIOUS
<1> DEFINE names == {d \in Domains : keys[d] # NoKey}
<1>1. pc = "build" /\ names = TlsDomains
  BY KeysAreTls DEF Build
<1>2. CASE ~(\A d \in names : Usable(Tls(d), keys[d]))
  BY <1>2, ExitIInv DEF Build, IInv, TypeOK
<1>3. CASE \A d \in names : Usable(Tls(d), keys[d])
  <2>1. /\ acceptor' = names /\ pc' = "bind"
        /\ UNCHANGED <<http, https, checker, ended, todo, settings, balancers,
                       keys, static>>
    BY <1>3 DEF Build
  <2>2. TypeOK'
    BY <2>1 DEF IInv, TypeOK
  <2>3. Visited' = Visited
    BY <1>1, <2>1 DEF Visited
  <2>4. Progress' /\ Started'
    BY <1>1, <2>1, <2>3 DEF IInv, Progress, Started
  <2>5. KeysLoaded'
    BY <1>1, <2>1, <2>3 DEF IInv, KeysLoaded, Tls
  <2>6. StaticBuilt'
    BY <1>1, <2>1 DEF IInv, StaticBuilt
  <2>7. AcceptorBuilt'
    <3>1. \A d \in TlsDomains : keys[d] = LoadKey(Tls(d).keys)
      BY <1>1 DEF IInv, KeysLoaded, TlsDomains, Visited
    <3>2. \A d \in TlsDomains : Usable(Tls(d), LoadKey(Tls(d).keys))
      BY <1>1, <1>3, <3>1
    <3>3. TlsDomains' = TlsDomains /\ \A d \in Domains : Tls(d)' = Tls(d)
      BY <2>1 DEF TlsDomains, Tls
    <3>4. TlsDomains \subseteq Domains
      BY DEF TlsDomains
    <3> QED BY <1>1, <2>1, <3>2, <3>3, <3>4 DEF AcceptorBuilt
  <2>8. CheckersKnowDomains'
    BY <2>1 DEF IInv, CheckersKnowDomains
  <2> QED BY <2>2, <2>4, <2>5, <2>6, <2>7, <2>8 DEF IInv
<1> QED BY <1>2, <1>3

LEMMA BindHttpsIInv == IInv /\ BindHttps => IInv'
<1> SUFFICES ASSUME IInv, BindHttps PROVE IInv'
  OBVIOUS
<1>1. CASE ~HttpsPortFree
  BY <1>1, ExitIInv DEF BindHttps, IInv, TypeOK, built
<1>2. CASE HttpsPortFree
  <2>1. TypeOK'
    BY <1>2 DEF BindHttps, IInv, TypeOK, fixed, built
  <2>2. Visited' = Visited
    BY <1>2 DEF BindHttps, Visited
  <2>3. Progress' /\ Started'
    BY <1>2, <2>2 DEF BindHttps, IInv, Progress, Started, built
  <2>4. KeysLoaded'
    BY <1>2, <2>2 DEF BindHttps, IInv, KeysLoaded, Tls, built
  <2>5. StaticBuilt' /\ AcceptorBuilt'
    BY <1>2 DEF BindHttps, IInv, StaticBuilt, AcceptorBuilt, TlsDomains, Tls, built
  <2>6. CheckersKnowDomains'
    BY <1>2 DEF BindHttps, IInv, CheckersKnowDomains
  <2> QED BY <2>1, <2>3, <2>4, <2>5, <2>6 DEF IInv
<1> QED BY <1>1, <1>2

\* So do the tasks it has spawned: a health checker is only there once all
\* domains are.
LEMMA BindHttpIInv == IInv /\ BindHttp => IInv'
<1> SUFFICES ASSUME IInv, BindHttp PROVE IInv'
  OBVIOUS
<1>1. TypeOK'
  BY DEF BindHttp, IInv, TypeOK, Started, fixed, built
<1>2. Visited' = Visited
  BY DEF BindHttp, Visited
<1>3. Progress' /\ Started'
  BY <1>2 DEF BindHttp, IInv, Progress, Started, built
<1>4. KeysLoaded'
  BY <1>2 DEF BindHttp, IInv, KeysLoaded, Tls, built
<1>5. StaticBuilt' /\ AcceptorBuilt'
  BY DEF BindHttp, IInv, StaticBuilt, AcceptorBuilt, TlsDomains, Tls, built
<1>6. CheckersKnowDomains'
  BY DEF BindHttp, IInv, CheckersKnowDomains
<1> QED BY <1>1, <1>3, <1>4, <1>5, <1>6 DEF IInv

LEMMA FirstTickIInv == \A d \in Domains : IInv /\ FirstTick(d) => IInv'
<1> SUFFICES ASSUME NEW d \in Domains, IInv, FirstTick(d) PROVE IInv'
  OBVIOUS
<1>1. CASE ZeroInterval(d)
  BY <1>1, ExitIInv DEF FirstTick, IInv, TypeOK, built
<1>2. CASE ~ZeroInterval(d)
  <2>0. /\ checker' = [checker EXCEPT ![d] = IF d \in balancers THEN "running" ELSE "gone"]
        /\ UNCHANGED <<fixed, pc, todo, built, http, https, ended>>
        /\ checker[d] = "started"
    BY <1>2 DEF FirstTick
  <2>1. pc \notin {"load", "domains", "ended"}
    BY <2>0 DEF IInv, Started
  <2>2. d \in balancers
    BY <2>1 DEF IInv, Progress, Visited
  <2>3. TypeOK'
    <3>1. checker' \in [Domains -> {"none", "started", "running", "gone"}]
      BY <2>0 DEF IInv, TypeOK
    <3> QED BY <2>0, <3>1 DEF IInv, TypeOK, fixed, built
  <2>4. Visited' = Visited
    BY <2>0 DEF Visited
  <2>5. Progress' /\ Started'
    BY <2>0, <2>1, <2>4 DEF IInv, Progress, Started, built
  <2>6. KeysLoaded'
    BY <2>0, <2>4 DEF IInv, KeysLoaded, Tls, built
  <2>7. StaticBuilt' /\ AcceptorBuilt'
    BY <2>0 DEF IInv, StaticBuilt, AcceptorBuilt, TlsDomains, Tls, built
  <2>8. CheckersKnowDomains'
    <3>1. checker \in [Domains -> {"none", "started", "running", "gone"}]
      BY DEF IInv, TypeOK
    <3> QED BY <2>0, <2>2, <3>1 DEF IInv, CheckersKnowDomains
  <2> QED BY <2>3, <2>5, <2>6, <2>7, <2>8 DEF IInv
<1> QED BY <1>1, <1>2

LEMMA InterruptIInv == IInv /\ Interrupt => IInv'
  BY ExitIInv DEF Interrupt, IInv, TypeOK, built

LEMMA NextIInv == IInv /\ [Next]_vars => IInv'
<1> SUFFICES ASSUME IInv, [Next]_vars PROVE IInv'
  OBVIOUS
<1>1. CASE Main
  BY <1>1, LoadIInv, AddDomainIInv, BuildHandlerIInv, StartCheckIInv,
     SpawnHttpIInv, BuildIInv, BindHttpsIInv DEF Main
<1>2. CASE BindHttp
  BY <1>2, BindHttpIInv
<1>3. CASE \E d \in Domains : FirstTick(d)
  BY <1>3, FirstTickIInv
<1>4. CASE Interrupt
  BY <1>4, InterruptIInv
<1>5. CASE UNCHANGED vars
  <2>1. Visited' = Visited
    BY <1>5 DEF vars, Visited
  <2> QED
    BY <1>5, <2>1 DEF vars, fixed, built, IInv, TypeOK, Progress, KeysLoaded,
       StaticBuilt, Started, AcceptorBuilt, CheckersKnowDomains, TlsDomains, Tls
<1> QED BY <1>1, <1>2, <1>3, <1>4, <1>5 DEF Next

-----------------------------------------------------------------------------
\* The order of main: what is built before what is started.
THEOREM StartupInvariant == Spec => []IInv
  BY InitIInv, NextIInv, PTL DEF Spec

\* Types of main, of what it builds and of its tasks; none outlives it.
THEOREM TypeCorrect == Spec => []TypeOK
<1>1. IInv => TypeOK
  BY DEF IInv
<1> QED BY <1>1, StartupInvariant, PTL

\* A listener is only ever met with every domain's balancer, static files and
\* certificate in place.
THEOREM WholeBeforeServing == Spec => []ServesOnlyWhole
<1>1. IInv => ServesOnlyWhole
  <2> SUFFICES ASSUME IInv PROVE ServesOnlyWhole
    OBVIOUS
  <2>1. ASSUME "listening" \in {http, https}
        PROVE  pc \in {"build", "bind", "wait", "serving"}
    BY <2>1 DEF IInv, Started
  <2>2. ASSUME "listening" \in {http, https}
        PROVE  /\ balancers = Domains
               /\ static = {d \in Domains : settings.domains[d].static_files # Absent}
    BY <2>1, <2>2 DEF IInv, Progress, Visited, StaticBuilt
  <2>3. ASSUME "listening" \in {http, https}
        PROVE  \A d \in TlsDomains : Loads(Tls(d))
    BY <2>1, <2>3 DEF IInv, KeysLoaded, Visited, TlsDomains
  <2>4. ASSUME https = "listening"
        PROVE  /\ acceptor = TlsDomains
               /\ \A d \in TlsDomains : Usable(Tls(d), LoadKey(Tls(d).keys))
    BY <2>4 DEF IInv, Started, AcceptorBuilt
  <2> QED BY <2>2, <2>3, <2>4 DEF ServesOnlyWhole
<1> QED BY <1>1, StartupInvariant, PTL

\* However early a health checker ticks, its domain is in the manager.
THEOREM CheckersFindDomains == Spec => []CheckersKnowDomains
<1>1. IInv => CheckersKnowDomains
  BY DEF IInv
<1> QED BY <1>1, StartupInvariant, PTL

=============================================================================
