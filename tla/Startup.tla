------------------------------- MODULE Startup ------------------------------
(***************************************************************************)
(* main (main.rs) up to its last wait, the tasks it starts on the way, and *)
(* the certificates it loads (ssl.rs).                                     *)
(*                                                                         *)
(* main runs on while the tasks it has spawned run too: the HTTP listener  *)
(* binds its port while main builds the TLS acceptor and binds the other,  *)
(* and a health checker may tick before there is a listener.  When main    *)
(* returns, the process ends with all of them.                             *)
(***************************************************************************)
EXTENDS Config, FiniteSets

CONSTANTS
  Domains,
  Files,       \* what curf.yml may say, Absent for a file that cannot be used
  Overrides,   \* [http_port, https_port] of the command line, each may be Absent
  TakenPorts   \* ports that other programs may hold

ASSUME StartupAssumption ==
  \A a \in Overrides : DOMAIN a = {"http_port", "https_port"}

VARIABLES
  file, args, taken, \* fixed
  pc,        \* where main is
  settings,  \* Config, once it is loaded
  todo,      \* domains its loop has still to visit
  balancers, \* LoadBalancerManager::map: the domains in it
  keys,      \* SslManager::domains: the kind of key of each
  acceptor,  \* SslManager::acceptor: the domains it has, or Absent
  static,    \* ProxyHandler::static_servers: the domains in it
  http, https, \* the listeners
  checker,   \* checker[d]: the health checker of d
  ended      \* "no", or how the process has ended

fixed == <<file, args, taken>>
built == <<settings, balancers, keys, acceptor, static>>
vars == <<fixed, pc, todo, built, http, https, checker, ended>>

\* A key for a domain without one.
NoKey == "none"

\* Mutant: the tasks go on without main.
ExitKeepsTasks(why) ==
  pc' = "ended" /\ ended' = why /\ UNCHANGED <<http, https, checker>>

\* main returns an error or Ok, a signal ends the process, or a panic does
\* (panic = "abort" in Cargo.toml).
Exit(why) ==
  /\ pc' = "ended" /\ ended' = why
  /\ http' = "none" /\ https' = "none"
  /\ checker' = [d \in Domains |-> "none"]

-----------------------------------------------------------------------------
(* Ports and certificates                                                  *)

\* Command line over file.
Overridden(server, a) ==
  [server EXCEPT !.http_port = IF a.http_port = Absent THEN @ ELSE a.http_port,
                 !.https_port = IF a.https_port = Absent THEN @ ELSE a.https_port]

\* TcpListener::bind succeeds on a port that no other listener holds.
HttpPortFree ==
  /\ settings.server.http_port \notin taken
  /\ https = "listening" => settings.server.https_port # settings.server.http_port

HttpsPortFree ==
  /\ settings.server.https_port \notin taken
  /\ http = "listening" => settings.server.https_port # settings.server.http_port

\* load_key: the kinds of keys in a key file are tried in this order.  A file
\* that cannot be opened has none.
LoadKey(found) ==
  IF "pkcs8" \in found THEN "pkcs8"
  ELSE IF "rsa" \in found THEN "rsa"
  ELSE IF "ec" \in found THEN "ec"
  ELSE NoKey

\* load_cert_and_key: certs is what the certificate file has.
Loads(tls) == tls.certs = "chain" /\ LoadKey(tls.keys) # NoKey

\* What build needs of a domain: a key that ring supports, and a certificate
\* for its name.
Usable(tls, key) == key \in tls.supported /\ tls.named

Tls(d) == settings.domains[d].tls
TlsDomains == {d \in Domains : Tls(d) # Absent}

\* start_health_checks: domains with checks enabled that have backends.
Checked ==
  {d \in Domains : /\ settings.domains[d].health_check.enabled
                   /\ settings.domains[d].backends # <<>>}

-----------------------------------------------------------------------------
(* main                                                                    *)

Load ==
  /\ pc = "load"
  /\ IF file = Absent
     THEN Exit("failed") /\ UNCHANGED <<settings, todo>>
     ELSE /\ settings' =
               [server |-> Overridden(ServerSettings(file.server), args),
                domains |-> [d \in Domains |-> DomainSettings(file.domains[d])]]
          /\ pc' = "domains" /\ todo' = Domains
          /\ UNCHANGED <<http, https, checker, ended>>
  /\ UNCHANGED <<fixed, balancers, keys, acceptor, static>>

\* One turn of the loop over the domains, in the order of the HashMap.
AddDomain(d) ==
  /\ pc = "domains" /\ d \in todo
  /\ balancers' = balancers \cup {d}
  /\ IF Tls(d) # Absent /\ ~Loads(Tls(d))
     THEN Exit("failed") /\ UNCHANGED <<keys, todo>>
     ELSE /\ keys' = IF Tls(d) = Absent THEN keys
                     ELSE [keys EXCEPT ![d] = LoadKey(Tls(d).keys)]
          /\ todo' = todo \ {d}
          /\ UNCHANGED <<pc, http, https, checker, ended>>
  /\ UNCHANGED <<fixed, settings, acceptor, static>>

\* Mutant: the handler and the checks come before the last domain.
BuildHandlerEarly ==
  /\ pc = "domains" /\ Cardinality(todo) <= 1
  /\ static' = {d \in Domains : settings.domains[d].static_files # Absent}
  /\ pc' = "checks" /\ todo' = Checked
  /\ UNCHANGED <<fixed, settings, balancers, keys, acceptor, http, https, checker,
                 ended>>

\* ProxyHandler::new.
BuildHandler ==
  /\ pc = "domains" /\ todo = {}
  /\ static' = {d \in Domains : settings.domains[d].static_files # Absent}
  /\ pc' = "checks" /\ todo' = Checked
  /\ UNCHANGED <<fixed, settings, balancers, keys, acceptor, http, https, checker,
                 ended>>

\* start_health_checks spawns a task.
StartCheck(d) ==
  /\ pc = "checks" /\ d \in todo
  /\ checker' = [checker EXCEPT ![d] = "started"]
  /\ todo' = todo \ {d}
  /\ UNCHANGED <<fixed, pc, built, http, https, ended>>

HasDomains == \E d \in Domains : keys[d] # NoKey

SpawnHttp ==
  /\ pc = "checks" /\ todo = {}
  /\ http' = "spawned"
  /\ pc' = IF HasDomains THEN "build" ELSE "wait"
  /\ UNCHANGED <<fixed, todo, built, https, checker, ended>>

\* Mutant: a domain that cannot be registered is skipped.
BuildSkips ==
  /\ pc = "build"
  /\ acceptor' = {d \in Domains : keys[d] # NoKey /\ Usable(Tls(d), keys[d])}
  /\ pc' = "bind"
  /\ UNCHANGED <<fixed, todo, settings, balancers, keys, static, http, https,
                 checker, ended>>

\* SslManager::build; the HTTP listener is up, or coming up, meanwhile.
Build ==
  /\ pc = "build"
  /\ LET names == {d \in Domains : keys[d] # NoKey}
     IN  IF \A d \in names : Usable(Tls(d), keys[d])
         THEN /\ acceptor' = names /\ pc' = "bind"
              /\ UNCHANGED <<http, https, checker, ended>>
         ELSE Exit("failed") /\ UNCHANGED acceptor
  /\ UNCHANGED <<fixed, todo, settings, balancers, keys, static>>

BindHttps ==
  /\ pc = "bind"
  /\ IF HttpsPortFree
     THEN https' = "listening" /\ pc' = "serving" /\ UNCHANGED <<http, checker, ended>>
     ELSE Exit("failed")
  /\ UNCHANGED <<fixed, todo, built>>

\* ctrl_c() in a process without TLS, the default action elsewhere.
Interrupt ==
  /\ ended = "no"
  /\ Exit("signal")
  /\ UNCHANGED <<fixed, todo, built>>

-----------------------------------------------------------------------------
(* The spawned tasks                                                       *)

\* Mutant: a listener that cannot bind ends the process.
BindHttpOrExit ==
  /\ http = "spawned"
  /\ IF HttpPortFree
     THEN http' = "listening" /\ UNCHANGED <<pc, https, checker, ended>>
     ELSE Exit("failed")
  /\ UNCHANGED <<fixed, todo, built>>

\* A listener that cannot bind ends its task, not the process.
BindHttp ==
  /\ http = "spawned"
  /\ http' = IF HttpPortFree THEN "listening" ELSE "failed"
  /\ UNCHANGED <<fixed, pc, todo, built, https, checker, ended>>

ZeroInterval(d) == settings.domains[d].health_check.interval_secs = 0

\* tokio::time::interval panics on 0, which ends the process; the first tick is
\* at once, and a domain that the manager does not have ends the task.
FirstTick(d) ==
  /\ checker[d] = "started"
  /\ IF ZeroInterval(d)
     THEN Exit("aborted")
     ELSE /\ checker' = [checker EXCEPT ![d] =
                           IF d \in balancers THEN "running" ELSE "gone"]
          /\ UNCHANGED <<pc, http, https, ended>>
  /\ UNCHANGED <<fixed, todo, built>>

-----------------------------------------------------------------------------
Init ==
  /\ file \in Files /\ args \in Overrides /\ taken \in SUBSET TakenPorts
  /\ pc = "load" /\ todo = {}
  /\ settings = Absent
  /\ balancers = {} /\ acceptor = Absent /\ static = {}
  /\ keys = [d \in Domains |-> NoKey]
  /\ http = "none" /\ https = "none"
  /\ checker = [d \in Domains |-> "none"]
  /\ ended = "no"

Main ==
  \/ Load
  \/ \E d \in Domains : AddDomain(d) \/ StartCheck(d)
  \/ BuildHandler \/ SpawnHttp
  \/ Build \/ BindHttps

Next ==
  \/ Main
  \/ BindHttp
  \/ \E d \in Domains : FirstTick(d)
  \/ Interrupt

\* main and its tasks are scheduled.
Fairness ==
  /\ WF_vars(Main) /\ WF_vars(BindHttp)
  /\ \A d \in Domains : WF_vars(FirstTick(d))

Spec == Init /\ [][Next]_vars

FairSpec == Spec /\ Fairness

-----------------------------------------------------------------------------
(* Properties                                                              *)

\* Types of main, of what it builds and of its tasks, none of which outlives it.
TypeOK ==
  /\ pc \in {"load", "domains", "checks", "build", "bind", "wait", "serving",
             "ended"}
  /\ todo \subseteq Domains /\ balancers \subseteq Domains /\ static \subseteq Domains
  /\ keys \in [Domains -> {"pkcs8", "rsa", "ec", NoKey}]
  /\ acceptor = Absent \/ acceptor \subseteq Domains
  /\ http \in {"none", "spawned", "listening", "failed"}
  /\ https \in {"none", "listening"}
  /\ checker \in [Domains -> {"none", "started", "running", "gone"}]
  /\ ended \in {"no", "failed", "aborted", "signal"}
  /\ pc = "ended" => http = "none" /\ https = "none"

\* Nothing is served by half: whoever connects to a listener meets the balancer
\* of every domain and its static files, and on HTTPS the certificate of every
\* domain with TLS; a domain whose files cannot be loaded keeps even the HTTP
\* listener from starting (the order in main).
ServesOnlyWhole ==
  /\ "listening" \in {http, https} =>
       /\ balancers = Domains
       /\ static = {d \in Domains : settings.domains[d].static_files # Absent}
       /\ \A d \in TlsDomains : Loads(Tls(d))
  /\ https = "listening" =>
       /\ acceptor = TlsDomains
       /\ \A d \in TlsDomains : Usable(Tls(d), LoadKey(Tls(d).keys))

\* No health checker finds its domain missing, however early it ticks: the
\* `break` in start_health_checks is never taken.
CheckersKnowDomains == \A d \in Domains : checker[d] # "gone"

\* Why main may end by itself.
Reason ==
  \/ file = Absent
  \/ \E d \in TlsDomains : ~Loads(Tls(d)) \/ ~Usable(Tls(d), LoadKey(Tls(d).keys))
  \/ /\ TlsDomains # {}
     /\ \/ settings.server.https_port \in taken
        \/ settings.server.https_port = settings.server.http_port

\* Everything that was asked for runs.  The HTTP port may have been taken, by
\* another program or by the HTTPS listener: then the process lives on without.
Up ==
  /\ \/ http = "listening"
     \/ /\ http = "failed"
        /\ \/ settings.server.http_port \in taken
           \/ https = "listening" /\ ~HttpPortFree
  /\ TlsDomains # {} => https = "listening"
  /\ \A d \in Domains : checker[d] = IF d \in Checked THEN "running" ELSE "none"

\* curf comes up, and stays up, with every listener and health checker that it
\* can have, unless it is interrupted or there is a reason to give up: a failed
\* HTTP listener or a slow task is none, a check interval of 0 is one even
\* after the listeners have begun to serve.
ComesUp ==
  <>[](\/ ended = "signal"
       \/ ended = "failed" /\ Reason
       \/ ended = "aborted" /\ \E d \in Checked : ZeroInterval(d)
       \/ settings # Absent /\ Up)
=============================================================================
