------------------------------- MODULE Proxy --------------------------------
(***************************************************************************)
(* ProxyHandler (proxy.rs): the requests of one client connection, with    *)
(* the time they take, the backend guard they hold and the tunnel a        *)
(* WebSocket request leaves behind.                                        *)
(*                                                                         *)
(* What the other components answer is free here: the rate limiter and the *)
(* WAF may refuse any request, a static file may exist or not, select may  *)
(* find a backend or not, and a backend may connect, answer, fail or       *)
(* stall.  Time is counted in ticks.  A timer that is due fires before the *)
(* next tick, but what it bounds may still win the race within the tick.   *)
(***************************************************************************)
EXTENDS Integers

CONSTANTS
  Requests,        \* requests of the connection
  Timeouts,        \* what timeout_secs may be
  CONNECTION_SECS  \* what main.rs grants a connection, 60 seconds

ASSUME ProxyAssumption ==
  /\ Timeouts \subseteq Nat
  /\ CONNECTION_SECS \in Nat

VARIABLES
  \* fixed: the connection and the configuration of the one known domain
  proto,           \* "h1" or "h2"
  is_tls,
  redirect_to_https,
  timeout,         \* ProxyHandler::timeout
  \* the connection
  conn,            \* "open" or "closed"
  age,             \* how long it has been open
  \* the requests
  kind,            \* "get" (or HEAD), "other" or "websocket"
  known,           \* its Host header names the domain
  pc,
  wait,            \* how long its current timer has run
  guard,           \* it holds the ConnectionGuard of a backend
  answer,          \* what the client was sent; "cut" when the connection came
                   \* to its limit first, "left" when the client had gone
  begun,           \* history: the age of the connection when proxy_http or
                   \* proxy_websocket got a backend, or -1
  tunnel           \* the task for a tunnel that a request has spawned

config == <<proto, is_tls, redirect_to_https, timeout>>
request == <<kind, known, pc, wait, guard, answer, begun>>
vars == <<config, conn, age, request, tunnel>>

Waiting == {"connecting", "sending"}
Handling == Waiting \cup {"arrived", "static", "selecting"}
Busy == Handling \cup {"streaming"}

\* r goes to a place without an answer.
Goto(r, place) ==
  /\ pc' = [pc EXCEPT ![r] = place]
  /\ UNCHANGED <<config, conn, age, kind, known, answer>>

\* handle returns: its locals, the guard among them, are dropped.  There may be
\* nobody left to answer.
Answer(r, a, place) ==
  /\ pc' = [pc EXCEPT ![r] = place]
  /\ answer' = IF conn = "open" THEN [answer EXCEPT ![r] = a] ELSE answer
  /\ guard' = [guard EXCEPT ![r] = FALSE]
  /\ wait' = [wait EXCEPT ![r] = 0]
  /\ UNCHANGED <<config, conn, age, kind, known, begun>>

-----------------------------------------------------------------------------
(* handle                                                                  *)

\* The next request of a kept-alive HTTP/1 connection, or any time on an
\* HTTP/2 connection, which knows no Upgrade header.
Arrive(r, k, named) ==
  /\ conn = "open" /\ pc[r] = "none"
  /\ IF proto = "h1"
     THEN \A q \in Requests : pc[q] \notin Busy /\ tunnel[q] = "none"
     ELSE k # "websocket"
  /\ pc' = [pc EXCEPT ![r] = "arrived"]
  /\ kind' = [kind EXCEPT ![r] = k]
  /\ known' = [known EXCEPT ![r] = named]
  /\ UNCHANGED <<config, conn, age, wait, guard, answer, begun, tunnel>>

\* A 429 of the rate limiter, then a 403 of the WAF.
Refuse(r) ==
  /\ pc[r] = "arrived"
  /\ Answer(r, "refused", "done")
  /\ UNCHANGED tunnel

\* Mutant: a WebSocket upgrade is looked at before the redirect.
MustRedirectUnlessWebSocket(r) ==
  ~is_tls /\ known[r] /\ redirect_to_https /\ kind[r] # "websocket"

MustRedirect(r) == ~is_tls /\ known[r] /\ redirect_to_https

Redirect(r) ==
  /\ pc[r] = "arrived" /\ MustRedirect(r)
  /\ Answer(r, "301", "done")
  /\ UNCHANGED tunnel

\* serve looks at GET and HEAD only.  (A domain without static files is one
\* whose requests find no file.)
TryStatic(r) == kind[r] = "get" /\ known[r]

Dispatch(r) ==
  /\ pc[r] = "arrived" /\ ~MustRedirect(r)
  /\ Goto(r, IF TryStatic(r) THEN "static" ELSE "selecting")
  /\ UNCHANGED <<wait, guard, begun, tunnel>>

\* A file, a listing, or a 304; the file system takes its time.
ServeFile(r) ==
  /\ pc[r] = "static"
  /\ Answer(r, "file", "streaming")
  /\ UNCHANGED tunnel

NoFile(r) ==
  /\ pc[r] = "static"
  /\ Goto(r, "selecting")
  /\ UNCHANGED <<wait, guard, begun, tunnel>>

-----------------------------------------------------------------------------
(* proxy_http and proxy_websocket                                          *)

\* No load balancer for this host, or none of its backends is available.
NoBackend(r) ==
  /\ pc[r] = "selecting"
  /\ Answer(r, "502", "done")
  /\ UNCHANGED tunnel

\* select returns a URL and its guard; the first timer starts.
Select(r) ==
  /\ pc[r] = "selecting" /\ known[r]
  /\ Goto(r, "connecting")
  /\ guard' = [guard EXCEPT ![r] = TRUE]
  /\ begun' = [begun EXCEPT ![r] = age]
  /\ UNCHANGED <<wait, tunnel>>

\* The second timer starts from nothing.
Connected(r) ==
  /\ pc[r] = "connecting"
  /\ Goto(r, "sending")
  /\ wait' = [wait EXCEPT ![r] = 0]
  /\ UNCHANGED <<guard, begun, tunnel>>

\* Mutant: the wait for the response is not under a timeout.
OverdueConnectOnly(r) == pc[r] = "connecting" /\ wait[r] >= timeout

\* Mutant: the timers run one tick too long.
OverdueLate(r) == pc[r] \in Waiting /\ wait[r] > timeout

\* Either timer, connect or send_request, is due.
Overdue(r) == pc[r] \in Waiting /\ wait[r] >= timeout

\* An unusable URL, no connection, a broken response, or a timer that is due.
BackendFails(r) ==
  /\ pc[r] \in Waiting
  /\ Answer(r, "502", "done")
  /\ UNCHANGED tunnel

\* The head of the response; the body is passed on as it comes.
BackendAnswers(r) ==
  /\ pc[r] = "sending" /\ kind[r] # "websocket"
  /\ Answer(r, "backend", "streaming")
  /\ UNCHANGED tunnel

\* A backend that refuses the upgrade is BackendFails; for one that switches
\* there is a task for the tunnel, and the client gets its 101.
BackendSwitches(r) ==
  /\ pc[r] = "sending" /\ kind[r] = "websocket"
  /\ Answer(r, "101", "done")
  /\ tunnel' = [tunnel EXCEPT ![r] = "upgrading"]

BodyEnds(r) ==
  /\ pc[r] = "streaming"
  /\ Goto(r, "done")
  /\ UNCHANGED <<wait, guard, begun, tunnel>>

-----------------------------------------------------------------------------
(* The tunnel task                                                         *)

\* The connection is served without upgrades (serve_connection alone), so when
\* it is over, with the 101 or without, the client's upgrade fails: the task
\* returns before there is anything to copy, and drops the backend's side.
TunnelFails(r) ==
  /\ tunnel[r] = "upgrading" /\ conn = "closed"
  /\ tunnel' = [tunnel EXCEPT ![r] = "ended"]
  /\ UNCHANGED <<config, conn, age, request>>

-----------------------------------------------------------------------------
(* The connection                                                          *)

\* The requests lost with the connection; a body under way is cut short.
Lost(r) == pc[r] \in Busy

\* The connection's future is dropped: on HTTP/1 the request in hand with it;
\* the streams of HTTP/2 are tasks of their own that end later (Orphan).
Close(why) ==
  /\ conn = "open"
  /\ conn' = "closed"
  /\ IF proto = "h1"
     THEN /\ pc' = [r \in Requests |-> IF Lost(r) THEN "lost" ELSE pc[r]]
          /\ guard' = [r \in Requests |-> guard[r] /\ ~Lost(r)]
          /\ wait' = [r \in Requests |-> IF Lost(r) THEN 0 ELSE wait[r]]
     ELSE UNCHANGED <<pc, guard, wait>>
  /\ answer' = [r \in Requests |->
                  IF pc[r] \in Handling THEN why ELSE answer[r]]
  /\ UNCHANGED <<config, age, kind, known, begun, tunnel>>

\* The 60 seconds are over.
Cut == age = CONNECTION_SECS /\ Close("cut")

\* The client goes, or a 101 has been sent and the connection handed over.
Leave == Close("left")

\* Mutant: the stream task goes without dropping its request.
OrphanKeepsGuard(r) ==
  /\ conn = "closed" /\ proto = "h2" /\ pc[r] \in Busy
  /\ pc' = [pc EXCEPT ![r] = "lost"]
  /\ wait' = [wait EXCEPT ![r] = 0]
  /\ UNCHANGED <<config, conn, age, kind, known, guard, answer, begun, tunnel>>

\* A stream task finds its connection gone and drops its request.
Orphan(r) ==
  /\ conn = "closed" /\ proto = "h2" /\ pc[r] \in Busy
  /\ pc' = [pc EXCEPT ![r] = "lost"]
  /\ guard' = [guard EXCEPT ![r] = FALSE]
  /\ wait' = [wait EXCEPT ![r] = 0]
  /\ UNCHANGED <<config, conn, age, kind, known, answer, begun, tunnel>>

Tick ==
  /\ conn = "open" /\ age < CONNECTION_SECS
  /\ \A r \in Requests : ~Overdue(r)
  /\ age' = age + 1
  /\ wait' = [r \in Requests |-> IF pc[r] \in Waiting THEN wait[r] + 1 ELSE 0]
  /\ UNCHANGED <<config, conn, kind, known, pc, guard, answer, begun, tunnel>>
-----------------------------------------------------------------------------
Init ==
  /\ proto \in {"h1", "h2"}
  /\ is_tls \in BOOLEAN
  /\ redirect_to_https \in BOOLEAN
  /\ timeout \in Timeouts
  /\ conn = "open"
  /\ age = 0
  /\ kind = [r \in Requests |-> "get"]
  /\ known = [r \in Requests |-> FALSE]
  /\ pc = [r \in Requests |-> "none"]
  /\ wait = [r \in Requests |-> 0]
  /\ guard = [r \in Requests |-> FALSE]
  /\ answer = [r \in Requests |-> "none"]
  /\ begun = [r \in Requests |-> -1]
  /\ tunnel = [r \in Requests |-> "none"]

Handle(r) ==
  \/ \E k \in {"get", "other", "websocket"}, named \in BOOLEAN : Arrive(r, k, named)
  \/ Refuse(r) \/ Redirect(r) \/ Dispatch(r)
  \/ ServeFile(r) \/ NoFile(r)

Forward(r) ==
  \/ NoBackend(r) \/ Select(r) \/ Connected(r)
  \/ BackendFails(r) \/ BackendAnswers(r) \/ BackendSwitches(r)
  \/ BodyEnds(r) \/ Orphan(r)

Next ==
  \/ \E r \in Requests : Handle(r) \/ Forward(r) \/ TunnelFails(r)
  \/ Cut \/ Leave
  \/ Tick

Spec == Init /\ [][Next]_vars

\* Timers fire and ready tasks run.  Clients, backends and the file system owe
\* nothing.
Fairness ==
  /\ WF_vars(Tick) /\ WF_vars(Cut)
  /\ \A r \in Requests :
       /\ WF_vars(Overdue(r) /\ BackendFails(r))
       /\ WF_vars(Orphan(r))

FairSpec == Spec /\ Fairness

-----------------------------------------------------------------------------
(* Properties                                                              *)

\* Types of the connection, its requests and their tunnel tasks.
TypeOK ==
  /\ proto \in {"h1", "h2"}
  /\ is_tls \in BOOLEAN /\ redirect_to_https \in BOOLEAN
  /\ timeout \in Timeouts
  /\ conn \in {"open", "closed"}
  /\ age \in 0 .. CONNECTION_SECS
  /\ kind \in [Requests -> {"get", "other", "websocket"}]
  /\ known \in [Requests -> BOOLEAN]
  /\ pc \in [Requests -> Busy \cup {"none", "done", "lost"}]
  /\ wait \in [Requests -> 0 .. timeout]
  /\ guard \in [Requests -> BOOLEAN]
  /\ answer \in [Requests -> {"none", "refused", "301", "101", "file",
                               "backend", "502", "cut", "left"}]
  /\ begun \in [Requests -> -1 .. CONNECTION_SECS]
  /\ tunnel \in [Requests -> {"none", "upgrading", "ended"}]

\* The two timers against the 60 seconds of main.rs: a request that got its
\* backend with more than twice timeout_secs to go is always answered, with a
\* 502 at worst, before the connection is cut.
AnsweredBeforeCut ==
  \A r \in Requests :
    answer[r] = "cut" /\ begun[r] >= 0 =>
      begun[r] + 2 * timeout >= CONNECTION_SECS

\* On plain HTTP a domain that redirects to HTTPS gives out nothing else: no
\* file, no backend, no tunnel, whatever kind of request asks (handle's order).
RedirectComesFirst ==
  ~is_tls /\ redirect_to_https =>
    \A r \in Requests :
      known[r] => /\ answer[r] \in {"none", "refused", "301", "cut", "left"}
                  /\ ~guard[r] /\ tunnel[r] = "none"

\* Every request comes to an end, its body included, and holds on to no
\* backend, however that one stalls and whenever the client goes
\* (ConnectionGuard): also the stream of an HTTP/2 connection that has gone.
RequestsEnd ==
  \A r \in Requests :
    pc[r] \in Busy ~> pc[r] \in {"done", "lost"} /\ ~guard[r]
=============================================================================
