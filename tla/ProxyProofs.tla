----------------------------- MODULE ProxyProofs ------------------------------
(***************************************************************************)
(* Proofs about the requests of a connection, for any number of requests,  *)
(* any timeout_secs and any limit on the connection.  The timers are       *)
(* followed from the moment a request gets its backend: what has passed    *)
(* since is what the first timer ran and what the second one shows.        *)
(***************************************************************************)
EXTENDS Proxy, TLAPS

\* What a request has used of its two timers, and what is known of one that
\* was cut off.
Timing(r) ==
  /\ pc[r] \notin Waiting => wait[r] = 0
  /\ pc[r] \in {"none", "arrived", "static", "selecting"} => begun[r] = -1
  /\ pc[r] = "connecting" => begun[r] >= 0 /\ age - begun[r] <= wait[r]
  /\ pc[r] = "sending" => begun[r] >= 0 /\ age - begun[r] <= timeout + wait[r]
  /\ answer[r] = "cut" => age = CONNECTION_SECS
  /\ answer[r] = "cut" /\ begun[r] >= 0 => begun[r] + 2 * timeout >= CONNECTION_SECS

\* A request that must be redirected never gets past the redirect.
Plain(r) == ~is_tls /\ redirect_to_https /\ known[r]

Harmless == {"none", "refused", "301", "cut", "left"}

Redirected(r) ==
  Plain(r) => /\ pc[r] \in {"none", "arrived", "done", "lost"}
              /\ answer[r] \in Harmless /\ ~guard[r] /\ tunnel[r] = "none"

\* A request that has not arrived has nothing.
Fresh(r) == pc[r] = "none" => answer[r] = "none" /\ ~guard[r] /\ tunnel[r] = "none"

IInv ==
  /\ TypeOK
  /\ \A r \in Requests : Timing(r) /\ Redirected(r) /\ Fresh(r)

Answers == {"none", "refused", "301", "101", "file", "backend", "502", "cut", "left"}

-----------------------------------------------------------------------------
\* A request that a step leaves alone.
LEMMA Untouched ==
  ASSUME NEW q \in Requests, Timing(q), Redirected(q), Fresh(q),
         UNCHANGED <<is_tls, redirect_to_https, timeout, age>>,
         pc'[q] = pc[q], wait'[q] = wait[q], begun'[q] = begun[q],
         answer'[q] = answer[q], known'[q] = known[q], guard'[q] = guard[q],
         tunnel'[q] = tunnel[q]
  PROVE  Timing(q)' /\ Redirected(q)' /\ Fresh(q)'
<1>1. Timing(q)'
  BY DEF Timing
<1>2. Redirected(q)'
  BY DEF Redirected, Plain
<1>3. Fresh(q)'
  BY DEF Fresh
<1> QED BY <1>1, <1>2, <1>3

\* handle returns.
LEMMA AnswerKeepsIInv ==
  ASSUME IInv, NEW r \in Requests, NEW a \in Answers \ {"cut"}, NEW place \in {"done", "streaming"},
         pc[r] \in Handling, Answer(r, a, place),
         tunnel' \in [Requests -> {"none", "upgrading", "ended"}],
         \A q \in Requests \ {r} : tunnel'[q] = tunnel[q],
         \/ pc[r] # "arrived"
         \/ a \in {"refused", "301"} /\ place = "done" /\ UNCHANGED tunnel
  PROVE  IInv'
<1>1. /\ pc \in [Requests -> Busy \cup {"none", "done", "lost"}]
      /\ wait \in [Requests -> 0 .. timeout] /\ guard \in [Requests -> BOOLEAN]
      /\ answer \in [Requests -> Answers] /\ timeout \in Nat
  BY ProxyAssumption DEF IInv, TypeOK, Answers
<1>2. /\ pc' = [pc EXCEPT ![r] = place] /\ guard' = [guard EXCEPT ![r] = FALSE]
      /\ wait' = [wait EXCEPT ![r] = 0]
      /\ answer' = [answer EXCEPT ![r] = a] \/ answer' = answer
      /\ UNCHANGED <<config, conn, age, kind, known, begun>>
  BY Zenon DEF Answer
<1>3. TypeOK'
  <2>1. /\ pc' \in [Requests -> Busy \cup {"none", "done", "lost"}]
        /\ wait' \in [Requests -> 0 .. timeout] /\ answer' \in [Requests -> Answers]
    BY <1>1, <1>2 DEF Busy
  <2>2. guard' \in [Requests -> BOOLEAN]
    BY <1>1, <1>2
  <2> QED BY <1>2, <2>1, <2>2 DEF IInv, TypeOK, config, Answers
<1>4. ASSUME NEW q \in Requests, q # r PROVE Timing(q)' /\ Redirected(q)' /\ Fresh(q)'
  <2>1. /\ pc'[q] = pc[q] /\ wait'[q] = wait[q] /\ answer'[q] = answer[q]
        /\ guard'[q] = guard[q] /\ tunnel'[q] = tunnel[q] /\ known'[q] = known[q]
        /\ begun'[q] = begun[q]
    BY <1>1, <1>2, <1>4
  <2> QED BY <1>2, <2>1, Untouched DEF IInv, config
<1>5. /\ pc'[r] = place /\ ~guard'[r] /\ wait'[r] = 0 /\ begun'[r] = begun[r]
      /\ answer'[r] = a \/ answer'[r] = answer[r]
  BY <1>1, <1>2
<1>6. Timing(r)'
  BY <1>2, <1>5 DEF IInv, Timing, Waiting, config
<1>7. Redirected(r)' /\ Fresh(r)'
  <2>1. Redirected(r)
    BY DEF IInv
  <2>2. Plain(r)' = Plain(r)
    BY <1>2 DEF Plain, config
  <2>3. Plain(r) => pc[r] = "arrived" /\ answer[r] \in Harmless /\ tunnel[r] = "none"
    BY <2>1 DEF Redirected, Handling, Waiting
  <2>4. Plain(r) => place = "done" /\ answer'[r] \in Harmless /\ tunnel'[r] = "none"
    BY <1>5, <2>3 DEF Harmless
  <2> QED BY <1>5, <2>2, <2>4 DEF Redirected, Fresh
<1> QED BY <1>3, <1>4, <1>6, <1>7 DEF IInv

\* A request goes on without an answer.
LEMMA MoveKeepsIInv ==
  ASSUME IInv, NEW r \in Requests,
         Dispatch(r) \/ NoFile(r) \/ Select(r) \/ Connected(r) \/ BodyEnds(r)
  PROVE  IInv'
<1>1. /\ pc \in [Requests -> Busy \cup {"none", "done", "lost"}]
      /\ wait \in [Requests -> 0 .. timeout] /\ guard \in [Requests -> BOOLEAN]
      /\ begun \in [Requests -> -1 .. CONNECTION_SECS]
      /\ age \in 0 .. CONNECTION_SECS
      /\ timeout \in Nat /\ CONNECTION_SECS \in Nat
  BY ProxyAssumption DEF IInv, TypeOK
<1>2. UNCHANGED <<config, conn, age, kind, known, answer, tunnel>>
  BY DEF Dispatch, NoFile, Select, Connected, BodyEnds, Goto
<1>3. PICK place \in {"static", "selecting", "connecting", "sending", "done"} :
        pc' = [pc EXCEPT ![r] = place]
  BY DEF Dispatch, NoFile, Select, Connected, BodyEnds, Goto
<1>4. /\ wait' = wait \/ wait' = [wait EXCEPT ![r] = 0]
      /\ begun' = begun \/ begun' = [begun EXCEPT ![r] = age]
  BY DEF Dispatch, NoFile, Select, Connected, BodyEnds
<1>5. guard' = guard \/ guard' = [guard EXCEPT ![r] = TRUE]
  BY DEF Dispatch, NoFile, Select, Connected, BodyEnds
<1>6. TypeOK'
  <2>1. /\ pc' \in [Requests -> Busy \cup {"none", "done", "lost"}]
        /\ wait' \in [Requests -> 0 .. timeout]
        /\ begun' \in [Requests -> -1 .. CONNECTION_SECS]
    BY <1>1, <1>3, <1>4 DEF Busy, Handling, Waiting
  <2>2. guard' \in [Requests -> BOOLEAN]
    BY <1>1, <1>5
  <2> QED BY <1>2, <2>1, <2>2 DEF IInv, TypeOK, config
<1>7. ASSUME NEW q \in Requests, q # r PROVE Timing(q)' /\ Redirected(q)' /\ Fresh(q)'
  <2>1. /\ pc'[q] = pc[q] /\ wait'[q] = wait[q] /\ begun'[q] = begun[q]
        /\ guard'[q] = guard[q]
    BY <1>1, <1>3, <1>4, <1>5, <1>7
  <2> QED BY <1>2, <2>1, Untouched DEF IInv, config
<1>8. Fresh(r)'
  BY <1>1, <1>3 DEF Fresh
<1>9. Redirected(r)'
  <2>1. ~Plain(r)
    <3>1. Plain(r) => pc[r] \in {"none", "arrived", "done", "lost"}
      BY DEF IInv, Redirected
    <3>2. Dispatch(r) => ~Plain(r)
      BY DEF Dispatch, MustRedirect, Plain
    <3>3. ~Dispatch(r) => pc[r] \in {"static", "selecting", "connecting", "streaming"}
      BY DEF NoFile, Select, Connected, BodyEnds
    <3> QED BY <3>1, <3>2, <3>3 DEF Dispatch
  <2>2. Plain(r)' = Plain(r)
    BY <1>2 DEF Plain, config
  <2> QED BY <2>1, <2>2 DEF Redirected
<1>10. Timing(r)'
  <2>1. /\ timeout' = timeout /\ age' = age /\ answer' = answer /\ pc'[r] = place
        /\ Timing(r) /\ begun[r] \in -1 .. CONNECTION_SECS
        /\ wait[r] \in 0 .. timeout
    BY <1>1, <1>2, <1>3 DEF config, IInv
  <2>2. CASE Dispatch(r) \/ NoFile(r)
    <3>1. /\ pc[r] \in {"arrived", "static"} /\ pc'[r] \in {"static", "selecting"}
          /\ wait' = wait /\ begun' = begun
      BY <1>1, <2>2 DEF Dispatch, NoFile, Goto
    <3> QED BY <2>1, <3>1 DEF Timing, Waiting
  <2>3. CASE Select(r)
    <3>1. pc[r] = "selecting" /\ pc'[r] = "connecting" /\ wait' = wait /\ begun'[r] = age
      BY <1>1, <2>3 DEF Select, Goto
    <3> QED BY <1>1, <2>1, <3>1 DEF Timing, Waiting
  <2>4. CASE Connected(r)
    <3>1. pc[r] = "connecting" /\ pc'[r] = "sending" /\ wait'[r] = 0 /\ begun' = begun
      BY <1>1, <2>4 DEF Connected, Goto
    <3> QED BY <1>1, <2>1, <3>1 DEF Timing, Waiting
  <2>5. CASE BodyEnds(r)
    <3>1. pc[r] = "streaming" /\ pc'[r] = "done" /\ wait' = wait /\ begun' = begun
      BY <1>1, <2>5 DEF BodyEnds, Goto
    <3> QED BY <2>1, <3>1 DEF Timing, Waiting
  <2> QED BY <2>2, <2>3, <2>4, <2>5
<1> QED BY <1>6, <1>7, <1>8, <1>9, <1>10 DEF IInv

\* The next request.
LEMMA ArriveKeepsIInv ==
  ASSUME IInv, NEW r \in Requests, NEW k \in {"get", "other", "websocket"},
         NEW named \in BOOLEAN, Arrive(r, k, named)
  PROVE  IInv'
<1>1. /\ pc \in [Requests -> Busy \cup {"none", "done", "lost"}]
      /\ kind \in [Requests -> {"get", "other", "websocket"}]
      /\ known \in [Requests -> BOOLEAN]
  BY DEF IInv, TypeOK
<1>2. /\ pc[r] = "none" /\ pc' = [pc EXCEPT ![r] = "arrived"]
      /\ kind' = [kind EXCEPT ![r] = k]
      /\ UNCHANGED <<config, conn, age, wait, guard, answer, begun, tunnel>>
  BY DEF Arrive
<1>3. known' = [known EXCEPT ![r] = named]
  BY DEF Arrive
<1>4. TypeOK'
  <2>1. /\ pc' \in [Requests -> Busy \cup {"none", "done", "lost"}]
        /\ kind' \in [Requests -> {"get", "other", "websocket"}]
    BY <1>1, <1>2 DEF Busy, Handling
  <2>2. known' \in [Requests -> BOOLEAN]
    BY <1>1, <1>3
  <2> QED BY <1>2, <2>1, <2>2 DEF IInv, TypeOK, config
<1>5. ASSUME NEW q \in Requests, q # r PROVE Timing(q)' /\ Redirected(q)' /\ Fresh(q)'
  <2>1. pc'[q] = pc[q] /\ known'[q] = known[q]
    BY <1>1, <1>2, <1>3, <1>5
  <2> QED BY <1>2, <2>1, Untouched DEF IInv, config
<1>6. pc'[r] = "arrived" /\ Timing(r) /\ answer[r] = "none" /\ ~guard[r] /\ tunnel[r] = "none"
  BY <1>1, <1>2 DEF IInv, Fresh
<1>7. Timing(r)'
  BY <1>2, <1>6 DEF Timing, Waiting, config
<1>8. Redirected(r)' /\ Fresh(r)'
  BY <1>2, <1>6 DEF Redirected, Fresh, Harmless
<1> QED BY <1>4, <1>5, <1>7, <1>8 DEF IInv

\* The tunnel task touches no request that must be redirected: it has none.
LEMMA TunnelKeepsIInv ==
  ASSUME IInv, NEW r \in Requests, TunnelFails(r)
  PROVE  IInv'
<1>1. tunnel \in [Requests -> {"none", "upgrading", "ended"}]
  BY DEF IInv, TypeOK
<1>2. UNCHANGED <<config, conn, age, request>> /\ tunnel[r] # "none"
  BY DEF TunnelFails
<1>3. /\ tunnel' \in [Requests -> {"none", "upgrading", "ended"}]
      /\ \A q \in Requests \ {r} : tunnel'[q] = tunnel[q]
  BY <1>1 DEF TunnelFails
<1>4. TypeOK'
  BY <1>2, <1>3 DEF IInv, TypeOK, config, request
<1>5. ASSUME NEW q \in Requests, q # r PROVE Timing(q)' /\ Redirected(q)' /\ Fresh(q)'
  BY <1>2, <1>3, <1>5, Untouched DEF IInv, config, request
<1>6. Timing(r)' /\ Redirected(r)' /\ Fresh(r)'
  <2>1. Timing(r) /\ ~Plain(r) /\ pc[r] # "none"
    BY <1>2 DEF IInv, Redirected, Fresh
  <2>2. Timing(r)'
    BY <1>2, <2>1 DEF Timing, config, request
  <2>3. Redirected(r)' /\ Fresh(r)'
    BY <1>2, <2>1 DEF Redirected, Plain, Fresh, config, request
  <2> QED BY <2>2, <2>3
<1> QED BY <1>4, <1>5, <1>6 DEF IInv

\* A stream task goes after its connection.
LEMMA OrphanKeepsIInv ==
  ASSUME IInv, NEW r \in Requests, Orphan(r)
  PROVE  IInv'
<1>1. /\ pc \in [Requests -> Busy \cup {"none", "done", "lost"}]
      /\ wait \in [Requests -> 0 .. timeout] /\ guard \in [Requests -> BOOLEAN]
      /\ timeout \in Nat
  BY ProxyAssumption DEF IInv, TypeOK
<1>2. /\ pc' = [pc EXCEPT ![r] = "lost"] /\ guard' = [guard EXCEPT ![r] = FALSE]
      /\ wait' = [wait EXCEPT ![r] = 0]
      /\ UNCHANGED <<config, conn, age, kind, known, answer, begun, tunnel>>
  BY DEF Orphan
<1>3. TypeOK'
  <2>1. /\ pc' \in [Requests -> Busy \cup {"none", "done", "lost"}]
        /\ wait' \in [Requests -> 0 .. timeout]
    BY <1>1, <1>2
  <2>2. guard' \in [Requests -> BOOLEAN]
    BY <1>1, <1>2
  <2> QED BY <1>2, <2>1, <2>2 DEF IInv, TypeOK, config
<1>4. ASSUME NEW q \in Requests, q # r PROVE Timing(q)' /\ Redirected(q)' /\ Fresh(q)'
  <2>1. pc'[q] = pc[q] /\ wait'[q] = wait[q] /\ guard'[q] = guard[q]
    BY <1>1, <1>2, <1>4
  <2> QED BY <1>2, <2>1, Untouched DEF IInv, config
<1>5. pc'[r] = "lost" /\ ~guard'[r] /\ wait'[r] = 0
  BY <1>1, <1>2
<1>6. Timing(r)'
  BY <1>2, <1>5 DEF IInv, Timing, Waiting, config
<1>7. Redirected(r)' /\ Fresh(r)'
  BY <1>2, <1>5 DEF IInv, Redirected, Plain, Fresh, config
<1> QED BY <1>3, <1>4, <1>6, <1>7 DEF IInv

\* The connection is cut, or left: what a request that is cut off has behind it
\* is what its timers let pass.
LEMMA CloseKeepsIInv ==
  ASSUME IInv, NEW why \in {"cut", "left"}, Close(why),
         why = "cut" => age = CONNECTION_SECS
  PROVE  IInv'
<1>1. /\ pc \in [Requests -> Busy \cup {"none", "done", "lost"}]
      /\ wait \in [Requests -> 0 .. timeout] /\ guard \in [Requests -> BOOLEAN]
      /\ answer \in [Requests -> Answers]
      /\ begun \in [Requests -> -1 .. CONNECTION_SECS]
      /\ timeout \in Nat /\ CONNECTION_SECS \in Nat /\ age \in 0 .. CONNECTION_SECS
  BY ProxyAssumption DEF IInv, TypeOK, Answers
<1>2. /\ conn' = "closed" /\ UNCHANGED <<config, age, kind, known, begun, tunnel>>
      /\ answer' = [r \in Requests |-> IF pc[r] \in Handling THEN why ELSE answer[r]]
  BY DEF Close
<1>3. \/ /\ pc' = [r \in Requests |-> IF Lost(r) THEN "lost" ELSE pc[r]]
         /\ guard' = [r \in Requests |-> guard[r] /\ ~Lost(r)]
         /\ wait' = [r \in Requests |-> IF Lost(r) THEN 0 ELSE wait[r]]
      \/ UNCHANGED <<pc, guard, wait>>
  BY Zenon DEF Close
<1>4. TypeOK'
  <2>1. /\ pc' \in [Requests -> Busy \cup {"none", "done", "lost"}]
        /\ wait' \in [Requests -> 0 .. timeout]
        /\ answer' \in [Requests -> Answers]
    BY <1>1, <1>2, <1>3 DEF Answers
  <2>2. guard' \in [Requests -> BOOLEAN]
    BY <1>1, <1>3
  <2> QED BY <1>2, <2>1, <2>2 DEF IInv, TypeOK, config, Answers
<1>5. ASSUME NEW q \in Requests PROVE Timing(q)' /\ Redirected(q)' /\ Fresh(q)'
  <2>1. /\ Timing(q) /\ Redirected(q) /\ Fresh(q)
        /\ begun[q] \in -1 .. CONNECTION_SECS /\ wait[q] \in 0 .. timeout
    BY <1>1 DEF IInv
  <2>2. /\ answer'[q] = (IF pc[q] \in Handling THEN why ELSE answer[q])
        /\ \/ pc'[q] = pc[q] /\ wait'[q] = wait[q]
           \/ pc'[q] = "lost" /\ wait'[q] = 0 /\ pc[q] # "none"
    BY <1>1, <1>2, <1>3 DEF Lost, Busy, Handling, Waiting
  <2>3. guard'[q] => guard[q]
    BY <1>1, <1>3
  <2>4. answer'[q] = "cut" =>
          age = CONNECTION_SECS
          /\ (begun[q] >= 0 => begun[q] + 2 * timeout >= CONNECTION_SECS)
    <3>1. CASE pc[q] \in Handling
      <4>1. begun[q] >= 0 => pc[q] \in {"connecting", "sending"}
        BY <2>1, <3>1 DEF Timing, Handling, Waiting
      <4>2. begun[q] >= 0 => age - begun[q] <= timeout + timeout
        BY <1>1, <2>1, <4>1 DEF Timing
      <4>3. answer'[q] = "cut" => age = CONNECTION_SECS
        BY <2>2, <3>1
      <4> QED BY <1>1, <2>1, <4>2, <4>3
    <3>2. CASE pc[q] \notin Handling
      BY <2>1, <2>2, <3>2 DEF Timing
    <3> QED BY <3>1, <3>2
  <2>5. Timing(q)'
    <3>1. timeout' = timeout /\ age' = age /\ begun' = begun
      BY <1>2 DEF config
    <3> QED BY <2>1, <2>2, <2>4, <3>1 DEF Timing, Waiting
  <2>6. Redirected(q)'
    <3>1. Plain(q)' = Plain(q) /\ tunnel'[q] = tunnel[q]
      BY <1>2 DEF Plain, config
    <3>2. Plain(q) => answer'[q] \in Harmless
      BY <2>1, <2>2 DEF Redirected, Harmless
    <3> QED BY <2>1, <2>2, <2>3, <3>1, <3>2 DEF Redirected
  <2>7. Fresh(q)'
    BY <1>2, <2>1, <2>2, <2>3 DEF Fresh, Handling, Waiting
  <2> QED BY <2>5, <2>6, <2>7
<1> QED BY <1>4, <1>5 DEF IInv

\* Time passes only while no timer is due.
LEMMA TickKeepsIInv ==
  ASSUME IInv, Tick
  PROVE  IInv'
<1>1. /\ wait \in [Requests -> 0 .. timeout]
      /\ begun \in [Requests -> -1 .. CONNECTION_SECS]
      /\ timeout \in Nat /\ CONNECTION_SECS \in Nat /\ age \in 0 .. CONNECTION_SECS
  BY ProxyAssumption DEF IInv, TypeOK
<1>2. /\ UNCHANGED <<config, conn, kind, known, pc, guard, answer, begun, tunnel>>
      /\ age < CONNECTION_SECS /\ age' = age + 1
      /\ wait' = [r \in Requests |-> IF pc[r] \in Waiting THEN wait[r] + 1 ELSE 0]
  BY DEF Tick
<1>3. \A r \in Requests : pc[r] \in Waiting => wait[r] < timeout
  BY <1>1 DEF Tick, Overdue
<1>4. TypeOK'
  <2>1. wait' \in [Requests -> 0 .. timeout] /\ age' \in 0 .. CONNECTION_SECS
    BY <1>1, <1>2, <1>3
  <2> QED BY <1>2, <2>1 DEF IInv, TypeOK, config
<1>5. ASSUME NEW q \in Requests PROVE Timing(q)' /\ Redirected(q)' /\ Fresh(q)'
  <2>1. Timing(q) /\ Redirected(q) /\ Fresh(q) /\ wait[q] \in 0 .. timeout
        /\ begun[q] \in -1 .. CONNECTION_SECS
    BY <1>1 DEF IInv
  <2>2. wait'[q] = (IF pc[q] \in Waiting THEN wait[q] + 1 ELSE 0) /\ timeout' = timeout
    BY <1>2 DEF config
  <2>3. Timing(q)'
    BY <1>1, <1>2, <2>1, <2>2 DEF Timing, Waiting
  <2>4. Redirected(q)' /\ Fresh(q)'
    BY <1>2, <2>1 DEF Redirected, Plain, Fresh, config
  <2> QED BY <2>3, <2>4
<1> QED BY <1>4, <1>5 DEF IInv

-----------------------------------------------------------------------------
LEMMA InitIInv == Init => IInv
<1> SUFFICES ASSUME Init PROVE IInv
  OBVIOUS
<1>1. TypeOK
  <2>1. guard \in [Requests -> BOOLEAN] /\ known \in [Requests -> BOOLEAN]
    BY DEF Init
  <2>2. timeout \in Nat /\ CONNECTION_SECS \in Nat
    BY ProxyAssumption DEF Init
  <2>3. /\ age \in 0 .. CONNECTION_SECS /\ wait \in [Requests -> 0 .. timeout]
        /\ begun \in [Requests -> -1 .. CONNECTION_SECS]
    BY <2>2 DEF Init
  <2>4. /\ kind \in [Requests -> {"get", "other", "websocket"}]
        /\ pc \in [Requests -> Busy \cup {"none", "done", "lost"}]
        /\ answer \in [Requests -> Answers]
        /\ tunnel \in [Requests -> {"none", "upgrading", "ended"}]
      BY DEF Init, Answers
  <2>5. /\ proto \in {"h1", "h2"} /\ timeout \in Timeouts /\ conn \in {"open", "closed"}
        /\ is_tls \in BOOLEAN /\ redirect_to_https \in BOOLEAN
    BY DEF Init
  <2> QED BY <2>1, <2>3, <2>4, <2>5 DEF TypeOK, Answers
<1>2. ASSUME NEW r \in Requests PROVE Timing(r) /\ Redirected(r) /\ Fresh(r)
  BY DEF Init, Timing, Waiting, Redirected, Harmless, Fresh
<1> QED BY <1>1, <1>2 DEF IInv

LEMMA NextIInv == IInv /\ [Next]_vars => IInv'
<1> SUFFICES ASSUME IInv, [Next]_vars PROVE IInv'
  OBVIOUS
<1>1. tunnel \in [Requests -> {"none", "upgrading", "ended"}]
  BY DEF IInv, TypeOK
<1>2. ASSUME NEW r \in Requests, Handle(r) PROVE IInv'
  <2>1. CASE Refuse(r)
    BY <1>1, <2>1, AnswerKeepsIInv DEF Refuse, Answers, Handling
  <2>2. CASE Redirect(r)
    BY <1>1, <2>2, AnswerKeepsIInv DEF Redirect, Answers, Handling
  <2>3. CASE ServeFile(r)
    BY <1>1, <2>3, AnswerKeepsIInv DEF ServeFile, Answers, Handling
  <2> QED BY <1>2, <2>1, <2>2, <2>3, ArriveKeepsIInv, MoveKeepsIInv DEF Handle
<1>3. ASSUME NEW r \in Requests, Forward(r) PROVE IInv'
  <2>1. CASE NoBackend(r)
    BY <1>1, <2>1, AnswerKeepsIInv DEF NoBackend, Answers, Handling
  <2>2. CASE BackendFails(r)
    BY <1>1, <2>2, AnswerKeepsIInv DEF BackendFails, Answers, Handling, Waiting
  <2>3. CASE BackendAnswers(r)
    BY <1>1, <2>3, AnswerKeepsIInv DEF BackendAnswers, Answers, Handling, Waiting
  <2>4. CASE BackendSwitches(r)
    <3>1. /\ tunnel' = [tunnel EXCEPT ![r] = "upgrading"]
          /\ pc[r] = "sending" /\ Answer(r, "101", "done")
      BY <2>4 DEF BackendSwitches
    <3>2. /\ tunnel' \in [Requests -> {"none", "upgrading", "ended"}]
          /\ \A q \in Requests \ {r} : tunnel'[q] = tunnel[q]
      BY <1>1, <3>1
    <3> QED BY <3>1, <3>2, AnswerKeepsIInv DEF Answers, Handling, Waiting
  <2> QED BY <1>3, <2>1, <2>2, <2>3, <2>4, MoveKeepsIInv, OrphanKeepsIInv DEF Forward
<1>4. ASSUME NEW r \in Requests, TunnelFails(r) PROVE IInv'
  BY <1>4, TunnelKeepsIInv
<1>5. CASE Cut
  BY <1>5, CloseKeepsIInv DEF Cut
<1>6. CASE Leave
  BY <1>6, CloseKeepsIInv DEF Leave
<1>7. CASE Tick
  BY <1>7, TickKeepsIInv
<1>8. CASE UNCHANGED vars
  <2>1. TypeOK'
    BY <1>8 DEF IInv, TypeOK, vars, config, request
  <2>2. ASSUME NEW q \in Requests PROVE Timing(q)' /\ Redirected(q)' /\ Fresh(q)'
    BY <1>8, Untouched DEF IInv, vars, config, request
  <2> QED BY <2>1, <2>2 DEF IInv
<1> QED BY <1>2, <1>3, <1>4, <1>5, <1>6, <1>7, <1>8 DEF Next

THEOREM ProxyInvariant == Spec => []IInv
BY InitIInv, NextIInv, PTL DEF Spec

\* Types of a connection and its requests, for any number of requests and any
\* timeouts.
THEOREM TypeCorrect == Spec => []TypeOK
<1>1. IInv => TypeOK
  BY DEF IInv
<1> QED BY <1>1, ProxyInvariant, PTL

\* No request with more than twice timeout_secs to go when it got its backend is
\* cut off without an answer, for any timeout and any limit.
THEOREM TimersBeatTheCut == Spec => []AnsweredBeforeCut
<1>1. IInv => AnsweredBeforeCut
  BY DEF IInv, Timing, AnsweredBeforeCut
<1> QED BY <1>1, ProxyInvariant, PTL

\* Whatever arrives on plain HTTP for a domain that redirects gets a redirect or
\* a refusal, for any number of requests, one at a time or at once.
THEOREM NothingButRedirects == Spec => []RedirectComesFirst
<1>1. IInv => RedirectComesFirst
  BY DEF IInv, Redirected, Plain, Harmless, RedirectComesFirst
<1> QED BY <1>1, ProxyInvariant, PTL
=============================================================================
