# curf in TLA+

A verification project for curf, a reverse proxy and web server in Rust
(`src/src/*.rs`, about 2000 lines, tokio tasks, no tests).  It holds TLA+ modules
for the parts of curf whose correctness depends on concurrency, time or
failure, TLC runs that check them on small instances, and theorems about them
that TLAPS checks for every value of the constants.  Paths below are relative
to `src/src/`.

## The system

| part | state | operations | talks to |
|---|---|---|---|
| accept loops, `main.rs` `serve_http`, `serve_https` | one semaphore of `max_connections` each | accept, try a permit, count the address, spawn a task | SecurityChecker, ProxyHandler, SslManager |
| connection tracking, `security.rs` | `connections`, `tls_failures`, `blocked_ips` (DashMaps) | `check_and_acquire_connection`, `release_connection`, `record_tls_failure` | called by loops and tasks |
| WAF, `security.rs` | none | `check_request` | called by `handle` |
| rate limiter, `rate_limit.rs` | a token bucket per address | `is_allowed` | called by `handle` |
| request pipeline, `proxy.rs` | none of its own; backend connections and tunnel tasks | `handle`, `proxy_http`, `proxy_websocket` | all of the others |
| load balancer, `load_balancer.rs` | cursor, a `Backend` per URL | `select`, `success`, `failure`, guard drop | called by pipeline and health checker |
| circuit breaker, `load_balancer.rs` `Backend` | `failures`, `last_failure`, `circuit_open` (relaxed atomics) | `is_healthy`, `record_success`, `record_failure` | called by the load balancer |
| health checker, `health_check.rs` | a ticker per domain | a round of GETs, one backend after another | reports to the load balancer |
| static files, `static_files.rs` | the file system, which others change too | `serve`, `serve_file`, `safe_path` | called by `handle` before it proxies |
| load balancer manager, `load_balancer.rs` | domain to balancer, filled once | `add_domain`, `get` | main, pipeline, health checker |
| startup, `main.rs` `main`, `start_health_checks` | what it has built so far, its tasks | load, loop over domains, spawn, bind | everything |
| certificates, `ssl.rs` | domain to certificate and key, the acceptor | `add_domain`, `load_key`, `build`, `acceptor` | called by main |
| configuration, `config.rs` | none after loading | defaults of fields and of sections | read by main |
| error pages, `error.rs` | none | fixed responses | used by the pipeline |

What is hard: every task runs concurrently with every other on tokio's worker
threads; the breaker's three atomics and the round-robin cursor are shared
without a lock; DashMap locks one entry at a time, so decisions that read two
maps are not atomic; clocks are read before the lock under which they are used;
requests end by answers, errors, two timeouts, and the cancellation of their
connection after 60 seconds; guards must be released on all of these ways out;
files are looked at, looked for and read in separate calls while other programs
replace them; main goes on building while the tasks it has spawned run.
`PROJECT.json` lists the hazards line by line, with the properties that would
catch them.

What makes the parts correct:
* breaker: opens only on a run of failed checks; is reset in time but for races with a
  failure or the clock; a recovered backend ends admitted; a dead one is shut out again after every half-open trial;
* balancer: counts are exact, an available backend is found, the same address
  stays on the same backend, round robin spreads evenly, least connections
  picks a least loaded backend;
* limiter: an upper bound on what is granted in any window, a lower bound on
  what a client is owed;
* connections: exact counts and permits on every way out, blocking after enough
  failed handshakes and not before, and a blocked address ends outside;
* pipeline: a request that has a backend, and the connection time for both of its
  timers, is answered before the connection is cut, a redirecting domain gives out
  nothing on plain HTTP, every request ends and lets go of its backend;
* health checker: reports that come often enough keep a dead backend shut out
  from clients, and a slow round is not made up for;
* paths: `safe_path` leads where counting parents says, never outside the root,
  and refuses no path that does not climb;
* static files: a 304 is true, and an undisturbed request gets what is there;
* startup: nothing listens before everything is built, and curf comes up unless
  there is a reason not to.

## Modules

### CircuitBreaker
One `Backend` at the granularity of its atomic accesses.  `Requests` call
`is_healthy` (`IsHealthyClosed`, `IsHealthyOpen`, `ReadClock`, `JudgeElapsed`),
forward, and report (`Respond`) or say nothing (`FailSilently`, since only the
health checker calls `failure`); `Checker` is the domain's health checker
(`CheckPasses`, `CheckFails`, `StampFailure`).  All accesses are
`Ordering::Relaxed`, so the stores of a method are a set `pending[a]` that
`Store` drains in any order; a `fetch_add` is an action of its own.  The wall
clock (`Clock`) moves by any amount, and back when `ClockStepsBack`; the
subtraction of `u64` values wraps at `U64` as in a release build.  `probe_ok`
and `serving` are the backend's independent answers to checks and to requests.
Two history variables: `streak`, failed checks since the last passed one, and
`overtaken`, the tasks in `is_healthy` whose reading of the clock has been made old by a
stored failure or a clock set back, or was already before the last failure.

Relaxed stores are modelled as delayed and reordered stores of one method; the
stores of two methods of one task stay in order, which the task's `await`s
between them enforce.  Loads are not delayed.

### LoadBalancer
`select` of one domain by concurrent `Tasks`: each access to the cursor, each
`is_healthy`, each read of an active count and `acquire` is an action of its
own, the three strategies share them.  The guard lives from `Acquire` to
`Release`; `Succeed` is `lb.success(url)`, which finds the backend by URL and so
meets the first of two equal ones (`UrlLists` holds such a list).  A circuit is
"closed", "open" or "expired" (open for CB_RESET_SECS): the breaker's methods are
atomic here, their own races are the subject of CircuitBreaker.  Expiry is a
free step, so every timing is covered.  History: `up`, `settled`, `raced`,
`calm`, `picks`.

### RateLimiter
`is_allowed` in its two steps: `Enter` reads the clock, `UseBucket` runs under the
lock of the bucket.  Time in ticks, TPS to the second, tokens in units of 1/TPS,
so all arithmetic is exact; the code's f64 rounding is not modelled.
`OpenWindow` is an observer's step that begins to count at any moment, so that
`WindowRate` speaks of every window and not just those from the start.

### Connections
The two accept loops, their tasks, and the three maps of SecurityChecker.  A
connection is taken up (`Accept`), meets the semaphore (`NoPermit`,
`TakePermit`), the block list (`RefuseBlocked`, `PassBlocked`), the count
(`RefuseFull`, `Spawn`), shakes hands on the TLS listener, serves, and drops its
guard and then its permit (`ReleaseIp`, `ReleasePermit`).  The test of the block
list and the count are separate steps because `check_and_acquire_connection`
holds no lock across them; `RecordTlsFailure` and `Block` are separate steps too,
but `record_tls_failure` keeps the entry of the address locked between them, so
no other failure of that address gets in.  What happens inside a connection is
`StopServing`: an end at any time.

### Admission
What the accept loops and the SecurityChecker promise together, as an abstract
specification: connections are let in (`Admit`) one at a time within both limits,
leave (`Leave`), addresses are banned (`Ban`) while they have a connection of the TLS
listener, and a banned address is let in once more by each listener at most.  There
are no loops, permits, counts or windows in it.  Its limit is that of one listener
(`ListenerLimit`), because that is what the two semaphores keep; the limit across both
that the documentation speaks of is not kept (run global_cap).  `Connections!Promise` is the
refinement mapping: `open` is the set of connection tasks that are counted, `banned`
is `blocked_ips`, `late` comes from the history of what slipped through.  The window
between the block list and the count is real, which is why the abstract
specification has to admit `late` at all.

### HealthChecker
One domain's checker with time; a tick of the model is a second.  `due` is the
distance to the ticker's deadline, which goes negative when a round lasts longer
than the interval; `BeginRound` sets the next deadline as
`MissedTickBehavior::Skip` does.  `checking` and `spent` walk through the backends
in order; `CheckPasses` and `CheckFails` are `success` and `failure`, the latter for
an error, another status or the timeout.  `Answered` is a request's
`lb.success`, `HalfOpen` the `is_healthy` that closes a circuit that is old enough,
`Changes` a backend that goes down or comes back.  `last_failure` is kept as
`elapsed`, the distance from now.  Left out: the breaker's races (CircuitBreaker),
the part of a second that `unix_now` cuts off, and latency between a timer's
deadline and its task.

### Proxy
One client connection, HTTP/1 or HTTP/2, with time, and the requests on it.
`Refuse` (rate limiter, then WAF), `Redirect`, `Dispatch`, `ServeFile`/`NoFile` are
`handle` in its order; `Select`, `Connected`, `BackendFails`, `BackendAnswers`,
`BackendSwitches` are `proxy_http` and `proxy_websocket`, each with two timers one
after the other.  `Answer` is the return from `handle`: it drops the guard, while
the body (`streaming`) or the tunnel goes on.  `Cut` is the 60 seconds of `main.rs`;
it drops the request of an HTTP/1 connection with the connection's future, while
the streams of HTTP/2 are tasks of their own that notice later (`Orphan`).  A
tunnel's task only ever fails (`TunnelFails`): `main.rs` serves connections without
upgrades, so the client's upgrade that it waits for first never comes, and the copying
is never reached.  A timer that is due fires before the next tick, but
what it bounds may still win within the tick.

What the other components decide is a free choice here (limiter, WAF, select,
whether a file exists; a domain without static files finds none).  Header
rewriting is left out: `add_forwarding_headers` and `inject_extra_headers` change
no control.

### SafePath, RequestPaths
A path is a sequence of segments, each a name or one of the spellings that decoding
and `Path::components` treat differently: a parent, a parent with one or both of its
dots encoded, an encoded slash between parents or names, a name that ends in two dots, one
with two dots and a backslash, bytes that are no UTF-8, an encoded question
mark, which cuts the path off.  `SafePath` is the walk of the code as a fold over the
components (`Walk`: pop fails at "/" only) and the final test of the root.
RequestPaths has `check_request`, which comes before it, with its flags and their order.
Neither keeps state, so these modules have no actions: what they compute is
checked over all paths up to a bound and, as operators, used by StaticFiles.
What patterns a query has is a set of marks; only "../" and "..\" are
looked for in the path itself.  The reference definition, `LeadsTo`, does not walk:
`Height` counts names and parents, a path that is below zero anywhere climbs above "/",
and what is left of any other is, at each depth, the name that was put there last
(`LastAt`).

### StaticFiles
`serve` and `serve_file` with one action for each call to the file system: the first
`metadata` (`Resolve`), `exists` for each index file (`TryIndex`), the `metadata` of the
file to serve (`Stat`), and the read (`Read`), while other programs `Write` and `Delete`
between any two of them.  The client keeps the last answer (`copy`) and may send its
ETag, its Last-Modified, both or neither.  Modification times are in ticks, TPS to
the second, because the code cuts them to seconds in one place and not in another.

A conditional request cannot be right for every history of the files, so the two
properties of a 304 have premises about times, and about nothing else that the validators
are made of.  `orderly`: each write has a later time than all before it, and no older
file takes over as index file, be it that one appears while a request looks for it or
that the one before it is deleted.  Under it a 304 for If-Modified-Since alone is true
(`NotModifiedSinceIsTrue`), of two versions within a second too, because the code compares the
full time of the file with a Last-Modified that was cut.  `spaced`: each write is of a later
second.  Under it any 304 is true (`NotModifiedIsTrue`).  Between the two lies a stale copy
the code really gives: a file that is rewritten with the same length within the second
keeps its ETag, and If-None-Match is answered with 304.  What is left is the code's own part: the
headers come from a `metadata` before the read, so a client may hold new content
under an old tag, never the other way round for good; TLC and the proof show
that under these premises this costs at most a transfer and never a stale copy.  `SteadyIsServed` needs no such
premise, but that no file changes during the one request (`steady`).

### Config, Startup
`Config` is the meaning of a section: a function on the fields it gives, filled from
the defaults serde takes field by field, or replaced by `Default` when the
section itself is missing; config.rs writes the two down separately, and so does
the module.
`Startup` is `main` next to its tasks: `Load`, a turn of its loop per domain in any order
(`AddDomain`, with the choice among a file's keys), `BuildHandler`, `StartCheck`,
`SpawnHttp`, `Build`, `BindHttps`; the HTTP task's bind (`BindHttp`), each checker's first
tick (`FirstTick`), and `Interrupt`.  `Exit` is a return of main, a signal or an abort: all
tasks end with the process.  An interval of 0 is such an abort: `tokio::time::interval` panics in
the checker's task, and Cargo.toml:52 has release builds abort on panic.  What a certificate file holds, which keys ring supports and which
ports are taken are inputs.

## Runs

| run | expected | checks | bounds |
|---|---|---|---|
| breaker | pass | OpenMeansFailedChecks, ResetsAreDue, Recovery, Detection | 2 requests, threshold 2, reset 2 s, clock 2..4 and back |
| no_early_reset | violation | NoEarlyReset | 1 request, clock that never steps back |
| balancer | pass | TypeOK, ActiveIsInFlight, FindsAvailable, Affinity, EvenSplit, LeastLoaded | 2 tasks, 3 backends, cursor modulo 7, distinct URLs and a duplicate |
| select_none | violation | NoneMeansAllOpen | the same |
| rate_limiter | pass | TypeOK, WindowRate, NothingLost | 3 requests, rps 0, 1, 3, burst 0, 1, 2, 2 ticks per second, 3 ticks |
| sustained_rate | violation | SustainedRate | 2 requests, rps 1, burst 1, 4 ticks |
| connections | pass | TypeOK, PerIpCount, PermitsConserved, BlockedByFailures, AtMostOneSlips, BlockedEndsOutside, ImplementsAdmission | 4 connections of an address, cap 3, 2 permits per listener, 2 failures |
| global_cap | violation | GlobalCap | the same |
| health_checker | pass | TypeOK, StaysShut, ShutOutInTime, NoCatchingUp | 2 backends, threshold 2, reset 5 s, four settings of interval and timeout |
| proxy | pass | TypeOK, AnsweredBeforeCut, RedirectComesFirst, RequestsEnd | 2 requests, timeouts of 1 and 2 ticks, connection of 3 |
| static_files | pass | TypeOK, NotModifiedIsTrue, NotModifiedSinceIsTrue, SteadyIsServed, SafePathExact, ClimbsAreRefusedFirst | 3 directories, 2 files, 2 index files, times 0..2 with 2 to the second; all paths of up to 4 of 11 kinds of segments, a root two levels deep, all flags |
| startup | pass | TypeOK, ServesOnlyWhole, CheckersKnowDomains, ComesUp | 2 domains of 7 sections each, 4 server sections, 2 command lines, ports 80 and 443 taken or not |

Why these bounds are enough: every race in this code is between two tasks (a
third repeats the part of one of them), and every counter is compared with one
threshold, so two tasks and a threshold of 2 let it be missed, met and passed.
Three backends are the fewest for which a race can skip an available one while
another is open; 7 is no multiple of 3, so the wrap of the cursor matters, as
2^64 does.  The limiter has three requests because a late reading is harmful
only after another request has moved the bucket on and a third one profits.
The clock of the breaker needs one value beyond the reset time, and one below
to step back to.  A third and fourth connection let each listener and the
address meet their limits while two others fail handshakes.  Counters that only
grow are saturated at the value at which the code stops telling them apart
(`failures`, `tls_failures`); the number of grants and of picks is bounded by
the clock and by the wrap of the cursor.

The settings of the health checker make a round shorter than the interval, as
long as it, and longer, and the longest gap between two reports, one interval
and a timeout for each backend, one second less than the reset time or longer.
With curf's defaults (15 s interval, 5 s timeout, 30 s reset) the premise of
`StaysShut` holds for at most two backends in a domain; with three, and checks that
time out, a client's request may be spent on a dead backend between two rounds.  In the proxy run a
connection of 3 ticks leaves room for both timers of 1 tick with a tick to spare
or none, and too little for two timers of 2: all three cases of the default 30
seconds against 60, in the small.

Four segments are enough to climb above a root of two levels and above "/" (the
encoded pair counts for two) and to come back; the pairs of kinds of segments that
meet in a decision (a parent and what follows it, a name and the parent that
removes it) all occur with something before and after them.  Two files can be two
index files of a directory, or one file in two versions; three times with two to the
second give two versions within a second and one in the next.  One directory's
second index file is itself a directory.  Startup needs two domains for one to
fail after another has been added; its sections hold every reason to give up and
every reason for a checker not to run, and ports coincide by the file, by the
command line, and with those of other programs.

The four violations are disagreements between the code and what its comments
say; each is a finding in `PROJECT.json` with the line that is contradicted.

### Fairness
Only for tasks that have begun: tokio schedules a ready task, the waits of
`proxy_http` and of the handshake are under timeouts, a connection is cut after
60 seconds, and the checker's interval keeps ticking.  So `RequestStep`,
the stores, `Check`, a loop with a connection in hand and a connection's task
are weakly fair.  New requests, new connections, changes of a backend and the
clock are never owed.

In Proxy what is fair is time: `Tick`, the 60 seconds (`Cut`), a timer that is due
(`Overdue(r) /\ BackendFails(r)`), and ready tasks (`Orphan`).  Clients,
backends and the file system owe nothing.  That run does not check for
deadlock, since a connection that has closed and whose requests and tunnels are
over is really over.

In Startup main, the HTTP task and each checker's first tick are scheduled
(`WF_vars(Main)`, `WF_vars(BindHttp)`, `WF_vars(FirstTick(d))`): none of them waits for
anything but the runtime, `bind` does not block, and main's loops are finite.  An
interrupt is never owed.  No deadlock is checked there: the process has ended, or it
waits for connections, which are not part of that module.

## Proofs

TLAPS checks all of it from nothing, with no assumption but the named ASSUMEs of
the modules: `BreakerAssumption`, `BalancerAssumption`, `LimiterAssumption`,
`ConnectionsAssumption`, `HealthAssumption` (constants are natural numbers, thresholds and intervals
positive, sets of tasks finite), `ProxyAssumption`, `RootAssumption` (the root is a sequence of
names, None is none), `PathsAssumption` (segments are strings, ".." too, which
the provers do not know of a literal), `StaticFilesAssumption` (paths are sequences of strings, a
directory is no file, a file that cannot be read has a content of its own) and
`StartupAssumption` (a command line gives the two ports or leaves them out).

* `CircuitBreakerProofs`: `TypeCorrect` (no run repeats it), `OpenOnlyOnFailedChecks`.  The latter
  is not inductive: the store that opens the circuit comes steps after the
  decision.  The invariant `IInv` adds who may have which stores pending
  (`Ownership`), that `failures` never exceeds `streak`, that a pending "open"
  stands on a streak that has reached the threshold, and that each store a
  passing check no longer has pending has had its effect (`PassingProgress`); the
  streak cannot fall while the checker is in `record_failure`, because only the
  checker resets it.  `EarlyOnlyByRace` (`ResetsAreDue`), the counterpart of the violated
  `NoEarlyReset`: what a task that was not `overtaken` has read of the clock lies
  between the last failure and now (`Measured`), so the `u64` difference does not wrap and
  time can only add to it.
* `LoadBalancerProofs`: `TypeCorrect`, `CountsAreGuards` (`ActiveIsInFlight`) by the
  cardinality of the set of guards, one element added or removed per step.
  `AddressStays` (`Affinity`): a search of ip_hash that nobody disturbed has passed
  over unavailable backends only, from the hash's place to its index.
  `PickIsLeastLoaded` (`LeastLoaded`): the best so far is the least of what the scan has
  passed, counts being those at the time unless the task was `raced`.  `SelectFinds`
  (`FindsAvailable`): what a search has passed over was not available throughout, and
  N steps modulo N, from wherever they begin, meet every index (`WalkMeetsAll`).
  `DrawsSpreadEvenly` (`EvenSplit`): while all is calm the indices round_robin has given
  out are the numbers below the cursor, so what a backend has been picked for and
  what selects still have in hand for it is its `Share` of them (`Spread`), a quotient
  of which no two differ by more than one (`Shares`).
* `RateLimiterProofs`: `TypeCorrect`, `RateIsBounded` (`WindowRate`),
  `RateIsGuaranteed` (`NothingLost`).  `WindowRate` needs a stronger statement
  (`Ceiling`): what was granted in the window plus what the bucket holds (refilled up
  to the window's opening, if it was last used before) is within
  the burst and the refill from the window's opening to `last_refill`, with all
  lateness added to the right-hand side; lemmas about products keep the
  arithmetic linear for the provers.
* `ConnectionsProofs`: `TypeCorrect`, `CountsAreExact` (`PerIpCount`),
  `PermitsAreConserved`, `BlockedOnlyByFailures`, `OneSlipAtMost`.  Counts and permits
  are cardinalities of sets of connections, and every step adds an element, takes
  one away, or leaves the sets alone; that it does rests on `Places`: a loop has in
  hand an accepted connection of its own, and every connection has an address.
  A task that is about to block an address has counted enough failures of it
  (`BlockersHaveCounted`), and a connection that slipped was the only one past the
  block list (`SlippedIsOver`).  `AdmissionImplemented` is the refinement: `Spawn` maps
  to `Admit`, `Block` to `Ban`, `ReleaseIp` to `Leave`, every other step to a stutter.  It
  stands on the invariant, which turns counts and permits back into sets, and on
  `TlsPlaces`: only connections of the TLS listener can fail a handshake.
* `HealthCheckerProofs`: `TypeCorrect`, `OpenStaysShut` (`StaysShut`), `DownIsShutOut`
  (`ShutOutInTime`), `MissedRoundsAreSkipped` (`NoCatchingUp`).  The bound on the time
  since a backend's last report depends on where the round is, and on whether the round
  before it kept to the interval: `Within(b, x)` says by cases how old a report may
  be, between rounds, in a round before b's turn and after it.  It is kept by a
  second passing, a round beginning and a check ending, and bounded by
  `LongestGap` in every case.  `Told` uses it twice: for the age of an open circuit,
  and for the time a backend has been down, one gap for each failure counted and the rest
  within bounds.  `Rounds` ties the ticker's deadline to the two last beginnings.
* `ProxyProofs`: `TypeCorrect`, `TimersBeatTheCut`
  (`AnsweredBeforeCut`), `NothingButRedirects` (`RedirectComesFirst`).  `Timing` follows a
  request from the moment it got its backend: what has passed since is at most
  what the first timer could run and what the second one shows.  `Redirected`: a request that
  must be redirected is never found past the redirect.
* `StaticFilesProofs`: `TypeCorrect` (with it: no place outside the root is ever
  resolved), `NotModifiedMeansSame` (`NotModifiedIsTrue`), `NotModifiedSinceMeansSame`
  (`NotModifiedSinceIsTrue`).  The argument follows the file
  a path stands for: the client's copy has its content, or the copy's time, and if
  versions are `spaced` its tag too, do not match it.  A replaced file has a time later than
  any Last-Modified given out; its tag is new because its second is later than that of
  every tag given out, which takes that a later time is in no earlier second
  (`SecondsInOrder`).  `UndisturbedIsServed` (`SteadyIsServed`): what
  a request has found out so far is still so (`Seen`): the index files before the one
  it looks at are not there, and the file it found is the first that is.
  `SafePathCorrect` (`SafePathExact`) and `WafPatternComplete` (`ClimbsAreRefusedFirst`) are
  by induction over the path.  The library's induction theorems take an operator, which no
  backend instantiates; `InductionOver` takes a set instead, from the
  well-foundedness of the numbers.  With it the recursive functions inside `FoldLeft` and
  `FlattenSeq` are shown to exist (`FoldExists`, `FlattenSteps`), so the fold can be followed
  step by step (`WalkSteps`).  One step of the walk is one more step counted
  (`TraceSteps`): a name is put one deeper than where the path stands, a parent takes
  the deepest name away, and at depth 0 it falls out.  For the WAF: in a path without encodings
  and without "../" only the last component can be a parent (`ParentsComeLast`), and such a
  walk stays below the root unless that parent is all there is (`PlainWalk`).
* `StartupProofs`: `TypeCorrect`, `WholeBeforeServing` (`ServesOnlyWhole`),
  `CheckersFindDomains` (`CheckersKnowDomains`).  What is built is a function of how far main
  is (`Visited`, `KeysLoaded`, `StaticBuilt`), and nothing is spawned or bound before.

Only model-checked:
everything under fairness (`Recovery`, `Detection`, `BlockedEndsOutside`, `RequestsEnd`,
`ComesUp`), which is out of the prover's reach as is ENABLED.

No module has RECURSIVE operators.

## Plan

Done: every component of the table but the error pages, their composition where
state is shared (accept loops with the connection counts, requests with the health
checker's reports, the WAF with `safe_path`, main with its tasks), the refinement of
Admission, and the proofs above.  What could come next:
1. an abstract breaker (a method is one step) that CircuitBreaker implements as
   far as its races allow, so that LoadBalancer and HealthChecker rest on it;
2. Proxy with Connections: HTTP/2 streams that outlive their connection's permit
   and count;
3. a second client in StaticFiles.

### Not modelled
* `error.rs`: fixed responses, no state.
* Parsing and formatting: YAML, URLs, HTTP heads, dates, percent-encoding byte by
  byte, MIME types, the text of a directory listing, log lines.  Where a decision
  depends on them, their result is an input or a free choice.
* `add_forwarding_headers`, `inject_extra_headers` and the rewriting of URLs in
  `proxy.rs`: they change data on the way through and no control.  This is why the
  request pipeline is listed as partly modelled.
* f64 rounding in the limiter; its arithmetic is exact here.
* The libraries: tokio, hyper, rustls, DashMap are modelled by what curf uses them for.

## Noted while reading

Differences between the code and its documentation, or surprises, that no run settles:
* The breaker: `load_balancer.rs:87` says "allow one probe", but a reset closes the circuit, so
  every request is let through until CB_THRESHOLD checks have failed, and two that find the
  circuit open and old enough at once (`JudgeElapsed` of both before a `Store`) both reset it.
* Load balancing and health: any response counts as a success (`proxy.rs:239`), a
  500 too, so a backend that fails its checks but answers requests is not
  skipped as `health_check.rs:5` and CHANGELOG.md:17 say.  A backend with an https URL
  fails every check (`health_check.rs:102`).  An `interval` of 0 panics in the health
  checker's task (`health_check.rs:32`); with `panic = "abort"` (Cargo.toml:52) that ends
  the whole process of a release build, after its listeners may have begun to serve.  The comment at `load_balancer.rs:207` speaks of
  storing None; a balancer without backends is stored.  `load_balancer.rs:30` calls the
  active count the requests "currently being served", but the guard is dropped
  when the head of the response, or a 101, is returned.
* Timeouts: `config.rs:45` calls `timeout_secs` the "Per-request timeout" (README.md:88 "Request
  timeout"), but connecting and waiting for the response have it each (`proxy.rs:217`,
  `proxy.rs:234`), so a request may take twice as long.  `AnsweredBeforeCut` reckons with both.
* Certificates and listeners: `ssl.rs:68` offers HTTP/2, but `handle` finds the domain by the
  Host header only (`proxy.rs:91`), which HTTP/2 requests need not carry.  Without TLS a
  failed bind of the HTTP port leaves a process without a listener; with equal
  ports which listener gets it is a race.  Domain names of the configuration are not
  lowercased, while that of a request is.
* Tunnels: README.md:26 says that WebSockets work.  A WebSocket request is answered with 101
  and its tunnel waits for the client's upgrade, but `main.rs` serves connections without
  upgrades (`main.rs:249`, `main.rs:334`), so the tunnel's task fails after the 101.
* Headers: extra headers are not added to redirects, refusals, errors or a 101.  A redirect
  drops the port of the Host header.
* Configuration: `config.rs:88` says all WAF flags default to true; `block_empty_user_agent`
  is false (`config.rs:112`, `config.rs:124`).
* Static files: `static_files.rs:178` says "never go above root" and CHANGELOG.md:48 that all `..`
  components are rejected; a path may leave the root and come back, and one that
  stays inside is served unless the WAF refuses it first.  `SafePathExact` says
  where such a path leads if it is served, and not that it should be.  The WAF sees the path as it was sent, so encoded parents and
  a last ".." are left to `safe_path`.  If-Modified-Since with the Last-Modified of a
  file whose time is not a whole second never gives a 304, since only one side is cut;
  an If-None-Match that does not match does not keep If-Modified-Since from giving
  one.  HEAD answers 200 where GET goes on to the backend (an index that is a
  directory, a file that cannot be read), without Last-Modified.  An index name that is a directory
  ends the search for one.
