# A TLA+ model of go_proxy_mux

`go_proxy_mux` is a forward proxy: it authenticates its clients, picks one of
several upstream proxies for each request, forwards plain requests and relays
CONNECT tunnels.  These modules model the parts of it whose correctness depends
on concurrency, on the order of events and on limits, check them with TLC and
prove, with TLAPS, what can be proved for every size of the system.

    tlc -config MCListener.cfg MCListener        # a run
    tlapm ListenerProofs.tla                     # a proof

`PROJECT.json` lists the runs, the mutants (for every checked property a
plausible bug that it catches), the source lines of every definition, the
hazards, the findings and the theorems.


## 1. Inventory

The state is spread over small objects, each with its own mutex, which the
handler goroutines of `net/http` share.

| Component | State | Operations | Shared with |
|---|---|---|---|
| Balancer (`internal/balancer`) | cursor, one exclusion deadline per upstream | `Next(exclude)`, `MarkFailure`, `MarkSuccess` | every request |
| Concurrent limiter (`limits.go`) | total, count per host | `tryAcquire`, release (once) | accept loop, connection closers, CONNECT handlers |
| Limited listener (`limits.go`) | the connections it handed out | `Accept`, `Close` | `net/http`, relays, idle timers, `closeAll` |
| Request handlers (`server.go`, `http.go`, `connect.go`) | local: selected upstream, attempt | `ServeHTTP`, `forwardRequest`, `handleConnect` | balancer, tunnel limiter, auth limiter |
| Auth failure limiter (`auth_limit.go`) | map and list of records, each a count, a window and a block | `attempt` | every request |
| HTTP exchange (`http.go`, `http_body.go`) | setup state (CAS), time of the last read | `doHTTPRequest`, `copyHTTPResponse` | its timer, its watchdog, the client's context |
| CONNECT setup (`connect.go`) | one connection, plain then TLS | `dialConnect`, `readConnectStatus` | the context callback that closes it |
| SOCKS dialer (`internal/socks`) | one connection | `DialContext`, `connect4`, `connect5` | the context callback |
| Tunnel registry (`tunnel.go`) | closing flag, active pairs, WaitGroup | `track`, release, `closeAll`, `waitFor` | tunnels, `Run` |
| Relay (`tunnel.go`) | two copying goroutines, idle timer | `relay`, `relayHTTP1`, `relayHTTP2` | registry, client, upstream |
| Server lifecycle (`run.go`) | where `Run` is, its shutdown deadline | `Run` | registry, `net/http` |
| Headers (`headers.go`), Basic authentication (`auth.go`) | none | `removeHopHeaders`, `isAuthorized` | |
| Transports (`server.go`) | `net/http`'s pools | `NewProxyServer`, `closeIdleConnections` | every forwarded request |
| Configuration (`internal/config`) | none after start | load, merge with the environment, `Validate` | `Run`, which validates again |
| Command (`cmd/go_proxy_mux`) | none | flags, load, `Run` until a signal | |

How they interact.  The listener admits a connection or closes it.  `net/http`
calls `ServeHTTP`, which asks the auth limiter, takes a first upstream from the
balancer and enters one of the two handlers.  `handleConnect` takes a tunnel slot.
Both handlers make at most two attempts; after each they report to the balancer
and perhaps take an alternate from it.  A CONNECT that succeeds registers with
the tunnel registry and relays.  `Run` closes the registry, shuts `net/http` down
and waits for the tunnels.

What is hard, and what makes each component correct:

* **Balancer.** First attempts and retries with an exclusion move one cursor.
  Correct: no selectable upstream is passed over twice; an exclusion has a
  failure of that upstream behind it.
* **Limiter and listener.** Several goroutines close one connection.  Correct:
  counters exact, sockets within limits, no slot lost, refusal only at a limit.
* **Handlers.** A failure, the client's departure and other requests' reports
  race.  Correct: bounded failover without replay of bodies, the right upstream
  charged, an answer for every client that is still there, no slot kept.
* **Auth limiter.** Records outlive their windows and blocks and are evicted in
  the order of use.  Correct: blocks justified, announced and ended as promised.
* **Registry, relay, `Run`.** Registration races with closing; clients may stop
  reading.  Correct: no tunnel escapes, waiting is exact, `Run` returns.
* **HTTP exchange.** The setup timer races with the headers, the idle watchdog with
  the copy, and the client may stall or leave at any point.  Correct: one of timer
  and headers wins, every context, body, timer and goroutine ends, a truncated
  body never looks whole, only end-to-end fields pass.
* **CONNECT setup, SOCKS dialer.** A callback closes the connection while it is set
  up, and runs late or not at all.  Correct: a failed setup closes its socket, a
  returned connection is left alone and without deadlines, the upstream's answer
  is read to its last byte and not further, the request means what was asked.
* **Configuration.** Four sources are merged setting by setting and validated
  once merged.  Correct: precedence, no setting silently ignored, no mixture of
  upstreams, and what is accepted is what the other components rely on.

The hazards behind these, each at its line, are in `PROJECT.json`.


## 2. Modules

| Module | Models | Extends or uses |
|---|---|---|
| `Balancer` | `balancer.go`, as operators over its two variables | |
| `RoundRobin` | the balancer under arbitrary callers | `Balancer` |
| `RoundRobinProofs` | proofs about it | `RoundRobin` |
| `ConcurrentLimiter` | `concurrentLimiter`, as operators | |
| `SlotPool` | abstract: admission without counters | |
| `LimiterProofs` | lemmas about the limiter's counting | `ConcurrentLimiter` |
| `Listener` | `limitedListener`, `limitedConnection` | `ConcurrentLimiter`, implements `SlotPool` |
| `ListenerProofs` | proofs about it | `Listener`, `LimiterProofs` |
| `Failover` | `ServeHTTP`, `forwardRequest`, `handleConnect` | `Balancer`, `ConcurrentLimiter` |
| `FailoverProofs` | proofs about it | `Failover`, `LimiterProofs`, `SlotPool` |
| `AuthPolicy` | abstract: what the login limit promises | |
| `AuthLimiter` | `authFailureLimiter`, 407 and 429 answers | implements `AuthPolicy` |
| `AuthLimiterProofs` | proofs about it | `AuthLimiter` |
| `TunnelRegistry` | `tunnelRegistry`, as operators | |
| `Shutdown` | `relayHTTP1`, `relayHTTP2`, `relay`, `Run` | `TunnelRegistry` |
| `ShutdownProofs` | proofs about it | `Shutdown` |
| `Headers` | `removeHopHeaders`, pure | |
| `HTTPExchange` | one request through `forwardRequest`, `doHTTPRequest`, `copyHTTPResponse` | `Headers` |
| `HTTPExchangeProofs` | proofs about both | `HTTPExchange` |
| `Socks` | messages and checks of `socks.go`, and their decoder, pure | |
| `DialConnect` | `dialConnect`, `readConnectStatus`, `socks.DialContext` | `Socks` |
| `ConfigSources` | `LoadConfigWithEnv`, `applyEnvOverrides`, `Validate`, the start of `Run` | |
| `Startup` | the process from its configuration to one upstream connection | `ConfigSources`, `DialConnect` |
| `StartupProofs` | proofs about all four | `Startup` |
| `MC*` | instances for TLC | |

An operation that holds a mutex from its first to its last statement is one
operator.  A goroutine has a program counter (`pc`, `main`) and one action per
access to shared state or blocking call; statements that touch only the
goroutine's own variables belong to the action before them.

**Time.** The code compares a clock with stored instants.  Only the distances
matter, so the modules keep those: `unhealthyFor[i]` is what is left until
`unhealthyUntil[i]`, a record's `age` is `now - windowStart`, capped at the window
where the comparison no longer changes, `blockedFor` is what is left of a block.
`Tick` moves them all.  A timer is an action that may happen at any moment
(`IdleFires`, `Expire`, `TimerFires`, `ContextEnds`).  Only the idle watchdog of a
response measures: there `Tick` is a step, taken while the handler is blocked.

**Balancer.** `Next(exclude)` is `Select(exclude, i)` for the `i` it returns, or
`SelectNone`.  The circular scan is its result: the available upstream with the
least `Offset` from the cursor.

**Listener.** `admission` is "pending" between `Listener.Accept` and `tryAcquire`;
`spent` is the connection's `sync.Once`; `closing[c]` holds the goroutines between
`Conn.Close` and `once.Do`.  A connection object is reused only when no goroutine
refers to it, so an instance of few objects stands for endless traffic.

**Failover.** Every handler starts at "serve", with the balancer in any state that
earlier traffic can leave; a handler is not used again.  The locations of `pc` are
the points between shared accesses: "serve"
(balancer), "admit" (tunnel limiter), "attempt", "failed" (context check), "mark"
(`MarkFailure`), "again" (`Next` for the alternate or the error answer),
"succeeded" (`MarkSuccess`), "stream" (body or tunnel), "release" (deferred slot).
A 407 response goes to "mark" without a look at the context, as in the code.
`reply` "relayed" leaves the answer to the upstream's response or to the tunnel.
GET stands for GET and HEAD, POST for every other method.

**HTTPExchange.** Failover's attempt opened up for one request; what the balancer
answers is left open (`Retry`, after which a new response arrives, and `GiveUp`).
`setupState`, `timer`, `cause` and `body` belong to an attempt, since the timer's
goroutine of the first may still run during the second.  `cause` is `context.Cause`: the
first cancellation wins.  The timer's callback is three actions (it starts, it claims
with `CompareAndSwap`, it cancels); the handler's claim, `timer.Stop` and its branch are
others, so each can come between.  `Read` includes the store of `lastRead`; `Watch` is
the watchdog's timer case, `WatchdogStops` its stop case, `Join` the deferred wait for
it.  When the handler is done, `reply` says how `net/http` ends the response:
"complete", or "aborted" by the panic.  `arrived` and `sinceArrival` are history: they
tell what came from the upstream from what was read.

**Headers.** A header is a function from field names to the names listed in its
values, which is all that `removeHopHeaders` looks at.

**DialConnect.** `connection` is the captured variable; line 145 assigns an interface
value, two words, without synchronisation with the callback that reads it, so
the assignment is two actions and a callback in between gets "torn": it may close
the socket, fail, or end the process.  `callback` follows `context.AfterFunc` and
`stopCancel`, which does not wait.  The deferred calls are three actions in their
order.  `SetupError` is `setupError`; the three `SetDeadline` calls of `dialConnect`
return their error without it, so an expiry that meets one of them is answered
with 502 instead of 504, and the model does the same (`SaysNothing` names them,
`InterruptionIsReported` shows that there is no other such return).  `ReadLine` is
one `bufio.Reader.ReadLine`: its size, and what comes after it: the rest of a line
longer than the buffer, of which a trailing CR is held back, a line end of two bytes
or one, or the end of the stream, which ends a line without any.  Upstreams answer
anything.  `wire`, `announced`, `consumed` and `bare` are history.
A job with path "forward" is the dial of a SOCKS upstream's transport.  It asks
for "tcp" whatever `proxy.network` says, because the parameter `network` of the
function at server.go:94 hides the configured one; README.md line 133 does not
mention that exception.  `AcceptedSettingsHold` speaks of tunnels only: the shadowing
is plain to see in the source, and no run is spent on it.

**Socks.** Requests are sequences of bytes.  `Understood4`, `Understood5` and
`UnderstoodLogin` read them as the protocols say, independently of how they were built.
A byte has `Byte` values, 256 in the code.

**ConfigSources.** `settings` has all 40 scalar settings under their variable names,
with the defaults of `Default`; `applyEnvOverrides`'s tables are the sets of names.
Names that are not known come from the env file as well as from the environment.
The checks of `Validate` are grouped by what they protect.  Files (certificate, key,
CA) may be usable or not each time they are read.  `values` goes away when the
function returns, `sources` (history) when the server runs.

**AuthLimiter.** The three ways through `attempt` are three actions.  `recency` and
`promised` are history: they repeat what happened from the client's point of view
and no guard reads them.  `recency` is a relation, the pairs of hosts of which the
second was seen since the first was seen last, so it holds the order in which
hosts were seen and nothing of the list.

**Shutdown.** `up` and `down` are the copying goroutines of `relay`, `pairClosed` says
that `closePair` ran, `stalled` that the client does not read, which can block the
write of the 200 (`Greet`, before any idle timer runs) and of the tunnel's bytes.
A handler is "aborted" when no tunnel came of it: the setup or `Hijack` failed, and
the client's connection is still the server's.  `gone` is the
client's departure, or `Server.Close` breaking its connection.  What `net/http`
does in `Shutdown` and `Close` is external: `Shutdown` waits for handlers of
connections that were not hijacked (`Served`), `Close` breaks these.  That `Run`
also receives `Serve`'s result is left out: `Serve` has returned by then.


## 3. Runs

| Run | Instance | What it shows |
|---|---|---|
| `round_robin` | 4 upstreams, cooldown 2 | With two upstreams cooling down and one excluded by a retry, the fourth is still not passed over twice. |
| `listener` | 4 connections, 2 hosts, limits 3 and 2, 2 closers | Both kinds of refusal happen; two goroutines race to close one connection; refinement of `SlotPool`. |
| `failover` | 2 requests of 8 kinds, HTTP and SOCKS4 upstream, 1 tunnel per host, random selection, any earlier state of the balancer | Failover bounded and charged correctly, answers truthful, every slot returned, every request settles. |
| `auth_limiter` | 3 hosts, 2 records, 3 failures, window 3, block 2, second 2 | Eviction happens, windows and blocks lapse at their boundaries; refinement of `AuthPolicy`. |
| `shutdown` | 2 tunnels, each of either HTTP version | All interleavings with `Run`, safety. |
| `shutdown_live` | 1 tunnel of either HTTP version | `Run` returns, the tunnel ends after a signal, and when idle unless it is an HTTP/2 stream that is not read. |
| `http_exchange` | body of 3 pieces, 2 buffered, idle timeout 2, headers that list each other | The races of setup timer, watchdog, client and copy; no leak, no truncation that looks whole, headers, and no upstream can hold the handler. |
| `startup` | 4 YAML files, 8 env files, 9 environments, 11 destinations, bytes of 8 values, a header limit of 8 and a buffer of 3 | Precedence and rejection in every combination, of unknown names of either kind too; then, for every upstream accepted, a connection with the callback at every point. |

Four runs show where the code does something else than its README says.

| Run | README | Code |
|---|---|---|
| `failover_exclusion` | line 188: a failure excludes an upstream for `failover_cooldown` | a success that was under way ends the exclusion |
| `failover_uncontacted` | line 20: exclusion after a network or CONNECT setup failure | a bad destination port excludes a SOCKS upstream nobody contacted |
| `tunnel_idle_http2` | line 192: a tunnel closes after `tunnel_idle_timeout` | not while an HTTP/2 client grants no flow control |
| `body_idle` | line 133: a response is closed only when no body bytes arrive for the interval | it is also closed when the client does not read for the interval |

A bodyless GET over HTTP/2 gets no alternate either (README line 21): `net/http`'s
HTTP/2 server never leaves `Body` nil or `http.NoBody`, as `http.go:28` asks.  Such
requests ("wrapped") are among those of `failover`, which shows that they are not
repeated; no run of its own is spent on the sentence of the README.

**Bounds.** There are no bounds on the length of a behaviour: every state space is
finite by itself and explored completely.  What is small is the number of participants.
Two requests are enough for every pair of shared accesses to interleave, since each
handler interferes with another only through the balancer and the limiter; two upstreams
make one the alternate of the other and allow "nothing available".  Four upstreams are
the least with an excluded, a cooling, a served and a waiting one.  Three hosts with two
records are the least with an eviction; with a second of two ticks a block has whole and
broken seconds left.  Cooldowns of one or two ticks suffice to tell "excluded", "about
to return" and "available" apart.

A body of three pieces with a buffer of two and an interval of two ticks is the
least in which a read falls between two ticks, a piece waits while a write is
stalled, and the watchdog waits for a rest.  Two attempts are all there are.  In
`startup` a header of eight bytes is the shortest that holds a status, a field and
the empty line, and a buffer of three the least that splits a line and holds back a
CR; bytes of eight values let a name
reach, and exceed, what a length byte can say.  The configuration files are few,
chosen so that each rule of `readEnvValues`, `applyEnvOverrides` and `Validate` that
the properties are about both accepts and rejects.

**Symmetry** is used where the participants are interchangeable (connections,
hosts, closers, tunnels) in `listener`, `auth_limiter` and `shutdown`, which have no
liveness properties.

**Deadlock** is checked in `round_robin` and `auth_limiter`, which never stop.  The other
systems do: `Accept` failed, every handler returned, `Run` returned, the one
request or connection is done, or the process refused its configuration.

**Fairness.**  In `failover` a handler's own steps are weakly fair: an attempt
ends by `proxy.timeout`, and mutexes are held for a few statements.  `EndStream` is
not fair, as nothing bounds a write to a client that does not read; the property
stops at "stream" for that reason.  In the runs of `MCShutdown` the steps of `Run`, of
the handlers, of the timer of `shutdownCtx` and of the context callback are weakly
fair, as goroutines that can run do; a copying goroutine is fair only once its
pair is closed, since then its read fails, and its blocked write as described
above does not.  In `http_exchange` the handler, the timer's callback, the watchdog
and the clock are weakly fair, in `startup` the steps the goroutine takes by itself
or because of an ended context, and the callback.  Upstreams are never fair: they
need not accept, answer, send or end.  Neither are clients: they need not read,
leave or return.


## 4. Proofs

Every invariant and every action property that a passing run checks is proved,
and both refinements are; what is left to TLC is named at the end.  Assumed are
only the modules' named `ASSUME`s: what `config.Validate` accepts, that connections,
requests, hosts and tunnels are finitely many, and the shape of what comes from
outside.  `ConfigAssumption` says what the decoders of YAML, numbers and durations
return: a number or duration that parsed is an integer, a credential a
sequence of bytes.  `DestinationAssumption` says that an IPv4 address has four bytes,
an IPv6 address sixteen, and nothing about a name or about the range of a port.
`StartupAssumption`: the limit of a credential in `Validate` is what a length byte
can hold.

`RoundRobinProofs`, for every number of upstreams and every cooldown:

* `TypeCorrect`: the cursor stays an index, no exclusion exceeds the cooldown.
* `FairRotation`: with round robin, no upstream is served twice past a waiting
  one.  `NotOvertaken` is not inductive by itself, since nothing in it says where
  the cursor is.  `Behind` adds that j was served before the waiting i only if the
  scan now meets i before j.  A selection moves the cursor just past the pick,
  which shifts everything after it forward by one distance (`OffsetAfterSelect`)
  and sends the pick to the end, so the order of the others is kept.

`ListenerProofs`, for every number of connections, hosts and goroutines:

* `SlotsExact`, `NoLostSlot`, `SocketsBounded`, `TypeCorrect`.  The inductive invariant
  `Inv` joins types, exact counters, no lost slot and `CloseOrder`: the socket is
  closed before the slot is released, and only admitted connections are closed by
  `limitedConnection.Close`.  Without `CloseOrder` an accepted connection could find
  its slot already spent.  `AcquireCounts` and `ReleaseCounts` of `LimiterProofs` are
  the limiter's lemmas: counting a set with one holder more or less.  That the counters are
  natural numbers is a consequence of their being exact, not an assumption.
* `Refinement`: the listener implements `SlotPool`; each action maps to one step of
  the pool, or none.  `RoomIsCanAcquire` is the bridge: the two comparisons of
  `tryAcquire` decide whether the pool has room.

`HTTPExchangeProofs`, for every buffer, length of a body, idle timeout and header:

* `HeadersFiltered`.  `RemovalIsExact` is about one header with any lists: the fields
  that `removeHopHeaders` leaves are determined by what `Connection` lists and by
  what it leaves of `Proxy-Connection` (`FieldsLeft`, `ProxyConnectionLeft`).
* `TypeCorrect`, `BodySpared`, `LeaksNothing`, `TruncationShows`.  None of these is
  inductive.  The invariant `Inv` adds why they hold: `Race` (the timer cancels only
  an attempt whose state it has set to 2, and the holder of a response has set it
  to 1), `Holding` (what each attempt still holds at each location), `OnTime` (the
  rest of the watchdog's timer and the time since the last read make up at most
  the interval), `InStep` (what is written against what is read) and `Forwarded`.
  Each part is kept by every step, one lemma per part.
* `NobodyForgotten`, the safety half of `WaitsOnlyForTheClient`: whoever an upstream
  keeps waiting has the setup timer or the watchdog running, or its context has
  ended.  `Watched` is the part of `Inv` for it: the timer is stopped only by an
  attempt that has won its race, the watchdog only by the copy it guards.

`FailoverProofs`, for every number of requests, upstreams and hosts, either
algorithm and every kind of request:

* `FailoverBounded`, `RepliesTruthful`.  Both say how a handler ends; `Inv` says what
  leads there: what is selected (`SelectionIsUpstream`), how the loop variable, the
  attempts made and the selection belong together (`AttemptsAreCounted`), what each
  location tells of the last outcome (`OutcomeLeadsHere`), and that answers come last
  (`AnswersComeLast`).
* `TypeCorrect`, `TunnelSlotsExact`.  The limiter's lemmas again, here for the handlers
  between `tryAcquire` and `releaseTunnel`, whose set only those two steps change.
* `OnlyFailuresAreCharged`, `RefusalsHaveNoAlternate` are action properties: one step
  from a state of `Inv`.  The second ties both kinds of 502, before any attempt and
  instead of a second one, to what the balancer has at that very step.
* `TunnelRefinement`: the CONNECT handlers implement `SlotPool` as the listener does.
  No run checks this one; the listener's run checks the pool.
* `HandlersEnd`: a variant, at most 12, that each step of a handler lowers, and no
  step of another request raises.  It is what `EveryRequestSettles` needs beside
  fairness.

`AuthLimiterProofs`, for every number of hosts and all limits, windows and blocks:

* `TypeCorrect`, `LeastRecentFirst`, `RetryAfterIsExact`.  `WithoutHost` and `MovedToBack`
  say what removing and moving do to a list without repetition, `SecondsCover` what
  rounding up does, by division alone.  `BelowLimit` is the part of `Inv` that no
  property states: an unblocked record counts less than `max_failed_attempts`, so
  that the next failure blocks at the limit and not past it.
* `BlocksHold`: among the steps only `Tick` lowers a block, and only an eviction drops
  a blocked record; it drops the front, which `LeastRecentFirst` makes the least
  recently seen.
* `PolicyRefinement`: the limiter implements `AuthPolicy`.  `Standing` maps a record to
  what the policy keeps; a record that lapsed, was evicted or never existed maps to
  the same, so those steps are the policy's or stutter.
* `BlocksAreEarned`: what the policy means for a host that shares the table with
  others.  `FailureCounts` takes the limiter's failure over from the refinement,
  `NothingCounts` says that every other step leaves or forgives what a host has.

`ShutdownProofs`, for every number of tunnels of either HTTP version:

* `WaitExact`, `ReleasedClosed`, `NoneEscapes`, `NoAddWhileWaiting`, `TypeCorrect`.  The
  heart of `Inv` is `CloseAllMissesNone`: while `closeAll` goes through its slice, a
  registered tunnel is closed or still in the slice, since `closing` was set in the
  critical section that took the slice (`RegistryClosesOnce`).
  `PairClosesBeforeRelease` is the order of the deferred calls.

`StartupProofs`, for every set of files, variables and destinations and every size of
limits, buffers and bytes:

* `Sources`, `OneOrigin`, `AcceptedHold`.  `ConfigInv` says for each stage what
  `settings` and `upstreams` are in terms of the sources that were read; `GivenNames`
  treats the env file and the environment alike, so that no name of either is without
  effect.  `CredentialsFit` joins the two halves: what `Validate` accepts, no handshake
  rejects.
* `OnlyFailedClose` and the action property `InterruptionsReported`, from `Progress` and
  `Closing`, which relate the goroutine's location, the callback, the context and the
  socket.
* `SetupsInterrupted`, `RaceNeedsTLS`, from `Watching`: the callback is armed from
  `context.AfterFunc` until `stop()`, an ended context finds it armed or running, and it
  reads a torn variable only while `dialConnect` assigns the TLS connection.
* `SetupsEnd`: a variant for the goroutine, at most the header limit and one buffer and
  18 more.  `ReadingCosts` is why an upstream that sends short or empty lines cannot
  keep it reading.
* `HeaderBounded`, from `Budget`: what was sent and what is left make up the limit, or
  less when a line ended in a bare LF.
* `TunnelStartsRight`, from `Frame`: what the server announced is what was read and what
  the location says is still to be read.
* `TargetsSeen`: a SOCKS server's decoder, applied to the bytes of `connect4` and
  `connect5`, gives back the destination, the SOCKS4 user and the SOCKS5 credentials.
  `Asked` keeps that nothing is sent for a destination or a user name that was rejected;
  `Read4` and `Read5` are the argument about the messages, from lemmas about where the
  parts of a concatenation lie (`Cuts`, `Middle`, `ZeroEnds`, `PortIsWritten`).

**What the proofs changed.**  `BoundedFailover` used to say that whoever is tried
twice has no body; the proof stopped at a CONNECT with a body, which `handleConnect`
retries like any other (it sends no body to an upstream), and which the instance's
traffic does not contain.  The property now speaks of GET there.  Some definitions got a form
the provers can work with, without another meaning: `Without` is a function instead
of a selection, `recency` a relation instead of a list, `Over` replaces `@@`, `NoFile`
names the empty path, `MaxCount` the bound of the variables' indices.

**Only model-checked**: the liveness properties (`EveryRequestSettles`, `RunReturns`,
`TunnelsEndAfterSignal`, `IdleTunnelsEndIfRead`, `WaitsOnlyForTheClient`,
`EndedContextEndsSetup`), since TLAPS proves neither fairness arguments nor `ENABLED`
here, and the four disagreements with the README, which are counterexamples.  For
three of the liveness properties the parts within reach are proved: that whoever
waits is watched (`NobodyForgotten`, `SetupsInterrupted`), and the variants
(`HandlersEnd`, `SetupsEnd`).  What fairness adds, that the watcher and the goroutine
do run, is checked only; so is that a selection finds an upstream whenever one is
available, as that a least offset exists takes an induction.  The
listener's `NoSlotLost`, the balancer's `TypeOK` and the tunnels' refinement are the
other way round: proved for every size and not repeated in a run.  Induction over
data (what a recursive definition computes for every input) is beyond the
installed provers; no model in these proofs needs it, as sequences are only
concatenated, cut and indexed.


## 5. Not modelled

* Bytes: contents of requests, responses and tunnels, TLS records, framing of
  HTTP.  The SOCKS messages are the exception.
* `net/http` itself: connection pools, TLS and proxies of a transport, redirects
  (off), header parsing, HTTP/2 streams, except as described under Shutdown.
* Basic authentication (`auth.go`): a pure comparison of digests.  Its verdict is
  an input of `AuthLimiter` and of `Failover`.
* The half-close of a tunnel and the resets of its idle timer by traffic: a
  tunnel is idle or is not.
* The syntax of YAML, numbers, durations and URLs: a value parses or it does not,
  a URL has its parts.  Name resolution, and the contents of certificates.
* The flags of the command, log lines and the wording of errors.


## 6. Plan

Modelled: every component but those above.  What could still be composed is
`Failover` with the login limit's verdicts and the listener's slots in one system,
if its state space allows.

What could still be proved:

1. That `SlotPool` never exceeds its limits, as a theorem of the pool, so that the
   listener and the tunnels inherit it by their refinements; `SocketsBounded` and
   `TunnelSlotsExact` say it of each directly.
2. `Select` and `Available` as lemmas of the balancer, so that `RoundRobinProofs` and
   `FailoverProofs` share them as they share the limiter's.
