------------------------------ MODULE Failover ------------------------------
(***************************************************************************)
(* The life of the client requests in ProxyServer: ServeHTTP, then         *)
(* forwardRequest or handleConnect, for requests that run concurrently and *)
(* share the balancer and the tunnel limiter.  Every access to shared      *)
(* state and every call that can block is a step of its own; code that     *)
(* only touches the request's own variables is part of the step before it. *)
(*                                                                         *)
(* An attempt (doHTTPRequest, dialConnect) is one step whose outcome is    *)
(* chosen among those the code can return; the bytes behind it are         *)
(* abstracted.  r.Context() is gone[r]: once the client has left it stays  *)
(* cancelled.                                                              *)
(***************************************************************************)
EXTENDS Balancer, FiniteSets, Sequences

CONSTANTS
    Requests,         \* handler goroutines, one for each request
    Clients,          \* client hosts, the keys of the tunnel limiter
    Traffic,          \* the requests clients send, records of RequestKind
    Scheme,           \* scheme of each upstream's URL
    MaxTunnels,       \* proxy.max_tunnels
    MaxTunnelsPerIP   \* proxy.max_tunnels_per_ip

\* What a request is to the handlers.  dest says how its destination fares:
\* "invalid" fails the handler's validation, "badport" is a port outside
\* 1 .. 65535 (rejected for CONNECT only), "unsupported" cannot be expressed
\* in SOCKS4 (an IPv6 address).  body is "none" when r.Body is nil or NoBody,
\* "wrapped" when the body is empty but is another reader (net/http's HTTP/2
\* server always wraps it), "some" when there is content.
RequestKind ==
    [client : Clients,
     method : {"CONNECT", "GET", "POST"},
     body   : {"none", "wrapped", "some"},
     dest   : {"good", "invalid", "badport", "unsupported"}]

ASSUME FailoverAssumption ==
    /\ IsFiniteSet(Requests)
    /\ Traffic \subseteq RequestKind
    /\ Scheme \in [Upstreams -> {"http", "https", "socks4", "socks5"}]
    /\ MaxTunnels \in Nat \ {0}
    /\ MaxTunnelsPerIP \in 1 .. MaxTunnels

VARIABLES
    pc,          \* where each handler is
    req,         \* the request it serves
    gone,        \* r.Context().Err() != nil
    selected,    \* selected.Index
    attempt,     \* the loop variable attempt
    outcome,     \* what the last attempt returned
    reply,       \* the status the handler chose, "none" before; "relayed" once
                 \*   the answer is left to the response or to the tunnel
    tried,       \* history: upstreams attempted, in order
    tunnelTotal, tunnelPerIP    \* ps.tunnelLimiter

course      == <<req, gone, selected, attempt, outcome, tried>>
requestVars == <<pc, reply, course>>
tunnelVars  == <<tunnelTotal, tunnelPerIP>>
shared      == <<balancerVars, tunnelVars>>
vars        == <<requestVars, shared>>

TunnelLimiter == INSTANCE ConcurrentLimiter WITH
    Keys <- Clients, MaxTotal <- MaxTunnels, MaxPerKey <- MaxTunnelsPerIP,
    total <- tunnelTotal, perKey <- tunnelPerIP

IsConnect(r) == req[r].method = "CONNECT"
IsSocks(i)   == Scheme[i] \in {"socks4", "socks5"}

\* Mutant: only ContentLength is looked at, so a wrapped empty body passes.
MutantCanRetry(r) == IsConnect(r) \/ (req[r].method = "GET" /\ req[r].body # "some")

\* canRetry of forwardRequest; handleConnect may always retry.
CanRetry(r) == IsConnect(r) \/ (req[r].method = "GET" /\ req[r].body = "none")

Locations ==
    {"serve", "admit", "attempt", "failed", "mark", "again", "succeeded",
     "stream", "release", "done"}

Outcomes ==
    {"none", "ok", "407", "error", "timeout", "unsupported", "uncontacted",
     "cancelled"}

Replies == {"none", "relayed", "400", "407", "429", "502", "504"}

\* net/http starts a goroutine for each request.  What earlier requests left
\* behind is a cursor and exclusions; random selection never moves the cursor.
Init ==
    /\ BalancerTypeOK
    /\ Algorithm = "random" => current = 0
    /\ TunnelLimiter!LimiterInit
    /\ pc = [r \in Requests |-> "serve"]
    /\ req \in [Requests -> Traffic]
    /\ gone = [r \in Requests |-> FALSE]
    /\ selected = [r \in Requests |-> NoExclude]
    /\ attempt = [r \in Requests |-> 0]
    /\ outcome = [r \in Requests |-> "none"]
    /\ reply = [r \in Requests |-> "none"]
    /\ tried = [r \in Requests |-> <<>>]

Goto(r, l) == pc' = [pc EXCEPT ![r] = l]

\* The handler writes status s and returns; a tunnel slot it holds is then
\* released by its deferred call.
Answer(r, s, l) == reply' = [reply EXCEPT ![r] = s] /\ Goto(r, l)

-----------------------------------------------------------------------------
(* ServeHTTP *)

\* The authentication check answers 407, or 429 to a blocked host.  Its
\* verdict is AuthLimiter's business.
Unauthorized(r) ==
    /\ pc[r] = "serve"
    /\ \E s \in {"407", "429"} : Answer(r, s, "done")
    /\ UNCHANGED <<course, shared>>

\* balancer.Next(-1), then the validation that opens both handlers.  Their
\* checks of the HTTP version and of http.Hijacker, which no request served by
\* net/http fails, are left out.
Invalid(r) == req[r].dest = "invalid" \/ (IsConnect(r) /\ req[r].dest = "badport")

SelectFirst(r) ==
    /\ pc[r] = "serve"
    /\ \E i \in Upstreams :
           /\ Select(NoExclude, i)
           /\ selected' = [selected EXCEPT ![r] = i]
    /\ IF Invalid(r)
       THEN Answer(r, "400", "done")
       ELSE /\ Goto(r, IF IsConnect(r) THEN "admit" ELSE "attempt")
            /\ UNCHANGED reply
    /\ UNCHANGED <<req, gone, attempt, outcome, tried, tunnelVars>>

NoUpstream(r) ==
    /\ pc[r] = "serve"
    /\ SelectNone(NoExclude)
    /\ Answer(r, "502", "done")
    /\ UNCHANGED <<course, tunnelVars>>

\* tunnelLimiter.tryAcquire in handleConnect.
AcquireTunnel(r) ==
    /\ pc[r] = "admit"
    /\ TunnelLimiter!Acquire(req[r].client)
    /\ Goto(r, "attempt")
    /\ UNCHANGED <<course, reply, balancerVars>>

RefuseTunnel(r) ==
    /\ pc[r] = "admit"
    /\ TunnelLimiter!Refuse(req[r].client)
    /\ Answer(r, "429", "done")
    /\ UNCHANGED <<course, balancerVars>>

-----------------------------------------------------------------------------
(* One attempt and what follows it *)

\* What a SOCKS dialer answers of itself, before it opens a connection.
Rejection(r) ==
    LET i == selected[r]
    IN  IF IsSocks(i) /\ req[r].dest = "badport" THEN {"uncontacted"}
        ELSE IF Scheme[i] = "socks4" /\ req[r].dest = "unsupported"
        THEN {"unsupported"}
        ELSE {}

\* What dialConnect returns of an upstream; a status other than 200 is an error.
ConnectOutcomes == {"ok", "error", "timeout"}

\* What doHTTPRequest returns of an upstream; "407" is a response with that
\* status, the upstream's or the origin's.
HTTPOutcomes == {"ok", "407", "error", "timeout"}

\* How an attempt of r at its selected upstream may end.
Possible(r) ==
    (IF gone[r] THEN {"cancelled"} ELSE {})
    \cup (IF Rejection(r) # {} THEN Rejection(r)
          ELSE IF IsConnect(r) THEN ConnectOutcomes ELSE HTTPOutcomes)

\* Mutant: a 407 is relayed like any other response.
MutantAfterAttempt(r, o) ==
    CASE o \in {"ok", "407"} -> "succeeded"
      [] OTHER              -> "failed"

AfterAttempt(r, o) ==
    CASE o = "ok"  -> "succeeded"
      [] o = "407" -> "mark"
      [] OTHER     -> "failed"

Attempt(r) ==
    /\ pc[r] = "attempt"
    /\ \E o \in Possible(r) :
           /\ outcome' = [outcome EXCEPT ![r] = o]
           /\ Goto(r, AfterAttempt(r, o))
    /\ tried' = [tried EXCEPT ![r] = Append(@, selected[r])]
    /\ UNCHANGED <<req, gone, selected, attempt, reply, shared>>

\* Mutant: the release of the tunnel slot is not deferred.
MutantFinish(r) == "done"

Finish(r) == IF IsConnect(r) THEN "release" ELSE "done"

\* Mutant: a failure is charged to the upstream even if the client left.
MutantCheckContext(r) ==
    /\ pc[r] = "failed"
    /\ Goto(r, IF outcome[r] = "unsupported" THEN "again" ELSE "mark")
    /\ UNCHANGED <<course, reply, shared>>

\* if r.Context().Err() != nil { return }, and whether to charge the upstream.
CheckContext(r) ==
    /\ pc[r] = "failed"
    /\ Goto(r, IF gone[r] THEN Finish(r)
               ELSE IF outcome[r] = "unsupported" THEN "again" ELSE "mark")
    /\ UNCHANGED <<course, reply, shared>>

ReportFailure(r) ==
    /\ pc[r] = "mark"
    /\ MarkFailure(selected[r])
    /\ Goto(r, "again")
    /\ UNCHANGED <<course, reply, tunnelVars>>

\* Mutant: the retry is granted to the wrong round of the loop.
MutantMayRetry(r) == CanRetry(r) /\ attempt[r] = 1

\* Mutant: the rounds of the loop are not bounded.
MutantMayRetryAgain(r) == CanRetry(r)

MayRetry(r) == CanRetry(r) /\ attempt[r] = 0

\* balancer.Next(selected.Index) finds an alternate.
Retry(r) ==
    /\ pc[r] = "again"
    /\ MayRetry(r)
    /\ \E i \in Upstreams :
           /\ Select(selected[r], i)
           /\ selected' = [selected EXCEPT ![r] = i]
    /\ attempt' = [attempt EXCEPT ![r] = @ + 1]
    /\ Goto(r, "attempt")
    /\ UNCHANGED <<req, gone, outcome, reply, tried, tunnelVars>>

\* Mutant: when Next finds nothing the handler waits for an upstream.
MutantGiveUp(r) ==
    /\ pc[r] = "again"
    /\ ~MayRetry(r)
    /\ Answer(r, IF outcome[r] = "timeout" THEN "504" ELSE "502", Finish(r))
    /\ UNCHANGED <<course, shared>>

\* writeUpstreamError, when no retry is allowed or Next finds nothing.
GiveUp(r) ==
    /\ pc[r] = "again"
    /\ MayRetry(r) => SelectNone(selected[r])
    /\ Answer(r, IF outcome[r] = "timeout" THEN "504" ELSE "502", Finish(r))
    /\ UNCHANGED <<course, shared>>

\* MarkSuccess, then the response or the tunnel is relayed.  What a tunnel is
\* told when the proxy shuts down meanwhile is Shutdown's business.
ReportSuccess(r) ==
    /\ pc[r] = "succeeded"
    /\ MarkSuccess(selected[r])
    /\ Answer(r, "relayed", "stream")
    /\ UNCHANGED <<course, tunnelVars>>

\* copyHTTPResponse or the relay returns, whatever ended it.
EndStream(r) ==
    /\ pc[r] = "stream"
    /\ Goto(r, Finish(r))
    /\ UNCHANGED <<course, reply, shared>>

\* defer releaseTunnel().
ReleaseTunnel(r) ==
    /\ pc[r] = "release"
    /\ TunnelLimiter!Release(req[r].client)
    /\ Goto(r, "done")
    /\ UNCHANGED <<course, reply, balancerVars>>

-----------------------------------------------------------------------------
(* The environment *)

\* The client disconnects or resets its stream.
Leave(r) ==
    /\ pc[r] # "done"
    /\ ~gone[r]
    /\ gone' = [gone EXCEPT ![r] = TRUE]
    /\ UNCHANGED <<pc, req, selected, attempt, outcome, reply, tried, shared>>

Elapse ==
    /\ \E i \in Upstreams : ~Healthy(i)
    /\ Tick
    /\ UNCHANGED <<requestVars, tunnelVars>>

\* The handler's own steps up to the answer, and the release of its slot.
Handle(r) ==
    \/ Unauthorized(r) \/ SelectFirst(r) \/ NoUpstream(r)
    \/ AcquireTunnel(r) \/ RefuseTunnel(r)
    \/ Attempt(r) \/ CheckContext(r) \/ ReportFailure(r)
    \/ Retry(r) \/ GiveUp(r)
    \/ ReportSuccess(r) \/ ReleaseTunnel(r)

Next ==
    \/ \E r \in Requests : Handle(r) \/ EndStream(r) \/ Leave(r)
    \/ Elapse

Spec == Init /\ [][Next]_vars

\* An attempt ends by proxy.timeout at the latest and the mutexes are held
\* only for a few statements, so a handler that can step does.  Nothing is
\* assumed of EndStream: no timeout bounds a write to a client that does not
\* read.
FairSpec == Spec /\ \A r \in Requests : WF_vars(Handle(r))

-----------------------------------------------------------------------------
(* Properties *)

\* Every variable has its type: no request makes a third attempt, no cooldown
\* exceeds the configured one and no tunnel counter drops below zero.
TypeOK ==
    /\ BalancerTypeOK
    /\ TunnelLimiter!LimiterTypeOK
    /\ pc \in [Requests -> Locations]
    /\ req \in [Requests -> Traffic]
    /\ gone \in [Requests -> BOOLEAN]
    /\ selected \in [Requests -> Upstreams \cup {NoExclude}]
    /\ attempt \in [Requests -> {0, 1}]
    /\ outcome \in [Requests -> Outcomes]
    /\ reply \in [Requests -> Replies]
    /\ tried \in [Requests -> Seq(Upstreams)]

\* The requests between tryAcquire and releaseTunnel.
Tunnelling ==
    {r \in Requests : IsConnect(r) /\ pc[r] \notin {"serve", "admit", "done"}}

\* The tunnel counters count exactly the CONNECT handlers between tryAcquire
\* and their deferred release, per client host and in total, whichever of the
\* returns of handleConnect ends them; the limits are never exceeded.
TunnelSlotsMatchHandlers ==
    /\ TunnelLimiter!Accounts(Tunnelling, [r \in Requests |-> req[r].client])
    /\ TunnelLimiter!WithinLimits

\* Failover is bounded: at most one alternate, never the upstream that just
\* failed, and none at all for a forwarded request that has a body, if only a
\* wrapped empty one, or an unsafe method.
BoundedFailover ==
    \A r \in Requests :
        /\ Len(tried[r]) <= 2
        /\ Len(tried[r]) = 2 =>
               /\ tried[r][1] # tried[r][2]
               /\ req[r].method \in {"CONNECT", "GET"}
               /\ req[r].method = "GET" => req[r].body = "none"

\* An upstream starts (or restarts) its cooldown only on the account of a
\* request that attempted it last and failed there for a reason that is not
\* its client's departure nor a destination SOCKS4 cannot express.
OnlyFailuresCool ==
    [][\A i \in Upstreams : unhealthyFor'[i] > unhealthyFor[i] =>
          \E r \in Requests :
              /\ tried[r] # <<>> /\ tried[r][Len(tried[r])] = i
              /\ outcome[r] \in {"407", "error", "timeout", "uncontacted"}]_vars

\* A status tells the client what happened: a proxy error only after a failed
\* attempt or with every upstream excluded, 504 only for a timeout, and never
\* a 407 (or a 429) once an upstream was involved, so that no client is asked
\* for the upstream's credentials.  No answer at all only if the client has left.
RepliesAreTruthful ==
    \A r \in Requests :
        /\ pc[r] \in {"done", "release"} /\ reply[r] = "none" => gone[r]
        /\ reply[r] \in {"400", "407", "429"} => tried[r] = <<>>
        /\ reply[r] = "relayed" => outcome[r] = "ok"
        /\ reply[r] = "504" => outcome[r] = "timeout"
        /\ reply[r] = "502" => outcome[r] \notin {"ok", "timeout", "cancelled"}

\* A request is refused without an attempt only when every upstream is excluded
\* at that very moment, and one that may be retried is refused after its first
\* attempt only when every other upstream is.
RefusedOnlyWithoutAlternate ==
    [][\A r \in Requests :
          reply[r] = "none" /\ reply'[r] \in {"502", "504"} =>
              /\ tried[r] = <<>> => Available(NoExclude) = {}
              /\ Len(tried[r]) = 1 /\ CanRetry(r)
                    => Available(tried[r][1]) = {}]_vars

\* Every request that reaches ServeHTTP is answered, abandoned with its client,
\* or gets to be relayed: no sequence of failures, retries and refusals keeps
\* a handler going.
EveryRequestSettles ==
    \A r \in Requests : pc[r] = "serve" ~> pc[r] \in {"done", "stream"}

-----------------------------------------------------------------------------
(* What the documentation says and the code does not do *)

\* README.md:188: a failure "excludes an upstream for failover_cooldown".
ExclusionLasts ==
    [][\A i \in Upstreams : unhealthyFor[i] > 1 => unhealthyFor'[i] > 0]_vars

\* README.md:20: exclusion "after a network or CONNECT setup failure".
OnlyContactedUpstreamsCool ==
    \A r \in Requests : pc[r] = "mark" => outcome[r] # "uncontacted"
=============================================================================
