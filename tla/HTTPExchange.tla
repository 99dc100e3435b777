---------------------------- MODULE HTTPExchange ----------------------------
(***************************************************************************)
(* One forwarded request from forwardRequest to its end: doHTTPRequest     *)
(* with its setup timer, the response's way to the client, and             *)
(* copyHTTPResponse with its watchdog.  Failover has the same handler with *)
(* an attempt as one step; here the goroutines inside it interleave, and   *)
(* what the balancer answers is left open.                                 *)
(*                                                                         *)
(* Time passes (Tick) only while the handler copies and is blocked: a      *)
(* goroutine that can run does so before the next tick.  The setup timer   *)
(* may fire at any moment of the setup.                                    *)
(***************************************************************************)
EXTENDS Headers, Integers

CONSTANTS
    IdleTimeout,      \* proxy.response_body_idle_timeout, in ticks
    Buffer,           \* pieces of a body that fit between upstream and Read
    MaxPieces,        \* bound on the length of a body
    RequestHeaders,   \* headers clients send
    ResponseHeaders   \* headers upstreams answer with

ASSUME HTTPExchangeAssumption ==
    {IdleTimeout, Buffer, MaxPieces} \subseteq Nat \ {0}

Attempts == {0, 1}

VARIABLES
    pc,            \* where the handler is
    canRetry,      \* the request may be sent again
    attempt,       \* the loop variable of forwardRequest
    gone,          \* r.Context().Err() != nil
    setupState,    \* doHTTPRequest's atomic: 0 waiting, 1 headers, 2 timed out
    timer,         \* its timer: "off", "armed", "running", "won", "stopped", "ended"
    cause,         \* context.Cause of the attempt's context, "none" while live
    body,          \* response.Body: "none", "open" or "closed"
    did,           \* what the HTTP client returned
    reply,         \* status the handler chose itself, "relayed" or "none"
    header,        \* the client's header
    sent,          \* the header sent upstream
    received,      \* the header of the upstream's response
    relayed,       \* the header sent to the client
    upstream,      \* the response body: "sending", "eof" or "broken"
    arrived,       \* history: pieces of it that reached the proxy
    copied,        \* pieces that Read returned
    delivered,     \* pieces written to the client
    stalled,       \* the client does not read, so a write blocks
    failure,       \* copyHTTPResponse's error: "none", "read", "write", "idle"
    watchdog,      \* "off", "waiting", "cutting" or "ended"
    left,          \* ticks until its timer fires
    sinceRead,     \* ticks since lastRead
    sinceArrival   \* history: ticks since a piece arrived

setup     == <<setupState, timer, cause, body>>
headers   == <<header, sent, received, relayed>>
transfer  == <<upstream, arrived, copied, delivered, stalled, failure>>
times     == <<left, sinceRead, sinceArrival>>
watching  == <<watchdog, times>>
request   == <<canRetry, attempt, gone, did, reply>>
vars      == <<pc, request, setup, headers, transfer, watching>>

NoHeader == [f \in {} |-> {}]

Init ==
    /\ pc = "prepare"
    /\ canRetry \in BOOLEAN
    /\ attempt = 0 /\ gone = FALSE /\ did = "none" /\ reply = "none"
    /\ setupState = [a \in Attempts |-> 0]
    /\ timer = [a \in Attempts |-> "off"]
    /\ cause = [a \in Attempts |-> "none"]
    /\ body = [a \in Attempts |-> "none"]
    /\ header \in RequestHeaders
    /\ sent = NoHeader /\ received = NoHeader /\ relayed = NoHeader
    /\ upstream = "sending" /\ arrived = 0 /\ copied = 0 /\ delivered = 0
    /\ stalled = FALSE /\ failure = "none"
    /\ watchdog = "off" /\ left = 0 /\ sinceRead = 0 /\ sinceArrival = 0

Set(f, v) == [f EXCEPT ![attempt] = v]

\* cancel(c): the first cause stays.
Cancelled(c) == IF cause[attempt] = "none" THEN Set(cause, c) ELSE cause

-----------------------------------------------------------------------------
(* doHTTPRequest *)

\* The request is cloned without its hop-by-hop fields; the attempt gets a
\* context below the client's, and the setup timer starts.
Prepare ==
    /\ pc = "prepare"
    /\ sent' = Without(RemoveHopHeaders(header), {"X-Forwarded-For"})
    /\ cause' = Set(cause, IF gone THEN "client" ELSE "none")
    /\ timer' = Set(timer, "armed")
    /\ pc' = "do"
    /\ UNCHANGED <<request, setupState, body, header, received, relayed,
                   transfer, watching>>

\* The timer's goroutine starts, decides the race, and cancels if it won.
TimerFires(a) ==
    /\ timer[a] = "armed"
    /\ timer' = [timer EXCEPT ![a] = "running"]
    /\ UNCHANGED <<pc, request, setupState, cause, body, headers, transfer,
                   watching>>

\* Mutant: the timer does not look at the state.
MutantTimerClaims(a) ==
    /\ timer[a] = "running"
    /\ timer' = [timer EXCEPT ![a] = "won"]
    /\ UNCHANGED <<pc, request, setupState, cause, body, headers, transfer,
                   watching>>

TimerClaims(a) ==
    /\ timer[a] = "running"
    /\ IF setupState[a] = 0
       THEN /\ setupState' = [setupState EXCEPT ![a] = 2]
            /\ timer' = [timer EXCEPT ![a] = "won"]
       ELSE /\ timer' = [timer EXCEPT ![a] = "ended"]
            /\ UNCHANGED setupState
    /\ UNCHANGED <<pc, request, cause, body, headers, transfer, watching>>

TimerCancels(a) ==
    /\ timer[a] = "won"
    /\ timer' = [timer EXCEPT ![a] = "ended"]
    /\ cause' = [cause EXCEPT ![a] = IF @ = "none" THEN "deadline" ELSE @]
    /\ UNCHANGED <<pc, request, setupState, body, headers, transfer, watching>>

\* Client.Do returns a response; it may do so although the context has just
\* been cancelled.
Answered ==
    /\ pc = "do"
    /\ did' \in {"response", "407"}
    /\ body' = Set(body, "open")
    /\ received' \in ResponseHeaders
    /\ pc' = "claim"
    /\ UNCHANGED <<canRetry, attempt, gone, reply, setupState, timer, cause,
                   header, sent, relayed, transfer, watching>>

\* Client.Do returns an error of the upstream or of a transport timeout.
Refused ==
    /\ pc = "do"
    /\ did' \in {"error", "timeout"}
    /\ pc' = "claim"
    /\ UNCHANGED <<canRetry, attempt, gone, reply, setup, headers, transfer,
                   watching>>

\* Client.Do returns because its context is cancelled.
Interrupted ==
    /\ pc = "do"
    /\ cause[attempt] # "none"
    /\ did' = "error"
    /\ pc' = "claim"
    /\ UNCHANGED <<canRetry, attempt, gone, reply, setup, headers, transfer,
                   watching>>

\* completed := setupState.CompareAndSwap(0, 1)
Claim ==
    /\ pc = "claim"
    /\ setupState' = IF setupState[attempt] = 0 THEN Set(setupState, 1)
                     ELSE setupState
    /\ pc' = "settle"
    /\ UNCHANGED <<request, timer, cause, body, headers, transfer, watching>>

\* timer.Stop() has no effect on a callback that has started.
StoppedTimer == IF timer[attempt] = "armed" THEN Set(timer, "stopped") ELSE timer

ClosedBody == IF body[attempt] = "open" THEN Set(body, "closed") ELSE body

\* The timer won: whatever the client returned becomes DeadlineExceeded.
SettleTimedOut ==
    /\ pc = "settle"
    /\ setupState[attempt] = 2
    /\ timer' = StoppedTimer
    /\ body' = ClosedBody
    /\ cause' = Cancelled("deadline")
    /\ did' = "timeout"
    /\ pc' = "failed"
    /\ UNCHANGED <<canRetry, attempt, gone, reply, setupState, headers,
                   transfer, watching>>

SettleFailed ==
    /\ pc = "settle"
    /\ setupState[attempt] = 1
    /\ did \in {"error", "timeout"}
    /\ timer' = StoppedTimer
    /\ cause' = Cancelled("released")
    /\ pc' = "failed"
    /\ UNCHANGED <<request, setupState, body, headers, transfer, watching>>

SettleAnswered ==
    /\ pc = "settle"
    /\ setupState[attempt] = 1
    /\ did \in {"response", "407"}
    /\ timer' = StoppedTimer
    /\ pc' = IF did = "407" THEN "refused" ELSE "respond"
    /\ UNCHANGED <<request, setupState, cause, body, headers, transfer, watching>>

-----------------------------------------------------------------------------
(* forwardRequest *)

\* Mutant: the body of a 407 response is left open for the second attempt.
MutantRefuse ==
    /\ pc = "refused"
    /\ cause' = Cancelled("released")
    /\ pc' = "again"
    /\ UNCHANGED <<request, setupState, timer, body, headers, transfer, watching>>

\* The upstream's 407 is closed and counts as its failure.
Refuse ==
    /\ pc = "refused"
    /\ body' = ClosedBody
    /\ cause' = Cancelled("released")
    /\ pc' = "again"
    /\ UNCHANGED <<request, setupState, timer, headers, transfer, watching>>

\* if r.Context().Err() != nil { return }
CheckContext ==
    /\ pc = "failed"
    /\ pc' = IF gone THEN "done" ELSE "again"
    /\ UNCHANGED <<request, setup, headers, transfer, watching>>

\* The balancer has an alternate, and nothing of its response has arrived.
Retry ==
    /\ pc = "again"
    /\ canRetry /\ attempt = 0
    /\ attempt' = attempt + 1
    /\ upstream' = "sending" /\ arrived' = 0 /\ copied' = 0 /\ delivered' = 0
    /\ pc' = "prepare"
    /\ UNCHANGED <<canRetry, gone, did, reply, setup, headers, stalled, failure,
                   watching>>

\* Or it has none, or a second attempt is not allowed.
GiveUp ==
    /\ pc = "again"
    /\ reply' = IF did = "timeout" THEN "504" ELSE "502"
    /\ pc' = "done"
    /\ UNCHANGED <<canRetry, attempt, gone, did, setup, headers, transfer, watching>>

\* The header goes to the client and copyHTTPResponse starts its watchdog.
Respond ==
    /\ pc = "respond"
    /\ relayed' = RemoveHopHeaders(received)
    /\ reply' = "relayed"
    /\ watchdog' = "waiting"
    /\ left' = IdleTimeout
    /\ sinceRead' = 0
    /\ pc' = "read"
    /\ UNCHANGED <<canRetry, attempt, gone, did, setup, header, sent, received,
                   transfer, sinceArrival>>

-----------------------------------------------------------------------------
(* copyHTTPResponse *)

\* Read returns a piece and lastRead is stored.
Read ==
    /\ pc = "read"
    /\ copied < arrived
    /\ copied' = copied + 1
    /\ sinceRead' = 0
    /\ pc' = "write"
    /\ UNCHANGED <<request, setup, headers, upstream, arrived, delivered, stalled,
                   failure, watchdog, left, sinceArrival>>

\* Read returns EOF, or the error of a response that broke off.
ReadEnds ==
    /\ pc = "read"
    /\ copied = arrived /\ upstream # "sending"
    /\ failure' = IF upstream = "eof" THEN "none"
                  ELSE IF cause[attempt] = "idle" THEN "idle" ELSE "read"
    /\ pc' = "join"
    /\ UNCHANGED <<request, setup, headers, upstream, arrived, copied, delivered,
                   stalled, watching>>

\* Read fails because the context is cancelled, with or without unread pieces.
ReadCancelled ==
    /\ pc = "read"
    /\ cause[attempt] # "none"
    /\ failure' = IF cause[attempt] = "idle" THEN "idle" ELSE "read"
    /\ pc' = "join"
    /\ UNCHANGED <<request, setup, headers, upstream, arrived, copied, delivered,
                   stalled, watching>>

\* Write and Flush: nothing but the client interrupts them.
Write ==
    /\ pc = "write"
    /\ ~stalled
    /\ delivered' = delivered + 1
    /\ pc' = "read"
    /\ UNCHANGED <<request, setup, headers, upstream, arrived, copied, stalled,
                   failure, watching>>

WriteFails ==
    /\ pc = "write"
    /\ gone
    /\ failure' = IF cause[attempt] = "idle" THEN "idle" ELSE "write"
    /\ pc' = "join"
    /\ UNCHANGED <<request, setup, headers, upstream, arrived, copied, delivered,
                   stalled, watching>>

\* close(stop); <-stopped
Join ==
    /\ pc = "join"
    /\ watchdog = "ended"
    /\ pc' = "unwind"
    /\ UNCHANGED <<request, setup, headers, transfer, watching>>

\* Mutant: a failed copy returns normally, and so completes the response.
MutantAborts == FALSE

\* panic(http.ErrAbortHandler): net/http breaks the client's connection.
Aborts == failure # "none"

\* The deferred calls of forwardRequest run, then net/http ends the response.
Unwind ==
    /\ pc = "unwind"
    /\ body' = ClosedBody
    /\ cause' = Cancelled("released")
    /\ reply' = IF Aborts THEN "aborted" ELSE "complete"
    /\ pc' = "done"
    /\ UNCHANGED <<canRetry, attempt, gone, did, setupState, timer, headers,
                   transfer, watching>>

-----------------------------------------------------------------------------
(* The watchdog of copyHTTPResponse *)

\* Mutant: the timer is set to the whole timeout again.
MutantWatch ==
    /\ watchdog = "waiting"
    /\ left = 0
    /\ IF sinceRead >= IdleTimeout
       THEN watchdog' = "cutting" /\ UNCHANGED left
       ELSE left' = IdleTimeout /\ UNCHANGED watchdog
    /\ UNCHANGED <<pc, request, setup, headers, transfer, sinceRead, sinceArrival>>

\* The timer fires: either the response was idle, or the rest is waited for.
Watch ==
    /\ watchdog = "waiting"
    /\ left = 0
    /\ IF sinceRead >= IdleTimeout
       THEN watchdog' = "cutting" /\ UNCHANGED left
       ELSE left' = IdleTimeout - sinceRead /\ UNCHANGED watchdog
    /\ UNCHANGED <<pc, request, setup, headers, transfer, sinceRead, sinceArrival>>

\* Mutant: the watchdog leaves without cancelling.
MutantCut ==
    /\ watchdog = "cutting"
    /\ watchdog' = "ended"
    /\ UNCHANGED <<pc, request, setup, headers, transfer, times>>

\* cancel(errResponseBodyIdle)
Cut ==
    /\ watchdog = "cutting"
    /\ watchdog' = "ended"
    /\ cause' = Cancelled("idle")
    /\ UNCHANGED <<pc, request, setupState, timer, body, headers, transfer, times>>

\* The stop channel is closed.
WatchdogStops ==
    /\ watchdog = "waiting"
    /\ pc = "join"
    /\ watchdog' = "ended"
    /\ UNCHANGED <<pc, request, setup, headers, transfer, times>>

-----------------------------------------------------------------------------
(* Upstream, client and clock *)

Open == body[attempt] = "open"

PieceArrives ==
    /\ Open /\ upstream = "sending"
    /\ arrived - copied < Buffer
    /\ arrived < MaxPieces
    /\ arrived' = arrived + 1
    /\ sinceArrival' = 0
    /\ UNCHANGED <<pc, request, setup, headers, upstream, copied, delivered,
                   stalled, failure, watchdog, left, sinceRead>>

BodyEnds ==
    /\ Open /\ upstream = "sending"
    /\ upstream' \in {"eof", "broken"}
    /\ UNCHANGED <<pc, request, setup, headers, arrived, copied, delivered,
                   stalled, failure, watching>>

\* The client disconnects; net/http cancels the request's context, and with it
\* the context of the running attempt.
Leave ==
    /\ pc # "done"
    /\ ~gone
    /\ gone' = TRUE
    /\ cause' = IF timer[attempt] = "off" THEN cause ELSE Cancelled("client")
    /\ UNCHANGED <<pc, canRetry, attempt, did, reply, setupState, timer, body,
                   headers, transfer, watching>>

Stall ==
    /\ pc \in {"read", "write"}
    /\ stalled' = ~stalled
    /\ UNCHANGED <<pc, request, setup, headers, upstream, arrived, copied,
                   delivered, failure, watching>>

\* The handler waits for the upstream or for the client.
Blocked ==
    \/ pc = "read" /\ copied = arrived /\ upstream = "sending"
    \/ pc = "write" /\ stalled /\ ~gone

Tick ==
    /\ Blocked
    /\ cause[attempt] = "none"
    /\ watchdog = "waiting" /\ left > 0
    /\ left' = left - 1
    /\ sinceRead' = sinceRead + 1
    /\ sinceArrival' = IF sinceArrival < IdleTimeout THEN sinceArrival + 1
                       ELSE sinceArrival
    /\ UNCHANGED <<pc, request, setup, headers, transfer, watchdog>>

Handler ==
    \/ Prepare \/ Interrupted \/ Claim
    \/ SettleTimedOut \/ SettleFailed \/ SettleAnswered
    \/ Refuse \/ CheckContext \/ Retry \/ GiveUp \/ Respond
    \/ Read \/ ReadEnds \/ ReadCancelled \/ Write \/ WriteFails \/ Join \/ Unwind

Timer(a) == TimerFires(a) \/ TimerClaims(a) \/ TimerCancels(a)

Watchdog == Watch \/ Cut \/ WatchdogStops

Environment ==
    Answered \/ Refused \/ PieceArrives \/ BodyEnds \/ Leave \/ Stall

Next ==
    \/ Handler
    \/ \E a \in Attempts : Timer(a)
    \/ Watchdog
    \/ Environment
    \/ Tick

Spec == Init /\ [][Next]_vars

\* The process' own goroutines and timers run, and time passes.  The upstream
\* need never answer, send or end, nor the client read or leave.
Fairness ==
    /\ WF_vars(Handler)
    /\ \A a \in Attempts : WF_vars(Timer(a))
    /\ WF_vars(Watchdog)
    /\ WF_vars(Tick)

FairSpec == Spec /\ Fairness

-----------------------------------------------------------------------------
(* Properties *)

\* Every variable holds a value the code can give it; at most Buffer pieces
\* wait to be read, and no response stays idle past the timeout, although the
\* watchdog reads lastRead while the copy stores it and waits only for the rest.
TypeOK ==
    /\ pc \in {"prepare", "do", "claim", "settle", "refused", "failed", "again",
               "respond", "read", "write", "join", "unwind", "done"}
    /\ canRetry \in BOOLEAN /\ gone \in BOOLEAN /\ stalled \in BOOLEAN
    /\ attempt \in Attempts
    /\ did \in {"none", "response", "407", "error", "timeout"}
    /\ reply \in {"none", "502", "504", "relayed", "complete", "aborted"}
    /\ setupState \in [Attempts -> 0 .. 2]
    /\ timer \in [Attempts -> {"off", "armed", "running", "won", "stopped", "ended"}]
    /\ cause \in [Attempts -> {"none", "client", "deadline", "idle", "released"}]
    /\ body \in [Attempts -> {"none", "open", "closed"}]
    /\ upstream \in {"sending", "eof", "broken"}
    /\ copied \in 0 .. arrived /\ delivered \in 0 .. copied
    /\ arrived \in copied .. copied + Buffer
    /\ failure \in {"none", "read", "write", "idle"}
    /\ watchdog \in {"off", "waiting", "cutting", "ended"}
    /\ left \in 0 .. IdleTimeout
    /\ sinceRead \in 0 .. IdleTimeout /\ sinceArrival \in 0 .. IdleTimeout

\* doHTTPRequest's comment: the timeout limits the setup "through response
\* headers, then leaves the response body governed by its own idle timeout and
\* the client context".  From the moment the handler holds a response the setup
\* timer cannot cancel it, even when it fires between Claim and timer.Stop.
SetupTimerSparesBody ==
    pc \in {"respond", "read", "write", "join", "unwind"}
        => cause[attempt] # "deadline"

\* However the handler ends, with a response that lost the race, a 407 or a
\* client that left: each context it made is cancelled, each body closed, each
\* timer stopped or fired, and the watchdog has returned.
NothingLeaks ==
    pc = "done" =>
        /\ \A a \in Attempts : timer[a] # "off" => cause[a] # "none"
        /\ \A a \in Attempts : body[a] # "open" /\ timer[a] # "armed"
        /\ watchdog \in {"off", "ended"}

\* Headers are sent before the body, so a client can only tell a truncated body
\* from a whole one by the broken connection (http.go:83): a response ends
\* normally only if the upstream's body did, and every piece of it was written.
TruncationIsVisible ==
    reply = "complete" => upstream = "eof" /\ delivered = arrived

\* removeHopHeaders works on both directions' headers, whatever they list: no
\* field meant for one connection passes, X-Forwarded-For (which names the
\* client) does not go upstream, and everything else arrives.
OnlyEndToEndFieldsPass ==
    /\ pc # "prepare" =>
        /\ NoHopField(header, sent)
        /\ HonoursBoth(header, sent)
        /\ "X-Forwarded-For" \notin DOMAIN sent
        /\ KeepsEndToEnd(Without(header, {"X-Forwarded-For"}), sent)
    /\ reply \in {"relayed", "complete", "aborted"} =>
        /\ NoHopField(received, relayed)
        /\ HonoursBoth(received, relayed)
        /\ KeepsEndToEnd(received, relayed)

\* An upstream that never answers, stops in the middle of a body or sends for
\* ever does not hold a handler: it always comes back to the client, or ends.
WaitsOnlyForTheClient == []<>(pc \in {"write", "done"})

\* README.md:133: the proxy "closes a response only when no body bytes arrive
\* during that interval".  (It counts from the last read, and does not read
\* while a write to the client blocks.)  A piece that arrives at the very tick
\* at which the timer fires is left out: either order is right there.
CutsOnlySilentResponses ==
    [][watchdog # "cutting" /\ watchdog' = "cutting"
        => sinceArrival \notin 1 .. IdleTimeout - 1]_vars
=============================================================================
