---------------------------- MODULE DialConnect ----------------------------
(***************************************************************************)
(* dialConnect of internal/proxy/connect.go and DialContext of             *)
(* internal/socks/socks.go: one connection to an upstream, from the dial   *)
(* to the last deferred call.  Beside the goroutine that sets it up runs   *)
(* the callback of context.AfterFunc, which closes the connection when the *)
(* client leaves or the setup timeout is over.                             *)
(*                                                                         *)
(* A forwarded request over a SOCKS upstream calls DialContext as well,    *)
(* from its transport; that is a job with path "forward".                  *)
(***************************************************************************)
EXTENDS Socks

CONSTANTS
    HeaderLimit,     \* maxConnectResponseHeaderBytes
    ReadBuffer,      \* size of the bufio.Reader, so of the parts of a long line
    Destinations     \* targets that requests name

\* bufio.NewReader has no buffer shorter than 16 bytes.
ASSUME DialConnectAssumption ==
    HeaderLimit \in Nat \ {0} /\ ReadBuffer \in Nat /\ ReadBuffer > 1

\* An address has four bytes or sixteen; a port may be out of range.
ASSUME DestinationAssumption ==
    \A d \in Destinations :
        /\ d.kind \in {"ip4", "ip6", "name"}
        /\ d.host \in Seq(Nat) /\ d.port \in Int
        /\ d.kind = "ip4" => Len(d.host) = 4
        /\ d.kind = "ip6" => Len(d.host) = 16

VARIABLES
    job,          \* what is asked for: path, scheme, auth, network, destination
    pc,           \* where the goroutine is
    ctx,          \* setupCtx: "live", or the reason it ended
    callback,     \* "none", "armed", "running", "closing", "ended" or "stopped"
    seen,         \* the connection that the callback read
    connection,   \* the variable: "none", "raw", "torn" or "secured"
    dialed,       \* the network of the dial
    closed,       \* the socket is closed
    deadline,     \* of reads and writes: "none", "setup" or "header"
    remaining,    \* readConnectStatus's budget
    partial,      \* the last part did not end its line
    status,       \* the status it parsed, 0 before
    wire,         \* history: bytes of the header as the upstream sent it
    bare,         \* history: a line of it did not end in CRLF
    request,      \* the last SOCKS request
    named,        \* value of the length byte, and the reply's status and type
    announced,    \* history: length of the server's messages
    consumed,     \* bytes of them that were read
    result        \* "none", "ok", or the kind of error

dialContext == <<ctx, callback, seen, closed>>
header      == <<remaining, partial, status, wire, bare>>
framing     == <<request, named, announced, consumed>>
dialVars    == <<job, pc, dialContext, connection, dialed, deadline, header,
                 framing, result>>

Unlimited == [read |-> "none", write |-> "none"]
NoReply   == [status |-> 0, atyp |-> 0, length |-> 0]
NoJob     == [path |-> "none"]

DialInit ==
    /\ job = NoJob
    /\ pc = "idle"
    /\ ctx = "live" /\ callback = "none" /\ seen = "none"
    /\ connection = "none" /\ dialed = "none" /\ closed = FALSE
    /\ deadline = Unlimited
    /\ remaining = HeaderLimit /\ partial = FALSE /\ status = 0
    /\ wire = 0 /\ bare = FALSE
    /\ request = <<>> /\ named = NoReply
    /\ announced = 0 /\ consumed = 0
    /\ result = "none"

IsSocks(scheme) == scheme \in {"socks4", "socks5"}

\* What ctx.Err() says to the handler.
ContextError == IF ctx = "expired" THEN "timeout" ELSE "cancelled"

\* Mutant: the error of the operation, whatever interrupted it.
MutantSetupError(error) == error

\* setupError: an ended context is the reason of every error.
SetupError(error) == IF ctx = "live" THEN error ELSE ContextError

\* Return an error: the deferred calls follow.
Return(r) == result' = r /\ pc' = "stop"

Goto(l) == pc' = l /\ UNCHANGED result

-----------------------------------------------------------------------------
(* From the call to a connection *)

\* proxy.network "auto" is "tcp"; a transport is asked for "tcp" by net/http.
Network(path, network) ==
    IF path = "forward" \/ network = "auto" THEN "tcp" ELSE network

\* An HTTP upstream gets the target as it is, so that one stands for all; a
\* CONNECT request has a host and a valid port.
Targets(path, scheme) ==
    LET valid == {d \in Destinations : d.host # <<>> /\ d.port \in 1 .. MaxPort}
    IN  IF ~IsSocks(scheme) THEN {CHOOSE d \in valid : TRUE}
        ELSE IF path = "CONNECT" THEN valid ELSE Destinations

\* The checks before the dial; nothing is open yet.
Begin(path, upstream, network) ==
    /\ pc = "idle"
    /\ path = "forward" => IsSocks(upstream.scheme)
    /\ \E d \in Targets(path, upstream.scheme) :
         /\ job' = [path |-> path, scheme |-> upstream.scheme,
                    auth |-> upstream.auth, network |-> network,
                    destination |-> d]
         /\ LET e == DestinationError(upstream.scheme, d)
                badPassword == /\ upstream.scheme = "socks4" /\ upstream.auth.enabled
                               /\ upstream.auth.password # <<>>
            IN  IF IsSocks(upstream.scheme) /\ e # NoRejection
                THEN Return(SetupError(e))
                ELSE IF badPassword THEN Return("config")
                ELSE Goto("dial")
    /\ UNCHANGED <<dialContext, connection, dialed, deadline, header, framing>>

Dial ==
    /\ pc = "dial"
    /\ dialed' = Network(job.path, job.network)
    /\ connection' = "raw"
    /\ Goto("register")
    /\ UNCHANGED <<job, dialContext, deadline, header, framing>>

\* The upstream cannot be reached, or not within dial_timeout.
DialFails ==
    /\ pc = "dial"
    /\ dialed' = Network(job.path, job.network)
    /\ \E e \in {"failed", "timeout"} : Return(SetupError(e))
    /\ UNCHANGED <<job, dialContext, connection, deadline, header, framing>>

DialInterrupted ==
    /\ pc = "dial"
    /\ ctx # "live"
    /\ Return(ContextError)
    /\ UNCHANGED <<job, dialContext, connection, dialed, deadline, header,
                   framing>>

\* context.AfterFunc: from now on the callback may run.
RegisterCallback ==
    /\ pc = "register"
    /\ callback' = "armed"
    /\ Goto("limit")
    /\ UNCHANGED <<job, ctx, seen, closed, connection, dialed, deadline, header,
                   framing>>

\* SetDeadline on a closed connection fails.  dialConnect and DialContext return
\* its error as it is; DialContext's goes through setupError in dialConnect.
ClosedError ==
    IF job.path = "CONNECT" /\ IsSocks(job.scheme) THEN SetupError("failed")
    ELSE "failed"

LimitSetup ==
    /\ pc = "limit"
    /\ IF closed THEN Return(ClosedError) /\ UNCHANGED deadline
       ELSE /\ deadline' = [read |-> "setup", write |-> "setup"]
            /\ Goto(CASE job.scheme = "https"  -> "handshake"
                      [] job.scheme = "http"   -> "request"
                      [] job.scheme = "socks4" -> "socks4"
                      [] OTHER                 -> "method")
    /\ UNCHANGED <<job, dialContext, connection, dialed, header, framing>>

-----------------------------------------------------------------------------
(* An HTTP upstream: dialConnect *)

\* HandshakeContext succeeds, and the variable gets the TLS connection: an
\* interface value, of which the callback may read one half.
Handshake ==
    /\ pc = "handshake"
    /\ ~closed
    /\ connection' = "torn"
    /\ Goto("assigned")
    /\ UNCHANGED <<job, dialContext, dialed, deadline, header, framing>>

Assigned ==
    /\ pc = "assigned"
    /\ connection' = "secured"
    /\ Goto("request")
    /\ UNCHANGED <<job, dialContext, dialed, deadline, header, framing>>

SendRequest ==
    /\ pc = "request"
    /\ ~closed
    /\ Goto("limitHeader")
    /\ UNCHANGED <<job, dialContext, connection, dialed, deadline, header,
                   framing>>

\* SetReadDeadline, again without setupError.
LimitHeader ==
    /\ pc = "limitHeader"
    /\ IF closed THEN Return("failed") /\ UNCHANGED deadline
       ELSE deadline' = [deadline EXCEPT !.read = "header"] /\ Goto("status")
    /\ UNCHANGED <<job, dialContext, connection, dialed, header, framing>>

\* Mutant: only the part that ends a line is counted.
MutantCost(size, ending) == IF ending = "more" THEN 0 ELSE size + 2

\* readLimitedLine: a line end counts for two bytes, whatever it is.
Cost(size, ending) == IF ending = "more" THEN size ELSE size + 2

WireSize(size, ending) ==
    size + (CASE ending = "CRLF" -> 2 [] ending = "LF" -> 1 [] OTHER -> 0)

LineEnds == {"more", "CRLF", "LF", "EOF"}

\* One bufio.ReadLine: the rest of the line, or a full buffer of it, without a
\* CR at its end; what is left at the end of the stream is a line as well, and
\* only the next read fails.  An empty line ends the header, a status or a field
\* must be well formed.
ReadLine(size, ending) ==
    /\ pc \in {"status", "field"}
    /\ ~closed
    /\ WireSize(size, ending) <= ReadBuffer
    /\ ending = "more" => size >= ReadBuffer - 1
    /\ ending = "EOF" => size > 0
    /\ remaining' = remaining - Cost(size, ending)
    /\ wire' = wire + WireSize(size, ending)
    /\ bare' = (bare \/ ending \in {"LF", "EOF"})
    /\ partial' = (ending = "more")
    /\ IF remaining' < 0 \/ ending = "EOF"
       THEN Return(SetupError("failed")) /\ UNCHANGED status
       ELSE IF ending = "more" THEN UNCHANGED <<pc, result, status>>
       ELSE IF size = 0 /\ ~partial
       THEN IF pc = "status" THEN Return(SetupError("failed")) /\ UNCHANGED status
            ELSE Goto("checkStatus") /\ UNCHANGED status
       ELSE \/ Return(SetupError("failed")) /\ UNCHANGED status
            \/ /\ status' \in IF pc = "status" THEN {200, 403} ELSE {status}
               /\ Goto("field")
    /\ UNCHANGED <<job, dialContext, connection, dialed, deadline, framing>>

\* A refusal is reported as such, whatever became of the context.
CheckStatus ==
    /\ pc = "checkStatus"
    /\ IF status = 200 THEN Goto("clear") ELSE Return("failed")
    /\ UNCHANGED <<job, dialContext, connection, dialed, deadline, header,
                   framing>>

-----------------------------------------------------------------------------
(* A SOCKS upstream: connect4 and connect5 *)

Talk(l, size) ==
    /\ pc = l
    /\ ~closed
    /\ announced' = announced + size
    /\ consumed' = consumed + size

\* The request in one piece, and the answer of eight bytes.
Socks4 ==
    LET e == HandshakeError("socks4", job.destination, job.auth)
    IN  /\ pc = "socks4"
        /\ IF e # NoRejection THEN Return(SetupError(e)) /\ UNCHANGED framing
           ELSE /\ Talk("socks4", 8)
                /\ request' = Request4(job.destination, job.auth)
                /\ UNCHANGED named
                /\ Goto("clear") \/ Return(SetupError("failed"))
        /\ UNCHANGED <<job, dialContext, connection, dialed, deadline, header>>

\* The server takes the method that is offered, or the setup fails.
OfferMethod ==
    LET e == HandshakeError("socks5", job.destination, job.auth)
    IN  /\ pc = "method"
        /\ IF e # NoRejection THEN Return(SetupError(e)) /\ UNCHANGED framing
           ELSE /\ Talk("method", 2)
                /\ UNCHANGED <<request, named>>
                /\ \/ Goto(IF Method(job.auth) = 2 THEN "login" ELSE "socks5")
                   \/ Return(SetupError("failed"))
        /\ UNCHANGED <<job, dialContext, connection, dialed, deadline, header>>

Login ==
    /\ Talk("login", 2)
    /\ request' = Login5(job.auth)
    /\ UNCHANGED named
    /\ Goto("socks5") \/ Return(SetupError("failed"))
    /\ UNCHANGED <<job, dialContext, connection, dialed, deadline, header>>

\* The request, and the first four bytes of a reply of some length.
Socks5(answer) ==
    /\ pc = "socks5"
    /\ ~closed
    /\ request' = Request5(job.destination)
    /\ named' = answer
    /\ announced' = announced + Reply5Length(answer.atyp, answer.length)
    /\ consumed' = consumed + 4
    /\ Goto(IF answer.atyp = 3 THEN "length" ELSE "address")
    /\ UNCHANGED <<job, dialContext, connection, dialed, deadline, header>>

\* The version, the reserved byte or the address type is wrong.
Socks5Invalid ==
    /\ pc = "socks5"
    /\ ~closed
    /\ request' = Request5(job.destination)
    /\ consumed' = consumed + 4
    /\ Return(SetupError("failed"))
    /\ UNCHANGED <<job, dialContext, connection, dialed, deadline, header,
                   named, announced>>

\* Mutant: the length is looked at, not read.
MutantReadLength ==
    /\ pc = "length"
    /\ ~closed
    /\ Goto("address")
    /\ UNCHANGED <<job, dialContext, connection, dialed, deadline, header,
                   framing>>

ReadLength ==
    /\ pc = "length"
    /\ ~closed
    /\ consumed' = consumed + 1
    /\ Goto("address")
    /\ UNCHANGED <<job, dialContext, connection, dialed, deadline, header,
                   request, named, announced>>

\* The bound address is discarded before the status is looked at.
DiscardAddress ==
    /\ pc = "address"
    /\ ~closed
    /\ consumed' = consumed + AddressLength(named.atyp, named.length)
    /\ IF named.status = 0 THEN Goto("clear") ELSE Return(SetupError("failed"))
    /\ UNCHANGED <<job, dialContext, connection, dialed, deadline, header,
                   request, named, announced>>

\* DialContext asks for the context once more, dialConnect does not.
CheckContext ==
    /\ pc = "checkContext"
    /\ IF ctx # "live" THEN Return(ContextError) ELSE Return("ok")
    /\ UNCHANGED <<job, dialContext, connection, dialed, deadline, header,
                   framing>>

-----------------------------------------------------------------------------
(* Errors, and the end of both *)

Talking == {"handshake", "request", "status", "field", "socks4", "method",
            "login", "socks5", "length", "address"}

\* A deadline passes, or the upstream misbehaves, closes or resets.
TalkFails ==
    /\ pc \in Talking
    /\ ~closed
    /\ \E e \in {"failed", "timeout"} : Return(SetupError(e))
    /\ UNCHANGED <<job, dialContext, connection, dialed, deadline, header,
                   framing>>

\* The callback has closed the connection.
TalkInterrupted ==
    /\ pc \in Talking
    /\ closed
    /\ Return(SetupError("failed"))
    /\ UNCHANGED <<job, dialContext, connection, dialed, deadline, header, framing>>

\* HandshakeContext watches the context itself, and closes the connection.
HandshakeInterrupted ==
    /\ pc = "handshake"
    /\ ctx # "live"
    /\ closed' = TRUE
    /\ Return(ContextError)
    /\ UNCHANGED <<job, ctx, callback, seen, connection, dialed, deadline,
                   header, framing>>

\* SetDeadline(time.Time{}); without an error the setup has succeeded.
ClearDeadline ==
    /\ pc = "clear"
    /\ IF closed THEN Return(ClosedError) /\ UNCHANGED deadline
       ELSE /\ deadline' = Unlimited
            /\ IF IsSocks(job.scheme) THEN Goto("checkContext") ELSE Return("ok")
    /\ UNCHANGED <<job, dialContext, connection, dialed, header, framing>>

\* The deferred calls, last one first.  stopCancel does not wait for a callback
\* that has started.
StopCallback ==
    /\ pc = "stop"
    /\ callback' = IF callback = "armed" THEN "stopped" ELSE callback
    /\ pc' = "close"
    /\ UNCHANGED <<job, ctx, seen, closed, connection, dialed, deadline, header,
                   framing, result>>

\* Mutant: after an ended context the close is left to the callback.
MutantCloseFailed ==
    /\ pc = "close"
    /\ closed' = (closed \/ (result # "ok" /\ connection # "none" /\ ctx = "live"))
    /\ pc' = "cancel"
    /\ UNCHANGED <<job, ctx, callback, seen, connection, dialed, deadline,
                   header, framing, result>>

CloseFailed ==
    /\ pc = "close"
    /\ closed' = (closed \/ (result # "ok" /\ connection # "none"))
    /\ pc' = "cancel"
    /\ UNCHANGED <<job, ctx, callback, seen, connection, dialed, deadline,
                   header, framing, result>>

\* cancel() of dialConnect's own context, when it has not ended yet.
Cancel ==
    /\ pc = "cancel"
    /\ ctx' = IF ctx = "live" /\ job.path = "CONNECT" THEN "released" ELSE ctx
    /\ pc' = "done"
    /\ UNCHANGED <<job, callback, seen, connection, dialed, closed, deadline,
                   header, framing, result>>

-----------------------------------------------------------------------------
(* The callback of context.AfterFunc, and the context *)

\* Mutant: the callback belongs to a context of the timeout alone.
MutantCallbackStarts ==
    /\ callback = "armed"
    /\ ctx = "expired"
    /\ callback' = "running"
    /\ UNCHANGED <<job, pc, ctx, seen, closed, connection, dialed, deadline,
                   header, framing, result>>

CallbackStarts ==
    /\ callback = "armed"
    /\ ctx # "live"
    /\ callback' = "running"
    /\ UNCHANGED <<job, pc, ctx, seen, closed, connection, dialed, deadline,
                   header, framing, result>>

\* It reads the variable without synchronisation.
CallbackReads ==
    /\ callback = "running"
    /\ seen' = connection
    /\ callback' = "closing"
    /\ UNCHANGED <<job, pc, ctx, closed, connection, dialed, deadline, header,
                   framing, result>>

\* Closing either connection closes the socket.  With the type of one and the
\* pointer of the other it may close it, fail, or end the process.
CallbackCloses ==
    /\ callback = "closing"
    /\ callback' = "ended"
    /\ \/ closed' = TRUE /\ UNCHANGED pc
       \/ seen = "torn" /\ UNCHANGED <<closed, pc>>
       \/ seen = "torn" /\ pc' = "crashed" /\ UNCHANGED closed
    /\ UNCHANGED <<job, ctx, seen, connection, dialed, deadline, header,
                   framing, result>>

\* proxy.timeout is over, or the client's request is cancelled.
ContextEnds ==
    /\ pc \notin {"idle", "done", "crashed"}
    /\ ctx = "live"
    /\ ctx' \in {"expired", "client"}
    /\ UNCHANGED <<job, pc, callback, seen, closed, connection, dialed,
                   deadline, header, framing, result>>

Callback == CallbackStarts \/ CallbackReads \/ CallbackCloses

\* What the goroutine does whatever the upstream does.
Alone ==
    \/ DialInterrupted \/ RegisterCallback \/ LimitSetup
    \/ Assigned \/ LimitHeader \/ CheckStatus \/ CheckContext
    \/ TalkInterrupted \/ HandshakeInterrupted \/ ClearDeadline
    \/ StopCallback \/ CloseFailed \/ Cancel

Answers ==
    [status : {0, 1}, atyp : {1, 4}, length : {0}]
        \cup [status : {0, 1}, atyp : {3}, length : {0, Byte - 1}]

\* What depends on the upstream's answers.
WithUpstream ==
    \/ Dial \/ DialFails \/ TalkFails
    \/ Handshake \/ SendRequest
    \/ \E size \in 0 .. ReadBuffer, ending \in LineEnds : ReadLine(size, ending)
    \/ Socks4 \/ OfferMethod \/ Login
    \/ \E answer \in Answers : Socks5(answer)
    \/ Socks5Invalid \/ ReadLength \/ DiscardAddress

DialStep == Alone \/ WithUpstream \/ Callback \/ ContextEnds

-----------------------------------------------------------------------------
(* Properties *)

Failed == result \notin {"none", "ok"}

\* The deferred calls run last one first.  The close runs for every error, also
\* when the callback was stopped before it ran, and closes the connection that
\* the variable holds then.  A connection that is returned has no deadline, and
\* while the context had not ended by itself nothing closes it any more, as
\* cancel() runs after stopCancel.  (Otherwise the callback may be on its way:
\* connect.go:173.)
OnlyFailedSetupsClose ==
    pc = "done" =>
        /\ Failed /\ connection # "none" => closed
        /\ result = "ok" =>
             /\ deadline = Unlimited
             /\ ctx \in {"live", "released"} => ~closed /\ callback = "stopped"

\* An error that says nothing of an ended context: the upstream refused, or
\* SetDeadline found the connection closed by the callback (connect.go:130, 159,
\* 170; not over a SOCKS upstream, as dialConnect wraps what DialContext returns).
SaysNothing ==
    \/ pc = "checkStatus"
    \/ closed /\ pc = "limitHeader"
    \/ /\ closed /\ pc \in {"limit", "clear"}
       /\ ~(job.path = "CONNECT" /\ IsSocks(job.scheme))

\* After the timeout or the client's departure a setup fails with the context's
\* error, whichever call met the closed connection: "timeout" is a 504, and no
\* upstream is blamed for a client that left.
InterruptionIsReported ==
    [][result = "none" /\ Failed' /\ ctx # "live" =>
         result' = ContextError \/ SaysNothing]_dialVars

\* maxConnectResponseHeaderBytes: a header that was accepted is within the
\* limit, one with CRLF line ends is only rejected beyond it, and at most one
\* part of a line is read past it.
HeaderWithinLimit ==
    /\ result = "ok" => wire <= HeaderLimit
    /\ remaining < 0 /\ ~bare => wire > HeaderLimit
    /\ wire <= HeaderLimit + ReadBuffer

\* A SOCKS reply is read to its last byte and not further: the next byte
\* belongs to the tunnel.
TunnelStartsAtItsFirstByte == result = "ok" => consumed = announced

\* The server finds in the request what was asked for, and in the login what was
\* configured, to the last byte: no name or password is cut at a zero byte or by
\* a length that does not fit, no address is taken for the mark of a name, no
\* user name runs into the host.
ServerSeesTheTarget ==
    LET d == job.destination
    IN  /\ job # NoJob /\ request # <<>> /\ job.scheme = "socks4" =>
             Understood4(request) =
                 [kind |-> d.kind, host |-> d.host, port |-> d.port, tail |-> <<>>,
                  user |-> IF job.auth.enabled THEN job.auth.username ELSE <<>>]
        /\ job # NoJob /\ job.scheme = "socks5" /\ request # <<>> /\ request[1] = 5 =>
             Understood5(request) =
                 [kind |-> d.kind, host |-> d.host, port |-> d.port, tail |-> <<>>]
        /\ job # NoJob /\ job.scheme = "socks5" /\ request # <<>> /\ request[1] = 1 =>
             UnderstoodLogin(request) =
                 [user |-> job.auth.username, password |-> job.auth.password,
                  tail |-> <<>>]

\* A client that leaves, or the timeout, ends the setup whatever the upstream
\* does: the dial and the handshake watch the context, everything else is
\* interrupted by the callback.  (Not so when the callback read the variable
\* while connect.go:145 wrote it; then the process may not survive, or only the
\* deadline is left.)
EndedContextEndsSetup ==
    ctx \in {"expired", "client"} ~> pc = "done" \/ seen = "torn"
=============================================================================
