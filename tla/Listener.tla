------------------------------ MODULE Listener ------------------------------
(***************************************************************************)
(* limitedListener and limitedConnection of internal/proxy/limits.go: one  *)
(* goroutine of net/http accepts, and any number of goroutines close a     *)
(* connection, concurrently and more than once: the server's own           *)
(* connection goroutine, Server.Close, a tunnel's relay, its idle timer    *)
(* and tunnelRegistry.closeAll.  limitedConnection.Close is two steps,     *)
(* since another goroutine may run between Conn.Close and once.Do.         *)
(***************************************************************************)
EXTENDS ConcurrentLimiter

CONSTANTS
    Conns,      \* connection objects; one is reused when nobody uses it
    Closers     \* goroutines that may close a connection

VARIABLES
    listening,   \* Listener.Accept has not failed
    host,        \* addressHost(RemoteAddr()) of each connection
    socket,      \* the wrapped net.Conn: "none", "open" or "closed"
    admission,   \* "none", "pending", "in", "refused"
    spent,       \* the sync.Once of the connection has run
    closing      \* goroutines between Conn.Close and once.Do

connVars == <<listening, host, socket, admission, spent, closing>>
vars     == <<connVars, limiterVars>>

ASSUME ListenerAssumption == IsFiniteSet(Conns)

Init ==
    /\ listening = TRUE
    /\ host \in [Conns -> Keys]
    /\ socket = [c \in Conns |-> "none"]
    /\ admission = [c \in Conns |-> "none"]
    /\ spent = [c \in Conns |-> FALSE]
    /\ closing = [c \in Conns |-> {}]
    /\ LimiterInit

\* No goroutine refers to c, so c can stand for the next connection.
Unused(c) ==
    /\ socket[c] # "open"
    /\ admission[c] = "in" => spent[c]
    /\ closing[c] = {}

\* l.Listener.Accept() returns a connection.
Accept(c) ==
    /\ listening
    /\ \A d \in Conns : admission[d] # "pending"
    /\ Unused(c)
    /\ \E k \in Keys : host' = [host EXCEPT ![c] = k]
    /\ socket' = [socket EXCEPT ![c] = "open"]
    /\ admission' = [admission EXCEPT ![c] = "pending"]
    /\ spent' = [spent EXCEPT ![c] = FALSE]
    /\ UNCHANGED <<listening, closing, limiterVars>>

\* l.Listener.Accept() fails, as it does once the server shuts down.
AcceptFails ==
    /\ listening
    /\ \A d \in Conns : admission[d] # "pending"
    /\ listening' = FALSE
    /\ UNCHANGED <<host, socket, admission, spent, closing, limiterVars>>

\* tryAcquire succeeds and the connection goes to the server.
Admit(c) ==
    /\ admission[c] = "pending"
    /\ Acquire(host[c])
    /\ admission' = [admission EXCEPT ![c] = "in"]
    /\ UNCHANGED <<listening, host, socket, spent, closing>>

\* tryAcquire fails: the connection is closed and the loop goes on.
TurnAway(c) ==
    /\ admission[c] = "pending"
    /\ Refuse(host[c])
    /\ admission' = [admission EXCEPT ![c] = "refused"]
    /\ socket' = [socket EXCEPT ![c] = "closed"]
    /\ UNCHANGED <<listening, host, spent, closing>>

\* Mutant: Close only gives the slot back.
MutantBeginClose(c, g) ==
    /\ admission[c] = "in"
    /\ g \notin closing[c]
    /\ closing' = [closing EXCEPT ![c] = @ \cup {g}]
    /\ UNCHANGED <<listening, host, socket, admission, spent, limiterVars>>

\* Close up to and including Conn.Close, which a second call repeats.
BeginClose(c, g) ==
    /\ admission[c] = "in"
    /\ g \notin closing[c]
    /\ socket' = [socket EXCEPT ![c] = "closed"]
    /\ closing' = [closing EXCEPT ![c] = @ \cup {g}]
    /\ UNCHANGED <<listening, host, admission, spent, limiterVars>>

\* Mutant: no sync.Once.
MutantFinishClose(c, g) ==
    /\ g \in closing[c]
    /\ closing' = [closing EXCEPT ![c] = @ \ {g}]
    /\ Release(host[c])
    /\ spent' = [spent EXCEPT ![c] = TRUE]
    /\ UNCHANGED <<listening, host, socket, admission>>

\* c.once.Do(c.release) by goroutine g.
FinishClose(c, g) ==
    /\ g \in closing[c]
    /\ closing' = [closing EXCEPT ![c] = @ \ {g}]
    /\ IF spent[c]
       THEN UNCHANGED <<spent, limiterVars>>
       ELSE /\ spent' = [spent EXCEPT ![c] = TRUE]
            /\ Release(host[c])
    /\ UNCHANGED <<listening, host, socket, admission>>

Next ==
    \/ \E c \in Conns :
           \/ Accept(c) \/ Admit(c) \/ TurnAway(c)
           \/ \E g \in Closers : BeginClose(c, g) \/ FinishClose(c, g)
    \/ AcceptFails

Spec == Init /\ [][Next]_vars

-----------------------------------------------------------------------------

\* The listener's own variables have their types.
ConnTypeOK ==
    /\ listening \in BOOLEAN
    /\ host \in [Conns -> Keys]
    /\ socket \in [Conns -> {"none", "open", "closed"}]
    /\ admission \in [Conns -> {"none", "pending", "in", "refused"}]
    /\ spent \in [Conns -> BOOLEAN]
    /\ closing \in [Conns -> SUBSET Closers]

\* Every variable has its type; in particular the counters of the limiter
\* never drop below zero, however often a connection is closed.
TypeOK == ConnTypeOK /\ LimiterTypeOK

\* The connections that occupy a slot.
Holders == {c \in Conns : admission[c] = "in" /\ ~spent[c]}

\* The limiter counts exactly the connections that were admitted and not yet
\* released, whichever goroutines close them, together or again and again.
SlotsMatchConnections == Accounts(Holders, host) /\ WithinLimits

\* What the limits are for: the open sockets the server works on never exceed
\* max_connections nor, for one host, max_connections_per_ip.  It takes the
\* order Conn.Close, then release.
OpenSocketsWithinLimits ==
    LET Open == {c \in Conns : socket[c] = "open" /\ admission[c] = "in"}
    IN  /\ Cardinality(Open) <= MaxTotal
        /\ \A k \in Keys :
               Cardinality({c \in Open : host[c] = k}) <= MaxPerKey

\* A closed connection that still occupies its slot has a goroutine on its way
\* to release it: no slot is lost.
NoSlotLost ==
    \A c \in Holders : socket[c] = "closed" => closing[c] # {}

\* What makes the three above inductive: Close is only called on admitted
\* connections, and the socket is closed before the slot is released.
CloseOrder ==
    \A c \in Conns :
        /\ admission[c] = "pending" => socket[c] = "open" /\ ~spent[c]
        /\ closing[c] # {} => admission[c] = "in"
        /\ closing[c] # {} \/ (admission[c] = "in" /\ spent[c])
               => socket[c] = "closed"

\* The listener implements the pool of slots.
Pool == INSTANCE SlotPool WITH
    Users  <- Conns,
    key    <- host,
    status <- [c \in Conns |-> IF c \in Holders THEN "in"
                               ELSE IF admission[c] = "refused" THEN "denied"
                               ELSE "out"]

\* Every admission, refusal and release is one of SlotPool's: in particular a
\* connection is refused only while a limit is reached by unreleased ones.
ImplementsSlotPool == Pool!Spec
=============================================================================
