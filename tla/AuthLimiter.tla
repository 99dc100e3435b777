---------------------------- MODULE AuthLimiter -----------------------------
(***************************************************************************)
(* authFailureLimiter of internal/proxy/auth_limit.go with the answers     *)
(* that ProxyServer.ServeHTTP derives from it.  attempt holds mu from its  *)
(* first to its last statement, so each path through it is one action.     *)
(*                                                                         *)
(* Instants are kept as distances from now: age is now - windowStart, no   *)
(* longer counted once it reaches the window, and blockedFor is            *)
(* blockedUntil - now, 0 once passed, NoBlock when blockedUntil is the     *)
(* zero time.  A record outlives both, until it is used, removed or        *)
(* evicted.                                                                *)
(***************************************************************************)
EXTENDS Integers, Sequences, FiniteSets

CONSTANTS
    IPs,           \* client hosts that show up
    MaxAttempts,   \* auth.max_failed_attempts
    Window,        \* auth.failure_window, in ticks
    Block,         \* auth.block_duration, in ticks
    MaxIPs,        \* auth.max_tracked_ips
    Second         \* ticks in one second

\* What config.Validate accepts.
ASSUME AuthAssumption ==
    /\ {MaxAttempts, Window, Block, MaxIPs, Second} \subseteq Nat \ {0}
    /\ IsFiniteSet(IPs)

VARIABLES
    byIP,          \* the records, keyed by host
    oldestFirst,   \* the list of their hosts, front first
    answer,        \* the last answer given
    recency,       \* history: the pairs of hosts of which the second was seen
                   \* since the first was seen last
    promised       \* history: ticks left of the last Retry-After given

history == <<recency, promised>>
vars    == <<byIP, oldestFirst, answer, history>>

NoBlock == -1

Tracked == DOMAIN byIP

Blocked(ip) == ip \in Tracked /\ byIP[ip].blockedFor > 0

\* A new or restarted record, before its first failure is counted.
NewWindow == [count |-> 0, age |-> 0, blockedFor |-> NoBlock]

Init ==
    /\ byIP = [ip \in {} |-> NewWindow]
    /\ oldestFirst = <<>>
    /\ answer = [ip |-> "none", verdict |-> "none", retryAfter |-> 0]
    /\ recency = {}
    /\ promised = [ip \in IPs |-> 0]

\* Remove of the element of ip, which is in the list at most once.
Without(s, ip) ==
    IF \E i \in DOMAIN s : s[i] = ip
    THEN LET i == CHOOSE j \in DOMAIN s : s[j] = ip
         IN  [j \in 1 .. Len(s) - 1 |-> IF j < i THEN s[j] ELSE s[j + 1]]
    ELSE s

\* MoveToBack, or PushBack of a host that is not in the list.
ToBack(s, ip) == Append(Without(s, ip), ip)

\* Mutant: the remainder of a second is dropped.
MutantSeconds(t) == t \div Second

\* The Retry-After header for t ticks: seconds, rounded up.
Seconds(t) == t \div Second + (IF t % Second = 0 THEN 0 ELSE 1)

Say(ip, verdict, retryAfter) ==
    answer' = [ip |-> ip, verdict |-> verdict, retryAfter |-> retryAfter]

\* A 429 that announces the end of a block t ticks away.
SayBlocked(ip, t) ==
    /\ Say(ip, "429", Seconds(t))
    /\ promised' = [promised EXCEPT ![ip] = Seconds(t) * Second]

Seen(ip) ==
    recency' = {p \in recency : p[1] # ip} \cup (IPs \ {ip}) \X {ip}

\* Mutant: the record of a blocked host is not moved to the back.
MutantAttemptWhileBlocked(ip) ==
    /\ Blocked(ip)
    /\ SayBlocked(ip, byIP[ip].blockedFor)
    /\ Seen(ip)
    /\ UNCHANGED <<byIP, oldestFirst>>

\* The attempt of a blocked host, whatever its credentials.
AttemptWhileBlocked(ip) ==
    /\ Blocked(ip)
    /\ oldestFirst' = ToBack(oldestFirst, ip)
    /\ SayBlocked(ip, byIP[ip].blockedFor)
    /\ Seen(ip)
    /\ UNCHANGED byIP

\* Mutant: right credentials end a block.
MutantAttemptValid(ip) ==
    /\ byIP' = [k \in Tracked \ {ip} |-> byIP[k]]
    /\ oldestFirst' = Without(oldestFirst, ip)
    /\ Say(ip, "pass", 0)
    /\ Seen(ip)
    /\ UNCHANGED promised

\* An attempt with the right credentials.
AttemptValid(ip) ==
    /\ ~Blocked(ip)
    /\ byIP' = [k \in Tracked \ {ip} |-> byIP[k]]
    /\ oldestFirst' = Without(oldestFirst, ip)
    /\ Say(ip, "pass", 0)
    /\ Seen(ip)
    /\ UNCHANGED promised

\* Mutant: a block that has run out does not restart the count.
MutantWindowOpenAfterBlock(ip) ==
    /\ ip \in Tracked
    /\ byIP[ip].age < Window

\* Whether the record of ip still counts in its window.
WindowOpen(ip) ==
    /\ ip \in Tracked
    /\ byIP[ip].blockedFor = NoBlock
    /\ byIP[ip].age < Window

\* Mutant: one failure too many is tolerated.
MutantAfterFailure(ip) ==
    LET base  == IF WindowOpen(ip) THEN byIP[ip] ELSE NewWindow
        count == base.count + 1
    IN  [base EXCEPT !.count = count,
                     !.blockedFor = IF count > MaxAttempts THEN Block ELSE @]

\* The record of ip once this failure is counted.
AfterFailure(ip) ==
    LET base  == IF WindowOpen(ip) THEN byIP[ip] ELSE NewWindow
        count == base.count + 1
    IN  [base EXCEPT !.count = count,
                     !.blockedFor = IF count >= MaxAttempts THEN Block ELSE @]

\* The record dropped to make room for ip: the front of the list, if full.
Evicted(ip) ==
    IF ip \notin Tracked /\ Cardinality(Tracked) >= MaxIPs
    THEN {Head(oldestFirst)}
    ELSE {}

\* An attempt with missing or wrong credentials.
AttemptInvalid(ip) ==
    /\ ~Blocked(ip)
    /\ LET record  == AfterFailure(ip)
           blocked == record.blockedFor = Block
           left    == IF Evicted(ip) = {} THEN oldestFirst ELSE Tail(oldestFirst)
       IN  /\ byIP' = [k \in (Tracked \ Evicted(ip)) \cup {ip} |->
                          IF k = ip THEN record ELSE byIP[k]]
           /\ oldestFirst' = ToBack(left, ip)
           /\ IF blocked
              THEN SayBlocked(ip, Block)
              ELSE Say(ip, "407", 0) /\ UNCHANGED promised
    /\ Seen(ip)

\* l.now advances by one tick.
Tick ==
    /\ byIP' = [ip \in Tracked |->
           [byIP[ip] EXCEPT
               !.age = IF @ < Window THEN @ + 1 ELSE @,
               !.blockedFor = IF @ > 0 THEN @ - 1 ELSE @]]
    /\ promised' = [ip \in IPs |-> IF promised[ip] > 0 THEN promised[ip] - 1 ELSE 0]
    /\ UNCHANGED <<oldestFirst, answer, recency>>

Next ==
    \/ \E ip \in IPs :
           AttemptWhileBlocked(ip) \/ AttemptValid(ip) \/ AttemptInvalid(ip)
    \/ Tick

Spec == Init /\ [][Next]_vars

-----------------------------------------------------------------------------

\* The last attempt of v came after the last one of ip.
SeenLaterThan(v, ip) == <<ip, v>> \in recency /\ <<v, ip>> \notin recency

\* Every variable has its type: no record counts beyond max_failed_attempts or
\* blocks for longer than block_duration.
TypeOK ==
    /\ Tracked \subseteq IPs
    /\ \A ip \in Tracked :
           byIP[ip] \in [count      : 1 .. MaxAttempts,
                         age        : 0 .. Window,
                         blockedFor : {NoBlock} \cup 0 .. Block]
    /\ oldestFirst \in Seq(IPs)
    /\ recency \subseteq IPs \X IPs
    /\ promised \in [IPs -> Nat]

\* The list and the map hold the same hosts, each once and at most MaxIPs of
\* them, in the order in which they were last seen: what eviction removes is
\* the record of the least recently seen host, whichever attempts of whatever
\* result came before.
ListIsLeastRecentFirst ==
    /\ {oldestFirst[i] : i \in DOMAIN oldestFirst} = Tracked
    /\ \A i, j \in DOMAIN oldestFirst : i < j =>
           SeenLaterThan(oldestFirst[j], oldestFirst[i])
    /\ Len(oldestFirst) <= MaxIPs

\* Who waits as long as Retry-After says finds the block over, and is not made
\* to wait a second longer than needed.
RetryAfterSuffices ==
    \A ip \in IPs : Blocked(ip) =>
        /\ byIP[ip].blockedFor <= promised[ip]
        /\ promised[ip] < byIP[ip].blockedFor + Second

\* A block ends only by running out, or by the eviction of the least recently
\* seen of MaxIPs records; no login ends it.
BlockEndsByTimeOrEviction ==
    [][\A ip \in IPs :
          /\ Blocked(ip) /\ byIP[ip].blockedFor > 1 /\ ~Blocked(ip)'
          => /\ Cardinality(Tracked) = MaxIPs
             /\ \A v \in Tracked \ {ip} : SeenLaterThan(v, ip)]_vars

\* A record seen as the policy sees the host.
Standing(ip) ==
    [failures   |-> IF WindowOpen(ip) THEN byIP[ip].count ELSE 0,
     windowLeft |-> IF WindowOpen(ip) THEN Window - byIP[ip].age ELSE 0,
     blockedFor |-> IF Blocked(ip) THEN byIP[ip].blockedFor ELSE 0]

Policy == INSTANCE AuthPolicy WITH standing <- [ip \in IPs |-> Standing(ip)]

\* Every client sees the answers of the policy: a host gets blocked only by
\* MaxAttempts failures of its own within one window, after its last login and
\* its last block; windows and blocks that have lapsed leave no trace although
\* their records stay, are reused or evicted.
ImplementsPolicy == Policy!Spec
=============================================================================
