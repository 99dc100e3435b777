----------------------------- MODULE AuthPolicy -----------------------------
(***************************************************************************)
(* What the limit on failed logins promises a client host, without records *)
(* that outlive their meaning: a window of failures closes by itself, a    *)
(* block ends by itself, and a host with neither is clean.  The memory is  *)
(* bounded by MaxIPs records, so with more hosts than that a failure of a  *)
(* clean host may make the proxy forget another one.                       *)
(***************************************************************************)
EXTENDS Integers, FiniteSets

CONSTANTS IPs, MaxAttempts, Window, Block, MaxIPs, Second

VARIABLES
    standing,   \* failures in the open window, its ticks left, block left
    answer      \* the last answer given

vars == <<standing, answer>>

Clean == [failures |-> 0, windowLeft |-> 0, blockedFor |-> 0]

\* Whole seconds that cover t ticks.
Seconds(t) == (t + Second - 1) \div Second

Init ==
    /\ standing = [ip \in IPs |-> Clean]
    /\ answer = [ip |-> "none", verdict |-> "none", retryAfter |-> 0]

Say(ip, verdict, retryAfter) ==
    answer' = [ip |-> ip, verdict |-> verdict, retryAfter |-> retryAfter]

\* A blocked host is refused whatever its credentials.
Refuse(ip) ==
    /\ standing[ip].blockedFor > 0
    /\ Say(ip, "429", Seconds(standing[ip].blockedFor))
    /\ UNCHANGED standing

Login(ip) ==
    /\ standing[ip].blockedFor = 0
    /\ Say(ip, "pass", 0)
    /\ standing' = [standing EXCEPT ![ip] = Clean]

\* The standing of a host after one more failure.
AfterFailure(s) ==
    IF s.failures + 1 >= MaxAttempts
    THEN [Clean EXCEPT !.blockedFor = Block]
    ELSE [failures   |-> s.failures + 1,
          windowLeft |-> IF s.failures = 0 THEN Window ELSE s.windowLeft,
          blockedFor |-> 0]

\* The hosts that a failure of ip may displace, at most one at a time.
Displaced(ip) ==
    IF standing[ip] = Clean /\ Cardinality(IPs) > MaxIPs
    THEN {{v} : v \in IPs \ {ip}} \cup {{}}
    ELSE {{}}

Fail(ip) ==
    /\ standing[ip].blockedFor = 0
    /\ LET next == AfterFailure(standing[ip])
       IN  /\ \E gone \in Displaced(ip) :
                  standing' = [v \in IPs |-> IF v = ip THEN next
                                             ELSE IF v \in gone THEN Clean
                                             ELSE standing[v]]
           /\ IF next.blockedFor > 0
              THEN Say(ip, "429", Seconds(Block))
              ELSE Say(ip, "407", 0)

Older(s) ==
    IF s.blockedFor > 0 THEN [s EXCEPT !.blockedFor = @ - 1]
    ELSE IF s.windowLeft <= 1 THEN Clean
    ELSE [s EXCEPT !.windowLeft = @ - 1]

Tick ==
    /\ standing' = [ip \in IPs |-> Older(standing[ip])]
    /\ UNCHANGED answer

Next == Tick \/ \E ip \in IPs : Refuse(ip) \/ Login(ip) \/ Fail(ip)

Spec == Init /\ [][Next]_vars
=============================================================================
