------------------------- MODULE ConcurrentLimiter --------------------------
(***************************************************************************)
(* The admission counter of internal/proxy/limits.go, used twice: for the  *)
(* client connections (Listener) and for the CONNECT tunnels (Failover).   *)
(* tryAcquire and the body of a release closure each run under the mutex   *)
(* mu, so each is one operator.  The sync.Once around the release belongs  *)
(* to its caller: Release is the body that runs at most once.              *)
(***************************************************************************)
EXTENDS Integers, FiniteSets

CONSTANTS
    Keys,       \* client hosts
    MaxTotal,   \* l.maxTotal
    MaxPerKey   \* l.maxPerKey

\* What config.Validate accepts, for connections and for tunnels.
ASSUME LimiterAssumption ==
    /\ MaxTotal \in Nat \ {0}
    /\ MaxPerKey \in 1 .. MaxTotal

VARIABLES
    total,    \* slots held
    perKey    \* slots held by each key; a key that holds none has no entry

limiterVars == <<total, perKey>>

\* The counters are numbers, and only client hosts have an entry.
LimiterTypeOK ==
    /\ total \in Nat
    /\ DOMAIN perKey \subseteq Keys
    /\ \A k \in DOMAIN perKey : perKey[k] \in Nat

LimiterInit ==
    /\ total = 0
    /\ perKey = [k \in {} |-> 0]

\* l.perKey[key] of a Go map: 0 when there is no entry.
Held(key) == IF key \in DOMAIN perKey THEN perKey[key] ELSE 0

\* Mutant: one slot more than the limits allow.
MutantCanAcquire(key) == total <= MaxTotal /\ Held(key) <= MaxPerKey

CanAcquire(key) == total < MaxTotal /\ Held(key) < MaxPerKey

\* tryAcquire(key) returns a release closure.
Acquire(key) ==
    /\ CanAcquire(key)
    /\ total' = total + 1
    /\ perKey' = [k \in DOMAIN perKey \cup {key} |->
                     IF k = key THEN Held(key) + 1 ELSE perKey[k]]

\* tryAcquire(key) returns false.
Refuse(key) == ~CanAcquire(key) /\ UNCHANGED limiterVars

\* Mutant: the entry of a key that holds nothing any more stays in the map.
MutantRelease(key) ==
    /\ total' = total - 1
    /\ perKey' = [k \in DOMAIN perKey \cup {key} |->
                     IF k = key THEN Held(key) - 1 ELSE perKey[k]]

\* The release closure, first call.
Release(key) ==
    /\ total' = total - 1
    /\ LET left == Held(key) - 1
       IN  perKey' = [k \in (DOMAIN perKey \cup {key})
                            \ (IF left = 0 THEN {key} ELSE {}) |->
                         IF k = key THEN left ELSE perKey[k]]

\* The counters describe exactly the slots that the holders occupy, owner[h]
\* being the key of holder h, and respect both limits.  Asserted by the
\* modules that use the limiter.
Accounts(holders, owner) ==
    /\ total = Cardinality(holders)
    /\ DOMAIN perKey = {owner[h] : h \in holders}
    /\ \A k \in DOMAIN perKey :
           perKey[k] = Cardinality({h \in holders : owner[h] = k})

WithinLimits ==
    /\ total <= MaxTotal
    /\ \A k \in DOMAIN perKey : perKey[k] <= MaxPerKey
=============================================================================
