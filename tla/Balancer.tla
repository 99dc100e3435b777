------------------------------ MODULE Balancer ------------------------------
(***************************************************************************)
(* The upstream selector of internal/balancer.  Every exported method      *)
(* holds the mutex mu from its first to its last statement, so each is one *)
(* operator relating a state to its successor.  The module has no          *)
(* specification of its own: RoundRobin drives it with arbitrary callers,  *)
(* Failover with the two request handlers.                                 *)
(*                                                                         *)
(* The code compares a clock with the instants unhealthyUntil[i]; only the *)
(* time left matters, so the model keeps unhealthyFor[i], the ticks left   *)
(* until unhealthyUntil[i], 0 once that instant is not in the future.      *)
(***************************************************************************)
EXTENDS Integers

CONSTANTS
    N,          \* number of configured upstreams, len(b.upstreams)
    Algorithm,  \* b.algorithm: "roundrobin" or "random"
    Cooldown    \* b.cooldown, in ticks

\* What config.Validate accepts.
ASSUME BalancerAssumption ==
    /\ N \in Nat \ {0}
    /\ Algorithm \in {"roundrobin", "random"}
    /\ Cooldown \in Nat \ {0}

VARIABLES
    current,       \* index at which the next round-robin scan starts
    unhealthyFor   \* ticks until each upstream is selectable again

balancerVars == <<current, unhealthyFor>>

Upstreams == 0 .. N - 1

\* The argument of Next for a first selection.
NoExclude == -1

BalancerTypeOK ==
    /\ current \in Upstreams
    /\ unhealthyFor \in [Upstreams -> 0 .. Cooldown]

BalancerInit ==
    /\ current = 0
    /\ unhealthyFor = [i \in Upstreams |-> 0]

\* !now.Before(b.unhealthyUntil[i])
Healthy(i) == unhealthyFor[i] = 0

Available(exclude) == {i \in Upstreams : i # exclude /\ Healthy(i)}

\* The offset at which the scan that starts at current meets i.
Offset(i) == IF i >= current THEN i - current ELSE i + N - current

\* (i + 1) % N
Successor(i) == IF i = N - 1 THEN 0 ELSE i + 1

\* The upstreams Next may return: the first one of the circular scan, or any
\* available one when the algorithm is random.
Picks(exclude) ==
    {i \in Available(exclude) :
        Algorithm = "roundrobin" =>
            \A j \in Available(exclude) : Offset(i) <= Offset(j)}

\* Mutant: the cursor moves past its old position, not past the selection.
MutantSelect(exclude, i) ==
    /\ i \in Picks(exclude)
    /\ current' = IF Algorithm = "random" THEN current ELSE Successor(current)
    /\ UNCHANGED unhealthyFor

\* Next(exclude) returns (i, true).
Select(exclude, i) ==
    /\ i \in Picks(exclude)
    /\ current' = IF Algorithm = "random" THEN current ELSE Successor(i)
    /\ UNCHANGED unhealthyFor

\* Next(exclude) returns (_, false).
SelectNone(exclude) ==
    /\ Available(exclude) = {}
    /\ UNCHANGED balancerVars

MarkFailure(i) ==
    /\ unhealthyFor' = [unhealthyFor EXCEPT ![i] = Cooldown]
    /\ UNCHANGED current

MarkSuccess(i) ==
    /\ unhealthyFor' = [unhealthyFor EXCEPT ![i] = 0]
    /\ UNCHANGED current

\* The clock b.now advances by one tick.
Tick ==
    /\ unhealthyFor' = [i \in Upstreams |->
           IF unhealthyFor[i] > 0 THEN unhealthyFor[i] - 1 ELSE 0]
    /\ UNCHANGED current
=============================================================================
