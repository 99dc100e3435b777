------------------------------ MODULE SlotPool ------------------------------
(***************************************************************************)
(* What admission control promises, without counters: each of a set of     *)
(* users is out, holds a slot or was turned away; a slot is granted only   *)
(* below both limits and a user is turned away only at one of them.        *)
(***************************************************************************)
EXTENDS Integers, FiniteSets

CONSTANTS Users, Keys, MaxTotal, MaxPerKey

VARIABLES
    status,   \* status[u] \in {"out", "in", "denied"}
    key       \* the client host u comes from

vars == <<status, key>>

Inside      == {u \in Users : status[u] = "in"}
InsideOf(k) == {u \in Inside : key[u] = k}

Room(k) == /\ Cardinality(Inside) < MaxTotal
           /\ Cardinality(InsideOf(k)) < MaxPerKey

Init ==
    /\ status = [u \in Users |-> "out"]
    /\ key \in [Users -> Keys]

Come(u, k) ==
    /\ status[u] # "in"
    /\ key' = [key EXCEPT ![u] = k]
    /\ status' = [status EXCEPT ![u] = "out"]

Grant(u) ==
    /\ status[u] = "out"
    /\ Room(key[u])
    /\ status' = [status EXCEPT ![u] = "in"]
    /\ UNCHANGED key

Deny(u) ==
    /\ status[u] = "out"
    /\ ~Room(key[u])
    /\ status' = [status EXCEPT ![u] = "denied"]
    /\ UNCHANGED key

GiveBack(u) ==
    /\ status[u] = "in"
    /\ status' = [status EXCEPT ![u] = "out"]
    /\ UNCHANGED key

Next == \E u \in Users :
    \/ \E k \in Keys : Come(u, k)
    \/ Grant(u) \/ Deny(u) \/ GiveBack(u)

Spec == Init /\ [][Next]_vars
=============================================================================
