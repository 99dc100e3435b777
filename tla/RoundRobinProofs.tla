-------------------------- MODULE RoundRobinProofs --------------------------
(***************************************************************************)
(* For every number of upstreams, every cooldown and every interleaving of *)
(* callers, the round-robin balancer serves no upstream twice while        *)
(* another one waits selectable.                                           *)
(***************************************************************************)
EXTENDS RoundRobin, TLAPS

-----------------------------------------------------------------------------
(* The circular scan *)

\* Offsets lie in 0 .. N - 1 and tell upstreams apart: the scan meets every
\* upstream once.
LEMMA OffsetFacts ==
    ASSUME N \in Nat \ {0}, current \in Upstreams,
           NEW i \in Upstreams, NEW j \in Upstreams
    PROVE  /\ Offset(i) \in 0 .. N - 1
           /\ Offset(i) = Offset(j) => i = j
  BY DEF Offset, Upstreams

\* Moving the cursor just past k sends k to the end of the scan and brings
\* every upstream that came after k forward by the same distance.
LEMMA OffsetAfterSelect ==
    ASSUME N \in Nat \ {0}, current \in Upstreams, NEW k \in Upstreams,
           NEW i \in Upstreams, current' = Successor(k)
    PROVE  /\ Offset(k)' = N - 1
           /\ Offset(k) < Offset(i) => Offset(i)' = Offset(i) - Offset(k) - 1
  BY DEF Offset, Upstreams, Successor

-----------------------------------------------------------------------------
(* Type correctness *)

\* Every reachable state is well typed: the cursor is an index of the
\* upstream list and no upstream is excluded for longer than the cooldown.
THEOREM TypeCorrect == Spec => []TypeOK
<1> USE BalancerAssumption
<1>1. Init => TypeOK
  BY DEF Init, BalancerInit, TypeOK, BalancerTypeOK, Upstreams
<1>2. TypeOK /\ [Next]_vars => TypeOK'
  <2> SUFFICES ASSUME TypeOK, [Next]_vars PROVE TypeOK'
    OBVIOUS
  <2>1. ASSUME NEW exclude \in Excludable, NEW pick \in Upstreams,
               Selected(exclude, pick)
        PROVE  TypeOK'
    <3>1. current' \in Upstreams /\ unhealthyFor' = unhealthyFor
      BY <2>1 DEF TypeOK, BalancerTypeOK, Selected, Select, Successor, Upstreams
    <3>2. ASSUME NEW i \in Upstreams
          PROVE  [since[i] EXCEPT ![pick] = @ + 1] \in [Upstreams -> Nat]
      <4>1. since[i] \in [Upstreams -> Nat]
        BY DEF TypeOK
      <4> QED
        BY <4>1
    <3>3. [j \in Upstreams |-> 0] \in [Upstreams -> Nat]
      OBVIOUS
    <3>4. since' \in [Upstreams -> [Upstreams -> Nat]]
      BY <2>1, <3>2, <3>3 DEF Selected
    <3> QED
      BY <3>1, <3>4 DEF TypeOK, BalancerTypeOK
  <2>2. ASSUME NEW exclude \in Excludable, Unavailable(exclude)
        PROVE  TypeOK'
    BY <2>2 DEF TypeOK, BalancerTypeOK, Unavailable, SelectNone, balancerVars
  <2>3. ASSUME NEW i \in Upstreams, Failed(i)
        PROVE  TypeOK'
    BY <2>3 DEF TypeOK, BalancerTypeOK, Failed, MarkFailure
  <2>4. ASSUME NEW i \in Upstreams, Succeeded(i)
        PROVE  TypeOK'
    BY <2>4 DEF TypeOK, BalancerTypeOK, Succeeded, MarkSuccess
  <2>5. CASE Elapse
    BY <2>5 DEF TypeOK, BalancerTypeOK, Elapse, Tick
  <2>6. CASE UNCHANGED vars
    BY <2>6 DEF TypeOK, BalancerTypeOK, vars, Upstreams
  <2> QED
    BY <2>1, <2>2, <2>3, <2>4, <2>5, <2>6 DEF Next
<1> QED
  BY <1>1, <1>2, PTL DEF Spec

-----------------------------------------------------------------------------
(* Fair rotation *)

\* A selection keeps the order: whoever was served before i waited stays
\* behind i, and the upstream selected now goes to the very end.
LEMMA SelectedKeepsBehind ==
    ASSUME N \in Nat \ {0}, Algorithm = "roundrobin", TypeOK, Behind,
           NEW exclude \in Excludable, NEW pick \in Upstreams,
           Selected(exclude, pick)
    PROVE  Behind'
<1> SUFFICES ASSUME NEW i \in Upstreams, NEW j \in Upstreams
             PROVE  /\ since'[i][j] <= 1
                    /\ since'[i][j] = 1 => Offset(i)' < Offset(j)'
  BY DEF Behind
<1>1. current \in Upstreams /\ current' = Successor(pick)
  BY DEF TypeOK, BalancerTypeOK, Selected, Select
<1>2. CASE i = pick \/ i \notin Available(exclude)
  BY <1>2 DEF Selected
<1>3. CASE i # pick /\ i \in Available(exclude)
  <2>1. Offset(pick) < Offset(i)
    <3>1. Offset(pick) <= Offset(i)
      BY <1>3 DEF Selected, Select, Picks
    <3> QED
      BY <1>1, <1>3, <3>1, OffsetFacts
  <2>2. /\ Offset(i)' = Offset(i) - Offset(pick) - 1
        /\ Offset(pick)' = N - 1
    BY <1>1, <2>1, OffsetAfterSelect
  <2>3. since'[i] = [since[i] EXCEPT ![pick] = @ + 1]
    BY <1>3 DEF Selected
  <2>4. CASE j = pick
    <3>1. since[i][pick] = 0
      <4>1. since[i][pick] # 1
        BY <1>1, <2>1, OffsetFacts DEF Behind
      <4>2. since[i][pick] \in Nat /\ since[i][pick] <= 1
        BY DEF TypeOK, Behind
      <4> QED
        BY <4>1, <4>2
    <3>2. since'[i][j] = 1
      BY <2>3, <2>4, <3>1 DEF TypeOK
    <3> QED
      BY <1>1, <2>2, <2>4, <3>2, OffsetFacts
  <2>5. CASE j # pick
    <3>1. since'[i][j] = since[i][j]
      BY <2>3, <2>5 DEF TypeOK
    <3>2. since[i][j] = 1 => Offset(i) < Offset(j)
      BY DEF Behind
    <3>3. since[i][j] = 1 =>
              Offset(j)' = Offset(j) - Offset(pick) - 1
      BY <1>1, <2>1, <3>2, OffsetAfterSelect, OffsetFacts
    <3> QED
      BY <1>1, <2>2, <3>1, <3>2, <3>3, OffsetFacts DEF Behind
  <2> QED
    BY <2>4, <2>5
<1> QED
  BY <1>2, <1>3

\* The rank in the scan decides who was served: whoever was served while
\* another one waited selectable is met after it by Balancer.Next.
LEMMA ScanOrder == Algorithm = "roundrobin" => (Spec => []Behind)
<1> SUFFICES ASSUME Algorithm = "roundrobin" PROVE Spec => []Behind
  OBVIOUS
<1> USE BalancerAssumption
<1>1. Init => Behind
  BY DEF Init, Behind
<1>2. TypeOK /\ Behind /\ [Next]_vars => Behind'
  <2> SUFFICES ASSUME TypeOK, Behind, [Next]_vars PROVE Behind'
    OBVIOUS
  <2>1. ASSUME NEW exclude \in Excludable, NEW pick \in Upstreams,
               Selected(exclude, pick)
        PROVE  Behind'
    BY <2>1, SelectedKeepsBehind
  <2>2. ASSUME NEW exclude \in Excludable, Unavailable(exclude)
        PROVE  Behind'
    BY <2>2 DEF Behind, Unavailable
  <2>3. ASSUME current' = current, since' = since PROVE Behind'
    BY <2>3 DEF Behind, Offset
  <2> QED
    BY <2>1, <2>2, <2>3
       DEF Next, Failed, Succeeded, Elapse, MarkFailure, MarkSuccess, Tick, vars
<1> QED
  BY <1>1, <1>2, TypeCorrect, PTL DEF Spec

\* With algorithm "roundrobin", between two selections of one upstream every
\* upstream that stayed selectable had its turn, whichever mixture of first
\* attempts, retries with an exclusion, failures and recoveries moved the
\* cursor Balancer.Next shares between all requests.
THEOREM FairRotation == Algorithm = "roundrobin" => (Spec => []NotOvertaken)
<1>1. Behind => NotOvertaken
  BY DEF Behind, NotOvertaken
<1> QED
  BY <1>1, ScanOrder, PTL
=============================================================================
