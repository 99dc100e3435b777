----------------------------- MODULE RoundRobin -----------------------------
(***************************************************************************)
(* The balancer under arbitrary callers: any number of requests call Next, *)
(* with or without an upstream to exclude, and report failures and         *)
(* successes in any order while the clock advances.  The question is what  *)
(* the shared cursor b.current still promises when it is moved by first    *)
(* attempts and by retries alike.                                          *)
(***************************************************************************)
EXTENDS Balancer

VARIABLE
    since   \* history: since[i][j] counts the selections of j made since i
            \* was last selected or last not selectable at a selection

vars == <<current, unhealthyFor, since>>

Init ==
    /\ BalancerInit
    /\ since = [i \in Upstreams |-> [j \in Upstreams |-> 0]]

\* Next(exclude) returns pick; since follows.
Selected(exclude, pick) ==
    /\ Select(exclude, pick)
    /\ since' = [i \in Upstreams |->
           IF i = pick \/ i \notin Available(exclude)
           THEN [j \in Upstreams |-> 0]
           ELSE [since[i] EXCEPT ![pick] = @ + 1]]

\* Next(exclude) finds nothing, so no upstream was selectable.
Unavailable(exclude) ==
    /\ SelectNone(exclude)
    /\ since' = [i \in Upstreams |-> [j \in Upstreams |-> 0]]

Failed(i) == MarkFailure(i) /\ UNCHANGED since

Succeeded(i) == MarkSuccess(i) /\ UNCHANGED since

Elapse ==
    /\ \E i \in Upstreams : ~Healthy(i)
    /\ Tick
    /\ UNCHANGED since

Excludable == Upstreams \cup {NoExclude}

Next ==
    \/ \E exclude \in Excludable, pick \in Upstreams : Selected(exclude, pick)
    \/ \E exclude \in Excludable : Unavailable(exclude)
    \/ \E i \in Upstreams : Failed(i) \/ Succeeded(i)
    \/ Elapse

Spec == Init /\ [][Next]_vars

-----------------------------------------------------------------------------

\* The cursor is an index of the upstream list and no upstream stays excluded
\* for longer than the cooldown.
TypeOK ==
    /\ BalancerTypeOK
    /\ since \in [Upstreams -> [Upstreams -> Nat]]

\* No upstream is served twice while another one waits selectable: between two
\* selections of j every upstream that stayed selectable has had its turn, no
\* matter which retries, failures and recoveries moved the shared cursor.  A
\* selectable upstream therefore waits at most N - 1 selections.
NotOvertaken == \A i, j \in Upstreams : since[i][j] <= 1

\* The strengthening that is inductive: j was served before i waited only if
\* the scan now meets i before j.
Behind ==
    \A i, j \in Upstreams :
        /\ since[i][j] <= 1
        /\ since[i][j] = 1 => Offset(i) < Offset(j)
=============================================================================
