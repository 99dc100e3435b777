--------------------------- MODULE TunnelRegistry ---------------------------
(***************************************************************************)
(* tunnelRegistry of internal/proxy/tunnel.go: the set of open tunnels and *)
(* the WaitGroup that Run waits on.  Each operator is one critical section *)
(* of the mutex mu.  Shutdown drives it.                                   *)
(***************************************************************************)
EXTENDS Integers, FiniteSets

CONSTANT Tunnels    \* CONNECT handlers

VARIABLES
    closing,   \* r.closing
    active,    \* keys of r.active
    wait       \* the counter of r.wait

registryVars == <<closing, active, wait>>

RegistryInit == closing = FALSE /\ active = {} /\ wait = 0

\* Mutant: a tunnel registers although the registry is closing.
MutantTrack(t) ==
    /\ active' = active \cup {t}
    /\ wait' = wait + 1
    /\ UNCHANGED closing

\* Mutant: wait.Add is missing.
MutantTrackUncounted(t) ==
    /\ ~closing
    /\ active' = active \cup {t}
    /\ UNCHANGED <<closing, wait>>

\* track(closePair) returns a release closure.
Track(t) ==
    /\ ~closing
    /\ active' = active \cup {t}
    /\ wait' = wait + 1
    /\ UNCHANGED closing

\* track(closePair) returns false.
TrackRefused == closing /\ UNCHANGED registryVars

\* Mutant: wait.Done is missing.
MutantUntrack(t) == active' = active \ {t} /\ UNCHANGED <<closing, wait>>

\* The release closure.
Untrack(t) ==
    /\ IF t \in active
       THEN active' = active \ {t} /\ wait' = wait - 1
       ELSE UNCHANGED <<active, wait>>
    /\ UNCHANGED closing

\* Mutant: the pairs are collected, but the registry stays open.
MutantStartClosing == UNCHANGED registryVars

\* The critical section of closeAll; the caller then closes the pairs that
\* are active at this moment.
StartClosing == closing' = TRUE /\ UNCHANGED <<active, wait>>
=============================================================================
