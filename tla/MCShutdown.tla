----------------------------- MODULE MCShutdown -----------------------------
(***************************************************************************)
(* Shutdown for TLC: two tunnels beside each other, or one alone for the   *)
(* liveness properties.                                                    *)
(***************************************************************************)
EXTENDS Shutdown, TLC

CONSTANTS a, b

Symmetry == Permutations(Tunnels)
=============================================================================
