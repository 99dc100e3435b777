----------------------------- MODULE MCListener -----------------------------
(***************************************************************************)
(* Listener for TLC: four connection objects over two hosts, with limits   *)
(* that make both the total and the per-host refusal happen, and two       *)
(* goroutines that race to close each connection.                          *)
(***************************************************************************)
EXTENDS Listener, TLC

CONSTANTS a1, a2, a3, a4, h1, h2, g1, g2

Symmetry == Permutations(Conns) \cup Permutations(Keys) \cup Permutations(Closers)
=============================================================================
