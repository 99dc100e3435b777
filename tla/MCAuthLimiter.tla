---------------------------- MODULE MCAuthLimiter ---------------------------
(***************************************************************************)
(* AuthLimiter for TLC: three hosts and two records, so that the third     *)
(* host evicts one; with three records nothing is ever forgotten.          *)
(***************************************************************************)
EXTENDS AuthLimiter, TLC

CONSTANTS ip1, ip2, ip3

Symmetry == Permutations(IPs)
=============================================================================
