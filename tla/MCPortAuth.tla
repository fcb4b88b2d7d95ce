----------------------------- MODULE MCPortAuth -----------------------------
(* PortAuth on small instances.                                               *)
EXTENDS PortAuth, TLC

\* Sound for safety: no address, user request or check is named.
Symmetry == Permutations(IPs)
=============================================================================
