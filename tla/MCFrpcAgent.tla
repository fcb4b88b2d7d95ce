---------------------------- MODULE MCFrpcAgent ----------------------------
(* FrpcAgent on a small instance: model values for requests and              *)
(* configurations, which are interchangeable where the module never names    *)
(* one of them.                                                              *)
EXTENDS FrpcAgent, TLC

\* Sound for safety only: no request is named, and the valid configurations
\* are told apart only by equality.
Symmetry == Permutations(Requests) \cup Permutations(ValidConfigs)
=============================================================================
