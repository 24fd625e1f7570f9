-------------------------- MODULE MCStreamHealth --------------------------
(* Instances of StreamHealth for TLC. *)
EXTENDS StreamHealth, TLC

\* Links, requests and workers are interchangeable.
Symmetric == Permutations(Links) \cup Permutations(Requests) \cup Permutations(Workers)
=============================================================================
