---------------------------- MODULE MCRdKeyPool ----------------------------
(* Instances of RdKeyPool for TLC. *)
EXTENDS RdKeyPool

\* Real keys are long and random: here every key has a displayed form of its
\* own, the sets Tokens and Masks being paired in an arbitrary order.
DistinctMasks ==
    CHOOSE m \in [Tokens -> Masks] : \A s, t \in Tokens : s # t => m[s] # m[t]
=============================================================================
