----------------------------- MODULE MCRdClient -----------------------------
(* Instances of RdClient for TLC. *)
EXTENDS RdClient

\* As in MCRdKeyPool: every key has a displayed form of its own.
DistinctMasks ==
    CHOOSE m \in [Tokens -> Masks] : \A s, t \in Tokens : s # t => m[s] # m[t]
=============================================================================
