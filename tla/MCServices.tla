----------------------------- MODULE MCServices -----------------------------
(* Instances of Services for TLC. *)
EXTENDS Services

\* An address refills its default bucket in two units of time and its api
\* bucket in three, and is forgotten after three.
SmallRate == [k \in Classes |-> IF k = "api" THEN 1 ELSE 2]
SmallBurst == [k \in Classes |-> IF k = "api" THEN 3 ELSE 4]

\* One source is built in.
OneDefault == [s \in Stores |-> IF s = "sources" THEN {"n1"} ELSE {}]

\* Of the five migrations, the third alters the table of the second, and the
\* fourth and fifth index those of the first and second.
Order == <<{}, {}, {2}, {1}, {2}>>
=============================================================================
