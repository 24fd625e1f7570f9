----------------------------- MODULE TokenBucket -----------------------------
(***************************************************************************)
(* What the rate limiter promises: each address has a bucket per class of  *)
(* path, which fills by Rate up to Burst and of which an admitted request  *)
(* takes one token.  No bucket is ever forgotten or shared.                *)
(***************************************************************************)
EXTENDS Naturals

CONSTANTS IPs, Classes, Rate, Burst

VARIABLES bucket, admitted   \* admitted: the answer to the last request

Full == [ip \in IPs |-> [k \in Classes |-> Burst[k]]]

Init == bucket = Full /\ admitted = TRUE

Filled(n, k) == IF n + Rate[k] > Burst[k] THEN Burst[k] ELSE n + Rate[k]

Tick ==
    /\ bucket' = [ip \in IPs |-> [k \in Classes |-> Filled(bucket[ip][k], k)]]
    /\ UNCHANGED admitted

Request(ip, k) ==
    /\ admitted' = (bucket[ip][k] > 0)
    /\ bucket' = IF bucket[ip][k] > 0 THEN [bucket EXCEPT ![ip][k] = @ - 1] ELSE bucket

Restart == bucket' = Full /\ UNCHANGED admitted

Next ==
    \/ Tick
    \/ \E ip \in IPs, k \in Classes : Request(ip, k)
    \/ Restart

Spec == Init /\ [][Next]_<<bucket, admitted>>
=============================================================================
