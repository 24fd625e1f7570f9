---------------------------- MODULE SingleFlight ----------------------------
(***************************************************************************)
(* What a table of work in progress promises: a worker takes a key only    *)
(* when nobody has it, keeps it until it is done, and is done eventually.  *)
(* StreamCache implements it with swrInFlight.                             *)
(***************************************************************************)
CONSTANTS Keys, Workers, Nobody

VARIABLE holder

Init == holder = [k \in Keys |-> Nobody]

Acquire(k, w) ==
    /\ holder[k] = Nobody
    /\ \A j \in Keys : holder[j] # w
    /\ holder' = [holder EXCEPT ![k] = w]

Release(k) ==
    /\ holder[k] # Nobody
    /\ holder' = [holder EXCEPT ![k] = Nobody]

\* A restart of the process.
Reset == holder' = [k \in Keys |-> Nobody]

Next ==
    \/ \E k \in Keys, w \in Workers : Acquire(k, w)
    \/ \E k \in Keys : Release(k)
    \/ Reset

Spec ==
    /\ Init
    /\ [][Next]_holder
    /\ \A k \in Keys : WF_holder(Release(k))
=============================================================================
