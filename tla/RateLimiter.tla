----------------------------- MODULE RateLimiter -----------------------------
(***************************************************************************)
(* The per-address rate limiter: a table of limiters, made on the first    *)
(* request of an address and deleted by a cleanup when the address has not *)
(* been seen for a while.  The two limiters of an address, one for /api/   *)
(* and one for the rest, are made and deleted together.                    *)
(*                                                                         *)
(* A limiter of golang.org/x/time/rate is a bucket of whole tokens here,   *)
(* filled once per unit of time.                                           *)
(***************************************************************************)
EXTENDS Naturals

CONSTANTS
    IPs,
    Classes,      \* "default" and "api"
    Rate, Burst,  \* of each class: tokens per unit of time, size of the bucket
    IdleLimit     \* after how long an address is forgotten, 10 minutes

\* In IdleLimit an empty bucket fills: 75 tokens at 15/s, 20 tokens at 5/s.
ASSUME LimiterAssumption ==
    /\ Rate \in [Classes -> Nat]
    /\ Burst \in [Classes -> Nat]
    /\ IdleLimit \in Nat
    /\ \A k \in Classes : Rate[k] * IdleLimit >= Burst[k]

VARIABLES
    known,      \* addresses in the table
    tokens,     \* what is left in their limiters
    idle,       \* time since lastSeen, up to IdleLimit + 1
    admitted    \* the answer to the last request

limiterVars == <<known, tokens, idle, admitted>>

LimiterTypeOK ==
    /\ known \subseteq IPs
    /\ tokens \in [IPs -> [Classes -> Nat]]
    /\ \A ip \in IPs, k \in Classes : tokens[ip][k] <= Burst[k]
    /\ idle \in [IPs -> 0..(IdleLimit + 1)]
    /\ admitted \in BOOLEAN

\* The limiters that getLimiter and getAPILimiter make for a new address.
Fresh == [k \in Classes |-> Burst[k]]

LimiterInit ==
    /\ known = {}
    /\ tokens = [ip \in IPs |-> Fresh]
    /\ idle = [ip \in IPs |-> 0]
    /\ admitted = TRUE

RefillUncapped(n, k) == n + Rate[k]

Refill(n, k) == IF n + Rate[k] > Burst[k] THEN Burst[k] ELSE n + Rate[k]

\* A unit of time passes.
LimiterTick ==
    /\ tokens' = [ip \in IPs |-> [k \in Classes |-> Refill(tokens[ip][k], k)]]
    /\ idle' = [ip \in IPs |-> IF ip \in known /\ idle[ip] <= IdleLimit
                               THEN idle[ip] + 1 ELSE idle[ip]]
    /\ UNCHANGED <<known, admitted>>

Left(ip) == IF ip \in known THEN tokens[ip] ELSE Fresh

\* rateLimitMiddleware: find or make the limiters and mark the address seen,
\* then ask the limiter of the path's class for a token.
Limit(ip, k) ==
    LET left == Left(ip)
    IN  /\ known' = known \cup {ip}
        /\ idle' = [idle EXCEPT ![ip] = 0]
        /\ admitted' = (left[k] > 0)
        /\ tokens' = [tokens EXCEPT ![ip] =
                        IF left[k] > 0 THEN [left EXCEPT ![k] = @ - 1] ELSE left]

CleanupWhenIdle ==
    LET gone == {ip \in known : idle[ip] > 0}
    IN  /\ gone # {}
        /\ known' = known \ gone
        /\ tokens' = [ip \in IPs |-> IF ip \in gone THEN Fresh ELSE tokens[ip]]
        /\ idle' = [ip \in IPs |-> IF ip \in gone THEN 0 ELSE idle[ip]]
        /\ UNCHANGED admitted

\* Every five minutes: the limiters of addresses not seen for longer than
\* IdleLimit are dropped, whatever is left in them.
Cleanup ==
    LET gone == {ip \in known : idle[ip] > IdleLimit}
    IN  /\ gone # {}
        /\ known' = known \ gone
        /\ tokens' = [ip \in IPs |-> IF ip \in gone THEN Fresh ELSE tokens[ip]]
        /\ idle' = [ip \in IPs |-> IF ip \in gone THEN 0 ELSE idle[ip]]
        /\ UNCHANGED admitted

LimiterRestart ==
    /\ known' = {}
    /\ tokens' = [ip \in IPs |-> Fresh]
    /\ idle' = [ip \in IPs |-> 0]
    /\ UNCHANGED admitted

LimiterNext ==
    \/ LimiterTick
    \/ \E ip \in IPs, k \in Classes : Limit(ip, k)
    \/ Cleanup
    \/ LimiterRestart

LimiterSpec == LimiterInit /\ [][LimiterNext]_limiterVars

-----------------------------------------------------------------------------
Buckets == INSTANCE TokenBucket WITH bucket <- [ip \in IPs |-> Left(ip)]

\* Forgetting an address gives it no tokens it would not have had: clients
\* are limited as if the table were never cleaned (rate_limit.go:33-46), and
\* neither class draws on the other's bucket (rate_limit.go:48-84).
BucketSpec == Buckets!Spec
=============================================================================
