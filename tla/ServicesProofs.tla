---------------------------- MODULE ServicesProofs ----------------------------
(***************************************************************************)
(* Proofs about the services around the streams, each for any numbers of   *)
(* what competes in it: the rate limiter, the bandwidth accounting, the    *)
(* migrations, the saved settings, the websocket hub and the fan-out to    *)
(* the sources.                                                            *)
(***************************************************************************)
EXTENDS Services, NaturalFacts, FiniteSetTheorems

-----------------------------------------------------------------------------
(* The rate limiter implements TokenBucket, for any addresses, rates and    *)
(* bursts: forgetting an address is not noticed, because one that has not  *)
(* been seen for IdleLimit has full buckets by then.                       *)

\* A bucket has at least what flowed into it since the last request.
AtLeast(n, k, time) == n >= Burst[k] \/ n >= Rate[k] * time

LimiterInv ==
    /\ LimiterTypeOK
    /\ \A ip \in known, k \in Classes : AtLeast(tokens[ip][k], k, idle[ip])

\* Refilling respects the burst, and one unit later the bucket has at least
\* what flowed in during one unit more.
LEMMA RefillKeeps ==
  ASSUME NEW k \in Classes, NEW n \in Nat, n <= Burst[k]
  PROVE  /\ Refill(n, k) \in Nat /\ Refill(n, k) <= Burst[k]
         /\ n = Burst[k] => Refill(n, k) = Burst[k]
         /\ \A time \in Nat : AtLeast(n, k, time) =>
               AtLeast(Refill(n, k), k, time) /\ AtLeast(Refill(n, k), k, time + 1)
<1>1. Rate[k] \in Nat /\ Burst[k] \in Nat
  BY LimiterAssumption
<1>2. ASSUME NEW time \in Nat, AtLeast(n, k, time)
      PROVE  AtLeast(Refill(n, k), k, time) /\ AtLeast(Refill(n, k), k, time + 1)
  <2> DEFINE inflow == Rate[k] * time
  <2>1. inflow \in Nat /\ Rate[k] * (time + 1) = inflow + Rate[k]
    BY <1>1, OneMoreUnit
  <2>2. n >= Burst[k] \/ n >= inflow
    BY <1>2 DEF AtLeast
  <2>3. AtLeast(Refill(n, k), k, time) <=> Refill(n, k) >= Burst[k] \/ Refill(n, k) >= inflow
    BY DEF AtLeast
  <2>4. AtLeast(Refill(n, k), k, time + 1) <=>
          Refill(n, k) >= Burst[k] \/ Refill(n, k) >= inflow + Rate[k]
    BY <2>1 DEF AtLeast
  <2> HIDE DEF inflow
  <2>5. (Refill(n, k) >= Burst[k] \/ Refill(n, k) >= inflow)
        /\ (Refill(n, k) >= Burst[k] \/ Refill(n, k) >= inflow + Rate[k])
    BY <1>1, <2>1, <2>2 DEF Refill
  <2> QED
    BY <2>3, <2>4, <2>5
<1>3. /\ Refill(n, k) \in Nat /\ Refill(n, k) <= Burst[k]
      /\ n = Burst[k] => Refill(n, k) = Burst[k]
  BY <1>1 DEF Refill
<1> QED
  BY <1>2, <1>3

\* An address that is dropped by the cleanup has full buckets.
LEMMA ForgottenAreFull ==
  ASSUME LimiterInv, NEW ip \in known, idle[ip] > IdleLimit, NEW k \in Classes
  PROVE  tokens[ip][k] = Burst[k]
<1>1. /\ idle[ip] = IdleLimit + 1 /\ ip \in IPs
      /\ tokens[ip][k] \in Nat /\ tokens[ip][k] <= Burst[k]
      /\ AtLeast(tokens[ip][k], k, IdleLimit + 1)
  BY LimiterAssumption DEF LimiterInv, LimiterTypeOK
<1>2. /\ Rate[k] \in Nat /\ Burst[k] \in Nat /\ IdleLimit \in Nat
      /\ Rate[k] * IdleLimit >= Burst[k]
  BY LimiterAssumption
<1> DEFINE inflow == Rate[k] * IdleLimit
<1>3. inflow \in Nat /\ Rate[k] * (IdleLimit + 1) = inflow + Rate[k]
  BY <1>2, OneMoreUnit
<1>4. tokens[ip][k] >= Burst[k] \/ tokens[ip][k] >= inflow + Rate[k]
  BY <1>1, <1>3 DEF AtLeast
<1>5. inflow >= Burst[k]
  BY <1>2
<1> HIDE DEF inflow
<1> QED
  BY <1>1, <1>2, <1>3, <1>4, <1>5

\* Time, requests, cleanups and restarts keep what a bucket has at least.
LEMMA LimiterStep == LimiterInv /\ [LimiterNext]_limiterVars => LimiterInv'
<1> SUFFICES ASSUME LimiterInv, [LimiterNext]_limiterVars PROVE LimiterInv'
  OBVIOUS
<1> USE LimiterAssumption
<1>0. /\ known \subseteq IPs /\ tokens \in [IPs -> [Classes -> Nat]]
      /\ \A ip \in IPs, k \in Classes : tokens[ip][k] <= Burst[k]
      /\ idle \in [IPs -> 0..(IdleLimit + 1)] /\ admitted \in BOOLEAN
      /\ \A ip \in known, k \in Classes : AtLeast(tokens[ip][k], k, idle[ip])
  BY DEF LimiterInv, LimiterTypeOK
<1>f. Fresh \in [Classes -> Nat] /\ \A k \in Classes : Fresh[k] = Burst[k]
  BY DEF Fresh
<1>1. CASE LimiterTick
  <2>1. /\ tokens' = [ip \in IPs |-> [k \in Classes |-> Refill(tokens[ip][k], k)]]
        /\ known' = known /\ admitted' = admitted
    BY <1>1 DEF LimiterTick
  <2>2. /\ idle' \in [IPs -> 0..(IdleLimit + 1)]
        /\ \A ip \in IPs : idle'[ip] \in {idle[ip], idle[ip] + 1} /\ idle[ip] \in Nat
    BY <1>0, <1>1 DEF LimiterTick
  <2>3. ASSUME NEW ip \in IPs, NEW k \in Classes
        PROVE  /\ tokens'[ip][k] \in Nat /\ tokens'[ip][k] <= Burst[k]
               /\ ip \in known => AtLeast(tokens'[ip][k], k, idle'[ip])
    <3>1. tokens[ip][k] \in Nat /\ tokens[ip][k] <= Burst[k]
      BY <1>0
    <3>2. tokens'[ip][k] = Refill(tokens[ip][k], k)
      BY <2>1
    <3> QED
      BY <1>0, <2>2, <3>1, <3>2, RefillKeeps
  <2>4. tokens' \in [IPs -> [Classes -> Nat]]
    BY <2>1, <2>3
  <2> QED
    BY <1>0, <2>1, <2>2, <2>3, <2>4 DEF LimiterInv, LimiterTypeOK
<1>2. ASSUME NEW ip \in IPs, NEW k \in Classes, Limit(ip, k) PROVE LimiterInv'
  <2>1. Left(ip) \in [Classes -> Nat] /\ \A c \in Classes : Left(ip)[c] <= Burst[c]
    BY <1>0, <1>f DEF Left
  <2> DEFINE after == IF Left(ip)[k] > 0 THEN [Left(ip) EXCEPT ![k] = @ - 1] ELSE Left(ip)
  <2>2. after \in [Classes -> Nat] /\ \A c \in Classes : after[c] <= Burst[c]
    BY <2>1
  <2>3. /\ known' = known \cup {ip} /\ idle' = [idle EXCEPT ![ip] = 0]
        /\ tokens' = [tokens EXCEPT ![ip] = after] /\ admitted' \in BOOLEAN
    BY <1>2 DEF Limit
  <2> HIDE DEF after
  <2>4. \A c \in Classes : AtLeast(after[c], c, 0)
    BY <2>2 DEF AtLeast
  <2> QED
    BY <1>0, <2>2, <2>3, <2>4 DEF LimiterInv, LimiterTypeOK
<1>3. CASE Cleanup
  <2> DEFINE gone == {ip \in known : idle[ip] > IdleLimit}
  <2>1. /\ known' = known \ gone /\ admitted' = admitted
        /\ tokens' = [ip \in IPs |-> IF ip \in gone THEN Fresh ELSE tokens[ip]]
        /\ idle' = [ip \in IPs |-> IF ip \in gone THEN 0 ELSE idle[ip]]
    BY <1>3 DEF Cleanup
  <2> HIDE DEF gone
  <2> QED
    BY <1>0, <1>f, <2>1 DEF LimiterInv, LimiterTypeOK
<1>4. CASE LimiterRestart
  BY <1>0, <1>4, <1>f DEF LimiterRestart, LimiterInv, LimiterTypeOK
<1>5. CASE UNCHANGED limiterVars
  BY <1>0, <1>5 DEF limiterVars, LimiterInv, LimiterTypeOK
<1> QED
  BY <1>1, <1>2, <1>3, <1>4, <1>5 DEF LimiterNext

\* At first the table is empty.
LEMMA LimiterStarts == LimiterInit => LimiterInv
  BY LimiterAssumption DEF LimiterInit, LimiterInv, LimiterTypeOK, Fresh

-----------------------------------------------------------------------------
\* The limiters keep their types, no bucket holds more than its burst, for any
\* rates and bursts (rate_limit.go:48-84).
THEOREM LimiterTypes == LimiterSpec => []LimiterTypeOK
<1>1. LimiterInv => LimiterTypeOK
  BY DEF LimiterInv
<1> QED
  BY <1>1, LimiterStarts, LimiterStep, PTL DEF LimiterSpec

\* The buckets as TokenBucket sees them.
bucketOf == [ip \in IPs |-> Left(ip)]

\* Every step of the limiter is a step of TokenBucket: a cleanup changes no
\* bucket.
LEMMA LimiterRefines ==
  ASSUME LimiterInv, [LimiterNext]_limiterVars
  PROVE  [Buckets!Next]_<<bucketOf, admitted>>
<1> USE LimiterAssumption
<1>0. /\ known \subseteq IPs /\ tokens \in [IPs -> [Classes -> Nat]]
      /\ \A ip \in IPs, k \in Classes : tokens[ip][k] <= Burst[k]
  BY DEF LimiterInv, LimiterTypeOK
<1>f. Fresh \in [Classes -> Nat] /\ \A k \in Classes : Fresh[k] = Burst[k]
  BY DEF Fresh
<1>t. \A ip \in IPs : Left(ip) \in [Classes -> Nat] /\ \A k \in Classes : Left(ip)[k] <= Burst[k]
  BY <1>0, <1>f DEF Left
<1>1. CASE LimiterTick
  <2>1. ASSUME NEW ip \in IPs
        PROVE  Left(ip)' = [k \in Classes |-> Buckets!Filled(Left(ip)[k], k)]
    <3>1. CASE ip \in known
      BY <1>0, <1>1, <3>1 DEF LimiterTick, Left, Refill, Buckets!Filled
    <3>2. CASE ip \notin known
      <4>1. Left(ip)' = Fresh /\ Left(ip) = Fresh
        BY <1>1, <3>2 DEF LimiterTick, Left, Fresh
      <4>2. \A k \in Classes : Buckets!Filled(Burst[k], k) = Burst[k]
        BY DEF Buckets!Filled
      <4> QED
        BY <1>f, <4>1, <4>2 DEF Fresh
    <3> QED
      BY <3>1, <3>2
  <2>2. Buckets!Tick
    BY <1>1, <2>1 DEF LimiterTick, Buckets!Tick
  <2> QED
    BY <2>2 DEF Buckets!Next
<1>2. ASSUME NEW ip \in IPs, NEW k \in Classes, Limit(ip, k)
      PROVE  Buckets!Request(ip, k)
  <2>1. \A x \in IPs \ {ip} : Left(x)' = Left(x)
    BY <1>0, <1>2 DEF Limit, Left
  <2>2. Left(ip)' = IF Left(ip)[k] > 0 THEN [Left(ip) EXCEPT ![k] = @ - 1] ELSE Left(ip)
    BY <1>0, <1>2 DEF Limit, Left
  <2>3. admitted' = (bucketOf[ip][k] > 0)
    BY <1>2 DEF Limit, bucketOf
  <2>4. bucketOf' = IF bucketOf[ip][k] > 0 THEN [bucketOf EXCEPT ![ip][k] = @ - 1] ELSE bucketOf
    BY <2>1, <2>2 DEF bucketOf
  <2> QED
    BY <2>3, <2>4 DEF Buckets!Request, bucketOf
<1>3. CASE Cleanup
  <2>1. ASSUME NEW ip \in IPs PROVE Left(ip)' = Left(ip)
    <3>1. CASE ip \in known /\ idle[ip] > IdleLimit
      <4>1. Left(ip)' = Fresh /\ Left(ip) = tokens[ip]
        BY <1>3, <3>1 DEF Cleanup, Left
      <4> QED
        BY <1>0, <1>f, <3>1, <4>1, ForgottenAreFull
    <3>2. CASE ~(ip \in known /\ idle[ip] > IdleLimit)
      BY <1>3, <3>2 DEF Cleanup, Left
    <3> QED
      BY <3>1, <3>2
  <2> QED
    BY <1>3, <2>1 DEF Cleanup, bucketOf
<1>4. CASE LimiterRestart
  <2>1. Buckets!Restart
    BY <1>4 DEF LimiterRestart, Buckets!Restart, Buckets!Full, Left, Fresh
  <2> QED
    BY <2>1 DEF Buckets!Next
<1>5. CASE UNCHANGED limiterVars
  BY <1>5 DEF limiterVars, bucketOf, Left
<1> QED
  BY <1>1, <1>2, <1>3, <1>4, <1>5 DEF LimiterNext, Buckets!Next

\* Clients are limited as if the table were never cleaned, and each class by
\* its own bucket, for any rates and bursts with which a bucket is full after
\* IdleLimit (rate_limit.go:33-84).
THEOREM LimiterImplementsBuckets == LimiterSpec => BucketSpec
<1>1. LimiterInit => Buckets!Init
  BY DEF LimiterInit, Buckets!Init, Buckets!Full, Left, Fresh
<1>2. LimiterInv /\ [LimiterNext]_limiterVars => [Buckets!Next]_<<bucketOf, admitted>>
  BY LimiterRefines
<1> QED
  BY <1>1, <1>2, LimiterStarts, LimiterStep, PTL
  DEF LimiterSpec, BucketSpec, Buckets!Spec, bucketOf

-----------------------------------------------------------------------------
(* Bandwidth.                                                              *)

\* The sum of what is accounted for is what was tracked, so each part is
\* within the bound too.
BandwidthInv ==
    /\ {tracked, records, batch, logged, lost} \subseteq Nat
    /\ tracked <= MaxUnits
    /\ BytesCountOnce

\* Tracking, flushing, failing and restarting keep the account balanced.
LEMMA BandwidthStep == BandwidthInv /\ [BandwidthNext]_bandwidthVars => BandwidthInv'
<1> SUFFICES ASSUME BandwidthInv, [BandwidthNext]_bandwidthVars PROVE BandwidthInv'
  OBVIOUS
<1> USE BandwidthAssumption DEF BandwidthInv, BytesCountOnce
<1>1. CASE TrackBandwidth
  BY <1>1 DEF TrackBandwidth
<1>2. CASE TakeBatch
  BY <1>2 DEF TakeBatch
<1>3. CASE WriteBatch
  BY <1>3 DEF WriteBatch
<1>4. CASE BandwidthRestart
  BY <1>4 DEF BandwidthRestart
<1>5. CASE UNCHANGED bandwidthVars
  BY <1>5 DEF bandwidthVars
<1> QED
  BY <1>1, <1>2, <1>3, <1>4, <1>5 DEF BandwidthNext, Flush

\* Nothing is tracked at first.
LEMMA BandwidthStarts == BandwidthInit => BandwidthInv
  BY BandwidthAssumption DEF BandwidthInit, BandwidthInv, BytesCountOnce

\* A balanced account has its types and the property.
LEMMA BandwidthSafe == BandwidthInv => BandwidthTypeOK /\ BytesCountOnce
  BY BandwidthAssumption DEF BandwidthInv, BandwidthTypeOK, BytesCountOnce

\* Bytes are in exactly one place: fetches that go on during a flush, failed
\* INSERTs and restarts neither lose any unnoticed nor log any twice
\* (bandwidth.go:34-52).
THEOREM BytesKept == BandwidthSpec => [](BandwidthTypeOK /\ BytesCountOnce)
  BY BandwidthStarts, BandwidthStep, BandwidthSafe, PTL DEF BandwidthSpec

-----------------------------------------------------------------------------
(* Migrations.                                                             *)

\* The largest of some numbers up to Last: the one least far from Last.
LEMMA GreatestRecorded ==
  ASSUME NEW S, S \subseteq 0..Last, 0 \in S
  PROVE  Max(S) \in S /\ \A v \in S : Max(S) >= v
<1> USE MigrationAssumption
<1> DEFINE Gap == {n \in 0..Last : Last - n \in S}
<1>1. Gap \subseteq Nat
  OBVIOUS
<1>2. Last \in Gap
  OBVIOUS
<1>3. PICK n \in Gap : \A k \in Gap : n <= k
  BY <1>1, <1>2, SmallestOf
<1>4. \A v \in S : Last - v \in Gap
  OBVIOUS
<1>5. Last - n \in S
  BY <1>3
<1>6. ASSUME NEW v \in S PROVE Last - n >= v
  <2>1. Last - v \in Gap
    BY <1>4
  <2>2. n <= Last - v
    BY <2>1, <1>3
  <2>3. n \in Nat /\ v \in Nat /\ Last \in Nat
    BY <1>1
  <2> HIDE DEF Gap
  <2> QED
    BY <2>2, <2>3
<1> QED
  BY <1>5, <1>6 DEF Max

\* Everything up to the highest version recorded, and everything the running
\* start has passed, has been executed; so what the next migration needs is
\* there, unless a statement failed that should have succeeded.
MigrationInv ==
    /\ MigrationTypeOK
    /\ boot.pc = "down" => boot.version = 0
    /\ boot.pc = "record" => boot.version \in 1..Last
    /\ boot.pc = "execute" => boot.version >= 1
    /\ failed = {} =>
         /\ \A v \in recorded : 1..v \subseteq applied
         /\ 1..(boot.version - 1) \subseteq applied
         /\ boot.pc = "record" => boot.version \in applied

\* Each step of a start, and dying in it, keeps what was executed in order.
LEMMA MigrationStep == MigrationInv /\ [MigrationNext]_migrationVars => MigrationInv'
<1> SUFFICES ASSUME MigrationInv, [MigrationNext]_migrationVars PROVE MigrationInv'
  OBVIOUS
<1> USE MigrationAssumption DEF MigrationInv, MigrationTypeOK
<1>1. CASE Boot
  <2>1. Current \in recorded \cup {0} /\ Current \in 0..Last
    <3>1. recorded \cup {0} \subseteq 0..Last
      OBVIOUS
    <3> QED
      BY <3>1, GreatestRecorded DEF Current
  <2>2. failed = {} => 1..Current \subseteq applied
    BY <2>1
  <2> QED
    BY <1>1, <2>1, <2>2 DEF Boot, Down
<1>2. CASE Execute
  <2>1. boot.version \in 1..Last /\ Needs[boot.version] \subseteq 1..(boot.version - 1)
    BY <1>2 DEF Execute
  <2>2. applied \subseteq applied' /\ applied' \subseteq applied \cup {boot.version}
    BY <1>2 DEF Execute
  <2>3. failed' = {} => boot.version \in applied'
    BY <1>2, <2>1 DEF Execute
  <2>4. boot' = [pc |-> "record", version |-> boot.version] /\ failed \subseteq failed' /\ failed' \subseteq 1..Last
        /\ recorded' = recorded
    BY <1>2 DEF Execute
  <2> QED
    BY <2>1, <2>2, <2>3, <2>4
<1>3. CASE Record
  <2>1. boot.version \in 1..Last /\ applied' = applied /\ failed' = failed
        /\ recorded' \subseteq recorded \cup {boot.version}
        /\ boot' = [pc |-> "execute", version |-> boot.version + 1]
    BY <1>3 DEF Record
  <2>2. failed = {} => 1..boot.version \subseteq applied
    <3>1. 1..boot.version = 1..(boot.version - 1) \cup {boot.version}
      BY <2>1
    <3> QED
      BY <3>1, <1>3 DEF Record
  <2>3. boot' \in [pc : {"down", "execute", "record"}, version : 0..(Last + 1)]
    BY <2>1
  <2>4. boot'.pc = "execute" /\ boot'.version = boot.version + 1
    BY <2>1
  <2>5. MigrationTypeOK'
    BY <2>1, <2>3
  <2>6. failed' = {} => /\ \A v \in recorded' : 1..v \subseteq applied'
                        /\ 1..(boot'.version - 1) \subseteq applied'
    <3>1. boot'.version - 1 = boot.version
      BY <2>1
    <3> QED
      BY <2>1, <2>2, <3>1
  <2> QED
    BY <2>1, <2>4, <2>5, <2>6
<1>4. CASE Die
  BY <1>4 DEF Die, Down
<1>5. CASE UNCHANGED migrationVars
  BY <1>5 DEF migrationVars
<1> QED
  BY <1>1, <1>2, <1>3, <1>4, <1>5 DEF MigrationNext

\* At first nothing was executed or recorded.
LEMMA MigrationStarts == MigrationInit => MigrationInv
<1> SUFFICES ASSUME MigrationInit PROVE MigrationInv
  OBVIOUS
<1>1. boot = [pc |-> "down", version |-> 0] /\ Last \in Nat
  BY MigrationAssumption DEF MigrationInit, Down
<1>2. 1..(boot.version - 1) = {}
  BY <1>1
<1> QED
  BY <1>1, <1>2 DEF MigrationInit, MigrationInv, MigrationTypeOK

\* A start that has passed the last version has executed all.
LEMMA MigrationSafe == MigrationInv => MigrationTypeOK /\ StartedSchemaIsComplete
<1> SUFFICES ASSUME MigrationInv, boot.pc = "execute", boot.version > Last, failed = {}
             PROVE  applied = 1..Last
  BY DEF MigrationInv, StartedSchemaIsComplete
<1>1. boot.version = Last + 1 /\ boot.version - 1 = Last
  BY MigrationAssumption DEF MigrationInv, MigrationTypeOK
<1> QED
  BY <1>1 DEF MigrationInv, MigrationTypeOK

\* However often a start died or failed to record a version, the program that
\* has started has its whole schema, unless a statement failed for another
\* reason than that it was applied (db.go:152-165).
THEOREM SchemaComplete == MigrationSpec => [](MigrationTypeOK /\ StartedSchemaIsComplete)
  BY MigrationStarts, MigrationStep, MigrationSafe, PTL DEF MigrationSpec

-----------------------------------------------------------------------------
(* The fan-out to the sources.                                             *)

\* While the collector listens, a goroutine is there for every result that has
\* not been sent.
EveryResultComes ==
    collecting =>
      \A s \in Sources \ (channel \cup received) : fetcher[s] \in {"start", "fetch", "send"}

\* Results are sent by goroutines that have fetched, and what is listed is what
\* was answered and received; only the prefetcher stops before all are in, and
\* while somebody listens no goroutine has ended without a result.
FanOutInv ==
    /\ FanOutTypeOK
    /\ channel \cup received \subseteq At("release") \cup At("done")
    /\ listed = answered \cap received
    /\ round = "none" =>
         /\ ~collecting /\ At("none") = Sources
         /\ answered = {} /\ received = {} /\ channel = {}
    /\ round = "streams" => collecting \/ received = Sources
    /\ EveryResultComes

\* Each step of a goroutine and of the collector keeps the invariant.
LEMMA FanOutStep == FanOutInv /\ [FanOutNext]_fanVars => FanOutInv'
<1> SUFFICES ASSUME FanOutInv, [FanOutNext]_fanVars PROVE FanOutInv'
  OBVIOUS
<1> USE DEF FanOutInv, FanOutTypeOK, EveryResultComes, At
<1>1. ASSUME NEW kind \in {"streams", "hashes"}, StartRound(kind) PROVE FanOutInv'
  BY <1>1 DEF StartRound
<1>2. ASSUME NEW s \in Sources, Acquire(s) PROVE FanOutInv'
  BY <1>2 DEF Acquire, Go
<1>3. ASSUME NEW s \in Sources, Fetch(s) PROVE FanOutInv'
  <2>1. s \notin received /\ s \notin channel
    BY <1>3 DEF Fetch
  <2>2. /\ fetcher' \in [Sources -> {"none", "start", "fetch", "send", "release", "done"}]
        /\ \A x \in Sources \ {s} : fetcher'[x] = fetcher[x]
    BY <1>3 DEF Fetch, Go
  <2>3. answered' \subseteq Sources /\ answered' \cap received = answered \cap received
    BY <1>3, <2>1 DEF Fetch
  <2>4. round # "none" /\ (round = "streams" => collecting)
    BY <1>3, <2>1 DEF Fetch
  <2>5. EveryResultComes'
    <3>1. fetcher'[s] = "send" /\ UNCHANGED <<collecting, channel, received>>
      BY <1>3 DEF Fetch, Go
    <3> QED
      BY <2>2, <3>1
  <2>6. /\ (channel \cup received)' \subseteq At("release")' \cup At("done")'
        /\ listed' = answered' \cap received'
    BY <1>3, <2>1, <2>2, <2>3 DEF Fetch
  <2> QED
    BY <1>3, <2>2, <2>3, <2>4, <2>5, <2>6 DEF Fetch
<1>4. ASSUME NEW s \in Sources, Send(s) PROVE FanOutInv'
  <2>1. /\ fetcher' \in [Sources -> {"none", "start", "fetch", "send", "release", "done"}]
        /\ \A x \in Sources \ {s} : fetcher'[x] = fetcher[x]
        /\ fetcher'[s] \in {"release", "done"}
        /\ channel' = channel \cup {s}
    BY <1>4 DEF Send, Go
  <2>2. (channel \cup received)' \subseteq At("release")' \cup At("done")'
    BY <1>4, <2>1 DEF Send
  <2>3. round # "none"
    BY <1>4 DEF Send
  <2> QED
    BY <1>4, <2>1, <2>2, <2>3 DEF Send
<1>5. ASSUME NEW s \in Sources, Release(s) PROVE FanOutInv'
  BY <1>5 DEF Release, Go
<1>6. ASSUME NEW s \in Sources, Receive(s) PROVE FanOutInv'
  <2>1. collecting' \in BOOLEAN /\ (round = "streams" => collecting')
    BY <1>6 DEF Receive
  <2> QED
    BY <1>6, <2>1 DEF Receive
<1>7. CASE Finish
  BY <1>7 DEF Finish
<1>8. CASE NextRound
  BY <1>8 DEF NextRound
<1>9. CASE UNCHANGED fanVars
  BY <1>9 DEF fanVars
<1> QED
  BY <1>1, <1>2, <1>3, <1>4, <1>5, <1>6, <1>7, <1>8, <1>9
  DEF FanOutNext, FetcherStep, Collect

\* At first there is no round.
LEMMA FanOutStarts == FanOutInit => FanOutInv
  BY DEF FanOutInit, FanOutInv, FanOutTypeOK, EveryResultComes, At

\* The invariant gives the types and the property.
LEMMA FanOutSafe == FanOutInv => FanOutTypeOK /\ ListIsComplete
  BY DEF FanOutInv, FanOutTypeOK, ListIsComplete

\* A stream list is made when every source has answered or failed, and has
\* what they answered, for any number of sources and any size of the semaphore
\* (proxy.go:162-176).
THEOREM ListsComplete == FanOutSpec => [](FanOutTypeOK /\ ListIsComplete)
  BY FanOutStarts, FanOutStep, FanOutSafe, PTL DEF FanOutSpec

\* A goroutine that has fetched finds room for its result: its own is not in
\* the channel yet.
LEMMA RoomInChannel ==
  ASSUME FanOutInv, NEW s \in Sources, fetcher[s] = "send"
  PROVE  Cardinality(channel) < Capacity
<1>1. channel \subseteq Sources /\ s \notin channel
  BY DEF FanOutInv, FanOutTypeOK, At
<1>2. /\ Cardinality(channel) <= Cardinality(Sources)
      /\ Cardinality(channel) = Cardinality(Sources) => channel = Sources
  BY <1>1, FanOutAssumption, FS_Subset
<1>3. Cardinality(channel) \in Nat /\ Cardinality(Sources) \in Nat
  BY <1>1, FanOutAssumption, FS_Subset, FS_CardinalityType
<1> QED
  BY <1>1, <1>2, <1>3 DEF Capacity

\* No goroutine waits to send its result, whether anyone listens or not, and
\* while the collector listens there is a goroutine for every result that is
\* neither received nor in the channel, for any number of sources, of which
\* any may fail (proxy.go:152-176, prefetch.go:216).
THEOREM RoundsFlow == FanOutSpec => []NobodyWaitsInVain
<1>1. FanOutInv => NobodyWaitsInVain
  BY RoomInChannel DEF NobodyWaitsInVain, FanOutInv, EveryResultComes
<1> QED
  BY <1>1, FanOutStarts, FanOutStep, PTL DEF FanOutSpec

-----------------------------------------------------------------------------
(* The hub.                                                                *)

\* Clients that are taken out are no more than are counted off.
LEMMA CountedOff ==
  ASSUME HubTypeOK, NEW gone \in SUBSET Conns
  PROVE  /\ Cardinality(clients) \in Nat /\ Cardinality(gone) \in Nat
         /\ Cardinality(clients \ gone) \in Nat
         /\ Cardinality(clients \ gone) >= Cardinality(clients) - Cardinality(gone)
<1>1. IsFiniteSet(clients) /\ IsFiniteSet(gone)
  BY HubAssumption, FS_Subset DEF HubTypeOK
<1>2. /\ IsFiniteSet(clients \cap gone)
      /\ Cardinality(clients \cap gone) <= Cardinality(gone)
  BY <1>1, FS_Subset
<1>3. Cardinality(clients \ gone) = Cardinality(clients) - Cardinality(clients \cap gone)
  BY <1>1, FS_Difference
<1>4. IsFiniteSet(clients \ gone)
  BY <1>1, FS_Subset
<1> QED
  BY <1>1, <1>2, <1>3, <1>4, FS_CardinalityType

\* The gauge stays in range, and within the clients, when it is lowered by at
\* least as many as are taken out.
LEMMA GaugeInRange ==
  ASSUME HubTypeOK, GaugeNeverOvercounts, NEW gone \in SUBSET Conns, NEW n \in Nat,
         n >= Cardinality(gone)
  PROVE  /\ Decreased(n) \in (-Floor)..Cardinality(Conns)
         /\ Decreased(n) <= Cardinality(clients \ gone)
<1>1. Floor \in Nat /\ Cardinality(Conns) \in Nat /\ gauge \in (-Floor)..Cardinality(Conns)
  BY HubAssumption, FS_CardinalityType DEF HubTypeOK
<1> QED
  BY <1>1, CountedOff DEF Decreased, GaugeNeverOvercounts

HubInv == HubTypeOK /\ GaugeNeverOvercounts

\* removeClient keeps the invariant, whether or not the client was there.
LEMMA RemoveKeeps ==
  ASSUME HubInv, NEW c \in Conns, RemoveClient(c)
  PROVE  HubInv'
<1>1. Cardinality({c}) = 1
  BY FS_Singleton
<1>2. Decreased(1) \in (-Floor)..Cardinality(Conns) /\ Decreased(1) <= Cardinality(clients \ {c})
  BY <1>1, GaugeInRange DEF HubInv
<1> QED
  BY <1>2 DEF HubInv, HubTypeOK, GaugeNeverOvercounts, RemoveClient

\* Each step of a connection and of the broadcast keeps the invariant.
LEMMA HubStep == HubInv /\ [HubNext]_hubVars => HubInv'
<1> SUFFICES ASSUME HubInv, [HubNext]_hubVars PROVE HubInv'
  OBVIOUS
<1> USE DEF HubInv, HubTypeOK, GaugeNeverOvercounts
<1>1. ASSUME NEW c \in Conns, Connect(c) PROVE HubInv'
  <2>1. clients' = clients \cup {c} /\ gauge' = gauge + 1 /\ c \notin clients
    BY <1>1 DEF Connect
  <2>2. /\ IsFiniteSet(clients) /\ Cardinality(clients) \in Nat
        /\ Cardinality(clients') = Cardinality(clients) + 1
    BY <2>1, HubAssumption, FS_Subset, FS_AddElement, FS_CardinalityType
  <2>3. clients' \subseteq Conns /\ Cardinality(clients') <= Cardinality(Conns)
    BY <2>1, HubAssumption, FS_Subset
  <2>4. Cardinality(Conns) \in Nat /\ Floor \in Nat
    BY HubAssumption, FS_CardinalityType
  <2>5. gauge' \in (-Floor)..Cardinality(Conns) /\ gauge' <= Cardinality(clients')
    BY <2>1, <2>2, <2>3, <2>4
  <2> QED
    BY <1>1, <2>3, <2>5 DEF Connect
<1>2. ASSUME NEW c \in Conns, PeerLeaves(c) PROVE HubInv'
  BY <1>2 DEF PeerLeaves
<1>3. ASSUME NEW c \in Conns, Serve(c) PROVE HubInv'
  <2>1. CASE Greet(c)
    BY <2>1 DEF Greet
  <2>2. CASE GreetFails(c) \/ ReadFails(c)
    BY <2>2, RemoveKeeps DEF GreetFails, ReadFails
  <2> QED
    BY <1>3, <2>1, <2>2 DEF Serve
<1>4. CASE Snapshot
  BY <1>4 DEF Snapshot
<1>5. CASE WriteToAll
  <2>1. PICK fate \in [Contested -> {"fine", "refused", "spoiled", "orphaned", "dropped"}] :
          LET met(fates) == {c \in Contested : fate[c] \in fates}
              unreached == (snapshot \cap dead) \cup met({"refused", "dropped"})
          IN  /\ clients' = clients \ unreached
              /\ gauge' = Decreased(Cardinality(unreached))
              /\ dead' = dead \cup unreached \cup met({"spoiled"})
              /\ conn' = [c \in Conns |-> IF c \in met({"orphaned", "dropped"})
                                          THEN "none" ELSE conn[c]]
    BY <1>5 DEF WriteToAll
  <2> DEFINE met(fates) == {c \in Contested : fate[c] \in fates}
             gone == (snapshot \cap dead) \cup met({"refused", "dropped"})
  <2>2. gone \in SUBSET Conns /\ met({"spoiled"}) \subseteq Conns
    BY DEF Contested
  <2>3. /\ clients' = clients \ gone /\ gauge' = Decreased(Cardinality(gone))
        /\ dead' = dead \cup gone \cup met({"spoiled"})
        /\ conn' \in [Conns -> {"none", "greet", "read"}]
    BY <2>1
  <2>4. snapshot' = {}
    BY <1>5 DEF WriteToAll
  <2> HIDE DEF gone, met
  <2>5. Cardinality(gone) \in Nat
    BY <2>2, CountedOff
  <2>6. /\ Decreased(Cardinality(gone)) \in (-Floor)..Cardinality(Conns)
        /\ Decreased(Cardinality(gone)) <= Cardinality(clients \ gone)
    BY <2>2, <2>5, GaugeInRange
  <2> QED
    BY <2>2, <2>3, <2>4, <2>6
<1>6. CASE HubRestart
  <2>1. Cardinality({}) = 0 /\ Cardinality(Conns) \in Nat /\ Floor \in Nat
    BY HubAssumption, FS_EmptySet, FS_CardinalityType
  <2> QED
    BY <1>6, <2>1 DEF HubRestart
<1>7. CASE UNCHANGED hubVars
  BY <1>7 DEF hubVars
<1> QED
  BY <1>1, <1>2, <1>3, <1>4, <1>5, <1>6, <1>7 DEF HubNext, Broadcast

\* At first there are no clients.
LEMMA HubStarts == HubInit => HubInv
<1>1. Cardinality({}) = 0 /\ Cardinality(Conns) \in Nat /\ Floor \in Nat
  BY HubAssumption, FS_EmptySet, FS_CardinalityType
<1> QED
  BY <1>1 DEF HubInit, HubInv, HubTypeOK, GaugeNeverOvercounts

\* However removals cross, no client is counted that has left, for any number
\* of connections (ws.go:47-52 and 103-109).
THEOREM GaugeBounded == HubSpec => [](HubTypeOK /\ GaugeNeverOvercounts)
  BY HubStarts, HubStep, PTL DEF HubSpec, HubInv

-----------------------------------------------------------------------------
(* The saved settings.                                                     *)

Working(w) == writer[w].pc # "idle"

\* What is left to do of the only request at work will save what is in memory.
WillSave(w) ==
    /\ writer[w].pc # "unlinked"
    /\ writer[w].pc \in {"open", "write"} => writer[w].data = memory
    /\ writer[w].pc = "write" => file.state = "empty"
    /\ writer[w].pc = "remove" => store = "stremio" /\ memory = {}

SavedInv ==
    /\ SavedTypeOK
    /\ store # "sources" => lock = NoWriter
    /\ store = "sources" => alone /\ \A w \in Writers : Working(w) <=> lock = w
    /\ alone =>
         /\ \A w, x \in Writers : Working(w) /\ Working(x) => w = x
         /\ \A w \in Writers : WillSave(w)
         /\ AllIdle => Loaded(file) = memory

\* Starting a request that will save the new value of the setting.
LEMMA BeginKeeps ==
  ASSUME SavedInv, NEW w \in Writers, NEW data \in SUBSET Names,
         NEW pc \in {"open", "serialise", "remove"}, Begin(w, pc, data),
         UNCHANGED <<store, file>>, memory' \subseteq Names,
         pc = "open" => data = memory',
         pc = "remove" => store = "stremio" /\ memory' = {},
         store = "sources" => lock = NoWriter /\ lock' = w,
         store # "sources" => lock' = lock
  PROVE  SavedInv'
<1> USE SavedAssumption DEF SavedInv, SavedTypeOK
<1>1. /\ writer' = [writer EXCEPT ![w] = [pc |-> pc, data |-> data]]
      /\ writer[w].pc = "idle"
      /\ alone' \in BOOLEAN /\ (alone' <=> AllIdle)
  BY DEF Begin, AllIdle
<1>2. SavedTypeOK'
  <2>1. lock' \in Writers \cup {NoWriter}
    OBVIOUS
  <2> QED
    BY <1>1, <2>1
<1>3. /\ writer'[w] = [pc |-> pc, data |-> data]
      /\ \A x \in Writers \ {w} : writer'[x] = writer[x]
  BY <1>1
<1>4. store = "sources" => AllIdle
  BY DEF AllIdle, Working
<1>5. ASSUME AllIdle
      PROVE  /\ \A x \in Writers : Working(x)' <=> x = w
             /\ \A x \in Writers : WillSave(x)'
             /\ ~AllIdle'
  BY <1>3, <1>5 DEF AllIdle, Working, WillSave
<1> QED
  BY <1>1, <1>2, <1>4, <1>5

\* Each step of a request, and a restart, keeps what will be saved.
LEMMA SavedStep == SavedInv /\ [SavedNext]_savedVars => SavedInv'
<1> SUFFICES ASSUME SavedInv, [SavedNext]_savedVars PROVE SavedInv'
  OBVIOUS
<1> USE SavedAssumption DEF SavedInv, SavedTypeOK
<1>1. ASSUME NEW w \in Writers, NEW value \in SUBSET Names, ChangeSources(w, value)
      PROVE  SavedInv'
  BY <1>1, BeginKeeps DEF ChangeSources
<1>2. ASSUME NEW w \in Writers, NEW name \in Names, ChangeMapping(w, name)
      PROVE  SavedInv'
  BY <1>2, BeginKeeps DEF ChangeMapping
<1>3. ASSUME NEW w \in Writers, NEW name \in Names, Login(w, name) PROVE SavedInv'
  BY <1>3, BeginKeeps DEF Login
<1>4. ASSUME NEW w \in Writers, Disconnect(w) PROVE SavedInv'
  BY <1>4, BeginKeeps DEF Disconnect
<1>5. ASSUME NEW w \in Writers, Serialise(w) PROVE SavedInv'
  BY <1>5 DEF Serialise, Working, WillSave, AllIdle
<1>6. ASSUME NEW w \in Writers, Open(w) PROVE SavedInv'
  BY <1>6 DEF Open, Unusable, Working, WillSave, AllIdle
<1>7. ASSUME NEW w \in Writers, Write(w) PROVE SavedInv'
  BY <1>7 DEF Write, Whole, Unusable, NoWrite, Working, WillSave, AllIdle, Loaded
<1>8. ASSUME NEW w \in Writers, Remove(w) PROVE SavedInv'
  BY <1>8 DEF Remove, Unusable, NoWrite, Working, WillSave, AllIdle, Loaded
<1>9. CASE SavedRestart
  BY <1>9 DEF SavedRestart, NoWrite, Working, WillSave, AllIdle, Loaded
<1>10. CASE UNCHANGED savedVars
  BY <1>10 DEF savedVars, Working, WillSave, AllIdle, Loaded
<1> QED
  BY <1>1, <1>2, <1>3, <1>4, <1>5, <1>6, <1>7, <1>8, <1>9, <1>10 DEF SavedNext

\* At first there is no file, and the defaults are in memory.
LEMMA SavedStarts == SavedInit => SavedInv
  BY SavedAssumption
  DEF SavedInit, SavedInv, SavedTypeOK, NoWrite, Unusable, Working, WillSave, AllIdle, Loaded

\* The invariant gives the types and both properties.
LEMMA SavedSafe ==
  SavedInv => SavedTypeOK /\ SourcesSurviveRestart /\ LoneRequestsAreSaved
  BY SavedAssumption
  DEF SavedInv, SavedTypeOK, SourcesSurviveRestart, LoneRequestsAreSaved, AllIdle, Working

\* Whenever no request holds sourcesMu, a restart brings back the sources in
\* use, for any requests, names and defaults (api_addons.go:183).
THEOREM SettingsSurvive == SavedSpec => [](SavedTypeOK /\ SourcesSurviveRestart)
  BY SavedStarts, SavedStep, SavedSafe, PTL DEF SavedSpec

\* Requests that do not overlap others leave mappings and the Stremio key as a
\* restart will load them, for any requests, names and defaults
\* (api.go:350-352 and 504-517).
THEOREM LoneRequestsSurvive == SavedSpec => []LoneRequestsAreSaved
  BY SavedStarts, SavedStep, SavedSafe, PTL DEF SavedSpec

-----------------------------------------------------------------------------
(* All of them.                                                            *)

\* A step of Services is a step or a stutter of each service.
LEMMA StepsOfEach ==
  ASSUME [Next]_vars
  PROVE  /\ [HubNext]_hubVars /\ [LimiterNext]_limiterVars /\ [SavedNext]_savedVars
         /\ [FanOutNext]_fanVars /\ [BandwidthNext]_bandwidthVars
         /\ [MigrationNext]_migrationVars
<1>1. CASE Next
  BY <1>1 DEF Next
<1>2. CASE UNCHANGED vars
  BY <1>2 DEF vars
<1> QED
  BY <1>1, <1>2

\* Every service keeps its types, for any sizes of everything that competes.
THEOREM TypeCorrect == Spec => []TypeOK
<1> DEFINE Invs == /\ HubInv /\ LimiterInv /\ SavedInv
                   /\ FanOutInv /\ BandwidthInv /\ MigrationInv
<1>1. Init => Invs
  BY HubStarts, LimiterStarts, SavedStarts, FanOutStarts, BandwidthStarts, MigrationStarts
  DEF Init
<1>2. Invs /\ [Next]_vars => Invs'
  <2> SUFFICES ASSUME Invs, [Next]_vars PROVE Invs'
    OBVIOUS
  <2> QED
    BY StepsOfEach, HubStep, LimiterStep, SavedStep, FanOutStep, BandwidthStep, MigrationStep
<1>3. Invs => TypeOK
  BY SavedSafe, FanOutSafe, BandwidthSafe, MigrationSafe DEF HubInv, LimiterInv, TypeOK
<1> QED
  BY <1>1, <1>2, <1>3, PTL DEF Spec
=============================================================================
