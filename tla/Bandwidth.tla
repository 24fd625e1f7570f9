------------------------------ MODULE Bandwidth ------------------------------
(***************************************************************************)
(* Bandwidth accounting: fetches add to a record in memory, and a loop     *)
(* moves the records to the table bandwidth_log every 30 seconds.  The     *)
(* bytes are those of one source, in units; a swapped-out batch is written *)
(* without the lock.                                                       *)
(***************************************************************************)
EXTENDS Naturals

CONSTANT MaxUnits    \* model bound on what is tracked

ASSUME BandwidthAssumption == MaxUnits \in Nat

VARIABLES
    tracked,    \* all that TrackBandwidth was told of
    records,    \* bwAgg.records
    batch,      \* what bwFlush has taken and not yet written
    logged,     \* rows of bandwidth_log
    lost        \* dropped by a failed INSERT or with the process

bandwidthVars == <<tracked, records, batch, logged, lost>>

BandwidthTypeOK == {tracked, records, batch, logged, lost} \subseteq 0..MaxUnits

BandwidthInit == tracked = 0 /\ records = 0 /\ batch = 0 /\ logged = 0 /\ lost = 0

TrackBandwidth ==
    /\ tracked < MaxUnits
    /\ tracked' = tracked + 1
    /\ records' = records + 1
    /\ UNCHANGED <<batch, logged, lost>>

TakeFullBatch ==
    /\ records > 1
    /\ batch = 0
    /\ batch' = records
    /\ records' = 0
    /\ UNCHANGED <<tracked, logged, lost>>

\* Copy and replace the map in one critical section.
TakeBatch ==
    /\ records > 0
    /\ batch = 0
    /\ batch' = records
    /\ records' = 0
    /\ UNCHANGED <<tracked, logged, lost>>

WriteAndClear ==
    /\ batch > 0
    /\ logged' = logged + batch
    /\ batch' = 0
    /\ records' = 0
    /\ UNCHANGED <<tracked, lost>>

\* A failed INSERT is logged and the bytes are gone.
WriteBatch ==
    /\ batch > 0
    /\ \/ logged' = logged + batch /\ UNCHANGED lost
       \/ lost' = lost + batch /\ UNCHANGED logged
    /\ batch' = 0
    /\ UNCHANGED <<tracked, records>>

BandwidthRestart ==
    /\ lost' = lost + records + batch
    /\ records' = 0
    /\ batch' = 0
    /\ UNCHANGED <<tracked, logged>>

Flush == TakeBatch \/ WriteBatch

BandwidthNext == TrackBandwidth \/ Flush \/ BandwidthRestart

\* The ticker of bwFlushLoop goes on.
BandwidthFairness == WF_bandwidthVars(Flush)

BandwidthSpec == BandwidthInit /\ [][BandwidthNext]_bandwidthVars /\ BandwidthFairness

-----------------------------------------------------------------------------
\* What was tracked is in exactly one place, though fetches go on while a
\* batch is written: only a restart or a failed INSERT loses bytes, and none
\* is logged twice (bandwidth.go:34-52).
BytesCountOnce == tracked = records + batch + logged + lost

\* Every byte leaves memory: it is logged or known to be lost.
BytesAreFlushed == \A n \in 1..MaxUnits : tracked >= n ~> logged + lost >= n
=============================================================================
