----------------------------- MODULE SourceFanOut -----------------------------
(***************************************************************************)
(* Asking all sources at once: fetchAndCacheStreams, which waits for every *)
(* source and lets at most four be fetched at a time, and                  *)
(* fetchHashesForItem of the prefetcher, which fetches all at once and     *)
(* stops listening when it has enough hashes.  Each round has a goroutine  *)
(* per source and a channel of its own.                                    *)
(*                                                                         *)
(* What a source answers is only "something" or "nothing"; errors and      *)
(* deadlines of the context give nothing.                                  *)
(***************************************************************************)
EXTENDS Naturals, FiniteSets

CONSTANTS
    Sources,         \* of a round; for hashes the DMM scraper is one of them
    MaxConcurrent    \* size of the semaphore, 4

ASSUME FanOutAssumption ==
    IsFiniteSet(Sources) /\ Sources # {} /\ MaxConcurrent \in Nat \ {0}

VARIABLES
    round,         \* what the round is for
    collecting,    \* the collector is receiving
    fetcher,       \* where the goroutine of each source stands
    answered,      \* sources that gave something
    channel,       \* sources whose result is in the channel
    received,      \* sources whose result the collector has received
    listed         \* sources that are in what the collector returns

fanVars == <<round, collecting, fetcher, answered, channel, received, listed>>

FanOutTypeOK ==
    /\ round \in {"none", "streams", "hashes"}
    /\ collecting \in BOOLEAN
    /\ fetcher \in [Sources -> {"none", "start", "fetch", "send", "release", "done"}]
    /\ answered \subseteq Sources
    /\ channel \subseteq Sources
    /\ received \subseteq Sources
    /\ listed \subseteq received

FanOutInit ==
    /\ round = "none"
    /\ collecting = FALSE
    /\ fetcher = [s \in Sources |-> "none"]
    /\ answered = {}
    /\ channel = {}
    /\ received = {}
    /\ listed = {}

At(pc) == {s \in Sources : fetcher[s] = pc}

Go(s, pc) == fetcher' = [fetcher EXCEPT ![s] = pc]

StartRound(kind) ==
    /\ round = "none"
    /\ round' = kind
    /\ collecting' = TRUE
    /\ fetcher' = [s \in Sources |-> "start"]
    /\ UNCHANGED <<answered, channel, received, listed>>

-----------------------------------------------------------------------------
(* The goroutines.                                                         *)

\* Only stream lists have the semaphore; it is given back after the send.
Acquire(s) ==
    /\ fetcher[s] = "start"
    /\ round = "streams" =>
         Cardinality(At("fetch") \cup At("send") \cup At("release")) < MaxConcurrent
    /\ Go(s, "fetch")
    /\ UNCHANGED <<round, collecting, answered, channel, received, listed>>

\* As if a source that fails sent nothing.
FetchOrGiveUp(s) ==
    /\ fetcher[s] = "fetch"
    /\ \/ answered' = answered \cup {s} /\ Go(s, "send")
       \/ UNCHANGED answered /\ Go(s, "release")
    /\ UNCHANGED <<round, collecting, channel, received, listed>>

Fetch(s) ==
    /\ fetcher[s] = "fetch"
    /\ answered' \in {answered, answered \cup {s}}
    /\ Go(s, "send")
    /\ UNCHANGED <<round, collecting, channel, received, listed>>

CapacityOfOne == 1

Capacity == Cardinality(Sources)

Send(s) ==
    /\ fetcher[s] = "send"
    /\ Cardinality(channel) < Capacity
    /\ channel' = channel \cup {s}
    /\ Go(s, IF round = "streams" THEN "release" ELSE "done")
    /\ UNCHANGED <<round, collecting, answered, received, listed>>

ReleaseOnlyAfterHashes(s) ==
    /\ fetcher[s] = "release"
    /\ round = "hashes"
    /\ Go(s, "done")
    /\ UNCHANGED <<round, collecting, answered, channel, received, listed>>

Release(s) ==
    /\ fetcher[s] = "release"
    /\ Go(s, "done")
    /\ UNCHANGED <<round, collecting, answered, channel, received, listed>>

-----------------------------------------------------------------------------
(* The collector.                                                          *)

\* With a hundred hashes the prefetcher returns at once.
Receive(s) ==
    /\ collecting
    /\ s \in channel
    /\ channel' = channel \ {s}
    /\ received' = received \cup {s}
    /\ listed' = listed \cup (answered \cap {s})
    /\ collecting' \in IF round = "hashes" /\ s \in answered THEN BOOLEAN ELSE {TRUE}
    /\ UNCHANGED <<round, fetcher, answered>>

FinishOneEarly ==
    /\ collecting
    /\ Cardinality(received) + 1 = Cardinality(Sources)
    /\ collecting' = FALSE
    /\ UNCHANGED <<round, fetcher, answered, channel, received, listed>>

Finish ==
    /\ collecting
    /\ received = Sources
    /\ collecting' = FALSE
    /\ UNCHANGED <<round, fetcher, answered, channel, received, listed>>

\* Model bound: rounds do not overlap, as they share nothing.
NextRound ==
    /\ round # "none"
    /\ ~collecting
    /\ At("done") = Sources
    /\ round' = "none"
    /\ fetcher' = [s \in Sources |-> "none"]
    /\ answered' = {}
    /\ channel' = {}
    /\ received' = {}
    /\ listed' = {}
    /\ UNCHANGED collecting

-----------------------------------------------------------------------------
FetcherStep(s) == Acquire(s) \/ Fetch(s) \/ Send(s) \/ Release(s)

Collect == Finish \/ \E s \in Sources : Receive(s)

FanOutNext ==
    \/ \E kind \in {"streams", "hashes"} : StartRound(kind)
    \/ \E s \in Sources : FetcherStep(s)
    \/ Collect
    \/ NextRound

\* Fetches end: the contexts have deadlines of 10 to 15 seconds.
FanOutFairness == WF_fanVars(Collect) /\ \A s \in Sources : WF_fanVars(FetcherStep(s))

FanOutSpec == FanOutInit /\ [][FanOutNext]_fanVars /\ FanOutFairness

-----------------------------------------------------------------------------
\* A stream list has what every source answered in time, in whatever order
\* they did and whichever failed (proxy.go:162-176).
ListIsComplete == round = "streams" /\ ~collecting => listed = answered

\* Nobody waits in vain for another.  A goroutine that has fetched sends at
\* once, whether anyone receives or not; and until its result is in the channel
\* or received, there is a goroutine to send it, also for a source that failed,
\* so the collector waits for nothing that does not come (proxy.go:152-176,
\* prefetch.go:216).
NobodyWaitsInVain ==
    /\ \A s \in Sources : fetcher[s] = "send" => Cardinality(channel) < Capacity
    /\ collecting =>
         \A s \in Sources \ (channel \cup received) : fetcher[s] \in {"start", "fetch", "send"}

\* The collector returns: goroutines waiting for the semaphore and the
\* collector waiting for goroutines do not block each other (proxy.go:145-176).
RoundEnds == collecting ~> ~collecting

\* No goroutine is left behind, also when the collector stopped listening
\* (prefetch.go:216 and 302-304).
FetchersEnd == \A s \in Sources : fetcher[s] = "start" ~> fetcher[s] \in {"none", "done"}
=============================================================================
