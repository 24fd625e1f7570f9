-------------------------- MODULE RevalidationSweep --------------------------
(***************************************************************************)
(* Who gets revalidated: the periodic sweep with its ORDER BY and LIMIT,   *)
(* the bounded queue it feeds without blocking and the workers that drain  *)
(* it, when no user asks for any link.  StreamHealth says what a verdict   *)
(* does to a row; here only the order of last_validated matters.           *)
(***************************************************************************)
EXTENDS Naturals, Sequences, SequencesExt

CONSTANTS
    Links,       \* the stored links
    NoLink,      \* an idle worker
    Opaque,      \* links whose host answers HEAD with 405
    Workers,
    QueueCap,    \* capacity of validateCh
    SweepLimit,  \* LIMIT of the query
    NullsFirst,  \* ASC order of NULL: first in SQLite, last in Postgres
    MaxCrashes   \* model bound on restarts

ASSUME SweepAssumption ==
    /\ IsFiniteSet(Links)
    /\ NoLink \notin Links
    /\ Opaque \subseteq Links
    /\ QueueCap \in Nat \ {0}
    /\ SweepLimit \in Nat \ {0}
    /\ NullsFirst \in BOOLEAN
    /\ MaxCrashes \in Nat

VARIABLES
    undated,     \* rows whose last_validated is NULL, in order of insertion
    dated,       \* the other rows, oldest last_validated first
    due,         \* how many of them are older than two hours
    validateCh,
    probing,     \* the link each worker is probing
    sweep,       \* rows of the running sweep's query not yet queued
    crashes

vars == <<undated, dated, due, validateCh, probing, sweep, crashes>>

Overdue == SubSeq(dated, 1, due)

IsDue(l) == l \in ToSet(undated \o Overdue)

TypeOK ==
    /\ undated \in Seq(Links) /\ dated \in Seq(Links)
    /\ ToSet(undated) \cup ToSet(dated) = Links
    /\ IsInjective(undated \o dated)
    /\ due \in 0..Len(dated)
    /\ validateCh \in Seq(Links) /\ Len(validateCh) <= QueueCap
    /\ probing \in [Workers -> Links \cup {NoLink}]
    /\ sweep \in Seq(Links) /\ Len(sweep) <= SweepLimit
    /\ crashes \in 0..MaxCrashes

\* All links start unvalidated, inserted in any order.
Init ==
    /\ undated \in SetToSeqs(Links)
    /\ dated = <<>>
    /\ due = 0
    /\ validateCh = <<>>
    /\ probing = [w \in Workers |-> NoLink]
    /\ sweep = <<>>
    /\ crashes = 0

-----------------------------------------------------------------------------
AtMost(n, s) == SubSeq(s, 1, IF n < Len(s) THEN n ELSE Len(s))

NewestFirst ==
    AtMost(SweepLimit, IF NullsFirst THEN undated \o Reverse(Overdue)
                                     ELSE Reverse(Overdue) \o undated)

\* ORDER BY last_validated ASC
Waiting == IF NullsFirst THEN undated \o Overdue ELSE Overdue \o undated

\* LIMIT 50
OldestFirst == AtMost(SweepLimit, Waiting)

\* A tick of the sweep's timer, when the previous sweep is over.
SweepQuery ==
    /\ sweep = <<>>
    /\ sweep' = OldestFirst
    /\ UNCHANGED <<undated, dated, due, validateCh, probing, crashes>>

SweepFeedUnchecked ==
    /\ sweep # <<>>
    /\ sweep' = Tail(sweep)
    /\ validateCh' = Append(validateCh, Head(sweep))
    /\ UNCHANGED <<undated, dated, due, probing, crashes>>

SweepFeed ==
    /\ sweep # <<>>
    /\ IF Len(validateCh) < QueueCap
       THEN /\ sweep' = Tail(sweep)
            /\ validateCh' = Append(validateCh, Head(sweep))
       ELSE /\ sweep' = <<>>
            /\ UNCHANGED validateCh
    /\ UNCHANGED <<undated, dated, due, probing, crashes>>

Take(w) ==
    /\ probing[w] = NoLink
    /\ validateCh # <<>>
    /\ probing' = [probing EXCEPT ![w] = Head(validateCh)]
    /\ validateCh' = Tail(validateCh)
    /\ UNCHANGED <<undated, dated, due, sweep, crashes>>

\* As if a failed probe set last_validated back to NULL.
ReportUndated(w) ==
    LET l == probing[w]
    IN  /\ l # NoLink
        /\ l \notin Opaque
        /\ undated' = Append(RemoveFirst(undated, l), l)
        /\ dated' = RemoveFirst(dated, l)
        /\ due' = IF l \in ToSet(Overdue) THEN due - 1 ELSE due
        /\ probing' = [probing EXCEPT ![w] = NoLink]
        /\ UNCHANGED <<validateCh, sweep, crashes>>

\* Both verdicts set last_validated to now: the row becomes the newest.
Report(w) ==
    LET l == probing[w]
    IN  /\ l # NoLink
        /\ l \notin Opaque
        /\ undated' = RemoveFirst(undated, l)
        /\ dated' = Append(RemoveFirst(dated, l), l)
        /\ due' = IF l \in ToSet(Overdue) THEN due - 1 ELSE due
        /\ probing' = [probing EXCEPT ![w] = NoLink]
        /\ UNCHANGED <<validateCh, sweep, crashes>>

\* On 405 validateRDLink returns without writing.
Inconclusive(w) ==
    /\ probing[w] \in Opaque
    /\ probing' = [probing EXCEPT ![w] = NoLink]
    /\ UNCHANGED <<undated, dated, due, validateCh, sweep, crashes>>

\* Two hours pass for the oldest row that is not due yet.
Age ==
    /\ due < Len(dated)
    /\ due' = due + 1
    /\ UNCHANGED <<undated, dated, validateCh, probing, sweep, crashes>>

Crash ==
    /\ crashes < MaxCrashes
    /\ crashes' = crashes + 1
    /\ validateCh' = <<>>
    /\ probing' = [w \in Workers |-> NoLink]
    /\ sweep' = <<>>
    /\ UNCHANGED <<undated, dated, due>>

Work(w) == Take(w) \/ Report(w) \/ Inconclusive(w)

Next ==
    \/ SweepQuery
    \/ SweepFeed
    \/ \E w \in Workers : Work(w)
    \/ Age
    \/ Crash

\* The timer keeps ticking, the sweep's loop runs to its end, and each worker
\* is a goroutine whose probe is bounded by HTTP timeouts.  Nothing is
\* assumed of the ageing of rows and of crashes.
Fairness ==
    /\ WF_vars(SweepQuery)
    /\ WF_vars(SweepFeed)
    /\ \A w \in Workers : WF_vars(Work(w))

Spec == Init /\ [][Next]_vars /\ Fairness

-----------------------------------------------------------------------------
\* "stale streams [...] get re-checked even without user traffic"
\* (validation.go:23-24): a link that is due gets a verdict in the end, though
\* the query is limited, the queue drops what does not fit, and a restart
\* loses what was queued.
DueLinksAreRechecked == \A l \in Links \ Opaque : IsDue(l) ~> ~IsDue(l)

\* With fewer 405 links than the query's limit, the others are still
\* rechecked as long as the sweeps find room in the queue for what they read.
RoomySweepsRecheck ==
    <>[](Len(validateCh) + Len(sweep) <= QueueCap) => DueLinksAreRechecked

Before(s, k, l) == \E i, j \in DOMAIN s : i < j /\ s[i] = k /\ s[j] = l

\* The links that the query returns before l.
Ahead(l) == {k \in Links : Before(Waiting, k, l)}

\* While a link waits for its turn no other link of the table gets ahead of it,
\* whatever is reported, becomes due or is lost in a restart, and each verdict
\* on a link ahead of it brings it closer to the part that the query reads.
\* Links that users add meanwhile do get ahead in SQLite: a new row has NULL and
\* is first (proxy.go:231, prefetch.go:580); the module has none.  Where NULL
\* comes last this holds for dated rows only: a row that becomes due overtakes
\* all links that were never validated (validation.go:34, 190-212).
WaitersAreNotOvertaken ==
    [][\A l \in Links :
          /\ l \in ToSet(Waiting) /\ l \in ToSet(Waiting)'
          /\ NullsFirst \/ l \in ToSet(Overdue)
          => /\ Ahead(l)' \subseteq Ahead(l)
             /\ \A w \in Workers : Report(w) => probing[w] \notin Ahead(l)']_vars
=============================================================================
