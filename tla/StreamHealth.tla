---------------------------- MODULE StreamHealth ----------------------------
(***************************************************************************)
(* The health of stream links: the stream_urls table and everything that   *)
(* writes it.  Discovery inserts links, a pool of workers probes the links *)
(* queued on validateCh, play requests record strikes, the administrator's *)
(* clean request deletes and resets rows in three statements, maintenance  *)
(* prunes old rows, and the process may crash between any two steps (rows  *)
(* survive, everything else is lost).                                      *)
(*                                                                         *)
(* A row keeps the columns the decisions read.  last_validated is the age  *)
(* class the code compares it with: NULL, within two hours, older than two *)
(* hours, older than thirty days.  Every write is one SQL statement and    *)
(* may fail, in which case the code logs and goes on; reads succeed.       *)
(***************************************************************************)
EXTENDS Naturals, Sequences, FiniteSets

CONSTANTS
    Links,       \* stream URLs
    NoLink,      \* no URL: an idle worker or request
    Requests,    \* concurrent play requests
    Workers,     \* validation workers (two in the code)
    Cleaners,    \* concurrent POST /api/clean requests
    QueueCap,    \* capacity of validateCh (1000 in the code)
    SweepLimit,  \* LIMIT of the sweep's query (50 in the code)
    FailCap      \* model bound: fail_count saturates here

StrikeLimit == 3

ASSUME BoundsAssumption ==
    /\ NoLink \notin Links
    /\ QueueCap \in Nat \ {0}
    /\ SweepLimit \in Nat \ {0}
    /\ FailCap \in Nat
    /\ FailCap >= StrikeLimit

VARIABLES
    row,         \* the stream_urls table
    validateCh,  \* links waiting for a worker
    probing,     \* the link each worker is probing
    sweep,       \* query results the running sweep has not queued yet
    play,        \* the play requests in progress
    clean        \* the next statement of each clean request

vars == <<row, validateCh, probing, sweep, play, clean>>

-----------------------------------------------------------------------------
(* Rows and the statements that change them.                               *)

Ages == {"never", "fresh", "stale", "expired"}

Row == [stored : BOOLEAN, valid : BOOLEAN, fail : 0..FailCap, last : Ages]

NoRow == [stored |-> FALSE, valid |-> TRUE, fail |-> 0, last |-> "never"]

\* fail_count is only compared with 0 and StrikeLimit, so it may saturate.
Bump(n) == IF n < FailCap THEN n + 1 ELSE n

OverwrittenOnConflict(r) == [NoRow EXCEPT !.stored = TRUE]

\* INSERT ... ON CONFLICT(url) DO NOTHING
Discovered(r) == IF r.stored THEN r ELSE [NoRow EXCEPT !.stored = TRUE]

\* The UPDATEs below name a url: they do nothing when the row is gone.
Struck(r) == IF r.stored THEN [r EXCEPT !.fail = Bump(@)] ELSE r

MarkedValid(r) ==
    IF r.stored THEN [r EXCEPT !.valid = TRUE, !.fail = 0, !.last = "fresh"]
                ELSE r

MarkedInvalid(r) ==
    IF r.stored THEN [r EXCEPT !.valid = FALSE, !.fail = Bump(@), !.last = "fresh"]
                ELSE r

CondemnedUndated(r) ==
    IF r.stored THEN [r EXCEPT !.valid = FALSE] ELSE r

\* The error video caught at playback.
Condemned(r) ==
    IF r.stored THEN [r EXCEPT !.valid = FALSE, !.last = "fresh"] ELSE r

IsDue(r) == r.stored /\ r.last # "fresh"

\* The comparison last_validated < now-2h is never true of NULL.
IsOld(r) == r.stored /\ r.last \in {"stale", "expired"}

\* A statement on the row of l either takes effect or fails.
Exec(l, new) == row' = [row EXCEPT ![l] = new] \/ UNCHANGED row

-----------------------------------------------------------------------------
(* What the two readers decide.                                            *)

\* playHandler refuses dead links before it does anything else.
Playable(r) == ~r.stored \/ (r.fail < StrikeLimit /\ r.valid)

\* serveStreamsJSON scans last_validated into a time.Time: on NULL the scan
\* fails and the whole gate is skipped.
GatePasses(r) ==
    \/ ~r.stored
    \/ r.last = "never"
    \/ r.fail < StrikeLimit /\ r.valid

-----------------------------------------------------------------------------
PlayPcs == {"idle", "follow", "head", "route", "condemn", "proxy"}

IdlePlay == [pc |-> "idle", link |-> NoLink, strikes |-> 0]

TypeOK ==
    /\ row \in [Links -> Row]
    /\ validateCh \in Seq(Links)
    /\ Len(validateCh) <= QueueCap
    /\ probing \in [Workers -> Links \cup {NoLink}]
    /\ sweep \in SUBSET Links
    /\ play \in [Requests -> [pc : PlayPcs, link : Links \cup {NoLink}, strikes : Nat]]
    /\ \A q \in Requests : play[q].pc # "idle" => play[q].link \in Links
    /\ clean \in [Cleaners -> {"idle", "reset", "expire"}]

Init ==
    /\ row = [l \in Links |-> NoRow]
    /\ validateCh = <<>>
    /\ probing = [w \in Workers |-> NoLink]
    /\ sweep = {}
    /\ play = [q \in Requests |-> IdlePlay]
    /\ clean = [c \in Cleaners |-> "idle"]

-----------------------------------------------------------------------------
(* Discovery and validation.                                               *)

EnqueueUnbounded(l) == validateCh' = Append(validateCh, l)

\* select { case validateCh <- l: default: } drops l when the queue is full.
Enqueue(l) ==
    IF Len(validateCh) < QueueCap THEN validateCh' = Append(validateCh, l)
                                  ELSE UNCHANGED validateCh

\* A fetch, a prefetch or a prediction found l: insert it and queue it.
Discover(l) ==
    /\ Exec(l, Discovered(row[l]))
    /\ Enqueue(l)
    /\ UNCHANGED <<probing, sweep, play, clean>>

\* The sweep reads up to SweepLimit due rows; their order is left open here.
SweepQuery ==
    LET due == {l \in Links : IsDue(row[l])}
    IN  /\ sweep = {}
        /\ \E S \in SUBSET due :
             /\ S = due \/ Cardinality(S) = SweepLimit
             /\ Cardinality(S) <= SweepLimit
             /\ sweep' = S
        /\ UNCHANGED <<row, validateCh, probing, play, clean>>

\* It queues them one at a time and gives up when the queue is full.
SweepFeed(l) ==
    /\ l \in sweep
    /\ sweep' = IF Len(validateCh) < QueueCap THEN sweep \ {l} ELSE {}
    /\ Enqueue(l)
    /\ UNCHANGED <<row, probing, play, clean>>

Take(w) ==
    /\ probing[w] = NoLink
    /\ validateCh # <<>>
    /\ probing' = [probing EXCEPT ![w] = Head(validateCh)]
    /\ validateCh' = Tail(validateCh)
    /\ UNCHANGED <<row, sweep, play, clean>>

\* The verdict is written when the probe ends, whatever happened to the row
\* in the meantime.  A 405 answer is inconclusive and writes nothing.
Report(w) ==
    /\ probing[w] # NoLink
    /\ \/ Exec(probing[w], MarkedValid(row[probing[w]]))
       \/ Exec(probing[w], MarkedInvalid(row[probing[w]]))
    /\ probing' = [probing EXCEPT ![w] = NoLink]
    /\ UNCHANGED <<validateCh, sweep, play, clean>>

-----------------------------------------------------------------------------
(* Playback.  The strikes field counts the calls of recordStrike.          *)

Advance(q, pc) == play' = [play EXCEPT ![q].pc = pc]

Finish(q) == play' = [play EXCEPT ![q] = IdlePlay]

Strike(q) == Exec(play[q].link, Struck(row[play[q].link]))

PlayAdmit(q, l) ==
    /\ play[q].pc = "idle"
    /\ Playable(row[l])
    /\ play' = [play EXCEPT ![q] = [pc |-> "follow", link |-> l, strikes |-> 0]]
    /\ UNCHANGED <<row, validateCh, probing, sweep, clean>>

\* Redirects are followed; a failed hop strikes the link and the request
\* goes on with the URL it has.
PlayFollow(q) ==
    /\ play[q].pc = "follow"
    /\ \/ Advance(q, "head") /\ UNCHANGED row
       \/ /\ Strike(q)
          /\ play' = [play EXCEPT ![q].pc = "head", ![q].strikes = @ + 1]
    /\ UNCHANGED <<validateCh, probing, sweep, clean>>

\* The request ends after a strike: an error status of the final URL, an
\* unlock that failed, a proxy error (or, from "condemn", the error video).
PlayFail(q) ==
    /\ play[q].pc \in {"head", "route", "condemn", "proxy"}
    /\ Strike(q)
    /\ play' = [play EXCEPT ![q].pc = "idle", ![q].link = NoLink, ![q].strikes = @ + 1]
    /\ UNCHANGED <<validateCh, probing, sweep, clean>>

PlayHead(q) ==
    /\ play[q].pc = "head"
    /\ Advance(q, "route")
    /\ UNCHANGED <<row, validateCh, probing, sweep, clean>>

ErrorVideoStruckTwice(q) ==
    /\ play[q].pc = "route"
    /\ Exec(play[q].link, MarkedInvalid(row[play[q].link]))
    /\ play' = [play EXCEPT ![q].pc = "condemn", ![q].strikes = @ + 1]
    /\ UNCHANGED <<validateCh, probing, sweep, clean>>

\* A file too small to be a film: marked invalid in one statement, struck in
\* the next (PlayFail).
ErrorVideo(q) ==
    /\ play[q].pc = "route"
    /\ Exec(play[q].link, Condemned(row[play[q].link]))
    /\ Advance(q, "condemn")
    /\ UNCHANGED <<validateCh, probing, sweep, clean>>

PlayProxy(q) ==
    /\ play[q].pc = "route"
    /\ Advance(q, "proxy")
    /\ UNCHANGED <<row, validateCh, probing, sweep, clean>>

\* Ends without a strike: a suspicious URL, a redirect of the player, or a
\* stream proxied to its end.
PlayEnd(q) ==
    /\ play[q].pc \in {"route", "proxy"}
    /\ Finish(q)
    /\ UNCHANGED <<row, validateCh, probing, sweep, clean>>

-----------------------------------------------------------------------------
(* The clean request: three statements, each its own transaction.          *)

CleanDelete(c) ==
    /\ clean[c] = "idle"
    /\ row' = [l \in Links |-> IF row[l].fail >= StrikeLimit THEN NoRow ELSE row[l]]
    /\ clean' = [clean EXCEPT ![c] = "reset"]
    /\ UNCHANGED <<validateCh, probing, sweep, play>>

CleanReset(c) ==
    /\ clean[c] = "reset"
    /\ row' = [l \in Links |-> [row[l] EXCEPT !.fail = 0]]
    /\ clean' = [clean EXCEPT ![c] = "expire"]
    /\ UNCHANGED <<validateCh, probing, sweep, play>>

CleanExpire(c) ==
    /\ clean[c] = "expire"
    /\ row' = [l \in Links |-> IF IsOld(row[l]) THEN [row[l] EXCEPT !.valid = FALSE]
                                                ELSE row[l]]
    /\ clean' = [clean EXCEPT ![c] = "idle"]
    /\ UNCHANGED <<validateCh, probing, sweep, play>>

\* A failed statement ends the request with status 500.
CleanFail(c) ==
    /\ clean[c] # "idle"
    /\ clean' = [clean EXCEPT ![c] = "idle"]
    /\ UNCHANGED <<row, validateCh, probing, sweep, play>>

-----------------------------------------------------------------------------
(* Maintenance, time and crashes.                                          *)

\* DELETE ... WHERE last_validated < now-30d, every hour.
Prune ==
    /\ row' = [l \in Links |-> IF row[l].last = "expired" THEN NoRow ELSE row[l]]
    /\ UNCHANGED <<validateCh, probing, sweep, play, clean>>

Older == [never |-> "never", fresh |-> "stale", stale |-> "expired", expired |-> "expired"]

Age(l) ==
    /\ row' = [row EXCEPT ![l].last = Older[@]]
    /\ UNCHANGED <<validateCh, probing, sweep, play, clean>>

Crash ==
    /\ validateCh' = <<>>
    /\ probing' = [w \in Workers |-> NoLink]
    /\ sweep' = {}
    /\ play' = [q \in Requests |-> IdlePlay]
    /\ clean' = [c \in Cleaners |-> "idle"]
    /\ UNCHANGED row

-----------------------------------------------------------------------------
PlayStep(q) ==
    \/ \E l \in Links : PlayAdmit(q, l)
    \/ PlayFollow(q)
    \/ PlayFail(q)
    \/ PlayHead(q)
    \/ ErrorVideo(q)
    \/ PlayProxy(q)
    \/ PlayEnd(q)

CleanStep(c) ==
    \/ CleanDelete(c)
    \/ CleanReset(c)
    \/ CleanExpire(c)
    \/ CleanFail(c)

Next ==
    \/ \E l \in Links : Discover(l) \/ SweepFeed(l) \/ Age(l)
    \/ SweepQuery
    \/ \E w \in Workers : Take(w) \/ Report(w)
    \/ \E q \in Requests : PlayStep(q)
    \/ \E c \in Cleaners : CleanStep(c)
    \/ Prune
    \/ Crash

Spec == Init /\ [][Next]_vars

-----------------------------------------------------------------------------
(* Properties.                                                             *)

\* A link the catalogue gate lets through is never one that is marked
\* invalid, although the gate (proxy.go:334-354) does not run on a row whose
\* last_validated is NULL: every statement that clears is_valid must have a
\* date on the row, in whatever order they run and whichever of them fail.
GateNeverPassesInvalid ==
    \A l \in Links : row[l].stored /\ GatePasses(row[l]) => row[l].valid

\* A stored link marked invalid becomes valid again only by a probe of that
\* link which ends in this step: finding it again, cleaning, ageing or a
\* restart never revives it (validation.go:190-200 is the only such write).
OnlyProbeRevives ==
    [][\A l \in Links :
         row[l].stored /\ ~row[l].valid /\ row'[l].stored /\ row'[l].valid
         => \E w \in Workers : probing[w] = l /\ probing'[w] # l]_vars

\* One play request never has enough strikes to take a link out by strikes alone:
\* whichever way playHandler goes, it calls recordStrike at most twice.  An error
\* video is no strike: it condemns the link at once (playback.go:170).
OneRequestCannotKill == \A q \in Requests : play[q].strikes < StrikeLimit

\* "Hard block if too many strikes" (proxy.go:342): the gate hides a link
\* with three strikes.
GateHidesStruckLinks ==
    \A l \in Links : row[l].stored /\ row[l].fail >= StrikeLimit => ~GatePasses(row[l])
=============================================================================
