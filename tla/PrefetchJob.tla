----------------------------- MODULE PrefetchJob -----------------------------
(***************************************************************************)
(* The library prefetcher: POST /api/prefetch starts a job, which walks    *)
(* the Stremio library and records each item it has done in a history that *)
(* is kept on disk; POST /api/prefetch/stop cancels it; a restart loses    *)
(* the job and reloads the history.                                        *)
(*                                                                         *)
(* Starting takes three critical sections: read Running, exchange the      *)
(* cancel function, reset the status.  A job takes one step per critical   *)
(* section or wait.  Items are their positions in the library; the hashes  *)
(* of an item are only counted.  os.WriteFile empties the history file and *)
(* then writes it, both under prefetchHistoryMu; writes do not fail.       *)
(* Of the status only Running is kept: the counters are for display.       *)
(***************************************************************************)
EXTENDS Naturals, FiniteSets

CONSTANTS
    Jobs,       \* job identities, reused when a job is over: a model bound
    NoJob,
    Posts,      \* concurrent POST /api/prefetch requests
    Items,      \* model bound on the length of the library
    Hashes      \* model bound on the hashes of an item

ASSUME PrefetchAssumption ==
    /\ NoJob \notin Jobs
    /\ Items \in Nat
    /\ Hashes \in Nat

VARIABLES
    running,    \* prefetchStatus.Running
    current,    \* the job whose cancel function is in prefetchCancel
    cancelled,  \* jobs whose context is done
    post,       \* where each POST stands
    job,        \* where each job stands
    history,    \* prefetchHistory
    file        \* the items that loading prefetch_history.json gives: none
                \* when it was emptied, for it does not parse then

vars == <<running, current, cancelled, post, job, history, file>>

PostPcs == {"idle", "checked", "armed"}

JobPcs == {"none", "armed", "begin", "wipe", "wiping", "library", "item", "hashes",
           "backoff", "mark", "save", "saving", "end"}

NoPost == [pc |-> "idle", job |-> NoJob, force |-> FALSE]

NoWork == [pc |-> "none", force |-> FALSE, length |-> 0, item |-> 0, left |-> 0]

TypeOK ==
    /\ running \in BOOLEAN
    /\ current \in Jobs \cup {NoJob}
    /\ cancelled \in SUBSET Jobs
    /\ post \in [Posts -> [pc : PostPcs, job : Jobs \cup {NoJob}, force : BOOLEAN]]
    /\ job \in [Jobs -> [pc : JobPcs, force : BOOLEAN, length : 0..Items,
                         item : 0..(Items + 1), left : 0..Hashes]]
    /\ history \in SUBSET (1..Items)
    /\ file \in SUBSET (1..Items)

Init ==
    /\ running = FALSE
    /\ current = NoJob
    /\ cancelled = {}
    /\ post = [p \in Posts |-> NoPost]
    /\ job = [j \in Jobs |-> NoWork]
    /\ history = {}
    /\ file = {}

Live(j) == job[j].pc # "none"

-----------------------------------------------------------------------------
(* serveAPIPrefetch and serveAPIPrefetchStop.                              *)

\* Read Running; 409 when it is set.
PostCheck(p, force) ==
    /\ post[p].pc = "idle"
    /\ ~running
    /\ post' = [post EXCEPT ![p] = [pc |-> "checked", job |-> NoJob, force |-> force]]
    /\ UNCHANGED <<running, current, cancelled, job, history, file>>

ArmWithoutCancel(p, j) ==
    /\ post[p].pc = "checked"
    /\ ~Live(j) /\ j # current
    /\ current' = j
    /\ cancelled' = cancelled \ {j}
    /\ post' = [post EXCEPT ![p].pc = "armed", ![p].job = j]
    /\ job' = [job EXCEPT ![j] = [NoWork EXCEPT !.pc = "armed", !.force = post[p].force]]
    /\ UNCHANGED <<running, history, file>>

\* Cancel whatever prefetchCancel belongs to and put the new job's there.
PostArm(p, j) ==
    /\ post[p].pc = "checked"
    /\ ~Live(j) /\ j # current
    /\ current' = j
    /\ cancelled' = (cancelled \cup (IF current = NoJob THEN {} ELSE {current})) \ {j}
    /\ post' = [post EXCEPT ![p].pc = "armed", ![p].job = j]
    /\ job' = [job EXCEPT ![j] = [NoWork EXCEPT !.pc = "armed", !.force = post[p].force]]
    /\ UNCHANGED <<running, history, file>>

\* Reset the status and start the goroutine.
PostLaunch(p) ==
    /\ post[p].pc = "armed"
    /\ running' = TRUE
    /\ job' = [job EXCEPT ![post[p].job].pc = "begin"]
    /\ post' = [post EXCEPT ![p] = NoPost]
    /\ UNCHANGED <<current, cancelled, history, file>>

Stop ==
    /\ current # NoJob
    /\ cancelled' = cancelled \cup {current}
    /\ current' = NoJob
    /\ UNCHANGED <<running, post, job, history, file>>

-----------------------------------------------------------------------------
(* runPrefetchJob.                                                         *)

Goto(j, pc) == job' = [job EXCEPT ![j].pc = pc]

\* prefetchHistoryMu is held while the file is written.
HistoryLocked == \E j \in Jobs : job[j].pc \in {"wiping", "saving"}

\* A forced job wipes the history in memory; another merges the file into it.
Begin(j) ==
    /\ job[j].pc = "begin"
    /\ ~HistoryLocked
    /\ history' = IF job[j].force THEN {} ELSE history \cup file
    /\ Goto(j, IF job[j].force THEN "wipe" ELSE "library")
    /\ UNCHANGED <<running, current, cancelled, post, file>>

\* The library has any number of items, or cannot be fetched.
Library(j) ==
    /\ job[j].pc = "library"
    /\ \/ Goto(j, "end")
       \/ \E n \in 0..Items :
            job' = [job EXCEPT ![j].pc = "item", ![j].length = n, ![j].item = 1]
    /\ UNCHANGED <<running, current, cancelled, post, history, file>>

AllDoneLate(j) == job[j].item > job[j].length + 1

AllDone(j) == job[j].item > job[j].length

\* Top of the loop: stop when cancelled, skip what the history has.  The
\* item's hashes are fetched; without any it is done at once.
Item(j) ==
    /\ job[j].pc = "item"
    /\ \/ /\ AllDone(j) \/ j \in cancelled
          /\ Goto(j, "end")
       \/ /\ ~AllDone(j) /\ j \notin cancelled
          /\ ~HistoryLocked
          /\ job[j].item \in history
          /\ job' = [job EXCEPT ![j].item = @ + 1]
       \/ /\ ~AllDone(j) /\ j \notin cancelled
          /\ ~HistoryLocked
          /\ job[j].item \notin history
          /\ \E n \in 0..Hashes :
               job' = [job EXCEPT ![j].pc = IF n = 0 THEN "mark" ELSE "hashes", ![j].left = n]
    /\ UNCHANGED <<running, current, cancelled, post, history, file>>

HashRetried(j) ==
    /\ job[j].pc = "hashes"
    /\ \/ job[j].left = 0 /\ Goto(j, "mark")
       \/ job[j].left > 0 /\ Goto(j, "backoff")
       \/ job[j].left > 0 /\ job' = [job EXCEPT ![j].left = @ - 1]
    /\ UNCHANGED <<running, current, cancelled, post, history, file>>

\* One hash: cached, submitted, skipped or refused, the loop goes on; a 429
\* makes the job wait first.
Hash(j) ==
    /\ job[j].pc = "hashes"
    /\ \/ job[j].left = 0 /\ Goto(j, "mark")
       \/ /\ job[j].left > 0
          /\ \E pc \in {"hashes", "backoff"} :
               job' = [job EXCEPT ![j].pc = pc, ![j].left = @ - 1]
    /\ UNCHANGED <<running, current, cancelled, post, history, file>>

\* Five minutes pass, or the job is cancelled and the item stays undone.
Backoff(j) ==
    /\ job[j].pc = "backoff"
    /\ \/ Goto(j, "hashes")
       \/ j \in cancelled /\ Goto(j, "end")
    /\ UNCHANGED <<running, current, cancelled, post, history, file>>

Mark(j) ==
    /\ job[j].pc = "mark"
    /\ ~HistoryLocked
    /\ history' = history \cup {job[j].item}
    /\ Goto(j, "save")
    /\ UNCHANGED <<running, current, cancelled, post, file>>

\* savePrefetchHistory, after the wipe or an item: os.WriteFile empties the file.
OpenFile(j) ==
    /\ job[j].pc \in {"wipe", "save"}
    /\ ~HistoryLocked
    /\ file' = {}
    /\ Goto(j, IF job[j].pc = "wipe" THEN "wiping" ELSE "saving")
    /\ UNCHANGED <<running, current, cancelled, post, history>>

\* What the job that has written the file goes on with.
Written(x) ==
    IF x.pc = "wiping" THEN [x EXCEPT !.pc = "library"]
                       ELSE [x EXCEPT !.pc = "item", !.item = @ + 1]

WriteOnlyItem(j) ==
    /\ job[j].pc \in {"wiping", "saving"}
    /\ file' = IF job[j].pc = "wiping" THEN history ELSE {job[j].item}
    /\ job' = [job EXCEPT ![j] = Written(@)]
    /\ UNCHANGED <<running, current, cancelled, post, history>>

\* It writes the history, which nobody has changed since it was serialised.
WriteFile(j) ==
    /\ job[j].pc \in {"wiping", "saving"}
    /\ file' = history
    /\ job' = [job EXCEPT ![j] = Written(@)]
    /\ UNCHANGED <<running, current, cancelled, post, history>>

EndSilently(j) ==
    /\ job[j].pc = "end"
    /\ job' = [job EXCEPT ![j] = NoWork]
    /\ UNCHANGED <<running, current, cancelled, post, history, file>>

\* The deferred function.
End(j) ==
    /\ job[j].pc = "end"
    /\ running' = FALSE
    /\ job' = [job EXCEPT ![j] = NoWork]
    /\ UNCHANGED <<current, cancelled, post, history, file>>

\* main loads the history before it serves requests.
Restart ==
    /\ running' = FALSE
    /\ current' = NoJob
    /\ cancelled' = {}
    /\ post' = [p \in Posts |-> NoPost]
    /\ job' = [j \in Jobs |-> NoWork]
    /\ history' = file
    /\ UNCHANGED file

-----------------------------------------------------------------------------
JobStep(j) ==
    \/ Begin(j) \/ Library(j) \/ Item(j) \/ Hash(j) \/ Backoff(j)
    \/ Mark(j) \/ OpenFile(j) \/ WriteFile(j) \/ End(j)

PostStep(p) ==
    \/ \E force \in BOOLEAN : PostCheck(p, force)
    \/ \E j \in Jobs : PostArm(p, j)
    \/ PostLaunch(p)

Next ==
    \/ \E p \in Posts : PostStep(p)
    \/ Stop
    \/ \E j \in Jobs : JobStep(j)
    \/ Restart

\* Handlers and jobs run to their end: their calls have timeouts and the
\* waits are timed.  A job that waits for prefetchHistoryMu gets it, for Go's
\* mutexes hand themselves over to who has waited too long: hence the strong
\* fairness.  Nobody has to start, stop or restart anything.
Fairness ==
    /\ \A p \in Posts : WF_vars(PostLaunch(p))
    /\ \A j \in Jobs : SF_vars(JobStep(j))

Spec == Init /\ [][Next]_vars /\ Fairness

-----------------------------------------------------------------------------
(* Properties.                                                             *)

\* However the starts interleave, every job that is not cancelled is the one
\* Stop would cancel, so at most one job goes on working.
EveryJobIsStoppable ==
    \A j \in Jobs : Live(j) => j = current \/ j \in cancelled

\* "Prefetch scans now log completed items ..., allowing the scanner to
\* instantly skip already-processed IMDB IDs across restarts" (CHANGELOG.md:20).
\* However jobs overlap and whenever the process dies, an item that is done is
\* forgotten only when a forced job wipes the history, or when the process dies
\* before the item was saved or while the file is being written: os.WriteFile
\* empties it first, and then everything is forgotten (prefetch.go:57-77).
DoneItemsStayDone ==
    [][\A i \in history \ history' : \E j \in Jobs :
          \/ Begin(j) /\ job[j].force
          \/ /\ Restart
             /\ \/ job[j].pc \in {"wiping", "saving"}
                \/ job[j].pc = "save" /\ job[j].item = i]_vars

\* A cancelled job ends, from wherever it is: between two items, waiting out
\* a rate limit, or not even launched yet.
CancelledJobsEnd == \A j \in Jobs : j \in cancelled /\ Live(j) ~> ~Live(j)

\* The status does not stay "running" for ever: another job can be started.
RunningEnds == running ~> ~running

\* Steps of an item: its top, two for every hash that has to wait, the last
\* look at the hashes, the mark and the two of the save.
ItemSteps == 2 * Hashes + 5

\* How many steps a job that stands at x has left at most: those for the item it
\* is at, for the items behind it, and for its end.
LeftOf(x) ==
    LET behind == (x.length - x.item) * ItemSteps + 2
    IN  CASE x.pc = "none" -> 0
          [] x.pc = "end" -> 1
          [] x.pc = "saving" -> behind + 1
          [] x.pc = "save" -> behind + 2
          [] x.pc = "mark" -> behind + 3
          [] x.pc = "hashes" -> behind + 4 + 2 * x.left
          [] x.pc = "backoff" -> behind + 5 + 2 * x.left
          [] x.pc = "item" -> behind + ItemSteps
          [] x.pc = "library" -> Items * ItemSteps + 3
          [] x.pc = "wiping" -> Items * ItemSteps + 4
          [] x.pc = "wipe" -> Items * ItemSteps + 5
          [] x.pc = "begin" -> Items * ItemSteps + 6
          [] x.pc = "armed" -> Items * ItemSteps + 7

JobStepsLeft(j) == LeftOf(job[j])

\* A job only gets closer to its end, whatever requests and other jobs do, and
\* each of its own steps brings it closer: rate limits and refusals repeat
\* nothing that was done (prefetch.go:543-704).
JobsCountDown ==
    [][\A j \in Jobs :
          Live(j) =>
            JobStepsLeft(j)' \in 0..(IF JobStep(j) THEN JobStepsLeft(j) - 1
                                                 ELSE JobStepsLeft(j))]_vars

\* "PrefetchStatus tracks the state of a running (or last completed) prefetch
\* job" (prefetch.go:27): while a job runs, Running is set.
RunningTracksJobs == (\E j \in Jobs : Live(j) /\ job[j].pc # "armed") => running
=============================================================================
