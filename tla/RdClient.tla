------------------------------- MODULE RdClient -------------------------------
(***************************************************************************)
(* Calls to Real-Debrid: rdDo with its retries, and the calls made through *)
(* it by play requests and validation workers (Unrestrict), and by the     *)
(* prefetcher and the stream lists (rdAddMagnet, instant availability).    *)
(* The keys are those of RdKeyPool, whose steps the calls take.            *)
(*                                                                         *)
(* A call is one sequential goroutine.  Back-offs are not timed.  A link   *)
(* found in globalUnrestrictCache saves the request: whether it is there   *)
(* is left open.  Real-Debrid's side is the torrents it holds for a call.  *)
(***************************************************************************)
EXTENDS Naturals, Sequences, FiniteSetsExt, Functions

CONSTANTS
    Tokens, NoToken, EnvTokens, Masks, Mask, Admins, Period,  \* of RdKeyPool
    Unlockers,     \* goroutines that unrestrict a link
    Submitters,    \* goroutines that add a magnet or ask for availability
    UnlockTries,   \* 3 in playHandler
    MaxAttempts    \* retries after the first attempt, 5 in rdDo

ASSUME ClientAssumption ==
    /\ UnlockTries \in Nat \ {0}
    /\ MaxAttempts \in Nat
    /\ Unlockers \cap Submitters = {}

Callers == Unlockers \cup Submitters

VARIABLES
    env, pools, disk, admin, holding,   \* of RdKeyPool
    call,       \* where each call stands
    torrents,   \* the torrents each key owns for the magnet of a submitter
    lost        \* how many of them the submitter was not told of

Keys == INSTANCE RdKeyPool

ASSUME KeysAssumption == Keys!KeyAssumption

vars == <<env, pools, disk, admin, holding, call, torrents, lost>>

keyVars == <<env, pools, disk, admin, holding>>

\* The requests a call sends, named after their endpoint.
Requests == {"unrestrict", "instantAvailability", "addMagnet", "selectFiles"}

Idle == [pc |-> "idle", tries |-> 0, attempt |-> 0]

\* Model bound on what is counted.
Ceiling == MaxAttempts + 2

TypeOK ==
    /\ Keys!TypeOK
    /\ call \in [Callers -> [pc : Requests \cup {"idle", "look", "pick"},
                             tries : 0..UnlockTries, attempt : 0..MaxAttempts]]
    /\ torrents \in [Submitters -> [Tokens -> 0..Ceiling]]
    /\ lost \in [Submitters -> 0..Ceiling]

Init ==
    /\ Keys!Init
    /\ call = [c \in Callers |-> Idle]
    /\ torrents = [s \in Submitters |-> [t \in Tokens |-> 0]]
    /\ lost = [s \in Submitters |-> 0]

-----------------------------------------------------------------------------
(* Starting a call.                                                        *)

\* A play request tries three times, a validation worker once.
Unlock(c) ==
    /\ call[c].pc = "idle"
    /\ pools # <<>>
    /\ call' = [call EXCEPT ![c] = [pc |-> "look", tries |-> UnlockTries, attempt |-> 0]]
    /\ UNCHANGED <<keyVars, torrents, lost>>

Probe(c) ==
    /\ call[c].pc = "idle"
    /\ pools # <<>>
    /\ call' = [call EXCEPT ![c] = [pc |-> "pick", tries |-> 1, attempt |-> 0]]
    /\ UNCHANGED <<keyVars, torrents, lost>>

\* IsRateLimited: a play request gives up when every key is locked out.
AllLocked(p) == p.keys # <<>> /\ \A i \in DOMAIN p.keys : p.keys[i] \in p.locked

Look(c) ==
    /\ call[c].pc = "look"
    /\ call' = IF AllLocked(pools[1]) THEN [call EXCEPT ![c] = Idle]
                                      ELSE [call EXCEPT ![c].pc = "pick"]
    /\ UNCHANGED <<keyVars, torrents, lost>>

EndlessTry(k) == [pc |-> "look", tries |-> k.tries, attempt |-> 0]

\* After a try that failed.
NextTry(k) ==
    IF k.tries > 1 THEN [pc |-> "look", tries |-> k.tries - 1, attempt |-> 0] ELSE Idle

\* The key is taken before the cache of links is asked, so a link that is
\* found there moves the round robin too.
PickForUnlock(c) ==
    /\ call[c].pc = "pick"
    /\ \/ /\ Keys!Pick(c)
          /\ call' = [call EXCEPT ![c].pc = "unrestrict"]
       \/ /\ pools[1].keys = <<>>
          /\ call' = [call EXCEPT ![c] = NextTry(@)]
          /\ UNCHANGED keyVars
    /\ UNCHANGED <<torrents, lost>>

\* rdAddMagnet or checkRDInstantAvailability (one batch of hashes).
Submit(c, request) ==
    /\ call[c].pc = "idle"
    /\ Keys!Pick(c)
    /\ call' = [call EXCEPT ![c] = [pc |-> request, tries |-> 1, attempt |-> 0]]
    /\ torrents' = [torrents EXCEPT ![c] = [t \in Tokens |-> 0]]
    /\ lost' = [lost EXCEPT ![c] = 0]

-----------------------------------------------------------------------------
(* rdDo, and what its callers do with the outcome.                         *)

Sent(c) == call[c].pc \in Requests

\* Real-Debrid takes the magnet, again if it has it already.
Take(c) ==
    torrents' = [torrents EXCEPT ![c][holding[c]] = Min({@ + 1, Ceiling})]

\* No usable answer: the request may have reached Real-Debrid or not.
NoAnswer(c) ==
    \/ UNCHANGED <<torrents, lost>>
    \/ /\ call[c].pc = "addMagnet"
       /\ Take(c)
       /\ lost' = [lost EXCEPT ![c] = Min({@ + 1, Ceiling})]

RetryOnceMore(c) ==
    /\ call[c].attempt <= MaxAttempts
    /\ call' = [call EXCEPT ![c].attempt = @ + 1]
    /\ UNCHANGED keyVars

\* With the key of the first attempt, whatever has become of it.
Retry(c) ==
    /\ call[c].attempt < MaxAttempts
    /\ call' = [call EXCEPT ![c].attempt = @ + 1]
    /\ UNCHANGED keyVars

GiveUp(c) ==
    /\ call' = [call EXCEPT ![c] = NextTry(@)]
    /\ Keys!Answer(c)

\* Timeout, EOF, connection reset or broken pipe.
NetworkError(c) ==
    /\ Sent(c)
    /\ NoAnswer(c)
    /\ Retry(c) \/ (call[c].attempt = MaxAttempts /\ GiveUp(c))

\* 429, 503, or one of the error codes that are retried: only Unrestrict has
\* the key locked, and only when the last answer was 429 or 503.
Busy(c) ==
    /\ Sent(c)
    /\ \/ Retry(c)
       \/ call[c].attempt = MaxAttempts /\ GiveUp(c)
       \/ /\ call[c].attempt = MaxAttempts
          /\ call[c].pc = "unrestrict"
          /\ call' = [call EXCEPT ![c] = NextTry(@)]
          /\ Keys!ReportLimited(c)
    /\ UNCHANGED <<torrents, lost>>

\* Any other status or error, or an answer that cannot be parsed.
Refused(c) ==
    /\ Sent(c)
    /\ NoAnswer(c)
    /\ GiveUp(c)

CreatedIsNotOK(c) ==
    /\ Sent(c)
    /\ \/ call[c].pc = "addMagnet" /\ Take(c) /\ Retry(c)
       \/ call[c].pc # "addMagnet" /\ GiveUp(c) /\ UNCHANGED torrents
    /\ UNCHANGED lost

SelectWithNextKey(c) ==
    /\ Sent(c)
    /\ \/ /\ call[c].pc = "addMagnet" /\ pools[1].keys # <<>>
          /\ Take(c)
          /\ call' = [call EXCEPT ![c].pc = "selectFiles", ![c].attempt = 0]
          /\ holding' = [holding EXCEPT ![c] = Keys!KeyAt(pools[1], Keys!Steps(pools[1]))]
          /\ UNCHANGED <<env, pools, disk, admin>>
       \/ /\ call[c].pc # "addMagnet"
          /\ call' = [call EXCEPT ![c] = Idle]
          /\ Keys!Answer(c)
          /\ UNCHANGED torrents
    /\ UNCHANGED lost

\* Also a link found in the cache.  A torrent that was added has its files
\* selected, with the same key; that this fails is only logged.
Succeed(c) ==
    /\ Sent(c)
    /\ \/ /\ call[c].pc = "addMagnet"
          /\ Take(c)
          /\ call' = [call EXCEPT ![c].pc = "selectFiles", ![c].attempt = 0]
          /\ UNCHANGED keyVars
       \/ /\ call[c].pc # "addMagnet"
          /\ call' = [call EXCEPT ![c] = Idle]
          /\ Keys!Answer(c)
          /\ UNCHANGED torrents
    /\ UNCHANGED lost

-----------------------------------------------------------------------------
CallStep(c) ==
    \/ Look(c) \/ PickForUnlock(c)
    \/ NetworkError(c) \/ Busy(c) \/ Refused(c) \/ Succeed(c)

Lockouts == \E i \in DOMAIN pools, t \in Tokens : Keys!LockoutEnds(i, t)

\* Requests of /api/keys while calls are under way.
Administer == \E a \in Admins : Keys!Administer(a)

Restart ==
    /\ Keys!Restart
    /\ call' = [c \in Callers |-> Idle]
    /\ UNCHANGED <<torrents, lost>>

Next ==
    \/ \E c \in Unlockers : Unlock(c) \/ Probe(c)
    \/ \E c \in Submitters, r \in {"addMagnet", "instantAvailability"} : Submit(c, r)
    \/ \E c \in Callers : CallStep(c)
    \/ (Lockouts \/ Administer) /\ UNCHANGED <<call, torrents, lost>>
    \/ Restart

\* httpClient has a timeout of 15 seconds, back-offs and the pause between
\* two tries are timed.  Nobody has to start a call, and no key has to be
\* given back.
Fairness == \A c \in Callers : WF_vars(CallStep(c))

Spec == Init /\ [][Next]_vars /\ Fairness

-----------------------------------------------------------------------------
(* Properties.                                                             *)

Copies(c) == SumFunction(torrents[c])

\* Repeating a POST whose answer was lost may add a magnet again, but nothing
\* else does: there is at most one torrent more than lost answers, and no
\* more answers are lost than rdDo has attempts (debrid.go:34-133).
DuplicatesNeedLostAnswers ==
    \A c \in Submitters :
        /\ Copies(c) <= lost[c] + (IF call[c].pc = "addMagnet" THEN 0 ELSE 1)
        /\ lost[c] <= MaxAttempts + 1

\* Files are selected with a key that owns the torrent, though keys rotate,
\* are locked out and are deleted between the two requests (debrid.go:612-622).
FilesSelectedByOwner ==
    \A c \in Submitters :
        call[c].pc = "selectFiles" => torrents[c][holding[c]] > 0

\* Every call ends, whatever Real-Debrid answers or fails to answer and
\* however the keys change meanwhile: neither the retries of rdDo nor the
\* tries of a play request go on for ever (debrid.go:49-133, playback.go:256).
EveryCallEnds == \A c \in Callers : call[c].pc # "idle" ~> call[c].pc = "idle"

\* Steps of a try: a look at the lockouts, a pick, and at most MaxAttempts + 1
\* requests.
TrySteps == MaxAttempts + 3

\* How many steps a call that stands at k has left at most.  After a magnet was
\* added there is one more request to be sent, and repeated.
LeftOf(k) ==
    LET later == (k.tries - 1) * TrySteps
        now == MaxAttempts + 1 - k.attempt
    IN  CASE k.pc = "idle" -> 0
          [] k.pc = "look" -> later + TrySteps
          [] k.pc = "pick" -> later + TrySteps - 1
          [] k.pc = "addMagnet" -> later + now + MaxAttempts + 1
          [] OTHER -> later + now

StepsLeft(c) == LeftOf(call[c])

\* A call that is under way only gets closer to its end, whatever else happens,
\* and each of its own steps brings it closer, so the number of requests that
\* one play request or submission causes is bounded (debrid.go:49-133,
\* playback.go:256).
CallsCountDown ==
    [][\A c \in Callers :
          call[c].pc # "idle" =>
            StepsLeft(c)' \in 0..(IF CallStep(c) THEN StepsLeft(c) - 1 ELSE StepsLeft(c))]_vars
=============================================================================
