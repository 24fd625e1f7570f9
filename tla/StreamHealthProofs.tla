-------------------------- MODULE StreamHealthProofs --------------------------
(***************************************************************************)
(* Proofs about StreamHealth, for any number of links, requests, workers   *)
(* and clean requests and any queue capacity.  The inductive invariant     *)
(* adds two facts to TypeOK: a row marked invalid has a date, and the      *)
(* strikes of a request are bounded by how far it has gone.                *)
(***************************************************************************)
EXTENDS StreamHealth, TLAPS

\* A row on which is_valid was cleared has a last_validated.
Dated(r) == ~r.valid => r.last # "never"

DatedRow == {r \in Row : Dated(r)}

StrikesSoFar(p) ==
    /\ p.pc = "follow" => p.strikes = 0
    /\ p.pc \in {"head", "route", "condemn", "proxy"} => p.strikes <= 1
    /\ p.strikes <= 2

IInv ==
    /\ TypeOK
    /\ row \in [Links -> DatedRow]
    /\ \A q \in Requests : StrikesSoFar(play[q])

-----------------------------------------------------------------------------
\* Saturating increment stays in range.
LEMMA BumpType == \A n \in 0..FailCap : Bump(n) \in 0..FailCap
  BY BoundsAssumption DEF Bump

\* Every statement of the program keeps a dated row dated: no column update
\* clears is_valid on a row without a date.
LEMMA StatementsKeepDates ==
  ASSUME NEW r \in DatedRow
  PROVE  /\ NoRow \in DatedRow
         /\ Discovered(r) \in DatedRow
         /\ Struck(r) \in DatedRow
         /\ MarkedValid(r) \in DatedRow
         /\ MarkedInvalid(r) \in DatedRow
         /\ Condemned(r) \in DatedRow
         /\ [r EXCEPT !.fail = 0] \in DatedRow
         /\ [r EXCEPT !.last = Older[@]] \in DatedRow
         /\ IsOld(r) => [r EXCEPT !.valid = FALSE] \in DatedRow
<1>1. r \in Row /\ 0 \in 0..FailCap
  BY BoundsAssumption DEF DatedRow, StrikeLimit
<1>2. Bump(r.fail) \in 0..FailCap
  BY <1>1, BumpType DEF Row
<1>3. NoRow \in DatedRow
  BY <1>1 DEF DatedRow, NoRow, Row, Dated, Ages
<1>4. Discovered(r) \in DatedRow
  BY <1>1 DEF DatedRow, Discovered, NoRow, Row, Dated, Ages
<1>5. Struck(r) \in DatedRow
  BY <1>1, <1>2 DEF DatedRow, Struck, Row, Dated, Ages
<1>6. MarkedValid(r) \in DatedRow
  BY <1>1 DEF DatedRow, MarkedValid, Row, Dated, Ages
<1>7. MarkedInvalid(r) \in DatedRow
  BY <1>1, <1>2 DEF DatedRow, MarkedInvalid, Row, Dated, Ages
<1>8. Condemned(r) \in DatedRow
  BY <1>1 DEF DatedRow, Condemned, Row, Dated, Ages
<1>9. [r EXCEPT !.fail = 0] \in DatedRow
  BY <1>1 DEF DatedRow, Row, Dated, Ages
<1>10. [r EXCEPT !.last = Older[@]] \in DatedRow
  BY <1>1 DEF DatedRow, Row, Dated, Ages, Older
<1>11. IsOld(r) => [r EXCEPT !.valid = FALSE] \in DatedRow
  BY <1>1 DEF DatedRow, Row, Dated, Ages, IsOld
<1> QED
  BY <1>3, <1>4, <1>5, <1>6, <1>7, <1>8, <1>9, <1>10, <1>11

-----------------------------------------------------------------------------
(* The queue and the requests.                                             *)

\* A non-blocking send keeps the queue within its capacity.
LEMMA EnqueueFits ==
  ASSUME NEW l \in Links, TypeOK, Enqueue(l)
  PROVE  validateCh' \in Seq(Links) /\ Len(validateCh') <= QueueCap
<1>1. validateCh \in Seq(Links) /\ Len(validateCh) <= QueueCap
  BY DEF TypeOK
<1>2. Append(validateCh, l) \in Seq(Links)
  BY <1>1
<1>3. Len(Append(validateCh, l)) = Len(validateCh) + 1 /\ Len(validateCh) \in Nat
  BY <1>1
<1>4. QueueCap \in Nat
  BY BoundsAssumption
<1>5. CASE Len(validateCh) < QueueCap
  <2>1. validateCh' = Append(validateCh, l)
    BY <1>5 DEF Enqueue
  <2> QED
    BY <1>2, <1>3, <1>4, <1>5, <2>1
<1>6. CASE ~(Len(validateCh) < QueueCap)
  BY <1>1, <1>6 DEF Enqueue
<1> QED
  BY <1>5, <1>6

\* One statement on the row of l, failed or not, keeps the table dated.
LEMMA ExecKeepsDates ==
  ASSUME NEW l \in Links, NEW new \in DatedRow, row \in [Links -> DatedRow],
         Exec(l, new)
  PROVE  row' \in [Links -> DatedRow]
  BY DEF Exec

\* The initial state satisfies the inductive invariant.
LEMMA InitIInv == Init => IInv
<1> SUFFICES ASSUME Init PROVE IInv
  OBVIOUS
<1>1. NoRow \in DatedRow
  BY BoundsAssumption DEF DatedRow, NoRow, Row, Dated, Ages, StrikeLimit
<1>2. DatedRow \subseteq Row
  BY DEF DatedRow
<1>3. Len(validateCh) <= QueueCap
  BY BoundsAssumption DEF Init
<1> QED
  BY <1>1, <1>2, <1>3 DEF Init, IInv, TypeOK, StrikesSoFar, IdlePlay, PlayPcs

-----------------------------------------------------------------------------
(* Every step keeps the inductive invariant.                               *)

\* Requests, workers, sweep and clean requests keep their types and the
\* strikes their bound when a request moves on.
LEMMA PlayKeepsStrikes ==
  ASSUME NEW q \in Requests, IInv, PlayStep(q)
  PROVE  /\ play' \in [Requests -> [pc : PlayPcs, link : Links \cup {NoLink}, strikes : Nat]]
         /\ \A p \in Requests : play'[p].pc # "idle" => play'[p].link \in Links
         /\ \A p \in Requests : StrikesSoFar(play'[p])
         /\ row' \in [Links -> DatedRow]
<1> USE DEF IInv, TypeOK
<1> DEFINE P == [pc : PlayPcs, link : Links \cup {NoLink}, strikes : Nat]
<1> DEFINE Good(x) == x \in P /\ (x.pc # "idle" => x.link \in Links) /\ StrikesSoFar(x)
<1>1. \A p \in Requests : Good(play[p])
  OBVIOUS
<1>2. SUFFICES \E x : Good(x) /\ play' = [play EXCEPT ![q] = x] /\ row' \in [Links -> DatedRow]
  BY <1>1
<1>3. row[play[q].link] \in DatedRow /\ play[q].link \in Links
      => \A new : new \in DatedRow /\ Exec(play[q].link, new) => row' \in [Links -> DatedRow]
  BY ExecKeepsDates
<1>4. ASSUME NEW l \in Links, PlayAdmit(q, l)
      PROVE  \E x : Good(x) /\ play' = [play EXCEPT ![q] = x] /\ row' \in [Links -> DatedRow]
  <2>1. Good([pc |-> "follow", link |-> l, strikes |-> 0])
    BY DEF StrikesSoFar, PlayPcs
  <2> QED
    BY <1>4, <2>1 DEF PlayAdmit
<1>5. ASSUME play[q].pc # "idle"
      PROVE  /\ play[q].link \in Links
             /\ Struck(row[play[q].link]) \in DatedRow
             /\ Condemned(row[play[q].link]) \in DatedRow
             /\ Strike(q) => row' \in [Links -> DatedRow]
  <2>1. play[q].link \in Links /\ row[play[q].link] \in DatedRow
    BY <1>5
  <2> QED
    BY <2>1, StatementsKeepDates, <1>3 DEF Strike
<1>6. play[q] \in P /\ StrikesSoFar(play[q])
  OBVIOUS
<1>7. CASE PlayFollow(q)
  <2>1. Good([play[q] EXCEPT !.pc = "head"])
    BY <1>5, <1>6, <1>7 DEF PlayFollow, StrikesSoFar, PlayPcs
  <2>2. Good([play[q] EXCEPT !.pc = "head", !.strikes = @ + 1])
    <3>1. play[q].strikes = 0 /\ play[q].link \in Links /\ play[q] \in P
      BY <1>5, <1>6, <1>7 DEF PlayFollow, StrikesSoFar
    <3>2. play[q].strikes + 1 \in Nat /\ play[q].strikes + 1 = 1 /\ "head" \in PlayPcs
      BY <3>1 DEF PlayPcs
    <3>3. [play[q] EXCEPT !.pc = "head", !.strikes = @ + 1] \in P
      BY <3>1, <3>2
    <3> QED
      BY <3>1, <3>2, <3>3 DEF StrikesSoFar
  <2>3. CASE Advance(q, "head") /\ UNCHANGED row
    BY <2>1, <2>3 DEF Advance
  <2>4. CASE Strike(q) /\ play' = [play EXCEPT ![q].pc = "head", ![q].strikes = @ + 1]
    BY <1>5, <1>7, <2>2, <2>4 DEF PlayFollow
  <2> QED
    BY <1>7, <2>3, <2>4 DEF PlayFollow
<1>8. CASE PlayFail(q)
  <2>1. Good([play[q] EXCEPT !.pc = "idle", !.link = NoLink, !.strikes = @ + 1])
    BY <1>6, <1>8 DEF PlayFail, StrikesSoFar, PlayPcs
  <2>2. Strike(q) /\ play[q].pc # "idle"
    BY <1>8 DEF PlayFail
  <2> QED
    BY <1>5, <1>8, <2>1, <2>2 DEF PlayFail
<1>9. CASE PlayHead(q)
  <2>1. Good([play[q] EXCEPT !.pc = "route"])
    BY <1>5, <1>6, <1>9 DEF PlayHead, StrikesSoFar, PlayPcs
  <2> QED
    BY <1>9, <2>1 DEF PlayHead, Advance
<1>10. CASE ErrorVideo(q)
  <2>1. Good([play[q] EXCEPT !.pc = "condemn"])
    BY <1>5, <1>6, <1>10 DEF ErrorVideo, StrikesSoFar, PlayPcs
  <2>2. row' \in [Links -> DatedRow]
    BY <1>3, <1>5, <1>10 DEF ErrorVideo
  <2> QED
    BY <1>10, <2>1, <2>2 DEF ErrorVideo, Advance
<1>11. CASE PlayProxy(q)
  <2>1. Good([play[q] EXCEPT !.pc = "proxy"])
    BY <1>5, <1>6, <1>11 DEF PlayProxy, StrikesSoFar, PlayPcs
  <2> QED
    BY <1>11, <2>1 DEF PlayProxy, Advance
<1>12. CASE PlayEnd(q)
  <2>1. Good(IdlePlay)
    BY DEF IdlePlay, StrikesSoFar, PlayPcs
  <2> QED
    BY <1>12, <2>1 DEF PlayEnd, Finish
<1> QED
  BY <1>4, <1>7, <1>8, <1>9, <1>10, <1>11, <1>12 DEF PlayStep

\* The statements of a clean request keep the table dated: only dated rows
\* are old enough to be marked invalid.
LEMMA CleanKeepsDates ==
  ASSUME NEW c \in Cleaners, row \in [Links -> DatedRow], CleanStep(c)
  PROVE  row' \in [Links -> DatedRow]
<1>1. ASSUME NEW l \in Links
      PROVE  /\ NoRow \in DatedRow /\ row[l] \in DatedRow
             /\ [row[l] EXCEPT !.fail = 0] \in DatedRow
             /\ IsOld(row[l]) => [row[l] EXCEPT !.valid = FALSE] \in DatedRow
  BY StatementsKeepDates
<1>2. CASE CleanDelete(c)
  BY <1>1, <1>2 DEF CleanDelete
<1>3. CASE CleanReset(c)
  BY <1>1, <1>3 DEF CleanReset
<1>4. CASE CleanExpire(c)
  BY <1>1, <1>4 DEF CleanExpire
<1>5. CASE CleanFail(c)
  BY <1>5 DEF CleanFail
<1> QED
  BY <1>2, <1>3, <1>4, <1>5 DEF CleanStep

\* Every step of the program keeps the inductive invariant.
LEMMA NextIInv == IInv /\ [Next]_vars => IInv'
<1> SUFFICES ASSUME IInv, [Next]_vars PROVE IInv'
  OBVIOUS
<1> USE DEF IInv, TypeOK
<1>0. DatedRow \subseteq Row
  BY DEF DatedRow
<1>1. ASSUME NEW l \in Links, Discover(l) PROVE IInv'
  <2>1. row' \in [Links -> DatedRow]
    BY <1>1, StatementsKeepDates, ExecKeepsDates DEF Discover
  <2>2. validateCh' \in Seq(Links) /\ Len(validateCh') <= QueueCap
    BY <1>1, EnqueueFits DEF Discover
  <2> QED
    BY <1>0, <1>1, <2>1, <2>2 DEF Discover
<1>2. ASSUME NEW l \in Links, SweepFeed(l) PROVE IInv'
  <2>1. validateCh' \in Seq(Links) /\ Len(validateCh') <= QueueCap
    BY <1>2, EnqueueFits DEF SweepFeed
  <2>2. sweep' \in SUBSET Links
    BY <1>2 DEF SweepFeed
  <2> QED
    BY <1>2, <2>1, <2>2 DEF SweepFeed
<1>3. ASSUME NEW l \in Links, Age(l) PROVE IInv'
  <2>1. row[l] \in DatedRow
    OBVIOUS
  <2>2. [row[l] EXCEPT !.last = Older[@]] \in DatedRow
    BY <2>1, StatementsKeepDates
  <2>3. row' \in [Links -> DatedRow]
    BY <1>3, <2>2 DEF Age
  <2> QED
    BY <1>0, <1>3, <2>3 DEF Age
<1>4. CASE SweepQuery
  BY <1>4 DEF SweepQuery
<1>5. ASSUME NEW w \in Workers, Take(w) PROVE IInv'
  <2>1. Head(validateCh) \in Links /\ Tail(validateCh) \in Seq(Links)
    BY <1>5 DEF Take
  <2>2. Len(Tail(validateCh)) <= QueueCap
    <3>1. Len(Tail(validateCh)) = Len(validateCh) - 1 /\ Len(validateCh) \in Nat
      BY <1>5 DEF Take
    <3> QED
      BY <3>1, BoundsAssumption
  <2> QED
    BY <1>5, <2>1, <2>2 DEF Take
<1>6. ASSUME NEW w \in Workers, Report(w) PROVE IInv'
  <2>1. probing[w] \in Links /\ row[probing[w]] \in DatedRow
    BY <1>6 DEF Report
  <2>2. row' \in [Links -> DatedRow]
    BY <1>6, <2>1, StatementsKeepDates, ExecKeepsDates DEF Report
  <2> QED
    BY <1>0, <1>6, <2>2 DEF Report
<1>7. ASSUME NEW q \in Requests, PlayStep(q) PROVE IInv'
  <2>1. UNCHANGED <<validateCh, probing, sweep, clean>>
    BY <1>7 DEF PlayStep, PlayAdmit, PlayFollow, PlayFail, PlayHead, ErrorVideo,
                PlayProxy, PlayEnd
  <2> QED
    BY <1>0, <1>7, <2>1, PlayKeepsStrikes
<1>8. ASSUME NEW c \in Cleaners, CleanStep(c) PROVE IInv'
  <2>1. row' \in [Links -> DatedRow]
    BY <1>8, CleanKeepsDates
  <2>2. clean' \in [Cleaners -> {"idle", "reset", "expire"}]
    BY <1>8 DEF CleanStep, CleanDelete, CleanReset, CleanExpire, CleanFail
  <2>3. UNCHANGED <<validateCh, probing, sweep, play>>
    BY <1>8 DEF CleanStep, CleanDelete, CleanReset, CleanExpire, CleanFail
  <2> QED
    BY <1>0, <2>1, <2>2, <2>3
<1>9. CASE Prune
  <2>1. \A l \in Links : row[l] \in DatedRow /\ NoRow \in DatedRow
    BY StatementsKeepDates
  <2>2. row' \in [Links -> DatedRow]
    BY <1>9, <2>1 DEF Prune
  <2> QED
    BY <1>0, <1>9, <2>2 DEF Prune
<1>10. CASE Crash
  <2>1. validateCh' \in Seq(Links) /\ Len(validateCh') <= QueueCap
    BY <1>10, BoundsAssumption DEF Crash
  <2> QED
    BY <1>10, <2>1 DEF Crash, IdlePlay, StrikesSoFar, PlayPcs
<1>11. CASE UNCHANGED vars
  BY <1>11 DEF vars
<1> QED
  BY <1>1, <1>2, <1>3, <1>4, <1>5, <1>6, <1>7, <1>8, <1>9, <1>10, <1>11 DEF Next

\* The inductive invariant holds in every reachable state.
THEOREM Invariance == Spec => []IInv
<1>1. Init => IInv
  BY InitIInv
<1>2. IInv /\ [Next]_vars => IInv'
  BY NextIInv
<1> QED
  BY <1>1, <1>2, PTL DEF Spec

-----------------------------------------------------------------------------
(* The properties.                                                         *)

\* The variables keep their types and the queue its capacity.
THEOREM TypeCorrect == Spec => []TypeOK
<1>1. IInv => TypeOK
  BY DEF IInv
<1> QED
  BY <1>1, Invariance, PTL

\* serveStreamsJSON never lets a link through that is marked invalid, though
\* its gate skips rows whose last_validated is NULL.
THEOREM GateSafe == Spec => []GateNeverPassesInvalid
<1>1. IInv => GateNeverPassesInvalid
  BY DEF IInv, DatedRow, Dated, GateNeverPassesInvalid, GatePasses
<1> QED
  BY <1>1, Invariance, PTL

\* No play request records StrikeLimit strikes, for any numbers of requests and
\* links (recordStrike in playback.go; an error video condemns without them).
THEOREM StrikesBounded == Spec => []OneRequestCannotKill
<1>1. IInv => OneRequestCannotKill
  BY DEF IInv, TypeOK, StrikesSoFar, OneRequestCannotKill, StrikeLimit
<1> QED
  BY <1>1, Invariance, PTL

\* A statement on a row that leaves it stored, other than markValid, does not
\* turn it from invalid to valid.
LEMMA StatementsDoNotRevive ==
  ASSUME NEW r \in DatedRow, r.stored, ~r.valid
  PROVE  /\ Discovered(r) = r
         /\ ~Struck(r).valid
         /\ ~MarkedInvalid(r).valid
         /\ ~Condemned(r).valid
         /\ ~[r EXCEPT !.fail = 0].valid
         /\ ~[r EXCEPT !.last = Older[@]].valid
         /\ ~[r EXCEPT !.valid = FALSE].valid
<1>1. r \in Row
  BY DEF DatedRow
<1> QED
  BY <1>1 DEF Row, Discovered, Struck, MarkedInvalid, Condemned

\* Only the end of a probe revives a stored link marked invalid.
THEOREM RevivalSafe == Spec => OnlyProbeRevives
<1> DEFINE Revived(l) == row[l].stored /\ ~row[l].valid /\ row'[l].stored /\ row'[l].valid
<1> DEFINE Probed(l) == \E w \in Workers : probing[w] = l /\ probing'[w] # l
<1>1. ASSUME IInv, Next, NEW l \in Links, Revived(l) PROVE Probed(l)
  <2>1. /\ row[l] \in DatedRow /\ row[l].stored /\ ~row[l].valid
        /\ row \in [Links -> DatedRow]
    BY <1>1 DEF IInv
  <2>2. /\ Discovered(row[l]) = row[l] /\ ~Struck(row[l]).valid
        /\ ~Condemned(row[l]).valid /\ ~[row[l] EXCEPT !.fail = 0].valid
        /\ ~[row[l] EXCEPT !.last = Older[@]].valid
        /\ ~[row[l] EXCEPT !.valid = FALSE].valid
    BY <2>1, StatementsDoNotRevive
  <2>3. ASSUME NEW k \in Links, NEW new, Exec(k, new), k = l => ~new.valid \/ new = row[l]
        PROVE  FALSE
    BY <1>1, <2>1, <2>3 DEF Exec
  <2>4. ASSUME NEW k \in Links, Discover(k) \/ SweepFeed(k) \/ Age(k) PROVE FALSE
    <3>1. CASE Discover(k)
      BY <2>2, <2>3, <3>1 DEF Discover
    <3>2. CASE SweepFeed(k)
      BY <1>1, <2>1, <3>2 DEF SweepFeed
    <3>3. CASE Age(k)
      BY <1>1, <2>1, <2>2, <3>3 DEF Age
    <3> QED
      BY <2>4, <3>1, <3>2, <3>3
  <2>5. ASSUME NEW w \in Workers, Report(w), probing[w] # l PROVE FALSE
    BY <1>1, <2>1, <2>5 DEF Report, Exec, IInv, TypeOK
  <2>6. ASSUME NEW w \in Workers, Report(w), probing[w] = l PROVE Probed(l)
    <3>1. NoLink # l /\ probing'[w] = NoLink
      BY <1>1, <2>6, BoundsAssumption DEF Report, IInv, TypeOK
    <3> QED
      BY <2>6, <3>1
  <2>7. ASSUME NEW q \in Requests, PlayStep(q) PROVE FALSE
    <3>1. play[q].pc # "idle" => play[q].link \in Links
      BY <1>1 DEF IInv, TypeOK
    <3>2. ASSUME play[q].pc # "idle", Strike(q) PROVE FALSE
      BY <2>2, <2>3, <3>1, <3>2 DEF Strike
    <3>3. CASE \E k \in Links : PlayAdmit(q, k)
      BY <1>1, <2>1, <3>3 DEF PlayAdmit
    <3>4. CASE PlayFollow(q)
      BY <1>1, <2>1, <3>2, <3>4 DEF PlayFollow
    <3>5. CASE PlayFail(q)
      BY <3>2, <3>5 DEF PlayFail
    <3>6. CASE ErrorVideo(q)
      BY <2>2, <2>3, <3>1, <3>6 DEF ErrorVideo
    <3>7. CASE PlayHead(q) \/ PlayProxy(q) \/ PlayEnd(q)
      BY <1>1, <2>1, <3>7 DEF PlayHead, PlayProxy, PlayEnd
    <3> QED
      BY <2>7, <3>3, <3>4, <3>5, <3>6, <3>7 DEF PlayStep
  <2>8. ASSUME NEW c \in Cleaners, CleanStep(c) PROVE FALSE
    <3>1. row'[l] \in {NoRow, row[l], [row[l] EXCEPT !.fail = 0], [row[l] EXCEPT !.valid = FALSE]}
      BY <2>8 DEF CleanStep, CleanDelete, CleanReset, CleanExpire, CleanFail
    <3>2. ~NoRow.stored
      BY DEF NoRow
    <3>3. row'[l].stored /\ row'[l].valid
      BY <1>1
    <3> QED
      BY <2>1, <2>2, <3>1, <3>2, <3>3
  <2>9. CASE Prune
    BY <1>1, <2>1, <2>9 DEF Prune, NoRow
  <2>10. CASE SweepQuery \/ Crash \/ \E w \in Workers : Take(w)
    BY <1>1, <2>1, <2>10 DEF SweepQuery, Crash, Take
  <2> QED
    BY <1>1, <2>4, <2>5, <2>6, <2>7, <2>8, <2>9, <2>10 DEF Next
<1>2. IInv /\ [Next]_vars => [\A l \in Links : Revived(l) => Probed(l)]_vars
  BY <1>1
<1> QED
  BY <1>2, Invariance, PTL DEF Spec, OnlyProbeRevives
=============================================================================
