---------------------------- MODULE RdClientProofs ----------------------------
(***************************************************************************)
(* Proofs about RdClient, for any keys, goroutines and numbers of tries.   *)
(* What is proved of the keys is taken from RdKeyPoolProofs: the calls     *)
(* take its steps.                                                         *)
(***************************************************************************)
EXTENDS RdClient, NaturalFacts, FiniteSetTheorems

Proved == INSTANCE RdKeyPoolProofs

-----------------------------------------------------------------------------
(* The keys of RdClient are those of RdKeyPoolProofs.                      *)

\* The assumption under which the theorems about the keys hold.
LEMMA KeysGiven == Proved!KeyAssumption
  BY KeysAssumption
  DEF Keys!KeyAssumption, Proved!KeyAssumption, IsFiniteSet, Cardinality, Proved!IsFiniteSet,
      Proved!Cardinality, Keys!IsFiniteSet, Keys!Cardinality

\* Both start the pool with the same keys.
LEMMA SameBoot ==
  ASSUME NEW listed, NEW file
  PROVE  Keys!BootPools(listed, file) = Proved!BootPools(listed, file)
  BY DEF Keys!BootPools, Keys!BootKeys, Keys!NewPool, Keys!Without, Keys!SetToSeq,
         Keys!IsInjective, Keys!Cardinality, Keys!IsFiniteSet,
         Proved!BootPools, Proved!BootKeys, Proved!NewPool, Proved!Without, Proved!SetToSeq,
         Proved!IsInjective, Proved!Cardinality, Proved!IsFiniteSet

\* Both have the same initial states.
LEMMA SameInit == Keys!Init = Proved!Init
  BY SameBoot DEF Keys!Init, Keys!Idle, Proved!Init, Proved!Idle

\* Both take the same steps for a call.
LEMMA SameCall ==
  ASSUME NEW c
  PROVE  Keys!Call(c) = Proved!Call(c)
<1>1. Keys!Pick(c) = Proved!Pick(c)
  BY DEF Keys!Pick, Keys!KeyAt, Keys!Steps, Keys!Min,
         Proved!Pick, Proved!KeyAt, Proved!Steps, Proved!Min
<1>2. Keys!ReportLimited(c) = Proved!ReportLimited(c)
  BY DEF Keys!ReportLimited, Keys!ToSet, Proved!ReportLimited, Proved!ToSet
<1>3. Keys!Answer(c) = Proved!Answer(c)
  BY DEF Keys!Answer, Proved!Answer
<1> QED
  BY <1>1, <1>2, <1>3 DEF Keys!Call, Proved!Call

\* Both take the same steps for a request to /api/keys.
LEMMA SameAdminister ==
  ASSUME NEW a
  PROVE  Keys!Administer(a) = Proved!Administer(a)
<1>1. ASSUME NEW s, NEW gone PROVE Keys!Without(s, gone) = Proved!Without(s, gone)
  BY DEF Keys!Without, Proved!Without
<1>2. ASSUME NEW keys PROVE Keys!SetKeys(a, keys) = Proved!SetKeys(a, keys)
  BY <1>1 DEF Keys!SetKeys, Keys!Saved, Keys!ToSet, Proved!SetKeys, Proved!Saved, Proved!ToSet
<1>3. ASSUME NEW t PROVE Keys!AddKey(a, t) = Proved!AddKey(a, t)
  BY <1>2 DEF Keys!AddKey, Keys!ToSet, Keys!Idle, Proved!AddKey, Proved!ToSet, Proved!Idle
<1>4. ASSUME NEW name PROVE Keys!DeleteKey(a, name) = Proved!DeleteKey(a, name)
  BY <1>1, <1>2 DEF Keys!DeleteKey, Keys!Idle, Proved!DeleteKey, Proved!Idle
<1>5. Keys!Find(a) = Proved!Find(a)
  BY DEF Keys!Find, Proved!Find
<1>6. Keys!Create(a) = Proved!Create(a)
  BY DEF Keys!Create, Keys!NewPool, Proved!Create, Proved!NewPool
<1>7. Keys!NoChange(a) = Proved!NoChange(a)
  BY DEF Keys!NoChange, Keys!Idle, Proved!NoChange, Proved!Idle
<1> QED
  BY <1>3, <1>4, <1>5, <1>6, <1>7 DEF Keys!Administer, Proved!Administer

\* Both take the same steps.
LEMMA SameNext == Keys!Next = Proved!Next
<1>1. ASSUME NEW i, NEW t PROVE Keys!LockoutEnds(i, t) = Proved!LockoutEnds(i, t)
  BY DEF Keys!LockoutEnds, Proved!LockoutEnds
<1>2. Keys!Restart = Proved!Restart
  BY SameBoot DEF Keys!Restart, Keys!Idle, Proved!Restart, Proved!Idle
<1> QED
  BY <1>1, <1>2, SameCall, SameAdminister DEF Keys!Next, Proved!Next

-----------------------------------------------------------------------------
(* The calls take the steps of RdKeyPool.                                  *)

\* What a call does to the keys is a pick, the report of a limit, an answer, or
\* nothing.
LEMMA CallUsesKeys ==
  ASSUME NEW c \in Callers, CallStep(c)
  PROVE  Keys!Call(c) \/ UNCHANGED keyVars
<1> USE DEF Keys!Call
<1>1. CASE Look(c)
  BY <1>1 DEF Look
<1>2. CASE PickForUnlock(c)
  BY <1>2 DEF PickForUnlock
<1>3. CASE NetworkError(c)
  BY <1>3 DEF NetworkError, Retry, GiveUp
<1>4. CASE Busy(c)
  BY <1>4 DEF Busy, Retry, GiveUp
<1>5. CASE Refused(c)
  BY <1>5 DEF Refused, GiveUp
<1>6. CASE Succeed(c)
  BY <1>6 DEF Succeed
<1> QED
  BY <1>1, <1>2, <1>3, <1>4, <1>5, <1>6 DEF CallStep

\* Every step is one of RdKeyPool or leaves the keys alone.
LEMMA StepUsesKeys ==
  ASSUME [Next]_vars
  PROVE  [Keys!Next]_(Keys!vars)
<1> USE DEF Keys!Next
<1>1. UNCHANGED keyVars => UNCHANGED Keys!vars
  BY DEF keyVars, Keys!vars
<1>2. CASE \E c \in Unlockers : Unlock(c) \/ Probe(c)
  BY <1>1, <1>2 DEF Unlock, Probe
<1>3. CASE \E c \in Submitters, r \in {"addMagnet", "instantAvailability"} : Submit(c, r)
  BY <1>3 DEF Submit, Callers, Keys!Call
<1>4. CASE \E c \in Callers : CallStep(c)
  BY <1>1, <1>4, CallUsesKeys
<1>5. CASE Lockouts \/ Administer
  BY <1>5 DEF Lockouts, Administer
<1>6. CASE Restart
  BY <1>6 DEF Restart
<1>7. CASE UNCHANGED vars
  BY <1>1, <1>7 DEF vars, keyVars
<1> QED
  BY <1>2, <1>3, <1>4, <1>5, <1>6, <1>7 DEF Next

-----------------------------------------------------------------------------
(* Who owns the torrent.                                                   *)

CallState == [pc : Requests \cup {"idle", "look", "pick"},
              tries : 0..UnlockTries, attempt : 0..MaxAttempts]

\* The inductive invariant: that of the keys, the types, that a request that
\* was sent has a key, that only submitters send the requests about torrents,
\* and that files are selected by the owner.
ClientInv ==
    /\ Proved!IInv
    /\ call \in [Callers -> CallState]
    /\ torrents \in [Submitters -> [Tokens -> 0..Ceiling]]
    /\ lost \in [Submitters -> 0..Ceiling]
    /\ \A c \in Callers : Sent(c) => holding[c] \in Tokens
    /\ \A c \in Callers :
         call[c].pc \in {"addMagnet", "selectFiles"} => c \in Submitters
    /\ FilesSelectedByOwner

\* Initially no call is under way.
LEMMA ClientStarts == Init => ClientInv
<1>1. Init => Proved!IInv
  BY KeysGiven, SameInit, Proved!InitIInv DEF Init, Proved!KeyAssumption
<1>2. Init => /\ call \in [Callers -> CallState]
              /\ torrents \in [Submitters -> [Tokens -> 0..Ceiling]]
              /\ lost \in [Submitters -> 0..Ceiling]
  BY ClientAssumption DEF Init, Idle, Ceiling, CallState
<1>3. Init => \A c \in Callers : call[c].pc = "idle"
  BY DEF Init, Idle
<1> QED
  BY <1>1, <1>2, <1>3 DEF ClientInv, Sent, Requests, FilesSelectedByOwner, Callers

\* The keys keep their invariant whatever the calls do.
LEMMA KeysKept ==
  ASSUME ClientInv, [Next]_vars
  PROVE  Proved!IInv' /\ holding' \in [Callers -> Tokens \cup {NoToken}]
<1>1. [Proved!Next]_(Proved!vars)
  BY StepUsesKeys, SameNext DEF Keys!vars, Proved!vars
<1>2. Proved!IInv'
  BY <1>1, KeysGiven, Proved!NextKeeps DEF ClientInv, Proved!KeyAssumption
<1> QED
  BY <1>2 DEF Proved!IInv, Proved!TypeOK

\* A pick gives the call a key.
LEMMA PickGives ==
  ASSUME ClientInv, NEW c \in Callers, Keys!Pick(c)
  PROVE  \E t \in Tokens : holding' = [holding EXCEPT ![c] = t]
<1>1. Proved!Pick(c)
  BY DEF Keys!Pick, Keys!KeyAt, Keys!Steps, Keys!Min,
         Proved!Pick, Proved!KeyAt, Proved!Steps, Proved!Min
<1>2. Proved!IInv
  BY DEF ClientInv
<1> QED
  BY <1>1, <1>2, KeysGiven, Proved!PickMoves DEF Proved!KeyAssumption

\* One call changes, and with it only what belongs to it.
LEMMA OneCallChanges ==
  ASSUME ClientInv, [Next]_vars, NEW c \in Callers, NEW k \in CallState, NEW h,
         call' = [call EXCEPT ![c] = k],
         holding' = [holding EXCEPT ![c] = h],
         torrents' \in [Submitters -> [Tokens -> 0..Ceiling]],
         lost' \in [Submitters -> 0..Ceiling],
         \A s \in Submitters \ {c} : torrents'[s] = torrents[s],
         k.pc \in Requests => h \in Tokens,
         k.pc \in {"addMagnet", "selectFiles"} => c \in Submitters,
         k.pc = "selectFiles" => torrents'[c][h] > 0
  PROVE  ClientInv'
<1>1. Proved!IInv' /\ holding' \in [Callers -> Tokens \cup {NoToken}]
  BY KeysKept
<1>2. call' \in [Callers -> CallState] /\ call'[c] = k /\ holding'[c] = h
  BY <1>1 DEF ClientInv, Proved!IInv, Proved!TypeOK
<1>3. \A d \in Callers \ {c} : call'[d] = call[d] /\ holding'[d] = holding[d]
  BY <1>1 DEF ClientInv, Proved!IInv, Proved!TypeOK
<1>4. \A d \in Callers : Sent(d)' => holding'[d] \in Tokens
  BY <1>2, <1>3 DEF ClientInv, Sent
<1>5. \A d \in Callers :
        call'[d].pc \in {"addMagnet", "selectFiles"} => d \in Submitters
  BY <1>2, <1>3 DEF ClientInv
<1>6. FilesSelectedByOwner'
  BY <1>2, <1>3 DEF ClientInv, FilesSelectedByOwner, Callers
<1> QED
  BY <1>1, <1>2, <1>4, <1>5, <1>6 DEF ClientInv

\* Real-Debrid taking a magnet leaves the key with a torrent.
LEMMA TakeGives ==
  ASSUME ClientInv, NEW c \in Submitters, holding[c] \in Tokens, Take(c)
  PROVE  /\ torrents' \in [Submitters -> [Tokens -> 0..Ceiling]]
         /\ \A s \in Submitters \ {c} : torrents'[s] = torrents[s]
         /\ torrents'[c][holding[c]] > 0
<1> DEFINE n == torrents[c][holding[c]]
<1>1. n \in 0..Ceiling /\ Ceiling \in Nat \ {0}
  BY ClientAssumption DEF ClientInv, Ceiling
<1>2. Min({n + 1, Ceiling}) \in 1..Ceiling
  <2> HIDE DEF n
  <2> QED
    BY <1>1 DEF Min
<1> HIDE DEF n
<1>3. torrents' = [torrents EXCEPT ![c][holding[c]] = Min({n + 1, Ceiling})]
  BY DEF Take, n
<1>4. torrents \in [Submitters -> [Tokens -> 0..Ceiling]]
  BY DEF ClientInv
<1> DEFINE after == Min({n + 1, Ceiling})
<1>5. after \in 0..Ceiling /\ after > 0 /\ torrents' = [torrents EXCEPT ![c][holding[c]] = after]
  BY <1>1, <1>2, <1>3
<1> HIDE DEF after
<1> QED
  BY <1>4, <1>5

\* A request that got no answer may have left a torrent, never fewer.
LEMMA NoAnswerAdds ==
  ASSUME ClientInv, NEW c \in Callers, Sent(c), NoAnswer(c)
  PROVE  /\ torrents' \in [Submitters -> [Tokens -> 0..Ceiling]]
         /\ lost' \in [Submitters -> 0..Ceiling]
         /\ \A s \in Submitters \ {c} : torrents'[s] = torrents[s]
         /\ call[c].pc # "addMagnet" => torrents' = torrents
<1>1. CASE UNCHANGED <<torrents, lost>>
  BY <1>1 DEF ClientInv
<1>2. CASE call[c].pc = "addMagnet" /\ Take(c)
           /\ lost' = [lost EXCEPT ![c] = Min({@ + 1, Ceiling})]
  <2>1. c \in Submitters /\ holding[c] \in Tokens
    BY <1>2 DEF ClientInv
  <2>2. \A n \in 0..Ceiling : Min({n + 1, Ceiling}) \in 0..Ceiling
    BY ClientAssumption DEF Min, Ceiling
  <2>3. lost' \in [Submitters -> 0..Ceiling]
    BY <1>2, <2>2 DEF ClientInv
  <2> QED
    BY <1>2, <2>1, <2>3, TakeGives
<1> QED
  BY <1>1, <1>2 DEF NoAnswer

-----------------------------------------------------------------------------
(* The invariant is kept, by the start of a call and by each of its steps. *)

\* The state of a call after a try that failed.
LEMMA NextTryIs ==
  ASSUME ClientInv, NEW c \in Callers
  PROVE  NextTry(call[c]) \in CallState /\ NextTry(call[c]).pc \in {"look", "idle"}
<1>1. call[c] \in CallState
  BY DEF ClientInv
<1> QED
  BY <1>1, ClientAssumption DEF NextTry, Idle, CallState

\* A call that starts, or that leaves torrents alone and sends nothing about them.
LEMMA StartKeeps ==
  ASSUME ClientInv, [Next]_vars, NEW c \in Callers,
         (c \in Unlockers /\ (Unlock(c) \/ Probe(c)))
         \/ (c \in Submitters /\ \E r \in {"addMagnet", "instantAvailability"} : Submit(c, r))
  PROVE  ClientInv'
<1> USE DEF CallState, Requests
<1>1. CASE Unlock(c) \/ Probe(c)
  <2>1. \E k \in CallState : k.pc \in {"look", "pick"} /\ call' = [call EXCEPT ![c] = k]
    <3>1. [pc |-> "look", tries |-> UnlockTries, attempt |-> 0] \in CallState
      BY ClientAssumption
    <3>2. [pc |-> "pick", tries |-> 1, attempt |-> 0] \in CallState
      BY ClientAssumption
    <3> QED
      BY <1>1, <3>1, <3>2, Zenon DEF Unlock, Probe
  <2>2. UNCHANGED <<keyVars, torrents, lost>>
    BY <1>1 DEF Unlock, Probe
  <2> QED
    <3>1. holding' = [holding EXCEPT ![c] = holding[c]]
      BY <2>2 DEF keyVars, ClientInv, Proved!IInv, Proved!TypeOK
    <3> QED
      BY <2>1, <2>2, <3>1, OneCallChanges DEF ClientInv
<1>2. CASE c \in Submitters /\ \E r \in {"addMagnet", "instantAvailability"} : Submit(c, r)
  <2>1. PICK r \in {"addMagnet", "instantAvailability"} : Submit(c, r)
    BY <1>2
  <2>2. PICK t \in Tokens : holding' = [holding EXCEPT ![c] = t]
    BY <2>1, PickGives DEF Submit
  <2>3. /\ torrents' \in [Submitters -> [Tokens -> 0..Ceiling]]
        /\ lost' \in [Submitters -> 0..Ceiling]
        /\ \A s \in Submitters \ {c} : torrents'[s] = torrents[s]
    BY <1>2, <2>1, ClientAssumption DEF Submit, ClientInv, Ceiling
  <2>4. \E k \in CallState : k.pc = r /\ call' = [call EXCEPT ![c] = k]
    <3>1. [pc |-> r, tries |-> 1, attempt |-> 0] \in CallState
      BY ClientAssumption
    <3> QED
      BY <2>1, <3>1 DEF Submit
  <2> QED
    BY <1>2, <2>2, <2>3, <2>4, OneCallChanges
<1> QED
  BY <1>1, <1>2

\* A call that goes on without the key it had, if any, or goes on waiting.
LEMMA QuietKeeps ==
  ASSUME ClientInv, [Next]_vars, NEW c \in Callers,
         NEW k \in CallState, k.pc \notin Requests,
         call' = [call EXCEPT ![c] = k],
         \E h : holding' = [holding EXCEPT ![c] = h],
         torrents' \in [Submitters -> [Tokens -> 0..Ceiling]],
         lost' \in [Submitters -> 0..Ceiling],
         \A s \in Submitters \ {c} : torrents'[s] = torrents[s]
  PROVE  ClientInv'
  BY OneCallChanges DEF Requests

\* A repeated request has the key of the first one and still its torrents.
LEMMA RetryKeeps ==
  ASSUME ClientInv, [Next]_vars, NEW c \in Callers, Sent(c), Retry(c),
         torrents' \in [Submitters -> [Tokens -> 0..Ceiling]],
         lost' \in [Submitters -> 0..Ceiling],
         \A s \in Submitters \ {c} : torrents'[s] = torrents[s],
         call[c].pc # "addMagnet" => torrents' = torrents
  PROVE  ClientInv'
<1> DEFINE k == [call[c] EXCEPT !.attempt = @ + 1]
<1>1. k \in CallState /\ k.pc = call[c].pc
  BY ClientAssumption DEF Retry, ClientInv, CallState
<1>2. call' = [call EXCEPT ![c] = k]
  BY DEF Retry
<1>3. holding' = [holding EXCEPT ![c] = holding[c]]
  BY DEF Retry, keyVars, ClientInv, Proved!IInv, Proved!TypeOK
<1>4. holding[c] \in Tokens
  BY DEF ClientInv
<1>5. k.pc \in {"addMagnet", "selectFiles"} => c \in Submitters
  BY <1>1 DEF ClientInv
<1>6. k.pc = "selectFiles" => torrents'[c][holding[c]] > 0
  BY <1>1 DEF ClientInv, FilesSelectedByOwner, Callers
<1> HIDE DEF k
<1> QED
  BY <1>1, <1>2, <1>3, <1>4, <1>5, <1>6, OneCallChanges

\* What a call does to its key when it gives up.
LEMMA GiveUpKeeps ==
  ASSUME ClientInv, [Next]_vars, NEW c \in Callers, GiveUp(c),
         torrents' \in [Submitters -> [Tokens -> 0..Ceiling]],
         lost' \in [Submitters -> 0..Ceiling],
         \A s \in Submitters \ {c} : torrents'[s] = torrents[s]
  PROVE  ClientInv'
<1>1. NextTry(call[c]) \in CallState /\ NextTry(call[c]).pc \notin Requests
  BY NextTryIs DEF Requests
<1>2. call' = [call EXCEPT ![c] = NextTry(call[c])]
  BY DEF GiveUp
<1>3. holding' = [holding EXCEPT ![c] = NoToken]
  BY DEF GiveUp, Keys!Answer
<1> QED
  BY <1>1, <1>2, <1>3, QuietKeeps

\* An answer that ends a call, or a magnet that was added.
LEMMA SucceedKeeps ==
  ASSUME ClientInv, [Next]_vars, NEW c \in Callers, Succeed(c)
  PROVE  ClientInv'
<1>1. CASE call[c].pc = "addMagnet"
  <2> DEFINE k == [call[c] EXCEPT !.pc = "selectFiles", !.attempt = 0]
  <2>1. Sent(c) /\ c \in Submitters /\ holding[c] \in Tokens /\ Take(c)
        /\ UNCHANGED <<keyVars, lost>>
    BY <1>1 DEF Succeed, ClientInv
  <2>2. k \in CallState /\ k.pc = "selectFiles"
    <3>1. call[c] \in CallState /\ 0 \in 0..MaxAttempts /\ "selectFiles" \in Requests
      BY ClientAssumption DEF ClientInv, Requests
    <3> QED
      BY <3>1 DEF CallState
  <2>3. call' = [call EXCEPT ![c] = k]
    BY <1>1 DEF Succeed, ClientInv, CallState
  <2>4. holding' = [holding EXCEPT ![c] = holding[c]]
    BY <2>1 DEF keyVars, ClientInv, Proved!IInv, Proved!TypeOK
  <2>5. lost' \in [Submitters -> 0..Ceiling]
    BY <2>1 DEF ClientInv
  <2> HIDE DEF k
  <2> QED
    BY <2>1, <2>2, <2>3, <2>4, <2>5, TakeGives, OneCallChanges
<1>2. CASE call[c].pc # "addMagnet"
  <2>1. call' = [call EXCEPT ![c] = Idle] /\ Keys!Answer(c) /\ UNCHANGED <<torrents, lost>>
    BY <1>2 DEF Succeed
  <2>2. Idle \in CallState /\ Idle.pc \notin Requests
    BY ClientAssumption DEF Idle, CallState, Requests
  <2> QED
    BY <2>1, <2>2, QuietKeeps DEF Keys!Answer, ClientInv
<1> QED
  BY <1>1, <1>2

\* Each step of a call keeps the invariant.
LEMMA CallKeeps ==
  ASSUME ClientInv, [Next]_vars, NEW c \in Callers, CallStep(c)
  PROVE  ClientInv'
<1>1. CASE Look(c)
  <2>1. \E k \in CallState : k.pc \in {"idle", "pick"} /\ call' = [call EXCEPT ![c] = k]
    <3>1. Idle \in CallState /\ Idle.pc = "idle"
      BY ClientAssumption DEF Idle, CallState
    <3>2. [call[c] EXCEPT !.pc = "pick"] \in CallState
      BY DEF ClientInv, CallState
    <3>3. [call[c] EXCEPT !.pc = "pick"].pc = "pick"
      BY DEF ClientInv, CallState
    <3> QED
      BY <1>1, <3>1, <3>2, <3>3 DEF Look
  <2>2. holding' = [holding EXCEPT ![c] = holding[c]]
    BY <1>1 DEF Look, keyVars, ClientInv, Proved!IInv, Proved!TypeOK
  <2> QED
    BY <1>1, <2>1, <2>2, QuietKeeps DEF Look, ClientInv, Requests
<1>2. CASE PickForUnlock(c)
  <2>1. UNCHANGED <<torrents, lost>>
    BY <1>2 DEF PickForUnlock
  <2>2. CASE Keys!Pick(c) /\ call' = [call EXCEPT ![c].pc = "unrestrict"]
    <3> DEFINE k == [call[c] EXCEPT !.pc = "unrestrict"]
    <3>1. k \in CallState /\ k.pc = "unrestrict"
      BY DEF ClientInv, CallState, Requests
    <3>2. PICK t \in Tokens : holding' = [holding EXCEPT ![c] = t]
      BY <2>2, PickGives
    <3>3. call' = [call EXCEPT ![c] = k]
      BY <2>2
    <3> HIDE DEF k
    <3> QED
      BY <2>1, <3>1, <3>2, <3>3, OneCallChanges DEF ClientInv
  <2>3. CASE call' = [call EXCEPT ![c] = NextTry(@)] /\ UNCHANGED keyVars
    <3>1. holding' = [holding EXCEPT ![c] = holding[c]]
      BY <2>3 DEF keyVars, ClientInv, Proved!IInv, Proved!TypeOK
    <3>2. NextTry(call[c]) \in CallState /\ NextTry(call[c]).pc \notin Requests
      BY NextTryIs DEF Requests
    <3> QED
      BY <2>1, <2>3, <3>1, <3>2, QuietKeeps DEF ClientInv
  <2> QED
    BY <1>2, <2>2, <2>3 DEF PickForUnlock
<1>3. CASE NetworkError(c)
  BY <1>3, NoAnswerAdds, RetryKeeps, GiveUpKeeps DEF NetworkError
<1>4. CASE Busy(c)
  <2>1. UNCHANGED <<torrents, lost>> /\ Sent(c)
    BY <1>4 DEF Busy
  <2>2. CASE Keys!ReportLimited(c) /\ call' = [call EXCEPT ![c] = NextTry(@)]
    <3>1. holding' = [holding EXCEPT ![c] = NoToken]
      BY <2>2 DEF Keys!ReportLimited
    <3>2. NextTry(call[c]) \in CallState /\ NextTry(call[c]).pc \notin Requests
      BY NextTryIs DEF Requests
    <3> QED
      BY <2>1, <2>2, <3>1, <3>2, QuietKeeps DEF ClientInv
  <2> QED
    BY <1>4, <2>1, <2>2, RetryKeeps, GiveUpKeeps DEF Busy, ClientInv
<1>5. CASE Refused(c)
  BY <1>5, NoAnswerAdds, GiveUpKeeps DEF Refused
<1>6. CASE Succeed(c)
  BY <1>6, SucceedKeeps
<1> QED
  BY <1>1, <1>2, <1>3, <1>4, <1>5, <1>6 DEF CallStep

\* Every step keeps the invariant.
LEMMA ClientKeeps == ClientInv /\ [Next]_vars => ClientInv'
<1> SUFFICES ASSUME ClientInv, [Next]_vars PROVE ClientInv'
  OBVIOUS
<1>1. Proved!IInv'
  BY KeysKept
<1>2. CASE \E c \in Unlockers : Unlock(c) \/ Probe(c)
  BY <1>2, StartKeeps DEF Callers
<1>3. CASE \E c \in Submitters, r \in {"addMagnet", "instantAvailability"} : Submit(c, r)
  BY <1>3, StartKeeps DEF Callers
<1>4. CASE \E c \in Callers : CallStep(c)
  BY <1>4, CallKeeps
<1>5. CASE (Lockouts \/ Administer) /\ UNCHANGED <<call, torrents, lost>>
  <2>1. UNCHANGED holding
    BY <1>5 DEF Lockouts, Administer, Keys!LockoutEnds, Keys!Administer, Keys!Find,
                Keys!Create, Keys!AddKey, Keys!DeleteKey, Keys!NoChange
  <2> QED
    BY <1>1, <1>5, <2>1 DEF ClientInv, Sent, FilesSelectedByOwner
<1>6. CASE Restart
  <2>1. Idle \in CallState /\ Idle.pc = "idle"
    BY ClientAssumption DEF Idle, CallState
  <2>2. call' \in [Callers -> CallState] /\ \A c \in Callers : call'[c].pc = "idle"
    BY <1>6, <2>1 DEF Restart
  <2>3. UNCHANGED <<torrents, lost>>
    BY <1>6 DEF Restart
  <2> QED
    BY <1>1, <2>2, <2>3 DEF ClientInv, Sent, Requests, FilesSelectedByOwner, Callers
<1>7. CASE UNCHANGED vars
  BY <1>1, <1>7 DEF vars, ClientInv, Sent, FilesSelectedByOwner
<1> QED
  BY <1>2, <1>3, <1>4, <1>5, <1>6, <1>7 DEF Next

\* Keys, calls and torrents keep their types.
THEOREM TypeCorrect == Spec => []TypeOK
<1>1. ClientInv => TypeOK
  BY DEF ClientInv, CallState, TypeOK, Proved!IInv, Proved!TypeOK, Proved!Pool,
         Proved!IsInjective, Proved!ToSet, Keys!TypeOK, Keys!Pool, Keys!IsInjective,
         Keys!ToSet
<1> QED
  BY <1>1, ClientStarts, ClientKeeps, PTL DEF Spec

\* Files are selected with a key that owns the torrent, for any keys, however
\* they are locked out, added and deleted meanwhile, and however often each
\* request is repeated (debrid.go:612-622).
THEOREM OwnerSelects == Spec => []FilesSelectedByOwner
<1>1. ClientInv => FilesSelectedByOwner
  BY DEF ClientInv
<1> QED
  BY <1>1, ClientStarts, ClientKeeps, PTL DEF Spec

-----------------------------------------------------------------------------
(* How many torrents a magnet leaves.                                      *)

\* The sum of a function that is zero everywhere but at t is its value there.
LEMMA SumAtOne ==
  ASSUME NEW T, IsFiniteSet(T), NEW f \in [T -> Nat], NEW t,
         \A u \in T \ {t} : f[u] = 0
  PROVE  SumFunction(f) = IF t \in T THEN f[t] ELSE 0
<1> DEFINE Some(s) == CHOOSE x \in s : TRUE
           Folded(g, s) == IF s = {} THEN 0 ELSE f[Some(s)] + g[s \ {Some(s)}]
           IsFold(g) == g = [s \in SUBSET T |-> Folded(g, s)]
           Value(s) == IF t \in s THEN f[t] ELSE 0
<1>1. SumFunction(f) = (CHOOSE g : IsFold(g))[T]
  BY DEF SumFunction, SumFunctionOnSet, FoldFunctionOnSet, MapThenFoldSet
<1>2. \A s : s # {} => Some(s) \in s
  OBVIOUS
<1> HIDE DEF Some
<1>3. \A s \in SUBSET T : s # {} => Value(s) = f[Some(s)] + Value(s \ {Some(s)})
  <2> SUFFICES ASSUME NEW s \in SUBSET T, s # {}
               PROVE  Value(s) = f[Some(s)] + Value(s \ {Some(s)})
    OBVIOUS
  <2>1. Some(s) \in T /\ Some(s) \in s
    BY <1>2
  <2>2. CASE Some(s) = t
    BY <2>1, <2>2
  <2>3. CASE Some(s) # t
    BY <2>1, <2>3
  <2> QED
    BY <2>2, <2>3
<1>4. Value({}) = 0
  OBVIOUS
<1>5. \E g : IsFold(g)
  <2> DEFINE h == [s \in SUBSET T |-> Value(s)]
  <2> HIDE DEF Value
  <2>1. ASSUME NEW s \in SUBSET T PROVE h[s] = Folded(h, s)
    <3>1. s \ {Some(s)} \in SUBSET T
      OBVIOUS
    <3> QED
      BY <1>3, <1>4, <3>1
  <2>2. h = [s \in SUBSET T |-> h[s]]
    OBVIOUS
  <2> HIDE DEF h
  <2>3. IsFold(h)
    BY <2>1, <2>2
  <2> QED
    BY <2>3
<1>6. ASSUME NEW g, IsFold(g) PROVE g[T] = Value(T)
  <2>1. \A s \in SUBSET T : g[s] = Folded(g, s)
    BY <1>6
  <2> DEFINE Wrong == {n \in Nat : \E s \in SUBSET T : Cardinality(s) = n /\ g[s] # Value(s)}
  <2> HIDE DEF Value
  <2>2. Wrong = {}
    <3> SUFFICES ASSUME Wrong # {} PROVE FALSE
      OBVIOUS
    <3>1. PICK n \in Wrong : \A k \in Wrong : n <= k
      BY SmallestOf
    <3>2. PICK s \in SUBSET T : Cardinality(s) = n /\ g[s] # Value(s)
      BY <3>1
    <3>3. IsFiniteSet(s) /\ s # {} /\ Some(s) \in s
      BY <1>2, <1>4, <2>1, <3>2, FS_Subset
    <3>4. s \ {Some(s)} \in SUBSET T /\ Cardinality(s \ {Some(s)}) = n - 1
      BY <3>2, <3>3, FS_RemoveElement
    <3>5. n \in Nat /\ n - 1 \in Nat
      BY <3>1, <3>2, <3>3, <3>4, FS_CardinalityType, FS_RemoveElement
    <3>6. n - 1 \notin Wrong
      BY <3>1, <3>5
    <3>7. g[s \ {Some(s)}] = Value(s \ {Some(s)})
      BY <3>4, <3>5, <3>6
    <3> QED
      BY <1>3, <2>1, <3>2, <3>3, <3>7
  <2>3. Cardinality(T) \in Nat
    BY FS_CardinalityType
  <2> QED
    BY <2>2, <2>3
<1>7. IsFold(CHOOSE g : IsFold(g))
  <2> HIDE DEF IsFold
  <2> QED
    BY <1>5
<1> DEFINE sum == CHOOSE g : IsFold(g)
<1>8. SumFunction(f) = sum[T] /\ IsFold(sum)
  BY <1>1, <1>7
<1> HIDE DEF sum, IsFold
<1> QED
  BY <1>6, <1>8

\* All torrents for a magnet belong to one key, and each of them but one is an
\* answer that was lost; no more are lost than requests were sent.
CopiesOf(c) ==
    /\ \A t, u \in Tokens : torrents[c][t] > 0 /\ torrents[c][u] > 0 => t = u
    /\ call[c].pc = "addMagnet" =>
         /\ lost[c] <= call[c].attempt
         /\ \A t \in Tokens : /\ torrents[c][t] <= lost[c]
                              /\ torrents[c][t] > 0 => t = holding[c]
    /\ call[c].pc # "addMagnet" =>
         /\ lost[c] <= MaxAttempts + 1
         /\ \A t \in Tokens : torrents[c][t] <= lost[c] + 1

CopiesInv == \A c \in Submitters : CopiesOf(c)

\* The invariant bounds the sum of the torrents.
LEMMA CopiesBounded ==
  ASSUME ClientInv, CopiesInv
  PROVE  DuplicatesNeedLostAnswers
<1> SUFFICES ASSUME NEW c \in Submitters
             PROVE  /\ Copies(c) <= lost[c] + (IF call[c].pc = "addMagnet" THEN 0 ELSE 1)
                    /\ lost[c] <= MaxAttempts + 1
  BY DEF DuplicatesNeedLostAnswers
<1> DEFINE f == torrents[c]
           most == lost[c] + (IF call[c].pc = "addMagnet" THEN 0 ELSE 1)
<1>1. /\ f \in [Tokens -> Nat] /\ lost[c] \in Nat /\ MaxAttempts \in Nat
      /\ call[c].attempt \in 0..MaxAttempts
  BY ClientAssumption DEF ClientInv, CallState, Callers
<1>2. lost[c] <= MaxAttempts + 1 /\ \A t \in Tokens : f[t] <= most
  BY <1>1 DEF CopiesInv, CopiesOf
<1>3. \A t, u \in Tokens : f[t] > 0 /\ f[u] > 0 => t = u
  BY DEF CopiesInv, CopiesOf
<1>4. IsFiniteSet(Tokens)
  BY KeysAssumption DEF Keys!KeyAssumption, IsFiniteSet, Keys!IsFiniteSet
<1>5. most \in Nat
  BY <1>1
<1> HIDE DEF f, most
<1>6. DOMAIN f = Tokens
  BY <1>1
<1>7. SumFunction(f) <= most
  <2>1. CASE \E t \in Tokens : f[t] > 0
    <3>1. PICK t \in Tokens : f[t] > 0
      BY <2>1
    <3>2. \A u \in Tokens \ {t} : f[u] = 0
      BY <1>1, <1>3, <3>1
    <3>3. SumFunction(f) = f[t]
      BY <1>1, <1>4, <3>2, SumAtOne
    <3> QED
      BY <1>2, <3>3
  <2>2. CASE ~ \E t \in Tokens : f[t] > 0
    <3>1. \A u \in Tokens \ {Tokens} : f[u] = 0
      BY <1>1, <2>2
    <3>2. SumFunction(f) = IF Tokens \in Tokens THEN f[Tokens] ELSE 0
      BY <1>1, <1>4, <3>1, SumAtOne
    <3> QED
      BY <1>2, <1>5, <3>2
  <2> QED
    BY <2>1, <2>2
<1> QED
  BY <1>2, <1>7 DEF f, most, Copies

\* Real-Debrid takes the magnet once more: the key it was sent with has one
\* torrent more.
LEMMA TakeAddsOne ==
  ASSUME ClientInv, CopiesInv, NEW c \in Submitters, Sent(c),
         call[c].pc = "addMagnet", Take(c)
  PROVE  /\ \A s \in Submitters \ {c} : torrents'[s] = torrents[s]
         /\ \A t \in Tokens : /\ torrents'[c][t] <= lost[c] + 1
                              /\ torrents'[c][t] \in Nat
                              /\ torrents'[c][t] > 0 => t = holding[c]
<1> DEFINE h == holding[c]
           n == torrents[c][h]
<1>1. c \in Callers /\ h \in Tokens /\ torrents \in [Submitters -> [Tokens -> 0..Ceiling]]
  BY DEF ClientInv, Callers
<1>2. n \in 0..Ceiling /\ Ceiling \in Nat /\ lost[c] \in Nat
  BY <1>1, ClientAssumption DEF ClientInv, Ceiling
<1> DEFINE after == Min({n + 1, Ceiling})
<1>3. after \in Nat /\ after <= n + 1
  <2> HIDE DEF n
  <2> QED
    BY <1>2 DEF Min
<1>4. torrents' = [torrents EXCEPT ![c][h] = after]
  BY DEF Take
<1>5. n <= lost[c] /\ \A t \in Tokens \ {h} : torrents[c][t] = 0
  BY <1>1 DEF CopiesInv, CopiesOf
<1> HIDE DEF h, n, after
<1>6. torrents'[c][h] = after /\ \A t \in Tokens \ {h} : torrents'[c][t] = 0
  BY <1>1, <1>4, <1>5
<1>7. \A s \in Submitters \ {c} : torrents'[s] = torrents[s]
  BY <1>1, <1>4
<1> QED
  BY <1>2, <1>3, <1>5, <1>6, <1>7 DEF h

\* What happens to other calls leaves the torrents of a submitter as they were.
LEMMA UntouchedCopies ==
  ASSUME NEW c \in Submitters, CopiesOf(c),
         call'[c] = call[c], holding'[c] = holding[c],
         torrents'[c] = torrents[c], lost'[c] = lost[c]
  PROVE  CopiesOf(c)'
  BY DEF CopiesOf

\* A call that sends something else, or nothing more, may have one torrent more
\* than lost answers.
LEMMA CopiesAfterwards ==
  ASSUME ClientInv, NEW c \in Submitters, CopiesOf(c), call'[c].pc # "addMagnet",
         torrents'[c] = torrents[c], lost'[c] = lost[c]
  PROVE  CopiesOf(c)'
<1>1. /\ call[c].attempt \in 0..MaxAttempts /\ MaxAttempts \in Nat /\ lost[c] \in Nat
      /\ \A t \in Tokens : torrents[c][t] \in Nat
  BY ClientAssumption DEF ClientInv, CallState, Callers
<1> QED
  BY <1>1 DEF CopiesOf

\* A call changes nothing that belongs to another.
LEMMA CallIsOwn ==
  ASSUME ClientInv, NEW c \in Callers, CallStep(c), NEW s \in Submitters \ {c}
  PROVE  /\ call'[s] = call[s] /\ holding'[s] = holding[s]
         /\ torrents'[s] = torrents[s] /\ lost'[s] = lost[s]
<1>0. /\ call \in [Callers -> CallState] /\ s \in Callers
      /\ torrents \in [Submitters -> [Tokens -> 0..Ceiling]]
      /\ lost \in [Submitters -> 0..Ceiling]
      /\ holding \in [Callers -> Tokens \cup {NoToken}]
  BY DEF ClientInv, Callers, Proved!IInv, Proved!TypeOK
<1>1. holding'[s] = holding[s]
  <2>1. CASE UNCHANGED keyVars
    BY <2>1 DEF keyVars
  <2>2. CASE Keys!Call(c)
    BY <1>0, <2>2 DEF Keys!Call, Keys!Pick, Keys!ReportLimited, Keys!Answer
  <2> QED
    BY <2>1, <2>2, CallUsesKeys
<1>2. call'[s] = call[s]
  BY <1>0 DEF CallStep, Look, PickForUnlock, NetworkError, Busy, Refused, Succeed, Retry,
              GiveUp
<1>3. torrents'[s] = torrents[s] /\ lost'[s] = lost[s]
  BY <1>0 DEF CallStep, Look, PickForUnlock, NetworkError, Busy, Refused, Succeed, NoAnswer,
              Take
<1> QED
  BY <1>1, <1>2, <1>3

\* A request without an answer may have added a torrent, and then the answer
\* was lost.
LEMMA NoAnswerCounts ==
  ASSUME ClientInv, CopiesInv, NEW c \in Submitters, Sent(c),
         call[c].pc = "addMagnet", NoAnswer(c)
  PROVE  /\ lost'[c] \in Nat /\ lost'[c] <= call[c].attempt + 1
         /\ \A t \in Tokens : /\ torrents'[c][t] <= lost'[c]
                              /\ torrents'[c][t] \in Nat
                              /\ torrents'[c][t] > 0 => t = holding[c]
<1>1. /\ call[c].attempt \in 0..MaxAttempts /\ MaxAttempts \in Nat
      /\ lost \in [Submitters -> 0..Ceiling] /\ lost[c] \in 0..Ceiling
      /\ lost[c] <= call[c].attempt /\ Ceiling = MaxAttempts + 2
      /\ \A t \in Tokens : torrents[c][t] \in Nat
  BY ClientAssumption DEF ClientInv, CallState, Callers, Ceiling, CopiesInv, CopiesOf
<1>2. CASE UNCHANGED <<torrents, lost>>
  BY <1>1, <1>2 DEF CopiesInv, CopiesOf
<1>3. CASE Take(c) /\ lost' = [lost EXCEPT ![c] = Min({@ + 1, Ceiling})]
  <2> DEFINE n == lost[c]
  <2>1. n \in Nat /\ n + 1 < Ceiling /\ Ceiling \in Nat
    BY <1>1
  <2>2. lost'[c] = Min({n + 1, Ceiling})
    BY <1>1, <1>3
  <2> HIDE DEF n
  <2>3. lost'[c] = n + 1
    BY <2>1, <2>2 DEF Min
  <2>4. \A t \in Tokens : /\ torrents'[c][t] <= n + 1
                          /\ torrents'[c][t] \in Nat
                          /\ torrents'[c][t] > 0 => t = holding[c]
    BY <1>3, TakeAddsOne DEF n
  <2>5. n <= call[c].attempt
    BY <1>1 DEF n
  <2> QED
    BY <1>1, <2>1, <2>3, <2>4, <2>5
<1> QED
  BY <1>2, <1>3 DEF NoAnswer

\* Each step of a submitter keeps the account of its torrents.
LEMMA CallKeepsCopies ==
  ASSUME ClientInv, CopiesInv, NEW c \in Submitters, CallStep(c)
  PROVE  CopiesOf(c)'
<1>0. /\ c \in Callers /\ CopiesOf(c) /\ call[c] \in CallState
      /\ call \in [Callers -> CallState] /\ MaxAttempts \in Nat
      /\ call[c].attempt \in 0..MaxAttempts
  BY ClientAssumption DEF CopiesInv, ClientInv, CallState, Callers
<1>n. NextTry(call[c]).pc # "addMagnet" /\ Idle.pc # "addMagnet"
  BY <1>0, NextTryIs DEF Idle
<1>g. ASSUME GiveUp(c) \/ call' = [call EXCEPT ![c] = NextTry(@)]
      PROVE  call'[c].pc # "addMagnet"
  BY <1>0, <1>n, <1>g DEF GiveUp
<1>r. ASSUME Retry(c)
      PROVE  /\ call'[c].pc = call[c].pc /\ call'[c].attempt = call[c].attempt + 1
             /\ UNCHANGED keyVars
  BY <1>0, <1>r DEF Retry, CallState
<1>q. ASSUME call[c].pc # "addMagnet", call'[c].pc # "addMagnet", UNCHANGED <<torrents, lost>>
      PROVE  CopiesOf(c)'
  BY <1>0, <1>q, CopiesAfterwards
<1>a. ASSUME call[c].pc = "addMagnet", Sent(c), NoAnswer(c), Retry(c) \/ GiveUp(c)
      PROVE  CopiesOf(c)'
  <2>1. /\ lost'[c] \in Nat /\ lost'[c] <= call[c].attempt + 1
        /\ \A t \in Tokens : /\ torrents'[c][t] <= lost'[c]
                             /\ torrents'[c][t] \in Nat
                             /\ torrents'[c][t] > 0 => t = holding[c]
    BY <1>a, NoAnswerCounts
  <2>2. CASE Retry(c)
    <3>1. call'[c].pc = "addMagnet" /\ call'[c].attempt = call[c].attempt + 1
          /\ holding' = holding
      BY <1>a, <1>r, <2>2 DEF keyVars
    <3> QED
      BY <2>1, <3>1 DEF CopiesOf
  <2>3. CASE GiveUp(c)
    <3>1. call'[c].pc # "addMagnet"
      BY <1>g, <2>3
    <3> QED
      BY <1>0, <2>1, <3>1 DEF CopiesOf
  <2> QED
    BY <1>a, <2>2, <2>3
<1>b. ASSUME call[c].pc # "addMagnet", Sent(c), NoAnswer(c), Retry(c) \/ GiveUp(c)
      PROVE  CopiesOf(c)'
  <2>1. UNCHANGED <<torrents, lost>>
    BY <1>b DEF NoAnswer
  <2>2. call'[c].pc # "addMagnet"
    BY <1>b, <1>g, <1>r
  <2> QED
    BY <1>b, <1>q, <2>1, <2>2
<1>1. CASE Look(c)
  <2>1. call[c].pc # "addMagnet" /\ call'[c].pc # "addMagnet"
    BY <1>0, <1>1, <1>n DEF Look, CallState
  <2> QED
    BY <1>1, <1>q, <2>1 DEF Look
<1>2. CASE PickForUnlock(c)
  <2>1. call[c].pc # "addMagnet" /\ call'[c].pc # "addMagnet"
    BY <1>0, <1>2, <1>n DEF PickForUnlock, CallState
  <2> QED
    BY <1>2, <1>q, <2>1 DEF PickForUnlock
<1>3. CASE NetworkError(c)
  BY <1>3, <1>a, <1>b DEF NetworkError
<1>4. CASE Busy(c)
  <2>1. UNCHANGED <<torrents, lost>> /\ NoAnswer(c) /\ Sent(c)
    BY <1>4 DEF Busy, NoAnswer
  <2>2. CASE Retry(c) \/ GiveUp(c)
    BY <1>a, <1>b, <2>1, <2>2
  <2>3. CASE call' = [call EXCEPT ![c] = NextTry(@)]
    BY <1>g, <2>1, <2>3, <1>0, CopiesAfterwards
  <2> QED
    BY <1>4, <2>2, <2>3 DEF Busy
<1>5. CASE Refused(c)
  BY <1>5, <1>a, <1>b DEF Refused
<1>6. CASE Succeed(c)
  <2>1. CASE call[c].pc = "addMagnet"
    <3>1. /\ Sent(c) /\ Take(c) /\ lost' = lost /\ call'[c].pc = "selectFiles"
      BY <1>0, <1>6, <2>1 DEF Succeed, CallState
    <3>2. \A t \in Tokens : /\ torrents'[c][t] <= lost[c] + 1
                            /\ torrents'[c][t] > 0 => t = holding[c]
      BY <2>1, <3>1, TakeAddsOne
    <3>3. lost[c] <= call[c].attempt /\ lost[c] \in Nat
      BY <1>0, <2>1, ClientAssumption DEF CopiesOf, ClientInv
    <3> QED
      BY <1>0, <3>1, <3>2, <3>3 DEF CopiesOf
  <2>2. CASE call[c].pc # "addMagnet"
    <3>1. call'[c].pc # "addMagnet" /\ UNCHANGED <<torrents, lost>>
      BY <1>0, <1>6, <1>n, <2>2 DEF Succeed
    <3> QED
      BY <1>q, <2>2, <3>1
  <2> QED
    BY <2>1, <2>2
<1> QED
  BY <1>1, <1>2, <1>3, <1>4, <1>5, <1>6 DEF CallStep

\* Every step keeps the account of all submitters.
LEMMA CopiesKept == ClientInv /\ CopiesInv /\ [Next]_vars => CopiesInv'
<1> SUFFICES ASSUME ClientInv, CopiesInv, [Next]_vars, NEW c \in Submitters
             PROVE  CopiesOf(c)'
  BY DEF CopiesInv
<1>0. /\ c \in Callers /\ CopiesOf(c) /\ call \in [Callers -> CallState]
      /\ torrents \in [Submitters -> [Tokens -> 0..Ceiling]]
      /\ lost \in [Submitters -> 0..Ceiling]
      /\ holding \in [Callers -> Tokens \cup {NoToken}]
  BY DEF CopiesInv, ClientInv, Callers, Proved!IInv, Proved!TypeOK
<1>1. ASSUME NEW u \in Unlockers, Unlock(u) \/ Probe(u) PROVE CopiesOf(c)'
  <2>1. u # c
    BY ClientAssumption
  <2>2. call'[c] = call[c] /\ UNCHANGED <<keyVars, torrents, lost>>
    BY <1>0, <1>1, <2>1 DEF Unlock, Probe
  <2> QED
    BY <1>0, <2>2, UntouchedCopies DEF keyVars
<1>2. ASSUME NEW s \in Submitters, NEW r \in {"addMagnet", "instantAvailability"}, Submit(s, r)
      PROVE  CopiesOf(c)'
  <2>1. CASE s = c
    <3>1. /\ call'[c].pc = r /\ call'[c].attempt = 0 /\ lost'[c] = 0
          /\ torrents'[c] = [t \in Tokens |-> 0]
      BY <1>0, <1>2, <2>1 DEF Submit
    <3> QED
      BY <3>1, ClientAssumption DEF CopiesOf
  <2>2. CASE s # c
    <3>1. /\ call'[c] = call[c] /\ lost'[c] = lost[c] /\ torrents'[c] = torrents[c]
          /\ holding'[c] = holding[c]
      BY <1>0, <1>2, <2>2 DEF Submit, Keys!Pick
    <3> QED
      BY <1>0, <3>1, UntouchedCopies
  <2> QED
    BY <2>1, <2>2
<1>3. ASSUME NEW d \in Callers, CallStep(d) PROVE CopiesOf(c)'
  <2>1. CASE d = c
    BY <1>3, <2>1, CallKeepsCopies
  <2>2. CASE d # c
    BY <1>0, <1>3, <2>2, CallIsOwn, UntouchedCopies
  <2> QED
    BY <2>1, <2>2
<1>4. CASE (Lockouts \/ Administer) /\ UNCHANGED <<call, torrents, lost>>
  <2>1. UNCHANGED holding
    BY <1>4 DEF Lockouts, Administer, Keys!LockoutEnds, Keys!Administer, Keys!Find,
                Keys!Create, Keys!AddKey, Keys!DeleteKey, Keys!NoChange
  <2> QED
    BY <1>0, <1>4, <2>1, UntouchedCopies
<1>5. CASE Restart
  BY <1>0, <1>5, CopiesAfterwards DEF Restart, Idle
<1>6. CASE UNCHANGED vars
  BY <1>0, <1>6, UntouchedCopies DEF vars
<1> QED
  BY <1>1, <1>2, <1>3, <1>4, <1>5, <1>6 DEF Next

\* At first there are no torrents.
LEMMA CopiesStart == Init => CopiesInv
  BY ClientAssumption DEF Init, CopiesInv, CopiesOf, Idle, Callers

\* Real-Debrid holds at most one torrent more for a magnet than answers were
\* lost, and no more are lost than rdDo has attempts, for any keys, submitters
\* and numbers of attempts, however the keys change meanwhile
\* (debrid.go:34-133, 555-622).
THEOREM FewDuplicates == Spec => []DuplicatesNeedLostAnswers
<1>1. Init => ClientInv /\ CopiesInv
  BY ClientStarts, CopiesStart
<1>2. (ClientInv /\ CopiesInv) /\ [Next]_vars => (ClientInv /\ CopiesInv)'
  BY ClientKeeps, CopiesKept
<1>3. ClientInv /\ CopiesInv => DuplicatesNeedLostAnswers
  BY CopiesBounded
<1> QED
  BY <1>1, <1>2, <1>3, PTL DEF Spec
-----------------------------------------------------------------------------
(* How many steps a call has left.                                         *)

\* A call that is under way has a try left: the one it is in.
Trying(k) == k.pc # "idle" => k.tries >= 1

TryInv == \A c \in Callers : Trying(call[c])

\* The steps of the tries that come after this one, and of this one.
LEMMA LeftInTries ==
  ASSUME NEW k \in CallState, k.pc # "idle", k.tries >= 1
  PROVE  \E later \in Nat :
           /\ later = (k.tries - 1) * TrySteps
           /\ LeftOf(k) = CASE k.pc = "look" -> later + MaxAttempts + 3
                            [] k.pc = "pick" -> later + MaxAttempts + 2
                            [] k.pc = "addMagnet" ->
                                 later + (MaxAttempts + 1 - k.attempt) + MaxAttempts + 1
                            [] OTHER -> later + (MaxAttempts + 1 - k.attempt)
<1> DEFINE later == (k.tries - 1) * TrySteps
<1>1. k.tries - 1 \in Nat /\ TrySteps = MaxAttempts + 3 /\ MaxAttempts \in Nat
  BY ClientAssumption DEF CallState, TrySteps
<1>2. later \in Nat
  BY <1>1, OneMoreUnit
<1>3. k.attempt \in 0..MaxAttempts
  BY DEF CallState
<1> HIDE DEF later
<1>4. LeftOf(k) = CASE k.pc = "idle" -> 0
                    [] k.pc = "look" -> later + TrySteps
                    [] k.pc = "pick" -> later + TrySteps - 1
                    [] k.pc = "addMagnet" ->
                         later + (MaxAttempts + 1 - k.attempt) + MaxAttempts + 1
                    [] OTHER -> later + (MaxAttempts + 1 - k.attempt)
  BY DEF LeftOf, later
<1> QED
  <2>1. LeftOf(k) = CASE k.pc = "look" -> later + MaxAttempts + 3
                      [] k.pc = "pick" -> later + MaxAttempts + 2
                      [] k.pc = "addMagnet" ->
                           later + (MaxAttempts + 1 - k.attempt) + MaxAttempts + 1
                      [] OTHER -> later + (MaxAttempts + 1 - k.attempt)
    BY <1>1, <1>2, <1>3, <1>4
  <2> QED
    BY <1>2, <2>1 DEF later

\* While a call looks, picks or waits for an answer, more is left than the tries
\* to come.
LEMMA LeftInThisTry ==
  ASSUME NEW k \in CallState, k.pc # "idle", k.tries >= 1
  PROVE  LeftOf(k) \in Nat \ {0} /\ LeftOf(NextTry(k)) \in 0..(LeftOf(k) - 1)
<1>1. PICK later \in Nat :
           /\ later = (k.tries - 1) * TrySteps
           /\ LeftOf(k) = CASE k.pc = "look" -> later + MaxAttempts + 3
                            [] k.pc = "pick" -> later + MaxAttempts + 2
                            [] k.pc = "addMagnet" ->
                                 later + (MaxAttempts + 1 - k.attempt) + MaxAttempts + 1
                            [] OTHER -> later + (MaxAttempts + 1 - k.attempt)
  BY LeftInTries
<1>2. MaxAttempts \in Nat /\ k.attempt \in 0..MaxAttempts /\ k.tries \in Nat
  BY ClientAssumption DEF CallState
<1>3. LeftOf(k) \in Nat /\ LeftOf(k) >= later + 1
  BY <1>1, <1>2
<1>4. LeftOf(NextTry(k)) \in 0..later
  <2>1. CASE k.tries > 1
    <3> DEFINE n == k.tries - 2
    <3>1. n \in Nat /\ k.tries - 1 = n + 1 /\ TrySteps \in Nat
      BY <1>2, <2>1 DEF TrySteps
    <3>2. LeftOf(NextTry(k)) = n * TrySteps + TrySteps
      BY <1>2, <2>1 DEF LeftOf, NextTry
    <3>3. TrySteps * (n + 1) = TrySteps * n + TrySteps
      BY <3>1, OneMoreUnit
    <3>4. later = (n + 1) * TrySteps
      BY <1>1, <3>1
    <3> HIDE DEF n
    <3>5. later = n * TrySteps + TrySteps
      BY <3>1, <3>3, <3>4
    <3> QED
      BY <1>1, <3>2, <3>5
  <2>2. CASE ~(k.tries > 1)
    BY <2>2 DEF LeftOf, NextTry, Idle
  <2> QED
    BY <2>1, <2>2
<1> QED
  BY <1>3, <1>4

\* Within a try, each step leads to one with fewer steps left.
LEMMA LeftWithinTry ==
  ASSUME NEW k \in CallState, k.tries >= 1, NEW j \in CallState, j.tries = k.tries,
         \/ k.pc = "look" /\ j.pc = "pick"
         \/ k.pc = "pick" /\ j.pc = "unrestrict"
         \/ k.pc \in Requests /\ j.pc = k.pc /\ j.attempt = k.attempt + 1
         \/ k.pc = "addMagnet" /\ j.pc = "selectFiles"
  PROVE  LeftOf(j) \in 0..(LeftOf(k) - 1)
<1>1. k.pc # "idle" /\ j.pc # "idle"
  BY DEF Requests
<1>2. PICK later \in Nat :
           /\ later = (k.tries - 1) * TrySteps
           /\ LeftOf(k) = CASE k.pc = "look" -> later + MaxAttempts + 3
                            [] k.pc = "pick" -> later + MaxAttempts + 2
                            [] k.pc = "addMagnet" ->
                                 later + (MaxAttempts + 1 - k.attempt) + MaxAttempts + 1
                            [] OTHER -> later + (MaxAttempts + 1 - k.attempt)
  BY <1>1, LeftInTries
<1>3. LeftOf(j) = CASE j.pc = "look" -> later + MaxAttempts + 3
                    [] j.pc = "pick" -> later + MaxAttempts + 2
                    [] j.pc = "addMagnet" ->
                         later + (MaxAttempts + 1 - j.attempt) + MaxAttempts + 1
                    [] OTHER -> later + (MaxAttempts + 1 - j.attempt)
  BY <1>1, <1>2, LeftInTries
<1>4. MaxAttempts \in Nat /\ k.attempt \in 0..MaxAttempts /\ j.attempt \in 0..MaxAttempts
  BY ClientAssumption DEF CallState
<1> QED
  BY <1>2, <1>3, <1>4 DEF Requests

-----------------------------------------------------------------------------
(* Each step of a call is one less.                                        *)

\* What a step of a call does to its state: the next try, the next step of this
\* one, or the end.
LEMMA CallMoves ==
  ASSUME ClientInv, NEW c \in Callers, CallStep(c)
  PROVE  /\ call[c].pc # "idle"
         /\ \E j \in CallState :
              /\ call' = [call EXCEPT ![c] = j]
              /\ \/ j = Idle
                 \/ j = NextTry(call[c])
                 \/ /\ j.tries = call[c].tries
                    /\ \/ call[c].pc = "look" /\ j.pc = "pick"
                       \/ call[c].pc = "pick" /\ j.pc = "unrestrict"
                       \/ /\ call[c].pc \in Requests /\ j.pc = call[c].pc
                          /\ j.attempt = call[c].attempt + 1
                       \/ call[c].pc = "addMagnet" /\ j.pc = "selectFiles"
<1> DEFINE Moves(j) == /\ call' = [call EXCEPT ![c] = j]
                       /\ \/ j = Idle
                          \/ j = NextTry(call[c])
                          \/ /\ j.tries = call[c].tries
                             /\ \/ call[c].pc = "look" /\ j.pc = "pick"
                                \/ call[c].pc = "pick" /\ j.pc = "unrestrict"
                                \/ /\ call[c].pc \in Requests /\ j.pc = call[c].pc
                                   /\ j.attempt = call[c].attempt + 1
                                \/ call[c].pc = "addMagnet" /\ j.pc = "selectFiles"
<1>0. call[c] \in CallState /\ MaxAttempts \in Nat
  BY ClientAssumption DEF ClientInv
<1>i. Idle \in CallState /\ NextTry(call[c]) \in CallState
  BY NextTryIs, ClientAssumption DEF Idle, CallState
<1>r. ASSUME Sent(c), Retry(c) PROVE \E j \in CallState : Moves(j)
  <2>1. [call[c] EXCEPT !.attempt = @ + 1] \in CallState
    BY <1>0, <1>r DEF Retry, CallState
  <2> QED
    BY <1>0, <1>r, <2>1 DEF Retry, Sent, CallState
<1>g. ASSUME GiveUp(c) \/ call' = [call EXCEPT ![c] = NextTry(@)]
      PROVE  \E j \in CallState : Moves(j)
  BY <1>g, <1>i DEF GiveUp
<1>s. Sent(c) => call[c].pc # "idle"
  BY DEF Sent, Requests
<1>1. CASE Look(c)
  <2>1. [call[c] EXCEPT !.pc = "pick"] \in CallState
    BY <1>0 DEF CallState
  <2> QED
    BY <1>0, <1>1, <1>i, <2>1 DEF Look, CallState
<1>2. CASE PickForUnlock(c)
  <2>1. [call[c] EXCEPT !.pc = "unrestrict"] \in CallState
    BY <1>0 DEF CallState, Requests
  <2> QED
    BY <1>0, <1>2, <1>g, <2>1 DEF PickForUnlock, CallState
<1>3. CASE NetworkError(c)
  BY <1>3, <1>r, <1>g, <1>s DEF NetworkError
<1>4. CASE Busy(c)
  BY <1>4, <1>r, <1>g, <1>s DEF Busy
<1>5. CASE Refused(c)
  BY <1>5, <1>g, <1>s DEF Refused
<1>6. CASE Succeed(c)
  <2> DEFINE j == [call[c] EXCEPT !.pc = "selectFiles", !.attempt = 0]
  <2>1. j \in CallState /\ j.pc = "selectFiles" /\ j.tries = call[c].tries
    <3>1. 0 \in 0..MaxAttempts /\ "selectFiles" \in Requests
      BY <1>0 DEF Requests
    <3> QED
      BY <1>0, <3>1 DEF CallState
  <2>2. CASE call[c].pc = "addMagnet"
    <3>1. call' = [call EXCEPT ![c] = j]
      BY <1>0, <1>6, <2>2 DEF Succeed, ClientInv, CallState
    <3> HIDE DEF j
    <3> QED
      BY <1>6, <1>s, <2>1, <2>2, <3>1 DEF Succeed
  <2>3. CASE call[c].pc # "addMagnet"
    BY <1>6, <1>i, <1>s, <2>3 DEF Succeed
  <2> QED
    BY <2>2, <2>3
<1> QED
  BY <1>1, <1>2, <1>3, <1>4, <1>5, <1>6 DEF CallStep

\* A step of a call brings it closer to its end, and leaves it a try while it
\* is under way.
LEMMA CallAdvances ==
  ASSUME ClientInv, TryInv, NEW c \in Callers, CallStep(c)
  PROVE  /\ StepsLeft(c)' \in 0..(StepsLeft(c) - 1)
         /\ Trying(call'[c])
         /\ \A d \in Callers \ {c} : call'[d] = call[d]
<1>1. call[c] \in CallState /\ call \in [Callers -> CallState]
  BY DEF ClientInv
<1>2. call[c].pc # "idle" /\ call[c].tries >= 1
  BY CallMoves DEF TryInv, Trying
<1>3. PICK j \in CallState :
              /\ call' = [call EXCEPT ![c] = j]
              /\ \/ j = Idle
                 \/ j = NextTry(call[c])
                 \/ /\ j.tries = call[c].tries
                    /\ \/ call[c].pc = "look" /\ j.pc = "pick"
                       \/ call[c].pc = "pick" /\ j.pc = "unrestrict"
                       \/ /\ call[c].pc \in Requests /\ j.pc = call[c].pc
                          /\ j.attempt = call[c].attempt + 1
                       \/ call[c].pc = "addMagnet" /\ j.pc = "selectFiles"
  BY CallMoves
<1>4. call'[c] = j /\ \A d \in Callers \ {c} : call'[d] = call[d]
  BY <1>1, <1>3
<1>5. LeftOf(call[c]) \in Nat \ {0} /\ LeftOf(NextTry(call[c])) \in 0..(LeftOf(call[c]) - 1)
  BY <1>1, <1>2, LeftInThisTry
<1>6. LeftOf(j) \in 0..(LeftOf(call[c]) - 1) /\ Trying(j)
  <2>1. CASE j = Idle
    BY <1>5, <2>1 DEF LeftOf, Idle, Trying
  <2>2. CASE j = NextTry(call[c])
    BY <1>1, <1>5, <2>2 DEF NextTry, Idle, Trying, CallState
  <2>3. CASE j # Idle /\ j # NextTry(call[c])
    BY <1>1, <1>2, <1>3, <2>3, LeftWithinTry DEF Trying
  <2> QED
    BY <2>1, <2>2, <2>3
<1> QED
  BY <1>4, <1>6 DEF StepsLeft

\* Nothing but its own steps, its start and a restart changes a call.
LEMMA CallWaits ==
  ASSUME ClientInv, TryInv, [Next]_vars, NEW c \in Callers, ~CallStep(c)
  PROVE  /\ call[c].pc # "idle" => call'[c] = call[c] \/ call'[c] = Idle
         /\ Trying(call'[c])
<1>0. call \in [Callers -> CallState] /\ Trying(call[c]) /\ Trying(Idle)
  BY DEF ClientInv, TryInv, Trying, Idle
<1>1. ASSUME NEW u \in Unlockers, Unlock(u) \/ Probe(u)
      PROVE  IF c = u THEN call[c].pc = "idle" /\ call'[c].tries >= 1 ELSE call'[c] = call[c]
  BY <1>0, <1>1, ClientAssumption DEF Unlock, Probe
<1>2. ASSUME NEW s \in Submitters, NEW r \in {"addMagnet", "instantAvailability"}, Submit(s, r)
      PROVE  IF c = s THEN call[c].pc = "idle" /\ call'[c].tries >= 1 ELSE call'[c] = call[c]
  BY <1>0, <1>2 DEF Submit
<1>3. ASSUME NEW d \in Callers, CallStep(d) PROVE call'[c] = call[c]
  BY <1>3, CallAdvances
<1>4. CASE (Lockouts \/ Administer) /\ UNCHANGED <<call, torrents, lost>>
  BY <1>0, <1>4
<1>5. CASE Restart
  BY <1>0, <1>5 DEF Restart
<1>6. CASE UNCHANGED vars
  BY <1>0, <1>6 DEF vars
<1> QED
  BY <1>0, <1>1, <1>2, <1>3, <1>4, <1>5, <1>6 DEF Next, Trying

\* A call that is under way only gets closer to its end, and each of its own
\* steps brings it closer, for any keys and numbers of tries and attempts: no
\* answer of Real-Debrid and no change of the keys makes a call go on for ever
\* (debrid.go:49-133, playback.go:256).
THEOREM CallsEndInTime == Spec => CallsCountDown
<1>1. Init => ClientInv /\ TryInv
  BY ClientStarts DEF Init, Idle, TryInv, Trying
<1>2. (ClientInv /\ TryInv) /\ [Next]_vars => (ClientInv /\ TryInv)'
  <2>1. TryInv' = \A c \in Callers : Trying(call'[c])
    BY DEF TryInv, Trying
  <2> QED
    BY <2>1, ClientKeeps, CallAdvances, CallWaits
<1>3. ASSUME ClientInv, TryInv, [Next]_vars, NEW c \in Callers, call[c].pc # "idle"
      PROVE  StepsLeft(c)' \in 0..(IF CallStep(c) THEN StepsLeft(c) - 1 ELSE StepsLeft(c))
  <2>1. CASE CallStep(c)
    BY <1>3, <2>1, CallAdvances
  <2>2. CASE ~CallStep(c)
    <3>1. LeftOf(call[c]) \in Nat
      BY <1>3, LeftInThisTry DEF ClientInv, TryInv, Trying
    <3>2. call'[c] = call[c] \/ call'[c] = Idle
      BY <1>3, <2>2, CallWaits
    <3>3. LeftOf(call'[c]) \in 0..LeftOf(call[c])
      BY <3>1, <3>2 DEF LeftOf, Idle
    <3> QED
      BY <2>2, <3>3 DEF StepsLeft
  <2> QED
    BY <2>1, <2>2
<1>4. (ClientInv /\ TryInv) /\ [Next]_vars =>
        [\A c \in Callers :
           call[c].pc # "idle" =>
             StepsLeft(c)' \in 0..(IF CallStep(c) THEN StepsLeft(c) - 1 ELSE StepsLeft(c))]_vars
  BY <1>3
<1> QED
  BY <1>1, <1>2, <1>4, PTL DEF Spec, CallsCountDown
=============================================================================
