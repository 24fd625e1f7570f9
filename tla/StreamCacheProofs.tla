--------------------------- MODULE StreamCacheProofs ---------------------------
(***************************************************************************)
(* Proofs about StreamCache, for any sets of keys, requests and refreshers *)
(* and either backend: swrInFlight is exactly the set of keys a refresher  *)
(* works on, refreshers exclude each other, and every step is a step of    *)
(* SingleFlight or leaves the table of refreshers as it is.                *)
(***************************************************************************)
EXTENDS StreamCache, TLAPS

Task == [pc : Pcs, key : Keys \cup {NoKey}, list : List]

Tasks == Requests \cup Refreshers

Claimed == \A r \in Refreshers, k \in Keys : Refreshing(r, k) => k \in swrInFlight

IInv ==
    /\ TypeOK
    /\ OneRefreshPerKey
    /\ InFlightHasRefresher
    /\ Claimed

\* What a step may do to the table: r claims k, r gives k back, the process
\* restarts, or nothing.
Claims(r, k) ==
    /\ k \notin swrInFlight
    /\ \A j \in Keys : ~Refreshing(r, j)
    /\ swrInFlight' = swrInFlight \cup {k}
    /\ \A s \in Refreshers, j \in Keys :
         Refreshing(s, j)' <=> Refreshing(s, j) \/ (s = r /\ j = k)

GivesBack(r, k) ==
    /\ Refreshing(r, k)
    /\ swrInFlight' = swrInFlight \ {k}
    /\ \A s \in Refreshers, j \in Keys :
         Refreshing(s, j)' <=> Refreshing(s, j) /\ s # r

Forgets ==
    /\ swrInFlight' = {}
    /\ \A s \in Refreshers, j \in Keys : ~Refreshing(s, j)'

LeavesTable ==
    /\ swrInFlight' = swrInFlight
    /\ \A s \in Refreshers, j \in Keys : Refreshing(s, j)' <=> Refreshing(s, j)

-----------------------------------------------------------------------------
\* At the start nothing is cached or claimed.
LEMMA InitIInv == Init => IInv
<1> SUFFICES ASSUME Init PROVE IInv
  OBVIOUS
<1>1. 0 \in Versions
  BY CacheAssumption DEF Versions
<1>2. Absent \in List /\ IdleTask \in Task /\ IdleTask.pc = "idle"
  BY <1>1 DEF Absent, List, IdleTask, Task, Pcs
<1>3. TypeOK
  BY <1>1, <1>2 DEF Init, TypeOK, Task
<1> QED
  BY <1>2, <1>3 DEF Init, IInv, OneRefreshPerKey, InFlightHasRefresher, Claimed, Refreshing

\* Every step keeps the types.
LEMMA NextTypeOK == TypeOK /\ [Next]_vars => TypeOK'
<1> SUFFICES ASSUME TypeOK, [Next]_vars PROVE TypeOK'
  OBVIOUS
<1> USE CacheAssumption
<1>1. Absent \in List /\ IdleTask \in Task /\ IdleTask.pc = "idle" /\ 0 \in Versions
  BY DEF Absent, List, IdleTask, Task, Pcs, Versions
<1>2. /\ sources \in [Keys -> Versions] /\ entry \in [Keys -> List]
      /\ task \in [Tasks -> Task] /\ swrInFlight \in SUBSET Keys
      /\ busted \in [Keys -> Versions]
      /\ \A p \in Tasks : task[p].pc # "idle" => task[p].key \in Keys
      /\ \A q \in Requests : task[q].pc \in {"idle", "fetch", "store"}
  BY DEF TypeOK, Task, Tasks
<1>3. ASSUME NEW p \in Tasks, NEW x \in Task, task' = [task EXCEPT ![p] = x],
             x.pc # "idle" => x.key \in Keys,
             p \in Requests => x.pc \in {"idle", "fetch", "store"},
             sources' = sources, busted' = busted,
             swrInFlight' \in SUBSET Keys, entry' \in [Keys -> List]
      PROVE  TypeOK'
  <2>1. task' \in [Tasks -> Task]
    BY <1>2, <1>3
  <2>2. \A q \in Tasks : task'[q].pc # "idle" => task'[q].key \in Keys
    BY <1>2, <1>3
  <2>3. \A q \in Requests : task'[q].pc \in {"idle", "fetch", "store"}
    BY <1>2, <1>3 DEF Tasks
  <2> QED
    BY <1>2, <1>3, <2>1, <2>2, <2>3 DEF TypeOK, Task, Tasks
<1>4. ASSUME NEW p \in Tasks, Fetch(p) PROVE TypeOK'
  <2>1. PICK state \in {"streams", "empty"} :
          task' = [task EXCEPT ![p].pc = "store",
                               ![p].list = [state |-> state, version |-> sources[task[p].key]]]
    BY <1>4 DEF Fetch
  <2> DEFINE x == [task[p] EXCEPT !.pc = "store",
                                  !.list = [state |-> state, version |-> sources[task[p].key]]]
  <2>2. task[p] \in Task /\ task[p].key \in Keys
    BY <1>2, <1>4 DEF Fetch
  <2>3. [state |-> state, version |-> sources[task[p].key]] \in List
    BY <1>2, <2>2 DEF List
  <2>4. x \in Task /\ x.key \in Keys /\ x.pc = "store" /\ task' = [task EXCEPT ![p] = x]
    BY <1>2, <2>1, <2>2, <2>3 DEF Task, Pcs
  <2> QED
    BY <1>2, <1>3, <1>4, <2>4 DEF Fetch
<1>5. ASSUME NEW p \in Tasks, Store(p) PROVE TypeOK'
  <2>1. task[p] \in Task /\ task[p].key \in Keys /\ task[p].list \in List
    BY <1>2, <1>5 DEF Store, Task
  <2>2. entry' \in [Keys -> List]
    BY <1>2, <1>5, <2>1 DEF Store
  <2>3. CASE p \in Refreshers
    <3> DEFINE x == [task[p] EXCEPT !.pc = "release"]
    <3>1. x \in Task /\ x.key \in Keys /\ task' = [task EXCEPT ![p] = x] /\ p \notin Requests
      BY <1>2, <1>5, <2>1, <2>3 DEF Store, Task, Pcs
    <3> QED
      BY <1>2, <1>3, <1>5, <2>2, <3>1 DEF Store
  <2>4. CASE p \notin Refreshers
    BY <1>1, <1>2, <1>3, <1>5, <2>2, <2>4 DEF Store
  <2> QED
    BY <2>3, <2>4
<1>6. ASSUME NEW r \in Refreshers, NEW k \in Keys, Hit(r, k) PROVE TypeOK'
  <2> DEFINE x == [IdleTask EXCEPT !.pc = "start", !.key = k]
  <2>1. x \in Task /\ x.key = k
    BY <1>1 DEF Task, Pcs
  <2> QED
    BY <1>2, <1>3, <1>6, <2>1 DEF Hit, Tasks
<1>7. ASSUME NEW q \in Requests, NEW k \in Keys, Miss(q, k) PROVE TypeOK'
  <2> DEFINE x == [IdleTask EXCEPT !.pc = "fetch", !.key = k]
  <2>1. x \in Task /\ x.key = k /\ x.pc = "fetch"
    BY <1>1 DEF Task, Pcs
  <2> QED
    BY <1>2, <1>3, <1>7, <2>1 DEF Miss, Tasks
<1>8. ASSUME NEW r \in Refreshers, Refresh(r) PROVE TypeOK'
  <2>1. task[r] \in Task /\ task[r].key \in Keys /\ r \in Tasks /\ r \notin Requests
    BY <1>2, <1>8 DEF Refresh, Tasks
  <2>2. CASE task[r].key \in swrInFlight
    BY <1>1, <1>2, <1>3, <1>8, <2>1, <2>2 DEF Refresh
  <2>3. CASE task[r].key \notin swrInFlight
    <3> DEFINE x == [task[r] EXCEPT !.pc = "fetch"]
    <3>1. x \in Task /\ x.key \in Keys /\ task' = [task EXCEPT ![r] = x]
      BY <1>2, <1>8, <2>1, <2>3 DEF Refresh, Task, Pcs
    <3>2. swrInFlight' \in SUBSET Keys
      BY <1>2, <1>8, <2>1, <2>3 DEF Refresh
    <3> QED
      BY <1>2, <1>3, <1>8, <2>1, <3>1, <3>2 DEF Refresh
  <2> QED
    BY <2>2, <2>3
<1>9. ASSUME NEW r \in Refreshers, Release(r) PROVE TypeOK'
  BY <1>1, <1>2, <1>3, <1>9 DEF Release, Tasks
<1>10. ASSUME NEW k \in Keys, SourcesChange(k) PROVE TypeOK'
  <2>1. sources[k] + 1 \in Versions
    BY <1>2, <1>10 DEF SourcesChange, Versions
  <2> QED
    BY <1>10, <2>1 DEF SourcesChange, TypeOK
<1>11. ASSUME NEW ks \in SUBSET Keys, Bust(ks) PROVE TypeOK'
  BY <1>1, <1>11 DEF Bust, TypeOK
<1>12. ASSUME NEW k \in Keys, Expire(k) PROVE TypeOK'
  BY <1>1, <1>12 DEF Expire, TypeOK
<1>13. CASE Restart
  BY <1>1, <1>13 DEF Restart, TypeOK, Task
<1>14. CASE UNCHANGED vars
  BY <1>14 DEF vars, TypeOK
<1> QED
  BY <1>4, <1>5, <1>6, <1>7, <1>8, <1>9, <1>10, <1>11, <1>12, <1>13, <1>14
     DEF Next, RefresherStep, Tasks

-----------------------------------------------------------------------------
\* Every step does one of the four things to the table.
LEMMA TableSteps ==
  ASSUME TypeOK, [Next]_vars
  PROVE  \/ \E r \in Refreshers, k \in Keys : Claims(r, k) \/ GivesBack(r, k)
         \/ Forgets
         \/ LeavesTable
<1> USE CacheAssumption
<1>1. /\ task \in [Tasks -> Task] /\ Refreshers \subseteq Tasks
      /\ \A p \in Tasks : task[p].pc # "idle" => task[p].key \in Keys
  BY DEF TypeOK, Task, Tasks
<1>2. IdleTask.pc = "idle"
  BY DEF IdleTask
<1>3. ASSUME NEW p \in Tasks, NEW x, task' = [task EXCEPT ![p] = x], swrInFlight' = swrInFlight,
             p \in Refreshers => \A j \in Keys : Refreshing(p, j) <=>
                                  x.key = j /\ x.pc \in {"fetch", "store", "release"}
      PROVE  LeavesTable
  BY <1>1, <1>3 DEF LeavesTable, Refreshing
<1>4. ASSUME NEW p \in Tasks, Fetch(p) PROVE LeavesTable
  <2>1. PICK state \in {"streams", "empty"} :
          task' = [task EXCEPT ![p].pc = "store",
                               ![p].list = [state |-> state, version |-> sources[task[p].key]]]
    BY <1>4 DEF Fetch
  <2> DEFINE x == [task[p] EXCEPT !.pc = "store",
                                  !.list = [state |-> state, version |-> sources[task[p].key]]]
  <2>2. task[p] \in Task
    BY <1>1
  <2>3. x.key = task[p].key /\ x.pc = "store" /\ task' = [task EXCEPT ![p] = x]
    BY <1>1, <2>1, <2>2 DEF Task
  <2> QED
    BY <1>3, <1>4, <2>3 DEF Fetch, Refreshing
<1>5. ASSUME NEW p \in Tasks, Store(p) PROVE LeavesTable
  <2>1. CASE p \in Refreshers
    <3> DEFINE x == [task[p] EXCEPT !.pc = "release"]
    <3>1. task[p] \in Task
      BY <1>1
    <3>2. x.key = task[p].key /\ x.pc = "release" /\ task' = [task EXCEPT ![p] = x]
      BY <1>1, <1>5, <2>1, <3>1 DEF Store, Task
    <3> QED
      BY <1>3, <1>5, <3>2 DEF Store, Refreshing
  <2>2. CASE p \notin Refreshers
    BY <1>3, <1>5, <2>2 DEF Store
  <2> QED
    BY <2>1, <2>2
<1>6. ASSUME NEW r \in Refreshers, NEW k \in Keys, Hit(r, k) PROVE LeavesTable
  <2>1. [IdleTask EXCEPT !.pc = "start", !.key = k].pc = "start"
    BY DEF IdleTask
  <2> QED
    BY <1>1, <1>3, <1>6, <2>1 DEF Hit, Refreshing
<1>7. ASSUME NEW q \in Requests, NEW k \in Keys, Miss(q, k) PROVE LeavesTable
  BY <1>1, <1>7 DEF Miss, LeavesTable, Refreshing
<1>8. ASSUME NEW r \in Refreshers, Refresh(r)
      PROVE  LeavesTable \/ \E k \in Keys : Claims(r, k)
  <2>1. task[r] \in Task /\ task[r].key \in Keys /\ r \in Tasks /\ task[r].pc = "start"
    BY <1>1, <1>8 DEF Refresh
  <2>2. CASE task[r].key \in swrInFlight
    <3>1. task' = [task EXCEPT ![r] = IdleTask] /\ swrInFlight' = swrInFlight
      BY <1>8, <2>2 DEF Refresh
    <3>2. LeavesTable
      BY <1>2, <1>3, <2>1, <3>1 DEF Refreshing
    <3> QED
      BY <3>2
  <2>3. CASE task[r].key \notin swrInFlight
    <3> DEFINE x == [task[r] EXCEPT !.pc = "fetch"]
    <3>1. x.key = task[r].key /\ x.pc = "fetch" /\ task' = [task EXCEPT ![r] = x]
      BY <1>1, <1>8, <2>1, <2>3 DEF Refresh, Task
    <3>2. swrInFlight' = swrInFlight \cup {task[r].key}
      BY <1>8, <2>3 DEF Refresh
    <3>3. Claims(r, task[r].key)
      BY <1>1, <2>1, <2>3, <3>1, <3>2 DEF Claims, Refreshing
    <3> QED
      BY <2>1, <3>3
  <2> QED
    BY <2>2, <2>3
<1>9. ASSUME NEW r \in Refreshers, Release(r) PROVE \E k \in Keys : GivesBack(r, k)
  <2>1. task[r].key \in Keys /\ task[r].pc = "release"
    BY <1>1, <1>9 DEF Release
  <2>2. GivesBack(r, task[r].key)
    BY <1>1, <1>2, <1>9, <2>1 DEF Release, GivesBack, Refreshing
  <2> QED
    BY <2>1, <2>2
<1>10. ASSUME NEW k \in Keys, SourcesChange(k) \/ Expire(k) PROVE LeavesTable
  BY <1>10 DEF SourcesChange, Expire, LeavesTable, Refreshing
<1>11. ASSUME NEW ks \in SUBSET Keys, Bust(ks) PROVE LeavesTable
  BY <1>11 DEF Bust, LeavesTable, Refreshing
<1>12. CASE Restart
  BY <1>1, <1>2, <1>12 DEF Restart, Forgets, Refreshing, Tasks
<1>13. CASE UNCHANGED vars
  BY <1>13 DEF vars, LeavesTable, Refreshing
<1> QED
  BY <1>4, <1>5, <1>6, <1>7, <1>8, <1>9, <1>10, <1>11, <1>12, <1>13
     DEF Next, RefresherStep, Tasks

\* Every step keeps the inductive invariant.
LEMMA NextIInv == IInv /\ [Next]_vars => IInv'
<1> SUFFICES ASSUME IInv, [Next]_vars PROVE IInv'
  OBVIOUS
<1>1. TypeOK' /\ swrInFlight \subseteq Keys
  BY NextTypeOK DEF IInv, TypeOK
<1>2. ASSUME NEW r \in Refreshers, NEW k \in Keys, Claims(r, k) PROVE IInv'
  BY <1>1, <1>2 DEF Claims, IInv, OneRefreshPerKey, InFlightHasRefresher, Claimed
<1>3. ASSUME NEW r \in Refreshers, NEW k \in Keys, GivesBack(r, k) PROVE IInv'
  <2>1. \A j \in Keys : Refreshing(r, j) <=> j = k
    BY <1>3 DEF GivesBack, Refreshing
  <2>2. OneRefreshPerKey' /\ Claimed'
    BY <1>3, <2>1 DEF GivesBack, IInv, OneRefreshPerKey, Claimed
  <2>3. InFlightHasRefresher'
    BY <1>1, <1>3, <2>1 DEF GivesBack, IInv, InFlightHasRefresher
  <2> QED
    BY <1>1, <2>2, <2>3 DEF IInv
<1>4. CASE Forgets
  BY <1>1, <1>4 DEF Forgets, IInv, OneRefreshPerKey, InFlightHasRefresher, Claimed
<1>5. CASE LeavesTable
  BY <1>1, <1>5 DEF LeavesTable, IInv, OneRefreshPerKey, InFlightHasRefresher, Claimed
<1> QED
  BY <1>2, <1>3, <1>4, <1>5, TableSteps DEF IInv

-----------------------------------------------------------------------------
\* The inductive invariant holds throughout.
THEOREM Invariance == Spec => []IInv
  BY InitIInv, NextIInv, PTL DEF Spec

\* The cache, the tasks and swrInFlight keep their types.
THEOREM TypeCorrect == Spec => []TypeOK
<1>1. IInv => TypeOK
  BY DEF IInv
<1> QED
  BY <1>1, Invariance, PTL

\* No key is refreshed by two refreshers at a time.
THEOREM RefreshesExclude == Spec => []OneRefreshPerKey
<1>1. IInv => OneRefreshPerKey
  BY DEF IInv
<1> QED
  BY <1>1, Invariance, PTL

\* No key stays in swrInFlight without a refresher working on it.
THEOREM NoKeyStuck == Spec => []InFlightHasRefresher
<1>1. IInv => InFlightHasRefresher
  BY DEF IInv
<1> QED
  BY <1>1, Invariance, PTL

-----------------------------------------------------------------------------
(* The refinement of SingleFlight, without its fairness.                   *)

\* Who works on a key is read off RefresherOf.
LEMMA RefresherOfKey ==
  ASSUME OneRefreshPerKey, NEW k \in Keys
  PROVE  /\ \A r \in Refreshers : Refreshing(r, k) => RefresherOf[k] = r
         /\ (\A r \in Refreshers : ~Refreshing(r, k)) => RefresherOf[k] = NoKey
         /\ RefresherOf[k] # NoKey => \E r \in Refreshers : Refreshing(r, k) /\ RefresherOf[k] = r
  BY CacheAssumption DEF RefresherOf, OneRefreshPerKey

\* Every step is one of SingleFlight or leaves the table as it is.
LEMMA StepRefines ==
  ASSUME IInv, IInv', [Next]_vars
  PROVE  [Flight!Next]_RefresherOf
<1> USE CacheAssumption
<1>1. OneRefreshPerKey /\ OneRefreshPerKey'
  BY DEF IInv
<1>2. \A k \in Keys :
         /\ \A r \in Refreshers : Refreshing(r, k)' => RefresherOf'[k] = r
         /\ (\A r \in Refreshers : ~Refreshing(r, k)') => RefresherOf'[k] = NoKey
  BY <1>1 DEF RefresherOf, OneRefreshPerKey, Refreshing
<1>3. RefresherOf = [k \in Keys |-> RefresherOf[k]] /\ RefresherOf' = [k \in Keys |-> RefresherOf'[k]]
  BY DEF RefresherOf
<1>4. ASSUME NEW r \in Refreshers, NEW k \in Keys, Claims(r, k)
      PROVE  Flight!Acquire(k, r)
  <2>1. \A s \in Refreshers : ~Refreshing(s, k)
    BY <1>4 DEF Claims, IInv, Claimed
  <2>2. RefresherOf[k] = NoKey
    BY <1>1, <2>1, RefresherOfKey
  <2>3. \A j \in Keys : RefresherOf[j] # r
    BY <1>1, <1>4, RefresherOfKey DEF Claims
  <2>4. \A j \in Keys : RefresherOf'[j] = IF j = k THEN r ELSE RefresherOf[j]
    BY <1>1, <1>2, <1>4, RefresherOfKey DEF Claims
  <2>5. RefresherOf' = [RefresherOf EXCEPT ![k] = r]
    BY <1>3, <2>4
  <2> QED
    BY <2>2, <2>3, <2>5 DEF Flight!Acquire
<1>5. ASSUME NEW r \in Refreshers, NEW k \in Keys, GivesBack(r, k)
      PROVE  Flight!Release(k)
  <2>1. RefresherOf[k] = r
    BY <1>1, <1>5, RefresherOfKey DEF GivesBack
  <2>2. \A j \in Keys : Refreshing(r, j) <=> j = k
    BY <1>5 DEF GivesBack, Refreshing
  <2>3. \A s \in Refreshers : ~Refreshing(s, k)'
    BY <1>1, <1>5 DEF GivesBack, OneRefreshPerKey
  <2>4. \A j \in Keys : RefresherOf'[j] = IF j = k THEN NoKey ELSE RefresherOf[j]
    BY <1>1, <1>2, <1>5, <2>2, <2>3, RefresherOfKey DEF GivesBack
  <2>5. RefresherOf' = [RefresherOf EXCEPT ![k] = NoKey]
    BY <1>3, <2>4
  <2> QED
    BY <2>1, <2>5 DEF Flight!Release
<1>6. CASE Forgets
  <2>1. RefresherOf' = [k \in Keys |-> NoKey]
    BY <1>2, <1>3, <1>6 DEF Forgets
  <2> QED
    BY <2>1 DEF Flight!Next, Flight!Reset
<1>7. CASE LeavesTable
  <2>1. \A k \in Keys : RefresherOf'[k] = RefresherOf[k]
    BY <1>1, <1>2, <1>7, RefresherOfKey DEF LeavesTable
  <2>2. RefresherOf' = RefresherOf
    BY <1>3, <2>1
  <2> QED
    BY <2>2
<1> QED
  BY <1>4, <1>5, <1>6, <1>7, TableSteps DEF IInv, Flight!Next

\* The refreshes start as SingleFlight does and take only its steps.
THEOREM RefreshesImplementFlight == Spec => Flight!Init /\ [][Flight!Next]_RefresherOf
<1>1. Init => Flight!Init
  <2> SUFFICES ASSUME Init PROVE Flight!Init
    OBVIOUS
  <2>1. ASSUME NEW r \in Refreshers PROVE task[r].pc = "idle"
    BY <2>1 DEF Init, IdleTask
  <2>2. \A r \in Refreshers, k \in Keys : ~Refreshing(r, k)
    BY <2>1 DEF Refreshing
  <2> QED
    BY <2>2 DEF Flight!Init, RefresherOf
<1>2. IInv /\ IInv' /\ [Next]_vars => [Flight!Next]_RefresherOf
  BY StepRefines
<1> QED
  BY <1>1, <1>2, Invariance, PTL DEF Spec
=============================================================================
