--------------------------- MODULE PrefetchJobProofs ---------------------------
(***************************************************************************)
(* Proofs about PrefetchJob, for any number of requests and jobs and any   *)
(* length of the library.  Besides the types, the inductive invariant says *)
(* where a job is in the library, which request is about to launch it, and *)
(* that the file lacks of the history only what some job is about to save, *)
(* unless it is being written.                                             *)
(***************************************************************************)
EXTENDS PrefetchJob, NaturalFacts

\* Past the top of the loop the item exists; at its top it may be one beyond.
WithinLibrary(x) ==
    /\ x.pc = "item" => x.item \in 1..(x.length + 1)
    /\ x.pc \in {"hashes", "backoff", "mark", "save", "saving"} => x.item \in 1..x.length

\* A request that is about to launch a job is the only one, and the job waits.
Launchable ==
    \A p \in Posts : post[p].pc = "armed" =>
        /\ post[p].job \in Jobs
        /\ job[post[p].job].pc = "armed"
        /\ \A q \in Posts : post[q].pc = "armed" /\ post[q].job = post[p].job => q = p

\* What a process that dies now forgets, unless it dies while the file is being
\* written, is an item that some job is about to save.
OnlyUnsavedAtRisk ==
    ~HistoryLocked =>
      \A i \in history \ file : \E j \in Jobs : job[j].pc = "save" /\ job[j].item = i

IInv ==
    /\ TypeOK
    /\ \A j \in Jobs : WithinLibrary(job[j])
    /\ Launchable
    /\ EveryJobIsStoppable
    /\ OnlyUnsavedAtRisk

Work == [pc : JobPcs, force : BOOLEAN, length : 0..Items,
         item : 0..(Items + 1), left : 0..Hashes]

-----------------------------------------------------------------------------
\* At the start there are no jobs, and neither history nor file.
LEMMA InitIInv == Init => IInv
<1> SUFFICES ASSUME Init PROVE IInv
  OBVIOUS
<1>1. NoWork \in Work /\ WithinLibrary(NoWork)
  BY PrefetchAssumption DEF NoWork, Work, JobPcs, WithinLibrary
<1>2. TypeOK
  BY <1>1 DEF Init, TypeOK, NoPost, PostPcs, Work
<1> QED
  BY <1>1, <1>2 DEF Init, IInv, NoPost, NoWork, Launchable, EveryJobIsStoppable, Live, OnlyUnsavedAtRisk

\* A step of a job that changes only its own record, keeps it well-formed and
\* neither ends an armed job nor wakes an idle one keeps what IInv says about
\* jobs and requests.
LEMMA OwnStep ==
  ASSUME IInv, NEW j \in Jobs, NEW x \in Work,
         job' = [job EXCEPT ![j] = x],
         WithinLibrary(x), Live(j), job[j].pc # "armed",
         UNCHANGED <<current, cancelled, post>>
  PROVE  /\ job' \in [Jobs -> Work]
         /\ \A i \in Jobs : WithinLibrary(job'[i])
         /\ Launchable'
         /\ EveryJobIsStoppable'
<1> USE DEF IInv, TypeOK
<1>1. job \in [Jobs -> Work]
  BY DEF Work
<1>2. job' \in [Jobs -> Work] /\ \A i \in Jobs : WithinLibrary(job'[i])
  BY <1>1
<1>3. Launchable'
  BY <1>1 DEF Launchable
<1>4. EveryJobIsStoppable'
  <2>1. \A i \in Jobs : Live(i)' => Live(i)
    BY <1>1 DEF Live
  <2> QED
    BY <2>1 DEF EveryJobIsStoppable
<1> QED
  BY <1>2, <1>3, <1>4

\* A job that is not about to save and does not write the file may go anywhere.
LEMMA OtherStep ==
  ASSUME OnlyUnsavedAtRisk, NEW j \in Jobs, NEW x,
         job \in [Jobs -> Work], job' = [job EXCEPT ![j] = x],
         job[j].pc \notin {"save", "wiping", "saving"},
         history' \ file' \subseteq history \ file
  PROVE  OnlyUnsavedAtRisk'
<1>1. \A i \in Jobs \ {j} : job'[i] = job[i]
  OBVIOUS
<1>2. HistoryLocked => HistoryLocked'
  BY <1>1 DEF HistoryLocked
<1> QED
  BY <1>1, <1>2 DEF OnlyUnsavedAtRisk

\* Each step of a job keeps the inductive invariant.
LEMMA JobKeepsIInv ==
  ASSUME IInv, NEW j \in Jobs, JobStep(j)
  PROVE  IInv'
<1> USE PrefetchAssumption
<1>1. /\ job \in [Jobs -> Work] /\ job[j] \in Work /\ WithinLibrary(job[j])
      /\ history \in SUBSET (1..Items) /\ file \in SUBSET (1..Items)
      /\ OnlyUnsavedAtRisk
  BY DEF IInv, TypeOK, Work
<1>2. ASSUME NEW x \in Work, job' = [job EXCEPT ![j] = x], WithinLibrary(x),
             Live(j), job[j].pc # "armed", UNCHANGED <<current, cancelled, post>>,
             running' \in BOOLEAN, history' \in SUBSET (1..Items), file' \in SUBSET (1..Items),
             OnlyUnsavedAtRisk'
      PROVE  IInv'
  <2>1. /\ job' \in [Jobs -> Work] /\ \A i \in Jobs : WithinLibrary(job'[i])
        /\ Launchable' /\ EveryJobIsStoppable'
    BY <1>2, OwnStep
  <2>2. \A i \in Jobs : WithinLibrary(job[i])'
    BY <2>1 DEF WithinLibrary
  <2>3. TypeOK'
    BY <1>2, <2>1 DEF IInv, TypeOK, Work
  <2> QED
    BY <1>1, <1>2, <2>1, <2>2, <2>3 DEF IInv
<1>4. CASE Begin(j)
  <2> DEFINE pc == IF job[j].force THEN "wipe" ELSE "library"
  <2> DEFINE x == [job[j] EXCEPT !.pc = pc]
  <2>1. x \in Work /\ WithinLibrary(x)
    BY <1>1 DEF Work, JobPcs, WithinLibrary
  <2>2. job' = [job EXCEPT ![j] = x] /\ Live(j) /\ job[j].pc = "begin"
    BY <1>4 DEF Begin, Goto, Live
  <2>3. history' \in SUBSET (1..Items) /\ UNCHANGED file
        /\ history' \ file' \subseteq history \ file
    BY <1>1, <1>4 DEF Begin
  <2>4. OnlyUnsavedAtRisk'
    BY <1>1, <2>2, <2>3, OtherStep
  <2> QED
    BY <1>1, <1>2, <1>4, <2>1, <2>2, <2>3, <2>4 DEF Begin, IInv, TypeOK
<1>5. CASE OpenFile(j)
  <2> DEFINE pc == IF job[j].pc = "wipe" THEN "wiping" ELSE "saving"
  <2> DEFINE x == [job[j] EXCEPT !.pc = pc]
  <2>1. x \in Work /\ WithinLibrary(x) /\ x.pc \in {"wiping", "saving"}
    BY <1>1, <1>5 DEF OpenFile, Work, JobPcs, WithinLibrary
  <2>2. job' = [job EXCEPT ![j] = x] /\ Live(j) /\ job[j].pc # "armed"
    BY <1>5 DEF OpenFile, Goto, Live
  <2>3. OnlyUnsavedAtRisk'
    <3>1. job'[j].pc \in {"wiping", "saving"}
      BY <1>1, <2>1, <2>2
    <3> QED
      BY <3>1 DEF OnlyUnsavedAtRisk, HistoryLocked
  <2> QED
    BY <1>1, <1>2, <1>5, <2>1, <2>2, <2>3 DEF OpenFile, IInv, TypeOK
<1>6. CASE WriteFile(j)
  <2> DEFINE x == Written(job[j])
  <2>1. x \in Work /\ WithinLibrary(x)
    <3>1. CASE job[j].pc = "wiping"
      BY <1>1, <3>1 DEF Written, Work, JobPcs, WithinLibrary
    <3>2. CASE job[j].pc = "saving"
      <4>1. job[j].item \in 1..job[j].length /\ job[j].length \in 0..Items
        BY <1>1, <3>2 DEF WithinLibrary, Work
      <4>2. job[j].item + 1 \in 0..(Items + 1) /\ job[j].item + 1 \in 1..(job[j].length + 1)
        BY <4>1
      <4> QED
        BY <1>1, <3>2, <4>2 DEF Written, Work, JobPcs, WithinLibrary
    <3> QED
      BY <1>6, <3>1, <3>2 DEF WriteFile
  <2>2. job' = [job EXCEPT ![j] = x] /\ Live(j) /\ job[j].pc # "armed"
    BY <1>6 DEF WriteFile, Live
  <2>3. OnlyUnsavedAtRisk'
    BY <1>6 DEF WriteFile, OnlyUnsavedAtRisk
  <2> QED
    BY <1>1, <1>2, <1>6, <2>1, <2>2, <2>3 DEF WriteFile, IInv, TypeOK
<1>7. CASE Mark(j)
  <2> DEFINE x == [job[j] EXCEPT !.pc = "save"]
  <2>1. job[j].item \in 1..job[j].length /\ job[j].length \in 0..Items
    BY <1>1, <1>7 DEF Mark, WithinLibrary, Work
  <2>2. x \in Work /\ WithinLibrary(x)
    BY <1>1, <2>1 DEF Work, JobPcs, WithinLibrary
  <2>3. job' = [job EXCEPT ![j] = x] /\ Live(j) /\ job[j].pc = "mark"
    BY <1>7 DEF Mark, Goto, Live
  <2>4. history' \in SUBSET (1..Items)
    <3>1. job[j].item \in 1..Items
      BY <2>1
    <3> QED
      BY <1>1, <1>7, <3>1 DEF Mark
  <2>5. OnlyUnsavedAtRisk'
    <3>1. ~HistoryLocked /\ UNCHANGED file /\ history' = history \cup {job[j].item}
      BY <1>7 DEF Mark
    <3>2. job'[j].pc = "save" /\ job'[j].item = job[j].item
      BY <1>1, <2>3 DEF Work
    <3>3. \A i \in Jobs \ {j} : job'[i] = job[i]
      BY <1>1, <2>3
    <3> QED
      BY <1>1, <2>3, <3>1, <3>2, <3>3 DEF OnlyUnsavedAtRisk
  <2> QED
    BY <1>1, <1>2, <1>7, <2>2, <2>3, <2>4, <2>5 DEF Mark, IInv, TypeOK
<1>8. ASSUME NEW x \in Work, job' = [job EXCEPT ![j] = x], WithinLibrary(x),
             job[j].pc \notin {"none", "armed", "save", "wiping", "saving"}, running' \in BOOLEAN,
             UNCHANGED <<current, cancelled, post, history, file>>
      PROVE  IInv'
  <2>1. OnlyUnsavedAtRisk'
    BY <1>1, <1>8, OtherStep
  <2> QED
    BY <1>1, <1>2, <1>8, <2>1 DEF Live
<1>9. running \in BOOLEAN
  BY DEF IInv, TypeOK
<1>10. \A pc \in {"end", "library"} :
         [job[j] EXCEPT !.pc = pc] \in Work /\ WithinLibrary([job[j] EXCEPT !.pc = pc])
  BY <1>1 DEF Work, JobPcs, WithinLibrary
<1>11. CASE Library(j)
  <2>1. ASSUME NEW n \in 0..Items
        PROVE  LET x == [job[j] EXCEPT !.pc = "item", !.length = n, !.item = 1]
               IN  x \in Work /\ WithinLibrary(x)
    <3>1. 1 \in 0..(Items + 1) /\ 1 \in 1..(n + 1)
      BY <2>1
    <3> QED
      BY <1>1, <2>1, <3>1 DEF Work, JobPcs, WithinLibrary
  <2>2. CASE Goto(j, "end")
    BY <1>8, <1>9, <1>10, <1>11, <2>2 DEF Library, Goto
  <2>3. ASSUME NEW n \in 0..Items,
               job' = [job EXCEPT ![j].pc = "item", ![j].length = n, ![j].item = 1]
        PROVE  IInv'
    <3> DEFINE x == [job[j] EXCEPT !.pc = "item", !.length = n, !.item = 1]
    <3>1. x \in Work /\ WithinLibrary(x) /\ job' = [job EXCEPT ![j] = x]
      BY <1>1, <2>1, <2>3
    <3> QED
      BY <1>8, <1>9, <1>11, <3>1 DEF Library
  <2> QED
    BY <1>11, <2>2, <2>3 DEF Library
<1>12. CASE Item(j)
  <2>1. job[j].pc = "item" /\ job[j].item \in 1..(job[j].length + 1) /\ job[j].length \in 0..Items
    BY <1>1, <1>12 DEF Item, WithinLibrary, Work
  <2>2. CASE Goto(j, "end")
    BY <1>8, <1>9, <1>10, <1>12, <2>1, <2>2 DEF Item, Goto
  <2>3. ASSUME ~AllDone(j) PROVE job[j].item \in 1..job[j].length
    BY <2>1, <2>3 DEF AllDone
  <2>4. CASE ~AllDone(j) /\ job' = [job EXCEPT ![j].item = @ + 1]
    <3> DEFINE x == [job[j] EXCEPT !.item = @ + 1]
    <3>1. job[j].item + 1 \in 0..(Items + 1) /\ job[j].item + 1 \in 1..(job[j].length + 1)
      BY <2>1, <2>3, <2>4
    <3>2. x \in Work /\ WithinLibrary(x) /\ job' = [job EXCEPT ![j] = x]
      BY <1>1, <2>1, <2>4, <3>1 DEF Work, WithinLibrary
    <3> QED
      BY <1>8, <1>9, <1>12, <2>1, <3>2 DEF Item
  <2>5. ASSUME ~AllDone(j), NEW n \in 0..Hashes,
               job' = [job EXCEPT ![j].pc = IF n = 0 THEN "mark" ELSE "hashes", ![j].left = n]
        PROVE  IInv'
    <3> DEFINE x == [job[j] EXCEPT !.pc = IF n = 0 THEN "mark" ELSE "hashes", !.left = n]
    <3>1. x \in Work /\ WithinLibrary(x) /\ job' = [job EXCEPT ![j] = x]
      BY <1>1, <2>3, <2>5 DEF Work, JobPcs, WithinLibrary
    <3> QED
      BY <1>8, <1>9, <1>12, <2>1, <3>1 DEF Item
  <2> QED
    BY <1>12, <2>2, <2>4, <2>5 DEF Item
<1>13. ASSUME job[j].pc \in {"hashes", "backoff"}, NEW pc \in {"hashes", "backoff", "mark"},
              NEW n \in 0..Hashes
       PROVE  LET x == [job[j] EXCEPT !.pc = pc, !.left = n]
              IN  x \in Work /\ WithinLibrary(x)
  BY <1>1, <1>13 DEF Work, JobPcs, WithinLibrary
<1>14. CASE Hash(j)
  <2>1. job[j].pc = "hashes" /\ job[j].left \in 0..Hashes
    BY <1>1, <1>14 DEF Hash, Work
  <2>2. CASE Goto(j, "mark")
    <3> DEFINE x == [job[j] EXCEPT !.pc = "mark", !.left = job[j].left]
    <3>1. x \in Work /\ WithinLibrary(x)
      BY <1>13, <2>1
    <3>2. job' = [job EXCEPT ![j] = x]
      BY <1>1, <2>2 DEF Goto, Work
    <3> QED
      BY <1>8, <1>9, <1>14, <2>1, <3>1, <3>2 DEF Hash
  <2>3. ASSUME job[j].left > 0, NEW pc \in {"hashes", "backoff"},
               job' = [job EXCEPT ![j].pc = pc, ![j].left = @ - 1]
        PROVE  IInv'
    <3> DEFINE x == [job[j] EXCEPT !.pc = pc, !.left = job[j].left - 1]
    <3>1. job[j].left - 1 \in 0..Hashes
      BY <2>1, <2>3
    <3>2. x \in Work /\ WithinLibrary(x)
      BY <1>13, <2>1, <3>1
    <3>3. job' = [job EXCEPT ![j] = x]
      BY <1>1, <2>3
    <3> QED
      BY <1>8, <1>9, <1>14, <2>1, <3>2, <3>3 DEF Hash
  <2> QED
    BY <1>14, <2>2, <2>3 DEF Hash
<1>15. CASE Backoff(j)
  <2>1. job[j].pc = "backoff" /\ job[j].left \in 0..Hashes
    BY <1>1, <1>15 DEF Backoff, Work
  <2>2. CASE Goto(j, "hashes")
    <3> DEFINE x == [job[j] EXCEPT !.pc = "hashes", !.left = job[j].left]
    <3>1. x \in Work /\ WithinLibrary(x)
      BY <1>13, <2>1
    <3>2. job' = [job EXCEPT ![j] = x]
      BY <1>1, <2>2 DEF Goto, Work
    <3> QED
      BY <1>8, <1>9, <1>15, <2>1, <3>1, <3>2 DEF Backoff
  <2>3. CASE Goto(j, "end")
    BY <1>8, <1>9, <1>10, <1>15, <2>1, <2>3 DEF Backoff, Goto
  <2> QED
    BY <1>15, <2>2, <2>3 DEF Backoff
<1>16. CASE End(j)
  <2>1. NoWork \in Work /\ WithinLibrary(NoWork)
    BY DEF NoWork, Work, JobPcs, WithinLibrary
  <2> QED
    BY <1>8, <1>16, <2>1 DEF End
<1> QED
  BY <1>4, <1>5, <1>6, <1>7, <1>11, <1>12, <1>14, <1>15, <1>16 DEF JobStep

\* A request keeps the inductive invariant: the job it arms is an idle one,
\* and the job it launches is the one it armed.
LEMMA PostKeepsIInv ==
  ASSUME IInv, NEW p \in Posts, PostStep(p)
  PROVE  IInv'
<1> USE PrefetchAssumption DEF IInv
<1>1. job \in [Jobs -> Work] /\ \A j \in Jobs : WithinLibrary(job[j])
  BY DEF TypeOK, Work
<1>2. ASSUME NEW force \in BOOLEAN, PostCheck(p, force) PROVE IInv'
  <2>1. TypeOK'
    BY <1>2 DEF PostCheck, TypeOK, PostPcs
  <2>2. Launchable'
    BY <1>2 DEF PostCheck, TypeOK, Launchable
  <2> QED
    BY <1>2, <2>1, <2>2
       DEF PostCheck, WithinLibrary, EveryJobIsStoppable, Live, OnlyUnsavedAtRisk, HistoryLocked
<1>3. ASSUME NEW j \in Jobs, PostArm(p, j) PROVE IInv'
  <2> DEFINE x == [NoWork EXCEPT !.pc = "armed", !.force = post[p].force]
  <2>1. x \in Work /\ WithinLibrary(x) /\ x.pc = "armed"
    <3>1. post[p].force \in BOOLEAN
      BY DEF TypeOK
    <3>2. NoWork \in Work /\ "armed" \in JobPcs
      BY DEF NoWork, Work, JobPcs
    <3>3. x \in Work
      BY <3>1, <3>2 DEF Work
    <3>4. x.pc = "armed"
      BY <3>2 DEF Work
    <3> QED
      BY <3>3, <3>4 DEF WithinLibrary
  <2>2. job' = [job EXCEPT ![j] = x] /\ job[j].pc = "none"
    BY <1>3 DEF PostArm, Live
  <2>3. job' \in [Jobs -> Work] /\ \A i \in Jobs : WithinLibrary(job'[i])
    BY <1>1, <2>1, <2>2
  <2>4. TypeOK'
    <3>1. post' \in [Posts -> [pc : PostPcs, job : Jobs \cup {NoJob}, force : BOOLEAN]]
      <4>1. /\ post \in [Posts -> [pc : PostPcs, job : Jobs \cup {NoJob}, force : BOOLEAN]]
            /\ "armed" \in PostPcs
        BY DEF TypeOK, PostPcs
      <4> QED
        BY <1>3, <4>1 DEF PostArm
    <3>2. cancelled' \in SUBSET Jobs /\ current' \in Jobs
      BY <1>3 DEF PostArm, TypeOK
    <3> QED
      BY <1>3, <2>3, <3>1, <3>2 DEF PostArm, TypeOK, Work
  <2>5. Launchable'
    <3>1. \A q \in Posts : q # p => post'[q] = post[q]
      BY <1>3 DEF PostArm, TypeOK
    <3>2. post'[p].pc = "armed" /\ post'[p].job = j
      BY <1>3 DEF PostArm, TypeOK
    <3>3. job'[j].pc = "armed" /\ \A i \in Jobs : i # j => job'[i] = job[i]
      BY <1>1, <2>1, <2>2
    <3>4. \A q \in Posts : post[q].pc = "armed" => post[q].job # j
      BY <2>2 DEF Launchable
    <3> QED
      BY <3>1, <3>2, <3>3, <3>4 DEF Launchable
  <2>6. EveryJobIsStoppable'
    BY <1>1, <1>3, <2>2 DEF PostArm, EveryJobIsStoppable, Live
  <2>7. OnlyUnsavedAtRisk'
    BY <1>1, <1>3, <2>2, OtherStep DEF PostArm
  <2>8. \A i \in Jobs : WithinLibrary(job[i])'
    BY <2>3 DEF WithinLibrary
  <2> QED
    BY <2>4, <2>5, <2>6, <2>7, <2>8
<1>4. CASE PostLaunch(p)
  <2> DEFINE j == post[p].job
  <2> DEFINE x == [job[j] EXCEPT !.pc = "begin"]
  <2>1. j \in Jobs /\ job[j].pc = "armed"
    BY <1>4 DEF PostLaunch, Launchable
  <2>2. x \in Work /\ WithinLibrary(x) /\ job' = [job EXCEPT ![j] = x]
    BY <1>1, <1>4, <2>1 DEF PostLaunch, Work, JobPcs, WithinLibrary
  <2>3. job' \in [Jobs -> Work] /\ \A i \in Jobs : WithinLibrary(job'[i])
    BY <1>1, <2>1, <2>2
  <2>4. TypeOK'
    BY <1>4, <2>3 DEF PostLaunch, TypeOK, NoPost, PostPcs, Work
  <2>5. Launchable'
    <3>1. \A q \in Posts : q # p => post'[q] = post[q]
      BY <1>4 DEF PostLaunch, TypeOK
    <3>2. post'[p].pc # "armed"
      BY <1>4 DEF PostLaunch, TypeOK, NoPost
    <3>3. \A i \in Jobs : i # j => job'[i] = job[i]
      BY <1>1, <2>2
    <3>4. \A q \in Posts : q # p /\ post[q].pc = "armed" => post[q].job # j
      BY <1>4 DEF PostLaunch, Launchable
    <3> QED
      BY <3>1, <3>2, <3>3, <3>4 DEF Launchable
  <2>6. EveryJobIsStoppable'
    BY <1>1, <1>4, <2>1, <2>2 DEF PostLaunch, EveryJobIsStoppable, Live
  <2>7. OnlyUnsavedAtRisk'
    BY <1>1, <1>4, <2>1, <2>2, OtherStep DEF PostLaunch
  <2>8. \A i \in Jobs : WithinLibrary(job[i])'
    BY <2>3 DEF WithinLibrary
  <2> QED
    BY <2>4, <2>5, <2>6, <2>7, <2>8
<1> QED
  BY <1>2, <1>3, <1>4 DEF PostStep

\* Every step of the program keeps the inductive invariant.
LEMMA NextIInv == IInv /\ [Next]_vars => IInv'
<1> SUFFICES ASSUME IInv, [Next]_vars PROVE IInv'
  OBVIOUS
<1>1. ASSUME NEW p \in Posts, PostStep(p) PROVE IInv'
  BY <1>1, PostKeepsIInv
<1>2. ASSUME NEW j \in Jobs, JobStep(j) PROVE IInv'
  BY <1>2, JobKeepsIInv
<1>3. CASE Stop
  BY <1>3 DEF Stop, IInv, TypeOK, WithinLibrary, Launchable, EveryJobIsStoppable, Live,
         OnlyUnsavedAtRisk, HistoryLocked
<1>4. CASE Restart
  <2>1. NoWork \in Work /\ WithinLibrary(NoWork)
    BY PrefetchAssumption DEF NoWork, Work, JobPcs, WithinLibrary
  <2>2. TypeOK'
    BY <1>4, <2>1 DEF Restart, IInv, TypeOK, NoPost, PostPcs, Work
  <2> QED
    BY <1>4, <2>1, <2>2
       DEF Restart, IInv, NoPost, NoWork, WithinLibrary, Launchable, EveryJobIsStoppable, Live,
           OnlyUnsavedAtRisk
<1>5. CASE UNCHANGED vars
  BY <1>5 DEF vars, IInv, TypeOK, WithinLibrary, Launchable, EveryJobIsStoppable, Live,
         OnlyUnsavedAtRisk, HistoryLocked
<1> QED
  BY <1>1, <1>2, <1>3, <1>4, <1>5 DEF Next

-----------------------------------------------------------------------------
\* The inductive invariant holds throughout.
THEOREM Invariance == Spec => []IInv
  BY InitIInv, NextIInv, PTL DEF Spec

\* Jobs, requests, history and file keep their types.
THEOREM TypeCorrect == Spec => []TypeOK
<1>1. IInv => TypeOK
  BY DEF IInv
<1> QED
  BY <1>1, Invariance, PTL

\* Whatever starts, stops and restarts overlap, every job either is cancelled
\* or is the one that Stop cancels.
THEOREM JobsStoppable == Spec => []EveryJobIsStoppable
<1>1. IInv => EveryJobIsStoppable
  BY DEF IInv
<1> QED
  BY <1>1, Invariance, PTL

\* However jobs overlap and whenever the process dies, a done item is forgotten
\* only by a forced wipe, or by a death before it was saved or while the file is
\* being written.
THEOREM HistoryKept == Spec => DoneItemsStayDone
<1>1. ASSUME IInv, [Next]_vars, NEW i \in history \ history'
      PROVE  \E j \in Jobs :
                \/ Begin(j) /\ job[j].force
                \/ /\ Restart
                   /\ \/ job[j].pc \in {"wiping", "saving"}
                      \/ job[j].pc = "save" /\ job[j].item = i
  <2>1. OnlyUnsavedAtRisk
    BY <1>1 DEF IInv
  <2>2. ASSUME NEW p \in Posts, PostStep(p) PROVE UNCHANGED history
    BY <2>2 DEF PostStep, PostCheck, PostArm, PostLaunch
  <2>3. ASSUME NEW j \in Jobs, JobStep(j), ~(Begin(j) /\ job[j].force)
        PROVE  history \subseteq history'
    BY <2>3 DEF JobStep, Begin, Library, Item, Hash, Backoff, Mark, OpenFile, WriteFile, End
  <2>4. CASE Restart
    <3>1. i \in history \ file
      BY <1>1, <2>4 DEF Restart
    <3> QED
      BY <2>1, <2>4, <3>1 DEF OnlyUnsavedAtRisk, HistoryLocked
  <2>5. CASE Stop
    BY <1>1, <2>5 DEF Stop
  <2>6. CASE UNCHANGED vars
    BY <1>1, <2>6 DEF vars
  <2> QED
    BY <1>1, <2>2, <2>3, <2>4, <2>5, <2>6 DEF Next
<1>2. IInv /\ [Next]_vars =>
        [\A i \in history \ history' : \E j \in Jobs :
            \/ Begin(j) /\ job[j].force
            \/ /\ Restart
               /\ \/ job[j].pc \in {"wiping", "saving"}
                  \/ job[j].pc = "save" /\ job[j].item = i]_vars
  BY <1>1
<1> QED
  BY <1>2, Invariance, PTL DEF Spec, DoneItemsStayDone

-----------------------------------------------------------------------------
(* Who clears Running.                                                     *)

\* Running is set only while a job has yet to clear it: nothing else would.
RunningHasJob == running => \E j \in Jobs : Live(j) /\ job[j].pc # "armed"

\* From where to where a step takes a job.
Advances(x, y) ==
    \/ x.pc = "begin" /\ y.pc \in {"wipe", "library"}
    \/ x.pc = "wipe" /\ y.pc = "wiping"
    \/ x.pc = "wiping" /\ y.pc = "library"
    \/ x.pc = "library" /\ y.pc = "item" /\ y.item = 1
    \/ x.pc \in {"library", "item", "backoff"} /\ y.pc = "end"
    \/ x.pc = "end" /\ y.pc = "none"
    \/ /\ x.pc \in {"item", "saving"} /\ x.item <= x.length
       /\ y.pc = "item" /\ y.item = x.item + 1 /\ y.length = x.length
    \/ /\ y.item = x.item /\ y.length = x.length
       /\ \/ x.pc = "item" /\ x.item <= x.length /\ y.pc \in {"hashes", "mark"}
          \/ /\ x.pc = "hashes" /\ x.left > 0
             /\ y.pc \in {"hashes", "backoff"} /\ y.left = x.left - 1
          \/ x.pc = "hashes" /\ y.pc = "mark"
          \/ x.pc = "backoff" /\ y.pc = "hashes" /\ y.left = x.left
          \/ x.pc = "mark" /\ y.pc = "save"
          \/ x.pc = "save" /\ y.pc = "saving"

LEMMA JobMoves ==
  ASSUME IInv, NEW j \in Jobs, JobStep(j)
  PROVE  /\ Advances(job[j], job'[j])
         /\ \A i \in Jobs \ {j} : job'[i] = job[i]
         /\ job'[j].pc = "none" => ~running'
<1>0. job \in [Jobs -> Work] /\ job[j] \in Work /\ WithinLibrary(job[j])
  BY DEF IInv, TypeOK, Work
<1>r. job[j].item \in Nat /\ job[j].length \in Nat /\ job[j].left \in Nat
  BY <1>0, PrefetchAssumption DEF Work
<1>g. ASSUME NEW pc, Goto(j, pc)
      PROVE  /\ job'[j].pc = pc /\ job'[j].item = job[j].item
             /\ job'[j].length = job[j].length /\ job'[j].left = job[j].left
             /\ \A i \in Jobs \ {j} : job'[i] = job[i]
  BY <1>0, <1>g DEF Goto, Work
<1>1. CASE Begin(j)
  BY <1>1, <1>g DEF Begin, Advances
<1>2. CASE OpenFile(j)
  BY <1>2, <1>g DEF OpenFile, Advances
<1>3. CASE Library(j)
  <2>0. job[j].pc = "library"
    BY <1>3 DEF Library
  <2>1. CASE Goto(j, "end")
    BY <1>g, <2>0, <2>1 DEF Advances
  <2>2. ASSUME NEW n \in 0..Items,
               job' = [job EXCEPT ![j].pc = "item", ![j].length = n, ![j].item = 1]
        PROVE  /\ job'[j].pc = "item" /\ job'[j].item = 1
               /\ \A i \in Jobs \ {j} : job'[i] = job[i]
    BY <1>0, <2>2 DEF Work
  <2> QED
    BY <1>3, <2>0, <2>1, <2>2 DEF Library, Advances
<1>4. CASE Item(j)
  <2>0. job[j].pc = "item" /\ (~AllDone(j) => job[j].item <= job[j].length)
    BY <1>4, <1>r DEF Item, AllDone
  <2>1. CASE Goto(j, "end")
    BY <1>g, <2>0, <2>1 DEF Advances
  <2>2. CASE ~AllDone(j) /\ job' = [job EXCEPT ![j].item = @ + 1]
    <3>1. /\ job'[j].pc = job[j].pc /\ job'[j].item = job[j].item + 1
          /\ job'[j].length = job[j].length
          /\ \A i \in Jobs \ {j} : job'[i] = job[i]
      BY <1>0, <2>2 DEF Work
    <3> QED
      BY <2>0, <2>2, <3>1 DEF Advances
  <2>3. ASSUME ~AllDone(j), NEW n \in 0..Hashes,
               job' = [job EXCEPT ![j].pc = IF n = 0 THEN "mark" ELSE "hashes", ![j].left = n]
        PROVE  /\ Advances(job[j], job'[j]) /\ job'[j].pc # "none"
               /\ \A i \in Jobs \ {j} : job'[i] = job[i]
    <3>1. /\ job'[j].pc \in {"mark", "hashes"} /\ job'[j].item = job[j].item
          /\ job'[j].length = job[j].length
          /\ \A i \in Jobs \ {j} : job'[i] = job[i]
      BY <1>0, <2>3 DEF Work
    <3> QED
      BY <2>0, <2>3, <3>1 DEF Advances
  <2> QED
    BY <1>4, <2>1, <2>2, <2>3 DEF Item
<1>5. CASE Hash(j)
  <2>1. CASE Goto(j, "mark")
    BY <1>5, <1>g, <2>1 DEF Hash, Advances
  <2>2. ASSUME job[j].left > 0, NEW pc \in {"hashes", "backoff"},
               job' = [job EXCEPT ![j].pc = pc, ![j].left = @ - 1]
        PROVE  /\ Advances(job[j], job'[j]) /\ job'[j].pc # "none"
               /\ \A i \in Jobs \ {j} : job'[i] = job[i]
    <3>1. /\ job'[j].pc = pc /\ job'[j].item = job[j].item
          /\ job'[j].length = job[j].length /\ job'[j].left = job[j].left - 1
          /\ \A i \in Jobs \ {j} : job'[i] = job[i]
      BY <1>0, <2>2 DEF Work
    <3> QED
      BY <1>5, <2>2, <3>1 DEF Hash, Advances
  <2> QED
    BY <1>5, <1>g, <2>1, <2>2 DEF Hash
<1>6. CASE Backoff(j)
  BY <1>6, <1>g DEF Backoff, Advances
<1>7. CASE Mark(j)
  BY <1>7, <1>g DEF Mark, Advances
<1>8. CASE WriteFile(j)
  <2>1. /\ job'[j] = Written(job[j]) /\ job[j].pc \in {"wiping", "saving"}
        /\ \A i \in Jobs \ {j} : job'[i] = job[i]
    BY <1>0, <1>8 DEF WriteFile
  <2>2. CASE job[j].pc = "wiping"
    BY <1>0, <2>1, <2>2 DEF Written, Advances, Work
  <2>3. CASE job[j].pc = "saving"
    <3>1. /\ job'[j].pc = "item" /\ job'[j].item = job[j].item + 1
          /\ job'[j].length = job[j].length
      BY <1>0, <2>1, <2>3 DEF Written, Work
    <3>2. job[j].item <= job[j].length
      BY <1>0, <1>r, <2>3 DEF WithinLibrary
    <3> QED
      BY <2>1, <2>3, <3>1, <3>2 DEF Advances
  <2> QED
    BY <2>1, <2>2, <2>3
<1>9. CASE End(j)
  BY <1>0, <1>9 DEF End, NoWork, Advances
<1> QED
  BY <1>1, <1>2, <1>3, <1>4, <1>5, <1>6, <1>7, <1>8, <1>9 DEF JobStep

\* A step of a job leaves the job at work, unless it is the last, which clears
\* Running; other jobs stay where they are.
LEMMA StepKeepsWorking ==
  ASSUME IInv, NEW j \in Jobs, JobStep(j), running'
  PROVE  job'[j].pc \notin {"none", "armed"}
  BY JobMoves DEF Advances

\* Running is set by the launch of a job, and every job clears it when it ends.
LEMMA RunningKept == IInv /\ RunningHasJob /\ [Next]_vars => RunningHasJob'
<1> SUFFICES ASSUME IInv, RunningHasJob, [Next]_vars, running'
             PROVE  \E i \in Jobs : job'[i].pc \notin {"none", "armed"}
  BY DEF RunningHasJob, Live
<1>1. job \in [Jobs -> Work]
  BY DEF IInv, TypeOK, Work
<1>2. running => \E i \in Jobs : job[i].pc \notin {"none", "armed"}
  BY DEF RunningHasJob, Live
<1>3. ASSUME NEW p \in Posts, PostStep(p)
      PROVE  \E i \in Jobs : job'[i].pc \notin {"none", "armed"}
  <2>1. CASE \E force \in BOOLEAN : PostCheck(p, force)
    BY <1>2, <2>1 DEF PostCheck
  <2>2. ASSUME NEW j \in Jobs, PostArm(p, j)
        PROVE  \E i \in Jobs : job'[i].pc \notin {"none", "armed"}
    <3>1. /\ running /\ job[j].pc = "none"
          /\ \A i \in Jobs \ {j} : job'[i] = job[i]
      BY <1>1, <2>2 DEF PostArm, Live
    <3> QED
      BY <1>2, <3>1
  <2>3. CASE PostLaunch(p)
    <3>1. post[p].job \in Jobs
      BY <2>3 DEF PostLaunch, IInv, Launchable
    <3>2. job'[post[p].job].pc = "begin"
      BY <1>1, <2>3, <3>1 DEF PostLaunch, Work
    <3> QED
      BY <3>1, <3>2
  <2> QED
    BY <1>3, <2>1, <2>2, <2>3 DEF PostStep
<1>4. ASSUME NEW j \in Jobs, JobStep(j)
      PROVE  \E i \in Jobs : job'[i].pc \notin {"none", "armed"}
  BY <1>4, StepKeepsWorking
<1>5. CASE Stop
  BY <1>2, <1>5 DEF Stop
<1>6. CASE Restart
  BY <1>6 DEF Restart
<1>7. CASE UNCHANGED vars
  BY <1>2, <1>7 DEF vars
<1> QED
  BY <1>3, <1>4, <1>5, <1>6, <1>7 DEF Next

\* Running is never left behind by a job that has ended or was stopped before it
\* was launched, for any requests and jobs (prefetch.go:500-506).
THEOREM RunningIsCleared == Spec => []RunningHasJob
<1>1. Init => IInv /\ RunningHasJob
  BY InitIInv DEF Init, RunningHasJob
<1>2. (IInv /\ RunningHasJob) /\ [Next]_vars => (IInv /\ RunningHasJob)'
  BY NextIInv, RunningKept
<1> QED
  BY <1>1, <1>2, PTL DEF Spec

-----------------------------------------------------------------------------
(* How many steps a job has left.                                          *)

\* The steps of n items.
Todo(n) == n * ItemSteps

LEMMA TodoGrows ==
  ASSUME NEW n \in Nat
  PROVE  Todo(n) \in Nat /\ Todo(n + 1) = Todo(n) + ItemSteps
<1>1. ItemSteps \in Nat
  BY PrefetchAssumption DEF ItemSteps
<1> HIDE DEF ItemSteps
<1>2. ItemSteps * n \in Nat /\ ItemSteps * (n + 1) = ItemSteps * n + ItemSteps
  BY <1>1, OneMoreUnit
<1> QED
  BY <1>1, <1>2 DEF Todo

LEMMA TodoOrdered ==
  ASSUME NEW n \in Nat, NEW m \in Nat, n <= m
  PROVE  Todo(n) \in Nat /\ Todo(n) <= Todo(m)
<1> DEFINE d == m - n
<1>1. d \in Nat /\ m = n + d
  OBVIOUS
<1>2. ItemSteps \in Nat
  BY PrefetchAssumption DEF ItemSteps
<1> HIDE DEF d, ItemSteps
<1>3. Todo(m) = Todo(n) + Todo(d)
  BY <1>1, <1>2 DEF Todo
<1> QED
  BY <1>1, <1>3, TodoGrows

\* At the top of the loop the item it is at is still to do; past it, the items
\* behind it and what is left of this one.
LEMMA LeftAtTop ==
  ASSUME NEW x \in Work, WithinLibrary(x), x.pc = "item"
  PROVE  /\ x.length + 1 - x.item \in 0..Items
         /\ LeftOf(x) = Todo(x.length + 1 - x.item) + 2
<1> DEFINE n == x.length + 1 - x.item
<1>1. n \in 0..Items /\ x.length - x.item = n - 1
  BY PrefetchAssumption DEF WithinLibrary, Work
<1>2. ItemSteps \in Nat /\ n \in Nat
  BY <1>1, PrefetchAssumption DEF ItemSteps
<1>3. LeftOf(x) = (n - 1) * ItemSteps + 2 + ItemSteps
  BY <1>1 DEF LeftOf
<1> HIDE DEF n, ItemSteps
<1>4. LeftOf(x) = n * ItemSteps + 2
  BY <1>2, <1>3
<1> QED
  BY <1>1, <1>4 DEF Todo, n

LEMMA LeftInside ==
  ASSUME NEW x \in Work, WithinLibrary(x), x.pc \in {"hashes", "backoff", "mark", "save", "saving"}
  PROVE  /\ x.length - x.item \in Nat
         /\ Todo(x.length - x.item) \in Nat
         /\ LeftOf(x) = Todo(x.length - x.item) + 2 +
              CASE x.pc = "saving" -> 1
                [] x.pc = "save" -> 2
                [] x.pc = "mark" -> 3
                [] x.pc = "hashes" -> 4 + 2 * x.left
                [] x.pc = "backoff" -> 5 + 2 * x.left
<1>1. x.length - x.item \in Nat /\ x.left \in Nat
  BY PrefetchAssumption DEF WithinLibrary, Work
<1>2. Todo(x.length - x.item) \in Nat
  BY <1>1, TodoGrows
<1> DEFINE todo == Todo(x.length - x.item)
<1>3. LeftOf(x) = CASE x.pc = "saving" -> todo + 2 + 1
                    [] x.pc = "save" -> todo + 2 + 2
                    [] x.pc = "mark" -> todo + 2 + 3
                    [] x.pc = "hashes" -> todo + 2 + 4 + 2 * x.left
                    [] x.pc = "backoff" -> todo + 2 + 5 + 2 * x.left
  BY DEF LeftOf, Todo
<1> HIDE DEF todo
<1>4. todo \in Nat
  BY <1>2 DEF todo
<1>5. LeftOf(x) = todo + 2 +
              CASE x.pc = "saving" -> 1
                [] x.pc = "save" -> 2
                [] x.pc = "mark" -> 3
                [] x.pc = "hashes" -> 4 + 2 * x.left
                [] x.pc = "backoff" -> 5 + 2 * x.left
  BY <1>1, <1>3, <1>4
<1> QED
  BY <1>1, <1>2, <1>5 DEF todo

\* Every step that may be left is counted.
LEMMA LeftIsNatural ==
  ASSUME NEW x \in Work, WithinLibrary(x)
  PROVE  /\ LeftOf(x) \in Nat
         /\ x.pc # "none" => LeftOf(x) >= 1
         /\ x.pc \notin {"none", "end"} => LeftOf(x) >= 2
<1>1. CASE x.pc = "item"
  <2>1. Todo(x.length + 1 - x.item) \in Nat
    BY <1>1, LeftAtTop, TodoGrows
  <2> QED
    BY <1>1, <2>1, LeftAtTop
<1>2. CASE x.pc \in {"hashes", "backoff", "mark", "save", "saving"}
  <2>1. x.left \in Nat
    BY PrefetchAssumption DEF Work
  <2> QED
    BY <1>2, <2>1, LeftInside
<1>3. CASE x.pc \notin {"item", "hashes", "backoff", "mark", "save", "saving"}
  <2> DEFINE all == Items * ItemSteps
  <2>1. all \in Nat
    BY TodoGrows, PrefetchAssumption DEF Todo
  <2>2. LeftOf(x) = CASE x.pc = "none" -> 0
                      [] x.pc = "end" -> 1
                      [] x.pc = "library" -> all + 3
                      [] x.pc = "wiping" -> all + 4
                      [] x.pc = "wipe" -> all + 5
                      [] x.pc = "begin" -> all + 6
                      [] x.pc = "armed" -> all + 7
    BY <1>3 DEF LeftOf, Work, JobPcs
  <2> HIDE DEF all
  <2>3. x.pc \in {"none", "end", "library", "wiping", "wipe", "begin", "armed"}
    BY <1>3 DEF Work, JobPcs
  <2> QED
    BY <2>1, <2>2, <2>3
<1> QED
  BY <1>1, <1>2, <1>3

\* Each step from one place to the next is one less.
LEMMA AdvanceCounts ==
  ASSUME NEW x \in Work, WithinLibrary(x), NEW y \in Work, WithinLibrary(y), Advances(x, y)
  PROVE  LeftOf(y) \in 0..(LeftOf(x) - 1)
<1>0. /\ LeftOf(x) \in Nat /\ LeftOf(y) \in Nat
      /\ x.pc # "none" => LeftOf(x) >= 1
      /\ x.pc \notin {"none", "end"} => LeftOf(x) >= 2
  BY LeftIsNatural
<1>n. /\ x.length \in Nat /\ x.item \in Nat /\ y.length \in 0..Items
      /\ Hashes \in Nat /\ Items \in Nat /\ ItemSteps = 2 * Hashes + 5
      /\ x.left \in 0..Hashes /\ y.left \in 0..Hashes
  BY PrefetchAssumption DEF Work, ItemSteps
<1>1. CASE \/ x.pc = "begin" /\ y.pc \in {"wipe", "library"}
           \/ x.pc = "wipe" /\ y.pc = "wiping"
           \/ x.pc = "wiping" /\ y.pc = "library"
  <2> DEFINE all == Items * ItemSteps
  <2>1. all \in Nat
    BY <1>n, TodoGrows DEF Todo
  <2>2. /\ LeftOf(x) = CASE x.pc = "begin" -> all + 6
                         [] x.pc = "wipe" -> all + 5
                         [] x.pc = "wiping" -> all + 4
        /\ LeftOf(y) = CASE y.pc = "wipe" -> all + 5
                         [] y.pc = "wiping" -> all + 4
                         [] y.pc = "library" -> all + 3
    BY <1>1 DEF LeftOf
  <2> HIDE DEF all
  <2> QED
    BY <1>1, <2>1, <2>2
<1>2. CASE x.pc = "library" /\ y.pc = "item" /\ y.item = 1
  <2>1. LeftOf(x) = Todo(Items) + 3
    BY <1>2 DEF LeftOf, Todo
  <2>2. LeftOf(y) = Todo(y.length) + 2
    <3>1. y.length + 1 - y.item = y.length
      BY <1>2, <1>n
    <3> QED
      BY <1>2, <3>1, LeftAtTop
  <2>3. Todo(y.length) <= Todo(Items) /\ Todo(y.length) \in Nat /\ Todo(Items) \in Nat
    <3>1. y.length \in Nat /\ y.length <= Items /\ Items \in Nat
      BY <1>n
    <3> QED
      BY <3>1, TodoOrdered, TodoGrows
  <2> QED
    BY <2>1, <2>2, <2>3
<1>3. CASE x.pc \in {"library", "item", "backoff"} /\ y.pc = "end"
  <2>1. LeftOf(y) = 1
    BY <1>3 DEF LeftOf
  <2> QED
    BY <1>0, <1>3, <2>1
<1>4. CASE x.pc = "end" /\ y.pc = "none"
  BY <1>4 DEF LeftOf
<1> DEFINE n == x.length - x.item
<1>5. ASSUME x.pc \in {"item", "hashes", "backoff", "mark", "save", "saving"}, x.item <= x.length
      PROVE  /\ n \in Nat /\ Todo(n) \in Nat
             /\ x.pc = "item" => LeftOf(x) = Todo(n) + ItemSteps + 2
             /\ x.pc = "hashes" => LeftOf(x) = Todo(n) + 6 + 2 * x.left
             /\ x.pc = "backoff" => LeftOf(x) = Todo(n) + 7 + 2 * x.left
             /\ x.pc = "mark" => LeftOf(x) = Todo(n) + 5
             /\ x.pc = "save" => LeftOf(x) = Todo(n) + 4
             /\ x.pc = "saving" => LeftOf(x) = Todo(n) + 3
  <2>1. n \in Nat /\ x.length + 1 - x.item = n + 1
    BY <1>5, <1>n
  <2>2. Todo(n) \in Nat /\ Todo(n + 1) = Todo(n) + ItemSteps
    BY <2>1, TodoGrows
  <2>3. x.pc = "item" => LeftOf(x) = Todo(n) + ItemSteps + 2
    BY <2>1, <2>2, LeftAtTop
  <2> DEFINE t == Todo(n)
  <2>4. x.pc \in {"hashes", "backoff", "mark", "save", "saving"} =>
          LeftOf(x) = t + 2 +
              CASE x.pc = "saving" -> 1
                [] x.pc = "save" -> 2
                [] x.pc = "mark" -> 3
                [] x.pc = "hashes" -> 4 + 2 * x.left
                [] x.pc = "backoff" -> 5 + 2 * x.left
    BY LeftInside
  <2>5. t \in Nat
    BY <2>2
  <2> HIDE DEF t
  <2>6. /\ x.pc = "hashes" => LeftOf(x) = t + 6 + 2 * x.left
        /\ x.pc = "backoff" => LeftOf(x) = t + 7 + 2 * x.left
        /\ x.pc = "mark" => LeftOf(x) = t + 5
        /\ x.pc = "save" => LeftOf(x) = t + 4
        /\ x.pc = "saving" => LeftOf(x) = t + 3
    BY <1>n, <2>4, <2>5
  <2> QED
    BY <2>1, <2>2, <2>3, <2>6 DEF t
<1>6. CASE /\ x.pc \in {"item", "saving"} /\ x.item <= x.length
           /\ y.pc = "item" /\ y.item = x.item + 1 /\ y.length = x.length
  <2>1. y.length + 1 - y.item = n
    BY <1>6, <1>n
  <2>2. LeftOf(y) = Todo(n) + 2
    BY <1>6, <2>1, LeftAtTop
  <2> HIDE DEF n
  <2> QED
    BY <1>5, <1>6, <1>n, <2>2
<1>7. CASE y.item = x.item /\ y.length = x.length
           /\ y.pc \in {"hashes", "backoff", "mark", "save", "saving"}
           /\ x.pc \notin {"begin", "wipe", "wiping"}
  <2>1. /\ x.pc \in {"item", "hashes", "backoff", "mark", "save"} /\ x.item <= x.length
        /\ y.length - y.item = n
    BY <1>7, <1>n DEF Advances, WithinLibrary
  <2> DEFINE t == Todo(n)
  <2>2. LeftOf(y) = t + 2 +
              CASE y.pc = "saving" -> 1
                [] y.pc = "save" -> 2
                [] y.pc = "mark" -> 3
                [] y.pc = "hashes" -> 4 + 2 * y.left
                [] y.pc = "backoff" -> 5 + 2 * y.left
    BY <1>7, <2>1, LeftInside
  <2>3. /\ t \in Nat
        /\ x.pc = "item" => LeftOf(x) = t + ItemSteps + 2
        /\ x.pc = "hashes" => LeftOf(x) = t + 6 + 2 * x.left
        /\ x.pc = "backoff" => LeftOf(x) = t + 7 + 2 * x.left
        /\ x.pc = "mark" => LeftOf(x) = t + 5
        /\ x.pc = "save" => LeftOf(x) = t + 4
    BY <1>5, <2>1
  <2> HIDE DEF t, n
  <2>4. /\ y.pc = "hashes" => LeftOf(y) = t + 6 + 2 * y.left
        /\ y.pc = "backoff" => LeftOf(y) = t + 7 + 2 * y.left
        /\ y.pc = "mark" => LeftOf(y) = t + 5
        /\ y.pc = "save" => LeftOf(y) = t + 4
        /\ y.pc = "saving" => LeftOf(y) = t + 3
    BY <1>n, <2>2, <2>3
  <2>5. CASE x.pc = "item" /\ y.pc \in {"hashes", "mark"}
    BY <1>n, <2>3, <2>4, <2>5
  <2>6. CASE x.pc = "hashes" /\ x.left > 0 /\ y.pc \in {"hashes", "backoff"} /\ y.left = x.left - 1
    BY <1>n, <2>3, <2>4, <2>6
  <2>7. CASE x.pc = "hashes" /\ y.pc = "mark"
    BY <1>n, <2>3, <2>4, <2>7
  <2>8. CASE x.pc = "backoff" /\ y.pc = "hashes" /\ y.left = x.left
    BY <1>n, <2>3, <2>4, <2>8
  <2>9. CASE (x.pc = "mark" /\ y.pc = "save") \/ (x.pc = "save" /\ y.pc = "saving")
    BY <2>3, <2>4, <2>9
  <2> QED
    BY <1>7, <2>1, <2>5, <2>6, <2>7, <2>8, <2>9 DEF Advances
<1> QED
  BY <1>1, <1>2, <1>3, <1>4, <1>6, <1>7 DEF Advances

\* What is not a step of the job leaves it where it is, launches it or, at a
\* restart, ends it.
LEMMA JobWaits ==
  ASSUME IInv, [Next]_vars, NEW j \in Jobs, Live(j), ~JobStep(j)
  PROVE  \/ job'[j] = job[j]
         \/ job[j].pc = "armed" /\ job'[j].pc = "begin"
         \/ job'[j].pc = "none"
<1>1. job \in [Jobs -> Work]
  BY DEF IInv, TypeOK, Work
<1>2. ASSUME NEW p \in Posts, PostStep(p)
      PROVE  \/ job'[j] = job[j]
             \/ job[j].pc = "armed" /\ job'[j].pc = "begin"
  <2>1. CASE \E force \in BOOLEAN : PostCheck(p, force)
    BY <2>1 DEF PostCheck
  <2>2. ASSUME NEW i \in Jobs, PostArm(p, i) PROVE job'[j] = job[j]
    BY <1>1, <2>2 DEF PostArm
  <2>3. CASE PostLaunch(p)
    <3>1. post[p].job \in Jobs /\ job[post[p].job].pc = "armed"
      BY <2>3 DEF PostLaunch, IInv, Launchable
    <3>2. job'[post[p].job].pc = "begin" /\ \A i \in Jobs \ {post[p].job} : job'[i] = job[i]
      BY <1>1, <2>3, <3>1 DEF PostLaunch, Work
    <3> QED
      BY <3>1, <3>2
  <2> QED
    BY <1>2, <2>1, <2>2, <2>3 DEF PostStep
<1>3. ASSUME NEW i \in Jobs, JobStep(i) PROVE job'[j] = job[j]
  BY <1>3, JobMoves
<1>4. CASE Stop
  BY <1>4 DEF Stop
<1>5. CASE Restart
  BY <1>5 DEF Restart, NoWork
<1>6. CASE UNCHANGED vars
  BY <1>6 DEF vars
<1> QED
  BY <1>2, <1>3, <1>4, <1>5, <1>6 DEF Next

\* A job only gets closer to its end, and each of its own steps brings it
\* closer, for any library, hashes, jobs and requests: no rate limit, stop or
\* other job makes it repeat what was done (prefetch.go:543-704).
THEOREM JobsEndInTime == Spec => JobsCountDown
<1>1. ASSUME IInv, [Next]_vars, NEW j \in Jobs, Live(j)
      PROVE  JobStepsLeft(j)' \in 0..(IF JobStep(j) THEN JobStepsLeft(j) - 1 ELSE JobStepsLeft(j))
  <2>1. IInv'
    BY <1>1, NextIInv
  <2>2. job[j] \in Work /\ WithinLibrary(job[j])
    BY <1>1 DEF IInv, TypeOK, Work
  <2>3. job'[j] \in Work /\ WithinLibrary(job'[j])
    BY <2>1 DEF IInv, TypeOK, Work, WithinLibrary
  <2>4. LeftOf(job[j]) \in Nat /\ LeftOf(job'[j]) \in Nat
    BY <2>2, <2>3, LeftIsNatural
  <2>5. CASE JobStep(j)
    BY <1>1, <2>2, <2>3, <2>5, JobMoves, AdvanceCounts DEF JobStepsLeft
  <2>6. CASE ~JobStep(j)
    <3>1. CASE job'[j] = job[j]
      BY <2>4, <2>6, <3>1 DEF JobStepsLeft
    <3>2. CASE job[j].pc = "armed" /\ job'[j].pc = "begin"
      <4> DEFINE all == Items * ItemSteps
      <4>1. all \in Nat
        BY PrefetchAssumption, TodoGrows DEF Todo
      <4>2. LeftOf(job[j]) = all + 7 /\ LeftOf(job'[j]) = all + 6
        BY <3>2 DEF LeftOf
      <4> HIDE DEF all
      <4> QED
        BY <2>6, <4>1, <4>2 DEF JobStepsLeft
    <3>3. CASE job'[j].pc = "none"
      <4>1. LeftOf(job'[j]) = 0
        BY <3>3 DEF LeftOf
      <4> QED
        BY <2>4, <2>6, <4>1 DEF JobStepsLeft
    <3> QED
      BY <1>1, <2>6, <3>1, <3>2, <3>3, JobWaits
  <2> QED
    BY <2>5, <2>6
<1>2. IInv /\ [Next]_vars =>
        [\A j \in Jobs :
           Live(j) =>
             JobStepsLeft(j)' \in 0..(IF JobStep(j) THEN JobStepsLeft(j) - 1
                                                  ELSE JobStepsLeft(j))]_vars
  BY <1>1
<1> QED
  BY <1>2, Invariance, PTL DEF Spec, JobsCountDown
=============================================================================
