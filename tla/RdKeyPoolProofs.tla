--------------------------- MODULE RdKeyPoolProofs ---------------------------
(***************************************************************************)
(* Proofs about RdKeyPool, for any finite set of keys and any numbers of   *)
(* requests and calls.                                                     *)
(***************************************************************************)
EXTENDS RdKeyPool, NaturalFacts, FiniteSetTheorems

-----------------------------------------------------------------------------
(* The loop that removes keys.                                             *)

Loop(f, s, gone, m) ==
    f = [n \in 0..m |-> IF n = 0 THEN <<>>
                        ELSE IF s[n] \in gone THEN f[n - 1] ELSE Append(f[n - 1], s[n])]

\* The recursion of Without has a solution: the shortest sequence without one
\* would be one longer than a sequence with one.
LEMMA LoopRuns ==
  ASSUME NEW s \in Seq(Tokens), NEW gone
  PROVE  \E f : Loop(f, s, gone, Len(s))
<1> DEFINE Bad == {m \in 0..Len(s) : ~ \E f : Loop(f, s, gone, m)}
<1>1. Len(s) \in Nat
  OBVIOUS
<1>2. ASSUME NEW m \in Bad, \A k \in Bad : m <= k PROVE FALSE
  <2>1. CASE m = 0
    <3>1. Loop([n \in 0..0 |-> <<>>], s, gone, 0)
      BY DEF Loop
    <3> QED
      BY <2>1, <3>1
  <2>2. CASE m # 0
    <3>1. m - 1 \in 0..Len(s) /\ m - 1 \notin Bad /\ m \in Nat
      BY <1>1, <1>2, <2>2
    <3>2. PICK f : Loop(f, s, gone, m - 1)
      BY <3>1
    <3> DEFINE last == IF s[m] \in gone THEN f[m - 1] ELSE Append(f[m - 1], s[m])
               g == [n \in 0..m |-> IF n = m THEN last ELSE f[n]]
    <3>3. \A n \in 0..(m - 1) : g[n] = f[n]
      BY <3>1
    <3>4. g[m] = last
      BY <3>1
    <3> HIDE DEF last
    <3>5. \A n \in 0..m :
            g[n] = IF n = 0 THEN <<>>
                   ELSE IF s[n] \in gone THEN g[n - 1] ELSE Append(g[n - 1], s[n])
      <4>1. \A n \in 0..(m - 1) :
              f[n] = IF n = 0 THEN <<>>
                     ELSE IF s[n] \in gone THEN f[n - 1] ELSE Append(f[n - 1], s[n])
        BY <3>2 DEF Loop
      <4>2. \A n \in 0..(m - 1) : n = 0 \/ n - 1 \in 0..(m - 1)
        BY <3>1
      <4>3. \A n \in 0..m : n = m \/ n \in 0..(m - 1)
        BY <3>1
      <4>4. m - 1 \in 0..(m - 1)
        BY <3>1, <2>2
      <4> HIDE DEF g
      <4> QED
        BY <3>3, <3>4, <4>1, <4>2, <4>3, <4>4, <2>2 DEF last
    <3>6. Loop(g, s, gone, m)
      BY <3>5 DEF Loop
    <3> QED
      BY <3>6
  <2> QED
    BY <2>1, <2>2
<1>3. Bad = {}
  <2>1. Bad \subseteq Nat
    BY <1>1
  <2> HIDE DEF Bad
  <2> QED
    BY <1>2, <2>1, SmallestOf
<1> QED
  BY <1>1, <1>3

\* Without is the last value of such a loop.
LEMMA WithoutLoops ==
  ASSUME NEW s \in Seq(Tokens), NEW gone
  PROVE  \E f : Loop(f, s, gone, Len(s)) /\ Without(s, gone) = f[Len(s)]
<1>1. PICK f : Loop(f, s, gone, Len(s))
  BY LoopRuns
<1> DEFINE kept == CHOOSE h : h = [n \in 0..Len(s) |->
               IF n = 0 THEN <<>>
               ELSE IF s[n] \in gone THEN h[n - 1] ELSE Append(h[n - 1], s[n])]
<1>2. Loop(kept, s, gone, Len(s))
  BY <1>1 DEF Loop
<1>3. Without(s, gone) = kept[Len(s)]
  BY DEF Without
<1> QED
  BY <1>2, <1>3

\* What Without keeps, and that it keeps it once.
LEMMA WithoutKeeps ==
  ASSUME NEW s \in Seq(Tokens), NEW gone
  PROVE  /\ Without(s, gone) \in Seq(Tokens)
         /\ ToSet(Without(s, gone)) = ToSet(s) \ gone
         /\ IsInjective(s) => IsInjective(Without(s, gone))
<1>1. PICK f : Loop(f, s, gone, Len(s)) /\ Without(s, gone) = f[Len(s)]
  BY WithoutLoops
<1> DEFINE first(n) == {s[i] : i \in 1..n}
           Good(n) == /\ f[n] \in Seq(Tokens)
                      /\ ToSet(f[n]) = first(n) \ gone
                      /\ IsInjective(s) => IsInjective(f[n])
           Bad == {n \in 0..Len(s) : ~Good(n)}
<1>2. Len(s) \in Nat /\ \A i \in 1..Len(s) : s[i] \in Tokens
  OBVIOUS
<1>3. \A n \in 0..Len(s) :
        f[n] = IF n = 0 THEN <<>>
               ELSE IF s[n] \in gone THEN f[n - 1] ELSE Append(f[n - 1], s[n])
  BY <1>1 DEF Loop
<1>4. ASSUME NEW n \in Bad, \A k \in Bad : n <= k PROVE FALSE
  <2>1. CASE n = 0
    <3>1. f[0] = <<>> /\ first(0) = {}
      BY <1>2, <1>3
    <3>2. Good(0)
      BY <3>1 DEF ToSet, IsInjective
    <3> QED
      BY <2>1, <3>2
  <2>2. CASE n # 0
    <3>1. n \in 1..Len(s) /\ n - 1 \in 0..Len(s) /\ n - 1 \notin Bad
      <4> HIDE DEF Good
      <4>1. n \in 0..Len(s) /\ n \in 1..Len(s) /\ n - 1 \in 0..Len(s)
        BY <1>2, <2>2
      <4>2. ~(n <= n - 1)
        BY <4>1
      <4> QED
        BY <1>4, <4>1, <4>2
    <3>2. Good(n - 1)
      <4> HIDE DEF Good
      <4> QED
        BY <3>1
    <3>3. first(n) = first(n - 1) \cup {s[n]} /\ s[n] \in Tokens
      <4>1. 1..n = 1..(n - 1) \cup {n}
        BY <3>1
      <4> QED
        BY <4>1, <3>1, <1>2
    <3>4. IsInjective(s) => s[n] \notin first(n - 1)
      BY <3>1 DEF IsInjective
    <3>5. CASE s[n] \in gone
      <4>1. f[n] = f[n - 1]
        BY <1>3, <3>1, <3>5, <2>2
      <4>2. Good(n)
        BY <3>2, <3>3, <3>5, <4>1
      <4> QED
        BY <4>2
    <3>6. CASE s[n] \notin gone
      <4>1. f[n] = Append(f[n - 1], s[n])
        BY <1>3, <3>1, <3>6, <2>2
      <4> DEFINE p == f[n - 1]
      <4>2. p \in Seq(Tokens) /\ ToSet(p) = first(n - 1) \ gone
            /\ (IsInjective(s) => IsInjective(p))
        BY <3>2
      <4> HIDE DEF p, first
      <4>3. /\ Append(p, s[n]) \in Seq(Tokens)
            /\ DOMAIN Append(p, s[n]) = 1..(Len(p) + 1)
            /\ \A i \in 1..Len(p) : Append(p, s[n])[i] = p[i]
            /\ Append(p, s[n])[Len(p) + 1] = s[n]
        BY <3>3, <4>2
      <4>4. ToSet(Append(p, s[n])) = ToSet(p) \cup {s[n]}
        BY <4>2, <4>3 DEF ToSet
      <4>5. IsInjective(p) /\ s[n] \notin ToSet(p) => IsInjective(Append(p, s[n]))
        BY <4>2, <4>3 DEF ToSet, IsInjective
      <4>6. Good(n)
        BY <3>3, <3>4, <3>6, <4>1, <4>2, <4>3, <4>4, <4>5 DEF p
      <4> QED
        BY <4>6
    <3> QED
      BY <3>5, <3>6
  <2> QED
    BY <2>1, <2>2
<1>5. Bad = {}
  <2> HIDE DEF Good
  <2>1. Bad \subseteq Nat
    BY <1>2
  <2> HIDE DEF Bad
  <2> QED
    BY <1>4, <2>1, SmallestOf
<1>6. Good(Len(s))
  <2> HIDE DEF Good
  <2> QED
    BY <1>2, <1>5
<1>7. first(Len(s)) = ToSet(s)
  BY <1>2 DEF ToSet
<1> QED
  BY <1>1, <1>6, <1>7

-----------------------------------------------------------------------------
(* Types, and what a restart loads.                                        *)

\* A listing of a set of keys has each of them once.
LEMMA ListingOfSet ==
  ASSUME NEW S \in SUBSET Tokens
  PROVE  /\ SetToSeq(S) \in Seq(Tokens)
         /\ IsInjective(SetToSeq(S))
         /\ ToSet(SetToSeq(S)) = S
<1>1. IsFiniteSet(S) /\ Cardinality(S) \in Nat
  BY KeyAssumption, FS_Subset, FS_CardinalityType
<1> DEFINE n == Cardinality(S)
<1>2. \E f \in [1..n -> S] : IsInjective(f)
  BY <1>1, FS_CardinalityType DEF ExistsBijection, Bijection, Injection
<1> DEFINE f == SetToSeq(S)
<1>3. f \in [1..n -> S] /\ IsInjective(f)
  BY <1>2 DEF SetToSeq
<1>4. IsFiniteSet(1..n) /\ Cardinality(1..n) = n
  BY <1>1, FS_Interval
<1> HIDE DEF f
<1>5. f \in Injection(1..n, S)
  BY <1>3 DEF Injection
<1>6. f \in Surjection(1..n, S)
  BY <1>1, <1>4, <1>5, FS_Injection
<1>7. f \in Seq(Tokens) /\ DOMAIN f = 1..n
  BY <1>1, <1>3
<1>8. ToSet(f) = S
  BY <1>3, <1>6, <1>7 DEF ToSet, Surjection
<1> QED
  BY <1>3, <1>7, <1>8 DEF f

\* The keys of a new process: those of the environment and of the file.
LEMMA BootKeysAre ==
  ASSUME NEW listed \in SUBSET EnvTokens, NEW saved \in Seq(Tokens), IsInjective(saved)
  PROVE  /\ BootKeys(listed, saved) \in Seq(Tokens)
         /\ IsInjective(BootKeys(listed, saved))
         /\ ToSet(BootKeys(listed, saved)) = listed \cup ToSet(saved)
<1> DEFINE p == SetToSeq(listed)
           q == Without(saved, listed)
<1>1. p \in Seq(Tokens) /\ IsInjective(p) /\ ToSet(p) = listed
  BY KeyAssumption, ListingOfSet
<1>2. q \in Seq(Tokens) /\ IsInjective(q) /\ ToSet(q) = ToSet(saved) \ listed
  BY WithoutKeeps
<1> HIDE DEF p, q
<1>3. /\ p \o q \in Seq(Tokens) /\ Len(p \o q) = Len(p) + Len(q)
      /\ Len(p) \in Nat /\ Len(q) \in Nat
      /\ \A i \in 1..(Len(p) + Len(q)) :
           (p \o q)[i] = IF i <= Len(p) THEN p[i] ELSE q[i - Len(p)]
  BY <1>1, <1>2
<1>4. ToSet(p \o q) = listed \cup ToSet(saved)
  <2>1. \A i \in 1..Len(p) : i \in 1..(Len(p) + Len(q)) /\ (p \o q)[i] = p[i]
    BY <1>3
  <2>2. \A i \in 1..Len(q) :
          Len(p) + i \in 1..(Len(p) + Len(q)) /\ (p \o q)[Len(p) + i] = q[i]
    BY <1>3
  <2>3. \A i \in 1..(Len(p) + Len(q)) : (p \o q)[i] \in ToSet(p) \cup ToSet(q)
    BY <1>1, <1>2, <1>3 DEF ToSet
  <2>4. /\ DOMAIN p = 1..Len(p) /\ DOMAIN q = 1..Len(q)
        /\ DOMAIN (p \o q) = 1..(Len(p) + Len(q))
    BY <1>1, <1>2, <1>3
  <2>5. ToSet(p \o q) \subseteq ToSet(p) \cup ToSet(q)
    BY <2>3, <2>4 DEF ToSet
  <2>6. ToSet(p) \subseteq ToSet(p \o q)
    BY <2>1, <2>4 DEF ToSet
  <2>7. ToSet(q) \subseteq ToSet(p \o q)
    BY <2>2, <2>4 DEF ToSet
  <2> QED
    BY <1>1, <1>2, <2>5, <2>6, <2>7
<1>5. IsInjective(p \o q)
  <2> SUFFICES ASSUME NEW i \in 1..(Len(p) + Len(q)), NEW j \in 1..(Len(p) + Len(q)),
                      (p \o q)[i] = (p \o q)[j]
               PROVE  i = j
    BY <1>3 DEF IsInjective
  <2>1. \A k \in 1..Len(p) : p[k] \in listed
    BY <1>1 DEF ToSet
  <2>2. \A k \in 1..Len(q) : q[k] \notin listed
    BY <1>2 DEF ToSet
  <2>3. /\ \A k, l \in 1..Len(p) : p[k] = p[l] => k = l
        /\ \A k, l \in 1..Len(q) : q[k] = q[l] => k = l
    BY <1>1, <1>2 DEF IsInjective
  <2> QED
    BY <1>3, <2>1, <2>2, <2>3
<1> QED
  BY <1>3, <1>4, <1>5 DEF BootKeys, p, q

\* Only keys of the pool are locked out.
LockedArePooled ==
    \A i \in DOMAIN pools : pools[i].locked \subseteq ToSet(pools[i].keys)

\* The inductive invariant: besides the types, only keys of a pool are locked
\* out in it, no key is in the file twice, requests and calls that are under way have a pool, and the file holds, with
\* the environment, the keys of the only pool, or nothing when there is none.
IInv ==
    /\ TypeOK
    /\ LockedArePooled
    /\ IsInjective(disk)
    /\ \A a \in Admins : admin[a].pc = "found" => admin[a].pool \in 1..Len(pools)
    /\ \A c \in Callers : holding[c] # NoToken => pools # <<>>
    /\ pools = <<>> => env = {} /\ ToSet(disk) = {}
    /\ Len(pools) = 1 => env \cup ToSet(disk) = env \cup ToSet(pools[1].keys)

\* What the lists of a pool look like.
WellFormed(p) ==
    /\ p \in Pool
    /\ IsInjective(p.keys)
    /\ p.locked \subseteq ToSet(p.keys)

\* Every pool looks like that.
LEMMA PoolsWellFormed ==
  ASSUME IInv, NEW i \in 1..Len(pools)
  PROVE  WellFormed(pools[i])
  BY DEF IInv, TypeOK, LockedArePooled, WellFormed

\* A process that has just started, and the very first state.
LEMMA Booted ==
  ASSUME NEW listed \in SUBSET EnvTokens, disk \in Seq(Tokens), IsInjective(disk)
  PROVE  LET ps == BootPools(listed, disk) IN
         /\ ps \in Seq(Pool) /\ Len(ps) <= 1
         /\ \A i \in 1..Len(ps) : WellFormed(ps[i])
         /\ ps = <<>> => listed = {} /\ ToSet(disk) = {}
         /\ Len(ps) = 1 => listed \cup ToSet(disk) = listed \cup ToSet(ps[1].keys)
<1> DEFINE ks == BootKeys(listed, disk)
<1>1. ks \in Seq(Tokens) /\ IsInjective(ks) /\ ToSet(ks) = listed \cup ToSet(disk)
  BY BootKeysAre
<1> HIDE DEF ks
<1>2. CASE ks = <<>>
  <2>1. ToSet(ks) = {}
    BY <1>2 DEF ToSet
  <2>2. BootPools(listed, disk) = <<>>
    BY <1>2 DEF BootPools, ks
  <2> QED
    BY <1>1, <2>1, <2>2
<1>3. CASE ks # <<>>
  <2>1. BootPools(listed, disk) = <<NewPool(ks)>>
    BY <1>3 DEF BootPools, ks
  <2>2. WellFormed(NewPool(ks)) /\ NewPool(ks).keys = ks
    BY <1>1, KeyAssumption DEF WellFormed, NewPool, Pool
  <2> QED
    BY <1>1, <2>1, <2>2 DEF WellFormed
<1> QED
  BY <1>2, <1>3

\* Initially the pool is what the environment and the file give.
LEMMA InitIInv == Init => IInv
<1> SUFFICES ASSUME Init PROVE IInv
  OBVIOUS
<1>1. disk \in Seq(Tokens) /\ IsInjective(disk)
  <2>1. CASE disk = <<>>
    BY <2>1 DEF IsInjective
  <2>2. CASE \E t \in Tokens : disk = <<t>>
    <3>1. PICK t \in Tokens : disk = <<t>>
      BY <2>2
    <3>2. disk \in Seq(Tokens) /\ DOMAIN disk = {1}
      BY <3>1
    <3> QED
      BY <3>2 DEF IsInjective
  <2> QED
    BY <2>1, <2>2 DEF Init
<1>2. env \in SUBSET EnvTokens /\ pools = BootPools(env, disk)
  BY DEF Init
<1> QED
  BY <1>1, <1>2, Booted DEF Init, IInv, TypeOK, LockedArePooled, Idle, WellFormed

\* Replacing the keys of a pool and writing the file.
LEMMA KeysSet ==
  ASSUME IInv, NEW a \in Admins, admin[a].pc = "found",
         NEW keys \in Seq(Tokens), IsInjective(keys), SetKeys(a, keys),
         admin' = [admin EXCEPT ![a] = Idle], UNCHANGED <<env, holding>>
  PROVE  IInv'
<1> DEFINE i == admin[a].pool
<1>1. i \in 1..Len(pools) /\ pools \in Seq(Pool) /\ WellFormed(pools[i])
  BY PoolsWellFormed DEF IInv, TypeOK
<1> DEFINE p == [pools[i] EXCEPT !.keys = keys, !.locked = @ \cap ToSet(keys)]
<1>2. pools' = [pools EXCEPT ![i] = p] /\ disk' = Without(keys, env)
  BY <1>1 DEF SetKeys, Saved
<1> HIDE DEF i
<1>3. WellFormed(p) /\ p.keys = keys
  <2>1. pools[i] \in [keys : Seq(Tokens), locked : SUBSET Tokens, idx : 0..(Period - 1)]
    BY <1>1 DEF WellFormed, Pool
  <2> QED
    BY <1>1, <2>1 DEF WellFormed, Pool
<1> HIDE DEF p
<1>4. pools' \in Seq(Pool) /\ Len(pools') = Len(pools) /\ pools'[i] = p
      /\ \A j \in 1..Len(pools) : j # i => pools'[j] = pools[j]
  <2>1. p \in Pool
    BY <1>3 DEF WellFormed
  <2> QED
    BY <1>1, <1>2, <2>1
<1>5. /\ disk' \in Seq(Tokens) /\ IsInjective(disk')
      /\ ToSet(disk') = ToSet(keys) \ env
  BY <1>2, WithoutKeeps
<1>6. \A j \in 1..Len(pools') : WellFormed(pools'[j])
  BY <1>3, <1>4, PoolsWellFormed
<1>7. TypeOK' /\ LockedArePooled'
  <2>1. admin' \in [Admins -> [pc : {"idle", "missing", "found"}, pool : 0..Len(pools')]]
    BY <1>4 DEF IInv, TypeOK, Idle
  <2>2. DOMAIN pools' = 1..Len(pools')
    BY <1>4
  <2> QED
    BY <1>4, <1>5, <1>6, <2>1, <2>2 DEF IInv, TypeOK, LockedArePooled, WellFormed
<1>8. pools' # <<>> /\ pools # <<>>
  BY <1>1, <1>4
<1>9. Len(pools') = 1 => env \cup ToSet(disk') = env \cup ToSet(pools'[1].keys)
  BY <1>1, <1>3, <1>4, <1>5
<1>10. \A b \in Admins : admin'[b].pc = "found" => admin'[b].pool \in 1..Len(pools')
  BY <1>4 DEF IInv, TypeOK, Idle
<1> QED
  BY <1>5, <1>7, <1>8, <1>9, <1>10 DEF IInv

\* A change of the lock-outs or of the counter of one pool.
LEMMA PoolTouched ==
  ASSUME IInv, NEW i \in 1..Len(pools), NEW p, WellFormed(p), p.keys = pools[i].keys,
         pools' = [pools EXCEPT ![i] = p], UNCHANGED <<env, disk, admin>>,
         holding' \in [Callers -> Tokens \cup {NoToken}]
  PROVE  IInv'
<1>1. pools \in Seq(Pool) /\ p \in Pool
  BY DEF IInv, TypeOK, WellFormed
<1>2. pools' \in Seq(Pool) /\ Len(pools') = Len(pools) /\ pools'[i] = p
      /\ \A j \in 1..Len(pools) : j # i => pools'[j] = pools[j]
  BY <1>1
<1>3. \A j \in 1..Len(pools') : WellFormed(pools'[j])
  BY <1>2, PoolsWellFormed
<1>4. TypeOK' /\ LockedArePooled'
  BY <1>2, <1>3 DEF IInv, TypeOK, LockedArePooled, WellFormed
<1>5. pools # <<>> /\ pools' # <<>> /\ (Len(pools) = 1 => i = 1)
  BY <1>1, <1>2
<1> QED
  BY <1>2, <1>4, <1>5 DEF IInv

\* How often the counter moves is a natural number between one and one more
\* than there are keys; if any key is free, a free key is reached.
LEMMA StepsAre ==
  ASSUME NEW p, WellFormed(p), p.keys # <<>>
  PROVE  /\ Steps(p) \in 1..(Len(p.keys) + 1)
         /\ KeyAt(p, Steps(p)) \in ToSet(p.keys)
         /\ \A i \in 1..Len(p.keys) : KeyAt(p, i) \notin p.locked =>
               KeyAt(p, Steps(p)) \notin p.locked /\ Steps(p) <= i
<1> DEFINE m == Len(p.keys)
           free == {i \in 1..m : KeyAt(p, i) \notin p.locked}
<1>1. m \in Nat \ {0} /\ p.idx \in Nat /\ p.keys \in Seq(Tokens)
  BY KeyAssumption DEF WellFormed, Pool
<1>2. \A i \in Nat : KeyAt(p, i) \in ToSet(p.keys)
  <2> SUFFICES ASSUME NEW i \in Nat PROVE KeyAt(p, i) \in ToSet(p.keys)
    OBVIOUS
  <2>1. p.idx + i \in Nat
    BY <1>1
  <2>2. (p.idx + i) % m \in 0..(m - 1)
    BY <1>1, <2>1, Division
  <2>3. ((p.idx + i) % m) + 1 \in 1..m
    BY <1>1, <2>2
  <2> QED
    BY <1>1, <2>3 DEF KeyAt, ToSet
<1>3. Steps(p) = IF free = {} THEN m + 1 ELSE Min(free)
  BY DEF Steps
<1>4. free # {} => Min(free) \in free /\ \A i \in free : Min(free) <= i
  <2>1. free \subseteq Nat
    BY <1>1
  <2> HIDE DEF free
  <2> QED
    BY <2>1, SmallestOf DEF Min
<1>5. Steps(p) \in 1..(m + 1)
  BY <1>1, <1>3, <1>4
<1>6. ASSUME NEW i \in 1..m, KeyAt(p, i) \notin p.locked
      PROVE  KeyAt(p, Steps(p)) \notin p.locked /\ Steps(p) <= i
  <2>1. i \in free
    BY <1>6
  <2>2. Steps(p) = Min(free) /\ Min(free) \in free /\ Min(free) <= i
    BY <1>3, <1>4, <2>1
  <2> QED
    BY <2>2
<1>7. KeyAt(p, Steps(p)) \in ToSet(p.keys)
  BY <1>1, <1>2, <1>5
<1> QED
  BY <1>5, <1>6, <1>7

\* The keys that the counter passes in as many steps as there are keys are all.
LEMMA AllPassed ==
  ASSUME NEW p, WellFormed(p), NEW t \in ToSet(p.keys)
  PROVE  \E i \in 1..Len(p.keys) : KeyAt(p, i) = t
<1>1. p.idx \in Nat /\ p.keys \in Seq(Tokens)
  BY KeyAssumption DEF WellFormed, Pool
<1>2. PICK j \in 1..Len(p.keys) : p.keys[j] = t
  BY <1>1 DEF ToSet
<1>3. Len(p.keys) \in Nat \ {0} /\ j - 1 \in 0..(Len(p.keys) - 1) /\ (j - 1) + 1 = j
  BY <1>1, <1>2
<1>4. PICK i \in 1..Len(p.keys) : (p.idx + i) % Len(p.keys) = j - 1
  BY <1>1, <1>3, EveryPlaceReached
<1> QED
  BY <1>2, <1>3, <1>4 DEF KeyAt

-----------------------------------------------------------------------------
(* The steps.                                                              *)

\* A pick has a well-formed first pool and moves only its counter.
LEMMA PickMoves ==
  ASSUME IInv, NEW c \in Callers, Pick(c)
  PROVE  /\ 1 \in 1..Len(pools) /\ WellFormed(pools[1]) /\ pools[1].keys # <<>>
         /\ pools' = [pools EXCEPT ![1] = [pools[1] EXCEPT !.idx = (@ + Steps(pools[1])) % Period]]
         /\ WellFormed(pools'[1]) /\ pools'[1].keys = pools[1].keys
         /\ pools'[1].idx = (pools[1].idx + Steps(pools[1])) % Period
         /\ holding' = [holding EXCEPT ![c] = KeyAt(pools[1], Steps(pools[1]))]
         /\ Steps(pools[1]) \in 1..(Len(pools[1].keys) + 1)
         /\ KeyAt(pools[1], Steps(pools[1])) \in Tokens
<1>1. pools \in Seq(Pool) /\ 1 \in 1..Len(pools) /\ WellFormed(pools[1])
  <2>1. pools \in Seq(Pool) /\ pools # <<>>
    BY DEF IInv, TypeOK, Pick
  <2>2. 1 \in 1..Len(pools)
    BY <2>1
  <2> QED
    BY <2>1, <2>2, PoolsWellFormed
<1> DEFINE p == pools[1]
           n == Steps(p)
           q == [p EXCEPT !.idx = (@ + n) % Period]
<1>2. /\ p.keys # <<>> /\ pools' = [pools EXCEPT ![1] = q]
      /\ holding' = [holding EXCEPT ![c] = KeyAt(p, n)]
  BY DEF Pick
<1>3. n \in 1..(Len(p.keys) + 1) /\ KeyAt(p, n) \in ToSet(p.keys)
  BY <1>1, <1>2, StepsAre
<1> HIDE DEF n
<1>4. p.idx \in Nat /\ p.keys \in Seq(Tokens) /\ n \in Nat /\ Period \in Nat \ {0}
  BY <1>1, <1>3, KeyAssumption DEF WellFormed, Pool
<1>5. (p.idx + n) % Period \in 0..(Period - 1)
  <2>1. p.idx + n \in Nat
    BY <1>4
  <2> QED
    BY <1>4, <2>1, Division
<1>6. WellFormed(q) /\ q.keys = p.keys /\ q.idx = (p.idx + n) % Period
  <2>1. p \in [keys : Seq(Tokens), locked : SUBSET Tokens, idx : 0..(Period - 1)]
    BY <1>1 DEF WellFormed, Pool
  <2> QED
    BY <1>1, <1>5, <2>1 DEF WellFormed, Pool
<1>7. KeyAt(p, n) \in Tokens
  BY <1>3, <1>4 DEF ToSet
<1> HIDE DEF q
<1>8. pools'[1] = q
  BY <1>1, <1>2
<1> QED
  BY <1>1, <1>2, <1>3, <1>6, <1>7, <1>8 DEF n, q

\* Steps of a call keep the invariant.
LEMMA CallKeeps ==
  ASSUME IInv, NEW c \in Callers, Call(c)
  PROVE  IInv'
<1>0. pools \in Seq(Pool) /\ holding \in [Callers -> Tokens \cup {NoToken}]
  BY DEF IInv, TypeOK
<1>1. CASE Pick(c)
  <2> DEFINE q == [pools[1] EXCEPT !.idx = (@ + Steps(pools[1])) % Period]
  <2>1. /\ 1 \in 1..Len(pools) /\ pools' = [pools EXCEPT ![1] = q]
        /\ WellFormed(pools'[1]) /\ pools'[1].keys = pools[1].keys
        /\ holding' \in [Callers -> Tokens \cup {NoToken}]
    BY <1>0, <1>1, PickMoves
  <2> HIDE DEF q
  <2>2. pools'[1] = q
    BY <1>0, <2>1
  <2>3. WellFormed(q) /\ q.keys = pools[1].keys
    BY <2>1, <2>2
  <2> QED
    BY <1>1, <2>1, <2>3, PoolTouched DEF Pick
<1>2. CASE ReportLimited(c)
  <2>1. holding' \in [Callers -> Tokens \cup {NoToken}] /\ holding[c] \in Tokens
    BY <1>0, <1>2 DEF ReportLimited
  <2>2. 1 \in 1..Len(pools)
    BY <1>0, <1>2 DEF ReportLimited, IInv
  <2>3. WellFormed(pools[1])
    BY <2>2, PoolsWellFormed
  <2>4. CASE holding[c] \in ToSet(pools[1].keys)
    <3> DEFINE q == [pools[1] EXCEPT !.locked = @ \cup {holding[c]}]
    <3>1. pools[1] \in [keys : Seq(Tokens), locked : SUBSET Tokens, idx : 0..(Period - 1)]
      BY <2>3 DEF WellFormed, Pool
    <3>2. WellFormed(q) /\ q.keys = pools[1].keys
      BY <2>1, <2>3, <2>4, <3>1 DEF WellFormed, Pool
    <3>3. pools' = [pools EXCEPT ![1] = q]
      BY <1>2, <2>4 DEF ReportLimited
    <3> HIDE DEF q
    <3> QED
      BY <1>2, <2>1, <2>2, <3>2, <3>3, PoolTouched DEF ReportLimited
  <2>5. CASE holding[c] \notin ToSet(pools[1].keys)
    BY <1>2, <2>1, <2>5 DEF ReportLimited, IInv, TypeOK, LockedArePooled
  <2> QED
    BY <2>4, <2>5
<1>3. CASE Answer(c)
  BY <1>0, <1>3 DEF Answer, IInv, TypeOK, LockedArePooled
<1> QED
  BY <1>1, <1>2, <1>3 DEF Call

\* The end of a lockout keeps the invariant.
LEMMA LockoutEndKeeps ==
  ASSUME IInv, NEW i \in DOMAIN pools, NEW t \in Tokens, LockoutEnds(i, t)
  PROVE  IInv'
<1>1. pools \in Seq(Pool) /\ i \in 1..Len(pools) /\ WellFormed(pools[i])
  <2>1. pools \in Seq(Pool)
    BY DEF IInv, TypeOK
  <2> QED
    BY <2>1, PoolsWellFormed
<1> DEFINE q == [pools[i] EXCEPT !.locked = @ \ {t}]
<1>2. pools[i] \in [keys : Seq(Tokens), locked : SUBSET Tokens, idx : 0..(Period - 1)]
  BY <1>1 DEF WellFormed, Pool
<1>3. WellFormed(q) /\ q.keys = pools[i].keys
  BY <1>1, <1>2 DEF WellFormed, Pool
<1>4. pools' = [pools EXCEPT ![i] = q]
  BY DEF LockoutEnds
<1> HIDE DEF q
<1>5. holding' \in [Callers -> Tokens \cup {NoToken}]
  BY DEF LockoutEnds, IInv, TypeOK
<1> QED
  BY <1>1, <1>3, <1>4, <1>5, PoolTouched DEF LockoutEnds

\* A new pool is empty, and is the only one only if there was nothing to load.
LEMMA CreateKeeps ==
  ASSUME IInv, NEW a \in Admins, Create(a)
  PROVE  IInv'
<1>1. pools \in Seq(Pool) /\ Len(pools) \in Nat
  BY DEF IInv, TypeOK
<1>2. WellFormed(NewPool(<<>>)) /\ NewPool(<<>>).keys = <<>>
  BY KeyAssumption DEF WellFormed, NewPool, Pool, IsInjective, ToSet
<1> DEFINE q == NewPool(<<>>)
<1> HIDE DEF q
<1>3. /\ pools' = Append(pools, q) /\ Len(pools') = Len(pools) + 1 /\ pools' \in Seq(Pool)
      /\ pools'[Len(pools) + 1] = q /\ \A j \in 1..Len(pools) : pools'[j] = pools[j]
  BY <1>1, <1>2 DEF Create, WellFormed, q
<1>4. \A j \in 1..Len(pools') : WellFormed(pools'[j])
  <2>1. \A j \in 1..Len(pools') : j = Len(pools) + 1 \/ j \in 1..Len(pools)
    BY <1>1, <1>3
  <2> QED
    BY <1>2, <1>3, <2>1, PoolsWellFormed DEF q
<1>5. admin' \in [Admins -> [pc : {"idle", "missing", "found"}, pool : 0..Len(pools')]]
      /\ \A b \in Admins : admin'[b].pc = "found" => admin'[b].pool \in 1..Len(pools')
  <2>1. admin' = [admin EXCEPT ![a] = [pc |-> "found", pool |-> Len(pools) + 1]]
    BY DEF Create
  <2> QED
    BY <1>1, <1>3, <2>1 DEF IInv, TypeOK
<1>6. TypeOK' /\ LockedArePooled'
  <2>1. DOMAIN pools' = 1..Len(pools')
    BY <1>3
  <2> QED
    BY <1>3, <1>4, <1>5, <2>1 DEF Create, IInv, TypeOK, LockedArePooled, WellFormed
<1>7. Len(pools') = 1 => env \cup ToSet(disk) = env \cup ToSet(pools'[1].keys)
  <2> SUFFICES ASSUME Len(pools') = 1 PROVE env \cup ToSet(disk) = env \cup ToSet(pools'[1].keys)
    OBVIOUS
  <2>1. pools = <<>> /\ pools'[1] = q
    BY <1>1, <1>3
  <2>2. ToSet(q.keys) = {}
    BY <1>2 DEF q, ToSet
  <2> QED
    BY <2>1, <2>2 DEF IInv
<1> QED
  BY <1>3, <1>5, <1>6, <1>7 DEF Create, IInv

\* Requests of /api/keys keep the invariant.
LEMMA AdministerKeeps ==
  ASSUME IInv, NEW a \in Admins, Administer(a)
  PROVE  IInv'
<1> DEFINE ks == pools[admin[a].pool].keys
<1>0. admin[a].pc = "found" =>
        WellFormed(pools[admin[a].pool]) /\ ks \in Seq(Tokens) /\ IsInjective(ks)
  BY PoolsWellFormed DEF IInv, WellFormed, Pool
<1>1. CASE Find(a)
  <2>1. pools \in Seq(Pool) /\ admin' \in [Admins -> [pc : {"idle", "missing", "found"}, pool : 0..Len(pools)]]
        /\ \A b \in Admins : admin'[b].pc = "found" => admin'[b].pool \in 1..Len(pools)
    <3>1. pools \in Seq(Pool) /\ (pools # <<>> => 1 \in 1..Len(pools) /\ 1 \in 0..Len(pools))
          /\ 0 \in 0..Len(pools)
      BY DEF IInv, TypeOK
    <3> QED
      BY <1>1, <3>1 DEF Find, IInv, TypeOK
  <2> QED
    BY <1>1, <2>1 DEF Find, IInv, TypeOK, LockedArePooled
<1>2. CASE Create(a)
  BY <1>2, CreateKeeps
<1>3. ASSUME NEW t \in Tokens, AddKey(a, t) PROVE IInv'
  <2>1. admin[a].pc = "found" /\ t \notin ToSet(ks) /\ SetKeys(a, Append(ks, t))
        /\ admin' = [admin EXCEPT ![a] = Idle] /\ UNCHANGED <<env, holding>>
    BY <1>3 DEF AddKey
  <2>2. ks \in Seq(Tokens) /\ IsInjective(ks)
    BY <1>0, <2>1
  <2> HIDE DEF ks
  <2>3. /\ Append(ks, t) \in Seq(Tokens) /\ DOMAIN Append(ks, t) = 1..(Len(ks) + 1)
        /\ DOMAIN ks = 1..Len(ks) /\ Len(ks) \in Nat
        /\ \A i \in 1..Len(ks) : Append(ks, t)[i] = ks[i]
        /\ Append(ks, t)[Len(ks) + 1] = t
    BY <2>2
  <2>4. IsInjective(Append(ks, t))
    BY <2>1, <2>2, <2>3 DEF ToSet, IsInjective
  <2> QED
    BY <2>1, <2>3, <2>4, KeysSet
<1>4. ASSUME NEW name \in Tokens \cup Masks, DeleteKey(a, name) PROVE IInv'
  <2> DEFINE gone == {t \in Tokens : t = name \/ Mask[t] = name}
  <2>1. admin[a].pc = "found" /\ SetKeys(a, Without(ks, gone))
        /\ admin' = [admin EXCEPT ![a] = Idle] /\ UNCHANGED <<env, holding>>
    BY <1>4 DEF DeleteKey
  <2> HIDE DEF gone, ks
  <2>2. Without(ks, gone) \in Seq(Tokens) /\ IsInjective(Without(ks, gone))
    BY <1>0, <2>1, WithoutKeeps
  <2> QED
    BY <2>1, <2>2, KeysSet
<1>5. CASE NoChange(a)
  BY <1>5 DEF NoChange, Idle, IInv, TypeOK, LockedArePooled
<1> QED
  BY <1>1, <1>2, <1>3, <1>4, <1>5 DEF Administer

\* A restart loads what was saved.
LEMMA RestartKeeps ==
  ASSUME IInv, Restart
  PROVE  IInv'
<1>1. /\ env' \in SUBSET EnvTokens /\ pools' = BootPools(env', disk) /\ disk' = disk
      /\ disk \in Seq(Tokens) /\ IsInjective(disk)
  BY DEF Restart, IInv, TypeOK
<1>2. /\ pools' \in Seq(Pool)
      /\ \A i \in 1..Len(pools') : WellFormed(pools'[i])
      /\ pools' = <<>> => env' = {} /\ ToSet(disk) = {}
      /\ Len(pools') = 1 => env' \cup ToSet(disk) = env' \cup ToSet(pools'[1].keys)
  BY <1>1, Booted
<1>3. DOMAIN pools' = 1..Len(pools') /\ 0 \in 0..Len(pools')
  BY <1>2
<1> QED
  BY <1>1, <1>2, <1>3 DEF Restart, IInv, TypeOK, LockedArePooled, Idle, WellFormed

\* Every step of the module preserves the invariant.
LEMMA NextKeeps == IInv /\ [Next]_vars => IInv'
<1> SUFFICES ASSUME IInv, [Next]_vars PROVE IInv'
  OBVIOUS
<1>1. CASE UNCHANGED vars
  BY <1>1 DEF vars, IInv, TypeOK, LockedArePooled
<1> QED
  BY <1>1, CallKeeps, LockoutEndKeeps, AdministerKeeps, RestartKeeps DEF Next

\* Pools, file, requests and calls keep their types, and no pool holds a key
\* twice, for any keys, requests and calls (api.go:213-220 refuses duplicates).
THEOREM TypeCorrect == Spec => []TypeOK
<1>1. IInv => TypeOK
  BY DEF IInv
<1> QED
  BY <1>1, InitIInv, NextKeeps, PTL DEF Spec

\* keys.json and RD_API_KEY always give a restart the keys of the only pool,
\* however additions, deletions and restarts are mixed (api.go:239-250 and
\* 281-287).
THEOREM RestartsKeepKeys == Spec => []RestartKeepsKeys
<1>1. IInv => RestartKeepsKeys
  <2> SUFFICES ASSUME IInv, Len(pools) = 1
               PROVE  ToSet(BootKeys(env, disk)) = ToSet(pools[1].keys) \cup env
    BY DEF RestartKeepsKeys
  <2>1. env \in SUBSET EnvTokens /\ disk \in Seq(Tokens) /\ IsInjective(disk)
    BY DEF IInv, TypeOK
  <2>2. ToSet(BootKeys(env, disk)) = env \cup ToSet(disk)
    BY <2>1, BootKeysAre
  <2> QED
    BY <2>2 DEF IInv
<1> QED
  BY <1>1, InitIInv, NextKeeps, PTL DEF Spec

-----------------------------------------------------------------------------
(* What is locked out.                                                     *)

\* A pool after a step: it is new or starts again, with nothing locked out, or
\* it keeps its keys, or no key of it is newly locked out.
LEMMA LockoutsAfterwards ==
  ASSUME IInv, [Next]_vars, NEW i \in DOMAIN pools'
  PROVE  \/ pools'[i].locked = {}
         \/ /\ i \in DOMAIN pools
            /\ \/ pools'[i].keys = pools[i].keys
               \/ pools'[i].locked \subseteq pools[i].locked
<1>1. pools \in Seq(Pool) /\ pools \in Seq([keys : Seq(Tokens), locked : SUBSET Tokens, idx : 0..(Period - 1)])
  BY DEF IInv, TypeOK, Pool
<1>2. ASSUME NEW c \in Callers, Call(c) PROVE i \in DOMAIN pools /\ pools'[i].keys = pools[i].keys
  <2>1. CASE Pick(c)
    <3>1. 1 \in 1..Len(pools) /\ pools'[1].keys = pools[1].keys
      BY <2>1, PickMoves
    <3>2. DOMAIN pools' = DOMAIN pools /\ (i # 1 => pools'[i] = pools[i])
      BY <1>1, <2>1 DEF Pick
    <3> QED
      BY <3>1, <3>2
  <2>2. CASE ReportLimited(c)
    BY <1>1, <2>2 DEF ReportLimited
  <2>3. CASE Answer(c)
    BY <2>3 DEF Answer
  <2> QED
    BY <1>2, <2>1, <2>2, <2>3 DEF Call
<1>3. ASSUME NEW j \in DOMAIN pools, NEW t \in Tokens, LockoutEnds(j, t)
      PROVE  i \in DOMAIN pools /\ pools'[i].keys = pools[i].keys
  BY <1>1, <1>3 DEF LockoutEnds
<1>4. ASSUME NEW a \in Admins, NEW keys, SetKeys(a, keys)
      PROVE  i \in DOMAIN pools /\ pools'[i].locked \subseteq pools[i].locked
  BY <1>1, <1>4 DEF SetKeys
<1>5. ASSUME NEW a \in Admins, Create(a)
      PROVE  pools'[i].locked = {} \/ (i \in DOMAIN pools /\ pools'[i] = pools[i])
  BY <1>1, <1>5 DEF Create, NewPool
<1>6. CASE \E a \in Admins : Administer(a)
  BY <1>4, <1>5, <1>6 DEF Administer, Find, AddKey, DeleteKey, NoChange
<1>7. CASE Restart
  BY <1>7 DEF Restart, BootPools, NewPool
<1>8. CASE UNCHANGED vars
  BY <1>8 DEF vars
<1> QED
  BY <1>2, <1>3, <1>6, <1>7, <1>8 DEF Next

\* A key enters a pool without a lockout, whatever was reported about it while
\* it was in the pool before, or after it was deleted, for any numbers of keys,
\* calls and requests (api.go:222, debrid.go:191-207).
THEOREM AddedKeysStartFree == Spec => AddedKeysAreFree
<1>1. ASSUME IInv, [Next]_vars, NEW i \in DOMAIN pools', NEW t \in ToSet(pools'[i].keys),
             i \notin DOMAIN pools \/ t \notin ToSet(pools[i].keys)
      PROVE  t \notin pools'[i].locked
  <2>1. i \in DOMAIN pools => t \notin pools[i].locked
    BY <1>1 DEF IInv, LockedArePooled
  <2> QED
    BY <1>1, <2>1, LockoutsAfterwards
<1>2. IInv /\ [Next]_vars =>
        [\A i \in DOMAIN pools' : \A t \in ToSet(pools'[i].keys) :
           i \notin DOMAIN pools \/ t \notin ToSet(pools[i].keys)
           => t \notin pools'[i].locked]_vars
  BY <1>1
<1> QED
  BY <1>2, InitIInv, NextKeeps, PTL DEF Spec, AddedKeysAreFree

-----------------------------------------------------------------------------
(* The round robin.                                                        *)

\* Only a pick gives a call a key.
LEMMA OnlyPickGives ==
  ASSUME IInv, [Next]_vars, NEW c \in Callers, Picked(c)
  PROVE  Pick(c)
<1>1. holding \in [Callers -> Tokens \cup {NoToken}]
  BY DEF IInv, TypeOK
<1>2. ASSUME NEW d \in Callers, Call(d) PROVE Pick(c)
  BY <1>1, <1>2 DEF Call, Pick, ReportLimited, Answer, Picked
<1>3. ASSUME NEW i \in DOMAIN pools, NEW t \in Tokens, LockoutEnds(i, t) PROVE FALSE
  BY <1>3 DEF LockoutEnds, Picked
<1>4. ASSUME NEW a \in Admins, Administer(a) PROVE FALSE
  BY <1>4 DEF Administer, Find, Create, AddKey, DeleteKey, NoChange, Picked
<1>5. CASE Restart
  BY <1>5 DEF Restart, Picked
<1>6. CASE UNCHANGED vars
  BY <1>6 DEF vars, Picked
<1> QED
  BY <1>2, <1>3, <1>4, <1>5, <1>6 DEF Next

\* A key that is locked out is picked only when all are, for any number of
\* keys and whatever was added, deleted or locked before (debrid.go:178-188).
THEOREM LockedPickedLast == Spec => LockedKeysAreLastResort
<1>1. ASSUME IInv, [Next]_vars, NEW c \in Callers, Picked(c),
             holding'[c] \in pools[1].locked
      PROVE  ToSet(pools[1].keys) \subseteq pools[1].locked
  <2>1. Pick(c)
    BY <1>1, OnlyPickGives
  <2>2. /\ WellFormed(pools[1]) /\ pools[1].keys # <<>>
        /\ holding'[c] = KeyAt(pools[1], Steps(pools[1]))
    BY <1>1, <2>1, PickMoves DEF IInv, TypeOK
  <2>3. \A i \in 1..Len(pools[1].keys) : KeyAt(pools[1], i) \in pools[1].locked
    BY <1>1, <2>2, StepsAre
  <2> QED
    BY <2>2, <2>3, AllPassed
<1>2. IInv /\ [Next]_vars =>
        [\A c \in Callers :
           Picked(c) /\ holding'[c] \in pools[1].locked
           => ToSet(pools[1].keys) \subseteq pools[1].locked]_vars
  BY <1>1
<1> QED
  BY <1>2, InitIInv, NextKeeps, PTL DEF Spec, LockedKeysAreLastResort

\* How far the key t is: the least number of steps that lead to it.
LEMMA DistanceIs ==
  ASSUME NEW p, WellFormed(p), NEW t \in ToSet(p.keys)
  PROVE  /\ Distance(p, t) \in 1..Len(p.keys) /\ KeyAt(p, Distance(p, t)) = t
         /\ \A i \in 1..Len(p.keys) : KeyAt(p, i) = t => Distance(p, t) <= i
<1> DEFINE at == {i \in 1..Len(p.keys) : KeyAt(p, i) = t}
<1>1. at \subseteq Nat /\ at # {}
  BY AllPassed
<1>2. Min(at) \in at /\ \A i \in at : Min(at) <= i
  <2> HIDE DEF at
  <2> QED
    BY <1>1, SmallestOf DEF Min
<1> QED
  BY <1>2 DEF Distance

\* A counter moved by n steps sees every key n steps earlier.
LEMMA MovedCounter ==
  ASSUME NEW p, WellFormed(p), NEW q, q.keys = p.keys, NEW n \in Nat, NEW i \in Nat,
         p.keys # <<>>, Len(p.keys) <= Cardinality(Tokens),
         q.idx = (p.idx + n) % Period
  PROVE  KeyAt(q, i) = KeyAt(p, n + i)
<1> DEFINE m == Len(p.keys)
<1>1. m \in Nat \ {0} /\ p.idx \in Nat
  BY KeyAssumption DEF WellFormed, Pool
<1>2. Period \in Nat \ {0} /\ Period % m = 0
  <2>1. Cardinality(Tokens) \in Nat
    BY KeyAssumption, FS_CardinalityType
  <2>2. m \in 1..Cardinality(Tokens)
    BY <1>1, <2>1
  <2> QED
    BY <2>2, KeyAssumption
<1> HIDE DEF m
<1> DEFINE a == p.idx + n
<1>3. a \in Nat /\ a + i = p.idx + (n + i)
  BY <1>1
<1> HIDE DEF a
<1>4. a % Period \in Nat
  <2>1. a % Period \in 0..(Period - 1)
    BY <1>2, <1>3, Division
  <2> QED
    BY <2>1, <1>2
<1>5. ((a % Period) + i) % m = (((a % Period) % m) + i) % m
  BY <1>1, <1>4, RemainderOfSum
<1>6. (a % Period) % m = a % m
  BY <1>1, <1>2, <1>3, RemainderByDivisor
<1>7. (a + i) % m = ((a % m) + i) % m
  BY <1>1, <1>3, RemainderOfSum
<1>8. (q.idx + i) % m = (p.idx + (n + i)) % m
  BY <1>3, <1>5, <1>6, <1>7 DEF a
<1> QED
  BY <1>8 DEF KeyAt, m

\* An injective sequence of keys is no longer than there are keys.
LEMMA PoolsAreSmall ==
  ASSUME NEW p, WellFormed(p)
  PROVE  Len(p.keys) <= Cardinality(Tokens)
<1>1. p.keys \in Seq(Tokens) /\ IsInjective(p.keys) /\ Len(p.keys) \in Nat
  BY DEF WellFormed, Pool
<1>2. p.keys \in Injection(1..Len(p.keys), Tokens)
  BY <1>1 DEF Injection
<1>3. Cardinality(1..Len(p.keys)) <= Cardinality(Tokens)
  BY <1>2, KeyAssumption, FS_Injection
<1>4. Cardinality(1..Len(p.keys)) = Len(p.keys)
  BY <1>1, FS_Interval
<1> QED
  BY <1>3, <1>4

\* Every pick brings each free key it does not take closer to its turn, for any
\* number of keys (docs/troubleshooting.md:10, debrid.go:171-189).
THEOREM FreeKeysComeCloser == Spec => EveryFreeKeyComesCloser
<1>1. ASSUME IInv, [Next]_vars, NEW c \in Callers, Picked(c),
             NEW t \in ToSet(pools[1].keys) \ pools[1].locked, t # holding'[c]
      PROVE  Distance(pools'[1], t) < Distance(pools[1], t)
  <2> DEFINE p == pools[1]
             q == pools'[1]
             n == Steps(p)
             d == Distance(p, t)
  <2>1. Pick(c)
    BY <1>1, OnlyPickGives
  <2>2. /\ WellFormed(p) /\ p.keys # <<>> /\ WellFormed(q) /\ q.keys = p.keys
        /\ q.idx = (p.idx + n) % Period /\ n \in 1..(Len(p.keys) + 1)
        /\ holding'[c] = KeyAt(p, n)
    BY <1>1, <2>1, PickMoves DEF IInv, TypeOK
  <2>3. d \in 1..Len(p.keys) /\ KeyAt(p, d) = t
    BY <1>1, <2>2, DistanceIs
  <2>4. n <= d /\ n # d
    BY <1>1, <2>2, <2>3, StepsAre
  <2> HIDE DEF p, q, n, d
  <2>5. Len(p.keys) \in Nat
    BY <2>2 DEF WellFormed, Pool
  <2>6. d - n \in 1..Len(p.keys) /\ n \in Nat /\ d - n \in Nat /\ n + (d - n) = d /\ d - n < d
    BY <2>2, <2>3, <2>4, <2>5
  <2>7. KeyAt(q, d - n) = KeyAt(p, n + (d - n))
    BY <2>2, <2>6, PoolsAreSmall, MovedCounter
  <2>8. KeyAt(q, d - n) = t
    BY <2>3, <2>6, <2>7
  <2>9. Distance(q, t) \in 1..Len(p.keys) /\ Distance(q, t) <= d - n
    BY <1>1, <2>2, <2>6, <2>8, DistanceIs DEF p
  <2> QED
    BY <2>3, <2>5, <2>6, <2>9 DEF p, q, d
<1>2. IInv /\ [Next]_vars =>
        [\A c \in Callers : Picked(c) =>
           \A t \in ToSet(pools[1].keys) \ pools[1].locked :
             t # holding'[c] => Distance(pools'[1], t) < Distance(pools[1], t)]_vars
  BY <1>1
<1> QED
  BY <1>2, InitIInv, NextKeeps, PTL DEF Spec, EveryFreeKeyComesCloser
=============================================================================
