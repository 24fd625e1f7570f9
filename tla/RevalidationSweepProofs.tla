------------------------ MODULE RevalidationSweepProofs ------------------------
(***************************************************************************)
(* Proofs about the revalidation sweep, for any finite set of links, any   *)
(* number of workers, any capacity of the queue and any limit of the       *)
(* query: the rows stay one ordering of the stored links, and no link is   *)
(* overtaken while it waits.                                               *)
(***************************************************************************)
EXTENDS RevalidationSweep, FiniteSetTheorems, SequenceTheorems, TLAPS

-----------------------------------------------------------------------------
(* Sequences without repetitions.                                          *)

\* What is in two sequences is in their concatenation, each at its place.
LEMMA Concatenated ==
  ASSUME NEW S, NEW s \in Seq(S), NEW t \in Seq(S)
  PROVE  /\ s \o t \in Seq(S) /\ Len(s \o t) = Len(s) + Len(t)
         /\ \A i \in 1..Len(s) : (s \o t)[i] = s[i]
         /\ \A i \in 1..Len(t) : (s \o t)[Len(s) + i] = t[i]
         /\ ToSet(s \o t) = ToSet(s) \cup ToSet(t)
<1>1. /\ s \o t \in Seq(S) /\ Len(s \o t) = Len(s) + Len(t)
      /\ \A i \in 1..Len(s) : (s \o t)[i] = s[i]
  OBVIOUS
<1>2. ASSUME NEW i \in 1..Len(t) PROVE (s \o t)[Len(s) + i] = t[i]
  OBVIOUS
<1>3. \A i \in 1..Len(s \o t) :
         \/ i \in 1..Len(s) /\ (s \o t)[i] = s[i]
         \/ i - Len(s) \in 1..Len(t) /\ (s \o t)[i] = t[i - Len(s)]
  <2> SUFFICES ASSUME NEW i \in 1..Len(s \o t), i \notin 1..Len(s)
               PROVE  i - Len(s) \in 1..Len(t) /\ (s \o t)[i] = t[i - Len(s)]
    BY <1>1
  <2>1. i - Len(s) \in 1..Len(t) /\ i = Len(s) + (i - Len(s))
    BY <1>1
  <2> QED
    BY <1>2, <2>1
<1>4. ToSet(s \o t) \subseteq ToSet(s) \cup ToSet(t)
  BY <1>1, <1>3 DEF ToSet
<1>5. ToSet(s) \subseteq ToSet(s \o t)
  <2> SUFFICES ASSUME NEW i \in 1..Len(s) PROVE s[i] \in ToSet(s \o t)
    BY DEF ToSet
  <2>1. i \in 1..Len(s \o t) /\ s[i] = (s \o t)[i]
    BY <1>1
  <2>2. \A j \in 1..Len(s \o t) : (s \o t)[j] \in ToSet(s \o t)
    BY <1>1 DEF ToSet
  <2> QED
    BY <2>1, <2>2
<1>6. ToSet(t) \subseteq ToSet(s \o t)
  <2> SUFFICES ASSUME NEW i \in 1..Len(t) PROVE t[i] \in ToSet(s \o t)
    BY DEF ToSet
  <2>1. Len(s) + i \in 1..Len(s \o t)
    BY <1>1
  <2>2. t[i] = (s \o t)[Len(s) + i]
    BY <1>2
  <2>3. \A j \in 1..Len(s \o t) : (s \o t)[j] \in ToSet(s \o t)
    BY <1>1 DEF ToSet
  <2> QED
    BY <2>1, <2>2, <2>3
<1> QED
  BY <1>1, <1>2, <1>4, <1>5, <1>6

\* A concatenation repeats nothing when neither part does and they have
\* nothing in common.
LEMMA ConcatenatedInjective ==
  ASSUME NEW S, NEW s \in Seq(S), NEW t \in Seq(S)
  PROVE  IsInjective(s \o t) <=>
           IsInjective(s) /\ IsInjective(t) /\ ToSet(s) \cap ToSet(t) = {}
<1>1. /\ s \o t \in Seq(S) /\ Len(s \o t) = Len(s) + Len(t)
      /\ \A i \in 1..Len(s) : (s \o t)[i] = s[i]
      /\ \A i \in 1..Len(t) : (s \o t)[Len(s) + i] = t[i]
  BY Concatenated
<1> DEFINE r == s \o t
<1>2. /\ r \in Seq(S) /\ Len(r) = Len(s) + Len(t) /\ Len(s) \in Nat /\ Len(t) \in Nat
      /\ \A i \in 1..Len(s) : r[i] = s[i]
      /\ \A i \in 1..Len(t) : r[Len(s) + i] = t[i]
  BY <1>1
<1> HIDE DEF r
<1>3. ASSUME IsInjective(r)
      PROVE  IsInjective(s) /\ IsInjective(t) /\ ToSet(s) \cap ToSet(t) = {}
  <2>0. DOMAIN r = 1..Len(r)
    BY <1>2
  <2>1. \A i, j \in 1..Len(r) : r[i] = r[j] => i = j
    BY <1>3, <2>0, Zenon DEF IsInjective
  <2>2. \A i, j \in 1..Len(s) : s[i] = s[j] => i = j
    BY <1>2, <2>1
  <2>3. \A i, j \in 1..Len(t) : t[i] = t[j] => i = j
    <3> SUFFICES ASSUME NEW i \in 1..Len(t), NEW j \in 1..Len(t), t[i] = t[j] PROVE i = j
      OBVIOUS
    <3>1. Len(s) + i \in 1..Len(r) /\ Len(s) + j \in 1..Len(r)
      BY <1>2
    <3>2. r[Len(s) + i] = r[Len(s) + j]
      BY <1>2
    <3>3. Len(s) + i = Len(s) + j
      BY <2>1, <3>1, <3>2
    <3> QED
      BY <1>2, <3>3
  <2>4. \A i \in 1..Len(s), j \in 1..Len(t) : s[i] # t[j]
    <3> SUFFICES ASSUME NEW i \in 1..Len(s), NEW j \in 1..Len(t), s[i] = t[j] PROVE FALSE
      OBVIOUS
    <3>1. i \in 1..Len(r) /\ Len(s) + j \in 1..Len(r) /\ i # Len(s) + j
      BY <1>2
    <3>2. r[i] = r[Len(s) + j]
      BY <1>2
    <3> QED
      BY <2>1, <3>1, <3>2
  <2> QED
    BY <2>2, <2>3, <2>4 DEF IsInjective, ToSet
<1>4. ASSUME IsInjective(s), IsInjective(t), ToSet(s) \cap ToSet(t) = {}
      PROVE  IsInjective(r)
  <2>1. /\ \A i, j \in 1..Len(s) : s[i] = s[j] => i = j
        /\ \A i, j \in 1..Len(t) : t[i] = t[j] => i = j
        /\ \A i \in 1..Len(s), j \in 1..Len(t) : s[i] # t[j]
    BY <1>4 DEF IsInjective, ToSet
  <2>2. \A i \in 1..Len(r) :
           \/ i \in 1..Len(s) /\ r[i] = s[i]
           \/ \E k \in 1..Len(t) : i = Len(s) + k /\ r[i] = t[k]
    <3> SUFFICES ASSUME NEW i \in 1..Len(r), i \notin 1..Len(s)
                 PROVE  \E k \in 1..Len(t) : i = Len(s) + k /\ r[i] = t[k]
      BY <1>2
    <3>1. i - Len(s) \in 1..Len(t) /\ i = Len(s) + (i - Len(s))
      BY <1>2
    <3> QED
      BY <1>2, <3>1
  <2>3. ASSUME NEW i \in 1..Len(r), NEW j \in 1..Len(r), r[i] = r[j] PROVE i = j
    BY <2>1, <2>2, <2>3
  <2> QED
    BY <1>2, <2>3 DEF IsInjective
<1> QED
  BY <1>3, <1>4 DEF r

\* A sequence with one element taken out keeps the others in their order.
LEMMA WithoutOne ==
  ASSUME NEW S, NEW s \in Seq(S), IsInjective(s), NEW p \in 1..Len(s)
  PROVE  /\ RemoveFirst(s, s[p]) \in Seq(S)
         /\ Len(RemoveFirst(s, s[p])) = Len(s) - 1
         /\ \A i \in 1..(Len(s) - 1) :
               RemoveFirst(s, s[p])[i] = s[IF i < p THEN i ELSE i + 1]
<1>1. \A i \in 1..Len(s) : s[i] = s[p] <=> i = p
  BY DEF IsInjective
<1> DEFINE places == {i \in 1..Len(s) : s[i] = s[p]}
<1>2. places = {p}
  BY <1>1
<1>3. SelectInSeq(s, LAMBDA v : v = s[p]) = Min(places)
  BY <1>2 DEF SelectInSeq
<1>4. Min(places) = p
  BY <1>2 DEF Min
<1>5. RemoveFirst(s, s[p]) = RemoveAt(s, p)
  BY <1>3, <1>4 DEF RemoveFirst
<1> DEFINE head == SubSeq(s, 1, p - 1)
           rest == SubSeq(s, p + 1, Len(s))
<1>6. /\ head \in Seq(S) /\ Len(head) = p - 1 /\ \A i \in 1..(p - 1) : head[i] = s[i]
      /\ rest \in Seq(S) /\ Len(rest) = Len(s) - p
      /\ \A i \in 1..(Len(s) - p) : rest[i] = s[p + i]
  OBVIOUS
<1>7. RemoveAt(s, p) = head \o rest
  BY DEF RemoveAt
<1> HIDE DEF head, rest
<1> DEFINE r == head \o rest
<1>s. head \in Seq(S) /\ rest \in Seq(S)
  BY <1>6
<1>8. /\ r \in Seq(S) /\ Len(r) = Len(head) + Len(rest)
      /\ \A i \in 1..Len(head) : r[i] = head[i]
      /\ \A i \in 1..Len(rest) : r[Len(head) + i] = rest[i]
  BY <1>s, Concatenated
<1> HIDE DEF r
<1>l. Len(r) = Len(s) - 1
  BY <1>6, <1>8
<1>9. ASSUME NEW i \in 1..(Len(s) - 1)
      PROVE  r[i] = s[IF i < p THEN i ELSE i + 1]
  <2>1. CASE i < p
    BY <1>6, <1>8, <2>1
  <2>2. CASE ~(i < p)
    <3> DEFINE k == i - (p - 1)
    <3>1. k \in 1..(Len(s) - p) /\ (p - 1) + k = i /\ p + k = i + 1
      BY <2>2
    <3> HIDE DEF k
    <3>2. r[i] = rest[k]
      BY <1>6, <1>8, <3>1
    <3>3. rest[k] = s[p + k]
      BY <1>6, <3>1
    <3> QED
      BY <2>2, <3>1, <3>2, <3>3
  <2> QED
    BY <2>1, <2>2
<1> QED
  BY <1>5, <1>7, <1>8, <1>l, <1>9 DEF r

\* Taking out an element that a sequence has once leaves the others, without
\* repetitions and in their order; one that it does not have changes nothing.
LEMMA Removed ==
  ASSUME NEW S, NEW s \in Seq(S), IsInjective(s), NEW x
  PROVE  /\ RemoveFirst(s, x) \in Seq(S)
         /\ Len(RemoveFirst(s, x)) = IF x \in ToSet(s) THEN Len(s) - 1 ELSE Len(s)
         /\ ToSet(RemoveFirst(s, x)) = ToSet(s) \ {x}
         /\ IsInjective(RemoveFirst(s, x))
         /\ \A k, l : Before(RemoveFirst(s, x), k, l) => Before(s, k, l)
<1>1. CASE x \notin ToSet(s)
  <2>1. ~ \E i \in 1..Len(s) : s[i] = x
    BY <1>1 DEF ToSet
  <2>2. RemoveFirst(s, x) = s
    BY <2>1 DEF RemoveFirst
  <2> QED
    BY <1>1, <2>2
<1>2. CASE x \in ToSet(s)
  <2>1. PICK p \in 1..Len(s) : s[p] = x
    BY <1>2 DEF ToSet
  <2> DEFINE r == RemoveFirst(s, x)
             At(i) == IF i < p THEN i ELSE i + 1
  <2>2. /\ r \in Seq(S) /\ Len(r) = Len(s) - 1
        /\ \A i \in 1..(Len(s) - 1) : r[i] = s[At(i)]
    BY <2>1, WithoutOne
  <2> HIDE DEF r
  <2>3. /\ DOMAIN r = 1..(Len(s) - 1) /\ DOMAIN s = 1..Len(s)
        /\ \A i, j \in 1..Len(s) : s[i] = s[j] => i = j
    BY <2>2 DEF IsInjective
  <2>4. \A i \in DOMAIN r : At(i) \in DOMAIN s /\ At(i) # p /\ r[i] = s[At(i)]
    BY <2>2, <2>3
  <2>5. \A i, j \in DOMAIN r : (At(i) = At(j) => i = j) /\ (i < j => At(i) < At(j))
    BY <2>3
  <2>6. \A i \in DOMAIN s : i # p => \E j \in DOMAIN r : At(j) = i
    <3> SUFFICES ASSUME NEW i \in DOMAIN s, i # p PROVE \E j \in DOMAIN r : At(j) = i
      OBVIOUS
    <3>1. CASE i < p
      BY <2>3, <3>1
    <3>2. CASE i > p
      <4>1. i - 1 \in DOMAIN r /\ At(i - 1) = i
        BY <2>3, <3>2
      <4> QED
        BY <4>1
    <3> QED
      BY <2>3, <3>1, <3>2
  <2> HIDE DEF At
  <2>7. \A i \in DOMAIN s : s[i] = x <=> i = p
    BY <2>1, <2>3
  <2>8. ToSet(r) = ToSet(s) \ {x}
    <3>1. ASSUME NEW i \in DOMAIN r PROVE r[i] \in ToSet(s) \ {x}
      BY <2>4, <2>7 DEF ToSet
    <3>2. ASSUME NEW i \in DOMAIN s, s[i] # x PROVE s[i] \in ToSet(r)
      <4>1. PICK j \in DOMAIN r : At(j) = i
        BY <2>6, <2>7, <3>2
      <4> QED
        BY <2>4, <4>1 DEF ToSet
    <3> QED
      BY <3>1, <3>2 DEF ToSet
  <2>9. IsInjective(r)
    <3> SUFFICES ASSUME NEW i \in DOMAIN r, NEW j \in DOMAIN r, r[i] = r[j] PROVE i = j
      BY DEF IsInjective
    <3>1. At(i) = At(j)
      BY <2>3, <2>4
    <3> QED
      BY <2>5, <3>1
  <2>10. ASSUME NEW k, NEW l, Before(r, k, l) PROVE Before(s, k, l)
    <3>1. PICK i \in DOMAIN r, j \in DOMAIN r : i < j /\ r[i] = k /\ r[j] = l
      BY <2>10 DEF Before
    <3>2. At(i) < At(j) /\ s[At(i)] = k /\ s[At(j)] = l
      BY <2>4, <2>5, <3>1
    <3> QED
      BY <2>4, <3>2 DEF Before
  <2> QED
    BY <1>2, <2>2, <2>8, <2>9, <2>10 DEF r
<1> QED
  BY <1>1, <1>2

\* What comes before what in a concatenation.
LEMMA BeforeInBoth ==
  ASSUME NEW S, NEW s \in Seq(S), NEW t \in Seq(S), NEW k, NEW l
  PROVE  Before(s \o t, k, l) <=>
           \/ Before(s, k, l)
           \/ Before(t, k, l)
           \/ k \in ToSet(s) /\ l \in ToSet(t)
<1> DEFINE r == s \o t
<1>1. /\ r \in Seq(S) /\ Len(r) = Len(s) + Len(t) /\ Len(s) \in Nat /\ Len(t) \in Nat
      /\ \A i \in 1..Len(s) : r[i] = s[i]
      /\ \A i \in 1..Len(t) : r[Len(s) + i] = t[i]
  BY Concatenated
<1> HIDE DEF r
<1>2. DOMAIN s = 1..Len(s) /\ DOMAIN t = 1..Len(t) /\ DOMAIN r = 1..Len(r)
  BY <1>1
<1>3. \A i \in DOMAIN r :
         \/ i \in DOMAIN s
         \/ \E j \in DOMAIN t : i = Len(s) + j
  <2> SUFFICES ASSUME NEW i \in DOMAIN r, i \notin DOMAIN s
               PROVE  \E j \in DOMAIN t : i = Len(s) + j
    OBVIOUS
  <2>1. i - Len(s) \in DOMAIN t /\ i = Len(s) + (i - Len(s))
    BY <1>1, <1>2
  <2> QED
    BY <2>1
<1>4. ASSUME Before(r, k, l)
      PROVE  Before(s, k, l) \/ Before(t, k, l) \/ (k \in ToSet(s) /\ l \in ToSet(t))
  <2>1. PICK i \in DOMAIN r, j \in DOMAIN r : i < j /\ r[i] = k /\ r[j] = l
    BY <1>4 DEF Before
  <2>2. CASE i \in DOMAIN s /\ j \in DOMAIN s
    BY <1>1, <1>2, <2>1, <2>2 DEF Before
  <2>3. ASSUME i \in DOMAIN s, NEW q \in DOMAIN t, j = Len(s) + q
        PROVE  k \in ToSet(s) /\ l \in ToSet(t)
    BY <1>1, <1>2, <2>1, <2>3 DEF ToSet
  <2>4. ASSUME NEW p \in DOMAIN t, i = Len(s) + p, NEW q \in DOMAIN t, j = Len(s) + q
        PROVE  Before(t, k, l)
    <3>1. p < q /\ t[p] = k /\ t[q] = l
      BY <1>1, <1>2, <2>1, <2>4
    <3> QED
      BY <3>1 DEF Before
  <2>5. ASSUME NEW p \in DOMAIN t, i = Len(s) + p PROVE j \notin DOMAIN s
    BY <1>1, <1>2, <2>1, <2>5
  <2> QED
    BY <1>3, <2>2, <2>3, <2>4, <2>5
<1>5. ASSUME Before(s, k, l) PROVE Before(r, k, l)
  <2>1. PICK i \in DOMAIN s, j \in DOMAIN s : i < j /\ s[i] = k /\ s[j] = l
    BY <1>5 DEF Before
  <2>2. i \in DOMAIN r /\ j \in DOMAIN r /\ r[i] = k /\ r[j] = l
    BY <1>1, <1>2, <2>1
  <2> QED
    BY <2>1, <2>2 DEF Before
<1>6. ASSUME Before(t, k, l) PROVE Before(r, k, l)
  <2>1. PICK i \in DOMAIN t, j \in DOMAIN t : i < j /\ t[i] = k /\ t[j] = l
    BY <1>6 DEF Before
  <2>2. /\ Len(s) + i \in DOMAIN r /\ Len(s) + j \in DOMAIN r /\ Len(s) + i < Len(s) + j
        /\ r[Len(s) + i] = k /\ r[Len(s) + j] = l
    BY <1>1, <1>2, <2>1
  <2> QED
    BY <2>2 DEF Before
<1>7. ASSUME k \in ToSet(s), l \in ToSet(t) PROVE Before(r, k, l)
  <2>1. PICK i \in DOMAIN s, j \in DOMAIN t : s[i] = k /\ t[j] = l
    BY <1>7 DEF ToSet
  <2>2. /\ i \in DOMAIN r /\ Len(s) + j \in DOMAIN r /\ i < Len(s) + j
        /\ r[i] = k /\ r[Len(s) + j] = l
    BY <1>1, <1>2, <2>1
  <2> QED
    BY <2>2 DEF Before
<1> QED
  BY <1>4, <1>5, <1>6, <1>7 DEF r

\* The first elements of a sequence, in its order.
LEMMA Prefix ==
  ASSUME NEW S, NEW s \in Seq(S), NEW n \in 0..Len(s)
  PROVE  /\ SubSeq(s, 1, n) \in Seq(S) /\ Len(SubSeq(s, 1, n)) = n
         /\ \A i \in 1..n : SubSeq(s, 1, n)[i] = s[i]
         /\ ToSet(SubSeq(s, 1, n)) \subseteq ToSet(s)
         /\ IsInjective(s) => IsInjective(SubSeq(s, 1, n))
<1> DEFINE r == SubSeq(s, 1, n)
<1>1. r \in Seq(S) /\ Len(r) = n /\ \A i \in 1..n : r[i] = s[i]
  BY SubSeqProperties
<1> HIDE DEF r
<1>2. DOMAIN r = 1..n /\ DOMAIN s = 1..Len(s) /\ 1..n \subseteq 1..Len(s)
  BY <1>1
<1>3. ToSet(r) \subseteq ToSet(s)
  BY <1>1, <1>2 DEF ToSet
<1>4. ASSUME IsInjective(s) PROVE IsInjective(r)
  BY <1>1, <1>2, <1>4 DEF IsInjective
<1> QED
  BY <1>1, <1>3, <1>4 DEF r

\* An appended element is the last one.
LEMMA Appended ==
  ASSUME NEW S, NEW s \in Seq(S), NEW x \in S
  PROVE  /\ Append(s, x) \in Seq(S) /\ Len(Append(s, x)) = Len(s) + 1
         /\ \A i \in 1..Len(s) : Append(s, x)[i] = s[i]
         /\ ToSet(Append(s, x)) = ToSet(s) \cup {x}
         /\ IsInjective(s) /\ x \notin ToSet(s) => IsInjective(Append(s, x))
<1> DEFINE r == Append(s, x)
<1>1. /\ r \in Seq(S) /\ Len(r) = Len(s) + 1 /\ \A i \in 1..Len(s) : r[i] = s[i]
      /\ r[Len(s) + 1] = x /\ Len(s) \in Nat
  OBVIOUS
<1> HIDE DEF r
<1>2. /\ DOMAIN r = 1..(Len(s) + 1) /\ DOMAIN s = 1..Len(s)
      /\ \A i \in DOMAIN r : i \in DOMAIN s \/ i = Len(s) + 1
      /\ Len(s) + 1 \in DOMAIN r /\ Len(s) + 1 \notin DOMAIN s /\ DOMAIN s \subseteq DOMAIN r
  BY <1>1
<1>3. ToSet(r) = ToSet(s) \cup {x}
  BY <1>1, <1>2 DEF ToSet
<1>4. ASSUME IsInjective(s), x \notin ToSet(s) PROVE IsInjective(r)
  <2>1. \A i \in DOMAIN s : s[i] # x
    BY <1>4 DEF ToSet
  <2>2. \A i, j \in DOMAIN s : s[i] = s[j] => i = j
    BY <1>4 DEF IsInjective
  <2>3. ASSUME NEW i \in DOMAIN r, NEW j \in DOMAIN r, r[i] = r[j] PROVE i = j
    BY <1>1, <1>2, <2>1, <2>2, <2>3
  <2> QED
    BY <2>3 DEF IsInjective
<1> QED
  BY <1>1, <1>3, <1>4 DEF r

-----------------------------------------------------------------------------
(* The rows.                                                               *)

\* The rows form one ordering of the stored links.
Rows ==
    /\ undated \in Seq(Links) /\ dated \in Seq(Links)
    /\ ToSet(undated) \cup ToSet(dated) = Links
    /\ IsInjective(undated) /\ IsInjective(dated)
    /\ ToSet(undated) \cap ToSet(dated) = {}
    /\ due \in 0..Len(dated)

\* The type invariant says so too.
LEMMA RowsOfTypeOK ==
  Rows <=> /\ undated \in Seq(Links) /\ dated \in Seq(Links)
           /\ ToSet(undated) \cup ToSet(dated) = Links
           /\ IsInjective(undated \o dated)
           /\ due \in 0..Len(dated)
  BY ConcatenatedInjective DEF Rows

\* The overdue rows are a part of the dated ones.
LEMMA OverdueRows ==
  ASSUME Rows
  PROVE  /\ Overdue \in Seq(Links) /\ Len(Overdue) = due /\ IsInjective(Overdue)
         /\ \A i \in 1..due : Overdue[i] = dated[i]
         /\ ToSet(Overdue) \subseteq ToSet(dated)
         /\ ToSet(undated) \cap ToSet(Overdue) = {}
<1>1. /\ Overdue \in Seq(Links) /\ Len(Overdue) = due /\ IsInjective(Overdue)
      /\ \A i \in 1..due : Overdue[i] = dated[i]
      /\ ToSet(Overdue) \subseteq ToSet(dated)
  BY Prefix DEF Rows, Overdue
<1> QED
  BY <1>1 DEF Rows

\* A verdict keeps the rows an ordering and takes the link out of the rows
\* that wait.
LEMMA ReportKeepsRows ==
  ASSUME Rows, NEW w \in Workers, probing[w] \in Links, Report(w)
  PROVE  /\ Rows'
         /\ Overdue' = RemoveFirst(Overdue, probing[w])
         /\ undated' = RemoveFirst(undated, probing[w])
<1> DEFINE x == probing[w]
           rest == RemoveFirst(dated, x)
<1>1. /\ undated \in Seq(Links) /\ dated \in Seq(Links)
      /\ ToSet(undated) \cup ToSet(dated) = Links
      /\ IsInjective(undated) /\ IsInjective(dated)
      /\ ToSet(undated) \cap ToSet(dated) = {}
      /\ due \in 0..Len(dated) /\ Len(dated) \in Nat
  BY DEF Rows
<1>2. /\ undated' = RemoveFirst(undated, x)
      /\ dated' = Append(rest, x)
      /\ due' = IF x \in ToSet(Overdue) THEN due - 1 ELSE due
      /\ x \in Links
  BY DEF Report
<1>3. /\ undated' \in Seq(Links) /\ ToSet(undated') = ToSet(undated) \ {x}
      /\ IsInjective(undated')
  BY <1>1, <1>2, Removed
<1>4. /\ rest \in Seq(Links) /\ ToSet(rest) = ToSet(dated) \ {x} /\ IsInjective(rest)
      /\ Len(rest) = IF x \in ToSet(dated) THEN Len(dated) - 1 ELSE Len(dated)
  BY <1>1, Removed
<1>o. /\ Overdue \in Seq(Links) /\ Len(Overdue) = due /\ IsInjective(Overdue)
      /\ \A i \in 1..due : Overdue[i] = dated[i]
      /\ ToSet(Overdue) \subseteq ToSet(dated)
  BY OverdueRows
<1>r. x \notin ToSet(dated) => rest = dated
  <2> SUFFICES ASSUME x \notin ToSet(dated) PROVE rest = dated
    OBVIOUS
  <2>1. ~ \E i \in 1..Len(dated) : dated[i] = x
    BY <1>1 DEF ToSet
  <2> QED
    BY <2>1 DEF RemoveFirst
<1>w. \A p \in 1..Len(dated) : x = dated[p] =>
        \A i \in 1..(Len(dated) - 1) : rest[i] = dated[IF i < p THEN i ELSE i + 1]
  <2> SUFFICES ASSUME NEW p \in 1..Len(dated), x = dated[p]
               PROVE  \A i \in 1..(Len(dated) - 1) :
                        rest[i] = dated[IF i < p THEN i ELSE i + 1]
    OBVIOUS
  <2>1. \A i \in 1..(Len(dated) - 1) :
          RemoveFirst(dated, dated[p])[i] = dated[IF i < p THEN i ELSE i + 1]
    <3>1. dated \in Seq(Links) /\ IsInjective(dated)
      BY <1>1
    <3> QED
      BY <3>1, WithoutOne
  <2> HIDE DEF x
  <2> QED
    BY <2>1
<1> HIDE DEF rest, x
<1>5. /\ dated' \in Seq(Links) /\ Len(dated') = Len(rest) + 1
      /\ \A i \in 1..Len(rest) : dated'[i] = rest[i]
      /\ ToSet(dated') = ToSet(dated) \cup {x} /\ IsInjective(dated')
  BY <1>2, <1>4, Appended
<1>6. due' \in 0..Len(rest)
  <2>1. CASE x \in ToSet(Overdue)
    <3>1. due >= 1
      BY <1>o, <2>1 DEF ToSet
    <3> QED
      BY <1>1, <1>2, <1>4, <1>o, <2>1, <3>1
  <2>2. CASE x \notin ToSet(Overdue) /\ x \in ToSet(dated)
    <3>1. PICK p \in 1..Len(dated) : dated[p] = x
      BY <1>1, <2>2 DEF ToSet
    <3>2. ~(p <= due)
      <4> SUFFICES ASSUME p <= due PROVE FALSE
        OBVIOUS
      <4>1. p \in 1..due /\ Overdue[p] = x
        BY <1>1, <1>o, <3>1
      <4> QED
        BY <1>o, <2>2, <4>1 DEF ToSet
    <3> QED
      BY <1>1, <1>2, <1>4, <2>2, <3>2
  <2>3. CASE x \notin ToSet(Overdue) /\ x \notin ToSet(dated)
    BY <1>1, <1>2, <1>4, <2>3
  <2> QED
    BY <2>1, <2>2, <2>3
<1>7. Rows'
  <2>1. due' \in 0..Len(dated')
    BY <1>4, <1>5, <1>6
  <2>2. /\ ToSet(undated') \cup ToSet(dated') = Links
        /\ ToSet(undated') \cap ToSet(dated') = {}
    BY <1>1, <1>2, <1>3, <1>5
  <2> QED
    BY <1>3, <1>5, <2>1, <2>2 DEF Rows
<1>8. /\ Overdue' \in Seq(Links) /\ Len(Overdue') = due'
      /\ \A i \in 1..due' : Overdue'[i] = rest[i]
  <2>1. /\ Overdue' = SubSeq(dated', 1, due')
        /\ due' \in 0..Len(dated')
    BY <1>4, <1>5, <1>6 DEF Overdue
  <2>2. /\ Overdue' \in Seq(Links) /\ Len(Overdue') = due'
        /\ \A i \in 1..due' : Overdue'[i] = dated'[i]
    BY <1>5, <2>1, Prefix
  <2>3. \A i \in 1..due' : i \in 1..Len(rest)
    BY <1>4, <1>6
  <2> QED
    BY <1>5, <2>2, <2>3
<1>9. Overdue' = RemoveFirst(Overdue, x)
  <2>1. CASE x \in ToSet(Overdue)
    <3>1. PICK p \in 1..due : Overdue[p] = x
      BY <1>o, <2>1 DEF ToSet
    <3> DEFINE short == RemoveFirst(Overdue, x)
    <3>2. /\ short \in Seq(Links) /\ Len(short) = due - 1
          /\ \A i \in 1..(due - 1) : short[i] = Overdue[IF i < p THEN i ELSE i + 1]
      BY <1>o, <3>1, WithoutOne
    <3> HIDE DEF short
    <3>3. x = dated[p] /\ p \in 1..Len(dated)
      BY <1>1, <1>o, <3>1
    <3>4. due' = due - 1
      BY <1>2, <2>1
    <3>5. ASSUME NEW i \in 1..due' PROVE Overdue'[i] = short[i]
      <4> DEFINE q == IF i < p THEN i ELSE i + 1
      <4>1. i \in 1..(due - 1) /\ i \in 1..(Len(dated) - 1) /\ q \in 1..due
        BY <1>1, <3>1, <3>4
      <4>2. Overdue'[i] = dated[q]
        BY <1>8, <1>w, <3>3, <4>1
      <4>3. short[i] = Overdue[q]
        BY <3>2, <4>1
      <4> QED
        BY <1>o, <4>1, <4>2, <4>3
    <3>6. Len(Overdue') = Len(short)
      BY <1>8, <3>2, <3>4
    <3>7. Overdue' = short
      BY <1>8, <3>2, <3>5, <3>6, SeqEqual
    <3> QED
      BY <3>7 DEF short
  <2>2. CASE x \notin ToSet(Overdue)
    <3>1. ~ \E i \in 1..Len(Overdue) : Overdue[i] = x
      BY <1>o, <2>2 DEF ToSet
    <3>2. RemoveFirst(Overdue, x) = Overdue
      BY <3>1 DEF RemoveFirst
    <3>3. due' = due
      BY <1>2, <2>2
    <3>4. ASSUME NEW i \in 1..due PROVE Overdue'[i] = Overdue[i]
      <4>1. Overdue'[i] = rest[i] /\ Overdue[i] = dated[i] /\ i \in 1..Len(rest)
        BY <1>1, <1>4, <1>6, <1>8, <1>o, <3>3
      <4>2. CASE x \notin ToSet(dated)
        BY <1>r, <4>1, <4>2
      <4>3. CASE x \in ToSet(dated)
        <5>1. PICK p \in 1..Len(dated) : dated[p] = x
          BY <1>1, <4>3 DEF ToSet
        <5>2. i # p
          BY <1>o, <3>1, <4>1, <5>1
        <5>3. ~(p < i)
          <6> SUFFICES ASSUME p < i PROVE FALSE
            OBVIOUS
          <6>1. p \in 1..due
            BY <1>1, <5>1
          <6>2. Overdue[p] = x /\ p \in 1..Len(Overdue)
            BY <1>o, <5>1, <6>1
          <6> QED
            BY <3>1, <6>2
        <5>4. i < p
          BY <5>1, <5>2, <5>3
        <5>5. rest[i] = dated[i]
          BY <1>1, <1>4, <1>w, <4>1, <4>3, <5>1, <5>4
        <5> QED
          BY <4>1, <5>5
      <4> QED
        BY <4>2, <4>3
    <3>5. Overdue' = Overdue
      BY <1>8, <1>o, <3>3, <3>4, SeqEqual
    <3> QED
      BY <3>2, <3>5
  <2> QED
    BY <2>1, <2>2
<1> QED
  BY <1>2, <1>7, <1>9 DEF x

\* One more row becomes overdue: the one after those that are.
LEMMA AgeKeepsRows ==
  ASSUME Rows, Age
  PROVE  /\ Rows'
         /\ dated[due + 1] \in Links
         /\ Overdue' = Append(Overdue, dated[due + 1])
         /\ undated' = undated
<1>1. /\ undated' = undated /\ dated' = dated /\ due' = due + 1
      /\ due \in 0..Len(dated) /\ due < Len(dated) /\ dated \in Seq(Links)
      /\ Len(dated) \in Nat
  BY DEF Rows, Age
<1>2. Rows'
  BY <1>1 DEF Rows
<1>3. /\ Overdue \in Seq(Links) /\ Len(Overdue) = due
      /\ \A i \in 1..due : Overdue[i] = dated[i]
  BY OverdueRows
<1>4. Overdue' = SubSeq(dated, 1, due + 1)
  BY <1>1 DEF Overdue
<1>5. /\ Overdue' \in Seq(Links) /\ Len(Overdue') = due + 1
      /\ \A i \in 1..(due + 1) : Overdue'[i] = dated[i]
  BY <1>1, <1>4, Prefix
<1> DEFINE longer == Append(Overdue, dated[due + 1])
<1>6. dated[due + 1] \in Links
  BY <1>1
<1>7. /\ longer \in Seq(Links) /\ Len(longer) = due + 1
      /\ \A i \in 1..due : longer[i] = Overdue[i]
      /\ longer[due + 1] = dated[due + 1]
  BY <1>3, <1>6
<1> HIDE DEF longer
<1>8. ASSUME NEW i \in 1..(due + 1) PROVE Overdue'[i] = longer[i]
  <2>1. CASE i \in 1..due
    BY <1>3, <1>5, <1>7, <2>1
  <2>2. CASE i = due + 1
    BY <1>5, <1>7, <2>2
  <2> QED
    BY <1>1, <2>1, <2>2
<1>9. Overdue' = longer
  BY <1>5, <1>7, <1>8, SeqEqual
<1> QED
  BY <1>1, <1>2, <1>6, <1>9 DEF longer

\* The other steps change no row.
LEMMA OthersKeepRows ==
  ASSUME \/ SweepQuery \/ SweepFeed \/ Crash \/ UNCHANGED vars
         \/ \E w \in Workers : Take(w) \/ Inconclusive(w)
  PROVE  UNCHANGED <<undated, dated, due>>
  BY DEF SweepQuery, SweepFeed, Crash, vars, Take, Inconclusive

\* The links that wait are stored, and what the query reads is the first
\* part of them.
LEMMA QueryReads ==
  ASSUME Rows
  PROVE  /\ Waiting \in Seq(Links)
         /\ OldestFirst \in Seq(Links) /\ Len(OldestFirst) <= SweepLimit
<1>1. Waiting \in Seq(Links)
  BY OverdueRows, Concatenated DEF Rows, Waiting
<1> DEFINE n == IF SweepLimit < Len(Waiting) THEN SweepLimit ELSE Len(Waiting)
<1>2. n \in 0..Len(Waiting) /\ n <= SweepLimit
  BY <1>1, SweepAssumption
<1>3. OldestFirst = SubSeq(Waiting, 1, n)
  BY DEF OldestFirst, AtMost
<1> QED
  BY <1>1, <1>2, <1>3, Prefix

-----------------------------------------------------------------------------
(* Type correctness.                                                       *)

\* The queue, the workers and the running sweep.
Channels ==
    /\ validateCh \in Seq(Links) /\ Len(validateCh) <= QueueCap
    /\ probing \in [Workers -> Links \cup {NoLink}]
    /\ sweep \in Seq(Links) /\ Len(sweep) <= SweepLimit
    /\ crashes \in 0..MaxCrashes

LEMMA TypeOKParts == TypeOK <=> Rows /\ Channels
  BY RowsOfTypeOK DEF TypeOK, Channels

\* The links in any order are all links.
LEMMA SweepStarts == Init => TypeOK
<1> SUFFICES ASSUME Init PROVE Rows /\ Channels
  BY TypeOKParts
<1> USE SweepAssumption
<1> DEFINE D == 1..Cardinality(Links)
<1>1. /\ undated \in [D -> Links] /\ \A i, j \in D : i # j => undated[i] # undated[j]
      /\ dated = <<>> /\ due = 0 /\ validateCh = <<>> /\ sweep = <<>> /\ crashes = 0
      /\ probing = [w \in Workers |-> NoLink]
  BY DEF Init, SetToSeqs
<1>2. Cardinality(Links) \in Nat
  BY FS_CardinalityType
<1>3. IsFiniteSet(D) /\ Cardinality(D) = Cardinality(Links)
  BY <1>2, FS_Interval
<1>4. undated \in Injection(D, Links) /\ IsInjective(undated)
  BY <1>1 DEF Injection, IsInjective
<1>5. undated \in Surjection(D, Links)
  BY <1>3, <1>4, FS_Injection
<1>6. undated \in Seq(Links) /\ ToSet(undated) = Links
  BY <1>1, <1>2, <1>5 DEF Surjection, ToSet
<1>7. Rows
  BY <1>1, <1>4, <1>6 DEF Rows, ToSet, IsInjective
<1>8. Channels
  BY <1>1 DEF Channels
<1> QED
  BY <1>7, <1>8

LEMMA SweepStep == TypeOK /\ [Next]_vars => TypeOK'
<1>p. TypeOK' <=> Rows' /\ Channels'
  BY TypeOKParts, PTL
<1> SUFFICES ASSUME Rows, Channels, [Next]_vars PROVE Rows' /\ Channels'
  BY <1>p, TypeOKParts
<1> USE SweepAssumption
<1>c. /\ validateCh \in Seq(Links) /\ Len(validateCh) <= QueueCap
      /\ probing \in [Workers -> Links \cup {NoLink}]
      /\ sweep \in Seq(Links) /\ Len(sweep) <= SweepLimit
      /\ crashes \in 0..MaxCrashes
  BY DEF Channels
<1>r. ASSUME UNCHANGED <<undated, dated, due>> PROVE Rows'
  BY <1>r DEF Rows
<1>1. CASE SweepQuery
  <2>1. Channels'
    BY <1>c, <1>1, QueryReads DEF SweepQuery, Channels
  <2> QED
    BY <1>r, <1>1, <2>1 DEF SweepQuery
<1>2. CASE SweepFeed
  <2>1. Tail(sweep) \in Seq(Links) /\ Len(Tail(sweep)) <= SweepLimit /\ Head(sweep) \in Links
    BY <1>c, <1>2 DEF SweepFeed
  <2>2. Append(validateCh, Head(sweep)) \in Seq(Links)
        /\ Len(Append(validateCh, Head(sweep))) = Len(validateCh) + 1
        /\ Len(validateCh) \in Nat
    BY <1>c, <2>1, Appended
  <2> DEFINE longer == Append(validateCh, Head(sweep))
  <2> HIDE DEF longer
  <2>q. \/ Len(validateCh) < QueueCap /\ validateCh' = longer
        \/ validateCh' = validateCh
    BY <1>2 DEF SweepFeed, longer
  <2>3. validateCh' \in Seq(Links) /\ Len(validateCh') <= QueueCap
    <3>1. longer \in Seq(Links) /\ Len(longer) = Len(validateCh) + 1
      BY <2>2 DEF longer
    <3> QED
      BY <1>c, <2>2, <2>q, <3>1
  <2>4. sweep' \in Seq(Links) /\ Len(sweep') <= SweepLimit
    <3>1. sweep' = Tail(sweep) \/ sweep' = <<>>
      BY <1>2 DEF SweepFeed
    <3>2. <<>> \in Seq(Links) /\ Len(<<>>) <= SweepLimit
      BY EmptySeq
    <3> QED
      BY <2>1, <3>1, <3>2
  <2>5. Channels'
    BY <1>c, <1>2, <2>3, <2>4 DEF SweepFeed, Channels
  <2> QED
    BY <1>r, <1>2, <2>5 DEF SweepFeed
<1>3. ASSUME NEW w \in Workers, Take(w) PROVE Rows' /\ Channels'
  <2>1. /\ Tail(validateCh) \in Seq(Links) /\ Len(Tail(validateCh)) <= QueueCap
        /\ Head(validateCh) \in Links
    BY <1>c, <1>3 DEF Take
  <2>2. Channels'
    BY <1>c, <1>3, <2>1 DEF Take, Channels
  <2> QED
    BY <1>r, <1>3, <2>2 DEF Take
<1>4. ASSUME NEW w \in Workers, Report(w) PROVE Rows' /\ Channels'
  <2>1. probing[w] \in Links
    BY <1>c, <1>4 DEF Report
  <2>2. Channels'
    BY <1>c, <1>4 DEF Report, Channels
  <2> QED
    BY <1>4, <2>1, <2>2, ReportKeepsRows
<1>5. ASSUME NEW w \in Workers, Inconclusive(w) PROVE Rows' /\ Channels'
  BY <1>c, <1>r, <1>5 DEF Inconclusive, Channels
<1>6. CASE Age
  BY <1>c, <1>6, AgeKeepsRows DEF Age, Channels
<1>7. CASE Crash
  <2>1. Channels'
    BY <1>c, <1>7 DEF Crash, Channels
  <2> QED
    BY <1>r, <1>7, <2>1 DEF Crash
<1>8. CASE UNCHANGED vars
  BY <1>c, <1>r, <1>8 DEF vars, Channels
<1> QED
  BY <1>1, <1>2, <1>3, <1>4, <1>5, <1>6, <1>7, <1>8 DEF Next, Work

\* Every stored link has one place in the ordering, and the queue and the
\* sweep stay within their limits, for any links, workers, queue and limit
\* (validation.go:12-79, 190-212).
THEOREM SweepTypes == Spec => []TypeOK
  BY SweepStarts, SweepStep, PTL DEF Spec

-----------------------------------------------------------------------------
(* Nobody is overtaken.                                                    *)

\* A verdict takes its link out from among those that wait and leaves the
\* others in their order.
LEMMA ReportOvertakesNobody ==
  ASSUME Rows, NEW w \in Workers, probing[w] \in Links, Report(w), NEW l \in Links
  PROVE  Ahead(l)' \subseteq Ahead(l) /\ probing[w] \notin Ahead(l)'
<1> DEFINE x == probing[w]
<1>1. /\ undated \in Seq(Links) /\ IsInjective(undated)
      /\ Overdue \in Seq(Links) /\ IsInjective(Overdue)
  BY OverdueRows DEF Rows
<1>2. undated' = RemoveFirst(undated, x) /\ Overdue' = RemoveFirst(Overdue, x)
  BY ReportKeepsRows
<1>3. /\ undated' \in Seq(Links) /\ ToSet(undated') = ToSet(undated) \ {x}
      /\ \A k : Before(undated', k, l) => Before(undated, k, l)
  BY <1>1, <1>2, Removed
<1>4. /\ Overdue' \in Seq(Links) /\ ToSet(Overdue') = ToSet(Overdue) \ {x}
      /\ \A k : Before(Overdue', k, l) => Before(Overdue, k, l)
  BY <1>1, <1>2, Removed
<1>5. \A s, k : Before(s, k, l) => k \in ToSet(s)
  BY DEF Before, ToSet
<1>6. CASE NullsFirst
  <2>1. Waiting = undated \o Overdue /\ Waiting' = undated' \o Overdue'
    BY <1>6 DEF Waiting
  <2>2. ASSUME NEW k, Before(Waiting', k, l) PROVE Before(Waiting, k, l) /\ k # x
    <3>1. \/ Before(undated', k, l) \/ Before(Overdue', k, l)
          \/ k \in ToSet(undated') /\ l \in ToSet(Overdue')
      BY <1>3, <1>4, <2>1, <2>2, BeforeInBoth
    <3>2. \/ Before(undated, k, l) \/ Before(Overdue, k, l)
          \/ k \in ToSet(undated) /\ l \in ToSet(Overdue)
      BY <1>3, <1>4, <3>1
    <3>3. Before(Waiting, k, l)
      BY <1>1, <2>1, <3>2, BeforeInBoth
    <3>4. k \in ToSet(undated') \/ k \in ToSet(Overdue')
      BY <1>5, <3>1
    <3> QED
      BY <1>3, <1>4, <3>3, <3>4
  <2> QED
    BY <2>2 DEF Ahead
<1>7. CASE ~NullsFirst
  <2>1. Waiting = Overdue \o undated /\ Waiting' = Overdue' \o undated'
    BY <1>7 DEF Waiting
  <2>2. ASSUME NEW k, Before(Waiting', k, l) PROVE Before(Waiting, k, l) /\ k # x
    <3>1. \/ Before(Overdue', k, l) \/ Before(undated', k, l)
          \/ k \in ToSet(Overdue') /\ l \in ToSet(undated')
      BY <1>3, <1>4, <2>1, <2>2, BeforeInBoth
    <3>2. \/ Before(Overdue, k, l) \/ Before(undated, k, l)
          \/ k \in ToSet(Overdue) /\ l \in ToSet(undated)
      BY <1>3, <1>4, <3>1
    <3>3. Before(Waiting, k, l)
      BY <1>1, <2>1, <3>2, BeforeInBoth
    <3>4. k \in ToSet(undated') \/ k \in ToSet(Overdue')
      BY <1>5, <3>1
    <3> QED
      BY <1>3, <1>4, <3>3, <3>4
  <2> QED
    BY <2>2 DEF Ahead
<1> QED
  BY <1>6, <1>7

\* A row that becomes due joins the others behind the dated ones.
LEMMA AgeOvertakesNobody ==
  ASSUME Rows, Age, NEW l \in Links, l \in ToSet(Waiting),
         NullsFirst \/ l \in ToSet(Overdue)
  PROVE  Ahead(l)' \subseteq Ahead(l)
<1> DEFINE new == dated[due + 1]
<1>1. /\ undated \in Seq(Links) /\ Overdue \in Seq(Links) /\ Len(Overdue) = due
      /\ dated \in Seq(Links) /\ due \in 0..Len(dated) /\ due < Len(dated)
      /\ \A i \in 1..due : Overdue[i] = dated[i]
      /\ ToSet(undated) \cap ToSet(Overdue) = {}
      /\ ToSet(undated) \cap ToSet(dated) = {}
      /\ IsInjective(dated)
  BY OverdueRows DEF Rows, Age
<1>2. undated' = undated /\ Overdue' = Append(Overdue, new) /\ new \in Links
  BY AgeKeepsRows
<1>3. new \notin ToSet(undated) \cup ToSet(Overdue)
  <2>1. due + 1 \in DOMAIN dated
    BY <1>1
  <2>2. new \in ToSet(dated)
    BY <2>1 DEF ToSet
  <2>3. ASSUME NEW i \in 1..due PROVE Overdue[i] # new
    BY <1>1, <2>1, <2>3 DEF IsInjective
  <2> HIDE DEF new
  <2>4. new \notin ToSet(undated)
    BY <1>1, <2>2
  <2>5. DOMAIN Overdue = 1..due
    BY <1>1
  <2>6. new \notin ToSet(Overdue)
    BY <2>3, <2>5 DEF ToSet
  <2> QED
    BY <2>4, <2>6
<1>4. l # new
  <2>1. ToSet(Waiting) = ToSet(undated) \cup ToSet(Overdue)
    BY <1>1, Concatenated DEF Waiting
  <2> QED
    BY <1>3, <2>1
<1> HIDE DEF new
<1>5. /\ Overdue' \in Seq(Links) /\ Len(Overdue') = due + 1
      /\ \A i \in 1..due : Overdue'[i] = Overdue[i]
      /\ Overdue'[due + 1] = new /\ ToSet(Overdue') = ToSet(Overdue) \cup {new}
  BY <1>1, <1>2, Appended
<1>6. ASSUME NEW k, Before(Overdue', k, l) PROVE Before(Overdue, k, l)
  <2>1. PICK i \in DOMAIN Overdue', j \in DOMAIN Overdue' :
               i < j /\ Overdue'[i] = k /\ Overdue'[j] = l
    BY <1>6 DEF Before
  <2>2. i \in 1..(due + 1) /\ j \in 1..(due + 1) /\ j # due + 1
    BY <1>4, <1>5, <2>1
  <2>3. i \in 1..due /\ j \in 1..due
    BY <1>1, <2>1, <2>2
  <2>4. i \in DOMAIN Overdue /\ j \in DOMAIN Overdue /\ Overdue[i] = k /\ Overdue[j] = l
    BY <1>1, <1>5, <2>1, <2>3
  <2> QED
    BY <2>1, <2>4 DEF Before
<1>7. CASE NullsFirst
  <2>1. Waiting = undated \o Overdue /\ Waiting' = undated \o Overdue'
    BY <1>2, <1>7 DEF Waiting
  <2>2. ASSUME NEW k, Before(Waiting', k, l) PROVE Before(Waiting, k, l)
    <3>1. \/ Before(undated, k, l) \/ Before(Overdue', k, l)
          \/ k \in ToSet(undated) /\ l \in ToSet(Overdue')
      BY <1>1, <1>5, <2>1, <2>2, BeforeInBoth
    <3>2. \/ Before(undated, k, l) \/ Before(Overdue, k, l)
          \/ k \in ToSet(undated) /\ l \in ToSet(Overdue)
      BY <1>4, <1>5, <1>6, <3>1
    <3> QED
      BY <1>1, <2>1, <3>2, BeforeInBoth
  <2> QED
    BY <2>2 DEF Ahead
<1>8. CASE ~NullsFirst
  <2>1. Waiting = Overdue \o undated /\ Waiting' = Overdue' \o undated
    BY <1>2, <1>8 DEF Waiting
  <2>2. l \notin ToSet(undated)
    BY <1>1, <1>8
  <2>3. ASSUME NEW k, Before(Waiting', k, l) PROVE Before(Waiting, k, l)
    <3>1. \/ Before(Overdue', k, l) \/ Before(undated, k, l)
          \/ k \in ToSet(Overdue') /\ l \in ToSet(undated)
      BY <1>1, <1>5, <2>1, <2>3, BeforeInBoth
    <3>2. Before(Overdue, k, l) \/ Before(undated, k, l)
      BY <1>6, <2>2, <3>1
    <3> QED
      BY <1>1, <2>1, <3>2, BeforeInBoth
  <2> QED
    BY <2>3 DEF Ahead
<1> QED
  BY <1>7, <1>8

\* The order in which the links of the table are rechecked is kept: nothing that is reported,
\* becomes due or is lost lets a link overtake one that waits, for any links,
\* workers, queue and limit (validation.go:34, 190-212).
THEOREM SweepIsFair == Spec => WaitersAreNotOvertaken
<1> DEFINE Kept ==
      \A l \in Links :
          /\ l \in ToSet(Waiting) /\ l \in ToSet(Waiting)'
          /\ NullsFirst \/ l \in ToSet(Overdue)
          => /\ Ahead(l)' \subseteq Ahead(l)
             /\ \A w \in Workers : Report(w) => probing[w] \notin Ahead(l)'
<1>1. TypeOK /\ Next => Kept
  <2> SUFFICES ASSUME TypeOK, Next, NEW l \in Links, l \in ToSet(Waiting),
                      NullsFirst \/ l \in ToSet(Overdue)
               PROVE  /\ Ahead(l)' \subseteq Ahead(l)
                      /\ \A w \in Workers : Report(w) => probing[w] \notin Ahead(l)'
    OBVIOUS
  <2>0. Rows /\ probing \in [Workers -> Links \cup {NoLink}]
    BY TypeOKParts DEF Channels
  <2>1. ASSUME NEW w \in Workers, Report(w)
        PROVE  Ahead(l)' \subseteq Ahead(l) /\ probing[w] \notin Ahead(l)'
    <3>1. probing[w] \in Links
      BY <2>0, <2>1 DEF Report
    <3> QED
      BY <2>0, <2>1, <3>1, ReportOvertakesNobody
  <2>2. ASSUME UNCHANGED <<undated, dated, due>> PROVE Ahead(l)' \subseteq Ahead(l)
    BY <2>2 DEF Ahead, Waiting, Overdue
  <2>3. CASE Age
    BY <2>0, <2>1, <2>3, AgeOvertakesNobody
  <2>4. CASE ~Age
    BY <2>1, <2>2, <2>4, OthersKeepRows DEF Next, Work
  <2> QED
    BY <2>1, <2>3, <2>4
<1>2. TypeOK /\ [Next]_vars => [Kept]_vars
  BY <1>1
<1> QED
  BY <1>2, SweepStarts, SweepStep, PTL DEF Spec, WaitersAreNotOvertaken
=============================================================================
