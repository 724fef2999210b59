----------------------------- MODULE CacheProofs -----------------------------
(***************************************************************************)
(* The cache, proved for any keys, pages, sizes, times to live and budgets:*)
(* the byte count is the resident size and both budgets hold, what is put  *)
(* is there after the put, and the whole implements the lossy map.         *)
(*                                                                         *)
(* The size of a sequence is a recursive function of a prefix.  What the   *)
(* proofs need of it, that a sequence weighs as much as its two parts      *)
(* (UptoShift), goes by induction on the prefix, and an induction over a   *)
(* range of numbers is one set that is closed under the step (Climb).      *)
(***************************************************************************)
EXTENDS Cache, SequenceTheorems, WellFoundedInduction, TLAPS

-----------------------------------------------------------------------------
(* Induction *)

\* A set of naturals that is not empty has a least member.
LEMMA Least ==
    ASSUME NEW S \in SUBSET Nat, S # {}
    PROVE  \E m \in S : \A k \in S : m <= k
<1> DEFINE R == OpToRel(<, Nat)
<1>1. PICK m \in S : \A k \in S : <<k, m>> \notin R
  BY NatLessThanWellFounded, WFMin
<1>2. \A k \in S : ~(k < m)
  BY <1>1 DEF OpToRel
<1> QED
  BY <1>2

\* What holds of 0 and of the successor of whatever it holds of holds up to n.
LEMMA Climb ==
    ASSUME NEW n \in Nat, NEW S, 0 \in S, \A i \in 0..(n - 1) : i \in S => i + 1 \in S
    PROVE  0..n \subseteq S
<1> SUFFICES ASSUME (0..n) \ S # {} PROVE FALSE
  OBVIOUS
<1>1. PICK m \in (0..n) \ S : \A k \in (0..n) \ S : m <= k
  <2>1. (0..n) \ S \in SUBSET Nat
    OBVIOUS
  <2> QED
    BY <2>1, Least
<1>2. m # 0 /\ m - 1 \in 0..(n - 1)
  BY <1>1
<1>3. m - 1 \in S
  BY <1>1, <1>2
<1> QED
  BY <1>1, <1>2, <1>3

-----------------------------------------------------------------------------
(* Sizes *)

\* The recursion has a solution, so that Upto satisfies it.
LEMMA UptoIs ==
    ASSUME NEW s, Len(s) \in Nat
    PROVE  Upto(s) = [i \in 0..Len(s) |-> IF i = 0 THEN 0 ELSE Upto(s)[i - 1] + SizeOf[s[i].val]]
<1> DEFINE Solves(g, k) == g = [i \in 0..k |-> IF i = 0 THEN 0 ELSE g[i - 1] + SizeOf[s[i].val]]
           S == {k \in 0..Len(s) : \E g : Solves(g, k)}
<1>1. 0 \in S
  <2> DEFINE g == [i \in 0..0 |-> 0]
  <2>1. 0..0 = {0}
    OBVIOUS
  <2>2. g = [i \in 0..0 |-> IF i = 0 THEN 0 ELSE g[i - 1] + SizeOf[s[i].val]]
    BY <2>1
  <2>3. Solves(g, 0)
    BY <2>2
  <2> HIDE DEF Solves
  <2> QED
    BY <2>3
<1>2. ASSUME NEW k \in 0..(Len(s) - 1), k \in S PROVE k + 1 \in S
  <2>1. PICK g : Solves(g, k)
    BY <1>2
  <2> DEFINE h == [i \in 0..(k + 1) |-> IF i = k + 1 THEN g[k] + SizeOf[s[k + 1].val] ELSE g[i]]
  <2>2. \A i \in 0..k : h[i] = g[i] /\ g[i] = IF i = 0 THEN 0 ELSE g[i - 1] + SizeOf[s[i].val]
    <3> HIDE DEF h
    <3>1. \A i \in 0..k : g[i] = IF i = 0 THEN 0 ELSE g[i - 1] + SizeOf[s[i].val]
      BY <2>1
    <3> QED
      BY <3>1 DEF h
  <2>3. h[k + 1] = h[k] + SizeOf[s[k + 1].val]
    BY <2>2
  <2>4. h = [i \in 0..(k + 1) |-> h[i]]
    OBVIOUS
  <2> HIDE DEF h
  <2>5. \A i \in 0..(k + 1) : h[i] = IF i = 0 THEN 0 ELSE h[i - 1] + SizeOf[s[i].val]
    <3> TAKE i \in 0..(k + 1)
    <3>1. CASE i = k + 1
      BY <2>3, <3>1
    <3>2. CASE i = 0
      BY <2>2, <3>2
    <3>3. CASE i \in 1..k
      BY <2>2, <3>3
    <3> QED
      BY <3>1, <3>2, <3>3
  <2>6. Solves(h, k + 1)
    BY <2>4, <2>5
  <2> QED
    BY <2>6
<1>3. Len(s) \in S
  <2> HIDE DEF S
  <2>1. 0..Len(s) \subseteq S
    BY <1>1, <1>2, Climb
  <2> QED
    BY <2>1
<1> QED
  BY <1>3 DEF Upto

\* A prefix of a sequence of entries has a size, and each entry adds its own.
LEMMA UptoSteps ==
    ASSUME NEW s \in Seq(Entry)
    PROVE  /\ Upto(s)[0] = 0
           /\ \A i \in 1..Len(s) : /\ SizeOf[s[i].val] \in Nat
                                   /\ Upto(s)[i] = Upto(s)[i - 1] + SizeOf[s[i].val]
           /\ \A i \in 0..Len(s) : Upto(s)[i] \in Nat
<1>1. Len(s) \in Nat /\ \A i \in 1..Len(s) : SizeOf[s[i].val] \in Nat
  <2>1. \A i \in 1..Len(s) : s[i] \in Entry
    BY ElementOfSeq
  <2>2. \A i \in 1..Len(s) : s[i].val \in Value
    BY <2>1 DEF Entry
  <2> QED
    BY <2>2, LenProperties, CacheAssumption
<1>2. Upto(s) = [i \in 0..Len(s) |-> IF i = 0 THEN 0 ELSE Upto(s)[i - 1] + SizeOf[s[i].val]]
  BY <1>1, UptoIs
<1>3. Upto(s)[0] = 0 /\ \A i \in 1..Len(s) : Upto(s)[i] = Upto(s)[i - 1] + SizeOf[s[i].val]
  BY <1>1, <1>2
<1> DEFINE S == {i \in 0..Len(s) : Upto(s)[i] \in Nat}
<1>4. 0 \in S
  BY <1>1, <1>3
<1>5. \A i \in 0..(Len(s) - 1) : i \in S => i + 1 \in S
  BY <1>1, <1>3
<1> HIDE DEF S
<1>6. 0..Len(s) \subseteq S
  BY <1>1, <1>4, <1>5, Climb
<1> QED
  BY <1>1, <1>3, <1>6 DEF S

\* A stretch of s that holds what t holds adds what t adds.
LEMMA UptoShift ==
    ASSUME NEW s \in Seq(Entry), NEW t \in Seq(Entry), NEW k \in 0..Len(s), NEW n \in 0..Len(t),
           k + n <= Len(s), \A i \in 1..n : t[i].val = s[k + i].val
    PROVE  Upto(s)[k + n] = Upto(s)[k] + Upto(t)[n]
<1> DEFINE S == {i \in 0..n : Upto(s)[k + i] = Upto(s)[k] + Upto(t)[i]}
<1>1. Len(s) \in Nat /\ Len(t) \in Nat
  BY LenProperties
<1>2. 0 \in S
  BY <1>1, UptoSteps
<1>3. ASSUME NEW i \in 0..(n - 1), i \in S PROVE i + 1 \in S
  <2>1. /\ Upto(s)[k + i + 1] = Upto(s)[k + i] + SizeOf[s[k + i + 1].val]
        /\ Upto(s)[k + i] \in Nat /\ Upto(s)[k] \in Nat /\ SizeOf[s[k + i + 1].val] \in Nat
    <3>1. k + i + 1 \in 1..Len(s) /\ k + i \in 0..Len(s) /\ (k + i + 1) - 1 = k + i
      BY <1>1
    <3> QED
      BY <3>1, UptoSteps
  <2>2. Upto(t)[i + 1] = Upto(t)[i] + SizeOf[t[i + 1].val] /\ Upto(t)[i] \in Nat
    <3>1. i + 1 \in 1..Len(t) /\ i \in 0..Len(t) /\ (i + 1) - 1 = i
      BY <1>1
    <3> QED
      BY <3>1, UptoSteps
  <2>3. t[i + 1].val = s[k + i + 1].val
    BY <1>1
  <2> QED
    BY <1>1, <1>3, <2>1, <2>2, <2>3
<1> HIDE DEF S
<1>4. 0..n \subseteq S
  <2>1. n \in Nat
    BY <1>1
  <2> QED
    BY <1>2, <1>3, <2>1, Climb
<1> QED
  BY <1>1, <1>4 DEF S

\* The size of a sequence of entries is a number.
LEMMA SizeNat ==
    ASSUME NEW s \in Seq(Entry)
    PROVE  Len(s) \in Nat /\ Size(s) \in Nat
<1>1. Len(s) \in Nat /\ Len(s) \in 0..Len(s)
  BY LenProperties
<1> QED
  BY <1>1, UptoSteps DEF Size

\* One more entry weighs its own size more.
LEMMA SizeAppend ==
    ASSUME NEW s \in Seq(Entry), NEW e \in Entry
    PROVE  Size(Append(s, e)) = Size(s) + SizeOf[e.val]
<1> DEFINE t == Append(s, e)
<1>1. /\ t \in Seq(Entry) /\ Len(t) = Len(s) + 1 /\ t[Len(s) + 1] = e
      /\ \A i \in 1..Len(s) : t[i] = s[i] /\ Len(s) \in Nat
  BY AppendProperties, LenProperties
<1> HIDE DEF t
<1>2. Len(s) \in Nat
  BY LenProperties
<1>3. Upto(t)[0 + Len(s)] = Upto(t)[0] + Upto(s)[Len(s)]
  BY <1>1, <1>2, UptoShift
<1>4. Upto(t)[0] = 0 /\ Upto(t)[Len(t)] = Upto(t)[Len(t) - 1] + SizeOf[t[Len(t)].val]
  BY <1>1, <1>2, UptoSteps
<1>5. Upto(s)[Len(s)] \in Nat
  BY <1>2, UptoSteps
<1> QED
  BY <1>1, <1>2, <1>3, <1>4, <1>5 DEF Size, t

\* An entry taken out leaves the others in their order, and takes its size along.
LEMMA RemoveAtIs ==
    ASSUME NEW s \in Seq(Entry), NEW i \in 1..Len(s)
    PROVE  /\ RemoveAt(s, i) \in Seq(Entry) /\ Len(RemoveAt(s, i)) = Len(s) - 1
           /\ \A j \in 1..(i - 1) : RemoveAt(s, i)[j] = s[j]
           /\ \A j \in i..(Len(s) - 1) : RemoveAt(s, i)[j] = s[j + 1]
           /\ Size(RemoveAt(s, i)) = Size(s) - SizeOf[s[i].val]
<1> DEFINE a == SubSeq(s, 1, i - 1)
           b == SubSeq(s, i + 1, Len(s))
           t == RemoveAt(s, i)
<1>1. Len(s) \in Nat /\ \A j \in 1..Len(s) : s[j] \in Entry
  BY LenProperties, ElementOfSeq
<1>2. /\ a \in Seq(Entry) /\ Len(a) = i - 1 /\ \A j \in 1..(i - 1) : a[j] = s[j]
  <2>1. \A j \in 1..(i - 1) : s[j] \in Entry
    BY <1>1
  <2> QED
    BY <1>1, <2>1, SubSeqProperties
<1>3. b \in Seq(Entry) /\ Len(b) = Len(s) - i /\ \A j \in 1..(Len(s) - i) : b[j] = s[i + j]
  <2>1. \A j \in (i + 1)..Len(s) : s[j] \in Entry
    BY <1>1
  <2> HIDE DEF b
  <2>2. /\ b \in Seq(Entry) /\ Len(b) = IF i + 1 <= Len(s) THEN Len(s) - (i + 1) + 1 ELSE 0
        /\ \A j \in 1..(Len(s) - (i + 1) + 1) : b[j] = s[(i + 1) + j - 1]
    BY <1>1, <2>1, SubSeqProperties DEF b
  <2> QED
    BY <1>1, <2>2
<1>4. t = a \o b
  BY DEF RemoveAt
<1> HIDE DEF a, b, t
<1>5. /\ t \in Seq(Entry) /\ Len(t) = Len(s) - 1
      /\ \A j \in 1..(Len(s) - 1) : t[j] = IF j <= i - 1 THEN a[j] ELSE b[j - (i - 1)]
  <2>1. Len(a) + Len(b) = Len(s) - 1
    BY <1>1, <1>2, <1>3
  <2>2. /\ a \o b \in Seq(Entry) /\ Len(a \o b) = Len(a) + Len(b)
        /\ \A j \in 1..(Len(a) + Len(b)) : (a \o b)[j] = IF j <= Len(a) THEN a[j] ELSE b[j - Len(a)]
    BY <1>2, <1>3, ConcatProperties
  <2> QED
    BY <1>2, <1>4, <2>1, <2>2
<1>6. \A j \in 1..(i - 1) : t[j] = s[j]
  BY <1>1, <1>2, <1>5
<1>7. \A j \in i..(Len(s) - 1) : t[j] = s[j + 1] /\ t[j] = b[j - (i - 1)]
  BY <1>1, <1>3, <1>5
<1>8. Upto(s)[i] = Upto(s)[i - 1] + SizeOf[s[i].val]
  BY UptoSteps
<1>9. Upto(s)[i + Len(b)] = Upto(s)[i] + Upto(b)[Len(b)]
  <2>1. i \in 0..Len(s) /\ Len(b) \in 0..Len(b) /\ i + Len(b) <= Len(s)
    BY <1>1, <1>3
  <2>2. \A j \in 1..Len(b) : b[j].val = s[i + j].val
    BY <1>3
  <2> QED
    BY <1>3, <2>1, <2>2, UptoShift
<1>10. Upto(t)[(i - 1) + Len(b)] = Upto(t)[i - 1] + Upto(b)[Len(b)]
  <2>1. \A j \in 1..Len(b) : b[j].val = t[(i - 1) + j].val
    BY <1>1, <1>3, <1>5
  <2>2. i - 1 \in 0..Len(t) /\ Len(b) \in 0..Len(b) /\ (i - 1) + Len(b) <= Len(t)
    BY <1>1, <1>3, <1>5
  <2> QED
    BY <1>3, <1>5, <2>1, <2>2, UptoShift
<1>11. Upto(t)[0 + (i - 1)] = Upto(t)[0] + Upto(a)[i - 1]
  <2>1. 0 \in 0..Len(t) /\ i - 1 \in 0..Len(a) /\ 0 + (i - 1) <= Len(t)
    BY <1>1, <1>2, <1>5
  <2>2. \A j \in 1..(i - 1) : a[j].val = t[0 + j].val
    BY <1>1, <1>2, <1>6
  <2> QED
    BY <1>2, <1>5, <2>1, <2>2, UptoShift
<1>12. Upto(s)[0 + (i - 1)] = Upto(s)[0] + Upto(a)[i - 1]
  <2>1. 0 \in 0..Len(s) /\ i - 1 \in 0..Len(a) /\ 0 + (i - 1) <= Len(s)
    BY <1>1, <1>2
  <2>2. \A j \in 1..(i - 1) : a[j].val = s[0 + j].val
    BY <1>1, <1>2
  <2> QED
    BY <1>2, <2>1, <2>2, UptoShift
<1>13. /\ Upto(t)[0] = 0 /\ Upto(s)[0] = 0 /\ Upto(a)[i - 1] \in Nat /\ Upto(b)[Len(b)] \in Nat
       /\ SizeOf[s[i].val] \in Nat
  BY <1>1, <1>2, <1>3, <1>5, UptoSteps
<1>14. Upto(t)[Len(t)] = Upto(s)[Len(s)] - SizeOf[s[i].val]
  BY <1>1, <1>3, <1>5, <1>8, <1>9, <1>10, <1>11, <1>12, <1>13
<1> QED
  BY <1>5, <1>6, <1>7, <1>14 DEF Size, t

\* What remains of a sequence when its first i entries go.
LEMMA RestIs ==
    ASSUME NEW s \in Seq(Entry), NEW i \in 0..Len(s)
    PROVE  /\ SubSeq(s, i + 1, Len(s)) \in Seq(Entry) /\ Len(SubSeq(s, i + 1, Len(s))) = Len(s) - i
           /\ \A j \in 1..(Len(s) - i) : SubSeq(s, i + 1, Len(s))[j] = s[i + j]
           /\ Size(SubSeq(s, i + 1, Len(s))) = Size(s) - Upto(s)[i]
<1> DEFINE b == SubSeq(s, i + 1, Len(s))
<1>1. Len(s) \in Nat /\ \A j \in (i + 1)..Len(s) : s[j] \in Entry
  BY LenProperties, ElementOfSeq
<1> HIDE DEF b
<1>2. /\ b \in Seq(Entry) /\ Len(b) = IF i + 1 <= Len(s) THEN Len(s) - (i + 1) + 1 ELSE 0
      /\ \A j \in 1..(Len(s) - (i + 1) + 1) : b[j] = s[(i + 1) + j - 1]
  BY <1>1, SubSeqProperties DEF b
<1>3. Len(b) = Len(s) - i /\ \A j \in 1..(Len(s) - i) : b[j] = s[i + j]
  BY <1>1, <1>2
<1>4. Upto(s)[i + Len(b)] = Upto(s)[i] + Upto(b)[Len(b)]
  <2>1. i \in 0..Len(s) /\ Len(b) \in 0..Len(b) /\ i + Len(b) <= Len(s)
    BY <1>1, <1>3
  <2>2. \A j \in 1..Len(b) : b[j].val = s[i + j].val
    BY <1>3
  <2> QED
    BY <1>2, <2>1, <2>2, UptoShift
<1>5. Upto(s)[i] \in Nat /\ Upto(b)[Len(b)] \in Nat
  BY <1>1, <1>2, <1>3, UptoSteps
<1>6. Upto(b)[Len(b)] = Upto(s)[Len(s)] - Upto(s)[i]
  BY <1>1, <1>3, <1>4, <1>5
<1> QED
  BY <1>2, <1>3, <1>6 DEF Size, b

-----------------------------------------------------------------------------
(* The operations *)

\* No key is twice in s.
Unique(s) == \A i, j \in DOMAIN s : s[i].key = s[j].key => i = j

CacheInv ==
    /\ d \in Seq(Entry) /\ Unique(d)
    /\ WithinBudget

\* The place of a key is the only one that has it.
LEMMA AtIs ==
    ASSUME NEW s, Unique(s), NEW k, k \in Keys(s)
    PROVE  At(s, k) \in DOMAIN s /\ s[At(s, k)].key = k /\ \A i \in DOMAIN s : s[i].key = k => i = At(s, k)
BY DEF At, Keys, Unique

\* Dropping a key leaves every other entry (cache._drop).
LEMMA DroppedIs ==
    ASSUME CacheInv, NEW k
    PROVE  /\ Dropped(k).d \in Seq(Entry) /\ Unique(Dropped(k).d)
           /\ Range(Dropped(k).d) = {e \in Range(d) : e.key # k}
           /\ Dropped(k).bytes = Size(Dropped(k).d)
           /\ k \in Keys(d) => Len(Dropped(k).d) = Len(d) - 1
           /\ k \notin Keys(d) => Dropped(k).d = d
<1> USE DEF CacheInv, WithinBudget
<1>1. CASE k \notin Keys(d)
  BY <1>1 DEF Dropped, Keys, Range
<1>2. CASE k \in Keys(d)
  <2> DEFINE i == At(d, k)
             t == RemoveAt(d, i)
  <2>1. i \in DOMAIN d /\ d[i].key = k /\ \A j \in DOMAIN d : d[j].key = k => j = i
    BY <1>2, AtIs
  <2>2. Dropped(k) = [d |-> t, bytes |-> bytes - SizeOf[d[i].val]]
    BY <1>2 DEF Dropped
  <2>3. DOMAIN d = 1..Len(d) /\ Len(d) \in Nat
    BY LenProperties
  <2> HIDE DEF i
  <2>4. /\ t \in Seq(Entry) /\ Len(t) = Len(d) - 1 /\ Size(t) = Size(d) - SizeOf[d[i].val]
        /\ \A j \in 1..(i - 1) : t[j] = d[j]
        /\ \A j \in i..(Len(d) - 1) : t[j] = d[j + 1]
    BY <2>1, <2>3, RemoveAtIs
  <2> HIDE DEF t
  <2>5. DOMAIN t = 1..(Len(d) - 1)
    BY <2>4, LenProperties
  <2>6. \A j \in DOMAIN t : \/ j < i /\ j \in DOMAIN d /\ t[j] = d[j]
                            \/ j >= i /\ j + 1 \in DOMAIN d /\ t[j] = d[j + 1]
    BY <2>1, <2>3, <2>4, <2>5
  <2>7. \A j \in DOMAIN d : \/ j = i
                            \/ j < i /\ j \in DOMAIN t /\ t[j] = d[j]
                            \/ j > i /\ j - 1 \in DOMAIN t /\ t[j - 1] = d[j]
    BY <2>1, <2>3, <2>4, <2>5
  <2>8. Unique(t)
    <3> SUFFICES ASSUME NEW j \in DOMAIN t, NEW m \in DOMAIN t, t[j].key = t[m].key PROVE j = m
      BY DEF Unique
    <3>1. PICK x \in DOMAIN d : t[j] = d[x] /\ ((j < i /\ x = j) \/ (j >= i /\ x = j + 1))
      BY <2>6
    <3>2. PICK y \in DOMAIN d : t[m] = d[y] /\ ((m < i /\ y = m) \/ (m >= i /\ y = m + 1))
      BY <2>6
    <3>3. x = y
      BY <3>1, <3>2 DEF Unique
    <3>4. j \in Nat /\ m \in Nat /\ i \in Nat
      BY <2>1, <2>3, <2>5
    <3> QED
      BY <3>1, <3>2, <3>3, <3>4
  <2>9. Range(t) = {e \in Range(d) : e.key # k}
    <3>1. ASSUME NEW e \in Range(t) PROVE e \in Range(d) /\ e.key # k
      <4>1. PICK j \in DOMAIN t : t[j] = e
        BY <3>1 DEF Range
      <4>2. PICK x \in DOMAIN d : e = d[x] /\ ((j < i /\ x = j) \/ (j >= i /\ x = j + 1))
        BY <2>6, <4>1
      <4>3. x # i
        BY <2>1, <2>3, <2>5, <4>2
      <4> QED
        BY <2>1, <4>2, <4>3 DEF Range
    <3>2. ASSUME NEW e \in Range(d), e.key # k PROVE e \in Range(t)
      <4>1. PICK j \in DOMAIN d : d[j] = e
        BY <3>2 DEF Range
      <4>2. j # i
        BY <2>1, <3>2, <4>1
      <4> QED
        BY <2>7, <4>1, <4>2 DEF Range
    <3> QED
      BY <3>1, <3>2
  <2> QED
    BY <1>2, <2>2, <2>4, <2>8, <2>9
<1> QED
  BY <1>1, <1>2

\* An entry at the young end, of a key that is nowhere else, keeps the keys unique.
LEMMA AppendIs ==
    ASSUME NEW s \in Seq(Entry), Unique(s), NEW e \in Entry, \A x \in Range(s) : x.key # e.key
    PROVE  /\ Append(s, e) \in Seq(Entry) /\ Unique(Append(s, e)) /\ Len(Append(s, e)) = Len(s) + 1
           /\ Range(Append(s, e)) = Range(s) \cup {e} /\ Append(s, e)[Len(s) + 1] = e
           /\ Size(Append(s, e)) = Size(s) + SizeOf[e.val]
<1> DEFINE t == Append(s, e)
<1>1. /\ t \in Seq(Entry) /\ Len(t) = Len(s) + 1 /\ t[Len(s) + 1] = e
      /\ \A i \in 1..Len(s) : t[i] = s[i]
  BY AppendProperties
<1>2. Len(s) \in Nat /\ DOMAIN s = 1..Len(s) /\ DOMAIN t = 1..(Len(s) + 1)
  BY <1>1, LenProperties
<1>3. Size(t) = Size(s) + SizeOf[e.val]
  BY SizeAppend
<1> HIDE DEF t
<1>4. \A i \in DOMAIN t : i = Len(s) + 1 \/ (i \in DOMAIN s /\ t[i] = s[i] /\ t[i] \in Range(s))
  BY <1>1, <1>2 DEF Range
<1>5. Unique(t)
  BY <1>1, <1>4 DEF Unique
<1>6. \A i \in DOMAIN s : i \in DOMAIN t /\ t[i] = s[i]
  BY <1>1, <1>2
<1>7. Range(t) = Range(s) \cup {e}
  BY <1>1, <1>2, <1>4, <1>6 DEF Range
<1> QED
  BY <1>1, <1>3, <1>5, <1>7 DEF t

\* The eviction loop ends, within both budgets, before it reaches the newest entry.
LEMMA EvictIs ==
    ASSUME NEW s \in Seq(Entry), s # <<>>, Unique(s), Evict(s, Size(s))
    PROVE  /\ d' \in Seq(Entry) /\ Unique(d') /\ WithinBudget'
           /\ Range(d') \subseteq Range(s) /\ s[Len(s)] \in Range(d')
<1> DEFINE Rest(i) == SubSeq(s, i + 1, Len(s))
           Count(i) == Size(s) - Upto(s)[i]
           Stops(j) == /\ ~OverBudget(Rest(j), Count(j))
                       /\ \A m \in 0..(j - 1) : OverBudget(Rest(m), Count(m))
<1>1. Len(s) \in Nat \ {0} /\ DOMAIN s = 1..Len(s)
  BY EmptySeq, LenProperties
<1>2. \A i \in 0..Len(s) : Len(Rest(i)) = Len(s) - i
  BY RestIs
<1>3. \E j \in 0..(Len(s) - 1) : Stops(j)
  <2> DEFINE S == {j \in 0..Len(s) : ~OverBudget(Rest(j), Count(j))}
  <2>1. Len(s) - 1 \in S
    <3>1. Len(s) - 1 \in 0..Len(s) /\ Len(Rest(Len(s) - 1)) = 1
      <4>1. Len(s) - 1 \in 0..Len(s) /\ Len(s) - (Len(s) - 1) = 1
        BY <1>1
      <4> HIDE DEF Rest
      <4> QED
        BY <1>2, <4>1
    <3> QED
      BY <3>1, CacheAssumption DEF OverBudget
  <2>2. PICK j \in S : \A m \in S : j <= m
    <3>1. S \in SUBSET Nat /\ S # {}
      BY <1>1, <2>1
    <3> HIDE DEF S
    <3> QED
      BY <3>1, Least
  <2>3. j \in 0..(Len(s) - 1)
    BY <1>1, <2>1, <2>2
  <2>4. \A m \in 0..(j - 1) : m \in 0..Len(s) /\ ~(j <= m)
    BY <1>1, <2>3
  <2> QED
    BY <2>2, <2>3, <2>4
<1> DEFINE i == CHOOSE j \in 0..Len(s) : Stops(j)
<1>4. d' = Rest(i) /\ bytes' = Count(i)
  BY DEF Evict
<1>5. i \in 0..Len(s) /\ Stops(i)
  <2> HIDE DEF Stops
  <2> QED
    BY <1>1, <1>3
<1> HIDE DEF i
<1>6. i \in 0..(Len(s) - 1)
  <2>1. PICK j \in 0..(Len(s) - 1) : Stops(j)
    BY <1>3
  <2>2. ~(j \in 0..(i - 1))
    BY <1>5, <2>1
  <2> QED
    BY <1>1, <1>5, <2>1, <2>2
<1>7. /\ d' \in Seq(Entry) /\ Len(d') = Len(s) - i /\ Size(d') = bytes'
      /\ \A j \in 1..(Len(s) - i) : d'[j] = s[i + j]
  BY <1>4, <1>5, RestIs
<1>8. DOMAIN d' = 1..(Len(s) - i)
  BY <1>7, LenProperties
<1>9. ~OverBudget(d', bytes')
  BY <1>4, <1>5
<1> HIDE DEF Rest, Count, Stops
<1>10. \A j \in DOMAIN d' : i + j \in DOMAIN s /\ d'[j] = s[i + j] /\ j \in Nat
  BY <1>1, <1>6, <1>7, <1>8
<1>11. Unique(d')
  <2> SUFFICES ASSUME NEW j \in DOMAIN d', NEW m \in DOMAIN d', d'[j].key = d'[m].key PROVE j = m
    BY DEF Unique
  <2>1. i + j = i + m
    BY <1>10 DEF Unique
  <2> QED
    BY <1>6, <1>10, <2>1
<1>12. Range(d') \subseteq Range(s)
  BY <1>10 DEF Range
<1>13. s[Len(s)] \in Range(d')
  <2>1. Len(s) - i \in DOMAIN d' /\ d'[Len(s) - i] = s[Len(s)]
    BY <1>1, <1>6, <1>7, <1>8
  <2> QED
    BY <2>1 DEF Range
<1>14. WithinBudget'
  <2>1. bytes' \in Nat
    <3>1. Upto(d')[Len(d')] \in Nat
      BY <1>1, <1>6, <1>7, UptoSteps
    <3> QED
      BY <1>7, <3>1 DEF Size
  <2> QED
    BY <1>1, <1>6, <1>7, <1>9, <2>1, CacheAssumption DEF OverBudget, WithinBudget
<1> QED
  BY <1>7, <1>11, <1>12, <1>13, <1>14

-----------------------------------------------------------------------------
(* What a get shows *)

Shown(e) == [val |-> e.val, left |-> e.left]

Shows(s, k) == IF \E i \in DOMAIN s : s[i].key = k /\ s[i].left >= 0
               THEN [val |-> s[At(s, k)].val, left |-> s[At(s, k)].left] ELSE None

\* The refinement, said of one dictionary and key.
LEMMA StoreShows ==
    /\ Store = [k \in Key |-> Shows(d, k)]
    /\ Store' = [k \in Key |-> Shows(d', k)]
BY DEF Store, Shows, At

\* What a dictionary shows for a key is its one live entry of that key.
LEMMA ShowsIs ==
    ASSUME NEW s \in Seq(Entry), Unique(s), NEW k
    PROVE  /\ \A e \in Range(s) : e.key = k /\ e.left >= 0 => Shows(s, k) = Shown(e) /\ Shown(e) # None
           /\ (\A e \in Range(s) : e.key = k => ~(e.left >= 0)) => Shows(s, k) = None
<1>1. ASSUME NEW e \in Range(s), e.key = k, e.left >= 0
      PROVE  Shows(s, k) = Shown(e) /\ Shown(e) # None
  <2>1. PICK i \in DOMAIN s : s[i] = e
    BY <1>1 DEF Range
  <2>2. k \in Keys(s)
    BY <1>1, <2>1 DEF Keys
  <2>3. At(s, k) = i
    BY <1>1, <2>1, <2>2, AtIs
  <2>4. e \in Entry
    BY RangeOfSeq
  <2>5. Shown(e) \in [val : Value, left : Nat]
    BY <1>1, <2>4 DEF Shown, Entry
  <2> QED
    BY <1>1, <2>1, <2>3, <2>5, CacheAssumption DEF Shows, Shown
<1>2. ASSUME \A e \in Range(s) : e.key = k => ~(e.left >= 0)
      PROVE  Shows(s, k) = None
  BY <1>2 DEF Shows, Range
<1> QED
  BY <1>1, <1>2

\* Two dictionaries with the same live entries of a key show the same for it.
LEMMA ShowsSame ==
    ASSUME NEW s \in Seq(Entry), Unique(s), NEW t \in Seq(Entry), Unique(t), NEW k,
           \A e : e.key = k /\ e.left >= 0 => (e \in Range(s) <=> e \in Range(t))
    PROVE  Shows(s, k) = Shows(t, k)
<1>1. CASE \E e \in Range(s) : e.key = k /\ e.left >= 0
  BY <1>1, ShowsIs
<1>2. CASE \A e \in Range(s) : ~(e.key = k /\ e.left >= 0)
  BY <1>2, ShowsIs
<1> QED
  BY <1>1, <1>2

-----------------------------------------------------------------------------
(* The steps: each keeps the invariant and is a step of the lossy map *)

LEMMA GetStep ==
    ASSUME CacheInv, NEW k \in Key, Get(k)
    PROVE  CacheInv' /\ Lossy!LossyGet(k)
<1> USE DEF CacheInv
<1>1. CASE GetMiss(k)
  <2>1. d' = d /\ bytes' = bytes /\ k \notin Keys(d) /\ got' = None
    BY <1>1 DEF GetMiss
  <2>2. Shows(d, k) = None
    BY <2>1 DEF Keys, Shows
  <2> QED
    BY <2>1, <2>2, StoreShows DEF WithinBudget, Lossy!LossyGet
<1>2. ASSUME k \in Keys(d)
      PROVE  /\ d[At(d, k)] \in Range(d) /\ d[At(d, k)] \in Entry /\ d[At(d, k)].key = k
             /\ \A e \in Range(d) : e.key = k => e = d[At(d, k)]
  <2>1. At(d, k) \in DOMAIN d /\ d[At(d, k)].key = k /\ \A i \in DOMAIN d : d[i].key = k => i = At(d, k)
    BY <1>2, AtIs
  <2> QED
    BY <2>1, RangeOfSeq DEF Range
<1>3. CASE GetExpired(k)
  <2>1. /\ k \in Keys(d) /\ d[At(d, k)].left < 0 /\ got' = None
        /\ d' = Dropped(k).d /\ bytes' = Dropped(k).bytes
    BY <1>3 DEF GetExpired
  <2>2. /\ d' \in Seq(Entry) /\ Unique(d') /\ Range(d') = {e \in Range(d) : e.key # k}
        /\ bytes' = Size(d') /\ Len(d') = Len(d) - 1
    BY <2>1, DroppedIs
  <2>3. /\ Len(d) \in Nat /\ Len(d') \in Nat /\ Size(d) \in Nat /\ Size(d') \in Nat
        /\ Size(d') <= Size(d) \/ Len(d') = 0
    <3>1. At(d, k) \in 1..Len(d) /\ Dropped(k).bytes = bytes - SizeOf[d[At(d, k)].val]
      BY <2>1, AtIs, LenProperties DEF Dropped
    <3>2. SizeOf[d[At(d, k)].val] \in Nat
      BY <3>1, UptoSteps
    <3>3. Len(d) \in Nat /\ Len(d') \in Nat /\ Size(d) \in Nat /\ Size(d') \in Nat
      BY <2>2, SizeNat
    <3>4. Size(d') = Size(d) - SizeOf[d[At(d, k)].val]
      BY <2>1, <2>2, <3>1 DEF WithinBudget
    <3> QED
      BY <3>2, <3>3, <3>4
  <2>4. Len(d') = 0 => Size(d') = 0
    BY <2>2, UptoSteps DEF Size
  <2>5. WithinBudget'
    BY <2>2, <2>3, <2>4, CacheAssumption DEF WithinBudget
  <2>6. \A m \in Key : Shows(d', m) = Shows(d, m)
    <3>1. ASSUME NEW m \in Key, NEW e, e.key = m, e.left >= 0
          PROVE  e \in Range(d') <=> e \in Range(d)
      <4>1. CASE m = k
        <5>1. d[At(d, k)].left \in Int
          BY <1>2, <2>1 DEF Entry
        <5>2. e \notin Range(d)
          BY <1>2, <2>1, <3>1, <4>1, <5>1
        <5> QED
          BY <2>2, <5>2
      <4>2. CASE m # k
        BY <2>2, <3>1, <4>2
      <4> QED
        BY <4>1, <4>2
    <3> QED
      BY <2>2, <3>1, ShowsSame
  <2>7. Shows(d, k) = None
    <3>1. d[At(d, k)].left \in Int
      BY <1>2, <2>1 DEF Entry
    <3>2. \A e \in Range(d) : e.key = k => ~(e.left >= 0)
      BY <1>2, <2>1, <3>1
    <3> QED
      BY <3>2, ShowsIs
  <2> QED
    BY <2>1, <2>2, <2>5, <2>6, <2>7, StoreShows DEF Lossy!LossyGet
<1>4. CASE GetHit(k)
  <2> DEFINE e == d[At(d, k)]
  <2>1. /\ k \in Keys(d) /\ e.left >= 0 /\ got' = e.val /\ bytes' = bytes
        /\ d' = Append(Dropped(k).d, e)
    BY <1>4 DEF GetHit
  <2>2. /\ Dropped(k).d \in Seq(Entry) /\ Unique(Dropped(k).d)
        /\ Range(Dropped(k).d) = {x \in Range(d) : x.key # k}
        /\ Dropped(k).bytes = Size(Dropped(k).d) /\ Len(Dropped(k).d) = Len(d) - 1
        /\ Dropped(k).bytes = bytes - SizeOf[e.val]
    BY <2>1, DroppedIs DEF Dropped
  <2>3. e \in Range(d) /\ e \in Entry /\ e.key = k /\ \A x \in Range(d) : x.key = k => x = e
    BY <1>2, <2>1
  <2> HIDE DEF e
  <2>4. /\ d' \in Seq(Entry) /\ Unique(d') /\ Len(d') = Len(Dropped(k).d) + 1
        /\ Range(d') = {x \in Range(d) : x.key # k} \cup {e}
        /\ Size(d') = Size(Dropped(k).d) + SizeOf[e.val]
    BY <2>1, <2>2, <2>3, AppendIs
  <2>5. Range(d') = Range(d)
    BY <2>3, <2>4
  <2>6. /\ Len(d) \in Nat /\ Size(d) \in Nat /\ SizeOf[e.val] \in Nat
    <3>1. e.val \in Value
      BY <2>3 DEF Entry
    <3> QED
      BY <3>1, SizeNat, CacheAssumption
  <2>7. Len(d') = Len(d) /\ Size(d') = Size(d)
    <3>1. Size(d') = (Size(d) - SizeOf[e.val]) + SizeOf[e.val] /\ Len(d') = (Len(d) - 1) + 1
      BY <2>2, <2>4 DEF WithinBudget
    <3> QED
      BY <2>6, <3>1
  <2>8. WithinBudget'
    BY <2>1, <2>7 DEF WithinBudget
  <2>9. \A m \in Key : Shows(d', m) = Shows(d, m)
    BY <2>4, <2>5, ShowsSame
  <2>10. Shows(d, k) = Shown(e) /\ Shown(e) # None
    BY <2>1, <2>3, ShowsIs
  <2>11. Shown(e).val = e.val
    BY DEF Shown
  <2> QED
    BY <2>1, <2>4, <2>8, <2>9, <2>10, <2>11, StoreShows DEF Lossy!LossyGet
<1> QED
  BY <1>1, <1>3, <1>4 DEF Get

LEMMA PutStep ==
    ASSUME CacheInv, NEW k \in Key, NEW v \in Value, NEW ttl \in Ttl, Put(k, v, ttl)
    PROVE  CacheInv' /\ Lossy!LossyPut(k, v, ttl) /\ k \in Keys(d')
<1> DEFINE e == [key |-> k, val |-> v, left |-> ttl]
           s == Append(Dropped(k).d, e)
<1> USE DEF CacheInv
<1>1. e \in Entry /\ e.key = k /\ e.val = v /\ e.left = ttl /\ e.left >= 0
  BY CacheAssumption DEF Entry
<1>2. /\ Dropped(k).d \in Seq(Entry) /\ Unique(Dropped(k).d)
      /\ Range(Dropped(k).d) = {x \in Range(d) : x.key # k}
      /\ Dropped(k).bytes = Size(Dropped(k).d)
  BY DroppedIs
<1>3. /\ s \in Seq(Entry) /\ Unique(s) /\ Len(s) = Len(Dropped(k).d) + 1
      /\ Range(s) = {x \in Range(d) : x.key # k} \cup {e}
      /\ s[Len(s)] = e /\ Size(s) = Dropped(k).bytes + SizeOf[v] /\ s # <<>>
  <2> HIDE DEF e
  <2>1. \A x \in Range(Dropped(k).d) : x.key # e.key
    BY <1>1, <1>2
  <2> QED
    BY <1>1, <1>2, <2>1, AppendIs, AppendProperties
<1>4. Evict(s, Size(s)) /\ got' = got
  BY <1>3 DEF Put
<1> HIDE DEF s, e
<1>5. /\ d' \in Seq(Entry) /\ Unique(d') /\ WithinBudget'
      /\ Range(d') \subseteq Range(s) /\ e \in Range(d')
  BY <1>3, <1>4, EvictIs
<1>6. Shows(d', k) = Shown(e) /\ Shown(e) # None /\ Shown(e) = [val |-> v, left |-> ttl]
  BY <1>1, <1>5, ShowsIs DEF Shown
<1>7. ASSUME NEW m \in Key, m # k PROVE Shows(d', m) \in {Shows(d, m), None}
  <2>1. CASE \E x \in Range(d') : x.key = m /\ x.left >= 0
    <3>1. PICK x \in Range(d') : x.key = m /\ x.left >= 0
      BY <2>1
    <3>2. x \in Range(d)
      BY <1>1, <1>3, <1>5, <1>7, <3>1
    <3> QED
      BY <1>5, <3>1, <3>2, ShowsIs
  <2>2. CASE \A x \in Range(d') : x.key = m => ~(x.left >= 0)
    BY <1>5, <2>2, ShowsIs
  <2> QED
    BY <2>1, <2>2
<1>8. k \in Keys(d')
  BY <1>1, <1>5 DEF Keys, Range
<1>9. Lossy!LossyPut(k, v, ttl)
  <2> DEFINE new == [val |-> v, left |-> ttl]
  <2> HIDE DEF new
  <2>1. /\ Store = [m \in Key |-> Shows(d, m)] /\ Store' = [m \in Key |-> Shows(d', m)]
        /\ Store'[k] = new /\ new # None
        /\ \A m \in Key \ {k} : Store'[m] \in {Store[m], None}
    BY <1>6, <1>7, StoreShows DEF new
  <2> HIDE DEF Store
  <2>2. Store' \in [Key -> {None, new} \cup {Store[m] : m \in Key}]
    <3>1. \A m \in Key : Store'[m] \in {None, new} \cup {Store[n] : n \in Key}
      BY <2>1
    <3> QED
      BY <2>1, <3>1
  <2>3. \A m \in Key : Store'[m] \in {[Store EXCEPT ![k] = new][m], None}
    BY <2>1
  <2> QED
    BY <1>4, <2>1, <2>2, <2>3 DEF Lossy!LossyPut, Lossy!Loses, new
<1> QED
  BY <1>5, <1>8, <1>9

LEMMA ClearStep ==
    ASSUME CacheInv, Clear
    PROVE  CacheInv' /\ Lossy!LossyClear
<1>1. d' = <<>> /\ bytes' = 0 /\ got' = got
  BY DEF Clear
<1>2. <<>> \in Seq(Entry) /\ Unique(<<>>) /\ Len(<<>>) = 0 /\ DOMAIN <<>> = {}
  BY DEF Unique
<1>3. Size(<<>>) = 0
  BY <1>2, UptoSteps DEF Size
<1>4. CacheInv'
  BY <1>1, <1>2, <1>3, CacheAssumption DEF CacheInv, WithinBudget
<1>5. \A k \in Key : Shows(d', k) = None
  BY <1>1 DEF Shows
<1> QED
  BY <1>1, <1>4, <1>5, StoreShows DEF Lossy!LossyClear

LEMMA TickStep ==
    ASSUME CacheInv, Tick
    PROVE  CacheInv' /\ Lossy!LossyTick
<1> DEFINE Aged(e) == [e EXCEPT !.left = IF @ < 0 THEN @ ELSE @ - 1]
<1> USE DEF CacheInv
<1>1. /\ d' = [i \in DOMAIN d |-> Aged(d[i])] /\ bytes' = bytes /\ got' = got
  BY DEF Tick
<1>2. \A e \in Entry : /\ Aged(e) \in Entry /\ Aged(e).key = e.key /\ Aged(e).val = e.val
                       /\ Aged(e).left = IF e.left < 0 THEN e.left ELSE e.left - 1
  BY DEF Entry
<1> HIDE DEF Aged
<1>3. /\ DOMAIN d = 1..Len(d) /\ Len(d) \in Nat /\ \A i \in DOMAIN d : d[i] \in Entry
  BY LenProperties, ElementOfSeq
<1>4. d' \in Seq(Entry) /\ Len(d') = Len(d) /\ DOMAIN d' = DOMAIN d /\ \A i \in DOMAIN d : d'[i] = Aged(d[i])
  <2>1. \A i \in 1..Len(d) : Aged(d[i]) \in Entry
    BY <1>2, <1>3
  <2>2. d' \in Seq(Entry) /\ Len(d') = Len(d)
    BY <1>1, <1>3, <2>1, IsASeq
  <2> QED
    BY <1>1, <2>2
<1>5. Unique(d')
  BY <1>2, <1>3, <1>4 DEF Unique
<1>6. Size(d') = Size(d)
  <2>1. 0 \in 0..Len(d') /\ Len(d) \in 0..Len(d) /\ 0 + Len(d) <= Len(d')
    BY <1>3, <1>4
  <2>2. \A i \in 1..Len(d) : d[i].val = d'[0 + i].val
    BY <1>2, <1>3, <1>4
  <2>3. Upto(d')[0 + Len(d)] = Upto(d')[0] + Upto(d)[Len(d)]
    BY <1>4, <2>1, <2>2, UptoShift
  <2>4. Upto(d')[0] = 0 /\ Upto(d)[Len(d)] \in Nat
    BY <1>3, <1>4, UptoSteps
  <2> QED
    BY <1>3, <1>4, <2>3, <2>4 DEF Size
<1>7. WithinBudget'
  BY <1>1, <1>4, <1>6 DEF WithinBudget
<1>8. ASSUME NEW k \in Key
      PROVE  Shows(d', k) = IF Shows(d, k) = None \/ Shows(d, k).left = 0 THEN None
                            ELSE [Shows(d, k) EXCEPT !.left = @ - 1]
  <2>1. Range(d') = {Aged(e) : e \in Range(d)}
    BY <1>4 DEF Range
  <2>2. \A e \in Range(d) : e \in Entry
    BY RangeOfSeq
  <2>3. CASE \E e \in Range(d) : e.key = k /\ e.left >= 0
    <3>1. PICK e \in Range(d) : e.key = k /\ e.left >= 0
      BY <2>3
    <3>2. /\ Shows(d, k) = Shown(e) /\ Shown(e) # None /\ Shown(e).left = e.left /\ e.left \in Nat
      <4>1. e.left \in Int
        BY <2>2 DEF Entry
      <4>2. Shows(d, k) = Shown(e) /\ Shown(e) # None
        BY <3>1, ShowsIs
      <4> QED
        BY <3>1, <4>1, <4>2 DEF Shown
    <3>3. Aged(e) \in Range(d') /\ Aged(e).key = k /\ Aged(e).val = e.val /\ Aged(e).left = e.left - 1
      BY <1>2, <2>1, <2>2, <3>1, <3>2
    <3>4. CASE e.left = 0
      <4>1. \A x \in Range(d') : x.key = k => x = Aged(e)
        BY <1>4, <1>5, <3>3 DEF Unique, Range
      <4>2. ~(Aged(e).left >= 0)
        BY <3>3, <3>4
      <4>3. Shows(d', k) = None
        BY <1>4, <1>5, <4>1, <4>2, ShowsIs
      <4> QED
        BY <3>2, <3>4, <4>3
    <3>5. CASE e.left # 0
      <4>1. Shows(d', k) = Shown(Aged(e))
        BY <1>4, <1>5, <3>2, <3>3, <3>5, ShowsIs
      <4>2. Shown(Aged(e)) = [Shown(e) EXCEPT !.left = @ - 1]
        BY <3>3 DEF Shown
      <4> QED
        BY <3>2, <3>5, <4>1, <4>2
    <3> QED
      BY <3>4, <3>5
  <2>4. CASE \A e \in Range(d) : e.key = k => ~(e.left >= 0)
    <3>1. Shows(d, k) = None
      BY <2>4, ShowsIs
    <3>2. \A x \in Range(d') : x.key = k => ~(x.left >= 0)
      <4> SUFFICES ASSUME NEW e \in Range(d), e.key = k PROVE ~(Aged(e).left >= 0)
        BY <1>2, <2>1, <2>2
      <4> QED
        BY <1>2, <2>2, <2>4 DEF Entry
    <3> QED
      BY <1>4, <1>5, <3>1, <3>2, ShowsIs
  <2> QED
    BY <2>3, <2>4
<1>9. Lossy!LossyTick
  BY <1>1, <1>8, StoreShows DEF Lossy!LossyTick
<1> QED
  BY <1>4, <1>5, <1>7, <1>9

-----------------------------------------------------------------------------
(* The theorems *)

LEMMA CacheInit ==
    ASSUME Init PROVE CacheInv /\ Lossy!LossyInit
<1>1. <<>> \in Seq(Entry) /\ Unique(<<>>) /\ Len(<<>>) = 0 /\ DOMAIN <<>> = {}
  BY DEF Unique
<1>2. Size(<<>>) = 0
  BY <1>1, UptoSteps DEF Size
<1>3. CacheInv
  BY <1>1, <1>2, CacheAssumption DEF Init, CacheInv, WithinBudget
<1>4. \A k \in Key : Shows(d, k) = None
  BY <1>1 DEF Init, Shows
<1> QED
  BY <1>3, <1>4, StoreShows DEF Init, Lossy!LossyInit

LEMMA CacheNext ==
    ASSUME CacheInv, [Next]_vars
    PROVE  CacheInv' /\ [Lossy!LossyNext]_<<Store, got>>
<1>1. CASE UNCHANGED vars
  <2>1. d' = d /\ bytes' = bytes /\ got' = got
    BY <1>1 DEF vars
  <2> QED
    BY <2>1, StoreShows DEF CacheInv, WithinBudget
<1>2. ASSUME NEW k \in Key, Get(k) PROVE CacheInv' /\ Lossy!LossyNext
  BY <1>2, GetStep DEF Lossy!LossyNext
<1>3. ASSUME NEW k \in Key, NEW v \in Value, NEW t \in Ttl, Put(k, v, t) PROVE CacheInv' /\ Lossy!LossyNext
  BY <1>3, PutStep DEF Lossy!LossyNext
<1>4. CASE Clear
  BY <1>4, ClearStep DEF Lossy!LossyNext
<1>5. CASE Tick
  BY <1>5, TickStep DEF Lossy!LossyNext
<1> QED
  BY <1>1, <1>2, <1>3, <1>4, <1>5 DEF Next

\* The inductive invariant: the budgets, and no key in two entries, without which an
\* entry that is dropped would leave another one behind it, uncounted.
THEOREM CacheInvariant == Spec => []CacheInv
<1>1. Init => CacheInv
  BY CacheInit
<1>2. CacheInv /\ [Next]_vars => CacheInv'
  BY CacheNext
<1> QED
  BY <1>1, <1>2, PTL DEF Spec

\* The byte count is the resident size and both budgets hold after every operation
\* (cache.py:60-63, 79-89).
THEOREM BudgetsHold == Spec => []WithinBudget
<1>1. CacheInv => WithinBudget
  BY DEF CacheInv
<1> QED
  BY <1>1, CacheInvariant, PTL

\* A put is not undone by the eviction it causes (cache.py:83-89).
THEOREM PutKeeps == Spec => PutIsKept
<1> DEFINE A == \A k \in Key, v \in Value, t \in Ttl : Put(k, v, t) => k \in Keys(d')
<1>1. CacheInv /\ [Next]_vars => [A]_vars
  BY PutStep
<1>2. Spec => [][A]_vars
  BY <1>1, CacheInvariant, PTL DEF Spec
<1> QED
  BY <1>2 DEF PutIsKept

\* The cache implements the lossy map: whatever is evicted, replaced, expired or moved to
\* the young end, a get shows the value last put under its key, in its time, or nothing.
THEOREM CacheIsLossyMap == Spec => IsLossyMap
<1>1. Init => Lossy!LossyInit
  BY CacheInit
<1>2. CacheInv /\ [Next]_vars => [Lossy!LossyNext]_<<Store, got>>
  BY CacheNext
<1>3. Spec => Lossy!LossyInit /\ [][Lossy!LossyNext]_<<Store, got>>
  BY <1>1, <1>2, CacheInvariant, PTL DEF Spec
<1> QED
  BY <1>3 DEF IsLossyMap, Lossy!LossySpec

=============================================================================
