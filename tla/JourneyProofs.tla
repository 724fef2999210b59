----------------------------- MODULE JourneyProofs -----------------------------
(***************************************************************************)
(* What the tools of a journey promise: the cab tools (Places) for any     *)
(* number of servers, places, names, suggestions and listings, and the     *)
(* comparison of one leg (Intercity) for whatever the sites may answer.    *)
(* The two share the lemmas about orders, selections and sorting, on which *)
(* the parsers and both tools are built.                                   *)
(*   A place that was registered is the one that is priced.                *)
(* RegisteredIsPriced is not inductive: what is registered agrees with the *)
(* file only because the one server that saves builds its text from that   *)
(* very file (InStep), because data.tmp is never the file under data.json  *)
(* (Apart), and because a second save is seen to begin within the first    *)
(* (Alone).                                                                *)
(*   A lookup warns unless the place was named, and a quote is what its    *)
(* label says.  A server saves a place before it says how it found it, and *)
(* asks the site after the trip was looked at, so that SaidInv speaks of   *)
(* what a server has in hand as well (Waiting).  Which places were named   *)
(* is settled by what the variants of a query are, the runs of its words   *)
(* (VariantsAre), and by what a comprehension keeps (PickedSet).           *)
(*   The six promises of the comparison are proved from one invariant,     *)
(* LegInv.  Each is about rows that were added one mode at a time, and     *)
(* what makes them inductive is that a mode that had its turn has a row or *)
(* a note by then (Answered, Past), and that what the parsers put into a   *)
(* row is a figure (RowOk).  The rest is about the parsers: where      *)
(* references lead is where the first node is that is none (ResolveIs),    *)
(* a class that a page offers is among the classes of its train            *)
(* (OfferedIsRead) and survives the filter (FilteredIs), and of the rows   *)
(* that beat a row, the least is not itself marked (MarksAreFacts).        *)
(***************************************************************************)
EXTENDS Places, Intercity, FiniteSetTheorems, SequenceTheorems, WellFoundedInduction, TLAPS


-----------------------------------------------------------------------------
(* Orders and selections *)

\* `before' is a strict total order on S.
Orders(before, S) ==
    /\ \A i, j \in S : <<i, j>> \in before => <<j, i>> \notin before
    /\ \A i, j, k \in S : <<i, j>> \in before /\ <<j, k>> \in before => <<i, k>> \in before
    /\ \A i, j \in S : i # j => <<i, j>> \in before \/ <<j, i>> \in before

\* A finite set has one member at each place of an order: as many members come before it
\* as before no other, and no number of them is left out.
LEMMA InOrderIs ==
    ASSUME NEW S, IsFiniteSet(S), NEW before, Orders(before, S)
    PROVE  /\ Cardinality(S) \in Nat /\ DOMAIN InOrder(S, before) = 1..Cardinality(S)
           /\ \A n \in 1..Cardinality(S) : InOrder(S, before)[n] \in S
           /\ \A i \in S : \E n \in 1..Cardinality(S) : InOrder(S, before)[n] = i
           /\ \A m, n \in 1..Cardinality(S) :
                m < n <=> <<InOrder(S, before)[m], InOrder(S, before)[n]>> \in before
<1> DEFINE N == Cardinality(S)
           at == InOrder(S, before)
           Below(i) == {j \in S : <<j, i>> \in before}
           rank == [i \in S |-> Cardinality(Below(i))]
<1>1. N \in Nat
  BY FS_CardinalityType
<1>2. \A i \in S : IsFiniteSet(Below(i)) /\ rank[i] \in 0..(N - 1)
  <2> SUFFICES ASSUME NEW i \in S PROVE IsFiniteSet(Below(i)) /\ Cardinality(Below(i)) \in 0..(N - 1)
    OBVIOUS
  <2>1. Below(i) \in SUBSET (S \ {i})
    BY DEF Orders
  <2>2. IsFiniteSet(S \ {i}) /\ Cardinality(S \ {i}) = N - 1
    BY FS_RemoveElement
  <2> HIDE DEF Below
  <2>3. IsFiniteSet(Below(i)) /\ Cardinality(Below(i)) <= N - 1
    BY <2>1, <2>2, FS_Subset
  <2> QED
    BY <1>1, <2>3, FS_CardinalityType
<1>3. \A i, j \in S : <<i, j>> \in before => rank[i] < rank[j]
  <2> SUFFICES ASSUME NEW i \in S, NEW j \in S, <<i, j>> \in before
               PROVE  Cardinality(Below(i)) < Cardinality(Below(j))
    OBVIOUS
  <2>1. i \in Below(j) /\ Below(i) \in SUBSET (Below(j) \ {i})
    BY DEF Orders
  <2> HIDE DEF Below
  <2>2. IsFiniteSet(Below(j) \ {i}) /\ Cardinality(Below(j) \ {i}) = Cardinality(Below(j)) - 1
    BY <1>2, <2>1, FS_RemoveElement
  <2>3. Cardinality(Below(i)) <= Cardinality(Below(j)) - 1
    BY <2>1, <2>2, FS_Subset
  <2>4. Cardinality(Below(i)) \in Nat /\ Cardinality(Below(j)) \in Nat
    BY <1>2, FS_CardinalityType
  <2> QED
    BY <2>3, <2>4
<1> HIDE DEF Below, rank, N
<1>4. \A i, j \in S : /\ rank[i] = rank[j] => i = j
                      /\ rank[i] < rank[j] => <<i, j>> \in before
  <2> SUFFICES ASSUME NEW i \in S, NEW j \in S
               PROVE  /\ rank[i] = rank[j] => i = j
                      /\ rank[i] < rank[j] => <<i, j>> \in before
    OBVIOUS
  <2>1. rank[i] \in Int /\ rank[j] \in Int
    BY <1>1, <1>2
  <2>2. i = j \/ rank[i] < rank[j] \/ rank[j] < rank[i]
    BY <1>3 DEF Orders
  <2>3. i # j => <<i, j>> \in before \/ <<j, i>> \in before
    BY DEF Orders
  <2> QED
    BY <1>3, <2>1, <2>2, <2>3
<1>5. \A n \in 0..(N - 1) : \E i \in S : rank[i] = n
  <2>1. rank \in Injection(S, 0..(N - 1))
    BY <1>2, <1>4 DEF rank, Injection, IsInjective
  <2>2. IsFiniteSet(0..(N - 1)) /\ Cardinality(0..(N - 1)) = N
    BY <1>1, FS_Interval
  <2>3. rank \in Surjection(S, 0..(N - 1))
    BY <2>1, <2>2, FS_Injection DEF N
  <2> QED
    BY <2>3 DEF Surjection
<1>6. \A n \in 1..N : at[n] \in S /\ rank[at[n]] = n - 1
  <2> SUFFICES ASSUME NEW n \in 1..N PROVE at[n] \in S /\ rank[at[n]] = n - 1
    OBVIOUS
  <2>1. \E i \in S : Cardinality(Below(i)) = n - 1
    <3>1. PICK i \in S : rank[i] = n - 1
      BY <1>1, <1>5
    <3> QED
      BY <3>1 DEF rank
  <2>2. at[n] = CHOOSE i \in S : Cardinality(Below(i)) = n - 1
    BY DEF InOrder, N, Below
  <2> HIDE DEF at
  <2>3. at[n] \in S /\ Cardinality(Below(at[n])) = n - 1
    BY <2>1, <2>2
  <2> QED
    BY <2>3 DEF rank
<1>7. DOMAIN at = 1..N
  BY DEF InOrder, N
<1> HIDE DEF at
<1>8. \A i \in S : \E n \in 1..N : at[n] = i
  <2> SUFFICES ASSUME NEW i \in S PROVE \E n \in 1..N : at[n] = i
    OBVIOUS
  <2>1. rank[i] + 1 \in 1..N
    BY <1>1, <1>2
  <2>2. rank[at[rank[i] + 1]] = rank[i] /\ at[rank[i] + 1] \in S
    BY <1>1, <1>2, <1>6, <2>1
  <2> QED
    BY <1>4, <2>1, <2>2
<1>9. \A m, n \in 1..N : m < n <=> <<at[m], at[n]>> \in before
  <2> SUFFICES ASSUME NEW m \in 1..N, NEW n \in 1..N PROVE m < n <=> <<at[m], at[n]>> \in before
    OBVIOUS
  <2>1. m < n <=> rank[at[m]] < rank[at[n]]
    BY <1>1, <1>6
  <2> QED
    BY <1>3, <1>4, <1>6, <2>1
<1> QED
  BY <1>1, <1>6, <1>7, <1>8, <1>9 DEF at, N

\* The elements picked are those at the positions of S, in their order.
LEMMA PickedIs ==
    ASSUME NEW n \in Nat, NEW S \in SUBSET (1..n)
    PROVE  \E at \in [1..Cardinality(S) -> S] :
             /\ Cardinality(S) \in Nat
             /\ \A s : Picked(s, S) = [m \in 1..Cardinality(S) |-> s[at[m]]]
             /\ \A i \in S : \E m \in 1..Cardinality(S) : at[m] = i
             /\ \A l, m \in 1..Cardinality(S) : l < m <=> at[l] < at[m]
<1> DEFINE before == {p \in S \X S : p[1] < p[2]}
           at == InOrder(S, before)
<1>1. IsFiniteSet(S)
  <2>1. IsFiniteSet(1..n)
    BY FS_Interval
  <2> QED
    BY <2>1, FS_Subset
<1>2. Orders(before, S)
  <2>1. \A i \in S : i \in Int
    OBVIOUS
  <2>2. \A i, j \in S : <<i, j>> \in before <=> i < j
    OBVIOUS
  <2> HIDE DEF before
  <2> QED
    BY <2>1, <2>2 DEF Orders
<1> HIDE DEF before
<1>3. /\ Cardinality(S) \in Nat /\ DOMAIN at = 1..Cardinality(S)
      /\ \A m \in 1..Cardinality(S) : at[m] \in S
      /\ \A i \in S : \E m \in 1..Cardinality(S) : at[m] = i
      /\ \A l, m \in 1..Cardinality(S) : l < m <=> <<at[l], at[m]>> \in before
  BY <1>1, <1>2, InOrderIs
<1>4. at \in [1..Cardinality(S) -> S]
  BY <1>3 DEF InOrder
<1>5. \A l, m \in 1..Cardinality(S) : l < m <=> at[l] < at[m]
  BY <1>3 DEF before
<1>6. \A s : Picked(s, S) = [m \in 1..Cardinality(S) |-> s[at[m]]]
  BY DEF Picked, before
<1> QED
  BY <1>3, <1>4, <1>5, <1>6

\* A set of naturals that is not empty has a least member.
LEMMA Least ==
    ASSUME NEW S \in SUBSET Nat, S # {}
    PROVE  \E m \in S : \A k \in S : m <= k
<1> DEFINE R == OpToRel(<, Nat)
<1>1. PICK m \in S : \A k \in S : <<k, m>> \notin R
  BY NatLessThanWellFounded, WFMin
<1>2. \A k \in S : ~(k < m)
  BY <1>1 DEF OpToRel
<1> QED
  BY <1>2

\* What holds of 0 and of the successor of whatever it holds of holds up to n.
LEMMA Climb ==
    ASSUME NEW n \in Nat, NEW S, 0 \in S, \A i \in 0..(n - 1) : i \in S => i + 1 \in S
    PROVE  0..n \subseteq S
<1> SUFFICES ASSUME (0..n) \ S # {} PROVE FALSE
  OBVIOUS
<1>1. PICK m \in (0..n) \ S : \A k \in (0..n) \ S : m <= k
  <2>1. (0..n) \ S \in SUBSET Nat
    OBVIOUS
  <2> QED
    BY <2>1, Least
<1>2. m # 0 /\ m - 1 \in 0..(n - 1)
  BY <1>1
<1>3. m - 1 \in S
  BY <1>1, <1>2
<1> QED
  BY <1>1, <1>2, <1>3

At(s, S) == {s[i] : i \in S}

\* A selection from a sequence: which elements it has, and that there are some.
LEMMA PickedSet ==
    ASSUME NEW s, NEW n \in Nat, DOMAIN s = 1..n, NEW S \in SUBSET (1..n)
    PROVE  /\ Cardinality(S) \in Nat /\ DOMAIN Picked(s, S) = 1..Cardinality(S)
           /\ ToSet(Picked(s, S)) = At(s, S)
           /\ Picked(s, S) \in Seq(At(s, S))
           /\ Picked(s, S) # <<>> <=> S # {}
           /\ S # {} => Picked(s, S)[1] \in At(s, S)
<1> DEFINE m == Cardinality(S)
           t == Picked(s, S)
<1>1. PICK at \in [1..m -> S] :
        /\ m \in Nat /\ \A r : Picked(r, S) = [k \in 1..m |-> r[at[k]]]
        /\ \A i \in S : \E k \in 1..m : at[k] = i
  BY PickedIs
<1>2. t = [k \in 1..m |-> s[at[k]]]
  BY <1>1
<1> HIDE DEF t, m
<1>3. DOMAIN t = 1..m /\ \A k \in 1..m : t[k] = s[at[k]] /\ at[k] \in S
  BY <1>1, <1>2
<1>4. ToSet(t) = At(s, S)
  <2>1. ASSUME NEW k \in 1..m PROVE t[k] \in {s[i] : i \in S}
    BY <1>3
  <2>2. ASSUME NEW i \in S PROVE \E k \in 1..m : t[k] = s[i]
    BY <1>1, <1>3
  <2>3. ToSet(t) = {t[k] : k \in 1..m}
    BY <1>3 DEF ToSet
  <2> QED
    BY <2>1, <2>2, <2>3 DEF At
<1>5. t \in Seq(At(s, S))
  BY <1>1, <1>2, <1>3 DEF At
<1>6. ASSUME S # {} PROVE 1 \in 1..m
  <2>1. PICK i \in S : TRUE
    BY <1>6
  <2>2. PICK k \in 1..m : at[k] = i
    BY <1>1
  <2> QED
    BY <1>1, <2>2
<1>7. t # <<>> <=> S # {}
  <2>1. S = {} => m = 0
    BY <1>1
  <2>2. m = 0 => t = <<>>
    BY <1>2
  <2>3. S # {} => DOMAIN t # {}
    BY <1>3, <1>6
  <2> QED
    BY <2>1, <2>2, <2>3
<1> QED
  BY <1>1, <1>3, <1>4, <1>5, <1>6, <1>7 DEF t, m, At

\* The elements of two sequences, one after the other.
LEMMA JoinedSet ==
    ASSUME NEW X, NEW s \in Seq(X), NEW t \in Seq(X)
    PROVE  s \o t \in Seq(X) /\ ToSet(s \o t) = ToSet(s) \cup ToSet(t)
<1>1. s \o t \in Seq(X) /\ Len(s \o t) = Len(s) + Len(t)
  OBVIOUS
<1>2. /\ \A i \in 1..Len(s) : (s \o t)[i] = s[i]
      /\ \A i \in 1..Len(t) : (s \o t)[Len(s) + i] = t[i]
  OBVIOUS
<1>3. Len(s) \in Nat /\ Len(t) \in Nat /\ DOMAIN s = 1..Len(s) /\ DOMAIN t = 1..Len(t)
      /\ DOMAIN (s \o t) = 1..(Len(s) + Len(t))
  BY <1>1, LenProperties
<1>4. ASSUME NEW i \in 1..(Len(s) + Len(t))
      PROVE  (s \o t)[i] \in ToSet(s) \cup ToSet(t)
  <2>1. CASE i \in 1..Len(s)
    BY <1>2, <1>3, <2>1 DEF ToSet
  <2>2. CASE i - Len(s) \in 1..Len(t)
    <3>1. (s \o t)[i] = t[i - Len(s)]
      BY <1>2, <1>3, <2>2
    <3> QED
      BY <1>3, <2>2, <3>1 DEF ToSet
  <2> QED
    BY <1>3, <2>1, <2>2
<1>5. ToSet(s) \subseteq ToSet(s \o t)
  BY <1>2, <1>3 DEF ToSet
<1>6. ToSet(t) \subseteq ToSet(s \o t)
  <2> SUFFICES ASSUME NEW i \in 1..Len(t) PROVE t[i] \in ToSet(s \o t)
    BY <1>3 DEF ToSet
  <2>1. Len(s) + i \in 1..(Len(s) + Len(t))
    BY <1>3
  <2> QED
    BY <1>2, <1>3, <2>1 DEF ToSet
<1> QED
  BY <1>1, <1>3, <1>4, <1>5, <1>6 DEF ToSet

\* A flattened sequence is the last of its parts put one after the other.
LEMMA FlattenSteps ==
    ASSUME NEW X, NEW n \in Nat, n # 0, NEW seqs \in [1..n -> Seq(X)]
    PROVE  \E f : /\ FlattenSeq(seqs) = f[n] /\ f[1] = seqs[1]
                  /\ \A i \in 2..n : f[i] = f[i - 1] \o seqs[i]
<1>0. Len(seqs) = n
  OBVIOUS
<1> DEFINE Solves(g, k) == g = [i \in 1..k |-> IF i = 1 THEN seqs[i] ELSE g[i - 1] \o seqs[i]]
           S == {k \in 0..n : k = 0 \/ \E g : Solves(g, k)}
<1>1. 0 \in S
  OBVIOUS
<1>2. ASSUME NEW k \in 0..(n - 1), k \in S PROVE k + 1 \in S
  <2>1. CASE k = 0
    <3> DEFINE g == [i \in 1..1 |-> seqs[i]]
    <3>1. 1..1 = {1}
      OBVIOUS
    <3>2. g = [i \in 1..1 |-> IF i = 1 THEN seqs[i] ELSE g[i - 1] \o seqs[i]]
      BY <3>1
    <3>3. Solves(g, 1)
      BY <3>2
    <3> HIDE DEF Solves
    <3> QED
      BY <2>1, <3>3
  <2>2. CASE k # 0
    <3>1. PICK g : Solves(g, k)
      BY <1>2, <2>2
    <3> DEFINE h == [i \in 1..(k + 1) |-> IF i = k + 1 THEN g[k] \o seqs[k + 1] ELSE g[i]]
    <3>2. \A i \in 1..k : h[i] = g[i] /\ g[i] = IF i = 1 THEN seqs[i] ELSE g[i - 1] \o seqs[i]
      <4> HIDE DEF h
      <4>1. \A i \in 1..k : g[i] = IF i = 1 THEN seqs[i] ELSE g[i - 1] \o seqs[i]
        BY <3>1
      <4> QED
        BY <4>1 DEF h
    <3>3. h[k + 1] = h[k] \o seqs[k + 1]
      <4>1. k \in 1..k /\ k + 1 \in 1..(k + 1)
        BY <2>2
      <4>2. h[k + 1] = g[k] \o seqs[k + 1] /\ h[k] = g[k]
        BY <3>2, <4>1
      <4> QED
        BY <4>2
    <3>4. h = [i \in 1..(k + 1) |-> h[i]]
      OBVIOUS
    <3> HIDE DEF h
    <3>5. \A i \in 1..(k + 1) : h[i] = IF i = 1 THEN seqs[i] ELSE h[i - 1] \o seqs[i]
      <4> TAKE i \in 1..(k + 1)
      <4>1. CASE i = k + 1
        <5>1. i # 1 /\ i - 1 = k
          BY <2>2, <4>1
        <5> QED
          BY <3>3, <4>1, <5>1
      <4>2. CASE i = 1
        BY <2>2, <3>2, <4>2
      <4>3. CASE i \in 2..k
        BY <3>2, <4>3
      <4> QED
        BY <4>1, <4>2, <4>3
    <3>6. Solves(h, k + 1)
      BY <3>4, <3>5
    <3> HIDE DEF Solves
    <3> QED
      BY <3>6
  <2> QED
    BY <2>1, <2>2
<1>3. n \in S
  <2> HIDE DEF S
  <2>1. 0..n \subseteq S
    BY <1>1, <1>2, Climb
  <2> QED
    BY <2>1
<1> DEFINE f == CHOOSE g : Solves(g, n)
<1>4. Solves(f, n)
  BY <1>3
<1>5. FlattenSeq(seqs) = f[n]
  BY <1>0 DEF FlattenSeq
<1> HIDE DEF f, S
<1>6. f[1] = seqs[1] /\ \A i \in 2..n : f[i] = f[i - 1] \o seqs[i]
  <2>1. \A i \in 1..n : f[i] = IF i = 1 THEN seqs[i] ELSE f[i - 1] \o seqs[i]
    BY <1>4
  <2>2. 1 \in 1..n /\ \A i \in 2..n : i \in 1..n /\ i # 1
    OBVIOUS
  <2> QED
    BY <2>1, <2>2
<1> HIDE DEF Solves
<1> QED
  BY <1>5, <1>6

\* The elements of a flattened sequence are those of its parts.
LEMMA FlattenIs ==
    ASSUME NEW X, NEW n \in Nat, NEW seqs \in [1..n -> Seq(X)]
    PROVE  /\ FlattenSeq(seqs) \in Seq(X)
           /\ ToSet(FlattenSeq(seqs)) = UNION {ToSet(seqs[i]) : i \in 1..n}
<1>1. Len(seqs) = n
  OBVIOUS
<1>2. CASE n = 0
  <2>1. FlattenSeq(seqs) = seqs
    BY <1>1, <1>2 DEF FlattenSeq
  <2>2. seqs \in Seq(X) /\ ToSet(seqs) = {}
    BY <1>2 DEF ToSet
  <2> QED
    BY <1>2, <2>1, <2>2
<1>3. CASE n # 0
  <2>1. PICK f : /\ FlattenSeq(seqs) = f[n] /\ f[1] = seqs[1]
                 /\ \A i \in 2..n : f[i] = f[i - 1] \o seqs[i]
    BY <1>3, FlattenSteps
  <2> DEFINE U(k) == UNION {ToSet(seqs[i]) : i \in 1..k}
             T == {k \in 0..n : k = 0 \/ (f[k] \in Seq(X) /\ ToSet(f[k]) = U(k))}
  <2>2. 0 \in T
    OBVIOUS
  <2>3. ASSUME NEW k \in 0..(n - 1), k \in T PROVE k + 1 \in T
    <3>1. CASE k = 0
      <4>1. U(1) = ToSet(seqs[1])
        OBVIOUS
      <4> QED
        BY <1>3, <2>1, <3>1, <4>1
    <3>2. CASE k # 0
      <4>1. f[k + 1] = f[k] \o seqs[k + 1] /\ f[k] \in Seq(X) /\ seqs[k + 1] \in Seq(X)
        <5>1. k + 1 \in 2..n /\ k + 1 \in 1..n /\ (k + 1) - 1 = k
          BY <3>2
        <5>2. f[k] \in Seq(X) /\ seqs[k + 1] \in Seq(X)
          BY <2>3, <3>2, <5>1
        <5>3. f[k + 1] = f[(k + 1) - 1] \o seqs[k + 1]
          BY <2>1, <5>1
        <5> QED
          BY <5>1, <5>2, <5>3
      <4>2. U(k + 1) = U(k) \cup ToSet(seqs[k + 1])
        OBVIOUS
      <4>3. ToSet(f[k + 1]) = ToSet(f[k]) \cup ToSet(seqs[k + 1])
        BY <4>1, JoinedSet
      <4>4. f[k + 1] \in Seq(X)
        BY <4>1, JoinedSet
      <4>5. ToSet(f[k]) = U(k)
        BY <2>3, <3>2
      <4> HIDE DEF U
      <4>6. ToSet(f[k + 1]) = U(k + 1) /\ k + 1 \in 0..n
        BY <4>2, <4>3, <4>5
      <4> QED
        BY <4>4, <4>6
    <3> QED
      BY <3>1, <3>2
  <2> HIDE DEF T
  <2>4. 0..n \subseteq T
    BY <2>2, <2>3, Climb
  <2>5. n \in T
    BY <2>4
  <2>6. f[n] \in Seq(X) /\ ToSet(f[n]) = U(n)
    BY <1>3, <2>5 DEF T
  <2> QED
    BY <2>1, <2>6
<1> QED
  BY <1>2, <1>3

\* Whatever comes before in s is related to what comes after.
Falls(s, R) == \A k, l \in DOMAIN s : k <= l => <<s[k], s[l]>> \in R

\* Two sequences that fall, the first of them above the second, fall one after the other.
LEMMA JoinedFalls ==
    ASSUME NEW X, NEW s \in Seq(X), NEW t \in Seq(X), NEW R, Falls(s, R), Falls(t, R),
           \A a \in ToSet(s), b \in ToSet(t) : <<a, b>> \in R
    PROVE  Falls(s \o t, R)
<1> DEFINE u == s \o t
           n == Len(s)
           m == Len(t)
<1>1. /\ n \in Nat /\ m \in Nat /\ DOMAIN s = 1..n /\ DOMAIN t = 1..m /\ DOMAIN u = 1..(n + m)
      /\ \A i \in 1..n : u[i] = s[i]
      /\ \A i \in 1..m : u[n + i] = t[i]
  BY ConcatProperties, LenProperties
<1> HIDE DEF u, n, m
<1>2. \A i \in 1..(n + m) : i \in 1..n \/ (i - n \in 1..m /\ u[i] = t[i - n])
  <2> TAKE i \in 1..(n + m)
  <2>1. i \in 1..n \/ (i - n \in 1..m /\ n + (i - n) = i)
    BY <1>1
  <2> QED
    BY <1>1, <2>1
<1> SUFFICES ASSUME NEW k \in 1..(n + m), NEW l \in 1..(n + m), k <= l
             PROVE  <<u[k], u[l]>> \in R
  BY <1>1 DEF Falls, u
<1>3. CASE k \in 1..n /\ l \in 1..n
  BY <1>1, <1>3 DEF Falls
<1>4. CASE k \in 1..n /\ l \notin 1..n
  <2>1. u[k] \in ToSet(s) /\ u[l] \in ToSet(t)
    BY <1>1, <1>2, <1>4 DEF ToSet
  <2> QED
    BY <2>1
<1>5. CASE k \notin 1..n
  <2>1. k - n \in 1..m /\ u[k] = t[k - n]
    BY <1>2, <1>5
  <2>2. l - n \in 1..m /\ u[l] = t[l - n]
    <3>1. l \notin 1..n
      BY <1>1, <1>5
    <3> QED
      BY <1>2, <3>1
  <2>3. k - n <= l - n
    BY <1>1
  <2> QED
    BY <1>1, <2>1, <2>2, <2>3 DEF Falls
<1> QED
  BY <1>3, <1>4, <1>5

\* Parts that fall from one to the next fall when they are flattened.
LEMMA FlattenFalls ==
    ASSUME NEW X, NEW n \in Nat, NEW seqs \in [1..n -> Seq(X)], NEW R,
           \A i, j \in 1..n : i <= j =>
               \A a \in ToSet(seqs[i]), b \in ToSet(seqs[j]) : <<a, b>> \in R
    PROVE  Falls(FlattenSeq(seqs), R)
<1>1. CASE n = 0
  <2>1. FlattenSeq(seqs) = seqs
    BY <1>1 DEF FlattenSeq
  <2> QED
    BY <1>1, <2>1 DEF Falls
<1>2. CASE n # 0
  <2>1. PICK f : /\ FlattenSeq(seqs) = f[n] /\ f[1] = seqs[1]
                 /\ \A i \in 2..n : f[i] = f[i - 1] \o seqs[i]
    BY <1>2, FlattenSteps
  <2>2. \A i \in 1..n : seqs[i] \in Seq(X) /\ Falls(seqs[i], R)
    <3> TAKE i \in 1..n
    <3>1. \A k \in DOMAIN seqs[i] : seqs[i][k] \in ToSet(seqs[i])
      BY DEF ToSet
    <3> QED
      BY <3>1 DEF Falls
  <2> DEFINE U(k) == UNION {ToSet(seqs[i]) : i \in 1..k}
             T == {k \in 0..n : k = 0 \/ /\ f[k] \in Seq(X) /\ ToSet(f[k]) = U(k)
                                         /\ Falls(f[k], R)}
  <2>3. 0 \in T
    OBVIOUS
  <2>4. ASSUME NEW k \in 0..(n - 1), k \in T PROVE k + 1 \in T
    <3>1. CASE k = 0
      <4>1. U(1) = ToSet(seqs[1]) /\ 1 \in 1..n
        BY <1>2
      <4> QED
        BY <2>1, <2>2, <3>1, <4>1
    <3>2. CASE k # 0
      <4>1. k + 1 \in 2..n /\ k + 1 \in 1..n /\ (k + 1) - 1 = k
        BY <3>2
      <4>2. /\ f[k] \in Seq(X) /\ ToSet(f[k]) = U(k) /\ Falls(f[k], R)
        BY <2>4, <3>2
      <4>3. f[k + 1] = f[k] \o seqs[k + 1]
        <5>1. f[k + 1] = f[(k + 1) - 1] \o seqs[k + 1]
          BY <2>1, <4>1
        <5> QED
          BY <4>1, <5>1
      <4>4. seqs[k + 1] \in Seq(X) /\ Falls(seqs[k + 1], R)
        BY <2>2, <4>1
      <4>5. \A a \in ToSet(f[k]), b \in ToSet(seqs[k + 1]) : <<a, b>> \in R
        <5> SUFFICES ASSUME NEW a \in U(k), NEW b \in ToSet(seqs[k + 1]) PROVE <<a, b>> \in R
          BY <4>2
        <5>1. PICK i \in 1..k : a \in ToSet(seqs[i])
          OBVIOUS
        <5>2. i \in 1..n /\ i <= k + 1
          OBVIOUS
        <5> QED
          BY <4>1, <5>1, <5>2
      <4>6. U(k + 1) = U(k) \cup ToSet(seqs[k + 1])
        OBVIOUS
      <4> HIDE DEF U
      <4>7. f[k + 1] \in Seq(X) /\ ToSet(f[k + 1]) = U(k + 1)
        <5>1. /\ f[k] \o seqs[k + 1] \in Seq(X)
              /\ ToSet(f[k] \o seqs[k + 1]) = ToSet(f[k]) \cup ToSet(seqs[k + 1])
          BY <4>2, <4>4, JoinedSet
        <5> QED
          BY <4>2, <4>3, <4>6, <5>1
      <4>8. Falls(f[k + 1], R)
        <5> DEFINE s == f[k]
                   t == seqs[k + 1]
        <5>1. /\ s \in Seq(X) /\ t \in Seq(X) /\ Falls(s, R) /\ Falls(t, R)
              /\ \A a \in ToSet(s), b \in ToSet(t) : <<a, b>> \in R
          BY <4>2, <4>4, <4>5
        <5> HIDE DEF s, t
        <5>2. Falls(s \o t, R)
          BY <5>1, JoinedFalls
        <5> QED
          BY <4>3, <5>2 DEF s, t
      <4> QED
        BY <4>7, <4>8
    <3> QED
      BY <3>1, <3>2
  <2> HIDE DEF T
  <2>5. 0..n \subseteq T
    BY <2>3, <2>4, Climb
  <2>6. n \in T
    BY <2>5
  <2> HIDE DEF U
  <2>7. Falls(f[n], R)
    BY <1>2, <2>6 DEF T
  <2> QED
    BY <2>1, <2>7
<1> QED
  BY <1>1, <1>2

\* What is picked from a sequence that falls still falls.
LEMMA PickedFalls ==
    ASSUME NEW s, NEW n \in Nat, DOMAIN s = 1..n, NEW S \in SUBSET (1..n), NEW R, Falls(s, R)
    PROVE  Falls(Picked(s, S), R)
<1> DEFINE m == Cardinality(S)
           t == Picked(s, S)
<1>1. PICK at \in [1..m -> S] :
        /\ m \in Nat /\ \A r : Picked(r, S) = [k \in 1..m |-> r[at[k]]]
        /\ \A k, l \in 1..m : k < l <=> at[k] < at[l]
  BY PickedIs
<1>2. t = [k \in 1..m |-> s[at[k]]]
  BY <1>1
<1> HIDE DEF t, m
<1>3. DOMAIN t = 1..m /\ \A k \in 1..m : t[k] = s[at[k]] /\ at[k] \in 1..n
  BY <1>1, <1>2
<1>4. ASSUME NEW k \in 1..m, NEW l \in 1..m, k <= l PROVE <<t[k], t[l]>> \in R
  <2>1. at[k] <= at[l]
    <3>1. at[k] \in Int /\ at[l] \in Int
      BY <1>3
    <3>2. k = l \/ k < l
      BY <1>1, <1>4
    <3> QED
      BY <1>1, <3>1, <3>2
  <2> QED
    BY <1>3, <2>1 DEF Falls
<1> QED
  BY <1>3, <1>4 DEF Falls, t

-----------------------------------------------------------------------------
(* Sorted sequences *)

\* Of tuples of numbers, each comes before the other or they are the same.
LEMMA TuplesAreOrdered ==
    ASSUME NEW k \in Nat, NEW x \in [1..k -> Int], NEW y \in [1..k -> Int], NEW z \in [1..k -> Int]
    PROVE  /\ ~TupleLess(x, x)
           /\ TupleLess(x, y) => ~TupleLess(y, x)
           /\ TupleLess(x, y) /\ TupleLess(y, z) => TupleLess(x, z)
           /\ x # y => TupleLess(x, y) \/ TupleLess(y, x)
<1>1. /\ DOMAIN x = 1..k /\ DOMAIN y = 1..k /\ DOMAIN z = 1..k
      /\ \A i \in 1..k : x[i] \in Int /\ y[i] \in Int /\ z[i] \in Int
  OBVIOUS
<1>2. ~TupleLess(x, x)
  BY <1>1 DEF TupleLess
<1>3. ASSUME TupleLess(x, y), TupleLess(y, x) PROVE FALSE
  <2>1. PICK i \in 1..k : x[i] < y[i] /\ \A m \in 1..(i - 1) : x[m] = y[m]
    BY <1>1, <1>3 DEF TupleLess
  <2>2. PICK j \in 1..k : y[j] < x[j] /\ \A m \in 1..(j - 1) : y[m] = x[m]
    BY <1>1, <1>3 DEF TupleLess
  <2>3. i < j => i \in 1..(j - 1)
    OBVIOUS
  <2>4. j < i => j \in 1..(i - 1)
    OBVIOUS
  <2>5. i < j \/ j < i \/ i = j
    OBVIOUS
  <2> QED
    BY <1>1, <2>1, <2>2, <2>3, <2>4, <2>5
<1>4. ASSUME TupleLess(x, y), TupleLess(y, z) PROVE TupleLess(x, z)
  <2>1. PICK i \in 1..k : x[i] < y[i] /\ \A m \in 1..(i - 1) : x[m] = y[m]
    BY <1>1, <1>4 DEF TupleLess
  <2>2. PICK j \in 1..k : y[j] < z[j] /\ \A m \in 1..(j - 1) : y[m] = z[m]
    BY <1>1, <1>4 DEF TupleLess
  <2>3. CASE i < j
    <3>1. i \in 1..(j - 1) /\ \A m \in 1..(i - 1) : m \in 1..(j - 1)
      BY <2>3
    <3>2. x[i] < z[i] /\ \A m \in 1..(i - 1) : x[m] = z[m]
      BY <1>1, <2>1, <2>2, <3>1
    <3> QED
      BY <1>1, <3>2 DEF TupleLess
  <2>4. CASE i = j
    <3>1. x[i] < z[i] /\ \A m \in 1..(i - 1) : x[m] = z[m]
      BY <1>1, <2>1, <2>2, <2>4
    <3> QED
      BY <1>1, <3>1 DEF TupleLess
  <2>5. CASE j < i
    <3>1. j \in 1..(i - 1) /\ \A m \in 1..(j - 1) : m \in 1..(i - 1)
      BY <2>5
    <3>2. x[j] < z[j] /\ \A m \in 1..(j - 1) : x[m] = z[m]
      BY <1>1, <2>1, <2>2, <3>1
    <3> QED
      BY <1>1, <3>2 DEF TupleLess
  <2> QED
    BY <2>3, <2>4, <2>5
<1>5. ASSUME x # y PROVE TupleLess(x, y) \/ TupleLess(y, x)
  <2> DEFINE apart == {i \in 1..k : x[i] # y[i]}
  <2>1. apart # {}
    <3>1. x = [i \in 1..k |-> x[i]] /\ y = [i \in 1..k |-> y[i]]
      OBVIOUS
    <3>2. SUFFICES ASSUME \A i \in 1..k : x[i] = y[i] PROVE x = y
      BY <1>5
    <3> QED
      BY <1>1, <3>1, <3>2, Zenon
  <2>2. apart \in SUBSET Nat
    OBVIOUS
  <2>3. PICK i \in apart : \A j \in apart : i <= j
    <3> HIDE DEF apart
    <3> QED
      BY <2>1, <2>2, Least
  <2>4. i \in 1..k /\ x[i] # y[i] /\ \A m \in 1..(i - 1) : x[m] = y[m]
    <3>1. \A m \in 1..(i - 1) : m \in 1..k /\ ~(i <= m)
      OBVIOUS
    <3> QED
      BY <2>3, <3>1
  <2>5. x[i] < y[i] \/ y[i] < x[i]
    BY <1>1, <2>4
  <2> QED
    BY <1>1, <2>4, <2>5 DEF TupleLess
<1> QED
  BY <1>2, <1>3, <1>4, <1>5

\* The place that each place of a sorted sequence is filled from.
Source(n, keys) ==
    InOrder(1..n, {p \in (1..n) \X (1..n) :
        \/ TupleLess(keys[p[1]], keys[p[2]])
        \/ keys[p[1]] = keys[p[2]] /\ p[1] < p[2]})

\* Every place is taken once, in the order of the keys.
LEMMA SourceIs ==
    ASSUME NEW n \in Nat, NEW k \in Nat, NEW keys \in [1..n -> [1..k -> Int]]
    PROVE  /\ Source(n, keys) \in [1..n -> 1..n]
           /\ \A i \in 1..n : \E m \in 1..n : Source(n, keys)[m] = i
           /\ \A l, m \in 1..n :
                l < m => ~TupleLess(keys[Source(n, keys)[m]], keys[Source(n, keys)[l]])
<1> DEFINE Before(i, j) == TupleLess(keys[i], keys[j]) \/ (keys[i] = keys[j] /\ i < j)
           R == {p \in (1..n) \X (1..n) : Before(p[1], p[2])}
           at == Source(n, keys)
<1>1. \A i, j \in 1..n : <<i, j>> \in R <=> Before(i, j)
  OBVIOUS
<1>2. Orders(R, 1..n)
  <2> HIDE DEF R
  <2>1. ASSUME NEW i \in 1..n, NEW j \in 1..n, Before(i, j) PROVE ~Before(j, i)
    <3>1. keys[i] \in [1..k -> Int] /\ keys[j] \in [1..k -> Int]
      OBVIOUS
    <3>2. ~TupleLess(keys[i], keys[i]) /\ (TupleLess(keys[i], keys[j]) => ~TupleLess(keys[j], keys[i]))
      BY <3>1, TuplesAreOrdered
    <3> QED
      BY <2>1, <3>2
  <2>2. ASSUME NEW i \in 1..n, NEW j \in 1..n, NEW l \in 1..n, Before(i, j), Before(j, l)
        PROVE  Before(i, l)
    <3>1. keys[i] \in [1..k -> Int] /\ keys[j] \in [1..k -> Int] /\ keys[l] \in [1..k -> Int]
      OBVIOUS
    <3> DEFINE x == keys[i]
               y == keys[j]
               z == keys[l]
    <3>2. x \in [1..k -> Int] /\ y \in [1..k -> Int] /\ z \in [1..k -> Int]
      BY <3>1
    <3> HIDE DEF x, y, z
    <3>3. /\ ~TupleLess(x, x)
          /\ TupleLess(x, y) => ~TupleLess(y, x)
          /\ TupleLess(x, y) /\ TupleLess(y, z) => TupleLess(x, z)
          /\ x # y => TupleLess(x, y) \/ TupleLess(y, x)
      BY <3>2, TuplesAreOrdered
    <3>4. TupleLess(keys[i], keys[j]) /\ TupleLess(keys[j], keys[l])
             => TupleLess(keys[i], keys[l])
      BY <3>3 DEF x, y, z
    <3> QED
      BY <2>2, <3>4
  <2>3. ASSUME NEW i \in 1..n, NEW j \in 1..n, i # j PROVE Before(i, j) \/ Before(j, i)
    <3>1. i < j \/ j < i
      BY <2>3
    <3>2. keys[i] \in [1..k -> Int] /\ keys[j] \in [1..k -> Int]
      OBVIOUS
    <3>3. keys[i] # keys[j] => TupleLess(keys[i], keys[j]) \/ TupleLess(keys[j], keys[i])
      BY <3>2, TuplesAreOrdered
    <3> QED
      BY <3>1, <3>3
  <2> HIDE DEF Before
  <2> QED
    BY <1>1, <2>1, <2>2, <2>3 DEF Orders
<1>3. IsFiniteSet(1..n) /\ Cardinality(1..n) = n
  <2>1. IsFiniteSet(1..n) /\ Cardinality(1..n) = IF 1 > n THEN 0 ELSE n - 1 + 1
    BY FS_Interval
  <2> QED
    BY <2>1
<1>4. at = InOrder(1..n, R)
  BY DEF Source
<1> HIDE DEF at
<1> HIDE DEF R
<1>5. /\ DOMAIN at = 1..n /\ \A m \in 1..n : at[m] \in 1..n
      /\ \A i \in 1..n : \E m \in 1..n : at[m] = i
      /\ \A l, m \in 1..n : l < m <=> <<at[l], at[m]>> \in R
  <2> DEFINE S == 1..n
  <2>1. IsFiniteSet(S) /\ Cardinality(S) = n /\ Orders(R, S)
    BY <1>2, <1>3
  <2> HIDE DEF S
  <2>2. /\ Cardinality(S) \in Nat /\ DOMAIN InOrder(S, R) = 1..Cardinality(S)
        /\ \A m \in 1..Cardinality(S) : InOrder(S, R)[m] \in S
        /\ \A i \in S : \E m \in 1..Cardinality(S) : InOrder(S, R)[m] = i
        /\ \A l, m \in 1..Cardinality(S) :
             l < m <=> <<InOrder(S, R)[l], InOrder(S, R)[m]>> \in R
    BY <2>1, InOrderIs
  <2>3. at = InOrder(S, R)
    BY <1>4 DEF S
  <2>4. /\ DOMAIN at = 1..n /\ \A m \in 1..n : at[m] \in S
        /\ \A i \in S : \E m \in 1..n : at[m] = i
        /\ \A l, m \in 1..n : l < m <=> <<at[l], at[m]>> \in R
    BY <2>1, <2>2, <2>3
  <2> QED
    BY <2>4 DEF S
<1>6. at \in [1..n -> 1..n]
  <2> DEFINE e(m) == CHOOSE i \in 1..n : Cardinality({j \in 1..n : <<j, i>> \in R}) = m - 1
  <2>1. at = [m \in 1..Cardinality(1..n) |-> e(m)]
    BY <1>4 DEF InOrder
  <2> HIDE DEF e
  <2> QED
    BY <1>3, <1>5, <2>1
<1>7. ASSUME NEW l \in 1..n, NEW m \in 1..n, l < m PROVE ~TupleLess(keys[at[m]], keys[at[l]])
  <2>1. at[l] \in 1..n /\ at[m] \in 1..n /\ Before(at[l], at[m])
    BY <1>1, <1>5, <1>7
  <2>2. keys[at[l]] \in [1..k -> Int] /\ keys[at[m]] \in [1..k -> Int]
    BY <2>1
  <2>3. /\ ~TupleLess(keys[at[l]], keys[at[l]])
        /\ TupleLess(keys[at[l]], keys[at[m]]) => ~TupleLess(keys[at[m]], keys[at[l]])
    <3> DEFINE x == keys[at[l]]
               y == keys[at[m]]
    <3>1. x \in [1..k -> Int] /\ y \in [1..k -> Int]
      BY <2>2
    <3> HIDE DEF x, y
    <3>2. /\ ~TupleLess(x, x)
          /\ TupleLess(x, y) => ~TupleLess(y, x)
          /\ TupleLess(x, y) /\ TupleLess(y, x) => TupleLess(x, x)
          /\ x # y => TupleLess(x, y) \/ TupleLess(y, x)
      BY <3>1, TuplesAreOrdered
    <3> QED
      BY <3>2 DEF x, y
  <2> QED
    BY <2>1, <2>3
<1> QED
  BY <1>5, <1>6, <1>7 DEF at

\* Sorting neither loses nor adds an element.
LEMMA SortedSet ==
    ASSUME NEW s, NEW n \in Nat, DOMAIN s = 1..n,
           NEW k \in Nat, NEW keys \in [1..n -> [1..k -> Int]]
    PROVE  /\ DOMAIN SortedBy(s, keys) = 1..n
           /\ \A m \in 1..n : SortedBy(s, keys)[m] = s[Source(n, keys)[m]]
           /\ ToSet(SortedBy(s, keys)) = ToSet(s)
           /\ SortedBy(s, keys) \in Seq(ToSet(s))
<1> DEFINE t == SortedBy(s, keys)
           at == Source(n, keys)
<1>1. t = [m \in 1..n |-> s[at[m]]]
  BY DEF SortedBy, Source
<1>2. at \in [1..n -> 1..n] /\ \A i \in 1..n : \E m \in 1..n : at[m] = i
  BY SourceIs
<1> HIDE DEF t, at
<1>3. DOMAIN t = 1..n /\ \A m \in 1..n : t[m] = s[at[m]]
  BY <1>1
<1>4. ToSet(t) = ToSet(s)
  <2>1. ASSUME NEW e \in ToSet(t) PROVE e \in ToSet(s)
    <3>1. PICK m \in 1..n : e = t[m]
      BY <1>3 DEF ToSet
    <3>2. at[m] \in DOMAIN s /\ e = s[at[m]]
      BY <1>2, <1>3, <3>1
    <3> QED
      BY <3>2 DEF ToSet
  <2>2. ASSUME NEW e \in ToSet(s) PROVE e \in ToSet(t)
    <3>1. PICK i \in 1..n : e = s[i]
      BY DEF ToSet
    <3>2. PICK m \in 1..n : at[m] = i
      BY <1>2
    <3>3. m \in DOMAIN t /\ e = t[m]
      BY <1>3, <3>1, <3>2
    <3> QED
      BY <3>3 DEF ToSet
  <2> QED
    BY <2>1, <2>2
<1>5. t \in Seq(ToSet(s))
  <2>1. \A m \in 1..n : s[at[m]] \in ToSet(s)
    BY <1>2 DEF ToSet
  <2> DEFINE T == ToSet(s)
  <2> HIDE DEF T
  <2>2. \A m \in 1..n : s[at[m]] \in T
    BY <2>1 DEF T
  <2>3. t \in [1..n -> T]
    BY <1>1, <2>2
  <2>4. t \in Seq(T)
    BY <2>3
  <2> QED
    BY <2>4 DEF T
<1> QED
  BY <1>3, <1>4, <1>5 DEF t, at

-----------------------------------------------------------------------------
(* The state of the cab tools *)

\* What a server that saves has at hand; no file before it has opened one.
Shaped(w) ==
    w.pc \in {"read", "open", "write", "replace"} =>
        /\ DOMAIN w = {"pc", "saves", "then", "text", "file"}
        /\ w.pc \in {"read", "open"} => w.file = None

Typed ==
    /\ content = [i \in Inode |-> content[i]]
    /\ server = [s \in Server |-> server[s]] /\ \A s \in Server : Shaped(server[s])
    /\ overlapped \in BOOLEAN

Alone == \A s, r \in Saving : s = r

Agree ==
    /\ DOMAIN registered \subseteq DOMAIN Saved
    /\ \A n \in DOMAIN registered : Saved[n] = registered[n]

Apart ==
    /\ data \in Inode \cup {None} /\ tmp \in Inode \cup {None}
    /\ tmp # None => tmp # data

\* The text is the store with one place more, and so far only data.tmp has it.
InStep(w) ==
    /\ w.text = Added(Saved, w.saves[1].name, w.saves[1].place)
    /\ w.pc \in {"write", "replace"} => w.file \in Inode /\ tmp = w.file
    /\ w.pc = "write" => content[w.file] = Empty
    /\ w.pc = "replace" => content[w.file] = Parsed(w.text)

PlacesInv ==
    /\ Typed
    /\ ~overlapped => Alone /\ Agree /\ Apart /\ \A s \in Saving : InStep(server[s])

-----------------------------------------------------------------------------
(* The steps of a save *)

\* There is nothing registered and nothing on the disk at the start.
LEMMA InitInv == Init => PlacesInv
<1> SUFFICES ASSUME Init PROVE PlacesInv
  OBVIOUS
<1>1. server = [s \in Server |-> [pc |-> "idle"]]
  BY DEF Init, Idle
<1>2. Typed
  <2>1. content = [i \in Inode |-> content[i]]
    BY DEF Init
  <2>2. \A s \in Server : Shaped(server[s])
    BY <1>1 DEF Shaped
  <2> QED
    BY <1>1, <2>1, <2>2 DEF Init, Typed
<1>3. Saving = {}
  BY <1>1 DEF Saving
<1>4. Agree
  <2>1. DOMAIN registered = {}
    BY DEF Init
  <2> QED
    BY <2>1 DEF Agree
<1>5. Apart
  BY DEF Init, Apart
<1> QED
  BY <1>2, <1>3, <1>4, <1>5 DEF PlacesInv, Alone

\* A step that leaves the disk alone and after which its server is not in the middle of a
\* save: a call begun or answered, a lookup that ended, a server that died (cabs.py and
\* tools.py never write there).
LEMMA QuietStep ==
    ASSUME PlacesInv, NEW s \in Server, NEW w, Goes(s, w), Shaped(w),
           w.pc \notin {"open", "write", "replace"}, UNCHANGED <<disk, history>>
    PROVE  PlacesInv'
<1>1. UNCHANGED <<data, tmp, content, registered, overlapped>> /\ Saved' = Saved
  BY DEF disk, history, Saved
<1>2. server' = [server EXCEPT ![s] = w] /\ server = [r \in Server |-> server[r]]
  BY DEF Goes, PlacesInv, Typed
<1>3. Typed'
  BY <1>1, <1>2 DEF PlacesInv, Typed
<1>4. Saving' \subseteq Saving /\ \A r \in Saving' : server'[r] = server[r]
  BY <1>2 DEF Saving
<1>5. ~overlapped' => Alone' /\ Agree' /\ Apart'
  BY <1>1, <1>4 DEF PlacesInv, Alone, Agree, Apart
<1>6. ASSUME ~overlapped', NEW r \in Saving' PROVE InStep(server[r])'
  BY <1>1, <1>4, <1>6 DEF PlacesInv, InStep
<1> QED
  BY <1>3, <1>5, <1>6 DEF PlacesInv

\* load_data and the place under its name (config.py:142-146, cabs.py:228-231).
LEMMA LoadStep == ASSUME PlacesInv, NEW s \in Server, Load(s) PROVE PlacesInv'
<1> DEFINE w == server[s]
           t == [w EXCEPT !.pc = "open",
                          !.text = Added(Saved, w.saves[1].name, w.saves[1].place)]
<1>1. /\ w.pc = "read" /\ server' = [server EXCEPT ![s] = t]
      /\ UNCHANGED <<data, tmp, content, registered>> /\ Saved' = Saved
      /\ overlapped' = (overlapped \/ Saving # {})
  BY DEF Load, Goes, Store, disk, Saved
<1>2. /\ server = [r \in Server |-> server[r]] /\ w.file = None
      /\ DOMAIN w = {"pc", "saves", "then", "text", "file"}
  BY <1>1 DEF PlacesInv, Typed, Shaped
<1>3. /\ DOMAIN t = DOMAIN w /\ t.pc = "open" /\ t.saves = w.saves /\ t.file = None
      /\ t.text = Added(Saved, w.saves[1].name, w.saves[1].place)
  BY <1>2
<1> HIDE DEF t
<1>4. Typed'
  BY <1>1, <1>2, <1>3 DEF PlacesInv, Typed, Shaped
<1>5. SUFFICES ASSUME ~overlapped'
               PROVE  Alone' /\ Agree' /\ Apart' /\ \A r \in Saving' : InStep(server[r])'
  BY <1>4 DEF PlacesInv
<1>6. ~overlapped /\ Saving = {}
  BY <1>1, <1>5 DEF PlacesInv, Typed
<1>7. Saving' = {s} /\ server'[s] = t
  BY <1>1, <1>2, <1>3, <1>6 DEF Saving
<1>8. InStep(server[s])'
  BY <1>1, <1>3, <1>7 DEF InStep
<1> QED
  BY <1>1, <1>6, <1>7, <1>8 DEF PlacesInv, Alone, Agree, Apart

\* The one server that saves is the only one in the middle of it.
LEMMA OnlyOne ==
    ASSUME PlacesInv, ~overlapped, NEW s \in Saving PROVE Saving = {s} /\ InStep(server[s])
BY DEF PlacesInv, Alone

\* data.tmp is opened: a new file, or the one a dead server left (config.py:151).
LEMMA OpenStep == ASSUME PlacesInv, NEW s \in Server, OpenTmp(s) PROVE PlacesInv'
<1> DEFINE w == server[s]
           free == Inode \ ({data, tmp} \cup {server[r].file : r \in Saving})
           file == IF tmp = None THEN CHOOSE i \in free : TRUE ELSE tmp
           t == [w EXCEPT !.pc = "write", !.file = file]
<1>1. /\ w.pc = "open" /\ server' = [server EXCEPT ![s] = t]
      /\ tmp' = file /\ content' = [content EXCEPT ![file] = Empty]
      /\ UNCHANGED <<data, registered, overlapped>>
  BY DEF OpenTmp, Goes, history
<1>2. /\ server = [r \in Server |-> server[r]] /\ w.file = None
      /\ DOMAIN w = {"pc", "saves", "then", "text", "file"}
      /\ content = [i \in Inode |-> content[i]]
  BY <1>1 DEF PlacesInv, Typed, Shaped
<1>3. /\ DOMAIN t = DOMAIN w /\ t.pc = "write" /\ t.saves = w.saves /\ t.text = w.text
      /\ t.file = file
  <2> HIDE DEF file
  <2> QED
    BY <1>2
<1> HIDE DEF t
<1>4. Typed'
  <2>1. content' = [i \in Inode |-> content'[i]]
    BY <1>1, <1>2
  <2> QED
    BY <1>1, <1>2, <1>3, <2>1 DEF PlacesInv, Typed, Shaped
<1>5. SUFFICES ASSUME ~overlapped'
               PROVE Alone' /\ Agree' /\ Apart' /\ \A r \in Saving' : InStep(server[r])'
  BY <1>4 DEF PlacesInv
<1>6. Saving = {s} /\ Agree /\ Apart /\ InStep(w)
  BY <1>1, <1>5, OnlyOne DEF PlacesInv, Saving
<1>7. file \in Inode /\ file # data
  <2>1. CASE tmp = None
    <3>1. {server[r].file : r \in Saving} = {None}
      BY <1>2, <1>6
    <3>2. \E i \in Inode : i \notin {data, None}
      BY PlacesAssumption, <1>6 DEF Apart
    <3>3. free # {}
      BY <2>1, <3>1, <3>2
    <3>4. file \in free
      BY <2>1, <3>3
    <3> QED
      BY <3>4
  <2>2. CASE tmp # None
    BY <1>6, <2>2 DEF Apart
  <2> QED
    BY <2>1, <2>2
<1> HIDE DEF file
<1>8. Saved' = Saved
  BY <1>1, <1>2, <1>6, <1>7 DEF Saved, Apart
<1>9. Saving' = {s} /\ server'[s] = t
  BY <1>1, <1>2, <1>3, <1>6 DEF Saving
<1>10. InStep(server[s])'
  BY <1>1, <1>2, <1>3, <1>6, <1>7, <1>8, <1>9 DEF InStep
<1>11. Apart'
  BY PlacesAssumption, <1>1, <1>6, <1>7 DEF Apart
<1> QED
  BY <1>1, <1>6, <1>8, <1>9, <1>10, <1>11 DEF Alone, Agree

\* The text goes into the open file, which nobody else has written (config.py:151-152).
LEMMA WriteStep == ASSUME PlacesInv, NEW s \in Server, WriteTmp(s) PROVE PlacesInv'
<1> DEFINE w == server[s]
           t == [w EXCEPT !.pc = "replace"]
<1>1. /\ w.pc = "write" /\ server' = [server EXCEPT ![s] = t]
      /\ \/ content' = [content EXCEPT ![w.file] = Parsed(w.text)]
         \/ content[w.file] # Empty /\ content' = [content EXCEPT ![w.file] = Torn]
      /\ UNCHANGED <<data, tmp, registered, overlapped>>
  BY DEF WriteTmp, Goes, history
<1>2. /\ server = [r \in Server |-> server[r]]
      /\ DOMAIN w = {"pc", "saves", "then", "text", "file"}
      /\ content = [i \in Inode |-> content[i]]
  BY <1>1 DEF PlacesInv, Typed, Shaped
<1>3. /\ DOMAIN t = DOMAIN w /\ t.pc = "replace" /\ t.saves = w.saves /\ t.text = w.text
      /\ t.file = w.file
  BY <1>2
<1> HIDE DEF t
<1>4. Typed'
  <2>1. content' = [i \in Inode |-> content'[i]]
    BY <1>1, <1>2
  <2> QED
    BY <1>1, <1>2, <1>3, <2>1 DEF PlacesInv, Typed, Shaped
<1>5. SUFFICES ASSUME ~overlapped'
               PROVE Alone' /\ Agree' /\ Apart' /\ \A r \in Saving' : InStep(server[r])'
  BY <1>4 DEF PlacesInv
<1>6. Saving = {s} /\ Agree /\ Apart /\ InStep(w)
  BY <1>1, <1>5, OnlyOne DEF PlacesInv, Saving
<1>7. /\ w.file \in Inode /\ tmp = w.file /\ w.file # data
      /\ content' = [content EXCEPT ![w.file] = Parsed(w.text)]
  BY PlacesAssumption, <1>1, <1>6 DEF InStep, Apart
<1>8. Saved' = Saved
  BY <1>1, <1>2, <1>6, <1>7 DEF Saved, Apart
<1>9. Saving' = {s} /\ server'[s] = t
  BY <1>1, <1>2, <1>3, <1>6 DEF Saving
<1>10. InStep(server[s])'
  BY <1>1, <1>2, <1>3, <1>6, <1>7, <1>8, <1>9 DEF InStep
<1> QED
  BY <1>1, <1>6, <1>8, <1>9, <1>10 DEF Alone, Agree, Apart

\* os.replace: what is registered and what is in the file change together
\* (config.py:153).
LEMMA ReplaceStep == ASSUME PlacesInv, NEW s \in Server, Replace(s) PROVE PlacesInv'
<1> DEFINE w == server[s]
           t == [w EXCEPT !.pc = "read", !.saves = Tail(w.saves), !.file = None]
<1>1. /\ w.pc = "replace" /\ UNCHANGED <<content, overlapped>>
      /\ \/ tmp = None /\ UNCHANGED <<data, tmp, registered>>
         \/ /\ tmp # None /\ data' = tmp /\ tmp' = None
            /\ registered' = Added(registered, w.saves[1].name, w.saves[1].place)
  BY DEF Replace
<1>2. server' = [server EXCEPT ![s] = Idle] \/ server' = [server EXCEPT ![s] = t]
  BY DEF Replace, Goes, Fails
<1>3. /\ server = [r \in Server |-> server[r]]
      /\ DOMAIN w = {"pc", "saves", "then", "text", "file"}
  BY <1>1 DEF PlacesInv, Typed, Shaped
<1>4. DOMAIN t = DOMAIN w /\ t.pc = "read" /\ t.file = None
  BY <1>3
<1>5. Idle.pc = "idle"
  BY DEF Idle
<1> HIDE DEF t
<1>6. Typed'
  BY <1>1, <1>2, <1>3, <1>4, <1>5 DEF PlacesInv, Typed, Shaped
<1>7. SUFFICES ASSUME ~overlapped'
               PROVE Alone' /\ Agree' /\ Apart' /\ \A r \in Saving' : InStep(server[r])'
  BY <1>6 DEF PlacesInv
<1>8. Saving = {s} /\ Agree /\ Apart /\ InStep(w)
  BY <1>1, <1>7, OnlyOne DEF PlacesInv, Saving
<1>9. Saving' = {}
  BY <1>2, <1>3, <1>4, <1>5, <1>8 DEF Saving
<1>10. /\ w.file \in Inode /\ tmp = w.file /\ content[w.file] = Parsed(w.text)
       /\ w.text = Added(Saved, w.saves[1].name, w.saves[1].place)
  BY <1>1, <1>8 DEF InStep
<1>11. /\ tmp # None /\ data' = tmp /\ tmp' = None
       /\ registered' = Added(registered, w.saves[1].name, w.saves[1].place)
  BY PlacesAssumption, <1>1, <1>10
<1>12. Saved' = w.text
  BY <1>1, <1>10, <1>11 DEF Saved, Parsed
<1>13. Agree'
  BY <1>8, <1>10, <1>11, <1>12 DEF Agree, Added
<1>14. Apart'
  BY <1>10, <1>11 DEF Apart
<1> QED
  BY <1>9, <1>13, <1>14 DEF Alone

\* A server that gives up, waits for the site, or starts to save is in no file yet.
LEMMA QuietStates ==
    /\ Shaped(Idle) /\ Idle.pc = "idle"
    /\ \A words, saveAs : LET w == [pc |-> "harvest", words |-> words, saveAs |-> saveAs]
                         IN  Shaped(w) /\ w.pc = "harvest"
    /\ \A url : LET w == [pc |-> "listing", url |-> url] IN Shaped(w) /\ w.pc = "listing"
    /\ \A saves, then : Shaped(Save(saves, then)) /\ Save(saves, then).pc = "read"
BY DEF Shaped, Idle, Save

\* Each step of a server that writes nothing leaves it in one of these states.
LEMMA CallStep ==
    ASSUME PlacesInv, NEW s \in Server,
           \/ \E words \in Queries, name \in SaveAs : FindPlace(s, words, name)
           \/ \E shown \in Shown, captured, led \in BOOLEAN : Harvested(s, shown, captured, led)
           \/ \E url \in Urls, origin, dest \in SaveAs : AddPlace(s, url, origin, dest)
           \/ Dies(s)
           \/ \E trip \in Trips : AskQuote(s, trip) \/ CompareLeg(s, trip)
           \/ \E page \in Pages : Listed(s, page)
    PROVE  PlacesInv'
<1>1. UNCHANGED <<disk, history>>
  <2>1. CASE \E words \in Queries, name \in SaveAs : FindPlace(s, words, name)
    BY <2>1 DEF FindPlace
  <2>2. ASSUME NEW shown, NEW captured, NEW led, Harvested(s, shown, captured, led)
        PROVE  UNCHANGED <<disk, history>>
    BY <2>2 DEF Harvested
  <2>3. CASE \E url \in Urls, origin, dest \in SaveAs : AddPlace(s, url, origin, dest)
    BY <2>3 DEF AddPlace
  <2>4. CASE \/ Dies(s)
             \/ \E trip \in Trips : AskQuote(s, trip) \/ CompareLeg(s, trip)
    BY <2>4 DEF Dies, AskQuote, CompareLeg
  <2>5. CASE \E page \in Pages : Listed(s, page)
    BY <2>5 DEF Listed
  <2> QED
    BY <2>1, <2>2, <2>3, <2>4, <2>5
<1>2. \/ \E words, saveAs : Goes(s, [pc |-> "harvest", words |-> words, saveAs |-> saveAs])
      \/ \E url : Goes(s, [pc |-> "listing", url |-> url])
      \/ \E saves, then : Goes(s, Save(saves, then))
      \/ Goes(s, Idle)
  <2>1. CASE \E words \in Queries, name \in SaveAs : FindPlace(s, words, name)
    BY <2>1 DEF FindPlace, Begins
  <2>2. CASE \E shown \in Shown, captured, led \in BOOLEAN : Harvested(s, shown, captured, led)
    <3>1. PICK shown, captured, led : Harvested(s, shown, captured, led)
      BY <2>2
    <3> QED
      BY <3>1, ZenonT(60) DEF Harvested, Fails
  <2>3. CASE \E url \in Urls, origin, dest \in SaveAs : AddPlace(s, url, origin, dest)
    BY <2>3 DEF AddPlace, Begins, Fails
  <2>4. CASE Dies(s)
    BY <2>4 DEF Dies
  <2>5. ASSUME NEW trip, NEW found, Quote(s, trip, found)
        PROVE  Goes(s, Idle) \/ \E url : Goes(s, [pc |-> "listing", url |-> url])
    BY <2>5 DEF Quote, Begins, Fails
  <2>6. CASE \E trip \in Trips : AskQuote(s, trip) \/ CompareLeg(s, trip)
    <3>1. \/ \E trip, found : Quote(s, trip, found)
          \/ Goes(s, Idle)
      BY <2>6 DEF AskQuote, CompareLeg, Fails
    <3> QED
      BY <2>5, <3>1
  <2>7. CASE \E page \in Pages : Listed(s, page)
    BY <2>7 DEF Listed, Fails
  <2> QED
    BY <2>1, <2>2, <2>3, <2>4, <2>6, <2>7
<1>3. PICK w : Goes(s, w) /\ Shaped(w) /\ w.pc \notin {"open", "write", "replace"}
  BY <1>2, QuietStates
<1> QED
  BY <1>1, <1>3, QuietStep

\* Every step keeps the invariant.
LEMMA NextInv == PlacesInv /\ [Next]_vars => PlacesInv'
<1> SUFFICES ASSUME PlacesInv, [Next]_vars PROVE PlacesInv'
  OBVIOUS
<1>1. CASE UNCHANGED vars
  BY <1>1 DEF vars, PlacesInv, Typed, Alone, Agree, Apart, InStep, Saving, Saved
<1>2. CASE Rest
  BY <1>1, <1>2 DEF Rest
<1>3. ASSUME NEW s \in Server, Load(s) \/ OpenTmp(s) \/ WriteTmp(s) \/ Replace(s)
      PROVE PlacesInv'
  BY <1>3, LoadStep, OpenStep, WriteStep, ReplaceStep
<1> QED
  BY <1>1, <1>2, <1>3, CallStep DEF Next

-----------------------------------------------------------------------------
(* The places that are registered *)

\* In every reachable state the shapes hold, and as long as no save has begun within
\* another, at most one server is in the middle of one and its text is the store with
\* its place added.
THEOREM PlacesInvariant == Spec => []PlacesInv
<1>1. Init => PlacesInv
  BY InitInv
<1>2. PlacesInv /\ [Next]_vars => PlacesInv'
  BY NextInv
<1> QED
  BY <1>1, <1>2, PTL DEF Spec

\* As long as no two servers save at once, what a name was last registered as is what a
\* quote by that name goes to, for any number of servers that die at any step of a save
\* (save_place, _write_data, resolve_place).
THEOREM RegisteredPlacesArePriced == Spec => []RegisteredIsPriced
<1>1. PlacesInv => RegisteredIsPriced
  <2> SUFFICES ASSUME PlacesInv, ~overlapped, NEW n \in DOMAIN registered \ DOMAIN Alias
               PROVE  ResolvePlace(n, Saved) = registered[n]
    BY DEF RegisteredIsPriced
  <2>1. n \in DOMAIN Saved /\ Saved[n] = registered[n]
    BY DEF PlacesInv, Agree
  <2>2. Unaliased(n) = n
    BY DEF Unaliased
  <2> QED
    BY <2>1, <2>2 DEF ResolvePlace, KnownPlaces
<1> QED
  BY <1>1, PlacesInvariant, PTL

-----------------------------------------------------------------------------
(* The lookup of a place *)

\* What FullestNameWins asks of a place and the words of a query.
Named(p, words) == \E r \in Telling(words) : Names(r, p)

\* One run of words is as long as another.
Longer(X) == {p \in Seq(X) \X Seq(X) : Len(p[1]) >= Len(p[2])}

\* The runs of a list of words are its parts from one place to a later one.
LEMMA RunsAre ==
    ASSUME NEW X, NEW words \in Seq(X), NEW r
    PROVE  /\ r \in Runs(words) <=>
                \E i, j \in 1..Len(words) : i <= j /\ r = SubSeq(words, i, j)
           /\ r \in Runs(words) => r \in Seq(X) /\ Len(r) \in Nat \ {0}
<1>1. Len(words) \in Nat /\ DOMAIN words = 1..Len(words)
  BY LenProperties
<1>2. \A i, j \in 1..Len(words) : /\ SubSeq(words, i, j) \in Seq(X)
                                  /\ SubSeq(words, i, j) # <<>> <=> i <= j
  <2> TAKE i, j \in 1..Len(words)
  <2>1. /\ SubSeq(words, i, j) \in Seq(X)
        /\ Len(SubSeq(words, i, j)) = IF i <= j THEN j - i + 1 ELSE 0
    BY <1>1, SubSeqProperties
  <2> QED
    BY <2>1, EmptySeq
<1>3. r \in Runs(words) <=> (r # <<>> /\ \E i, j \in DOMAIN words : r = SubSeq(words, i, j))
  BY DEF Runs
<1>4. r \in Runs(words) <=> \E i, j \in 1..Len(words) : i <= j /\ r = SubSeq(words, i, j)
  BY <1>1, <1>2, <1>3
<1>5. r \in Runs(words) => r \in Seq(X) /\ r # <<>>
  BY <1>2, <1>3, <1>4
<1> QED
  BY <1>4, <1>5, EmptySeq

\* The windows of a query are its runs (harvest.py:146-148).
LEMMA WindowsAre ==
    ASSUME NEW X, NEW words \in Seq(X)
    PROVE  Windows(words) \in Seq(Seq(X)) /\ ToSet(Windows(words)) = Runs(words)
<1> DEFINE n == Len(words)
           seqs == [k \in 1..n |-> [start \in 1..k |-> SubSeq(words, start, start + n - k)]]
<1>1. n \in Nat /\ DOMAIN words = 1..n
  BY LenProperties
<1>2. \A i, j \in 1..n : SubSeq(words, i, j) \in Seq(X)
  BY <1>1, SubSeqProperties
<1>3. \A k \in 1..n : \A start \in 1..k :
        start + n - k \in 1..n /\ start \in 1..n /\ start <= start + n - k
  BY <1>1
<1>4. \A k \in 1..n : seqs[k] \in Seq(Seq(X))
  <2> TAKE k \in 1..n
  <2>1. \A start \in 1..k : SubSeq(words, start, start + n - k) \in Seq(X)
    BY <1>2, <1>3
  <2> QED
    BY <1>1, <2>1
<1>5. Windows(words) = FlattenSeq(seqs)
  BY <1>1 DEF Windows
<1>6. seqs \in [1..n -> Seq(Seq(X))]
  BY <1>4
<1>7. /\ FlattenSeq(seqs) \in Seq(Seq(X))
      /\ ToSet(FlattenSeq(seqs)) = UNION {ToSet(seqs[k]) : k \in 1..n}
  BY <1>1, <1>6, FlattenIs
<1>8. \A k \in 1..n : ToSet(seqs[k]) = {SubSeq(words, start, start + n - k) : start \in 1..k}
  BY DEF ToSet
<1>9. ASSUME NEW r \in Runs(words) PROVE \E k \in 1..n : r \in ToSet(seqs[k])
  <2>1. PICK i \in 1..n, j \in 1..n : r = SubSeq(words, i, j) /\ i <= j
    BY <1>9, RunsAre
  <2> DEFINE k == n - (j - i)
  <2>2. k \in 1..n /\ i \in 1..k /\ i + n - k = j
    BY <1>1, <2>1
  <2> HIDE DEF k
  <2> QED
    BY <1>8, <2>1, <2>2
<1>10. ASSUME NEW k \in 1..n, NEW r \in ToSet(seqs[k]) PROVE r \in Runs(words)
  <2>1. PICK start \in 1..k : r = SubSeq(words, start, start + n - k)
    BY <1>8, <1>10
  <2> DEFINE j == start + n - k
  <2>2. j \in 1..n /\ start \in 1..n /\ start <= j /\ r = SubSeq(words, start, j)
    BY <1>3, <2>1
  <2> HIDE DEF j, seqs
  <2> QED
    BY <2>2, RunsAre
<1> HIDE DEF seqs
<1> QED
  BY <1>5, <1>7, <1>9, <1>10

\* They are laid out the longest first.
LEMMA WindowsFall ==
    ASSUME NEW X, NEW words \in Seq(X)
    PROVE  Falls(Windows(words), Longer(X))
<1> DEFINE n == Len(words)
           seqs == [k \in 1..n |-> [start \in 1..k |-> SubSeq(words, start, start + n - k)]]
<1>1. n \in Nat /\ DOMAIN words = 1..n
  BY LenProperties
<1>2. ASSUME NEW k \in 1..n, NEW start \in 1..k
      PROVE  /\ SubSeq(words, start, start + n - k) \in Seq(X)
             /\ Len(SubSeq(words, start, start + n - k)) = n - k + 1
  <2>1. /\ start \in 1..n /\ start + n - k \in 1..n /\ start <= start + n - k
        /\ start + n - k - start + 1 = n - k + 1
    BY <1>1
  <2> DEFINE last == start + n - k
  <2> HIDE DEF last
  <2>2. /\ SubSeq(words, start, last) \in Seq(X)
        /\ Len(SubSeq(words, start, last)) = IF start <= last THEN last - start + 1 ELSE 0
    BY <1>1, <2>1, SubSeqProperties DEF last
  <2> QED
    BY <2>1, <2>2 DEF last
<1>3. ASSUME NEW k \in 1..n PROVE seqs[k] \in Seq(Seq(X))
  <2>1. \A start \in 1..k : SubSeq(words, start, start + n - k) \in Seq(X)
    BY <1>2
  <2> QED
    BY <1>1, <2>1
<1>4. Windows(words) = FlattenSeq(seqs)
  BY <1>1 DEF Windows
<1>5. seqs \in [1..n -> Seq(Seq(X))]
  BY <1>3
<1>6. ASSUME NEW k \in 1..n, NEW a \in ToSet(seqs[k]) PROVE a \in Seq(X) /\ Len(a) = n - k + 1
  <2>1. PICK start \in 1..k : a = SubSeq(words, start, start + n - k)
    BY DEF ToSet
  <2> QED
    BY <1>2, <2>1
<1>7. \A i, j \in 1..n : i <= j =>
        \A a \in ToSet(seqs[i]), b \in ToSet(seqs[j]) : <<a, b>> \in Longer(X)
  <2> SUFFICES ASSUME NEW i \in 1..n, NEW j \in 1..n, i <= j,
                      NEW a \in ToSet(seqs[i]), NEW b \in ToSet(seqs[j])
               PROVE  <<a, b>> \in Longer(X)
    OBVIOUS
  <2>1. /\ a \in Seq(X) /\ Len(a) = n - i + 1 /\ b \in Seq(X) /\ Len(b) = n - j + 1
    BY <1>6
  <2>2. n - i + 1 >= n - j + 1
    BY <1>1
  <2> QED
    BY <2>1, <2>2 DEF Longer
<1> HIDE DEF seqs, n
<1> QED
  BY <1>1, <1>4, <1>5, <1>7, FlattenFalls

\* The variants of a query are its telling runs, each of them once (_query_variants).
LEMMA VariantsAre ==
    ASSUME NEW X, NEW words \in Seq(X)
    PROVE  /\ \E n \in Nat : DOMAIN QueryVariants(words) = 1..n
           /\ ToSet(QueryVariants(words)) = Telling(words)
<1> DEFINE all == Windows(words)
           n == Len(all)
           S == {i \in 1..n : ~(Len(all[i]) = 1 /\ all[i][1] \in RegionWord)}
           tried == Picked(all, S)
           m == Cardinality(S)
           T == {i \in DOMAIN tried : \A j \in 1..(i - 1) : tried[j] # tried[i]}
<1>1. /\ all \in Seq(Seq(X)) /\ ToSet(all) = Runs(words) /\ n \in Nat /\ DOMAIN all = 1..n
      /\ ToSet(all) = {all[i] : i \in 1..n}
  BY WindowsAre, LenProperties DEF ToSet
<1>2. QueryVariants(words) = IF tried = <<>> THEN <<words>> ELSE Picked(tried, T)
  BY <1>1 DEF QueryVariants, Keep, FirstOfEach
<1> HIDE DEF all, n, T
<1>3. /\ m \in Nat /\ DOMAIN tried = 1..m /\ ToSet(tried) = At(all, S)
      /\ tried # <<>> <=> S # {}
  <2>1. S \in SUBSET (1..n)
    OBVIOUS
  <2> HIDE DEF S
  <2> QED
    BY <1>1, <2>1, PickedSet
<1>4. ToSet(tried) = {r \in Runs(words) : Len(r) > 1 \/ r[1] \notin RegionWord}
  <2>1. \A r \in Runs(words) : Len(r) \in Nat \ {0}
    BY RunsAre
  <2>2. \A i \in 1..n : all[i] \in Runs(words)
    BY <1>1
  <2>3. \A i \in 1..n : i \in S <=> Len(all[i]) > 1 \/ all[i][1] \notin RegionWord
    <3> TAKE i \in 1..n
    <3>1. Len(all[i]) \in Nat \ {0}
      BY <2>1, <2>2
    <3>2. ~(Len(all[i]) = 1) <=> Len(all[i]) > 1
      <4>1. \A x \in Nat \ {0} : ~(x = 1) <=> x > 1
        OBVIOUS
      <4> QED
        BY <3>1, <4>1
    <3> QED
      BY <3>2
  <2>4. S \in SUBSET (1..n) /\ \A r \in Runs(words) : \E i \in 1..n : r = all[i]
    BY <1>1
  <2> HIDE DEF S, tried, m
  <2> QED
    BY <1>3, <2>2, <2>3, <2>4 DEF At
<1> HIDE DEF tried, S, m
<1>5. \A r \in Runs(words) : r # words => Len(words) > 1
  <2> TAKE r \in Runs(words)
  <2>1. PICK i \in 1..Len(words), j \in 1..Len(words) : r = SubSeq(words, i, j)
    BY RunsAre
  <2>2. Len(words) \in Nat
    BY LenProperties
  <2>3. CASE Len(words) <= 1
    <3>1. i = 1 /\ j = 1 /\ Len(words) = 1
      <4>1. \A x \in Nat : x <= 1 => \A k \in 1..x : k = 1 /\ x = 1
        OBVIOUS
      <4> QED
        BY <2>2, <2>3, <4>1
    <3>2. SubSeq(words, 1, Len(words)) = words
      BY SubSeqFull
    <3> QED
      BY <2>1, <3>1, <3>2
  <2> QED
    BY <2>2, <2>3
<1>6. Len(words) > 1 => words \in Runs(words)
  <2> SUFFICES ASSUME Len(words) > 1 PROVE words \in Runs(words)
    OBVIOUS
  <2>1. 1 \in 1..Len(words) /\ Len(words) \in 1..Len(words) /\ 1 <= Len(words)
    BY LenProperties
  <2>2. SubSeq(words, 1, Len(words)) = words
    BY SubSeqFull
  <2> QED
    BY <2>1, <2>2, RunsAre
<1>7. CASE tried = <<>>
  <2>1. ToSet(tried) = {}
    BY <1>7 DEF ToSet
  <2>2. DOMAIN QueryVariants(words) = 1..1 /\ ToSet(QueryVariants(words)) = {words}
    BY <1>2, <1>7 DEF ToSet
  <2> QED
    BY <1>4, <2>1, <2>2 DEF Telling
<1>8. CASE tried # <<>>
  <2>1. T \in SUBSET (1..m) /\ m \in Nat /\ DOMAIN tried = 1..m
    BY <1>3 DEF T
  <2>2. /\ DOMAIN Picked(tried, T) = 1..Cardinality(T) /\ Cardinality(T) \in Nat
        /\ ToSet(Picked(tried, T)) = At(tried, T)
    <3> HIDE DEF T
    <3> QED
      BY <2>1, PickedSet
  <2>3. ASSUME NEW k \in 1..m PROVE \E i \in T : tried[i] = tried[k]
    <3> DEFINE same == {i \in 1..m : tried[i] = tried[k]}
    <3>1. same \in SUBSET Nat /\ k \in same
      BY <2>1
    <3>2. PICK i \in same : \A j \in same : i <= j
      BY <3>1, Least
    <3>3. \A j \in 1..(i - 1) : j \in 1..m /\ ~(i <= j)
      BY <2>1
    <3>4. \A j \in 1..(i - 1) : tried[j] # tried[i]
      BY <3>2, <3>3
    <3> QED
      BY <2>1, <3>2, <3>4 DEF T
  <2>4. At(tried, T) = ToSet(tried)
    <3> HIDE DEF T
    <3> QED
      BY <2>1, <2>3 DEF ToSet, At
  <2>5. words \in ToSet(tried)
    <3>1. PICK r \in ToSet(tried) : TRUE
      <4>1. 1 \in DOMAIN tried
        <5>1. m # 0
          BY <1>8, <2>1, <2>2, <1>3 DEF tried, m
        <5> QED
          BY <2>1, <5>1
      <4> QED
        BY <4>1 DEF ToSet
    <3>2. r \in Runs(words) /\ (r = words \/ Len(words) > 1)
      BY <1>4, <1>5, <3>1
    <3> QED
      BY <1>4, <1>6, <3>1, <3>2
  <2> QED
    BY <1>2, <1>4, <1>8, <2>2, <2>4, <2>5 DEF Telling
<1> QED
  BY <1>7, <1>8

\* A longer run is tried before a shorter one (_query_variants).
LEMMA VariantsFall ==
    ASSUME NEW X, NEW words \in Seq(X)
    PROVE  Falls(QueryVariants(words), Longer(X))
<1> DEFINE all == Windows(words)
           n == Len(all)
           S == {i \in 1..n : ~(Len(all[i]) = 1 /\ all[i][1] \in RegionWord)}
           tried == Picked(all, S)
           m == Cardinality(S)
           T == {i \in DOMAIN tried : \A j \in 1..(i - 1) : tried[j] # tried[i]}
<1>1. all \in Seq(Seq(X)) /\ n \in Nat /\ DOMAIN all = 1..n
  BY WindowsAre, LenProperties
<1>2. QueryVariants(words) = IF tried = <<>> THEN <<words>> ELSE Picked(tried, T)
  BY <1>1 DEF QueryVariants, Keep, FirstOfEach
<1>3. S \in SUBSET (1..n) /\ Falls(all, Longer(X))
  BY WindowsFall
<1> HIDE DEF all, n, S, T
<1>4. m \in Nat /\ DOMAIN tried = 1..m /\ Falls(tried, Longer(X))
  BY <1>1, <1>3, PickedSet, PickedFalls
<1> HIDE DEF tried, m
<1>5. Falls(Picked(tried, T), Longer(X))
  <2>1. T \in SUBSET (1..m)
    BY <1>4 DEF T
  <2> QED
    BY <1>4, <2>1, PickedFalls
<1>6. Falls(<<words>>, Longer(X))
  <2>1. <<words, words>> \in Longer(X) /\ \A k \in DOMAIN <<words>> : <<words>>[k] = words
    BY LenProperties DEF Longer
  <2> QED
    BY <2>1 DEF Falls
<1> QED
  BY <1>2, <1>5, <1>6

\* The strong tiers are those of a place that was named, and a place that was named is
\* passed over only for one that was named as fully (_place_from_captured).
LEMMA CapturedIs ==
    ASSUME NEW X, NEW words \in Seq(X), NEW Y, NEW places \in Seq(Y), None \notin Y
    PROVE  LET hit == PlaceFromCaptured(places, words)
           IN  /\ hit.tier \in StrongTier => hit.place \in Y /\ Named(hit.place, words)
               /\ \A p \in ToSet(places), r \in Telling(words) : Names(r, p) =>
                    /\ hit.tier \in StrongTier
                    /\ \E t \in Telling(words) : Names(t, hit.place) /\ Len(t) >= Len(r)
<1> DEFINE n == Len(places)
           q == Spoken(words)
           tried == QueryVariants(words)
           Exact(w) == {i \in 1..n : NameOf(places[i]) = Spoken(w)}
           Segment(w) == {i \in 1..n : FirstSegment(NameOf(places[i])) = Spoken(w)}
           exact(w) == Picked(places, Exact(w))
           segment(w) == Picked(places, Segment(w))
           S == {k \in DOMAIN tried : exact(tried[k]) \o segment(tried[k]) # <<>>}
           named == Picked(tried, S)
           w == named[1]
           regional == Keep(places, LAMBDA p : Within(q, p.secondary))
           prefix == Keep(places, LAMBDA p : IsPrefix(q, FirstSegment(NameOf(p))))
           substring == Keep(places, LAMBDA p : Within(q, NameOf(p)))
           weak == <<<<regional, "regional">>, <<prefix, "prefix">>,
                     <<substring, "substring">>, <<places, "fallback">>>>
           W == {i \in DOMAIN weak : weak[i][1] # <<>>}
           some == Picked(weak, W)
<1>1. n \in Nat /\ DOMAIN places = 1..n /\ \A i \in 1..n : places[i] \in Y
  BY LenProperties, ElementOfSeq
<1>2. PlaceFromCaptured(places, words)
      = IF named # <<>>
        THEN IF exact(w) # <<>>
             THEN Hit(exact(w)[1], IF w = words THEN "exact" ELSE "exact_shortened")
             ELSE Hit(segment(w)[1], IF w = words THEN "segment" ELSE "segment_shortened")
        ELSE IF some # <<>> THEN Hit(some[1][1][1], some[1][2]) ELSE Hit(None, "none")
  BY <1>1 DEF PlaceFromCaptured, Keep
<1>3. PICK m \in Nat : DOMAIN tried = 1..m
  BY VariantsAre
<1>4. ToSet(tried) = Telling(words) /\ ToSet(tried) = {tried[k] : k \in 1..m}
  BY <1>3, VariantsAre DEF ToSet
<1>5. some # <<>> => some[1][2] \in {"regional", "prefix", "substring", "fallback"}
  <2>1. DOMAIN weak = 1..4 /\ \A i \in 1..4 : weak[i][2] \in
          {"regional", "prefix", "substring", "fallback"}
    OBVIOUS
  <2> HIDE DEF weak
  <2>2. W \in SUBSET (1..4) /\ 4 \in Nat
    BY <2>1
  <2> HIDE DEF W
  <2>3. some # <<>> => some[1] \in At(weak, W)
    BY <2>1, <2>2, PickedSet
  <2> HIDE DEF some
  <2> QED
    BY <2>1, <2>2, <2>3 DEF At
<1> HIDE DEF some, tried
<1>6. \A v : /\ exact(v) \in Seq(Y) /\ segment(v) \in Seq(Y)
             /\ exact(v) # <<>> <=> Exact(v) # {}
             /\ segment(v) # <<>> <=> Segment(v) # {}
             /\ Exact(v) # {} => exact(v)[1] \in At(places, Exact(v))
             /\ Segment(v) # {} => segment(v)[1] \in At(places, Segment(v))
  <2> TAKE v
  <2>1. Exact(v) \in SUBSET (1..n) /\ Segment(v) \in SUBSET (1..n)
    OBVIOUS
  <2> DEFINE E == Exact(v)
             G == Segment(v)
  <2>2. /\ At(places, E) \subseteq Y /\ At(places, G) \subseteq Y
    BY <1>1, <2>1 DEF At
  <2> HIDE DEF E, G
  <2>3. /\ Picked(places, E) \in Seq(At(places, E)) /\ Picked(places, G) \in Seq(At(places, G))
        /\ Picked(places, E) # <<>> <=> E # {}
        /\ Picked(places, G) # <<>> <=> G # {}
        /\ E # {} => Picked(places, E)[1] \in At(places, E)
        /\ G # {} => Picked(places, G)[1] \in At(places, G)
    BY <1>1, <2>1, PickedSet DEF E, G
  <2>4. Picked(places, E) \in Seq(Y) /\ Picked(places, G) \in Seq(Y)
    BY <2>2, <2>3
  <2> QED
    BY <2>3, <2>4 DEF E, G
<1>7. \A v : exact(v) \o segment(v) # <<>> <=> Exact(v) # {} \/ Segment(v) # {}
  <2> TAKE v
  <2>1. exact(v) \in Seq(Y) /\ segment(v) \in Seq(Y)
    BY <1>6
  <2>2. \A s, t \in Seq(Y) : s \o t # <<>> <=> s # <<>> \/ t # <<>>
    BY EmptySeq, ConcatProperties
  <2> HIDE DEF exact, segment
  <2>3. exact(v) \o segment(v) # <<>> <=> exact(v) # <<>> \/ segment(v) # <<>>
    BY <2>1, <2>2
  <2> QED
    BY <1>6, <2>3
<1>8. /\ S \in SUBSET (1..m)
      /\ \A k \in 1..m : k \in S <=> Exact(tried[k]) # {} \/ Segment(tried[k]) # {}
  BY <1>3, <1>7
<1> HIDE DEF S
<1>9. /\ named # <<>> <=> S # {}
      /\ S # {} => w \in At(tried, S)
  BY <1>3, <1>8, PickedSet
<1>10. ASSUME named # <<>>
       PROVE  /\ w \in Telling(words) /\ (Exact(w) # {} \/ Segment(w) # {})
              /\ Exact(w) # {} => exact(w)[1] \in Y /\ NameOf(exact(w)[1]) = Spoken(w)
              /\ Segment(w) # {} => /\ segment(w)[1] \in Y
                                    /\ FirstSegment(NameOf(segment(w)[1])) = Spoken(w)
  <2> HIDE DEF named
  <2>1. PICK k \in S : w = tried[k]
    BY <1>9, <1>10 DEF At
  <2>2. w \in Telling(words) /\ (Exact(w) # {} \/ Segment(w) # {})
    BY <1>4, <1>8, <2>1
  <2> HIDE DEF w, exact, segment
  <2>3. Exact(w) # {} => exact(w)[1] \in Y /\ NameOf(exact(w)[1]) = Spoken(w)
    BY <1>1, <1>6 DEF At
  <2>4. Segment(w) # {} => /\ segment(w)[1] \in Y
                           /\ FirstSegment(NameOf(segment(w)[1])) = Spoken(w)
    BY <1>1, <1>6 DEF At
  <2> QED
    BY <2>2, <2>3, <2>4
<1>11. exact(w) # <<>> <=> Exact(w) # {}
  BY <1>6
<1>12. ASSUME NEW p \in ToSet(places), NEW r \in Telling(words), Names(r, p)
       PROVE  named # <<>> /\ Len(w) >= Len(r)
  <2>1. PICK i \in 1..n : p = places[i]
    BY <1>1 DEF ToSet
  <2>2. PICK k \in 1..m : r = tried[k]
    BY <1>4
  <2>3. i \in Exact(r) \/ i \in Segment(r)
    BY <1>12, <2>1 DEF Names
  <2>4. k \in S
    BY <1>8, <2>2, <2>3
  <2>5. PICK at \in [1..Cardinality(S) -> S] :
          /\ Cardinality(S) \in Nat
          /\ \A s : Picked(s, S) = [l \in 1..Cardinality(S) |-> s[at[l]]]
          /\ \A l \in S : \E x \in 1..Cardinality(S) : at[x] = l
          /\ \A l, x \in 1..Cardinality(S) : l < x <=> at[l] < at[x]
    BY <1>8, PickedIs
  <2>6. PICK x \in 1..Cardinality(S) : at[x] = k
    BY <2>4, <2>5
  <2>7. 1 \in 1..Cardinality(S) /\ w = tried[at[1]] /\ at[1] \in 1..m
    <3> DEFINE c == Cardinality(S)
    <3>1. named = [l \in 1..c |-> tried[at[l]]]
      BY <2>5
    <3> HIDE DEF named
    <3>2. 1 \in 1..c
      BY <2>5, <2>6
    <3>3. at[1] \in S
      BY <2>5, <3>2
    <3> QED
      BY <1>8, <3>1, <3>2, <3>3
  <2>8. at[1] <= k
    <3>1. at[1] = at[x] \/ at[1] < at[x]
      BY <2>5, <2>6, <2>7
    <3> QED
      BY <2>6, <2>7, <3>1
  <2>9. <<w, r>> \in Longer(X)
    <3>1. Falls(tried, Longer(X))
      BY VariantsFall DEF tried
    <3> QED
      BY <1>3, <2>2, <2>7, <2>8, <3>1 DEF Falls
  <2> QED
    BY <1>9, <2>4, <2>9 DEF Longer
<1> HIDE DEF named, w, exact, segment, Exact, Segment
<1>13. CASE named # <<>>
  <2> DEFINE hit == PlaceFromCaptured(places, words)
  <2>1. hit.tier \in StrongTier /\ hit.place \in Y /\ Names(w, hit.place) /\ w \in Telling(words)
    BY <1>2, <1>10, <1>11, <1>13 DEF Hit, StrongTier, Names
  <2> HIDE DEF hit
  <2> QED
    BY <1>12, <2>1 DEF Named, hit
<1>14. CASE named = <<>>
  <2>1. ~\E p \in ToSet(places), r \in Telling(words) : Names(r, p)
    BY <1>12, <1>14
  <2>2. PlaceFromCaptured(places, words).tier \notin StrongTier
    BY <1>2, <1>5, <1>14 DEF Hit, StrongTier
  <2> QED
    BY <2>1, <2>2
<1> QED
  BY <1>13, <1>14

\* The address the click led to is never a strong tier (harvest_place).
LEMMA HarvestIs ==
    ASSUME NEW X, NEW words \in Seq(X), NEW Y, NEW places \in Seq(Y), None \notin Y, NEW url
    PROVE  LET hit == HarvestPlace(places, url, words)
           IN  /\ hit.tier \in StrongTier => Named(hit.place, words)
               /\ \A p \in ToSet(places), r \in Telling(words) : Names(r, p) =>
                    /\ hit.tier \in StrongTier
                    /\ \E t \in Telling(words) : Names(t, hit.place) /\ Len(t) >= Len(r)
<1> DEFINE hit == PlaceFromCaptured(places, words)
<1>1. /\ hit.tier \in StrongTier => hit.place \in Y /\ Named(hit.place, words)
      /\ \A p \in ToSet(places), r \in Telling(words) : Names(r, p) =>
           /\ hit.tier \in StrongTier
           /\ \E t \in Telling(words) : Names(t, hit.place) /\ Len(t) >= Len(r)
  BY CapturedIs
<1>2. HarvestPlace(places, url, words)
      = IF hit.place # None THEN hit
        ELSE Hit(UrlPlace(url), IF UrlPlace(url) = None THEN "none" ELSE "from_url")
  BY DEF HarvestPlace
<1> HIDE DEF hit
<1>3. CASE hit.place # None
  BY <1>1, <1>2, <1>3
<1>4. CASE hit.place = None
  BY <1>1, <1>2, <1>4 DEF Hit, StrongTier
<1> QED
  BY <1>3, <1>4

-----------------------------------------------------------------------------
(* The listing *)

\* Two pairs are compared as tuples are.
LEMMA LessOfPairs ==
    ASSUME NEW x1 \in Int, NEW x2 \in Int, NEW y1 \in Int, NEW y2 \in Int
    PROVE  /\ TupleLess(<<x1, x2>>, <<y1, y2>>) <=> x1 < y1 \/ (x1 = y1 /\ x2 < y2)
           /\ <<x1, x2>> = <<y1, y2>> <=> x1 = y1 /\ x2 = y2
<1> DEFINE x == <<x1, x2>>
           y == <<y1, y2>>
<1>1. DOMAIN x = {1, 2} /\ x[1] = x1 /\ x[2] = x2 /\ y[1] = y1 /\ y[2] = y2
  OBVIOUS
<1>2. x = y <=> x1 = y1 /\ x2 = y2
  OBVIOUS
<1> HIDE DEF x, y
<1>3. 1..(1 - 1) = {} /\ 1..(2 - 1) = {1}
  OBVIOUS
<1>4. TupleLess(x, y) <=> x1 < y1 \/ (x1 = y1 /\ x2 < y2)
  BY <1>1, <1>3 DEF TupleLess
<1> QED
  BY <1>2, <1>4 DEF x, y

\* The first cab of a listing is the cheapest of it, and none of a local package is rated
\* per kilometre (parse, is_package_bucket).
LEMMA ListingIs ==
    ASSUME NEW page \in Pages \ {None}
    PROVE  LET list == ParseCabs(page)
               cabs == ToSet(list.cabs)
           IN  /\ \A c \in cabs : c.fare # None => /\ list.cabs[1].fare # None
                                                   /\ list.cabs[1].fare <= c.fare
               /\ (\E c \in cabs : c.rated) =>
                    ~\E n \in 1..10 : list.km = 40 * n /\ list.halves = 8 * n
<1> DEFINE n == Len(page.cards)
           bucket == IsPackageBucket(page.km, page.halves)
           Rated(c) == page.km \notin {None, 0} /\ ~bucket /\ c.fare # None
           Row(c) == [category |-> c.category, fare |-> c.fare, rated |-> Rated(c)]
           cabs == [i \in DOMAIN page.cards |-> Row(page.cards[i])]
           a == [i \in 1..n |-> Flag(cabs[i].fare = None)]
           b == [i \in 1..n |-> OrZero(cabs[i].fare)]
           keys == [i \in 1..n |-> <<a[i], b[i]>>]
           at == Source(n, keys)
           t == ParseCabs(page).cabs
<1>1. n \in Nat /\ DOMAIN page.cards = 1..n
  BY AskedAssumption, LenProperties
<1>2. \A i \in 1..n : page.cards[i].fare \in Int \cup {None}
  BY <1>1, AskedAssumption DEF ToSet
<1>3. /\ t = SortedBy(cabs, [i \in DOMAIN cabs |-> <<Flag(cabs[i].fare = None), OrZero(cabs[i].fare)>>])
      /\ ParseCabs(page).km = page.km /\ ParseCabs(page).halves = page.halves
  BY DEF ParseCabs, Sorted
<1>4. /\ DOMAIN cabs = 1..n
      /\ \A i \in 1..n : /\ cabs[i].fare = page.cards[i].fare
                         /\ cabs[i].rated <=> Rated(page.cards[i])
  BY <1>1
<1> HIDE DEF cabs, Row
<1>5. a \in [1..n -> Int] /\ b \in [1..n -> Int]
  BY <1>2, <1>4 DEF Flag, OrZero
<1>6. t = SortedBy(cabs, keys)
  BY <1>3, <1>4
<1> HIDE DEF a, b
<1>7. keys \in [1..n -> [1..2 -> Int]]
  <2> SUFFICES ASSUME NEW i \in 1..n PROVE <<a[i], b[i]>> \in [1..2 -> Int]
    OBVIOUS
  <2>1. a[i] \in Int /\ b[i] \in Int
    BY <1>5
  <2> QED
    BY <2>1
<1>8. \A i \in 1..n : keys[i] = <<a[i], b[i]>>
  OBVIOUS
<1> HIDE DEF keys, n, at, t
<1>9. /\ \A m \in 1..n : at[m] \in 1..n
      /\ \A l, m \in 1..n : l < m => ~TupleLess(keys[at[m]], keys[at[l]])
      /\ DOMAIN t = 1..n /\ \A m \in 1..n : t[m] = cabs[at[m]]
  <2> DEFINE two == 2
  <2>1. two \in Nat /\ keys \in [1..n -> [1..two -> Int]]
    BY <1>7
  <2> HIDE DEF two
  <2>2. /\ Source(n, keys) \in [1..n -> 1..n]
        /\ \A i \in 1..n : \E m \in 1..n : Source(n, keys)[m] = i
        /\ \A l, m \in 1..n :
             l < m => ~TupleLess(keys[Source(n, keys)[m]], keys[Source(n, keys)[l]])
    BY <1>1, <2>1, SourceIs
  <2>3. /\ DOMAIN SortedBy(cabs, keys) = 1..n
        /\ \A m \in 1..n : SortedBy(cabs, keys)[m] = cabs[Source(n, keys)[m]]
        /\ ToSet(SortedBy(cabs, keys)) = ToSet(cabs)
        /\ SortedBy(cabs, keys) \in Seq(ToSet(cabs))
    BY <1>1, <1>4, <2>1, SortedSet
  <2> QED
    BY <1>6, <2>2, <2>3 DEF at
<1>10. \A c \in ToSet(t) : \E i \in 1..n : c = cabs[i]
  <2> TAKE c \in ToSet(t)
  <2>1. PICK m \in 1..n : c = t[m]
    BY <1>9 DEF ToSet
  <2>2. at[m] \in 1..n /\ c = cabs[at[m]]
    BY <1>9, <2>1
  <2> QED
    BY <2>2
<1>11. ASSUME NEW c \in ToSet(t), c.fare # None PROVE t[1].fare # None /\ t[1].fare <= c.fare
  <2>1. PICK m \in 1..n : c = t[m]
    BY <1>9, <1>11 DEF ToSet
  <2>2. 1 \in 1..n /\ at[1] \in 1..n /\ at[m] \in 1..n /\ (m = 1 \/ 1 < m)
    BY <1>1, <1>9
  <2> DEFINE f == at[1]
             i == at[m]
  <2>3. m # 1 => ~TupleLess(keys[i], keys[f])
    BY <1>9, <2>2
  <2>4. m # 1 => ~TupleLess(<<a[i], b[i]>>, <<a[f], b[f]>>)
    BY <1>8, <2>2, <2>3
  <2>5. t[1] = cabs[f] /\ c = cabs[i]
    BY <1>9, <2>1, <2>2
  <2>6. m = 1 => f = i
    OBVIOUS
  <2>7. f \in 1..n /\ i \in 1..n
    BY <2>2
  <2> HIDE DEF f, i
  <2>8. a[f] \in Int /\ a[i] \in Int /\ b[f] \in Int /\ b[i] \in Int
    BY <1>5, <2>7
  <2>9. m # 1 => a[f] < a[i] \/ (a[f] = a[i] /\ b[f] <= b[i])
    <3>1. TupleLess(<<a[i], b[i]>>, <<a[f], b[f]>>) <=> a[i] < a[f] \/ (a[i] = a[f] /\ b[i] < b[f])
      BY <2>8, LessOfPairs
    <3> QED
      BY <2>4, <2>8, <3>1
  <2>10. \A k \in {f, i} : /\ cabs[k].fare \in Int \cup {None}
                           /\ a[k] = IF cabs[k].fare = None THEN 1 ELSE 0
                           /\ b[k] = IF cabs[k].fare = None THEN 0 ELSE cabs[k].fare
    BY <1>2, <1>4, <2>7 DEF a, b, Flag, OrZero
  <2> QED
    BY <1>11, <2>5, <2>6, <2>9, <2>10
<1>12. ASSUME NEW c \in ToSet(t), c.rated, NEW k \in 1..10, page.km = 40 * k, page.halves = 8 * k
       PROVE  FALSE
  <2>1. ~bucket
    BY <1>4, <1>10, <1>12
  <2>2. None # 40 * k /\ None # 8 * k
    BY AskedAssumption
  <2>3. 40 * k > 0 /\ 8 * k > 0 /\ 40 * k = 5 * (8 * k) /\ (40 * k) % 40 = 0
    OBVIOUS
  <2> QED
    BY <1>12, <2>1, <2>2, <2>3 DEF IsPackageBucket
<1> QED
  BY <1>3, <1>11, <1>12 DEF t

-----------------------------------------------------------------------------
(* The answers *)

\* What FullestNameWins says of one answer.
Warned(a) ==
    a.tool = "find" /\ ~("error" \in DOMAIN a) =>
        /\ a.warning = "none" => Named(a.place, a.words)
        /\ \A r \in Telling(a.words), p \in ToSet(a.seen) : Names(r, p) =>
             \E t \in Telling(a.words) : Names(t, a.place) /\ Len(t) >= Len(r)

\* What QuoteIsWhatItSays says of one answer.
Fair(a) ==
    a.tool = "quote" /\ ~("error" \in DOMAIN a) =>
        LET list == a.listing
            cabs == ToSet(list.cabs)
        IN  /\ a.trip = "RT" => a.fares = "round"
            /\ \A c \in cabs : c.fare # None => /\ list.cabs[1].fare # None
                                                /\ list.cabs[1].fare <= c.fare
            /\ (\E c \in cabs : c.rated) =>
                 ~\E n \in 1..10 : list.km = 40 * n /\ list.halves = 8 * n

\* What a server has in hand: the answer it gives after its saves, the query it looks up,
\* the trip it was allowed to ask for.
Waiting(w) ==
    /\ w.pc \in {"read", "open", "write", "replace"} => Warned(w.then) /\ Fair(w.then)
    /\ w.pc = "harvest" => w.words \in Queries
    /\ w.pc = "listing" => (w.url.trip = "RT" => w.url.return > w.url.day)

SaidInv ==
    /\ answer = [s \in Server |-> answer[s]]
    /\ \A s \in Server : Warned(answer[s]) /\ Fair(answer[s]) /\ Waiting(server[s])

\* An answer that tells of no place and of no quote, and a server that waits for nothing.
LEMMA Silent ==
    /\ Waiting(Idle)
    /\ Warned(NoAnswer) /\ Fair(NoAnswer)
    /\ Warned([tool |-> "add"]) /\ Fair([tool |-> "add"])
    /\ \A t, k : Warned([tool |-> t, error |-> k]) /\ Fair([tool |-> t, error |-> k])
<1>1. Waiting(Idle) /\ Warned(NoAnswer) /\ Fair(NoAnswer)
  BY DEF Waiting, Warned, Fair, Idle, NoAnswer
<1>2. Warned([tool |-> "add"]) /\ Fair([tool |-> "add"])
  BY DEF Warned, Fair
<1>3. ASSUME NEW t, NEW k
      PROVE  Warned([tool |-> t, error |-> k]) /\ Fair([tool |-> t, error |-> k])
  <2>1. "error" \in DOMAIN [tool |-> t, error |-> k]
    OBVIOUS
  <2> QED
    BY <2>1 DEF Warned, Fair
<1> QED
  BY <1>1, <1>2, <1>3

\* A step of one server, which says nothing new or something true.
LEMMA SaidStep ==
    ASSUME PlacesInv, SaidInv, NEW s \in Server, NEW w, Goes(s, w), Waiting(w),
           UNCHANGED answer \/ \E a : Answers(s, a) /\ Warned(a) /\ Fair(a)
    PROVE  SaidInv'
<1>1. server' = [server EXCEPT ![s] = w] /\ server = [r \in Server |-> server[r]]
  BY DEF Goes, PlacesInv, Typed
<1>2. \A r \in Server : Waiting(server'[r])
  <2>1. \A r \in Server : server'[r] = IF r = s THEN w ELSE server[r]
    BY <1>1
  <2> QED
    BY <2>1 DEF SaidInv
<1>3. CASE UNCHANGED answer
  BY <1>2, <1>3 DEF SaidInv, Waiting
<1>4. ASSUME NEW a, Answers(s, a), Warned(a), Fair(a) PROVE SaidInv'
  <2>1. /\ answer' = [answer EXCEPT ![s] = a]
        /\ answer = [r \in Server |-> answer[r]]
    BY <1>4 DEF Answers, SaidInv
  <2>2. \A r \in Server : answer'[r] = IF r = s THEN a ELSE answer[r]
    BY <2>1
  <2>3. answer' = [r \in Server |-> answer'[r]]
    BY <2>1
  <2>4. \A r \in Server : Warned(answer'[r]) /\ Fair(answer'[r])
    BY <1>4, <2>2 DEF SaidInv
  <2> QED
    BY <1>2, <2>3, <2>4 DEF SaidInv, Warned, Fair, Waiting
<1> QED
  BY <1>3, <1>4

\* A call that begins, and one that fails.
LEMMA BeginStep ==
    ASSUME PlacesInv, SaidInv, NEW s \in Server, NEW w, Begins(s, w), Waiting(w)
    PROVE  SaidInv'
BY SaidStep, Silent DEF Begins

\* A tool that ends in an error leaves no answer behind that could break its word.
LEMMA FailStep ==
    ASSUME PlacesInv, SaidInv, NEW s \in Server, NEW t, NEW k, Fails(s, t, k)
    PROVE  SaidInv'
BY SaidStep, Silent DEF Fails

\* The place that was found is graded, and the warning follows the grade
\* (mmt_cab_find_place).
LEMMA HarvestedStep ==
    ASSUME PlacesInv, SaidInv, NEW s \in Server, NEW shown \in Shown,
           NEW captured \in BOOLEAN, NEW led \in BOOLEAN, Harvested(s, shown, captured, led)
    PROVE  SaidInv'
<1> DEFINE w == server[s]
           clicked == ClickBest([i \in DOMAIN shown |-> Text(shown[i])], Spoken(w.words))
           url == IF led /\ clicked # 0 THEN [NoUrl EXCEPT !.from = shown[clicked]] ELSE NoUrl
           seen == IF captured THEN shown ELSE <<>>
           hit == HarvestPlace(seen, url, w.words)
           place == hit.place
           name == IF w.saveAs # Unset THEN w.saveAs
                   ELSE IF place.city # None THEN place.city ELSE Spoken(w.words)
           forVenue == \E v \in Venue : Within(v, Spoken(w.words))
           warning == Warning(place.isCity, forVenue, hit.tier)
           then == [tool |-> "find", words |-> w.words, place |-> place, seen |-> seen,
                    warning |-> warning]
<1>1. /\ w.pc = "harvest"
      /\ \/ Fails(s, "find", "bad_input")
         \/ /\ Goes(s, Save(<<[name |-> name, place |-> place]>>, then))
            /\ UNCHANGED answer
  BY Zenon DEF Harvested
<1>2. w.words \in Seq(ToSet(w.words))
  BY <1>1, AskedAssumption DEF SaidInv, Waiting
<1>3. seen \in Seq(ToSet(shown)) /\ None \notin ToSet(shown)
  <2>1. shown \in Seq(ToSet(shown)) /\ None \notin ToSet(shown)
    BY AskedAssumption
  <2>2. <<>> \in Seq(ToSet(shown))
    BY EmptySeq
  <2> QED
    BY <2>1, <2>2
<1> HIDE DEF url, seen
<1>4. /\ hit.tier \in StrongTier => Named(place, w.words)
      /\ \A p \in ToSet(seen), r \in Telling(w.words) : Names(r, p) =>
           \E t \in Telling(w.words) : Names(t, place) /\ Len(t) >= Len(r)
  BY <1>2, <1>3, HarvestIs
<1>5. warning = "none" <=> hit.tier \in StrongTier
  BY DEF Warning
<1> HIDE DEF hit, name, warning
<1>6. Warned(then) /\ Fair(then)
  BY <1>4, <1>5 DEF Warned, Fair
<1> HIDE DEF then
<1>7. Waiting(Save(<<[name |-> name, place |-> place]>>, then))
  BY <1>6 DEF Waiting, Save
<1> QED
  BY <1>1, <1>7, FailStep, SaidStep

\* A save takes its answer along until the last place is in the file (save_place).
LEMMA SaveStep ==
    ASSUME PlacesInv, SaidInv, NEW s \in Server,
           Load(s) \/ OpenTmp(s) \/ WriteTmp(s) \/ Replace(s)
    PROVE  SaidInv'
<1> DEFINE w == server[s]
<1>1. /\ w.pc \in {"read", "open", "write", "replace"}
      /\ DOMAIN w = {"pc", "saves", "then", "text", "file"}
  BY DEF Load, OpenTmp, WriteTmp, Replace, PlacesInv, Typed, Shaped
<1>2. Warned(w.then) /\ Fair(w.then)
  BY <1>1 DEF SaidInv, Waiting
<1>3. ASSUME NEW t, t.pc \in {"read", "open", "write", "replace"}, t.then = w.then
      PROVE  Waiting(t)
  BY <1>2, <1>3 DEF Waiting
<1>4. CASE Load(s)
  <2> DEFINE text == Added(Store(w), w.saves[1].name, w.saves[1].place)
             t == [w EXCEPT !.pc = "open", !.text = text]
  <2>1. Goes(s, t) /\ UNCHANGED answer
    BY <1>4 DEF Load
  <2> HIDE DEF text
  <2>2. t.pc = "open" /\ t.then = w.then
    BY <1>1
  <2> HIDE DEF t
  <2> QED
    BY <1>3, <2>1, <2>2, SaidStep
<1>5. CASE OpenTmp(s)
  <2> DEFINE free == Inode \ ({data, tmp} \cup {server[r].file : r \in Saving})
             file == IF tmp = None THEN CHOOSE i \in free : TRUE ELSE tmp
             t == [w EXCEPT !.pc = "write", !.file = file]
  <2>1. Goes(s, t) /\ UNCHANGED answer
    BY <1>5 DEF OpenTmp
  <2> HIDE DEF file
  <2>2. t.pc = "write" /\ t.then = w.then
    BY <1>1
  <2> HIDE DEF t
  <2> QED
    BY <1>3, <2>1, <2>2, SaidStep
<1>6. CASE WriteTmp(s)
  <2> DEFINE t == [w EXCEPT !.pc = "replace"]
  <2>1. Goes(s, t) /\ UNCHANGED answer
    BY <1>6 DEF WriteTmp
  <2>2. t.pc = "replace" /\ t.then = w.then
    BY <1>1
  <2> HIDE DEF t
  <2> QED
    BY <1>3, <2>1, <2>2, SaidStep
<1>7. CASE Replace(s)
  <2> DEFINE rest == Tail(w.saves)
             t == [w EXCEPT !.pc = "read", !.saves = rest, !.file = None]
  <2>1. \/ Fails(s, w.then.tool, "unexpected")
        \/ Goes(s, Idle) /\ Answers(s, w.then)
        \/ Goes(s, t) /\ UNCHANGED answer
    BY <1>7 DEF Replace
  <2> HIDE DEF rest
  <2>2. t.pc = "read" /\ t.then = w.then
    BY <1>1
  <2> HIDE DEF t
  <2>3. Waiting(t) /\ Waiting(Idle)
    BY <1>3, <2>2, Silent
  <2> QED
    BY <1>2, <2>1, <2>3, FailStep, SaidStep
<1> QED
  BY <1>4, <1>5, <1>6, <1>7

\* No round trip is asked for that ends on the day it begins (validate_trip).
LEMMA QuoteStep ==
    ASSUME PlacesInv, SaidInv, NEW s \in Server, NEW trip, NEW found, Quote(s, trip, found)
    PROVE  SaidInv'
<1> DEFINE from == ResolvePlace(found[1], Saved)
           to == ResolvePlace(found[2], Saved)
           url == ListingUrl(from, to, trip.day, trip.trip, trip.return)
<1>1. \/ \E kind : Fails(s, "quote", kind)
      \/ /\ TripIsValid(trip.day, trip.trip, trip.return, Today) /\ url # None
         /\ Begins(s, [pc |-> "listing", url |-> url])
  BY Zenon DEF Quote
<1>2. CASE \E kind : Fails(s, "quote", kind)
  BY <1>2, FailStep
<1>3. CASE /\ TripIsValid(trip.day, trip.trip, trip.return, Today) /\ url # None
           /\ Begins(s, [pc |-> "listing", url |-> url])
  <2>1. /\ url.trip = trip.trip /\ url.day = trip.day /\ url.return = trip.return
    BY <1>3 DEF ListingUrl
  <2>2. trip.trip = "RT" => trip.return > trip.day
    BY <1>3 DEF TripIsValid
  <2> HIDE DEF url
  <2>3. Waiting([pc |-> "listing", url |-> url])
    BY <2>1, <2>2 DEF Waiting
  <2> QED
    BY <1>3, <2>3, BeginStep
<1> QED
  BY <1>1, <1>2, <1>3

\* The listing is answered as it was read (mmt_cab_quote, search).
LEMMA ListedStep ==
    ASSUME PlacesInv, SaidInv, NEW s \in Server, NEW page \in Pages, Listed(s, page)
    PROVE  SaidInv'
<1> DEFINE url == server[s].url
           list == ParseCabs(page)
           a == [tool |-> "quote", trip |-> url.trip, from |-> url.from, to |-> url.to,
                 fares |-> Priced(url), listing |-> list]
<1>1. \/ \E kind : Fails(s, "quote", kind)
      \/ page # None /\ Goes(s, Idle) /\ Answers(s, a)
  BY DEF Listed
<1>2. url.trip = "RT" => Priced(url) = "round"
  BY DEF Listed, SaidInv, Waiting, Priced
<1>3. page # None =>
        /\ \A c \in ToSet(list.cabs) : c.fare # None => /\ list.cabs[1].fare # None
                                                        /\ list.cabs[1].fare <= c.fare
        /\ (\E c \in ToSet(list.cabs) : c.rated) =>
             ~\E n \in 1..10 : list.km = 40 * n /\ list.halves = 8 * n
  BY ListingIs
<1> HIDE DEF list, url
<1>4. /\ a.tool = "quote" /\ a.trip = url.trip /\ a.fares = Priced(url) /\ a.listing = list
  OBVIOUS
<1> HIDE DEF a
<1>5. page # None => Warned(a) /\ Fair(a)
  BY <1>2, <1>3, <1>4 DEF Warned, Fair
<1> QED
  BY <1>1, <1>5, Silent, FailStep, SaidStep, SMTT(30)

\* Every step keeps what the servers have said true.
LEMMA SaidNext == PlacesInv /\ SaidInv /\ [Next]_vars => SaidInv'
<1> SUFFICES ASSUME PlacesInv, SaidInv, [Next]_vars PROVE SaidInv'
  OBVIOUS
<1>1. CASE UNCHANGED vars
  BY <1>1 DEF vars, SaidInv, Waiting, Warned, Fair
<1>2. CASE Rest
  BY <1>1, <1>2 DEF Rest
<1>3. ASSUME NEW s \in Server, NEW words \in Queries, NEW name \in SaveAs,
             FindPlace(s, words, name)
      PROVE  SaidInv'
  <2>1. Waiting([pc |-> "harvest", words |-> words, saveAs |-> name])
    BY DEF Waiting
  <2> QED
    BY <1>3, <2>1, BeginStep DEF FindPlace
<1>4. ASSUME NEW s \in Server, NEW url \in Urls, NEW origin \in SaveAs, NEW dest \in SaveAs,
             AddPlace(s, url, origin, dest)
      PROVE  SaidInv'
  <2>1. Fails(s, "add", "bad_input") \/ \E saves : Begins(s, Save(saves, [tool |-> "add"]))
    BY <1>4 DEF AddPlace
  <2>2. \A saves : Waiting(Save(saves, [tool |-> "add"]))
    BY Silent DEF Waiting, Save
  <2> QED
    BY <2>1, <2>2, BeginStep, FailStep
<1>5. ASSUME NEW s \in Server, Dies(s) PROVE SaidInv'
  BY <1>5, BeginStep, Silent DEF Dies, Begins
<1>6. ASSUME NEW s \in Server, NEW trip \in Trips, AskQuote(s, trip) \/ CompareLeg(s, trip)
      PROVE  SaidInv'
  BY <1>6, QuoteStep, FailStep DEF AskQuote, CompareLeg
<1> QED
  BY <1>1, <1>2, <1>3, <1>4, <1>5, <1>6, HarvestedStep, SaveStep, ListedStep DEF Next

\* Nothing has been said at the start.
LEMMA InitSaid == Init => SaidInv
<1> SUFFICES ASSUME Init PROVE SaidInv
  OBVIOUS
<1>1. /\ answer = [s \in Server |-> NoAnswer] /\ \A s \in Server : answer[s] = NoAnswer
      /\ \A s \in Server : server[s] = Idle
  BY DEF Init
<1> QED
  BY <1>1, Silent DEF SaidInv

\* What a server has in hand at each await is what its answer will need.
LEMMA SaidInvariant == Spec => []SaidInv
BY InitSaid, SaidNext, PlacesInvariant, PTL DEF Spec

\* A place that a lookup registers without a word of warning is one that was asked for by
\* name, and a place that was asked for by name is passed over only for one whose name
\* says as much of the query, whatever the queries and the suggestions and whichever
\* servers save meanwhile (_query_variants, _place_from_captured, match_quality).
THEOREM LookupsTakeTheFullestName == Spec => []FullestNameWins
<1>1. SaidInv => FullestNameWins
  BY DEF SaidInv, Warned, Named, FullestNameWins
<1> QED
  BY <1>1, SaidInvariant, PTL

\* A round trip carries round-trip fares, the first cab of a quote is its cheapest, and a
\* local package has no rate per kilometre, for every trip that may be asked for and every
\* listing (validate_trip, parse, is_package_bucket).
THEOREM QuotesSayWhatTheyAre == Spec => []QuoteIsWhatItSays
<1>1. SaidInv => QuoteIsWhatItSays
  BY DEF SaidInv, Fair, QuoteIsWhatItSays
<1> QED
  BY <1>1, SaidInvariant, PTL

-----------------------------------------------------------------------------
(* The marks and the order of the comparison *)

\* Of finitely many numbers, one is the least.
LEMMA Lowest ==
    ASSUME NEW n \in Nat, NEW W \in SUBSET (1..n), W # {}, NEW f, \A i \in W : f[i] \in Int
    PROVE  \E m \in W : \A k \in W : f[m] <= f[k]
<1> DEFINE Low(k) == \E m \in W : m <= k /\ \A j \in W : j <= k => f[m] <= f[j]
           T == {k \in 0..n : (\E j \in W : j <= k) => Low(k)}
<1>1. 0 \in T
  OBVIOUS
<1>2. ASSUME NEW k \in 0..(n - 1), k \in T PROVE k + 1 \in T
  <2>1. SUFFICES ASSUME \E j \in W : j <= k + 1 PROVE Low(k + 1)
    OBVIOUS
  <2>2. CASE k + 1 \notin W
    <3>1. \A j \in W : j <= k + 1 <=> j <= k
      BY <2>2
    <3> QED
      BY <1>2, <2>1, <3>1
  <2>3. CASE k + 1 \in W /\ ~\E j \in W : j <= k
    <3>1. \A j \in W : j <= k + 1 => j = k + 1
      BY <2>3
    <3>2. f[k + 1] <= f[k + 1]
      BY <2>3
    <3> QED
      BY <2>3, <3>1, <3>2
  <2>4. CASE k + 1 \in W /\ \E j \in W : j <= k
    <3>1. PICK m \in W : m <= k /\ \A j \in W : j <= k => f[m] <= f[j]
      BY <1>2, <2>4
    <3>2. \A j \in W : j <= k + 1 => j <= k \/ j = k + 1
      OBVIOUS
    <3>3. CASE f[m] <= f[k + 1]
      <4>1. m <= k + 1 /\ \A j \in W : j <= k + 1 => f[m] <= f[j]
        BY <3>1, <3>2, <3>3
      <4> QED
        BY <4>1
    <3>4. CASE f[k + 1] < f[m]
      <4>1. \A j \in W : j <= k + 1 => f[k + 1] <= f[j]
        <5> SUFFICES ASSUME NEW j \in W, j <= k + 1 PROVE f[k + 1] <= f[j]
          OBVIOUS
        <5>1. f[j] \in Int /\ f[k + 1] \in Int /\ f[m] \in Int
          BY <2>4
        <5>2. j <= k => f[m] <= f[j]
          BY <3>1
        <5> QED
          BY <3>2, <3>4, <5>1, <5>2
      <4> QED
        BY <2>4, <4>1
    <3>5. f[m] \in Int /\ f[k + 1] \in Int
      BY <2>4
    <3> QED
      BY <3>3, <3>4, <3>5
  <2> QED
    BY <2>2, <2>3, <2>4
<1> HIDE DEF T
<1>3. 0..n \subseteq T
  BY <1>1, <1>2, Climb
<1>4. n \in T /\ \A j \in W : j <= n
  BY <1>3
<1> QED
  BY <1>4 DEF T

\* What the comparison knows of a row.
Fields == {"mode", "label", "total", "dur", "indicative", "quoted"}

SameRow(r, o) == \A field \in Fields : r[field] = o[field]

\* Marking a row changes nothing else of it.
LEMMA MarkedIs ==
    ASSUME NEW o, NEW mark, Fields \subseteq DOMAIN o
    PROVE  /\ SameRow(Marked(o, mark), o) /\ Fields \cup {"dominated"} \subseteq DOMAIN Marked(o, mark)
           /\ Marked(o, mark).dominated = mark
           /\ Marked(o, mark).total = o.total /\ Marked(o, mark).dur = o.dur
           /\ Marked(o, mark).indicative = o.indicative
  BY DEF Marked, Fields, SameRow

\* Whatever is beaten is beaten by a row that is not: of those that beat it, one has the
\* smallest sum of price and minutes.
LEMMA MarksAreFacts ==
    ASSUME None \notin Int, NEW n \in Nat, NEW s, DOMAIN s = 1..n,
           \A i \in 1..n : /\ Fields \subseteq DOMAIN s[i] /\ s[i].indicative \in BOOLEAN
                           /\ s[i].total \in Int \cup {None} /\ s[i].dur \in Int \cup {None}
    PROVE  LET t == MarkDominated(s)
           IN  /\ DOMAIN t = 1..n
               /\ \A i \in 1..n :
                    /\ SameRow(t[i], s[i]) /\ Fields \cup {"dominated"} \subseteq DOMAIN t[i]
                    /\ t[i].dominated \in BOOLEAN
                    /\ t[i].dominated <=>
                         /\ Comparable(t[i])
                         /\ \E j \in 1..n : /\ ~t[j].dominated /\ ~t[j].indicative
                                            /\ Comparable(t[j]) /\ Beats(t[j], t[i])
<1> DEFINE t == MarkDominated(s)
           Able(i, j) == Comparable(s[j]) /\ ~s[j].indicative /\ Beats(s[j], s[i])
           Mark(i) == Comparable(s[i]) /\ \E j \in (1..n) \ {i} : Able(i, j)
<1>1. t = [i \in 1..n |-> Marked(s[i], Mark(i))]
  BY DEF MarkDominated
<1>2. \A i \in 1..n : Mark(i) \in BOOLEAN
  OBVIOUS
<1> HIDE DEF t, Mark
<1>3. ASSUME NEW i \in 1..n
      PROVE  /\ SameRow(t[i], s[i]) /\ Fields \cup {"dominated"} \subseteq DOMAIN t[i]
             /\ t[i].dominated = Mark(i) /\ t[i].total = s[i].total /\ t[i].dur = s[i].dur
             /\ t[i].indicative = s[i].indicative
  <2>1. t[i] = Marked(s[i], Mark(i))
    BY <1>1
  <2> DEFINE o == s[i]
             mark == Mark(i)
  <2>2. Fields \subseteq DOMAIN o
    OBVIOUS
  <2> HIDE DEF o, mark
  <2>3. /\ SameRow(Marked(o, mark), o) /\ Fields \cup {"dominated"} \subseteq DOMAIN Marked(o, mark)
        /\ Marked(o, mark).dominated = mark
        /\ Marked(o, mark).total = o.total /\ Marked(o, mark).dur = o.dur
        /\ Marked(o, mark).indicative = o.indicative
    BY <2>2, MarkedIs
  <2> QED
    BY <2>1, <2>3 DEF o, mark
<1>4. \A i \in 1..n : Comparable(t[i]) <=> Comparable(s[i])
  BY <1>3 DEF Comparable
<1>5. \A i, j \in 1..n : Beats(t[j], t[i]) <=> Beats(s[j], s[i])
  BY <1>3 DEF Beats
<1>6. \A i \in 1..n : Comparable(s[i]) => s[i].total \in Int /\ s[i].dur \in Int
  BY DEF Comparable
<1>7. ASSUME NEW i \in 1..n, NEW j \in 1..n, Comparable(s[i]), Able(i, j), ~Mark(j) PROVE Mark(i)
  <2>1. j # i
    BY <1>6, <1>7 DEF Beats
  <2> QED
    BY <1>7, <2>1 DEF Mark
<1>8. ASSUME NEW i \in 1..n, Mark(i)
      PROVE  Comparable(s[i]) /\ \E j \in 1..n : Able(i, j) /\ ~Mark(j)
  <2> DEFINE W == {j \in 1..n : Able(i, j)}
             f == [j \in 1..n |-> s[j].total + s[j].dur]
  <2>1. Comparable(s[i]) /\ W # {}
    BY <1>8 DEF Mark
  <2>2. \A j \in W : f[j] \in Int
    BY <1>6
  <2>3. PICK m \in W : \A k \in W : f[m] <= f[k]
    <3> HIDE DEF W, f
    <3>1. W \in SUBSET (1..n)
      BY DEF W
    <3> QED
      BY <2>1, <2>2, <3>1, Lowest
  <2>4. ASSUME Mark(m) PROVE FALSE
    <3>1. PICK j \in 1..n : Able(m, j)
      BY <2>4 DEF Mark
    <3>2. m \in 1..n /\ Able(i, m)
      OBVIOUS
    <3>3. /\ s[j].total \in Int /\ s[j].dur \in Int /\ s[m].total \in Int /\ s[m].dur \in Int
          /\ s[i].total \in Int /\ s[i].dur \in Int
      BY <1>6, <2>1, <3>1, <3>2
    <3> DEFINE a == s[j]
               b == s[m]
               c == s[i]
    <3>4. /\ a.total \in Int /\ a.dur \in Int /\ b.total \in Int /\ b.dur \in Int
          /\ c.total \in Int /\ c.dur \in Int /\ Beats(a, b) /\ Beats(b, c)
      BY <3>1, <3>2, <3>3
    <3> HIDE DEF a, b, c
    <3>5. a.total + a.dur < b.total + b.dur /\ Beats(a, c)
      BY <3>4 DEF Beats
    <3>6. s[j].total + s[j].dur < s[m].total + s[m].dur /\ Beats(s[j], s[i])
      BY <3>5 DEF a, b, c
    <3>7. j \in W /\ f[j] = s[j].total + s[j].dur /\ f[m] = s[m].total + s[m].dur
      BY <3>1, <3>2, <3>6
    <3> QED
      BY <2>3, <3>3, <3>6, <3>7
  <2> QED
    BY <2>1, <2>4
<1>9. \A i \in 1..n : t[i].dominated <=>
           /\ Comparable(t[i])
           /\ \E j \in 1..n : /\ ~t[j].dominated /\ ~t[j].indicative
                              /\ Comparable(t[j]) /\ Beats(t[j], t[i])
  <2> TAKE i \in 1..n
  <2>1. /\ t[i].dominated = Mark(i)
        /\ \A j \in 1..n : t[j].dominated = Mark(j) /\ t[j].indicative = s[j].indicative
    BY <1>3
  <2> QED
    BY <1>2, <1>4, <1>5, <1>7, <1>8, <2>1
<1>10. DOMAIN t = 1..n
  BY <1>1
<1>11. \A i \in 1..n : t[i].dominated \in BOOLEAN
  BY <1>2, <1>3
<1> QED
  BY <1>3, <1>9, <1>10, <1>11 DEF t

\* What the answer is to the rows: the same, the cheapest of all first.
LEMMA AnswerIs ==
    ASSUME None \notin Int, NEW n \in Nat, NEW s, DOMAIN s = 1..n,
           \A i \in 1..n : /\ Fields \subseteq DOMAIN s[i] /\ s[i].indicative \in BOOLEAN
                           /\ s[i].total \in Int \cup {None} /\ s[i].dur \in Int \cup {None}
    PROVE  LET told == SortOptions(MarkDominated(s))
           IN  /\ DOMAIN told = 1..n /\ told \in Seq(ToSet(told))
               /\ \A i \in 1..n : /\ Fields \subseteq DOMAIN told[i]
                                 /\ \E j \in 1..n : SameRow(told[i], s[j])
               /\ \A j \in 1..n : \E i \in 1..n : SameRow(told[i], s[j])
               /\ \A i \in 1..n : told[i].dominated <=>
                     /\ Comparable(told[i])
                     /\ \E j \in 1..n : /\ ~told[j].dominated /\ ~told[j].indicative
                                        /\ Comparable(told[j]) /\ Beats(told[j], told[i])
               /\ \A i \in 1..n : told[i].total # None =>
                     told[1].total # None /\ told[1].total <= told[i].total
<1> DEFINE t == MarkDominated(s)
           told == SortOptions(t)
           keys == [i \in 1..n |-> <<Flag(t[i].dominated), Flag(t[i].total = None),
                                    OrZero(t[i].total), OrZero(t[i].dur)>>]
           at == Source(n, keys)
<1>1. /\ DOMAIN t = 1..n
      /\ \A i \in 1..n :
           /\ SameRow(t[i], s[i]) /\ Fields \cup {"dominated"} \subseteq DOMAIN t[i]
           /\ t[i].dominated \in BOOLEAN
           /\ t[i].dominated <=>
                /\ Comparable(t[i])
                /\ \E j \in 1..n : /\ ~t[j].dominated /\ ~t[j].indicative
                                   /\ Comparable(t[j]) /\ Beats(t[j], t[i])
  BY MarksAreFacts
<1> HIDE DEF t
<1>2. told = SortedBy(t, keys)
  BY <1>1 DEF SortOptions, Sorted
<1>3. \A i \in 1..n : t[i].total \in Int \cup {None} /\ t[i].dur \in Int \cup {None}
  BY <1>1 DEF SameRow, Fields
<1>4. keys \in [1..n -> [1..4 -> Int]]
  <2> SUFFICES ASSUME NEW i \in 1..n
               PROVE <<Flag(t[i].dominated), Flag(t[i].total = None),
                       OrZero(t[i].total), OrZero(t[i].dur)>> \in [1..4 -> Int]
    OBVIOUS
  <2>1. /\ Flag(t[i].dominated) \in Int /\ Flag(t[i].total = None) \in Int
        /\ OrZero(t[i].total) \in Int /\ OrZero(t[i].dur) \in Int
    BY <1>3 DEF Flag, OrZero
  <2> QED
    BY <2>1
<1>5. \A i \in 1..n : keys[i] = <<Flag(t[i].dominated), Flag(t[i].total = None),
                                 OrZero(t[i].total), OrZero(t[i].dur)>>
  OBVIOUS
<1> HIDE DEF told, keys
<1>6. /\ at \in [1..n -> 1..n] /\ \A i \in 1..n : \E m \in 1..n : at[m] = i
      /\ \A l, m \in 1..n : l < m => ~TupleLess(keys[at[m]], keys[at[l]])
  <2> DEFINE k == 4
  <2>1. k \in Nat /\ keys \in [1..n -> [1..k -> Int]]
    BY <1>4
  <2> HIDE DEF k
  <2>2. /\ Source(n, keys) \in [1..n -> 1..n]
        /\ \A i \in 1..n : \E m \in 1..n : Source(n, keys)[m] = i
        /\ \A l, m \in 1..n :
             l < m => ~TupleLess(keys[Source(n, keys)[m]], keys[Source(n, keys)[l]])
    BY <2>1, SourceIs
  <2> QED
    BY <2>2
<1>7. /\ DOMAIN told = 1..n /\ \A m \in 1..n : told[m] = t[at[m]]
      /\ told \in Seq(ToSet(told))
  <2>1. /\ DOMAIN SortedBy(t, keys) = 1..n
        /\ \A m \in 1..n : SortedBy(t, keys)[m] = t[Source(n, keys)[m]]
        /\ ToSet(SortedBy(t, keys)) = ToSet(t)
        /\ SortedBy(t, keys) \in Seq(ToSet(t))
    BY <1>1, <1>4, SortedSet
  <2> QED
    BY <1>2, <2>1
<1> HIDE DEF at
<1>8. \A i \in 1..n : /\ Fields \subseteq DOMAIN told[i]
                     /\ \E j \in 1..n : SameRow(told[i], s[j])
  <2> TAKE i \in 1..n
  <2>1. at[i] \in 1..n /\ told[i] = t[at[i]]
    BY <1>6, <1>7
  <2>2. Fields \cup {"dominated"} \subseteq DOMAIN t[at[i]] /\ SameRow(t[at[i]], s[at[i]])
    BY <1>1, <2>1
  <2>3. Fields \subseteq DOMAIN told[i] /\ SameRow(told[i], s[at[i]])
    BY <2>1, <2>2
  <2> QED
    BY <2>1, <2>3
<1>9. \A j \in 1..n : \E i \in 1..n : SameRow(told[i], s[j])
  <2> TAKE j \in 1..n
  <2>1. PICK i \in 1..n : at[i] = j
    BY <1>6
  <2> QED
    BY <1>1, <1>7, <2>1
<1>10. \A i \in 1..n : told[i].dominated <=>
          /\ Comparable(told[i])
          /\ \E j \in 1..n : /\ ~told[j].dominated /\ ~told[j].indicative
                             /\ Comparable(told[j]) /\ Beats(told[j], told[i])
  <2> DEFINE Able(a, r) == ~a.dominated /\ ~a.indicative /\ Comparable(a) /\ Beats(a, r)
  <2> TAKE i \in 1..n
  <2>1. at[i] \in 1..n /\ told[i] = t[at[i]]
    BY <1>6, <1>7
  <2>2. t[at[i]].dominated <=> Comparable(t[at[i]]) /\ \E j \in 1..n : Able(t[j], t[at[i]])
    BY <1>1, <2>1
  <2> HIDE DEF Able
  <2>3. ASSUME NEW j \in 1..n, Able(t[j], t[at[i]])
        PROVE  \E m \in 1..n : Able(told[m], t[at[i]])
    <3>1. PICK m \in 1..n : at[m] = j
      BY <1>6
    <3> QED
      BY <1>7, <2>3, <3>1
  <2>4. ASSUME NEW m \in 1..n, Able(told[m], t[at[i]])
        PROVE  \E j \in 1..n : Able(t[j], t[at[i]])
    <3>1. at[m] \in 1..n /\ told[m] = t[at[m]]
      BY <1>6, <1>7
    <3> QED
      BY <2>4, <3>1
  <2> QED
    BY <2>1, <2>2, <2>3, <2>4 DEF Able
<1>11. ASSUME NEW i \in 1..n, told[i].total # None
       PROVE  told[1].total # None /\ told[1].total <= told[i].total
  <2> HIDE DEF keys
  <2>0. \A m \in 1..n : at[m] \in 1..n /\ told[m].total \in Int \cup {None}
    <3> TAKE m \in 1..n
    <3>1. at[m] \in 1..n /\ told[m] = t[at[m]]
      BY <1>6, <1>7
    <3> QED
      BY <1>3, <3>1
  <2>1. \E j \in 1..n : /\ ~told[j].dominated /\ told[j].total # None
                       /\ told[j].total <= told[i].total
    <3>1. CASE ~told[i].dominated
      <4>1. told[i].total \in Int
        BY <1>11, <2>0
      <4>2. told[i].total <= told[i].total
        BY <4>1
      <4> QED
        BY <1>11, <3>1, <4>2
    <3>2. CASE told[i].dominated
      BY <1>10, <3>2 DEF Comparable, Beats
    <3> QED
      BY <3>1, <3>2
  <2>2. PICK j \in 1..n : /\ ~told[j].dominated /\ told[j].total # None
                          /\ told[j].total <= told[i].total
    BY <2>1
  <2> DEFINE a == t[at[1]]
             b == t[at[j]]
  <2>3. 1 \in 1..n /\ at[1] \in 1..n /\ at[j] \in 1..n /\ told[1] = a /\ told[j] = b
    <3>1. 1 \in 1..n
      OBVIOUS
    <3> QED
      BY <1>7, <2>0, <3>1
  <2>4. /\ a.dominated \in BOOLEAN /\ a.total \in Int \cup {None} /\ a.dur \in Int \cup {None}
        /\ b.dominated \in BOOLEAN /\ b.total \in Int \cup {None} /\ b.dur \in Int \cup {None}
    BY <1>1, <1>3, <2>3
  <2> DEFINE x == <<Flag(a.dominated), Flag(a.total = None), OrZero(a.total), OrZero(a.dur)>>
             y == <<Flag(b.dominated), Flag(b.total = None), OrZero(b.total), OrZero(b.dur)>>
  <2>5. keys[at[1]] = x /\ keys[at[j]] = y
    BY <1>5, <2>3
  <2>6. a = b \/ ~TupleLess(y, x)
    <3>1. j = 1 \/ 1 < j
      OBVIOUS
    <3>2. 1 < j => ~TupleLess(keys[at[j]], keys[at[1]])
      BY <1>6, <2>3
    <3> HIDE DEF x, y
    <3> QED
      BY <2>5, <3>1, <3>2
  <2> HIDE DEF a, b
  <2>7. ~b.dominated /\ b.total # None
    BY <2>2, <2>3
  <2>8. y[1] = 0 /\ y[2] = 0 /\ y[3] = b.total
    BY <2>7 DEF Flag, OrZero
  <2>9. /\ x[1] = Flag(a.dominated) /\ x[2] = Flag(a.total = None) /\ x[3] = OrZero(a.total)
        /\ x[1] \in Int /\ x[2] \in Int /\ x[3] \in Int /\ DOMAIN y = 1..4
    BY <2>4 DEF Flag, OrZero
  <2> HIDE DEF x, y
  <2>10. ASSUME a # b PROVE ~a.dominated /\ a.total # None /\ a.total <= b.total
    <3>1. \A m \in 1..4 : ~(y[m] < x[m] /\ \A l \in 1..(m - 1) : y[l] = x[l])
      BY <2>6, <2>9, <2>10 DEF TupleLess
    <3>2. ~(y[1] < x[1])
      BY <3>1
    <3>3. ~a.dominated /\ x[1] = 0
      BY <2>4, <2>8, <2>9, <3>2 DEF Flag
    <3>4. ~(y[2] < x[2])
      <4>1. \A l \in 1..(2 - 1) : y[l] = x[l]
        BY <2>8, <3>3
      <4> QED
        BY <3>1, <4>1
    <3>5. a.total # None /\ x[2] = 0
      BY <2>4, <2>8, <2>9, <3>4 DEF Flag
    <3>6. ~(y[3] < x[3])
      <4>1. \A l \in 1..(3 - 1) : y[l] = x[l]
        BY <2>8, <3>3, <3>5
      <4> QED
        BY <3>1, <4>1
    <3>7. x[3] = a.total /\ a.total \in Int /\ b.total \in Int
      BY <2>4, <2>7, <2>9, <3>5 DEF OrZero
    <3> QED
      BY <2>8, <3>3, <3>5, <3>6, <3>7
  <2>11. a.total # None /\ a.total <= b.total
    BY <2>4, <2>7, <2>10
  <2>12. told[i].total \in Int /\ b.total \in Int /\ a.total \in Int
    BY <1>11, <2>0, <2>4, <2>7, <2>11
  <2> QED
    BY <2>2, <2>3, <2>11, <2>12
<1> QED
  BY <1>7, <1>8, <1>9, <1>10, <1>11 DEF told, t

-----------------------------------------------------------------------------
(* The flights of a stream *)

\* A sequence over a set is one over every larger set.
LEMMA SeqWider ==
    ASSUME NEW A, NEW B, A \subseteq B, NEW s \in Seq(A)
    PROVE  s \in Seq(B)
  OBVIOUS

\* What the proofs below use of a sequence.
LEMMA SeqIs ==
    ASSUME NEW X, NEW s \in Seq(X)
    PROVE  /\ Len(s) \in Nat /\ DOMAIN s = 1..Len(s) /\ s \in [1..Len(s) -> X]
           /\ ToSet(s) \subseteq X /\ \A i \in DOMAIN s : s[i] \in ToSet(s)
  BY LenProperties DEF ToSet

\* A sequence is one over the set of its elements.
LEMMA InSeqOwn ==
    ASSUME NEW X, NEW s \in Seq(X)
    PROVE  s \in Seq(ToSet(s))
<1>1. Len(s) \in Nat /\ DOMAIN s = 1..Len(s) /\ \A i \in 1..Len(s) : s[i] \in ToSet(s)
  BY LenProperties DEF ToSet
<1> DEFINE T == ToSet(s)
<1> HIDE DEF T
<1>2. \A i \in 1..Len(s) : s[i] \in T
  BY <1>1 DEF T
<1>3. s \in Seq(T)
  BY <1>1, <1>2
<1> QED
  BY <1>3 DEF T

\* The front of a sequence.
LEMMA FrontIs ==
    ASSUME NEW X, NEW s \in Seq(X), NEW k \in Nat \ {0}
    PROVE  LET t == SubSeq(s, 1, IF Len(s) < k THEN Len(s) ELSE k)
           IN  /\ t \in Seq(X) /\ ToSet(t) \subseteq ToSet(s) /\ (s # <<>> => t # <<>>)
<1> DEFINE m == IF Len(s) < k THEN Len(s) ELSE k
           t == SubSeq(s, 1, m)
<1>1. Len(s) \in Nat /\ m \in Nat /\ m <= Len(s) /\ DOMAIN s = 1..Len(s)
  BY LenProperties
<1>2. s # <<>> => m # 0
  BY <1>1, EmptySeq
<1> HIDE DEF m
<1>3. t \in Seq(X) /\ Len(t) = m /\ \A i \in 1..m : t[i] = s[i]
  BY <1>1
<1>4. DOMAIN t = 1..m
  BY <1>3, LenProperties
<1>5. ToSet(t) \subseteq ToSet(s)
  <2> SUFFICES ASSUME NEW e \in ToSet(t) PROVE e \in ToSet(s)
    OBVIOUS
  <2>1. PICK i \in 1..m : e = t[i]
    BY <1>4 DEF ToSet
  <2>2. i \in DOMAIN s /\ e = s[i]
    BY <1>1, <1>3, <2>1
  <2> QED
    BY <2>2 DEF ToSet
<1>6. t # <<>> <=> m # 0
  <2> HIDE DEF t
  <2> QED
    BY <1>3, EmptySeq
<1> QED
  BY <1>2, <1>3, <1>5, <1>6 DEF m

Cards(doc) == FlattenSeq(doc.groups)

\* What a stream answers with is a sequence of cards, and its figures are numbers.
LEMMA CardsAre ==
    ASSUME NEW stream \in Streams, NEW doc \in ToSet(DecodeStream(stream))
    PROVE  /\ Cards(doc) \in Seq(ToSet(Cards(doc)))
           /\ \A card \in ToSet(Cards(doc)) : /\ card.fare \in Figure /\ card.dur \in Figure
                                              /\ card.keys \in Seq(ToSet(card.keys))
           /\ \A k \in DOMAIN doc.journeys : doc.journeys[k].dur \in Figure
<1>1. stream \in Seq(ToSet(stream))
  BY AnswersAssumption
<1>2. doc \in ToSet(stream) \ {None}
  <2> DEFINE S == {i \in DOMAIN stream : stream[i] # None}
  <2>1. DOMAIN stream = 1..Len(stream) /\ Len(stream) \in Nat
    BY <1>1, LenProperties
  <2>2. DecodeStream(stream) = Picked(stream, S)
    BY DEF DecodeStream, Keep
  <2>3. S \in SUBSET (1..Len(stream))
    BY <2>1
  <2> HIDE DEF S
  <2>4. ToSet(Picked(stream, S)) = At(stream, S)
    BY <2>1, <2>3, PickedSet
  <2> QED
    BY <2>2, <2>4 DEF S, At, ToSet
<1> DEFINE groups == doc.groups
           X == UNION {ToSet(group) : group \in ToSet(groups)}
<1>3. /\ groups \in Seq(ToSet(groups))
      /\ \A group \in ToSet(groups) :
           /\ group \in Seq(ToSet(group))
           /\ \A card \in ToSet(group) : /\ card.fare \in Figure /\ card.dur \in Figure
                                          /\ card.keys \in Seq(ToSet(card.keys))
      /\ \A k \in DOMAIN doc.journeys : doc.journeys[k].dur \in Figure
  BY <1>2, AnswersAssumption
<1>4. \A group \in ToSet(groups) : group \in Seq(X)
  <2> TAKE group \in ToSet(groups)
  <2>1. ToSet(group) \subseteq X /\ group \in Seq(ToSet(group))
    BY <1>3
  <2> HIDE DEF X
  <2> QED
    BY <2>1, SeqWider
<1> DEFINE n == Len(groups)
<1> HIDE DEF groups
<1>5. n \in Nat /\ DOMAIN groups = 1..n /\ groups \in [1..n -> ToSet(groups)]
  BY <1>3, LenProperties
<1>6. groups \in [1..n -> Seq(X)]
  <2> HIDE DEF X, n
  <2> QED
    BY <1>4, <1>5
<1>7. /\ FlattenSeq(groups) \in Seq(X)
      /\ ToSet(FlattenSeq(groups)) = UNION {ToSet(groups[i]) : i \in 1..n}
  <2> HIDE DEF X, n
  <2> QED
    BY <1>5, <1>6, FlattenIs
<1>8. \A i \in 1..n : groups[i] \in ToSet(groups)
  BY <1>5
<1> HIDE DEF n
<1>9. /\ FlattenSeq(groups) \in Seq(ToSet(FlattenSeq(groups)))
      /\ \A card \in ToSet(FlattenSeq(groups)) :
             /\ card.fare \in Figure /\ card.dur \in Figure
             /\ card.keys \in Seq(ToSet(card.keys))
  <2>1. FlattenSeq(groups) \in Seq(ToSet(FlattenSeq(groups)))
    BY <1>7, InSeqOwn
  <2>2. ASSUME NEW card \in ToSet(FlattenSeq(groups))
        PROVE  \E group \in ToSet(groups) : card \in ToSet(group)
    BY <1>7, <1>8
  <2> QED
    BY <1>3, <2>1, <2>2
<1> QED
  BY <1>3, <1>9 DEF Cards, groups

\* An itinerary read from a card with a fare: its figures, and where it begins and ends
\* unless it is flagged.
LEMMA ItineraryIs ==
    ASSUME NEW stream \in Streams, NEW doc \in ToSet(DecodeStream(stream)),
           NEW card \in ToSet(Cards(doc)), card.fare # None, NEW origin, NEW dest
    PROVE  LET it == Itinerary(card, doc.journeys, origin, dest)
               legs == Legs(card, doc.journeys)
           IN  /\ it.fare = card.fare /\ it.fare \in Int /\ it.no = card.no /\ it.dur \in Figure
               /\ ~it.alt /\ None \notin {origin, dest} /\ legs # <<>> =>
                    legs[1].from \in {None, origin} /\ legs[Len(legs)].to \in {None, dest}
<1> DEFINE it == Itinerary(card, doc.journeys, origin, dest)
           legs == Legs(card, doc.journeys)
           S == {i \in DOMAIN card.keys : card.keys[i] \in DOMAIN doc.journeys}
           known == Picked(card.keys, S)
<1>1. /\ card.fare \in Int /\ card.dur \in Figure /\ card.keys \in Seq(ToSet(card.keys))
      /\ \A k \in DOMAIN doc.journeys : doc.journeys[k].dur \in Figure
  BY CardsAre DEF Figure
<1>2. legs = [i \in DOMAIN known |-> doc.journeys[known[i]]]
  BY DEF Legs, Keep
<1>3. known # <<>> => known[1] \in DOMAIN doc.journeys
  <2> DEFINE keys == card.keys
  <2>1. DOMAIN keys = 1..Len(keys) /\ Len(keys) \in Nat
    BY <1>1, LenProperties
  <2>2. S \in SUBSET (1..Len(keys)) /\ \A k \in At(keys, S) : k \in DOMAIN doc.journeys
    BY <2>1 DEF At
  <2> HIDE DEF S, keys
  <2>3. Picked(keys, S) # <<>> => Picked(keys, S)[1] \in At(keys, S)
    BY <2>1, <2>2, PickedSet
  <2> QED
    BY <2>2, <2>3 DEF keys
<1>4. known \in Seq(ToSet(card.keys))
  <2> DEFINE keys == card.keys
  <2>1. DOMAIN keys = 1..Len(keys) /\ Len(keys) \in Nat
    BY <1>1, LenProperties
  <2>2. S \in SUBSET (1..Len(keys)) /\ At(keys, S) \subseteq ToSet(keys)
    BY <2>1 DEF At, ToSet
  <2> HIDE DEF S, keys
  <2>3. Picked(keys, S) \in Seq(At(keys, S))
    BY <2>1, <2>2, PickedSet
  <2>4. Picked(keys, S) \in Seq(ToSet(keys))
    BY <2>2, <2>3, SeqWider
  <2> QED
    BY <2>4 DEF keys
<1> HIDE DEF known
<1>5. legs # <<>> => legs[1] = doc.journeys[known[1]] /\ known # <<>>
  BY <1>2, <1>4
<1> HIDE DEF legs
<1>6. legs # <<>> => legs[1].dur \in Figure
  BY <1>1, <1>3, <1>5
<1>7. /\ it.fare = card.fare /\ it.no = card.no
      /\ it.dur = (LET first == IF legs = <<>> THEN NoJourney ELSE legs[1]
                   IN  IF first.dur # None THEN first.dur ELSE card.dur)
      /\ it.alt = (LET first == IF legs = <<>> THEN NoJourney ELSE legs[1]
                       last == IF legs = <<>> THEN NoJourney ELSE legs[Len(legs)]
                   IN  Elsewhere(last.to, dest) \/ Elsewhere(first.from, origin))
  BY DEF Itinerary, legs
<1> HIDE DEF it
<1>8. it.dur \in Figure
  BY <1>1, <1>6, <1>7 DEF NoJourney, Figure
<1>9. ASSUME ~it.alt, None \notin {origin, dest}, legs # <<>>
      PROVE  legs[1].from \in {None, origin} /\ legs[Len(legs)].to \in {None, dest}
  BY <1>7, <1>9 DEF Elsewhere
<1> QED
  BY <1>1, <1>7, <1>8, <1>9 DEF it, legs

\* Every itinerary read from a stream was on one of its cards.
LEMMA StreamIs ==
    ASSUME NEW stream \in Streams, NEW origin, NEW dest
    PROVE  LET its == ParseStream(stream, origin, dest)
           IN  /\ its \in Seq(ToSet(its))
               /\ \A it \in ToSet(its) :
                    \E doc \in ToSet(DecodeStream(stream)) : \E card \in ToSet(Cards(doc)) :
                        card.fare # None /\ it = Itinerary(card, doc.journeys, origin, dest)
<1> DEFINE docs == DecodeStream(stream)
           Good(it) == \E doc \in ToSet(docs) : \E card \in ToSet(Cards(doc)) :
                          card.fare # None /\ it = Itinerary(card, doc.journeys, origin, dest)
           X == {it \in {Itinerary(d[1], d[2], origin, dest) : d \in
                     UNION {ToSet(Cards(doc)) \X {doc.journeys} : doc \in ToSet(docs)}} : Good(it)}
           n == Len(docs)
           Fared(doc) == Picked(Cards(doc), {i \in DOMAIN Cards(doc) : Cards(doc)[i].fare # None})
           Read(doc) == [i \in DOMAIN Fared(doc) |->
                           Itinerary(Fared(doc)[i], doc.journeys, origin, dest)]
           reads == [i \in DOMAIN docs |-> Read(docs[i])]
           found == FlattenSeq(reads)
           keys == [i \in DOMAIN found |-> <<found[i].fare>>]
           sorted == SortedBy(found, keys)
           Key(it) == <<it.no, it.depart, it.fare>>
           S == {i \in DOMAIN sorted : \A j \in 1..(i - 1) : Key(sorted[j]) # Key(sorted[i])}
           out == Picked(sorted, S)
<1>1. docs \in Seq(ToSet(docs)) /\ n \in Nat /\ DOMAIN docs = 1..n
  <2>1. stream \in Seq(ToSet(stream)) /\ DOMAIN stream = 1..Len(stream) /\ Len(stream) \in Nat
    BY AnswersAssumption, LenProperties
  <2> DEFINE T == {i \in DOMAIN stream : stream[i] # None}
  <2>2. docs = Picked(stream, T)
    BY DEF DecodeStream, Keep
  <2>3. T \in SUBSET (1..Len(stream))
    BY <2>1
  <2> HIDE DEF T, docs
  <2>4. Picked(stream, T) \in Seq(At(stream, T))
    BY <2>1, <2>3, PickedSet
  <2>5. docs \in Seq(ToSet(docs))
    BY <2>2, <2>4, InSeqOwn
  <2> QED
    BY <2>5, LenProperties
<1>2. ASSUME NEW doc \in ToSet(docs)
      PROVE  Read(doc) \in Seq(X)
  <2> DEFINE cards == Cards(doc)
             P == {i \in DOMAIN cards : cards[i].fare # None}
             m == Cardinality(P)
  <2>1. cards \in Seq(ToSet(cards)) /\ DOMAIN cards = 1..Len(cards) /\ Len(cards) \in Nat
    BY CardsAre, LenProperties
  <2>2. P \in SUBSET (1..Len(cards)) /\ \A c \in At(cards, P) : c \in ToSet(cards) /\ c.fare # None
    BY <2>1 DEF At, ToSet
  <2> DEFINE priced == Picked(cards, P)
  <2>3. priced \in Seq(At(cards, P)) /\ DOMAIN priced = 1..m /\ m \in Nat
    <3> HIDE DEF P, cards
    <3> QED
      BY <2>1, <2>2, PickedSet
  <2>4. Read(doc) = [i \in 1..m |-> Itinerary(priced[i], doc.journeys, origin, dest)]
    BY <2>3
  <2>5. \A i \in 1..m : priced[i] \in At(cards, P)
    BY <2>3
  <2> HIDE DEF priced, P, m, Read
  <2>6. \A i \in 1..m : priced[i] \in ToSet(cards) /\ priced[i].fare # None
    BY <2>2, <2>5
  <2>7. ASSUME NEW i \in 1..m PROVE Itinerary(priced[i], doc.journeys, origin, dest) \in X
    <3> DEFINE c == priced[i]
               it == Itinerary(c, doc.journeys, origin, dest)
    <3>1. c \in ToSet(Cards(doc)) /\ c.fare # None
      BY <2>6
    <3>2. <<c, doc.journeys>> \in UNION {ToSet(Cards(d)) \X {d.journeys} : d \in ToSet(docs)}
      BY <3>1
    <3> HIDE DEF c
    <3>3. Good(it)
      BY <3>1
    <3>4. it = Itinerary(<<c, doc.journeys>>[1], <<c, doc.journeys>>[2], origin, dest)
      OBVIOUS
    <3> HIDE DEF Good, it
    <3>5. it \in X
      BY <3>2, <3>3, <3>4
    <3> QED
      BY <3>5 DEF it, c
  <2> HIDE DEF X
  <2> QED
    BY <2>3, <2>4, <2>7
<1>3. \A it \in X : Good(it)
  <2> HIDE DEF Good
  <2> QED
    OBVIOUS
<1>4. ParseStream(stream, origin, dest) =
        SubSeq(out, 1, IF Len(out) < MaxResults THEN Len(out) ELSE MaxResults)
  BY DEF ParseStream, ParseDocs, FirstOfEach, Sorted, Keep, Cards
<1> HIDE DEF X, Good, Read, Fared
<1>5. reads \in [1..n -> Seq(X)]
  <2> HIDE DEF docs
  <2>1. \A i \in 1..n : docs[i] \in ToSet(docs)
    BY <1>1 DEF ToSet
  <2> HIDE DEF n
  <2> QED
    BY <1>1, <1>2, <2>1
<1> HIDE DEF reads, docs
<1>6. found \in Seq(X)
  BY <1>1, <1>5, FlattenIs
<1> HIDE DEF found
<1>7. DOMAIN found = 1..Len(found) /\ Len(found) \in Nat /\ ToSet(found) \subseteq X
  BY <1>6, SeqIs
<1>8. keys \in [1..Len(found) -> [1..1 -> Int]]
  <2>1. \A i \in 1..Len(found) : found[i].fare \in Int
    <3> TAKE i \in 1..Len(found)
    <3>1. Good(found[i])
      BY <1>3, <1>6
    <3>2. PICK doc \in ToSet(DecodeStream(stream)) : \E card \in ToSet(Cards(doc)) :
             card.fare # None /\ found[i] = Itinerary(card, doc.journeys, origin, dest)
      BY <3>1 DEF Good, docs
    <3>3. PICK card \in ToSet(Cards(doc)) :
             card.fare # None /\ found[i] = Itinerary(card, doc.journeys, origin, dest)
      BY <3>2
    <3>4. Itinerary(card, doc.journeys, origin, dest).fare = card.fare /\ card.fare \in Int
      BY <3>3, CardsAre DEF Figure, Itinerary
    <3> QED
      BY <3>3, <3>4
  <2>2. \A i \in 1..Len(found) : <<found[i].fare>> \in [1..1 -> Int]
    BY <2>1
  <2> QED
    BY <1>7, <2>2
<1>9. sorted \in Seq(ToSet(found))
  <2> DEFINE k == 1
             m == Len(found)
  <2>1. k \in Nat /\ keys \in [1..m -> [1..k -> Int]] /\ DOMAIN found = 1..m /\ m \in Nat
    BY <1>7, <1>8
  <2> HIDE DEF k, m, keys
  <2>2. SortedBy(found, keys) \in Seq(ToSet(found))
    BY <2>1, SortedSet
  <2> QED
    BY <2>2
<1>10. sorted \in Seq(X)
  BY <1>7, <1>9, SeqWider
<1> HIDE DEF sorted
<1>11. out \in Seq(X)
  <2>1. DOMAIN sorted = 1..Len(sorted) /\ Len(sorted) \in Nat /\ ToSet(sorted) \subseteq X
    BY <1>10, SeqIs
  <2>2. S \in SUBSET (1..Len(sorted)) /\ At(sorted, S) \subseteq X
    BY <1>10, <2>1 DEF At
  <2> HIDE DEF S
  <2>3. Picked(sorted, S) \in Seq(At(sorted, S))
    BY <2>1, <2>2, PickedSet
  <2> QED
    BY <2>2, <2>3, SeqWider
<1> HIDE DEF out
<1>12. MaxResults \in Nat \ {0}
  BY IntercityAssumption
<1>13. ParseStream(stream, origin, dest) \in Seq(X)
  BY <1>4, <1>11, <1>12, FrontIs
<1> DEFINE its == ParseStream(stream, origin, dest)
<1> HIDE DEF its
<1>14. its \in Seq(ToSet(its)) /\ \A it \in ToSet(its) : Good(it)
  <2>1. its \in Seq(X)
    BY <1>13 DEF its
  <2>2. ToSet(its) \subseteq X
    BY <2>1, SeqIs
  <2> QED
    BY <1>3, <2>1, <2>2, InSeqOwn
<1> QED
  BY <1>14 DEF its, Good, docs

-----------------------------------------------------------------------------
(* References *)

\* A recursion that starts in X and stays in it defines a function.
LEMMA Iterates ==
    ASSUME NEW n \in Nat, NEW X, NEW start \in X, NEW step \in [X -> X]
    PROVE  \E g \in [0..n -> X] : g = [k \in 0..n |-> IF k = 0 THEN start ELSE step[g[k - 1]]]
<1> DEFINE Solves(g, m) ==
             /\ g \in [0..m -> X]
             /\ g = [k \in 0..m |-> IF k = 0 THEN start ELSE step[g[k - 1]]]
           S == {m \in 0..n : \E g : Solves(g, m)}
<1>1. 0 \in S
  <2> DEFINE g == [k \in 0..0 |-> start]
  <2>1. g \in [0..0 -> X] /\ \A k \in 0..0 : k = 0
    OBVIOUS
  <2>2. g = [k \in 0..0 |-> IF k = 0 THEN start ELSE step[g[k - 1]]]
    BY <2>1
  <2>3. Solves(g, 0)
    BY <2>1, <2>2
  <2>4. \E h : Solves(h, 0)
    <3> HIDE DEF Solves, g
    <3> QED
      BY <2>3
  <2> QED
    BY <2>4
<1>2. ASSUME NEW m \in 0..(n - 1), m \in S PROVE m + 1 \in S
  <2>1. PICK g : Solves(g, m)
    BY <1>2
  <2> DEFINE h == [k \in 0..(m + 1) |-> IF k = m + 1 THEN step[g[m]] ELSE g[k]]
  <2>2. g \in [0..m -> X] /\ g[0] = start /\ \A k \in 1..m : g[k] = step[g[k - 1]]
    <3> HIDE DEF h
    <3>1. 0 \in 0..m /\ \A k \in 1..m : k \in 0..m /\ k # 0
      OBVIOUS
    <3>2. g \in [0..m -> X] /\ \A k \in 0..m : g[k] = IF k = 0 THEN start ELSE step[g[k - 1]]
      BY <2>1
    <3> QED
      BY <3>1, <3>2
  <2>3. h \in [0..(m + 1) -> X]
    BY <2>2
  <2>4. ASSUME NEW k \in 0..(m + 1) PROVE h[k] = IF k = 0 THEN start ELSE step[h[k - 1]]
    BY <2>2
  <2>5. h = [k \in 0..(m + 1) |-> h[k]]
    OBVIOUS
  <2> HIDE DEF h
  <2>6. h = [k \in 0..(m + 1) |-> IF k = 0 THEN start ELSE step[h[k - 1]]]
    BY <2>4, <2>5
  <2>7. m + 1 \in 0..n /\ Solves(h, m + 1)
    BY <2>3, <2>6
  <2> QED
    BY <2>7
<1> HIDE DEF S
<1>3. 0..n \subseteq S
  BY <1>1, <1>2, Climb
<1> QED
  BY <1>3 DEF S

\* Where references lead, one after the other.
LEMMA TrailIs ==
    ASSUME NEW node \in Node, NEW table, \A id \in DOMAIN table : table[id] \in Node
    PROVE  LET trail == Trail(node, table)
           IN  /\ trail \in [0..(MaxDepth + 1) -> Node] /\ trail[0] = node
               /\ \A n \in 0..MaxDepth :
                    trail[n + 1] = IF Refers(trail[n], table) THEN table[trail[n].to] ELSE trail[n]
<1> DEFINE m == MaxDepth + 1
           next == [x \in Node |-> IF Refers(x, table) THEN table[x.to] ELSE x]
           trail == Trail(node, table)
           Solves(g) == g = [n \in 0..m |-> IF n = 0 THEN node
                                            ELSE IF Refers(g[n - 1], table) THEN table[g[n - 1].to]
                                                 ELSE g[n - 1]]
<1>1. m \in Nat /\ MaxDepth \in Nat
  BY IntercityAssumption
<1>2. next \in [Node -> Node]
  BY DEF Refers
<1>3. \E g : Solves(g)
  <2> HIDE DEF next, m
  <2>1. PICK g \in [0..m -> Node] : g = [k \in 0..m |-> IF k = 0 THEN node ELSE next[g[k - 1]]]
    BY <1>1, <1>2, Iterates
  <2>2. \A k \in 0..m : k # 0 => g[k - 1] \in Node
    BY <1>1
  <2>3. \A k \in 0..m : k # 0 => next[g[k - 1]] = IF Refers(g[k - 1], table) THEN table[g[k - 1].to]
                                                 ELSE g[k - 1]
    BY <2>2 DEF next
  <2>4. \A k \in 0..m : g[k] = IF k = 0 THEN node
                               ELSE IF Refers(g[k - 1], table) THEN table[g[k - 1].to]
                                    ELSE g[k - 1]
    <3> TAKE k \in 0..m
    <3>1. g[k] = IF k = 0 THEN node ELSE next[g[k - 1]]
      BY <2>1
    <3> QED
      BY <2>3, <3>1
  <2>5. g = [k \in 0..m |-> g[k]]
    OBVIOUS
  <2>6. Solves(g)
    BY <2>4, <2>5
  <2> QED
    BY <2>6
<1>4. trail = CHOOSE g : Solves(g)
  BY DEF Trail
<1>5. Solves(trail)
  <2> HIDE DEF Solves, trail
  <2> QED
    BY <1>3, <1>4
<1> HIDE DEF trail
<1>6. trail[0] = node /\ DOMAIN trail = 0..m
  BY <1>1, <1>5
<1>7. ASSUME NEW n \in 0..MaxDepth
      PROVE  trail[n + 1] = IF Refers(trail[n], table) THEN table[trail[n].to] ELSE trail[n]
  <2>1. n + 1 \in 0..m /\ n + 1 # 0 /\ (n + 1) - 1 = n
    BY <1>1
  <2>2. \A k \in 0..m : trail[k] = IF k = 0 THEN node
                               ELSE IF Refers(trail[k - 1], table) THEN table[trail[k - 1].to]
                                    ELSE trail[k - 1]
    BY <1>5
  <2> HIDE DEF m
  <2> QED
    BY <2>1, <2>2
<1> DEFINE S == {n \in 0..m : trail[n] \in Node}
<1>8. 0 \in S
  BY <1>1, <1>6
<1>9. ASSUME NEW n \in 0..(m - 1), n \in S PROVE n + 1 \in S
  <2>1. n \in 0..MaxDepth /\ n + 1 \in 0..m
    BY <1>1
  <2> QED
    BY <1>7, <1>9, <2>1 DEF Refers
<1>10. 0..m \subseteq S
  <2> HIDE DEF S, m
  <2> QED
    BY <1>1, <1>8, <1>9, Climb
<1>11. trail \in [0..m -> Node]
  <2>1. trail = [n \in 0..m |-> IF n = 0 THEN node
                                ELSE IF Refers(trail[n - 1], table) THEN table[trail[n - 1].to]
                                     ELSE trail[n - 1]]
    BY <1>5
  <2>2. \A n \in 0..m : trail[n] \in Node
    BY <1>10
  <2> DEFINE e(n) == IF n = 0 THEN node
                                ELSE IF Refers(trail[n - 1], table) THEN table[trail[n - 1].to]
                                     ELSE trail[n - 1]
  <2>3. trail = [n \in 0..m |-> e(n)]
    BY <2>1
  <2> HIDE DEF e, m, Solves
  <2> QED
    BY <2>2, <2>3
<1> QED
  BY <1>6, <1>7, <1>11 DEF trail

\* resolve stops at the first node that refers to no line or is too deep.
LEMMA ResolveIs ==
    ASSUME NEW node \in Node, NEW table, \A id \in DOMAIN table : table[id] \in Node,
           NEW depth \in Nat
    PROVE  LET trail == Trail(node, table)
               r == Resolve(node, table, depth)
           IN  /\ r.node \in Node /\ r.depth \in Nat
               /\ \A n \in 0..MaxDepth :
                    /\ ~Refers(trail[n], table) /\ depth + n <= MaxDepth + 1
                    /\ \A k \in 0..(n - 1) : Refers(trail[k], table)
                    => r.node = trail[n] /\ r.depth = depth + n
<1> DEFINE trail == Trail(node, table)
           m == MaxDepth + 1
           ends == {n \in 0..m : depth + n > MaxDepth \/ ~Refers(trail[n], table)}
           least == CHOOSE e \in ends : \A k \in ends : e <= k
           r == Resolve(node, table, depth)
<1>1. MaxDepth \in Nat
  BY IntercityAssumption
<1>2. trail \in [0..m -> Node]
  BY TrailIs
<1>3. r = [node |-> trail[least], depth |-> depth + least]
  BY DEF Resolve
<1> HIDE DEF trail
<1>4. m \in ends
  BY <1>1
<1>5. ends \in SUBSET Nat /\ ends \subseteq 0..m
  BY <1>1
<1>6. least \in ends /\ \A k \in ends : least <= k
  <2> HIDE DEF ends
  <2>1. \E e \in ends : \A k \in ends : e <= k
    BY <1>4, <1>5, Least
  <2> QED
    BY <2>1
<1> HIDE DEF least
<1>7. r.node \in Node /\ r.depth \in Nat
  BY <1>2, <1>3, <1>5, <1>6
<1>8. ASSUME NEW n \in 0..MaxDepth, ~Refers(trail[n], table), depth + n <= MaxDepth + 1,
             \A k \in 0..(n - 1) : Refers(trail[k], table)
      PROVE  least = n
  <2>1. n \in ends
    BY <1>1, <1>8
  <2>2. least <= n /\ least \in 0..m
    BY <1>5, <1>6, <2>1
  <2>3. least < n => least \in 0..(n - 1) /\ ~(depth + least > MaxDepth)
    BY <1>1, <1>8, <2>2
  <2>4. least < n => FALSE
    BY <1>6, <1>8, <2>3
  <2> QED
    BY <2>2, <2>4
<1> QED
  BY <1>3, <1>7, <1>8 DEF trail

-----------------------------------------------------------------------------
(* The classes of a train *)

\* A selection from a sequence, and a sequence in another order.
LEMMA KeptIs ==
    ASSUME NEW X, NEW s \in Seq(X), NEW S \in SUBSET DOMAIN s
    PROVE  /\ Picked(s, S) \in Seq(X) /\ ToSet(Picked(s, S)) = {s[i] : i \in S}
           /\ Picked(s, S) # <<>> <=> S # {}
<1> DEFINE n == Len(s)
<1>1. n \in Nat /\ DOMAIN s = 1..n /\ S \in SUBSET (1..n)
  BY LenProperties
<1>2. At(s, S) \subseteq X
  BY <1>1 DEF At
<1>3. /\ ToSet(Picked(s, S)) = At(s, S) /\ Picked(s, S) \in Seq(At(s, S))
      /\ Picked(s, S) # <<>> <=> S # {}
  <2> HIDE DEF n
  <2> QED
    BY <1>1, PickedSet
<1>4. Picked(s, S) \in Seq(X)
  BY <1>2, <1>3, SeqWider
<1> QED
  BY <1>3, <1>4 DEF At

\* A sequence that was sorted has the elements and the length it had.
LEMMA SortedIs ==
    ASSUME NEW X, NEW s \in Seq(X), NEW k \in Nat, NEW keys \in [DOMAIN s -> [1..k -> Int]]
    PROVE  /\ SortedBy(s, keys) \in Seq(X) /\ ToSet(SortedBy(s, keys)) = ToSet(s)
           /\ DOMAIN SortedBy(s, keys) = DOMAIN s
<1> DEFINE n == Len(s)
<1>1. n \in Nat /\ DOMAIN s = 1..n /\ keys \in [1..n -> [1..k -> Int]] /\ ToSet(s) \subseteq X
  BY SeqIs
<1>2. /\ DOMAIN SortedBy(s, keys) = 1..n
      /\ \A m \in 1..n : SortedBy(s, keys)[m] = s[Source(n, keys)[m]]
      /\ ToSet(SortedBy(s, keys)) = ToSet(s)
      /\ SortedBy(s, keys) \in Seq(ToSet(s))
  <2> HIDE DEF n
  <2> QED
    BY <1>1, SortedSet
<1> QED
  BY <1>1, <1>2, SeqWider

\* The first k nodes of a trail refer to a line.
Chain(node, table, k) == \A j \in 0..(k - 1) : Refers(Trail(node, table)[j], table)

\* The classes of a train: what the items of its list come to, where that is a class.
LEMMA ClassesAre ==
    ASSUME NEW avail \in Node, NEW table, \A id \in DOMAIN table : table[id] \in Node
    PROVE  LET list == Resolve(avail, table, 1)
           IN  /\ Classes(avail, table) \in Seq({c \in Node : c.tag = "class"})
               /\ list.node.tag = "list" =>
                    \A i \in DOMAIN list.node.items :
                        LET c == Resolve(list.node.items[i], table, list.depth + 1).node
                        IN  c.tag = "class" => c \in ToSet(Classes(avail, table))
<1> DEFINE list == Resolve(avail, table, 1)
           items == list.node.items
           Item(i) == Resolve(items[i], table, list.depth + 1).node
           all == [i \in DOMAIN items |-> Item(i)]
           S == {i \in DOMAIN all : all[i].tag = "class"}
           listed == IF list.node.tag # "list" THEN <<>> ELSE Picked(all, S)
           keys == [i \in DOMAIN listed |-> <<Flag(listed[i].fare = None), OrZero(listed[i].fare)>>]
           X == {c \in Node : c.tag = "class"}
<1>1. Classes(avail, table) = SortedBy(listed, keys)
  BY DEF Classes, Sorted, Keep
<1>2. list.node \in Node /\ list.depth \in Nat
  <2> DEFINE depth == 1
  <2>1. depth \in Nat
    OBVIOUS
  <2> HIDE DEF depth
  <2>2. Resolve(avail, table, depth).node \in Node /\ Resolve(avail, table, depth).depth \in Nat
    BY <2>1, ResolveIs
  <2> QED
    BY <2>2 DEF depth
<1> HIDE DEF list
<1>3. CASE list.node.tag = "list"
  <2>1. items \in Seq(Node)
    BY <1>2, <1>3, AnswersAssumption
  <2>2. \A i \in DOMAIN items : Item(i) \in Node
    <3> TAKE i \in DOMAIN items
    <3> DEFINE node == items[i]
               depth == list.depth + 1
    <3>1. node \in Node /\ depth \in Nat
      BY <1>2, <2>1
    <3> HIDE DEF node, depth
    <3>2. Resolve(node, table, depth).node \in Node /\ Resolve(node, table, depth).depth \in Nat
      BY <3>1, ResolveIs
    <3> QED
      BY <3>2 DEF node, depth
  <2> HIDE DEF Item
  <2>3. all \in Seq(Node) /\ DOMAIN all = DOMAIN items
    BY <2>1, <2>2
  <2>4. \A i \in DOMAIN items : all[i] = Item(i)
    OBVIOUS
  <2> HIDE DEF all, items
  <2>5. /\ Picked(all, S) \in Seq(Node) /\ ToSet(Picked(all, S)) = {all[i] : i \in S}
    BY <2>3, KeptIs
  <2>6. listed = Picked(all, S) /\ \A i \in S : all[i] \in X
    BY <1>3, <2>3
  <2> HIDE DEF listed, S
  <2>7. listed \in Seq(X)
    <3>1. listed \in Seq(ToSet(listed)) /\ ToSet(listed) \subseteq X
      BY <2>5, <2>6, InSeqOwn
    <3> QED
      BY <3>1, SeqWider
  <2>8. keys \in [DOMAIN listed -> [1..2 -> Int]]
    <3>1. \A i \in DOMAIN listed : listed[i] \in X
      BY <2>7
    <3> SUFFICES ASSUME NEW i \in DOMAIN listed
                 PROVE <<Flag(listed[i].fare = None), OrZero(listed[i].fare)>> \in [1..2 -> Int]
      OBVIOUS
    <3>2. listed[i].fare \in Figure
      BY <3>1, AnswersAssumption
    <3>3. Flag(listed[i].fare = None) \in Int /\ OrZero(listed[i].fare) \in Int
      BY <3>2 DEF Flag, OrZero, Figure
    <3> QED
      BY <3>3
  <2> HIDE DEF keys, X
  <2>9. SortedBy(listed, keys) \in Seq(X) /\ ToSet(SortedBy(listed, keys)) = ToSet(listed)
    <3> DEFINE k == 2
    <3>1. k \in Nat /\ keys \in [DOMAIN listed -> [1..k -> Int]]
      BY <2>8
    <3> HIDE DEF k
    <3> QED
      BY <2>7, <3>1, SortedIs
  <2>10. \A i \in DOMAIN items : Item(i).tag = "class" => Item(i) \in ToSet(SortedBy(listed, keys))
    BY <2>3, <2>4, <2>5, <2>6, <2>9 DEF S
  <2> QED
    BY <1>1, <2>9, <2>10 DEF list, items, Item, X
<1>4. CASE list.node.tag # "list"
  <2>1. listed = <<>>
    BY <1>4
  <2> HIDE DEF listed
  <2>2. listed \in Seq(X) /\ DOMAIN listed = {}
    BY <2>1
  <2>3. keys \in [DOMAIN listed -> [1..2 -> Int]]
    BY <2>2
  <2> HIDE DEF keys, X
  <2>4. SortedBy(listed, keys) \in Seq(X)
    <3> DEFINE k == 2
    <3>1. k \in Nat /\ keys \in [DOMAIN listed -> [1..k -> Int]]
      BY <2>3
    <3> HIDE DEF k
    <3> QED
      BY <2>2, <3>1, SortedIs
  <2> QED
    BY <1>1, <1>4, <2>4 DEF list, X
<1> QED
  BY <1>3, <1>4

\* A place of Offered is where the trail of the availability leads, or that of an item of
\* the list at its end.
Leads(at, avail, table, n) ==
    /\ ~at.listed => \E k \in 0..n : /\ Chain(avail, table, k)
                                    /\ at.node = Trail(avail, table)[k]
    /\ at.listed => \E k \in 0..(n - 1) :
          LET list == Trail(avail, table)[k]
          IN  /\ Chain(avail, table, k) /\ list.tag = "list"
              /\ \E i \in DOMAIN list.items : \E l \in 0..(n - k - 1) :
                    /\ Chain(list.items[i], table, l)
                    /\ at.node = Trail(list.items[i], table)[l]

\* A trail that ends within the depth is resolved to its end.
LEMMA ChainIs ==
    ASSUME NEW node \in Node, NEW table, \A id \in DOMAIN table : table[id] \in Node
    PROVE  /\ Chain(node, table, 0) /\ Trail(node, table)[0] = node
           /\ \A k \in 0..MaxDepth : Trail(node, table)[k] \in Node
           /\ \A k \in 0..MaxDepth : Chain(node, table, k) /\ Refers(Trail(node, table)[k], table)
                => /\ Chain(node, table, k + 1)
                   /\ Trail(node, table)[k + 1] = table[Trail(node, table)[k].to]
           /\ \A depth \in Nat, k \in 0..MaxDepth :
                /\ Chain(node, table, k) /\ ~Refers(Trail(node, table)[k], table)
                /\ depth + k <= MaxDepth + 1
                => /\ Resolve(node, table, depth).node = Trail(node, table)[k]
                   /\ Resolve(node, table, depth).depth = depth + k
<1> DEFINE trail == Trail(node, table)
<1>1. MaxDepth \in Nat
  BY IntercityAssumption
<1>2. /\ trail \in [0..(MaxDepth + 1) -> Node] /\ trail[0] = node
      /\ \A n \in 0..MaxDepth :
           trail[n + 1] = IF Refers(trail[n], table) THEN table[trail[n].to] ELSE trail[n]
  BY TrailIs
<1> HIDE DEF trail
<1>3. Chain(node, table, 0) /\ \A k \in 0..MaxDepth : trail[k] \in Node
  BY <1>1, <1>2 DEF Chain
<1>4. ASSUME NEW k \in 0..MaxDepth, Chain(node, table, k), Refers(trail[k], table)
      PROVE  Chain(node, table, k + 1) /\ trail[k + 1] = table[trail[k].to]
  <2>1. \A j \in 0..((k + 1) - 1) : j \in 0..(k - 1) \/ j = k
    BY <1>1
  <2> QED
    BY <1>2, <1>4, <2>1 DEF Chain, trail
<1>5. ASSUME NEW depth \in Nat, NEW k \in 0..MaxDepth, Chain(node, table, k),
             ~Refers(trail[k], table), depth + k <= MaxDepth + 1
      PROVE  /\ Resolve(node, table, depth).node = trail[k]
             /\ Resolve(node, table, depth).depth = depth + k
  <2> DEFINE r == Resolve(node, table, depth)
  <2>1. /\ r.node \in Node /\ r.depth \in Nat
        /\ \A n \in 0..MaxDepth :
                    /\ ~Refers(trail[n], table) /\ depth + n <= MaxDepth + 1
                    /\ \A j \in 0..(n - 1) : Refers(trail[j], table)
                    => r.node = trail[n] /\ r.depth = depth + n
    BY ResolveIs DEF trail
  <2> HIDE DEF r
  <2>2. r.node = trail[k] /\ r.depth = depth + k
    BY <1>5, <2>1 DEF Chain, trail
  <2> QED
    BY <2>2 DEF r
<1> QED
  BY <1>2, <1>3, <1>4, <1>5 DEF trail

\* A class that a page offers is among those that are read.
LEMMA OfferedIsRead ==
    ASSUME NEW avail \in Node, NEW page, \A id \in DOMAIN Table(page) : Table(page)[id] \in Node,
           NEW c \in Offered(page, avail)
    PROVE  c \in ToSet(Classes(avail, Table(page)))
<1> DEFINE table == Table(page)
           Step(at) ==
              CASE Refers(at.node, table) ->
                      {[node |-> table[at.node.to], listed |-> at.listed]}
                [] at.node.tag = "list" /\ ~at.listed ->
                      {[node |-> item, listed |-> TRUE] : item \in ToSet(at.node.items)}
                [] OTHER -> {}
           Solves(g) == g = [n \in 0..MaxDepth |->
                               IF n = 0 THEN {[node |-> avail, listed |-> FALSE]}
                               ELSE g[n - 1] \cup UNION {Step(at) : at \in g[n - 1]}]
           reach == CHOOSE g : Solves(g)
           P == [node : Node, listed : BOOLEAN]
           next == [R \in SUBSET P |-> R \cup UNION {Step(at) : at \in R}]
<1>1. \E at \in reach[MaxDepth] : at.listed /\ at.node.tag = "class" /\ c = at.node
  BY DEF Offered
<1>2. \A id \in DOMAIN table : table[id] \in Node
  OBVIOUS
<1>3. MaxDepth \in Nat
  BY IntercityAssumption
<1> HIDE DEF table
<1>4. ASSUME NEW at \in P, NEW to \in Step(at)
      PROVE  /\ to \in P
             /\ \/ Refers(at.node, table) /\ to.node = table[at.node.to] /\ to.listed = at.listed
                \/ /\ ~Refers(at.node, table) /\ at.node.tag = "list" /\ ~at.listed /\ to.listed
                   /\ \E i \in DOMAIN at.node.items : to.node = at.node.items[i]
  <2>1. at.node \in Node
    OBVIOUS
  <2>2. CASE Refers(at.node, table)
    <3> DEFINE x == [node |-> table[at.node.to], listed |-> at.listed]
               items == {[node |-> item, listed |-> TRUE] : item \in ToSet(at.node.items)}
               Lists == at.node.tag = "list" /\ ~at.listed
    <3>0. Step(at) = {x}
      <4> DEFINE R == Refers(at.node, table)
      <4>1. Step(at) = CASE R -> {x} [] Lists -> items [] OTHER -> {}
        OBVIOUS
      <4>2. R
        BY <2>2
      <4>3. R => ~Lists
        BY DEF Refers
      <4> HIDE DEF Step, x, items, Lists, R
      <4> QED
        BY <4>1, <4>2, <4>3
    <3>1. to = x
      BY <3>0
    <3>2. table[at.node.to] \in Node
      BY <1>2, <2>2 DEF Refers
    <3> QED
      BY <2>2, <3>1, <3>2
  <2>3. CASE ~Refers(at.node, table)
    <3>1. at.node.tag = "list" /\ ~at.listed
      BY <2>3
    <3>2. PICK item \in ToSet(at.node.items) : to = [node |-> item, listed |-> TRUE]
      BY <2>3, <3>1
    <3>3. at.node.items \in Seq(Node)
      BY <2>1, <3>1, AnswersAssumption
    <3>4. PICK i \in DOMAIN at.node.items : item = at.node.items[i]
      BY DEF ToSet
    <3>5. item \in Node
      BY <3>3, <3>4
    <3> QED
      BY <2>3, <3>1, <3>2, <3>4, <3>5
  <2> QED
    BY <2>2, <2>3
<1> HIDE DEF Step
<1>5. next \in [SUBSET P -> SUBSET P]
  <2> HIDE DEF P
  <2>1. ASSUME NEW R \in SUBSET P PROVE R \cup UNION {Step(at) : at \in R} \in SUBSET P
    BY <1>4
  <2> QED
    BY <2>1
<1>6. {[node |-> avail, listed |-> FALSE]} \in SUBSET P
  OBVIOUS
<1>7. \E g \in [0..MaxDepth -> SUBSET P] : Solves(g)
  <2> DEFINE start == {[node |-> avail, listed |-> FALSE]}
             X == SUBSET P
             m == MaxDepth
  <2>0. m \in Nat
    BY <1>3
  <2>1. next \in [X -> X]
    BY <1>5
  <2>9. start \in X
    BY <1>6
  <2>2. \A R \in X : next[R] = R \cup UNION {Step(at) : at \in R}
    OBVIOUS
  <2> HIDE DEF start, X, next, P, Solves, m
  <2>3. PICK g \in [0..m -> X] : g = [k \in 0..m |-> IF k = 0 THEN start ELSE next[g[k - 1]]]
    BY <2>0, <2>1, <2>9, Iterates, SMTT(30)
  <2> USE DEF m
  <2>4. \A k \in 0..MaxDepth : k # 0 => g[k - 1] \in X
    BY <1>3
  <2>5. \A k \in 0..MaxDepth : g[k] = IF k = 0 THEN start
                                     ELSE g[k - 1] \cup UNION {Step(at) : at \in g[k - 1]}
    <3> TAKE k \in 0..MaxDepth
    <3>1. g[k] = IF k = 0 THEN start ELSE next[g[k - 1]]
      BY <2>3
    <3> QED
      BY <2>2, <2>4, <3>1
  <2>6. g = [k \in 0..MaxDepth |-> g[k]]
    OBVIOUS
  <2>7. Solves(g)
    BY <2>5, <2>6 DEF start, Solves
  <2> HIDE DEF Solves
  <2> QED
    BY <2>7 DEF X
<1>8. Solves(reach)
  <2> HIDE DEF Solves, P
  <2> QED
    BY <1>7
<1> HIDE DEF reach
<1>9. /\ reach[0] = {[node |-> avail, listed |-> FALSE]}
      /\ \A n \in 0..(MaxDepth - 1) :
           reach[n + 1] = reach[n] \cup UNION {Step(at) : at \in reach[n]}
  <2>1. \A n \in 0..MaxDepth : reach[n] =
           IF n = 0 THEN {[node |-> avail, listed |-> FALSE]}
           ELSE reach[n - 1] \cup UNION {Step(at) : at \in reach[n - 1]}
    BY <1>8
  <2>2. 0 \in 0..MaxDepth /\ \A n \in 0..(MaxDepth - 1) :
            n + 1 \in 0..MaxDepth /\ n + 1 # 0 /\ (n + 1) - 1 = n
    BY <1>3
  <2> QED
    BY <2>1, <2>2
<1> HIDE DEF Solves
<1>10. ASSUME NEW at \in P, NEW n \in 0..(MaxDepth - 1), Leads(at, avail, table, n)
       PROVE  Leads(at, avail, table, n + 1)
  <2>1. 0..n \subseteq 0..(n + 1) /\ 0..(n - 1) \subseteq 0..((n + 1) - 1)
    BY <1>3
  <2>2. \A k \in 0..(n - 1) : 0..(n - k - 1) \subseteq 0..((n + 1) - k - 1)
    BY <1>3
  <2>3. ~at.listed => \E k \in 0..(n + 1) : /\ Chain(avail, table, k)
                                           /\ at.node = Trail(avail, table)[k]
    BY <1>10, <2>1 DEF Leads
  <2>4. ASSUME at.listed
        PROVE  \E k \in 0..((n + 1) - 1) :
                  LET list == Trail(avail, table)[k]
                  IN  /\ Chain(avail, table, k) /\ list.tag = "list"
                      /\ \E i \in DOMAIN list.items : \E l \in 0..((n + 1) - k - 1) :
                            /\ Chain(list.items[i], table, l)
                            /\ at.node = Trail(list.items[i], table)[l]
    <3>1. PICK k \in 0..(n - 1) :
                  LET list == Trail(avail, table)[k]
                  IN  /\ Chain(avail, table, k) /\ list.tag = "list"
                      /\ \E i \in DOMAIN list.items : \E l \in 0..(n - k - 1) :
                            /\ Chain(list.items[i], table, l)
                            /\ at.node = Trail(list.items[i], table)[l]
      BY <1>10, <2>4 DEF Leads
    <3> DEFINE list == Trail(avail, table)[k]
    <3>2. PICK i \in DOMAIN list.items, l \in 0..(n - k - 1) :
                            /\ Chain(list.items[i], table, l)
                            /\ at.node = Trail(list.items[i], table)[l]
      BY <3>1
    <3>3. k \in 0..((n + 1) - 1) /\ l \in 0..((n + 1) - k - 1)
      BY <2>1, <2>2
    <3> QED
      BY <3>1, <3>2, <3>3
  <2> QED
    BY <2>3, <2>4 DEF Leads
<1>11. ASSUME NEW at \in P, NEW n \in 0..(MaxDepth - 1), Leads(at, avail, table, n),
              NEW to \in Step(at)
       PROVE  Leads(to, avail, table, n + 1)
  <2>1. CASE ~at.listed /\ Refers(at.node, table) /\ to.node = table[at.node.to] /\ ~to.listed
    <3>1. PICK k \in 0..n : Chain(avail, table, k) /\ at.node = Trail(avail, table)[k]
      BY <1>11, <2>1 DEF Leads
    <3>2. k \in 0..MaxDepth /\ k + 1 \in 0..(n + 1)
      BY <1>3
    <3>3. Chain(avail, table, k + 1) /\ Trail(avail, table)[k + 1] = table[at.node.to]
      BY <1>2, <2>1, <3>1, <3>2, ChainIs
    <3> QED
      BY <2>1, <3>2, <3>3 DEF Leads
  <2>2. CASE at.listed /\ Refers(at.node, table) /\ to.node = table[at.node.to] /\ to.listed
    <3>1. PICK k \in 0..(n - 1) :
                  LET list == Trail(avail, table)[k]
                  IN  /\ Chain(avail, table, k) /\ list.tag = "list"
                      /\ \E i \in DOMAIN list.items : \E l \in 0..(n - k - 1) :
                            /\ Chain(list.items[i], table, l)
                            /\ at.node = Trail(list.items[i], table)[l]
      BY <1>11, <2>2 DEF Leads
    <3> DEFINE list == Trail(avail, table)[k]
    <3>2. PICK i \in DOMAIN list.items, l \in 0..(n - k - 1) :
                            /\ Chain(list.items[i], table, l)
                            /\ at.node = Trail(list.items[i], table)[l]
      BY <3>1
    <3>3. /\ k \in 0..MaxDepth /\ k \in 0..((n + 1) - 1) /\ l \in 0..MaxDepth
          /\ l + 1 \in 0..((n + 1) - k - 1)
      BY <1>3
    <3>4. list \in Node
      BY <1>2, <3>3, ChainIs
    <3>5. list.items[i] \in Node
      <4>1. list.items \in Seq(Node)
        BY <3>1, <3>4, AnswersAssumption
      <4> HIDE DEF list
      <4> QED
        BY <4>1
    <3> DEFINE item == list.items[i]
    <3>6. /\ item \in Node /\ Chain(item, table, l) /\ Refers(Trail(item, table)[l], table)
          /\ at.node = Trail(item, table)[l]
      BY <2>2, <3>2, <3>5
    <3>7. Chain(item, table, l + 1) /\ Trail(item, table)[l + 1] = table[at.node.to]
      <4> HIDE DEF item
      <4>1. Chain(item, table, l + 1) /\ Trail(item, table)[l + 1] = table[Trail(item, table)[l].to]
        BY <1>2, <3>3, <3>6, ChainIs
      <4> QED
        BY <3>6, <4>1
    <3>8. \E x \in DOMAIN list.items : \E y \in 0..((n + 1) - k - 1) :
               Chain(list.items[x], table, y) /\ to.node = Trail(list.items[x], table)[y]
      BY <2>2, <3>3, <3>7
    <3>9. \E m \in 0..((n + 1) - 1) :
                  LET ls == Trail(avail, table)[m]
                  IN  /\ Chain(avail, table, m) /\ ls.tag = "list"
                      /\ \E x \in DOMAIN ls.items : \E y \in 0..((n + 1) - m - 1) :
                            /\ Chain(ls.items[x], table, y)
                            /\ to.node = Trail(ls.items[x], table)[y]
      BY <3>1, <3>3, <3>8
    <3> QED
      BY <2>2, <3>9 DEF Leads
  <2>3. CASE /\ ~Refers(at.node, table) /\ at.node.tag = "list" /\ ~at.listed /\ to.listed
             /\ \E i \in DOMAIN at.node.items : to.node = at.node.items[i]
    <3>1. PICK k \in 0..n : Chain(avail, table, k) /\ at.node = Trail(avail, table)[k]
      BY <1>11, <2>3 DEF Leads
    <3>2. PICK i \in DOMAIN at.node.items : to.node = at.node.items[i]
      BY <2>3
    <3> DEFINE item == at.node.items[i]
    <3>3. item \in Node
      <4>1. at.node \in Node /\ at.node.items \in Seq(Node)
        BY <2>3, AnswersAssumption
      <4> QED
        BY <4>1
    <3> HIDE DEF item
    <3>4. Chain(item, table, 0) /\ Trail(item, table)[0] = item
      BY <1>2, <3>3, ChainIs
    <3>5. k \in 0..((n + 1) - 1) /\ 0 \in 0..((n + 1) - k - 1)
      BY <1>3
    <3>6. \E x \in DOMAIN at.node.items : \E y \in 0..((n + 1) - k - 1) :
               Chain(at.node.items[x], table, y) /\ to.node = Trail(at.node.items[x], table)[y]
      BY <3>2, <3>4, <3>5 DEF item
    <3>7. \E m \in 0..((n + 1) - 1) :
                  LET ls == Trail(avail, table)[m]
                  IN  /\ Chain(avail, table, m) /\ ls.tag = "list"
                      /\ \E x \in DOMAIN ls.items : \E y \in 0..((n + 1) - m - 1) :
                            /\ Chain(ls.items[x], table, y)
                            /\ to.node = Trail(ls.items[x], table)[y]
      BY <2>3, <3>1, <3>5, <3>6
    <3> QED
      BY <2>3, <3>7 DEF Leads
  <2> QED
    BY <1>4, <2>1, <2>2, <2>3
<1> DEFINE G == {n \in 0..MaxDepth : \A at \in reach[n] : at \in P /\ Leads(at, avail, table, n)}
<1>12. 0 \in G
  <2> DEFINE at == [node |-> avail, listed |-> FALSE]
  <2>1. at \in P /\ ~at.listed /\ at.node = avail /\ 0 \in 0..0 /\ 0 \in 0..MaxDepth
    BY <1>3
  <2>2. reach[0] = {at}
    BY <1>9
  <2> HIDE DEF at, P
  <2>3. Leads(at, avail, table, 0)
    BY <1>2, <2>1, ChainIs DEF Leads
  <2> QED
    BY <2>1, <2>2, <2>3
<1>13. ASSUME NEW n \in 0..(MaxDepth - 1), n \in G PROVE n + 1 \in G
  <2>1. n + 1 \in 0..MaxDepth
    BY <1>3
  <2>2. ASSUME NEW to \in reach[n + 1] PROVE to \in P /\ Leads(to, avail, table, n + 1)
    <3>1. to \in reach[n] \/ \E at \in reach[n] : to \in Step(at)
      BY <1>9
    <3>2. \A at \in reach[n] : at \in P /\ Leads(at, avail, table, n)
      BY <1>13
    <3> HIDE DEF P, G
    <3> QED
      BY <1>4, <1>10, <1>11, <3>1, <3>2
  <2> HIDE DEF P
  <2> QED
    BY <2>1, <2>2
<1>14. MaxDepth \in G
  <2> HIDE DEF G
  <2>1. 0..MaxDepth \subseteq G
    BY <1>3, <1>12, <1>13, Climb
  <2> QED
    BY <1>3, <2>1
<1>15. PICK at \in P : /\ Leads(at, avail, table, MaxDepth)
                       /\ at.listed /\ at.node.tag = "class" /\ c = at.node
  BY <1>1, <1>14
<1>16. PICK k \in 0..(MaxDepth - 1) :
                  LET list == Trail(avail, table)[k]
                  IN  /\ Chain(avail, table, k) /\ list.tag = "list"
                      /\ \E i \in DOMAIN list.items : \E l \in 0..(MaxDepth - k - 1) :
                            /\ Chain(list.items[i], table, l)
                            /\ at.node = Trail(list.items[i], table)[l]
  BY <1>15 DEF Leads
<1> DEFINE list == Trail(avail, table)[k]
<1>17. PICK i \in DOMAIN list.items, l \in 0..(MaxDepth - k - 1) :
                            /\ Chain(list.items[i], table, l)
                            /\ c = Trail(list.items[i], table)[l]
  BY <1>15, <1>16
<1> DEFINE r == Resolve(avail, table, 1)
<1>18. list.tag = "list" /\ list \in Node /\ r.node = list /\ r.depth = 1 + k
  <2> DEFINE depth == 1
  <2>1. /\ depth \in Nat /\ k \in 0..MaxDepth /\ ~Refers(Trail(avail, table)[k], table)
        /\ depth + k <= MaxDepth + 1
    BY <1>3, <1>16 DEF Refers
  <2> HIDE DEF depth
  <2>2. /\ Resolve(avail, table, depth).node = Trail(avail, table)[k]
        /\ Resolve(avail, table, depth).depth = depth + k
        /\ Trail(avail, table)[k] \in Node
    BY <1>2, <1>16, <2>1, ChainIs
  <2> QED
    BY <1>16, <2>2 DEF depth
<1> HIDE DEF r, list
<1>19. Resolve(r.node.items[i], table, r.depth + 1).node = c
  <2> DEFINE item == list.items[i]
             depth == r.depth + 1
  <2>1. item \in Node /\ depth \in Nat /\ depth = k + 2
    <3>1. list.items \in Seq(Node)
      BY <1>18, AnswersAssumption
    <3> QED
      BY <1>17, <1>18, <3>1
  <2>2. /\ l \in 0..MaxDepth /\ depth + l <= MaxDepth + 1
        /\ Chain(item, table, l) /\ c = Trail(item, table)[l] /\ ~Refers(c, table)
    BY <1>3, <1>15, <1>17, <2>1 DEF Refers
  <2>3. item = r.node.items[i]
    BY <1>18
  <2> HIDE DEF item, depth
  <2>4. /\ Resolve(item, table, depth).node = Trail(item, table)[l]
        /\ Resolve(item, table, depth).depth = depth + l
    BY <1>2, <2>1, <2>2, ChainIs
  <2> QED
    BY <2>2, <2>3, <2>4 DEF depth
<1>20. /\ Classes(avail, table) \in Seq({x \in Node : x.tag = "class"})
       /\ r.node.tag = "list" =>
             \A j \in DOMAIN r.node.items :
                LET x == Resolve(r.node.items[j], table, r.depth + 1).node
                IN  x.tag = "class" => x \in ToSet(Classes(avail, table))
  BY <1>2, ClassesAre DEF r
<1> QED
  BY <1>15, <1>17, <1>18, <1>19, <1>20 DEF table

-----------------------------------------------------------------------------
(* The filter of trains *)

\* The ids of a page, and the table of what is on its lines.
LEMMA TableIs ==
    ASSUME NEW page \in TrainPages \cup {<<>>}
    PROVE  /\ Ids(page) \in Seq(ToSet(Ids(page))) /\ DOMAIN Table(page) = ToSet(Ids(page))
           /\ \A id \in DOMAIN Table(page) : Table(page)[id] \in Node
           /\ page = <<>> => Ids(page) = <<>>
<1> DEFINE S == {i \in DOMAIN page : page[i].node # None}
           parsed == Picked(page, S)
           f == [i \in DOMAIN parsed |-> parsed[i].id]
           W == {i \in DOMAIN f : \A j \in 1..(i - 1) : f[j] # f[i]}
           ids == Ids(page)
<1>1. page \in Seq(ToSet(page)) /\ \A line \in ToSet(page) : line.node \in Node \cup {None}
  <2>1. CASE page = <<>>
    BY <2>1 DEF ToSet
  <2>2. CASE page \in TrainPages
    BY <2>2, AnswersAssumption
  <2> QED
    BY <2>1, <2>2
<1>2. ids = Picked(f, W)
  BY DEF Ids, Keep, FirstOfEach
<1> HIDE DEF ids
<1>3. /\ parsed \in Seq(ToSet(page)) /\ ToSet(parsed) = {page[i] : i \in S}
      /\ parsed # <<>> <=> S # {}
  <2>1. S \in SUBSET DOMAIN page
    OBVIOUS
  <2> HIDE DEF S
  <2> QED
    BY <1>1, <2>1, KeptIs
<1> HIDE DEF parsed
<1> DEFINE X == {page[i].id : i \in S}
<1>4. f \in Seq(X)
  <2>1. /\ DOMAIN parsed = 1..Len(parsed) /\ Len(parsed) \in Nat
        /\ \A i \in DOMAIN parsed : parsed[i] \in ToSet(parsed)
    BY <1>3, SeqIs
  <2>2. \A i \in 1..Len(parsed) : parsed[i].id \in X
    BY <1>3, <2>1
  <2> HIDE DEF X
  <2> QED
    BY <2>1, <2>2
<1>5. f # <<>> => S # {}
  <2>1. parsed = <<>> => f = <<>>
    OBVIOUS
  <2> QED
    BY <1>3, <2>1
<1> HIDE DEF f, X
<1>6. ids \in Seq(X) /\ ids # <<>> => S # {}
  <2>1. W \in SUBSET DOMAIN f
    OBVIOUS
  <2>2. W # {} => f # <<>>
    BY <2>1, <1>4
  <2> HIDE DEF W
  <2>3. Picked(f, W) \in Seq(X) /\ (Picked(f, W) # <<>> <=> W # {})
    BY <1>4, <2>1, KeptIs
  <2> QED
    BY <1>2, <1>5, <2>2, <2>3
<1>7. ids \in Seq(X)
  <2>1. W \in SUBSET DOMAIN f
    OBVIOUS
  <2> HIDE DEF W
  <2>2. Picked(f, W) \in Seq(X)
    BY <1>4, <2>1, KeptIs
  <2> QED
    BY <1>2, <2>2
<1>8. page = <<>> => ids = <<>>
  BY <1>6, <1>7
<1>9. ids \in Seq(ToSet(ids)) /\ ToSet(ids) \subseteq X
  BY <1>7, InSeqOwn, SeqIs
<1> DEFINE With(id) == {i \in DOMAIN page : page[i].id = id /\ page[i].node # None}
           LastLine(id) == CHOOSE i \in DOMAIN page :
                 /\ page[i].id = id /\ page[i].node # None
                 /\ \A j \in DOMAIN page : page[j].id = id /\ page[j].node # None => j <= i
<1>10. Table(page) = [id \in ToSet(ids) |-> page[LastLine(id)].node]
  BY DEF Table, ids
<1>11. ASSUME NEW id \in ToSet(ids) PROVE page[LastLine(id)].node \in Node
  <2>1. With(id) # {}
    BY <1>9 DEF X
  <2>2. DOMAIN page = 1..Len(page) /\ Len(page) \in Nat
    BY <1>1, LenProperties
  <2> DEFINE n == Len(page)
             V == With(id)
             g == [i \in V |-> -i]
  <2>3. PICK m \in V : \A k \in V : g[m] <= g[k]
    <3>1. V \in SUBSET (1..n) /\ n \in Nat
      BY <2>2
    <3>2. \A i \in V : g[i] \in Int
      BY <3>1
    <3> HIDE DEF V, n, g
    <3> QED
      BY <2>1, <3>1, <3>2, Lowest DEF V
  <2>4. \A k \in V : k <= m
    <3> TAKE k \in V
    <3>1. k \in Int /\ m \in Int
      BY <2>2
    <3>2. g[m] = -m /\ g[k] = -k
      BY <3>1
    <3> HIDE DEF g, V
    <3>3. g[m] <= g[k]
      BY <2>3
    <3> QED
      BY <3>1, <3>2, <3>3
  <2>5. \E i \in DOMAIN page :
                 /\ page[i].id = id /\ page[i].node # None
                 /\ \A j \in DOMAIN page : page[j].id = id /\ page[j].node # None => j <= i
    BY <2>3, <2>4
  <2>6. LastLine(id) \in DOMAIN page /\ page[LastLine(id)].node # None
    BY <2>5
  <2> HIDE DEF LastLine
  <2>7. page[LastLine(id)] \in ToSet(page)
    BY <2>6 DEF ToSet
  <2> QED
    BY <1>1, <2>6, <2>7
<1> HIDE DEF LastLine
<1> QED
  BY <1>8, <1>9, <1>10, <1>11 DEF ids

\* What is known of a train that was read.
TrainOk(t) ==
    /\ t.dur \in Nat \cup {None} /\ t.dep \in Figure
    /\ t.classes \in Seq({c \in Node : c.tag = "class"})

\* The air-conditioned classes of a train, and the cheapest of them.
LEMMA AcIs ==
    ASSUME NEW t, TrainOk(t)
    PROVE  /\ (\E c \in ToSet(t.classes) : c.ac /\ c.fare # None /\ c.fare > 0) => AcClasses(t) # <<>>
           /\ AcClasses(t) # <<>> => Cheapest(t) \in Int
<1> DEFINE X == {c \in Node : c.tag = "class"}
           s == t.classes
           S == {i \in DOMAIN s : s[i].ac /\ s[i].fare # None /\ s[i].fare > 0}
           ac == AcClasses(t)
           fares == {ac[i].fare : i \in DOMAIN ac}
<1>1. ac = Picked(s, S)
  BY DEF AcClasses, Keep
<1>2. s \in Seq(X) /\ S \in SUBSET DOMAIN s
  BY DEF TrainOk
<1>3. \A i \in S : s[i].fare \in Nat
  <2> TAKE i \in S
  <2>1. s[i] \in X /\ s[i].fare # None /\ s[i].fare > 0
    BY <1>2
  <2>2. s[i].fare \in Figure
    BY <2>1, AnswersAssumption
  <2> QED
    BY <2>1, <2>2 DEF Figure
<1>4. (\E c \in ToSet(s) : c.ac /\ c.fare # None /\ c.fare > 0) => S # {}
  BY DEF ToSet
<1>5. Cheapest(t) = CHOOSE f \in fares : \A g \in fares : f <= g
  BY DEF Cheapest
<1> HIDE DEF ac, S, s, X
<1>6. /\ Picked(s, S) \in Seq(X) /\ ToSet(Picked(s, S)) = {s[i] : i \in S}
      /\ (Picked(s, S) # <<>> <=> S # {})
  BY <1>2, KeptIs
<1>7. fares = {c.fare : c \in ToSet(ac)}
  BY DEF ToSet
<1> HIDE DEF fares
<1>8. ASSUME ac # <<>> PROVE Cheapest(t) \in Int
  <2>1. fares # {} /\ \A f \in fares : f \in Nat
    BY <1>1, <1>3, <1>6, <1>7, <1>8
  <2>2. \E f \in fares : \A g \in fares : f <= g
    <3>1. fares \in SUBSET Nat
      BY <2>1
    <3> QED
      BY <2>1, <3>1, Least
  <2>3. Cheapest(t) \in fares
    BY <1>5, <2>2
  <2> QED
    BY <2>1, <2>3
<1> QED
  BY <1>1, <1>4, <1>6, <1>8 DEF ac, s

\* The filters drop a train without A/C, and never all that have it.
LEMMA FilteredIs ==
    ASSUME NEW X, \A t \in X : TrainOk(t), NEW trains \in Seq(X)
    PROVE  LET rows == FilterTrains(trains, TRUE, TRUE)
           IN  /\ rows \in Seq({t \in X : AcClasses(t) # <<>>})
               /\ (\E t \in ToSet(trains) : AcClasses(t) # <<>>) => rows # <<>>
<1> DEFINE S == {i \in DOMAIN trains : AcClasses(trains[i]) # <<>>}
           kept == Picked(trains, S)
           Y == {t \in X : AcClasses(t) # <<>>}
           durs == Durations(kept)
           fastest == CHOOSE m \in durs : \A n \in durs : m <= n
           Q == {i \in DOMAIN kept : kept[i].dur = None \/ 4 * kept[i].dur <= 5 * fastest}
           rows == FilterTrains(trains, TRUE, TRUE)
<1>1. rows = IF durs # {} THEN Picked(kept, Q) ELSE kept
  BY DEF FilterTrains, Keep
<1>2. S \in SUBSET DOMAIN trains /\ \A i \in S : trains[i] \in Y
  OBVIOUS
<1>3. (\E t \in ToSet(trains) : AcClasses(t) # <<>>) => S # {}
  BY DEF ToSet
<1> HIDE DEF S, Y
<1>4. /\ Picked(trains, S) \in Seq(X) /\ ToSet(Picked(trains, S)) = {trains[i] : i \in S}
      /\ (Picked(trains, S) # <<>> <=> S # {})
  BY <1>2, KeptIs
<1>5. kept \in Seq(Y)
  <2>1. kept \in Seq(ToSet(kept)) /\ ToSet(kept) \subseteq Y
    BY <1>2, <1>4, InSeqOwn
  <2> QED
    BY <2>1, SeqWider
<1> HIDE DEF kept, rows
<1>6. kept # <<>> <=> S # {}
  BY <1>4 DEF kept
<1>7. /\ DOMAIN kept = 1..Len(kept) /\ Len(kept) \in Nat
      /\ \A i \in DOMAIN kept : kept[i] \in Y /\ TrainOk(kept[i])
  BY <1>5, SeqIs DEF Y
<1>8. CASE durs = {}
  BY <1>1, <1>3, <1>5, <1>6, <1>8 DEF rows, Y
<1>9. CASE durs # {}
  <2>1. durs \in SUBSET Nat
    BY <1>7 DEF Durations, TrainOk
  <2>2. durs = {kept[i].dur : i \in DOMAIN kept} \ {None, 0}
    BY DEF Durations
  <2> DEFINE Q2 == Q
  <2> HIDE DEF durs
  <2>3. fastest \in durs /\ fastest \in Nat
    <3>1. \E m \in durs : \A n \in durs : m <= n
      BY <1>9, <2>1, Least
    <3> QED
      BY <2>1, <3>1
  <2>4. PICK i \in DOMAIN kept : kept[i].dur = fastest
    BY <2>2, <2>3
  <2> HIDE DEF fastest
  <2>5. 4 * kept[i].dur <= 5 * fastest
    BY <2>3, <2>4
  <2>6. Q \in SUBSET DOMAIN kept /\ Q # {}
    BY <2>5
  <2> HIDE DEF Q
  <2>7. Picked(kept, Q) \in Seq(Y) /\ (Picked(kept, Q) # <<>> <=> Q # {})
    BY <1>5, <2>6, KeptIs
  <2> QED
    BY <1>1, <1>9, <2>6, <2>7 DEF rows, Y
<1> QED
  BY <1>8, <1>9

-----------------------------------------------------------------------------
(* The trains of a page *)

\* The trains of a page: what is known of them, and that one with a seat that is offered
\* is among them.
LEMMA ParsedIs ==
    ASSUME NEW page \in TrainPages
    PROVE  LET trains == ParseTrains(page)
           IN  /\ trains \in Seq(ToSet(trains)) /\ \A t \in ToSet(trains) : TrainOk(t)
               /\ SellsAc(page) => \E t \in ToSet(trains) : AcClasses(t) # <<>>
<1> DEFINE table == Table(page)
           lines == Ids(page)
           K == {i \in DOMAIN lines : table[lines[i]].tag = "train"}
           ids == Picked(lines, K)
           rows == [i \in DOMAIN ids |-> TrainRow(table[ids[i]], table)]
           V == {i \in DOMAIN rows : \A j \in 1..(i - 1) : rows[j].no # rows[i].no}
           once == Picked(rows, V)
           keys == [i \in DOMAIN once |-> <<Flag(once[i].dep = None), OrZero(once[i].dep)>>]
           trains == ParseTrains(page)
           X == {TrainRow(node, table) : node \in {x \in Node : x.tag = "train"}}
<1>1. trains = SortedBy(once, keys)
  BY DEF ParseTrains, Keep, FirstOfEach, Sorted
<1>2. /\ lines \in Seq(ToSet(lines)) /\ DOMAIN table = ToSet(lines)
      /\ \A id \in DOMAIN table : table[id] \in Node
  BY TableIs
<1>3. SellsAc(page) <=> \E i \in DOMAIN lines :
         /\ table[lines[i]].tag = "train"
         /\ \A j \in 1..(i - 1) : table[lines[j]].tag = "train" =>
              table[lines[j]].no # table[lines[i]].no
         /\ \E c \in Offered(page, table[lines[i]].avail) : c.ac /\ c.fare # None /\ c.fare > 0
  BY DEF SellsAc
<1>4. \A node \in Node : \A c : node.tag = "train" /\ c \in Offered(page, node.avail)
         => c \in ToSet(Classes(node.avail, table))
  BY <1>2, OfferedIsRead, AnswersAssumption
<1> HIDE DEF table, lines, trains
<1>5. \A t \in X : TrainOk(t)
  <2> SUFFICES ASSUME NEW node \in Node, node.tag = "train" PROVE TrainOk(TrainRow(node, table))
    BY DEF X
  <2>1. node.avail \in Node /\ node.dur \in Nat \cup {None} /\ node.dep \in Figure
    BY AnswersAssumption
  <2> DEFINE avail == node.avail
             list == Resolve(avail, table, 1)
  <2>2. avail \in Node
    BY <2>1
  <2> HIDE DEF avail
  <2>3. /\ Classes(avail, table) \in Seq({c \in Node : c.tag = "class"})
        /\ list.node.tag = "list" =>
             \A i \in DOMAIN list.node.items :
                LET c == Resolve(list.node.items[i], table, list.depth + 1).node
                IN  c.tag = "class" => c \in ToSet(Classes(avail, table))
    BY <1>2, <2>2, ClassesAre
  <2>4. /\ TrainRow(node, table).dur = node.dur /\ TrainRow(node, table).dep = node.dep
        /\ TrainRow(node, table).classes = Classes(avail, table)
    BY DEF TrainRow, avail
  <2> QED
    BY <2>1, <2>3, <2>4 DEF TrainOk
<1>6. DOMAIN lines = 1..Len(lines) /\ Len(lines) \in Nat
  BY <1>2, LenProperties
<1>7. K \in SUBSET (1..Len(lines)) /\ K \in SUBSET DOMAIN lines
  BY <1>6
<1>8. \A i \in K : table[lines[i]] \in {x \in Node : x.tag = "train"}
  BY <1>2 DEF ToSet
<1> DEFINE n == Len(lines)
           k == Cardinality(K)
<1>9. PICK at \in [1..k -> K] :
        /\ k \in Nat /\ \A s : Picked(s, K) = [m \in 1..k |-> s[at[m]]]
        /\ \A i \in K : \E m \in 1..k : at[m] = i
        /\ \A l, m \in 1..k : l < m <=> at[l] < at[m]
  <2> HIDE DEF K
  <2> QED
    BY <1>6, <1>7, PickedIs
<1> HIDE DEF K
<1>10. ids = [m \in 1..k |-> lines[at[m]]]
  BY <1>9
<1> HIDE DEF ids, X
<1>11. /\ DOMAIN rows = 1..k
       /\ \A m \in 1..k : rows[m] = TrainRow(table[lines[at[m]]], table) /\ rows[m] \in X
  <2>1. DOMAIN rows = 1..k /\ \A m \in 1..k : rows[m] = TrainRow(table[lines[at[m]]], table)
    BY <1>10
  <2>2. \A m \in 1..k : at[m] \in K
    BY <1>9
  <2> QED
    BY <1>8, <2>1, <2>2 DEF X
<1>12. rows \in Seq(X)
  <2>1. rows \in [1..k -> X]
    BY <1>11, <1>10
  <2> HIDE DEF rows, k
  <2> QED
    BY <1>9, <2>1
<1> HIDE DEF rows
<1>13. once \in Seq(X) /\ ToSet(once) = {rows[i] : i \in V}
  <2>1. V \in SUBSET DOMAIN rows
    OBVIOUS
  <2> HIDE DEF V
  <2> QED
    BY <1>12, <2>1, KeptIs
<1> HIDE DEF once
<1>14. keys \in [DOMAIN once -> [1..2 -> Int]]
  <2> SUFFICES ASSUME NEW i \in DOMAIN once
               PROVE <<Flag(once[i].dep = None), OrZero(once[i].dep)>> \in [1..2 -> Int]
    OBVIOUS
  <2>1. once[i] \in X
    BY <1>13
  <2>2. once[i].dep \in Figure
    BY <1>5, <2>1 DEF TrainOk
  <2>3. Flag(once[i].dep = None) \in Int /\ OrZero(once[i].dep) \in Int
    BY <2>2 DEF Flag, OrZero, Figure
  <2> QED
    BY <2>3
<1>15. trains \in Seq(X) /\ ToSet(trains) = ToSet(once)
  <2> DEFINE two == 2
  <2>1. two \in Nat /\ keys \in [DOMAIN once -> [1..two -> Int]]
    BY <1>14
  <2> HIDE DEF two, keys
  <2>2. /\ SortedBy(once, keys) \in Seq(X) /\ ToSet(SortedBy(once, keys)) = ToSet(once)
        /\ DOMAIN SortedBy(once, keys) = DOMAIN once
    BY <1>13, <2>1, SortedIs
  <2> QED
    BY <1>1, <2>2
<1>16. trains \in Seq(ToSet(trains)) /\ \A t \in ToSet(trains) : TrainOk(t)
  BY <1>5, <1>15, InSeqOwn, SeqIs
<1>17. ASSUME SellsAc(page) PROVE \E t \in ToSet(trains) : AcClasses(t) # <<>>
  <2>1. PICK i \in DOMAIN lines :
         /\ table[lines[i]].tag = "train"
         /\ \A j \in 1..(i - 1) : table[lines[j]].tag = "train" =>
              table[lines[j]].no # table[lines[i]].no
         /\ \E c \in Offered(page, table[lines[i]].avail) : c.ac /\ c.fare # None /\ c.fare > 0
    BY <1>3, <1>17
  <2> DEFINE node == table[lines[i]]
             t == TrainRow(node, table)
  <2>2. i \in K /\ node \in Node /\ node.tag = "train"
    BY <1>2, <2>1 DEF K, ToSet
  <2>3. PICK m \in 1..k : at[m] = i
    BY <1>9, <2>2
  <2>4. rows[m] = t /\ t \in X
    BY <1>11, <2>3
  <2>5. m \in V
    <3>1. ASSUME NEW j \in 1..(m - 1) PROVE rows[j].no # rows[m].no
      <4>1. j \in 1..k /\ j < m /\ m \in Nat
        BY <1>9
      <4>2. at[j] < at[m] /\ at[j] \in K
        BY <1>9, <4>1
      <4>3. at[j] \in 1..(i - 1) /\ table[lines[at[j]]].tag = "train"
        BY <1>6, <1>7, <1>8, <2>3, <4>2
      <4>4. table[lines[at[j]]].no # node.no
        BY <2>1, <4>3
      <4>5. rows[j].no = table[lines[at[j]]].no /\ rows[m].no = node.no
        BY <1>11, <2>4, <4>1 DEF TrainRow
      <4> QED
        BY <4>4, <4>5
    <3> QED
      BY <1>11, <3>1
  <2>6. t \in ToSet(trains)
    BY <1>13, <1>15, <2>4, <2>5
  <2>7. t.classes = Classes(node.avail, table)
    BY DEF TrainRow
  <2>8. \E c \in ToSet(t.classes) : c.ac /\ c.fare # None /\ c.fare > 0
    BY <1>4, <2>1, <2>2, <2>7
  <2>9. TrainOk(t)
    BY <1>5, <2>4
  <2> HIDE DEF t
  <2>10. AcClasses(t) # <<>>
    BY <2>8, <2>9, AcIs
  <2> QED
    BY <2>6, <2>10
<1> QED
  BY <1>16, <1>17 DEF trains

\* A page that was not read sells nothing.
LEMMA NothingSold == ~SellsAc(<<>>)
<1>1. Ids(<<>>) = <<>>
  BY TableIs
<1> QED
  BY <1>1 DEF SellsAc

\* The rows that are made of trains with A/C: as many as there are.
LEMMA TrainRowsAre ==
    ASSUME NEW X, \A t \in X : TrainOk(t) /\ AcClasses(t) # <<>>, NEW trains \in Seq(X)
    PROVE  TrainRows(trains) \in Seq(X) /\ (trains # <<>> => TrainRows(trains) # <<>>)
<1> DEFINE S == {i \in DOMAIN trains : AcClasses(trains[i]) # <<>>}
           priced == Picked(trains, S)
           keys == [i \in DOMAIN priced |-> <<Flag(~priced[i].vb), Cheapest(priced[i])>>]
           rows == TrainRows(trains)
<1>1. rows = SortedBy(priced, keys)
  BY DEF TrainRows, Keep, Sorted
<1> HIDE DEF rows
<1>2. S = DOMAIN trains
  <2>1. \A i \in DOMAIN trains : trains[i] \in X
    OBVIOUS
  <2> QED
    BY <2>1
<1>3. priced \in Seq(X) /\ (priced # <<>> <=> S # {})
  <2>1. S \in SUBSET DOMAIN trains
    OBVIOUS
  <2> HIDE DEF S
  <2>2. /\ Picked(trains, S) \in Seq(X) /\ ToSet(Picked(trains, S)) = {trains[i] : i \in S}
        /\ (Picked(trains, S) # <<>> <=> S # {})
    BY <2>1, KeptIs
  <2> QED
    BY <2>2
<1> HIDE DEF S, priced
<1>4. keys \in [DOMAIN priced -> [1..2 -> Int]]
  <2> SUFFICES ASSUME NEW i \in DOMAIN priced
               PROVE <<Flag(~priced[i].vb), Cheapest(priced[i])>> \in [1..2 -> Int]
    OBVIOUS
  <2>1. priced[i] \in X
    BY <1>3
  <2>2. TrainOk(priced[i]) /\ AcClasses(priced[i]) # <<>>
    BY <2>1
  <2>3. Cheapest(priced[i]) \in Int
    BY <2>2, AcIs
  <2>4. Flag(~priced[i].vb) \in Int
    BY DEF Flag
  <2> QED
    BY <2>3, <2>4
<1>5. rows \in Seq(X) /\ DOMAIN rows = DOMAIN priced
  <2> DEFINE two == 2
  <2>1. two \in Nat /\ keys \in [DOMAIN priced -> [1..two -> Int]]
    BY <1>4
  <2> HIDE DEF two, keys
  <2>2. /\ SortedBy(priced, keys) \in Seq(X) /\ ToSet(SortedBy(priced, keys)) = ToSet(priced)
        /\ DOMAIN SortedBy(priced, keys) = DOMAIN priced
    BY <1>3, <2>1, SortedIs
  <2> QED
    BY <1>1, <2>2
<1>6. trains # <<>> => DOMAIN trains # {}
  <2> SUFFICES ASSUME trains # <<>> PROVE 1 \in DOMAIN trains
    OBVIOUS
  <2> DEFINE l == Len(trains)
  <2>1. trains \in Seq(X)
    OBVIOUS
  <2>2. l \in Nat /\ l # 0 /\ DOMAIN trains = 1..l
    BY <2>1, LenProperties, EmptySeq
  <2> HIDE DEF l
  <2>3. 1 \in 1..l
    BY <2>2
  <2> QED
    BY <2>2, <2>3
<1>7. priced # <<>> => DOMAIN priced # {}
  <2>1. DOMAIN priced = 1..Len(priced) /\ (priced # <<>> => Len(priced) \in Nat \ {0})
    BY <1>3, LenProperties, EmptySeq
  <2> SUFFICES ASSUME priced # <<>> PROVE 1 \in DOMAIN priced
    OBVIOUS
  <2> DEFINE l == Len(priced)
  <2> HIDE DEF l
  <2>2. DOMAIN priced = 1..l /\ l \in Nat \ {0}
    BY <2>1 DEF l
  <2>3. 1 \in 1..l
    BY <2>2
  <2> QED
    BY <2>2, <2>3
<1>8. rows = <<>> => DOMAIN rows = {}
  OBVIOUS
<1> QED
  BY <1>2, <1>3, <1>5, <1>6, <1>7, <1>8 DEF rows

-----------------------------------------------------------------------------
(* The rows of a leg: its invariant, and those of a stream *)

RowOk(r) ==
    /\ Fields \subseteq DOMAIN r
    /\ r.mode \in Mode /\ r.total \in Figure /\ r.dur \in Figure
    /\ r.indicative \in BOOLEAN /\ r.quoted \in Int

LegTypes ==
    /\ pc \in {"ask", "refused", "flight", "train", "cab", "compare", "done"}
    /\ wanted \subseteq Mode /\ day \in Int /\ adults \in Nat /\ route \in Routes
    /\ options \in Seq(ToSet(options)) /\ \A r \in ToSet(options) : RowOk(r)
    /\ read = [stream |-> read.stream, page |-> read.page]
    /\ read.stream \in Streams \cup {<<>>} /\ read.page \in TrainPages \cup {<<>>}

\* The modes that had their turn.
Past(at) ==
    CASE at = "train" -> {"flight"}
      [] at = "cab" -> {"flight", "train"}
      [] at \in {"compare", "done"} -> Mode
      [] OTHER -> {}

Answered(mode) ==
    \/ \E r \in Rows : r.mode = mode
    \/ \E note \in unavailable : note[1] = mode
    \/ mode = "train" /\ mode \in calls_made /\ ~SellsAc(read.page)

Begun ==
    /\ pc \in {"ask", "refused", "flight"} => options = <<>>
    /\ pc \in {"ask", "refused", "flight", "train"} => read.page = <<>>

LegInv ==
    /\ LegTypes /\ Begun
    /\ \A mode \in wanted \cap Past(pc) : Answered(mode)
    /\ OtherDayIsMarked /\ OfferedReachesTraveller /\ FlownAsAsked
    /\ DominatedIsFact /\ CheapestComesFirst

\* A row that is made of a fare and a duration has sound figures (_option).
LEMMA OptionIs ==
    ASSUME day \in Int, adults \in Nat, NEW mode \in Mode, NEW label, NEW fare \in Figure, NEW unit,
           NEW dur \in Figure
    PROVE  RowOk(Option(mode, label, fare, unit, dur))
<1> DEFINE total == PartyTotal(fare, unit, adults)
<1>1. total \in Figure
  <2>1. CASE fare = None
    BY <2>1 DEF PartyTotal, Figure
  <2>2. CASE fare # None
    <3> DEFINE times == IF unit = "per vehicle" THEN 1 ELSE Larger(adults, 1)
    <3>1. times \in Int /\ fare \in Int
      BY <2>2 DEF Larger, Figure
    <3>2. total = fare * times
      BY <2>2 DEF PartyTotal
    <3> HIDE DEF times, total
    <3> QED
      BY <3>1, <3>2 DEF Figure
  <2> QED
    BY <2>1, <2>2
<1> HIDE DEF total
<1>2. Option(mode, label, fare, unit, dur) =
        [mode |-> mode, label |-> label, total |-> total, dur |-> dur, indicative |-> FALSE,
         quoted |-> day]
  BY DEF Option, total
<1> QED
  BY <1>1, <1>2 DEF RowOk, Fields, total

\* Rows that are added to those of the modes before.
Fresh(rows, mode) ==
    /\ rows \in Seq(ToSet(rows))
    /\ \A r \in ToSet(rows) : RowOk(r) /\ r.mode = mode

\* Cutting a list to the limit leaves rows of it, and one at least if there was one.
LEMMA FirstIs ==
    ASSUME NEW X, NEW s \in Seq(X)
    PROVE  /\ First(s) \in Seq(X) /\ ToSet(First(s)) \subseteq ToSet(s)
           /\ s # <<>> => First(s) # <<>>
  BY IntercityAssumption, FrontIs DEF First

\* A sequence with something at every place of another.
LEMMA MapIs ==
    ASSUME NEW X, NEW s \in Seq(X), NEW t, DOMAIN t = DOMAIN s, t = [i \in DOMAIN s |-> t[i]]
    PROVE  /\ t \in Seq(ToSet(t)) /\ ToSet(t) = {t[i] : i \in DOMAIN s}
           /\ s # <<>> => t # <<>> /\ \E r \in ToSet(t) : TRUE
<1> DEFINE T == ToSet(t)
           n == Len(s)
<1>1. n \in Nat /\ DOMAIN s = 1..n /\ (s # <<>> => n \in Nat \ {0})
  BY LenProperties, EmptySeq
<1>2. T = {t[i] : i \in DOMAIN s}
  BY DEF ToSet
<1> HIDE DEF T, n
<1>3. \A i \in 1..n : t[i] \in T
  BY <1>1, <1>2
<1>4. t \in [1..n -> T]
  BY <1>1, <1>3
<1>5. t \in Seq(T)
  BY <1>1, <1>4
<1>6. ASSUME s # <<>> PROVE t # <<>> /\ t[1] \in T
  <2>1. 1 \in DOMAIN t
    BY <1>1, <1>6
  <2> QED
    BY <1>1, <1>3, <2>1
<1> QED
  BY <1>2, <1>5, <1>6 DEF T

Into(its) == Keep(its, LAMBDA f : ~f.alt)

FlightRows(its) == Flown(First(Sorted(its, LAMBDA i : <<its[i].fare>>)))

\* The flights of a stream that are put among the rows.
LEMMA FlownAre ==
    ASSUME day \in Int, adults \in Nat, NEW stream \in Streams, None \notin {Origin, Dest}
    PROVE  LET all == ParseStream(stream, Origin, Dest)
               into == Into(all)
               rows == FlightRows(into)
           IN  /\ Fresh(rows, "flight")
               /\ \A r \in ToSet(rows) :
                    /\ r.indicative = FALSE /\ r.quoted = day
                    /\ \E doc \in ToSet(DecodeStream(stream)) : \E card \in ToSet(Cards(doc)) :
                         LET legs == Legs(card, doc.journeys)
                         IN  /\ card.no = r.label
                             /\ PartyTotal(card.fare, "per adult", adults) = r.total
                             /\ legs # <<>> => /\ legs[1].from \in {None, Origin}
                                               /\ legs[Len(legs)].to \in {None, Dest}
               /\ all # <<>> /\ ~(Len(into) < Len(all)) => \E r \in ToSet(rows) : TRUE
<1> DEFINE all == ParseStream(stream, Origin, Dest)
           S == {i \in DOMAIN all : ~all[i].alt}
           into == Picked(all, S)
           keys == [i \in DOMAIN into |-> <<into[i].fare>>]
           sorted == SortedBy(into, keys)
           its == First(sorted)
           rows == Flown(its)
           Good(it, doc, card) ==
               /\ doc \in ToSet(DecodeStream(stream)) /\ card \in ToSet(Cards(doc))
               /\ card.fare # None /\ it = Itinerary(card, doc.journeys, Origin, Dest)
           X == {it \in ToSet(all) : ~it.alt}
<1>1. all \in Seq(ToSet(all)) /\ \A it \in ToSet(all) : \E doc, card : Good(it, doc, card)
  BY StreamIs
<1>2. into = Into(all) /\ rows = FlightRows(into)
  BY DEF Into, FlightRows, Keep, Sorted
<1> HIDE DEF all
<1>3. into \in Seq(X)
  <2>1. S \in SUBSET DOMAIN all /\ \A i \in S : all[i] \in X
    BY DEF ToSet
  <2> HIDE DEF S, X
  <2>2. /\ Picked(all, S) \in Seq(ToSet(all)) /\ ToSet(Picked(all, S)) = {all[i] : i \in S}
        /\ (Picked(all, S) # <<>> <=> S # {})
    BY <1>1, <2>1, KeptIs
  <2>3. into \in Seq(ToSet(into)) /\ ToSet(into) \subseteq X
    BY <2>1, <2>2, InSeqOwn
  <2> QED
    BY <2>3, SeqWider
<1> HIDE DEF into
<1>4. ASSUME NEW it \in X
      PROVE  /\ it.fare \in Int /\ it.dur \in Figure
             /\ \E doc \in ToSet(DecodeStream(stream)) : \E card \in ToSet(Cards(doc)) :
                  LET legs == Legs(card, doc.journeys)
                  IN  /\ card.no = it.no /\ card.fare = it.fare
                      /\ legs # <<>> => /\ legs[1].from \in {None, Origin}
                                        /\ legs[Len(legs)].to \in {None, Dest}
  <2>1. PICK doc, card : Good(it, doc, card)
    BY <1>1
  <2> DEFINE origin == Origin
             dest == Dest
             i0 == Itinerary(card, doc.journeys, origin, dest)
             legs == Legs(card, doc.journeys)
  <2>2. /\ i0.fare = card.fare /\ i0.fare \in Int /\ i0.no = card.no /\ i0.dur \in Figure
        /\ ~i0.alt /\ None \notin {origin, dest} /\ legs # <<>> =>
             legs[1].from \in {None, origin} /\ legs[Len(legs)].to \in {None, dest}
    <3> HIDE DEF origin, dest
    <3> QED
      BY <2>1, ItineraryIs
  <2> HIDE DEF legs
  <2>3. it = i0 /\ ~it.alt
    BY <2>1
  <2> HIDE DEF i0
  <2>4. legs # <<>> => legs[1].from \in {None, Origin} /\ legs[Len(legs)].to \in {None, Dest}
    BY <2>2, <2>3
  <2> QED
    BY <2>1, <2>2, <2>3, <2>4 DEF legs
<1> HIDE DEF X, Good
<1>5. keys \in [DOMAIN into -> [1..1 -> Int]]
  <2> SUFFICES ASSUME NEW i \in DOMAIN into PROVE <<into[i].fare>> \in [1..1 -> Int]
    OBVIOUS
  <2>1. into[i].fare \in Int
    BY <1>3, <1>4
  <2> QED
    BY <2>1
<1>6. sorted \in Seq(X) /\ DOMAIN sorted = DOMAIN into
  <2> DEFINE one == 1
  <2>1. one \in Nat /\ keys \in [DOMAIN into -> [1..one -> Int]]
    BY <1>5
  <2> HIDE DEF one, keys
  <2>2. /\ SortedBy(into, keys) \in Seq(X) /\ ToSet(SortedBy(into, keys)) = ToSet(into)
        /\ DOMAIN SortedBy(into, keys) = DOMAIN into
    BY <1>3, <2>1, SortedIs
  <2> QED
    BY <2>2
<1> HIDE DEF sorted
<1>7. its \in Seq(X) /\ (sorted # <<>> => its # <<>>)
  BY <1>6, FirstIs
<1> HIDE DEF its
<1>8. rows = [i \in DOMAIN its |-> Option("flight", its[i].no, its[i].fare, "per adult", its[i].dur)]
  BY DEF Flown
<1>9. /\ rows \in Seq(ToSet(rows)) /\ ToSet(rows) = {rows[i] : i \in DOMAIN its}
      /\ its # <<>> => rows # <<>> /\ \E r \in ToSet(rows) : TRUE
  <2>1. DOMAIN rows = DOMAIN its /\ rows = [i \in DOMAIN its |-> rows[i]]
    BY <1>8
  <2> HIDE DEF rows
  <2> QED
    BY <1>7, <2>1, MapIs
<1> HIDE DEF rows
<1>10. ASSUME NEW r \in ToSet(rows)
       PROVE  /\ RowOk(r) /\ r.mode = "flight" /\ r.indicative = FALSE /\ r.quoted = day
              /\ \E it \in X : r.label = it.no /\ r.total = PartyTotal(it.fare, "per adult", adults)
  <2>1. PICK i \in DOMAIN its : r = rows[i]
    BY <1>9
  <2> DEFINE it == its[i]
             label == it.no
             fare == it.fare
             dur == it.dur
             mode == "flight"
             unit == "per adult"
  <2>2. it \in X
    BY <1>7
  <2>3. fare \in Figure /\ dur \in Figure /\ mode \in Mode
    BY <1>4, <2>2 DEF Figure, Mode
  <2>4. r = Option(mode, label, fare, unit, dur)
    BY <1>8, <2>1
  <2> HIDE DEF label, fare, dur, mode, unit
  <2> DEFINE o == Option(mode, label, fare, unit, dur)
  <2>5. RowOk(o)
    BY <2>3, OptionIs
  <2>6. /\ o.mode = mode /\ o.label = label /\ o.total = PartyTotal(fare, unit, adults)
        /\ o.indicative = FALSE /\ o.quoted = day
    BY DEF Option
  <2> HIDE DEF o, it
  <2> QED
    BY <2>2, <2>4, <2>5, <2>6 DEF o, mode, label, fare, unit
<1>11. ASSUME all # <<>>, ~(Len(into) < Len(all)) PROVE \E r \in ToSet(rows) : TRUE
  <2>1. Len(all) \in Nat \ {0} /\ Len(into) \in Nat
    BY <1>1, <1>3, <1>11, EmptySeq, LenProperties
  <2>2. DOMAIN into = 1..Len(into) /\ Len(into) # 0
    BY <1>3, <1>11, <2>1, LenProperties
  <2>3. DOMAIN sorted # {}
    <3> DEFINE l == Len(into)
    <3> HIDE DEF l
    <3>1. l \in Nat /\ l # 0 /\ DOMAIN sorted = 1..l
      BY <1>6, <2>1, <2>2 DEF l
    <3>2. 1 \in 1..l
      BY <3>1
    <3> QED
      BY <3>1, <3>2
  <2>4. sorted # <<>>
    BY <2>3
  <2> QED
    BY <1>7, <1>9, <2>4
<1>12. Fresh(rows, "flight")
  BY <1>9, <1>10 DEF Fresh
<1>13. ASSUME NEW r \in ToSet(rows)
       PROVE  \E doc \in ToSet(DecodeStream(stream)) : \E card \in ToSet(Cards(doc)) :
                         LET legs == Legs(card, doc.journeys)
                         IN  /\ card.no = r.label
                             /\ PartyTotal(card.fare, "per adult", adults) = r.total
                             /\ legs # <<>> => /\ legs[1].from \in {None, Origin}
                                               /\ legs[Len(legs)].to \in {None, Dest}
  <2>1. PICK it \in X : r.label = it.no /\ r.total = PartyTotal(it.fare, "per adult", adults)
    BY <1>10
  <2>2. PICK doc \in ToSet(DecodeStream(stream)) : \E card \in ToSet(Cards(doc)) :
                  LET legs == Legs(card, doc.journeys)
                  IN  /\ card.no = it.no /\ card.fare = it.fare
                      /\ legs # <<>> => /\ legs[1].from \in {None, Origin}
                                        /\ legs[Len(legs)].to \in {None, Dest}
    BY <1>4
  <2> QED
    BY <2>1, <2>2
<1> DEFINE Flies(r) == \E doc \in ToSet(DecodeStream(stream)) : \E card \in ToSet(Cards(doc)) :
                         LET legs == Legs(card, doc.journeys)
                         IN  /\ card.no = r.label
                             /\ PartyTotal(card.fare, "per adult", adults) = r.total
                             /\ legs # <<>> => /\ legs[1].from \in {None, Origin}
                                               /\ legs[Len(legs)].to \in {None, Dest}
<1>14. \A r \in ToSet(rows) : Flies(r)
  BY <1>13
<1> HIDE DEF Flies
<1>15. /\ Fresh(FlightRows(Into(all)), "flight")
       /\ \A r \in ToSet(FlightRows(Into(all))) :
             r.indicative = FALSE /\ r.quoted = day /\ Flies(r)
       /\ all # <<>> /\ ~(Len(Into(all)) < Len(all)) => \E r \in ToSet(FlightRows(Into(all))) : TRUE
  BY <1>2, <1>10, <1>11, <1>12, <1>14
<1> QED
  BY <1>15 DEF Flies, all

-----------------------------------------------------------------------------
(* The rows of a train page and of a cab listing *)

\* The trains of a page that are put among the rows.
LEMMA TrainOptionsAre ==
    ASSUME day \in Int, adults \in Nat, NEW page \in TrainPages
    PROVE  LET rows == TrainOptions(ParseTrains(page))
           IN  /\ Fresh(rows, "train")
               /\ \A r \in ToSet(rows) : r.indicative = FALSE /\ r.quoted = day
               /\ SellsAc(page) => \E r \in ToSet(rows) : TRUE
<1> DEFINE trains == ParseTrains(page)
           X == {t \in ToSet(trains) : AcClasses(t) # <<>>}
           kept == FilterTrains(trains, TRUE, TRUE)
           listed == TrainRows(kept)
           its == First(listed)
           rows == TrainOptions(trains)
<1>1. /\ trains \in Seq(ToSet(trains)) /\ \A t \in ToSet(trains) : TrainOk(t)
      /\ SellsAc(page) => \E t \in ToSet(trains) : AcClasses(t) # <<>>
  BY ParsedIs
<1>2. rows = [i \in DOMAIN its |->
                Option("train", its[i].no, Cheapest(its[i]), "per passenger", its[i].dur)]
  BY DEF TrainOptions
<1> HIDE DEF trains, rows
<1>3. kept \in Seq(X) /\ ((\E t \in ToSet(trains) : AcClasses(t) # <<>>) => kept # <<>>)
  <2> DEFINE Y == ToSet(trains)
  <2>1. trains \in Seq(Y) /\ \A t \in Y : TrainOk(t)
    BY <1>1
  <2> HIDE DEF Y
  <2>2. /\ FilterTrains(trains, TRUE, TRUE) \in Seq({t \in Y : AcClasses(t) # <<>>})
        /\ (\E t \in ToSet(trains) : AcClasses(t) # <<>>) => FilterTrains(trains, TRUE, TRUE) # <<>>
    BY <2>1, FilteredIs
  <2> QED
    BY <2>2 DEF Y
<1>4. \A t \in X : TrainOk(t) /\ AcClasses(t) # <<>>
  BY <1>1
<1> HIDE DEF kept, X
<1>5. listed \in Seq(X) /\ (kept # <<>> => listed # <<>>)
  BY <1>3, <1>4, TrainRowsAre
<1> HIDE DEF listed
<1>6. its \in Seq(X) /\ (listed # <<>> => its # <<>>)
  BY <1>5, FirstIs
<1> HIDE DEF its
<1>7. /\ rows \in Seq(ToSet(rows)) /\ ToSet(rows) = {rows[i] : i \in DOMAIN its}
      /\ its # <<>> => rows # <<>> /\ \E r \in ToSet(rows) : TRUE
  <2>1. DOMAIN rows = DOMAIN its /\ rows = [i \in DOMAIN its |-> rows[i]]
    BY <1>2
  <2> QED
    BY <1>6, <2>1, MapIs
<1>8. ASSUME NEW r \in ToSet(rows)
      PROVE  RowOk(r) /\ r.mode = "train" /\ r.indicative = FALSE /\ r.quoted = day
  <2>1. PICK i \in DOMAIN its : r = rows[i]
    BY <1>7
  <2> DEFINE it == its[i]
             label == it.no
             fare == Cheapest(it)
             dur == it.dur
             mode == "train"
             unit == "per passenger"
  <2>2. it \in X
    BY <1>6
  <2>3. TrainOk(it) /\ AcClasses(it) # <<>>
    BY <1>4, <2>2
  <2>4. r = Option(mode, label, fare, unit, dur)
    BY <1>2, <2>1
  <2> HIDE DEF it
  <2>5. fare \in Figure /\ dur \in Figure /\ mode \in Mode
    BY <2>3, AcIs DEF Figure, Mode, TrainOk
  <2> HIDE DEF label, fare, dur, mode, unit
  <2> DEFINE o == Option(mode, label, fare, unit, dur)
  <2>6. RowOk(o)
    BY <2>5, OptionIs
  <2>7. o.mode = mode /\ o.indicative = FALSE /\ o.quoted = day
    BY DEF Option
  <2> HIDE DEF o
  <2> QED
    BY <2>4, <2>6, <2>7 DEF o, mode
<1>9. Fresh(rows, "train")
  BY <1>7, <1>8 DEF Fresh
<1>10. SellsAc(page) => \E r \in ToSet(rows) : TRUE
  BY <1>1, <1>3, <1>5, <1>6, <1>7
<1> QED
  BY <1>8, <1>9, <1>10 DEF rows, trains

\* The same rows for another day.
LEMMA IndicativeAre ==
    ASSUME day \in Int, adults \in Nat, NEW page \in TrainPages, NEW on \in Int
    PROVE  LET rows == IndicativeOptions(ParseTrains(page), on)
           IN  /\ Fresh(rows, "train")
               /\ \A r \in ToSet(rows) : r.indicative = TRUE /\ r.quoted = on
               /\ SellsAc(page) => \E r \in ToSet(rows) : TRUE
<1> DEFINE trains == ParseTrains(page)
           its == TrainOptions(trains)
           rows == IndicativeOptions(trains, on)
<1>1. /\ Fresh(its, "train") /\ (SellsAc(page) => \E r \in ToSet(its) : TRUE)
  BY TrainOptionsAre
<1>2. rows = [i \in DOMAIN its |-> [its[i] EXCEPT !.indicative = TRUE, !.quoted = on]]
  BY DEF IndicativeOptions
<1> HIDE DEF its, rows
<1>3. its \in Seq(ToSet(its)) /\ \A i \in DOMAIN its : RowOk(its[i]) /\ its[i].mode = "train"
  BY <1>1 DEF Fresh, ToSet
<1>4. (\E r \in ToSet(its) : TRUE) => its # <<>>
  BY DEF ToSet
<1>5. /\ rows \in Seq(ToSet(rows)) /\ ToSet(rows) = {rows[i] : i \in DOMAIN its}
      /\ its # <<>> => rows # <<>> /\ \E r \in ToSet(rows) : TRUE
  <2>1. DOMAIN rows = DOMAIN its /\ rows = [i \in DOMAIN its |-> rows[i]]
    BY <1>2
  <2> QED
    BY <1>3, <2>1, MapIs
<1>6. ASSUME NEW r \in ToSet(rows)
      PROVE  RowOk(r) /\ r.mode = "train" /\ r.indicative = TRUE /\ r.quoted = on
  <2>1. PICK i \in DOMAIN its : r = rows[i]
    BY <1>5
  <2> DEFINE o == its[i]
  <2>2. r = [o EXCEPT !.indicative = TRUE, !.quoted = on]
    BY <1>2, <2>1
  <2>3. RowOk(o) /\ o.mode = "train"
    BY <1>3
  <2> HIDE DEF o
  <2>4. Fields \subseteq DOMAIN o
    BY <2>3 DEF RowOk
  <2>5. /\ DOMAIN r = DOMAIN o /\ r.mode = o.mode /\ r.total = o.total /\ r.dur = o.dur
        /\ r.indicative = TRUE /\ r.quoted = on
    BY <2>2, <2>4 DEF Fields
  <2> QED
    BY <2>3, <2>5 DEF RowOk
<1> QED
  BY <1>1, <1>4, <1>5, <1>6 DEF Fresh, rows, trains

\* The cabs of a page that has any are put among the rows.
LEMMA CabOptionsAre ==
    ASSUME day \in Int, adults \in Nat, NEW page \in CabPages, page.cards # <<>>
    PROVE  LET rows == CabOptions(page)
           IN  /\ Fresh(rows, "cab")
               /\ \A r \in ToSet(rows) : r.indicative = FALSE /\ r.quoted = day
               /\ \E r \in ToSet(rows) : TRUE
<1> DEFINE rated(c) == /\ page.km \notin {None, 0} /\ ~IsPackageBucket(page.km, page.halves)
                       /\ c.fare # None
           Car(c) == [category |-> c.category, fare |-> c.fare, rated |-> rated(c)]
           cabs == [i \in DOMAIN page.cards |-> Car(page.cards[i])]
           X == {c \in ToSet(cabs) : c.fare \in Figure}
           keys == [i \in DOMAIN cabs |-> <<Flag(cabs[i].fare = None), OrZero(cabs[i].fare)>>]
           sorted == SortedBy(cabs, keys)
           S == {i \in DOMAIN sorted : \A j \in 1..(i - 1) : sorted[j].category # sorted[i].category}
           its == First(Picked(sorted, S))
           rows == CabOptions(page)
<1>1. /\ page.cards \in Seq(ToSet(page.cards)) /\ page.halves \in Figure
      /\ \A card \in ToSet(page.cards) : card.fare \in Figure
  BY AnswersAssumption
<1>2. rows = [i \in DOMAIN its |-> Option("cab", its[i].category, its[i].fare, "per vehicle",
                                         CabMinutes(page.halves))]
  <2>1. ParseCabs(page).cabs = sorted
    BY DEF ParseCabs, Sorted
  <2> HIDE DEF sorted
  <2> QED
    BY <2>1 DEF CabOptions, PerCategory, FirstOfEach
<1> HIDE DEF rows
<1> DEFINE n == Len(page.cards)
<1>3. n \in Nat \ {0} /\ DOMAIN page.cards = 1..n
  BY <1>1, LenProperties, EmptySeq
<1>4. DOMAIN cabs = 1..n /\ \A i \in 1..n : cabs[i].fare = page.cards[i].fare
  BY <1>3
<1>5. \A i \in 1..n : cabs[i].fare \in Figure
  BY <1>1, <1>3, <1>4 DEF ToSet
<1>6. cabs \in Seq(X)
  <2>1. \A i \in 1..n : cabs[i] \in X
    BY <1>4, <1>5 DEF ToSet
  <2>2. cabs = [i \in 1..n |-> cabs[i]]
    BY <1>3
  <2> HIDE DEF cabs, X, n
  <2> QED
    BY <1>3, <2>1, <2>2
<1> HIDE DEF cabs, n
<1>7. keys \in [DOMAIN cabs -> [1..2 -> Int]]
  <2> SUFFICES ASSUME NEW i \in DOMAIN cabs
               PROVE <<Flag(cabs[i].fare = None), OrZero(cabs[i].fare)>> \in [1..2 -> Int]
    OBVIOUS
  <2>1. cabs[i].fare \in Figure
    BY <1>4, <1>5
  <2>2. Flag(cabs[i].fare = None) \in Int /\ OrZero(cabs[i].fare) \in Int
    BY <2>1 DEF Flag, OrZero, Figure
  <2> QED
    BY <2>2
<1>8. sorted \in Seq(X) /\ DOMAIN sorted = 1..n
  <2> DEFINE two == 2
  <2>1. two \in Nat /\ keys \in [DOMAIN cabs -> [1..two -> Int]]
    BY <1>7
  <2> HIDE DEF two, keys, X
  <2>2. /\ SortedBy(cabs, keys) \in Seq(X) /\ ToSet(SortedBy(cabs, keys)) = ToSet(cabs)
        /\ DOMAIN SortedBy(cabs, keys) = DOMAIN cabs
    BY <1>6, <2>1, SortedIs
  <2> QED
    BY <1>4, <2>2
<1> HIDE DEF sorted, X
<1>9. S \in SUBSET DOMAIN sorted /\ 1 \in S
  BY <1>3, <1>8
<1> HIDE DEF S
<1>10. Picked(sorted, S) \in Seq(X) /\ (Picked(sorted, S) # <<>> <=> S # {})
  <2>1. /\ Picked(sorted, S) \in Seq(X) /\ ToSet(Picked(sorted, S)) = {sorted[i] : i \in S}
        /\ (Picked(sorted, S) # <<>> <=> S # {})
    BY <1>8, <1>9, KeptIs
  <2> QED
    BY <2>1
<1>11. its \in Seq(X) /\ its # <<>>
  <2> DEFINE picked == Picked(sorted, S)
  <2>1. picked \in Seq(X) /\ picked # <<>>
    BY <1>9, <1>10
  <2> HIDE DEF picked
  <2>2. First(picked) \in Seq(X) /\ First(picked) # <<>>
    BY <2>1, FirstIs
  <2> QED
    BY <2>2 DEF picked
<1> HIDE DEF its
<1>12. /\ rows \in Seq(ToSet(rows)) /\ ToSet(rows) = {rows[i] : i \in DOMAIN its}
       /\ its # <<>> => rows # <<>> /\ \E r \in ToSet(rows) : TRUE
  <2>1. DOMAIN rows = DOMAIN its /\ rows = [i \in DOMAIN its |-> rows[i]]
    BY <1>2
  <2> QED
    BY <1>11, <2>1, MapIs
<1>13. CabMinutes(page.halves) \in Figure
  BY <1>1 DEF CabMinutes, Figure
<1>14. ASSUME NEW r \in ToSet(rows)
       PROVE  RowOk(r) /\ r.mode = "cab" /\ r.indicative = FALSE /\ r.quoted = day
  <2>1. PICK i \in DOMAIN its : r = rows[i]
    BY <1>12
  <2> DEFINE it == its[i]
             label == it.category
             fare == it.fare
             dur == CabMinutes(page.halves)
             mode == "cab"
             unit == "per vehicle"
  <2>2. it \in X
    BY <1>11
  <2>3. r = Option(mode, label, fare, unit, dur)
    BY <1>2, <2>1
  <2> HIDE DEF it
  <2>4. fare \in Figure /\ dur \in Figure /\ mode \in Mode
    BY <1>13, <2>2 DEF Mode, X
  <2> HIDE DEF label, fare, dur, mode, unit
  <2> DEFINE o == Option(mode, label, fare, unit, dur)
  <2>5. RowOk(o)
    BY <2>4, OptionIs
  <2>6. o.mode = mode /\ o.indicative = FALSE /\ o.quoted = day
    BY DEF Option
  <2> HIDE DEF o
  <2> QED
    BY <2>3, <2>5, <2>6 DEF o, mode
<1> QED
  BY <1>11, <1>12, <1>14 DEF Fresh, rows

\* The day quoted in place of one that cannot be booked can be, on the same weekday.
LEMMA FurthestIs ==
    ASSUME NEW on \in Int, ~InWindow(on, ThisDay), FurthestBookable(on, ThisDay) # None
    PROVE  LET other == FurthestBookable(on, ThisDay)
           IN  /\ other \in Int /\ other # on /\ InWindow(other, ThisDay)
               /\ (on - other) % 7 = 0
<1> DEFINE boundary == ThisDay + Arp
           back == (boundary - on) % 7
           other == FurthestBookable(on, ThisDay)
<1>1. Arp \in Nat /\ Arp >= 6 /\ ThisDay \in Int /\ boundary \in Int
  BY IntercityAssumption
<1>2. back \in 0..6 /\ \E q \in Int : boundary - on = 7 * q + back
  <2> DEFINE d == boundary - on
  <2>1. d \in Int
    BY <1>1
  <2> HIDE DEF d
  <2>2. d = 7 * (d \div 7) + (d % 7) /\ d % 7 \in 0..6 /\ d \div 7 \in Int
    BY <2>1
  <2> QED
    BY <2>2 DEF d
<1>3. on > boundary
  BY <1>1 DEF FurthestBookable
<1> HIDE DEF boundary, back
<1>4. other = boundary - back
  BY <1>1, <1>2, <1>3 DEF FurthestBookable, boundary, back
<1>5. other \in Int /\ other # on /\ other - ThisDay \in 0..Arp
  BY <1>1, <1>2, <1>3, <1>4 DEF boundary
<1>6. (on - other) % 7 = 0
  <2>1. PICK q \in Int : boundary - on = 7 * q + back
    BY <1>2
  <2>2. on - other = 7 * (-q)
    BY <1>1, <1>2, <1>4, <2>1
  <2> DEFINE p == -q
  <2>3. p \in Int /\ (7 * p) % 7 = 0
    BY <2>1
  <2> QED
    BY <2>2, <2>3
<1> QED
  BY <1>5, <1>6 DEF InWindow

-----------------------------------------------------------------------------
(* What a row must be *)

\* What the properties say of one row.
DayIs(r, on, notes) ==
    /\ r.indicative <=> r.quoted # on
    /\ r.indicative => /\ <<"train", "not_in_window">> \in notes
                       /\ InWindow(r.quoted, ThisDay) /\ (on - r.quoted) % 7 = 0

FliesAs(r, stream, origin, dest, party) ==
    \E doc \in ToSet(DecodeStream(stream)) : \E card \in ToSet(Cards(doc)) :
        LET legs == Legs(card, doc.journeys)
        IN  /\ card.no = r.label /\ PartyTotal(card.fare, "per adult", party) = r.total
            /\ legs # <<>> => /\ legs[1].from \in {None, origin}
                              /\ legs[Len(legs)].to \in {None, dest}

\* The properties, said of the set of rows instead of their places.
LEMMA RowsAre ==
    /\ Rows = ToSet(options)
    /\ OtherDayIsMarked <=> \A r \in Rows : DayIs(r, day, unavailable)
    /\ FlownAsAsked <=> \A r \in Rows : r.mode = "flight" =>
                            FliesAs(r, read.stream, Origin, Dest, adults)
<1>1. Rows = ToSet(options)
  BY DEF Rows, ToSet
<1>2. OtherDayIsMarked <=> \A r \in Rows : DayIs(r, day, unavailable)
  BY DEF OtherDayIsMarked, DayIs
<1>3. FlownAsAsked <=> \A r \in Rows : r.mode = "flight" =>
                            FliesAs(r, read.stream, Origin, Dest, adults)
  BY DEF FlownAsAsked, FliesAs, Cards
<1> QED
  BY <1>1, <1>2, <1>3

\* A mode adds its rows, none where it has none.
Grows(rows, mode) ==
    /\ Fresh(rows, mode) /\ options' = options \o rows
    /\ unavailable \subseteq unavailable' /\ calls_made \subseteq calls_made'
    /\ UNCHANGED <<wanted, day, adults, route>>

\* A mode that adds no row adds only sound ones.
LEMMA NoRows == Fresh(<<>>, "flight") /\ Fresh(<<>>, "train") /\ Fresh(<<>>, "cab")
  BY DEF Fresh, ToSet

\* The rows after a mode are those before it and the ones it adds.
LEMMA Grown ==
    ASSUME LegTypes, NEW mode, NEW rows, Grows(rows, mode)
    PROVE  /\ Rows' = Rows \cup ToSet(rows)
           /\ options' \in Seq(ToSet(options')) /\ \A r \in ToSet(options') : RowOk(r)
<1> DEFINE X == ToSet(options) \cup ToSet(rows)
<1>1. options \in Seq(X) /\ rows \in Seq(X)
  <2>1. options \in Seq(ToSet(options)) /\ ToSet(options) \subseteq X
    BY DEF LegTypes
  <2>2. rows \in Seq(ToSet(rows)) /\ ToSet(rows) \subseteq X
    BY DEF Grows, Fresh
  <2> HIDE DEF X
  <2> QED
    BY <2>1, <2>2, SeqWider
<1>2. options \o rows \in Seq(X) /\ ToSet(options \o rows) = ToSet(options) \cup ToSet(rows)
  <2> HIDE DEF X
  <2> QED
    BY <1>1, JoinedSet
<1>3. options' = options \o rows
  BY DEF Grows
<1>4. Rows' = ToSet(options') /\ Rows = ToSet(options)
  BY DEF Rows, ToSet
<1>5. \A r \in ToSet(options) \cup ToSet(rows) : RowOk(r)
  BY DEF LegTypes, Grows, Fresh
<1>6. options' \in Seq(ToSet(options'))
  <2> HIDE DEF X
  <2> QED
    BY <1>2, <1>3, InSeqOwn
<1> QED
  BY <1>2, <1>3, <1>4, <1>5, <1>6

\* What is left to show of a step in which a mode adds its rows.
LEMMA GrowsKeeps ==
    ASSUME LegInv, NEW mode \in Mode, NEW rows, Grows(rows, mode),
           pc' \in {"train", "cab", "compare"},
           read' = [stream |-> read'.stream, page |-> read'.page],
           read'.stream \in Streams \cup {<<>>}, read'.page \in TrainPages \cup {<<>>},
           pc' = "train" => read'.page = <<>>,
           \A r \in ToSet(rows) : DayIs(r, day, unavailable'),
           read'.stream = read.stream \/ options = <<>>,
           mode = "flight" => \A r \in ToSet(rows) : FliesAs(r, read'.stream, Origin, Dest, adults),
           pc' \in {"cab", "compare"} /\ SellsAc(read'.page) =>
              (\E r \in Rows : r.mode = "train") \/ (\E r \in ToSet(rows) : r.mode = "train"),
           Past(pc') = Past(pc) \cup {mode}, "train" \in Past(pc) => read'.page = read.page,
           mode \in wanted =>
              \/ \E r \in ToSet(rows) : TRUE
              \/ \E note \in unavailable' : note[1] = mode
              \/ mode = "train" /\ mode \in calls_made' /\ ~SellsAc(read'.page)
    PROVE  LegInv'
<1>1. /\ Rows' = Rows \cup ToSet(rows)
      /\ options' \in Seq(ToSet(options')) /\ \A r \in ToSet(options') : RowOk(r)
  BY Grown DEF LegInv
<1>2. /\ wanted' = wanted /\ day' = day /\ adults' = adults /\ route' = route
      /\ unavailable \subseteq unavailable' /\ calls_made \subseteq calls_made'
  BY DEF Grows
<1>3. LegTypes'
  BY <1>1, <1>2 DEF LegInv, LegTypes
<1>4. Begun'
  BY DEF Begun
<1>5. \A m \in wanted' \cap Past(pc') : Answered(m)'
  <2> SUFFICES ASSUME NEW m \in Mode, m \in wanted, m \in Past(pc) \/ m = mode PROVE Answered(m)'
    BY <1>2 DEF LegInv, LegTypes
  <2>1. CASE m \in Past(pc)
    <3>1. Answered(m)
      BY <2>1 DEF LegInv
    <3> QED
      BY <1>1, <1>2, <2>1, <3>1 DEF Answered
  <2>2. CASE m = mode
    <3>1. \A r \in ToSet(rows) : r.mode = mode
      BY DEF Grows, Fresh
    <3> QED
      BY <1>1, <1>2, <2>2, <3>1 DEF Answered
  <2> QED
    BY <2>1, <2>2
<1>6. OtherDayIsMarked'
  <2>1. \A r \in Rows : DayIs(r, day, unavailable)
    BY RowsAre DEF LegInv
  <2>2. \A r \in Rows : DayIs(r, day, unavailable')
    BY <1>2, <2>1 DEF DayIs
  <2>3. \A r \in Rows' : DayIs(r, day', unavailable')
    BY <1>1, <1>2, <2>2
  <2> QED
    BY <2>3 DEF OtherDayIsMarked, DayIs
<1>7. FlownAsAsked'
  <2>1. \A r \in Rows : r.mode = "flight" => FliesAs(r, read.stream, Origin, Dest, adults)
    BY RowsAre DEF LegInv
  <2>2. options = <<>> => Rows = {}
    BY DEF Rows
  <2>3. \A r \in ToSet(rows) : r.mode = "flight" => mode = "flight"
    BY DEF Grows, Fresh
  <2>4. \A r \in Rows' : r.mode = "flight" => FliesAs(r, read'.stream, Origin, Dest, adults)
    BY <1>1, <2>1, <2>2, <2>3
  <2>5. Origin' = Origin /\ Dest' = Dest /\ adults' = adults
    BY <1>2 DEF Origin, Dest
  <2>6. \A r \in Rows' : r.mode = "flight" => FliesAs(r, read'.stream, Origin', Dest', adults')
    BY <2>4, <2>5
  <2> QED
    BY <2>6 DEF FlownAsAsked, FliesAs, Cards
<1>8. OfferedReachesTraveller'
  BY <1>1 DEF OfferedReachesTraveller
<1>9. DominatedIsFact' /\ CheapestComesFirst'
  BY DEF DominatedIsFact, CheapestComesFirst
<1> QED
  BY <1>3, <1>4, <1>5, <1>6, <1>7, <1>8, <1>9 DEF LegInv

-----------------------------------------------------------------------------
(* The steps of the three modes *)

\* A step that adds no row.
LEMMA Adds ==
    ASSUME LegTypes, NEW mode, UNCHANGED <<wanted, day, adults, route>>,
           unavailable \subseteq unavailable', calls_made \subseteq calls_made',
           Fresh(<<>>, mode), UNCHANGED options
    PROVE  Grows(<<>>, mode)
<1> DEFINE X == ToSet(options)
<1>1. options \in Seq(X)
  BY DEF LegTypes
<1> HIDE DEF X
<1>2. options \o <<>> = options
  BY <1>1
<1> QED
  BY <1>2 DEF Grows

\* A note is about its mode, and none is ever taken back.
LEMMA NoteIs ==
    ASSUME NEW mode, NEW kind, Note(mode, kind)
    PROVE  unavailable \subseteq unavailable' /\ \E note \in unavailable' : note[1] = mode
<1> DEFINE note == <<mode, kind>>
<1>1. note[1] = mode
  OBVIOUS
<1>2. unavailable' = unavailable \cup {note}
  BY DEF Note
<1> HIDE DEF note
<1> QED
  BY <1>1, <1>2

\* A mode that is skipped leaves a note if it was asked for, and no row.
LEMMA SkipIs ==
    ASSUME NEW mode, NEW applies, NEW kind, Skip(mode, applies, kind)
    PROVE  /\ unavailable \subseteq unavailable' /\ calls_made' = calls_made
           /\ options' = options /\ read' = read
           /\ mode \in wanted => \E note \in unavailable' : note[1] = mode
<1>1. /\ \/ mode \notin wanted /\ UNCHANGED unavailable
         \/ mode \in wanted /\ ~applies /\ Note(mode, kind)
      /\ UNCHANGED <<options, calls_made, read>>
  BY DEF Skip
<1> QED
  BY <1>1, NoteIs

\* Flights are the first mode: whatever the search gives, it leaves rows of its stream or
\* a note (the flight part of mmt_intercity_options).
LEMMA FlightStep == LegInv /\ Flight => LegInv'
<1> SUFFICES ASSUME LegInv, Flight PROVE LegInv'
  OBVIOUS
<1>1. /\ pc = "flight" /\ pc' = "train" /\ options = <<>> /\ read.page = <<>>
      /\ UNCHANGED <<wanted, day, adults, route>>
      /\ LegTypes /\ read = [stream |-> read.stream, page |-> read.page]
      /\ read.stream \in Streams \cup {<<>>} /\ day \in Int /\ adults \in Nat
  BY DEF Flight, LegInv, Begun, LegTypes
<1>2. Past(pc') = Past(pc) \cup {"flight"} /\ "train" \notin Past(pc) /\ "flight" \in Mode
  BY <1>1 DEF Past, Mode
<1>3. CASE \/ Skip("flight", None \notin {Origin, Dest}, "not_applicable")
           \/ /\ "flight" \in wanted /\ calls_made' = calls_made \cup {"flight"}
              /\ Note("flight", "error") /\ UNCHANGED <<options, read>>
  <2>1. /\ unavailable \subseteq unavailable' /\ calls_made \subseteq calls_made'
        /\ options' = options /\ read' = read
        /\ "flight" \in wanted => \E note \in unavailable' : note[1] = "flight"
    <3>1. CASE Skip("flight", None \notin {Origin, Dest}, "not_applicable")
      BY <3>1, SkipIs
    <3>2. CASE /\ "flight" \in wanted /\ calls_made' = calls_made \cup {"flight"}
               /\ Note("flight", "error") /\ UNCHANGED <<options, read>>
      BY <3>2, NoteIs
    <3> QED
      BY <1>3, <3>1, <3>2
  <2> DEFINE rows == <<>>
  <2>2. Grows(rows, "flight") /\ ToSet(rows) = {}
    BY <1>1, <2>1, Adds, NoRows DEF ToSet
  <2> HIDE DEF rows
  <2> QED
    BY <1>1, <1>2, <2>1, <2>2, GrowsKeeps
<1>4. ASSUME NEW stream \in Streams, "flight" \in wanted, None \notin {Origin, Dest},
             calls_made' = calls_made \cup {"flight"}, FlightFound(stream)
      PROVE  LegInv'
  <2> DEFINE all == ParseStream(stream, Origin, Dest)
             rows == FlightRows(Into(all))
  <2>1. /\ Fresh(rows, "flight")
        /\ \A r \in ToSet(rows) : /\ r.indicative = FALSE /\ r.quoted = day
                                  /\ FliesAs(r, stream, Origin, Dest, adults)
        /\ all # <<>> /\ ~(Len(Into(all)) < Len(all)) => \E r \in ToSet(rows) : TRUE
    BY <1>1, <1>4, FlownAre DEF FliesAs
  <2>2. /\ read' = [read EXCEPT !.stream = stream] /\ options' = options \o rows
        /\ IF all = <<>> THEN Note("flight", "empty_valid")
           ELSE IF Len(Into(all)) < Len(all)
                THEN Note("flight", "excluded_alternate_airports")
                ELSE UNCHANGED unavailable
    BY <1>4 DEF FlightFound, FlightRows, Into
  <2> HIDE DEF all, rows
  <2>3. /\ unavailable \subseteq unavailable'
        /\ (\E r \in ToSet(rows) : TRUE) \/ \E note \in unavailable' : note[1] = "flight"
    <3>1. CASE all = <<>>
      BY <2>2, <3>1, NoteIs
    <3>2. CASE all # <<>> /\ Len(Into(all)) < Len(all)
      BY <2>2, <3>2, NoteIs
    <3>3. CASE all # <<>> /\ ~(Len(Into(all)) < Len(all))
      BY <2>1, <2>2, <3>3
    <3> QED
      BY <3>1, <3>2, <3>3
  <2>4. Grows(rows, "flight")
    BY <1>1, <1>4, <2>1, <2>2, <2>3 DEF Grows
  <2>5. /\ read'.stream = stream /\ read'.page = <<>>
        /\ read' = [stream |-> read'.stream, page |-> read'.page]
    BY <1>1, <2>2
  <2>6. \A r \in ToSet(rows) : DayIs(r, day, unavailable')
    BY <2>1 DEF DayIs
  <2> QED
    BY <1>1, <1>2, <2>1, <2>3, <2>4, <2>5, <2>6, GrowsKeeps
<1> QED
  BY <1>3, <1>4 DEF Flight

\* What is left to show of the train's step.
LEMMA TrainKeeps ==
    ASSUME LegInv, Train, NEW rows, Grows(rows, "train"),
           read'.stream = read.stream, read'.page \in TrainPages \cup {<<>>},
           read' = [stream |-> read'.stream, page |-> read'.page],
           \A r \in ToSet(rows) : DayIs(r, day, unavailable'),
           SellsAc(read'.page) => \E r \in ToSet(rows) : TRUE,
           "train" \in wanted =>
              \/ \E r \in ToSet(rows) : TRUE
              \/ \E note \in unavailable' : note[1] = "train"
              \/ "train" \in calls_made' /\ ~SellsAc(read'.page)
    PROVE  LegInv'
<1>1. pc = "train" /\ pc' = "cab" /\ read.stream \in Streams \cup {<<>>}
  BY DEF Train, LegInv, LegTypes
<1>2. Past(pc') = Past(pc) \cup {"train"} /\ "train" \notin Past(pc) /\ "train" \in Mode
  BY <1>1 DEF Past, Mode
<1>3. SellsAc(read'.page) => \E r \in ToSet(rows) : r.mode = "train"
  BY DEF Grows, Fresh
<1> QED
  BY <1>1, <1>2, <1>3, GrowsKeeps

\* The trains leave rows of their page, or a note, and a page that sells an AC seat a row
\* (the train part of mmt_intercity_options).
LEMMA TrainStep == LegInv /\ Train => LegInv'
<1> SUFFICES ASSUME LegInv, Train PROVE LegInv'
  OBVIOUS
<1>1. /\ pc = "train" /\ pc' = "cab" /\ read.page = <<>> /\ ~SellsAc(read.page)
      /\ UNCHANGED <<wanted, day, adults, route>>
      /\ LegTypes /\ read = [stream |-> read.stream, page |-> read.page]
      /\ day \in Int /\ adults \in Nat
  BY NothingSold DEF Train, LegInv, Begun, LegTypes
<1>2. ASSUME UNCHANGED <<options, read>>, unavailable \subseteq unavailable',
             calls_made \subseteq calls_made',
             "train" \in wanted => \E note \in unavailable' : note[1] = "train"
      PROVE  LegInv'
  <2> DEFINE rows == <<>>
  <2>1. Grows(rows, "train") /\ ToSet(rows) = {}
    BY <1>1, <1>2, Adds, NoRows DEF ToSet
  <2> HIDE DEF rows
  <2>2. read' = read
    BY <1>2
  <2> QED
    BY <1>1, <1>2, <2>1, <2>2, TrainKeeps
<1>3. ASSUME NEW page \in TrainPages, NEW rows, Fresh(rows, "train"), Reads(page),
             options' = options \o rows, calls_made' = calls_made \cup {"train"},
             unavailable \subseteq unavailable',
             \A r \in ToSet(rows) : DayIs(r, day, unavailable'),
             SellsAc(page) => \E r \in ToSet(rows) : TRUE
      PROVE  LegInv'
  <2>1. Grows(rows, "train")
    BY <1>1, <1>3 DEF Grows
  <2>2. /\ read'.stream = read.stream /\ read'.page = page
        /\ read' = [stream |-> read'.stream, page |-> read'.page]
    BY <1>1, <1>3 DEF Reads
  <2>3. "train" \in calls_made'
    BY <1>3
  <2> QED
    BY <1>3, <2>1, <2>2, <2>3, TrainKeeps
<1>4. CASE Skip("train", TrainApplies, "not_applicable")
  <2>1. /\ unavailable \subseteq unavailable' /\ calls_made' = calls_made
        /\ options' = options /\ read' = read
        /\ "train" \in wanted => \E note \in unavailable' : note[1] = "train"
    BY <1>4, SkipIs
  <2> QED
    BY <1>2, <2>1
<1>5. CASE calls_made' = calls_made \cup {"train"} /\ TrainOutside
  <2>1. /\ ~InWindow(day, ThisDay) /\ <<"train", "not_in_window">> \in unavailable'
        /\ unavailable \subseteq unavailable'
        /\ \E note \in unavailable' : note[1] = "train"
    <3>1. ~InWindow(day, ThisDay) /\ Note("train", "not_in_window")
      BY <1>5 DEF TrainOutside
    <3>2. <<"train", "not_in_window">> \in unavailable'
      BY <3>1 DEF Note
    <3> QED
      BY <3>1, <3>2, NoteIs
  <2>2. CASE UNCHANGED <<options, read>>
    BY <1>2, <1>5, <2>1, <2>2
  <2> DEFINE other == FurthestBookable(day, ThisDay)
  <2>3. ASSUME other # None, NEW page \in TrainPages, Reads(page),
               options' = options \o IndicativeOptions(ParseTrains(page), other)
        PROVE  LegInv'
    <3>1. /\ other \in Int /\ other # day /\ InWindow(other, ThisDay)
          /\ (day - other) % 7 = 0
      BY <1>1, <2>1, <2>3, FurthestIs
    <3> DEFINE rows == IndicativeOptions(ParseTrains(page), other)
    <3> HIDE DEF other
    <3>2. /\ Fresh(rows, "train")
          /\ \A r \in ToSet(rows) : r.indicative = TRUE /\ r.quoted = other
          /\ SellsAc(page) => \E r \in ToSet(rows) : TRUE
      BY <1>1, <3>1, IndicativeAre
    <3>3. options' = options \o rows
      BY <2>3
    <3> HIDE DEF rows
    <3>4. \A r \in ToSet(rows) : DayIs(r, day, unavailable')
      BY <2>1, <3>1, <3>2 DEF DayIs
    <3> QED
      BY <1>3, <1>5, <2>1, <2>3, <3>2, <3>3, <3>4
  <2> QED
    BY <1>5, <2>2, <2>3 DEF TrainOutside
<1>6. CASE calls_made' = calls_made \cup {"train"} /\ TrainInside
  <2>1. CASE Note("train", "error") /\ UNCHANGED <<options, read>>
    <3>1. unavailable \subseteq unavailable' /\ \E note \in unavailable' : note[1] = "train"
      BY <2>1, NoteIs
    <3> QED
      BY <1>2, <1>6, <2>1, <3>1
  <2>2. ASSUME NEW page \in TrainPages, Reads(page), unavailable' = unavailable,
               options' = options \o TrainOptions(ParseTrains(page))
        PROVE  LegInv'
    <3> DEFINE rows == TrainOptions(ParseTrains(page))
    <3>1. /\ Fresh(rows, "train")
          /\ \A r \in ToSet(rows) : r.indicative = FALSE /\ r.quoted = day
          /\ SellsAc(page) => \E r \in ToSet(rows) : TRUE
      BY <1>1, TrainOptionsAre
    <3>2. options' = options \o rows
      BY <2>2
    <3> HIDE DEF rows
    <3>3. \A r \in ToSet(rows) : DayIs(r, day, unavailable')
      BY <3>1 DEF DayIs
    <3> QED
      BY <1>3, <1>6, <2>2, <3>1, <3>2, <3>3
  <2> QED
    BY <1>6, <2>1, <2>2 DEF TrainInside
<1> QED
  BY <1>4, <1>5, <1>6 DEF Train

\* The cabs leave rows of their listing, or a note, and the rows of the other modes as they
\* were (the cab part of mmt_intercity_options).
LEMMA CabStep == LegInv /\ Cab => LegInv'
<1> SUFFICES ASSUME LegInv, Cab PROVE LegInv'
  OBVIOUS
<1>1. /\ pc = "cab" /\ pc' = "compare"
      /\ UNCHANGED <<wanted, day, adults, route>>
      /\ LegTypes /\ read = [stream |-> read.stream, page |-> read.page]
      /\ read.stream \in Streams \cup {<<>>} /\ read.page \in TrainPages \cup {<<>>}
      /\ day \in Int /\ adults \in Nat
      /\ SellsAc(read.page) => \E r \in Rows : r.mode = "train"
  BY DEF Cab, LegInv, LegTypes, OfferedReachesTraveller
<1>2. read' = read
  BY DEF Cab, Skip
<1>3. Past(pc') = Past(pc) \cup {"cab"} /\ "cab" \in Mode
  BY <1>1 DEF Past, Mode
<1>4. ASSUME NEW rows, Grows(rows, "cab"), \A r \in ToSet(rows) : DayIs(r, day, unavailable'),
             "cab" \in wanted => \/ \E r \in ToSet(rows) : TRUE
                                 \/ \E note \in unavailable' : note[1] = "cab"
      PROVE  LegInv'
  BY <1>1, <1>2, <1>3, <1>4, GrowsKeeps
<1>5. ASSUME UNCHANGED options, unavailable \subseteq unavailable', calls_made \subseteq calls_made',
             "cab" \in wanted => \E note \in unavailable' : note[1] = "cab"
      PROVE  LegInv'
  <2> DEFINE rows == <<>>
  <2>1. Grows(rows, "cab") /\ ToSet(rows) = {}
    BY <1>1, <1>5, Adds, NoRows DEF ToSet
  <2> HIDE DEF rows
  <2> QED
    BY <1>4, <1>5, <2>1
<1> DEFINE from == ResolvePlaceLoose(route.from.name, SavedPlaces)
           to == ResolvePlaceLoose(route.to.name, SavedPlaces)
           renamed == from # route.from.name \/ to # route.to.name
           Notes(kinds) == {<<"cab", kind>> : kind \in
                              kinds \cup (IF renamed THEN {"resolved_names"} ELSE {})}
<1>6. \/ Skip("cab", None \notin {from, to}, "unregistered_place")
      \/ /\ calls_made' = calls_made \cup {"cab"}
         /\ \/ unavailable' = unavailable \cup Notes({"error"}) /\ UNCHANGED options
            \/ \E page \in CabPages :
                 IF page.cards = <<>>
                 THEN unavailable' = unavailable \cup Notes({"empty_valid"}) /\ UNCHANGED options
                 ELSE /\ unavailable' = unavailable \cup Notes({})
                      /\ options' = options \o CabOptions(page)
  BY DEF Cab
<1>7. <<"cab", "error">> \in Notes({"error"}) /\ <<"cab", "empty_valid">> \in Notes({"empty_valid"})
  OBVIOUS
<1> HIDE DEF Notes
<1>8. CASE Skip("cab", None \notin {from, to}, "unregistered_place")
  <2> DEFINE applies == None \notin {from, to}
             kind == "unregistered_place"
  <2>1. Skip("cab", applies, kind)
    BY <1>8
  <2> HIDE DEF applies, kind
  <2>2. /\ unavailable \subseteq unavailable' /\ calls_made' = calls_made /\ options' = options
        /\ "cab" \in wanted => \E note \in unavailable' : note[1] = "cab"
    BY <2>1, SkipIs
  <2> QED
    BY <1>5, <2>2
<1>9. ASSUME calls_made' = calls_made \cup {"cab"}, UNCHANGED options,
             \/ unavailable' = unavailable \cup Notes({"error"})
             \/ unavailable' = unavailable \cup Notes({"empty_valid"})
      PROVE  LegInv'
  <2> DEFINE error == <<"cab", "error">>
             none == <<"cab", "empty_valid">>
  <2>1. error[1] = "cab" /\ none[1] = "cab"
    OBVIOUS
  <2>2. error \in unavailable' \/ none \in unavailable'
    BY <1>7, <1>9
  <2> HIDE DEF error, none
  <2>3. \E note \in unavailable' : note[1] = "cab"
    BY <2>1, <2>2
  <2> QED
    BY <1>5, <1>9, <2>3
<1>10. ASSUME calls_made' = calls_made \cup {"cab"}, NEW page \in CabPages, page.cards # <<>>,
              unavailable' = unavailable \cup Notes({}), options' = options \o CabOptions(page)
       PROVE  LegInv'
  <2> DEFINE rows == CabOptions(page)
  <2>1. /\ Fresh(rows, "cab")
        /\ \A r \in ToSet(rows) : r.indicative = FALSE /\ r.quoted = day
        /\ \E r \in ToSet(rows) : TRUE
    BY <1>1, <1>10, CabOptionsAre
  <2>2. options' = options \o rows
    BY <1>10
  <2> HIDE DEF rows
  <2>3. Grows(rows, "cab")
    BY <1>1, <1>10, <2>1, <2>2 DEF Grows
  <2>4. \A r \in ToSet(rows) : DayIs(r, day, unavailable')
    BY <2>1 DEF DayIs
  <2> QED
    BY <1>4, <2>1, <2>3, <2>4
<1> QED
  BY <1>6, <1>8, <1>9, <1>10

-----------------------------------------------------------------------------
(* The answer, and every leg *)

\* The same row is as good where it was put.
LEMMA SameIs ==
    ASSUME NEW r, NEW o, SameRow(r, o)
    PROVE  /\ r.mode = o.mode /\ r.label = o.label /\ r.total = o.total /\ r.dur = o.dur
           /\ r.indicative = o.indicative /\ r.quoted = o.quoted
  BY DEF SameRow, Fields

\* What holds of a row's figures and of its day holds of the row that is told for it.
LEMMA SameKeeps ==
    ASSUME NEW r, NEW o, SameRow(r, o), Fields \subseteq DOMAIN r, RowOk(o),
           NEW on, NEW notes, DayIs(o, on, notes)
    PROVE  RowOk(r) /\ DayIs(r, on, notes)
<1>1. /\ r.mode = o.mode /\ r.label = o.label /\ r.total = o.total /\ r.dur = o.dur
      /\ r.indicative = o.indicative /\ r.quoted = o.quoted
  BY SameIs
<1>2. RowOk(r)
  BY <1>1 DEF RowOk
<1>3. DayIs(r, on, notes)
  BY <1>1 DEF DayIs
<1> QED
  BY <1>2, <1>3

\* The rows of the answer are those that were gathered, marked and in order.
LEMMA AnsweredRows ==
    ASSUME LegInv, Answer
    PROVE  /\ options' \in Seq(ToSet(options'))
           /\ \A r \in Rows' : Fields \subseteq DOMAIN r /\ \E o \in Rows : SameRow(r, o)
           /\ \A o \in Rows : \E r \in Rows' : SameRow(r, o)
           /\ DominatedIsFact' /\ CheapestComesFirst'
<1> DEFINE n == Len(options)
           told == SortOptions(MarkDominated(options))
<1>1. /\ n \in Nat /\ DOMAIN options = 1..n
      /\ \A i \in 1..n : /\ Fields \subseteq DOMAIN options[i] /\ options[i].indicative \in BOOLEAN
                         /\ options[i].total \in Int \cup {None}
                         /\ options[i].dur \in Int \cup {None}
  <2>1. options \in Seq(ToSet(options))
    BY DEF LegInv, LegTypes
  <2> DEFINE X == ToSet(options)
  <2>2. \A r \in X : RowOk(r)
    BY DEF LegInv, LegTypes
  <2> HIDE DEF X
  <2>3. n \in Nat /\ DOMAIN options = 1..n /\ \A i \in 1..n : options[i] \in X
    BY <2>1, LenProperties DEF X
  <2> HIDE DEF n
  <2>4. ASSUME NEW i \in 1..n PROVE RowOk(options[i])
    BY <2>2, <2>3
  <2> QED
    BY <2>3, <2>4 DEF RowOk, Figure
<1>2. None \notin Int
  BY AnswersAssumption
<1> HIDE DEF n
<1>3. /\ DOMAIN told = 1..n /\ told \in Seq(ToSet(told))
      /\ \A i \in 1..n : /\ Fields \subseteq DOMAIN told[i]
                        /\ \E j \in 1..n : SameRow(told[i], options[j])
      /\ \A j \in 1..n : \E i \in 1..n : SameRow(told[i], options[j])
      /\ \A i \in 1..n : told[i].dominated <=>
            /\ Comparable(told[i])
            /\ \E j \in 1..n : /\ ~told[j].dominated /\ ~told[j].indicative
                               /\ Comparable(told[j]) /\ Beats(told[j], told[i])
      /\ \A i \in 1..n : told[i].total # None =>
            told[1].total # None /\ told[1].total <= told[i].total
  BY <1>1, <1>2, AnswerIs
<1>4. options' = told
  BY DEF Answer
<1> HIDE DEF told
<1>5. Rows' = {told[i] : i \in 1..n} /\ Rows = {options[i] : i \in 1..n}
  <2>1. DOMAIN options' = 1..n /\ \A i \in 1..n : options'[i] = told[i]
    BY <1>3, <1>4
  <2>2. Rows' = {options'[i] : i \in 1..n}
    BY <2>1 DEF Rows
  <2>3. Rows' = {told[i] : i \in 1..n}
    BY <2>1, <2>2
  <2>4. Rows = {options[i] : i \in 1..n}
    BY <1>1 DEF Rows
  <2> QED
    BY <2>3, <2>4
<1>6. ASSUME NEW r \in Rows' PROVE Fields \subseteq DOMAIN r /\ \E o \in Rows : SameRow(r, o)
  <2>1. PICK i \in 1..n : r = told[i]
    BY <1>5
  <2>2. PICK j \in 1..n : SameRow(told[i], options[j])
    BY <1>3
  <2>3. options[j] \in Rows
    BY <1>5
  <2> QED
    BY <1>3, <2>1, <2>2, <2>3
<1>7. \A o \in Rows : \E r \in Rows' : SameRow(r, o)
  BY <1>3, <1>5
<1>8. DominatedIsFact'
  <2>1. ASSUME NEW r \in Rows'
        PROVE  r.dominated <=> /\ Comparable(r)
                               /\ \E s \in Rows' : /\ ~s.dominated /\ ~s.indicative
                                                   /\ Comparable(s) /\ Beats(s, r)
    BY <1>3, <1>5
  <2> QED
    BY <2>1 DEF DominatedIsFact
<1>9. CheapestComesFirst'
  BY <1>3, <1>4, <1>5 DEF CheapestComesFirst
<1> QED
  BY <1>3, <1>4, <1>6, <1>7, <1>8, <1>9

\* Marking and sorting loses no row and no note (the end of mmt_intercity_options).
LEMMA AnswerStep == LegInv /\ Answer => LegInv'
<1> SUFFICES ASSUME LegInv, Answer PROVE LegInv'
  OBVIOUS
<1>1. /\ pc = "compare" /\ pc' = "done" /\ wanted' = wanted /\ day' = day /\ adults' = adults
      /\ route' = route /\ unavailable' = unavailable /\ calls_made' = calls_made /\ read' = read
  BY DEF Answer
<1>2. /\ options' \in Seq(ToSet(options'))
      /\ \A r \in Rows' : Fields \subseteq DOMAIN r /\ \E o \in Rows : SameRow(r, o)
      /\ \A o \in Rows : \E r \in Rows' : SameRow(r, o)
      /\ DominatedIsFact' /\ CheapestComesFirst'
  BY AnsweredRows
<1>3. Rows' = ToSet(options') /\ Rows = ToSet(options)
  BY DEF Rows, ToSet
<1>4. /\ \A o \in Rows : RowOk(o) /\ DayIs(o, day, unavailable)
      /\ \A o \in Rows : o.mode = "flight" => FliesAs(o, read.stream, Origin, Dest, adults)
  BY <1>3, RowsAre DEF LegInv, LegTypes
<1>5. ASSUME NEW r \in Rows'
      PROVE  /\ RowOk(r) /\ DayIs(r, day, unavailable)
             /\ r.mode = "flight" => FliesAs(r, read.stream, Origin, Dest, adults)
  <2>1. PICK o \in Rows : SameRow(r, o)
    BY <1>2
  <2>2. r.mode = o.mode /\ r.label = o.label /\ r.total = o.total
    BY <2>1, SameIs
  <2>3. RowOk(r) /\ DayIs(r, day, unavailable)
    BY <1>2, <1>4, <2>1, SameKeeps
  <2>4. r.mode = "flight" => FliesAs(r, read.stream, Origin, Dest, adults)
    BY <1>4, <2>2 DEF FliesAs
  <2> QED
    BY <2>3, <2>4
<1>6. ASSUME NEW mode, \E o \in Rows : o.mode = mode PROVE \E r \in Rows' : r.mode = mode
  <2>1. PICK o \in Rows : o.mode = mode
    BY <1>6
  <2>2. PICK r \in Rows' : SameRow(r, o)
    BY <1>2
  <2> QED
    BY <2>1, <2>2, SameIs
<1>7. LegTypes'
  BY <1>1, <1>2, <1>3, <1>5 DEF LegInv, LegTypes
<1>8. Begun'
  BY <1>1 DEF Begun
<1>9. \A m \in wanted' \cap Past(pc') : Answered(m)'
  <2> SUFFICES ASSUME NEW m \in wanted PROVE Answered(m)'
    BY <1>1
  <2>1. Answered(m)
    BY <1>1 DEF LegInv, LegTypes, Past
  <2> QED
    BY <1>1, <1>6, <2>1 DEF Answered
<1>10. OtherDayIsMarked'
  <2>1. \A r \in Rows' : DayIs(r, day', unavailable')
    BY <1>1, <1>5
  <2> QED
    BY <2>1 DEF OtherDayIsMarked, DayIs
<1>11. FlownAsAsked'
  <2>1. Origin' = Origin /\ Dest' = Dest
    BY <1>1 DEF Origin, Dest
  <2>2. \A r \in Rows' : r.mode = "flight" => FliesAs(r, read'.stream, Origin', Dest', adults')
    BY <1>1, <1>5, <2>1
  <2> QED
    BY <2>2 DEF FlownAsAsked, FliesAs, Cards
<1>12. OfferedReachesTraveller'
  <2>1. SellsAc(read.page) => \E o \in Rows : o.mode = "train"
    BY <1>1 DEF LegInv, OfferedReachesTraveller
  <2> QED
    BY <1>1, <1>6, <2>1 DEF OfferedReachesTraveller
<1> QED
  BY <1>2, <1>7, <1>8, <1>9, <1>10, <1>11, <1>12 DEF LegInv

\* A question begins with no row, whether or not its day can be booked.
LEMMA AskStep ==
    ASSUME LegInv, NEW modes \in SUBSET Mode, NEW on \in Day, NEW party \in Adults,
           Ask(modes, on, party)
    PROVE  LegInv'
<1>1. /\ pc = "ask" /\ pc' \in {"refused", "flight"} /\ options = <<>> /\ options' = <<>>
      /\ wanted' = modes /\ day' = on /\ adults' = party
      /\ UNCHANGED <<route, unavailable, calls_made, read>>
      /\ on \in Int /\ party \in Nat
  BY IntercityAssumption DEF Ask, LegInv, LegTypes, Begun
<1>2. Rows' = {}
  BY <1>1 DEF Rows
<1>3. LegTypes'
  BY <1>1 DEF LegInv, LegTypes, ToSet
<1>4. Begun'
  BY <1>1 DEF LegInv, Begun
<1>5. Past(pc') = {}
  BY <1>1 DEF Past
<1>6. OtherDayIsMarked' /\ FlownAsAsked'
  BY <1>2 DEF OtherDayIsMarked, FlownAsAsked
<1>7. OfferedReachesTraveller' /\ DominatedIsFact' /\ CheapestComesFirst'
  BY <1>1 DEF OfferedReachesTraveller, DominatedIsFact, CheapestComesFirst
<1> QED
  BY <1>3, <1>4, <1>5, <1>6, <1>7 DEF LegInv

\* The invariant holds before the question.
LEMMA LegBegins == LegInit => LegInv
<1> SUFFICES ASSUME LegInit PROVE LegInv
  OBVIOUS
<1>1. /\ pc = "ask" /\ options = <<>> /\ wanted = {} /\ day = ThisDay /\ adults = 0
      /\ route \in Routes /\ read = [stream |-> <<>>, page |-> <<>>]
      /\ ThisDay \in Int
  BY IntercityAssumption DEF LegInit, NothingRead
<1>2. Rows = {} /\ ToSet(options) = {}
  BY <1>1 DEF Rows, ToSet
<1>3. LegTypes
  BY <1>1, <1>2 DEF LegTypes
<1>4. Begun
  BY <1>1 DEF Begun
<1>5. OtherDayIsMarked /\ FlownAsAsked
  BY <1>2 DEF OtherDayIsMarked, FlownAsAsked
<1>6. OfferedReachesTraveller /\ DominatedIsFact /\ CheapestComesFirst
  BY <1>1 DEF OfferedReachesTraveller, DominatedIsFact, CheapestComesFirst
<1> QED
  BY <1>1, <1>3, <1>4, <1>5, <1>6 DEF LegInv

\* Each step of a leg keeps the invariant.
LEMMA LegKeeps == LegInv /\ [LegNext]_legVars => LegInv'
<1> SUFFICES ASSUME LegInv, [LegNext]_legVars PROVE LegInv'
  OBVIOUS
<1>1. ASSUME NEW modes \in SUBSET Mode \ {{}}, NEW on \in Day, NEW party \in Adults,
             Ask(modes, on, party)
      PROVE  LegInv'
  BY <1>1, AskStep
<1>2. CASE Flight
  BY <1>2, FlightStep
<1>3. CASE Train
  BY <1>3, TrainStep
<1>4. CASE Cab
  BY <1>4, CabStep
<1>5. CASE Answer
  BY <1>5, AnswerStep
<1>6. CASE UNCHANGED legVars
  <2>1. /\ pc' = pc /\ wanted' = wanted /\ day' = day /\ adults' = adults /\ route' = route
        /\ options' = options /\ unavailable' = unavailable /\ calls_made' = calls_made
        /\ read' = read
    BY <1>6 DEF legVars
  <2>2. Rows' = Rows /\ Origin' = Origin /\ Dest' = Dest
    BY <2>1 DEF Rows, Origin, Dest
  <2>3. LegTypes' /\ Begun'
    BY <2>1 DEF LegInv, LegTypes, Begun
  <2>4. \A m \in wanted' \cap Past(pc') : Answered(m)'
    BY <2>1, <2>2 DEF LegInv, Answered
  <2>5. OtherDayIsMarked' /\ OfferedReachesTraveller'
    BY <2>1, <2>2 DEF LegInv, OtherDayIsMarked, OfferedReachesTraveller
  <2>6. FlownAsAsked'
    BY <2>1, <2>2 DEF LegInv, FlownAsAsked
  <2>7. DominatedIsFact' /\ CheapestComesFirst'
    BY <2>1, <2>2 DEF LegInv, DominatedIsFact, CheapestComesFirst
  <2> QED
    BY <2>3, <2>4, <2>5, <2>6, <2>7 DEF LegInv
<1> QED
  BY <1>1, <1>2, <1>3, <1>4, <1>5, <1>6 DEF LegNext

\* What is true of one leg at every moment: see LegInv (mmt_intercity_options).
THEOREM LegIsSound == LegSpec => []LegInv
<1> QED
  BY LegBegins, LegKeeps, PTL DEF LegSpec

\* A row is marked as dominated exactly where another row that the reader is left with,
\* payable on the day asked for, beats it (mark_dominated).
THEOREM MarksMeanWhatTheySay == LegSpec => []DominatedIsFact
<1>1. LegInv => DominatedIsFact
  BY DEF LegInv
<1> QED
  BY <1>1, LegIsSound, PTL

\* The answer opens with the cheapest row of all (sort_options after mark_dominated).
THEOREM AnswerOpensWithTheCheapest == LegSpec => []CheapestComesFirst
<1>1. LegInv => CheapestComesFirst
  BY DEF LegInv
<1> QED
  BY <1>1, LegIsSound, PTL

\* A row is marked indicative exactly where it is quoted for another day than the one asked
\* for, which is then noted as out of the window, and that day can be booked and falls on
\* the same weekday (furthest_bookable and the train leg of mmt_intercity_options).
THEOREM OtherDaysAreTold == LegSpec => []OtherDayIsMarked
<1>1. LegInv => OtherDayIsMarked
  BY DEF LegInv
<1> QED
  BY <1>1, LegIsSound, PTL

\* Every mode asked for has a row or a note in the answer, or is a train whose page sells no
\* air-conditioned seat (the three legs of mmt_intercity_options, each keeping its own
\* trouble to itself).
THEOREM EveryModeIsAnswered == LegSpec => []NoModeForgotten
<1>1. LegInv => NoModeForgotten
  <2> SUFFICES ASSUME LegInv, pc = "done", NEW mode \in wanted PROVE Answered(mode)
    BY DEF NoModeForgotten, Answered
  <2> QED
    BY DEF LegInv, LegTypes, Past
<1> QED
  BY <1>1, LegIsSound, PTL

\* A page that sells an air-conditioned seat on some train, behind whatever references of
\* the page's cache, puts a train into the comparison (resolve, parse, filter_trains).
THEOREM SeatsReachTheTraveller == LegSpec => []OfferedReachesTraveller
<1>1. LegInv => OfferedReachesTraveller
  BY DEF LegInv
<1> QED
  BY <1>1, LegIsSound, PTL

\* Every flight of the comparison is a card of the stream that was read, at its fare for the
\* party, and begins and ends at the airports of the route where its journey is known
\* (_itinerary, and the exclusion of alternate airports).
THEOREM FlightsAreOfTheStream == LegSpec => []FlownAsAsked
<1>1. LegInv => FlownAsAsked
  BY DEF LegInv
<1> QED
  BY <1>1, LegIsSound, PTL

=============================================================================
