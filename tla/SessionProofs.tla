---------------------------- MODULE SessionProofs ----------------------------
(***************************************************************************)
(* The browser session, proved for any set of coroutines, any roles, any   *)
(* number of launches and crashes and either launch path.  The argument is *)
(* the lock's: its queue is an order of the coroutines that wait for it or *)
(* hold it (Order), a coroutine inside a critical section is the first in  *)
(* it (Exclusion), and a teardown that is half done has already dropped    *)
(* the warm flag and the reaper, which nobody can bring back before it is  *)
(* over (Torn).                                                            *)
(*                                                                         *)
(* That the reaper spares the work is an argument about time (SpareInv): a *)
(* tick cannot pass the idle timeout while a leg is in an await of its     *)
(* own, so when the reaper's timer finds the clock past it, nobody waits   *)
(* for the lock, nobody waits for a slot, and whoever waits for the page   *)
(* waits behind one that is there (Spared).  From then until the reaper    *)
(* has the lock only a close or mmt_setup_status can be ahead of it.       *)
(***************************************************************************)
EXTENDS Session, FiniteSetTheorems, SequenceTheorems, TLAPS

Waiting == {"ensureLock", "warmLock", "dropLock", "closeLock"}
Tearing == {"ensureTear", "dropTear", "closeTear"}
Critical == Tearing \cup {"warmGoto", "dropLaunch"}

\* The queue q has everyone in W, each once.
Orders(q, W) ==
    /\ q \in Seq(W)
    /\ \A p \in W : \E i \in 1..Len(q) : q[i] = p
    /\ \A i, j \in 1..Len(q) : q[i] = q[j] => i = j

Waiters == {l \in Leg : leg[l].pc \in Waiting \cup Critical}
           \cup (IF reaper = "queued" THEN {Reaper} ELSE {})

IsLeg(r) == DOMAIN r = {"pc", "why", "got", "out"}

Legs == DOMAIN leg = Leg /\ \A l \in Leg : IsLeg(leg[l])
Order == Orders(lockq, Waiters)
Exclusion == \A l \in Leg : leg[l].pc \in Critical => Holds(l)
Torn == \A l \in Leg : /\ leg[l].pc \in Tearing => ~warm /\ reaper = "none"
                       /\ leg[l].pc = "dropLaunch" => ctx = None

\* The handles and the browsers, which no lock is needed to relate.
Handles ==
    /\ ctx \in Browser \cup {None} /\ browser \in Browser \cup {None}
    /\ up \subseteq Browser /\ up \subseteq {ctx}
    /\ launched \in Nat
    /\ WarmMeansContext /\ ReaperWatchesContext

SessionInv == Legs /\ Order /\ Exclusion /\ Torn /\ Handles

-----------------------------------------------------------------------------
(* Queues *)

\* Whoever holds the lock leaves it.
LEMMA TailOrders ==
    ASSUME NEW q, NEW W, Orders(q, W), q # <<>>
    PROVE  /\ Head(q) \in W /\ Orders(Tail(q), W \ {Head(q)})
<1>1. /\ Head(q) \in W /\ Tail(q) \in Seq(W) /\ Len(Tail(q)) = Len(q) - 1
      /\ \A i \in 1..Len(Tail(q)) : Tail(q)[i] = q[i + 1]
  BY HeadTailProperties DEF Orders
<1>2. Head(q) = q[1] /\ Len(q) \in Nat \ {0}
  BY EmptySeq DEF Orders
<1>3. \A i \in 1..Len(Tail(q)) : Tail(q)[i] \in W \ {Head(q)}
  <2> TAKE i \in 1..Len(Tail(q))
  <2>1. i + 1 \in 1..Len(q) /\ 1 \in 1..Len(q) /\ i + 1 # 1
    BY <1>1, <1>2
  <2>2. q[i + 1] \in W /\ q[i + 1] # q[1]
    BY <2>1, ElementOfSeq DEF Orders
  <2> QED
    BY <1>1, <1>2, <2>2
<1>4. Tail(q) \in Seq(W \ {Head(q)})
  <2>1. Len(Tail(q)) \in Nat /\ Tail(q) \in [1..Len(Tail(q)) -> W]
    BY <1>1, LenProperties
  <2>2. Tail(q) \in [1..Len(Tail(q)) -> W \ {Head(q)}]
    BY <2>1, <1>3
  <2> QED
    BY <2>1, <2>2, SeqDef
<1>5. \A p \in W \ {Head(q)} : \E i \in 1..Len(Tail(q)) : Tail(q)[i] = p
  <2> TAKE p \in W \ {Head(q)}
  <2>1. PICK i \in 1..Len(q) : q[i] = p
    BY DEF Orders
  <2>2. i - 1 \in 1..Len(Tail(q)) /\ (i - 1) + 1 = i
    BY <1>1, <1>2, <2>1
  <2> QED
    BY <1>1, <2>1, <2>2
<1>6. \A i, j \in 1..Len(Tail(q)) : Tail(q)[i] = Tail(q)[j] => i = j
  <2> TAKE i, j \in 1..Len(Tail(q))
  <2>1. i + 1 \in 1..Len(q) /\ j + 1 \in 1..Len(q)
    BY <1>1, <1>2
  <2>2. q[i + 1] = q[j + 1] => i + 1 = j + 1
    BY <2>1 DEF Orders
  <2> QED
    BY <1>1, <2>2
<1> QED
  BY <1>1, <1>4, <1>5, <1>6 DEF Orders

\* Another joins it at the end.
LEMMA AppendOrders ==
    ASSUME NEW q, NEW W, NEW p, Orders(q, W), p \notin W
    PROVE  /\ Orders(Append(q, p), W \cup {p}) /\ Append(q, p) # <<>>
           /\ q # <<>> => Head(Append(q, p)) = Head(q)
           /\ q = <<>> => Head(Append(q, p)) = p
<1> DEFINE V == W \cup {p}
           s == Append(q, p)
<1>1. q \in Seq(V) /\ p \in V /\ Len(q) \in Nat
  BY SeqMonotonic, LenProperties DEF Orders
<1>2. /\ s \in Seq(V) /\ Len(s) = Len(q) + 1 /\ s[Len(q) + 1] = p
      /\ \A i \in 1..Len(q) : s[i] = q[i]
  BY <1>1, AppendProperties
<1>3. \A i \in 1..Len(q) : q[i] \in W
  BY ElementOfSeq DEF Orders
<1> HIDE DEF s
<1>4. \A r \in V : \E i \in 1..Len(s) : s[i] = r
  <2> TAKE r \in V
  <2>1. CASE r \in W
    <3>1. PICK i \in 1..Len(q) : q[i] = r
      BY <2>1 DEF Orders
    <3> QED
      BY <1>1, <1>2, <3>1
  <2>2. CASE r = p
    BY <1>1, <1>2, <2>2
  <2> QED
    BY <2>1, <2>2
<1>5. \A i, j \in 1..Len(s) : s[i] = s[j] => i = j
  <2> TAKE i, j \in 1..Len(s)
  <2>1. i \in 1..Len(q) \/ i = Len(q) + 1
    BY <1>1, <1>2
  <2>2. j \in 1..Len(q) \/ j = Len(q) + 1
    BY <1>1, <1>2
  <2> QED
    BY <1>2, <1>3, <2>1, <2>2 DEF Orders
<1>6. Head(s) = s[1] /\ s # <<>>
  BY <1>1, <1>2, EmptySeq
<1>7. q # <<>> => Head(q) = q[1] /\ 1 \in 1..Len(q)
  BY <1>1, EmptySeq
<1>8. q = <<>> => Len(q) + 1 = 1
  BY EmptySeq
<1> QED
  BY <1>2, <1>4, <1>5, <1>6, <1>7, <1>8 DEF Orders, s

\* One that is not the first is taken out of it.
LEMMA RemoveOrders ==
    ASSUME NEW q, NEW W, NEW p, Orders(q, W), q # <<>>, Head(q) # p
    PROVE  LET s == RemoveFirst(q, p)
           IN  Orders(s, W \ {p}) /\ s # <<>> /\ Head(s) = Head(q)
<1> DEFINE s == RemoveFirst(q, p)
           n == Len(q)
<1>1. n \in Nat \ {0} /\ Head(q) = q[1] /\ \A i \in 1..n : q[i] \in W
  BY EmptySeq, ElementOfSeq DEF Orders
<1>2. CASE \A i \in 1..n : q[i] # p
  <2>1. s = q
    BY <1>2 DEF RemoveFirst
  <2>2. p \notin W
    BY <1>2 DEF Orders
  <2>3. W \ {p} = W
    BY <2>2
  <2> QED
    BY <2>1, <2>3
<1>3. ASSUME NEW k \in 1..n, q[k] = p
      PROVE  Orders(s, W \ {p}) /\ s # <<>> /\ Head(s) = Head(q)
  <2>1. {i \in 1..n : q[i] = p} = {k}
    BY <1>3 DEF Orders
  <2>2. Min({k}) = k
    BY DEF Min
  <2>3. s = RemoveAt(q, k)
    BY <1>3, <2>1, <2>2 DEF RemoveFirst, SelectInSeq
  <2>4. k > 1
    BY <1>1, <1>3
  <2> DEFINE a == SubSeq(q, 1, k - 1)
             b == SubSeq(q, k + 1, n)
  <2>5. /\ a \in Seq(W) /\ Len(a) = k - 1
        /\ \A i \in 1..(k - 1) : a[i] = q[i]
    <3>1. k - 1 \in Int /\ \A i \in 1..(k - 1) : q[i] \in W
      BY <1>1
    <3>2. /\ a \in Seq(W) /\ Len(a) = IF 1 <= k - 1 THEN (k - 1) - 1 + 1 ELSE 0
          /\ \A i \in 1..((k - 1) - 1 + 1) : a[i] = q[1 + i - 1]
      BY <3>1, SubSeqProperties
    <3>3. \A i \in 1..(k - 1) : 1 + i - 1 = i
      OBVIOUS
    <3> QED
      BY <2>4, <3>2, <3>3
  <2>6. /\ b \in Seq(W) /\ Len(b) = n - k
        /\ \A i \in 1..(n - k) : b[i] = q[k + i]
    <3>1. k + 1 \in Int /\ n \in Int /\ \A i \in (k + 1)..n : q[i] \in W
      BY <1>1
    <3>2. /\ b \in Seq(W) /\ Len(b) = IF k + 1 <= n THEN n - (k + 1) + 1 ELSE 0
          /\ \A i \in 1..(n - (k + 1) + 1) : b[i] = q[(k + 1) + i - 1]
      BY <3>1, SubSeqProperties
    <3>3. /\ n - (k + 1) + 1 = n - k /\ (k + 1 > n => n - k = 0)
          /\ \A i \in 1..(n - k) : (k + 1) + i - 1 = k + i
      BY <1>1
    <3>4. Len(b) = n - k
      <4>1. CASE k + 1 <= n
        BY <3>2, <3>3, <4>1
      <4>2. CASE k + 1 > n
        <5>1. ~(k + 1 <= n)
          BY <1>1, <4>2
        <5> QED
          BY <3>2, <3>3, <4>2, <5>1
      <4> QED
        BY <1>1, <4>1, <4>2
    <3> QED
      BY <3>2, <3>3, <3>4
  <2>7. s = a \o b
    BY <2>3 DEF RemoveAt
  <2> HIDE DEF s, a, b
  <2>8. /\ s \in Seq(W) /\ Len(s) = n - 1
        /\ \A i \in 1..(n - 1) : s[i] = IF i < k THEN q[i] ELSE q[i + 1]
    <3>1. /\ s \in Seq(W) /\ Len(s) = (k - 1) + (n - k)
          /\ \A i \in 1..((k - 1) + (n - k)) :
               s[i] = IF i <= k - 1 THEN a[i] ELSE b[i - (k - 1)]
      <4>1. a \in Seq(W) /\ b \in Seq(W) /\ Len(a) = k - 1 /\ Len(b) = n - k
        BY <2>5, <2>6
      <4>2. /\ a \o b \in Seq(W) /\ Len(a \o b) = Len(a) + Len(b)
            /\ \A i \in 1..(Len(a) + Len(b)) :
                 (a \o b)[i] = IF i <= Len(a) THEN a[i] ELSE b[i - Len(a)]
        BY <4>1, ConcatProperties
      <4> QED
        BY <2>7, <4>1, <4>2
    <3>2. (k - 1) + (n - k) = n - 1
      BY <1>1
    <3>3. ASSUME NEW i \in 1..(n - 1)
          PROVE  s[i] = IF i < k THEN q[i] ELSE q[i + 1]
      <4>1. CASE i < k
        BY <1>1, <2>5, <3>1, <3>2, <4>1
      <4>2. CASE ~(i < k)
        <5>1. i - (k - 1) \in 1..(n - k) /\ k + (i - (k - 1)) = i + 1
          BY <1>1, <4>2
        <5>2. s[i] = b[i - (k - 1)]
          BY <1>1, <3>1, <3>2, <4>2
        <5> QED
          BY <2>6, <4>2, <5>1, <5>2
      <4> QED
        BY <4>1, <4>2
    <3> QED
      BY <3>1, <3>2, <3>3
  <2>9. \A i \in 1..(n - 1) : s[i] \in W \ {p}
    <3> TAKE i \in 1..(n - 1)
    <3>1. i \in 1..n /\ i + 1 \in 1..n /\ (i < k => i # k) /\ (~(i < k) => i + 1 # k)
      BY <1>1
    <3>2. \A x \in 1..n : q[x] \in W /\ (x # k => q[x] # p)
      BY <1>1, <1>3 DEF Orders
    <3>3. CASE i < k
      <4>1. s[i] = q[i]
        BY <2>8, <3>3
      <4> QED
        BY <3>1, <3>2, <3>3, <4>1
    <3>4. CASE ~(i < k)
      <4>1. s[i] = q[i + 1]
        BY <2>8, <3>4
      <4> QED
        BY <3>1, <3>2, <3>4, <4>1
    <3> QED
      BY <3>3, <3>4
  <2>10. s \in Seq(W \ {p})
    <3>1. n - 1 \in Nat /\ s \in [1..(n - 1) -> W]
      BY <1>1, <2>8, LenProperties
    <3>2. s \in [1..(n - 1) -> W \ {p}]
      BY <2>9, <3>1
    <3> QED
      BY <3>1, <3>2, SeqDef
  <2>11. \A r \in W \ {p} : \E i \in 1..(n - 1) : s[i] = r
    <3> TAKE r \in W \ {p}
    <3>1. PICK i \in 1..n : q[i] = r
      BY DEF Orders
    <3>2. i # k
      BY <1>3, <3>1
    <3>3. CASE i < k
      <4>1. i \in 1..(n - 1)
        BY <1>1, <3>3
      <4> QED
        BY <2>8, <3>1, <3>3, <4>1
    <3>4. CASE i > k
      <4>1. i - 1 \in 1..(n - 1) /\ ~(i - 1 < k) /\ (i - 1) + 1 = i
        BY <1>1, <3>4
      <4> QED
        BY <2>8, <3>1, <4>1
    <3> QED
      BY <1>1, <3>2, <3>3, <3>4
  <2>12. \A i, j \in 1..(n - 1) : s[i] = s[j] => i = j
    <3> TAKE i, j \in 1..(n - 1)
    <3>1. i \in 1..n /\ i + 1 \in 1..n /\ j \in 1..n /\ j + 1 \in 1..n
      BY <1>1
    <3>2. \A x, y \in 1..n : q[x] = q[y] => x = y
      BY DEF Orders
    <3> QED
      BY <1>1, <2>8, <3>1, <3>2
  <2>13. s # <<>> /\ Head(s) = s[1] /\ s[1] = q[1]
    <3>1. 1 \in 1..(n - 1) /\ 1 < k
      BY <1>1, <2>4
    <3> QED
      BY <2>8, <3>1, EmptySeq
  <2> QED
    BY <1>1, <2>8, <2>10, <2>11, <2>12, <2>13 DEF Orders
<1> QED
  BY <1>2, <1>3

-----------------------------------------------------------------------------
(* Who holds the lock *)

\* With the queue q, the leg l holds the lock: nobody else is inside.
HeldBy(l, q) ==
    /\ q # <<>> /\ Head(q) = l /\ Orders(q, Waiters \cup {l})
    /\ \A m \in Leg \ {l} : leg[m].pc \notin Critical

\* Only a leg that is inside may find the lock held by it.
LEMMA HolderHolds ==
    ASSUME SessionInv, NEW l \in Leg, Holds(l)
    PROVE  HeldBy(l, lockq)
<1>1. l \in Waiters
  BY TailOrders DEF SessionInv, Order, Holds
<1>2. Waiters \cup {l} = Waiters
  BY <1>1
<1>3. \A m \in Leg \ {l} : leg[m].pc \notin Critical
  BY DEF SessionInv, Exclusion, Holds
<1> QED
  BY <1>2, <1>3 DEF HeldBy, Holds, SessionInv, Order

\* A lock that nobody waits for is held by whoever asks first.
LEMMA FirstHolds ==
    ASSUME SessionInv, NEW l \in Leg, lockq = <<>>
    PROVE  HeldBy(l, <<l>>)
<1>1. \A i \in 1..Len(lockq) : FALSE
  BY EmptySeq
<1>2. Waiters = {}
  BY <1>1 DEF SessionInv, Order, Orders
<1>3. \A m \in Leg : leg[m].pc \notin Critical
  BY <1>2 DEF Waiters
<1>4. Orders(Append(lockq, l), {} \cup {l}) /\ Head(Append(lockq, l)) = l
  BY <1>2, AppendOrders DEF SessionInv, Order
<1>5. Append(lockq, l) = <<l>> /\ <<l>> # <<>>
  OBVIOUS
<1> QED
  BY <1>2, <1>3, <1>4, <1>5 DEF HeldBy

\* What the holder may do to the queue: stay, release, release and wait again, or stay
\* and cancel the reaper.
LEMMA HolderMoves ==
    ASSUME Legs, NEW l \in Leg, NEW q, HeldBy(l, q), NEW r, IsLeg(r),
           SessionAssumption, leg' = [leg EXCEPT ![l] = r],
           \/ /\ reaper' = "queued" <=> reaper = "queued"
              /\ \/ lockq' = Tail(q) /\ r.pc \notin Waiting \cup Critical
                 \/ lockq' = Append(Tail(q), l) /\ r.pc \in Waiting
                 \/ lockq' = q /\ r.pc \in Critical
           \/ lockq' = RemoveFirst(q, Reaper) /\ reaper' = "none" /\ r.pc \in Critical,
           r.pc \in Tearing => ~warm' /\ reaper' = "none",
           r.pc = "dropLaunch" => ctx' = None
    PROVE  Legs' /\ Order' /\ Exclusion' /\ Torn'
<1> DEFINE W == Waiters \cup {l}
           others == Waiters \ {l}
<1>1. /\ Legs' /\ leg'[l] = r /\ \A m \in Leg \ {l} : leg'[m] = leg[m]
  BY DEF Legs, IsLeg
<1>2. l # Reaper
  BY DEF SessionAssumption
<1>3. Torn'
  <2>1. \A m \in Leg \ {l} : leg'[m].pc \notin Tearing \cup {"dropLaunch"}
    BY <1>1 DEF HeldBy, Critical
  <2> QED
    BY <1>1, <2>1 DEF Torn
<1>4. Orders(Tail(q), W \ {l}) /\ W \ {l} = others
  BY TailOrders DEF HeldBy
<1>5. \A m \in Leg \ {l} : leg'[m].pc \notin Critical
  BY <1>1 DEF HeldBy
<1>6. ASSUME reaper' = "queued" <=> reaper = "queued"
      PROVE  Waiters' = IF r.pc \in Waiting \cup Critical THEN W ELSE others
  BY <1>1, <1>2, <1>6 DEF Waiters
<1>7. CASE (reaper' = "queued" <=> reaper = "queued") /\ lockq' = Tail(q)
           /\ r.pc \notin Waiting \cup Critical
  <2>1. Order'
    BY <1>4, <1>6, <1>7 DEF Order
  <2>2. Exclusion'
    BY <1>1, <1>5, <1>7 DEF Exclusion
  <2> QED
    BY <1>1, <1>3, <2>1, <2>2
<1>8. CASE (reaper' = "queued" <=> reaper = "queued") /\ lockq' = Append(Tail(q), l)
           /\ r.pc \in Waiting
  <2>1. Orders(Append(Tail(q), l), others \cup {l}) /\ others \cup {l} = W
    BY <1>4, AppendOrders
  <2>2. Order'
    BY <1>6, <1>8, <2>1 DEF Order
  <2>3. Exclusion'
    BY <1>1, <1>5, <1>8 DEF Exclusion, Waiting, Critical, Tearing
  <2> QED
    BY <1>1, <1>3, <2>2, <2>3
<1>9. CASE (reaper' = "queued" <=> reaper = "queued") /\ lockq' = q /\ r.pc \in Critical
  <2>1. Order'
    BY <1>6, <1>9 DEF Order, HeldBy
  <2>2. Exclusion'
    BY <1>5, <1>9 DEF Exclusion, HeldBy, Holds
  <2> QED
    BY <1>1, <1>3, <2>1, <2>2
<1>10. CASE lockq' = RemoveFirst(q, Reaper) /\ reaper' = "none" /\ r.pc \in Critical
  <2>1. /\ Orders(lockq', W \ {Reaper}) /\ lockq' # <<>> /\ Head(lockq') = l
    BY <1>2, <1>10, RemoveOrders DEF HeldBy
  <2>2. Waiters' = W \ {Reaper}
    BY <1>1, <1>2, <1>10 DEF Waiters, SessionAssumption
  <2>3. Order'
    BY <2>1, <2>2 DEF Order
  <2>4. Exclusion'
    BY <1>5, <2>1 DEF Exclusion, Holds
  <2> QED
    BY <1>1, <1>3, <2>3, <2>4
<1> QED
  BY <1>7, <1>8, <1>9, <1>10

\* A leg that has no part in the lock, before or after.
LEMMA OutsiderMoves ==
    ASSUME SessionInv, NEW l \in Leg, NEW r, IsLeg(r), leg' = [leg EXCEPT ![l] = r],
           leg[l].pc \notin Waiting \cup Critical, r.pc \notin Waiting \cup Critical,
           UNCHANGED <<lockq, warm, reaper, ctx>>
    PROVE  Legs' /\ Order' /\ Exclusion' /\ Torn'
<1>1. /\ Legs' /\ leg'[l] = r /\ \A m \in Leg \ {l} : leg'[m] = leg[m]
  BY DEF Legs, SessionInv
<1>2. Waiters' = Waiters
  BY <1>1 DEF Waiters
<1>3. Order' /\ Exclusion'
  BY <1>1, <1>2 DEF SessionInv, Order, Exclusion, Holds
<1>4. Torn'
  BY <1>1 DEF SessionInv, Torn, Critical, Tearing
<1> QED
  BY <1>1, <1>3, <1>4

\* A leg that joins the queue at its end.
LEMMA LegJoins ==
    ASSUME SessionInv, NEW l \in Leg, NEW r, IsLeg(r), leg' = [leg EXCEPT ![l] = r],
           leg[l].pc \notin Waiting \cup Critical, r.pc \in Waiting, SessionAssumption,
           lockq' = Append(lockq, l), UNCHANGED <<warm, reaper, ctx>>
    PROVE  Legs' /\ Order' /\ Exclusion' /\ Torn'
<1>1. /\ Legs' /\ leg'[l] = r /\ \A m \in Leg \ {l} : leg'[m] = leg[m]
  BY DEF Legs, SessionInv
<1>2. l \notin Waiters /\ Waiters' = Waiters \cup {l}
  BY <1>1 DEF Waiters, SessionAssumption
<1>3. /\ Orders(Append(lockq, l), Waiters \cup {l}) /\ Append(lockq, l) # <<>>
      /\ lockq # <<>> => Head(Append(lockq, l)) = Head(lockq)
  BY <1>2, AppendOrders DEF SessionInv, Order
<1>4. Order'
  BY <1>2, <1>3 DEF Order
<1>5. r.pc \notin Critical
  BY DEF Waiting, Critical, Tearing
<1>6. Exclusion'
  BY <1>1, <1>3, <1>5 DEF SessionInv, Exclusion, Holds
<1>7. Torn'
  BY <1>1, <1>5 DEF SessionInv, Torn, Critical, Tearing
<1> QED
  BY <1>1, <1>4, <1>6, <1>7

-----------------------------------------------------------------------------
(* The handles *)

\* The new state of a leg.
LEMMA LegAt ==
    ASSUME Legs, NEW l \in Leg, NEW pc
    PROVE  /\ IsLeg([leg[l] EXCEPT !.pc = pc])
           /\ [leg[l] EXCEPT !.pc = pc].pc = pc
BY DEF Legs, IsLeg

\* A coroutine that goes to warm up waits for the lock next.
LEMMA LegWarms ==
    ASSUME Legs, NEW l \in Leg, NEW why, Warms(l, why)
    PROVE  \E r : IsLeg(r) /\ leg' = [leg EXCEPT ![l] = r] /\ r.pc = "warmLock"
<1> DEFINE r == [leg[l] EXCEPT !.pc = "warmLock", !.why = why]
<1>1. leg' = [leg EXCEPT ![l] = r]
  BY DEF Warms, Legs, IsLeg
<1>2. IsLeg(r) /\ r.pc = "warmLock"
  BY DEF Legs, IsLeg
<1> HIDE DEF r
<1> QED
  BY <1>1, <1>2

\* A coroutine that ends is at rest.
LEMMA LegEnds ==
    ASSUME NEW out, SessionAssumption
    PROVE  IsLeg(Ended(out)) /\ Ended(out).pc = "idle"
BY DEF Ended, IsLeg

\* A launch where no context is: the new browser is the only one, and is watched.
LEMMA LaunchKeeps ==
    ASSUME SessionAssumption, Handles, ctx = None, NEW mode, Launches(mode)
    PROVE  /\ Handles' /\ ctx' # None
           /\ reaper' = "queued" <=> reaper = "queued"
           /\ UNCHANGED warm
<1>1. /\ launched' = launched + 1 /\ ctx' = launched + 1 /\ launched' \in Browser
      /\ launched' \in Nat /\ None \notin Nat
  BY DEF Launches, Handles, Browser, SessionAssumption
<1>2. up = {}
  BY <1>1 DEF Handles, Browser
<1>3. up' = {launched'} /\ browser' \in Browser \cup {None}
  BY <1>1, <1>2 DEF Launches, Handles
<1>4. /\ reaper' # "none" /\ reaper' # "ended"
      /\ reaper' = "queued" <=> reaper = "queued"
  BY DEF Launches, Handles, ReaperWatchesContext
<1>5. ctx' # None /\ UNCHANGED warm
  BY <1>1 DEF Launches, Browser
<1>6. WarmMeansContext' /\ ReaperWatchesContext'
  BY <1>4, <1>5 DEF WarmMeansContext, ReaperWatchesContext
<1> QED
  BY <1>1, <1>3, <1>4, <1>5, <1>6 DEF Handles

\* A teardown up to its first await.
LEMMA TeardownBegins ==
    ASSUME Handles, NEW q, TeardownBegin(q)
    PROVE  /\ Handles' /\ ~warm' /\ reaper' = "none" /\ UNCHANGED <<ctx, pageq>>
           /\ lockq' = RemoveFirst(q, Reaper)
BY DEF TeardownBegin, world, Handles, WarmMeansContext, ReaperWatchesContext

\* The rest of it: the browser goes, and neither a warm flag nor a reaper is left behind.
LEMMA TeardownEnds ==
    ASSUME Handles, TeardownEnd, ~warm, reaper = "none"
    PROVE  Handles' /\ ctx' = None /\ ~warm' /\ reaper' = "none"
<1>1. /\ ctx' = None /\ browser' = None /\ up' = {}
      /\ UNCHANGED <<warm, reaper, launched>>
  BY DEF TeardownEnd, Handles
<1> QED
  BY <1>1 DEF Handles, WarmMeansContext, ReaperWatchesContext

\* Nothing happens to the handles.
LEMMA HandlesStay ==
    ASSUME Handles, UNCHANGED <<ctx, browser, up, launched, warm, reaper>>
    PROVE  Handles'
BY DEF Handles, WarmMeansContext, ReaperWatchesContext

-----------------------------------------------------------------------------
(* The steps of a leg *)

\* What ensure's caller does with the context, the lock being released.
LEMMA GotStep ==
    ASSUME SessionAssumption, Legs, NEW l \in Leg, NEW q, HeldBy(l, q),
           NEW c \in Browser \cup {None}, Got(l, c, Tail(q)),
           reaper' = "queued" <=> reaper = "queued"
    PROVE  Legs' /\ Order' /\ Exclusion' /\ Torn'
<1> DEFINE r == CASE Role[l] = "page" -> [leg[l] EXCEPT !.pc = "pageLock", !.got = c]
                  [] Role[l] = "request" /\ c # None ->
                        [leg[l] EXCEPT !.pc = "slotWait", !.got = c]
                  [] Role[l] = "request" /\ c = None -> Ended("failed")
                  [] Role[l] = "status" /\ ~warm' ->
                        [leg[l] EXCEPT !.pc = "warmLock", !.why = "status"]
                  [] OTHER -> Ended("ok")
<1>1. leg' = [leg EXCEPT ![l] = r]
  BY DEF Got
<1>2. /\ IsLeg(r)
      /\ \/ lockq' = Tail(q) /\ r.pc \in {"pageLock", "slotWait", "idle"}
         \/ lockq' = Append(Tail(q), l) /\ r.pc = "warmLock"
  <2>1. /\ Role[l] \in {"page", "request", "recover", "status"}
        /\ IsLeg(leg[l])
    BY DEF SessionAssumption, Legs
  <2>2. /\ IsLeg([leg[l] EXCEPT !.pc = "pageLock", !.got = c])
        /\ [leg[l] EXCEPT !.pc = "pageLock", !.got = c].pc = "pageLock"
    BY <2>1 DEF IsLeg
  <2>3. /\ IsLeg([leg[l] EXCEPT !.pc = "slotWait", !.got = c])
        /\ [leg[l] EXCEPT !.pc = "slotWait", !.got = c].pc = "slotWait"
    BY <2>1 DEF IsLeg
  <2>4. /\ IsLeg([leg[l] EXCEPT !.pc = "warmLock", !.why = "status"])
        /\ [leg[l] EXCEPT !.pc = "warmLock", !.why = "status"].pc = "warmLock"
    BY <2>1 DEF IsLeg
  <2>5. lockq' = IF Role[l] = "status" /\ ~warm' THEN Append(Tail(q), l) ELSE Tail(q)
    BY DEF Got
  <2>6. CASE Role[l] = "page"
    <3>1. r = [leg[l] EXCEPT !.pc = "pageLock", !.got = c]
      BY <2>6
    <3> HIDE DEF r
    <3> QED
      BY <2>2, <2>5, <2>6, <3>1
  <2>7. CASE Role[l] = "request" /\ c # None
    <3>1. r = [leg[l] EXCEPT !.pc = "slotWait", !.got = c]
      BY <2>7
    <3> HIDE DEF r
    <3> QED
      BY <2>3, <2>5, <2>7, <3>1
  <2>8. CASE Role[l] = "request" /\ c = None
    <3>1. r = Ended("failed")
      BY <2>8
    <3> HIDE DEF r
    <3> QED
      BY <2>5, <2>8, <3>1, LegEnds
  <2>9. CASE Role[l] = "status" /\ ~warm'
    <3>1. r = [leg[l] EXCEPT !.pc = "warmLock", !.why = "status"]
      BY <2>9
    <3> HIDE DEF r
    <3> QED
      BY <2>4, <2>5, <2>9, <3>1
  <2>10. CASE Role[l] = "recover" \/ (Role[l] = "status" /\ warm')
    <3>1. r = Ended("ok")
      BY <2>10
    <3> HIDE DEF r
    <3> QED
      BY <2>5, <2>10, <3>1, LegEnds
  <2> QED
    BY <2>1, <2>6, <2>7, <2>8, <2>9, <2>10
<1> HIDE DEF r
<1>3. r.pc \notin Critical /\ r.pc # "dropLaunch" /\ r.pc \notin Tearing
  BY <1>2 DEF Critical, Tearing
<1>4. \/ lockq' = Tail(q) /\ r.pc \notin Waiting \cup Critical
      \/ lockq' = Append(Tail(q), l) /\ r.pc \in Waiting
  BY <1>2 DEF Waiting, Critical, Tearing
<1> QED
  BY <1>1, <1>2, <1>3, <1>4, HolderMoves

\* ensure, the lock being held (session.py:162-195).
LEMMA EnsureStep ==
    ASSUME SessionAssumption, SessionInv, NEW l \in Leg, NEW q, HeldBy(l, q), Ensure(l, q)
    PROVE  SessionInv'
<1>1. CASE EnsureFast(l, q)
  <2>1. /\ Got(l, ctx, Tail(q)) /\ UNCHANGED <<ctx, browser, up, launched, warm, reaper>>
    BY <1>1 DEF EnsureFast, handles, world
  <2>2. Legs' /\ Order' /\ Exclusion' /\ Torn'
    BY <2>1, GotStep DEF SessionInv, Handles
  <2> QED
    BY <2>1, <2>2, HandlesStay DEF SessionInv
<1>2. CASE EnsureStale(l, q)
  <2> DEFINE r == [leg[l] EXCEPT !.pc = "ensureTear"]
  <2>1. leg' = [leg EXCEPT ![l] = r] /\ IsLeg(r) /\ r.pc = "ensureTear"
    BY <1>2, LegAt DEF EnsureStale, At, SessionInv
  <2>2. /\ Handles' /\ ~warm' /\ reaper' = "none" /\ lockq' = RemoveFirst(q, Reaper)
    BY <1>2, TeardownBegins DEF EnsureStale, SessionInv
  <2> HIDE DEF r
  <2>3. r.pc \in Critical /\ r.pc # "dropLaunch"
    BY <2>1 DEF Critical, Tearing
  <2> QED
    BY <2>1, <2>2, <2>3, HolderMoves DEF SessionInv
<1>3. CASE EnsureLaunch(l, q) /\ lockq' = Append(Tail(q), l)
           /\ (\E mode \in Modes : Launches(mode)) /\ Warms(l, "ensure")
  <2>1. PICK r : IsLeg(r) /\ leg' = [leg EXCEPT ![l] = r] /\ r.pc = "warmLock"
    BY <1>3, LegWarms DEF SessionInv
  <2>2. Handles' /\ (reaper' = "queued" <=> reaper = "queued")
    BY <1>3, LaunchKeeps DEF SessionInv, EnsureLaunch
  <2>3. r.pc \in Waiting /\ r.pc \notin Tearing /\ r.pc # "dropLaunch"
    BY <2>1 DEF Waiting, Tearing
  <2> QED
    BY <1>3, <2>1, <2>2, <2>3, HolderMoves DEF SessionInv
<1>4. CASE LaunchFails /\ lockq' = Tail(q) /\ Ends(l, "failed")
  <2> DEFINE r == Ended("failed")
  <2>1. leg' = [leg EXCEPT ![l] = r] /\ IsLeg(r) /\ r.pc = "idle"
    BY <1>4, LegEnds DEF Ends
  <2> HIDE DEF r
  <2>2. r.pc \notin Waiting \cup Critical /\ r.pc \notin Tearing /\ r.pc # "dropLaunch"
    BY <2>1 DEF Waiting, Critical, Tearing
  <2>3. UNCHANGED <<ctx, browser, up, launched, warm, reaper>>
    BY <1>4 DEF LaunchFails, handles, world
  <2> QED
    BY <1>4, <2>1, <2>2, <2>3, HolderMoves, HandlesStay DEF SessionInv
<1> QED
  BY <1>1, <1>2, <1>3, <1>4 DEF Ensure, EnsureLaunch

\* How warmup ends, whoever called it.
LEMMA ReturnsStep ==
    ASSUME SessionAssumption, SessionInv, NEW l \in Leg, HeldBy(l, lockq), NEW result,
           WarmupReturns(l, result), UNCHANGED reaper
    PROVE  Legs' /\ Order' /\ Exclusion' /\ Torn'
<1>1. CASE leg[l].why = "status"
  <2>1. PICK r : IsLeg(r) /\ leg' = [leg EXCEPT ![l] = r] /\ r.pc = "idle"
    BY <1>1, LegEnds DEF WarmupReturns, Ends
  <2>2. r.pc \notin Waiting \cup Critical /\ r.pc \notin Tearing /\ r.pc # "dropLaunch"
    BY <2>1 DEF Waiting, Critical, Tearing
  <2>3. lockq' = Tail(lockq)
    BY <1>1 DEF WarmupReturns
  <2> QED
    BY <2>1, <2>2, <2>3, HolderMoves DEF SessionInv
<1>2. CASE leg[l].why = "ensure" /\ browser # None /\ result # "abck"
  <2> DEFINE r == [leg[l] EXCEPT !.pc = "dropLock"]
  <2>1. leg' = [leg EXCEPT ![l] = r] /\ IsLeg(r) /\ r.pc = "dropLock"
    BY <1>2, LegAt DEF WarmupReturns, At, SessionInv
  <2> HIDE DEF r
  <2>2. r.pc \in Waiting /\ r.pc \notin Tearing /\ r.pc # "dropLaunch"
    BY <2>1 DEF Waiting, Tearing
  <2>3. lockq' = Append(Tail(lockq), l)
    BY <1>2 DEF WarmupReturns
  <2> QED
    BY <2>1, <2>2, <2>3, HolderMoves DEF SessionInv
<1>3. CASE leg[l].why # "status" /\ ~(leg[l].why = "ensure" /\ browser # None /\ result # "abck")
  <2>1. Got(l, ctx, Tail(lockq))
    BY <1>3 DEF WarmupReturns
  <2> QED
    BY <2>1, GotStep DEF SessionInv, Handles
<1> QED
  BY <1>1, <1>2, <1>3

\* warmup (session.py:351-381).
LEMMA WarmupStep ==
    ASSUME SessionAssumption, SessionInv, NEW l \in Leg,
           WarmLocked(l) \/ WarmSkipped(l) \/ WarmLaunchFails(l) \/ Warmed(l)
    PROVE  SessionInv'
<1>1. CASE WarmLocked(l)
  <2> DEFINE r == [leg[l] EXCEPT !.pc = "warmGoto"]
  <2>1. leg' = [leg EXCEPT ![l] = r] /\ IsLeg(r) /\ r.pc = "warmGoto"
    BY <1>1, LegAt DEF WarmLocked, At, SessionInv
  <2> HIDE DEF r
  <2>2. r.pc \in Critical /\ r.pc \notin Tearing /\ r.pc # "dropLaunch"
    BY <2>1 DEF Critical, Tearing
  <2>3. HeldBy(l, lockq) /\ lockq' = lockq
    BY <1>1, HolderHolds DEF WarmLocked
  <2>4. Handles' /\ (reaper' = "queued" <=> reaper = "queued")
    <3>1. CASE UNCHANGED <<handles, world, reaper, idle, pageq>>
      BY <3>1, HandlesStay DEF handles, world, SessionInv
    <3>2. CASE ctx = None /\ \E mode \in Modes : Launches(mode)
      BY <3>2, LaunchKeeps DEF SessionInv
    <3> QED
      BY <1>1, <3>1, <3>2 DEF WarmLocked
  <2> QED
    BY <2>1, <2>2, <2>3, <2>4, HolderMoves DEF SessionInv
<1>2. CASE WarmSkipped(l) \/ WarmLaunchFails(l)
  <2>1. /\ HeldBy(l, lockq) /\ UNCHANGED <<ctx, browser, up, launched, warm, reaper>>
    BY <1>2, HolderHolds DEF WarmSkipped, WarmLaunchFails, handles, world
  <2>2. \E result : WarmupReturns(l, result)
    BY <1>2 DEF WarmSkipped, WarmLaunchFails
  <2> QED
    BY <2>1, <2>2, ReturnsStep, HandlesStay DEF SessionInv
<1>3. CASE Warmed(l)
  <2>1. PICK result \in {"abck", "no_abck", "raised"} :
          /\ result # "raised" => ctx \in up
          /\ warm' = (result # "raised" \/ warm)
          /\ UNCHANGED <<ctx, browser, up, launched, reaper>>
          /\ WarmupReturns(l, result)
    BY <1>3 DEF Warmed
  <2>2. leg[l].pc \in Critical
    BY <1>3 DEF Warmed, Critical
  <2>3. HeldBy(l, lockq)
    BY <2>2, HolderHolds DEF SessionInv, Exclusion
  <2>4. Handles'
    <3>1. ctx \in up => ctx # None
      BY DEF SessionInv, Handles, Browser, SessionAssumption
    <3>2. warm' => ctx' # None
      BY <2>1, <3>1 DEF SessionInv, Handles, WarmMeansContext
    <3>3. ReaperWatchesContext'
      BY <2>1 DEF SessionInv, Handles, ReaperWatchesContext
    <3> QED
      BY <2>1, <3>2, <3>3 DEF SessionInv, Handles, WarmMeansContext
  <2> QED
    BY <2>1, <2>3, <2>4, ReturnsStep DEF SessionInv
<1> QED
  BY <1>1, <1>2, <1>3

\* The teardowns of the fallback and of close begin.
LEMMA TearStep ==
    ASSUME SessionAssumption, SessionInv, NEW l \in Leg, DropLocked(l) \/ CloseLocked(l)
    PROVE  SessionInv'
<1>1. /\ HeldBy(l, lockq) /\ TeardownBegin(lockq)
      /\ \E pc \in Tearing : At(l, pc)
  BY HolderHolds DEF DropLocked, CloseLocked, Tearing
<1>2. PICK pc \in Tearing : At(l, pc)
  BY <1>1
<1> DEFINE r == [leg[l] EXCEPT !.pc = pc]
<1>3. leg' = [leg EXCEPT ![l] = r] /\ IsLeg(r) /\ r.pc = pc
  BY <1>2, LegAt DEF At, SessionInv
<1> HIDE DEF r
<1>4. /\ Handles' /\ ~warm' /\ reaper' = "none" /\ lockq' = RemoveFirst(lockq, Reaper)
  BY <1>1, TeardownBegins DEF SessionInv
<1>5. r.pc \in Critical /\ r.pc # "dropLaunch"
  BY <1>2, <1>3 DEF Critical, Tearing
<1> QED
  BY <1>1, <1>3, <1>4, <1>5, HolderMoves DEF SessionInv

\* They end, and so does that of ensure (session.py:453-462).
LEMMA TornStep ==
    ASSUME SessionAssumption, SessionInv, NEW l \in Leg,
           EnsureTorn(l) \/ DropTorn(l) \/ CloseTorn(l)
    PROVE  SessionInv'
<1>1. leg[l].pc \in Tearing /\ TeardownEnd
  BY DEF EnsureTorn, DropTorn, CloseTorn, Tearing
<1>2. ~warm /\ reaper = "none" /\ HeldBy(l, lockq)
  BY <1>1, HolderHolds DEF SessionInv, Torn, Exclusion, Critical
<1>3. Handles' /\ ctx' = None /\ ~warm' /\ reaper' = "none"
  BY <1>1, <1>2, TeardownEnds DEF SessionInv
<1>4. CASE EnsureTorn(l)
  \* The holder is in the queue as before, and goes on where it waited.
  <2> DEFINE r == [leg[l] EXCEPT !.pc = "ensureLock"]
  <2>1. leg' = [leg EXCEPT ![l] = r] /\ IsLeg(r) /\ r.pc = "ensureLock" /\ lockq' = lockq
    BY <1>4, LegAt DEF EnsureTorn, At, SessionInv
  <2> HIDE DEF r
  <2>2. /\ Legs' /\ leg'[l] = r /\ \A m \in Leg \ {l} : leg'[m] = leg[m]
    BY <2>1 DEF SessionInv, Legs
  <2>3. r.pc \in Waiting /\ r.pc \notin Critical
    BY <2>1 DEF Waiting, Critical, Tearing
  <2>4. Waiters' = Waiters
    BY <1>1, <1>2, <1>3, <2>2, <2>3 DEF Waiters, Critical
  <2>5. Order' /\ Exclusion'
    BY <2>1, <2>2, <2>3, <2>4 DEF SessionInv, Order, Exclusion, Holds
  <2>6. Torn'
    BY <1>3, <2>2 DEF SessionInv, Torn
  <2> QED
    BY <1>3, <2>2, <2>5, <2>6 DEF SessionInv
<1>5. CASE DropTorn(l)
  <2> DEFINE r == [leg[l] EXCEPT !.pc = "dropLaunch"]
  <2>1. leg' = [leg EXCEPT ![l] = r] /\ IsLeg(r) /\ r.pc = "dropLaunch" /\ lockq' = lockq
    BY <1>5, LegAt DEF DropTorn, At, SessionInv
  <2> HIDE DEF r
  <2>2. r.pc \in Critical /\ r.pc \notin Tearing
    BY <2>1 DEF Critical, Tearing
  <2> QED
    BY <1>2, <1>3, <2>1, <2>2, HolderMoves DEF SessionInv
<1>6. CASE CloseTorn(l)
  <2> DEFINE r == [leg[l] EXCEPT !.pc = "ensureLock"]
  <2>1. /\ leg' = [leg EXCEPT ![l] = r] /\ IsLeg(r) /\ r.pc = "ensureLock"
        /\ lockq' = Append(Tail(lockq), l)
    BY <1>6, LegAt DEF CloseTorn, At, SessionInv
  <2> HIDE DEF r
  <2>2. r.pc \in Waiting /\ r.pc \notin Tearing /\ r.pc # "dropLaunch"
    BY <2>1 DEF Waiting, Tearing
  <2> QED
    BY <1>2, <1>3, <2>1, <2>2, HolderMoves DEF SessionInv
<1> QED
  BY <1>4, <1>5, <1>6

\* The fallback launches, in place of the browser it has dropped (session.py:187-195).
LEMMA FallbackStep ==
    ASSUME SessionAssumption, SessionInv, NEW l \in Leg, DropLaunch(l)
    PROVE  SessionInv'
<1>1. HeldBy(l, lockq) /\ ctx = None
  BY HolderHolds DEF DropLaunch, SessionInv, Torn, Exclusion, Critical
<1>2. CASE /\ \E mode \in Modes : Launches(mode)
           /\ lockq' = Append(Tail(lockq), l) /\ Warms(l, "forced")
  <2>1. PICK r : IsLeg(r) /\ leg' = [leg EXCEPT ![l] = r] /\ r.pc = "warmLock"
    BY <1>2, LegWarms DEF SessionInv
  <2>2. Handles' /\ (reaper' = "queued" <=> reaper = "queued")
    BY <1>1, <1>2, LaunchKeeps DEF SessionInv
  <2>3. r.pc \in Waiting /\ r.pc \notin Tearing /\ r.pc # "dropLaunch"
    BY <2>1 DEF Waiting, Tearing
  <2> QED
    BY <1>1, <1>2, <2>1, <2>2, <2>3, HolderMoves DEF SessionInv
<1>3. CASE LaunchFails /\ lockq' = Tail(lockq) /\ Ends(l, "failed")
  <2> DEFINE r == Ended("failed")
  <2>1. leg' = [leg EXCEPT ![l] = r] /\ IsLeg(r) /\ r.pc = "idle"
    BY <1>3, LegEnds DEF Ends
  <2> HIDE DEF r
  <2>2. r.pc \notin Waiting \cup Critical /\ r.pc \notin Tearing /\ r.pc # "dropLaunch"
    BY <2>1 DEF Waiting, Critical, Tearing
  <2>3. UNCHANGED <<ctx, browser, up, launched, warm, reaper>>
    BY <1>3 DEF LaunchFails, handles, world
  <2> QED
    BY <1>1, <1>3, <2>1, <2>2, <2>3, HolderMoves, HandlesStay DEF SessionInv
<1> QED
  BY <1>2, <1>3 DEF DropLaunch

\* page() and slot(): the lock is somebody else's business.
LEMMA PageStep ==
    ASSUME SessionAssumption, SessionInv, NEW l \in Leg,
           PageLocked(l) \/ PageDone(l) \/ SlotEntered(l) \/ SlotDone(l)
    PROVE  SessionInv'
<1>1. /\ leg[l].pc \in {"pageLock", "onPage", "slotWait", "onSlot"}
      /\ UNCHANGED <<lockq, ctx, browser, up, launched, warm, reaper>>
  BY DEF PageLocked, PageDone, SlotEntered, SlotDone, handles, world
<1>2. \/ \E pc \in {"onPage", "onSlot"} : At(l, pc)
      \/ \E out \in {"ok", "failed"} : Ends(l, out)
  BY DEF PageLocked, PageDone, SlotEntered, SlotDone
<1>3. PICK r : /\ IsLeg(r) /\ leg' = [leg EXCEPT ![l] = r]
               /\ r.pc \in {"onPage", "onSlot", "idle"}
  <2>1. ASSUME NEW pc \in {"onPage", "onSlot"}, At(l, pc)
        PROVE  \E r : /\ IsLeg(r) /\ leg' = [leg EXCEPT ![l] = r]
                      /\ r.pc \in {"onPage", "onSlot", "idle"}
    <3> DEFINE r == [leg[l] EXCEPT !.pc = pc]
    <3>1. leg' = [leg EXCEPT ![l] = r] /\ IsLeg(r) /\ r.pc = pc
      BY <2>1, LegAt DEF At, SessionInv
    <3> HIDE DEF r
    <3> QED
      BY <3>1
  <2>2. ASSUME NEW out \in {"ok", "failed"}, Ends(l, out)
        PROVE  \E r : /\ IsLeg(r) /\ leg' = [leg EXCEPT ![l] = r]
                      /\ r.pc \in {"onPage", "onSlot", "idle"}
    BY <2>2, LegEnds DEF Ends
  <2> QED
    BY <1>2, <2>1, <2>2
<1>4. leg[l].pc \notin Waiting \cup Critical /\ r.pc \notin Waiting \cup Critical
  BY <1>1, <1>3 DEF Waiting, Critical, Tearing
<1> QED
  BY <1>1, <1>3, <1>4, OutsiderMoves, HandlesStay DEF SessionInv

\* A coroutine starts: it takes a free lock, or it waits its turn.
LEMMA StartStep ==
    ASSUME SessionAssumption, SessionInv, NEW l \in Leg, Start(l)
    PROVE  SessionInv'
<1>1. leg[l].pc \notin Waiting \cup Critical
  BY DEF Start, Waiting, Critical, Tearing
<1>2. ASSUME NEW r, IsLeg(r), leg' = [leg EXCEPT ![l] = r], r.pc \in Waiting,
             lockq' = Append(lockq, l), UNCHANGED <<pageq, handles, world, reaper, idle>>
      PROVE  SessionInv'
  <2>1. UNCHANGED <<ctx, browser, up, launched, warm, reaper>>
    BY <1>2 DEF handles, world
  <2> QED
    BY <1>1, <1>2, <2>1, LegJoins, HandlesStay DEF SessionInv
<1>3. CASE StartEnsure(l)
  <2>1. CASE lockq = <<>>
    BY <1>3, <2>1, FirstHolds, EnsureStep DEF StartEnsure
  <2>2. CASE lockq # <<>>
    <3> DEFINE r == [leg[l] EXCEPT !.pc = "ensureLock"]
    <3>1. leg' = [leg EXCEPT ![l] = r] /\ IsLeg(r) /\ r.pc = "ensureLock"
      BY <1>3, <2>2, LegAt DEF StartEnsure, At, SessionInv
    <3> HIDE DEF r
    <3> QED
      BY <1>2, <1>3, <2>2, <3>1 DEF StartEnsure, Waiting
  <2> QED
    BY <2>1, <2>2
<1>4. CASE StartClose(l)
  <2> DEFINE r == [leg[l] EXCEPT !.pc = "closeLock"]
  <2>1. leg' = [leg EXCEPT ![l] = r] /\ IsLeg(r) /\ r.pc = "closeLock"
    BY <1>4, LegAt DEF StartClose, At, SessionInv
  <2> HIDE DEF r
  <2> QED
    BY <1>2, <1>4, <2>1 DEF StartClose, Waiting
<1>5. CASE StartWarmup(l)
  <2>1. CASE Ends(l, "ok") /\ UNCHANGED <<lockq, pageq, handles, world, reaper, idle>>
    <3> DEFINE r == Ended("ok")
    <3>1. leg' = [leg EXCEPT ![l] = r] /\ IsLeg(r) /\ r.pc = "idle"
      BY <2>1, LegEnds DEF Ends
    <3> HIDE DEF r
    <3>2. r.pc \notin Waiting \cup Critical
      BY <3>1 DEF Waiting, Critical, Tearing
    <3>3. UNCHANGED <<lockq, ctx, browser, up, launched, warm, reaper>>
      BY <2>1 DEF handles, world
    <3> QED
      BY <1>1, <3>1, <3>2, <3>3, OutsiderMoves, HandlesStay DEF SessionInv
  <2>2. CASE /\ Warms(l, "status") /\ lockq' = Append(lockq, l)
             /\ UNCHANGED <<pageq, handles, world, reaper, idle>>
    <3>1. PICK r : IsLeg(r) /\ leg' = [leg EXCEPT ![l] = r] /\ r.pc = "warmLock"
      BY <2>2, LegWarms DEF SessionInv
    <3> QED
      BY <1>2, <2>2, <3>1 DEF Waiting
  <2> QED
    BY <1>3, <1>5, <2>1, <2>2 DEF StartWarmup
<1> QED
  BY <1>3, <1>4, <1>5 DEF Start, SessionAssumption

-----------------------------------------------------------------------------
(* The reaper, the browser and the clock *)

\* The reaper joins the queue, or goes back to sleep; it has a context to watch.
LEMMA WakesStep == ASSUME SessionAssumption, SessionInv, ReaperWakes PROVE SessionInv'
<1>1. ctx # None /\ reaper = "due" /\ UNCHANGED <<leg, ctx, browser, up, launched, warm>>
  BY DEF ReaperWakes, SessionInv, Handles, ReaperWatchesContext, handles, world
<1>2. Legs'
  BY <1>1 DEF SessionInv, Legs
<1>3. Torn'
  BY <1>1 DEF SessionInv, Torn
<1>4. CASE reaper' = "asleep" /\ UNCHANGED lockq
  <2>1. Waiters' = Waiters
    BY <1>1, <1>4 DEF Waiters
  <2>2. Order' /\ Exclusion'
    BY <1>1, <1>4, <2>1 DEF SessionInv, Order, Exclusion, Holds
  <2>3. Handles'
    BY <1>1, <1>4 DEF SessionInv, Handles, WarmMeansContext, ReaperWatchesContext
  <2> QED
    BY <1>2, <1>3, <2>2, <2>3 DEF SessionInv
<1>5. CASE reaper' = "queued" /\ lockq' = Append(lockq, Reaper)
  <2>1. Reaper \notin Waiters /\ Waiters' = Waiters \cup {Reaper}
    BY <1>1, <1>5 DEF Waiters, SessionAssumption
  <2>2. /\ Order' /\ lockq' # <<>> /\ (lockq # <<>> => Head(lockq') = Head(lockq))
    BY <1>5, <2>1, AppendOrders DEF SessionInv, Order
  <2>3. Exclusion'
    BY <1>1, <2>2 DEF SessionInv, Exclusion, Holds
  <2>4. Handles'
    BY <1>1, <1>5 DEF SessionInv, Handles, WarmMeansContext, ReaperWatchesContext
  <2> QED
    BY <1>2, <1>3, <2>2, <2>3, <2>4 DEF SessionInv
<1> QED
  BY <1>1, <1>4, <1>5 DEF ReaperWakes

\* The reaper has the lock, so no leg is inside; what it tears down it leaves set
\* (session.py:461), which none of these parts minds.
LEMMA ReapsStep == ASSUME SessionAssumption, SessionInv, ReaperReaps PROVE SessionInv'
<1>1. /\ lockq # <<>> /\ Head(lockq) = Reaper /\ lockq' = Tail(lockq)
      /\ ~warm' /\ reaper' = "none" /\ up' \subseteq up
      /\ UNCHANGED <<leg, ctx, browser, launched>>
  BY DEF ReaperReaps, Holds
<1>2. \A l \in Leg : leg[l].pc \notin Critical
  BY <1>1 DEF SessionInv, Exclusion, Holds, SessionAssumption
<1>3. Waiters' = Waiters \ {Reaper}
  BY <1>1 DEF Waiters, SessionAssumption
<1>4. Order'
  BY <1>1, <1>3, TailOrders DEF SessionInv, Order
<1>5. Legs' /\ Exclusion'
  BY <1>1, <1>2 DEF SessionInv, Legs, Exclusion
<1>6. Torn'
  BY <1>1 DEF SessionInv, Torn
<1>7. Handles'
  BY <1>1 DEF SessionInv, Handles, WarmMeansContext, ReaperWatchesContext
<1> QED
  BY <1>4, <1>5, <1>6, <1>7 DEF SessionInv

\* A browser dies, or time passes.
LEMMA WorldStep == ASSUME SessionInv, Crash \/ Tick \/ UNCHANGED vars PROVE SessionInv'
<1>1. /\ UNCHANGED <<lockq, leg, ctx, browser, launched, warm>> /\ up' \subseteq up
      /\ reaper' = reaper \/ (reaper = "asleep" /\ reaper' = "due")
  BY DEF Crash, Tick, vars, handles, world
<1>2. Waiters' = Waiters
  BY <1>1 DEF Waiters
<1>3. Legs' /\ Order' /\ Exclusion'
  BY <1>1, <1>2 DEF SessionInv, Legs, Order, Exclusion, Holds
<1>4. Torn'
  BY <1>1 DEF SessionInv, Torn
<1>5. Handles'
  BY <1>1 DEF SessionInv, Handles, WarmMeansContext, ReaperWatchesContext
<1> QED
  BY <1>3, <1>4, <1>5 DEF SessionInv

LEMMA InitInv == ASSUME SessionAssumption, Init PROVE SessionInv
<1>1. Legs /\ \A l \in Leg : leg[l].pc = "idle"
  BY DEF Init, Legs, IsLeg
<1>2. \A l \in Leg : leg[l].pc \notin Waiting \cup Critical /\ leg[l].pc # "dropLaunch"
  BY <1>1 DEF Waiting, Critical, Tearing
<1>3. Waiters = {}
  BY <1>2 DEF Waiters, Init
<1>4. Orders(<<>>, {})
  BY EmptySeq DEF Orders
<1>5. Order /\ Exclusion /\ Torn
  BY <1>2, <1>3, <1>4 DEF Order, Exclusion, Torn, Critical, Init
<1>6. Handles
  BY DEF Init, Handles, WarmMeansContext, ReaperWatchesContext
<1> QED
  BY <1>1, <1>5, <1>6 DEF SessionInv

LEMMA NextInv == ASSUME SessionAssumption, SessionInv, [Next]_vars PROVE SessionInv'
<1>1. ASSUME NEW l \in Leg, EnsureLocked(l) PROVE SessionInv'
  BY <1>1, HolderHolds, EnsureStep DEF EnsureLocked
<1>2. ASSUME NEW l \in Leg, Work(l) PROVE SessionInv'
  BY <1>1, <1>2, WarmupStep, TearStep, TornStep, FallbackStep, PageStep DEF Work
<1> QED
  BY <1>2, StartStep, WakesStep, ReapsStep, WorldStep DEF Next

-----------------------------------------------------------------------------
(* The theorems *)

LEMMA SessionIsSound == Spec => []SessionInv
<1>1. Init => SessionInv
  BY InitInv, SessionAssumption
<1>2. SessionInv /\ [Next]_vars => SessionInv'
  BY NextInv, SessionAssumption
<1> QED
  BY <1>1, <1>2, PTL DEF Spec

\* The warm flag dies with its context, whoever tears it down and whoever waits
\* (_teardown and warmup's early returns).
THEOREM WarmHasItsContext == Spec => []WarmMeansContext
<1>1. SessionInv => WarmMeansContext
  BY DEF SessionInv, Handles
<1> QED
  BY <1>1, SessionIsSound, PTL

\* There is never a second browser on the profile (ensure, warmup, the fallback).
THEOREM BrowserIsAlone == Spec => []OneBrowser
<1>1. SessionInv => OneBrowser
  <2> SUFFICES ASSUME SessionInv PROVE OneBrowser
    OBVIOUS
  <2>1. up = {} \/ up = {ctx}
    BY DEF SessionInv, Handles
  <2>2. Cardinality({}) = 0 /\ Cardinality({ctx}) = 1
    BY FS_EmptySet, FS_Singleton
  <2> QED
    BY <2>1, <2>2 DEF OneBrowser
<1> QED
  BY <1>1, SessionIsSound, PTL

\* No reaper is ever left without a context to watch (_idle_reaper, _finish_launch).
THEOREM ReaperHasItsContext == Spec => []ReaperWatchesContext
<1>1. SessionInv => ReaperWatchesContext
  BY DEF SessionInv, Handles
<1> QED
  BY <1>1, SessionIsSound, PTL

\* With CDP alone every context has a handle that notices when its browser goes.
Paired == browser = ctx

\* Without the Playwright path a browser and its context come and go together.
LEMMA PairedStep ==
    ASSUME "playwright" \notin Modes, SessionAssumption, Paired, [Next]_vars
    PROVE  Paired'
<1>1. ASSUME NEW mode, Launches(mode) PROVE Paired'
  BY <1>1 DEF Launches, Paired, SessionAssumption
<1>2. ASSUME TeardownEnd PROVE Paired'
  BY <1>2 DEF TeardownEnd, Paired
<1>3. ASSUME UNCHANGED <<ctx, browser>> PROVE Paired'
  BY <1>3 DEF Paired
<1>4. ASSUME NEW l \in Leg, NEW q, Ensure(l, q) PROVE Paired'
  BY <1>1, <1>3, <1>4
     DEF Ensure, EnsureFast, EnsureStale, EnsureLaunch, TeardownBegin, LaunchFails, handles
<1>5. ASSUME NEW l \in Leg, Start(l) PROVE Paired'
  <2>1. CASE StartEnsure(l)
    BY <1>3, <1>4, <2>1 DEF StartEnsure, handles
  <2>2. CASE StartWarmup(l)
    BY <1>3, <2>1, <2>2 DEF StartWarmup, handles
  <2>3. CASE StartClose(l)
    BY <1>3, <2>3 DEF StartClose, handles
  <2> QED
    BY <1>5, <2>1, <2>2, <2>3 DEF Start, SessionAssumption
<1>6. ASSUME NEW l \in Leg, Work(l) PROVE Paired'
  <2>1. CASE EnsureLocked(l)
    BY <1>4, <2>1 DEF EnsureLocked
  <2>2. CASE EnsureTorn(l) \/ DropTorn(l) \/ CloseTorn(l)
    BY <1>2, <2>2 DEF EnsureTorn, DropTorn, CloseTorn
  <2>3. CASE WarmLocked(l) \/ DropLaunch(l)
    BY <1>1, <1>3, <2>3 DEF WarmLocked, DropLaunch, LaunchFails, handles
  <2>4. CASE WarmSkipped(l) \/ WarmLaunchFails(l) \/ Warmed(l)
    BY <1>3, <2>4 DEF WarmSkipped, WarmLaunchFails, Warmed, handles
  <2>5. CASE DropLocked(l) \/ CloseLocked(l)
    BY <1>3, <2>5 DEF DropLocked, CloseLocked, TeardownBegin
  <2>6. CASE PageLocked(l) \/ PageDone(l) \/ SlotEntered(l) \/ SlotDone(l)
    BY <1>3, <2>6 DEF PageLocked, PageDone, SlotEntered, SlotDone, handles
  <2> QED
    BY <1>6, <2>1, <2>2, <2>3, <2>4, <2>5, <2>6 DEF Work
<1>7. ASSUME ReaperWakes \/ ReaperReaps \/ Crash \/ Tick \/ UNCHANGED vars PROVE Paired'
  BY <1>3, <1>7 DEF ReaperWakes, ReaperReaps, Crash, Tick, vars, handles
<1> QED
  BY <1>5, <1>6, <1>7 DEF Next

\* Only ensure's fast path takes a leg from its start to a page or a slot.
LEMMA HandsStep ==
    ASSUME SessionAssumption, SessionInv, Paired, Next, NEW l \in Leg,
           leg[l].pc \in {"idle", "ensureLock"}, leg'[l].pc \in {"pageLock", "slotWait"}
    PROVE  ctx \in up
<1> DEFINE Elsewhere(m, r) == leg' = [leg EXCEPT ![m] = r] /\ r.pc \notin {"pageLock", "slotWait"}
<1>1. ASSUME NEW m \in Leg, NEW r, Elsewhere(m, r) PROVE FALSE
  <2>1. leg'[l] = IF l = m THEN r ELSE leg[l]
    BY <1>1 DEF SessionInv, Legs
  <2> QED
    BY <1>1, <2>1
<1>2. ASSUME NEW m \in Leg, NEW pc, pc \notin {"pageLock", "slotWait"}, At(m, pc)
      PROVE  FALSE
  <2> DEFINE r == [leg[m] EXCEPT !.pc = pc]
  <2>1. leg' = [leg EXCEPT ![m] = r] /\ r.pc = pc
    BY <1>2, LegAt DEF At, SessionInv
  <2> HIDE DEF r
  <2> QED
    BY <1>1, <1>2, <2>1
<1>3. ASSUME NEW m \in Leg, NEW why, Warms(m, why) PROVE FALSE
  <2>1. PICK r : leg' = [leg EXCEPT ![m] = r] /\ r.pc = "warmLock"
    BY <1>3, LegWarms DEF SessionInv
  <2> QED
    BY <1>1, <2>1
<1>4. ASSUME NEW m \in Leg, NEW out, Ends(m, out) PROVE FALSE
  <2>1. leg' = [leg EXCEPT ![m] = Ended(out)] /\ Ended(out).pc = "idle"
    BY <1>4, LegEnds DEF Ends
  <2> QED
    BY <1>1, <2>1
<1>5. ASSUME NEW m \in Leg, NEW q, Ensure(m, q) PROVE ctx \in up
  <2>1. CASE EnsureFast(m, q)
    BY <2>1 DEF EnsureFast, Alive, Paired
  <2>2. CASE EnsureStale(m, q)
    BY <1>2, <2>2 DEF EnsureStale
  <2>3. CASE EnsureLaunch(m, q)
    BY <1>3, <1>4, <2>3 DEF EnsureLaunch
  <2> QED
    BY <1>5, <2>1, <2>2, <2>3 DEF Ensure
<1>6. ASSUME NEW m \in Leg, Start(m) PROVE ctx \in up
  <2>1. CASE StartEnsure(m)
    BY <1>2, <1>5, <2>1 DEF StartEnsure
  <2>2. CASE StartWarmup(m)
    BY <1>3, <1>4, <2>1, <2>2 DEF StartWarmup
  <2>3. CASE StartClose(m)
    BY <1>2, <2>3 DEF StartClose
  <2> QED
    BY <1>6, <2>1, <2>2, <2>3 DEF Start, SessionAssumption
<1>7. ASSUME NEW m \in Leg, Work(m), ~EnsureLocked(m) PROVE FALSE
  <2>1. m # l
    BY <1>7 DEF Work, EnsureLocked, EnsureTorn, WarmLocked, WarmSkipped, WarmLaunchFails,
                Warmed, DropLocked, DropTorn, DropLaunch, CloseLocked, CloseTorn,
                PageLocked, PageDone, SlotEntered, SlotDone
  <2>2. ASSUME NEW r, leg' = [leg EXCEPT ![m] = r] PROVE FALSE
    BY <2>1, <2>2 DEF SessionInv, Legs
  <2>3. ASSUME NEW pc, At(m, pc) PROVE FALSE
    BY <2>2, <2>3 DEF At
  <2>4. ASSUME NEW out, Ends(m, out) PROVE FALSE
    BY <2>2, <2>4 DEF Ends
  <2>5. ASSUME NEW c, NEW q, Got(m, c, q) PROVE FALSE
    BY <2>2, <2>5 DEF Got
  <2>6. ASSUME NEW result, WarmupReturns(m, result) PROVE FALSE
    BY <2>3, <2>4, <2>5, <2>6 DEF WarmupReturns
  <2>7. CASE EnsureTorn(m) \/ WarmLocked(m) \/ DropLocked(m) \/ DropTorn(m)
             \/ CloseLocked(m) \/ CloseTorn(m) \/ SlotEntered(m)
    BY <2>3, <2>7 DEF EnsureTorn, WarmLocked, DropLocked, DropTorn, CloseLocked, CloseTorn,
                      SlotEntered
  <2>8. CASE WarmSkipped(m) \/ WarmLaunchFails(m) \/ Warmed(m)
    BY <2>6, <2>8 DEF WarmSkipped, WarmLaunchFails, Warmed
  <2>9. CASE DropLaunch(m)
    BY <1>3, <2>4, <2>9 DEF DropLaunch
  <2>10. CASE PageLocked(m) \/ PageDone(m) \/ SlotDone(m)
    BY <2>3, <2>4, <2>10 DEF PageLocked, PageDone, SlotDone
  <2> QED
    BY <1>7, <2>7, <2>8, <2>9, <2>10 DEF Work
<1>8. ASSUME ReaperWakes \/ ReaperReaps \/ Crash \/ Tick PROVE FALSE
  <2>1. leg' = leg
    BY <1>8 DEF ReaperWakes, ReaperReaps, Crash, Tick
  <2> QED
    BY <2>1
<1> QED
  BY <1>5, <1>6, <1>7, <1>8 DEF Next, EnsureLocked

\* On a machine with CDP alone no call is handed a browser that has gone (ensure, _alive).
THEOREM CdpHandsOutLive ==
    ASSUME "playwright" \notin Modes PROVE Spec => HandsOutLive
<1>1. Init => Paired
  BY DEF Init, Paired
<1>2. Paired /\ [Next]_vars => Paired'
  BY PairedStep, SessionAssumption
<1>3. SessionInv /\ Paired /\ [Next]_vars =>
        [\A l \in Leg :
          leg[l].pc \in {"idle", "ensureLock"} /\ leg'[l].pc \in {"pageLock", "slotWait"}
             => ctx \in up]_vars
  BY HandsStep, SessionAssumption
<1> QED
  BY <1>1, <1>2, <1>3, SessionIsSound, PTL DEF Spec, HandsOutLive

-----------------------------------------------------------------------------
(* The reaper and the work *)

Paging == {"pageLock", "onPage"}
Pagers == {l \in Leg : leg[l].pc \in Paging}

\* The timer has fired, or the reaper waits for the lock, and nothing was used for too
\* long.  A reaper that is asleep has seen less.
Late == idle > IdleTimeout /\ reaper \in {"due", "queued"}

Clock ==
    /\ idle \in Nat
    /\ reaper \in {"none", "asleep", "due", "queued", "ended"}
    /\ reaper = "asleep" => idle <= IdleTimeout

\* The page lock's queue, as Order and Exclusion say it of the other one.
Pages ==
    /\ Orders(pageq, Pagers)
    /\ \A l \in Leg : leg[l].pc = "onPage" => Head(pageq) = l

Slotted == \A l \in Leg : leg[l].pc \in {"slotWait", "onSlot"} => Role[l] = "request"

\* mmt_setup_status is alone.
Solo == \A l, m \in Busy : Role[l] = "status" => l = m

\* What may be ahead of the reaper: a close, which takes it along, and a warmup of
\* mmt_setup_status, which hands its context to nobody.
Harmless(l) ==
    \/ leg[l].pc = "closeLock"
    \/ leg[l].pc \in {"warmLock", "warmGoto"} /\ leg[l].why = "status" /\ Role[l] = "status"

\* When it is late, nobody is about to be given a context, and who has been given one
\* waits behind somebody's page.
Spared ==
    Late => /\ \A l \in Leg : Holds(l) => Harmless(l)
            /\ \A l \in Leg : leg[l].pc # "slotWait"
            /\ (\E l \in Leg : leg[l].pc = "pageLock") => \E l \in Leg : leg[l].pc = "onPage"

Queued == reaper = "queued" => idle > IdleTimeout /\ Inflight = {}

SpareInv == Clock /\ Pages /\ Slotted /\ Solo /\ Spared /\ Queued

\* A step of one leg, as far as pages and slots see it.
Moves(l, r) ==
    /\ leg' = [leg EXCEPT ![l] = r]
    /\ r.pc \in {"slotWait", "onSlot"} => Role[l] = "request"
    /\ \/ UNCHANGED pageq /\ leg[l].pc \notin Paging /\ r.pc \notin Paging
       \/ pageq' = Append(pageq, l) /\ leg[l].pc \notin Paging /\ r.pc = "pageLock"
       \/ UNCHANGED pageq /\ leg[l].pc = "pageLock" /\ r.pc = "onPage" /\ Head(pageq) = l
       \/ /\ pageq' = Tail(pageq) /\ leg[l].pc \in Paging /\ Head(pageq) = l
          /\ r.pc \notin Paging

\* Nobody is busy beside mmt_setup_status.
Admitted(l) ==
    leg[l].pc = "idle" => \A m \in Busy : Role[m] # "status" /\ Role[l] # "status"

\* A coroutine's move keeps the account of pages and slots, and leaves mmt_setup_status alone.
LEMMA MovesKeep ==
    ASSUME SessionInv, SpareInv, NEW l \in Leg, NEW r, Moves(l, r), Admitted(l)
    PROVE  Pages' /\ Slotted' /\ Solo'
<1>1. /\ leg'[l] = r /\ \A m \in Leg \ {l} : leg'[m] = leg[m]
  BY DEF Moves, SessionInv, Legs
<1>2. Slotted'
  BY <1>1 DEF Moves, SpareInv, Slotted
<1>3. Solo'
  <2> SUFFICES ASSUME NEW k \in Busy', NEW m \in Busy', Role[k] = "status", k # m PROVE FALSE
    BY DEF Solo
  <2>1. k \in Leg /\ m \in Leg /\ \A i \in {k, m} : i # l => i \in Busy
    BY <1>1 DEF Busy
  <2>2. CASE k # l /\ m # l
    BY <2>1, <2>2 DEF SpareInv, Solo
  <2>3. CASE leg[l].pc # "idle"
    <3>1. k \in Busy /\ m \in Busy
      BY <2>1, <2>3 DEF Busy
    <3> QED
      BY <3>1 DEF SpareInv, Solo
  <2>4. CASE leg[l].pc = "idle" /\ (k = l \/ m = l)
    BY <2>1, <2>4 DEF Admitted
  <2> QED
    BY <2>2, <2>3, <2>4
<1>4. Orders(pageq, Pagers) /\ \A m \in Leg : leg[m].pc = "onPage" => Head(pageq) = m
  BY DEF SpareInv, Pages
<1>5. CASE UNCHANGED pageq /\ leg[l].pc \notin Paging /\ r.pc \notin Paging
  <2>1. Pagers' = Pagers
    BY <1>1, <1>5 DEF Pagers
  <2>2. \A m \in Leg : leg'[m].pc = "onPage" => leg[m].pc = "onPage"
    BY <1>1, <1>5 DEF Paging
  <2> QED
    BY <1>2, <1>3, <1>4, <1>5, <2>1, <2>2 DEF Pages
<1>6. CASE pageq' = Append(pageq, l) /\ leg[l].pc \notin Paging /\ r.pc = "pageLock"
  <2>1. Pagers' = Pagers \cup {l} /\ l \notin Pagers
    BY <1>1, <1>6 DEF Pagers, Paging
  <2>2. /\ Orders(pageq', Pagers') /\ (pageq # <<>> => Head(pageq') = Head(pageq))
    BY <1>4, <1>6, <2>1, AppendOrders
  <2>3. \A m \in Leg : leg'[m].pc = "onPage" => leg[m].pc = "onPage" /\ m \in Pagers
    BY <1>1, <1>6 DEF Pagers, Paging
  <2>4. Pagers # {} => pageq # <<>>
    BY <1>4, EmptySeq DEF Orders
  <2> QED
    BY <1>2, <1>3, <1>4, <2>2, <2>3, <2>4 DEF Pages
<1>7. CASE UNCHANGED pageq /\ leg[l].pc = "pageLock" /\ r.pc = "onPage" /\ Head(pageq) = l
  <2>1. Pagers' = Pagers
    BY <1>1, <1>7 DEF Pagers, Paging
  <2>2. \A m \in Leg : leg'[m].pc = "onPage" => leg[m].pc = "onPage" \/ m = l
    BY <1>1
  <2> QED
    BY <1>2, <1>3, <1>4, <1>7, <2>1, <2>2 DEF Pages
<1>8. CASE /\ pageq' = Tail(pageq) /\ leg[l].pc \in Paging /\ Head(pageq) = l
           /\ r.pc \notin Paging
  <2>1. Pagers' = Pagers \ {l} /\ l \in Pagers
    BY <1>1, <1>8 DEF Pagers
  <2>2. pageq # <<>>
    BY <1>4, <2>1, EmptySeq DEF Orders
  <2>3. Orders(pageq', Pagers')
    BY <1>4, <1>8, <2>1, <2>2, TailOrders
  <2>4. \A m \in Leg : leg'[m].pc # "onPage"
    BY <1>1, <1>4, <1>8 DEF Paging
  <2> QED
    BY <1>2, <1>3, <2>3, <2>4 DEF Pages
<1> QED
  BY <1>5, <1>6, <1>7, <1>8 DEF Moves

\* The clock starts anew.
LEMMA TouchKeeps ==
    ASSUME SessionAssumption, SpareInv, idle' = 0, reaper # "queued",
           reaper' = reaper \/ reaper' = "asleep"
    PROVE  Clock' /\ Spared' /\ Queued'
BY DEF SessionAssumption, SpareInv, Clock, Spared, Queued, Late

\* Nothing is left to reap.
LEMMA DropKeeps ==
    ASSUME SpareInv, UNCHANGED idle, reaper' = "none"
    PROVE  Clock' /\ Spared' /\ Queued'
BY DEF SpareInv, Clock, Spared, Queued, Late

\* A leg goes on while the clock stands; when it is late, it is given nothing.
LEMMA CalmKeeps ==
    ASSUME SessionInv, SpareInv, NEW l \in Leg, NEW r, Moves(l, r), UNCHANGED <<idle, reaper>>,
           Late => /\ r.pc \notin {"slotWait", "onSlot", "pageLock", "onPage"}
                   /\ leg[l].pc # "onPage"
                   /\ \A m \in Leg : Holds(m)' => Harmless(m)'
    PROVE  Clock' /\ Spared' /\ Queued'
<1>1. /\ leg'[l] = r /\ \A m \in Leg \ {l} : leg'[m] = leg[m]
  BY DEF Moves, SessionInv, Legs
<1>2. Clock'
  BY DEF SpareInv, Clock
<1>3. Late' = Late
  BY DEF Late
<1>4. Spared'
  <2> SUFFICES ASSUME Late
               PROVE  /\ \A m \in Leg : leg'[m].pc # "slotWait"
                      /\ (\E m \in Leg : leg'[m].pc = "pageLock") =>
                            \E m \in Leg : leg'[m].pc = "onPage"
    BY <1>3 DEF Spared
  <2>1. \A m \in Leg : leg'[m].pc # "slotWait"
    BY <1>1 DEF SpareInv, Spared
  <2>2. ASSUME NEW m \in Leg, leg'[m].pc = "pageLock" PROVE \E k \in Leg : leg'[k].pc = "onPage"
    <3>1. m # l /\ leg[m].pc = "pageLock"
      BY <1>1, <2>2
    <3>2. PICK k \in Leg : leg[k].pc = "onPage"
      BY <3>1 DEF SpareInv, Spared
    <3> QED
      BY <1>1, <3>2
  <2> QED
    BY <2>1, <2>2
<1>5. Queued'
  <2> SUFFICES ASSUME reaper = "queued" PROVE idle > IdleTimeout /\ Inflight' = {}
    BY DEF Queued
  <2>1. idle > IdleTimeout /\ Inflight = {} /\ Late
    BY DEF SpareInv, Queued, Late
  <2>2. \A m \in Leg : leg'[m].pc \notin {"onPage", "onSlot"}
    BY <1>1, <2>1 DEF Inflight
  <2> QED
    BY <2>1, <2>2 DEF Inflight
<1> QED
  BY <1>2, <1>4, <1>5

\* Whoever waits for the lock, or has it, is in its queue and nowhere else.
LEMMA HoldersWait ==
    ASSUME SessionAssumption, SessionInv, NEW m \in Leg, Holds(m)
    PROVE  leg[m].pc \in Waiting \cup Critical
<1>1. m \in Waiters
  BY TailOrders DEF SessionInv, Order, Holds
<1> QED
  BY <1>1 DEF Waiters, SessionAssumption

\* When the reaper is late there is a context; when it waits it is in the queue, and
\* then it is late.
LEMMA WhenLate ==
    ASSUME SessionAssumption, SessionInv, SpareInv
    PROVE  /\ Late => ctx # None /\ reaper # "none"
           /\ reaper = "queued" => Late /\ lockq # <<>> /\ Inflight = {}
<1>1. Late => ctx # None /\ reaper # "none"
  BY DEF Late, SessionInv, Handles, ReaperWatchesContext
<1>2. ASSUME reaper = "queued" PROVE Late /\ lockq # <<>> /\ Inflight = {}
  <2>1. Reaper \in Waiters
    BY <1>2 DEF Waiters
  <2>2. lockq # <<>>
    BY <2>1, EmptySeq DEF SessionInv, Order, Orders
  <2> QED
    BY <1>2, <2>2 DEF SpareInv, Queued, Late
<1> QED
  BY <1>1, <1>2

\* A leg that is neither closing nor setting up finds no late reaper when it has the lock.
LEMMA InTime ==
    ASSUME SessionAssumption, SessionInv, SpareInv, NEW l \in Leg, Holds(l),
           leg[l].pc \notin {"closeLock", "warmLock", "warmGoto"}
    PROVE  ~Late /\ reaper # "queued"
<1>1. ~Harmless(l)
  BY DEF Harmless
<1> QED
  BY <1>1, WhenLate DEF SpareInv, Spared

\* A leg leaves the lock with the context: only a page or a slot is new to it.
LEMMA GotMoves ==
    ASSUME SessionAssumption, SessionInv, NEW l \in Leg, leg[l].pc \notin Paging,
           NEW c, NEW q, Got(l, c, q)
    PROVE  \E r : Moves(l, r)
<1> DEFINE r == CASE Role[l] = "page" -> [leg[l] EXCEPT !.pc = "pageLock", !.got = c]
                  [] Role[l] = "request" /\ c # None ->
                        [leg[l] EXCEPT !.pc = "slotWait", !.got = c]
                  [] Role[l] = "request" /\ c = None -> Ended("failed")
                  [] Role[l] = "status" /\ ~warm' ->
                        [leg[l] EXCEPT !.pc = "warmLock", !.why = "status"]
                  [] OTHER -> Ended("ok")
<1>1. leg' = [leg EXCEPT ![l] = r]
  BY DEF Got
<1>2. IsLeg(leg[l]) /\ Role[l] \in {"page", "request", "recover", "status"}
  BY DEF SessionInv, Legs, SessionAssumption
<1>3. CASE Role[l] = "page"
  <2>1. r = [leg[l] EXCEPT !.pc = "pageLock", !.got = c]
    BY <1>3
  <2>2. r.pc = "pageLock"
    BY <1>2, <2>1 DEF IsLeg
  <2> HIDE DEF r
  <2>3. pageq' = Append(pageq, l)
    BY <1>3 DEF Got
  <2> QED
    BY <1>1, <2>2, <2>3 DEF Moves
<1>4. CASE Role[l] # "page"
  <2>1. UNCHANGED pageq
    BY <1>4 DEF Got
  <2>2. r.pc \notin Paging /\ (r.pc \in {"slotWait", "onSlot"} => Role[l] = "request")
    <3>1. CASE Role[l] = "request" /\ c # None
      <4>1. r = [leg[l] EXCEPT !.pc = "slotWait", !.got = c]
        BY <3>1
      <4>2. r.pc = "slotWait"
        BY <1>2, <4>1 DEF IsLeg
      <4> HIDE DEF r
      <4> QED
        BY <3>1, <4>2 DEF Paging
    <3>2. CASE Role[l] = "status" /\ ~warm'
      <4>1. r = [leg[l] EXCEPT !.pc = "warmLock", !.why = "status"]
        BY <3>2
      <4>2. r.pc = "warmLock"
        BY <1>2, <4>1 DEF IsLeg
      <4> HIDE DEF r
      <4> QED
        BY <4>2 DEF Paging
    <3>3. CASE ~(Role[l] = "request" /\ c # None) /\ ~(Role[l] = "status" /\ ~warm')
      <4>1. r = Ended("failed") \/ r = Ended("ok")
        BY <1>2, <1>4, <3>3
      <4> HIDE DEF r
      <4> QED
        BY <4>1, LegEnds DEF Paging
    <3> QED
      BY <3>1, <3>2, <3>3
  <2> HIDE DEF r
  <2> QED
    BY <1>1, <2>1, <2>2 DEF Moves
<1> QED
  BY <1>3, <1>4

\* A leg goes from one place off the pages and the slots to another.
LEMMA AtMoves ==
    ASSUME SessionInv, NEW l \in Leg, leg[l].pc \notin Paging, UNCHANGED pageq,
           NEW pc, pc \notin Paging \cup {"slotWait", "onSlot"}, At(l, pc)
    PROVE  \E r : Moves(l, r) /\ r.pc = pc /\ r.why = leg[l].why
<1> DEFINE r == [leg[l] EXCEPT !.pc = pc]
<1>1. leg' = [leg EXCEPT ![l] = r] /\ r.pc = pc /\ r.why = leg[l].why
  BY DEF At, SessionInv, Legs, IsLeg
<1> HIDE DEF r
<1> QED
  BY <1>1 DEF Moves

\* The end of a call is a move of its coroutine.
LEMMA EndsMoves ==
    ASSUME SessionAssumption, SessionInv, NEW l \in Leg, leg[l].pc \notin Paging,
           UNCHANGED pageq, NEW out, Ends(l, out)
    PROVE  \E r : Moves(l, r) /\ r.pc = "idle"
<1>1. leg' = [leg EXCEPT ![l] = Ended(out)] /\ Ended(out).pc = "idle"
  BY LegEnds DEF Ends
<1> QED
  BY <1>1 DEF Moves, Paging

\* Going to warm up is a move of its coroutine.
LEMMA WarmsMoves ==
    ASSUME SessionInv, NEW l \in Leg, leg[l].pc \notin Paging, UNCHANGED pageq,
           NEW why, Warms(l, why)
    PROVE  \E r : Moves(l, r) /\ r.pc = "warmLock" /\ r.why = why
<1> DEFINE r == [leg[l] EXCEPT !.pc = "warmLock", !.why = why]
<1>1. leg' = [leg EXCEPT ![l] = r]
  BY DEF Warms, SessionInv, Legs, IsLeg
<1>2. r.pc = "warmLock" /\ r.why = why
  BY DEF SessionInv, Legs, IsLeg
<1> HIDE DEF r
<1> QED
  BY <1>1, <1>2 DEF Moves, Paging

\* The three ways a leg's step leaves the clock and the reaper.
LEMMA TouchStep ==
    ASSUME SessionAssumption, SessionInv, SpareInv, NEW l \in Leg, NEW r, Moves(l, r),
           Admitted(l), idle' = 0, reaper # "queued", reaper' = reaper \/ reaper' = "asleep"
    PROVE  SpareInv'
BY MovesKeep, TouchKeeps DEF SpareInv

\* A step that takes the reaper along spares the work: there is nobody to reap it.
LEMMA DropStep ==
    ASSUME SessionInv, SpareInv, NEW l \in Leg, NEW r, Moves(l, r),
           Admitted(l), UNCHANGED idle, reaper' = "none"
    PROVE  SpareInv'
BY MovesKeep, DropKeeps DEF SpareInv

\* A step that leaves clock and reaper as they are spares the work if, when the reaper is
\* late, it puts nobody near a page and leaves the lock to the harmless.
LEMMA CalmStep ==
    ASSUME SessionInv, SpareInv, NEW l \in Leg, NEW r, Moves(l, r),
           Admitted(l), UNCHANGED <<idle, reaper>>,
           Late => /\ r.pc \notin {"slotWait", "onSlot", "pageLock", "onPage"}
                   /\ leg[l].pc # "onPage"
                   /\ \A m \in Leg : Holds(m)' => Harmless(m)'
    PROVE  SpareInv'
BY MovesKeep, CalmKeeps DEF SpareInv

\* A launch starts the clock and a reaper that sleeps.
LEMMA LaunchTouches ==
    ASSUME SessionAssumption, SessionInv, SpareInv, ctx = None, NEW mode, Launches(mode)
    PROVE  /\ idle' = 0 /\ reaper # "queued" /\ UNCHANGED pageq
           /\ reaper' = reaper \/ reaper' = "asleep"
BY WhenLate DEF Launches

\* ensure, the lock being held by a leg that no late reaper waits behind.
LEMMA EnsureSpares ==
    ASSUME SessionAssumption, SessionInv, SpareInv, NEW l \in Leg, NEW q, Ensure(l, q),
           leg[l].pc \notin Paging, Admitted(l), reaper # "queued"
    PROVE  SpareInv'
<1>1. CASE EnsureFast(l, q)
  <2>1. Got(l, ctx, Tail(q)) /\ idle' = 0 /\ UNCHANGED reaper
    BY <1>1 DEF EnsureFast
  <2>2. PICK r : Moves(l, r)
    BY <2>1, GotMoves
  <2> QED
    BY <2>1, <2>2, TouchStep
<1>2. CASE EnsureStale(l, q)
  <2>1. At(l, "ensureTear") /\ UNCHANGED <<idle, pageq>> /\ reaper' = "none"
    BY <1>2 DEF EnsureStale, TeardownBegin
  <2>2. PICK r : Moves(l, r)
    BY <2>1, AtMoves DEF Paging
  <2> QED
    BY <2>1, <2>2, DropStep
<1>3. ASSUME ctx = None, NEW mode, Launches(mode), Warms(l, "ensure") PROVE SpareInv'
  <2>1. /\ idle' = 0 /\ reaper # "queued" /\ UNCHANGED pageq
        /\ reaper' = reaper \/ reaper' = "asleep"
    BY <1>3, LaunchTouches
  <2>2. PICK r : Moves(l, r)
    BY <1>3, <2>1, WarmsMoves
  <2> QED
    BY <2>1, <2>2, TouchStep
<1>4. CASE ctx = None /\ LaunchFails /\ Ends(l, "failed")
  <2>1. UNCHANGED <<idle, reaper, pageq>> /\ ~Late
    BY <1>4, WhenLate DEF LaunchFails
  <2>2. PICK r : Moves(l, r)
    BY <1>4, <2>1, EndsMoves
  <2> QED
    BY <2>1, <2>2, CalmStep
<1> QED
  BY <1>1, <1>2, <1>3, <1>4 DEF Ensure, EnsureLaunch

\* How warmup ends: when the reaper is late, its caller is mmt_setup_status, and alone.
LEMMA ReturnsSpares ==
    ASSUME SessionAssumption, SessionInv, SessionInv', SpareInv, NEW l \in Leg, Holds(l),
           leg[l].pc \in {"warmLock", "warmGoto"}, UNCHANGED <<idle, reaper>>,
           NEW result, WarmupReturns(l, result)
    PROVE  SpareInv'
<1>1. leg[l].pc \notin Paging /\ leg[l].pc # "idle" /\ leg[l].pc # "closeLock"
  BY DEF Paging
<1>2. Admitted(l)
  BY <1>1 DEF Admitted
<1>3. CASE leg[l].why = "status"
  <2>1. /\ UNCHANGED pageq
        /\ \E out : Ends(l, out)
    BY <1>3 DEF WarmupReturns
  <2>2. PICK r : Moves(l, r) /\ r.pc = "idle"
    BY <1>1, <2>1, EndsMoves
  <2>3. ASSUME Late, NEW m \in Leg, Holds(m)' PROVE FALSE
    <3>1. Role[l] = "status"
      BY <2>3, <1>1 DEF SpareInv, Spared, Harmless
    <3>2. leg'[m].pc \in Waiting \cup Critical
      <4>1. m \in Waiters'
        BY <2>3, TailOrders DEF SessionInv, Order, Holds
      <4> QED
        BY <4>1 DEF Waiters, SessionAssumption
    <3>3. leg'[m].pc # "idle"
      BY <3>2 DEF Waiting, Critical, Tearing
    <3>4. m # l /\ leg[m] = leg'[m]
      BY <2>2, <3>3 DEF Moves, SessionInv, Legs
    <3> QED
      BY <1>1, <3>1, <3>3, <3>4 DEF SpareInv, Solo, Busy
  <2> QED
    BY <1>1, <1>2, <2>2, <2>3, CalmStep DEF Paging
<1>4. CASE leg[l].why # "status"
  <2>1. ~Late
    BY <1>1, <1>4 DEF SpareInv, Spared, Harmless
  <2>2. \/ At(l, "dropLock") /\ UNCHANGED pageq
        \/ Got(l, ctx, Tail(lockq))
    BY <1>4 DEF WarmupReturns
  <2>3. PICK r : Moves(l, r)
    BY <1>1, <2>2, AtMoves, GotMoves DEF Paging
  <2> QED
    BY <1>2, <2>1, <2>3, CalmStep
<1> QED
  BY <1>3, <1>4

LEMMA WarmupSpares ==
    ASSUME SessionAssumption, SessionInv, SessionInv', SpareInv, NEW l \in Leg,
           WarmLocked(l) \/ WarmSkipped(l) \/ WarmLaunchFails(l) \/ Warmed(l)
    PROVE  SpareInv'
<1>1. leg[l].pc \in {"warmLock", "warmGoto"}
  BY DEF WarmLocked, WarmSkipped, WarmLaunchFails, Warmed
<1>2. Holds(l)
  BY <1>1 DEF WarmLocked, WarmSkipped, WarmLaunchFails, Warmed, SessionInv, Exclusion,
              Critical
<1>3. leg[l].pc \notin Paging /\ Admitted(l)
  BY <1>1 DEF Paging, Admitted
<1>4. ASSUME WarmLocked(l), NEW mode, ctx = None, Launches(mode) PROVE SpareInv'
  <2>1. /\ idle' = 0 /\ reaper # "queued" /\ UNCHANGED pageq
        /\ reaper' = reaper \/ reaper' = "asleep"
    BY <1>4, LaunchTouches
  <2>2. PICK r : Moves(l, r)
    BY <1>3, <1>4, <2>1, AtMoves DEF WarmLocked, Paging
  <2> QED
    BY <1>3, <2>1, <2>2, TouchStep
<1>5. CASE WarmLocked(l) /\ UNCHANGED <<handles, world, reaper, idle, pageq>>
  <2>1. /\ UNCHANGED <<lockq, pageq, idle, reaper>> /\ At(l, "warmGoto")
        /\ leg[l].pc = "warmLock"
    BY <1>5 DEF WarmLocked
  <2>2. PICK r : Moves(l, r) /\ r.pc = "warmGoto" /\ r.why = leg[l].why
    BY <1>3, <2>1, AtMoves DEF Paging
  <2>3. leg'[l] = r
    BY <2>2 DEF Moves, SessionInv, Legs
  <2>4. ASSUME Late, NEW m \in Leg, Holds(m)' PROVE Harmless(m)'
    <3>1. m = l
      BY <1>2, <2>1, <2>4 DEF Holds
    <3>2. Harmless(l)
      BY <1>2, <2>4 DEF SpareInv, Spared
    <3> QED
      BY <2>1, <2>2, <2>3, <3>1, <3>2 DEF Harmless
  <2> QED
    BY <1>3, <2>1, <2>2, <2>4, CalmStep
<1>6. ASSUME NEW result, UNCHANGED <<idle, reaper>>, WarmupReturns(l, result) PROVE SpareInv'
  BY <1>1, <1>2, <1>6, ReturnsSpares
<1>7. CASE WarmSkipped(l) \/ WarmLaunchFails(l)
  BY <1>6, <1>7 DEF WarmSkipped, WarmLaunchFails
<1>8. CASE Warmed(l)
  BY <1>6, <1>8 DEF Warmed
<1> QED
  BY <1>4, <1>5, <1>7, <1>8 DEF WarmLocked

\* A teardown begins, and takes the reaper along.
LEMMA TearSpares ==
    ASSUME SessionAssumption, SessionInv, SpareInv, NEW l \in Leg,
           DropLocked(l) \/ CloseLocked(l)
    PROVE  SpareInv'
<1>1. /\ UNCHANGED <<idle, pageq>> /\ reaper' = "none"
      /\ \E pc \in {"dropTear", "closeTear"} : At(l, pc)
      /\ leg[l].pc \in {"dropLock", "closeLock"}
  BY DEF DropLocked, CloseLocked, TeardownBegin
<1>2. PICK r : Moves(l, r)
  BY <1>1, AtMoves DEF Paging
<1>3. Admitted(l)
  BY <1>1 DEF Admitted
<1> QED
  BY <1>1, <1>2, <1>3, DropStep

\* It ends, where no reaper is.
LEMMA TornSpares ==
    ASSUME SessionAssumption, SessionInv, SpareInv, NEW l \in Leg,
           EnsureTorn(l) \/ DropTorn(l) \/ CloseTorn(l)
    PROVE  SpareInv'
<1>1. /\ UNCHANGED <<idle, reaper, pageq>> /\ leg[l].pc \in Tearing
      /\ \E pc \in {"ensureLock", "dropLaunch"} : At(l, pc)
  BY DEF EnsureTorn, DropTorn, CloseTorn, TeardownEnd, Tearing
<1>2. ~Late
  BY <1>1 DEF SessionInv, Torn, Late
<1>3. leg[l].pc \notin Paging /\ Admitted(l)
  BY <1>1 DEF Tearing, Paging, Admitted
<1>4. PICK r : Moves(l, r)
  BY <1>1, <1>3, AtMoves DEF Paging
<1> QED
  BY <1>1, <1>2, <1>3, <1>4, CalmStep

LEMMA FallbackSpares ==
    ASSUME SessionAssumption, SessionInv, SpareInv, NEW l \in Leg, DropLaunch(l)
    PROVE  SpareInv'
<1>1. ctx = None /\ leg[l].pc \notin Paging /\ Admitted(l)
  BY DEF DropLaunch, SessionInv, Torn, Paging, Admitted
<1>2. ASSUME NEW mode, Launches(mode), Warms(l, "forced") PROVE SpareInv'
  <2>1. /\ idle' = 0 /\ reaper # "queued" /\ UNCHANGED pageq
        /\ reaper' = reaper \/ reaper' = "asleep"
    BY <1>1, <1>2, LaunchTouches
  <2>2. PICK r : Moves(l, r)
    BY <1>1, <1>2, <2>1, WarmsMoves
  <2> QED
    BY <1>1, <2>1, <2>2, TouchStep
<1>3. CASE LaunchFails /\ Ends(l, "failed")
  <2>1. UNCHANGED <<idle, reaper, pageq>> /\ ~Late
    BY <1>1, <1>3, WhenLate DEF LaunchFails
  <2>2. PICK r : Moves(l, r)
    BY <1>1, <1>3, <2>1, EndsMoves
  <2> QED
    BY <1>1, <2>1, <2>2, CalmStep
<1> QED
  BY <1>2, <1>3 DEF DropLaunch

\* A page or a slot is taken, or given back.
LEMMA PageSpares ==
    ASSUME SessionAssumption, SessionInv, SpareInv, NEW l \in Leg,
           PageLocked(l) \/ PageDone(l) \/ SlotEntered(l) \/ SlotDone(l)
    PROVE  SpareInv'
<1>1. Admitted(l)
  BY DEF Admitted, PageLocked, PageDone, SlotEntered, SlotDone
<1>2. ASSUME NEW pc, At(l, pc) PROVE \E r : leg' = [leg EXCEPT ![l] = r] /\ r.pc = pc
  <2> DEFINE r == [leg[l] EXCEPT !.pc = pc]
  <2>1. leg' = [leg EXCEPT ![l] = r] /\ r.pc = pc
    BY <1>2, LegAt DEF At, SessionInv
  <2> HIDE DEF r
  <2> QED
    BY <2>1
<1>3. ASSUME NEW out, Ends(l, out) PROVE \E r : leg' = [leg EXCEPT ![l] = r] /\ r.pc = "idle"
  BY <1>3, LegEnds DEF Ends
<1>4. CASE PageLocked(l)
  <2>1. leg[l].pc = "pageLock" /\ Head(pageq) = l /\ UNCHANGED <<idle, reaper>>
    BY <1>4 DEF PageLocked
  <2>2. ~Late
    BY <2>1 DEF SpareInv, Spared, Pages
  <2>3. CASE At(l, "onPage") /\ UNCHANGED pageq
    <3>1. PICK r : leg' = [leg EXCEPT ![l] = r] /\ r.pc = "onPage"
      BY <1>2, <2>3
    <3>2. Moves(l, r)
      BY <2>1, <2>3, <3>1 DEF Moves
    <3> QED
      BY <1>1, <2>1, <2>2, <3>2, CalmStep
  <2>4. CASE Ends(l, "failed") /\ pageq' = Tail(pageq)
    <3>1. PICK r : leg' = [leg EXCEPT ![l] = r] /\ r.pc = "idle"
      BY <1>3, <2>4
    <3>2. Moves(l, r)
      BY <2>1, <2>4, <3>1 DEF Moves, Paging
    <3> QED
      BY <1>1, <2>1, <2>2, <3>2, CalmStep
  <2> QED
    BY <1>4, <2>3, <2>4 DEF PageLocked
<1>5. CASE PageDone(l)
  <2>1. /\ leg[l].pc = "onPage" /\ pageq' = Tail(pageq) /\ idle' = 0 /\ UNCHANGED reaper
        /\ \E out : Ends(l, out)
    BY <1>5 DEF PageDone
  <2>2. PICK r : leg' = [leg EXCEPT ![l] = r] /\ r.pc = "idle"
    BY <1>3, <2>1
  <2>3. Head(pageq) = l
    BY <2>1 DEF SpareInv, Pages
  <2>4. Moves(l, r)
    BY <2>1, <2>2, <2>3 DEF Moves, Paging
  <2>5. reaper # "queued"
    BY <2>1, WhenLate DEF Inflight
  <2> QED
    BY <1>1, <2>1, <2>4, <2>5, TouchStep
<1>6. CASE SlotEntered(l)
  <2>1. /\ leg[l].pc = "slotWait" /\ At(l, "onSlot") /\ UNCHANGED <<pageq, idle, reaper>>
    BY <1>6 DEF SlotEntered
  <2>2. ~Late /\ Role[l] = "request"
    BY <2>1 DEF SpareInv, Spared, Slotted
  <2>3. PICK r : leg' = [leg EXCEPT ![l] = r] /\ r.pc = "onSlot"
    BY <1>2, <2>1
  <2>4. Moves(l, r)
    BY <2>1, <2>2, <2>3 DEF Moves, Paging
  <2> QED
    BY <1>1, <2>1, <2>2, <2>4, CalmStep
<1>7. CASE SlotDone(l)
  <2>1. /\ leg[l].pc = "onSlot" /\ UNCHANGED <<lockq, pageq, reaper>>
        /\ idle' = 0 \/ idle' = idle
        /\ \E out : Ends(l, out)
    BY <1>7 DEF SlotDone
  <2>2. PICK r : Moves(l, r) /\ r.pc = "idle"
    BY <2>1, EndsMoves DEF Paging
  <2>3. reaper # "queued"
    BY <2>1, WhenLate DEF Inflight
  <2>4. ASSUME Late, NEW m \in Leg, Holds(m)' PROVE Harmless(m)'
    <3>1. Holds(m) /\ Harmless(m)
      BY <2>1, <2>4 DEF Holds, SpareInv, Spared
    <3>2. m # l
      BY <2>1, <3>1 DEF Harmless
    <3>3. leg'[m] = leg[m]
      BY <2>2, <3>2 DEF Moves, SessionInv, Legs
    <3> QED
      BY <3>1, <3>3 DEF Harmless
  <2>5. CASE idle' = 0
    BY <1>1, <2>1, <2>2, <2>3, <2>5, TouchStep
  <2>6. CASE idle' = idle
    BY <1>1, <2>1, <2>2, <2>4, <2>6, CalmStep
  <2> QED
    BY <2>1, <2>5, <2>6
<1> QED
  BY <1>4, <1>5, <1>6, <1>7

\* A coroutine starts.  It takes a free lock, which no reaper waits for; or it waits
\* behind those that are there; or it closes or sets up.
LEMMA StartSpares ==
    ASSUME SessionAssumption, SessionInv, SpareInv, NEW l \in Leg, Start(l)
    PROVE  SpareInv'
<1>1. leg[l].pc = "idle" /\ leg[l].pc \notin Paging /\ Admitted(l)
  BY DEF Start, Admitted, Paging
<1>2. ~Harmless(l)
  BY <1>1 DEF Harmless
<1>3. ASSUME NEW r, Moves(l, r), UNCHANGED <<idle, reaper>>,
             r.pc \notin {"slotWait", "onSlot", "pageLock", "onPage"},
             \/ UNCHANGED lockq
             \/ /\ lockq' = Append(lockq, l)
                /\ \/ lockq # <<>> \/ r.pc = "closeLock"
                   \/ r.pc = "warmLock" /\ r.why = "status" /\ Role[l] = "status"
      PROVE  SpareInv'
  <2>1. /\ leg'[l] = r /\ \A m \in Leg \ {l} : leg'[m] = leg[m]
    BY <1>3 DEF Moves, SessionInv, Legs
  <2>2. ASSUME Late, NEW m \in Leg, Holds(m) PROVE Harmless(m)'
    <3>1. Harmless(m) /\ m # l
      BY <1>2, <2>2 DEF SpareInv, Spared
    <3> QED
      BY <2>1, <3>1 DEF Harmless
  <2>3. ASSUME Late, NEW m \in Leg, Holds(m)' PROVE Harmless(m)'
    <3>1. CASE UNCHANGED lockq
      BY <2>2, <2>3, <3>1 DEF Holds
    <3>2. CASE lockq' = Append(lockq, l)
      <4>1. l \notin Waiters
        BY <1>1 DEF Waiters, Waiting, Critical, Tearing, SessionAssumption
      <4>2. /\ lockq # <<>> => Head(lockq') = Head(lockq)
            /\ lockq = <<>> => Head(lockq') = l
        BY <3>2, <4>1, AppendOrders DEF SessionInv, Order
      <4>3. CASE lockq # <<>>
        BY <2>2, <2>3, <4>2, <4>3 DEF Holds
      <4>4. CASE lockq = <<>>
        <5>1. m = l
          BY <2>3, <4>2, <4>4 DEF Holds
        <5>2. lockq' # lockq
          <6>1. lockq' # <<>>
            BY <2>3 DEF Holds
          <6> QED
            BY <4>4, <6>1
        <5> QED
          BY <1>3, <2>1, <4>4, <5>1, <5>2 DEF Harmless
      <4> QED
        BY <4>3, <4>4
    <3> QED
      BY <1>3, <3>1, <3>2
  <2> QED
    BY <1>1, <1>3, <2>3, CalmStep
<1>4. CASE StartEnsure(l)
  <2>1. CASE lockq = <<>>
    <3>1. reaper # "queued"
      BY <2>1, WhenLate
    <3> QED
      BY <1>1, <1>4, <2>1, <3>1, EnsureSpares DEF StartEnsure
  <2>2. CASE lockq # <<>>
    <3>1. /\ At(l, "ensureLock") /\ lockq' = Append(lockq, l)
          /\ UNCHANGED <<pageq, reaper, idle>>
      BY <1>4, <2>2 DEF StartEnsure
    <3>2. PICK r : Moves(l, r) /\ r.pc = "ensureLock"
      BY <1>1, <3>1, AtMoves DEF Paging
    <3> QED
      BY <1>3, <2>2, <3>1, <3>2
  <2> QED
    BY <2>1, <2>2
<1>5. CASE StartClose(l)
  <2>1. /\ At(l, "closeLock") /\ lockq' = Append(lockq, l)
        /\ UNCHANGED <<pageq, reaper, idle>>
    BY <1>5 DEF StartClose
  <2>2. PICK r : Moves(l, r) /\ r.pc = "closeLock"
    BY <1>1, <2>1, AtMoves DEF Paging
  <2> QED
    BY <1>3, <2>1, <2>2
<1>6. CASE StartWarmup(l) /\ Role[l] = "status"
  <2>1. CASE Ends(l, "ok") /\ UNCHANGED <<lockq, pageq, handles, world, reaper, idle>>
    <3>1. PICK r : Moves(l, r) /\ r.pc = "idle"
      BY <1>1, <2>1, EndsMoves
    <3> QED
      BY <1>3, <2>1, <3>1
  <2>2. CASE /\ Warms(l, "status") /\ lockq' = Append(lockq, l)
             /\ UNCHANGED <<pageq, handles, world, reaper, idle>>
    <3>1. PICK r : Moves(l, r) /\ r.pc = "warmLock" /\ r.why = "status"
      BY <1>1, <2>2, WarmsMoves
    <3> QED
      BY <1>3, <1>6, <2>2, <3>1
  <2> QED
    BY <1>4, <1>6, <2>1, <2>2 DEF StartWarmup
<1> QED
  BY <1>4, <1>5, <1>6 DEF Start, SessionAssumption

\* The reaper looks before it queues.
LEMMA WakesSpares ==
    ASSUME SessionAssumption, SessionInv, SpareInv, ReaperWakes
    PROVE  SpareInv'
<1>1. /\ ctx # None /\ reaper = "due" /\ UNCHANGED <<leg, pageq>>
  BY DEF ReaperWakes, SessionInv, Handles, ReaperWatchesContext
<1>2. Pages' /\ Slotted' /\ Solo' /\ Inflight' = Inflight
  BY <1>1 DEF SpareInv, Pages, Slotted, Solo, Busy, Pagers, Inflight
<1>3. CASE reaper' = "asleep" /\ idle' \in {0, idle} /\ (idle' = idle => ~(idle > IdleTimeout))
  <2>1. idle' <= IdleTimeout /\ idle' \in Nat
    BY <1>3 DEF SpareInv, Clock, SessionAssumption
  <2> QED
    BY <1>2, <1>3, <2>1 DEF SpareInv, Clock, Spared, Queued, Late
<1>4. CASE /\ reaper' = "queued" /\ lockq' = Append(lockq, Reaper) /\ UNCHANGED idle
           /\ idle > IdleTimeout /\ Inflight = {}
  <2>1. Late /\ Clock' /\ Queued'
    BY <1>1, <1>2, <1>4 DEF SpareInv, Clock, Queued, Late
  <2>2. ASSUME NEW m \in Leg, Holds(m)' PROVE Harmless(m)'
    <3>1. Reaper \notin Waiters
      BY <1>1 DEF Waiters, SessionAssumption
    <3>2. /\ lockq # <<>> => Head(lockq') = Head(lockq)
          /\ lockq = <<>> => Head(lockq') = Reaper
      BY <1>4, <3>1, AppendOrders DEF SessionInv, Order
    <3>3. Holds(m)
      BY <2>2, <3>2 DEF Holds, SessionAssumption
    <3> QED
      BY <1>1, <2>1, <3>3 DEF SpareInv, Spared, Harmless
  <2>3. Spared'
    BY <1>1, <2>1, <2>2 DEF SpareInv, Spared
  <2> QED
    BY <1>2, <2>1, <2>3 DEF SpareInv
<1> QED
  BY <1>1, <1>3, <1>4 DEF ReaperWakes, SpareInv, Clock, SessionAssumption

\* Every request that waits can have a slot.
LEMMA SlotsSuffice ==
    ASSUME SessionAssumption, SlotsAssumption, SpareInv, NEW l \in Leg, leg[l].pc = "slotWait"
    PROVE  Brisk(l)
<1> DEFINE Requests == {m \in Leg : Role[m] = "request"}
           taken == {m \in Leg : leg[m].pc = "onSlot"}
<1>1. taken \subseteq Requests /\ l \in Requests /\ l \notin taken
  BY DEF SpareInv, Slotted
<1>2. IsFiniteSet(Requests) /\ Cardinality(Requests) <= Slots
  BY DEF SlotsAssumption
<1>3. IsFiniteSet(Requests \ {l}) /\ Cardinality(Requests \ {l}) = Cardinality(Requests) - 1
  BY <1>1, <1>2, FS_RemoveElement
<1>4. taken \in SUBSET (Requests \ {l})
  BY <1>1
<1>5. Cardinality(taken) <= Cardinality(Requests) - 1
  BY <1>3, <1>4, FS_Subset
<1>6. Cardinality(taken) \in Nat /\ Cardinality(Requests) \in Nat /\ Slots \in Nat
  BY <1>2, <1>3, <1>4, FS_Subset, FS_CardinalityType DEF SessionAssumption
<1>7. Cardinality(taken) < Slots
  BY <1>2, <1>5, <1>6
<1> QED
  BY <1>7 DEF Brisk

\* Time passes the idle timeout only while nobody is about to go on.
LEMMA TickSpares ==
    ASSUME SessionAssumption, SlotsAssumption, SessionInv, SpareInv, Tick
    PROVE  SpareInv'
<1>1. UNCHANGED <<lockq, pageq, leg>> /\ idle \in Nat /\ IdleTimeout \in Nat \ {0}
  BY DEF Tick, SpareInv, Clock, SessionAssumption
<1>2. Pages' /\ Slotted' /\ Solo' /\ Inflight' = Inflight
  BY <1>1 DEF SpareInv, Pages, Slotted, Solo, Busy, Pagers, Inflight
<1>3. CASE reaper # "asleep"
  <2>1. reaper' = reaper /\ reaper # "due" /\ idle <= IdleTimeout /\ idle' = idle + 1
    BY <1>1, <1>3 DEF Tick
  <2>2. reaper # "queued"
    BY <1>1, <2>1 DEF SpareInv, Queued
  <2> QED
    BY <1>1, <1>2, <1>3, <2>1, <2>2 DEF SpareInv, Clock, Spared, Queued, Late
<1>4. CASE reaper = "asleep"
  <2>1. reaper' = "due" /\ idle <= IdleTimeout /\ idle' = idle + 1
    BY <1>1, <1>4 DEF Tick, SpareInv, Clock
  <2>2. Clock' /\ Queued'
    BY <1>1, <2>1 DEF Clock, Queued
  <2>3. ASSUME Late' PROVE \A l \in Leg : ~Brisk(l)
    BY <1>1, <2>1, <2>3 DEF Tick, Late
  <2>4. ASSUME Late', NEW m \in Leg, Holds(m)' PROVE FALSE
    <3>1. leg[m].pc \in Waiting \cup Critical
      BY <1>1, <2>4, HoldersWait DEF Holds
    <3> QED
      BY <2>3, <2>4, <3>1 DEF Brisk, Waiting, Critical, Tearing
  <2>5. ASSUME Late', NEW m \in Leg PROVE leg'[m].pc # "slotWait"
    BY <1>1, <2>3, <2>5, SlotsSuffice
  <2>6. ASSUME Late', NEW m \in Leg, leg'[m].pc = "pageLock"
        PROVE  \E k \in Leg : leg'[k].pc = "onPage"
    <3>1. m \in Pagers
      BY <1>1, <2>6 DEF Pagers, Paging
    <3>2. pageq # <<>>
      BY <3>1, EmptySeq DEF SpareInv, Pages, Orders
    <3>3. Head(pageq) \in Pagers
      BY <3>2, TailOrders DEF SpareInv, Pages
    <3>4. PICK k \in Leg : k = Head(pageq) /\ leg[k].pc \in Paging
      BY <3>3 DEF Pagers
    <3>5. leg[k].pc # "pageLock"
      BY <2>3, <2>6, <3>4 DEF Brisk
    <3> QED
      BY <1>1, <3>4, <3>5 DEF Paging
  <2>7. Spared'
    BY <2>4, <2>5, <2>6 DEF Spared
  <2> QED
    BY <1>2, <2>2, <2>7 DEF SpareInv
<1> QED
  BY <1>3, <1>4

LEMMA ReapsSpares == ASSUME SpareInv, ReaperReaps PROVE SpareInv'
<1>1. UNCHANGED <<leg, pageq, idle>> /\ reaper' = "none"
  BY DEF ReaperReaps
<1> QED
  BY <1>1, DropKeeps DEF SpareInv, Pages, Slotted, Solo, Busy, Pagers

LEMMA OthersSpare == ASSUME SpareInv, Crash \/ UNCHANGED vars PROVE SpareInv'
<1>1. UNCHANGED <<lockq, pageq, leg, idle, reaper>>
  BY DEF Crash, vars
<1> QED
  BY <1>1 DEF SpareInv, Clock, Pages, Slotted, Solo, Busy, Pagers, Spared, Queued, Late,
              Holds, Harmless, Inflight

LEMMA InitSpares == ASSUME SessionAssumption, Init PROVE SpareInv
<1>1. \A l \in Leg : leg[l].pc = "idle"
  BY DEF Init
<1>2. Pagers = {} /\ Busy = {}
  BY <1>1 DEF Pagers, Paging, Busy
<1>3. Orders(<<>>, {})
  BY EmptySeq DEF Orders
<1>4. Pages /\ Slotted /\ Solo
  BY <1>1, <1>2, <1>3 DEF Pages, Slotted, Solo, Init
<1>5. Clock /\ Spared /\ Queued
  BY DEF Init, Clock, Spared, Queued, Late, SessionAssumption
<1> QED
  BY <1>4, <1>5 DEF SpareInv

LEMMA NextSpares ==
    ASSUME SessionAssumption, SlotsAssumption, SessionInv, SpareInv, [Next]_vars
    PROVE  SpareInv'
<1>1. SessionInv'
  BY NextInv
<1>2. ASSUME NEW l \in Leg, EnsureLocked(l) PROVE SpareInv'
  <2>1. Holds(l) /\ leg[l].pc = "ensureLock" /\ Ensure(l, lockq)
    BY <1>2 DEF EnsureLocked
  <2>2. leg[l].pc \notin Paging /\ Admitted(l) /\ reaper # "queued"
    BY <2>1, InTime DEF Paging, Admitted
  <2> QED
    BY <2>1, <2>2, EnsureSpares
<1>3. ASSUME NEW l \in Leg, Work(l) PROVE SpareInv'
  BY <1>1, <1>2, <1>3, WarmupSpares, TearSpares, TornSpares, FallbackSpares, PageSpares
     DEF Work
<1> QED
  BY <1>3, StartSpares, WakesSpares, ReapsSpares, TickSpares, OthersSpare DEF Next

\* The browser is never closed for idleness under a leg that has, or has just been
\* promised, a page or a slot (_idle_reaper, page, slot).
THEOREM ReaperSparesTheWork == Spec => ReaperSparesWork
<1>1. Init => SpareInv
  BY InitSpares, SessionAssumption
<1>2. SessionInv /\ SpareInv /\ [Next]_vars => SpareInv'
  BY NextSpares, SessionAssumption, SlotsAssumption
<1>3. SessionInv /\ SpareInv /\ [Next]_vars =>
        [ReaperReaps => \A l \in Leg : leg[l].pc \notin
                          {"onPage", "onSlot", "pageLock", "slotWait"}]_vars
  <2> SUFFICES ASSUME SessionInv, SpareInv, ReaperReaps, NEW l \in Leg
               PROVE  leg[l].pc \notin {"onPage", "onSlot", "pageLock", "slotWait"}
    OBVIOUS
  <2>1. Reaper \in Waiters
    BY TailOrders DEF ReaperReaps, Holds, SessionInv, Order
  <2>2. reaper = "queued"
    BY <2>1, SessionAssumption DEF Waiters, SessionAssumption
  <2>3. Late /\ Inflight = {}
    BY <2>2, WhenLate, SessionAssumption
  <2>4. \A m \in Leg : leg[m].pc \notin {"onPage", "onSlot"}
    BY <2>3 DEF Inflight
  <2> QED
    BY <2>3, <2>4 DEF SpareInv, Spared
<1> QED
  BY <1>1, <1>2, <1>3, SessionIsSound, PTL DEF Spec, ReaperSparesWork

=============================================================================
