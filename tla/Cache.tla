-------------------------------- MODULE Cache --------------------------------
(***************************************************************************)
(* mmt/cache.py: the TTL and LRU cache with its two budgets.               *)
(*                                                                         *)
(* The OrderedDict is the sequence of its entries, least recently used     *)
(* first.  An expiry instant is kept as the time left, -1 once it has      *)
(* passed.  The hit and miss counters are only reported and are left out.  *)
(***************************************************************************)
EXTENDS Integers, SequencesExt

CONSTANTS Key, Value,
          SizeOf,      \* _sizeof: the length of a page's text, 0 for anything else
          Ttl,         \* the times to live callers give, in ticks
          MaxEntries,  \* max_entries
          ByteCap,     \* byte_cap
          None

ASSUME CacheAssumption ==
    /\ SizeOf \in [Value -> Nat]
    /\ Ttl \subseteq Nat
    /\ MaxEntries \in Nat \ {0} /\ ByteCap \in Nat
    /\ None \notin Value /\ None \notin [val : Value, left : Nat]

VARIABLES d,      \* _d
          bytes,  \* _bytes
          got     \* what the last get returned

vars == <<d, bytes, got>>

Entry == [key : Key, val : Value, left : Int]

Init == d = <<>> /\ bytes = 0 /\ got = None

Keys(s) == {s[i].key : i \in DOMAIN s}
At(s, k) == CHOOSE i \in DOMAIN s : s[i].key = k

\* How many bytes the first i entries of s hold.
Upto(s) == LET upto[i \in 0..Len(s)] == IF i = 0 THEN 0 ELSE upto[i - 1] + SizeOf[s[i].val]
           IN  upto
Size(s) == Upto(s)[Len(s)]

\* Mutant: an entry goes without its bytes being uncounted.
DroppedKeepsBytes(k) ==
    IF k \in Keys(d) THEN [d |-> RemoveAt(d, At(d, k)), bytes |-> bytes]
    ELSE [d |-> d, bytes |-> bytes]

\* _drop, as the dictionary and the count it leaves.
Dropped(k) ==
    IF k \in Keys(d)
    THEN [d |-> RemoveAt(d, At(d, k)), bytes |-> bytes - SizeOf[d[At(d, k)].val]]
    ELSE [d |-> d, bytes |-> bytes]

-----------------------------------------------------------------------------

\* Mutant: an entry is served whatever its age.
GetForgetsExpiry(k) ==
    /\ got' = IF k \in Keys(d) THEN d[At(d, k)].val ELSE None
    /\ UNCHANGED <<d, bytes>>

GetMiss(k) ==
    /\ k \notin Keys(d)
    /\ got' = None
    /\ UNCHANGED <<d, bytes>>

GetExpired(k) ==
    /\ k \in Keys(d) /\ d[At(d, k)].left < 0
    /\ d' = Dropped(k).d /\ bytes' = Dropped(k).bytes
    /\ got' = None

GetHit(k) ==
    /\ k \in Keys(d) /\ d[At(d, k)].left >= 0
    /\ d' = Append(Dropped(k).d, d[At(d, k)])
    /\ got' = d[At(d, k)].val
    /\ UNCHANGED bytes

Get(k) == GetMiss(k) \/ GetExpired(k) \/ GetHit(k)

\* Mutant: the loop may evict the entry that was just put.
OverBudgetToTheEnd(s, n) == Len(s) > MaxEntries \/ (n > ByteCap /\ Len(s) > 0)

OverBudget(s, n) == Len(s) > MaxEntries \/ (n > ByteCap /\ Len(s) > 1)

\* The eviction loop: it drops the oldest entry, and its bytes, until both budgets
\* hold.
Evict(s, n) ==
    LET Rest(i) == SubSeq(s, i + 1, Len(s))
        Count(i) == n - Upto(s)[i]
        i == CHOOSE j \in 0..Len(s) :
               /\ ~OverBudget(Rest(j), Count(j))
               /\ \A m \in 0..(j - 1) : OverBudget(Rest(m), Count(m))
    IN  d' = Rest(i) /\ bytes' = Count(i)

Put(k, v, ttl) ==
    /\ Evict(Append(Dropped(k).d, [key |-> k, val |-> v, left |-> ttl]),
             Dropped(k).bytes + SizeOf[v])
    /\ UNCHANGED got

Clear == d' = <<>> /\ bytes' = 0 /\ UNCHANGED got

Tick ==
    /\ d' = [i \in DOMAIN d |-> [d[i] EXCEPT !.left = IF @ < 0 THEN @ ELSE @ - 1]]
    /\ UNCHANGED <<bytes, got>>

Next == \/ \E k \in Key : Get(k) \/ \E v \in Value, t \in Ttl : Put(k, v, t)
        \/ Clear
        \/ Tick

Spec == Init /\ [][Next]_vars

-----------------------------------------------------------------------------
(* Properties *)

\* The byte count is the resident size, through replacements, expiries, evictions and
\* clears: a count that drifts up evicts everything, one that drifts down lets pages
\* balloon.  Both budgets hold after every operation; one entry above the byte budget is
\* kept on its own rather than spun on (cache.py:60-63, 79-89).
WithinBudget ==
    /\ bytes = Size(d)
    /\ Len(d) <= MaxEntries
    /\ Size(d) <= ByteCap \/ Len(d) = 1

\* What was just put is still there, whatever its size: the loop that makes room for
\* it stops at it (cache.py:83-89).
PutIsKept == [][\A k \in Key, v \in Value, t \in Ttl : Put(k, v, t) => k \in Keys(d')]_vars

\* What a get of each key would return, and for how long.
Store == [k \in Key |->
            IF \E i \in DOMAIN d : d[i].key = k /\ d[i].left >= 0
            THEN [val |-> d[At(d, k)].val, left |-> d[At(d, k)].left] ELSE None]

Lossy == INSTANCE LossyMap WITH store <- Store

\* The cache implements the lossy map: a get shows the value last put under its key,
\* or nothing, and never one past its time.
IsLossyMap == Lossy!LossySpec

=============================================================================
