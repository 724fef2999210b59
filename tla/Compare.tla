------------------------------- MODULE Compare -------------------------------
(***************************************************************************)
(* mmt/compare.py: three modes of transport on one footing.  An option is  *)
(* a record with at least the fields total, dur and indicative; None is a  *)
(* figure the source did not give.  The parsing of durations is left out.  *)
(***************************************************************************)
EXTENDS Naturals, FiniteSets, SequencesExt

CONSTANT None

Larger(a, b) == IF a > b THEN a ELSE b

\* The members of S in the order of the relation `before', which is total on S.
InOrder(S, before) ==
    [n \in 1..Cardinality(S) |->
       CHOOSE i \in S : Cardinality({j \in S : <<j, i>> \in before}) = n - 1]

\* The elements of s at the positions in S, in their order.
Picked(s, S) ==
    LET at == InOrder(S, {p \in S \X S : p[1] < p[2]}) IN [n \in 1..Cardinality(S) |-> s[at[n]]]

\* A comprehension with a condition.
Keep(s, Test(_)) == Picked(s, {i \in DOMAIN s : Test(s[i])})

\* Tuples are compared at the first place where they differ.
TupleLess(x, y) == \E n \in DOMAIN x : x[n] < y[n] /\ \A m \in 1..(n - 1) : x[m] = y[m]

\* The elements of s in the order of the tuples keys, ties as they were.
SortedBy(s, keys) ==
    LET before(i, j) == TupleLess(keys[i], keys[j]) \/ (keys[i] = keys[j] /\ i < j)
        order == InOrder(DOMAIN s, {p \in (DOMAIN s) \X (DOMAIN s) : before(p[1], p[2])})
    IN  [p \in DOMAIN s |-> s[order[p]]]

\* sorted, by the tuple key(i) of each place.
Sorted(s, key(_)) == SortedBy(s, [i \in DOMAIN s |-> key(i)])

\* The first element of s with each key, in the order of s: the loops over a set "seen".
FirstOfEach(s, key(_)) ==
    Picked(s, {i \in DOMAIN s : \A j \in 1..(i - 1) : key(s[j]) # key(s[i])})

Flag(b) == IF b THEN 1 ELSE 0
OrZero(x) == IF x = None THEN 0 ELSE x

\* party_total
PartyTotal(perUnit, unit, adults) ==
    IF perUnit = None THEN None
    ELSE perUnit * (IF unit = "per vehicle" THEN 1 ELSE Larger(adults, 1))

-----------------------------------------------------------------------------

Comparable(o) == o.total # None /\ o.dur # None

\* No dearer, no slower, and one of the two strictly.
Beats(b, a) ==
    /\ b.total <= a.total /\ b.dur <= a.dur
    /\ b.total < a.total \/ b.dur < a.dur

Marked(o, mark) ==
    [field \in DOMAIN o \cup {"dominated"} |-> IF field = "dominated" THEN mark ELSE o[field]]

\* Mutant: a fare of another day proves an option beaten.
MarkDominatedByAny(options) ==
    [i \in DOMAIN options |-> Marked(options[i],
        Comparable(options[i]) /\ \E j \in DOMAIN options \ {i} :
            Comparable(options[j]) /\ Beats(options[j], options[i]))]

\* mark_dominated
MarkDominated(options) ==
    [i \in DOMAIN options |-> Marked(options[i],
        Comparable(options[i]) /\ \E j \in DOMAIN options \ {i} :
            /\ Comparable(options[j]) /\ ~options[j].indicative
            /\ Beats(options[j], options[i]))]

\* Mutant: an option without a price sorts as free.
SortOptionsFree(options) ==
    Sorted(options, LAMBDA i : <<Flag(options[i].dominated), OrZero(options[i].total),
                                 OrZero(options[i].dur)>>)

\* sort_options
SortOptions(options) ==
    Sorted(options, LAMBDA i : <<Flag(options[i].dominated), Flag(options[i].total = None),
                                 OrZero(options[i].total), OrZero(options[i].dur)>>)

=============================================================================
