------------------------------- MODULE TrainPage -------------------------------
(***************************************************************************)
(* The trains of a listing page: the reference table of the RSC stream     *)
(* (mmt/rsc.py) and the parser over it (trains.parse).  A page is a        *)
(* sequence of lines [id, node], the node None on a line that is no JSON.  *)
(* A node is tagged: a "ref" to a line, a "list" of nodes, a "train" with  *)
(* its number, departure, duration, whether it is a Vande Bharat, and the  *)
(* node of its availability, a "class" [ac, fare], or "other".             *)
(* The parser reads no further into a train than the list of its           *)
(* availability and the classes in it, so that nothing else is resolved.   *)
(***************************************************************************)
EXTENDS Trains

CONSTANT MaxDepth   \* MAX_DEPTH

\* chunks: an id keeps its first place and its last node.
Ids(page) ==
    LET parsed == Keep(page, LAMBDA line : line.node # None)
    IN  FirstOfEach([i \in DOMAIN parsed |-> parsed[i].id], LAMBDA id : id)

Table(page) ==
    LET last(id) == CHOOSE i \in DOMAIN page :
            /\ page[i].id = id /\ page[i].node # None
            /\ \A j \in DOMAIN page : page[j].id = id /\ page[j].node # None => j <= i
    IN  [id \in ToSet(Ids(page)) |-> page[last(id)].node]

Refers(node, table) == node.tag = "ref" /\ node.to \in DOMAIN table

\* What a node leads to, by the number of references that were followed.
Trail(node, table) ==
    LET after[n \in 0..(MaxDepth + 1)] ==
            IF n = 0 THEN node
            ELSE LET last == after[n - 1]
                 IN  IF Refers(last, table) THEN table[last.to] ELSE last
    IN  after

\* resolve: where the references end, and how deep.  One to no line stays, and so does
\* whatever is too deep.
Resolve(node, table, depth) ==
    LET ends == {n \in 0..(MaxDepth + 1) :
                   depth + n > MaxDepth \/ ~Refers(Trail(node, table)[n], table)}
        n == CHOOSE m \in ends : \A k \in ends : m <= k
    IN  [node |-> Trail(node, table)[n], depth |-> depth + n]

\* _classes: the priced first, and nothing when the availability is no list.
Classes(avail, table) ==
    LET list == Resolve(avail, table, 1)
        item(i) == Resolve(list.node.items[i], table, list.depth + 1).node
        listed == IF list.node.tag # "list" THEN <<>>
                  ELSE Keep([i \in DOMAIN list.node.items |-> item(i)],
                            LAMBDA a : a.tag = "class")
    IN  Sorted(listed, LAMBDA i : <<Flag(listed[i].fare = None), OrZero(listed[i].fare)>>)

TrainRow(node, table) ==
    [no |-> node.no, dep |-> node.dep, dur |-> node.dur, vb |-> node.vb,
     classes |-> Classes(node.avail, table)]

\* parse: a train once, by its number; those without a departure last.
ParseTrains(page) ==
    LET table == Table(page)
        ids == Keep(Ids(page), LAMBDA id : table[id].tag = "train")
        trains == FirstOfEach([i \in DOMAIN ids |-> TrainRow(table[ids[i]], table)],
                              LAMBDA t : t.no)
    IN  Sorted(trains, LAMBDA i : <<Flag(trains[i].dep = None), OrZero(trains[i].dep)>>)

=============================================================================
