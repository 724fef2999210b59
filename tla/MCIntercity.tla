----------------------------- MODULE MCIntercity -----------------------------
(***************************************************************************)
(* Intercity with answers small enough to enumerate and different enough   *)
(* to tell the rules apart: ties, missing figures, a fast train without    *)
(* A/C, a dear Vande Bharat, references in a chain and in a circle, the    *)
(* same train twice, flights from and to airports nearby, a frame cut      *)
(* short, more rows than a mode may show.                                  *)
(***************************************************************************)
EXTENDS Intercity

MCDays == {-2, -1, 0, 60, 61, 66, 67, 70}

MCParties == {0, 2}

End(name, upper) == [name |-> name, upper |-> upper]
Goa == End(<<"goa">>, FALSE)
MCRoutes == {[from |-> Goa, to |-> End(<<"cok">>, TRUE)],
             [from |-> Goa, to |-> End(<<"cochin">>, FALSE)],
             [from |-> End(<<"palolem">>, FALSE), to |-> Goa]}

MCAirportOf == [n \in {<<"goa">>} |-> "GOI"]
MCThreeLetters == [n \in {<<"cok">>} |-> "COK"]
MCStationNames == {<<"goa">>}
MCCitiesOf == [n \in {<<"cok">>} |-> <<<<"kochi">>>>]
MCBuiltin == [n \in {<<"kochi">>} |-> "kochi"]
MCAlias == [n \in {<<"cochin">>} |-> <<"kochi">>]
MCSaved == [n \in {<<"goa">>} |-> "goa"]

Class(ac, fare) == [tag |-> "class", ac |-> ac, fare |-> fare]
Seat(fare) == Class(FALSE, fare)
Chair(fare) == Class(TRUE, fare)
List(items) == [tag |-> "list", items |-> items]
Ref(id) == [tag |-> "ref", to |-> id]
Run(no, avail, dep, dur, vb) ==
    [tag |-> "train", no |-> no, avail |-> avail, dep |-> dep, dur |-> dur, vb |-> vb]
At(id, node) == [id |-> id, node |-> node]

MCTrainPages ==
    {<<At(1, [tag |-> "other"])>>,
     <<At(1, Run("a", List(<<Seat(1)>>), 1, 100, FALSE)),
       At(2, Run("b", Ref(4), 2, 300, FALSE)), At(3, None),
       At(4, List(<<Ref(5), Ref(3), Seat(1)>>)), At(5, Chair(2))>>,
     <<At(1, Run("a", List(<<Chair(2), Chair(1)>>), None, 250, FALSE)),
       At(2, Run("b", List(<<Chair(3)>>), 2, 200, TRUE)),
       At(3, Run("c", List(<<Chair(1), Chair(None)>>), 1, 300, FALSE)),
       At(4, Run("a", Ref(4), 1, 200, TRUE))>>,
     <<At(1, Run("a", Ref(2), 1, None, FALSE)), At(2, Ref(2)),
       At(1, Run("a", List(<<Chair(1)>>), 1, None, FALSE))>>,
     <<At(1, Run("a", Ref(2), 1, 200, FALSE)), At(2, Ref(2))>>}

MCParts(node) ==
    CASE node.tag = "list"  -> ToSet(node.items)
      [] node.tag = "train" -> {node.avail}
      [] OTHER              -> {}
MCNodes ==
    LET lines == UNION {{line.node : line \in ToSet(page)} : page \in MCTrainPages} \ {None}
        parts == UNION {MCParts(node) : node \in lines}
    IN  lines \cup parts \cup UNION {MCParts(node) : node \in parts}

Journey(from, to, dur) == [from |-> from, to |-> to, depart |-> 1, dur |-> dur]
Card(no, fare, keys) == [no |-> no, fare |-> fare, keys |-> keys, dur |-> None]
MCJourneys == [direct |-> Journey("GOI", "COK", 60), first |-> Journey("GOI", "BLR", 120),
               second |-> Journey("BLR", "COK", 60), nearby |-> Journey("SDW", "COK", 60),
               beyond |-> Journey("GOI", "TRV", None)]
Doc(groups) == [journeys |-> MCJourneys, groups |-> groups]

MCStreams ==
    {<<None>>,
     <<Doc(<<<<Card("d", 3, <<"direct">>)>>, <<Card("c", 2, <<"first", "second">>)>>>>), None>>,
     <<Doc(<<<<Card("n", 1, <<"nearby">>), Card("n", 1, <<"nearby">>)>>>>),
       Doc(<<<<Card("d", 3, <<"direct">>), Card("x", None, <<"direct">>)>>>>)>>,
     <<Doc(<<<<Card("b", 2, <<"beyond">>), Card("u", 4, <<"unknown">>)>>,
             <<Card("d", 4, <<"direct">>), Card("c", 5, <<"first", "second">>)>>>>)>>}

Car(fare, category) == [fare |-> fare, category |-> category]
Listing(km, halves, cards) == [km |-> km, halves |-> halves, cards |-> cards]

MCCabPages ==
    {Listing(600, 20, <<Car(4, "suv"), Car(3, "sedan")>>), Listing(None, None, <<Car(None, "suv")>>),
     Listing(40, 8, <<>>),
     Listing(40, 8, <<Car(None, "suv"), Car(6, "suv"), Car(6, "sedan"), Car(2, "hatch")>>)}

=============================================================================
