------------------------------- MODULE MCPlaces -------------------------------
(***************************************************************************)
(* Places with two servers: a query whose region comes first, one whose    *)
(* suggestions only begin like it, one of which a part is a name as well;  *)
(* a name that is built in, an alias, a code; a trip of each shape; a      *)
(* package, a route, a listing without fares.                              *)
(***************************************************************************)
EXTENDS Places

Alike == Permutations(Server)

MCBuiltin == [n \in {<<"kochi">>} |-> [id |-> "builtin", city |-> <<"kochi">>,
                main |-> <<>>, secondary |-> <<>>, isCity |-> TRUE,
                locus |-> <<"ctcok">>]]
MCAlias == [n \in {<<"cochin">>} |-> <<"kochi">>]
MCCitiesOf == [n \in {<<"goi">>} |-> <<<<"goa">>>>]
MCRegionWord == {<<"goa">>}
MCVenue == {<<"airport">>}

MCQueries == {<<<<"goa">>>>, <<<<"goa">>, <<"dabolim">>>>}
MCSaveAs == {Unset, <<"kochi">>}

Suggested(id, main, secondary, isCity) ==
    [id |-> id, city |-> None, main |-> main, secondary |-> secondary, isCity |-> isCity,
     locus |-> None]

Goalpara == Suggested("goalpara", <<"goa", "lpara">>, <<"assam">>, TRUE)
Panaji == Suggested("panaji", <<"panaji">>, <<"goa">>, FALSE)
Dabolim == Suggested("dabolim", <<"dabolim", ",", " ", "airport">>, <<"goa">>, FALSE)
GoaDabolim == Suggested("goadabolim", <<"goa", " ", "dabolim">>, <<"goa">>, FALSE)
Goa == [Suggested("goa", <<>>, <<"india">>, TRUE) EXCEPT !.city = <<"goa">>]

MCShown == {<<Goalpara>>, <<Goalpara, Panaji, Dabolim>>,
            <<Goalpara, Dabolim, GoaDabolim, Goa>>}

MCUrls == {[from |-> None, to |-> None], [from |-> Goa, to |-> Panaji]}

Trip(from, to, day, trip, return) ==
    [from |-> from, to |-> to, day |-> day, trip |-> trip, return |-> return]

MCTrips ==
    {Trip(<<"goi">>, <<"cochin">>, 1, "OW", Unset), Trip(<<"goa">>, <<"kochi">>, 1, "RT", 2),
     Trip(<<"kochi">>, <<"cochin">>, 1, "RT", 1), Trip(<<"kochi">>, <<"kochi">>, -1, "OW", None)}

Cab(category, fare) == [category |-> category, fare |-> fare]

MCPages ==
    {None, [km |-> 40, halves |-> 8, cards |-> <<Cab("suv", 4), Cab("sedan", 3)>>],
     [km |-> 600, halves |-> 23, cards |-> <<Cab("suv", None), Cab("suv", 5)>>],
     [km |-> None, halves |-> None, cards |-> <<>>]}

=============================================================================
