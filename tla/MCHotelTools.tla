---------------------------- MODULE MCHotelTools ----------------------------
(***************************************************************************)
(* HotelTools with three stays over two slots, two of them at properties   *)
(* of one city for the same days; rates of half rupees whose halves round  *)
(* both ways, a hotel in two sections, a missing tax, no price at all.     *)
(***************************************************************************)
EXTENDS HotelTools

MCCityCode == [goa |-> "CTGOI"]
MCLocusCode == {"CTGOI"}

Stay(label, hotel, city, in, out) ==
    [label |-> label, hotel |-> hotel, city |-> city, in |-> in, out |-> out,
     party |-> "two adults"]

MCStays ==
    {<<>>, <<Stay("a", "inn", "goa", 1, 2), Stay("b", "fort", "CTGOI", 1, 2),
             Stay("c", "inn", "goa", 1, 4)>>,
     <<Stay("d", "inn", "atlantis", -1, 1), Stay("a", "inn", "goa", 1, 2)>>,
     <<Stay("e", "inn", "goa", 2, 2), Stay("f", "fort", "goa", -2, 1)>>}

MCFragments == {{"fort"}}
MCStars == {None, 5}

Hotel(id, base, tax, allIn) == [id |-> id, base |-> base, tax |-> tax, allIn |-> allIn]
Listing(sections) == [located |-> TRUE, sections |-> sections]

MCResponses ==
    {None,
     Listing(<<<<Hotel("inn", 5, 3, 8)>>, <<Hotel("inn", 9, 3, 12), Hotel("fort", 7, 2, 9)>>>>),
     Listing(<<<<Hotel("fort", 7, None, 9)>>>>),
     Listing(<<<<Hotel("inn", None, 3, None), Hotel("fort", 0, None, None)>>>>),
     [located |-> FALSE, sections |-> <<>>]}

Plan(base, tax, breakfast) == [base |-> base, tax |-> tax, breakfast |-> breakfast]

MCRatePages ==
    {None, [rooms |-> <<>>], [rooms |-> <<<<>>, <<Plan(4, None, TRUE)>>>>],
     [rooms |-> <<<<Plan(9, 2, TRUE), Plan(3, None, TRUE)>>, <<Plan(7, 3, FALSE)>>>>]}

=============================================================================
