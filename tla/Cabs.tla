--------------------------------- MODULE Cabs ---------------------------------
(***************************************************************************)
(* mmt/cabs.py: the names a place is known under, the grading of a place   *)
(* that was looked up, the trips that may be priced, the listing page.     *)
(* A name is a text (see Harvest); a day is a number, None a day that is   *)
(* no date and Unset one that was not given; hours are counted in halves.  *)
(***************************************************************************)
EXTENDS Integers, Compare

CONSTANTS Unset,
          Builtin,    \* BUILTIN_PLACES
          Alias,      \* ALIASES
          CitiesOf    \* AIRPORTS and STATIONS: the cities of each code, in order

StrongTier == {"exact", "exact_shortened", "segment", "segment_shortened"}

Unaliased(name) == IF name \in DOMAIN Alias THEN Alias[name] ELSE name

\* place_candidates
PlaceCandidates(name) ==
    LET cities == IF name \in DOMAIN CitiesOf THEN CitiesOf[name] ELSE <<>>
        named == Keep(<<name, Unaliased(name)>> \o cities, LAMBDA n : n # <<>>)
    IN  FirstOfEach(named, LAMBDA n : n)

\* known_places: what was saved comes before what is built in.
KnownPlaces(saved) ==
    [n \in DOMAIN saved \cup DOMAIN Builtin |->
        IF n \in DOMAIN saved THEN saved[n] ELSE Builtin[n]]

\* save_place, of a name in lower case.
Added(saved, name, place) ==
    [n \in DOMAIN saved \cup {name} |-> IF n = name THEN place ELSE saved[n]]

\* resolve_place; None is unregistered.
ResolvePlace(name, saved) ==
    LET places == KnownPlaces(saved)
        key == Unaliased(name)
    IN  IF key \in DOMAIN places THEN places[key] ELSE None

\* resolve_place_loose: the name the place was found under.
ResolvePlaceLoose(name, saved) ==
    LET known == Keep(PlaceCandidates(name), LAMBDA n : n \in DOMAIN KnownPlaces(saved))
    IN  IF known = <<>> THEN None ELSE known[1]

\* match_quality: the warning.  forVenue: the query has a word for a venue in it.
Warning(isCity, forVenue, tier) ==
    IF tier \in StrongTier THEN "none"
    ELSE IF ~isCity /\ ~forVenue THEN "not_a_city" ELSE "weak_tier"

\* place_from_url: a side that carries a place with its id, None otherwise.
PlaceFromUrl(sides) == {side \in {"from", "to"} : sides[side] # None}

-----------------------------------------------------------------------------

\* Mutant: a return on the day of departure is a round trip.
TripIsValidSameDay(day, trip, return, today) ==
    /\ day # None /\ day >= today - 1
    /\ trip \in {"OW", "RT"}
    /\ trip = "RT" => return \notin {Unset, None} /\ return >= day

\* validate_trip, with the day of grace of not_past.
TripIsValid(day, trip, return, today) ==
    /\ day # None /\ day >= today - 1
    /\ trip \in {"OW", "RT"}
    /\ trip = "RT" => return \notin {Unset, None} /\ return > day

\* listing_url: a return day that is no date is not looked at before.
ListingUrl(origin, dest, day, trip, return) ==
    IF return = None THEN None
    ELSE [from |-> origin, to |-> dest, day |-> day, trip |-> trip, return |-> return]

\* is_package_bucket, of half hours: ten kilometres an hour, a multiple of forty.
IsPackageBucket(km, halves) ==
    /\ None \notin {km, halves} /\ km > 0 /\ halves > 0
    /\ km = 5 * halves /\ km % 40 = 0

\* parse, of [km, halves, cards] with a card [category, fare]: a rate per kilometre is
\* given unless the distance is missing, zero or a package's.
ParseCabs(page) ==
    LET bucket == IsPackageBucket(page.km, page.halves)
        rated(c) == page.km \notin {None, 0} /\ ~bucket /\ c.fare # None
        cab(c) == [category |-> c.category, fare |-> c.fare, rated |-> rated(c)]
        cabs == [i \in DOMAIN page.cards |-> cab(page.cards[i])]
    IN  [km |-> page.km, halves |-> page.halves,
         basis |-> IF bucket THEN "package_bucket" ELSE "route",
         cabs |-> Sorted(cabs, LAMBDA i : <<Flag(cabs[i].fare = None), OrZero(cabs[i].fare)>>)]

=============================================================================
