-------------------------------- MODULE Flights --------------------------------
(***************************************************************************)
(* mmt/flights.py: the airports of a route, and the itineraries read out   *)
(* of a search stream.  A stream is a sequence of frames, a frame None     *)
(* when it does not decode and otherwise a document [journeys, groups]:    *)
(* journeys by key, each [from, to, depart, dur], and groups of cards      *)
(* [fare, no, keys, dur].  Markup and the fare's breakup are left out.     *)
(***************************************************************************)
EXTENDS Integers, Compare

CONSTANTS AirportOf,     \* AIRPORTS: the code of each name
          ThreeLetters,  \* the words of three letters, and their upper case
          MaxResults

\* resolve_airport; None is refused.
ResolveAirport(name) ==
    IF name \in DOMAIN AirportOf THEN AirportOf[name]
    ELSE IF name \in DOMAIN ThreeLetters THEN ThreeLetters[name] ELSE None

\* decode_stream: what does not decode is skipped.
DecodeStream(stream) == Keep(stream, LAMBDA frame : frame # None)

Elsewhere(code, asked) == None \notin {code, asked} /\ code # asked

NoJourney == [from |-> None, to |-> None, depart |-> None, dur |-> None]

\* The journeys of a card that its document describes.
Legs(card, journeys) ==
    LET known == Keep(card.keys, LAMBDA k : k \in DOMAIN journeys)
    IN  [i \in DOMAIN known |-> journeys[known[i]]]

\* Mutant: only arrivals are looked at (BUG-19).
ItineraryByArrival(card, journeys, origin, dest) ==
    LET legs == Legs(card, journeys)
        first == IF legs = <<>> THEN NoJourney ELSE legs[1]
        last == IF legs = <<>> THEN NoJourney ELSE legs[Len(legs)]
    IN  [fare |-> card.fare, no |-> card.no, depart |-> first.depart,
         dur |-> IF first.dur # None THEN first.dur ELSE card.dur,
         alt |-> Elsewhere(last.to, dest)]

\* _itinerary, of a card with a fare: a flag for another airport at either end.
Itinerary(card, journeys, origin, dest) ==
    LET legs == Legs(card, journeys)
        first == IF legs = <<>> THEN NoJourney ELSE legs[1]
        last == IF legs = <<>> THEN NoJourney ELSE legs[Len(legs)]
    IN  [fare |-> card.fare, no |-> card.no, depart |-> first.depart,
         dur |-> IF first.dur # None THEN first.dur ELSE card.dur,
         alt |-> Elsewhere(last.to, dest) \/ Elsewhere(first.from, origin)]

\* parse_docs: the cheapest first, the same flight once, and no more than fit.
ParseDocs(docs, origin, dest) ==
    LET read(doc) ==
            LET cards == Keep(FlattenSeq(doc.groups), LAMBDA c : c.fare # None)
            IN  [i \in DOMAIN cards |-> Itinerary(cards[i], doc.journeys, origin, dest)]
        found == FlattenSeq([i \in DOMAIN docs |-> read(docs[i])])
        out == FirstOfEach(Sorted(found, LAMBDA i : <<found[i].fare>>),
                           LAMBDA it : <<it.no, it.depart, it.fare>>)
    IN  SubSeq(out, 1, IF Len(out) < MaxResults THEN Len(out) ELSE MaxResults)

\* parse_stream
ParseStream(stream, origin, dest) == ParseDocs(DecodeStream(stream), origin, dest)

=============================================================================
