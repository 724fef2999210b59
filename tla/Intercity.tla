------------------------------ MODULE Intercity ------------------------------
(***************************************************************************)
(* mmt_intercity_options (mmt/tools.py): one leg of a journey priced by    *)
(* flight, train and cab, one after the other, each through the tool of    *)
(* that mode; with mmt_train_search and its quote for another day.         *)
(*                                                                         *)
(* What a search answers is the environment's choice: an error, or what    *)
(* the site sends, which is read by the parser of its kind: a flight       *)
(* stream (Flights), a train page (TrainPage), a cab listing (Cabs).       *)
(* An end is [name, upper]: its name in lower case, and whether it was     *)
(* written like a code, in two to five capitals.                           *)
(***************************************************************************)
EXTENDS TrainPage, Flights, Cabs

CONSTANTS Streams, TrainPages, CabPages,  \* what the sites may answer
          StationNames,                   \* STATIONS: the names it knows
          SavedPlaces,                    \* the saved cab places
          Routes,                         \* the pairs of ends asked for
          ThisDay, Day,                   \* today, and the days asked for
          Adults,
          MaxPerMode,
          Node                            \* the nodes of the train pages, with their parts

\* 60 days in the code: the window holds every weekday.
ASSUME IntercityAssumption ==
    /\ Arp \in Nat /\ Arp >= 6 /\ ThisDay \in Int /\ Day \subseteq Int /\ Adults \subseteq Nat
    /\ MaxPerMode \in Nat \ {0} /\ MaxResults \in Nat \ {0} /\ MaxDepth \in Nat
    /\ \A r \in Routes : r.from.name # <<>> /\ r.to.name # <<>>

Figure == Int \cup {None}

\* A JSON array is a sequence, and a figure that is given is a number.
ASSUME AnswersAssumption ==
    /\ None \notin Int
    /\ \A stream \in Streams :
         /\ stream \in Seq(ToSet(stream))
         /\ \A doc \in ToSet(stream) \ {None} :
              /\ doc.groups \in Seq(ToSet(doc.groups))
              /\ \A group \in ToSet(doc.groups) :
                   /\ group \in Seq(ToSet(group))
                   /\ \A card \in ToSet(group) :
                        /\ card.fare \in Figure /\ card.dur \in Figure
                        /\ card.keys \in Seq(ToSet(card.keys))
              /\ \A k \in DOMAIN doc.journeys : doc.journeys[k].dur \in Figure
    /\ \A page \in TrainPages :
         page \in Seq(ToSet(page)) /\ \A line \in ToSet(page) : line.node \in Node \cup {None}
    /\ \A node \in Node :
         /\ node.tag = "list" => node.items \in Seq(Node)
         /\ node.tag = "train" => /\ node.avail \in Node /\ node.dur \in Nat \cup {None}
                                  /\ node.dep \in Figure
         /\ node.tag = "class" => node.fare \in Figure
    /\ \A page \in CabPages :
         /\ page.cards \in Seq(ToSet(page.cards)) /\ page.halves \in Figure
         /\ \A card \in ToSet(page.cards) : card.fare \in Figure

Mode == {"flight", "train", "cab"}

VARIABLES pc, wanted, day, adults, route,
          options,
          unavailable,  \* the notes: a mode and the kind of its trouble
          calls_made,
          read          \* history: the stream and the train page that were read

legVars == <<pc, wanted, day, adults, route, options, unavailable, calls_made, read>>

NothingRead == [stream |-> <<>>, page |-> <<>>]

LegInit ==
    /\ pc = "ask" /\ wanted = {} /\ day = ThisDay /\ adults = 0 /\ route \in Routes
    /\ options = <<>> /\ unavailable = {} /\ calls_made = {} /\ read = NothingRead

Ask(modes, on, party) ==
    /\ pc = "ask"
    /\ wanted' = modes /\ day' = on /\ adults' = party
    /\ pc' = IF on < ThisDay - 1 THEN "refused" ELSE "flight"
    /\ UNCHANGED <<route, options, unavailable, calls_made, read>>

First(s) == SubSeq(s, 1, IF Len(s) < MaxPerMode THEN Len(s) ELSE MaxPerMode)

Option(mode, label, fare, unit, dur) ==
    [mode |-> mode, label |-> label, total |-> PartyTotal(fare, unit, adults), dur |-> dur,
     indicative |-> FALSE, quoted |-> day]

Note(mode, kind) == unavailable' = unavailable \cup {<<mode, kind>>}

\* A mode that was not asked for, or that does not apply between the two ends, spends no
\* search.
Skip(mode, applies, kind) ==
    /\ \/ mode \notin wanted /\ UNCHANGED unavailable
       \/ mode \in wanted /\ ~applies /\ Note(mode, kind)
    /\ UNCHANGED <<options, calls_made, read>>

Origin == ResolveAirport(route.from.name)
Dest == ResolveAirport(route.to.name)

Flown(its) ==
    [i \in DOMAIN its |-> Option("flight", its[i].no, its[i].fare, "per adult", its[i].dur)]

\* mmt_flight_search, a stream without itineraries being an error, and its rows.
FlightFound(stream) ==
    LET everything == ParseStream(stream, Origin, Dest)
        into == Keep(everything, LAMBDA f : ~f.alt)
    IN  /\ read' = [read EXCEPT !.stream = stream]
        /\ options' = options \o Flown(First(Sorted(into, LAMBDA i : <<into[i].fare>>)))
        /\ IF everything = <<>> THEN Note("flight", "empty_valid")
           ELSE IF Len(into) < Len(everything)
                THEN Note("flight", "excluded_alternate_airports")
                ELSE UNCHANGED unavailable

Flight ==
    /\ pc = "flight" /\ pc' = "train"
    /\ LET applies == None \notin {Origin, Dest}
       IN  \/ Skip("flight", applies, "not_applicable")
           \/ /\ "flight" \in wanted /\ applies /\ calls_made' = calls_made \cup {"flight"}
              /\ \/ Note("flight", "error") /\ UNCHANGED <<options, read>>
                 \/ \E stream \in Streams : FlightFound(stream)
    /\ UNCHANGED <<wanted, day, adults, route>>

TrainOptions(trains) ==
    LET rows == First(TrainRows(FilterTrains(trains, TRUE, TRUE)))
    IN  [i \in DOMAIN rows |->
            Option("train", rows[i].no, Cheapest(rows[i]), "per passenger", rows[i].dur)]

\* The same, as rows quoted for another day.
IndicativeOptions(trains, on) ==
    LET rows == TrainOptions(trains)
    IN  [i \in DOMAIN rows |-> [rows[i] EXCEPT !.indicative = TRUE, !.quoted = on]]

\* is_probable_station
IsProbableStation(end) == end.name \in StationNames \/ end.upper

Reads(page) == read' = [read EXCEPT !.page = page]

\* mmt_train_search, outside the window: the answer is not_in_window whatever becomes of
\* the quote for another day.
TrainOutside ==
    /\ ~InWindow(day, ThisDay) /\ Note("train", "not_in_window")
    /\ \/ UNCHANGED <<options, read>>
       \/ /\ FurthestBookable(day, ThisDay) # None
          /\ \E page \in TrainPages :
               /\ Reads(page)
               /\ options' = options \o IndicativeOptions(ParseTrains(page),
                                                          FurthestBookable(day, ThisDay))

TrainInside ==
    /\ InWindow(day, ThisDay)
    /\ \/ Note("train", "error") /\ UNCHANGED <<options, read>>
       \/ /\ \E page \in TrainPages :
               Reads(page) /\ options' = options \o TrainOptions(ParseTrains(page))
          /\ UNCHANGED unavailable

TrainApplies == IsProbableStation(route.from) /\ IsProbableStation(route.to)

\* Mutant: a flight that failed ends the comparison.
TrainAfterFlight ==
    /\ pc = "train"
    /\ IF <<"flight", "error">> \in unavailable
       THEN pc' = "compare" /\ UNCHANGED <<options, unavailable, calls_made, read>>
       ELSE /\ pc' = "cab"
            /\ \/ Skip("train", TrainApplies, "not_applicable")
               \/ /\ "train" \in wanted /\ TrainApplies
                  /\ calls_made' = calls_made \cup {"train"}
                  /\ TrainOutside \/ TrainInside
    /\ UNCHANGED <<wanted, day, adults, route>>

Train ==
    /\ pc = "train" /\ pc' = "cab"
    /\ \/ Skip("train", TrainApplies, "not_applicable")
       \/ /\ "train" \in wanted /\ TrainApplies
          /\ calls_made' = calls_made \cup {"train"}
          /\ TrainOutside \/ TrainInside
    /\ UNCHANGED <<wanted, day, adults, route>>

\* The cheapest cab of each category: the listing comes sorted by price, unpriced last.
PerCategory(cabs) == FirstOfEach(cabs, LAMBDA c : c.category)

\* minutes_from_hours
CabMinutes(halves) == IF halves = None THEN None ELSE 30 * halves

CabOptions(page) ==
    LET rows == First(PerCategory(ParseCabs(page).cabs))
    IN  [i \in DOMAIN rows |-> Option("cab", rows[i].category, rows[i].fare, "per vehicle",
                                      CabMinutes(page.halves))]

\* The two ends are looked up loosely, and the quote is asked for under the names they
\* were found by: a name other than the one given is noted either way.
Cab ==
    /\ pc = "cab" /\ pc' = "compare"
    /\ LET from == ResolvePlaceLoose(route.from.name, SavedPlaces)
           to == ResolvePlaceLoose(route.to.name, SavedPlaces)
           applies == None \notin {from, to}
           renamed == from # route.from.name \/ to # route.to.name
           note(kinds) == unavailable' = unavailable \cup {<<"cab", kind>> : kind \in
                            kinds \cup (IF renamed THEN {"resolved_names"} ELSE {})}
       IN  \/ Skip("cab", applies, "unregistered_place")
           \/ /\ "cab" \in wanted /\ applies
              /\ calls_made' = calls_made \cup {"cab"} /\ UNCHANGED read
              /\ \/ note({"error"}) /\ UNCHANGED options
                 \/ \E page \in CabPages :
                      IF page.cards = <<>> THEN note({"empty_valid"}) /\ UNCHANGED options
                      ELSE note({}) /\ options' = options \o CabOptions(page)
    /\ UNCHANGED <<wanted, day, adults, route>>

Answer ==
    /\ pc = "compare" /\ pc' = "done"
    /\ options' = SortOptions(MarkDominated(options))
    /\ UNCHANGED <<wanted, day, adults, route, unavailable, calls_made, read>>

LegNext ==
    \/ \E modes \in SUBSET Mode \ {{}}, on \in Day, party \in Adults : Ask(modes, on, party)
    \/ Flight \/ Train \/ Cab \/ Answer

LegSpec == LegInit /\ [][LegNext]_legVars

-----------------------------------------------------------------------------

Rows == {options[i] : i \in DOMAIN options}

\* Dominated is a fact: a row is marked if and only if some row of the answer that the
\* reader is left with, payable on the day asked for and not itself marked, is no
\* dearer, no slower and strictly one of the two (mark_dominated compares every pair and
\* lets an already marked row mark others).
DominatedIsFact ==
    pc = "done" => \A r \in Rows :
        r.dominated <=> /\ Comparable(r)
                        /\ \E s \in Rows : /\ ~s.dominated /\ ~s.indicative
                                           /\ Comparable(s) /\ Beats(s, r)

\* The answer opens with the cheapest row of all: neither a mark, nor a missing price,
\* nor a missing duration ever puts a dearer row before it (mark_dominated, sort_options).
CheapestComesFirst ==
    pc = "done" => \A r \in Rows :
        r.total # None => options[1].total # None /\ options[1].total <= r.total

\* A fare for another day is never taken for one of the day asked for: it is marked,
\* it comes with the note that the day cannot be booked, and its day can be booked and
\* falls on the same weekday (furthest_bookable, the train leg).
OtherDayIsMarked ==
    \A r \in Rows :
        /\ r.indicative <=> r.quoted # day
        /\ r.indicative => /\ <<"train", "not_in_window">> \in unavailable
                           /\ InWindow(r.quoted, ThisDay) /\ (day - r.quoted) % 7 = 0

\* What a page offers: the classes in the list that a train's availability leads to,
\* through as many references as it takes before the list and within it.
Offered(page, avail) ==
    LET next(at) ==
            CASE Refers(at.node, Table(page)) ->
                    {[node |-> Table(page)[at.node.to], listed |-> at.listed]}
              [] at.node.tag = "list" /\ ~at.listed ->
                    {[node |-> item, listed |-> TRUE] : item \in ToSet(at.node.items)}
              [] OTHER -> {}
        reach[n \in 0..MaxDepth] ==
            IF n = 0 THEN {[node |-> avail, listed |-> FALSE]}
            ELSE reach[n - 1] \cup UNION {next(at) : at \in reach[n - 1]}
    IN  {at.node : at \in {x \in reach[MaxDepth] : x.listed /\ x.node.tag = "class"}}

\* The page sells an air-conditioned seat: on the first line of some train.
SellsAc(page) ==
    \E i \in DOMAIN Ids(page) :
        LET node(j) == Table(page)[Ids(page)[j]]
        IN  /\ node(i).tag = "train"
            /\ \A j \in 1..(i - 1) : node(j).tag = "train" => node(j).no # node(i).no
            /\ \E c \in Offered(page, node(i).avail) : c.ac /\ c.fare # None /\ c.fare > 0

\* One mode in trouble never costs the others: an answer has, for every mode asked for,
\* a row or a note.  The exception is a page that sells no air-conditioned seat, which
\* the tool passes over in silence.
NoModeForgotten ==
    pc = "done" => \A mode \in wanted :
        \/ \E r \in Rows : r.mode = mode
        \/ \E note \in unavailable : note[1] = mode
        \/ mode = "train" /\ mode \in calls_made /\ ~SellsAc(read.page)

\* What the railway sells reaches the traveller: an air-conditioned seat anywhere on the
\* page, behind whatever references, puts a train into the comparison (resolve, parse,
\* filter_trains, which measures quickness against the trains it kept).
OfferedReachesTraveller ==
    pc \in {"cab", "compare", "done"} /\ SellsAc(read.page) =>
        \E r \in Rows : r.mode = "train"

\* Every flight in the comparison can be flown as it was asked for: it is a card of the
\* stream at that fare, and where the stream says where its journey begins and ends,
\* these are the airports of the route (_itinerary and the exclusion of alternate
\* airports; BUG-19).
FlownAsAsked ==
    \A r \in Rows : r.mode = "flight" =>
        \E doc \in ToSet(DecodeStream(read.stream)) :
          \E card \in ToSet(FlattenSeq(doc.groups)) :
            LET legs == Legs(card, doc.journeys)
            IN  /\ card.no = r.label /\ PartyTotal(card.fare, "per adult", adults) = r.total
                /\ legs # <<>> => /\ legs[1].from \in {None, Origin}
                                  /\ legs[Len(legs)].to \in {None, Dest}

=============================================================================
