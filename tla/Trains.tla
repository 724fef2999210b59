-------------------------------- MODULE Trains --------------------------------
(***************************************************************************)
(* mmt/trains.py: the reservation window and the filters.  A day is a      *)
(* number, its weekday that number modulo 7.  A train is [classes, dur,    *)
(* vb]: its classes [ac, fare] in order, its duration, whether it is a     *)
(* Vande Bharat; None is a figure the listing does not give.               *)
(***************************************************************************)
EXTENDS Integers, FiniteSets, SequencesExt, Compare

CONSTANT Arp   \* ARP_DAYS

\* in_window
InWindow(day, today) == day - today \in 0..Arp

\* Mutant: the boundary itself is quoted, whatever its weekday.
FurthestIsBoundary(day, today) == IF day <= today + Arp THEN None ELSE today + Arp

\* furthest_bookable: the last open day with the weekday asked for.
FurthestBookable(day, today) ==
    LET boundary == today + Arp
        stepBack == (boundary - day) % 7
        candidate == boundary - stepBack
    IN  IF day <= boundary THEN None
        ELSE IF candidate >= today THEN candidate ELSE boundary

\* ac_classes: priced, air-conditioned.
AcClasses(train) == Keep(train.classes, LAMBDA c : c.ac /\ c.fare # None /\ c.fare > 0)

Durations(trains) == {trains[i].dur : i \in DOMAIN trains} \ {None, 0}

\* Mutant: the quickest is looked for before the trains without A/C are gone.
FilterTrainsQuickestOfAll(trains, acOnly, fastOnly) ==
    LET kept == IF acOnly THEN Keep(trains, LAMBDA t : AcClasses(t) # <<>>) ELSE trains
        fastest == CHOOSE m \in Durations(trains) : \A n \in Durations(trains) : m <= n
        Quick(t) == t.dur = None \/ 4 * t.dur <= 5 * fastest
    IN  IF fastOnly /\ Durations(trains) # {} THEN Keep(kept, Quick) ELSE kept

\* filter_trains, with FAST_FACTOR 1.25.
FilterTrains(trains, acOnly, fastOnly) ==
    LET kept == IF acOnly THEN Keep(trains, LAMBDA t : AcClasses(t) # <<>>) ELSE trains
        fastest == CHOOSE m \in Durations(kept) : \A n \in Durations(kept) : m <= n
        Quick(t) == t.dur = None \/ 4 * t.dur <= 5 * fastest
    IN  IF fastOnly /\ Durations(kept) # {} THEN Keep(kept, Quick) ELSE kept

\* The cheapest of a train's priced A/C classes.
Cheapest(train) ==
    LET fares == {AcClasses(train)[i].fare : i \in DOMAIN AcClasses(train)}
    IN  CHOOSE f \in fares : \A g \in fares : f <= g

\* _train_rows (tools.py): Vande Bharat first, then by fare.
TrainRows(trains) ==
    LET priced == Keep(trains, LAMBDA t : AcClasses(t) # <<>>)
    IN  Sorted(priced, LAMBDA i : <<Flag(~priced[i].vb), Cheapest(priced[i])>>)

=============================================================================
