------------------------------ MODULE HotelTools ------------------------------
(***************************************************************************)
(* The four hotel tools of mmt/tools.py over one cache: a search, a        *)
(* property by name, the rates of one property, and a whole itinerary      *)
(* whose stays are searched Limit at a time (gather_limited of fetch.py).  *)
(* A tool that makes one search is a run of one leg.  The layer under      *)
(* post_json and get_text is Fetch: here a search ends with the answer of  *)
(* the cache or of the site, or with an error.                             *)
(*                                                                         *)
(* A stay is [label, hotel, city, in, out, party]; a fragment of a name is *)
(* the set of the properties whose names contain it.                       *)
(***************************************************************************)
EXTENDS Hotels

CONSTANTS Today,
          Stays,                   \* the itineraries asked for
          Fragments,               \* the fragments asked for
          Stars,                   \* the star ratings asked for
          Responses, RatePages,    \* what the site may answer; None is no such object
          Limit,                   \* gather_limited's limit
          MaxCalls                 \* bound: the calls of a run of the model

\* An itinerary, and the hotels of a listing, are sequences; a day and a figure are
\* numbers, or missing.
ASSUME HotelToolsAssumption ==
    /\ None \notin Int
    /\ \A stays \in Stays :
         /\ stays \in Seq(ToSet(stays))
         /\ \A s \in ToSet(stays) : {s.in, s.out} \subseteq Int \cup {None}
    /\ \A response \in Responses \ {None} :
         LET hotels == Flatten(response)
         IN  /\ hotels \in Seq(ToSet(hotels))
             /\ \A h \in ToSet(hotels) : {h.base, h.tax, h.allIn} \subseteq Int \cup {None}

VARIABLES cache,
          call,    \* the call that is being served
          leg,     \* its searches
          answer,
          calls,
          told     \* history: what was asked of the site, with what it answered

vars == <<cache, call, leg, answer, calls, told>>

Idle == [tool |-> "none"]

Init ==
    /\ cache = <<>> /\ call = Idle /\ leg = <<>> /\ answer = Idle
    /\ calls = 0 /\ told = {}

\* not_past, with its day of grace.
Past(day) == day = None \/ day < Today - 1

Refuse(kind) == answer' = [tool |-> "refused", error |-> kind] /\ UNCHANGED <<call, leg>>

\* A call that was not refused and its legs: a leg waits in pc, has asked, and has got.
Serve(c, n, pc) ==
    /\ call' = c /\ answer' = Idle
    /\ leg' = [i \in 1..n |-> [pc |-> pc, ask |-> None, got |-> None]]

Between == call = Idle /\ calls < MaxCalls

\* mmt_hotel_search
HotelSearch(stay, star, fresh) ==
    /\ Between /\ calls' = calls + 1 /\ UNCHANGED <<cache, told>>
    /\ IF Past(stay.in) THEN Refuse("bad_input")
       ELSE Serve([tool |-> "search", stays |-> <<stay>>, fresh |-> fresh, star |-> star],
                  1, "slot")

\* mmt_find_hotel_id: neither the past nor the order of the days is looked at.
FindHotelId(stay, fragment, fresh) ==
    /\ Between /\ calls' = calls + 1 /\ UNCHANGED <<cache, told>>
    /\ Serve([tool |-> "find", stays |-> <<stay>>, fresh |-> fresh, frag |-> fragment],
             1, "slot")

\* mmt_hotel_rates
HotelRates(stay, fresh) ==
    /\ Between /\ calls' = calls + 1 /\ UNCHANGED <<cache, told>>
    /\ IF Past(stay.in) THEN Refuse("bad_input")
       ELSE Serve([tool |-> "rates", stays |-> <<stay>>, fresh |-> fresh], 1, "slot")

\* mmt_price_itinerary up to gather_limited: a stay in the past refuses the whole call.
PriceItinerary(stays, fresh) ==
    /\ Between /\ calls' = calls + 1 /\ UNCHANGED <<cache, told>>
    /\ IF stays = <<>> \/ \E i \in DOMAIN stays : Past(stays[i].in)
       THEN Refuse("bad_input")
       ELSE Serve([tool |-> "itinerary", stays |-> stays, fresh |-> fresh],
                  Len(stays), "queued")

\* gather_limited: the semaphore lets Limit legs in, in their order.
TakeSlot(i) ==
    /\ leg[i].pc = "queued" /\ \A j \in 1..(i - 1) : leg[j].pc # "queued"
    /\ Cardinality({j \in DOMAIN leg : leg[j].pc \in {"slot", "sent"}}) < Limit
    /\ leg' = [leg EXCEPT ![i].pc = "slot"]
    /\ UNCHANGED <<cache, call, answer, calls, told>>

\* detail_url: every argument is in it, the days in another notation.
DetailUrl(stay) ==
    [hotel |-> stay.hotel, city |-> ResolveCity(stay.city), in |-> stay.in,
     out |-> stay.out, party |-> stay.party]

\* What the leg of a stay asks the site.
Request(stay) ==
    LET city == ResolveCity(stay.city)
    IN  CASE call.tool = "search"    ->
               BuildBody(city, stay.in, stay.out, stay.party, 20, <<>>, call.star)
          [] call.tool = "find"      ->
               BuildBody(city, stay.in, stay.out, "two adults", 40, <<>>, None)
          [] call.tool = "itinerary" ->
               BuildBody(city, stay.in, stay.out, stay.party, 5, <<stay.hotel>>, None)
          [] call.tool = "rates"     -> DetailUrl(stay)

Key(request) ==
    IF call.tool = "rates" THEN <<"page", request>> ELSE <<"body", CacheKey(request)>>

Ends(i, got) ==
    leg' = [leg EXCEPT ![i] = [@ EXCEPT !.pc = "done", !.got = got]]

Failed(kind) == [error |-> kind]

\* Up to the request: the city and the days are checked, then the cache is looked at.
\* An entry may have expired.
Begin(i) ==
    LET stay == call.stays[i]
        request == Request(stay)
    IN  /\ leg[i].pc = "slot"
        /\ IF \/ ResolveCity(stay.city) = None
              \/ call.tool # "find" /\ Nights(stay.in, stay.out) = None
           THEN Ends(i, Failed("bad_input"))
           ELSE \/ leg' = [leg EXCEPT ![i] = [@ EXCEPT !.pc = "sent", !.ask = request]]
                \/ /\ ~call.fresh /\ Key(request) \in DOMAIN cache
                   /\ leg' = [leg EXCEPT ![i] = [pc |-> "done", ask |-> request,
                                                 got |-> cache[Key(request)]]]
        /\ UNCHANGED <<cache, call, answer, calls, told>>

\* detail_valid for a page, body_valid for a search.
Verdict(response) ==
    IF call.tool = "rates"
    THEN (IF response = None THEN "shape_drift" ELSE "ok")
    ELSE BodyValid(response)

SiteAnswers(i, response) ==
    LET verdict == Verdict(response)
    IN  /\ leg[i].pc = "sent"
        /\ IF verdict = "ok"
           THEN /\ Ends(i, response)
                /\ cache' = [k \in DOMAIN cache \cup {Key(leg[i].ask)} |->
                               IF k = Key(leg[i].ask) THEN response ELSE cache[k]]
           ELSE Ends(i, Failed(verdict)) /\ UNCHANGED cache
        /\ told' = told \cup {<<leg[i].ask, response>>}
        /\ UNCHANGED <<call, answer, calls>>

SiteFails(i) ==
    /\ leg[i].pc = "sent" /\ Ends(i, Failed("blocked"))
    /\ UNCHANGED <<cache, call, answer, calls, told>>

-----------------------------------------------------------------------------

IsError(got) == "error" \in DOMAIN got
Times(rate, n) == IF rate = None THEN None ELSE RoundHalf(rate * n)

\* price: the stay's line, or EmptyValid when nothing came back.
Line(stay, response) ==
    LET hits == Flatten(response)
        row == Summarise(hits[1])
        n == Nights(stay.in, stay.out)
    IN  IF hits = <<>> THEN Failed("empty_valid")
        ELSE [rate |-> row, label |-> stay.label, nights |-> n,
              stayBase |-> Times(row.base, n), stayTax |-> Times(row.tax, n),
              stayAllIn |-> Times(row.allIn, n)]

\* What the first i figures come to; one that is missing counts for nothing.
Sums(figures) ==
    LET sums[i \in 0..Len(figures)] ==
          IF i = 0 THEN 0 ELSE sums[i - 1] + OrZero(figures[i])
    IN  sums

Total(figures) == Sums(figures)[Len(figures)]

\* Mutant: the failures are gathered apart and come last.
ResultsFailuresLast ==
    LET all == [i \in DOMAIN leg |-> IF IsError(leg[i].got) THEN leg[i].got
                                     ELSE Line(call.stays[i], leg[i].got)]
    IN  Keep(all, LAMBDA r : ~IsError(r)) \o Keep(all, IsError)

\* What gather_limited returns: a line or an error for each stay, in their order.
Results ==
    [i \in DOMAIN leg |-> IF IsError(leg[i].got) THEN leg[i].got
                          ELSE Line(call.stays[i], leg[i].got)]

\* Mutant: the rates of one night are summed (BUG-16).
ItineraryOfNights ==
    LET zipped == [i \in DOMAIN leg |-> [stay |-> call.stays[i].label, r |-> Results[i]]]
        lines == Keep(Results, LAMBDA r : ~IsError(r))
        base == Total([i \in DOMAIN lines |-> Times(lines[i].rate.base, 1)])
        tax == Total([i \in DOMAIN lines |-> Times(lines[i].rate.tax, 1)])
    IN  [tool |-> "itinerary", stays |-> call.stays, legs |-> lines,
         errors |-> Keep(zipped, LAMBDA z : IsError(z.r)),
         base |-> base, tax |-> tax, allIn |-> base + tax]

\* The end of mmt_price_itinerary: zip, the totals.
Itinerary ==
    LET zipped == [i \in DOMAIN leg |-> [stay |-> call.stays[i].label, r |-> Results[i]]]
        lines == Keep(Results, LAMBDA r : ~IsError(r))
        base == Total([i \in DOMAIN lines |-> lines[i].stayBase])
        tax == Total([i \in DOMAIN lines |-> lines[i].stayTax])
    IN  [tool |-> "itinerary", stays |-> call.stays, legs |-> lines,
         errors |-> Keep(zipped, LAMBDA z : IsError(z.r)),
         base |-> base, tax |-> tax, allIn |-> base + tax]

\* The end of mmt_hotel_search: a city without a location is a warning.
Found(stay, response) ==
    LET hotels == Flatten(response)
        n == Nights(stay.in, stay.out)
        row(h) == Summarise(h) @@ [stayAllIn |-> Times(h.allIn, n)]
    IN  IF ~response.located THEN [tool |-> "search", warned |-> TRUE, hotels |-> <<>>]
        ELSE IF AllPricesNull(hotels) THEN [tool |-> "search", error |-> "null_prices"]
        ELSE [tool |-> "search", warned |-> FALSE,
              hotels |-> [i \in DOMAIN hotels |-> row(hotels[i])]]

\* The end of mmt_find_hotel_id.
Matches(response) ==
    LET hits == Keep(Flatten(response), LAMBDA h : h.id \in call.frag)
    IN  [tool |-> "find", hotels |-> [i \in DOMAIN hits |-> Summarise(hits[i])]]

\* The end of room_rates and of mmt_hotel_rates.
Rates(stay, rooms) ==
    LET parsed == ParseRatePlans(rooms)
        cheapest == parsed.plans[1]
    IN  IF parsed.plans = <<>> THEN [tool |-> "rates", error |-> "empty_valid"]
        ELSE [tool |-> "rates", plans |-> parsed.plans, warned |-> parsed.breakfastOnly,
              cheapest |-> cheapest,
              stayAllIn |-> Times(cheapest.allIn, Nights(stay.in, stay.out))]

OneSearch ==
    LET stay == call.stays[1]
        got == leg[1].got
    IN  IF IsError(got) THEN [tool |-> call.tool, error |-> got.error]
        ELSE CASE call.tool = "search" -> Found(stay, got)
               [] call.tool = "find"   -> Matches(got)
               [] call.tool = "rates"  -> Rates(stay, got.rooms)

Answer ==
    /\ call # Idle /\ \A i \in DOMAIN leg : leg[i].pc = "done"
    /\ answer' = IF call.tool = "itinerary" THEN Itinerary ELSE OneSearch
    /\ call' = Idle /\ leg' = <<>>
    /\ UNCHANGED <<cache, calls, told>>

Asked ==
    \E stays \in Stays, fresh \in BOOLEAN :
        \/ PriceItinerary(stays, fresh)
        \/ \E i \in DOMAIN stays :
             \/ \E star \in Stars : HotelSearch(stays[i], star, fresh)
             \/ \E fragment \in Fragments : FindHotelId(stays[i], fragment, fresh)
             \/ HotelRates(stays[i], fresh)

\* The bound is reached: nothing is left to be asked.
Rest == call = Idle /\ calls = MaxCalls /\ UNCHANGED vars

Next ==
    \/ Asked \/ Rest
    \/ \E i \in DOMAIN leg :
         \/ TakeSlot(i) \/ Begin(i) \/ SiteFails(i)
         \/ \E r \in (IF call.tool = "rates" THEN RatePages ELSE Responses) : SiteAnswers(i, r)
    \/ Answer

Spec == Init /\ [][Next]_vars

-----------------------------------------------------------------------------

\* Every stay of an itinerary is in the answer once, priced or failed, and in the order
\* it was asked for: an error is never laid at the door of another stay
\* (gather_limited and the zip over its results).
EveryStayInItsPlace ==
    answer.tool = "itinerary" =>
        \E P \in SUBSET DOMAIN answer.stays :
            LET priced == Picked(answer.stays, P)
                failed == Picked(answer.stays, DOMAIN answer.stays \ P)
                labels(s) == [i \in DOMAIN s |-> s[i].label]
            IN  /\ labels(answer.legs) = labels(priced)
                /\ [i \in DOMAIN answer.errors |-> answer.errors[i].stay] = labels(failed)

\* Every line of an itinerary is what the site answered, at some time, to the request
\* for that very property, those days and that party, whatever the other stays and
\* calls put into the cache meanwhile (the key of search against the body it stands for).
LinesWereQuoted ==
    answer.tool = "itinerary" =>
        \A l \in ToSet(answer.legs) : \E s \in ToSet(answer.stays), t \in told :
            /\ s.label = l.label
            /\ t[1] = BuildBody(ResolveCity(s.city), s.in, s.out, s.party, 5, <<s.hotel>>, None)
            /\ t[2] # None /\ Flatten(t[2]) # <<>> /\ l.rate = Summarise(Flatten(t[2])[1])

\* The total of an itinerary follows its lines: where every line is whole, base and tax
\* making up the all-in rate, the total of the two columns is within a rupee a line of
\* the sum of the lines (mmt_price_itinerary; BUG-16 is the total that was not).
TotalsFollowTheLines ==
    /\ answer.tool = "itinerary"
    /\ \A l \in ToSet(answer.legs) :
         None \notin {l.rate.base, l.rate.tax} /\ l.rate.allIn = l.rate.base + l.rate.tax
    => LET legs == answer.legs
           off == answer.allIn - Total([i \in DOMAIN legs |-> legs[i].stayAllIn])
       IN  off \in -Len(legs)..Len(legs)

\* No tool answers from a listing none of whose hotels is priced, the sign of a request
\* that was trimmed, and no such listing is kept for later calls (body_valid: of the
\* three tools only the search looks again).
NeverAllNull ==
    /\ \A k \in DOMAIN cache : k[1] = "body" => ~AllPricesNull(Flatten(cache[k]))
    /\ \A i \in DOMAIN leg : leg[i].pc = "done" /\ call.tool # "rates" /\ ~IsError(leg[i].got)
         => ~AllPricesNull(Flatten(leg[i].got))

=============================================================================
