-------------------------------- MODULE Hotels --------------------------------
(***************************************************************************)
(* mmt/hotels.py: the request for a hotel search and the key its answer is *)
(* cached under, the validator of that answer, the room-level rate plans.  *)
(* A day is a number, a rate a number of half rupees.  A hotel of a        *)
(* response is [id, base, tax, allIn], each figure possibly None; a  *)
(* response is [located, sections], or None when the body has no           *)
(* `response`; a rate plan is [base, tax, breakfast].                      *)
(***************************************************************************)
EXTENDS Integers, Compare

CONSTANTS CityCode,   \* CITY_CODES: the code of each city it knows
          LocusCode   \* the codes a caller may pass in place of a name

\* round: half to even.
RoundHalf(x) ==
    LET q == x \div 2 IN IF x % 2 = 1 /\ q % 2 = 1 THEN q + 1 ELSE q

\* resolve_city; None is refused.
ResolveCity(name) ==
    IF name \in LocusCode THEN name
    ELSE IF name \in DOMAIN CityCode THEN CityCode[name] ELSE None

\* nights; None is refused, and a day that is no date is None.
Nights(in, out) ==
    IF in # None /\ out # None /\ out > in THEN out - in ELSE None

\* build_body, without the constant blocks and the request id.
BuildBody(city, in, out, party, limit, ids, star) ==
    [city |-> city, in |-> in, out |-> out, party |-> party, limit |-> limit,
     ids |-> ids, star |-> star, scope |-> IF ids = <<>> THEN "city" ELSE "hotel"]

\* Mutant: the key forgets which property was pinned.
CacheKeyOfCity(body) ==
    <<body.city, body.in, body.out, body.party, body.limit, body.star>>

\* The key of search: what was asked, without the id stamped on each request.
CacheKey(body) ==
    <<body.city, body.in, body.out, body.party, body.limit, body.ids, body.star>>

\* flatten: a hotel may be in several sections.
Flatten(response) == FirstOfEach(FlattenSeq(response.sections), LAMBDA h : h.id)

\* all_prices_null
AllPricesNull(hotels) ==
    hotels # <<>> /\ \A i \in DOMAIN hotels : hotels[i].base \in {None, 0}

\* Mutant: a body that parses is usable.
BodyValidAny(response) == IF response = None THEN "shape_drift" ELSE "ok"

\* body_valid
BodyValid(response) ==
    IF response = None THEN "shape_drift"
    ELSE IF AllPricesNull(Flatten(response)) THEN "null_prices" ELSE "ok"

\* summarise
Summarise(h) == [hotel |-> h.id, base |-> h.base, tax |-> h.tax, allIn |-> h.allIn]

-----------------------------------------------------------------------------

AllIn(base, tax) == IF base = None \/ tax = None THEN None ELSE base + tax

\* parse_rate_plans, on the plans of every room.
ParseRatePlans(rooms) ==
    LET offered == FlattenSeq(rooms)
        plans == [i \in DOMAIN offered |->
                    offered[i] @@ [allIn |-> AllIn(offered[i].base, offered[i].tax)]]
        sorted == Sorted(plans, LAMBDA i : <<Flag(plans[i].allIn = None),
                                             OrZero(plans[i].allIn)>>)
    IN  [plans |-> sorted,
         breakfastOnly |-> \A i \in DOMAIN plans : plans[i].breakfast]

=============================================================================
