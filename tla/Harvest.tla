------------------------------- MODULE Harvest -------------------------------
(***************************************************************************)
(* mmt/harvest.py, the lookup of a cab place: which suggestion is clicked, *)
(* and which of the places the site answered with is taken for the one     *)
(* that was asked for.  A text is a sequence of pieces, blanks and commas  *)
(* among them, so that "goalpara" may begin with "goa"; a query is a       *)
(* sequence of words, each of them a text.  A place is [id, city, main,    *)
(* secondary, isCity, locus], its city and its locus possibly None.        *)
(***************************************************************************)
EXTENDS Integers, Compare

CONSTANTS RegionWord,   \* REGION_WORDS
          ClickAmong    \* how many suggestions are looked at, 8 in the code

Spoken(words) == FlattenSeq([i \in DOMAIN words |->
                               IF i = 1 THEN words[i] ELSE <<" ">> \o words[i]])

\* `in` between two texts.
Within(part, text) ==
    \E at \in 0..(Len(text) - Len(part)) : SubSeq(text, at + 1, at + Len(part)) = part

\* _click_best_suggestion: the item that is clicked, 0 for none.
ClickBest(items, q) ==
    LET seen == 1..(IF Len(items) < ClickAmong THEN Len(items) ELSE ClickAmong)
        least(S) == CHOOSE i \in S : \A j \in S : i <= j
        starts == {i \in seen : IsPrefix(q, items[i])}
        holds == {i \in seen : Within(q, items[i])}
    IN  IF starts # {} THEN least(starts)
        ELSE IF holds # {} THEN least(holds)
        ELSE IF items # <<>> THEN 1 ELSE 0

\* The contiguous runs of the words, the longest first.
Windows(words) ==
    FlattenSeq([k \in DOMAIN words |->
        [start \in 1..k |-> SubSeq(words, start, start + Len(words) - k)]])

\* Mutant: leading words only (BUG-17, half mended).
QueryVariantsLeading(words) ==
    [k \in DOMAIN words |-> SubSeq(words, 1, Len(words) - k + 1)]

\* _query_variants
QueryVariants(words) ==
    LET tried == Keep(Windows(words), LAMBDA w : ~(Len(w) = 1 /\ w[1] \in RegionWord))
    IN  IF tried = <<>> THEN <<words>> ELSE FirstOfEach(tried, LAMBDA w : w)

NameOf(place) == IF place.city = None THEN place.main ELSE place.city

FirstSegment(text) ==
    LET commas == {i \in DOMAIN text : text[i] = ","}
    IN  IF commas = {} THEN text
        ELSE SubSeq(text, 1, (CHOOSE i \in commas : \A j \in commas : i <= j) - 1)

Hit(place, tier) == [place |-> place, tier |-> tier]

\* _place_from_captured, on the places _walk finds in the captured bodies.
PlaceFromCaptured(places, words) ==
    LET q == Spoken(words)
        exact(w) == Keep(places, LAMBDA p : NameOf(p) = Spoken(w))
        segment(w) == Keep(places, LAMBDA p : FirstSegment(NameOf(p)) = Spoken(w))
        named == Keep(QueryVariants(words), LAMBDA w : exact(w) \o segment(w) # <<>>)
        regional == Keep(places, LAMBDA p : Within(q, p.secondary))
        prefix == Keep(places, LAMBDA p : IsPrefix(q, FirstSegment(NameOf(p))))
        substring == Keep(places, LAMBDA p : Within(q, NameOf(p)))
        weak == <<<<regional, "regional">>, <<prefix, "prefix">>,
                  <<substring, "substring">>, <<places, "fallback">>>>
        some == Keep(weak, LAMBDA h : h[1] # <<>>)
        w == named[1]
    IN  IF named # <<>>
        THEN IF exact(w) # <<>>
             THEN Hit(exact(w)[1], IF w = words THEN "exact" ELSE "exact_shortened")
             ELSE Hit(segment(w)[1], IF w = words THEN "segment" ELSE "segment_shortened")
        ELSE IF some # <<>> THEN Hit(some[1][1][1], some[1][2]) ELSE Hit(None, "none")

\* _place_from_url: the first side that carries a place.
UrlPlace(url) ==
    LET sides == Keep(<<"from", "fromCity", "to">>, LAMBDA s : url[s] # None)
    IN  IF sides = <<>> THEN None ELSE url[sides[1]]

\* harvest_place, from what was captured and the address the click led to.
HarvestPlace(places, url, words) ==
    LET hit == PlaceFromCaptured(places, words)
    IN  IF hit.place # None THEN hit
        ELSE Hit(UrlPlace(url), IF UrlPlace(url) = None THEN "none" ELSE "from_url")

=============================================================================
