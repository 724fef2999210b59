--------------------------- MODULE HotelToolsProofs ---------------------------
(***************************************************************************)
(* The cache under the hotel tools, proved for any stays, answers, limit   *)
(* and cities: whatever a search ends with, the site has answered to that  *)
(* very request, and it has prices.  A search that ends from the cache is  *)
(* answered with what another stay, or another tool, was told; that this   *)
(* was the same request is what the key must say (Kept, SameKey).          *)
(*                                                                         *)
(* What a tool makes of its searches is proved from that (AnswerInv): each *)
(* stay in its place, lines the site has quoted, totals within a rounding  *)
(* of their lines.  A total is a fold, a recursive function of a prefix;   *)
(* what is added and what is bounded goes by induction on the prefix.      *)
(***************************************************************************)
EXTENDS HotelTools, FiniteSetTheorems, SequenceTheorems, WellFoundedInduction, TLAPS

Tools == {"search", "find", "itinerary", "rates"}

Shaped ==
    \A i \in DOMAIN leg : DOMAIN leg[i] = {"pc", "ask", "got"} /\ call.tool \in Tools

\* A body is made of nothing but what its key is made of.
IsBody(b) ==
    /\ "limit" \in DOMAIN b
    /\ b = BuildBody(b.city, b.in, b.out, b.party, b.limit, b.ids, b.star)

\* Every entry was told for a request with its key, and a body passed the validator.
Kept ==
    \A k \in DOMAIN cache : \E ask \in {t[1] : t \in told} :
        /\ <<ask, cache[k]>> \in told
        /\ \/ k = <<"page", ask>>
           \/ IsBody(ask) /\ k = <<"body", CacheKey(ask)>> /\ BodyValid(cache[k]) = "ok"

\* What was sent is the request of the stay.
AsksItsOwn ==
    \A i \in DOMAIN leg : leg[i].pc = "sent" => leg[i].ask = Request(call.stays[i])

Usable(got) == call.tool # "rates" => BodyValid(got) = "ok"

\* What a search ended with was told for the request of its stay.
SearchesWereQuoted ==
    \A i \in DOMAIN leg : leg[i].pc = "done" /\ ~IsError(leg[i].got) =>
        <<Request(call.stays[i]), leg[i].got>> \in told /\ Usable(leg[i].got)

HotelInv == Shaped /\ Kept /\ AsksItsOwn /\ SearchesWereQuoted

-----------------------------------------------------------------------------
(* Requests and keys *)

\* A search for a listing is a body (build_body).
LEMMA RequestIsBody ==
    ASSUME call.tool \in Tools \ {"rates"}, NEW stay
    PROVE  IsBody(Request(stay))
<1>1. \A c, i, o, p, l, d, s : IsBody(BuildBody(c, i, o, p, l, d, s))
  BY DEF IsBody, BuildBody
<1>2. CASE call.tool = "search"
  BY <1>1, <1>2 DEF Request
<1>3. CASE call.tool = "find"
  BY <1>1, <1>3 DEF Request
<1>4. CASE call.tool = "itinerary"
  BY <1>1, <1>4 DEF Request
<1> QED
  BY <1>2, <1>3, <1>4 DEF Tools

\* Bodies with one key are one body: the key leaves nothing out (hotels.py:117).
LEMMA SameKey ==
    ASSUME NEW a, NEW b, IsBody(a), IsBody(b), CacheKey(a) = CacheKey(b)
    PROVE  a = b
<1>1. /\ a.city = b.city /\ a.in = b.in /\ a.out = b.out /\ a.party = b.party
      /\ a.limit = b.limit /\ a.ids = b.ids /\ a.star = b.star
  BY DEF CacheKey
<1> QED
  BY <1>1 DEF IsBody

\* An entry under the key of a request was told for that request.
LEMMA EntryWasAsked ==
    ASSUME Kept, call.tool \in Tools, NEW stay, Key(Request(stay)) \in DOMAIN cache
    PROVE  /\ <<Request(stay), cache[Key(Request(stay))]>> \in told
           /\ Usable(cache[Key(Request(stay))])
<1> DEFINE request == Request(stay)
           k == Key(request)
<1>1. PICK ask \in {t[1] : t \in told} :
        /\ <<ask, cache[k]>> \in told
        /\ \/ k = <<"page", ask>>
           \/ IsBody(ask) /\ k = <<"body", CacheKey(ask)>> /\ BodyValid(cache[k]) = "ok"
  BY DEF Kept
<1>2. CASE call.tool = "rates"
  <2>1. k = <<"page", request>>
    BY <1>2 DEF Key
  <2>2. ask = request
    BY <1>1, <2>1
  <2> QED
    BY <1>1, <1>2, <2>2 DEF Usable
<1>3. CASE call.tool # "rates"
  <2>1. k = <<"body", CacheKey(request)>> /\ IsBody(request)
    BY <1>3, RequestIsBody DEF Key
  <2>2. IsBody(ask) /\ CacheKey(ask) = CacheKey(request) /\ BodyValid(cache[k]) = "ok"
    BY <1>1, <2>1
  <2>3. ask = request
    BY <2>1, <2>2, SameKey
  <2> QED
    BY <1>1, <2>2, <2>3 DEF Usable
<1> QED
  BY <1>2, <1>3

-----------------------------------------------------------------------------
(* The steps *)

\* There is neither a call nor an entry at the start.
LEMMA InitInv == Init => HotelInv
<1> SUFFICES ASSUME Init PROVE HotelInv
  OBVIOUS
<1>1. leg = <<>> /\ cache = <<>>
  BY DEF Init
<1>2. DOMAIN leg = {} /\ DOMAIN cache = {}
  BY <1>1
<1> QED
  BY <1>2 DEF HotelInv, Shaped, Kept, AsksItsOwn, SearchesWereQuoted

\* A request is of the call alone.
LEMMA SameRequest ==
    ASSUME call' = call PROVE \A stay : Request(stay)' = Request(stay)
BY DEF Request, DetailUrl, ResolveCity, BuildBody

\* Nothing but the answer, or the count of calls, has changed.
LEMMA QuietStep == ASSUME HotelInv, UNCHANGED <<cache, call, leg, told>> PROVE HotelInv'
<1>1. Shaped' /\ Kept'
  BY DEF HotelInv, Shaped, Kept
<1>2. \A i : Request(call.stays[i])' = Request(call.stays[i])
  BY SameRequest
<1>3. AsksItsOwn'
  BY <1>2 DEF HotelInv, AsksItsOwn
<1>4. SearchesWereQuoted'
  BY <1>2 DEF HotelInv, SearchesWereQuoted, Usable
<1> QED
  BY <1>1, <1>3, <1>4 DEF HotelInv

\* A call begins with searches that have asked for nothing.
LEMMA ServeStep ==
    ASSUME HotelInv, NEW c, NEW n, NEW pc \in {"slot", "queued"},
           c.tool \in Tools, Serve(c, n, pc), UNCHANGED <<cache, told>>
    PROVE  HotelInv'
<1>1. \A i \in DOMAIN leg' : leg'[i] = [pc |-> pc, ask |-> None, got |-> None]
  BY DEF Serve
<1>2. \A i \in DOMAIN leg' :
        DOMAIN leg'[i] = {"pc", "ask", "got"} /\ leg'[i].pc \notin {"sent", "done"}
  BY <1>1
<1>3. Shaped'
  BY <1>2 DEF Serve, Shaped
<1>4. Kept'
  BY DEF HotelInv, Kept
<1> QED
  BY <1>2, <1>3, <1>4 DEF HotelInv, AsksItsOwn, SearchesWereQuoted

\* One search goes on: it is enough to look at what it has sent or got.
LEMMA LegStep ==
    ASSUME HotelInv, NEW i \in DOMAIN leg, NEW l, leg' = [leg EXCEPT ![i] = l],
           DOMAIN l = {"pc", "ask", "got"}, call' = call, told \subseteq told', Kept',
           l.pc = "sent" => l.ask = Request(call.stays[i]),
           l.pc = "done" /\ ~IsError(l.got) =>
               <<Request(call.stays[i]), l.got>> \in told' /\ Usable(l.got)
    PROVE  HotelInv'
<1>1. DOMAIN leg' = DOMAIN leg /\ leg'[i] = l /\ \A j \in DOMAIN leg \ {i} : leg'[j] = leg[j]
  OBVIOUS
<1>2. \A j : Request(call.stays[j])' = Request(call.stays[j])
  BY SameRequest
<1>3. Shaped'
  BY <1>1 DEF HotelInv, Shaped
<1>4. AsksItsOwn'
  BY <1>1, <1>2 DEF HotelInv, AsksItsOwn
<1>5. SearchesWereQuoted'
  BY <1>1, <1>2 DEF HotelInv, SearchesWereQuoted, Usable
<1> QED
  BY <1>3, <1>4, <1>5 DEF HotelInv

\* The semaphore lets a search in (fetch.py:468).
LEMMA TakeSlotStep == ASSUME HotelInv, NEW i \in DOMAIN leg, TakeSlot(i) PROVE HotelInv'
<1> DEFINE l == [leg[i] EXCEPT !.pc = "slot"]
<1>1. leg' = [leg EXCEPT ![i] = l] /\ UNCHANGED <<cache, call, told>>
  BY DEF TakeSlot
<1>2. DOMAIN l = {"pc", "ask", "got"} /\ l.pc = "slot"
  BY DEF HotelInv, Shaped
<1> HIDE DEF l
<1>3. Kept'
  BY <1>1 DEF HotelInv, Kept
<1> QED
  BY <1>1, <1>2, <1>3, LegStep

\* An error ends a search.
LEMMA ErrorStep ==
    ASSUME HotelInv, NEW i \in DOMAIN leg, NEW kind, Ends(i, Failed(kind)),
           UNCHANGED call, told \subseteq told', Kept'
    PROVE  HotelInv'
<1> DEFINE l == [leg[i] EXCEPT !.pc = "done", !.got = Failed(kind)]
<1>1. leg' = [leg EXCEPT ![i] = l]
  BY DEF Ends
<1>2. DOMAIN l = {"pc", "ask", "got"} /\ l.pc = "done" /\ l.got = Failed(kind)
  BY DEF HotelInv, Shaped
<1>3. IsError(Failed(kind))
  BY DEF IsError, Failed
<1> HIDE DEF l
<1> QED
  BY <1>1, <1>2, <1>3, LegStep

\* A search is refused, sent, or answered from the cache (hotels.py:107-122).
LEMMA BeginStep == ASSUME HotelInv, NEW i \in DOMAIN leg, Begin(i) PROVE HotelInv'
<1> DEFINE request == Request(call.stays[i])
<1>1. UNCHANGED <<cache, call, told>> /\ Kept' /\ call.tool \in Tools
  BY DEF Begin, HotelInv, Shaped, Kept
<1>2. CASE Ends(i, Failed("bad_input"))
  BY <1>1, <1>2, ErrorStep
<1>3. CASE leg' = [leg EXCEPT ![i] = [@ EXCEPT !.pc = "sent", !.ask = request]]
  <2> DEFINE l == [leg[i] EXCEPT !.pc = "sent", !.ask = request]
  <2>1. leg' = [leg EXCEPT ![i] = l]
    BY <1>3
  <2>2. DOMAIN l = {"pc", "ask", "got"} /\ l.pc = "sent" /\ l.ask = request
    BY DEF HotelInv, Shaped
  <2> HIDE DEF l
  <2> QED
    BY <1>1, <2>1, <2>2, LegStep
<1>4. CASE /\ Key(request) \in DOMAIN cache
           /\ leg' = [leg EXCEPT ![i] = [pc |-> "done", ask |-> request,
                                        got |-> cache[Key(request)]]]
  <2> DEFINE l == [pc |-> "done", ask |-> request, got |-> cache[Key(request)]]
  <2>1. leg' = [leg EXCEPT ![i] = l]
    BY <1>4
  <2>2. DOMAIN l = {"pc", "ask", "got"} /\ l.pc = "done" /\ l.got = cache[Key(request)]
    OBVIOUS
  <2>3. <<request, cache[Key(request)]>> \in told /\ Usable(cache[Key(request)])
    BY <1>1, <1>4, EntryWasAsked DEF HotelInv
  <2> HIDE DEF l
  <2> QED
    BY <1>1, <2>1, <2>2, <2>3, LegStep
<1> QED
  BY <1>2, <1>3, <1>4 DEF Begin

\* The site answers: what passes the validator is kept under the key of the request
\* (hotels.py:121-126).
LEMMA AnswersStep ==
    ASSUME HotelInv, NEW i \in DOMAIN leg, NEW response, SiteAnswers(i, response)
    PROVE  HotelInv'
<1> DEFINE ask == leg[i].ask
           k == Key(ask)
<1>1. /\ leg[i].pc = "sent" /\ call' = call
      /\ told' = told \cup {<<ask, response>>} /\ ask = Request(call.stays[i])
      /\ call.tool \in Tools
  BY DEF SiteAnswers, HotelInv, AsksItsOwn, Shaped
<1>2. CASE Verdict(response) = "ok"
  <2>1. /\ Ends(i, response)
        /\ cache' = [x \in DOMAIN cache \cup {k} |-> IF x = k THEN response ELSE cache[x]]
    BY <1>2 DEF SiteAnswers
  <2>2. /\ call.tool = "rates" => k = <<"page", ask>>
        /\ call.tool # "rates" => /\ k = <<"body", CacheKey(ask)>> /\ IsBody(ask)
                                 /\ BodyValid(response) = "ok"
    BY <1>1, <1>2, RequestIsBody DEF Key, Verdict
  <2> HIDE DEF k
  <2>3. Kept'
    <3> SUFFICES ASSUME NEW x \in DOMAIN cache'
                 PROVE  \E a \in {t[1] : t \in told'} :
                          /\ <<a, cache'[x]>> \in told'
                          /\ \/ x = <<"page", a>>
                             \/ /\ x = <<"body", CacheKey(a)>> /\ IsBody(a)
                                /\ BodyValid(cache'[x]) = "ok"
      BY DEF Kept, CacheKey, IsBody, BuildBody, BodyValid
    <3>1. CASE x = k
      <4>1. cache'[x] = response
        BY <2>1, <3>1
      <4>2. ask \in {t[1] : t \in told'}
        <5>1. <<ask, response>>[1] = ask
          OBVIOUS
        <5> QED
          BY <1>1, <5>1
      <4> QED
        BY <1>1, <2>2, <3>1, <4>1, <4>2
    <3>2. CASE x # k
      BY <1>1, <2>1, <3>2 DEF HotelInv, Kept
    <3> QED
      BY <3>1, <3>2
  <2> DEFINE l == [leg[i] EXCEPT !.pc = "done", !.got = response]
  <2>4. leg' = [leg EXCEPT ![i] = l]
    BY <2>1 DEF Ends
  <2>5. DOMAIN l = {"pc", "ask", "got"} /\ l.pc = "done" /\ l.got = response
    BY DEF HotelInv, Shaped
  <2> HIDE DEF l
  <2>6. Usable(response)
    BY <2>2 DEF Usable
  <2> QED
    BY <1>1, <2>3, <2>4, <2>5, <2>6, LegStep
<1>3. CASE Verdict(response) # "ok"
  <2>1. Ends(i, Failed(Verdict(response))) /\ cache' = cache
    BY <1>3 DEF SiteAnswers
  <2>2. Kept'
    BY <1>1, <2>1 DEF HotelInv, Kept
  <2> QED
    BY <1>1, <2>1, <2>2, ErrorStep
<1> QED
  BY <1>2, <1>3

\* A request that failed.
LEMMA FailsStep == ASSUME HotelInv, NEW i \in DOMAIN leg, SiteFails(i) PROVE HotelInv'
<1>1. Ends(i, Failed("blocked")) /\ UNCHANGED <<cache, call, told>>
  BY DEF SiteFails
<1>2. Kept'
  BY <1>1 DEF HotelInv, Kept
<1> QED
  BY <1>1, <1>2, ErrorStep

\* The answer ends the call.
LEMMA AnswerStep == ASSUME HotelInv, Answer PROVE HotelInv'
<1>1. leg' = <<>> /\ UNCHANGED <<cache, told>>
  BY DEF Answer
<1>2. DOMAIN leg' = {}
  BY <1>1
<1>3. Kept'
  BY <1>1 DEF HotelInv, Kept
<1> QED
  BY <1>2, <1>3 DEF HotelInv, Shaped, AsksItsOwn, SearchesWereQuoted

\* A call is refused, or begins.
LEMMA AskedStep == ASSUME HotelInv, Asked PROVE HotelInv'
<1>1. PICK stays \in Stays, fresh \in BOOLEAN :
        \/ PriceItinerary(stays, fresh)
        \/ \E i \in DOMAIN stays :
             \/ \E star \in Stars : HotelSearch(stays[i], star, fresh)
             \/ \E fragment \in Fragments : FindHotelId(stays[i], fragment, fresh)
             \/ HotelRates(stays[i], fresh)
  BY DEF Asked
<1>2. ASSUME NEW kind, Refuse(kind), UNCHANGED <<cache, told>> PROVE HotelInv'
  BY <1>2, QuietStep DEF Refuse
<1>3. CASE PriceItinerary(stays, fresh)
  <2> DEFINE c == [tool |-> "itinerary", stays |-> stays, fresh |-> fresh]
  <2>1. c.tool \in Tools
    BY DEF Tools
  <2>2. Refuse("bad_input") \/ Serve(c, Len(stays), "queued")
    BY <1>3 DEF PriceItinerary
  <2>3. UNCHANGED <<cache, told>>
    BY <1>3 DEF PriceItinerary
  <2> HIDE DEF c
  <2> QED
    BY <1>2, <2>1, <2>2, <2>3, ServeStep
<1>4. ASSUME NEW i \in DOMAIN stays, NEW star \in Stars, HotelSearch(stays[i], star, fresh)
      PROVE HotelInv'
  <2> DEFINE c == [tool |-> "search", stays |-> <<stays[i]>>, fresh |-> fresh, star |-> star]
  <2>1. c.tool \in Tools
    BY DEF Tools
  <2>2. Refuse("bad_input") \/ Serve(c, 1, "slot")
    BY <1>4 DEF HotelSearch
  <2>3. UNCHANGED <<cache, told>>
    BY <1>4 DEF HotelSearch
  <2> HIDE DEF c
  <2> QED
    BY <1>2, <2>1, <2>2, <2>3, ServeStep
<1>5. ASSUME NEW i \in DOMAIN stays, NEW fragment \in Fragments,
             FindHotelId(stays[i], fragment, fresh)
      PROVE HotelInv'
  <2> DEFINE c == [tool |-> "find", stays |-> <<stays[i]>>, fresh |-> fresh, frag |-> fragment]
  <2>1. c.tool \in Tools
    BY DEF Tools
  <2>2. Serve(c, 1, "slot") /\ UNCHANGED <<cache, told>>
    BY <1>5 DEF FindHotelId
  <2> HIDE DEF c
  <2> QED
    BY <2>1, <2>2, ServeStep
<1>6. ASSUME NEW i \in DOMAIN stays, HotelRates(stays[i], fresh) PROVE HotelInv'
  <2> DEFINE c == [tool |-> "rates", stays |-> <<stays[i]>>, fresh |-> fresh]
  <2>1. c.tool \in Tools
    BY DEF Tools
  <2>2. Refuse("bad_input") \/ Serve(c, 1, "slot")
    BY <1>6 DEF HotelRates
  <2>3. UNCHANGED <<cache, told>>
    BY <1>6 DEF HotelRates
  <2> HIDE DEF c
  <2> QED
    BY <1>2, <2>1, <2>2, <2>3, ServeStep
<1> QED
  BY <1>1, <1>3, <1>4, <1>5, <1>6

LEMMA NextInv == HotelInv /\ [Next]_vars => HotelInv'
<1> SUFFICES ASSUME HotelInv, [Next]_vars PROVE HotelInv'
  OBVIOUS
<1>1. CASE UNCHANGED vars
  BY <1>1, QuietStep DEF vars
<1>2. CASE Rest
  BY <1>2, QuietStep DEF Rest, vars
<1>3. ASSUME NEW i \in DOMAIN leg,
             \/ TakeSlot(i) \/ Begin(i) \/ SiteFails(i)
             \/ \E r \in (IF call.tool = "rates" THEN RatePages ELSE Responses) : SiteAnswers(i, r)
      PROVE HotelInv'
  BY <1>3, TakeSlotStep, BeginStep, FailsStep, AnswersStep
<1> QED
  BY <1>1, <1>2, <1>3, AskedStep, AnswerStep DEF Next

-----------------------------------------------------------------------------
(* Orders, selections and sums *)

\* `before' is a strict total order on S.
Orders(before, S) ==
    /\ \A i, j \in S : <<i, j>> \in before => <<j, i>> \notin before
    /\ \A i, j, k \in S : <<i, j>> \in before /\ <<j, k>> \in before => <<i, k>> \in before
    /\ \A i, j \in S : i # j => <<i, j>> \in before \/ <<j, i>> \in before

\* A finite set has one member at each place of an order: as many members come before it
\* as before no other, and no number of them is left out.
LEMMA InOrderIs ==
    ASSUME NEW S, IsFiniteSet(S), NEW before, Orders(before, S)
    PROVE  /\ Cardinality(S) \in Nat /\ DOMAIN InOrder(S, before) = 1..Cardinality(S)
           /\ \A n \in 1..Cardinality(S) : InOrder(S, before)[n] \in S
           /\ \A i \in S : \E n \in 1..Cardinality(S) : InOrder(S, before)[n] = i
           /\ \A m, n \in 1..Cardinality(S) :
                m < n <=> <<InOrder(S, before)[m], InOrder(S, before)[n]>> \in before
<1> DEFINE N == Cardinality(S)
           at == InOrder(S, before)
           Below(i) == {j \in S : <<j, i>> \in before}
           rank == [i \in S |-> Cardinality(Below(i))]
<1>1. N \in Nat
  BY FS_CardinalityType
<1>2. \A i \in S : IsFiniteSet(Below(i)) /\ rank[i] \in 0..(N - 1)
  <2> SUFFICES ASSUME NEW i \in S PROVE IsFiniteSet(Below(i)) /\ Cardinality(Below(i)) \in 0..(N - 1)
    OBVIOUS
  <2>1. Below(i) \in SUBSET (S \ {i})
    BY DEF Orders
  <2>2. IsFiniteSet(S \ {i}) /\ Cardinality(S \ {i}) = N - 1
    BY FS_RemoveElement
  <2> HIDE DEF Below
  <2>3. IsFiniteSet(Below(i)) /\ Cardinality(Below(i)) <= N - 1
    BY <2>1, <2>2, FS_Subset
  <2> QED
    BY <1>1, <2>3, FS_CardinalityType
<1>3. \A i, j \in S : <<i, j>> \in before => rank[i] < rank[j]
  <2> SUFFICES ASSUME NEW i \in S, NEW j \in S, <<i, j>> \in before
               PROVE  Cardinality(Below(i)) < Cardinality(Below(j))
    OBVIOUS
  <2>1. i \in Below(j) /\ Below(i) \in SUBSET (Below(j) \ {i})
    BY DEF Orders
  <2> HIDE DEF Below
  <2>2. IsFiniteSet(Below(j) \ {i}) /\ Cardinality(Below(j) \ {i}) = Cardinality(Below(j)) - 1
    BY <1>2, <2>1, FS_RemoveElement
  <2>3. Cardinality(Below(i)) <= Cardinality(Below(j)) - 1
    BY <2>1, <2>2, FS_Subset
  <2>4. Cardinality(Below(i)) \in Nat /\ Cardinality(Below(j)) \in Nat
    BY <1>2, FS_CardinalityType
  <2> QED
    BY <2>3, <2>4
<1> HIDE DEF Below, rank, N
<1>4. \A i, j \in S : /\ rank[i] = rank[j] => i = j
                      /\ rank[i] < rank[j] => <<i, j>> \in before
  <2> SUFFICES ASSUME NEW i \in S, NEW j \in S
               PROVE  /\ rank[i] = rank[j] => i = j
                      /\ rank[i] < rank[j] => <<i, j>> \in before
    OBVIOUS
  <2>1. rank[i] \in Int /\ rank[j] \in Int
    BY <1>1, <1>2
  <2>2. i = j \/ rank[i] < rank[j] \/ rank[j] < rank[i]
    BY <1>3 DEF Orders
  <2>3. i # j => <<i, j>> \in before \/ <<j, i>> \in before
    BY DEF Orders
  <2> QED
    BY <1>3, <2>1, <2>2, <2>3
<1>5. \A n \in 0..(N - 1) : \E i \in S : rank[i] = n
  <2>1. rank \in Injection(S, 0..(N - 1))
    BY <1>2, <1>4 DEF rank, Injection, IsInjective
  <2>2. IsFiniteSet(0..(N - 1)) /\ Cardinality(0..(N - 1)) = N
    BY <1>1, FS_Interval
  <2>3. rank \in Surjection(S, 0..(N - 1))
    BY <2>1, <2>2, FS_Injection DEF N
  <2> QED
    BY <2>3 DEF Surjection
<1>6. \A n \in 1..N : at[n] \in S /\ rank[at[n]] = n - 1
  <2> SUFFICES ASSUME NEW n \in 1..N PROVE at[n] \in S /\ rank[at[n]] = n - 1
    OBVIOUS
  <2>1. \E i \in S : Cardinality(Below(i)) = n - 1
    <3>1. PICK i \in S : rank[i] = n - 1
      BY <1>1, <1>5
    <3> QED
      BY <3>1 DEF rank
  <2>2. at[n] = CHOOSE i \in S : Cardinality(Below(i)) = n - 1
    BY DEF InOrder, N, Below
  <2> HIDE DEF at
  <2>3. at[n] \in S /\ Cardinality(Below(at[n])) = n - 1
    BY <2>1, <2>2
  <2> QED
    BY <2>3 DEF rank
<1>7. DOMAIN at = 1..N
  BY DEF InOrder, N
<1> HIDE DEF at
<1>8. \A i \in S : \E n \in 1..N : at[n] = i
  <2> SUFFICES ASSUME NEW i \in S PROVE \E n \in 1..N : at[n] = i
    OBVIOUS
  <2>1. rank[i] + 1 \in 1..N
    BY <1>1, <1>2
  <2>2. rank[at[rank[i] + 1]] = rank[i] /\ at[rank[i] + 1] \in S
    BY <1>1, <1>2, <1>6, <2>1
  <2> QED
    BY <1>4, <2>1, <2>2
<1>9. \A m, n \in 1..N : m < n <=> <<at[m], at[n]>> \in before
  <2> SUFFICES ASSUME NEW m \in 1..N, NEW n \in 1..N PROVE m < n <=> <<at[m], at[n]>> \in before
    OBVIOUS
  <2>1. m < n <=> rank[at[m]] < rank[at[n]]
    BY <1>1, <1>6
  <2> QED
    BY <1>3, <1>4, <1>6, <2>1
<1> QED
  BY <1>1, <1>6, <1>7, <1>8, <1>9 DEF at, N

\* The elements picked are those at the positions of S, in their order.
LEMMA PickedIs ==
    ASSUME NEW n \in Nat, NEW S \in SUBSET (1..n)
    PROVE  \E at \in [1..Cardinality(S) -> S] :
             /\ Cardinality(S) \in Nat
             /\ \A s : Picked(s, S) = [m \in 1..Cardinality(S) |-> s[at[m]]]
             /\ \A i \in S : \E m \in 1..Cardinality(S) : at[m] = i
             /\ \A l, m \in 1..Cardinality(S) : l < m <=> at[l] < at[m]
<1> DEFINE before == {p \in S \X S : p[1] < p[2]}
           at == InOrder(S, before)
<1>1. IsFiniteSet(S)
  <2>1. IsFiniteSet(1..n)
    BY FS_Interval
  <2> QED
    BY <2>1, FS_Subset
<1>2. Orders(before, S)
  <2>1. \A i \in S : i \in Int
    OBVIOUS
  <2>2. \A i, j \in S : <<i, j>> \in before <=> i < j
    OBVIOUS
  <2> HIDE DEF before
  <2> QED
    BY <2>1, <2>2 DEF Orders
<1> HIDE DEF before
<1>3. /\ Cardinality(S) \in Nat /\ DOMAIN at = 1..Cardinality(S)
      /\ \A m \in 1..Cardinality(S) : at[m] \in S
      /\ \A i \in S : \E m \in 1..Cardinality(S) : at[m] = i
      /\ \A l, m \in 1..Cardinality(S) : l < m <=> <<at[l], at[m]>> \in before
  BY <1>1, <1>2, InOrderIs
<1>4. at \in [1..Cardinality(S) -> S]
  BY <1>3 DEF InOrder
<1>5. \A l, m \in 1..Cardinality(S) : l < m <=> at[l] < at[m]
  BY <1>3 DEF before
<1>6. \A s : Picked(s, S) = [m \in 1..Cardinality(S) |-> s[at[m]]]
  BY DEF Picked, before
<1> QED
  BY <1>3, <1>4, <1>5, <1>6

\* A set of naturals that is not empty has a least member.
LEMMA Least ==
    ASSUME NEW S \in SUBSET Nat, S # {}
    PROVE  \E m \in S : \A k \in S : m <= k
<1> DEFINE R == OpToRel(<, Nat)
<1>1. PICK m \in S : \A k \in S : <<k, m>> \notin R
  BY NatLessThanWellFounded, WFMin
<1>2. \A k \in S : ~(k < m)
  BY <1>1 DEF OpToRel
<1> QED
  BY <1>2

\* What holds of 0 and of the successor of whatever it holds of holds up to n.
LEMMA Climb ==
    ASSUME NEW n \in Nat, NEW S, 0 \in S, \A i \in 0..(n - 1) : i \in S => i + 1 \in S
    PROVE  0..n \subseteq S
<1> SUFFICES ASSUME (0..n) \ S # {} PROVE FALSE
  OBVIOUS
<1>1. PICK m \in (0..n) \ S : \A k \in (0..n) \ S : m <= k
  <2>1. (0..n) \ S \in SUBSET Nat
    OBVIOUS
  <2> QED
    BY <2>1, Least
<1>2. m # 0 /\ m - 1 \in 0..(n - 1)
  BY <1>1
<1>3. m - 1 \in S
  BY <1>1, <1>2
<1> QED
  BY <1>1, <1>2, <1>3

\* The recursion has a solution, so that Sums satisfies it.
LEMMA SumsIs ==
    ASSUME NEW s, Len(s) \in Nat
    PROVE  Sums(s) = [i \in 0..Len(s) |-> IF i = 0 THEN 0 ELSE Sums(s)[i - 1] + OrZero(s[i])]
<1> DEFINE Solves(g, k) == g = [i \in 0..k |-> IF i = 0 THEN 0 ELSE g[i - 1] + OrZero(s[i])]
           S == {k \in 0..Len(s) : \E g : Solves(g, k)}
<1>1. 0 \in S
  <2> DEFINE g == [i \in 0..0 |-> 0]
  <2>1. 0..0 = {0}
    OBVIOUS
  <2>2. g = [i \in 0..0 |-> IF i = 0 THEN 0 ELSE g[i - 1] + OrZero(s[i])]
    BY <2>1
  <2>3. Solves(g, 0)
    BY <2>2
  <2> HIDE DEF Solves
  <2> QED
    BY <2>3
<1>2. ASSUME NEW k \in 0..(Len(s) - 1), k \in S PROVE k + 1 \in S
  <2>1. PICK g : Solves(g, k)
    BY <1>2
  <2> DEFINE h == [i \in 0..(k + 1) |-> IF i = k + 1 THEN g[k] + OrZero(s[k + 1]) ELSE g[i]]
  <2>2. \A i \in 0..k : h[i] = g[i] /\ g[i] = IF i = 0 THEN 0 ELSE g[i - 1] + OrZero(s[i])
    <3> HIDE DEF h
    <3>1. \A i \in 0..k : g[i] = IF i = 0 THEN 0 ELSE g[i - 1] + OrZero(s[i])
      BY <2>1
    <3> QED
      BY <3>1 DEF h
  <2>3. h[k + 1] = h[k] + OrZero(s[k + 1])
    BY <2>2
  <2>4. h = [i \in 0..(k + 1) |-> h[i]]
    OBVIOUS
  <2> HIDE DEF h
  <2>5. \A i \in 0..(k + 1) : h[i] = IF i = 0 THEN 0 ELSE h[i - 1] + OrZero(s[i])
    <3> TAKE i \in 0..(k + 1)
    <3>1. CASE i = k + 1
      BY <2>3, <3>1
    <3>2. CASE i = 0
      BY <2>2, <3>2
    <3>3. CASE i \in 1..k
      BY <2>2, <3>3
    <3> QED
      BY <3>1, <3>2, <3>3
  <2>6. Solves(h, k + 1)
    BY <2>4, <2>5
  <2> QED
    BY <2>6
<1>3. Len(s) \in S
  <2> HIDE DEF S
  <2>1. 0..Len(s) \subseteq S
    BY <1>1, <1>2, Climb
  <2> QED
    BY <2>1
<1> QED
  BY <1>3 DEF Sums

-----------------------------------------------------------------------------
(* What an answer is made of *)

\* A call has a search for each of its stays.
Served ==
    call = Idle \/ /\ call.tool \in Tools /\ DOMAIN leg = DOMAIN call.stays
                   /\ call.tool = "itinerary" => call.stays \in Stays

\* What an itinerary has asked for, or been answered, is a stay of some nights.
Ready ==
    \A i \in DOMAIN leg :
        /\ call.tool = "itinerary"
        /\ leg[i].pc = "sent" \/ (leg[i].pc = "done" /\ ~IsError(leg[i].got))
        => Nights(call.stays[i].in, call.stays[i].out) # None

\* Pages answer the requests for pages.
ToldInKind == \A t \in told : "limit" \in DOMAIN t[1] => t[2] \in Responses

AnswerInv == HotelInv /\ Served /\ Ready /\ ToldInKind

\* There is no call at the start.
LEMMA AnswerInit == Init => AnswerInv
<1> SUFFICES ASSUME Init PROVE AnswerInv
  OBVIOUS
<1>1. leg = <<>> /\ call = Idle /\ told = {}
  BY DEF Init
<1>2. DOMAIN leg = {}
  BY <1>1
<1> QED
  BY <1>1, <1>2, InitInv DEF AnswerInv, Served, Ready, ToldInKind

\* A call begins with a search for each stay.
LEMMA ServeAnswer ==
    ASSUME AnswerInv, NEW c, NEW n, NEW pc \in {"slot", "queued"}, c.tool \in Tools,
           Serve(c, n, pc), DOMAIN c.stays = 1..n, c.tool = "itinerary" => c.stays \in Stays,
           UNCHANGED <<cache, told>>
    PROVE  (Served /\ Ready /\ ToldInKind)'
<1>1. /\ call' = c /\ DOMAIN leg' = 1..n
      /\ \A i \in DOMAIN leg' : leg'[i] = [pc |-> pc, ask |-> None, got |-> None]
  BY DEF Serve
<1>2. \A i \in DOMAIN leg' : leg'[i].pc \notin {"sent", "done"}
  BY <1>1
<1>3. Served'
  BY <1>1 DEF Served
<1>4. Ready'
  BY <1>2 DEF Ready
<1> QED
  BY <1>3, <1>4 DEF AnswerInv, ToldInKind

\* Nothing but the answer, or the count of calls, has changed.
LEMMA QuietAnswer ==
    ASSUME AnswerInv, UNCHANGED <<call, leg, told>> PROVE (Served /\ Ready /\ ToldInKind)'
BY DEF AnswerInv, Served, Ready, ToldInKind

\* One search goes on: it is sent, or answered, for some nights.
LEMMA LegAnswer ==
    ASSUME AnswerInv, NEW i \in DOMAIN leg, NEW l, leg' = [leg EXCEPT ![i] = l], call' = call,
           ToldInKind',
           /\ call.tool = "itinerary"
           /\ l.pc = "sent" \/ (l.pc = "done" /\ ~IsError(l.got))
           => Nights(call.stays[i].in, call.stays[i].out) # None
    PROVE  (Served /\ Ready /\ ToldInKind)'
<1>1. DOMAIN leg' = DOMAIN leg /\ leg'[i] = l /\ \A j \in DOMAIN leg \ {i} : leg'[j] = leg[j]
  OBVIOUS
<1>2. Served'
  BY <1>1 DEF AnswerInv, Served
<1>3. Ready'
  BY <1>1 DEF AnswerInv, Ready
<1> QED
  BY <1>2, <1>3

LEMMA TakeSlotAnswer ==
    ASSUME AnswerInv, NEW i \in DOMAIN leg, TakeSlot(i) PROVE (Served /\ Ready /\ ToldInKind)'
<1> DEFINE l == [leg[i] EXCEPT !.pc = "slot"]
<1>1. leg' = [leg EXCEPT ![i] = l] /\ UNCHANGED <<call, told>>
  BY DEF TakeSlot
<1>2. l.pc = "slot"
  BY DEF AnswerInv, HotelInv, Shaped
<1> HIDE DEF l
<1>3. ToldInKind'
  BY <1>1 DEF AnswerInv, ToldInKind
<1> QED
  BY <1>1, <1>2, <1>3, LegAnswer

\* A search ends with an error, or with an answer after it was sent.
LEMMA EndsAnswer ==
    ASSUME AnswerInv, NEW i \in DOMAIN leg, NEW got, Ends(i, got), call' = call, ToldInKind',
           IsError(got) \/ leg[i].pc = "sent"
    PROVE  (Served /\ Ready /\ ToldInKind)'
<1> DEFINE l == [leg[i] EXCEPT !.pc = "done", !.got = got]
<1>1. leg' = [leg EXCEPT ![i] = l]
  BY DEF Ends
<1>2. l.pc = "done" /\ l.got = got
  BY DEF AnswerInv, HotelInv, Shaped
<1> HIDE DEF l
<1>3. call.tool = "itinerary" /\ ~IsError(got)
      => Nights(call.stays[i].in, call.stays[i].out) # None
  BY DEF AnswerInv, Ready
<1> QED
  BY <1>1, <1>2, <1>3, LegAnswer

LEMMA BeginAnswer ==
    ASSUME AnswerInv, NEW i \in DOMAIN leg, Begin(i) PROVE (Served /\ Ready /\ ToldInKind)'
<1> DEFINE request == Request(call.stays[i])
<1>1. call' = call /\ ToldInKind'
  BY DEF Begin, AnswerInv, ToldInKind
<1>2. IsError(Failed("bad_input"))
  BY DEF IsError, Failed
<1>3. CASE Ends(i, Failed("bad_input"))
  BY <1>1, <1>2, <1>3, EndsAnswer
<1>4. CASE ~Ends(i, Failed("bad_input"))
  <2>1. /\ call.tool # "find" => Nights(call.stays[i].in, call.stays[i].out) # None
        /\ \E l : leg' = [leg EXCEPT ![i] = l]
    <3>1. /\ call.tool # "find" => Nights(call.stays[i].in, call.stays[i].out) # None
          /\ \/ leg' = [leg EXCEPT ![i] = [@ EXCEPT !.pc = "sent", !.ask = request]]
             \/ leg' = [leg EXCEPT ![i] = [pc |-> "done", ask |-> request,
                                           got |-> cache[Key(request)]]]
      BY <1>4 DEF Begin
    <3> QED
      BY <3>1
  <2>2. PICK l : leg' = [leg EXCEPT ![i] = l]
    BY <2>1
  <2> QED
    BY <1>1, <2>1, <2>2, LegAnswer
<1> QED
  BY <1>3, <1>4

\* The site answers a request for a listing with a listing.
LEMMA AnswersAnswer ==
    ASSUME AnswerInv, NEW i \in DOMAIN leg,
           NEW response \in (IF call.tool = "rates" THEN RatePages ELSE Responses),
           SiteAnswers(i, response)
    PROVE  (Served /\ Ready /\ ToldInKind)'
<1>1. /\ leg[i].pc = "sent" /\ call' = call /\ leg[i].ask = Request(call.stays[i])
      /\ told' = told \cup {<<leg[i].ask, response>>}
  BY DEF SiteAnswers, AnswerInv, HotelInv, AsksItsOwn
<1>2. call.tool = "rates" => "limit" \notin DOMAIN leg[i].ask
  BY <1>1 DEF Request, DetailUrl
<1>3. ToldInKind'
  BY <1>1, <1>2 DEF AnswerInv, ToldInKind
<1>4. Ends(i, response) \/ Ends(i, Failed(Verdict(response)))
  BY DEF SiteAnswers
<1>5. IsError(Failed(Verdict(response)))
  BY DEF IsError, Failed
<1> QED
  BY <1>1, <1>3, <1>4, <1>5, EndsAnswer

LEMMA FailsAnswer ==
    ASSUME AnswerInv, NEW i \in DOMAIN leg, SiteFails(i) PROVE (Served /\ Ready /\ ToldInKind)'
<1>1. Ends(i, Failed("blocked")) /\ UNCHANGED <<call, told>>
  BY DEF SiteFails
<1>2. ToldInKind' /\ IsError(Failed("blocked"))
  BY <1>1 DEF AnswerInv, ToldInKind, IsError, Failed
<1> QED
  BY <1>1, <1>2, EndsAnswer

LEMMA AnswerAnswer == ASSUME AnswerInv, Answer PROVE (Served /\ Ready /\ ToldInKind)'
<1>1. leg' = <<>> /\ call' = Idle /\ told' = told
  BY DEF Answer
<1>2. DOMAIN leg' = {}
  BY <1>1
<1> QED
  BY <1>1, <1>2 DEF AnswerInv, Served, Ready, ToldInKind

LEMMA AskedAnswer == ASSUME AnswerInv, Asked PROVE (Served /\ Ready /\ ToldInKind)'
<1>1. PICK stays \in Stays, fresh \in BOOLEAN :
        \/ PriceItinerary(stays, fresh)
        \/ \E i \in DOMAIN stays :
             \/ \E star \in Stars : HotelSearch(stays[i], star, fresh)
             \/ \E fragment \in Fragments : FindHotelId(stays[i], fragment, fresh)
             \/ HotelRates(stays[i], fresh)
  BY DEF Asked
<1>2. ASSUME NEW kind, Refuse(kind), UNCHANGED told PROVE (Served /\ Ready /\ ToldInKind)'
  BY <1>2, QuietAnswer DEF Refuse
<1>3. CASE PriceItinerary(stays, fresh)
  <2> DEFINE c == [tool |-> "itinerary", stays |-> stays, fresh |-> fresh]
  <2>1. c.tool \in Tools /\ c.stays \in Stays /\ c.stays = stays
    BY DEF Tools
  <2>2. Refuse("bad_input") \/ Serve(c, Len(stays), "queued")
    BY <1>3 DEF PriceItinerary
  <2>3. UNCHANGED <<cache, told>>
    BY <1>3 DEF PriceItinerary
  <2>4. DOMAIN stays = 1..Len(stays)
    BY HotelToolsAssumption, LenProperties
  <2> HIDE DEF c
  <2> QED
    BY <1>2, <2>1, <2>2, <2>3, <2>4, ServeAnswer
<1>4. ASSUME NEW i \in DOMAIN stays, NEW star \in Stars, HotelSearch(stays[i], star, fresh)
      PROVE (Served /\ Ready /\ ToldInKind)'
  <2> DEFINE c == [tool |-> "search", stays |-> <<stays[i]>>, fresh |-> fresh, star |-> star]
  <2>1. c.tool \in Tools /\ c.tool # "itinerary" /\ DOMAIN c.stays = 1..1
    BY DEF Tools
  <2>2. Refuse("bad_input") \/ Serve(c, 1, "slot")
    BY <1>4 DEF HotelSearch
  <2>3. UNCHANGED <<cache, told>>
    BY <1>4 DEF HotelSearch
  <2> HIDE DEF c
  <2> QED
    BY <1>2, <2>1, <2>2, <2>3, ServeAnswer
<1>5. ASSUME NEW i \in DOMAIN stays, NEW fragment \in Fragments,
             FindHotelId(stays[i], fragment, fresh)
      PROVE (Served /\ Ready /\ ToldInKind)'
  <2> DEFINE c == [tool |-> "find", stays |-> <<stays[i]>>, fresh |-> fresh, frag |-> fragment]
  <2>1. c.tool \in Tools /\ c.tool # "itinerary" /\ DOMAIN c.stays = 1..1
    BY DEF Tools
  <2>2. Serve(c, 1, "slot") /\ UNCHANGED <<cache, told>>
    BY <1>5 DEF FindHotelId
  <2> HIDE DEF c
  <2> QED
    BY <2>1, <2>2, ServeAnswer
<1>6. ASSUME NEW i \in DOMAIN stays, HotelRates(stays[i], fresh)
      PROVE (Served /\ Ready /\ ToldInKind)'
  <2> DEFINE c == [tool |-> "rates", stays |-> <<stays[i]>>, fresh |-> fresh]
  <2>1. c.tool \in Tools /\ c.tool # "itinerary" /\ DOMAIN c.stays = 1..1
    BY DEF Tools
  <2>2. Refuse("bad_input") \/ Serve(c, 1, "slot")
    BY <1>6 DEF HotelRates
  <2>3. UNCHANGED <<cache, told>>
    BY <1>6 DEF HotelRates
  <2> HIDE DEF c
  <2> QED
    BY <1>2, <2>1, <2>2, <2>3, ServeAnswer
<1> QED
  BY <1>1, <1>3, <1>4, <1>5, <1>6

LEMMA NextAnswer == AnswerInv /\ [Next]_vars => AnswerInv'
<1> SUFFICES ASSUME AnswerInv, [Next]_vars PROVE (Served /\ Ready /\ ToldInKind)'
  BY NextInv DEF AnswerInv
<1>1. CASE UNCHANGED vars \/ Rest
  BY <1>1, QuietAnswer DEF vars, Rest
<1>2. ASSUME NEW i \in DOMAIN leg,
             \/ TakeSlot(i) \/ Begin(i) \/ SiteFails(i)
             \/ \E r \in (IF call.tool = "rates" THEN RatePages ELSE Responses) : SiteAnswers(i, r)
      PROVE (Served /\ Ready /\ ToldInKind)'
  BY <1>2, TakeSlotAnswer, BeginAnswer, FailsAnswer, AnswersAnswer
<1> QED
  BY <1>1, <1>2, AskedAnswer, AnswerAnswer DEF Next

-----------------------------------------------------------------------------
(* The theorems *)

\* Whatever a search ends with, from the site or from the cache, the site has answered to
\* the request of its own stay, days and party (search, post_json, gather_limited).
THEOREM SearchesAreQuoted == Spec => []SearchesWereQuoted
<1>1. Init => HotelInv
  BY InitInv
<1>2. HotelInv /\ [Next]_vars => HotelInv'
  BY NextInv
<1>3. HotelInv => SearchesWereQuoted
  BY DEF HotelInv
<1> QED
  BY <1>1, <1>2, <1>3, PTL DEF Spec

\* No listing without a single price is ever kept, or answered from (body_valid).
THEOREM NoListingIsAllNull == Spec => []NeverAllNull
<1>1. Init => HotelInv
  BY InitInv
<1>2. HotelInv /\ [Next]_vars => HotelInv'
  BY NextInv
<1>3. HotelInv => NeverAllNull
  <2>1. \A response : BodyValid(response) = "ok" => ~AllPricesNull(Flatten(response))
    BY DEF BodyValid
  <2> SUFFICES ASSUME HotelInv PROVE NeverAllNull
    OBVIOUS
  <2>2. ASSUME NEW k \in DOMAIN cache, k[1] = "body"
        PROVE  ~AllPricesNull(Flatten(cache[k]))
    <3>1. PICK ask \in {t[1] : t \in told} :
            k = <<"page", ask>> \/ (k = <<"body", CacheKey(ask)>> /\ BodyValid(cache[k]) = "ok")
      BY DEF HotelInv, Kept
    <3>2. k # <<"page", ask>>
      BY <2>2
    <3> QED
      BY <2>1, <3>1, <3>2
  <2>3. ASSUME NEW i \in DOMAIN leg, leg[i].pc = "done", call.tool # "rates",
               ~IsError(leg[i].got)
        PROVE  ~AllPricesNull(Flatten(leg[i].got))
    BY <2>1, <2>3 DEF HotelInv, SearchesWereQuoted, Usable
  <2> QED
    BY <2>2, <2>3 DEF NeverAllNull
<1> QED
  BY <1>1, <1>2, <1>3, PTL DEF Spec

-----------------------------------------------------------------------------
(* The answer to an itinerary *)

\* What a leg gave: an error, or the line of a stay of some nights, made of the first hotel
\* of a listing that answered the request for that stay.
LEMMA ResultIs ==
    ASSUME AnswerInv, Answer, call.tool = "itinerary", NEW i \in DOMAIN leg,
           ~IsError(Results[i])
    PROVE  LET s == call.stays[i]
               r == Results[i]
               n == Nights(s.in, s.out)
           IN  /\ n \in Int /\ r.label = s.label /\ r.stayBase = Times(r.rate.base, n)
               /\ r.stayTax = Times(r.rate.tax, n) /\ r.stayAllIn = Times(r.rate.allIn, n)
               /\ \E t \in told :
                    /\ t[1] = BuildBody(ResolveCity(s.city), s.in, s.out, s.party, 5,
                                        <<s.hotel>>, None)
                    /\ t[2] \in Responses \ {None} /\ Flatten(t[2]) # <<>>
                    /\ r.rate = Summarise(Flatten(t[2])[1])
<1> DEFINE s == call.stays[i]
           got == leg[i].got
           n == Nights(s.in, s.out)
           body == BuildBody(ResolveCity(s.city), s.in, s.out, s.party, 5, <<s.hotel>>, None)
<1>1. ~IsError(got) /\ Results[i] = Line(s, got)
  BY DEF Results
<1>2. Request(s) = body
  BY DEF Request
<1>3. leg[i].pc = "done"
  BY DEF Answer
<1>4. <<body, got>> \in told /\ BodyValid(got) = "ok"
  BY <1>1, <1>2, <1>3 DEF AnswerInv, HotelInv, SearchesWereQuoted, Usable
<1>5. got # None /\ got \in Responses
  <2>1. <<body, got>>[1] = body /\ <<body, got>>[2] = got /\ "limit" \in DOMAIN body
    BY DEF BuildBody
  <2> HIDE DEF body
  <2> QED
    BY <1>4, <2>1 DEF AnswerInv, ToldInKind, BodyValid
<1>6. n \in Int
  <2>1. n # None
    BY <1>1, <1>3 DEF AnswerInv, Ready
  <2>2. call.stays \in Stays /\ s \in ToSet(call.stays)
    BY DEF AnswerInv, Served, ToSet, Answer
  <2>3. {s.in, s.out} \subseteq Int \cup {None}
    BY <2>2, HotelToolsAssumption
  <2> QED
    BY <2>1, <2>3 DEF Nights
<1>7. Flatten(got) # <<>>
  <2> HIDE DEF got, s
  <2> QED
    BY <1>1 DEF Line, IsError, Failed
<1>8. LET row == Summarise(Flatten(got)[1])
      IN  Results[i] = [rate |-> row, label |-> s.label, nights |-> n,
                        stayBase |-> Times(row.base, n), stayTax |-> Times(row.tax, n),
                        stayAllIn |-> Times(row.allIn, n)]
  BY <1>1, <1>7 DEF Line
<1> HIDE DEF got, n, body
<1>9. \E t \in told : t[1] = body /\ t[2] = got
  BY <1>4
<1> QED
  BY <1>5, <1>6, <1>7, <1>8, <1>9 DEF n, body

\* The parts of an itinerary (tools.py, the end of mmt_price_itinerary).
LEMMA ItineraryIs ==
    ASSUME AnswerInv, Answer, call.tool = "itinerary"
    PROVE  /\ answer' = Itinerary /\ call.stays \in Stays
           /\ DOMAIN Results = 1..Len(call.stays) /\ DOMAIN leg = 1..Len(call.stays)
           /\ Len(call.stays) \in Nat /\ DOMAIN call.stays = 1..Len(call.stays)
           /\ Itinerary.legs = Picked(Results, {i \in DOMAIN Results : ~IsError(Results[i])})
<1>1. call.stays \in Stays /\ DOMAIN leg = DOMAIN call.stays
  BY DEF AnswerInv, Served, Answer
<1>2. Len(call.stays) \in Nat /\ DOMAIN call.stays = 1..Len(call.stays)
  BY <1>1, HotelToolsAssumption, LenProperties
<1>3. DOMAIN Results = DOMAIN leg
  BY DEF Results
<1>4. Itinerary.legs = Keep(Results, LAMBDA r : ~IsError(r))
  BY DEF Itinerary
<1>5. Keep(Results, LAMBDA r : ~IsError(r))
      = Picked(Results, {i \in DOMAIN Results : ~IsError(Results[i])})
  BY DEF Keep
<1> QED
  BY <1>1, <1>2, <1>3, <1>4, <1>5 DEF Answer

\* The line or the error of a stay is in the answer once, in the place of the stay.
LEMMA StaysInPlace ==
    ASSUME AnswerInv, Answer, call.tool = "itinerary" PROVE EveryStayInItsPlace'
<1> DEFINE P == {i \in DOMAIN Results : ~IsError(Results[i])}
           stays == call.stays
           n == Len(stays)
           zipped == [i \in DOMAIN leg |-> [stay |-> stays[i].label, r |-> Results[i]]]
           priced == Picked(stays, P)
           failed == Picked(stays, (1..n) \ P)
<1>1. /\ n \in Nat /\ DOMAIN stays = 1..n /\ DOMAIN leg = 1..n /\ DOMAIN Results = 1..n
      /\ Itinerary.legs = Picked(Results, P)
  BY ItineraryIs
<1>2. Itinerary.stays = stays
  BY DEF Itinerary
<1>3. Itinerary.errors = Picked(zipped, (1..n) \ P)
  <2>1. Itinerary.errors = Keep(zipped, LAMBDA z : IsError(z.r))
    BY DEF Itinerary
  <2>2. Keep(zipped, LAMBDA z : IsError(z.r))
        = Picked(zipped, {i \in DOMAIN zipped : IsError(zipped[i].r)})
    BY DEF Keep
  <2>3. {i \in DOMAIN zipped : IsError(zipped[i].r)} = (1..n) \ P
    BY <1>1
  <2> QED
    BY <2>1, <2>2, <2>3
<1>4. P \in SUBSET (1..n) /\ (1..n) \ P \in SUBSET (1..n)
  BY <1>1
<1>5. [i \in DOMAIN Itinerary.legs |-> Itinerary.legs[i].label]
      = [i \in DOMAIN priced |-> priced[i].label]
  <2>1. \A i \in P : Results[i].label = stays[i].label
    BY <1>1, ResultIs
  <2> HIDE DEF P
  <2>2. PICK at \in [1..Cardinality(P) -> P] :
          \A s : Picked(s, P) = [m \in 1..Cardinality(P) |-> s[at[m]]]
    BY <1>1, <1>4, PickedIs
  <2>3. /\ Picked(Results, P) = [m \in 1..Cardinality(P) |-> Results[at[m]]]
        /\ Picked(stays, P) = [m \in 1..Cardinality(P) |-> stays[at[m]]]
    BY <2>2
  <2> QED
    BY <1>1, <2>1, <2>3
<1>6. [i \in DOMAIN Itinerary.errors |-> Itinerary.errors[i].stay]
      = [i \in DOMAIN failed |-> failed[i].label]
  <2> DEFINE F == (1..n) \ P
  <2>1. \A i \in F : zipped[i].stay = stays[i].label
    BY <1>1
  <2>2. failed = Picked(stays, F) /\ Itinerary.errors = Picked(zipped, F)
    BY <1>3
  <2>3. F \in SUBSET (1..n)
    OBVIOUS
  <2> HIDE DEF P, zipped, F, failed
  <2>4. PICK at \in [1..Cardinality(F) -> F] :
          \A s : Picked(s, F) = [m \in 1..Cardinality(F) |-> s[at[m]]]
    BY <1>1, <2>3, PickedIs
  <2>5. /\ Picked(zipped, F) = [m \in 1..Cardinality(F) |-> zipped[at[m]]]
        /\ Picked(stays, F) = [m \in 1..Cardinality(F) |-> stays[at[m]]]
    BY <2>4
  <2>6. DOMAIN failed = 1..Cardinality(F) /\ DOMAIN Itinerary.errors = 1..Cardinality(F)
    BY <2>2, <2>5
  <2>7. \A m \in 1..Cardinality(F) : Itinerary.errors[m].stay = failed[m].label
    BY <2>2, <2>1, <2>5
  <2> QED
    BY <2>6, <2>7
<1>7. answer' = Itinerary
  BY ItineraryIs
<1> HIDE DEF P, stays, n, zipped
<1>8. /\ P \in SUBSET DOMAIN answer'.stays
      /\ priced = Picked(answer'.stays, P)
      /\ failed = Picked(answer'.stays, DOMAIN answer'.stays \ P)
  BY <1>1, <1>2, <1>4, <1>7
<1> HIDE DEF priced, failed
<1>9. LET yes == Picked(answer'.stays, P)
          no == Picked(answer'.stays, DOMAIN answer'.stays \ P)
      IN  /\ [i \in DOMAIN answer'.legs |-> answer'.legs[i].label]
             = [i \in DOMAIN yes |-> yes[i].label]
          /\ [i \in DOMAIN answer'.errors |-> answer'.errors[i].stay]
             = [i \in DOMAIN no |-> no[i].label]
  BY <1>5, <1>6, <1>7, <1>8
<1> QED
  BY <1>8, <1>9, Zenon DEF EveryStayInItsPlace

\* A line of the answer is the result of a leg.
LEMMA LegIsResult ==
    ASSUME AnswerInv, Answer, call.tool = "itinerary", NEW l \in ToSet(Itinerary.legs)
    PROVE  \E i \in DOMAIN leg : ~IsError(Results[i]) /\ l = Results[i]
<1> DEFINE P == {i \in DOMAIN Results : ~IsError(Results[i])}
           n == Len(call.stays)
<1>1. /\ n \in Nat /\ DOMAIN leg = 1..n /\ DOMAIN Results = 1..n
      /\ Itinerary.legs = Picked(Results, P)
  BY ItineraryIs
<1>2. P \in SUBSET (1..n)
  BY <1>1
<1>3. \A i \in P : i \in DOMAIN leg /\ ~IsError(Results[i])
  BY <1>1
<1> HIDE DEF P, n
<1>4. PICK at \in [1..Cardinality(P) -> P] :
        \A s : Picked(s, P) = [m \in 1..Cardinality(P) |-> s[at[m]]]
  BY <1>1, <1>2, PickedIs
<1>5. Itinerary.legs = [m \in 1..Cardinality(P) |-> Results[at[m]]]
  BY <1>1, <1>4
<1>6. PICK m \in 1..Cardinality(P) : l = Results[at[m]]
  BY <1>5 DEF ToSet
<1> QED
  BY <1>3, <1>6

\* The line of a stay is what the site said of it.
LEMMA LinesQuoted ==
    ASSUME AnswerInv, Answer, call.tool = "itinerary" PROVE LinesWereQuoted'
<1>1. /\ answer' = Itinerary /\ told' = told /\ Itinerary.stays = call.stays
      /\ DOMAIN leg = DOMAIN call.stays
  BY ItineraryIs DEF Answer, Itinerary
<1>2. ASSUME NEW l \in ToSet(Itinerary.legs)
      PROVE  \E s \in ToSet(call.stays), t \in told :
               /\ s.label = l.label
               /\ t[1] = BuildBody(ResolveCity(s.city), s.in, s.out, s.party, 5, <<s.hotel>>, None)
               /\ t[2] # None /\ Flatten(t[2]) # <<>> /\ l.rate = Summarise(Flatten(t[2])[1])
  <2>1. PICK i \in DOMAIN leg : ~IsError(Results[i]) /\ l = Results[i]
    BY LegIsResult
  <2>2. call.stays[i] \in ToSet(call.stays)
    BY <1>1 DEF ToSet
  <2> QED
    BY <2>1, <2>2, ResultIs
<1> SUFFICES ASSUME NEW l \in ToSet(answer'.legs)
             PROVE  \E s \in ToSet(answer'.stays), t \in told' :
               /\ s.label = l.label
               /\ t[1] = BuildBody(ResolveCity(s.city), s.in, s.out, s.party, 5, <<s.hotel>>, None)
               /\ t[2] # None /\ Flatten(t[2]) # <<>> /\ l.rate = Summarise(Flatten(t[2])[1])
  BY DEF LinesWereQuoted
<1> QED
  BY <1>1, <1>2

\* The sums of figures that are numbers are numbers, each the one before and a figure.
LEMMA SumsSteps ==
    ASSUME NEW s, NEW n \in Nat, Len(s) = n, \A i \in 1..n : OrZero(s[i]) \in Int
    PROVE  /\ Sums(s)[0] = 0
           /\ \A i \in 1..n : Sums(s)[i] = Sums(s)[i - 1] + OrZero(s[i])
           /\ \A i \in 0..n : Sums(s)[i] \in Int
<1> DEFINE f == Sums(s)
<1>1. f = [i \in 0..n |-> IF i = 0 THEN 0 ELSE f[i - 1] + OrZero(s[i])]
  BY SumsIs
<1> HIDE DEF f
<1>2. f[0] = 0 /\ \A i \in 1..n : f[i] = f[i - 1] + OrZero(s[i])
  BY <1>1
<1> DEFINE S == {i \in 0..n : f[i] \in Int}
<1>3. 0 \in S
  BY <1>2
<1>4. \A i \in 0..(n - 1) : i \in S => i + 1 \in S
  BY <1>2
<1> HIDE DEF S
<1>5. 0..n \subseteq S
  BY <1>3, <1>4, Climb
<1>6. \A i \in 0..n : f[i] \in Int
  BY <1>5 DEF S
<1> QED
  BY <1>2, <1>6 DEF f

\* One more line adds at most one to what the sums are out by.
LEMMA OneMore ==
    ASSUME NEW i \in Nat, NEW x \in Int, NEW y \in Int, NEW z \in Int,
           NEW p \in Int, NEW q \in Int, NEW r \in Int,
           x + y - z \in -i..i, p + q - r \in -1..1
    PROVE  (x + p) + (y + q) - (z + r) \in -(i + 1)..(i + 1)
OBVIOUS

\* The three columns of the lines: where each line is out by one at most, the sums of n
\* lines are out by n at most.
LEMMA ColumnSums ==
    ASSUME NEW n \in Nat, NEW b, NEW t, NEW a, Len(b) = n, Len(t) = n, Len(a) = n,
           \A i \in 1..n : /\ OrZero(b[i]) \in Int /\ OrZero(t[i]) \in Int /\ OrZero(a[i]) \in Int
                           /\ OrZero(b[i]) + OrZero(t[i]) - OrZero(a[i]) \in -1..1
    PROVE  (Total(b) + Total(t)) - Total(a) \in -n..n
<1> DEFINE f == Sums(b)
           g == Sums(t)
           h == Sums(a)
           S == {i \in 0..n : f[i] + g[i] - h[i] \in -i..i}
<1>1. f[0] = 0 /\ g[0] = 0 /\ h[0] = 0
  BY SumsSteps
<1>2. \A i \in 1..n : /\ f[i] = f[i - 1] + OrZero(b[i]) /\ g[i] = g[i - 1] + OrZero(t[i])
                      /\ h[i] = h[i - 1] + OrZero(a[i])
  BY SumsSteps
<1>3. \A i \in 0..n : f[i] \in Int /\ g[i] \in Int /\ h[i] \in Int
  BY SumsSteps
<1> HIDE DEF f, g, h
<1>4. 0 \in S
  BY <1>1
<1>5. ASSUME NEW i \in 0..(n - 1), i \in S PROVE i + 1 \in S
  <2>1. i + 1 \in 1..n /\ (i + 1) - 1 = i
    OBVIOUS
  <2>2. /\ f[i + 1] = f[i] + OrZero(b[i + 1]) /\ g[i + 1] = g[i] + OrZero(t[i + 1])
        /\ h[i + 1] = h[i] + OrZero(a[i + 1])
    BY <1>2, <2>1
  <2>3. f[i] \in Int /\ g[i] \in Int /\ h[i] \in Int /\ f[i] + g[i] - h[i] \in -i..i
    BY <1>3, <1>5
  <2>4. /\ OrZero(b[i + 1]) \in Int /\ OrZero(t[i + 1]) \in Int /\ OrZero(a[i + 1]) \in Int
        /\ OrZero(b[i + 1]) + OrZero(t[i + 1]) - OrZero(a[i + 1]) \in -1..1
    BY <2>1
  <2>5. f[i + 1] + g[i + 1] - h[i + 1] \in -(i + 1)..(i + 1)
    <3>1. (f[i] + OrZero(b[i + 1])) + (g[i] + OrZero(t[i + 1])) - (h[i] + OrZero(a[i + 1]))
          \in -(i + 1)..(i + 1)
      <4> DEFINE x == f[i]
                 y == g[i]
                 z == h[i]
                 p == OrZero(b[i + 1])
                 q == OrZero(t[i + 1])
                 r == OrZero(a[i + 1])
      <4>1. /\ x \in Int /\ y \in Int /\ z \in Int /\ p \in Int /\ q \in Int /\ r \in Int
            /\ x + y - z \in -i..i /\ p + q - r \in -1..1 /\ i \in Nat
        BY <2>3, <2>4
      <4> HIDE DEF x, y, z, p, q, r
      <4>2. (x + p) + (y + q) - (z + r) \in -(i + 1)..(i + 1)
        BY <4>1, OneMore
      <4> QED
        BY <4>2 DEF x, y, z, p, q, r
    <3> QED
      BY <2>2, <3>1
  <2> QED
    BY <2>1, <2>5
<1> HIDE DEF S
<1>6. 0..n \subseteq S
  BY <1>4, <1>5, Climb
<1>7. n \in S
  BY <1>6
<1>8. (f[n] + g[n]) - h[n] \in -n..n
  BY <1>3, <1>7 DEF S
<1> QED
  BY <1>8 DEF Total, f, g, h

\* Rounding the parts of a whole is out by one at most (round: half to even).
LEMMA RoundedParts ==
    ASSUME NEW x \in Int, NEW y \in Int
    PROVE  /\ RoundHalf(x) \in Int /\ RoundHalf(y) \in Int /\ RoundHalf(x + y) \in Int
           /\ RoundHalf(x) + RoundHalf(y) - RoundHalf(x + y) \in -1..1
BY DEF RoundHalf

\* A line that is whole is out by one at most.
LEMMA WholeLine ==
    ASSUME AnswerInv, Answer, call.tool = "itinerary", NEW i \in DOMAIN leg,
           ~IsError(Results[i]),
           LET r == Results[i].rate IN None \notin {r.base, r.tax} /\ r.allIn = r.base + r.tax
    PROVE  LET r == Results[i]
           IN  /\ OrZero(r.stayBase) \in Int /\ OrZero(r.stayTax) \in Int
               /\ OrZero(r.stayAllIn) \in Int
               /\ OrZero(r.stayBase) + OrZero(r.stayTax) - OrZero(r.stayAllIn) \in -1..1
<1> DEFINE r == Results[i]
           n == Nights(call.stays[i].in, call.stays[i].out)
<1>1. /\ n \in Int /\ r.stayBase = Times(r.rate.base, n)
      /\ r.stayTax = Times(r.rate.tax, n) /\ r.stayAllIn = Times(r.rate.allIn, n)
      /\ \E t \in told : /\ t[2] \in Responses \ {None} /\ Flatten(t[2]) # <<>>
                         /\ r.rate = Summarise(Flatten(t[2])[1])
  BY ResultIs
<1> HIDE DEF r, n
<1>2. r.rate.base \in Int /\ r.rate.tax \in Int
  <2>1. PICK t \in told : /\ t[2] \in Responses \ {None} /\ Flatten(t[2]) # <<>>
                          /\ r.rate = Summarise(Flatten(t[2])[1])
    BY <1>1
  <2> DEFINE hotels == Flatten(t[2])
  <2>2. hotels \in Seq(ToSet(hotels)) /\ hotels # <<>>
        /\ \A h \in ToSet(hotels) : {h.base, h.tax, h.allIn} \subseteq Int \cup {None}
    BY <2>1, HotelToolsAssumption
  <2> HIDE DEF hotels
  <2>3. hotels[1] \in ToSet(hotels)
    BY <2>2
  <2>4. r.rate.base = hotels[1].base /\ r.rate.tax = hotels[1].tax
    BY <2>1 DEF Summarise, hotels
  <2> QED
    BY <2>2, <2>3, <2>4 DEF r
<1>3. r.rate.allIn = r.rate.base + r.rate.tax /\ None \notin Int
  BY HotelToolsAssumption DEF r
<1> DEFINE x == r.rate.base * n
           y == r.rate.tax * n
<1>4. x \in Int /\ y \in Int /\ r.rate.allIn \in Int /\ r.rate.allIn * n = x + y
  BY <1>1, <1>2, <1>3
<1>5. /\ r.stayBase = RoundHalf(x) /\ r.stayTax = RoundHalf(y)
      /\ r.stayAllIn = RoundHalf(x + y)
  BY <1>1, <1>2, <1>3, <1>4 DEF Times
<1> HIDE DEF x, y
<1> QED
  BY <1>3, <1>4, <1>5, RoundedParts DEF OrZero, r

\* The totals of the two columns, against the column of the lines.
LEMMA TotalsFollow ==
    ASSUME AnswerInv, Answer, call.tool = "itinerary" PROVE TotalsFollowTheLines'
<1> DEFINE legs == Itinerary.legs
           P == {i \in DOMAIN Results : ~IsError(Results[i])}
           n == Cardinality(P)
           b == [i \in DOMAIN legs |-> legs[i].stayBase]
           t == [i \in DOMAIN legs |-> legs[i].stayTax]
           a == [i \in DOMAIN legs |-> legs[i].stayAllIn]
<1>1. /\ Len(call.stays) \in Nat /\ DOMAIN Results = 1..Len(call.stays)
      /\ legs = Picked(Results, P) /\ answer' = Itinerary
  BY ItineraryIs
<1>2. P \in SUBSET (1..Len(call.stays))
  BY <1>1
<1>3. n \in Nat /\ DOMAIN legs = 1..n
  <2> HIDE DEF P, legs
  <2>1. PICK at \in [1..n -> P] :
          n \in Nat /\ \A s : Picked(s, P) = [m \in 1..n |-> s[at[m]]]
    BY <1>1, <1>2, PickedIs
  <2>2. legs = [m \in 1..n |-> Results[at[m]]]
    BY <1>1, <2>1
  <2> QED
    BY <2>1, <2>2
<1> HIDE DEF P, n
<1>4. Itinerary.allIn = Total(b) + Total(t)
  BY DEF Itinerary
<1> HIDE DEF legs
<1>5. Len(b) = n /\ Len(t) = n /\ Len(a) = n /\ Len(legs) = n
  BY <1>3
<1>6. SUFFICES ASSUME \A l \in ToSet(answer'.legs) :
                        /\ None \notin {l.rate.base, l.rate.tax}
                        /\ l.rate.allIn = l.rate.base + l.rate.tax
               PROVE  answer'.allIn
                        - Total([i \in DOMAIN answer'.legs |-> answer'.legs[i].stayAllIn])
                      \in -Len(answer'.legs)..Len(answer'.legs)
  BY DEF TotalsFollowTheLines
<1>7. answer'.legs = legs /\ answer'.allIn = Total(b) + Total(t)
  BY <1>1, <1>4 DEF legs
<1>8. \A i \in 1..n :
        /\ OrZero(b[i]) \in Int /\ OrZero(t[i]) \in Int /\ OrZero(a[i]) \in Int
        /\ OrZero(b[i]) + OrZero(t[i]) - OrZero(a[i]) \in -1..1
  <2> TAKE m \in 1..n
  <2>1. legs[m] \in ToSet(legs)
    BY <1>3 DEF ToSet
  <2>2. PICK i \in DOMAIN leg : ~IsError(Results[i]) /\ legs[m] = Results[i]
    BY <2>1, LegIsResult DEF legs
  <2>3. b[m] = Results[i].stayBase /\ t[m] = Results[i].stayTax /\ a[m] = Results[i].stayAllIn
    BY <1>3, <2>2
  <2> QED
    BY <1>6, <1>7, <2>1, <2>2, <2>3, WholeLine
<1>9. [i \in DOMAIN answer'.legs |-> answer'.legs[i].stayAllIn] = a
  BY <1>7
<1> HIDE DEF b, t, a
<1>10. (Total(b) + Total(t)) - Total(a) \in -n..n
  BY <1>3, <1>5, <1>8, ColumnSums
<1>11. Len(answer'.legs) = n
  BY <1>5, <1>7
<1>12. answer'.allIn - Total(a) = (Total(b) + Total(t)) - Total(a)
  BY <1>7
<1> QED
  BY <1>9, <1>10, <1>11, <1>12

\* Nothing but the end of an itinerary answers one, and nothing that was told is forgotten.
LEMMA AnswerMoves ==
    ASSUME AnswerInv, [Next]_vars
    PROVE  /\ told \subseteq told'
           /\ \/ answer' = answer \/ answer'.tool # "itinerary"
              \/ Answer /\ call.tool = "itinerary"
<1>1. CASE UNCHANGED vars \/ Rest
  BY <1>1 DEF vars, Rest
<1>2. CASE Asked
  BY <1>2 DEF Asked, PriceItinerary, HotelSearch, FindHotelId, HotelRates, Refuse, Serve, Idle
<1>3. ASSUME NEW i \in DOMAIN leg,
             \/ TakeSlot(i) \/ Begin(i) \/ SiteFails(i) \/ \E r : SiteAnswers(i, r)
      PROVE  told \subseteq told' /\ answer' = answer
  BY <1>3 DEF TakeSlot, Begin, SiteFails, SiteAnswers
<1>4. CASE Answer /\ call.tool # "itinerary"
  <2>1. call.tool \in {"search", "find", "rates"}
    BY <1>4 DEF AnswerInv, Served, Tools, Answer
  <2>2. OneSearch.tool # "itinerary"
    BY <2>1 DEF OneSearch, Found, Matches, Rates
  <2> QED
    BY <1>4, <2>2 DEF Answer
<1>5. CASE Answer /\ call.tool = "itinerary"
  BY <1>5 DEF Answer
<1> QED
  BY <1>1, <1>2, <1>3, <1>4, <1>5 DEF Next

\* Every stay of an itinerary is in the answer once, priced or failed, in its place,
\* however the searches of the stays end and in whatever order (gather_limited and zip).
THEOREM StaysKeepTheirPlaces == Spec => []EveryStayInItsPlace
<1>1. Init => AnswerInv /\ EveryStayInItsPlace
  BY AnswerInit DEF Init, Idle, EveryStayInItsPlace
<1>2. AnswerInv /\ EveryStayInItsPlace /\ [Next]_vars => AnswerInv' /\ EveryStayInItsPlace'
  <2> SUFFICES ASSUME AnswerInv, EveryStayInItsPlace, [Next]_vars PROVE EveryStayInItsPlace'
    BY NextAnswer
  <2> QED
    BY AnswerMoves, StaysInPlace DEF EveryStayInItsPlace
<1> QED
  BY <1>1, <1>2, PTL DEF Spec

\* Every line of an itinerary is what the site said of that property for those days and
\* that party, at some time (the key of search).
THEOREM LinesAreQuoted == Spec => []LinesWereQuoted
<1>1. Init => AnswerInv /\ LinesWereQuoted
  BY AnswerInit DEF Init, Idle, LinesWereQuoted
<1>2. AnswerInv /\ LinesWereQuoted /\ [Next]_vars => AnswerInv' /\ LinesWereQuoted'
  <2> SUFFICES ASSUME AnswerInv, LinesWereQuoted, [Next]_vars PROVE LinesWereQuoted'
    BY NextAnswer
  <2> QED
    BY AnswerMoves, LinesQuoted DEF LinesWereQuoted
<1> QED
  BY <1>1, <1>2, PTL DEF Spec

\* The total of an itinerary of whole lines is within one a line of the sum of the lines,
\* for any rates and any nights (mmt_price_itinerary, BUG-16).
THEOREM TotalsAreOfTheLines == Spec => []TotalsFollowTheLines
<1>1. Init => AnswerInv /\ TotalsFollowTheLines
  BY AnswerInit DEF Init, Idle, TotalsFollowTheLines
<1>2. AnswerInv /\ TotalsFollowTheLines /\ [Next]_vars => AnswerInv' /\ TotalsFollowTheLines'
  <2> SUFFICES ASSUME AnswerInv, TotalsFollowTheLines, [Next]_vars PROVE TotalsFollowTheLines'
    BY NextAnswer
  <2> QED
    BY AnswerMoves, TotalsFollow DEF TotalsFollowTheLines
<1> QED
  BY <1>1, <1>2, PTL DEF Spec


=============================================================================
