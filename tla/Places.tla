-------------------------------- MODULE Places --------------------------------
(***************************************************************************)
(* The cab tools of mmt/tools.py in the servers that share one data.json:  *)
(* mmt_cab_find_place and mmt_cab_add_place register places, mmt_cab_quote *)
(* prices between them, and the comparison resolves its two ends before it *)
(* asks for a quote.  A server runs one call at a time; a save reads the   *)
(* file, writes data.tmp and renames it (mmt/config.py), and the servers   *)
(* share data.tmp as well: a rename takes along the file another server    *)
(* has open.  A server may die at any step.                                *)
(***************************************************************************)
EXTENDS Cabs, Harvest

CONSTANTS Server,
          Queries,     \* the queries, sequences of words
          SaveAs,      \* the names to register under, or Unset
          Shown,       \* what the site may suggest: sequences of places
          Urls,        \* the addresses a caller may paste: from and to
          Venue,       \* the words for a venue, POI_WORDS
          Trips,       \* the quotes asked for: [from, to, trip, return]
          Pages,       \* the listings the site may answer with; None is no listing
          Today,
          Inode,       \* bound: the files there can be, one more than the servers is enough
          MaxCalls     \* bound: the calls of a run of the model

ASSUME PlacesAssumption ==
    /\ None \notin Inode /\ Inode # {} /\ \A i \in Inode : Inode # {i}

\* Queries, suggestions and listings are sequences, a fare is a number or missing.
ASSUME AskedAssumption ==
    /\ None \notin Int
    /\ \A words \in Queries : words \in Seq(ToSet(words))
    /\ \A shown \in Shown : shown \in Seq(ToSet(shown)) /\ None \notin ToSet(shown)
    /\ \A page \in Pages \ {None} :
         /\ page.cards \in Seq(ToSet(page.cards))
         /\ \A c \in ToSet(page.cards) : c.fare \in Int \cup {None}

Empty == [parses |-> FALSE, torn |-> FALSE]   \* a file just opened for writing
Torn == [parses |-> FALSE, torn |-> TRUE]     \* the end of a longer text after a shorter one
Parsed(places) == [parses |-> TRUE, places |-> places]

VARIABLES data, tmp,   \* the files the two names stand for
          content,     \* of each file
          server,      \* what each server is at: its pc, and what it has read or opened
          answer,      \* of each server's last call
          calls,
          registered,  \* history: what each name was last registered as
          overlapped   \* history: one save has begun within another

vars == <<data, tmp, content, server, answer, calls, registered, overlapped>>

Idle == [pc |-> "idle"]
NoAnswer == [tool |-> "none"]

Init ==
    /\ data = None /\ tmp = None /\ content = [i \in Inode |-> Empty]
    /\ server = [s \in Server |-> Idle]
    /\ answer = [s \in Server |-> NoAnswer]
    /\ calls = 0 /\ registered = <<>> /\ overlapped = FALSE

disk == <<data, tmp, content>>
history == <<registered, overlapped>>

Goes(s, w) == server' = [server EXCEPT ![s] = w]
Answers(s, a) == answer' = [answer EXCEPT ![s] = a]
Begins(s, w) == Goes(s, w) /\ Answers(s, NoAnswer)
Fails(s, tool, kind) == Goes(s, Idle) /\ Answers(s, [tool |-> tool, error |-> kind])

\* _read_data: whatever cannot be read is an empty store.
Saved == IF data = None \/ ~content[data].parses THEN <<>> ELSE content[data].places

Asks(s) ==
    /\ server[s] = Idle /\ calls < MaxCalls
    /\ calls' = calls + 1

\* mmt_cab_find_place, up to the wait for the site.
FindPlace(s, words, saveAs) ==
    /\ Asks(s) /\ Begins(s, [pc |-> "harvest", words |-> words, saveAs |-> saveAs])
    /\ UNCHANGED <<disk, history>>

\* A server that will save the places and then answer.
Save(saves, then) ==
    [pc |-> "read", saves |-> saves, then |-> then, text |-> <<>>, file |-> None]

Text(place) == NameOf(place) \o <<",", " ">> \o place.secondary
NoUrl == [from |-> None, fromCity |-> None, to |-> None]

\* What the lookup found: the responses may not have been readable, and the click may
\* have led nowhere.  The place is graded, named, and then saved.
Harvested(s, shown, captured, led) ==
    LET w == server[s]
        clicked == ClickBest([i \in DOMAIN shown |-> Text(shown[i])], Spoken(w.words))
        url == IF led /\ clicked # 0 THEN [NoUrl EXCEPT !.from = shown[clicked]] ELSE NoUrl
        hit == HarvestPlace(IF captured THEN shown ELSE <<>>, url, w.words)
        place == hit.place
        name == IF w.saveAs # Unset THEN w.saveAs
                ELSE IF place.city # None THEN place.city ELSE Spoken(w.words)
        forVenue == \E v \in Venue : Within(v, Spoken(w.words))
    IN  /\ w.pc = "harvest"
        /\ IF place = None THEN Fails(s, "find", "bad_input")
           ELSE /\ Goes(s, Save(<<[name |-> name, place |-> place]>>,
                            [tool |-> "find", words |-> w.words, place |-> place,
                             seen |-> IF captured THEN shown ELSE <<>>,
                             warning |-> Warning(place.isCity, forVenue, hit.tier)]))
                /\ UNCHANGED answer
        /\ UNCHANGED <<disk, calls, history>>

\* mmt_cab_add_place: the two ends of a pasted address, one save after the other.
AddPlace(s, url, origin, dest) ==
    LET sides == Keep(<<"from", "to">>, LAMBDA side : side \in PlaceFromUrl(url))
        given(side) == IF side = "from" THEN origin ELSE dest
        name(side) == IF given(side) # Unset THEN given(side)
                      ELSE IF url[side].city # None THEN url[side].city
                      ELSE IF url[side].locus # None THEN url[side].locus ELSE <<side>>
    IN  /\ Asks(s)
        /\ IF sides = <<>> THEN Fails(s, "add", "bad_input")
           ELSE Begins(s, Save([i \in DOMAIN sides |->
                                  [name |-> name(sides[i]), place |-> url[sides[i]]]],
                               [tool |-> "add"]))
        /\ UNCHANGED <<disk, history>>

-----------------------------------------------------------------------------
(* save_place *)

Saving == {s \in Server : server[s].pc \in {"open", "write", "replace"}}

\* Mutant: what was read for one save serves for the next.
StoreReadOnce(w) == IF w.text # <<>> THEN w.text ELSE Saved

Store(w) == Saved

\* load_data, and the place under its name.
Load(s) ==
    LET w == server[s]
        save == w.saves[1]
    IN  /\ w.pc = "read"
        /\ Goes(s, [w EXCEPT !.pc = "open",
                             !.text = Added(Store(w), save.name, save.place)])
        /\ overlapped' = (overlapped \/ Saving # {})
        /\ UNCHANGED <<disk, answer, calls, registered>>

\* _write_data opens data.tmp, and empties it.
OpenTmp(s) ==
    LET free == Inode \ ({data, tmp} \cup {server[r].file : r \in Saving})
        file == IF tmp = None THEN CHOOSE i \in free : TRUE ELSE tmp
    IN  /\ server[s].pc = "open"
        /\ Goes(s, [server[s] EXCEPT !.pc = "write", !.file = file])
        /\ tmp' = file /\ content' = [content EXCEPT ![file] = Empty]
        /\ UNCHANGED <<data, answer, calls, history>>

\* The text goes into the open file from its start: of a longer text that another
\* server wrote there, the end may be left.
WriteTmp(s) ==
    LET w == server[s]
    IN  /\ w.pc = "write"
        /\ \/ content' = [content EXCEPT ![w.file] = Parsed(w.text)]
           \/ content[w.file] # Empty /\ content' = [content EXCEPT ![w.file] = Torn]
        /\ Goes(s, [w EXCEPT !.pc = "replace"])
        /\ UNCHANGED <<data, tmp, answer, calls, history>>

\* os.replace, which fails when another server has moved data.tmp away.
Replace(s) ==
    LET w == server[s]
        save == w.saves[1]
        rest == Tail(w.saves)
    IN  /\ w.pc = "replace" /\ UNCHANGED <<content, calls, overlapped>>
        /\ IF tmp = None
           THEN Fails(s, w.then.tool, "unexpected") /\ UNCHANGED <<data, tmp, registered>>
           ELSE /\ data' = tmp /\ tmp' = None
                /\ registered' = Added(registered, save.name, save.place)
                /\ IF rest = <<>> THEN Goes(s, Idle) /\ Answers(s, w.then)
                   ELSE /\ Goes(s, [w EXCEPT !.pc = "read", !.saves = rest, !.file = None])
                        /\ UNCHANGED answer

\* A server is killed; the next one starts on what is on the disk.
Dies(s) ==
    /\ server[s] # Idle
    /\ Goes(s, Idle) /\ Answers(s, NoAnswer)
    /\ UNCHANGED <<disk, calls, history>>

-----------------------------------------------------------------------------

\* mmt_cab_quote up to the request; `found` are the names of the two ends.
Quote(s, trip, found) ==
    LET from == ResolvePlace(found[1], Saved)
        to == ResolvePlace(found[2], Saved)
        url == ListingUrl(from, to, trip.day, trip.trip, trip.return)
    IN  IF ~TripIsValid(trip.day, trip.trip, trip.return, Today) THEN Fails(s, "quote", "bad_input")
        ELSE IF None \in {from, to} THEN Fails(s, "quote", "unregistered_place")
        ELSE IF url = None THEN Fails(s, "quote", "unexpected")
        ELSE Begins(s, [pc |-> "listing", url |-> url])

AskQuote(s, trip) ==
    /\ Asks(s) /\ Quote(s, trip, <<trip.from, trip.to>>)
    /\ UNCHANGED <<disk, history>>

\* The cab leg of mmt_intercity_options, which asks for a quote between the names that
\* the two ends were found under.
CompareLeg(s, trip) ==
    LET found == <<ResolvePlaceLoose(trip.from, Saved), ResolvePlaceLoose(trip.to, Saved)>>
    IN  /\ Asks(s)
        /\ IF None \in {found[1], found[2]} THEN Fails(s, "quote", "unregistered_place")
           ELSE Quote(s, [trip EXCEPT !.trip = "OW", !.return = Unset], found)
        /\ UNCHANGED <<disk, history>>

\* What the site prices: a round trip within one day is a one-way trip to it.
Priced(url) ==
    IF url.trip = "RT" /\ url.return > url.day THEN "round" ELSE "one_way"

\* The rest of search: no listing is a block, no cab is no answer.
Listed(s, page) ==
    LET url == server[s].url
    IN  /\ server[s].pc = "listing"
        /\ IF page = None THEN Fails(s, "quote", "blocked")
           ELSE IF page.cards = <<>> THEN Fails(s, "quote", "empty_valid")
           ELSE /\ Goes(s, Idle)
                /\ Answers(s, [tool |-> "quote", trip |-> url.trip, from |-> url.from,
                               to |-> url.to, fares |-> Priced(url),
                               listing |-> ParseCabs(page)])
        /\ UNCHANGED <<disk, calls, history>>

\* The bound is reached: nothing is left to be asked.
Rest ==
    /\ calls = MaxCalls /\ \A s \in Server : server[s] = Idle
    /\ UNCHANGED vars

Next ==
    \/ \E s \in Server :
         \/ \E words \in Queries, name \in SaveAs : FindPlace(s, words, name)
         \/ server[s].pc = "harvest" /\ \E shown \in Shown, captured, led \in BOOLEAN :
              Harvested(s, shown, captured, led)
         \/ \E url \in Urls, origin, dest \in SaveAs : AddPlace(s, url, origin, dest)
         \/ Load(s) \/ OpenTmp(s) \/ WriteTmp(s) \/ Replace(s) \/ Dies(s)
         \/ \E trip \in Trips : AskQuote(s, trip) \/ CompareLeg(s, trip)
         \/ server[s].pc = "listing" /\ \E page \in Pages : Listed(s, page)
    \/ Rest

Spec == Init /\ [][Next]_vars

-----------------------------------------------------------------------------

\* The runs of the words of a query, those that may name a place, and what they name.
Runs(words) == {SubSeq(words, i, j) : i, j \in DOMAIN words} \ {<<>>}
Telling(words) == {words} \cup {r \in Runs(words) : Len(r) > 1 \/ r[1] \notin RegionWord}
Names(r, p) == Spoken(r) \in {NameOf(p), FirstSegment(NameOf(p))}

\* A lookup registers what was asked for by name, or warns; and of several suggestions that
\* were asked for by name it takes one whose name says most of the query: never one that is
\* found under a part of it only, and never a guess.  A run of the words of the query is a
\* name, other than that of a region alone (_query_variants, _place_from_captured; BUG-17).
FullestNameWins ==
    \A s \in Server : answer[s].tool = "find" /\ ~("error" \in DOMAIN answer[s]) =>
        LET a == answer[s]
        IN  /\ a.warning = "none" => \E r \in Telling(a.words) : Names(r, a.place)
            /\ \A r \in Telling(a.words), p \in ToSet(a.seen) :
                  Names(r, p) => \E t \in Telling(a.words) : Names(t, a.place) /\ Len(t) >= Len(r)

\* A place that was registered is the one that is priced: as long as no two servers have
\* saved at the same time, what a name was last registered as is what a quote by that
\* name goes to, over what is built in, whichever servers saved, died in the middle of a
\* save and read since.  An alias is looked up before the store and is left out.
RegisteredIsPriced ==
    ~overlapped => \A n \in DOMAIN registered \ DOMAIN Alias :
        ResolvePlace(n, Saved) = registered[n]

\* A quote is what its label says: a round trip never carries one-way fares, its first
\* cab is the cheapest it lists, and no rate per kilometre is worked out from the
\* distance of a local package (validate_trip, is_package_bucket, parse; BUG-21).
QuoteIsWhatItSays ==
    \A s \in Server : answer[s].tool = "quote" /\ ~("error" \in DOMAIN answer[s]) =>
        LET q == answer[s]
            list == q.listing
            cabs == ToSet(list.cabs)
        IN  /\ q.trip = "RT" => q.fares = "round"
            /\ \A c \in cabs : c.fare # None => /\ list.cabs[1].fare # None
                                                /\ list.cabs[1].fare <= c.fare
            /\ (\E c \in cabs : c.rated) =>
                 ~\E n \in 1..10 : list.km = 40 * n /\ list.halves = 8 * n

=============================================================================
