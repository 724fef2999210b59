# makemytrip-mcp in TLA+

makemytrip-mcp is an MCP server, one Python process on one asyncio event loop, that
answers travel price questions by fetching pages and JSON from a site which blocks
robots. Two things are hard in it. One is the machinery that keeps it answering: a
circuit breaker over three fetch tiers, a validated cache, one real browser shared by
concurrent coroutines, a polling loop over a stream, a supervisor that restarts the
server under its host, and a log and a data file that must survive it. The other is that
an answer must be a price of what was asked for: of this hotel for these nights, between
these airports, for a day that can be booked, from the place that was meant. This
directory models both, checks them with TLC, and proves every safety property the passing runs check with TLAPS,
for any values of the constants that meet named assumptions. `PROJECT.json` holds the list of runs, the lines each
definition stands for, the hazards and the theorems in machine-readable form.

## 1. The system

| Component | State | Operations | Interacts with |
| --- | --- | --- | --- |
| router (`mmt/router.py`) | one `Health` record per endpoint class: state, consecutive failures, `opened_at` | `plan`, `record`, time | read and written by every fetch |
| fetch (`mmt/fetch.py`, `mmt/errors.py`) | the locals of each coroutine; `_LAST_BLOCKED` | `get_text`, `post_json`, `_maybe_recover` | router, cache, session |
| session (`mmt/session.py`) | browser and context handles, `_warm`, `_no_cdp`, the idle task, two locks and a semaphore | `ensure`, `warmup`, `close`, `recover`, `page`, `slot`, the reaper | the browser process; used by fetch, the harvests and `mmt_setup_status` |
| cache (`mmt/cache.py`) | an ordered dictionary with expiries and a byte count | `get`, `put`, `clear` | fetch, flight search |
| flight search (`mmt/flights.py`, `mmt/harvest.py`) | the polling loop's counters; the responses of the page; a cached answer | `search`, `harvest_flight_search`, `stream_verdict` | session (one page for up to a minute, `recover`), cache |
| watch server (`tools/watch_server.py`) | child process, buffer of frames, failure count, source snapshot | `write_client`, `start_child`, `stop_child`, `check`, `reload_if_source_changed`, `feed` | host on stdin, `server.py` as a child, the source files |
| harness client (`harness/mcp_client.py`) | request counter, queue of lines | `rpc` with a timeout, `close` | spawns servers one after the other and talks to them over pipes |
| server (`server.py`), tool wrapper (`mmt/tools.py`) | the request at hand | one JSON-RPC message at a time; every tool call is recorded | client, call log |
| call log (`mmt/calllog.py`), data store (`mmt/config.py`, `cabs.save_place`) | `calls.jsonl` and its predecessor; `data.json`; the cached device id | append, rotate, read; read-change-replace | outlive the server; shared by servers on one state directory |
| intercity comparison (`mmt/tools.py`, `compare.py`, `trains.py`, `dates.py`) | the rows, notes and calls of one answer | `mmt_intercity_options`, `mmt_train_search`; dominance, order, filter, booking window | the three searches |
| hotels (`mmt/hotels.py`, four tools of `mmt/tools.py`) | the searches of one call; cached answers | `mmt_hotel_search`, `mmt_find_hotel_id`, `mmt_hotel_rates`, `mmt_price_itinerary` | fetch, through `gather_limited` for an itinerary |
| cabs (`mmt/cabs.py`, `harvest_place`, three tools) | the saved places | `mmt_cab_find_place`, `mmt_cab_add_place`, `mmt_cab_quote` | data store, session, fetch; the comparison's cab leg |
| page readers (`mmt/rsc.py`, `trains.parse`, `flights.parse_docs`, `cabs.parse`) | none | references resolved, rows read, deduplicated and sorted | each search |
| selftest, capabilities, version | none | argument handling, constants | the other tools |

Concurrency comes from three places. `server.py` awaits one tool call at a time, but
`mmt_price_itinerary` runs up to four legs at once (`gather_limited`), all sharing ROUTER,
CACHE and SESSION; the reaper is a task of its own; the browser is a process that can die whenever it likes. In the supervisor two
threads share the child and the buffer. Between two awaits a coroutine is not
interrupted, so that stretch of code is one action in the models; in the supervisor the
unit is a critical section of `_pending_lock` or a statement outside it.

What makes each component correct:

- *router*: the fields of a record agree; an open circuit admits nobody; a blip does not
  demote a class for good.
- *fetch*: no call gives up before the ceiling tier; nothing a validator refused is
  cached, and no page above the cap; every call returns; health changes only through
  `record`.
- *session*: one browser on the profile; the warm flag dies with its context; nobody is
  handed a dead browser; the reaper spares work and dies with its context; no operation
  waits for ever on locks that are taken around each other.
- *cache*: the byte count is exact, both budgets hold, a get never shows a replaced or
  expired value.
- *flight search*: silence is reported as a block and soon, never as an empty route.
- *client, server, call log, data store*: a request never gets another's reply; a reply
  that was read is on file; a death at any step, or an append that fails half-way, costs
  one entry of the log at most; places and the device id are permanent.
- *hotels*: every stay of an itinerary is answered in its place, with what the site quoted
  for it; totals follow the lines; no listing without a price is answered from.
- *cabs*: a lookup takes the suggestion whose name says most of the query, or warns; what a name was registered as is what
  is priced; a quote is what its label says.
- *intercity comparison*: no seat and no flight is lost or invented between the page and
  the row; only what can be paid on the day proves a row beaten; a fare for
  another day is never taken for one of the day; one mode in trouble does not cost the
  others.
- *watch server*: no frame is lost or repeated, no edit is missed, a dead child is
  replaced or given up on, the end of input ends it.

## 2. The modules

`Router`, `Fetch` and `LossyMap`/`Cache` form one stack: `Fetch` extends `Router` and
uses the cache as a lossy map, and `Cache` is shown to implement exactly that map
(`IsLossyMap`). `RouterSpec` is the abstract specification of the router on its own:
any outcome for any class at any time; `Fetch` implements it (checked and proved).
`Session`, `FlightSearch`, `WatchServer`, `Serving`, `HotelTools`, `Places` and
`Intercity` stand on their own: what they see of each other (a context that may die, a
recovery that may fail, a search that may err) is a choice in the model. The last three
are tools over pure modules that hold operators only, one for each file that reads a
page: `HotelTools` extends `Hotels`; `Places` extends `Cabs` and `Harvest`; `Intercity`
extends `TrainPage` (which extends `Trains`), `Flights` and `Cabs`. All of them extend
`Compare`, which has the helpers they share: `Keep`, `Sorted` and `FirstOfEach`, a
comprehension, a stable sort (by a number, or by a tuple of numbers, `SortedBy` with
`TupleLess`) and the loop over a set of keys seen. They are written with `Picked`
and `InOrder`, the positions that stay and their order, rather than with the community
modules' `SelectSeq` and `SortSeq`, so that they can be reasoned about.

**Router.** `health` is `Router._h`. `Plan` returns the set of tiers (the code's sorted
list; the empty set is the open circuit), `Succeeded` and `Failed` are the two branches of
`record`. Time is kept as ages that saturate at the bound the code compares them with, so
the model is finite without a clock; `MaxFailures` saturates a counter that is only
compared with `DEMOTE_AFTER`.

**Fetch.** `leg[l]` holds the locals of one coroutine. `CallFromCache` and `CallToSite`
run from the call to the first await; `Succeed` is validation, `record(True)`, the cache
write and the return; `Fail` is both except handlers, with `_maybe_recover` deciding
whether the leg goes to `Recovered`; `Backoff` is the sleep and the loop's next turn. What
a tier's request does inside is one choice among the outcomes it can have (`CanFail`,
`Accepted`). `Forget` is expiry and eviction as a caller sees them.

**Session.** `lockq` and `pageq` are the FIFO queues of `_lock` and `_page_lock`, holder
first; a coroutine's `pc` says at which await it is suspended. Browsers are launch
numbers, `up` the set of those that answer. `_teardown` is two actions because it awaits
in the middle: everything up to the first await, and the rest. `ReaperReaps` shows what
that does when the reaper itself calls `close`: `_teardown` cancels the idle task that is
running it, so the handles stay set. The spawn-attach-retry sequence of one launch is one
action with two outcomes. The sweep at the end of a teardown ends what is left of the browser; it
is taken to succeed. What a sweep that misses a process, or that raises and is suppressed
(session.py:476-482), leaves on the profile is met by the next CDP launch, which sweeps again
after a first attempt that failed (229); neither that nor how Chrome shares a profile is
modelled, so `OneBrowser` says nothing of a sweep that misses.

**Cache, LossyMap.** The dictionary is the sequence of its entries in recency order.
`Evict` is the loop of `put`. `LossyMap` is a map from keys to what a get would return.

**FlightSearch.** `waited` is the code's own count, in polls of 2.5 s. The page's
responses are opened and closed by the environment whenever the search awaits; a read of
an open response yields nothing and is not repeated, as in the code. A body is its length
in steps up to `ENOUGH_BYTES`; that a non-empty body may parse to no itinerary is a
choice.

**WatchServer.** The main thread's `pc` walks through `check`, `reload_if_source_changed`,
`stop_child` and `start_child`; the feeder is `writer["feeder"]`. `PickChild` is the part
of `write_client` under the lock and `Write` the part after it, with its three outcomes:
written, broken pipe (put back), stdin closed by `stop_child` (an uncaught `ValueError`
that ends the feeder). The pump from child to host copies lines and is left out.

**Serving.** The client's `rpc` is `Rpc`, then turns of `Take` until its reply, `Timeout` or
the end of the pipe. The server's `spc` walks from `ReadLine` through the tool and its
file writes to `WriteReply`, one action per step that the death of the process cannot
divide; `Dies` may come between any two and inside an append or the write of a reply.
`AppendEntry` writes its line, or raises before or after a part of it is in the file; the
error is swallowed and the call answered all the same (calllog.py:91).
Request ids run on from one server to the next so that an entry names its call. A log
file is the sequence of its lines, each with the calls written on it and whether it still
parses; `answered`, `unlogged` and `dropped` are history. The harness's own driver stops
at the first timeout; the class allows another `rpc` after it, and so does the model.

**Intercity, with Trains, TrainPage, Flights, Cabs, Compare.** One leg, priced mode by
mode: `Flight`, `Train` and `Cab` each ask whether they apply between the two ends, search,
add rows and notes or pass; `Answer` marks and sorts. What a site sends is the environment's
choice from a given set, and it is read by the parser of its kind: a flight stream as its
frames, journeys and cards (`ParseStream`, with the flag for another airport), a train page
as the lines of its RSC stream, whose availability is behind references (`ParseTrains`;
`Resolve` looks up the end of a `Trail`, a recursive function of how deep it has gone, and
only an availability list and the classes in it are read through one), a cab listing as its summary and cards (`ParseCabs`). A name is a sequence of
pieces, so that "goalpara" can begin with "goa"; a day is a number and a weekday that number
modulo 7; durations and fares are numbers, with `None` where the source gives none. `read`
is history.

**HotelTools, Hotels.** The four hotel tools over one cache that lives across calls.
`leg[i]` is one search: it waits for a slot of `gather_limited` (`TakeSlot`), checks city and
days and looks into the cache (`Begin`), and ends with the site's answer or an error
(`SiteAnswers`, `SiteFails`); `Answer` makes the tool's result out of the results in their
order. A request is the record `BuildBody` makes, and the key the tuple `CacheKey` makes of
it, so that a key that forgets an argument is seen. Rates are half rupees, because what is
rounded is a rate times a number of nights (`RoundHalf`, half to even, as Python rounds).
`told` is history.

**Places, Cabs, Harvest.** The cab tools in servers that share one state directory.
`harvest_place` is two steps, the wait for the site and what it found: `Harvested` picks
the suggestion to click, the place among those captured and the grade of the match. A
save is `Load`, `OpenTmp`, `WriteTmp`, `Replace`, and a server may die between any two.
Files are inodes: `data.tmp` is shared, so a save may write into the file another server has
open, leave the end of a longer text there (`Torn`), or find its own moved away. A quote
reads the store, checks the trip and waits for the listing. `registered` and `overlapped`
are history.

`MCFetch`, `MCSession`, `MCCache`, `MCFlightSearch`, `MCWatchServer`, `MCServing`,
`MCIntercity`, `MCHotelTools` and `MCPlaces` give the constants values for TLC. Definitions
preceded by a comment that begins with "Mutant:" are faulty variants of the definition below
them; each property is tested by swapping one in.

## 3. The runs

| Run | Instance | What it shows |
| --- | --- | --- |
| `fetch` | one page class, two legs, a key with a validator and `station_to_city`'s, which has none; bodies that are stubs, ordinary or above the cap; circuit of 3 ticks; legs symmetric | `HealthConsistent`, `NoPlanWhileOpen`, `GivesUpOnlyAtCeiling`, `CacheHoldsOnlyUsable`, and that the layer implements `RouterSpec` |
| `fetch_live` | one POST class, two legs, one validated key, circuit of 2 ticks | `EveryCallReturns`, `BlipHeals` under fairness |
| `session` | a request leg, a recovery, `mmt_setup_status`; both launch paths, 3 launches, 1 crash, idle timeout of 2 reaper periods | `WarmMeansContext`, `OneBrowser`, `ReaperWatchesContext`, `ReaperSparesWork` |
| `session_cdp` | two page legs and a recovery on the CDP path, 2 launches, 1 crash | `HandsOutLive`, and `EveryOpReturns` under fairness |
| `cache` | 3 keys, 4 values of size 0, 1, 2, 4, budgets of 2 entries and 3 units, two lifetimes | `WithinBudget`, `PutIsKept`, `IsLossyMap` |
| `flight` | the code's own timing (36 polls, grace 12, second visit 4, stall 3), two responses | `NoStreamIsNoEmptyRoute`, `SilenceIsShort`, `SearchReturns` |
| `watch_server` | 2 frames, 3 crashes, 1 edit, `RAPID_FAILURES` 3 | `FramesConserved`, `RunsLatestSource`, `EofExits` |
| `serving` | 3 requests over any number of servers, 1 place, a log that rotates after every entry | `OwnReply`, `AnsweredIsOnFile`, `CutCostsOneAnswer`, `OneIdentity` |
| `intercity` | 3 routes, every set of modes, 8 days on both sides of both ends of the 60-day window, parties of 0 and 2, 4 flight streams, 5 train pages, 4 cab listings, 2 rows per mode | `DominatedIsFact`, `CheapestComesFirst`, `OtherDayIsMarked`, `NoModeForgotten`, `OfferedReachesTraveller`, `FlownAsAsked` |
| `hotels` | 2 calls; itineraries of up to 3 stays over 2 slots; 5 listings, 4 rate pages | `EveryStayInItsPlace`, `LinesWereQuoted`, `TotalsFollowTheLines`, `NeverAllNull` |
| `places` | 2 servers, 3 calls, 2 queries, 3 lists of suggestions, 4 trips, 4 listings, deaths anywhere | `FullestNameWins`, `RegisteredIsPriced`, `QuoteIsWhatItSays` |
| `session_reap` | one page leg on the Playwright path | the disagreement of section 5 |

*Why the bounds are enough.* Two legs are what it takes for a plan to be used after
another leg changed the class's health, and for the third failure to meet a class that two
others demoted (`DEMOTE_AFTER` is 2; legs call again and again). One class is enough for
each: classes share nothing but the browser. `fetch` has a class of pages, which alone are
held to the cap. The circuit's age is compared with one
number, so three ticks give just opened, still open and expired. Two launches allow a
relaunch after a teardown and three allow the fallback to follow it; one crash may fall
between any two steps. The cache instance has an entry above the whole byte budget, one
without counted size and an eviction by each of the two budgets. Three crashes are
`RAPID_FAILURES`; two frames are what order and conservation need; an edit may fall
anywhere. Three requests are what it takes for a late reply to pass a newer one and for
two rotations to follow each other; a log of one entry rotates as often as it can. For
`hotels`, two calls are a call and one that finds its answers in the cache, three stays over
two slots are a wait and every order of ends, and two of the stays share city, days and
party; the rates have halves that round both ways, a hotel in two sections, a missing tax
and no price at all. For `places`, three calls are two saves and a quote, or three saves by
two servers; the queries have a region first, the suggestions begin like it, contain it,
lie in it, or bear the whole query, its last word or the region for a name, the shorter
names before the longer; the trips are one way, a round trip, one within a day and one with a return that
is no date. For `intercity`, the
listings hold ties, missing fares and durations, a fast train without A/C, a dear Vande
Bharat and more rows than a mode may show; references are in a chain, in a circle and to a line that is no JSON; a train is there
twice; flights leave from and land at airports nearby; the days include the day of grace, both ends of
the window and days beyond it that step back by 0, 1, 4 and 6 days. Each bound is a constant in a guard, never a state constraint, so liveness is
checked on the whole graph. Symmetry is used in
`fetch` (the legs) and `places` (the servers), which have no liveness.

*Deadlock.* It is checked everywhere but in the watch server's run, where the supervisor
exits and nothing happens after, in `serving`, where the client may be done with its
requests, and in `intercity`, which ends with the answer. `hotels` and `places`
rest, by an action of their own, when their bounded number of calls is used up.

*Fairness.* `Fetch`: each leg that is in a call goes on, because requests and navigations
have timeouts and the event loop runs what is ready; the clock advances. Nobody has to
call. `Session`: the same for each coroutine's next step, the reaper and the clock; no
browser has to crash. `FlightSearch`: the search's own waits are timers and its
navigations have timeouts; a read of a response is taken to end (the docstring of
`harvest_flight_search` says a read of an open one yields an empty string); the site owes
it nothing. `WatchServer`: both threads run and a line on stdin is read; nobody has to
crash, edit or hang up. Fairness is weak everywhere: no action that matters is enabled
only now and then.

*Reading the properties.* `FramesConserved` counts a frame in the hands of a feeder that
has died as still in its hands: it says frames are neither lost between the threads nor
repeated, not that each arrives. `RegisteredIsPriced` says nothing once two saves have
overlapped, and nothing of aliases: there the code does not keep it (section 5).
`NoStreamIsNoEmptyRoute` allows a stream that was there to be reported as a block, and
`FramesConserved` lets frames overtake each other (section 5 again).
`SilenceIsShort` bounds the code's own count `waited`, which is not the wall clock. `TotalsFollowTheLines` speaks of lines that are whole. `ReaperSparesWork` holds where there is a
slot for every request leg (section 4). `BlipHeals` assumes that from some
time on attempts succeed and fresh calls keep coming; a class nobody calls stays as it is.
`HandsOutLive` is about `ensure`'s fast path on the CDP path; on the Playwright path it is
false (section 5).

## 4. What is proved

Eight modules hold the proofs, each beside the module it extends. `Router` and `Fetch`: for
any set of legs, keys and classes, any tier table and any timing
that satisfy their named assumptions (`RouterAssumption`: tiers are 0..2, a class's
preferred tier is not above its ceiling, thresholds are positive, `MaxFailures` is at least
`DemoteAfter`; `FetchAssumption`: every key has a class). TLC evaluates both on every run.

- `FetchProofs`, first of the router. The inductive invariant `RouterInv` is `RouterTypeOK` and
  `HealthConsistent` together: from a record whose fields disagree (a broken class without
  a circuit) `record` can produce another that disagrees, so neither is inductive alone.
  `HealthIsConsistent` follows.
- `FetchProofs`, of the fetch layer. `FetchInv` adds to `RouterInv` the types of the fetch layer and, for each
  leg, `Ladder`: a fetching leg has a tier left, and the ceiling tier of a call is still in
  its plan or already tried. `GivesUpOnlyAtCeiling` speaks of finished calls only and is
  not inductive; `Ladder` is what carries it from the plan to the end of the loop
  (`NoCallGivesUpEarly`). `CacheIsUsable` and `OpenCircuitAdmitsNobody` are inductive
  relative to `FetchInv`. For the second, a leg that plans while a circuit opens is
  impossible because the plan of an open class is empty, and ages of legs and circuit
  grow together until they saturate at the same bound. `FetchImplementsRouter` maps every
  step to a recorded outcome, a tick or a stutter.
- `FlightSearchProofs`, for any timing that satisfies `FlightAssumption` (the grace and the
  second visit of the funnel together are below the deadline, as 30 s, 10 s and 90 s are)
  and any set of responses. `FlightInv` adds to the types `Timely` (which clock is behind
  which at each await) and `Silent`: a harvest that has read nothing is below the grace
  before its second visit and at or above it afterwards, so its next verdict can only be a
  block. `SilenceIsABlock` needs both, because the loop also ends on its deadline, which a
  silent harvest must be shown never to reach. `SilenceEndsSoon` is the bound in `Silent`.

- `CacheProofs`, for any keys, values, sizes, lifetimes and budgets, over `CacheAssumption` (a
  value has a size, lifetimes are numbers, there is room for an entry, None is no value).
  `CacheInv` is `WithinBudget` and that no key is in two entries: without the second, an
  entry that is dropped would leave another one behind it that no longer counts.
  `BudgetsHold` is then an account of what each operation adds and takes; `PutKeeps` that the
  eviction stops before the entry just put, which is the youngest, so that an entry above the
  whole budget is the last one left; `CacheIsLossyMap` maps a hit that moves its entry to the
  young end, an expiry and an eviction each to a step of `LossyMap`. The size of a sequence is a recursive
  function of a prefix, and a sequence weighs as much as its two parts (`UptoShift`); that and the
  loop of `Evict` go by induction on numbers, which is got from the well-foundedness of `<`
  as one set closed under the step (`Climb`).
- `WatchServerProofs`, for any number of frames, crashes and edits, over `WatchAssumption`.
  `FramesConserved` counts frames place by place and is not inductive: it does not say that
  the places are disjoint, so a frame that is in two of them could hide one that is in none.
  `WatchInv` says that they are (`Conserved`), that a thread that writes has a frame and a child
  (`Hands`), that frames are flushed only while the main thread is at it (`Flushes`), and how
  often a child can have been started (`Starts`): once, and once for each crash and edit, so
  that a child that is written to is one of those the model has an inbox for.
- `JourneyProofs`, first of `Places`: for any set of servers, places, names and calls, over `PlacesAssumption`
  (None is no file). `RegisteredIsPriced` relates the last registration of a name to what a
  later quote resolves it to, with the file in between; it is not inductive, because a
  server in the middle of a save carries a text that will become the file. `PlacesInv` says
  that as long as no save has begun within another, at most one server saves (`Alone`), its
  text is the store with its place added (`InStep`), `data.tmp` is not the file under
  `data.json` (`Apart`), and what is registered is what is saved (`Agree`). Deaths are the
  interesting steps: what a dead server leaves is a `data.tmp` that the next save empties.
  `FullestNameWins` and `QuoteIsWhatItSays` speak of an answer that was made from what a server
  had in hand two awaits earlier; `SaidInv` carries it there (`Waiting`): the answer that is
  given after a save, the query that is looked up, the trip that passed `validate_trip`. The
  rest is about the pure operators, over `AskedAssumption` (queries, suggestions and listings
  are sequences, a fare is an integer or missing): the variants of a query are the runs of its
  words but for a lone region (`VariantsAre`), and they come the longest first: the windows are
  laid out by their length, and flattening them, leaving some out and dropping repeats
  all keep an order (`FlattenFalls`, `PickedFalls`, `VariantsFall`). So the first variant that
  names a suggestion is as long as any other that does, and what was named is passed over
  only for what was named as fully (`CapturedIs`, `HarvestIs`). A listing is sorted by fare with
  the missing ones last (`ListingIs`).
- `JourneyProofs`, of `Intercity`: for any streams, pages, listings, days and routes, over
  `IntercityAssumption` (the booking window reaches six days ahead or more, as the code's 60
  do, so that it holds every weekday; parties and limits are numbers) and `AnswersAssumption`
  (JSON arrays are sequences, a figure that is given is a number, no train takes a negative
  time, `Node` holds the nodes of every page with their parts). The inductive invariant is
  `LegInv`: five of the six properties, that a row has its figures (`RowOk` in `LegTypes`), that
  nothing is read before its turn (`Begun`), and that a mode that was asked for and had its
  turn has a row, a note or a page that sells no A/C seat (`Answered`, `Past`).
  `NoModeForgotten` speaks only of the finished answer and needs `Answered` for the way
  there; `SellsAc` and `FlownAsAsked` speak of what was read, so `Begun` has to say that a leg
  has read nothing but its own; and `CheapestComesFirst` compares figures, which without
  `RowOk` could be anything. Each property then leans on one part of the code:
  - `DominatedIsFact` and `CheapestComesFirst`, on `Answer`. Of the rows that beat a row there is
    one with the smallest sum of price and minutes, and it is not beaten itself
    (`MarksAreFacts`), so a mark is never justified by marked rows only. The sort key is a tuple,
    tuples are ordered (`TuplesAreOrdered`), and what a sort puts at a place comes from one place
    of the list (`SourceIs`, `SortedSet`); so no row is lost or made up on the way (`AnswerIs`).
  - `OfferedReachesTraveller`, on the train parser: references are followed up to the first
    node that refers to no line, unless that is too deep (`TrailIs`, `ResolveIs`), a class that
    the page offers is among the classes of its train (`OfferedIsRead`), and the filter and
    the cut to the limit leave a train with A/C (`FilteredIs`, `FirstIs`).
  - `FlownAsAsked`, on the stream parser: an itinerary is a card of the stream, and one that is
    not excluded begins and ends at the airports of the route as far as the card says where
    (`ItineraryIs`, `StreamIs`).
  - `OtherDayIsMarked`, on the step back from the window's end: the day that is quoted instead
    is another one of the same weekday, and in the window (`FurthestIs`).
- `HotelToolsProofs`, for any stays, answers, cities and limit, the first part without an
  assumption.
  `HotelInv` says that every cache entry was told for a request with its key (`Kept`), that a
  search has sent its own request, and that what it ended with was told for that request.
  The step that needs it is a search answered from the cache: the entry may stem from
  another stay, another tool or an earlier call, and `SameKey`, that two bodies with one key
  are one body, makes it an answer to this request. `SearchesAreQuoted` is the result, and
  `NoListingIsAllNull` follows because a body is kept only when the validator passed it.
  The answers are made of these searches. `AnswerInv` adds that a call has a search for each of
  its stays, and that a stay that was asked for has a number of nights (a line without one has
  no figures to add up). `StaysKeepTheirPlaces` and `LinesAreQuoted` follow, the latter through
  `SearchesAreQuoted`. `TotalsAreOfTheLines` is arithmetic under a fold: the roundings of a line's base,
  tax and all-in differ by at most one from each other's sum, for any rates and nights, and
  the sums of `n` such lines by at most `n`, by induction on the prefix that is summed.
  `HotelToolsAssumption` says of the data that None is no number, days and rates are integers or
  missing, and that stays and listings are sequences.
- `SessionProofs`, for any coroutines, roles, launches and crashes, over `SessionAssumption`
  (the reaper is no coroutine, roles and launch paths are the code's, None is no number).
  `SessionInv` is the lock's: its queue holds whoever waits for it or has it, each once
  (`Order`); a coroutine inside a critical section is its head (`Exclusion`); one that is in
  the middle of a teardown has already dropped the warm flag and the reaper (`Torn`), so
  that what the other half clears cannot be what somebody else has set; and the handles
  agree (`Handles`). `WarmMeansContext`, `OneBrowser` and `ReaperWatchesContext` follow.
  `ReaperSparesTheWork` needs an account of time on top (`SpareInv`). When the reaper's timer finds
  the clock past the idle timeout, no leg was in an await of its own at the last tick:
  nobody has the lock or waits for it or for a slot, and whoever waits for the page waits
  behind one that is on it, which the reaper sees (`Spared`). From then until it has
  the lock, a leg that comes after it is behind it in the queue; what can be ahead of
  it is a close, which takes the reaper along, or the warmup of `mmt_setup_status`, which is alone and
  hands its context to nobody (`Harmless`, `Solo`). That nobody waits long for a slot is `SlotsAssumption`:
  no more request legs than slots, as `gather_limited` and the semaphore have four each.
  It is needed: with two request legs and one slot TLC finds the reaper closing the browser
  under the second, because a request that fails does not touch the clock
  (session.py:429 is not reached) and the second may wait behind several of them.
  `CdpHandsOutLive` adds that without the Playwright path browser and context are one
  (`Paired`), so that `_alive` sees a dead browser; with it the property is false (section 5).
- `ServingProofs`, for any number of requests and servers, any places and any size of the log,
  over `ServingAssumption` (the log holds an entry or more; no place is called "list" or
  "price", which are the other kinds of request). `ServingInv` is mostly an order of request
  ids (`InOrder`): everything on file before the request that is served, that one before those
  in the pipe. From it the log's files are in order as well (`Files`), which makes a full log a
  count of newer entries when a rotation drops the older ones (`OnFile`; `RisingCount` is the
  lemma), and a line that was cut, by a death or by an error, holds no answered call's whole
  entry as long as it has no end (`OneEach`; `UnloggedStep` for the calls whose append raised). `IdentityIsOne` needs none of this, only that a price finds no id on file before
  it writes one (`SameId`).

TLC checked `HotelInv`, `AnswerInv`, `PlacesInv`, `SaidInv`, `SessionInv`, `SpareInv`, `ServingInv`,
`WatchInv`, `CacheInv` and `LegInv` on instances of the runs' size before they were proved.

Only model-checked: the liveness properties (`EveryCallReturns`, `BlipHeals`, `EveryOpReturns`,
`SearchReturns`, `RunsLatestSource`, `EofExits`), since fairness and ENABLED are out of the
prover's reach. `HandsOutLive` is proved for machines without the Playwright path only,
because on that path it is false (section 5), and `ReaperSparesWork` where there is a slot for
every request leg.

## 5. Where the documents and the code disagree

With a run that shows it:

- `session_reap`: docs/DESIGN.md:96, after an idle reap the next call relaunches
  transparently. `_teardown` cancels the task that runs it (session.py:461), so the
  context stays set; on the Playwright path `_alive` cannot tell, and the next call is
  handed a closed context.

Met while modelling, without a run of its own:

- docs/DESIGN.md:59-60, "`DEGRADED` skips the cheap tier", so that the failure
  which opens the circuit is one of a tier above it. `record` does not look at the tier, and
  a leg keeps the plan it made while the class was healthy (fetch.py:442, router.py:95).
- docs/DESIGN.md:60, "`BROKEN` opens the circuit for 120 s and fails fast
  rather than burning 12 s per call". `record` has no branch for a failure of a broken class
  (router.py:91-97): `opened_at` keeps its old value, so after the first 120 s every call burns
  the slow tier until one succeeds.
- tools/watch_server.py:130-134, "an old buffered frame can never be overtaken
  by a newer direct write to the just-published child". The buffered frames are written
  after the lock is released and the child is published (139).
- harvest.py:346-348, "This is a block, not an empty route - MakeMyTrip
  served the page without its data stream". A response is marked as read before its body is
  awaited (314), so a stream whose first read failed is never looked at again.
- harvest.py:297-298, "Keep whatever the stream already delivered; the caller
  decides if it is enough"; the Blocked raised there drops it (301).
- tools.py:731-733 and 854-855, a warning is raised "when the resolved place is
  not a city and you did not ask for a venue". `match_quality` trusts a strong tier whatever
  the place is (cabs.py:135); the comment there gives the reason.
- tools.py:699-700, both endpoints are "saved permanently". Of two servers on
  one state directory that save at once, the later loses the earlier one's place; since
  they share `data.tmp` as well, a save may also fail because its file was moved away, or move
  a torn one into place, which reads as an empty store: all places are gone
  (config.py:144-153).
- tools.py:718, `save_as` is the "Name to register it under". A place
  registered under an alias is never priced by `mmt_cab_quote`, because aliases come before
  saved places (cabs.py:235); `resolve_place_loose` (91-95) does find it, and the comparison
  then asks for a quote under that name and gets the alias' place.
- docs/DESIGN.md:55-57 draws one success as the way from BROKEN to HEALTHY; it takes two
  (router.py:89).
- fetch.py:303 and 395 tell the reader of a circuit error to "call mmt_selftest to
  re-probe"; the selftest's calls meet the same open circuit (tools.py:935-947).
- docs/DESIGN.md:140-142, "Every page fetch passes one [a validator]"; `station_to_city`
  passes none (trains.py:324). `Unvalidated` models it.
- session.py:454-459, the next cold launch retries CDP; the latch is set after the teardown
  that was to clear it (190), so a fallback whose launch fails stays latched.
- tools.py:879, ready means a working browser; `warmup`'s early return looks at the warm
  flag only (session.py:355).
- session.py:182-187 and 454-455, CDP is latched off after a warmup without `_abck`. A
  warmup that another coroutine has already done, or that failed, counts as one without,
  so a browser with its clearance is dropped (186).
- docs/DESIGN.md:97-98, one lock serialises page operations; warmup navigates under the
  other lock (session.py:371).
- tools/watch_server.py:37-38, giving up takes RAPID_FAILURES deaths "each within
  RAPID_WINDOW of its start"; a death after a long life counts as the first (206).
- tools/watch_server.py:172-175, a frame that finds no child is "flushed once the next
  child starts"; one put back after a broken write may find the next child already
  started, and waits for the one after it (187).
- tools/watch_server.py:5-10, the wrapper keeps the boundary alive across reloads. A feeder
  that writes to a stdin `stop_child` has closed raises `ValueError` (line 185), and its
  `finally` reports an end of input: an edit ends the supervisor.
- tools/audit_calls.py:10-11, "A number that appears in no call was not sourced from this
  server"; an answer whose entry could not be written, or continues a line that was cut by a
  death or a failed append (calllog.py:90-92), is in no entry that parses. `CutCostsOneAnswer` states what the code gives.
- tools.py:202-203, the totals "cannot drift from the lines above them"; a line without a tax
  counts in the total's base only, so the total is below the sum of the lines' all-in.
- tools.py:203, "One failing leg does not abort the run"; a stay in the past refuses the whole
  itinerary (207-208).
- tools.py:221, the first hotel of an answer is taken for the one asked for; its id is not
  looked at.
- flights.py:157-158, the cut to `max_results` comes before the comparison excludes alternate
  airports (tools.py:516), so 25 cheap flights to a nearby airport hide the ones of the route.
- flights.py:197, an itinerary of two journeys is given the duration of the first.
- tools.py:481-482, modes that fail land in `unavailable` with the reason; a train search
  whose trains are all filtered out leaves neither a row nor a note, because the summary
  `filter_trains` makes for it is not read (584-586).
- tools.py:471-472, `dominated` is "both dearer and slower"; a row of equal price that is slower,
  or of equal duration that is dearer, is marked as well (compare.py:92-97).

## 6. What is not modelled, and the plan

Not modelled: the scanners of text (`rsc.blob`, `balanced`, `state.extract`, the framing of a
flight stream, written durations), which are conversions without a state; what only
describes a row (names, photos, policies, labels); `mmt_selftest`, which calls the other
tools in turn; the developer tools, the version string, and the one-off report scripts
under `harness/runs`, which are a third of the repository's Python and no part of the
program. The steps of one browser launch, the driving of the place form, the child-to-host
pump and the failure log are abstracted as said above.

What could follow, in this order:

1. Two servers on one log: its rotation interleaved (calllog.py:104), as `Places` does for
   `data.json`.
2. `Launch`: the steps of `_launch_cdp` and its fallback, refining the one-step launch of
   `Session` (session.py:235), and the sweep that may miss a process (476).
