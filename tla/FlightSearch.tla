----------------------------- MODULE FlightSearch -----------------------------
(***************************************************************************)
(* mmt/harvest.py, harvest_flight_search, and mmt/flights.py, search: one  *)
(* flight search, which drives a page and reads the search stream the page *)
(* receives, with one retry on a fresh browser.                            *)
(*                                                                         *)
(* Time is the code's own count `waited', in polls of 2.5 s.  A body is    *)
(* its length, in steps up to Enough.  The page and the site are the       *)
(* environment: responses open and close whenever the search awaits.       *)
(***************************************************************************)
EXTENDS Naturals, FiniteSets

CONSTANTS Resp,        \* the responses of the page to a search-stream request
          Deadline,    \* timeout_ms
          Grace,       \* STREAM_GRACE_S
          StallPolls,  \* STALL_POLLS
          Enough,      \* ENOUGH_BYTES
          Refunnel,    \* what a second visit of the funnel adds to waited
          None

\* 30 s, 10 s and 90 s in the code.
ASSUME FlightAssumption ==
    /\ Deadline \in Nat /\ Grace \in Nat \ {0} /\ Refunnel \in Nat
    /\ Grace + Refunnel < Deadline
    /\ StallPolls \in Nat \ {0} /\ Enough \in Nat \ {0}
    /\ None \notin Nat

VARIABLES pc,           \* where search is suspended
          attempt,      \* which call of harvest_flight_search
          waited, stalled, refunnelled, done,
          best,         \* the length of best
          todo, grew,   \* the loop over the responses of one poll
          responses,    \* the responses the page has reported
          body,         \* of each response: None while the stream is open
          cached,       \* CACHE holds an answer to this search
          result        \* what the last search returned or raised

harvest == <<waited, stalled, refunnelled, done, best, todo, grew>>
page == <<responses, body>>
vars == <<pc, attempt, harvest, page, cached, result>>

Length == 0..Enough

Init ==
    /\ pc = "idle" /\ attempt = 1
    /\ waited = 0 /\ stalled = 0 /\ refunnelled = FALSE /\ done = {}
    /\ best = 0 /\ todo = {} /\ grew = FALSE
    /\ responses = {} /\ body = [r \in Resp |-> None]
    /\ cached = FALSE /\ result = "none"

Ends(what) == pc' = "idle" /\ result' = what

\* Blocked, raised by the harvest: search retries the first time, on a fresh browser.
Refused == IF attempt = 1 THEN pc' = "recover" /\ UNCHANGED result ELSE Ends("blocked")

\* harvest_flight_search returns best: its itineraries, or none.  An answer is cached.
Returns ==
    \E what \in {"answer", "empty"} :
        /\ what = "answer" => best' > 0
        /\ Ends(what)
        /\ cached' = (cached \/ what = "answer")

-----------------------------------------------------------------------------
(* search *)

Search(fresh) ==
    /\ pc = "idle"
    /\ IF cached /\ ~fresh THEN Ends("cached")
       ELSE pc' = "funnel" /\ result' = "none"
    /\ attempt' = 1
    /\ UNCHANGED <<harvest, page, cached>>

\* SESSION.recover, between the two harvests.
Recover ==
    /\ pc = "recover"
    /\ \/ pc' = "funnel" /\ attempt' = attempt + 1 /\ UNCHANGED result
       \/ Ends("failed") /\ UNCHANGED attempt
    /\ UNCHANGED <<harvest, page, cached>>

-----------------------------------------------------------------------------
(* harvest_flight_search *)

\* A new page, the funnel and the results page.
Funnel ==
    /\ pc = "funnel"
    /\ \/ /\ pc' = "wait"
          /\ waited' = 0 /\ stalled' = 0 /\ refunnelled' = FALSE /\ done' = {}
          /\ best' = 0 /\ todo' = {} /\ grew' = FALSE
          /\ responses' = {} /\ body' = [r \in Resp |-> None]
          /\ UNCHANGED result
       \/ Ends("failed") /\ UNCHANGED <<harvest, page>>
    /\ UNCHANGED <<attempt, cached>>

\* The wait of a poll.  If the browser goes away the search is refused; any other
\* error leaves it.
Poll ==
    /\ pc = "wait"
    /\ \/ /\ pc' = IF responses \subseteq done THEN "judge" ELSE "read"
          /\ waited' = waited + 1 /\ todo' = responses \ done /\ grew' = FALSE
          /\ UNCHANGED <<stalled, refunnelled, done, best, result>>
       \/ (Refused \/ Ends("failed")) /\ UNCHANGED harvest
    /\ UNCHANGED <<attempt, page, cached>>

\* resp.text(): the body, or nothing if the stream is open or the read raises.
Read(r) ==
    /\ pc = "read" /\ r \in todo
    /\ done' = done \cup {r} /\ todo' = todo \ {r}
    /\ pc' = IF todo = {r} THEN "judge" ELSE "read"
    /\ \/ UNCHANGED <<best, grew>>
       \/ body[r] # None /\ body[r] > best /\ best' = body[r] /\ grew' = TRUE
    /\ UNCHANGED <<attempt, waited, stalled, refunnelled, page, cached, result>>

\* Mutant: silence is not a verdict, the search waits for its deadline.
VerdictWaits(n) ==
    IF best >= Enough \/ (best > 0 /\ n >= StallPolls) THEN "done" ELSE "continue"

\* Mutant: silence is a finished stream.
VerdictStallIsDone(n) ==
    CASE best >= Enough \/ n >= StallPolls -> "done"
      [] best = 0 /\ waited >= Grace       -> "blocked"
      [] OTHER                             -> "continue"

\* stream_verdict, for n stalled polls.
Verdict(n) ==
    CASE best >= Enough                 -> "done"
      [] best > 0 /\ n >= StallPolls    -> "done"
      [] best = 0 /\ waited >= Grace    -> "blocked"
      [] OTHER                          -> "continue"

\* The rest of the loop's body, up to its next await; then the loop's condition.
Judge ==
    LET n == IF grew THEN 0 ELSE stalled + 1
        refunnels == Verdict(n) = "blocked" /\ ~refunnelled
    IN  /\ pc = "judge"
        /\ stalled' = IF refunnels THEN 0 ELSE n
        /\ refunnelled' = (refunnelled \/ refunnels)
        /\ UNCHANGED <<attempt, waited, done, best, todo, grew, page>>
        /\ \/ /\ refunnels
              /\ pc' = "refunnel" /\ UNCHANGED <<cached, result>>
           \/ /\ Verdict(n) = "blocked" /\ refunnelled
              /\ Refused /\ UNCHANGED cached
           \/ /\ Verdict(n) = "continue" /\ waited < Deadline
              /\ pc' = "wait" /\ UNCHANGED <<cached, result>>
           \/ /\ Verdict(n) = "done" \/ (Verdict(n) = "continue" /\ waited >= Deadline)
              /\ Returns

\* Mutant: the second visit of the funnel starts the harvest over.
RefunnelledAfresh ==
    /\ pc = "refunnel"
    /\ pc' = "funnel"
    /\ UNCHANGED <<attempt, harvest, page, cached, result>>

\* The second visit of the funnel, then the loop's condition.
Refunnelled ==
    /\ pc = "refunnel"
    /\ \/ /\ waited' = waited + Refunnel
          /\ UNCHANGED <<stalled, refunnelled, done, best, todo, grew>>
          /\ IF waited' < Deadline THEN pc' = "wait" /\ UNCHANGED <<cached, result>>
             ELSE Returns
       \/ Ends("failed") /\ UNCHANGED <<harvest, cached>>
    /\ UNCHANGED <<attempt, page>>

-----------------------------------------------------------------------------
(* The page, while the search awaits, and the cache *)

Awaiting == pc \in {"wait", "read", "refunnel"}

Opens(r) ==
    /\ Awaiting /\ r \notin responses
    /\ responses' = responses \cup {r}
    /\ UNCHANGED <<pc, attempt, harvest, body, cached, result>>

Closes(r) ==
    /\ Awaiting /\ r \in responses /\ body[r] = None
    /\ \E n \in Length : body' = [body EXCEPT ![r] = n]
    /\ UNCHANGED <<pc, attempt, harvest, responses, cached, result>>

Forget ==
    /\ cached
    /\ cached' = FALSE
    /\ UNCHANGED <<pc, attempt, harvest, page, result>>

Work == Recover \/ Funnel \/ Poll \/ (\E r \in Resp : Read(r)) \/ Judge \/ Refunnelled

Next == \/ \E fresh \in BOOLEAN : Search(fresh)
        \/ Work
        \/ \E r \in Resp : Opens(r) \/ Closes(r)
        \/ Forget

Spec == Init /\ [][Next]_vars

\* Every await of the search ends (waits are timers, navigations have timeouts); the
\* site owes it nothing, and nobody has to search.
FairSpec == Spec /\ WF_vars(Work)

-----------------------------------------------------------------------------
(* Properties *)

Count == 0..(Deadline + Refunnel)

TypeOK ==
    /\ pc \in {"idle", "funnel", "wait", "read", "judge", "refunnel", "recover"}
    /\ attempt \in {1, 2}
    /\ waited \in Count /\ stalled \in Count /\ refunnelled \in BOOLEAN
    /\ done \in SUBSET Resp /\ todo \in SUBSET Resp
    /\ best \in Length /\ grew \in BOOLEAN
    /\ responses \in SUBSET Resp /\ body \in [Resp -> {None} \cup Length]
    /\ cached \in BOOLEAN
    /\ result \in {"none", "answer", "empty", "cached", "blocked", "failed"}

\* "No itineraries" is never said of a page that opened no stream: that is a block,
\* and the loop's deadline, its grace and the time a second visit of the funnel is
\* charged with never let it end on nothing (harvest.py:229-235, 288-344; BUG-20).
NoStreamIsNoEmptyRoute == result = "empty" => best > 0

\* A search that hears nothing says so quickly, in both of its harvests: it never
\* goes on past the grace, one visit of the funnel and one more poll, whatever
\* empty responses the page reads meanwhile (harvest.py:229-237).
SilenceIsShort == best = 0 => waited <= Grace + Refunnel + 1

\* Every search comes back, however the page behaves and whenever the browser goes.
SearchReturns == pc # "idle" ~> pc = "idle"

=============================================================================
