-------------------------------- MODULE Fetch --------------------------------
(***************************************************************************)
(* mmt/fetch.py: get_text and post_json over the router and the cache.     *)
(*                                                                         *)
(* A leg is one coroutine inside get_text or post_json: the server handles *)
(* one tool call at a time, and gather_limited (mmt_price_itinerary) runs  *)
(* up to four of them at once.  Everything between two awaits is one       *)
(* action.  The site is the environment: each attempt ends in any outcome  *)
(* the tier can produce.  The cache is the lossy map that Cache.tla is     *)
(* shown to implement: an entry may go at any time (TTL, LRU).             *)
(***************************************************************************)
EXTENDS Router, FiniteSets

CONSTANTS Leg,           \* concurrent coroutines
          Key,           \* cache keys, one per meaning of a call
          ClassOf,       \* the endpoint class a key is fetched through
          PageClass,     \* the classes fetched by get_text (it has the size cap)
          Unvalidated,   \* the keys fetched with validate=None
          RecoverAfter   \* _RECOVER_AFTER_S, in ticks

\* What a 200 response can hold: an answer, an answer above PAGE_SIZE_CAP, and the
\* silent-200 body no parser can use.
Body == {"good", "huge", "stub"}

ASSUME FetchAssumption ==
    /\ ClassOf \in [Key -> EC]
    /\ PageClass \subseteq EC
    /\ Unvalidated \subseteq Key
    /\ RecoverAfter \in Nat
    /\ None \notin Body

VARIABLES leg,           \* the local state of each coroutine
          cache,         \* CACHE
          blocked_ago    \* _LAST_BLOCKED, as an age, per class

vars == <<health, leg, cache, blocked_ago>>

Escalating == {"blocked", "transport", "shape_drift"}
Final == {"null_prices", "browser"}
Failure == Escalating \cup Final

Outcome == {"none", "answer", "cached", "circuit_open"} \cup Failure

LegState == [pc    : {"idle", "fetching", "recovering", "backoff"},
             key   : Key,
             todo  : SUBSET Tier,     \* the tiers of the plan not yet tried
             tried : SUBSET Tier,
             age   : 0..OpenCircuit,  \* since the plan was made, saturating
             last  : Outcome]         \* the last error, then what the call returned

FetchInit ==
    /\ RouterInit
    /\ \E k \in Key :
         leg = [l \in Leg |-> [pc |-> "idle", key |-> k, todo |-> {}, tried |-> {},
                               age |-> 0, last |-> "none"]]
    /\ cache = [k \in Key |-> None]
    /\ blocked_ago = [ec \in EC |-> None]

Class(l) == ClassOf[leg[l].key]

\* The tier of the attempt under way, the head of the rest of the plan.
Lowest(S) == CHOOSE t \in S : \A u \in S : t <= u
Current(l) == Lowest(leg[l].todo)

\* The call of leg l returns or raises `what'.
Return(l, what) ==
    leg' = [leg EXCEPT ![l].pc = "idle", ![l].todo = {}, ![l].age = 0,
                       ![l].last = what]

-----------------------------------------------------------------------------
(* get_text and post_json, from the call to the first await *)

CallFromCache(l, k) ==
    /\ leg[l].pc = "idle"
    /\ cache[k] # None
    /\ leg' = [leg EXCEPT ![l].key = k, ![l].tried = {}, ![l].last = "cached"]
    /\ UNCHANGED <<health, cache, blocked_ago>>

CallToSite(l, k, fresh) ==
    /\ leg[l].pc = "idle"
    /\ fresh \/ cache[k] = None
    /\ leg' = [leg EXCEPT ![l] =
                 [pc    |-> IF Plan(ClassOf[k]) = {} THEN "idle" ELSE "fetching",
                  key   |-> k,
                  todo  |-> Plan(ClassOf[k]),
                  tried |-> {},
                  age   |-> 0,
                  last  |-> IF Plan(ClassOf[k]) = {} THEN "circuit_open" ELSE "none"]]
    /\ UNCHANGED <<health, cache, blocked_ago>>

Call(l) == \E k \in Key : \/ CallFromCache(l, k)
                          \/ \E fresh \in BOOLEAN : CallToSite(l, k, fresh)

-----------------------------------------------------------------------------
(* The outcome of an attempt *)

\* Mutant: what is good enough to answer with is good enough to hold.
CacheableAnySize(k, body) == TRUE

\* Only get_text refuses to hold a body over the cap.
Cacheable(k, body) == body = "huge" => ClassOf[k] \notin PageClass

\* Mutant: a 200 is an answer.
AcceptedAnything(k, body) == TRUE

Accepted(k, body) == body # "stub" \/ k \in Unvalidated

Succeed(l, body) ==
    LET k == leg[l].key
    IN  /\ leg[l].pc = "fetching"
        /\ Accepted(k, body)
        /\ Record(Class(l), TRUE)
        /\ cache' = IF Cacheable(k, body) THEN [cache EXCEPT ![k] = body] ELSE cache
        /\ Return(l, "answer")
        /\ UNCHANGED blocked_ago

\* What the tier under way can fail with: only a validator finds a stub or null
\* prices, only the browser tiers find no browser.
CanFail(l, kind) ==
    /\ kind \in {"shape_drift", "null_prices"} => leg[l].key \notin Unvalidated
    /\ kind = "null_prices" => Class(l) \notin PageClass
    /\ kind = "browser" => Current(l) > 0

\* _maybe_recover: the second blocked outcome of a class within _RECOVER_AFTER_S.
SecondBlock(ec) == blocked_ago[ec] # None /\ blocked_ago[ec] <= RecoverAfter

\* Mutant: the tier that failed stays in the plan.
FailRetriesTier(l, kind) ==
    /\ leg[l].pc = "fetching"
    /\ CanFail(l, kind)
    /\ Record(Class(l), FALSE)
    /\ leg' = [leg EXCEPT ![l].pc = IF kind \in Final THEN "idle" ELSE "backoff",
                         ![l].last = kind]
    /\ UNCHANGED <<cache, blocked_ago>>

\* An error of get_text's own handlers: MMTError and any other exception.
Fail(l, kind) ==
    LET ec == Class(l)
        failed == [leg[l] EXCEPT !.todo = @ \ {Current(l)},
                                 !.tried = @ \cup {Current(l)},
                                 !.last = kind]
    IN  /\ leg[l].pc = "fetching"
        /\ CanFail(l, kind)
        /\ Record(ec, FALSE)
        /\ leg' = [leg EXCEPT ![l] =
                     CASE kind \in Final ->
                             [failed EXCEPT !.pc = "idle", !.todo = {}, !.age = 0]
                       [] kind = "blocked" /\ SecondBlock(ec) ->
                             [failed EXCEPT !.pc = "recovering"]
                       [] OTHER -> [failed EXCEPT !.pc = "backoff"]]
        /\ blocked_ago' = IF kind = "blocked" THEN [blocked_ago EXCEPT ![ec] = 0]
                          ELSE blocked_ago
        /\ UNCHANGED cache

\* Mutant: a fresh browser is a reason to forget the failures counted so far.
RecoveredForgives(l) ==
    /\ leg[l].pc = "recovering"
    /\ \/ /\ leg' = [leg EXCEPT ![l].pc = "backoff"]
          /\ health' = [health EXCEPT ![Class(l)].consecutive_failures = 0]
       \/ Return(l, "browser") /\ UNCHANGED health
    /\ UNCHANGED <<cache, blocked_ago>>

\* SESSION.close() and SESSION.ensure() inside the handler.  An error of ensure
\* leaves the handler, so it leaves get_text as well.
Recovered(l) ==
    /\ leg[l].pc = "recovering"
    /\ \/ leg' = [leg EXCEPT ![l].pc = "backoff"]
       \/ Return(l, "browser")
    /\ UNCHANGED <<health, cache, blocked_ago>>

\* The sleep after a failure, then the next tier or the end of the loop.
Backoff(l) ==
    /\ leg[l].pc = "backoff"
    /\ IF leg[l].todo = {} THEN Return(l, leg[l].last)
       ELSE leg' = [leg EXCEPT ![l].pc = "fetching"]
    /\ UNCHANGED <<health, cache, blocked_ago>>

Answer(l) == \/ \E body \in Body : Succeed(l, body)
             \/ \E kind \in Failure : Fail(l, kind)

-----------------------------------------------------------------------------
(* The cache and the clock *)

Forget(k) ==
    /\ cache[k] # None
    /\ cache' = [cache EXCEPT ![k] = None]
    /\ UNCHANGED <<health, leg, blocked_ago>>

Tick ==
    /\ Age
    /\ leg' = [l \in Leg |->
                 [leg[l] EXCEPT !.age = IF leg[l].pc = "idle" THEN @
                                        ELSE Smaller(@ + 1, OpenCircuit)]]
    /\ blocked_ago' = [ec \in EC |->
                         IF blocked_ago[ec] = None THEN None
                         ELSE Smaller(blocked_ago[ec] + 1, RecoverAfter + 1)]
    /\ UNCHANGED cache

Next == \/ \E l \in Leg : Call(l) \/ Answer(l) \/ Recovered(l) \/ Backoff(l)
        \/ \E k \in Key : Forget(k)
        \/ Tick

Spec == FetchInit /\ [][Next]_vars

\* Every await of a leg ends: requests and navigations carry timeouts, the sleeps
\* are finite, and the event loop runs every ready coroutine.  Nothing makes a
\* user call, so Call has no fairness; the clock advances.
Fairness == /\ \A l \in Leg : WF_vars(Answer(l) \/ Recovered(l) \/ Backoff(l))
            /\ WF_vars(Tick)

FairSpec == Spec /\ Fairness

-----------------------------------------------------------------------------
(* Properties *)

TypeOK ==
    /\ RouterTypeOK
    /\ leg \in [Leg -> LegState]
    /\ cache \in [Key -> {None} \cup Body]
    /\ blocked_ago \in [EC -> {None} \cup 0..(RecoverAfter + 1)]

\* A silent 200 is never cached and an oversized page never resident: what a later
\* call is answered with from the cache is a body a parser accepted, unless the call
\* that put it there came without a validator (fetch.py:337-352; docs/DESIGN.md
\* "cached only after the caller's parser validates it").
CacheHoldsOnlyUsable ==
    \A k \in Key : /\ cache[k] = "stub" => k \in Unvalidated
                   /\ cache[k] = "huge" => ClassOf[k] \notin PageClass

\* However many legs are in flight, an open circuit admits none: every attempt
\* still running for a class whose circuit is open belongs to a call that made its
\* plan no later than the failure that opened it (fetch.py:300-303).
NoPlanWhileOpen ==
    \A l \in Leg :
        leg[l].pc # "idle" /\ Open(Class(l)) => leg[l].age >= health[Class(l)].opened_at

\* No call gives up early: one that ends with an error worth escalating (a block, a
\* transport error, an unusable body) has tried the ceiling tier of its class,
\* whatever the class's health was when it planned and did since
\* (router.py:65-80, fetch.py:307-371).
GivesUpOnlyAtCeiling ==
    \A l \in Leg : leg[l].pc = "idle" /\ leg[l].last \in Escalating
                      => Top(Class(l)) \in leg[l].tried

\* Every call comes back, with an answer or with one error.
EveryCallReturns == \A l \in Leg : leg[l].pc # "idle" ~> leg[l].pc = "idle"

\* A transient blip does not pin the server to the slow tier (docs/DESIGN.md): for
\* each class, if from some time on every attempt succeeds and fresh calls keep
\* coming, the class ends up healthy for good, whatever state the failures and
\* the legs that were in flight left it in.
FreshCall(ec) == \E l \in Leg, k \in Key : ClassOf[k] = ec /\ CallToSite(l, k, TRUE)
SomeFailure == \E l \in Leg, kind \in Failure : Fail(l, kind)
BlipHeals ==
    \A ec \in EC :
        (<>[][~SomeFailure]_vars /\ []<><<FreshCall(ec)>>_vars)
            => <>[](health[ec].state = "healthy")

=============================================================================
