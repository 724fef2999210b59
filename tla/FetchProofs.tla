----------------------------- MODULE FetchProofs -----------------------------
(***************************************************************************)
(* What the router promises whatever its callers record: the fields of a   *)
(* Health record agree, and a class declines and heals one state at a      *)
(* time.  The inductive invariant is RouterInv: the type invariant and the *)
(* agreement of the fields together, since a step of `record' that finds   *)
(* fields which disagree need not leave ones that agree.                   *)
(*   What get_text and post_json promise on top of it, for any number of   *)
(* concurrent legs, keys and classes: the state keeps its type, every step *)
(* is a router step or leaves the router alone, the cache holds nothing a  *)
(* validator refused, an open circuit admits no call, and no call gives up *)
(* before its ceiling.                                                     *)
(***************************************************************************)
EXTENDS Fetch, TLAPS

\* What HealthConsistent says of one record.
Agrees(h) == /\ h.state = "broken" <=> h.opened_at # None
             /\ h.state = "healthy" => h.consecutive_failures < DemoteAfter

RouterInv == RouterTypeOK /\ HealthConsistent

-----------------------------------------------------------------------------
(* The router: the helpers *)

\* A fresh class is a well-typed, consistent record (router.py:47-54).
LEMMA NewHealthOK == NewHealth \in Health /\ Agrees(NewHealth)
BY RouterAssumption DEF NewHealth, Health, State, Agrees

\* The success branch of record yields a consistent record (router.py:84-90).
LEMMA SucceededOK ==
    ASSUME NEW h \in Health
    PROVE  /\ Succeeded(h) \in Health
           /\ Agrees(Succeeded(h))
           /\ h.state = "broken" => Succeeded(h).state = "degraded"
           /\ Succeeded(h).state # "broken"
BY RouterAssumption DEF Succeeded, Health, State, Agrees

\* The failure branch keeps a consistent record consistent, and breaks only a class
\* that was degraded (router.py:91-97).
LEMMA FailedOK ==
    ASSUME NEW h \in Health, Agrees(h)
    PROVE  /\ Failed(h) \in Health
           /\ Agrees(Failed(h))
           /\ h.state = "healthy" => Failed(h).state # "broken"
           /\ h.state = "broken" => Failed(h).state = "broken"
<1> DEFINE n == Smaller(h.consecutive_failures + 1, MaxFailures)
<1>1. n \in 0..MaxFailures
  BY RouterAssumption DEF Smaller, Health
<1>2. n < DemoteAfter => n = h.consecutive_failures + 1
  BY RouterAssumption DEF Smaller, Health
<1>3. CASE h.state = "healthy" /\ n >= DemoteAfter
  <2>1. Failed(h) = [h EXCEPT !.consecutive_failures = n, !.state = "degraded"]
    BY <1>3 DEF Failed
  <2> QED
    BY <1>1, <1>3, <2>1, RouterAssumption DEF Health, State, Agrees
<1>4. CASE h.state = "degraded"
  <2>1. Failed(h) = [h EXCEPT !.consecutive_failures = n, !.state = "broken",
                              !.opened_at = 0]
    BY <1>4 DEF Failed
  <2>2. 0 # None /\ 0 \in {None} \cup 0..OpenCircuit
    BY RouterAssumption
  <2>3. Failed(h) \in Health
    BY <1>1, <2>1, <2>2 DEF Health, State
  <2>4. Failed(h).state = "broken" /\ Failed(h).opened_at = 0
    BY <2>1 DEF Health
  <2> QED
    BY <1>4, <2>2, <2>3, <2>4 DEF Agrees
<1>5. CASE ~(h.state = "healthy" /\ n >= DemoteAfter) /\ h.state # "degraded"
  <2>1. Failed(h) = [h EXCEPT !.consecutive_failures = n]
    BY <1>5 DEF Failed
  <2> QED
    BY <1>1, <1>5, <2>1, RouterAssumption DEF Health, State, Agrees
<1> QED
  BY <1>3, <1>4, <1>5

\* The passing of time only ages a circuit.
LEMMA AgedOK ==
    ASSUME NEW h \in Health, Agrees(h)
    PROVE  /\ Aged(h) \in Health
           /\ Agrees(Aged(h))
           /\ Aged(h).state = h.state
BY RouterAssumption DEF Aged, Smaller, Health, State, Agrees

-----------------------------------------------------------------------------
(* The steps *)

\* The invariant holds of the class table an untouched router starts with.
LEMMA RouterInitInv == RouterInit => RouterInv
BY NewHealthOK DEF RouterInit, RouterInv, RouterTypeOK, HealthConsistent, Agrees

\* Recording one outcome keeps the invariant, and moves one class by one state at most.
LEMMA RecordStep ==
    ASSUME RouterInv, NEW ec \in EC, NEW ok \in BOOLEAN, Record(ec, ok)
    PROVE  /\ RouterInv'
           /\ \A e \in EC :
                /\ health[e].state = "healthy" => health'[e].state # "broken"
                /\ health[e].state = "broken" => health'[e].state # "healthy"
<1>1. \A e \in EC : health[e] \in Health /\ Agrees(health[e])
  BY DEF RouterInv, RouterTypeOK, HealthConsistent, Agrees
<1>2. health' = [health EXCEPT ![ec] = IF ok THEN Succeeded(@) ELSE Failed(@)]
  BY DEF Record
<1>3. \A e \in EC : health'[e] = IF e # ec THEN health[e]
                                 ELSE IF ok THEN Succeeded(health[e]) ELSE Failed(health[e])
  BY <1>2 DEF RouterInv, RouterTypeOK
<1>4. \A e \in EC : /\ health'[e] \in Health /\ Agrees(health'[e])
                    /\ health[e].state = "healthy" => health'[e].state # "broken"
                    /\ health[e].state = "broken" => health'[e].state # "healthy"
  <2> SUFFICES ASSUME NEW e \in EC
               PROVE  /\ health'[e] \in Health /\ Agrees(health'[e])
                      /\ health[e].state = "healthy" => health'[e].state # "broken"
                      /\ health[e].state = "broken" => health'[e].state # "healthy"
    OBVIOUS
  <2>1. CASE e # ec
    BY <1>1, <1>3, <2>1
  <2>2. CASE e = ec /\ ok
    <3>1. health'[e] = Succeeded(health[e])
      BY <1>3, <2>2
    <3> QED
      BY <1>1, <3>1, SucceededOK
  <2>3. CASE e = ec /\ ~ok
    <3>1. health'[e] = Failed(health[e])
      BY <1>3, <2>3
    <3> QED
      BY <1>1, <3>1, FailedOK
  <2> QED
    BY <2>1, <2>2, <2>3
<1>5. health' \in [EC -> Health]
  BY <1>2, <1>4 DEF RouterInv, RouterTypeOK
<1> QED
  BY <1>4, <1>5 DEF RouterInv, RouterTypeOK, HealthConsistent, Agrees

\* A tick keeps the invariant and every class's state.
LEMMA AgeStep ==
    ASSUME RouterInv, Age
    PROVE  /\ RouterInv'
           /\ \A e \in EC : health'[e].state = health[e].state
<1>1. \A e \in EC : health[e] \in Health /\ Agrees(health[e])
  BY DEF RouterInv, RouterTypeOK, HealthConsistent, Agrees
<1>2. \A e \in EC : health'[e] = Aged(health[e])
  BY DEF Age
<1>3. \A e \in EC : /\ health'[e] \in Health /\ Agrees(health'[e])
                    /\ health'[e].state = health[e].state
  BY <1>1, <1>2, AgedOK
<1>4. health' \in [EC -> Health]
  BY <1>3 DEF Age
<1> QED
  BY <1>3, <1>4 DEF RouterInv, RouterTypeOK, HealthConsistent, Agrees

-----------------------------------------------------------------------------
(* The theorems *)

\* The fields of every Health record have their types and agree, whatever the
\* outcomes that concurrent calls record and in whatever order (router.py:82-97).
THEOREM RouterInvariant == RouterSpec => []RouterInv
<1>1. RouterInit => RouterInv
  BY RouterInitInv
<1>2. RouterInv /\ [RouterNext]_health => RouterInv'
  <2> SUFFICES ASSUME RouterInv, [RouterNext]_health
               PROVE  RouterInv'
    OBVIOUS
  <2>1. ASSUME NEW ec \in EC, NEW ok \in BOOLEAN, Record(ec, ok)
        PROVE  RouterInv'
    BY <2>1, RecordStep
  <2>2. CASE Age
    BY <2>2, AgeStep
  <2>3. CASE UNCHANGED health
    BY <2>3 DEF RouterInv, RouterTypeOK, HealthConsistent
  <2> QED
    BY <2>1, <2>2, <2>3 DEF RouterNext
<1> QED
  BY <1>1, <1>2, PTL DEF RouterSpec

\* A class's circuit and its state agree, and a healthy class has not collected the
\* failures that demote it (router.py:82-97).
THEOREM HealthIsConsistent == RouterSpec => []HealthConsistent
<1>1. RouterInv => HealthConsistent
  BY DEF RouterInv
<1> QED
  BY <1>1, RouterInvariant, PTL

-----------------------------------------------------------------------------
(* The legs *)

\* What holds of one leg: an attempt under way is at a tier of the plan; the ceiling is
\* still ahead of a call under way, or behind it; and it is behind a call that gave
\* up on an error worth escalating.
Ladder(r) ==
    /\ r.pc = "fetching" => r.todo # {}
    /\ r.pc # "idle" => Top(ClassOf[r.key]) \in r.todo \cup r.tried
    /\ r.pc = "idle" /\ r.last \in Escalating => Top(ClassOf[r.key]) \in r.tried

FetchInv == RouterInv /\ TypeOK /\ \A l \in Leg : Ladder(leg[l])

-----------------------------------------------------------------------------
(* The helpers *)

\* The head of a plan that is not exhausted is one of its tiers.
LEMMA LowestIn ==
    ASSUME NEW S \in SUBSET Tier, S # {}
    PROVE  Lowest(S) \in S
<1>1. \E t \in S : \A u \in S : t <= u
  <2>1. \A t \in S : t \in 0..2
    BY DEF Tier
  <2>2. CASE 0 \in S
    BY <2>1, <2>2
  <2>3. CASE 0 \notin S /\ 1 \in S
    <3>1. \A u \in S : 1 <= u
      BY <2>1, <2>3
    <3> QED
      BY <2>3, <3>1
  <2>4. CASE 0 \notin S /\ 1 \notin S
    <3>1. \A u \in S : u = 2
      BY <2>1, <2>4
    <3> QED
      BY <3>1
  <2> QED
    BY <2>2, <2>3, <2>4
<1> QED
  BY <1>1 DEF Lowest

\* The tiers a class starts and stops at are tiers.
LEMMA TierBounds ==
    ASSUME NEW ec \in EC
    PROVE  Start(ec) \in Tier /\ Top(ec) \in Tier
BY RouterAssumption DEF Start, Top, Larger, Tier

\* A plan holds tiers only, its ceiling whenever it holds any, and it is empty exactly
\* while the circuit is open (router.py:65-80).
LEMMA PlanOK ==
    ASSUME NEW ec \in EC, health[ec] \in Health
    PROVE  /\ Plan(ec) \subseteq Tier
           /\ Plan(ec) # {} => Top(ec) \in Plan(ec)
           /\ Plan(ec) = {} <=> Open(ec)
<1>1. Start(ec) \in Tier /\ Top(ec) \in Tier
  BY TierBounds
<1>2. Smaller(Start(ec) + 1, Top(ec)) \in Tier
  BY <1>1 DEF Smaller, Tier
<1>3. CASE health[ec].state = "healthy"
  BY <1>1, <1>3 DEF Plan, Open
<1>4. CASE health[ec].state = "degraded"
  BY <1>1, <1>2, <1>4 DEF Plan, Open
<1>5. CASE health[ec].state = "broken" /\ Open(ec)
  BY <1>5 DEF Plan
<1>6. CASE health[ec].state = "broken" /\ ~Open(ec)
  BY <1>1, <1>6 DEF Plan
<1> QED
  BY <1>3, <1>4, <1>5, <1>6 DEF Health, State

\* The class of a leg is an endpoint class, and its record is typed.
LEMMA ClassIn ==
    ASSUME FetchInv, NEW l \in Leg
    PROVE  /\ leg[l] \in LegState /\ Ladder(leg[l])
           /\ Class(l) \in EC /\ Class(l) = ClassOf[leg[l].key]
BY FetchAssumption DEF FetchInv, TypeOK, LegState, Class

\* A step that changes one leg keeps the part of the invariant about legs if the new
\* record satisfies it.
LEMMA OneLeg ==
    ASSUME FetchInv, NEW l \in Leg, NEW r \in LegState, Ladder(r),
           leg' = [leg EXCEPT ![l] = r]
    PROVE  leg' \in [Leg -> LegState] /\ \A m \in Leg : Ladder(leg'[m])
<1>1. leg \in [Leg -> LegState] /\ \A m \in Leg : Ladder(leg[m])
  BY DEF FetchInv, TypeOK
<1>2. \A m \in Leg : leg'[m] = IF m = l THEN r ELSE leg[m]
  BY <1>1
<1> QED
  BY <1>1, <1>2

\* The invariant put together again from its parts.
LEMMA Assembled ==
    ASSUME RouterInv', leg' \in [Leg -> LegState], \A m \in Leg : Ladder(leg'[m]),
           cache' \in [Key -> {None} \cup Body],
           blocked_ago' \in [EC -> {None} \cup 0..(RecoverAfter + 1)]
    PROVE  FetchInv'
BY DEF FetchInv, RouterInv, TypeOK, Ladder

\* A step that leaves the router alone keeps its invariant.
LEMMA RouterKept == ASSUME FetchInv, UNCHANGED health PROVE RouterInv'
BY DEF FetchInv, RouterInv, RouterTypeOK, HealthConsistent

-----------------------------------------------------------------------------
(* The steps of a leg *)

\* The outcome a call ends with, put into its leg.
LEMMA ReturnStep ==
    ASSUME FetchInv, NEW l \in Leg, NEW what \in Outcome, Return(l, what),
           what \in Escalating => Top(Class(l)) \in leg[l].tried
    PROVE  leg' \in [Leg -> LegState] /\ \A m \in Leg : Ladder(leg'[m])
<1> DEFINE r == [leg[l] EXCEPT !.pc = "idle", !.todo = {}, !.age = 0, !.last = what]
<1>1. leg[l] \in LegState /\ Class(l) = ClassOf[leg[l].key]
  BY ClassIn
<1>2. leg' = [leg EXCEPT ![l] = r]
  BY DEF Return, FetchInv, TypeOK
<1>3. 0 \in 0..OpenCircuit
  BY RouterAssumption
<1>4. r \in LegState
  BY <1>1, <1>3 DEF LegState
<1>5. r.pc = "idle" /\ r.last = what /\ r.key = leg[l].key /\ r.tried = leg[l].tried
  BY <1>1 DEF LegState
<1>6. Ladder(r)
  BY <1>1, <1>5 DEF Ladder
<1> HIDE DEF r
<1> QED
  BY <1>2, <1>4, <1>6, OneLeg

\* A call answered from the cache.
LEMMA CallFromCacheStep ==
    ASSUME FetchInv, NEW l \in Leg, NEW k \in Key, CallFromCache(l, k)
    PROVE  FetchInv'
<1> DEFINE r == [leg[l] EXCEPT !.key = k, !.tried = {}, !.last = "cached"]
<1>1. leg[l] \in LegState /\ leg[l].pc = "idle"
  BY ClassIn DEF CallFromCache
<1>2. leg' = [leg EXCEPT ![l] = r]
  BY DEF CallFromCache, FetchInv, TypeOK
<1>3. r \in LegState
  BY <1>1 DEF LegState, Outcome
<1>4. r.pc = "idle" /\ r.last = "cached"
  BY <1>1 DEF LegState
<1>5. Ladder(r)
  BY <1>4 DEF Ladder, Escalating
<1> HIDE DEF r
<1>6. leg' \in [Leg -> LegState] /\ \A m \in Leg : Ladder(leg'[m])
  BY <1>2, <1>3, <1>5, OneLeg
<1>7. RouterInv'
  BY RouterKept DEF CallFromCache
<1> QED
  BY <1>6, <1>7, Assembled DEF CallFromCache, FetchInv, TypeOK

\* A call that plans, and either starts its first attempt or finds the circuit open.
LEMMA CallToSiteStep ==
    ASSUME FetchInv, NEW l \in Leg, NEW k \in Key, NEW fresh \in BOOLEAN,
           CallToSite(l, k, fresh)
    PROVE  FetchInv'
<1> DEFINE P == Plan(ClassOf[k])
           r == [pc    |-> IF P = {} THEN "idle" ELSE "fetching",
                 key   |-> k, todo |-> P, tried |-> {}, age |-> 0,
                 last  |-> IF P = {} THEN "circuit_open" ELSE "none"]
<1>1. ClassOf[k] \in EC /\ health[ClassOf[k]] \in Health
  BY FetchAssumption DEF FetchInv, RouterInv, RouterTypeOK
<1>2. P \subseteq Tier /\ (P # {} => Top(ClassOf[k]) \in P)
  BY <1>1, PlanOK
<1>3. leg' = [leg EXCEPT ![l] = r]
  BY DEF CallToSite
<1> HIDE DEF P
<1>4. r \in LegState
  BY <1>2, RouterAssumption DEF LegState, Outcome
<1>5. Ladder(r)
  BY <1>2 DEF Ladder, Escalating
<1> HIDE DEF r
<1>6. leg' \in [Leg -> LegState] /\ \A m \in Leg : Ladder(leg'[m])
  BY <1>3, <1>4, <1>5, OneLeg
<1>7. RouterInv'
  BY RouterKept DEF CallToSite
<1> QED
  BY <1>6, <1>7, Assembled DEF CallToSite, FetchInv, TypeOK

\* An attempt whose body is accepted.
LEMMA SucceedStep ==
    ASSUME FetchInv, NEW l \in Leg, NEW body \in Body, Succeed(l, body)
    PROVE  FetchInv'
<1>1. Class(l) \in EC /\ leg[l].key \in Key
  BY ClassIn DEF LegState
<1>2. RouterInv'
  BY <1>1, RecordStep DEF Succeed, FetchInv
<1>3. "answer" \in Outcome /\ "answer" \notin Escalating
  BY DEF Outcome, Escalating
<1>4. leg' \in [Leg -> LegState] /\ \A m \in Leg : Ladder(leg'[m])
  BY <1>3, ReturnStep DEF Succeed
<1>5. cache' \in [Key -> {None} \cup Body]
  BY <1>1 DEF Succeed, FetchInv, TypeOK
<1>6. blocked_ago' \in [EC -> {None} \cup 0..(RecoverAfter + 1)]
  BY DEF Succeed, FetchInv, TypeOK
<1> QED
  BY <1>2, <1>4, <1>5, <1>6, Assembled

\* An attempt that fails: what is left of the plan and what has been tried still hold
\* the ceiling between them, and an error that ends the call is not one to escalate.
LEMMA FailStep ==
    ASSUME FetchInv, NEW l \in Leg, NEW kind \in Failure, Fail(l, kind)
    PROVE  FetchInv'
<1> DEFINE failed == [leg[l] EXCEPT !.todo = @ \ {Current(l)},
                                    !.tried = @ \cup {Current(l)},
                                    !.last = kind]
           r == CASE kind \in Final ->
                        [failed EXCEPT !.pc = "idle", !.todo = {}, !.age = 0]
                  [] kind = "blocked" /\ SecondBlock(Class(l)) ->
                        [failed EXCEPT !.pc = "recovering"]
                  [] OTHER -> [failed EXCEPT !.pc = "backoff"]
<1>1. /\ leg[l] \in LegState /\ Ladder(leg[l])
      /\ Class(l) \in EC /\ Class(l) = ClassOf[leg[l].key]
  BY ClassIn
<1>2. leg[l].pc = "fetching" /\ leg[l].todo # {} /\ leg[l].todo \in SUBSET Tier
  BY <1>1 DEF Fail, Ladder, LegState
<1>3. Current(l) \in leg[l].todo
  BY <1>2, LowestIn DEF Current
<1>4. failed \in LegState
  BY <1>1, <1>2, <1>3 DEF LegState, Outcome
<1>5. /\ failed.pc = "fetching" /\ failed.key = leg[l].key /\ failed.last = kind
      /\ failed.todo \cup failed.tried = leg[l].todo \cup leg[l].tried
  BY <1>1, <1>2, <1>3 DEF LegState
<1>6. Top(ClassOf[failed.key]) \in failed.todo \cup failed.tried
  BY <1>1, <1>2, <1>5 DEF Ladder
<1>7. leg' = [leg EXCEPT ![l] = r]
  BY DEF Fail
<1> HIDE DEF failed
<1>8. r \in LegState /\ Ladder(r)
  <2>1. CASE kind \in Final
    <3>1. r = [failed EXCEPT !.pc = "idle", !.todo = {}, !.age = 0]
      BY <2>1 DEF Final
    <3>2. 0 \in 0..OpenCircuit
      BY RouterAssumption
    <3>3. r \in LegState
      BY <1>4, <3>1, <3>2 DEF LegState
    <3>4. r.pc = "idle" /\ r.last = kind
      BY <1>4, <1>5, <3>1 DEF LegState
    <3> QED
      BY <2>1, <3>3, <3>4 DEF Ladder, Final, Escalating
  <2>2. CASE kind \notin Final
    <3>1. PICK pc \in {"recovering", "backoff"} : r = [failed EXCEPT !.pc = pc]
      BY <2>2
    <3>2. r \in LegState
      BY <1>4, <3>1 DEF LegState
    <3>3. /\ r.pc \notin {"idle", "fetching"}
          /\ r.key = failed.key /\ r.todo = failed.todo /\ r.tried = failed.tried
      BY <1>4, <3>1 DEF LegState
    <3> QED
      BY <1>6, <3>2, <3>3 DEF Ladder
  <2> QED
    BY <2>1, <2>2
<1> HIDE DEF r
<1>9. leg' \in [Leg -> LegState] /\ \A m \in Leg : Ladder(leg'[m])
  BY <1>7, <1>8, OneLeg
<1>10. RouterInv'
  BY <1>1, RecordStep DEF Fail, FetchInv
<1>11. blocked_ago' \in [EC -> {None} \cup 0..(RecoverAfter + 1)]
  BY <1>1, FetchAssumption DEF Fail, FetchInv, TypeOK
<1>12. cache' \in [Key -> {None} \cup Body]
  BY DEF Fail, FetchInv, TypeOK
<1> QED
  BY <1>9, <1>10, <1>11, <1>12, Assembled

\* The relaunch of the browser ended or raised.
LEMMA RecoveredStep ==
    ASSUME FetchInv, NEW l \in Leg, Recovered(l)
    PROVE  FetchInv'
<1>1. leg[l] \in LegState /\ Ladder(leg[l]) /\ leg[l].pc = "recovering"
  BY ClassIn DEF Recovered
<1>2. leg' \in [Leg -> LegState] /\ \A m \in Leg : Ladder(leg'[m])
  <2>1. CASE Return(l, "browser")
    <3>1. "browser" \in Outcome /\ "browser" \notin Escalating
      BY DEF Outcome, Failure, Final, Escalating
    <3> QED
      BY <2>1, <3>1, ReturnStep
  <2>2. CASE leg' = [leg EXCEPT ![l].pc = "backoff"]
    <3> DEFINE r == [leg[l] EXCEPT !.pc = "backoff"]
    <3>1. leg' = [leg EXCEPT ![l] = r]
      BY <2>2 DEF FetchInv, TypeOK
    <3>2. r \in LegState
      BY <1>1 DEF LegState
    <3>3. /\ r.pc = "backoff" /\ r.key = leg[l].key
          /\ r.todo = leg[l].todo /\ r.tried = leg[l].tried
      BY <1>1 DEF LegState
    <3>4. Ladder(r)
      BY <1>1, <3>3 DEF Ladder
    <3> HIDE DEF r
    <3> QED
      BY <3>1, <3>2, <3>4, OneLeg
  <2> QED
    BY <2>1, <2>2 DEF Recovered
<1>3. RouterInv'
  BY RouterKept DEF Recovered
<1> QED
  BY <1>2, <1>3, Assembled DEF Recovered, FetchInv, TypeOK

\* The sleep after a failure ended: the next tier, or the last error if there is none,
\* and then the ceiling is among the tiers tried.
LEMMA BackoffStep ==
    ASSUME FetchInv, NEW l \in Leg, Backoff(l)
    PROVE  FetchInv'
<1>1. leg[l] \in LegState /\ Ladder(leg[l]) /\ leg[l].pc = "backoff"
      /\ Class(l) = ClassOf[leg[l].key]
  BY ClassIn DEF Backoff
<1>2. leg' \in [Leg -> LegState] /\ \A m \in Leg : Ladder(leg'[m])
  <2>1. CASE leg[l].todo = {}
    <3>1. Top(Class(l)) \in leg[l].tried
      BY <1>1, <2>1 DEF Ladder
    <3>2. leg[l].last \in Outcome
      BY <1>1 DEF LegState
    <3> QED
      BY <2>1, <3>1, <3>2, ReturnStep DEF Backoff
  <2>2. CASE leg[l].todo # {}
    <3> DEFINE r == [leg[l] EXCEPT !.pc = "fetching"]
    <3>1. leg' = [leg EXCEPT ![l] = r]
      BY <2>2 DEF Backoff, FetchInv, TypeOK
    <3>2. r \in LegState
      BY <1>1 DEF LegState
    <3>3. /\ r.pc = "fetching" /\ r.key = leg[l].key
          /\ r.todo = leg[l].todo /\ r.tried = leg[l].tried
      BY <1>1 DEF LegState
    <3>4. Ladder(r)
      BY <1>1, <2>2, <3>3 DEF Ladder
    <3> HIDE DEF r
    <3> QED
      BY <3>1, <3>2, <3>4, OneLeg
  <2> QED
    BY <2>1, <2>2
<1>3. RouterInv'
  BY RouterKept DEF Backoff
<1> QED
  BY <1>2, <1>3, Assembled DEF Backoff, FetchInv, TypeOK

\* A tick ages the legs and changes nothing else of them.
LEMMA TickStep == ASSUME FetchInv, Tick PROVE FetchInv'
<1>1. RouterInv'
  BY AgeStep DEF Tick, FetchInv
<1>2. \A m \in Leg : leg'[m] \in LegState /\ Ladder(leg'[m])
  <2> SUFFICES ASSUME NEW m \in Leg
               PROVE  leg'[m] \in LegState /\ Ladder(leg'[m])
    OBVIOUS
  <2> DEFINE a == IF leg[m].pc = "idle" THEN leg[m].age
                  ELSE Smaller(leg[m].age + 1, OpenCircuit)
  <2>1. leg[m] \in LegState /\ Ladder(leg[m])
    BY ClassIn
  <2>2. a \in 0..OpenCircuit
    BY <2>1, RouterAssumption DEF LegState, Smaller
  <2>3. leg'[m] = [leg[m] EXCEPT !.age = a]
    BY DEF Tick
  <2> HIDE DEF a
  <2>4. leg'[m] \in LegState
    BY <2>1, <2>2, <2>3 DEF LegState
  <2>5. /\ leg'[m].pc = leg[m].pc /\ leg'[m].key = leg[m].key
        /\ leg'[m].todo = leg[m].todo /\ leg'[m].tried = leg[m].tried
        /\ leg'[m].last = leg[m].last
    BY <2>1, <2>3 DEF LegState
  <2> QED
    BY <2>1, <2>4, <2>5 DEF Ladder
<1>3. leg' \in [Leg -> LegState]
  BY <1>2 DEF Tick
<1>4. blocked_ago' \in [EC -> {None} \cup 0..(RecoverAfter + 1)]
  <2>1. \A ec \in EC : blocked_ago'[ec] \in {None} \cup 0..(RecoverAfter + 1)
    <3> SUFFICES ASSUME NEW ec \in EC
                 PROVE  blocked_ago'[ec] \in {None} \cup 0..(RecoverAfter + 1)
      OBVIOUS
    <3>1. blocked_ago[ec] \in {None} \cup 0..(RecoverAfter + 1)
      BY DEF FetchInv, TypeOK
    <3>2. blocked_ago'[ec] = IF blocked_ago[ec] = None THEN None
                             ELSE Smaller(blocked_ago[ec] + 1, RecoverAfter + 1)
      BY DEF Tick
    <3> QED
      BY <3>1, <3>2, FetchAssumption DEF Smaller
  <2> QED
    BY <2>1 DEF Tick
<1> QED
  BY <1>1, <1>2, <1>3, <1>4, Assembled DEF Tick, FetchInv, TypeOK

-----------------------------------------------------------------------------
(* The invariant *)

\* Before the first call every leg is idle with nothing to its name.
LEMMA FetchInitInv == FetchInit => FetchInv
<1> SUFFICES ASSUME FetchInit PROVE FetchInv
  OBVIOUS
<1>1. RouterInv
  BY RouterInitInv DEF FetchInit
<1>2. PICK k \in Key : leg = [l \in Leg |-> [pc |-> "idle", key |-> k, todo |-> {},
                                             tried |-> {}, age |-> 0, last |-> "none"]]
  BY DEF FetchInit
<1>3. 0 \in 0..OpenCircuit
  BY RouterAssumption
<1>4. leg \in [Leg -> LegState]
  BY <1>2, <1>3 DEF LegState, Outcome
<1>5. \A l \in Leg : leg[l].pc = "idle" /\ leg[l].last = "none"
  BY <1>2
<1>6. \A l \in Leg : Ladder(leg[l])
  BY <1>5 DEF Ladder, Escalating
<1> QED
  BY <1>1, <1>4, <1>6 DEF FetchInit, FetchInv, RouterInv, TypeOK

\* Every step keeps the invariant.
LEMMA FetchInvStep == FetchInv /\ [Next]_vars => FetchInv'
<1> SUFFICES ASSUME FetchInv, [Next]_vars
             PROVE  FetchInv'
  OBVIOUS
<1>1. ASSUME NEW l \in Leg, Call(l) PROVE FetchInv'
  BY <1>1, CallFromCacheStep, CallToSiteStep DEF Call
<1>2. ASSUME NEW l \in Leg, Answer(l) PROVE FetchInv'
  BY <1>2, SucceedStep, FailStep DEF Answer
<1>3. ASSUME NEW l \in Leg, Recovered(l) PROVE FetchInv'
  BY <1>3, RecoveredStep
<1>4. ASSUME NEW l \in Leg, Backoff(l) PROVE FetchInv'
  BY <1>4, BackoffStep
<1>5. ASSUME NEW k \in Key, Forget(k) PROVE FetchInv'
  <2>1. RouterInv'
    BY <1>5, RouterKept DEF Forget
  <2>2. cache' \in [Key -> {None} \cup Body]
    BY <1>5 DEF Forget, FetchInv, TypeOK
  <2> QED
    BY <1>5, <2>1, <2>2, Assembled DEF Forget, FetchInv, TypeOK
<1>6. CASE Tick
  BY <1>6, TickStep
<1>7. CASE UNCHANGED vars
  <2>1. RouterInv'
    BY <1>7, RouterKept DEF vars
  <2> QED
    BY <1>7, <2>1, Assembled DEF vars, FetchInv, TypeOK
<1> QED
  BY <1>1, <1>2, <1>3, <1>4, <1>5, <1>6, <1>7 DEF Next

\* The invariant holds of every reachable state, for any legs, keys and classes.
THEOREM FetchInvariant == Spec => []FetchInv
BY FetchInitInv, FetchInvStep, PTL DEF Spec

-----------------------------------------------------------------------------
(* The theorems *)

\* Every variable keeps to its type.
THEOREM TypesHold == Spec => []TypeOK
<1>1. FetchInv => TypeOK
  BY DEF FetchInv
<1> QED
  BY <1>1, FetchInvariant, PTL

\* A call that gives up on a block, a transport error or an unusable body has tried
\* the ceiling tier of its class, whatever other legs did to the class meanwhile
\* (router.py:65-80, fetch.py:307-371).
THEOREM NoCallGivesUpEarly == Spec => []GivesUpOnlyAtCeiling
<1>1. FetchInv => GivesUpOnlyAtCeiling
  BY ClassIn DEF FetchInv, GivesUpOnlyAtCeiling, Ladder
<1> QED
  BY <1>1, FetchInvariant, PTL

\* Concurrent legs use the router only through `record' and the clock: the fetch layer
\* implements the router on its own, so what is proved of that one holds here
\* (fetch.py:349, 355, 363).
THEOREM FetchImplementsRouter == Spec => RouterSpec
<1>1. FetchInit => RouterInit
  BY DEF FetchInit
<1>2. FetchInv /\ [Next]_vars => [RouterNext]_health
  <2> SUFFICES ASSUME FetchInv, [Next]_vars
               PROVE  RouterNext \/ UNCHANGED health
    BY DEF RouterNext
  <2>1. ASSUME NEW l \in Leg, NEW body \in Body, Succeed(l, body)
        PROVE  RouterNext
    BY <2>1, ClassIn DEF Succeed, RouterNext
  <2>2. ASSUME NEW l \in Leg, NEW kind \in Failure, Fail(l, kind)
        PROVE  RouterNext
    BY <2>2, ClassIn DEF Fail, RouterNext
  <2>3. ASSUME NEW l \in Leg, Call(l) \/ Recovered(l) \/ Backoff(l)
        PROVE  UNCHANGED health
    BY <2>3 DEF Call, CallFromCache, CallToSite, Recovered, Backoff
  <2>4. ASSUME NEW k \in Key, Forget(k)
        PROVE  UNCHANGED health
    BY <2>4 DEF Forget
  <2>5. CASE Tick
    BY <2>5 DEF Tick, RouterNext
  <2>6. CASE UNCHANGED vars
    BY <2>6 DEF vars
  <2> QED
    BY <2>1, <2>2, <2>3, <2>4, <2>5, <2>6 DEF Next, Answer
<1> QED
  BY <1>1, <1>2, FetchInvariant, PTL DEF Spec, RouterSpec

\* What the cache holds passed the validator of the call that put it there, unless that
\* call came without one, and no page above the size cap is resident (fetch.py:337-352).
THEOREM CacheIsUsable == Spec => []CacheHoldsOnlyUsable
<1>1. FetchInit => CacheHoldsOnlyUsable
  BY FetchAssumption DEF FetchInit, CacheHoldsOnlyUsable, Body
<1>2. FetchInv /\ CacheHoldsOnlyUsable /\ [Next]_vars => CacheHoldsOnlyUsable'
  <2> SUFFICES ASSUME FetchInv, CacheHoldsOnlyUsable, [Next]_vars
               PROVE  CacheHoldsOnlyUsable'
    OBVIOUS
  <2>1. cache \in [Key -> {None} \cup Body]
    BY DEF FetchInv, TypeOK
  <2>2. ASSUME NEW l \in Leg, NEW body \in Body, Succeed(l, body)
        PROVE  CacheHoldsOnlyUsable'
    <3>1. leg[l].key \in Key
      BY ClassIn DEF LegState
    <3> QED
      BY <2>1, <2>2, <3>1 DEF Succeed, Accepted, Cacheable, CacheHoldsOnlyUsable
  <2>3. ASSUME NEW k \in Key, Forget(k)
        PROVE  CacheHoldsOnlyUsable'
    BY <2>1, <2>3, FetchAssumption DEF Forget, CacheHoldsOnlyUsable, Body
  <2>4. CASE UNCHANGED cache
    BY <2>4 DEF CacheHoldsOnlyUsable
  <2>5. ASSUME NEW l \in Leg, NEW kind \in Failure, Fail(l, kind)
        PROVE  UNCHANGED cache
    BY <2>5 DEF Fail
  <2>6. ASSUME NEW l \in Leg, Call(l) \/ Recovered(l) \/ Backoff(l)
        PROVE  UNCHANGED cache
    BY <2>6 DEF Call, CallFromCache, CallToSite, Recovered, Backoff
  <2>7. Tick \/ UNCHANGED vars => UNCHANGED cache
    BY DEF Tick, vars
  <2> QED
    BY <2>2, <2>3, <2>4, <2>5, <2>6, <2>7 DEF Next, Answer
<1> QED
  BY <1>1, <1>2, FetchInvariant, PTL DEF Spec

-----------------------------------------------------------------------------
(* The circuit and the calls in flight *)

\* A step that ages nobody, in which calls only go on or end and circuits only stay,
\* close or open afresh, admits no call under an open circuit.
LEMMA NobodyAdmitted ==
    ASSUME NoPlanWhileOpen, FetchInv, FetchInv',
           \A m \in Leg : \/ leg'[m].pc = "idle"
                          \/ /\ leg[m].pc # "idle" /\ leg'[m].key = leg[m].key
                             /\ leg'[m].age = leg[m].age,
           \A ec \in EC : \/ /\ health'[ec].state = health[ec].state
                             /\ health'[ec].opened_at = health[ec].opened_at
                          \/ health'[ec].opened_at = 0
                          \/ health'[ec].state # "broken"
    PROVE  NoPlanWhileOpen'
<1> SUFFICES ASSUME NEW m \in Leg, leg'[m].pc # "idle", Open(Class(m))'
             PROVE  leg'[m].age >= health'[Class(m)'].opened_at
  BY DEF NoPlanWhileOpen
<1>1. /\ leg[m].pc # "idle" /\ leg'[m].key = leg[m].key /\ leg'[m].age = leg[m].age
  OBVIOUS
<1>2. Class(m)' = Class(m) /\ Class(m) \in EC /\ leg[m].age \in Nat
  BY <1>1, ClassIn, RouterAssumption DEF Class, LegState
<1>3. CASE /\ health'[Class(m)].state = health[Class(m)].state
           /\ health'[Class(m)].opened_at = health[Class(m)].opened_at
  BY <1>1, <1>2, <1>3 DEF NoPlanWhileOpen, Open
<1>4. CASE health'[Class(m)].opened_at = 0
  BY <1>1, <1>2, <1>4
<1> QED
  BY <1>2, <1>3, <1>4 DEF Open

\* A record that a failure leaves broken was broken, with the same circuit, or has a
\* circuit that opens with this failure.
LEMMA FailedOpensAtZero ==
    ASSUME NEW h \in Health
    PROVE  \/ Failed(h).state = h.state /\ Failed(h).opened_at = h.opened_at
           \/ Failed(h).opened_at = 0
           \/ Failed(h).state # "broken"
BY DEF Failed, Health, State

\* A step of one leg that leaves the router alone and does not start a call.
LEMMA QuietStep ==
    ASSUME NoPlanWhileOpen, FetchInv, FetchInv', UNCHANGED health, NEW l \in Leg,
           \A m \in Leg : m # l => leg'[m] = leg[m],
           \/ leg'[l].pc = "idle"
           \/ /\ leg[l].pc # "idle" /\ leg'[l].key = leg[l].key
              /\ leg'[l].age = leg[l].age
    PROVE  NoPlanWhileOpen'
BY NobodyAdmitted

\* An attempt still running for a class whose circuit is open belongs to a call that
\* planned no later than the failure that opened it, for any number of legs
\* (router.py:65-80, fetch.py:300-303).
THEOREM OpenCircuitAdmitsNobody == Spec => []NoPlanWhileOpen
<1>1. FetchInit => NoPlanWhileOpen
  BY DEF FetchInit, NoPlanWhileOpen
<1>2. NoPlanWhileOpen /\ FetchInv /\ FetchInv' /\ [Next]_vars => NoPlanWhileOpen'
  <2> SUFFICES ASSUME NoPlanWhileOpen, FetchInv, FetchInv', [Next]_vars
               PROVE  NoPlanWhileOpen'
    OBVIOUS
  <2>1. /\ leg \in [Leg -> LegState] /\ leg' \in [Leg -> LegState]
        /\ health \in [EC -> Health]
    BY DEF FetchInv, TypeOK, RouterInv, RouterTypeOK
  <2>2. ASSUME NEW l \in Leg, NEW k \in Key, CallFromCache(l, k)
        PROVE  NoPlanWhileOpen'
    BY <2>1, <2>2, QuietStep DEF CallFromCache, LegState
  <2>3. ASSUME NEW l \in Leg, NEW k \in Key, NEW fresh \in BOOLEAN, CallToSite(l, k, fresh)
        PROVE  NoPlanWhileOpen'
    <3>1. ClassOf[k] \in EC /\ health[ClassOf[k]] \in Health
      BY <2>1, FetchAssumption
    <3>2. \A m \in Leg : m # l => leg'[m] = leg[m]
      BY <2>1, <2>3 DEF CallToSite
    <3>3. /\ leg'[l].key = k
          /\ leg'[l].pc = IF Plan(ClassOf[k]) = {} THEN "idle" ELSE "fetching"
      BY <2>1, <2>3 DEF CallToSite
    <3>4. UNCHANGED health
      BY <2>3 DEF CallToSite
    <3>5. leg'[l].pc # "idle" => ~Open(Class(l))'
      BY <3>1, <3>3, <3>4, PlanOK DEF Open, Class
    <3> QED
      BY <3>2, <3>4, <3>5 DEF NoPlanWhileOpen, Open, Class
  <2>4. ASSUME NEW l \in Leg, NEW body \in Body, Succeed(l, body)
        PROVE  NoPlanWhileOpen'
    <3>1. \A m \in Leg : leg'[m] = leg[m] \/ leg'[m].pc = "idle"
      BY <2>1, <2>4 DEF Succeed, Return, LegState
    <3>2. \A ec \in EC : health'[ec] = health[ec] \/ health'[ec] = Succeeded(health[ec])
      BY <2>1, <2>4 DEF Succeed, Record
    <3>3. \A ec \in EC : health'[ec] = health[ec] \/ health'[ec].state # "broken"
      BY <2>1, <3>2, SucceededOK
    <3> QED
      BY <3>1, <3>3, NobodyAdmitted
  <2>5. ASSUME NEW l \in Leg, NEW kind \in Failure, Fail(l, kind)
        PROVE  NoPlanWhileOpen'
    <3>1. \A m \in Leg : m # l => leg'[m] = leg[m]
      BY <2>1, <2>5 DEF Fail
    <3>2. \/ leg'[l].pc = "idle"
          \/ /\ leg[l].pc # "idle" /\ leg'[l].key = leg[l].key
             /\ leg'[l].age = leg[l].age
      BY <2>1, <2>5 DEF Fail, LegState
    <3>3. \A ec \in EC : health'[ec] = health[ec] \/ health'[ec] = Failed(health[ec])
      BY <2>1, <2>5 DEF Fail, Record
    <3>4. \A ec \in EC :
             \/ /\ health'[ec].state = health[ec].state
                /\ health'[ec].opened_at = health[ec].opened_at
             \/ health'[ec].opened_at = 0
             \/ health'[ec].state # "broken"
      BY <2>1, <3>3, FailedOpensAtZero
    <3> QED
      BY <3>1, <3>2, <3>4, NobodyAdmitted
  <2>6. ASSUME NEW l \in Leg, Recovered(l)
        PROVE  NoPlanWhileOpen'
    BY <2>1, <2>6, QuietStep DEF Recovered, Return, LegState
  <2>7. ASSUME NEW l \in Leg, Backoff(l)
        PROVE  NoPlanWhileOpen'
    BY <2>1, <2>7, QuietStep DEF Backoff, Return, LegState
  <2>8. CASE Tick
    <3> SUFFICES ASSUME NEW m \in Leg, leg'[m].pc # "idle", Open(Class(m))'
                 PROVE  leg'[m].age >= health'[Class(m)'].opened_at
      BY DEF NoPlanWhileOpen
    <3>1. leg[m] \in LegState /\ Class(m) \in EC
      BY ClassIn
    <3>2. leg'[m] = [leg[m] EXCEPT !.age = IF leg[m].pc = "idle" THEN @
                                           ELSE Smaller(@ + 1, OpenCircuit)]
      BY <2>8 DEF Tick
    <3>3. /\ leg[m].pc # "idle" /\ leg'[m].key = leg[m].key
          /\ leg'[m].age = Smaller(leg[m].age + 1, OpenCircuit)
      BY <3>1, <3>2 DEF LegState
    <3>4. Class(m)' = Class(m)
      BY <3>3 DEF Class
    <3> DEFINE h == health[Class(m)]
    <3>5. h \in Health /\ health'[Class(m)] = Aged(h)
      BY <2>1, <2>8, <3>1 DEF Tick, Age
    <3>6. /\ Aged(h).state = "broken" /\ Aged(h).opened_at # None
          /\ Aged(h).opened_at < OpenCircuit
      BY <3>4, <3>5 DEF Open
    <3> HIDE DEF h
    <3>7. h.opened_at # None
      BY <3>5, <3>6 DEF Aged
    <3>8. h.opened_at \in 0..OpenCircuit
      BY <3>5, <3>7 DEF Health
    <3>9. Aged(h) = [h EXCEPT !.opened_at = Smaller(h.opened_at + 1, OpenCircuit)]
      BY <3>7 DEF Aged
    <3>10. /\ Aged(h).opened_at = Smaller(h.opened_at + 1, OpenCircuit)
           /\ Aged(h).state = h.state
      BY <3>5, <3>9 DEF Health
    <3>11. h.opened_at < OpenCircuit /\ Aged(h).opened_at = h.opened_at + 1
      BY <3>6, <3>8, <3>10, RouterAssumption DEF Smaller
    <3>12. Open(Class(m))
      BY <3>6, <3>7, <3>10, <3>11 DEF Open, h
    <3>13. leg[m].age >= h.opened_at
      BY <3>3, <3>12 DEF NoPlanWhileOpen, h
    <3> QED
      BY <3>1, <3>3, <3>4, <3>5, <3>8, <3>11, <3>13, RouterAssumption DEF LegState, Smaller
  <2>9. ASSUME NEW k \in Key, Forget(k)
        PROVE  NoPlanWhileOpen'
    BY <2>9 DEF Forget, NoPlanWhileOpen, Open, Class
  <2>10. CASE UNCHANGED vars
    BY <2>10 DEF vars, NoPlanWhileOpen, Open, Class
  <2> QED
    BY <2>2, <2>3, <2>4, <2>5, <2>6, <2>7, <2>8, <2>9, <2>10 DEF Next, Call, Answer
<1> QED
  BY <1>1, <1>2, FetchInvariant, PTL DEF Spec

=============================================================================
