-------------------------- MODULE FlightSearchProofs --------------------------
(***************************************************************************)
(* A search that hears nothing is a block, and soon: proved for every      *)
(* timing that satisfies FlightAssumption and any number of responses.     *)
(* Neither property is inductive.  Silent says where the count stands in   *)
(* each half of a harvest that has read nothing: below the grace before    *)
(* the second visit of the funnel, at or above it afterwards, when the     *)
(* next verdict can only be a block.  Timely keeps the counters in range.  *)
(***************************************************************************)
EXTENDS FlightSearch, TLAPS

Looping == {"wait", "read", "judge"}

Timely ==
    /\ pc \in {"wait", "refunnel"} => stalled <= waited
    /\ pc = "wait" => waited < Deadline
    /\ pc \in {"read", "judge"} => waited <= Deadline /\ stalled < waited
    /\ pc = "refunnel" => best = 0 /\ waited = Grace /\ refunnelled
    /\ pc # "idle" => result = "none"
    /\ pc = "recover" => attempt = 1

Silent ==
    best = 0 =>
        /\ waited <= Grace + Refunnel + 1
        /\ pc = "wait" => waited <= Grace + Refunnel
        /\ pc = "wait" /\ ~refunnelled => waited < Grace
        /\ pc \in {"read", "judge"} /\ ~refunnelled => waited <= Grace
        /\ pc \in Looping /\ refunnelled => waited >= Grace

FlightInv == TypeOK /\ Timely /\ Silent /\ NoStreamIsNoEmptyRoute

-----------------------------------------------------------------------------
(* The verdict *)

\* Silence is never "done": it is a block from the grace on and goes on before it
\* (harvest.py:241-252).
LEMMA SilenceIsJudged ==
    ASSUME NEW n, best = 0, waited \in Nat
    PROVE  Verdict(n) = IF waited >= Grace THEN "blocked" ELSE "continue"
BY FlightAssumption DEF Verdict

\* Only silence is a block (harvest.py:241-252).
LEMMA BlockedIsSilence ==
    ASSUME NEW n, best \in Length, Verdict(n) = "blocked"
    PROVE  best = 0 /\ waited >= Grace
BY FlightAssumption DEF Verdict, Length

-----------------------------------------------------------------------------
(* The steps *)

\* The invariant holds at the start of the process.
LEMMA InitInv == Init => FlightInv
<1> SUFFICES ASSUME Init PROVE FlightInv
  OBVIOUS
<1> USE FlightAssumption
<1>1. TypeOK
  <2>1. waited \in Count /\ stalled \in Count
    BY DEF Init, Count
  <2>2. best \in Length 
    BY DEF Init, Length
  <2>3. body \in [Resp -> {None} \cup Length]
    BY DEF Init
  <2>4. done \in SUBSET Resp /\ todo \in SUBSET Resp /\ responses \in SUBSET Resp
    BY DEF Init
  <2> QED
    BY <2>1, <2>2, <2>3, <2>4 DEF Init, TypeOK
<1>2. Timely /\ Silent
  BY DEF Init, Timely, Silent, Looping
<1>3. NoStreamIsNoEmptyRoute
  BY DEF Init, NoStreamIsNoEmptyRoute
<1> QED
  BY <1>1, <1>2, <1>3 DEF FlightInv

\* A poll, answered, refused or failed (harvest.py:293-309).
LEMMA PollStep == ASSUME FlightInv, Poll PROVE FlightInv'
<1> USE FlightAssumption
<1>1. pc = "wait" /\ UNCHANGED <<attempt, responses, body, cached>>
  BY DEF Poll, page
<1>2. CASE /\ pc' \in {"judge", "read"}
           /\ waited' = waited + 1 /\ todo' = responses \ done /\ grew' = FALSE
           /\ UNCHANGED <<stalled, refunnelled, done, best, result>>
  <2>1. TypeOK'
    <3>1. waited' \in Count /\ stalled' \in Count
      BY <1>1, <1>2 DEF FlightInv, Timely, TypeOK, Count
    <3>2. todo' \in SUBSET Resp
      BY <1>1, <1>2 DEF FlightInv, TypeOK
    <3> QED
      BY <1>1, <1>2, <3>1, <3>2 DEF FlightInv, TypeOK, Length
  <2>2. Timely'
    BY <1>1, <1>2 DEF FlightInv, Timely, TypeOK, Count
  <2>3. Silent'
    BY <1>1, <1>2 DEF FlightInv, Timely, Silent, TypeOK, Count, Looping
  <2>4. NoStreamIsNoEmptyRoute'
    BY <1>1, <1>2 DEF FlightInv, NoStreamIsNoEmptyRoute
  <2> QED
    BY <2>1, <2>2, <2>3, <2>4 DEF FlightInv
<1>3. CASE (Refused \/ Ends("failed")) /\ UNCHANGED harvest
  BY <1>1, <1>3 DEF FlightInv, TypeOK, Timely, Silent, NoStreamIsNoEmptyRoute, Count,
                    Length, Looping, harvest, Refused, Ends
<1>4. \/ /\ pc' \in {"judge", "read"}
         /\ waited' = waited + 1 /\ todo' = responses \ done /\ grew' = FALSE
         /\ UNCHANGED <<stalled, refunnelled, done, best, result>>
      \/ (Refused \/ Ends("failed")) /\ UNCHANGED harvest
  BY Zenon DEF Poll
<1> QED
  BY <1>2, <1>3, <1>4

\* A body that is longer than the best one, or nothing (harvest.py:309-319).
LEMMA ReadStep == ASSUME FlightInv, NEW r \in Resp, Read(r) PROVE FlightInv'
<1> USE FlightAssumption
<1>1. best' \in Length /\ (best' = 0 => best = 0)
  BY DEF Read, FlightInv, TypeOK, Length
<1> QED
  BY <1>1 DEF Read, FlightInv, TypeOK, Timely, Silent, NoStreamIsNoEmptyRoute, Count,
              Length, Looping, page

\* The verdict of a poll: a loop that has read nothing neither ends on its deadline nor
\* on a stall (harvest.py:320-351).
LEMMA JudgeStep == ASSUME FlightInv, Judge PROVE FlightInv'
<1> DEFINE n == IF grew THEN 0 ELSE stalled + 1
           refunnels == Verdict(n) = "blocked" /\ ~refunnelled
<1> USE FlightAssumption
<1>1. /\ pc = "judge" /\ result = "none"
      /\ stalled' = (IF refunnels THEN 0 ELSE n)
      /\ refunnelled' = (refunnelled \/ refunnels)
      /\ UNCHANGED <<attempt, waited, done, best, todo, grew, page>>
  BY DEF Judge, FlightInv, Timely
<1>2. n \in Nat /\ n <= waited /\ waited \in Nat /\ waited <= Deadline /\ best \in Length
  BY <1>1 DEF FlightInv, TypeOK, Timely, Count
<1>3. /\ attempt' \in {1, 2} /\ waited' \in Count /\ stalled' \in Count
      /\ refunnelled' \in BOOLEAN /\ done' \in SUBSET Resp /\ todo' \in SUBSET Resp
      /\ best' \in Length /\ grew' \in BOOLEAN /\ responses' \in SUBSET Resp
      /\ body' \in [Resp -> {None} \cup Length]
  BY <1>1, <1>2 DEF FlightInv, TypeOK, Count, page
<1>4. CASE refunnels /\ pc' = "refunnel" /\ UNCHANGED <<cached, result>>
  <2>1. best = 0 /\ waited = Grace
    BY <1>1, <1>2, <1>4, BlockedIsSilence DEF FlightInv, Silent
  <2>2. pc' = "refunnel" /\ refunnelled' /\ stalled' = 0 /\ UNCHANGED <<cached, result>>
    BY <1>1, <1>4
  <2>3. TypeOK'
    BY <1>3, <2>2 DEF FlightInv, TypeOK
  <2>4. Timely' /\ Silent' /\ NoStreamIsNoEmptyRoute'
    BY <1>1, <1>2, <2>1, <2>2
       DEF FlightInv, Timely, Silent, NoStreamIsNoEmptyRoute, Looping
  <2> QED
    BY <2>3, <2>4 DEF FlightInv
<1>5. CASE Verdict(n) = "blocked" /\ refunnelled /\ Refused /\ UNCHANGED cached
  BY <1>1, <1>2, <1>3, <1>5
     DEF FlightInv, TypeOK, Timely, Silent, NoStreamIsNoEmptyRoute, Looping, Refused, Ends
<1>6. CASE /\ Verdict(n) = "continue" /\ waited < Deadline
           /\ pc' = "wait" /\ UNCHANGED <<cached, result>>
  <2>1. best = 0 => waited < Grace /\ ~refunnelled
    BY <1>1, <1>2, <1>6, SilenceIsJudged DEF FlightInv, Silent, Looping
  <2> QED
    BY <1>1, <1>2, <1>3, <1>6, <2>1
       DEF FlightInv, TypeOK, Timely, Silent, NoStreamIsNoEmptyRoute, Looping
<1>7. CASE /\ Verdict(n) = "done" \/ (Verdict(n) = "continue" /\ waited >= Deadline)
           /\ Returns
  <2>1. best > 0
    <3>1. SUFFICES ASSUME best = 0 PROVE FALSE
      BY <1>2 DEF Length
    <3>2. waited < Grace /\ Verdict(n) = "continue"
      BY <1>2, <1>7, <3>1, SilenceIsJudged
    <3> QED
      BY <1>2, <1>7, <3>2
  <2>2. PICK what \in {"answer", "empty"} :
          Ends(what) /\ cached' = (cached \/ what = "answer")
    BY <1>7 DEF Returns
  <2>3. cached' \in BOOLEAN
    BY <2>2
  <2> QED
    BY <1>1, <1>2, <1>3, <2>1, <2>2, <2>3
       DEF FlightInv, TypeOK, Timely, Silent, NoStreamIsNoEmptyRoute, Looping, Ends
<1> QED
  BY <1>4, <1>5, <1>6, <1>7 DEF Judge

\* The second visit of the funnel: a silent harvest has time left for one more poll,
\* because the grace and the visit together are below the deadline (harvest.py:333-342).
LEMMA RefunnelledStep == ASSUME FlightInv, Refunnelled PROVE FlightInv'
<1> USE FlightAssumption
<1>1. /\ pc = "refunnel" /\ best = 0 /\ waited = Grace /\ stalled <= waited
      /\ waited \in Nat /\ stalled \in Nat /\ refunnelled
      /\ UNCHANGED <<attempt, responses, body>>
  BY DEF Refunnelled, FlightInv, TypeOK, Timely, Silent, Count, page
<1>2. CASE /\ waited' = waited + Refunnel
           /\ UNCHANGED <<stalled, refunnelled, done, best, todo, grew>>
           /\ IF waited' < Deadline THEN pc' = "wait" /\ UNCHANGED <<cached, result>>
              ELSE Returns
  <2>1. waited' < Deadline /\ waited' \in Count /\ waited' >= stalled'
    BY <1>1, <1>2 DEF Count
  <2>2. pc' = "wait" /\ UNCHANGED <<cached, result>>
    BY <1>2, <2>1
  <2>3. TypeOK'
    BY <1>1, <1>2, <2>1, <2>2 DEF FlightInv, TypeOK, Length
  <2>4. Timely'
    BY <1>1, <1>2, <2>1, <2>2 DEF FlightInv, Timely
  <2>5. Silent'
    BY <1>1, <1>2, <2>2 DEF Silent, Looping
  <2>6. NoStreamIsNoEmptyRoute'
    BY <1>2, <2>2 DEF FlightInv, NoStreamIsNoEmptyRoute
  <2> QED
    BY <2>3, <2>4, <2>5, <2>6 DEF FlightInv
<1>3. CASE Ends("failed") /\ UNCHANGED <<harvest, cached>>
  BY <1>1, <1>3 DEF FlightInv, TypeOK, Timely, Silent, NoStreamIsNoEmptyRoute, Count,
                    Length, Looping, harvest, Ends
<1> QED
  BY <1>1, <1>2, <1>3 DEF Refunnelled

\* A call of the search touches nothing of the harvest before (flights.py:259-274).
LEMMA SearchStep == ASSUME FlightInv, NEW fresh \in BOOLEAN, Search(fresh) PROVE FlightInv'
<1> USE FlightAssumption
<1>1. /\ pc = "idle" /\ pc' \in {"idle", "funnel"} /\ attempt' = 1
      /\ result' \in {"cached", "none"} /\ (pc' # "idle" => result' = "none")
      /\ UNCHANGED <<waited, stalled, refunnelled, done, best, todo, grew>>
      /\ UNCHANGED <<responses, body, cached>>
  BY DEF Search, Ends, harvest, page
<1> QED
  BY <1>1 DEF FlightInv, TypeOK, Timely, Silent, NoStreamIsNoEmptyRoute, Count, Length,
              Looping

\* The recovery between the two harvests (flights.py:275-280).
LEMMA RecoverStep == ASSUME FlightInv, Recover PROVE FlightInv'
<1> USE FlightAssumption
<1>1. /\ pc = "recover" /\ UNCHANGED <<responses, body, cached>>
      /\ UNCHANGED <<waited, stalled, refunnelled, done, best, todo, grew>>
  BY DEF Recover, harvest, page
<1>2. attempt = 1
  BY <1>1 DEF FlightInv, Timely
<1>3. \/ pc' = "funnel" /\ attempt' = 2 /\ result' = result
      \/ pc' = "idle" /\ result' = "failed" /\ attempt' = attempt
  BY <1>2 DEF Recover, Ends
<1> QED
  BY <1>1, <1>2, <1>3 DEF FlightInv, TypeOK, Timely, Silent, NoStreamIsNoEmptyRoute,
                          Count, Length, Looping

\* A harvest starts with nothing read and no time passed (harvest.py:255-292).
LEMMA FunnelStep == ASSUME FlightInv, Funnel PROVE FlightInv'
<1> USE FlightAssumption
<1>1. pc = "funnel" /\ attempt' = attempt /\ cached' = cached
  BY DEF Funnel
<1>2. CASE /\ pc' = "wait"
           /\ waited' = 0 /\ stalled' = 0 /\ refunnelled' = FALSE /\ done' = {}
           /\ best' = 0 /\ todo' = {} /\ grew' = FALSE
           /\ responses' = {} /\ body' = [r \in Resp |-> None]
           /\ UNCHANGED result
  <2>1. /\ waited' \in Count /\ stalled' \in Count /\ best' \in Length
        /\ body' \in [Resp -> {None} \cup Length]
    BY <1>2 DEF Count, Length
  <2>2. TypeOK'
    BY <1>1, <1>2, <2>1 DEF FlightInv, TypeOK
  <2>3. Timely' /\ Silent' /\ NoStreamIsNoEmptyRoute'
    BY <1>1, <1>2 DEF FlightInv, Timely, Silent, NoStreamIsNoEmptyRoute, Looping
  <2> QED
    BY <2>2, <2>3 DEF FlightInv
<1>3. CASE Ends("failed") /\ UNCHANGED <<harvest, page>>
  BY <1>1, <1>3 DEF FlightInv, TypeOK, Timely, Silent, NoStreamIsNoEmptyRoute, Count,
                    Length, Looping, harvest, page, Ends
<1> QED
  BY <1>1, <1>2, <1>3 DEF Funnel

\* The page and the cache, while the search is suspended, touch only what the harvest
\* has still to read and what a later search returns.
LEMMA EnvironmentStep ==
    ASSUME FlightInv, (\E r \in Resp : Opens(r) \/ Closes(r)) \/ Forget \/ UNCHANGED vars
    PROVE  FlightInv'
<1>1. UNCHANGED <<pc, attempt, waited, stalled, refunnelled, done, best, todo, grew, result>>
  BY DEF Opens, Closes, Forget, vars, harvest
<1>2. responses' \in SUBSET Resp /\ cached' \in BOOLEAN
  BY DEF Opens, Closes, Forget, vars, page, FlightInv, TypeOK
<1>3. body' \in [Resp -> {None} \cup Length]
  BY DEF Opens, Closes, Forget, vars, page, FlightInv, TypeOK
<1>4. TypeOK'
  BY <1>1, <1>2, <1>3 DEF FlightInv, TypeOK, Count, Length
<1> QED
  BY <1>1, <1>4 DEF FlightInv, Timely, Silent, NoStreamIsNoEmptyRoute, Looping

-----------------------------------------------------------------------------
(* The theorems *)

\* The invariant holds in every state of every search: its types, the two clocks, the
\* count of a silent harvest, and what "no itineraries" means.
THEOREM FlightInvariant == Spec => []FlightInv
<1>1. FlightInv /\ [Next]_vars => FlightInv'
  <2> SUFFICES ASSUME FlightInv, [Next]_vars PROVE FlightInv'
    OBVIOUS
  <2>1. CASE \E fresh \in BOOLEAN : Search(fresh)
    BY <2>1, SearchStep
  <2>2. CASE Work
    BY <2>2, RecoverStep, FunnelStep, PollStep, ReadStep, JudgeStep, RefunnelledStep
       DEF Work
  <2>3. CASE (\E r \in Resp : Opens(r) \/ Closes(r)) \/ Forget \/ UNCHANGED vars
    BY <2>3, EnvironmentStep
  <2> QED
    BY <2>1, <2>2, <2>3 DEF Next
<1> QED
  BY <1>1, InitInv, PTL DEF Spec

\* "No itineraries" is never the answer of a search that read nothing, whatever the
\* deadline, the grace and the time of a second visit (harvest.py:229-235, 288-344).
THEOREM SilenceIsABlock == Spec => []NoStreamIsNoEmptyRoute
<1>1. FlightInv => NoStreamIsNoEmptyRoute
  BY DEF FlightInv
<1> QED
  BY <1>1, FlightInvariant, PTL

\* A search that has read nothing is past the grace by one visit of the funnel and one
\* poll at most, in each of its harvests (harvest.py:229-237).
THEOREM SilenceEndsSoon == Spec => []SilenceIsShort
<1>1. FlightInv => SilenceIsShort
  BY DEF FlightInv, Silent, SilenceIsShort
<1> QED
  BY <1>1, FlightInvariant, PTL

=============================================================================
