------------------------------- MODULE Router -------------------------------
(***************************************************************************)
(* mmt/router.py: tier selection and circuit breaking.  One Health record  *)
(* is kept per endpoint class; `plan' reads it, `record' updates it.       *)
(*                                                                         *)
(* Time is kept as ages, not as instants: opened_at is the number of ticks *)
(* since the circuit opened, and it saturates at OpenCircuit because the   *)
(* code only asks whether the age is below OPEN_CIRCUIT_S.  In the same    *)
(* way consecutive_failures saturates at MaxFailures, a bound no smaller   *)
(* than DEMOTE_AFTER, the only number it is compared with.  The counters   *)
(* successes, failures and last_success_tier are reported by snapshot and  *)
(* never read by the router: they are left out.                            *)
(***************************************************************************)
EXTENDS Naturals

CONSTANTS EC,           \* the endpoint classes
          Preferred,    \* PREFERRED[ec][0], the tier a healthy class starts at
          Ceiling,      \* PREFERRED[ec][1], the tier it may escalate to
          ForceMin,     \* force_min_tier, 0 when the hook is not used
          OpenCircuit,  \* OPEN_CIRCUIT_S, in ticks
          DemoteAfter,  \* DEMOTE_AFTER
          MaxFailures,  \* where consecutive_failures saturates
          None          \* Python's None

Tier == 0..2            \* HTTP, REQUEST, PAGE

ASSUME RouterAssumption ==
    /\ Preferred \in [EC -> Tier]
    /\ Ceiling \in [EC -> Tier]
    /\ \A ec \in EC : Preferred[ec] <= Ceiling[ec]
    /\ ForceMin \in Tier
    /\ OpenCircuit \in Nat \ {0}
    /\ DemoteAfter \in Nat \ {0}
    /\ MaxFailures \in Nat /\ MaxFailures >= DemoteAfter
    /\ None \notin Nat

VARIABLE health         \* Router.health, one record per endpoint class

State == {"healthy", "degraded", "broken"}

Health == [state                : State,
           consecutive_failures : 0..MaxFailures,
           opened_at            : {None} \cup 0..OpenCircuit]

NewHealth == [state |-> "healthy", consecutive_failures |-> 0,
              opened_at |-> None]

RouterInit == health = [ec \in EC |-> NewHealth]

Larger(a, b) == IF a >= b THEN a ELSE b
Smaller(a, b) == IF a <= b THEN a ELSE b

Start(ec) == Larger(Preferred[ec], ForceMin)
Top(ec) == Larger(Ceiling[ec], ForceMin)

-----------------------------------------------------------------------------
(* Plan *)

\* The circuit is open: broken, and opened less than OPEN_CIRCUIT_S ago.
Open(ec) == /\ health[ec].state = "broken"
            /\ health[ec].opened_at # None
            /\ health[ec].opened_at < OpenCircuit

\* Mutant: a broken class keeps its escalation ladder while it is open.
PlanIgnoresCircuit(ec) ==
    IF health[ec].state = "healthy" THEN {Start(ec), Top(ec)} ELSE {Top(ec)}

\* Mutant: a healthy class is tried at its cheap tier only.
PlanWithoutCeiling(ec) ==
    IF Open(ec) THEN {}
    ELSE IF health[ec].state = "healthy" THEN {Start(ec)} ELSE {Top(ec)}

\* The tiers a call that starts now will try, lowest first: the code's sorted
\* list.  The empty set is the empty list, an open circuit.
Plan(ec) ==
    CASE health[ec].state = "healthy"  -> {Start(ec), Top(ec)}
      [] health[ec].state = "degraded" -> {Smaller(Start(ec) + 1, Top(ec)), Top(ec)}
      [] Open(ec)                      -> {}
      [] OTHER                         -> {Top(ec)}

-----------------------------------------------------------------------------
(* Record *)

\* Mutant: a success leaves opened_at behind.
SucceededKeepsOpenedAt(h) ==
    [h EXCEPT !.consecutive_failures = 0,
              !.state = IF h.state = "broken" THEN "degraded" ELSE "healthy"]

\* Mutant: a success never takes a demoted class back to the cheap tier.
SucceededStaysDegraded(h) ==
    [NewHealth EXCEPT !.state = IF h.state = "healthy" THEN "healthy" ELSE "degraded"]

Succeeded(h) ==
    [state                |-> IF h.state = "broken" THEN "degraded" ELSE "healthy",
     consecutive_failures |-> 0,
     opened_at            |-> None]

Failed(h) ==
    LET n == Smaller(h.consecutive_failures + 1, MaxFailures)
    IN  CASE h.state = "healthy" /\ n >= DemoteAfter ->
                 [h EXCEPT !.consecutive_failures = n, !.state = "degraded"]
          [] h.state = "degraded" ->
                 [h EXCEPT !.consecutive_failures = n, !.state = "broken",
                           !.opened_at = 0]
          [] OTHER -> [h EXCEPT !.consecutive_failures = n]

\* Router.record
Record(ec, ok) ==
    health' = [health EXCEPT ![ec] = IF ok THEN Succeeded(@) ELSE Failed(@)]

-----------------------------------------------------------------------------
(* Time *)

Aged(h) == IF h.opened_at = None THEN h
           ELSE [h EXCEPT !.opened_at = Smaller(@ + 1, OpenCircuit)]

Age == health' = [ec \in EC |-> Aged(health[ec])]

-----------------------------------------------------------------------------
(* The router on its own: callers may record any outcome for any class at  *)
(* any time, which is what concurrent legs that planned long ago do.       *)

RouterNext == \/ \E ec \in EC, ok \in BOOLEAN : Record(ec, ok)
              \/ Age

\* The router's own specification, which the fetch layer is shown to implement:
\* health changes only by one recorded outcome of one class, or by waiting; neither a
\* recovery of the browser, nor a cache hit, nor a circuit error touches it
\* (router.py:82-97, fetch.py:340-361).
RouterSpec == RouterInit /\ [][RouterNext]_health

-----------------------------------------------------------------------------
(* Properties *)

RouterTypeOK == health \in [EC -> Health]

\* The three fields of a Health record agree: only a broken class has a
\* circuit, every broken class has one, and a class still called healthy has
\* not yet collected DEMOTE_AFTER failures in a row (router.py:82-97).
HealthConsistent ==
    \A ec \in EC :
        /\ health[ec].state = "broken" <=> health[ec].opened_at # None
        /\ health[ec].state = "healthy" => health[ec].consecutive_failures < DemoteAfter

=============================================================================
