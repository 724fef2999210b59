------------------------------- MODULE MCFetch -------------------------------
(***************************************************************************)
(* Fetch on one endpoint class: hotel_api, a JSON POST class that goes     *)
(* from HTTP to PAGE, with one validated key; or train_page, a page class  *)
(* that goes from REQUEST to PAGE, with the key of a listing (t1), which   *)
(* is validated, and that of station_to_city (s1), which is not.           *)
(***************************************************************************)
EXTENDS Fetch, TLC

CONSTANTS hotel_api, train_page, h1, t1, s1

MCPreferred == [ec \in EC |-> IF ec = hotel_api THEN 0 ELSE 1]
MCCeiling == [ec \in EC |-> 2]
MCClassOf == [k \in Key |-> IF k = h1 THEN hotel_api ELSE train_page]
Symmetry == Permutations(Leg)

=============================================================================
