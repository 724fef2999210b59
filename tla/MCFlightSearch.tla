--------------------------- MODULE MCFlightSearch ---------------------------
(***************************************************************************)
(* A flight search with the code's own timing, in polls of 2.5 s, and two  *)
(* responses.                                                              *)
(***************************************************************************)
EXTENDS FlightSearch

=============================================================================
