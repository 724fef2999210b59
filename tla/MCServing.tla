------------------------------ MODULE MCServing ------------------------------
(***************************************************************************)
(* Three requests over any number of servers, with a log that rotates after *)
(* one entry.                                                              *)
(***************************************************************************)
EXTENDS Serving

=============================================================================
