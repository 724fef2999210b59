---------------------------- MODULE MCWatchServer ----------------------------
(***************************************************************************)
(* The supervisor with a handful of frames, crashes and edits.             *)
(***************************************************************************)
EXTENDS WatchServer

=============================================================================
