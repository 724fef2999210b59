------------------------------- MODULE MCCache -------------------------------
(***************************************************************************)
(* The cache with one JSON answer of no counted size, two pages that fit   *)
(* together and one page above the whole byte budget.                      *)
(***************************************************************************)
EXTENDS Cache

CONSTANTS json, page, big_page, huge_page

MCSizeOf == [v \in Value |-> CASE v = json     -> 0
                               [] v = page     -> 1
                               [] v = big_page -> 2
                               [] OTHER        -> 4]

=============================================================================
