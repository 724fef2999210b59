------------------------------ MODULE MCSession ------------------------------
(***************************************************************************)
(* The browser session shared by the legs of a tool call: two legs that    *)
(* hold pages or slots, one that recovers, one that is mmt_setup_status.   *)
(***************************************************************************)
EXTENDS Session

CONSTANTS page1, page2, request1, request2, recover1, status1

MCRole == [l \in Leg |-> CASE l \in {page1, page2}       -> "page"
                           [] l \in {request1, request2} -> "request"
                           [] l = recover1               -> "recover"
                           [] OTHER                      -> "status"]

=============================================================================
