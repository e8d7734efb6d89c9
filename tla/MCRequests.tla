----------------------------- MODULE MCRequests -----------------------------
(***************************************************************************)
(* Instances of Requests: two customers, of which one can pay for a single *)
(* request, and two requests that may be of the same customer.             *)
(***************************************************************************)
EXTENDS Requests

CONSTANTS c1, c2, r1, r2

MCOpening == [c \in Customers |-> IF c = c1 THEN 1 ELSE 2]
=============================================================================
