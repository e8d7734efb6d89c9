---------------------------- MODULE MCRedisView ----------------------------
(***************************************************************************)
(* Instances of RedisView: a customer with two assets, of which y may have *)
(* no row, or neither has one.                                             *)
(***************************************************************************)
EXTENDS RedisView

CONSTANTS x, y, t1, t2

MCOpenings ==
    { [a \in Assets |-> 1],
      [a \in Assets |-> IF a = x THEN 2 ELSE None],
      [a \in Assets |-> None] }

MCDeltas == {-1, 1}
=============================================================================
