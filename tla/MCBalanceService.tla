-------------------------- MODULE MCBalanceService --------------------------
(***************************************************************************)
(* Instances of BalanceService: two sessions working for one customer with *)
(* two assets.  Asset x has a balance row at the start and y has none, so  *)
(* that the inserts and their races happen.                                *)
(***************************************************************************)
EXTENDS BalanceService

CONSTANTS c1, x, y, pay, odd, s1, s2

MCOpening == [a \in {c1} \X {x, y} |-> IF a[2] = x THEN 2 ELSE 0]
MCSeeded == {<<c1, x>>}

MCPaymentCustomer == [r \in References |-> c1]

(* pay buys both assets; odd holds a product with an unknown strategy. *)
MCPaymentProducts ==
    [r \in References |->
        { [asset |-> x, amount |-> 1, strategy |-> "top_up"],
          [asset |-> y, amount |-> 1,
           strategy |-> IF r = pay THEN "monthly_quota" ELSE "unknown"] }]

=============================================================================
