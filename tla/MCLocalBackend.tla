--------------------------- MODULE MCLocalBackend ---------------------------
(***************************************************************************)
(* Instances of LocalBackend: one customer with two assets, x for the      *)
(* first rule of the api and y for its fallback.                           *)
(***************************************************************************)
EXTENDS LocalBackend

CONSTANTS c1, x, y, w, h1, h2, pay

MCOpening == [a \in {c1} \X {x, y} |-> IF a[2] = x THEN 2 ELSE 0]

MCRule(priority, asset, metric, rate, refund) ==
    [priority |-> priority, asset |-> asset, metric |-> metric, rate |-> rate,
     condition |-> {}, refund |-> refund]

MCRulesFor ==
    [api |-> <<MCRule(1, x, "fixed", 2, None), MCRule(2, y, "fixed", 2, None)>>,
     undo |-> <<MCRule(1, y, "fixed", 1, "api")>>,
     broken |-> <<MCRule(1, x, "gpu_hours", 1, None)>>]

MCRecord(service, reference, created_at) ==
    [customer |-> c1, service |-> service, reference |-> reference, created_at |-> created_at,
     metadata |-> Absent, quantity |-> None, duration |-> None, units |-> None,
     input_units |-> None, output_units |-> None]

(* A call of each of two jobs, the refund of the first, and a record whose
   metric is unknown. *)
MCUsageData ==
    [api |-> MCRecord("api", "job", None),
     other |-> MCRecord("api", "other", 2),
     undo |-> MCRecord("undo", "job", 1),
     broken |-> MCRecord("broken", None, None)]

MCArrival(kinds, id) == {[usage |-> kind, id |-> id, status |-> "pending"] : kind \in kinds}

(* The first record stays in the queue, since it raises or has no id. *)
MCArrivals ==
    <<MCArrival({"broken"}, 1) \union MCArrival({"api"}, None),
      MCArrival({"api", "other"}, 2),
      MCArrival({"undo"}, 3)>>

MCHostCalls ==
    [h \in {h1, h2} |-> IF h = h1 THEN {"fund", "refresh"}
                       ELSE {"charge", "fund", "refund", "snapshot", "listing"}]

MCProduct(asset, amount, strategy) == [asset |-> asset, amount |-> amount, strategy |-> strategy]

(* The third product is misconfigured: its strategy raises. *)
MCPaymentProducts ==
    [reference \in {pay} |-> <<MCProduct(x, 1, "top_up"),
                               MCProduct(y, 2, "monthly_quota"),
                               MCProduct(x, 1, "unknown")>>]
MCPaymentCustomer == [reference \in {pay} |-> c1]

MCQueries ==
    {[customer |-> c1, service |-> None, from_date |-> None, limit |-> 1],
     [customer |-> c1, service |-> "api", from_date |-> 2, limit |-> 1]}
=============================================================================
