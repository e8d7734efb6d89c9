---------------------------- MODULE MCUsageWorker ----------------------------
(***************************************************************************)
(* Instances of UsageWorker: one customer with two assets, x for the first *)
(* rule of a service and y for its fallback.                               *)
(***************************************************************************)
EXTENDS UsageWorker

CONSTANTS c1, x, y, w1, w2,
          XOpening, YOpening,   \* the balances at the start
          Kinds                 \* what kind of record each id is

MCOpening == [a \in {c1} \X {x, y} |-> IF a[2] = x THEN XOpening ELSE YOpening]

MCSeeded == {c1} \X {x, y}

MCRule(priority, asset, metric, rate, refund) ==
    [priority |-> priority, asset |-> asset, metric |-> metric, rate |-> rate,
     condition |-> {}, refund |-> refund]

(* No rule at all, a call, its refund, a free service, and an unknown metric.
   The refund has a first rule without a cost, which must be passed over. *)
MCRulesFor ==
    [unruled |-> <<>>,
     api |-> <<MCRule(1, x, "fixed", 2, None), MCRule(2, y, "fixed", 2, None)>>,
     undo |-> <<MCRule(1, x, "quantity", 1, "api"), MCRule(2, y, "fixed", 1, "api")>>,
     free |-> <<MCRule(1, x, "quantity", 1, None)>>,
     broken |-> <<MCRule(1, x, "gpu_hours", 1, None)>>]

MCRecord(service) ==
    [customer |-> c1, service |-> service, reference |-> "job", metadata |-> Absent,
     quantity |-> None, duration |-> None, units |-> None, input_units |-> None,
     output_units |-> None]

MCUsageRecords == [u \in UsageIds |-> MCRecord(Kinds[u])]

MCRefund == <<"api", "undo">>
MCRefunds == <<"api", "undo", "api", "undo">>
MCOutcomes == <<"broken", "api", "free", "api">>
=============================================================================
