----------------------------- MODULE MCWaterfall -----------------------------
(***************************************************************************)
(* Inputs for the waterfall: two assets, lists of up to three rules, and   *)
(* records that reach every branch of the rating engine.                   *)
(***************************************************************************)
EXTENDS WaterfallLoop

MCAssets == {"x", "y"}

MCLeaf(v) == [leaf |-> v]
MCMap(f) == [items |-> f]

MCRule(priority, asset, metric, condition) ==
    [priority |-> priority, asset |-> asset, metric |-> metric, rate |-> 2,
     condition |-> condition]

(* Filters: none; a nested key; a key that must be missing; a path through a scalar. *)
MCConditions ==
    { {},
      {[path |-> <<"region", "zone">>, expected |-> MCLeaf(1)]},
      {[path |-> <<"absent">>, expected |-> Absent]},
      {[path |-> <<"duration_seconds", "zone">>, expected |-> Absent]} }

MCRules ==
    { MCRule(1, "x", "fixed", {}),
      MCRule(2, "y", "fixed", {}),
      MCRule(1, "y", "quantity", {}),
      MCRule(2, "x", "units", {}),
      MCRule(1, "x", "gpu_hours", {[path |-> <<"region", "zone">>, expected |-> MCLeaf(1)]}) }
    \union { MCRule(2, "y", "duration", c) : c \in MCConditions }

MCRuleLists == UNION { [1..n -> MCRules] : n \in 0..3 }

MCRecord(metadata, quantity, duration, units, input_units) ==
    [metadata |-> metadata, quantity |-> quantity, duration |-> duration,
     units |-> units, input_units |-> input_units, output_units |-> 1]

MCMetadata ==
    { Absent,
      MCMap([k \in {} |-> Absent]),
      MCMap([region |-> MCMap([zone |-> MCLeaf(1)]), duration_seconds |-> MCLeaf(0)]),
      MCMap([region |-> MCLeaf(2), duration_seconds |-> MCLeaf(2)]),
      MCMap([duration_seconds |-> Absent]) }

MCRecords ==
    { MCRecord(m, q, d, u[1], u[2]) :
        m \in MCMetadata, q \in {None, 1}, d \in {None, 1}, u \in {<<None, None>>, <<0, 2>>} }

MCBalanceSheets == { sheet \in [MCAssets -> {0, 2, 4}] : sheet["x"] < 4 /\ sheet["y"] # 2 }

(***************************************************************************)
(* A filter's dotted key finds a value exactly when every part but the     *)
(* last leads to a mapping (rating.py lines 67 to 73): the lookup, part by *)
(* part, against a definition by recursion on the path.                    *)
(***************************************************************************)
RECURSIVE Leads(_, _, _)
Leads(node, path, value) ==
    IF path = <<>> THEN node = value
    ELSE /\ IsMapping(node)
         /\ Head(path) \in DOMAIN node.items
         /\ Leads(node.items[Head(path)], Tail(path), value)

FilterFindsWhatItNames ==
    \A i \in Positions(rules), value \in {MCLeaf(0), MCLeaf(1), MCLeaf(2)} :
        \A req \in rules[i].condition :
            Resolve(record.metadata, req.path) = value <=> Leads(record.metadata, req.path, value)
=============================================================================
