------------------------------- MODULE Rating -------------------------------
(***************************************************************************)
(* The rating engine of engine/rating.py: what one usage record costs      *)
(* under one billing rule, and whether the rule's filter accepts the       *)
(* record's metadata.                                                      *)
(*                                                                         *)
(* Amounts are integers counted in the smallest unit of an asset.  The     *)
(* code computes the cost exactly in Decimal, so the integers lose nothing *)
(* here; rounding happens later, in the Numeric(14, 4) columns.            *)
(*                                                                         *)
(* Metadata is JSON: a node is a mapping, [items |-> f] with f a function  *)
(* from keys to nodes, or a leaf, [leaf |-> v].  Absent is what get()      *)
(* returns for a missing key.                                              *)
(***************************************************************************)
EXTENDS Models, SequencesExt

Absent == [leaf |-> None]
IsMapping(node) == DOMAIN node = {"items"}
Get(node, key) == IF key \in DOMAIN node.items THEN node.items[key] ELSE Absent

(* `x or 0`, for an optional number. *)
OrZero(x) == IF x = None THEN 0 ELSE x

(* A mutant: the walk forgets that a scalar has no parts. *)
ResolveThroughScalars(data, path) ==
    LET Descend(node, part) == IF IsMapping(node) THEN Get(node, part) ELSE node
    IN  FoldLeft(Descend, data, path)

(***************************************************************************)
(* A dotted key is a path.  The walk stops at the first node that is not a *)
(* mapping; from there on every part resolves to None.                     *)
(***************************************************************************)
Resolve(data, path) ==
    LET Descend(node, part) == IF IsMapping(node) THEN Get(node, part) ELSE Absent
    IN  FoldLeft(Descend, data, path)

HasMetadata(record) == record.metadata # Absent /\ DOMAIN record.metadata.items # {}

(***************************************************************************)
(* A condition is a set of requirements [path, expected].  The empty       *)
(* condition accepts every record; any other rejects a record without      *)
(* metadata, even one whose requirements all expect None.                  *)
(***************************************************************************)
MatchesFilter(rule, record) ==
    \/ rule.condition = {}
    \/ /\ HasMetadata(record)
       /\ \A req \in rule.condition : Resolve(record.metadata, req.path) = req.expected

Quantity(record) == OrZero(record.quantity)

(* The metadata's duration wins over the column when it is not None. *)
Duration(record) ==
    LET inMetadata == Get(record.metadata, "duration_seconds")
    IN  IF HasMetadata(record) /\ inMetadata # Absent
        THEN inMetadata.leaf
        ELSE OrZero(record.duration)

(* An explicit units column wins over the sum of the two directions. *)
Units(record) ==
    IF record.units # None THEN record.units
    ELSE OrZero(record.input_units) + OrZero(record.output_units)

KnownMetrics == {"fixed", "quantity", "duration", "units"}

(* calculate_cost raises ValueError for a metric it does not know.  So does *)
(* float() for metadata that is no number (line 47), which takes the same   *)
(* way through evaluate and is left out.                                    *)
Raises(rule) == rule.metric \notin KnownMetrics

CalculateCost(rule, record) ==
    rule.rate * CASE rule.metric = "fixed"    -> 1
                  [] rule.metric = "quantity" -> Quantity(record)
                  [] rule.metric = "duration" -> Duration(record)
                  [] rule.metric = "units"    -> Units(record)
=============================================================================
