------------------------------ MODULE Waterfall ------------------------------
(***************************************************************************)
(* What engine/waterfall.py promises, stated without its loop: of the      *)
(* active rules, the first in (priority, position) order that settles the  *)
(* record decides; a record nobody settles is either not billable or not   *)
(* fundable.  WaterfallLoop is the loop, shown to compute this.            *)
(***************************************************************************)
EXTENDS Rating

(***************************************************************************)
(* sorted() is stable: equal priorities keep the order of the list that    *)
(* the repository returned.                                                *)
(***************************************************************************)
Precedes(rules, i, j) ==
    \/ rules[i].priority < rules[j].priority
    \/ rules[i].priority = rules[j].priority /\ i < j

Positions(rules) == 1..Len(rules)

(* Rules whose metric is unknown raise before they have a cost. *)
Faulty(rules, record, i) == MatchesFilter(rules[i], record) /\ Raises(rules[i])

Billable(rules, record, i) ==
    /\ MatchesFilter(rules[i], record)
    /\ ~Raises(rules[i])
    /\ CalculateCost(rules[i], record) > 0

Funded(rules, record, balances, i) ==
    /\ Billable(rules, record, i)
    /\ balances[rules[i].asset] >= CalculateCost(rules[i], record)

(* A rule ends the waterfall by paying for the record or by raising. *)
Decisive(rules, record, balances, i) ==
    Faulty(rules, record, i) \/ Funded(rules, record, balances, i)

(* A mutant: the rules are searched in the order of the list. *)
FirstDecisiveUnsorted(rules, record, balances, i) ==
    /\ i \in Positions(rules)
    /\ Decisive(rules, record, balances, i)
    /\ \A j \in 1..(i - 1) : ~Decisive(rules, record, balances, j)

FirstDecisive(rules, record, balances, i) ==
    /\ i \in Positions(rules)
    /\ Decisive(rules, record, balances, i)
    /\ \A j \in Positions(rules) :
          Precedes(rules, j, i) => ~Decisive(rules, record, balances, j)

Verdict(kind, i) == [verdict |-> kind, rule |-> i]
NoRule == 0

(***************************************************************************)
(* The verdicts: "matched" returns a WaterfallResult for a rule,           *)
(* "unexpected" is the ValueError of an unknown metric, and the others are *)
(* RuleNotFoundError, NoBillableUsageError and InsufficientFundsError.     *)
(***************************************************************************)
Evaluate(rules, record, balances) ==
    IF Len(rules) = 0 THEN Verdict("rule_not_found", NoRule)
    ELSE IF \E i \in Positions(rules) : FirstDecisive(rules, record, balances, i)
    THEN LET i == CHOOSE i \in Positions(rules) : FirstDecisive(rules, record, balances, i)
         IN  Verdict(IF Faulty(rules, record, i) THEN "unexpected" ELSE "matched", i)
    ELSE IF \E i \in Positions(rules) : Billable(rules, record, i)
    THEN Verdict("insufficient", NoRule)
    ELSE Verdict("no_billable", NoRule)
=============================================================================
