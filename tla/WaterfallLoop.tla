---------------------------- MODULE WaterfallLoop ----------------------------
(***************************************************************************)
(* The loop of WaterfallEngine.evaluate, one step per rule, run on every   *)
(* input of RuleLists, Records and BalanceSheets.  Where Waterfall says    *)
(* which rule decides, this module says how the loop looks for it: it      *)
(* takes the rules in sorted order, keeps one flag, and stops early.       *)
(***************************************************************************)
EXTENDS Waterfall

CONSTANTS
    RuleLists,          \* the rule lists a repository may return
    Records,            \* the usage records
    BalanceSheets       \* subset of [Assets -> Int], 0 for no row

ASSUME RuleListsHavePriorities ==
    \A rules \in RuleLists :
        /\ Len(rules) \in Nat
        /\ \A i \in Positions(rules) : rules[i].priority \in Int

(* A rule's asset has a balance, and what it asks for is a number. *)
ASSUME RulesCanBePaid ==
    /\ BalanceSheets \subseteq [Assets -> Int]
    /\ \A rules \in RuleLists, record \in Records : \A i \in Positions(rules) :
          /\ rules[i].asset \in Assets
          /\ Raises(rules[i]) \/ CalculateCost(rules[i], record) \in Int

VARIABLES
    rules, record, balances,    \* the arguments of the call
    visited,                    \* positions the loop is done with
    saw_positive_cost,
    result                      \* Running, or the verdict returned or raised

vars == <<rules, record, balances, visited, saw_positive_cost, result>>
arguments == <<rules, record, balances>>

Running == [verdict |-> "running", rule |-> NoRule]

Init ==
    /\ rules \in RuleLists
    /\ record \in Records
    /\ balances \in BalanceSheets
    /\ visited = {}
    /\ saw_positive_cost = FALSE
    /\ result = Running

(* A mutant: sorting on the priority alone leaves ties in any order. *)
NextRuleIgnoringTies(i) ==
    /\ i \in Positions(rules) \ visited
    /\ \A j \in Positions(rules) \ visited : rules[i].priority <= rules[j].priority

(* The rule the for statement hands out next. *)
NextRule(i) ==
    /\ i \in Positions(rules) \ visited
    /\ \A j \in Positions(rules) \ visited : j # i => Precedes(rules, i, j)

RuleNotFound ==
    /\ result = Running
    /\ Len(rules) = 0
    /\ result' = Verdict("rule_not_found", NoRule)
    /\ UNCHANGED <<arguments, visited, saw_positive_cost>>

FilterMismatch(i) ==
    /\ ~MatchesFilter(rules[i], record)
    /\ visited' = visited \union {i}
    /\ UNCHANGED <<arguments, saw_positive_cost, result>>

UnknownMetric(i) ==
    /\ Faulty(rules, record, i)
    /\ result' = Verdict("unexpected", i)
    /\ UNCHANGED <<arguments, visited, saw_positive_cost>>

ZeroCost(i) ==
    /\ MatchesFilter(rules[i], record)
    /\ ~Raises(rules[i])
    /\ ~(CalculateCost(rules[i], record) > 0)
    /\ visited' = visited \union {i}
    /\ UNCHANGED <<arguments, saw_positive_cost, result>>

Matched(i) ==
    /\ Billable(rules, record, i)
    /\ balances[rules[i].asset] >= CalculateCost(rules[i], record)
    /\ saw_positive_cost' = TRUE
    /\ result' = Verdict("matched", i)
    /\ UNCHANGED <<arguments, visited>>

(* A mutant: the flag is set only when a rule can be paid. *)
InsufficientBalanceUnseen(i) ==
    /\ Billable(rules, record, i)
    /\ ~(balances[rules[i].asset] >= CalculateCost(rules[i], record))
    /\ visited' = visited \union {i}
    /\ UNCHANGED <<arguments, saw_positive_cost, result>>

InsufficientBalance(i) ==
    /\ Billable(rules, record, i)
    /\ ~(balances[rules[i].asset] >= CalculateCost(rules[i], record))
    /\ saw_positive_cost' = TRUE
    /\ visited' = visited \union {i}
    /\ UNCHANGED <<arguments, result>>

Iterate ==
    /\ result = Running
    /\ \E i \in Positions(rules) :
          /\ NextRule(i)
          /\ \/ FilterMismatch(i)
             \/ UnknownMetric(i)
             \/ ZeroCost(i)
             \/ Matched(i)
             \/ InsufficientBalance(i)

Exhausted ==
    /\ result = Running
    /\ Len(rules) # 0
    /\ Positions(rules) \subseteq visited
    /\ result' = Verdict(IF saw_positive_cost THEN "insufficient" ELSE "no_billable", NoRule)
    /\ UNCHANGED <<arguments, visited, saw_positive_cost>>

(* The call has returned or raised. *)
Returned == result # Running /\ UNCHANGED vars

Next == RuleNotFound \/ Iterate \/ Exhausted \/ Returned

Spec == Init /\ [][Next]_vars

-----------------------------------------------------------------------------

(***************************************************************************)
(* The loop returns what Evaluate says: the early exits, the sort and the  *)
(* flag together find the first rule that decides, and the exception       *)
(* raised at the end tells apart a record that costs nothing from one      *)
(* nobody can pay (waterfall.py lines 41 to 75).                           *)
(***************************************************************************)
LoopComputesEvaluate ==
    result # Running => result = Evaluate(rules, record, balances)

(***************************************************************************)
(* While it runs, the loop has dismissed an initial segment of the sorted  *)
(* rules, none of which decides, and the flag says whether one of them had *)
(* a positive cost.                                                        *)
(***************************************************************************)
LoopInvariant ==
    result = Running =>
        /\ visited \subseteq Positions(rules)
        /\ \A i \in visited : ~Decisive(rules, record, balances, i)
        /\ \A i \in visited, j \in Positions(rules) :
              Precedes(rules, j, i) => j \in visited
        /\ saw_positive_cost <=> \E i \in visited : Billable(rules, record, i)

(***************************************************************************)
(* Money never hurts: a record that is paid for under some balances is     *)
(* paid for, by the same rule or an earlier one, under larger balances     *)
(* (the ValueError of an unknown metric cannot creep in before it).        *)
(***************************************************************************)
MoreMoneyStillPays ==
    result.verdict = "matched" =>
        \A richer \in BalanceSheets :
            (\A a \in Assets : richer[a] >= balances[a]) =>
                LET again == Evaluate(rules, record, richer)
                IN  /\ again.verdict = "matched"
                    /\ ~Precedes(rules, result.rule, again.rule)
=============================================================================
