--------------------------- MODULE WaterfallProofs ---------------------------
(***************************************************************************)
(* The loop of WaterfallEngine.evaluate returns what Waterfall!Evaluate    *)
(* says, for every list of rules, every record and every balance sheet.    *)
(***************************************************************************)
EXTENDS WaterfallLoop, FiniteSetTheorems, WellFoundedInduction, TLAPS

(***************************************************************************)
(* The sorted order of the rules is a strict total order on positions, so  *)
(* at most one rule is the first that decides.                             *)
(***************************************************************************)
LEMMA FirstDecisiveIsUnique ==
    ASSUME NEW L, NEW r, NEW b, NEW i, NEW j,
           Len(L) \in Nat, \A k \in Positions(L) : L[k].priority \in Int,
           FirstDecisive(L, r, b, i), FirstDecisive(L, r, b, j)
    PROVE  i = j
<1>1. i \in 1..Len(L) /\ j \in 1..Len(L)
  BY DEF FirstDecisive, Positions
<1>2. ~Precedes(L, i, j) /\ ~Precedes(L, j, i)
  BY DEF FirstDecisive
<1>3. L[i].priority \in Int /\ L[j].priority \in Int
  BY <1>1 DEF Positions
<1> QED
  BY <1>1, <1>2, <1>3 DEF Precedes

(* A rule the loop has singled out as first is the one Evaluate chooses. *)
LEMMA EvaluateFindsFirst ==
    ASSUME NEW L, NEW r, NEW b, NEW i,
           Len(L) \in Nat, \A k \in Positions(L) : L[k].priority \in Int,
           FirstDecisive(L, r, b, i)
    PROVE  Evaluate(L, r, b) = Verdict(IF Faulty(L, r, i) THEN "unexpected" ELSE "matched", i)
<1>1. i \in Positions(L)
  BY DEF FirstDecisive
<1>2. Len(L) # 0
  BY <1>1 DEF Positions
<1> DEFINE c == CHOOSE k \in Positions(L) : FirstDecisive(L, r, b, k)
<1>3. c \in Positions(L) /\ FirstDecisive(L, r, b, c)
  BY <1>1, Zenon
<1>4. c = i
  BY <1>3, FirstDecisiveIsUnique
<1>5. \E k \in Positions(L) : FirstDecisive(L, r, b, k)
  BY <1>1, Zenon
<1> HIDE DEF c
<1> QED
  BY <1>2, <1>4, <1>5, Zenon DEF Evaluate, c

-----------------------------------------------------------------------------

(* The arguments do not change, and the rules keep their priorities. *)
ArgumentsInv ==
    /\ Len(rules) \in Nat
    /\ \A i \in Positions(rules) : rules[i].priority \in Int

IInv == ArgumentsInv /\ LoopInvariant /\ LoopComputesEvaluate

(* While the loop runs, the rule it takes next is decisive only as the first. *)
LEMMA NextRuleIsFirst ==
    ASSUME IInv, result = Running, NEW i, NextRule(i), Decisive(rules, record, balances, i)
    PROVE  FirstDecisive(rules, record, balances, i)
<1>1. i \in Positions(rules) \ visited
  BY DEF NextRule
<1>2. ASSUME NEW j \in Positions(rules), Precedes(rules, j, i)
      PROVE  ~Decisive(rules, record, balances, j)
  <2>1. j \in 1..Len(rules) /\ i \in 1..Len(rules) /\ Len(rules) \in Nat
    BY <1>1 DEF Positions, IInv, ArgumentsInv
  <2>2. rules[i].priority \in Int /\ rules[j].priority \in Int
    BY <1>1 DEF IInv, ArgumentsInv
  <2>3. j # i /\ ~Precedes(rules, i, j)
    BY <1>2, <2>1, <2>2 DEF Precedes
  <2>4. j \in visited
    BY <2>3 DEF NextRule
  <2> QED
    BY <2>4 DEF IInv, LoopInvariant
<1> QED
  BY <1>1, <1>2 DEF FirstDecisive

(* Dismissing the next rule keeps the dismissed rules an initial segment. *)
LEMMA DismissKeepsSegment ==
    ASSUME IInv, result = Running, NEW i, NextRule(i)
    PROVE  \A k \in visited \union {i}, j \in Positions(rules) :
              Precedes(rules, j, k) => j \in visited \union {i}
<1> SUFFICES ASSUME NEW k \in visited \union {i}, NEW j \in Positions(rules),
                    Precedes(rules, j, k), j # i
             PROVE  j \in visited
  OBVIOUS
<1>1. CASE k \in visited
  BY <1>1 DEF IInv, LoopInvariant
<1>2. CASE k = i
  <2>1. j \in 1..Len(rules) /\ i \in 1..Len(rules) /\ Len(rules) \in Nat
    BY DEF Positions, IInv, ArgumentsInv, NextRule
  <2>2. rules[i].priority \in Int /\ rules[j].priority \in Int
    BY DEF IInv, ArgumentsInv, NextRule
  <2>3. ~Precedes(rules, i, j)
    BY <1>2, <2>1, <2>2 DEF Precedes
  <2> QED
    BY <2>3 DEF NextRule
<1> QED
  BY <1>1, <1>2

(* Running is not one of the verdicts. *)
LEMMA VerdictsAreFinal ==
    \A i : \A v \in {"rule_not_found", "unexpected", "matched", "insufficient", "no_billable"} :
        Verdict(v, i) # Running
BY DEF Verdict, Running
-----------------------------------------------------------------------------

(***************************************************************************)
(* The loop invariant and the final result are preserved by every branch   *)
(* of the loop body.                                                       *)
(***************************************************************************)
LEMMA IterateKeepsInvariant == IInv /\ Iterate => IInv'
<1> SUFFICES ASSUME IInv, result = Running,
                    NEW i \in Positions(rules), NextRule(i),
                    \/ FilterMismatch(i) \/ UnknownMetric(i) \/ ZeroCost(i)
                    \/ Matched(i) \/ InsufficientBalance(i)
             PROVE  IInv'
  BY DEF Iterate
<1> USE DEF arguments
<1>1. UNCHANGED <<rules, record, balances>>
  BY DEF FilterMismatch, UnknownMetric, ZeroCost, Matched, InsufficientBalance
<1>2. ArgumentsInv'
  BY <1>1 DEF IInv, ArgumentsInv, Positions
<1>3. CASE result' = Running /\ visited' = visited \union {i}
            /\ ~Decisive(rules, record, balances, i)
            /\ (saw_positive_cost' <=> saw_positive_cost \/ Billable(rules, record, i))
  <2>1. visited' \subseteq Positions(rules)'
    BY <1>1, <1>3 DEF IInv, LoopInvariant, Positions
  <2>2. \A k \in visited' : ~Decisive(rules, record, balances, k)
    BY <1>3 DEF IInv, LoopInvariant
  <2>3. \A k \in visited', j \in Positions(rules) : Precedes(rules, j, k) => j \in visited'
    BY <1>3, DismissKeepsSegment
  <2>4. saw_positive_cost' <=> \E k \in visited' : Billable(rules, record, k)
    BY <1>3 DEF IInv, LoopInvariant
  <2>5. LoopInvariant'
    BY <1>1, <2>1, <2>2, <2>3, <2>4 DEF LoopInvariant
  <2>6. LoopComputesEvaluate'
    BY <1>3 DEF LoopComputesEvaluate
  <2> QED
    BY <1>2, <2>5, <2>6 DEF IInv
<1>4. CASE Decisive(rules, record, balances, i)
            /\ result' = Verdict(IF Faulty(rules, record, i) THEN "unexpected" ELSE "matched", i)
  <2>1. FirstDecisive(rules, record, balances, i)
    BY <1>4, NextRuleIsFirst
  <2>2. result' = Evaluate(rules, record, balances)
    BY <1>4, <2>1, EvaluateFindsFirst DEF IInv, ArgumentsInv
  <2>3. result' # Running
    BY <1>4, VerdictsAreFinal
  <2> QED
    BY <1>1, <1>2, <2>2, <2>3 DEF IInv, LoopInvariant, LoopComputesEvaluate
<1>5. CASE FilterMismatch(i)
  BY <1>3, <1>5 DEF FilterMismatch, Decisive, Faulty, Funded, Billable, IInv, LoopInvariant
<1>6. CASE ZeroCost(i)
  BY <1>3, <1>6 DEF ZeroCost, Decisive, Faulty, Funded, Billable, IInv, LoopInvariant
<1>7. CASE InsufficientBalance(i)
  BY <1>3, <1>7 DEF InsufficientBalance, Decisive, Faulty, Funded, Billable
<1>8. CASE UnknownMetric(i)
  BY <1>4, <1>8 DEF UnknownMetric, Decisive
<1>9. CASE Matched(i)
  BY <1>4, <1>9 DEF Matched, Decisive, Funded, Faulty, Billable
<1> QED
  BY <1>5, <1>6, <1>7, <1>8, <1>9

(* Running off the end of the list means that no rule decides. *)
LEMMA ExhaustedKeepsInvariant == IInv /\ Exhausted => IInv'
<1> SUFFICES ASSUME IInv, Exhausted PROVE IInv'
  OBVIOUS
<1> USE DEF Exhausted, arguments
<1>1. ArgumentsInv'
  BY DEF IInv, ArgumentsInv, Positions
<1>2. \A i \in Positions(rules) : ~FirstDecisive(rules, record, balances, i)
  BY DEF IInv, LoopInvariant, FirstDecisive
<1>3. saw_positive_cost <=> \E i \in Positions(rules) : Billable(rules, record, i)
  BY DEF IInv, LoopInvariant
<1>4. result' = Evaluate(rules, record, balances)
  BY <1>2, <1>3, Zenon DEF Evaluate
<1>5. result' # Running
  BY VerdictsAreFinal
<1> QED
  BY <1>1, <1>4, <1>5 DEF IInv, LoopInvariant, LoopComputesEvaluate

(***************************************************************************)
(* WaterfallEngine.evaluate (waterfall.py lines 29 to 75) computes         *)
(* Evaluate, and its loop invariant holds, for all rules and balances.     *)
(***************************************************************************)
THEOREM LoopIsCorrect == Spec => [](LoopInvariant /\ LoopComputesEvaluate)
<1>1. Init => IInv
  BY RuleListsHavePriorities
     DEF Init, IInv, ArgumentsInv, LoopInvariant, LoopComputesEvaluate, Running
<1>2. IInv /\ [Next]_vars => IInv'
  <2> SUFFICES ASSUME IInv, [Next]_vars PROVE IInv'
    OBVIOUS
  <2>1. CASE RuleNotFound
    <3>1. result' = Evaluate(rules, record, balances) /\ result' # Running
      BY <2>1, VerdictsAreFinal DEF RuleNotFound, Evaluate
    <3> QED
      BY <2>1, <3>1 DEF RuleNotFound, arguments, IInv, ArgumentsInv, Positions,
                        LoopInvariant, LoopComputesEvaluate
  <2>2. CASE Iterate
    BY <2>2, IterateKeepsInvariant
  <2>3. CASE Exhausted
    BY <2>3, ExhaustedKeepsInvariant
  <2>4. CASE UNCHANGED vars
    BY <2>4 DEF vars, IInv, ArgumentsInv, Positions, LoopInvariant, LoopComputesEvaluate
  <2> QED
    BY <2>1, <2>2, <2>3, <2>4 DEF Next, Returned
<1>3. IInv => LoopInvariant /\ LoopComputesEvaluate
  BY DEF IInv
<1> QED
  BY <1>1, <1>2, <1>3, PTL DEF Spec

-----------------------------------------------------------------------------

LEMMA LeastNatural ==
    ASSUME NEW T \in SUBSET Nat, T # {}
    PROVE  \E n \in T : \A m \in T : n <= m
<1> DEFINE R == {ss \in Nat \X Nat : ss[1] < ss[2]}
<1>1. IsWellFoundedOn(R, Nat)
  BY NatLessThanWellFounded DEF OpToRel
<1>2. \A m, n \in Nat : m < n => <<m, n>> \in R
  OBVIOUS
<1> HIDE DEF R
<1>3. T \subseteq Nat
  OBVIOUS
<1>4. \E n \in T : \A m \in T : ~ (<<m, n>> \in R)
  BY <1>1, <1>3, WFMin, Zenon
<1>5. PICK n \in T : \A m \in T : ~ (<<m, n>> \in R)
  BY <1>4, Zenon
<1>6. \A m \in T : m \in Nat /\ n \in Nat /\ ~(m < n)
  BY <1>2, <1>3, <1>5
<1>7. \A m \in T : n <= m
  BY <1>6
<1> QED
  BY <1>5, <1>7

(* How many rules come before the rule i. *)
Before(L, i) == {k \in Positions(L) : Precedes(L, k, i)}
Rank(L, i) == Cardinality(Before(L, i))

(* A rule that precedes another one has a lower rank. *)
LEMMA PrecedesHasLowerRank ==
    ASSUME NEW L, NEW i \in Positions(L), NEW j \in Positions(L),
           Len(L) \in Nat, \A k \in Positions(L) : L[k].priority \in Int
    PROVE  Rank(L, i) \in Nat /\ (Precedes(L, j, i) => Rank(L, j) < Rank(L, i))
<1>1. \A k \in Positions(L) : k \in Int
  BY DEF Positions
<1>2. IsFiniteSet(Positions(L))
  BY FS_Interval DEF Positions
<1>3. \A k \in Positions(L) : IsFiniteSet(Before(L, k)) /\ Rank(L, k) \in Nat
  BY <1>2, FS_Subset, FS_CardinalityType DEF Before, Rank
<1>4. ASSUME Precedes(L, j, i) PROVE Rank(L, j) < Rank(L, i)
  <2>1. Before(L, j) \subseteq Before(L, i)
    <3> SUFFICES ASSUME NEW k \in Positions(L), Precedes(L, k, j) PROVE Precedes(L, k, i)
      BY DEF Before
    <3>1. L[i].priority \in Int /\ L[j].priority \in Int /\ L[k].priority \in Int
      OBVIOUS
    <3> QED
      BY <1>1, <1>4, <3>1 DEF Precedes
  <2>2. j \in Before(L, i)
    BY <1>4 DEF Before
  <2>3. j \notin Before(L, j)
    BY <1>1 DEF Before, Precedes
  <2>4. Rank(L, j) <= Rank(L, i) /\ Rank(L, j) # Rank(L, i)
    BY <1>3, <2>1, <2>2, <2>3, FS_Subset DEF Rank
  <2> QED
    BY <1>3, <2>4
<1> QED
  BY <1>3, <1>4

(* If some rule decides, one of them is the first in sorted order. *)
LEMMA FirstDecisiveExists ==
    ASSUME NEW L, NEW r, NEW b, NEW i \in Positions(L), Decisive(L, r, b, i),
           Len(L) \in Nat, \A k \in Positions(L) : L[k].priority \in Int
    PROVE  \E j \in Positions(L) : FirstDecisive(L, r, b, j)
<1> DEFINE deciding == {k \in Positions(L) : Decisive(L, r, b, k)}
           ranks == {Rank(L, k) : k \in deciding}
<1>1. ranks \in SUBSET Nat /\ ranks # {}
  BY PrecedesHasLowerRank
<1>2. PICK n \in ranks : \A m \in ranks : n <= m
  BY <1>1, LeastNatural
<1>3. PICK j \in deciding : n = Rank(L, j)
  OBVIOUS
<1>4. ASSUME NEW k \in Positions(L), Precedes(L, k, j) PROVE ~Decisive(L, r, b, k)
  <2>1. Rank(L, k) \in Nat /\ Rank(L, j) \in Nat /\ Rank(L, k) < Rank(L, j)
    BY <1>3, <1>4, PrecedesHasLowerRank
  <2>2. CASE Decisive(L, r, b, k)
    <3>1. Rank(L, k) \in ranks
      BY <2>2
    <3>2. Rank(L, j) <= Rank(L, k)
      BY <1>2, <1>3, <3>1
    <3> QED
      BY <2>1, <3>2
  <2> QED
    BY <2>2
<1> QED
  BY <1>3, <1>4 DEF FirstDecisive

(* What a "matched" verdict of Evaluate says, and when it is given. *)
LEMMA MatchedIsFirstFunded ==
    ASSUME NEW L, NEW r, NEW b, Evaluate(L, r, b).verdict = "matched"
    PROVE  /\ FirstDecisive(L, r, b, Evaluate(L, r, b).rule)
           /\ Funded(L, r, b, Evaluate(L, r, b).rule)
<1> DEFINE c == CHOOSE k \in Positions(L) : FirstDecisive(L, r, b, k)
<1>1. \E k \in Positions(L) : FirstDecisive(L, r, b, k)
  BY DEF Evaluate, Verdict
<1>2. c \in Positions(L) /\ FirstDecisive(L, r, b, c)
  BY <1>1, Zenon
<1>3. Len(L) # 0
  BY DEF Evaluate, Verdict
<1>4. Evaluate(L, r, b) = Verdict(IF Faulty(L, r, c) THEN "unexpected" ELSE "matched", c)
  BY <1>1, <1>3, Zenon DEF Evaluate
<1> HIDE DEF c
<1>5. Evaluate(L, r, b).rule = c /\ ~Faulty(L, r, c)
  BY <1>4 DEF Verdict
<1> QED
  BY <1>2, <1>5 DEF FirstDecisive, Decisive

(* A rule that can be paid stays payable when every balance is at least as large. *)
LEMMA RicherFunds ==
    ASSUME NEW L \in RuleLists, NEW r \in Records, NEW b \in BalanceSheets,
           NEW richer \in BalanceSheets, \A a \in Assets : richer[a] >= b[a],
           NEW i \in Positions(L), Funded(L, r, b, i)
    PROVE  Funded(L, r, richer, i)
<1> DEFINE cost == CalculateCost(L[i], r)
<1>1. L[i].asset \in Assets /\ cost \in Int
  BY RulesCanBePaid DEF Funded, Billable
<1>2. b \in [Assets -> Int] /\ richer \in [Assets -> Int]
  BY RulesCanBePaid
<1>3. b[L[i].asset] >= cost
  BY DEF Funded
<1> HIDE DEF cost
<1>4. richer[L[i].asset] >= cost
  <2>1. PICK m, n \in Int : m = b[L[i].asset] /\ n = richer[L[i].asset]
    BY <1>1, <1>2
  <2>2. n >= m /\ m >= cost
    BY <1>1, <1>3, <2>1
  <2> QED
    BY <1>1, <2>1, <2>2
<1> QED
  BY <1>4 DEF Funded, cost

LEMMA RicherMatches ==
    ASSUME NEW L \in RuleLists, NEW r \in Records, NEW b \in BalanceSheets,
           NEW richer \in BalanceSheets, \A a \in Assets : richer[a] >= b[a],
           Evaluate(L, r, b).verdict = "matched"
    PROVE  /\ Evaluate(L, r, richer).verdict = "matched"
           /\ ~Precedes(L, Evaluate(L, r, b).rule, Evaluate(L, r, richer).rule)
<1>1. PICK i : i = Evaluate(L, r, b).rule
  OBVIOUS
<1>2. /\ i \in Positions(L) /\ Funded(L, r, b, i)
      /\ \A j \in Positions(L) : Precedes(L, j, i) => ~Decisive(L, r, b, j)
  BY <1>1, MatchedIsFirstFunded DEF FirstDecisive
<1>3. Len(L) \in Nat /\ \A k \in Positions(L) : L[k].priority \in Int
  BY RuleListsHavePriorities
<1>4. Decisive(L, r, richer, i)
  BY <1>2, RicherFunds DEF Decisive
<1>5. PICK j \in Positions(L) : FirstDecisive(L, r, richer, j)
  BY <1>2, <1>3, <1>4, FirstDecisiveExists
<1>6. ~Precedes(L, i, j)
  BY <1>2, <1>4, <1>5 DEF FirstDecisive
<1>7. ~Faulty(L, r, j)
  <2>1. CASE Precedes(L, j, i)
    BY <1>2, <2>1 DEF Decisive
  <2>2. CASE ~Precedes(L, j, i)
    <3>1. i \in 1..Len(L) /\ j \in 1..Len(L)
      BY <1>2, <1>5 DEF Positions
    <3>2. L[i].priority \in Int /\ L[j].priority \in Int
      BY <1>2, <1>3, <1>5
    <3>3. i = j
      BY <1>3, <1>6, <2>2, <3>1, <3>2 DEF Precedes
    <3> QED
      BY <1>2, <3>3 DEF Funded, Billable, Faulty
  <2> QED
    BY <2>1, <2>2
<1>8. Evaluate(L, r, richer) = Verdict("matched", j)
  BY <1>3, <1>5, <1>7, EvaluateFindsFirst
<1> QED
  BY <1>1, <1>6, <1>8 DEF Verdict

ArgumentsAreInputs ==
    rules \in RuleLists /\ record \in Records /\ balances \in BalanceSheets

(***************************************************************************)
(* A record that is paid for under some balances is paid for under larger  *)
(* ones, by the same rule or by an earlier one: no rule that raises can    *)
(* come before it (waterfall.py lines 41 to 75).                           *)
(***************************************************************************)
THEOREM RicherStillPays == Spec => []MoreMoneyStillPays
<1>1. Init => ArgumentsAreInputs
  BY DEF Init, ArgumentsAreInputs
<1>2. ArgumentsAreInputs /\ [Next]_vars => ArgumentsAreInputs'
  <2> SUFFICES ASSUME ArgumentsAreInputs, [Next]_vars PROVE ArgumentsAreInputs'
    OBVIOUS
  <2>1. UNCHANGED arguments
    BY DEF Next, vars, arguments, RuleNotFound, Iterate, Exhausted, Returned, FilterMismatch,
           UnknownMetric, ZeroCost, Matched, InsufficientBalance
  <2> QED
    BY <2>1 DEF arguments, ArgumentsAreInputs
<1>3. ArgumentsAreInputs /\ LoopComputesEvaluate => MoreMoneyStillPays
  <2> SUFFICES ASSUME ArgumentsAreInputs, LoopComputesEvaluate, result.verdict = "matched",
                      NEW richer \in BalanceSheets, \A a \in Assets : richer[a] >= balances[a]
               PROVE  /\ Evaluate(rules, record, richer).verdict = "matched"
                      /\ ~Precedes(rules, result.rule, Evaluate(rules, record, richer).rule)
    BY DEF MoreMoneyStillPays
  <2>1. result = Evaluate(rules, record, balances)
    BY DEF LoopComputesEvaluate, Running
  <2> QED
    BY <2>1, RicherMatches DEF ArgumentsAreInputs
<1> QED
  BY <1>1, <1>2, <1>3, LoopIsCorrect, PTL DEF Spec

(* The loop has dismissed an initial segment of the sorted rules, none of  *)
(* which decides, and its flag says whether one had a positive cost.       *)
THEOREM LoopKeepsInvariant == Spec => []LoopInvariant
BY LoopIsCorrect, PTL
=============================================================================
