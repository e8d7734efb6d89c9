---------------------------- MODULE StoreLemmas ----------------------------
(***************************************************************************)
(* Facts that the proofs about both repositories use.  About the rows of   *)
(* one account, for rows of any type: how a history extends another, and   *)
(* how a row that follows the closing balance makes the account sound      *)
(* again.  About the queue: what is handed out is in order and pending.    *)
(* About totals: what a row adds to the spend of a ledger.                 *)
(***************************************************************************)
EXTENDS Ledger, Queue, WellFoundedInduction, TLAPS

LEMMA ExtendsItself ==
    ASSUME NEW S, NEW q \in Seq(S)
    PROVE  Extends(q, q)
BY DEF Extends

LEMMA ExtendsAppend ==
    ASSUME NEW S, NEW p \in Seq(S), NEW q \in Seq(S), NEW e \in S, Extends(p, q)
    PROVE  Extends(p, Append(q, e))
BY DEF Extends

LEMMA ExtendsIsTransitive ==
    ASSUME NEW S, NEW p \in Seq(S), NEW q \in Seq(S), NEW r \in Seq(S),
           Extends(p, q), Extends(q, r)
    PROVE  Extends(p, r)
<1>1. Len(p) \in Nat /\ Len(q) \in Nat /\ Len(r) \in Nat
  OBVIOUS
<1> QED
  BY <1>1 DEF Extends

LEMMA ClosingIsInt ==
    ASSUME NEW S, NEW a \in Account, NEW q \in Seq(S), \A e \in S : e.balance_after \in Int
    PROVE  Closing(a, q) \in Int
<1>1. CASE Len(q) = 0
  BY <1>1, OpeningIsNatural DEF Closing, BalanceBefore
<1>2. CASE Len(q) # 0
  <2>1. Len(q) \in 1..Len(q) /\ q[Len(q)] \in S
    BY <1>2
  <2> QED
    BY <1>2, <2>1 DEF Closing, BalanceBefore
<1> QED
  BY <1>1, <1>2

(* The empty ledger of an account that the host has opened. *)
LEMMA OpeningIsSound ==
    ASSUME NEW a \in Account, NEW account,
           account.entries = <<>>, account.amount = Opening[a]
    PROVE  Sound(a, account)
BY OpeningIsNatural DEF Sound, Chained, Closing, BalanceBefore

(* A row that follows the closing balance lengthens the chain by one link. *)
LEMMA ChainedAppend ==
    ASSUME NEW S, NEW a \in Account, NEW q \in Seq(S), NEW e \in S,
           Chained(a, q), Follows(Closing(a, q), e)
    PROVE  /\ Chained(a, Append(q, e))
           /\ Closing(a, Append(q, e)) = e.balance_after
<1> DEFINE r == Append(q, e)
<1>1. /\ Len(r) = Len(q) + 1 /\ Len(q) \in Nat
      /\ r[Len(q) + 1] = e
      /\ \A i \in 1..Len(q) : r[i] = q[i]
  OBVIOUS
<1> HIDE DEF r
<1>2. \A i \in 1..(Len(q) + 1) : BalanceBefore(a, r, i) = BalanceBefore(a, q, i)
  BY <1>1 DEF BalanceBefore
<1>3. \A i \in 1..Len(q) : Follows(BalanceBefore(a, r, i), r[i])
  BY <1>1, <1>2 DEF Chained
<1>4. Follows(BalanceBefore(a, r, Len(q) + 1), r[Len(q) + 1])
  BY <1>1, <1>2 DEF Closing
<1>5. Chained(a, r)
  <2> SUFFICES ASSUME NEW i \in 1..Len(r) PROVE Follows(BalanceBefore(a, r, i), r[i])
    BY DEF Chained
  <2>1. i \in 1..Len(q) \/ i = Len(q) + 1
    BY <1>1
  <2> QED
    BY <1>3, <1>4, <2>1
<1>6. Closing(a, r) = e.balance_after
  BY <1>1 DEF Closing, BalanceBefore
<1> QED
  BY <1>5, <1>6 DEF r

(* Appending the row of a movement leaves the account as the row says. *)
LEMMA SoundAppend ==
    ASSUME NEW S, NEW a \in Account, NEW account, NEW q \in Seq(S), NEW e \in S,
           Chained(a, q), Follows(Closing(a, q), e),
           account.entries = Append(q, e), account.amount = e.balance_after,
           account.amount >= 0
    PROVE  Sound(a, account)
BY ChainedAppend DEF Sound

(* A batch is made of different records of the set, at most limit of them. *)
LEMMA OldestIsABatch ==
    ASSUME NEW pending \in SUBSET Nat, NEW limit \in Nat, NEW queue \in Oldest(pending, limit)
    PROVE  /\ queue \in Seq(pending)
           /\ Len(queue) <= limit
           /\ \A i \in 1..Len(queue) : queue[i] \in pending
           /\ \A i, j \in 1..Len(queue) : i # j => queue[i] # queue[j]
           /\ ToSet(queue) = {queue[i] : i \in 1..Len(queue)}
<1>1. PICK n \in 0..limit : queue \in [1..n -> pending]
  BY DEF Oldest, BoundedSeq, SeqOf
<1>2. queue \in Seq(pending) /\ Len(queue) = n /\ DOMAIN queue = 1..n
  BY <1>1
<1>3. \A i, j \in DOMAIN queue : i < j => queue[i] < queue[j]
  BY DEF Oldest
<1>4. \A i \in 1..n : queue[i] \in pending /\ queue[i] \in Nat
  BY <1>1
<1>5. \A i, j \in 1..n : i # j => queue[i] # queue[j]
  <2> SUFFICES ASSUME NEW i \in 1..n, NEW j \in 1..n, i < j \/ j < i
               PROVE  queue[i] # queue[j]
    BY <1>1
  <2> QED
    BY <1>2, <1>3, <1>4
<1> QED
  BY <1>1, <1>2, <1>4, <1>5 DEF ToSet
-----------------------------------------------------------------------------
(* Totals.  The recursive function of Total exists and is unique, by the   *)
(* least natural number at which it would not be.                          *)

LEMMA LeastNatural ==
    ASSUME NEW T \in SUBSET Nat, T # {}
    PROVE  \E n \in T : \A m \in T : n <= m
<1> DEFINE R == {ss \in Nat \X Nat : ss[1] < ss[2]}
<1>1. IsWellFoundedOn(R, Nat)
  BY NatLessThanWellFounded DEF OpToRel
<1>2. \A m, n \in Nat : m < n => <<m, n>> \in R
  OBVIOUS
<1> HIDE DEF R
<1>3. T \subseteq Nat
  OBVIOUS
<1>4. \E n \in T : \A m \in T : ~ (<<m, n>> \in R)
  BY <1>1, <1>3, WFMin, Zenon
<1>5. PICK n \in T : \A m \in T : ~ (<<m, n>> \in R)
  BY <1>4, Zenon
<1>6. \A m \in T : m \in Nat /\ n \in Nat /\ ~(m < n)
  BY <1>2, <1>3, <1>5
<1>7. \A m \in T : n <= m
  BY <1>6
<1> QED
  BY <1>5, <1>7

(* What holds at 0 and is handed on from n - 1 to n holds up to a bound. *)
LEMMA UpToBound ==
    ASSUME NEW k \in Nat, NEW T, 0 \in T, \A n \in 1..k : n - 1 \in T => n \in T
    PROVE  \A n \in 0..k : n \in T
<1> DEFINE missing == {n \in 0..k : n \notin T}
<1> SUFFICES ASSUME missing # {} PROVE FALSE
  OBVIOUS
<1>1. PICK n \in missing : \A m \in missing : n <= m
  <2>1. missing \in SUBSET Nat
    OBVIOUS
  <2> HIDE DEF missing
  <2> QED
    BY <2>1, LeastNatural
<1>2. n \in 1..k /\ n - 1 \in 0..k
  BY <1>1
<1>3. n - 1 \in T
  BY <1>1, <1>2
<1> QED
  BY <1>1, <1>2, <1>3

(* f[n] is the sum of the first n numbers of q, up to k. *)
Sums(q, k, f) ==
    /\ f \in [0..k -> Int]
    /\ f[0] = 0
    /\ \A n \in 1..k : f[n] = f[n - 1] + q[n]

LEMMA NoSums ==
    ASSUME NEW q
    PROVE  \E f : Sums(q, 0, f)
<1> DEFINE f == [n \in 0..0 |-> 0]
<1>1. f \in [0..0 -> Int] /\ f[0] = 0 /\ ~\E n \in 1..0 : TRUE
  OBVIOUS
<1>2. Sums(q, 0, f)
  BY <1>1 DEF Sums
<1> QED
  BY <1>2

LEMMA OneMoreSum ==
    ASSUME NEW q, NEW k \in Nat \ {0}, q[k] \in Int, NEW f, Sums(q, k - 1, f)
    PROVE  \E g : Sums(q, k, g)
<1> DEFINE g == [n \in 0..k |-> IF n = k THEN f[k - 1] + q[k] ELSE f[n]]
<1>1. /\ f \in [0..(k - 1) -> Int] /\ f[0] = 0
      /\ \A n \in 1..(k - 1) : f[n] = f[n - 1] + q[n]
  BY DEF Sums
<1>2. f[k - 1] + q[k] \in Int
  BY <1>1
<1>3. g \in [0..k -> Int] /\ g[0] = 0
  BY <1>1, <1>2
<1>4. \A n \in 1..k : g[n] = g[n - 1] + q[n]
  BY <1>1
<1>5. Sums(q, k, g)
  BY <1>3, <1>4 DEF Sums
<1> QED
  BY <1>5

LEMMA SumsExist ==
    ASSUME NEW q, NEW k \in Nat, \A n \in 1..k : q[n] \in Int
    PROVE  \E f : Sums(q, k, f)
<1> DEFINE T == {n \in 0..k : \E f : Sums(q, n, f)}
<1>1. 0 \in T
  BY NoSums
<1>2. ASSUME NEW n \in 1..k, n - 1 \in T PROVE n \in T
  <2>1. PICK f : Sums(q, n - 1, f)
    BY <1>2
  <2>2. \E g : Sums(q, n, g)
    BY <2>1, OneMoreSum
  <2> QED
    BY <2>2
<1>3. \A n \in 0..k : n \in T
  <2> HIDE DEF T
  <2> QED
    BY <1>1, <1>2, UpToBound
<1>4. k \in 0..k
  OBVIOUS
<1> QED
  BY <1>3, <1>4

(* Two functions with the same steps are the same. *)
LEMMA SumsAreUnique ==
    ASSUME NEW q, NEW k \in Nat, NEW f, Sums(q, k, f), NEW t,
           t[0] = 0, \A n \in 1..k : t[n] = t[n - 1] + q[n]
    PROVE  \A n \in 0..k : t[n] = f[n]
<1> DEFINE T == {n \in 0..k : t[n] = f[n]}
<1>1. 0 \in T
  BY DEF Sums
<1>2. ASSUME NEW n \in 1..k, n - 1 \in T PROVE n \in T
  BY <1>2 DEF Sums
<1>3. \A n \in 0..k : n \in T
  <2> HIDE DEF T
  <2> QED
    BY <1>1, <1>2, UpToBound
<1> QED
  BY <1>3

(* The total is the last of the partial sums. *)
LEMMA TotalIsLast ==
    ASSUME NEW q, Len(q) \in Nat, NEW f, Sums(q, Len(q), f)
    PROVE  Total(q) = f[Len(q)]
<1> DEFINE total[n \in 0..Len(q)] == IF n = 0 THEN 0 ELSE total[n - 1] + q[n]
<1>1. PICK k \in Nat : k = Len(q)
  OBVIOUS
<1> DEFINE step(t) == [n \in 0..k |-> IF n = 0 THEN 0 ELSE t[n - 1] + q[n]]
<1>2. f = step(f)
  <2>1. ASSUME NEW n \in 0..k PROVE f[n] = IF n = 0 THEN 0 ELSE f[n - 1] + q[n]
    <3>1. n = 0 \/ n \in 1..k
      OBVIOUS
    <3> QED
      BY <1>1, <3>1 DEF Sums
  <2>2. f = [n \in 0..k |-> f[n]]
    BY <1>1 DEF Sums
  <2> QED
    BY <2>1, <2>2
<1>3. PICK t : t = step(t) /\ Total(q) = t[k]
  <2>1. \E t : t = step(t)
    BY <1>2
  <2>2. total = step(total)
    <3> QED
      BY <1>1, <2>1
  <2>3. Total(q) = total[k]
    BY <1>1 DEF Total
  <2> HIDE DEF total, step
  <2> QED
    BY <2>2, <2>3
<1>4. t[0] = 0 /\ \A n \in 1..k : t[n] = t[n - 1] + q[n]
  <2>1. \A n \in 0..k : t[n] = IF n = 0 THEN 0 ELSE t[n - 1] + q[n]
    BY <1>3
  <2> QED
    BY <2>1
<1>5. t[k] = f[k]
  BY <1>1, <1>4, SumsAreUnique
<1> QED
  BY <1>1, <1>3, <1>5

LEMMA SumsOf ==
    ASSUME NEW q \in Seq(Int)
    PROVE  /\ Len(q) \in Nat
           /\ \E f : Sums(q, Len(q), f) /\ Total(q) = f[Len(q)] /\ Total(q) \in Int
<1>1. Len(q) \in Nat /\ \A n \in 1..Len(q) : q[n] \in Int
  OBVIOUS
<1>2. PICK f : Sums(q, Len(q), f)
  BY <1>1, SumsExist
<1>3. Total(q) = f[Len(q)]
  BY <1>1, <1>2, TotalIsLast
<1>4. Total(q) \in Int
  BY <1>1, <1>2, <1>3 DEF Sums
<1> QED
  BY <1>1, <1>2, <1>3, <1>4

LEMMA TotalEmpty == Total(<<>>) = 0
<1>1. <<>> \in Seq(Int) /\ Len(<<>>) = 0
  OBVIOUS
<1>2. PICK f : Sums(<<>>, Len(<<>>), f) /\ Total(<<>>) = f[Len(<<>>)]
  BY <1>1, SumsOf
<1> QED
  BY <1>1, <1>2 DEF Sums

LEMMA TotalAppend ==
    ASSUME NEW q \in Seq(Int), NEW x \in Int
    PROVE  Total(Append(q, x)) = Total(q) + x
<1> DEFINE r == Append(q, x)
<1>1. r \in Seq(Int) /\ Len(r) = Len(q) + 1 /\ r[Len(q) + 1] = x /\ \A n \in 1..Len(q) : r[n] = q[n]
  OBVIOUS
<1> HIDE DEF r
<1>2. PICK k \in Nat : k = Len(q)
  OBVIOUS
<1>3. PICK f : Sums(q, k, f) /\ Total(q) = f[k]
  BY <1>2, SumsOf
<1>4. PICK g : Sums(r, k + 1, g) /\ Total(r) = g[k + 1]
  BY <1>1, <1>2, SumsOf
<1>5. g[0] = 0 /\ \A n \in 1..k : g[n] = g[n - 1] + q[n]
  BY <1>1, <1>2, <1>4 DEF Sums
<1>6. g[k] = f[k]
  BY <1>3, <1>5, SumsAreUnique
<1>7. g[k + 1] = g[k] + x
  <2>1. k + 1 \in 1..(k + 1) /\ (k + 1) - 1 = k
    OBVIOUS
  <2>2. g[k + 1] = g[(k + 1) - 1] + r[k + 1]
    BY <1>4, <2>1 DEF Sums
  <2> QED
    BY <1>1, <1>2, <2>1, <2>2
<1> QED
  BY <1>3, <1>4, <1>6, <1>7 DEF r

(* No number falls, and one of them rises by d. *)
LEMMA TotalRises ==
    ASSUME NEW q \in Seq(Int), NEW r \in Seq(Int), Len(q) = Len(r),
           NEW i \in 1..Len(q), NEW d \in Int, r[i] >= q[i] + d,
           \A n \in 1..Len(q) : n # i => r[n] >= q[n]
    PROVE  Total(r) >= Total(q) + d
<1>1. PICK k \in Nat : k = Len(q) /\ k = Len(r)
  OBVIOUS
<1>2. PICK f : Sums(q, k, f) /\ Total(q) = f[k]
  BY <1>1, SumsOf
<1>3. PICK g : Sums(r, k, g) /\ Total(r) = g[k]
  BY <1>1, SumsOf
<1> DEFINE T == {n \in 0..k : (n >= i => g[n] >= f[n] + d) /\ (n < i => g[n] >= f[n])}
<1>4. 0 \in T /\ i \in 1..k
  BY <1>1, <1>2, <1>3 DEF Sums
<1>5. ASSUME NEW n \in 1..k, n - 1 \in T PROVE n \in T
  <2>1. /\ g[n] = g[n - 1] + r[n] /\ f[n] = f[n - 1] + q[n]
        /\ g[n - 1] \in Int /\ f[n - 1] \in Int
    BY <1>2, <1>3, SMTT(30) DEF Sums
  <2>2. q[n] \in Int /\ r[n] \in Int
    BY <1>1
  <2>3. n = i => r[n] >= q[n] + d
    BY <1>1
  <2>4. n # i => r[n] >= q[n]
    BY <1>1
  <2>5. /\ n - 1 >= i => g[n - 1] >= f[n - 1] + d
        /\ n - 1 < i => g[n - 1] >= f[n - 1]
    BY <1>5
  <2>6. PICK x \in Int : x = g[n - 1]
    BY <2>1
  <2>7. PICK y \in Int : y = f[n - 1]
    BY <2>1
  <2>8. PICK z \in Int : z = r[n]
    BY <2>2
  <2>9. PICK w \in Int : w = q[n]
    BY <2>2
  <2>10. PICK j \in Int : j = i
    BY <1>4
  <2>11. g[n] = x + z /\ f[n] = y + w
    BY <2>1, <2>6, <2>7, <2>8, <2>9
  <2>12. /\ n - 1 >= j => x >= y + d
         /\ n - 1 < j => x >= y
         /\ n = j => z >= w + d
         /\ n # j => z >= w
    BY <2>3, <2>4, <2>5, <2>6, <2>7, <2>8, <2>9, <2>10
  <2>13. (n >= j => x + z >= (y + w) + d) /\ (n < j => x + z >= y + w)
    BY <2>12
  <2> QED
    BY <2>10, <2>11, <2>13
<1>6. \A n \in 0..k : n \in T
  <2> HIDE DEF T
  <2> QED
    BY <1>4, <1>5, UpToBound
<1>7. k \in T
  BY <1>6
<1> QED
  BY <1>1, <1>2, <1>3, <1>4, <1>7

(* The spend of a ledger that grows by a row. *)
LEMMA TakenTyped ==
    ASSUME NEW S, \A e \in S : e.amount \in Int, NEW q \in Seq(S)
    PROVE  Taken(q) \in Seq(Int) /\ Len(Taken(q)) = Len(q)
<1>1. Len(q) \in Nat /\ \A i \in 1..Len(q) : q[i] \in S
  OBVIOUS
<1>2. \A i \in 1..Len(q) : (IF q[i].type = "usage" THEN -q[i].amount ELSE 0) \in Int
  BY <1>1
<1>3. /\ Taken(q) = [i \in 1..Len(q) |-> Taken(q)[i]]
      /\ \A i \in 1..Len(q) : Taken(q)[i] \in Int
  BY <1>1, <1>2 DEF Taken
<1>4. Taken(q) \in [1..Len(q) -> Int]
  BY <1>3
<1> QED
  BY <1>1, <1>4

LEMMA SpendEmpty == Spend(<<>>) = 0
<1>1. Taken(<<>>) = <<>>
  BY DEF Taken
<1> QED
  BY <1>1, TotalEmpty DEF Spend

LEMMA TakenAppend ==
    ASSUME NEW S, \A e \in S : e.amount \in Int, NEW q \in Seq(S), NEW e \in S
    PROVE  Taken(Append(q, e)) =
              Append(Taken(q), IF e.type = "usage" THEN -e.amount ELSE 0)
<1> DEFINE x == IF e.type = "usage" THEN -e.amount ELSE 0
<1>1. Taken(q) \in Seq(Int) /\ Len(Taken(q)) = Len(q) /\ x \in Int
  BY TakenTyped
<1>2. Append(q, e) \in Seq(S) /\ Len(Append(q, e)) = Len(q) + 1 /\ Len(q) \in Nat
  OBVIOUS
<1>3. Taken(Append(q, e)) \in Seq(Int) /\ Len(Taken(Append(q, e))) = Len(q) + 1
  BY <1>2, TakenTyped
<1>4. Append(Taken(q), x) \in Seq(Int) /\ Len(Append(Taken(q), x)) = Len(q) + 1
  BY <1>1
<1>5. ASSUME NEW i \in 1..(Len(q) + 1) PROVE Taken(Append(q, e))[i] = Append(Taken(q), x)[i]
  <2>1. Append(q, e)[i] = IF i = Len(q) + 1 THEN e ELSE q[i]
    BY <1>2
  <2>2. Append(Taken(q), x)[i] = IF i = Len(q) + 1 THEN x ELSE Taken(q)[i]
    BY <1>1, <1>2
  <2>3. i # Len(q) + 1 => i \in 1..Len(q)
    BY <1>2
  <2> QED
    BY <1>2, <2>1, <2>2, <2>3 DEF Taken
<1> QED
  BY <1>2, <1>3, <1>4, <1>5

LEMMA SpendAppend ==
    ASSUME NEW S, \A e \in S : e.amount \in Int, NEW q \in Seq(S), NEW e \in S
    PROVE  /\ Spend(q) \in Int
           /\ e.type = "usage" => Spend(Append(q, e)) = Spend(q) - e.amount
           /\ e.type # "usage" => Spend(Append(q, e)) = Spend(q)
<1> DEFINE x == IF e.type = "usage" THEN -e.amount ELSE 0
<1>1. Taken(q) \in Seq(Int) /\ x \in Int
  BY TakenTyped
<1>2. Taken(Append(q, e)) = Append(Taken(q), x)
  BY TakenAppend
<1>3. Total(Append(Taken(q), x)) = Total(Taken(q)) + x /\ Total(Taken(q)) \in Int
  BY <1>1, TotalAppend, SumsOf
<1> QED
  BY <1>2, <1>3 DEF Spend

(* The numbers at some of the positions, and nothing at the others. *)
Part(numbers, U) == [i \in 1..Len(numbers) |-> IF i \in U THEN numbers[i] ELSE 0]

LEMMA PartTyped ==
    ASSUME NEW r \in Seq(Int), NEW U
    PROVE  /\ Part(r, U) \in Seq(Int) /\ Len(Part(r, U)) = Len(r)
           /\ Total(Part(r, U)) \in Int
<1>1. Len(r) \in Nat /\ \A i \in 1..Len(r) : r[i] \in Int
  OBVIOUS
<1>2. \A i \in 1..Len(r) : (IF i \in U THEN r[i] ELSE 0) \in Int
  BY <1>1
<1>3. Part(r, U) \in [1..Len(r) -> Int]
  BY <1>1, <1>2 DEF Part
<1>4. Part(r, U) \in Seq(Int) /\ Len(Part(r, U)) = Len(r)
  BY <1>1, <1>3
<1> QED
  BY <1>4, SumsOf

(* A number at a position that is not picked out does not count. *)
LEMMA PartAppend ==
    ASSUME NEW r \in Seq(Int), NEW x \in Int, NEW U \in SUBSET (1..Len(r))
    PROVE  Total(Part(Append(r, x), U)) = Total(Part(r, U))
<1>1. Append(r, x) \in Seq(Int) /\ Len(Append(r, x)) = Len(r) + 1 /\ Len(r) \in Nat
  OBVIOUS
<1>2. Part(r, U) \in Seq(Int) /\ Len(Part(r, U)) = Len(r) /\ Total(Part(r, U)) \in Int
  BY PartTyped
<1>3. Part(Append(r, x), U) \in Seq(Int) /\ Len(Part(Append(r, x), U)) = Len(r) + 1
  BY <1>1, PartTyped
<1>4. Append(Part(r, U), 0) \in Seq(Int) /\ Len(Append(Part(r, U), 0)) = Len(r) + 1
  BY <1>2
<1>5. ASSUME NEW i \in 1..(Len(r) + 1) PROVE Part(Append(r, x), U)[i] = Append(Part(r, U), 0)[i]
  <2>1. Append(r, x)[i] = IF i = Len(r) + 1 THEN x ELSE r[i]
    BY <1>1
  <2>2. Append(Part(r, U), 0)[i] = IF i = Len(r) + 1 THEN 0 ELSE Part(r, U)[i]
    BY <1>1, <1>2
  <2>3. (i # Len(r) + 1 => i \in 1..Len(r)) /\ (i = Len(r) + 1 => i \notin U)
    BY <1>1
  <2> QED
    BY <1>1, <2>1, <2>2, <2>3 DEF Part
<1>6. Part(Append(r, x), U) = Append(Part(r, U), 0)
  BY <1>3, <1>4, <1>5, SMTT(30)
<1>7. Total(Append(Part(r, U), 0)) = Total(Part(r, U)) + 0
  BY <1>2, TotalAppend
<1> QED
  BY <1>2, <1>6, <1>7

(* One more position is picked out. *)
LEMMA PartRises ==
    ASSUME NEW r \in Seq(Int), NEW U \in SUBSET (1..Len(r)), NEW i \in (1..Len(r)) \ U
    PROVE  Total(Part(r, U \union {i})) >= Total(Part(r, U)) + r[i]
<1>1. Part(r, U) \in Seq(Int) /\ Len(Part(r, U)) = Len(r)
  BY PartTyped
<1>2. Part(r, U \union {i}) \in Seq(Int) /\ Len(Part(r, U \union {i})) = Len(r)
  BY PartTyped
<1>3. PICK d \in Int : d = r[i]
  OBVIOUS
<1>4. Part(r, U)[i] = 0 /\ Part(r, U \union {i})[i] = d
  BY <1>3 DEF Part
<1>5. \A n \in 1..Len(r) : n # i => Part(r, U \union {i})[n] = Part(r, U)[n]
  BY DEF Part
<1>6. \A n \in 1..Len(r) : Part(r, U)[n] \in Int
  BY <1>1
<1>7. \A n \in 1..Len(r) : n # i => Part(r, U \union {i})[n] >= Part(r, U)[n]
  <2> SUFFICES ASSUME NEW n \in 1..Len(r), n # i
               PROVE  Part(r, U \union {i})[n] >= Part(r, U)[n]
    OBVIOUS
  <2>1. PICK x \in Int : x = Part(r, U)[n]
    BY <1>6
  <2>2. Part(r, U \union {i})[n] = x
    BY <1>5, <2>1, Zenon
  <2>3. x >= x
    OBVIOUS
  <2> QED
    BY <2>1, <2>2, <2>3
<1>8. Part(r, U \union {i})[i] >= Part(r, U)[i] + d
  BY <1>4
<1> QED
  BY <1>1, <1>2, <1>3, <1>7, <1>8, TotalRises

(* Of numbers that are not negative a part is at most the whole. *)
LEMMA PartBelow ==
    ASSUME NEW r \in Seq(Int), NEW U, \A i \in 1..Len(r) : r[i] >= 0
    PROVE  Total(Part(r, U)) <= Total(r)
<1>1. Part(r, U) \in Seq(Int) /\ Len(Part(r, U)) = Len(r) /\ Len(r) \in Nat
  BY PartTyped
<1>2. Total(r) \in Int /\ Total(Part(r, U)) \in Int
  BY PartTyped, SumsOf
<1>3. \A n \in 1..Len(r) : r[n] >= Part(r, U)[n] + 0
  <2> SUFFICES ASSUME NEW n \in 1..Len(r) PROVE r[n] >= Part(r, U)[n] + 0
    OBVIOUS
  <2>1. PICK x \in Int : x = r[n] /\ x >= 0
    OBVIOUS
  <2>2. Part(r, U)[n] = IF n \in U THEN x ELSE 0
    BY <2>1 DEF Part
  <2> QED
    BY <2>1, <2>2
<1>4. \A n \in 1..Len(r) : r[n] >= Part(r, U)[n]
  <2> SUFFICES ASSUME NEW n \in 1..Len(r) PROVE r[n] >= Part(r, U)[n]
    OBVIOUS
  <2>1. PICK y \in Int : y = Part(r, U)[n]
    BY <1>1
  <2> QED
    BY <1>3, <2>1
<1>5. CASE Len(r) = 0
  <2>1. PICK p \in Seq(Int) : p = Part(r, U) /\ Len(p) = 0
    BY <1>1, <1>5
  <2>2. p = <<>> /\ r = <<>>
    BY <1>5, <2>1
  <2> QED
    BY <1>2, <2>1, <2>2
<1>6. CASE Len(r) # 0
  <2>1. 1 \in 1..Len(r)
    BY <1>1, <1>6
  <2>2. Total(r) >= Total(Part(r, U)) + 0
    BY <1>1, <1>3, <1>4, <2>1, TotalRises, SMTT(30)
  <2> QED
    BY <1>2, <2>2
<1> QED
  BY <1>5, <1>6
=============================================================================
