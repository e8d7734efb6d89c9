--------------------------- MODULE RedisViewProofs ---------------------------
(***************************************************************************)
(* Theorems about RedisView, for any tasks, assets, movements and number   *)
(* of calls.  The invariants of RedisView are not inductive: they say      *)
(* nothing of what a call holds between its Redis commands.  HistoryInv    *)
(* says that every amount held anywhere was committed; SerialInv and       *)
(* SoloInv say what a writer and a lone call hold at each await; ServedInv *)
(* what a check may already have concluded.                                *)
(***************************************************************************)
EXTENDS RedisView, TLAPS

Action(t) ==
    \/ Move(t) \/ ReadHash(t) \/ UpdateSingleBalance(t)
    \/ BeginRefresh(t) \/ Refresh(t)
    \/ BeginCheck(t) \/ CheckBalances(t)
    \/ BeginHasBalance(t) \/ BeginRequires(t)
    \/ ReadRows(t) \/ WarmUp(t) \/ GetBalances(t)
    \/ CanTransact(t) \/ GetAssetAmount(t)
    \/ Return(t) \/ Fail(t)

(* Every step is one of a task, an eviction, or none. *)
LEMMA NextIsAction ==
    ASSUME [Next]_vars
    PROVE  UNCHANGED vars \/ Evict \/ \E t \in Tasks : Action(t)
BY DEF Next, Action, Quiet

(* The calls in progress have the arguments that their await goes on with. *)
LocalsOf(t) ==
    /\ pc[t] \in {"hgetall", "hset"} => call[t].op = "move" /\ call[t].asset \in Assets
    /\ pc[t] = "set" => call[t].op \in {"refresh", "has_balance", "requires"}
    /\ pc[t] \in {"rows", "get"} => call[t].op \in {"has_balance", "requires"}
    /\ pc[t] \in {"flag", "amount"} => call[t].op = "requires"
    /\ pc[t] = "fields" => call[t].op = "check"
    /\ pc[t] = "answered" => call[t].op \in {"check", "has_balance", "requires"}
    /\ call[t].op = "requires" => call[t].asset \in Assets

LocalsInv == \A t \in Tasks : LocalsOf(t)

LEMMA CallTypes ==
    /\ NoCall \in Call
    /\ \A c \in Call : /\ c.op \in Ops /\ c.asset \in Assets \union {None} /\ c.amount \in Nat
                       /\ c.asked \in SUBSET Assets /\ c.answer \in BOOLEAN
BY DEF NoCall, Call, Ops

LEMMA InitTypeOK ==
    ASSUME Init
    PROVE  TypeOK /\ LocalsInv
<1>1. balance \in Amounts
  BY ArgumentsAreTyped DEF Init
<1>2. past \in [Assets -> SUBSET Nat]
  BY <1>1 DEF Init, Amounts
<1> QED
  BY <1>1, <1>2, CallTypes DEF Init, TypeOK, LocalsInv, LocalsOf, Empty, Amounts, Labels, NoCall

(* The types of a call that begins, and of one that ends. *)
LEMMA StartTypes ==
    ASSUME TypeOK, NEW t \in Tasks, NEW c \in Call, NEW label \in Labels, Start(t, c, label)
    PROVE  /\ pc' \in [Tasks -> Labels] /\ call' \in [Tasks -> Call]
           /\ solo' \in [Tasks -> BOOLEAN] /\ ops' \in Nat
BY DEF TypeOK, Start

LEMMA EndTypes ==
    ASSUME TypeOK, NEW t \in Tasks, End(t)
    PROVE  /\ pc' \in [Tasks -> Labels] /\ call' \in [Tasks -> Call]
           /\ read' \in [Tasks -> Amounts]
           /\ UNCHANGED <<balance, past, solo, ops>>
BY CallTypes DEF TypeOK, End, database, Labels, Empty, Amounts

LEMMA AnswerTypes ==
    ASSUME TypeOK, NEW t \in Tasks, LocalsOf(t), NEW yes \in BOOLEAN,
           pc[t] \in {"fields", "rows", "get", "flag", "amount"},
           Answer(t, yes), UNCHANGED read
    PROVE  TypeOK' /\ LocalsOf(t)'
<1>1. pc' \in [Tasks -> Labels] /\ call' \in [Tasks -> Call]
  BY DEF TypeOK, Answer, Labels, Call
<1>2. call'[t] = [call[t] EXCEPT !.answer = yes] /\ pc'[t] = "answered"
  BY DEF TypeOK, Answer
<1>3. call'[t].op = call[t].op /\ call'[t].asset = call[t].asset
  BY <1>2 DEF TypeOK, Call
<1>4. LocalsOf(t)'
  BY <1>2, <1>3 DEF LocalsOf
<1> QED
  BY <1>1, <1>4 DEF TypeOK, Answer, database, hash, history

LEMMA HashTypes ==
    ASSUME TypeOK, NEW f \in Amounts, HSet(f) \/ Del
    PROVE  fields' \in Amounts /\ can_transact' \in {TRUE, FALSE, None}
<1>1. AnyPositive(f) \in BOOLEAN
  BY DEF AnyPositive, Positive
<1> QED
  BY <1>1 DEF TypeOK, HSet, Del, Amounts, Empty

LEMMA MoveTypes ==
    ASSUME TypeOK, NEW t \in Tasks, Move(t)
    PROVE  TypeOK' /\ LocalsOf(t)'
<1>1. PICK a \in Assets, delta \in Deltas :
        LET before == IF balance[a] = None THEN 0 ELSE balance[a]
        IN  /\ before + delta >= 0
            /\ balance' = [balance EXCEPT ![a] = before + delta]
            /\ past' = [past EXCEPT ![a] = @ \union {before + delta}]
            /\ Start(t, [NoCall EXCEPT !.op = "move", !.asset = a, !.amount = before + delta],
                     "hgetall")
            /\ Overlap(t)
            /\ UNCHANGED <<hash, read>>
  BY DEF Move
<1> DEFINE amount == (IF balance[a] = None THEN 0 ELSE balance[a]) + delta
           request == [NoCall EXCEPT !.op = "move", !.asset = a, !.amount = amount]
<1>2. amount \in Nat
  BY <1>1, ArgumentsAreTyped DEF TypeOK, Amounts
<1>3. request \in Call /\ request.op = "move" /\ request.asset = a
  BY <1>2 DEF Call, NoCall, Ops
<1>4. Start(t, request, "hgetall") /\ Overlap(t)
  BY <1>1
<1> HIDE DEF request
<1>5. /\ pc' \in [Tasks -> Labels] /\ call' \in [Tasks -> Call]
      /\ solo' \in [Tasks -> BOOLEAN] /\ ops' \in Nat
  BY <1>3, <1>4, StartTypes DEF Labels
<1>6. balance' \in Amounts
  BY <1>1, <1>2 DEF TypeOK, Amounts
<1>7. past' \in [Assets -> SUBSET Nat]
  BY <1>1, <1>2 DEF TypeOK
<1>8. tainted' \in BOOLEAN
  BY <1>4 DEF Overlap
<1>9. LocalsOf(t)'
  BY <1>3, <1>4 DEF LocalsOf, Start, TypeOK
<1> QED
  BY <1>1, <1>5, <1>6, <1>7, <1>8, <1>9 DEF TypeOK, hash

LEMMA WriterTypes ==
    ASSUME TypeOK, NEW t \in Tasks, LocalsOf(t),
           ReadHash(t) \/ UpdateSingleBalance(t) \/ BeginRefresh(t) \/ Refresh(t)
    PROVE  TypeOK' /\ LocalsOf(t)'
<1>1. CASE ReadHash(t)
  BY <1>1 DEF ReadHash, GoTo, TypeOK, LocalsOf, Labels, database, hash, history
<1>2. CASE UpdateSingleBalance(t)
  <2>1. [read[t] EXCEPT ![call[t].asset] = call[t].amount] \in Amounts
    BY <1>2, CallTypes DEF UpdateSingleBalance, TypeOK, Amounts
  <2>2. fields' \in Amounts /\ can_transact' \in {TRUE, FALSE, None}
    BY <1>2, <2>1, HashTypes DEF UpdateSingleBalance
  <2>3. End(t) /\ UNCHANGED tainted
    BY <1>2 DEF UpdateSingleBalance
  <2> QED
    BY <2>2, <2>3, EndTypes DEF TypeOK, LocalsOf, End, NoCall
<1>3. CASE BeginRefresh(t)
  <2>1. [NoCall EXCEPT !.op = "refresh"] \in Call
    BY DEF Call, NoCall, Ops
  <2>2. /\ pc' \in [Tasks -> Labels] /\ call' \in [Tasks -> Call]
        /\ solo' \in [Tasks -> BOOLEAN] /\ ops' \in Nat
    BY <1>3, <2>1, StartTypes DEF BeginRefresh, Labels
  <2>3. read' \in [Tasks -> Amounts]
    BY <1>3 DEF BeginRefresh, TypeOK
  <2>4. LocalsOf(t)'
    BY <1>3 DEF BeginRefresh, Start, TypeOK, LocalsOf, NoCall
  <2> QED
    BY <1>3, <2>2, <2>3, <2>4 DEF BeginRefresh, Overlap, TypeOK, database, hash
<1>4. CASE Refresh(t)
  <2>1. fields' \in Amounts /\ can_transact' \in {TRUE, FALSE, None}
    BY <1>4, HashTypes DEF Refresh, TypeOK
  <2>2. End(t) /\ tainted' \in BOOLEAN
    BY <1>4 DEF Refresh, TypeOK
  <2> QED
    BY <2>1, <2>2, EndTypes DEF TypeOK, LocalsOf, End, NoCall
<1> QED
  BY <1>1, <1>2, <1>3, <1>4

LEMMA BeginTypes ==
    ASSUME TypeOK, NEW t \in Tasks,
           BeginCheck(t) \/ BeginHasBalance(t) \/ BeginRequires(t)
    PROVE  TypeOK' /\ LocalsOf(t)'
<1>1. SUFFICES ASSUME NEW c \in Call, NEW label \in Labels, Start(t, c, label),
                      tainted' \in BOOLEAN, UNCHANGED <<database, hash, read>>,
                      \/ label = "fields" /\ c.op = "check"
                      \/ label \in {"rows", "answered"} /\ c.op = "has_balance"
                      \/ label \in {"rows", "flag"} /\ c.op = "requires" /\ c.asset \in Assets
               PROVE  TypeOK' /\ LocalsOf(t)'
  <2>1. CASE BeginCheck(t)
    <3> DEFINE c == [NoCall EXCEPT !.op = "check", !.answer = (can_transact = TRUE)]
    <3>1. c \in Call /\ c.op = "check"
      BY DEF Call, NoCall, Ops
    <3> QED
      BY <1>1, <2>1, <3>1 DEF BeginCheck, Labels, TypeOK
  <2>2. CASE BeginHasBalance(t)
    <3>1. PICK asked \in SUBSET Assets \ {{}}, repository \in Repositories :
            LET request == [NoCall EXCEPT !.op = "has_balance", !.asked = asked]
            IN  /\ IF Cold /\ repository
                   THEN Start(t, request, "rows") /\ Overlap(t)
                   ELSE /\ Start(t, [request EXCEPT !.answer = Positive(fields, asked)],
                                 "answered")
                        /\ UNCHANGED tainted
                /\ UNCHANGED <<database, hash, read>>
      BY <2>2 DEF BeginHasBalance
    <3> DEFINE c == [NoCall EXCEPT !.op = "has_balance", !.asked = asked]
               d == [c EXCEPT !.answer = Positive(fields, asked)]
    <3>2. Positive(fields, asked) \in BOOLEAN
      BY DEF Positive
    <3>3. c \in Call /\ c.op = "has_balance" /\ d \in Call /\ d.op = "has_balance"
      BY <3>2 DEF Call, NoCall, Ops
    <3> QED
      BY <1>1, <3>1, <3>3 DEF Labels, TypeOK, Overlap
  <2>3. CASE BeginRequires(t)
    <3>1. PICK a \in Assets, min \in MinAmounts :
            /\ Start(t, [NoCall EXCEPT !.op = "requires", !.asset = a, !.amount = min],
                     IF Cold THEN "rows" ELSE "flag")
            /\ IF Cold THEN Overlap(t) ELSE UNCHANGED tainted
            /\ UNCHANGED <<database, hash, read>>
      BY <2>3 DEF BeginRequires
    <3> DEFINE c == [NoCall EXCEPT !.op = "requires", !.asset = a, !.amount = min]
    <3>2. c \in Call /\ c.op = "requires" /\ c.asset = a
      BY ArgumentsAreTyped DEF Call, NoCall, Ops
    <3> QED
      BY <1>1, <3>1, <3>2 DEF Labels, TypeOK, Overlap
  <2> QED
    BY <2>1, <2>2, <2>3
<1>2. /\ pc' \in [Tasks -> Labels] /\ call' \in [Tasks -> Call]
      /\ solo' \in [Tasks -> BOOLEAN] /\ ops' \in Nat
  BY <1>1, StartTypes
<1>3. LocalsOf(t)'
  BY <1>1 DEF Start, TypeOK, LocalsOf
<1> QED
  BY <1>1, <1>2, <1>3 DEF TypeOK, database, hash

LEMMA WarmUpTypes ==
    ASSUME TypeOK, NEW t \in Tasks, LocalsOf(t),
           ReadRows(t) \/ WarmUp(t) \/ GetBalances(t)
    PROVE  TypeOK' /\ LocalsOf(t)'
<1>1. CASE ReadRows(t)
  <2>1. CASE balance = Empty
    <3>1. Answer(t, FALSE) /\ UNCHANGED read
      BY <1>1, <2>1 DEF ReadRows
    <3> QED
      BY <1>1, <3>1, AnswerTypes DEF ReadRows
  <2>2. CASE balance # Empty
    BY <1>1, <2>2 DEF ReadRows, GoTo, TypeOK, LocalsOf, Labels, database, hash, history
  <2> QED
    BY <2>1, <2>2
<1>2. CASE WarmUp(t)
  <2>1. fields' \in Amounts /\ can_transact' \in {TRUE, FALSE, None}
    BY <1>2, HashTypes DEF WarmUp, TypeOK
  <2> QED
    BY <1>2, <2>1 DEF WarmUp, GoTo, TypeOK, LocalsOf, Labels, database, history
<1>3. CASE GetBalances(t)
  <2>1. CASE call[t].op = "has_balance"
    <3>1. Answer(t, Positive(fields, call[t].asked)) /\ UNCHANGED read
      BY <1>3, <2>1 DEF GetBalances
    <3>2. Positive(fields, call[t].asked) \in BOOLEAN
      BY DEF Positive
    <3> QED
      BY <1>3, <3>1, <3>2, AnswerTypes DEF GetBalances
  <2>2. CASE call[t].op # "has_balance"
    BY <1>3, <2>2 DEF GetBalances, GoTo, TypeOK, LocalsOf, Labels, database, hash, history
  <2> QED
    BY <2>1, <2>2
<1> QED
  BY <1>1, <1>2, <1>3

LEMMA CheckTypes ==
    ASSUME TypeOK, NEW t \in Tasks, LocalsOf(t),
           CheckBalances(t) \/ CanTransact(t) \/ GetAssetAmount(t)
    PROVE  TypeOK' /\ LocalsOf(t)'
<1>1. CASE CanTransact(t) /\ can_transact = TRUE /\ call[t].amount # 0
  BY <1>1 DEF CanTransact, GoTo, TypeOK, LocalsOf, Labels, database, hash, history
<1>2. CASE ~(CanTransact(t) /\ can_transact = TRUE /\ call[t].amount # 0)
  <2>1. PICK yes \in BOOLEAN : Answer(t, yes) /\ UNCHANGED read
    <3>1. call[t].answer \in BOOLEAN
      BY CallTypes DEF TypeOK
    <3> QED
      BY <1>2, <3>1 DEF CheckBalances, CanTransact, GetAssetAmount
  <2>2. pc[t] \in {"fields", "flag", "amount"}
    BY DEF CheckBalances, CanTransact, GetAssetAmount
  <2> QED
    BY <2>1, <2>2, AnswerTypes
<1> QED
  BY <1>1, <1>2

LEMMA EndingTypes ==
    ASSUME TypeOK, NEW t \in Tasks, Return(t) \/ Fail(t)
    PROVE  TypeOK' /\ LocalsOf(t)'
<1>1. End(t) /\ UNCHANGED hash /\ tainted' \in BOOLEAN
  BY DEF Return, Fail, TypeOK
<1> QED
  BY <1>1, EndTypes DEF TypeOK, LocalsOf, End, NoCall, hash

(* An action of t leaves the locals of the other tasks. *)
LEMMA OthersUnchanged ==
    ASSUME TypeOK, NEW t \in Tasks, NEW u \in Tasks \ {t}, Action(t)
    PROVE  pc'[u] = pc[u] /\ call'[u] = call[u] /\ read'[u] = read[u]
<1>1. pc'[u] = pc[u] /\ call'[u] = call[u]
  BY DEF TypeOK, Action, Move, ReadHash, UpdateSingleBalance, BeginRefresh, Refresh, BeginCheck,
         CheckBalances, BeginHasBalance, BeginRequires, ReadRows, WarmUp, GetBalances,
         CanTransact, GetAssetAmount, Return, Fail, Start, GoTo, End, Answer
<1>2. read'[u] = read[u]
  BY DEF TypeOK, Action, Move, ReadHash, UpdateSingleBalance, BeginRefresh, Refresh, BeginCheck,
         CheckBalances, BeginHasBalance, BeginRequires, ReadRows, WarmUp, GetBalances,
         CanTransact, GetAssetAmount, Return, Fail, End
<1> QED
  BY <1>1, <1>2

LEMMA StepTypes ==
    ASSUME TypeOK, LocalsInv, [Next]_vars
    PROVE  TypeOK' /\ LocalsInv'
<1>1. CASE UNCHANGED vars
  BY <1>1 DEF vars, database, hash, history, TypeOK, LocalsInv, LocalsOf
<1>2. CASE Evict
  BY <1>2, HashTypes DEF Evict, Del, Empty, Amounts, database, history, TypeOK, LocalsInv, LocalsOf
<1>3. ASSUME NEW t \in Tasks, Action(t)
      PROVE  TypeOK' /\ LocalsInv'
  <2>1. LocalsOf(t)
    BY DEF LocalsInv
  <2>2. TypeOK' /\ LocalsOf(t)'
    BY <1>3, <2>1, MoveTypes, WriterTypes, BeginTypes, WarmUpTypes, CheckTypes, EndingTypes
       DEF Action
  <2>3. ASSUME NEW u \in Tasks \ {t} PROVE LocalsOf(u)'
    BY <1>3, <2>3, OthersUnchanged DEF LocalsInv, LocalsOf
  <2> QED
    BY <2>2, <2>3 DEF LocalsInv
<1> QED
  BY <1>1, <1>2, <1>3, NextIsAction

-----------------------------------------------------------------------------

(* Every amount of f was committed at some time. *)
Committed(f) == \A a \in Assets : f[a] # None => f[a] \in past[a]

(* So are all amounts that are known to somebody. *)
HistoryInv ==
    /\ Committed(balance)
    /\ Committed(fields)
    /\ \A t \in Tasks : Committed(read[t])
    /\ \A t \in Tasks :
          pc[t] \in {"hgetall", "hset"} => call[t].amount \in past[call[t].asset]

LEMMA InitHistory ==
    ASSUME Init
    PROVE  FlagIsFunded /\ HistoryInv
BY InitTypeOK, NoneIsNoValue
   DEF Init, TypeOK, FlagIsFunded, HistoryInv, Committed, Empty

(* What a call writes to the hash. *)
LEMMA HashWrites ==
    ASSUME TypeOK, LocalsInv, HistoryInv, NEW t \in Tasks, Action(t)
    PROVE  \/ UNCHANGED hash
           \/ Del
           \/ \E f \in Amounts : Committed(f) /\ HSet(f)
<1>1. CASE UpdateSingleBalance(t)
  <2> DEFINE f == [read[t] EXCEPT ![call[t].asset] = call[t].amount]
  <2>1. f \in Amounts
    BY CallTypes DEF TypeOK, Amounts
  <2>2. Committed(f)
    BY <1>1 DEF UpdateSingleBalance, HistoryInv, Committed, TypeOK, Amounts
  <2> QED
    BY <1>1, <2>1, <2>2 DEF UpdateSingleBalance
<1>2. CASE Refresh(t)
  BY <1>2 DEF Refresh, HistoryInv, TypeOK
<1>3. CASE WarmUp(t)
  BY <1>3 DEF WarmUp, HistoryInv, TypeOK
<1>4. CASE Move(t) \/ BeginRefresh(t) \/ ReadHash(t)
  BY <1>4 DEF Move, BeginRefresh, ReadHash, hash
<1>5. CASE BeginCheck(t) \/ BeginHasBalance(t) \/ BeginRequires(t) \/ Return(t) \/ Fail(t)
  BY <1>5 DEF BeginCheck, BeginHasBalance, BeginRequires, Return, Fail, hash
<1>6. CASE \/ CheckBalances(t) \/ ReadRows(t) \/ GetBalances(t) \/ CanTransact(t)
           \/ GetAssetAmount(t)
  BY <1>6 DEF CheckBalances, ReadRows, GetBalances, CanTransact, GetAssetAmount, Answer, hash
<1> QED
  BY <1>1, <1>2, <1>3, <1>4, <1>5, <1>6 DEF Action

LEMMA HashStepsAreFunded ==
    ASSUME FlagIsFunded, UNCHANGED hash \/ Del \/ \E f \in Amounts : HSet(f)
    PROVE  FlagIsFunded'
<1>1. CASE UNCHANGED hash
  BY <1>1 DEF hash, FlagIsFunded, AnyPositive, Positive
<1>2. CASE Del
  BY <1>2, NoneIsNoValue DEF Del, FlagIsFunded
<1>3. ASSUME NEW f \in Amounts, HSet(f)
      PROVE  FlagIsFunded'
  BY <1>3 DEF HSet, FlagIsFunded, AnyPositive, Positive
<1> QED
  BY <1>1, <1>2, <1>3

(* Amounts once committed stay in the history, and new ones enter it. *)
LEMMA PastGrows ==
    ASSUME TypeOK, Committed(balance), NEW t \in Tasks, Action(t)
    PROVE  (\A a \in Assets : past[a] \subseteq past'[a]) /\ Committed(balance)'
<1>1. CASE Move(t)
  BY <1>1, NoneIsNoValue DEF Move, TypeOK, Committed, Amounts
<1>2. CASE ~Move(t)
  <2>1. UNCHANGED database
    BY <1>2 DEF Action, ReadHash, UpdateSingleBalance, BeginRefresh, Refresh, BeginCheck,
         CheckBalances, BeginHasBalance, BeginRequires, ReadRows, WarmUp, GetBalances,
         CanTransact, GetAssetAmount, Return, Fail, End, Answer, database
  <2> QED
    BY <2>1 DEF database, Committed
<1> QED
  BY <1>1, <1>2

(* What the acting task knows afterwards. *)
LEMMA LocalHistory ==
    ASSUME TypeOK, HistoryInv, NEW t \in Tasks, Action(t)
    PROVE  /\ read'[t] \in {read[t], fields, balance, Empty}
           /\ pc'[t] \in {"hgetall", "hset"} => call'[t].amount \in past'[call'[t].asset]
<1>1. read'[t] \in {read[t], fields, balance, Empty}
  BY DEF TypeOK, Action, Move, ReadHash, UpdateSingleBalance, BeginRefresh, Refresh, BeginCheck,
         CheckBalances, BeginHasBalance, BeginRequires, ReadRows, WarmUp, GetBalances,
         CanTransact, GetAssetAmount, Return, Fail, End
<1>2. pc'[t] \in {"hgetall", "hset"} => call'[t].amount \in past'[call'[t].asset]
  <2>1. CASE Move(t)
    BY <2>1 DEF Move, Start, TypeOK, NoCall
  <2>2. CASE ReadHash(t)
    BY <2>2 DEF ReadHash, GoTo, database, HistoryInv
  <2>3. CASE ~Move(t) /\ ~ReadHash(t)
    BY <2>3 DEF TypeOK, Action, UpdateSingleBalance, BeginRefresh, Refresh, BeginCheck,
         CheckBalances, BeginHasBalance, BeginRequires, ReadRows, WarmUp, GetBalances,
         CanTransact, GetAssetAmount, Return, Fail, Start, GoTo, End, Answer
  <2> QED
    BY <2>1, <2>2, <2>3
<1> QED
  BY <1>1, <1>2

LEMMA StepHistory ==
    ASSUME TypeOK, LocalsInv, FlagIsFunded, HistoryInv, [Next]_vars
    PROVE  FlagIsFunded' /\ HistoryInv'
<1>1. CASE UNCHANGED vars
  BY <1>1 DEF vars, database, hash, FlagIsFunded, AnyPositive, Positive, HistoryInv, Committed
<1>2. CASE Evict
  <2>1. FlagIsFunded'
    BY <1>2, HashStepsAreFunded DEF Evict
  <2>2. HistoryInv'
    BY <1>2 DEF Evict, Del, Empty, database, HistoryInv, Committed
  <2> QED
    BY <2>1, <2>2
<1>3. ASSUME NEW t \in Tasks, Action(t)
      PROVE  FlagIsFunded' /\ HistoryInv'
  <2>1. \/ UNCHANGED hash
        \/ Del
        \/ \E f \in Amounts : Committed(f) /\ HSet(f)
    BY <1>3, HashWrites
  <2>2. FlagIsFunded'
    BY <2>1, HashStepsAreFunded
  <2>3. (\A a \in Assets : past[a] \subseteq past'[a]) /\ Committed(balance)'
    BY <1>3, PastGrows DEF HistoryInv
  <2>4. \A a \in Assets : fields'[a] # None => fields'[a] \in past[a]
    BY <2>1 DEF HistoryInv, Committed, hash, Del, Empty, HSet
  <2>5. Committed(fields)'
    BY <2>3, <2>4 DEF Committed
  <2>6. /\ read'[t] \in {read[t], fields, balance, Empty}
        /\ pc'[t] \in {"hgetall", "hset"} => call'[t].amount \in past'[call'[t].asset]
    BY <1>3, LocalHistory
  <2>7. Committed(read[t])'
    BY <2>3, <2>6 DEF HistoryInv, Committed, Empty
  <2>8. ASSUME NEW u \in Tasks \ {t}
        PROVE  /\ Committed(read[u])'
               /\ pc'[u] \in {"hgetall", "hset"} => call'[u].amount \in past'[call'[u].asset]
    <3>1. pc'[u] = pc[u] /\ call'[u] = call[u] /\ read'[u] = read[u]
      BY <1>3, OthersUnchanged
    <3> QED
      BY <2>3, <3>1 DEF HistoryInv, Committed, LocalsInv, LocalsOf
  <2> QED
    BY <2>2, <2>3, <2>5, <2>6, <2>7, <2>8 DEF HistoryInv
<1> QED
  BY <1>1, <1>2, <1>3, NextIsAction

-----------------------------------------------------------------------------

(* The hash shows balances, and the flag is exact. *)
Current ==
    /\ \A a \in Assets : fields[a] \in {None, balance[a]}
    /\ ~Cold => (can_transact = TRUE <=> AnyPositive(fields))

(* What a writer that nothing disturbed holds at each of its awaits. *)
Ready(t) ==
    /\ pc[t] \in {"hgetall", "hset"} => call[t].amount = balance[call[t].asset]
    /\ pc[t] = "hgetall" =>
          \A a \in Assets \ {call[t].asset} : fields[a] \in {None, balance[a]}
    /\ pc[t] = "hset" =>
          /\ \A a \in Assets \ {call[t].asset} : read[t][a] \in {None, balance[a]}
          /\ fields \in {read[t], Empty}
    /\ pc[t] = "set" => read[t] = balance
    /\ pc[t] \in {"rows", "set"} => Current

SerialInv ==
    ~tainted =>
        /\ \A t, u \in Tasks : Writing(t) /\ Writing(u) => t = u
        /\ (\A t \in Tasks : ~Writing(t)) => Current
        /\ \A t \in Tasks : Ready(t)

SoloInv ==
    \A t \in Tasks :
        solo[t] /\ pc[t] # "idle" =>
            /\ \A u \in Tasks \ {t} : pc[u] = "idle"
            /\ pc[t] = "set" => read[t] = balance

(* A balance without a row never had one. *)
UnknownInv == \A a \in Assets : balance[a] = None => past[a] = {}

(* HSet of amounts that are current, and cover what the hash shows. *)
LEMMA HSetIsCurrent ==
    ASSUME TypeOK, UNCHANGED balance, NEW f \in Amounts, HSet(f),
           \A a \in Assets : f[a] \in {None, balance[a]},
           \A a \in Assets : f[a] = None => fields[a] = None
    PROVE  Current'
<1>1. fields' = f
  BY DEF HSet, TypeOK, Amounts
<1>2. can_transact' = AnyPositive(fields')
  BY <1>1 DEF HSet
<1> QED
  BY <1>1, <1>2 DEF Current, AnyPositive, Positive

LEMMA DelIsCurrent ==
    ASSUME Del
    PROVE  Current'
BY DEF Del, Current, Cold, Empty

(* A writing call begins. *)
LEMMA BeginSerial ==
    ASSUME TypeOK, SerialInv, NEW t \in Tasks, pc[t] = "idle", Writing(t)', Overlap(t),
           UNCHANGED hash,
           \A u \in Tasks \ {t} : pc'[u] = pc[u] /\ call'[u] = call[u] /\ read'[u] = read[u],
           (Current /\ \A u \in Tasks : ~Writing(u)) => Ready(t)'
    PROVE  SerialInv'
<1> SUFFICES ASSUME ~tainted'
             PROVE  /\ \A u, v \in Tasks : Writing(u)' /\ Writing(v)' => u = v
                    /\ (\A u \in Tasks : ~Writing(u)') => Current'
                    /\ \A u \in Tasks : Ready(u)'
  BY DEF SerialInv
<1>1. ~tainted /\ \A u \in Tasks : ~Writing(u)
  BY DEF Overlap, Writing
<1>2. Current
  BY <1>1 DEF SerialInv
<1>3. Ready(t)'
  BY <1>1, <1>2
<1>4. \A u \in Tasks \ {t} : ~Writing(u)' /\ Ready(u)'
  BY <1>1 DEF Writing, Ready
<1> QED
  BY <1>3, <1>4

(* A call ends writing, or was the only one. *)
LEMMA RestSerial ==
    ASSUME SerialInv, NEW t \in Tasks, Writing(t), ~Writing(t)',
           \A u \in Tasks \ {t} : pc'[u] = pc[u],
           (~tainted' /\ tainted) => \A u \in Tasks \ {t} : ~Writing(u),
           ~tainted' => Current'
    PROVE  SerialInv'
<1> SUFFICES ASSUME ~tainted'
             PROVE  \A u \in Tasks : ~Writing(u)'
  BY DEF SerialInv, Ready, Writing
<1> QED
  BY DEF SerialInv, Writing

(* A step of a call that is not writing the hash. *)
LEMMA IdleSerial ==
    ASSUME SerialInv, NEW t \in Tasks, ~Writing(t), ~Writing(t)',
           \A u \in Tasks \ {t} : pc'[u] = pc[u] /\ call'[u] = call[u] /\ read'[u] = read[u],
           UNCHANGED <<balance, hash, tainted>>
    PROVE  SerialInv'
<1>1. Current' = Current
  BY DEF Current, Cold, AnyPositive, Positive, hash
<1>2. \A u \in Tasks : Writing(u)' = Writing(u)
  BY DEF Writing
<1>3. Ready(t)'
  BY DEF Ready, Writing
<1>4. \A u \in Tasks \ {t} : Ready(u) => Ready(u)'
  BY <1>1 DEF Ready, hash
<1> QED
  BY <1>1, <1>2, <1>3, <1>4 DEF SerialInv

LEMMA MoveSerial ==
    ASSUME TypeOK, SerialInv, NEW t \in Tasks, Move(t),
           \A u \in Tasks \ {t} : pc'[u] = pc[u] /\ call'[u] = call[u] /\ read'[u] = read[u]
    PROVE  SerialInv'
<1>1. PICK a \in Assets, delta \in Deltas :
        LET before == IF balance[a] = None THEN 0 ELSE balance[a]
        IN  /\ balance' = [balance EXCEPT ![a] = before + delta]
            /\ Start(t, [NoCall EXCEPT !.op = "move", !.asset = a, !.amount = before + delta],
                     "hgetall")
            /\ Overlap(t)
            /\ UNCHANGED <<hash, read>>
  BY DEF Move
<1> DEFINE amount == (IF balance[a] = None THEN 0 ELSE balance[a]) + delta
<1>2. /\ pc[t] = "idle" /\ pc'[t] = "hgetall"
      /\ call'[t].asset = a /\ call'[t].amount = amount
      /\ balance'[a] = amount /\ \A b \in Assets \ {a} : balance'[b] = balance[b]
  BY <1>1 DEF Start, TypeOK, NoCall, Amounts
<1> HIDE DEF amount
<1>3. Current => Ready(t)'
  BY <1>1, <1>2 DEF Current, Ready, TypeOK, Amounts, hash
<1> QED
  BY <1>1, <1>2, <1>3, BeginSerial DEF Writing

LEMMA BeginsSerial ==
    ASSUME TypeOK, SerialInv, NEW t \in Tasks,
           BeginRefresh(t) \/ BeginCheck(t) \/ BeginHasBalance(t) \/ BeginRequires(t),
           \A u \in Tasks \ {t} : pc'[u] = pc[u] /\ call'[u] = call[u] /\ read'[u] = read[u]
    PROVE  SerialInv'
<1>1. pc[t] = "idle" /\ UNCHANGED <<balance, past, hash>>
  BY DEF BeginRefresh, BeginCheck, BeginHasBalance, BeginRequires, Start, database
<1>2. Current' = Current
  BY <1>1 DEF Current, Cold, AnyPositive, Positive, hash
<1>3. CASE BeginRefresh(t)
  <2>1. pc'[t] = "set" /\ read'[t] = balance /\ Overlap(t)
    BY <1>3 DEF BeginRefresh, Start, TypeOK
  <2> QED
    BY <1>1, <1>2, <2>1, BeginSerial DEF Ready, Writing
<1>4. CASE ~BeginRefresh(t)
  <2>1. \/ pc'[t] = "rows" /\ Overlap(t)
        \/ pc'[t] \in {"fields", "answered", "flag"} /\ UNCHANGED tainted
    BY <1>4 DEF BeginCheck, BeginHasBalance, BeginRequires, Start, TypeOK
  <2>2. CASE pc'[t] = "rows" /\ Overlap(t)
    BY <1>1, <1>2, <2>2, BeginSerial DEF Ready, Writing
  <2>3. CASE pc'[t] \in {"fields", "answered", "flag"} /\ UNCHANGED tainted
    BY <1>1, <2>3, IdleSerial DEF Writing
  <2> QED
    BY <2>1, <2>2, <2>3
<1> QED
  BY <1>3, <1>4

(* The writers' remaining steps; a refresh that ran alone clears tainted. *)
LEMMA ReadSerial ==
    ASSUME TypeOK, SerialInv, NEW t \in Tasks,
           \/ ReadHash(t)
           \/ ReadRows(t) /\ balance # Empty,
           \A u \in Tasks \ {t} : pc'[u] = pc[u] /\ call'[u] = call[u] /\ read'[u] = read[u]
    PROVE  SerialInv'
<1>1. Writing(t) /\ Writing(t)' /\ UNCHANGED <<balance, fields, can_transact, tainted>>
  BY DEF ReadHash, ReadRows, GoTo, Writing, TypeOK, database, hash, history
<1>2. Current' = Current
  BY <1>1 DEF Current, Cold, AnyPositive, Positive
<1> SUFFICES ASSUME ~tainted
             PROVE  /\ \A u, v \in Tasks : Writing(u)' /\ Writing(v)' => u = v
                    /\ \A u \in Tasks : Ready(u)'
  BY <1>1 DEF SerialInv
<1>3. \A u \in Tasks \ {t} : ~Writing(u)
  BY <1>1 DEF SerialInv
<1>4. \A u \in Tasks \ {t} : ~Writing(u)' /\ Ready(u)'
  BY <1>3 DEF Writing, Ready
<1>5. Ready(t)
  BY DEF SerialInv
<1>6. Ready(t)'
  <2>1. CASE ReadHash(t)
    <3>1. /\ pc[t] = "hgetall" /\ pc'[t] = "hset" /\ read'[t] = fields
          /\ call' = call /\ fields' = fields /\ balance' = balance
      BY <1>1, <2>1 DEF ReadHash, GoTo, TypeOK
    <3> QED
      BY <1>5, <3>1 DEF Ready
  <2>2. CASE ReadRows(t) /\ balance # Empty
    <3>1. pc[t] = "rows" /\ pc'[t] = "set" /\ read'[t] = balance /\ balance' = balance
      BY <1>1, <2>2 DEF ReadRows, GoTo, TypeOK
    <3>2. Current'
      BY <1>2, <1>5, <3>1 DEF Ready
    <3> QED
      BY <3>1, <3>2 DEF Ready
  <2> QED
    BY <2>1, <2>2
<1> QED
  BY <1>4, <1>6

LEMMA WriteSerial ==
    ASSUME TypeOK, LocalsInv, HistoryInv, UnknownInv, SoloInv, SerialInv, NEW t \in Tasks,
           UpdateSingleBalance(t) \/ Refresh(t) \/ WarmUp(t),
           \A u \in Tasks \ {t} : pc'[u] = pc[u] /\ call'[u] = call[u] /\ read'[u] = read[u]
    PROVE  SerialInv'
<1>1. Writing(t) /\ ~Writing(t)' /\ UNCHANGED balance
  BY DEF UpdateSingleBalance, Refresh, WarmUp, End, GoTo, Writing, TypeOK, database
<1>2. ASSUME tainted, ~tainted'
      PROVE  Refresh(t) /\ solo[t] /\ pc[t] # "idle" /\ read[t] = balance
  BY <1>2 DEF UpdateSingleBalance, Refresh, WarmUp, history, SoloInv
<1>3. ASSUME tainted, ~tainted'
      PROVE  \A u \in Tasks \ {t} : ~Writing(u)
  BY <1>2, <1>3 DEF SoloInv, Writing
<1>4. ~tainted => Ready(t)
  BY DEF SerialInv
<1>5. ~tainted' => Current'
  <2>1. CASE UpdateSingleBalance(t)
    <3> DEFINE f == [read[t] EXCEPT ![call[t].asset] = call[t].amount]
    <3>1. SUFFICES ASSUME ~tainted PROVE Current'
      BY <2>1 DEF UpdateSingleBalance
    <3>2. /\ call[t].asset \in Assets /\ call[t].amount = balance[call[t].asset]
          /\ \A a \in Assets \ {call[t].asset} : read[t][a] \in {None, balance[a]}
          /\ fields \in {read[t], Empty}
      BY <1>4, <2>1, <3>1 DEF UpdateSingleBalance, Ready, LocalsInv, LocalsOf
    <3>3. f \in Amounts /\ HSet(f)
      BY <2>1, CallTypes DEF UpdateSingleBalance, TypeOK, Amounts
    <3>4. \A a \in Assets : f[a] \in {None, balance[a]}
      BY <3>2 DEF TypeOK, Amounts
    <3>5. \A a \in Assets : f[a] = None => fields[a] = None
      <4>1. call[t].amount # None
        BY CallTypes, NoneIsNoValue DEF TypeOK
      <4> QED
        BY <3>2, <4>1 DEF TypeOK, Amounts, Empty
    <3> QED
      BY <1>1, <3>3, <3>4, <3>5, HSetIsCurrent
  <2>2. CASE Refresh(t) \/ WarmUp(t)
    <3>1. SUFFICES ASSUME ~tainted' PROVE Current'
      OBVIOUS
    <3>2. read[t] = balance
      BY <1>2, <1>4, <2>2, <3>1 DEF Refresh, WarmUp, Ready
    <3>3. CASE HSet(read[t])
      <4>1. \A a \in Assets : read[t][a] = None => fields[a] = None
        BY <3>2 DEF UnknownInv, HistoryInv, Committed
      <4> QED
        BY <1>1, <3>2, <3>3, <4>1, HSetIsCurrent DEF TypeOK
    <3>4. CASE Del
      BY <3>4, DelIsCurrent
    <3> QED
      BY <2>2, <3>3, <3>4 DEF Refresh, WarmUp
  <2> QED
    BY <2>1, <2>2
<1> QED
  BY <1>1, <1>3, <1>5, RestSerial

LEMMA CheckSerial ==
    ASSUME TypeOK, LocalsInv, SerialInv, NEW t \in Tasks,
           \/ CheckBalances(t) \/ GetBalances(t) \/ CanTransact(t) \/ GetAssetAmount(t)
           \/ Return(t)
           \/ Fail(t) /\ ~Writing(t),
           \A u \in Tasks \ {t} : pc'[u] = pc[u] /\ call'[u] = call[u] /\ read'[u] = read[u]
    PROVE  SerialInv'
<1>1. UNCHANGED <<balance, hash, tainted>>
  BY DEF CheckBalances, GetBalances, CanTransact, GetAssetAmount, Return, Fail, Answer, End,
         database, hash, history, Writing, TypeOK
<1>2. ~Writing(t) /\ ~Writing(t)'
  BY DEF CheckBalances, GetBalances, CanTransact, GetAssetAmount, Return, Fail, Answer, End,
         GoTo, Writing, TypeOK
<1> QED
  BY <1>1, <1>2, IdleSerial

(* A writing call is lost, or finds no rows to write. *)
LEMMA LostSerial ==
    ASSUME TypeOK, SerialInv, NEW t \in Tasks, Writing(t),
           \/ Fail(t)
           \/ ReadRows(t) /\ balance = Empty,
           \A u \in Tasks \ {t} : pc'[u] = pc[u] /\ call'[u] = call[u] /\ read'[u] = read[u]
    PROVE  SerialInv'
<1>1. UNCHANGED <<balance, hash>> /\ ~Writing(t)'
  BY DEF Fail, ReadRows, Answer, End, database, hash, Writing, TypeOK
<1>2. Current' = Current
  BY <1>1 DEF Current, Cold, AnyPositive, Positive, hash
<1>3. ~tainted' => ~tainted /\ pc[t] \in {"rows", "set"}
  BY DEF Fail, ReadRows, Answer, history, Writing
<1>4. ~tainted' => Current'
  BY <1>2, <1>3 DEF SerialInv, Ready
<1> QED
  BY <1>1, <1>3, <1>4, RestSerial

LEMMA EvictSerial ==
    ASSUME TypeOK, SerialInv, Evict
    PROVE  SerialInv'
<1>1. Current'
  BY DelIsCurrent DEF Evict
<1>2. /\ fields' = Empty
      /\ UNCHANGED <<balance, pc, call, read, tainted>>
  BY DEF Evict, Del, database, history
<1>3. \A u \in Tasks : Ready(u) => Ready(u)'
  BY <1>1, <1>2 DEF Ready, Empty
<1>4. \A u \in Tasks : Writing(u)' = Writing(u)
  BY <1>2 DEF Writing
<1> QED
  BY <1>1, <1>2, <1>3, <1>4 DEF SerialInv

LEMMA ActionSerial ==
    ASSUME TypeOK, LocalsInv, HistoryInv, UnknownInv, SoloInv, SerialInv, NEW t \in Tasks, Action(t)
    PROVE  SerialInv'
<1>1. \A u \in Tasks \ {t} : pc'[u] = pc[u] /\ call'[u] = call[u] /\ read'[u] = read[u]
  BY OthersUnchanged
<1>2. CASE Move(t)
  BY <1>1, <1>2, MoveSerial
<1>3. CASE BeginRefresh(t) \/ BeginCheck(t) \/ BeginHasBalance(t) \/ BeginRequires(t)
  BY <1>1, <1>3, BeginsSerial
<1>4. CASE ReadHash(t) \/ ReadRows(t)
  <2>1. Writing(t)
    BY <1>4 DEF ReadHash, ReadRows, Writing
  <2> QED
    BY <1>1, <1>4, <2>1, ReadSerial, LostSerial
<1>5. CASE UpdateSingleBalance(t) \/ Refresh(t) \/ WarmUp(t)
  BY <1>1, <1>5, WriteSerial
<1>6. CASE \/ CheckBalances(t) \/ GetBalances(t) \/ CanTransact(t) \/ GetAssetAmount(t)
           \/ Return(t)
  BY <1>1, <1>6, CheckSerial
<1>7. CASE Fail(t) /\ Writing(t)
  BY <1>1, <1>7, LostSerial
<1>8. CASE Fail(t) /\ ~Writing(t)
  BY <1>1, <1>8, CheckSerial
<1> QED
  BY <1>2, <1>3, <1>4, <1>5, <1>6, <1>7, <1>8 DEF Action

(* A call begins and learns whether it is alone, or goes on. *)
LEMMA SoloSteps ==
    ASSUME TypeOK, NEW t \in Tasks, Action(t)
    PROVE  /\ \/ /\ pc[t] = "idle"
                 /\ \A u \in Tasks : solo'[u] <=> u = t /\ \A v \in Tasks \ {t} : pc[v] = "idle"
              \/ pc[t] # "idle" /\ UNCHANGED <<solo, database>>
           /\ pc'[t] = "set" => read'[t] = balance /\ UNCHANGED balance
<1>1. CASE \/ Move(t) \/ BeginRefresh(t) \/ BeginCheck(t) \/ BeginHasBalance(t)
           \/ BeginRequires(t)
  <2>1. /\ pc[t] = "idle"
        /\ \A u \in Tasks : solo'[u] <=> u = t /\ \A v \in Tasks \ {t} : pc[v] = "idle"
    BY <1>1 DEF Move, BeginRefresh, BeginCheck, BeginHasBalance, BeginRequires, Start
  <2>2. pc'[t] = "set" => read'[t] = balance /\ UNCHANGED balance
    BY <1>1 DEF Move, BeginRefresh, BeginCheck, BeginHasBalance, BeginRequires, Start, TypeOK,
                database
  <2> QED
    BY <2>1, <2>2
<1>2. CASE ~(\/ Move(t) \/ BeginRefresh(t) \/ BeginCheck(t) \/ BeginHasBalance(t)
             \/ BeginRequires(t))
  <2>1. pc[t] # "idle" /\ UNCHANGED <<solo, database>>
    BY <1>2 DEF Action, ReadHash, UpdateSingleBalance, Refresh, CheckBalances, ReadRows, WarmUp,
         GetBalances, CanTransact, GetAssetAmount, Return, Fail, End, Answer, database, history
  <2>2. pc'[t] = "set" => read'[t] = balance
    BY <1>2 DEF Action, ReadHash, UpdateSingleBalance, Refresh, CheckBalances, ReadRows, WarmUp,
         GetBalances, CanTransact, GetAssetAmount, Return, Fail, GoTo, End, Answer, TypeOK
  <2> QED
    BY <2>1, <2>2 DEF database
<1> QED
  BY <1>1, <1>2

LEMMA ActionSolo ==
    ASSUME TypeOK, SoloInv, NEW t \in Tasks, Action(t)
    PROVE  SoloInv'
<1>1. \A u \in Tasks \ {t} : pc'[u] = pc[u] /\ read'[u] = read[u]
  BY OthersUnchanged
<1>2. \A u \in Tasks \ {t} : solo'[u] => pc[u] = "idle"
  BY SoloSteps DEF SoloInv
<1>3. solo'[t] => \A u \in Tasks \ {t} : pc[u] = "idle"
  BY SoloSteps DEF SoloInv
<1>4. pc'[t] = "set" => read'[t] = balance'
  BY SoloSteps
<1> QED
  BY <1>1, <1>2, <1>3, <1>4 DEF SoloInv

LEMMA ActionUnknown ==
    ASSUME TypeOK, UnknownInv, NEW t \in Tasks, Action(t)
    PROVE  UnknownInv'
<1>1. CASE Move(t)
  BY <1>1, NoneIsNoValue, ArgumentsAreTyped DEF Move, TypeOK, UnknownInv, Amounts
<1>2. CASE ~Move(t)
  <2>1. UNCHANGED database
    BY <1>2 DEF Action, ReadHash, UpdateSingleBalance, BeginRefresh, Refresh, BeginCheck,
         CheckBalances, BeginHasBalance, BeginRequires, ReadRows, WarmUp, GetBalances,
         CanTransact, GetAssetAmount, Return, Fail, End, Answer, database
  <2> QED
    BY <2>1 DEF database, UnknownInv
<1> QED
  BY <1>1, <1>2

-----------------------------------------------------------------------------

(* What a check that nothing disturbed may answer. *)
ServedOf(t) ==
    solo[t] /\ ~tainted =>
        /\ pc[t] \in {"fields", "answered"} /\ call[t].answer => Funded(call[t])
        /\ pc[t] = "amount" => AnyPositive(balance)

ServedInv == \A t \in Tasks : ServedOf(t)

LEMMA AloneIsCurrent ==
    ASSUME SerialInv, ~tainted, NEW t \in Tasks, ~Writing(t),
           \A u \in Tasks \ {t} : pc[u] = "idle"
    PROVE  Current
BY DEF SerialInv, Writing

LEMMA CurrentFunds ==
    ASSUME TypeOK, Current
    PROVE  /\ \A asked \in SUBSET Assets : Positive(fields, asked) => Positive(balance, asked)
           /\ can_transact = TRUE => AnyPositive(balance)
<1>1. ASSUME NEW asked \in SUBSET Assets, Positive(fields, asked)
      PROVE  Positive(balance, asked)
  BY <1>1 DEF Current, Positive
<1>2. can_transact = TRUE => ~Cold
  BY NoneIsNoValue DEF Cold
<1> QED
  BY <1>1, <1>2 DEF Current, AnyPositive

LEMMA BeginServed ==
    ASSUME TypeOK, SerialInv, NEW t \in Tasks, BeginCheck(t) \/ BeginHasBalance(t)
    PROVE  ServedOf(t)'
<1> SUFFICES ASSUME solo'[t], ~tainted', pc'[t] \in {"fields", "answered"}, call'[t].answer
             PROVE  Funded(call[t])'
  BY DEF ServedOf, BeginCheck, BeginHasBalance, Start, TypeOK
<1>1. /\ pc[t] = "idle" /\ ~tainted /\ balance' = balance
      /\ \A u \in Tasks \ {t} : pc[u] = "idle"
  BY DEF BeginCheck, BeginHasBalance, Start, Overlap, database
<1>2. Current
  BY <1>1, AloneIsCurrent DEF Writing
<1>3. CASE BeginCheck(t)
  <2>1. call'[t].op = "check" /\ can_transact = TRUE
    BY <1>3 DEF BeginCheck, Start, TypeOK, NoCall
  <2> QED
    BY <1>1, <1>2, <2>1, CurrentFunds DEF Funded, AnyPositive, Positive
<1>4. CASE BeginHasBalance(t)
  <2>1. PICK asked \in SUBSET Assets :
          LET request == [NoCall EXCEPT !.op = "has_balance", !.asked = asked]
          IN  \/ Start(t, request, "rows")
              \/ Start(t, [request EXCEPT !.answer = Positive(fields, asked)], "answered")
    BY <1>4 DEF BeginHasBalance
  <2>2. call'[t].op = "has_balance" /\ call'[t].asked = asked /\ Positive(fields, asked)
    <3>1. CASE Start(t, [NoCall EXCEPT !.op = "has_balance", !.asked = asked], "rows")
      BY <3>1 DEF NoCall, Start, TypeOK
    <3>2. CASE Start(t, [[NoCall EXCEPT !.op = "has_balance", !.asked = asked]
                           EXCEPT !.answer = Positive(fields, asked)], "answered")
      BY <3>2 DEF NoCall, Start, TypeOK
    <3> QED
      BY <2>1, <3>1, <3>2
  <2>3. Positive(balance, asked)
    BY <1>2, <2>2, CurrentFunds
  <2> QED
    BY <1>1, <2>2, <2>3 DEF Funded, Positive
<1> QED
  BY <1>3, <1>4

(* An answer that is no stands, and a yes came from a current hash. *)
LEMMA AnswerServed ==
    ASSUME TypeOK, SerialInv, NEW t \in Tasks, ~Writing(t),
           solo[t] => \A u \in Tasks \ {t} : pc[u] = "idle",
           NEW yes \in BOOLEAN, Answer(t, yes),
           solo[t] /\ ~tainted /\ yes /\ Current => Funded([call[t] EXCEPT !.answer = yes])
    PROVE  ServedOf(t)'
<1> SUFFICES ASSUME solo'[t], ~tainted', call'[t].answer
             PROVE  Funded(call[t])'
  BY DEF ServedOf, Answer, TypeOK
<1>1. solo[t] /\ ~tainted /\ UNCHANGED balance
  BY DEF Answer, history, database
<1>2. call'[t] = [call[t] EXCEPT !.answer = yes]
  BY DEF Answer, TypeOK
<1>3. yes
  BY <1>2 DEF TypeOK, Call
<1>4. Current
  BY <1>1, AloneIsCurrent
<1>5. Funded(call'[t])
  BY <1>1, <1>2, <1>3, <1>4
<1> QED
  BY <1>1, <1>5 DEF Funded, AnyPositive, Positive

LEMMA CheckServed ==
    ASSUME TypeOK, LocalsInv, SerialInv, SoloInv, ServedInv, NEW t \in Tasks,
           CheckBalances(t) \/ GetBalances(t) \/ CanTransact(t) \/ GetAssetAmount(t)
    PROVE  ServedOf(t)'
<1>1. /\ ~Writing(t) /\ LocalsOf(t) /\ ServedOf(t)
      /\ solo[t] => \A u \in Tasks \ {t} : pc[u] = "idle"
  BY DEF CheckBalances, GetBalances, CanTransact, GetAssetAmount, Writing, LocalsInv, SoloInv,
         ServedInv
<1> DEFINE After(yes) == [call[t] EXCEPT !.answer = yes]
<1>2. ASSUME NEW yes \in BOOLEAN
      PROVE  /\ After(yes).op = call[t].op /\ After(yes).asked = call[t].asked
             /\ After(yes).asset = call[t].asset /\ After(yes).amount = call[t].amount
  BY DEF TypeOK, Call
<1>3. call[t].asked \in SUBSET Assets /\ call[t].amount \in Nat /\ call[t].answer \in BOOLEAN
  BY CallTypes DEF TypeOK
<1>4. CASE CheckBalances(t)
  <2> DEFINE yes == call[t].answer /\ ~Cold
  <2>1. Answer(t, yes)
    BY <1>4 DEF CheckBalances
  <2>2. solo[t] /\ ~tainted /\ yes => Funded(After(yes))
    BY <1>1, <1>2, <1>3, <1>4 DEF CheckBalances, ServedOf, LocalsOf, Funded
  <2>3. yes \in BOOLEAN
    BY <1>3
  <2> QED
    BY <1>1, <2>1, <2>2, <2>3, AnswerServed
<1>5. CASE GetBalances(t) /\ call[t].op = "has_balance"
  <2> DEFINE yes == Positive(fields, call[t].asked)
  <2>1. Answer(t, yes) /\ yes \in BOOLEAN
    BY <1>5 DEF GetBalances, Positive
  <2>2. yes /\ Current => Positive(balance, call[t].asked)
    BY <1>3, CurrentFunds
  <2>3. yes /\ Current => Funded(After(yes))
    BY <1>2, <1>5, <2>1, <2>2 DEF Funded
  <2> QED
    BY <1>1, <2>1, <2>3, AnswerServed
<1>6. CASE GetBalances(t) /\ call[t].op # "has_balance"
  BY <1>6 DEF GetBalances, GoTo, ServedOf, TypeOK
<1>7. CASE CanTransact(t)
  <2>1. CASE can_transact # TRUE
    BY <1>1, <1>7, <2>1, AnswerServed DEF CanTransact
  <2>2. CASE can_transact = TRUE /\ call[t].amount = 0
    <3>1. Answer(t, TRUE) /\ call[t].op = "requires"
      BY <1>1, <1>7, <2>2 DEF CanTransact, LocalsOf
    <3>2. After(TRUE).op = "requires" /\ After(TRUE).amount = 0
      BY <1>2, <2>2, <3>1
    <3>3. Current => AnyPositive(balance)
      BY <2>2, CurrentFunds
    <3>4. \A r : r.op = "requires" /\ r.amount = 0 /\ AnyPositive(balance) => Funded(r)
      BY DEF Funded
    <3>5. Current => Funded(After(TRUE))
      BY <3>2, <3>3, <3>4
    <3> QED
      BY <1>1, <3>1, <3>5, AnswerServed
  <2>3. CASE can_transact = TRUE /\ call[t].amount # 0
    <3>1. pc'[t] = "amount" /\ UNCHANGED <<balance, solo, tainted>>
      BY <1>7, <2>3 DEF CanTransact, GoTo, TypeOK, database, history
    <3>2. solo[t] /\ ~tainted => AnyPositive(balance)
      BY <1>1, <2>3, AloneIsCurrent, CurrentFunds
    <3> QED
      BY <3>1, <3>2 DEF ServedOf, AnyPositive, Positive
  <2> QED
    BY <2>1, <2>2, <2>3
<1>8. CASE GetAssetAmount(t)
  <2> DEFINE a == call[t].asset
             yes == fields[a] # None /\ fields[a] >= call[t].amount
  <2>1. pc[t] = "amount" /\ Answer(t, yes) /\ yes \in BOOLEAN
    BY <1>8 DEF GetAssetAmount
  <2>2. call[t].op = "requires" /\ a \in Assets
    BY <1>1, <2>1 DEF LocalsOf
  <2>3. solo[t] /\ ~tainted => AnyPositive(balance)
    BY <1>1, <2>1 DEF ServedOf
  <2>4. yes /\ Current => balance[a] # None /\ balance[a] >= call[t].amount
    BY <2>2 DEF Current
  <2>5. solo[t] /\ ~tainted /\ yes /\ Current => Funded(After(yes))
    BY <1>2, <2>1, <2>2, <2>3, <2>4 DEF Funded
  <2> QED
    BY <1>1, <2>1, <2>5, AnswerServed
<1> QED
  BY <1>4, <1>5, <1>6, <1>7, <1>8

LEMMA ActionServed ==
    ASSUME TypeOK, LocalsInv, SerialInv, SoloInv, ServedInv, NEW t \in Tasks, Action(t)
    PROVE  ServedInv'
<1>1. ServedOf(t)'
  <2>1. CASE BeginCheck(t) \/ BeginHasBalance(t)
    BY <2>1, BeginServed
  <2>2. CASE CheckBalances(t) \/ GetBalances(t) \/ CanTransact(t) \/ GetAssetAmount(t)
    BY <2>2, CheckServed
  <2>3. CASE ReadRows(t) /\ balance = Empty
    <3>1. Answer(t, FALSE) /\ call'[t].answer = FALSE /\ pc'[t] = "answered"
      BY <2>3 DEF ReadRows, Answer, TypeOK, Call
    <3> QED
      BY <3>1 DEF ServedOf
  <2>4. CASE ReadRows(t) /\ balance # Empty
    BY <2>4 DEF ReadRows, GoTo, ServedOf, TypeOK
  <2>5. CASE Move(t) \/ BeginRefresh(t) \/ BeginRequires(t) \/ ReadHash(t) \/ WarmUp(t)
    BY <2>5 DEF Move, BeginRefresh, BeginRequires, ReadHash, WarmUp, Start, GoTo, ServedOf, TypeOK
  <2>6. CASE UpdateSingleBalance(t) \/ Refresh(t) \/ Return(t) \/ Fail(t)
    BY <2>6 DEF UpdateSingleBalance, Refresh, Return, Fail, End, ServedOf, TypeOK
  <2> QED
    BY <2>1, <2>2, <2>3, <2>4, <2>5, <2>6 DEF Action
<1>2. ASSUME NEW u \in Tasks \ {t}
      PROVE  ServedOf(u)'
  <2>1. solo'[u] => pc[u] = "idle"
    BY SoloSteps DEF SoloInv
  <2>2. pc'[u] = pc[u]
    BY OthersUnchanged
  <2> QED
    BY <2>1, <2>2 DEF ServedOf
<1> QED
  BY <1>1, <1>2 DEF ServedInv

SerialIInv == UnknownInv /\ SoloInv /\ SerialInv /\ ServedInv

LEMMA InitSerial ==
    ASSUME Init
    PROVE  SerialIInv
<1>1. \A t \in Tasks : pc[t] = "idle" /\ ~solo[t] /\ ~tainted
  BY DEF Init
<1>2. Current
  BY DEF Init, Current, Cold, Empty
<1>3. UnknownInv
  BY DEF Init, UnknownInv
<1> QED
  BY <1>1, <1>2, <1>3 DEF SerialIInv, SoloInv, SerialInv, ServedInv, ServedOf, Ready, Writing

LEMMA StepSerial ==
    ASSUME TypeOK, LocalsInv, HistoryInv, SerialIInv, [Next]_vars
    PROVE  SerialIInv'
<1> USE DEF SerialIInv
<1>1. CASE UNCHANGED vars \/ Evict
  <2>1. UNCHANGED <<balance, past, pc, call, read, solo, tainted>>
    BY <1>1 DEF vars, Evict, database, history
  <2>2. UnknownInv' /\ SoloInv' /\ ServedInv'
    BY <2>1 DEF UnknownInv, SoloInv, ServedInv, ServedOf, Funded, AnyPositive, Positive
  <2>3. ASSUME UNCHANGED vars PROVE SerialInv'
    BY <2>3 DEF vars, hash, database, history, SerialInv, Ready, Current, Cold, Writing,
                AnyPositive, Positive
  <2> QED
    BY <1>1, <2>2, <2>3, EvictSerial
<1>2. ASSUME NEW t \in Tasks, Action(t)
      PROVE  SerialIInv'
  BY <1>2, ActionUnknown, ActionSolo, ActionSerial, ActionServed
<1> QED
  BY <1>1, <1>2, NextIsAction

IInv == TypeOK /\ LocalsInv /\ FlagIsFunded /\ HistoryInv /\ SerialIInv

THEOREM InvIsInvariant == Spec => []IInv
<1>1. Init => IInv
  BY InitTypeOK, InitHistory, InitSerial DEF IInv
<1>2. IInv /\ [Next]_vars => IInv'
  BY StepTypes, StepHistory, StepSerial DEF IInv
<1> QED
  BY <1>1, <1>2, PTL DEF Spec

(***************************************************************************)
(* Type correctness of the Redis view: the hash, the tasks' copies of it   *)
(* and their calls stay well-formed, whatever fails or is evicted.         *)
(***************************************************************************)
THEOREM ViewIsTyped == Spec => []TypeOK
<1>1. IInv => TypeOK
  BY DEF IInv
<1> QED
  BY <1>1, InvIsInvariant, PTL

(***************************************************************************)
(* For any number of tasks, assets and calls, can_transact never promises  *)
(* money that the hash does not show.                                      *)
(***************************************************************************)
THEOREM FlagIsAlwaysFunded == Spec => []FlagIsFunded
<1>1. IInv => FlagIsFunded
  BY DEF IInv
<1> QED
  BY <1>1, InvIsInvariant, PTL

(***************************************************************************)
(* However the commands of writers interleave, the hash never shows an     *)
(* amount that was not committed at some time.                             *)
(***************************************************************************)
THEOREM ViewAlwaysShowsCommitted == Spec => []ViewShowsCommitted
<1>1. IInv => ViewShowsCommitted
  BY DEF IInv, HistoryInv, Committed, ViewShowsCommitted
<1> QED
  BY <1>1, InvIsInvariant, PTL

(***************************************************************************)
(* As long as writers do not overlap and none is lost, and again after a   *)
(* refresh that ran alone, the hash is current whenever nothing writes it, *)
(* even if it was evicted: what an update writes back is what it read, or  *)
(* the key was removed meanwhile.                                          *)
(***************************************************************************)
THEOREM ViewStaysCurrentWhenSerial == Spec => []ViewIsCurrentWhenSerial
<1>1. IInv => ViewIsCurrentWhenSerial
  BY DEF IInv, SerialIInv, SerialInv, Current, ViewIsCurrentWhenSerial
<1> QED
  BY <1>1, InvIsInvariant, PTL

(***************************************************************************)
(* A check that nothing disturbed, on a view that no race has tainted,     *)
(* lets nobody through who has not the money, for every minimum amount and *)
(* selection of assets, and whether or not it had to warm the cache.       *)
(***************************************************************************)
THEOREM ChecksServeOnlyWithFunds == Spec => []ServedOnlyWithFunds
<1>1. IInv => ServedOnlyWithFunds
  BY DEF IInv, SerialIInv, ServedInv, ServedOf, ServedOnlyWithFunds
<1> QED
  BY <1>1, InvIsInvariant, PTL
=============================================================================
