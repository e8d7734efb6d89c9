----------------------------- MODULE RedisView -----------------------------
(***************************************************************************)
(* One customer's balances in Redis (adapters/redis.py), the calls that    *)
(* write them, and the checks that read them: Gatekeeper.check,            *)
(* has_balance and BillingDecorators.requires.  CacheView is the cache     *)
(* whose calls are atomic; here every Redis command is a step, and a call  *)
(* is several of them.  pc[t] names the await of task t:                   *)
(*   hgetall, hset          update_single_balance, after a balance         *)
(*                          movement has been committed                    *)
(*   set                    the balances are read from the database and    *)
(*                          not yet written (refresh, or a warm-up)        *)
(*   rows, get              around the set of a warm-up                    *)
(*   flag, amount, fields   the single reads of a check                    *)
(*   answered               the check has its answer                       *)
(*                                                                         *)
(* The hash is kept as its asset fields and its can_transact field; with   *)
(* all fields missing the key does not exist.  Balance movements are those *)
(* of transactions of their own (BalanceService shows what they do to the  *)
(* database).                                                              *)
(***************************************************************************)
EXTENDS Models, FiniteSets

CONSTANTS
    Tasks,
    Openings,       \* balances at the start, None for no row
    Deltas,         \* the movements' signed amounts
    MinAmounts,     \* the min_amount arguments of requires
    Repositories,   \* whether has_balance is given a repository
    CacheMayFail,   \* whether a command may raise, and the key be evicted
    MaxOps          \* bound on the calls made in a behaviour

Amounts == [Assets -> Nat \union {None}]

ASSUME ArgumentsAreTyped ==
    /\ Openings \subseteq Amounts
    /\ Deltas \subseteq Int
    /\ MinAmounts \subseteq Nat
    /\ Repositories \subseteq BOOLEAN

ASSUME NoneIsNoValue == None \notin Nat \union BOOLEAN

VARIABLES
    balance,        \* customer_balances: the committed amounts of the customer
    past,           \* history: the amounts that were ever committed
    fields,         \* the asset fields of the hash
    can_transact,   \* the field can_transact, None if missing
    pc,
    call,           \* the call in progress
    read,           \* the task's copy of the fields, or of the rows
    solo,           \* history: whether no other call overlapped the task's call
    tainted,        \* history: see below
    ops

database == <<balance, past>>
hash == <<fields, can_transact>>
history == <<solo, tainted>>
vars == <<database, hash, pc, call, read, history, ops>>

Empty == [a \in Assets |-> None]
NoCall == [op |-> "none", asset |-> None, amount |-> 0, asked |-> {}, answer |-> FALSE]

Labels == {"idle", "hgetall", "hset", "set", "rows", "get", "flag", "amount", "fields",
           "answered"}
Ops == {"none", "move", "refresh", "check", "has_balance", "requires"}
Call == [op : Ops, asset : Assets \union {None}, amount : Nat, asked : SUBSET Assets,
         answer : BOOLEAN]

TypeOK ==
    /\ balance \in Amounts
    /\ past \in [Assets -> SUBSET Nat]
    /\ fields \in Amounts
    /\ can_transact \in {TRUE, FALSE, None}
    /\ pc \in [Tasks -> Labels]
    /\ call \in [Tasks -> Call]
    /\ read \in [Tasks -> Amounts]
    /\ solo \in [Tasks -> BOOLEAN]
    /\ tainted \in BOOLEAN
    /\ ops \in Nat

Init ==
    /\ balance \in Openings
    /\ past = [a \in Assets |-> IF balance[a] = None THEN {} ELSE {balance[a]}]
    /\ fields = Empty
    /\ can_transact = None
    /\ pc = [t \in Tasks |-> "idle"]
    /\ call = [t \in Tasks |-> NoCall]
    /\ read = [t \in Tasks |-> Empty]
    /\ solo = [t \in Tasks |-> FALSE]
    /\ tainted = FALSE
    /\ ops = 0

-----------------------------------------------------------------------------

Positive(f, asked) == \E a \in asked : f[a] # None /\ f[a] > 0

(* The value that goes into can_transact. *)
AnyPositive(f) == Positive(f, Assets)

(* HSET of the fields of f and of can_transact; other fields stay. *)
HSet(f) ==
    /\ fields' = [a \in Assets |-> IF f[a] # None THEN f[a] ELSE fields[a]]
    /\ can_transact' = AnyPositive(f)

Del == fields' = Empty /\ can_transact' = None

Cold == fields = Empty /\ can_transact = None

(* Calls that have still to write the hash. *)
Writing(t) == pc[t] \in {"hgetall", "hset", "set", "rows"}

(***************************************************************************)
(* tainted is raised when two writing calls overlap or a writing call is   *)
(* lost, and falls when a refresh ends that no other call overlapped.      *)
(***************************************************************************)
Overlap(t) == tainted' = (tainted \/ \E u \in Tasks \ {t} : Writing(u))

Start(t, request, label) ==
    /\ pc[t] = "idle"
    /\ ops < MaxOps
    /\ ops' = ops + 1
    /\ pc' = [pc EXCEPT ![t] = label]
    /\ call' = [call EXCEPT ![t] = request]
    /\ solo' = [u \in Tasks |-> u = t /\ \A v \in Tasks \ {t} : pc[v] = "idle"]

GoTo(t, label) ==
    /\ pc' = [pc EXCEPT ![t] = label]
    /\ UNCHANGED <<call, ops>>

End(t) ==
    /\ pc' = [pc EXCEPT ![t] = "idle"]
    /\ call' = [call EXCEPT ![t] = NoCall]
    /\ read' = [read EXCEPT ![t] = Empty]
    /\ UNCHANGED <<database, solo, ops>>

Answer(t, yes) ==
    /\ pc' = [pc EXCEPT ![t] = "answered"]
    /\ call' = [call EXCEPT ![t].answer = yes]
    /\ UNCHANGED <<database, hash, history, ops>>

-----------------------------------------------------------------------------

(* A mutant: a movement that the balance does not cover. *)
MoveOverdrawing(t) ==
    \E a \in Assets, delta \in Deltas :
        LET before == IF balance[a] = None THEN 0 ELSE balance[a]
        IN  /\ balance' = [balance EXCEPT ![a] = before + delta]
            /\ past' = [past EXCEPT ![a] = @ \union {before + delta}]
            /\ Start(t, [NoCall EXCEPT !.op = "move", !.asset = a, !.amount = before + delta],
                     "hgetall")
            /\ Overlap(t)
            /\ UNCHANGED <<hash, read>>

(* A mutant: the cache is told the amount of the movement. *)
MoveTellingDelta(t) ==
    \E a \in Assets, delta \in Deltas :
        LET before == IF balance[a] = None THEN 0 ELSE balance[a]
        IN  /\ before + delta >= 0
            /\ balance' = [balance EXCEPT ![a] = before + delta]
            /\ past' = [past EXCEPT ![a] = @ \union {before + delta}]
            /\ Start(t, [NoCall EXCEPT !.op = "move", !.asset = a,
                                       !.amount = IF delta < 0 THEN -delta ELSE delta],
                     "hgetall")
            /\ Overlap(t)
            /\ UNCHANGED <<hash, read>>

(* A charge or a refund commits in a transaction of its own, and returns the
   new balance. *)
Move(t) ==
    \E a \in Assets, delta \in Deltas :
        LET before == IF balance[a] = None THEN 0 ELSE balance[a]
        IN  /\ before + delta >= 0
            /\ balance' = [balance EXCEPT ![a] = before + delta]
            /\ past' = [past EXCEPT ![a] = @ \union {before + delta}]
            /\ Start(t, [NoCall EXCEPT !.op = "move", !.asset = a, !.amount = before + delta],
                     "hgetall")
            /\ Overlap(t)
            /\ UNCHANGED <<hash, read>>

ReadHash(t) ==
    /\ pc[t] = "hgetall"
    /\ read' = [read EXCEPT ![t] = fields]
    /\ GoTo(t, "hset")
    /\ UNCHANGED <<database, hash, history>>

(* A mutant: only the updated field is written, with the flag of what was read. *)
UpdateSingleBalanceOfField(t) ==
    /\ pc[t] = "hset"
    /\ fields' = [fields EXCEPT ![call[t].asset] = call[t].amount]
    /\ can_transact' = AnyPositive([read[t] EXCEPT ![call[t].asset] = call[t].amount])
    /\ End(t)
    /\ UNCHANGED tainted

(* The second half of update_single_balance writes back all it has read. *)
UpdateSingleBalance(t) ==
    /\ pc[t] = "hset"
    /\ HSet([read[t] EXCEPT ![call[t].asset] = call[t].amount])
    /\ End(t)
    /\ UNCHANGED tainted

(* refresh_customer_balance_cache *)
BeginRefresh(t) ==
    /\ Start(t, [NoCall EXCEPT !.op = "refresh"], "set")
    /\ read' = [read EXCEPT ![t] = balance]
    /\ Overlap(t)
    /\ UNCHANGED <<database, hash>>

(* A mutant: HSETNX, which leaves the fields that exist. *)
RefreshMissing(t) ==
    /\ pc[t] = "set" /\ call[t].op = "refresh"
    /\ IF read[t] = Empty THEN Del
       ELSE HSet([a \in Assets |-> IF fields[a] = None THEN read[t][a] ELSE fields[a]])
    /\ tainted' = (tainted /\ ~solo[t])
    /\ End(t)

Refresh(t) ==
    /\ pc[t] = "set" /\ call[t].op = "refresh"
    /\ IF read[t] = Empty THEN Del ELSE HSet(read[t])
    /\ tainted' = (tainted /\ ~solo[t])
    /\ End(t)

-----------------------------------------------------------------------------

(* Gatekeeper.check reads can_transact, and then the balances. *)
BeginCheck(t) ==
    /\ Start(t, [NoCall EXCEPT !.op = "check", !.answer = (can_transact = TRUE)], "fields")
    /\ UNCHANGED <<database, hash, read, tainted>>

CheckBalances(t) ==
    /\ pc[t] = "fields"
    /\ Answer(t, call[t].answer /\ ~Cold)
    /\ UNCHANGED read

(* has_balance; without a repository a cold cache fails closed. *)
BeginHasBalance(t) ==
    \E asked \in SUBSET Assets \ {{}}, repository \in Repositories :
        LET request == [NoCall EXCEPT !.op = "has_balance", !.asked = asked]
        IN  /\ IF Cold /\ repository
               THEN Start(t, request, "rows") /\ Overlap(t)
               ELSE /\ Start(t, [request EXCEPT !.answer = Positive(fields, asked)], "answered")
                    /\ UNCHANGED tainted
            /\ UNCHANGED <<database, hash, read>>

(* The wrapper of requires(asset, amount). *)
BeginRequires(t) ==
    \E a \in Assets, min \in MinAmounts :
        /\ Start(t, [NoCall EXCEPT !.op = "requires", !.asset = a, !.amount = min],
                 IF Cold THEN "rows" ELSE "flag")
        /\ IF Cold THEN Overlap(t) ELSE UNCHANGED tainted
        /\ UNCHANGED <<database, hash, read>>

(* A warm-up: the rows are read, written to the hash, and read back. *)
ReadRows(t) ==
    /\ pc[t] = "rows"
    /\ IF balance = Empty THEN Answer(t, FALSE) /\ UNCHANGED read
       ELSE /\ read' = [read EXCEPT ![t] = balance]
            /\ GoTo(t, "set")
            /\ UNCHANGED <<database, hash, history>>

WarmUp(t) ==
    /\ pc[t] = "set" /\ call[t].op # "refresh"
    /\ HSet(read[t])
    /\ GoTo(t, "get")
    /\ UNCHANGED <<database, read, history>>

GetBalances(t) ==
    /\ pc[t] = "get"
    /\ IF call[t].op = "has_balance" THEN Answer(t, Positive(fields, call[t].asked))
       ELSE GoTo(t, "flag") /\ UNCHANGED <<database, hash, history>>
    /\ UNCHANGED read

CanTransact(t) ==
    /\ pc[t] = "flag"
    /\ IF can_transact # TRUE THEN Answer(t, FALSE)
       ELSE IF call[t].amount = 0 THEN Answer(t, TRUE)
       ELSE GoTo(t, "amount") /\ UNCHANGED <<database, hash, history>>
    /\ UNCHANGED read

(* A mutant: an asset that the hash does not know is let through. *)
GetAssetAmountIfKnown(t) ==
    /\ pc[t] = "amount"
    /\ Answer(t, fields[call[t].asset] = None \/ fields[call[t].asset] >= call[t].amount)
    /\ UNCHANGED read

GetAssetAmount(t) ==
    /\ pc[t] = "amount"
    /\ Answer(t, fields[call[t].asset] # None /\ fields[call[t].asset] >= call[t].amount)
    /\ UNCHANGED read

Return(t) ==
    /\ pc[t] = "answered"
    /\ End(t)
    /\ UNCHANGED <<hash, tainted>>

-----------------------------------------------------------------------------

(* A command raises, or the task is cancelled; what it had to write is lost. *)
Fail(t) ==
    /\ CacheMayFail
    /\ pc[t] \notin {"idle", "answered"}
    /\ tainted' = (tainted \/ pc[t] \in {"hgetall", "hset"})
    /\ End(t)
    /\ UNCHANGED hash

(* The key is evicted, or delete_customer_cache removes it. *)
Evict ==
    /\ CacheMayFail
    /\ ~Cold
    /\ Del
    /\ UNCHANGED <<database, pc, call, read, history, ops>>

(* The bound on calls is reached and every call has returned. *)
Quiet ==
    /\ ops = MaxOps
    /\ \A t \in Tasks : pc[t] = "idle"
    /\ UNCHANGED vars

Next ==
    \/ \E t \in Tasks :
          \/ Move(t) \/ ReadHash(t) \/ UpdateSingleBalance(t)
          \/ BeginRefresh(t) \/ Refresh(t)
          \/ BeginCheck(t) \/ CheckBalances(t)
          \/ BeginHasBalance(t) \/ BeginRequires(t)
          \/ ReadRows(t) \/ WarmUp(t) \/ GetBalances(t)
          \/ CanTransact(t) \/ GetAssetAmount(t)
          \/ Return(t) \/ Fail(t)
    \/ Evict
    \/ Quiet

Spec == Init /\ [][Next]_vars

-----------------------------------------------------------------------------

(***************************************************************************)
(* can_transact never promises money that the hash does not show, whatever *)
(* updates interleave between their HGETALL and their HSET: a writer       *)
(* writes the flag together with all the fields it was computed from       *)
(* (redis.py lines 35 to 52).                                              *)
(***************************************************************************)
FlagIsFunded == can_transact = TRUE => AnyPositive(fields)

(***************************************************************************)
(* A racing update can bring back an old amount, but the hash never shows  *)
(* an amount that the database has not committed at some time.             *)
(***************************************************************************)
ViewShowsCommitted == \A a \in Assets : fields[a] # None => fields[a] \in past[a]

(***************************************************************************)
(* As long as no two writing calls overlap and none is lost, and again     *)
(* after a refresh that ran alone, what the hash shows between the calls   *)
(* is the balance, and the flag is exact (service.py lines 129 to 139).    *)
(***************************************************************************)
ViewIsCurrentWhenSerial ==
    (~tainted /\ \A t \in Tasks : ~Writing(t)) =>
        /\ \A a \in Assets : fields[a] \in {None, balance[a]}
        /\ ~Cold => (can_transact = TRUE <=> AnyPositive(fields))

Funded(request) ==
    CASE request.op = "check"       -> AnyPositive(balance)
      [] request.op = "has_balance" -> Positive(balance, request.asked)
      [] request.op = "requires"    ->
             /\ AnyPositive(balance)
             /\ request.amount > 0 =>
                   balance[request.asset] # None /\ balance[request.asset] >= request.amount

(***************************************************************************)
(* A check that runs alone on such a cache lets nobody through who has not *)
(* the money: a hash that shows only some of the assets, as after an       *)
(* update of a cold cache, errs on the side of refusing.                   *)
(***************************************************************************)
ServedOnlyWithFunds ==
    \A t \in Tasks :
        (pc[t] = "answered" /\ solo[t] /\ ~tainted /\ call[t].answer) => Funded(call[t])

(***************************************************************************)
(* has_balance returns whether the selected assets have a positive         *)
(* combined balance, and warms a cold cache from the repository (its       *)
(* docstring, checks.py lines 20 to 23).                                   *)
(***************************************************************************)
HasBalanceAgrees ==
    \A t \in Tasks :
        (pc[t] = "answered" /\ call[t].op = "has_balance" /\ solo[t] /\ ~tainted) =>
            (call[t].answer <=> Funded(call[t]))
=============================================================================
