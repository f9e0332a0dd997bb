----------------------------- MODULE DailyScan ------------------------------
(***************************************************************************)
(* How the statistics of finished days are computed: a job reads the rows  *)
(* of transactions_<day> one after the other and folds each into maps in   *)
(* memory.  The tables of finished days do not change (BlockTracking), so  *)
(* that the jobs are independent of each other and a behaviour follows one *)
(* of them:                                                                *)
(*   "flush"    flushDailyStats with accumulate, day after day             *)
(*   "count"    the scan of countForDate                                   *)
(*   "exchange" DoExchangeStatistics, day after day, while the tracker     *)
(*              goes on to learn exchanges and chargers                    *)
(*   "diff"     DoExchangeStatisticsDiff, the same with two sets of rules  *)
(*   "tronlink" DoTronLinkWeeklyStatistics, over all the days              *)
(*   "boards"   none: the transactions are read by reports only            *)
(***************************************************************************)
EXTENDS Statistics, Sums, Functions, FiniteSetsExt

CONSTANTS Addrs,          \* addresses
          TokenNames,     \* the names that a transaction may have
          ValidTokens,    \* names of the tokens in the configuration
          ExchangeNames,
          TronLinkUsers,  \* the addresses in the week's file
          MaxChanges,     \* bound: how often the registry changes during a scan
          Scans           \* [job, days, exchangeOf, chargerOf]: what is scanned, and what
                          \* the registry and the charger store know at the beginning

\* A row of transactions_<day>.
Transactions ==
    [type : Nat, owner : Addrs \cup {NoAddr}, from : Addrs \cup {NoAddr},
     to : Addrs \cup {NoAddr}, name : TokenNames, amount : Nat, cost : [Costs -> Nat],
     sigs : Nat, memo : BOOLEAN, ok : BOOLEAN, method : STRING]

\* Under this key an exchange has what it has in all tokens.
InAll == "_"

\* The keys under which totals are kept are no address and no token, and no address
\* and no token of the configuration is empty.
ASSUME ScanAssumption ==
    /\ "total" \notin Addrs \cup {NoAddr} \cup TokenNames
    /\ InAll \notin ValidTokens /\ NoName \notin ValidTokens /\ NoAddr \notin Addrs
    /\ \A s \in Scans : s.days \in Seq(Seq(Transactions))

TransferType == 255

\* What the network charges: bandwidth, further signatures and the memo and, beside
\* them, either what the type of the transaction costs or the energy used.
FeeIsMade(tx) ==
    LET basic == tx.cost["NetFee"] + MultiSigFee(tx) + MemoFee(tx)
    IN  IF SpecialKind(tx) = "none" THEN tx.cost["Fee"] = basic + tx.cost["EnergyFee"]
        ELSE (tx.cost["Fee"] >= basic) /\ (tx.cost["EnergyFee"] = 0)

\* The receipts that the node delivers are consistent: their fees are made of these parts.
ASSUME FeeAssumption ==
    \A s \in Scans : \A d \in DOMAIN s.days : \A i \in DOMAIN s.days[d] :
        (s.days[d][i].type # TransferType) => FeeIsMade(s.days[d][i])

\* Of what bears the name of a token the tracker writes both ends or neither; and it raises
\* types by 100 for what names a resource, which a transfer of TRX does not (trackBlock).
TransferIsWhole(tx) == /\ (tx.name # NoName) => ((tx.from = NoAddr) <=> (tx.to = NoAddr))
                       /\ tx.type # 101

ASSUME RowAssumption ==
    \A s \in Scans : \A d \in DOMAIN s.days : \A i \in DOMAIN s.days[d] :
        TransferIsWhole(s.days[d][i])

Jobs == {"flush", "count", "exchange", "diff", "tronlink", "boards"}

VARIABLES days,        \* the day tables, each a sequence of transactions
          job,
          day, next,   \* the row to be read next
          cache,       \* flush: the five maps of dbCache
          tables,      \* flush, exchange: what was written for the days already done
          fungible,    \* count: token and bucket -> statistic with its seen map
          storage, special,
          stats,       \* exchange: exchange -> token -> statistic
          old, new,    \* diff: exchange -> statistic by either set of rules
          tronlink,    \* tronlink: class -> fee and energy
          exchangeOf,  \* db.exchanges: address -> name, or NoName
          chargerOf,   \* chargers that are not fake: address -> name, or NoName
          changes

scanVars == <<days, job, day, next, cache, tables, fungible, storage, special, stats, old, new,
              tronlink, exchangeOf, chargerOf, changes>>
others == <<days, job>>
registry == <<exchangeOf, chargerOf, changes>>
countVars == <<fungible, storage, special>>
statVars == <<stats, old, new>>

\* Go's m[k] = f(m[k]), where a missing entry is created first.
Updated(map, key, fresh, F(_)) ==
    [k \in DOMAIN map \cup {key} |->
        IF k # key THEN map[k] ELSE F(IF key \in DOMAIN map THEN map[key] ELSE fresh)]

Empty == [x \in {} |-> 0]

IsExchange(a) == a \in Addrs /\ exchangeOf[a] # NoName
IsCharger(a) == a \in Addrs /\ chargerOf[a] # NoName

-----------------------------------------------------------------------------
(* flush *)

NewCache == [from |-> Empty, to |-> Empty, token |-> Empty, userToken |-> Empty,
             fee |-> NewFeeStatistic]

UpdateUser(map, user, tx) == Updated(map, user, NewUserStatistic, LAMBDA s : UserAdd(s, tx))
UpdateToken(map, name, tx) == Updated(map, name, NewTokenStatistic, LAMBDA s : TokenAdd(s, tx))

\* Mutant of UpdateUserToken: both entries are read before either is written.
UpdateUserTokenAtOnce(map, tx) ==
    Updated(map, <<tx.to, tx.name>>, NewUserTokenStatistic, LAMBDA s : AddTo(s, tx)) @@
    Updated(map, <<tx.from, tx.name>>, NewUserTokenStatistic, LAMBDA s : AddFrom(s, tx))

UpdateUserToken(map, tx) ==
    LET sent == Updated(map, <<tx.from, tx.name>>, NewUserTokenStatistic,
                        LAMBDA s : AddFrom(s, tx))
    IN  Updated(sent, <<tx.to, tx.name>>, NewUserTokenStatistic, LAMBDA s : AddTo(s, tx))

FromStats(map, tx) == UpdateUser(UpdateUser(map, tx.owner, tx), "total", tx)

Accumulate(c, tx) ==
    [from      |-> FromStats(c.from, tx),
     to        |-> IF tx.to # NoAddr THEN UpdateUser(c.to, tx.to, tx) ELSE c.to,
     token     |-> IF tx.name # NoName
                   THEN UpdateToken(UpdateToken(c.token, tx.name, tx), "total", tx)
                   ELSE c.token,
     userToken |-> IF (tx.name # NoName) /\ (tx.from # NoAddr) /\ (tx.to # NoAddr)
                   THEN UpdateUserToken(c.userToken, tx) ELSE c.userToken,
     fee       |-> IF tx.cost["Fee"] > 0 THEN FeeAdd(c.fee, tx) ELSE c.fee]

Row == days[day][next]
AtRow == (day <= Len(days)) /\ (next <= Len(days[day]))
AtEnd == (day <= Len(days)) /\ (next > Len(days[day]))
Advance == /\ next' = next + 1
           /\ UNCHANGED <<others, day, registry>>

FlushRow ==
    /\ job = "flush" /\ AtRow
    /\ cache' = IF Row.type # TransferType THEN Accumulate(cache, Row) ELSE cache
    /\ Advance
    /\ UNCHANGED <<tables, countVars, statVars, tronlink>>

\* persistDailyStats writes the maps; the loop goes on to the next day.
FlushPersist ==
    /\ job = "flush" /\ AtEnd
    /\ tables' = Append(tables, cache)
    /\ cache' = NewCache
    /\ day' = day + 1 /\ next' = 1
    /\ UNCHANGED <<others, registry, countVars, statVars, tronlink>>

-----------------------------------------------------------------------------
(* count *)

\* FungibleTokenStatistic: `from' and `to' are the two bits of its seen map.
NewFungible == [count |-> 0, amount |-> 0, uniqueFrom |-> 0, uniqueTo |-> 0,
                uniqueUser |-> 0, from |-> {}, to |-> {}]

\* Mutant of NewUsers: a sender is looked for among the senders only.
NewUsersAmongSenders(s, tx) ==
    (IF tx.from \in s.from THEN 0 ELSE 1) +
    (IF tx.to \in s.from \cup s.to \cup {tx.from} THEN 0 ELSE 1)

\* The sender enters the map before the receiver is looked for.
NewUsers(s, tx) ==
    (IF tx.from \in s.from \cup s.to THEN 0 ELSE 1) +
    (IF tx.to \in s.from \cup s.to \cup {tx.from} THEN 0 ELSE 1)

FungibleAdd(s, tx) ==
    [count      |-> s.count + 1,
     amount     |-> s.amount + tx.amount,
     uniqueFrom |-> s.uniqueFrom + (IF tx.from \in s.from THEN 0 ELSE 1),
     uniqueTo   |-> s.uniqueTo + (IF tx.to \in s.to THEN 0 ELSE 1),
     uniqueUser |-> s.uniqueUser + NewUsers(s, tx),
     from       |-> s.from \cup {tx.from},
     to         |-> s.to \cup {tx.to}]

\* Bucket 0 is for all amounts, bucket k for those of k digits.
CountToken(tx) == IF tx.type = 1 THEN "TRX" ELSE "USDT"
IsCounted(tx) == /\ (tx.type = 1) \/ (tx.name = USDT)
                 /\ (tx.to # NoAddr) /\ tx.ok
IsStorageMethod(tx) == tx.method \in {"transfer", "transferFrom"}

InBucket(map, bucket, tx) == Updated(map, <<CountToken(tx), bucket>>, NewFungible,
                                     LAMBDA s : FungibleAdd(s, tx))

\* Only the first transfer of an exchange to a charger enters its "Special" row,
\* which is kept under the name of the exchange and bears the charger's.
SpecialAdded(tx) ==
    IF IsCharger(tx.to) /\ IsExchange(tx.from) /\ (exchangeOf[tx.from] \notin DOMAIN special)
    THEN special @@ (exchangeOf[tx.from] :> [name |-> chargerOf[tx.to],
                                             row |-> AddWithdraw(NewExchangeStatistic, tx)])
    ELSE special

CountRow ==
    /\ job = "count" /\ AtRow
    /\ IF IsCounted(Row)
       THEN /\ fungible' = InBucket(InBucket(fungible, 0, Row), Length(Row.amount), Row)
            /\ storage' = IF (Row.type # 1) /\ IsStorageMethod(Row)
                          THEN StorageAdd(storage, Row) ELSE storage
            /\ special' = SpecialAdded(Row)
       ELSE UNCHANGED countVars
    /\ Advance
    /\ UNCHANGED <<cache, tables, statVars, tronlink>>

-----------------------------------------------------------------------------
(* exchange, diff, tronlink *)

IsTokenTransfer(tx) == (tx.name \in ValidTokens) /\ (tx.from # NoAddr) /\ (tx.to # NoAddr)
IsSmall(tx) == Length(tx.amount) < 6
IsActivation(tx) == (tx.type \in {0, 1}) /\ (tx.cost["Fee"] >= 1000000)

IsOwnCharger(to, exchange) == IsCharger(to) /\ (chargerOf[to] = exchange)

\* A small transfer to a charger counts only when it has paid for an activation.
SmallCharge(tx) == IF IsActivation(tx) THEN "activation" ELSE "none"

\* Mutant of Class: what an exchange sends to a charger of its own is not looked at again.
ClassOwnForgotten(tx) ==
    IF ~IsTokenTransfer(tx) THEN <<"none", NoName>>
    ELSE IF IsExchange(tx.from)
         THEN <<IF IsOwnCharger(tx.to, exchangeOf[tx.from]) THEN "none" ELSE "withdraw",
                exchangeOf[tx.from]>>
    ELSE IF IsCharger(tx.from) /\ IsExchange(tx.to) THEN <<"collect", exchangeOf[tx.to]>>
    ELSE IF IsCharger(tx.to)
         THEN <<IF IsSmall(tx) THEN SmallCharge(tx) ELSE "charge", chargerOf[tx.to]>>
    ELSE <<"none", NoName>>

\* The rules of DoExchangeStatistics: what a transfer is, and for which exchange.
Class(tx) ==
    IF ~IsTokenTransfer(tx) THEN <<"none", NoName>>
    ELSE IF IsExchange(tx.from) /\ ~IsOwnCharger(tx.to, exchangeOf[tx.from])
         THEN <<"withdraw", exchangeOf[tx.from]>>
    ELSE IF IsCharger(tx.from) /\ IsExchange(tx.to) THEN <<"collect", exchangeOf[tx.to]>>
    ELSE IF IsCharger(tx.to)
         THEN <<IF IsSmall(tx) THEN SmallCharge(tx) ELSE "charge", chargerOf[tx.to]>>
    ELSE <<"none", NoName>>

\* The previous rules: small amounts do not count, all an exchange sends is withdrawn.
OldClass(tx) ==
    IF ~IsTokenTransfer(tx) \/ IsSmall(tx) THEN <<"none", NoName>>
    ELSE IF IsExchange(tx.from) THEN <<"withdraw", exchangeOf[tx.from]>>
    ELSE IF IsCharger(tx.from) /\ IsExchange(tx.to) THEN <<"collect", exchangeOf[tx.to]>>
    ELSE IF IsCharger(tx.to) THEN <<"charge", chargerOf[tx.to]>>
    ELSE <<"none", NoName>>

Classified(s, kind, tx) ==
    CASE kind = "withdraw"   -> AddWithdraw(s, tx)
      [] kind = "collect"    -> AddCollect(s, tx)
      [] kind = "charge"     -> AddCharge(s, tx)
      [] kind = "activation" -> AddActivation(s, tx)

\* Every transfer counts in the exchange's row InAll and in that of its token;
\* an activation in the former only.
WithRow(exchangeStats, kind, tx) ==
    LET all == Updated(exchangeStats, InAll, NewExchangeStatistic,
                       LAMBDA s : Classified(s, kind, tx))
    IN  IF kind = "activation" THEN all
        ELSE Updated(all, tx.name, NewExchangeStatistic, LAMBDA s : Classified(s, kind, tx))

Counted(map, class, tx) ==
    IF class[1] = "none" THEN map
    ELSE Updated(map, class[2], NewExchangeStatistic, LAMBDA s : Classified(s, class[1], tx))

ExchangeRow ==
    /\ job = "exchange" /\ AtRow
    /\ LET class == Class(Row)
       IN  stats' = IF (Row.type = TransferType) \/ (class[1] = "none") THEN stats
                    ELSE Updated(stats, class[2], Empty, LAMBDA e : WithRow(e, class[1], Row))
    /\ Advance
    /\ UNCHANGED <<cache, tables, countVars, old, new, tronlink>>

\* The rows of the day replace what the table has for it.
ExchangePersist ==
    /\ job = "exchange" /\ AtEnd
    /\ tables' = Append(tables, stats)
    /\ stats' = Empty
    /\ day' = day + 1 /\ next' = 1
    /\ UNCHANGED <<others, registry, cache, countVars, old, new, tronlink>>

DiffRow ==
    /\ job = "diff" /\ AtRow
    /\ IF Row.type = TransferType THEN UNCHANGED <<old, new>>
       ELSE /\ old' = Counted(old, OldClass(Row), Row)
            /\ new' = Counted(new, Class(Row), Row)
    /\ Advance
    /\ UNCHANGED <<cache, tables, countVars, stats, tronlink>>

\* What a TronLink user's transaction was; "other" is what the report calls total.
TronLinkClass(tx) ==
    IF IsExchange(tx.owner) THEN "withdraw"
    ELSE IF IsCharger(tx.owner) THEN "collect"
    ELSE IF IsCharger(tx.to) THEN "charge" ELSE "other"

TronLinkRow ==
    /\ job = "tronlink" /\ AtRow
    /\ tronlink' = IF (Row.type # TransferType) /\ (Row.owner \in TronLinkUsers)
                   THEN [tronlink EXCEPT ![TronLinkClass(Row)] =
                            [fee |-> @.fee + Row.cost["Fee"],
                             energy |-> @.energy + Row.cost["EnergyTotal"]]]
                   ELSE tronlink
    /\ Advance
    /\ UNCHANGED <<cache, tables, countVars, statVars>>

\* The other scans are over when the day is; the last two go on with the next day.
NextDay ==
    /\ job \in {"diff", "tronlink"} /\ AtEnd
    /\ day' = day + 1 /\ next' = 1
    /\ UNCHANGED <<others, registry, cache, tables, countVars, statVars, tronlink>>

-----------------------------------------------------------------------------
(* Meanwhile the tracker's goroutine and the handlers learn.               *)

LearnExchange(a, e) ==
    /\ exchangeOf' = [exchangeOf EXCEPT ![a] = e]
    /\ UNCHANGED chargerOf

LearnCharger(a, e) ==
    /\ chargerOf[a] = NoName
    /\ chargerOf' = [chargerOf EXCEPT ![a] = e]
    /\ UNCHANGED exchangeOf

ChargerIsFake(a) ==
    /\ chargerOf[a] # NoName
    /\ chargerOf' = [chargerOf EXCEPT ![a] = NoName]
    /\ UNCHANGED exchangeOf

RegistryChanges ==
    /\ job = "exchange" /\ AtRow /\ (day > 1 \/ next > 1)
    /\ changes < MaxChanges /\ changes' = changes + 1
    /\ \E a \in Addrs : \/ \E e \in ExchangeNames : LearnExchange(a, e) \/ LearnCharger(a, e)
                        \/ ChargerIsFake(a)
    /\ UNCHANGED <<days, job, day, next, cache, tables, countVars, statVars, tronlink>>

ScanInit ==
    /\ day = 1 /\ next = 1 /\ changes = 0
    /\ cache = NewCache /\ tables = <<>>
    /\ fungible = [cell \in {"TRX", "USDT"} \X {0} |-> NewFungible]
    /\ storage = NewStorageStatistic
    /\ special = Empty /\ stats = Empty /\ old = Empty /\ new = Empty
    /\ tronlink = [c \in {"withdraw", "collect", "charge", "other"} |->
                      [fee |-> 0, energy |-> 0]]
    /\ \E s \in Scans : /\ job = s.job /\ days = s.days
                       /\ exchangeOf = s.exchangeOf /\ chargerOf = s.chargerOf

ScanNext == \/ FlushRow \/ FlushPersist \/ CountRow \/ ExchangeRow \/ ExchangePersist
            \/ DiffRow \/ TronLinkRow \/ NextDay \/ RegistryChanges

ScanSpec == ScanInit /\ [][ScanNext]_scanVars

-----------------------------------------------------------------------------
(* Properties                                                              *)

Total(f(_), S) == SumOver([x \in S |-> f(x)], S)

\* What a flow has: how many transfers, of what amount, at what cost.
Figures == {"txs", "amount"} \cup Costs
Figure(flow, what) == IF what \in Costs THEN flow.cost[what] ELSE flow[what]

\* Every transfer of a token that is counted for its sender is counted for its
\* receiver: over all addresses, what was sent is what was received, in number,
\* amount and cost - also when somebody sends to himself, so that both halves go
\* to one entry of the map (updateUserTokenStatistic).
TransfersBalance(c) ==
    \A name \in {key[2] : key \in DOMAIN c.userToken} :
        LET keys == {key \in DOMAIN c.userToken : key[2] = name}
            Sum(side, what) == SumOver([k \in keys |-> Figure(c.userToken[k][side], what)], keys)
        IN  \A what \in Figures : Sum("from", what) = Sum("to", what)

\* The categories of the fee statistic add up to all fees paid: what a transaction
\* has paid is neither lost between the categories nor counted in two of them
\* (FeeStatistic.Add takes the fees of signatures and memos out of the rest).
FeesAddUp(c) ==
    SumOver(c.fee, Fees)
      = IF "total" \in DOMAIN c.from THEN c.from["total"].cost["Fee"] ELSE 0

\* In the maps of the flush, those in memory and those written, nothing of a
\* transaction is lost or counted twice.
NothingLost ==
    (job = "flush") =>
        \A c \in {cache} \cup Range(tables) : TransfersBalance(c) /\ FeesAddUp(c)

\* The rows of the day that the count has read for a token and bucket.
RowsOf(token, bucket) ==
    {i \in 1..(next - 1) : /\ IsCounted(days[1][i]) /\ (CountToken(days[1][i]) = token)
                          /\ ((bucket = 0) \/ (Length(days[1][i].amount) = bucket))}

\* The numbers of different senders, receivers and users of a statistic are those of
\* the rows read so far: nobody is counted twice, who sends and receives, sends to
\* himself or comes again in another role (the two bits of seenMap).
UniqueUsersExact ==
    (job = "count") =>
        \A key \in DOMAIN fungible :
            LET senders   == {days[1][i].from : i \in RowsOf(key[1], key[2])}
                receivers == {days[1][i].to : i \in RowsOf(key[1], key[2])}
            IN  /\ fungible[key].uniqueFrom = Cardinality(senders)
                /\ fungible[key].uniqueTo = Cardinality(receivers)
                /\ fungible[key].uniqueUser = Cardinality(senders \cup receivers)

\* What an exchange has in all is the sum of what it has by token, flow by flow,
\* and its total fee is made of the fees of the flows and the activations, whatever
\* the registry and the chargers become while the day is scanned.
ExchangeRowsAddUp ==
    (job = "exchange") => \A t \in {stats} \cup Range(tables) : \A e \in DOMAIN t :
        LET all    == t[e][InAll]
            tokens == DOMAIN t[e] \ {InAll}
        IN  /\ \A flow \in {"charge", "collect", "withdraw"}, what \in Figures :
                  Figure(all[flow], what)
                      = SumOver([k \in tokens |-> Figure(t[e][k][flow], what)], tokens)
            /\ all.totalFee = all.charge.cost["Fee"] + all.collect.cost["Fee"]
                              + all.withdraw.cost["Fee"] + all.activationFee
            /\ all.totalFee = all.activationFee
                              + SumOver([k \in tokens |-> t[e][k].totalFee], tokens)

=============================================================================
