----------------------------- MODULE Statistics -----------------------------
(***************************************************************************)
(* What one transaction adds to each kind of statistic, and how statistics *)
(* of several days are merged (database/models/statistic.go).  A struct of *)
(* counters is a function from the names of its counters; a transaction is *)
(* a record with the columns of transactions_<day>.                        *)
(***************************************************************************)
EXTENDS Integers, FiniteSets, TransferStats

CONSTANTS NoAddr, NoName, USDT

\* The cost columns of a transaction, which most statistics sum as they are.
Costs == {"Fee", "EnergyTotal", "EnergyFee", "EnergyUsage", "EnergyOriginUsage",
          "NetUsage", "NetFee"}

Plus(f, g) == [x \in DOMAIN f |-> f[x] + g[x]]
Zero(S) == [x \in S |-> 0]

\* BigInt.Length: the number of decimal digits.  Amounts stay below 10^9.
Length(amount) == Cardinality({k \in 1..8 : 10^k <= amount}) + 1

\* Types above 100 are the energy variants of the types below.
BaseType(tx) == IF tx.type > 100 THEN tx.type - 100 ELSE tx.type

-----------------------------------------------------------------------------
(* UserStatistic *)

UserCounters == {"TxTotal", "TRXTotal", "SmallTRXTotal", "TRC10Total", "TRC20Total",
                 "SCTotal", "USDTTotal", "SmallUSDTTotal", "StakeTotal",
                 "DelegateTotal", "VoteTotal", "MultiSigTotal"}

IsTRC20(tx) == BaseType(tx) \in {30, 31} /\ tx.to # NoAddr

UserCounted(c, tx) ==
    CASE c = "TxTotal"        -> TRUE
      [] c = "TRXTotal"       -> BaseType(tx) = 1
      [] c = "SmallTRXTotal"  -> BaseType(tx) = 1 /\ tx.amount < 100000
      [] c = "TRC10Total"     -> BaseType(tx) = 2
      [] c = "VoteTotal"      -> BaseType(tx) = 4
      [] c = "StakeTotal"     -> BaseType(tx) \in {11, 12, 54, 55, 59}
      [] c = "SCTotal"        -> BaseType(tx) \in {30, 31}
      [] c = "TRC20Total"     -> IsTRC20(tx)
      [] c = "USDTTotal"      -> IsTRC20(tx) /\ tx.name = USDT
      [] c = "SmallUSDTTotal" -> IsTRC20(tx) /\ tx.name = USDT /\ tx.amount < 500000
      [] c = "DelegateTotal"  -> BaseType(tx) \in {57, 58}
      [] c = "MultiSigTotal"  -> tx.sigs > 1

NewUserStatistic == [cost |-> Zero(Costs), count |-> Zero(UserCounters),
                     trx |-> NewTransferStats, usdt |-> NewTransferStats]

UserAdd(s, tx) ==
    [cost  |-> Plus(s.cost, tx.cost),
     count |-> [c \in UserCounters |-> s.count[c] + (IF UserCounted(c, tx) THEN 1 ELSE 0)],
     trx   |-> IF BaseType(tx) = 1 THEN AddLength(s.trx, Length(tx.amount), 1) ELSE s.trx,
     usdt  |-> IF IsTRC20(tx) /\ tx.name = USDT /\ tx.ok
               THEN AddLength(s.usdt, Length(tx.amount), 1) ELSE s.usdt]

UserMerge(s, o) ==
    [cost  |-> Plus(s.cost, o.cost), count |-> Plus(s.count, o.count),
     trx   |-> MergeTransferStats(s.trx, o.trx),
     usdt  |-> MergeTransferStats(s.usdt, o.usdt)]

\* The metrics by which addresses can be ranked.
Metrics == {"fee", "energy_total", "tx_total", "trx_total", "small_trx_total",
            "trc10_total", "usdt_total"}

Metric(s, name) ==
    CASE name = "fee"             -> s.cost["Fee"]
      [] name = "energy_total"    -> s.cost["EnergyTotal"]
      [] name = "tx_total"        -> s.count["TxTotal"]
      [] name = "trx_total"       -> s.count["TRXTotal"]
      [] name = "small_trx_total" -> s.count["SmallTRXTotal"]
      [] name = "trc10_total"     -> s.count["TRC10Total"]
      [] name = "usdt_total"      -> s.count["USDTTotal"]

-----------------------------------------------------------------------------
(* TokenStatistic, UserTokenStatistic *)

\* A flow of transactions: how many, the sum of their amounts, their costs.
NewFlow == [txs |-> 0, amount |-> 0, cost |-> Zero(Costs)]
FlowAdd(f, tx) == [txs |-> f.txs + 1, amount |-> f.amount + tx.amount,
                   cost |-> Plus(f.cost, tx.cost)]
FlowMerge(f, g) == [txs |-> f.txs + g.txs, amount |-> f.amount + g.amount,
                    cost |-> Plus(f.cost, g.cost)]

NewTokenStatistic == [txs |-> 0, cost |-> Zero(Costs)]
TokenAdd(s, tx) == [txs |-> s.txs + 1, cost |-> Plus(s.cost, tx.cost)]
TokenMerge(s, o) == [txs |-> s.txs + o.txs, cost |-> Plus(s.cost, o.cost)]

NewUserTokenStatistic == [from |-> NewFlow, to |-> NewFlow]
AddFrom(s, tx) == [s EXCEPT !.from = FlowAdd(@, tx)]
AddTo(s, tx) == [s EXCEPT !.to = FlowAdd(@, tx)]
UserTokenMerge(s, o) == [from |-> FlowMerge(s.from, o.from), to |-> FlowMerge(s.to, o.to)]

-----------------------------------------------------------------------------
(* FeeStatistic *)

Fees == {"Energy", "Net", "NewAcc", "UpdateAuth", "MultiSig", "Memo", "SR",
         "IssueTRC10", "NewBancor"}
NewFeeStatistic == Zero(Fees)

MultiSigFee(tx) == IF tx.sigs > 1 THEN 1000000 ELSE 0
MemoFee(tx) == IF tx.memo THEN 1000000 ELSE 0

\* Mutant of SpecialFee: the fee of the memo is forgotten.
SpecialFeeWithMemo(tx) == tx.cost["Fee"] - tx.cost["NetFee"] - MultiSigFee(tx)

\* What is left of the fee pays for what the type of the transaction does.
SpecialFee(tx) == tx.cost["Fee"] - tx.cost["NetFee"] - MultiSigFee(tx) - MemoFee(tx)

SpecialKind(tx) ==
    CASE tx.type \in {0, 1, 2} -> "NewAcc"
      [] tx.type = 5           -> "SR"
      [] tx.type = 6           -> "IssueTRC10"
      [] tx.type = 41          -> "NewBancor"
      [] tx.type = 46          -> "UpdateAuth"
      [] OTHER                 -> "none"

FeeAdd(s, tx) ==
    [k \in Fees |-> s[k] + (CASE k = "Energy"        -> tx.cost["EnergyFee"]
                              [] k = "Net"           -> tx.cost["NetFee"]
                              [] k = "MultiSig"      -> MultiSigFee(tx)
                              [] k = "Memo"          -> MemoFee(tx)
                              [] k = SpecialKind(tx) -> SpecialFee(tx)
                              [] OTHER               -> 0)]

-----------------------------------------------------------------------------
(* ExchangeStatistic: three flows, the fees of activations, and their sum. *)

\* A flow of an exchange has no column for the usage of the contract's owner.
ExchangeFlowAdd(f, tx) ==
    [txs |-> f.txs + 1, amount |-> f.amount + tx.amount,
     cost |-> [c \in Costs |-> IF c = "EnergyOriginUsage" THEN 0 ELSE f.cost[c] + tx.cost[c]]]

NewExchangeStatistic ==
    [totalFee |-> 0, charge |-> NewFlow, collect |-> NewFlow, withdraw |-> NewFlow,
     activationTxs |-> 0, activationFee |-> 0]

\* Of a charge the owner's usage counts as usage.
AddCharge(s, tx) ==
    [s EXCEPT !.totalFee = @ + tx.cost["Fee"],
              !.charge = ExchangeFlowAdd(@, [tx EXCEPT !.cost["EnergyUsage"] =
                                                 @ + tx.cost["EnergyOriginUsage"]])]
AddCollect(s, tx) ==
    [s EXCEPT !.totalFee = @ + tx.cost["Fee"], !.collect = ExchangeFlowAdd(@, tx)]
AddWithdraw(s, tx) ==
    [s EXCEPT !.totalFee = @ + tx.cost["Fee"], !.withdraw = ExchangeFlowAdd(@, tx)]
\* Mutant of AddActivation: the total forgets the fee.
ActivationBesideTotal(s, tx) ==
    [s EXCEPT !.activationTxs = @ + 1, !.activationFee = @ + tx.cost["Fee"]]

AddActivation(s, tx) ==
    [s EXCEPT !.totalFee = @ + tx.cost["Fee"], !.activationTxs = @ + 1,
              !.activationFee = @ + tx.cost["Fee"]]

ExchangeMerge(s, o) ==
    [totalFee |-> s.totalFee + o.totalFee, charge |-> FlowMerge(s.charge, o.charge),
     collect |-> FlowMerge(s.collect, o.collect),
     withdraw |-> FlowMerge(s.withdraw, o.withdraw),
     activationTxs |-> s.activationTxs + o.activationTxs,
     activationFee |-> s.activationFee + o.activationFee]

-----------------------------------------------------------------------------
(* USDTStorageStatistic: did the transfer touch a new storage slot?        *)

NewStorageStatistic == [set |-> NewTokenStatistic, reset |-> NewTokenStatistic]
StorageAdd(s, tx) ==
    LET free == [tx EXCEPT !.cost["Fee"] = 0]   \* the table has no column for the fee
    IN  IF tx.cost["EnergyTotal"] < 100000 THEN [s EXCEPT !.set = TokenAdd(@, free)]
                                           ELSE [s EXCEPT !.reset = TokenAdd(@, free)]
StorageMerge(s, o) == [set |-> TokenMerge(s.set, o.set), reset |-> TokenMerge(s.reset, o.reset)]

=============================================================================
