------------------------ MODULE DailyStatisticsProofs ------------------------
(***************************************************************************)
(* Proofs about the three jobs that MCDailyStatistics checks: the scans of *)
(* transactions, the scan of what exchanges have staked, and the           *)
(* maintenance of tables.                                                  *)
(*                                                                         *)
(* Scans: for any transactions, of any number of addresses, tokens and     *)
(* days, the users of a bucket are counted exactly, what an exchange has   *)
(* in all is what it has by token, the maps of the flush lose nothing, and *)
(* the old and the new rules for exchanges differ by small transfers only. *)
(* Each is an invariant on a map in memory and on the tables written, kept *)
(* by reading one row; a sum over a map grows by what the row adds to one  *)
(* entry (SumOfChanged).                                                   *)
(*                                                                         *)
(* Boards: the scores of owners add up to all that was staked, and the     *)
(* most delegated of two kinds are the most delegated of both; nothing of  *)
(* this depends on the rows being those of one scan.                       *)
(*                                                                         *)
(* Stake: every row that was written says what its address is to say, or   *)
(* less if a call has failed; the rows of an exchange are then summed by   *)
(* their addresses, and the pairs within it counted at one end.            *)
(*                                                                         *)
(* Tables: rows are only inserted into tables that are there, and an       *)
(* undisturbed maintenance leaves exactly what it is to keep.              *)
(***************************************************************************)
EXTENDS Reports, ExchangeStake, TableMaintenance, SetLemmas, SequenceTheorems

-----------------------------------------------------------------------------
(* Scans.  The transactions do not change, nor does the job.               *)

ScanTypeOK == /\ days \in Seq(Seq(Transactions))
              /\ day \in Nat \ {0} /\ next \in Nat \ {0}

\* A scan begins at the first row of transactions.
LEMMA InitScanType == ScanInit => ScanTypeOK
<1> SUFFICES ASSUME ScanInit PROVE ScanTypeOK
  OBVIOUS
<1>1. (day = 1) /\ (next = 1)
  BY DEF ScanInit
<1>2. \E s \in Scans : days = s.days
  BY Zenon DEF ScanInit
<1>3. days \in Seq(Seq(Transactions))
  BY <1>2, ScanAssumption, Zenon
<1> QED
  BY <1>1, <1>3 DEF ScanTypeOK

\* A scan goes on row by row and day by day; its job and its transactions stay.
LEMMA StepScanType ==
  ASSUME ScanTypeOK, [ScanNext]_scanVars
  PROVE  ScanTypeOK' /\ UNCHANGED others
<1> DEFINE Keeps == /\ UNCHANGED <<days, job>>
                    /\ (day' = day) \/ (day' = day + 1)
                    /\ (next' = next) \/ (next' = next + 1) \/ (next' = 1)
<1>1. ASSUME FlushRow PROVE Keeps
  BY <1>1 DEF FlushRow, Advance, others
<1>2. ASSUME FlushPersist PROVE Keeps
  BY <1>2 DEF FlushPersist, others
<1>3. ASSUME CountRow PROVE Keeps
  BY <1>3 DEF CountRow, Advance, others
<1>4. ASSUME ExchangeRow PROVE Keeps
  BY <1>4 DEF ExchangeRow, Advance, others
<1>5. ASSUME ExchangePersist PROVE Keeps
  BY <1>5 DEF ExchangePersist, others
<1>6. ASSUME DiffRow PROVE Keeps
  BY <1>6 DEF DiffRow, Advance, others
<1>7. ASSUME TronLinkRow PROVE Keeps
  BY <1>7 DEF TronLinkRow, Advance, others
<1>8. ASSUME NextDay PROVE Keeps
  BY <1>8 DEF NextDay, others
<1>9. ASSUME RegistryChanges PROVE Keeps
  BY <1>9 DEF RegistryChanges
<1>10. ASSUME UNCHANGED scanVars PROVE Keeps
  BY <1>10 DEF scanVars
<1>11. Keeps
  BY <1>1, <1>2, <1>3, <1>4, <1>5, <1>6, <1>7, <1>8, <1>9, <1>10 DEF ScanNext
<1> QED
  BY <1>11 DEF ScanTypeOK, others

\* The row that is read is a transaction.
LEMMA RowIsTransaction ==
  ASSUME ScanTypeOK, AtRow
  PROVE  Row \in Transactions
<1>1. day \in 1..Len(days) /\ days \in Seq(Seq(Transactions))
  BY DEF ScanTypeOK, AtRow
<1>2. days[day] \in Seq(Transactions)
  BY <1>1
<1>3. next \in 1..Len(days[day])
  BY <1>2 DEF ScanTypeOK, AtRow
<1> QED
  BY <1>2, <1>3 DEF Row

\* The number of digits is positive: no bucket of digits is the one of all amounts.
LEMMA LengthPositive ==
  ASSUME NEW n \in Nat
  PROVE  Length(n) \in Nat \ {0}
<1> DEFINE powers == {k \in 1..8 : 10^k <= n}
<1>1. IsFiniteSet(powers)
  <2>1. powers \subseteq 1..8
    OBVIOUS
  <2>2. powers \in SUBSET Nat /\ 8 \in Nat /\ \A k \in powers : k <= 8
    BY <2>1
  <2> HIDE DEF powers
  <2> QED
    BY <2>2, FS_BoundedSetOfNaturals
<1>2. Cardinality(powers) \in Nat
  BY <1>1, FS_CardinalityType
<1> HIDE DEF powers
<1> QED
  BY <1>2 DEF Length, powers

-----------------------------------------------------------------------------
(* The count: unique users                                                 *)

\* The statistic s is that of the transactions of rows.
SendersOf(txs, rows) == {txs[i].from : i \in rows}
ReceiversOf(txs, rows) == {txs[i].to : i \in rows}
UsersRight(s, txs, rows) ==
    /\ s.from = SendersOf(txs, rows) /\ IsFiniteSet(s.from) /\ s.uniqueFrom = Cardinality(s.from)
    /\ s.to = ReceiversOf(txs, rows) /\ IsFiniteSet(s.to) /\ s.uniqueTo = Cardinality(s.to)
    /\ s.uniqueUser = Cardinality(s.from \cup s.to)

Cells == {"TRX", "USDT"} \X Nat

CountInv ==
    (job = "count") =>
        /\ day = 1
        /\ DOMAIN fungible \subseteq Cells
        /\ \A cell \in Cells :
              IF cell \in DOMAIN fungible THEN UsersRight(fungible[cell], days[1], RowsOf(cell[1], cell[2]))
              ELSE RowsOf(cell[1], cell[2]) = {}

\* One more element, or none, as the element is new or not.
LEMMA OneMore ==
  ASSUME NEW S, IsFiniteSet(S), NEW x
  PROVE  /\ IsFiniteSet(S \cup {x})
         /\ Cardinality(S \cup {x}) = Cardinality(S) + (IF x \in S THEN 0 ELSE 1)
         /\ Cardinality(S) \in Nat
BY FS_AddElement, FS_CardinalityType

\* One transaction more: its sender and its receiver count if they are new, and a
\* transaction to oneself brings one user at most.
LEMMA OneTransactionMore ==
  ASSUME NEW s, NEW txs, NEW rows, UsersRight(s, txs, rows), NEW n
  PROVE  UsersRight(FungibleAdd(s, txs[n]), txs, rows \cup {n})
<1> DEFINE tx == txs[n]
           more == FungibleAdd(s, tx)
           both == s.from \cup s.to
<1>1. /\ IsFiniteSet(s.from \cup {tx.from})
      /\ Cardinality(s.from \cup {tx.from}) = Cardinality(s.from) + (IF tx.from \in s.from THEN 0 ELSE 1)
  BY OneMore DEF UsersRight
<1>2. /\ IsFiniteSet(s.to \cup {tx.to})
      /\ Cardinality(s.to \cup {tx.to}) = Cardinality(s.to) + (IF tx.to \in s.to THEN 0 ELSE 1)
  BY OneMore DEF UsersRight
<1>3. IsFiniteSet(both)
  BY FS_Union DEF UsersRight
<1>4. /\ IsFiniteSet(both \cup {tx.from})
      /\ Cardinality(both \cup {tx.from}) = Cardinality(both) + (IF tx.from \in both THEN 0 ELSE 1)
      /\ Cardinality(both) \in Nat
  <2> HIDE DEF both, tx
  <2> QED
    BY <1>3, OneMore
<1>5. Cardinality((both \cup {tx.from}) \cup {tx.to})
         = Cardinality(both \cup {tx.from}) + (IF tx.to \in both \cup {tx.from} THEN 0 ELSE 1)
  <2> HIDE DEF both, tx
  <2> QED
    BY <1>4, OneMore
<1>6. (both \cup {tx.from}) \cup {tx.to} = more.from \cup more.to
  BY DEF FungibleAdd
<1>7. NewUsers(s, tx) = (IF tx.from \in both THEN 0 ELSE 1)
                        + (IF tx.to \in both \cup {tx.from} THEN 0 ELSE 1)
  BY DEF NewUsers
<1>8. /\ more.from = s.from \cup {tx.from} /\ more.to = s.to \cup {tx.to}
      /\ more.uniqueFrom = s.uniqueFrom + (IF tx.from \in s.from THEN 0 ELSE 1)
      /\ more.uniqueTo = s.uniqueTo + (IF tx.to \in s.to THEN 0 ELSE 1)
      /\ more.uniqueUser = s.uniqueUser + NewUsers(s, tx)
  BY DEF FungibleAdd
<1>9. more.uniqueUser = Cardinality(more.from \cup more.to)
  <2>1. s.uniqueUser = Cardinality(both)
    BY DEF UsersRight
  <2> DEFINE c0 == Cardinality(both)
             c1 == Cardinality(both \cup {tx.from})
             c2 == Cardinality((both \cup {tx.from}) \cup {tx.to})
             i1 == IF tx.from \in both THEN 0 ELSE 1
             i2 == IF tx.to \in both \cup {tx.from} THEN 0 ELSE 1
  <2>2. i1 \in Nat /\ i2 \in Nat /\ c0 \in Nat /\ c1 = c0 + i1 /\ c2 = c1 + i2
    BY <1>4, <1>5
  <2>3. more.uniqueUser = c0 + (i1 + i2)
    BY <1>7, <1>8, <2>1
  <2>4. c2 = Cardinality(more.from \cup more.to)
    BY <1>6
  <2> HIDE DEF more, c0, c1, c2, i1, i2
  <2> QED
    BY <2>2, <2>3, <2>4
<1>10. SendersOf(txs, rows \cup {n}) = SendersOf(txs, rows) \cup {tx.from}
       /\ ReceiversOf(txs, rows \cup {n}) = ReceiversOf(txs, rows) \cup {tx.to}
  BY DEF SendersOf, ReceiversOf
<1> HIDE DEF more, tx, both
<1>11. UsersRight(more, txs, rows \cup {n})
  BY <1>1, <1>2, <1>8, <1>9, <1>10 DEF UsersRight
<1> QED
  BY <1>11 DEF more, tx

\* A statistic that nothing was added to is that of no rows.
LEMMA NoUsers == \A txs : UsersRight(NewFungible, txs, {})
BY FS_EmptySet DEF UsersRight, NewFungible, SendersOf, ReceiversOf

\* Reading a row of the count keeps the users of every bucket right.
LEMMA StepCount ==
  ASSUME ScanTypeOK, CountInv, [ScanNext]_scanVars
  PROVE  CountInv'
<1> SUFFICES ASSUME job' = "count" PROVE CountInv'
  BY DEF CountInv
<1>1. job = "count" /\ days' = days
  BY StepScanType DEF others
<1>2. \/ CountRow
      \/ UNCHANGED scanVars
  BY <1>1 DEF ScanNext, FlushRow, FlushPersist, CountRow, ExchangeRow, ExchangePersist, DiffRow,
       TronLinkRow, NextDay, RegistryChanges
<1>3. CASE UNCHANGED scanVars
  <2>1. \A cell \in Cells : RowsOf(cell[1], cell[2])' = RowsOf(cell[1], cell[2])
    BY <1>3 DEF scanVars, RowsOf
  <2> QED
    BY <1>1, <1>3, <2>1 DEF scanVars, CountInv
<1>4. CASE CountRow
  <2> DEFINE tx == Row
             cellAll == <<CountToken(tx), 0>>
             cellLength == <<CountToken(tx), Length(tx.amount)>>
  <2>1. day = 1 /\ day' = day /\ next' = next + 1 /\ next \in Nat \ {0} /\ tx = days[1][next] /\ AtRow
    BY <1>1, <1>4 DEF CountRow, Advance, CountInv, ScanTypeOK, Row
  <2>2. cellAll \in Cells /\ cellLength \in Cells /\ cellAll # cellLength
    <3>1. tx.amount \in Nat
      BY <2>1, RowIsTransaction DEF Transactions
    <3>2. Length(tx.amount) \in Nat \ {0}
      BY <3>1, LengthPositive
    <3>3. CountToken(tx) \in {"TRX", "USDT"}
      BY DEF CountToken
    <3> QED
      BY <3>2, <3>3 DEF Cells
  <2>3. 1..(next' - 1) = (1..(next - 1)) \cup {next}
    BY <2>1
  <2>4. ASSUME NEW cell \in Cells
        PROVE  RowsOf(cell[1], cell[2])'
                  = IF IsCounted(tx) /\ (cell = cellAll \/ cell = cellLength)
                    THEN RowsOf(cell[1], cell[2]) \cup {next} ELSE RowsOf(cell[1], cell[2])
    <3>1. cell = <<cell[1], cell[2]>>
      BY DEF Cells
    <3> DEFINE fits(i) == /\ IsCounted(days[1][i]) /\ (CountToken(days[1][i]) = cell[1])
                          /\ ((cell[2] = 0) \/ (Length(days[1][i].amount) = cell[2]))
    <3>2. RowsOf(cell[1], cell[2])' = {i \in 1..(next' - 1) : fits(i)}
      BY <1>1 DEF RowsOf
    <3>3. RowsOf(cell[1], cell[2]) = {i \in 1..(next - 1) : fits(i)}
      BY DEF RowsOf
    <3>4. fits(next) <=> (IsCounted(tx) /\ (cell = cellAll \/ cell = cellLength))
      BY <2>1, <3>1
    <3> HIDE DEF fits, cellAll, cellLength, tx
    <3> QED
      BY <2>3, <3>2, <3>3, <3>4
  <2>5. CASE ~IsCounted(tx)
    <3>1. fungible' = fungible
      BY <1>4, <2>5 DEF CountRow, countVars
    <3>2. \A cell \in Cells : RowsOf(cell[1], cell[2])' = RowsOf(cell[1], cell[2])
      BY <2>4, <2>5
    <3> QED
      BY <1>1, <2>1, <3>1, <3>2 DEF CountInv
  <2>6. CASE IsCounted(tx)
    <3> DEFINE one == InBucket(fungible, 0, tx)
    <3>1. fungible' = InBucket(one, Length(tx.amount), tx)
      BY <1>4, <2>6 DEF CountRow
    <3>2. /\ DOMAIN one = DOMAIN fungible \cup {cellAll}
          /\ \A k \in DOMAIN fungible : k # cellAll => one[k] = fungible[k]
          /\ one[cellAll] = FungibleAdd(IF cellAll \in DOMAIN fungible THEN fungible[cellAll]
                                        ELSE NewFungible, tx)
      BY DEF InBucket, Updated
    <3>3. /\ DOMAIN fungible' = DOMAIN one \cup {cellLength}
          /\ \A k \in DOMAIN one : k # cellLength => fungible'[k] = one[k]
          /\ fungible'[cellLength] = FungibleAdd(IF cellLength \in DOMAIN one THEN one[cellLength]
                                                 ELSE NewFungible, tx)
      <4> HIDE DEF one, tx
      <4> QED
        BY <3>1 DEF InBucket, Updated, tx
    <3> HIDE DEF one, tx, cellAll, cellLength
    <3>4. DOMAIN fungible' \subseteq Cells
      BY <1>1, <2>2, <3>2, <3>3 DEF CountInv
    <3>5. ASSUME NEW cell \in Cells
          PROVE  IF cell \in DOMAIN fungible' THEN UsersRight(fungible'[cell], days[1], RowsOf(cell[1], cell[2])')
                 ELSE RowsOf(cell[1], cell[2])' = {}
      <4> DEFINE before == IF cell \in DOMAIN fungible THEN fungible[cell] ELSE NewFungible
                 rows == RowsOf(cell[1], cell[2])
      <4>1. UsersRight(before, days[1], rows)
        BY <1>1, NoUsers DEF CountInv
      <4>2. CASE cell = cellAll \/ cell = cellLength
        <5>1. cell \in DOMAIN fungible' /\ fungible'[cell] = FungibleAdd(before, tx)
          BY <2>2, <3>2, <3>3, <4>2
        <5>2. RowsOf(cell[1], cell[2])' = rows \cup {next}
          BY <2>4, <2>6, <4>2
        <5>3. UsersRight(FungibleAdd(before, days[1][next]), days[1], rows \cup {next})
          <6> HIDE DEF before, rows
          <6> QED
            BY <4>1, OneTransactionMore
        <5> QED
          BY <2>1, <5>1, <5>2, <5>3
      <4>3. CASE ~(cell = cellAll \/ cell = cellLength)
        <5>1. /\ (cell \in DOMAIN fungible') <=> (cell \in DOMAIN fungible)
              /\ (cell \in DOMAIN fungible) => (fungible'[cell] = fungible[cell])
          BY <3>2, <3>3, <4>3
        <5>2. RowsOf(cell[1], cell[2])' = rows
          BY <2>4, <4>3
        <5> QED
          BY <1>1, <5>1, <5>2 DEF CountInv
      <4> QED
        BY <4>2, <4>3
    <3> QED
      BY <1>1, <2>1, <3>4, <3>5 DEF CountInv
  <2> QED
    BY <2>5, <2>6
<1> QED
  BY <1>2, <1>3, <1>4

\* The count begins with the statistics of no rows.
LEMMA InitCount == ScanInit => CountInv
<1> SUFFICES ASSUME ScanInit, job = "count" PROVE CountInv
  BY DEF CountInv
<1>1. day = 1 /\ next = 1
  BY DEF ScanInit
<1>2. DOMAIN fungible = {"TRX", "USDT"} \X {0} /\ \A k \in DOMAIN fungible : fungible[k] = NewFungible
  BY DEF ScanInit
<1>3. \A cell \in Cells : RowsOf(cell[1], cell[2]) = {}
  BY <1>1 DEF RowsOf
<1> QED
  BY <1>1, <1>2, <1>3, NoUsers DEF CountInv, Cells

\* In every statistic of the count, whatever the transactions of the day, the numbers of
\* different senders, receivers and users are exact.
THEOREM UniqueUsersAreExact == ScanSpec => []UniqueUsersExact
<1>1. ScanTypeOK /\ CountInv => UniqueUsersExact
  <2> SUFFICES ASSUME CountInv, job = "count", NEW key \in DOMAIN fungible
               PROVE  LET senders   == {days[1][i].from : i \in RowsOf(key[1], key[2])}
                          receivers == {days[1][i].to : i \in RowsOf(key[1], key[2])}
                      IN  /\ fungible[key].uniqueFrom = Cardinality(senders)
                          /\ fungible[key].uniqueTo = Cardinality(receivers)
                          /\ fungible[key].uniqueUser = Cardinality(senders \cup receivers)
    BY DEF UniqueUsersExact
  <2>1. UsersRight(fungible[key], days[1], RowsOf(key[1], key[2]))
    BY DEF CountInv
  <2> QED
    BY <2>1 DEF UsersRight, SendersOf, ReceiversOf
<1>2. ScanInit => ScanTypeOK /\ CountInv
  BY InitScanType, InitCount
<1>3. (ScanTypeOK /\ CountInv) /\ [ScanNext]_scanVars => (ScanTypeOK /\ CountInv)'
  BY StepScanType, StepCount
<1> QED
  BY <1>1, <1>2, <1>3, PTL DEF ScanSpec

-----------------------------------------------------------------------------
(* What an exchange has by token, and in all                               *)

FlowNames == {"charge", "collect", "withdraw"}
Kinds == FlowNames \cup {"activation"}
Flow == [txs : Nat, amount : Nat, cost : [Costs -> Nat]]
ExchangeStat == [totalFee : Nat, charge : Flow, collect : Flow, withdraw : Flow,
                 activationTxs : Nat, activationFee : Nat]

\* The usage of the owner of a contract has no column of its own.
StatRight(s) == /\ s \in ExchangeStat
                /\ \A flow \in FlowNames : s[flow].cost["EnergyOriginUsage"] = 0

\* By how much a transfer of a kind raises a figure of a flow.
Raise(kind, tx, flow, what) ==
    IF kind # flow THEN 0
    ELSE CASE what = "txs"               -> 1
           [] what = "amount"            -> tx.amount
           [] what = "EnergyOriginUsage" -> 0
           [] what = "EnergyUsage"       ->
                tx.cost["EnergyUsage"]
                  + (IF kind = "charge" THEN tx.cost["EnergyOriginUsage"] ELSE 0)
           [] OTHER                      -> tx.cost[what]

\* The figures of a flow are natural numbers.
LEMMA FigureType ==
  ASSUME NEW flow \in Flow, NEW what \in Figures
  PROVE  Figure(flow, what) \in Nat
BY DEF Flow, Figures, Figure, Costs

\* Figures only grow.
LEMMA RaiseType ==
  ASSUME NEW tx \in Transactions, NEW kind, NEW flow, NEW what \in Figures
  PROVE  Raise(kind, tx, flow, what) \in Nat
<1>1. tx.amount \in Nat /\ \A c \in Costs : tx.cost[c] \in Nat
  BY DEF Transactions
<1>2. CASE what \in Costs
  BY <1>1, <1>2 DEF Raise, Costs
<1>3. CASE what \notin Costs
  BY <1>1, <1>3 DEF Raise, Figures
<1> QED
  BY <1>2, <1>3

\* A flow after one transfer more.
LEMMA FlowRaised ==
  ASSUME NEW f \in Flow, f.cost["EnergyOriginUsage"] = 0, NEW sum \in Nat, NEW cost \in [Costs -> Nat],
         NEW tx, tx.amount = sum, tx.cost = cost
  PROVE  LET g == ExchangeFlowAdd(f, tx)
         IN  /\ g \in Flow /\ g.cost["EnergyOriginUsage"] = 0
             /\ g.txs = f.txs + 1 /\ g.amount = f.amount + sum
             /\ \A c \in Costs : c # "EnergyOriginUsage" => g.cost[c] = f.cost[c] + cost[c]
<1> DEFINE g == ExchangeFlowAdd(f, tx)
<1>1. /\ f.txs \in Nat /\ f.amount \in Nat /\ \A c \in Costs : f.cost[c] \in Nat /\ cost[c] \in Nat
      /\ "EnergyOriginUsage" \in Costs
  BY DEF Flow, Costs
<1>2. g = [txs |-> f.txs + 1, amount |-> f.amount + sum,
           cost |-> [c \in Costs |-> IF c = "EnergyOriginUsage" THEN 0 ELSE f.cost[c] + cost[c]]]
  BY DEF ExchangeFlowAdd
<1> HIDE DEF g
<1>3. g \in Flow
  BY <1>1, <1>2 DEF Flow
<1>4. /\ g.txs = f.txs + 1 /\ g.amount = f.amount + sum
      /\ \A c \in Costs : g.cost[c] = IF c = "EnergyOriginUsage" THEN 0 ELSE f.cost[c] + cost[c]
  BY <1>2
<1> QED
  BY <1>1, <1>3, <1>4 DEF g

\* A statistic after one transfer more, or one activation.
LEMMA StatRaised ==
  ASSUME NEW s, StatRight(s), NEW tx \in Transactions, NEW kind \in Kinds
  PROVE  LET t == Classified(s, kind, tx)
         IN  /\ StatRight(t)
             /\ \A flow \in FlowNames, what \in Figures :
                   Figure(t[flow], what) = Figure(s[flow], what) + Raise(kind, tx, flow, what)
             /\ t.totalFee = s.totalFee + tx.cost["Fee"]
             /\ t.activationFee = s.activationFee + (IF kind = "activation" THEN tx.cost["Fee"] ELSE 0)
<1> DEFINE t == Classified(s, kind, tx)
           usage == tx.cost["EnergyUsage"] + tx.cost["EnergyOriginUsage"]
           paid == [tx.cost EXCEPT !["EnergyUsage"] = usage]
           charged == [tx EXCEPT !.cost["EnergyUsage"] = @ + tx.cost["EnergyOriginUsage"]]
<1>1. /\ tx.amount \in Nat /\ tx.cost \in [Costs -> Nat] /\ tx.cost["Fee"] \in Nat
      /\ \A c \in Costs : tx.cost[c] \in Nat
  BY DEF Transactions, Costs
<1>2. /\ s.charge \in Flow /\ s.collect \in Flow /\ s.withdraw \in Flow
      /\ s.totalFee \in Nat /\ s.activationTxs \in Nat /\ s.activationFee \in Nat
      /\ s.charge.cost["EnergyOriginUsage"] = 0 /\ s.collect.cost["EnergyOriginUsage"] = 0
      /\ s.withdraw.cost["EnergyOriginUsage"] = 0
  BY DEF StatRight, ExchangeStat, FlowNames
<1>3. /\ charged.amount = tx.amount /\ charged.cost = paid /\ paid \in [Costs -> Nat]
      /\ paid["EnergyUsage"] = usage /\ \A c \in Costs : c # "EnergyUsage" => paid[c] = tx.cost[c]
  BY <1>1 DEF Transactions, Costs
<1>4. \A flow \in FlowNames, what \in Figures : Figure(s[flow], what) \in Nat
  BY <1>2, FigureType DEF FlowNames
<1> HIDE DEF charged, paid, usage
<1> DEFINE u == [s EXCEPT !.totalFee = s.totalFee + tx.cost["Fee"]]
<1>5. /\ u \in ExchangeStat /\ u.totalFee = s.totalFee + tx.cost["Fee"]
      /\ u.charge = s.charge /\ u.collect = s.collect /\ u.withdraw = s.withdraw
      /\ u.activationTxs = s.activationTxs /\ u.activationFee = s.activationFee
  BY <1>1, <1>2 DEF ExchangeStat, StatRight
<1>6. CASE kind = "charge"
  <2> DEFINE g == ExchangeFlowAdd(s.charge, charged)
  <2>1. t = [u EXCEPT !.charge = g]
    BY <1>6 DEF Classified, AddCharge, charged
  <2>2. /\ g \in Flow /\ g.cost["EnergyOriginUsage"] = 0
        /\ g.txs = s.charge.txs + 1 /\ g.amount = s.charge.amount + tx.amount
        /\ \A c \in Costs : c # "EnergyOriginUsage" => g.cost[c] = s.charge.cost[c] + paid[c]
    BY <1>1, <1>2, <1>3, FlowRaised
  <2> HIDE DEF t, g, u
  <2>3. /\ t \in ExchangeStat /\ t.charge = g /\ t.collect = s.collect /\ t.withdraw = s.withdraw
        /\ t.totalFee = s.totalFee + tx.cost["Fee"] /\ t.activationFee = s.activationFee
    BY <1>5, <2>1, <2>2 DEF ExchangeStat
  <2>4. StatRight(t)
    BY <1>2, <2>2, <2>3 DEF StatRight, FlowNames
  <2>5. ASSUME NEW what \in Figures
        PROVE  Figure(g, what) = Figure(s.charge, what) + Raise("charge", tx, "charge", what)
    BY <1>1, <1>2, <1>3, <2>2 DEF Figure, Figures, Raise, Costs, usage
  <2>6. ASSUME NEW flow \in FlowNames, NEW what \in Figures
        PROVE  Figure(t[flow], what) = Figure(s[flow], what) + Raise(kind, tx, flow, what)
    <3>1. CASE flow = "charge"
      BY <1>6, <2>3, <2>5, <3>1
    <3>2. CASE flow # "charge"
      BY <1>4, <1>6, <2>3, <3>2 DEF FlowNames, Raise
    <3> QED
      BY <3>1, <3>2
  <2> QED
    BY <1>2, <1>6, <2>3, <2>4, <2>6 DEF t
<1>7. CASE kind \in {"collect", "withdraw"}
  <2> DEFINE g == ExchangeFlowAdd(s[kind], tx)
  <2>1. t = IF kind = "collect" THEN [u EXCEPT !.collect = g] ELSE [u EXCEPT !.withdraw = g]
    BY <1>7 DEF Classified, AddCollect, AddWithdraw
  <2>2. /\ g \in Flow /\ g.cost["EnergyOriginUsage"] = 0
        /\ g.txs = s[kind].txs + 1 /\ g.amount = s[kind].amount + tx.amount
        /\ \A c \in Costs : c # "EnergyOriginUsage" => g.cost[c] = s[kind].cost[c] + tx.cost[c]
    <3>1. s[kind] \in Flow /\ s[kind].cost["EnergyOriginUsage"] = 0
      BY <1>2, <1>7
    <3> QED
      BY <1>1, <3>1, FlowRaised
  <2> HIDE DEF t, g, u
  <2>3. /\ t \in ExchangeStat /\ t[kind] = g /\ \A flow \in FlowNames : flow # kind => t[flow] = s[flow]
        /\ t.totalFee = s.totalFee + tx.cost["Fee"] /\ t.activationFee = s.activationFee
    <3>1. CASE kind = "collect"
      BY <1>5, <2>1, <2>2, <3>1 DEF ExchangeStat, FlowNames
    <3>2. CASE kind = "withdraw"
      BY <1>5, <2>1, <2>2, <3>2 DEF ExchangeStat, FlowNames
    <3> QED
      BY <1>7, <3>1, <3>2
  <2>4. StatRight(t)
    BY <2>2, <2>3 DEF StatRight
  <2>5. ASSUME NEW what \in Figures
        PROVE  Figure(g, what) = Figure(s[kind], what) + Raise(kind, tx, kind, what)
    <3>1. s[kind].cost["EnergyOriginUsage"] = 0 /\ s[kind] \in Flow
      BY <1>2, <1>7
    <3> QED
      BY <1>1, <1>7, <2>2, <3>1 DEF Figure, Figures, Raise, Costs
  <2>6. ASSUME NEW flow \in FlowNames, NEW what \in Figures
        PROVE  Figure(t[flow], what) = Figure(s[flow], what) + Raise(kind, tx, flow, what)
    <3>1. CASE flow = kind
      BY <2>3, <2>5, <3>1
    <3>2. CASE flow # kind
      BY <1>4, <2>3, <3>2 DEF Raise
    <3> QED
      BY <3>1, <3>2
  <2> QED
    BY <1>2, <1>7, <2>3, <2>4, <2>6 DEF t
<1>8. CASE kind = "activation"
  <2> DEFINE w == [u EXCEPT !.activationTxs = s.activationTxs + 1]
  <2>1. t = [w EXCEPT !.activationFee = s.activationFee + tx.cost["Fee"]]
    BY <1>8 DEF Classified, AddActivation
  <2> HIDE DEF t, u
  <2>5. /\ w \in ExchangeStat /\ w.totalFee = u.totalFee
        /\ w.charge = u.charge /\ w.collect = u.collect /\ w.withdraw = u.withdraw
    BY <1>2, <1>5 DEF ExchangeStat
  <2> HIDE DEF w
  <2>2. /\ t \in ExchangeStat /\ \A flow \in FlowNames : t[flow] = s[flow]
        /\ t.totalFee = s.totalFee + tx.cost["Fee"] /\ t.activationFee = s.activationFee + tx.cost["Fee"]
    BY <1>1, <1>2, <1>5, <2>1, <2>5 DEF ExchangeStat, FlowNames
  <2>3. StatRight(t)
    BY <2>2 DEF StatRight
  <2>4. ASSUME NEW flow \in FlowNames, NEW what \in Figures
        PROVE  Figure(t[flow], what) = Figure(s[flow], what) + Raise(kind, tx, flow, what)
    BY <1>4, <1>8, <2>2 DEF Raise, FlowNames
  <2> QED
    BY <1>8, <2>2, <2>3, <2>4 DEF t
<1> QED
  BY <1>6, <1>7, <1>8 DEF Kinds, FlowNames

\* The statistics of an exchange: in all, and by token.
Whole(m) == IF InAll \in DOMAIN m THEN m[InAll] ELSE NewExchangeStatistic
TokensIn(m) == DOMAIN m \ {InAll}

FlowSum(m, flow, what) == SumOver([k \in TokensIn(m) |-> Figure(m[k][flow], what)], TokensIn(m))
FeeSum(m) == SumOver([k \in TokensIn(m) |-> m[k].totalFee], TokensIn(m))

RowsAddUp(m) ==
    /\ IsFiniteSet(TokensIn(m))
    /\ \A k \in DOMAIN m : StatRight(m[k])
    /\ \A flow \in FlowNames, what \in Figures : Figure(Whole(m)[flow], what) = FlowSum(m, flow, what)
    /\ Whole(m).totalFee = Whole(m).charge.cost["Fee"] + Whole(m).collect.cost["Fee"]
                           + Whole(m).withdraw.cost["Fee"] + Whole(m).activationFee
    /\ Whole(m).totalFee = Whole(m).activationFee + FeeSum(m)

\* A new statistic has nothing.
LEMMA NewIsRight ==
  /\ StatRight(NewExchangeStatistic)
  /\ \A flow \in FlowNames, what \in Figures : Figure(NewExchangeStatistic[flow], what) = 0
  /\ NewExchangeStatistic.totalFee = 0 /\ NewExchangeStatistic.activationFee = 0
<1>1. NewFlow \in Flow /\ \A what \in Figures : Figure(NewFlow, what) = 0
  BY DEF NewFlow, Flow, Zero, Figures, Figure, Costs
<1>2. NewFlow.cost["EnergyOriginUsage"] = 0
  BY DEF NewFlow, Zero, Costs
<1> QED
  BY <1>1, <1>2 DEF NewExchangeStatistic, StatRight, ExchangeStat, FlowNames

\* An exchange without rows has nothing in all and nothing by token.
LEMMA NoRowsAddUp == RowsAddUp(Empty)
<1>1. DOMAIN Empty = {} /\ TokensIn(Empty) = {} /\ Whole(Empty) = NewExchangeStatistic
  <2>1. DOMAIN Empty = {}
    BY DEF Empty
  <2> QED
    BY <2>1, Zenon DEF TokensIn, Whole
<1>2. \A flow \in FlowNames, what \in Figures : FlowSum(Empty, flow, what) = 0
  BY <1>1, SumOfNone DEF FlowSum
<1>3. FeeSum(Empty) = 0
  BY <1>1, SumOfNone DEF FeeSum
<1>4. /\ NewExchangeStatistic.charge.cost["Fee"] = 0 /\ NewExchangeStatistic.collect.cost["Fee"] = 0
      /\ NewExchangeStatistic.withdraw.cost["Fee"] = 0
  BY DEF NewExchangeStatistic, NewFlow, Zero, Costs
<1> QED
  BY <1>1, <1>2, <1>3, <1>4, NewIsRight, FS_EmptySet DEF RowsAddUp

\* The fee of a statistic grows with the fees of its flows.
LEMMA FeesRaised ==
  ASSUME NEW tx \in Transactions, NEW kind \in Kinds
  PROVE  /\ Raise(kind, tx, "charge", "Fee") + Raise(kind, tx, "collect", "Fee")
               + Raise(kind, tx, "withdraw", "Fee")
               + (IF kind = "activation" THEN tx.cost["Fee"] ELSE 0) = tx.cost["Fee"]
         /\ tx.cost["Fee"] \in Nat
<1>1. tx.cost["Fee"] \in Nat
  BY DEF Transactions, Costs
<1>2. Raise(kind, tx, kind, "Fee") = tx.cost["Fee"]
  BY DEF Raise
<1>3. \A flow : flow # kind => Raise(kind, tx, flow, "Fee") = 0
  BY DEF Raise
<1> QED
  BY <1>1, <1>2, <1>3 DEF Kinds, FlowNames

\* What WithRow does: the row InAll changes, and that of the token unless it is an activation.
RowsChange(m, n, kind, tx) ==
    /\ InAll \in DOMAIN n
    /\ Whole(n) = Classified(Whole(m), kind, tx)
    /\ kind = "activation" => TokensIn(n) = TokensIn(m) /\ \A k \in TokensIn(m) : n[k] = m[k]
    /\ kind # "activation" =>
          /\ TokensIn(n) = TokensIn(m) \cup {tx.name}
          /\ \A k \in TokensIn(m) : k # tx.name => n[k] = m[k]
          /\ n[tx.name] = Classified(IF tx.name \in TokensIn(m) THEN m[tx.name]
                                     ELSE NewExchangeStatistic, kind, tx)

\* The two cases of WithRow.
LEMMA RowsWithRow ==
  ASSUME NEW m, NEW kind \in Kinds, NEW tx, tx.name # InAll
  PROVE  RowsChange(m, WithRow(m, kind, tx), kind, tx)
<1> DEFINE all == Updated(m, InAll, NewExchangeStatistic, LAMBDA s : Classified(s, kind, tx))
           n == WithRow(m, kind, tx)
<1>1. /\ DOMAIN all = DOMAIN m \cup {InAll}
      /\ \A k \in DOMAIN m : k # InAll => all[k] = m[k]
      /\ all[InAll] = Classified(Whole(m), kind, tx)
  BY DEF Updated, Whole
<1>2. CASE kind = "activation"
  <2>1. n = all
    BY <1>2 DEF WithRow
  <2> HIDE DEF all, n
  <2> QED
    BY <1>1, <1>2, <2>1 DEF Whole, TokensIn, n, RowsChange
<1>3. CASE kind # "activation"
  <2>1. n = Updated(all, tx.name, NewExchangeStatistic, LAMBDA s : Classified(s, kind, tx))
    BY <1>3 DEF WithRow
  <2> HIDE DEF all, n
  <2>2. /\ DOMAIN n = DOMAIN all \cup {tx.name}
        /\ \A k \in DOMAIN all : k # tx.name => n[k] = all[k]
        /\ n[tx.name] = Classified(IF tx.name \in DOMAIN all THEN all[tx.name]
                                   ELSE NewExchangeStatistic, kind, tx)
    BY <2>1 DEF Updated
  <2> QED
    BY <1>1, <1>3, <2>2 DEF Whole, TokensIn, n, RowsChange
<1> QED
  BY <1>2, <1>3

\* What an exchange has adds up after one transfer or activation more.
LEMMA RowsStayRight ==
  ASSUME NEW m, RowsAddUp(m), NEW kind \in Kinds, NEW tx \in Transactions, tx.name # InAll
  PROVE  RowsAddUp(WithRow(m, kind, tx)) /\ InAll \in DOMAIN WithRow(m, kind, tx)
<1> DEFINE n == WithRow(m, kind, tx)
           a == Whole(m)
           b == Whole(n)
           fee == tx.cost["Fee"]
           paid == IF kind = "activation" THEN fee ELSE 0
           T == TokensIn(m)
           U == TokensIn(n)
<1>1. StatRight(a) /\ IsFiniteSet(T) /\ T \subseteq DOMAIN m
  BY NewIsRight DEF RowsAddUp, Whole, TokensIn
<1>0. RowsChange(m, n, kind, tx)
  BY RowsWithRow
<1>2. /\ StatRight(b) /\ b.totalFee = a.totalFee + fee /\ b.activationFee = a.activationFee + paid
      /\ \A flow \in FlowNames, what \in Figures :
            Figure(b[flow], what) = Figure(a[flow], what) + Raise(kind, tx, flow, what)
  <2>1. b = Classified(a, kind, tx)
    BY <1>0 DEF RowsChange
  <2> HIDE DEF a, b
  <2> QED
    BY <1>1, <2>1, StatRaised
<1>3. InAll \in DOMAIN n /\ b = n[InAll] /\ DOMAIN n = U \cup {InAll}
  BY <1>0 DEF RowsChange, Whole, TokensIn
<1>4. /\ a.totalFee \in Nat /\ a.activationFee \in Nat /\ fee \in Nat /\ paid \in Nat
      /\ \A flow \in FlowNames, what \in Figures :
            Figure(a[flow], what) \in Nat /\ Raise(kind, tx, flow, what) \in Nat
  BY <1>1, FeesRaised, FigureType, RaiseType DEF StatRight, ExchangeStat, FlowNames
<1>5. \A k \in T, flow \in FlowNames, what \in Figures :
         Figure(m[k][flow], what) \in Nat /\ m[k].totalFee \in Nat
  BY <1>1, FigureType DEF RowsAddUp, StatRight, ExchangeStat, FlowNames
<1>6. /\ IsFiniteSet(U) /\ \A k \in U : StatRight(n[k])
      /\ \A flow \in FlowNames, what \in Figures :
            FlowSum(n, flow, what) = FlowSum(m, flow, what) + Raise(kind, tx, flow, what)
      /\ FeeSum(n) = FeeSum(m) + (fee - paid)
  <2>1. CASE kind = "activation"
    <3>1. U = T /\ \A k \in T : n[k] = m[k]
      BY <1>0, <2>1 DEF RowsChange
    <3>2. \A flow \in FlowNames, what \in Figures :
             FlowSum(n, flow, what) = FlowSum(m, flow, what) /\ Raise(kind, tx, flow, what) = 0
      BY <2>1, <3>1 DEF FlowSum, Raise, FlowNames
    <3>3. FeeSum(n) = FeeSum(m)
      BY <3>1 DEF FeeSum
    <3>4. \A flow \in FlowNames, what \in Figures : FlowSum(m, flow, what) \in Nat
      BY <1>4 DEF RowsAddUp
    <3>5. FeeSum(m) \in Nat
      <4> DEFINE f == [k \in T |-> m[k].totalFee]
      <4>1. Amounts(f, T)
        BY <1>1, <1>5 DEF Amounts, FlowNames, Figures
      <4> QED
        BY <4>1, SumType DEF FeeSum
    <3> QED
      BY <1>1, <1>4, <2>1, <3>1, <3>2, <3>3, <3>4, <3>5 DEF RowsAddUp
  <2>2. CASE kind # "activation"
    <3> DEFINE x == tx.name
               old1 == IF x \in T THEN m[x] ELSE NewExchangeStatistic
    <3>1. U = T \cup {x} /\ (\A k \in T : k # x => n[k] = m[k]) /\ n[x] = Classified(old1, kind, tx)
      BY <1>0, <2>2 DEF RowsChange
    <3>2. StatRight(old1)
      BY <1>1, NewIsRight DEF RowsAddUp
    <3>3. /\ StatRight(n[x]) /\ n[x].totalFee = old1.totalFee + fee
          /\ \A flow \in FlowNames, what \in Figures :
                Figure(n[x][flow], what) = Figure(old1[flow], what) + Raise(kind, tx, flow, what)
      <4> HIDE DEF n, old1
      <4> QED
        BY <3>1, <3>2, StatRaised
    <3>4. IsFiniteSet(U) /\ \A k \in U : StatRight(n[k])
      <4>1. IsFiniteSet(U)
        BY <1>1, <3>1, FS_AddElement
      <4>2. \A k \in T : StatRight(m[k])
        BY <1>1 DEF RowsAddUp
      <4> HIDE DEF n, T, U
      <4> QED
        BY <3>1, <3>3, <4>1, <4>2
    <3>5. ASSUME NEW flow \in FlowNames, NEW what \in Figures
          PROVE  FlowSum(n, flow, what) = FlowSum(m, flow, what) + Raise(kind, tx, flow, what)
      <4> DEFINE f == [k \in T |-> Figure(m[k][flow], what)]
                 g == [k \in U |-> Figure(n[k][flow], what)]
                 d == Raise(kind, tx, flow, what)
      <4>1. Amounts(f, T) /\ d \in Nat
        BY <1>1, <1>4, <1>5 DEF Amounts
      <4>2. \A k \in T : k # x => g[k] = f[k]
        BY <3>1
      <4>3. g[x] = (IF x \in T THEN f[x] ELSE 0) + d
        <5>1. g[x] = Figure(old1[flow], what) + d
          BY <3>1, <3>3
        <5>2. Figure(old1[flow], what) = IF x \in T THEN f[x] ELSE 0
          BY NewIsRight
        <5> QED
          BY <5>1, <5>2
      <4>4. SumOver(g, T \cup {x}) = SumOver(f, T) + d
        <5> HIDE DEF f, g, d, T, x
        <5> QED
          BY <4>1, <4>2, <4>3, SumOfChanged
      <4> QED
        BY <3>1, <4>4 DEF FlowSum
    <3>6. FeeSum(n) = FeeSum(m) + fee
      <4> DEFINE f == [k \in T |-> m[k].totalFee]
                 g == [k \in U |-> n[k].totalFee]
      <4>1. Amounts(f, T)
        BY <1>1, <1>5 DEF Amounts, FlowNames, Figures
      <4>2. \A k \in T : k # x => g[k] = f[k]
        BY <3>1
      <4>3. g[x] = (IF x \in T THEN f[x] ELSE 0) + fee
        <5>1. g[x] = old1.totalFee + fee
          BY <3>1, <3>3
        <5>2. old1.totalFee = IF x \in T THEN f[x] ELSE 0
          BY NewIsRight
        <5> QED
          BY <5>1, <5>2
      <4>4. SumOver(g, T \cup {x}) = SumOver(f, T) + fee
        <5> HIDE DEF f, g, fee, T, x
        <5> QED
          BY <1>4, <4>1, <4>2, <4>3, SumOfChanged, SMTT(30)
      <4> QED
        BY <3>1, <4>4 DEF FeeSum
    <3> HIDE DEF n, fee, U, T
    <3> QED
      BY <1>4, <2>2, <3>4, <3>5, <3>6
  <2> QED
    BY <2>1, <2>2
<1>7. /\ \A flow \in FlowNames, what \in Figures : Figure(a[flow], what) = FlowSum(m, flow, what)
      /\ a.totalFee = a.charge.cost["Fee"] + a.collect.cost["Fee"] + a.withdraw.cost["Fee"] + a.activationFee
      /\ a.totalFee = a.activationFee + FeeSum(m)
  BY DEF RowsAddUp
<1>8. FeeSum(m) \in Nat
  <2> DEFINE f == [k \in T |-> m[k].totalFee]
  <2>1. Amounts(f, T)
    BY <1>1, <1>5 DEF Amounts, FlowNames, Figures
  <2> QED
    BY <2>1, SumType DEF FeeSum
<1>9. b.totalFee = b.charge.cost["Fee"] + b.collect.cost["Fee"] + b.withdraw.cost["Fee"] + b.activationFee
  <2>1. \A s : Figure(s, "Fee") = s.cost["Fee"]
    BY DEF Figure, Costs
  <2>2. "Fee" \in Figures
    BY DEF Figures, Costs
  <2> DEFINE r1 == Raise(kind, tx, "charge", "Fee")
             r2 == Raise(kind, tx, "collect", "Fee")
             r3 == Raise(kind, tx, "withdraw", "Fee")
             a1 == a.charge.cost["Fee"]
             a2 == a.collect.cost["Fee"]
             a3 == a.withdraw.cost["Fee"]
  <2>3. /\ b.charge.cost["Fee"] = a1 + r1 /\ b.collect.cost["Fee"] = a2 + r2
        /\ b.withdraw.cost["Fee"] = a3 + r3
        /\ r1 \in Nat /\ r2 \in Nat /\ r3 \in Nat /\ a1 \in Nat /\ a2 \in Nat /\ a3 \in Nat
    BY <1>2, <1>4, <2>1, <2>2 DEF FlowNames
  <2>4. r1 + r2 + r3 + paid = fee
    BY FeesRaised
  <2> HIDE DEF a, b, fee, paid, r1, r2, r3, a1, a2, a3
  <2> QED
    BY <1>2, <1>4, <1>7, <2>3, <2>4 DEF a1, a2, a3
<1>10. b.totalFee = b.activationFee + FeeSum(n)
  <2> HIDE DEF a, b, n, fee, paid
  <2> QED
    BY <1>2, <1>4, <1>6, <1>7, <1>8
<1>11. \A flow \in FlowNames, what \in Figures : Figure(b[flow], what) = FlowSum(n, flow, what)
  BY <1>2, <1>6, <1>7
<1>12. \A k \in DOMAIN n : StatRight(n[k])
  BY <1>2, <1>3, <1>6
<1> HIDE DEF n
<1>13. RowsAddUp(n)
  BY <1>6, <1>9, <1>10, <1>11, <1>12 DEF RowsAddUp
<1> QED
  BY <1>3, <1>13 DEF n

\* A table of the job: whatever an exchange has adds up.
TableRight(t) == \A e \in DOMAIN t : RowsAddUp(t[e]) /\ InAll \in DOMAIN t[e]

ExchangeInv ==
    (job = "exchange") => /\ TableRight(stats)
                          /\ tables \in Seq(Range(tables))
                          /\ \A t \in Range(tables) : TableRight(t)

\* No exchange has anything in an empty table.
LEMMA NoTable == TableRight(Empty)
<1>1. DOMAIN Empty = {}
  BY DEF Empty
<1> QED
  BY <1>1 DEF TableRight

\* What is counted is one of the four kinds, of a token that has a name.
LEMMA CountedIsValid ==
  ASSUME NEW tx, Class(tx)[1] # "none"
  PROVE  Class(tx)[1] \in Kinds /\ tx.name # InAll
<1>1. Class(tx)[1] \in {"none", "withdraw", "collect", "charge", "activation"}
  BY DEF Class, SmallCharge
<1>2. IsTokenTransfer(tx)
  BY DEF Class
<1> QED
  BY <1>1, <1>2, ScanAssumption DEF IsTokenTransfer, Kinds, FlowNames

\* Every row read and every day written keeps the tables of exchanges right.
LEMMA StepExchange ==
  ASSUME ScanTypeOK, ExchangeInv, [ScanNext]_scanVars
  PROVE  ExchangeInv'
<1> SUFFICES ASSUME job' = "exchange" PROVE ExchangeInv'
  BY DEF ExchangeInv
<1>1. job = "exchange" /\ job' = job
  BY StepScanType DEF others
<1>2. \/ ExchangeRow \/ ExchangePersist
      \/ UNCHANGED <<tables, stats>>
  BY <1>1 DEF ScanNext, FlushRow, FlushPersist, CountRow, ExchangeRow, ExchangePersist, DiffRow,
       TronLinkRow, NextDay, RegistryChanges, statVars, scanVars
<1>3. CASE UNCHANGED <<tables, stats>>
  BY <1>1, <1>3 DEF ExchangeInv
<1>4. CASE ExchangePersist
  <2>1. tables' = Append(tables, stats) /\ stats' = Empty
    BY <1>4 DEF ExchangePersist
  <2>2. tables' \in Seq(Range(tables')) /\ Range(tables') = Range(tables) \cup {stats}
    BY <1>1, <2>1, LongerByOne DEF ExchangeInv
  <2> QED
    BY <1>1, <2>1, <2>2, NoTable DEF ExchangeInv
<1>5. CASE ExchangeRow
  <2> DEFINE tx == Row
             kind == Class(tx)[1]
             exchange == Class(tx)[2]
  <2>1. tables' = tables /\ tx \in Transactions
    BY <1>5, RowIsTransaction DEF ExchangeRow
  <2>2. CASE stats' = stats
    BY <1>1, <2>1, <2>2 DEF ExchangeInv
  <2>3. CASE stats' # stats
    <3> DEFINE one == IF exchange \in DOMAIN stats THEN stats[exchange] ELSE Empty
    <3>1. kind # "none"
      BY <1>5, <2>3 DEF ExchangeRow
    <3>2. /\ DOMAIN stats' = DOMAIN stats \cup {exchange}
          /\ \A e \in DOMAIN stats : e # exchange => stats'[e] = stats[e]
          /\ stats'[exchange] = WithRow(one, kind, tx)
      <4>1. stats' = Updated(stats, exchange, Empty, LAMBDA e : WithRow(e, kind, tx))
        BY <1>5, <2>3 DEF ExchangeRow
      <4> HIDE DEF tx, kind, exchange
      <4> QED
        BY <4>1 DEF Updated
    <3>3. RowsAddUp(one)
      <4> HIDE DEF exchange
      <4> QED
        BY <1>1, NoRowsAddUp DEF ExchangeInv, TableRight
    <3>4. kind \in Kinds /\ tx.name # InAll
      BY <3>1, CountedIsValid
    <3> HIDE DEF tx, kind, exchange, one
    <3>5. RowsAddUp(WithRow(one, kind, tx)) /\ InAll \in DOMAIN WithRow(one, kind, tx)
      BY <2>1, <3>3, <3>4, RowsStayRight
    <3>6. TableRight(stats')
      BY <1>1, <3>2, <3>5 DEF ExchangeInv, TableRight
    <3> QED
      BY <1>1, <2>1, <3>6 DEF ExchangeInv
  <2> QED
    BY <2>2, <2>3
<1> QED
  BY <1>2, <1>3, <1>4, <1>5

\* The scan of exchanges begins with an empty table.
LEMMA InitExchange == ScanInit => ExchangeInv
<1> SUFFICES ASSUME ScanInit PROVE ExchangeInv
  OBVIOUS
<1>1. stats = Empty /\ tables = <<>>
  BY DEF ScanInit
<1>2. Range(tables) = {} /\ tables \in Seq({})
  BY <1>1 DEF Range
<1> QED
  BY <1>1, <1>2, NoTable DEF ExchangeInv

\* Whatever the transactions are and whatever the registry becomes while they are read,
\* what an exchange has in all is what it has by token, in every table and at every moment.
THEOREM ExchangeRowsStayExact == ScanSpec => []ExchangeRowsAddUp
<1>1. ExchangeInv => ExchangeRowsAddUp
  <2> SUFFICES ASSUME ExchangeInv, job = "exchange", NEW t \in {stats} \cup Range(tables),
                      NEW e \in DOMAIN t
               PROVE
        LET all    == t[e][InAll]
            tokens == DOMAIN t[e] \ {InAll}
        IN  /\ \A flow \in {"charge", "collect", "withdraw"}, what \in Figures :
                  Figure(all[flow], what)
                      = SumOver([k \in tokens |-> Figure(t[e][k][flow], what)], tokens)
            /\ all.totalFee = all.charge.cost["Fee"] + all.collect.cost["Fee"]
                              + all.withdraw.cost["Fee"] + all.activationFee
            /\ all.totalFee = all.activationFee
                              + SumOver([k \in tokens |-> t[e][k].totalFee], tokens)
    BY DEF ExchangeRowsAddUp
  <2>1. RowsAddUp(t[e]) /\ InAll \in DOMAIN t[e]
    BY DEF ExchangeInv, TableRight
  <2> QED
    BY <2>1 DEF RowsAddUp, Whole, TokensIn, FlowSum, FeeSum, FlowNames
<1>2. ScanInit => ScanTypeOK /\ ExchangeInv
  BY InitScanType, InitExchange
<1>3. (ScanTypeOK /\ ExchangeInv) /\ [ScanNext]_scanVars => (ScanTypeOK /\ ExchangeInv)'
  BY StepScanType, StepExchange
<1> QED
  BY <1>1, <1>2, <1>3, PTL DEF ScanSpec

-----------------------------------------------------------------------------
(* What the reports need of the rows of exchanges: they are of exchanges,  *)
(* and a flow without transactions has no fee.                             *)

FiguresShown == {"txs", "Fee"}
Fig(flow, what, s) == Figure(s[flow], what)

\* A flow without transactions has no fee.
StatFit(s) == s \in ExchangeStat /\ \A flow \in FlowNames : s[flow].txs = 0 => s[flow].cost["Fee"] = 0

MapFit(m) == IsFiniteSet(DOMAIN m) /\ \A k \in DOMAIN m : StatFit(m[k])

\* A new statistic shows nothing.
LEMMA NewIsFit ==
  /\ StatFit(NewExchangeStatistic)
  /\ \A flow \in FlowNames, what \in FiguresShown : Fig(flow, what, NewExchangeStatistic) = 0
<1>1. NewExchangeStatistic \in ExchangeStat
  BY NewIsRight DEF StatRight
<1>2. \A flow \in FlowNames, what \in FiguresShown : Fig(flow, what, NewExchangeStatistic) = 0
  BY NewIsRight DEF Fig, FiguresShown, Figures, Costs
<1>3. \A flow \in FlowNames : NewExchangeStatistic[flow].cost["Fee"] = 0
  BY DEF NewExchangeStatistic, NewFlow, Zero, FlowNames, Costs
<1> QED
  BY <1>1, <1>2, <1>3 DEF StatFit

\* A row of tokens, and of all tokens, as the job writes it.
RowFit(m) == RowsAddUp(m) /\ InAll \in DOMAIN m /\ MapFit(m) /\ "Special" \notin DOMAIN m

\* A table has rows of exchanges only.
TableFit(t) == /\ IsFiniteSet(DOMAIN t) /\ DOMAIN t \subseteq ExchangeNames
               /\ \A e \in DOMAIN t : RowFit(t[e])

\* One transfer more does not make a flow without transfers have a fee.
LEMMA FitRaised ==
  ASSUME NEW s, StatRight(s), StatFit(s), NEW tx \in Transactions, NEW kind \in Kinds
  PROVE  StatRight(Classified(s, kind, tx)) /\ StatFit(Classified(s, kind, tx))
<1> DEFINE t == Classified(s, kind, tx)
<1>1. /\ StatRight(t)
      /\ \A flow \in FlowNames, what \in Figures :
            Figure(t[flow], what) = Figure(s[flow], what) + Raise(kind, tx, flow, what)
  BY StatRaised
<1> HIDE DEF t
<1>2. \A x : \A flow \in FlowNames : /\ Figure(x[flow], "txs") = x[flow].txs
                                     /\ Figure(x[flow], "Fee") = x[flow].cost["Fee"]
  BY DEF Figure, Costs
<1>3. /\ "txs" \in Figures /\ "Fee" \in Figures
  BY DEF Figures, Costs
<1>4. ASSUME NEW flow \in FlowNames, t[flow].txs = 0
      PROVE  t[flow].cost["Fee"] = 0
  <2>1. s[flow].txs \in Nat /\ s[flow].cost["Fee"] \in Nat
    BY DEF StatFit, ExchangeStat, Flow, FlowNames, Costs
  <2>2. /\ t[flow].txs = s[flow].txs + Raise(kind, tx, flow, "txs")
        /\ t[flow].cost["Fee"] = s[flow].cost["Fee"] + Raise(kind, tx, flow, "Fee")
    BY <1>1, <1>2, <1>3
  <2>3. CASE kind = flow
    <3>1. Raise(kind, tx, flow, "txs") = 1
      BY <2>3 DEF Raise
    <3> QED
      BY <1>4, <2>1, <2>2, <3>1
  <2>4. CASE kind # flow
    <3>1. Raise(kind, tx, flow, "txs") = 0 /\ Raise(kind, tx, flow, "Fee") = 0
      BY <2>4 DEF Raise
    <3>2. s[flow].txs = 0
      BY <1>4, <2>1, <2>2, <3>1
    <3>3. s[flow].cost["Fee"] = 0
      BY <3>2 DEF StatFit
    <3> QED
      BY <2>2, <3>1, <3>3
  <2> QED
    BY <2>3, <2>4
<1> QED
  BY <1>1, <1>4 DEF StatRight, StatFit, t

\* What an exchange has fits the reports, after one transfer or activation more.
RowsFit(m) == RowsAddUp(m) /\ MapFit(m) /\ "Special" \notin DOMAIN m

LEMMA RowsStayFit ==
  ASSUME NEW m, RowsFit(m), NEW kind \in Kinds, NEW tx \in Transactions, tx.name \in ValidTokens
  PROVE  RowFit(WithRow(m, kind, tx))
<1> DEFINE n == WithRow(m, kind, tx)
<1>1. tx.name # InAll /\ tx.name # "Special" /\ InAll # "Special"
  <2>1. InAll \notin ValidTokens
    BY ScanAssumption
  <2>2. "Special" \notin ValidTokens
    BY ReportNamesAssumption
  <2>3. InAll # "Special"
    BY DEF InAll
  <2> QED
    BY <2>1, <2>2, <2>3
<1>2. RowsAddUp(n) /\ InAll \in DOMAIN n
  BY <1>1, RowsStayRight DEF RowsFit
<1>3. RowsChange(m, n, kind, tx)
  BY <1>1, RowsWithRow
<1> HIDE DEF n
<1>4. /\ \A k \in DOMAIN m : StatRight(m[k]) /\ StatFit(m[k])
      /\ StatRight(NewExchangeStatistic) /\ StatFit(NewExchangeStatistic)
  BY NewIsRight, NewIsFit DEF RowsFit, RowsAddUp, MapFit
<1>5. StatFit(n[InAll])
  <2>1. n[InAll] = Classified(Whole(m), kind, tx)
    BY <1>2, <1>3 DEF RowsChange, Whole
  <2>2. StatRight(Whole(m)) /\ StatFit(Whole(m))
    BY <1>4 DEF Whole
  <2> QED
    BY <2>1, <2>2, FitRaised
<1>6. /\ TokensIn(n) \subseteq TokensIn(m) \cup {tx.name} /\ IsFiniteSet(TokensIn(n))
      /\ \A k \in TokensIn(n) : StatFit(n[k])
  <2>1. IsFiniteSet(TokensIn(n)) /\ TokensIn(m) \subseteq DOMAIN m
    BY <1>2 DEF RowsAddUp, TokensIn
  <2>2. CASE kind = "activation"
    BY <1>3, <1>4, <2>1, <2>2 DEF RowsChange
  <2>3. CASE kind # "activation"
    <3> DEFINE one == IF tx.name \in TokensIn(m) THEN m[tx.name] ELSE NewExchangeStatistic
    <3>1. /\ TokensIn(n) = TokensIn(m) \cup {tx.name}
          /\ \A k \in TokensIn(m) : k # tx.name => n[k] = m[k]
          /\ n[tx.name] = Classified(one, kind, tx)
      BY <1>3, <2>3 DEF RowsChange
    <3>2. StatRight(one) /\ StatFit(one)
      BY <1>4, <2>1
    <3> HIDE DEF one
    <3>3. StatFit(n[tx.name])
      BY <3>1, <3>2, FitRaised
    <3> QED
      BY <1>4, <2>1, <3>1, <3>3
  <2> QED
    BY <2>2, <2>3
<1>7. DOMAIN n = TokensIn(n) \cup {InAll}
  BY <1>2 DEF TokensIn
<1>8. MapFit(n)
  <2>1. IsFiniteSet(DOMAIN n)
    BY <1>6, <1>7, FS_AddElement
  <2> QED
    BY <1>5, <1>6, <1>7, <2>1 DEF MapFit
<1>9. "Special" \notin DOMAIN n
  BY <1>1, <1>6, <1>7 DEF RowsFit, TokensIn
<1> QED
  BY <1>2, <1>8, <1>9 DEF RowFit, n

\* Exchanges and tokens are what the registry and the configuration know.
KnownBy(f) == f \in [Addrs -> ExchangeNames \cup {NoName}]
FitInv ==
    (job = "exchange") => /\ TableFit(stats)
                          /\ \A t \in Range(tables) : TableFit(t)
                          /\ KnownBy(exchangeOf) /\ KnownBy(chargerOf)

LEMMA NoTableFits == TableFit(Empty)
<1>1. DOMAIN Empty = {}
  BY DEF Empty
<1> QED
  BY <1>1, FS_EmptySet DEF TableFit

LEMMA CountedIsKnown ==
  ASSUME NEW tx, Class(tx)[1] # "none", KnownBy(exchangeOf), KnownBy(chargerOf)
  PROVE  Class(tx)[2] \in ExchangeNames /\ tx.name \in ValidTokens
<1>1. IsTokenTransfer(tx)
  BY DEF Class
<1>2. \A a : /\ IsExchange(a) => exchangeOf[a] \in ExchangeNames
             /\ IsCharger(a) => chargerOf[a] \in ExchangeNames
  BY DEF KnownBy, IsExchange, IsCharger
<1>3. \/ IsExchange(tx.from) /\ Class(tx)[2] = exchangeOf[tx.from]
      \/ IsExchange(tx.to) /\ Class(tx)[2] = exchangeOf[tx.to]
      \/ IsCharger(tx.to) /\ Class(tx)[2] = chargerOf[tx.to]
  BY DEF Class
<1> QED
  BY <1>1, <1>2, <1>3 DEF IsTokenTransfer

\* What the tracker learns meanwhile are exchanges and chargers of exchanges.
LEMMA StaysKnown ==
  ASSUME ScanTypeOK, FitInv, [ScanNext]_scanVars, job = "exchange"
  PROVE  KnownBy(exchangeOf)' /\ KnownBy(chargerOf)'
<1>1. KnownBy(exchangeOf) /\ KnownBy(chargerOf)
  BY DEF FitInv
<1>2. CASE UNCHANGED <<exchangeOf, chargerOf>>
  BY <1>1, <1>2 DEF KnownBy
<1>3. CASE RegistryChanges
  <2>1. PICK a \in Addrs : \/ \E e \in ExchangeNames : LearnExchange(a, e) \/ LearnCharger(a, e)
                           \/ ChargerIsFake(a)
    BY <1>3 DEF RegistryChanges
  <2>2. ASSUME NEW e \in ExchangeNames, LearnExchange(a, e) PROVE KnownBy(exchangeOf)' /\ KnownBy(chargerOf)'
    BY <1>1, <2>2 DEF LearnExchange, KnownBy
  <2>3. ASSUME NEW e \in ExchangeNames, LearnCharger(a, e) PROVE KnownBy(exchangeOf)' /\ KnownBy(chargerOf)'
    BY <1>1, <2>3 DEF LearnCharger, KnownBy
  <2>4. CASE ChargerIsFake(a)
    BY <1>1, <2>4 DEF ChargerIsFake, KnownBy
  <2> QED
    BY <2>1, <2>2, <2>3, <2>4
<1>4. RegistryChanges \/ UNCHANGED <<exchangeOf, chargerOf>>
  BY DEF ScanNext, FlushRow, FlushPersist, CountRow, ExchangeRow, ExchangePersist, DiffRow,
         TronLinkRow, NextDay, Advance, registry, scanVars
<1> QED
  BY <1>2, <1>3, <1>4

LEMMA StepFit ==
  ASSUME ScanTypeOK, ExchangeInv, FitInv, [ScanNext]_scanVars
  PROVE  FitInv'
<1> SUFFICES ASSUME job' = "exchange" PROVE FitInv'
  BY DEF FitInv
<1>1. job = "exchange" /\ job' = job
  BY StepScanType DEF others
<1>0. KnownBy(exchangeOf)' /\ KnownBy(chargerOf)' /\ KnownBy(exchangeOf) /\ KnownBy(chargerOf)
  BY <1>1, StaysKnown DEF FitInv
<1>2. \/ ExchangeRow \/ ExchangePersist
      \/ UNCHANGED <<tables, stats>>
  BY <1>1 DEF ScanNext, FlushRow, FlushPersist, CountRow, ExchangeRow, ExchangePersist, DiffRow,
       TronLinkRow, NextDay, RegistryChanges, statVars, scanVars
<1>3. CASE UNCHANGED <<tables, stats>>
  BY <1>0, <1>1, <1>3 DEF FitInv
<1>4. CASE ExchangePersist
  <2>1. tables' = Append(tables, stats) /\ stats' = Empty
    BY <1>4 DEF ExchangePersist
  <2>2. Range(tables') = Range(tables) \cup {stats}
    BY <1>1, <2>1, LongerByOne DEF ExchangeInv
  <2> QED
    BY <1>0, <1>1, <2>1, <2>2, NoTableFits DEF FitInv
<1>5. CASE ExchangeRow
  <2> DEFINE tx == Row
             kind == Class(tx)[1]
             exchange == Class(tx)[2]
  <2>1. tables' = tables /\ tx \in Transactions
    BY <1>5, RowIsTransaction DEF ExchangeRow
  <2>2. CASE stats' = stats
    BY <1>0, <1>1, <2>1, <2>2 DEF FitInv
  <2>3. CASE stats' # stats
    <3> DEFINE one == IF exchange \in DOMAIN stats THEN stats[exchange] ELSE Empty
    <3>1. kind # "none"
      BY <1>5, <2>3 DEF ExchangeRow
    <3>2. /\ DOMAIN stats' = DOMAIN stats \cup {exchange}
          /\ \A e \in DOMAIN stats : e # exchange => stats'[e] = stats[e]
          /\ stats'[exchange] = WithRow(one, kind, tx)
      <4>1. stats' = Updated(stats, exchange, Empty, LAMBDA e : WithRow(e, kind, tx))
        BY <1>5, <2>3 DEF ExchangeRow
      <4> HIDE DEF tx, kind, exchange
      <4> QED
        BY <4>1 DEF Updated
    <3>3. kind \in Kinds /\ exchange \in ExchangeNames /\ tx.name \in ValidTokens
      BY <1>0, <3>1, CountedIsValid, CountedIsKnown
    <3> HIDE DEF tx, kind, exchange
    <3>4. RowsFit(one)
      <4>1. DOMAIN Empty = {}
        BY DEF Empty
      <4>2. MapFit(Empty)
        BY <4>1, FS_EmptySet DEF MapFit
      <4> QED
        BY <1>1, <4>1, <4>2, NoRowsAddUp DEF FitInv, TableFit, RowFit, RowsFit
    <3> HIDE DEF one
    <3>5. RowFit(WithRow(one, kind, tx))
      BY <2>1, <3>3, <3>4, RowsStayFit
    <3>6. IsFiniteSet(DOMAIN stats')
      BY <1>1, <3>2, FS_AddElement DEF FitInv, TableFit
    <3>7. TableFit(stats')
      BY <1>1, <3>2, <3>3, <3>5, <3>6 DEF FitInv, TableFit
    <3> QED
      BY <1>0, <1>1, <2>1, <3>7 DEF FitInv
  <2> QED
    BY <2>2, <2>3
<1> QED
  BY <1>2, <1>3, <1>4, <1>5

LEMMA InitFit == ScanInit => FitInv
<1> SUFFICES ASSUME ScanInit PROVE FitInv
  OBVIOUS
<1>1. stats = Empty /\ Range(tables) = {}
  BY DEF ScanInit, Range
<1>2. KnownBy(exchangeOf) /\ KnownBy(chargerOf)
  <2>1. \E s \in Scans : exchangeOf = s.exchangeOf /\ chargerOf = s.chargerOf
    BY Zenon DEF ScanInit
  <2> QED
    BY <2>1, ReportNamesAssumption DEF KnownBy
<1> QED
  BY <1>1, <1>2, NoTableFits DEF FitInv

-----------------------------------------------------------------------------
(* The flush: nothing is lost                                              *)

Sides == {"from", "to"}
UserTokenStat == [from : Flow, to : Flow]

\* What a transaction adds to a figure of a flow, and what a map has of it for a token.
Gain(tx, what) == CASE what = "txs"    -> 1
                    [] what = "amount" -> tx.amount
                    [] OTHER           -> tx.cost[what]

KeysOf(map, name) == {key \in DOMAIN map : key[2] = name}
SideSum(map, name, side, what) ==
    SumOver([k \in KeysOf(map, name) |-> Figure(map[k][side], what)], KeysOf(map, name))

MapRight(map) == IsFiniteSet(DOMAIN map) /\ \A k \in DOMAIN map : map[k] \in UserTokenStat

\* A flow after one transaction more.
LEMMA FlowGrows ==
  ASSUME NEW f \in Flow, NEW tx \in Transactions
  PROVE  /\ FlowAdd(f, tx) \in Flow
         /\ \A what \in Figures : /\ Figure(FlowAdd(f, tx), what) = Figure(f, what) + Gain(tx, what)
                                  /\ Gain(tx, what) \in Nat
<1> DEFINE g == FlowAdd(f, tx)
<1>1. /\ f.txs \in Nat /\ f.amount \in Nat /\ f.cost \in [Costs -> Nat]
      /\ tx.amount \in Nat /\ tx.cost \in [Costs -> Nat]
  BY DEF Flow, Transactions
<1>2. g = [txs |-> f.txs + 1, amount |-> f.amount + tx.amount,
           cost |-> [c \in Costs |-> f.cost[c] + tx.cost[c]]]
  BY <1>1 DEF FlowAdd, Plus
<1> HIDE DEF g
<1>3. g \in Flow
  BY <1>1, <1>2 DEF Flow
<1>4. /\ g.txs = f.txs + 1 /\ g.amount = f.amount + tx.amount
      /\ \A c \in Costs : g.cost[c] = f.cost[c] + tx.cost[c]
  BY <1>2
<1>5. ASSUME NEW what \in Figures
      PROVE  Figure(g, what) = Figure(f, what) + Gain(tx, what) /\ Gain(tx, what) \in Nat
  <2>1. CASE what \in Costs
    BY <1>1, <1>4, <2>1 DEF Figure, Gain, Costs
  <2>2. CASE what \notin Costs
    BY <1>1, <1>4, <2>2 DEF Figure, Gain, Figures, Costs
  <2> QED
    BY <2>1, <2>2
<1> QED
  BY <1>3, <1>5 DEF g

\* A new entry of an address and a token has nothing on either side.
LEMMA NewIsUserToken ==
  /\ NewUserTokenStatistic \in UserTokenStat
  /\ \A side \in Sides, what \in Figures : Figure(NewUserTokenStatistic[side], what) = 0
<1>1. NewFlow \in Flow /\ \A what \in Figures : Figure(NewFlow, what) = 0
  BY DEF NewFlow, Flow, Zero, Figures, Figure, Costs
<1> QED
  BY <1>1 DEF NewUserTokenStatistic, UserTokenStat, Sides

\* One side of one entry changes, which is made if it is missing.
SideChange(map, after, key, side, tx) ==
    /\ DOMAIN after = DOMAIN map \cup {key}
    /\ \A k \in DOMAIN map : k # key => after[k] = map[k]
    /\ LET s == IF key \in DOMAIN map THEN map[key] ELSE NewUserTokenStatistic
       IN  /\ after[key] \in UserTokenStat
           /\ after[key][side] = FlowAdd(s[side], tx)
           /\ \A other \in Sides : other # side => after[key][other] = s[other]

\* Then the sums of that side and of the key's token grow by what the transaction has,
\* and no other.
LEMMA SideSums ==
  ASSUME NEW map, MapRight(map), NEW after, NEW key, NEW side \in Sides, NEW tx \in Transactions,
         SideChange(map, after, key, side, tx)
  PROVE  /\ MapRight(after)
         /\ \A name : \A s \in Sides, what \in Figures :
               /\ SideSum(map, name, s, what) \in Nat
               /\ SideSum(after, name, s, what)
                     = SideSum(map, name, s, what)
                       + (IF (key[2] = name) /\ (s = side) THEN Gain(tx, what) ELSE 0)
<1> DEFINE before == IF key \in DOMAIN map THEN map[key] ELSE NewUserTokenStatistic
<1>1. before \in UserTokenStat
  BY NewIsUserToken DEF MapRight
<1>2. /\ DOMAIN after = DOMAIN map \cup {key} /\ \A k \in DOMAIN map : k # key => after[k] = map[k]
      /\ after[key] \in UserTokenStat /\ after[key][side] = FlowAdd(before[side], tx)
      /\ \A other \in Sides : other # side => after[key][other] = before[other]
  BY DEF SideChange
<1> HIDE DEF before
<1>3. MapRight(after)
  <2>1. IsFiniteSet(DOMAIN after)
    BY <1>2, FS_AddElement DEF MapRight
  <2> QED
    BY <1>2, <2>1 DEF MapRight
<1>4. ASSUME NEW name, NEW s \in Sides, NEW what \in Figures
      PROVE  /\ SideSum(map, name, s, what) \in Nat
             /\ SideSum(after, name, s, what)
                   = SideSum(map, name, s, what)
                     + (IF (key[2] = name) /\ (s = side) THEN Gain(tx, what) ELSE 0)
  <2> DEFINE S == KeysOf(map, name)
             U == KeysOf(after, name)
             f == [k \in S |-> Figure(map[k][s], what)]
             g == [k \in U |-> Figure(after[k][s], what)]
             d == IF s = side THEN Gain(tx, what) ELSE 0
  <2>1. IsFiniteSet(S)
    BY FS_Subset DEF MapRight, KeysOf
  <2>2. \A k \in S : f[k] \in Nat
    <3>1. \A k \in S : map[k][s] \in Flow
      BY DEF MapRight, UserTokenStat, Sides, KeysOf
    <3> QED
      BY <3>1, FigureType
  <2>3. Amounts(f, S)
    BY <2>1, <2>2 DEF Amounts
  <2>4. SideSum(map, name, s, what) = SumOver(f, S) /\ SideSum(after, name, s, what) = SumOver(g, U)
    BY DEF SideSum
  <2>5. SumOver(f, S) \in Nat
    <3> HIDE DEF f, S
    <3> QED
      BY <2>3, SumType
  <2>6. CASE key[2] # name
    <3>1. U = S /\ \A k \in S : after[k] = map[k]
      BY <1>2, <2>6 DEF KeysOf
    <3>2. g = f
      BY <3>1
    <3> QED
      BY <2>4, <2>5, <2>6, <3>1, <3>2
  <2>7. CASE key[2] = name
    <3>1. U = S \cup {key} /\ \A k \in S : k # key => after[k] = map[k]
      BY <1>2, <2>7 DEF KeysOf
    <3>2. \A k \in S : k # key => g[k] = f[k]
      BY <3>1
    <3>3. g[key] = (IF key \in S THEN f[key] ELSE 0) + d /\ d \in Nat
      <4>1. before[s] \in Flow
        BY <1>1 DEF UserTokenStat, Sides
      <4>2. Figure(before[s], what) = IF key \in S THEN f[key] ELSE 0
        BY <2>7, NewIsUserToken DEF before, KeysOf
      <4>3. Figure(before[s], what) \in Nat
        BY <4>1, FigureType
      <4>4. g[key] = Figure(after[key][s], what)
        BY <3>1
      <4>5. CASE s = side
        BY <1>2, <4>1, <4>2, <4>4, <4>5, FlowGrows
      <4>6. CASE s # side
        <5>1. after[key][s] = before[s]
          BY <1>2, <4>6
        <5> HIDE DEF g, f, S
        <5> QED
          BY <4>2, <4>3, <4>4, <4>6, <5>1
      <4> QED
        BY <4>5, <4>6
    <3>4. SumOver(g, S \cup {key}) = SumOver(f, S) + d
      <4> HIDE DEF f, g, S, d
      <4> QED
        BY ONLY <2>3, <3>2, <3>3, SumOfChanged, SMTT(60)
    <3> HIDE DEF f, g, S, U
    <3> QED
      BY <2>4, <2>5, <2>7, <3>1, <3>4
  <2> QED
    BY <2>6, <2>7
<1> QED
  BY <1>3, <1>4

\* What was sent of a token is what was received of it.
Balanced(map) ==
    /\ MapRight(map)
    /\ \A name : \A what \in Figures : SideSum(map, name, "from", what) = SideSum(map, name, "to", what)

\* The two halves of one transaction.
LEMMA SentHalf ==
  ASSUME NEW map, MapRight(map), NEW key, NEW tx \in Transactions
  PROVE  SideChange(map, Updated(map, key, NewUserTokenStatistic, LAMBDA s : AddFrom(s, tx)),
                    key, "from", tx)
<1> DEFINE s1 == IF key \in DOMAIN map THEN map[key] ELSE NewUserTokenStatistic
           t == Updated(map, key, NewUserTokenStatistic, LAMBDA s : AddFrom(s, tx))
<1>1. s1 \in UserTokenStat
  BY NewIsUserToken DEF MapRight
<1>2. /\ DOMAIN t = DOMAIN map \cup {key} /\ \A k \in DOMAIN map : k # key => t[k] = map[k]
      /\ t[key] = AddFrom(s1, tx)
  BY DEF Updated
<1> HIDE DEF s1, t
<1>3. AddFrom(s1, tx) = [s1 EXCEPT !.from = FlowAdd(s1.from, tx)] /\ FlowAdd(s1.from, tx) \in Flow
  BY <1>1, FlowGrows DEF AddFrom, UserTokenStat
<1>4. t[key] \in UserTokenStat /\ t[key].from = FlowAdd(s1.from, tx) /\ t[key].to = s1.to
  BY <1>1, <1>2, <1>3 DEF UserTokenStat
<1> QED
  BY <1>2, <1>4 DEF SideChange, Sides, s1, t

\* The receiver's half is the other side.
LEMMA ReceivedHalf ==
  ASSUME NEW map, MapRight(map), NEW key, NEW tx \in Transactions
  PROVE  SideChange(map, Updated(map, key, NewUserTokenStatistic, LAMBDA s : AddTo(s, tx)),
                    key, "to", tx)
<1> DEFINE s1 == IF key \in DOMAIN map THEN map[key] ELSE NewUserTokenStatistic
           t == Updated(map, key, NewUserTokenStatistic, LAMBDA s : AddTo(s, tx))
<1>1. s1 \in UserTokenStat
  BY NewIsUserToken DEF MapRight
<1>2. /\ DOMAIN t = DOMAIN map \cup {key} /\ \A k \in DOMAIN map : k # key => t[k] = map[k]
      /\ t[key] = AddTo(s1, tx)
  BY DEF Updated
<1> HIDE DEF s1, t
<1>3. AddTo(s1, tx) = [s1 EXCEPT !.to = FlowAdd(s1.to, tx)] /\ FlowAdd(s1.to, tx) \in Flow
  BY <1>1, FlowGrows DEF AddTo, UserTokenStat
<1>4. t[key] \in UserTokenStat /\ t[key].to = FlowAdd(s1.to, tx) /\ t[key].from = s1.from
  BY <1>1, <1>2, <1>3 DEF UserTokenStat
<1> QED
  BY <1>2, <1>4 DEF SideChange, Sides, s1, t

\* Both halves together keep the balance, also when they go to one entry.
LEMMA BalanceKept ==
  ASSUME NEW map, Balanced(map), NEW tx \in Transactions
  PROVE  Balanced(UpdateUserToken(map, tx))
<1> DEFINE from == <<tx.from, tx.name>>
           to == <<tx.to, tx.name>>
           sent == Updated(map, from, NewUserTokenStatistic, LAMBDA s : AddFrom(s, tx))
           both == Updated(sent, to, NewUserTokenStatistic, LAMBDA s : AddTo(s, tx))
<1>1. both = UpdateUserToken(map, tx)
  BY DEF UpdateUserToken
<1>2. MapRight(map)
  BY DEF Balanced
<1>3. SideChange(map, sent, from, "from", tx)
  <2> HIDE DEF from
  <2> QED
    BY <1>2, SentHalf
<1>4. from[2] = tx.name /\ to[2] = tx.name /\ "from" \in Sides /\ "to" \in Sides
  BY DEF Sides
<1> HIDE DEF sent
<1>5. MapRight(sent) /\ \A name : \A s \in Sides, what \in Figures :
         /\ SideSum(map, name, s, what) \in Nat
         /\ SideSum(sent, name, s, what) = SideSum(map, name, s, what)
              + (IF (tx.name = name) /\ (s = "from") THEN Gain(tx, what) ELSE 0)
  <2> HIDE DEF from
  <2> QED
    BY <1>2, <1>3, <1>4, SideSums
<1>6. SideChange(sent, both, to, "to", tx)
  <2> HIDE DEF to
  <2> QED
    BY <1>5, ReceivedHalf
<1> HIDE DEF both
<1>7. MapRight(both) /\ \A name : \A s \in Sides, what \in Figures :
         SideSum(both, name, s, what) = SideSum(sent, name, s, what)
              + (IF (tx.name = name) /\ (s = "to") THEN Gain(tx, what) ELSE 0)
  <2> HIDE DEF to
  <2> QED
    BY <1>4, <1>5, <1>6, SideSums
<1>8. ASSUME NEW name, NEW what \in Figures
      PROVE  SideSum(both, name, "from", what) = SideSum(both, name, "to", what)
  <2>1. SideSum(map, name, "from", what) = SideSum(map, name, "to", what)
    BY DEF Balanced
  <2>2. \A f \in Flow : Gain(tx, what) \in Nat
    BY FlowGrows
  <2>3. Gain(tx, what) \in Nat
    BY <2>2, NewIsUserToken DEF UserTokenStat
  <2> DEFINE x == IF tx.name = name THEN Gain(tx, what) ELSE 0
  <2>4. /\ SideSum(both, name, "from", what) = SideSum(sent, name, "from", what) + 0
        /\ SideSum(both, name, "to", what) = SideSum(sent, name, "to", what) + x
        /\ SideSum(sent, name, "from", what) = SideSum(map, name, "from", what) + x
        /\ SideSum(sent, name, "to", what) = SideSum(map, name, "to", what) + 0
        /\ SideSum(map, name, "from", what) \in Nat /\ x \in Nat
    BY <1>4, <1>5, <1>7, <2>3
  <2> HIDE DEF x
  <2> QED
    BY <2>1, <2>4
<1>9. Balanced(both)
  BY <1>7, <1>8 DEF Balanced
<1> QED
  BY <1>1, <1>9

\* The fees: each transaction raises the categories by what it has paid.
LEMMA FeesFinite == IsFiniteSet(Fees)
<1>1. \A S, x : IsFiniteSet(S) => IsFiniteSet(S \cup {x})
  BY FS_AddElement
<1>2. IsFiniteSet({"Energy", "Net", "NewAcc"})
  <2>1. IsFiniteSet({"Energy"} \cup {"Net"})
    BY <1>1, FS_Singleton
  <2>2. IsFiniteSet(({"Energy"} \cup {"Net"}) \cup {"NewAcc"})
    BY <1>1, <2>1
  <2>3. ({"Energy"} \cup {"Net"}) \cup {"NewAcc"} = {"Energy", "Net", "NewAcc"}
    OBVIOUS
  <2> QED
    BY <2>2, <2>3
<1>3. IsFiniteSet({"UpdateAuth", "MultiSig", "Memo"})
  <2>1. IsFiniteSet({"UpdateAuth"} \cup {"MultiSig"})
    BY <1>1, FS_Singleton
  <2>2. IsFiniteSet(({"UpdateAuth"} \cup {"MultiSig"}) \cup {"Memo"})
    BY <1>1, <2>1
  <2>3. ({"UpdateAuth"} \cup {"MultiSig"}) \cup {"Memo"} = {"UpdateAuth", "MultiSig", "Memo"}
    OBVIOUS
  <2> QED
    BY <2>2, <2>3
<1>4. IsFiniteSet({"SR", "IssueTRC10", "NewBancor"})
  <2>1. IsFiniteSet({"SR"} \cup {"IssueTRC10"})
    BY <1>1, FS_Singleton
  <2>2. IsFiniteSet(({"SR"} \cup {"IssueTRC10"}) \cup {"NewBancor"})
    BY <1>1, <2>1
  <2>3. ({"SR"} \cup {"IssueTRC10"}) \cup {"NewBancor"} = {"SR", "IssueTRC10", "NewBancor"}
    OBVIOUS
  <2> QED
    BY <2>2, <2>3
<1>5. IsFiniteSet(({"Energy", "Net", "NewAcc"} \cup {"UpdateAuth", "MultiSig", "Memo"})
                    \cup {"SR", "IssueTRC10", "NewBancor"})
  BY <1>2, <1>3, <1>4, FS_Union
<1>6. Fees = ({"Energy", "Net", "NewAcc"} \cup {"UpdateAuth", "MultiSig", "Memo"})
               \cup {"SR", "IssueTRC10", "NewBancor"}
  BY DEF Fees
<1> QED
  BY <1>5, <1>6

FeeStat == [Fees -> Nat]

\* One category raised, or none if the name is of no category.
Raised(f, x, d) == [k \in Fees |-> f[k] + (IF k = x THEN d ELSE 0)]

\* The sum of the categories grows by what one of them is raised by.
LEMMA RaisedSum ==
  ASSUME NEW f \in FeeStat, NEW x, NEW d \in Nat, (x \in Fees) \/ (d = 0)
  PROVE  /\ Raised(f, x, d) \in FeeStat
         /\ SumOver(Raised(f, x, d), Fees) = SumOver(f, Fees) + d
<1> DEFINE g == Raised(f, x, d)
<1>1. /\ \A k \in Fees : f[k] \in Nat
      /\ \A k \in Fees : g[k] = f[k] + (IF k = x THEN d ELSE 0)
      /\ DOMAIN g = Fees /\ g = [k \in Fees |-> g[k]]
  BY DEF FeeStat, Raised
<1>2. Amounts(f, Fees)
  BY <1>1, FeesFinite DEF Amounts
<1> HIDE DEF g
<1>3. g \in FeeStat
  BY <1>1 DEF FeeStat
<1>4. SumOver(g, Fees) = SumOver(f, Fees) + d
  <2>1. CASE x \in Fees
    <3>1. \A k \in Fees : k # x => g[k] = f[k]
      BY <1>1
    <3>2. g[x] = (IF x \in Fees THEN f[x] ELSE 0) + d /\ d \in Nat
      BY <1>1, <2>1
    <3>3. Amounts(g, Fees \cup {x}) /\ SumOver(g, Fees \cup {x}) = SumOver(f, Fees) + d
      BY <1>2, <3>1, <3>2, SumOfChanged
    <3>4. Fees \cup {x} = Fees
      BY <2>1
    <3> QED
      BY <3>3, <3>4
  <2>2. CASE x \notin Fees
    <3>1. \A k \in Fees : g[k] = f[k]
      BY <1>1, <2>2
    <3>2. SumOver(g, Fees) = SumOver(f, Fees)
      BY <1>2, <3>1, SumOfEqual
    <3>3. SumOver(f, Fees) \in Nat
      BY <1>2, SumType
    <3> QED
      BY <2>2, <3>2, <3>3
  <2> QED
    BY <2>1, <2>2
<1> QED
  BY <1>3, <1>4 DEF g

\* What a transaction pays in all goes to the categories, and to no two of them.
LEMMA FeeOfTransaction ==
  ASSUME NEW f \in FeeStat, NEW tx \in Transactions, FeeIsMade(tx)
  PROVE  /\ FeeAdd(f, tx) \in FeeStat
         /\ SumOver(FeeAdd(f, tx), Fees) = SumOver(f, Fees) + tx.cost["Fee"]
<1> DEFINE energy == tx.cost["EnergyFee"]
           net == tx.cost["NetFee"]
           sigs == MultiSigFee(tx)
           memo == MemoFee(tx)
           kind == SpecialKind(tx)
           rest == IF kind = "none" THEN 0 ELSE SpecialFee(tx)
           f1 == Raised(f, "Energy", energy)
           f2 == Raised(f1, "Net", net)
           f3 == Raised(f2, "MultiSig", sigs)
           f4 == Raised(f3, "Memo", memo)
           f5 == Raised(f4, kind, rest)
<1>1. energy \in Nat /\ net \in Nat /\ tx.cost["Fee"] \in Nat /\ sigs \in Nat /\ memo \in Nat
  BY DEF Transactions, Costs, MultiSigFee, MemoFee
<1>2. kind \in {"NewAcc", "SR", "IssueTRC10", "NewBancor", "UpdateAuth", "none"}
  BY DEF SpecialKind
<1>3. rest \in Nat /\ energy + net + sigs + memo + rest = tx.cost["Fee"]
  <2>1. CASE kind = "none"
    <3>1. tx.cost["Fee"] = net + sigs + memo + energy
      BY <2>1 DEF FeeIsMade
    <3> HIDE DEF energy, net, sigs, memo, kind
    <3> QED
      BY <1>1, <2>1, <3>1
  <2>2. CASE kind # "none"
    <3>1. tx.cost["Fee"] >= net + sigs + memo /\ energy = 0
      BY <2>2 DEF FeeIsMade
    <3>2. rest = tx.cost["Fee"] - net - sigs - memo
      BY <2>2 DEF SpecialFee
    <3> HIDE DEF energy, net, sigs, memo, kind, rest
    <3> QED
      BY <1>1, <3>1, <3>2
  <2> QED
    BY <2>1, <2>2
<1>4. kind \in Fees \/ rest = 0
  BY <1>2 DEF Fees
<1>5. {"Energy", "Net", "MultiSig", "Memo"} \subseteq Fees
  BY DEF Fees
<1>6. FeeAdd(f, tx) = f5
  <2>1. ASSUME NEW k \in Fees
        PROVE  (CASE k = "Energy"        -> energy
                  [] k = "Net"           -> net
                  [] k = "MultiSig"      -> sigs
                  [] k = "Memo"          -> memo
                  [] k = kind            -> SpecialFee(tx)
                  [] OTHER               -> 0)
               = (IF k = "Energy" THEN energy ELSE 0) + (IF k = "Net" THEN net ELSE 0)
                 + (IF k = "MultiSig" THEN sigs ELSE 0) + (IF k = "Memo" THEN memo ELSE 0)
                 + (IF k = kind THEN rest ELSE 0)
    <3>1. k # "none"
      BY DEF Fees
    <3>2. (k = kind) => (rest = SpecialFee(tx))
      BY <3>1
    <3> HIDE DEF energy, net, sigs, memo, kind, rest
    <3> QED
      BY <1>1, <1>2, <1>3, <3>1, <3>2
  <2>2. FeeAdd(f, tx) = [k \in Fees |-> f[k] + ((IF k = "Energy" THEN energy ELSE 0)
                 + (IF k = "Net" THEN net ELSE 0)
                 + (IF k = "MultiSig" THEN sigs ELSE 0) + (IF k = "Memo" THEN memo ELSE 0)
                 + (IF k = kind THEN rest ELSE 0))]
    <3> HIDE DEF rest
    <3> QED
      BY <2>1 DEF FeeAdd
  <2> HIDE DEF energy, net, sigs, memo, kind, rest
  <2>3. f5 = [k \in Fees |-> f[k] + (IF k = "Energy" THEN energy ELSE 0)
                 + (IF k = "Net" THEN net ELSE 0)
                 + (IF k = "MultiSig" THEN sigs ELSE 0) + (IF k = "Memo" THEN memo ELSE 0)
                 + (IF k = kind THEN rest ELSE 0)]
    BY DEF Raised
  <2>4. \A k \in Fees : f[k] \in Nat
    BY DEF FeeStat
  <2> HIDE DEF f5
  <2> QED
    BY <1>1, <1>3, <2>2, <2>3, <2>4
<1> HIDE DEF energy, net, sigs, memo, kind, rest
<1>7. f1 \in FeeStat /\ SumOver(f1, Fees) = SumOver(f, Fees) + energy
  BY <1>1, <1>5, RaisedSum
<1> HIDE DEF f1
<1>8. f2 \in FeeStat /\ SumOver(f2, Fees) = SumOver(f1, Fees) + net
  BY <1>1, <1>5, <1>7, RaisedSum
<1> HIDE DEF f2
<1>9. f3 \in FeeStat /\ SumOver(f3, Fees) = SumOver(f2, Fees) + sigs
  BY <1>1, <1>5, <1>8, RaisedSum
<1> HIDE DEF f3
<1>10. f4 \in FeeStat /\ SumOver(f4, Fees) = SumOver(f3, Fees) + memo
  BY <1>1, <1>5, <1>9, RaisedSum
<1> HIDE DEF f4
<1>11. f5 \in FeeStat /\ SumOver(f5, Fees) = SumOver(f4, Fees) + rest
  BY <1>3, <1>4, <1>10, RaisedSum
<1> HIDE DEF f5
<1>12. SumOver(f, Fees) \in Nat
  BY FeesFinite, SumType DEF Amounts, FeeStat
<1> QED
  BY <1>1, <1>3, <1>6, <1>7, <1>8, <1>9, <1>10, <1>11, <1>12

\* The categories of a new day are empty.
LEMMA NoFees == NewFeeStatistic \in FeeStat /\ SumOver(NewFeeStatistic, Fees) = 0
<1>1. NewFeeStatistic \in FeeStat /\ \A k \in Fees : NewFeeStatistic[k] = 0
  BY DEF NewFeeStatistic, Zero, FeeStat
<1>2. Amounts(NewFeeStatistic, Fees)
  BY <1>1, FeesFinite DEF Amounts
<1>3. AddUp(NewFeeStatistic, NewFeeStatistic, NewFeeStatistic, Fees)
  BY <1>1 DEF AddUp
<1>4. SumOver(NewFeeStatistic, Fees) = SumOver(NewFeeStatistic, Fees) + SumOver(NewFeeStatistic, Fees)
  BY <1>2, <1>3, SumOfPlus
<1>5. SumOver(NewFeeStatistic, Fees) \in Nat
  BY <1>2, SumType
<1>6. \A n \in Nat : (n = n + n) => (n = 0)
  OBVIOUS
<1> QED
  BY <1>1, <1>4, <1>5, <1>6, Zenon

\* What the entry "total" of the senders' map says of all fees paid.
Paid(map) == IF "total" \in DOMAIN map THEN map["total"].cost["Fee"] ELSE 0
TotalRight(map) == ("total" \in DOMAIN map) => (map["total"].cost \in [Costs -> Nat])

\* The entry of an owner is another one; that of all grows by the fee.
LEMMA TotalGrows ==
  ASSUME NEW map, TotalRight(map), NEW tx \in Transactions
  PROVE  /\ TotalRight(FromStats(map, tx))
         /\ Paid(FromStats(map, tx)) = Paid(map) + tx.cost["Fee"]
<1> DEFINE one == UpdateUser(map, tx.owner, tx)
           two == FromStats(map, tx)
           s == IF "total" \in DOMAIN map THEN map["total"] ELSE NewUserStatistic
<1>1. tx.owner # "total" /\ tx.cost \in [Costs -> Nat] /\ "Fee" \in Costs
  BY ScanAssumption DEF Transactions, Costs
<1>2. /\ ("total" \in DOMAIN one) <=> ("total" \in DOMAIN map)
      /\ ("total" \in DOMAIN map) => (one["total"] = map["total"])
  BY <1>1 DEF UpdateUser, Updated
<1>3. two = UpdateUser(one, "total", tx)
  BY DEF FromStats
<1> HIDE DEF one, two
<1>4. /\ "total" \in DOMAIN two
      /\ two["total"] = UserAdd(IF "total" \in DOMAIN one THEN one["total"] ELSE NewUserStatistic, tx)
  BY <1>3 DEF UpdateUser, Updated
<1>5. two["total"] = UserAdd(s, tx)
  BY <1>2, <1>4
<1>6. s.cost \in [Costs -> Nat] /\ Paid(map) = s.cost["Fee"]
  BY <1>1 DEF TotalRight, NewUserStatistic, Zero, Paid
<1> HIDE DEF s
<1>7. UserAdd(s, tx).cost = Plus(s.cost, tx.cost)
  BY DEF UserAdd
<1>8. two["total"].cost = [c \in Costs |-> s.cost[c] + tx.cost[c]]
  BY <1>5, <1>6, <1>7 DEF Plus
<1>9. two["total"].cost \in [Costs -> Nat] /\ two["total"].cost["Fee"] = s.cost["Fee"] + tx.cost["Fee"]
  BY <1>1, <1>6, <1>8
<1>10. TotalRight(two) /\ Paid(two) = Paid(map) + tx.cost["Fee"]
  BY <1>4, <1>6, <1>9 DEF TotalRight, Paid
<1> QED
  BY <1>10 DEF two

\* The maps of the flush.
CacheRight(c) == /\ Balanced(c.userToken)
                 /\ c.fee \in FeeStat /\ TotalRight(c.from)
                 /\ SumOver(c.fee, Fees) = Paid(c.from)

\* The maps of a new day have nothing.
LEMMA NewCacheIsRight == CacheRight(NewCache)
<1>1. /\ NewCache.userToken = Empty /\ NewCache.from = Empty /\ NewCache.fee = NewFeeStatistic
  BY DEF NewCache
<1>2. DOMAIN Empty = {}
  BY DEF Empty
<1>3. Balanced(Empty)
  <2>1. MapRight(Empty)
    BY <1>2, FS_EmptySet DEF MapRight
  <2>2. \A name : KeysOf(Empty, name) = {}
    BY <1>2 DEF KeysOf
  <2>3. \A name, side, what : SideSum(Empty, name, side, what) = 0
    BY <2>2, SumOfNone DEF SideSum
  <2> QED
    BY <2>1, <2>3 DEF Balanced
<1>4. TotalRight(Empty) /\ Paid(Empty) = 0
  BY <1>2 DEF TotalRight, Paid
<1> QED
  BY <1>1, <1>3, <1>4, NoFees DEF CacheRight

\* The maps of the flush are right after one transaction more.
LEMMA CacheStaysRight ==
  ASSUME NEW c, CacheRight(c), NEW tx \in Transactions, FeeIsMade(tx)
  PROVE  CacheRight(Accumulate(c, tx))
<1> DEFINE d == Accumulate(c, tx)
<1>1. /\ d.from = FromStats(c.from, tx)
      /\ d.userToken = IF (tx.name # NoName) /\ (tx.from # NoAddr) /\ (tx.to # NoAddr)
                       THEN UpdateUserToken(c.userToken, tx) ELSE c.userToken
      /\ d.fee = IF tx.cost["Fee"] > 0 THEN FeeAdd(c.fee, tx) ELSE c.fee
  BY DEF Accumulate
<1> HIDE DEF d
<1>2. Balanced(d.userToken)
  BY <1>1, BalanceKept DEF CacheRight
<1>3. TotalRight(d.from) /\ Paid(d.from) = Paid(c.from) + tx.cost["Fee"]
  BY <1>1, TotalGrows DEF CacheRight
<1>4. c.fee \in FeeStat /\ SumOver(c.fee, Fees) = Paid(c.from) /\ SumOver(c.fee, Fees) \in Nat
  BY FeesFinite, SumType DEF CacheRight, Amounts, FeeStat
<1>5. tx.cost["Fee"] \in Nat
  BY DEF Transactions, Costs
<1>6. d.fee \in FeeStat /\ SumOver(d.fee, Fees) = SumOver(c.fee, Fees) + tx.cost["Fee"]
  <2>1. CASE tx.cost["Fee"] > 0
    BY <1>1, <1>4, <2>1, FeeOfTransaction
  <2>2. CASE ~(tx.cost["Fee"] > 0)
    <3>1. tx.cost["Fee"] = 0
      BY <1>5, <2>2
    <3> QED
      BY <1>1, <1>4, <2>2, <3>1
  <2> QED
    BY <2>1, <2>2
<1>7. CacheRight(d)
  BY <1>2, <1>3, <1>4, <1>6 DEF CacheRight
<1> QED
  BY <1>7 DEF d

\* The fees of the rows are made as the network makes them.
RowFeesMade ==
    \A d \in DOMAIN days : \A i \in DOMAIN days[d] :
        (days[d][i].type # TransferType) => FeeIsMade(days[d][i])

FlushInv ==
    /\ RowFeesMade
    /\ (job = "flush") => /\ CacheRight(cache)
                          /\ tables \in Seq(Range(tables))
                          /\ \A c \in Range(tables) : CacheRight(c)

\* Every row read and every day written keeps the maps of the flush right.
LEMMA StepFlush ==
  ASSUME ScanTypeOK, FlushInv, [ScanNext]_scanVars
  PROVE  FlushInv'
<1>0. RowFeesMade'
  BY StepScanType DEF others, FlushInv, RowFeesMade
<1> SUFFICES ASSUME job' = "flush" PROVE FlushInv'
  BY <1>0 DEF FlushInv
<1>1. job = "flush" /\ job' = job
  BY StepScanType DEF others
<1>2. \/ FlushRow \/ FlushPersist
      \/ UNCHANGED <<tables, cache>>
  BY <1>1 DEF ScanNext, FlushRow, FlushPersist, CountRow, ExchangeRow, ExchangePersist, DiffRow,
       TronLinkRow, NextDay, RegistryChanges, scanVars
<1>3. CASE UNCHANGED <<tables, cache>>
  BY <1>0, <1>1, <1>3 DEF FlushInv
<1>4. CASE FlushPersist
  <2>1. tables' = Append(tables, cache) /\ cache' = NewCache
    BY <1>4 DEF FlushPersist
  <2>2. tables' \in Seq(Range(tables')) /\ Range(tables') = Range(tables) \cup {cache}
    BY <1>1, <2>1, LongerByOne DEF FlushInv
  <2> QED
    BY <1>0, <1>1, <2>1, <2>2, NewCacheIsRight DEF FlushInv
<1>5. CASE FlushRow
  <2>1. /\ tables' = tables /\ AtRow
        /\ cache' = IF Row.type # TransferType THEN Accumulate(cache, Row) ELSE cache
    BY <1>5 DEF FlushRow
  <2>2. Row \in Transactions
    BY <2>1, RowIsTransaction
  <2>3. (Row.type # TransferType) => FeeIsMade(Row)
    <3>1. day \in DOMAIN days
      BY <2>1 DEF AtRow, ScanTypeOK
    <3>2. next \in DOMAIN days[day]
      <4>1. days[day] \in Seq(Transactions)
        BY <3>1 DEF ScanTypeOK
      <4> QED
        BY <2>1, <4>1 DEF AtRow, ScanTypeOK
    <3> QED
      BY <3>1, <3>2 DEF Row, FlushInv, RowFeesMade
  <2>4. CacheRight(cache')
    <3> DEFINE tx == Row
    <3>1. CASE Row.type # TransferType
      <4>1. CacheRight(Accumulate(cache, Row))
        BY <1>1, <2>2, <2>3, <3>1, CacheStaysRight DEF FlushInv
      <4> QED
        BY <2>1, <3>1, <4>1
    <3>2. CASE ~(Row.type # TransferType)
      BY <1>1, <2>1, <3>2 DEF FlushInv
    <3> QED
      BY <3>1, <3>2
  <2> QED
    BY <1>0, <1>1, <2>1, <2>4 DEF FlushInv
<1> QED
  BY <1>2, <1>3, <1>4, <1>5

\* The flush begins with empty maps, of transactions whose fees are made as they are.
LEMMA InitFlush == ScanInit => FlushInv
<1> SUFFICES ASSUME ScanInit PROVE FlushInv
  OBVIOUS
<1>1. cache = NewCache /\ tables = <<>>
  BY DEF ScanInit
<1>2. Range(tables) = {} /\ tables \in Seq({})
  BY <1>1 DEF Range
<1>3. \E s \in Scans : days = s.days
  BY Zenon DEF ScanInit
<1>4. RowFeesMade
  BY <1>3, FeeAssumption, Zenon DEF RowFeesMade
<1> QED
  BY <1>1, <1>2, <1>4, NewCacheIsRight DEF FlushInv

\* Whatever the transactions are, in the maps of the flush what was sent of a token is what
\* was received of it, and the categories of fees add up to what was paid.
THEOREM NothingIsLost == ScanSpec => []NothingLost
<1>1. FlushInv => NothingLost
  <2> SUFFICES ASSUME FlushInv, job = "flush", NEW c \in {cache} \cup Range(tables)
               PROVE  TransfersBalance(c) /\ FeesAddUp(c)
    BY DEF NothingLost
  <2>1. CacheRight(c)
    BY DEF FlushInv
  <2>2. FeesAddUp(c)
    BY <2>1 DEF FeesAddUp, CacheRight, Paid
  <2>3. TransfersBalance(c)
    <3> SUFFICES ASSUME NEW name, NEW what \in Figures
                 PROVE  SideSum(c.userToken, name, "from", what) = SideSum(c.userToken, name, "to", what)
      BY DEF TransfersBalance, SideSum, KeysOf
    <3> QED
      BY <2>1 DEF CacheRight, Balanced
  <2> QED
    BY <2>2, <2>3
<1>2. ScanInit => ScanTypeOK /\ FlushInv
  BY InitScanType, InitFlush
<1>3. (ScanTypeOK /\ FlushInv) /\ [ScanNext]_scanVars => (ScanTypeOK /\ FlushInv)'
  BY StepScanType, StepFlush
<1> QED
  BY <1>1, <1>2, <1>3, PTL DEF ScanSpec

-----------------------------------------------------------------------------
(* Folds over sequences.  One lemma serves all of them: the steps of every *)
(* fold of the queries and reports are the cases of one operator.          *)

UsersMerged(f, g) == MergedInto(f, g, UserMerge)
TokensMerged(f, g) == MergedInto(f, g, TokenMerge)
UserTokensMerged(f, g) == MergedInto(f, g, UserTokenMerge)
ExchangesMerged(f, g) == MergedInto(f, g, ExchangeMerge)
NamesMerged(f, g) == MergedInto(f, g, MergeByName)
NowWith(map, tx) == IF (tx.type = TransferType) \/ (OldClass(tx)[1] = "none") THEN map
                    ELSE Updated(map, OldClass(tx)[2], NoneYet,
                                 LAMBDA s : ShownAdd(s, OldClass(tx)[1], tx))

\* What a fold of this kind makes of what it has and the next element; `of' is what the
\* step of the fold depends on besides.
StepOf(kind, of, acc, x) ==
    CASE kind = "users"      -> UsersMerged(acc, x)
      [] kind = "tokens"     -> TokensMerged(acc, x)
      [] kind = "userTokens" -> UserTokensMerged(acc, x)
      [] kind = "exchanges"  -> ExchangesMerged(acc, x)
      [] kind = "names"      -> NamesMerged(acc, x)
      [] kind = "user"       -> UserMerge(acc, IF of \in DOMAIN x.from THEN x.from[of]
                                               ELSE NewUserStatistic)
      [] kind = "token"      -> TokenMerge(acc, IF of \in DOMAIN x.token THEN x.token[of]
                                                ELSE NewTokenStatistic)
      [] kind = "lengths"    -> IF x \in of.marks THEN AddLength(acc, x, GetLength(of, x)) ELSE acc
      [] kind = "legacy"     -> IF of[x] > 0 THEN AddLength(acc, x - 1, of[x]) ELSE acc
      [] kind = "now"        -> NowWith(acc, x)
      [] kind = "rows"       -> IF x.type = TransferType THEN acc ELSE Accumulate(acc, x)

\* What has become of base after every number of elements.
Chain(kind, of, base, seq, h) ==
    /\ h[0] = base
    /\ \A k \in DOMAIN seq : h[k] = StepOf(kind, of, h[k - 1], seq[k])

\* The function over sets of indexes that defines the fold.
FoldOf(kind, of, base, seq, g) ==
    g = [s \in SUBSET DOMAIN seq |->
            IF s = {} THEN base
            ELSE StepOf(kind, of, g[s \ {Max(s)}], seq[Max(s)])]

\* The greatest of the first numbers.
LEMMA MaxIsLast ==
  ASSUME NEW k \in Nat, NEW s \in SUBSET (1..(k + 1)), k + 1 \in s
  PROVE  Max(s) = k + 1
<1>1. \A y \in s : k + 1 >= y
  OBVIOUS
<1>2. \A x \in s : (\A y \in s : x >= y) => x = k + 1
  OBVIOUS
<1> QED
  BY <1>1, <1>2 DEF Max

\* There is such a function.
LEMMA FoldExists ==
  ASSUME NEW kind, NEW of, NEW base, NEW seq, NEW n \in Nat, DOMAIN seq = 1..n
  PROVE  \E g : FoldOf(kind, of, base, seq, g)
<1> DEFINE Eq(g, k) == g = [s \in SUBSET (1..k) |->
                              IF s = {} THEN base
                              ELSE StepOf(kind, of, g[s \ {Max(s)}], seq[Max(s)])]
           P == {k \in Nat : \E g : Eq(g, k)}
<1>1. 0 \in P
  <2> DEFINE g == [s \in SUBSET (1..0) |-> base]
  <2>1. \A s \in SUBSET (1..0) : s = {}
    OBVIOUS
  <2>2. Eq(g, 0)
    BY <2>1
  <2> QED
    BY <2>2
<1>2. ASSUME NEW k \in Nat, k \in P
      PROVE  k + 1 \in P
  <2>1. PICK g : Eq(g, k)
    BY <1>2
  <2> DEFINE Next1(s) == StepOf(kind, of, g[s \ {k + 1}], seq[k + 1])
             f == [s \in SUBSET (1..(k + 1)) |-> IF s \in SUBSET (1..k) THEN g[s] ELSE Next1(s)]
  <2>2. ASSUME NEW s \in SUBSET (1..(k + 1))
        PROVE  f[s] = IF s = {} THEN base
                      ELSE StepOf(kind, of, f[s \ {Max(s)}], seq[Max(s)])
    <3>1. CASE s \in SUBSET (1..k)
      <4>1. f[s] = g[s]
        BY <3>1
      <4>2. CASE s = {}
        BY <2>1, <3>1, <4>1, <4>2
      <4>3. CASE s # {}
        <5> DEFINE t == s \ {Max(s)}
        <5>1. g[s] = StepOf(kind, of, g[t], seq[Max(s)])
          BY <2>1, <3>1, <4>3
        <5>2. t \in SUBSET (1..k) /\ t \in SUBSET (1..(k + 1))
          BY <3>1
        <5>3. f[t] = g[t]
          BY <5>2
        <5> HIDE DEF f
        <5> QED
          BY <4>1, <4>3, <5>1, <5>3
      <4> QED
        BY <4>2, <4>3
    <3>2. CASE ~(s \in SUBSET (1..k))
      <4>1. k + 1 \in s
        BY <3>2
      <4>2. Max(s) = k + 1
        BY <4>1, MaxIsLast
      <4> DEFINE t == s \ {k + 1}
      <4>3. t \in SUBSET (1..k) /\ t \in SUBSET (1..(k + 1))
        OBVIOUS
      <4>4. f[t] = g[t]
        BY <4>3
      <4>5. f[s] = Next1(s)
        BY <3>2
      <4> HIDE DEF f
      <4> QED
        BY <4>1, <4>2, <4>4, <4>5
    <3> QED
      BY <3>1, <3>2
  <2>3. f = [s \in SUBSET (1..(k + 1)) |-> f[s]]
    OBVIOUS
  <2> HIDE DEF f
  <2>4. Eq(f, k + 1)
    <3> DEFINE Rhs(s) == IF s = {} THEN base
                         ELSE StepOf(kind, of, f[s \ {Max(s)}], seq[Max(s)])
    <3>1. \A s \in SUBSET (1..(k + 1)) : f[s] = Rhs(s)
      BY <2>2
    <3>2. Eq(f, k + 1) <=> f = [s \in SUBSET (1..(k + 1)) |-> Rhs(s)]
      OBVIOUS
    <3> HIDE DEF Rhs, Eq
    <3>3. [s \in SUBSET (1..(k + 1)) |-> f[s]] = [s \in SUBSET (1..(k + 1)) |-> Rhs(s)]
      BY <3>1
    <3> QED
      BY <2>3, <3>2, <3>3
  <2> HIDE DEF Eq
  <2> QED
    BY <2>4
<1>3. n \in P
  <2> HIDE DEF P
  <2> QED
    BY <1>1, <1>2, AllNumbers
<1> QED
  BY <1>3 DEF FoldOf

\* Such a function is a chain.
LEMMA FoldIsChain ==
  ASSUME NEW kind, NEW of, NEW base, NEW seq, NEW n \in Nat, DOMAIN seq = 1..n,
         NEW g, FoldOf(kind, of, base, seq, g)
  PROVE  \E h : Chain(kind, of, base, seq, h) /\ h[n] = g[DOMAIN seq]
<1> DEFINE h == [k \in 0..n |-> g[1..k]]
<1>1. h[0] = base
  <2>1. 1..0 = {} /\ 0 \in 0..n
    OBVIOUS
  <2>2. g[{}] = base
    BY DEF FoldOf
  <2> QED
    BY <2>1, <2>2
<1>2. ASSUME NEW k \in 1..n
      PROVE  h[k] = StepOf(kind, of, h[k - 1], seq[k])
  <2>1. k - 1 \in Nat /\ 1..k \in SUBSET (1..n) /\ 1..k # {} /\ k - 1 \in 0..n /\ k \in 0..n
    OBVIOUS
  <2>2. Max(1..k) = k
    <3>1. (k - 1) + 1 = k
      OBVIOUS
    <3>2. k \in 1..k
      OBVIOUS
    <3> QED
      BY <2>1, <3>1, <3>2, MaxIsLast
  <2>3. (1..k) \ {k} = 1..(k - 1)
    OBVIOUS
  <2>4. g[1..k] = StepOf(kind, of, g[(1..k) \ {Max(1..k)}], seq[Max(1..k)])
    BY <2>1 DEF FoldOf
  <2>5. h[k] = g[1..k] /\ h[k - 1] = g[1..(k - 1)]
    BY <2>1
  <2> HIDE DEF h
  <2> QED
    BY <2>2, <2>3, <2>4, <2>5
<1>3. h[n] = g[1..n]
  OBVIOUS
<1> HIDE DEF h
<1> QED
  BY <1>1, <1>2, <1>3 DEF Chain

\* Maps of several days, merged by the rules for users.
LEMMA UsersOver ==
  ASSUME NEW maps, NEW n \in Nat, DOMAIN maps = 1..n
  PROVE  \E h : Chain("users", {}, Empty, maps, h) /\ h[n] = MergedOver(maps, UserMerge)
<1> DEFINE F(g) == [s \in SUBSET DOMAIN maps |->
                      IF s = {} THEN Empty
                      ELSE UsersMerged(g[s \ {Max(s)}], maps[Max(s)])]
           iter == CHOOSE g : g = F(g)
<1>1. MergedOver(maps, UserMerge) = iter[DOMAIN maps]
  BY DEF MergedOver, FoldLeft, MapThenFoldSet, UsersMerged
<1>2. \A g : FoldOf("users", {}, Empty, maps, g) <=> g = F(g)
  BY DEF FoldOf, StepOf
<1> HIDE DEF F
<1>3. iter = F(iter)
  BY <1>2, FoldExists
<1> HIDE DEF iter
<1> QED
  BY <1>1, <1>2, <1>3, FoldIsChain

\* By the rules for tokens.
LEMMA TokensOver ==
  ASSUME NEW maps, NEW n \in Nat, DOMAIN maps = 1..n
  PROVE  \E h : Chain("tokens", {}, Empty, maps, h) /\ h[n] = MergedOver(maps, TokenMerge)
<1> DEFINE F(g) == [s \in SUBSET DOMAIN maps |->
                      IF s = {} THEN Empty
                      ELSE TokensMerged(g[s \ {Max(s)}], maps[Max(s)])]
           iter == CHOOSE g : g = F(g)
<1>1. MergedOver(maps, TokenMerge) = iter[DOMAIN maps]
  BY DEF MergedOver, FoldLeft, MapThenFoldSet, TokensMerged
<1>2. \A g : FoldOf("tokens", {}, Empty, maps, g) <=> g = F(g)
  BY DEF FoldOf, StepOf
<1> HIDE DEF F
<1>3. iter = F(iter)
  BY <1>2, FoldExists
<1> HIDE DEF iter
<1> QED
  BY <1>1, <1>2, <1>3, FoldIsChain

\* By the rules for users and tokens.
LEMMA UserTokensOver ==
  ASSUME NEW maps, NEW n \in Nat, DOMAIN maps = 1..n
  PROVE  \E h : Chain("userTokens", {}, Empty, maps, h) /\ h[n] = MergedOver(maps, UserTokenMerge)
<1> DEFINE F(g) == [s \in SUBSET DOMAIN maps |->
                      IF s = {} THEN Empty
                      ELSE UserTokensMerged(g[s \ {Max(s)}], maps[Max(s)])]
           iter == CHOOSE g : g = F(g)
<1>1. MergedOver(maps, UserTokenMerge) = iter[DOMAIN maps]
  BY DEF MergedOver, FoldLeft, MapThenFoldSet, UserTokensMerged
<1>2. \A g : FoldOf("userTokens", {}, Empty, maps, g) <=> g = F(g)
  BY DEF FoldOf, StepOf
<1> HIDE DEF F
<1>3. iter = F(iter)
  BY <1>2, FoldExists
<1> HIDE DEF iter
<1> QED
  BY <1>1, <1>2, <1>3, FoldIsChain

\* By the rules for exchanges.
LEMMA ExchangesOver ==
  ASSUME NEW maps, NEW n \in Nat, DOMAIN maps = 1..n
  PROVE  \E h : Chain("exchanges", {}, Empty, maps, h) /\ h[n] = MergedOver(maps, ExchangeMerge)
<1> DEFINE F(g) == [s \in SUBSET DOMAIN maps |->
                      IF s = {} THEN Empty
                      ELSE ExchangesMerged(g[s \ {Max(s)}], maps[Max(s)])]
           iter == CHOOSE g : g = F(g)
<1>1. MergedOver(maps, ExchangeMerge) = iter[DOMAIN maps]
  BY DEF MergedOver, FoldLeft, MapThenFoldSet, ExchangesMerged
<1>2. \A g : FoldOf("exchanges", {}, Empty, maps, g) <=> g = F(g)
  BY DEF FoldOf, StepOf
<1> HIDE DEF F
<1>3. iter = F(iter)
  BY <1>2, FoldExists
<1> HIDE DEF iter
<1> QED
  BY <1>1, <1>2, <1>3, FoldIsChain

\* By the rules for exchanges, name by name.
LEMMA NamesOver ==
  ASSUME NEW maps, NEW n \in Nat, DOMAIN maps = 1..n
  PROVE  \E h : Chain("names", {}, Empty, maps, h) /\ h[n] = MergedOver(maps, MergeByName)
<1> DEFINE F(g) == [s \in SUBSET DOMAIN maps |->
                      IF s = {} THEN Empty
                      ELSE NamesMerged(g[s \ {Max(s)}], maps[Max(s)])]
           iter == CHOOSE g : g = F(g)
<1>1. MergedOver(maps, MergeByName) = iter[DOMAIN maps]
  BY DEF MergedOver, FoldLeft, MapThenFoldSet, NamesMerged
<1>2. \A g : FoldOf("names", {}, Empty, maps, g) <=> g = F(g)
  BY DEF FoldOf, StepOf
<1> HIDE DEF F
<1>3. iter = F(iter)
  BY <1>2, FoldExists
<1> HIDE DEF iter
<1> QED
  BY <1>1, <1>2, <1>3, FoldIsChain

\* One address over the window.
LEMMA UserOver ==
  ASSUME NEW of, NEW n \in Nat, DOMAIN tables = 1..n
  PROVE  \E h : Chain("user", of, NewUserStatistic, tables, h) /\ h[n] = UserOverWindow(of)
<1> DEFINE F(g) == [s \in SUBSET DOMAIN tables |->
                      IF s = {} THEN NewUserStatistic
                      ELSE UserMerge(g[s \ {Max(s)}], IF of \in DOMAIN tables[Max(s)].from
                                            THEN tables[Max(s)].from[of]
                                            ELSE NewUserStatistic)]
           iter == CHOOSE g : g = F(g)
<1>1. UserOverWindow(of) = iter[DOMAIN tables]
  BY DEF UserOverWindow, FoldLeft, MapThenFoldSet
<1>2. \A g : FoldOf("user", of, NewUserStatistic, tables, g) <=> g = F(g)
  BY DEF FoldOf, StepOf
<1> HIDE DEF F
<1>3. iter = F(iter)
  BY <1>2, FoldExists
<1> HIDE DEF iter
<1> QED
  BY <1>1, <1>2, <1>3, FoldIsChain

\* One token over the window.
LEMMA TokenOver ==
  ASSUME NEW of, NEW n \in Nat, DOMAIN tables = 1..n
  PROVE  \E h : Chain("token", of, NewTokenStatistic, tables, h) /\ h[n] = TokenOverWindow(of)
<1> DEFINE F(g) == [s \in SUBSET DOMAIN tables |->
                      IF s = {} THEN NewTokenStatistic
                      ELSE TokenMerge(g[s \ {Max(s)}], IF of \in DOMAIN tables[Max(s)].token
                                             THEN tables[Max(s)].token[of]
                                             ELSE NewTokenStatistic)]
           iter == CHOOSE g : g = F(g)
<1>1. TokenOverWindow(of) = iter[DOMAIN tables]
  BY DEF TokenOverWindow, FoldLeft, MapThenFoldSet
<1>2. \A g : FoldOf("token", of, NewTokenStatistic, tables, g) <=> g = F(g)
  BY DEF FoldOf, StepOf
<1> HIDE DEF F
<1>3. iter = F(iter)
  BY <1>2, FoldExists
<1> HIDE DEF iter
<1> QED
  BY <1>1, <1>2, <1>3, FoldIsChain

NumbersTo(n) == [i \in 1..n |-> i]

\* The lengths of one histogram, added to another.
LEMMA LengthsOver ==
  ASSUME NEW ts, NEW of
  PROVE  \E h : Chain("lengths", of, ts, NumbersTo(MaxLength), h) /\ h[MaxLength] = MergeTransferStats(ts, of)
<1> DEFINE F(g) == [s \in SUBSET DOMAIN NumbersTo(MaxLength) |->
                      IF s = {} THEN ts
                      ELSE IF NumbersTo(MaxLength)[Max(s)] \in of.marks
                           THEN AddLength(g[s \ {Max(s)}], NumbersTo(MaxLength)[Max(s)],
                                          GetLength(of, NumbersTo(MaxLength)[Max(s)]))
                           ELSE g[s \ {Max(s)}]]
           iter == CHOOSE g : g = F(g)
<1>0. DOMAIN NumbersTo(MaxLength) = 1..MaxLength /\ MaxLength \in Nat
  BY DEF NumbersTo, MaxLength
<1>1. MergeTransferStats(ts, of) = iter[DOMAIN NumbersTo(MaxLength)]
  BY DEF MergeTransferStats, FoldLeft, MapThenFoldSet, NumbersTo
<1>2. \A g : FoldOf("lengths", of, ts, NumbersTo(MaxLength), g) <=> g = F(g)
  BY DEF FoldOf, StepOf
<1> HIDE DEF F
<1>3. iter = F(iter)
  BY <1>0, <1>2, FoldExists
<1> HIDE DEF iter
<1> QED
  BY <1>0, <1>1, <1>2, <1>3, FoldIsChain

\* The counts of a histogram in full.
LEMMA LegacyOver ==
  ASSUME NEW of, NEW n \in Nat, Len(of) = n
  PROVE  \E h : Chain("legacy", of, NewTransferStats, NumbersTo(n), h) /\ h[n] = ScanLegacy(of)
<1> DEFINE F(g) == [s \in SUBSET DOMAIN NumbersTo(n) |->
                      IF s = {} THEN NewTransferStats
                      ELSE IF of[NumbersTo(n)[Max(s)]] > 0
                           THEN AddLength(g[s \ {Max(s)}], NumbersTo(n)[Max(s)] - 1,
                                          of[NumbersTo(n)[Max(s)]])
                           ELSE g[s \ {Max(s)}]]
           iter == CHOOSE g : g = F(g)
<1>0. DOMAIN NumbersTo(n) = 1..n /\ n \in Nat
  BY DEF NumbersTo, MaxLength
<1>1. ScanLegacy(of) = iter[DOMAIN NumbersTo(n)]
  BY DEF ScanLegacy, FoldLeft, MapThenFoldSet, NumbersTo
<1>2. \A g : FoldOf("legacy", of, NewTransferStats, NumbersTo(n), g) <=> g = F(g)
  BY DEF FoldOf, StepOf
<1> HIDE DEF F
<1>3. iter = F(iter)
  BY <1>0, <1>2, FoldExists
<1> HIDE DEF iter
<1> QED
  BY <1>0, <1>1, <1>2, <1>3, FoldIsChain

\* All rows, as if they were of one day.
LEMMA RowsOver ==
  ASSUME NEW n \in Nat, DOMAIN FlattenSeq(days) = 1..n
  PROVE  \E h : Chain("rows", {}, NewCache, FlattenSeq(days), h) /\ h[n] = OneDay
<1> DEFINE F(g) == [s \in SUBSET DOMAIN FlattenSeq(days) |->
                      IF s = {} THEN NewCache
                      ELSE IF FlattenSeq(days)[Max(s)].type = TransferType THEN g[s \ {Max(s)}]
                           ELSE Accumulate(g[s \ {Max(s)}], FlattenSeq(days)[Max(s)])]
           iter == CHOOSE g : g = F(g)
<1>1. OneDay = iter[DOMAIN FlattenSeq(days)]
  BY DEF OneDay, FoldLeft, MapThenFoldSet
<1>2. \A g : FoldOf("rows", {}, NewCache, FlattenSeq(days), g) <=> g = F(g)
  BY DEF FoldOf, StepOf
<1> HIDE DEF F
<1>3. iter = F(iter)
  BY <1>2, FoldExists
<1> HIDE DEF iter
<1> QED
  BY <1>1, <1>2, <1>3, FoldIsChain

-----------------------------------------------------------------------------
(* Two sets of rules.  The scan of DoExchangeStatisticsDiff has read some  *)
(* rows, in the order of the days; what both maps hold in all is what      *)
(* their rules count of these rows.                                        *)

\* A scan of one day, with the old rules.
LEMMA NowOver ==
  ASSUME NEW rows, NEW n \in Nat, DOMAIN rows = 1..n
  PROVE  \E h : Chain("now", {}, Empty, rows, h) /\ h[n] = ExchangesNow(rows)
<1> DEFINE F(g) == [s \in SUBSET DOMAIN rows |->
                      IF s = {} THEN Empty
                      ELSE NowWith(g[s \ {Max(s)}], rows[Max(s)])]
           iter == CHOOSE g : g = F(g)
<1>1. ExchangesNow(rows) = iter[DOMAIN rows]
  BY DEF ExchangesNow, FoldLeft, MapThenFoldSet, NowWith
<1>2. \A g : FoldOf("now", {}, Empty, rows, g) <=> g = F(g)
  BY DEF FoldOf, StepOf
<1> HIDE DEF F
<1>3. iter = F(iter)
  BY <1>2, FoldExists
<1> HIDE DEF iter
<1> QED
  BY <1>1, <1>2, <1>3, FoldIsChain

ClassOf(rules, tx) == IF rules = "old" THEN OldClass(tx) ELSE Class(tx)

\* The rows that the rules count.
CountedBy(rules, seq) ==
    {i \in DOMAIN seq : seq[i].type # TransferType /\ ClassOf(rules, seq[i])[1] # "none"}
FeesOfRows(seq) == [i \in DOMAIN seq |-> seq[i].cost["Fee"]]

TxsOf(s) == s.activationTxs + (s.charge.txs + s.collect.txs + s.withdraw.txs)
AllTxs(map) == [e \in DOMAIN map |-> TxsOf(map[e])]
AllFees(map) == [e \in DOMAIN map |-> map[e].totalFee]

StatsRight(map) == IsFiniteSet(DOMAIN map) /\ \A e \in DOMAIN map : StatRight(map[e])

\* The map holds the number of these rows and their fees.
HoldsInAll(map, seq, rows) ==
    /\ StatsRight(map)
    /\ SumOver(AllTxs(map), DOMAIN map) = Cardinality(rows)
    /\ SumOver(AllFees(map), DOMAIN map) = SumOver(FeesOfRows(seq), rows)

\* A transfer of any kind is one transaction more.
LEMMA TxsRaised ==
  ASSUME NEW s, StatRight(s), NEW tx \in Transactions, NEW kind \in Kinds
  PROVE  TxsOf(s) \in Nat /\ TxsOf(Classified(s, kind, tx)) = TxsOf(s) + 1
<1> DEFINE t == Classified(s, kind, tx)
<1>1. StatRight(t) /\ \A flow \in FlowNames, what \in Figures :
                         Figure(t[flow], what) = Figure(s[flow], what) + Raise(kind, tx, flow, what)
  BY StatRaised
<1>2. \A flow \in FlowNames : t[flow].txs = s[flow].txs + (IF kind = flow THEN 1 ELSE 0)
  <2>1. "txs" \in Figures
    BY DEF Figures
  <2>2. ASSUME NEW flow \in FlowNames
        PROVE  Raise(kind, tx, flow, "txs") = (IF kind = flow THEN 1 ELSE 0)
    <3>1. CASE kind = flow
      BY <3>1, Zenon DEF Raise
    <3>2. CASE kind # flow
      BY <3>2, Zenon DEF Raise
    <3> QED
      BY <3>1, <3>2
  <2>3. \A f : Figure(f, "txs") = f.txs
    BY DEF Figure, Costs
  <2> HIDE DEF t
  <2> QED
    BY <1>1, <2>1, <2>2, <2>3
<1>3. t.activationTxs = s.activationTxs + (IF kind = "activation" THEN 1 ELSE 0)
  BY DEF Classified, AddCharge, AddCollect, AddWithdraw, AddActivation, Kinds, FlowNames, StatRight,
         ExchangeStat
<1>4. /\ s.charge.txs \in Nat /\ s.collect.txs \in Nat /\ s.withdraw.txs \in Nat
      /\ s.activationTxs \in Nat
  BY DEF StatRight, ExchangeStat, Flow
<1> HIDE DEF t
<1>5. /\ t.charge.txs = s.charge.txs + (IF kind = "charge" THEN 1 ELSE 0)
      /\ t.collect.txs = s.collect.txs + (IF kind = "collect" THEN 1 ELSE 0)
      /\ t.withdraw.txs = s.withdraw.txs + (IF kind = "withdraw" THEN 1 ELSE 0)
  BY <1>2 DEF FlowNames
<1> QED
  BY <1>3, <1>4, <1>5 DEF TxsOf, t, Kinds, FlowNames

\* g is f but that it has d more for x.
RaisedAt(f, g, S, x, d) ==
    /\ Amounts(f, S) /\ d \in Nat
    /\ \A y \in S : y # x => g[y] = f[y]
    /\ g[x] = (IF x \in S THEN f[x] ELSE 0) + d

\* SumOfChanged, with its hypotheses under one name.
LEMMA SumRaised ==
  \A f, g, S, x, d : RaisedAt(f, g, S, x, d) => SumOver(g, S \cup {x}) = SumOver(f, S) + d
<1> SUFFICES ASSUME NEW f, NEW g, NEW S, NEW x, NEW d, RaisedAt(f, g, S, x, d)
             PROVE  SumOver(g, S \cup {x}) = SumOver(f, S) + d
  OBVIOUS
<1>1. d \in Nat /\ Amounts(f, S)
  BY DEF RaisedAt
<1>2. \A y \in S : y # x => g[y] = f[y]
  BY DEF RaisedAt
<1>3. g[x] = (IF x \in S THEN f[x] ELSE 0) + d
  BY DEF RaisedAt
<1> QED
  BY <1>1, <1>2, <1>3, SumOfChanged

\* A map with one transfer more.
LEMMA MapRaised ==
  ASSUME NEW map, StatsRight(map), NEW tx \in Transactions, NEW kind \in Kinds, NEW e
  PROVE  LET after == Updated(map, e, NewExchangeStatistic, LAMBDA s : Classified(s, kind, tx))
         IN  /\ StatsRight(after)
             /\ SumOver(AllTxs(after), DOMAIN after) = SumOver(AllTxs(map), DOMAIN map) + 1
             /\ SumOver(AllFees(after), DOMAIN after)
                    = SumOver(AllFees(map), DOMAIN map) + tx.cost["Fee"]
<1> DEFINE after == Updated(map, e, NewExchangeStatistic, LAMBDA s : Classified(s, kind, tx))
           one == IF e \in DOMAIN map THEN map[e] ELSE NewExchangeStatistic
           S == DOMAIN map
<1>1. /\ DOMAIN after = S \cup {e} /\ after[e] = Classified(one, kind, tx)
      /\ \A x \in S : x # e => after[x] = map[x]
  BY DEF Updated
<1>2. StatRight(one) /\ IsFiniteSet(S) /\ \A x \in S : StatRight(map[x])
  BY NewIsRight DEF StatsRight
<1>3. /\ StatRight(after[e]) /\ TxsOf(after[e]) = TxsOf(one) + 1
      /\ after[e].totalFee = one.totalFee + tx.cost["Fee"]
  BY <1>1, <1>2, TxsRaised, StatRaised
<1>4. /\ (e \notin S) => TxsOf(one) = 0 /\ one.totalFee = 0
      /\ TxsOf(one) \in Nat /\ one.totalFee \in Nat /\ tx.cost["Fee"] \in Nat
  <2>1. TxsOf(NewExchangeStatistic) = 0 /\ NewExchangeStatistic.totalFee = 0
    BY DEF TxsOf, NewExchangeStatistic, NewFlow
  <2>2. TxsOf(one) \in Nat
    BY <1>2, TxsRaised DEF Kinds
  <2>3. one.totalFee \in Nat
    BY <1>2 DEF StatRight, ExchangeStat
  <2>4. tx.cost["Fee"] \in Nat
    BY DEF Transactions, Costs
  <2> QED
    BY <2>1, <2>2, <2>3, <2>4
<1>5. \A x \in S : map[x].totalFee \in Nat /\ TxsOf(map[x]) \in Nat
  BY <1>2, TxsRaised DEF StatRight, ExchangeStat, Kinds
<1>9. (e \in S) => one = map[e]
  OBVIOUS
<1> HIDE DEF after, one, S
<1>6. StatsRight(after)
  <2>1. IsFiniteSet(DOMAIN after)
    BY <1>1, <1>2, FS_AddElement
  <2> QED
    BY <1>1, <1>2, <1>3, <2>1 DEF StatsRight
<1>7. SumOver(AllTxs(after), S \cup {e}) = SumOver(AllTxs(map), S) + 1
  <2> DEFINE f == AllTxs(map)
             g == AllTxs(after)
  <2>1. \A x \in S : f[x] = TxsOf(map[x])
    BY DEF AllTxs, S
  <2>2. \A x \in S \cup {e} : g[x] = TxsOf(after[x])
    BY <1>1 DEF AllTxs
  <2> HIDE DEF f, g
  <2>3. Amounts(f, S)
    BY <1>2, <1>5, <2>1 DEF Amounts
  <2>4. \A x \in S : x # e => g[x] = f[x]
    BY <1>1, <2>1, <2>2
  <2>5. g[e] = (IF e \in S THEN f[e] ELSE 0) + 1
    BY <1>3, <1>4, <1>9, <2>1, <2>2
  <2>6. RaisedAt(f, g, S, e, 1)
    BY <2>3, <2>4, <2>5 DEF RaisedAt
  <2>7. SumOver(g, S \cup {e}) = SumOver(f, S) + 1
    BY <2>6, SumRaised
  <2> QED
    BY <2>7 DEF f, g
<1>8. SumOver(AllFees(after), S \cup {e}) = SumOver(AllFees(map), S) + tx.cost["Fee"]
  <2> DEFINE f == AllFees(map)
             g == AllFees(after)
  <2>1. \A x \in S : f[x] = map[x].totalFee
    BY DEF AllFees, S
  <2>2. \A x \in S \cup {e} : g[x] = after[x].totalFee
    BY <1>1 DEF AllFees
  <2> HIDE DEF f, g
  <2>3. Amounts(f, S)
    BY <1>2, <1>5, <2>1 DEF Amounts
  <2>4. \A x \in S : x # e => g[x] = f[x]
    BY <1>1, <2>1, <2>2
  <2>5. PICK d \in Nat : d = tx.cost["Fee"]
    BY <1>4
  <2>6. g[e] = (IF e \in S THEN f[e] ELSE 0) + d
    BY <1>3, <1>4, <1>9, <2>1, <2>2, <2>5
  <2>7. RaisedAt(f, g, S, e, d)
    BY <2>3, <2>4, <2>6 DEF RaisedAt
  <2>8. SumOver(g, S \cup {e}) = SumOver(f, S) + d
    BY <2>7, SumRaised
  <2> QED
    BY <2>5, <2>8 DEF f, g
<1> QED
  BY <1>1, <1>6, <1>7, <1>8 DEF after, S

\* The rows that are counted, with one row more.
LEMMA CountedMore ==
  ASSUME NEW seq \in Seq(Transactions), NEW tx \in Transactions, NEW rules
  PROVE  LET n == Len(seq) + 1
             kept == tx.type # TransferType /\ ClassOf(rules, tx)[1] # "none"
         IN  /\ CountedBy(rules, Append(seq, tx))
                    = IF kept THEN CountedBy(rules, seq) \cup {n} ELSE CountedBy(rules, seq)
             /\ IsFiniteSet(CountedBy(rules, seq)) /\ n \notin CountedBy(rules, seq)
             /\ FeesOfRows(Append(seq, tx))[n] = tx.cost["Fee"]
             /\ Amounts(FeesOfRows(seq), CountedBy(rules, seq))
             /\ \A i \in CountedBy(rules, seq) : FeesOfRows(Append(seq, tx))[i] = FeesOfRows(seq)[i]
<1> DEFINE n == Len(seq) + 1
           more == Append(seq, tx)
<1>1. /\ DOMAIN seq = 1..Len(seq) /\ Len(seq) \in Nat
      /\ DOMAIN more = 1..n /\ more[n] = tx /\ \A i \in 1..Len(seq) : more[i] = seq[i]
  OBVIOUS
<1>2. 1..n = (1..Len(seq)) \cup {n} /\ n \notin 1..Len(seq) /\ n \in 1..n
  BY <1>1
<1>3. IsFiniteSet(DOMAIN seq)
  BY <1>1, FS_Interval
<1>4. \A i \in DOMAIN seq : FeesOfRows(seq)[i] = seq[i].cost["Fee"] /\ seq[i].cost["Fee"] \in Nat
  <2>1. \A t \in Transactions : t.cost["Fee"] \in Nat
    BY DEF Transactions, Costs
  <2>2. \A i \in DOMAIN seq : seq[i] \in Transactions
    OBVIOUS
  <2> QED
    BY <2>1, <2>2 DEF FeesOfRows
<1>5. CountedBy(rules, seq) \subseteq DOMAIN seq
  BY DEF CountedBy
<1> HIDE DEF n, more
<1>6. \A i \in DOMAIN more : FeesOfRows(more)[i] = more[i].cost["Fee"]
  BY DEF FeesOfRows
<1>7. IsFiniteSet(CountedBy(rules, seq))
  BY <1>3, <1>5, FS_Subset
<1>8. CountedBy(rules, more) = IF tx.type # TransferType /\ ClassOf(rules, tx)[1] # "none"
                               THEN CountedBy(rules, seq) \cup {n} ELSE CountedBy(rules, seq)
  BY <1>1, <1>2 DEF CountedBy
<1>9. \A i \in CountedBy(rules, seq) : FeesOfRows(more)[i] = FeesOfRows(seq)[i]
  BY <1>1, <1>2, <1>4, <1>5, <1>6
<1>10. Amounts(FeesOfRows(seq), CountedBy(rules, seq))
  BY <1>4, <1>5, <1>7 DEF Amounts
<1>11. n \notin CountedBy(rules, seq) /\ FeesOfRows(more)[n] = tx.cost["Fee"]
  BY <1>1, <1>2, <1>5, <1>6
<1> QED
  BY <1>7, <1>8, <1>9, <1>10, <1>11 DEF n, more

\* What has been read holds one row more.
LEMMA HoldsMore ==
  ASSUME NEW seq \in Seq(Transactions), NEW tx \in Transactions, NEW rules \in {"old", "new"},
         NEW map, HoldsInAll(map, seq, CountedBy(rules, seq))
  PROVE  HoldsInAll(IF tx.type = TransferType THEN map ELSE Counted(map, ClassOf(rules, tx), tx),
                    Append(seq, tx), CountedBy(rules, Append(seq, tx)))
<1> DEFINE n == Len(seq) + 1
           more == Append(seq, tx)
           J == CountedBy(rules, seq)
           K == CountedBy(rules, more)
           kind == ClassOf(rules, tx)[1]
           e == ClassOf(rules, tx)[2]
           kept == tx.type # TransferType /\ kind # "none"
           f == FeesOfRows(seq)
           g == FeesOfRows(more)
           after == Updated(map, e, NewExchangeStatistic, LAMBDA s : Classified(s, kind, tx))
<1>1. /\ K = (IF kept THEN J \cup {n} ELSE J) /\ IsFiniteSet(J) /\ n \notin J
      /\ g[n] = tx.cost["Fee"] /\ Amounts(f, J) /\ \A i \in J : g[i] = f[i]
  BY CountedMore
<1>2. kind # "none" => kind \in Kinds
  BY DEF ClassOf, Class, OldClass, SmallCharge, Kinds, FlowNames
<1>3. (IF tx.type = TransferType THEN map ELSE Counted(map, ClassOf(rules, tx), tx))
          = IF kept THEN after ELSE map
  BY DEF Counted
<1>4. /\ StatsRight(map) /\ SumOver(AllTxs(map), DOMAIN map) = Cardinality(J)
      /\ SumOver(AllFees(map), DOMAIN map) = SumOver(f, J)
  BY DEF HoldsInAll
<1>5. tx.cost["Fee"] \in Nat
  BY DEF Transactions, Costs
<1>6. kept => /\ StatsRight(after)
              /\ SumOver(AllTxs(after), DOMAIN after) = SumOver(AllTxs(map), DOMAIN map) + 1
              /\ SumOver(AllFees(after), DOMAIN after)
                     = SumOver(AllFees(map), DOMAIN map) + tx.cost["Fee"]
  <2> HIDE DEF kind, e
  <2> QED
    BY <1>2, <1>4, MapRaised
<1> HIDE DEF n, more, J, K, kept, f, g, after
<1>7. Amounts(g, J) /\ SumOver(g, J) = SumOver(f, J)
  BY <1>1, SumOfEqual
<1>8. SumOver(g, J \cup {n}) = SumOver(g, J) + g[n]
  BY <1>1, <1>5, <1>7, SumWith
<1>9. Cardinality(J \cup {n}) = Cardinality(J) + 1
  BY <1>1, FS_AddElement
<1>10. HoldsInAll(IF kept THEN after ELSE map, more, K)
  <2>1. CASE kept
    BY <1>1, <1>4, <1>6, <1>7, <1>8, <1>9, <2>1 DEF HoldsInAll, g
  <2>2. CASE ~kept
    BY <1>1, <1>4, <1>7, <2>2 DEF HoldsInAll, g
  <2> QED
    BY <2>1, <2>2
<1> QED
  BY <1>3, <1>10 DEF more, K

\* The chain of a scan of one day; the report now shows what the map of the old rules does.
NowChain(seq, h) == h[0] = Empty /\ \A k \in DOMAIN seq : h[k] = NowWith(h[k - 1], seq[k])
Alike(map, now) == /\ DOMAIN now = DOMAIN map
                   /\ \A e \in DOMAIN map : /\ now[e].flows = Shown(map[e])
                                            /\ now[e].totalFee = map[e].totalFee

\* One transfer more changes what is shown of one flow.
LEMMA ShownRaised ==
  ASSUME NEW s, StatRight(s), NEW tx \in Transactions, NEW kind \in FlowNames
  PROVE  Shown(Classified(s, kind, tx))
            = [Shown(s) EXCEPT ![kind] = [txs |-> @.txs + 1, fee |-> @.fee + tx.cost["Fee"]]]
<1> DEFINE t == Classified(s, kind, tx)
<1>1. /\ StatRight(t)
      /\ \A flow \in FlowNames, what \in Figures :
            Figure(t[flow], what) = Figure(s[flow], what) + Raise(kind, tx, flow, what)
  BY StatRaised DEF Kinds
<1>2. /\ "txs" \in Figures /\ "Fee" \in Figures
      /\ \A f : Figure(f, "txs") = f.txs /\ Figure(f, "Fee") = f.cost["Fee"]
  BY DEF Figures, Figure, Costs
<1>3. \A flow \in FlowNames : s[flow].txs \in Nat /\ s[flow].cost["Fee"] \in Nat
  BY DEF StatRight, ExchangeStat, Flow, FlowNames, Costs
<1>4. ASSUME NEW flow \in FlowNames
      PROVE  /\ Raise(kind, tx, flow, "txs") = (IF kind = flow THEN 1 ELSE 0)
             /\ Raise(kind, tx, flow, "Fee") = (IF kind = flow THEN tx.cost["Fee"] ELSE 0)
  <2>1. CASE kind = flow
    <3>1. Raise(kind, tx, flow, "txs") = 1
      BY <2>1, Zenon DEF Raise
    <3>2. Raise(kind, tx, flow, "Fee") = tx.cost["Fee"]
      BY <2>1 DEF Raise
    <3> QED
      BY <2>1, <3>1, <3>2
  <2>2. CASE kind # flow
    BY <2>2, Zenon DEF Raise
  <2> QED
    BY <2>1, <2>2
<1> HIDE DEF t
<1>5. \A flow \in FlowNames :
         /\ t[flow].txs = (IF kind = flow THEN s[flow].txs + 1 ELSE s[flow].txs)
         /\ t[flow].cost["Fee"] = (IF kind = flow THEN s[flow].cost["Fee"] + tx.cost["Fee"]
                                   ELSE s[flow].cost["Fee"])
  BY <1>1, <1>2, <1>3, <1>4
<1>6. Flows = FlowNames
  BY DEF Flows, FlowNames
<1>7. Shown(t) = [Shown(s) EXCEPT ![kind] = [txs |-> @.txs + 1, fee |-> @.fee + tx.cost["Fee"]]]
  BY <1>5, <1>6 DEF Shown
<1> QED
  BY <1>7 DEF t

\* Both go on alike.
LEMMA AlikeMore ==
  ASSUME NEW tx \in Transactions, NEW map, StatsRight(map), NEW now, Alike(map, now)
  PROVE  Alike(IF tx.type = TransferType THEN map ELSE Counted(map, OldClass(tx), tx),
               NowWith(now, tx))
<1> DEFINE kind == OldClass(tx)[1]
           e == OldClass(tx)[2]
           kept == tx.type # TransferType /\ kind # "none"
           after == Updated(map, e, NewExchangeStatistic, LAMBDA s : Classified(s, kind, tx))
           then == Updated(now, e, NoneYet, LAMBDA s : ShownAdd(s, kind, tx))
           one == IF e \in DOMAIN map THEN map[e] ELSE NewExchangeStatistic
           it == IF e \in DOMAIN now THEN now[e] ELSE NoneYet
<1>1. kind # "none" => kind \in FlowNames
  BY DEF OldClass, FlowNames
<1>2. /\ (IF tx.type = TransferType THEN map ELSE Counted(map, OldClass(tx), tx))
             = IF kept THEN after ELSE map
      /\ NowWith(now, tx) = IF kept THEN then ELSE now
  BY DEF Counted, NowWith
<1>3. /\ DOMAIN after = DOMAIN map \cup {e} /\ after[e] = Classified(one, kind, tx)
      /\ \A x \in DOMAIN map : x # e => after[x] = map[x]
  BY DEF Updated
<1>4. /\ DOMAIN then = DOMAIN now \cup {e} /\ then[e] = ShownAdd(it, kind, tx)
      /\ \A x \in DOMAIN now : x # e => then[x] = now[x]
  BY DEF Updated
<1>5. StatRight(one)
  BY NewIsRight DEF StatsRight
<1>6. it.flows = Shown(one) /\ it.totalFee = one.totalFee
  BY DEF Alike, NoneYet, NewExchangeStatistic
<1> HIDE DEF kind, e, after, then, one, it
<1>7. CASE kept
  <2>1. kind \in FlowNames
    BY <1>1, <1>7
  <2>2. Shown(after[e]) = [Shown(one) EXCEPT ![kind] = [txs |-> @.txs + 1, fee |-> @.fee + tx.cost["Fee"]]]
    BY <1>3, <1>5, <2>1, ShownRaised
  <2>3. after[e].totalFee = one.totalFee + tx.cost["Fee"]
    BY <1>3, <1>5, <2>1, StatRaised DEF Kinds
  <2>4. then[e].flows = Shown(after[e]) /\ then[e].totalFee = after[e].totalFee
    BY <1>4, <1>6, <2>2, <2>3 DEF ShownAdd
  <2>5. Alike(after, then)
    BY <1>3, <1>4, <2>4 DEF Alike
  <2> QED
    BY <1>2, <1>7, <2>5
<1>8. CASE ~kept
  BY <1>2, <1>8
<1> QED
  BY <1>7, <1>8

\* What the maps are to be once these rows have been read.
RulesRight(seq) ==
    /\ HoldsInAll(old, seq, CountedBy("old", seq))
    /\ HoldsInAll(new, seq, CountedBy("new", seq))
    /\ \A h : NowChain(seq, h) => Alike(old, h[Len(seq)])

\* The rows read so far, if f[d] are those of the first d days.
ReadSoFar(f) == IF day <= Len(days) THEN f[day - 1] \o SubSeq(days[day], 1, next - 1)
                ELSE f[day - 1]

DiffInv ==
    (job = "diff") =>
        /\ day <= Len(days) + 1
        /\ (day <= Len(days)) => (next <= Len(days[day]) + 1)
        /\ \A f, seq : Joined(f, days, Transactions) /\ (seq = ReadSoFar(f)) => RulesRight(seq)

LEMMA NothingRead ==
  ASSUME old = Empty, new = Empty
  PROVE  RulesRight(<<>>)
<1>1. DOMAIN Empty = {}
  BY DEF Empty
<1>2. \A rules : CountedBy(rules, <<>>) = {}
  BY DEF CountedBy
<1>3. StatsRight(Empty)
  BY <1>1, FS_EmptySet DEF StatsRight
<1>4. HoldsInAll(Empty, <<>>, {})
  BY <1>1, <1>3, SumOfNone, FS_EmptySet DEF HoldsInAll
<1>5. Alike(Empty, Empty)
  BY <1>1 DEF Alike
<1>6. \A h : NowChain(<<>>, h) => Alike(Empty, h[Len(<<>>)])
  BY <1>5 DEF NowChain
<1> QED
  BY <1>2, <1>4, <1>6 DEF RulesRight

LEMMA InitDiff == ScanInit => DiffInv
<1> SUFFICES ASSUME ScanInit PROVE DiffInv
  OBVIOUS
<1>1. day = 1 /\ next = 1 /\ old = Empty /\ new = Empty
  BY DEF ScanInit
<1>2. days \in Seq(Seq(Transactions))
  BY InitScanType DEF ScanTypeOK
<1>3. ASSUME NEW f, Joined(f, days, Transactions)
      PROVE  RulesRight(ReadSoFar(f))
  <2>1. f[0] = <<>>
    BY <1>3 DEF Joined
  <2>2. ReadSoFar(f) = <<>>
    <3>1. CASE 1 <= Len(days)
      <4>1. days[1] \in Seq(Transactions)
        BY <1>2, <3>1
      <4>2. SubSeq(days[1], 1, 0) = <<>>
        BY <4>1
      <4> QED
        BY <1>1, <2>1, <3>1, <4>2 DEF ReadSoFar
    <3>2. CASE ~(1 <= Len(days))
      BY <1>1, <2>1, <3>2 DEF ReadSoFar
    <3> QED
      BY <3>1, <3>2
  <2> QED
    BY <1>1, <2>2, NothingRead
<1>4. (day <= Len(days)) => (next <= Len(days[day]) + 1)
  BY <1>1, <1>2
<1> QED
  BY <1>1, <1>2, <1>3, <1>4 DEF DiffInv

\* The rows before one of them, and with it.
LEMMA OneRowMore ==
  ASSUME NEW s \in Seq(Transactions), NEW t \in Seq(Transactions), NEW k \in 1..Len(t)
  PROVE  /\ s \o SubSeq(t, 1, k - 1) \in Seq(Transactions)
         /\ s \o SubSeq(t, 1, k) = Append(s \o SubSeq(t, 1, k - 1), t[k])
<1> DEFINE u == SubSeq(t, 1, k - 1)
           v == s \o u
           w == s \o SubSeq(t, 1, k)
           z == Append(v, t[k])
<1>1. /\ Len(t) \in Nat /\ Len(s) \in Nat /\ k \in Nat \ {0}
      /\ \A i \in 1..Len(t) : t[i] \in Transactions
  OBVIOUS
<1>2. /\ u \in Seq(Transactions) /\ Len(u) = k - 1
      /\ \A i \in 1..(k - 1) : u[i] = t[i]
  OBVIOUS
<1>3. /\ SubSeq(t, 1, k) \in Seq(Transactions) /\ Len(SubSeq(t, 1, k)) = k
      /\ \A i \in 1..k : SubSeq(t, 1, k)[i] = t[i]
  OBVIOUS
<1> HIDE DEF u
<1>4. /\ v \in Seq(Transactions) /\ Len(v) = Len(s) + (k - 1)
      /\ \A i \in 1..(Len(s) + (k - 1)) : v[i] = IF i <= Len(s) THEN s[i] ELSE t[i - Len(s)]
  <2>1. /\ v \in Seq(Transactions) /\ Len(v) = Len(s) + Len(u)
        /\ \A i \in 1..(Len(s) + Len(u)) : v[i] = IF i <= Len(s) THEN s[i] ELSE u[i - Len(s)]
    BY <1>2, ConcatProperties
  <2> HIDE DEF v
  <2> SUFFICES ASSUME NEW i \in 1..(Len(s) + (k - 1))
               PROVE  v[i] = IF i <= Len(s) THEN s[i] ELSE t[i - Len(s)]
    BY <1>2, <2>1
  <2>2. CASE i <= Len(s)
    BY <1>2, <2>1, <2>2
  <2>3. CASE ~(i <= Len(s))
    <3>1. i - Len(s) \in 1..(k - 1)
      BY <1>1, <2>3
    <3> QED
      BY <1>2, <2>1, <2>3, <3>1
  <2> QED
    BY <2>2, <2>3
<1>5. /\ w \in Seq(Transactions) /\ Len(w) = Len(s) + k
      /\ \A i \in 1..(Len(s) + k) : w[i] = IF i <= Len(s) THEN s[i] ELSE t[i - Len(s)]
  BY <1>1, <1>3
<1> HIDE DEF v, w
<1>6. /\ z \in Seq(Transactions) /\ Len(z) = Len(s) + k
      /\ \A i \in 1..(Len(s) + k) :
            z[i] = IF i <= Len(s) + (k - 1) THEN v[i] ELSE t[k]
  BY <1>1, <1>4
<1> HIDE DEF z
<1>7. \A i \in 1..Len(w) : w[i] = z[i]
  <2> SUFFICES ASSUME NEW i \in 1..Len(w) PROVE w[i] = z[i]
    OBVIOUS
  <2>1. CASE i <= Len(s) + (k - 1)
    <3>1. i \in 1..(Len(s) + (k - 1)) /\ i \in 1..(Len(s) + k)
      BY <1>1, <1>5, <2>1
    <3>2. z[i] = v[i] /\ v[i] = w[i]
      BY <1>4, <1>5, <1>6, <2>1, <3>1
    <3> QED
      BY <3>2
  <2>2. CASE ~(i <= Len(s) + (k - 1))
    <3>1. i = Len(s) + k /\ i \in 1..(Len(s) + k) /\ ~(i <= Len(s)) /\ i - Len(s) = k
      BY <1>1, <1>5, <2>2
    <3> QED
      BY <1>5, <1>6, <2>2, <3>1
  <2> QED
    BY <2>1, <2>2
<1>8. w = z
  BY <1>5, <1>6, <1>7, SeqEqual
<1> QED
  BY <1>4, <1>8 DEF u, v, w, z

\* The first rows of a day are all, and the first none.
LEMMA WholeDay ==
  ASSUME NEW s \in Seq(Transactions), NEW t \in Seq(Transactions)
  PROVE  /\ s \o SubSeq(t, 1, Len(t)) = s \o t
         /\ s \o SubSeq(t, 1, 0) = s
<1>1. SubSeq(t, 1, Len(t)) = t
  BY SubSeqFull
<1>2. SubSeq(t, 1, 0) = <<>>
  <2>1. 1 \in Int /\ 0 \in Int /\ 0 < 1
    OBVIOUS
  <2> QED
    BY <2>1, SubSeqEmpty
<1>3. s \o <<>> = s
  BY ConcatEmptySeq
<1> QED
  BY <1>1, <1>2, <1>3

\* While nothing is learnt the rules say the same.
LEMMA RulesStay ==
  ASSUME NEW seq, exchangeOf' = exchangeOf, chargerOf' = chargerOf
  PROVE  /\ \A rules : CountedBy(rules, seq)' = CountedBy(rules, seq)
         /\ \A h : NowChain(seq, h)' <=> NowChain(seq, h)
<1>1. \A tx2 : Class(tx2)' = Class(tx2) /\ OldClass(tx2)' = OldClass(tx2)
  BY DEF Class, OldClass, IsExchange, IsCharger, IsOwnCharger, IsTokenTransfer, SmallCharge,
         IsSmall, IsActivation
<1>2. \A rules : CountedBy(rules, seq)' = CountedBy(rules, seq)
  BY <1>1 DEF CountedBy, ClassOf
<1>3. ASSUME NEW map, NEW tx2
      PROVE  NowWith(map, tx2)' = NowWith(map, tx2)
  <2>1. OldClass(tx2)' = OldClass(tx2)
    BY <1>1
  <2> QED
    BY <2>1 DEF NowWith, Updated
<1>4. \A h : NowChain(seq, h)' <=> NowChain(seq, h)
  BY <1>3 DEF NowChain
<1> QED
  BY <1>2, <1>4

\* Another row.
LEMMA RulesStayRight ==
  ASSUME NEW seq \in Seq(Transactions), NEW tx \in Transactions, RulesRight(seq),
         exchangeOf' = exchangeOf, chargerOf' = chargerOf,
         old' = IF tx.type = TransferType THEN old ELSE Counted(old, OldClass(tx), tx),
         new' = IF tx.type = TransferType THEN new ELSE Counted(new, Class(tx), tx)
  PROVE  RulesRight(Append(seq, tx))'
<1> DEFINE more == Append(seq, tx)
<1>1. HoldsInAll(old', more, CountedBy("old", more))
  BY HoldsMore DEF RulesRight, ClassOf
<1>2. HoldsInAll(new', more, CountedBy("new", more))
  BY HoldsMore DEF RulesRight, ClassOf
<1>3. ASSUME NEW h, NowChain(more, h)
      PROVE  Alike(old', h[Len(more)])
  <2>1. /\ DOMAIN seq = 1..Len(seq) /\ Len(seq) \in Nat /\ Len(more) = Len(seq) + 1
        /\ DOMAIN more = 1..(Len(seq) + 1) /\ more[Len(seq) + 1] = tx
        /\ \A i \in 1..Len(seq) : more[i] = seq[i]
    OBVIOUS
  <2> HIDE DEF more
  <2>2. NowChain(seq, h)
    BY <1>3, <2>1 DEF NowChain
  <2>3. Alike(old, h[Len(seq)]) /\ StatsRight(old)
    BY <2>2 DEF RulesRight, HoldsInAll
  <2>4. h[Len(more)] = NowWith(h[Len(seq)], tx)
    BY <1>3, <2>1 DEF NowChain
  <2> QED
    BY <2>3, <2>4, AlikeMore
<1> HIDE DEF more
<1>4. /\ \A rules : CountedBy(rules, more)' = CountedBy(rules, more)
      /\ \A h : NowChain(more, h)' <=> NowChain(more, h)
  BY RulesStay
<1>8. RulesRight(more)'
  BY <1>1, <1>2, <1>3, <1>4 DEF RulesRight
<1> QED
  BY <1>8 DEF more

LEMMA StepDiff ==
  ASSUME ScanTypeOK, DiffInv, [ScanNext]_scanVars
  PROVE  DiffInv'
<1> SUFFICES ASSUME job' = "diff" PROVE DiffInv'
  BY DEF DiffInv
<1>1. job = "diff" /\ job' = job /\ days' = days
  BY StepScanType DEF others
<1>0. /\ day <= Len(days) + 1 /\ ((day <= Len(days)) => (next <= Len(days[day]) + 1))
      /\ \A f, seq : Joined(f, days, Transactions) /\ (seq = ReadSoFar(f)) => RulesRight(seq)
      /\ days \in Seq(Seq(Transactions)) /\ day \in Nat \ {0} /\ next \in Nat \ {0}
  BY <1>1 DEF DiffInv, ScanTypeOK
<1>2. \/ DiffRow \/ NextDay
      \/ UNCHANGED <<day, next, old, new, exchangeOf, chargerOf>>
  BY <1>1 DEF ScanNext, FlushRow, FlushPersist, CountRow, ExchangeRow, ExchangePersist, DiffRow,
       TronLinkRow, NextDay, RegistryChanges, scanVars
<1>3. CASE UNCHANGED <<day, next, old, new, exchangeOf, chargerOf>>
  <2>1. ASSUME NEW f, NEW seq, Joined(f, days, Transactions), seq = ReadSoFar(f)'
        PROVE  RulesRight(seq)'
    <3>1. RulesRight(seq)
      BY <1>0, <1>1, <1>3, <2>1 DEF ReadSoFar
    <3>2. /\ \A rules : CountedBy(rules, seq)' = CountedBy(rules, seq)
          /\ \A h : NowChain(seq, h)' <=> NowChain(seq, h)
      BY <1>3, RulesStay
    <3> QED
      BY <1>3, <3>1, <3>2 DEF RulesRight
  <2> QED
    BY <1>0, <1>1, <1>3, <2>1 DEF DiffInv
<1>4. CASE NextDay
  <2>0. /\ day <= Len(days) /\ next > Len(days[day]) /\ day' = day + 1 /\ next' = 1
        /\ UNCHANGED <<old, new, exchangeOf, chargerOf>>
    BY <1>1, <1>4 DEF NextDay, AtEnd, registry, statVars
  <2>1. /\ day \in 1..Len(days) /\ Len(days) \in Nat /\ days[day] \in Seq(Transactions)
        /\ Len(days[day]) \in Nat /\ next = Len(days[day]) + 1
    <3>1. day \in 1..Len(days) /\ Len(days) \in Nat
      BY <1>0, <2>0
    <3>2. days[day] \in Seq(Transactions)
      BY <1>0, <3>1
    <3>3. Len(days[day]) \in Nat
      BY <3>2
    <3>4. next \in Nat /\ (next <= Len(days[day]) + 1) /\ (next > Len(days[day]))
      BY <1>0, <2>0
    <3> QED
      BY <3>1, <3>2, <3>3, <3>4
  <2>2. ASSUME NEW f, NEW seq, Joined(f, days, Transactions), seq = ReadSoFar(f)'
        PROVE  RulesRight(seq)'
    <3>1. /\ f[day - 1] \in Seq(Transactions) /\ f[day] \in Seq(Transactions)
          /\ f[day] = f[day - 1] \o days[day]
      <4>1. day - 1 \in 0..Len(days) /\ day \in 0..Len(days)
        BY <2>1
      <4> QED
        BY <2>1, <2>2, <4>1 DEF Joined
    <3>2. ReadSoFar(f) = f[day]
      <4>1. next - 1 = Len(days[day])
        BY <2>1
      <4>2. ReadSoFar(f) = f[day - 1] \o SubSeq(days[day], 1, Len(days[day]))
        BY <2>0, <4>1 DEF ReadSoFar
      <4> QED
        BY <2>1, <3>1, <4>2, WholeDay
    <3>3. seq = f[day]
      <4>1. day' - 1 = day /\ next' - 1 = 0
        BY <2>0, <2>1
      <4>2. CASE day' <= Len(days)
        <5>1. days[day'] \in Seq(Transactions)
          BY <1>0, <2>0, <2>1, <4>2
        <5>2. seq = f[day] \o SubSeq(days[day'], 1, 0)
          BY <1>1, <2>2, <4>1, <4>2 DEF ReadSoFar
        <5> QED
          BY <3>1, <5>1, <5>2, WholeDay
      <4>3. CASE ~(day' <= Len(days))
        BY <1>1, <2>2, <4>1, <4>3 DEF ReadSoFar
      <4> QED
        BY <4>2, <4>3
    <3>4. RulesRight(seq)
      BY <1>0, <2>2, <3>2, <3>3
    <3>5. /\ \A rules : CountedBy(rules, seq)' = CountedBy(rules, seq)
          /\ \A h : NowChain(seq, h)' <=> NowChain(seq, h)
      BY <2>0, RulesStay
    <3> QED
      BY <2>0, <3>4, <3>5 DEF RulesRight
  <2>3. day' <= Len(days) + 1 /\ ((day' <= Len(days)) => (next' <= Len(days[day']) + 1))
    <3>1. (day' <= Len(days)) => days[day'] \in Seq(Transactions)
      BY <1>0, <2>0, <2>1
    <3>2. (day' <= Len(days)) => Len(days[day']) \in Nat
      BY <3>1
    <3> QED
      BY <2>0, <2>1, <3>2
  <2> QED
    BY <1>1, <2>2, <2>3 DEF DiffInv
<1>5. CASE DiffRow
  <2>0. /\ AtRow /\ day <= Len(days) /\ next <= Len(days[day]) /\ day' = day /\ next' = next + 1
        /\ UNCHANGED <<exchangeOf, chargerOf>>
        /\ old' = (IF Row.type = TransferType THEN old ELSE Counted(old, OldClass(Row), Row))
        /\ new' = (IF Row.type = TransferType THEN new ELSE Counted(new, Class(Row), Row))
    BY <1>5 DEF DiffRow, AtRow, Advance, registry
  <2>1. /\ day \in 1..Len(days) /\ Len(days) \in Nat /\ days[day] \in Seq(Transactions)
        /\ Len(days[day]) \in Nat /\ next \in 1..Len(days[day])
    <3>1. day \in 1..Len(days) /\ Len(days) \in Nat
      BY <1>0, <2>0
    <3>2. days[day] \in Seq(Transactions)
      BY <1>0, <3>1
    <3>3. Len(days[day]) \in Nat
      BY <3>2
    <3> QED
      BY <1>0, <2>0, <3>1, <3>2, <3>3
  <2>2. PICK tx : tx = Row
    OBVIOUS
  <2>3. tx \in Transactions /\ tx = days[day][next]
    BY <2>0, <2>2, RowIsTransaction DEF Row
  <2>4. ASSUME NEW f, NEW seq, Joined(f, days, Transactions), seq = ReadSoFar(f)'
        PROVE  RulesRight(seq)'
    <3>1. f[day - 1] \in Seq(Transactions)
      <4>1. day - 1 \in 0..Len(days)
        BY <2>1
      <4> QED
        BY <2>4, <4>1 DEF Joined
    <3>2. PICK one : one = f[day - 1] \o SubSeq(days[day], 1, next - 1)
      OBVIOUS
    <3>3. one = ReadSoFar(f)
      BY <2>0, <3>2 DEF ReadSoFar
    <3>4. seq = f[day - 1] \o SubSeq(days[day], 1, next)
      <4>1. next' - 1 = next /\ day' <= Len(days)
        BY <2>0, <2>1
      <4> QED
        BY <1>1, <2>0, <2>4, <4>1 DEF ReadSoFar
    <3>5. one \in Seq(Transactions) /\ seq = Append(one, tx)
      BY <2>1, <2>3, <3>1, <3>2, <3>4, OneRowMore
    <3>6. RulesRight(one)
      BY <1>0, <2>4, <3>3
    <3>7. RulesRight(Append(one, tx))'
      BY <2>0, <2>2, <2>3, <3>5, <3>6, RulesStayRight
    <3> QED
      BY <3>5, <3>7
  <2>5. next' <= Len(days[day']) + 1
    BY <2>0, <2>1
  <2> QED
    BY <1>1, <2>0, <2>1, <2>4, <2>5 DEF DiffInv
<1> QED
  BY <1>2, <1>3, <1>4, <1>5

\* Both sets of rules count the same rows but the small ones.
LEMMA ClassesAgree ==
  ASSUME NEW tx
  PROVE  OldClass(tx)[1] # "none" <=> (~IsSmall(tx) /\ Class(tx)[1] # "none")
<1> DEFINE out == IsExchange(tx.from)
           own == IsOwnCharger(tx.to, exchangeOf[tx.from])
           back == IsCharger(tx.from) /\ IsExchange(tx.to)
           in == IsCharger(tx.to)
<1>1. own => in
  BY DEF IsOwnCharger
<1>2. OldClass(tx)[1] = IF ~IsTokenTransfer(tx) \/ IsSmall(tx) THEN "none"
                        ELSE IF out THEN "withdraw" ELSE IF back THEN "collect"
                        ELSE IF in THEN "charge" ELSE "none"
  BY DEF OldClass
<1>3. Class(tx)[1] = IF ~IsTokenTransfer(tx) THEN "none"
                     ELSE IF out /\ ~own THEN "withdraw" ELSE IF back THEN "collect"
                     ELSE IF in THEN (IF IsSmall(tx) THEN SmallCharge(tx) ELSE "charge")
                     ELSE "none"
  BY DEF Class
<1> HIDE DEF out, own, back, in
<1> QED
  BY <1>1, <1>2, <1>3

\* What the new rules count more, in numbers and in fees.
LEMMA SmallAreMore ==
  ASSUME NEW seq \in Seq(Transactions), RulesRight(seq),
         NEW J, J = {i \in DOMAIN seq : /\ seq[i].type # TransferType /\ IsSmall(seq[i])
                                        /\ Class(seq[i])[1] # "none"}
  PROVE  /\ Cardinality(J) \in Nat /\ Amounts(FeesOfRows(seq), J)
         /\ SumOver(AllTxs(old), DOMAIN old) \in Nat /\ SumOver(AllFees(old), DOMAIN old) \in Nat
         /\ SumOver(AllTxs(new), DOMAIN new) = SumOver(AllTxs(old), DOMAIN old) + Cardinality(J)
         /\ SumOver(AllFees(new), DOMAIN new)
                = SumOver(AllFees(old), DOMAIN old) + SumOver(FeesOfRows(seq), J)
<1> DEFINE K == CountedBy("old", seq)
           L == CountedBy("new", seq)
           f == FeesOfRows(seq)
<1>1. L = K \cup J /\ K \cap J = {}
  BY ClassesAgree DEF CountedBy, ClassOf
<1>2. IsFiniteSet(L) /\ Amounts(f, L)
  <2>1. PICK tx : tx \in Transactions \/ Transactions = {}
    OBVIOUS
  <2>2. CASE Transactions = {}
    <3>1. DOMAIN seq = {}
      <4>1. DOMAIN seq = 1..Len(seq) /\ \A i \in 1..Len(seq) : seq[i] \in Transactions
        OBVIOUS
      <4> QED
        BY <2>2, <4>1
    <3>2. L = {}
      BY <3>1 DEF CountedBy
    <3> HIDE DEF L
    <3> QED
      BY <3>2, FS_EmptySet DEF Amounts
  <2>3. CASE tx \in Transactions
    BY <2>3, CountedMore
  <2> QED
    BY <2>1, <2>2, <2>3
<1>3. /\ SumOver(AllTxs(old), DOMAIN old) = Cardinality(K)
      /\ SumOver(AllFees(old), DOMAIN old) = SumOver(f, K)
      /\ SumOver(AllTxs(new), DOMAIN new) = Cardinality(L)
      /\ SumOver(AllFees(new), DOMAIN new) = SumOver(f, L)
  BY DEF RulesRight, HoldsInAll
<1> HIDE DEF K, L, f
<1>4. IsFiniteSet(K) /\ IsFiniteSet(J) /\ Amounts(f, K) /\ Amounts(f, J)
  BY <1>1, <1>2, FS_Subset, SumOfPart
<1>5. Cardinality(K \cup J) = Cardinality(K) + Cardinality(J)
  BY <1>1, <1>4, DisjointCount
<1>6. SumOver(f, K \cup J) = SumOver(f, K) + SumOver(f, J)
  BY <1>1, <1>4, SumOfUnion
<1>7. Cardinality(K) \in Nat /\ Cardinality(J) \in Nat /\ SumOver(f, K) \in Nat
  BY <1>4, FS_CardinalityType, SumType
<1> QED
  BY <1>1, <1>3, <1>4, <1>5, <1>6, <1>7 DEF f

\* The numbers that a statistic of an exchange has, by the names of the report.
NumberOf(k, s) == CASE k = "withdrawTxs"   -> s.withdraw.txs
                    [] k = "collectTxs"    -> s.collect.txs
                    [] k = "activationTxs" -> s.activationTxs
                    [] k = "chargeTxs"     -> s.charge.txs
NumbersIn(k, map) == [e \in DOMAIN map |-> NumberOf(k, map[e])]
Numbers == {"withdrawTxs", "collectTxs", "activationTxs", "chargeTxs"}

\* They are natural numbers, and none at first.
LEMMA NumberType ==
  ASSUME NEW k \in Numbers
  PROVE  /\ NumberOf(k, NewExchangeStatistic) = 0
         /\ \A s : StatRight(s) => NumberOf(k, s) \in Nat
         /\ \A map : StatsRight(map) => /\ Amounts(NumbersIn(k, map), DOMAIN map)
                                        /\ SumOver(NumbersIn(k, map), DOMAIN map) \in Nat
<1>1. NumberOf(k, NewExchangeStatistic) = 0
  BY DEF NumberOf, Numbers, NewExchangeStatistic, NewFlow
<1>2. \A s : StatRight(s) => NumberOf(k, s) \in Nat
  BY DEF NumberOf, Numbers, StatRight, ExchangeStat, Flow
<1>3. \A map : StatsRight(map) => Amounts(NumbersIn(k, map), DOMAIN map)
  BY <1>2 DEF StatsRight, Amounts, NumbersIn
<1> QED
  BY <1>1, <1>2, <1>3, SumType

\* In all they are the transactions of the map.
LEMMA NumbersAreTxs ==
  ASSUME NEW map, StatsRight(map)
  PROVE  SumOver(AllTxs(map), DOMAIN map)
            = SumOver(NumbersIn("withdrawTxs", map), DOMAIN map)
              + SumOver(NumbersIn("collectTxs", map), DOMAIN map)
              + SumOver(NumbersIn("activationTxs", map), DOMAIN map)
              + SumOver(NumbersIn("chargeTxs", map), DOMAIN map)
<1> DEFINE D == DOMAIN map
           w == NumbersIn("withdrawTxs", map)
           c == NumbersIn("collectTxs", map)
           a == NumbersIn("activationTxs", map)
           h == NumbersIn("chargeTxs", map)
           t == AllTxs(map)
           u == [e \in D |-> w[e] + c[e]]
           v == [e \in D |-> u[e] + a[e]]
<1>1. /\ Amounts(w, D) /\ Amounts(c, D) /\ Amounts(a, D) /\ Amounts(h, D)
      /\ SumOver(w, D) \in Nat /\ SumOver(c, D) \in Nat /\ SumOver(a, D) \in Nat
      /\ SumOver(h, D) \in Nat
  BY NumberType DEF Numbers
<1>2. \A e \in D : t[e] = a[e] + (h[e] + c[e] + w[e])
  BY DEF AllTxs, TxsOf, NumbersIn, NumberOf
<1> HIDE DEF D, w, c, a, h, t
<1>3. AddUp(w, c, u, D) /\ AddUp(u, a, v, D)
  BY DEF AddUp
<1>4. AddUp(v, h, t, D)
  BY <1>1, <1>2 DEF AddUp, Amounts
<1> HIDE DEF u, v
<1>5. Amounts(u, D) /\ SumOver(u, D) = SumOver(w, D) + SumOver(c, D)
  BY <1>1, <1>3, SumOfPlus
<1>6. Amounts(v, D) /\ SumOver(v, D) = SumOver(u, D) + SumOver(a, D)
  BY <1>1, <1>3, <1>5, SumOfPlus
<1>7. SumOver(t, D) = SumOver(v, D) + SumOver(h, D)
  BY <1>1, <1>4, <1>6, SumOfPlus
<1> QED
  BY <1>1, <1>5, <1>6, <1>7 DEF D, w, c, a, h, t

\* A map with entries for exchanges that it has not.
LEMMA WithNew ==
  ASSUME NEW map, StatsRight(map), NEW k \in Numbers, NEW S, IsFiniteSet(S), DOMAIN map \subseteq S,
         NEW p, \A e \in S : p[e] = NumberOf(k, StatisticIn(map, e))
  PROVE  Amounts(p, S) /\ SumOver(p, S) = SumOver(NumbersIn(k, map), DOMAIN map)
<1> DEFINE D == DOMAIN map
           f == NumbersIn(k, map)
<1>1. \A e \in D : p[e] = f[e]
  BY DEF NumbersIn, StatisticIn
<1>2. \A e \in S \ D : p[e] = 0
  BY NumberType DEF StatisticIn
<1>3. Amounts(f, D)
  BY NumberType
<1>4. D \subseteq S
  OBVIOUS
<1> HIDE DEF D, f
<1>5. Amounts(p, S)
  BY <1>1, <1>2, <1>3 DEF Amounts
<1>6. SumOver(p, D) = SumOver(p, S)
  BY <1>2, <1>4, <1>5, SumOfPart
<1>7. SumOver(p, D) = SumOver(f, D)
  BY <1>1, <1>3, SumOfEqual
<1> QED
  BY <1>5, <1>6, <1>7 DEF D, f

\* What the report lists as differing is, in all, the difference of the maps.
LEMMA DeltasAreAll ==
  ASSUME StatsRight(old), StatsRight(new),
         NEW k \in {"withdrawTxs", "collectTxs", "activationTxs"}
  PROVE  TotalDelta(k) = SumOver(NumbersIn(k, new), DOMAIN new)
                         - SumOver(NumbersIn(k, old), DOMAIN old)
<1> DEFINE S == DOMAIN old \cup DOMAIN new
           D == Differing
           p == [e \in S |-> NumberOf(k, StatisticIn(new, e))]
           q == [e \in S |-> NumberOf(k, StatisticIn(old, e))]
           f == [e \in D |-> Delta(e)[k]]
<1>1. IsFiniteSet(S)
  BY FS_Union DEF StatsRight
<1>2. D \subseteq S
  BY DEF Differing
<1>3. ASSUME NEW e \in S
      PROVE  /\ Delta(e)[k] = NumberOf(k, StatisticIn(new, e)) - NumberOf(k, StatisticIn(old, e))
             /\ k \in DOMAIN Delta(e)
  BY DEF Delta, NumberOf
<1>4. \A e \in S \ D : Delta(e)[k] = 0
  BY <1>3 DEF Differing
<1>5. \A e \in D : f[e] = p[e] - q[e]
  BY <1>2, <1>3
<1>6. k \in Numbers
  BY DEF Numbers
<1>7. Amounts(p, S) /\ SumOver(p, S) = SumOver(NumbersIn(k, new), DOMAIN new)
  BY <1>1, <1>6, WithNew
<1>8. Amounts(q, S) /\ SumOver(q, S) = SumOver(NumbersIn(k, old), DOMAIN old)
  BY <1>1, <1>6, WithNew
<1>9. \A e \in S \ D : q[e] = p[e]
  <2>1. \A e \in S : Delta(e)[k] = p[e] - q[e]
    BY <1>3
  <2>2. \A e \in S : p[e] \in Nat /\ q[e] \in Nat
    BY <1>7, <1>8, Zenon DEF Amounts
  <2> HIDE DEF p, q, D
  <2> QED
    BY <1>4, <2>1, <2>2
<1>10. TotalDelta(k) = SumOver(f, D)
  BY Zenon DEF TotalDelta, Total
<1> HIDE DEF S, D, p, q, f
<1>11. Amounts(p, D) /\ Amounts(q, D) /\ Amounts(p, S \ D) /\ Amounts(q, S \ D)
  BY <1>2, <1>7, <1>8, SumOfPart
<1>12. SumOver(f, D) = SumOver(p, D) - SumOver(q, D)
  BY <1>5, <1>11, SumOfDifferences
<1>13. SumOver(q, S \ D) = SumOver(p, S \ D)
  BY <1>9, <1>11, SumOfEqual
<1>14. D \cap (S \ D) = {} /\ D \cup (S \ D) = S
  BY <1>2
<1>15. /\ SumOver(p, S) = SumOver(p, D) + SumOver(p, S \ D)
       /\ SumOver(q, S) = SumOver(q, D) + SumOver(q, S \ D)
  BY <1>11, <1>14, SumOfUnion
<1>16. /\ SumOver(p, D) \in Nat /\ SumOver(q, D) \in Nat /\ SumOver(p, S \ D) \in Nat
       /\ SumOver(q, S \ D) \in Nat
  BY <1>11, SumType
<1> QED
  BY <1>7, <1>8, <1>10, <1>12, <1>13, <1>15, <1>16

\* The number of the transfers of a statistic, as a sum over its flows.
LEMMA FlowsInAll ==
  ASSUME NEW s, StatRight(s)
  PROVE  SumOver([flow \in Flows |-> s[flow].txs], Flows)
            = s.charge.txs + s.collect.txs + s.withdraw.txs
<1> DEFINE f == [flow \in Flows |-> s[flow].txs]
<1>1. /\ s.charge.txs \in Nat /\ s.collect.txs \in Nat /\ s.withdraw.txs \in Nat
  BY DEF StatRight, ExchangeStat, Flow
<1>2. f["charge"] = s.charge.txs /\ f["collect"] = s.collect.txs /\ f["withdraw"] = s.withdraw.txs
  BY DEF Flows
<1> HIDE DEF f
<1>3. Amounts(f, {}) /\ SumOver(f, {}) = 0
  BY SumOfNone, FS_EmptySet DEF Amounts
<1>4. Amounts(f, {} \cup {"charge"}) /\ SumOver(f, {} \cup {"charge"}) = 0 + s.charge.txs
  BY <1>1, <1>2, <1>3, SumWith
<1>5. /\ Amounts(f, ({} \cup {"charge"}) \cup {"collect"})
      /\ SumOver(f, ({} \cup {"charge"}) \cup {"collect"}) = 0 + s.charge.txs + s.collect.txs
  <2>1. "collect" \notin {} \cup {"charge"}
    OBVIOUS
  <2> QED
    BY <1>1, <1>2, <1>4, <2>1, SumWith
<1>6. SumOver(f, (({} \cup {"charge"}) \cup {"collect"}) \cup {"withdraw"})
         = 0 + s.charge.txs + s.collect.txs + s.withdraw.txs
  <2>1. PICK T : T = ({} \cup {"charge"}) \cup {"collect"}
    OBVIOUS
  <2>2. "withdraw" \notin T /\ Amounts(f, T) /\ f["withdraw"] \in Nat
    BY <1>1, <1>2, <1>5, <2>1
  <2>3. SumOver(f, T \cup {"withdraw"}) = SumOver(f, T) + f["withdraw"]
    BY <2>2, SumWith
  <2> QED
    BY <1>2, <1>5, <2>1, <2>3
<1>7. Flows = (({} \cup {"charge"}) \cup {"collect"}) \cup {"withdraw"}
  BY DEF Flows
<1> QED
  BY <1>1, <1>6, <1>7 DEF f

\* The sums of RulesKeepTransfers are those of the maps.
TxsInAll(map) == Total(LAMBDA e : map[e].activationTxs
                                    + Total(LAMBDA flow : map[e][flow].txs, Flows), DOMAIN map)
FeesInAll(map) == Total(LAMBDA e : map[e].totalFee, DOMAIN map)
ChargesIn(map) == Total(LAMBDA e : map[e].charge["txs"], DOMAIN map)

LEMMA SumsInAll ==
  ASSUME NEW map, StatsRight(map)
  PROVE  /\ TxsInAll(map) = SumOver(AllTxs(map), DOMAIN map)
         /\ FeesInAll(map) = SumOver(AllFees(map), DOMAIN map)
         /\ ChargesIn(map) = SumOver(NumbersIn("chargeTxs", map), DOMAIN map)
<1> DEFINE D == DOMAIN map
           f == [e \in D |-> map[e].activationTxs
                               + SumOver([flow \in Flows |-> map[e][flow].txs], Flows)]
           h == [e \in D |-> map[e].charge["txs"]]
<1>1. TxsInAll(map) = SumOver(f, D)
  BY Zenon DEF TxsInAll, Total
<1>2. FeesInAll(map) = SumOver(AllFees(map), D)
  BY Zenon DEF FeesInAll, Total, AllFees
<1>3. ChargesIn(map) = SumOver(h, D)
  BY Zenon DEF ChargesIn, Total
<1>4. f = AllTxs(map)
  <2>1. ASSUME NEW e \in D PROVE f[e] = TxsOf(map[e])
    <3>1. StatRight(map[e])
      BY DEF StatsRight
    <3>2. SumOver([flow \in Flows |-> map[e][flow].txs], Flows)
             = map[e].charge.txs + map[e].collect.txs + map[e].withdraw.txs
      BY <3>1, FlowsInAll
    <3> QED
      BY <3>2 DEF TxsOf
  <2>2. f = [e \in D |-> f[e]]
    OBVIOUS
  <2> HIDE DEF f
  <2> QED
    BY <2>1, <2>2 DEF AllTxs
<1>5. h = NumbersIn("chargeTxs", map)
  BY DEF NumbersIn, NumberOf
<1> QED
  BY <1>1, <1>2, <1>3, <1>4, <1>5

\* When the scan is over, what it has read are the rows of all days.
LEMMA AllIsRead ==
  ASSUME ScanTypeOK, DiffInv, ScanDone("diff")
  PROVE  FlattenSeq(days) \in Seq(Transactions) /\ RulesRight(FlattenSeq(days))
<1>1. /\ days \in Seq(Seq(Transactions)) /\ day \in Nat \ {0} /\ day <= Len(days) + 1
      /\ day > Len(days)
      /\ \A f, seq : Joined(f, days, Transactions) /\ (seq = ReadSoFar(f)) => RulesRight(seq)
  BY DEF ScanTypeOK, DiffInv, ScanDone
<1>2. Len(days) \in Nat /\ day - 1 = Len(days) /\ ~(day <= Len(days))
  BY <1>1
<1>3. PICK f : Joined(f, days, Transactions)
  BY <1>1, JoinedExists
<1>4. FlattenSeq(days) = f[Len(days)]
  BY <1>1, <1>3, FlattenIsJoined
<1>5. ReadSoFar(f) = f[Len(days)]
  BY <1>2 DEF ReadSoFar
<1> QED
  BY <1>1, <1>3, <1>4, <1>5, FlattenType

\* A scan of its own, by the old rules, shows what the old map has.
LEMMA NowShowsOld ==
  ASSUME NEW seq \in Seq(Transactions), RulesRight(seq)
  PROVE  Alike(old, ExchangesNow(seq))
<1>1. DOMAIN seq = 1..Len(seq) /\ Len(seq) \in Nat
  OBVIOUS
<1>2. PICK h : Chain("now", {}, Empty, seq, h) /\ h[Len(seq)] = ExchangesNow(seq)
  BY <1>1, NowOver
<1>3. NowChain(seq, h)
  BY <1>2 DEF Chain, StepOf, NowChain
<1> QED
  BY <1>2, <1>3 DEF RulesRight

\* Differences of summands add up to the difference of the sums.
LEMMA DifferencesAddUp ==
  ASSUME NEW a \in Nat, NEW b \in Nat, NEW c \in Nat, NEW d \in Nat,
         NEW e \in Nat, NEW f \in Nat, NEW g \in Nat, NEW h \in Nat, NEW n \in Nat,
         a + b + c + d = e + f + g + h + n
  PROVE  (a - e) + (b - f) + (c - g) + (d - h) = n
OBVIOUS

\* Whatever is known of exchanges and chargers: the new rules count the transfers that the
\* old ones count, each once, and the small ones besides; the differences that the report
\* lists are all there are; and the table of the present day shows what the old rules do.
THEOREM RulesAreKept == ScanSpec => []RulesKeepTransfers
<1>1. ScanTypeOK /\ DiffInv => RulesKeepTransfers
  <2> SUFFICES ASSUME ScanTypeOK, DiffInv, ScanDone("diff") PROVE RulesKeepTransfers
    BY Zenon DEF RulesKeepTransfers
  <2> DEFINE R == FlattenSeq(days)
             now == ExchangesNow(R)
  <2>1. R \in Seq(Transactions) /\ RulesRight(R)
    BY AllIsRead
  <2>2. StatsRight(old) /\ StatsRight(new)
    BY <2>1 DEF RulesRight, HoldsInAll
  <2>3. SmallCounted = {i \in DOMAIN R : /\ R[i].type # TransferType /\ IsSmall(R[i])
                                         /\ Class(R[i])[1] # "none"}
    BY Zenon DEF SmallCounted
  <2>4. Total(LAMBDA i : R[i].cost["Fee"], SmallCounted) = SumOver(FeesOfRows(R), SmallCounted)
    <3>1. SmallCounted \subseteq DOMAIN R
      BY <2>3
    <3>2. Amounts(FeesOfRows(R), SmallCounted)
      BY <2>1, <2>3, SmallAreMore
    <3>3. \A i \in SmallCounted : [x \in SmallCounted |-> R[x].cost["Fee"]][i] = FeesOfRows(R)[i]
      BY <3>1 DEF FeesOfRows
    <3>4. SumOver([x \in SmallCounted |-> R[x].cost["Fee"]], SmallCounted)
             = SumOver(FeesOfRows(R), SmallCounted)
      BY <3>2, <3>3, SumOfEqual
    <3> QED
      BY <3>4, Zenon DEF Total
  <2> HIDE DEF R
  <2>5. /\ Cardinality(SmallCounted) \in Nat /\ Amounts(FeesOfRows(R), SmallCounted)
        /\ SumOver(AllTxs(old), DOMAIN old) \in Nat /\ SumOver(AllFees(old), DOMAIN old) \in Nat
        /\ SumOver(AllTxs(new), DOMAIN new)
               = SumOver(AllTxs(old), DOMAIN old) + Cardinality(SmallCounted)
        /\ SumOver(AllFees(new), DOMAIN new)
               = SumOver(AllFees(old), DOMAIN old) + SumOver(FeesOfRows(R), SmallCounted)
    BY <2>1, <2>3, SmallAreMore
  <2>6. SumOver(FeesOfRows(R), SmallCounted) \in Nat
    BY <2>5, SumType
  <2>7. TxsInAll(new) - TxsInAll(old) = Cardinality(SmallCounted)
    BY <2>2, <2>5, SumsInAll
  <2>8. FeesInAll(new) - FeesInAll(old) = Total(LAMBDA i : R[i].cost["Fee"], SmallCounted)
    <3>1. FeesInAll(new) - FeesInAll(old) = SumOver(FeesOfRows(R), SmallCounted)
      BY <2>2, <2>5, <2>6, SumsInAll
    <3> QED
      BY <2>4, <3>1, Zenon
  <2>9. TotalDelta("withdrawTxs") + TotalDelta("collectTxs") + TotalDelta("activationTxs")
          + (ChargesIn(new) - ChargesIn(old)) = Cardinality(SmallCounted)
    <3>1. \A k \in {"withdrawTxs", "collectTxs", "activationTxs"} :
             TotalDelta(k) = SumOver(NumbersIn(k, new), DOMAIN new)
                             - SumOver(NumbersIn(k, old), DOMAIN old)
      BY <2>2, DeltasAreAll
    <3>2. \A k \in Numbers : /\ SumOver(NumbersIn(k, new), DOMAIN new) \in Nat
                             /\ SumOver(NumbersIn(k, old), DOMAIN old) \in Nat
      BY <2>2, NumberType
    <3>3. /\ ChargesIn(new) = SumOver(NumbersIn("chargeTxs", new), DOMAIN new)
          /\ ChargesIn(old) = SumOver(NumbersIn("chargeTxs", old), DOMAIN old)
      BY <2>2, SumsInAll
    <3>4. SumOver(AllTxs(new), DOMAIN new)
            = SumOver(NumbersIn("withdrawTxs", new), DOMAIN new)
              + SumOver(NumbersIn("collectTxs", new), DOMAIN new)
              + SumOver(NumbersIn("activationTxs", new), DOMAIN new)
              + SumOver(NumbersIn("chargeTxs", new), DOMAIN new)
      BY <2>2, NumbersAreTxs
    <3>5. SumOver(AllTxs(old), DOMAIN old)
            = SumOver(NumbersIn("withdrawTxs", old), DOMAIN old)
              + SumOver(NumbersIn("collectTxs", old), DOMAIN old)
              + SumOver(NumbersIn("activationTxs", old), DOMAIN old)
              + SumOver(NumbersIn("chargeTxs", old), DOMAIN old)
      BY <2>2, NumbersAreTxs
    <3> DEFINE N(k) == SumOver(NumbersIn(k, new), DOMAIN new)
               O(k) == SumOver(NumbersIn(k, old), DOMAIN old)
    <3>6. /\ TotalDelta("withdrawTxs") = N("withdrawTxs") - O("withdrawTxs")
          /\ TotalDelta("collectTxs") = N("collectTxs") - O("collectTxs")
          /\ TotalDelta("activationTxs") = N("activationTxs") - O("activationTxs")
      BY <3>1
    <3>7. /\ N("withdrawTxs") \in Nat /\ N("collectTxs") \in Nat /\ N("activationTxs") \in Nat
          /\ N("chargeTxs") \in Nat
          /\ O("withdrawTxs") \in Nat /\ O("collectTxs") \in Nat /\ O("activationTxs") \in Nat
          /\ O("chargeTxs") \in Nat
      BY <3>2 DEF Numbers
    <3>8. N("withdrawTxs") + N("collectTxs") + N("activationTxs") + N("chargeTxs")
             = O("withdrawTxs") + O("collectTxs") + O("activationTxs") + O("chargeTxs")
               + Cardinality(SmallCounted)
      BY <2>5, <3>4, <3>5
    <3>9. ChargesIn(new) = N("chargeTxs") /\ ChargesIn(old) = O("chargeTxs")
      BY <3>3
    <3>10. Cardinality(SmallCounted) \in Nat
      BY <2>5
    <3> HIDE DEF N, O
    <3>11. PICK a, b, c, d, e, f, g, h, n :
              /\ a = N("withdrawTxs") /\ b = N("collectTxs") /\ c = N("activationTxs")
              /\ d = N("chargeTxs")
              /\ e = O("withdrawTxs") /\ f = O("collectTxs") /\ g = O("activationTxs")
              /\ h = O("chargeTxs") /\ n = Cardinality(SmallCounted)
      OBVIOUS
    <3>12. /\ a \in Nat /\ b \in Nat /\ c \in Nat /\ d \in Nat
           /\ e \in Nat /\ f \in Nat /\ g \in Nat /\ h \in Nat /\ n \in Nat
           /\ a + b + c + d = e + f + g + h + n
      BY <3>7, <3>8, <3>10, <3>11
    <3>13. (a - e) + (b - f) + (c - g) + (d - h) = n
      BY <3>12, DifferencesAddUp
    <3> QED
      BY <3>6, <3>9, <3>11, <3>13
  <2>10. /\ DOMAIN now = DOMAIN old
         /\ \A e \in DOMAIN now : /\ now[e].flows = Shown(old[e])
                                  /\ now[e].totalFee = old[e].totalFee
    BY <2>1, NowShowsOld DEF Alike
  <2> HIDE DEF now
  <2> QED
    BY <2>7, <2>8, <2>9, <2>10, Zenon
       DEF RulesKeepTransfers, TxsInAll, FeesInAll, ChargesIn, now, R
<1>2. ScanTypeOK /\ DiffInv /\ [ScanNext]_scanVars => ScanTypeOK' /\ DiffInv'
  BY StepScanType, StepDiff
<1>3. ScanInit => ScanTypeOK /\ DiffInv
  BY InitScanType, InitDiff
<1> QED
  BY <1>1, <1>2, <1>3, PTL DEF ScanSpec

-----------------------------------------------------------------------------
(* Boards                                                                  *)

\* The n largest of S.
TopOf(keys, value, S, n) ==
    /\ keys \subseteq S
    /\ Cardinality(keys) = IF Cardinality(S) < n THEN Cardinality(S) ELSE n
    /\ \A a \in keys : \A b \in S \ keys : value[a] >= value[b]

\* A ranking that leaves something out is full.
LEMMA ShortIsAll ==
    ASSUME NEW S, IsFiniteSet(S), NEW value, NEW n \in Nat, NEW T, TopOf(T, value, S, n)
    PROVE  /\ IsFiniteSet(T) /\ Cardinality(T) \in Nat /\ Cardinality(T) <= n
           /\ T # S => Cardinality(T) = n
<1>1. IsFiniteSet(T) /\ Cardinality(T) \in Nat /\ Cardinality(S) \in Nat
  BY FS_Subset, FS_CardinalityType DEF TopOf
<1>2. Cardinality(T) = Cardinality(S) => T = S
  BY FS_Subset DEF TopOf
<1> QED
  BY <1>1, <1>2 DEF TopOf

\* The largest of the largest of two sets are the largest of both.
LEMMA TopOfTops ==
    ASSUME NEW A, NEW B, IsFiniteSet(A), IsFiniteSet(B), NEW value, NEW n \in Nat,
           \A x \in A \cup B : value[x] \in Nat,
           NEW T, NEW U, TopOf(T, value, A, n), TopOf(U, value, B, n),
           NEW S, TopOf(S, value, T \cup U, n)
    PROVE  TopOf(S, value, A \cup B, n)
<1>1. /\ IsFiniteSet(T) /\ Cardinality(T) \in Nat /\ Cardinality(T) <= n
      /\ T # A => Cardinality(T) = n
      /\ IsFiniteSet(U) /\ Cardinality(U) \in Nat /\ Cardinality(U) <= n
      /\ U # B => Cardinality(U) = n
  BY ShortIsAll
<1>2. /\ T \subseteq A /\ U \subseteq B /\ S \subseteq T \cup U
      /\ IsFiniteSet(A \cup B) /\ IsFiniteSet(T \cup U) /\ T \cup U \subseteq A \cup B
  BY <1>1, FS_Union DEF TopOf
<1>3. /\ Cardinality(A \cup B) \in Nat /\ Cardinality(T \cup U) \in Nat
      /\ Cardinality(T \cup U) <= Cardinality(A \cup B)
      /\ Cardinality(T) <= Cardinality(T \cup U) /\ Cardinality(U) <= Cardinality(T \cup U)
  <2>1. T \subseteq T \cup U /\ U \subseteq T \cup U
    OBVIOUS
  <2> QED
    BY <1>2, <2>1, FS_Subset, FS_CardinalityType
<1>4. IsFiniteSet(S) /\ Cardinality(S) \in Nat /\ Cardinality(S) <= n
  BY <1>2, ShortIsAll
<1>5. Cardinality(S) = IF Cardinality(A \cup B) < n THEN Cardinality(A \cup B) ELSE n
  <2>1. CASE T = A /\ U = B
    BY <2>1 DEF TopOf
  <2>2. CASE T # A \/ U # B
    <3>1. Cardinality(T \cup U) >= n
      BY <1>1, <1>3, <2>2
    <3> QED
      BY <1>3, <3>1 DEF TopOf
  <2> QED
    BY <2>1, <2>2
<1>6. ASSUME NEW a \in S, NEW W, NEW V, W \subseteq T \cup U, TopOf(W, value, V, n),
             IsFiniteSet(V), V \subseteq A \cup B,
             NEW b \in V \ W, value[a] < value[b]
      PROVE  FALSE
  <2>1. \A t \in W : value[t] >= value[b] /\ value[t] \in Nat
    BY <1>2, <1>6 DEF TopOf
  <2>2. a \notin W /\ value[a] \in Nat /\ value[b] \in Nat
    BY <1>2, <1>6, <2>1
  <2>3. W \subseteq S
    <3> SUFFICES ASSUME NEW t \in W, t \notin S PROVE FALSE
      OBVIOUS
    <3>1. value[a] >= value[t]
      BY <1>6 DEF TopOf
    <3> QED
      BY <1>6, <2>1, <2>2, <3>1
  <2>4. Cardinality(W) = n /\ IsFiniteSet(W)
    BY <1>6, ShortIsAll
  <2>5. Cardinality(W \cup {a}) = n + 1
    BY <2>2, <2>4, FS_AddElement
  <2>6. W \cup {a} \subseteq S
    BY <1>6, <2>3
  <2>7. Cardinality(W \cup {a}) <= Cardinality(S)
    BY <1>4, <2>6, FS_Subset
  <2> QED
    BY <1>4, <2>5, <2>7
<1>7. ASSUME NEW a \in S, NEW b \in (A \cup B) \ S
      PROVE  value[a] >= value[b]
  <2>1. value[a] \in Nat /\ value[b] \in Nat
    BY <1>2, <1>7
  <2>2. CASE b \in T \cup U
    BY <1>7, <2>2 DEF TopOf
  <2>3. CASE b \in A \ T
    <3>1. ~(value[a] < value[b])
      BY <1>6, <1>7, <2>3
    <3> QED
      BY <2>1, <3>1
  <2>4. CASE b \in B \ U
    <3>1. ~(value[a] < value[b])
      BY <1>6, <1>7, <2>4
    <3> QED
      BY <2>1, <3>1
  <2> QED
    BY <1>7, <2>2, <2>3, <2>4
<1> QED
  BY <1>2, <1>5, <1>7 DEF TopOf

\* The amounts of transactions.
AmountOf(R) == [i \in DOMAIN R |-> R[i]["amount"]]
OfTypes(R, types) == {i \in DOMAIN R : R[i].type \in types}
Indexed(R) == /\ IsFiniteSet(DOMAIN R)
              /\ \A i \in DOMAIN R : R[i] \in Transactions

LEMMA RowsIndexed ==
    ASSUME NEW R, R \in Seq(Transactions)
    PROVE  Indexed(R)
<1>1. DOMAIN R = 1..Len(R) /\ Len(R) \in Nat
  OBVIOUS
<1> QED
  BY <1>1, FS_Interval DEF Indexed

\* The board of two types.
TopOfBoth(S, R, type, n) ==
    IsTop(S, LAMBDA i : R[i].amount, OfTypes(R, {type, type + 100}), n)

LEMMA DelegationsAreTop ==
    ASSUME NEW R, Indexed(R), NEW n \in Nat, NEW type \in Nat,
           NEW S, S \in TopDelegations(R, type, n)
    PROVE  TopOfBoth(S, R, type, n)
<1> DEFINE A == {i \in DOMAIN R : R[i].type = type}
           B == {i \in DOMAIN R : R[i].type = type + 100}
           value == AmountOf(R)
<1>1. PICK T \in LargestOfType(R, type, n), U \in LargestOfType(R, type + 100, n) :
          IsTop(S, LAMBDA i : R[i].amount, T \cup U, n)
  BY DEF TopDelegations
<1>2. \A x \in A \cup B : value[x] \in Nat
  BY DEF Indexed, AmountOf, Transactions
<1>3. IsFiniteSet(A) /\ IsFiniteSet(B)
  <2>1. A \subseteq DOMAIN R /\ B \subseteq DOMAIN R
    OBVIOUS
  <2> HIDE DEF A, B
  <2> QED
    BY <2>1, FS_Subset DEF Indexed
<1>4. TopOf(T, value, A, n) /\ TopOf(U, value, B, n)
  BY <1>1 DEF LargestOfType, IsTop, TopOf, AmountOf
<1>5. TopOf(S, value, T \cup U, n)
  <2>1. T \cup U \subseteq DOMAIN R
    BY <1>1 DEF LargestOfType
  <2> QED
    BY <1>1, <2>1 DEF IsTop, TopOf, AmountOf
<1>6. OfTypes(R, {type, type + 100}) = A \cup B
  BY DEF OfTypes
<1>7. A \cup B \subseteq DOMAIN R
  OBVIOUS
<1> HIDE DEF A, B
<1>8. TopOf(S, value, A \cup B, n)
  <2> HIDE DEF value
  <2> QED
    BY <1>2, <1>3, <1>4, <1>5, TopOfTops
<1> QED
  BY <1>6, <1>7, <1>8 DEF IsTop, TopOf, AmountOf, TopOfBoth

\* What a transaction contributes to either ranking.
Part(R, isStake) ==
    [i \in StakeTxs(R) |-> IF isStake THEN Staked(R[i]) ELSE Unstaked(R[i])]

\* The scores of all owners are what all of the board's transactions contribute.
LEMMA ScoresAddUp ==
    ASSUME NEW R, Indexed(R), NEW isStake \in BOOLEAN
    PROVE  /\ Amounts(Part(R, isStake), StakeTxs(R))
           /\ SumOver(Score(R, isStake), DOMAIN Score(R, isStake))
                  = SumOver(Part(R, isStake), StakeTxs(R))
<1> DEFINE txs == StakeTxs(R)
           part == Part(R, isStake)
           owners == {R[i].owner : i \in txs}
           group == [a \in owners |-> {i \in txs : R[i].owner = a}]
           score == Score(R, isStake)
           owner == [i \in txs |-> R[i].owner]
<1>1. IsFiniteSet(txs)
  <2>1. txs \subseteq DOMAIN R
    BY DEF StakeTxs
  <2> QED
    BY <2>1, FS_Subset DEF Indexed
<1>2. \A i \in txs : part[i] \in Nat
  BY DEF Part, StakeTxs, Staked, Unstaked, Indexed, Transactions
<1>3. Amounts(part, txs)
  BY <1>1, <1>2 DEF Amounts
<1>4. IsFiniteSet(owners)
  <2>1. owner \in Surjection(txs, owners)
    <3> HIDE DEF txs
    <3> QED
      BY DEF Surjection
  <2> HIDE DEF owner, owners, txs
  <2> QED
    BY <1>1, <2>1, FS_Surjection
<1>5. score = [a \in owners |-> SumOver(part, {i \in txs : R[i].owner = a})]
  BY DEF Score, Part
<1>6. DOMAIN score = owners /\ \A a \in owners : score[a] = SumOver(part, group[a])
  <2> HIDE DEF part, txs, owners, score
  <2> QED
    BY <1>5
<1>7. \A a \in owners : group[a] \subseteq txs /\ Amounts(part, group[a])
  <2>1. \A a \in owners : group[a] \subseteq txs
    OBVIOUS
  <2> HIDE DEF group, txs, part, owners
  <2> QED
    BY <1>3, <2>1, SumOfPart
<1>8. \A a, b \in owners : a # b => group[a] \cap group[b] = {}
  OBVIOUS
<1>9. Members(group, owners) = txs
  <2>1. \A i \in txs : R[i].owner \in owners /\ i \in group[R[i].owner]
    <3> HIDE DEF txs
    <3> QED
      OBVIOUS
  <2> HIDE DEF txs, owners, group
  <2> QED
    BY <1>7, <2>1 DEF Members
<1> HIDE DEF part, txs, owners, score, group
<1>10. Grouped(part, owners, group, score)
  BY <1>4, <1>6, <1>7, <1>8 DEF Grouped
<1>11. SumOver(score, owners) = SumOver(part, txs)
  BY <1>9, <1>10, SumOfSums
<1> QED
  BY <1>3, <1>6, <1>11 DEF part, txs, score

\* Of which only those of the right types count.
BoardTypes(isStake) == IF isStake THEN {54, 59, 154, 159} ELSE {12, 55, 112, 155}
BoardRight(R, isStake, types) ==
    SumOver(Score(R, isStake), DOMAIN Score(R, isStake))
        = SumOver([i \in OfTypes(R, types) |-> R[i]["amount"]], OfTypes(R, types))

LEMMA BoardSums ==
    ASSUME NEW R, Indexed(R), NEW isStake \in BOOLEAN
    PROVE  BoardRight(R, isStake, BoardTypes(isStake))
<1> DEFINE txs == StakeTxs(R)
           part == Part(R, isStake)
           types == BoardTypes(isStake)
           S == OfTypes(R, types)
           value == [i \in S |-> R[i]["amount"]]
<1>1. \A t \in Nat : t \in types => t \in StakeTypes \cup {u + 100 : u \in StakeTypes}
  BY DEF StakeTypes, BoardTypes
<1>2. S \subseteq txs
  BY <1>1 DEF OfTypes, StakeTxs, Indexed, Transactions
<1>3. \A t \in StakeTypes \cup {u + 100 : u \in StakeTypes} :
          t \in types <=> (t % 100) \in (IF isStake THEN {54, 59} ELSE {55, 12})
  BY DEF StakeTypes, BoardTypes
<1>4. \A i \in txs : part[i] = IF i \in S THEN R[i]["amount"] ELSE 0
  BY <1>3 DEF Part, StakeTxs, OfTypes, Staked, Unstaked, Indexed
<1>5. \A i \in S : value[i] = R[i]["amount"]
  OBVIOUS
<1>6. Amounts(part, txs) /\ SumOver(Score(R, isStake), DOMAIN Score(R, isStake)) = SumOver(part, txs)
  BY ScoresAddUp
<1> HIDE DEF txs, part, S, value, types
<1>7. SumOver(part, S) = SumOver(part, txs) /\ Amounts(part, S)
  BY <1>2, <1>4, <1>6, SumOfPart
<1>8. SumOver(value, S) = SumOver(part, S)
  <2>1. \A i \in S : value[i] = part[i]
    BY <1>2, <1>4, <1>5
  <2> QED
    BY <1>7, <2>1, SumOfEqual
<1> QED
  BY <1>6, <1>7, <1>8 DEF S, value, types, BoardRight

LEMMA BoardsOfDays ==
    ASSUME days \in Seq(Seq(Transactions))
    PROVE  BoardsExact
<1> DEFINE R == FlattenSeq(days)
<1>1. Indexed(R)
  BY FlattenType, RowsIndexed
<1> HIDE DEF R
<1>2. /\ SumOver(Score(R, TRUE), DOMAIN Score(R, TRUE))
             = SumOver([i \in OfTypes(R, {54, 59, 154, 159}) |-> R[i]["amount"]],
                       OfTypes(R, {54, 59, 154, 159}))
      /\ SumOver(Score(R, FALSE), DOMAIN Score(R, FALSE))
             = SumOver([i \in OfTypes(R, {12, 55, 112, 155}) |-> R[i]["amount"]],
                       OfTypes(R, {12, 55, 112, 155}))
  <2>1. BoardRight(R, TRUE, BoardTypes(TRUE)) /\ BoardRight(R, FALSE, BoardTypes(FALSE))
    BY <1>1, BoardSums, Zenon
  <2> QED
    BY <2>1 DEF BoardRight, BoardTypes
<1>3. ASSUME NEW n \in 1..2, NEW type \in {57, 58}, NEW S \in TopDelegations(R, type, n)
      PROVE  TopOfBoth(S, R, type, n)
  <2>1. n \in Nat /\ type \in Nat
    OBVIOUS
  <2> QED
    BY <1>1, <2>1, DelegationsAreTop
<1> QED
  BY <1>2, <1>3 DEF BoardsExact, OfTypes, TopOfBoth, R

\* Whatever the transactions: the scores of a board add up to what was frozen and given
\* back, and a board of two types that is cut by type first is the board of both.
THEOREM BoardsAreExact == ScanSpec => []BoardsExact
<1>1. ScanTypeOK => BoardsExact
  BY BoardsOfDays DEF ScanTypeOK
<1>2. ScanTypeOK /\ [ScanNext]_scanVars => ScanTypeOK'
  BY StepScanType
<1> QED
  BY <1>1, <1>2, InitScanType, PTL DEF ScanSpec

-----------------------------------------------------------------------------
(* Stake: one row for each address, which says what it is to say           *)

\* What address x has delegated to addresses of its own exchange.
Own(x) == {p \in OutOf(x) : SameExchange(x, p[2])}

\* What the row of x is to say.
Due(x) == self[x] + DelegatedOut(x) + Acquired(x) - SumOver(v2, Own(x))

ChainOK == /\ self \in [Accounts -> Nat] /\ v1 \in [Pairs -> Nat] /\ v2 \in [Pairs -> Nat]
           /\ nameOf \in [Accounts -> NamesOfExchanges \cup {NoExchange}]

Phases == {"start", "ask", "list", "pairs", "done"}

PhaseOK ==
    /\ stakePc \in Phases
    /\ DOMAIN snapshot \subseteq Accounts
    /\ \A x \in DOMAIN snapshot : snapshot[x] \in NamesOfExchanges
    /\ todo \subseteq DOMAIN snapshot
    /\ (stakePc \in {"list", "pairs"}) => (current \in todo)
    /\ (stakePc = "start") => (DOMAIN snapshot = {})
    /\ (stakePc = "done") => (todo = {} /\ batch = <<>>)

\* The pairs asked for and those still pending are what the address has delegated within
\* its exchange; where a page of error was taken for an answer, nothing is said.
PairsOK ==
    /\ internal \in Nat
    /\ (stakePc \in {"start", "ask", "list"}) => (internal = 0)
    /\ (stakePc = "pairs" /\ "overlooked" \notin faults) =>
           /\ \A to \in pending : <<current, to>> \in Own(current)
           /\ internal + SumOver(v2, {<<current, to>> : to \in pending}) = SumOver(v2, Own(current))

StakeRow == [address : Accounts, name : NamesOfExchanges, total : Int]

\* What rows say of the addresses asked for, if no more than this has gone wrong: one row
\* for each address at most, which says what it is to say, or less.
RowsRight(rows, asked, wrong) ==
    /\ \A i \in DOMAIN rows :
          /\ rows[i].address \in asked
          /\ rows[i].name = snapshot[rows[i].address]
          /\ ("overlooked" \notin wrong) => /\ rows[i].total \in Nat
                                           /\ rows[i].total <= Due(rows[i].address)
    /\ \A i, j \in DOMAIN rows : (rows[i].address = rows[j].address) => (i = j)
    /\ (wrong = {}) => \A x \in asked : \E i \in DOMAIN rows : /\ rows[i].address = x
                                                              /\ rows[i].total = Due(x)

RowsOK == /\ stakeRows \in Seq(StakeRow) /\ batch \in Seq(StakeRow)
          /\ RowsRight(stakeRows \o batch, DOMAIN snapshot \ todo, faults)

StakeInv == ChainOK /\ PhaseOK /\ PairsOK /\ RowsOK

\* There are finitely many pairs of addresses.
LEMMA PairsFinite == IsFiniteSet(Pairs)
BY StakeAssumption, FS_Product DEF Pairs

\* What is delegated along any set of pairs are amounts that can be summed.
LEMMA ChainAmounts ==
  ASSUME ChainOK, NEW S \in SUBSET Pairs
  PROVE  Amounts(v1, S) /\ Amounts(v2, S)
BY PairsFinite, FS_Subset DEF ChainOK, Amounts

\* What an address is to report is no negative amount.
LEMMA DueType ==
  ASSUME ChainOK, NEW x \in Accounts
  PROVE  /\ self[x] \in Nat /\ DelegatedOut(x) \in Nat /\ Acquired(x) \in Nat
         /\ SumOver(v2, Own(x)) \in Nat
         /\ SumOver(v2, Own(x)) <= DelegatedOut(x)
<1>1. OutOf(x) \in SUBSET Pairs /\ Into(x) \in SUBSET Pairs /\ Own(x) \in SUBSET Pairs
  BY DEF OutOf, Into, Own
<1>2. /\ SumOver(v1, OutOf(x)) \in Nat /\ SumOver(v2, OutOf(x)) \in Nat
      /\ SumOver(v1, Into(x)) \in Nat /\ SumOver(v2, Into(x)) \in Nat
      /\ SumOver(v2, Own(x)) \in Nat
  BY <1>1, ChainAmounts, SumType
<1>3. SumOver(v2, Own(x)) <= SumOver(v2, OutOf(x))
  <2>1. Own(x) \subseteq OutOf(x)
    BY DEF Own
  <2> QED
    BY <1>1, <2>1, ChainAmounts, SumOfPart
<1> QED
  BY <1>2, <1>3 DEF ChainOK, DelegatedOut, Acquired

\* What a row is to say does not depend on what is learnt meanwhile.
LEMMA DueStays ==
  ASSUME UNCHANGED <<chain, snapshot>>
  PROVE  \A x : Due(x)' = Due(x) /\ Own(x)' = Own(x)
BY DEF chain, Due, Own, DelegatedOut, Acquired, OutOf, Into, SameExchange

\* One more row, about an address that was not asked for before.
LEMMA RowsWith ==
  ASSUME NEW rows \in Seq(StakeRow), NEW asked, NEW wrong, RowsRight(rows, asked, wrong),
         NEW x, x \notin asked, NEW total, NEW sofar, wrong \subseteq sofar,
         ("overlooked" \notin sofar) => (total \in Nat /\ total <= Due(x)),
         (sofar = {}) => (total = Due(x))
  PROVE  RowsRight(Append(rows, [address |-> x, name |-> snapshot[x], total |-> total]),
                   asked \cup {x}, sofar)
<1> DEFINE r == [address |-> x, name |-> snapshot[x], total |-> total]
           more == Append(rows, r)
           n == Len(rows)
<1>1. /\ n \in Nat /\ DOMAIN rows = 1..n /\ DOMAIN more = 1..(n + 1)
      /\ more[n + 1] = r
      /\ \A i \in 1..n : more[i] = rows[i]
  OBVIOUS
<1>2. \A i \in 1..(n + 1) : (i \in 1..n) \/ (i = n + 1)
  BY <1>1
<1> HIDE DEF more, n
<1>3. ASSUME NEW i \in DOMAIN more
      PROVE  /\ more[i].address \in asked \cup {x}
             /\ more[i].name = snapshot[more[i].address]
             /\ ("overlooked" \notin sofar) => /\ more[i].total \in Nat
                                              /\ more[i].total <= Due(more[i].address)
  <2>1. CASE i \in 1..n
    BY <1>1, <2>1 DEF RowsRight
  <2>2. CASE i = n + 1
    BY <1>1, <2>2
  <2> QED
    BY <1>1, <1>2, <2>1, <2>2
<1>4. ASSUME NEW i \in DOMAIN more, NEW j \in DOMAIN more, more[i].address = more[j].address
      PROVE  i = j
  <2>1. \A k \in 1..n : more[k].address \in asked
    BY <1>1 DEF RowsRight
  <2>2. more[n + 1].address = x
    BY <1>1
  <2>3. CASE i \in 1..n /\ j \in 1..n
    BY <1>1, <1>4, <2>3 DEF RowsRight
  <2> QED
    BY <1>1, <1>2, <1>4, <2>1, <2>2, <2>3
<1>5. ASSUME sofar = {}, NEW y \in asked \cup {x}
      PROVE  \E i \in DOMAIN more : more[i].address = y /\ more[i].total = Due(y)
  <2>1. CASE y = x
    BY <1>1, <1>5, <2>1
  <2>2. CASE y \in asked
    <3>1. PICK i \in DOMAIN rows : rows[i].address = y /\ rows[i].total = Due(y)
      BY <1>5, <2>2 DEF RowsRight
    <3>2. i \in DOMAIN more /\ more[i] = rows[i]
      BY <1>1
    <3> QED
      BY <3>1, <3>2
  <2> QED
    BY <1>5, <2>1, <2>2
<1>6. RowsRight(more, asked \cup {x}, sofar)
  BY <1>3, <1>4, <1>5 DEF RowsRight
<1> QED
  BY <1>6 DEF more

\* Rows that are lost, or never made, once something has gone wrong.
LEMMA RowsWithout ==
  ASSUME NEW rows, NEW asked, NEW wrong, RowsRight(rows, asked, wrong),
         NEW less, DOMAIN less \subseteq DOMAIN rows, \A i \in DOMAIN less : less[i] = rows[i],
         NEW more, asked \subseteq more, NEW sofar, wrong \subseteq sofar, sofar # {}
  PROVE  RowsRight(less, more, sofar)
BY DEF RowsRight

\* A row is added, or the batch lost with it.
LEMMA AddRowKeeps ==
  ASSUME RowsOK, PhaseOK, NEW x \in todo, UNCHANGED <<chain, snapshot>>, todo' = todo \ {x},
         NEW total \in Int, NEW sofar, faults \subseteq sofar, AddRow(x, total, sofar),
         ("overlooked" \notin sofar) => (total \in Nat /\ total <= Due(x)),
         (sofar = {}) => (total = Due(x))
  PROVE  RowsOK'
<1> DEFINE r == [address |-> x, name |-> snapshot[x], total |-> total]
           rows == stakeRows \o batch
           asked == DOMAIN snapshot \ todo
           rows1 == stakeRows' \o batch'
           asked1 == DOMAIN snapshot' \ todo'
           wrong1 == faults'
<1>1. x \in Accounts /\ snapshot[x] \in NamesOfExchanges /\ asked1 = asked \cup {x} /\ x \notin asked
  BY DEF PhaseOK
<1>2. r \in StakeRow
  BY <1>1 DEF StakeRow
<1>3. stakeRows \in Seq(StakeRow) /\ batch \in Seq(StakeRow) /\ rows \in Seq(StakeRow)
  BY DEF RowsOK
<1>4. RowsRight(rows, asked, faults)
  BY DEF RowsOK
<1>5. RowsRight(Append(rows, r), asked1, sofar)
  <2> HIDE DEF rows, asked, asked1
  <2> QED
    BY <1>1, <1>3, <1>4, RowsWith
<1>6. /\ Append(batch, r) \in Seq(StakeRow)
      /\ stakeRows \o Append(batch, r) = Append(rows, r)
      /\ Append(rows, r) \o <<>> = Append(rows, r)
      /\ Append(rows, r) \in Seq(StakeRow)
  <2> HIDE DEF r
  <2> QED
    BY <1>2, <1>3
<1>7. \/ /\ rows1 = Append(rows, r) /\ wrong1 = sofar
         /\ stakeRows' \in Seq(StakeRow) /\ batch' \in Seq(StakeRow)
      \/ /\ rows1 = stakeRows /\ wrong1 = sofar \cup {"missing"}
         /\ stakeRows' \in Seq(StakeRow) /\ batch' \in Seq(StakeRow)
  <2> DEFINE ar == Append(batch, r)
  <2>1. stakeRows \o <<>> = stakeRows /\ <<>> \in Seq(StakeRow)
    BY <1>3
  <2>2. \/ batch' = <<>> /\ stakeRows' = stakeRows \o ar /\ faults' = sofar
        \/ batch' = <<>> /\ stakeRows' = stakeRows /\ faults' = sofar \cup {"missing"}
        \/ batch' = ar /\ stakeRows' = stakeRows /\ faults' = sofar
    BY DEF AddRow, Written
  <2> HIDE DEF ar, r
  <2> QED
    BY <1>3, <1>6, <2>1, <2>2 DEF ar
<1>8. RowsRight(stakeRows, asked1, sofar \cup {"missing"})
  <2>1. DOMAIN stakeRows \subseteq DOMAIN rows /\ \A i \in DOMAIN stakeRows : stakeRows[i] = rows[i]
    BY <1>3
  <2> HIDE DEF rows, asked, asked1
  <2> QED
    BY <1>1, <1>4, <2>1, RowsWithout
<1>9. RowsRight(rows1, asked1, wrong1)
  <2> HIDE DEF rows1, rows, r, asked1, wrong1
  <2> QED
    BY <1>5, <1>7, <1>8
<1>10. \A y : Due(y)' = Due(y)
  BY DueStays
<1>11. RowsRight(stakeRows \o batch, DOMAIN snapshot \ todo, faults)'
  BY <1>9, <1>10 DEF RowsRight
<1> QED
  BY <1>7, <1>11 DEF RowsOK

\* No row is added for an address, because something went wrong.
LEMMA NoRowKeeps ==
  ASSUME RowsOK, PhaseOK, NEW x \in todo, UNCHANGED <<chain, snapshot, batch, stakeRows>>,
         todo' = todo \ {x}, faults' = faults \cup {"missing"}
  PROVE  RowsOK'
<1> DEFINE rows == stakeRows \o batch
           asked == DOMAIN snapshot \ todo
           asked1 == DOMAIN snapshot' \ todo'
           wrong1 == faults'
<1>1. RowsRight(rows, asked, faults) /\ asked \subseteq asked1
  BY DEF RowsOK
<1>2. RowsRight(rows, asked1, wrong1)
  <2>1. faults \subseteq wrong1 /\ wrong1 # {}
    OBVIOUS
  <2> HIDE DEF rows, asked, asked1, wrong1
  <2> QED
    BY <1>1, <2>1, RowsWithout
<1>3. \A y : Due(y)' = Due(y)
  BY DueStays
<1>4. RowsRight(stakeRows \o batch, DOMAIN snapshot \ todo, faults)'
  BY <1>2, <1>3 DEF RowsRight
<1> QED
  BY <1>4 DEF RowsOK

\* At the beginning nothing is asked for and no row made.
LEMMA InitStake == StakeInit => StakeInv
<1> SUFFICES ASSUME StakeInit PROVE StakeInv
  OBVIOUS
<1>1. ChainOK
  BY StakeAssumption DEF StakeInit, ChainOK, Pairs
<1>2. snapshot = Restrict(nameOf, {}) /\ batch = <<>> /\ stakeRows = <<>> /\ todo = {} /\ faults = {}
      /\ stakePc = "start" /\ internal = 0
  BY DEF StakeInit
<1>3. DOMAIN snapshot = {}
  BY <1>2 DEF Restrict
<1>4. PhaseOK
  BY <1>2, <1>3 DEF PhaseOK, Phases
<1>5. PairsOK
  BY <1>2 DEF PairsOK
<1>6. RowsOK
  <2>1. stakeRows \in Seq(StakeRow) /\ batch \in Seq(StakeRow) /\ stakeRows \o batch = <<>>
    BY <1>2
  <2>2. RowsRight(<<>>, DOMAIN snapshot \ todo, faults)
    BY <1>2, <1>3 DEF RowsRight
  <2> QED
    BY <2>1, <2>2 DEF RowsOK
<1> QED
  BY <1>1, <1>4, <1>5, <1>6 DEF StakeInv

\* The chain stays what it is, and names stay names of exchanges.
LEMMA StepChain ==
  ASSUME ChainOK, [StakeNext]_stakeVars
  PROVE  ChainOK'
<1>1. UNCHANGED chain
  BY DEF StakeNext, Snapshot, DelegatedTo, DelegatedToIsErrorPage, PairFails, RowOfPairs, LastBatch,
         Rename, Frozen, FrozenFails, FrozenIsErrorPage, PairAmount, stakeVars
<1>2. \/ UNCHANGED nameOf
      \/ \E x \in Accounts, e \in NamesOfExchanges : nameOf' = [nameOf EXCEPT ![x] = e]
  BY DEF StakeNext, Snapshot, DelegatedTo, DelegatedToIsErrorPage, PairFails, RowOfPairs, LastBatch,
         Rename, Frozen, FrozenFails, FrozenIsErrorPage, PairAmount, stakeVars
<1>3. nameOf' \in [Accounts -> NamesOfExchanges \cup {NoExchange}]
  BY <1>2 DEF ChainOK
<1> QED
  BY <1>1, <1>3 DEF ChainOK, chain

\* Every step leaves the scan in a phase, with addresses still to be asked for.
LEMMA StepPhase ==
  ASSUME ChainOK, PhaseOK, [StakeNext]_stakeVars
  PROVE  PhaseOK'
<1> USE DEF PhaseOK, Phases
<1>1. CASE Snapshot
  <2>1. DOMAIN snapshot' = {x \in Accounts : nameOf[x] # NoExchange}
        /\ \A x \in DOMAIN snapshot' : snapshot'[x] = nameOf[x]
    BY <1>1 DEF Snapshot, Restrict
  <2>2. DOMAIN snapshot' \subseteq Accounts /\ \A x \in DOMAIN snapshot' : snapshot'[x] \in NamesOfExchanges
    BY <2>1 DEF ChainOK
  <2> QED
    BY <1>1, <2>2 DEF Snapshot
<1>2. CASE DelegatedTo
  BY <1>2 DEF DelegatedTo
<1>3. CASE DelegatedToIsErrorPage
  BY <1>3 DEF DelegatedToIsErrorPage
<1>4. CASE PairFails
  BY <1>4 DEF PairFails, Done
<1>5. CASE RowOfPairs
  BY <1>5 DEF RowOfPairs, Done
<1>6. CASE LastBatch
  BY <1>6 DEF LastBatch, Written
<1>7. CASE Rename
  BY <1>7 DEF Rename
<1>8. ASSUME NEW x \in Accounts, Frozen(x) PROVE PhaseOK'
  BY <1>8 DEF Frozen, Done
<1>9. ASSUME NEW x \in Accounts, FrozenFails(x) PROVE PhaseOK'
  BY <1>9 DEF FrozenFails, Done
<1>10. ASSUME NEW x \in Accounts, FrozenIsErrorPage(x) PROVE PhaseOK'
  BY <1>10 DEF FrozenIsErrorPage, Done
<1>11. ASSUME NEW x \in Accounts, PairAmount(x) PROVE PhaseOK'
  BY <1>11 DEF PairAmount
<1>12. CASE UNCHANGED stakeVars
  BY <1>12 DEF stakeVars
<1> QED
  BY <1>1, <1>2, <1>3, <1>4, <1>5, <1>6, <1>7, <1>8, <1>9, <1>10, <1>11, <1>12 DEF StakeNext

\* What was asked for of an address and what is still pending add up.
LEMMA StepPairs ==
  ASSUME ChainOK, PhaseOK, PairsOK, [StakeNext]_stakeVars
  PROVE  PairsOK'
<1>1. CASE stakePc' \in {"start", "ask", "list"} /\ internal' = 0
  BY <1>1 DEF PairsOK
<1>2. CASE stakePc' = "done" /\ internal' = internal
  BY <1>2 DEF PairsOK
<1>3. CASE DelegatedTo
  <2>1. stakePc = "list" /\ stakePc' = "pairs" /\ internal' = internal /\ current' = current
        /\ faults' = faults /\ v2' = v2 /\ current \in Accounts /\ UNCHANGED <<chain, snapshot>>
        /\ pending' = {to \in Accounts : v2[<<current, to>>] > 0 /\ SameExchange(current, to)}
    BY <1>3 DEF DelegatedTo, PhaseOK, chain
  <2> DEFINE asked == {<<current, to>> : to \in pending'}
             own == Own(current)
  <2>2. /\ own \in SUBSET Pairs
        /\ \A p \in own : p = <<current, p[2]>> /\ p[2] \in Accounts /\ SameExchange(current, p[2])
        /\ \A to \in pending' : <<current, to>> \in own
    BY <2>1 DEF Own, OutOf, Pairs
  <2>3. asked \subseteq own
    BY <2>2
  <2>4. \A p \in own \ asked : v2[p] = 0
    <3> SUFFICES ASSUME NEW p \in own, v2[p] # 0 PROVE p \in asked
      OBVIOUS
    <3>1. v2[p] \in Nat
      BY <2>2 DEF ChainOK
    <3>2. p[2] \in pending'
      BY <2>1, <2>2, <3>1
    <3> QED
      BY <2>2, <3>2
  <2>5. SumOver(v2, asked) = SumOver(v2, own)
    <3>1. Amounts(v2, own)
      BY <2>2, ChainAmounts
    <3> HIDE DEF asked, own
    <3> QED
      BY <2>3, <2>4, <3>1, SumOfPart
  <2>6. SumOver(v2, own) \in Nat
    BY <2>1, DueType
  <2>7. internal' = 0
    BY <2>1 DEF PairsOK
  <2>8. Own(current)' = own
    BY <2>1, DueStays
  <2> DEFINE sum == SumOver(v2, asked)
  <2>9. internal' + sum = SumOver(v2, own)
    BY <2>5, <2>6, <2>7
  <2> QED
    BY <2>1, <2>2, <2>7, <2>8, <2>9 DEF PairsOK
<1>4. CASE DelegatedToIsErrorPage
  BY <1>4 DEF DelegatedToIsErrorPage, PairsOK
<1>5. ASSUME NEW x \in Accounts, PairAmount(x)
      PROVE  PairsOK'
  <2>1. stakePc = "pairs" /\ stakePc' = "pairs" /\ x \in pending /\ pending' = pending \ {x}
        /\ UNCHANGED <<chain, snapshot>> /\ current' = current /\ v2' = v2 /\ current \in Accounts
    BY <1>5 DEF PairAmount, PhaseOK, chain
  <2>2. CASE faults' = faults \cup {"overlooked"} /\ internal' = internal
    BY <2>1, <2>2 DEF PairsOK
  <2>3. CASE internal' = internal + v2[<<current, x>>] /\ faults' = faults /\ "overlooked" \notin faults
    <3> DEFINE asked == {<<current, to>> : to \in pending}
               left == {<<current, to>> : to \in pending'}
               p == <<current, x>>
    <3>1. /\ internal \in Nat /\ \A to \in pending : <<current, to>> \in Own(current)
          /\ internal + SumOver(v2, asked) = SumOver(v2, Own(current))
      BY <2>1, <2>3 DEF PairsOK
    <3>2. asked = left \cup {p} /\ p \notin left
      BY <2>1
    <3>3. asked \in SUBSET Pairs /\ left \in SUBSET Pairs /\ v2[p] \in Nat
      BY <2>1, <3>1 DEF Own, OutOf, ChainOK
    <3>4. Amounts(v2, left)
      BY <3>3, ChainAmounts
    <3>5. SumOver(v2, asked) = SumOver(v2, left) + v2[p] /\ SumOver(v2, left) \in Nat
      <4> HIDE DEF asked, left, p
      <4> QED
        BY <3>2, <3>3, <3>4, SumWith, SumType
    <3>6. Own(current)' = Own(current)
      BY <2>1, DueStays
    <3>7. internal' \in Nat /\ internal' + SumOver(v2, left) = SumOver(v2, Own(current))
      <4> HIDE DEF asked, left
      <4> QED
        BY <2>3, <3>1, <3>3, <3>5
    <3> QED
      BY <2>1, <2>3, <3>1, <3>6, <3>7 DEF PairsOK
  <2>4. CASE internal' = internal + v2[<<current, x>>] /\ faults' = faults /\ "overlooked" \in faults
    <3>1. v2[<<current, x>>] \in Nat
      BY <2>1 DEF ChainOK, Pairs
    <3>2. internal' \in Nat
      BY <2>4, <3>1 DEF PairsOK
    <3> QED
      BY <2>1, <2>4, <3>2 DEF PairsOK
  <2> QED
    BY <1>5, <2>2, <2>3, <2>4 DEF PairAmount
<1>6. CASE UNCHANGED <<chain, snapshot, stakePc, current, pending, internal, faults>>
  <2>1. Own(current)' = Own(current) /\ v2' = v2
    BY <1>6, DueStays DEF chain
  <2> QED
    BY <1>6, <2>1 DEF PairsOK
<1>7. ASSUME NEW x \in Accounts, Frozen(x), DelegatedOut(x) > 0 PROVE PairsOK'
  BY <1>7 DEF Frozen, PairsOK
<1>8. CASE Snapshot
  BY <1>8 DEF Snapshot, PairsOK
<1>9. \/ stakePc' \in {"start", "ask", "list"} /\ internal' = 0
      \/ stakePc' = "done" /\ internal' = internal
      \/ DelegatedTo \/ DelegatedToIsErrorPage \/ Snapshot
      \/ \E x \in Accounts : PairAmount(x)
      \/ UNCHANGED <<chain, snapshot, stakePc, current, pending, internal, faults>>
      \/ \E x \in Accounts : Frozen(x) /\ DelegatedOut(x) > 0
  BY DEF StakeNext, PairFails, RowOfPairs, LastBatch, Rename, Frozen, FrozenFails, FrozenIsErrorPage,
         Done, stakeVars
<1> QED
  BY <1>1, <1>2, <1>3, <1>4, <1>5, <1>6, <1>7, <1>8, <1>9

\* Rows stay right: every address has at most one, which says what it is to say or less.
LEMMA StepRows ==
  ASSUME StakeInv, [StakeNext]_stakeVars
  PROVE  RowsOK'
<1> USE DEF StakeInv
<1>1. CASE Snapshot
  <2>1. DOMAIN snapshot = {} /\ UNCHANGED <<batch, stakeRows, faults>> /\ DOMAIN snapshot' \ todo' = {}
    BY <1>1 DEF Snapshot, PhaseOK
  <2> DEFINE rows == stakeRows \o batch
  <2>2. DOMAIN rows = {}
    <3>1. \A i \in DOMAIN rows : rows[i].address \in DOMAIN snapshot
      BY DEF RowsOK, RowsRight
    <3> HIDE DEF rows
    <3> QED
      BY <2>1, <3>1
  <2>3. RowsRight(stakeRows \o batch, DOMAIN snapshot \ todo, faults)'
    <3> HIDE DEF rows
    <3>1. rows' = rows
      BY <2>1 DEF rows
    <3>2. RowsRight(rows, DOMAIN snapshot \ todo, faults)'
      BY <2>1, <2>2, <3>1 DEF RowsRight
    <3> QED
      BY <3>2 DEF rows
  <2> QED
    BY <2>1, <2>3 DEF RowsOK
<1>2. CASE UNCHANGED <<chain, snapshot, todo, batch, stakeRows>> /\ faults \subseteq faults'
  <2> DEFINE rows == stakeRows \o batch
             asked == DOMAIN snapshot \ todo
  <2>1. RowsRight(rows, asked, faults)
    BY DEF RowsOK
  <2>2. RowsRight(rows, asked, faults')
    <3> HIDE DEF rows, asked
    <3> QED
      BY <1>2, <2>1 DEF RowsRight
  <2>3. \A y : Due(y)' = Due(y)
    BY <1>2, DueStays
  <2>4. RowsRight(stakeRows \o batch, DOMAIN snapshot \ todo, faults)'
    <3>1. rows' = rows /\ asked' = asked
      BY <1>2
    <3> HIDE DEF rows, asked
    <3>2. RowsRight(rows, asked, faults)'
      BY <1>2, <2>2, <2>3, <3>1 DEF RowsRight
    <3> QED
      BY <3>2 DEF rows, asked
  <2> QED
    BY <1>2, <2>4 DEF RowsOK
<1>3. CASE PairFails
  <2>1. /\ current \in todo /\ todo' = todo \ {current} /\ faults' = faults \cup {"missing"}
        /\ UNCHANGED <<chain, snapshot, batch, stakeRows>>
    BY <1>3 DEF PairFails, Done, PhaseOK
  <2> QED
    BY <2>1, NoRowKeeps
<1>4. CASE RowOfPairs
  <2> DEFINE x == current
             total == self[x] + DelegatedOut(x) + Acquired(x) - internal
  <2>1. /\ x \in todo /\ x \in Accounts /\ todo' = todo \ {x} /\ UNCHANGED <<chain, snapshot>>
        /\ AddRow(x, total, faults) /\ stakePc = "pairs" /\ pending = {}
    BY <1>4 DEF RowOfPairs, Done, PhaseOK
  <2>2. "overlooked" \notin faults => (total \in Nat /\ total = Due(x))
    <3> SUFFICES ASSUME "overlooked" \notin faults PROVE total \in Nat /\ total = Due(x)
      OBVIOUS
    <3>1. internal \in Nat /\ internal + SumOver(v2, {<<x, to>> : to \in pending}) = SumOver(v2, Own(x))
      BY <2>1 DEF PairsOK
    <3>2. {<<x, to>> : to \in pending} = {}
      BY <2>1
    <3>3. internal = SumOver(v2, Own(x))
      BY <3>1, <3>2, SumOfNone
    <3> QED
      BY <2>1, <3>3, DueType DEF Due
  <2>3. total \in Int
    <3>1. self[x] \in Nat /\ DelegatedOut(x) \in Nat /\ Acquired(x) \in Nat
      BY <2>1, DueType
    <3>2. internal \in Int
      BY DEF PairsOK
    <3> QED
      BY <3>1, <3>2
  <2> HIDE DEF x, total
  <2> QED
    BY <2>1, <2>2, <2>3, AddRowKeeps
<1>5. CASE LastBatch
  <2>1. UNCHANGED <<chain, snapshot, todo>>
    BY <1>5 DEF LastBatch
  <2>2. CASE UNCHANGED <<batch, stakeRows, faults>>
    BY <1>2, <2>1, <2>2
  <2>3. CASE batch' = <<>> /\ stakeRows' = stakeRows \o batch /\ faults' = faults
    <3> DEFINE rows == stakeRows \o batch
               asked == DOMAIN snapshot \ todo
    <3>1. stakeRows \in Seq(StakeRow) /\ batch \in Seq(StakeRow)
      BY DEF RowsOK
    <3>2. stakeRows' \in Seq(StakeRow) /\ batch' \in Seq(StakeRow) /\ stakeRows' \o batch' = rows
      BY <2>3, <3>1
    <3>3. RowsRight(rows, asked, faults)
      BY DEF RowsOK
    <3>4. \A y : Due(y)' = Due(y)
      BY <2>1, DueStays
    <3>5. RowsRight(stakeRows \o batch, asked, faults)'
      BY <2>1, <2>3, <3>2, <3>3, <3>4, SMTT(30) DEF RowsRight
    <3> QED
      BY <3>2, <3>5 DEF RowsOK
  <2>4. CASE batch' = <<>> /\ stakeRows' = stakeRows /\ faults' = faults \cup {"missing"}
    <3> DEFINE rows == stakeRows \o batch
               asked == DOMAIN snapshot \ todo
               wrong == faults'
    <3>1. stakeRows \in Seq(StakeRow) /\ batch \in Seq(StakeRow)
      BY DEF RowsOK
    <3>2. stakeRows' \in Seq(StakeRow) /\ batch' \in Seq(StakeRow) /\ stakeRows' \o batch' = stakeRows
      BY <2>4, <3>1
    <3>3. RowsRight(rows, asked, faults)
      BY DEF RowsOK
    <3>4. DOMAIN stakeRows \subseteq DOMAIN rows /\ \A i \in DOMAIN stakeRows : stakeRows[i] = rows[i]
      BY <3>1
    <3>5. RowsRight(stakeRows, asked, wrong)
      <4>1. faults \subseteq wrong /\ wrong # {}
        BY <2>4
      <4> HIDE DEF rows, asked, wrong
      <4> QED
        BY <3>3, <3>4, <4>1, RowsWithout
    <3>6. \A y : Due(y)' = Due(y)
      BY <2>1, DueStays
    <3>7. RowsRight(stakeRows \o batch, asked, faults)'
      BY <2>1, <3>2, <3>5, <3>6 DEF RowsRight
    <3> QED
      BY <3>2, <3>7 DEF RowsOK
  <2> QED
    BY <1>5, <2>2, <2>3, <2>4 DEF LastBatch, Written
<1>6. ASSUME NEW x \in Accounts, Frozen(x)
      PROVE  RowsOK'
  <2>1. x \in todo /\ UNCHANGED <<chain, snapshot>>
    BY <1>6 DEF Frozen
  <2>2. CASE DelegatedOut(x) > 0
    BY <1>2, <1>6, <2>2 DEF Frozen
  <2>3. CASE ~(DelegatedOut(x) > 0)
    <3> DEFINE total == self[x] + Acquired(x)
    <3>1. todo' = todo \ {x} /\ AddRow(x, total, faults)
      BY <1>6, <2>3 DEF Frozen, Done
    <3>2. total \in Nat /\ total = Due(x)
      BY <2>3, DueType DEF Due
    <3> HIDE DEF total
    <3> QED
      BY <2>1, <3>1, <3>2, AddRowKeeps
  <2> QED
    BY <2>2, <2>3
<1>7. ASSUME NEW x \in Accounts, FrozenFails(x)
      PROVE  RowsOK'
  <2>1. /\ x \in todo /\ todo' = todo \ {x} /\ faults' = faults \cup {"missing"}
        /\ UNCHANGED <<chain, snapshot, batch, stakeRows>>
    BY <1>7 DEF FrozenFails, Done
  <2> QED
    BY <2>1, NoRowKeeps
<1>8. ASSUME NEW x \in Accounts, FrozenIsErrorPage(x)
      PROVE  RowsOK'
  <2> DEFINE sofar == faults \cup {"missing"}
  <2>1. x \in todo /\ UNCHANGED <<chain, snapshot>> /\ todo' = todo \ {x} /\ AddRow(x, 0, sofar)
    BY <1>8 DEF FrozenIsErrorPage, Done
  <2>2. 0 <= Due(x) /\ faults \subseteq sofar /\ sofar # {}
    BY DueType DEF Due
  <2> HIDE DEF sofar
  <2> QED
    BY <2>1, <2>2, AddRowKeeps
<1>9. \/ UNCHANGED <<chain, snapshot, todo, batch, stakeRows>> /\ faults \subseteq faults'
      \/ Snapshot \/ PairFails \/ RowOfPairs \/ LastBatch
      \/ \E x \in Accounts : Frozen(x) \/ FrozenFails(x) \/ FrozenIsErrorPage(x)
  BY DEF StakeNext, DelegatedTo, DelegatedToIsErrorPage, Rename, PairAmount, stakeVars
<1> QED
  BY <1>1, <1>2, <1>3, <1>4, <1>5, <1>6, <1>7, <1>8, <1>9

\* The invariant of the scan of stakes, for any accounts, exchanges and amounts, whatever
\* calls fail and whatever is renamed meanwhile.
THEOREM StakeInvariant == StakeSpec => []StakeInv
<1>1. StakeInv /\ [StakeNext]_stakeVars => StakeInv'
  BY StepChain, StepPhase, StepPairs, StepRows DEF StakeInv
<1> QED
  BY <1>1, InitStake, PTL DEF StakeSpec

\* Pairs that begin, and pairs that end, in a set of addresses: those that do both are
\* counted twice.
LEMMA BothEnds ==
  ASSUME NEW weight, Amounts(weight, Pairs), NEW e
  PROVE  LET out == {p \in Pairs : p[1] \in AddressesOf(e)}
             into == {p \in Pairs : p[2] \in AddressesOf(e)}
         IN  /\ SumOver(weight, Touching(e)) \in Nat /\ SumOver(weight, Inside(e)) \in Nat
             /\ SumOver(weight, out) + SumOver(weight, into)
                    = SumOver(weight, Touching(e)) + SumOver(weight, Inside(e))
<1> DEFINE out == {p \in Pairs : p[1] \in AddressesOf(e)}
           into == {p \in Pairs : p[2] \in AddressesOf(e)}
           in == Inside(e)
           rest == into \ in
<1>1. /\ in \subseteq into /\ into = in \cup rest /\ in \cap rest = {}
      /\ Touching(e) = out \cup rest /\ out \cap rest = {}
  BY DEF Touching, Inside
<1>2. \A S : S \subseteq Pairs => Amounts(weight, S) /\ SumOver(weight, S) \in Nat
  BY SumOfPart, SumType
<1>3. out \subseteq Pairs /\ rest \subseteq Pairs /\ in \subseteq Pairs
  BY DEF Inside
<1> DEFINE sOut == SumOver(weight, out)
           sRest == SumOver(weight, rest)
           sIn == SumOver(weight, in)
<1> HIDE DEF out, into, in, rest
<1>4. SumOver(weight, into) = sIn + sRest /\ SumOver(weight, Touching(e)) = sOut + sRest
  BY <1>1, <1>2, <1>3, SumOfUnion
<1>5. sOut \in Nat /\ sRest \in Nat /\ sIn \in Nat
  BY <1>2, <1>3
<1> HIDE DEF sOut, sRest, sIn
<1>6. sOut + (sIn + sRest) = (sOut + sRest) + sIn /\ sOut + sRest \in Nat
  BY <1>5
<1> QED
  BY <1>4, <1>5, <1>6 DEF out, into, in, sOut, sIn

\* The rows of an exchange are to say, all together, what it has staked once.
LEMMA DueOfExchange ==
  ASSUME ChainOK, PhaseOK, NEW e
  PROVE  LET due == [x \in Accounts |-> Due(x)]
         IN  /\ Amounts(due, AddressesOf(e))
             /\ SumOver(due, AddressesOf(e)) = StakedOnce(e) + SumOver(v1, Inside(e))
<1> DEFINE A == AddressesOf(e)
           due == [x \in Accounts |-> Due(x)]
           out1 == [x \in Accounts |-> SumOver(v1, OutOf(x))]
           out2 == [x \in Accounts |-> SumOver(v2, OutOf(x))]
           into1 == [x \in Accounts |-> SumOver(v1, Into(x))]
           into2 == [x \in Accounts |-> SumOver(v2, Into(x))]
           own == [x \in Accounts |-> SumOver(v2, Own(x))]
           first == [x \in Accounts |-> out1[x] + into1[x]]
           second == [x \in Accounts |-> out2[x] + into2[x]]
           delegated == [x \in Accounts |-> first[x] + second[x]]
           all == [x \in Accounts |-> self[x] + delegated[x]]
           out == {p \in Pairs : p[1] \in A}
           into == {p \in Pairs : p[2] \in A}
<1>1. A \subseteq Accounts /\ IsFiniteSet(A)
  BY StakeAssumption, FS_Subset DEF AddressesOf, PhaseOK
<1>2. \A x \in A : /\ OutOf(x) \in SUBSET Pairs /\ Into(x) \in SUBSET Pairs /\ Own(x) \in SUBSET Pairs
  BY DEF OutOf, Into, Own
<1>3. \A S \in SUBSET Pairs : /\ Amounts(v1, S) /\ SumOver(v1, S) \in Nat
                              /\ Amounts(v2, S) /\ SumOver(v2, S) \in Nat
  BY ChainAmounts, SumType
<1>4. /\ Amounts(out1, A) /\ SumOver(out1, A) = SumOver(v1, out)
      /\ Amounts(out2, A) /\ SumOver(out2, A) = SumOver(v2, out)
  <2> DEFINE group == [x \in A |-> OutOf(x)]
             u == Members(group, A)
  <2>1. u = out
    BY <1>1 DEF OutOf, Pairs, Members
  <2>2. \A x, y \in A : x # y => group[x] \cap group[y] = {}
    BY DEF OutOf
  <2>3. \A x \in A : /\ Amounts(v1, group[x]) /\ out1[x] = SumOver(v1, group[x])
                     /\ Amounts(v2, group[x]) /\ out2[x] = SumOver(v2, group[x])
    BY <1>1, <1>2, <1>3
  <2> HIDE DEF out1, out2, group, out, A
  <2>4. Grouped(v1, A, group, out1) /\ Grouped(v2, A, group, out2)
    BY <1>1, <2>2, <2>3 DEF Grouped
  <2>5. /\ Amounts(out1, A) /\ SumOver(out1, A) = SumOver(v1, u)
        /\ Amounts(out2, A) /\ SumOver(out2, A) = SumOver(v2, u)
    BY <2>4, SumOfSums
  <2> HIDE DEF u
  <2> QED
    BY <2>1, <2>5
<1>5. /\ Amounts(into1, A) /\ SumOver(into1, A) = SumOver(v1, into)
      /\ Amounts(into2, A) /\ SumOver(into2, A) = SumOver(v2, into)
  <2> DEFINE group == [x \in A |-> Into(x)]
             u == Members(group, A)
  <2>1. u = into
    BY <1>1 DEF Into, Pairs, Members
  <2>2. \A x, y \in A : x # y => group[x] \cap group[y] = {}
    BY DEF Into
  <2>3. \A x \in A : /\ Amounts(v1, group[x]) /\ into1[x] = SumOver(v1, group[x])
                     /\ Amounts(v2, group[x]) /\ into2[x] = SumOver(v2, group[x])
    BY <1>1, <1>2, <1>3
  <2> HIDE DEF into1, into2, group, into, A
  <2>4. Grouped(v1, A, group, into1) /\ Grouped(v2, A, group, into2)
    BY <1>1, <2>2, <2>3 DEF Grouped
  <2>5. /\ Amounts(into1, A) /\ SumOver(into1, A) = SumOver(v1, u)
        /\ Amounts(into2, A) /\ SumOver(into2, A) = SumOver(v2, u)
    BY <2>4, SumOfSums
  <2> HIDE DEF u
  <2> QED
    BY <2>1, <2>5
<1>6. Amounts(own, A) /\ SumOver(own, A) = SumOver(v2, Inside(e))
  <2> DEFINE group == [x \in A |-> Own(x)]
             u == Members(group, A)
  <2>1. \A x \in A : Own(x) = {p \in Pairs : p[1] = x /\ p[2] \in A}
    BY DEF Own, OutOf, SameExchange, AddressesOf
  <2>2. u = Inside(e)
    BY <1>1, <2>1 DEF Inside, Members
  <2>3. \A x, y \in A : x # y => group[x] \cap group[y] = {}
    BY <2>1
  <2>4. \A x \in A : Amounts(v2, group[x]) /\ own[x] = SumOver(v2, group[x])
    BY <1>1, <1>2, <1>3
  <2> HIDE DEF own, group, A
  <2>5. Grouped(v2, A, group, own)
    BY <1>1, <2>3, <2>4 DEF Grouped
  <2>6. Amounts(own, A) /\ SumOver(own, A) = SumOver(v2, u)
    BY <2>5, SumOfSums
  <2> HIDE DEF u
  <2> QED
    BY <2>2, <2>6
<1>7. /\ Amounts(first, A) /\ SumOver(first, A) = SumOver(out1, A) + SumOver(into1, A)
      /\ Amounts(second, A) /\ SumOver(second, A) = SumOver(out2, A) + SumOver(into2, A)
  <2>1. AddUp(out1, into1, first, A) /\ AddUp(out2, into2, second, A)
    BY <1>1 DEF AddUp
  <2> HIDE DEF first, second, out1, out2, into1, into2, A
  <2>2. Amounts(first, A) /\ SumOver(first, A) = SumOver(out1, A) + SumOver(into1, A)
    BY <1>4, <1>5, <2>1, SumOfPlus
  <2>3. Amounts(second, A) /\ SumOver(second, A) = SumOver(out2, A) + SumOver(into2, A)
    BY <1>4, <1>5, <2>1, SumOfPlus
  <2> QED
    BY <2>2, <2>3
<1>8. Amounts(delegated, A) /\ SumOver(delegated, A) = SumOver(first, A) + SumOver(second, A)
  <2>1. AddUp(first, second, delegated, A)
    BY <1>1 DEF AddUp
  <2> HIDE DEF first, second, delegated, A
  <2> QED
    BY <1>7, <2>1, SumOfPlus
<1>9. /\ Amounts(self, A)
      /\ Amounts(all, A) /\ SumOver(all, A) = SumOver(self, A) + SumOver(delegated, A)
  <2>1. AddUp(self, delegated, all, A)
    BY <1>1 DEF AddUp
  <2>2. Amounts(self, A)
    BY <1>1 DEF ChainOK, Amounts
  <2> HIDE DEF delegated, all, A
  <2> QED
    BY <1>8, <2>1, <2>2, SumOfPlus
<1>10. Amounts(due, A) /\ \A x \in A : all[x] = due[x] + own[x]
  <2>1. ASSUME NEW x \in A
        PROVE  due[x] \in Nat /\ all[x] = due[x] + own[x]
    <3> DEFINE o1 == SumOver(v1, OutOf(x))
               o2 == SumOver(v2, OutOf(x))
               i1 == SumOver(v1, Into(x))
               i2 == SumOver(v2, Into(x))
               w == SumOver(v2, Own(x))
    <3>1. x \in Accounts
      BY <1>1
    <3>2. o1 \in Nat /\ o2 \in Nat /\ i1 \in Nat /\ i2 \in Nat /\ w \in Nat /\ self[x] \in Nat
          /\ w <= o1 + o2
      BY <1>2, <1>3, <3>1, DueType DEF DelegatedOut
    <3>3. /\ all[x] = self[x] + ((o1 + i1) + (o2 + i2)) /\ own[x] = w
          /\ due[x] = self[x] + (o1 + o2) + (i1 + i2) - w
      BY <3>1 DEF Due, DelegatedOut, Acquired
    <3> HIDE DEF o1, o2, i1, i2, w, all, own, due
    <3> QED
      BY <3>2, <3>3
  <2> HIDE DEF due, own, all, A
  <2> QED
    BY <1>1, <2>1 DEF Amounts
<1>11. SumOver(all, A) = SumOver(due, A) + SumOver(own, A)
  <2> HIDE DEF due, own, all, A
  <2> QED
    BY <1>6, <1>10, SumOfPlus DEF AddUp
<1>12. /\ SumOver(v1, Touching(e)) \in Nat /\ SumOver(v1, Inside(e)) \in Nat
       /\ SumOver(v1, out) + SumOver(v1, into) = SumOver(v1, Touching(e)) + SumOver(v1, Inside(e))
       /\ SumOver(v2, Touching(e)) \in Nat /\ SumOver(v2, Inside(e)) \in Nat
       /\ SumOver(v2, out) + SumOver(v2, into) = SumOver(v2, Touching(e)) + SumOver(v2, Inside(e))
  BY <1>3, BothEnds
<1>13. SumOver(self, A) \in Nat /\ SumOver(due, A) \in Nat
  BY <1>9, <1>10, SumType
<1> DEFINE s == SumOver(self, A)
           d == SumOver(due, A)
           t1 == SumOver(v1, Touching(e))
           t2 == SumOver(v2, Touching(e))
           n1 == SumOver(v1, Inside(e))
           n2 == SumOver(v2, Inside(e))
<1>14. d + n2 = s + ((t1 + n1) + (t2 + n2))
  <2> HIDE DEF due, own, all, delegated, first, second, out1, out2, into1, into2, out, into, A
  <2> QED
    BY <1>4, <1>5, <1>6, <1>7, <1>8, <1>9, <1>11, <1>12
<1>15. s \in Nat /\ d \in Nat /\ t1 \in Nat /\ t2 \in Nat /\ n1 \in Nat /\ n2 \in Nat
  BY <1>12, <1>13
<1>16. d = s + t1 + t2 + n1
  <2> HIDE DEF d, s, t1, t2, n1, n2
  <2> QED
    BY <1>14, <1>15
<1> QED
  BY <1>10, <1>16 DEF StakedOnce

\* The rows of an exchange are summed by their addresses: pairs of different addresses of
\* one exchange are counted at one end, those of the first version at both.
LEMMA CountedOnce == StakeInv => StakeCountedOnce
<1> SUFFICES ASSUME StakeInv, stakePc = "done", NEW e \in NamesOfExchanges, "overlooked" \notin faults
             PROVE  LET expected == StakedOnce(e) + SumOver(v1, Inside(e))
                    IN  /\ (faults = {}) => (StakeOf(e) = expected)
                        /\ StakeOf(e) <= expected
  BY DEF StakeCountedOnce
<1> DEFINE rows == stakeRows
           S == {i \in DOMAIN rows : rows[i].name = e}
           A == AddressesOf(e)
           due == [x \in Accounts |-> Due(x)]
           totals == [i \in DOMAIN rows |-> rows[i].total]
           of == [i \in S |-> rows[i].address]
           right == [i \in S |-> due[of[i]]]
           told == {of[i] : i \in S}
<1>1. RowsRight(rows, DOMAIN snapshot, faults) /\ rows \in Seq(StakeRow)
  <2>1. todo = {} /\ batch = <<>>
    BY DEF StakeInv, PhaseOK
  <2>2. stakeRows \in Seq(StakeRow)
    BY DEF StakeInv, RowsOK
  <2>3. stakeRows \o batch = rows /\ DOMAIN snapshot \ todo = DOMAIN snapshot
    BY <2>1, <2>2
  <2> QED
    BY <2>2, <2>3 DEF StakeInv, RowsOK
<1>2. IsFiniteSet(S)
  <2>1. DOMAIN rows = 1..Len(rows) /\ Len(rows) \in Nat
    BY <1>1
  <2>2. IsFiniteSet(1..Len(rows))
    BY <2>1, FS_Interval
  <2> HIDE DEF rows
  <2> QED
    BY <2>1, <2>2, FS_Subset
<1>3. \A i \in S : /\ of[i] \in A /\ totals[i] \in Nat /\ totals[i] <= due[of[i]]
                   /\ right[i] = due[of[i]]
  <2>1. ASSUME NEW i \in S
        PROVE  of[i] \in A /\ of[i] \in Accounts /\ totals[i] \in Nat /\ totals[i] <= Due(of[i])
    BY <1>1 DEF RowsRight, AddressesOf, StakeInv, PhaseOK
  <2> QED
    BY <2>1
<1>4. \A i, j \in S : of[i] = of[j] => i = j
  BY <1>1 DEF RowsRight
<1>5. Amounts(due, A) /\ SumOver(due, A) = StakedOnce(e) + SumOver(v1, Inside(e))
  BY DueOfExchange DEF StakeInv
<1>6. StakeOf(e) = SumOver(totals, S)
  BY DEF StakeOf
<1>7. \A i \in S : due[of[i]] \in Nat
  BY <1>3, <1>5 DEF Amounts
<1>8. (faults = {}) => told = A /\ \A i \in S : totals[i] = due[of[i]]
  <2> SUFFICES ASSUME faults = {} PROVE told = A /\ \A i \in S : totals[i] = due[of[i]]
    OBVIOUS
  <2>1. \A x \in A : x \in DOMAIN snapshot /\ x \in Accounts /\ snapshot[x] = e
    BY DEF AddressesOf, StakeInv, PhaseOK
  <2>2. ASSUME NEW x \in A
        PROVE  \E i \in S : of[i] = x /\ totals[i] = due[x]
    <3>1. PICK i \in DOMAIN rows : rows[i].address = x /\ rows[i].total = Due(x)
      BY <1>1, <2>1 DEF RowsRight
    <3>2. rows[i].name = e
      BY <1>1, <2>1, <3>1 DEF RowsRight
    <3> QED
      BY <2>1, <3>1, <3>2
  <2>3. A \subseteq told
    <3> HIDE DEF A, of, totals, due, S
    <3> QED
      BY <2>2
  <2>4. told \subseteq A
    <3> HIDE DEF A, of, totals, due, S
    <3> QED
      BY <1>3
  <2>5. ASSUME NEW i \in S PROVE totals[i] = due[of[i]]
    <3>1. of[i] \in A
      BY <1>3
    <3>2. PICK j \in S : of[j] = of[i] /\ totals[j] = due[of[i]]
      BY <2>2, <3>1
    <3> HIDE DEF A, of, totals, due, S
    <3> QED
      BY <1>4, <3>2
  <2> QED
    BY <2>3, <2>4, <2>5
<1> HIDE DEF rows, S, A, due, totals, of, right
<1>9. /\ Amounts(right, S) /\ Amounts(due, told)
      /\ SumOver(right, S) = SumOver(due, told)
  BY <1>2, <1>3, <1>4, <1>7, SumReindexed
<1>10. told \subseteq A
  BY <1>3
<1>11. Amounts(totals, S)
  BY <1>2, <1>3 DEF Amounts
<1>12. SumOver(totals, S) <= SumOver(right, S)
  BY <1>3, <1>9, <1>11, SumOfLess
<1>13. SumOver(due, told) <= SumOver(due, A)
  BY <1>5, <1>10, SumOfPart
<1>14. faults = {} => SumOver(totals, S) = SumOver(due, A)
  <2> SUFFICES ASSUME faults = {} PROVE SumOver(totals, S) = SumOver(due, A)
    OBVIOUS
  <2>1. \A i \in S : totals[i] = right[i]
    BY <1>3, <1>8
  <2>2. SumOver(totals, S) = SumOver(right, S)
    BY <1>9, <2>1, SumOfEqual
  <2> QED
    BY <1>8, <1>9, <2>2
<1>15. SumOver(totals, S) \in Nat /\ SumOver(right, S) \in Nat /\ SumOver(due, A) \in Nat
  BY <1>5, <1>9, <1>11, SumType
<1>16. SumOver(totals, S) <= SumOver(due, A)
  BY <1>9, <1>12, <1>13, <1>15
<1> QED
  BY <1>5, <1>6, <1>14, <1>16

\* What is reported as staked by an exchange counts every delegation within it once, and
\* less if calls have failed (StakeCountedOnce), for any number of accounts.
THEOREM StakeIsCountedOnce == StakeSpec => []StakeCountedOnce
BY StakeInvariant, CountedOnce, PTL

-----------------------------------------------------------------------------
(* Tables                                                                  *)

TablePrefixes == {"transactions", "from", "to", "token", "user_token"}
StalePrefixes == {"from", "to", "user_token"}
RewrittenPrefixes == {"from", "to", "token", "user_token"}
Flushes == {"drop", "create", "insert"}
Maintains == {"stale", "dropping", "method", "unindexing", "tables", "roll", "flushed"}

\* Types, and the order of the days.
TypesOK ==
    /\ today \in Int /\ today <= LastDay
    /\ trackingDate \in Int /\ FirstDay <= trackingDate /\ trackingDate <= today
    /\ flushed \in Int /\ FirstDay - 1 <= Flushing /\ Flushing <= trackingDate
    /\ (flushPc # "idle") => (Flushing < trackingDate)
    /\ trackerPc \in {"save", "index", "insert"}
    /\ flushPc \in {"idle"} \cup Flushes \cup Maintains
    /\ step \in 1..4
    /\ cutoff \in Int
    /\ present \subseteq TablePrefixes \X Days
    /\ undisturbed \in BOOLEAN

\* Memory and tables agree, wherever the two actors are.
TablesOK ==
    /\ migrated \subseteq present
    /\ (trackerPc \in {"index", "insert"}) => (TxTable(trackingDate) \in migrated)
    /\ (flushPc = "insert") => (Table \in migrated)
    /\ (flushPc = "dropping") => (\A t \in list : t[1] = Stale[step])
    /\ (flushPc = "dropping") => (step <= 3)

CreationInv == TypesOK /\ TablesOK

-----------------------------------------------------------------------------

\* The bounds are natural numbers.
LEMMA Constants == /\ FirstDay \in Nat /\ FirstDay > 0 /\ LastDay \in Nat /\ FirstDay <= LastDay
                   /\ RetainDays \in Nat /\ RetainDays > 0 /\ YearDays \in Nat /\ YearDays > 0
BY TablesAssumption

\* The flush never touches a table of transactions.
LEMMA TablesOfFlush ==
    /\ Len(Rewritten) = 4 /\ Len(Stale) = 3
    /\ \A k \in 1..4 : Rewritten[k] \in RewrittenPrefixes
    /\ \A k \in 1..3 : Stale[k] \in StalePrefixes
BY DEF Rewritten, Stale, RewrittenPrefixes, StalePrefixes

\* No actor has begun, and memory knows of no table that is not there.
LEMMA InitCreation == TablesInit => CreationInv
<1> SUFFICES ASSUME TablesInit PROVE CreationInv
  OBVIOUS
<1>1. present \subseteq TablePrefixes \X Days
  BY Constants DEF TablesInit, TablePrefixes, Days
<1>2. (trackerPc = "save") /\ (flushPc = "idle") /\ (step = 1) /\ (cutoff = 0) /\ (undisturbed = FALSE)
  BY DEF TablesInit
<1>3. /\ today \in Int /\ today <= LastDay
      /\ trackingDate \in Int /\ FirstDay <= trackingDate /\ trackingDate <= today
      /\ flushed \in Int /\ FirstDay - 1 <= Flushing /\ Flushing <= trackingDate
  BY Constants DEF TablesInit, Flushing
<1>4. TypesOK
  <2>1. (step \in 1..4) /\ (cutoff \in Int) /\ (undisturbed \in BOOLEAN)
    <3>1. step = 1 /\ cutoff = 0
      BY <1>2
    <3>2. undisturbed \in BOOLEAN
      BY <1>2
    <3>3. (step \in 1..4) /\ (cutoff \in Int)
      BY <3>1
    <3> QED
      BY <3>2, <3>3
  <2> QED
    BY <1>1, <1>2, <1>3, <2>1 DEF TypesOK
<1>5. TablesOK
  BY DEF TablesInit, TablesOK
<1> QED
  BY <1>4, <1>5 DEF CreationInv

\* Every step leaves memory and tables in agreement.
LEMMA StepCreation == CreationInv /\ [TablesNext]_tablesVars => CreationInv'
<1> SUFFICES ASSUME CreationInv, [TablesNext]_tablesVars PROVE CreationInv'
  OBVIOUS
<1> USE Constants DEF CreationInv
<1>1. CASE CreateTxTable
  <2>1. present' \subseteq TablePrefixes \X Days
    BY <1>1 DEF CreateTxTable, TypesOK, TxTable, TablePrefixes, Days
  <2>2. TypesOK'
    BY <1>1, <2>1 DEF CreateTxTable, TypesOK, flushVars, Flushing
  <2>3. TablesOK'
    BY <1>1 DEF CreateTxTable, TablesOK, flushVars, Table, Flushing
  <2> QED BY <2>2, <2>3
<1>2. CASE TrackerIndex
  BY <1>2 DEF TrackerIndex, TypesOK, TablesOK, flushVars, Table, Flushing
<1>3. CASE TrackerInserts
  BY <1>3 DEF TrackerInserts, TypesOK, TablesOK, flushVars, schema, Table, Flushing
<1>4. CASE BeginFlush
  BY <1>4 DEF BeginFlush, TypesOK, TablesOK, trackerVars, schema, Table, Flushing, Flushes
<1>5. CASE DropTable
  <2>1. Table[1] \in RewrittenPrefixes
    BY TablesOfFlush DEF Table, TypesOK
  <2>2. Table # TxTable(trackingDate)
    BY <2>1 DEF TxTable, RewrittenPrefixes
  <2>3. TypesOK'
    BY <1>5, TablesOfFlush DEF DropTable, TypesOK, trackerVars, Flushing, Flushes
  <2>4. TablesOK'
    BY <1>5, <2>2 DEF DropTable, Forget, TablesOK, trackerVars
  <2> QED BY <2>3, <2>4
<1>6. CASE CreateTable
  <2>1. Table \in TablePrefixes \X Days
    BY TablesOfFlush DEF Table, TypesOK, TablePrefixes, RewrittenPrefixes, Days, Flushing
  <2>2. TypesOK'
    BY <1>6, <2>1 DEF CreateTable, TypesOK, trackerVars, Flushing, Flushes
  <2>3. TablesOK'
    BY <1>6 DEF CreateTable, TablesOK, trackerVars, Table, Flushing
  <2> QED BY <2>2, <2>3
<1>7. CASE Insert
  <2>1. TypesOK'
    BY <1>7, TablesOfFlush DEF Insert, TypesOK, trackerVars, schema, Flushing, Flushes, Maintains
  <2>2. TablesOK'
    BY <1>7 DEF Insert, TablesOK, trackerVars, schema
  <2> QED BY <2>1, <2>2
<1>8. CASE FlushFails
  BY <1>8 DEF FlushFails, TypesOK, TablesOK, trackerVars, schema, Flushing
<1>9. CASE BeginStale
  <2>1. cutoff' \in Int
    BY <1>9 DEF BeginStale, TypesOK
  <2>2. undisturbed' \in BOOLEAN
    BY <1>9 DEF BeginStale, TypesOK
  <2>3. TypesOK'
    BY <1>9, <2>1, <2>2 DEF BeginStale, TypesOK, trackerVars, schema, Flushing, Maintains
  <2>4. TablesOK'
    BY <1>9, TablesOfFlush DEF BeginStale, TablesOK, trackerVars, schema
  <2> QED BY <2>3, <2>4
<1>10. ASSUME NEW t \in list, DropStale(t) PROVE CreationInv'
  <2>1. t[1] \in StalePrefixes
    BY <1>10, TablesOfFlush DEF DropStale, TablesOK, TypesOK
  <2>2. t # TxTable(trackingDate)
    BY <2>1 DEF TxTable, StalePrefixes
  <2>3. TypesOK'
    BY <1>10 DEF DropStale, TypesOK, trackerVars, Flushing
  <2>4. TablesOK'
    BY <1>10, <2>2 DEF DropStale, Forget, TablesOK, trackerVars
  <2> QED BY <2>3, <2>4
<1>11. ASSUME NEW t \in list, DropStaleFails(t) PROVE CreationInv'
  BY <1>11 DEF DropStaleFails, TypesOK, TablesOK, trackerVars, schema, Flushing
<1>12. CASE EndStale
  BY <1>12, TablesOfFlush DEF EndStale, TypesOK, TablesOK, trackerVars, schema, Flushing, Maintains
<1>13. CASE BeginMethod
  BY <1>13 DEF BeginMethod, TypesOK, TablesOK, trackerVars, schema, Flushing, Maintains
<1>14. ASSUME NEW t \in list, DropMethodIndex(t) PROVE CreationInv'
  BY <1>14 DEF DropMethodIndex, TypesOK, TablesOK, trackerVars, Flushing, Maintains
<1>15. CASE ListIndexed
  BY <1>15 DEF ListIndexed, TypesOK, TablesOK, trackerVars, schema, Flushing, Maintains
<1>16. CASE ListTables
  BY <1>16 DEF ListTables, TypesOK, TablesOK, trackerVars, schema, Flushing, Maintains
<1>17. ASSUME NEW t \in list, Roll(t) PROVE CreationInv'
  <2>1. undisturbed' \in BOOLEAN
    BY <1>17 DEF Roll, TypesOK
  <2> QED
    BY <1>17, <2>1 DEF Roll, TypesOK, TablesOK, trackerVars, Flushing, Maintains
<1>18. CASE ListFails
  BY <1>18 DEF ListFails, TypesOK, TablesOK, trackerVars, schema, Flushing, Maintains
<1>19. CASE EndMaintenance
  BY <1>19 DEF EndMaintenance, TypesOK, TablesOK, trackerVars, schema, Flushing, Maintains
<1>20. CASE Advanced
  <2>1. TypesOK'
    <3>1. (step' \in 1..4) /\ (cutoff' \in Int) /\ (undisturbed' \in BOOLEAN)
      <4>1. step' = 1 /\ cutoff' = 0
        BY <1>20 DEF Advanced
      <4>2. undisturbed' \in BOOLEAN
        BY <1>20 DEF Advanced
      <4>3. (step' \in 1..4) /\ (cutoff' \in Int)
        BY <4>1
      <4> QED
        BY <4>2, <4>3
    <3> QED
      BY <1>20, <3>1 DEF Advanced, TypesOK, trackerVars, schema, Flushing, Maintains
  <2>2. TablesOK'
    BY <1>20 DEF Advanced, TablesOK, trackerVars, schema
  <2> QED BY <2>1, <2>2
<1>21. CASE Midnight
  <2>1. today' \in Int /\ today' <= LastDay /\ trackingDate <= today'
    BY <1>21 DEF Midnight, TypesOK
  <2>2. TypesOK'
    BY <1>21, <2>1 DEF Midnight, TypesOK, trackerVars, schema, flushVars, Flushing
  <2>3. TablesOK'
    BY <1>21 DEF Midnight, TablesOK, trackerVars, schema, flushVars, Table, Flushing
  <2> QED BY <2>2, <2>3
<1>22. CASE RestartTables
  <2>1. TypesOK'
    <3>1. (step' \in 1..4) /\ (cutoff' \in Int) /\ (undisturbed' \in BOOLEAN)
      <4>1. step' = 1 /\ cutoff' = 0
        BY <1>22 DEF RestartTables
      <4>2. undisturbed' \in BOOLEAN
        BY <1>22 DEF RestartTables
      <4>3. (step' \in 1..4) /\ (cutoff' \in Int)
        BY <4>1
      <4> QED
        BY <4>2, <4>3
    <3> QED
      BY <1>22, <3>1 DEF RestartTables, TypesOK, Flushing
  <2>2. TablesOK'
    BY <1>22 DEF RestartTables, TablesOK
  <2> QED BY <2>1, <2>2
<1>23. CASE UNCHANGED tablesVars
  BY <1>23 DEF tablesVars, TypesOK, TablesOK, trackerVars, schema, flushVars, Table, Flushing
<1> QED
  BY <1>1, <1>2, <1>3, <1>4, <1>5, <1>6, <1>7, <1>8, <1>9, <1>10, <1>11, <1>12, <1>13, <1>14,
     <1>15, <1>16, <1>17, <1>18, <1>19, <1>20, <1>21, <1>22, <1>23 DEF TablesNext

\* Where an actor is about to write, memory knows the table, and what it knows is there.
LEMMA CreatedFromInvariant == CreationInv => CreatedBeforeInsert
BY DEF CreationInv, TablesOK, CreatedBeforeInsert

\* The invariant about the creation of tables.
THEOREM CreationInvariant == TablesSpec => []CreationInv
BY InitCreation, StepCreation, PTL DEF TablesSpec

\* However the tracker, failing statements, repeated days and restarts interleave with the
\* flush, nobody inserts into a table that is missing.
THEOREM NoInsertIntoMissing == TablesSpec => []CreatedBeforeInsert
BY CreationInvariant, CreatedFromInvariant, PTL

-----------------------------------------------------------------------------
(* What the maintenance has already done, while nothing came between.      *)

Later == {"method", "unindexing", "tables", "roll", "flushed"}

\* A maintenance that is undisturbed is running, and no index is due.
Steady ==
    undisturbed => /\ flushPc \in Maintains
                   /\ (flushPc = "stale") => (step > 1)
                   /\ trackerPc # "index"

\* The cutoffs are of today, or of a day before.
CutoffsOK ==
    /\ ((flushPc = "dropping") \/ ((flushPc = "stale") /\ (step > 1))) =>
           /\ cutoff <= today - YearDays
           /\ undisturbed => (cutoff = today - YearDays)
    /\ (undisturbed /\ (flushPc \in {"tables", "roll"})) => (cutoff = today - RetainDays)

\* Of the prefixes gone through, no old table is left.
StaleGone ==
    undisturbed =>
        \A t \in present :
            /\ (flushPc \in {"stale", "dropping"}) =>
                  \A k \in 1..3 : ((k < step) /\ (t[1] = Stale[k])) => (t[2] + YearDays >= today)
            /\ ((flushPc = "dropping") /\ (t[1] = Stale[step]) /\ (t \notin list)) =>
                  (t[2] + YearDays >= today)
            /\ ((flushPc \in Later) /\ (t[1] \in StalePrefixes)) => (t[2] + YearDays >= today)

\* The indexes on methods that are left are still listed.
MethodGone ==
    undisturbed => /\ (flushPc = "unindexing") => (\A d \in method : TxTable(d) \in list)
                   /\ (flushPc \in {"tables", "roll", "flushed"}) => (method = {})

\* A table that is not listed any more has its index exactly when it is in the window.
AmountOK ==
    /\ amount \subseteq TxDays
    /\ (flushPc = "roll") => (list \subseteq {TxTable(d) : d \in TxDays})
    /\ (undisturbed /\ (flushPc = "tables")) => (have = amount)
    /\ (undisturbed /\ (flushPc = "roll")) =>
           \A d \in TxDays : IF TxTable(d) \in list THEN (d \in amount) <=> (d \in have)
                             ELSE (d \in amount) <=> (d >= cutoff)
    /\ (undisturbed /\ (flushPc = "flushed")) => (amount = {d \in TxDays : d >= today - RetainDays})

\* What the flush has written stays, but for a day that has become a year old.
WrittenOK ==
    /\ (flushPc \in {"create", "insert"}) =>
           \A k \in 1..4 : (k < step) => (<<Rewritten[k], Flushing>> \in present)
    /\ (flushPc \in Maintains) =>
           \A k \in 1..4 : (Flushing + YearDays >= today) => (<<Rewritten[k], Flushing>> \in present)

RetentionInv == Steady /\ CutoffsOK /\ StaleGone /\ MethodGone /\ AmountOK /\ WrittenOK

\* No table is there that maintenance is to remove.
LEMMA InitRetention == TablesInit => RetentionInv
BY DEF TablesInit, RetentionInv, Steady, CutoffsOK, StaleGone, MethodGone, AmountOK, WrittenOK,
       Maintains, Later

\* No statement makes a disturbed maintenance an undisturbed one, but its beginning.
LEMMA StepSteady ==
    ASSUME CreationInv, Steady, [TablesNext]_tablesVars
    PROVE  Steady'
<1> USE Constants DEF CreationInv, TypesOK, TablesOK, trackerVars, flushVars, schema, Flushing, Maintains, Flushes, Steady
<1>1. CASE CreateTxTable
  BY <1>1 DEF CreateTxTable
<1>2. CASE TrackerIndex
  BY <1>2 DEF TrackerIndex
<1>3. CASE TrackerInserts
  BY <1>3 DEF TrackerInserts
<1>4. CASE BeginFlush
  BY <1>4 DEF BeginFlush
<1>5. CASE DropTable
  BY <1>5 DEF DropTable
<1>6. CASE CreateTable
  BY <1>6 DEF CreateTable
<1>7. CASE Insert
  BY <1>7 DEF Insert
<1>8. CASE FlushFails
  BY <1>8 DEF FlushFails
<1>9. CASE BeginStale
  BY <1>9 DEF BeginStale
<1>10. ASSUME NEW t \in list, DropStale(t) PROVE Steady'
  BY <1>10 DEF DropStale
<1>11. ASSUME NEW t \in list, DropStaleFails(t) PROVE Steady'
  BY <1>11 DEF DropStaleFails
<1>12. CASE EndStale
  BY <1>12 DEF EndStale
<1>13. CASE BeginMethod
  BY <1>13 DEF BeginMethod
<1>14. ASSUME NEW t \in list, DropMethodIndex(t) PROVE Steady'
  BY <1>14 DEF DropMethodIndex
<1>15. CASE ListIndexed
  BY <1>15 DEF ListIndexed
<1>16. CASE ListTables
  BY <1>16 DEF ListTables
<1>17. ASSUME NEW t \in list, Roll(t) PROVE Steady'
  BY <1>17 DEF Roll
<1>18. CASE ListFails
  BY <1>18 DEF ListFails
<1>19. CASE EndMaintenance
  BY <1>19 DEF EndMaintenance
<1>20. CASE Advanced
  BY <1>20 DEF Advanced
<1>21. CASE Midnight
  BY <1>21 DEF Midnight
<1>22. CASE RestartTables
  BY <1>22 DEF RestartTables
<1>23. CASE UNCHANGED tablesVars
  BY <1>23 DEF tablesVars
<1> QED
  BY <1>1, <1>2, <1>3, <1>4, <1>5, <1>6, <1>7, <1>8, <1>9, <1>10, <1>11, <1>12,
     <1>13, <1>14, <1>15, <1>16, <1>17, <1>18, <1>19, <1>20, <1>21, <1>22, <1>23 DEF TablesNext

\* A cutoff is taken from today, and today only grows.
LEMMA StepCutoffs ==
    ASSUME CreationInv, Steady, CutoffsOK, [TablesNext]_tablesVars
    PROVE  CutoffsOK'
<1> USE Constants DEF CreationInv, TypesOK, TablesOK, trackerVars, flushVars, schema, Flushing, Maintains, Flushes, Steady, CutoffsOK
<1>1. CASE CreateTxTable
  BY <1>1 DEF CreateTxTable
<1>2. CASE TrackerIndex
  BY <1>2 DEF TrackerIndex
<1>3. CASE TrackerInserts
  BY <1>3 DEF TrackerInserts
<1>4. CASE BeginFlush
  BY <1>4 DEF BeginFlush
<1>5. CASE DropTable
  BY <1>5 DEF DropTable
<1>6. CASE CreateTable
  BY <1>6 DEF CreateTable
<1>7. CASE Insert
  BY <1>7 DEF Insert
<1>8. CASE FlushFails
  BY <1>8 DEF FlushFails
<1>9. CASE BeginStale
  BY <1>9 DEF BeginStale
<1>10. ASSUME NEW t \in list, DropStale(t) PROVE CutoffsOK'
  BY <1>10 DEF DropStale
<1>11. ASSUME NEW t \in list, DropStaleFails(t) PROVE CutoffsOK'
  BY <1>11 DEF DropStaleFails
<1>12. CASE EndStale
  BY <1>12 DEF EndStale
<1>13. CASE BeginMethod
  BY <1>13 DEF BeginMethod
<1>14. ASSUME NEW t \in list, DropMethodIndex(t) PROVE CutoffsOK'
  BY <1>14 DEF DropMethodIndex
<1>15. CASE ListIndexed
  BY <1>15 DEF ListIndexed
<1>16. CASE ListTables
  BY <1>16 DEF ListTables
<1>17. ASSUME NEW t \in list, Roll(t) PROVE CutoffsOK'
  BY <1>17 DEF Roll
<1>18. CASE ListFails
  BY <1>18 DEF ListFails
<1>19. CASE EndMaintenance
  BY <1>19 DEF EndMaintenance
<1>20. CASE Advanced
  BY <1>20 DEF Advanced
<1>21. CASE Midnight
  BY <1>21 DEF Midnight
<1>22. CASE RestartTables
  BY <1>22 DEF RestartTables
<1>23. CASE UNCHANGED tablesVars
  BY <1>23 DEF tablesVars
<1> QED
  BY <1>1, <1>2, <1>3, <1>4, <1>5, <1>6, <1>7, <1>8, <1>9, <1>10, <1>11, <1>12,
     <1>13, <1>14, <1>15, <1>16, <1>17, <1>18, <1>19, <1>20, <1>21, <1>22, <1>23 DEF TablesNext

\* Old tables go prefix by prefix, and the tracker creates none.
LEMMA StepStale ==
    ASSUME CreationInv, Steady, CutoffsOK, StaleGone, [TablesNext]_tablesVars
    PROVE  StaleGone'
<1> USE Constants DEF CreationInv, TypesOK, TablesOK, trackerVars, flushVars, schema, Flushing, Maintains, Flushes, Steady, CutoffsOK, StaleGone, Later, Forget
<1>1. CASE CreateTxTable
  BY <1>1 DEF CreateTxTable
<1>2. CASE TrackerIndex
  BY <1>2 DEF TrackerIndex
<1>3. CASE TrackerInserts
  BY <1>3 DEF TrackerInserts
<1>4. CASE BeginFlush
  BY <1>4 DEF BeginFlush
<1>5. CASE DropTable
  BY <1>5 DEF DropTable
<1>6. CASE CreateTable
  BY <1>6 DEF CreateTable
<1>7. CASE Insert
  BY <1>7 DEF Insert
<1>8. CASE FlushFails
  BY <1>8 DEF FlushFails
<1>9. CASE BeginStale
  <2>1. flushPc = "stale" /\ flushPc' = "dropping" /\ step' = step /\ step <= 3
        /\ present' = present /\ today' = today /\ list' = {t \in present : t[1] = Stale[step]}
        /\ ((step # 1) => (undisturbed' = undisturbed))
    BY <1>9, TablesOfFlush DEF BeginStale
  <2>2. ASSUME undisturbed', NEW t \in present, NEW k \in 1..3, k < step, t[1] = Stale[k]
        PROVE  t[2] + YearDays >= today
    <3>1. step # 1
      BY <2>1, <2>2
    <3>2. undisturbed
      BY <2>1, <2>2, <3>1
    <3>3. \A p \in present, j \in 1..3 : (j < step /\ p[1] = Stale[j]) => p[2] + YearDays >= today
      BY <2>1, <3>2
    <3> QED
      BY <2>2, <3>3
  <2> QED
    BY <2>1, <2>2
<1>10. ASSUME NEW t \in list, DropStale(t) PROVE StaleGone'
  <2>1. /\ flushPc = "dropping" /\ flushPc' = "dropping" /\ step' = step
        /\ list' = list \ {t} /\ undisturbed' = undisturbed /\ today' = today
        /\ present' = IF t[2] < cutoff THEN present \ {t} ELSE present
    BY <1>10 DEF DropStale
  <2>2. ASSUME undisturbed, t \in present, ~(t[2] < cutoff)
        PROVE  t[2] + YearDays >= today
    <3>1. t[2] \in Int
      BY <2>2 DEF Days
    <3> QED
      BY <2>1, <2>2, <3>1
  <2> QED
    BY <2>1, <2>2
<1>11. ASSUME NEW t \in list, DropStaleFails(t) PROVE StaleGone'
  BY <1>11 DEF DropStaleFails
<1>12. CASE EndStale
  <2>1. /\ flushPc = "dropping" /\ list = {} /\ step' = step + 1 /\ step <= 3
        /\ undisturbed' = undisturbed /\ today' = today /\ present' = present
        /\ flushPc' = IF step < 3 THEN "stale" ELSE "method"
    BY <1>12, TablesOfFlush DEF EndStale
  <2>2. ASSUME undisturbed, NEW t \in present, NEW k \in 1..3, k <= step, t[1] = Stale[k]
        PROVE  t[2] + YearDays >= today
    BY <2>1, <2>2
  <2>3. \A p \in StalePrefixes : \E k \in 1..3 : p = Stale[k]
    BY DEF StalePrefixes, Stale
  <2> QED
    BY <2>1, <2>2, <2>3
<1>13. CASE BeginMethod
  BY <1>13 DEF BeginMethod
<1>14. ASSUME NEW t \in list, DropMethodIndex(t) PROVE StaleGone'
  BY <1>14 DEF DropMethodIndex
<1>15. CASE ListIndexed
  BY <1>15 DEF ListIndexed
<1>16. CASE ListTables
  BY <1>16 DEF ListTables
<1>17. ASSUME NEW t \in list, Roll(t) PROVE StaleGone'
  BY <1>17 DEF Roll
<1>18. CASE ListFails
  BY <1>18 DEF ListFails
<1>19. CASE EndMaintenance
  BY <1>19 DEF EndMaintenance
<1>20. CASE Advanced
  BY <1>20 DEF Advanced
<1>21. CASE Midnight
  BY <1>21 DEF Midnight
<1>22. CASE RestartTables
  BY <1>22 DEF RestartTables
<1>23. CASE UNCHANGED tablesVars
  BY <1>23 DEF tablesVars
<1> QED
  BY <1>1, <1>2, <1>3, <1>4, <1>5, <1>6, <1>7, <1>8, <1>9, <1>10, <1>11, <1>12,
     <1>13, <1>14, <1>15, <1>16, <1>17, <1>18, <1>19, <1>20, <1>21, <1>22, <1>23 DEF TablesNext

\* Indexes on methods only go.
LEMMA StepMethod ==
    ASSUME CreationInv, Steady, MethodGone, [TablesNext]_tablesVars
    PROVE  MethodGone'
<1> USE Constants DEF CreationInv, TypesOK, TablesOK, trackerVars, flushVars, schema, Flushing, Maintains, Flushes, Steady, MethodGone
<1>1. CASE CreateTxTable
  BY <1>1 DEF CreateTxTable
<1>2. CASE TrackerIndex
  BY <1>2 DEF TrackerIndex
<1>3. CASE TrackerInserts
  BY <1>3 DEF TrackerInserts
<1>4. CASE BeginFlush
  BY <1>4 DEF BeginFlush
<1>5. CASE DropTable
  BY <1>5 DEF DropTable
<1>6. CASE CreateTable
  BY <1>6 DEF CreateTable
<1>7. CASE Insert
  BY <1>7 DEF Insert
<1>8. CASE FlushFails
  BY <1>8 DEF FlushFails
<1>9. CASE BeginStale
  BY <1>9 DEF BeginStale
<1>10. ASSUME NEW t \in list, DropStale(t) PROVE MethodGone'
  BY <1>10 DEF DropStale
<1>11. ASSUME NEW t \in list, DropStaleFails(t) PROVE MethodGone'
  BY <1>11 DEF DropStaleFails
<1>12. CASE EndStale
  BY <1>12 DEF EndStale
<1>13. CASE BeginMethod
  BY <1>13 DEF BeginMethod
<1>14. ASSUME NEW t \in list, DropMethodIndex(t) PROVE MethodGone'
  <2>1. \A d \in method : (d # t[2]) => (TxTable(d) # t)
    BY DEF TxTable
  <2> QED
    BY <1>14, <2>1 DEF DropMethodIndex
<1>15. CASE ListIndexed
  BY <1>15 DEF ListIndexed
<1>16. CASE ListTables
  BY <1>16 DEF ListTables
<1>17. ASSUME NEW t \in list, Roll(t) PROVE MethodGone'
  BY <1>17 DEF Roll
<1>18. CASE ListFails
  BY <1>18 DEF ListFails
<1>19. CASE EndMaintenance
  BY <1>19 DEF EndMaintenance
<1>20. CASE Advanced
  BY <1>20 DEF Advanced
<1>21. CASE Midnight
  BY <1>21 DEF Midnight
<1>22. CASE RestartTables
  BY <1>22 DEF RestartTables
<1>23. CASE UNCHANGED tablesVars
  BY <1>23 DEF tablesVars
<1> QED
  BY <1>1, <1>2, <1>3, <1>4, <1>5, <1>6, <1>7, <1>8, <1>9, <1>10, <1>11, <1>12,
     <1>13, <1>14, <1>15, <1>16, <1>17, <1>18, <1>19, <1>20, <1>21, <1>22, <1>23 DEF TablesNext

\* The window rolls table by table.
LEMMA StepAmount ==
    ASSUME CreationInv, Steady, CutoffsOK, AmountOK, [TablesNext]_tablesVars
    PROVE  AmountOK'
<1> USE Constants DEF CreationInv, TypesOK, TablesOK, trackerVars, flushVars, schema, Flushing, Maintains, Flushes, Steady, CutoffsOK, AmountOK, TxDays, TxTable, Forget
<1>1. CASE CreateTxTable
  BY <1>1 DEF CreateTxTable
<1>2. CASE TrackerIndex
  BY <1>2 DEF TrackerIndex
<1>3. CASE TrackerInserts
  BY <1>3 DEF TrackerInserts
<1>4. CASE BeginFlush
  BY <1>4 DEF BeginFlush
<1>5. CASE DropTable
  <2>1. Table[1] \in RewrittenPrefixes
    BY TablesOfFlush DEF Table
  <2>2. \A d \in Days : <<"transactions", d>> # Table
    BY <2>1 DEF RewrittenPrefixes
  <2>3. TxDays' = TxDays
    BY <1>5, <2>2 DEF DropTable
  <2> QED
    BY <1>5, <2>3 DEF DropTable
<1>6. CASE CreateTable
  BY <1>6 DEF CreateTable
<1>7. CASE Insert
  BY <1>7 DEF Insert
<1>8. CASE FlushFails
  BY <1>8 DEF FlushFails
<1>9. CASE BeginStale
  BY <1>9 DEF BeginStale
<1>10. ASSUME NEW t \in list, DropStale(t) PROVE AmountOK'
  <2>1. t[1] \in StalePrefixes
    BY <1>10, TablesOfFlush DEF DropStale
  <2>2. \A d \in Days : <<"transactions", d>> # t
    BY <2>1 DEF StalePrefixes
  <2>3. TxDays' = TxDays
    BY <1>10, <2>2 DEF DropStale
  <2> QED
    BY <1>10, <2>3 DEF DropStale
<1>11. ASSUME NEW t \in list, DropStaleFails(t) PROVE AmountOK'
  BY <1>11 DEF DropStaleFails
<1>12. CASE EndStale
  BY <1>12 DEF EndStale
<1>13. CASE BeginMethod
  BY <1>13 DEF BeginMethod
<1>14. ASSUME NEW t \in list, DropMethodIndex(t) PROVE AmountOK'
  BY <1>14 DEF DropMethodIndex
<1>15. CASE ListIndexed
  BY <1>15 DEF ListIndexed
<1>16. CASE ListTables
  BY <1>16 DEF ListTables
<1>17. ASSUME NEW t \in list, Roll(t) PROVE AmountOK'
  <2>1. PICK d0 \in TxDays : t = TxTable(d0)
    BY <1>17 DEF Roll
  <2>2. t[2] = d0 /\ d0 \in Int /\ (\A d \in TxDays : (d # d0) => (TxTable(d) # t))
    BY <2>1 DEF Days
  <2>3. /\ flushPc = "roll" /\ flushPc' = "roll" /\ list' = list \ {t} /\ TxDays' = TxDays
        /\ have' = have /\ cutoff' = cutoff /\ today' = today
        /\ \/ amount' = Rolled(d0) /\ undisturbed' = undisturbed
           \/ amount' = amount /\ undisturbed' = (undisturbed /\ (Rolled(d0) = amount))
    BY <1>17, <2>2 DEF Roll
  <2>4. /\ \A d \in TxDays \ {d0} : (d \in Rolled(d0)) <=> (d \in amount)
        /\ Rolled(d0) \subseteq TxDays
    BY <2>1 DEF Rolled
  <2>5. undisturbed => ((d0 \in Rolled(d0)) <=> (d0 >= cutoff))
    BY <1>17, <2>1, <2>2, <2>3 DEF Rolled
  <2>6. undisturbed' => /\ undisturbed
                        /\ \A d \in TxDays : (d \in amount') <=> (d \in Rolled(d0))
    BY <2>3
  <2> QED
    BY <2>1, <2>2, <2>3, <2>4, <2>5, <2>6
<1>18. CASE ListFails
  BY <1>18 DEF ListFails
<1>19. CASE EndMaintenance
  BY <1>19 DEF EndMaintenance
<1>20. CASE Advanced
  BY <1>20 DEF Advanced
<1>21. CASE Midnight
  BY <1>21 DEF Midnight
<1>22. CASE RestartTables
  BY <1>22 DEF RestartTables
<1>23. CASE UNCHANGED tablesVars
  BY <1>23 DEF tablesVars
<1> QED
  BY <1>1, <1>2, <1>3, <1>4, <1>5, <1>6, <1>7, <1>8, <1>9, <1>10, <1>11, <1>12,
     <1>13, <1>14, <1>15, <1>16, <1>17, <1>18, <1>19, <1>20, <1>21, <1>22, <1>23 DEF TablesNext

\* Only what is a year old is dropped from what the flush has written.
LEMMA StepWritten ==
    ASSUME CreationInv, CutoffsOK, WrittenOK, [TablesNext]_tablesVars
    PROVE  WrittenOK'
<1> USE Constants DEF CreationInv, TypesOK, TablesOK, trackerVars, flushVars, schema, Flushing, Maintains, Flushes, CutoffsOK, WrittenOK, Table, Forget
<1>1. CASE CreateTxTable
  BY <1>1 DEF CreateTxTable
<1>2. CASE TrackerIndex
  BY <1>2 DEF TrackerIndex
<1>3. CASE TrackerInserts
  BY <1>3 DEF TrackerInserts
<1>4. CASE BeginFlush
  BY <1>4 DEF BeginFlush
<1>5. CASE DropTable
  BY <1>5 DEF DropTable
<1>6. CASE CreateTable
  BY <1>6 DEF CreateTable
<1>7. CASE Insert
  <2>1. /\ flushPc = "insert" /\ Table \in present /\ present' = present /\ today' = today
        /\ flushed' = flushed
        /\ \/ step < 4 /\ step' = step + 1 /\ flushPc' = "create"
           \/ step = 4 /\ step' = 1 /\ flushPc' = "stale"
    BY <1>7, TablesOfFlush DEF Insert
  <2>2. \A k \in 1..4 : (k <= step) => (<<Rewritten[k], flushed + 1>> \in present)
    BY <2>1
  <2> QED
    BY <2>1, <2>2
<1>8. CASE FlushFails
  BY <1>8 DEF FlushFails
<1>9. CASE BeginStale
  BY <1>9 DEF BeginStale
<1>10. ASSUME NEW t \in list, DropStale(t) PROVE WrittenOK'
  BY <1>10 DEF DropStale
<1>11. ASSUME NEW t \in list, DropStaleFails(t) PROVE WrittenOK'
  BY <1>11 DEF DropStaleFails
<1>12. CASE EndStale
  BY <1>12 DEF EndStale
<1>13. CASE BeginMethod
  BY <1>13 DEF BeginMethod
<1>14. ASSUME NEW t \in list, DropMethodIndex(t) PROVE WrittenOK'
  BY <1>14 DEF DropMethodIndex
<1>15. CASE ListIndexed
  BY <1>15 DEF ListIndexed
<1>16. CASE ListTables
  BY <1>16 DEF ListTables
<1>17. ASSUME NEW t \in list, Roll(t) PROVE WrittenOK'
  BY <1>17 DEF Roll
<1>18. CASE ListFails
  BY <1>18 DEF ListFails
<1>19. CASE EndMaintenance
  BY <1>19 DEF EndMaintenance
<1>20. CASE Advanced
  BY <1>20 DEF Advanced
<1>21. CASE Midnight
  BY <1>21 DEF Midnight
<1>22. CASE RestartTables
  BY <1>22 DEF RestartTables
<1>23. CASE UNCHANGED tablesVars
  BY <1>23 DEF tablesVars
<1> QED
  BY <1>1, <1>2, <1>3, <1>4, <1>5, <1>6, <1>7, <1>8, <1>9, <1>10, <1>11, <1>12,
     <1>13, <1>14, <1>15, <1>16, <1>17, <1>18, <1>19, <1>20, <1>21, <1>22, <1>23 DEF TablesNext

\* Both invariants together.
THEOREM RetentionInvariant == TablesSpec => [](CreationInv /\ RetentionInv)
<1>1. TablesInit => CreationInv /\ RetentionInv
  BY InitCreation, InitRetention
<1>2. (CreationInv /\ RetentionInv) /\ [TablesNext]_tablesVars => (CreationInv /\ RetentionInv)'
  BY StepCreation, StepSteady, StepCutoffs, StepStale, StepMethod, StepAmount, StepWritten
     DEF RetentionInv
<1> QED
  BY <1>1, <1>2, PTL DEF TablesSpec

\* A maintenance that nothing has disturbed leaves the amount index on exactly the tables
\* of the window, no index on methods, no old statistics, and all that was written.
THEOREM RetentionIsExact == TablesSpec => []RetentionExact
<1>1. CreationInv /\ RetentionInv => RetentionExact
  <2> SUFFICES ASSUME CreationInv, RetentionInv, flushPc = "flushed", undisturbed
               PROVE  /\ amount = {d \in TxDays : d + RetainDays >= today} /\ method = {}
                      /\ \A t \in present : (t[1] \in StalePrefixes) => (t[2] + YearDays >= today)
                      /\ \A p \in RewrittenPrefixes :
                            (Flushing + YearDays >= today) => (<<p, Flushing>> \in present)
    BY DEF RetentionExact, StalePrefixes, RewrittenPrefixes
  <2>1. method = {}
    BY DEF RetentionInv, MethodGone
  <2>2. \A t \in present : (t[1] \in StalePrefixes) => (t[2] + YearDays >= today)
    BY DEF RetentionInv, StaleGone, Later
  <2>3. \A p \in RewrittenPrefixes : \E k \in 1..4 : p = Rewritten[k]
    BY DEF RewrittenPrefixes, Rewritten
  <2>4. \A p \in RewrittenPrefixes :
           (Flushing + YearDays >= today) => (<<p, Flushing>> \in present)
    BY <2>3 DEF RetentionInv, WrittenOK, Maintains
  <2>5. \A d \in TxDays : (d >= today - RetainDays) <=> (d + RetainDays >= today)
    BY Constants DEF CreationInv, TypesOK, TxDays, Days
  <2>6. amount = {d \in TxDays : d + RetainDays >= today}
    BY <2>5 DEF RetentionInv, AmountOK
  <2> QED
    BY <2>1, <2>2, <2>4, <2>6
<1> QED
  BY <1>1, RetentionInvariant, PTL
=============================================================================
