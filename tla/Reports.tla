------------------------------ MODULE Reports ------------------------------
(***************************************************************************)
(* What the HTTP handlers derive from the statistics (api/server.go): the  *)
(* figures of exchanges by day, week and token, the changes from the       *)
(* window before, and the boards of stakes and delegations, which are made *)
(* from the transactions (api/top_stake.go).  Handlers only read.  A list  *)
(* that a handler sorts by a figure is the set of its entries here.        *)
(***************************************************************************)
EXTENDS StatQueries

CONSTANTS MixedCase,  \* the valid tokens whose name is not in capitals
          Assets,     \* TRC10 tokens
          Requests    \* the lists of exchanges that are asked for

\* TRX is no asset, and USDT is a contract.
ASSUME ReportAssumption ==
    /\ {"TRX", USDT} \cap Assets = {} /\ USDT # "TRX"
    /\ NoName \notin {"TRX", USDT}

\* The names under which the reports keep what is not of one exchange or token are names
\* of none, and what the registry knows are exchanges.  A request is any list of names:
\* nothing checks that they are exchanges, or different ones; "Nobody" is any other name.
ASSUME ReportNamesAssumption ==
    /\ {"All", "total_fee", "Nobody"} \cap ExchangeNames = {} /\ "Special" \notin ValidTokens
    /\ Requests \subseteq Seq(ExchangeNames \cup {"All", "Nobody"})
    /\ \A s \in Scans : /\ s.exchangeOf \in [Addrs -> ExchangeNames \cup {NoName}]
                        /\ s.chargerOf \in [Addrs -> ExchangeNames \cup {NoName}]

Flows == {"charge", "collect", "withdraw"}

\* A window of n days from the first on; a day without a table contributes nothing.
Window(first, n) ==
    SubSeq(tables, Max({1, first}), Min({Len(tables), first + n - 1}))

\* map[k] = v.
Put(map, k, v) == [x \in DOMAIN map \cup {k} |-> IF x = k THEN v ELSE map[x]]

-----------------------------------------------------------------------------
(* Exchanges.  A day's table: exchange -> token -> statistic.              *)

\* A name is found by its capitals: one that is not in capitals never is.
GetTokenName(name) == IF name \in ValidTokens \ MixedCase THEN name ELSE NoName

MergeAll(S, f(_)) ==
    MapThenFoldSet(ExchangeMerge, NewExchangeStatistic, f, LAMBDA T : CHOOSE x \in T : TRUE, S)

ExchangeStatistics(w) ==
    OverDays(w, LAMBDA t : [e \in DOMAIN t |-> t[e][InAll]], ExchangeMerge)

\* Mutant of TokensOf: the row of all tokens passes for a token.
TokensWithAll(row) == DOMAIN row \ {"Special"}

TokensOf(row) == DOMAIN row \ {"Special", InAll}

\* The rows of one exchange and day by the names that tokens are found under.
ByName(row) ==
    [name \in {GetTokenName(k) : k \in TokensOf(row)} |->
        MergeAll({k \in TokensOf(row) : GetTokenName(k) = name}, LAMBDA k : row[k])]

MergeByName(f, g) == MergedInto(f, g, ExchangeMerge)

ExchangeTokenStatistics(w) ==
    LET ofDay(t) == [e \in {x \in DOMAIN t : TokensOf(t[x]) # {}} |-> ByName(t[e])]
        merged    == OverDays(w, ofDay, MergeByName)
    IN  Put(merged, "All", MapThenFoldSet(MergeByName, Empty, LAMBDA e : merged[e],
                                          LAMBDA T : CHOOSE x \in T : TRUE, DOMAIN merged))

\* exchangesStatistic: the rows of the exchanges, and totals without activations.
ExchangeTotals(w) ==
    LET merged   == ExchangeStatistics(w)
        Sum(flow, c) == Total(LAMBDA e : merged[e][flow].cost[c], DOMAIN merged)
    IN  [energy      |-> Total(LAMBDA flow : Sum(flow, "EnergyTotal"), Flows),
         fee         |-> Total(LAMBDA flow : Sum(flow, "Fee"), Flows),
         energyUsage |-> Sum("charge", "EnergyUsage") + Sum("collect", "EnergyUsage")]

\* getOneWeekExchangeStatistics: the fees by exchange and in all.
FeesOfExchanges(w) ==
    LET merged == ExchangeStatistics(w)
        fees  == [e \in DOMAIN merged |-> merged[e].totalFee]
    IN  IF merged = Empty THEN Empty
        ELSE Put(fees, "total_fee", Total(LAMBDA e : fees[e], DOMAIN fees))

\* What of a statistic the tables by token show: flow -> number and fee.
Shown(s) == [flow \in Flows |-> [txs |-> s[flow].txs, fee |-> s[flow].cost["Fee"]]]

\* exchangesTokenStatistic: one token, or "All" of them, of one exchange; and the row
\* "Other": what all exchanges have, less what each name of the list has been shown to
\* have.  A name that is there twice is merged twice.
Lookup(merged, e, token) ==
    IF e \notin DOMAIN merged THEN NewExchangeStatistic
    ELSE IF token = "All" THEN MergeAll(DOMAIN merged[e], LAMBDA k : merged[e][k])
    ELSE IF token \in DOMAIN merged[e] THEN merged[e][token] ELSE NewExchangeStatistic

Listed(merged, asked, token) ==
    Shown(MergeAll(DOMAIN asked, LAMBDA i : Lookup(merged, asked[i], token)))

Other(merged, asked, token) ==
    LET all    == Lookup(merged, "All", token)
        listed == Listed(merged, asked, token)
    IN  IF (token # "All") /\ (token \notin DOMAIN merged["All"]) THEN Shown(NewExchangeStatistic)
        ELSE [flow \in Flows |-> [txs |-> all[flow].txs - listed[flow].txs,
                                  fee |-> all[flow].cost["Fee"] - listed[flow].fee]]

\* analyzeExchangeTokenStatistics: per flow, the tokens that have any transaction,
\* and the sums that percentages are taken of.
Analysis(merged, e) ==
    [flow \in Flows |->
        LET used == {k \in DOMAIN merged[e] : merged[e][k][flow].txs > 0}
        IN  [rows |-> [k \in used |-> Shown(merged[e][k])[flow]],
             txs  |-> Total(LAMBDA k : merged[e][k][flow].txs, used),
             fee  |-> Total(LAMBDA k : merged[e][k][flow].cost["Fee"], used)]]

\* exchangesStatisticNow: a scan of one day by the old rules, fees and numbers only.
NoneYet == [totalFee |-> 0, flows |-> Shown(NewExchangeStatistic)]
ShownAdd(s, flow, tx) ==
    [totalFee |-> s.totalFee + tx.cost["Fee"],
     flows    |-> [s.flows EXCEPT ![flow] = [txs |-> @.txs + 1, fee |-> @.fee + tx.cost["Fee"]]]]
ExchangesNow(rows) ==
    FoldLeft(LAMBDA map, tx :
                 IF (tx.type = TransferType) \/ (OldClass(tx)[1] = "none") THEN map
                 ELSE Updated(map, OldClass(tx)[2], NoneYet,
                              LAMBDA s : ShownAdd(s, OldClass(tx)[1], tx)),
             Empty, rows)

\* The report at the end of DoExchangeStatisticsDiff.
StatisticIn(map, e) == IF e \in DOMAIN map THEN map[e] ELSE NewExchangeStatistic
Delta(e) ==
    LET o == StatisticIn(old, e)  n == StatisticIn(new, e)
    IN  [withdrawTxs   |-> n.withdraw.txs - o.withdraw.txs,
         withdrawFee   |-> n.withdraw.cost["Fee"] - o.withdraw.cost["Fee"],
         collectTxs    |-> n.collect.txs - o.collect.txs,
         collectFee    |-> n.collect.cost["Fee"] - o.collect.cost["Fee"],
         activationTxs |-> n.activationTxs - o.activationTxs,
         activationFee |-> n.activationFee - o.activationFee]
Differing == {e \in DOMAIN old \cup DOMAIN new : \E k \in DOMAIN Delta(e) : Delta(e)[k] # 0}
TotalDelta(k) == Total(LAMBDA e : Delta(e)[k], Differing)

-----------------------------------------------------------------------------
(* Changes from the window before.                                         *)

\* topTokens: the metric's change of each token of the present window.
TokenChanges(first, n, metric) ==
    LET F(s) == IF metric = "tx" THEN s.txs ELSE s.cost[metric]
        Stats(w) == OverDays(w, LAMBDA t : Without(t.token, "total"), TokenMerge)
        cur == Stats(Window(first, n))
        pre == Stats(Window(first - n, n))
    IN  [k \in DOMAIN cur |-> F(cur[k]) - (IF k \in DOMAIN pre THEN F(pre[k]) ELSE 0)]

\* Who has paid fees for transfers of a token: the days without fees do not count.
Payers(w, token) ==
    OverDays(w, LAMBDA t : Restrict(t.userToken,
                                    {k \in DOMAIN t.userToken :
                                        (k[2] = token) /\ (t.userToken[k].from.cost["Fee"] > 0)}),
             UserTokenMerge)

\* Mutant of UserTokenChanges: who has stopped paying is forgotten.
ChangesOfPresent(first, n, token) ==
    LET cur == Payers(Window(first, n), token)
        pre == Payers(Window(first - n, n), token)
    IN  [k \in DOMAIN cur |->
            [fee |-> cur[k].from.cost["Fee"] -
                        (IF k \in DOMAIN pre THEN pre[k].from.cost["Fee"] ELSE 0),
             txs |-> 0]]

\* topUserTokenChange.  The entry of somebody new keeps, as its change of number,
\* the number of transfers received: only the fee is set for everybody.
UserTokenChanges(first, n, token) ==
    LET cur == Payers(Window(first, n), token)
        pre == Payers(Window(first - n, n), token)
    IN  [k \in DOMAIN cur \cup DOMAIN pre |->
            IF k \notin DOMAIN pre
            THEN [fee |-> cur[k].from.cost["Fee"], txs |-> cur[k].to.txs]
            ELSE IF k \notin DOMAIN cur
            THEN [fee |-> -pre[k].from.cost["Fee"], txs |-> -pre[k].from.txs]
            ELSE [fee |-> cur[k].from.cost["Fee"] - pre[k].from.cost["Fee"],
                  txs |-> cur[k].from.txs - pre[k].from.txs]]

IncreaseSum(diff) == Total(LAMBDA k : diff[k].fee, {k \in DOMAIN diff : diff[k].fee > 0})
DecreaseSum(diff) == Total(LAMBDA k : diff[k].fee, {k \in DOMAIN diff : diff[k].fee < 0})

\* trxStatistics: by address, what it has sent more often than before.
TRXChanges(first, n, counter) ==
    LET Stats(w) == OverDays(w, LAMBDA t : Without(t.from, "total"), UserMerge)
        cur == Stats(Window(first, n))
        pre == Stats(Window(first - n, n))
        In(merged, a) == IF a \in DOMAIN merged THEN merged[a].count[counter] ELSE 0
    IN  [a \in DOMAIN cur \cup DOMAIN pre |-> In(cur, a) - In(pre, a)]

\* tokenStatistics: the assets and the other contracts, each in one row.
IsContract(name) == name \notin {"TRX"} \cup Assets
TokenGroups(w) ==
    LET merged == OverDays(w, LAMBDA t : Without(t.token, "total"), TokenMerge)
        Group(S) == MapThenFoldSet(TokenMerge, NewTokenStatistic, LAMBDA k : merged[k],
                                   LAMBDA T : CHOOSE x \in T : TRUE, S)
    IN  [trc10    |-> Group(DOMAIN merged \cap Assets),
         contract |-> Group({k \in DOMAIN merged : IsContract(k) /\ (k # USDT)}),
         all      |-> Group(DOMAIN merged)]

\* topUsers: the days' own top n, merged, and of these the n largest.
TopUsers(w, metric, n) ==
    LET rows(t) == Without(t.from, "total")
        Tops == {p \in [1..Len(w) -> SUBSET Addrs] :
                    \A d \in DOMAIN p : IsTop(p[d], LAMBDA a : Metric(rows(w[d])[a], metric),
                                              DOMAIN rows(w[d]), n)}
    IN  {MergedOver([d \in DOMAIN w |-> Restrict(rows(w[d]), p[d])], UserMerge) : p \in Tops}

-----------------------------------------------------------------------------
(* Boards.                                                                 *)

StakeTypes == {12, 54, 55, 59}

\* Mutant of StakeTxs: the query folds types as the aggregation does.
StakeTxsFolded(rows) == {i \in DOMAIN rows : (rows[i].type % 100) \in StakeTypes}

\* GetStakeRelatedTxsByDateDays.  A transfer inside a contract has type 255, which
\* buildTopStake would take for an unfreeze: the query leaves it out.
StakeTxs(rows) == {i \in DOMAIN rows : rows[i].type \in StakeTypes \cup {t + 100 : t \in StakeTypes}}

Staked(tx) == IF (tx.type % 100) \in {54, 59} THEN tx.amount ELSE 0
Unstaked(tx) == IF (tx.type % 100) \in {55, 12} THEN tx.amount ELSE 0

\* buildTopStake: every owner of one of these transactions enters both rankings.
Score(rows, isStake) ==
    LET txs == StakeTxs(rows)
        amount == [i \in txs |-> IF isStake THEN Staked(rows[i]) ELSE Unstaked(rows[i])]
    IN  [a \in {rows[i].owner : i \in txs} |-> SumOver(amount, {i \in txs : rows[i].owner = a})]

\* topDelegate, for all accounts: the n largest of either type, and of these the n largest.
LargestOfType(rows, type, n) ==
    {S \in SUBSET {i \in DOMAIN rows : rows[i].type = type} :
        IsTop(S, LAMBDA i : rows[i].amount, {i \in DOMAIN rows : rows[i].type = type}, n)}
TopDelegations(rows, type, n) ==
    {S \in SUBSET DOMAIN rows :
        \E T \in LargestOfType(rows, type, n), U \in LargestOfType(rows, type + 100, n) :
            IsTop(S, LAMBDA i : rows[i].amount, T \cup U, n)}

-----------------------------------------------------------------------------
(* Properties                                                              *)

ScanDone(j) == (job = j) /\ (day > Len(days))

\* The places of a list that name what has been listed before: a name that is there
\* already, or all exchanges.
Again(asked) == {i \in DOMAIN asked : asked[i] = "All" \/ \E j \in 1..(i - 1) : asked[j] = asked[i]}

\* The same figure of an exchange by different reports is the same: the analysis by token
\* sums up to the row of all tokens; the fees by week are those of exchangesStatistic and
\* the activations, which its totals leave out; and "Other", which exchangesTokenStatistic
\* computes by subtraction, is what the exchanges that are not in the list have, less what
\* the list counts again: exact, and not negative, for a list of different exchanges and
\* unknown names, too small by just the repetitions, and possibly negative, for one that
\* repeats a name or has "All" in it.  Also for tokens that are found under no name, and
\* for windows that begin before the first table.
ExchangeReportsAgree ==
    ScanDone("exchange") =>
        \A first \in 0..2, n \in 1..2 :
            LET w         == Window(first, n)
                merged     == ExchangeStatistics(w)
                byToken   == ExchangeTokenStatistics(w)
                exchanges == DOMAIN byToken \ {"All"}
            IN  /\ \A e \in exchanges, flow \in Flows :
                      LET sums == Analysis(byToken, e)[flow]
                      IN  [txs |-> sums.txs, fee |-> sums.fee] = Shown(merged[e])[flow]
                /\ \A e \in DOMAIN merged \ exchanges : merged[e].totalFee = merged[e].activationFee
                /\ (merged # Empty) =>
                       FeesOfExchanges(w)["total_fee"] =
                           ExchangeTotals(w).fee
                           + Total(LAMBDA e : merged[e].activationFee, DOMAIN merged)
                /\ \A asked \in Requests, token \in {"All"} \cup DOMAIN byToken["All"],
                      flow \in Flows :
                      LET other == Other(byToken, asked, token)[flow]
                          rest  == exchanges \ {asked[i] : i \in DOMAIN asked}
                          due   == Listed(byToken, [e \in rest |-> e], token)[flow]
                          twice == Listed(byToken, Restrict(asked, Again(asked)), token)[flow]
                      IN  /\ other = [txs |-> due.txs - twice.txs, fee |-> due.fee - twice.fee]
                          /\ (Again(asked) = {}) => (other.txs >= 0) /\ (other.fee >= 0)

\* The rows that the rules of DoExchangeStatistics count although the amount is small.
SmallCounted ==
    LET rows == FlattenSeq(days)
    IN  {i \in DOMAIN rows : /\ rows[i].type # TransferType /\ IsSmall(rows[i])
                             /\ Class(rows[i])[1] # "none"}

\* The change of the rules loses no transfer and counts none twice: what the new rules
\* have more than the old ones, in numbers and in fees, is small transfers, although
\* transfers move between exchanges and between flows; and exchangesStatisticNow, which
\* has the old rules in code of its own, shows what they do.
RulesKeepTransfers ==
    ScanDone("diff") =>
        LET rows == FlattenSeq(days)
            Txs(map) == Total(LAMBDA e : map[e].activationTxs
                                         + Total(LAMBDA flow : map[e][flow].txs, Flows), DOMAIN map)
            Fee(map) == Total(LAMBDA e : map[e].totalFee, DOMAIN map)
            Moved(k) == Total(LAMBDA e : new[e].charge[k], DOMAIN new)
                        - Total(LAMBDA e : old[e].charge[k], DOMAIN old)
            now == ExchangesNow(rows)
        IN  /\ Txs(new) - Txs(old) = Cardinality(SmallCounted)
            /\ Fee(new) - Fee(old) = Total(LAMBDA i : rows[i].cost["Fee"], SmallCounted)
            /\ TotalDelta("withdrawTxs") + TotalDelta("collectTxs") + TotalDelta("activationTxs")
                  + Moved("txs") = Cardinality(SmallCounted)
            /\ DOMAIN now = DOMAIN old
            /\ \A e \in DOMAIN now : /\ now[e].flows = Shown(old[e])
                                     /\ now[e].totalFee = old[e].totalFee

\* The transactions of a day of which P holds, and their fees.
DayFees(d, P(_)) ==
    IF d \notin DOMAIN days THEN 0
    ELSE Total(LAMBDA i : days[d][i].cost["Fee"],
               {i \in DOMAIN days[d] : days[d][i].type # TransferType /\ P(days[d][i])})
DayCount(d, P(_)) ==
    IF d \notin DOMAIN days THEN 0
    ELSE Cardinality({i \in DOMAIN days[d] : days[d][i].type # TransferType /\ P(days[d][i])})

\* Who has paid fees for transfers of a token on a day, what some have sent and received.
IsTransferOf(tx, token) == (tx.name = token) /\ (tx.from # NoAddr) /\ (tx.to # NoAddr)
PaysOn(d, token) ==
    {a \in Addrs : DayFees(d, LAMBDA tx : IsTransferOf(tx, token) /\ (tx.from = a)) > 0}
FromOn(d, token, S) == DayCount(d, LAMBDA tx : IsTransferOf(tx, token) /\ (tx.from \in S))
ToOn(d, token, S) == DayCount(d, LAMBDA tx : IsTransferOf(tx, token) /\ (tx.to \in S))

\* The changes that the reports show, of those who are new, who have stayed and who have
\* gone, add up to the difference of the two windows' transactions, in fees, in transfers
\* of TRX and by token.  The changes of number of those who pay for a token do not: they
\* add up to what those who have stayed have sent more, and those who have gone no longer
\* send, but what those who are new have RECEIVED (topUserTokenChange sets only the fee of
\* somebody new, and shows ToTXCount).  The groups of tokens are disjoint and all there
\* is; and topUsers never shows more than an address has.
ChangesAddUp ==
    WindowDone =>
        \A first \in 1..2 :
            /\ \A token \in ValidTokens :
                  LET diff   == UserTokenChanges(first, 1, token)
                      now    == PaysOn(first, token)
                      before == PaysOn(first - 1, token)
                      Transfer(tx) == IsTransferOf(tx, token)
                  IN  /\ IncreaseSum(diff) + DecreaseSum(diff)
                            = DayFees(first, Transfer) - DayFees(first - 1, Transfer)
                      /\ Total(LAMBDA k : diff[k].txs, DOMAIN diff)
                            = FromOn(first, token, now \cap before)
                              + ToOn(first, token, now \ before)
                              - FromOn(first - 1, token, before)
            /\ LET diff == TRXChanges(first, 1, "TRXTotal")
                   IsTRX(tx) == tx.type \in {1, 101}
               IN  Total(LAMBDA a : diff[a], DOMAIN diff)
                     = DayCount(first, IsTRX) - DayCount(first - 1, IsTRX)
            /\ LET diff == TokenChanges(first, 1, "Fee")
                   Present(tx) == tx.name \in DOMAIN diff
               IN  Total(LAMBDA k : diff[k], DOMAIN diff)
                     = DayFees(first, Present) - DayFees(first - 1, Present)
            /\ LET diff == TokenChanges(first, 1, "tx")
                   Present(tx) == tx.name \in DOMAIN diff
               IN  Total(LAMBDA k : diff[k], DOMAIN diff)
                     = DayCount(first, Present) - DayCount(first - 1, Present)
            /\ \A n \in 1..2 :
                  LET w == Window(first, n)
                      groups == TokenGroups(w)
                      usdt == Total(LAMBDA d : DayCount(d, LAMBDA tx : tx.name = USDT),
                                    first..(first + n - 1))
                      trx == Total(LAMBDA d : DayCount(d, LAMBDA tx : tx.name = "TRX"),
                                   first..(first + n - 1))
                  IN  /\ groups.trc10.txs + groups.contract.txs + usdt + trx = groups.all.txs
                      /\ \A top \in TopUsers(w, "fee", 1) : \A a \in DOMAIN top :
                            Metric(top[a], "fee") <= Metric(FromStatistic[a], "fee")

\* The boards are exact: the scores of all owners are the amounts that were frozen and
\* given back, whatever else has the same last digits of its type; and taking the n
\* largest of either type first gives the n largest of both ("Same result as \`type IN
\* (a,b) ORDER BY amount DESC LIMIT n\`", db.go:632).
BoardsExact ==
    (job = "boards") =>
        LET rows == FlattenSeq(days)
            Sum(types) == LET S == {i \in DOMAIN rows : rows[i].type \in types}
                          IN  SumOver([i \in S |-> rows[i]["amount"]], S)
            SumOfAll(scores) == SumOver(scores, DOMAIN scores)
        IN  /\ SumOfAll(Score(rows, TRUE)) = Sum({54, 59, 154, 159})
            /\ SumOfAll(Score(rows, FALSE)) = Sum({12, 55, 112, 155})
            /\ \A n \in 1..2, type \in {57, 58} : \A S \in TopDelegations(rows, type, n) :
                  IsTop(S, LAMBDA i : rows[i].amount,
                        {i \in DOMAIN rows : rows[i].type \in {type, type + 100}}, n)

=============================================================================
