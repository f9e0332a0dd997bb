---------------------------- MODULE StatQueries -----------------------------
(***************************************************************************)
(* How the tables that a flush has written are read again: merged over a   *)
(* window of days, ranked, and put in relation to the network's total      *)
(* (database/db.go, api/concentration.go).  `tables' is the window.        *)
(***************************************************************************)
EXTENDS DailyScan

CONSTANTS PoolFactor,  \* 10: a day's pool is that many times the entries asked for
          PoolFloor    \* 1000: its least size

ASSUME PoolAssumption == PoolFactor \in Nat \ {0} /\ PoolFloor \in Nat \ {0}

Without(map, key) == Restrict(map, DOMAIN map \ {key})

\* `if _, ok := m[k]; !ok { m[k] = v } else { m[k].Merge(v) }' for all of g.
MergedInto(f, g, Merge(_, _)) ==
    [k \in DOMAIN f \cup DOMAIN g |->
        IF k \notin DOMAIN g THEN f[k]
        ELSE IF k \notin DOMAIN f THEN g[k] ELSE Merge(f[k], g[k])]

\* The maps of several days, merged one after the other.
MergedOver(maps, Merge(_, _)) == FoldLeft(LAMBDA acc, m : MergedInto(acc, m, Merge), Empty, maps)

OverDays(window, Table(_), Merge(_, _)) ==
    MergedOver([d \in DOMAIN window |-> Table(window[d])], Merge)
OverWindow(Table(_), Merge(_, _)) == OverDays(tables, Table, Merge)

FromStatistic == OverWindow(LAMBDA t : Without(t.from, "total"), UserMerge)
ToStatistic == OverWindow(LAMBDA t : Without(t.to, "total"), UserMerge)
TokenStatistics == OverWindow(LAMBDA t : Without(t.token, "total"), TokenMerge)
UserTokenStatistics(token) ==
    OverWindow(LAMBDA t : Restrict(t.userToken, {k \in DOMAIN t.userToken : k[2] = token}),
               UserTokenMerge)

\* One address over the window; a day without it contributes an empty statistic.
UserOverWindow(user) ==
    FoldLeft(LAMBDA acc, t : UserMerge(acc, IF user \in DOMAIN t.from THEN t.from[user]
                                            ELSE NewUserStatistic),
             NewUserStatistic, tables)
TotalStatistics == UserOverWindow("total")

TokenOverWindow(token) ==
    FoldLeft(LAMBDA acc, t : TokenMerge(acc, IF token \in DOMAIN t.token THEN t.token[token]
                                             ELSE NewTokenStatistic),
             NewTokenStatistic, tables)

\* The transfers of a token by and to a set of addresses, from the transactions.
TransferSummary(addresses, token, minAmountLen) ==
    LET rows == FlattenSeq(days)
        Sum(S) == [txs |-> Cardinality(S), amount |-> Total(LAMBDA i : rows[i].amount, S)]
        Matching(Side(_)) == {i \in DOMAIN rows : /\ Side(rows[i]) \in addresses
                                                  /\ rows[i].name = token
                                                  /\ Length(rows[i].amount) >= minAmountLen}
    IN  [in  |-> Sum(Matching(LAMBDA tx : tx.to)), out |-> Sum(Matching(LAMBDA tx : tx.from))]

-----------------------------------------------------------------------------
(* Rankings.  `direction' is "from" or "to".                               *)

Rows(t, direction) == Without(IF direction = "to" THEN t.to ELSE t.from, "total")

\* ORDER BY metric DESC LIMIT k: any k rows such that no other has more.
IsTop(keys, Value(_), S, k) ==
    /\ keys \subseteq S
    /\ Cardinality(keys) = IF Cardinality(S) < k THEN Cardinality(S) ELSE k
    /\ \A a \in keys, b \in S \ keys : Value(a) >= Value(b)

CandidateK(n) == IF PoolFactor * n < PoolFloor THEN PoolFloor ELSE PoolFactor * n

\* What the days' pools may be: by day, a set of addresses.
Pools(direction, metric, n) ==
    {p \in [1..Len(tables) -> SUBSET Addrs] :
        \A d \in DOMAIN p : LET rows == Rows(tables[d], direction)
                            IN  IsTop(p[d], LAMBDA a : Metric(rows[a], metric), DOMAIN rows,
                                      CandidateK(n))}

TopTransferStats(direction, pool) ==
    MergedOver([d \in DOMAIN tables |-> Restrict(Rows(tables[d], direction), pool[d])], UserMerge)

\* Mutant of DayTotal: the last day's pool stands for the day.
DayTotalOfLargest(t, direction, metric) ==
    LET rows == Rows(t, direction)
    IN  Max({Metric(rows[a], metric) : a \in DOMAIN rows} \cup {0})

\* from_stats_ has a row of totals, to_stats_ is summed up.
DayTotal(t, direction, metric) ==
    IF direction = "to"
    THEN Total(LAMBDA a : Metric(t.to[a], metric), DOMAIN t.to \ {"total"})
    ELSE IF "total" \in DOMAIN t.from THEN Metric(t.from["total"], metric) ELSE 0

TransferTotal(direction, metric) ==
    Total(LAMBDA d : DayTotal(tables[d], direction, metric), DOMAIN tables)

\* The n largest of the candidates, and their combined value.
Concentration(candidates, metric, n) ==
    LET value(a) == Metric(candidates[a], metric)
        list == CHOOSE keys \in SUBSET DOMAIN candidates :
                    IsTop(keys, value, DOMAIN candidates, n)
    IN  [list |-> list, topNSum |-> Total(value, list)]

-----------------------------------------------------------------------------
(* Properties, of windows that are complete                                *)

WindowDone == (job = "flush") /\ (day > Len(days))

\* A share of the network's total is a share: the entries of a ranking, merged from the
\* days' pools, never have more than the address really has nor together more than the
\* total, although the total is read from another row, or summed, and the pools are cut;
\* and when no day's pool was cut, the ranking is the true one (topAddrs).
SharesOfTotal ==
    WindowDone =>
        \A direction \in {"from", "to"}, metric \in Metrics :
            LET exact == IF direction = "to" THEN ToStatistic ELSE FromStatistic
                Uncut(n) == \A d \in DOMAIN tables :
                               Cardinality(DOMAIN Rows(tables[d], direction)) <= CandidateK(n)
            IN  \A n \in 1..2 : \A pool \in Pools(direction, metric, n) :
                    LET candidates == TopTransferStats(direction, pool)
                        top == Concentration(candidates, metric, n)
                    IN  /\ \A a \in top.list :
                              Metric(candidates[a], metric) <= Metric(exact[a], metric)
                        /\ top.topNSum <= TransferTotal(direction, metric)
                        /\ Uncut(n) => (top.topNSum = Concentration(exact, metric, n).topNSum)

\* What Accumulate makes of all the rows, if they were of one day.
OneDay == FoldLeft(LAMBDA c, tx : IF tx.type = TransferType THEN c ELSE Accumulate(c, tx),
                   NewCache, FlattenSeq(days))

TransfersOfLength(a, length) ==
    LET rows == FlattenSeq(days)
    IN  Cardinality({i \in DOMAIN rows : /\ rows[i].owner = a /\ (rows[i].type = 1)
                                        /\ Length(rows[i].amount) = length})

InternalTransfers(token) ==
    {i \in DOMAIN FlattenSeq(days) : /\ FlattenSeq(days)[i].type = TransferType
                                     /\ FlattenSeq(days)[i].name = token}

\* Merging the statistics of the days gives what one scan over all of them would have
\* given, down to the histograms, whose cells move when a new length is inserted; a
\* histogram's cells are the numbers of transfers of that length, and read back from the
\* JSON form they are the same; and the summary that reads the transactions themselves
\* differs from the statistics by the transfers inside contracts only.
WindowIsOneScan ==
    WindowDone =>
        /\ FromStatistic = Without(OneDay.from, "total")
        /\ TotalStatistics = (IF "total" \in DOMAIN OneDay.from THEN OneDay.from["total"]
                              ELSE NewUserStatistic)
        /\ \A a \in DOMAIN FromStatistic : UserOverWindow(a) = OneDay.from[a]
        /\ ToStatistic = OneDay.to
        /\ TokenStatistics = Without(OneDay.token, "total")
        /\ \A name \in DOMAIN TokenStatistics : TokenOverWindow(name) = TokenStatistics[name]
        /\ \A token \in ValidTokens :
              UserTokenStatistics(token) =
                  Restrict(OneDay.userToken, {k \in DOMAIN OneDay.userToken : k[2] = token})
        /\ \A a \in DOMAIN FromStatistic, length \in 1..MaxLength :
              GetLength(FromStatistic[a].trx, length) = TransfersOfLength(a, length)
        /\ \A a \in DOMAIN FromStatistic :
              ScanLegacy(Counts(FromStatistic[a].trx)) = FromStatistic[a].trx
        /\ \A a \in Addrs, token \in ValidTokens :
              LET stat     == UserTokenStatistics(token)
                  summary  == TransferSummary({a}, token, 0)
                  internal == InternalTransfers(token)
              IN  /\ summary.out.txs
                        = (IF <<a, token>> \in DOMAIN stat THEN stat[<<a, token>>].from.txs ELSE 0)
                          + Cardinality({i \in internal : FlattenSeq(days)[i].from = a})
                  /\ summary.in.amount
                        = (IF <<a, token>> \in DOMAIN stat THEN stat[<<a, token>>].to.amount ELSE 0)
                          + Total(LAMBDA i : FlattenSeq(days)[i].amount,
                                  {i \in internal : FlattenSeq(days)[i].to = a})

=============================================================================
