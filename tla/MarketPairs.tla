---------------------------- MODULE MarketPairs -----------------------------
(***************************************************************************)
(* The market pairs of a token: rows that a cron job polls, the daily rows *)
(* of average depths that the loop of the database adds to the same tables *)
(* under an impossible hour, the figures that are read from both over a    *)
(* window of days, and the rules that a chat sets for pairs.  Tables are   *)
(* by month, rows by day of the month; the clock is UTC.                   *)
(***************************************************************************)
EXTENDS Integers, Sequences, FiniteSets, Functions, FiniteSetsExt, SequencesExt, Sums

CONSTANTS PairNames,     \* <exchange>-<pair>
          PricePair,     \* the pair whose price is the token's
          Observations,  \* by pair what a poll may return: [price, volume, depth, percent]
          Slots,         \* times of a day at which polls happen, 0 for midnight
          DaysInMonth,
          FinalDay,      \* bound: the last day of the model
          MaxPolls,      \* bound: polls that are saved
          Limits,        \* what a rule may demand
          MaxRules,      \* bound
          NoPair

ASSUME MarketAssumption ==
    /\ IsFiniteSet(PairNames)
    /\ \A o \in Observations : \A p \in DOMAIN o : p \in PairNames
    /\ DaysInMonth \in Nat \ {0} /\ FinalDay \in Nat /\ 0 \in Slots

\* "2500", the hour and minute of a daily row; it is a row of no poll.
DailySlot == 25
ASSUME SlotAssumption == DailySlot \notin Slots
\* Prices, volumes and depths are in whole units, and never negative.
ASSUME QuoteAssumption ==
    /\ \A o \in Observations : \A p \in DOMAIN o :
          {o[p].price, o[p].volume, o[p].depth, o[p].percent} \subseteq Nat
    /\ Slots \subseteq Nat /\ Limits \subseteq Nat


Month(day) == day \div DaysInMonth
DayOfMonth(day) == day % DaysInMonth

VARIABLES today, slot,
          polled,    \* cron has started the poll of this slot
          fetched,   \* the answer that is not saved yet, or <<>>
          pairRows,  \* market_pair_statistics_<month>, all months, in the order of ids
          tracked,   \* the day the tracker is at
          statsCh,   \* the finished days still to be given to the loop
          depthDay,  \* the day the loop writes, or -1
          depthLeft, \* the rows it has still to create
          history,   \* the days of existing tables the loop has still to look at
          rules      \* market_pair_rules: [id, pair, volume, depth]

marketVars == <<today, slot, polled, fetched, pairRows, tracked, statsCh, depthDay, depthLeft,
                history, rules>>
clock == <<today, slot, polled>>
depth == <<depthDay, depthLeft, history>>

InDay(r, day) == (r.month = Month(day)) /\ (r.dd = DayOfMonth(day))
Indices(Test(_)) == {i \in DOMAIN pairRows : Test(pairRows[i])}
RowSum(S, figure) == SumOver([i \in S |-> pairRows[i][figure]], S)

-----------------------------------------------------------------------------
(* DoMarketPairStatistics                                                  *)

PollOf(r) == <<r.month, r.dd, r.slot>>
PollsOf(S) == {PollOf(pairRows[i]) : i \in S}
Saved == Cardinality(PollsOf(Indices(LAMBDA r : r.slot # DailySlot)))

\* GetMarketPairs stamps the rows with the day of the month and the time.
Poll ==
    /\ ~polled /\ polled' = TRUE
    /\ fetched = <<>> /\ Saved < MaxPolls
    /\ \E o \in Observations :
          fetched' = SetToSeq({[day |-> today, dd |-> DayOfMonth(today), slot |-> slot, pair |-> p,
                                price |-> o[p].price, volume |-> o[p].volume,
                                depth |-> o[p].depth, percent |-> o[p].percent] :
                                  p \in DOMAIN o})
    /\ UNCHANGED <<today, slot, pairRows, tracked, statsCh, depth, rules>>

\* SaveMarketPairStatistics takes the table of the month it is by now; requests have no
\* timeout.  `late' is not in the code: the row's day is over.
Save ==
    /\ fetched # <<>>
    /\ pairRows' = pairRows \o
           [i \in DOMAIN fetched |->
               [month |-> Month(today),     dd      |-> fetched[i].dd,
                slot  |-> fetched[i].slot,  pair    |-> fetched[i].pair,
                price |-> fetched[i].price, volume  |-> fetched[i].volume,
                depth |-> fetched[i].depth, percent |-> fetched[i].percent,
                late  |-> fetched[i].day < today]]
    /\ fetched' = <<>>
    /\ UNCHANGED <<clock, tracked, statsCh, depth, rules>>

\* The page cannot be had, or the rows cannot be saved: they are lost.
FetchedIsLost ==
    /\ fetched # <<>> /\ fetched' = <<>>
    /\ UNCHANGED <<clock, pairRows, tracked, statsCh, depth, rules>>

\* Time moves on.
Tick ==
    /\ \/ slot + 1 \in Slots /\ slot' = slot + 1 /\ today' = today
       \/ slot + 1 \notin Slots /\ today < FinalDay /\ slot' = 0 /\ today' = today + 1
    /\ polled' = FALSE
    /\ UNCHANGED <<fetched, pairRows, tracked, statsCh, depth, rules>>

-----------------------------------------------------------------------------
(* marketPairDepthStatisticsLoop                                           *)

\* The tracker is past a day; it waits until the loop takes the day.
DayTracked ==
    /\ tracked < today /\ statsCh = <<>>
    /\ statsCh' = <<tracked>> /\ tracked' = tracked + 1
    /\ UNCHANGED <<clock, fetched, pairRows, depth, rules>>

HasDailyRow(day) ==
    \E i \in DOMAIN pairRows : InDay(pairRows[i], day) /\ (pairRows[i].slot = DailySlot)

Sampled(day, p) == Indices(LAMBDA r : InDay(r, day) /\ (r.pair = p) /\ (r.percent > 0))

\* In instances depths are chosen so that an average is a whole number.
DailyRow(day, p) ==
    [month |-> Month(day), dd |-> DayOfMonth(day), slot |-> DailySlot, pair |-> p,
     price |-> 0, volume |-> 0, percent |-> 0, late |-> FALSE,
     depth |-> RowSum(Sampled(day, p), "depth") \div Cardinality(Sampled(day, p))]

\* doMarketPairDepthStatistics: a day that has a daily row has all of them.
DepthRows(day) ==
    IF HasDailyRow(day) THEN {}
    ELSE {DailyRow(day, p) : p \in {q \in PairNames : Sampled(day, q) # {}}}

Take(day) ==
    /\ depthLeft' = DepthRows(day)
    /\ depthDay' = IF DepthRows(day) = {} THEN -1 ELSE day

\* The days a finished day's message or the history of a new process asks for.
TakeFinishedDay ==
    /\ depthDay = -1 /\ statsCh # <<>>
    /\ Take(Head(statsCh)) /\ statsCh' = <<>>
    /\ UNCHANGED <<clock, fetched, pairRows, tracked, history, rules>>

TakeHistory ==
    /\ depthDay = -1 /\ history # {}
    /\ Take(Min(history)) /\ history' = history \ {Min(history)}
    /\ UNCHANGED <<clock, fetched, pairRows, tracked, statsCh, rules>>

CreateDailyRow ==
    /\ depthLeft # {}
    /\ \E r \in depthLeft :
          /\ \/ pairRows' = Append(pairRows, r)
             \/ pairRows' = pairRows  \* the error of Create is ignored
          /\ depthLeft' = depthLeft \ {r}
    /\ depthDay' = IF depthLeft' = {} THEN -1 ELSE depthDay
    /\ UNCHANGED <<clock, fetched, tracked, statsCh, history, rules>>

\* Mutant of Finished: today counts as a day of the past.
FinishedOrToday(day) == day <= today

Finished(day) == day < today

\* A new process goes through all days of the months that have a table.
RestartMarket ==
    /\ history' = {day \in 0..FinalDay : /\ Finished(day)
                                         /\ \E i \in DOMAIN pairRows : pairRows[i].month = Month(day)}
    /\ fetched' = <<>> /\ statsCh' = <<>> /\ depthDay' = -1 /\ depthLeft' = {}
    /\ UNCHANGED <<clock, pairRows, tracked, rules>>

-----------------------------------------------------------------------------
(* Rules                                                                   *)

\* One number is the least volume and the least depth.
Rule(id, pair, least) == [id |-> id, pair |-> pair, volume |-> least, depth |-> least]

\* ContainExchangeAndPairInMarketPairStatistics: in the table of this month.
IsKnownPair(p) ==
    \E i \in DOMAIN pairRows : (pairRows[i].month = Month(today)) /\ (pairRows[i].pair = p)

AddRule(p, least) ==
    /\ IsKnownPair(p) /\ Cardinality(rules) < MaxRules
    /\ \A r \in rules : r.pair # p
    /\ rules' = rules \cup {Rule(Max({r.id : r \in rules} \cup {0}) + 1, p, least)}
    /\ UNCHANGED <<clock, fetched, pairRows, tracked, statsCh, depth>>

\* GetMarketPairRuleByID: Find does not report that there is no such rule, so that an empty
\* one comes back, whose id is 0 ...
RuleByID(id) == LET found == {r \in rules : r.id = id}
                IN  IF found = {} THEN Rule(0, NoPair, 0) ELSE CHOOSE r \in found : TRUE

\* ... and Save inserts it as a new one.
EditRule(id, least) ==
    LET rule  == RuleByID(id)
        newID == IF rule.id = 0 THEN Max({r.id : r \in rules} \cup {0}) + 1 ELSE rule.id
    IN  /\ (rule.id = 0) => (Cardinality(rules) < MaxRules)
        /\ rules' = (rules \ {rule}) \cup {Rule(newID, rule.pair, least)}
        /\ UNCHANGED <<clock, fetched, pairRows, tracked, statsCh, depth>>

-----------------------------------------------------------------------------
(* Figures of the `n' days from `first' on                                 *)

Priced(day) == Indices(LAMBDA r : InDay(r, day) /\ (r.pair = PricePair) /\ (r.price # 0))
OpenPrice(day) == IF Priced(day) = {} THEN 0 ELSE pairRows[Min(Priced(day))].price
ClosePrice(day) == IF Priced(day) = {} THEN 0 ELSE pairRows[Max(Priced(day))].price

\* Mutant of WithoutDay: the day counts though it has no price, as in the average price.
WithDay(n) == n

WithoutDay(n) == n - 1

\* getAvgOpenOrClosePriceByTokenDateDays: the sum, and the number of days to divide it by.
\* A day without a price shortens the loop, too, by a day at its end.
OpenOrClose(first, n, isClose) ==
    LET price == [i \in 0..FinalDay |->
                     IF isClose THEN ClosePrice(first + i) ELSE OpenPrice(first + i)]
        from[i \in 0..FinalDay + 1] ==
            [days \in 0..FinalDay + 1 |->
                IF i >= days THEN [sum |-> 0, days |-> days]
                ELSE IF price[i] = 0 THEN from[i + 1][WithoutDay(days)]
                ELSE [from[i + 1][days] EXCEPT !.sum = @ + price[i]]]
    IN  from[0][n]

Window(first, n) == first..(first + n - 1)
PricesOf(first, n) == {pairRows[i].price : i \in UNION {Priced(d) : d \in Window(first, n)}}

\* GetTokenPriceRangeByDateDays
PriceRange(first, n) ==
    LET prices == PricesOf(first, n)
    IN  IF prices = {} THEN [low |-> 0, high |-> 0] ELSE [low |-> Min(prices), high |-> Max(prices)]

\* The volumes of the last 24 hours are those of the first poll of the next day.
VolumeRows(day) ==
    LET polls == Indices(LAMBDA r : InDay(r, day) /\ (r.percent > 0))
    IN  {i \in polls : /\ pairRows[i].volume > 0
                       /\ \A j \in polls : pairRows[i].slot <= pairRows[j].slot}

\* GetMergedMarketPairStatistics, before it divides by the number of days.
Merged(first, n) ==
    LET full == {d \in Window(first, n) : VolumeRows(d + 1) # {}}
        volumes == UNION {VolumeRows(d + 1) : d \in full}
        depths == UNION {Indices(LAMBDA r : InDay(r, d) /\ (r.slot = DailySlot)) : d \in full}
        Of(S, p) == {i \in S : pairRows[i].pair = p}
    IN  [days   |-> Cardinality(full),
         total  |-> RowSum(volumes, "volume"),
         volume |-> [p \in PairNames |-> RowSum(Of(volumes, p), "volume")],
         depth  |-> [p \in PairNames |-> RowSum(Of(depths, p), "depth")]]

\* GetMarketPairAverageDepthsByDateDaysToken: a sum, divided by the number of polls.
AverageDepth(first, n, p) ==
    LET used == Indices(LAMBDA r : (\E d \in Window(first, n) : InDay(r, d)) /\ (r.percent # 0))
    IN  [sum   |-> RowSum({i \in used : pairRows[i].pair = p}, "depth"),
         polls |-> Cardinality(PollsOf(used))]

\* GetMarketPairRulesStatsByTokenDateDays: daily rows are hits as well.
RuleStats(rule, first, n) ==
    LET hits == Indices(LAMBDA r : (\E d \in Window(first + 1, n) : InDay(r, d))
                                   /\ (r.pair = rule.pair))
    IN  [hits |-> Cardinality(hits),
         depthBroken |-> Cardinality({i \in hits : pairRows[i].depth < rule.depth}),
         volumeBroken |-> Cardinality({i \in hits : pairRows[i].volume < rule.volume})]

-----------------------------------------------------------------------------

MarketInit ==
    /\ today = 0 /\ slot = 0 /\ polled = FALSE /\ fetched = <<>> /\ pairRows = <<>> /\ tracked = 0
    /\ statsCh = <<>> /\ depthDay = -1 /\ depthLeft = {} /\ history = {} /\ rules = {}

MarketNext ==
    \/ Poll \/ Save \/ FetchedIsLost \/ Tick \/ DayTracked
    \/ TakeFinishedDay \/ TakeHistory \/ CreateDailyRow \/ RestartMarket

\* The chat, while the cron job goes on.
RulesNext ==
    \/ Poll \/ Save \/ Tick
    \/ \E p \in PairNames, least \in Limits : AddRule(p, least)
    \/ \E id \in 1..MaxRules, least \in Limits : EditRule(id, least)

MarketSpec == MarketInit /\ [][MarketNext \/ RulesNext]_marketVars

-----------------------------------------------------------------------------
(* Properties                                                              *)

DailyRowsOf(day, p) ==
    Indices(LAMBDA r : InDay(r, day) /\ (r.pair = p) /\ (r.slot = DailySlot))
Punctual(day) == \A i \in DOMAIN pairRows : InDay(pairRows[i], day) => ~pairRows[i].late

\* The daily row of a pair is the one average of all the day's samples: it is not written
\* before the day is over, nor a second time by the history of a new process or when the
\* loop was cut off among the rows of the day (doMarketPairDepthStatistics); days with a
\* poll that took past midnight excepted.
DailyRowsFinal ==
    \A day \in 0..FinalDay, p \in PairNames :
        /\ Cardinality(DailyRowsOf(day, p)) <= 1
        /\ Punctual(day) =>
              LET samples == Indices(LAMBDA r : /\ InDay(r, day) /\ (r.pair = p)
                                                /\ (r.slot # DailySlot) /\ (r.percent > 0))
              IN  \A i \in DailyRowsOf(day, p) :
                     pairRows[i].depth = RowSum(samples, "depth") \div Cardinality(samples)

\* An average of opening or closing prices is between the lowest and the highest price.
AverageInRange(first, n) ==
    LET range == PriceRange(first, n)
    IN  \A isClose \in BOOLEAN :
            LET average == OpenOrClose(first, n, isClose)
            IN  (average.sum > 0) => /\ average.days * range.low <= average.sum
                                     /\ average.sum <= average.days * range.high

Samples(first, n, p) ==
    {i \in DOMAIN pairRows : /\ (pairRows[i].pair = p) /\ (pairRows[i].slot # DailySlot)
                             /\ \E d \in Window(first, n + 1) : InDay(pairRows[i], d)}
NoMoreThanASample(sum, count, S) == \E i \in S : sum <= count * pairRows[i].depth

\* Depths of a window come from samples of it: the daily ones on average exceed no sample,
\* nor does the average depth, unless a poll took past midnight; and a rule that every
\* sample meets is not broken.
DepthsSampled(first, n, p, merged) ==
    LET samples == Samples(first, n, p)
        average == AverageDepth(first, n, p)
    IN  /\ (merged.depth[p] > 0) => NoMoreThanASample(merged.depth[p], merged.days, samples)
        /\ (average.sum > 0) /\ (\A d \in Window(first, n) : Punctual(d))
              => NoMoreThanASample(average.sum, average.polls, samples)
        /\ \A least \in Limits :
              (\A i \in samples : pairRows[i].depth >= least)
                  => (RuleStats(Rule(1, p, least), first, n).depthBroken = 0)

\* The figures of a window are consistent with the rows and with each other, though days
\* lack samples or prices and daily rows lie among the samples: the volumes of the pairs
\* add up to the total, depths come from samples, and averages of opening and closing
\* prices over two days at most are in the range of prices (not over more: see
\* PricesAveraged).
FiguresConsistent ==
    \A first \in 0..(FinalDay - 1), n \in 1..2 :
        /\ AverageInRange(first, n)
        /\ LET merged == Merged(first, n)
           IN  /\ merged.total = SumOver(merged.volume, PairNames)
               /\ \A p \in PairNames : DepthsSampled(first, n, p, merged)

\* What is computed as the average of opening or closing prices ("calculating average open
\* or close price", db.go:1204) is in the range of prices, in a window of any length.
PricesAveraged ==
    \A first \in 0..FinalDay, n \in 1..(FinalDay + 1) : AverageInRange(first, n)

\* Rules are about pairs that the market statistics know: adding one is refused for
\* another pair, and editing "not found" for another number (bot/volume.go).
RulesOfKnownPairs == \A r \in rules : \E i \in DOMAIN pairRows : pairRows[i].pair = r.pair

=============================================================================
