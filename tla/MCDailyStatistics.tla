------------------------- MODULE MCDailyStatistics -------------------------
(* Three jobs of a day that share nothing here, each by itself: the scans of *)
(* transactions, the statistics of what exchanges have staked, and the       *)
(* maintenance of tables.  Scans are of three addresses, two exchanges and   *)
(* up to three rows, on one day or the first on a day of its own, taken      *)
(* from a palette of transactions.                                           *)
EXTENDS Reports, ExchangeStake, TableMaintenance

CONSTANTS a, b, c, E1, E2, T10, sTRX, JST

Transaction(type, owner, from, to, name, sum) ==
    [type |-> type, owner |-> owner, from |-> from, to |-> to, name |-> name,
     amount |-> sum, cost |-> [k \in Costs |-> IF k = "NetUsage" THEN 270 ELSE 0],
     sigs |-> 1, memo |-> FALSE, ok |-> TRUE, method |-> "none"]

Paying(tx, fee, netFee, energyFee) ==
    [tx EXCEPT !.cost = [@ EXCEPT !["Fee"] = fee, !["NetFee"] = netFee,
                                  !["EnergyFee"] = energyFee]]
Using(tx, total, ofOwner) ==
    [tx EXCEPT !.cost = [@ EXCEPT !["EnergyTotal"] = total, !["EnergyOriginUsage"] = ofOwner],
               !.method = "transfer"]

TRX(from, to, sum) == Transaction(1, from, from, to, "TRX", sum)
USDTTransfer(from, to, sum) == Transaction(31, from, from, to, USDT, sum)

Small == TRX(a, b, 10)
Large == TRX(b, a, 200000)
ToSelf == TRX(b, b, 700000)
Activation == Paying(TRX(b, c, 1), 1100000, 100000, 0)
Ceremony == [Paying(TRX(a, c, 12), 2000345, 345, 0) EXCEPT !.sigs = 2, !.memo = TRUE]
\* Who is paid pays as well.
Reply == Paying(TRX(c, a, 7), 300, 300, 0)
Plain == Using(USDTTransfer(a, b, 1234567), 65000, 0)
Costly == Using(Paying(USDTTransfer(b, c, 300), 13000, 0, 13000), 130000, 20)
\* Sent by an allowance: the owner of the transaction is not the one who pays out.
ByAllowance == [Using(Paying(USDTTransfer(c, a, 8000000), 400, 400, 0), 70000, 0)
                    EXCEPT !.type = 131, !.owner = b]
Failed == [Paying(USDTTransfer(a, b, 1234567), 9000, 0, 9000) EXCEPT !.ok = FALSE]
\* A call of a contract that transfers nothing.
Call == Using(Transaction(31, a, NoAddr, NoAddr, JST, 0), 31000, 0)
Mixed == [Plain EXCEPT !.name = sTRX, !.from = b]
Asset == Transaction(2, a, a, c, T10, 5)
\* A transfer inside a call of a contract, recorded without an owner.
Internal == [USDTTransfer(a, b, 500000) EXCEPT !.type = 255, !.owner = NoAddr]

\* Stakes, delegations, and what is not one of them.
Resource(type, owner, to, sum) == Transaction(type, owner, NoAddr, to, NoName, sum)
Freeze == Resource(54, a, NoAddr, 50)
FreezeOld == Resource(11, a, NoAddr, 7)
Cancel == Resource(159, a, NoAddr, 20)
Unfreeze == Resource(155, a, NoAddr, 30)
UnfreezeOld == Resource(12, b, NoAddr, 30)
Delegate == Resource(57, a, b, 40)
DelegateMore == Resource(57, b, c, 60)
DelegateEnergy == Resource(157, c, a, 60)

Palette(j) ==
    CASE j = "flush"    -> {ToSelf, Ceremony, Reply, ByAllowance, Call, Asset, Internal}
      [] j = "count"    -> {Small, Large, ToSelf, Plain, Costly, Failed, Internal}
      [] j = "exchange" -> {Small, Large, Activation, Mixed, Costly, Internal}
      [] j = "boards"   -> {Freeze, FreezeOld, Cancel, Unfreeze, UnfreezeOld, Delegate,
                            DelegateMore, DelegateEnergy, Internal}
      [] j = "diff"     -> {Small, Large, Activation, Plain, ByAllowance, Internal}
      [] OTHER          -> {Large, Activation, ByAllowance, Asset}

UpTo(S, n) == UNION {[1..k -> S] : k \in 0..n}
DaysMC(j) ==
    IF j \in {"count", "boards"} THEN {<<d>> : d \in UpTo(Palette(j), 3)}
    ELSE {<<d1, d2>> : d1 \in UpTo(Palette(j), 1), d2 \in UpTo(Palette(j), 2)}

\* Who is what when a scan begins.
Wirings == {[exchangeOf |-> (a :> E1) @@ (b :> NoName) @@ (c :> E2),
             chargerOf |-> (a :> NoName) @@ (b :> E1) @@ (c :> NoName)],
            [exchangeOf |-> (a :> NoName) @@ (b :> E1) @@ (c :> NoName),
             chargerOf |-> (a :> E2) @@ (b :> NoName) @@ (c :> E1)]}
Unknown == [exchangeOf |-> [x \in Addrs |-> NoName], chargerOf |-> [x \in Addrs |-> NoName]]

\* No scan, while another job runs.
RestMC == [job |-> "rest", days |-> <<>>, exchangeOf |-> Unknown.exchangeOf,
           chargerOf |-> Unknown.chargerOf]

ScansMC ==
    UNION {{[job |-> j, days |-> d, exchangeOf |-> w.exchangeOf, chargerOf |-> w.chargerOf] :
                d \in DaysMC(j), w \in IF j \in {"flush", "boards"} THEN {Unknown} ELSE Wirings} : j \in Jobs}
    \cup {RestMC}

\* Different exchanges; one that is there twice; all of them and one of them; a name of
\* none; and all of them twice.
RequestsMC == {<<E1>>, <<E1, E2>>, <<E1, E1>>, <<"All", E2>>, <<E2, "Nobody", E1>>,
               <<"All", "All">>}

-----------------------------------------------------------------------------
(* What is staked: up to three delegations among the addresses, and one by   *)
(* the first version of staking.                                             *)

Registries == {(a :> E1) @@ (b :> E1) @@ (c :> E2), (a :> E1) @@ (b :> E1) @@ (c :> NoName)}
Delegations == {S \in SUBSET {p \in Pairs : p[1] # p[2]} : Cardinality(S) <= 3}

WorldsMC ==
    {[self   |-> [x \in Addrs |-> 100],
      v1     |-> [p \in Pairs |-> IF p = <<a, b>> THEN 1 ELSE 0],
      v2     |-> [p \in Pairs |-> IF p \notin S THEN 0 ELSE IF p[1] = a THEN 13 ELSE 10],
      nameOf |-> n] : S \in Delegations, n \in Registries}

-----------------------------------------------------------------------------

VARIABLE part  \* which job this behaviour is about
vars == <<part, scanVars, stakeVars, tablesVars>>

Init ==
    /\ part \in {"scan", "stake", "tables"}
    /\ ScanInit /\ ((part = "scan") <=> (job # "rest"))
    /\ StakeInit /\ ((part # "stake") => (v2 = [p \in Pairs |-> 0]) /\ (nameOf[c] = NoName))
    /\ TablesInit /\ ((part # "tables") => (present = {}))

Next ==
    /\ part' = part
    /\ \/ part = "scan" /\ ScanNext /\ UNCHANGED <<stakeVars, tablesVars>>
       \/ part = "stake" /\ StakeNext /\ UNCHANGED <<scanVars, tablesVars>>
       \/ part = "tables" /\ TablesNext /\ UNCHANGED <<scanVars, stakeVars>>

Spec == Init /\ [][Next]_vars
=============================================================================
