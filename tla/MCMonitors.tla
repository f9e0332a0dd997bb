---------------------------- MODULE MCMonitors -----------------------------
(* The registry of exchanges, the monitor of the tracker's transactions and  *)
(* the statistics of markets, each by itself; the chat's rules while the     *)
(* cron job polls are a part of their own, which the loop that writes daily  *)
(* rows does not touch.                                                      *)
EXTENDS MCExchangeRegistry, ActivityMonitor, MarketPairs

CONSTANTS u, v, Parts

\* Two addresses of exchanges are enough here; the run of the reload takes three.
TwoAddr == {a1, a2}
TwoSymmetry == Permutations(TwoAddr)

\* Entries of the chain: stakes of both resources, an unstake, transfers, a failed one and
\* one inside the call of a contract.
Entry(type, owner, from, to, name, sum) ==
    [type |-> type, owner |-> owner, from |-> from, to |-> to, name |-> name,
     amount |-> sum, ok |-> TRUE]
Entries ==
    {Entry(54, u, NoActor, NoActor, "", 2), Entry(111, u, NoActor, NoActor, "", 1),
     Entry(54, u, NoActor, NoActor, "", 3), Entry(55, u, NoActor, NoActor, "", 2),
     Entry(1, u, u, v, "TRX", 2), Entry(31, v, u, v, "USDT", 1),
     [Entry(31, u, u, v, "USDT", 2) EXCEPT !.ok = FALSE],
     Entry(255, NoActor, u, v, "USDT", 2)}

Blocks(n) == UNION {[1..k -> Entries] : k \in 0..n}
ChainsMC == {<<b1, b2>> : b1 \in Blocks(2), b2 \in Blocks(1)}
ThresholdMC == [k \in Configured |-> 3]

\* What a poll of the two pairs may return; the second has no price in the token's
\* currency, and at times no volume.
Quote(price, volume, dep, percent) ==
    [price |-> price, volume |-> volume, depth |-> dep, percent |-> percent]
ObservationsMC ==
    {("P" :> Quote(2, 5, 12, 1)) @@ ("Q" :> Quote(0, 3, 24, 1)),
     ("P" :> Quote(4, 7, 36, 1)) @@ ("Q" :> Quote(0, 0, 12, 0))}

VARIABLE part
partVars == <<part, vars, activityVars, marketVars>>

PartInit == /\ part \in Parts
            /\ Init
            /\ ActivityInit /\ ((part # "activity") => (chain = <<<<>>, <<>>>>))
            /\ MarketInit

PartNext ==
    /\ part' = part
    /\ \/ part = "registry" /\ Next /\ UNCHANGED <<activityVars, marketVars>>
       \/ part = "activity" /\ ActivityNext /\ UNCHANGED <<vars, marketVars>>
       \/ part = "market" /\ MarketNext /\ UNCHANGED <<vars, activityVars>>
       \/ part = "rules" /\ RulesNext /\ UNCHANGED <<vars, activityVars>>

\* Of the histories of the registry, no action reads any and the properties read only
\* whether there is one: two states that agree on that are one.
WithOneHistory ==
    <<part, exchanges, exchangesTable, loading, inserting, reloaded \/ overtaken,
      activityVars, marketVars>>

PartSpec == PartInit /\ [][PartNext]_partVars
=============================================================================
