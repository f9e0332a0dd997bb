-------------------------- MODULE MCChargerPipeline --------------------------
(* One payer, two receivers; two exchanges, of one spelling each, which        *)
(* nothing tells apart, or the first with two spellings.                      *)
EXTENDS ChargerPipeline, TLC

CONSTANTS c1, e1, e2, n1, n2, none

AddrMC == {c1, e1, e2}
PayersMC == {c1}

\* Two names of one spelling, each its own class.
PlainNameMC == {n1, n2}
PlainTrimMC == [n \in PlainNameMC |-> n]
PlainClassMC == [n \in PlainNameMC |-> n]
PlainUpperMC == [n \in PlainNameMC |-> 1]

NameMC == {"Coinex", "CoinEx", "Okex"}
TrimMC == [n \in NameMC |-> n]
ClassMC == [n \in NameMC |-> IF n = "Okex" THEN "okex" ELSE "coinex"]
UpperMC == [n \in NameMC |-> IF n = "CoinEx" THEN 2 ELSE 1]

Symmetry == Permutations({e1, e2})
PlainSymmetry == Symmetry \cup Permutations({n1, n2})

\* Two states that differ only in the histories of the registry, which no action
\* and no property of the pipeline reads, are one.
WithoutRegistryHistory ==
  <<exchanges, exchangesTable, loading, inserting, storeVars, callVars, history>>
=============================================================================
