------------------------- MODULE MCExchangeRegistry -------------------------
(* Two exchanges; the first has two spellings and an original name that      *)
(* trimming shortens.                                                        *)
EXTENDS ExchangeRegistry, TLC

CONSTANTS a1, a2, a3

AddrMC == {a1, a2, a3}
NameMC == {"Kucoin", "KuCoin", "KuCoin Hot", "Okex"}
TrimMC == [n \in NameMC |-> IF n = "KuCoin Hot" THEN "KuCoin" ELSE n]
ClassMC == [n \in NameMC |-> CASE n = "Okex" -> "okex"
                               [] n = "KuCoin Hot" -> "kucoin hot"
                               [] OTHER -> "kucoin"]
UpperMC == [n \in NameMC |-> CASE n = "KuCoin" -> 2
                               [] n = "KuCoin Hot" -> 3
                               [] OTHER -> 1]

Symmetry == Permutations(AddrMC)
=============================================================================
