--------------------------- MODULE MCChargerStore ---------------------------
(* Instances of ChargerStore small enough for TLC. *)
EXTENDS ChargerStore, Sequences, TLC

CONSTANTS a1, a2, bad, n1, n2, none

AddrMC == {a1, a2}
MalformedMC == {bad}
NameMC == {n1, n2}

row(a, n, b, f) ==
  [address |-> a, exchangeName |-> n, backup |-> b, isFake |-> f]

\* A genuine charger behind a row whose address is invalid; a name kept as the
\* backup of a genuine charger (dirty data); a fake charger without a backup;
\* two rows of one address.
LegacyTables ==
  {<<row(bad, n, none, FALSE), row(a, n, none, FALSE)>> : a \in AddrMC, n \in NameMC}
  \cup UNION {{<<row(a, n, m, FALSE)>>, <<row(a, n, none, TRUE)>>,
               <<row(a, n, b, TRUE), row(a, m, none, FALSE)>>} :
               a \in AddrMC, b \in AddrMC, n \in NameMC, m \in NameMC}

TablesMC == {<<>>} \cup LegacyTables

Symmetry == Permutations(AddrMC) \cup Permutations(NameMC)
=============================================================================
