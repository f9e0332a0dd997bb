-------------------------------- MODULE Sums --------------------------------
(* The sums that several modules take, of a function over a finite set.      *)
EXTENDS Naturals, FiniteSets, FiniteSetsExt

SumOver(amount, S) == MapThenSumSet(LAMBDA x : amount[x], S)

=============================================================================
