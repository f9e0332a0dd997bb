--------------------------- MODULE TransferStats ---------------------------
(***************************************************************************)
(* The histogram of transfers by the number of digits of their amount      *)
(* (database/models/types/stats.go).  vals[0] is a bit mask of the lengths *)
(* that occur, the following cells hold their counts in increasing order   *)
(* of length: here `marks' is the mask as a set and `cells' the rest, so   *)
(* that an index of vals is an index of cells.                             *)
(***************************************************************************)
EXTENDS Naturals, FiniteSets, Sequences, SequencesExt

\* Merge, and the JSON form, know the lengths of a 64-bit amount only.
MaxLength == 18

NewTransferStats == [marks |-> {}, cells |-> <<>>]

Index(ts, length) == 1 + Cardinality({i \in ts.marks : (1 <= i) /\ (i < length)})

\* Mutant of Mark: the new cell goes to the end, as if lengths came in order.
MarkAtEnd(ts, length) == [marks |-> ts.marks \cup {length},
                          cells |-> Append(ts.cells, 0)]

Mark(ts, length) == [marks |-> ts.marks \cup {length},
                     cells |-> InsertAt(ts.cells, Index(ts, length), 0)]

AddLength(ts, length, count) ==
    LET marked == IF length \in ts.marks THEN ts ELSE Mark(ts, length)
    IN  [marked EXCEPT !.cells[Index(marked, length)] = @ + count]

GetLength(ts, length) ==
    IF length \in ts.marks THEN ts.cells[Index(ts, length)] ELSE 0

MergeTransferStats(ts, other) ==
    FoldLeft(LAMBDA acc, length :
                 IF length \in other.marks
                 THEN AddLength(acc, length, GetLength(other, length)) ELSE acc,
             ts, [i \in 1..MaxLength |-> i])

\* The JSON form: the counts of the lengths 0 to 17 in full.
Counts(ts) == [i \in 1..18 |-> GetLength(ts, i - 1)]

\* A row written by an older version holds the counts of the lengths 0, 1, ...
\* in full; those that are not zero are added one by one.
ScanLegacy(counts) ==
    FoldLeft(LAMBDA acc, i : IF counts[i] > 0 THEN AddLength(acc, i - 1, counts[i]) ELSE acc,
             NewTransferStats, [i \in 1..Len(counts) |-> i])

=============================================================================
