----------------------------- MODULE BlockArchive -----------------------------
(***************************************************************************)
(* What the tracker promises of the transactions tables: the blocks that   *)
(* have transactions enter them in the order of their heights, each once,  *)
(* each on its day, whatever happens to the process.                       *)
(***************************************************************************)
EXTENDS Integers

CONSTANTS
  Day,       \* height -> day
  NonEmpty   \* heights of the blocks that have transactions

VARIABLE archive  \* the pairs <<day, height>> that have been recorded

Recorded == {r[2] : r \in archive}

Init == archive = {}

\* The next block to record is the lowest that is not recorded yet.
Record(b) ==
  /\ b \in NonEmpty \ Recorded
  /\ \A c \in NonEmpty : c < b => c \in Recorded
  /\ archive' = archive \cup {<<Day[b], b>>}

Next == \E b \in NonEmpty : Record(b)

Spec == Init /\ [][Next]_archive

=============================================================================
