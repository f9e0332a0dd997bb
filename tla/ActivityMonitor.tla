-------------------------- MODULE ActivityMonitor ---------------------------
(***************************************************************************)
(* The alerts on large stakes and transfers (tron/activity_monitor.go) and *)
(* how the tracker feeds them: it reports every transaction of a block     *)
(* while it goes through the block and saves the block only at the end, so *)
(* that a process that ends in between sees the block again.  What is kept *)
(* for cumulative alerts is in memory.  Five variables are not in the code: *)
(* they remember, over restarts, what the alerts and the memory were made   *)
(* of.                                                                      *)
(***************************************************************************)
EXTENDS Integers, Sequences, FiniteSets, Functions, FiniteSetsExt, SequencesExt, Sums

CONSTANTS Actors, NoActor,
          Configured,   \* kinds whose threshold is configured, a subset of Kinds
          Threshold,    \* by kind, in base units
          Chains,       \* possible chains: sequences of blocks of transactions
          MaxRestarts   \* bound: restarts of the process

Kinds == {"stake", "trx", "usdt"}
Actions == {"Stake", "Unstake", "TRX Transfer", "USDT Transfer"}
Resources == {"BANDWIDTH", "ENERGY"}
Buckets == Actions \X Actors

\* thresholdToBaseUnits drops what is not positive and clamps the rest, so that twice a
\* threshold only overflows for more than 4.6 * 10^12 tokens, more than there are.
ASSUME ThresholdAssumption ==
    /\ Configured \subseteq Kinds
    /\ Threshold \in [Configured -> Nat \ {0}]

VARIABLES chain,
          saved,       \* the last block whose transactions are in the database
          block, index,  \* the block being gone through, 0 for none, and the transaction in it
          isCatching,
          accumulator, \* accumulatorByID: bucket -> accumulator
          alert,       \* what was sent to Slack last
          restarts,
          \* Not in the code:
          since,       \* by bucket, the sum of what was reported since its last alert, by
                       \* this process and those before it
          spanned,     \* by bucket, the restarts since its last alert
          parts,       \* by bucket, the transactions that this process has reported since
                       \* its last alert
          alerted,     \* how many alerts each transaction has entered
          cuts         \* how many times each block was left in the middle by a restart

alertHistory == <<since, spanned, parts, alerted, cuts>>
activityVars ==
    <<chain, saved, block, index, isCatching, accumulator, alert, restarts, alertHistory>>

-----------------------------------------------------------------------------
(* Detectors, in their order                                               *)

Base(type) == IF type >= 100 THEN type - 100 ELSE type
Resource(type) == IF type >= 100 THEN "ENERGY" ELSE "BANDWIDTH"

StakeAction(tx) ==
    IF Base(tx.type) \in {11, 54} THEN "Stake"
    ELSE IF Base(tx.type) \in {12, 55} THEN "Unstake" ELSE "none"

HasBothEnds(tx) == (tx.from # NoActor) /\ (tx.to # NoActor)

\* The kind of threshold a transaction is held against, or "none".
Kind(tx) ==
    IF (StakeAction(tx) # "none") /\ ("stake" \in Configured) THEN "stake"
    ELSE IF /\ (tx.type = 1) /\ (tx.name = "TRX") /\ HasBothEnds(tx)
            /\ ("trx" \in Configured) THEN "trx"
    ELSE IF (tx.name = "USDT") /\ HasBothEnds(tx) /\ ("usdt" \in Configured) THEN "usdt"
    ELSE "none"

Bucket(tx) ==
    CASE Kind(tx) = "stake" -> <<StakeAction(tx), tx.owner>>
      [] Kind(tx) = "trx"   -> <<"TRX Transfer", tx.from>>
      [] Kind(tx) = "usdt"  -> <<"USDT Transfer", tx.from>>

\* Only stakes have a breakdown.
Breakdown(tx) == [r \in Resources |-> IF (Kind(tx) = "stake") /\ (Resource(tx.type) = r)
                                      THEN tx.amount ELSE 0]

\* buildAlertIfLarge looks at successful transactions of a positive amount.
Detected(tx) == tx.ok /\ (Kind(tx) # "none") /\ (tx.amount > 0)

-----------------------------------------------------------------------------
(* buildAlertIfLarge                                                       *)

\* Whoever stakes or unstakes signs for himself, so that such a transaction has an owner.
Transactions ==
    {tx \in [type : Nat, owner : Actors \cup {NoActor}, from : Actors \cup {NoActor},
             to : Actors \cup {NoActor}, name : STRING, amount : Int, ok : BOOLEAN] :
        (StakeAction(tx) # "none") => (tx.owner \in Actors)}
ASSUME ChainsAssumption == Chains \subseteq Seq(Seq(Transactions))

NewAccumulator == [amount |-> 0, txs |-> 0, breakdown |-> [r \in Resources |-> 0]]

Add(a, tx) == [amount    |-> a.amount + tx.amount,
               txs       |-> a.txs + 1,
               breakdown |-> [r \in Resources |-> a.breakdown[r] + Breakdown(tx)[r]]]

\* An entry of the map that is missing reads as nothing accumulated.
Pending(bucket) == IF bucket \in DOMAIN accumulator THEN accumulator[bucket] ELSE NewAccumulator

Cleared(bucket) == [b \in DOMAIN accumulator \ {bucket} |-> accumulator[b]]
With(bucket, a) == [b \in DOMAIN accumulator \cup {bucket} |->
                       IF b = bucket THEN a ELSE accumulator[b]]

\* Mutant of Reaches: a sum that meets the threshold exactly is not enough.
Exceeds(amount, threshold) == amount > threshold

Reaches(amount, threshold) == amount >= threshold

\* Mutant of AfterSingle: a large transaction has nothing to do with small ones.
SmallOnesStay(bucket) == accumulator

AfterSingle(bucket) == Cleared(bucket)

\* The transactions of the chain, by block and place in it, and the one that the tracker is at.
Positions == UNION {{i} \X DOMAIN chain[i] : i \in DOMAIN chain}
Here == <<block, index>>

\* An alert, made of the transactions in of.
Sent(tx, kind, a, of) ==
    /\ alert' = [kind |-> kind, limit |-> Threshold[Kind(tx)], sum |-> a, of |-> of,
                 bucket |-> Bucket(tx)]
    /\ since' = [since EXCEPT ![Bucket(tx)] = 0]
    /\ spanned' = [spanned EXCEPT ![Bucket(tx)] = 0]
    /\ parts' = [parts EXCEPT ![Bucket(tx)] = {}]
    /\ alerted' = [p \in Positions |-> IF p \in of THEN alerted[p] + 1 ELSE alerted[p]]
    /\ UNCHANGED cuts

\* One transaction is enough, and whatever had accumulated is dropped.
Single(tx) ==
    /\ Reaches(tx.amount, Threshold[Kind(tx)])
    /\ Sent(tx, "single", Add(NewAccumulator, tx), {Here})
    /\ accumulator' = AfterSingle(Bucket(tx))

Cumulative(tx) ==
    LET sum == Add(Pending(Bucket(tx)), tx)
    IN  /\ ~Reaches(tx.amount, Threshold[Kind(tx)])
        /\ Reaches(sum.amount, Threshold[Kind(tx)])
        /\ Sent(tx, "cumulative", sum, parts[Bucket(tx)] \cup {Here})
        /\ accumulator' = Cleared(Bucket(tx))

NotYet(tx) ==
    LET sum == Add(Pending(Bucket(tx)), tx)
    IN  /\ ~Reaches(tx.amount, Threshold[Kind(tx)])
        /\ ~Reaches(sum.amount, Threshold[Kind(tx)])
        /\ accumulator' = With(Bucket(tx), sum)
        /\ since' = [since EXCEPT ![Bucket(tx)] = @ + tx.amount]
        /\ parts' = [parts EXCEPT ![Bucket(tx)] = @ \cup {Here}]
        /\ UNCHANGED <<alert, spanned, alerted, cuts>>

ReportIfLarge(tx) ==
    IF Detected(tx) THEN Single(tx) \/ Cumulative(tx) \/ NotYet(tx)
                    ELSE UNCHANGED <<accumulator, alert, alertHistory>>

-----------------------------------------------------------------------------
(* doTrackBlock                                                            *)

\* A block of the last ten seconds ends the catching up, for good.
BeginBlock ==
    /\ block = 0 /\ saved < Len(chain)
    /\ block' = saved + 1 /\ index' = 1
    /\ isCatching' \in {isCatching, FALSE}
    /\ UNCHANGED <<chain, saved, accumulator, alert, restarts, alertHistory>>

\* While it catches up with the chain, the tracker reports nothing.
TrackTransaction ==
    /\ block > 0 /\ index <= Len(chain[block])
    /\ index' = index + 1
    /\ IF isCatching THEN UNCHANGED <<accumulator, alert, alertHistory>>
                     ELSE ReportIfLarge(chain[block][index])
    /\ UNCHANGED <<chain, saved, block, isCatching, restarts>>

\* Until it succeeds, SaveTransactions is tried again and nothing else happens.
SaveBlock ==
    /\ block > 0 /\ index > Len(chain[block])
    /\ saved' = block /\ block' = 0 /\ index' = 0
    /\ UNCHANGED <<chain, isCatching, accumulator, alert, restarts, alertHistory>>

\* Stop, or a crash, and a new process that begins behind the last block saved.
RestartActivity ==
    /\ restarts < MaxRestarts /\ restarts' = restarts + 1
    /\ block' = 0 /\ index' = 0 /\ isCatching' = TRUE
    /\ accumulator' = [b \in {} |-> NewAccumulator]
    /\ spanned' = [b \in Buckets |-> spanned[b] + 1]
    /\ parts' = [b \in Buckets |-> {}]
    /\ cuts' = [i \in DOMAIN chain |-> IF i = block THEN cuts[i] + 1 ELSE cuts[i]]
    /\ UNCHANGED <<chain, saved, alert, since, alerted>>

NoAlert == [kind |-> "none"]

ActivityInit ==
    /\ chain \in Chains
    /\ saved = 0 /\ block = 0 /\ index = 0 /\ isCatching = TRUE /\ restarts = 0
    /\ accumulator = [b \in {} |-> NewAccumulator]
    /\ alert = NoAlert
    /\ since = [b \in Buckets |-> 0] /\ spanned = [b \in Buckets |-> 0]
    /\ parts = [b \in Buckets |-> {}]
    /\ alerted = [p \in Positions |-> 0] /\ cuts = [i \in DOMAIN chain |-> 0]

ActivityNext == BeginBlock \/ TrackTransaction \/ SaveBlock \/ RestartActivity

ActivitySpec == ActivityInit /\ [][ActivityNext]_activityVars

-----------------------------------------------------------------------------
(* Properties                                                              *)

KindOf(bucket) == CASE bucket[1] \in {"Stake", "Unstake"} -> "stake"
                    [] bucket[1] = "TRX Transfer" -> "trx"
                    [] bucket[1] = "USDT Transfer" -> "usdt"

\* No process lets an actor pass a threshold in small parts without an alert: of what has
\* been reported of him in one way since the last alert, each process so far has let pass
\* less than the threshold (buildAlertIfLarge).  In one process that is the threshold
\* itself; a restart, which forgets what had accumulated, may hide as much once more.  What
\* is tracked again counts again; what passes while the tracker catches up is never
\* reported, and is not counted here.
NoMissedAlarm ==
    \A b \in Buckets : (KindOf(b) \in Configured) =>
        (since[b] <= (spanned[b] + 1) * (Threshold[KindOf(b)] - 1))

\* The amount of each transaction.
AmountAt == [p \in Positions |-> chain[p[1]][p[2]].amount]

\* An alert is earned and its figures are right: its amount is the sum of distinct
\* transactions, as many as it says and several when it is cumulative, and the parts by
\* resource of a stake make up the whole.  A transaction enters one alert, and one more for
\* each restart that left its block in the middle, because the block is then tracked, and
\* what is in it reported, again (tracker.go, "the abandoned block is simply re-tracked").
AlertsEarned ==
    /\ (alert.kind # "none") =>
        /\ alert.sum.amount >= alert.limit
        /\ alert.sum.amount = SumOver(AmountAt, alert.of)
        /\ alert.sum.txs = Cardinality(alert.of)
        /\ (alert.kind = "cumulative") => (alert.sum.txs > 1)
        /\ (KindOf(alert.bucket) = "stake") =>
              (alert.sum.breakdown["BANDWIDTH"] + alert.sum.breakdown["ENERGY"]
                  = alert.sum.amount)
    /\ \A p \in Positions : alerted[p] <= 1 + cuts[p[1]]

=============================================================================
