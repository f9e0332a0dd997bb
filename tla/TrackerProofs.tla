--------------------------- MODULE TrackerProofs ----------------------------
(***************************************************************************)
(* Proofs about the tracker and the two monitors that follow it.           *)
(*                                                                         *)
(* Blocks: the invariants of BlockTracking hold for every chain of blocks, *)
(* and its tables implement BlockArchive.                                  *)
(*                                                                         *)
(* Monitors: what they tell a chat is right.  The one of the tracker's     *)
(* transactions: for every chain, every threshold and every placement of   *)
(* restarts, each process lets an actor pass less than a threshold without *)
(* an alert, the figures of an alert are those of the transactions it is   *)
(* made of, and a transaction is alerted once and once more for each time  *)
(* its block was cut by a restart.  The one of the markets: whatever is    *)
(* polled and whenever, a pair has one daily row of a day at most, the     *)
(* average of the day's samples; and the figures of a window agree with    *)
(* the rows that they are made of.                                         *)
(***************************************************************************)
EXTENDS BlockTracking, ActivityMonitor, MarketPairs, SetLemmas

-----------------------------------------------------------------------------
(* Blocks                                                                  *)

Saving == pc \in {"saving", "saveWait"}
RollingOver == pc \in {"rollover", "rolloverWait"}

\* The save of the current block was given up because of a shutdown.
Abandoned == quit /\ pc \in {"idle", "closing"}

\* The tables hold blocks with transactions, each on its day, and with a block
\* every one before it.
RowsOK ==
  /\ \A d \in Days, b \in Block :
       rows[d][b] > 0 => Day[b] = d /\ d \in tables /\ b \in NonEmpty /\ d <= metaDate
  /\ \A b, c \in Block : c < b /\ c \in NonEmpty /\ Recorded(b) => Recorded(c)

\* The meta rows: the tracked day starts with its start block, and all the
\* blocks before that one are recorded.
MetaOK ==
  /\ \A b \in Block : b < metaStart <=> Day[b] < metaDate
  /\ \A b \in NonEmpty : b < metaStart => Recorded(b)

\* What the goroutine is at agrees with the tables and the meta rows.
AtWorkOK ==
  /\ \A b \in NonEmpty : b < lastNum => Recorded(b)
  /\ lastNum \in NonEmpty => Recorded(lastNum) \/ Saving \/ Abandoned
  /\ \A b \in Block : Recorded(b) => b <= lastNum
  /\ \A b \in Block : b <= lastNum => Day[b] <= trackingDate
  /\ \A b \in Block : lastNum < b => trackingDate <= Day[b]
  /\ metaStart <= Next1
  /\ Saving => lastNum \in Block /\ Day[lastNum] = trackingDate
  /\ pc = "sending" \/ RollingOver => Next1 \in Block /\ Day[Next1] # trackingDate
  /\ \/ metaDate = trackingDate
     \/ RollingOver /\ metaDate = Day[Next1] /\ metaStart = Next1

ProcessOK == pc # "stopped" => AtWorkOK

TrackingInv == TypeOK /\ RowsOK /\ MetaOK /\ ProcessOK

\* When every error means that nothing was written, a block that is being saved
\* has not been saved yet.
OnceOK ==
  ~LoseAcks =>
    /\ RecordedOnce
    /\ Saving => ~Recorded(lastNum)

-----------------------------------------------------------------------------
\* A day with blocks in its table has a last one.
LEMMA MaxHeightFacts ==
  ASSUME NEW d \in Days, Inserted(d) # {}
  PROVE  /\ MaxHeight(d) \in Inserted(d)
         /\ \A b \in Inserted(d) : b <= MaxHeight(d)
<1>1. Inserted(d) \subseteq 1..LastNum
  BY ChainAssumption DEF Inserted, Block
<1>2. \E m \in Inserted(d) : \A k \in Inserted(d) : k <= m
  BY <1>1, GreatestElement, ChainAssumption
<1> QED
  BY <1>2 DEF MaxHeight

\* What is read of the types of a state and of the chain.
LEMMA Typing ==
  /\ \A b \in Block : b \in Int /\ Day[b] \in Days /\ Day[b] \in Int
  /\ \A d \in Days : d \in Int
  /\ TypeOK => /\ lastNum \in Int /\ metaStart \in Int /\ metaDate \in Int
               /\ trackingDate \in Int
               /\ \A d \in Days, b \in Block : rows[d][b] \in Nat
  /\ NonEmpty \subseteq Block
<1>1. \A b \in Block : Day[b] \in Nat /\ Day[b] \in Days /\ b \in Int
  BY ChainAssumption DEF Block, Days
<1>2. \A d \in Days : d \in Int
  BY ChainAssumption DEF Days
<1>3. TypeOK => /\ lastNum \in Int /\ metaStart \in Int
                /\ \A d \in Days, b \in Block : rows[d][b] \in Nat
  BY ChainAssumption DEF TypeOK
<1>4. TypeOK => metaDate \in Int /\ trackingDate \in Int
  BY <1>2 DEF TypeOK
<1> QED
  BY <1>1, <1>2, <1>3, <1>4, ChainAssumption

\* The point from which New resumes separates what is recorded from what is
\* not, and the tracked day from the days after it.
LEMMA ResumeFacts ==
  ASSUME TypeOK, RowsOK, MetaOK
  PROVE  /\ ResumeNum \in (StartNum - 1)..LastNum
         /\ metaStart <= ResumeNum + 1
         /\ \A b \in NonEmpty : b <= ResumeNum => Recorded(b)
         /\ \A b \in Block : Recorded(b) => b <= ResumeNum
         /\ \A b \in Block : b <= ResumeNum => Day[b] <= metaDate
         /\ \A b \in Block : ResumeNum < b => metaDate <= Day[b]
         /\ ~Resumed => \A b \in Block : rows[metaDate][b] = 0
<1>0. metaDate \in Days /\ metaStart \in StartNum..(LastNum + 1)
  BY DEF TypeOK
<1>m. \A b, c \in Block : b <= c => Day[b] <= Day[c]
  BY ChainAssumption
<1>1. ~Resumed => Inserted(metaDate) = {}
  BY <1>0 DEF Resumed, Inserted, RowsOK
<1>2. ASSUME NEW b \in Block, Recorded(b), Day[b] = metaDate
      PROVE  Resumed /\ b \in Inserted(metaDate)
  BY <1>1, <1>2 DEF Inserted, Recorded
<1>3. \A b \in Block : Recorded(b) => Day[b] <= metaDate
  BY Typing DEF Recorded, RowsOK
<1>4. CASE Resumed
  <2> DEFINE m == MaxHeight(metaDate)
  <2>1. /\ m \in Inserted(metaDate) /\ ResumeNum = m
        /\ \A b \in Inserted(metaDate) : b <= m
    BY <1>0, <1>4, MaxHeightFacts DEF Resumed, ResumeNum
  <2>2. m \in Block /\ Recorded(m) /\ Day[m] = metaDate
    BY <1>0, <2>1 DEF Inserted, RowsOK, Recorded
  <2> HIDE DEF m
  <2>3. metaStart <= m
    BY <2>2, <1>0, Typing DEF MetaOK
  <2>4. \A b \in NonEmpty : b <= m => Recorded(b)
    BY <2>2, Typing DEF RowsOK
  <2>5. ASSUME NEW b \in Block, Recorded(b)
        PROVE  b <= m
    <3>1. CASE Day[b] = metaDate
      BY <1>2, <2>1, <2>5, <3>1
    <3>2. CASE Day[b] # metaDate
      <4>1. b < metaStart
        BY <1>3, <2>5, <3>2, Typing DEF MetaOK
      <4> QED
        BY <4>1, <2>3, <2>2, Typing
    <3> QED
      BY <3>1, <3>2
  <2>6. \A b \in Block : /\ b <= m => Day[b] <= metaDate
                         /\ m < b => metaDate <= Day[b]
    BY <2>2, <1>m, Typing
  <2>7. m \in StartNum..LastNum
    BY <2>2 DEF Block
  <2> QED
    BY <1>4, <2>1, <2>3, <2>4, <2>5, <2>6, <2>7, Typing, ChainAssumption
<1>5. CASE ~Resumed
  <2>1. ResumeNum = metaStart - 1
    BY <1>5 DEF ResumeNum
  <2>2. \A b \in NonEmpty : b < metaStart => Recorded(b)
    BY DEF MetaOK
  <2>3. ASSUME NEW b \in Block
        PROVE  /\ Recorded(b) => b < metaStart
               /\ b < metaStart => Day[b] <= metaDate
               /\ metaStart <= b => metaDate <= Day[b]
    BY <1>2, <1>3, <1>5, Typing DEF MetaOK
  <2>4. \A b \in Block : rows[metaDate][b] = 0
    BY <1>0, <1>1, <1>5, Typing DEF Inserted
  <2>5. \A b \in Block : /\ b <= metaStart - 1 <=> b < metaStart
                         /\ metaStart - 1 < b <=> metaStart <= b
    BY Typing
  <2>6. metaStart - 1 \in (StartNum - 1)..LastNum /\ metaStart <= (metaStart - 1) + 1
    BY <1>0, ChainAssumption
  <2> QED
    BY <2>1, <2>2, <2>3, <2>4, <2>5, <2>6, Typing
<1> QED
  BY <1>4, <1>5

-----------------------------------------------------------------------------
(* The invariant is inductive: one lemma per group of actions that touch the *)
(* same variables.                                                           *)

LEMMA TrackingBegins == Init => TrackingInv /\ OnceOK
<1> SUFFICES ASSUME Init PROVE TrackingInv /\ OnceOK
  OBVIOUS
<1>0. StartDate \in Days
  BY DEF Days
<1>1. /\ StartNum \in StartNum..(LastNum + 1)
      /\ StartNum - 1 \in (StartNum - 1)..LastNum
  BY ChainAssumption
<1>2. TypeOK
  <2>1. rows \in [Days -> [Block -> Nat]]
    BY DEF Init
  <2> QED
    BY <1>0, <1>1, <2>1 DEF Init, TypeOK, Places
<1>3. \A d \in Days, b \in Block : rows[d][b] = 0
  BY DEF Init
<1>4. \A b \in Block : ~Recorded(b) /\ StartNum <= b /\ StartDate <= Day[b]
  BY <1>3, Typing, ChainAssumption DEF Recorded, Block
<1>5. RowsOK /\ RecordedOnce
  BY <1>3, <1>4, Typing DEF RowsOK, RecordedOnce
<1>6. MetaOK
  <2>1. \A b \in Block : ~(b < StartNum) /\ ~(Day[b] < StartDate)
    BY <1>4, Typing, ChainAssumption
  <2> QED
    BY <2>1, Typing DEF MetaOK, Init
<1>7. ProcessOK
  BY <1>1, <1>4, Typing, ChainAssumption DEF ProcessOK, AtWorkOK, Init, Abandoned, Saving, RollingOver, Next1
<1> QED
  BY <1>2, <1>5, <1>6, <1>7 DEF TrackingInv, OnceOK, Saving, Init

\* Steps that leave the disk alone keep what is said of it.
LEMMA DiskUnchanged ==
  ASSUME RowsOK, MetaOK, UNCHANGED disk
  PROVE  RowsOK' /\ MetaOK' /\ \A b \in Block : Recorded(b)' <=> Recorded(b)
BY DEF RowsOK, MetaOK, Recorded, disk

\* Steps that move the goroutine or another one and change neither the tables
\* nor the block that is being worked on.
Moves ==
  \/ Fetch \/ FetchFailed \/ TrackNewDay \/ SendStats \/ RolloverRetry
  \/ SaveEmpty \/ SaveFailed \/ SaveRetry \/ SaveAbandoned
  \/ DepthDone \/ Stop \/ BeginClose \/ Exit \/ Crash

LEMMA MovesAreCorrect ==
  ASSUME TrackingInv, OnceOK, Moves
  PROVE  TrackingInv' /\ OnceOK'
<1> USE DEF TrackingInv
<1>1. UNCHANGED <<trackingDate, lastNum, disk>>
  BY DEF Moves, Fetch, FetchFailed, TrackNewDay, SendStats, RolloverRetry,
         SaveEmpty, SaveFailed, SaveRetry, SaveAbandoned, DepthDone, Stop,
         BeginClose, Exit, Crash, process
<1>2. /\ pc' \in Places /\ quit' \in BOOLEAN /\ depthLoop' \in {"ready", "busy"}
      /\ quit => quit'
      /\ pc' # "stopped" => pc # "stopped"
  BY DEF Moves, Fetch, FetchFailed, TrackNewDay, SendStats, RolloverRetry,
         SaveEmpty, SaveFailed, SaveRetry, SaveAbandoned, DepthDone, Stop,
         BeginClose, Exit, Crash, process, TypeOK, Places
<1>3. TypeOK'
  BY <1>1, <1>2 DEF TypeOK, disk
<1>4. RowsOK' /\ MetaOK' /\ \A b \in Block : Recorded(b)' <=> Recorded(b)
  BY <1>1, DiskUnchanged
<1>5. /\ Saving' => Saving
      /\ RollingOver' => RollingOver \/ (pc = "sending" /\ metaDate = trackingDate)
      /\ RollingOver => RollingOver' \/ pc' = "stopped"
      /\ pc' = "sending" => \/ pc = "sending"
                            \/ Next1 \in Block /\ Day[Next1] # trackingDate
  BY DEF Moves, Fetch, FetchFailed, TrackNewDay, SendStats, RolloverRetry,
         SaveEmpty, SaveFailed, SaveRetry, SaveAbandoned, DepthDone, Stop,
         BeginClose, Exit, Crash, process, Saving, RollingOver, ProcessOK, AtWorkOK
<1>6. lastNum \in NonEmpty /\ pc' # "stopped" =>
        (Saving \/ Abandoned => Saving' \/ Abandoned')
  BY DEF Moves, Fetch, FetchFailed, TrackNewDay, SendStats, RolloverRetry,
         SaveEmpty, SaveFailed, SaveRetry, SaveAbandoned, DepthDone, Stop,
         BeginClose, Exit, Crash, process, Saving, Abandoned
<1>7. ProcessOK'
  <2> SUFFICES ASSUME pc' # "stopped" PROVE ProcessOK'
    BY DEF ProcessOK
  <2>1. pc # "stopped" /\ AtWorkOK
    BY <1>2 DEF ProcessOK
  <2>2. lastNum' = lastNum /\ trackingDate' = trackingDate /\ metaStart' = metaStart
        /\ metaDate' = metaDate /\ Next1' = Next1
    BY <1>1 DEF disk, Next1
  <2>3. /\ \A b \in NonEmpty : b < lastNum' => Recorded(b)'
        /\ lastNum' \in NonEmpty => Recorded(lastNum)' \/ Saving' \/ Abandoned'
        /\ \A b \in Block : Recorded(b)' => b <= lastNum'
    BY <1>4, <1>6, <2>1, <2>2, Typing DEF AtWorkOK
  <2>4. /\ Saving' => lastNum' \in Block /\ Day[lastNum'] = trackingDate'
        /\ pc' = "sending" \/ RollingOver' => Next1' \in Block /\ Day[Next1'] # trackingDate'
        /\ \/ metaDate' = trackingDate'
           \/ RollingOver' /\ metaDate' = Day[Next1'] /\ metaStart' = Next1'
    BY <1>5, <2>1, <2>2 DEF AtWorkOK
  <2> QED
    BY <2>1, <2>2, <2>3, <2>4 DEF ProcessOK, AtWorkOK
<1>8. OnceOK'
  <2>1. rows' = rows /\ lastNum' = lastNum
    BY <1>1 DEF disk
  <2> QED
    BY <2>1, <1>5 DEF OnceOK, RecordedOnce, Recorded
<1> QED
  BY <1>3, <1>4, <1>7, <1>8

LEMMA TrackSameDayIsCorrect ==
  ASSUME TrackingInv, OnceOK, TrackSameDay
  PROVE  TrackingInv' /\ OnceOK'
<1> USE DEF TrackingInv
<1>1. /\ lastNum' = lastNum + 1 /\ pc = "fetched" /\ pc' = "saving"
      /\ lastNum + 1 \in Block /\ Day[lastNum + 1] = trackingDate
      /\ UNCHANGED <<trackingDate, quit, depthLoop, disk>>
  BY DEF TrackSameDay, Next1
<1>2. TypeOK'
  <2>1. lastNum' \in (StartNum - 1)..LastNum
    BY <1>1, ChainAssumption DEF Block
  <2> QED
    BY <1>1, <2>1 DEF TypeOK, disk, Places
<1>3. RowsOK' /\ MetaOK' /\ \A b \in Block : Recorded(b)' <=> Recorded(b)
  BY <1>1, DiskUnchanged
<1>4. AtWorkOK /\ ~Saving /\ ~RollingOver /\ ~Abandoned
  BY <1>1 DEF ProcessOK, Saving, RollingOver, Abandoned
<1>5. Saving' /\ ~RollingOver'
  BY <1>1 DEF Saving, RollingOver
<1>6. \A b, c \in Block : b <= c => Day[b] <= Day[c]
  BY ChainAssumption
<1>7. AtWorkOK'
  <2>1. \A b \in NonEmpty : b < lastNum' => Recorded(b)'
    BY <1>1, <1>3, <1>4, Typing DEF AtWorkOK
  <2>2. \A b \in Block : Recorded(b)' => b <= lastNum'
    BY <1>1, <1>3, <1>4, Typing DEF AtWorkOK
  <2>3. \A b \in Block : /\ b <= lastNum' => Day[b] <= trackingDate'
                         /\ lastNum' < b => trackingDate' <= Day[b]
    BY <1>1, <1>6, Typing
  <2>4. metaStart' <= Next1'
    BY <1>1, <1>4, Typing DEF AtWorkOK, Next1, disk
  <2> QED
    BY <1>1, <1>4, <1>5, <2>1, <2>2, <2>3, <2>4 DEF AtWorkOK, disk
<1>8. OnceOK'
  <2>1. ~Recorded(lastNum + 1)
    BY <1>1, <1>4, Typing DEF AtWorkOK
  <2> QED
    BY <1>1, <1>3, <2>1 DEF OnceOK, RecordedOnce, disk
<1> QED
  BY <1>2, <1>3, <1>7, <1>8 DEF ProcessOK

\* The blocks before the one that the rollover is for are all of earlier days
\* and recorded, whether the meta rows have been written already or not.
LEMMA WriteMetaIsCorrect ==
  ASSUME TrackingInv, pc = "rollover", WriteMeta, UNCHANGED <<tables, rows>>
  PROVE  /\ RowsOK' /\ MetaOK' /\ metaDate' \in Days
         /\ Next1 \in Block /\ metaStart' \in StartNum..(LastNum + 1)
         /\ \A b \in Block : Recorded(b)' <=> Recorded(b)
<1> USE DEF TrackingInv
<1>1. AtWorkOK /\ RollingOver /\ ~Saving /\ ~Abandoned
  BY DEF ProcessOK, RollingOver, Saving, Abandoned
<1>2. Next1 \in Block /\ Day[Next1] # trackingDate /\ Next1 = lastNum + 1
  BY <1>1 DEF AtWorkOK, Next1
<1>3. trackingDate < Day[Next1] /\ metaDate <= Day[Next1]
  BY <1>1, <1>2, Typing DEF AtWorkOK
<1>4. \A b \in Block : /\ b <= lastNum => Day[b] < Day[Next1]
                       /\ lastNum < b => Day[Next1] <= Day[b]
  BY <1>1, <1>2, <1>3, Typing, ChainAssumption DEF AtWorkOK
<1>5. metaDate' = Day[Next1] /\ metaStart' = Next1
  BY DEF WriteMeta
<1>6. \A b \in Block : Recorded(b)' <=> Recorded(b)
  BY DEF Recorded
<1>7. RowsOK'
  <2>1. \A d \in Days : d <= metaDate => d <= metaDate'
    BY <1>2, <1>3, <1>5, Typing
  <2> QED
    BY <2>1, <1>6 DEF RowsOK
<1>8. MetaOK'
  <2>1. \A b \in Block : b < Next1 <=> b <= lastNum
    BY <1>2, Typing
  <2>2. \A b \in Block : b < Next1 <=> Day[b] < Day[Next1]
    BY <1>2, <1>4, <2>1, Typing
  <2>3. \A b \in NonEmpty : b < Next1 => Recorded(b)
    BY <1>1, <1>2, Typing DEF AtWorkOK
  <2> QED
    BY <1>5, <1>6, <2>2, <2>3, Typing DEF MetaOK
<1>9. Next1 \in StartNum..(LastNum + 1)
  BY <1>2, ChainAssumption DEF Block
<1> QED
  BY <1>2, <1>5, <1>6, <1>7, <1>8, <1>9, Typing

LEMMA RolloverOkIsCorrect ==
  ASSUME TrackingInv, OnceOK, RolloverOk
  PROVE  TrackingInv' /\ OnceOK'
<1> USE DEF TrackingInv
<1>1. /\ pc = "rollover" /\ pc' = "saving" /\ lastNum' = lastNum + 1
      /\ Next1 = lastNum + 1
      /\ metaDate' = Day[Next1] /\ metaStart' = Next1 /\ trackingDate' = Day[Next1]
      /\ UNCHANGED <<quit, depthLoop, tables, rows>>
  BY DEF RolloverOk, WriteMeta, Next1
<1>2. /\ RowsOK' /\ MetaOK' /\ metaDate' \in Days
      /\ Next1 \in Block /\ metaStart' \in StartNum..(LastNum + 1)
      /\ \A b \in Block : Recorded(b)' <=> Recorded(b)
  BY <1>1, WriteMetaIsCorrect DEF RolloverOk
<1>3. TypeOK'
  <2>1. lastNum' \in (StartNum - 1)..LastNum
    BY <1>1, <1>2, ChainAssumption DEF Block
  <2> QED
    BY <1>1, <1>2, <2>1 DEF TypeOK, Places
<1>4. AtWorkOK /\ ~Saving /\ ~Abandoned
  BY <1>1 DEF ProcessOK, Saving, Abandoned
<1>5. Saving' /\ ~RollingOver'
  BY <1>1 DEF Saving, RollingOver
<1>6. AtWorkOK'
  <2>1. \A b \in NonEmpty : b < lastNum' => Recorded(b)'
    BY <1>1, <1>2, <1>4, Typing DEF AtWorkOK
  <2>2. \A b \in Block : Recorded(b)' => b <= lastNum'
    BY <1>1, <1>2, <1>4, Typing DEF AtWorkOK
  <2>3. \A b \in Block : /\ b <= lastNum' => Day[b] <= trackingDate'
                         /\ lastNum' < b => trackingDate' <= Day[b]
    BY <1>1, <1>2, Typing, ChainAssumption
  <2>4. metaStart' <= Next1'
    BY <1>1, <1>2, Typing DEF Next1
  <2> QED
    BY <1>1, <1>2, <1>5, <2>1, <2>2, <2>3, <2>4 DEF AtWorkOK
<1>7. OnceOK'
  <2>1. ~Recorded(lastNum + 1)
    BY <1>1, <1>2, <1>4, Typing DEF AtWorkOK
  <2> QED
    BY <1>1, <1>2, <2>1 DEF OnceOK, RecordedOnce
<1> QED
  BY <1>2, <1>3, <1>6, <1>7 DEF ProcessOK

LEMMA RolloverFailedIsCorrect ==
  ASSUME TrackingInv, OnceOK, RolloverFailed
  PROVE  TrackingInv' /\ OnceOK'
<1> USE DEF TrackingInv
<1>1. /\ pc = "rollover" /\ pc' = "rolloverWait"
      /\ UNCHANGED <<trackingDate, lastNum, quit, depthLoop, tables, rows>>
  BY DEF RolloverFailed
<1>2. AtWorkOK /\ RollingOver /\ ~Saving
  BY <1>1 DEF ProcessOK, RollingOver, Saving
<1>3. RollingOver' /\ ~Saving'
  BY <1>1 DEF RollingOver, Saving
<1>4. /\ RowsOK' /\ MetaOK' /\ metaDate' \in Days
      /\ metaStart' \in StartNum..(LastNum + 1)
      /\ \A b \in Block : Recorded(b)' <=> Recorded(b)
      /\ \/ UNCHANGED <<metaDate, metaStart>>
         \/ metaDate' = Day[Next1] /\ metaStart' = Next1
  <2>1. CASE WriteMeta
    BY <1>1, <2>1, WriteMetaIsCorrect DEF WriteMeta
  <2>2. CASE UNCHANGED <<metaDate, metaStart>>
    BY <1>1, <2>2, DiskUnchanged DEF disk, TypeOK
  <2> QED
    BY <2>1, <2>2 DEF RolloverFailed
<1>5. TypeOK'
  BY <1>1, <1>4 DEF TypeOK, Places
<1>6. AtWorkOK'
  <2>1. Next1' = Next1 /\ lastNum' = lastNum
    BY <1>1 DEF Next1
  <2>2. ~Abandoned /\ (lastNum \in NonEmpty => Recorded(lastNum))
    BY <1>1, <1>2 DEF Abandoned, AtWorkOK
  <2>3. /\ \A b \in NonEmpty : b < lastNum' => Recorded(b)'
        /\ lastNum' \in NonEmpty => Recorded(lastNum)'
        /\ \A b \in Block : Recorded(b)' => b <= lastNum'
    BY <1>2, <1>4, <2>1, <2>2, Typing DEF AtWorkOK
  <2>4. metaStart' <= Next1'
    BY <1>2, <1>4, <2>1, Typing DEF AtWorkOK
  <2>5. \/ metaDate' = trackingDate'
        \/ metaDate' = Day[Next1'] /\ metaStart' = Next1'
    BY <1>1, <1>2, <1>4, <2>1 DEF AtWorkOK
  <2> QED
    BY <1>1, <1>2, <1>3, <2>1, <2>3, <2>4, <2>5 DEF AtWorkOK
<1>7. OnceOK'
  BY <1>1, <1>3 DEF OnceOK, RecordedOnce
<1> QED
  BY <1>4, <1>5, <1>6, <1>7 DEF ProcessOK

LEMMA CreateTableIsCorrect ==
  ASSUME TrackingInv, OnceOK, CreateTable
  PROVE  TrackingInv' /\ OnceOK'
<1> USE DEF TrackingInv
<1>1. /\ tables' = tables \cup {trackingDate}
      /\ UNCHANGED <<pc, trackingDate, lastNum, quit, depthLoop, metaDate, metaStart, rows>>
  BY DEF CreateTable, process
<1>2. \A b \in Block : Recorded(b)' <=> Recorded(b)
  BY <1>1 DEF Recorded
<1>3. TypeOK' /\ RowsOK' /\ MetaOK'
  <2>1. TypeOK'
    BY <1>1 DEF TypeOK
  <2>2. RowsOK'
    BY <1>1, <1>2 DEF RowsOK
  <2>3. MetaOK'
    BY <1>1, <1>2, Typing DEF MetaOK
  <2> QED
    BY <2>1, <2>2, <2>3
<1>4. ProcessOK'
  BY <1>1, <1>2, Typing DEF ProcessOK, AtWorkOK, Saving, RollingOver, Abandoned, Next1
<1>5. OnceOK'
  BY <1>1 DEF OnceOK, RecordedOnce, Saving, Recorded
<1> QED
  BY <1>3, <1>4, <1>5

\* What one more copy of the block that is being saved changes.
LEMMA InsertFacts ==
  ASSUME TrackingInv, Insert
  PROVE  /\ AtWorkOK /\ Saving /\ lastNum \in NonEmpty /\ lastNum \in Block
         /\ Day[lastNum] = trackingDate /\ trackingDate \in tables
         /\ metaDate = trackingDate
         /\ rows' \in [Days -> [Block -> Nat]]
         /\ \A d \in Days, b \in Block :
              rows'[d][b] = IF d = trackingDate /\ b = lastNum
                            THEN rows[d][b] + 1 ELSE rows[d][b]
         /\ \A b \in Block : Recorded(b)' <=> Recorded(b) \/ b = lastNum
<1> USE DEF TrackingInv
<1>1. AtWorkOK /\ Saving /\ ~RollingOver
  BY DEF Insert, ProcessOK, Saving, RollingOver
<1>2. /\ lastNum \in Block /\ lastNum \in NonEmpty /\ Day[lastNum] = trackingDate
      /\ trackingDate \in tables /\ trackingDate \in Days /\ metaDate = trackingDate
  BY <1>1 DEF Insert, AtWorkOK, TypeOK
<1>3. rows \in [Days -> [Block -> Nat]]
      /\ rows' = [rows EXCEPT ![trackingDate][lastNum] = rows[trackingDate][lastNum] + 1]
  BY DEF Insert, TypeOK
<1>4. rows' \in [Days -> [Block -> Nat]]
  BY <1>2, <1>3
<1>5. \A d \in Days, b \in Block :
        rows'[d][b] = IF d = trackingDate /\ b = lastNum
                      THEN rows[d][b] + 1 ELSE rows[d][b]
  BY <1>2, <1>3
<1>6. \A b \in Block : Recorded(b)' <=> Recorded(b) \/ b = lastNum
  <2> TAKE b \in Block
  <2>1. Day[b] \in Days /\ rows[Day[b]][b] \in Nat
    BY Typing
  <2> QED
    BY <1>2, <1>5, <2>1 DEF Recorded
<1> QED
  BY <1>1, <1>2, <1>4, <1>5, <1>6

LEMMA InsertIsCorrect ==
  ASSUME TrackingInv, OnceOK, SaveOk \/ SaveUnacknowledged
  PROVE  TrackingInv' /\ OnceOK'
<1> USE DEF TrackingInv
<1>1. /\ Insert
      /\ pc' = "idle" \/ (LoseAcks /\ pc' = "saveWait")
      /\ UNCHANGED <<trackingDate, lastNum, quit, depthLoop, metaDate, metaStart, tables>>
  BY DEF SaveOk, SaveUnacknowledged, Insert
<1>2. /\ AtWorkOK /\ Saving /\ lastNum \in NonEmpty /\ lastNum \in Block
      /\ Day[lastNum] = trackingDate /\ trackingDate \in tables
      /\ metaDate = trackingDate
      /\ rows' \in [Days -> [Block -> Nat]]
      /\ \A d \in Days, b \in Block :
           rows'[d][b] = IF d = trackingDate /\ b = lastNum
                         THEN rows[d][b] + 1 ELSE rows[d][b]
      /\ \A b \in Block : Recorded(b)' <=> Recorded(b) \/ b = lastNum
  BY <1>1, InsertFacts
<1>3. TypeOK'
  BY <1>1, <1>2 DEF TypeOK, Places
<1>4. RowsOK'
  <2>1. ASSUME NEW d \in Days, NEW b \in Block, rows'[d][b] > 0
        PROVE  Day[b] = d /\ d \in tables' /\ b \in NonEmpty /\ d <= metaDate'
    <3>1. CASE d = trackingDate /\ b = lastNum
      BY <1>1, <1>2, <3>1, Typing
    <3>2. CASE ~(d = trackingDate /\ b = lastNum)
      <4>1. rows[d][b] > 0
        BY <1>2, <2>1, <3>2
      <4> QED
        BY <1>1, <4>1 DEF RowsOK
    <3> QED
      BY <3>1, <3>2
  <2>2. ASSUME NEW b \in Block, NEW c \in Block, c < b, c \in NonEmpty, Recorded(b)'
        PROVE  Recorded(c)'
    <3>1. Recorded(b) \/ b = lastNum
      BY <1>2, <2>2
    <3>2. Recorded(c)
      BY <1>2, <2>2, <3>1 DEF RowsOK, AtWorkOK
    <3> QED
      BY <1>2, <3>2
  <2> QED
    BY <2>1, <2>2 DEF RowsOK
<1>5. MetaOK'
  BY <1>1, <1>2, Typing DEF MetaOK
<1>6. AtWorkOK'
  <2>1. /\ \A b \in NonEmpty : b < lastNum' => Recorded(b)'
        /\ Recorded(lastNum)'
        /\ \A b \in Block : Recorded(b)' => b <= lastNum'
    BY <1>1, <1>2, Typing DEF AtWorkOK
  <2>2. ~RollingOver' /\ pc' # "sending" /\ Next1' = Next1
    BY <1>1 DEF RollingOver, Next1
  <2> QED
    BY <1>1, <1>2, <2>1, <2>2 DEF AtWorkOK
<1>7. OnceOK'
  <2> SUFFICES ASSUME ~LoseAcks PROVE OnceOK'
    BY DEF OnceOK
  <2>1. RecordedOnce /\ ~Recorded(lastNum) /\ pc' = "idle"
    BY <1>1, <1>2 DEF OnceOK
  <2>2. rows[trackingDate][lastNum] = 0
    BY <1>2, <2>1, Typing DEF Recorded
  <2>3. RecordedOnce'
    BY <1>2, <2>1, <2>2 DEF RecordedOnce
  <2> QED
    BY <2>1, <2>3 DEF OnceOK, Saving
<1> QED
  BY <1>3, <1>4, <1>5, <1>6, <1>7 DEF ProcessOK

\* New drops a table only when it has no rows: the rows stay as they are.
LEMMA RestartKeepsRows ==
  ASSUME TrackingInv, Restart
  PROVE  rows' = rows
<1> USE DEF TrackingInv
<1>1. CASE Resumed
  BY <1>1 DEF Restart
<1>2. CASE ~Resumed
  <2>1. metaDate \in Days /\ rows \in [Days -> [Block -> Nat]]
    BY DEF TypeOK
  <2>2. \A b \in Block : rows[metaDate][b] = 0
    BY <1>2, ResumeFacts
  <2>3. rows[metaDate] = [b \in Block |-> 0]
    BY <2>1, <2>2
  <2> QED
    BY <1>2, <2>1, <2>3 DEF Restart
<1> QED
  BY <1>1, <1>2

LEMMA RestartIsCorrect ==
  ASSUME TrackingInv, OnceOK, Restart
  PROVE  TrackingInv' /\ OnceOK'
<1> USE DEF TrackingInv
<1>1. rows' = rows
  BY RestartKeepsRows
<1>2. /\ lastNum' = ResumeNum /\ trackingDate' = metaDate /\ pc' = "idle"
      /\ quit' = FALSE /\ depthLoop' = "busy"
      /\ tables' = (IF Resumed THEN tables ELSE tables \ {metaDate})
      /\ UNCHANGED <<metaDate, metaStart>>
  BY DEF Restart
<1>3. /\ ResumeNum \in (StartNum - 1)..LastNum
      /\ metaStart <= ResumeNum + 1
      /\ \A b \in NonEmpty : b <= ResumeNum => Recorded(b)
      /\ \A b \in Block : Recorded(b) => b <= ResumeNum
      /\ \A b \in Block : b <= ResumeNum => Day[b] <= metaDate
      /\ \A b \in Block : ResumeNum < b => metaDate <= Day[b]
      /\ ~Resumed => \A b \in Block : rows[metaDate][b] = 0
  BY ResumeFacts
<1>4. \A b \in Block : Recorded(b)' <=> Recorded(b)
  BY <1>1 DEF Recorded
<1>5. TypeOK'
  BY <1>1, <1>2, <1>3 DEF TypeOK, Places
<1>6. RowsOK'
  <2>1. \A d \in Days, b \in Block : rows[d][b] > 0 => d \in tables'
    BY <1>2, <1>3 DEF RowsOK
  <2> QED
    BY <1>1, <1>2, <1>4, <2>1 DEF RowsOK
<1>7. MetaOK'
  BY <1>2, <1>4, Typing DEF MetaOK
<1>8. AtWorkOK'
  <2>1. ~Saving' /\ ~RollingOver' /\ pc' # "sending" /\ Next1' = ResumeNum + 1
    BY <1>2 DEF Saving, RollingOver, Next1
  <2>2. /\ \A b \in NonEmpty : b < ResumeNum => Recorded(b)'
        /\ ResumeNum \in NonEmpty => Recorded(lastNum)'
    BY <1>2, <1>3, <1>4, Typing
  <2>3. \A b \in Block : Recorded(b)' => b <= ResumeNum
    BY <1>3, <1>4
  <2> QED
    BY <1>2, <1>3, <2>1, <2>2, <2>3 DEF AtWorkOK
<1>9. OnceOK'
  BY <1>1, <1>2 DEF OnceOK, RecordedOnce, Saving
<1> QED
  BY <1>5, <1>6, <1>7, <1>8, <1>9 DEF ProcessOK

LEMMA NextIsCorrect ==
  ASSUME TrackingInv, OnceOK, [Next]_vars
  PROVE  TrackingInv' /\ OnceOK'
<1>1. CASE Moves
  BY <1>1, MovesAreCorrect
<1>2. CASE TrackSameDay
  BY <1>2, TrackSameDayIsCorrect
<1>3. CASE RolloverOk
  BY <1>3, RolloverOkIsCorrect
<1>4. CASE RolloverFailed
  BY <1>4, RolloverFailedIsCorrect
<1>5. CASE CreateTable
  BY <1>5, CreateTableIsCorrect
<1>6. CASE SaveOk \/ SaveUnacknowledged
  BY <1>6, InsertIsCorrect
<1>7. CASE Restart
  BY <1>7, RestartIsCorrect
<1>8. CASE UNCHANGED vars
  <2>1. TypeOK' /\ RowsOK' /\ MetaOK'
    BY <1>8, DiskUnchanged DEF vars, process, disk, TypeOK, TrackingInv
  <2>2. ProcessOK'
    BY <1>8 DEF vars, process, disk, TrackingInv, ProcessOK, AtWorkOK, Saving,
                RollingOver, Abandoned, Next1, Recorded
  <2>3. OnceOK'
    BY <1>8 DEF vars, process, disk, OnceOK, RecordedOnce, Saving, Recorded
  <2> QED
    BY <2>1, <2>2, <2>3 DEF TrackingInv
<1> QED
  BY <1>1, <1>2, <1>3, <1>4, <1>5, <1>6, <1>7, <1>8 DEF Next, TrackBlock, Moves

\* The inductive invariant holds in every reachable state.
THEOREM Invariance == Spec => [](TrackingInv /\ OnceOK)
<1>1. Init => TrackingInv /\ OnceOK
  BY TrackingBegins
<1>2. (TrackingInv /\ OnceOK) /\ [Next]_vars => (TrackingInv /\ OnceOK)'
  BY NextIsCorrect
<1> QED
  BY <1>1, <1>2, PTL DEF Spec

-----------------------------------------------------------------------------
\* The types of the process state, of the meta rows and of the tables.
THEOREM TypeCorrect == Spec => []TypeOK
<1>1. TrackingInv => TypeOK
  BY DEF TrackingInv
<1> QED
  BY <1>1, Invariance, PTL

\* At any point where the process may die, New resumes after blocks that are
\* all recorded (resumeBlockNum, SetLastTrackedBlock, SaveTransactions).
THEOREM ResumeLeavesNoHole == Spec => []NoHole
<1>1. TrackingInv => NoHole
  BY ResumeFacts DEF TrackingInv, NoHole
<1> QED
  BY <1>1, Invariance, PTL

\* New never resumes before a block that has been recorded already.
THEOREM ResumeRepeatsNothing == Spec => []NothingBeyondResume
<1>1. TrackingInv => NothingBeyondResume
  BY ResumeFacts DEF TrackingInv, NothingBeyondResume, RowsOK, Recorded
<1> QED
  BY <1>1, Invariance, PTL

\* Transactions are routed to the table of their day across the rollover.
THEOREM RoutedToTheirDay == Spec => []RightDay
<1>1. TrackingInv => RightDay
  BY DEF TrackingInv, RightDay, RowsOK
<1> QED
  BY <1>1, Invariance, PTL

\* Without lost acknowledgements no block is inserted twice.
THEOREM SavedOnce == ASSUME ~LoseAcks PROVE Spec => []RecordedOnce
<1>1. OnceOK => RecordedOnce
  BY DEF OnceOK
<1> QED
  BY <1>1, Invariance, PTL

\* What a step does to the rows.
LEMMA RowsChange ==
  ASSUME TrackingInv, [Next]_vars
  PROVE  rows' = rows \/ Insert
<1>1. CASE Restart
  BY <1>1, RestartKeepsRows
<1>2. CASE UNCHANGED vars
  BY <1>2 DEF vars, disk
<1>3. CASE Next /\ ~Restart
  BY <1>3 DEF Next, TrackBlock, Fetch, FetchFailed, TrackSameDay, TrackNewDay,
       SendStats, RolloverOk, RolloverFailed, RolloverRetry, SaveEmpty,
       CreateTable, SaveOk, SaveUnacknowledged, SaveFailed, SaveRetry,
       SaveAbandoned, DepthDone, Stop, BeginClose, Exit, Crash, disk
<1> QED
  BY <1>1, <1>2, <1>3

\* The tables of the days before the tracked one never change, so that one scan
\* of such a table sees the whole day.
THEOREM PastIsFrozen == Spec => PastDaysFrozen
<1>1. ASSUME TrackingInv, [Next]_vars
      PROVE  \A d \in Days : d < metaDate => rows'[d] = rows[d]
  <2> SUFFICES ASSUME NEW d \in Days, d < metaDate, Insert
               PROVE  rows'[d] = rows[d]
    BY <1>1, RowsChange
  <2>1. d # trackingDate
    BY <1>1, InsertFacts, Typing DEF TrackingInv
  <2>2. rows \in [Days -> [Block -> Nat]]
    BY <1>1 DEF TrackingInv, TypeOK
  <2> QED
    BY <2>1, <2>2 DEF Insert
<1> QED
  BY <1>1, Invariance, PTL DEF Spec, PastDaysFrozen

-----------------------------------------------------------------------------
(* The tables implement the archive.                                         *)

\* In the terms of the archive: what is in it is what has been recorded.
LEMMA ArchiveFacts ==
  TrackingInv => /\ RowsArchive = {<<Day[b], b>> : b \in {c \in Block : Recorded(c)}}
                 /\ Archive!Recorded = {b \in Block : Recorded(b)}
<1> SUFFICES ASSUME TrackingInv
    PROVE  /\ RowsArchive = {<<Day[b], b>> : b \in {c \in Block : Recorded(c)}}
           /\ Archive!Recorded = {b \in Block : Recorded(b)}
  OBVIOUS
<1>1. RowsArchive = {<<Day[b], b>> : b \in {c \in Block : Recorded(c)}}
  <2>1. ASSUME NEW r \in RowsArchive
        PROVE  r[2] \in Block /\ Recorded(r[2]) /\ r = <<Day[r[2]], r[2]>>
    BY <2>1 DEF RowsArchive, TrackingInv, RowsOK, Recorded
  <2>2. ASSUME NEW b \in Block, Recorded(b)
        PROVE  <<Day[b], b>> \in RowsArchive
    BY <2>2, Typing DEF RowsArchive, Recorded
  <2> QED
    BY <2>1, <2>2
<1>2. Archive!Recorded = {b \in Block : Recorded(b)}
  <2>1. \A b \in Block : <<Day[b], b>>[2] = b
    OBVIOUS
  <2>2. Archive!Recorded = {r[2] : r \in RowsArchive}
    BY DEF Archive!Recorded
  <2>3. ASSUME NEW b \in Block, Recorded(b)
        PROVE  b \in {r[2] : r \in RowsArchive}
    <3>1. <<Day[b], b>> \in RowsArchive
      BY <1>1, <2>3
    <3> QED
      BY <3>1, <2>1
  <2>4. ASSUME NEW r \in RowsArchive
        PROVE  r[2] \in {b \in Block : Recorded(b)}
    BY <1>1
  <2> QED
    BY <2>2, <2>3, <2>4
<1> QED
  BY <1>1, <1>2

LEMMA InsertRecords ==
  ASSUME TrackingInv, TrackingInv', Insert, ~Recorded(lastNum)
  PROVE  Archive!Next
<1>1. /\ AtWorkOK /\ lastNum \in NonEmpty /\ lastNum \in Block
      /\ \A b \in Block : Recorded(b)' <=> Recorded(b) \/ b = lastNum
  BY InsertFacts
<1>2. RowsArchive' = RowsArchive \cup {<<Day[lastNum], lastNum>>}
  <2>1. RowsArchive = {<<Day[b], b>> : b \in {c \in Block : Recorded(c)}}
    BY ArchiveFacts
  <2>2. RowsArchive' = {<<Day[b], b>> : b \in {c \in Block : Recorded(c)'}}
    <3>1. (RowsArchive = {<<Day[b], b>> : b \in {c \in Block : Recorded(c)}})'
      BY ArchiveFacts, PTL
    <3> QED
      BY <3>1
  <2>3. {c \in Block : Recorded(c)'} = {c \in Block : Recorded(c)} \cup {lastNum}
    BY <1>1
  <2> QED
    BY <2>1, <2>2, <2>3
<1>3. lastNum \notin Archive!Recorded
  BY ArchiveFacts
<1>4. \A c \in NonEmpty : c < lastNum => c \in Archive!Recorded
  BY <1>1, ArchiveFacts, Typing DEF AtWorkOK
<1> QED
  BY <1>1, <1>2, <1>3, <1>4 DEF Archive!Next, Archive!Record

\* Every step of the tracker, with its failures and restarts, either records
\* the next block with transactions or leaves the archive as it is.
THEOREM TrackingImplementsArchive == Spec => ImplementsArchive
<1>1. Init => Archive!Init
  BY Typing DEF Init, RowsArchive, Archive!Init
<1>2. ASSUME TrackingInv, TrackingInv', [Next]_vars
      PROVE  [Archive!Next]_RowsArchive
  <2>1. CASE rows' = rows
    BY <2>1 DEF RowsArchive
  <2>2. CASE Insert /\ ~Recorded(lastNum)
    BY <1>2, <2>2, InsertRecords
  <2>3. CASE Insert /\ Recorded(lastNum)
    <3>1. \A b \in Block : Recorded(b)' <=> Recorded(b)
      BY <1>2, <2>3, InsertFacts
    <3>2. RowsArchive = {<<Day[b], b>> : b \in {c \in Block : Recorded(c)}}
      BY <1>2, ArchiveFacts
    <3>3. RowsArchive' = {<<Day[b], b>> : b \in {c \in Block : Recorded(c)'}}
      <4>1. (RowsArchive = {<<Day[b], b>> : b \in {c \in Block : Recorded(c)}})'
        BY <1>2, ArchiveFacts, PTL
      <4> QED
        BY <4>1
    <3> QED
      BY <3>1, <3>2, <3>3
  <2> QED
    BY <1>2, <2>1, <2>2, <2>3, RowsChange
<1> QED
  BY <1>1, <1>2, Invariance, PTL DEF Spec, ImplementsArchive, Archive!Spec

-----------------------------------------------------------------------------
(* The activity monitor                                                    *)

\* The tracker's place in the chain.
PlaceOK ==
    /\ chain \in Chains
    /\ saved \in Nat /\ saved <= Len(chain)
    /\ block \in Nat /\ block <= Len(chain) /\ ((block = 0) \/ (block = saved + 1))
    /\ index \in Nat /\ ((block > 0) => (index > 0))

\* What the map holds: every entry was added to.
MapOK ==
    /\ DOMAIN accumulator \subseteq Buckets
    /\ \A b \in DOMAIN accumulator :
          /\ accumulator[b].amount \in Int
          /\ accumulator[b].txs \in Nat /\ accumulator[b].txs >= 1
          /\ accumulator[b].breakdown["BANDWIDTH"] \in Int
          /\ accumulator[b].breakdown["ENERGY"] \in Int

\* The tracker has been through p, and does not come to it again before a restart.
Gone(p) == (p[1] <= saved) \/ ((p[1] = block) /\ (p[2] < index))

\* What is remembered of the past has the right types.
PastOK ==
    /\ since \in [Buckets -> Int]
    /\ spanned \in [Buckets -> Nat]
    /\ parts \in [Buckets -> SUBSET Positions]
    /\ alerted \in [Positions -> Nat]
    /\ cuts \in [DOMAIN chain -> Nat]

\* The map is exactly what this process has reported and not alerted, bucket by bucket, and
\* the processes before it have forgotten less than the threshold each.
Accounted ==
    \A b \in Buckets :
        /\ Pending(b).amount = SumOver(AmountAt, parts[b])
        /\ Pending(b).txs = Cardinality(parts[b])
        /\ (KindOf(b) = "stake") =>
              (Pending(b).breakdown["BANDWIDTH"] + Pending(b).breakdown["ENERGY"]
                 = Pending(b).amount)
        /\ (KindOf(b) \in Configured) =>
              /\ Pending(b).amount <= Threshold[KindOf(b)] - 1
              /\ since[b] <= spanned[b] * (Threshold[KindOf(b)] - 1) + Pending(b).amount

\* What has accumulated is made of transactions that the tracker has been through, each in
\* the bucket that is its own.
PartsOK ==
    \A b \in Buckets :
        /\ Amounts(AmountAt, parts[b])
        /\ \A p \in parts[b] :
              Gone(p) /\ (b = Bucket(chain[p[1]][p[2]])) /\ (alerted[p] <= cuts[p[1]])

\* What is still to come has entered one alert for each time its block was cut.
AlertedOK ==
    \A p \in Positions :
        /\ alerted[p] <= 1 + cuts[p[1]]
        /\ ~Gone(p) => (alerted[p] <= cuts[p[1]])

\* The figures of the alert.
AlertOK ==
    (alert.kind # "none") =>
        /\ alert.sum.amount >= alert.limit
        /\ alert.sum.amount = SumOver(AmountAt, alert.of)
        /\ alert.sum.txs = Cardinality(alert.of)
        /\ (alert.kind = "cumulative") => (alert.sum.txs > 1)
        /\ (KindOf(alert.bucket) = "stake") =>
              (alert.sum.breakdown["BANDWIDTH"] + alert.sum.breakdown["ENERGY"]
                  = alert.sum.amount)

MonitorInv == MapOK /\ PastOK /\ Accounted /\ PartsOK /\ AlertedOK /\ AlertOK

ActivityInv == PlaceOK /\ MonitorInv

-----------------------------------------------------------------------------
(* Lemmas                                                                  *)

\* A bucket's kind is that of its action.
LEMMA KindOfAction ==
    ASSUME NEW action \in Actions, NEW actor \in Actors
    PROVE  /\ <<action, actor>> \in Buckets
           /\ (action \in {"Stake", "Unstake"}) => (KindOf(<<action, actor>>) = "stake")
           /\ (action = "TRX Transfer") => (KindOf(<<action, actor>>) = "trx")
           /\ (action = "USDT Transfer") => (KindOf(<<action, actor>>) = "usdt")
<1>1. <<action, actor>> \in Buckets
  BY DEF Buckets
<1>2. <<action, actor>>[1] = action
  OBVIOUS
<1>3. (action \in {"Stake", "Unstake"}) => (KindOf(<<action, actor>>) = "stake")
  BY <1>2 DEF KindOf
<1>4. (action = "TRX Transfer") => (KindOf(<<action, actor>>) = "trx")
  BY <1>2 DEF KindOf
<1>5. (action = "USDT Transfer") => (KindOf(<<action, actor>>) = "usdt")
  BY <1>2 DEF KindOf
<1> QED
  BY <1>1, <1>3, <1>4, <1>5

\* A detected transaction has a bucket, of the kind it is held against, and a threshold.
LEMMA DetectedBucket ==
    ASSUME NEW tx \in Transactions, Detected(tx)
    PROVE  /\ Bucket(tx) \in Buckets
           /\ KindOf(Bucket(tx)) = Kind(tx)
           /\ Kind(tx) \in Configured
           /\ Threshold[Kind(tx)] \in Nat /\ Threshold[Kind(tx)] > 0
           /\ tx.amount \in Int /\ tx.amount > 0
<1>1. /\ tx.owner \in Actors \cup {NoActor} /\ tx.from \in Actors \cup {NoActor}
      /\ tx.amount \in Int /\ ((StakeAction(tx) # "none") => (tx.owner \in Actors))
  BY DEF Transactions
<1>2. (Kind(tx) # "none") /\ (tx.amount > 0)
  BY DEF Detected
<1>3. CASE (StakeAction(tx) # "none") /\ ("stake" \in Configured)
  <2>1. Kind(tx) = "stake"
    BY <1>3 DEF Kind
  <2>2. Bucket(tx) = <<StakeAction(tx), tx.owner>>
    BY <2>1 DEF Bucket
  <2>3. StakeAction(tx) \in {"Stake", "Unstake"}
    BY <1>3 DEF StakeAction
  <2>4. Bucket(tx) \in Buckets /\ (KindOf(Bucket(tx)) = "stake")
    BY <1>1, <1>3, <2>2, <2>3, KindOfAction DEF Actions
  <2> QED
    BY <1>1, <1>2, <1>3, <2>1, <2>4, ThresholdAssumption
<1>4. CASE ~((StakeAction(tx) # "none") /\ ("stake" \in Configured))
  <2>1. \/ Kind(tx) = "trx" /\ HasBothEnds(tx) /\ ("trx" \in Configured)
        \/ Kind(tx) = "usdt" /\ HasBothEnds(tx) /\ ("usdt" \in Configured)
    BY <1>2, <1>4 DEF Kind
  <2>2. tx.from \in Actors
    BY <1>1, <2>1 DEF HasBothEnds
  <2>3. CASE Kind(tx) = "trx"
    <3>1. Bucket(tx) = <<"TRX Transfer", tx.from>>
      BY <2>3 DEF Bucket
    <3>2. Bucket(tx) \in Buckets /\ (KindOf(Bucket(tx)) = "trx")
      BY <2>2, <3>1, KindOfAction DEF Actions
    <3> QED
      BY <1>1, <1>2, <2>1, <2>3, <3>2, ThresholdAssumption
  <2>4. CASE Kind(tx) = "usdt"
    <3>1. Bucket(tx) = <<"USDT Transfer", tx.from>>
      BY <2>4 DEF Bucket
    <3>2. Bucket(tx) \in Buckets /\ (KindOf(Bucket(tx)) = "usdt")
      BY <2>2, <3>1, KindOfAction DEF Actions
    <3> QED
      BY <1>1, <1>2, <2>1, <2>4, <3>2, ThresholdAssumption
  <2> QED
    BY <2>1, <2>3, <2>4
<1> QED
  BY <1>3, <1>4

\* Adding a transaction adds its amount, and for a stake adds it to one of the parts.
LEMMA AddedUp ==
    ASSUME NEW tx \in Transactions, NEW a,
           a.amount \in Int, a.txs \in Nat,
           a.breakdown["BANDWIDTH"] \in Int, a.breakdown["ENERGY"] \in Int
    PROVE  /\ Add(a, tx).amount = a.amount + tx.amount /\ Add(a, tx).amount \in Int
           /\ Add(a, tx).txs = a.txs + 1 /\ Add(a, tx).txs \in Nat
           /\ Add(a, tx).breakdown["BANDWIDTH"] \in Int
           /\ Add(a, tx).breakdown["ENERGY"] \in Int
           /\ (Kind(tx) = "stake") =>
                 (Add(a, tx).breakdown["BANDWIDTH"] + Add(a, tx).breakdown["ENERGY"]
                    = a.breakdown["BANDWIDTH"] + a.breakdown["ENERGY"] + tx.amount)
<1>1. tx.amount \in Int
  BY DEF Transactions
<1>2. /\ Add(a, tx).amount = a.amount + tx.amount
      /\ Add(a, tx).txs = a.txs + 1
      /\ Add(a, tx).breakdown["BANDWIDTH"] = a.breakdown["BANDWIDTH"] + Breakdown(tx)["BANDWIDTH"]
      /\ Add(a, tx).breakdown["ENERGY"] = a.breakdown["ENERGY"] + Breakdown(tx)["ENERGY"]
  BY DEF Add, Resources
<1>3. /\ Breakdown(tx)["BANDWIDTH"] \in Int /\ Breakdown(tx)["ENERGY"] \in Int
      /\ (Kind(tx) = "stake") =>
            (Breakdown(tx)["BANDWIDTH"] + Breakdown(tx)["ENERGY"] = tx.amount)
  BY <1>1 DEF Breakdown, Resources, Resource
<1> QED
  BY <1>1, <1>2, <1>3

\* What is pending, from the invariant.
LEMMA PendingOK ==
    ASSUME MapOK, NEW b \in Buckets
    PROVE  /\ Pending(b).amount \in Int /\ Pending(b).txs \in Nat
           /\ Pending(b).breakdown["BANDWIDTH"] \in Int
           /\ Pending(b).breakdown["ENERGY"] \in Int
           /\ (Pending(b).amount # 0) => (Pending(b).txs >= 1)
<1>1. CASE b \in DOMAIN accumulator
  BY <1>1 DEF Pending, MapOK
<1>2. CASE b \notin DOMAIN accumulator
  BY <1>2 DEF Pending, NewAccumulator, Resources
<1> QED
  BY <1>1, <1>2

\* The tracker goes through a transaction of a block.
Advances ==
    /\ block > 0 /\ index <= Len(chain[block]) /\ index' = index + 1
    /\ UNCHANGED <<chain, saved, block>>

\* The transaction that the tracker comes to is one, at a place of the chain that it has not
\* been through.
LEMMA TransactionRead ==
    ASSUME PlaceOK, block > 0, index <= Len(chain[block])
    PROVE  /\ chain[block][index] \in Transactions
           /\ Here \in Positions /\ ~Gone(Here) /\ Here[1] = block /\ Here[2] = index
           /\ AmountAt[Here] = chain[block][index].amount
<1>1. chain \in Seq(Seq(Transactions))
  BY ChainsAssumption DEF PlaceOK
<1>2. block \in 1..Len(chain)
  BY <1>1 DEF PlaceOK
<1>3. chain[block] \in Seq(Transactions)
  BY <1>1, <1>2
<1>4. index \in 1..Len(chain[block])
  BY <1>3 DEF PlaceOK
<1>5. Here \in Positions
  <2>1. block \in DOMAIN chain /\ index \in DOMAIN chain[block]
    BY <1>1, <1>2, <1>3, <1>4
  <2>2. Here \in {block} \X DOMAIN chain[block]
    BY <2>1 DEF Here
  <2> QED
    BY <2>1, <2>2 DEF Positions
<1>6. Here[1] = block /\ Here[2] = index
  BY DEF Here
<1>7. ~Gone(Here)
  BY <1>4, <1>6 DEF Gone, PlaceOK
<1>8. AmountAt[Here] = chain[block][index].amount
  BY <1>5, <1>6 DEF AmountAt
<1> QED
  BY <1>3, <1>4, <1>5, <1>6, <1>7, <1>8

\* Every transaction has its block.
LEMMA PlaceInBlock ==
    ASSUME NEW p \in Positions
    PROVE  p[1] \in DOMAIN chain /\ p[2] \in DOMAIN chain[p[1]]
<1>1. PICK i \in DOMAIN chain : p \in {i} \X DOMAIN chain[i]
  BY DEF Positions
<1> QED
  BY <1>1

\* One more process, or one less threshold to be passed.
LEMMA OnceMore ==
    ASSUME NEW n \in Nat, NEW m \in Int
    PROVE  (n + 1) * m = n * m + m
OBVIOUS

-----------------------------------------------------------------------------
(* The steps of buildAlertIfLarge                                          *)

\* The places of the chain depend on the chain alone.
LEMMA SameChain ==
    ASSUME chain' = chain
    PROVE  Positions' = Positions /\ AmountAt' = AmountAt
BY DEF Positions, AmountAt

\* What the tracker has been through grows by the transaction that it is at.
LEMMA GoneGrows ==
    ASSUME PlaceOK, Advances
    PROVE  \A p \in Positions : Gone(p)' <=> (Gone(p) \/ (p = Here))
<1> USE DEF Advances
<1>1. chain \in Seq(Seq(Transactions)) /\ index \in Nat /\ block \in Nat
  BY ChainsAssumption DEF PlaceOK
<1> SUFFICES ASSUME NEW p \in Positions PROVE Gone(p)' <=> (Gone(p) \/ (p = Here))
  OBVIOUS
<1>2. PICK i \in DOMAIN chain : p \in {i} \X DOMAIN chain[i]
  BY DEF Positions
<1>3. p = <<p[1], p[2]>> /\ p[1] = i /\ p[2] \in DOMAIN chain[i]
  BY <1>2
<1>4. p[2] \in Nat
  <2>1. chain[i] \in Seq(Transactions)
    BY <1>1, <1>2
  <2> QED
    BY <1>3, <2>1
<1>5. (p = Here) <=> (p[1] = block /\ p[2] = index)
  BY <1>3 DEF Here
<1> QED
  BY <1>1, <1>4, <1>5 DEF Gone

\* An alert forgets its bucket and leaves the others as they are.  What it is made of had
\* entered no alert since its block was last cut.
LEMMA SentIsCorrect ==
    ASSUME PlaceOK, MonitorInv, Advances,
           NEW tx, NEW bkt \in Buckets, bkt = Bucket(tx), NEW kind, NEW a,
           NEW of, of \subseteq parts[bkt] \cup {Here},
           accumulator' = Cleared(bkt), Sent(tx, kind, a, of)
    PROVE  MapOK' /\ PastOK' /\ Accounted' /\ PartsOK' /\ AlertedOK'
<1> USE DEF MonitorInv
<1>0. chain' = chain
  BY DEF Advances
<1>1. /\ Here \in Positions /\ ~Gone(Here) /\ Here[1] = block /\ Here[2] = index
      /\ Positions' = Positions /\ AmountAt' = AmountAt
      /\ \A p \in Positions : Gone(p)' <=> (Gone(p) \/ (p = Here))
  BY <1>0, TransactionRead, SameChain, GoneGrows DEF Advances
<1>2. /\ DOMAIN accumulator' = DOMAIN accumulator \ {bkt}
      /\ \A b \in DOMAIN accumulator' : accumulator'[b] = accumulator[b]
  BY DEF Cleared
<1>3. MapOK'
  BY <1>2 DEF MapOK
<1>4. /\ since' \in [Buckets -> Int] /\ since'[bkt] = 0
      /\ spanned' \in [Buckets -> Nat] /\ spanned'[bkt] = 0
      /\ parts' \in [Buckets -> SUBSET Positions] /\ parts'[bkt] = {}
      /\ \A b \in Buckets \ {bkt} :
            since'[b] = since[b] /\ spanned'[b] = spanned[b] /\ parts'[b] = parts[b]
      /\ cuts' = cuts
  BY DEF PastOK, Sent
<1>5. /\ alerted' \in [Positions -> Nat]
      /\ \A p \in Positions : alerted'[p] = IF p \in of THEN alerted[p] + 1 ELSE alerted[p]
  <2>1. alerted' = [p \in Positions |-> IF p \in of THEN alerted[p] + 1 ELSE alerted[p]]
    BY DEF Sent
  <2>2. \A p \in Positions : alerted[p] \in Nat
    BY DEF PastOK
  <2> QED
    BY <2>1, <2>2
<1>6. PastOK'
  BY <1>0, <1>1, <1>4, <1>5 DEF PastOK
<1>7. /\ \A b \in Buckets \ {bkt} : Pending(b)' = Pending(b)
      /\ Pending(bkt)' = NewAccumulator
  BY <1>2 DEF Pending
<1>8. /\ NewAccumulator.amount = 0 /\ NewAccumulator.txs = 0
      /\ NewAccumulator.breakdown["BANDWIDTH"] = 0 /\ NewAccumulator.breakdown["ENERGY"] = 0
  BY DEF NewAccumulator, Resources
<1>9. /\ SumOver(AmountAt, {}) = 0 /\ Cardinality({}) = 0
      /\ Amounts(AmountAt, {})
  BY SumOfNone, FS_EmptySet DEF Amounts
<1>10. Accounted'
  <2>1. ASSUME NEW b \in Buckets \ {bkt}
        PROVE  /\ Pending(b)'.amount = SumOver(AmountAt', parts'[b])
               /\ Pending(b)'.txs = Cardinality(parts'[b])
               /\ (KindOf(b) = "stake") =>
                     (Pending(b)'.breakdown["BANDWIDTH"] + Pending(b)'.breakdown["ENERGY"]
                        = Pending(b)'.amount)
               /\ (KindOf(b) \in Configured) =>
                     /\ Pending(b)'.amount <= Threshold[KindOf(b)] - 1
                     /\ since'[b] <= spanned'[b] * (Threshold[KindOf(b)] - 1) + Pending(b)'.amount
    BY <1>1, <1>4, <1>7, <2>1 DEF Accounted
  <2>2. /\ Pending(bkt)'.amount = SumOver(AmountAt', parts'[bkt])
        /\ Pending(bkt)'.txs = Cardinality(parts'[bkt])
        /\ Pending(bkt)'.breakdown["BANDWIDTH"] + Pending(bkt)'.breakdown["ENERGY"]
             = Pending(bkt)'.amount
    BY <1>1, <1>4, <1>7, <1>8, <1>9
  <2>3. ASSUME KindOf(bkt) \in Configured
        PROVE  /\ Pending(bkt)'.amount <= Threshold[KindOf(bkt)] - 1
               /\ since'[bkt] <= spanned'[bkt] * (Threshold[KindOf(bkt)] - 1) + Pending(bkt)'.amount
    <3>1. Threshold[KindOf(bkt)] \in Nat \ {0}
      BY <2>3, ThresholdAssumption
    <3> QED
      BY <1>4, <1>7, <1>8, <3>1
  <2> QED
    BY <2>1, <2>2, <2>3 DEF Accounted, KindOf
<1>11. PartsOK'
  <2>1. ASSUME NEW b \in Buckets \ {bkt}, NEW p \in parts[b]
        PROVE  Gone(p)' /\ b = Bucket(chain[p[1]][p[2]]) /\ alerted'[p] <= cuts'[p[1]]
    <3>1. /\ p \in Positions /\ Gone(p) /\ b = Bucket(chain[p[1]][p[2]])
          /\ alerted[p] <= cuts[p[1]]
      BY DEF PartsOK, PastOK
    <3>2. p # Here
      BY <1>1, <3>1
    <3>3. p \notin parts[bkt]
      BY <2>1, <3>1 DEF PartsOK
    <3> QED
      BY <1>1, <1>4, <1>5, <3>1, <3>2, <3>3
  <2>2. \A b \in Buckets : Amounts(AmountAt', parts'[b])
    BY <1>1, <1>4, <1>9 DEF PartsOK
  <2>3. ASSUME NEW b \in Buckets, NEW p \in parts'[b]
        PROVE  /\ Gone(p)' /\ b = Bucket(chain'[p[1]][p[2]]) /\ alerted'[p] <= cuts'[p[1]]
    BY <1>0, <1>4, <2>1, <2>3
  <2> QED
    BY <2>2, <2>3 DEF PartsOK
<1>12. AlertedOK'
  <2> SUFFICES ASSUME NEW p \in Positions
               PROVE  /\ alerted'[p] <= 1 + cuts'[p[1]]
                      /\ ~Gone(p)' => (alerted'[p] <= cuts'[p[1]])
    BY <1>1 DEF AlertedOK
  <2>1. /\ alerted[p] <= 1 + cuts[p[1]] /\ (~Gone(p) => (alerted[p] <= cuts[p[1]]))
        /\ alerted[p] \in Nat
    BY DEF AlertedOK, PastOK
  <2>2. cuts[p[1]] \in Nat
    BY PlaceInBlock DEF PastOK
  <2>3. CASE p \notin of
    BY <1>1, <1>4, <1>5, <2>1, <2>3
  <2>4. CASE p \in of
    <3>1. Gone(p)' /\ (alerted[p] <= cuts[p[1]])
      BY <1>1, <2>1, <2>4 DEF PartsOK
    <3> QED
      BY <1>4, <1>5, <2>1, <2>2, <2>4, <3>1
  <2> QED
    BY <2>3, <2>4
<1> QED
  BY <1>3, <1>6, <1>10, <1>11, <1>12

\* A large transaction: the alert is of it alone.
LEMMA SingleIsCorrect ==
    ASSUME PlaceOK, MonitorInv, Advances,
           NEW tx, tx = chain[block][index], Detected(tx), Single(tx)
    PROVE  MonitorInv'
<1> DEFINE bkt == Bucket(tx)
<1>0. /\ tx \in Transactions /\ chain' = chain
      /\ Here \in Positions /\ AmountAt[Here] = tx.amount
  BY TransactionRead DEF Advances
<1>1. /\ bkt \in Buckets /\ KindOf(bkt) = Kind(tx)
      /\ Threshold[Kind(tx)] \in Nat /\ tx.amount \in Nat
  BY <1>0, DetectedBucket
<1>2. MapOK' /\ PastOK' /\ Accounted' /\ PartsOK' /\ AlertedOK'
  <2>1. accumulator' = Cleared(bkt) /\ Sent(tx, "single", Add(NewAccumulator, tx), {Here})
    BY DEF Single, AfterSingle
  <2> QED
    BY <1>1, <2>1, SentIsCorrect
<1>3. /\ NewAccumulator.amount = 0 /\ NewAccumulator.txs = 0
      /\ NewAccumulator.breakdown["BANDWIDTH"] = 0 /\ NewAccumulator.breakdown["ENERGY"] = 0
  BY DEF NewAccumulator, Resources
<1>4. /\ Add(NewAccumulator, tx).amount = tx.amount
      /\ Add(NewAccumulator, tx).txs = 1
      /\ (Kind(tx) = "stake") =>
            (Add(NewAccumulator, tx).breakdown["BANDWIDTH"]
               + Add(NewAccumulator, tx).breakdown["ENERGY"] = tx.amount)
  BY <1>0, <1>1, <1>3, AddedUp
<1>5. /\ alert'.kind = "single" /\ alert'.limit = Threshold[Kind(tx)]
      /\ alert'.sum = Add(NewAccumulator, tx) /\ alert'.bucket = bkt /\ alert'.of = {Here}
  BY DEF Single, Sent
<1>6. tx.amount >= Threshold[Kind(tx)]
  BY DEF Single, Reaches
<1>7. SumOver(AmountAt, {Here}) = tx.amount /\ Cardinality({Here}) = 1
  <2>1. Amounts(AmountAt, {}) /\ SumOver(AmountAt, {}) = 0
    BY SumOfNone, FS_EmptySet DEF Amounts
  <2>2. SumOver(AmountAt, {} \cup {Here}) = SumOver(AmountAt, {}) + AmountAt[Here]
    BY <1>0, <1>1, <2>1, SumWith
  <2>3. {} \cup {Here} = {Here}
    OBVIOUS
  <2>4. SumOver(AmountAt, {Here}) = 0 + AmountAt[Here]
    BY <2>1, <2>2, <2>3
  <2>5. Cardinality({Here}) = 1
    BY FS_Singleton
  <2> QED
    BY <1>0, <1>1, <2>4, <2>5
<1>8. AmountAt' = AmountAt
  BY <1>0, SameChain
<1> HIDE DEF bkt
<1>9. AlertOK'
  BY <1>1, <1>4, <1>5, <1>6, <1>7, <1>8 DEF AlertOK
<1> QED
  BY <1>2, <1>9 DEF MonitorInv

\* One transaction more, with what had accumulated.
LEMMA OneMore ==
    ASSUME PlaceOK, MonitorInv, Advances,
           NEW tx, tx = chain[block][index], Detected(tx)
    PROVE  LET bkt == Bucket(tx)
               sum == Add(Pending(bkt), tx)
               of  == parts[bkt] \cup {Here}
           IN  /\ bkt \in Buckets /\ KindOf(bkt) = Kind(tx) /\ Kind(tx) \in Configured
               /\ Threshold[Kind(tx)] \in Nat /\ tx.amount \in Nat
               /\ Pending(bkt).amount \in Int
               /\ sum.amount = Pending(bkt).amount + tx.amount
               /\ sum.txs = Pending(bkt).txs + 1 /\ sum.txs \in Nat
               /\ sum.breakdown["BANDWIDTH"] \in Int /\ sum.breakdown["ENERGY"] \in Int
               /\ (Kind(tx) = "stake") =>
                     (sum.breakdown["BANDWIDTH"] + sum.breakdown["ENERGY"] = sum.amount)
               /\ Amounts(AmountAt, of) /\ of \subseteq Positions
               /\ sum.amount = SumOver(AmountAt, of) /\ sum.txs = Cardinality(of)
               /\ (Pending(bkt).amount # 0) => (sum.txs > 1)
<1> DEFINE bkt == Bucket(tx)
           sum == Add(Pending(bkt), tx)
           of  == parts[bkt] \cup {Here}
<1>1. /\ tx \in Transactions /\ Here \in Positions /\ ~Gone(Here) /\ AmountAt[Here] = tx.amount
  BY TransactionRead DEF Advances
<1>2. /\ bkt \in Buckets /\ KindOf(bkt) = Kind(tx) /\ Kind(tx) \in Configured
      /\ Threshold[Kind(tx)] \in Nat /\ tx.amount \in Nat
  BY <1>1, DetectedBucket
<1>3. /\ Pending(bkt).amount \in Int /\ Pending(bkt).txs \in Nat
      /\ Pending(bkt).breakdown["BANDWIDTH"] \in Int /\ Pending(bkt).breakdown["ENERGY"] \in Int
      /\ (Pending(bkt).amount # 0) => (Pending(bkt).txs >= 1)
  BY <1>2, PendingOK DEF MonitorInv
<1>4. /\ sum.amount = Pending(bkt).amount + tx.amount
      /\ sum.txs = Pending(bkt).txs + 1 /\ sum.txs \in Nat
      /\ sum.breakdown["BANDWIDTH"] \in Int /\ sum.breakdown["ENERGY"] \in Int
      /\ (Kind(tx) = "stake") =>
            (sum.breakdown["BANDWIDTH"] + sum.breakdown["ENERGY"]
               = Pending(bkt).breakdown["BANDWIDTH"] + Pending(bkt).breakdown["ENERGY"] + tx.amount)
  BY <1>1, <1>3, AddedUp
<1>5. /\ Pending(bkt).amount = SumOver(AmountAt, parts[bkt])
      /\ Pending(bkt).txs = Cardinality(parts[bkt])
      /\ (KindOf(bkt) = "stake") =>
            (Pending(bkt).breakdown["BANDWIDTH"] + Pending(bkt).breakdown["ENERGY"]
               = Pending(bkt).amount)
  BY <1>2 DEF MonitorInv, Accounted
<1>6. Amounts(AmountAt, parts[bkt]) /\ Here \notin parts[bkt] /\ parts[bkt] \subseteq Positions
  BY <1>1, <1>2 DEF MonitorInv, PartsOK, PastOK
<1>7. /\ Amounts(AmountAt, of)
      /\ SumOver(AmountAt, of) = SumOver(AmountAt, parts[bkt]) + tx.amount
  BY <1>1, <1>2, <1>6, SumWith
<1>8. Cardinality(of) = Cardinality(parts[bkt]) + 1
  BY <1>6, FS_AddElement DEF Amounts
<1> HIDE DEF bkt, sum
<1>9. /\ sum.amount = SumOver(AmountAt, of) /\ sum.txs = Cardinality(of)
      /\ (Pending(bkt).amount # 0) => (sum.txs > 1)
  BY <1>3, <1>4, <1>5, <1>7, <1>8
<1>10. (Kind(tx) = "stake") =>
           (sum.breakdown["BANDWIDTH"] + sum.breakdown["ENERGY"] = sum.amount)
  BY <1>2, <1>3, <1>4, <1>5
<1>11. of \subseteq Positions
  BY <1>1, <1>6
<1> QED
  BY <1>2, <1>3, <1>4, <1>7, <1>9, <1>10, <1>11 DEF bkt, sum

\* Several small ones: the alert is of all that had accumulated.
LEMMA CumulativeIsCorrect ==
    ASSUME PlaceOK, MonitorInv, Advances,
           NEW tx, tx = chain[block][index], Detected(tx), Cumulative(tx)
    PROVE  MonitorInv'
<1> DEFINE bkt == Bucket(tx)
           sum == Add(Pending(bkt), tx)
           of  == parts[bkt] \cup {Here}
<1>1. /\ bkt \in Buckets /\ KindOf(bkt) = Kind(tx)
      /\ Threshold[Kind(tx)] \in Nat /\ tx.amount \in Nat /\ Pending(bkt).amount \in Int
      /\ sum.amount = Pending(bkt).amount + tx.amount
      /\ sum.amount = SumOver(AmountAt, of) /\ sum.txs = Cardinality(of)
      /\ (Kind(tx) = "stake") =>
            (sum.breakdown["BANDWIDTH"] + sum.breakdown["ENERGY"] = sum.amount)
      /\ (Pending(bkt).amount # 0) => (sum.txs > 1)
  BY OneMore
<1>2. /\ accumulator' = Cleared(bkt) /\ Sent(tx, "cumulative", sum, of)
      /\ ~(tx.amount >= Threshold[Kind(tx)]) /\ sum.amount >= Threshold[Kind(tx)]
  BY DEF Cumulative, Reaches
<1>3. MapOK' /\ PastOK' /\ Accounted' /\ PartsOK' /\ AlertedOK'
  BY <1>1, <1>2, SentIsCorrect
<1>4. /\ alert'.kind = "cumulative" /\ alert'.limit = Threshold[Kind(tx)] /\ alert'.sum = sum
      /\ alert'.of = of /\ alert'.bucket = bkt
  BY <1>2 DEF Sent
<1>5. AmountAt' = AmountAt
  BY SameChain DEF Advances
<1> HIDE DEF bkt, sum, of
<1>6. sum.txs > 1
  BY <1>1, <1>2
<1>7. AlertOK'
  BY <1>1, <1>2, <1>4, <1>5, <1>6 DEF AlertOK
<1> QED
  BY <1>3, <1>7 DEF MonitorInv

\* Not enough yet: the transaction is added to its bucket.
LEMMA NotYetIsCorrect ==
    ASSUME PlaceOK, MonitorInv, Advances,
           NEW tx, tx = chain[block][index], Detected(tx), NotYet(tx)
    PROVE  MonitorInv'
<1> USE DEF MonitorInv
<1> DEFINE bkt == Bucket(tx)
           sum == Add(Pending(bkt), tx)
           of  == parts[bkt] \cup {Here}
<1>1. /\ bkt \in Buckets /\ KindOf(bkt) = Kind(tx)
      /\ Threshold[Kind(tx)] \in Nat /\ tx.amount \in Nat /\ Pending(bkt).amount \in Int
      /\ sum.amount = Pending(bkt).amount + tx.amount
      /\ sum.txs = Pending(bkt).txs + 1 /\ sum.txs \in Nat
      /\ sum.breakdown["BANDWIDTH"] \in Int /\ sum.breakdown["ENERGY"] \in Int
      /\ (Kind(tx) = "stake") =>
            (sum.breakdown["BANDWIDTH"] + sum.breakdown["ENERGY"] = sum.amount)
      /\ Amounts(AmountAt, of) /\ of \subseteq Positions
      /\ sum.amount = SumOver(AmountAt, of) /\ sum.txs = Cardinality(of)
  BY OneMore
<1>2. /\ accumulator' = With(bkt, sum) /\ since' = [since EXCEPT ![bkt] = since[bkt] + tx.amount]
      /\ parts' = [parts EXCEPT ![bkt] = of] /\ ~(sum.amount >= Threshold[Kind(tx)])
      /\ alert' = alert /\ spanned' = spanned /\ alerted' = alerted /\ cuts' = cuts
  BY DEF NotYet, Reaches
<1>3. /\ Here \in Positions /\ ~Gone(Here) /\ Here[1] = block /\ Here[2] = index
      /\ chain' = chain /\ Positions' = Positions /\ AmountAt' = AmountAt
      /\ \A p \in Positions : Gone(p)' <=> (Gone(p) \/ (p = Here))
  BY TransactionRead, SameChain, GoneGrows DEF Advances
<1>4. bkt = Bucket(chain[Here[1]][Here[2]])
  BY <1>3
<1>5. PastOK /\ Pending(bkt).txs \in Nat
  BY <1>1, PendingOK
<1> HIDE DEF bkt, sum, of
<1>6. /\ DOMAIN accumulator' = DOMAIN accumulator \cup {bkt} /\ accumulator'[bkt] = sum
      /\ \A b \in DOMAIN accumulator \ {bkt} : accumulator'[b] = accumulator[b]
  BY <1>2 DEF With
<1>7. sum.amount \in Int /\ sum.txs >= 1
  BY <1>1, <1>5
<1>8. MapOK'
  BY <1>1, <1>6, <1>7 DEF MapOK
<1>9. /\ since' \in [Buckets -> Int] /\ since'[bkt] = since[bkt] + tx.amount
      /\ parts' \in [Buckets -> SUBSET Positions] /\ parts'[bkt] = of
      /\ \A b \in Buckets \ {bkt} : since'[b] = since[b] /\ parts'[b] = parts[b]
  BY <1>1, <1>2 DEF PastOK
<1>10. PastOK'
  BY <1>2, <1>3, <1>9 DEF PastOK
<1>11. Pending(bkt)' = sum /\ \A b \in Buckets \ {bkt} : Pending(b)' = Pending(b)
  BY <1>6 DEF Pending
<1>12. Accounted'
  <2>1. ASSUME NEW b \in Buckets \ {bkt}
        PROVE  /\ Pending(b)'.amount = SumOver(AmountAt', parts'[b])
               /\ Pending(b)'.txs = Cardinality(parts'[b])
               /\ (KindOf(b) = "stake") =>
                     (Pending(b)'.breakdown["BANDWIDTH"] + Pending(b)'.breakdown["ENERGY"]
                        = Pending(b)'.amount)
               /\ (KindOf(b) \in Configured) =>
                     /\ Pending(b)'.amount <= Threshold[KindOf(b)] - 1
                     /\ since'[b] <= spanned'[b] * (Threshold[KindOf(b)] - 1) + Pending(b)'.amount
    <3>1. /\ Pending(b)' = Pending(b) /\ since'[b] = since[b] /\ parts'[b] = parts[b]
          /\ spanned'[b] = spanned[b] /\ AmountAt' = AmountAt
      BY <1>2, <1>3, <1>9, <1>11, <2>1
    <3> QED
      BY <2>1, <3>1 DEF Accounted
  <2>2. /\ Pending(bkt)'.amount = SumOver(AmountAt', parts'[bkt])
        /\ Pending(bkt)'.txs = Cardinality(parts'[bkt])
        /\ (KindOf(bkt) = "stake") =>
              (Pending(bkt)'.breakdown["BANDWIDTH"] + Pending(bkt)'.breakdown["ENERGY"]
                 = Pending(bkt)'.amount)
    BY <1>1, <1>3, <1>9, <1>11
  <2>3. ASSUME KindOf(bkt) \in Configured
        PROVE  /\ Pending(bkt)'.amount <= Threshold[KindOf(bkt)] - 1
               /\ since'[bkt] <= spanned'[bkt] * (Threshold[KindOf(bkt)] - 1) + Pending(bkt)'.amount
    <3>1. since[bkt] <= spanned[bkt] * (Threshold[KindOf(bkt)] - 1) + Pending(bkt).amount
      BY <1>1, <2>3 DEF Accounted
    <3>2. spanned[bkt] * (Threshold[KindOf(bkt)] - 1) \in Int /\ since[bkt] \in Int
      BY <1>1, <1>5 DEF PastOK
    <3>3. Threshold[KindOf(bkt)] \in Nat /\ ~(sum.amount >= Threshold[KindOf(bkt)])
      BY <1>1, <1>2
    <3>4. Pending(bkt)'.amount <= Threshold[KindOf(bkt)] - 1
      BY <1>7, <1>11, <3>3
    <3> DEFINE before == spanned[bkt] * (Threshold[KindOf(bkt)] - 1)
    <3>5. /\ since[bkt] <= before + Pending(bkt).amount /\ before \in Int
          /\ spanned'[bkt] * (Threshold[KindOf(bkt)] - 1) = before
      BY <1>2, <3>1, <3>2
    <3> HIDE DEF before
    <3>6. since'[bkt] <= before + sum.amount
      BY <1>1, <1>9, <3>2, <3>5
    <3> QED
      BY <1>11, <3>4, <3>5, <3>6
  <2> QED
    BY <2>1, <2>2, <2>3 DEF Accounted
<1>13. PartsOK'
  <2>1. \A b \in Buckets : Amounts(AmountAt', parts'[b])
    BY <1>1, <1>3, <1>9 DEF PartsOK
  <2>2. ASSUME NEW b \in Buckets, NEW p \in parts'[b]
        PROVE  Gone(p)' /\ b = Bucket(chain'[p[1]][p[2]]) /\ alerted'[p] <= cuts'[p[1]]
    <3>1. p \in Positions
      BY <1>9
    <3>2. CASE p \in parts[b]
      BY <1>2, <1>3, <3>1, <3>2 DEF PartsOK
    <3>3. CASE p \notin parts[b]
      <4>1. b = bkt /\ p = Here
        BY <1>9, <2>2, <3>3 DEF of
      <4>2. alerted[Here] <= cuts[Here[1]]
        BY <1>3 DEF AlertedOK
      <4> QED
        BY <1>2, <1>3, <1>4, <4>1, <4>2
    <3> QED
      BY <3>2, <3>3
  <2> QED
    BY <2>1, <2>2 DEF PartsOK
<1>14. AlertedOK'
  BY <1>2, <1>3 DEF AlertedOK
<1>15. AlertOK'
  BY <1>2, <1>3 DEF AlertOK
<1> QED
  BY <1>8, <1>10, <1>12, <1>13, <1>14, <1>15

\* No transaction reported: the monitor is right wherever the tracker has come to.
LEMMA UnchangedIsCorrect ==
    ASSUME MonitorInv, chain' = chain, UNCHANGED <<accumulator, alert, alertHistory>>,
           \A p \in Positions : Gone(p) => Gone(p)'
    PROVE  MonitorInv'
<1> USE DEF MonitorInv, alertHistory
<1>1. Positions' = Positions /\ AmountAt' = AmountAt
  BY SameChain
<1>2. \A b : Pending(b)' = Pending(b)
  BY DEF Pending
<1>3. MapOK' /\ PastOK' /\ AlertOK'
  BY <1>1 DEF MapOK, PastOK, AlertOK
<1>4. Accounted'
  BY <1>1, <1>2 DEF Accounted
<1>5. PartsOK'
  <2>1. \A b \in Buckets : Amounts(AmountAt', parts'[b])
    BY <1>1 DEF PartsOK
  <2>2. ASSUME NEW b \in Buckets, NEW p \in parts'[b]
        PROVE  Gone(p)' /\ b = Bucket(chain'[p[1]][p[2]]) /\ alerted'[p] <= cuts'[p[1]]
    BY <2>2 DEF PartsOK, PastOK
  <2> QED
    BY <2>1, <2>2 DEF PartsOK
<1>6. AlertedOK'
  BY <1>1 DEF AlertedOK
<1> QED
  BY <1>3, <1>4, <1>5, <1>6

LEMMA ReportIsCorrect ==
    ASSUME PlaceOK, MonitorInv, Advances, ReportIfLarge(chain[block][index])
    PROVE  MonitorInv'
<1> DEFINE tx == chain[block][index]
<1>1. CASE Detected(tx)
  BY <1>1, SingleIsCorrect, CumulativeIsCorrect, NotYetIsCorrect DEF ReportIfLarge
<1>2. CASE ~Detected(tx)
  <2>1. chain' = chain /\ \A p \in Positions : Gone(p) => Gone(p)'
    BY GoneGrows DEF Advances
  <2> QED
    BY <1>2, <2>1, UnchangedIsCorrect DEF ReportIfLarge
<1> QED
  BY <1>1, <1>2

-----------------------------------------------------------------------------
(* The invariant                                                           *)

\* Nothing is pending.
NonePending ==
    \A b \in Buckets :
        /\ Pending(b).amount = 0 /\ Pending(b).txs = 0
        /\ Pending(b).breakdown["BANDWIDTH"] = 0 /\ Pending(b).breakdown["ENERGY"] = 0

\* An empty map is nothing pending.
LEMMA NothingPending ==
    ASSUME accumulator = [b \in {} |-> NewAccumulator]
    PROVE  MapOK /\ NonePending
<1>1. DOMAIN accumulator = {}
  OBVIOUS
<1>2. MapOK
  BY <1>1 DEF MapOK
<1>3. \A b \in Buckets : Pending(b) = NewAccumulator
  BY <1>1 DEF Pending
<1>4. /\ NewAccumulator.amount = 0 /\ NewAccumulator.txs = 0
      /\ NewAccumulator.breakdown["BANDWIDTH"] = 0 /\ NewAccumulator.breakdown["ENERGY"] = 0
  BY DEF NewAccumulator, Resources
<1> QED
  BY <1>2, <1>3, <1>4 DEF NonePending

\* Nothing has been reported.
NoneParts ==
    \A b \in Buckets : SumOver(AmountAt, parts[b]) = 0 /\ Cardinality(parts[b]) = 0

\* What is made of nothing is right.
LEMMA NoParts ==
    ASSUME \A b \in Buckets : parts[b] = {}
    PROVE  PartsOK /\ NoneParts
<1>1. SumOver(AmountAt, {}) = 0 /\ Cardinality({}) = 0 /\ Amounts(AmountAt, {})
  BY SumOfNone, FS_EmptySet DEF Amounts
<1> QED
  BY <1>1 DEF PartsOK, NoneParts

LEMMA ActivityBegins == ActivityInit => ActivityInv
<1> SUFFICES ASSUME ActivityInit PROVE ActivityInv
  OBVIOUS
<1>1. PlaceOK
  <2>1. Len(chain) \in Nat
    BY ChainsAssumption DEF ActivityInit
  <2> QED
    BY <2>1 DEF ActivityInit, PlaceOK
<1>2. MapOK /\ NonePending
  BY NothingPending DEF ActivityInit
<1>3. PartsOK /\ NoneParts
  BY NoParts DEF ActivityInit
<1>4. PastOK
  BY DEF ActivityInit, PastOK
<1>5. Accounted
  <2>1. \A b \in Buckets : since[b] = 0 /\ spanned[b] = 0
    BY DEF ActivityInit
  <2>2. \A b \in Buckets : (KindOf(b) \in Configured) => (Threshold[KindOf(b)] \in Nat \ {0})
    BY ThresholdAssumption
  <2> QED
    BY <1>2, <1>3, <2>1, <2>2 DEF Accounted, NonePending, NoneParts
<1>6. AlertedOK
  <2>1. \A p \in Positions : alerted[p] = 0 /\ cuts[p[1]] = 0
    BY PlaceInBlock DEF ActivityInit
  <2> QED
    BY <2>1 DEF AlertedOK
<1>7. AlertOK
  BY DEF ActivityInit, AlertOK, NoAlert
<1> QED
  BY <1>1, <1>2, <1>3, <1>4, <1>5, <1>6, <1>7 DEF ActivityInv, MonitorInv

\* A restart: what had accumulated, less than the threshold, is forgotten, and the block that
\* the tracker was in is tracked again.
LEMMA RestartForgets ==
    ASSUME PlaceOK, MonitorInv, RestartActivity
    PROVE  MonitorInv'
<1> USE DEF MonitorInv
<1>0. (accumulator = [b \in {} |-> NewAccumulator])'
  BY DEF RestartActivity
<1>1. /\ chain' = chain /\ saved' = saved /\ block' = 0 /\ alert' = alert
      /\ since' = since /\ alerted' = alerted
      /\ spanned' = [b \in Buckets |-> spanned[b] + 1]
      /\ parts' = [b \in Buckets |-> {}]
      /\ cuts' = [i \in DOMAIN chain |-> IF i = block THEN cuts[i] + 1 ELSE cuts[i]]
  BY DEF RestartActivity
<1>2. Positions' = Positions /\ AmountAt' = AmountAt
  BY <1>1, SameChain
<1>3. (MapOK /\ NonePending)'
  BY <1>0, NothingPending, PTL
<1>4. (\A b \in Buckets : parts[b] = {})'
  BY <1>1
<1>5. (PartsOK /\ NoneParts)'
  BY <1>4, NoParts, PTL
<1>6. PastOK'
  <2>1. spanned' \in [Buckets -> Nat]
    BY <1>1 DEF PastOK
  <2>2. cuts' \in [DOMAIN chain -> Nat]
    BY <1>1 DEF PastOK
  <2>3. parts' \in [Buckets -> SUBSET Positions]
    BY <1>1
  <2> QED
    BY <1>1, <1>2, <2>1, <2>2, <2>3 DEF PastOK
<1>7. Accounted'
  <2>1. ASSUME NEW b \in Buckets, KindOf(b) \in Configured
        PROVE  /\ Pending(b)'.amount <= Threshold[KindOf(b)] - 1
               /\ since'[b] <= spanned'[b] * (Threshold[KindOf(b)] - 1) + Pending(b)'.amount
    <3>1. Threshold[KindOf(b)] \in Nat \ {0}
      BY <2>1, ThresholdAssumption
    <3> DEFINE m == Threshold[KindOf(b)] - 1
               n == spanned[b]
    <3>2. n \in Nat /\ m \in Nat /\ n * m \in Int /\ since[b] \in Int
      BY <3>1 DEF PastOK
    <3>3. spanned'[b] * m = n * m + m
      <4>1. spanned'[b] = n + 1
        BY <1>1
      <4> QED
        BY <3>2, <4>1, OnceMore
    <3>4. since[b] <= n * m + Pending(b).amount /\ Pending(b).amount <= m
      BY <2>1 DEF Accounted
    <3>5. Pending(b).amount \in Int
      BY PendingOK
    <3>6. since'[b] = since[b] /\ Pending(b)'.amount = 0
      BY <1>1, <1>3 DEF NonePending
    <3> HIDE DEF m, n
    <3>7. since[b] <= n * m + m
      <4> DEFINE q == n * m
      <4>1. q \in Int /\ since[b] <= q + Pending(b).amount
        BY <3>2, <3>4
      <4> HIDE DEF q
      <4>2. since[b] <= q + m
        BY <3>2, <3>4, <3>5, <4>1
      <4> QED
        BY <4>2 DEF q
    <3>8. Pending(b)'.amount <= m /\ since'[b] <= spanned'[b] * m + Pending(b)'.amount
      BY <3>2, <3>3, <3>6, <3>7
    <3> QED
      BY <3>8 DEF m
  <2> QED
    BY <1>3, <1>5, <2>1 DEF Accounted, NonePending, NoneParts
<1>8. AlertedOK'
  <2> SUFFICES ASSUME NEW p \in Positions
               PROVE  /\ alerted'[p] <= 1 + cuts'[p[1]]
                      /\ ~Gone(p)' => (alerted'[p] <= cuts'[p[1]])
    BY <1>2 DEF AlertedOK
  <2>1. /\ alerted[p] <= 1 + cuts[p[1]] /\ (~Gone(p) => (alerted[p] <= cuts[p[1]]))
        /\ alerted[p] \in Nat /\ p[1] \in DOMAIN chain /\ cuts[p[1]] \in Nat
    BY PlaceInBlock DEF AlertedOK, PastOK
  <2>2. cuts'[p[1]] = IF p[1] = block THEN cuts[p[1]] + 1 ELSE cuts[p[1]]
    BY <1>1, <2>1
  <2>3. (~Gone(p)' /\ p[1] # block) => ~Gone(p)
    BY <1>1 DEF Gone
  <2> QED
    BY <1>1, <2>1, <2>2, <2>3
<1>9. AlertOK'
  BY <1>1, <1>2 DEF AlertOK
<1> QED
  BY <1>3, <1>5, <1>6, <1>7, <1>8, <1>9

LEMMA ActivityGoesOn == ActivityInv /\ [ActivityNext]_activityVars => ActivityInv'
<1> SUFFICES ASSUME ActivityInv, [ActivityNext]_activityVars PROVE ActivityInv'
  OBVIOUS
<1> USE DEF ActivityInv
<1>2. chain \in Seq(Seq(Transactions)) /\ Len(chain) \in Nat /\ DOMAIN chain \subseteq Nat \ {0}
  BY ChainsAssumption DEF PlaceOK
<1>3. CASE BeginBlock
  <2>1. PlaceOK'
    BY <1>2, <1>3 DEF PlaceOK, BeginBlock
  <2>2. \A p \in Positions : Gone(p) => Gone(p)'
    BY <1>2, <1>3, PlaceInBlock DEF BeginBlock, Gone
  <2>3. MonitorInv'
    BY <1>3, <2>2, UnchangedIsCorrect DEF BeginBlock
  <2> QED
    BY <2>1, <2>3
<1>4. CASE TrackTransaction
  <2>1. PlaceOK'
    BY <1>4 DEF PlaceOK, TrackTransaction
  <2>2. Advances
    BY <1>4 DEF TrackTransaction, Advances
  <2>3. \A p \in Positions : Gone(p) => Gone(p)'
    BY <2>2, GoneGrows
  <2>4. MonitorInv'
    BY <1>4, <2>2, <2>3, ReportIsCorrect, UnchangedIsCorrect DEF TrackTransaction
  <2> QED
    BY <2>1, <2>4
<1>5. CASE SaveBlock
  <2>1. PlaceOK'
    BY <1>2, <1>5 DEF PlaceOK, SaveBlock
  <2>2. \A p \in Positions : Gone(p) => Gone(p)'
    <3> SUFFICES ASSUME NEW p \in Positions, Gone(p) PROVE Gone(p)'
      OBVIOUS
    <3>1. p[1] \in Nat
      BY <1>2, PlaceInBlock
    <3> QED
      BY <1>5, <3>1 DEF SaveBlock, Gone, PlaceOK
  <2>3. MonitorInv'
    BY <1>5, <2>2, UnchangedIsCorrect DEF SaveBlock
  <2> QED
    BY <2>1, <2>3
<1>6. CASE RestartActivity
  <2>1. PlaceOK'
    BY <1>2, <1>6 DEF PlaceOK, RestartActivity
  <2> QED
    BY <1>6, <2>1, RestartForgets
<1>7. CASE UNCHANGED activityVars
  <2>1. PlaceOK'
    BY <1>7 DEF PlaceOK, activityVars
  <2>2. \A p \in Positions : Gone(p) => Gone(p)'
    BY <1>7 DEF activityVars, Gone
  <2>3. MonitorInv'
    BY <1>7, <2>2, UnchangedIsCorrect DEF activityVars
  <2> QED
    BY <2>1, <2>3
<1> QED
  BY <1>3, <1>4, <1>5, <1>6, <1>7 DEF ActivityNext

\* ActivityInv is an invariant of the monitor with the tracker that feeds it.
THEOREM MonitorInvariant == ActivitySpec => []ActivityInv
BY ActivityBegins, ActivityGoesOn, PTL DEF ActivitySpec

\* Whatever the chain and the thresholds, and whenever the process is restarted: of what was
\* reported of an actor since his last alert, by all processes since then, each of them has let
\* pass less than the threshold.
THEOREM NobodyPassesUnnoticed == ActivitySpec => []NoMissedAlarm
<1>1. ActivityInv => NoMissedAlarm
  <2> SUFFICES ASSUME ActivityInv, NEW b \in Buckets, KindOf(b) \in Configured
               PROVE  since[b] <= (spanned[b] + 1) * (Threshold[KindOf(b)] - 1)
    BY DEF NoMissedAlarm
  <2> DEFINE m == Threshold[KindOf(b)] - 1
             n == spanned[b]
             q == n * m
  <2>1. n \in Nat /\ m \in Int /\ q \in Int /\ since[b] \in Int
    BY ThresholdAssumption DEF ActivityInv, MonitorInv, PastOK
  <2>2. Pending(b).amount \in Int
    BY PendingOK DEF ActivityInv, MonitorInv
  <2>3. since[b] <= q + Pending(b).amount /\ Pending(b).amount <= m
    BY DEF ActivityInv, MonitorInv, Accounted
  <2>4. (n + 1) * m = q + m
    BY <2>1, OnceMore
  <2> HIDE DEF m, n, q
  <2>5. since[b] <= q + m
    BY <2>1, <2>2, <2>3
  <2> QED
    BY <2>4, <2>5 DEF m, n
<1> QED
  BY <1>1, MonitorInvariant, PTL

\* Every alert reports at least its threshold, the sum of distinct transactions and their number,
\* stakes by resource add up, and a transaction enters one alert and one more for each restart
\* that cut its block.
THEOREM AlertsAreEarned == ActivitySpec => []AlertsEarned
<1>1. ActivityInv => AlertsEarned
  BY DEF ActivityInv, MonitorInv, AlertOK, AlertedOK, AlertsEarned
<1> QED
  BY <1>1, MonitorInvariant, PTL

-----------------------------------------------------------------------------
(* The daily rows of markets.  What is said of the table is said of any      *)
(* sequence of rows, so that it can be carried from one to a longer one.     *)

IsDaily(r) == r.slot = DailySlot
IsSample(r, p) == r.pair = p /\ r.percent > 0

SampledIn(R, day, p) == {i \in DOMAIN R : InDay(R[i], day) /\ IsSample(R[i], p)}
AverageIn(R, day, p) ==
    SumOver([i \in SampledIn(R, day, p) |-> R[i]["depth"]], SampledIn(R, day, p))
        \div Cardinality(SampledIn(R, day, p))
PunctualIn(R, day) == \A i \in DOMAIN R : InDay(R[i], day) => ~R[i].late

\* A daily row is no sample and is of a day that is over.
DailyShape(R, days) ==
    \A i \in DOMAIN R : IsDaily(R[i]) =>
        /\ ~(R[i].percent > 0)
        /\ \E day \in 0..(days - 1) : InDay(R[i], day)

\* There is one of a day and a pair.
DailyOnce(R) ==
    \A i \in DOMAIN R : \A j \in DOMAIN R :
        /\ IsDaily(R[i]) /\ IsDaily(R[j])
        /\ R[i].month = R[j].month /\ R[i].dd = R[j].dd /\ R[i].pair = R[j].pair
        => i = j

\* It is the average of all samples.
DailyExact(R) ==
    \A i \in DOMAIN R : \A day \in Nat :
        IsDaily(R[i]) /\ InDay(R[i], day) /\ PunctualIn(R, day)
        => R[i].depth = AverageIn(R, day, R[i].pair)

TableOK(R, days) == DailyShape(R, days) /\ DailyOnce(R) /\ DailyExact(R)

\* The row that is still to be written for a day is as it will be in the table, and is not
\* there yet.
Awaited(R, day, r) ==
    /\ IsDaily(r) /\ ~(r.percent > 0) /\ ~r.late /\ InDay(r, day)
    /\ \A i \in DOMAIN R : ~(IsDaily(R[i]) /\ InDay(R[i], day) /\ R[i].pair = r.pair)
    /\ PunctualIn(R, day) => r.depth = AverageIn(R, day, r.pair)

LeftOK(R, day, left, days) ==
    /\ left # {} => day \in 0..(days - 1)
    /\ \A r \in left : Awaited(R, day, r)
    /\ \A r \in left : \A s \in left : r.pair = s.pair => r = s

\* What the loop is given to do is of days that are over, and what was polled is of a day
\* that has come.
LoopOK ==
    /\ tracked \in 0..today
    /\ statsCh = <<>> \/ \E day \in 0..(today - 1) : statsCh = <<day>>
    /\ history \subseteq 0..(today - 1)

FetchedOK(f, days) ==
    \A i \in DOMAIN f : /\ f[i].slot \in Slots
                        /\ \E day \in 0..days : f[i].day = day /\ f[i].dd = DayOfMonth(day)

MarketInv ==
    /\ today \in Nat /\ slot \in Slots
    /\ pairRows \in Seq(Range(pairRows)) /\ fetched \in Seq(Range(fetched))
    /\ LoopOK /\ FetchedOK(fetched, today)
    /\ TableOK(pairRows, today) /\ LeftOK(pairRows, depthDay, depthLeft, today)

\* The table R has grown to S.
Grown(R, S) ==
    /\ R \in Seq(Range(R)) /\ S \in Seq(Range(S)) /\ Len(R) <= Len(S)
    /\ \A i \in DOMAIN R : S[i] = R[i]
New(R, S) == DOMAIN S \ DOMAIN R

\* What is new in S is of no use to the average of a day, or too late for it.
KeepsDay(R, S, day) ==
    \A i \in New(R, S) : InDay(S[i], day) => S[i].late \/ ~(S[i].percent > 0)

-----------------------------------------------------------------------------
(* Lemmas                                                                  *)

\* A month and a day of the month are of one day.
LEMMA DayIsKnown ==
    ASSUME NEW r, NEW d \in Nat, NEW e \in Nat, InDay(r, d), InDay(r, e)
    PROVE  d = e
<1>1. d \div DaysInMonth = e \div DaysInMonth /\ d % DaysInMonth = e % DaysInMonth
  BY DEF InDay, Month, DayOfMonth
<1>2. DaysInMonth \in Nat /\ DaysInMonth > 0
  BY MarketAssumption
<1> DEFINE q == d \div DaysInMonth
           k == e \div DaysInMonth
<1>3. d = DaysInMonth * q + (d % DaysInMonth) /\ e = DaysInMonth * k + (e % DaysInMonth)
  BY <1>2
<1>4. q = k
  BY <1>1
<1> HIDE DEF q, k
<1> QED
  BY <1>1, <1>3, <1>4

\* Averages of days that what is new has nothing for stay what they are.
LEMMA AverageStays ==
    ASSUME NEW R, NEW S, Grown(R, S), NEW day, KeepsDay(R, S, day), PunctualIn(S, day)
    PROVE  /\ PunctualIn(R, day)
           /\ \A p : AverageIn(S, day, p) = AverageIn(R, day, p)
<1>1. DOMAIN R \subseteq DOMAIN S /\ \A i \in DOMAIN R : S[i] = R[i]
  BY DEF Grown
<1>2. PunctualIn(R, day)
  BY <1>1 DEF PunctualIn
<1>3. ASSUME NEW p
      PROVE  AverageIn(S, day, p) = AverageIn(R, day, p)
  <2>1. ASSUME NEW i \in DOMAIN S, InDay(S[i], day), S[i].percent > 0
        PROVE  i \in DOMAIN R
    BY <2>1 DEF KeepsDay, PunctualIn, New
  <2>2. SampledIn(S, day, p) = SampledIn(R, day, p)
    BY <1>1, <2>1 DEF SampledIn, IsSample
  <2> DEFINE T == SampledIn(R, day, p)
  <2>3. \A i \in T : S[i] = R[i]
    BY <1>1 DEF SampledIn
  <2> HIDE DEF T
  <2>4. [i \in T |-> S[i]["depth"]] = [i \in T |-> R[i]["depth"]]
    BY <2>3
  <2>5. SampledIn(S, day, p) = T /\ SampledIn(R, day, p) = T
    BY <2>2 DEF T
  <2> QED
    BY <2>4, <2>5 DEF AverageIn
<1> QED
  BY <1>2, <1>3

\* Rows of polls leave what is known of the daily rows as it is.
LEMMA PollsKeepTable ==
    ASSUME NEW R, NEW S, NEW days \in Nat, Grown(R, S), TableOK(R, days),
           \A i \in New(R, S) : ~IsDaily(S[i]),
           \A day \in 0..(days - 1) : KeepsDay(R, S, day)
    PROVE  TableOK(S, days)
<1>1. DOMAIN R \subseteq DOMAIN S /\ \A i \in DOMAIN R : S[i] = R[i]
  BY DEF Grown
<1>2. \A i \in DOMAIN S : IsDaily(S[i]) => i \in DOMAIN R
  BY DEF New
<1>3. DailyShape(S, days)
  BY <1>1, <1>2 DEF TableOK, DailyShape
<1>4. DailyOnce(S)
  BY <1>1, <1>2 DEF TableOK, DailyOnce
<1>5. DailyExact(S)
  <2> SUFFICES ASSUME NEW i \in DOMAIN S, NEW day \in Nat,
                      IsDaily(S[i]), InDay(S[i], day), PunctualIn(S, day)
               PROVE  S[i].depth = AverageIn(S, day, S[i].pair)
    BY DEF DailyExact
  <2>1. PICK d \in 0..(days - 1) : InDay(S[i], d)
    BY <1>3 DEF DailyShape
  <2>2. d = day
    BY <2>1, DayIsKnown
  <2>3. PunctualIn(R, day) /\ AverageIn(S, day, S[i].pair) = AverageIn(R, day, S[i].pair)
    BY <2>2, AverageStays
  <2>4. i \in DOMAIN R /\ S[i] = R[i]
    BY <1>1, <1>2
  <2> QED
    BY <2>3, <2>4 DEF TableOK, DailyExact
<1> QED
  BY <1>3, <1>4, <1>5 DEF TableOK

\* They leave what is still to be written as it is, too.
LEMMA PollsKeepLeft ==
    ASSUME NEW R, NEW S, NEW days \in Nat, Grown(R, S), NEW d, NEW left,
           LeftOK(R, d, left, days),
           \A i \in New(R, S) : ~IsDaily(S[i]),
           \A day \in 0..(days - 1) : KeepsDay(R, S, day)
    PROVE  LeftOK(S, d, left, days)
<1>1. DOMAIN R \subseteq DOMAIN S /\ \A i \in DOMAIN R : S[i] = R[i]
  BY DEF Grown
<1>2. \A i \in DOMAIN S : IsDaily(S[i]) => i \in DOMAIN R
  BY DEF New
<1>3. ASSUME NEW r \in left
      PROVE  Awaited(S, d, r)
  <2>1. Awaited(R, d, r) /\ d \in 0..(days - 1)
    BY DEF LeftOK
  <2>2. PunctualIn(S, d) => PunctualIn(R, d) /\ AverageIn(S, d, r.pair) = AverageIn(R, d, r.pair)
    BY <2>1, AverageStays
  <2>3. \A i \in DOMAIN S : ~(IsDaily(S[i]) /\ InDay(S[i], d) /\ S[i].pair = r.pair)
    BY <1>1, <1>2, <2>1 DEF Awaited
  <2> QED
    BY <2>1, <2>2, <2>3 DEF Awaited
<1> QED
  BY <1>3 DEF LeftOK

\* An awaited row is written.
LEMMA DailyRowKeepsTable ==
    ASSUME NEW R, R \in Seq(Range(R)), NEW days \in Nat, TableOK(R, days),
           NEW day, NEW left, LeftOK(R, day, left, days), NEW r \in left
    PROVE  /\ Append(R, r) \in Seq(Range(Append(R, r)))
           /\ TableOK(Append(R, r), days)
           /\ LeftOK(Append(R, r), day, left \ {r}, days)
<1> DEFINE S == Append(R, r)
           n == Len(R) + 1
<1>1. /\ DOMAIN S = DOMAIN R \cup {n} /\ n \notin DOMAIN R /\ S[n] = r
      /\ \A i \in DOMAIN R : S[i] = R[i]
  OBVIOUS
<1>2. S \in Seq(Range(S)) /\ Len(R) <= Len(S)
  BY LongerByOne
<1>3. Grown(R, S) /\ New(R, S) = {n}
  BY <1>1, <1>2 DEF Grown, New
<1> HIDE DEF S, n
<1>4. Awaited(R, day, r) /\ day \in 0..(days - 1)
  BY DEF LeftOK
<1>5. \A d : KeepsDay(R, S, d)
  BY <1>1, <1>3, <1>4 DEF KeepsDay, Awaited
<1>6. \A d : PunctualIn(S, d) =>
          PunctualIn(R, d) /\ \A p : AverageIn(S, d, p) = AverageIn(R, d, p)
  BY <1>3, <1>5, AverageStays
<1>7. DailyShape(S, days)
  BY <1>1, <1>4 DEF TableOK, DailyShape, Awaited
<1>8. DailyOnce(S)
  <2>1. ASSUME NEW i \in DOMAIN R, IsDaily(R[i]),
               R[i].month = r.month, R[i].dd = r.dd, R[i].pair = r.pair
        PROVE  FALSE
    BY <1>4, <2>1 DEF Awaited, InDay
  <2> QED
    BY <1>1, <2>1 DEF TableOK, DailyOnce
<1>9. DailyExact(S)
  <2> SUFFICES ASSUME NEW i \in DOMAIN S, NEW d \in Nat,
                      IsDaily(S[i]), InDay(S[i], d), PunctualIn(S, d)
               PROVE  S[i].depth = AverageIn(S, d, S[i].pair)
    BY DEF DailyExact
  <2>1. CASE i \in DOMAIN R
    BY <1>1, <1>6, <2>1 DEF TableOK, DailyExact
  <2>2. CASE i = n
    <3>1. d = day
      BY <1>1, <1>4, <2>2, DayIsKnown DEF Awaited
    <3> QED
      BY <1>1, <1>4, <1>6, <2>2, <3>1 DEF Awaited
  <2> QED
    BY <1>1, <2>1, <2>2
<1>10. LeftOK(S, day, left \ {r}, days)
  <2>1. ASSUME NEW s \in left \ {r}
        PROVE  Awaited(S, day, s)
    <3>1. Awaited(R, day, s) /\ s.pair # r.pair
      BY DEF LeftOK
    <3>2. PunctualIn(S, day) => s.depth = AverageIn(S, day, s.pair)
      BY <1>6, <3>1 DEF Awaited
    <3>3. \A i \in DOMAIN S : ~(IsDaily(S[i]) /\ InDay(S[i], day) /\ S[i].pair = s.pair)
      BY <1>1, <3>1 DEF Awaited
    <3> QED
      BY <3>1, <3>2, <3>3 DEF Awaited
  <2> QED
    BY <1>4, <2>1 DEF LeftOK
<1> QED
  BY <1>2, <1>7, <1>8, <1>9, <1>10 DEF TableOK, S

\* A set that is put in any order.
LEMMA SetInOrder ==
    ASSUME NEW S, IsFiniteSet(S)
    PROVE  SetToSeq(S) \in Seq(Range(SetToSeq(S))) /\ Range(SetToSeq(S)) \subseteq S
<1> DEFINE n == Cardinality(S)
           f == SetToSeq(S)
<1>1. n \in Nat
  BY FS_CardinalityType
<1>2. \E g \in [1..n -> S] : IsInjective(g)
  <2>1. ExistsBijection(1..n, S)
    BY FS_CardinalityType
  <2>2. PICK g \in [1..n -> S] : \A a, b \in 1..n : g[a] = g[b] => a = b
    <3> HIDE DEF n
    <3> QED
      BY <2>1 DEF ExistsBijection, Bijection, Injection, Surjection, IsInjective
  <2>3. DOMAIN g = 1..n
    OBVIOUS
  <2> QED
    BY <2>2, <2>3 DEF IsInjective
<1>3. f \in [1..n -> S]
  BY <1>2 DEF SetToSeq
<1> HIDE DEF n, f
<1>4. f \in Seq(Range(f)) /\ Range(f) \subseteq S
  BY <1>1, <1>3 DEF Range
<1> QED
  BY <1>4 DEF f

\* A later day leaves everything in order.
LEMMA LaterDay ==
    ASSUME NEW d \in Nat, NEW e \in Nat, d <= e
    PROVE  /\ 0..(d - 1) \subseteq 0..(e - 1) /\ 0..d \subseteq 0..e
           /\ \A R : TableOK(R, d) => TableOK(R, e)
           /\ \A R, day, left : LeftOK(R, day, left, d) => LeftOK(R, day, left, e)
           /\ \A f : FetchedOK(f, d) => FetchedOK(f, e)
<1>1. 0..(d - 1) \subseteq 0..(e - 1) /\ 0..d \subseteq 0..e
  OBVIOUS
<1>2. ASSUME NEW R, TableOK(R, d)
      PROVE  TableOK(R, e)
  BY <1>1, <1>2 DEF TableOK, DailyShape
<1>3. ASSUME NEW R, NEW day, NEW left, LeftOK(R, day, left, d)
      PROVE  LeftOK(R, day, left, e)
  BY <1>1, <1>3 DEF LeftOK
<1>4. ASSUME NEW f, FetchedOK(f, d)
      PROVE  FetchedOK(f, e)
  BY <1>1, <1>4 DEF FetchedOK
<1> QED
  BY <1>1, <1>2, <1>3, <1>4

\* The rows of a day that the loop takes are those it should write.
LEMMA TakenAreRight ==
    ASSUME NEW day \in 0..(today - 1), today \in Nat, pairRows \in Seq(Range(pairRows)), Take(day)
    PROVE  LeftOK(pairRows, depthDay', depthLeft', today)
<1>1. CASE DepthRows(day) = {}
  <2>1. depthLeft' = {}
    BY <1>1 DEF Take
  <2> QED
    BY <2>1 DEF LeftOK
<1>2. CASE DepthRows(day) # {}
  <2>1. depthDay' = day /\ depthLeft' = DepthRows(day)
    BY <1>2 DEF Take
  <2>2. ~HasDailyRow(day)
    BY <1>2 DEF DepthRows
  <2>3. \A p : Sampled(day, p) = SampledIn(pairRows, day, p)
    BY DEF Sampled, SampledIn, Indices, IsSample
  <2>4. \A p : DailyRow(day, p).depth = AverageIn(pairRows, day, p)
    BY <2>3 DEF DailyRow, RowSum, AverageIn
  <2>5. ASSUME NEW p
        PROVE  /\ IsDaily(DailyRow(day, p)) /\ ~(DailyRow(day, p).percent > 0)
               /\ ~DailyRow(day, p).late /\ InDay(DailyRow(day, p), day)
               /\ DailyRow(day, p).pair = p
    BY DEF DailyRow, IsDaily, InDay
  <2>6. \A p : Awaited(pairRows, day, DailyRow(day, p))
    <3>1. \A i \in DOMAIN pairRows : ~(IsDaily(pairRows[i]) /\ InDay(pairRows[i], day))
      BY <2>2 DEF HasDailyRow, IsDaily
    <3> QED
      BY <2>4, <2>5, <3>1 DEF Awaited
  <2>7. \A r \in DepthRows(day) : \E p : r = DailyRow(day, p)
    BY DEF DepthRows
  <2> QED
    BY <2>1, <2>5, <2>6, <2>7 DEF LeftOK
<1> QED
  BY <1>1, <1>2

\* At most one element.
LEMMA AtMostOne ==
    ASSUME NEW S, \A x \in S : \A y \in S : x = y
    PROVE  Cardinality(S) <= 1
<1>1. CASE S = {}
  BY <1>1, FS_EmptySet
<1>2. CASE S # {}
  <2>1. PICK x \in S : TRUE
    BY <1>2
  <2>2. S = {x}
    BY <2>1
  <2> QED
    BY <2>2, FS_Singleton
<1> QED
  BY <1>1, <1>2

-----------------------------------------------------------------------------
(* The invariant                                                           *)

LEMMA MarketInitIsCorrect == MarketInit => MarketInv
<1> SUFFICES ASSUME MarketInit PROVE MarketInv
  OBVIOUS
<1> USE DEF MarketInit
<1>1. 0 \in Slots
  BY MarketAssumption
<1>2. pairRows \in Seq(Range(pairRows)) /\ fetched \in Seq(Range(fetched))
  OBVIOUS
<1>3. LoopOK
  BY DEF LoopOK
<1>4. FetchedOK(fetched, today)
  BY DEF FetchedOK
<1>5. TableOK(pairRows, today)
  BY DEF TableOK, DailyShape, DailyOnce, DailyExact
<1>6. LeftOK(pairRows, depthDay, depthLeft, today)
  BY DEF LeftOK
<1> QED
  BY <1>1, <1>2, <1>3, <1>4, <1>5, <1>6 DEF MarketInv

\* Nothing that MarketInv speaks of changes but what was fetched.
FetchedOnly == UNCHANGED <<today, slot, pairRows, tracked, statsCh, depth>>

\* A poll's answer is about the day and the time of the poll.
LEMMA PollIsCorrect == MarketInv /\ Poll => MarketInv'
<1> SUFFICES ASSUME MarketInv, Poll PROVE MarketInv'
  OBVIOUS
<1>1. PICK o \in Observations :
          fetched' = SetToSeq({[day |-> today, dd |-> DayOfMonth(today), slot |-> slot, pair |-> p,
                                price |-> o[p].price, volume |-> o[p].volume,
                                depth |-> o[p].depth, percent |-> o[p].percent] :
                                  p \in DOMAIN o})
  BY DEF Poll
<1> DEFINE Quote(p) == [day |-> today, dd |-> DayOfMonth(today), slot |-> slot, pair |-> p,
                        price |-> o[p].price, volume |-> o[p].volume,
                        depth |-> o[p].depth, percent |-> o[p].percent]
           Quotes == {Quote(p) : p \in DOMAIN o}
           asked == [p \in DOMAIN o |-> Quote(p)]
<1>2. IsFiniteSet(DOMAIN o)
  BY MarketAssumption, FS_Subset
<1>3. asked \in Surjection(DOMAIN o, Quotes)
  BY DEF Surjection
<1>4. IsFiniteSet(Quotes)
  <2> HIDE DEF asked, Quotes
  <2> QED
    BY <1>2, <1>3, FS_Surjection
<1>5. fetched' = SetToSeq(Quotes)
  BY <1>1
<1>6. \A q \in Quotes : q.slot = slot /\ q.day = today /\ q.dd = DayOfMonth(today)
  OBVIOUS
<1> HIDE DEF Quotes, asked
<1>7. fetched' \in Seq(Range(fetched')) /\ Range(fetched') \subseteq Quotes
  BY <1>4, <1>5, SetInOrder
<1>8. \A i \in DOMAIN fetched' : fetched'[i] \in Quotes
  BY <1>7 DEF Range
<1>9. FetchedOK(fetched', today)
  BY <1>6, <1>8 DEF FetchedOK, MarketInv
<1>10. FetchedOnly
  BY DEF Poll, FetchedOnly
<1> QED
  BY <1>7, <1>9, <1>10 DEF MarketInv, FetchedOnly, LoopOK, depth

\* Rows are saved, perhaps in a later month than they are of.
LEMMA SaveIsCorrect == MarketInv /\ Save => MarketInv'
<1> SUFFICES ASSUME MarketInv, Save PROVE MarketInv'
  OBVIOUS
<1> DEFINE added == [i \in DOMAIN fetched |->
                        [month   |-> Month(today),       dd      |-> fetched[i].dd,
                         slot    |-> fetched[i].slot,    pair    |-> fetched[i].pair,
                         price   |-> fetched[i].price,   volume  |-> fetched[i].volume,
                         depth   |-> fetched[i].depth,   percent |-> fetched[i].percent,
                         late    |-> fetched[i].day < today]]
           S == pairRows \o added
<1>1. /\ today \in Nat /\ pairRows \in Seq(Range(pairRows)) /\ fetched \in Seq(Range(fetched))
      /\ FetchedOK(fetched, today) /\ TableOK(pairRows, today)
      /\ LeftOK(pairRows, depthDay, depthLeft, today)
  BY DEF MarketInv
<1>2. /\ pairRows' = S /\ fetched' = <<>>
      /\ UNCHANGED <<today, slot, tracked, statsCh, depthDay, depthLeft, history>>
  BY DEF Save, clock, depth
<1>3. \A i \in DOMAIN added : /\ added[i].month = Month(today) /\ added[i].dd = fetched[i].dd
                              /\ added[i].slot = fetched[i].slot
                              /\ added[i].late = (fetched[i].day < today)
  OBVIOUS
<1>4. added \in Seq(Range(added)) /\ DOMAIN added = DOMAIN fetched
  <2>1. Len(fetched) \in Nat /\ DOMAIN fetched = 1..Len(fetched)
    BY <1>1
  <2>2. DOMAIN added = 1..Len(fetched)
    BY <2>1
  <2>3. added = [i \in 1..Len(fetched) |-> added[i]]
    BY <2>1
  <2> HIDE DEF added
  <2>4. added \in [1..Len(fetched) -> Range(added)]
    BY <2>2, <2>3 DEF Range
  <2> QED
    BY <2>1, <2>2, <2>4
<1> HIDE DEF added
<1>5. /\ S \in Seq(Range(S)) /\ DOMAIN S = 1..(Len(pairRows) + Len(added))
      /\ \A i \in DOMAIN pairRows : S[i] = pairRows[i]
      /\ \A i \in DOMAIN added : S[Len(pairRows) + i] = added[i]
  BY <1>1, <1>4, LongerBySome
<1>6. Grown(pairRows, S)
  BY <1>1, <1>4, <1>5 DEF Grown
<1> HIDE DEF S
<1>7. \A j \in New(pairRows, S) : \E i \in DOMAIN fetched : S[j] = added[i]
  <2> TAKE j \in New(pairRows, S)
  <2>1. j - Len(pairRows) \in DOMAIN added /\ Len(pairRows) + (j - Len(pairRows)) = j
    BY <1>1, <1>4, <1>5 DEF New
  <2> QED
    BY <1>4, <1>5, <2>1
<1>8. \A j \in New(pairRows, S) : ~IsDaily(S[j])
  BY <1>1, <1>3, <1>4, <1>7, SlotAssumption DEF FetchedOK, IsDaily
<1>9. ASSUME NEW day \in 0..(today - 1)
      PROVE  KeepsDay(pairRows, S, day)
  <2> SUFFICES ASSUME NEW j \in New(pairRows, S), InDay(S[j], day) PROVE S[j].late
    BY DEF KeepsDay
  <2>1. PICK i \in DOMAIN fetched : S[j] = added[i]
    BY <1>7
  <2>2. PICK d \in 0..today : fetched[i].day = d /\ fetched[i].dd = DayOfMonth(d)
    BY <1>1 DEF FetchedOK
  <2>3. CASE d = today
    <3>1. InDay(S[j], today)
      BY <1>3, <1>4, <2>1, <2>2, <2>3 DEF InDay
    <3> QED
      BY <1>1, <3>1, DayIsKnown
  <2>4. CASE d < today
    BY <1>3, <1>4, <2>1, <2>2, <2>4
  <2> QED
    BY <1>1, <2>3, <2>4
<1>10. TableOK(S, today)
  BY <1>1, <1>6, <1>8, <1>9, PollsKeepTable
<1>11. LeftOK(S, depthDay, depthLeft, today)
  BY <1>1, <1>6, <1>8, <1>9, PollsKeepLeft
<1>12. fetched' \in Seq(Range(fetched')) /\ FetchedOK(fetched', today)
  BY <1>2 DEF FetchedOK
<1> QED
  BY <1>2, <1>5, <1>10, <1>11, <1>12 DEF MarketInv, LoopOK

\* The loop takes a day, of either of its sources.
LEMMA TakeIsCorrect ==
    ASSUME MarketInv, NEW day \in 0..(today - 1), Take(day), LoopOK',
           UNCHANGED <<clock, fetched, pairRows, tracked>>
    PROVE  MarketInv'
<1>1. LeftOK(pairRows, depthDay', depthLeft', today)
  BY TakenAreRight DEF MarketInv
<1> QED
  BY <1>1 DEF MarketInv, clock

LEMMA CreateIsCorrect == MarketInv /\ CreateDailyRow => MarketInv'
<1> SUFFICES ASSUME MarketInv, CreateDailyRow PROVE MarketInv'
  OBVIOUS
<1>1. PICK r \in depthLeft : /\ pairRows' = Append(pairRows, r) \/ pairRows' = pairRows
                             /\ depthLeft' = depthLeft \ {r}
  BY DEF CreateDailyRow
<1>2. /\ today \in Nat /\ pairRows \in Seq(Range(pairRows)) /\ TableOK(pairRows, today)
      /\ LeftOK(pairRows, depthDay, depthLeft, today)
  BY DEF MarketInv
<1>3. /\ pairRows' \in Seq(Range(pairRows')) /\ TableOK(pairRows', today)
      /\ LeftOK(pairRows', depthDay, depthLeft', today)
  <2>1. CASE pairRows' = Append(pairRows, r)
    BY <1>1, <1>2, <2>1, DailyRowKeepsTable
  <2>2. CASE pairRows' = pairRows
    BY <1>1, <1>2, <2>2 DEF LeftOK
  <2> QED
    BY <1>1, <2>1, <2>2
<1>4. /\ depthDay' = IF depthLeft' = {} THEN -1 ELSE depthDay
      /\ UNCHANGED <<today, slot, fetched, tracked, statsCh, history>>
  BY DEF CreateDailyRow, clock
<1>5. LeftOK(pairRows', depthDay', depthLeft', today)
  BY <1>3, <1>4 DEF LeftOK
<1> QED
  BY <1>3, <1>4, <1>5 DEF MarketInv, LoopOK

LEMMA MarketStepIsCorrect == MarketInv /\ [MarketNext \/ RulesNext]_marketVars => MarketInv'
<1> SUFFICES ASSUME MarketInv, [MarketNext \/ RulesNext]_marketVars PROVE MarketInv'
  OBVIOUS
<1>1. CASE Poll
  BY <1>1, PollIsCorrect
<1>2. CASE Save
  BY <1>2, SaveIsCorrect
<1>3. CASE FetchedIsLost
  <2>1. fetched' \in Seq(Range(fetched')) /\ FetchedOK(fetched', today)
    BY <1>3 DEF FetchedIsLost, FetchedOK
  <2> QED
    BY <1>3, <2>1 DEF FetchedIsLost, MarketInv, LoopOK, clock, depth
<1>4. CASE Tick
  <2>1. /\ today' \in Nat /\ today <= today' /\ slot' \in Slots
        /\ UNCHANGED <<fetched, pairRows, tracked, statsCh, depthDay, depthLeft, history>>
    BY <1>4, MarketAssumption DEF Tick, MarketInv, depth
  <2>2. /\ TableOK(pairRows, today') /\ LeftOK(pairRows, depthDay, depthLeft, today')
        /\ FetchedOK(fetched, today')
    BY <2>1, LaterDay DEF MarketInv
  <2>3. LoopOK'
    <3>1. 0..(today - 1) \subseteq 0..(today' - 1) /\ 0..today \subseteq 0..today'
      <4>1. today \in Nat /\ today' \in Nat /\ today <= today'
        BY <2>1 DEF MarketInv
      <4> QED
        BY <4>1, LaterDay
    <3>2. tracked' \in 0..today' /\ history' \subseteq 0..(today' - 1)
      BY <2>1, <3>1 DEF MarketInv, LoopOK
    <3>3. statsCh' = <<>> \/ \E day \in 0..(today' - 1) : statsCh' = <<day>>
      BY <2>1, <3>1 DEF MarketInv, LoopOK
    <3> QED
      BY <3>2, <3>3 DEF LoopOK
  <2> QED
    BY <2>1, <2>2, <2>3 DEF MarketInv
<1>5. CASE DayTracked
  <2>1. LoopOK'
    <3>1. tracked \in 0..(today - 1) /\ tracked' = tracked + 1 /\ statsCh' = <<tracked>>
      BY <1>5 DEF DayTracked, MarketInv, LoopOK
    <3> QED
      BY <1>5, <3>1 DEF DayTracked, MarketInv, LoopOK, clock, depth
  <2> QED
    BY <1>5, <2>1 DEF DayTracked, MarketInv, clock, depth
<1>6. CASE TakeFinishedDay
  <2>1. PICK day \in 0..(today - 1) : statsCh = <<day>>
    BY <1>6 DEF TakeFinishedDay, MarketInv, LoopOK
  <2>2. Take(day)
    BY <1>6, <2>1 DEF TakeFinishedDay
  <2>3. LoopOK'
    BY <1>6 DEF TakeFinishedDay, MarketInv, LoopOK, clock
  <2> QED
    BY <1>6, <2>2, <2>3, TakeIsCorrect DEF TakeFinishedDay
<1>7. CASE TakeHistory
  <2>1. history \subseteq 0..(today - 1) /\ history # {}
    BY <1>7 DEF TakeHistory, MarketInv, LoopOK
  <2>2. history \subseteq Nat
    BY <2>1 DEF MarketInv
  <2>3. \E d \in history : \A e \in history : d <= e
    BY <2>1, <2>2, LeastElement
  <2>4. Min(history) \in history
    BY <2>3 DEF Min
  <2>5. Min(history) \in 0..(today - 1)
    BY <2>1, <2>4
  <2>6. LoopOK'
    BY <1>7 DEF TakeHistory, MarketInv, LoopOK, clock
  <2> QED
    BY <1>7, <2>5, <2>6, TakeIsCorrect DEF TakeHistory
<1>8. CASE CreateDailyRow
  BY <1>8, CreateIsCorrect
<1>9. CASE RestartMarket
  <2>1. history' \subseteq 0..(today - 1)
    BY <1>9, MarketAssumption DEF RestartMarket, Finished, MarketInv
  <2>2. LoopOK'
    BY <1>9, <2>1 DEF RestartMarket, MarketInv, LoopOK, clock
  <2>3. fetched' \in Seq(Range(fetched')) /\ FetchedOK(fetched', today)
    BY <1>9 DEF RestartMarket, FetchedOK
  <2>4. LeftOK(pairRows, depthDay', depthLeft', today)
    BY <1>9 DEF RestartMarket, LeftOK
  <2> QED
    BY <1>9, <2>2, <2>3, <2>4 DEF RestartMarket, MarketInv, clock
<1>10. CASE UNCHANGED <<clock, fetched, pairRows, tracked, statsCh, depth>>
  BY <1>10 DEF MarketInv, LoopOK, clock, depth
<1>11. ASSUME NEW p, NEW least, AddRule(p, least)
       PROVE  MarketInv'
  BY <1>10, <1>11 DEF AddRule
<1>12. ASSUME NEW id, NEW least, EditRule(id, least)
       PROVE  MarketInv'
  BY <1>10, <1>12 DEF EditRule
<1>13. CASE UNCHANGED marketVars
  BY <1>10, <1>13 DEF marketVars, clock, depth
<1> QED
  BY <1>1, <1>2, <1>3, <1>4, <1>5, <1>6, <1>7, <1>8, <1>9, <1>11, <1>12, <1>13
     DEF MarketNext, RulesNext

\* The invariant gives the property.
LEMMA MarketInvMeansFinal == MarketInv => DailyRowsFinal
<1> SUFFICES ASSUME MarketInv, NEW day \in 0..FinalDay, NEW p \in PairNames
             PROVE  /\ Cardinality(DailyRowsOf(day, p)) <= 1
                    /\ Punctual(day) =>
                          LET samples == Indices(LAMBDA r : /\ InDay(r, day) /\ (r.pair = p)
                                                            /\ (r.slot # DailySlot) /\ (r.percent > 0))
                          IN  \A i \in DailyRowsOf(day, p) :
                                 pairRows[i].depth = RowSum(samples, "depth") \div Cardinality(samples)
  BY DEF DailyRowsFinal
<1>1. DailyRowsOf(day, p) =
          {i \in DOMAIN pairRows : InDay(pairRows[i], day) /\ pairRows[i].pair = p /\ IsDaily(pairRows[i])}
  BY DEF DailyRowsOf, Indices, IsDaily
<1>2. \A i \in DailyRowsOf(day, p) : \A j \in DailyRowsOf(day, p) : i = j
  BY <1>1 DEF MarketInv, TableOK, DailyOnce, InDay
<1> DEFINE samples == {i \in DOMAIN pairRows : /\ InDay(pairRows[i], day) /\ (pairRows[i].pair = p)
                                               /\ (pairRows[i].slot # DailySlot) /\ (pairRows[i].percent > 0)}
<1>3. samples = SampledIn(pairRows, day, p)
  BY DEF MarketInv, TableOK, DailyShape, IsDaily, SampledIn, IsSample
<1>4. Indices(LAMBDA r : /\ InDay(r, day) /\ (r.pair = p)
                         /\ (r.slot # DailySlot) /\ (r.percent > 0)) = samples
  BY DEF Indices
<1> HIDE DEF samples
<1>5. RowSum(samples, "depth") \div Cardinality(samples) = AverageIn(pairRows, day, p)
  BY <1>3 DEF RowSum, AverageIn
<1>6. ASSUME Punctual(day), NEW i \in DailyRowsOf(day, p)
      PROVE  pairRows[i].depth = AverageIn(pairRows, day, p)
  <2>1. PunctualIn(pairRows, day) /\ day \in Nat
    BY <1>6, MarketAssumption DEF Punctual, PunctualIn
  <2> QED
    BY <1>1, <1>6, <2>1 DEF MarketInv, TableOK, DailyExact
<1> QED
  BY <1>2, <1>4, <1>5, <1>6, AtMostOne

\* Whatever is polled and whenever it is saved, however often the process is restarted and
\* whichever rows cannot be written: a pair has one daily row of a day at most, and it is
\* the average of all that was sampled in time.
THEOREM DailyRowsStayFinal == MarketSpec => []DailyRowsFinal
<1>1. MarketSpec => []MarketInv
  BY MarketInitIsCorrect, MarketStepIsCorrect, PTL DEF MarketSpec
<1> QED
  BY <1>1, MarketInvMeansFinal, PTL

-----------------------------------------------------------------------------
(* Averages                                                                *)

\* A sum of equal amounts.
LEMMA SumOfSame ==
    ASSUME NEW S, IsFiniteSet(S), NEW m \in Nat
    PROVE  /\ Amounts([x \in S |-> m], S)
           /\ SumOver([x \in S |-> m], S) = Cardinality(S) * m
<1> DEFINE c == [x \in S |-> m]
<1>1. \A x \in S : c[x] = m
  OBVIOUS
<1> HIDE DEF c
<1>2. Amounts(c, S)
  BY <1>1 DEF Amounts
<1> DEFINE P == {s \in SUBSET S : SumOver(c, s) = Cardinality(s) * m}
<1>3. {} \in P
  BY SumOfNone, FS_EmptySet
<1>4. ASSUME NEW s \in P, NEW x \in S, s \subseteq S, x \notin s
      PROVE  s \cup {x} \in P
  <2>1. Amounts(c, s)
    BY <1>2, <1>4, SumOfPart
  <2>2. SumOver(c, s \cup {x}) = SumOver(c, s) + m
    BY <1>1, <1>4, <2>1, SumWith
  <2>3. IsFiniteSet(s)
    BY <2>1 DEF Amounts
  <2>4. Cardinality(s) \in Nat /\ Cardinality(s \cup {x}) = Cardinality(s) + 1
    BY <1>4, <2>3, FS_CardinalityType, FS_AddElement
  <2>5. SumOver(c, s) = Cardinality(s) * m
    BY <1>4
  <2>6. (Cardinality(s) + 1) * m = Cardinality(s) * m + m
    BY <2>4
  <2> QED
    BY <1>4, <2>2, <2>4, <2>5, <2>6
<1> HIDE DEF P
<1>5. S \in P
  BY <1>3, <1>4, FiniteInduction
<1> QED
  BY <1>2, <1>5 DEF c, P

\* A sum of amounts that are no greater than m, and one of amounts that are no less.
LEMMA SumOfBounded ==
    ASSUME NEW f, NEW S, Amounts(f, S), NEW m \in Nat
    PROVE  /\ (\A x \in S : f[x] <= m) => SumOver(f, S) <= Cardinality(S) * m
           /\ (\A x \in S : m <= f[x]) => Cardinality(S) * m <= SumOver(f, S)
<1> DEFINE c == [x \in S |-> m]
<1>1. Amounts(c, S) /\ SumOver(c, S) = Cardinality(S) * m
  BY SumOfSame DEF Amounts
<1>2. \A x \in S : c[x] = m
  OBVIOUS
<1> HIDE DEF c
<1> QED
  BY <1>1, <1>2, SumOfLess

\* Of finitely many amounts one is the greatest and one the least.
LEMMA ExtremesExist ==
    ASSUME NEW f, NEW S, Amounts(f, S), S # {}
    PROVE  /\ \E x \in S : \A y \in S : f[y] <= f[x]
           /\ \E x \in S : \A y \in S : f[x] <= f[y]
<1>1. IsFiniteSet(S) /\ \A x \in S : f[x] \in Nat
  BY DEF Amounts
<1>2. \E x \in S : \A y \in S : f[y] <= f[x]
  <2> DEFINE P == {s \in SUBSET S : s # {} => \E x \in s : \A y \in s : f[y] <= f[x]}
  <2>1. {} \in P
    OBVIOUS
  <2>2. ASSUME NEW s \in P, NEW z \in S, s \subseteq S, z \notin s
        PROVE  s \cup {z} \in P
    <3>1. CASE s = {}
      BY <1>1, <3>1
    <3>2. CASE s # {}
      <4>1. PICK x \in s : \A y \in s : f[y] <= f[x]
        BY <3>2
      <4>2. CASE f[z] <= f[x]
        BY <2>2, <4>1, <4>2
      <4>3. CASE ~(f[z] <= f[x])
        <5>1. \A y \in s \cup {z} : f[y] <= f[z]
          BY <1>1, <2>2, <4>1, <4>3
        <5> QED
          BY <2>2, <5>1
      <4> QED
        BY <4>2, <4>3
    <3> QED
      BY <3>1, <3>2
  <2> HIDE DEF P
  <2>3. S \in P
    BY <1>1, <2>1, <2>2, FiniteInduction
  <2> QED
    BY <2>3 DEF P
<1>3. \E x \in S : \A y \in S : f[x] <= f[y]
  <2> DEFINE V == {f[x] : x \in S}
  <2>1. V \subseteq Nat /\ V # {}
    BY <1>1
  <2> HIDE DEF V
  <2>2. PICK v \in V : \A w \in V : v <= w
    BY <2>1, LeastElement
  <2> QED
    BY <2>2 DEF V
<1> QED
  BY <1>2, <1>3

\* An average is between two of the amounts.
LEMMA AverageBetween ==
    ASSUME NEW f, NEW S, Amounts(f, S), S # {}
    PROVE  LET average == SumOver(f, S) \div Cardinality(S)
           IN  average \in Nat /\ \E i \in S : \E j \in S : f[i] <= average /\ average <= f[j]
<1>1. IsFiniteSet(S) /\ \A x \in S : f[x] \in Nat
  BY DEF Amounts
<1> DEFINE n == Cardinality(S)
           sum == SumOver(f, S)
           q == sum \div n
<1>2. n \in Nat /\ n > 0
  BY <1>1, FS_CardinalityType, FS_EmptySet
<1>3. sum \in Nat
  BY SumType
<1>4. PICK j \in S : \A y \in S : f[y] <= f[j]
  BY ExtremesExist
<1>5. PICK i \in S : \A y \in S : f[i] <= f[y]
  BY ExtremesExist
<1>6. sum <= n * f[j] /\ n * f[i] <= sum
  BY <1>1, <1>4, <1>5, SumOfBounded
<1> HIDE DEF n, sum
<1>7. q \in Nat /\ n * q <= sum /\ sum < n * (q + 1)
  <2>1. q \in Int /\ sum = n * q + (sum % n) /\ sum % n \in 0..(n - 1)
    BY <1>2, <1>3
  <2> HIDE DEF q
  <2>2. n * (q + 1) = n * q + n
    BY <1>2, <2>1
  <2>3. n * q <= sum /\ sum < n * (q + 1)
    <3>1. n * q \in Int
      BY <1>2, <2>1
    <3> QED
      BY <1>2, <1>3, <2>1, <2>2, <3>1
  <2>4. q >= 0
    <3>1. SUFFICES ASSUME q + 1 <= 0 PROVE FALSE
      BY <2>1
    <3>2. n * (q + 1) <= 0
      BY <1>2, <2>1, <3>1
    <3> QED
      BY <1>2, <1>3, <2>1, <2>3, <3>2
  <2> QED
    BY <2>1, <2>3, <2>4
<1> HIDE DEF q
<1>8. q <= f[j]
  <2>1. SUFFICES ASSUME f[j] + 1 <= q PROVE FALSE
    BY <1>1, <1>7
  <2>2. n * (f[j] + 1) <= n * q
    BY <1>1, <1>2, <1>7, <2>1
  <2>3. n * (f[j] + 1) = n * f[j] + n
    BY <1>1, <1>2
  <2> QED
    BY <1>1, <1>2, <1>3, <1>6, <1>7, <2>2, <2>3
<1>9. f[i] <= q
  <2>1. SUFFICES ASSUME q + 1 <= f[i] PROVE FALSE
    BY <1>1, <1>7
  <2>2. n * (q + 1) <= n * f[i]
    BY <1>1, <1>2, <1>7, <2>1
  <2> QED
    BY <1>1, <1>2, <1>3, <1>6, <1>7, <2>2
<1> QED
  BY <1>7, <1>8, <1>9 DEF q, sum, n

-----------------------------------------------------------------------------
(* The figures of a window.  Each poll is saved once in time, so that a pair *)
(* has one row of it; and a daily row lies between two of its samples.       *)

Quoted(r) ==
    /\ r.pair \in PairNames /\ r.price \in Nat /\ r.volume \in Nat
    /\ r.depth \in Nat /\ r.percent \in Nat
InTime(r) == ~IsDaily(r) /\ ~r.late

\* The poll of a time has begun, when it is `time' of the last of `days'.
Reached(days, time, begun, d, s) ==
    /\ d \in 0..days /\ s \in Nat
    /\ (d = days) => (s <= time) /\ ((s = time) => begun)

SamePoll(r, s) == r.month = s.month /\ r.dd = s.dd /\ r.slot = s.slot /\ r.pair = s.pair

\* A poll has one row of a pair.
PollsOnce(R) ==
    \A i \in DOMAIN R : \A j \in DOMAIN R :
        InTime(R[i]) /\ InTime(R[j]) /\ SamePoll(R[i], R[j]) => i = j
PollsReached(R, days, time, begun) ==
    \A i \in DOMAIN R : InTime(R[i]) =>
        \E d \in Nat : InDay(R[i], d) /\ Reached(days, time, begun, d, R[i].slot)

\* What waits to be saved is of a poll that has begun and has no rows yet.
IsFresh(R, f) ==
    /\ Quoted(f) /\ f.dd = DayOfMonth(f.day) /\ f.slot # DailySlot
    /\ \A i \in DOMAIN R : ~(InTime(R[i]) /\ InDay(R[i], f.day) /\ R[i].slot = f.slot)
PairsDiffer(f) == \A i \in DOMAIN f : \A j \in DOMAIN f : f[i].pair = f[j].pair => i = j
Waiting(R, f, days, time, begun) ==
    /\ \A i \in DOMAIN f : IsFresh(R, f[i]) /\ Reached(days, time, begun, f[i].day, f[i].slot)
    /\ PairsDiffer(f)

IsSampleOf(s, r) ==
    s.month = r.month /\ s.dd = r.dd /\ s.pair = r.pair /\ s.percent > 0 /\ ~IsDaily(s)
Backed(R, r) ==
    /\ \E i \in DOMAIN R : IsSampleOf(R[i], r) /\ R[i].depth <= r.depth
    /\ \E i \in DOMAIN R : IsSampleOf(R[i], r) /\ r.depth <= R[i].depth
BackedRow(R, r) == Quoted(r) /\ (IsDaily(r) => Backed(R, r))

FiguresInv ==
    /\ \A i \in DOMAIN pairRows : BackedRow(pairRows, pairRows[i])
    /\ \A r \in depthLeft : BackedRow(pairRows, r)
    /\ PollsOnce(pairRows) /\ PollsReached(pairRows, today, slot, polled)
    /\ Waiting(pairRows, fetched, today, slot, polled)

\* Rows stay backed in a table that grows.
LEMMA GrownBacks ==
    ASSUME NEW R, NEW S, Grown(R, S), NEW r, BackedRow(R, r)
    PROVE  BackedRow(S, r)
<1>1. DOMAIN R \subseteq DOMAIN S /\ \A i \in DOMAIN R : S[i] = R[i]
  BY DEF Grown
<1> QED
  BY <1>1 DEF BackedRow, Backed

\* A set in any order has each element once.
LEMMA SetOrderedOnce ==
    ASSUME NEW S, IsFiniteSet(S)
    PROVE  \A i \in DOMAIN SetToSeq(S) : \A j \in DOMAIN SetToSeq(S) :
               SetToSeq(S)[i] = SetToSeq(S)[j] => i = j
<1> DEFINE n == Cardinality(S)
           f == SetToSeq(S)
<1>1. n \in Nat
  BY FS_CardinalityType
<1>2. \E g \in [1..n -> S] : IsInjective(g)
  <2>1. ExistsBijection(1..n, S)
    BY FS_CardinalityType
  <2>2. PICK g \in [1..n -> S] : \A a, b \in 1..n : g[a] = g[b] => a = b
    <3> HIDE DEF n
    <3> QED
      BY <2>1 DEF ExistsBijection, Bijection, Injection, Surjection, IsInjective
  <2>3. DOMAIN g = 1..n
    OBVIOUS
  <2> QED
    BY <2>2, <2>3 DEF IsInjective
<1>3. f \in [1..n -> S] /\ IsInjective(f)
  BY <1>2 DEF SetToSeq
<1> HIDE DEF n, f
<1>4. \A i \in DOMAIN f : \A j \in DOMAIN f : f[i] = f[j] => i = j
  BY <1>3 DEF IsInjective
<1> QED
  BY <1>4 DEF f

\* What the poll of the time gets is fresh.
LEMMA PollIsFresh == MarketInv /\ FiguresInv /\ Poll => FiguresInv'
<1> SUFFICES ASSUME MarketInv, FiguresInv, Poll PROVE FiguresInv'
  OBVIOUS
<1>1. PICK o \in Observations :
          fetched' = SetToSeq({[day |-> today, dd |-> DayOfMonth(today), slot |-> slot, pair |-> p,
                                price |-> o[p].price, volume |-> o[p].volume,
                                depth |-> o[p].depth, percent |-> o[p].percent] :
                                  p \in DOMAIN o})
  BY DEF Poll
<1> DEFINE Quote(p) == [day |-> today, dd |-> DayOfMonth(today), slot |-> slot, pair |-> p,
                        price |-> o[p].price, volume |-> o[p].volume,
                        depth |-> o[p].depth, percent |-> o[p].percent]
           Quotes == {Quote(p) : p \in DOMAIN o}
           asked == [p \in DOMAIN o |-> Quote(p)]
<1>2. IsFiniteSet(DOMAIN o) /\ DOMAIN o \subseteq PairNames
  BY MarketAssumption, FS_Subset
<1>3. asked \in Surjection(DOMAIN o, Quotes)
  BY DEF Surjection
<1>4. IsFiniteSet(Quotes)
  <2> HIDE DEF asked, Quotes
  <2> QED
    BY <1>2, <1>3, FS_Surjection
<1>5. fetched' = SetToSeq(Quotes)
  BY <1>1
<1>6. \A p \in DOMAIN o : /\ Quote(p).day = today /\ Quote(p).dd = DayOfMonth(today)
                          /\ Quote(p).slot = slot /\ Quote(p).pair = p
                          /\ Quoted(Quote(p))
  BY <1>2, QuoteAssumption DEF Quoted
<1>7. \A q, r \in Quotes : q.pair = r.pair => q = r
  OBVIOUS
<1>8. today \in Nat /\ slot \in Slots /\ slot \in Nat /\ slot # DailySlot
  BY QuoteAssumption, SlotAssumption DEF MarketInv
<1>9. /\ ~polled /\ polled' = TRUE
      /\ UNCHANGED <<today, slot, pairRows, depthLeft>>
  BY DEF Poll, depth
<1>10. PollsReached(pairRows, today, slot, TRUE)
  BY DEF FiguresInv, PollsReached, Reached
<1>11. Reached(today, slot, TRUE, today, slot)
  BY <1>8 DEF Reached
<1>12. \A i \in DOMAIN pairRows :
          ~(InTime(pairRows[i]) /\ InDay(pairRows[i], today) /\ pairRows[i].slot = slot)
  <2> SUFFICES ASSUME NEW i \in DOMAIN pairRows, InTime(pairRows[i]), InDay(pairRows[i], today),
                      pairRows[i].slot = slot
               PROVE  FALSE
    OBVIOUS
  <2>1. PICK d \in Nat : InDay(pairRows[i], d) /\ Reached(today, slot, polled, d, pairRows[i].slot)
    BY DEF FiguresInv, PollsReached
  <2>2. d = today
    BY <1>8, <2>1, DayIsKnown
  <2> QED
    BY <1>9, <2>1, <2>2 DEF Reached
<1>13. \A q \in Quotes : IsFresh(pairRows, q) /\ q.day = today /\ q.slot = slot
  <2> SUFFICES ASSUME NEW p \in DOMAIN o
               PROVE  IsFresh(pairRows, Quote(p)) /\ Quote(p).day = today /\ Quote(p).slot = slot
    OBVIOUS
  <2> HIDE DEF Quote
  <2> QED
    BY <1>6, <1>8, <1>12 DEF IsFresh
<1> HIDE DEF Quotes, asked
<1>14. /\ fetched' \in Seq(Range(fetched')) /\ Range(fetched') \subseteq Quotes
       /\ \A i \in DOMAIN fetched' : \A j \in DOMAIN fetched' : fetched'[i] = fetched'[j] => i = j
  BY <1>4, <1>5, SetInOrder, SetOrderedOnce
<1>15. \A i \in DOMAIN fetched' : fetched'[i] \in Quotes
  BY <1>14 DEF Range
<1>16. Waiting(pairRows, fetched', today, slot, TRUE)
  <2>1. PairsDiffer(fetched')
    BY <1>7, <1>14, <1>15 DEF PairsDiffer
  <2> QED
    BY <1>11, <1>13, <1>15, <2>1 DEF Waiting
<1> QED
  BY <1>9, <1>10, <1>16 DEF FiguresInv

\* Rows are saved after those that are there.
SavedRow(f) ==
    [month |-> Month(today), dd |-> f.dd, slot |-> f.slot, pair |-> f.pair, price |-> f.price,
     volume |-> f.volume, depth |-> f.depth, percent |-> f.percent, late |-> f.day < today]
LEMMA SavedRows ==
    ASSUME MarketInv, Save
    PROVE  /\ Grown(pairRows, pairRows') /\ fetched' = <<>>
           /\ \A j \in New(pairRows, pairRows') : /\ j - Len(pairRows) \in DOMAIN fetched
                                                  /\ pairRows'[j] = SavedRow(fetched[j - Len(pairRows)])
           /\ UNCHANGED <<today, slot, polled, depthLeft>>
<1> DEFINE added == [i \in DOMAIN fetched |-> SavedRow(fetched[i])]
<1>1. /\ pairRows' = pairRows \o added /\ fetched' = <<>> /\ UNCHANGED <<today, slot, polled, depthLeft>>
  BY DEF Save, SavedRow, clock, depth
<1>2. pairRows \in Seq(Range(pairRows)) /\ fetched \in Seq(Range(fetched))
  BY DEF MarketInv
<1>3. added \in Seq(Range(added)) /\ DOMAIN added = DOMAIN fetched
  <2>1. Len(fetched) \in Nat /\ DOMAIN fetched = 1..Len(fetched)
    BY <1>2
  <2>2. DOMAIN added = 1..Len(fetched) /\ added = [i \in 1..Len(fetched) |-> added[i]]
    BY <2>1
  <2> HIDE DEF added
  <2>3. added \in [1..Len(fetched) -> Range(added)]
    BY <2>2 DEF Range
  <2> QED
    BY <2>1, <2>2, <2>3
<1>4. \A i \in DOMAIN fetched : added[i] = SavedRow(fetched[i])
  OBVIOUS
<1> HIDE DEF added
<1>5. /\ pairRows' \in Seq(Range(pairRows')) /\ DOMAIN pairRows' = 1..(Len(pairRows) + Len(added))
      /\ \A i \in DOMAIN pairRows : pairRows'[i] = pairRows[i]
      /\ \A i \in DOMAIN added : pairRows'[Len(pairRows) + i] = added[i]
  BY <1>1, <1>2, <1>3, LongerBySome
<1>6. Grown(pairRows, pairRows')
  BY <1>2, <1>3, <1>5 DEF Grown
<1>7. ASSUME NEW j \in New(pairRows, pairRows')
      PROVE  /\ j - Len(pairRows) \in DOMAIN fetched
             /\ pairRows'[j] = SavedRow(fetched[j - Len(pairRows)])
  <2>1. j - Len(pairRows) \in DOMAIN added /\ Len(pairRows) + (j - Len(pairRows)) = j
    BY <1>2, <1>3, <1>5 DEF New
  <2> QED
    BY <1>3, <1>4, <1>5, <2>1
<1> QED
  BY <1>1, <1>6, <1>7

LEMMA SaveKeepsFigures == MarketInv /\ FiguresInv /\ Save => FiguresInv'
<1> SUFFICES ASSUME MarketInv, FiguresInv, Save PROVE FiguresInv'
  OBVIOUS
<1>1. /\ Grown(pairRows, pairRows') /\ fetched' = <<>>
      /\ \A j \in New(pairRows, pairRows') : /\ j - Len(pairRows) \in DOMAIN fetched
                                             /\ pairRows'[j] = SavedRow(fetched[j - Len(pairRows)])
      /\ UNCHANGED <<today, slot, polled, depthLeft>>
  BY SavedRows
<1>2. /\ DOMAIN pairRows \subseteq DOMAIN pairRows' /\ \A i \in DOMAIN pairRows : pairRows'[i] = pairRows[i]
      /\ \A i \in DOMAIN pairRows' : i \in DOMAIN pairRows \/ i \in New(pairRows, pairRows')
      /\ Len(pairRows) \in Nat /\ DOMAIN pairRows' \subseteq Nat
  BY <1>1 DEF Grown, New
<1>3. today \in Nat /\ slot \in Nat
  BY QuoteAssumption DEF MarketInv
<1>4. ASSUME NEW j \in New(pairRows, pairRows')
      PROVE  /\ Quoted(pairRows'[j]) /\ ~IsDaily(pairRows'[j])
             /\ pairRows'[j].slot = fetched[j - Len(pairRows)].slot
             /\ pairRows'[j].pair = fetched[j - Len(pairRows)].pair
             /\ InTime(pairRows'[j]) => /\ InDay(pairRows'[j], today)
                                        /\ fetched[j - Len(pairRows)].day = today
  <2> DEFINE f == fetched[j - Len(pairRows)]
  <2>1. /\ IsFresh(pairRows, f) /\ Reached(today, slot, polled, f.day, f.slot)
        /\ pairRows'[j] = SavedRow(f)
    BY <1>1 DEF FiguresInv, Waiting
  <2> HIDE DEF f
  <2>2. /\ Quoted(pairRows'[j]) /\ ~IsDaily(pairRows'[j]) /\ pairRows'[j].slot = f.slot
        /\ pairRows'[j].pair = f.pair
    BY <2>1 DEF IsFresh, SavedRow, Quoted, IsDaily
  <2>3. ASSUME InTime(pairRows'[j])
        PROVE  InDay(pairRows'[j], today) /\ f.day = today
    <3>1. pairRows'[j].late = (f.day < today)
      BY <2>1 DEF SavedRow
    <3>2. f.day \in 0..today
      BY <2>1 DEF Reached
    <3>3. ~(f.day < today)
      BY <2>3, <3>1 DEF InTime
    <3>4. f.day = today
      BY <1>3, <3>2, <3>3
    <3> QED
      BY <2>1, <3>4 DEF InDay, SavedRow, IsFresh
  <2> QED
    BY <2>2, <2>3 DEF f
<1>5. \A i \in DOMAIN pairRows' : BackedRow(pairRows', pairRows'[i])
  <2> TAKE i \in DOMAIN pairRows'
  <2>1. CASE i \in DOMAIN pairRows
    BY <1>1, <1>2, <2>1, GrownBacks DEF FiguresInv
  <2>2. CASE i \in New(pairRows, pairRows')
    BY <1>4, <2>2 DEF BackedRow
  <2> QED
    BY <1>2, <2>1, <2>2
<1>6. \A r \in depthLeft' : BackedRow(pairRows', r)
  BY <1>1, GrownBacks DEF FiguresInv
<1>7. PollsOnce(pairRows')
  <2>1. ASSUME NEW i \in DOMAIN pairRows, NEW j \in New(pairRows, pairRows'),
               InTime(pairRows[i]), InTime(pairRows'[j]), SamePoll(pairRows[i], pairRows'[j])
        PROVE  FALSE
    <3>1. InDay(pairRows[i], today) /\ pairRows[i].slot = fetched[j - Len(pairRows)].slot
          /\ fetched[j - Len(pairRows)].day = today
      BY <1>4, <2>1 DEF SamePoll, InDay
    <3>2. IsFresh(pairRows, fetched[j - Len(pairRows)])
      BY <1>1 DEF FiguresInv, Waiting
    <3> QED
      BY <2>1, <3>1, <3>2 DEF IsFresh
  <2>2. ASSUME NEW i \in New(pairRows, pairRows'), NEW j \in New(pairRows, pairRows'),
               SamePoll(pairRows'[i], pairRows'[j])
        PROVE  i = j
    <3>1. /\ i - Len(pairRows) \in DOMAIN fetched /\ j - Len(pairRows) \in DOMAIN fetched
          /\ fetched[i - Len(pairRows)].pair = fetched[j - Len(pairRows)].pair
      BY <1>1, <1>4, <2>2 DEF SamePoll
    <3>2. i - Len(pairRows) = j - Len(pairRows)
      BY <3>1 DEF FiguresInv, Waiting, PairsDiffer
    <3>3. i \in Nat /\ j \in Nat
      BY <1>2 DEF New
    <3> QED
      BY <1>2, <3>2, <3>3
  <2>3. \A r, s : SamePoll(r, s) <=> SamePoll(s, r)
    BY DEF SamePoll
  <2>4. PollsOnce(pairRows)
    BY DEF FiguresInv
  <2> QED
    BY <1>2, <2>1, <2>2, <2>3, <2>4 DEF PollsOnce
<1>8. PollsReached(pairRows', today, slot, polled)
  <2> SUFFICES ASSUME NEW i \in DOMAIN pairRows', InTime(pairRows'[i])
               PROVE  \E d \in Nat : /\ InDay(pairRows'[i], d)
                                     /\ Reached(today, slot, polled, d, pairRows'[i].slot)
    BY DEF PollsReached
  <2>1. CASE i \in DOMAIN pairRows
    BY <1>2, <2>1 DEF FiguresInv, PollsReached
  <2>2. CASE i \in New(pairRows, pairRows')
    <3>1. Reached(today, slot, polled, fetched[i - Len(pairRows)].day, fetched[i - Len(pairRows)].slot)
      BY <1>1, <2>2 DEF FiguresInv, Waiting
    <3> QED
      BY <1>3, <1>4, <2>2, <3>1
  <2> QED
    BY <1>2, <2>1, <2>2
<1>9. Waiting(pairRows', fetched', today, slot, polled)
  BY <1>1 DEF Waiting, PairsDiffer
<1> QED
  BY <1>1, <1>5, <1>6, <1>7, <1>8, <1>9 DEF FiguresInv

\* The clock goes on: what was reached stays so.
LEMMA TickKeepsFigures == MarketInv /\ FiguresInv /\ Tick => FiguresInv'
<1> SUFFICES ASSUME MarketInv, FiguresInv, Tick PROVE FiguresInv'
  OBVIOUS
<1>1. /\ today \in Nat /\ slot \in Nat /\ UNCHANGED <<pairRows, fetched, depthLeft>>
      /\ \/ slot' = slot + 1 /\ today' = today
         \/ today' = today + 1
      /\ slot' \in Nat /\ polled' = FALSE
  BY QuoteAssumption, MarketAssumption DEF MarketInv, Tick, depth
<1>2. ASSUME NEW d, NEW s, Reached(today, slot, polled, d, s)
      PROVE  Reached(today', slot', polled', d, s)
  BY <1>1, <1>2 DEF Reached
<1>3. PollsReached(pairRows, today', slot', polled')
  BY <1>2 DEF FiguresInv, PollsReached
<1>4. Waiting(pairRows, fetched, today', slot', polled')
  BY <1>2 DEF FiguresInv, Waiting
<1> QED
  BY <1>1, <1>3, <1>4 DEF FiguresInv

\* The rows of a day that the loop takes are between their samples.
LEMMA TakenAreBacked ==
    ASSUME MarketInv, FiguresInv, NEW day, Take(day), UNCHANGED <<clock, fetched, pairRows>>
    PROVE  FiguresInv'
<1>1. depthLeft' = DepthRows(day)
  BY DEF Take
<1>2. ASSUME NEW p \in PairNames, Sampled(day, p) # {}
      PROVE  BackedRow(pairRows, DailyRow(day, p))
  <2> DEFINE S == Sampled(day, p)
             f == [i \in S |-> pairRows[i]["depth"]]
             r == DailyRow(day, p)
  <2>1. S = {i \in DOMAIN pairRows : /\ InDay(pairRows[i], day) /\ pairRows[i].pair = p
                                    /\ pairRows[i].percent > 0}
    BY DEF Sampled, Indices
  <2>2. \A i \in S : i \in DOMAIN pairRows /\ f[i] = pairRows[i].depth /\ f[i] \in Nat
    BY <2>1 DEF FiguresInv, BackedRow, Quoted
  <2>3. IsFiniteSet(S)
    <3>1. IsFiniteSet(DOMAIN pairRows)
      BY FS_Interval DEF MarketInv
    <3> QED
      BY <2>1, <3>1, FS_Subset
  <2>4. r.depth = SumOver(f, S) \div Cardinality(S)
    BY DEF DailyRow, RowSum
  <2>5. /\ r.month = Month(day) /\ r.dd = DayOfMonth(day) /\ r.pair = p
        /\ r.price = 0 /\ r.volume = 0 /\ r.percent = 0
    BY DEF DailyRow
  <2> HIDE DEF f, r
  <2>6. \A i \in S : IsSampleOf(pairRows[i], r)
    <3> HIDE DEF S
    <3>1. \A i \in S : ~IsDaily(pairRows[i])
      BY <2>1 DEF MarketInv, TableOK, DailyShape
    <3> QED
      BY <2>1, <2>5, <3>1 DEF IsSampleOf, InDay
  <2>7. S # {}
    BY <1>2
  <2> HIDE DEF S
  <2>8. Amounts(f, S)
    BY <2>2, <2>3 DEF Amounts
  <2>9. r.depth \in Nat /\ \E i \in S : \E j \in S : f[i] <= r.depth /\ r.depth <= f[j]
    BY <2>4, <2>7, <2>8, AverageBetween
  <2>10. Backed(pairRows, r)
    BY <2>2, <2>6, <2>9 DEF Backed
  <2>11. Quoted(r)
    BY <2>5, <2>9 DEF Quoted
  <2> QED
    BY <2>10, <2>11 DEF BackedRow, r
<1>3. \A r \in DepthRows(day) : BackedRow(pairRows, r)
  BY <1>2 DEF DepthRows
<1> QED
  BY <1>1, <1>3 DEF FiguresInv, clock

\* A daily row is no poll's.
LEMMA CreateKeepsFigures == MarketInv /\ FiguresInv /\ CreateDailyRow => FiguresInv'
<1> SUFFICES ASSUME MarketInv, FiguresInv, CreateDailyRow PROVE FiguresInv'
  OBVIOUS
<1>1. PICK r \in depthLeft : /\ pairRows' = Append(pairRows, r) \/ pairRows' = pairRows
                             /\ depthLeft' = depthLeft \ {r}
  BY DEF CreateDailyRow
<1>2. UNCHANGED <<today, slot, polled, fetched>>
  BY DEF CreateDailyRow, clock
<1>3. CASE pairRows' = pairRows
  BY <1>1, <1>2, <1>3 DEF FiguresInv
<1>4. CASE pairRows' = Append(pairRows, r)
  <2> DEFINE n == Len(pairRows) + 1
             S == Append(pairRows, r)
  <2>1. pairRows \in Seq(Range(pairRows))
    BY DEF MarketInv
  <2>2. /\ DOMAIN S = DOMAIN pairRows \cup {n} /\ n \notin DOMAIN pairRows /\ S[n] = r
        /\ \A i \in DOMAIN pairRows : S[i] = pairRows[i]
    BY <2>1
  <2>3. S \in Seq(Range(S)) /\ Len(pairRows) <= Len(S)
    BY <2>1, LongerByOne
  <2> HIDE DEF S, n
  <2>4. Grown(pairRows, S)
    BY <2>1, <2>2, <2>3 DEF Grown
  <2>5. IsDaily(r) /\ ~InTime(r) /\ BackedRow(pairRows, r)
    BY DEF MarketInv, LeftOK, Awaited, InTime, FiguresInv
  <2>6. \A i \in DOMAIN S : BackedRow(S, S[i])
    BY <2>2, <2>4, <2>5, GrownBacks DEF FiguresInv
  <2>7. \A q \in depthLeft' : BackedRow(S, q)
    BY <1>1, <2>4, GrownBacks DEF FiguresInv
  <2>8. PollsOnce(S) /\ PollsReached(S, today, slot, polled)
    BY <2>2, <2>5 DEF FiguresInv, PollsOnce, PollsReached
  <2>9. Waiting(S, fetched, today, slot, polled)
    BY <2>2, <2>5 DEF FiguresInv, Waiting, IsFresh
  <2> QED
    BY <1>2, <1>4, <2>6, <2>7, <2>8, <2>9 DEF FiguresInv, S
<1> QED
  BY <1>1, <1>3, <1>4

LEMMA FiguresStepIsCorrect ==
    MarketInv /\ FiguresInv /\ [MarketNext \/ RulesNext]_marketVars => FiguresInv'
<1> SUFFICES ASSUME MarketInv, FiguresInv, [MarketNext \/ RulesNext]_marketVars PROVE FiguresInv'
  OBVIOUS
<1>1. CASE Poll
  BY <1>1, PollIsFresh
<1>2. CASE Save
  BY <1>2, SaveKeepsFigures
<1>3. CASE FetchedIsLost
  <2>1. fetched' = <<>> /\ UNCHANGED <<today, slot, polled, pairRows, depthLeft>>
    BY <1>3 DEF FetchedIsLost, clock, depth
  <2>2. Waiting(pairRows, fetched', today, slot, polled)
    BY <2>1 DEF Waiting, PairsDiffer
  <2> QED
    BY <2>1, <2>2 DEF FiguresInv
<1>4. CASE Tick
  BY <1>4, TickKeepsFigures
<1>5. CASE UNCHANGED <<clock, fetched, pairRows, depthLeft>>
  BY <1>5 DEF FiguresInv, clock
<1>6. CASE DayTracked
  BY <1>5, <1>6 DEF DayTracked, depth
<1>7. CASE TakeFinishedDay
  BY <1>7, TakenAreBacked DEF TakeFinishedDay
<1>8. CASE TakeHistory
  BY <1>8, TakenAreBacked DEF TakeHistory
<1>9. CASE CreateDailyRow
  BY <1>9, CreateKeepsFigures
<1>10. CASE RestartMarket
  <2>1. fetched' = <<>> /\ depthLeft' = {} /\ UNCHANGED <<today, slot, polled, pairRows>>
    BY <1>10 DEF RestartMarket, clock
  <2>2. Waiting(pairRows, fetched', today, slot, polled)
    BY <2>1 DEF Waiting, PairsDiffer
  <2> QED
    BY <2>1, <2>2 DEF FiguresInv
<1>11. ASSUME NEW p, NEW least, AddRule(p, least)
       PROVE  FiguresInv'
  BY <1>5, <1>11 DEF AddRule, depth
<1>12. ASSUME NEW id, NEW least, EditRule(id, least)
       PROVE  FiguresInv'
  BY <1>5, <1>12 DEF EditRule, depth
<1>13. CASE UNCHANGED marketVars
  BY <1>5, <1>13 DEF marketVars, clock, depth
<1> QED
  BY <1>1, <1>2, <1>3, <1>4, <1>6, <1>7, <1>8, <1>9, <1>10, <1>11, <1>12, <1>13
     DEF MarketNext, RulesNext

LEMMA FiguresHold == MarketSpec => [](MarketInv /\ FiguresInv)
<1>1. MarketInit => FiguresInv
  <2> SUFFICES ASSUME MarketInit PROVE FiguresInv
    OBVIOUS
  <2>1. pairRows = <<>> /\ fetched = <<>> /\ depthLeft = {}
    BY DEF MarketInit
  <2> QED
    BY <2>1 DEF FiguresInv, PollsOnce, PollsReached, Waiting, PairsDiffer
<1> QED
  BY <1>1, MarketInitIsCorrect, MarketStepIsCorrect, FiguresStepIsCorrect, PTL DEF MarketSpec

\* The rows that the figures of a window are taken of.
FullDays(first, n) == {d \in Window(first, n) : VolumeRows(d + 1) # {}}
Volumes(first, n) == UNION {VolumeRows(d + 1) : d \in FullDays(first, n)}
DailyOfFull(first, n) ==
    UNION {Indices(LAMBDA r : InDay(r, d) /\ (r.slot = DailySlot)) : d \in FullDays(first, n)}
OfPair(S, p) == {i \in S : pairRows[i].pair = p}
VolumesByPair(first, n) ==
    [p \in PairNames |-> RowSum(OfPair(Volumes(first, n), p), "volume")]
DepthsByPair(first, n) ==
    [p \in PairNames |-> RowSum(OfPair(DailyOfFull(first, n), p), "depth")]
DepthOf == [i \in DOMAIN pairRows |-> pairRows[i]["depth"]]
VolumeOf == [i \in DOMAIN pairRows |-> pairRows[i]["volume"]]

LEMMA MergedIs ==
    ASSUME NEW first, NEW n
    PROVE  /\ Merged(first, n).days = Cardinality(FullDays(first, n))
           /\ Merged(first, n).total = RowSum(Volumes(first, n), "volume")
           /\ Merged(first, n).volume = VolumesByPair(first, n)
           /\ Merged(first, n).depth = DepthsByPair(first, n)
BY DEF Merged, FullDays, Volumes, DailyOfFull, OfPair, VolumesByPair, DepthsByPair

\* Rows are finitely many, and their figures are natural numbers.
LEMMA FiguresOfRows ==
    ASSUME MarketInv, FiguresInv, NEW S, S \subseteq DOMAIN pairRows
    PROVE  /\ IsFiniteSet(S)
           /\ Amounts(DepthOf, S) /\ RowSum(S, "depth") = SumOver(DepthOf, S)
           /\ Amounts(VolumeOf, S) /\ RowSum(S, "volume") = SumOver(VolumeOf, S)
           /\ \A i \in S : DepthOf[i] = pairRows[i].depth /\ DepthOf[i] \in Nat
<1>1. \A i \in DOMAIN pairRows : Quoted(pairRows[i])
  BY DEF FiguresInv, BackedRow
<1>2. \A i \in S : /\ DepthOf[i] = pairRows[i].depth /\ DepthOf[i] \in Nat
                   /\ VolumeOf[i] = pairRows[i].volume /\ VolumeOf[i] \in Nat
  BY <1>1 DEF DepthOf, VolumeOf, Quoted
<1>3. IsFiniteSet(S)
  <2>1. IsFiniteSet(DOMAIN pairRows)
    BY FS_Interval DEF MarketInv
  <2> QED
    BY <2>1, FS_Subset
<1>4. Amounts(DepthOf, S) /\ Amounts(VolumeOf, S)
  BY <1>2, <1>3 DEF Amounts
<1> DEFINE f == [i \in S |-> pairRows[i]["depth"]]
           g == [i \in S |-> pairRows[i]["volume"]]
<1>5. \A i \in S : f[i] = DepthOf[i] /\ g[i] = VolumeOf[i]
  BY <1>2
<1>6. RowSum(S, "depth") = SumOver(f, S) /\ RowSum(S, "volume") = SumOver(g, S)
  BY DEF RowSum
<1> HIDE DEF f, g
<1>7. SumOver(f, S) = SumOver(DepthOf, S) /\ SumOver(g, S) = SumOver(VolumeOf, S)
  BY <1>4, <1>5, SumOfEqual
<1> QED
  BY <1>2, <1>3, <1>4, <1>6, <1>7

\* The volumes of the pairs add up.
LEMMA VolumesAddUp ==
    ASSUME MarketInv, FiguresInv, NEW first, NEW n
    PROVE  Merged(first, n).total = SumOver(Merged(first, n).volume, PairNames)
<1> DEFINE V == Volumes(first, n)
           group == [p \in PairNames |-> OfPair(V, p)]
           sums == VolumesByPair(first, n)
<1>1. V \subseteq DOMAIN pairRows
  BY DEF Volumes, VolumeRows, Indices
<1>2. Merged(first, n).total = RowSum(V, "volume") /\ Merged(first, n).volume = sums
  BY MergedIs
<1>3. \A p \in PairNames : group[p] = OfPair(V, p)
  OBVIOUS
<1>4. \A p \in PairNames : sums[p] = RowSum(OfPair(V, p), "volume")
  BY DEF VolumesByPair
<1> HIDE DEF V, group, sums
<1>5. \A p : OfPair(V, p) \subseteq DOMAIN pairRows
  BY <1>1 DEF OfPair
<1>6. ASSUME NEW p \in PairNames
      PROVE  Amounts(VolumeOf, group[p]) /\ sums[p] = SumOver(VolumeOf, group[p])
  BY <1>3, <1>4, <1>5, FiguresOfRows
<1>7. \A p, q \in PairNames : p # q => group[p] \cap group[q] = {}
  BY <1>3 DEF OfPair
<1>8. Grouped(VolumeOf, PairNames, group, sums)
  BY <1>6, <1>7, MarketAssumption DEF Grouped
<1>9. SumOver(sums, PairNames) = SumOver(VolumeOf, Members(group, PairNames))
  BY <1>8, SumOfSums
<1>10. Members(group, PairNames) = V
  <2>1. \A i \in V : pairRows[i].pair \in PairNames
    BY <1>1 DEF FiguresInv, BackedRow, Quoted
  <2>2. \A i : i \in Members(group, PairNames) <=> \E p \in PairNames : i \in group[p]
    BY DEF Members
  <2>3. \A i : i \in Members(group, PairNames) <=> i \in V
    BY <1>3, <2>1, <2>2 DEF OfPair
  <2> QED
    BY <2>3
<1>11. RowSum(V, "volume") = SumOver(VolumeOf, V)
  BY <1>1, FiguresOfRows
<1> QED
  BY <1>2, <1>9, <1>10, <1>11

\* A day of a window, and one of a longer one.
LEMMA DaysOfWindow ==
    ASSUME NEW first \in Nat, NEW n \in Nat
    PROVE  /\ Window(first, n) \subseteq Window(first, n + 1)
           /\ Window(first + 1, n) \subseteq Window(first, n + 1)
           /\ Window(first, n + 1) \subseteq Nat /\ IsFiniteSet(Window(first, n))
<1>1. first \in Int /\ first + n - 1 \in Int
  OBVIOUS
<1>2. IsFiniteSet(first..(first + n - 1))
  BY <1>1, FS_Interval
<1> QED
  BY <1>2 DEF Window

\* A row's sample is one of the window.
LEMMA SampleInWindow ==
    ASSUME NEW first, NEW n, NEW p, NEW i \in DOMAIN pairRows, NEW r,
           IsSampleOf(pairRows[i], r), r.pair = p,
           NEW d \in Window(first, n + 1), InDay(r, d)
    PROVE  i \in Samples(first, n, p)
<1>1. InDay(pairRows[i], d)
  BY DEF IsSampleOf, InDay
<1> QED
  BY <1>1 DEF Samples, IsSampleOf, IsDaily

\* No more than count amounts, each no greater than a sample's.
LEMMA SumOfSamples ==
    ASSUME MarketInv, FiguresInv, NEW T, T \subseteq DOMAIN pairRows, NEW count \in Nat,
           Cardinality(T) <= count, RowSum(T, "depth") > 0, NEW S,
           \A i \in T : \E k \in S : k \in DOMAIN pairRows /\ pairRows[i].depth <= pairRows[k].depth
    PROVE  NoMoreThanASample(RowSum(T, "depth"), count, S)
<1>1. /\ IsFiniteSet(T) /\ Amounts(DepthOf, T) /\ RowSum(T, "depth") = SumOver(DepthOf, T)
      /\ \A i \in T : DepthOf[i] = pairRows[i].depth /\ DepthOf[i] \in Nat
  BY FiguresOfRows
<1>2. T # {}
  BY <1>1, SumOfNone
<1>3. PICK j \in T : \A i \in T : DepthOf[i] <= DepthOf[j]
  BY <1>1, <1>2, ExtremesExist
<1>4. PICK k \in S : k \in DOMAIN pairRows /\ pairRows[j].depth <= pairRows[k].depth
  OBVIOUS
<1>5. SumOver(DepthOf, T) <= Cardinality(T) * DepthOf[j]
  BY <1>1, <1>3, SumOfBounded
<1>6. DepthOf[j] \in Nat /\ pairRows[k].depth \in Nat /\ DepthOf[j] <= pairRows[k].depth
  BY <1>1, <1>4 DEF FiguresInv, BackedRow, Quoted
<1>7. Cardinality(T) \in Nat /\ SumOver(DepthOf, T) \in Nat
  BY <1>1, FS_CardinalityType, SumType
<1>8. Cardinality(T) * DepthOf[j] <= count * pairRows[k].depth
  <2> DEFINE a == Cardinality(T)
             x == DepthOf[j]
             y == pairRows[k].depth
  <2> HIDE DEF a, x, y
  <2>1. a \in Nat /\ x \in Nat /\ y \in Nat /\ a <= count /\ x <= y
    BY <1>6, <1>7 DEF a, x, y
  <2>2. a * x <= a * y /\ a * y <= count * y
    BY <2>1
  <2>3. a * x <= count * y
    BY <2>1, <2>2
  <2> QED
    BY <2>3 DEF a, x, y
<1>9. count * pairRows[k].depth \in Nat /\ Cardinality(T) * DepthOf[j] \in Nat
  BY <1>6, <1>7
<1>10. SumOver(DepthOf, T) <= count * pairRows[k].depth
  BY <1>5, <1>7, <1>8, <1>9
<1> QED
  BY <1>1, <1>4, <1>10 DEF NoMoreThanASample

\* The daily depths of a window, of a pair: one of each day at most.
LEMMA DailyDepthsSampled ==
    ASSUME MarketInv, FiguresInv, NEW first \in Nat, NEW n \in Nat, NEW p \in PairNames,
           Merged(first, n).depth[p] > 0
    PROVE  NoMoreThanASample(Merged(first, n).depth[p], Merged(first, n).days,
                             Samples(first, n, p))
<1> DEFINE full == FullDays(first, n)
           T == OfPair(DailyOfFull(first, n), p)
<1>1. Merged(first, n).days = Cardinality(full) /\ Merged(first, n).depth[p] = RowSum(T, "depth")
  <2>1. DepthsByPair(first, n)[p] = RowSum(T, "depth")
    BY DEF DepthsByPair
  <2> QED
    BY <2>1, MergedIs
<1>2. \A i \in T : /\ i \in DOMAIN pairRows /\ IsDaily(pairRows[i]) /\ pairRows[i].pair = p
                   /\ \E d \in full : InDay(pairRows[i], d)
  BY DEF OfPair, DailyOfFull, Indices, IsDaily
<1>3. full \subseteq Window(first, n) /\ full \subseteq Window(first, n + 1) /\ IsFiniteSet(full)
  <2>1. full \subseteq Window(first, n)
    BY DEF FullDays
  <2> HIDE DEF full
  <2> QED
    BY <2>1, DaysOfWindow, FS_Subset
<1> HIDE DEF T, full
<1>4. Cardinality(full) \in Nat
  BY <1>3, FS_CardinalityType
<1>5. Cardinality(T) <= Cardinality(full)
  <2> DEFINE g == [i \in T |-> CHOOSE d \in full : InDay(pairRows[i], d)]
  <2>1. \A i \in T : g[i] \in full /\ InDay(pairRows[i], g[i])
    BY <1>2
  <2>2. g \in [T -> full]
    BY <2>1
  <2> HIDE DEF g
  <2>3. ASSUME NEW i \in T, NEW j \in T, g[i] = g[j]
        PROVE  i = j
    <3>1. pairRows[i].month = pairRows[j].month /\ pairRows[i].dd = pairRows[j].dd
      BY <2>1, <2>3 DEF InDay
    <3> QED
      BY <1>2, <3>1 DEF MarketInv, TableOK, DailyOnce
  <2>4. g \in Injection(T, full)
    BY <2>2, <2>3 DEF Injection, IsInjective
  <2> QED
    BY <1>3, <2>4, FS_Injection
<1>6. ASSUME NEW i \in T
      PROVE  \E k \in Samples(first, n, p) : k \in DOMAIN pairRows /\ pairRows[i].depth <= pairRows[k].depth
  <2>1. PICK k \in DOMAIN pairRows :
            IsSampleOf(pairRows[k], pairRows[i]) /\ pairRows[i].depth <= pairRows[k].depth
    BY <1>2 DEF FiguresInv, BackedRow, Backed
  <2>2. PICK d \in full : InDay(pairRows[i], d)
    BY <1>2
  <2>3. k \in Samples(first, n, p)
    BY <1>2, <1>3, <2>1, <2>2, SampleInWindow
  <2> QED
    BY <2>1, <2>3
<1>7. T \subseteq DOMAIN pairRows
  BY <1>2
<1> QED
  BY <1>1, <1>4, <1>5, <1>6, <1>7, SumOfSamples

\* The average depth of the polls, of a pair: one row of each poll at most.
LEMMA AverageDepthSampled ==
    ASSUME MarketInv, FiguresInv, NEW first \in Nat, NEW n \in Nat, NEW p \in PairNames,
           AverageDepth(first, n, p).sum > 0, \A d \in Window(first, n) : Punctual(d)
    PROVE  NoMoreThanASample(AverageDepth(first, n, p).sum, AverageDepth(first, n, p).polls,
                             Samples(first, n, p))
<1> DEFINE used == {i \in DOMAIN pairRows : /\ \E d \in Window(first, n) : InDay(pairRows[i], d)
                                            /\ pairRows[i].percent # 0}
           T == OfPair(used, p)
           polls == PollsOf(used)
<1>1. /\ AverageDepth(first, n, p).sum = RowSum(T, "depth")
      /\ AverageDepth(first, n, p).polls = Cardinality(polls)
  BY DEF AverageDepth, Indices, OfPair
<1>2. \A i \in used : /\ i \in DOMAIN pairRows /\ pairRows[i].percent > 0 /\ InTime(pairRows[i])
                      /\ \E d \in Window(first, n) : InDay(pairRows[i], d)
  <2> TAKE i \in used
  <2>1. PICK d \in Window(first, n) : InDay(pairRows[i], d)
    OBVIOUS
  <2>2. pairRows[i].percent > 0
    BY DEF FiguresInv, BackedRow, Quoted
  <2>3. ~IsDaily(pairRows[i])
    BY <2>2 DEF MarketInv, TableOK, DailyShape
  <2>4. ~pairRows[i].late
    BY <2>1 DEF Punctual
  <2> QED
    BY <2>1, <2>2, <2>3, <2>4 DEF InTime
<1>3. \A i \in T : i \in used /\ pairRows[i].pair = p
  BY DEF OfPair
<1>4. polls = {PollOf(pairRows[i]) : i \in used}
  BY DEF PollsOf
<1> HIDE DEF used, T, polls
<1>5. used \subseteq DOMAIN pairRows /\ T \subseteq DOMAIN pairRows
  BY <1>2, <1>3
<1>6. IsFiniteSet(polls)
  <2> DEFINE f == [i \in used |-> PollOf(pairRows[i])]
  <2>1. f \in Surjection(used, polls)
    BY <1>4 DEF Surjection
  <2>2. IsFiniteSet(used)
    BY <1>5, FiguresOfRows
  <2> HIDE DEF f
  <2> QED
    BY <2>1, <2>2, FS_Surjection
<1>7. Cardinality(polls) \in Nat
  BY <1>6, FS_CardinalityType
<1>8. Cardinality(T) <= Cardinality(polls)
  <2> DEFINE g == [i \in T |-> PollOf(pairRows[i])]
  <2>1. g \in [T -> polls] /\ \A i \in T : g[i] = PollOf(pairRows[i])
    BY <1>3, <1>4
  <2> HIDE DEF g
  <2>2. ASSUME NEW i \in T, NEW j \in T, g[i] = g[j]
        PROVE  i = j
    <3>1. SamePoll(pairRows[i], pairRows[j])
      BY <1>3, <2>1, <2>2 DEF PollOf, SamePoll
    <3> QED
      BY <1>2, <1>3, <3>1 DEF FiguresInv, PollsOnce
  <2>3. g \in Injection(T, polls)
    BY <2>1, <2>2 DEF Injection, IsInjective
  <2> QED
    BY <1>6, <2>3, FS_Injection
<1>9. ASSUME NEW i \in T
      PROVE  \E k \in Samples(first, n, p) : k \in DOMAIN pairRows /\ pairRows[i].depth <= pairRows[k].depth
  <2>1. PICK d \in Window(first, n) : InDay(pairRows[i], d)
    BY <1>2, <1>3
  <2>2. i \in DOMAIN pairRows /\ IsSampleOf(pairRows[i], pairRows[i]) /\ pairRows[i].pair = p
    BY <1>2, <1>3 DEF IsSampleOf, InTime
  <2>3. d \in Window(first, n + 1)
    BY DaysOfWindow
  <2>4. i \in Samples(first, n, p)
    BY <2>1, <2>2, <2>3, SampleInWindow
  <2>5. pairRows[i].depth <= pairRows[i].depth
    BY <2>2 DEF FiguresInv, BackedRow, Quoted
  <2> QED
    BY <2>2, <2>4, <2>5
<1> QED
  BY <1>1, <1>5, <1>7, <1>8, <1>9, SumOfSamples

\* A rule that every sample meets is met by the daily rows, too.
LEMMA RuleIsMet ==
    ASSUME MarketInv, FiguresInv, NEW first \in Nat, NEW n \in Nat, NEW p \in PairNames,
           NEW least \in Limits, \A i \in Samples(first, n, p) : pairRows[i].depth >= least
    PROVE  RuleStats(Rule(1, p, least), first, n).depthBroken = 0
<1> DEFINE hits == {i \in DOMAIN pairRows : /\ \E d \in Window(first + 1, n) : InDay(pairRows[i], d)
                                            /\ pairRows[i].pair = p}
<1>1. RuleStats(Rule(1, p, least), first, n).depthBroken =
          Cardinality({i \in hits : pairRows[i].depth < least})
  BY DEF RuleStats, Rule, Indices
<1>2. ASSUME NEW i \in hits
      PROVE  pairRows[i].depth >= least
  <2>1. PICK d \in Window(first + 1, n) : InDay(pairRows[i], d)
    OBVIOUS
  <2>2. d \in Window(first, n + 1)
    BY DaysOfWindow
  <2>3. pairRows[i].depth \in Nat /\ least \in Nat
    BY QuoteAssumption DEF FiguresInv, BackedRow, Quoted
  <2>4. CASE ~IsDaily(pairRows[i])
    BY <2>1, <2>2, <2>4 DEF Samples, IsDaily
  <2>5. CASE IsDaily(pairRows[i])
    <3>1. PICK k \in DOMAIN pairRows :
              IsSampleOf(pairRows[k], pairRows[i]) /\ pairRows[k].depth <= pairRows[i].depth
      BY <2>5 DEF FiguresInv, BackedRow, Backed
    <3>2. k \in Samples(first, n, p)
      BY <2>1, <2>2, <3>1, SampleInWindow
    <3>3. pairRows[k].depth \in Nat /\ pairRows[k].depth >= least
      BY <3>2 DEF FiguresInv, BackedRow, Quoted
    <3> QED
      BY <2>3, <3>1, <3>3
  <2> QED
    BY <2>4, <2>5
<1>3. \A i \in hits : ~(pairRows[i].depth < least)
  BY <1>2, QuoteAssumption DEF FiguresInv, BackedRow, Quoted
<1> HIDE DEF hits
<1>4. {i \in hits : pairRows[i].depth < least} = {}
  BY <1>3
<1> QED
  BY <1>1, <1>4, FS_EmptySet

-----------------------------------------------------------------------------
(* Averages of prices.  The function that stands for the loop is defined by  *)
(* itself; there is one, which is made from the end of the loop backwards.   *)

RowFrom(price, g, i) ==
    [days \in 0..FinalDay + 1 |->
        IF i >= days THEN [sum |-> 0, days |-> days]
        ELSE IF price[i] = 0 THEN g[i + 1][WithoutDay(days)]
        ELSE [g[i + 1][days] EXCEPT !.sum = @ + price[i]]]
IsFrom(price, g) == g = [i \in 0..FinalDay + 1 |-> RowFrom(price, g, i)]

LEMMA FromExists ==
    ASSUME NEW price
    PROVE  \E g : IsFrom(price, g)
<1> DEFINE top == FinalDay + 1
           P == {k \in Nat : k <= top => \E g : /\ DOMAIN g = 0..top
                                                /\ g = [i \in 0..top |-> g[i]]
                                                /\ \A i \in (top - k)..top : g[i] = RowFrom(price, g, i)}
<1>1. top \in Nat /\ FinalDay \in Nat
  BY MarketAssumption
<1> HIDE DEF top
<1>2. ASSUME NEW g, NEW h, NEW i \in 0..top, i < top => h[i + 1] = g[i + 1]
      PROVE  RowFrom(price, h, i) = RowFrom(price, g, i)
  <2> DEFINE Entry(f, days) == IF i >= days THEN [sum |-> 0, days |-> days]
                               ELSE IF price[i] = 0 THEN f[i + 1][WithoutDay(days)]
                               ELSE [f[i + 1][days] EXCEPT !.sum = @ + price[i]]
  <2>1. ASSUME NEW days \in 0..top
        PROVE  Entry(h, days) = Entry(g, days)
    <3>1. CASE i >= days
      BY <3>1
    <3>2. CASE ~(i >= days)
      <4>1. h[i + 1] = g[i + 1]
        BY <1>1, <1>2, <3>2
      <4> QED
        BY <4>1
    <3> QED
      BY <3>1, <3>2
  <2>2. \A f : RowFrom(price, f, i) = [days \in 0..top |-> Entry(f, days)]
    BY DEF RowFrom, top
  <2> HIDE DEF Entry
  <2> QED
    BY <2>1, <2>2
<1>3. 0 \in P
  <2> DEFINE z == [i \in 0..top |-> 0]
             g == [i \in 0..top |-> RowFrom(price, z, i)]
  <2>1. DOMAIN g = 0..top /\ g = [i \in 0..top |-> g[i]] /\ g[top] = RowFrom(price, z, top)
    BY <1>1
  <2> HIDE DEF g, z
  <2>2. g[top] = RowFrom(price, g, top)
    BY <1>1, <1>2, <2>1
  <2>3. \A i \in (top - 0)..top : g[i] = RowFrom(price, g, i)
    BY <1>1, <2>2
  <2> QED
    BY <2>1, <2>3
<1>4. ASSUME NEW k \in Nat, k \in P
      PROVE  k + 1 \in P
  <2> SUFFICES ASSUME k + 1 <= top
               PROVE  \E h : /\ DOMAIN h = 0..top
                             /\ h = [i \in 0..top |-> h[i]]
                             /\ \A i \in (top - (k + 1))..top : h[i] = RowFrom(price, h, i)
    OBVIOUS
  <2>1. PICK g : /\ DOMAIN g = 0..top
                 /\ g = [i \in 0..top |-> g[i]]
                 /\ \A i \in (top - k)..top : g[i] = RowFrom(price, g, i)
    BY <1>1, <1>4
  <2> DEFINE m == top - (k + 1)
             r == RowFrom(price, g, m)
             h == [i \in 0..top |-> IF i = m THEN r ELSE g[i]]
  <2>2. m \in 0..top /\ m + 1 = top - k /\ m < top
    BY <1>1
  <2>3. /\ DOMAIN h = 0..top /\ h = [i \in 0..top |-> h[i]]
        /\ h[m] = r /\ \A i \in 0..top : i # m => h[i] = g[i]
    BY <2>2
  <2> HIDE DEF h
  <2>4. h[m] = RowFrom(price, h, m)
    <3>1. h[m + 1] = g[m + 1]
      BY <1>1, <2>2, <2>3
    <3>2. RowFrom(price, h, m) = RowFrom(price, g, m)
      BY <1>2, <2>2, <3>1
    <3> QED
      BY <2>3, <3>2
  <2> HIDE DEF r
  <2>5. ASSUME NEW i \in (top - k)..top
        PROVE  h[i] = RowFrom(price, h, i)
    <3>1. i \in 0..top /\ i # m /\ (i < top => i + 1 \in 0..top /\ i + 1 # m)
      BY <1>1, <2>2
    <3>2. h[i] = g[i] /\ (i < top => h[i + 1] = g[i + 1])
      BY <2>3, <3>1
    <3>3. RowFrom(price, h, i) = RowFrom(price, g, i)
      BY <1>2, <3>1, <3>2
    <3> QED
      BY <2>1, <3>2, <3>3
  <2>6. \A i \in m..top : i = m \/ i \in (top - k)..top
    BY <1>1, <2>2
  <2>7. \A i \in m..top : h[i] = RowFrom(price, h, i)
    BY <2>4, <2>5, <2>6
  <2> QED
    BY <2>3, <2>7
<1>5. top \in P
  <2> HIDE DEF P
  <2> QED
    BY <1>1, <1>3, <1>4, AllNumbers
<1>6. PICK g : /\ g = [i \in 0..top |-> g[i]]
               /\ \A i \in (top - top)..top : g[i] = RowFrom(price, g, i)
  BY <1>1, <1>5
<1>7. \A i \in 0..top : g[i] = RowFrom(price, g, i)
  BY <1>1, <1>6
<1>8. [i \in 0..top |-> g[i]] = [i \in 0..top |-> RowFrom(price, g, i)]
  BY <1>7
<1>9. g = [i \in 0..top |-> RowFrom(price, g, i)]
  BY <1>6, <1>8
<1> QED
  BY <1>9 DEF IsFrom, top

\* What the loop computes for one day and for two.
LEMMA LoopOfTwo ==
    ASSUME NEW price, NEW g, IsFrom(price, g), FinalDay >= 1
    PROVE  /\ price[0] = 0 => g[0][1] = [sum |-> 0, days |-> 0]
           /\ price[0] # 0 => g[0][1] = [sum |-> 0 + price[0], days |-> 1]
           /\ price[0] = 0 => g[0][2] = [sum |-> 0, days |-> 1]
           /\ price[0] # 0 /\ price[1] = 0 => g[0][2] = [sum |-> 0 + price[0], days |-> 1]
           /\ price[0] # 0 /\ price[1] # 0
                => g[0][2] = [sum |-> (0 + price[1]) + price[0], days |-> 2]
<1>1. FinalDay \in Nat
  BY MarketAssumption
<1> DEFINE D == 0..FinalDay + 1
           rowOf == [i \in D |-> RowFrom(price, g, i)]
<1>2. 0 \in D /\ 1 \in D /\ 2 \in D
  BY <1>1
<1>3. g = rowOf
  BY DEF IsFrom
<1>4. \A i \in D : rowOf[i] = RowFrom(price, g, i)
  OBVIOUS
<1> HIDE DEF rowOf
<1>5. \A i \in D : g[i] = RowFrom(price, g, i)
  BY <1>3, <1>4
<1>6. ASSUME NEW i \in D, NEW days \in D
      PROVE  /\ i >= days => g[i][days] = [sum |-> 0, days |-> days]
             /\ ~(i >= days) /\ price[i] = 0 => g[i][days] = g[i + 1][days - 1]
             /\ ~(i >= days) /\ price[i] # 0
                  => g[i][days] = [g[i + 1][days] EXCEPT !.sum = @ + price[i]]
  <2>1. g[i][days] = RowFrom(price, g, i)[days]
    BY <1>5
  <2> QED
    BY <2>1 DEF RowFrom, WithoutDay
<1> HIDE DEF D
<1> DEFINE Plus(r, x) == [r EXCEPT !.sum = @ + x]
<1>7. \A i, days \in D : i >= days => g[i][days] = [sum |-> 0, days |-> days]
  BY <1>6
<1>8. \A i, days \in D : ~(i >= days) /\ price[i] = 0 => g[i][days] = g[i + 1][days - 1]
  BY <1>6
<1>9. \A i, days \in D : ~(i >= days) /\ price[i] # 0
                             => g[i][days] = Plus(g[i + 1][days], price[i])
  BY <1>6
<1>10. ASSUME NEW x, NEW s, NEW d
       PROVE  Plus([sum |-> s, days |-> d], x) = [sum |-> s + x, days |-> d]
  OBVIOUS
<1> HIDE DEF Plus
<1>11. g[1][0] = [sum |-> 0, days |-> 0]
  BY <1>2, <1>7
<1>12. g[1][1] = [sum |-> 0, days |-> 1]
  BY <1>2, <1>7
<1>13. g[2][1] = [sum |-> 0, days |-> 1]
  BY <1>2, <1>7
<1>14. g[2][2] = [sum |-> 0, days |-> 2]
  BY <1>2, <1>7
<1>15. /\ price[0] = 0 => g[0][1] = g[1][0]
       /\ price[0] = 0 => g[0][2] = g[1][1]
       /\ price[1] = 0 => g[1][2] = g[2][1]
  <2>1. price[0] = 0 => g[0][1] = g[0 + 1][1 - 1]
    BY <1>2, <1>8
  <2>2. price[0] = 0 => g[0][2] = g[0 + 1][2 - 1]
    BY <1>2, <1>8
  <2>3. price[1] = 0 => g[1][2] = g[1 + 1][2 - 1]
    BY <1>2, <1>8
  <2>4. 0 + 1 = 1 /\ 1 + 1 = 2 /\ 1 - 1 = 0 /\ 2 - 1 = 1
    OBVIOUS
  <2> QED
    BY <2>1, <2>2, <2>3, <2>4
<1>16. /\ price[0] # 0 => g[0][1] = Plus(g[1][1], price[0])
       /\ price[0] # 0 => g[0][2] = Plus(g[1][2], price[0])
       /\ price[1] # 0 => g[1][2] = Plus(g[2][2], price[1])
  <2>1. price[0] # 0 => g[0][1] = Plus(g[0 + 1][1], price[0])
    BY <1>2, <1>9
  <2>2. price[0] # 0 => g[0][2] = Plus(g[0 + 1][2], price[0])
    BY <1>2, <1>9
  <2>3. price[1] # 0 => g[1][2] = Plus(g[1 + 1][2], price[1])
    BY <1>2, <1>9
  <2>4. 0 + 1 = 1 /\ 1 + 1 = 2
    OBVIOUS
  <2> QED
    BY <2>1, <2>2, <2>3, <2>4
<1>17. /\ price[1] = 0 => g[1][2] = [sum |-> 0, days |-> 1]
       /\ price[1] # 0 => g[1][2] = [sum |-> 0 + price[1], days |-> 2]
  BY <1>10, <1>13, <1>14, <1>15, <1>16
<1> QED
  BY <1>10, <1>11, <1>12, <1>15, <1>16, <1>17

\* The prices of a window have a lowest and a highest.
LEMMA RangeOfPrices ==
    ASSUME MarketInv, FiguresInv, NEW first, NEW n, NEW v \in PricesOf(first, n)
    PROVE  /\ v \in Nat
           /\ PriceRange(first, n).low \in Nat /\ PriceRange(first, n).high \in Nat
           /\ PriceRange(first, n).low <= v /\ v <= PriceRange(first, n).high
<1> DEFINE S == UNION {Priced(d) : d \in Window(first, n)}
           V == PricesOf(first, n)
           f == [i \in S |-> pairRows[i].price]
<1>1. S \subseteq DOMAIN pairRows
  BY DEF Priced, Indices
<1>2. V = {pairRows[i].price : i \in S}
  BY DEF PricesOf
<1>3. PriceRange(first, n) = [low |-> Min(V), high |-> Max(V)]
  BY DEF PriceRange
<1> HIDE DEF S, V
<1>4. \A i \in S : f[i] = pairRows[i].price /\ f[i] \in Nat
  BY <1>1 DEF FiguresInv, BackedRow, Quoted
<1>5. Amounts(f, S)
  BY <1>1, <1>4, FiguresOfRows DEF Amounts
<1> HIDE DEF f
<1>6. v \in V
  BY DEF V
<1>7. S # {}
  BY <1>2, <1>6
<1>8. /\ \E x \in S : \A y \in S : f[y] <= f[x]
      /\ \E x \in S : \A y \in S : f[x] <= f[y]
  BY <1>5, <1>7, ExtremesExist
<1>9. /\ \E x \in V : \A y \in V : x >= y
      /\ \E x \in V : \A y \in V : x <= y
      /\ V \subseteq Nat
  BY <1>2, <1>4, <1>8
<1>10. /\ Max(V) \in V /\ \A y \in V : Max(V) >= y
       /\ Min(V) \in V /\ \A y \in V : Min(V) <= y
  BY <1>9 DEF Max, Min
<1>11. PriceRange(first, n).low = Min(V) /\ PriceRange(first, n).high = Max(V)
  BY <1>3
<1> QED
  BY <1>6, <1>9, <1>10, <1>11

\* The price of a day is one of the window's, if there is one.
PriceAt(day, isClose) == IF isClose THEN ClosePrice(day) ELSE OpenPrice(day)
LEMMA PriceOfDay ==
    ASSUME MarketInv, FiguresInv, NEW first, NEW n, NEW day \in Window(first, n),
           NEW isClose \in BOOLEAN, PriceAt(day, isClose) # 0
    PROVE  PriceAt(day, isClose) \in PricesOf(first, n)
<1>1. Priced(day) # {}
  BY DEF PriceAt, OpenPrice, ClosePrice
<1>2. Priced(day) \subseteq 1..Len(pairRows) /\ Len(pairRows) \in Nat /\ Priced(day) \subseteq DOMAIN pairRows
  BY DEF Priced, Indices, MarketInv
<1>3. Priced(day) \subseteq Nat
  BY <1>2
<1>4. \E x \in Priced(day) : \A y \in Priced(day) : x <= y
  BY <1>1, <1>3, LeastElement
<1>5. \E x \in Priced(day) : \A y \in Priced(day) : y <= x
  BY <1>1, <1>2, GreatestElement
<1>6. Min(Priced(day)) \in Priced(day)
  BY <1>4 DEF Min
<1>7. Max(Priced(day)) \in Priced(day)
  <2>1. \E x \in Priced(day) : \A y \in Priced(day) : x >= y
    BY <1>3, <1>5
  <2> QED
    BY <2>1 DEF Max
<1>8. PriceAt(day, isClose) = pairRows[Min(Priced(day))].price
      \/ PriceAt(day, isClose) = pairRows[Max(Priced(day))].price
  BY <1>1 DEF PriceAt, OpenPrice, ClosePrice
<1>9. \A i \in Priced(day) : pairRows[i].price \in PricesOf(first, n)
  BY DEF PricesOf
<1> QED
  BY <1>6, <1>7, <1>8, <1>9

\* Averages over at most two days are in the range of prices.
LEMMA AveragesInRange ==
    ASSUME MarketInv, FiguresInv, NEW first \in 0..(FinalDay - 1), NEW n \in 1..2
    PROVE  AverageInRange(first, n)
<1> SUFFICES ASSUME NEW isClose \in BOOLEAN, OpenOrClose(first, n, isClose).sum > 0
             PROVE  /\ OpenOrClose(first, n, isClose).days * PriceRange(first, n).low
                         <= OpenOrClose(first, n, isClose).sum
                    /\ OpenOrClose(first, n, isClose).sum
                         <= OpenOrClose(first, n, isClose).days * PriceRange(first, n).high
  BY DEF AverageInRange
<1>1. FinalDay \in Nat /\ FinalDay >= 1 /\ first \in Nat
  BY MarketAssumption
<1> DEFINE price == [i \in 0..FinalDay |->
                        IF isClose THEN ClosePrice(first + i) ELSE OpenPrice(first + i)]
           avg == OpenOrClose(first, n, isClose)
           low == PriceRange(first, n).low
           high == PriceRange(first, n).high
<1>2. PICK g : IsFrom(price, g) /\ avg = g[0][n]
  <2> DEFINE F == CHOOSE g : IsFrom(price, g)
  <2>1. IsFrom(price, F)
    <3> HIDE DEF price
    <3> QED
      BY FromExists
  <2>2. avg = F[0][n]
    BY DEF OpenOrClose, IsFrom, RowFrom
  <2> HIDE DEF F, price, avg
  <2> QED
    BY <2>1, <2>2
<1>3. 0 \in 0..FinalDay /\ 1 \in 0..FinalDay /\ first + 0 = first
  BY <1>1
<1>4. price[0] = PriceAt(first, isClose) /\ price[1] = PriceAt(first + 1, isClose)
  BY <1>3 DEF PriceAt
<1> HIDE DEF price, avg, low, high
<1>5. first \in Window(first, n) /\ (n = 2 => first + 1 \in Window(first, n))
  BY <1>1 DEF Window
<1>6. price[0] # 0 => /\ low \in Nat /\ high \in Nat /\ price[0] \in Nat
                      /\ low <= price[0] /\ price[0] <= high
  <2> SUFFICES ASSUME price[0] # 0
               PROVE  /\ low \in Nat /\ high \in Nat /\ price[0] \in Nat
                      /\ low <= price[0] /\ price[0] <= high
    OBVIOUS
  <2>1. price[0] \in PricesOf(first, n)
    BY <1>4, <1>5, PriceOfDay
  <2> QED
    BY <2>1, RangeOfPrices DEF low, high
<1>7. n = 2 /\ price[1] # 0 => /\ low \in Nat /\ high \in Nat /\ price[1] \in Nat
                               /\ low <= price[1] /\ price[1] <= high
  <2> SUFFICES ASSUME n = 2, price[1] # 0
               PROVE  /\ low \in Nat /\ high \in Nat /\ price[1] \in Nat
                      /\ low <= price[1] /\ price[1] <= high
    OBVIOUS
  <2>1. price[1] \in PricesOf(first, n)
    BY <1>4, <1>5, PriceOfDay
  <2> QED
    BY <2>1, RangeOfPrices DEF low, high
<1>8. avg.sum > 0
  BY DEF avg
<1>9. /\ price[0] = 0 => avg.sum = 0
      /\ price[0] # 0 /\ (n = 1 \/ price[1] = 0) => avg.sum = 0 + price[0] /\ avg.days = 1
      /\ price[0] # 0 /\ n = 2 /\ price[1] # 0
           => avg.sum = (0 + price[1]) + price[0] /\ avg.days = 2
  <2>1. n = 1 \/ n = 2
    OBVIOUS
  <2>2. CASE n = 1
    <3>1. avg = g[0][1]
      BY <1>2, <2>2
    <3>2. /\ price[0] = 0 => g[0][1] = [sum |-> 0, days |-> 0]
          /\ price[0] # 0 => g[0][1] = [sum |-> 0 + price[0], days |-> 1]
      BY <1>1, <1>2, LoopOfTwo
    <3> QED
      BY <2>2, <3>1, <3>2
  <2>3. CASE n = 2
    <3>1. avg = g[0][2]
      BY <1>2, <2>3
    <3>2. /\ price[0] = 0 => g[0][2] = [sum |-> 0, days |-> 1]
          /\ price[0] # 0 /\ price[1] = 0 => g[0][2] = [sum |-> 0 + price[0], days |-> 1]
          /\ price[0] # 0 /\ price[1] # 0
               => g[0][2] = [sum |-> (0 + price[1]) + price[0], days |-> 2]
      BY <1>1, <1>2, LoopOfTwo
    <3> QED
      BY <2>3, <3>1, <3>2
  <2> QED
    BY <2>1, <2>2, <2>3
<1>10. avg.days * low <= avg.sum /\ avg.sum <= avg.days * high
  <2>1. CASE price[0] = 0
    BY <1>8, <1>9, <2>1
  <2>2. CASE price[0] # 0 /\ (n = 1 \/ price[1] = 0)
    BY <1>6, <1>9, <2>2
  <2>3. CASE price[0] # 0 /\ n = 2 /\ price[1] # 0
    BY <1>6, <1>7, <1>9, <2>3
  <2> QED
    BY <2>1, <2>2, <2>3
<1> QED
  BY <1>10 DEF avg, low, high

LEMMA FiguresInvMeansConsistent == MarketInv /\ FiguresInv => FiguresConsistent
<1> SUFFICES ASSUME MarketInv, FiguresInv, NEW first \in 0..(FinalDay - 1), NEW n \in 1..2
             PROVE  /\ AverageInRange(first, n)
                    /\ Merged(first, n).total = SumOver(Merged(first, n).volume, PairNames)
                    /\ \A p \in PairNames : DepthsSampled(first, n, p, Merged(first, n))
  BY DEF FiguresConsistent
<1>1. first \in Nat /\ n \in Nat
  BY MarketAssumption
<1>2. ASSUME NEW p \in PairNames
      PROVE  DepthsSampled(first, n, p, Merged(first, n))
  BY <1>1, DailyDepthsSampled, AverageDepthSampled, RuleIsMet DEF DepthsSampled
<1> QED
  BY <1>2, AveragesInRange, VolumesAddUp

\* Whatever is polled and lost, however late it is saved and however often the loop of depths
\* begins again: volumes add up, no depth of a window exceeds its samples, a rule that all of
\* them meet is not broken, and averages over two days are in the range of prices.
THEOREM FiguresAreConsistent == MarketSpec => []FiguresConsistent
<1>1. MarketSpec => [](MarketInv /\ FiguresInv)
  BY FiguresHold
<1> QED
  BY <1>1, FiguresInvMeansConsistent, PTL

=============================================================================
