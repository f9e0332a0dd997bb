---------------------------- MODULE BlockTracking ----------------------------
(***************************************************************************)
(* The tracker goroutine (tron/tracker.go: loop, doTrackBlock) and what it *)
(* calls in database/db.go: SetLastTrackedBlock, persistRolloverMeta and   *)
(* SaveTransactions.  Blocks are fetched in order of height, their         *)
(* transactions are inserted into the table of their day, and two durable  *)
(* meta values, tracking_date and tracking_start_block_num, together with  *)
(* MAX(height) of the current day's table, tell New where to resume.       *)
(*                                                                         *)
(* A block is its height; the transactions of a block are inserted by one  *)
(* statement, so that a table is, per height, the number of times that     *)
(* statement took effect.  A fetch that fails, and a block that does not   *)
(* exist yet, are the same to the tracker: it tries again.                 *)
(***************************************************************************)
EXTENDS Integers

CONSTANTS
  StartDate, StartNum,  \* the configured first day and first block
  LastNum,              \* bound on the height of the chain
  Day,                  \* height -> day (generateDate of the timestamp)
  NonEmpty,             \* heights of the blocks that have transactions
  LoseAcks,             \* whether a write may succeed and be reported failed
  MaxCopies             \* bound on the times a block is inserted

Block == StartNum..LastNum
Days == {StartDate} \cup {Day[b] : b \in Block}

ASSUME ChainAssumption ==
  /\ StartNum \in Nat \ {0}
  /\ LastNum \in Nat /\ StartNum <= LastNum
  /\ StartDate \in Nat
  /\ Day \in [Block -> Nat]
  /\ \A b \in Block : StartDate <= Day[b]
  /\ \A b, c \in Block : b <= c => Day[b] <= Day[c]
  /\ NonEmpty \subseteq Block

ASSUME WritesAssumption == LoseAcks \in BOOLEAN /\ MaxCopies \in Nat \ {0}

VARIABLES
  pc,            \* where the tracker goroutine is; "stopped": no process
  trackingDate,  \* db.trackingDate
  lastNum,       \* db.lastTrackedBlockNum
  quit,          \* t.quitCh is closed
  depthLoop,     \* the market depth loop, the reader of statsCh: "ready", "busy"
  metaDate, metaStart,  \* the meta rows tracking_date, tracking_start_block_num
  tables,        \* the days whose transactions table exists
  rows           \* day -> height -> times inserted

process == <<pc, trackingDate, lastNum>>
disk == <<metaDate, metaStart, tables, rows>>
vars == <<process, quit, depthLoop, disk>>

Places == {"idle", "fetched", "sending", "rollover", "rolloverWait",
           "saving", "saveWait", "closing", "stopped"}

TypeOK ==
  /\ pc \in Places
  /\ trackingDate \in Days
  /\ lastNum \in (StartNum - 1)..LastNum
  /\ quit \in BOOLEAN
  /\ depthLoop \in {"ready", "busy"}
  /\ metaDate \in Days
  /\ metaStart \in StartNum..(LastNum + 1)
  /\ tables \subseteq Days
  /\ rows \in [Days -> [Block -> Nat]]

-----------------------------------------------------------------------------
(* resumeBlockNum: MAX(height) of the table of the tracked day, or, when    *)
(* there is no such table or it is empty, the block before the day's first. *)

Inserted(d) == {b \in Block : rows[d][b] > 0}
Resumed == metaDate \in tables /\ Inserted(metaDate) # {}
MaxHeight(d) == CHOOSE b \in Inserted(d) : \A c \in Inserted(d) : c <= b
\* Mutant of ResumeNum: one block too early when the day is started afresh.
ResumeTooEarly == IF Resumed THEN MaxHeight(metaDate) ELSE metaStart - 2

ResumeNum == IF Resumed THEN MaxHeight(metaDate) ELSE metaStart - 1

Init ==
  /\ pc = "idle"
  /\ trackingDate = StartDate
  /\ lastNum = StartNum - 1
  /\ quit = FALSE
  /\ depthLoop = "busy"
  /\ metaDate = StartDate
  /\ metaStart = StartNum
  /\ tables = {}
  /\ rows = [d \in Days |-> [b \in Block |-> 0]]

-----------------------------------------------------------------------------
(* doTrackBlock.                                                            *)

Next1 == lastNum + 1   \* the block that is fetched

\* Mutant of Fetch: loop does not look at quitCh.
FetchAnyway ==
  /\ pc = "idle"
  /\ pc' = "fetched"
  /\ UNCHANGED <<trackingDate, lastNum, quit, depthLoop, disk>>

\* loop has seen that quitCh is open.
Fetch ==
  /\ pc = "idle"
  /\ ~quit
  /\ pc' = "fetched"
  /\ UNCHANGED <<trackingDate, lastNum, quit, depthLoop, disk>>

\* No such block yet, an error, or a transaction list of another length.
FetchFailed ==
  /\ pc = "fetched"
  /\ pc' = "idle"
  /\ UNCHANGED <<trackingDate, lastNum, quit, depthLoop, disk>>

\* SetLastTrackedBlock within a day.
TrackSameDay ==
  /\ pc = "fetched"
  /\ Next1 \in Block
  /\ Day[Next1] = trackingDate
  /\ lastNum' = Next1
  /\ pc' = "saving"
  /\ UNCHANGED <<trackingDate, quit, depthLoop, disk>>

\* SetLastTrackedBlock at the first block of another day: the day that ends is
\* sent to the market depth loop over a channel without a buffer.
TrackNewDay ==
  /\ pc = "fetched"
  /\ Next1 \in Block
  /\ Day[Next1] # trackingDate
  /\ pc' = "sending"
  /\ UNCHANGED <<trackingDate, lastNum, quit, depthLoop, disk>>

SendStats ==
  /\ pc = "sending"
  /\ depthLoop = "ready"
  /\ depthLoop' = "busy"
  /\ pc' = "rollover"
  /\ UNCHANGED <<trackingDate, lastNum, quit, disk>>

WriteMeta == metaDate' = Day[Next1] /\ metaStart' = Next1

\* Mutant of RolloverOk: trackingDate is changed before the meta rows are.
FlipFirst ==
  /\ pc = "rollover"
  /\ trackingDate' = Day[Next1]
  /\ lastNum' = Next1
  /\ pc' = "saving"
  /\ UNCHANGED <<quit, depthLoop, disk>>

\* Mutant of RolloverOk: trackingDate is not changed.
NoFlip ==
  /\ pc = "rollover"
  /\ WriteMeta
  /\ lastNum' = Next1
  /\ pc' = "saving"
  /\ UNCHANGED <<trackingDate, quit, depthLoop, tables, rows>>

\* persistRolloverMeta: one database transaction, repeated until it succeeds.
RolloverOk ==
  /\ pc = "rollover"
  /\ WriteMeta
  /\ trackingDate' = Day[Next1]
  /\ lastNum' = Next1
  /\ pc' = "saving"
  /\ UNCHANGED <<quit, depthLoop, tables, rows>>

RolloverFailed ==
  /\ pc = "rollover"
  /\ \/ LoseAcks /\ WriteMeta
     \/ UNCHANGED <<metaDate, metaStart>>
  /\ pc' = "rolloverWait"
  /\ UNCHANGED <<trackingDate, lastNum, quit, depthLoop, tables, rows>>

\* The wait ends with the timer: db.quitCh, the other case of the select, is
\* closed by Close only, which loop calls when doTrackBlock has returned.
RolloverRetry ==
  /\ pc = "rolloverWait"
  /\ pc' = "rollover"
  /\ UNCHANGED <<trackingDate, lastNum, quit, depthLoop, disk>>

\* SaveTransactions has nothing to do for a block without transactions.
SaveEmpty ==
  /\ pc = "saving"
  /\ lastNum \notin NonEmpty
  /\ pc' = "idle"
  /\ UNCHANGED <<trackingDate, lastNum, quit, depthLoop, disk>>

CreateTable ==
  /\ pc = "saving"
  /\ lastNum \in NonEmpty
  /\ trackingDate \notin tables
  /\ tables' = tables \cup {trackingDate}
  /\ UNCHANGED <<process, quit, depthLoop, metaDate, metaStart, rows>>

Insert ==
  /\ pc = "saving"
  /\ lastNum \in NonEmpty
  /\ trackingDate \in tables
  /\ rows[trackingDate][lastNum] < MaxCopies
  /\ rows' = [rows EXCEPT ![trackingDate][lastNum] = @ + 1]
  /\ UNCHANGED <<trackingDate, lastNum, quit, depthLoop, metaDate, metaStart, tables>>

SaveOk == Insert /\ pc' = "idle"

SaveUnacknowledged ==
  /\ LoseAcks
  /\ Insert
  /\ rows[trackingDate][lastNum] < MaxCopies - 1
  /\ pc' = "saveWait"

\* Mutant of SaveFailed: the error is logged and the next block fetched.
SaveSkipped ==
  /\ pc = "saving"
  /\ lastNum \in NonEmpty
  /\ trackingDate \in tables
  /\ pc' = "idle"
  /\ UNCHANGED <<trackingDate, lastNum, quit, depthLoop, disk>>

SaveFailed ==
  /\ pc = "saving"
  /\ lastNum \in NonEmpty
  /\ trackingDate \in tables
  /\ pc' = "saveWait"
  /\ UNCHANGED <<trackingDate, lastNum, quit, depthLoop, disk>>

SaveRetry ==
  /\ pc = "saveWait"
  /\ ~quit
  /\ pc' = "saving"
  /\ UNCHANGED <<trackingDate, lastNum, quit, depthLoop, disk>>

SaveAbandoned ==
  /\ pc = "saveWait"
  /\ quit
  /\ pc' = "idle"
  /\ UNCHANGED <<trackingDate, lastNum, quit, depthLoop, disk>>

-----------------------------------------------------------------------------
(* The other goroutines, the end of the process and its start.              *)

\* Mutant of DepthDone: the loop comes back for a shutdown only.
DepthGone ==
  /\ quit
  /\ depthLoop = "busy"
  /\ depthLoop' = "ready"
  /\ UNCHANGED <<process, quit, disk>>

\* The depth loop comes back to its select: after the statistics of a day, or
\* after those of all the history, which it does first.
DepthDone ==
  /\ pc # "stopped"
  /\ depthLoop = "busy"
  /\ depthLoop' = "ready"
  /\ UNCHANGED <<process, quit, disk>>

\* Stop, called by the signal handler.
Stop ==
  /\ pc # "stopped"
  /\ ~quit
  /\ quit' = TRUE
  /\ UNCHANGED <<process, depthLoop, disk>>

BeginClose ==
  /\ pc = "idle"
  /\ quit
  /\ pc' = "closing"
  /\ UNCHANGED <<trackingDate, lastNum, quit, depthLoop, disk>>

\* Close returns when the loops of the database have ended.
Exit ==
  /\ pc = "closing"
  /\ depthLoop = "ready"
  /\ pc' = "stopped"
  /\ UNCHANGED <<trackingDate, lastNum, quit, depthLoop, disk>>

\* A kill, or a panic such as the one of createTableIfNotExist.
Crash ==
  /\ pc # "stopped"
  /\ pc' = "stopped"
  /\ UNCHANGED <<trackingDate, lastNum, quit, depthLoop, disk>>

\* Mutant of Restart: the tracked day's table is dropped in any case.
RestartAfresh ==
  /\ pc = "stopped"
  /\ lastNum' = metaStart - 1
  /\ trackingDate' = metaDate
  /\ tables' = tables \ {metaDate}
  /\ rows' = [rows EXCEPT ![metaDate] = [b \in Block |-> 0]]
  /\ pc' = "idle"
  /\ quit' = FALSE
  /\ depthLoop' = "busy"
  /\ UNCHANGED <<metaDate, metaStart>>

\* New: the tracked day's table is kept and continued, or dropped.
Restart ==
  /\ pc = "stopped"
  /\ lastNum' = ResumeNum
  /\ trackingDate' = metaDate
  /\ tables' = IF Resumed THEN tables ELSE tables \ {metaDate}
  /\ rows' = IF Resumed THEN rows
             ELSE [rows EXCEPT ![metaDate] = [b \in Block |-> 0]]
  /\ pc' = "idle"
  /\ quit' = FALSE
  /\ depthLoop' = "busy"
  /\ UNCHANGED <<metaDate, metaStart>>

TrackBlock ==
  \/ Fetch \/ TrackSameDay \/ TrackNewDay \/ SendStats
  \/ RolloverOk \/ RolloverRetry
  \/ SaveEmpty \/ CreateTable \/ SaveOk \/ SaveRetry \/ SaveAbandoned

Next ==
  \/ TrackBlock
  \/ FetchFailed \/ RolloverFailed \/ SaveUnacknowledged \/ SaveFailed
  \/ DepthDone \/ Stop \/ BeginClose \/ Exit \/ Crash \/ Restart

Spec == Init /\ [][Next]_vars

\* Every goroutine keeps running, and so does the operator who starts the
\* process again; calls may fail for ever.
RunningSpec ==
  /\ Spec
  /\ WF_vars(TrackBlock \/ FetchFailed \/ RolloverFailed \/ SaveFailed)
  /\ WF_vars(BeginClose \/ Exit) /\ WF_vars(DepthDone) /\ WF_vars(Restart)

\* Moreover a call that is repeated for ever does not fail for ever: the node
\* answers, the database accepts the statement.
FairSpec ==
  /\ RunningSpec
  /\ SF_vars(TrackSameDay) /\ SF_vars(TrackNewDay)
  /\ SF_vars(RolloverOk) /\ SF_vars(SaveOk)

-----------------------------------------------------------------------------
Recorded(b) == rows[Day[b]][b] > 0

\* Wherever the process dies, what New resumes from leaves no hole: every block
\* up to there that has transactions is in the table of its day ("never skip a
\* block, or restart-resume (MAX(height)) would leave a permanent hole",
\* tracker.go:305).
NoHole == \A b \in NonEmpty : b <= ResumeNum => Recorded(b)

\* New starts after the last recorded block, never before it: no block that is
\* already in a table is fetched and inserted again by the next process.
NothingBeyondResume ==
  \A d \in Days, b \in Block : rows[d][b] > 0 => b <= ResumeNum

\* Transactions are in the table of the day they belong to, also when the
\* process dies between the change of the meta rows and that of trackingDate.
RightDay == \A d \in Days, b \in Block : rows[d][b] > 0 => Day[b] = d

\* When an error means that nothing was written, a block is inserted once,
\* whatever fails, is retried, is abandoned at a shutdown or is interrupted by
\* a crash ("no duplicate", db.go:1786).
RecordedOnce == \A d \in Days, b \in Block : rows[d][b] <= 1

\* The table of a day before the tracked one does not change any more: the
\* daily statistics, which scan it once, see all of the day.
PastDaysFrozen ==
  [][\A d \in Days : d < metaDate => rows'[d] = rows[d]]_vars

\* Once the process is left running, every block of the chain is recorded in the
\* end, however many crashes and shutdowns there were before.
EveryBlockRecorded ==
  <>[](pc # "stopped" /\ ~quit) => \A b \in NonEmpty : <>Recorded(b)

\* A shutdown ends, so that "Stop() can't hang" (tracker.go:307).
StopReturns == quit ~> (pc = "stopped")

-----------------------------------------------------------------------------
(* Refinement: the tables, without the number of copies, are the archive.    *)

RowsArchive == {r \in Days \X Block : rows[r[1]][r[2]] > 0}

Archive == INSTANCE BlockArchive WITH archive <- RowsArchive

\* Seen from the tables, every failure, retry, crash and resumption is a
\* stutter: blocks are recorded in order, none is left out, removed or moved.
ImplementsArchive == Archive!Spec

=============================================================================
