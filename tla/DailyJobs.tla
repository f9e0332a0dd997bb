------------------------------ MODULE DailyJobs ------------------------------
(***************************************************************************)
(* The jobs that derive statistics from the transactions tables            *)
(* (database/db.go), each in a goroutine of its own: the flush loop        *)
(* (cacheFlushLoop) and the count loop (countLoop), which follow the       *)
(* tracker with a cursor each, and two jobs that HTTP handlers start for   *)
(* any day, the repair of the exchange statistics and the manual count.    *)
(*                                                                         *)
(* A job is a script of statements: it scans a day's transactions, wipes   *)
(* what a table holds for the day, writes it anew, and moves its cursor.   *)
(* Nothing but the tables synchronises the jobs.  What the rows say is     *)
(* left out: a table holds, per day, so many copies of each of its parts.  *)
(* The four tables that are created per day are the parts of "daily",      *)
(* "tokens" and "storage" are the statistics of TRX and USDT.  What a      *)
(* flush does besides is left out here: it refreshes the chargers          *)
(* (ChargerPipeline), and drops tables and indexes that are a year old.    *)
(***************************************************************************)
EXTENDS Integers, Sequences

CONSTANTS
  StartDate,  \* the configured first day
  LastDay,    \* bound on the days
  Tracked,    \* scope -> days that have a transactions table
  WeekOf,     \* day -> week (generateWeek)
  Asked,      \* days that the handlers are asked for
  Scopes,     \* sets of jobs whose interleavings are followed
  Size,       \* table -> number of its parts
  Lossy,      \* scopes in which a statement may succeed and be reported failed
  MaxCopies   \* bound on the copies of a part

Days == StartDate..LastDay
Periods == StartDate..(LastDay + 1)
Tables == {"daily", "fee", "regular", "special", "tokens", "storage", "week"}
Jobs == {"flush", "count", "repair", "manual"}

ASSUME DaysAssumption ==
  /\ StartDate \in Nat \ {0} /\ LastDay \in Nat /\ StartDate <= LastDay
  /\ Asked \subseteq Days
  /\ WeekOf \in [Periods -> Nat]
  /\ \A d, e \in Periods : d <= e => WeekOf[d] <= WeekOf[e]

ASSUME TablesAssumption ==
  /\ Size \in [Tables -> Nat \ {0}]
  /\ Scopes \subseteq SUBSET Jobs
  /\ Tracked \in [Scopes -> SUBSET Days] /\ Lossy \subseteq Scopes
  /\ MaxCopies \in Nat \ {0}

VARIABLES
  scope,                                 \* the jobs that run in this behaviour
  trackingDate,                          \* the day that is being tracked
  flushedDate, countedDate, countedWeek, \* the cursors in memory
  metaFlushed, metaCounted, metaWeek,    \* the same, as stored
  job,        \* job -> the statement it is at, and the day it works on
  rows,       \* table -> day, or first day of a week -> part -> copies
  overlapped, \* days on which two jobs that write the same rows have met
  unnoticed   \* whether a job has ignored the failure of a deletion or a cursor

cursors == <<flushedDate, countedDate, countedWeek>>
metas == <<metaFlushed, metaCounted, metaWeek>>
history == <<overlapped, unnoticed>>
vars == <<scope, trackingDate, cursors, metas, job, rows, history>>

Idle == [step |-> 0, day |-> StartDate, part |-> 1]

-----------------------------------------------------------------------------
(* The scripts.                                                             *)

Scan == <<"scan", "transactions">>
Wipe(t) == <<"wipe", t>>
Write(t) == <<"write", t>>
Cursor(c) == <<"cursor", c>>

\* Mutant of ExchangeScript: the old rows of the day are not deleted.
ExchangeWithoutDelete == <<Scan, Write("regular")>>

\* DoExchangeStatistics: it deletes every row of the day.
ExchangeScript == <<Scan, Wipe("exchange"), Write("regular")>>

\* Mutant of FlushScript: a missing table is found out by the scan.
FlushMissing(d) ==
  <<Scan, Wipe("daily"), Wipe("fee"), Write("fee"), Write("daily")>>
  \o ExchangeScript \o <<Cursor("flushed")>>

\* flushDailyStats: nothing is written for a day without transactions.
FlushScript(d) ==
  IF d \in Tracked[scope]
  THEN <<Scan, Wipe("daily"), Wipe("fee"), Write("fee"), Write("daily")>>
       \o ExchangeScript \o <<Cursor("flushed")>>
  ELSE <<Cursor("flushed")>>

\* countForDate.
CountScript ==
  <<Scan, Wipe("tokens"), Write("tokens"), Wipe("storage"), Write("storage"),
    Wipe("special"), Write("special")>>

\* The day after a Saturday ends an ISO week.
EndsWeek(d) == WeekOf[d + 1] # WeekOf[d]

\* countForWeek does not delete what an earlier attempt wrote.
WeekScript == <<Write("week"), Cursor("week")>>

Script(j, d) ==
  [flush |-> FlushScript(d),
   repair |-> ExchangeScript,
   manual |-> CountScript,
   count |-> CountScript \o <<Cursor("counted")>>
             \o IF EndsWeek(d) THEN WeekScript ELSE <<>>][j]

Statement(j) == Script(j, job[j].day)[job[j].step]
Busy(j) == job[j].step > 0

\* The jobs that abandon their day at the first error; the others go on.
Careful == {"flush", "repair"}

\* Rows are created one by one, and the four tables of a day are dropped and
\* filled one by one; one DELETE takes all rows of a day.
Parts(stmt) ==
  IF stmt[2] = "daily" \/ (stmt[1] = "write") THEN Size[stmt[2]] ELSE 1

\* Where a job is after its present statement.
After(j) ==
  IF job[j].part < Parts(Statement(j))
  THEN [job[j] EXCEPT !.part = @ + 1]
  ELSE IF job[j].step < Len(Script(j, job[j].day))
  THEN [step |-> job[j].step + 1, day |-> job[j].day, part |-> 1]
  ELSE Idle

FirstDay(w) == CHOOSE d \in Periods :
  WeekOf[d] = w /\ \A e \in Periods : WeekOf[e] = w => d <= e

\* The first day after the week of d; the bound stands for every later week.
NextWeek(d) ==
  LET later == {e \in Periods : WeekOf[e] > WeekOf[d]}
  IN IF later = {} THEN LastDay + 1 ELSE CHOOSE e \in later : \A f \in later : e <= f

-----------------------------------------------------------------------------
(* What a statement does to the database.                                   *)

Wiped(stmt) == IF stmt[2] = "exchange" THEN {"regular", "special"} ELSE {stmt[2]}

\* What is left of a day's rows of table t by statement p of a wipe.
Left(t, copies, p) ==
  [q \in 1..Size[t] |-> IF (t = "daily") /\ (q # p) THEN copies[q] ELSE 0]

Execute(j) ==
  LET stmt == Statement(j)
      d == job[j].day
      p == job[j].part
      period == IF stmt[2] = "week" THEN FirstDay(WeekOf[countedWeek]) ELSE d
  IN CASE stmt[1] = "scan" ->
            /\ d \in Tracked[scope]
            /\ UNCHANGED <<rows, metas>>
       [] stmt[1] = "wipe" ->
            /\ rows' = [t \in Tables |-> IF t \in Wiped(stmt)
                                         THEN [rows[t] EXCEPT ![d] = Left(t, @, p)]
                                         ELSE rows[t]]
            /\ UNCHANGED metas
       [] stmt[1] = "write" ->
            /\ rows[stmt[2]][period][p] < MaxCopies
            /\ rows' = [rows EXCEPT ![stmt[2]][period][p] = @ + 1]
            /\ UNCHANGED metas
       [] stmt[1] = "cursor" ->
            /\ metaFlushed' = IF stmt[2] = "flushed" THEN d ELSE metaFlushed
            /\ metaCounted' = IF stmt[2] = "counted" THEN d ELSE metaCounted
            /\ metaWeek' = IF stmt[2] = "week" THEN NextWeek(countedWeek) ELSE metaWeek
            /\ UNCHANGED rows

MoveOn(j) ==
  /\ job' = [job EXCEPT ![j] = After(j)]
  /\ flushedDate' = IF Statement(j) = Cursor("flushed") THEN job[j].day ELSE flushedDate
  /\ countedDate' = IF Statement(j) = Cursor("counted") THEN job[j].day ELSE countedDate
  /\ countedWeek' = IF Statement(j) = Cursor("week") THEN NextWeek(countedWeek)
                    ELSE countedWeek

Done(j) ==
  /\ Busy(j)
  /\ Execute(j)
  /\ MoveOn(j)
  /\ UNCHANGED <<scope, trackingDate, history>>

\* Mutant of Error: no job minds an error.
ErrorIgnored(j) ==
  /\ Busy(j)
  /\ UNCHANGED <<rows, metas>>
  /\ MoveOn(j)
  /\ UNCHANGED <<scope, trackingDate, history>>

Error(j) ==
  /\ Busy(j)
  /\ ((scope \in Lossy) /\ Execute(j)) \/ UNCHANGED <<rows, metas>>
  /\ IF j \in Careful
     THEN job' = [job EXCEPT ![j] = Idle] /\ UNCHANGED cursors
     ELSE MoveOn(j)
  /\ unnoticed' = (\/ unnoticed
                   \/ j \notin Careful /\ Statement(j)[1] \in {"wipe", "cursor"})
  /\ UNCHANGED <<scope, trackingDate, overlapped>>

-----------------------------------------------------------------------------
(* The beginning of a job, the passing of the days, and the end of the       *)
(* process.                                                                  *)

\* Jobs that write the same rows.
Rivals(j) == IF j \in {"flush", "repair"} THEN {"flush", "repair"} \ {j}
             ELSE {"count", "manual"} \ {j}

Begin(j, d) ==
  /\ j \in scope
  /\ ~Busy(j)
  /\ job' = [job EXCEPT ![j] = [step |-> 1, day |-> d, part |-> 1]]
  /\ overlapped' = IF \E k \in Rivals(j) : Busy(k) /\ job[k].day = d
                   THEN overlapped \cup {d} ELSE overlapped
  /\ UNCHANGED <<scope, trackingDate, cursors, metas, rows, unnoticed>>

\* Mutant of Due: the day that is being tracked is due.
DueEarly(cursor) == trackingDate - cursor >= 1

\* More than 24 hours lie between the day of the cursor and the tracked day.
Due(cursor) == trackingDate - cursor > 1

BeginFlush == Due(flushedDate) /\ Begin("flush", flushedDate + 1)
BeginCount == Due(countedDate) /\ Begin("count", countedDate + 1)

\* isRepairing lets one repair run at a time; manual counts are not restricted,
\* the model follows one of them.
BeginRepair(d) == d \in Asked /\ Begin("repair", d)
BeginManual(d) == d \in Asked /\ Begin("manual", d)

NewDay ==
  /\ trackingDate < LastDay
  /\ trackingDate' = trackingDate + 1
  /\ UNCHANGED <<scope, cursors, metas, job, rows, history>>

\* A kill, or an orderly end, after which New reads the cursors.
Restart ==
  /\ flushedDate' = metaFlushed
  /\ countedDate' = metaCounted
  /\ countedWeek' = metaWeek
  /\ job' = [j \in Jobs |-> Idle]
  /\ UNCHANGED <<scope, trackingDate, metas, rows, history>>

Init ==
  /\ scope \in Scopes
  /\ trackingDate = StartDate
  /\ flushedDate = StartDate - 1 /\ metaFlushed = StartDate - 1
  /\ countedDate = StartDate /\ metaCounted = StartDate
  /\ countedWeek = StartDate /\ metaWeek = StartDate
  /\ job = [j \in Jobs |-> Idle]
  /\ rows = [t \in Tables |-> [d \in Periods |-> [p \in 1..Size[t] |-> 0]]]
  /\ overlapped = {}
  /\ unnoticed = FALSE

Next ==
  \/ BeginFlush \/ BeginCount
  \/ \E d \in Days : BeginRepair(d) \/ BeginManual(d)
  \/ \E j \in Jobs : Done(j) \/ Error(j)
  \/ NewDay \/ Restart

Spec == Init /\ [][Next]_vars

\* The goroutine of the flush loop keeps running.
FairSpec == Spec /\ WF_vars(BeginFlush) /\ WF_vars(Done("flush"))

-----------------------------------------------------------------------------
Once(t, d) == \A p \in 1..Size[t] : rows[t][d][p] = 1

\* The stored cursor of the flush certifies its day, whatever failed, was
\* retried or was interrupted by a crash: the per-day tables and the fees are
\* there, complete and once, and so are the exchange statistics unless a repair
\* works, or has failed, on the day ("the caller can gate cursor advance on
\* success", db.go:2778).  Where the answer to the cursor's update is lost a
\* crash may leave the certified day dropped: such behaviours are left out.
FlushedComplete ==
  (scope \notin Lossy) => \A d \in Tracked[scope] :
    d <= metaFlushed =>
      /\ Once("daily", d) /\ Once("fee", d)
      /\ Once("regular", d) \/ ("repair" \in scope /\ d \in Asked)

AtMostOnce(t, d) == \A p \in 1..Size[t] : rows[t][d][p] <= 1

\* Statistics, whose readers add up what they find, are doubled only on a day
\* on which two jobs overlapped, or where a failed deletion was ignored.
RowsOnce ==
  \A d \in Days \ overlapped :
    /\ AtMostOnce("regular", d)
    /\ ~unnoticed =>
         \A t \in {"tokens", "storage", "special"} : AtMostOnce(t, d)

\* Writing a day's statistics is idempotent ("writes cache to DB idempotently",
\* db.go:2775): however often it is done, every row is there at most once.
FlushIdempotent ==
  \A t \in {"daily", "fee", "regular"}, d \in Days : AtMostOnce(t, d)

\* The loops work on days that the tracker has left: no statistic of theirs
\* comes from a table that still grows.  And a week is counted when all of its
\* days are finished, also when a crash has put the weeks behind the days;
\* unless the update of counted_date failed unnoticed, after which a restart
\* counts a Sunday, and a week, once more.
OnlyFinishedDays ==
  /\ \A j \in {"flush", "count"} : Busy(j) => job[j].day < trackingDate
  /\ metaFlushed < trackingDate
  /\ ~unnoticed =>
       \A d, e \in Days :
         /\ WeekOf[d] = WeekOf[e]
         /\ d = FirstDay(WeekOf[d])
         /\ \E p \in 1..Size["week"] : rows["week"][d][p] > 0
         => e < trackingDate

\* Once restarts and errors have ended the flush catches up with the tracker,
\* whatever they left half done; in particular a day without transactions does
\* not stall the cursor (db.go:2749).
FlushCatchesUp ==
  ("flush" \in scope) /\ <>[][~Restart /\ ~Error("flush")]_vars
    => []<>(metaFlushed = trackingDate - 1)

=============================================================================
