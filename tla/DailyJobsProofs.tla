--------------------------- MODULE DailyJobsProofs ---------------------------
(***************************************************************************)
(* Proofs about the jobs that derive the daily statistics: a stored cursor  *)
(* certifies complete days, rows are not doubled, and only finished days    *)
(* and weeks are worked on, for all numbers of days, tables and parts.      *)
(*                                                                         *)
(* A script is a tuple that is put together from others.  The first lemmas  *)
(* say which statement is at which place of it, so that the others need     *)
(* not look into the scripts; Effect says what any statement does to any    *)
(* cell of any table.  The invariant is then kept by the steps of a job     *)
(* (a lemma for each of its parts) and by the other actions (a lemma each). *)
(***************************************************************************)
EXTENDS DailyJobs, SetLemmas

-----------------------------------------------------------------------------
(* The scripts, statement by statement.                                     *)

LEMMA FlushSteps ==
  ASSUME NEW d, d \in Tracked[scope]
  PROVE  /\ Len(Script("flush", d)) = 9
         /\ Script("flush", d)[1] = Scan
         /\ Script("flush", d)[2] = Wipe("daily")
         /\ Script("flush", d)[3] = Wipe("fee")
         /\ Script("flush", d)[4] = Write("fee")
         /\ Script("flush", d)[5] = Write("daily")
         /\ Script("flush", d)[6] = Scan
         /\ Script("flush", d)[7] = Wipe("exchange")
         /\ Script("flush", d)[8] = Write("regular")
         /\ Script("flush", d)[9] = Cursor("flushed")
  BY DEF Script, FlushScript, ExchangeScript

LEMMA FlushNothing ==
  ASSUME NEW d, d \notin Tracked[scope]
  PROVE  /\ Len(Script("flush", d)) = 1
         /\ Script("flush", d)[1] = Cursor("flushed")
  BY DEF Script, FlushScript

LEMMA RepairSteps ==
  ASSUME NEW d
  PROVE  /\ Len(Script("repair", d)) = 3
         /\ Script("repair", d)[1] = Scan
         /\ Script("repair", d)[2] = Wipe("exchange")
         /\ Script("repair", d)[3] = Write("regular")
  BY DEF Script, ExchangeScript

LEMMA ManualSteps ==
  ASSUME NEW d
  PROVE  /\ Len(Script("manual", d)) = 7
         /\ Script("manual", d)[1] = Scan
         /\ Script("manual", d)[2] = Wipe("tokens")
         /\ Script("manual", d)[3] = Write("tokens")
         /\ Script("manual", d)[4] = Wipe("storage")
         /\ Script("manual", d)[5] = Write("storage")
         /\ Script("manual", d)[6] = Wipe("special")
         /\ Script("manual", d)[7] = Write("special")
  BY DEF Script, CountScript

LEMMA CountSteps ==
  ASSUME NEW d
  PROVE  /\ Len(Script("count", d)) = IF EndsWeek(d) THEN 10 ELSE 8
         /\ Script("count", d)[1] = Scan
         /\ Script("count", d)[2] = Wipe("tokens")
         /\ Script("count", d)[3] = Write("tokens")
         /\ Script("count", d)[4] = Wipe("storage")
         /\ Script("count", d)[5] = Write("storage")
         /\ Script("count", d)[6] = Wipe("special")
         /\ Script("count", d)[7] = Write("special")
         /\ Script("count", d)[8] = Cursor("counted")
         /\ EndsWeek(d) => /\ Script("count", d)[9] = Write("week")
                           /\ Script("count", d)[10] = Cursor("week")
  BY DEF Script, CountScript, WeekScript

LEMMA ScriptKept ==
  ASSUME scope' = scope, NEW j, job'[j].day = job[j].day
  PROVE  /\ Script(j, job[j].day)' = Script(j, job[j].day)
         /\ Statement(j)' = Script(j, job[j].day)[job'[j].step]
  BY DEF Script, FlushScript, Statement

Cursors == {"flushed", "counted", "week"}

LEMMA StatementKinds ==
  ASSUME NEW j \in Jobs, NEW d, NEW k \in 1..Len(Script(j, d))
  PROVE  \/ Script(j, d)[k] = Scan
         \/ \E t \in Tables \cup {"exchange"} : Script(j, d)[k] = Wipe(t)
         \/ \E t \in Tables : Script(j, d)[k] = Write(t)
         \/ \E c \in Cursors : Script(j, d)[k] = Cursor(c)
<1> HIDE DEF Scan, Wipe, Write, Cursor
<1> USE DEF Tables, Cursors
<1>1. CASE j = "flush" /\ d \in Tracked[scope]
  <2>1. k \in 1..9
    BY <1>1, FlushSteps
  <2>2. \/ k = 1 \/ k = 2 \/ k = 3 \/ k = 4 \/ k = 5 \/ k = 6 \/ k = 7 \/ k = 8 \/ k = 9
    BY <2>1
  <2> QED
    BY <1>1, <2>2, FlushSteps, ZenonT(30)
<1>2. CASE j = "flush" /\ d \notin Tracked[scope]
  BY <1>2, FlushNothing
<1>3. CASE j = "repair"
  BY <1>3, RepairSteps
<1>4. CASE j = "manual"
  <2>1. k \in 1..7
    BY <1>4, ManualSteps
  <2> QED
    BY <1>4, <2>1, ManualSteps
<1>5. CASE j = "count" /\ EndsWeek(d)
  <2>1. k \in 1..10
    BY <1>5, CountSteps
  <2> QED
    BY <1>5, <2>1, CountSteps, SMTT(30)
<1>6. CASE j = "count" /\ ~EndsWeek(d)
  <2>1. k \in 1..8
    BY <1>6, CountSteps
  <2> QED
    BY <1>6, <2>1, CountSteps
<1> QED
  BY <1>1, <1>2, <1>3, <1>4, <1>5, <1>6 DEF Jobs

LEMMA ScriptLength ==
  ASSUME NEW j \in Jobs, NEW d
  PROVE  Len(Script(j, d)) \in Nat
  BY FlushSteps, FlushNothing, RepairSteps, ManualSteps, CountSteps DEF Jobs

\* Every statement of a script has a number of parts.
LEMMA StatementParts ==
  ASSUME NEW j \in Jobs, NEW d, NEW k \in 1..Len(Script(j, d))
  PROVE  Parts(Script(j, d)[k]) \in Nat /\ 1 <= Parts(Script(j, d)[k])
<1>1. \A t \in Tables : Size[t] \in Nat /\ 1 <= Size[t]
  BY TablesAssumption
<1> QED
  BY <1>1, StatementKinds, SMTT(30) DEF Parts, Scan, Wipe, Write, Cursor, Cursors, Tables

-----------------------------------------------------------------------------
(* Types, and where the jobs are.                                            *)

RowsOK ==
  /\ rows = [t \in Tables |-> rows[t]]
  /\ \A t \in Tables : rows[t] \in [Periods -> [1..Size[t] -> Nat]]

\* A job that works is at a statement of its script.
AtStatement(j) ==
  /\ job[j].step \in 1..Len(Script(j, job[j].day))
  /\ job[j].part \in 1..Parts(Statement(j))

TypeOK ==
  /\ scope \in Scopes
  /\ trackingDate \in Days
  /\ flushedDate \in Int /\ metaFlushed \in Int
  /\ countedDate \in Days /\ metaCounted \in Days
  /\ countedWeek \in Periods /\ metaWeek \in Periods
  /\ job \in [Jobs -> [step : Nat, day : Days, part : Nat]]
  /\ \A j \in Jobs : Busy(j) => AtStatement(j)
  /\ RowsOK
  /\ overlapped \subseteq Days
  /\ unnoticed \in BOOLEAN

\* A week has a first day, and that day is in it.
LEMMA FirstDayFacts ==
  ASSUME NEW d \in Periods
  PROVE  /\ FirstDay(WeekOf[d]) \in Periods
         /\ WeekOf[FirstDay(WeekOf[d])] = WeekOf[d]
<1> DEFINE S == {e \in Periods : WeekOf[e] = WeekOf[d]}
<1>1. S \subseteq Nat /\ S # {}
  BY DaysAssumption DEF Periods
<1>2. PICK m \in S : \A e \in S : m <= e
  <2> HIDE DEF S
  <2> QED
    BY <1>1, LeastElement
<1> QED
  BY <1>2 DEF FirstDay

\* What a statement makes of a cell of a table.
CellAfter(j, t, d, q) ==
  LET stmt == Statement(j)
      period == IF stmt[2] = "week" THEN FirstDay(WeekOf[countedWeek]) ELSE job[j].day
  IN  IF /\ stmt[1] = "wipe" /\ t \in Wiped(stmt) /\ d = job[j].day
         /\ (t = "daily") => (q = job[j].part)
      THEN 0
      ELSE IF stmt = Write(t) /\ d = period /\ q = job[j].part
           THEN rows[t][d][q] + 1
           ELSE rows[t][d][q]

CellsChange(j) ==
  \A t \in Tables : \A d \in Periods, q \in 1..Size[t] :
    rows'[t][d][q] = CellAfter(j, t, d, q)

\* One cell of a function of numbers is counted up.
LEMMA CountedUp ==
  ASSUME NEW S, NEW f \in [S -> Nat], NEW x
  PROVE  /\ [f EXCEPT ![x] = f[x] + 1] \in [S -> Nat]
         /\ \A y \in S : [f EXCEPT ![x] = f[x] + 1][y] = IF y = x THEN f[y] + 1 ELSE f[y]
<1>1. CASE x \in S
  BY <1>1
<1>2. CASE x \notin S
  BY <1>2
<1> QED
  BY <1>1, <1>2

LEMMA Effect ==
  ASSUME TypeOK, NEW j \in Jobs, Busy(j), Execute(j)
  PROVE  RowsOK' /\ CellsChange(j)
<1> DEFINE stmt == Statement(j)
           d0 == job[j].day
           p0 == job[j].part
           period == IF stmt[2] = "week" THEN FirstDay(WeekOf[countedWeek]) ELSE d0
<1>0. d0 \in Days /\ d0 \in Periods /\ p0 \in Nat /\ period \in Periods
  <2>1. d0 \in Days /\ d0 \in Periods /\ p0 \in Nat
    BY DaysAssumption DEF TypeOK, Days, Periods
  <2>2. FirstDay(WeekOf[countedWeek]) \in Periods
    BY FirstDayFacts DEF TypeOK
  <2> QED
    BY <2>1, <2>2
<1>1. CASE stmt = Scan
  BY <1>1 DEF Execute, Scan, CellsChange, CellAfter, TypeOK, RowsOK, Write
<1>2. ASSUME NEW t0 \in Tables \cup {"exchange"}, stmt = Wipe(t0)
      PROVE  RowsOK' /\ CellsChange(j)
  <2>1. rows' = [t \in Tables |-> IF t \in Wiped(stmt)
                                  THEN [rows[t] EXCEPT ![d0] = Left(t, rows[t][d0], p0)]
                                  ELSE rows[t]]
    BY <1>2 DEF Execute, Wipe
  <2>2. ASSUME NEW t \in Tables
        PROVE  /\ Left(t, rows[t][d0], p0) \in [1..Size[t] -> Nat]
               /\ rows'[t] \in [Periods -> [1..Size[t] -> Nat]]
    <3>1. rows[t] \in [Periods -> [1..Size[t] -> Nat]]
      BY DEF TypeOK, RowsOK
    <3>2. Left(t, rows[t][d0], p0) \in [1..Size[t] -> Nat]
      BY <3>1, <1>0 DEF Left
    <3> HIDE DEF stmt, d0, p0
    <3> QED
      BY <2>1, <3>1, <3>2
  <2>3. RowsOK'
    BY <2>1, <2>2 DEF RowsOK
  <2>4. ASSUME NEW t \in Tables, NEW d \in Periods, NEW q \in 1..Size[t]
        PROVE  rows'[t][d][q] = CellAfter(j, t, d, q)
    <3>1. rows[t] \in [Periods -> [1..Size[t] -> Nat]]
      BY DEF TypeOK, RowsOK
    <3>2. rows'[t][d] = IF t \in Wiped(stmt) /\ d = d0
                        THEN Left(t, rows[t][d0], p0) ELSE rows[t][d]
      <4> HIDE DEF stmt, d0, p0
      <4> QED
        BY <2>1, <3>1
    <3> QED
      BY <3>1, <3>2, <1>0, <1>2 DEF CellAfter, Left, Wipe, Write
  <2> QED
    BY <2>3, <2>4 DEF CellsChange
<1>3. ASSUME NEW t0 \in Tables, stmt = Write(t0)
      PROVE  RowsOK' /\ CellsChange(j)
  <2>1. rows' = [rows EXCEPT ![t0][period][p0] = @ + 1]
    BY <1>3 DEF Execute, Write
  <2>2. ASSUME NEW t \in Tables
        PROVE  /\ rows[t][period] \in [1..Size[t] -> Nat]
               /\ rows'[t] = IF t = t0
                            THEN [rows[t] EXCEPT ![period] =
                                    [rows[t][period] EXCEPT ![p0] = rows[t][period][p0] + 1]]
                            ELSE rows[t]
    <3>1. rows[t] \in [Periods -> [1..Size[t] -> Nat]] /\ t \in DOMAIN rows
      BY DEF TypeOK, RowsOK
    <3>2. rows[t][period] \in [1..Size[t] -> Nat]
      BY <1>0, <3>1
    <3> HIDE DEF period, p0
    <3> QED
      BY <2>1, <3>1, <3>2
  <2>3. ASSUME NEW t \in Tables
        PROVE  rows'[t] \in [Periods -> [1..Size[t] -> Nat]]
    <3>1. rows[t] \in [Periods -> [1..Size[t] -> Nat]]
      BY DEF TypeOK, RowsOK
    <3> HIDE DEF period, p0
    <3>2. [rows[t][period] EXCEPT ![p0] = rows[t][period][p0] + 1] \in [1..Size[t] -> Nat]
      BY <2>2, CountedUp
    <3> QED
      BY <2>2, <3>1, <3>2
  <2>4. RowsOK'
    <3> HIDE DEF period, p0
    <3>1. DOMAIN rows' = Tables
      BY <2>1 DEF TypeOK, RowsOK
    <3>2. rows' = [t \in Tables |-> rows'[t]]
      BY <2>1, <3>1 DEF TypeOK, RowsOK
    <3> QED
      BY <2>3, <3>2 DEF RowsOK
  <2>5. ASSUME NEW t \in Tables, NEW d \in Periods, NEW q \in 1..Size[t]
        PROVE  rows'[t][d][q] = CellAfter(j, t, d, q)
    <3>1. rows[t] \in [Periods -> [1..Size[t] -> Nat]]
      BY DEF TypeOK, RowsOK
    <3>2. rows'[t][d][q] = IF t = t0 /\ d = period /\ q = p0
                           THEN rows[t][d][q] + 1 ELSE rows[t][d][q]
      <4> HIDE DEF period, p0
      <4>1. rows'[t][d] = IF t = t0 /\ d = period
                          THEN [rows[t][d] EXCEPT ![p0] = rows[t][d][p0] + 1] ELSE rows[t][d]
        BY <2>2, <3>1
      <4>2. rows[t][d] \in [1..Size[t] -> Nat]
        BY <3>1
      <4>3. [rows[t][d] EXCEPT ![p0] = rows[t][d][p0] + 1][q]
              = IF q = p0 THEN rows[t][d][q] + 1 ELSE rows[t][d][q]
        BY <4>2, CountedUp
      <4> QED
        BY <4>1, <4>3
    <3> QED
      BY <3>2, <1>3 DEF CellAfter, Wipe, Write
  <2> QED
    BY <2>4, <2>5 DEF CellsChange
<1>4. ASSUME NEW c \in Cursors, stmt = Cursor(c)
      PROVE  RowsOK' /\ CellsChange(j)
  BY <1>4 DEF Execute, Cursor, CellsChange, CellAfter, TypeOK, RowsOK, Write
<1> QED
  <2>1. job[j].step \in 1..Len(Script(j, d0))
    BY DEF TypeOK, AtStatement
  <2> HIDE DEF stmt
  <2> QED
    BY <2>1, <1>1, <1>2, <1>3, <1>4, StatementKinds DEF Statement, stmt

-----------------------------------------------------------------------------
(* The inductive invariant.                                                 *)

\* Where the cursors are, and the days the jobs work on.
CursorsOK ==
  /\ StartDate - 1 <= flushedDate /\ flushedDate < trackingDate
  /\ StartDate - 1 <= metaFlushed /\ metaFlushed < trackingDate
  /\ Busy("flush") => job["flush"].day = flushedDate + 1 /\ flushedDate + 1 < trackingDate
  /\ Busy("count") =>
       /\ job["count"].day < trackingDate
       /\ job["count"].day = IF job["count"].step <= 8 THEN countedDate + 1 ELSE countedDate
  /\ Busy("repair") => ("repair" \in scope) /\ job["repair"].day \in Asked
  /\ (scope \notin Lossy) => (metaFlushed = flushedDate)

\* The week that is due is not ahead of the days, as long as no failed update
\* of a cursor went unnoticed.
WeekOK ==
  ~unnoticed =>
    /\ metaCounted = countedDate /\ metaWeek = countedWeek
    /\ WeekOf[countedWeek] <= WeekOf[countedDate + 1]
    /\ Busy("count") /\ job["count"].step > 8
         => EndsWeek(countedDate) /\ WeekOf[countedWeek] <= WeekOf[countedDate]

\* What a flush that works on a day with transactions has left in each table.
FlushDay == job["flush"].day
FlushStep == job["flush"].step
FlushPart == job["flush"].part
Untouched(d) == ~("repair" \in scope /\ d \in Asked)

DailyFilled ==
  \A q \in 1..Size["daily"] :
    /\ (FlushStep = 2 /\ q < FlushPart) \/ FlushStep \in 3..4 => rows["daily"][FlushDay][q] = 0
    /\ FlushStep = 5 => rows["daily"][FlushDay][q] = IF q < FlushPart THEN 1 ELSE 0
    /\ FlushStep > 5 => rows["daily"][FlushDay][q] = 1

FeeFilled ==
  \A q \in 1..Size["fee"] :
    /\ FlushStep = 4 => rows["fee"][FlushDay][q] = IF q < FlushPart THEN 1 ELSE 0
    /\ FlushStep > 4 => rows["fee"][FlushDay][q] = 1

RegularFilled ==
  \A q \in 1..Size["regular"] :
    /\ FlushStep = 8 => rows["regular"][FlushDay][q] = IF q < FlushPart THEN 1 ELSE 0
    /\ FlushStep > 8 => rows["regular"][FlushDay][q] = 1

FlushFills ==
  Busy("flush") /\ FlushDay \in Tracked[scope] =>
    DailyFilled /\ FeeFilled /\ (Untouched(FlushDay) => RegularFilled)

\* Rivals that work on the same day have been seen to.
RivalsMet ==
  \A j \in Jobs, k \in Jobs :
    k \in Rivals(j) /\ Busy(j) /\ Busy(k) /\ job[j].day = job[k].day
      => job[j].day \in overlapped

\* The statistics that are doubled at worst by rivals, or by a failed deletion.
Doubtful == {"regular", "tokens", "storage", "special"}
Trusted(t, d) == (d \notin overlapped) /\ (t = "regular" \/ ~unnoticed)

\* What a job is about to write is not there yet.
RoomAhead ==
  \A j \in Jobs, t \in Doubtful :
    Busy(j) /\ Statement(j) = Write(t) /\ Trusted(t, job[j].day) =>
      \A q \in 1..Size[t] : q >= job[j].part => rows[t][job[j].day][q] = 0

NothingTwice ==
  \A t \in Doubtful, d \in Days : Trusted(t, d) => AtMostOnce(t, d)

Inv ==
  /\ TypeOK /\ CursorsOK /\ WeekOK /\ FlushFills /\ RivalsMet
  /\ RoomAhead /\ NothingTwice /\ FlushedComplete /\ OnlyFinishedDays

-----------------------------------------------------------------------------
(* Which job is at which statement.                                         *)

LEMMA ConstantFacts ==
  /\ StartDate \in Nat /\ StartDate > 0 /\ LastDay \in Nat /\ StartDate <= LastDay
  /\ Asked \subseteq Days /\ Days \subseteq Periods
  /\ \A d \in Days : d \in Int /\ d + 1 \in Periods
  /\ \A t \in Tables : Size[t] \in Nat /\ 1 <= Size[t]
  /\ \A d \in Periods : WeekOf[d] \in Nat
  /\ \A d, e \in Periods : d <= e => WeekOf[d] <= WeekOf[e]
  BY DaysAssumption, TablesAssumption DEF Days, Periods

At(j, k, stmt) == job[j].step = k /\ Statement(j) = stmt

LEMMA AtFlush ==
  ASSUME TypeOK, Busy("flush"), job["flush"].day \in Tracked[scope]
  PROVE  \/ At("flush", 1, Scan)
         \/ At("flush", 2, Wipe("daily"))
         \/ At("flush", 3, Wipe("fee"))
         \/ At("flush", 4, Write("fee"))
         \/ At("flush", 5, Write("daily"))
         \/ At("flush", 6, Scan)
         \/ At("flush", 7, Wipe("exchange"))
         \/ At("flush", 8, Write("regular"))
         \/ At("flush", 9, Cursor("flushed"))
<1> DEFINE k == job["flush"].step
<1>1. k \in 1..9 /\ Statement("flush") = Script("flush", job["flush"].day)[k]
  BY FlushSteps DEF TypeOK, AtStatement, Statement, Jobs
<1>2. k = 1 \/ k = 2 \/ k = 3 \/ k = 4 \/ k = 5 \/ k = 6 \/ k = 7 \/ k = 8 \/ k = 9
  BY <1>1
<1> HIDE DEF Scan, Wipe, Write, Cursor, Statement
<1> QED
  BY <1>1, <1>2, FlushSteps, ZenonT(30) DEF At

LEMMA AtNothing ==
  ASSUME TypeOK, Busy("flush"), job["flush"].day \notin Tracked[scope]
  PROVE  \/ At("flush", 1, Cursor("flushed"))
<1> DEFINE k == job["flush"].step
<1>1. k \in 1..1 /\ Statement("flush") = Script("flush", job["flush"].day)[k]
  BY FlushNothing DEF TypeOK, AtStatement, Statement, Jobs
<1>2. k = 1
  BY <1>1
<1> HIDE DEF Scan, Wipe, Write, Cursor, Statement
<1> QED
  BY <1>1, <1>2, FlushNothing, ZenonT(30) DEF At

LEMMA AtRepair ==
  ASSUME TypeOK, Busy("repair")
  PROVE  \/ At("repair", 1, Scan)
         \/ At("repair", 2, Wipe("exchange"))
         \/ At("repair", 3, Write("regular"))
<1> DEFINE k == job["repair"].step
<1>1. k \in 1..3 /\ Statement("repair") = Script("repair", job["repair"].day)[k]
  BY RepairSteps DEF TypeOK, AtStatement, Statement, Jobs
<1>2. k = 1 \/ k = 2 \/ k = 3
  BY <1>1
<1> HIDE DEF Scan, Wipe, Write, Cursor, Statement
<1> QED
  BY <1>1, <1>2, RepairSteps, ZenonT(30) DEF At

LEMMA AtManual ==
  ASSUME TypeOK, Busy("manual")
  PROVE  \/ At("manual", 1, Scan)
         \/ At("manual", 2, Wipe("tokens"))
         \/ At("manual", 3, Write("tokens"))
         \/ At("manual", 4, Wipe("storage"))
         \/ At("manual", 5, Write("storage"))
         \/ At("manual", 6, Wipe("special"))
         \/ At("manual", 7, Write("special"))
<1> DEFINE k == job["manual"].step
<1>1. k \in 1..7 /\ Statement("manual") = Script("manual", job["manual"].day)[k]
  BY ManualSteps DEF TypeOK, AtStatement, Statement, Jobs
<1>2. k = 1 \/ k = 2 \/ k = 3 \/ k = 4 \/ k = 5 \/ k = 6 \/ k = 7
  BY <1>1
<1> HIDE DEF Scan, Wipe, Write, Cursor, Statement
<1> QED
  BY <1>1, <1>2, ManualSteps, ZenonT(30) DEF At

LEMMA AtCount ==
  ASSUME TypeOK, Busy("count"), ~EndsWeek(job["count"].day)
  PROVE  \/ At("count", 1, Scan)
         \/ At("count", 2, Wipe("tokens"))
         \/ At("count", 3, Write("tokens"))
         \/ At("count", 4, Wipe("storage"))
         \/ At("count", 5, Write("storage"))
         \/ At("count", 6, Wipe("special"))
         \/ At("count", 7, Write("special"))
         \/ At("count", 8, Cursor("counted"))
<1> DEFINE k == job["count"].step
<1>1. k \in 1..8 /\ Statement("count") = Script("count", job["count"].day)[k]
  BY CountSteps DEF TypeOK, AtStatement, Statement, Jobs
<1>2. k = 1 \/ k = 2 \/ k = 3 \/ k = 4 \/ k = 5 \/ k = 6 \/ k = 7 \/ k = 8
  BY <1>1
<1> HIDE DEF Scan, Wipe, Write, Cursor, Statement
<1> QED
  BY <1>1, <1>2, CountSteps, ZenonT(30) DEF At

LEMMA AtWeek ==
  ASSUME TypeOK, Busy("count"), EndsWeek(job["count"].day)
  PROVE  \/ At("count", 1, Scan)
         \/ At("count", 2, Wipe("tokens"))
         \/ At("count", 3, Write("tokens"))
         \/ At("count", 4, Wipe("storage"))
         \/ At("count", 5, Write("storage"))
         \/ At("count", 6, Wipe("special"))
         \/ At("count", 7, Write("special"))
         \/ At("count", 8, Cursor("counted"))
         \/ At("count", 9, Write("week"))
         \/ At("count", 10, Cursor("week"))
<1> DEFINE k == job["count"].step
<1>1. k \in 1..10 /\ Statement("count") = Script("count", job["count"].day)[k]
  BY CountSteps DEF TypeOK, AtStatement, Statement, Jobs
<1>2. k = 1 \/ k = 2 \/ k = 3 \/ k = 4 \/ k = 5 \/ k = 6 \/ k = 7 \/ k = 8 \/ k = 9 \/ k = 10
  BY <1>1
<1> HIDE DEF Scan, Wipe, Write, Cursor, Statement
<1> QED
  BY <1>1, <1>2, CountSteps, ZenonT(30) DEF At

LEMMA WhoWrites ==
  ASSUME TypeOK, NEW j \in Jobs, Busy(j), NEW t \in Tables, Statement(j) = Write(t)
  PROVE  /\ t = "daily" => j = "flush" /\ FlushDay \in Tracked[scope] /\ FlushStep = 5
         /\ t = "fee" => j = "flush" /\ FlushDay \in Tracked[scope] /\ FlushStep = 4
         /\ t = "regular" => \/ j = "flush" /\ FlushDay \in Tracked[scope] /\ FlushStep = 8
                             \/ j = "repair" /\ job[j].step = 3
         /\ t = "tokens" => j \in {"count", "manual"} /\ job[j].step = 3
         /\ t = "storage" => j \in {"count", "manual"} /\ job[j].step = 5
         /\ t = "special" => j \in {"count", "manual"} /\ job[j].step = 7
         /\ t = "week" => j = "count" /\ job[j].step = 9 /\ EndsWeek(job[j].day)
<1> USE DEF At, Scan, Wipe, Write, Cursor, FlushDay, FlushStep
<1>1. CASE j = "flush" /\ job["flush"].day \in Tracked[scope]
  BY <1>1, AtFlush
<1>2. CASE j = "flush" /\ job["flush"].day \notin Tracked[scope]
  BY <1>2, AtNothing
<1>3. CASE j = "repair"
  BY <1>3, AtRepair
<1>4. CASE j = "manual"
  BY <1>4, AtManual
<1>5. CASE j = "count" /\ ~EndsWeek(job["count"].day)
  BY <1>5, AtCount
<1>6. CASE j = "count" /\ EndsWeek(job["count"].day)
  BY <1>6, AtWeek
<1> QED
  BY <1>1, <1>2, <1>3, <1>4, <1>5, <1>6 DEF Jobs

LEMMA WhoWipes ==
  ASSUME TypeOK, NEW j \in Jobs, Busy(j), NEW t \in Tables \cup {"exchange"},
         Statement(j) = Wipe(t)
  PROVE  /\ t = "daily" => j = "flush" /\ FlushDay \in Tracked[scope] /\ FlushStep = 2
         /\ t = "fee" => j = "flush" /\ FlushDay \in Tracked[scope] /\ FlushStep = 3
         /\ t = "exchange" => \/ j = "flush" /\ FlushDay \in Tracked[scope] /\ FlushStep = 7
                              \/ j = "repair" /\ job[j].step = 2
         /\ t # "regular" /\ t # "week"
         /\ t \in {"tokens", "storage", "special"} => j \in {"count", "manual"}
<1> USE DEF At, Scan, Wipe, Write, Cursor, FlushDay, FlushStep
<1>1. CASE j = "flush" /\ job["flush"].day \in Tracked[scope]
  BY <1>1, AtFlush
<1>2. CASE j = "flush" /\ job["flush"].day \notin Tracked[scope]
  BY <1>2, AtNothing
<1>3. CASE j = "repair"
  BY <1>3, AtRepair
<1>4. CASE j = "manual"
  BY <1>4, AtManual
<1>5. CASE j = "count" /\ ~EndsWeek(job["count"].day)
  BY <1>5, AtCount
<1>6. CASE j = "count" /\ EndsWeek(job["count"].day)
  BY <1>6, AtWeek
<1> QED
  BY <1>1, <1>2, <1>3, <1>4, <1>5, <1>6 DEF Jobs

LEMMA WhoMovesCursors ==
  ASSUME TypeOK, NEW j \in Jobs, Busy(j)
  PROVE  /\ Statement(j) = Cursor("flushed") =>
              j = "flush" /\ (FlushDay \in Tracked[scope] => FlushStep = 9)
         /\ Statement(j) = Cursor("counted") <=> (j = "count" /\ job[j].step = 8)
         /\ Statement(j) = Cursor("week") =>
              (j = "count" /\ job[j].step = 10 /\ EndsWeek(job[j].day))
<1> USE DEF At, Scan, Wipe, Write, Cursor, FlushDay, FlushStep
<1>1. CASE j = "flush" /\ job["flush"].day \in Tracked[scope]
  BY <1>1, AtFlush
<1>2. CASE j = "flush" /\ job["flush"].day \notin Tracked[scope]
  BY <1>2, AtNothing
<1>3. CASE j = "repair"
  BY <1>3, AtRepair
<1>4. CASE j = "manual"
  BY <1>4, AtManual
<1>5. CASE j = "count" /\ ~EndsWeek(job["count"].day)
  BY <1>5, AtCount
<1>6. CASE j = "count" /\ EndsWeek(job["count"].day)
  BY <1>6, AtWeek
<1> QED
  BY <1>1, <1>2, <1>3, <1>4, <1>5, <1>6 DEF Jobs

-----------------------------------------------------------------------------
(* A job's step.                                                            *)

\* The first day after a week, if there is one, comes before all other later days.
LEMMA NextWeekFacts ==
  ASSUME NEW d \in Periods
  PROVE  /\ NextWeek(d) \in Periods
         /\ \A e \in Periods : WeekOf[e] > WeekOf[d] => NextWeek(d) <= e
<1> DEFINE later == {e \in Periods : WeekOf[e] > WeekOf[d]}
<1>0. NextWeek(d) = IF later = {} THEN LastDay + 1
                    ELSE CHOOSE e \in later : \A f \in later : e <= f
  BY DEF NextWeek
<1>1. CASE later = {}
  <2>1. NextWeek(d) = LastDay + 1
    <3> HIDE DEF later
    <3> QED
      BY <1>0, <1>1
  <2> QED
    BY <1>1, <2>1, ConstantFacts DEF Periods
<1>2. CASE later # {}
  <2>1. later \subseteq Nat
    BY ConstantFacts DEF Periods
  <2>2. PICK m \in later : \A e \in later : m <= e
    <3> HIDE DEF later
    <3> QED
      BY <1>2, <2>1, LeastElement
  <2>3. NextWeek(d) \in later /\ \A e \in later : NextWeek(d) <= e
    <3> HIDE DEF later
    <3> QED
      BY <1>0, <1>2, <2>2
  <2> QED
    BY <2>3
<1> QED
  BY <1>1, <1>2

\* What executing a statement makes of the stored cursors.
LEMMA StoredCursors ==
  ASSUME TypeOK, NEW j \in Jobs, Busy(j), Execute(j)
  PROVE  /\ metaFlushed' = IF Statement(j) = Cursor("flushed") THEN job[j].day ELSE metaFlushed
         /\ metaCounted' = IF Statement(j) = Cursor("counted") THEN job[j].day ELSE metaCounted
         /\ metaWeek' = IF Statement(j) = Cursor("week") THEN NextWeek(countedWeek) ELSE metaWeek
<1>1. job[j].step \in 1..Len(Script(j, job[j].day))
  BY DEF TypeOK, AtStatement
<1>2. \/ Statement(j) = Scan
      \/ \E t \in Tables \cup {"exchange"} : Statement(j) = Wipe(t)
      \/ \E t \in Tables : Statement(j) = Write(t)
      \/ \E c \in Cursors : Statement(j) = Cursor(c)
  BY <1>1, StatementKinds DEF Statement
<1>3. ASSUME ~ \E c \in Cursors : Statement(j) = Cursor(c)
      PROVE  UNCHANGED metas
  <2>1. CASE Statement(j) = Scan
    BY <2>1 DEF Execute, Scan
  <2>2. ASSUME NEW t \in Tables \cup {"exchange"}, Statement(j) = Wipe(t)
        PROVE  UNCHANGED metas
    BY <2>2 DEF Execute, Wipe
  <2>3. ASSUME NEW t \in Tables, Statement(j) = Write(t)
        PROVE  UNCHANGED metas
    BY <2>3 DEF Execute, Write
  <2> QED
    BY <1>2, <1>3, <2>1, <2>2, <2>3
<1>4. ASSUME NEW c \in Cursors, Statement(j) = Cursor(c)
      PROVE  /\ metaFlushed' = IF c = "flushed" THEN job[j].day ELSE metaFlushed
             /\ metaCounted' = IF c = "counted" THEN job[j].day ELSE metaCounted
             /\ metaWeek' = IF c = "week" THEN NextWeek(countedWeek) ELSE metaWeek
  BY <1>4 DEF Execute, Cursor
<1> QED
  BY <1>3, <1>4 DEF Cursor, Cursors, metas

\* A job stays at its statement with the next part, goes to the next statement, or ends.
LEMMA AfterFacts ==
  ASSUME TypeOK, NEW j \in Jobs, Busy(j)
  PROVE  \/ /\ job[j].part < Parts(Statement(j))
            /\ After(j) = [job[j] EXCEPT !.part = job[j].part + 1]
         \/ /\ job[j].part = Parts(Statement(j))
            /\ job[j].step < Len(Script(j, job[j].day))
            /\ After(j) = [step |-> job[j].step + 1, day |-> job[j].day, part |-> 1]
         \/ /\ job[j].part = Parts(Statement(j))
            /\ job[j].step = Len(Script(j, job[j].day))
            /\ After(j) = Idle
<1> DEFINE J == job[j]
           parts == Parts(Statement(j))
           len == Len(Script(j, job[j].day))
<1>1. J.step \in 1..len /\ J.part \in 1..parts
  BY DEF TypeOK, AtStatement
<1>2. After(j) = IF J.part < parts THEN [J EXCEPT !.part = J.part + 1]
                 ELSE IF J.step < len THEN [step |-> J.step + 1, day |-> J.day, part |-> 1]
                 ELSE Idle
  BY DEF After
<1>3. len \in Nat /\ parts \in Nat
  BY <1>1, StatementParts, ScriptLength DEF Statement
<1>4. \/ /\ J.part < parts
         /\ After(j) = [J EXCEPT !.part = J.part + 1]
      \/ /\ J.part = parts
         /\ J.step < len
         /\ After(j) = [step |-> J.step + 1, day |-> J.day, part |-> 1]
      \/ /\ J.part = parts
         /\ J.step = len
         /\ After(j) = Idle
  <2> HIDE DEF J, parts, len
  <2> QED
    BY <1>1, <1>2, <1>3
<1> QED
  BY <1>4

JobsOK ==
  /\ job \in [Jobs -> [step : Nat, day : Days, part : Nat]]
  /\ \A j \in Jobs : Busy(j) => AtStatement(j)

\* How a step of a job that is at a statement may go.
Executes(j) == Execute(j) /\ MoveOn(j)
Skips(j) ==
  /\ MoveOn(j) /\ UNCHANGED <<rows, metas>>
  /\ j \notin Careful
  /\ Statement(j)[1] \in {"wipe", "cursor"} => unnoticed'
GivesUp(j) ==
  /\ job' = [job EXCEPT ![j] = Idle] /\ UNCHANGED cursors
  /\ j \in Careful
  /\ (scope \in Lossy /\ Execute(j)) \/ UNCHANGED <<rows, metas>>

LEMMA StepKinds ==
  ASSUME TypeOK, NEW j \in Jobs, Done(j) \/ Error(j)
  PROVE  /\ Busy(j)
         /\ scope' = scope /\ trackingDate' = trackingDate /\ overlapped' = overlapped
         /\ unnoticed' \in BOOLEAN /\ (unnoticed => unnoticed')
         /\ Executes(j) \/ Skips(j) \/ GivesUp(j)
<1>1. CASE Done(j)
  BY <1>1 DEF Done, Executes, history, TypeOK
<1>2. CASE Error(j)
  <2>1. unnoticed' \in BOOLEAN
    BY <1>2 DEF Error
  <2>2. unnoticed => unnoticed'
    BY <1>2 DEF Error
  <2>3. Executes(j) \/ Skips(j) \/ GivesUp(j)
    BY <1>2 DEF Error, Executes, Skips, GivesUp
  <2> QED
    BY <1>2, <2>1, <2>2, <2>3 DEF Error
<1> QED
  BY <1>1, <1>2

\* A job goes on with the next part, or with the next statement.
Continues(j) ==
  /\ job[j].part < Parts(Statement(j))
  /\ job'[j].step = job[j].step /\ job'[j].part = job[j].part + 1
  /\ Statement(j)' = Statement(j)

Advances(j) ==
  /\ job[j].part = Parts(Statement(j)) /\ job[j].step < Len(Script(j, job[j].day))
  /\ job'[j].step = job[j].step + 1 /\ job'[j].part = 1
  /\ Statement(j)' = Script(j, job[j].day)[job[j].step + 1]

LEMMA Positions ==
  ASSUME TypeOK, NEW j \in Jobs, Done(j) \/ Error(j)
  PROVE  /\ JobsOK'
         /\ \A k \in Jobs : k # j => /\ job'[k] = job[k] /\ Statement(k)' = Statement(k)
                                     /\ Busy(k)' = Busy(k)
         /\ Busy(j)' => /\ job'[j].day = job[j].day
                        /\ Continues(j) \/ Advances(j)
                        /\ Executes(j) \/ Skips(j)
         /\ Executes(j) \/ Skips(j) => job'[j] = After(j)
<1>0. /\ Busy(j) /\ scope' = scope
      /\ Executes(j) \/ Skips(j) \/ GivesUp(j)
  BY StepKinds
<1>1. job \in [Jobs -> [step : Nat, day : Days, part : Nat]]
  BY DEF TypeOK
<1>2. job' = [job EXCEPT ![j] = Idle] \/ job' = [job EXCEPT ![j] = After(j)]
  BY <1>0 DEF Executes, Skips, GivesUp, MoveOn
<1>3. \A k \in Jobs : k # j => job'[k] = job[k]
  BY <1>1, <1>2
<1>4. \A k \in Jobs : k # j => Statement(k)' = Statement(k) /\ Busy(k)' = Busy(k)
  BY <1>3, <1>0, ScriptKept DEF Statement, Busy
<1>5. Idle \in [step : Nat, day : Days, part : Nat] /\ Idle.step = 0
  BY ConstantFacts DEF Idle, Days
<1>6. job'[j] = Idle \/ job'[j] = After(j)
  BY <1>1, <1>2
<1>7. Executes(j) \/ Skips(j) => job'[j] = After(j)
  BY <1>1 DEF Executes, Skips, MoveOn
<1>8. Busy(j)' => Executes(j) \/ Skips(j)
  <2>1. GivesUp(j) => job'[j] = Idle
    BY <1>1 DEF GivesUp
  <2> QED
    BY <1>0, <1>5, <2>1 DEF Busy
<1>9. job'[j].day = job[j].day =>
        /\ Statement(j)' = Script(j, job[j].day)[job'[j].step]
        /\ Script(j, job[j].day)' = Script(j, job[j].day)
  BY <1>0, ScriptKept
<1>10. job[j] \in [step : Nat, day : Days, part : Nat] /\ AtStatement(j)
  BY <1>0, <1>1 DEF TypeOK
<1>11. ASSUME Busy(j)'
       PROVE  /\ job'[j].day = job[j].day
              /\ Continues(j) \/ Advances(j)
              /\ job'[j] \in [step : Nat, day : Days, part : Nat]
  <2>1. job'[j] = After(j) /\ After(j) # Idle
    BY <1>11, <1>6, <1>5 DEF Busy
  <2>2. CASE /\ job[j].part < Parts(Statement(j))
             /\ After(j) = [job[j] EXCEPT !.part = job[j].part + 1]
    <3>1. /\ job'[j].step = job[j].step /\ job'[j].day = job[j].day
          /\ job'[j].part = job[j].part + 1
      BY <2>1, <2>2, <1>10
    <3> QED
      BY <2>1, <2>2, <3>1, <1>9, <1>10 DEF Continues, Statement
  <2>3. CASE /\ job[j].part = Parts(Statement(j))
             /\ job[j].step < Len(Script(j, job[j].day))
             /\ After(j) = [step |-> job[j].step + 1, day |-> job[j].day, part |-> 1]
    BY <2>1, <2>3, <1>9, <1>10 DEF Advances
  <2> QED
    BY <2>1, <2>2, <2>3, <1>0, AfterFacts
<1>12. job' \in [Jobs -> [step : Nat, day : Days, part : Nat]]
  <2>1. job'[j] \in [step : Nat, day : Days, part : Nat]
    <3>1. After(j) = Idle \/ After(j).step > 0
      BY <1>0, <1>10, AfterFacts DEF AtStatement
    <3> QED
      BY <3>1, <1>5, <1>6, <1>11 DEF Busy
  <2> QED
    BY <1>1, <1>2, <2>1
<1>13. ASSUME NEW k \in Jobs, k # j, Busy(k)'
       PROVE  AtStatement(k)'
  <2>1. AtStatement(k)
    BY <1>4, <1>13 DEF TypeOK
  <2> QED
    BY <2>1, <1>0, <1>3, <1>4, <1>13, ScriptKept DEF AtStatement, Parts
<1>14. ASSUME Busy(j)'
       PROVE  AtStatement(j)'
  <2>1. Script(j, job[j].day)' = Script(j, job[j].day)
    BY <1>9, <1>11, <1>14
  <2>2. CASE Continues(j)
    <3>1. Parts(Statement(j)) \in Nat
      BY <1>10, StatementParts DEF AtStatement, Statement
    <3>2. Parts(Statement(j))' = Parts(Statement(j))
      BY <2>2 DEF Continues, Parts
    <3> QED
      BY <1>10, <2>1, <2>2, <3>1, <3>2 DEF Continues, AtStatement
  <2>3. CASE Advances(j)
    <3>1. job[j].step + 1 \in 1..Len(Script(j, job[j].day))
      BY <1>10, <2>3, ScriptLength DEF Advances, AtStatement
    <3>2. /\ Parts(Script(j, job[j].day)[job[j].step + 1]) \in Nat
          /\ 1 <= Parts(Script(j, job[j].day)[job[j].step + 1])
      BY <3>1, StatementParts
    <3> QED
      BY <2>1, <2>3, <3>1, <3>2 DEF Advances, AtStatement, Parts
  <2> QED
    BY <1>11, <1>14, <2>2, <2>3
<1> QED
  BY <1>3, <1>4, <1>7, <1>8, <1>11, <1>12, <1>13, <1>14 DEF JobsOK

\* What a step makes of the rows and of the stored cursors: what its statement
\* does, or nothing.
LEMMA Database ==
  ASSUME TypeOK, NEW j \in Jobs, Done(j) \/ Error(j)
  PROVE  /\ RowsOK'
         /\ CellsChange(j) \/ rows' = rows
         /\ Executes(j) => CellsChange(j)
         /\ Skips(j) => rows' = rows
         /\ (scope \notin Lossy) /\ GivesUp(j) => UNCHANGED <<rows, metas>>
<1>1. Busy(j) /\ (Executes(j) \/ Skips(j) \/ GivesUp(j))
  BY StepKinds
<1>2. ASSUME Execute(j)
      PROVE  RowsOK' /\ CellsChange(j)
  BY <1>1, <1>2, Effect
<1>3. ASSUME rows' = rows
      PROVE  RowsOK'
  BY <1>3 DEF TypeOK, RowsOK
<1> QED
  BY <1>1, <1>2, <1>3 DEF Executes, Skips, GivesUp

LEMMA StepTypes ==
  ASSUME TypeOK, NEW j \in Jobs, Done(j) \/ Error(j)
  PROVE  TypeOK'
<1>1. /\ Busy(j) /\ (Executes(j) \/ Skips(j) \/ GivesUp(j))
      /\ scope' = scope /\ trackingDate' = trackingDate /\ overlapped' = overlapped
      /\ unnoticed' \in BOOLEAN
  BY StepKinds
<1>2. JobsOK' /\ RowsOK'
  BY Positions, Database
<1>3. job[j].day \in Days /\ Days \subseteq Int /\ NextWeek(countedWeek) \in Periods
  BY NextWeekFacts, ConstantFacts DEF TypeOK
<1>4. flushedDate' \in Int /\ countedDate' \in Days /\ countedWeek' \in Periods
  <2>1. ASSUME MoveOn(j)
        PROVE  flushedDate' \in Int /\ countedDate' \in Days /\ countedWeek' \in Periods
    BY <2>1, <1>3 DEF MoveOn, TypeOK
  <2> QED
    BY <1>1, <2>1 DEF Executes, Skips, GivesUp, cursors, TypeOK
<1>5. metaFlushed' \in Int /\ metaCounted' \in Days /\ metaWeek' \in Periods
  <2>1. ASSUME Execute(j)
        PROVE  metaFlushed' \in Int /\ metaCounted' \in Days /\ metaWeek' \in Periods
    BY <2>1, <1>1, <1>3, StoredCursors DEF TypeOK
  <2> QED
    BY <1>1, <2>1 DEF Executes, Skips, GivesUp, metas, TypeOK
<1> QED
  BY <1>1, <1>2, <1>4, <1>5 DEF TypeOK, JobsOK

\* A count is at the statements that move its cursors where they are.
LEMMA CountAt ==
  ASSUME TypeOK, Busy("count")
  PROVE  /\ job["count"].step \in 1..10
         /\ job["count"].step >= 8 => Statement("count")[1] # "scan"
         /\ job["count"].step > 8 => EndsWeek(job["count"].day)
         /\ job["count"].step = 8 => Statement("count") = Cursor("counted")
         /\ job["count"].step = 9 => Statement("count") = Write("week")
         /\ job["count"].step = 10 =>
              Statement("count") = Cursor("week") /\ Len(Script("count", job["count"].day)) = 10
<1>1. CASE EndsWeek(job["count"].day)
  BY <1>1, AtWeek, CountSteps DEF At, Write, Cursor
<1>2. CASE ~EndsWeek(job["count"].day)
  BY <1>2, AtCount, CountSteps DEF At, Write, Cursor
<1> QED
  BY <1>1, <1>2

\* The last statement of a flush is its cursor's.
LEMMA FlushEnds ==
  ASSUME TypeOK, Busy("flush"), Statement("flush") = Cursor("flushed")
  PROVE  /\ job["flush"].step = Len(Script("flush", job["flush"].day))
         /\ Parts(Statement("flush")) = 1
<1>1. Parts(Statement("flush")) = 1
  BY DEF Parts, Cursor
<1>2. CASE job["flush"].day \in Tracked[scope]
  <2>1. "flush" \in Jobs
    BY DEF Jobs
  <2>2. job["flush"].step = 9
    BY <1>2, <2>1, WhoMovesCursors DEF FlushDay, FlushStep
  <2> QED
    BY <1>1, <1>2, <2>2, FlushSteps
<1>3. CASE job["flush"].day \notin Tracked[scope]
  <2>1. job["flush"].step = 1
    BY <1>3, AtNothing DEF At
  <2> QED
    BY <1>1, <1>3, <2>1, FlushNothing
<1> QED
  BY <1>2, <1>3

LEMMA StepCursors ==
  ASSUME TypeOK, CursorsOK, NEW j \in Jobs, Done(j) \/ Error(j)
  PROVE  CursorsOK'
<1>1. /\ Busy(j) /\ (Executes(j) \/ Skips(j) \/ GivesUp(j))
      /\ scope' = scope /\ trackingDate' = trackingDate
  BY StepKinds
<1>2. \A k \in Jobs : Busy(k)' => Busy(k) /\ job'[k].day = job[k].day
  BY <1>1, Positions
<1>3. flushedDate' = flushedDate
      \/ (flushedDate' = job[j].day /\ j = "flush" /\ Statement(j) = Cursor("flushed") /\ MoveOn(j))
  <2>1. MoveOn(j) \/ UNCHANGED cursors
    BY <1>1 DEF Executes, Skips, GivesUp
  <2> QED
    BY <1>1, <2>1, WhoMovesCursors DEF MoveOn, cursors
<1>4. metaFlushed' = metaFlushed \/ (metaFlushed' = job[j].day /\ j = "flush")
  <2>1. Execute(j) \/ UNCHANGED metas
    BY <1>1 DEF Executes, Skips, GivesUp
  <2> QED
    BY <1>1, <2>1, WhoMovesCursors, StoredCursors DEF metas
<1>5. flushedDate' = flushedDate + 1 /\ flushedDate' < trackingDate => ~Busy("flush")'
  <2>1. CASE flushedDate' = flushedDate
    BY <2>1 DEF TypeOK
  <2>2. CASE j = "flush" /\ Statement(j) = Cursor("flushed") /\ MoveOn(j)
    <3>1. job[j].step = Len(Script(j, job[j].day)) /\ Parts(Statement(j)) = 1
      BY <1>1, <2>2, FlushEnds
    <3>2. job[j].part \in 1..1
      BY <1>1, <3>1 DEF TypeOK, AtStatement
    <3> QED
      BY <1>1, <2>2, <3>1, <3>2, Positions DEF Continues, Advances
  <2> QED
    BY <1>3, <2>1, <2>2
<1>6. ASSUME Busy("count")'
      PROVE  job'["count"].day = IF job'["count"].step <= 8 THEN countedDate' + 1 ELSE countedDate'
  <2>1. Busy("count") /\ job'["count"].day = job["count"].day
    BY <1>2, <1>6 DEF Jobs
  <2>2. job["count"].day \in Nat /\ countedDate \in Nat
    BY ConstantFacts DEF TypeOK, Days, Jobs
  <2>3. CASE j # "count"
    <3>1. countedDate' = countedDate /\ job'["count"] = job["count"]
      <4>1. Statement(j) # Cursor("counted")
        BY <1>1, <2>3, WhoMovesCursors
      <4> QED
        BY <1>1, <2>3, <4>1, Positions DEF Executes, Skips, GivesUp, MoveOn, cursors, Jobs
    <3> QED
      BY <2>1, <3>1 DEF CursorsOK
  <2>4. CASE j = "count"
    <3>1. (Continues(j) \/ Advances(j)) /\ MoveOn(j)
      BY <1>6, <2>4, Positions DEF Executes, Skips
    <3>2. countedDate' = IF job[j].step = 8 THEN job[j].day ELSE countedDate
      BY <1>1, <2>4, <3>1, WhoMovesCursors DEF MoveOn
    <3>3. job[j].step = 8 => Advances(j)
      <4>1. job[j].step = 8 => Parts(Statement(j)) = 1
        BY <1>1, <2>4, CountAt DEF Parts, Cursor
      <4>2. job[j].part \in 1..Parts(Statement(j))
        BY <1>1 DEF TypeOK, AtStatement
      <4> QED
        BY <3>1, <4>1, <4>2 DEF Continues
    <3>4. job[j].step \in Nat
      BY DEF TypeOK
    <3> QED
      BY <2>1, <2>2, <2>4, <3>1, <3>2, <3>3, <3>4 DEF CursorsOK, Continues, Advances
  <2> QED
    BY <2>3, <2>4
<1>7. (scope \notin Lossy) => metaFlushed' = flushedDate'
  <2>1. CASE Executes(j)
    BY <1>1, <2>1, StoredCursors DEF Executes, MoveOn, CursorsOK
  <2>2. CASE Skips(j)
    <3>1. Statement(j) # Cursor("flushed")
      BY <1>1, <2>2, WhoMovesCursors DEF Skips, Careful
    <3> QED
      BY <2>2, <3>1 DEF Skips, MoveOn, metas, CursorsOK
  <2>3. CASE GivesUp(j)
    BY <2>3, Database DEF GivesUp, cursors, metas, CursorsOK
  <2> QED
    BY <1>1, <2>1, <2>2, <2>3
<1>8. Busy("count")' => job'["count"].day < trackingDate'
  BY <1>1, <1>2 DEF CursorsOK, Jobs
<1>9. Busy("repair")' => ("repair" \in scope') /\ job'["repair"].day \in Asked
  BY <1>1, <1>2 DEF CursorsOK, Jobs
<1>10. /\ StartDate - 1 <= flushedDate' /\ flushedDate' < trackingDate'
       /\ StartDate - 1 <= metaFlushed' /\ metaFlushed' < trackingDate'
       /\ flushedDate' = flushedDate \/ (flushedDate' = flushedDate + 1 /\ flushedDate' < trackingDate)
  BY <1>1, <1>3, <1>4, ConstantFacts DEF CursorsOK, TypeOK
<1>11. Busy("flush")' => job'["flush"].day = flushedDate' + 1 /\ flushedDate' + 1 < trackingDate'
  BY <1>1, <1>2, <1>5, <1>10 DEF CursorsOK, Jobs
<1> QED
  BY <1>1, <1>6, <1>7, <1>8, <1>9, <1>10, <1>11 DEF CursorsOK

LEMMA StepWeeks ==
  ASSUME TypeOK, CursorsOK, WeekOK, NEW j \in Jobs, Done(j) \/ Error(j)
  PROVE  WeekOK'
<1> SUFFICES ASSUME ~unnoticed'
             PROVE  /\ metaCounted' = countedDate' /\ metaWeek' = countedWeek'
                    /\ WeekOf[countedWeek'] <= WeekOf[countedDate' + 1]
                    /\ Busy("count")' /\ job'["count"].step > 8
                         => /\ WeekOf[countedDate' + 1] # WeekOf[countedDate']
                            /\ WeekOf[countedWeek'] <= WeekOf[countedDate']
  BY DEF WeekOK, EndsWeek
<1>1. /\ Busy(j) /\ (Executes(j) \/ Skips(j) \/ GivesUp(j))
      /\ ~unnoticed
      /\ scope' = scope /\ trackingDate' = trackingDate
  BY StepKinds
<1>2. /\ metaCounted = countedDate /\ metaWeek = countedWeek
      /\ WeekOf[countedWeek] <= WeekOf[countedDate + 1]
      /\ Busy("count") /\ job["count"].step > 8
           => /\ WeekOf[countedDate + 1] # WeekOf[countedDate]
              /\ WeekOf[countedWeek] <= WeekOf[countedDate]
  BY <1>1 DEF WeekOK, EndsWeek
<1>3. CASE ~(j = "count" /\ job[j].step \in {8, 10} /\ Executes(j))
  <2>1. Statement(j) \in {Cursor("counted"), Cursor("week")} => ~Executes(j) /\ ~Skips(j)
    <3>1. Statement(j) \in {Cursor("counted"), Cursor("week")} => j = "count" /\ job[j].step \in {8, 10}
      BY <1>1, WhoMovesCursors
    <3> QED
      BY <1>3, <3>1 DEF Skips, Cursor
  <2>2. UNCHANGED <<countedDate, countedWeek>>
    BY <1>1, <2>1 DEF Executes, Skips, GivesUp, MoveOn, cursors
  <2>3. UNCHANGED <<metaCounted, metaWeek>>
    <3>1. CASE Executes(j)
      BY <1>1, <2>1, <3>1, StoredCursors DEF Executes
    <3>2. CASE Skips(j)
      BY <3>2 DEF Skips, metas
    <3>3. CASE GivesUp(j)
      BY <1>1, <3>3, StoredCursors, WhoMovesCursors DEF GivesUp, Careful, metas
    <3> QED
      BY <1>1, <3>1, <3>2, <3>3
  <2>4. Busy("count")' /\ job'["count"].step > 8 => Busy("count") /\ job["count"].step > 8
    <3>1. CASE j # "count"
      BY <3>1, Positions DEF Jobs
    <3>2. CASE j = "count"
      <4> SUFFICES ASSUME Busy("count")', job'["count"].step > 8
                   PROVE  job["count"].step > 8
        BY <1>1, <3>2
      <4>1. (Continues(j) \/ Advances(j)) /\ (Executes(j) \/ Skips(j))
        BY <3>2, Positions
      <4>2. job["count"].step \in Nat
        BY DEF TypeOK, Jobs
      <4>3. job["count"].step # 8
        BY <1>1, <1>3, <3>2, <4>1, CountAt DEF Skips, Cursor
      <4> QED
        BY <3>2, <4>1, <4>2, <4>3 DEF Continues, Advances
    <3> QED
      BY <3>1, <3>2
  <2> QED
    BY <1>2, <2>2, <2>3, <2>4
<1>4. CASE j = "count" /\ job[j].step = 8 /\ Executes(j)
  <2>1. Statement(j) = Cursor("counted")
    BY <1>1, <1>4, CountAt
  <2>2. Statement(j) # Cursor("week")
    BY <2>1 DEF Cursor
  <2>3. job[j].day = countedDate + 1 /\ countedDate \in Days /\ job[j].day \in Days
    BY <1>1, <1>4, <2>1 DEF CursorsOK, TypeOK
  <2>4. /\ countedDate' = countedDate + 1 /\ countedWeek' = countedWeek
        /\ metaCounted' = countedDate + 1 /\ metaWeek' = metaWeek
    BY <1>1, <1>4, <2>1, <2>2, <2>3, StoredCursors DEF Executes, MoveOn
  <2>5. /\ countedDate + 1 \in Periods /\ countedDate + 1 + 1 \in Periods
        /\ countedDate + 1 <= countedDate + 1 + 1
    BY <2>3, ConstantFacts DEF Days, Periods
  <2>6. /\ WeekOf[countedWeek] \in Nat
        /\ WeekOf[countedDate + 1] <= WeekOf[countedDate + 1 + 1]
        /\ WeekOf[countedDate + 1] \in Nat /\ WeekOf[countedDate + 1 + 1] \in Nat
    BY <2>5, ConstantFacts DEF TypeOK
  <2>7. Busy("count")' /\ job'["count"].step > 8
          => WeekOf[countedDate + 1 + 1] # WeekOf[countedDate + 1]
    <3> SUFFICES ASSUME Busy("count")', job'["count"].step > 8
                 PROVE  EndsWeek(countedDate + 1)
      BY DEF EndsWeek
    <3> DEFINE len == Len(Script("count", job["count"].day))
    <3>1. 8 < len
      <4>1. Continues(j) \/ Advances(j)
        BY <1>4, Positions
      <4>2. job["count"].step = 8
        BY <1>4
      <4> QED
        BY <1>4, <4>1, <4>2 DEF Continues, Advances
    <3>2. ASSUME ~EndsWeek(job["count"].day)
          PROVE  FALSE
      <4>1. len = 8
        BY <3>2, CountSteps
      <4> HIDE DEF len
      <4> QED
        BY <3>1, <4>1
    <3>3. EndsWeek(job["count"].day)
      BY <3>2
    <3>4. job["count"].day = countedDate + 1
      BY <1>4, <2>3
    <3> QED
      BY <3>3, <3>4, Zenon
  <2> QED
    BY <1>2, <2>4, <2>6, <2>7
<1>5. CASE j = "count" /\ job[j].step = 10 /\ Executes(j)
  <2>1. Statement(j) = Cursor("week") /\ Len(Script(j, job[j].day)) = 10
    BY <1>1, <1>5, CountAt
  <2>2. Statement(j) # Cursor("counted")
    BY <2>1 DEF Cursor
  <2>3. /\ countedDate' = countedDate /\ countedWeek' = NextWeek(countedWeek)
        /\ metaCounted' = metaCounted /\ metaWeek' = NextWeek(countedWeek)
    BY <1>1, <1>5, <2>1, <2>2, StoredCursors DEF Executes, MoveOn
  <2>4. /\ countedDate \in Periods /\ countedDate + 1 \in Periods /\ countedWeek \in Periods
        /\ countedDate <= countedDate + 1
    BY ConstantFacts DEF TypeOK
  <2>5. WeekOf[countedDate + 1] > WeekOf[countedWeek]
    BY <1>1, <1>2, <1>5, <2>4, ConstantFacts
  <2>6. NextWeek(countedWeek) \in Periods /\ NextWeek(countedWeek) <= countedDate + 1
    BY <2>4, <2>5, NextWeekFacts
  <2>7. WeekOf[NextWeek(countedWeek)] <= WeekOf[countedDate + 1]
    BY <2>4, <2>6, ConstantFacts
  <2>8. ~Busy("count")'
    <3>1. Parts(Statement(j)) = 1 /\ job[j].part \in 1..Parts(Statement(j))
      BY <1>1, <2>1 DEF Parts, Cursor, TypeOK, AtStatement
    <3> QED
      BY <1>5, <2>1, <3>1, Positions DEF Continues, Advances
  <2> QED
    BY <1>2, <2>3, <2>7, <2>8
<1> QED
  BY <1>3, <1>4, <1>5

LEMMA StepRivals ==
  ASSUME TypeOK, RivalsMet, NEW j \in Jobs, Done(j) \/ Error(j)
  PROVE  RivalsMet'
<1>1. overlapped' = overlapped
  BY StepKinds
<1>2. \A k \in Jobs : Busy(k)' => Busy(k) /\ job'[k].day = job[k].day
  BY StepKinds, Positions
<1> QED
  BY <1>1, <1>2 DEF RivalsMet, Rivals

\* Every write of doubtful statistics follows the deletion of the old rows.
LEMMA WipeFirst ==
  ASSUME NEW j \in Jobs, NEW d, NEW k \in Nat, NEW t \in Doubtful,
         k \in 1..Len(Script(j, d)), k + 1 \in 1..Len(Script(j, d)),
         Script(j, d)[k + 1] = Write(t)
  PROVE  Script(j, d)[k] = Wipe(IF t = "regular" THEN "exchange" ELSE t)
<1> USE DEF Scan, Wipe, Write, Cursor, Doubtful
<1>1. CASE j = "flush" /\ d \in Tracked[scope]
  <2>0. Len(Script(j, d)) = 9
    BY <1>1, FlushSteps
  <2>1. k \in 1..8
    BY <2>0
  <2> QED
    BY <1>1, <2>1, FlushSteps, SMTT(30)
<1>2. CASE j = "flush" /\ d \notin Tracked[scope]
  BY <1>2, FlushNothing
<1>3. CASE j = "repair"
  BY <1>3, RepairSteps
<1>4. CASE j = "manual"
  <2>1. k \in 1..6
    BY <1>4, ManualSteps, SMTT(30)
  <2> QED
    BY <1>4, <2>1, ManualSteps, SMTT(30)
<1>5. CASE j = "count" /\ EndsWeek(d)
  <2>1. k \in 1..9
    BY <1>5, CountSteps, SMTT(30)
  <2> QED
    BY <1>5, <2>1, CountSteps, SMTT(30)
<1>6. CASE j = "count" /\ ~EndsWeek(d)
  <2>1. k \in 1..7
    BY <1>6, CountSteps, SMTT(30)
  <2> QED
    BY <1>6, <2>1, CountSteps, SMTT(30)
<1> QED
  BY <1>1, <1>2, <1>3, <1>4, <1>5, <1>6 DEF Jobs

\* The cells of the doubtful tables that a step may count up, and those that it clears.
LEMMA DoubtfulCells ==
  ASSUME TypeOK, NEW j \in Jobs, Busy(j), NEW t \in Doubtful,
         NEW d \in Days, NEW q \in 1..Size[t]
  PROVE  /\ \/ CellAfter(j, t, d, q) = 0
            \/ CellAfter(j, t, d, q) = rows[t][d][q]
            \/ /\ CellAfter(j, t, d, q) = rows[t][d][q] + 1
               /\ Statement(j) = Write(t) /\ d = job[j].day /\ q = job[j].part
         /\ /\ Statement(j) = Wipe(IF t = "regular" THEN "exchange" ELSE t)
            /\ d = job[j].day
            => CellAfter(j, t, d, q) = 0
         /\ Statement(j) = Write(t) /\ q # job[j].part => CellAfter(j, t, d, q) = rows[t][d][q]
  BY DEF CellAfter, Wiped, Write, Wipe, Doubtful

LEMMA StepRoom ==
  ASSUME TypeOK, RivalsMet, RoomAhead, NEW j \in Jobs, Done(j) \/ Error(j)
  PROVE  RoomAhead'
<1>1. /\ Busy(j) /\ (Executes(j) \/ Skips(j) \/ GivesUp(j))
      /\ overlapped' = overlapped /\ (unnoticed => unnoticed')
  BY StepKinds
<1>2. CellsChange(j) \/ rows' = rows
  BY Database
<1>3. Doubtful \subseteq Tables /\ Days \subseteq Periods
  BY ConstantFacts DEF Doubtful, Tables
<1> SUFFICES ASSUME NEW k \in Jobs, NEW t \in Doubtful, Busy(k)',
                    Statement(k)' = Write(t), Trusted(t, job[k].day)',
                    NEW q \in 1..Size[t], q >= job'[k].part
             PROVE  rows'[t][job'[k].day][q] = 0
  BY DEF RoomAhead, Write
<1>4. /\ job'[k].day = job[k].day /\ Busy(k) /\ job[k].day \in Days
      /\ Trusted(t, job[k].day)
  <2>1. job'[k].day = job[k].day /\ Busy(k)
    BY <1>1, Positions
  <2>2. job[k].day \in Days
    BY DEF TypeOK
  <2> QED
    BY <1>1, <2>1, <2>2 DEF Trusted
<1>5. CASE k # j
  <2>1. Statement(k) = Write(t) /\ job'[k] = job[k]
    BY <1>5, Positions
  <2>2. rows[t][job[k].day][q] = 0
    BY <1>4, <2>1 DEF RoomAhead
  <2>3. ASSUME Statement(j) = Write(t), job[j].day = job[k].day
        PROVE  FALSE
    <3>1. k \in Rivals(j)
      BY <1>1, <1>3, <1>4, <1>5, <2>1, <2>3, WhoWrites DEF Rivals, Doubtful
    <3> QED
      BY <1>1, <1>4, <2>3, <3>1 DEF RivalsMet, Trusted
  <2> QED
    BY <1>1, <1>2, <1>3, <1>4, <2>1, <2>2, <2>3, DoubtfulCells DEF CellsChange
<1>6. CASE k = j /\ Continues(j)
  <2>1. Statement(j) = Write(t) /\ q # job[j].part /\ q >= job[j].part
    <3>1. job[j].part \in Nat
      BY DEF TypeOK
    <3> QED
      BY <1>6, <3>1 DEF Continues
  <2>2. rows[t][job[j].day][q] = 0
    BY <1>4, <1>6, <2>1 DEF RoomAhead
  <2> QED
    BY <1>1, <1>2, <1>3, <1>4, <1>6, <2>1, <2>2, DoubtfulCells DEF CellsChange
<1>7. CASE k = j /\ Advances(j)
  <2>1. Statement(j) = Wipe(IF t = "regular" THEN "exchange" ELSE t)
    <3>1. /\ job[j].step \in 1..Len(Script(j, job[j].day)) /\ job[j].step \in Nat
          /\ Statement(j) = Script(j, job[j].day)[job[j].step]
      BY <1>1 DEF TypeOK, AtStatement, Statement
    <3>2. job[j].step + 1 \in 1..Len(Script(j, job[j].day))
      BY <1>7, <3>1, ScriptLength DEF Advances
    <3>3. Script(j, job[j].day)[job[j].step + 1] = Write(t)
      BY <1>7 DEF Advances
    <3> QED
      BY <3>1, <3>2, <3>3, WipeFirst
  <2>2. Executes(j)
    <3>1. ASSUME Skips(j)
          PROVE  FALSE
      <4>1. t = "regular"
        BY <2>1, <3>1 DEF Skips, Wipe, Trusted
      <4> QED
        BY <1>1, <1>3, <2>1, <3>1, <4>1, WhoWipes DEF Skips, Careful, Tables
    <3> QED
      BY <1>7, <3>1, Positions
  <2> QED
    BY <1>1, <1>3, <1>4, <1>7, <2>1, <2>2, DoubtfulCells, Database DEF CellsChange
<1> QED
  BY <1>5, <1>6, <1>7, Positions

LEMMA StepNothingTwice ==
  ASSUME TypeOK, RoomAhead, NothingTwice, NEW j \in Jobs, Done(j) \/ Error(j)
  PROVE  NothingTwice'
<1>1. Busy(j) /\ overlapped' = overlapped /\ (unnoticed => unnoticed')
  BY StepKinds
<1>2. CellsChange(j) \/ rows' = rows
  BY Database
<1>3. Doubtful \subseteq Tables /\ Days \subseteq Periods
  BY ConstantFacts DEF Doubtful, Tables
<1> SUFFICES ASSUME NEW t \in Doubtful, NEW d \in Days, Trusted(t, d)', NEW q \in 1..Size[t]
             PROVE  rows'[t][d][q] <= 1
  BY DEF NothingTwice, AtMostOnce
<1>4. Trusted(t, d) /\ rows[t][d][q] <= 1
  BY <1>1 DEF Trusted, NothingTwice, AtMostOnce
<1>5. ASSUME Statement(j) = Write(t), d = job[j].day, q = job[j].part
      PROVE  rows[t][d][q] = 0
  BY <1>1, <1>4, <1>5 DEF RoomAhead
<1> QED
  BY <1>1, <1>2, <1>3, <1>4, <1>5, DoubtfulCells DEF CellsChange

\* The tables that a flush certifies are left alone by the other jobs, but for the
\* regular statistics of a day that is repaired.
Certified == {"daily", "fee", "regular"}

LEMMA OthersLeave ==
  ASSUME TypeOK, NEW j \in Jobs, Busy(j), NEW t \in Certified,
         NEW d \in Days, NEW q \in 1..Size[t],
         d # job[j].day \/ (j # "flush" /\ (t = "regular" => j # "repair"))
  PROVE  CellAfter(j, t, d, q) = rows[t][d][q]
<1> USE DEF Certified, Tables
<1>1. ASSUME NEW u \in Tables \cup {"exchange"}, Statement(j) = Wipe(u), d = job[j].day,
             t \in Wiped(Statement(j))
      PROVE  FALSE
  BY <1>1, WhoWipes DEF Wiped, Wipe
<1>2. ASSUME Statement(j) = Write(t), d = job[j].day
      PROVE  FALSE
  BY <1>2, WhoWrites
<1>3. job[j].step \in 1..Len(Script(j, job[j].day))
  BY DEF TypeOK, AtStatement
<1>4. \/ Statement(j) = Scan
      \/ \E u \in Tables \cup {"exchange"} : Statement(j) = Wipe(u)
      \/ \E u \in Tables : Statement(j) = Write(u)
      \/ \E c \in Cursors : Statement(j) = Cursor(c)
  BY <1>3, StatementKinds DEF Statement
<1>5. CASE Statement(j) = Scan
  BY <1>5 DEF CellAfter, Scan, Write
<1>6. ASSUME NEW u \in Tables \cup {"exchange"}, Statement(j) = Wipe(u)
      PROVE  CellAfter(j, t, d, q) = rows[t][d][q]
  BY <1>1, <1>6, SMTT(30) DEF CellAfter, Wipe, Write
<1>7. ASSUME NEW u \in Tables, Statement(j) = Write(u)
      PROVE  CellAfter(j, t, d, q) = rows[t][d][q]
  BY <1>2, <1>7, SMTT(30) DEF CellAfter, Write
<1>8. ASSUME NEW c \in Cursors, Statement(j) = Cursor(c)
      PROVE  CellAfter(j, t, d, q) = rows[t][d][q]
  BY <1>8, SMTT(30) DEF CellAfter, Cursor, Write
<1> QED
  BY <1>4, <1>5, <1>6, <1>7, <1>8

\* What each statement of a flush makes of the cells of its day.
LEMMA FlushCells ==
  ASSUME TypeOK, NEW q
  PROVE  /\ Statement("flush") \in {Scan, Cursor("flushed")} =>
              \A t \in Certified : CellAfter("flush", t, FlushDay, q) = rows[t][FlushDay][q]
         /\ Statement("flush") = Wipe("daily") =>
              CellAfter("flush", "daily", FlushDay, q)
                = IF q = FlushPart THEN 0 ELSE rows["daily"][FlushDay][q]
         /\ Statement("flush") = Wipe("fee") =>
              /\ CellAfter("flush", "daily", FlushDay, q) = rows["daily"][FlushDay][q]
              /\ CellAfter("flush", "fee", FlushDay, q) = 0
         /\ Statement("flush") = Wipe("exchange") =>
              /\ \A t \in {"daily", "fee"} :
                   CellAfter("flush", t, FlushDay, q) = rows[t][FlushDay][q]
              /\ CellAfter("flush", "regular", FlushDay, q) = 0
         /\ \A u \in Certified : Statement("flush") = Write(u) =>
              \A t \in Certified :
                CellAfter("flush", t, FlushDay, q)
                  = IF t = u /\ q = FlushPart THEN rows[t][FlushDay][q] + 1
                    ELSE rows[t][FlushDay][q]
  BY SMTT(30) DEF CellAfter, Wiped, Scan, Wipe, Write, Cursor, Certified, FlushDay, FlushPart

\* How many parts a flush's statements have.
LEMMA FlushParts ==
  /\ Parts(Scan) = 1 /\ Parts(Wipe("daily")) = Size["daily"] /\ Parts(Wipe("fee")) = 1
  /\ Parts(Write("fee")) = Size["fee"] /\ Parts(Write("daily")) = Size["daily"]
  /\ Parts(Wipe("exchange")) = 1 /\ Parts(Write("regular")) = Size["regular"]
  BY SMTT(30) DEF Parts, Scan, Wipe, Write

LEMMA FlushFillsOn ==
  ASSUME TypeOK, FlushFills, Done("flush"), Busy("flush")', FlushDay \in Tracked[scope]
  PROVE  DailyFilled' /\ FeeFilled' /\ (Untouched(FlushDay) => RegularFilled')
<1>1. Busy("flush") /\ Execute("flush") /\ "flush" \in Jobs
  BY DEF Done, Jobs
<1>2. /\ FlushDay' = FlushDay
      /\ Continues("flush") \/ Advances("flush")
  BY <1>1, Positions DEF FlushDay
<1>3. DailyFilled /\ FeeFilled /\ (Untouched(FlushDay) => RegularFilled)
  BY <1>1 DEF FlushFills
<1>4. FlushDay \in Days /\ FlushDay \in Periods /\ FlushStep \in Nat /\ FlushPart \in Nat
  BY <1>1, ConstantFacts DEF TypeOK, FlushDay, FlushStep, FlushPart
<1>5. FlushPart \in 1..Parts(Statement("flush"))
  BY <1>1 DEF TypeOK, AtStatement, FlushPart
<1>6. \A t \in Certified : \A q \in 1..Size[t] :
        /\ rows'[t][FlushDay][q] = CellAfter("flush", t, FlushDay, q)
        /\ rows[t][FlushDay][q] \in Nat
  <2>1. CellsChange("flush")
    BY <1>1, Effect
  <2>2. ASSUME NEW t \in Certified
        PROVE  t \in Tables /\ rows[t] \in [Periods -> [1..Size[t] -> Nat]]
    BY DEF Certified, Tables, TypeOK, RowsOK
  <2>3. ASSUME NEW t \in Certified, NEW q \in 1..Size[t]
        PROVE  /\ rows'[t][FlushDay][q] = CellAfter("flush", t, FlushDay, q)
               /\ rows[t][FlushDay][q] \in Nat
    <3> HIDE DEF FlushDay
    <3> QED
      BY <1>4, <2>1, <2>2, ZenonT(30) DEF CellsChange
  <2> QED
    BY <2>3
<1>7. /\ Continues("flush") => FlushStep' = FlushStep /\ FlushPart' = FlushPart + 1
                               /\ FlushPart < Parts(Statement("flush"))
      /\ Advances("flush") => FlushStep' = FlushStep + 1 /\ FlushPart' = 1
                              /\ FlushPart = Parts(Statement("flush"))
  BY DEF Continues, Advances, FlushStep, FlushPart
<1>8. \A t \in Certified : Size[t] \in Nat
  BY ConstantFacts DEF Certified, Tables
<1> DEFINE Goal == DailyFilled' /\ FeeFilled' /\ (Untouched(FlushDay) => RegularFilled')
<1> USE DEF DailyFilled, FeeFilled, RegularFilled, At, Certified
<1> HIDE DEF FlushDay, FlushStep, FlushPart
<1>9. CASE At("flush", 1, Scan)
  <2>1. FlushStep = 1 /\ Statement("flush") = Scan
    BY <1>9 DEF FlushStep
  <2> QED
    BY <2>1, <1>2, <1>3, <1>4, <1>5, <1>6, <1>7, <1>8, FlushCells, FlushParts
<1>10. CASE At("flush", 2, Wipe("daily"))
  <2>1. FlushStep = 2 /\ Statement("flush") = Wipe("daily")
    BY <1>10 DEF FlushStep
  <2> QED
    BY <2>1, <1>2, <1>3, <1>4, <1>5, <1>6, <1>7, <1>8, FlushCells, FlushParts
<1>11. CASE At("flush", 3, Wipe("fee"))
  <2>1. FlushStep = 3 /\ Statement("flush") = Wipe("fee")
    BY <1>11 DEF FlushStep
  <2> QED
    BY <2>1, <1>2, <1>3, <1>4, <1>5, <1>6, <1>7, <1>8, FlushCells, FlushParts
<1>12. CASE At("flush", 4, Write("fee"))
  <2>1. FlushStep = 4 /\ Statement("flush") = Write("fee")
    BY <1>12 DEF FlushStep
  <2> QED
    BY <2>1, <1>2, <1>3, <1>4, <1>5, <1>6, <1>7, <1>8, FlushCells, FlushParts
<1>13. CASE At("flush", 5, Write("daily"))
  <2>1. FlushStep = 5 /\ Statement("flush") = Write("daily")
    BY <1>13 DEF FlushStep
  <2> QED
    BY <2>1, <1>2, <1>3, <1>4, <1>5, <1>6, <1>7, <1>8, FlushCells, FlushParts
<1>14. CASE At("flush", 6, Scan)
  <2>1. FlushStep = 6 /\ Statement("flush") = Scan
    BY <1>14 DEF FlushStep
  <2> QED
    BY <2>1, <1>2, <1>3, <1>4, <1>5, <1>6, <1>7, <1>8, FlushCells, FlushParts
<1>15. CASE At("flush", 7, Wipe("exchange"))
  <2>1. FlushStep = 7 /\ Statement("flush") = Wipe("exchange")
    BY <1>15 DEF FlushStep
  <2> QED
    BY <2>1, <1>2, <1>3, <1>4, <1>5, <1>6, <1>7, <1>8, FlushCells, FlushParts
<1>16. CASE At("flush", 8, Write("regular"))
  <2>1. FlushStep = 8 /\ Statement("flush") = Write("regular")
    BY <1>16 DEF FlushStep
  <2> QED
    BY <2>1, <1>2, <1>3, <1>4, <1>5, <1>6, <1>7, <1>8, FlushCells, FlushParts
<1>17. CASE At("flush", 9, Cursor("flushed"))
  <2>1. job["flush"].step = Len(Script("flush", job["flush"].day)) /\ FlushPart = 1
        /\ Parts(Statement("flush")) = 1
    BY <1>1, <1>5, <1>17, FlushEnds
  <2> QED
    BY <1>2, <2>1 DEF Continues, Advances, FlushPart
<1> QED
  BY <1>1, <1>9, <1>10, <1>11, <1>12, <1>13, <1>14, <1>15, <1>16, <1>17, AtFlush DEF FlushDay

LEMMA StepFills ==
  ASSUME TypeOK, CursorsOK, FlushFills, NEW j \in Jobs, Done(j) \/ Error(j)
  PROVE  FlushFills'
<1>1. /\ Busy(j) /\ (Executes(j) \/ Skips(j) \/ GivesUp(j))
      /\ scope' = scope
  BY StepKinds
<1> SUFFICES ASSUME Busy("flush")', FlushDay' \in Tracked[scope]
             PROVE  DailyFilled' /\ FeeFilled' /\ (Untouched(FlushDay') => RegularFilled')
  BY <1>1 DEF FlushFills, Untouched
<1>2. Busy("flush") /\ FlushDay' = FlushDay /\ FlushDay \in Tracked[scope] /\ FlushDay \in Days
  <2>1. Busy("flush") /\ FlushDay' = FlushDay
    BY <1>1, Positions DEF FlushDay, Jobs
  <2> QED
    BY <2>1 DEF TypeOK, FlushDay, Jobs
<1>3. CASE j = "flush"
  <2>1. Done("flush")
    <3>1. ASSUME Error("flush")
          PROVE  job' = [job EXCEPT !["flush"] = Idle]
      BY <3>1 DEF Error, Careful
    <3>2. ASSUME Error("flush")
          PROVE  ~Busy("flush")'
      BY <3>1, <3>2 DEF Idle, Busy, TypeOK, Jobs
    <3> QED
      BY <1>3, <3>2
  <2> QED
    BY <1>2, <2>1, FlushFillsOn
<1>4. CASE j # "flush"
  <2>1. FlushStep' = FlushStep /\ FlushPart' = FlushPart
    BY <1>4, Positions DEF FlushStep, FlushPart, Jobs
  <2>2. DailyFilled /\ FeeFilled /\ (Untouched(FlushDay) => RegularFilled)
    BY <1>2 DEF FlushFills
  <2>3. ASSUME NEW t \in Certified, NEW q \in 1..Size[t], t = "regular" => Untouched(FlushDay)
        PROVE  rows'[t][FlushDay][q] = rows[t][FlushDay][q]
    <3>1. t = "regular" /\ j = "repair" => FlushDay # job[j].day
      BY <1>1, <2>3 DEF Untouched, CursorsOK
    <3>2. CellAfter(j, t, FlushDay, q) = rows[t][FlushDay][q]
      BY <1>1, <1>2, <1>4, <3>1, OthersLeave
    <3>3. t \in Tables /\ FlushDay \in Periods
      BY <1>2, ConstantFacts DEF Certified, Tables
    <3> QED
      BY <3>2, <3>3, Database DEF CellsChange
  <2>4. DailyFilled' /\ FeeFilled'
    BY <1>2, <2>1, <2>2, <2>3 DEF DailyFilled, FeeFilled, Certified
  <2>5. Untouched(FlushDay) => RegularFilled'
    BY <1>2, <2>1, <2>2, <2>3 DEF RegularFilled, Certified
  <2> QED
    BY <1>2, <2>4, <2>5
<1> QED
  BY <1>3, <1>4

LEMMA StepComplete ==
  ASSUME TypeOK, CursorsOK, FlushFills, FlushedComplete, NEW j \in Jobs, Done(j) \/ Error(j)
  PROVE  FlushedComplete'
<1>1. /\ Busy(j) /\ (Executes(j) \/ Skips(j) \/ GivesUp(j))
      /\ scope' = scope
  BY StepKinds
<1> SUFFICES ASSUME scope \notin Lossy, NEW d \in Tracked[scope], d <= metaFlushed'
             PROVE  \A t \in Certified : (t = "regular" => Untouched(d)) =>
                      \A q \in 1..Size[t] : rows'[t][d][q] = 1
  BY <1>1 DEF FlushedComplete, Once, Certified, Untouched
<1>2. d \in Days /\ d \in Periods /\ d \in Int
  BY TablesAssumption, ConstantFacts DEF TypeOK
<1>3. CASE d <= metaFlushed
  <2>1. ASSUME NEW t \in Certified, t = "regular" => Untouched(d), NEW q \in 1..Size[t]
        PROVE  rows[t][d][q] = 1
    BY <1>3, <2>1 DEF FlushedComplete, Once, Certified, Untouched
  <2>2. j = "flush" => d # job[j].day
    BY <1>1, <1>2, <1>3 DEF CursorsOK, TypeOK
  <2>3. j = "repair" => d # job[j].day \/ ~Untouched(d)
    BY <1>1 DEF CursorsOK, Untouched
  <2>4. ASSUME NEW t \in Certified, t = "regular" => Untouched(d), NEW q \in 1..Size[t]
        PROVE  rows'[t][d][q] = rows[t][d][q]
    <3>1. CellAfter(j, t, d, q) = rows[t][d][q]
      BY <1>1, <1>2, <2>2, <2>3, <2>4, OthersLeave
    <3> QED
      BY <1>2, <3>1, Database DEF CellsChange, Certified, Tables
  <2> QED
    BY <2>1, <2>4
<1>4. CASE ~(d <= metaFlushed)
  <2>1. metaFlushed' # metaFlushed
    BY <1>4
  <2>2. Execute(j)
    BY <1>1, <2>1 DEF Executes, Skips, GivesUp, metas
  <2>3. Statement(j) = Cursor("flushed") /\ j = "flush" /\ metaFlushed' = job[j].day
    BY <1>1, <2>1, <2>2, StoredCursors, WhoMovesCursors
  <2>4. d = FlushDay
    <3>1. job[j].day = metaFlushed + 1
      BY <1>1, <2>3 DEF CursorsOK
    <3> QED
      BY <1>2, <1>4, <2>3, <3>1 DEF FlushDay, TypeOK
  <2>5. FlushStep = 9
    BY <1>1, <2>3, <2>4, WhoMovesCursors
  <2>6. ASSUME NEW t \in Certified, t = "regular" => Untouched(d), NEW q \in 1..Size[t]
        PROVE  rows[t][d][q] = 1
    <3>1. Busy("flush") /\ FlushDay \in Tracked[scope]
      BY <1>1, <2>3, <2>4
    <3> QED
      BY <2>4, <2>5, <2>6, <3>1 DEF FlushFills, DailyFilled, FeeFilled, RegularFilled, Certified
  <2>7. ASSUME NEW t \in Certified, NEW q \in 1..Size[t]
        PROVE  rows'[t][d][q] = rows[t][d][q]
    <3>1. CellAfter("flush", t, FlushDay, q) = rows[t][FlushDay][q]
      BY <2>3, FlushCells
    <3> QED
      BY <1>2, <2>3, <2>4, <3>1, Database DEF CellsChange, Certified, Tables
  <2> QED
    BY <2>6, <2>7
<1> QED
  BY <1>3, <1>4

LEMMA StepFinished ==
  ASSUME TypeOK, CursorsOK, WeekOK, OnlyFinishedDays, NEW j \in Jobs, Done(j) \/ Error(j)
  PROVE  OnlyFinishedDays'
<1>1. /\ Busy(j) /\ (Executes(j) \/ Skips(j) \/ GivesUp(j))
      /\ scope' = scope /\ trackingDate' = trackingDate /\ (unnoticed => unnoticed')
  BY StepKinds
<1>2. /\ \A k \in {"flush", "count"} : Busy(k)' => job'[k].day < trackingDate'
      /\ metaFlushed' < trackingDate'
  BY StepCursors, StepTypes DEF CursorsOK
<1> SUFFICES ASSUME ~unnoticed', NEW d \in Days, NEW e \in Days, WeekOf[d] = WeekOf[e],
                    d = FirstDay(WeekOf[d]),
                    NEW p \in 1..Size["week"], rows'["week"][d][p] > 0
             PROVE  e < trackingDate
  BY <1>1, <1>2 DEF OnlyFinishedDays
<1>3. CASE rows["week"][d][p] > 0
  BY <1>1, <1>3 DEF OnlyFinishedDays
<1>4. CASE ~(rows["week"][d][p] > 0)
  <2>1. CellAfter(j, "week", d, p) # rows["week"][d][p] /\ CellAfter(j, "week", d, p) > 0
    BY <1>4, Database, ConstantFacts DEF CellsChange, Tables
  <2>2. Statement(j) = Write("week") /\ d = FirstDay(WeekOf[countedWeek])
    BY <2>1 DEF CellAfter, Write
  <2>3. j = "count" /\ job[j].step = 9
    BY <1>1, <2>2, WhoWrites DEF Tables
  <2>4. /\ WeekOf[countedDate + 1] # WeekOf[countedDate]
        /\ WeekOf[countedWeek] <= WeekOf[countedDate]
    BY <1>1, <2>3 DEF WeekOK, EndsWeek
  <2>5. WeekOf[d] = WeekOf[countedWeek]
    BY <2>2, FirstDayFacts DEF TypeOK
  <2>6. /\ countedDate \in Periods /\ countedDate + 1 \in Periods /\ countedDate \in Int
        /\ e \in Periods /\ e \in Int /\ d \in Periods /\ countedWeek \in Periods
        /\ trackingDate \in Int
    BY ConstantFacts DEF TypeOK
  <2>7. ASSUME countedDate + 1 <= e
        PROVE  FALSE
    <3>1. WeekOf[countedDate + 1] <= WeekOf[e] /\ WeekOf[countedDate] <= WeekOf[countedDate + 1]
      BY <2>6, <2>7, ConstantFacts
    <3>2. /\ WeekOf[countedDate] \in Nat /\ WeekOf[countedDate + 1] \in Nat
          /\ WeekOf[e] \in Nat /\ WeekOf[d] \in Nat /\ WeekOf[countedWeek] \in Nat
      BY <2>6, ConstantFacts
    <3> QED
      BY <2>4, <2>5, <3>1, <3>2
  <2>8. countedDate < trackingDate
    BY <1>1, <2>3, <2>6 DEF CursorsOK
  <2> QED
    BY <2>6, <2>7, <2>8
<1> QED
  BY <1>3, <1>4

-----------------------------------------------------------------------------
(* The other actions.                                                        *)

LEMMA FirstStatement ==
  ASSUME NEW j \in Jobs, NEW d
  PROVE  /\ 1 \in 1..Len(Script(j, d))
         /\ Script(j, d)[1] \in {Scan, Cursor("flushed")}
         /\ Parts(Script(j, d)[1]) = 1
<1>1. Script(j, d)[1] \in {Scan, Cursor("flushed")}
  <2> HIDE DEF Scan, Cursor
  <2> QED
    BY FlushSteps, FlushNothing, RepairSteps, ManualSteps, CountSteps DEF Jobs
<1>2. 1 <= Len(Script(j, d))
  BY FlushSteps, FlushNothing, RepairSteps, ManualSteps, CountSteps, SMTT(30) DEF Jobs
<1>3. Parts(Script(j, d)[1]) = 1
  BY <1>1 DEF Parts, Scan, Cursor
<1> QED
  BY <1>1, <1>2, <1>3, ScriptLength

\* A job stays where it is where its scope and its record stay.
LEMMA JobKept ==
  ASSUME scope' = scope, NEW j, job'[j] = job[j]
  PROVE  /\ Busy(j)' = Busy(j) /\ Statement(j)' = Statement(j)
         /\ AtStatement(j)' <=> AtStatement(j)
<1>1. Script(j, job[j].day)' = Script(j, job[j].day) /\ Statement(j)' = Statement(j)
  BY ScriptKept DEF Statement
<1>2. Parts(Statement(j))' = Parts(Statement(j))
  BY <1>1 DEF Parts
<1>3. Busy(j)' = Busy(j)
  BY DEF Busy
<1>4. AtStatement(j)' <=> AtStatement(j)
  BY <1>1, <1>2 DEF AtStatement
<1> QED
  BY <1>1, <1>3, <1>4

LEMMA BeginKeeps ==
  ASSUME Inv, NEW j \in Jobs, NEW d \in Days, Begin(j, d),
         j = "flush" => d = flushedDate + 1 /\ d < trackingDate,
         j = "count" => d = countedDate + 1 /\ d < trackingDate,
         j = "repair" => d \in Asked
  PROVE  Inv'
<1> USE DEF Inv
<1>1. /\ j \in scope /\ ~Busy(j)
      /\ job' = [job EXCEPT ![j] = [step |-> 1, day |-> d, part |-> 1]]
      /\ UNCHANGED <<scope, trackingDate, cursors, metas, rows, unnoticed>>
      /\ overlapped \subseteq overlapped'
      /\ \A k \in Rivals(j) : Busy(k) /\ job[k].day = d => d \in overlapped'
      /\ overlapped' \subseteq overlapped \cup {d}
  BY DEF Begin
<1>2. job \in [Jobs -> [step : Nat, day : Days, part : Nat]]
  BY DEF TypeOK
<1>3. /\ job' \in [Jobs -> [step : Nat, day : Days, part : Nat]]
      /\ job'[j] = [step |-> 1, day |-> d, part |-> 1]
      /\ \A k \in Jobs : k # j => job'[k] = job[k]
  BY <1>1, <1>2
<1>4. /\ Script(j, job[j].day)' = Script(j, d)
      /\ Statement(j)' = Script(j, d)[1]
  <2>1. scope' = scope /\ job'[j].day = d /\ job'[j].step = 1
    BY <1>1, <1>3
  <2> QED
    BY <2>1 DEF Script, FlushScript, Statement
<1>5. \A k \in Jobs : k # j => /\ Busy(k)' = Busy(k) /\ Statement(k)' = Statement(k)
                               /\ AtStatement(k)' <=> AtStatement(k)
  BY <1>1, <1>3, JobKept
<1>6. Busy(j)' /\ AtStatement(j)'
  <2>1. Parts(Statement(j))' = 1
    BY <1>4, FirstStatement DEF Parts
  <2> QED
    BY <1>3, <1>4, <2>1, FirstStatement DEF Busy, AtStatement
<1>7. TypeOK'
  <2>1. RowsOK'
    BY <1>1 DEF TypeOK, RowsOK
  <2>2. \A k \in Jobs : Busy(k)' => AtStatement(k)'
    BY <1>5, <1>6 DEF TypeOK
  <2>3. overlapped' \subseteq Days
    BY <1>1 DEF TypeOK
  <2> QED
    BY <1>1, <1>3, <2>1, <2>2, <2>3 DEF TypeOK, cursors, metas
<1>8. CursorsOK'
  BY <1>1, <1>3, <1>5 DEF CursorsOK, cursors, metas, Jobs
<1>9. WeekOK'
  <2>1. job'["count"].step > 8 => job'["count"] = job["count"] /\ Busy("count")' = Busy("count")
    BY <1>3, <1>5 DEF Jobs
  <2> QED
    BY <1>1, <2>1 DEF WeekOK, EndsWeek, cursors, metas
<1>10. FlushFills'
  <2>1. CASE j = "flush"
    <3>1. FlushStep' = 1
      BY <1>3, <2>1 DEF FlushStep
    <3> QED
      BY <3>1 DEF FlushFills, DailyFilled, FeeFilled, RegularFilled
  <2>2. CASE j # "flush"
    <3>1. /\ FlushStep' = FlushStep /\ FlushDay' = FlushDay /\ FlushPart' = FlushPart
          /\ Busy("flush")' = Busy("flush")
      BY <1>3, <1>5, <2>2 DEF FlushStep, FlushDay, FlushPart, Jobs
    <3> QED
      BY <1>1, <3>1 DEF FlushFills, DailyFilled, FeeFilled, RegularFilled, Untouched
  <2> QED
    BY <2>1, <2>2
<1>11. RivalsMet'
  <2> SUFFICES ASSUME NEW k \in Jobs, NEW l \in Jobs, l \in Rivals(k),
                      Busy(k)', Busy(l)', job'[k].day = job'[l].day
               PROVE  job'[k].day \in overlapped'
    BY DEF RivalsMet, Rivals
  <2>1. k # l /\ k \in Rivals(l)
    BY DEF Rivals, Jobs
  <2>2. CASE k = j
    BY <1>1, <1>3, <1>5, <2>1, <2>2
  <2>3. CASE l = j
    BY <1>1, <1>3, <1>5, <2>1, <2>3
  <2>4. CASE k # j /\ l # j
    BY <1>1, <1>3, <1>5, <2>4 DEF RivalsMet
  <2> QED
    BY <2>2, <2>3, <2>4
<1>12. \A t \in Doubtful, e \in Days : Trusted(t, e)' => Trusted(t, e)
  BY <1>1 DEF Trusted
<1>13. RoomAhead'
  <2> SUFFICES ASSUME NEW k \in Jobs, NEW t \in Doubtful, Busy(k)',
                      Statement(k)' = Write(t), Trusted(t, job[k].day)',
                      NEW q \in 1..Size[t], q >= job'[k].part
               PROVE  rows'[t][job'[k].day][q] = 0
    BY DEF RoomAhead, Write
  <2>1. k # j
    BY <1>4, FirstStatement DEF Scan, Write, Cursor
  <2>2. Busy(k) /\ Statement(k) = Write(t) /\ job'[k] = job[k] /\ job[k].day \in Days
    BY <1>2, <1>3, <1>5, <2>1
  <2>3. Trusted(t, job[k].day)
    BY <1>1, <2>2 DEF Trusted
  <2> QED
    BY <1>1, <2>2, <2>3 DEF RoomAhead
<1>14. NothingTwice'
  BY <1>1, <1>12 DEF NothingTwice, AtMostOnce
<1>15. FlushedComplete'
  BY <1>1 DEF FlushedComplete, Once, metas
<1>16. OnlyFinishedDays'
  <2>1. \A k \in {"flush", "count"} : Busy(k)' => job'[k].day < trackingDate'
    BY <1>1, <1>8 DEF CursorsOK
  <2> QED
    BY <1>1, <2>1 DEF OnlyFinishedDays, metas
<1> QED
  BY <1>7, <1>8, <1>9, <1>10, <1>11, <1>13, <1>14, <1>15, <1>16

LEMMA StutterKeeps ==
  ASSUME Inv, UNCHANGED <<scope, cursors, metas, job, rows, history>>,
         trackingDate' \in Days, trackingDate <= trackingDate'
  PROVE  Inv'
<1> USE DEF Inv
<1>1. \A j \in Jobs : /\ Busy(j)' = Busy(j) /\ Statement(j)' = Statement(j)
                      /\ AtStatement(j)' <=> AtStatement(j)
  BY JobKept
<1>2. \A n \in Int : n < trackingDate => n < trackingDate'
  BY ConstantFacts DEF TypeOK
<1>3. TypeOK'
  <2>1. RowsOK'
    BY DEF TypeOK, RowsOK
  <2> QED
    BY <1>1, <2>1 DEF TypeOK, cursors, metas, history
<1>4. CursorsOK'
  <2>1. \A j \in Jobs : job[j].day \in Int
    BY ConstantFacts DEF TypeOK
  <2> QED
    BY <1>1, <1>2, <2>1 DEF CursorsOK, TypeOK, cursors, metas, Jobs
<1>5. WeekOK'
  BY <1>1 DEF WeekOK, EndsWeek, cursors, metas, history, Jobs
<1>6. FlushFills'
  BY <1>1 DEF FlushFills, DailyFilled, FeeFilled, RegularFilled, Untouched,
              FlushDay, FlushStep, FlushPart, Jobs
<1>7. RivalsMet'
  BY <1>1 DEF RivalsMet, Rivals, history
<1>8. RoomAhead'
  <2> SUFFICES ASSUME NEW k \in Jobs, NEW t \in Doubtful, Busy(k)',
                      Statement(k)' = Write(t), Trusted(t, job[k].day)',
                      NEW q \in 1..Size[t], q >= job'[k].part
               PROVE  rows'[t][job'[k].day][q] = 0
    BY DEF RoomAhead, Write
  <2> QED
    BY <1>1 DEF RoomAhead, Trusted, history
<1>9. NothingTwice'
  BY DEF NothingTwice, Trusted, AtMostOnce, history
<1>10. FlushedComplete'
  BY DEF FlushedComplete, Once, metas
<1>11. OnlyFinishedDays'
  <2>1. /\ \A k \in {"flush", "count"} : Busy(k)' => job'[k].day < trackingDate'
        /\ metaFlushed' < trackingDate'
    BY <1>4 DEF CursorsOK
  <2>2. \A e \in Days : e < trackingDate => e < trackingDate'
    BY <1>2, ConstantFacts
  <2> QED
    BY <2>1, <2>2 DEF OnlyFinishedDays, history
<1> QED
  BY <1>3, <1>4, <1>5, <1>6, <1>7, <1>8, <1>9, <1>10, <1>11

LEMMA RestartKeeps ==
  ASSUME Inv, Restart
  PROVE  Inv'
<1> USE DEF Inv
<1>1. /\ flushedDate' = metaFlushed /\ countedDate' = metaCounted /\ countedWeek' = metaWeek
      /\ job' = [j \in Jobs |-> Idle]
      /\ UNCHANGED <<scope, trackingDate, metas, rows, history>>
  BY DEF Restart
<1>2. Idle \in [step : Nat, day : Days, part : Nat] /\ Idle.step = 0
  BY ConstantFacts DEF Idle, Days
<1>3. \A j \in Jobs : ~Busy(j)'
  BY <1>1, <1>2 DEF Busy
<1>4. TypeOK'
  <2>1. RowsOK'
    BY <1>1 DEF TypeOK, RowsOK
  <2>2. job' \in [Jobs -> [step : Nat, day : Days, part : Nat]]
    BY <1>1, <1>2
  <2> QED
    BY <1>1, <1>3, <2>1, <2>2 DEF TypeOK, metas, history
<1>5. CursorsOK'
  BY <1>1, <1>3 DEF CursorsOK, metas, Jobs
<1>6. WeekOK'
  BY <1>1, <1>3 DEF WeekOK, EndsWeek, metas, history, Jobs
<1>7. FlushFills' /\ RivalsMet' /\ RoomAhead'
  BY <1>3 DEF FlushFills, RivalsMet, RoomAhead, Jobs
<1>8. NothingTwice'
  BY <1>1 DEF NothingTwice, Trusted, AtMostOnce, history
<1>9. FlushedComplete'
  BY <1>1 DEF FlushedComplete, Once, metas
<1>10. OnlyFinishedDays'
  BY <1>1, <1>3 DEF OnlyFinishedDays, metas, history, Jobs
<1> QED
  BY <1>4, <1>5, <1>6, <1>7, <1>8, <1>9, <1>10

LEMMA InitInv ==
  ASSUME Init
  PROVE  Inv
<1>1. Idle \in [step : Nat, day : Days, part : Nat] /\ Idle.step = 0
  BY ConstantFacts DEF Idle, Days
<1>2. job \in [Jobs -> [step : Nat, day : Days, part : Nat]] /\ \A j \in Jobs : ~Busy(j)
  BY <1>1 DEF Init, Busy
<1>3. \A t \in Tables : \A d \in Periods : \A q \in 1..Size[t] : rows[t][d][q] = 0
  BY DEF Init
<1>4. RowsOK
  BY DEF Init, RowsOK
<1>5. StartDate \in Days /\ StartDate \in Periods /\ StartDate + 1 \in Periods
  BY ConstantFacts DEF Days, Periods
<1>6. TypeOK
  <2>1. flushedDate \in Int /\ metaFlushed \in Int
    BY ConstantFacts DEF Init
  <2>2. /\ scope \in Scopes /\ trackingDate \in Days
        /\ countedDate \in Days /\ metaCounted \in Days
        /\ countedWeek \in Periods /\ metaWeek \in Periods
    BY <1>5 DEF Init
  <2>3. overlapped \subseteq Days /\ unnoticed \in BOOLEAN
    BY DEF Init
  <2> QED
    BY <1>2, <1>4, <2>1, <2>2, <2>3 DEF TypeOK
<1>7. CursorsOK
  BY <1>2, ConstantFacts DEF CursorsOK, Init, Jobs
<1>8. WeekOK
  BY <1>2, <1>5, ConstantFacts DEF WeekOK, Init, Jobs
<1>9. FlushFills /\ RivalsMet /\ RoomAhead
  BY <1>2 DEF FlushFills, RivalsMet, RoomAhead, Jobs
<1>10. NothingTwice
  BY <1>3, ConstantFacts DEF NothingTwice, AtMostOnce, Doubtful, Tables
<1>11. FlushedComplete
  <2>1. \A d \in Tracked[scope] : d \in Days
    BY TablesAssumption DEF Init
  <2> QED
    BY <2>1, ConstantFacts DEF FlushedComplete, Init, Days
<1>12. OnlyFinishedDays
  <2>1. \A d \in Days, p \in 1..Size["week"] : ~(rows["week"][d][p] > 0)
    BY <1>3, ConstantFacts DEF Tables
  <2> QED
    <3>1. metaFlushed < trackingDate
      BY ConstantFacts DEF Init
    <3> QED
      BY <1>2, <2>1, <3>1 DEF OnlyFinishedDays, Jobs
<1> QED
  BY <1>6, <1>7, <1>8, <1>9, <1>10, <1>11, <1>12 DEF Inv

LEMMA NextInv ==
  ASSUME Inv, [Next]_vars
  PROVE  Inv'
<1>1. CASE BeginFlush
  <2>1. PICK d \in Days : d = flushedDate + 1 /\ d < trackingDate
    BY <1>1, ConstantFacts DEF BeginFlush, Due, Inv, TypeOK, CursorsOK, Days
  <2>2. Begin("flush", d)
    BY <1>1, <2>1 DEF BeginFlush
  <2> QED
    BY <2>1, <2>2, BeginKeeps DEF Jobs
<1>2. CASE BeginCount
  <2>1. PICK d \in Days : d = countedDate + 1 /\ d < trackingDate
    BY <1>2, ConstantFacts DEF BeginCount, Due, Inv, TypeOK, Days
  <2>2. Begin("count", d)
    BY <1>2, <2>1 DEF BeginCount
  <2> QED
    BY <2>1, <2>2, BeginKeeps DEF Jobs
<1>3. ASSUME NEW d \in Days, BeginRepair(d)
      PROVE  Inv'
  BY <1>3, BeginKeeps DEF BeginRepair, Jobs
<1>4. ASSUME NEW d \in Days, BeginManual(d)
      PROVE  Inv'
  BY <1>4, BeginKeeps DEF BeginManual, Jobs
<1>5. ASSUME NEW j \in Jobs, Done(j) \/ Error(j)
      PROVE  Inv'
  <2>1. /\ TypeOK /\ CursorsOK /\ WeekOK /\ FlushFills /\ RivalsMet
        /\ RoomAhead /\ NothingTwice /\ FlushedComplete /\ OnlyFinishedDays
    BY DEF Inv
  <2>2. TypeOK' /\ CursorsOK' /\ WeekOK'
    BY <1>5, <2>1, StepTypes, StepCursors, StepWeeks
  <2>3. RivalsMet' /\ RoomAhead' /\ NothingTwice'
    BY <1>5, <2>1, StepRivals, StepRoom, StepNothingTwice
  <2>4. FlushFills' /\ FlushedComplete' /\ OnlyFinishedDays'
    BY <1>5, <2>1, StepFills, StepComplete, StepFinished
  <2> QED
    BY <2>2, <2>3, <2>4 DEF Inv
<1>6. CASE NewDay
  <2>1. trackingDate' \in Days /\ trackingDate <= trackingDate'
    BY <1>6, ConstantFacts DEF NewDay, Inv, TypeOK, Days
  <2> QED
    BY <1>6, <2>1, StutterKeeps DEF NewDay
<1>7. CASE Restart
  BY <1>7, RestartKeeps
<1>8. CASE UNCHANGED vars
  <2>1. trackingDate' \in Days /\ trackingDate <= trackingDate'
    BY <1>8, ConstantFacts DEF vars, Inv, TypeOK, Days
  <2> QED
    BY <1>8, <2>1, StutterKeeps DEF vars
<1> QED
  BY <1>1, <1>2, <1>3, <1>4, <1>5, <1>6, <1>7, <1>8 DEF Next

-----------------------------------------------------------------------------
(* The theorems.                                                             *)

\* The inductive invariant holds in every state.
THEOREM Invariance == Spec => []Inv
<1>1. Init => Inv
  BY InitInv
<1>2. Inv /\ [Next]_vars => Inv'
  BY NextInv
<1> QED
  BY <1>1, <1>2, PTL DEF Spec

\* The stored cursor of the flush certifies its day (persistDailyStats and the
\* cursor's update in flushDailyStats), for every number of days, tables and
\* parts, and every interleaving with a repair, crash and error.
THEOREM CertifiedDaysComplete == Spec => []FlushedComplete
<1>1. Inv => FlushedComplete
  BY DEF Inv
<1> QED
  BY <1>1, Invariance, PTL

\* No row of the statistics is doubled, but where two jobs have overlapped or a
\* failed deletion was ignored (the deletions before the writes of
\* DoExchangeStatistics and countForDate).
THEOREM RowsNotDoubled == Spec => []RowsOnce
<1>1. Inv => RowsOnce
  BY DEF Inv, RowsOnce, NothingTwice, Trusted, Doubtful
<1> QED
  BY <1>1, Invariance, PTL

\* The loops work on days that the tracker has left (the 24 hours of the flush loop
\* and of the count loop), and a week is counted once all of its days are
\* finished (countForWeek).
THEOREM FinishedDaysOnly == Spec => []OnlyFinishedDays
<1>1. Inv => OnlyFinishedDays
  BY DEF Inv
<1> QED
  BY <1>1, Invariance, PTL
=============================================================================
