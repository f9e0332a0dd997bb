-------------------------- MODULE TableMaintenance --------------------------
(***************************************************************************)
(* The tables that hold one day each: who creates them, which the flush    *)
(* writes anew, which are dropped, and which keep an index.  Two actors    *)
(* share the database and the memory isTableMigrated: the tracker, which   *)
(* creates transactions_<day>, and the flush loop, which rewrites the      *)
(* statistics of a day and then maintains tables and indexes.  Statements  *)
(* may fail one by one, days pass and the process restarts anywhere.       *)
(***************************************************************************)
EXTENDS Integers, FiniteSets, Sequences

CONSTANTS FirstDay, LastDay,  \* bound: the days of the model
          RetainDays,         \* txIndexRetainDays
          YearDays            \* a year, after which statistics are dropped

Days == (FirstDay - 1)..LastDay

ASSUME TablesAssumption == /\ FirstDay \in Nat \ {0} /\ LastDay \in Nat /\ FirstDay <= LastDay
                           /\ RetainDays \in Nat \ {0} /\ YearDays \in Nat \ {0}

Rewritten == <<"from", "to", "token", "user_token">>
\* DropStaleStatsTables knows these only: token_stats_ tables stay for ever.
Stale == <<"from", "to", "user_token">>

VARIABLES today,
          trackingDate, trackerPc,
          present,    \* the names of the tables there are: <<prefix, day>>
          amount,    \* the days whose transactions table has idx_type_amount_num
          method,    \* the days whose transactions table has an index on `method'
          migrated,  \* isTableMigrated: names of tables
          flushed,   \* flushed_date
          flushPc, step,  \* where the flush is, and at which prefix
          list,      \* what a query of information_schema has returned
          have,      \* the days whose table had the amount index when asked
          cutoff,    \* of the maintenance that is running
          undisturbed  \* not in the code: no statement of this maintenance failed, no day
                      \* began and no index was due from the tracker since it began

tablesVars == <<today, trackingDate, trackerPc, present, amount, method, migrated, flushed,
                flushPc, step, list, have, cutoff, undisturbed>>
trackerVars == <<trackingDate, trackerPc>>
flushVars == <<flushed, flushPc, step, list, have, cutoff>>
schema == <<present, amount, method, migrated>>

TxTable(day) == <<"transactions", day>>
TxDays == {day \in Days : TxTable(day) \in present}
Flushing == flushed + 1

-----------------------------------------------------------------------------
(* The tracker                                                             *)

\* SaveTransactions: createTableIfNotExist, the first time in this process ...
CreateTxTable ==
    /\ trackerPc = "save" /\ TxTable(trackingDate) \notin migrated
    /\ present' = present \cup {TxTable(trackingDate)}
    /\ migrated' = migrated \cup {TxTable(trackingDate)}
    /\ trackerPc' = "index" /\ undisturbed' = FALSE
    /\ UNCHANGED <<today, trackingDate, amount, method, flushVars>>

\* ... and then ensureIndex, whose failure is logged.
TrackerIndex ==
    /\ trackerPc = "index"
    /\ \/ amount' = amount \cup {trackingDate}
       \/ UNCHANGED amount
    /\ trackerPc' = "insert" /\ undisturbed' = FALSE
    /\ UNCHANGED <<today, trackingDate, present, method, migrated, flushVars>>

\* The rows go to the table, created now or before; the next block may be of the next day.
TrackerInserts ==
    /\ trackerPc = "insert" \/ (trackerPc = "save" /\ TxTable(trackingDate) \in migrated)
    /\ trackerPc' = "save"
    /\ trackingDate' \in {d \in {trackingDate, trackingDate + 1} : d <= today}
    /\ UNCHANGED <<today, schema, flushVars, undisturbed>>

-----------------------------------------------------------------------------
(* The flush loop                                                          *)

\* A day without a transactions table has nothing to flush.
BeginFlush ==
    /\ flushPc = "idle" /\ Flushing < trackingDate
    /\ IF TxTable(Flushing) \in present
       THEN flushPc' = "drop" /\ step' = 1 /\ flushed' = flushed
       ELSE flushed' = Flushing /\ UNCHANGED <<flushPc, step>>
    /\ UNCHANGED <<today, trackerVars, schema, list, have, cutoff, undisturbed>>

Table == <<Rewritten[step], Flushing>>

\* Mutant of Forget: the memory is kept, as the table will be created again.
ForgetNothing(t) == UNCHANGED migrated

\* delete(db.isTableMigrated, t)
Forget(t) == migrated' = migrated \ {t}

\* One step per prefix: the table is dropped and forgotten.
DropTable ==
    /\ flushPc = "drop"
    /\ present' = present \ {Table} /\ Forget(Table)
    /\ IF step < Len(Rewritten) THEN step' = step + 1 /\ flushPc' = flushPc
                                ELSE step' = 1 /\ flushPc' = "create"
    /\ UNCHANGED <<today, trackerVars, amount, method, flushed, list, have, cutoff, undisturbed>>

CreateTable ==
    /\ flushPc = "create"
    /\ IF Table \in migrated THEN UNCHANGED <<present, migrated>>
       ELSE present' = present \cup {Table} /\ migrated' = migrated \cup {Table}
    /\ flushPc' = "insert"
    /\ UNCHANGED <<today, trackerVars, amount, method, flushed, step, list, have, cutoff,
                   undisturbed>>

\* createInBatches, into a table that is there.
Insert ==
    /\ flushPc = "insert" /\ Table \in present
    /\ IF step < Len(Rewritten) THEN step' = step + 1 /\ flushPc' = "create"
                                ELSE step' = 1 /\ flushPc' = "stale"
    /\ UNCHANGED <<today, trackerVars, schema, flushed, list, have, cutoff, undisturbed>>

\* Any statement before the maintenance fails: the day is tried again later.
FlushFails ==
    /\ flushPc \in {"drop", "insert"}
    /\ flushPc' = "idle" /\ step' = 1
    /\ UNCHANGED <<today, trackerVars, schema, flushed, list, have, cutoff, undisturbed>>

-----------------------------------------------------------------------------
(* Its maintenance.  An error is logged and the next thing is done.        *)

\* DropStaleStatsTables takes its cutoff once, and lists the tables of one prefix
\* after the other.
BeginStale ==
    /\ flushPc = "stale" /\ step <= Len(Stale)
    /\ cutoff' = IF step = 1 THEN today - YearDays ELSE cutoff
    /\ undisturbed' = IF step = 1 THEN trackerPc # "index" ELSE undisturbed
    /\ list' = {t \in present : t[1] = Stale[step]}
    /\ flushPc' = "dropping"
    /\ UNCHANGED <<today, trackerVars, schema, flushed, step, have>>

DropStale(t) ==
    /\ flushPc = "dropping" /\ t \in list
    /\ list' = list \ {t}
    /\ IF t[2] < cutoff
       THEN present' = present \ {t} /\ Forget(t)
       ELSE UNCHANGED <<present, migrated>>
    /\ UNCHANGED <<today, trackerVars, amount, method, flushed, flushPc, step, have, cutoff,
                   undisturbed>>

DropStaleFails(t) ==
    /\ flushPc = "dropping" /\ t \in list /\ t[2] < cutoff
    /\ list' = list \ {t} /\ undisturbed' = FALSE
    /\ UNCHANGED <<today, trackerVars, schema, flushed, flushPc, step, have, cutoff>>

EndStale ==
    /\ flushPc = "dropping" /\ list = {}
    /\ step' = step + 1
    /\ flushPc' = IF step < Len(Stale) THEN "stale" ELSE "method"
    /\ UNCHANGED <<today, trackerVars, schema, flushed, list, have, cutoff, undisturbed>>

\* dropTxMethodIndexes
BeginMethod ==
    /\ flushPc = "method"
    /\ list' = {TxTable(day) : day \in method} /\ flushPc' = "unindexing"
    /\ UNCHANGED <<today, trackerVars, schema, flushed, step, have, cutoff, undisturbed>>

DropMethodIndex(t) ==
    /\ flushPc = "unindexing" /\ t \in list
    /\ list' = list \ {t}
    /\ \/ method' = method \ {t[2]} /\ undisturbed' = undisturbed
       \/ method' = method /\ undisturbed' = FALSE
    /\ UNCHANGED <<today, trackerVars, present, amount, migrated, flushed, flushPc, step, have,
                   cutoff>>

\* rollDelegateAmountIndexes: its own cutoff, the tables that have the index, and then
\* all tables.
ListIndexed ==
    /\ flushPc = "unindexing" /\ list = {}
    /\ cutoff' = today - RetainDays /\ have' = amount /\ flushPc' = "tables"
    /\ UNCHANGED <<today, trackerVars, schema, flushed, step, list, undisturbed>>

ListTables ==
    /\ flushPc = "tables"
    /\ list' = {TxTable(day) : day \in TxDays} /\ flushPc' = "roll"
    /\ UNCHANGED <<today, trackerVars, schema, flushed, step, have, cutoff, undisturbed>>

\* Mutant of Rolled: the window loses its last day.
RolledPastCutoff(day) ==
    IF day <= cutoff THEN IF day \in have THEN amount \ {day} ELSE amount
    ELSE IF day \in have THEN amount ELSE amount \cup {day}

Rolled(day) ==
    IF day < cutoff THEN IF day \in have THEN amount \ {day} ELSE amount
    ELSE IF day \in have THEN amount ELSE amount \cup {day}

\* dropIndex and ensureIndex log their errors.
Roll(t) ==
    /\ flushPc = "roll" /\ t \in list
    /\ list' = list \ {t}
    /\ \/ amount' = Rolled(t[2]) /\ undisturbed' = undisturbed
       \/ amount' = amount /\ undisturbed' = (undisturbed /\ (Rolled(t[2]) = amount))
    /\ UNCHANGED <<today, trackerVars, present, method, migrated, flushed, flushPc, step, have,
                   cutoff>>

\* One of the four lists cannot be had: the rest of that part is left out.
ListFails ==
    /\ \/ flushPc = "stale" /\ flushPc' = "method"
       \/ flushPc = "method" /\ flushPc' = "unindexing"
       \/ flushPc = "unindexing" /\ list = {} /\ flushPc' = "flushed"
       \/ flushPc = "tables" /\ flushPc' = "flushed"
    /\ list' = {} /\ undisturbed' = FALSE
    /\ UNCHANGED <<today, trackerVars, schema, flushed, step, have, cutoff>>

EndMaintenance ==
    /\ flushPc = "roll" /\ list = {}
    /\ flushPc' = "flushed"
    /\ UNCHANGED <<today, trackerVars, schema, flushed, step, list, have, cutoff, undisturbed>>

\* The loop moves flushed_date on.
Advanced ==
    /\ flushPc = "flushed"
    /\ flushed' = Flushing /\ flushPc' = "idle" /\ step' = 1
    /\ have' = {} /\ cutoff' = 0 /\ undisturbed' = FALSE
    /\ UNCHANGED <<today, trackerVars, schema, list>>

-----------------------------------------------------------------------------

Midnight ==
    /\ today < LastDay /\ today' = today + 1
    /\ undisturbed' = FALSE
    /\ UNCHANGED <<trackerVars, schema, flushVars>>

\* The process starts again: only what is in the database is left.
RestartTables ==
    /\ migrated' = {} /\ trackerPc' = "save"
    /\ flushPc' = "idle" /\ step' = 1 /\ list' = {} /\ have' = {} /\ cutoff' = 0
    /\ undisturbed' = FALSE
    /\ UNCHANGED <<today, trackingDate, present, amount, method, flushed>>

\* The day before may have been tracked, by a version that indexed `method', or not.
TablesInit ==
    /\ today = FirstDay /\ trackingDate = FirstDay /\ flushed = FirstDay - 2
    /\ present \in {{}, {<<p, FirstDay - 1>> : p \in {"transactions", "from", "token"}}}
    /\ amount \in SUBSET TxDays /\ method = TxDays
    /\ migrated = {} /\ trackerPc = "save"
    /\ flushPc = "idle" /\ step = 1 /\ list = {} /\ have = {} /\ cutoff = 0
    /\ undisturbed = FALSE

TablesNext ==
    \/ CreateTxTable \/ TrackerIndex \/ TrackerInserts
    \/ BeginFlush \/ DropTable \/ CreateTable \/ Insert \/ FlushFails
    \/ BeginStale \/ EndStale \/ BeginMethod \/ ListIndexed \/ ListTables \/ ListFails
    \/ EndMaintenance \/ Advanced \/ Midnight \/ RestartTables
    \/ \E t \in list : DropStale(t) \/ DropStaleFails(t) \/ DropMethodIndex(t) \/ Roll(t)

TablesSpec == TablesInit /\ [][TablesNext]_tablesVars

-----------------------------------------------------------------------------
(* Properties                                                              *)

\* Whoever writes rows finds the table, although the flush drops what it has created
\* and remembered before, a failed day is flushed again in the same process, old tables
\* are dropped, and the process restarts: an INSERT into a missing table would fail in
\* every retry, and the day would never be flushed.
CreatedBeforeInsert ==
    /\ (flushPc = "insert") => (Table \in present)
    /\ (trackerPc \in {"index", "insert"}) => (TxTable(trackingDate) \in present)
    /\ (TxTable(trackingDate) \in migrated) => (TxTable(trackingDate) \in present)

\* When the maintenance of a day ends and nothing came between, exactly the tables of the
\* window have the index on amounts, those that had lost it included, no table has the
\* index on methods, and statistics older than a year are gone but no others
\* (reconcileTxIndexes, DropStaleStatsTables).
RetentionExact ==
    ((flushPc = "flushed") /\ undisturbed) =>
        /\ amount = {day \in TxDays : day + RetainDays >= today}
        /\ method = {}
        /\ \A t \in present : (t[1] \in {"from", "to", "user_token"}) => (t[2] + YearDays >= today)
        /\ \A p \in {"from", "to", "token", "user_token"} :
              (Flushing + YearDays >= today) => (<<p, Flushing>> \in present)

=============================================================================
