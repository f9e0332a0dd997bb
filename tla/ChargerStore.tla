---------------------------- MODULE ChargerStore ----------------------------
(***************************************************************************)
(* database/charger_store.go: the in-memory table of chargers (addresses   *)
(* that were seen paying into an exchange), its two backup side maps, its  *)
(* set of entries waiting to be persisted, and the MySQL table chargers.   *)
(*                                                                         *)
(* Go maps are functions whose domain is the set of keys present.  The     *)
(* name dictionary (names, nameToIdx) is abstracted: an entry holds the    *)
(* exchange name itself.  The mutex mu is held throughout every method, so *)
(* a method is one action, except Refresh: its loop calls back into the    *)
(* registry of exchanges, which does not take mu, so that each iteration   *)
(* is an action of its own, with mu held.                                  *)
(***************************************************************************)
EXTENDS Integers, FiniteSets

CONSTANTS
  Addr,           \* address strings that decodeAddr accepts
  Malformed,      \* address strings that decodeAddr rejects
  Name,           \* exchange names
  None,           \* the empty string: no backup, not an exchange
  InitialTables,  \* contents the table may have when the program is deployed
  LoseAcks,       \* whether a write may succeed and still be reported failed
  MaxId           \* bound on the auto-increment column (code: MaxUint32)

Row == [address : Addr \cup Malformed, exchangeName : Name,
        backup : Addr \cup Name \cup {None}, isFake : BOOLEAN]

ASSUME AddrAssumption ==
  /\ IsFiniteSet(Addr)
  /\ Addr \cap Malformed = {}
  /\ Addr \cap Name = {}
  /\ None \notin Addr \cup Malformed \cup Name

ASSUME BoundAssumption == MaxId \in Nat /\ LoseAcks \in BOOLEAN

ASSUME TablesAssumption ==
  \A t \in InitialTables : \E n \in 0..MaxId : t \in [1..n -> Row]

VARIABLES
  chargers,     \* key -> [id, exchangeName, isFake]; id 0: never inserted
  addrBackups,  \* key -> the address kept as backup
  confBackups,  \* key -> the conflicting exchange name kept as backup
  dirty,        \* keys pending persistence
  mu,           \* "free", or "refresh" while Refresh holds the write lock
  toVisit,      \* keys that the running Refresh has still to visit
  table,        \* id -> row of the MySQL table
  nextId        \* the table's AUTO_INCREMENT value

memory == <<chargers, addrBackups, confBackups, dirty>>
lock == <<mu, toVisit>>
disk == <<table, nextId>>
vars == <<memory, lock, disk>>

Charger == [id : 0..MaxId, exchangeName : Name, isFake : BOOLEAN]

Put(f, k, v) == [x \in DOMAIN f \cup {k} |-> IF x = k THEN v ELSE f[x]]
Drop(f, k) == [x \in DOMAIN f \ {k} |-> f[x]]

-----------------------------------------------------------------------------
(* Loading: rows are applied in id order and a later row of an address     *)
(* replaces what an earlier one put into the three maps.                   *)

RowIds(t, a) == {i \in DOMAIN t : t[i].address = a}
\* Mutant of LastId: the rows are read in descending order.
FirstId(t, a) == CHOOSE i \in RowIds(t, a) : \A j \in RowIds(t, a) : i <= j

LastId(t, a) == CHOOSE i \in RowIds(t, a) : \A j \in RowIds(t, a) : j <= i
LastRow(t, a) == t[LastId(t, a)]
Persisted(t) == {a \in Addr : RowIds(t, a) # {}}

LoadedChargers(t) ==
  [a \in Persisted(t) |->
     [id |-> LastId(t, a), exchangeName |-> LastRow(t, a).exchangeName,
      isFake |-> LastRow(t, a).isFake]]
LoadedAddrBackups(t) ==
  [a \in {b \in Persisted(t) : LastRow(t, b).backup \in Addr} |->
     LastRow(t, a).backup]
\* A name on a row that is not fake is dirty data and is dropped.
LoadedConfBackups(t) ==
  [a \in {b \in Persisted(t) : LastRow(t, b).backup \in Name
                               /\ LastRow(t, b).isFake} |->
     LastRow(t, a).backup]

Load(t) ==
  /\ chargers' = LoadedChargers(t)
  /\ addrBackups' = LoadedAddrBackups(t)
  /\ confBackups' = LoadedConfBackups(t)
  /\ dirty' = {}

Init ==
  /\ table \in InitialTables
  /\ nextId = Cardinality(DOMAIN table) + 1
  /\ chargers = LoadedChargers(table)
  /\ addrBackups = LoadedAddrBackups(table)
  /\ confBackups = LoadedConfBackups(table)
  /\ dirty = {}
  /\ mu = "free"
  /\ toVisit = {}

-----------------------------------------------------------------------------
(* ApplyCharge(from, to, toIsExchange, toName): one branch per return.     *)

\* Mutant of ChargeNew: whether the charger exists already is not looked up.
ChargeAnew(from, toIsExchange, toName) ==
  /\ from \in Addr
  /\ toIsExchange
  /\ chargers' = Put(chargers, from,
                     [id |-> 0, exchangeName |-> toName, isFake |-> FALSE])
  /\ dirty' = dirty \cup {from}
  /\ UNCHANGED <<addrBackups, confBackups>>

ChargeNew(from, toIsExchange, toName) ==
  /\ from \in Addr \ DOMAIN chargers
  /\ toIsExchange
  /\ chargers' = Put(chargers, from,
                     [id |-> 0, exchangeName |-> toName, isFake |-> FALSE])
  /\ dirty' = dirty \cup {from}
  /\ UNCHANGED <<addrBackups, confBackups>>

Genuine(from) == from \in DOMAIN chargers /\ ~chargers[from].isFake

\* Mutant of ChargeConflict: the address backup is not dropped.
ConflictKeepsAddress(from, toIsExchange, toName) ==
  /\ Genuine(from)
  /\ toIsExchange
  /\ toName # chargers[from].exchangeName
  /\ confBackups' = Put(confBackups, from, toName)
  /\ chargers' = [chargers EXCEPT ![from].isFake = TRUE]
  /\ dirty' = dirty \cup {from}
  /\ UNCHANGED addrBackups

\* Mutant of ChargeConflict: the names are not compared.
ConflictWithAny(from, toIsExchange, toName) ==
  /\ Genuine(from)
  /\ toIsExchange
  /\ addrBackups' = Drop(addrBackups, from)
  /\ confBackups' = Put(confBackups, from, toName)
  /\ chargers' = [chargers EXCEPT ![from].isFake = TRUE]
  /\ dirty' = dirty \cup {from}

ChargeConflict(from, toIsExchange, toName) ==
  /\ Genuine(from)
  /\ toIsExchange
  /\ toName # chargers[from].exchangeName
  /\ addrBackups' = Drop(addrBackups, from)
  /\ confBackups' = Put(confBackups, from, toName)
  /\ chargers' = [chargers EXCEPT ![from].isFake = TRUE]
  /\ dirty' = dirty \cup {from}

\* Mutant of ChargeFirstAddress: the error of decodeAddr is ignored.
FirstAddressUnchecked(from, to, toIsExchange) ==
  /\ Genuine(from)
  /\ ~toIsExchange
  /\ from \notin DOMAIN addrBackups
  /\ addrBackups' = Put(addrBackups, from, to)
  /\ dirty' = dirty \cup {from}
  /\ UNCHANGED <<chargers, confBackups>>

ChargeFirstAddress(from, to, toIsExchange) ==
  /\ Genuine(from)
  /\ ~toIsExchange
  /\ from \notin DOMAIN addrBackups
  /\ to \in Addr
  /\ addrBackups' = Put(addrBackups, from, to)
  /\ dirty' = dirty \cup {from}
  /\ UNCHANGED <<chargers, confBackups>>

\* Mutant of ChargeSecondAddress: the addresses are not compared.
SecondPayment(from, to, toIsExchange) ==
  /\ Genuine(from)
  /\ ~toIsExchange
  /\ from \in DOMAIN addrBackups
  /\ chargers' = [chargers EXCEPT ![from].isFake = TRUE]
  /\ dirty' = dirty \cup {from}
  /\ UNCHANGED <<addrBackups, confBackups>>

ChargeSecondAddress(from, to, toIsExchange) ==
  /\ Genuine(from)
  /\ ~toIsExchange
  /\ from \in DOMAIN addrBackups
  /\ to # addrBackups[from]
  /\ chargers' = [chargers EXCEPT ![from].isFake = TRUE]
  /\ dirty' = dirty \cup {from}
  /\ UNCHANGED <<addrBackups, confBackups>>

ChargeIgnored(from, to, toIsExchange, toName) ==
  /\ \/ from \in Malformed
     \/ from \in Addr \ DOMAIN chargers /\ ~toIsExchange
     \/ from \in DOMAIN chargers /\ chargers[from].isFake
     \/ Genuine(from) /\ toIsExchange /\ toName = chargers[from].exchangeName
     \/ Genuine(from) /\ ~toIsExchange /\ from \notin DOMAIN addrBackups
        /\ to \in Malformed
     \/ Genuine(from) /\ ~toIsExchange /\ from \in DOMAIN addrBackups
        /\ to = addrBackups[from]
  /\ UNCHANGED memory

ApplyCharge(from, to, toIsExchange, toName) ==
  /\ mu = "free"
  /\ \/ ChargeNew(from, toIsExchange, toName)
     \/ ChargeConflict(from, toIsExchange, toName)
     \/ ChargeFirstAddress(from, to, toIsExchange)
     \/ ChargeSecondAddress(from, to, toIsExchange)
     \/ ChargeIgnored(from, to, toIsExchange, toName)
  /\ UNCHANGED <<lock, disk>>

-----------------------------------------------------------------------------
(* doFlushLocked: one Save (an upsert by primary key) of all dirty entries. *)

Backup(a) ==
  IF a \in DOMAIN addrBackups THEN addrBackups[a]
  ELSE IF a \in DOMAIN confBackups THEN confBackups[a] ELSE None

ToModel(a) == [address |-> a, exchangeName |-> chargers[a].exchangeName,
               backup |-> Backup(a), isFake |-> chargers[a].isFake]

Fresh == {a \in dirty : chargers[a].id = 0}

\* The server numbers the inserted rows consecutively, in batch order, which
\* is the iteration order of a Go map: any order.
FreshIds ==
  {f \in [Fresh -> nextId..(nextId + Cardinality(Fresh) - 1)] :
     \A a, b \in Fresh : f[a] = f[b] => a = b}

SavedId(a, ids) == IF chargers[a].id = 0 THEN ids[a] ELSE chargers[a].id
SavedIds(ids) == {SavedId(a, ids) : a \in dirty}

WriteRows(ids) ==
  /\ table' = [i \in DOMAIN table \cup SavedIds(ids) |->
                 IF i \in SavedIds(ids)
                 THEN ToModel(CHOOSE a \in dirty : SavedId(a, ids) = i)
                 ELSE table[i]]
  /\ nextId' = nextId + Cardinality(Fresh)

SaveOk(ids) ==
  /\ WriteRows(ids)
  /\ chargers' = [a \in DOMAIN chargers |->
                    IF a \in dirty
                    THEN [chargers[a] EXCEPT !.id = SavedId(a, ids)]
                    ELSE chargers[a]]
  /\ dirty' = {}
  /\ UNCHANGED <<addrBackups, confBackups>>

\* The statement took effect but its answer was lost: an error for the store.
SaveUnacknowledged(ids) ==
  /\ LoseAcks
  /\ WriteRows(ids)
  /\ UNCHANGED memory

\* Mutant of SaveFailed: the pending set is cleared all the same.
SaveFailedForgets ==
  /\ dirty' = {}
  /\ UNCHANGED <<chargers, addrBackups, confBackups, disk>>

SaveFailed == UNCHANGED <<memory, disk>>

DoFlush ==
  \/ dirty = {} /\ UNCHANGED <<memory, disk>>
  \/ /\ dirty # {}
     /\ \/ SaveFailed
        \/ /\ nextId + Cardinality(Fresh) - 1 <= MaxId
           /\ \E ids \in FreshIds : SaveOk(ids) \/ SaveUnacknowledged(ids)

FlushDirty ==
  /\ mu = "free"
  /\ DoFlush
  /\ UNCHANGED lock

-----------------------------------------------------------------------------
(* Refresh(resolve, isExchange): normalise names, reconcile backups, flush. *)

BeginRefresh ==
  /\ mu = "free"
  /\ mu' = "refresh"
  /\ toVisit' = DOMAIN chargers
  /\ UNCHANGED <<memory, disk>>

\* Mutant of HasBackup: only one of the two side maps is looked at.
HasAddrBackup(a) == a \in DOMAIN addrBackups

HasBackup(a) == a \in DOMAIN addrBackups \cup DOMAIN confBackups

\* newName: what resolve returns for the entry's exchange name;
\* backupExchange: the exchange that its address backup now is, or None.
RefreshCharger(a, newName, backupExchange) ==
  LET renamed == newName # chargers[a].exchangeName
      stillFake == chargers[a].isFake /\ ~(renamed /\ ~HasBackup(a))
      reconciled == a \in DOMAIN addrBackups /\ backupExchange # None
      conflicts == reconciled /\ backupExchange # newName
      confirms == reconciled /\ backupExchange = newName
      changed == renamed \/ confirms \/ (conflicts /\ ~stillFake)
  IN /\ mu = "refresh"
     /\ a \in toVisit
     /\ toVisit' = toVisit \ {a}
     /\ chargers' = [chargers EXCEPT ![a] =
                       [@ EXCEPT !.exchangeName = newName,
                                 !.isFake = stillFake \/ conflicts]]
     /\ addrBackups' = IF confirms THEN Drop(addrBackups, a) ELSE addrBackups
     /\ dirty' = IF changed THEN dirty \cup {a} ELSE dirty
     /\ UNCHANGED <<confBackups, mu, disk>>

EndRefresh ==
  /\ mu = "refresh"
  /\ toVisit = {}
  /\ DoFlush
  /\ mu' = "free"
  /\ UNCHANGED toVisit

-----------------------------------------------------------------------------
\* The process dies at any point, or exits after Close, and is started again.
Restart ==
  /\ Load(table)
  /\ mu' = "free"
  /\ toVisit' = {}
  /\ UNCHANGED disk

Next ==
  \/ \E from, to \in Addr \cup Malformed, toName \in Name :
       ApplyCharge(from, to, TRUE, toName)
  \/ \E from, to \in Addr \cup Malformed : ApplyCharge(from, to, FALSE, None)
  \/ FlushDirty
  \/ BeginRefresh
  \/ \E a \in toVisit, newName \in Name, ex \in Name \cup {None} :
       RefreshCharger(a, newName, ex)
  \/ EndRefresh
  \/ Restart

Spec == Init /\ [][Next]_vars

-----------------------------------------------------------------------------
(* Type correctness of the three maps, the pending set, the lock and the    *)
(* table: what the Go types and the column types allow.                     *)
TypeOK ==
  /\ DOMAIN chargers \subseteq Addr
  /\ chargers \in [DOMAIN chargers -> Charger]
  /\ DOMAIN addrBackups \subseteq DOMAIN chargers
  /\ addrBackups \in [DOMAIN addrBackups -> Addr]
  /\ DOMAIN confBackups \subseteq DOMAIN chargers
  /\ confBackups \in [DOMAIN confBackups -> Name]
  /\ dirty \subseteq DOMAIN chargers
  /\ mu \in {"free", "refresh"}
  /\ toVisit \subseteq DOMAIN chargers
  /\ nextId \in 1..(MaxId + 1)
  /\ DOMAIN table \subseteq 1..(nextId - 1)
  /\ table \in [DOMAIN table -> Row]

\* An entry that has an id was read from, or written to, the row that a
\* restart would keep; an entry without one is still pending.
IdsAreLastRows ==
  \A a \in DOMAIN chargers :
    \/ chargers[a].id = 0 /\ a \in dirty
    \/ /\ chargers[a].id \in RowIds(table, a)
       /\ \A i \in RowIds(table, a) : i <= chargers[a].id

\* The two side maps never hold a backup for the same address ("keep the two
\* side maps mutually exclusive", charger_store.go:158): the single column
\* BackupAddress can represent every state of the store.
SideMapsExclusive == DOMAIN addrBackups \cap DOMAIN confBackups = {}

\* A genuine charger has no conflicting exchange ("For !isFake the key cannot
\* be in confBackups", charger_store.go:170), on which the test "has a backup"
\* of ApplyCharge relies, whatever Refresh and Load have done before.
GenuineHasNoConflict ==
  \A a \in DOMAIN confBackups : chargers[a].isFake

\* Once a row of an address is in the table the store knows the address: no
\* charger can be forgotten in memory and started over.
PersistedIsKnown == Persisted(table) \subseteq DOMAIN chargers

\* What leaves the pending set is durable: for every entry that is not pending,
\* a crash and Load would rebuild exactly the entry held in memory, with the
\* same backup in the same side map.
CleanIsDurable ==
  \A a \in DOMAIN chargers \ dirty :
    /\ a \in Persisted(table)
    /\ LoadedChargers(table)[a] = chargers[a]
    /\ a \in DOMAIN addrBackups <=> a \in DOMAIN LoadedAddrBackups(table)
    /\ a \in DOMAIN addrBackups =>
         addrBackups[a] = LoadedAddrBackups(table)[a]
    /\ a \in DOMAIN confBackups <=> a \in DOMAIN LoadedConfBackups(table)
    /\ a \in DOMAIN confBackups =>
         confBackups[a] = LoadedConfBackups(table)[a]

\* When every error means that nothing was written, no address ever gets a
\* second row, across failed saves, retries and crashes between the save and
\* the back-fill of the ids ("otherwise id==0 rows would be lost and
\* re-inserted later", charger_store.go:352).
OneRowPerAddress ==
  \A i, j \in DOMAIN table :
    table[i].address \in Addr /\ table[i].address = table[j].address => i = j

\* A fake charger becomes genuine again only by a renaming while it has no
\* backup, or because a crash lost a mark that had not been persisted.
FakeIsSticky ==
  [][\A a \in DOMAIN chargers :
       chargers[a].isFake /\ a \in DOMAIN chargers' /\ ~chargers'[a].isFake =>
         \/ /\ chargers'[a].exchangeName # chargers[a].exchangeName
            /\ ~HasBackup(a)
         \/ a \in dirty \ dirty']_vars

-----------------------------------------------------------------------------
(* The refinement mapping to ChargerLedger: the two side maps become one    *)
(* field, the last row of an address its durable record.                    *)

View(a) == [exchangeName |-> chargers[a].exchangeName, backup |-> Backup(a),
            isFake |-> chargers[a].isFake]

DurableView(a) ==
  LET r == LastRow(table, a)
  IN [exchangeName |-> r.exchangeName,
      backup |-> IF r.backup \in Name /\ ~r.isFake THEN None ELSE r.backup,
      isFake |-> r.isFake]

LedgerCharger == [a \in DOMAIN chargers |-> View(a)]
LedgerDurable == [a \in Persisted(table) |-> DurableView(a)]

Ledger == INSTANCE ChargerLedger WITH
  charger <- LedgerCharger, durable <- LedgerDurable, pending <- dirty

\* The store behaves as the single-record state machine that it says it
\* mirrors (charger_store.go:130), through flushes, retries and crashes.
ImplementsLedger == Ledger!Spec

=============================================================================
