------------------------- MODULE ChargerStoreProofs -------------------------
(* Proofs that the invariants of ChargerStore hold for all constants, what  *)
(* may take a fake mark away, that no address is inserted twice, and that   *)
(* the store implements ChargerLedger.                                      *)
EXTENDS ChargerStore, SetLemmas

\* In a table whose ids are bounded, Load keeps an existing row of the address
\* and no row of the address comes after it.
LEMMA LastIdIsLast ==
  ASSUME NEW t, NEW n \in Nat, DOMAIN t \subseteq 1..n, NEW a \in Persisted(t)
  PROVE  /\ LastId(t, a) \in RowIds(t, a)
         /\ \A i \in RowIds(t, a) : i <= LastId(t, a)
<1>1. RowIds(t, a) \subseteq 1..n /\ RowIds(t, a) # {}
  BY DEF RowIds, Persisted
<1>2. \E m \in RowIds(t, a) : \A k \in RowIds(t, a) : k <= m
  BY <1>1, GreatestElement
<1> QED
  BY <1>2 DEF LastId

\* The row that Load keeps is determined by being the last one.
LEMMA LastIdUnique ==
  ASSUME NEW t, NEW n \in Nat, DOMAIN t \subseteq 1..n, NEW a \in Addr,
         NEW i \in RowIds(t, a), \A j \in RowIds(t, a) : j <= i
  PROVE  a \in Persisted(t) /\ LastId(t, a) = i
<1>1. a \in Persisted(t)
  BY DEF Persisted
<1>2. LastId(t, a) \in RowIds(t, a) /\ i <= LastId(t, a)
  BY <1>1, LastIdIsLast
<1>3. LastId(t, a) \in Int /\ i \in Int
  BY <1>2 DEF RowIds
<1> QED
  BY <1>1, <1>2, <1>3

-----------------------------------------------------------------------------
\* The inductive invariant: type correctness, the two facts about the side
\* maps, and what links the memory to the table.
Inv ==
  /\ TypeOK
  /\ IdsAreLastRows
  /\ SideMapsExclusive
  /\ GenuineHasNoConflict
  /\ PersistedIsKnown
  /\ CleanIsDurable

\* An entry and its backups are what Load makes of the last row of a.
Agrees(a) ==
  /\ a \in Persisted(table)
  /\ chargers[a] = [id |-> LastId(table, a),
                    exchangeName |-> LastRow(table, a).exchangeName,
                    isFake |-> LastRow(table, a).isFake]
  /\ a \in DOMAIN addrBackups <=> LastRow(table, a).backup \in Addr
  /\ a \in DOMAIN addrBackups => addrBackups[a] = LastRow(table, a).backup
  /\ a \in DOMAIN confBackups <=>
       LastRow(table, a).backup \in Name /\ LastRow(table, a).isFake
  /\ a \in DOMAIN confBackups => confBackups[a] = LastRow(table, a).backup

\* CleanIsDurable says that every entry that is not pending agrees with Load.
LEMMA CleanAgrees ==
  CleanIsDurable <=> \A a \in DOMAIN chargers \ dirty : Agrees(a)
BY DEF CleanIsDurable, Agrees, LoadedChargers, LoadedAddrBackups,
       LoadedConfBackups

\* The same in the next state.
LEMMA CleanAgreesNext ==
  CleanIsDurable' <=> (\A a \in DOMAIN chargers \ dirty : Agrees(a))'
BY CleanAgrees, PTL

\* A step that leaves the table alone and marks as pending every entry that
\* it touches keeps what is not pending durable.
LEMMA TouchedIsPending ==
  ASSUME CleanIsDurable, table' = table, dirty \subseteq dirty',
         DOMAIN chargers' \ dirty' \subseteq DOMAIN chargers,
         \A a \in DOMAIN chargers' \ dirty' :
           /\ chargers'[a] = chargers[a]
           /\ a \in DOMAIN addrBackups' <=> a \in DOMAIN addrBackups
           /\ a \in DOMAIN addrBackups => addrBackups'[a] = addrBackups[a]
           /\ a \in DOMAIN confBackups' <=> a \in DOMAIN confBackups
           /\ a \in DOMAIN confBackups => confBackups'[a] = confBackups[a]
  PROVE  CleanIsDurable'
<1> SUFFICES ASSUME NEW a \in DOMAIN chargers' \ dirty' PROVE Agrees(a)'
  BY CleanAgreesNext
<1>1. Agrees(a)
  BY CleanAgrees
<1> QED
  BY <1>1, ZenonT(30) DEF Agrees, Persisted, RowIds, LastId, LastRow

\* The state of a store that has just loaded its table.
JustLoaded ==
  /\ nextId \in 1..(MaxId + 1)
  /\ DOMAIN table \subseteq 1..(nextId - 1)
  /\ table \in [DOMAIN table -> Row]
  /\ chargers = LoadedChargers(table)
  /\ addrBackups = LoadedAddrBackups(table)
  /\ confBackups = LoadedConfBackups(table)
  /\ dirty = {} /\ mu = "free" /\ toVisit = {}

\* Load makes a correct memory from any table whose ids are below nextId.
LEMMA LoadIsCorrect == JustLoaded => Inv
<1> SUFFICES ASSUME JustLoaded PROVE Inv
  OBVIOUS
<1> USE DEF JustLoaded
<1>1. ASSUME NEW a \in Persisted(table)
      PROVE  /\ LastId(table, a) \in RowIds(table, a)
             /\ \A i \in RowIds(table, a) : i <= LastId(table, a)
             /\ LastId(table, a) \in 1..MaxId
             /\ LastRow(table, a) \in Row
  <2>1. nextId - 1 \in Nat
    BY BoundAssumption
  <2>2. /\ LastId(table, a) \in RowIds(table, a)
        /\ \A i \in RowIds(table, a) : i <= LastId(table, a)
    BY <2>1, LastIdIsLast
  <2> QED
    BY <2>1, <2>2, BoundAssumption DEF RowIds, LastRow
<1>2. TypeOK
  BY <1>1, BoundAssumption
     DEF TypeOK, LoadedChargers, LoadedAddrBackups, LoadedConfBackups, Charger,
         Row, Persisted
<1>3. IdsAreLastRows
  BY <1>1 DEF IdsAreLastRows, LoadedChargers
<1>4. SideMapsExclusive
  BY AddrAssumption
     DEF SideMapsExclusive, LoadedAddrBackups, LoadedConfBackups
<1>5. GenuineHasNoConflict
  BY DEF GenuineHasNoConflict, LoadedConfBackups, LoadedChargers
<1>6. PersistedIsKnown
  BY DEF PersistedIsKnown, LoadedChargers
<1>7. CleanIsDurable
  BY DEF CleanIsDurable, LoadedChargers
<1> QED
  BY <1>2, <1>3, <1>4, <1>5, <1>6, <1>7 DEF Inv

\* The store is correct when the program is deployed.
LEMMA InitIsCorrect == Init => Inv
<1> SUFFICES ASSUME Init PROVE Inv
  OBVIOUS
<1>1. PICK n \in 0..MaxId : table \in [1..n -> Row]
  BY TablesAssumption DEF Init
<1>2. DOMAIN table = 1..n
  BY <1>1
<1>3. Cardinality(1..n) = n
  BY BoundAssumption, FS_Interval
<1>4. nextId = n + 1
  BY <1>2, <1>3 DEF Init
<1> QED
  BY <1>1, <1>2, <1>4, LoadIsCorrect, BoundAssumption DEF Init, JustLoaded

-----------------------------------------------------------------------------
\* A step that changes neither the memory nor the table, and unlocks or locks
\* the store, preserves the invariant.
LEMMA OnlyLockIsCorrect ==
  ASSUME Inv, UNCHANGED <<memory, disk>>, mu' \in {"free", "refresh"},
         toVisit' \subseteq DOMAIN chargers
  PROVE  Inv'
<1> USE DEF Inv, memory, disk
<1>1. TypeOK'
  BY DEF TypeOK
<1>2. IdsAreLastRows'
  BY DEF IdsAreLastRows, RowIds
<1>3. SideMapsExclusive' /\ GenuineHasNoConflict' /\ PersistedIsKnown'
  BY DEF SideMapsExclusive, GenuineHasNoConflict, PersistedIsKnown, Persisted,
         RowIds
<1>4. CleanIsDurable'
  BY TouchedIsPending
<1> QED
  BY <1>1, <1>2, <1>3, <1>4

\* Every branch of ApplyCharge preserves the invariant.
LEMMA ApplyChargeIsCorrect ==
  ASSUME Inv,
         NEW from \in Addr \cup Malformed, NEW to \in Addr \cup Malformed,
         NEW toIsExchange \in BOOLEAN, NEW toName \in Name \cup {None},
         toIsExchange => toName \in Name,
         ApplyCharge(from, to, toIsExchange, toName)
  PROVE  Inv'
<1> USE DEF Inv
<1>0. table' = table /\ nextId' = nextId /\ mu' = mu /\ toVisit' = toVisit
  BY DEF ApplyCharge, lock, disk
<1>1. CASE ChargeNew(from, toIsExchange, toName)
  <2> USE <1>0, <1>1 DEF ChargeNew, Put
  <2>1. TypeOK'
    BY BoundAssumption DEF TypeOK, Charger
  <2>2. IdsAreLastRows'
    BY DEF IdsAreLastRows, RowIds
  <2>3. SideMapsExclusive' /\ PersistedIsKnown'
    BY DEF SideMapsExclusive, PersistedIsKnown, Persisted, RowIds
  <2>4. GenuineHasNoConflict'
    BY DEF GenuineHasNoConflict, TypeOK
  <2>5. CleanIsDurable'
    BY TouchedIsPending
  <2> QED
    BY <2>1, <2>2, <2>3, <2>4, <2>5
<1>2. CASE ChargeConflict(from, toIsExchange, toName)
  <2> USE <1>0, <1>2 DEF ChargeConflict, Genuine, Put, Drop
  <2>1. TypeOK'
    BY DEF TypeOK, Charger
  <2>2. IdsAreLastRows'
    BY DEF IdsAreLastRows, RowIds, TypeOK, Charger
  <2>3. SideMapsExclusive' /\ PersistedIsKnown'
    BY DEF SideMapsExclusive, PersistedIsKnown, Persisted, RowIds
  <2>4. GenuineHasNoConflict'
    BY DEF GenuineHasNoConflict, TypeOK, Charger
  <2>5. CleanIsDurable'
    BY TouchedIsPending
  <2> QED
    BY <2>1, <2>2, <2>3, <2>4, <2>5
<1>3. CASE ChargeFirstAddress(from, to, toIsExchange)
  <2> USE <1>0, <1>3 DEF ChargeFirstAddress, Genuine, Put
  <2>1. TypeOK'
    BY DEF TypeOK
  <2>2. IdsAreLastRows'
    BY DEF IdsAreLastRows, RowIds
  <2>3. SideMapsExclusive' /\ PersistedIsKnown'
    BY DEF SideMapsExclusive, GenuineHasNoConflict, PersistedIsKnown,
           Persisted, RowIds
  <2>4. GenuineHasNoConflict'
    BY DEF GenuineHasNoConflict
  <2>5. CleanIsDurable'
    BY TouchedIsPending
  <2> QED
    BY <2>1, <2>2, <2>3, <2>4, <2>5
<1>4. CASE ChargeSecondAddress(from, to, toIsExchange)
  <2> USE <1>0, <1>4 DEF ChargeSecondAddress, Genuine
  <2>1. TypeOK'
    BY DEF TypeOK, Charger
  <2>2. IdsAreLastRows'
    BY DEF IdsAreLastRows, RowIds, TypeOK, Charger
  <2>3. SideMapsExclusive' /\ PersistedIsKnown'
    BY DEF SideMapsExclusive, PersistedIsKnown, Persisted, RowIds
  <2>4. GenuineHasNoConflict'
    BY DEF GenuineHasNoConflict, TypeOK, Charger
  <2>5. CleanIsDurable'
    BY TouchedIsPending
  <2> QED
    BY <2>1, <2>2, <2>3, <2>4, <2>5
<1>5. CASE ChargeIgnored(from, to, toIsExchange, toName)
  BY <1>0, <1>5, OnlyLockIsCorrect DEF ChargeIgnored, disk, TypeOK
<1> QED
  BY <1>1, <1>2, <1>3, <1>4, <1>5 DEF ApplyCharge

\* One iteration of the loop of Refresh preserves the invariant.
LEMMA RefreshChargerIsCorrect ==
  ASSUME Inv, NEW a \in toVisit, NEW newName \in Name,
         NEW ex \in Name \cup {None}, RefreshCharger(a, newName, ex)
  PROVE  Inv'
<1> USE DEF Inv
<1>0. /\ a \in DOMAIN chargers
      /\ a \in Addr
  BY DEF TypeOK
<1>1. /\ table' = table /\ nextId' = nextId /\ mu' = mu
      /\ toVisit' \subseteq toVisit
      /\ confBackups' = confBackups
      /\ DOMAIN chargers' = DOMAIN chargers
      /\ \A b \in DOMAIN chargers \ {a} : chargers'[b] = chargers[b]
      /\ DOMAIN addrBackups' \subseteq DOMAIN addrBackups
      /\ \A b \in DOMAIN addrBackups \ {a} :
           b \in DOMAIN addrBackups' /\ addrBackups'[b] = addrBackups[b]
      /\ a \in DOMAIN addrBackups' => addrBackups'[a] = addrBackups[a]
      /\ dirty' \in {dirty, dirty \cup {a}}
  BY <1>0 DEF RefreshCharger, disk, Drop, TypeOK
<1>2. /\ chargers'[a] \in Charger
      /\ chargers'[a].id = chargers[a].id
      /\ a \in DOMAIN confBackups => chargers'[a].isFake
  BY <1>0 DEF RefreshCharger, TypeOK, Charger, HasBackup, GenuineHasNoConflict
<1>. /\ chargers' \in [DOMAIN chargers' -> Charger]
     /\ addrBackups' \in [DOMAIN addrBackups' -> Addr]
  <2>1. \A b \in DOMAIN chargers' : chargers'[b] \in Charger
    BY <1>1, <1>2 DEF TypeOK
  <2>2. \A b \in DOMAIN addrBackups' : addrBackups'[b] \in Addr
    BY <1>1 DEF TypeOK
  <2>3. chargers' = [b \in DOMAIN chargers' |-> chargers'[b]]
    BY DEF RefreshCharger
  <2>4. addrBackups' = [b \in DOMAIN addrBackups' |-> addrBackups'[b]]
    BY DEF RefreshCharger, Drop, TypeOK
  <2> QED
    BY <2>1, <2>2, <2>3, <2>4
<1>3. CASE a \notin dirty'
  <2>1. /\ newName = chargers[a].exchangeName
        /\ addrBackups' = addrBackups
        /\ dirty' = dirty
        /\ chargers'[a].isFake = chargers[a].isFake
    BY <1>0, <1>3, ZenonT(30) DEF RefreshCharger, TypeOK, Charger, HasBackup
  <2>2. chargers'[a] = chargers[a]
    BY <1>0, <2>1, ZenonT(30) DEF RefreshCharger, TypeOK, Charger
  <2>3. chargers' = chargers
    BY <1>0, <1>1, <2>2 DEF RefreshCharger, TypeOK
  <2> QED
    BY <1>1, <2>1, <2>3, OnlyLockIsCorrect DEF memory, disk, TypeOK
<1>4. CASE a \in dirty'
  <2>1. TypeOK'
    BY <1>0, <1>1, <1>2 DEF TypeOK
  <2>2. IdsAreLastRows'
    BY <1>1, <1>2 DEF IdsAreLastRows, RowIds
  <2>3. SideMapsExclusive' /\ PersistedIsKnown'
    BY <1>1 DEF SideMapsExclusive, PersistedIsKnown, Persisted, RowIds
  <2>4. GenuineHasNoConflict'
    BY <1>0, <1>1, <1>2 DEF GenuineHasNoConflict, TypeOK
  <2>5. CleanIsDurable'
    BY <1>1, <1>4, TouchedIsPending
  <2> QED
    BY <2>1, <2>2, <2>3, <2>4, <2>5
<1> QED
  BY <1>3, <1>4

-----------------------------------------------------------------------------
\* The ids under which a Save writes: one row per pending entry, the last row
\* of its address.
LEMMA SavedIdFacts ==
  ASSUME Inv, NEW ids \in FreshIds
  PROVE  /\ Cardinality(Fresh) \in Nat
         /\ \A a \in dirty :
              /\ SavedId(a, ids) \in 1..(nextId + Cardinality(Fresh) - 1)
              /\ \A i \in RowIds(table, a) : i <= SavedId(a, ids)
              /\ SavedId(a, ids) \in RowIds(table, a) \/ nextId <= SavedId(a, ids)
         /\ \A a, b \in dirty : SavedId(a, ids) = SavedId(b, ids) => a = b
<1> USE DEF Inv
<1>1. dirty \subseteq DOMAIN chargers /\ dirty \subseteq Addr
  BY DEF TypeOK
<1>2. IsFiniteSet(Fresh)
  BY <1>1, AddrAssumption, FS_Subset DEF Fresh
<1>3. Cardinality(Fresh) \in Nat
  BY <1>2, FS_CardinalityType
<1>4. nextId \in 1..(MaxId + 1) /\ nextId \in Nat /\ DOMAIN table \subseteq 1..(nextId - 1)
  BY BoundAssumption DEF TypeOK
<1>5. ASSUME NEW a \in dirty, chargers[a].id = 0
      PROVE  /\ SavedId(a, ids) \in nextId..(nextId + Cardinality(Fresh) - 1)
             /\ SavedId(a, ids) = ids[a]
             /\ a \in Fresh
  BY <1>5 DEF SavedId, FreshIds, Fresh
<1>6. ASSUME NEW a \in dirty, chargers[a].id # 0
      PROVE  /\ SavedId(a, ids) = chargers[a].id
             /\ SavedId(a, ids) \in RowIds(table, a)
             /\ \A i \in RowIds(table, a) : i <= SavedId(a, ids)
             /\ SavedId(a, ids) \in 1..(nextId - 1)
  BY <1>1, <1>4, <1>6 DEF SavedId, IdsAreLastRows, RowIds
<1>7. ASSUME NEW a \in dirty
      PROVE  /\ SavedId(a, ids) \in 1..(nextId + Cardinality(Fresh) - 1)
             /\ \A i \in RowIds(table, a) : i <= SavedId(a, ids)
             /\ SavedId(a, ids) \in RowIds(table, a) \/ nextId <= SavedId(a, ids)
  <2>1. CASE chargers[a].id = 0
    BY <1>3, <1>4, <1>5, <2>1 DEF RowIds
  <2>2. CASE chargers[a].id # 0
    BY <1>3, <1>4, <1>6, <2>2
  <2> QED
    BY <2>1, <2>2
<1>8. ASSUME NEW a \in dirty, NEW b \in dirty, SavedId(a, ids) = SavedId(b, ids)
      PROVE  a = b
  <2>1. CASE chargers[a].id = 0 /\ chargers[b].id = 0
    BY <1>5, <1>8, <2>1 DEF FreshIds
  <2>2. CASE chargers[a].id # 0 /\ chargers[b].id # 0
    BY <1>6, <1>8, <2>2 DEF RowIds
  <2>3. CASE chargers[a].id = 0 /\ chargers[b].id # 0
    BY <1>3, <1>4, <1>5, <1>6, <1>8, <2>3
  <2>4. CASE chargers[a].id # 0 /\ chargers[b].id = 0
    BY <1>3, <1>4, <1>5, <1>6, <1>8, <2>4
  <2> QED
    BY <2>1, <2>2, <2>3, <2>4
<1> QED
  BY <1>3, <1>7, <1>8

\* After a Save, Load would keep for a pending address the row just written;
\* the rows of the other addresses are what they were.
LEMMA WrittenRows ==
  ASSUME Inv, nextId + Cardinality(Fresh) - 1 <= MaxId,
         NEW ids \in FreshIds, WriteRows(ids)
  PROVE  /\ nextId' \in 1..(MaxId + 1)
         /\ DOMAIN table' \subseteq 1..(nextId' - 1)
         /\ table' \in [DOMAIN table' -> Row]
         /\ \A a \in dirty :
              /\ a \in Persisted(table')
              /\ SavedId(a, ids) \in RowIds(table', a)
              /\ \A i \in RowIds(table', a) : i <= SavedId(a, ids)
              /\ LastId(table', a) = SavedId(a, ids)
              /\ LastRow(table', a) = ToModel(a)
         /\ \A a \in Addr \ dirty :
              /\ RowIds(table', a) = RowIds(table, a)
              /\ \A i \in RowIds(table, a) : table'[i] = table[i]
<1> USE DEF Inv
<1>1. /\ nextId \in 1..(MaxId + 1) /\ nextId \in Nat
      /\ DOMAIN table \subseteq 1..(nextId - 1)
      /\ dirty \subseteq DOMAIN chargers /\ dirty \subseteq Addr
      /\ table \in [DOMAIN table -> Row]
  BY BoundAssumption DEF TypeOK
<1>2. /\ Cardinality(Fresh) \in Nat
      /\ nextId' = nextId + Cardinality(Fresh)
      /\ DOMAIN table' = DOMAIN table \cup SavedIds(ids)
  BY SavedIdFacts DEF WriteRows
<1>3. nextId' \in 1..(MaxId + 1) /\ nextId' - 1 \in Nat
  BY <1>1, <1>2, BoundAssumption
<1>4. \A a \in dirty : ToModel(a) \in Row
  BY <1>1 DEF ToModel, Backup, Row, TypeOK, Charger
<1>5. \A a \in dirty : SavedId(a, ids) \in DOMAIN table'
                      /\ table'[SavedId(a, ids)] = ToModel(a)
  <2> SUFFICES ASSUME NEW a \in dirty
               PROVE  SavedId(a, ids) \in DOMAIN table'
                      /\ table'[SavedId(a, ids)] = ToModel(a)
    OBVIOUS
  <2>1. SavedId(a, ids) \in SavedIds(ids)
    BY DEF SavedIds
  <2>2. (CHOOSE b \in dirty : SavedId(b, ids) = SavedId(a, ids)) = a
    BY SavedIdFacts
  <2> QED
    BY <2>1, <2>2 DEF WriteRows
<1>11. \A a \in dirty : table'[SavedId(a, ids)].address = a
  <2>1. \A a : ToModel(a).address = a
    BY DEF ToModel
  <2> QED
    BY <1>5, <2>1
<1>6. \A i \in DOMAIN table \ SavedIds(ids) : table'[i] = table[i]
  BY DEF WriteRows
<1>7. DOMAIN table' \subseteq 1..(nextId' - 1)
  BY <1>1, <1>2, SavedIdFacts DEF SavedIds
<1>8. table' \in [DOMAIN table' -> Row]
  <2>1. \A i \in DOMAIN table' : table'[i] \in Row
    BY <1>1, <1>2, <1>4, <1>5, <1>6 DEF SavedIds
  <2> QED
    BY <2>1 DEF WriteRows
<1>9. ASSUME NEW a \in dirty
      PROVE  /\ a \in Persisted(table')
             /\ SavedId(a, ids) \in RowIds(table', a)
             /\ \A i \in RowIds(table', a) : i <= SavedId(a, ids)
             /\ LastId(table', a) = SavedId(a, ids)
             /\ LastRow(table', a) = ToModel(a)
  <2>1. SavedId(a, ids) \in RowIds(table', a)
    BY <1>5, <1>11 DEF RowIds
  <2>2. ASSUME NEW i \in RowIds(table', a) PROVE i <= SavedId(a, ids)
    <3>1. CASE i \in SavedIds(ids)
      <4>1. PICK b \in dirty : i = SavedId(b, ids)
        BY <3>1 DEF SavedIds
      <4>2. b = a
        BY <1>11, <2>2, <4>1 DEF RowIds
      <4> QED
        BY <1>1, <1>2, <4>1, <4>2, SavedIdFacts
    <3>2. CASE i \notin SavedIds(ids)
      BY <1>2, <1>6, <2>2, <3>2, SavedIdFacts DEF RowIds
    <3> QED
      BY <3>1, <3>2
  <2>3. a \in Persisted(table') /\ LastId(table', a) = SavedId(a, ids)
    BY <1>1, <1>3, <1>7, <2>1, <2>2, LastIdUnique
  <2> QED
    BY <1>5, <2>1, <2>2, <2>3 DEF LastRow
<1>10. ASSUME NEW a \in Addr \ dirty
       PROVE  /\ RowIds(table', a) = RowIds(table, a)
              /\ \A i \in RowIds(table, a) : table'[i] = table[i]
  <2>1. ASSUME NEW i \in SavedIds(ids)
        PROVE  i \notin RowIds(table, a) /\ i \notin RowIds(table', a)
    <3>1. PICK b \in dirty : i = SavedId(b, ids)
      BY DEF SavedIds
    <3>2. i \notin RowIds(table', a)
      BY <1>11, <3>1 DEF RowIds
    <3>3. i \notin RowIds(table, a)
      BY <1>1, <1>2, <3>1, SavedIdFacts DEF RowIds
    <3> QED
      BY <3>2, <3>3
  <2> QED
    BY <1>2, <1>6, <2>1 DEF RowIds
<1> QED
  BY <1>3, <1>7, <1>8, <1>9, <1>10

\* An acknowledged Save preserves the invariant: what it takes out of the
\* pending set is durable, under the id that is back-filled.
LEMMA SaveOkIsCorrect ==
  ASSUME Inv, nextId + Cardinality(Fresh) - 1 <= MaxId,
         NEW ids \in FreshIds, SaveOk(ids),
         mu' \in {"free", "refresh"}, toVisit' \subseteq DOMAIN chargers
  PROVE  Inv'
<1> USE DEF Inv
<1>0. WriteRows(ids)
  BY DEF SaveOk
<1>1. /\ dirty' = {} /\ addrBackups' = addrBackups /\ confBackups' = confBackups
      /\ DOMAIN chargers' = DOMAIN chargers
      /\ dirty \subseteq DOMAIN chargers /\ DOMAIN chargers \subseteq Addr
  BY DEF SaveOk, TypeOK
<1>2. ASSUME NEW a \in DOMAIN chargers \ dirty PROVE chargers'[a] = chargers[a]
  BY DEF SaveOk
<1>3. ASSUME NEW a \in dirty
      PROVE  chargers'[a] = [id |-> SavedId(a, ids),
                             exchangeName |-> chargers[a].exchangeName,
                             isFake |-> chargers[a].isFake]
  <2>1. chargers[a] \in Charger
    BY <1>1 DEF TypeOK
  <2>2. chargers'[a] = [chargers[a] EXCEPT !.id = SavedId(a, ids)]
    BY <1>1 DEF SaveOk
  <2> QED
    BY <2>1, <2>2 DEF Charger
<1>4. /\ nextId \in Nat /\ Cardinality(Fresh) \in Nat
      /\ \A a \in dirty : SavedId(a, ids) \in 1..MaxId
  BY SavedIdFacts, BoundAssumption DEF TypeOK
<1>5. chargers' \in [DOMAIN chargers' -> Charger]
  <2>1. \A a \in DOMAIN chargers \ dirty : chargers'[a] \in Charger
    BY <1>2 DEF TypeOK
  <2>2. \A a \in dirty : chargers'[a] \in Charger
    <3> SUFFICES ASSUME NEW a \in dirty PROVE chargers'[a] \in Charger
      OBVIOUS
    <3>1. chargers[a] \in Charger
      BY <1>1 DEF TypeOK
    <3>2. SavedId(a, ids) \in 0..MaxId
      BY <1>4, BoundAssumption
    <3>3. chargers'[a] = [id |-> SavedId(a, ids),
                          exchangeName |-> chargers[a].exchangeName,
                          isFake |-> chargers[a].isFake]
      BY <1>3
    <3>4. /\ chargers[a].exchangeName \in Name
          /\ chargers[a].isFake \in BOOLEAN
      BY <3>1 DEF Charger
    <3> QED
      BY <3>2, <3>3, <3>4 DEF Charger
  <2> QED
    BY <1>1, <2>1, <2>2 DEF SaveOk
<1>11. /\ \A a \in DOMAIN chargers : chargers'[a].isFake = chargers[a].isFake
       /\ \A a \in dirty : chargers'[a].id = SavedId(a, ids)
  <2>1. ASSUME NEW a \in dirty
        PROVE  /\ chargers'[a].id = SavedId(a, ids)
               /\ chargers'[a].isFake = chargers[a].isFake
    <3>1. chargers'[a] = [id |-> SavedId(a, ids),
                          exchangeName |-> chargers[a].exchangeName,
                          isFake |-> chargers[a].isFake]
      BY <1>3
    <3> QED
      BY <3>1
  <2> QED
    BY <1>2, <2>1
<1>6. TypeOK'
  BY <1>0, <1>1, <1>5, WrittenRows DEF TypeOK
<1>7. IdsAreLastRows'
  <2> SUFFICES ASSUME NEW a \in DOMAIN chargers
               PROVE  /\ chargers'[a].id \in RowIds(table', a)
                      /\ \A i \in RowIds(table', a) : i <= chargers'[a].id
    BY <1>1 DEF IdsAreLastRows
  <2>1. CASE a \in dirty
    BY <1>0, <1>11, <2>1, WrittenRows
  <2>2. CASE a \notin dirty
    BY <1>0, <1>1, <1>2, <2>2, WrittenRows DEF IdsAreLastRows
  <2> QED
    BY <2>1, <2>2
<1>8. SideMapsExclusive' /\ GenuineHasNoConflict'
  BY <1>1, <1>11 DEF SideMapsExclusive, GenuineHasNoConflict, TypeOK
<1>9. PersistedIsKnown'
  BY <1>0, <1>1, WrittenRows DEF PersistedIsKnown, Persisted
<1>10. CleanIsDurable'
  <2> SUFFICES ASSUME NEW a \in DOMAIN chargers PROVE Agrees(a)'
    BY <1>1, CleanAgreesNext
  <2>1. CASE a \in dirty
    <3>1. /\ a \in Persisted(table')
          /\ LastId(table', a) = SavedId(a, ids)
          /\ LastRow(table', a) = ToModel(a)
      BY <1>0, <2>1, WrittenRows
    <3>2. /\ ToModel(a).exchangeName = chargers[a].exchangeName
          /\ ToModel(a).isFake = chargers[a].isFake
          /\ ToModel(a).backup = Backup(a)
      BY DEF ToModel
    <3>3. /\ a \in DOMAIN addrBackups <=> Backup(a) \in Addr
          /\ a \in DOMAIN addrBackups => addrBackups[a] = Backup(a)
          /\ a \in DOMAIN confBackups <=>
               Backup(a) \in Name /\ chargers[a].isFake
          /\ a \in DOMAIN confBackups => confBackups[a] = Backup(a)
      BY AddrAssumption
         DEF Backup, TypeOK, SideMapsExclusive, GenuineHasNoConflict
    <3> QED
      BY <1>1, <1>3, <2>1, <3>1, <3>2, <3>3 DEF Agrees
  <2>2. CASE a \notin dirty
    <3>1. Agrees(a)
      BY <2>2, CleanAgrees
    <3>2. /\ RowIds(table', a) = RowIds(table, a)
          /\ \A i \in RowIds(table, a) : table'[i] = table[i]
      BY <1>0, <1>1, <2>2, WrittenRows
    <3>3. a \in Persisted(table) /\ a \in Persisted(table')
      BY <3>1, <3>2 DEF Agrees, Persisted
    <3>4. LastId(table, a) \in RowIds(table, a)
      <4>1. nextId - 1 \in Nat /\ DOMAIN table \subseteq 1..(nextId - 1)
        BY BoundAssumption DEF TypeOK
      <4> QED
        BY <3>3, <4>1, LastIdIsLast
    <3>5. LastId(table', a) = LastId(table, a)
          /\ LastRow(table', a) = LastRow(table, a)
      BY <3>2, <3>4 DEF LastId, LastRow
    <3> QED
      BY <1>1, <1>2, <2>2, <3>1, <3>3, <3>5 DEF Agrees
  <2> QED
    BY <2>1, <2>2
<1> QED
  BY <1>6, <1>7, <1>8, <1>9, <1>10

\* A Save that takes effect without being acknowledged preserves it too: every
\* address written is still pending, and its new row is the last one.
LEMMA SaveUnacknowledgedIsCorrect ==
  ASSUME Inv, nextId + Cardinality(Fresh) - 1 <= MaxId,
         NEW ids \in FreshIds, SaveUnacknowledged(ids),
         mu' \in {"free", "refresh"}, toVisit' \subseteq DOMAIN chargers
  PROVE  Inv'
<1> USE DEF Inv
<1>0. WriteRows(ids)
  BY DEF SaveUnacknowledged
<1>1. /\ dirty' = dirty /\ addrBackups' = addrBackups
      /\ confBackups' = confBackups /\ chargers' = chargers
      /\ dirty \subseteq DOMAIN chargers /\ DOMAIN chargers \subseteq Addr
  BY DEF SaveUnacknowledged, memory, TypeOK
<1>2. TypeOK'
  BY <1>0, <1>1, WrittenRows DEF TypeOK
<1>3. IdsAreLastRows'
  <2> SUFFICES ASSUME NEW a \in DOMAIN chargers
               PROVE  \/ chargers[a].id = 0 /\ a \in dirty
                      \/ /\ chargers[a].id \in RowIds(table', a)
                         /\ \A i \in RowIds(table', a) : i <= chargers[a].id
    BY <1>1 DEF IdsAreLastRows
  <2>1. CASE a \in dirty
    BY <1>0, <2>1, WrittenRows DEF SavedId
  <2>2. CASE a \notin dirty
    BY <1>0, <1>1, <2>2, WrittenRows DEF IdsAreLastRows
  <2> QED
    BY <2>1, <2>2
<1>4. SideMapsExclusive' /\ GenuineHasNoConflict'
  BY <1>1 DEF SideMapsExclusive, GenuineHasNoConflict
<1>5. PersistedIsKnown'
  BY <1>0, <1>1, WrittenRows DEF PersistedIsKnown, Persisted
<1>6. CleanIsDurable'
  <2> SUFFICES ASSUME NEW a \in DOMAIN chargers \ dirty PROVE Agrees(a)'
    BY <1>1, CleanAgreesNext
  <2>1. Agrees(a)
    BY CleanAgrees
  <2>2. /\ RowIds(table', a) = RowIds(table, a)
        /\ \A i \in RowIds(table, a) : table'[i] = table[i]
    BY <1>0, <1>1, WrittenRows
  <2>3. a \in Persisted(table) /\ a \in Persisted(table')
    BY <2>1, <2>2 DEF Agrees, Persisted
  <2>4. LastId(table, a) \in RowIds(table, a)
    <3>1. nextId - 1 \in Nat /\ DOMAIN table \subseteq 1..(nextId - 1)
      BY BoundAssumption DEF TypeOK
    <3> QED
      BY <2>3, <3>1, LastIdIsLast
  <2>5. LastId(table', a) = LastId(table, a)
        /\ LastRow(table', a) = LastRow(table, a)
    BY <2>2, <2>4 DEF LastId, LastRow
  <2> QED
    BY <1>1, <2>1, <2>3, <2>5 DEF Agrees
<1> QED
  BY <1>2, <1>3, <1>4, <1>5, <1>6

\* Every outcome of doFlushLocked preserves the invariant.
LEMMA DoFlushIsCorrect ==
  ASSUME Inv, DoFlush, mu' \in {"free", "refresh"},
         toVisit' \subseteq DOMAIN chargers
  PROVE  Inv'
<1>1. CASE UNCHANGED <<memory, disk>>
  BY <1>1, OnlyLockIsCorrect
<1>2. CASE /\ nextId + Cardinality(Fresh) - 1 <= MaxId
           /\ \E ids \in FreshIds : SaveOk(ids) \/ SaveUnacknowledged(ids)
  BY <1>2, SaveOkIsCorrect, SaveUnacknowledgedIsCorrect
<1> QED
  BY <1>1, <1>2 DEF DoFlush, SaveFailed

\* A restart rebuilds a correct memory from whatever the table holds.
LEMMA RestartIsCorrect ==
  ASSUME Inv, Restart
  PROVE  Inv'
<1>1. JustLoaded'
  BY DEF Inv, TypeOK, Restart, Load, disk, JustLoaded
<1> QED
  BY <1>1, LoadIsCorrect, PTL

\* Every step of the store preserves the invariant.
LEMMA NextIsCorrect == Inv /\ [Next]_vars => Inv'
<1> SUFFICES ASSUME Inv, [Next]_vars PROVE Inv'
  OBVIOUS
<1>0. mu \in {"free", "refresh"} /\ toVisit \subseteq DOMAIN chargers
  BY DEF Inv, TypeOK
<1>1. ASSUME NEW from \in Addr \cup Malformed, NEW to \in Addr \cup Malformed,
             NEW toName \in Name, ApplyCharge(from, to, TRUE, toName)
      PROVE  Inv'
  BY <1>1, ApplyChargeIsCorrect
<1>2. ASSUME NEW from \in Addr \cup Malformed, NEW to \in Addr \cup Malformed,
             ApplyCharge(from, to, FALSE, None)
      PROVE  Inv'
  BY <1>2, ApplyChargeIsCorrect
<1>3. CASE FlushDirty
  BY <1>0, <1>3, DoFlushIsCorrect DEF FlushDirty, lock
<1>4. CASE BeginRefresh
  BY <1>4, OnlyLockIsCorrect DEF BeginRefresh
<1>5. ASSUME NEW a \in toVisit, NEW newName \in Name,
             NEW ex \in Name \cup {None}, RefreshCharger(a, newName, ex)
      PROVE  Inv'
  BY <1>5, RefreshChargerIsCorrect
<1>6. CASE EndRefresh
  BY <1>0, <1>6, DoFlushIsCorrect DEF EndRefresh
<1>7. CASE Restart
  BY <1>7, RestartIsCorrect
<1>8. CASE UNCHANGED vars
  BY <1>0, <1>8, OnlyLockIsCorrect DEF vars, lock
<1> QED
  BY <1>1, <1>2, <1>3, <1>4, <1>5, <1>6, <1>7, <1>8 DEF Next

\* The invariant holds in every reachable state.
THEOREM Invariance == Spec => []Inv
BY InitIsCorrect, NextIsCorrect, PTL DEF Spec

\* The store is type correct: no entry refers to an unknown address and no id
\* outgrows its column.
THEOREM TypeCorrect == Spec => []TypeOK
<1>1. Inv => TypeOK
  BY DEF Inv
<1> QED
  BY <1>1, Invariance, PTL

\* The single BackupAddress column can represent every state of the two maps.
THEOREM BackupsExclusive == Spec => []SideMapsExclusive
<1>1. Inv => SideMapsExclusive
  BY DEF Inv
<1> QED
  BY <1>1, Invariance, PTL

\* A genuine charger never has a conflicting exchange as its backup.
THEOREM GenuineWithoutConflict == Spec => []GenuineHasNoConflict
<1>1. Inv => GenuineHasNoConflict
  BY DEF Inv
<1> QED
  BY <1>1, Invariance, PTL

\* What is not pending survives a crash unchanged, whatever saves failed or
\* went unacknowledged before.
THEOREM CleanSurvivesCrash == Spec => []CleanIsDurable
<1>1. Inv => CleanIsDurable
  BY DEF Inv
<1> QED
  BY <1>1, Invariance, PTL

\* The id of an entry is that of the last row of its address, the one that a
\* load would keep, whatever saves left older rows behind.
THEOREM IdsOfLastRows == Spec => []IdsAreLastRows
<1>1. Inv => IdsAreLastRows
  BY DEF Inv
<1> QED
  BY <1>1, Invariance, PTL

\* An address that has a row is known to the store.
THEOREM NoRowForgotten == Spec => []PersistedIsKnown
<1>1. Inv => PersistedIsKnown
  BY DEF Inv
<1> QED
  BY <1>1, Invariance, PTL

-----------------------------------------------------------------------------
(* What may take a fake mark away, and that no address is inserted twice.    *)

\* What FakeIsSticky says of one step.
MarksStick ==
  \A a \in DOMAIN chargers :
    chargers[a].isFake /\ a \in DOMAIN chargers' /\ ~chargers'[a].isFake =>
      \/ /\ chargers'[a].exchangeName # chargers[a].exchangeName
         /\ ~HasBackup(a)
      \/ a \in dirty \ dirty'

\* A step that keeps the marks of all entries that it keeps.
LEMMA MarksKept ==
  ASSUME \A a \in DOMAIN chargers :
           a \in DOMAIN chargers' /\ chargers[a].isFake => chargers'[a].isFake
  PROVE  MarksStick
BY DEF MarksStick

\* A charge sets marks only, and adds an entry only where there was none.
LEMMA ChargesKeepMarks ==
  ASSUME Inv, NEW from, NEW to, NEW isEx, NEW toName,
         ApplyCharge(from, to, isEx, toName)
  PROVE  MarksStick
<1>0. chargers \in [DOMAIN chargers -> Charger]
  BY DEF Inv, TypeOK
<1>1. CASE ChargeNew(from, isEx, toName)
  BY <1>0, <1>1, MarksKept DEF ChargeNew, Put
<1>2. ASSUME Genuine(from), chargers' = [chargers EXCEPT ![from].isFake = TRUE]
      PROVE  MarksStick
  BY <1>0, <1>2, MarksKept DEF Genuine, Charger
<1>3. CASE UNCHANGED chargers
  BY <1>3, MarksKept
<1> QED
  BY <1>1, <1>2, <1>3
     DEF ApplyCharge, ChargeConflict, ChargeFirstAddress, ChargeSecondAddress,
         ChargeIgnored, memory

\* A refresh takes a mark back with a renaming, from an entry without a backup.
LEMMA RefreshKeepsMarks ==
  ASSUME Inv, NEW a \in toVisit, NEW newName, NEW ex,
         RefreshCharger(a, newName, ex)
  PROVE  MarksStick
<1>0. chargers \in [DOMAIN chargers -> Charger] /\ a \in DOMAIN chargers
  BY DEF Inv, TypeOK
<1>1. \A b \in DOMAIN chargers \ {a} : chargers'[b] = chargers[b]
  BY <1>0 DEF RefreshCharger
<1>2. chargers'[a].exchangeName = newName
  BY <1>0 DEF RefreshCharger, Charger
<1>3. chargers[a].isFake /\ ~chargers'[a].isFake =>
        newName # chargers[a].exchangeName /\ ~HasBackup(a)
  BY <1>0 DEF RefreshCharger, Charger
<1> QED
  BY <1>1, <1>2, <1>3 DEF MarksStick

\* A flush changes ids only.
LEMMA FlushKeepsMarks ==
  ASSUME Inv, DoFlush
  PROVE  MarksStick
<1>0. chargers \in [DOMAIN chargers -> Charger]
  BY DEF Inv, TypeOK
<1>1. ASSUME NEW ids, SaveOk(ids) PROVE MarksStick
  BY <1>0, <1>1, MarksKept DEF SaveOk, Charger
<1>2. CASE UNCHANGED chargers
  BY <1>2, MarksKept
<1> QED
  BY <1>1, <1>2 DEF DoFlush, SaveUnacknowledged, SaveFailed, memory

\* A restart loses a mark only if it was pending.
LEMMA RestartKeepsMarks ==
  ASSUME Inv, Restart
  PROVE  MarksStick
<1>1. \A a \in DOMAIN chargers \ dirty : LoadedChargers(table)[a] = chargers[a]
  BY DEF Inv, CleanIsDurable
<1>2. chargers' = LoadedChargers(table) /\ dirty' = {}
  BY DEF Restart, Load
<1> QED
  BY <1>1, <1>2 DEF MarksStick

\* Once fake, a charger stays fake, but for a renaming without a backup and
\* for a crash before the mark was stored.
THEOREM FakeMarksStick == Spec => FakeIsSticky
<1>1. Inv /\ [Next]_vars => [MarksStick]_vars
  <2> SUFFICES ASSUME Inv, Next PROVE MarksStick
    OBVIOUS
  <2>1. CASE FlushDirty \/ EndRefresh
    BY <2>1, FlushKeepsMarks DEF FlushDirty, EndRefresh
  <2>2. CASE BeginRefresh
    BY <2>2, MarksKept DEF BeginRefresh, memory
  <2> QED
    BY <2>1, <2>2, ChargesKeepMarks, RefreshKeepsMarks, RestartKeepsMarks DEF Next
<1>2. FakeIsSticky <=> [][MarksStick]_vars
  BY DEF FakeIsSticky, MarksStick
<1> QED
  BY <1>1, <1>2, Invariance, PTL DEF Spec

-----------------------------------------------------------------------------

\* Every address has at most one row, and none while its entry has no id.
RowsSingle ==
  /\ \A a \in Addr : \A i, j \in RowIds(table, a) : i = j
  /\ \A a \in DOMAIN chargers : chargers[a].id = 0 => RowIds(table, a) = {}

\* RowsSingle says what OneRowPerAddress says, and more.
LEMMA SingleRows == RowsSingle => OneRowPerAddress
BY DEF RowsSingle, OneRowPerAddress, RowIds


\* An entry that is not pending has an id.
LEMMA NoIdIsPending == Inv => \A a \in DOMAIN chargers : chargers[a].id = 0 => a \in dirty
<1>1. TypeOK => DOMAIN table \subseteq 1..(nextId - 1)
  BY DEF TypeOK
<1> QED
  BY <1>1 DEF Inv, IdsAreLastRows, RowIds

\* Steps that change neither the table nor an id.
LEMMA TableUntouched ==
  ASSUME RowsSingle, UNCHANGED table,
         \A a \in DOMAIN chargers' :
           \/ a \in DOMAIN chargers /\ chargers'[a].id = chargers[a].id
           \/ RowIds(table, a) = {}
  PROVE  RowsSingle'
BY DEF RowsSingle, RowIds

\* After a Save an address has the row just written, or what it had before.
LEMMA SavedRows ==
  ASSUME Inv, RowsSingle, nextId + Cardinality(Fresh) - 1 <= MaxId,
         NEW ids \in FreshIds, WriteRows(ids)
  PROVE  \A a \in dirty : RowIds(table', a) = {SavedId(a, ids)}
<1>1. dirty \subseteq DOMAIN chargers /\ dirty \subseteq Addr
  BY DEF Inv, TypeOK
<1> SUFFICES ASSUME NEW a \in dirty, NEW i \in RowIds(table', a)
             PROVE  i = SavedId(a, ids)
  BY WrittenRows
<1>2. CASE i \in SavedIds(ids)
  <2>1. PICK b \in dirty : i = SavedId(b, ids)
    BY <1>2 DEF SavedIds
  <2>2. table'[i].address = b
    BY <2>1, WrittenRows DEF RowIds
  <2> QED
    BY <2>1, <2>2 DEF RowIds
<1>3. CASE i \notin SavedIds(ids)
  <2>1. i \in RowIds(table, a)
    BY <1>3 DEF WriteRows, RowIds
  <2>2. chargers[a].id # 0 /\ SavedId(a, ids) = chargers[a].id
    BY <1>1, <2>1 DEF RowsSingle, SavedId
  <2>3. SavedId(a, ids) \in RowIds(table, a)
    BY <1>1, <2>2 DEF Inv, IdsAreLastRows
  <2> QED
    BY <1>1, <2>1, <2>3 DEF RowsSingle
<1> QED
  BY <1>2, <1>3

\* A flush that knows what it did keeps one row per address.
LEMMA FlushKeepsSingle ==
  ASSUME Inv, RowsSingle, ~LoseAcks, DoFlush
  PROVE  RowsSingle'
<1>0. /\ dirty \subseteq DOMAIN chargers /\ DOMAIN chargers \subseteq Addr
      /\ chargers \in [DOMAIN chargers -> Charger]
  BY DEF Inv, TypeOK
<1>1. CASE UNCHANGED <<memory, disk>>
  BY <1>1, TableUntouched DEF memory, disk
<1>2. ASSUME nextId + Cardinality(Fresh) - 1 <= MaxId, NEW ids \in FreshIds, SaveOk(ids)
      PROVE  RowsSingle'
  <2>1. WriteRows(ids)
    BY <1>2 DEF SaveOk
  <2>2. \A a \in dirty : RowIds(table', a) = {SavedId(a, ids)}
    BY <1>2, <2>1, SavedRows
  <2>3. \A a \in Addr \ dirty : RowIds(table', a) = RowIds(table, a)
    BY <1>2, <2>1, WrittenRows
  <2>4. \A a \in Addr : \A i, j \in RowIds(table', a) : i = j
    BY <2>2, <2>3 DEF RowsSingle
  <2>5. ASSUME NEW a \in DOMAIN chargers', chargers'[a].id = 0
        PROVE  RowIds(table', a) = {}
    <3>1. CASE a \in dirty
      <4>1. chargers'[a].id = SavedId(a, ids)
        BY <1>0, <1>2, <3>1 DEF SaveOk, Charger
      <4>2. SavedId(a, ids) # 0
        BY <1>2, <3>1, SavedIdFacts
      <4> QED
        BY <2>5, <4>1, <4>2
    <3>2. CASE a \notin dirty
      <4>1. a \in DOMAIN chargers /\ chargers[a].id = 0
        BY <1>2, <2>5, <3>2 DEF SaveOk
      <4> QED
        BY <1>0, <2>3, <3>2, <4>1 DEF RowsSingle
    <3> QED
      BY <3>1, <3>2
  <2> QED
    BY <2>4, <2>5 DEF RowsSingle, RowIds
<1> QED
  BY <1>1, <1>2 DEF DoFlush, SaveFailed, SaveUnacknowledged

\* Charges add entries without an id only for addresses without a row.
LEMMA ChargesKeepSingle ==
  ASSUME Inv, RowsSingle, NEW from, NEW to, NEW isEx, NEW toName,
         ApplyCharge(from, to, isEx, toName)
  PROVE  RowsSingle'
<1>0. chargers \in [DOMAIN chargers -> Charger] /\ UNCHANGED table
  BY DEF Inv, TypeOK, ApplyCharge, disk
<1>1. CASE ChargeNew(from, isEx, toName)
  <2>1. RowIds(table, from) = {}
    BY <1>1 DEF ChargeNew, Inv, PersistedIsKnown, Persisted
  <2>2. \A a \in DOMAIN chargers' :
          a = from \/ (a \in DOMAIN chargers /\ chargers'[a] = chargers[a])
    BY <1>1 DEF ChargeNew, Put
  <2> QED
    BY <1>0, <2>1, <2>2, TableUntouched
<1>2. ASSUME Genuine(from), chargers' = [chargers EXCEPT ![from].isFake = TRUE]
      PROVE  RowsSingle'
  <2>1. \A a \in DOMAIN chargers' : a \in DOMAIN chargers /\ chargers'[a].id = chargers[a].id
    BY <1>0, <1>2 DEF Genuine, Charger
  <2> QED
    BY <1>0, <2>1, TableUntouched
<1>3. CASE UNCHANGED chargers
  BY <1>0, <1>3, TableUntouched
<1> QED
  BY <1>1, <1>2, <1>3
     DEF ApplyCharge, ChargeConflict, ChargeFirstAddress, ChargeSecondAddress,
         ChargeIgnored, memory

\* Every step keeps one row per address.
LEMMA NextKeepsSingle ==
  ASSUME Inv, Inv', RowsSingle, ~LoseAcks, [Next]_vars
  PROVE  RowsSingle'
<1>1. CASE FlushDirty \/ EndRefresh
  BY <1>1, FlushKeepsSingle DEF FlushDirty, EndRefresh
<1>2. CASE BeginRefresh \/ UNCHANGED vars
  BY <1>2, TableUntouched DEF BeginRefresh, memory, disk, vars
<1>3. ASSUME NEW a \in toVisit, NEW newName, NEW ex, RefreshCharger(a, newName, ex)
      PROVE  RowsSingle'
  <2>0. chargers \in [DOMAIN chargers -> Charger] /\ a \in DOMAIN chargers
    BY DEF Inv, TypeOK
  <2>1. \A b \in DOMAIN chargers' : b \in DOMAIN chargers /\ chargers'[b].id = chargers[b].id
    BY <1>3, <2>0 DEF RefreshCharger, Charger
  <2> QED
    BY <1>3, <2>1, TableUntouched DEF RefreshCharger, disk
<1>4. CASE Restart
  <2>1. UNCHANGED table /\ dirty' = {}
    BY <1>4 DEF Restart, Load, disk
  <2>2. (\A a \in DOMAIN chargers : chargers[a].id = 0 => a \in dirty)'
    BY NoIdIsPending, PTL
  <2> QED
    BY <2>1, <2>2 DEF RowsSingle, RowIds
<1> QED
  BY <1>1, <1>2, <1>3, <1>4, ChargesKeepSingle DEF Next

\* When an error means that nothing was written, and the table is deployed
\* with one row per address, no address ever gets a second row: failed
\* flushes and crashes at any point insert nobody twice.
THEOREM NobodyInsertedTwice ==
  ASSUME ~LoseAcks,
         \A t \in InitialTables, a \in Addr : \A i, j \in RowIds(t, a) : i = j
  PROVE  Spec => []OneRowPerAddress
<1>1. Init /\ Inv => RowsSingle
  BY NoIdIsPending DEF Init, RowsSingle
<1>2. Inv /\ Inv' /\ RowsSingle /\ [Next]_vars => RowsSingle'
  BY NextKeepsSingle
<1> QED
  BY <1>1, <1>2, SingleRows, Invariance, PTL DEF Spec

-----------------------------------------------------------------------------
(* The store implements the ledger.                                          *)

\* The backup column is empty, an address or a name according to the side map
\* that holds the backup.
LEMMA BackupShape ==
  ASSUME Inv, NEW a \in DOMAIN chargers
  PROVE  /\ Backup(a) \in Addr \cup Name \cup {None}
         /\ a \in DOMAIN addrBackups <=> Backup(a) \in Addr
         /\ a \in DOMAIN addrBackups => Backup(a) = addrBackups[a]
         /\ Backup(a) = None <=> ~HasBackup(a)
         /\ ~chargers[a].isFake => Backup(a) \notin Name
BY AddrAssumption
   DEF Inv, TypeOK, SideMapsExclusive, GenuineHasNoConflict, Backup, HasBackup

\* Views have the type of the ledger's records.
LEMMA ViewsAreRecords ==
  ASSUME Inv
  PROVE  /\ \A a \in DOMAIN chargers : View(a) \in Ledger!Record
         /\ \A a \in Persisted(table) : DurableView(a) \in Ledger!Record
<1>1. ASSUME NEW a \in DOMAIN chargers PROVE View(a) \in Ledger!Record
  <2>1. chargers[a] \in Charger
    BY DEF Inv, TypeOK
  <2> QED
    BY <2>1, BackupShape DEF View, Ledger!Record, Charger
<1>2. ASSUME NEW a \in Persisted(table) PROVE DurableView(a) \in Ledger!Record
  <2>1. LastId(table, a) \in RowIds(table, a)
    <3>1. nextId - 1 \in Nat /\ DOMAIN table \subseteq 1..(nextId - 1)
      BY BoundAssumption DEF Inv, TypeOK
    <3> QED
      BY <3>1, LastIdIsLast
  <2>2. LastRow(table, a) \in Row
    BY <2>1 DEF Inv, TypeOK, LastRow, RowIds
  <2> QED
    BY <2>2 DEF DurableView, Ledger!Record, Row
<1> QED
  BY <1>1, <1>2

\* For an entry that is not pending, the two views coincide.
LEMMA CleanViews ==
  ASSUME Inv, NEW a \in DOMAIN chargers \ dirty
  PROVE  a \in Persisted(table) /\ View(a) = DurableView(a)
<1>1. Agrees(a)
  BY CleanAgrees DEF Inv
<1>2. LastId(table, a) \in RowIds(table, a)
  <2>1. nextId - 1 \in Nat /\ DOMAIN table \subseteq 1..(nextId - 1)
    BY BoundAssumption DEF Inv, TypeOK
  <2> QED
    BY <1>1, <2>1, LastIdIsLast DEF Agrees
<1>3. LastRow(table, a) \in Row
  BY <1>2 DEF Inv, TypeOK, LastRow, RowIds
<1>4. /\ chargers[a].exchangeName = LastRow(table, a).exchangeName
      /\ chargers[a].isFake = LastRow(table, a).isFake
  BY <1>1 DEF Agrees
<1>5. Backup(a) = IF LastRow(table, a).backup \in Name /\ ~LastRow(table, a).isFake
                  THEN None ELSE LastRow(table, a).backup
  BY <1>1, <1>3, AddrAssumption DEF Agrees, Backup, Row
<1> QED
  BY <1>1, <1>4, <1>5 DEF Agrees, View, DurableView

\* The same in the next state.
LEMMA CleanViewsNext ==
  Inv' => (\A a \in DOMAIN chargers \ dirty :
             a \in Persisted(table) /\ View(a) = DurableView(a))'
<1>1. Inv => \A a \in DOMAIN chargers \ dirty :
                a \in Persisted(table) /\ View(a) = DurableView(a)
  BY CleanViews
<1> QED
  BY <1>1, PTL

\* A step that changes the view of one key only is a write of that key.
LEMMA OneKeyChanges ==
  ASSUME NEW a, DOMAIN chargers' = DOMAIN chargers \cup {a},
         \A x \in DOMAIN chargers \ {a} : View(x)' = View(x),
         dirty' = dirty \cup {a}, table' = table
  PROVE  Ledger!Write(a, View(a)')
<1>1. LedgerCharger' = [x \in DOMAIN LedgerCharger \cup {a} |->
                          IF x = a THEN View(a)' ELSE LedgerCharger[x]]
  BY DEF LedgerCharger
<1>2. LedgerDurable' = LedgerDurable
  BY DEF LedgerDurable, DurableView, Persisted, RowIds, LastRow, LastId
<1> QED
  BY <1>1, <1>2 DEF Ledger!Write

\* A step that changes no view, no row and nothing pending is a stutter.
LEMMA NothingChanges ==
  ASSUME UNCHANGED <<memory, table>>
  PROVE  UNCHANGED Ledger!vars
BY DEF memory, Ledger!vars, LedgerCharger, LedgerDurable, View, Backup,
       DurableView, Persisted, RowIds, LastRow, LastId

\* The ledger's start is the store's start.
LEMMA InitImplements == Init => Ledger!Init
<1> SUFFICES ASSUME Init PROVE Ledger!Init
  OBVIOUS
<1>1. Inv
  BY InitIsCorrect
<1>2. DOMAIN chargers = Persisted(table) /\ dirty = {}
  BY DEF Init, LoadedChargers
<1>3. LedgerCharger = LedgerDurable
  BY <1>1, <1>2, CleanViews DEF LedgerCharger, LedgerDurable
<1>4. LedgerDurable \in [Persisted(table) -> Ledger!Record]
  BY <1>1, ViewsAreRecords DEF LedgerDurable
<1> QED
  BY <1>2, <1>3, <1>4 DEF Ledger!Init, Persisted

-----------------------------------------------------------------------------
\* A branch of ApplyCharge is a step of the state machine or a stutter.
LEMMA ApplyChargeImplements ==
  ASSUME Inv, Inv',
         NEW from \in Addr \cup Malformed, NEW to \in Addr \cup Malformed,
         NEW toIsExchange \in BOOLEAN, NEW toName \in Name \cup {None},
         toIsExchange => toName \in Name,
         ApplyCharge(from, to, toIsExchange, toName)
  PROVE  [Ledger!Next]_(Ledger!vars)
<1>0. table' = table
  BY DEF ApplyCharge, disk
<1>1. CASE ChargeNew(from, toIsExchange, toName)
  <2>1. /\ from \in Addr \ DOMAIN chargers /\ toName \in Name
        /\ from \notin DOMAIN LedgerCharger
    BY <1>1 DEF ChargeNew, LedgerCharger
  <2>2. View(from)' = Ledger!Entry(toName, None, FALSE)
    <3>1. chargers'[from] = [id |-> 0, exchangeName |-> toName, isFake |-> FALSE]
      BY <1>1 DEF ChargeNew, Put
    <3>2. Backup(from)' = None
      BY <1>1 DEF ChargeNew, Backup, Inv, TypeOK
    <3> QED
      BY <3>1, <3>2 DEF View, Ledger!Entry
  <2>3. Ledger!Write(from, View(from)')
    <3>1. DOMAIN chargers' = DOMAIN chargers \cup {from} /\ dirty' = dirty \cup {from}
      BY <1>1 DEF ChargeNew, Put
    <3>2. \A x \in DOMAIN chargers \ {from} : View(x)' = View(x)
      BY <1>1 DEF ChargeNew, Put, View, Backup
    <3> QED
      BY <1>0, <3>1, <3>2, OneKeyChanges
  <2>4. Ledger!Discover(from, toName)
    BY <2>1, <2>2, <2>3 DEF Ledger!Discover
  <2> QED
    BY <2>1, <2>4 DEF Ledger!Next
<1>2. CASE ~ChargeNew(from, toIsExchange, toName) /\ Genuine(from)
           /\ ~ChargeIgnored(from, to, toIsExchange, toName)
  <2>1. /\ from \in DOMAIN chargers /\ from \in Addr /\ ~chargers[from].isFake
        /\ chargers[from] \in Charger
        /\ DOMAIN LedgerCharger = DOMAIN chargers
        /\ LedgerCharger[from] = View(from)
    BY <1>2 DEF Genuine, Inv, TypeOK, LedgerCharger
  <2>6. View(from).backup = Backup(from)
    BY DEF View
  <2>2. Ledger!Genuine(from)
    BY <2>1 DEF Ledger!Genuine, View
  <2>3. CASE ChargeConflict(from, toIsExchange, toName)
    <3>1. /\ toName \in Name /\ toName # View(from).exchangeName
          /\ dirty' = dirty \cup {from} /\ DOMAIN chargers' = DOMAIN chargers
      BY <2>3 DEF ChargeConflict, View
    <3>2. Backup(from)' = toName
      BY <2>3 DEF ChargeConflict, Backup, Put, Drop
    <3>3. View(from)' = Ledger!Entry(View(from).exchangeName, toName, TRUE)
      <4>1. /\ chargers'[from].exchangeName = chargers[from].exchangeName
            /\ chargers'[from].isFake = TRUE
        BY <2>1, <2>3 DEF ChargeConflict, Charger
      <4> QED
        BY <3>2, <4>1 DEF View, Ledger!Entry
    <3>4. \A x \in DOMAIN chargers \ {from} : View(x)' = View(x)
      BY <2>3 DEF ChargeConflict, Put, Drop, View, Backup
    <3>5. Ledger!Write(from, View(from)')
      BY <1>0, <2>1, <3>1, <3>4, OneKeyChanges
    <3>6. Ledger!Conflict(from, toName)
      BY <2>1, <2>2, <3>1, <3>3, <3>5 DEF Ledger!Conflict
    <3> QED
      BY <2>1, <3>1, <3>6 DEF Ledger!Next
  <2>4. CASE ChargeFirstAddress(from, to, toIsExchange)
    <3>1. /\ to \in Addr /\ from \notin DOMAIN addrBackups /\ chargers' = chargers
          /\ dirty' = dirty \cup {from}
      BY <2>4 DEF ChargeFirstAddress
    <3>2. Backup(from) = None
      BY <2>1, <3>1, BackupShape
    <3>3. Backup(from)' = to
      BY <2>4 DEF ChargeFirstAddress, Backup, Put
    <3>4. View(from)' = Ledger!Entry(View(from).exchangeName, to, FALSE)
      <4>1. chargers[from].isFake = FALSE
        BY <2>1 DEF Charger
      <4> QED
        BY <3>1, <3>3, <4>1 DEF View, Ledger!Entry
    <3>5. \A x \in DOMAIN chargers \ {from} : View(x)' = View(x)
      BY <2>4 DEF ChargeFirstAddress, Put, View, Backup
    <3>6. Ledger!Write(from, View(from)')
      BY <1>0, <2>1, <3>1, <3>5, OneKeyChanges
    <3>7. Ledger!FirstUnknown(from, to)
      BY <2>1, <2>2, <2>6, <3>2, <3>4, <3>6 DEF Ledger!FirstUnknown
    <3> QED
      BY <2>1, <3>1, <3>7 DEF Ledger!Next
  <2>5. CASE ChargeSecondAddress(from, to, toIsExchange)
    <3>1. /\ from \in DOMAIN addrBackups /\ to # addrBackups[from]
          /\ dirty' = dirty \cup {from} /\ DOMAIN chargers' = DOMAIN chargers
      BY <2>5 DEF ChargeSecondAddress
    <3>2. Backup(from) \notin {None, to}
      BY <2>1, <3>1, BackupShape DEF HasBackup
    <3>3. Backup(from)' = Backup(from)
      BY <2>5 DEF ChargeSecondAddress, Backup
    <3>4. View(from)' = Ledger!Entry(View(from).exchangeName, View(from).backup, TRUE)
      <4>1. /\ chargers'[from].exchangeName = chargers[from].exchangeName
            /\ chargers'[from].isFake = TRUE
        BY <2>1, <2>5 DEF ChargeSecondAddress, Charger
      <4> QED
        BY <3>3, <4>1 DEF View, Ledger!Entry
    <3>5. \A x \in DOMAIN chargers \ {from} : View(x)' = View(x)
      BY <2>5 DEF ChargeSecondAddress, View, Backup
    <3>6. Ledger!Write(from, View(from)')
      BY <1>0, <2>1, <3>1, <3>5, OneKeyChanges
    <3>7. Ledger!SecondUnknown(from, to)
      BY <2>1, <2>2, <2>6, <3>2, <3>4, <3>6 DEF Ledger!SecondUnknown
    <3> QED
      BY <2>1, <3>7 DEF Ledger!Next
  <2> QED
    BY <1>2, <2>3, <2>4, <2>5 DEF ApplyCharge
<1>3. CASE ChargeIgnored(from, to, toIsExchange, toName)
  BY <1>0, <1>3, NothingChanges DEF ChargeIgnored
<1> QED
  BY <1>1, <1>2, <1>3
     DEF ApplyCharge, ChargeConflict, ChargeFirstAddress, ChargeSecondAddress

\* An iteration of Refresh renames, reconciles a backup, or does nothing.
LEMMA RefreshChargerImplements ==
  ASSUME Inv, NEW a \in toVisit, NEW newName \in Name,
         NEW ex \in Name \cup {None}, RefreshCharger(a, newName, ex)
  PROVE  [Ledger!Next]_(Ledger!vars)
<1>1. /\ a \in DOMAIN chargers /\ a \in Addr /\ chargers[a] \in Charger
      /\ DOMAIN LedgerCharger = DOMAIN chargers
      /\ LedgerCharger[a] = View(a)
  BY DEF Inv, TypeOK, LedgerCharger
<1>2. /\ table' = table /\ DOMAIN chargers' = DOMAIN chargers
      /\ \A x \in DOMAIN chargers \ {a} : View(x)' = View(x)
      /\ dirty' \in {dirty, dirty \cup {a}}
  BY DEF RefreshCharger, disk, View, Backup, Drop
<1> DEFINE renamed == newName # chargers[a].exchangeName
           stillFake == chargers[a].isFake /\ ~(renamed /\ ~HasBackup(a))
           reconciled == a \in DOMAIN addrBackups /\ ex # None
<1>3. /\ chargers'[a].exchangeName = newName
      /\ chargers'[a].isFake = (stillFake \/ (reconciled /\ ex # newName))
      /\ chargers'[a].id = chargers[a].id
  BY <1>1 DEF RefreshCharger, Charger
<1>4. ASSUME dirty' = dirty \cup {a} PROVE Ledger!Write(a, View(a)')
  BY <1>1, <1>2, <1>4, OneKeyChanges
<1>5. /\ View(a).exchangeName = chargers[a].exchangeName
      /\ View(a).backup = Backup(a)
      /\ View(a).isFake = chargers[a].isFake
  BY DEF View
<1>6. CASE reconciled /\ ex = newName
  <2>1. /\ dirty' = dirty \cup {a} /\ Backup(a)' = None
        /\ stillFake = chargers[a].isFake
    BY <1>1, <1>6
       DEF RefreshCharger, Backup, Drop, Inv, SideMapsExclusive, HasBackup, Charger
  <2>2. View(a).backup \in Addr
    BY <1>1, <1>5, <1>6, BackupShape
  <2>3. View(a)' = Ledger!Entry(newName, None, View(a).isFake)
    <3>1. chargers'[a].isFake = chargers[a].isFake
      BY <1>1, <1>3, <1>6, <2>1 DEF Charger
    <3> QED
      BY <1>3, <2>1, <3>1 DEF View, Ledger!Entry
  <2>4. Ledger!BackupConfirmed(a, newName)
    BY <1>1, <1>4, <2>1, <2>2, <2>3 DEF Ledger!BackupConfirmed
  <2> QED
    BY <1>1, <2>4 DEF Ledger!Next
<1>7. CASE ~(reconciled /\ ex = newName)
  <2>1. Backup(a)' = Backup(a)
    BY <1>7 DEF RefreshCharger, Backup
  <2>2. CASE reconciled /\ ex # newName /\ dirty' = dirty \cup {a}
    <3>1. View(a).backup \in Addr
      BY <1>1, <1>5, <2>2, BackupShape
    <3>2. View(a)' = Ledger!Entry(newName, View(a).backup, TRUE)
      <4>1. chargers'[a].isFake = TRUE
        BY <1>3, <2>2
      <4> QED
        BY <1>3, <2>1, <4>1 DEF View, Ledger!Entry
    <3>3. Ledger!BackupConflicts(a, newName)
      BY <1>1, <1>4, <2>2, <3>1, <3>2 DEF Ledger!BackupConflicts
    <3> QED
      BY <1>1, <3>3 DEF Ledger!Next
  <2>3. CASE ~reconciled /\ renamed
    <3>1. dirty' = dirty \cup {a}
      BY <2>3 DEF RefreshCharger
    <3>2. HasBackup(a) <=> View(a).backup # None
      BY <1>1, <1>5, BackupShape
    <3>3. chargers'[a].isFake = (View(a).isFake /\ View(a).backup # None)
      BY <1>1, <1>3, <2>3, <3>2 DEF View, Charger
    <3>4. View(a)' = Ledger!Entry(newName, View(a).backup,
                                  View(a).isFake /\ View(a).backup # None)
      BY <1>3, <2>1, <3>3 DEF View, Ledger!Entry
    <3>7. a \in DOMAIN LedgerCharger /\ newName # LedgerCharger[a].exchangeName
      BY <1>1, <2>3 DEF View
    <3>8. Ledger!Rename(a, newName)
      BY <1>1, <1>4, <3>1, <3>4, <3>7 DEF Ledger!Rename
    <3> QED
      BY <1>1, <3>8 DEF Ledger!Next
  <2>4. CASE ~renamed /\ (~reconciled \/ dirty' # dirty \cup {a})
    <3>1. /\ dirty' = dirty /\ addrBackups' = addrBackups
          /\ confBackups' = confBackups
          /\ chargers'[a].isFake = chargers[a].isFake
      BY <1>1, <1>3, <1>7, <2>4 DEF RefreshCharger, Charger
    <3>2. chargers'[a] = chargers[a]
      BY <1>1, <1>3, <2>4, <3>1 DEF RefreshCharger, Charger
    <3>3. chargers' = chargers
      BY <3>2 DEF RefreshCharger, Inv, TypeOK
    <3> QED
      BY <1>2, <3>1, <3>3, NothingChanges DEF memory
  <2> QED
    BY <1>7, <2>2, <2>3, <2>4 DEF RefreshCharger
<1> QED
  BY <1>6, <1>7

\* A flush, whatever its outcome, is a Persist or a stutter.
LEMMA DoFlushImplements ==
  ASSUME Inv, Inv', DoFlush
  PROVE  [Ledger!Next]_(Ledger!vars)
<1>1. CASE UNCHANGED <<memory, disk>>
  BY <1>1, NothingChanges DEF disk
<1>2. ASSUME dirty # {}, nextId + Cardinality(Fresh) - 1 <= MaxId,
             NEW ids \in FreshIds, SaveOk(ids) \/ SaveUnacknowledged(ids)
      PROVE  Ledger!Persist
  <2>0. WriteRows(ids)
    BY <1>2 DEF SaveOk, SaveUnacknowledged
  <2>1. /\ dirty \subseteq DOMAIN chargers /\ DOMAIN chargers \subseteq Addr
        /\ dirty' \in {{}, dirty}
        /\ DOMAIN chargers' = DOMAIN chargers
        /\ addrBackups' = addrBackups /\ confBackups' = confBackups
    BY <1>2 DEF Inv, TypeOK, SaveOk, SaveUnacknowledged, memory
  <2>2. ASSUME NEW a \in DOMAIN chargers PROVE View(a)' = View(a)
    <3>1. CASE SaveOk(ids) /\ a \in dirty
      <4>1. /\ chargers[a] \in Charger
            /\ chargers'[a] = [chargers[a] EXCEPT !.id = SavedId(a, ids)]
        BY <3>1 DEF SaveOk, Inv, TypeOK
      <4>2. /\ chargers'[a].exchangeName = chargers[a].exchangeName
            /\ chargers'[a].isFake = chargers[a].isFake
        BY <4>1 DEF Charger
      <4> QED
        BY <2>1, <4>2 DEF View, Backup
    <3>2. CASE ~(SaveOk(ids) /\ a \in dirty)
      <4>1. chargers'[a] = chargers[a]
        BY <1>2, <3>2 DEF SaveOk, SaveUnacknowledged, memory
      <4> QED
        BY <2>1, <4>1 DEF View, Backup
    <3> QED
      BY <3>1, <3>2
  <2>3. LedgerCharger' = LedgerCharger
    BY <2>1, <2>2 DEF LedgerCharger
  <2>4. ASSUME NEW a \in DOMAIN chargers
        PROVE  a \in Persisted(table') /\ DurableView(a)' = View(a)
    <3>1. CASE a \in dirty
      <4>1. a \in Persisted(table') /\ LastRow(table', a) = ToModel(a)
        BY <1>2, <2>0, <3>1, WrittenRows
      <4>2. /\ ToModel(a).exchangeName = chargers[a].exchangeName
            /\ ToModel(a).isFake = chargers[a].isFake
            /\ ToModel(a).backup = Backup(a)
        BY DEF ToModel
      <4>3. ~chargers[a].isFake => Backup(a) \notin Name
        BY BackupShape
      <4> QED
        BY <4>1, <4>2, <4>3 DEF DurableView, View
    <3>2. CASE a \notin dirty
      <4>1. a \in (DOMAIN chargers \ dirty)'
        BY <2>1, <3>2
      <4>2. (a \in Persisted(table) /\ View(a) = DurableView(a))'
        BY <4>1, CleanViewsNext
      <4> QED
        BY <2>2, <4>1, <4>2
    <3> QED
      BY <3>1, <3>2
  <2>5. Persisted(table') = DOMAIN chargers
    BY <2>1, <2>4 DEF Inv, PersistedIsKnown
  <2>6. LedgerDurable' = LedgerCharger
    BY <2>4, <2>5 DEF LedgerDurable, LedgerCharger
  <2> QED
    BY <1>2, <2>1, <2>3, <2>6 DEF Ledger!Persist
<1> QED
  BY <1>1, <1>2 DEF DoFlush, SaveFailed, Ledger!Next

\* A restart is the ledger's crash.
LEMMA RestartImplements ==
  ASSUME Inv, Inv', Restart
  PROVE  Ledger!Crash
<1>1. /\ DOMAIN chargers' = Persisted(table) /\ dirty' = {} /\ table' = table
      /\ Persisted(table') = Persisted(table)
  BY DEF Restart, Load, LoadedChargers, disk
<1>2. LedgerDurable' = LedgerDurable
  BY <1>1 DEF LedgerDurable, DurableView, LastRow, LastId, RowIds
<1>3. LedgerCharger' = LedgerDurable'
  BY <1>1, CleanViewsNext DEF LedgerCharger, LedgerDurable
<1> QED
  BY <1>1, <1>2, <1>3 DEF Ledger!Crash

\* Every step of the store is a step of the ledger or a stutter.
LEMMA NextImplements ==
  Inv /\ Inv' /\ [Next]_vars => [Ledger!Next]_(Ledger!vars)
<1> SUFFICES ASSUME Inv, Inv', [Next]_vars PROVE [Ledger!Next]_(Ledger!vars)
  OBVIOUS
<1>1. ASSUME NEW from \in Addr \cup Malformed, NEW to \in Addr \cup Malformed,
             NEW toName \in Name, ApplyCharge(from, to, TRUE, toName)
      PROVE  [Ledger!Next]_(Ledger!vars)
  BY <1>1, ApplyChargeImplements
<1>2. ASSUME NEW from \in Addr \cup Malformed, NEW to \in Addr \cup Malformed,
             ApplyCharge(from, to, FALSE, None)
      PROVE  [Ledger!Next]_(Ledger!vars)
  BY <1>2, ApplyChargeImplements
<1>3. CASE FlushDirty \/ EndRefresh
  BY <1>3, DoFlushImplements DEF FlushDirty, EndRefresh
<1>4. CASE BeginRefresh \/ UNCHANGED vars
  BY <1>4, NothingChanges DEF BeginRefresh, vars, disk
<1>5. ASSUME NEW a \in toVisit, NEW newName \in Name,
             NEW ex \in Name \cup {None}, RefreshCharger(a, newName, ex)
      PROVE  [Ledger!Next]_(Ledger!vars)
  BY <1>5, RefreshChargerImplements
<1>6. CASE Restart
  BY <1>6, RestartImplements DEF Ledger!Next
<1> QED
  BY <1>1, <1>2, <1>3, <1>4, <1>5, <1>6 DEF Next

\* The charger store implements the ledger: seen through one field per backup
\* and one durable record per address, it is the SaveCharger state machine,
\* and a crash loses exactly what was pending.
THEOREM StoreImplementsLedger == Spec => ImplementsLedger
<1>1. Init => Ledger!Init
  BY InitImplements
<1> QED
  BY <1>1, InitIsCorrect, NextIsCorrect, NextImplements, PTL
     DEF Spec, ImplementsLedger, Ledger!Spec
=============================================================================
