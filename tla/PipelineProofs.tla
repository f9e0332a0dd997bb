--------------------------- MODULE PipelineProofs ---------------------------
(***************************************************************************)
(* Proofs about ChargerPipeline: SaveCharger and refreshChargers           *)
(* (database/db.go) with the store and the registry that they call.  The   *)
(* theorems about the two parts are taken from ChargerStoreProofs and      *)
(* RegistryProofs; what is added is that the pipeline calls the parts as   *)
(* they are specified, and that what a call has read of the registry stays *)
(* true of the payer, though not of the registry, until it is applied.     *)
(***************************************************************************)
EXTENDS ChargerPipeline, FiniteSetTheorems, TLAPS

StoreP == INSTANCE ChargerStoreProofs WITH InitialTables <- {<<>>}
RegistryP == INSTANCE RegistryProofs

-----------------------------------------------------------------------------
(* The instances of the parts that the pipeline is built of and those that  *)
(* their theorems are about have the same definitions.                      *)

\* Cardinality and IsFiniteSet, which every instance defines for itself.
LEMMA SameSizes ==
  ASSUME NEW S
  PROVE  /\ Store!Cardinality(S) = Cardinality(S) /\ StoreP!Cardinality(S) = Cardinality(S)
         /\ StoreP!IsFiniteSet(S) <=> IsFiniteSet(S)
BY Zenon DEF Cardinality, Store!Cardinality, StoreP!Cardinality,
             IsFiniteSet, Store!IsFiniteSet, StoreP!IsFiniteSet

\* ApplyCharge, which SaveCharger calls.
LEMMA SameCharge ==
  ASSUME NEW from, NEW to, NEW is, NEW name
  PROVE  Store!ApplyCharge(from, to, is, name) <=> StoreP!ApplyCharge(from, to, is, name)
BY Zenon DEF Store!ApplyCharge, StoreP!ApplyCharge, Store!ChargeNew, StoreP!ChargeNew,
  Store!ChargeConflict, StoreP!ChargeConflict, Store!ChargeFirstAddress,
  StoreP!ChargeFirstAddress, Store!ChargeSecondAddress, StoreP!ChargeSecondAddress,
  Store!ChargeIgnored, StoreP!ChargeIgnored, Store!Genuine, StoreP!Genuine,
  Store!Put, StoreP!Put, Store!Drop, StoreP!Drop, Store!memory, StoreP!memory,
  Store!lock, StoreP!lock, Store!disk, StoreP!disk

\* doFlushLocked, called by FlushDirty and at the end of Refresh.
LEMMA SameFlush == Store!DoFlush <=> StoreP!DoFlush
BY Zenon DEF Store!DoFlush, StoreP!DoFlush, Store!SaveFailed, StoreP!SaveFailed,
  Store!SaveOk, StoreP!SaveOk, Store!SaveUnacknowledged, StoreP!SaveUnacknowledged,
  Store!WriteRows, StoreP!WriteRows, Store!SavedIds, StoreP!SavedIds, Store!SavedId, StoreP!SavedId,
  Store!ToModel, StoreP!ToModel, Store!Backup, StoreP!Backup, Store!Fresh, StoreP!Fresh,
  Store!FreshIds, StoreP!FreshIds, Store!Cardinality, StoreP!Cardinality,
  Store!IsFiniteSet, StoreP!IsFiniteSet, Store!memory, StoreP!memory, Store!disk, StoreP!disk

\* One iteration of Refresh.
LEMMA SameRefresh ==
  ASSUME NEW a, NEW newName, NEW ex
  PROVE  Store!RefreshCharger(a, newName, ex) <=> StoreP!RefreshCharger(a, newName, ex)
BY Zenon DEF Store!RefreshCharger, StoreP!RefreshCharger, Store!HasBackup, StoreP!HasBackup,
  Store!Drop, StoreP!Drop, Store!disk, StoreP!disk

\* What loading rebuilds from a table.
LEMMA SameLoad ==
  ASSUME NEW t
  PROVE  /\ Store!LoadedChargers(t) = StoreP!LoadedChargers(t)
         /\ Store!LoadedAddrBackups(t) = StoreP!LoadedAddrBackups(t)
         /\ Store!LoadedConfBackups(t) = StoreP!LoadedConfBackups(t)
BY Zenon DEF Store!LoadedChargers, StoreP!LoadedChargers, Store!LoadedAddrBackups,
  StoreP!LoadedAddrBackups, Store!LoadedConfBackups, StoreP!LoadedConfBackups,
  Store!LastId, StoreP!LastId, Store!LastRow, StoreP!LastRow,
  Store!RowIds, StoreP!RowIds, Store!Persisted, StoreP!Persisted

\* The restart of the store.
LEMMA SameRestart == Store!Restart <=> StoreP!Restart
BY SameLoad, Zenon DEF Store!Restart, StoreP!Restart, Store!Load, StoreP!Load, Store!disk, StoreP!disk

\* The store as the program finds it when it is deployed.
LEMMA SameInit == Store!Init <=> StoreP!Init
BY SameLoad, SameSizes, Zenon DEF Store!Init, StoreP!Init

\* What the ledger sees of the store.
LEMMA SameView ==
  /\ Store!LedgerCharger = StoreP!LedgerCharger
  /\ Store!LedgerDurable = StoreP!LedgerDurable
BY Zenon DEF Store!LedgerCharger, StoreP!LedgerCharger, Store!LedgerDurable, StoreP!LedgerDurable,
  Store!View, StoreP!View, Store!DurableView, StoreP!DurableView, Store!Backup, StoreP!Backup,
  Store!LastId, StoreP!LastId, Store!LastRow, StoreP!LastRow,
  Store!RowIds, StoreP!RowIds, Store!Persisted, StoreP!Persisted

\* The ledger as a specification, hence the refinement that the pipeline states.
LEMMA SameLedger == Store!ImplementsLedger <=> StoreP!ImplementsLedger
<1>1. Store!Ledger!Init <=> StoreP!Ledger!Init
  BY SameView, Zenon DEF Store!Ledger!Init, StoreP!Ledger!Init, Store!Ledger!Record, StoreP!Ledger!Record
<1>2. /\ Store!LedgerCharger' = StoreP!LedgerCharger'
      /\ Store!LedgerDurable' = StoreP!LedgerDurable'
  BY Zenon DEF Store!LedgerCharger, StoreP!LedgerCharger, Store!LedgerDurable, StoreP!LedgerDurable,
    Store!View, StoreP!View, Store!DurableView, StoreP!DurableView, Store!Backup, StoreP!Backup,
    Store!LastId, StoreP!LastId, Store!LastRow, StoreP!LastRow,
    Store!RowIds, StoreP!RowIds, Store!Persisted, StoreP!Persisted
<1>3. Store!Ledger!Next <=> StoreP!Ledger!Next
  BY Zenon DEF Store!Ledger!Next, StoreP!Ledger!Next,
    Store!Ledger!Discover, StoreP!Ledger!Discover, Store!Ledger!Conflict, StoreP!Ledger!Conflict,
    Store!Ledger!FirstUnknown, StoreP!Ledger!FirstUnknown, Store!Ledger!SecondUnknown,
    StoreP!Ledger!SecondUnknown, Store!Ledger!Rename, StoreP!Ledger!Rename,
    Store!Ledger!BackupConfirmed, StoreP!Ledger!BackupConfirmed,
    Store!Ledger!BackupConflicts, StoreP!Ledger!BackupConflicts,
    Store!Ledger!Persist, StoreP!Ledger!Persist, Store!Ledger!Crash, StoreP!Ledger!Crash,
    Store!Ledger!Write, StoreP!Ledger!Write, Store!Ledger!Entry, StoreP!Ledger!Entry,
    Store!Ledger!Genuine, StoreP!Ledger!Genuine,
    Store!LedgerCharger, StoreP!LedgerCharger, Store!LedgerDurable, StoreP!LedgerDurable,
    Store!View, StoreP!View, Store!DurableView, StoreP!DurableView, Store!Backup, StoreP!Backup,
    Store!LastId, StoreP!LastId, Store!LastRow, StoreP!LastRow,
    Store!RowIds, StoreP!RowIds, Store!Persisted, StoreP!Persisted
<1>4. UNCHANGED Store!Ledger!vars <=> UNCHANGED StoreP!Ledger!vars
  BY SameView, <1>2, Zenon DEF Store!Ledger!vars, StoreP!Ledger!vars
<1>5. [Store!Ledger!Next]_(Store!Ledger!vars) <=> [StoreP!Ledger!Next]_(StoreP!Ledger!vars)
  BY <1>3, <1>4
<1> QED
  BY <1>1, <1>5, PTL DEF Store!ImplementsLedger, StoreP!ImplementsLedger,
                         Store!Ledger!Spec, StoreP!Ledger!Spec

\* What resolveExchangeName may return and do.
LEMMA SameResolutions ==
  ASSUME NEW name
  PROVE  Registry!Resolutions(name) = RegistryP!Resolutions(name)
BY Zenon DEF Registry!Resolutions, RegistryP!Resolutions, Registry!Same, RegistryP!Same,
  Registry!Better, RegistryP!Better, Registry!Renamed, RegistryP!Renamed

\* The operations of the registry that the pipeline uses.
LEMMA SameRegistry ==
  ASSUME NEW w, NEW a, NEW n, NEW m
  PROVE  /\ Registry!FeedNew(a, n) <=> RegistryP!FeedNew(a, n)
         /\ Registry!FeedKnown(a, n) <=> RegistryP!FeedKnown(a, n)
         /\ Registry!AddOrOverride(w, a, n) <=> RegistryP!AddOrOverride(w, a, n)
         /\ Registry!Insert(w) <=> RegistryP!Insert(w)
         /\ Registry!Callers = RegistryP!Callers
         /\ Registry!ResolveOnly(n, m) <=> RegistryP!ResolveOnly(n, m)
         /\ Registry!Normalise(a) <=> RegistryP!Normalise(a)
         /\ Registry!BeginLoad <=> RegistryP!BeginLoad
         /\ Registry!Init <=> RegistryP!Init
BY SameResolutions, Zenon DEF Registry!FeedNew, RegistryP!FeedNew, Registry!FeedKnown,
  RegistryP!FeedKnown, Registry!AddOrOverride, RegistryP!AddOrOverride, Registry!Resolve,
  RegistryP!Resolve, Registry!Insert, RegistryP!Insert, Registry!Inserting, RegistryP!Inserting,
  Registry!Callers, RegistryP!Callers, Registry!NoteResolving, RegistryP!NoteResolving,
  Registry!ResolveOnly, RegistryP!ResolveOnly, Registry!Normalise, RegistryP!Normalise, Registry!BeginLoad,
  RegistryP!BeginLoad, Registry!Init, RegistryP!Init, Registry!Running, RegistryP!Running,
  Registry!IsExchange, RegistryP!IsExchange, Registry!Same, RegistryP!Same,
  Registry!Put, RegistryP!Put, Registry!Store, RegistryP!Store,
  Registry!Retrimmed, RegistryP!Retrimmed

-----------------------------------------------------------------------------
(* The invariant.                                                           *)

\* The names that trimming yields: all that the registry and the store hold.
Trimmed == {Trim[n] : n \in Name}

\* Trimming a trimmed name leads to no other exchange.
TrimSettles == \A n \in Name : Class[Trim[Trim[n]]] = Class[Trim[n]]

\* Every exchange has one spelling in all sources, once its name is trimmed.
OneSpellingEach == \A n, m \in Trimmed : Class[n] = Class[m] => n = m

\* a has paid into the exchange that is called name.
Met(a, name) == name \in Trimmed /\ <<"exchange", Class[name]>> \in observed[a]
MetAddress(a, b) == <<"address", b>> \in observed[a]

\* The call in progress holds what was observed when it read the registry.
CallOK ==
  pc # "idle" =>
    /\ call.from \in Payers /\ call.to \in Addr
    /\ call.toIsExchange \in BOOLEAN
    /\ call.toIsExchange => Met(call.from, call.toName)
    /\ ~call.toIsExchange => call.toName = None /\ MetAddress(call.from, call.to)

\* Every pair of an address and an exchange that the registry holds, or would
\* hold after a restart, is on record.
NamedOK ==
  /\ \A a \in DOMAIN exchanges :
       /\ exchanges[a].name \in Trimmed
       /\ <<a, Class[exchanges[a].name]>> \in named
  /\ \A a \in DOMAIN exchangesTable :
       <<a, Class[Trim[exchangesTable[a].origin]]>> \in named
  /\ \A w \in DOMAIN inserting : inserting[w].name \in Trimmed

ObservedOK ==
  /\ DOMAIN observed = Payers
  /\ \A a \in Payers : IsFiniteSet(observed[a])

PartsOK == StoreP!Inv /\ RegistryP!RegistryInv

Base == PartsOK /\ ObservedOK /\ NamedOK /\ CallOK

-----------------------------------------------------------------------------
(* Steps of the pipeline are steps of its parts.                            *)

\* The assumptions of the parts hold of the constants of the pipeline.
LEMMA ConstantFacts ==
  /\ \A n \in Name : Trim[n] \in Name
  /\ Trimmed \subseteq Name
  /\ RegistryP!NamesAssumption /\ StoreP!AddrAssumption /\ StoreP!BoundAssumption
  /\ StoreP!TablesAssumption
<1>1. \A n \in Name : Trim[n] \in Name
  BY PartsAssumption
<1>2. RegistryP!NamesAssumption
  BY PartsAssumption DEF RegistryP!NamesAssumption
<1>3. StoreP!AddrAssumption /\ StoreP!BoundAssumption
  BY PartsAssumption, SameSizes DEF StoreP!AddrAssumption, StoreP!BoundAssumption
<1>4. StoreP!TablesAssumption
  <2>1. <<>> \in [1..0 -> StoreP!Row]
    OBVIOUS
  <2>2. 0 \in 0..MaxId
    BY PartsAssumption
  <2> QED
    BY <2>1, <2>2, Zenon DEF StoreP!TablesAssumption
<1> QED
  BY <1>1, <1>2, <1>3, <1>4 DEF Trimmed

\* What the invariant of the store says of its fields, spelled out.
LEMMA StoreTypes ==
  ASSUME StoreP!Inv
  PROVE  /\ DOMAIN chargers \subseteq Addr
         /\ \A a \in DOMAIN chargers :
              /\ chargers[a].exchangeName \in Name /\ chargers[a].isFake \in BOOLEAN
              /\ chargers[a] = [id |-> chargers[a].id, exchangeName |-> chargers[a].exchangeName,
                               isFake |-> chargers[a].isFake]
         /\ DOMAIN addrBackups \subseteq DOMAIN chargers
         /\ \A a \in DOMAIN addrBackups : addrBackups[a] \in Addr
         /\ DOMAIN confBackups \subseteq DOMAIN chargers
         /\ \A a \in DOMAIN confBackups : confBackups[a] \in Name
         /\ dirty \subseteq DOMAIN chargers
         /\ toVisit \subseteq DOMAIN chargers
         /\ nextId \in Nat \ {0} /\ DOMAIN table \subseteq 1..(nextId - 1)
         /\ \A i \in DOMAIN table :
              /\ table[i].exchangeName \in Name /\ table[i].isFake \in BOOLEAN
              /\ table[i].backup \in Addr \cup Name \cup {None}
         /\ DOMAIN addrBackups \cap DOMAIN confBackups = {}
         /\ \A a \in DOMAIN confBackups : chargers[a].isFake
<1>1. StoreP!TypeOK /\ StoreP!SideMapsExclusive /\ StoreP!GenuineHasNoConflict
  BY DEF StoreP!Inv
<1>2. ASSUME NEW a \in DOMAIN chargers
      PROVE  chargers[a] \in StoreP!Charger
  BY <1>1 DEF StoreP!TypeOK
<1>3. ASSUME NEW i \in DOMAIN table
      PROVE  table[i] \in StoreP!Row
  BY <1>1 DEF StoreP!TypeOK
<1>4. nextId \in Nat \ {0}
  BY <1>1, PartsAssumption DEF StoreP!TypeOK
<1> QED
  BY <1>1, <1>2, <1>3, <1>4 DEF StoreP!TypeOK, StoreP!Charger, StoreP!Row,
       StoreP!SideMapsExclusive, StoreP!GenuineHasNoConflict

\* The facts about the parts, for these constants.
LEMMA RegistryKept == RegistryP!RegistryInv /\ [RegistryP!Next]_registryVars => RegistryP!RegistryInv'
BY RegistryP!NextIsCorrect, ConstantFacts DEF registryVars, RegistryP!vars

\* Every step of the store keeps its invariant.
LEMMA StoreKept == StoreP!Inv /\ [StoreP!Next]_storeVars => StoreP!Inv'
<1>1. [StoreP!Next]_storeVars => [StoreP!Next]_(StoreP!vars)
  BY DEF storeVars, StoreP!vars, StoreP!memory, StoreP!lock, StoreP!disk
<1> QED
  BY <1>1, StoreP!NextIsCorrect, ConstantFacts

\* The registry makes a step of its own, or none.
LEMMA RegistryStep ==
  ASSUME Base, [Next]_vars
  PROVE  [RegistryP!Next]_registryVars
<1>1. StoreP!Inv
  BY DEF Base, PartsOK
<1>2. ASSUME UNCHANGED registryVars
      PROVE  [RegistryP!Next]_registryVars
  BY <1>2
<1>3. CASE ChangeRegistry
  <2>1. PICK a \in Addr, n \in Name :
          \/ RegistryP!FeedNew(a, n) \/ RegistryP!FeedKnown(a, n)
          \/ \E h \in Handlers : RegistryP!AddOrOverride(h, a, n)
    BY <1>3, SameRegistry, Zenon DEF ChangeRegistry, UpdateExchanges, AddExchange
  <2> QED
    BY <2>1 DEF RegistryP!Next
<1>7. CASE InsertExchange
  BY <1>7, SameRegistry DEF InsertExchange, RegistryP!Next
<1>4. CASE RefreshOne
  <2>1. PICK a \in toVisit, newName \in Name :
          RegistryP!ResolveOnly(chargers[a].exchangeName, newName)
    BY <1>4, SameRegistry, Zenon DEF RefreshOne
  <2>2. chargers[a].exchangeName \in Name
    BY <1>1, StoreTypes
  <2> QED
    BY <2>1, <2>2 DEF RegistryP!Next
<1>5. CASE Restart
  BY <1>5, SameRegistry DEF Restart, RegistryP!Next
<1>6. CASE Normalise
  BY <1>6, SameRegistry DEF Normalise, RegistryP!Next
<1> QED
  BY <1>2, <1>3, <1>4, <1>5, <1>6, <1>7
     DEF Next, vars, ReadReceiver, Apply, FlushIfManyPending, BeginRefresh, EndRefresh

\* The store makes a step of its own, or none: the pipeline calls it only in
\* the ways that it is specified for.
LEMMA StoreStep ==
  ASSUME Base, [Next]_vars
  PROVE  [StoreP!Next]_storeVars
<1>1. StoreP!Inv /\ CallOK
  BY DEF Base, PartsOK
<1>2. ASSUME UNCHANGED storeVars
      PROVE  [StoreP!Next]_storeVars
  BY <1>2
<1>3. CASE Apply
  <2>1. /\ StoreP!ApplyCharge(call.from, call.to, call.toIsExchange, call.toName)
        /\ pc # "idle"
    BY <1>3, SameCharge DEF Apply
  <2>2. /\ call.from \in Addr \cup Malformed /\ call.to \in Addr \cup Malformed
        /\ call.toIsExchange \in BOOLEAN
        /\ call.toIsExchange => call.toName \in Name
        /\ ~call.toIsExchange => call.toName = None
    BY <1>1, <2>1, PipelineAssumption, ConstantFacts DEF CallOK, Met
  <2>3. CASE call.toIsExchange
    <3>1. call.toIsExchange = TRUE
      BY <2>2, <2>3
    <3> QED
      BY <2>1, <2>2, <3>1 DEF StoreP!Next
  <2>4. CASE ~call.toIsExchange
    <3>1. call.toIsExchange = FALSE /\ call.toName = None
      BY <2>2, <2>4
    <3> QED
      BY <2>1, <2>2, <3>1 DEF StoreP!Next
  <2> QED
    BY <2>3, <2>4
<1>4. CASE FlushIfManyPending
  <2>1. CASE Store!FlushDirty
    BY <2>1, SameFlush DEF Store!FlushDirty, StoreP!FlushDirty, Store!lock, StoreP!lock, StoreP!Next
  <2> QED
    BY <1>2, <1>4, <2>1 DEF FlushIfManyPending
<1>5. CASE BeginRefresh
  BY <1>5 DEF BeginRefresh, Store!BeginRefresh, StoreP!BeginRefresh, Store!memory, StoreP!memory,
              Store!disk, StoreP!disk, StoreP!Next
<1>6. CASE RefreshOne
  <2>1. RegistryP!RegistryInv'
    BY RegistryStep, RegistryKept DEF Base, PartsOK
  <2>2. \A b \in DOMAIN exchanges' : exchanges'[b].name \in Name
    BY <2>1 DEF RegistryP!RegistryInv, RegistryP!RegistryOK, RegistryP!MapOK, RegistryP!Exchange
  <2>3. PICK a \in toVisit, newName \in Name :
          Store!RefreshCharger(a, newName,
            IF a \in DOMAIN addrBackups /\ addrBackups[a] \in DOMAIN exchanges'
            THEN exchanges'[addrBackups[a]].name ELSE None)
    BY <1>6, Zenon DEF RefreshOne
  <2>4. PICK ex \in Name \cup {None} : StoreP!RefreshCharger(a, newName, ex)
    BY <2>2, <2>3, SameRefresh
  <2> QED
    BY <2>4 DEF StoreP!Next
<1>7. CASE EndRefresh
  BY <1>7, SameFlush DEF EndRefresh, Store!EndRefresh, StoreP!EndRefresh, StoreP!Next
<1>8. CASE Restart
  BY <1>8, SameRestart DEF Restart, StoreP!Next
<1> QED
  BY <1>2, <1>3, <1>4, <1>5, <1>6, <1>7, <1>8
     DEF Next, vars, ReadReceiver, ChangeRegistry, InsertExchange, Normalise

\* So both parts keep their invariants.
LEMMA PartsKept ==
  ASSUME Base, [Next]_vars
  PROVE  PartsOK'
BY RegistryStep, StoreStep, RegistryKept, StoreKept DEF Base, PartsOK

-----------------------------------------------------------------------------
(* What has been observed stays observed; the registry stays on record.     *)

\* What a payer's transfer is taken for when it is read.
Taken(to) ==
  IF Registry!IsExchange(to) THEN <<"exchange", Class[exchanges[to].name]>> ELSE <<"address", to>>

\* Reading what the receiver is, the one step that adds to what is observed.
LEMMA Reading ==
  ASSUME ObservedOK, NEW from \in Payers, NEW to \in Addr, ReadReceiver(from, to)
  PROVE  /\ ObservedOK'
         /\ \A a \in Payers : observed[a] \subseteq observed'[a]
         /\ Taken(to) \in observed'[from]
<1> DEFINE taken == Taken(to)
<1>1. observed' = [observed EXCEPT ![from] = observed[from] \cup {taken}]
  BY DEF ReadReceiver, Taken
<1> HIDE DEF taken
<1>2. /\ DOMAIN observed' = Payers
      /\ \A a \in Payers : observed'[a] = IF a = from THEN observed[a] \cup {taken} ELSE observed[a]
  BY <1>1 DEF ObservedOK
<1>3. IsFiniteSet(observed[from] \cup {taken})
  BY FS_AddElement DEF ObservedOK
<1>4. ObservedOK'
  BY <1>2, <1>3 DEF ObservedOK
<1> QED
  BY <1>2, <1>4 DEF taken

\* Nothing that has been observed or put on record is ever taken back.
LEMMA ObservedGrows ==
  ASSUME ObservedOK, [Next]_vars
  PROVE  /\ ObservedOK'
         /\ \A a \in Payers : observed[a] \subseteq observed'[a]
         /\ named \subseteq named'
<1>1. ASSUME NEW from \in Payers, NEW to \in Addr, ReadReceiver(from, to)
      PROVE  /\ ObservedOK'
             /\ \A a \in Payers : observed[a] \subseteq observed'[a]
             /\ named \subseteq named'
  BY <1>1, Reading DEF ReadReceiver, history
<1>2. ASSUME observed' = observed, named \subseteq named'
      PROVE  /\ ObservedOK'
             /\ \A a \in Payers : observed[a] \subseteq observed'[a]
             /\ named \subseteq named'
  BY <1>2 DEF ObservedOK
<1> QED
  BY <1>1, <1>2 DEF Next, vars, Apply, FlushIfManyPending, BeginRefresh, RefreshOne, EndRefresh,
     ChangeRegistry, InsertExchange, Recorded, Restart, Normalise, callVars, history

\* Resolving a trimmed name yields a trimmed name, for all that it renames.
LEMMA ResolvedTrimmed ==
  ASSUME RegistryP!RegistryOK, \A a \in DOMAIN exchanges : exchanges[a].name \in Trimmed,
         NEW name \in Trimmed, NEW r \in RegistryP!Resolutions(name)
  PROVE  /\ r.name \in Trimmed
         /\ \A a \in DOMAIN r.map : r.map[a].name \in Trimmed
<1>1. CASE r.name = name /\ r.map = exchanges
  BY <1>1
<1>2. ASSUME NEW a \in DOMAIN exchanges, r.name = exchanges[a].name, r.map = exchanges
      PROVE  r.name \in Trimmed /\ \A b \in DOMAIN r.map : r.map[b].name \in Trimmed
  BY <1>2
<1>3. ASSUME NEW a \in DOMAIN exchanges, r.name = name,
             r.map = RegistryP!Renamed(exchanges, exchanges[a].name, name)
      PROVE  r.name \in Trimmed /\ \A b \in DOMAIN r.map : r.map[b].name \in Trimmed
  <2>1. DOMAIN r.map = DOMAIN exchanges
    BY <1>3 DEF RegistryP!Renamed
  <2>2. ASSUME NEW b \in DOMAIN exchanges
        PROVE  r.map[b].name \in Trimmed
    <3>1. exchanges[b] \in RegistryP!Exchange
      BY DEF RegistryP!RegistryOK, RegistryP!MapOK
    <3>2. r.map[b] = IF exchanges[b].name = exchanges[a].name
                     THEN [exchanges[b] EXCEPT !.name = name] ELSE exchanges[b]
      BY <1>3 DEF RegistryP!Renamed
    <3> QED
      BY <3>1, <3>2 DEF RegistryP!Exchange
  <2> QED
    BY <1>3, <2>1, <2>2
<1> QED
  BY <1>1, <1>2, <1>3, RegistryP!Outcomes, ConstantFacts

\* All that resolving a trimmed name does to the registry.
LEMMA ResolvedNames ==
  ASSUME RegistryP!RegistryInv, NamedOK, NEW name \in Trimmed, NEW r \in RegistryP!Resolutions(name)
  PROVE  /\ r.name \in Trimmed /\ Class[r.name] = Class[name]
         /\ DOMAIN r.map = DOMAIN exchanges
         /\ \A a \in DOMAIN exchanges :
              /\ r.map[a].name \in Trimmed
              /\ Class[r.map[a].name] = Class[exchanges[a].name]
              /\ r.map[a].origin = exchanges[a].origin
         /\ DOMAIN r.stored = DOMAIN exchangesTable
         /\ \A a \in DOMAIN exchangesTable : r.stored[a].origin = exchangesTable[a].origin
         /\ RegistryP!MapOK(r.map) /\ RegistryP!MapOK(r.stored)
<1>1. RegistryP!RegistryOK /\ name \in Name
  BY ConstantFacts DEF RegistryP!RegistryInv
<1>2. RegistryP!Improved(r) /\ RegistryP!Same(r.name, name) /\ RegistryP!MapOK(r.stored)
  BY <1>1, RegistryP!Resolved, ConstantFacts
<1>3. /\ DOMAIN r.stored = DOMAIN exchangesTable
      /\ \A a \in DOMAIN exchangesTable : r.stored[a].origin = exchangesTable[a].origin
  BY <1>1, RegistryP!StoredOrigins, ConstantFacts
<1>4. r.name \in Trimmed /\ \A a \in DOMAIN r.map : r.map[a].name \in Trimmed
  BY <1>1, ResolvedTrimmed DEF NamedOK
<1> QED
  BY <1>2, <1>3, <1>4 DEF RegistryP!Improved, RegistryP!Same, RegistryP!MapOK

\* Whoever resolves the name of an exchange keeps a name that trimming yields.
LEMMA ResolveNamed ==
  ASSUME RegistryP!RegistryInv, NamedOK, NEW w, NEW a, NEW origin \in Name,
         RegistryP!Resolve(w, a, origin), named \subseteq named'
  PROVE  NamedOK'
<1>1. PICK r \in RegistryP!Resolutions(Trim[origin]) :
        /\ exchanges' = r.map
        /\ exchangesTable' = r.stored
        /\ inserting' = RegistryP!Put(inserting, w, [addr |-> a, name |-> r.name, origin |-> origin])
  BY DEF RegistryP!Resolve
<1>2. /\ r.name \in Trimmed
      /\ DOMAIN r.map = DOMAIN exchanges
      /\ \A b \in DOMAIN exchanges :
           r.map[b].name \in Trimmed /\ Class[r.map[b].name] = Class[exchanges[b].name]
      /\ DOMAIN r.stored = DOMAIN exchangesTable
      /\ \A b \in DOMAIN exchangesTable : r.stored[b].origin = exchangesTable[b].origin
  BY ResolvedNames DEF Trimmed
<1> DEFINE i == [addr |-> a, name |-> r.name, origin |-> origin]
<1>3. i.name = r.name
  OBVIOUS
<1>4. inserting' = RegistryP!Put(inserting, w, i)
  BY <1>1
<1> HIDE DEF i
<1>5. \A v \in DOMAIN inserting' : inserting'[v].name \in Trimmed
  BY <1>2, <1>3, <1>4 DEF RegistryP!Put, NamedOK
<1>6. /\ \A b \in DOMAIN exchanges' :
           exchanges'[b].name \in Trimmed /\ <<b, Class[exchanges'[b].name]>> \in named'
      /\ \A b \in DOMAIN exchangesTable' : <<b, Class[Trim[exchangesTable'[b].origin]]>> \in named'
  BY <1>1, <1>2 DEF NamedOK
<1> QED
  BY <1>5, <1>6 DEF NamedOK

\* An entry that is put under its resolved name is put on record.
LEMMA InsertNamed ==
  ASSUME RegistryP!RegistryInv, NamedOK, NEW w, RegistryP!Insert(w), Recorded
  PROVE  NamedOK'
<1> DEFINE a == inserting[w].addr
           e == [name |-> inserting[w].name, origin |-> inserting[w].origin]
<1>1. /\ w \in DOMAIN inserting
      /\ exchanges' = RegistryP!Put(exchanges, a, e)
      /\ exchangesTable' \in {exchangesTable, RegistryP!Put(exchangesTable, a, e)}
      /\ inserting' = [x \in DOMAIN inserting \ {w} |-> inserting[x]]
  BY DEF RegistryP!Insert, RegistryP!Inserting, RegistryP!Store
<1>2. /\ e.name = inserting[w].name /\ e.origin = inserting[w].origin
      /\ e.name \in Trimmed /\ Class[e.name] = Class[Trim[e.origin]]
  BY <1>1 DEF NamedOK, RegistryP!RegistryInv, RegistryP!WaitingOK, RegistryP!Same
<1> HIDE DEF a, e
<1>3. /\ DOMAIN exchanges' = DOMAIN exchanges \cup {a}
      /\ exchanges'[a] = e
      /\ \A b \in DOMAIN exchanges : (b # a) => (exchanges'[b] = exchanges[b])
  BY <1>1 DEF RegistryP!Put
<1>4. named' = named \cup {<<b, Class[exchanges'[b].name]>> : b \in DOMAIN exchanges'}
  BY DEF Recorded
<1>5. \A b \in DOMAIN exchanges' :
        exchanges'[b].name \in Trimmed /\ <<b, Class[exchanges'[b].name]>> \in named'
  BY <1>2, <1>3, <1>4 DEF NamedOK
<1>6. ASSUME NEW b \in DOMAIN exchangesTable'
      PROVE  <<b, Class[Trim[exchangesTable'[b].origin]]>> \in named'
  <2>1. CASE b \in DOMAIN exchangesTable /\ exchangesTable'[b] = exchangesTable[b]
    BY <1>4, <2>1 DEF NamedOK
  <2>2. CASE b = a /\ exchangesTable'[b] = e
    BY <1>2, <1>3, <1>5, <2>2
  <2>3. CASE exchangesTable' = exchangesTable
    BY <1>6, <2>1, <2>3
  <2>4. CASE exchangesTable' = RegistryP!Put(exchangesTable, a, e)
    <3>1. /\ DOMAIN exchangesTable' = DOMAIN exchangesTable \cup {a}
          /\ exchangesTable'[a] = e
          /\ \A c \in DOMAIN exchangesTable : (c # a) => (exchangesTable'[c] = exchangesTable[c])
      BY <2>4 DEF RegistryP!Put
    <3> QED
      BY <1>6, <2>1, <2>2, <3>1
  <2> QED
    BY <1>1, <2>3, <2>4
<1>7. \A v \in DOMAIN inserting' : inserting'[v].name \in Trimmed
  BY <1>1 DEF NamedOK
<1> QED
  BY <1>5, <1>6, <1>7 DEF NamedOK

\* A new original name of a known address is one of the same exchange.
LEMMA FeedKnownNamed ==
  ASSUME RegistryP!RegistryInv, NamedOK, NEW a, NEW origin \in Name, RegistryP!FeedKnown(a, origin),
         Recorded
  PROVE  NamedOK'
<1>1. /\ a \in DOMAIN exchanges
      /\ Class[exchanges[a].name] = Class[Trim[exchanges[a].origin]]
      /\ Class[Trim[exchanges[a].origin]] = Class[Trim[origin]]
      /\ exchanges' = [exchanges EXCEPT ![a].origin = origin]
      /\ exchangesTable' \in
           {exchangesTable,
            [b \in DOMAIN exchangesTable |->
               IF b = a THEN [exchangesTable[b] EXCEPT !.origin = origin] ELSE exchangesTable[b]]}
  BY DEF RegistryP!FeedKnown, RegistryP!Same, RegistryP!IsExchange, RegistryP!RegistryInv,
         RegistryP!NameMatchesOrigin
<1>2. /\ \A b \in DOMAIN exchanges : exchanges[b] \in RegistryP!Exchange
      /\ \A b \in DOMAIN exchangesTable : exchangesTable[b] \in RegistryP!Exchange
  BY DEF RegistryP!RegistryInv, RegistryP!RegistryOK, RegistryP!MapOK
<1>3. /\ DOMAIN exchanges' = DOMAIN exchanges
      /\ \A b \in DOMAIN exchanges : exchanges'[b].name = exchanges[b].name
  <2>1. DOMAIN exchanges' = DOMAIN exchanges
    BY <1>1
  <2>2. ASSUME NEW b \in DOMAIN exchanges PROVE exchanges'[b].name = exchanges[b].name
    <3>1. exchanges'[b] = IF b = a THEN [exchanges[b] EXCEPT !.origin = origin] ELSE exchanges[b]
      BY <1>1
    <3> QED
      BY <1>2, <3>1 DEF RegistryP!Exchange
  <2> QED
    BY <2>1, <2>2
<1>4. ASSUME NEW b \in DOMAIN exchangesTable'
      PROVE  /\ b \in DOMAIN exchangesTable
             /\ \/ exchangesTable'[b].origin = exchangesTable[b].origin
                \/ b = a /\ exchangesTable'[b].origin = origin
  <2>1. CASE exchangesTable' = exchangesTable
    BY <2>1
  <2>2. CASE exchangesTable' =
            [c \in DOMAIN exchangesTable |->
               IF c = a THEN [exchangesTable[c] EXCEPT !.origin = origin] ELSE exchangesTable[c]]
    <3>1. b \in DOMAIN exchangesTable
      BY <2>2
    <3>2. exchangesTable'[b] =
            IF b = a THEN [exchangesTable[b] EXCEPT !.origin = origin] ELSE exchangesTable[b]
      BY <2>2, <3>1
    <3>3. exchangesTable[b] \in RegistryP!Exchange
      BY <1>2, <3>1
    <3> QED
      BY <3>1, <3>2, <3>3 DEF RegistryP!Exchange
  <2> QED
    BY <1>1, <2>1, <2>2
<1>5. ASSUME NEW b \in DOMAIN exchangesTable'
      PROVE  <<b, Class[Trim[exchangesTable'[b].origin]]>> \in named'
  BY <1>1, <1>3, <1>4, <1>5 DEF NamedOK, Recorded
<1>6. \A w \in DOMAIN inserting' : inserting'[w].name \in Trimmed
  BY DEF RegistryP!FeedKnown, NamedOK
<1> QED
  BY <1>3, <1>5, <1>6 DEF NamedOK, Recorded

\* A restart derives the names from what the table holds.
LEMMA LoadNamed ==
  ASSUME RegistryP!RegistryInv, NamedOK, RegistryP!BeginLoad, named' = named
  PROVE  NamedOK'
<1>1. ASSUME NEW a \in DOMAIN exchangesTable
      PROVE  /\ RegistryP!Retrimmed(exchangesTable)[a].origin = exchangesTable[a].origin
             /\ RegistryP!Retrimmed(exchangesTable)[a].name = Trim[exchangesTable[a].origin]
             /\ Trim[exchangesTable[a].origin] \in Trimmed
  <2>1. exchangesTable[a] \in RegistryP!Exchange
    BY DEF RegistryP!RegistryInv, RegistryP!RegistryOK, RegistryP!MapOK
  <2>2. RegistryP!Retrimmed(exchangesTable)[a]
          = [exchangesTable[a] EXCEPT !.name = Trim[exchangesTable[a].origin]]
    BY DEF RegistryP!Retrimmed
  <2> QED
    BY <2>1, <2>2 DEF RegistryP!Exchange, Trimmed
<1>2. DOMAIN RegistryP!Retrimmed(exchangesTable) = DOMAIN exchangesTable
  BY DEF RegistryP!Retrimmed
<1> QED
  BY <1>1, <1>2 DEF RegistryP!BeginLoad, NamedOK

\* Renamings stay within the exchange.
LEMMA RenamedNamed ==
  ASSUME RegistryP!RegistryInv, NamedOK, named' = named,
         \/ \E n \in Trimmed : \E r \in RegistryP!Resolutions(n) :
              exchanges' = r.map /\ exchangesTable' = r.stored /\ inserting' = inserting
         \/ \E a \in loading : RegistryP!Normalise(a)
  PROVE  NamedOK'
<1>1. ASSUME NEW n \in Trimmed, NEW r \in RegistryP!Resolutions(n),
             exchanges' = r.map, exchangesTable' = r.stored, inserting' = inserting
      PROVE  NamedOK'
  <2>1. /\ DOMAIN exchanges' = DOMAIN exchanges
        /\ \A a \in DOMAIN exchanges :
             exchanges'[a].name \in Trimmed /\ Class[exchanges'[a].name] = Class[exchanges[a].name]
        /\ DOMAIN exchangesTable' = DOMAIN exchangesTable
        /\ \A a \in DOMAIN exchangesTable : exchangesTable'[a].origin = exchangesTable[a].origin
    BY <1>1, ResolvedNames
  <2> QED
    BY <1>1, <2>1 DEF NamedOK
<1>2. ASSUME NEW a \in loading, RegistryP!Normalise(a)
      PROVE  NamedOK'
  <2>1. a \in DOMAIN exchanges /\ exchanges[a].name \in Trimmed
    BY DEF RegistryP!RegistryInv, RegistryP!RegistryOK, NamedOK
  <2>2. PICK r \in RegistryP!Resolutions(exchanges[a].name) :
          LET e == [r.map[a] EXCEPT !.name = r.name]
          IN /\ exchanges' = RegistryP!Put(r.map, a, e)
             /\ exchangesTable' \in
                  {r.stored, [b \in DOMAIN r.stored |->
                                IF b = a THEN [r.stored[b] EXCEPT !.name = r.name]
                                ELSE r.stored[b]]}
    BY <1>2 DEF RegistryP!Normalise
  <2> DEFINE e == [r.map[a] EXCEPT !.name = r.name]
  <2>3. /\ r.name \in Trimmed /\ Class[r.name] = Class[exchanges[a].name]
        /\ DOMAIN r.map = DOMAIN exchanges
        /\ \A b \in DOMAIN exchanges :
             /\ r.map[b].name \in Trimmed
             /\ Class[r.map[b].name] = Class[exchanges[b].name]
        /\ DOMAIN r.stored = DOMAIN exchangesTable
        /\ \A b \in DOMAIN exchangesTable : r.stored[b].origin = exchangesTable[b].origin
        /\ RegistryP!MapOK(r.map) /\ RegistryP!MapOK(r.stored)
    BY <2>1, ResolvedNames
  <2>4. e.name = r.name
    <3>1. r.map[a] \in RegistryP!Exchange
      BY <2>1, <2>3 DEF RegistryP!MapOK
    <3> QED
      BY <3>1 DEF RegistryP!Exchange
  <2>5. /\ DOMAIN exchanges' = DOMAIN exchanges
        /\ exchanges'[a] = e
        /\ \A b \in DOMAIN exchanges : (b # a) => (exchanges'[b] = r.map[b])
    <3>1. exchanges' = RegistryP!Put(r.map, a, e)
      BY <2>2
    <3> HIDE DEF e
    <3> QED
      BY <2>1, <2>3, <3>1 DEF RegistryP!Put
  <2>6. /\ DOMAIN exchangesTable' = DOMAIN exchangesTable
        /\ \A b \in DOMAIN exchangesTable : exchangesTable'[b].origin = exchangesTable[b].origin
    <3>1. CASE exchangesTable' = r.stored
      BY <2>3, <3>1
    <3>2. CASE exchangesTable' = [b \in DOMAIN r.stored |->
                 IF b = a THEN [r.stored[b] EXCEPT !.name = r.name] ELSE r.stored[b]]
      <4>1. DOMAIN exchangesTable' = DOMAIN exchangesTable
        BY <2>3, <3>2
      <4>2. ASSUME NEW b \in DOMAIN exchangesTable
            PROVE  exchangesTable'[b].origin = exchangesTable[b].origin
        <5>1. exchangesTable'[b] = IF b = a THEN [r.stored[b] EXCEPT !.name = r.name] ELSE r.stored[b]
          BY <2>3, <3>2
        <5>2. r.stored[b] \in RegistryP!Exchange
          BY <2>3 DEF RegistryP!MapOK
        <5> QED
          BY <2>3, <5>1, <5>2 DEF RegistryP!Exchange
      <4> QED
        BY <4>1, <4>2
    <3> QED
      BY <2>2, <3>1, <3>2
  <2> HIDE DEF e
  <2>7. inserting' = inserting
    BY <1>2 DEF RegistryP!Normalise
  <2> QED
    BY <2>3, <2>4, <2>5, <2>6, <2>7 DEF NamedOK
<1> QED
  BY <1>1, <1>2

\* No step of the pipeline gives an address an exchange that is not on record.
LEMMA NamedKept ==
  ASSUME Base, [Next]_vars
  PROVE  NamedOK'
<1>1. StoreP!Inv /\ RegistryP!RegistryInv /\ NamedOK
  BY DEF Base, PartsOK
<1>2. ASSUME UNCHANGED <<exchanges, exchangesTable, inserting, named>>
      PROVE  NamedOK'
  BY <1>1, <1>2 DEF NamedOK
<1>3. CASE ChangeRegistry
  <2>1. PICK a \in Addr, n \in Name :
          \/ RegistryP!FeedNew(a, n) \/ RegistryP!FeedKnown(a, n)
          \/ \E h \in Handlers : RegistryP!AddOrOverride(h, a, n)
    BY <1>3, SameRegistry, Zenon DEF ChangeRegistry, UpdateExchanges, AddExchange
  <2>2. Recorded /\ named \subseteq named'
    BY <1>3 DEF ChangeRegistry, Recorded
  <2>3. CASE RegistryP!FeedKnown(a, n)
    BY <1>1, <2>2, <2>3, FeedKnownNamed
  <2>4. CASE RegistryP!FeedNew(a, n) \/ \E h \in Handlers : RegistryP!AddOrOverride(h, a, n)
    BY <1>1, <2>2, <2>4, ResolveNamed DEF RegistryP!FeedNew, RegistryP!AddOrOverride
  <2> QED
    BY <2>1, <2>3, <2>4
<1>7. CASE InsertExchange
  BY <1>1, <1>7, SameRegistry, InsertNamed DEF InsertExchange
<1>4. CASE RefreshOne
  <2>1. PICK a \in toVisit, newName \in Name :
          RegistryP!ResolveOnly(chargers[a].exchangeName, newName)
    BY <1>4, SameRegistry, Zenon DEF RefreshOne
  <2>2. Trim[chargers[a].exchangeName] \in Trimmed /\ named' = named
    BY <1>1, <1>4, StoreTypes DEF Trimmed, RefreshOne, history
  <2> QED
    BY <1>1, <2>1, <2>2, RenamedNamed DEF RegistryP!ResolveOnly
<1>5. CASE Restart
  BY <1>1, <1>5, SameRegistry, LoadNamed DEF Restart
<1>6. CASE Normalise
  BY <1>1, <1>6, SameRegistry, RenamedNamed DEF Normalise, history
<1> QED
  BY <1>2, <1>3, <1>4, <1>5, <1>6, <1>7
     DEF Next, vars, ReadReceiver, Apply, FlushIfManyPending, BeginRefresh, EndRefresh,
         registryVars, history

\* Whatever the registry becomes between the read and the store's lock, the
\* call holds what was observed when it was read.
LEMMA CallKept ==
  ASSUME Base, [Next]_vars
  PROVE  CallOK'
<1>1. /\ ObservedOK /\ NamedOK /\ CallOK
      /\ ObservedOK' /\ \A a \in Payers : observed[a] \subseteq observed'[a]
  BY ObservedGrows DEF Base
<1>2. ASSUME NEW from \in Payers, NEW to \in Addr, ReadReceiver(from, to)
      PROVE  CallOK'
  <2>1. call'.from = from /\ call'.to = to
    BY <1>2 DEF ReadReceiver
  <2>3. CASE to \in DOMAIN exchanges
    <3>1. Registry!IsExchange(to) = TRUE
      BY <2>3 DEF Registry!IsExchange
    <3>2. call'.toIsExchange = TRUE /\ call'.toName = exchanges[to].name
      BY <1>2, <3>1 DEF ReadReceiver
    <3>3. <<"exchange", Class[exchanges[to].name]>> \in observed'[from]
      BY <1>1, <1>2, <3>1, Reading DEF Taken
    <3>4. exchanges[to].name \in Trimmed
      BY <1>1, <2>3 DEF NamedOK
    <3> QED
      BY <2>1, <3>2, <3>3, <3>4 DEF CallOK, Met
  <2>4. CASE to \notin DOMAIN exchanges
    <3>1. Registry!IsExchange(to) = FALSE
      BY <2>4 DEF Registry!IsExchange
    <3>2. call'.toIsExchange = FALSE /\ call'.toName = None
      BY <1>2, <3>1 DEF ReadReceiver
    <3>3. <<"address", to>> \in observed'[from]
      BY <1>1, <1>2, <3>1, Reading DEF Taken
    <3> QED
      BY <2>1, <3>2, <3>3 DEF CallOK, MetAddress
  <2> QED
    BY <2>3, <2>4
<1>3. ASSUME UNCHANGED <<call, observed>>, pc' # "idle" => pc # "idle"
      PROVE  CallOK'
  BY <1>1, <1>3 DEF CallOK, Met, MetAddress
<1>4. ASSUME pc' = "idle"
      PROVE  CallOK'
  BY <1>4 DEF CallOK
<1> QED
  BY <1>2, <1>3, <1>4 DEF Next, vars, Apply, FlushIfManyPending, BeginRefresh, RefreshOne,
     EndRefresh, ChangeRegistry, InsertExchange, Restart, Normalise, callVars

\* The pipeline starts with nothing observed and nothing on record.
LEMMA BaseInit == Init => Base
<1> SUFFICES ASSUME Init PROVE Base
  OBVIOUS
<1>1. StoreP!Inv
  BY StoreP!InitIsCorrect, SameInit, ConstantFacts DEF Init
<1>2. RegistryP!RegistryInv
  BY RegistryP!InitIsCorrect, SameRegistry, ConstantFacts DEF Init
<1>3. ObservedOK
  BY FS_EmptySet DEF Init, ObservedOK
<1>4. NamedOK
  <2>1. DOMAIN exchanges = {} /\ DOMAIN exchangesTable = {} /\ DOMAIN inserting = {}
    BY DEF Init, Registry!Init
  <2> QED
    BY <2>1 DEF NamedOK
<1>5. CallOK
  BY DEF Init, CallOK
<1> QED
  BY <1>1, <1>2, <1>3, <1>4, <1>5 DEF Base, PartsOK

\* Every step of the pipeline keeps the four parts of Base.
LEMMA BaseKept == Base /\ [Next]_vars => Base'
BY PartsKept, ObservedGrows, NamedKept, CallKept DEF Base

\* Through flushes, refreshes, changes of the registry and restarts, SaveCharger
\* and refreshChargers use the store as the single-record ledger.
THEOREM PipelineImplementsLedger == Spec => ImplementsLedger
<1>1. Init => StoreP!Init
  BY SameInit DEF Init
<1>2. Base /\ [Next]_vars => [StoreP!Next]_(StoreP!vars)
  <2>1. [StoreP!Next]_storeVars => [StoreP!Next]_(StoreP!vars)
    BY DEF storeVars, StoreP!vars, StoreP!memory, StoreP!lock, StoreP!disk
  <2> QED
    BY <2>1, StoreStep
<1>3. Spec => StoreP!Spec
  BY <1>1, <1>2, BaseInit, BaseKept, PTL DEF Spec, StoreP!Spec
<1>4. StoreP!Spec => StoreP!ImplementsLedger
  BY StoreP!StoreImplementsLedger, ConstantFacts
<1> QED
  BY <1>3, <1>4, SameLedger, PTL DEF ImplementsLedger

-----------------------------------------------------------------------------
(* What the operations of the store do to entries, backups and rows.        *)

\* SaveCharger's five branches: who has a name, a mark or a backup had it
\* before, or got it from this payment.
LEMMA ChargeEffect ==
  ASSUME StoreP!Inv, NEW from, NEW to, NEW is \in BOOLEAN, NEW name,
         Store!ApplyCharge(from, to, is, name)
  PROVE  /\ table' = table
         /\ \A a \in DOMAIN chargers' :
              \/ a \in DOMAIN chargers /\ chargers'[a].exchangeName = chargers[a].exchangeName
              \/ a = from /\ is /\ chargers'[a].exchangeName = name
         /\ \A a \in DOMAIN chargers' : chargers'[a].isFake =>
              /\ a \in DOMAIN chargers /\ chargers'[a].exchangeName = chargers[a].exchangeName
              /\ \/ chargers[a].isFake
                 \/ a = from /\ is /\ name # chargers[a].exchangeName
                 \/ a = from /\ ~is /\ a \in DOMAIN addrBackups /\ to # addrBackups[a]
         /\ \A a \in DOMAIN addrBackups' :
              \/ a \in DOMAIN addrBackups /\ addrBackups'[a] = addrBackups[a]
              \/ a = from /\ ~is /\ addrBackups'[a] = to
         /\ \A a \in DOMAIN confBackups' :
              /\ a \in DOMAIN chargers /\ chargers'[a].exchangeName = chargers[a].exchangeName
              /\ \/ a \in DOMAIN confBackups /\ confBackups'[a] = confBackups[a]
                 \/ a = from /\ is /\ confBackups'[a] = name /\ name # chargers[a].exchangeName
<1>1. /\ DOMAIN confBackups \subseteq DOMAIN chargers
      /\ \A a \in DOMAIN chargers :
           chargers[a] = [id |-> chargers[a].id, exchangeName |-> chargers[a].exchangeName,
                          isFake |-> chargers[a].isFake]
  BY StoreTypes
<1>2. table' = table
  BY DEF Store!ApplyCharge, Store!disk
<1>3. CASE Store!ChargeNew(from, is, name)
  <2> DEFINE new == [id |-> 0, exchangeName |-> name, isFake |-> FALSE]
  <2>1. new.exchangeName = name /\ new.isFake = FALSE
    OBVIOUS
  <2>2. /\ chargers' = Store!Put(chargers, from, new) /\ is /\ from \notin DOMAIN chargers
        /\ UNCHANGED <<addrBackups, confBackups>>
    BY <1>3 DEF Store!ChargeNew
  <2> HIDE DEF new
  <2>3. /\ DOMAIN chargers' = DOMAIN chargers \cup {from}
        /\ chargers'[from] = new
        /\ \A a \in DOMAIN chargers : chargers'[a] = chargers[a]
    BY <2>2 DEF Store!Put
  <2> QED
    BY <1>1, <1>2, <2>1, <2>2, <2>3
<1>4. ASSUME chargers' = [chargers EXCEPT ![from].isFake = TRUE], from \in DOMAIN chargers
      PROVE  /\ DOMAIN chargers' = DOMAIN chargers
             /\ \A a \in DOMAIN chargers :
                  /\ chargers'[a].exchangeName = chargers[a].exchangeName
                  /\ chargers'[a].isFake = (a = from \/ chargers[a].isFake)
  <2>1. DOMAIN chargers' = DOMAIN chargers
    BY <1>4
  <2>2. ASSUME NEW a \in DOMAIN chargers
        PROVE  /\ chargers'[a].exchangeName = chargers[a].exchangeName
               /\ chargers'[a].isFake = (a = from \/ chargers[a].isFake)
    <3>1. chargers[a].isFake \in BOOLEAN
      BY StoreTypes
    <3>2. chargers'[a] = IF a = from THEN [chargers[a] EXCEPT !.isFake = TRUE] ELSE chargers[a]
      BY <1>4
    <3> QED
      BY <1>1, <3>1, <3>2
  <2> QED
    BY <2>1, <2>2
<1>5. CASE Store!ChargeConflict(from, is, name)
  <2>1. /\ from \in DOMAIN chargers /\ is /\ name # chargers[from].exchangeName
        /\ addrBackups' = Store!Drop(addrBackups, from)
        /\ confBackups' = Store!Put(confBackups, from, name)
        /\ chargers' = [chargers EXCEPT ![from].isFake = TRUE]
    BY <1>5 DEF Store!ChargeConflict, Store!Genuine
  <2>2. /\ DOMAIN addrBackups' = DOMAIN addrBackups \ {from}
        /\ \A a \in DOMAIN addrBackups' : addrBackups'[a] = addrBackups[a]
        /\ DOMAIN confBackups' = DOMAIN confBackups \cup {from}
        /\ confBackups'[from] = name
        /\ \A a \in DOMAIN confBackups : (a # from) => (confBackups'[a] = confBackups[a])
    BY <2>1 DEF Store!Drop, Store!Put
  <2> QED
    BY <1>1, <1>2, <1>4, <2>1, <2>2
<1>6. CASE Store!ChargeFirstAddress(from, to, is)
  <2>1. /\ ~is /\ addrBackups' = Store!Put(addrBackups, from, to)
        /\ UNCHANGED <<chargers, confBackups>>
    BY <1>6 DEF Store!ChargeFirstAddress
  <2>2. /\ DOMAIN addrBackups' = DOMAIN addrBackups \cup {from}
        /\ addrBackups'[from] = to
        /\ \A a \in DOMAIN addrBackups : (a # from) => (addrBackups'[a] = addrBackups[a])
    BY <2>1 DEF Store!Put
  <2> QED
    BY <1>1, <1>2, <2>1, <2>2
<1>7. CASE Store!ChargeSecondAddress(from, to, is)
  <2>1. /\ from \in DOMAIN chargers /\ ~is
        /\ from \in DOMAIN addrBackups /\ to # addrBackups[from]
        /\ chargers' = [chargers EXCEPT ![from].isFake = TRUE]
        /\ UNCHANGED <<addrBackups, confBackups>>
    BY <1>7 DEF Store!ChargeSecondAddress, Store!Genuine
  <2> QED
    BY <1>1, <1>2, <1>4, <2>1
<1>8. CASE Store!ChargeIgnored(from, to, is, name)
  BY <1>1, <1>2, <1>8 DEF Store!ChargeIgnored, Store!memory
<1> QED
  BY <1>3, <1>5, <1>6, <1>7, <1>8 DEF Store!ApplyCharge

\* One iteration of Refresh: the entry takes the new name, and a mark only
\* because its backup is an exchange of another name.
LEMMA RefreshEffect ==
  ASSUME StoreP!Inv, NEW a \in toVisit, NEW newName, NEW ex,
         Store!RefreshCharger(a, newName, ex)
  PROVE  /\ table' = table /\ confBackups' = confBackups
         /\ DOMAIN chargers' = DOMAIN chargers /\ a \in DOMAIN chargers
         /\ \A b \in DOMAIN chargers : (b # a) => (chargers'[b] = chargers[b])
         /\ chargers'[a].exchangeName = newName
         /\ chargers'[a].isFake =>
              chargers[a].isFake \/ (a \in DOMAIN addrBackups /\ ex # None /\ ex # newName)
         /\ \A b \in DOMAIN addrBackups' :
              b \in DOMAIN addrBackups /\ addrBackups'[b] = addrBackups[b]
<1>1. /\ a \in DOMAIN chargers
      /\ chargers[a] = [id |-> chargers[a].id, exchangeName |-> chargers[a].exchangeName,
                        isFake |-> chargers[a].isFake]
      /\ chargers[a].isFake \in BOOLEAN
  BY StoreTypes
<1>2. table' = table /\ confBackups' = confBackups
  BY DEF Store!RefreshCharger, Store!disk
<1>3. PICK fake :
        /\ chargers' = [chargers EXCEPT ![a] = [chargers[a] EXCEPT !.exchangeName = newName, !.isFake = fake]]
        /\ fake => chargers[a].isFake \/ (a \in DOMAIN addrBackups /\ ex # None /\ ex # newName)
  BY DEF Store!RefreshCharger
<1>4. /\ DOMAIN chargers' = DOMAIN chargers
      /\ \A b \in DOMAIN chargers : (b # a) => (chargers'[b] = chargers[b])
      /\ chargers'[a] = [chargers[a] EXCEPT !.exchangeName = newName, !.isFake = fake]
  BY <1>1, <1>3
<1>5. chargers'[a].exchangeName = newName /\ chargers'[a].isFake = fake
  BY <1>1, <1>4
<1>6. \A b \in DOMAIN addrBackups' :
        b \in DOMAIN addrBackups /\ addrBackups'[b] = addrBackups[b]
  <2>1. addrBackups' = addrBackups \/ addrBackups' = Store!Drop(addrBackups, a)
    BY DEF Store!RefreshCharger
  <2> QED
    BY <2>1 DEF Store!Drop
<1> QED
  BY <1>1, <1>2, <1>3, <1>4, <1>5, <1>6

\* A flush numbers the entries and copies them into rows.
LEMMA FlushEffect ==
  ASSUME StoreP!Inv, Store!DoFlush
  PROVE  /\ DOMAIN chargers' = DOMAIN chargers
         /\ \A a \in DOMAIN chargers :
              /\ chargers'[a].exchangeName = chargers[a].exchangeName
              /\ chargers'[a].isFake = chargers[a].isFake
         /\ UNCHANGED <<addrBackups, confBackups>>
         /\ \A i \in DOMAIN table' :
              \/ i \in DOMAIN table /\ table'[i] = table[i]
              \/ \E a \in DOMAIN chargers : table'[i] = Store!ToModel(a)
<1>1. CASE UNCHANGED <<Store!memory, Store!disk>>
  BY <1>1 DEF Store!memory, Store!disk
<1>2. ASSUME NEW ids, Store!WriteRows(ids), NEW i \in DOMAIN table'
      PROVE  \/ i \in DOMAIN table /\ table'[i] = table[i]
             \/ \E a \in DOMAIN chargers : table'[i] = Store!ToModel(a)
  <2>1. table' = [k \in DOMAIN table \cup Store!SavedIds(ids) |->
                    IF k \in Store!SavedIds(ids)
                    THEN Store!ToModel(CHOOSE a \in dirty : Store!SavedId(a, ids) = k)
                    ELSE table[k]]
    BY <1>2 DEF Store!WriteRows
  <2>2. CASE i \in Store!SavedIds(ids)
    <3> DEFINE writer == CHOOSE a \in dirty : Store!SavedId(a, ids) = i
    <3>1. writer \in dirty
      BY <2>2 DEF Store!SavedIds
    <3>2. table'[i] = Store!ToModel(writer)
      BY <2>1, <2>2
    <3> QED
      BY <3>1, <3>2, StoreTypes
  <2>3. CASE i \notin Store!SavedIds(ids)
    BY <1>2, <2>1, <2>3
  <2> QED
    BY <2>2, <2>3
<1>3. ASSUME NEW ids, Store!SaveOk(ids)
      PROVE  /\ DOMAIN chargers' = DOMAIN chargers
             /\ \A a \in DOMAIN chargers :
                  /\ chargers'[a].exchangeName = chargers[a].exchangeName
                  /\ chargers'[a].isFake = chargers[a].isFake
             /\ UNCHANGED <<addrBackups, confBackups>>
  <2>1. /\ chargers' = [a \in DOMAIN chargers |->
                          IF a \in dirty THEN [chargers[a] EXCEPT !.id = Store!SavedId(a, ids)]
                          ELSE chargers[a]]
        /\ UNCHANGED <<addrBackups, confBackups>>
    BY <1>3 DEF Store!SaveOk
  <2>2. DOMAIN chargers' = DOMAIN chargers
    BY <2>1
  <2>3. ASSUME NEW a \in DOMAIN chargers
        PROVE  /\ chargers'[a].exchangeName = chargers[a].exchangeName
               /\ chargers'[a].isFake = chargers[a].isFake
    <3>1. chargers'[a] = IF a \in dirty THEN [chargers[a] EXCEPT !.id = Store!SavedId(a, ids)]
                         ELSE chargers[a]
      BY <2>1
    <3>2. chargers[a] = [id |-> chargers[a].id, exchangeName |-> chargers[a].exchangeName,
                         isFake |-> chargers[a].isFake]
      BY StoreTypes
    <3> QED
      BY <3>1, <3>2
  <2> QED
    BY <2>1, <2>2, <2>3
<1>4. ASSUME NEW ids, Store!SaveUnacknowledged(ids)
      PROVE  UNCHANGED <<chargers, addrBackups, confBackups>>
  BY <1>4 DEF Store!SaveUnacknowledged, Store!memory
<1>5. ASSUME NEW ids, Store!SaveOk(ids) \/ Store!SaveUnacknowledged(ids)
      PROVE  Store!WriteRows(ids)
  BY <1>5 DEF Store!SaveOk, Store!SaveUnacknowledged
<1>6. CASE \E ids \in Store!FreshIds : Store!SaveOk(ids) \/ Store!SaveUnacknowledged(ids)
  <2>1. PICK ids \in Store!FreshIds : Store!SaveOk(ids) \/ Store!SaveUnacknowledged(ids)
    BY <1>6
  <2>2. \A i \in DOMAIN table' :
          \/ i \in DOMAIN table /\ table'[i] = table[i]
          \/ \E a \in DOMAIN chargers : table'[i] = Store!ToModel(a)
    BY <1>2, <1>5, <2>1
  <2>3. CASE Store!SaveOk(ids)
    BY <1>3, <2>2, <2>3
  <2>4. CASE Store!SaveUnacknowledged(ids)
    BY <1>4, <2>2, <2>4
  <2> QED
    BY <2>1, <2>3, <2>4
<1> QED
  BY <1>1, <1>6, Zenon DEF Store!DoFlush, Store!SaveFailed

\* A restart takes every entry, its mark and its backup from one row.
LEMMA RestartEffect ==
  ASSUME StoreP!Inv, Store!Restart
  PROVE  /\ table' = table
         /\ \A a \in DOMAIN chargers' : \E i \in DOMAIN table :
              /\ table[i].address = a
              /\ chargers'[a].exchangeName = table[i].exchangeName
              /\ chargers'[a].isFake = table[i].isFake
              /\ a \in DOMAIN addrBackups' =>
                   table[i].backup \in Addr /\ addrBackups'[a] = table[i].backup
              /\ a \in DOMAIN confBackups' =>
                   table[i].backup \in Name /\ table[i].isFake /\ confBackups'[a] = table[i].backup
         /\ DOMAIN addrBackups' \subseteq DOMAIN chargers'
         /\ DOMAIN confBackups' \subseteq DOMAIN chargers'
<1>1. /\ chargers' = Store!LoadedChargers(table)
      /\ addrBackups' = Store!LoadedAddrBackups(table)
      /\ confBackups' = Store!LoadedConfBackups(table)
      /\ table' = table
  BY DEF Store!Restart, Store!Load, Store!disk
<1>2. /\ DOMAIN chargers' = Store!Persisted(table)
      /\ DOMAIN addrBackups' \subseteq DOMAIN chargers'
      /\ DOMAIN confBackups' \subseteq DOMAIN chargers'
  BY <1>1 DEF Store!LoadedChargers, Store!LoadedAddrBackups, Store!LoadedConfBackups
<1>3. ASSUME NEW a \in DOMAIN chargers'
      PROVE  \E i \in DOMAIN table :
              /\ table[i].address = a
              /\ chargers'[a].exchangeName = table[i].exchangeName
              /\ chargers'[a].isFake = table[i].isFake
              /\ a \in DOMAIN addrBackups' =>
                   table[i].backup \in Addr /\ addrBackups'[a] = table[i].backup
              /\ a \in DOMAIN confBackups' =>
                   table[i].backup \in Name /\ table[i].isFake /\ confBackups'[a] = table[i].backup
  <2> DEFINE i == Store!LastId(table, a)
  <2>1. a \in StoreP!Persisted(table)
    BY <1>2, <1>3 DEF Store!Persisted, StoreP!Persisted, Store!RowIds, StoreP!RowIds
  <2>2. nextId - 1 \in Nat /\ DOMAIN table \subseteq 1..(nextId - 1)
    BY StoreTypes
  <2>3. StoreP!LastId(table, a) \in StoreP!RowIds(table, a)
    BY <2>1, <2>2, StoreP!LastIdIsLast, ConstantFacts
  <2>4. i = StoreP!LastId(table, a)
    BY Zenon DEF Store!LastId, StoreP!LastId, Store!RowIds, StoreP!RowIds
  <2>5. i \in DOMAIN table /\ table[i].address = a
    BY <2>3, <2>4 DEF StoreP!RowIds
  <2>6. Store!LastRow(table, a) = table[i]
    BY DEF Store!LastRow
  <2> HIDE DEF i
  <2>7. /\ chargers'[a].exchangeName = table[i].exchangeName
        /\ chargers'[a].isFake = table[i].isFake
    BY <1>1, <1>2, <1>3, <2>6 DEF Store!LoadedChargers
  <2>8. a \in DOMAIN addrBackups' =>
          table[i].backup \in Addr /\ addrBackups'[a] = table[i].backup
    BY <1>1, <2>6 DEF Store!LoadedAddrBackups
  <2>9. a \in DOMAIN confBackups' =>
          table[i].backup \in Name /\ table[i].isFake /\ confBackups'[a] = table[i].backup
    BY <1>1, <2>6 DEF Store!LoadedConfBackups
  <2> QED
    BY <2>5, <2>7, <2>8, <2>9
<1> QED
  BY <1>1, <1>2, <1>3

\* A row bears the entry that it was written from.
LEMMA RowWritten ==
  ASSUME NEW a
  PROVE  /\ Store!ToModel(a).address = a
         /\ Store!ToModel(a).exchangeName = chargers[a].exchangeName
         /\ Store!ToModel(a).isFake = chargers[a].isFake
         /\ Store!ToModel(a).backup = Store!Backup(a)
<1> DEFINE b == Store!Backup(a)
           n == chargers[a].exchangeName
           f == chargers[a].isFake
<1>1. Store!ToModel(a) = [address |-> a, exchangeName |-> n, backup |-> b, isFake |-> f]
  BY DEF Store!ToModel
<1> HIDE DEF b, n, f
<1>2. /\ Store!ToModel(a).address = a /\ Store!ToModel(a).exchangeName = n
      /\ Store!ToModel(a).isFake = f /\ Store!ToModel(a).backup = b
  BY <1>1
<1> QED
  BY <1>2 DEF b, n, f

-----------------------------------------------------------------------------
(* Every entry and every row is of an exchange that the payer has paid      *)
(* into, and every address kept as a backup is one that it has paid.        *)

EntriesMet ==
  /\ \A a \in DOMAIN chargers : a \in Payers /\ Met(a, chargers[a].exchangeName)
  /\ \A a \in DOMAIN addrBackups : MetAddress(a, addrBackups[a])

RowsMet ==
  \A i \in DOMAIN table :
    /\ table[i].address \in Payers
    /\ Met(table[i].address, table[i].exchangeName)
    /\ table[i].backup \in Addr => MetAddress(table[i].address, table[i].backup)

MetInv == EntriesMet /\ RowsMet

\* The store starts empty.
LEMMA MetInit == Init => MetInv
<1> SUFFICES ASSUME Init PROVE MetInv
  OBVIOUS
<1>1. table = <<>> /\ chargers = Store!LoadedChargers(table)
      /\ addrBackups = Store!LoadedAddrBackups(table)
  BY DEF Init, Store!Init
<1>2. DOMAIN table = {}
  BY <1>1
<1>3. Store!Persisted(table) = {}
  BY <1>2 DEF Store!Persisted, Store!RowIds
<1>4. DOMAIN chargers = {} /\ DOMAIN addrBackups = {}
  BY <1>1, <1>3 DEF Store!LoadedChargers, Store!LoadedAddrBackups
<1> QED
  BY <1>2, <1>4 DEF MetInv, EntriesMet, RowsMet

\* A name that the refresh resolves is of the exchange that it was of.
LEMMA RefreshStays ==
  ASSUME TrimSettles, Base, NEW n \in Trimmed, NEW m, Registry!ResolveOnly(n, m)
  PROVE  m \in Trimmed /\ Class[m] = Class[n]
<1>1. RegistryP!RegistryInv /\ NamedOK
  BY DEF Base, PartsOK
<1>2. PICK r \in RegistryP!Resolutions(Trim[n]) : r.name = m
  BY SameRegistry DEF RegistryP!ResolveOnly
<1>3. Trim[n] \in Trimmed /\ Class[Trim[n]] = Class[n]
  BY ConstantFacts DEF Trimmed, TrimSettles
<1> QED
  BY <1>1, <1>2, <1>3, ResolvedNames

\* No operation leads an entry, a backup or a row away from what was met.
LEMMA MetKept ==
  ASSUME TrimSettles, Base, MetInv, [Next]_vars
  PROVE  MetInv'
<1>1. /\ StoreP!Inv /\ CallOK
      /\ \A a \in Payers : observed[a] \subseteq observed'[a]
  BY ObservedGrows DEF Base, PartsOK
<1>3. ASSUME table' = table
      PROVE  RowsMet'
  BY <1>1, <1>3 DEF MetInv, RowsMet, Met, MetAddress
<1>2. ASSUME UNCHANGED <<chargers, addrBackups, table>>
      PROVE  MetInv'
  <2>1. \A a \in DOMAIN addrBackups : a \in Payers
    BY <1>1, StoreTypes DEF MetInv, EntriesMet
  <2>2. EntriesMet'
    BY <1>1, <1>2, <2>1 DEF MetInv, EntriesMet, Met, MetAddress
  <2> QED
    BY <1>2, <1>3, <2>2 DEF MetInv
<1>4. CASE Apply
  <2>1. /\ Store!ApplyCharge(call.from, call.to, call.toIsExchange, call.toName)
        /\ pc # "idle"
    BY <1>4 DEF Apply
  <2>2. /\ call.from \in Payers /\ call.toIsExchange \in BOOLEAN
        /\ call.toIsExchange => Met(call.from, call.toName)
        /\ ~call.toIsExchange => MetAddress(call.from, call.to)
    BY <1>1, <2>1 DEF CallOK
  <2>3. /\ table' = table
        /\ \A a \in DOMAIN chargers' :
             \/ a \in DOMAIN chargers /\ chargers'[a].exchangeName = chargers[a].exchangeName
             \/ a = call.from /\ call.toIsExchange /\ chargers'[a].exchangeName = call.toName
        /\ \A a \in DOMAIN addrBackups' :
             \/ a \in DOMAIN addrBackups /\ addrBackups'[a] = addrBackups[a]
             \/ a = call.from /\ ~call.toIsExchange /\ addrBackups'[a] = call.to
    BY <1>1, <2>1, <2>2, ChargeEffect
  <2>4. \A a \in DOMAIN addrBackups : a \in Payers
    BY <1>1, StoreTypes DEF MetInv, EntriesMet
  <2>5. EntriesMet'
    BY <1>1, <2>2, <2>3, <2>4 DEF MetInv, EntriesMet, Met, MetAddress
  <2> QED
    BY <1>3, <2>3, <2>5 DEF MetInv
<1>5. ASSUME Store!DoFlush
      PROVE  MetInv'
  <2>1. /\ DOMAIN chargers' = DOMAIN chargers
        /\ \A a \in DOMAIN chargers : chargers'[a].exchangeName = chargers[a].exchangeName
        /\ addrBackups' = addrBackups
        /\ \A i \in DOMAIN table' :
             \/ i \in DOMAIN table /\ table'[i] = table[i]
             \/ \E a \in DOMAIN chargers : table'[i] = Store!ToModel(a)
    BY <1>1, <1>5, FlushEffect
  <2>2. \A a \in DOMAIN addrBackups : a \in Payers
    BY <1>1, StoreTypes DEF MetInv, EntriesMet
  <2>3. EntriesMet'
    BY <1>1, <2>1, <2>2 DEF MetInv, EntriesMet, Met, MetAddress
  <2>4. ASSUME NEW i \in DOMAIN table'
        PROVE  /\ table'[i].address \in Payers
               /\ table'[i].exchangeName \in Trimmed
               /\ <<"exchange", Class[table'[i].exchangeName]>> \in observed'[table'[i].address]
               /\ table'[i].backup \in Addr =>
                    <<"address", table'[i].backup>> \in observed'[table'[i].address]
    <3>1. CASE i \in DOMAIN table /\ table'[i] = table[i]
      BY <1>1, <3>1 DEF MetInv, RowsMet, Met, MetAddress
    <3>2. ASSUME NEW a \in DOMAIN chargers, table'[i] = Store!ToModel(a)
          PROVE  /\ table'[i].address \in Payers
                 /\ table'[i].exchangeName \in Trimmed
                 /\ <<"exchange", Class[table'[i].exchangeName]>> \in observed'[table'[i].address]
                 /\ table'[i].backup \in Addr =>
                      <<"address", table'[i].backup>> \in observed'[table'[i].address]
      <4>1. /\ table'[i].address = a
            /\ table'[i].exchangeName = chargers[a].exchangeName
            /\ table'[i].backup = Store!Backup(a)
        BY <3>2, RowWritten
      <4>2. Store!Backup(a) \in Addr => MetAddress(a, Store!Backup(a))
        <5>1. /\ a \in DOMAIN confBackups => confBackups[a] \in Name
              /\ Addr \cap Name = {} /\ None \notin Addr
          BY <1>1, StoreTypes, PartsAssumption
        <5>2. a \in DOMAIN addrBackups => MetAddress(a, addrBackups[a])
          BY DEF MetInv, EntriesMet
        <5> QED
          BY <5>1, <5>2 DEF Store!Backup
      <4>3. a \in Payers /\ Met(a, chargers[a].exchangeName)
        BY DEF MetInv, EntriesMet
      <4> QED
        BY <1>1, <4>1, <4>2, <4>3 DEF Met, MetAddress
    <3> QED
      BY <2>1, <3>1, <3>2
  <2>5. RowsMet'
    BY <2>4, Zenon DEF RowsMet, Met, MetAddress
  <2> QED
    BY <2>3, <2>5 DEF MetInv
<1>6. CASE RefreshOne
  <2>1. PICK a \in toVisit, newName \in Name :
          /\ Registry!ResolveOnly(chargers[a].exchangeName, newName)
          /\ Store!RefreshCharger(a, newName,
               IF a \in DOMAIN addrBackups /\ addrBackups[a] \in DOMAIN exchanges'
               THEN exchanges'[addrBackups[a]].name ELSE None)
    BY <1>6 DEF RefreshOne
  <2>2. /\ table' = table
        /\ DOMAIN chargers' = DOMAIN chargers /\ a \in DOMAIN chargers
        /\ \A b \in DOMAIN chargers : (b # a) => (chargers'[b] = chargers[b])
        /\ chargers'[a].exchangeName = newName
        /\ \A b \in DOMAIN addrBackups' :
             b \in DOMAIN addrBackups /\ addrBackups'[b] = addrBackups[b]
    BY <1>1, <2>1, RefreshEffect
  <2>3. \A b \in DOMAIN chargers : b \in Payers /\ Met(b, chargers[b].exchangeName)
    BY DEF MetInv, EntriesMet
  <2>4. newName \in Trimmed /\ Class[newName] = Class[chargers[a].exchangeName]
    BY <2>1, <2>2, <2>3, RefreshStays DEF Met
  <2>5. \A b \in DOMAIN chargers' : Met(b, chargers'[b].exchangeName)
    BY <2>2, <2>3, <2>4 DEF Met
  <2>6. \A b \in DOMAIN addrBackups' : b \in Payers /\ MetAddress(b, addrBackups'[b])
    BY <1>1, <2>2, <2>3, StoreTypes DEF MetInv, EntriesMet
  <2>7. EntriesMet'
    BY <1>1, <2>2, <2>3, <2>5, <2>6 DEF EntriesMet, Met, MetAddress
  <2> QED
    BY <1>3, <2>2, <2>7 DEF MetInv
<1>7. CASE Restart
  <2>1. /\ table' = table
        /\ \A a \in DOMAIN chargers' : \E i \in DOMAIN table :
             /\ table[i].address = a
             /\ chargers'[a].exchangeName = table[i].exchangeName
             /\ a \in DOMAIN addrBackups' =>
                  table[i].backup \in Addr /\ addrBackups'[a] = table[i].backup
        /\ DOMAIN addrBackups' \subseteq DOMAIN chargers'
    BY <1>1, <1>7, RestartEffect DEF Restart
  <2>2. \A a \in DOMAIN chargers' :
          /\ a \in Payers /\ Met(a, chargers'[a].exchangeName)
          /\ a \in DOMAIN addrBackups' => MetAddress(a, addrBackups'[a])
    BY <2>1 DEF MetInv, RowsMet
  <2>3. EntriesMet'
    BY <1>1, <2>1, <2>2 DEF EntriesMet, Met, MetAddress
  <2> QED
    BY <1>3, <2>1, <2>3 DEF MetInv
<1>8. CASE FlushIfManyPending
  BY <1>2, <1>5, <1>8 DEF FlushIfManyPending, storeVars, Store!FlushDirty
<1>9. CASE EndRefresh
  BY <1>5, <1>9 DEF EndRefresh, Store!EndRefresh
<1> QED
  BY <1>2, <1>4, <1>6, <1>7, <1>8, <1>9
     DEF Next, vars, ReadReceiver, ChangeRegistry, InsertExchange, BeginRefresh, Normalise, storeVars,
         Store!BeginRefresh, Store!memory, Store!disk

\* Whatever the registry renames between the read and the store's lock, between
\* two iterations of the refresh, or across crashes, the entry of a payer stays
\* with one of the exchanges that it has paid into, if trimming settles.
THEOREM ChargerStaysWithExchange ==
  ASSUME TrimSettles
  PROVE  Spec => []ChargerOfExchangeMet
<1>1. MetInv => ChargerOfExchangeMet
  BY DEF MetInv, EntriesMet, ChargerOfExchangeMet, Met
<1> QED
  BY <1>1, BaseInit, BaseKept, MetInit, MetKept, PTL DEF Spec

-----------------------------------------------------------------------------
(* Marks and conflicts: who is marked has a cause, and a backup that is a   *)
(* name is that of another exchange.                                        *)

Cause(a, name) ==
  \/ \E o, p \in ExchangesMet(a) : o # p
  \/ \E o, p \in AddressesMet(a) : o # p
  \/ \E o \in AddressesMet(a), n \in named : n[1] = o[2] /\ n[2] # Class[name]

EntriesCaused ==
  \A a \in DOMAIN chargers : chargers[a].isFake => Cause(a, chargers[a].exchangeName)

RowsCaused ==
  \A i \in DOMAIN table :
    /\ table[i].isFake => Cause(table[i].address, table[i].exchangeName)
    /\ table[i].backup \in Name => Class[table[i].backup] # Class[table[i].exchangeName]

CauseInv == EntriesCaused /\ ConflictIsDifferentExchange /\ RowsCaused

\* The store starts empty.
LEMMA CauseInit == Init => CauseInv
<1> SUFFICES ASSUME Init PROVE CauseInv
  OBVIOUS
<1>1. /\ table = <<>> /\ chargers = Store!LoadedChargers(table)
      /\ confBackups = Store!LoadedConfBackups(table)
  BY DEF Init, Store!Init
<1>2. DOMAIN table = {}
  BY <1>1
<1>3. Store!Persisted(table) = {}
  BY <1>2 DEF Store!Persisted, Store!RowIds
<1>4. DOMAIN chargers = {} /\ DOMAIN confBackups = {}
  BY <1>1, <1>3 DEF Store!LoadedChargers, Store!LoadedConfBackups
<1> QED
  BY <1>2, <1>4 DEF CauseInv, EntriesCaused, ConflictIsDifferentExchange, RowsCaused

\* A cause stays one, and is one for every name of the exchange.
LEMMA CauseStays ==
  ASSUME ObservedOK, [Next]_vars, NEW a \in Payers, NEW n, NEW m,
         Class[m] = Class[n], Cause(a, n)
  PROVE  Cause(a, m)'
<1>1. observed[a] \subseteq observed'[a] /\ named \subseteq named'
  BY ObservedGrows
<1>2. ExchangesMet(a) \subseteq ExchangesMet(a)' /\ AddressesMet(a) \subseteq AddressesMet(a)'
  BY <1>1 DEF ExchangesMet, AddressesMet
<1> QED
  BY <1>1, <1>2 DEF Cause

\* Two different exchanges, or two different addresses, are a cause.
LEMMA TwoAreCause ==
  ASSUME NEW a, NEW n
  PROVE  /\ \A x, y : /\ <<"exchange", x>> \in observed[a]
                      /\ <<"exchange", y>> \in observed[a]
                      /\ x # y
                      => Cause(a, n)
         /\ \A x, y : MetAddress(a, x) /\ MetAddress(a, y) /\ x # y => Cause(a, n)
<1>1. ASSUME NEW x, NEW y, <<"exchange", x>> \in observed[a], <<"exchange", y>> \in observed[a], x # y
      PROVE  Cause(a, n)
  <2>1. <<"exchange", x>> \in ExchangesMet(a) /\ <<"exchange", y>> \in ExchangesMet(a)
    BY <1>1 DEF ExchangesMet
  <2>2. <<"exchange", x>> # <<"exchange", y>>
    BY <1>1
  <2> QED
    BY <2>1, <2>2 DEF Cause
<1>2. ASSUME NEW x, NEW y, MetAddress(a, x), MetAddress(a, y), x # y
      PROVE  Cause(a, n)
  <2>1. <<"address", x>> \in AddressesMet(a) /\ <<"address", y>> \in AddressesMet(a)
    BY <1>2 DEF AddressesMet, MetAddress
  <2>2. <<"address", x>> # <<"address", y>>
    BY <1>2
  <2> QED
    BY <2>1, <2>2 DEF Cause
<1> QED
  BY <1>1, <1>2

\* SaveCharger marks only who has a cause.
LEMMA ChargeCauses ==
  ASSUME OneSpellingEach, Base, MetInv, CauseInv, Apply
  PROVE  /\ \A a \in DOMAIN chargers' : chargers'[a].isFake =>
              /\ a \in DOMAIN chargers /\ chargers'[a].exchangeName = chargers[a].exchangeName
              /\ Cause(a, chargers[a].exchangeName)
         /\ \A a \in DOMAIN confBackups' :
              Class[confBackups'[a]] # Class[chargers'[a].exchangeName]
         /\ table' = table
<1>1. /\ StoreP!Inv /\ CallOK
      /\ Store!ApplyCharge(call.from, call.to, call.toIsExchange, call.toName)
      /\ pc # "idle"
  BY DEF Base, PartsOK, Apply
<1> DEFINE from == call.from
           to == call.to
           is == call.toIsExchange
           name == call.toName
<1>2. /\ from \in Payers /\ is \in BOOLEAN
      /\ is => Met(from, name)
      /\ ~is => MetAddress(from, to)
      /\ Store!ApplyCharge(from, to, is, name)
  BY <1>1 DEF CallOK
<1> HIDE DEF from, to, is, name
<1>3. \A a \in DOMAIN chargers : Met(a, chargers[a].exchangeName)
  BY DEF MetInv, EntriesMet
<1>4. ASSUME NEW a \in DOMAIN chargers, a = from, is, name # chargers[a].exchangeName
      PROVE  Class[name] # Class[chargers[a].exchangeName] /\ Cause(a, chargers[a].exchangeName)
  <2>1. Met(a, name) /\ Met(a, chargers[a].exchangeName)
    BY <1>2, <1>3, <1>4
  <2>2. Class[name] # Class[chargers[a].exchangeName]
    BY <1>4, <2>1, ConstantFacts DEF Met, OneSpellingEach
  <2> QED
    BY <2>1, <2>2, TwoAreCause DEF Met
<1>5. ASSUME NEW a \in DOMAIN chargers, a = from, ~is, a \in DOMAIN addrBackups, to # addrBackups[a]
      PROVE  Cause(a, chargers[a].exchangeName)
  <2>1. MetAddress(a, to) /\ MetAddress(a, addrBackups[a])
    BY <1>2, <1>5 DEF MetInv, EntriesMet
  <2> QED
    BY <1>5, <2>1, TwoAreCause
<1>6. ASSUME NEW a \in DOMAIN chargers', chargers'[a].isFake
      PROVE  /\ a \in DOMAIN chargers /\ chargers'[a].exchangeName = chargers[a].exchangeName
             /\ Cause(a, chargers[a].exchangeName)
  <2>1. /\ a \in DOMAIN chargers /\ chargers'[a].exchangeName = chargers[a].exchangeName
        /\ \/ chargers[a].isFake
           \/ a = from /\ is /\ name # chargers[a].exchangeName
           \/ a = from /\ ~is /\ a \in DOMAIN addrBackups /\ to # addrBackups[a]
    BY <1>1, <1>2, <1>6, ChargeEffect
  <2> QED
    BY <1>4, <1>5, <2>1 DEF CauseInv, EntriesCaused
<1>7. ASSUME NEW a \in DOMAIN confBackups'
      PROVE  Class[confBackups'[a]] # Class[chargers'[a].exchangeName]
  <2>1. /\ a \in DOMAIN chargers /\ chargers'[a].exchangeName = chargers[a].exchangeName
        /\ \/ a \in DOMAIN confBackups /\ confBackups'[a] = confBackups[a]
           \/ a = from /\ is /\ confBackups'[a] = name /\ name # chargers[a].exchangeName
    BY <1>1, <1>2, <1>7, ChargeEffect
  <2> QED
    BY <1>4, <2>1 DEF CauseInv, ConflictIsDifferentExchange
<1>8. table' = table
  BY <1>1, <1>2, ChargeEffect
<1> QED
  BY <1>6, <1>7, <1>8

\* The refresh marks an entry only when the address that it has as backup has
\* become another exchange.
LEMMA RefreshCauses ==
  ASSUME TrimSettles, OneSpellingEach, Base, Base', MetInv, CauseInv, [Next]_vars, RefreshOne
  PROVE  EntriesCaused' /\ ConflictIsDifferentExchange' /\ table' = table
<1>1. /\ StoreP!Inv /\ ObservedOK /\ NamedOK'
      /\ \A b \in Payers : observed[b] \subseteq observed'[b]
  BY ObservedGrows DEF Base, PartsOK
<1>2. PICK a \in toVisit, newName \in Name :
        /\ Registry!ResolveOnly(chargers[a].exchangeName, newName)
        /\ Store!RefreshCharger(a, newName,
             IF a \in DOMAIN addrBackups /\ addrBackups[a] \in DOMAIN exchanges'
             THEN exchanges'[addrBackups[a]].name ELSE None)
  BY DEF RefreshOne
<1> DEFINE ex == IF a \in DOMAIN addrBackups /\ addrBackups[a] \in DOMAIN exchanges'
                 THEN exchanges'[addrBackups[a]].name ELSE None
<1>3. /\ table' = table /\ confBackups' = confBackups
      /\ DOMAIN chargers' = DOMAIN chargers /\ a \in DOMAIN chargers
      /\ \A b \in DOMAIN chargers : (b # a) => (chargers'[b] = chargers[b])
      /\ chargers'[a].exchangeName = newName
      /\ chargers'[a].isFake =>
           chargers[a].isFake \/ (a \in DOMAIN addrBackups /\ ex # None /\ ex # newName)
  <2>1. Store!RefreshCharger(a, newName, ex)
    BY <1>2
  <2> HIDE DEF ex
  <2> QED
    BY <1>1, <2>1, RefreshEffect
<1>4. \A b \in DOMAIN chargers : b \in Payers /\ Met(b, chargers[b].exchangeName)
  BY DEF MetInv, EntriesMet
<1>5. newName \in Trimmed /\ Class[newName] = Class[chargers[a].exchangeName]
  BY <1>2, <1>3, <1>4, RefreshStays DEF Met
<1>6. ConflictIsDifferentExchange'
  <2>1. DOMAIN confBackups \subseteq DOMAIN chargers
    BY <1>1, StoreTypes
  <2>2. \A b \in DOMAIN confBackups : Class[confBackups[b]] # Class[chargers[b].exchangeName]
    BY DEF CauseInv, ConflictIsDifferentExchange
  <2>3. \A b \in DOMAIN chargers : Class[chargers'[b].exchangeName] = Class[chargers[b].exchangeName]
    BY <1>3, <1>5
  <2> QED
    BY <1>3, <2>1, <2>2, <2>3 DEF ConflictIsDifferentExchange
<1>7. ASSUME NEW b \in DOMAIN chargers, chargers[b].isFake, NEW m, m = chargers'[b].exchangeName
      PROVE  Cause(b, m)'
  <2>1. Cause(b, chargers[b].exchangeName) /\ b \in Payers
    BY <1>4, <1>7 DEF CauseInv, EntriesCaused
  <2>2. Class[chargers'[b].exchangeName] = Class[chargers[b].exchangeName]
    BY <1>3, <1>5
  <2> QED
    BY <1>1, <1>7, <2>1, <2>2, CauseStays
<1>8. ASSUME a \in DOMAIN addrBackups, ex # None, ex # newName
      PROVE  \E o \in AddressesMet(a)', n \in named' : n[1] = o[2] /\ n[2] # Class[newName]
  <2> DEFINE b == addrBackups[a]
  <2>1. b \in DOMAIN exchanges' /\ ex = exchanges'[b].name
    BY <1>8
  <2>2. ex \in Trimmed /\ <<b, Class[ex]>> \in named'
    BY <1>1, <2>1 DEF NamedOK
  <2>3. Class[ex] # Class[newName]
    BY <1>5, <1>8, <2>2, ConstantFacts DEF OneSpellingEach
  <2>4. <<"address", b>> \in AddressesMet(a)'
    BY <1>1, <1>3, <1>4, <1>8 DEF MetInv, EntriesMet, MetAddress, AddressesMet
  <2> HIDE DEF b, ex
  <2>5. <<b, Class[ex]>>[1] = <<"address", b>>[2] /\ <<b, Class[ex]>>[2] # Class[newName]
    BY <2>3
  <2> QED
    BY <2>2, <2>4, <2>5
<1> HIDE DEF ex
<1>9. ASSUME NEW b \in DOMAIN chargers', chargers'[b].isFake, NEW m, m = chargers'[b].exchangeName
      PROVE  Cause(b, m)'
  <2>1. CASE chargers[b].isFake
    BY <1>3, <1>7, <1>9, <2>1
  <2>2. CASE ~chargers[b].isFake
    <3>1. b = a /\ m = newName /\ a \in DOMAIN addrBackups /\ ex # None /\ ex # newName
      BY <1>3, <1>9, <2>2
    <3> QED
      BY <1>8, <3>1 DEF Cause
  <2> QED
    BY <2>1, <2>2
<1>10. EntriesCaused'
  BY <1>9, Zenon DEF EntriesCaused, Cause
<1> QED
  BY <1>3, <1>6, <1>10

\* While the table stays, its rows keep their causes.
LEMMA RowsCausedKept ==
  ASSUME Base, MetInv, CauseInv, [Next]_vars, table' = table
  PROVE  RowsCaused'
<1>1. ObservedOK
  BY DEF Base
<1>2. ASSUME NEW i \in DOMAIN table, table[i].isFake, NEW a, a = table[i].address,
             NEW m, m = table[i].exchangeName
      PROVE  Cause(a, m)'
  <2>1. Cause(a, m) /\ a \in Payers
    BY <1>2 DEF MetInv, RowsMet, CauseInv, RowsCaused
  <2> QED
    BY <1>1, <2>1, CauseStays
<1>3. ASSUME NEW i \in DOMAIN table', NEW a, a = table'[i].address, NEW m, m = table'[i].exchangeName
      PROVE  /\ table'[i].isFake => Cause(a, m)'
             /\ table'[i].backup \in Name => Class[table'[i].backup] # Class[m]
  <2>1. table'[i].isFake => Cause(a, m)'
    BY <1>2, <1>3
  <2> QED
    BY <1>3, <2>1 DEF CauseInv, RowsCaused
<1> QED
  BY <1>3, SMT DEF RowsCaused, Cause

\* A flush copies marks and conflicts into rows.
LEMMA FlushCauses ==
  ASSUME Base, MetInv, CauseInv, [Next]_vars, Store!DoFlush
  PROVE  CauseInv'
<1>1. /\ StoreP!Inv /\ ObservedOK
      /\ \A a \in DOMAIN chargers : a \in Payers
  BY DEF Base, PartsOK, MetInv, EntriesMet
<1>2. /\ DOMAIN chargers' = DOMAIN chargers
      /\ \A a \in DOMAIN chargers :
           /\ chargers'[a].exchangeName = chargers[a].exchangeName
           /\ chargers'[a].isFake = chargers[a].isFake
      /\ confBackups' = confBackups
      /\ \A i \in DOMAIN table' :
           \/ i \in DOMAIN table /\ table'[i] = table[i]
           \/ \E a \in DOMAIN chargers : table'[i] = Store!ToModel(a)
  BY <1>1, FlushEffect
<1>3. ASSUME NEW a \in DOMAIN chargers, chargers[a].isFake, NEW m, m = chargers[a].exchangeName
      PROVE  Cause(a, m)'
  <2>1. Cause(a, m) /\ a \in Payers
    BY <1>1, <1>3 DEF CauseInv, EntriesCaused
  <2> QED
    BY <1>1, <2>1, CauseStays
<1>4. ASSUME NEW a \in DOMAIN chargers', chargers'[a].isFake, NEW m, m = chargers'[a].exchangeName
      PROVE  Cause(a, m)'
  BY <1>2, <1>3, <1>4
<1>5. EntriesCaused'
  BY <1>4, Zenon DEF EntriesCaused, Cause
<1>6. ConflictIsDifferentExchange'
  <2>1. DOMAIN confBackups \subseteq DOMAIN chargers
    BY <1>1, StoreTypes
  <2> QED
    BY <1>2, <2>1 DEF CauseInv, ConflictIsDifferentExchange
<1>7. ASSUME NEW i \in DOMAIN table', NEW a, a = table'[i].address, NEW m, m = table'[i].exchangeName
      PROVE  /\ table'[i].isFake => Cause(a, m)'
             /\ table'[i].backup \in Name => Class[table'[i].backup] # Class[m]
  <2>1. CASE i \in DOMAIN table /\ table'[i] = table[i]
    <3>1. table[i].isFake => Cause(a, m) /\ a \in Payers
      BY <1>7, <2>1 DEF MetInv, RowsMet, CauseInv, RowsCaused
    <3>2. table[i].isFake => Cause(a, m)'
      BY <1>1, <3>1, CauseStays
    <3> QED
      BY <1>7, <2>1, <3>2 DEF CauseInv, RowsCaused
  <2>2. ASSUME NEW b \in DOMAIN chargers, table'[i] = Store!ToModel(b)
        PROVE  /\ table'[i].isFake => Cause(a, m)'
               /\ table'[i].backup \in Name => Class[table'[i].backup] # Class[m]
    <3>1. /\ a = b /\ m = chargers[b].exchangeName
          /\ table'[i].isFake = chargers[b].isFake
          /\ table'[i].backup = Store!Backup(b)
      BY <1>7, <2>2, RowWritten
    <3>2. Store!Backup(b) \in Name => Class[Store!Backup(b)] # Class[chargers[b].exchangeName]
      <4>1. /\ b \in DOMAIN addrBackups => addrBackups[b] \in Addr
            /\ Addr \cap Name = {} /\ None \notin Name
        BY <1>1, StoreTypes, PartsAssumption
      <4>2. b \in DOMAIN confBackups => Class[confBackups[b]] # Class[chargers[b].exchangeName]
        BY DEF CauseInv, ConflictIsDifferentExchange
      <4> QED
        BY <4>1, <4>2 DEF Store!Backup
    <3>3. table'[i].isFake => Cause(a, m)'
      BY <1>3, <3>1
    <3> QED
      BY <3>1, <3>2, <3>3
  <2> QED
    BY <1>2, <2>1, <2>2
<1>8. RowsCaused'
  BY <1>7, Zenon DEF RowsCaused, Cause
<1> QED
  BY <1>5, <1>6, <1>8 DEF CauseInv

\* No operation marks an entry, or notes a conflict, without a cause; a restart
\* takes both from a row that had one.
LEMMA CauseKept ==
  ASSUME TrimSettles, OneSpellingEach, Base, Base', MetInv, CauseInv, [Next]_vars
  PROVE  CauseInv'
<1>1. StoreP!Inv /\ ObservedOK /\ \A a \in DOMAIN chargers : a \in Payers
  BY DEF Base, PartsOK, MetInv, EntriesMet
<1>2. ASSUME UNCHANGED <<chargers, confBackups, table>>
      PROVE  CauseInv'
  <2>1. ASSUME NEW a \in DOMAIN chargers', chargers'[a].isFake, NEW m, m = chargers'[a].exchangeName
        PROVE  Cause(a, m)'
    <3>1. a \in Payers /\ Cause(a, m)
      BY <1>1, <1>2, <2>1 DEF CauseInv, EntriesCaused
    <3> QED
      BY <1>1, <3>1, CauseStays
  <2>2. EntriesCaused'
    BY <2>1, Zenon DEF EntriesCaused, Cause
  <2>3. ConflictIsDifferentExchange'
    BY <1>2 DEF CauseInv, ConflictIsDifferentExchange
  <2> QED
    BY <1>2, <2>2, <2>3, RowsCausedKept DEF CauseInv
<1>3. CASE Apply
  <2>1. /\ \A a \in DOMAIN chargers' : chargers'[a].isFake =>
             /\ a \in DOMAIN chargers /\ chargers'[a].exchangeName = chargers[a].exchangeName
             /\ Cause(a, chargers[a].exchangeName)
        /\ \A a \in DOMAIN confBackups' :
             Class[confBackups'[a]] # Class[chargers'[a].exchangeName]
        /\ table' = table
    BY <1>3, ChargeCauses
  <2>2. ASSUME NEW a \in DOMAIN chargers', chargers'[a].isFake, NEW m, m = chargers'[a].exchangeName
        PROVE  Cause(a, m)'
    <3>1. a \in Payers /\ Cause(a, m)
      BY <1>1, <2>1, <2>2
    <3> QED
      BY <1>1, <3>1, CauseStays
  <2>3. EntriesCaused'
    BY <2>2, Zenon DEF EntriesCaused, Cause
  <2>4. ConflictIsDifferentExchange'
    BY <2>1 DEF ConflictIsDifferentExchange
  <2> QED
    BY <2>1, <2>3, <2>4, RowsCausedKept DEF CauseInv
<1>4. CASE RefreshOne
  BY <1>4, RefreshCauses, RowsCausedKept DEF CauseInv
<1>5. CASE Restart
  <2>1. /\ table' = table
        /\ \A a \in DOMAIN chargers' : \E i \in DOMAIN table :
             /\ table[i].address = a
             /\ chargers'[a].exchangeName = table[i].exchangeName
             /\ chargers'[a].isFake = table[i].isFake
             /\ a \in DOMAIN confBackups' =>
                  table[i].backup \in Name /\ table[i].isFake /\ confBackups'[a] = table[i].backup
        /\ DOMAIN confBackups' \subseteq DOMAIN chargers'
    BY <1>1, <1>5, RestartEffect DEF Restart
  <2>2. ASSUME NEW a \in DOMAIN chargers', chargers'[a].isFake, NEW m, m = chargers'[a].exchangeName
        PROVE  Cause(a, m)'
    <3>1. a \in Payers /\ Cause(a, m)
      BY <2>1, <2>2 DEF MetInv, RowsMet, CauseInv, RowsCaused
    <3> QED
      BY <1>1, <3>1, CauseStays
  <2>3. EntriesCaused'
    BY <2>2, Zenon DEF EntriesCaused, Cause
  <2>4. ConflictIsDifferentExchange'
    BY <2>1 DEF ConflictIsDifferentExchange, CauseInv, RowsCaused
  <2> QED
    BY <2>1, <2>3, <2>4, RowsCausedKept DEF CauseInv
<1>6. CASE FlushIfManyPending
  BY <1>2, <1>6, FlushCauses DEF FlushIfManyPending, storeVars, Store!FlushDirty
<1>7. CASE EndRefresh
  BY <1>7, FlushCauses DEF EndRefresh, Store!EndRefresh
<1> QED
  BY <1>2, <1>3, <1>4, <1>5, <1>6, <1>7
     DEF Next, vars, ReadReceiver, ChangeRegistry, InsertExchange, BeginRefresh, Normalise, storeVars,
         Store!BeginRefresh, Store!memory, Store!disk

\* A finite set that has two different elements has more than one.
LEMMA MoreThanOne ==
  ASSUME NEW S, IsFiniteSet(S), NEW x \in S, NEW y \in S, x # y
  PROVE  Cardinality(S) > 1
<1>1. IsFiniteSet(S \ {x}) /\ Cardinality(S \ {x}) = Cardinality(S) - 1
  BY FS_RemoveElement
<1>2. Cardinality(S \ {x}) \in Nat /\ Cardinality(S) \in Nat
  BY <1>1, FS_CardinalityType
<1>3. Cardinality(S \ {x}) # 0
  BY <1>1, FS_EmptySet
<1> QED
  BY <1>1, <1>2, <1>3

\* A cause, in the words of the property.
LEMMA CauseIsReason ==
  ASSUME ObservedOK, NEW a \in Payers, NEW n, Cause(a, n)
  PROVE  \/ Cardinality(ExchangesMet(a)) > 1
         \/ Cardinality(AddressesMet(a)) > 1
         \/ \E o \in AddressesMet(a), p \in named : p[1] = o[2] /\ p[2] # Class[n]
<1>1. IsFiniteSet(ExchangesMet(a)) /\ IsFiniteSet(AddressesMet(a))
  <2>1. /\ IsFiniteSet(observed[a])
        /\ ExchangesMet(a) \subseteq observed[a] /\ AddressesMet(a) \subseteq observed[a]
    BY DEF ObservedOK, ExchangesMet, AddressesMet
  <2> QED
    BY <2>1, FS_Subset
<1> QED
  BY <1>1, MoreThanOne DEF Cause

\* The name that is kept as a backup is that of "a different exchange"
\* (charger_store.go:156) after every renaming, flush and crash, if every
\* exchange has one spelling; with two spellings the run ChargerRename
\* shows a conflict between them.
THEOREM ConflictsAreGenuine ==
  ASSUME TrimSettles, OneSpellingEach
  PROVE  Spec => []ConflictIsDifferentExchange
<1>1. CauseInv => ConflictIsDifferentExchange
  BY DEF CauseInv
<1> QED
  BY <1>1, BaseInit, BaseKept, MetInit, MetKept, CauseInit, CauseKept, PTL DEF Spec

\* Nobody who dealt with a single exchange is marked fake, whatever the refresh,
\* changes of the registry and crashes do in between, if every exchange has
\* one spelling.
THEOREM MarksAreCaused ==
  ASSUME TrimSettles, OneSpellingEach
  PROVE  Spec => []FakeHasCause
<1>1. Base /\ MetInv /\ CauseInv => FakeHasCause
  <2> SUFFICES ASSUME Base, MetInv, CauseInv, NEW a \in DOMAIN chargers, chargers[a].isFake
               PROVE  \/ Cardinality(ExchangesMet(a)) > 1
                      \/ Cardinality(AddressesMet(a)) > 1
                      \/ \E o \in AddressesMet(a), n \in named :
                           n[1] = o[2] /\ n[2] # Class[chargers[a].exchangeName]
    BY DEF FakeHasCause
  <2>1. Cause(a, chargers[a].exchangeName) /\ a \in Payers /\ ObservedOK
    BY DEF Base, MetInv, EntriesMet, CauseInv, EntriesCaused
  <2> QED
    BY <2>1, CauseIsReason
<1> QED
  BY <1>1, BaseInit, BaseKept, MetInit, MetKept, CauseInit, CauseKept, PTL DEF Spec
=============================================================================
