--------------------------- MODULE ChargerPipeline ---------------------------
(***************************************************************************)
(* The recognition of chargers (database/db.go): the tracker goroutine     *)
(* feeds transfers to SaveCharger, which reads the registry of exchanges   *)
(* and then calls the charger store; the cache flush loop refreshes the    *)
(* store from the registry once a day; HTTP handlers and the hourly update *)
(* change the registry meanwhile.  The store's mutex does not cover the    *)
(* registry, and the registry has none.                                    *)
(***************************************************************************)
EXTENDS Integers, FiniteSets

CONSTANTS Addr, Malformed, Name, None, Trim, Class, Upper, Handlers,
          LoseAcks, MaxId,
          Payers,      \* the addresses whose payments are followed
          FlushLimit,  \* pending chargers that trigger a flush (code: 200)
          MaxChanges   \* bound on the changes of the registry

ASSUME PipelineAssumption ==
  /\ Payers \subseteq Addr
  /\ FlushLimit \in Nat \ {0}
  /\ MaxChanges \in Nat

\* What the store and the registry assume of the constants that they share.
ASSUME PartsAssumption ==
  /\ IsFiniteSet(Addr)
  /\ Addr \cap Malformed = {}
  /\ Addr \cap Name = {}
  /\ None \notin Addr \cup Malformed \cup Name
  /\ MaxId \in Nat /\ LoseAcks \in BOOLEAN
  /\ Trim \in [Name -> Name]
  /\ DOMAIN Class = Name
  /\ Upper \in [Name -> Nat]
  /\ "feed" \notin Handlers

VARIABLES
  exchanges, exchangesTable, loading, inserting, reloaded, overtaken,  \* the registry
  chargers, addrBackups, confBackups, dirty, mu, toVisit, table, nextId,
  call,      \* the SaveCharger call in progress: what it has read, or None
  pc,        \* where that call is: "idle", "read" or "applied"
  observed,  \* payer -> what its payments were taken for, for the properties
  named,     \* the pairs <<address, exchange>> the registry ever had, for them
  changes    \* number of changes of the registry so far

Registry == INSTANCE ExchangeRegistry
Store == INSTANCE ChargerStore WITH InitialTables <- {<<>>}

registryVars == <<exchanges, exchangesTable, loading, inserting, reloaded, overtaken>>
storeVars == <<chargers, addrBackups, confBackups, dirty, mu, toVisit, table, nextId>>
callVars == <<call, pc, observed>>
history == <<named, changes>>
vars == <<registryVars, storeVars, callVars, history>>

Init ==
  /\ Registry!Init
  /\ Store!Init
  /\ call = None
  /\ pc = "idle"
  /\ observed = [a \in Payers |-> {}]
  /\ named = {}
  /\ changes = 0

Running == Registry!Running

-----------------------------------------------------------------------------
(* SaveCharger, in the tracker goroutine.                                   *)

\* The sender is no exchange; what the receiver is, is read before the store's
\* lock is taken.
ReadReceiver(from, to) ==
  /\ Running
  /\ pc = "idle"
  /\ ~Registry!Inserting("feed")
  /\ ~Registry!IsExchange(from)
  /\ call' = [from |-> from, to |-> to,
              toIsExchange |-> Registry!IsExchange(to),
              toName |-> IF Registry!IsExchange(to) THEN exchanges[to].name ELSE None]
  /\ pc' = "read"
  /\ observed' = [observed EXCEPT ![from] = @ \cup
       {IF Registry!IsExchange(to) THEN <<"exchange", Class[exchanges[to].name]>>
        ELSE <<"address", to>>}]
  /\ UNCHANGED <<registryVars, storeVars, history>>

Apply ==
  /\ pc = "read"
  /\ Store!ApplyCharge(call.from, call.to, call.toIsExchange, call.toName)
  /\ pc' = "applied"
  /\ UNCHANGED <<registryVars, call, observed, history>>

FlushIfManyPending ==
  /\ pc = "applied"
  /\ mu = "free"
  /\ IF Cardinality(dirty) >= FlushLimit THEN Store!FlushDirty ELSE UNCHANGED storeVars
  /\ pc' = "idle"
  /\ call' = None
  /\ UNCHANGED <<registryVars, observed, history>>

-----------------------------------------------------------------------------
(* Changes of the registry: updateExchanges between two blocks, in the      *)
(* tracker goroutine, which goes on to the next block only when it has      *)
(* inserted what it resolved, and add_exchange at any time.                 *)

UpdateExchanges ==
  /\ pc = "idle"
  /\ \E a \in Addr, origin \in Name :
       Registry!FeedNew(a, origin) \/ Registry!FeedKnown(a, origin)

AddExchange == \E h \in Handlers, a \in Addr, name \in Name : Registry!AddOrOverride(h, a, name)

Recorded == named' = named \cup {<<a, Class[exchanges'[a].name]>> : a \in DOMAIN exchanges'}

ChangeRegistry ==
  /\ changes < MaxChanges
  /\ changes' = changes + 1
  /\ UpdateExchanges \/ AddExchange
  /\ Recorded
  /\ UNCHANGED <<storeVars, callVars>>

InsertExchange ==
  /\ \E w \in Registry!Callers : Registry!Insert(w)
  /\ Recorded
  /\ UNCHANGED <<storeVars, callVars, changes>>

-----------------------------------------------------------------------------
(* refreshChargers, in the cache flush loop.                                *)

BeginRefresh ==
  /\ Running
  /\ Store!BeginRefresh
  /\ UNCHANGED <<registryVars, callVars, history>>

\* The backup is looked up after the name has been resolved, in the registry
\* that resolving may have changed.
RefreshOne ==
  \E a \in toVisit, newName \in Name :
    /\ Registry!ResolveOnly(chargers[a].exchangeName, newName)
    /\ Store!RefreshCharger(a, newName,
         IF a \in DOMAIN addrBackups /\ addrBackups[a] \in DOMAIN exchanges'
         THEN exchanges'[addrBackups[a]].name ELSE None)
    /\ UNCHANGED <<callVars, history>>

EndRefresh ==
  /\ Store!EndRefresh
  /\ UNCHANGED <<registryVars, callVars, history>>

-----------------------------------------------------------------------------
\* The process is killed and started again: New loads the registry, then the
\* store.
Restart ==
  /\ changes < MaxChanges
  /\ changes' = changes + 1
  /\ Registry!BeginLoad
  /\ Store!Restart
  /\ call' = None
  /\ pc' = "idle"
  /\ UNCHANGED <<observed, named>>

Normalise ==
  /\ \E a \in loading : Registry!Normalise(a)
  /\ UNCHANGED <<storeVars, callVars, history>>

Next ==
  \/ \E from \in Payers, to \in Addr : ReadReceiver(from, to)
  \/ Apply
  \/ FlushIfManyPending
  \/ ChangeRegistry
  \/ InsertExchange
  \/ BeginRefresh
  \/ RefreshOne
  \/ EndRefresh
  \/ Restart
  \/ Normalise

Spec == Init /\ [][Next]_vars

-----------------------------------------------------------------------------
ExchangesMet(a) == {o \in observed[a] : o[1] = "exchange"}
AddressesMet(a) == {o \in observed[a] : o[1] = "address"}

\* A charger is marked fake for a reason: its payments went to two different
\* exchanges, to two unknown addresses, or to an unknown address that became
\* an exchange other than its own.  Nothing that the refresh, the changes of the registry
\* and crashes do in between marks one that dealt with a single exchange.
FakeHasCause ==
  \A a \in DOMAIN chargers :
    chargers[a].isFake =>
      \/ Cardinality(ExchangesMet(a)) > 1
      \/ Cardinality(AddressesMet(a)) > 1
      \/ \E o \in AddressesMet(a), n \in named :
           n[1] = o[2] /\ n[2] # Class[chargers[a].exchangeName]

\* A charger whose backup is the name of a conflicting exchange has dealt with
\* "a different exchange" (charger_store.go:156), not with another spelling of
\* its own.
ConflictIsDifferentExchange ==
  \A a \in DOMAIN confBackups :
    Class[confBackups[a]] # Class[chargers[a].exchangeName]

\* A payer is a charger of the exchange it was found with for good: whatever
\* is renamed, its entry stays with one of the exchanges that it paid into.
ChargerOfExchangeMet ==
  \A a \in DOMAIN chargers :
    <<"exchange", Class[chargers[a].exchangeName]>> \in observed[a]

\* Called as the program calls it, with what the registry said at the time, the
\* store behaves as the single-record state machine that it says it mirrors
\* (charger_store.go:130), through flushes, refreshes and crashes.
ImplementsLedger == Store!ImplementsLedger

=============================================================================
