-------------------------- MODULE ExchangeRegistry --------------------------
(***************************************************************************)
(* The registry of exchange addresses in database/db.go: the map           *)
(* db.exchanges, its MySQL table, and the rule that gives every exchange   *)
(* one spelling (resolveExchangeName).  The map has no lock: the tracker,  *)
(* the cache flush loop and the HTTP handlers all use it, so each iteration *)
(* of a loop over it is an action.  Whoever adds an exchange resolves its   *)
(* name, writes a row and only then puts the exchange into the map: what    *)
(* others do in between is not seen by the name that waits.                 *)
(*                                                                         *)
(* Name strings are model values.  What the code does with them is given   *)
(* by three constants: Trim (common.TrimExchangeName), Class (names that   *)
(* strings.EqualFold identifies have the same class) and Upper             *)
(* (countUpper).  Writes to the table ignore their errors; of the rows of   *)
(* one address (its column is not unique) the table is the one that a load  *)
(* keeps, so that a write to another of them changes nothing here.          *)
(***************************************************************************)
EXTENDS Integers, FiniteSets

CONSTANTS
  Addr,    \* addresses
  Name,    \* exchange names, original and trimmed
  Trim, Class, Upper,
  Handlers \* requests of add_exchange, each a goroutine of its own

ASSUME NamesAssumption ==
  /\ Trim \in [Name -> Name]
  /\ DOMAIN Class = Name
  /\ Upper \in [Name -> Nat]
  /\ "feed" \notin Handlers

VARIABLES
  exchanges,       \* address -> [name, origin]
  exchangesTable,  \* the same, as stored
  loading,         \* addresses that loadExchanges has still to normalise
  inserting,       \* caller -> the exchange whose name it has resolved and that
                   \* it has still to write and to put into the map
  reloaded,        \* not in the code: the process has been started again
  overtaken        \* not in the code: a name has been resolved while another
                   \* of the same exchange was waiting to be inserted

vars == <<exchanges, exchangesTable, loading, inserting, reloaded, overtaken>>

\* Those who add exchanges: updateExchanges, in the tracker's goroutine, and
\* the requests of add_exchange.
Callers == Handlers \cup {"feed"}

Exchange == [name : Name, origin : Name]
Insertion == [addr : Addr, name : Name, origin : Name]

IsExchange(a) == a \in DOMAIN exchanges
\* Mutant of Same: every two names are the same.
AlwaysSame(n, m) == TRUE

Same(n, m) == Class[n] = Class[m]

\* Mutant of Better: the comparison is turned round.
Worse(n, m) == Upper[n] < Upper[m]

\* The spelling n is preferred to m: it has more capital letters.
Better(n, m) == Upper[n] > Upper[m]

\* Mutant of Renamed: the other addresses of the exchange keep the old name.
NotRenamed(map, old, new) == map

\* The map after every exchange called old has been renamed to new.
Renamed(map, old, new) ==
  [a \in DOMAIN map |->
     IF map[a].name = old THEN [map[a] EXCEPT !.name = new] ELSE map[a]]

\* What resolveExchangeName(name) may return, and do to the map and the table:
\* the first entry of the same class decides, and the map has no order.
Resolutions(name) ==
  LET matches == {a \in DOMAIN exchanges : Same(exchanges[a].name, name)}
      untouched(n) == [name |-> n, map |-> exchanges, stored |-> exchangesTable]
      outcomes(old) ==
        IF Better(name, old)
        THEN {[name |-> name, map |-> Renamed(exchanges, old, name), stored |-> t] :
                t \in {exchangesTable, Renamed(exchangesTable, old, name)}}
        ELSE {untouched(old)}
  IN IF matches = {} THEN {untouched(name)}
     ELSE UNION {outcomes(exchanges[a].name) : a \in matches}

Put(f, k, v) == [x \in DOMAIN f \cup {k} |-> IF x = k THEN v ELSE f[x]]

\* The statement that writes row v of address a succeeds, or fails unnoticed.
Store(stored, a, v) == exchangesTable' \in {stored, Put(stored, a, v)}

Running == loading = {}
Inserting(w) == w \in DOMAIN inserting

\* Whoever resolves a name overtakes the insertions of that exchange.
NoteResolving(name) ==
  overtaken' = (overtaken \/ \E w \in DOMAIN inserting : Same(inserting[w].name, name))

Init ==
  /\ exchanges = <<>>
  /\ exchangesTable = <<>>
  /\ loading = {}
  /\ inserting = <<>>
  /\ reloaded = FALSE
  /\ overtaken = FALSE

-----------------------------------------------------------------------------
\* The first half of adding an exchange: its name is resolved.
Resolve(w, a, origin) ==
  /\ Running
  /\ ~Inserting(w)
  /\ \E r \in Resolutions(Trim[origin]) :
       /\ exchanges' = r.map
       /\ exchangesTable' = r.stored
       /\ inserting' = Put(inserting, w, [addr |-> a, name |-> r.name, origin |-> origin])
  /\ NoteResolving(Trim[origin])
  /\ UNCHANGED <<loading, reloaded>>

\* updateExchanges, an address of the feed that is not known yet.
FeedNew(a, origin) ==
  /\ ~IsExchange(a)
  /\ Resolve("feed", a, origin)

\* AddOrOverrideExchange, called by the HTTP handler add_exchange.
AddOrOverride(h, a, name) == Resolve(h, a, name)

\* The second half, for either: a row is written and the exchange put into the
\* map, over whatever is there by now.
Insert(w) ==
  /\ Inserting(w)
  /\ LET a == inserting[w].addr
         e == [name |-> inserting[w].name, origin |-> inserting[w].origin]
     IN exchanges' = Put(exchanges, a, e) /\ Store(exchangesTable, a, e)
  /\ inserting' = [x \in DOMAIN inserting \ {w} |-> inserting[x]]
  /\ UNCHANGED <<loading, reloaded, overtaken>>

\* Mutant of FeedKnown: any original name is adopted.
FeedRenamed(a, origin) ==
  /\ Running
  /\ ~Inserting("feed")
  /\ IsExchange(a)
  /\ origin # exchanges[a].origin
  /\ exchanges' = [exchanges EXCEPT ![a].origin = origin]
  /\ UNCHANGED <<exchangesTable, loading, inserting, reloaded, overtaken>>

\* updateExchanges, a known address whose original name has changed: adopted
\* when it is another spelling of the same exchange, ignored otherwise.
FeedKnown(a, origin) ==
  /\ Running
  /\ ~Inserting("feed")
  /\ IsExchange(a)
  /\ origin # exchanges[a].origin
  /\ Same(Trim[exchanges[a].origin], Trim[origin])
  /\ exchanges' = [exchanges EXCEPT ![a].origin = origin]
  /\ exchangesTable' \in
       {exchangesTable,
        [b \in DOMAIN exchangesTable |->
           IF b = a THEN [exchangesTable[b] EXCEPT !.origin = origin]
           ELSE exchangesTable[b]]}
  /\ UNCHANGED <<loading, inserting, reloaded, overtaken>>

\* resolveExchangeName called by the refresh of the chargers, for a name that
\* may no longer belong to any exchange.
ResolveOnly(name, resolved) ==
  /\ Running
  /\ \E r \in Resolutions(Trim[name]) :
       /\ r.name = resolved
       /\ exchanges' = r.map
       /\ exchangesTable' = r.stored
  /\ NoteResolving(Trim[name])
  /\ UNCHANGED <<loading, inserting, reloaded>>

-----------------------------------------------------------------------------
(* loadExchanges: read the table, trim every original name again, then      *)
(* normalise one exchange after the other.                                  *)

Retrimmed(stored) ==
  [a \in DOMAIN stored |-> [stored[a] EXCEPT !.name = Trim[stored[a].origin]]]

BeginLoad ==
  /\ exchanges' = Retrimmed(exchangesTable)
  /\ exchangesTable' \in {exchangesTable, Retrimmed(exchangesTable)}
  /\ loading' = DOMAIN exchangesTable
  /\ inserting' = <<>>
  /\ reloaded' = TRUE
  /\ UNCHANGED overtaken

Normalise(a) ==
  /\ a \in loading
  /\ \E r \in Resolutions(exchanges[a].name) :
       LET e == [r.map[a] EXCEPT !.name = r.name]
       IN /\ exchanges' = Put(r.map, a, e)
          /\ exchangesTable' \in
               {r.stored, [b \in DOMAIN r.stored |->
                             IF b = a THEN [r.stored[b] EXCEPT !.name = r.name]
                             ELSE r.stored[b]]}
  /\ loading' = loading \ {a}
  /\ UNCHANGED <<inserting, reloaded, overtaken>>

Next ==
  \/ \E a \in Addr, n \in Name : FeedNew(a, n) \/ FeedKnown(a, n)
  \/ \E h \in Handlers, a \in Addr, n \in Name : AddOrOverride(h, a, n)
  \/ \E w \in Callers : Insert(w)
  \/ \E n, m \in Name : ResolveOnly(n, m)
  \/ BeginLoad
  \/ \E a \in loading : Normalise(a)

Spec == Init /\ [][Next]_vars

-----------------------------------------------------------------------------
\* The name of an exchange and its original name denote the same exchange, so
\* that a restart, which derives every name from the original one, moves no
\* address from one exchange to another.
NameMatchesOrigin ==
  \A a \in DOMAIN exchanges : Same(exchanges[a].name, Trim[exchanges[a].origin])

\* Statistics and chargers are grouped by name: whatever the feed, the handlers
\* and the refresh resolve, and whichever entry of the map answers, the addresses
\* of one exchange bear one spelling.  Two spellings have one of two causes: a
\* reload, or a name that was resolved while another of its exchange had been
\* resolved and was not in the map yet (the code has no lock against it).
OneSpelling ==
  ~reloaded /\ ~overtaken =>
    \A a, b \in DOMAIN exchanges :
      Same(exchanges[a].name, exchanges[b].name)
        => exchanges[a].name = exchanges[b].name

\* The same once loadExchanges has gone through the map ("Resolve
\* case-insensitive duplicates", db.go:257), when no insertion was overtaken.
OneSpellingAfterLoad ==
  reloaded /\ loading = {} /\ ~overtaken =>
    \A a, b \in DOMAIN exchanges :
      Same(exchanges[a].name, exchanges[b].name)
        => exchanges[a].name = exchanges[b].name

\* A spelling is only ever replaced by one with more capital letters ("prefers
\* the form with more uppercase letters", db.go:287) while the original name
\* of the address stays, the registry is not loaded anew and no insertion is
\* overtaken by the resolving of another name of its exchange.
SpellingImproves ==
  [][~reloaded' /\ ~overtaken' => \A a \in DOMAIN exchanges :
       /\ exchanges'[a].origin = exchanges[a].origin
       /\ exchanges'[a].name # exchanges[a].name
       => /\ Same(exchanges'[a].name, exchanges[a].name)
          /\ Upper[exchanges'[a].name] > Upper[exchanges[a].name]]_vars

=============================================================================
