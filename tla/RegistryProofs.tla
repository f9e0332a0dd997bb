--------------------------- MODULE RegistryProofs ---------------------------
(***************************************************************************)
(* Proofs about ExchangeRegistry, for every set of addresses and every      *)
(* set of names with any trimming and any classes of spellings.             *)
(*                                                                         *)
(* What resolveExchangeName returns is described once, by the lemma         *)
(* Resolved; the invariant then says that a name and its original denote    *)
(* one exchange and that, before the first reload and the first insertion   *)
(* that is overtaken, every exchange has one spelling, so that any entry    *)
(* the map's order puts first decides alike.  A name that waits to be       *)
(* inserted fits the map then, and no other name of its exchange waits.     *)
(***************************************************************************)
EXTENDS ExchangeRegistry, TLAPS

\* A map of exchanges holds exchanges.
MapOK(map) == \A a \in DOMAIN map : map[a] \in Exchange

\* The types of the registry; what is to be normalised is in the map.
RegistryOK ==
  /\ MapOK(exchanges)
  /\ MapOK(exchangesTable)
  /\ loading \subseteq DOMAIN exchanges
  /\ reloaded \in BOOLEAN
  /\ ~reloaded => (loading = {})
  /\ \A w \in DOMAIN inserting : inserting[w].name \in Name /\ inserting[w].origin \in Name

\* The addresses of one exchange bear one spelling in map.
Uniform(map) ==
  \A a, b \in DOMAIN map : Same(map[a].name, map[b].name) => (map[a].name = map[b].name)

\* The addresses of the exchange that is called name bear that spelling in map.
Fits(name, map) == \A a \in DOMAIN map : Same(map[a].name, name) => (map[a].name = name)

\* A name that waits to be inserted denotes the exchange of its original; it
\* fits the map, and no other name of its exchange waits, as long as nothing
\* has been loaded anew or overtaken.
WaitingOK ==
  \A w \in DOMAIN inserting :
    /\ Same(inserting[w].name, Trim[inserting[w].origin])
    /\ ~reloaded /\ ~overtaken =>
         /\ Fits(inserting[w].name, exchanges)
         /\ \A v \in DOMAIN inserting \ {w} : ~Same(inserting[v].name, inserting[w].name)

RegistryInv == RegistryOK /\ NameMatchesOrigin /\ OneSpelling /\ WaitingOK

\* What every outcome r of resolving name has done to the map: names are
\* replaced by better spellings of the same exchange, and nothing else.
Improved(r) ==
  /\ DOMAIN r.map = DOMAIN exchanges
  /\ \A a \in DOMAIN exchanges :
       /\ r.map[a] \in Exchange
       /\ r.map[a].origin = exchanges[a].origin
       /\ Same(r.map[a].name, exchanges[a].name)
       /\ (r.map[a].name # exchanges[a].name) =>
            /\ r.map[a].name = r.name
            /\ Upper[r.map[a].name] > Upper[exchanges[a].name]

-----------------------------------------------------------------------------
\* Renaming keeps the domain, the originals, and every other name.
LEMMA RenamedEntries ==
    ASSUME NEW map, MapOK(map), NEW old \in Name, NEW new \in Name
    PROVE  /\ DOMAIN Renamed(map, old, new) = DOMAIN map
           /\ MapOK(Renamed(map, old, new))
           /\ \A a \in DOMAIN map :
                /\ Renamed(map, old, new)[a].origin = map[a].origin
                /\ Renamed(map, old, new)[a].name =
                     IF map[a].name = old THEN new ELSE map[a].name
<1>1. DOMAIN Renamed(map, old, new) = DOMAIN map
  BY DEF Renamed
<1>2. ASSUME NEW a \in DOMAIN map
      PROVE  /\ Renamed(map, old, new)[a] \in Exchange
             /\ Renamed(map, old, new)[a].origin = map[a].origin
             /\ Renamed(map, old, new)[a].name = IF map[a].name = old THEN new ELSE map[a].name
  <2>1. map[a] \in Exchange
    BY <1>2 DEF MapOK
  <2>2. Renamed(map, old, new)[a] =
          IF map[a].name = old THEN [map[a] EXCEPT !.name = new] ELSE map[a]
    BY DEF Renamed
  <2>3. CASE map[a].name = old
    BY <2>1, <2>2, <2>3 DEF Exchange
  <2>4. CASE map[a].name # old
    BY <2>1, <2>2, <2>4 DEF Exchange
  <2> QED
    BY <2>3, <2>4
<1> QED
  BY <1>1, <1>2 DEF MapOK

\* The two ways in which a name is resolved: the map stays, or the entries of
\* one worse spelling are renamed.
LEMMA Outcomes ==
    ASSUME NEW name, NEW r \in Resolutions(name)
    PROVE  \/ /\ \A a \in DOMAIN exchanges : ~Same(exchanges[a].name, name)
              /\ r.name = name /\ r.map = exchanges /\ r.stored = exchangesTable
           \/ \E a \in DOMAIN exchanges :
                /\ Same(exchanges[a].name, name)
                /\ ~Better(name, exchanges[a].name)
                /\ r.name = exchanges[a].name
                /\ r.map = exchanges /\ r.stored = exchangesTable
           \/ \E a \in DOMAIN exchanges :
                /\ Same(exchanges[a].name, name)
                /\ Better(name, exchanges[a].name)
                /\ r.name = name
                /\ r.map = Renamed(exchanges, exchanges[a].name, name)
                /\ r.stored \in {exchangesTable, Renamed(exchangesTable, exchanges[a].name, name)}
<1> DEFINE matches == {a \in DOMAIN exchanges : Same(exchanges[a].name, name)}
           untouched(n) == [name |-> n, map |-> exchanges, stored |-> exchangesTable]
           renames(old) ==
             {[name |-> name, map |-> Renamed(exchanges, old, name), stored |-> t] :
                t \in {exchangesTable, Renamed(exchangesTable, old, name)}}
           outcomes(old) == IF Better(name, old) THEN renames(old) ELSE {untouched(old)}
<1>1. r \in IF matches = {} THEN {untouched(name)}
            ELSE UNION {outcomes(exchanges[a].name) : a \in matches}
  BY Zenon DEF Resolutions
<1>2. CASE matches = {}
  BY <1>1, <1>2
<1>3. CASE matches # {}
  <2>1. PICK a \in matches : r \in outcomes(exchanges[a].name)
    BY <1>1, <1>3, Zenon
  <2>2. CASE Better(name, exchanges[a].name)
    <3>1. r \in renames(exchanges[a].name)
      BY <2>1, <2>2
    <3>2. PICK t \in {exchangesTable, Renamed(exchangesTable, exchanges[a].name, name)} :
            r = [name |-> name, map |-> Renamed(exchanges, exchanges[a].name, name), stored |-> t]
      BY <3>1, Zenon
    <3> QED
      BY <2>2, <3>2
  <2>3. CASE ~Better(name, exchanges[a].name)
    <3>1. r = untouched(exchanges[a].name)
      BY <2>1, <2>3
    <3> QED
      BY <2>3, <3>1
  <2> QED
    BY <2>2, <2>3
<1> QED
  BY <1>2, <1>3

\* resolveExchangeName returns a spelling of the same exchange, improves the
\* map at most, and when every exchange has one spelling it keeps it so, the
\* returned one included.
LEMMA Resolved ==
    ASSUME RegistryOK, NEW name \in Name, NEW r \in Resolutions(name)
    PROVE  /\ r.name \in Name
           /\ Same(r.name, name)
           /\ Improved(r)
           /\ MapOK(r.stored)
           /\ DOMAIN r.stored = DOMAIN exchangesTable
           /\ Uniform(exchanges) =>
                /\ Uniform(r.map)
                /\ \A a \in DOMAIN r.map : Same(r.map[a].name, r.name) => (r.map[a].name = r.name)
<1>1. MapOK(exchanges) /\ MapOK(exchangesTable)
  BY DEF RegistryOK
<1>2. CASE /\ \A a \in DOMAIN exchanges : ~Same(exchanges[a].name, name)
           /\ r.name = name /\ r.map = exchanges /\ r.stored = exchangesTable
  BY <1>1, <1>2 DEF Improved, MapOK, Uniform, Same
<1>3. ASSUME NEW a \in DOMAIN exchanges,
             Same(exchanges[a].name, name), r.name = exchanges[a].name,
             r.map = exchanges, r.stored = exchangesTable
      PROVE  /\ r.name \in Name
             /\ Same(r.name, name)
             /\ Improved(r)
             /\ MapOK(r.stored)
             /\ DOMAIN r.stored = DOMAIN exchangesTable
             /\ Uniform(exchanges) =>
                  /\ Uniform(r.map)
                  /\ \A b \in DOMAIN r.map : Same(r.map[b].name, r.name) => (r.map[b].name = r.name)
  <2>1. exchanges[a] \in Exchange
    BY <1>1 DEF MapOK
  <2> QED
    BY <1>1, <1>3, <2>1 DEF Improved, MapOK, Uniform, Same, Exchange
<1>4. ASSUME NEW a \in DOMAIN exchanges,
             Same(exchanges[a].name, name), Better(name, exchanges[a].name),
             r.name = name, r.map = Renamed(exchanges, exchanges[a].name, name),
             r.stored \in {exchangesTable, Renamed(exchangesTable, exchanges[a].name, name)}
      PROVE  /\ r.name \in Name
             /\ Same(r.name, name)
             /\ Improved(r)
             /\ MapOK(r.stored)
             /\ DOMAIN r.stored = DOMAIN exchangesTable
             /\ Uniform(exchanges) =>
                  /\ Uniform(r.map)
                  /\ \A b \in DOMAIN r.map : Same(r.map[b].name, r.name) => (r.map[b].name = r.name)
  <2>1. exchanges[a].name \in Name
    BY <1>1 DEF MapOK, Exchange
  <2>2. /\ DOMAIN r.map = DOMAIN exchanges
        /\ MapOK(r.map)
        /\ \A b \in DOMAIN exchanges :
             /\ r.map[b].origin = exchanges[b].origin
             /\ r.map[b].name = IF exchanges[b].name = exchanges[a].name THEN name ELSE exchanges[b].name
    BY <1>1, <1>4, <2>1, RenamedEntries, SMTT(30)
  <2>3. MapOK(r.stored) /\ DOMAIN r.stored = DOMAIN exchangesTable
    BY <1>1, <1>4, <2>1, RenamedEntries
  <2>4. Improved(r)
    <3>1. \A b \in DOMAIN exchanges : r.map[b] \in Exchange
      BY <2>2 DEF MapOK
    <3> QED
      BY <1>4, <2>2, <3>1 DEF Improved, Same, Better
  <2>5. ASSUME Uniform(exchanges)
        PROVE  /\ Uniform(r.map)
               /\ \A b \in DOMAIN r.map : Same(r.map[b].name, name) => (r.map[b].name = name)
    BY <1>4, <2>2, <2>5 DEF Uniform, Same
  <2> QED
    BY <1>4, <2>3, <2>4, <2>5 DEF Same
<1> QED
  BY <1>2, <1>3, <1>4, Outcomes

\* Whatever resolving writes to the table, the original names stay.
LEMMA StoredOrigins ==
    ASSUME RegistryOK, NEW name \in Name, NEW r \in Resolutions(name)
    PROVE  /\ DOMAIN r.stored = DOMAIN exchangesTable
           /\ \A a \in DOMAIN exchangesTable : r.stored[a].origin = exchangesTable[a].origin
<1>1. MapOK(exchanges) /\ MapOK(exchangesTable)
  BY DEF RegistryOK
<1>2. CASE r.stored = exchangesTable
  BY <1>2
<1>3. ASSUME NEW a \in DOMAIN exchanges,
             r.stored = Renamed(exchangesTable, exchanges[a].name, name)
      PROVE  /\ DOMAIN r.stored = DOMAIN exchangesTable
             /\ \A b \in DOMAIN exchangesTable : r.stored[b].origin = exchangesTable[b].origin
  <2>1. exchanges[a].name \in Name
    BY <1>1 DEF MapOK, Exchange
  <2> QED
    BY <1>1, <1>3, <2>1, RenamedEntries, SMTT(30)
<1> QED
  BY <1>2, <1>3, Outcomes

-----------------------------------------------------------------------------
\* A map stays one of exchanges when an exchange is put into it.
LEMMA PutOK ==
    ASSUME NEW f, MapOK(f), NEW k, NEW v \in Exchange
    PROVE  MapOK(Put(f, k, v))
<1>1. /\ DOMAIN Put(f, k, v) = DOMAIN f \cup {k}
      /\ Put(f, k, v)[k] = v
      /\ \A x \in DOMAIN f : (x # k) => (Put(f, k, v)[x] = f[x])
  BY DEF Put
<1> QED
  BY <1>1 DEF MapOK

\* Where every name is of its original's exchange, an outcome keeps it so.
LEMMA ImprovedMatches ==
    ASSUME NameMatchesOrigin, NEW r, Improved(r)
    PROVE  \A a \in DOMAIN r.map : Same(r.map[a].name, Trim[r.map[a].origin])
BY DEF NameMatchesOrigin, Improved, Same

\* What resolving a name does to the map: it keeps what the invariant says of
\* the map, and of the insertions that it does not overtake.
LEMMA MapResolved ==
    ASSUME RegistryInv, Running, NEW name \in Name, NEW r \in Resolutions(name),
           exchanges' = r.map, exchangesTable' = r.stored, NoteResolving(name),
           UNCHANGED <<loading, reloaded>>
    PROVE  /\ MapOK(exchanges') /\ MapOK(exchangesTable') /\ loading' = {} /\ reloaded' \in BOOLEAN
           /\ NameMatchesOrigin' /\ OneSpelling'
           /\ r.name \in Name /\ Same(r.name, name)
           /\ ~reloaded' /\ ~overtaken' =>
                /\ ~reloaded /\ ~overtaken
                /\ Fits(r.name, exchanges')
                /\ \A w \in DOMAIN inserting :
                     /\ ~Same(inserting[w].name, r.name)
                     /\ Fits(inserting[w].name, exchanges')
<1>1. /\ RegistryOK /\ NameMatchesOrigin /\ Improved(r) /\ MapOK(r.stored)
      /\ r.name \in Name /\ Same(r.name, name)
      /\ Uniform(exchanges) => Uniform(r.map) /\ Fits(r.name, r.map)
  BY Resolved DEF RegistryInv, Fits
<1>2. MapOK(exchanges') /\ MapOK(exchangesTable') /\ loading' = {} /\ reloaded' \in BOOLEAN
  BY <1>1 DEF RegistryOK, MapOK, Improved, Running
<1>3. NameMatchesOrigin'
  BY <1>1, ImprovedMatches DEF NameMatchesOrigin, Same
<1>4. ~reloaded' /\ ~overtaken' => ~reloaded /\ ~overtaken /\ Uniform(exchanges)
  BY DEF NoteResolving, RegistryInv, OneSpelling, Uniform
<1>5. OneSpelling'
  BY <1>1, <1>4 DEF OneSpelling, Uniform, Same
<1>6. ASSUME ~reloaded', ~overtaken', NEW w \in DOMAIN inserting
      PROVE  ~Same(inserting[w].name, r.name) /\ Fits(inserting[w].name, exchanges')
  <2>1. ~Same(inserting[w].name, name)
    BY <1>6 DEF NoteResolving
  <2>2. ~Same(inserting[w].name, r.name)
    BY <1>1, <2>1 DEF Same
  <2>3. Fits(inserting[w].name, exchanges)
    BY <1>4, <1>6 DEF RegistryInv, WaitingOK
  <2>4. ASSUME NEW b \in DOMAIN r.map, Same(r.map[b].name, inserting[w].name)
        PROVE  r.map[b].name = inserting[w].name
    BY <1>1, <2>2, <2>3, <2>4 DEF Improved, Fits, Same
  <2> QED
    BY <2>2, <2>4 DEF Fits
<1> QED
  BY <1>1, <1>2, <1>3, <1>4, <1>5, <1>6

\* Resolving a name alone.
LEMMA ResolveOnlyInv ==
    ASSUME RegistryInv, Running, NEW name \in Name, NEW r \in Resolutions(name),
           exchanges' = r.map, exchangesTable' = r.stored, NoteResolving(name),
           UNCHANGED <<loading, inserting, reloaded>>
    PROVE  RegistryInv'
<1>1. /\ MapOK(exchanges') /\ MapOK(exchangesTable') /\ loading' = {} /\ reloaded' \in BOOLEAN
      /\ NameMatchesOrigin' /\ OneSpelling'
      /\ ~reloaded' /\ ~overtaken' =>
           /\ ~reloaded /\ ~overtaken
           /\ \A w \in DOMAIN inserting : Fits(inserting[w].name, exchanges')
  BY MapResolved
<1>2. RegistryOK'
  BY <1>1 DEF RegistryInv, RegistryOK, MapOK
<1>3. WaitingOK'
  BY <1>1 DEF RegistryInv, WaitingOK, Fits, Same
<1> QED
  BY <1>1, <1>2, <1>3 DEF RegistryInv

\* The first half of an insertion: this is what the feed and add_exchange do.
LEMMA ResolveInv ==
    ASSUME RegistryInv, NEW w, NEW a, NEW origin \in Name, Resolve(w, a, origin)
    PROVE  RegistryInv'
<1>1. PICK r \in Resolutions(Trim[origin]) :
        /\ exchanges' = r.map
        /\ exchangesTable' = r.stored
        /\ inserting' = Put(inserting, w, [addr |-> a, name |-> r.name, origin |-> origin])
  BY DEF Resolve
<1>2. Trim[origin] \in Name
  BY NamesAssumption
<1>3. /\ Running /\ w \notin DOMAIN inserting /\ NoteResolving(Trim[origin])
      /\ UNCHANGED <<loading, reloaded>>
  BY DEF Resolve, Inserting
<1>4. /\ MapOK(exchanges') /\ MapOK(exchangesTable') /\ loading' = {} /\ reloaded' \in BOOLEAN
      /\ NameMatchesOrigin' /\ OneSpelling'
      /\ r.name \in Name /\ Same(r.name, Trim[origin])
      /\ ~reloaded' /\ ~overtaken' =>
           /\ ~reloaded /\ ~overtaken
           /\ Fits(r.name, exchanges')
           /\ \A v \in DOMAIN inserting :
                /\ ~Same(inserting[v].name, r.name)
                /\ Fits(inserting[v].name, exchanges')
  BY <1>1, <1>2, <1>3, MapResolved
<1> DEFINE i == [addr |-> a, name |-> r.name, origin |-> origin]
<1>5. i.name = r.name /\ i.origin = origin
  OBVIOUS
<1>6. inserting' = Put(inserting, w, i)
  BY <1>1
<1> HIDE DEF i
<1>7. /\ DOMAIN inserting' = DOMAIN inserting \cup {w}
      /\ inserting'[w] = i
      /\ \A v \in DOMAIN inserting : inserting'[v] = inserting[v]
  BY <1>3, <1>6 DEF Put
<1>8. RegistryOK'
  BY <1>4, <1>5, <1>7 DEF RegistryInv, RegistryOK, MapOK
<1>9. WaitingOK'
  <2>1. ASSUME NEW v \in DOMAIN inserting'
        PROVE  Same(inserting'[v].name, Trim[inserting'[v].origin])
    BY <1>4, <1>5, <1>7 DEF RegistryInv, WaitingOK
  <2>2. ASSUME ~reloaded', ~overtaken', NEW v \in DOMAIN inserting'
        PROVE  Fits(inserting'[v].name, exchanges')
    BY <1>4, <1>5, <1>7, <2>2
  <2>3. ASSUME ~reloaded', ~overtaken', NEW v \in DOMAIN inserting', NEW u \in DOMAIN inserting' \ {v}
        PROVE  ~Same(inserting'[u].name, inserting'[v].name)
    BY <1>4, <1>5, <1>7, <2>3 DEF RegistryInv, WaitingOK, Same
  <2> QED
    BY <2>1, <2>2, <2>3 DEF WaitingOK, Fits, Same
<1> QED
  BY <1>4, <1>8, <1>9 DEF RegistryInv

\* The second half: an entry is put under the spelling that was resolved.
LEMMA InsertInv ==
    ASSUME RegistryInv, NEW w, Insert(w)
    PROVE  RegistryInv'
<1> DEFINE a == inserting[w].addr
           e == [name |-> inserting[w].name, origin |-> inserting[w].origin]
<1>1. /\ w \in DOMAIN inserting
      /\ exchanges' = Put(exchanges, a, e) /\ Store(exchangesTable, a, e)
      /\ inserting' = [x \in DOMAIN inserting \ {w} |-> inserting[x]]
      /\ UNCHANGED <<loading, reloaded, overtaken>>
  BY DEF Insert, Inserting
<1>2. RegistryOK /\ NameMatchesOrigin /\ OneSpelling /\ WaitingOK
  BY DEF RegistryInv
<1>3. e \in Exchange /\ e.name = inserting[w].name /\ e.origin = inserting[w].origin
  BY <1>1, <1>2 DEF Exchange, RegistryOK
<1> HIDE DEF a, e
<1>4. /\ DOMAIN exchanges' = DOMAIN exchanges \cup {a}
      /\ exchanges'[a] = e
      /\ \A b \in DOMAIN exchanges : (b # a) => (exchanges'[b] = exchanges[b])
  BY <1>1 DEF Put
<1>5. /\ DOMAIN inserting' = DOMAIN inserting \ {w}
      /\ \A v \in DOMAIN inserting' : inserting'[v] = inserting[v]
  BY <1>1
<1>6. RegistryOK'
  <2>1. MapOK(exchanges')
    BY <1>1, <1>2, <1>3, PutOK DEF RegistryOK
  <2>2. MapOK(exchangesTable')
    <3>1. CASE exchangesTable' = exchangesTable
      BY <1>2, <3>1 DEF RegistryOK, MapOK
    <3>2. CASE exchangesTable' = Put(exchangesTable, a, e)
      BY <1>2, <1>3, <3>2, PutOK DEF RegistryOK
    <3> QED
      BY <1>1, <3>1, <3>2 DEF Store
  <2>3. /\ loading' \subseteq DOMAIN exchanges' /\ reloaded' \in BOOLEAN
        /\ ~reloaded' => (loading' = {})
    BY <1>1, <1>2, <1>4 DEF RegistryOK
  <2>4. \A v \in DOMAIN inserting' : inserting'[v].name \in Name /\ inserting'[v].origin \in Name
    BY <1>2, <1>5 DEF RegistryOK
  <2> QED
    BY <2>1, <2>2, <2>3, <2>4 DEF RegistryOK, MapOK
<1>7. NameMatchesOrigin'
  BY <1>1, <1>2, <1>3, <1>4 DEF NameMatchesOrigin, WaitingOK, Same
<1>8. OneSpelling'
  <2>1. ASSUME ~reloaded, ~overtaken PROVE Uniform(exchanges')
    <3>1. Uniform(exchanges) /\ Fits(e.name, exchanges)
      BY <1>1, <1>2, <1>3, <2>1 DEF OneSpelling, Uniform, WaitingOK
    <3> QED
      BY <1>4, <3>1 DEF Uniform, Fits, Same
  <2> QED
    BY <1>1, <2>1 DEF OneSpelling, Uniform, Same
<1>9. WaitingOK'
  <2>1. ASSUME ~reloaded, ~overtaken, NEW v \in DOMAIN inserting'
        PROVE  Fits(inserting'[v].name, exchanges')
    <3>1. Fits(inserting[v].name, exchanges) /\ ~Same(e.name, inserting[v].name)
      BY <1>1, <1>2, <1>3, <1>5, <2>1 DEF WaitingOK
    <3> QED
      BY <1>4, <1>5, <3>1 DEF Fits, Same
  <2> QED
    BY <1>1, <1>2, <1>5, <2>1 DEF WaitingOK, Fits, Same
<1> QED
  BY <1>6, <1>7, <1>8, <1>9 DEF RegistryInv

\* The feed's new original name of a known address is one of its exchange.
LEMMA FeedKnownInv ==
    ASSUME RegistryInv, NEW a \in Addr, NEW origin \in Name, FeedKnown(a, origin)
    PROVE  RegistryInv'
<1>1. /\ RegistryOK /\ loading = {} /\ a \in DOMAIN exchanges
      /\ Same(Trim[exchanges[a].origin], Trim[origin])
      /\ exchanges' = [exchanges EXCEPT ![a].origin = origin]
      /\ UNCHANGED <<loading, inserting, reloaded, overtaken>>
  BY DEF FeedKnown, RegistryInv, Running, IsExchange
<1>2. /\ DOMAIN exchanges' = DOMAIN exchanges
      /\ \A b \in DOMAIN exchanges :
           /\ exchanges'[b] \in Exchange
           /\ exchanges'[b].name = exchanges[b].name
           /\ exchanges'[b].origin = IF b = a THEN origin ELSE exchanges[b].origin
  <2>1. DOMAIN exchanges' = DOMAIN exchanges
    BY <1>1
  <2>2. ASSUME NEW b \in DOMAIN exchanges
        PROVE  /\ exchanges'[b] \in Exchange
               /\ exchanges'[b].name = exchanges[b].name
               /\ exchanges'[b].origin = IF b = a THEN origin ELSE exchanges[b].origin
    <3>1. exchanges[b] \in Exchange
      BY <1>1 DEF RegistryOK, MapOK
    <3>2. exchanges'[b] = IF b = a THEN [exchanges[b] EXCEPT !.origin = origin] ELSE exchanges[b]
      BY <1>1
    <3> QED
      BY <3>1, <3>2 DEF Exchange
  <2> QED
    BY <2>1, <2>2
<1>3. MapOK(exchangesTable')
  <2>1. MapOK(exchangesTable)
    BY <1>1 DEF RegistryOK
  <2>2. CASE exchangesTable' = exchangesTable
    BY <2>1, <2>2
  <2>3. CASE exchangesTable' = [b \in DOMAIN exchangesTable |->
                IF b = a THEN [exchangesTable[b] EXCEPT !.origin = origin] ELSE exchangesTable[b]]
    <3>1. ASSUME NEW b \in DOMAIN exchangesTable PROVE exchangesTable'[b] \in Exchange
      <4>1. exchangesTable[b] \in Exchange
        BY <2>1 DEF MapOK
      <4> QED
        BY <2>3, <4>1 DEF Exchange
    <3> QED
      BY <2>3, <3>1 DEF MapOK
  <2> QED
    BY <2>2, <2>3 DEF FeedKnown
<1>4. RegistryOK'
  BY <1>1, <1>2, <1>3 DEF RegistryOK, MapOK
<1>5. NameMatchesOrigin'
  BY <1>1, <1>2 DEF RegistryInv, NameMatchesOrigin, Same
<1>6. OneSpelling'
  BY <1>1, <1>2 DEF RegistryInv, OneSpelling, Same
<1>7. WaitingOK'
  BY <1>1, <1>2 DEF RegistryInv, WaitingOK, Fits, Same
<1> QED
  BY <1>4, <1>5, <1>6, <1>7 DEF RegistryInv

\* After a load the names are derived from the originals.
LEMMA BeginLoadInv ==
    ASSUME RegistryInv, BeginLoad
    PROVE  RegistryInv'
<1>1. /\ MapOK(exchangesTable)
      /\ exchanges' = Retrimmed(exchangesTable)
      /\ exchangesTable' \in {exchangesTable, Retrimmed(exchangesTable)}
      /\ loading' = DOMAIN exchangesTable /\ inserting' = <<>> /\ reloaded' = TRUE
  BY DEF BeginLoad, RegistryInv, RegistryOK
<1>2. DOMAIN Retrimmed(exchangesTable) = DOMAIN exchangesTable
  BY DEF Retrimmed
<1>3. ASSUME NEW a \in DOMAIN exchangesTable
      PROVE  /\ Retrimmed(exchangesTable)[a] \in Exchange
             /\ Retrimmed(exchangesTable)[a].name = Trim[Retrimmed(exchangesTable)[a].origin]
  <2>1. exchangesTable[a] \in Exchange
    BY <1>1 DEF MapOK
  <2>2. Retrimmed(exchangesTable)[a] = [exchangesTable[a] EXCEPT !.name = Trim[exchangesTable[a].origin]]
    BY DEF Retrimmed
  <2> QED
    BY <2>1, <2>2, NamesAssumption DEF Exchange
<1>4. RegistryOK'
  BY <1>1, <1>2, <1>3 DEF RegistryOK, MapOK
<1>5. NameMatchesOrigin' /\ OneSpelling' /\ WaitingOK'
  BY <1>1, <1>2, <1>3 DEF NameMatchesOrigin, OneSpelling, WaitingOK, Same
<1> QED
  BY <1>4, <1>5 DEF RegistryInv

\* One entry after the other takes the spelling it is resolved to.
LEMMA NormaliseInv ==
    ASSUME RegistryInv, NEW a \in loading, Normalise(a)
    PROVE  RegistryInv'
<1>1. PICK r \in Resolutions(exchanges[a].name) :
        LET e == [r.map[a] EXCEPT !.name = r.name]
        IN /\ exchanges' = Put(r.map, a, e)
           /\ exchangesTable' \in
                {r.stored, [b \in DOMAIN r.stored |->
                              IF b = a THEN [r.stored[b] EXCEPT !.name = r.name]
                              ELSE r.stored[b]]}
  BY DEF Normalise
<1> DEFINE e == [r.map[a] EXCEPT !.name = r.name]
<1>2. RegistryOK /\ NameMatchesOrigin /\ a \in DOMAIN exchanges /\ exchanges[a].name \in Name
  BY DEF RegistryInv, RegistryOK, MapOK, Exchange
<1>3. r.name \in Name /\ Same(r.name, exchanges[a].name) /\ Improved(r) /\ MapOK(r.stored)
  BY <1>2, Resolved
<1>4. e \in Exchange /\ e.name = r.name /\ e.origin = exchanges[a].origin
  <2>1. r.map[a] \in Exchange /\ r.map[a].origin = exchanges[a].origin
    BY <1>2, <1>3 DEF Improved
  <2> QED
    BY <1>3, <2>1 DEF Exchange
<1>5. reloaded /\ reloaded' = reloaded /\ loading' = loading \ {a} /\ inserting' = inserting
  BY <1>2 DEF RegistryOK, Normalise
<1>6. /\ DOMAIN exchanges' = DOMAIN exchanges
      /\ exchanges'[a] = e
      /\ \A b \in DOMAIN exchanges : (b # a) => (exchanges'[b] = r.map[b])
  <2> HIDE DEF e
  <2>1. exchanges' = Put(r.map, a, e) /\ DOMAIN r.map = DOMAIN exchanges
    BY <1>1, <1>3 DEF e, Improved
  <2> QED
    BY <1>2, <2>1 DEF Put
<1>7. MapOK(exchangesTable')
  <2>1. CASE exchangesTable' = r.stored
    BY <1>3, <2>1
  <2>2. CASE exchangesTable' = [b \in DOMAIN r.stored |->
               IF b = a THEN [r.stored[b] EXCEPT !.name = r.name] ELSE r.stored[b]]
    <3>1. ASSUME NEW b \in DOMAIN r.stored PROVE exchangesTable'[b] \in Exchange
      <4>1. r.stored[b] \in Exchange
        BY <1>3 DEF MapOK
      <4> QED
        BY <1>3, <2>2, <4>1 DEF Exchange
    <3> QED
      BY <2>2, <3>1 DEF MapOK
  <2> QED
    BY <1>1, <2>1, <2>2
<1>8. RegistryOK'
  <2> HIDE DEF e
  <2>1. MapOK(exchanges')
    BY <1>3, <1>4, <1>6 DEF MapOK, Improved
  <2>2. loading' \subseteq DOMAIN exchanges' /\ reloaded' \in BOOLEAN /\ reloaded'
    BY <1>2, <1>5, <1>6 DEF RegistryOK
  <2> QED
    BY <1>2, <1>5, <1>7, <2>1, <2>2 DEF RegistryOK, MapOK
<1>9. NameMatchesOrigin'
  <2> HIDE DEF e
  <2>1. \A b \in DOMAIN r.map : Same(r.map[b].name, Trim[r.map[b].origin])
    BY <1>2, <1>3, ImprovedMatches
  <2>2. Same(r.name, Trim[exchanges[a].origin])
    BY <1>2, <1>3 DEF NameMatchesOrigin, Same
  <2>3. DOMAIN r.map = DOMAIN exchanges
    BY <1>3 DEF Improved
  <2> QED
    BY <1>4, <1>6, <2>1, <2>2, <2>3 DEF NameMatchesOrigin, Same
<1>10. OneSpelling' /\ WaitingOK'
  BY <1>5 DEF RegistryInv, OneSpelling, WaitingOK, Same
<1> QED
  BY <1>8, <1>9, <1>10 DEF RegistryInv

-----------------------------------------------------------------------------
\* The registry starts empty.
LEMMA InitIsCorrect == Init => RegistryInv
<1> SUFFICES ASSUME Init PROVE RegistryInv
  OBVIOUS
<1>1. /\ DOMAIN exchanges = {} /\ DOMAIN exchangesTable = {} /\ DOMAIN inserting = {}
      /\ loading = {} /\ reloaded = FALSE
  BY DEF Init
<1> QED
  BY <1>1 DEF RegistryInv, RegistryOK, MapOK, NameMatchesOrigin, OneSpelling, WaitingOK

\* Every step keeps the invariant, also as a step of a larger system.
LEMMA NextIsCorrect == RegistryInv /\ [Next]_vars => RegistryInv'
<1> SUFFICES ASSUME RegistryInv, [Next]_vars PROVE RegistryInv'
  OBVIOUS
<1>1. ASSUME NEW a \in Addr, NEW n \in Name, FeedNew(a, n) PROVE RegistryInv'
  BY <1>1, ResolveInv DEF FeedNew
<1>2. ASSUME NEW a \in Addr, NEW n \in Name, FeedKnown(a, n) PROVE RegistryInv'
  BY <1>2, FeedKnownInv
<1>3. ASSUME NEW h \in Handlers, NEW a \in Addr, NEW n \in Name, AddOrOverride(h, a, n)
      PROVE  RegistryInv'
  BY <1>3, ResolveInv DEF AddOrOverride
<1>4. ASSUME NEW w \in Callers, Insert(w) PROVE RegistryInv'
  BY <1>4, InsertInv
<1>5. ASSUME NEW n \in Name, NEW k \in Name, ResolveOnly(n, k) PROVE RegistryInv'
  <2>1. Running /\ NoteResolving(Trim[n]) /\ UNCHANGED <<loading, inserting, reloaded>>
    BY <1>5 DEF ResolveOnly
  <2>2. PICK r \in Resolutions(Trim[n]) : exchanges' = r.map /\ exchangesTable' = r.stored
    BY <1>5 DEF ResolveOnly
  <2>3. Trim[n] \in Name
    BY NamesAssumption
  <2> QED
    BY <2>1, <2>2, <2>3, ResolveOnlyInv
<1>6. CASE BeginLoad
  BY <1>6, BeginLoadInv
<1>7. ASSUME NEW a \in loading, Normalise(a) PROVE RegistryInv'
  BY <1>7, NormaliseInv
<1>8. CASE UNCHANGED vars
  BY <1>8 DEF vars, RegistryInv, RegistryOK, MapOK, NameMatchesOrigin, OneSpelling, WaitingOK,
              Fits, Same
<1> QED
  BY <1>1, <1>2, <1>3, <1>4, <1>5, <1>6, <1>7, <1>8 DEF Next

\* The invariant of the registry, for updateExchanges, AddOrOverrideExchange,
\* the refresh and loadExchanges in any order, with any failing writes.
THEOREM RegistryInvariant == Spec => []RegistryInv
BY InitIsCorrect, NextIsCorrect, PTL DEF Spec

\* A restart, which derives every name from its original, moves no address
\* from one exchange to another.
THEOREM NamesFollowOrigins == Spec => []NameMatchesOrigin
BY RegistryInvariant, PTL DEF RegistryInv

\* Until the first reload, and until a name is resolved while another of its
\* exchange waits to be inserted, every exchange has one spelling, whatever the
\* order in which the map is walked and the callers come.
THEOREM ExchangesHaveOneSpelling == Spec => []OneSpelling
BY RegistryInvariant, PTL DEF RegistryInv

-----------------------------------------------------------------------------
\* Resolving a name replaces no spelling by one with fewer capital letters.
LEMMA ResolvingImproves ==
    ASSUME RegistryInv, NEW n \in Name, NEW r \in Resolutions(Trim[n]), exchanges' = r.map,
           NEW b \in DOMAIN exchanges, exchanges'[b].name # exchanges[b].name
    PROVE  /\ Same(exchanges'[b].name, exchanges[b].name)
           /\ Upper[exchanges'[b].name] > Upper[exchanges[b].name]
<1>1. Trim[n] \in Name
  BY NamesAssumption
<1>2. Improved(r)
  BY <1>1, Resolved DEF RegistryInv
<1> QED
  BY <1>2 DEF Improved

\* An insertion that nothing has overtaken brings an address whose original
\* name stays no other spelling.
LEMMA InsertingFits ==
    ASSUME RegistryInv, ~reloaded, ~overtaken, NEW w, Insert(w),
           NEW b \in DOMAIN exchanges, exchanges'[b].origin = exchanges[b].origin
    PROVE  exchanges'[b].name = exchanges[b].name
<1> DEFINE a == inserting[w].addr
           e == [name |-> inserting[w].name, origin |-> inserting[w].origin]
<1>1. w \in DOMAIN inserting /\ exchanges' = Put(exchanges, a, e)
  BY DEF Insert, Inserting
<1>2. e.name = inserting[w].name /\ e.origin = inserting[w].origin
  OBVIOUS
<1> HIDE DEF a, e
<1>3. exchanges'[b] = IF b = a THEN e ELSE exchanges[b]
  BY <1>1 DEF Put
<1>4. CASE b = a
  <2>1. Same(e.name, Trim[e.origin]) /\ Fits(e.name, exchanges)
    BY <1>1, <1>2 DEF RegistryInv, WaitingOK
  <2>2. Same(exchanges[b].name, Trim[exchanges[b].origin])
    BY DEF RegistryInv, NameMatchesOrigin
  <2>3. Same(exchanges[b].name, e.name)
    BY <1>3, <1>4, <2>1, <2>2 DEF Same
  <2> QED
    BY <1>3, <1>4, <2>1, <2>3 DEF Fits
<1> QED
  BY <1>3, <1>4

\* "prefers the form with more uppercase letters" (db.go:287): no name in the
\* registry is replaced by one with fewer, by whomever it is resolved, except
\* by a reload or an insertion that another name of its exchange has overtaken.
THEOREM SpellingsImprove == Spec => SpellingImproves
<1> DEFINE Step == ~reloaded' /\ ~overtaken' => \A a \in DOMAIN exchanges :
              /\ exchanges'[a].origin = exchanges[a].origin
              /\ exchanges'[a].name # exchanges[a].name
              => /\ Same(exchanges'[a].name, exchanges[a].name)
                 /\ Upper[exchanges'[a].name] > Upper[exchanges[a].name]
<1>1. RegistryInv /\ [Next]_vars => [Step]_vars
  <2> SUFFICES ASSUME RegistryInv, Next, ~reloaded', ~overtaken',
                      NEW b \in DOMAIN exchanges, exchanges'[b].origin = exchanges[b].origin,
                      exchanges'[b].name # exchanges[b].name
               PROVE  /\ Same(exchanges'[b].name, exchanges[b].name)
                      /\ Upper[exchanges'[b].name] > Upper[exchanges[b].name]
    OBVIOUS
  <2>1. ASSUME NEW w, NEW a, NEW n \in Name, Resolve(w, a, n)
        PROVE  /\ Same(exchanges'[b].name, exchanges[b].name)
               /\ Upper[exchanges'[b].name] > Upper[exchanges[b].name]
    BY <2>1, ResolvingImproves DEF Resolve
  <2>2. ASSUME NEW a \in Addr, NEW n \in Name, FeedKnown(a, n) PROVE FALSE
    <3>1. exchanges[b] \in Exchange
      BY DEF RegistryInv, RegistryOK, MapOK
    <3>2. exchanges'[b] = IF b = a THEN [exchanges[b] EXCEPT !.origin = n] ELSE exchanges[b]
      BY <2>2 DEF FeedKnown
    <3> QED
      BY <3>1, <3>2 DEF Exchange
  <2>3. ASSUME NEW w \in Callers, Insert(w) PROVE FALSE
    <3>1. ~reloaded /\ ~overtaken
      BY <2>3 DEF Insert
    <3> QED
      BY <2>3, <3>1, InsertingFits
  <2>4. ASSUME NEW n \in Name, NEW k \in Name, ResolveOnly(n, k)
        PROVE  /\ Same(exchanges'[b].name, exchanges[b].name)
               /\ Upper[exchanges'[b].name] > Upper[exchanges[b].name]
    BY <2>4, ResolvingImproves DEF ResolveOnly
  <2>5. CASE BeginLoad
    BY <2>5 DEF BeginLoad
  <2>6. ASSUME NEW a \in loading, Normalise(a) PROVE FALSE
    BY <2>6 DEF Normalise, RegistryInv, RegistryOK
  <2> QED
    BY <2>1, <2>2, <2>3, <2>4, <2>5, <2>6 DEF Next, FeedNew, AddOrOverride
<1> QED
  BY <1>1, RegistryInvariant, PTL DEF Spec, SpellingImproves

=============================================================================
