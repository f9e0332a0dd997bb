--------------------------- MODULE ExchangeStake ----------------------------
(***************************************************************************)
(* DoExchangeResourceStatistics: what every exchange has staked, asked of  *)
(* the node address by address while exchanges may be renamed.  One number *)
(* stands for bandwidth and energy, which are treated alike.  What is      *)
(* staked and delegated on the chain does not change during the scan.      *)
(***************************************************************************)
EXTENDS Sums, Functions, Sequences, SequencesExt

CONSTANTS Accounts,    \* addresses on the chain
          NamesOfExchanges,
          NoExchange,
          NoAccount,
          Worlds,      \* [self, v1, v2, nameOf]: stakes, delegations by version of
                       \* staking and pair of accounts, and the registry at the beginning
          BatchSize,
          MaxRenames   \* bound: how often the registry changes during the scan

\* There are finitely many accounts, and no amount is negative.
ASSUME StakeAssumption ==
    /\ IsFiniteSet(Accounts)
    /\ \A w \in Worlds : /\ w.self \in [Accounts -> Nat]
                         /\ w.v1 \in [Accounts \X Accounts -> Nat]
                         /\ w.v2 \in [Accounts \X Accounts -> Nat]
                         /\ w.nameOf \in [Accounts -> NamesOfExchanges \cup {NoExchange}]

VARIABLES self, v1, v2,  \* what is true on the chain
          nameOf,        \* db.exchanges: account -> name, or NoExchange
          snapshot,      \* exchangeNames
          stakePc,
          todo,          \* the addresses still to be asked for
          current,       \* the address being asked for
          pending,       \* the accounts of the same exchange it has delegated to
          internal,      \* what it has delegated to those asked for already
          batch,
          stakeRows,     \* exchange_resource_statistics of the date
          faults,        \* what has gone wrong: "missing", "overlooked" (not in the code)
          renames

chain == <<self, v1, v2>>
stakeVars == <<chain, nameOf, snapshot, stakePc, todo, current, pending, internal, batch,
               stakeRows, faults, renames>>

Pairs == Accounts \X Accounts
OutOf(x) == {p \in Pairs : p[1] = x}
Into(x) == {p \in Pairs : p[2] = x}
DelegatedOut(x) == SumOver(v1, OutOf(x)) + SumOver(v2, OutOf(x))
Acquired(x) == SumOver(v1, Into(x)) + SumOver(v2, Into(x))

\* The names are copied first, so that the scan reads stable values.
Snapshot ==
    /\ stakePc = "start"
    /\ snapshot' = Restrict(nameOf, {x \in Accounts : nameOf[x] # NoExchange})
    /\ todo' = DOMAIN snapshot'
    /\ stakePc' = "ask"
    /\ UNCHANGED <<chain, nameOf, current, pending, internal, batch, stakeRows, faults, renames>>

\* A full batch is written at once, and the error of Create ignored.
Written(rows, sofar) ==
    /\ batch' = <<>>
    /\ \/ stakeRows' = stakeRows \o rows /\ faults' = sofar
       \/ stakeRows' = stakeRows /\ faults' = sofar \cup {"missing"}

AddRow(x, total, sofar) ==
    LET rows == Append(batch, [address |-> x, name |-> snapshot[x], total |-> total])
    IN  IF Len(rows) >= BatchSize THEN Written(rows, sofar)
        ELSE batch' = rows /\ stakeRows' = stakeRows /\ faults' = sofar

Done(x) == /\ todo' = todo \ {x} /\ current' = NoAccount /\ pending' = {} /\ internal' = 0
           /\ stakePc' = "ask"

\* GetAccountFrozenResources.  A page of error that is JSON reads as zeros.
Frozen(x) ==
    /\ stakePc = "ask" /\ x \in todo
    /\ IF DelegatedOut(x) > 0
       THEN /\ current' = x /\ stakePc' = "list"
            /\ UNCHANGED <<todo, pending, internal, batch, stakeRows, faults>>
       ELSE Done(x) /\ AddRow(x, self[x] + Acquired(x), faults)
    /\ UNCHANGED <<chain, nameOf, snapshot, renames>>

FrozenFails(x) ==
    /\ stakePc = "ask" /\ x \in todo
    /\ Done(x) /\ faults' = faults \cup {"missing"}
    /\ UNCHANGED <<chain, nameOf, snapshot, batch, stakeRows, renames>>

FrozenIsErrorPage(x) ==
    /\ stakePc = "ask" /\ x \in todo
    /\ Done(x) /\ AddRow(x, 0, faults \cup {"missing"})
    /\ UNCHANGED <<chain, nameOf, snapshot, renames>>

\* Mutant of SameExchange: by the names as they are now.
SameExchangeNow(x, to) == nameOf[to] = nameOf[x]

SameExchange(x, to) == (to \in DOMAIN snapshot) /\ (snapshot[to] = snapshot[x])

\* GetAccountDelegatedTo lists what was delegated by the second version only.
DelegatedTo ==
    /\ stakePc = "list"
    /\ pending' = {to \in Accounts : v2[<<current, to>>] > 0 /\ SameExchange(current, to)}
    /\ stakePc' = "pairs"
    /\ UNCHANGED <<chain, nameOf, snapshot, todo, current, internal, batch, stakeRows, faults,
                   renames>>

DelegatedToIsErrorPage ==
    /\ stakePc = "list"
    /\ pending' = {} /\ stakePc' = "pairs" /\ faults' = faults \cup {"overlooked"}
    /\ UNCHANGED <<chain, nameOf, snapshot, todo, current, internal, batch, stakeRows, renames>>

\* GetDelegatedV2Amount
PairAmount(to) ==
    /\ stakePc = "pairs" /\ to \in pending
    /\ pending' = pending \ {to}
    /\ \/ internal' = internal + v2[<<current, to>>] /\ faults' = faults
       \/ internal' = internal /\ faults' = faults \cup {"overlooked"}  \* a page of error
    /\ UNCHANGED <<chain, nameOf, snapshot, stakePc, todo, current, batch, stakeRows, renames>>

\* An error in the list or in a pair: the address gets no row.
PairFails ==
    /\ stakePc \in {"list", "pairs"} /\ (stakePc = "pairs" => pending # {})
    /\ Done(current) /\ faults' = faults \cup {"missing"}
    /\ UNCHANGED <<chain, nameOf, snapshot, batch, stakeRows, renames>>

\* Total = Self + DelegatedOut + Acquired - InternalDelegatedOut
RowOfPairs ==
    /\ stakePc = "pairs" /\ pending = {}
    /\ Done(current)
    /\ AddRow(current, self[current] + DelegatedOut(current) + Acquired(current) - internal,
              faults)
    /\ UNCHANGED <<chain, nameOf, snapshot, renames>>

LastBatch ==
    /\ stakePc = "ask" /\ todo = {}
    /\ stakePc' = "done"
    /\ IF batch = <<>> THEN UNCHANGED <<batch, stakeRows, faults>> ELSE Written(batch, faults)
    /\ UNCHANGED <<chain, nameOf, snapshot, todo, current, pending, internal, renames>>

\* updateExchanges, or the command of the API, meanwhile.
Rename ==
    /\ stakePc \notin {"start", "done"} /\ renames < MaxRenames
    /\ \E x \in Accounts, e \in NamesOfExchanges : nameOf' = [nameOf EXCEPT ![x] = e]
    /\ renames' = renames + 1
    /\ UNCHANGED <<chain, snapshot, stakePc, todo, current, pending, internal, batch, stakeRows,
                   faults>>

StakeInit ==
    /\ \E w \in Worlds : self = w.self /\ v1 = w.v1 /\ v2 = w.v2 /\ nameOf = w.nameOf
    /\ snapshot = Restrict(nameOf, {}) /\ todo = {} /\ pending = {} /\ faults = {}
    /\ stakePc = "start" /\ current = NoAccount /\ internal = 0 /\ renames = 0
    /\ batch = <<>> /\ stakeRows = <<>>

StakeNext ==
    \/ Snapshot \/ DelegatedTo \/ DelegatedToIsErrorPage \/ PairFails \/ RowOfPairs \/ LastBatch
    \/ Rename
    \/ \E x \in Accounts : Frozen(x) \/ FrozenFails(x) \/ FrozenIsErrorPage(x) \/ PairAmount(x)

StakeSpec == StakeInit /\ [][StakeNext]_stakeVars

\* GetExchangeResourceStatisticsByDate merges the rows of a name.
StakeOf(e) == SumOver([i \in DOMAIN stakeRows |-> stakeRows[i].total],
                      {i \in DOMAIN stakeRows : stakeRows[i].name = e})

-----------------------------------------------------------------------------
(* Properties                                                              *)

AddressesOf(e) == {x \in DOMAIN snapshot : snapshot[x] = e}
Touching(e) == {p \in Pairs : (p[1] \in AddressesOf(e)) \/ (p[2] \in AddressesOf(e))}
Inside(e) == {p \in Pairs : (p[1] \in AddressesOf(e)) /\ (p[2] \in AddressesOf(e))}

\* What an exchange has staked and what is delegated by or to its addresses, each once.
StakedOnce(e) == SumOver(self, AddressesOf(e)) + SumOver(v1, Touching(e))
                 + SumOver(v2, Touching(e))

\* A delegation between two addresses of one exchange is counted once in the sum of its
\* rows, though both of them report it and exchanges are renamed during the scan; only
\* delegations by the first version of staking are counted twice, as documented.  Where
\* the node or the database failed the sum is too small, never too large, unless a page
\* of error was taken for a list or an amount (ExchangeResourceStatistic).
StakeCountedOnce ==
    (stakePc = "done") =>
        \A e \in NamesOfExchanges :
            LET expected == StakedOnce(e) + SumOver(v1, Inside(e))
            IN  /\ (faults = {}) => (StakeOf(e) = expected)
                /\ ("overlooked" \notin faults) => (StakeOf(e) <= expected)

=============================================================================
