---------------------------- MODULE ChargerLedger ----------------------------
(***************************************************************************)
(* What the charger store promises to its callers: one record per address, *)
(* with the single field BackupAddress of models.Charger, updated by the   *)
(* SaveCharger state machine; a durable copy of the records; and a set of  *)
(* pending addresses, outside of which record and copy are the same.       *)
(* There are no side maps, no ids, no lock and no rows: ChargerStore is    *)
(* shown to implement this.                                                *)
(***************************************************************************)
CONSTANTS Addr, Malformed, Name, None

VARIABLES
  charger,  \* address -> record, as held in memory
  durable,  \* address -> record, as a restart would rebuild it
  pending   \* addresses whose record may differ from the durable copy

vars == <<charger, durable, pending>>

Record == [exchangeName : Name, backup : Addr \cup Name \cup {None},
           isFake : BOOLEAN]

Entry(name, backup, isFake) ==
  [exchangeName |-> name, backup |-> backup, isFake |-> isFake]

Records(f) == DOMAIN f \subseteq Addr /\ f \in [DOMAIN f -> Record]

Init ==
  /\ durable \in UNION {[D -> Record] : D \in SUBSET Addr}
  /\ charger = durable
  /\ pending = {}

Write(a, r) ==
  /\ charger' = [x \in DOMAIN charger \cup {a} |-> IF x = a THEN r ELSE charger[x]]
  /\ pending' = pending \cup {a}
  /\ UNCHANGED durable

Genuine(a) == a \in DOMAIN charger /\ ~charger[a].isFake

\* The first payment into an exchange makes the sender its charger.
Discover(a, name) ==
  /\ a \in Addr \ DOMAIN charger
  /\ Write(a, Entry(name, None, FALSE))

\* A payment into another exchange: fake, the backup is that exchange's name.
Conflict(a, name) ==
  /\ Genuine(a)
  /\ name # charger[a].exchangeName
  /\ Write(a, Entry(charger[a].exchangeName, name, TRUE))

\* The first unknown counterparty is kept as backup, a second one means fake.
FirstUnknown(a, to) ==
  /\ Genuine(a)
  /\ charger[a].backup = None
  /\ Write(a, Entry(charger[a].exchangeName, to, FALSE))

SecondUnknown(a, to) ==
  /\ Genuine(a)
  /\ charger[a].backup \notin {None, to}
  /\ Write(a, Entry(charger[a].exchangeName, charger[a].backup, TRUE))

\* A new spelling of the exchange's name; it rehabilitates a fake charger
\* without a backup.
Rename(a, name) ==
  /\ a \in DOMAIN charger
  /\ name # charger[a].exchangeName
  /\ Write(a, Entry(name, charger[a].backup,
                    charger[a].isFake /\ charger[a].backup # None))

\* The backup has become an exchange: the charger's own, or another one.
\* The new spelling may come with it.
BackupConfirmed(a, name) ==
  /\ a \in DOMAIN charger
  /\ charger[a].backup \in Addr
  /\ Write(a, Entry(name, None, charger[a].isFake))

BackupConflicts(a, name) ==
  /\ a \in DOMAIN charger
  /\ charger[a].backup \in Addr
  /\ Write(a, Entry(name, charger[a].backup, TRUE))

\* Everything pending becomes durable; the caller may not get to know.
Persist ==
  /\ pending # {}
  /\ durable' = charger
  /\ pending' \in {{}, pending}
  /\ UNCHANGED charger

\* A crash loses what is pending, and nothing else.
Crash ==
  /\ charger' = durable
  /\ pending' = {}
  /\ UNCHANGED durable

Next ==
  \/ \E a \in Addr, name \in Name :
       \/ Discover(a, name)
       \/ Conflict(a, name)
       \/ Rename(a, name)
       \/ BackupConfirmed(a, name)
       \/ BackupConflicts(a, name)
  \/ \E a \in Addr, to \in Addr : FirstUnknown(a, to)
  \/ \E a \in Addr, to \in Addr \cup Malformed : SecondUnknown(a, to)
  \/ Persist
  \/ Crash

Spec == Init /\ [][Next]_vars

-----------------------------------------------------------------------------
\* Records and the durable copy are records of known addresses; only a known
\* address is pending.
LedgerTypeOK == Records(charger) /\ Records(durable) /\ pending \subseteq DOMAIN charger

\* Nothing that is not pending can be lost, and nothing durable is forgotten.
NothingElseLost ==
  /\ DOMAIN durable \subseteq DOMAIN charger
  /\ \A a \in DOMAIN charger \ pending :
       a \in DOMAIN durable /\ charger[a] = durable[a]

=============================================================================
