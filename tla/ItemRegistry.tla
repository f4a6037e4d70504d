---------------------------- MODULE ItemRegistry ----------------------------
(***************************************************************************)
(* The registry of items in one operator's memory                          *)
(* (registry/item-registry.ts, behind registry/registry-api.ts).  Its      *)
(* calls are async: each checks what it needs, awaits the payment check or *)
(* the operators' consensus, and then updates the ledger, without checking *)
(* again.  Calls overlap when a caller does not await one before the next, *)
(* or when two requests arrive in one read of a connection.                *)
(*                                                                         *)
(* An item's id is the hash of its serial number and of what else is known *)
(* of it, so it is taken to be that pair.  Signatures are non-empty        *)
(* strings, payments always verify and a consensus always has quorumM      *)
(* signatures: so the code has it, and those checks are left out.          *)
(***************************************************************************)
EXTENDS Naturals, Sequences, FiniteSets

CONSTANTS
   Serial,         \* serial number hashes
   Variant,        \* metadata and manufacturer
   Owner,
   Maker,          \* the previousOwner of a first ownership record
   NoRecord,       \* no entry in a map
   Task,           \* calls in progress
   MaxEvents       \* bound: no call is started once this many events are logged

Id == Serial \X Variant

EventKind == {"ITEM_REGISTERED", "OWNERSHIP_TRANSFERRED", "ITEM_AUTHENTICATED"}

History == Seq([from : Owner \cup {Maker}, to : Owner])
ItemRecord == [owner : Owner, history : History, attests : Nat]
Ledger == [items : [Id -> ItemRecord \cup {NoRecord}],
           events : [EventKind -> [Id -> Nat]],
           totals : [items : Nat, transfers : Nat, events : Nat]]

ASSUME RegistryAssumption ==
   /\ Maker \notin Owner
   /\ NoRecord \notin Id \cup ItemRecord \cup Ledger
   /\ MaxEvents \in Nat

VARIABLES
   items,      \* [Id -> record or NoRecord]: ledger.items
   bySerial,   \* [Serial -> Id or NoRecord]: ledger.itemsBySerialHash
   byOwner,    \* [Owner -> [Id -> how often the owner's list holds the id]]
   byMaker,    \* [Id -> how often its manufacturer's list holds it]
   events,     \* [EventKind -> [Id -> how many of them ledger.events holds]]
   totals,     \* totalItems, totalTransfers and the length of ledger.events
   task,       \* calls between two awaits
   backup,     \* an exported ledger
   overlapped  \* history: two calls, or a call and an import, have overlapped

ledger == <<items, bySerial, byOwner, byMaker, events, totals>>
vars == <<ledger, task, backup, overlapped>>

\* live: the record object the call holds is the one in ledger.items.
Idle == [pc |-> "idle", op |-> "none", id |-> NoRecord, from |-> Maker, to |-> Maker,
         live |-> TRUE]

Empty == [id \in Id |-> 0]

Init ==
   /\ items = [id \in Id |-> NoRecord]
   /\ bySerial = [s \in Serial |-> NoRecord]
   /\ byOwner = [o \in Owner |-> Empty]
   /\ byMaker = Empty
   /\ events = [k \in EventKind |-> Empty]
   /\ totals = [items |-> 0, transfers |-> 0, events |-> 0]
   /\ task = [t \in Task |-> Idle]
   /\ backup = NoRecord
   /\ overlapped = FALSE
-----------------------------------------------------------------------------
Busy == \E t \in Task : task[t].pc # "idle"

\* A call up to its first await.
Begin(t, pc, op, id, from, to) ==
   /\ task[t].pc = "idle"
   /\ totals.events < MaxEvents
   /\ task' = [task EXCEPT ![t] = [pc |-> pc, op |-> op, id |-> id,
                                   from |-> from, to |-> to, live |-> TRUE]]
   /\ overlapped' = (overlapped \/ Busy)
   /\ UNCHANGED <<ledger, backup>>

\* A call resumes from its last await.
Resumes(t, op) ==
   /\ task[t].pc = "consensus"
   /\ task[t].op = op

Record(kind, id) == events' = [events EXCEPT ![kind][id] = @ + 1]

\* addToOwnerIndex
Listed(index, o, id) == [index EXCEPT ![o][id] = @ + 1]

\* The old owner keeps the item in its list (a seeded bug).
StillListed(index, o, id) == index

\* removeFromOwnerIndex
Unlisted(index, o, id) == [index EXCEPT ![o][id] = IF @ = 0 THEN 0 ELSE @ - 1]

\* Registration looks for the item, not for the serial number (a seeded bug).
NewItem(id) == items[id] = NoRecord

\* The check of registerItem for a duplicate serial number.
NewSerial(id) == bySerial[id[1]] = NoRecord

Register(t, id, o) ==
   /\ NewSerial(id)
   /\ Begin(t, "consensus", "register", id, Maker, o)

Fresh(o) == [owner |-> o, history |-> << [from |-> Maker, to |-> o] >>, attests |-> 0]

\* The rest of registerItem.  A second registration of one id replaces the
\* record, and calls that hold the old object go on with that.
Registered(t) ==
   LET id == task[t].id  o == task[t].to IN
   /\ Resumes(t, "register")
   /\ items' = [items EXCEPT ![id] = Fresh(o)]
   /\ bySerial' = [bySerial EXCEPT ![id[1]] = id]
   /\ byOwner' = Listed(byOwner, o, id)
   /\ byMaker' = [byMaker EXCEPT ![id] = @ + 1]
   /\ Record("ITEM_REGISTERED", id)
   /\ totals' = [totals EXCEPT !.items = @ + 1, !.events = @ + 1]
   /\ task' = [u \in Task |->
                 IF u = t THEN Idle
                 ELSE IF task[u].id = id THEN [task[u] EXCEPT !.live = FALSE]
                 ELSE task[u]]
   /\ UNCHANGED <<backup, overlapped>>

Transfer(t, id, o) ==
   /\ items[id] # NoRecord
   /\ Begin(t, "payment", "transfer", id, items[id].owner, o)

\* verifyPayment resolves; getOperatorConsensus is awaited next.
Paid(t) ==
   /\ task[t].pc = "payment"
   /\ task' = [task EXCEPT ![t].pc = "consensus"]
   /\ UNCHANGED <<ledger, backup, overlapped>>

\* The record is changed but its history is not (a seeded bug).
MovedQuietly(rec, from, to) == [rec EXCEPT !.owner = to]

Moved(rec, from, to) ==
   [rec EXCEPT !.owner = to, !.history = Append(@, [from |-> from, to |-> to])]

\* The rest of transferOwnership.
Transferred(t) ==
   LET id == task[t].id  from == task[t].from  to == task[t].to IN
   /\ Resumes(t, "transfer")
   /\ items' = IF task[t].live
               THEN [items EXCEPT ![id] = Moved(@, from, to)] ELSE items
   /\ byOwner' = Listed(Unlisted(byOwner, from, id), to, id)
   /\ Record("OWNERSHIP_TRANSFERRED", id)
   /\ totals' = [totals EXCEPT !.transfers = @ + 1, !.events = @ + 1]
   /\ task' = [task EXCEPT ![t] = Idle]
   /\ UNCHANGED <<bySerial, byMaker, backup, overlapped>>

Authenticate(t, id) ==
   /\ items[id] # NoRecord
   /\ Begin(t, "consensus", "authenticate", id, Maker, Maker)

\* The rest of authenticateItem.
Authenticated(t) ==
   LET id == task[t].id IN
   /\ Resumes(t, "authenticate")
   /\ items' = IF task[t].live THEN [items EXCEPT ![id].attests = @ + 1] ELSE items
   /\ Record("ITEM_AUTHENTICATED", id)
   /\ totals' = [totals EXCEPT !.events = @ + 1]
   /\ task' = [task EXCEPT ![t] = Idle]
   /\ UNCHANGED <<bySerial, byOwner, byMaker, backup, overlapped>>
-----------------------------------------------------------------------------
\* exportLedger, at any time.
Export ==
   /\ backup' = [items |-> items, events |-> events, totals |-> totals]
   /\ UNCHANGED <<ledger, task, overlapped>>

\* rebuildIndexes over the items of a ledger.
OwnerIndex(its) ==
   [o \in Owner |-> [id \in Id |->
      IF its[id] # NoRecord /\ its[id].owner = o THEN 1 ELSE 0]]

MakerIndex(its) == [id \in Id |-> IF its[id] # NoRecord THEN 1 ELSE 0]

\* Of two items with one serial number the last one of the map stays in the
\* rebuilt index: either of them.
SerialIndexes(its) ==
   {f \in [Serial -> Id \cup {NoRecord}] : \A s \in Serial :
      IF \E v \in Variant : its[<<s, v>>] # NoRecord
      THEN f[s] \in {<<s, v>> : v \in Variant} /\ its[f[s]] # NoRecord
      ELSE f[s] = NoRecord}

\* importLedger, of a ledger exported before.
Import ==
   /\ backup # NoRecord
   /\ items' = backup.items
   /\ events' = backup.events
   /\ totals' = backup.totals
   /\ byOwner' = OwnerIndex(backup.items)
   /\ byMaker' = MakerIndex(backup.items)
   /\ bySerial' \in SerialIndexes(backup.items)
   /\ task' = [t \in Task |-> IF task[t].pc = "idle" THEN Idle
                              ELSE [task[t] EXCEPT !.live = FALSE]]
   /\ overlapped' = (overlapped \/ Busy)
   /\ UNCHANGED backup

TaskStep(t) ==
   \/ \E id \in Id, o \in Owner : Register(t, id, o) \/ Transfer(t, id, o)
   \/ \E id \in Id : Authenticate(t, id)
   \/ Registered(t) \/ Paid(t) \/ Transferred(t) \/ Authenticated(t)

Next == (\E t \in Task : TaskStep(t)) \/ Export \/ Import

Spec == Init /\ [][Next]_vars
-----------------------------------------------------------------------------
\* The fields hold what they should; a list never holds an item a negative
\* number of times (removeFromOwnerIndex, also when calls overlap).
TypeOK ==
   /\ items \in [Id -> ItemRecord \cup {NoRecord}]
   /\ bySerial \in [Serial -> Id \cup {NoRecord}]
   /\ byOwner \in [Owner -> [Id -> Nat]]
   /\ byMaker \in [Id -> Nat]
   /\ events \in [EventKind -> [Id -> Nat]]
   /\ totals \in [items : Nat, transfers : Nat, events : Nat]
   /\ task \in [Task -> [pc : {"idle", "payment", "consensus"},
                         op : {"none", "register", "transfer", "authenticate"},
                         id : Id \cup {NoRecord}, from : Owner \cup {Maker},
                         to : Owner \cup {Maker}, live : BOOLEAN]]
   /\ backup \in Ledger \cup {NoRecord}
   /\ overlapped \in BOOLEAN

-----------------------------------------------------------------------------
\* The last transfer of a record's history made its owner the owner.
EndsWithOwner(its) ==
   \A id \in Id : its[id] # NoRecord =>
      /\ its[id].history # << >>
      /\ its[id].history[Len(its[id].history)].to = its[id].owner

\* Every change of a record has left an event.
Covered(its, evs) ==
   \A id \in Id : its[id] # NoRecord =>
      /\ evs["ITEM_REGISTERED"][id] > 0
      /\ evs["OWNERSHIP_TRANSFERRED"][id] + 1 >= Len(its[id].history)
      /\ evs["ITEM_AUTHENTICATED"][id] >= its[id].attests

\* Each transfer takes the item from whom the one before gave it to.
Chained(its) ==
   \A id \in Id : its[id] # NoRecord =>
      \A i \in 1..(Len(its[id].history) - 1) :
         its[id].history[i + 1].from = its[id].history[i].to

OnePerSerial(its) ==
   \A id1, id2 \in Id :
      /\ its[id1] # NoRecord
      /\ its[id2] # NoRecord
      /\ id1[1] = id2[1]
      => id1 = id2

\* In every order of calls and imports, overlapping or not: the ledger's events
\* account for every registration, transfer and attestation its records show,
\* and a record's history ends with its owner.
RecordsAccounted == EndsWithOwner(items) /\ Covered(items, events)

\* In every order of calls and imports: a registered item's serial number is
\* taken, so that it is refused from then on, and a serial number that is taken
\* resolves to a registered item that has it.
SerialResolves ==
   /\ \A id \in Id : items[id] # NoRecord => bySerial[id[1]] # NoRecord
   /\ \A s \in Serial : bySerial[s] # NoRecord =>
         /\ bySerial[s][1] = s
         /\ items[bySerial[s]] # NoRecord

\* As long as no calls overlap, with imports of older ledgers between them: one
\* entry per serial number, and histories that hand an item from owner to owner.
EntriesAreSound == ~overlapped => OnePerSerial(items) /\ Chained(items)

\* As long as no calls overlap: an item is listed once for its owner and for
\* nobody else, and once for its manufacturer.
IndexesAgree ==
   ~overlapped =>
      /\ \A id \in Id, o \in Owner :
            byOwner[o][id] =
               IF items[id] # NoRecord /\ items[id].owner = o THEN 1 ELSE 0
      /\ \A id \in Id : byMaker[id] = IF items[id] # NoRecord THEN 1 ELSE 0
=============================================================================
