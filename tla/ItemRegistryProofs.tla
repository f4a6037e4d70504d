------------------------- MODULE ItemRegistryProofs -------------------------
(***************************************************************************)
(* Proofs about the registry of items, for every number of calls.          *)
(***************************************************************************)
EXTENDS ItemRegistry, TLAPS

\* A call that is under way is about an item and names owners; it holds the
\* record of a registered item unless its record was replaced.
CallsHold ==
   \A t \in Task : task[t].pc # "idle" =>
      /\ task[t].id \in Id
      /\ task[t].op = "register" => task[t].to \in Owner
      /\ task[t].op = "transfer" => task[t].from \in Owner /\ task[t].to \in Owner
      /\ task[t].live /\ task[t].op # "register" => items[task[t].id] # NoRecord

\* Without an overlap what a call has checked still holds when it resumes.
CallsAreCurrent ==
   ~overlapped =>
      /\ \A t, u \in Task : task[t].pc # "idle" /\ task[u].pc # "idle" => t = u
      /\ \A t \in Task : task[t].pc # "idle" =>
            /\ task[t].live
            /\ task[t].op = "transfer" => items[task[t].id].owner = task[t].from
            /\ task[t].op = "register" => bySerial[task[t].id[1]] = NoRecord

\* An exported ledger has what the properties claim of the ledger itself.
BackupIsSound ==
   backup # NoRecord =>
      /\ EndsWithOwner(backup.items)
      /\ Covered(backup.items, backup.events)
      /\ ~overlapped => OnePerSerial(backup.items) /\ Chained(backup.items)

\* The inductive invariant.
SafeInv ==
   /\ TypeOK
   /\ CallsHold
   /\ CallsAreCurrent
   /\ BackupIsSound
   /\ RecordsAccounted
   /\ SerialResolves
   /\ EntriesAreSound
   /\ IndexesAgree

-----------------------------------------------------------------------------
\* What is true of a ledger and not of the calls under way.
LedgerIsSound == RecordsAccounted /\ SerialResolves /\ EntriesAreSound /\ IndexesAgree

\* The first state of a registry is sound.
LEMMA InitSafe == Init => SafeInv
<1> SUFFICES ASSUME Init PROVE SafeInv
  OBVIOUS
<1>1. TypeOK
  BY RegistryAssumption DEF Init, TypeOK, Idle, Empty
<1>2. CallsHold /\ CallsAreCurrent /\ BackupIsSound
  BY DEF Init, CallsHold, CallsAreCurrent, BackupIsSound, Idle
<1>3. RecordsAccounted /\ SerialResolves /\ EntriesAreSound
  BY DEF Init, RecordsAccounted, EndsWithOwner, Covered, SerialResolves, EntriesAreSound,
         OnePerSerial, Chained
<1>4. IndexesAgree
  BY DEF Init, IndexesAgree, Empty
<1> QED
  BY <1>1, <1>2, <1>3, <1>4 DEF SafeInv

\* A call that begins leaves the ledger and the backup as they were; whatever
\* was promised of quiet times only is still promised of fewer times.
LEMMA BeginKeepsLedger ==
   ASSUME SafeInv, UNCHANGED <<ledger, backup>>, overlapped => overlapped',
          overlapped' \in BOOLEAN
   PROVE  LedgerIsSound' /\ BackupIsSound'
<1> USE DEF SafeInv, ledger
<1>1. RecordsAccounted' /\ SerialResolves'
  BY DEF RecordsAccounted, EndsWithOwner, Covered, SerialResolves
<1>2. EntriesAreSound' /\ BackupIsSound'
  BY DEF EntriesAreSound, OnePerSerial, Chained, BackupIsSound, EndsWithOwner, Covered
<1>3. IndexesAgree'
  BY DEF IndexesAgree
<1> QED
  BY <1>1, <1>2, <1>3 DEF LedgerIsSound

\* A call that begins keeps the invariant.
LEMMA BeginSafe ==
   ASSUME SafeInv, NEW t \in Task, NEW id \in Id, NEW o \in Owner,
          Register(t, id, o) \/ Transfer(t, id, o) \/ Authenticate(t, id)
   PROVE  SafeInv'
<1> USE DEF SafeInv
<1> DEFINE new == task'[t]
<1>1. /\ task[t].pc = "idle"
      /\ task' = [task EXCEPT ![t] = new]
      /\ overlapped' = (overlapped \/ Busy)
      /\ UNCHANGED <<ledger, backup>>
      /\ new \in [pc : {"payment", "consensus"}, op : {"register", "transfer", "authenticate"},
                  id : {id}, from : Owner \cup {Maker}, to : Owner \cup {Maker}, live : {TRUE}]
      /\ new.op = "register" => new.to \in Owner /\ NewSerial(id)
      /\ new.op = "transfer" => /\ new.to \in Owner
                               /\ new.from = items[id].owner
      /\ new.op # "register" => items[id] # NoRecord
  <2>1. CASE Register(t, id, o)
    BY <2>1 DEF Register, Begin, TypeOK
  <2>2. CASE Transfer(t, id, o)
    BY <2>2 DEF Transfer, Begin, TypeOK, ItemRecord
  <2>3. CASE Authenticate(t, id)
    BY <2>3 DEF Authenticate, Begin, TypeOK
  <2> QED
    BY <2>1, <2>2, <2>3
<1> HIDE DEF new
<1>2. LedgerIsSound' /\ BackupIsSound'
  BY <1>1, BeginKeepsLedger DEF TypeOK, Busy
<1>3. TypeOK'
  BY <1>1 DEF TypeOK, ledger, Busy
<1>4. CallsHold'
  <2> SUFFICES ASSUME NEW u \in Task, task'[u].pc # "idle"
               PROVE  CallsHold!(u)!2'
    BY DEF CallsHold
  <2>1. CASE u = t
    BY <2>1, <1>1 DEF TypeOK, ledger, ItemRecord
  <2>2. CASE u # t
    BY <2>2, <1>1 DEF TypeOK, ledger, CallsHold
  <2> QED
    BY <2>1, <2>2
<1>5. CallsAreCurrent'
  <2> SUFFICES ASSUME ~overlapped' PROVE CallsAreCurrent!2'
    BY DEF CallsAreCurrent
  <2>1. \A u \in Task : task[u].pc = "idle"
    BY <1>1 DEF Busy
  <2>2. \A u \in Task : task'[u].pc # "idle" => u = t
    BY <2>1, <1>1 DEF TypeOK
  <2>3. task'[t] = new /\ items' = items /\ bySerial' = bySerial
    BY <1>1 DEF TypeOK, ledger
  <2>4. new.live /\ new.id = id
    BY <1>1
  <2> HIDE DEF SafeInv
  <2> QED
    BY <2>2, <2>3, <2>4, <1>1 DEF NewSerial
<1> QED
  BY <1>2, <1>3, <1>4, <1>5 DEF LedgerIsSound

-----------------------------------------------------------------------------
\* The record of a new item.
LEMMA FreshRecord ==
   ASSUME NEW o \in Owner
   PROVE  /\ Fresh(o) \in ItemRecord /\ Fresh(o) # NoRecord
          /\ Fresh(o).owner = o /\ Fresh(o).attests = 0
          /\ Len(Fresh(o).history) = 1 /\ Fresh(o).history[1].to = o
<1>1. Fresh(o) \in ItemRecord
  BY DEF Fresh, ItemRecord, History
<1> QED
  BY <1>1, RegistryAssumption DEF Fresh

\* What a record is after a transfer to what it was before.
Continues(new, rec, from, to) ==
   /\ new \in ItemRecord /\ new # NoRecord
   /\ new.owner = to /\ new.attests = rec.attests
   /\ Len(rec.history) \in Nat
   /\ Len(new.history) = Len(rec.history) + 1
   /\ new.history[Len(rec.history) + 1].to = to
   /\ new.history[Len(rec.history) + 1].from = from
   /\ \A i \in 1..Len(rec.history) : new.history[i] = rec.history[i]

\* The record of an item that was handed on.
LEMMA MovedRecord ==
   ASSUME NEW rec \in ItemRecord, NEW from \in Owner, NEW to \in Owner
   PROVE  Continues(Moved(rec, from, to), rec, from, to)
<1> DEFINE new == Moved(rec, from, to)
<1>1. rec.history \in Seq([from : Owner \cup {Maker}, to : Owner])
  BY DEF ItemRecord, History
<1>2. new.history = Append(rec.history, [from |-> from, to |-> to])
      /\ new.owner = to /\ new.attests = rec.attests
  BY DEF Moved, ItemRecord
<1>3. new.history \in Seq([from : Owner \cup {Maker}, to : Owner])
  BY <1>1, <1>2
<1>4. new \in ItemRecord
  BY <1>2, <1>3 DEF Moved, ItemRecord, History
<1> QED
  BY <1>1, <1>2, <1>4, RegistryAssumption DEF Continues

\* The counters stay numbers.
LEMMA TotalsGrow ==
   ASSUME NEW n \in [items : Nat, transfers : Nat, events : Nat]
   PROVE  /\ [n EXCEPT !.items = @ + 1, !.events = @ + 1]
               \in [items : Nat, transfers : Nat, events : Nat]
          /\ [n EXCEPT !.transfers = @ + 1, !.events = @ + 1]
               \in [items : Nat, transfers : Nat, events : Nat]
<1> DEFINE T == [items : Nat, transfers : Nat, events : Nat]
           A == [n EXCEPT !.items = n.items + 1]
           B == [n EXCEPT !.transfers = n.transfers + 1]
<1>1. A \in T /\ B \in T /\ n.events + 1 \in Nat
  OBVIOUS
<1> HIDE DEF A, B
<1>2. [A EXCEPT !.events = n.events + 1] \in T /\ [B EXCEPT !.events = n.events + 1] \in T
  BY <1>1
<1> QED
  BY <1>2, Zenon DEF A, B

\* A payment that is verified changes nothing but the call.
LEMMA PaidSafe ==
   ASSUME SafeInv, NEW t \in Task, Paid(t)
   PROVE  SafeInv'
<1> DEFINE Call == [pc : {"idle", "payment", "consensus"},
                    op : {"none", "register", "transfer", "authenticate"},
                    id : Id \cup {NoRecord}, from : Owner \cup {Maker},
                    to : Owner \cup {Maker}, live : BOOLEAN]
<1>1. /\ task' = [task EXCEPT ![t] = [task[t] EXCEPT !.pc = "consensus"]]
      /\ task[t].pc = "payment" /\ UNCHANGED <<ledger, backup, overlapped>>
  BY DEF Paid
<1>2. task \in [Task -> Call] /\ overlapped \in BOOLEAN
  BY DEF SafeInv, TypeOK
<1>3. LedgerIsSound' /\ BackupIsSound'
  BY <1>1, <1>2, BeginKeepsLedger
<1>4. task' \in [Task -> Call]
  BY <1>1, <1>2
<1>5. TypeOK'
  BY <1>1, <1>4 DEF SafeInv, TypeOK, ledger
<1>6. /\ task'[t].pc # "idle" /\ task[t].pc # "idle"
      /\ \A u \in Task : /\ task'[u].op = task[u].op /\ task'[u].id = task[u].id
                         /\ task'[u].from = task[u].from /\ task'[u].to = task[u].to
                         /\ task'[u].live = task[u].live
                         /\ u # t => task'[u].pc = task[u].pc
  BY <1>1, <1>2
<1>7. items' = items /\ bySerial' = bySerial /\ overlapped' = overlapped
  BY <1>1 DEF ledger
<1>8. CallsHold'
  BY <1>6, <1>7 DEF SafeInv, CallsHold
<1>9. CallsAreCurrent'
  BY <1>6, <1>7 DEF SafeInv, CallsAreCurrent
<1> QED
  BY <1>3, <1>5, <1>8, <1>9 DEF SafeInv, LedgerIsSound

\* An attestation is added to the record, if the call still has it, and logged.
LEMMA AuthenticatedSafe ==
   ASSUME SafeInv, NEW t \in Task, Authenticated(t)
   PROVE  SafeInv'
<1> USE DEF SafeInv
<1> DEFINE a == task[t].id
           added == [items[a] EXCEPT !.attests = @ + 1]
<1>1. a \in Id /\ (task[t].live => items[a] # NoRecord)
  BY DEF Authenticated, Resumes, CallsHold
<1>2. task[t].live => added \in ItemRecord /\ added # NoRecord
  BY <1>1, RegistryAssumption DEF TypeOK, ItemRecord
<1>3. /\ \A id \in Id : \/ items'[id] = items[id]
                        \/ id = a /\ task[t].live /\ items'[id] = added
      /\ \A k \in EventKind, id \in Id :
            events'[k][id] = IF k = "ITEM_AUTHENTICATED" /\ id = a
                             THEN events[k][id] + 1 ELSE events[k][id]
      /\ task' = [task EXCEPT ![t] = Idle]
      /\ UNCHANGED <<bySerial, byOwner, byMaker, backup, overlapped>>
  BY <1>1 DEF Authenticated, Record, TypeOK
<1>4. TypeOK'
  BY <1>1, <1>2 DEF Authenticated, Record, TypeOK, EventKind, Idle
<1>5. \A id \in Id :
         /\ items'[id] = NoRecord <=> items[id] = NoRecord
         /\ items[id] # NoRecord =>
               /\ items'[id].owner = items[id].owner
               /\ items'[id].history = items[id].history
               /\ items'[id].attests \in Nat /\ items[id].attests \in Nat
               /\ items'[id].attests = items[id].attests \/
                  (id = a /\ items'[id].attests = items[id].attests + 1)
  <2> SUFFICES ASSUME NEW id \in Id
               PROVE  <1>5!(id)
    OBVIOUS
  <2>1. items[id] # NoRecord =>
           items[id] \in [owner : Owner, history : History, attests : Nat]
    BY DEF TypeOK, ItemRecord
  <2>2. CASE items'[id] = items[id]
    BY <2>1, <2>2
  <2>3. CASE id = a /\ task[t].live /\ items'[id] = added
    BY <2>1, <2>3, <1>1, <1>2
  <2> QED
    BY <2>2, <2>3, <1>3
<1> HIDE DEF a, added
<1>6. CallsHold'
  BY <1>3, <1>5 DEF CallsHold, TypeOK, Idle
<1>7. CallsAreCurrent'
  BY <1>3, <1>5 DEF CallsAreCurrent, CallsHold, TypeOK, Idle
<1>8. BackupIsSound'
  BY <1>3 DEF BackupIsSound, EndsWithOwner, Covered, OnePerSerial, Chained
<1>9. RecordsAccounted'
  <2>1. EndsWithOwner(items')
    BY <1>5 DEF RecordsAccounted, EndsWithOwner
  <2>2. Covered(items', events')
    <3> SUFFICES ASSUME NEW id \in Id, items'[id] # NoRecord
                 PROVE  Covered(items, events)!(id)!2'
      BY DEF Covered
    <3>1. Covered(items, events)!(id)!2
      BY <1>5 DEF RecordsAccounted, Covered
    <3>2. /\ events["ITEM_AUTHENTICATED"][id] \in Nat
          /\ events'["ITEM_REGISTERED"][id] = events["ITEM_REGISTERED"][id]
          /\ events'["OWNERSHIP_TRANSFERRED"][id] = events["OWNERSHIP_TRANSFERRED"][id]
          /\ events'["ITEM_AUTHENTICATED"][id] =
               events["ITEM_AUTHENTICATED"][id] + (IF id = a THEN 1 ELSE 0)
      BY <1>3 DEF TypeOK, EventKind
    <3> QED
      BY <3>1, <3>2, <1>5
  <2> QED
    BY <2>1, <2>2 DEF RecordsAccounted
<1>10. SerialResolves'
  BY <1>3, <1>5 DEF SerialResolves, TypeOK
<1>11. EntriesAreSound'
  BY <1>3, <1>5 DEF EntriesAreSound, OnePerSerial, Chained
<1>12. IndexesAgree'
  BY <1>3, <1>5 DEF IndexesAgree
<1> QED
  BY <1>4, <1>6, <1>7, <1>8, <1>9, <1>10, <1>11, <1>12

\* A registration enters the item everywhere; without an overlap nobody has its
\* serial number yet.
LEMMA RegisteredSafe ==
   ASSUME SafeInv, NEW t \in Task, Registered(t)
   PROVE  SafeInv'
<1> USE DEF SafeInv
<1> DEFINE a == task[t].id
           o == task[t].to
<1>1. a \in Id /\ o \in Owner /\ a[1] \in Serial
  BY DEF Registered, Resumes, CallsHold, Id
<1>2. /\ task' \in [Task -> [pc : {"idle", "payment", "consensus"},
                         op : {"none", "register", "transfer", "authenticate"},
                         id : Id \cup {NoRecord}, from : Owner \cup {Maker},
                         to : Owner \cup {Maker}, live : BOOLEAN]]
      /\ task'[t].pc = "idle"
      /\ \A u \in Task \ {t} :
            /\ task'[u].pc = task[u].pc /\ task'[u].op = task[u].op /\ task'[u].id = task[u].id
            /\ task'[u].from = task[u].from /\ task'[u].to = task[u].to
            /\ task'[u].live => task[u].live /\ task[u].id # a
  <2> DEFINE Call == [pc : {"idle", "payment", "consensus"},
                      op : {"none", "register", "transfer", "authenticate"},
                      id : Id \cup {NoRecord}, from : Owner \cup {Maker},
                      to : Owner \cup {Maker}, live : BOOLEAN]
             Detached(u) == [task[u] EXCEPT !.live = FALSE]
  <2>1. Idle \in Call /\ Idle.pc = "idle"
    BY DEF Idle
  <2>2. ASSUME NEW u \in Task
        PROVE  /\ task[u] \in Call /\ Detached(u) \in Call
               /\ Detached(u).pc = task[u].pc /\ Detached(u).op = task[u].op
               /\ Detached(u).id = task[u].id /\ Detached(u).from = task[u].from
               /\ Detached(u).to = task[u].to /\ Detached(u).live = FALSE
    BY DEF TypeOK
  <2>3. task' = [u \in Task |-> IF u = t THEN Idle
                               ELSE IF task[u].id = a THEN Detached(u) ELSE task[u]]
    BY DEF Registered
  <2> HIDE DEF Call, Detached
  <2>4. task' \in [Task -> Call]
    BY <2>1, <2>2, <2>3
  <2>5. task'[t].pc = "idle"
    BY <2>1, <2>3
  <2>6. ASSUME NEW u \in Task \ {t}
        PROVE  /\ task'[u].pc = task[u].pc /\ task'[u].op = task[u].op
               /\ task'[u].id = task[u].id /\ task'[u].from = task[u].from
               /\ task'[u].to = task[u].to
               /\ task'[u].live => task[u].live /\ task[u].id # a
    <3>1. CASE task[u].id = a
      BY <3>1, <2>2, <2>3
    <3>2. CASE task[u].id # a
      BY <3>2, <2>3
    <3> QED
      BY <3>1, <3>2
  <2> QED
    BY <2>4, <2>5, <2>6 DEF Call
<1>3. TypeOK'
  <2>1. /\ items' \in [Id -> ItemRecord \cup {NoRecord}]
        /\ bySerial' \in [Serial -> Id \cup {NoRecord}]
    <3>1. Fresh(o) \in ItemRecord
      BY <1>1, FreshRecord
    <3>2. items' = [items EXCEPT ![a] = Fresh(o)] /\ bySerial' = [bySerial EXCEPT ![a[1]] = a]
      BY DEF Registered
    <3> HIDE DEF a, o
    <3> QED
      BY <1>1, <3>1, <3>2 DEF TypeOK
  <2>2. byOwner' \in [Owner -> [Id -> Nat]] /\ byMaker' \in [Id -> Nat]
    BY <1>1 DEF Registered, Listed, TypeOK
  <2>3. /\ events' \in [EventKind -> [Id -> Nat]]
        /\ totals' \in [items : Nat, transfers : Nat, events : Nat]
    <3>1. totals' \in [items : Nat, transfers : Nat, events : Nat]
      BY TotalsGrow DEF Registered, TypeOK
    <3>2. events' = [events EXCEPT !["ITEM_REGISTERED"][a] = @ + 1]
      BY DEF Registered, Record
    <3> HIDE DEF a, o
    <3>3. events' \in [EventKind -> [Id -> Nat]]
      BY <1>1, <3>2 DEF TypeOK, EventKind
    <3> QED
      BY <3>1, <3>3
  <2>4. UNCHANGED <<backup, overlapped>>
    BY DEF Registered
  <2> QED
    BY <1>2, <2>1, <2>2, <2>3, <2>4 DEF TypeOK
<1>4. /\ \A id \in Id : items'[id] = IF id = a THEN Fresh(o) ELSE items[id]
      /\ \A s \in Serial : bySerial'[s] = IF s = a[1] THEN a ELSE bySerial[s]
      /\ backup' = backup /\ overlapped' = overlapped
  BY <1>1 DEF Registered, TypeOK
<1>5. /\ \A p \in Owner, id \in Id :
            byOwner'[p][id] = IF p = o /\ id = a THEN byOwner[p][id] + 1 ELSE byOwner[p][id]
      /\ \A id \in Id : byMaker'[id] = IF id = a THEN byMaker[id] + 1 ELSE byMaker[id]
      /\ \A k \in EventKind, id \in Id :
            events'[k][id] = IF k = "ITEM_REGISTERED" /\ id = a
                             THEN events[k][id] + 1 ELSE events[k][id]
  BY <1>1 DEF Registered, Record, Listed, TypeOK
<1>6. ~overlapped => /\ \A id \in Id : id[1] = a[1] => items[id] = NoRecord
                     /\ \A u \in Task : u # t => task[u].pc = "idle"
  BY DEF CallsAreCurrent, SerialResolves, Registered, Resumes
<1>7. Fresh(o) # NoRecord /\ Fresh(o).owner = o /\ Fresh(o).attests = 0
      /\ Len(Fresh(o).history) = 1 /\ Fresh(o).history[1].to = o /\ Fresh(o).history # << >>
  BY <1>1, FreshRecord
<1> HIDE DEF a, o
<1>8. CallsHold'
  BY <1>2, <1>4, <1>7 DEF CallsHold
<1>9. CallsAreCurrent'
  BY <1>2, <1>4, <1>6 DEF CallsAreCurrent
<1>10. BackupIsSound'
  BY <1>4 DEF BackupIsSound, EndsWithOwner, Covered, OnePerSerial, Chained
<1>11. RecordsAccounted'
  <2>1. EndsWithOwner(items')
    BY <1>4, <1>7 DEF RecordsAccounted, EndsWithOwner
  <2>2. Covered(items', events')
    <3> SUFFICES ASSUME NEW id \in Id, items'[id] # NoRecord
                 PROVE  Covered(items, events)!(id)!2'
      BY DEF Covered
    <3>1. /\ \A k \in EventKind : events[k][id] \in Nat
          /\ "ITEM_REGISTERED" \in EventKind /\ "OWNERSHIP_TRANSFERRED" \in EventKind
          /\ "ITEM_AUTHENTICATED" \in EventKind
      BY DEF TypeOK, EventKind
    <3>2. CASE id = a
      <4>1. items'[id] = Fresh(o) /\ events'["ITEM_REGISTERED"][id] = events["ITEM_REGISTERED"][id] + 1
            /\ events'["OWNERSHIP_TRANSFERRED"][id] = events["OWNERSHIP_TRANSFERRED"][id]
            /\ events'["ITEM_AUTHENTICATED"][id] = events["ITEM_AUTHENTICATED"][id]
        BY <3>1, <3>2, <1>4, <1>5
      <4> QED
        BY <3>1, <4>1, <1>7
    <3>3. CASE id # a
      BY <3>1, <3>3, <1>4, <1>5 DEF RecordsAccounted, Covered
    <3> QED
      BY <3>2, <3>3
  <2> QED
    BY <2>1, <2>2 DEF RecordsAccounted
<1>12. SerialResolves'
  <2>1. \A id \in Id : id[1] \in Serial
    BY DEF Id
  <2> QED
    <3>1. a # NoRecord
      BY <1>1, RegistryAssumption
    <3>2. \A id \in Id : items'[id] # NoRecord => bySerial'[id[1]] # NoRecord
      BY <2>1, <3>1, <1>4 DEF SerialResolves
    <3>3. \A s \in Serial : bySerial'[s] # NoRecord =>
             bySerial'[s][1] = s /\ items'[bySerial'[s]] # NoRecord
      <4> SUFFICES ASSUME NEW s \in Serial, bySerial'[s] # NoRecord
                   PROVE  bySerial'[s][1] = s /\ items'[bySerial'[s]] # NoRecord
        OBVIOUS
      <4>1. CASE s = a[1]
        BY <4>1, <1>1, <1>4, <1>7
      <4>2. CASE s # a[1]
        <5>1. bySerial'[s] = bySerial[s] /\ bySerial[s] \in Id
          BY <4>2, <1>4 DEF TypeOK
        <5> QED
          BY <5>1, <1>4, <1>7 DEF SerialResolves
      <4> QED
        BY <4>1, <4>2
    <3> QED
      BY <3>2, <3>3 DEF SerialResolves
<1>13. EntriesAreSound'
  BY <1>4, <1>6, <1>7 DEF EntriesAreSound, OnePerSerial, Chained
<1>14. IndexesAgree'
  BY <1>1, <1>4, <1>5, <1>6, <1>7 DEF IndexesAgree
<1> QED
  BY <1>3, <1>8, <1>9, <1>10, <1>11, <1>12, <1>13, <1>14

\* A transfer is entered in the record, if the call still has it, in the owners'
\* lists and in the events; without an overlap it is from the owner of the item.
LEMMA TransferredSafe ==
   ASSUME SafeInv, NEW t \in Task, Transferred(t)
   PROVE  SafeInv'
<1> USE DEF SafeInv
<1> DEFINE a == task[t].id
           from == task[t].from
           to == task[t].to
           new == Moved(items[a], from, to)
<1>1. /\ a \in Id /\ from \in Owner /\ to \in Owner
      /\ task[t].live => items[a] # NoRecord /\ items[a] \in ItemRecord
  BY DEF Transferred, Resumes, CallsHold, TypeOK
<1>2. task[t].live => /\ new \in ItemRecord /\ new # NoRecord
                      /\ new.owner = to /\ new.attests = items[a].attests
                      /\ Len(items[a].history) \in Nat
                      /\ Len(new.history) = Len(items[a].history) + 1
                      /\ new.history[Len(items[a].history) + 1].to = to
                      /\ new.history[Len(items[a].history) + 1].from = from
                      /\ \A i \in 1..Len(items[a].history) : new.history[i] = items[a].history[i]
  <2> SUFFICES ASSUME task[t].live PROVE <1>2!2
    OBVIOUS
  <2>1. Continues(new, items[a], from, to)
    BY <1>1, MovedRecord
  <2> HIDE DEF a, from, to, new, SafeInv
  <2> QED
    BY <2>1 DEF Continues
<1>3. /\ items' = IF task[t].live THEN [items EXCEPT ![a] = new] ELSE items
      /\ byOwner' = Listed(Unlisted(byOwner, from, a), to, a)
      /\ events' = [events EXCEPT !["OWNERSHIP_TRANSFERRED"][a] = @ + 1]
      /\ task' = [task EXCEPT ![t] = Idle]
      /\ UNCHANGED <<bySerial, byMaker, backup, overlapped>>
  BY DEF Transferred, Record
<1>4. totals' \in [items : Nat, transfers : Nat, events : Nat]
  BY TotalsGrow DEF Transferred, TypeOK
<1>5. ~overlapped => task[t].live /\ items[a].owner = from
  BY DEF Transferred, Resumes, CallsAreCurrent
<1>6. ~overlapped => \A u \in Task : u # t => task[u].pc = "idle"
  BY DEF Transferred, Resumes, CallsAreCurrent
<1> HIDE DEF a, from, to, new
<1>7. items' \in [Id -> ItemRecord \cup {NoRecord}]
      /\ \A id \in Id : items'[id] = IF id = a /\ task[t].live THEN new ELSE items[id]
  BY <1>1, <1>2, <1>3 DEF TypeOK
<1>8. byOwner' \in [Owner -> [Id -> Nat]] /\ events' \in [EventKind -> [Id -> Nat]]
  <2>1. Unlisted(byOwner, from, a) \in [Owner -> [Id -> Nat]]
    BY <1>1 DEF TypeOK, Unlisted
  <2>2. byOwner' \in [Owner -> [Id -> Nat]]
    BY <1>1, <1>3, <2>1 DEF Listed
  <2>3. events' \in [EventKind -> [Id -> Nat]]
    BY <1>1, <1>3 DEF TypeOK, EventKind
  <2> QED
    BY <2>2, <2>3
<1>9. TypeOK'
  BY <1>3, <1>4, <1>7, <1>8 DEF TypeOK, Idle
<1>10. CallsHold'
  BY <1>2, <1>3, <1>7 DEF CallsHold, TypeOK, Idle
<1>11. CallsAreCurrent'
  BY <1>3, <1>6 DEF CallsAreCurrent, TypeOK, Idle
<1>12. BackupIsSound'
  BY <1>3 DEF BackupIsSound, EndsWithOwner, Covered, OnePerSerial, Chained
<1>13. RecordsAccounted'
  <2>1. EndsWithOwner(items')
    <3> SUFFICES ASSUME NEW id \in Id, items'[id] # NoRecord
                 PROVE  EndsWithOwner(items)!(id)!2'
      BY DEF EndsWithOwner
    <3>1. CASE id = a /\ task[t].live
      <4>1. items'[id] = new
        BY <3>1, <1>7
      <4>2. new.history # << >>
        BY <3>1, <1>2
      <4> QED
        BY <3>1, <4>1, <4>2, <1>2
    <3>2. CASE ~(id = a /\ task[t].live)
      BY <3>2, <1>7 DEF RecordsAccounted, EndsWithOwner
    <3> QED
      BY <3>1, <3>2
  <2>2. Covered(items', events')
    <3> SUFFICES ASSUME NEW id \in Id, items'[id] # NoRecord
                 PROVE  Covered(items, events)!(id)!2'
      BY DEF Covered
    <3>1. /\ events["OWNERSHIP_TRANSFERRED"][id] \in Nat
          /\ events'["ITEM_REGISTERED"][id] = events["ITEM_REGISTERED"][id]
          /\ events'["ITEM_AUTHENTICATED"][id] = events["ITEM_AUTHENTICATED"][id]
          /\ events'["OWNERSHIP_TRANSFERRED"][id] =
               events["OWNERSHIP_TRANSFERRED"][id] + (IF id = a THEN 1 ELSE 0)
      BY <1>3 DEF TypeOK, EventKind
    <3>2. items[id] # NoRecord /\ items[id] \in ItemRecord
      BY <1>1, <1>7 DEF TypeOK
    <3>3. Covered(items, events)!(id)!2 /\ Len(items[id].history) \in Nat
      BY <3>2 DEF RecordsAccounted, Covered, ItemRecord, History
    <3>4. CASE id = a /\ task[t].live
      <4>1. items'[id] = new /\ new.attests = items[id].attests
            /\ Len(new.history) = Len(items[id].history) + 1
        BY <3>4, <1>2, <1>7
      <4> QED
        BY <3>1, <3>3, <3>4, <4>1
    <3>5. CASE ~(id = a /\ task[t].live)
      BY <3>1, <3>3, <3>5, <1>7
    <3> QED
      BY <3>4, <3>5
  <2> QED
    BY <2>1, <2>2 DEF RecordsAccounted
<1>14. SerialResolves'
  <2>1. \A id \in Id : items'[id] = NoRecord <=> items[id] = NoRecord
    BY <1>1, <1>2, <1>7
  <2> QED
    BY <2>1, <1>3 DEF SerialResolves, TypeOK
<1>15. EntriesAreSound'
  <2> SUFFICES ASSUME ~overlapped
               PROVE  OnePerSerial(items') /\ Chained(items')
    BY <1>3 DEF EntriesAreSound
  <2>1. OnePerSerial(items')
    BY <1>1, <1>7 DEF EntriesAreSound, OnePerSerial
  <2>2. ASSUME NEW id \in Id, items'[id] # NoRecord,
               NEW i \in 1..(Len(items'[id].history) - 1)
        PROVE  items'[id].history[i + 1].from = items'[id].history[i].to
    <3>1. CASE id # a
      BY <2>2, <3>1, <1>7 DEF EntriesAreSound, Chained
    <3>2. CASE id = a
      <4> DEFINE n == Len(items[a].history)
      <4>1. items'[id] = new /\ n \in Nat /\ i \in 1..n
        BY <3>2, <1>2, <1>5, <1>7
      <4>2. new.history[i].to = items[a].history[i].to
        BY <4>1, <1>2, <1>5
      <4>3. CASE i = n
        BY <4>1, <4>2, <4>3, <1>1, <1>2, <1>5 DEF RecordsAccounted, EndsWithOwner
      <4>4. CASE i # n
        <5>1. i \in 1..(n - 1) /\ i + 1 \in 1..n
          BY <4>1, <4>4
        <5>2. new.history[i + 1] = items[a].history[i + 1]
          BY <5>1, <1>2, <1>5
        <5>3. items[a].history[i + 1].from = items[a].history[i].to
          BY <5>1, <1>1, <1>5 DEF EntriesAreSound, Chained
        <5> QED
          BY <4>1, <4>2, <5>2, <5>3
      <4> QED
        BY <4>3, <4>4
    <3> QED
      BY <3>1, <3>2
  <2> QED
    BY <2>1, <2>2 DEF Chained
<1>16. IndexesAgree'
  <2> SUFFICES ASSUME ~overlapped
               PROVE  IndexesAgree!2'
    BY <1>3 DEF IndexesAgree
  <2>1. \A id \in Id : byMaker'[id] = IF items'[id] # NoRecord THEN 1 ELSE 0
    BY <1>1, <1>2, <1>3, <1>7 DEF IndexesAgree
  <2>2. \A o \in Owner : byOwner[o][a] = IF o = from THEN 1 ELSE 0
    BY <1>1, <1>5 DEF IndexesAgree
  <2>3. \A o \in Owner : byOwner'[o][a] = IF o = to THEN 1 ELSE 0
    BY <2>2, <1>1, <1>3 DEF Listed, Unlisted, TypeOK
  <2>4. \A o \in Owner, id \in Id : id # a => byOwner'[o][id] = byOwner[o][id]
    BY <1>1, <1>3 DEF Listed, Unlisted, TypeOK
  <2>5. ASSUME NEW id \in Id, NEW o \in Owner
        PROVE  byOwner'[o][id] = IF items'[id] # NoRecord /\ items'[id].owner = o THEN 1 ELSE 0
    <3>1. CASE id = a
      BY <3>1, <2>3, <1>1, <1>2, <1>5, <1>7
    <3>2. CASE id # a
      BY <3>2, <2>4, <1>7 DEF IndexesAgree
    <3> QED
      BY <3>1, <3>2
  <2> QED
    BY <2>1, <2>5
<1> QED
  BY <1>9, <1>10, <1>11, <1>12, <1>13, <1>14, <1>15, <1>16

\* An export holds what the ledger holds.
LEMMA ExportSafe ==
   ASSUME SafeInv, Export
   PROVE  SafeInv'
<1> USE DEF SafeInv, Export, ledger
<1>1. /\ backup' \in Ledger
      /\ backup'.items = items /\ backup'.events = events
  BY DEF TypeOK, Ledger
<1>2. TypeOK'
  BY <1>1 DEF TypeOK
<1>3. BackupIsSound'
  <2>1. EndsWithOwner(backup'.items) /\ Covered(backup'.items, backup'.events)
    BY <1>1 DEF RecordsAccounted
  <2>2. ~overlapped => OnePerSerial(backup'.items) /\ Chained(backup'.items)
    BY <1>1 DEF EntriesAreSound
  <2> QED
    BY <2>1, <2>2 DEF BackupIsSound, EndsWithOwner, Covered, OnePerSerial, Chained
<1>4. CallsHold' /\ CallsAreCurrent'
  BY DEF CallsHold, CallsAreCurrent
<1>5. RecordsAccounted' /\ SerialResolves' /\ EntriesAreSound' /\ IndexesAgree'
  BY DEF RecordsAccounted, EndsWithOwner, Covered, SerialResolves, EntriesAreSound,
         OnePerSerial, Chained, IndexesAgree
<1> QED
  BY <1>2, <1>3, <1>4, <1>5

\* An import makes the ledger what the backup was, with indexes built from it.
LEMMA ImportSafe ==
   ASSUME SafeInv, Import
   PROVE  SafeInv'
<1> USE DEF SafeInv
<1>1. /\ backup \in Ledger /\ backup # NoRecord /\ backup' = backup
      /\ items' = backup.items /\ events' = backup.events /\ totals' = backup.totals
      /\ byOwner' = OwnerIndex(items') /\ byMaker' = MakerIndex(items')
      /\ bySerial' \in SerialIndexes(items')
      /\ overlapped' = (overlapped \/ Busy)
  BY DEF Import, TypeOK
<1>2. /\ items' \in [Id -> ItemRecord \cup {NoRecord}]
      /\ events' \in [EventKind -> [Id -> Nat]]
      /\ totals' \in [items : Nat, transfers : Nat, events : Nat]
  BY <1>1 DEF Ledger
<1>3. /\ task' \in [Task -> [pc : {"idle", "payment", "consensus"},
                         op : {"none", "register", "transfer", "authenticate"},
                         id : Id \cup {NoRecord}, from : Owner \cup {Maker},
                         to : Owner \cup {Maker}, live : BOOLEAN]]
      /\ \A t \in Task :
            /\ task'[t].pc = "idle" <=> task[t].pc = "idle"
            /\ task'[t].pc # "idle" => /\ task'[t].op = task[t].op /\ task'[t].id = task[t].id
                                      /\ task'[t].from = task[t].from
                                      /\ task'[t].to = task[t].to /\ ~task'[t].live
  <2> DEFINE Call == [pc : {"idle", "payment", "consensus"},
                      op : {"none", "register", "transfer", "authenticate"},
                      id : Id \cup {NoRecord}, from : Owner \cup {Maker},
                      to : Owner \cup {Maker}, live : BOOLEAN]
             Detached(t) == [task[t] EXCEPT !.live = FALSE]
  <2>1. Idle \in Call /\ Idle.pc = "idle"
    BY DEF Idle
  <2>2. ASSUME NEW t \in Task
        PROVE  /\ Detached(t) \in Call /\ Detached(t).live = FALSE
               /\ Detached(t).pc = task[t].pc /\ Detached(t).op = task[t].op
               /\ Detached(t).id = task[t].id /\ Detached(t).from = task[t].from
               /\ Detached(t).to = task[t].to
    <3>1. task[t] \in Call
      BY DEF TypeOK
    <3> HIDE DEF SafeInv
    <3> QED
      BY <3>1
  <2>3. task' = [t \in Task |-> IF task[t].pc = "idle" THEN Idle ELSE Detached(t)]
    BY DEF Import
  <2> HIDE DEF Call, Detached
  <2>4. task' \in [Task -> Call]
    BY <2>1, <2>2, <2>3
  <2>5. ASSUME NEW t \in Task
        PROVE  /\ task'[t].pc = "idle" <=> task[t].pc = "idle"
               /\ task'[t].pc # "idle" => /\ task'[t].op = task[t].op /\ task'[t].id = task[t].id
                                         /\ task'[t].from = task[t].from
                                         /\ task'[t].to = task[t].to /\ ~task'[t].live
    BY <2>1, <2>2, <2>3
  <2> QED
    BY <2>4, <2>5 DEF Call
<1>4. TypeOK'
  <2>1. byOwner' \in [Owner -> [Id -> Nat]] /\ byMaker' \in [Id -> Nat]
    BY <1>1 DEF OwnerIndex, MakerIndex
  <2>2. bySerial' \in [Serial -> Id \cup {NoRecord}]
    BY <1>1 DEF SerialIndexes
  <2>3. overlapped' \in BOOLEAN
    BY <1>1 DEF TypeOK, Busy
  <2> QED
    BY <1>1, <1>2, <1>3, <2>1, <2>2, <2>3 DEF TypeOK
<1>5. CallsHold'
  BY <1>3 DEF CallsHold
<1>6. CallsAreCurrent'
  BY <1>1, <1>3 DEF CallsAreCurrent, Busy
<1>7. BackupIsSound'
  BY <1>1 DEF BackupIsSound, EndsWithOwner, Covered, OnePerSerial, Chained
<1>8. RecordsAccounted' /\ EntriesAreSound'
  BY <1>1 DEF BackupIsSound, RecordsAccounted, EntriesAreSound, EndsWithOwner, Covered,
              OnePerSerial, Chained
<1>9. SerialResolves'
  <2>1. \A s \in Serial :
           IF \E v \in Variant : items'[<<s, v>>] # NoRecord
           THEN bySerial'[s] \in {<<s, v>> : v \in Variant} /\ items'[bySerial'[s]] # NoRecord
           ELSE bySerial'[s] = NoRecord
    BY <1>1 DEF SerialIndexes
  <2>2. ASSUME NEW id \in Id, items'[id] # NoRecord
        PROVE  bySerial'[id[1]] # NoRecord
    <3>1. id[1] \in Serial /\ id[2] \in Variant /\ id = <<id[1], id[2]>>
      BY DEF Id
    <3>2. \A v \in Variant : <<id[1], v>> # NoRecord
      BY <3>1, RegistryAssumption DEF Id
    <3> QED
      BY <2>1, <2>2, <3>1, <3>2
  <2>3. ASSUME NEW s \in Serial, bySerial'[s] # NoRecord
        PROVE  bySerial'[s][1] = s /\ items'[bySerial'[s]] # NoRecord
    <3>1. bySerial'[s] \in {<<s, v>> : v \in Variant} /\ items'[bySerial'[s]] # NoRecord
      BY <2>1, <2>3
    <3>2. PICK v \in Variant : bySerial'[s] = <<s, v>>
      BY <3>1
    <3> QED
      BY <3>1, <3>2
  <2> QED
    BY <2>2, <2>3 DEF SerialResolves
<1>10. IndexesAgree'
  BY <1>1 DEF IndexesAgree, OwnerIndex, MakerIndex
<1> QED
  BY <1>4, <1>5, <1>6, <1>7, <1>8, <1>9, <1>10

-----------------------------------------------------------------------------
\* Every step of the registry keeps the invariant.
LEMMA StepSafe == SafeInv /\ [Next]_vars => SafeInv'
<1> SUFFICES ASSUME SafeInv, [Next]_vars PROVE SafeInv'
  OBVIOUS
<1>1. ASSUME NEW t \in Task, TaskStep(t) PROVE SafeInv'
  <2>1. ASSUME NEW id \in Id, NEW o \in Owner, Register(t, id, o) \/ Transfer(t, id, o)
        PROVE  SafeInv'
    BY <2>1, BeginSafe
  <2>2. ASSUME NEW id \in Id, Authenticate(t, id) PROVE SafeInv'
    <3>1. CASE Owner = {}
      BY <3>1, <2>2 DEF Authenticate, SafeInv, TypeOK, ItemRecord
    <3>2. CASE Owner # {}
      BY <3>2, <2>2, BeginSafe
    <3> QED
      BY <3>1, <3>2
  <2> QED
    BY <1>1, <2>1, <2>2, RegisteredSafe, PaidSafe, TransferredSafe, AuthenticatedSafe DEF TaskStep
<1>2. CASE UNCHANGED vars
  <2> USE <1>2 DEF vars, ledger, SafeInv
  <2>1. TypeOK'
    BY DEF TypeOK
  <2>2. CallsHold' /\ CallsAreCurrent'
    BY DEF CallsHold, CallsAreCurrent
  <2>3. LedgerIsSound' /\ BackupIsSound'
    BY BeginKeepsLedger DEF TypeOK
  <2> QED
    BY <2>1, <2>2, <2>3 DEF LedgerIsSound
<1> QED
  BY <1>1, <1>2, ExportSafe, ImportSafe DEF Next

\* The registry always satisfies the inductive invariant.
THEOREM SafeInvariant == Spec => []SafeInv
  BY InitSafe, StepSafe, PTL DEF Spec

\* The types hold in every execution; no list holds an item negatively often.
THEOREM TypeCorrect == Spec => []TypeOK
<1>1. SafeInv => TypeOK
  BY DEF SafeInv
<1> QED
  BY <1>1, SafeInvariant, PTL

\* Whatever calls and imports overlap: the events account for the records, whose
\* histories end with their owners, and a taken serial number resolves.
THEOREM OverlapsKeepAccount == Spec => [](RecordsAccounted /\ SerialResolves)
<1>1. SafeInv => RecordsAccounted /\ SerialResolves
  BY DEF SafeInv
<1> QED
  BY <1>1, SafeInvariant, PTL

\* As long as no calls overlap: one entry per serial number and histories without
\* a gap, imports included.
THEOREM QuietEntriesAreSound == Spec => []EntriesAreSound
<1>1. SafeInv => EntriesAreSound
  BY DEF SafeInv
<1> QED
  BY <1>1, SafeInvariant, PTL

\* As long as no calls overlap: the indexes say what the records say, after every
\* transfer, authentication and import.
THEOREM QuietIndexesAgree == Spec => []IndexesAgree
<1>1. SafeInv => IndexesAgree
  BY DEF SafeInv
<1> QED
  BY <1>1, SafeInvariant, PTL
=============================================================================
