-------------------------- MODULE OperatorNodeSerial --------------------------
(***************************************************************************)
(* What a node promises about an item as long as no two requests about the *)
(* same item are in progress at once.  submitEvent takes no lock, so this  *)
(* is a hypothesis about the callers, Apart, and not an assumption on the  *)
(* constants: requests about different items still overlap, readers        *)
(* overlap with everything, and the process may die at every await.        *)
(***************************************************************************)
EXTENDS OperatorNodeProofs, FiniteSetTheorems

Busy(t) == task[t].pc # "idle"

\* Requests in progress at the same time are about different items.
Apart ==
   \A t, u \in Task :
      t # u /\ Busy(t) /\ Busy(u) => Body[task[t].ev].item # Body[task[u].ev].item

\* submitEvent validates e against the record of its item.
Moves(e) == Type(e) \notin {"ITEM_MINTED", "ITEM_AUTHENTICATED", "AUTHENTICATOR_REGISTERED"}

\* What a request alone on its item still knows when it resumes: the record it
\* has validated against and the index it has read are those on disk.
Current(t) ==
   LET q == task[t]
       e == q.ev
       i == Body[e].item
       k == q.kind
   IN
   /\ q.pc = "readParty" /\ Moves(e) => q.rec = item[i]
   /\ q.pc \notin {"idle", "readItem", "answer"} /\ Moves(e) => item[i] # NoItem
   /\ q.pc \notin {"idle", "readItem", "readParty", "answer"} /\ Moves(e) =>
         ValidateTransition(item[i], Body[e])
   /\ q.pc \in {"truncItem", "writeItem"} =>
         /\ Type(e) # "AUTHENTICATOR_REGISTERED"
         /\ Moves(e) => q.rec = ApplyEvent(item[i], e, Body[e])
   /\ q.pc = "reread" => Moves(e)
   /\ q.pc = "writeItem" => itemSt[i] = "empty"
   /\ q.pc \in {"truncIndex", "writeIndex"} => q.ids = index[k][i]
   /\ q.pc = "writeIndex" => indexSt[k][i] = "empty"
   /\ q.pc \in {"reread", "truncItem", "writeItem"} => e \in index["events"][i]

\* The record of an item is always covered by its index.
Covered(i) ==
   /\ item[i] # NoItem =>
         itemSt[i] # "absent" /\ item[i].last \in index["events"][i]
   /\ \A k \in Kind : indexSt[k][i] = "absent" => index[k][i] = {}
   /\ \A e \in index["events"][i] : Stored(e)
   /\ Linked(index["events"][i])

\* What getItemProof has read, and what it still has to read, is linked.
ReaderSafe(r) ==
   LET q == reader[r]
       all == q.left \cup q.events
   IN
   /\ q.pc = "readIndex" =>
         /\ all = {}
         /\ q.rec # NoItem => q.rec.last \in index["events"][q.item]
   /\ q.pc \in {"readFiles", "done"} =>
         /\ q.rec # NoItem => q.rec.last \in all
         /\ \A e \in all : Stored(e)
         /\ Linked(all)
   /\ q.pc = "done" => q.left = {}

SerialInv ==
   /\ SafeInv
   /\ \A t \in Task : Current(t)
   /\ \A i \in Item : Covered(i)
   /\ \A r \in Reader : ReaderSafe(r)

\* An event has effect at most once: what took effect after a mint is behind
\* the record that goes back to that mint.
Passed(e) ==
   LET i == Body[e].item IN
   e \in done /\ Type(e) \in ChainType =>
      /\ Replay[e].mint \in done
      /\ item[i] # NoItem
      /\ Replay[e].mint = item[i].mint => Body[e].height <= item[i].height

\* Every chain event that took effect is behind the record of its item.
ChainsBehind ==
   /\ \A e \in Event : Passed(e)
   /\ \A i \in Item : item[i] # NoItem => item[i].mint \in done

\* A mint that is sent once takes effect by the request that carries it or never.
MintsPending ==
   /\ \A e \in OneShot : e \in done => e \in sent
   /\ \A t \in Task : Busy(t) /\ task[t].ev \in OneShot =>
         /\ task[t].ev \in sent
         /\ Type(task[t].ev) = "ITEM_MINTED" /\ task[t].pc # "answer" => task[t].ev \notin done

\* Of two events with one predecessor at most one has taken effect.
NoDoneFork ==
   \A e, f \in Event :
      {e, f} \subseteq done /\ {Type(e), Type(f)} \subseteq ChainType
      /\ Body[e].prev = Body[f].prev => e = f

ForkInv == SerialInv /\ NoDoneFork /\ ChainsBehind /\ MintsPending

-----------------------------------------------------------------------------
(* What an operation leaves alone *)

\* Nothing changes outside item i, and the index of i grows.
Elsewhere(i) ==
   \A j \in Item :
      /\ j # i => /\ item'[j] = item[j] /\ itemSt'[j] = itemSt[j]
                  /\ \A k \in Kind : index'[k][j] = index[k][j] /\ indexSt'[k][j] = indexSt[k][j]
      /\ itemSt[j] # "absent" => itemSt'[j] # "absent"
      /\ index["events"][j] \subseteq index'["events"][j]

\* A request in progress has an event, and its event an item.
LEMMA BusyEvent ==
   ASSUME SafeInv, NEW t \in Task, Busy(t)
   PROVE  /\ task[t] \in TaskRecord /\ task[t].ev \in Event /\ task[t].kind \in Kind
          /\ Body[task[t].ev] \in EventBody /\ Body[task[t].ev].item \in Item
BY BodyAssumption DEF SafeInv, TypeOK, TaskOK, TaskRecord, EventBody, Busy

\* A request that does not move still knows what it knew, if its item is as it was.
LEMMA KeepCurrent ==
   ASSUME SafeInv, NEW u \in Task, Current(u), task'[u] = task[u],
          Busy(u) => LET i == Body[task[u].ev].item IN
             /\ item'[i] = item[i] /\ itemSt'[i] = itemSt[i]
             /\ \A k \in Kind : index'[k][i] = index[k][i] /\ indexSt'[k][i] = indexSt[k][i]
   PROVE  Current(u)'
<1>1. CASE ~Busy(u) BY <1>1 DEF Current, Busy
<1>2. CASE Busy(u)
  <2>1. task[u].kind \in Kind /\ "events" \in Kind BY <1>2, BusyEvent DEF Kind
  <2>2. QED BY <1>2, <2>1 DEF Current
<1>3. QED BY <1>1, <1>2

\* A free slot knows nothing.
LEMMA IdleCurrent ==
   ASSUME NEW u \in Task, task'[u] = Idle
   PROVE  Current(u)'
BY DEF Current, Idle

\* The index still covers an item whose record and index are as they were.
LEMMA KeepCovered ==
   ASSUME Grows, NEW i \in Item, Covered(i), SafeInv,
          item'[i] = item[i], itemSt[i] # "absent" => itemSt'[i] # "absent",
          \A k \in Kind : index'[k][i] = index[k][i]
   PROVE  Covered(i)'
<1>1. "events" \in Kind BY DEF Kind
<1>2. index["events"][i] \subseteq Event BY <1>1 DEF SafeInv, TypeOK
<1>3. index'["events"][i] = index["events"][i] BY <1>1
<1>4. item'[i] # NoItem => itemSt'[i] # "absent" /\ item'[i].last \in index'["events"][i]
  BY <1>3 DEF Covered
<1>5. \A k \in Kind : indexSt'[k][i] = "absent" => index'[k][i] = {}
  BY DEF Covered, Grows
<1>6. \A e \in index'["events"][i] : Stored(e)'
  BY <1>1, <1>2, <1>3 DEF Covered, Grows, Stored
<1>7. Linked(index["events"][i])' BY <1>3 DEF Covered, Linked
<1>8. QED BY <1>4, <1>5, <1>6, <1>7 DEF Covered

\* What a reader holds stays linked while files and indexes grow.
LEMMA KeepReader ==
   ASSUME SafeInv, Grows, NEW r \in Reader, ReaderSafe(r), reader'[r] = reader[r],
          \A i \in Item : index["events"][i] \subseteq index'["events"][i]
   PROVE  ReaderSafe(r)'
<1> DEFINE q == reader[r]
           all == q.left \cup q.events
<1>1. "events" \in Kind BY DEF Kind
<1>2. q \in ReaderRecord /\ (q.pc = "readIndex" => q.item \in Item) BY DEF SafeInv, TypeOK
<1>3. all \subseteq Event BY <1>2 DEF ReaderRecord
<1>4. \A e \in all : Stored(e) => Stored(e)' BY <1>1, <1>3 DEF Grows, Stored
<1>5. QED BY <1>2, <1>4 DEF ReaderSafe, Linked

-----------------------------------------------------------------------------
(* What each operation of a request does to its own item *)

Own(t, i) == Current(t) /\ Covered(i) /\ Elsewhere(i)

\* A request that only reads: it ends, or goes on with what it has read.
LEMMA ReadOwn ==
   ASSUME SerialInv, Grows, NEW t \in Task, NEW i \in Item, UNCHANGED disk, Current(t)'
   PROVE  Current(t)' /\ Covered(i)' /\ Elsewhere(i)
<1>1. Covered(i)' BY KeepCovered DEF SerialInv, disk
<1>2. QED BY <1>1 DEF Elsewhere, disk

\* A request whose work ends, accepted or not, knows nothing more.
LEMMA EndCurrent ==
   ASSUME SafeInv, NEW t \in Task, Refuse(t) \/ Accept(t)
   PROVE  Current(t)'
<1>1. task'[t] = Idle \/ task'[t] = [Idle EXCEPT !.pc = "answer", !.ev = task[t].ev]
  BY DEF Refuse, Accept, SafeInv, TypeOK
<1>2. CASE task'[t] = Idle
  <2>1. task'[t].pc = "idle" BY <1>2 DEF Idle
  <2>2. QED BY <2>1 DEF Current
<1>3. CASE task'[t] = [Idle EXCEPT !.pc = "answer", !.ev = task[t].ev]
  <2>1. task'[t].pc = "answer" BY <1>3 DEF Idle
  <2>2. QED BY <2>1 DEF Current
<1>4. QED BY <1>1, <1>2, <1>3

\* getItem of validateEvent: the request validates against the present record.
LEMMA ReadItemOwn ==
   ASSUME SerialInv, Grows, NEW t \in Task, NEW e \in Event, e = task[t].ev, ReadItem(t)
   PROVE  Current(t)' /\ Covered(Body[e].item)' /\ Elsewhere(Body[e].item)
<1> DEFINE i == Body[e].item
<1>1. i \in Item BY BodyAssumption DEF EventBody
<1>2. UNCHANGED disk BY DEF ReadItem
<1>3. CASE Refuse(t) BY <1>1, <1>2, <1>3, EndCurrent, ReadOwn DEF SerialInv
<1>4. CASE ~Refuse(t)
  <2>1. /\ itemSt[i] = "whole"
        /\ task' = [task EXCEPT ![t].pc = "readParty", ![t].rec = item[i]]
    BY <1>4 DEF ReadItem
  <2>2. task[t] \in TaskRecord /\ item[i] # NoItem BY <1>1, <2>1 DEF SerialInv, SafeInv, TypeOK
  <2>3. task'[t].pc = "readParty" /\ task'[t].ev = e /\ task'[t].rec = item[i]
    BY <2>1, <2>2 DEF SerialInv, SafeInv, TypeOK, TaskRecord
  <2>4. item' = item BY <1>2 DEF disk
  <2>5. Current(t)' BY <2>2, <2>3, <2>4 DEF Current
  <2>6. QED BY <1>1, <1>2, <2>5, ReadOwn
<1>5. QED BY <1>3, <1>4

\* The verdict: a chain event is legal for the record on disk.
LEMMA ReadPartyOwn ==
   ASSUME SerialInv, Grows, NEW t \in Task, NEW e \in Event, e = task[t].ev, ReadParty(t)
   PROVE  Current(t)' /\ Covered(Body[e].item)' /\ Elsewhere(Body[e].item)
<1> DEFINE i == Body[e].item
<1>1. i \in Item BY BodyAssumption DEF EventBody
<1>2. UNCHANGED disk BY DEF ReadParty
<1>3. CASE Refuse(t) BY <1>1, <1>2, <1>3, EndCurrent, ReadOwn DEF SerialInv
<1>4. CASE ~Refuse(t)
  <2>1. /\ task[t].pc = "readParty" /\ Valid(t)
        /\ task' = [task EXCEPT ![t].pc = "truncFile"]
    BY <1>4 DEF ReadParty, Goto
  <2>2. task[t] \in TaskRecord BY DEF SerialInv, SafeInv, TypeOK
  <2>3. task'[t].pc = "truncFile" /\ task'[t].ev = e
    BY <2>1, <2>2 DEF SerialInv, SafeInv, TypeOK, TaskRecord
  <2>4. Moves(e) => task[t].rec = item[i] /\ item[i] # NoItem
    BY <2>1 DEF SerialInv, Current
  <2>5. Type(e) # "AUTHENTICATOR_REGISTERED"
        => (Moves(e) => ValidateTransition(task[t].rec, Body[e]))
    BY <2>1 DEF Valid, Moves
  <2>6. Moves(e) => item[i] # NoItem /\ ValidateTransition(item[i], Body[e])
    BY <2>4, <2>5 DEF Moves
  <2>7. item' = item BY <1>2 DEF disk
  <2>8. Current(t)' BY <2>3, <2>6, <2>7 DEF Current
  <2>9. QED BY <1>1, <1>2, <2>8, ReadOwn
<1>5. QED BY <1>3, <1>4

\* saveEvent and saveAttestation: the file of the event is nobody else's.
LEMMA SaveFileOwn ==
   ASSUME SerialInv, Grows, NEW t \in Task, NEW e \in Event, e = task[t].ev,
          TruncFile(t) \/ WriteFile(t)
   PROVE  Current(t)' /\ Covered(Body[e].item)' /\ Elsewhere(Body[e].item)
<1> DEFINE i == Body[e].item
<1>1. i \in Item BY BodyAssumption DEF EventBody
<1>2. /\ UNCHANGED <<indexSt, index, itemSt, item>>
      /\ task[t].pc \in {"truncFile", "writeFile"}
      /\ task' = [task EXCEPT ![t].pc = "writeFile"] \/ task' = [task EXCEPT ![t].pc = "readIndex"]
  BY DEF TruncFile, WriteFile, Goto
<1>3. task[t] \in TaskRecord BY DEF SerialInv, SafeInv, TypeOK
<1>4. task'[t].pc \in {"writeFile", "readIndex"} /\ task'[t].ev = e
  BY <1>2, <1>3 DEF SerialInv, SafeInv, TypeOK, TaskRecord
<1>5. Moves(e) => item[i] # NoItem /\ ValidateTransition(item[i], Body[e])
  BY <1>2 DEF SerialInv, Current
<1>6. Current(t)' BY <1>2, <1>4, <1>5 DEF Current
<1>7. Covered(i)' BY <1>1, <1>2, KeepCovered DEF SerialInv
<1>8. QED BY <1>2, <1>6, <1>7 DEF Elsewhere

\* What the request knows when it goes on after a save: its event is listed.
LEMMA AfterSaveCurrent ==
   ASSUME SerialInv, NEW t \in Task, NEW e \in Event, e = task[t].ev,
          task[t].pc \in {"readIndex", "writeIndex"}, AfterSave(t), UNCHANGED item,
          task[t].kind = "events" => e \in index'["events"][Body[e].item]
   PROVE  Current(t)'
<1> DEFINE i == Body[e].item
<1>1. task[t] \in TaskRecord /\ task \in [Task -> TaskRecord] BY DEF SerialInv, SafeInv, TypeOK
<1>2. CASE Accept(t) BY <1>2, EndCurrent DEF SerialInv
<1>3. CASE ~Accept(t)
  <2>1. Type(e) # "AUTHENTICATOR_REGISTERED" /\ task[t].kind = "events"
    BY <1>1, <1>3 DEF AfterSave, TaskRecord, Kind
  <2>2. Moves(e) => item[i] # NoItem /\ ValidateTransition(item[i], Body[e])
    BY DEF SerialInv, Current
  <2>3. CASE Type(e) = "ITEM_AUTHENTICATED"
    <3>1. task' = [task EXCEPT ![t].pc = "truncFile", ![t].kind = "attestations", ![t].ids = {}]
      BY <1>3, <2>3 DEF AfterSave
    <3>2. task'[t].pc = "truncFile" /\ task'[t].ev = e BY <1>1, <3>1 DEF TaskRecord
    <3>3. QED BY <2>3, <3>2 DEF Current, Moves
  <2>4. CASE Type(e) = "ITEM_MINTED"
    <3>1. task' = [task EXCEPT ![t].pc = "truncItem", ![t].rec = Minted(e), ![t].ids = {}]
      BY <1>3, <2>4 DEF AfterSave, NewRecord
    <3>2. task'[t].pc = "truncItem" /\ task'[t].ev = e BY <1>1, <3>1 DEF TaskRecord
    <3>3. QED BY <2>1, <2>4, <3>2 DEF Current, Moves
  <2>5. CASE Type(e) \notin {"ITEM_AUTHENTICATED", "ITEM_MINTED"}
    <3>1. task' = [task EXCEPT ![t].pc = "reread", ![t].ids = {}]
      BY <1>3, <2>5 DEF AfterSave
    <3>2. task'[t].pc = "reread" /\ task'[t].ev = e BY <1>1, <3>1 DEF TaskRecord
    <3>3. QED BY <2>1, <2>2, <2>5, <3>2 DEF Current, Moves
  <2>6. QED BY <2>3, <2>4, <2>5
<1>4. QED BY <1>2, <1>3

\* The list of ids is read: an index without a file is empty.
LEMMA ReadIndexOwn ==
   ASSUME SerialInv, Grows, NEW t \in Task, NEW e \in Event, e = task[t].ev, ReadIndex(t)
   PROVE  Current(t)' /\ Covered(Body[e].item)' /\ Elsewhere(Body[e].item)
<1> DEFINE i == Body[e].item
           k == task[t].kind
<1>1. i \in Item /\ k \in Kind /\ task[t] \in TaskRecord
  BY BodyAssumption DEF EventBody, SerialInv, SafeInv, TypeOK, TaskRecord
<1>2. UNCHANGED disk /\ task[t].pc = "readIndex" BY DEF ReadIndex
<1>3. CASE Refuse(t) BY <1>1, <1>2, <1>3, EndCurrent, ReadOwn DEF SerialInv
<1>4. CASE e \in index[k][i] /\ AfterSave(t)
  <2>1. Current(t)' BY <1>2, <1>4, AfterSaveCurrent DEF disk
  <2>2. QED BY <1>1, <1>2, <2>1, ReadOwn
<1>5. CASE /\ indexSt[k][i] \in {"absent", "whole"}
           /\ task' = [task EXCEPT ![t].pc = "truncIndex",
                          ![t].ids = IF indexSt[k][i] = "whole" THEN index[k][i] ELSE {}]
  <2>1. indexSt[k][i] = "absent" => index[k][i] = {} BY <1>1 DEF SerialInv, Covered
  <2>2. task'[t].pc = "truncIndex" /\ task'[t].ev = e /\ task'[t].kind = k
        /\ task'[t].ids = index[k][i]
    BY <1>1, <1>5, <2>1 DEF SerialInv, SafeInv, TypeOK, TaskRecord
  <2>3. Moves(e) => item[i] # NoItem /\ ValidateTransition(item[i], Body[e])
    BY <1>2 DEF SerialInv, Current
  <2>4. Current(t)' BY <1>2, <2>2, <2>3 DEF Current, disk
  <2>5. QED BY <1>1, <1>2, <2>4, ReadOwn
<1>6. QED BY <1>3, <1>4, <1>5 DEF ReadIndex, NoIndexYet

\* The index is opened; the ids read before are those last written.
LEMMA TruncIndexOwn ==
   ASSUME SerialInv, Grows, NEW t \in Task, NEW e \in Event, e = task[t].ev, TruncIndex(t)
   PROVE  Current(t)' /\ Covered(Body[e].item)' /\ Elsewhere(Body[e].item)
<1> DEFINE i == Body[e].item
           k == task[t].kind
<1>1. i \in Item /\ k \in Kind /\ task[t] \in TaskRecord
  BY BodyAssumption DEF EventBody, SerialInv, SafeInv, TypeOK, TaskRecord
<1>2. /\ task[t].pc = "truncIndex" /\ UNCHANGED <<index, itemSt, item>>
      /\ indexSt' = [indexSt EXCEPT ![k][i] = "empty"]
      /\ task' = [task EXCEPT ![t].pc = "writeIndex"]
  BY DEF TruncIndex, Goto
<1>3. task'[t].pc = "writeIndex" /\ task'[t].ev = e /\ task'[t].kind = k
      /\ task'[t].ids = task[t].ids
  BY <1>1, <1>2 DEF SerialInv, SafeInv, TypeOK, TaskRecord
<1>4. indexSt'[k][i] = "empty" BY <1>1, <1>2 DEF SerialInv, SafeInv, TypeOK
<1>5. /\ task[t].ids = index[k][i]
      /\ Moves(e) => item[i] # NoItem /\ ValidateTransition(item[i], Body[e])
  BY <1>2 DEF SerialInv, Current
<1>6. Current(t)' BY <1>2, <1>3, <1>4, <1>5 DEF Current
<1>7. Covered(i)' BY <1>1, <1>2, KeepCovered DEF SerialInv
<1>8. Elsewhere(i)
  BY <1>1, <1>2 DEF Elsewhere, SerialInv, SafeInv, TypeOK
<1>9. QED BY <1>6, <1>7, <1>8

\* The list is written with the event appended: nothing is lost from it, and
\* the event's predecessor is in it.
LEMMA WriteIndexOwn ==
   ASSUME SerialInv, Grows, NEW t \in Task, NEW e \in Event, e = task[t].ev, WriteIndex(t)
   PROVE  Current(t)' /\ Covered(Body[e].item)' /\ Elsewhere(Body[e].item)
<1> DEFINE i == Body[e].item
           k == task[t].kind
<1>1. i \in Item /\ k \in Kind /\ "events" \in Kind
      /\ indexSt \in [Kind -> [Item -> FileState]]
      /\ index \in [Kind -> [Item -> SUBSET Event]]
  BY BodyAssumption DEF EventBody, SerialInv, SafeInv, TypeOK, TaskRecord, Kind
<1>2. /\ task[t].pc = "writeIndex" /\ AfterSave(t) /\ UNCHANGED <<fileSt, itemSt, item>>
      /\ indexSt[k][i] = "empty" /\ task[t].ids = index[k][i]
  BY DEF WriteIndex, SerialInv, Current
<1>3. /\ indexSt' = [indexSt EXCEPT ![k][i] = "whole"]
      /\ index' = [index EXCEPT ![k][i] = index[k][i] \cup {e}]
  BY <1>2 DEF WriteIndex, Lands, Appended
<1>4. /\ index'[k][i] = index[k][i] \cup {e} /\ indexSt'[k][i] = "whole"
      /\ \A h \in Kind : h # k => index'[h][i] = index[h][i] /\ indexSt'[h][i] = indexSt[h][i]
      /\ \A j \in Item : j # i =>
            \A h \in Kind : index'[h][j] = index[h][j] /\ indexSt'[h][j] = indexSt[h][j]
  BY <1>1, <1>3
<1>5. Current(t)' BY <1>2, <1>4, AfterSaveCurrent
<1>6. Stored(e)' BY <1>2, PastFile DEF SerialInv
<1>7. Covered(i) BY <1>1 DEF SerialInv
<1>8. Type(e) \in ChainType => Body[e].prev \in index["events"][i]
  <2>1. Type(e) \in ChainType => item[i] # NoItem /\ ValidateTransition(item[i], Body[e])
    BY <1>2 DEF SerialInv, Current, Moves, ChainType
  <2>2. QED BY <1>7, <2>1 DEF Covered, ValidateTransition
<1>9. index'["events"][i] \in {index["events"][i], index["events"][i] \cup {e}}
  BY <1>1, <1>4
<1>10. Linked(index["events"][i])'
  BY <1>7, <1>8, <1>9 DEF Covered, Linked
<1>11. \A f \in index'["events"][i] : Stored(f)'
  <2>1. \A f \in index["events"][i] : Stored(f) BY <1>7 DEF Covered
  <2>2. \A f \in index["events"][i] : Stored(f)' BY <1>2, <2>1 DEF Stored
  <2>3. QED BY <1>6, <1>9, <2>2
<1>12. item'[i] # NoItem => itemSt'[i] # "absent" /\ item'[i].last \in index'["events"][i]
  BY <1>2, <1>7, <1>9 DEF Covered
<1>13. ASSUME NEW h \in Kind, indexSt'[h][i] = "absent" PROVE index'[h][i] = {}
  <2>1. h # k /\ index'[h][i] = index[h][i] /\ indexSt[h][i] = "absent" BY <1>4, <1>13
  <2>2. QED BY <1>7, <2>1 DEF Covered
<1>14. Covered(i)' BY <1>10, <1>11, <1>12, <1>13 DEF Covered
<1>15. Elsewhere(i) BY <1>1, <1>2, <1>4, <1>9 DEF Elsewhere
<1>16. QED BY <1>5, <1>14, <1>15

\* updateItemState reads the item again: it is as it was when it was validated.
LEMMA RereadOwn ==
   ASSUME SerialInv, Grows, NEW t \in Task, NEW e \in Event, e = task[t].ev, Reread(t)
   PROVE  Current(t)' /\ Covered(Body[e].item)' /\ Elsewhere(Body[e].item)
<1> DEFINE i == Body[e].item
<1>1. i \in Item /\ task[t] \in TaskRecord
  BY BodyAssumption DEF EventBody, SerialInv, SafeInv, TypeOK
<1>2. UNCHANGED disk /\ task[t].pc = "reread" BY DEF Reread
<1>3. CASE Refuse(t) \/ Accept(t) BY <1>1, <1>2, <1>3, EndCurrent, ReadOwn DEF SerialInv
<1>4. CASE /\ itemSt[i] = "whole" /\ ValidateTransition(item[i], Body[e])
           /\ task' = [task EXCEPT ![t].pc = "truncItem",
                                   ![t].rec = ApplyEvent(item[i], e, Body[e])]
  <2>1. item[i] \in ItemRecord BY <1>1, <1>4 DEF SerialInv, SafeInv, TypeOK
  <2>2. Type(e) \in ChainType /\ item[i] # NoItem
    BY <1>4, <2>1, ApplyType, NullAssumption DEF Type
  <2>3. PICK rec : rec = ApplyEvent(item[i], e, Body[e]) OBVIOUS
  <2>4. task'[t].pc = "truncItem" /\ task'[t].ev = e /\ task'[t].rec = rec
    BY <1>1, <1>4, <2>3 DEF SerialInv, SafeInv, TypeOK, TaskRecord
  <2>5. e \in index["events"][i] BY <1>2 DEF SerialInv, Current
  <2>6. Type(e) # "AUTHENTICATOR_REGISTERED" BY <2>2 DEF ChainType
  <2>7. item' = item /\ index' = index BY <1>2 DEF disk
  <2>8. Current(t)' BY <1>4, <2>2, <2>3, <2>4, <2>5, <2>6, <2>7 DEF Current
  <2>9. QED BY <1>1, <1>2, <2>8, ReadOwn
<1>5. QED BY <1>3, <1>4 DEF Reread

\* The item's file is opened and is empty until this request has written it.
LEMMA TruncItemOwn ==
   ASSUME SerialInv, Grows, NEW t \in Task, NEW e \in Event, e = task[t].ev, TruncItem(t)
   PROVE  Current(t)' /\ Covered(Body[e].item)' /\ Elsewhere(Body[e].item)
<1> DEFINE i == Body[e].item
<1>1. i \in Item /\ task[t] \in TaskRecord /\ itemSt \in [Item -> FileState]
  BY BodyAssumption DEF EventBody, SerialInv, SafeInv, TypeOK
<1>2. task[t].pc = "truncItem" BY DEF TruncItem
<1>3. task[t].rec.item = i BY <1>2 DEF SerialInv, SafeInv, TaskSafe
<1>4. /\ UNCHANGED <<index, indexSt, item>>
      /\ itemSt' = [itemSt EXCEPT ![i] = "empty"]
      /\ task' = [task EXCEPT ![t].pc = "writeItem"]
  BY <1>3 DEF TruncItem, OpenTruncated, Goto
<1>5. task'[t].pc = "writeItem" /\ task'[t].ev = e /\ task'[t].rec = task[t].rec
  BY <1>1, <1>4 DEF SerialInv, SafeInv, TypeOK, TaskRecord
<1>6. itemSt'[i] = "empty" BY <1>1, <1>4
<1>7. /\ Type(e) # "AUTHENTICATOR_REGISTERED" /\ e \in index["events"][i]
      /\ Moves(e) => /\ item[i] # NoItem /\ ValidateTransition(item[i], Body[e])
                     /\ task[t].rec = ApplyEvent(item[i], e, Body[e])
  BY <1>2 DEF SerialInv, Current
<1>8. Current(t)' BY <1>4, <1>5, <1>6, <1>7 DEF Current
<1>9. Covered(i)' BY <1>1, <1>4, <1>6, KeepCovered DEF SerialInv
<1>10. Elsewhere(i) BY <1>1, <1>4 DEF Elsewhere
<1>11. QED BY <1>8, <1>9, <1>10

\* The record is written whole, and its last event is in the index.
LEMMA WriteItemOwn ==
   ASSUME SerialInv, Grows, NEW t \in Task, NEW e \in Event, e = task[t].ev, WriteItem(t)
   PROVE  /\ Current(t)' /\ Covered(Body[e].item)' /\ Elsewhere(Body[e].item)
          /\ item' = [item EXCEPT ![Body[e].item] = task[t].rec]
          /\ task[t].rec.last = e
<1> DEFINE i == Body[e].item
<1>1. /\ i \in Item /\ itemSt \in [Item -> FileState] /\ "events" \in Kind
      /\ item \in [Item -> ItemRecord \cup {NoItem}]
  BY BodyAssumption DEF EventBody, SerialInv, SafeInv, TypeOK, Kind
<1>2. task[t].pc = "writeItem" /\ Accept(t) /\ UNCHANGED <<fileSt, indexSt, index>>
  BY DEF WriteItem
<1>3. task[t].rec.item = i /\ task[t].rec.last = e
  BY <1>2 DEF SerialInv, SafeInv, TaskSafe
<1>4. itemSt[i] = "empty" /\ e \in index["events"][i] BY <1>2 DEF SerialInv, Current
<1>5. /\ itemSt' = [itemSt EXCEPT ![i] = "whole"]
      /\ item' = [item EXCEPT ![i] = task[t].rec]
  BY <1>3, <1>4 DEF WriteItem, Lands
<1>6. Current(t)' BY <1>2, EndCurrent DEF SerialInv
<1>7. Covered(i) BY <1>1 DEF SerialInv
<1>8. item'[i].last \in index'["events"][i] /\ itemSt'[i] # "absent"
  BY <1>1, <1>2, <1>3, <1>4, <1>5
<1>9. Linked(index["events"][i])' BY <1>2, <1>7 DEF Covered, Linked
<1>10. \A f \in index'["events"][i] : Stored(f)' BY <1>2, <1>7 DEF Covered, Stored
<1>11. Covered(i)' BY <1>2, <1>7, <1>8, <1>9, <1>10 DEF Covered
<1>12. Elsewhere(i) BY <1>1, <1>2, <1>5 DEF Elsewhere
<1>13. QED BY <1>3, <1>5, <1>6, <1>11, <1>12

\* The answer touches no file.
LEMMA AnswerOwn ==
   ASSUME SerialInv, Grows, NEW t \in Task, NEW i \in Item, Answer(t)
   PROVE  Current(t)' /\ Covered(i)' /\ Elsewhere(i)
<1>1. UNCHANGED disk /\ task'[t] = Idle BY DEF Answer, SerialInv, SafeInv, TypeOK
<1>2. QED BY <1>1, IdleCurrent, ReadOwn

-----------------------------------------------------------------------------
(* The invariant is inductive while requests are apart *)

\* The operations are those of a request in progress.
LEMMA StepBusy ==
   ASSUME NEW t \in Task, TaskStep(t)
   PROVE  Busy(t)
BY DEF Busy, TaskStep, ReadItem, ReadParty, TruncFile, WriteFile, ReadIndex, TruncIndex,
       WriteIndex, Reread, TruncItem, WriteItem, Answer

\* Every operation of a request does its own item good and no other harm.
LEMMA TaskStepOwn ==
   ASSUME SerialInv, NEW t \in Task, NEW i \in Item, i = Body[task[t].ev].item, TaskStep(t)
   PROVE  Grows /\ Current(t)' /\ Covered(i)' /\ Elsewhere(i)
<1>1. Grows BY TaskStepGrows DEF SerialInv, SafeInv
<1>2. Busy(t) BY StepBusy
<1>3. PICK e \in Event : e = task[t].ev /\ i = Body[e].item BY <1>2, BusyEvent DEF SerialInv
<1>4. Current(t)' /\ Covered(i)' /\ Elsewhere(i)
  BY <1>1, <1>3, ReadItemOwn, ReadPartyOwn, SaveFileOwn, ReadIndexOwn, TruncIndexOwn,
     WriteIndexOwn, RereadOwn, TruncItemOwn, WriteItemOwn, AnswerOwn DEF TaskStep
<1>5. QED BY <1>1, <1>4

\* A request is alone on its item, so the others keep what they know.
LEMMA TaskStepSerial ==
   ASSUME SerialInv, Apart, NEW t \in Task, TaskStep(t)
   PROVE  SerialInv'
<1>0. Busy(t) BY StepBusy
<1>3. PICK i \in Item : i = Body[task[t].ev].item BY <1>0, BusyEvent DEF SerialInv
<1>1. Grows /\ Current(t)' /\ Covered(i)' /\ Elsewhere(i) BY <1>3, TaskStepOwn
<1>2. SafeInv' BY TaskStepSafe DEF SerialInv
<1>4. ASSUME NEW u \in Task, u # t PROVE Current(u)'
  <2>1. task'[u] = task[u]
    BY <1>4 DEF TaskStep, ReadItem, ReadParty, TruncFile, WriteFile, ReadIndex, TruncIndex,
         WriteIndex, Reread, TruncItem, WriteItem, Answer, AfterSave, Refuse, Accept, Goto,
         SerialInv, SafeInv, TypeOK
  <2>2. CASE ~Busy(u)
    BY <2>1, <2>2, KeepCurrent DEF SerialInv
  <2>3. CASE Busy(u)
    <3>1. Body[task[u].ev].item \in Item BY <2>3, BusyEvent DEF SerialInv
    <3>2. Body[task[u].ev].item # i BY <1>0, <1>3, <1>4, <2>3 DEF Apart
    <3>3. QED BY <1>1, <2>1, <3>1, <3>2, KeepCurrent DEF SerialInv, Elsewhere
  <2>4. QED BY <2>2, <2>3
<1>5. ASSUME NEW j \in Item, j # i PROVE Covered(j)'
  BY <1>1, <1>5, KeepCovered DEF SerialInv, Elsewhere
<1>6. reader' = reader
  BY DEF TaskStep, ReadItem, ReadParty, TruncFile, WriteFile, ReadIndex, TruncIndex,
         WriteIndex, Reread, TruncItem, WriteItem, Answer
<1>7. \A r \in Reader : ReaderSafe(r)' BY <1>1, <1>6, KeepReader DEF SerialInv, Elsewhere
<1>8. QED BY <1>1, <1>2, <1>3, <1>4, <1>5, <1>7 DEF SerialInv

\* A step that leaves requests, records and indexes alone.
LEMMA KeepSerial ==
   ASSUME SerialInv, SafeInv', UNCHANGED <<fileSt, indexSt, index, itemSt, item>>,
          \A t \in Task : Current(t)', \A r \in Reader : ReaderSafe(r)'
   PROVE  SerialInv'
<1>1. Grows BY DEF Grows
<1>2. \A i \in Item : Covered(i)' BY <1>1, KeepCovered DEF SerialInv
<1>3. QED BY <1>2 DEF SerialInv

\* A new request has read nothing.
LEMMA SubmitSerial ==
   ASSUME SerialInv, NEW t \in Task, NEW e \in Event, NEW sigs \in SigLists, Submit(t, e, sigs)
   PROVE  SerialInv'
<1>1. SafeInv' BY SubmitSafe DEF SerialInv
<1>2. UNCHANGED <<fileSt, indexSt, index, itemSt, item, reader>> BY DEF Submit, disk
<1>3. ASSUME NEW u \in Task PROVE Current(u)'
  <2>1. CASE task'[u] = task[u] BY <1>2, <2>1, KeepCurrent DEF SerialInv
  <2>2. CASE task'[u] # task[u]
    <3>1. task'[u] = [Idle EXCEPT !.pc = FirstRead(Type(e)), !.ev = e, !.sigs = sigs]
      BY <2>2 DEF Submit, SerialInv, SafeInv, TypeOK
    <3>2. task'[u].pc = FirstRead(Type(e)) /\ task'[u].ev = e BY <3>1 DEF Idle
    <3>3. \/ FirstRead(Type(e)) = "readItem"
          \/ FirstRead(Type(e)) \in {"readParty", "truncFile"} /\ ~Moves(e)
      BY DEF FirstRead, Moves
    <3>4. QED BY <3>2, <3>3 DEF Current
  <2>3. QED BY <2>1, <2>2
<1>4. Grows BY <1>2 DEF Grows
<1>5. \A r \in Reader : ReaderSafe(r)' BY <1>2, <1>4, KeepReader DEF SerialInv
<1>6. QED BY <1>1, <1>2, <1>3, <1>5, KeepSerial

\* getItemProof: what it reads later was there when it read the record.
LEMMA ReaderSerial ==
   ASSUME SerialInv, NEW r \in Reader,
          \/ \E i \in Item : ReadProofItem(r, i)
          \/ ReadProofIndex(r)
          \/ \E e \in Event : ReadProofFile(r, e)
   PROVE  ReaderSafe(r)'
<1>1. UNCHANGED disk /\ "events" \in Kind /\ reader \in [Reader -> ReaderRecord]
  BY DEF ReadProofItem, ReadProofIndex, ReadProofFile, Kind, SerialInv, SafeInv, TypeOK
<1>2. CASE reader'[r] = NotReading BY <1>2 DEF ReaderSafe, NotReading
<1>3. ASSUME NEW i \in Item, ReadProofItem(r, i) PROVE ReaderSafe(r)'
  <2>1. PICK rec : rec = (IF itemSt[i] = "whole" THEN item[i] ELSE NoItem) OBVIOUS
  <2>2. reader'[r] = [NotReading EXCEPT !.pc = "readIndex", !.item = i, !.rec = rec]
    BY <1>1, <1>3, <2>1 DEF ReadProofItem
  <2>3. /\ reader'[r].pc = "readIndex" /\ reader'[r].item = i /\ reader'[r].rec = rec
        /\ reader'[r].left = {} /\ reader'[r].events = {}
    BY <2>2 DEF NotReading
  <2>4. rec # NoItem => rec.last \in index["events"][i]
    BY <2>1 DEF SerialInv, Covered
  <2>5. QED BY <1>1, <2>3, <2>4 DEF ReaderSafe, disk
<1>4. CASE ReadProofIndex(r) /\ reader'[r] # NotReading
  <2> DEFINE j == reader[r].item
  <2>1. /\ reader[r].pc = "readIndex" /\ j \in Item
        /\ reader[r].left = {} /\ reader[r].events = {}
        /\ reader[r].rec # NoItem => reader[r].rec.last \in index["events"][j]
    BY <1>4 DEF ReadProofIndex, SerialInv, SafeInv, TypeOK, ReaderSafe
  <2>2. Covered(j) BY <2>1 DEF SerialInv
  <2>3. CASE indexSt["events"][j] = "absent"
    <3>1. reader'[r] = [reader[r] EXCEPT !.pc = "done"] BY <1>1, <1>4, <2>3 DEF ReadProofIndex
    <3>2. /\ reader'[r].pc = "done" /\ reader'[r].rec = reader[r].rec
          /\ reader'[r].left = {} /\ reader'[r].events = {}
      BY <1>1, <2>1, <3>1 DEF ReaderRecord
    <3>3. reader[r].rec = NoItem BY <1>1, <2>1, <2>2, <2>3 DEF Covered
    <3>4. QED BY <3>2, <3>3 DEF ReaderSafe, Linked
  <2>4. CASE indexSt["events"][j] = "whole"
    <3>1. reader'[r] = [reader[r] EXCEPT !.pc = "readFiles", !.left = index["events"][j]]
      BY <1>1, <1>4, <2>4 DEF ReadProofIndex
    <3>2. /\ reader'[r].pc = "readFiles" /\ reader'[r].rec = reader[r].rec
          /\ reader'[r].left = index["events"][j] /\ reader'[r].events = {}
      BY <1>1, <2>1, <3>1 DEF ReaderRecord
    <3>3. \A f \in index["events"][j] : Stored(f)' BY <1>1, <2>2 DEF Covered, Stored, disk
    <3>4. QED BY <2>1, <2>2, <3>2, <3>3 DEF ReaderSafe, Linked, Covered
  <2>5. QED BY <1>1, <1>4, <2>3, <2>4 DEF ReadProofIndex
<1>5. ASSUME NEW e \in Event, ReadProofFile(r, e), reader'[r] # NotReading PROVE ReaderSafe(r)'
  <2>0. PICK all : all = reader[r].left \cup reader[r].events OBVIOUS
  <2>1. /\ reader[r].pc = "readFiles" /\ e \in reader[r].left
        /\ reader[r].rec # NoItem => reader[r].rec.last \in all
        /\ \A f \in all : Stored(f)
        /\ Linked(all)
    BY <1>5, <2>0 DEF ReadProofFile, SerialInv, ReaderSafe
  <2>2. fileSt["events"][e] = "whole"
    <3>1. fileSt["events"][e] # "absent" BY <2>0, <2>1 DEF Stored
    <3>2. fileSt["events"][e] \in FileState BY <1>1 DEF SerialInv, SafeInv, TypeOK
    <3>3. fileSt["events"][e] \notin {"empty", "mangled"} BY <1>1, <1>5 DEF ReadProofFile
    <3>4. QED BY <3>1, <3>2, <3>3 DEF FileState
  <2>3. PICK pc : pc = (IF reader[r].left = {e} THEN "done" ELSE "readFiles") OBVIOUS
  <2>4. reader'[r] = [reader[r] EXCEPT !.pc = pc, !.left = reader[r].left \ {e},
                                       !.events = reader[r].events \cup {e}]
    BY <1>1, <1>5, <2>2, <2>3 DEF ReadProofFile
  <2>5. /\ reader'[r].pc = pc /\ reader'[r].rec = reader[r].rec
        /\ reader'[r].left = reader[r].left \ {e}
        /\ reader'[r].events = reader[r].events \cup {e}
    BY <1>1, <2>4 DEF ReaderRecord
  <2>6. reader'[r].left \cup reader'[r].events = all BY <2>0, <2>1, <2>5
  <2>7. pc = "done" => reader'[r].left = {} BY <2>3, <2>5
  <2>8. \A f \in all : Stored(f)' BY <1>1, <2>1 DEF Stored, disk
  <2>9. pc \in {"done", "readFiles"} BY <2>3
  <2>10. reader'[r].rec # NoItem => reader'[r].rec.last \in all BY <2>1, <2>5
  <2>11. Linked(all)' BY <2>1 DEF Linked
  <2>12. QED BY <2>5, <2>6, <2>7, <2>8, <2>9, <2>10, <2>11 DEF ReaderSafe
<1>6. QED BY <1>2, <1>3, <1>4, <1>5

\* An empty store.
LEMMA InitSerial == Init => SerialInv
<1> SUFFICES ASSUME Init PROVE SerialInv
  OBVIOUS
<1>1. SafeInv BY InitSafe
<1>2. \A t \in Task : Current(t) BY DEF Init, Current, Idle
<1>3. "events" \in Kind BY DEF Kind
<1>4. \A i \in Item : Covered(i) BY <1>3 DEF Init, Covered, Linked
<1>5. \A r \in Reader : ReaderSafe(r) BY DEF Init, ReaderSafe, NotReading
<1>6. QED BY <1>1, <1>2, <1>4, <1>5 DEF SerialInv

\* Every step keeps the invariant, if no two requests were about one item.
LEMMA NextSerial == SerialInv /\ Apart /\ [Next]_vars => SerialInv'
<1> SUFFICES ASSUME SerialInv, Apart, [Next]_vars PROVE SerialInv'
  OBVIOUS
<1>1. SafeInv' BY NextSafe DEF SerialInv
<1>2. ASSUME NEW t \in Task, TaskStep(t) PROVE SerialInv'
  BY <1>2, TaskStepSerial
<1>3. ASSUME NEW t \in Task, NEW e \in Event, NEW sigs \in SigLists, Submit(t, e, sigs)
      PROVE  SerialInv'
  BY <1>3, SubmitSerial
<1>4. ASSUME NEW r \in Reader,
             \/ \E i \in Item : ReadProofItem(r, i)
             \/ ReadProofIndex(r)
             \/ \E e \in Event : ReadProofFile(r, e)
      PROVE  SerialInv'
  <2>1. UNCHANGED <<fileSt, indexSt, index, itemSt, item, task>>
    BY <1>4 DEF ReadProofItem, ReadProofIndex, ReadProofFile, disk
  <2>2. \A t \in Task : Current(t)' BY <2>1, KeepCurrent DEF SerialInv
  <2>3. Grows BY <2>1 DEF Grows
  <2>4. ASSUME NEW s \in Reader, s # r PROVE ReaderSafe(s)'
    <3>1. reader'[s] = reader[s]
      BY <1>4, <2>4 DEF ReadProofItem, ReadProofIndex, ReadProofFile, SerialInv, SafeInv, TypeOK
    <3>2. QED BY <2>1, <2>3, <3>1, KeepReader DEF SerialInv
  <2>5. ReaderSafe(r)' BY <1>4, ReaderSerial
  <2>6. QED BY <1>1, <2>1, <2>2, <2>4, <2>5, KeepSerial
<1>5. CASE \/ \E p \in Party : TruncParty(p)
           \/ \E p \in Party, s \in Statuses : WriteParty(p, s)
           \/ Tick
           \/ UNCHANGED vars
  <2>1. UNCHANGED <<fileSt, indexSt, index, itemSt, item, task, reader>>
    BY <1>5 DEF TruncParty, WriteParty, Tick, vars, disk
  <2>2. \A t \in Task : Current(t)' BY <2>1, KeepCurrent DEF SerialInv
  <2>3. Grows BY <2>1 DEF Grows
  <2>4. \A r \in Reader : ReaderSafe(r)' BY <2>1, <2>3, KeepReader DEF SerialInv
  <2>5. QED BY <1>1, <2>1, <2>2, <2>4, KeepSerial
<1>6. CASE Crash
  <2>1. /\ UNCHANGED <<fileSt, indexSt, index, itemSt, item>>
        /\ \A t \in Task : task'[t] = Idle
        /\ \A r \in Reader : reader'[r] = NotReading
    BY <1>6 DEF Crash, disk
  <2>2. \A t \in Task : Current(t)' BY <2>1, IdleCurrent
  <2>3. \A r \in Reader : ReaderSafe(r)' BY <2>1 DEF ReaderSafe, NotReading
  <2>4. QED BY <1>1, <2>1, <2>2, <2>3, KeepSerial
<1>7. QED BY <1>2, <1>3, <1>4, <1>5, <1>6 DEF Next

\* The invariant behind the theorems below.
LEMMA SerialInvariant == Spec /\ []Apart => []SerialInv
BY InitSerial, NextSerial, PTL DEF Spec

-----------------------------------------------------------------------------
(* The atomic register *)

\* The last write of an event adds it to those that have taken effect.
LEMMA AcceptDone ==
   ASSUME NEW t \in Task, NEW e \in Event, e = task[t].ev, Accept(t)
   PROVE  done' = done \cup {e} /\ \A f \in Event : f \in done' <=> f \in done \/ f = e
BY DEF Accept

\* A step of a request finishes nothing and moves no record, or finishes an
\* event that is not on an item's chain, or writes the record.
Effect(t) ==
   LET e == task[t].ev
       i == Body[e].item
   IN
   \/ UNCHANGED <<done, item>>
   \/ /\ Accept(t) /\ UNCHANGED item
      /\ Type(e) \in {"ITEM_AUTHENTICATED", "AUTHENTICATOR_REGISTERED"}
   \/ /\ Accept(t) /\ item' = [item EXCEPT ![i] = task[t].rec]
      /\ \/ Type(e) = "ITEM_MINTED" /\ task[t].rec = Minted(e)
         \/ /\ Type(e) \in ChainType
            /\ item[i] \in ItemRecord /\ ValidateTransition(item[i], Body[e])
            /\ task[t].rec = ApplyEvent(item[i], e, Body[e])

\* What is finished by the code after a save is not on an item's chain.
LEMMA AfterSaveEffect ==
   ASSUME SerialInv, NEW t \in Task, AfterSave(t), UNCHANGED item
   PROVE  Effect(t)
<1>1. task[t].kind = "attestations" => Type(task[t].ev) = "ITEM_AUTHENTICATED"
  BY DEF SerialInv, SafeInv, TaskSafe
<1>2. QED BY <1>1 DEF AfterSave, Effect

\* The second read of the item finds it: no event is finished without effect.
LEMMA RereadEffect ==
   ASSUME SerialInv, NEW t \in Task, Reread(t)
   PROVE  Effect(t)
<1>1. UNCHANGED item /\ task[t].pc = "reread" BY DEF Reread, disk
<1>2. PICK i \in Item : i = Body[task[t].ev].item BY <1>1, BusyEvent DEF SerialInv, Busy
<1>3. item[i] # NoItem BY <1>1, <1>2 DEF SerialInv, Current
<1>4. itemSt[i] # "absent" BY <1>3 DEF SerialInv, Covered
<1>5. UNCHANGED done BY <1>2, <1>4 DEF Reread, Refuse
<1>6. QED BY <1>1, <1>5 DEF Effect

\* The record is written over the one it was made from.
LEMMA WriteItemEffect ==
   ASSUME SerialInv, NEW t \in Task, WriteItem(t)
   PROVE  Effect(t)
<1>1. task[t].pc = "writeItem" /\ Accept(t) BY DEF WriteItem
<1>2. PICK e \in Event : e = task[t].ev /\ Body[e].item \in Item
  BY <1>1, BusyEvent DEF SerialInv, Busy
<1>3. Grows BY TaskStepGrows DEF SerialInv, SafeInv, TaskStep
<1>4. item' = [item EXCEPT ![Body[e].item] = task[t].rec] BY <1>2, <1>3, WriteItemOwn
<1>5. CASE Type(e) = "ITEM_MINTED"
  <2>1. task[t].rec = Minted(e)
    BY <1>1, <1>2, <1>5, ReplayMint DEF SerialInv, SafeInv, TaskSafe
  <2>2. QED BY <1>1, <1>2, <1>4, <1>5, <2>1 DEF Effect
<1>6. CASE Type(e) # "ITEM_MINTED"
  <2>1. Moves(e) BY <1>1, <1>2, <1>6 DEF SerialInv, Current, SafeInv, TaskSafe, Moves
  <2>2. /\ item[Body[e].item] \in ItemRecord /\ ValidateTransition(item[Body[e].item], Body[e])
        /\ task[t].rec = ApplyEvent(item[Body[e].item], e, Body[e])
    BY <1>1, <1>2, <2>1 DEF SerialInv, Current, SafeInv, TypeOK
  <2>3. Type(e) \in ChainType BY <2>2, ApplyType DEF Type
  <2>4. QED BY <1>1, <1>2, <1>4, <2>2, <2>3 DEF Effect
<1>7. QED BY <1>5, <1>6

\* All the operations of a request.
LEMMA TaskStepEffect ==
   ASSUME SerialInv, NEW t \in Task, TaskStep(t)
   PROVE  Effect(t)
<1>1. CASE ReadItem(t) \/ ReadParty(t) \/ TruncFile(t) \/ WriteFile(t) \/ TruncIndex(t) \/ TruncItem(t)
  BY <1>1 DEF ReadItem, ReadParty, TruncFile, WriteFile, TruncIndex, TruncItem, Refuse, Effect, disk
<1>2. CASE ReadIndex(t) BY <1>2, AfterSaveEffect DEF ReadIndex, Refuse, Effect, disk
<1>3. CASE WriteIndex(t) BY <1>3, AfterSaveEffect DEF WriteIndex
<1>4. CASE Reread(t) BY <1>4, RereadEffect
<1>5. CASE WriteItem(t) BY <1>5, WriteItemEffect
<1>6. CASE Answer(t) BY <1>6 DEF Answer, Effect, disk
<1>7. QED BY <1>1, <1>2, <1>3, <1>4, <1>5, <1>6 DEF TaskStep

\* Only the answer answers, and it is the answer to an event that is done.
LEMMA AnswerEffect ==
   ASSUME SerialInv, NEW t \in Task, TaskStep(t)
   PROVE  \/ UNCHANGED accepted
          \/ /\ task[t].ev \in done /\ UNCHANGED <<done, item>>
             /\ accepted' = accepted \cup {task[t].ev}
<1>1. CASE Answer(t)
  <2>1. task[t].ev \in done BY <1>1 DEF Answer, SerialInv, SafeInv, TaskSafe
  <2>2. QED BY <1>1, <2>1 DEF Answer, disk
<1>2. CASE ~Answer(t)
  BY <1>2 DEF TaskStep, ReadItem, ReadParty, TruncFile, WriteFile, ReadIndex, TruncIndex,
              WriteIndex, Reread, TruncItem, WriteItem
<1>3. QED BY <1>1, <1>2

\* The other steps of a node finish nothing, answer nothing and move no record.
LEMMA OtherSteps ==
   ASSUME [Next]_vars, ~(\E t \in Task : TaskStep(t))
   PROVE  UNCHANGED <<done, item, accepted>>
BY DEF Next, Submit, ReadProofItem, ReadProofIndex, ReadProofFile, TruncParty, WriteParty,
       Tick, Crash, vars, disk

\* An empty store is a register without records.
LEMMA InitRegister == Init => Register!Init
BY DEF Init, Register!Init

\* The register and the node run the same state machine.
LEMMA SameMachine ==
   ASSUME NEW e \in Event, NEW rec
   PROVE  /\ Register!Minted(e) = Minted(e)
          /\ Register!ValidateTransition(rec, Body[e]) <=> ValidateTransition(rec, Body[e])
          /\ Register!ApplyEvent(rec, e, Body[e]) = ApplyEvent(rec, e, Body[e])
<1>1. Register!Minted(e) = Minted(e)
  BY DEF Minted, MintedItem, Register!Minted, Register!MintedItem
<1>2. Register!ItemState = ItemState BY DEF ItemState, Register!ItemState
<1>3. Register!Allowed = Allowed BY <1>2 DEF Allowed, Register!Allowed
<1>4. Register!ValidateTransition(rec, Body[e]) <=> ValidateTransition(rec, Body[e])
  BY <1>3 DEF ValidateTransition, Register!ValidateTransition, IsValidTransition,
              Register!IsValidTransition
<1>5. Register!NextState(Body[e].type) = NextState(Body[e].type)
  BY DEF NextState, Register!NextState
<1>6. Register!ApplyEvent(rec, e, Body[e]) = ApplyEvent(rec, e, Body[e])
  BY <1>5 DEF ApplyEvent, Register!ApplyEvent
<1>7. QED BY <1>1, <1>4, <1>6

\* Every step of the node is a step of the register or changes nothing of it.
LEMMA NextRegister ==
   SerialInv /\ [Next]_vars => [Register!Next]_<<item, done, accepted>>
<1> SUFFICES ASSUME SerialInv, [Next]_vars
             PROVE  [Register!Next]_<<item, done, accepted>>
  OBVIOUS
<1>1. ASSUME NEW t \in Task, TaskStep(t)
      PROVE  [Register!Next]_<<item, done, accepted>>
  <2>1. PICK e \in Event : e = task[t].ev BY <1>1, StepBusy, BusyEvent DEF SerialInv
  <2>2. Effect(t) BY <1>1, TaskStepEffect
  <2>3. Accept(t) => done' = done \cup {e} BY <2>1, AcceptDone
  <2>a. CASE e \in done /\ UNCHANGED <<done, item>> /\ accepted' = accepted \cup {e}
    <3>1. Register!Answer(e) BY <2>a DEF Register!Answer
    <3>2. QED BY <3>1 DEF Register!Next
  <2>b. CASE UNCHANGED <<done, item, accepted>> BY <2>b
  <2>5. CASE /\ Accept(t) /\ UNCHANGED <<item, accepted>>
             /\ Type(e) \in {"ITEM_AUTHENTICATED", "AUTHENTICATOR_REGISTERED"}
    <3>1. Register!Note(e) BY <2>3, <2>5 DEF Register!Note, Type
    <3>2. QED BY <3>1 DEF Register!Next
  <2>6. CASE /\ Accept(t) /\ item' = [item EXCEPT ![Body[e].item] = task[t].rec]
             /\ Type(e) = "ITEM_MINTED" /\ task[t].rec = Minted(e) /\ UNCHANGED accepted
    <3>1. Register!Mint(e) BY <2>3, <2>6, SameMachine DEF Register!Mint, Type
    <3>2. QED BY <3>1 DEF Register!Next
  <2>7. CASE LET i == Body[e].item IN
             /\ Accept(t) /\ item' = [item EXCEPT ![i] = task[t].rec]
             /\ item[i] \in ItemRecord /\ ValidateTransition(item[i], Body[e])
             /\ task[t].rec = ApplyEvent(item[i], e, Body[e]) /\ UNCHANGED accepted
    <3>1. item[Body[e].item] # NoItem BY <2>7, NullAssumption
    <3>2. Register!Advance(e)
      BY <2>3, <2>7, <3>1, SameMachine DEF Register!Advance
    <3>3. QED BY <3>2 DEF Register!Next
  <2>8. CASE UNCHANGED accepted BY <2>1, <2>2, <2>b, <2>5, <2>6, <2>7, <2>8 DEF Effect
  <2>9. QED BY <1>1, <2>1, <2>a, <2>8, AnswerEffect
<1>2. CASE ~(\E t \in Task : TaskStep(t)) BY <1>2, OtherSteps
<1>3. QED BY <1>1, <1>2

\* As long as no two requests about one item are in progress at once, a node
\* is the atomic register of OwnershipRegister, whatever else overlaps and
\* wherever it dies: submitEvent takes effect in the one step in which the
\* record of its item lands, and answers after that or, if the process dies in
\* between, never.
THEOREM SerialNodeIsRegister == Spec /\ []Apart => IsRegister
<1>1. Init => Register!Init BY InitRegister
<1>2. SerialInv /\ [Next]_vars => [Register!Next]_<<item, done, accepted>>
  BY NextRegister
<1>3. QED BY <1>1, <1>2, SerialInvariant, PTL DEF Spec, IsRegister, Register!Spec

\* In particular with one request at a time.
THEOREM OneAtATimeIsRegister ==
   ASSUME \A t, u \in Task : t = u PROVE Spec => IsRegister
<1>1. Apart BY DEF Apart
<1>2. QED BY <1>1, SerialNodeIsRegister, PTL

\* A proof that getItemProof serves leads from the record's last event back to
\* the mint, although it is put together from reads at different times and
\* requests write in between, the same events again included.
THEOREM ProofAlwaysComplete == Spec /\ []Apart => []ProofIsComplete
<1>1. SerialInv => ProofIsComplete BY DEF SerialInv, ReaderSafe, ProofIsComplete
<1>2. QED BY <1>1, SerialInvariant, PTL

-----------------------------------------------------------------------------
(* No fork *)

\* The node is sent a mint at most once: it accepts a mint of an item it has
\* and starts the item's record over.
MintsOnce == \A e \in Event : Type(e) = "ITEM_MINTED" => e \in OneShot

\* A stored chain event follows on a replayed predecessor, from the same mint.
LEMMA StoredFollows ==
   ASSUME SafeInv, NEW e \in Event, e \in done, Type(e) \in ChainType
   PROVE  /\ Body[e].prev \in Event /\ Replay[Body[e].prev] \in ItemRecord
          /\ Replay[e] \in ItemRecord
          /\ Replay[e].mint = Replay[Body[e].prev].mint
          /\ Body[e].item = Replay[Body[e].prev].item
          /\ Body[e].height = Replay[Body[e].prev].height + 1
<1>1. Replay[e] # NoItem BY DEF SafeInv, AnswersAreDone, Saved, StoredEventsReplay
<1>2. Body[e].type # "ITEM_MINTED" BY DEF Type, ChainType
<1>3. Follows(e) /\ Replay[e] = ApplyEvent(Replay[Body[e].prev], e, Body[e])
  BY <1>1, <1>2, ReplayAssumption
<1>4. Body[e].prev \in Event /\ Replay[Body[e].prev] \in ItemRecord
  BY <1>3, ReplayAssumption DEF Follows
<1>5. PICK rec \in ItemRecord : rec = Replay[Body[e].prev] BY <1>4
<1>6. ValidateTransition(rec, Body[e]) BY <1>3, <1>5 DEF Follows
<1>7. Replay[e] \in ItemRecord BY <1>1, ReplayAssumption
<1>8. Replay[e].mint = rec.mint BY <1>3, <1>5 DEF ApplyEvent, ItemRecord
<1>9. QED BY <1>4, <1>5, <1>6, <1>7, <1>8 DEF ValidateTransition

\* A request is not done before its last write.
LEMMA NotYetDone ==
   ASSUME SafeInv, NEW t \in Task, TaskStep(t), Accept(t)
   PROVE  task[t].pc # "answer"
<1>1. CASE Answer(t)
  <2>1. task'[t] = Idle BY <1>1 DEF Answer, SafeInv, TypeOK
  <2>2. task'[t] = [Idle EXCEPT !.pc = "answer", !.ev = task[t].ev] BY DEF Accept, SafeInv, TypeOK
  <2>3. task'[t].pc = "idle" BY <2>1 DEF Idle
  <2>4. task'[t].pc = "answer" BY <2>2 DEF Idle
  <2>5. QED BY <2>3, <2>4
<1>2. CASE ~Answer(t)
  BY <1>2 DEF TaskStep, ReadItem, ReadParty, TruncFile, WriteFile, ReadIndex, TruncIndex,
              WriteIndex, Reread, TruncItem, WriteItem
<1>3. QED BY <1>1, <1>2

\* A step of a request: a chain event that takes effect has no sibling that
\* did, because the record it was made from is not behind any such event.
LEMMA EffectForks ==
   ASSUME SerialInv, NoDoneFork, ChainsBehind, MintsOnce, MintsPending,
          NEW t \in Task, TaskStep(t)
   PROVE  NoDoneFork' /\ ChainsBehind'
<1>1. PICK e \in Event : e = task[t].ev BY StepBusy, BusyEvent DEF SerialInv
<1>2. PICK i \in Item : i = Body[e].item BY BodyAssumption DEF EventBody
<1>3. Accept(t) => \A f \in Event : f \in done' <=> f \in done \/ f = e
  BY <1>1, AcceptDone DEF SerialInv, SafeInv
<1>4. item \in [Item -> ItemRecord \cup {NoItem}] BY DEF SerialInv, SafeInv, TypeOK
<1>5. \A j \in Item : item[j] # NoItem => item[j] \in ItemRecord /\ item[j].mint \in Event
  BY <1>4 DEF ItemRecord
<1>6. \A f \in Event : Body[f].item \in Item /\ Body[f].height \in Nat
  BY BodyAssumption DEF EventBody
<1>7. \A f \in Event : f \in done /\ Type(f) \in ChainType => Replay[f].mint \in Event
  BY StoredFollows DEF SerialInv, ItemRecord
<1>8. CASE UNCHANGED <<done, item>>
  BY <1>8 DEF NoDoneFork, ChainsBehind, Passed
<1>9. CASE Accept(t) /\ UNCHANGED item /\ Type(e) \notin ChainType
  <2>1. NoDoneFork' BY <1>3, <1>9 DEF NoDoneFork
  <2>2. ASSUME NEW f \in Event PROVE Passed(f)'
    BY <1>3, <1>7, <1>9 DEF ChainsBehind, Passed
  <2>3. \A j \in Item : item'[j] # NoItem => item'[j].mint \in done'
    BY <1>3, <1>5, <1>9 DEF ChainsBehind
  <2>4. QED BY <2>1, <2>2, <2>3 DEF ChainsBehind
<1>10. CASE /\ Accept(t) /\ item' = [item EXCEPT ![i] = task[t].rec]
            /\ Type(e) = "ITEM_MINTED" /\ task[t].rec = Minted(e)
  <2>1. item'[i] = Minted(e) /\ \A j \in Item : j # i => item'[j] = item[j] BY <1>4, <1>10
  <2>2. Minted(e).mint = e /\ Type(e) \notin ChainType
    BY <1>10 DEF Minted, MintedItem, ChainType
  <2>3. e \notin done
    BY <1>1, <1>10, StepBusy, NotYetDone DEF MintsOnce, MintsPending, SerialInv
  <2>4. NoDoneFork' BY <1>3, <1>10, <2>2 DEF NoDoneFork
  <2>5. ASSUME NEW f \in Event PROVE Passed(f)'
    <3>1. SUFFICES ASSUME f \in done', Type(f) \in ChainType
                   PROVE  /\ Replay[f].mint \in done'
                          /\ item'[Body[f].item] # NoItem
                          /\ Replay[f].mint = item'[Body[f].item].mint =>
                                Body[f].height <= item'[Body[f].item].height
      BY DEF Passed
    <3>2. f \in done BY <1>3, <1>10, <2>2, <3>1
    <3>3. /\ Replay[f].mint \in done /\ item[Body[f].item] # NoItem
          /\ Replay[f].mint = item[Body[f].item].mint => Body[f].height <= item[Body[f].item].height
      BY <3>1, <3>2 DEF ChainsBehind, Passed
    <3>4. Replay[f].mint # e BY <2>3, <3>3
    <3>5. Replay[f].mint \in done' BY <1>3, <1>7, <1>10, <3>1, <3>2, <3>3
    <3>6. Minted(e) # NoItem BY MintedType, NullAssumption
    <3>7. CASE Body[f].item = i BY <2>1, <2>2, <3>4, <3>5, <3>6, <3>7
    <3>8. CASE Body[f].item # i BY <1>6, <2>1, <3>3, <3>5, <3>8
    <3>9. QED BY <3>7, <3>8
  <2>6. ASSUME NEW j \in Item, item'[j] # NoItem PROVE item'[j].mint \in done'
    <3>1. CASE j = i BY <1>3, <1>10, <2>1, <2>2, <3>1
    <3>2. CASE j # i BY <1>3, <1>5, <1>10, <2>1, <2>6, <3>2 DEF ChainsBehind
    <3>3. QED BY <3>1, <3>2
  <2>7. QED BY <2>4, <2>5, <2>6 DEF ChainsBehind
<1>11. CASE /\ Accept(t) /\ item' = [item EXCEPT ![i] = task[t].rec]
            /\ Type(e) \in ChainType
            /\ item[i] \in ItemRecord /\ ValidateTransition(item[i], Body[e])
            /\ task[t].rec = ApplyEvent(item[i], e, Body[e])
  <2>1. PICK old \in ItemRecord : old = item[i] BY <1>11
  <2>2. PICK new : new = ApplyEvent(old, e, Body[e]) OBVIOUS
  <2>3. new \in ItemRecord /\ new.mint = old.mint /\ new.height = Body[e].height
    BY ZenonT(40), <1>11, <2>1, <2>2, ApplyType DEF ApplyEvent, ItemRecord
  <2>4. item'[i] = new /\ \A j \in Item : j # i => item'[j] = item[j]
    BY <1>4, <1>11, <2>1, <2>2
  <2>5. old # NoItem /\ new # NoItem BY <2>3, NullAssumption
  <2>6. old = Replay[old.last] BY <2>1, <2>5 DEF SerialInv, SafeInv, ItemIsReplay
  <2>7. /\ Body[e].prev = old.last /\ Body[e].height = old.height + 1
        /\ Body[e].item = old.item /\ old.height \in Nat /\ old.last \in Event
    BY <1>11, <2>1 DEF ValidateTransition, ItemRecord
  <2>8. Replay[e] = new BY <1>11, <2>1, <2>2, <2>6, ReplayStep
  <2>9. old.mint \in done BY <2>1, <2>5 DEF ChainsBehind
  <2>10. ASSUME NEW f \in Event, f \in done, Type(f) \in ChainType, Body[f].prev = old.last
         PROVE  FALSE
    <3>1. /\ Replay[f].mint = old.mint /\ Body[f].height = old.height + 1
          /\ Body[f].item = old.item
      BY <2>6, <2>10, StoredFollows DEF SerialInv
    <3>2. Body[f].item = i BY <1>2, <2>7, <3>1
    <3>3. Body[f].height <= old.height
      BY <2>1, <2>10, <3>1, <3>2 DEF ChainsBehind, Passed
    <3>4. QED BY <2>7, <3>1, <3>3
  <2>11. NoDoneFork'
    <3>1. ASSUME NEW f \in Event, NEW g \in Event, f \in done', g \in done',
                 Type(f) \in ChainType, Type(g) \in ChainType, Body[f].prev = Body[g].prev
          PROVE  f = g
      <4>1. CASE f \in done /\ g \in done BY <3>1, <4>1 DEF NoDoneFork
      <4>2. CASE f = e /\ g \in done BY <2>7, <2>10, <3>1, <4>2
      <4>3. CASE g = e /\ f \in done BY <2>7, <2>10, <3>1, <4>3
      <4>4. QED BY <1>3, <1>11, <3>1, <4>1, <4>2, <4>3
    <3>2. QED BY <3>1 DEF NoDoneFork
  <2>12. ASSUME NEW f \in Event PROVE Passed(f)'
    <3>1. SUFFICES ASSUME f \in done', Type(f) \in ChainType
                   PROVE  /\ Replay[f].mint \in done'
                          /\ item'[Body[f].item] # NoItem
                          /\ Replay[f].mint = item'[Body[f].item].mint =>
                                Body[f].height <= item'[Body[f].item].height
      BY DEF Passed
    <3>2. CASE f = e
      <4>1. old.mint \in Event BY DEF ItemRecord
      <4>2. old.mint \in done' BY <1>3, <1>11, <2>9, <4>1
      <4>3. QED BY <1>2, <1>6, <2>3, <2>4, <2>5, <2>8, <3>2, <4>2
    <3>3. CASE f # e
      <4>1. f \in done BY <1>3, <1>11, <3>1, <3>3
      <4>2. /\ Replay[f].mint \in done /\ item[Body[f].item] # NoItem
            /\ Replay[f].mint = item[Body[f].item].mint => Body[f].height <= item[Body[f].item].height
        BY <3>1, <4>1 DEF ChainsBehind, Passed
      <4>3. Replay[f].mint \in done' BY <1>3, <1>7, <1>11, <3>1, <4>1, <4>2
      <4>4. CASE Body[f].item = i
        <5>1. Replay[f].mint = new.mint => Body[f].height <= old.height
          BY <2>1, <2>3, <4>2, <4>4
        <5>2. Replay[f].mint = new.mint => Body[f].height <= new.height
          BY <1>6, <2>3, <2>7, <5>1
        <5>3. QED BY <2>4, <2>5, <4>3, <4>4, <5>2
      <4>5. CASE Body[f].item # i BY <1>6, <2>4, <4>2, <4>3, <4>5
      <4>6. QED BY <4>4, <4>5
    <3>4. QED BY <3>2, <3>3
  <2>13. ASSUME NEW j \in Item, item'[j] # NoItem PROVE item'[j].mint \in done'
    <3>1. CASE j = i
      <4>1. old.mint \in Event BY DEF ItemRecord
      <4>2. QED BY <1>3, <1>11, <2>3, <2>4, <2>9, <3>1, <4>1
    <3>2. CASE j # i BY <1>3, <1>5, <1>11, <2>4, <2>13, <3>2 DEF ChainsBehind
    <3>3. QED BY <3>1, <3>2
  <2>14. QED BY <2>11, <2>12, <2>13 DEF ChainsBehind
<1>12. Effect(t) BY TaskStepEffect
<1>13. Type(e) \in {"ITEM_AUTHENTICATED", "AUTHENTICATOR_REGISTERED"} => Type(e) \notin ChainType
  BY DEF ChainType
<1>14. QED BY <1>1, <1>2, <1>8, <1>9, <1>10, <1>11, <1>12, <1>13 DEF Effect

\* A request that is not over is still about the same event.
LEMMA SameEvent ==
   ASSUME SafeInv, NEW t \in Task, TaskStep(t)
   PROVE  \/ task'[t] = Idle
          \/ task'[t].ev = task[t].ev /\ (UNCHANGED done \/ task'[t].pc = "answer")
<1>1. task \in [Task -> TaskRecord] BY DEF SafeInv, TypeOK
<1>a. CASE Accept(t)
  <2>1. task'[t] = [Idle EXCEPT !.pc = "answer", !.ev = task[t].ev] BY <1>1, <1>a DEF Accept
  <2>2. QED BY <2>1 DEF Idle
<1>b. CASE Answer(t) BY <1>1, <1>b DEF Answer
<1>2. CASE ReadItem(t) BY <1>1, <1>2 DEF ReadItem, Refuse, TaskRecord
<1>3. CASE ReadParty(t) BY <1>1, <1>3 DEF ReadParty, Refuse, Goto, TaskRecord
<1>4. CASE TruncFile(t) \/ WriteFile(t) \/ TruncIndex(t) \/ TruncItem(t)
  BY <1>1, <1>4 DEF TruncFile, WriteFile, TruncIndex, TruncItem, Goto, TaskRecord
<1>5. CASE AfterSave(t)
  <2>1. CASE Accept(t) BY <1>a, <2>1
  <2>2. CASE ~Accept(t) BY <1>1, <1>5, <2>2, SMTT(40) DEF AfterSave, TaskRecord
  <2>3. QED BY <2>1, <2>2
<1>6. CASE ReadIndex(t)
  <2>1. CASE \E ids : task' = [task EXCEPT ![t].pc = "truncIndex", ![t].ids = ids] /\ UNCHANGED done
    BY <1>1, <2>1 DEF TaskRecord
  <2>2. CASE Refuse(t) BY <1>1, <2>2 DEF Refuse
  <2>3. QED BY <1>5, <1>6, <2>1, <2>2 DEF ReadIndex
<1>7. CASE WriteIndex(t) BY <1>5, <1>7 DEF WriteIndex
<1>8. CASE Reread(t)
  <2>1. CASE \E rec : task' = [task EXCEPT ![t].pc = "truncItem", ![t].rec = rec] /\ UNCHANGED done
    BY <1>1, <2>1 DEF TaskRecord
  <2>2. CASE Refuse(t) BY <1>1, <2>2 DEF Refuse
  <2>3. QED BY <1>a, <1>8, <2>1, <2>2 DEF Reread
<1>9. CASE WriteItem(t) BY <1>a, <1>9 DEF WriteItem
<1>10. QED BY <1>b, <1>2, <1>3, <1>4, <1>6, <1>7, <1>8, <1>9 DEF TaskStep

\* Requests in progress at once carry different events.
LEMMA EffectPending ==
   ASSUME SerialInv, Apart, MintsPending, NEW t \in Task, TaskStep(t)
   PROVE  MintsPending'
<1>1. PICK e \in Event : e = task[t].ev BY StepBusy, BusyEvent DEF SerialInv
<1>2. sent' = sent
  BY DEF TaskStep, ReadItem, ReadParty, TruncFile, WriteFile, ReadIndex, TruncIndex,
         WriteIndex, Reread, TruncItem, WriteItem, Answer
<1>3. \A f \in Event : f \in done' => f \in done \/ f = e
  <2>1. CASE UNCHANGED done BY <2>1
  <2>2. CASE Accept(t) BY <1>1, <2>2, AcceptDone DEF SerialInv, SafeInv
  <2>3. QED BY <2>1, <2>2, TaskStepEffect DEF Effect
<1>4. done \subseteq Event /\ done' \subseteq Event
  BY TaskStepType DEF SerialInv, SafeInv, TypeOK
<1>5. OneShot \subseteq Event BY NodeAssumption
<1>6. \A f \in OneShot : f \in done' => f \in sent'
  BY <1>1, <1>2, <1>3, <1>5, StepBusy DEF MintsPending
<1>7. ASSUME NEW u \in Task, Busy(u)', task'[u].ev \in OneShot
      PROVE  /\ task'[u].ev \in sent'
             /\ Type(task'[u].ev) = "ITEM_MINTED" /\ task'[u].pc # "answer"
                   => task'[u].ev \notin done'
  <2>1. CASE u = t
    <3>1. task'[t].ev = e /\ (UNCHANGED done \/ task'[t].pc = "answer")
      BY <1>1, <1>7, <2>1, SameEvent DEF SerialInv, Busy, Idle
    <3>2. task'[t].pc # "answer" => task[t].pc # "answer"
      <4>1. CASE Answer(t)
        <5>1. task'[t] = Idle BY <4>1 DEF Answer, SerialInv, SafeInv, TypeOK
        <5>2. QED BY <1>7, <2>1, <5>1 DEF Busy, Idle
      <4>2. CASE ~Answer(t)
        BY <4>2 DEF TaskStep, ReadItem, ReadParty, TruncFile, WriteFile, ReadIndex, TruncIndex,
                    WriteIndex, Reread, TruncItem, WriteItem
      <4>3. QED BY <4>1, <4>2
    <3>3. QED BY <1>1, <1>2, <1>7, <2>1, <3>1, <3>2, StepBusy DEF MintsPending
  <2>2. CASE u # t
    <3>1. task'[u] = task[u]
      BY <2>2 DEF TaskStep, ReadItem, ReadParty, TruncFile, WriteFile, ReadIndex, TruncIndex,
         WriteIndex, Reread, TruncItem, WriteItem, Answer, AfterSave, Refuse, Accept, Goto,
         SerialInv, SafeInv, TypeOK
    <3>2. Busy(u) BY <1>7, <3>1 DEF Busy
    <3>3. task[u].ev # e BY <1>1, <2>2, <3>2, StepBusy DEF Apart
    <3>4. /\ task[u].ev \in sent
          /\ Type(task[u].ev) = "ITEM_MINTED" /\ task[u].pc # "answer" => task[u].ev \notin done
      BY <1>7, <3>1, <3>2 DEF MintsPending
    <3>5. Type(task[u].ev) = "ITEM_MINTED" /\ task[u].pc # "answer" => task[u].ev \notin done'
      BY <1>3, <1>4, <1>5, <1>7, <3>1, <3>3, <3>4
    <3>6. QED BY <1>2, <3>1, <3>4, <3>5
  <2>3. QED BY <2>1, <2>2
<1>8. QED BY <1>6, <1>7 DEF MintsPending

\* A mint that is sent now has never been accepted.
LEMMA SubmitPending ==
   ASSUME SerialInv, MintsPending,
          NEW t \in Task, NEW e \in Event, NEW sigs \in SigLists, Submit(t, e, sigs)
   PROVE  MintsPending'
<1>1. sent' = sent \cup ({e} \cap OneShot) /\ e \notin sent /\ done' = done
  BY DEF Submit, SerialInv, SafeInv, TypeOK
<1>2. e \in OneShot => e \notin done BY <1>1 DEF MintsPending
<1>3. ASSUME NEW u \in Task, Busy(u)', task'[u].ev \in OneShot
      PROVE  /\ task'[u].ev \in sent'
             /\ Type(task'[u].ev) = "ITEM_MINTED" /\ task'[u].pc # "answer"
                   => task'[u].ev \notin done'
  <2>1. CASE task'[u] = task[u] BY <1>1, <1>3, <2>1 DEF MintsPending, Busy
  <2>2. CASE task'[u] # task[u]
    <3>1. task'[u] = [Idle EXCEPT !.pc = FirstRead(Type(e)), !.ev = e, !.sigs = sigs]
      BY <2>2 DEF Submit, SerialInv, SafeInv, TypeOK
    <3>2. task'[u].ev = e BY <3>1 DEF Idle
    <3>3. QED BY <1>1, <1>2, <1>3, <3>2
  <2>3. QED BY <2>1, <2>2
<1>4. QED BY <1>1, <1>3 DEF MintsPending

\* An empty store.
LEMMA InitFork == Init => ForkInv
<1> SUFFICES ASSUME Init PROVE ForkInv
  OBVIOUS
<1>1. SerialInv BY InitSerial
<1>2. NoDoneFork BY DEF Init, NoDoneFork
<1>3. ChainsBehind BY DEF Init, ChainsBehind, Passed
<1>4. MintsPending BY NodeAssumption DEF Init, MintsPending, Busy, Idle
<1>5. QED BY <1>1, <1>2, <1>3, <1>4 DEF ForkInv

\* Every step keeps the invariant.
LEMMA NextFork ==
   ASSUME MintsOnce
   PROVE  ForkInv /\ Apart /\ [Next]_vars => ForkInv'
<1> SUFFICES ASSUME ForkInv, Apart, [Next]_vars PROVE ForkInv'
  OBVIOUS
<1>1. SerialInv' BY NextSerial DEF ForkInv
<1>2. ASSUME NEW t \in Task, TaskStep(t) PROVE ForkInv'
  BY <1>1, <1>2, EffectForks, EffectPending DEF ForkInv
<1>3. CASE ~(\E t \in Task : TaskStep(t))
  <2>1. UNCHANGED <<done, item>> BY <1>3, OtherSteps
  <2>2. NoDoneFork' /\ ChainsBehind'
    BY <2>1 DEF ForkInv, NoDoneFork, ChainsBehind, Passed
  <2>3. ASSUME NEW t \in Task, NEW e \in Event, NEW sigs \in SigLists, Submit(t, e, sigs)
        PROVE  MintsPending'
    BY <2>3, SubmitPending DEF ForkInv
  <2>4. ASSUME Crash PROVE MintsPending'
    <3>1. sent' = sent /\ \A t \in Task : ~Busy(t)' BY <2>4 DEF Crash, Busy, Idle
    <3>2. MintsPending BY DEF ForkInv
    <3>3. QED BY <2>1, <3>1, <3>2 DEF MintsPending, Busy
  <2>5. ASSUME UNCHANGED <<sent, task>> PROVE MintsPending'
    <3>1. MintsPending BY DEF ForkInv
    <3>2. QED BY <2>1, <2>5, <3>1 DEF MintsPending, Busy
  <2>6. ASSUME \/ \E r \in Reader, i \in Item : ReadProofItem(r, i)
               \/ \E r \in Reader : ReadProofIndex(r)
               \/ \E r \in Reader, e \in Event : ReadProofFile(r, e)
               \/ \E p \in Party : TruncParty(p)
               \/ \E p \in Party, s \in Statuses : WriteParty(p, s)
               \/ Tick
               \/ UNCHANGED vars
        PROVE  MintsPending'
    <3>1. UNCHANGED <<sent, task>>
      BY <2>6 DEF ReadProofItem, ReadProofIndex, ReadProofFile, TruncParty, WriteParty, Tick, vars
    <3>2. QED BY <2>5, <3>1
  <2>7. MintsPending'
    <3>1. CASE \E t \in Task, e \in Event, sigs \in SigLists : Submit(t, e, sigs)
      BY <2>3, <3>1
    <3>2. QED BY <1>3, <2>4, <2>6, <3>1 DEF Next
  <2>8. QED BY <1>1, <2>2, <2>7 DEF ForkInv
<1>4. QED BY <1>2, <1>3

\* Of two events with one predecessor at most one is answered accepted, as long
\* as no two requests about one item are in progress at once and mints arrive
\* once: what SECURITY.md says of locks holds but for the missing lock.
THEOREM SerialNodeNeverForks ==
   ASSUME MintsOnce PROVE Spec /\ []Apart => []NoAcceptedFork
<1>1. ForkInv /\ Apart /\ [Next]_vars => ForkInv' BY NextFork
<1>2. ASSUME ForkInv PROVE NoAcceptedFork
  <2>1. \A e \in accepted : e \in done /\ e \in Event
    BY <1>2 DEF ForkInv, SerialInv, SafeInv, TypeOK, AnswersAreDone
  <2>2. QED BY <1>2, <2>1 DEF ForkInv, NoDoneFork, NoAcceptedFork
<1>3. QED BY <1>1, <1>2, InitFork, PTL DEF Spec
-----------------------------------------------------------------------------
(* Nothing accepted is undone *)

\* A history is its last event and, unless that is a mint, the history it follows.
LEMMA HistoryStep ==
   /\ Ancestors \in [Event -> SUBSET Event]
   /\ \A e \in Event : Ancestors[e] =
         {e} \cup (IF Body[e].type # "ITEM_MINTED" /\ Body[e].prev \in Event
                  THEN Ancestors[Body[e].prev] ELSE {})
<1>1. Ancestors \in [Event -> SUBSET Event] BY DEF Ancestors
<1>2. ASSUME NEW e \in Event
      PROVE  /\ Ancestors[e] \in Histories /\ e \in Ancestors[e]
             /\ \A s \in Histories : e \in s => Ancestors[e] \subseteq s
  BY DEF Ancestors, Histories
<1>3. ASSUME NEW e \in Event
      PROVE  Ancestors[e] = {e} \cup (IF Body[e].type # "ITEM_MINTED" /\ Body[e].prev \in Event
                                     THEN Ancestors[Body[e].prev] ELSE {})
  <2>1. CASE Body[e].type # "ITEM_MINTED" /\ Body[e].prev \in Event
    <3>1. PICK p \in Event : p = Body[e].prev BY <2>1
    <3>2. {e} \cup Ancestors[p] \in Histories
      BY <1>1, <1>2, <2>1, <3>1 DEF Histories
    <3>3. p \in Ancestors[e] BY <1>2, <2>1, <3>1 DEF Histories
    <3>4. QED BY <1>2, <2>1, <3>1, <3>2, <3>3
  <2>2. CASE ~(Body[e].type # "ITEM_MINTED" /\ Body[e].prev \in Event)
    <3>1. {e} \in Histories BY <2>2 DEF Histories
    <3>2. QED BY <1>2, <2>2, <3>1
  <2>3. QED BY <2>1, <2>2
<1>4. QED BY <1>1, <1>3

\* The whole history of an event that replays replays from the same mint.
LEMMA HistoryReplays ==
   ASSUME NEW e \in Event, Replay[e] # NoItem
   PROVE  \A f \in Ancestors[e] : Replay[f] # NoItem /\ Replay[f].mint = Replay[e].mint
<1> DEFINE s == {f \in Event : Replay[f] # NoItem /\ Replay[f].mint = Replay[e].mint}
<1>1. ASSUME NEW f \in s, Body[f].type # "ITEM_MINTED", Body[f].prev \in Event
      PROVE  Body[f].prev \in s
  <2>1. Follows(f) /\ Replay[f] = ApplyEvent(Replay[Body[f].prev], f, Body[f])
    BY <1>1, ReplayAssumption
  <2>2. PICK rec \in ItemRecord : rec = Replay[Body[f].prev] BY <1>1, <2>1, ReplayAssumption DEF Follows
  <2>3. Replay[f].mint = rec.mint BY <2>1, <2>2 DEF ApplyEvent, ItemRecord
  <2>4. QED BY <1>1, <2>1, <2>2, <2>3 DEF Follows
<1>2. s \in Histories BY <1>1 DEF Histories
<1>3. Ancestors[e] \subseteq s BY <1>2 DEF Ancestors
<1>4. QED BY <1>3

\* An event of a mint or a chain that took effect, in relation to the record rec.
IsKept(e, rec) ==
   e \in done /\ Type(e) \in ChainType \cup {"ITEM_MINTED"} =>
      /\ rec # NoItem
      /\ rec.mint \in Ancestors[e] => e \in Ancestors[rec.last]

\* Every such event is in the history of the record that was last written,
\* if it goes back to the same mint; and a record goes back to a mint.
KeptInv ==
   /\ ForkInv
   /\ \A i \in Item : item[i] # NoItem => Type(item[i].mint) = "ITEM_MINTED"
   /\ \A e \in Event : IsKept(e, item[Body[e].item])

\* A mint starts its record over, but what goes back to it has had no effect yet.
LEMMA MintKeeps ==
   ASSUME KeptInv, NEW e \in Event, e \notin done, Type(e) = "ITEM_MINTED",
          NEW f \in Event, f \in done, Type(f) \in ChainType \cup {"ITEM_MINTED"}
   PROVE  e \notin Ancestors[f]
<1>1. CASE Type(f) = "ITEM_MINTED"
  <2>1. Ancestors[f] = {f} BY <1>1, HistoryStep DEF Type
  <2>2. QED BY <2>1
<1>2. CASE Type(f) \in ChainType
  <2>1. Replay[f] # NoItem
    BY <1>2, StoredFollows, NullAssumption DEF KeptInv, ForkInv, SerialInv
  <2>2. Replay[f].mint \in done BY <1>2 DEF KeptInv, ForkInv, ChainsBehind, Passed
  <2>3. Replay[e].mint = e BY MintedType, ReplayAssumption DEF Type, Minted, MintedItem
  <2>4. QED BY <2>1, <2>2, <2>3, HistoryReplays
<1>3. QED BY <1>1, <1>2

\* A step of a request keeps every event that took effect, and its own.
LEMMA EffectKeeps ==
   ASSUME KeptInv, MintsOnce, NEW t \in Task, TaskStep(t)
   PROVE  /\ \A i \in Item : item'[i] # NoItem => Type(item'[i].mint) = "ITEM_MINTED"
          /\ \A f \in Event : IsKept(f, item[Body[f].item])'
<1>1. PICK e \in Event : e = task[t].ev BY StepBusy, BusyEvent DEF KeptInv, ForkInv, SerialInv
<1>2. PICK i \in Item : i = Body[e].item BY BodyAssumption DEF EventBody
<1>3. Accept(t) => \A f \in Event : f \in done' <=> f \in done \/ f = e
  BY <1>1, AcceptDone DEF KeptInv, ForkInv, SerialInv, SafeInv
<1>4. item \in [Item -> ItemRecord \cup {NoItem}] BY DEF KeptInv, ForkInv, SerialInv, SafeInv, TypeOK
<1>5. \A f \in Event : Body[f].item \in Item BY BodyAssumption DEF EventBody
<1>6. \A f \in Event : IsKept(f, item[Body[f].item]) BY DEF KeptInv
<1>7. CASE UNCHANGED <<done, item>> BY <1>7 DEF KeptInv, IsKept
<1>8. CASE Accept(t) /\ UNCHANGED item /\ Type(e) \notin ChainType \cup {"ITEM_MINTED"}
  BY <1>3, <1>6, <1>8 DEF KeptInv, IsKept
<1>9. CASE /\ Accept(t) /\ item' = [item EXCEPT ![i] = task[t].rec]
           /\ Type(e) = "ITEM_MINTED" /\ task[t].rec = Minted(e)
  <2>1. item'[i] = Minted(e) /\ \A j \in Item : j # i => item'[j] = item[j] BY <1>4, <1>9
  <2>2. Minted(e) # NoItem /\ Minted(e).mint = e /\ Minted(e).last = e
    BY MintedType, NullAssumption DEF Minted, MintedItem
  <2>3. e \notin done
    BY <1>1, <1>9, StepBusy, NotYetDone DEF MintsOnce, KeptInv, ForkInv, SerialInv, MintsPending
  <2>4. e \in Ancestors[e] BY HistoryStep
  <2>5. ASSUME NEW f \in Event PROVE IsKept(f, item[Body[f].item])'
    <3>1. CASE f = e BY <1>2, <2>1, <2>2, <2>4, <3>1 DEF IsKept
    <3>2. CASE f # e /\ Body[f].item = i
      BY <1>3, <1>9, <2>1, <2>2, <2>3, <3>2, MintKeeps DEF IsKept
    <3>3. CASE f # e /\ Body[f].item # i
      BY <1>3, <1>5, <1>6, <1>9, <2>1, <3>3 DEF IsKept
    <3>4. QED BY <3>1, <3>2, <3>3
  <2>6. ASSUME NEW j \in Item, item'[j] # NoItem PROVE Type(item'[j].mint) = "ITEM_MINTED"
    BY <1>9, <2>1, <2>2, <2>6 DEF KeptInv
  <2>7. QED BY <2>5, <2>6
<1>10. CASE /\ Accept(t) /\ item' = [item EXCEPT ![i] = task[t].rec]
            /\ Type(e) \in ChainType
            /\ item[i] \in ItemRecord /\ ValidateTransition(item[i], Body[e])
            /\ task[t].rec = ApplyEvent(item[i], e, Body[e])
  <2>1. PICK old \in ItemRecord : old = item[i] BY <1>10
  <2>2. PICK new : new = ApplyEvent(old, e, Body[e]) OBVIOUS
  <2>3. new \in ItemRecord /\ new.mint = old.mint /\ new.last = e
    BY <1>10, <2>1, <2>2, ApplyType DEF ApplyEvent, ItemRecord
  <2>4. item'[i] = new /\ \A j \in Item : j # i => item'[j] = item[j]
    BY <1>4, <1>10, <2>1, <2>2
  <2>5. old # NoItem /\ new # NoItem BY <2>3, NullAssumption
  <2>6. Body[e].prev = old.last /\ old.last \in Event
    BY <1>10, <2>1 DEF ValidateTransition, ItemRecord
  <2>7. e \in Ancestors[e] /\ Ancestors[old.last] \subseteq Ancestors[e]
    BY <1>10, <2>6, HistoryStep DEF Type, ChainType
  <2>8. ASSUME NEW f \in Event PROVE IsKept(f, item[Body[f].item])'
    <3>1. CASE f = e BY <1>2, <2>3, <2>4, <2>5, <2>7, <3>1 DEF IsKept
    <3>2. CASE f # e /\ Body[f].item = i
      <4>1. IsKept(f, old) BY <1>6, <2>1, <3>2
      <4>2. QED BY <1>3, <1>10, <2>3, <2>4, <2>5, <2>7, <3>2, <4>1 DEF IsKept
    <3>3. CASE f # e /\ Body[f].item # i
      BY <1>3, <1>5, <1>6, <1>10, <2>4, <3>3 DEF IsKept
    <3>4. QED BY <3>1, <3>2, <3>3
  <2>9. ASSUME NEW j \in Item, item'[j] # NoItem PROVE Type(item'[j].mint) = "ITEM_MINTED"
    BY <2>1, <2>3, <2>4, <2>5, <2>9 DEF KeptInv
  <2>10. QED BY <2>8, <2>9
<1>11. Effect(t) BY TaskStepEffect DEF KeptInv, ForkInv
<1>12. Type(e) \in {"ITEM_AUTHENTICATED", "AUTHENTICATOR_REGISTERED"}
          => Type(e) \notin ChainType \cup {"ITEM_MINTED"}
  BY DEF ChainType
<1>13. QED BY <1>1, <1>2, <1>7, <1>8, <1>9, <1>10, <1>11, <1>12 DEF Effect

\* Every step keeps the invariant.
LEMMA NextKept ==
   ASSUME MintsOnce
   PROVE  KeptInv /\ Apart /\ [Next]_vars => KeptInv'
<1> SUFFICES ASSUME KeptInv, Apart, [Next]_vars PROVE KeptInv'
  OBVIOUS
<1>1. ForkInv' BY NextFork DEF KeptInv
<1>2. CASE \E t \in Task : TaskStep(t) BY <1>1, <1>2, EffectKeeps DEF KeptInv
<1>3. CASE ~(\E t \in Task : TaskStep(t))
  <2>1. UNCHANGED <<done, item>> BY <1>3, OtherSteps
  <2>2. QED BY <1>1, <2>1 DEF KeptInv, IsKept
<1>4. QED BY <1>2, <1>3

\* An accepted event is never undone, wherever the process dies, as long as
\* requests about one item are apart and a mint is sent once: the record, when
\* getItem can read it, has every accepted event of its mint in its history.
THEOREM AcceptedAlwaysKept ==
   ASSUME MintsOnce PROVE Spec /\ []Apart => []AcceptedIsKept
<1>1. KeptInv /\ Apart /\ [Next]_vars => KeptInv' BY NextKept
<1>2. Init => KeptInv BY InitFork DEF Init, KeptInv, IsKept
<1>3. ASSUME KeptInv PROVE AcceptedIsKept
  <2>1. \A f \in Event : Body[f].item \in Item BY BodyAssumption DEF EventBody
  <2>2. \A i \in Item : item[i] # NoItem => itemSt[i] # "absent"
    BY <1>3 DEF KeptInv, ForkInv, SerialInv, Covered
  <2>3. \A e \in accepted : e \in done /\ e \in Event
    BY <1>3 DEF KeptInv, ForkInv, SerialInv, SafeInv, TypeOK, AnswersAreDone
  <2>4. QED BY <1>3, <2>1, <2>2, <2>3 DEF KeptInv, IsKept, AcceptedIsKept
<1>4. QED BY <1>1, <1>2, <1>3, PTL DEF Spec
-----------------------------------------------------------------------------
(* The listing *)

\* An item has one mint, and only its mint and the events of its chain are
\* listed with it: an attestation takes a place the chain does not leave.
ItemsHaveChains ==
   /\ \A e, f \in Event :
         Type(e) = "ITEM_MINTED" /\ Type(f) = "ITEM_MINTED" /\ Body[e].item = Body[f].item => e = f
   /\ \A e \in Event : Type(e) \notin {"ITEM_AUTHENTICATED", "AUTHENTICATOR_REGISTERED"}

\* Signers do not put an event's time before its predecessor's, which a client
\* checks and submitEvent does not.
TimesOrdered ==
   \A e, f \in Event : Type(e) \in ChainType /\ Body[e].prev = f => Body[e].time >= Body[f].time

\* s lists S by height up to the last event of rec, each after its predecessor.
InOrder(s, S, rec) ==
   LET n == Cardinality(S) IN
   /\ n > 0 /\ s[n] = rec.last
   /\ \A f \in S : \E k \in 1..n : f = s[k]
   /\ \A k \in 1..n : Body[s[k]].height + n = rec.height + k
   /\ \A k \in 2..n : Body[s[k]].prev = s[k-1] /\ Body[s[k]].time >= Body[s[k-1]].time

\* S is the chain that leads to rec.
ChainOf(S, rec) ==
   /\ rec = NoItem => S = {}
   /\ rec # NoItem =>
         IsFiniteSet(S) /\ \E s \in [1..Cardinality(S) -> S] : InOrder(s, S, rec)

\* The request has its event listed and is to write the record of its item.
Saving(t, i) ==
   task[t].pc \in {"reread", "truncItem", "writeItem"} /\ Body[task[t].ev].item = i

\* Without a crash the listing of an item is the chain of its record, and one
\* event more while a request is between its two writes.
ListingFits(i) ==
   /\ (\A t \in Task : ~(task[t].pc = "writeItem" /\ Body[task[t].ev].item = i)) =>
         (item[i] # NoItem => itemSt[i] = "whole")
   /\ (\A t \in Task : ~Saving(t, i)) => ChainOf(index["events"][i], item[i])
   /\ \A t \in Task : Saving(t, i) =>
         \E S \in SUBSET Event :
            ChainOf(S, item[i]) /\ index["events"][i] = S \cup {task[t].ev}

\* A record goes back to the mint of its item.
MintOf(i) ==
   item[i] # NoItem => Type(item[i].mint) = "ITEM_MINTED" /\ Body[item[i].mint].item = i

ListInv ==
   /\ ForkInv
   /\ \A i \in Item : MintOf(i)
   /\ crashes = 0 => \A i \in Item : ListingFits(i)

\* No event of a chain is higher than the record.
LEMMA ChainHighest ==
   ASSUME NEW rec \in ItemRecord, NEW S \in SUBSET Event, ChainOf(S, rec), NEW f \in S
   PROVE  Body[f].height <= rec.height
<1>1. rec # NoItem BY NullAssumption
<1>2. PICK n : n = Cardinality(S) OBVIOUS
<1>3. n \in Nat BY <1>1, <1>2, FS_CardinalityType DEF ChainOf
<1>4. PICK s \in [1..n -> S] : InOrder(s, S, rec) BY <1>1, <1>2 DEF ChainOf
<1>5. PICK k \in 1..n : f = s[k] BY <1>2, <1>4 DEF InOrder
<1>6. Body[f].height + n = rec.height + k BY <1>2, <1>4, <1>5 DEF InOrder
<1>7. Body[f].height \in Nat /\ rec.height \in Nat BY BodyAssumption DEF EventBody, ItemRecord
<1>8. QED BY <1>3, <1>5, <1>6, <1>7

\* A mint is a chain of its own.
LEMMA ChainFirst ==
   ASSUME NEW e \in Event
   PROVE  ChainOf({e}, Minted(e))
<1>1. Minted(e) # NoItem /\ Minted(e).last = e BY MintedType, NullAssumption
<1>2. Minted(e).height = Body[e].height BY DEF Minted, MintedItem
<1>3. IsFiniteSet({e}) /\ Cardinality({e}) = 1 BY FS_Singleton
<1>4. Body[e].height \in Nat BY BodyAssumption DEF EventBody
<1>5. PICK s : s = [k \in 1..1 |-> e] OBVIOUS
<1>6. s \in [1..1 -> {e}] /\ s[1] = e BY <1>5
<1>7. /\ \A k \in 1..1 : Body[s[k]].height + 1 = Minted(e).height + k
      /\ \A f \in {e} : \E k \in 1..1 : f = s[k]
  BY <1>2, <1>4, <1>6
<1>8. \A k \in 2..1 : Body[s[k]].prev = s[k-1] /\ Body[s[k]].time >= Body[s[k-1]].time
  OBVIOUS
<1>9. InOrder(s, {e}, Minted(e))
  <2>1. PICK n : n = 1 OBVIOUS
  <2>2. /\ n > 0 /\ s[n] = Minted(e).last
        /\ \A f \in {e} : \E k \in 1..n : f = s[k]
        /\ \A k \in 1..n : Body[s[k]].height + n = Minted(e).height + k
        /\ \A k \in 2..n : Body[s[k]].prev = s[k-1] /\ Body[s[k]].time >= Body[s[k-1]].time
    BY <1>1, <1>6, <1>7, <1>8, <2>1
  <2>3. n = Cardinality({e}) BY <1>3, <2>1
  <2>4. QED BY <2>2, <2>3 DEF InOrder
<1>10. QED BY <1>1, <1>3, <1>6, <1>9 DEF ChainOf

\* An event that is legal for the record makes its chain longer by one.
LEMMA ChainNext ==
   ASSUME TimesOrdered, NEW rec \in ItemRecord, NEW S \in SUBSET Event, ChainOf(S, rec),
          NEW e \in Event, ValidateTransition(rec, Body[e])
   PROVE  ChainOf(S \cup {e}, ApplyEvent(rec, e, Body[e]))
<1>1. rec # NoItem /\ IsFiniteSet(S) BY NullAssumption DEF ChainOf
<1>2. PICK n : n = Cardinality(S) OBVIOUS
<1>3. n \in Nat BY <1>1, <1>2, FS_CardinalityType
<1>4. PICK s \in [1..n -> S] : InOrder(s, S, rec) BY <1>1, <1>2 DEF ChainOf
<1>5. /\ n > 0 /\ s[n] = rec.last
      /\ \A f \in S : \E k \in 1..n : f = s[k]
      /\ \A k \in 1..n : Body[s[k]].height + n = rec.height + k
      /\ \A k \in 2..n : Body[s[k]].prev = s[k-1] /\ Body[s[k]].time >= Body[s[k-1]].time
  BY <1>2, <1>4 DEF InOrder
<1>6. PICK new : new = ApplyEvent(rec, e, Body[e]) OBVIOUS
<1>7. new \in ItemRecord /\ new.last = e /\ Type(e) \in ChainType /\ Body[e].prev = rec.last
  BY <1>6, ApplyType DEF Type
<1>8. new.height = Body[e].height /\ Body[e].height = rec.height + 1
      /\ rec.height \in Nat /\ Body[e].height \in Nat
  BY <1>6, BodyAssumption DEF ApplyEvent, ValidateTransition, ItemRecord, EventBody
<1>9. e \notin S BY <1>8, ChainHighest
<1>10. IsFiniteSet(S \cup {e}) /\ Cardinality(S \cup {e}) = n + 1
  BY <1>1, <1>2, <1>9, FS_AddElement
<1>11. PICK r : r = [k \in 1..(n + 1) |-> IF k = n + 1 THEN e ELSE s[k]] OBVIOUS
<1>12. /\ r \in [1..(n + 1) -> S \cup {e}] /\ r[n + 1] = e
       /\ \A k \in 1..n : r[k] = s[k]
  BY <1>3, <1>4, <1>11
<1>13. \A f \in S \cup {e} : \E k \in 1..(n + 1) : f = r[k]
  <2>1. ASSUME NEW f \in S PROVE \E k \in 1..(n + 1) : f = r[k]
    <3>1. PICK k \in 1..n : f = s[k] BY <1>5
    <3>2. k \in 1..(n + 1) /\ f = r[k] BY <1>3, <1>12, <3>1
    <3>3. QED BY <3>2
  <2>2. n + 1 \in 1..(n + 1) BY <1>3
  <2>3. QED BY <1>12, <2>1, <2>2
<1>14. ASSUME NEW k \in 1..(n + 1) PROVE Body[r[k]].height + (n + 1) = new.height + k
  <2>1. CASE k = n + 1 BY <1>8, <1>12, <2>1
  <2>2. CASE k # n + 1
    <3>1. k \in 1..n BY <1>3, <2>2
    <3>2. Body[s[k]].height \in Nat BY <1>4, <3>1, BodyAssumption DEF EventBody
    <3>3. Body[s[k]].height + n = rec.height + k BY <1>5, <3>1
    <3>4. PICK h \in Nat : h = Body[s[k]].height BY <3>2
    <3>5. PICK g \in Nat : g = rec.height BY <1>8
    <3>6. h + n = g + k /\ k \in Nat BY <1>3, <3>1, <3>3, <3>4, <3>5
    <3>7. h + (n + 1) = (g + 1) + k BY <1>3, <3>6
    <3>8. QED BY <1>8, <1>12, <3>1, <3>4, <3>5, <3>7
  <2>3. QED BY <2>1, <2>2
<1>15. ASSUME NEW k \in 2..(n + 1)
       PROVE  Body[r[k]].prev = r[k-1] /\ Body[r[k]].time >= Body[r[k-1]].time
  <2>1. k - 1 \in 1..n BY <1>3
  <2>2. CASE k = n + 1
    <3>1. r[k] = e /\ r[k-1] = rec.last BY <1>3, <1>5, <1>12, <2>1, <2>2
    <3>2. rec.last \in Event BY DEF ItemRecord
    <3>3. QED BY <1>7, <3>1, <3>2 DEF TimesOrdered
  <2>3. CASE k # n + 1
    <3>1. k \in 2..n /\ k \in 1..n BY <1>3, <2>3
    <3>2. r[k] = s[k] /\ r[k-1] = s[k-1] BY <1>12, <2>1, <3>1
    <3>3. QED BY <1>5, <3>1, <3>2
  <2>4. QED BY <2>2, <2>3
<1>16. InOrder(r, S \cup {e}, new)
  <2>1. n + 1 > 0 /\ r[n + 1] = new.last BY <1>3, <1>7, <1>12
  <2>2. QED BY <1>10, <1>13, <1>14, <1>15, <2>1 DEF InOrder
<1>17. new # NoItem BY <1>7, NullAssumption
<1>18. ChainOf(S \cup {e}, new) BY <1>10, <1>12, <1>16, <1>17 DEF ChainOf
<1>19. QED BY <1>6, <1>18

\* A function from 1..n is a list of length n.
LEMMA ListLen ==
   ASSUME NEW S, NEW n \in Nat, NEW s \in [1..n -> S]
   PROVE  Len(s) = n
OBVIOUS

\* In order of height a chain is what validateEventChain accepts.
LEMMA ChainValid ==
   ASSUME NEW rec \in ItemRecord, NEW S \in SUBSET Event, ChainOf(S, rec)
   PROVE  /\ rec.last \in S
          /\ \E s \in [1..Cardinality(S) -> S] :
                /\ \A j, k \in DOMAIN s : j < k => Body[s[j]].height < Body[s[k]].height
                /\ ValidEventChain(s, Body)
<1>1. rec # NoItem /\ IsFiniteSet(S) BY NullAssumption DEF ChainOf
<1>2. PICK n : n = Cardinality(S) OBVIOUS
<1>3. n \in Nat BY <1>1, <1>2, FS_CardinalityType
<1>4. PICK s \in [1..n -> S] : InOrder(s, S, rec) BY <1>1, <1>2 DEF ChainOf
<1>5. /\ n > 0 /\ s[n] = rec.last
      /\ \A k \in 1..n : Body[s[k]].height + n = rec.height + k
      /\ \A k \in 2..n : Body[s[k]].prev = s[k-1] /\ Body[s[k]].time >= Body[s[k-1]].time
  BY <1>2, <1>4 DEF InOrder
<1>6. rec.height \in Nat BY DEF ItemRecord
<1>7. \A k \in 1..n : Body[s[k]].height \in Nat BY <1>4, BodyAssumption DEF EventBody
<1>8. \A j, k \in 1..n : j < k => Body[s[j]].height < Body[s[k]].height
  <2>1. TAKE j, k \in 1..n
  <2>2. PICK g \in Nat, h \in Nat, b \in Nat :
           g = Body[s[j]].height /\ h = Body[s[k]].height /\ b = rec.height
    BY <1>6, <1>7
  <2>3. g + n = b + j /\ h + n = b + k BY <1>5, <2>2
  <2>4. j < k => g < h BY <1>3, <2>3
  <2>5. QED BY <2>2, <2>4
<1>9. ASSUME NEW k \in 2..n PROVE Body[s[k]].height = Body[s[k-1]].height + 1
  <2>1. k \in 1..n /\ k - 1 \in 1..n BY <1>3
  <2>2. /\ Body[s[k]].height + n = rec.height + k
        /\ Body[s[k-1]].height + n = rec.height + (k - 1)
        /\ Body[s[k]].height \in Nat /\ Body[s[k-1]].height \in Nat
    BY <1>5, <1>7, <2>1
  <2>3. PICK g \in Nat, h \in Nat : g = Body[s[k]].height /\ h = Body[s[k-1]].height BY <2>2
  <2>4. g + n = rec.height + k /\ h + n = rec.height + (k - 1) /\ k \in Nat BY <1>3, <2>1, <2>2, <2>3
  <2>5. PICK b \in Nat : b = rec.height BY <1>6
  <2>6. g = h + 1 BY <1>3, <2>4, <2>5
  <2>7. QED BY <2>3, <2>6
<1>10. Len(s) = n BY <1>3, <1>4, ListLen
<1>11. ValidEventChain(s, Body) BY <1>5, <1>9, <1>10 DEF ValidEventChain
<1>12. rec.last \in S BY <1>3, <1>4, <1>5
<1>13. QED BY <1>2, <1>4, <1>8, <1>11, <1>12

\* What ListingFits says of item i when t is the only request about it.
FitsAlone(t, i) ==
   /\ ~(task[t].pc = "writeItem" /\ Body[task[t].ev].item = i) =>
         (item[i] # NoItem => itemSt[i] = "whole")
   /\ ~Saving(t, i) => ChainOf(index["events"][i], item[i])
   /\ Saving(t, i) =>
         \E S \in SUBSET Event :
            ChainOf(S, item[i]) /\ index["events"][i] = S \cup {task[t].ev}

LEMMA AloneBefore ==
   ASSUME NEW t \in Task, NEW i \in Item, ListingFits(i),
          \A u \in Task : u # t => ~(Busy(u) /\ Body[task[u].ev].item = i)
   PROVE  FitsAlone(t, i)
BY DEF ListingFits, FitsAlone, Saving, Busy

LEMMA AloneAfter ==
   ASSUME NEW t \in Task, NEW i \in Item, FitsAlone(t, i)',
          \A u \in Task : u # t => ~(Busy(u)' /\ Body[task'[u].ev].item = i)
   PROVE  ListingFits(i)'
BY DEF ListingFits, FitsAlone, Saving, Busy

\* What a request that writes is about: an event that is legal for the record
\* of its item, or the mint of an item that has none.
LEMMA WritesLegal ==
   ASSUME ForkInv, MintsOnce, ItemsHaveChains, NEW t \in Task, NEW e \in Event, e = task[t].ev,
          NEW i \in Item, i = Body[e].item, MintOf(i),
          task[t].pc \notin {"idle", "readItem", "readParty", "answer"}
   PROVE  \/ Type(e) = "ITEM_MINTED" /\ item[i] = NoItem
          \/ /\ Moves(e) /\ item[i] \in ItemRecord
             /\ ValidateTransition(item[i], Body[e]) /\ Type(e) \in ChainType
<1>1. item[i] \in ItemRecord \cup {NoItem} BY DEF ForkInv, SerialInv, SafeInv, TypeOK
<1>2. CASE Moves(e)
  <2>1. item[i] # NoItem /\ ValidateTransition(item[i], Body[e])
    BY <1>2 DEF ForkInv, SerialInv, Current
  <2>2. Type(e) \in ChainType BY <1>1, <2>1, ApplyType DEF Type
  <2>3. QED BY <1>1, <1>2, <2>1, <2>2
<1>3. CASE ~Moves(e)
  <2>1. Type(e) = "ITEM_MINTED" BY <1>3 DEF Moves, ItemsHaveChains
  <2>2. e \notin done BY <2>1 DEF MintsOnce, ForkInv, MintsPending, Busy
  <2>3. ASSUME item[i] # NoItem PROVE FALSE
    <3>1. item[i].mint \in Event BY <1>1, <2>3 DEF ItemRecord
    <3>2. item[i].mint = e BY <2>1, <2>3, <3>1 DEF MintOf, ItemsHaveChains
    <3>3. item[i].mint \in done BY <2>3 DEF ForkInv, ChainsBehind
    <3>4. QED BY <2>2, <3>2, <3>3
  <2>4. QED BY <2>1, <2>3
<1>4. QED BY <1>2, <1>3

\* Such an event is not on the chain yet.
LEMMA WritesNew ==
   ASSUME ForkInv, MintsOnce, ItemsHaveChains, NEW t \in Task, NEW e \in Event, e = task[t].ev,
          NEW i \in Item, i = Body[e].item, MintOf(i),
          task[t].pc \notin {"idle", "readItem", "readParty", "answer"},
          NEW S \in SUBSET Event, ChainOf(S, item[i])
   PROVE  e \notin S
<1>1. CASE item[i] = NoItem BY <1>1 DEF ChainOf
<1>2. CASE item[i] \in ItemRecord /\ ValidateTransition(item[i], Body[e])
  <2>1. PICK h \in Nat : h = item[i].height BY <1>2 DEF ItemRecord
  <2>2. PICK g : g = Body[e].height /\ g = h + 1 BY <1>2, <2>1 DEF ValidateTransition
  <2>3. e \in S => g <= h BY <1>2, <2>1, <2>2, ChainHighest
  <2>4. ~(g <= h) BY <2>2
  <2>5. QED BY <2>3, <2>4
<1>3. QED BY <1>1, <1>2, WritesLegal

\* After saveEvent the request goes on to write the item.
LEMMA AfterSaveGoesOn ==
   ASSUME SafeInv, ItemsHaveChains, NEW t \in Task, NEW e \in Event, e = task[t].ev, AfterSave(t)
   PROVE  task'[t].ev = e /\ task'[t].pc \in {"reread", "truncItem"} /\ task[t].kind = "events"
<1>1. task[t] \in TaskRecord /\ task \in [Task -> TaskRecord] BY DEF SafeInv, TypeOK
<1>2. Type(e) \notin {"ITEM_AUTHENTICATED", "AUTHENTICATOR_REGISTERED"} BY DEF ItemsHaveChains
<1>3. task[t].kind # "attestations" BY <1>2 DEF SafeInv, TaskSafe
<1>4. task[t].kind = "events" BY <1>1, <1>3 DEF TaskRecord, Kind
<1>5. CASE Type(e) = "ITEM_MINTED"
  <2>1. task' = [task EXCEPT ![t].pc = "truncItem", ![t].rec = Minted(e), ![t].ids = {}]
    BY <1>3, <1>5 DEF AfterSave, NewRecord
  <2>2. QED BY <1>1, <1>4, <2>1 DEF TaskRecord
<1>6. CASE Type(e) # "ITEM_MINTED"
  <2>1. task' = [task EXCEPT ![t].pc = "reread", ![t].ids = {}]
    BY <1>2, <1>3, <1>6 DEF AfterSave
  <2>2. QED BY <1>1, <1>4, <2>1 DEF TaskRecord
<1>7. QED BY <1>5, <1>6

\* A step before the event is listed.
LEMMA ListEarly ==
   ASSUME SafeInv, NEW t \in Task, NEW i \in Item, FitsAlone(t, i),
          task[t].pc \notin {"reread", "truncItem", "writeItem"},
          task'[t].pc \notin {"reread", "truncItem", "writeItem"},
          UNCHANGED <<index, itemSt, item>>
   PROVE  FitsAlone(t, i)'
BY DEF FitsAlone, Saving

LEMMA EarlySteps ==
   ASSUME SafeInv, NEW t \in Task,
          \/ ReadItem(t) \/ ReadParty(t) \/ TruncFile(t) \/ WriteFile(t) \/ TruncIndex(t)
          \/ ReadIndex(t) /\ ~AfterSave(t)
          \/ Answer(t)
   PROVE  /\ task[t].pc \notin {"reread", "truncItem", "writeItem"}
          /\ task'[t].pc \notin {"reread", "truncItem", "writeItem"}
          /\ UNCHANGED <<index, itemSt, item>>
<1>1. task \in [Task -> TaskRecord] BY DEF SafeInv, TypeOK
<1>2. CASE ReadItem(t) BY <1>1, <1>2 DEF ReadItem, Refuse, Idle, disk, TaskRecord
<1>3. CASE ReadParty(t) BY <1>1, <1>3 DEF ReadParty, Goto, Refuse, Idle, disk, TaskRecord
<1>4. CASE TruncFile(t) \/ WriteFile(t) \/ TruncIndex(t)
  BY <1>1, <1>4 DEF TruncFile, WriteFile, TruncIndex, Goto, TaskRecord
<1>5. CASE ReadIndex(t) /\ ~AfterSave(t)
  <2>1. CASE \E ids : task' = [task EXCEPT ![t].pc = "truncIndex", ![t].ids = ids]
    BY <1>1, <1>5, <2>1 DEF ReadIndex, disk, TaskRecord
  <2>2. CASE Refuse(t) BY <1>1, <1>5, <2>2 DEF ReadIndex, Refuse, Idle, disk
  <2>3. QED BY <1>5, <2>1, <2>2 DEF ReadIndex
<1>6. CASE Answer(t) BY <1>1, <1>6 DEF Answer, Idle, disk
<1>7. QED BY <1>2, <1>3, <1>4, <1>5, <1>6

\* The event is listed: the chain and one more.
LEMMA ListWriteIndex ==
   ASSUME ForkInv, MintsOnce, ItemsHaveChains, NEW t \in Task, NEW e \in Event, e = task[t].ev,
          NEW i \in Item, i = Body[e].item, MintOf(i), FitsAlone(t, i), WriteIndex(t)
   PROVE  FitsAlone(t, i)'
<1>1. task[t].pc = "writeIndex" /\ AfterSave(t) /\ UNCHANGED <<itemSt, item>> BY DEF WriteIndex
<1>2. SafeInv /\ SerialInv BY DEF ForkInv, SerialInv
<1>3. task'[t].ev = e /\ task'[t].pc \in {"reread", "truncItem"} /\ task[t].kind = "events"
  BY <1>1, <1>2, AfterSaveGoesOn
<1>4. indexSt["events"][i] = "empty" /\ task[t].ids = index["events"][i]
  BY <1>1, <1>2, <1>3 DEF SerialInv, Current
<1>5. index' = [index EXCEPT !["events"][i] = index["events"][i] \cup {e}]
  BY <1>3, <1>4 DEF WriteIndex, Lands, Appended
<1>6. "events" \in Kind /\ index \in [Kind -> [Item -> SUBSET Event]]
  BY <1>2 DEF Kind, SafeInv, TypeOK
<1>7. index'["events"][i] = index["events"][i] \cup {e} /\ index["events"][i] \in SUBSET Event
  BY <1>5, <1>6
<1>8. ChainOf(index["events"][i], item[i]) /\ (item[i] # NoItem => itemSt[i] = "whole")
  BY <1>1 DEF FitsAlone, Saving
<1>9. Saving(t, i)' BY <1>3 DEF Saving
<1>10. \E S \in SUBSET Event : ChainOf(S, item'[i]) /\ index'["events"][i] = S \cup {task'[t].ev}
  BY <1>1, <1>3, <1>7, <1>8
<1>11. QED BY <1>1, <1>8, <1>9, <1>10 DEF FitsAlone

\* A listed event is not sent to the end of saveEvent again.
LEMMA ListReadIndex ==
   ASSUME ForkInv, MintsOnce, ItemsHaveChains, NEW t \in Task, NEW e \in Event, e = task[t].ev,
          NEW i \in Item, i = Body[e].item, MintOf(i), FitsAlone(t, i), ReadIndex(t)
   PROVE  FitsAlone(t, i)'
<1>1. task[t].pc = "readIndex" /\ SafeInv BY DEF ReadIndex, ForkInv, SerialInv
<1>2. ChainOf(index["events"][i], item[i]) BY <1>1 DEF FitsAlone, Saving
<1>3. index["events"][i] \in SUBSET Event BY <1>1 DEF SafeInv, TypeOK, Kind
<1>4. e \notin index["events"][i] BY SMTT(30), <1>1, <1>2, <1>3, WritesNew
<1>5. ~AfterSave(t)
  <2>1. SUFFICES ASSUME AfterSave(t) PROVE FALSE
    OBVIOUS
  <2>2. task[t].kind = "events" /\ task'[t].pc \in {"reread", "truncItem"}
    BY <1>1, <2>1, AfterSaveGoesOn
  <2>3. CASE Refuse(t) BY <1>1, <2>2, <2>3 DEF Refuse, Idle, SafeInv, TypeOK
  <2>4. CASE \E ids : task' = [task EXCEPT ![t].pc = "truncIndex", ![t].ids = ids]
    BY <1>1, <2>2, <2>4 DEF SafeInv, TypeOK, TaskRecord
  <2>5. QED BY <1>4, <2>2, <2>3, <2>4 DEF ReadIndex
<1>6. QED BY <1>1, <1>5, EarlySteps, ListEarly

\* The item is read again and is as it was.
LEMMA ListReread ==
   ASSUME ForkInv, MintsOnce, ItemsHaveChains, NEW t \in Task, NEW e \in Event, e = task[t].ev,
          NEW i \in Item, i = Body[e].item, MintOf(i), FitsAlone(t, i), Reread(t)
   PROVE  FitsAlone(t, i)'
<1>1. task[t].pc = "reread" /\ UNCHANGED disk /\ SafeInv BY DEF Reread, ForkInv, SerialInv
<1>2. Moves(e) BY <1>1 DEF ForkInv, SerialInv, Current
<1>3. item[i] # NoItem /\ ValidateTransition(item[i], Body[e])
  BY <1>1, <1>2 DEF ForkInv, SerialInv, Current
<1>4. itemSt[i] = "whole" BY <1>1, <1>3 DEF FitsAlone
<1>5. PICK rec : task' = [task EXCEPT ![t].pc = "truncItem", ![t].rec = rec]
  BY <1>3, <1>4 DEF Reread
<1>6. task'[t].pc = "truncItem" /\ task'[t].ev = e BY <1>1, <1>5 DEF SafeInv, TypeOK, TaskRecord
<1>7. Saving(t, i) BY <1>1 DEF Saving
<1>8. UNCHANGED <<index, itemSt, item>> BY <1>1 DEF disk
<1>9. QED BY <1>4, <1>6, <1>7, <1>8 DEF FitsAlone, Saving

\* The item's file is open and empty.
LEMMA ListTruncItem ==
   ASSUME ForkInv, NEW t \in Task, NEW e \in Event, e = task[t].ev,
          NEW i \in Item, i = Body[e].item, FitsAlone(t, i), TruncItem(t)
   PROVE  FitsAlone(t, i)'
<1>1. task[t].pc = "truncItem" /\ UNCHANGED <<index, item>> /\ SafeInv
      /\ task' = [task EXCEPT ![t].pc = "writeItem"]
  BY DEF TruncItem, Goto, ForkInv, SerialInv
<1>2. task'[t].pc = "writeItem" /\ task'[t].ev = e BY <1>1 DEF SafeInv, TypeOK, TaskRecord
<1>3. QED BY <1>1, <1>2 DEF FitsAlone, Saving

\* The record is written and the chain is its chain again.
LEMMA ListWriteItem ==
   ASSUME ForkInv, MintsOnce, ItemsHaveChains, TimesOrdered, NEW t \in Task, NEW e \in Event,
          e = task[t].ev, NEW i \in Item, i = Body[e].item, MintOf(i), FitsAlone(t, i),
          WriteItem(t)
   PROVE  FitsAlone(t, i)'
<1>1. task[t].pc = "writeItem" /\ UNCHANGED index /\ SafeInv /\ SerialInv /\ Accept(t)
  BY DEF WriteItem, ForkInv, SerialInv
<1>2. Grows BY <1>1, TaskStepGrows DEF SafeInv, TaskStep
<1>3. item' = [item EXCEPT ![i] = task[t].rec] BY <1>1, <1>2, WriteItemOwn
<1>4. task[t].rec.item = i BY <1>1 DEF SafeInv, TaskSafe
<1>5. itemSt[i] = "empty" BY <1>1 DEF SerialInv, Current
<1>6. itemSt' = [itemSt EXCEPT ![i] = "whole"] BY <1>4, <1>5 DEF WriteItem, Lands
<1>7. itemSt'[i] = "whole" /\ item'[i] = task[t].rec BY <1>1, <1>3, <1>6 DEF SafeInv, TypeOK
<1>8. task'[t] = [Idle EXCEPT !.pc = "answer", !.ev = e] BY <1>1 DEF Accept, SafeInv, TypeOK
<1>9. PICK S \in SUBSET Event : ChainOf(S, item[i]) /\ index["events"][i] = S \cup {e}
  BY <1>1 DEF FitsAlone, Saving
<1>10. ChainOf(S \cup {e}, task[t].rec)
  <2>1. CASE Type(e) = "ITEM_MINTED" /\ item[i] = NoItem
    <3>1. task[t].rec = Minted(e) BY <1>1, <2>1, ReplayMint DEF SafeInv, TaskSafe
    <3>2. S \cup {e} = {e} BY <1>9, <2>1 DEF ChainOf
    <3>3. QED BY <3>1, <3>2, ChainFirst
  <2>2. CASE /\ Moves(e) /\ item[i] \in ItemRecord
             /\ ValidateTransition(item[i], Body[e]) /\ Type(e) \in ChainType
    <3>1. task[t].rec = ApplyEvent(item[i], e, Body[e]) BY <1>1, <2>2 DEF SerialInv, Current
    <3>2. PICK rec \in ItemRecord : rec = item[i] BY <2>2
    <3>3. ChainOf(S \cup {e}, ApplyEvent(rec, e, Body[e])) BY <1>9, <2>2, <3>2, ChainNext
    <3>4. QED BY <3>1, <3>2, <3>3
  <2>3. QED BY <1>1, <2>1, <2>2, WritesLegal
<1>11. ChainOf(index'["events"][i], item'[i]) BY <1>1, <1>7, <1>9, <1>10
<1>12. task'[t].pc = "answer" BY <1>8 DEF Idle
<1>13. QED BY <1>7, <1>11, <1>12 DEF FitsAlone, Saving

\* A step of a request keeps the listing of its item, and touches no other.
LEMMA TaskStepList ==
   ASSUME ListInv, Apart, MintsOnce, ItemsHaveChains, TimesOrdered, crashes = 0,
          NEW t \in Task, TaskStep(t)
   PROVE  \A j \in Item : ListingFits(j)'
<1>1. PICK e \in Event : e = task[t].ev BY StepBusy, BusyEvent DEF ListInv, ForkInv, SerialInv
<1>2. PICK i \in Item : i = Body[e].item BY BodyAssumption DEF EventBody
<1>3. SerialInv /\ SafeInv /\ ForkInv /\ MintOf(i) /\ ListingFits(i)
  BY DEF ListInv, ForkInv, SerialInv
<1>4. Elsewhere(i) BY <1>1, <1>2, <1>3, TaskStepOwn
<1>5. ASSUME NEW u \in Task, u # t
      PROVE  task'[u] = task[u] /\ ~(Busy(u) /\ Body[task[u].ev].item = i)
  <2>1. task'[u] = task[u]
    BY <1>3, <1>5 DEF TaskStep, ReadItem, ReadParty, TruncFile, WriteFile, ReadIndex, TruncIndex,
       WriteIndex, Reread, TruncItem, WriteItem, Answer, AfterSave, Refuse, Accept, Goto,
       SafeInv, TypeOK
  <2>2. QED BY <1>1, <1>2, <1>5, <2>1, StepBusy DEF Apart
<1>6. FitsAlone(t, i) BY <1>3, <1>5, AloneBefore
<1>7. FitsAlone(t, i)'
  <2>1. CASE \/ ReadItem(t) \/ ReadParty(t) \/ TruncFile(t) \/ WriteFile(t) \/ TruncIndex(t)
             \/ Answer(t)
    BY <1>3, <1>6, <2>1, EarlySteps, ListEarly
  <2>2. CASE ReadIndex(t) BY <1>1, <1>2, <1>3, <1>6, <2>2, ListReadIndex
  <2>3. CASE WriteIndex(t) BY <1>1, <1>2, <1>3, <1>6, <2>3, ListWriteIndex
  <2>4. CASE Reread(t) BY <1>1, <1>2, <1>3, <1>6, <2>4, ListReread
  <2>5. CASE TruncItem(t) BY <1>1, <1>2, <1>3, <1>6, <2>5, ListTruncItem
  <2>6. CASE WriteItem(t) BY <1>1, <1>2, <1>3, <1>6, <2>6, ListWriteItem
  <2>7. QED BY <2>1, <2>2, <2>3, <2>4, <2>5, <2>6 DEF TaskStep
<1>8. \A u \in Task : u # t => ~(Busy(u)' /\ Body[task'[u].ev].item = i)
  BY <1>5 DEF Busy
<1>9. ListingFits(i)' BY <1>7, <1>8, AloneAfter
<1>10. ASSUME NEW j \in Item, j # i PROVE ListingFits(j)'
  <2>1. item'[j] = item[j] /\ itemSt'[j] = itemSt[j] /\ index'["events"][j] = index["events"][j]
    BY <1>4, <1>10 DEF Elsewhere, Kind
  <2>2. ListingFits(j) BY <1>10 DEF ListInv
  <2>3. Body[task[t].ev].item # j BY <1>1, <1>2, <1>10
  <2>4. task'[t].pc = "idle" \/ Body[task'[t].ev].item # j
    BY <1>1, <1>3, <2>3, SameEvent DEF Idle
  <2>5. \A u \in Task : u # t => task'[u] = task[u] BY <1>5
  <2>6. \A u \in Task : /\ Saving(u, j)' <=> Saving(u, j)
                        /\ Saving(u, j) => task'[u] = task[u]
                        /\ (task'[u].pc = "writeItem" /\ Body[task'[u].ev].item = j)
                           <=> (task[u].pc = "writeItem" /\ Body[task[u].ev].item = j)
    BY <2>3, <2>4, <2>5 DEF Saving
  <2>7. QED BY <2>1, <2>2, <2>6 DEF ListingFits
<1>11. QED BY <1>9, <1>10

\* The mint of a record is set when it is written.
LEMMA TaskStepMint ==
   ASSUME ListInv, NEW t \in Task, TaskStep(t), NEW j \in Item
   PROVE  MintOf(j)'
<1>1. PICK e \in Event : e = task[t].ev BY StepBusy, BusyEvent DEF ListInv, ForkInv, SerialInv
<1>2. PICK i \in Item : i = Body[e].item BY BodyAssumption DEF EventBody
<1>3. SerialInv /\ MintOf(j) /\ item \in [Item -> ItemRecord \cup {NoItem}]
  BY DEF ListInv, ForkInv, SerialInv, SafeInv, TypeOK
<1>4. CASE item' = item BY <1>3, <1>4 DEF MintOf
<1>5. CASE item' = [item EXCEPT ![i] = task[t].rec] /\ Type(e) = "ITEM_MINTED" /\ task[t].rec = Minted(e)
  BY <1>2, <1>3, <1>5 DEF MintOf, Minted, MintedItem
<1>6. CASE /\ item' = [item EXCEPT ![i] = task[t].rec] /\ item[i] \in ItemRecord
           /\ task[t].rec = ApplyEvent(item[i], e, Body[e])
  <2>1. PICK old \in ItemRecord : old = item[i] BY <1>6
  <2>2. ApplyEvent(old, e, Body[e]).mint = old.mint BY DEF ApplyEvent, ItemRecord
  <2>3. old # NoItem BY NullAssumption
  <2>4. QED BY <1>3, <1>6, <2>1, <2>2, <2>3 DEF MintOf, ListInv
<1>7. QED BY <1>1, <1>2, <1>3, <1>4, <1>5, <1>6, TaskStepEffect DEF Effect

\* The other steps.
LEMMA KeepListing ==
   ASSUME NEW i \in Item, ListingFits(i), UNCHANGED <<index, itemSt, item>>,
          \A t \in Task : task'[t] = task[t] \/
             {task[t].pc, task'[t].pc} \cap {"reread", "truncItem", "writeItem"} = {}
   PROVE  ListingFits(i)'
<1>1. \A t \in Task : /\ Saving(t, i)' <=> Saving(t, i)
                      /\ Saving(t, i) => task'[t] = task[t]
                      /\ (task'[t].pc = "writeItem" /\ Body[task'[t].ev].item = i)
                         <=> (task[t].pc = "writeItem" /\ Body[task[t].ev].item = i)
  BY DEF Saving
<1>2. QED BY <1>1 DEF ListingFits

LEMMA InitList == Init => ListInv
<1> SUFFICES ASSUME Init PROVE ListInv
  OBVIOUS
<1>1. ForkInv BY InitFork
<1>2. \A i \in Item : MintOf(i) BY DEF Init, MintOf
<1>3. "events" \in Kind BY DEF Kind
<1>4. \A i \in Item : ListingFits(i)
  BY <1>3 DEF Init, ListingFits, Saving, Idle, ChainOf
<1>5. QED BY <1>1, <1>2, <1>4 DEF ListInv

LEMMA NextList ==
   ASSUME MintsOnce, ItemsHaveChains, TimesOrdered
   PROVE  ListInv /\ Apart /\ [Next]_vars => ListInv'
<1> SUFFICES ASSUME ListInv, Apart, [Next]_vars PROVE ListInv'
  OBVIOUS
<1>1. ForkInv' BY NextFork DEF ListInv
<1>2. task \in [Task -> TaskRecord] /\ crashes \in Nat
  BY DEF ListInv, ForkInv, SerialInv, SafeInv, TypeOK
<1>3. ASSUME NEW t \in Task, TaskStep(t) PROVE ListInv'
  <2>1. crashes' = crashes
    BY <1>3 DEF TaskStep, ReadItem, ReadParty, TruncFile, WriteFile, ReadIndex, TruncIndex,
       WriteIndex, Reread, TruncItem, WriteItem, Answer
  <2>2. QED BY <1>1, <1>3, <2>1, TaskStepList, TaskStepMint DEF ListInv
<1>4. CASE ~(\E t \in Task : TaskStep(t))
  <2>1. UNCHANGED item BY <1>4, OtherSteps
  <2>2. \A i \in Item : MintOf(i)' BY <2>1 DEF ListInv, MintOf
  <2>3. CASE Crash
    <3>1. crashes' # 0 BY <1>2, <2>3 DEF Crash
    <3>2. QED BY <1>1, <2>2, <3>1 DEF ListInv
  <2>4. CASE \E t \in Task, e \in Event, sigs \in SigLists : Submit(t, e, sigs)
    <3>1. PICK t \in Task, e \in Event, sigs \in SigLists : Submit(t, e, sigs) BY <2>4
    <3>2. UNCHANGED <<index, itemSt, item, crashes>> /\ task[t].pc = "idle"
          /\ (task' = task \/ task' = [task EXCEPT ![t] =
                 [Idle EXCEPT !.pc = FirstRead(Type(e)), !.ev = e, !.sigs = sigs]])
      BY <3>1 DEF Submit, disk
    <3>3. FirstRead(Type(e)) \notin {"reread", "truncItem", "writeItem"} BY DEF FirstRead
    <3>4. ASSUME NEW u \in Task
          PROVE  task'[u] = task[u] \/
                 {task[u].pc, task'[u].pc} \cap {"reread", "truncItem", "writeItem"} = {}
      BY <1>2, <3>2, <3>3 DEF Idle
    <3>5. crashes = 0 => \A i \in Item : ListingFits(i)'
      BY <3>2, <3>4, KeepListing DEF ListInv
    <3>6. QED BY <1>1, <2>2, <3>2, <3>5 DEF ListInv
  <2>5. CASE UNCHANGED <<index, itemSt, item, task, crashes>>
    <3>1. crashes = 0 => \A i \in Item : ListingFits(i)' BY <2>5, KeepListing DEF ListInv
    <3>2. QED BY <1>1, <2>2, <2>5, <3>1 DEF ListInv
  <2>6. QED
    BY <1>4, <2>3, <2>4, <2>5
       DEF Next, ReadProofItem, ReadProofIndex, ReadProofFile, TruncParty, WriteParty, Tick, vars, disk
<1>5. QED BY <1>3, <1>4

\* Without a crash, what a client is shown of an item between requests is a
\* chain that validateEventChain accepts and that ends at the item's record, as
\* long as requests about one item are apart, an item is minted once, nothing
\* but its chain is listed with it, and signers keep the order of time.
THEOREM ListingAlwaysValid ==
   ASSUME MintsOnce, ItemsHaveChains, TimesOrdered
   PROVE  Spec /\ []Apart => []ListedChainIsValid
<1>1. ListInv /\ Apart /\ [Next]_vars => ListInv' BY NextList
<1>2. ListInv => ListedChainIsValid
  <2> SUFFICES ASSUME ListInv, crashes = 0, \A t \in Task : task[t].pc = "idle",
                      NEW i \in Item, item[i] # NoItem
               PROVE  LET L == index["events"][i] IN
                      \E s \in [1..Cardinality(L) -> L] :
                         /\ \A j, k \in DOMAIN s : j < k => Body[s[j]].height < Body[s[k]].height
                         /\ ValidEventChain(s, Body)
                         /\ item[i].last \in L
    BY DEF ListedChainIsValid
  <2>1. ChainOf(index["events"][i], item[i]) BY DEF ListInv, ListingFits, Saving
  <2>2. item[i] \in ItemRecord /\ index["events"][i] \in SUBSET Event
    BY DEF ListInv, ForkInv, SerialInv, SafeInv, TypeOK, Kind
  <2>3. PICK rec \in ItemRecord, L \in SUBSET Event : rec = item[i] /\ L = index["events"][i]
    BY <2>2
  <2>4. QED BY <2>1, <2>3, ChainValid
<1>3. QED BY <1>1, <1>2, InitList, PTL DEF Spec
-----------------------------------------------------------------------------
(* Nothing is left behind *)

\* Request t saves event e, or has saved it and goes on.
Carries(t, e) ==
   task[t].ev = e /\ task[t].pc \notin {"idle", "readItem", "readParty"}

\* The files of item i are whole, but for the one a request is writing.
FilesWhole(i) ==
   /\ \/ itemSt[i] \in {"absent", "whole"}
      \/ \E t \in Task : task[t].pc = "writeItem" /\ Body[task[t].ev].item = i
   /\ \A k \in Kind :
         \/ indexSt[k][i] \in {"absent", "whole"}
         \/ \E t \in Task :
               task[t].pc = "writeIndex" /\ task[t].kind = k /\ Body[task[t].ev].item = i

\* As long as nothing has crashed, an event that is in the store was accepted
\* or its request is still under way.
NothingLeftBehind ==
   crashes = 0 => \A e \in Event : Stored(e) => e \in accepted \/ \E t \in Task : Carries(t, e)

LeftInv ==
   /\ SerialInv /\ NothingLeftBehind
   /\ crashes = 0 => \A i \in Item : FilesWhole(i)

\* What FilesWhole says of item i when t is the only request about it.
WholeAlone(t, i) ==
   /\ itemSt[i] \in {"absent", "whole"} \/ task[t].pc = "writeItem"
   /\ \A k \in Kind :
         \/ indexSt[k][i] \in {"absent", "whole"}
         \/ task[t].pc = "writeIndex" /\ task[t].kind = k

LEMMA WholeBefore ==
   ASSUME NEW t \in Task, NEW i \in Item, FilesWhole(i),
          \A u \in Task : u # t => ~(Busy(u) /\ Body[task[u].ev].item = i)
   PROVE  WholeAlone(t, i)
<1>1. ASSUME NEW u \in Task, task[u].pc # "idle", Body[task[u].ev].item = i PROVE u = t
  BY <1>1 DEF Busy
<1>2. itemSt[i] \in {"absent", "whole"} \/ task[t].pc = "writeItem"
  BY <1>1 DEF FilesWhole
<1>3. ASSUME NEW k \in Kind
      PROVE  \/ indexSt[k][i] \in {"absent", "whole"}
             \/ task[t].pc = "writeIndex" /\ task[t].kind = k
  BY <1>1 DEF FilesWhole
<1>4. QED BY <1>2, <1>3 DEF WholeAlone

\* A request that has begun to save is not refused.
LEMMA NotRefused ==
   ASSUME SerialInv, NEW t \in Task, NEW e \in Event, Carries(t, e), TaskStep(t),
          WholeAlone(t, Body[e].item)
   PROVE  Answer(t) \/ Carries(t, e)'
<1> DEFINE i == Body[e].item
<1>1. /\ SafeInv /\ task \in [Task -> TaskRecord] /\ task[t] \in TaskRecord
      /\ i \in Item /\ task[t].kind \in Kind /\ e = task[t].ev
  BY BodyAssumption DEF SerialInv, SafeInv, TypeOK, TaskRecord, EventBody, Carries
<1>a. CASE Accept(t)
  <2>1. task'[t] = [Idle EXCEPT !.pc = "answer", !.ev = e] BY <1>1, <1>a DEF Accept
  <2>2. QED BY <2>1 DEF Carries, Idle
<1>2. CASE TruncFile(t) \/ WriteFile(t) \/ TruncIndex(t) \/ TruncItem(t)
  <2>1. PICK pc \in {"writeFile", "readIndex", "writeIndex", "writeItem"} :
           task' = [task EXCEPT ![t].pc = pc]
    BY <1>2 DEF TruncFile, WriteFile, TruncIndex, TruncItem, Goto
  <2>2. task'[t].pc = pc /\ task'[t].ev = e BY <1>1, <2>1 DEF TaskRecord
  <2>3. QED BY <2>2 DEF Carries
<1>3. ASSUME AfterSave(t), ~Accept(t) PROVE Carries(t, e)'
  <2>1. CASE Type(e) = "ITEM_AUTHENTICATED"
    <3>1. task' = [task EXCEPT ![t].pc = "truncFile", ![t].kind = "attestations", ![t].ids = {}]
      BY <1>1, <1>3, <2>1 DEF AfterSave
    <3>2. task'[t].pc = "truncFile" /\ task'[t].ev = e BY <1>1, <3>1 DEF TaskRecord
    <3>3. QED BY <3>2 DEF Carries
  <2>2. CASE Type(e) = "ITEM_MINTED"
    <3>1. task' = [task EXCEPT ![t].pc = "truncItem", ![t].rec = NewRecord(e), ![t].ids = {}]
      BY <1>1, <1>3, <2>2 DEF AfterSave
    <3>2. task'[t].pc = "truncItem" /\ task'[t].ev = e BY <1>1, <3>1 DEF TaskRecord
    <3>3. QED BY <3>2 DEF Carries
  <2>3. CASE Type(e) \notin {"ITEM_AUTHENTICATED", "ITEM_MINTED"}
    <3>1. task' = [task EXCEPT ![t].pc = "reread", ![t].ids = {}]
      BY <1>1, <1>3, <2>3 DEF AfterSave
    <3>2. task'[t].pc = "reread" /\ task'[t].ev = e BY <1>1, <3>1 DEF TaskRecord
    <3>3. QED BY <3>2 DEF Carries
  <2>4. QED BY <2>1, <2>2, <2>3
<1>4. CASE ReadIndex(t)
  <2>1. task[t].pc = "readIndex" BY <1>4 DEF ReadIndex
  <2>2. indexSt[task[t].kind][i] \in {"absent", "whole"} BY <1>1, <2>1 DEF WholeAlone
  <2>3. \/ AfterSave(t)
        \/ \E ids : task' = [task EXCEPT ![t].pc = "truncIndex", ![t].ids = ids]
    BY <1>1, <1>4, <2>2 DEF ReadIndex, NoIndexYet
  <2>4. CASE \E ids : task' = [task EXCEPT ![t].pc = "truncIndex", ![t].ids = ids]
    <3>1. task'[t].pc = "truncIndex" /\ task'[t].ev = e BY <1>1, <2>4 DEF TaskRecord
    <3>2. QED BY <3>1 DEF Carries
  <2>5. QED BY <1>a, <1>3, <2>3, <2>4
<1>5. CASE WriteIndex(t) BY <1>a, <1>3, <1>5 DEF WriteIndex
<1>6. CASE Reread(t)
  <2>1. task[t].pc = "reread" BY <1>6 DEF Reread
  <2>2. itemSt[i] \in {"absent", "whole"} BY <2>1 DEF WholeAlone
  <2>3. ValidateTransition(item[i], Body[e]) BY <1>1, <2>1 DEF SerialInv, Current
  <2>4. \/ Accept(t)
        \/ \E rec : task' = [task EXCEPT ![t].pc = "truncItem", ![t].rec = rec]
    BY <1>1, <1>6, <2>2, <2>3 DEF Reread
  <2>5. CASE \E rec : task' = [task EXCEPT ![t].pc = "truncItem", ![t].rec = rec]
    <3>1. task'[t].pc = "truncItem" /\ task'[t].ev = e BY <1>1, <2>5 DEF TaskRecord
    <3>2. QED BY <3>1 DEF Carries
  <2>6. QED BY <1>a, <2>4, <2>5
<1>7. CASE ReadItem(t) \/ ReadParty(t) BY <1>7 DEF ReadItem, ReadParty, Carries
<1>8. CASE WriteItem(t) BY <1>a, <1>8 DEF WriteItem
<1>9. QED BY <1>2, <1>4, <1>5, <1>6, <1>7, <1>8 DEF TaskStep

\* A request leaves its item's files whole, or the one it opens to itself.
LEMMA StepWhole ==
   ASSUME SerialInv, NEW t \in Task, NEW e \in Event, e = task[t].ev, TaskStep(t),
          WholeAlone(t, Body[e].item)
   PROVE  WholeAlone(t, Body[e].item)'
<1> DEFINE i == Body[e].item
           k == task[t].kind
<1>1. /\ task \in [Task -> TaskRecord] /\ task[t] \in TaskRecord
      /\ i \in Item /\ k \in Kind
      /\ indexSt \in [Kind -> [Item -> FileState]] /\ itemSt \in [Item -> FileState]
  BY BodyAssumption DEF SerialInv, SafeInv, TypeOK, TaskRecord, EventBody
<1>2. CASE \/ ReadItem(t) \/ ReadParty(t) \/ TruncFile(t) \/ WriteFile(t) \/ ReadIndex(t)
           \/ Reread(t) \/ Answer(t)
  <2>1. UNCHANGED <<itemSt, indexSt>> /\ task[t].pc \notin {"writeItem", "writeIndex"}
    BY <1>2 DEF ReadItem, ReadParty, TruncFile, WriteFile, ReadIndex, Reread, Answer, disk
  <2>2. itemSt[i] \in {"absent", "whole"} /\ \A l \in Kind : indexSt[l][i] \in {"absent", "whole"}
    BY <2>1 DEF WholeAlone
  <2>3. itemSt'[i] = itemSt[i] /\ \A l \in Kind : indexSt'[l][i] = indexSt[l][i] BY <2>1
  <2>4. QED BY <2>2, <2>3 DEF WholeAlone
<1>3. CASE TruncIndex(t)
  <2>1. /\ task[t].pc = "truncIndex" /\ task' = [task EXCEPT ![t].pc = "writeIndex"]
        /\ itemSt' = itemSt /\ indexSt' = [indexSt EXCEPT ![k][i] = "empty"]
    BY <1>3 DEF TruncIndex, Goto
  <2>2. task'[t].pc = "writeIndex" /\ task'[t].kind = k BY <1>1, <2>1 DEF TaskRecord
  <2>3. \A l \in Kind : l # k => indexSt'[l][i] = indexSt[l][i] BY <1>1, <2>1
  <2>4. QED BY <2>1, <2>2, <2>3 DEF WholeAlone
<1>4. CASE WriteIndex(t)
  <2>1. task[t].pc = "writeIndex" /\ itemSt' = itemSt BY <1>4 DEF WriteIndex
  <2>2. indexSt[k][i] = "empty" BY <2>1 DEF SerialInv, Current
  <2>3. indexSt' = [indexSt EXCEPT ![k][i] = "whole"] BY <1>4, <2>2 DEF WriteIndex, Lands
  <2>4. \A l \in Kind : indexSt'[l][i] = IF l = k THEN "whole" ELSE indexSt[l][i]
    BY <1>1, <2>3
  <2>5. itemSt'[i] \in {"absent", "whole"} BY <2>1 DEF WholeAlone
  <2>6. \A l \in Kind : l # k => indexSt[l][i] \in {"absent", "whole"} BY <2>1 DEF WholeAlone
  <2>7. \A l \in Kind : indexSt'[l][i] \in {"absent", "whole"} BY <2>4, <2>6
  <2>8. QED BY <2>5, <2>7 DEF WholeAlone
<1>5. CASE TruncItem(t)
  <2>1. /\ task[t].pc = "truncItem" /\ task' = [task EXCEPT ![t].pc = "writeItem"]
        /\ indexSt' = indexSt
    BY <1>5 DEF TruncItem, Goto
  <2>2. task'[t].pc = "writeItem" BY <1>1, <2>1 DEF TaskRecord
  <2>3. QED BY <2>1, <2>2 DEF WholeAlone
<1>6. CASE WriteItem(t)
  <2>1. task[t].pc = "writeItem" /\ indexSt' = indexSt BY <1>6 DEF WriteItem
  <2>2. itemSt[i] = "empty" BY <2>1 DEF SerialInv, Current
  <2>3. task[t].rec.item = i BY <2>1 DEF SerialInv, SafeInv, TaskSafe
  <2>4. itemSt' = [itemSt EXCEPT ![i] = "whole"] BY <1>6, <2>2, <2>3 DEF WriteItem, Lands
  <2>5. itemSt'[i] = "whole" BY <1>1, <2>4
  <2>6. \A l \in Kind : indexSt'[l][i] \in {"absent", "whole"} BY <2>1 DEF WholeAlone
  <2>7. QED BY <2>5, <2>6 DEF WholeAlone
<1>7. QED BY <1>2, <1>3, <1>4, <1>5, <1>6 DEF TaskStep

\* A step of a request stores only its own event.
LEMMA StoresOwn ==
   ASSUME SerialInv, NEW t \in Task, TaskStep(t), NEW e \in Event, ~Stored(e), Stored(e)'
   PROVE  Carries(t, e)'
<1>1. CASE TruncFile(t) \/ WriteFile(t)
  <2>1. PICK pc \in {"writeFile", "readIndex"} : task' = [task EXCEPT ![t].pc = pc]
    BY <1>1 DEF TruncFile, WriteFile, Goto
  <2>2. \E st : fileSt' = [fileSt EXCEPT ![task[t].kind][task[t].ev] = st]
    BY <1>1 DEF TruncFile, WriteFile
  <2>3. fileSt \in [Kind -> [Event -> FileState]] /\ "events" \in Kind
    BY DEF SerialInv, SafeInv, TypeOK, Kind
  <2>4. task[t].ev = e BY <2>2, <2>3 DEF Stored
  <2>5. task'[t].pc = pc /\ task'[t].ev = e
    BY <2>1, <2>4 DEF SerialInv, SafeInv, TypeOK, TaskRecord
  <2>6. QED BY <2>5 DEF Carries
<1>2. CASE ~(TruncFile(t) \/ WriteFile(t))
  <2>1. UNCHANGED fileSt
    BY <1>2 DEF TaskStep, ReadItem, ReadParty, ReadIndex, TruncIndex, WriteIndex, Reread,
       TruncItem, WriteItem, Answer, disk
  <2>2. QED BY <2>1 DEF Stored
<1>3. QED BY <1>1, <1>2

\* A step of a request leaves nothing behind.
LEMMA TaskStepLeft ==
   ASSUME LeftInv, Apart, NEW t \in Task, TaskStep(t)
   PROVE  LeftInv'
<1>1. SerialInv /\ SerialInv' BY TaskStepSerial DEF LeftInv
<1>2. crashes' = crashes
  BY DEF TaskStep, ReadItem, ReadParty, TruncFile, WriteFile, ReadIndex, TruncIndex, WriteIndex,
     Reread, TruncItem, WriteItem, Answer
<1>3. Busy(t) BY StepBusy
<1>4. PICK e \in Event : e = task[t].ev BY <1>1, <1>3, BusyEvent DEF SerialInv
<1>5. PICK i \in Item : i = Body[e].item BY BodyAssumption DEF EventBody
<1>6. ASSUME NEW u \in Task, u # t
      PROVE  task'[u] = task[u] /\ ~(Busy(u) /\ Body[task[u].ev].item = i)
  <2>1. task'[u] = task[u]
    BY ZenonT(40), <1>1, <1>6 DEF TaskStep, ReadItem, ReadParty, TruncFile, WriteFile, ReadIndex, TruncIndex,
       WriteIndex, Reread, TruncItem, WriteItem, Answer, AfterSave, Refuse, Accept, Goto,
       SerialInv, SafeInv, TypeOK
  <2>2. QED BY <1>3, <1>4, <1>5, <1>6, <2>1 DEF Apart
<1>7. CASE crashes = 0
  <2>1. WholeAlone(t, i) BY <1>5, <1>6, <1>7, WholeBefore DEF LeftInv
  <2>2. task'[t] = Idle \/ task'[t].ev = e BY <1>1, <1>4, SameEvent DEF SerialInv
  <2>3. FilesWhole(i)'
    <3>1. WholeAlone(t, i)' BY <1>1, <1>4, <1>5, <2>1, StepWhole
    <3>2. task'[t].pc # "idle" => Body[task'[t].ev].item = i BY <1>5, <2>2 DEF Idle
    <3>3. QED BY <3>1, <3>2 DEF WholeAlone, FilesWhole
  <2>4. ASSUME NEW j \in Item, j # i PROVE FilesWhole(j)'
    <3>1. itemSt'[j] = itemSt[j] /\ \A k \in Kind : indexSt'[k][j] = indexSt[k][j]
      BY <1>1, <1>4, <1>5, <2>4, TaskStepOwn DEF Elsewhere
    <3>2. \A u \in Task : Body[task[u].ev].item = j => task'[u] = task[u]
      BY <1>4, <1>5, <1>6, <2>4
    <3>3. FilesWhole(j) BY <1>7 DEF LeftInv
    <3>4. QED BY <3>1, <3>2, <3>3 DEF FilesWhole
  <2>5. ASSUME NEW f \in Event, Stored(f)'
        PROVE  f \in accepted' \/ \E u \in Task : Carries(u, f)'
    <3>1. CASE ~Stored(f) BY <1>1, <2>5, <3>1, StoresOwn
    <3>2. CASE f \in accepted BY <1>1, <3>2, AnswerEffect
    <3>3. ASSUME NEW u \in Task, u # t, Carries(u, f) PROVE Carries(u, f)'
      BY <1>6, <3>3 DEF Carries
    <3>4. CASE Carries(t, f)
      <4>1. f = e BY <1>4, <3>4 DEF Carries
      <4>2. Answer(t) \/ Carries(t, f)' BY <1>1, <1>5, <2>1, <3>4, <4>1, NotRefused
      <4>3. Answer(t) => f \in accepted' BY <1>4, <4>1 DEF Answer
      <4>4. QED BY <4>2, <4>3
    <3>5. Stored(f) => f \in accepted \/ \E u \in Task : Carries(u, f)
      BY <1>7 DEF LeftInv, NothingLeftBehind
    <3>6. QED BY <3>1, <3>2, <3>3, <3>4, <3>5
  <2>6. QED BY <1>1, <2>3, <2>4, <2>5 DEF LeftInv, NothingLeftBehind
<1>8. CASE crashes # 0 BY <1>1, <1>2, <1>8 DEF LeftInv, NothingLeftBehind
<1>9. QED BY <1>7, <1>8

\* The other steps store nothing and answer nothing.
LEMMA KeepLeft ==
   ASSUME LeftInv, SerialInv', UNCHANGED <<fileSt, indexSt, itemSt, accepted, crashes>>,
          \A t \in Task : task'[t] = task[t] \/ task[t].pc = "idle"
   PROVE  LeftInv'
<1>1. ASSUME NEW i \in Item, FilesWhole(i) PROVE FilesWhole(i)'
  BY <1>1 DEF FilesWhole
<1>2. ASSUME NEW t \in Task, NEW e \in Event, Carries(t, e) PROVE Carries(t, e)'
  BY <1>2 DEF Carries
<1>3. NothingLeftBehind' BY <1>2 DEF LeftInv, NothingLeftBehind, Stored
<1>4. QED BY <1>1, <1>3 DEF LeftInv

LEMMA InitLeft == Init => LeftInv
<1> SUFFICES ASSUME Init PROVE LeftInv
  OBVIOUS
<1>1. SerialInv BY InitSerial
<1>2. \A i \in Item : FilesWhole(i) BY DEF Init, FilesWhole
<1>3. NothingLeftBehind BY DEF Init, NothingLeftBehind, Stored, Kind
<1>4. QED BY <1>1, <1>2, <1>3 DEF LeftInv

LEMMA NextLeft == LeftInv /\ Apart /\ [Next]_vars => LeftInv'
<1> SUFFICES ASSUME LeftInv, Apart, [Next]_vars PROVE LeftInv'
  OBVIOUS
<1>1. SerialInv' BY NextSerial DEF LeftInv
<1>2. ASSUME NEW t \in Task, TaskStep(t) PROVE LeftInv'
  BY <1>2, TaskStepLeft
<1>3. ASSUME NEW t \in Task, NEW e \in Event, NEW sigs \in SigLists, Submit(t, e, sigs)
      PROVE  LeftInv'
  <2>1. UNCHANGED <<fileSt, indexSt, itemSt, accepted, crashes>> BY <1>3 DEF Submit, disk
  <2>2. ASSUME NEW u \in Task PROVE task'[u] = task[u] \/ task[u].pc = "idle"
    BY <1>3 DEF Submit, LeftInv, SerialInv, SafeInv, TypeOK
  <2>3. QED BY <1>1, <2>1, <2>2, KeepLeft
<1>4. CASE Crash
  <2>1. crashes' # 0 BY <1>4 DEF Crash, LeftInv, SerialInv, SafeInv, TypeOK
  <2>2. QED BY <1>1, <2>1 DEF LeftInv, NothingLeftBehind
<1>5. CASE UNCHANGED <<fileSt, indexSt, itemSt, accepted, crashes, task>>
  BY <1>1, <1>5, KeepLeft
<1>6. QED
  BY <1>2, <1>3, <1>4, <1>5
     DEF Next, ReadProofItem, ReadProofIndex, ReadProofFile, TruncParty, WriteParty, Tick, vars, disk

\* As long as requests about one item are apart and nothing has crashed, an
\* event that has a file was answered accepted or is still being saved: once
\* its file is begun no check and no torn file refuses it.  With the bound on
\* the steps of a request (RequestsRunOut) this is what SavedIsAccepted rests
\* on besides fairness.
THEOREM NothingStaysBehind == Spec /\ []Apart => []NothingLeftBehind
<1>1. LeftInv => NothingLeftBehind BY DEF LeftInv
<1>2. QED BY <1>1, InitLeft, NextLeft, PTL DEF Spec
=============================================================================
