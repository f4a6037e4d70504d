-------------------------- MODULE OperatorNodeProofs --------------------------
(***************************************************************************)
(* Theorems about OperatorNode, for every universe of events, any number   *)
(* of items and parties, any number of concurrent requests and any bound   *)
(* on the clock and on crashes.                                            *)
(***************************************************************************)
EXTENDS OperatorNode, TLAPS

\* The post-states of the writes of submitEvent are file states.
LEMMA LandsType ==
   ASSUME NEW st, NEW new \in Lands(st)
   PROVE  new \in {"whole", "mangled"}
BY DEF Lands

\* A fresh item record is an item record.
LEMMA MintedType ==
   ASSUME NEW e \in Event
   PROVE  /\ Minted(e) \in ItemRecord
          /\ Minted(e).last = e /\ Minted(e).item = Body[e].item
BY BodyAssumption DEF Minted, MintedItem, ItemRecord, EventBody, ItemState

\* applyEvent keeps the shape of the record, and moves last to the new event.
LEMMA ApplyType ==
   ASSUME NEW rec \in ItemRecord, NEW e \in Event, ValidateTransition(rec, Body[e])
   PROVE  /\ ApplyEvent(rec, e, Body[e]) \in ItemRecord
          /\ ApplyEvent(rec, e, Body[e]).last = e
          /\ ApplyEvent(rec, e, Body[e]).item = Body[e].item
          /\ Body[e].type \in ChainType
          /\ Body[e].prev = rec.last
<1>1. Body[e] \in EventBody BY BodyAssumption
<1>2. rec.state \in ItemState BY DEF ItemRecord
<1>3. Body[e].type \in Allowed[rec.state]
  BY DEF ValidateTransition, IsValidTransition
<1>4. Body[e].type \in ChainType
  BY <1>2, <1>3 DEF Allowed, ItemState, ChainType
<1>5. NextState(Body[e].type) \in ItemState
  BY <1>4 DEF NextState, ChainType, ItemState
<1>6. QED
  BY <1>1, <1>4, <1>5 DEF ApplyEvent, ItemRecord, EventBody, ValidateTransition
-----------------------------------------------------------------------------
(* Type correctness *)

\* The initial state has the right types.
LEMMA InitType == Init => TypeOK
BY NodeAssumption DEF Init, TypeOK, TaskOK, Idle, NotReading, TaskRecord, ReaderRecord, Kind, FileState, PC

\* A request whose work ends, refused or waiting for its answer, leaves
\* well-typed slots.
LEMMA EndType ==
   ASSUME TypeOK, NEW t \in Task, task[t].ev \in Event, Refuse(t) \/ Accept(t)
   PROVE  /\ task' \in [Task -> TaskRecord]
          /\ \A u \in Task : TaskOK(task'[u])
          /\ done' \subseteq Event
<1> DEFINE last == [Idle EXCEPT !.pc = "answer", !.ev = task[t].ev]
<1>0. Idle \in TaskRecord /\ TaskOK(Idle) BY DEF Idle, TaskRecord, TaskOK, PC, Kind
<1>1. last \in TaskRecord /\ TaskOK(last) BY DEF Idle, TaskRecord, TaskOK, PC, Kind
<1>2. task' = [task EXCEPT ![t] = Idle] \/ task' = [task EXCEPT ![t] = last]
  BY DEF Refuse, Accept
<1>3. task \in [Task -> TaskRecord] /\ \A u \in Task : TaskOK(task[u])
  BY DEF TypeOK
<1>4. task' \in [Task -> TaskRecord] /\ \A u \in Task : TaskOK(task'[u])
  BY <1>0, <1>1, <1>2, <1>3
<1>5. done' \subseteq Event BY DEF TypeOK, Refuse, Accept
<1>6. QED BY <1>4, <1>5

\* So does moving a request on to its next file operation.
LEMMA GotoType ==
   ASSUME TypeOK, NEW t \in Task, task[t].ev \in Event, NEW pc \in PC, Goto(t, pc),
          pc \in {"truncItem", "writeItem"} => task[t].rec \in ItemRecord
   PROVE  /\ task' \in [Task -> TaskRecord]
          /\ \A u \in Task : TaskOK(task'[u])
<1>1. task' = [task EXCEPT ![t] = [task[t] EXCEPT !.pc = pc]] BY DEF Goto, TypeOK
<1>2. task[t] \in TaskRecord BY DEF TypeOK
<1>3. [task[t] EXCEPT !.pc = pc] \in TaskRecord BY <1>2 DEF TaskRecord
<1>4. TaskOK([task[t] EXCEPT !.pc = pc]) BY <1>2 DEF TaskOK, TaskRecord
<1>5. QED BY <1>1, <1>2, <1>3, <1>4 DEF TypeOK

\* And the synchronous code after a save.
LEMMA AfterSaveType ==
   ASSUME TypeOK, NEW t \in Task, task[t].ev \in Event, AfterSave(t)
   PROVE  /\ task' \in [Task -> TaskRecord]
          /\ \A u \in Task : TaskOK(task'[u])
          /\ done' \subseteq Event
<1>1. CASE Accept(t) BY <1>1, EndType
<1>2. CASE ~Accept(t)
  <2>0. task[t] \in TaskRecord BY DEF TypeOK
  <2>1. UNCHANGED done BY <1>2 DEF AfterSave
  <2>2. PICK r \in TaskRecord : TaskOK(r) /\ task' = [task EXCEPT ![t] = r]
    <3>1. CASE Type(task[t].ev) = "ITEM_AUTHENTICATED"
      <4> DEFINE r == [task[t] EXCEPT !.pc = "truncFile", !.kind = "attestations", !.ids = {}]
      <4>1. task' = [task EXCEPT ![t] = r] BY <1>2, <3>1 DEF AfterSave, TypeOK
      <4>2. r \in TaskRecord /\ TaskOK(r) BY <2>0 DEF TaskOK, TaskRecord, PC, Kind
      <4>3. QED BY <4>1, <4>2
    <3>2. CASE Type(task[t].ev) = "ITEM_MINTED"
      <4> DEFINE r == [task[t] EXCEPT !.pc = "truncItem", !.rec = Minted(task[t].ev), !.ids = {}]
      <4>1. task' = [task EXCEPT ![t] = r] BY <1>2, <3>2 DEF AfterSave, NewRecord, TypeOK
      <4>2. r \in TaskRecord /\ TaskOK(r) BY <2>0, MintedType DEF TaskOK, TaskRecord, PC
      <4>3. QED BY <4>1, <4>2
    <3>3. CASE Type(task[t].ev) \notin {"ITEM_AUTHENTICATED", "ITEM_MINTED"}
      <4> DEFINE r == [task[t] EXCEPT !.pc = "reread", !.ids = {}]
      <4>1. task' = [task EXCEPT ![t] = r] BY <1>2, <3>3 DEF AfterSave, TypeOK
      <4>2. r \in TaskRecord /\ TaskOK(r) BY <2>0 DEF TaskOK, TaskRecord, PC
      <4>3. QED BY <4>1, <4>2
    <3>4. QED BY <3>1, <3>2, <3>3
  <2>3. QED BY <2>1, <2>2 DEF TypeOK
<1>3. QED BY <1>1, <1>2

\* Every operation of a request in progress keeps the types.
LEMMA TaskStepType ==
   ASSUME TypeOK, NEW t \in Task, TaskStep(t)
   PROVE  TypeOK'
<1> DEFINE e == task[t].ev
           i == Body[e].item
           k == task[t].kind
<1>1. task[t].pc # "idle" BY DEF TaskStep, ReadItem, ReadParty, TruncFile, WriteFile,
        ReadIndex, TruncIndex, WriteIndex, Reread, TruncItem, WriteItem, Answer
<1>2. e \in Event /\ k \in Kind /\ task[t] \in TaskRecord
  BY <1>1 DEF TypeOK, TaskOK, TaskRecord
<1>3. i \in Item BY <1>2, BodyAssumption DEF EventBody
<1>4. ASSUME UNCHANGED <<disk, reader, accepted, sent, now, crashes>>,
             task' \in [Task -> TaskRecord],
             \A u \in Task : TaskOK(task'[u]),
             done' \subseteq Event
      PROVE  TypeOK'
  BY <1>4 DEF TypeOK, disk
<1>5. CASE ReadItem(t)
  <2>1. CASE Refuse(t) BY <1>2, <1>4, <1>5, <2>1, EndType DEF ReadItem
  <2>2. CASE ~Refuse(t)
    <3> DEFINE r == [task[t] EXCEPT !.pc = "readParty", !.rec = item[i]]
    <3>1. task' = [task EXCEPT ![t] = r] /\ done' = done
      BY <1>5, <2>2 DEF ReadItem, TypeOK
    <3>2. item[i] \in ItemRecord \cup {NoItem} BY <1>3 DEF TypeOK
    <3>3. r \in TaskRecord /\ TaskOK(r) BY <1>2, <3>2 DEF TaskOK, TaskRecord, PC
    <3>4. task' \in [Task -> TaskRecord] /\ done' \subseteq Event
          /\ \A u \in Task : TaskOK(task'[u])
      BY <1>2, <3>1, <3>3 DEF TypeOK
    <3>5. QED BY <1>4, <1>5, <3>4 DEF ReadItem
  <2>3. QED BY <2>1, <2>2
<1>6. CASE ReadParty(t)
  <2>1. CASE Refuse(t) BY <1>2, <1>4, <1>6, <2>1, EndType DEF ReadParty
  <2>2. CASE ~Refuse(t)
    <3>1. Goto(t, "truncFile") /\ done' = done BY <1>6, <2>2 DEF ReadParty
    <3>2. done' \subseteq Event BY <3>1 DEF TypeOK
    <3>3. "truncFile" \in PC BY DEF PC
    <3>4. QED BY <1>2, <1>4, <1>6, <3>1, <3>2, <3>3, GotoType DEF ReadParty
  <2>3. QED BY <2>1, <2>2
<1>7. CASE TruncFile(t)
  <2>1. fileSt' \in [Kind -> [Event -> FileState]]
    BY <1>2, <1>7 DEF TruncFile, TypeOK, FileState
  <2>2. "writeFile" \in PC BY DEF PC
  <2>3. task' \in [Task -> TaskRecord]
        /\ \A u \in Task : TaskOK(task'[u])
    BY <1>2, <1>7, <2>2, GotoType DEF TruncFile
  <2>4. QED BY <1>7, <2>1, <2>3 DEF TruncFile, TypeOK
<1>8. CASE WriteFile(t)
  <2>1. fileSt' \in [Kind -> [Event -> FileState]]
    BY <1>2, <1>8, LandsType DEF WriteFile, TypeOK, FileState
  <2>2. "readIndex" \in PC BY DEF PC
  <2>3. task' \in [Task -> TaskRecord]
        /\ \A u \in Task : TaskOK(task'[u])
    BY <1>2, <1>8, <2>2, GotoType DEF WriteFile
  <2>4. QED BY <1>8, <2>1, <2>3 DEF WriteFile, TypeOK
<1>9. CASE ReadIndex(t)
  <2>1. CASE Refuse(t) BY <1>2, <1>4, <1>9, <2>1, EndType DEF ReadIndex
  <2>2. CASE AfterSave(t) BY <1>2, <1>4, <1>9, <2>2, AfterSaveType DEF ReadIndex
  <2>3. CASE ~Refuse(t) /\ ~AfterSave(t)
    <3> DEFINE read == IF indexSt[k][i] = "whole" THEN index[k][i] ELSE {}
               r == [task[t] EXCEPT !.pc = "truncIndex", !.ids = read]
    <3>1. task' = [task EXCEPT ![t] = r] /\ done' = done
      BY <1>9, <2>3 DEF ReadIndex, TypeOK
    <3>2. read \subseteq Event BY <1>2, <1>3 DEF TypeOK
    <3>3. r \in TaskRecord /\ TaskOK(r) BY <1>2, <3>2 DEF TaskOK, TaskRecord, PC
    <3>4. task' \in [Task -> TaskRecord] /\ done' \subseteq Event
          /\ \A u \in Task : TaskOK(task'[u])
      BY <1>2, <3>1, <3>3 DEF TypeOK
    <3>5. QED BY <1>4, <1>9, <3>4 DEF ReadIndex
  <2>4. QED BY <2>1, <2>2, <2>3
<1>10. CASE TruncIndex(t)
  <2>1. indexSt' \in [Kind -> [Item -> FileState]]
    BY <1>2, <1>3, <1>10 DEF TruncIndex, TypeOK, FileState
  <2>2. "writeIndex" \in PC BY DEF PC
  <2>3. task' \in [Task -> TaskRecord]
        /\ \A u \in Task : TaskOK(task'[u])
    BY <1>2, <1>10, <2>2, GotoType DEF TruncIndex
  <2>4. QED BY <1>10, <2>1, <2>3 DEF TruncIndex, TypeOK
<1>11. CASE WriteIndex(t)
  <2>1. PICK st \in Lands(indexSt[k][i]) :
           /\ indexSt' = [indexSt EXCEPT ![k][i] = st]
           /\ index' = IF st = "whole" THEN [index EXCEPT ![k][i] = task[t].ids \cup {e}]
                       ELSE index
    BY <1>11 DEF WriteIndex, Appended
  <2>2. indexSt' \in [Kind -> [Item -> FileState]]
    BY <1>2, <1>3, <2>1, LandsType DEF TypeOK, FileState
  <2>3. task[t].ids \cup {e} \in SUBSET Event BY <1>2 DEF TaskRecord
  <2>4. index' \in [Kind -> [Item -> SUBSET Event]]
    BY <1>2, <1>3, <2>1, <2>3 DEF TypeOK
  <2>5. /\ task' \in [Task -> TaskRecord]
        /\ \A u \in Task : TaskOK(task'[u])
        /\ done' \subseteq Event
    BY <1>2, <1>11, AfterSaveType DEF WriteIndex
  <2>6. QED BY <1>11, <2>2, <2>4, <2>5 DEF WriteIndex, TypeOK
<1>12. CASE Reread(t)
  <2>1. CASE Refuse(t) \/ Accept(t) BY <1>2, <1>4, <1>12, <2>1, EndType DEF Reread
  <2>2. CASE ~Refuse(t) /\ ~Accept(t)
    <3>1. /\ itemSt[i] = "whole" /\ ValidateTransition(item[i], Body[e])
          /\ task' = [task EXCEPT ![t].pc = "truncItem",
                                  ![t].rec = ApplyEvent(item[i], e, Body[e])]
          /\ done' = done
      BY <1>12, <2>2 DEF Reread
    <3> DEFINE new == ApplyEvent(item[i], e, Body[e])
               r == [task[t] EXCEPT !.pc = "truncItem", !.rec = new]
    <3>0. item[i] \in ItemRecord BY <1>3, <3>1 DEF TypeOK
    <3>2. new \in ItemRecord BY <1>2, <3>0, <3>1, ApplyType
    <3>3. r \in TaskRecord /\ TaskOK(r) BY <1>2, <3>2 DEF TaskOK, TaskRecord, PC
    <3>4. task' = [task EXCEPT ![t] = r] BY <3>1 DEF TypeOK
    <3>5. task' \in [Task -> TaskRecord] /\ done' \subseteq Event
          /\ \A u \in Task : TaskOK(task'[u])
      <4>1. task' \in [Task -> TaskRecord] /\ \A u \in Task : TaskOK(task'[u])
        <5> HIDE DEF r
        <5>1. task \in [Task -> TaskRecord] /\ \A u \in Task : TaskOK(task[u])
          BY DEF TypeOK
        <5>2. QED BY <5>1, <3>3, <3>4
      <4>2. QED BY <4>1, <3>1 DEF TypeOK
    <3>6. QED BY <1>4, <1>12, <3>5 DEF Reread
  <2>3. QED BY <2>1, <2>2
<1>13. CASE TruncItem(t)
  <2>1. task[t].rec \in ItemRecord BY <1>13 DEF TruncItem, TypeOK, TaskOK
  <2>2. task[t].rec.item \in Item BY <2>1 DEF ItemRecord
  <2>3. /\ itemSt' \in [Item -> FileState]
        /\ \A j \in Item : itemSt'[j] = "whole" => item'[j] # NoItem
    BY <1>13, <2>2 DEF TruncItem, OpenTruncated, TypeOK, FileState
  <2>4. "writeItem" \in PC BY DEF PC
  <2>5. task' \in [Task -> TaskRecord] /\ \A u \in Task : TaskOK(task'[u])
    BY <1>2, <1>13, <2>1, <2>4, GotoType DEF TruncItem
  <2>6. QED BY <1>13, <2>3, <2>5 DEF TruncItem, TypeOK
<1>14. CASE WriteItem(t)
  <2> DEFINE n == task[t].rec.item
  <2>1. task[t].rec \in ItemRecord BY <1>14 DEF WriteItem, TypeOK, TaskOK
  <2>2. n \in Item /\ task[t].rec # NoItem BY <2>1, NullAssumption DEF ItemRecord
  <2>3. PICK st \in Lands(itemSt[n]) :
           /\ itemSt' = [itemSt EXCEPT ![n] = st]
           /\ item' = IF st = "whole" THEN [item EXCEPT ![n] = task[t].rec] ELSE item
    BY <1>14 DEF WriteItem
  <2>4. st \in {"whole", "mangled"} BY <2>3, LandsType
  <2>5. /\ itemSt' \in [Item -> FileState]
        /\ item' \in [Item -> ItemRecord \cup {NoItem}]
        /\ \A j \in Item : itemSt'[j] = "whole" => item'[j] # NoItem
    BY <2>1, <2>2, <2>3, <2>4 DEF TypeOK, FileState
  <2>6. /\ task' \in [Task -> TaskRecord]
        /\ \A u \in Task : TaskOK(task'[u])
        /\ done' \subseteq Event
    BY <1>2, <1>14, EndType DEF WriteItem
  <2>7. QED BY <1>14, <2>5, <2>6 DEF WriteItem, TypeOK
<1>15. CASE Answer(t)
  <2>1. Idle \in TaskRecord /\ TaskOK(Idle) BY DEF Idle, TaskRecord, TaskOK, PC, Kind
  <2>2. task' \in [Task -> TaskRecord] /\ \A u \in Task : TaskOK(task'[u])
    BY <1>15, <2>1 DEF Answer, TypeOK
  <2>3. accepted' \subseteq Event BY <1>2, <1>15 DEF Answer, TypeOK
  <2>4. QED BY <1>15, <2>2, <2>3 DEF Answer, TypeOK, disk
<1>16. QED
  BY <1>5, <1>6, <1>7, <1>8, <1>9, <1>10, <1>11, <1>12, <1>13, <1>14, <1>15 DEF TaskStep

\* Receiving a request keeps the types.
LEMMA SubmitType ==
   ASSUME TypeOK, NEW t \in Task, NEW e \in Event, NEW sigs \in SigLists, Submit(t, e, sigs)
   PROVE  TypeOK'
<1> DEFINE r == [Idle EXCEPT !.pc = FirstRead(Type(e)), !.ev = e, !.sigs = sigs]
<1>1. FirstRead(Type(e)) \in {"truncFile", "readParty", "readItem"} BY DEF FirstRead
<1>2. r \in TaskRecord /\ TaskOK(r) BY <1>1 DEF Idle, TaskRecord, TaskOK, PC, Kind
<1>3. task' = task \/ task' = [task EXCEPT ![t] = r] BY DEF Submit
<1>4. task' \in [Task -> TaskRecord] /\ \A u \in Task : TaskOK(task'[u])
  BY <1>2, <1>3 DEF TypeOK
<1>5. sent' \subseteq OneShot BY DEF Submit, TypeOK
<1>6. QED BY <1>4, <1>5 DEF Submit, TypeOK, disk

\* Every step of a node keeps the types.
LEMMA NextType == TypeOK /\ [Next]_vars => TypeOK'
<1> SUFFICES ASSUME TypeOK, [Next]_vars PROVE TypeOK'
  OBVIOUS
<1>1. ASSUME NEW t \in Task, NEW e \in Event, NEW sigs \in SigLists, Submit(t, e, sigs)
      PROVE  TypeOK'
  BY <1>1, SubmitType
<1>2. ASSUME NEW t \in Task, TaskStep(t) PROVE TypeOK'
  BY <1>2, TaskStepType
<1>3. ASSUME NEW r \in Reader, NEW i \in Item, ReadProofItem(r, i) PROVE TypeOK'
  <2> DEFINE rec == IF itemSt[i] = "whole" THEN item[i] ELSE NoItem
             q == [NotReading EXCEPT !.pc = "readIndex", !.item = i, !.rec = rec]
  <2>0. rec \in ItemRecord \cup {NoItem} BY DEF TypeOK
  <2>1. q \in ReaderRecord /\ q.item = i
    <3> HIDE DEF rec
    <3>1. QED BY <2>0 DEF ReaderRecord, NotReading
  <2>2. reader' \in [Reader -> ReaderRecord]
        /\ \A s \in Reader : reader'[s].pc = "readIndex" => reader'[s].item \in Item
    BY <1>3, <2>1 DEF ReadProofItem, TypeOK
  <2>3. QED BY <1>3, <2>2 DEF ReadProofItem, TypeOK, disk
<1>4a. ASSUME NEW r \in Reader, ReadProofIndex(r) PROVE TypeOK'
  <2> DEFINE i == reader[r].item
  <2>1. NotReading \in ReaderRecord /\ NotReading.pc = "idle"
    BY DEF NotReading, ReaderRecord
  <2>2. i \in Item /\ index["events"][i] \in SUBSET Event
    BY <1>4a DEF ReadProofIndex, TypeOK, Kind
  <2>3. PICK q : reader' = [reader EXCEPT ![r] = q]
                 /\ \/ q = NotReading
                    \/ q = [reader[r] EXCEPT !.pc = "done"]
                    \/ q = [reader[r] EXCEPT !.pc = "readFiles", !.left = index["events"][i]]
    <3>1. \/ reader' = [reader EXCEPT ![r] = NotReading]
          \/ reader' = [reader EXCEPT ![r] = [reader[r] EXCEPT !.pc = "done"]]
          \/ reader' = [reader EXCEPT ![r] = [reader[r] EXCEPT !.pc = "readFiles",
                                                       !.left = index["events"][i]]]
      BY <1>4a DEF ReadProofIndex, TypeOK
    <3>2. QED BY <3>1
  <2>4. reader[r] \in ReaderRecord BY DEF TypeOK
  <2>5. q \in ReaderRecord /\ q.pc # "readIndex" BY <2>1, <2>2, <2>3, <2>4 DEF ReaderRecord
  <2>6. reader' \in [Reader -> ReaderRecord]
        /\ \A s \in Reader : reader'[s].pc = "readIndex" => reader'[s].item \in Item
    BY <2>3, <2>5 DEF TypeOK
  <2>7. QED BY <1>4a, <2>6 DEF ReadProofIndex, TypeOK, disk
<1>4b. ASSUME NEW r \in Reader, NEW e \in Event, ReadProofFile(r, e) PROVE TypeOK'
  <2>1. NotReading \in ReaderRecord /\ NotReading.pc = "idle"
    BY DEF NotReading, ReaderRecord
  <2>2. reader[r] \in ReaderRecord BY DEF TypeOK
  <2>3. PICK q : reader' = [reader EXCEPT ![r] = q]
                 /\ \/ q = NotReading
                    \/ \E pc \in {"done", "readFiles"}, es \in SUBSET Event :
                          q = [reader[r] EXCEPT !.pc = pc, !.left = reader[r].left \ {e},
                                                !.events = es]
    <3> DEFINE pc == IF reader[r].left = {e} THEN "done" ELSE "readFiles"
               es == IF fileSt["events"][e] = "whole" THEN reader[r].events \cup {e}
                     ELSE reader[r].events
    <3>1. pc \in {"done", "readFiles"} OBVIOUS
    <3>2. es \in SUBSET Event BY <2>2 DEF ReaderRecord
    <3>3. \/ reader' = [reader EXCEPT ![r] = NotReading]
          \/ reader' = [reader EXCEPT ![r] = [reader[r] EXCEPT !.pc = pc,
                                  !.left = reader[r].left \ {e}, !.events = es]]
      <4>1. CASE fileSt["events"][e] \in {"empty", "mangled"}
        BY <1>4b, <4>1 DEF ReadProofFile
      <4>2. CASE fileSt["events"][e] = "whole"
        BY <1>4b, <4>2 DEF ReadProofFile
      <4>3. CASE fileSt["events"][e] \notin {"empty", "mangled", "whole"}
        BY <1>4b, <4>3 DEF ReadProofFile
      <4>4. QED BY <4>1, <4>2, <4>3
    <3>4. QED BY <3>1, <3>2, <3>3
  <2>4. q \in ReaderRecord /\ q.pc # "readIndex" BY <2>1, <2>2, <2>3 DEF ReaderRecord
  <2>5. reader' \in [Reader -> ReaderRecord]
        /\ \A s \in Reader : reader'[s].pc = "readIndex" => reader'[s].item \in Item
    BY <2>3, <2>4 DEF TypeOK
  <2>6. QED BY <1>4b, <2>5 DEF ReadProofFile, TypeOK, disk
<1>5. ASSUME NEW p \in Party, TruncParty(p) PROVE TypeOK'
  BY <1>5 DEF TruncParty, TypeOK
<1>6. ASSUME NEW p \in Party, NEW s \in Statuses, WriteParty(p, s) PROVE TypeOK'
  BY <1>6, NodeAssumption DEF WriteParty, TypeOK
<1>7. CASE Tick
  BY <1>7, NodeAssumption DEF Tick, TypeOK, disk
<1>8. CASE Crash
  <2>1. Idle \in TaskRecord /\ TaskOK(Idle) BY DEF Idle, TaskRecord, TaskOK, PC, Kind
  <2>2. NotReading \in ReaderRecord /\ NotReading.pc = "idle" BY DEF NotReading, ReaderRecord
  <2>3. crashes' \in 0..MaxCrashes BY <1>8, NodeAssumption DEF Crash, TypeOK
  <2>4. QED BY <1>8, <2>1, <2>2, <2>3 DEF Crash, TypeOK, disk
<1>9. CASE UNCHANGED vars
  BY <1>9 DEF vars, disk, TypeOK
<1>10. QED
  BY <1>1, <1>2, <1>3, <1>4a, <1>4b, <1>5, <1>6, <1>7, <1>8, <1>9 DEF Next

\* Type correctness: whatever requests overlap and wherever a crash falls, the
\* files, the locals of requests and the counters keep their types.
THEOREM TypeCorrect == Spec => []TypeOK
<1>1. Init => TypeOK BY InitType
<1>2. TypeOK /\ [Next]_vars => TypeOK' BY NextType
<1>3. QED BY <1>1, <1>2, PTL DEF Spec

-----------------------------------------------------------------------------
(* The store of an operator stays a set of legal hash chains whatever      *)
(* requests overlap and wherever the process dies: SafeInv of OperatorNode *)
(* is inductive, and with it the invariants it is made of.                 *)

\* No operation of a node deletes a file.
Grows ==
   /\ \A k \in Kind, e \in Event : fileSt[k][e] # "absent" => fileSt'[k][e] # "absent"
   /\ \A k \in Kind, i \in Item : indexSt[k][i] # "absent" => indexSt'[k][i] # "absent"

\* No request deletes a file.
LEMMA TaskStepGrows ==
   ASSUME TypeOK, NEW t \in Task, TaskStep(t)
   PROVE  Grows
<1> DEFINE e == task[t].ev
           i == Body[e].item
           k == task[t].kind
<1>1. CASE \/ ReadItem(t) \/ ReadParty(t) \/ ReadIndex(t) \/ Reread(t)
           \/ TruncItem(t) \/ WriteItem(t) \/ Answer(t)
  BY <1>1 DEF ReadItem, ReadParty, ReadIndex, Reread, TruncItem, WriteItem, Answer, disk, Grows
<1>2. CASE TruncFile(t)
  BY <1>2 DEF TruncFile, Grows, TypeOK
<1>3. CASE WriteFile(t)
  <2>1. PICK st \in Lands(fileSt[k][e]) : fileSt' = [fileSt EXCEPT ![k][e] = st]
    BY <1>3 DEF WriteFile
  <2>2. st # "absent" BY <2>1, LandsType
  <2>3. QED BY <1>3, <2>1, <2>2 DEF WriteFile, Grows, TypeOK
<1>4. CASE TruncIndex(t)
  <2>1. task[t].ev \in Event /\ k \in Kind BY <1>4 DEF TruncIndex, TypeOK, TaskOK, TaskRecord
  <2>2. i \in Item BY <2>1, BodyAssumption DEF EventBody
  <2>3. QED BY <1>4, <2>1, <2>2 DEF TruncIndex, Grows, TypeOK
<1>5. CASE WriteIndex(t)
  <2>1. PICK st \in Lands(indexSt[k][i]) : indexSt' = [indexSt EXCEPT ![k][i] = st]
    BY <1>5 DEF WriteIndex
  <2>2. st # "absent" BY <2>1, LandsType
  <2>3. fileSt' = fileSt BY <1>5 DEF WriteIndex
  <2>4. indexSt \in [Kind -> [Item -> FileState]] BY DEF TypeOK
  <2>5. QED BY <2>1, <2>2, <2>3, <2>4 DEF Grows
<1>6. QED BY <1>1, <1>2, <1>3, <1>4, <1>5 DEF TaskStep

\* Appending a legal event to a replayed record is what Replay says of it.
LEMMA ReplayStep ==
   ASSUME NEW rec \in ItemRecord, rec = Replay[rec.last],
          NEW e \in Event, ValidateTransition(rec, Body[e])
   PROVE  Replay[e] = ApplyEvent(rec, e, Body[e]) /\ Replay[e] # NoItem
<1>1. Body[e].prev = rec.last /\ Body[e].type \in ChainType BY ApplyType
<1>2. rec.last \in Event /\ rec # NoItem BY NullAssumption DEF ItemRecord
<1>3. Follows(e) BY <1>1, <1>2 DEF Follows
<1>4. Body[e].type # "ITEM_MINTED" BY <1>1 DEF ChainType
<1>5. Replay[e] = ApplyEvent(rec, e, Body[e]) BY <1>1, <1>3, <1>4, ReplayAssumption
<1>6. QED BY <1>5, ApplyType, NullAssumption

\* A mint is replayed as the record updateItemState builds for it.
LEMMA ReplayMint ==
   ASSUME NEW e \in Event, Type(e) = "ITEM_MINTED"
   PROVE  Replay[e] = Minted(e)
BY ReplayAssumption DEF Type

-----------------------------------------------------------------------------
(* What a step that leaves a part of the state alone preserves *)

\* Files kept, records kept: every record is still the replay of its chain.
LEMMA KeepItem ==
   ASSUME TypeOK, ItemIsReplay, Grows, UNCHANGED item
   PROVE  ItemIsReplay'
<1>1. "events" \in Kind BY DEF Kind
<1>2. \A i \in Item : item[i] # NoItem => item[i].last \in Event BY DEF TypeOK, ItemRecord
<1>3. QED BY <1>1, <1>2 DEF ItemIsReplay, Grows, Stored

\* No new event in the store: it is still closed under the hash chain.
LEMMA KeepEvents ==
   ASSUME StoredEventsReplay, Grows, \A e \in Event : Stored(e)' => Stored(e)
   PROVE  StoredEventsReplay'
<1>1. "events" \in Kind BY DEF Kind
<1>2. ASSUME NEW e \in Event, Stored(e)', Type(e) \in ChainType
      PROVE  Replay[e] # NoItem /\ Stored(Body[e].prev)'
  <2>1. Replay[e] # NoItem /\ Stored(Body[e].prev) BY <1>2 DEF StoredEventsReplay
  <2>2. Follows(e)
    BY <1>2, <2>1, ReplayAssumption DEF Type, ChainType
  <2>3. Body[e].prev \in Event BY <2>2 DEF Follows
  <2>4. QED BY <1>1, <2>1, <2>3 DEF Grows, Stored
<1>3. QED BY <1>2 DEF StoredEventsReplay

\* A saved event stays saved.
LEMMA KeepSaved ==
   ASSUME Grows, NEW e \in Event, Saved(e)
   PROVE  Saved(e)'
<1>1. "events" \in Kind /\ "attestations" \in Kind BY DEF Kind
<1>2. Body[e].item \in Item BY BodyAssumption DEF EventBody
<1>3. QED BY <1>1, <1>2 DEF Saved, Grows, Stored

\* No new answer: what is done is still saved.
LEMMA KeepDone ==
   ASSUME TypeOK, AnswersAreDone, Grows, UNCHANGED <<done, accepted>>
   PROVE  AnswersAreDone'
<1>1. \A e \in done' : e \in Event /\ Saved(e) BY DEF TypeOK, AnswersAreDone
<1>2. \A e \in done' : Saved(e)' BY <1>1, KeepSaved
<1>3. QED BY <1>2 DEF AnswersAreDone

\* Finishing an event that is stored, indexed and, if need be, attested: it
\* may be answered.
LEMMA AcceptSaves ==
   ASSUME TypeOK, AnswersAreDone, Grows, StoredEventsReplay', UNCHANGED accepted,
          NEW t \in Task, NEW f \in Event, f = task[t].ev, Accept(t), Saved(f)'
   PROVE  AnswersAreDone' /\ TaskSafe(t)'
<1>1. done' = done \cup {f} BY DEF Accept
<1>2. \A e \in done : e \in Event /\ Saved(e) BY DEF TypeOK, AnswersAreDone
<1>3. \A e \in done' : Saved(e)' BY <1>1, <1>2, KeepSaved
<1>4. AnswersAreDone' BY <1>1, <1>3 DEF AnswersAreDone
<1>5. task'[t] = [Idle EXCEPT !.pc = "answer", !.ev = f] BY DEF Accept, TypeOK
<1>6. task'[t].pc = "answer" /\ task'[t].ev = f /\ task'[t].kind = "events"
  BY <1>5 DEF Idle
<1>7. Stored(f)' BY DEF Saved
<1>8. Type(f) \in ChainType => Replay[f] # NoItem /\ Stored(Body[f].prev)'
  BY <1>7 DEF StoredEventsReplay
<1>9. TaskSafe(t)' BY <1>1, <1>6, <1>7, <1>8 DEF TaskSafe
<1>10. QED BY <1>4, <1>9

\* A request that does not move keeps what it has established.
LEMMA KeepTask ==
   ASSUME TypeOK, Grows, done \subseteq done',
          NEW u \in Task, TaskSafe(u), task'[u] = task[u]
   PROVE  TaskSafe(u)'
<1> DEFINE q == task[u]
           e == q.ev
<1>1. "events" \in Kind /\ "attestations" \in Kind BY DEF Kind
<1>2. q \in TaskRecord /\ (q.pc # "idle" => e \in Event) BY DEF TypeOK, TaskOK
<1>3. CASE e \in Event
  <2>1. Body[e].item \in Item BY <1>3, BodyAssumption DEF EventBody
  <2>2. Replay[e] # NoItem /\ Type(e) \in ChainType => Body[e].prev \in Event
    BY <1>3, ReplayAssumption DEF Type, ChainType, Follows
  <2>3. q.rec # NoItem => q.rec.last \in Event BY <1>2 DEF TaskRecord, ItemRecord
  <2>4. Replayed(q.rec) => Replayed(q.rec)'
    BY <1>1, <2>3 DEF Replayed, Grows, Stored
  <2>5. (Replay[e] # NoItem /\ Type(e) \in ChainType /\ Stored(Body[e].prev)) => Stored(Body[e].prev)'
    BY <1>1, <2>2 DEF Grows, Stored
  <2>6. Stored(e) => Stored(e)' BY <1>1, <1>3 DEF Grows, Stored
  <2>7. fileSt["attestations"][e] # "absent" => fileSt'["attestations"][e] # "absent"
    BY <1>1, <1>3 DEF Grows
  <2>8. indexSt["events"][Body[e].item] # "absent" => indexSt'["events"][Body[e].item] # "absent"
    BY <1>1, <2>1 DEF Grows
  <2>9. QED BY <2>4, <2>5, <2>6, <2>7, <2>8 DEF TaskSafe
<1>4. CASE e \notin Event
  <2>1. q.pc = "idle" BY <1>2, <1>4
  <2>2. q.kind # "attestations" BY <1>4 DEF TypeOK, TaskOK
  <2>3. QED BY <2>1, <2>2 DEF TaskSafe
<1>5. QED BY <1>3, <1>4

\* A slot that is free has nothing to establish.
LEMMA IdleTask ==
   ASSUME NEW u \in Task, task'[u] = Idle
   PROVE  TaskSafe(u)'
BY DEF TaskSafe, Idle

-----------------------------------------------------------------------------
(* One lemma per operation of a request.  What it has to show is that the  *)
(* three invariants and the request's own TaskSafe are preserved.          *)

Parts(t) == ItemIsReplay /\ StoredEventsReplay /\ AnswersAreDone /\ TaskSafe(t)

\* An operation that reads only, and refuses or moves on.
LEMMA ReadSafe ==
   ASSUME SafeInv, Grows, NEW t \in Task, UNCHANGED <<disk, done, accepted>>,
          TaskSafe(t)'
   PROVE  Parts(t)'
<1>1. UNCHANGED item /\ \A e \in Event : Stored(e)' => Stored(e) BY DEF disk, Stored
<1>2. QED BY <1>1, KeepItem, KeepEvents, KeepDone DEF SafeInv, Parts

\* A request that ends without acceptance owes nothing.
LEMMA RefuseSafe ==
   ASSUME SafeInv, Grows, NEW t \in Task, UNCHANGED <<disk, accepted>>, Refuse(t)
   PROVE  Parts(t)'
<1>1. task'[t] = Idle /\ UNCHANGED done BY DEF Refuse, SafeInv, TypeOK
<1>2. QED BY <1>1, IdleTask, ReadSafe

\* The record a request validates against is replayed.
LEMMA ReadItemSafe ==
   ASSUME SafeInv, Grows, NEW t \in Task, NEW e \in Event, e = task[t].ev, ReadItem(t)
   PROVE  Parts(t)'
<1>1. CASE Refuse(t) BY <1>1, RefuseSafe DEF ReadItem
<1>2. CASE ~Refuse(t)
  <2> DEFINE i == Body[e].item
  <2>1. /\ itemSt[i] = "whole" /\ UNCHANGED <<disk, done, accepted>>
        /\ task' = [task EXCEPT ![t].pc = "readParty", ![t].rec = item[i]]
    BY <1>2 DEF ReadItem
  <2>2. i \in Item BY BodyAssumption DEF EventBody
  <2>3. PICK rec \in ItemRecord : rec = item[i] BY <2>1, <2>2 DEF SafeInv, TypeOK
  <2>4. Replayed(rec)
    BY <2>2, <2>3, NullAssumption DEF SafeInv, ItemIsReplay, Replayed
  <2>5. Replayed(rec)' BY <2>1, <2>4 DEF Replayed, Stored, disk
  <2>6. task[t] \in TaskRecord /\ task[t].pc = "readItem" BY DEF SafeInv, TypeOK, ReadItem
  <2>7. task'[t] = [task[t] EXCEPT !.pc = "readParty", !.rec = rec]
    BY <2>1, <2>3 DEF SafeInv, TypeOK
  <2>8. /\ task'[t].pc = "readParty" /\ task'[t].ev = e
        /\ task'[t].kind = task[t].kind /\ task'[t].rec = rec
    BY <2>6, <2>7 DEF TaskRecord
  <2>9. task[t].kind # "attestations" BY <2>6 DEF SafeInv, TaskSafe
  <2>10. TaskSafe(t)' BY <2>5, <2>8, <2>9 DEF TaskSafe
  <2>11. QED BY <2>1, <2>10, ReadSafe
<1>3. QED BY <1>1, <1>2

\* A valid chain event extends a replayed record, so it replays too.
LEMMA ReadPartySafe ==
   ASSUME SafeInv, Grows, NEW t \in Task, NEW e \in Event, e = task[t].ev, ReadParty(t)
   PROVE  Parts(t)'
<1>1. CASE Refuse(t) BY <1>1, RefuseSafe DEF ReadParty
<1>2. CASE ~Refuse(t)
  <2>1. /\ task[t].pc = "readParty" /\ Valid(t) /\ UNCHANGED <<disk, done, accepted>>
        /\ task' = [task EXCEPT ![t].pc = "truncFile"]
    BY <1>2 DEF ReadParty, Goto
  <2>2. task[t] \in TaskRecord BY DEF SafeInv, TypeOK
  <2>3. task[t].kind # "attestations" BY <2>1 DEF SafeInv, TaskSafe
  <2>4. ASSUME Type(e) \in ChainType PROVE Replay[e] # NoItem /\ Stored(Body[e].prev)
    <3>1. Type(e) \notin {"ITEM_MINTED", "ITEM_AUTHENTICATED"} BY <2>4 DEF ChainType
    <3>2. PICK rec : rec = task[t].rec OBVIOUS
    <3>3. Replayed(rec) /\ ValidateTransition(rec, Body[e])
      BY <2>1, <3>1, <3>2 DEF Valid, SafeInv, TaskSafe
    <3>4. rec \in ItemRecord BY <2>2, <3>2, <3>3 DEF Replayed, TaskRecord
    <3>5. QED BY <3>3, <3>4, ReplayStep, ApplyType DEF Replayed
  <2>5. Stored(Body[e].prev) => Stored(Body[e].prev)' BY <2>1 DEF Stored, disk
  <2>6. task'[t].pc = "truncFile" /\ task'[t].ev = e /\ task'[t].kind = task[t].kind
    BY <2>1, <2>2 DEF SafeInv, TypeOK, TaskRecord
  <2>7. TaskSafe(t)' BY <2>3, <2>4, <2>5, <2>6 DEF TaskSafe
  <2>8. QED BY <2>1, <2>7, ReadSafe
<1>3. QED BY <1>1, <1>2

\* From the open on, the event's file exists.
LEMMA TruncFileSafe ==
   ASSUME SafeInv, Grows, NEW t \in Task, NEW e \in Event, e = task[t].ev, TruncFile(t)
   PROVE  Parts(t)'
<1>1. PICK k \in Kind : k = task[t].kind BY DEF SafeInv, TypeOK, TaskRecord
<1>2. /\ fileSt' = [fileSt EXCEPT ![k][e] = "empty"] /\ UNCHANGED <<item, done, accepted, indexSt>>
      /\ task' = [task EXCEPT ![t].pc = "writeFile"] /\ task[t].pc = "truncFile"
  BY <1>1 DEF TruncFile, Goto
<1>3. "events" \in Kind /\ "attestations" \in Kind /\ fileSt \in [Kind -> [Event -> FileState]]
  BY DEF Kind, SafeInv, TypeOK
<1>4. \A f \in Event : Stored(f)' => Stored(f) \/ (f = e /\ k = "events")
  BY <1>2, <1>3 DEF Stored
<1>5. Type(e) \in ChainType => Replay[e] # NoItem /\ Stored(Body[e].prev)
  BY <1>2 DEF SafeInv, TaskSafe
<1>6. Type(e) \in ChainType => Stored(Body[e].prev)'
  <2>1. Type(e) \in ChainType => Body[e].prev \in Event
    BY <1>5, ReplayAssumption DEF Type, ChainType, Follows
  <2>2. QED BY <1>3, <1>5, <2>1 DEF Grows, Stored
<1>7. StoredEventsReplay'
  <2>1. ASSUME NEW f \in Event, Stored(f)', Type(f) \in ChainType
        PROVE  Replay[f] # NoItem /\ Stored(Body[f].prev)'
    <3>1. CASE f = e BY <1>5, <1>6, <2>1, <3>1
    <3>2. CASE f # e
      <4>1. Replay[f] # NoItem /\ Stored(Body[f].prev)
        BY <1>4, <2>1, <3>2 DEF SafeInv, StoredEventsReplay
      <4>2. Body[f].prev \in Event
        BY <2>1, <4>1, ReplayAssumption DEF Type, ChainType, Follows
      <4>3. QED BY <1>3, <4>1, <4>2 DEF Grows, Stored
    <3>3. QED BY <3>1, <3>2
  <2>2. QED BY <2>1 DEF StoredEventsReplay
<1>8. task'[t].pc = "writeFile" /\ task'[t].ev = e /\ task'[t].kind = k
  BY <1>1, <1>2 DEF SafeInv, TypeOK, TaskRecord
<1>9. TaskSafe(t)'
  <2>1. fileSt'[k][e] = "empty" BY <1>2, <1>3
  <2>2. Stored(e)'
    <3>1. CASE k = "events" BY <2>1, <3>1 DEF Stored
    <3>2. CASE k = "attestations"
      <4>1. Stored(e) BY <1>1, <3>2 DEF SafeInv, TaskSafe
      <4>2. QED BY <1>3, <4>1 DEF Grows, Stored
    <3>3. QED BY <3>1, <3>2 DEF Kind
  <2>3. k = "attestations" => indexSt'["events"][Body[e].item] # "absent"
                              /\ Type(e) = "ITEM_AUTHENTICATED"
    BY <1>1, <1>2 DEF SafeInv, TaskSafe
  <2>4. QED BY <1>5, <1>6, <1>8, <2>1, <2>2, <2>3 DEF TaskSafe
<1>10. QED BY <1>2, <1>7, <1>9, KeepItem, KeepDone DEF SafeInv, Parts

\* The file is there, whole or mangled.
LEMMA WriteFileSafe ==
   ASSUME SafeInv, Grows, NEW t \in Task, NEW e \in Event, e = task[t].ev, WriteFile(t)
   PROVE  Parts(t)'
<1>1. PICK k \in Kind : k = task[t].kind BY DEF SafeInv, TypeOK, TaskRecord
<1>2. PICK st \in Lands(fileSt[k][e]) : fileSt' = [fileSt EXCEPT ![k][e] = st]
  BY <1>1 DEF WriteFile
<1>3. /\ UNCHANGED <<item, done, accepted, indexSt>> /\ task[t].pc = "writeFile"
      /\ task' = [task EXCEPT ![t].pc = "readIndex"]
  BY DEF WriteFile, Goto
<1>4. "events" \in Kind /\ "attestations" \in Kind /\ fileSt \in [Kind -> [Event -> FileState]]
  BY DEF Kind, SafeInv, TypeOK
<1>5. Stored(e) /\ Stored(e)'
  <2>1. Stored(e) BY <1>3 DEF SafeInv, TaskSafe
  <2>2. QED BY <1>4, <2>1 DEF Grows, Stored
<1>6. \A f \in Event : Stored(f)' => Stored(f)
  BY <1>2, <1>4, <1>5 DEF Stored
<1>7. Type(e) \in ChainType => Replay[e] # NoItem /\ Stored(Body[e].prev)'
  <2>1. Type(e) \in ChainType => Replay[e] # NoItem /\ Stored(Body[e].prev)
    BY <1>3 DEF SafeInv, TaskSafe
  <2>2. Type(e) \in ChainType => Body[e].prev \in Event
    BY <2>1, ReplayAssumption DEF Type, ChainType, Follows
  <2>3. QED BY <1>4, <2>1, <2>2 DEF Grows, Stored
<1>8. task'[t].pc = "readIndex" /\ task'[t].ev = e /\ task'[t].kind = k
  BY <1>1, <1>3 DEF SafeInv, TypeOK, TaskRecord
<1>9. k = "attestations" => /\ Type(e) = "ITEM_AUTHENTICATED"
                            /\ indexSt'["events"][Body[e].item] # "absent"
                            /\ fileSt'["attestations"][e] # "absent"
  <2>1. k = "attestations" => /\ Type(e) = "ITEM_AUTHENTICATED"
                              /\ indexSt["events"][Body[e].item] # "absent"
                              /\ fileSt["attestations"][e] # "absent"
    BY <1>1, <1>3 DEF SafeInv, TaskSafe
  <2>2. QED BY <1>3, <1>4, <2>1 DEF Grows
<1>10. TaskSafe(t)' BY <1>5, <1>7, <1>8, <1>9 DEF TaskSafe
<1>11. QED BY <1>3, <1>6, <1>10, KeepItem, KeepEvents, KeepDone DEF SafeInv, Parts

\* What a request knows once its file is written, in the next state.
LEMMA PastFile ==
   ASSUME SafeInv, Grows, NEW t \in Task, NEW e \in Event, e = task[t].ev,
          task[t].pc \in {"readIndex", "truncIndex", "writeIndex", "reread", "truncItem", "writeItem"}
   PROVE  /\ Stored(e)'
          /\ Type(e) \in ChainType => Replay[e] # NoItem /\ Stored(Body[e].prev)'
          /\ task[t].kind = "attestations" =>
                /\ Type(e) = "ITEM_AUTHENTICATED"
                /\ indexSt'["events"][Body[e].item] # "absent"
                /\ fileSt'["attestations"][e] # "absent"
<1>1. "events" \in Kind /\ "attestations" \in Kind BY DEF Kind
<1>2. Body[e].item \in Item BY BodyAssumption DEF EventBody
<1>3. /\ Stored(e)
      /\ Type(e) \in ChainType => Replay[e] # NoItem /\ Stored(Body[e].prev)
      /\ task[t].kind = "attestations" =>
            /\ Type(e) = "ITEM_AUTHENTICATED"
            /\ indexSt["events"][Body[e].item] # "absent"
            /\ fileSt["attestations"][e] # "absent"
  BY DEF SafeInv, TaskSafe
<1>4. Type(e) \in ChainType => Body[e].prev \in Event
  BY <1>3, ReplayAssumption DEF Type, ChainType, Follows
<1>5. QED BY <1>1, <1>2, <1>3, <1>4 DEF Grows, Stored

\* With the index there, the event may be answered or go on to its item.
LEMMA AfterSaveSafe ==
   ASSUME SafeInv, Grows, NEW t \in Task, NEW e \in Event, e = task[t].ev,
          NEW k \in Kind, k = task[t].kind,
          task[t].pc \in {"readIndex", "writeIndex"}, AfterSave(t),
          UNCHANGED <<item, fileSt, accepted>>, indexSt'[k][Body[e].item] # "absent"
   PROVE  Parts(t)'
<1>1. ItemIsReplay' /\ StoredEventsReplay'
  <2>1. \A f \in Event : Stored(f)' => Stored(f) BY DEF Stored
  <2>2. QED BY <2>1, KeepItem, KeepEvents DEF SafeInv
<1>2. task[t] \in TaskRecord /\ task \in [Task -> TaskRecord] BY DEF SafeInv, TypeOK
<1>3. /\ Stored(e)'
      /\ Type(e) \in ChainType => Replay[e] # NoItem /\ Stored(Body[e].prev)'
      /\ k = "attestations" => /\ Type(e) = "ITEM_AUTHENTICATED"
                               /\ fileSt'["attestations"][e] # "absent"
      /\ indexSt'["events"][Body[e].item] # "absent"
  BY PastFile DEF Kind
<1>4. CASE k = "attestations" \/ Type(e) = "AUTHENTICATOR_REGISTERED"
  <2>1. Accept(t) BY <1>4 DEF AfterSave
  <2>2. Saved(e)' BY <1>3, <1>4 DEF Saved
  <2>3. AnswersAreDone' /\ TaskSafe(t)' BY <1>1, <2>1, <2>2, AcceptSaves DEF SafeInv
  <2>4. QED BY <1>1, <2>3 DEF Parts
<1>5. CASE k = "events" /\ Type(e) # "AUTHENTICATOR_REGISTERED"
  <2>1. AnswersAreDone' BY <1>5, KeepDone DEF AfterSave, SafeInv
  <2>2. CASE Type(e) = "ITEM_AUTHENTICATED"
    <3>1. task' = [task EXCEPT ![t].pc = "truncFile", ![t].kind = "attestations", ![t].ids = {}]
      BY <1>5, <2>2 DEF AfterSave
    <3>2. task'[t].pc = "truncFile" /\ task'[t].ev = e /\ task'[t].kind = "attestations"
      BY <1>2, <3>1 DEF TaskRecord
    <3>3. TaskSafe(t)' BY <1>3, <2>2, <3>2 DEF TaskSafe, ChainType
    <3>4. QED BY <1>1, <2>1, <3>3 DEF Parts
  <2>3. CASE Type(e) = "ITEM_MINTED"
    <3>1. task' = [task EXCEPT ![t].pc = "truncItem", ![t].rec = Minted(e), ![t].ids = {}]
      BY <1>5, <2>3 DEF AfterSave, NewRecord
    <3>2. task'[t].pc = "truncItem" /\ task'[t].ev = e /\ task'[t].kind = k
          /\ task'[t].rec = Minted(e)
      BY <1>2, <3>1 DEF TaskRecord
    <3>3. Minted(e) = Replay[e] /\ Minted(e).last = e /\ Minted(e).item = Body[e].item
      BY <2>3, ReplayMint, MintedType
    <3>4. TaskSafe(t)' BY <1>3, <1>5, <2>3, <3>2, <3>3 DEF TaskSafe, ChainType
    <3>5. QED BY <1>1, <2>1, <3>4 DEF Parts
  <2>4. CASE Type(e) \notin {"ITEM_AUTHENTICATED", "ITEM_MINTED"}
    <3>1. task' = [task EXCEPT ![t].pc = "reread", ![t].ids = {}]
      BY <1>5, <2>4 DEF AfterSave
    <3>2. task'[t].pc = "reread" /\ task'[t].ev = e /\ task'[t].kind = k
      BY <1>2, <3>1 DEF TaskRecord
    <3>3. TaskSafe(t)' BY <1>3, <1>5, <2>4, <3>2 DEF TaskSafe
    <3>4. QED BY <1>1, <2>1, <3>3 DEF Parts
  <2>5. QED BY <2>2, <2>3, <2>4
<1>6. QED BY <1>4, <1>5 DEF Kind

\* An index that lists the event exists.
LEMMA ReadIndexSafe ==
   ASSUME SafeInv, Grows, NEW t \in Task, NEW e \in Event, e = task[t].ev, ReadIndex(t)
   PROVE  Parts(t)'
<1>1. PICK k \in Kind : k = task[t].kind BY DEF SafeInv, TypeOK, TaskRecord
<1>2. task[t].pc = "readIndex" /\ UNCHANGED <<disk, accepted>> BY DEF ReadIndex
<1>3. CASE Refuse(t) BY <1>2, <1>3, RefuseSafe
<1>4. CASE indexSt[k][Body[e].item] = "whole" /\ AfterSave(t)
  BY <1>1, <1>2, <1>4, AfterSaveSafe DEF disk
<1>5. CASE UNCHANGED done /\ \E ids : task' = [task EXCEPT ![t].pc = "truncIndex", ![t].ids = ids]
  <2>1. task'[t].pc = "truncIndex" /\ task'[t].ev = e /\ task'[t].kind = k
    BY <1>1, <1>5 DEF SafeInv, TypeOK, TaskRecord
  <2>2. TaskSafe(t)' BY <1>1, <1>2, <2>1, PastFile DEF TaskSafe
  <2>3. QED BY <1>2, <1>5, <2>2, ReadSafe
<1>6. QED BY <1>1, <1>3, <1>4, <1>5 DEF ReadIndex

\* From the open on, the index exists.
LEMMA TruncIndexSafe ==
   ASSUME SafeInv, Grows, NEW t \in Task, NEW e \in Event, e = task[t].ev, TruncIndex(t)
   PROVE  Parts(t)'
<1>1. PICK k \in Kind : k = task[t].kind BY DEF SafeInv, TypeOK, TaskRecord
<1>2. /\ task[t].pc = "truncIndex" /\ UNCHANGED <<fileSt, item, done, accepted>>
      /\ indexSt' = [indexSt EXCEPT ![k][Body[e].item] = "empty"]
      /\ task' = [task EXCEPT ![t].pc = "writeIndex"]
  BY <1>1 DEF TruncIndex, Goto
<1>3. task'[t].pc = "writeIndex" /\ task'[t].ev = e /\ task'[t].kind = k
  BY <1>1, <1>2 DEF SafeInv, TypeOK, TaskRecord
<1>4. Body[e].item \in Item BY BodyAssumption DEF EventBody
<1>5. indexSt'[k][Body[e].item] # "absent" BY <1>2, <1>4 DEF SafeInv, TypeOK
<1>6. TaskSafe(t)' BY <1>1, <1>2, <1>3, <1>5, PastFile DEF TaskSafe, Kind
<1>7. \A f \in Event : Stored(f)' => Stored(f) BY <1>2 DEF Stored
<1>8. QED BY <1>2, <1>6, <1>7, KeepItem, KeepEvents, KeepDone DEF SafeInv, Parts

\* The index is there, whole or mangled.
LEMMA WriteIndexSafe ==
   ASSUME SafeInv, Grows, NEW t \in Task, NEW e \in Event, e = task[t].ev, WriteIndex(t)
   PROVE  Parts(t)'
<1>1. PICK k \in Kind : k = task[t].kind BY DEF SafeInv, TypeOK, TaskRecord
<1>2. PICK st \in Lands(indexSt[k][Body[e].item]) :
         indexSt' = [indexSt EXCEPT ![k][Body[e].item] = st]
  BY <1>1 DEF WriteIndex
<1>3. task[t].pc = "writeIndex" /\ AfterSave(t) /\ UNCHANGED <<item, fileSt, accepted>> BY DEF WriteIndex
<1>4. Body[e].item \in Item BY BodyAssumption DEF EventBody
<1>5. indexSt'[k][Body[e].item] # "absent" BY <1>2, <1>4, LandsType DEF SafeInv, TypeOK
<1>6. QED BY <1>1, <1>3, <1>5, AfterSaveSafe

\* The record read again is replayed, and so is what applyEvent makes of it.
LEMMA RereadSafe ==
   ASSUME SafeInv, Grows, NEW t \in Task, NEW e \in Event, e = task[t].ev, Reread(t)
   PROVE  Parts(t)'
<1> DEFINE i == Body[e].item
<1>1. task[t].pc = "reread" /\ UNCHANGED <<disk, accepted>> /\ i \in Item
  BY BodyAssumption DEF Reread, EventBody
<1>2. task[t].kind # "attestations" /\ indexSt'["events"][i] # "absent"
      /\ Type(e) # "ITEM_AUTHENTICATED"
  BY <1>1 DEF SafeInv, TaskSafe, disk
<1>3. CASE Refuse(t) BY <1>1, <1>3, RefuseSafe
<1>4. CASE Accept(t)
  <2>1. \A f \in Event : Stored(f)' => Stored(f) BY <1>1 DEF Stored, disk
  <2>2. Saved(e)' BY <1>1, <1>2, PastFile DEF Saved
  <2>3. UNCHANGED item BY <1>1 DEF disk
  <2>4. ItemIsReplay' /\ StoredEventsReplay' BY <2>1, <2>3, KeepItem, KeepEvents DEF SafeInv
  <2>5. AnswersAreDone' /\ TaskSafe(t)' BY <1>1, <1>4, <2>2, <2>4, AcceptSaves DEF SafeInv
  <2>6. QED BY <2>4, <2>5 DEF Parts
<1>5. CASE /\ itemSt[i] = "whole" /\ ValidateTransition(item[i], Body[e]) /\ UNCHANGED done
           /\ task' = [task EXCEPT ![t].pc = "truncItem",
                                   ![t].rec = ApplyEvent(item[i], e, Body[e])]
  <2>1. PICK old \in ItemRecord : old = item[i] BY <1>1, <1>5 DEF SafeInv, TypeOK
  <2>2. old = Replay[old.last]
    BY <1>1, <2>1, NullAssumption DEF SafeInv, ItemIsReplay
  <2>3. PICK rec : rec = ApplyEvent(old, e, Body[e]) OBVIOUS
  <2>4. rec = Replay[e] /\ rec.last = e /\ rec.item = i
    BY <1>5, <2>1, <2>2, <2>3, ReplayStep, ApplyType
  <2>5. /\ task'[t].pc = "truncItem" /\ task'[t].ev = e /\ task'[t].kind = task[t].kind
        /\ task'[t].rec = rec
    BY SMTT(30), <1>5, <2>1, <2>3 DEF SafeInv, TypeOK, TaskRecord
  <2>6. TaskSafe(t)' BY <1>1, <1>2, <2>4, <2>5, PastFile DEF TaskSafe
  <2>7. QED BY <1>1, <1>5, <2>6, ReadSafe
<1>6. QED BY <1>3, <1>4, <1>5 DEF Reread

\* The item file is opened; the record last written is unchanged.
LEMMA TruncItemSafe ==
   ASSUME SafeInv, Grows, NEW t \in Task, NEW e \in Event, e = task[t].ev, TruncItem(t)
   PROVE  Parts(t)'
<1>1. /\ task[t].pc = "truncItem" /\ UNCHANGED <<fileSt, indexSt, item, done, accepted>>
      /\ task' = [task EXCEPT ![t].pc = "writeItem"]
  BY DEF TruncItem, Goto
<1>2. /\ task'[t].pc = "writeItem" /\ task'[t].ev = e /\ task'[t].kind = task[t].kind
      /\ task'[t].rec = task[t].rec
  BY <1>1 DEF SafeInv, TypeOK, TaskRecord
<1>3. TaskSafe(t)' BY <1>1, <1>2, PastFile DEF SafeInv, TaskSafe
<1>4. \A f \in Event : Stored(f)' => Stored(f) BY <1>1 DEF Stored
<1>5. QED BY <1>1, <1>3, <1>4, KeepItem, KeepEvents, KeepDone DEF SafeInv, Parts

\* The record written is the replay of the event's chain.
LEMMA WriteItemSafe ==
   ASSUME SafeInv, Grows, NEW t \in Task, NEW e \in Event, e = task[t].ev, WriteItem(t)
   PROVE  Parts(t)'
<1>1. task[t].pc = "writeItem" /\ Accept(t) /\ UNCHANGED <<fileSt, indexSt, accepted>> BY DEF WriteItem
<1>2. PICK rec \in ItemRecord : rec = task[t].rec BY <1>1 DEF SafeInv, TypeOK, TaskOK
<1>3. rec = Replay[e] /\ rec.last = e BY <1>1, <1>2 DEF SafeInv, TaskSafe
<1>4. item' = item \/ item' = [item EXCEPT ![rec.item] = rec] BY <1>2 DEF WriteItem
<1>5. Stored(e)' BY <1>1, PastFile
<1>6. ItemIsReplay'
  <2>1. CASE item' = item BY <2>1, KeepItem DEF SafeInv
  <2>2. CASE item' = [item EXCEPT ![rec.item] = rec]
    <3>1. ASSUME NEW i \in Item, item'[i] # NoItem
          PROVE  item'[i].item = i /\ item'[i] = Replay[item'[i].last]
                 /\ fileSt'["events"][item'[i].last] # "absent"
      <4>1. CASE i = rec.item
        <5>1. item'[i] = rec BY <2>2, <4>1 DEF SafeInv, TypeOK
        <5>2. QED BY <1>3, <1>5, <4>1, <5>1 DEF Stored
      <4>2. CASE i # rec.item
        <5>1. item'[i] = item[i] BY <2>2, <4>2 DEF SafeInv, TypeOK
        <5>2. item[i].item = i /\ item[i] = Replay[item[i].last] /\ Stored(item[i].last)
          BY <3>1, <5>1 DEF SafeInv, ItemIsReplay
        <5>3. QED BY <1>1, <5>1, <5>2 DEF Stored
      <4>3. QED BY <4>1, <4>2
    <3>2. QED BY <3>1 DEF ItemIsReplay, Stored
  <2>3. QED BY <1>4, <2>1, <2>2
<1>7. Saved(e)'
  <2>1. indexSt'["events"][Body[e].item] # "absent" /\ Type(e) # "ITEM_AUTHENTICATED"
    BY <1>1 DEF SafeInv, TaskSafe
  <2>2. QED BY <1>5, <2>1 DEF Saved
<1>8. \A f \in Event : Stored(f)' => Stored(f) BY <1>1 DEF Stored
<1>9. StoredEventsReplay' BY <1>8, KeepEvents DEF SafeInv
<1>10. AnswersAreDone' /\ TaskSafe(t)' BY <1>1, <1>7, <1>9, AcceptSaves DEF SafeInv
<1>11. QED BY <1>6, <1>9, <1>10 DEF Parts

\* An event that is answered is done.
LEMMA AnswerSafe ==
   ASSUME SafeInv, Grows, NEW t \in Task, Answer(t)
   PROVE  Parts(t)'
<1>1. UNCHANGED <<fileSt, indexSt, item, done>> /\ task[t].pc = "answer"
      /\ accepted' = accepted \cup {task[t].ev}
  BY DEF Answer, disk
<1>2. task[t].ev \in done BY <1>1 DEF SafeInv, TaskSafe
<1>3. \A e \in done' : e \in Event /\ Saved(e) BY <1>1 DEF SafeInv, TypeOK, AnswersAreDone
<1>4. \A e \in done' : Saved(e)' BY <1>3, KeepSaved
<1>5. AnswersAreDone' BY <1>1, <1>2, <1>4 DEF SafeInv, AnswersAreDone
<1>6. task'[t] = Idle BY DEF Answer, SafeInv, TypeOK
<1>7. \A f \in Event : Stored(f)' => Stored(f) BY <1>1 DEF Stored
<1>8. QED BY <1>1, <1>5, <1>6, <1>7, IdleTask, KeepItem, KeepEvents DEF SafeInv, Parts

-----------------------------------------------------------------------------
(* The invariant is inductive *)

\* An empty store.
LEMMA InitSafe == Init => SafeInv
<1> SUFFICES ASSUME Init PROVE SafeInv
  OBVIOUS
<1>1. TypeOK BY InitType
<1>2. "events" \in Kind BY DEF Kind
<1>3. ItemIsReplay BY DEF Init, ItemIsReplay
<1>4. StoredEventsReplay BY <1>2 DEF Init, StoredEventsReplay, Stored
<1>5. AnswersAreDone BY DEF Init, AnswersAreDone
<1>6. \A t \in Task : TaskSafe(t) BY DEF Init, TaskSafe, Idle
<1>7. QED BY <1>1, <1>3, <1>4, <1>5, <1>6 DEF SafeInv

\* A step that leaves the files, the answers and the requests alone.
LEMMA KeepSafe ==
   ASSUME SafeInv, TypeOK', UNCHANGED <<fileSt, indexSt, item, done, accepted, task>>
   PROVE  SafeInv'
<1>1. Grows BY DEF Grows
<1>2. \A f \in Event : Stored(f)' => Stored(f) BY DEF Stored
<1>3. \A t \in Task : TaskSafe(t)' BY <1>1, KeepTask DEF SafeInv
<1>4. QED BY <1>1, <1>2, <1>3, KeepItem, KeepEvents, KeepDone DEF SafeInv

\* What is done stays done.
LEMMA TaskStepDone ==
   ASSUME NEW t \in Task, TaskStep(t)
   PROVE  done \subseteq done'
BY DEF TaskStep, ReadItem, ReadParty, TruncFile, WriteFile, ReadIndex, TruncIndex,
       WriteIndex, Reread, TruncItem, WriteItem, Answer, AfterSave, Refuse, Accept

\* A request preserves its own part by the lemmas above, and every other
\* request keeps its part because no file is deleted.
LEMMA TaskStepSafe ==
   ASSUME SafeInv, NEW t \in Task, TaskStep(t)
   PROVE  SafeInv'
<1>1. Grows BY TaskStepGrows DEF SafeInv
<1>2. TypeOK' BY TaskStepType DEF SafeInv
<1>3. PICK e \in Event : e = task[t].ev
  BY DEF TaskStep, ReadItem, ReadParty, TruncFile, WriteFile, ReadIndex, TruncIndex,
         WriteIndex, Reread, TruncItem, WriteItem, Answer, SafeInv, TypeOK, TaskOK
<1>4. Parts(t)'
  BY <1>1, <1>3, ReadItemSafe, ReadPartySafe, TruncFileSafe, WriteFileSafe, ReadIndexSafe,
     TruncIndexSafe, WriteIndexSafe, RereadSafe, TruncItemSafe, WriteItemSafe, AnswerSafe DEF TaskStep
<1>5. ASSUME NEW u \in Task, u # t PROVE TaskSafe(u)'
  <2>1. task'[u] = task[u]
    BY <1>5 DEF TaskStep, ReadItem, ReadParty, TruncFile, WriteFile, ReadIndex, TruncIndex,
         WriteIndex, Reread, TruncItem, WriteItem, Answer, AfterSave, Refuse, Accept, Goto, SafeInv, TypeOK
  <2>2. done \subseteq done' BY TaskStepDone
  <2>3. QED BY <1>1, <2>1, <2>2, KeepTask DEF SafeInv
<1>6. QED BY <1>2, <1>4, <1>5 DEF SafeInv, Parts

\* A new request has established nothing yet.
LEMMA SubmitSafe ==
   ASSUME SafeInv, NEW t \in Task, NEW e \in Event, NEW sigs \in SigLists, Submit(t, e, sigs)
   PROVE  SafeInv'
<1>1. TypeOK' BY SubmitType DEF SafeInv
<1>2. UNCHANGED <<fileSt, indexSt, item, done, accepted>> BY DEF Submit, disk
<1>3. Grows BY <1>2 DEF Grows
<1>4. \A f \in Event : Stored(f)' => Stored(f) BY <1>2 DEF Stored
<1>5. ASSUME NEW u \in Task PROVE TaskSafe(u)'
  <2>1. CASE task'[u] = task[u] BY <1>2, <1>3, <2>1, KeepTask DEF SafeInv
  <2>2. CASE task'[u] # task[u]
    <3>1. /\ task'[u] = [Idle EXCEPT !.pc = FirstRead(Type(e)), !.ev = e, !.sigs = sigs]
      BY <2>2 DEF Submit, SafeInv, TypeOK
    <3>2. task'[u].pc = FirstRead(Type(e)) /\ task'[u].ev = e /\ task'[u].kind = "events"
      BY <3>1 DEF Idle
    <3>3. \/ FirstRead(Type(e)) = "readItem"
          \/ FirstRead(Type(e)) = "readParty" /\ Type(e) \in {"ITEM_MINTED", "ITEM_AUTHENTICATED"}
          \/ FirstRead(Type(e)) = "truncFile" /\ Type(e) \notin ChainType
      BY DEF FirstRead, ChainType
    <3>4. QED BY <3>2, <3>3 DEF TaskSafe
  <2>3. QED BY <2>1, <2>2
<1>6. QED BY <1>1, <1>2, <1>3, <1>4, <1>5, KeepItem, KeepEvents, KeepDone DEF SafeInv

\* Every step keeps the invariant.
LEMMA NextSafe == SafeInv /\ [Next]_vars => SafeInv'
<1> SUFFICES ASSUME SafeInv, [Next]_vars PROVE SafeInv'
  OBVIOUS
<1>1. TypeOK' BY NextType DEF SafeInv
<1>2. ASSUME NEW t \in Task, NEW e \in Event, NEW sigs \in SigLists, Submit(t, e, sigs)
      PROVE  SafeInv'
  BY <1>2, SubmitSafe
<1>3. ASSUME NEW t \in Task, TaskStep(t) PROVE SafeInv'
  BY <1>3, TaskStepSafe
<1>4. CASE \/ \E r \in Reader, i \in Item : ReadProofItem(r, i)
           \/ \E r \in Reader : ReadProofIndex(r)
           \/ \E r \in Reader, e \in Event : ReadProofFile(r, e)
           \/ \E p \in Party : TruncParty(p)
           \/ \E p \in Party, s \in Statuses : WriteParty(p, s)
           \/ Tick
           \/ UNCHANGED vars
  <2>1. UNCHANGED <<fileSt, indexSt, item, done, accepted, task>>
    BY <1>4 DEF ReadProofItem, ReadProofIndex, ReadProofFile, TruncParty, WriteParty, Tick, vars, disk
  <2>2. QED BY <1>1, <2>1, KeepSafe
<1>5. CASE Crash
  <2>1. UNCHANGED <<fileSt, indexSt, item, done, accepted>> /\ \A t \in Task : task'[t] = Idle
    BY <1>5 DEF Crash, disk
  <2>2. Grows /\ \A f \in Event : Stored(f)' => Stored(f) BY <2>1 DEF Grows, Stored
  <2>3. \A t \in Task : TaskSafe(t)' BY <2>1, IdleTask
  <2>4. QED BY <1>1, <2>1, <2>2, <2>3, KeepItem, KeepEvents, KeepDone DEF SafeInv
<1>6. QED BY <1>2, <1>3, <1>4, <1>5 DEF Next

\* SafeInv holds in every behaviour, with any number of concurrent requests.
THEOREM SafeInvariant == Spec => []SafeInv
<1>1. Init => SafeInv BY InitSafe
<1>2. SafeInv /\ [Next]_vars => SafeInv' BY NextSafe
<1>3. QED BY <1>1, <1>2, PTL DEF Spec

\* An item record on disk is the replay of its hash chain, whatever overlaps.
THEOREM ItemAlwaysReplay == Spec => []ItemIsReplay
<1>1. SafeInv => ItemIsReplay BY DEF SafeInv
<1>2. QED BY <1>1, SafeInvariant, PTL

\* Every chain event in the store replays legally from a mint, over
\* predecessors that are in the store.
THEOREM StoreAlwaysReplays == Spec => []StoredEventsReplay
<1>1. SafeInv => StoredEventsReplay BY DEF SafeInv
<1>2. QED BY <1>1, SafeInvariant, PTL

\* What was answered accepted: true is on disk.
THEOREM AcceptedAlwaysStored == Spec => []AcceptedIsStored
<1>1. SafeInv => AcceptedIsStored BY DEF SafeInv, AnswersAreDone, AcceptedIsStored
<1>2. QED BY <1>1, SafeInvariant, PTL
-----------------------------------------------------------------------------
(* Requests run out of operations: with fairness, what it takes for a      *)
(* request to end.                                                         *)

\* The operations a request in progress has still to make, at most, its answer
\* among them: an event is followed by its attestation or by the three
\* operations on its item.
StepsLeft(q) ==
   LET more == IF q.kind = "events" THEN 5 ELSE 0 IN
   CASE q.pc = "readItem"   -> 13
     [] q.pc = "readParty"  -> 12
     [] q.pc = "truncFile"  -> 6 + more
     [] q.pc = "writeFile"  -> 5 + more
     [] q.pc = "readIndex"  -> 4 + more
     [] q.pc = "truncIndex" -> 3 + more
     [] q.pc = "writeIndex" -> 2 + more
     [] q.pc = "reread"     -> 4
     [] q.pc = "truncItem"  -> 3
     [] q.pc = "writeItem"  -> 2
     [] q.pc = "answer"     -> 1
     [] OTHER               -> 0

\* Only a free slot has nothing left to do.
LEMMA StepsBound ==
   ASSUME NEW q \in TaskRecord
   PROVE  StepsLeft(q) \in 0..13 /\ (StepsLeft(q) = 0 <=> q.pc = "idle")
<1>1. q.pc \in PC BY DEF TaskRecord
<1>2. QED BY <1>1 DEF StepsLeft, PC

\* The synchronous code after a save.
LEMMA AfterSaveShortens ==
   ASSUME TypeOK, NEW t \in Task, AfterSave(t), task[t].pc \in {"readIndex", "writeIndex"}
   PROVE  StepsLeft(task'[t]) < StepsLeft(task[t])
<1>1. task[t] \in TaskRecord /\ task \in [Task -> TaskRecord] BY DEF TypeOK
<1>2. task[t].kind \in {"events", "attestations"} BY <1>1 DEF TaskRecord, Kind
<1>3. CASE Accept(t)
  <2>1. task'[t].pc = "answer" BY <1>1, <1>3 DEF Accept, Idle
  <2>2. QED BY <1>2, <2>1 DEF StepsLeft
<1>4. CASE ~Accept(t)
  <2>1. task[t].kind = "events" BY <1>2, <1>4 DEF AfterSave
  <2>2. CASE Type(task[t].ev) = "ITEM_AUTHENTICATED"
    <3>1. task' = [task EXCEPT ![t].pc = "truncFile", ![t].kind = "attestations", ![t].ids = {}]
      BY <1>4, <2>2 DEF AfterSave
    <3>2. task'[t].pc = "truncFile" /\ task'[t].kind = "attestations"
      BY <1>1, <3>1 DEF TaskRecord
    <3>3. QED BY <2>1, <3>2 DEF StepsLeft
  <2>3. CASE Type(task[t].ev) # "ITEM_AUTHENTICATED"
    <3>1. task'[t].pc \in {"truncItem", "reread"}
      <4>1. CASE Type(task[t].ev) = "ITEM_MINTED"
        <5>1. task' = [task EXCEPT ![t].pc = "truncItem", ![t].rec = NewRecord(task[t].ev),
                                   ![t].ids = {}]
          BY <1>4, <2>3, <4>1 DEF AfterSave
        <5>2. QED BY <1>1, <5>1 DEF TaskRecord
      <4>2. CASE Type(task[t].ev) # "ITEM_MINTED"
        <5>1. task' = [task EXCEPT ![t].pc = "reread", ![t].ids = {}]
          BY <1>4, <2>3, <4>2 DEF AfterSave
        <5>2. QED BY <1>1, <5>1 DEF TaskRecord
      <4>3. QED BY <4>1, <4>2
    <3>2. QED BY <2>1, <3>1 DEF StepsLeft
  <2>4. QED BY <2>2, <2>3
<1>5. QED BY <1>3, <1>4

\* Every operation brings its request nearer to its end.
LEMMA TaskStepShortens ==
   ASSUME TypeOK, NEW t \in Task, TaskStep(t)
   PROVE  StepsLeft(task'[t]) < StepsLeft(task[t])
<1>1. task[t] \in TaskRecord /\ task \in [Task -> TaskRecord] BY DEF TypeOK
<1>2. task[t].kind \in {"events", "attestations"} BY <1>1 DEF TaskRecord, Kind
<1>3. task[t].pc # "idle" BY DEF TaskStep, ReadItem, ReadParty, TruncFile, WriteFile,
        ReadIndex, TruncIndex, WriteIndex, Reread, TruncItem, WriteItem, Answer
<1>4. CASE Refuse(t) \/ Answer(t)
  <2>1. task'[t] = Idle BY <1>1, <1>4 DEF Refuse, Answer
  <2>2. StepsLeft(task'[t]) = 0 BY <2>1 DEF Idle, StepsLeft
  <2>3. QED BY <1>1, <1>3, <2>2, StepsBound
<1>5. ASSUME NEW pc, Goto(t, pc)
      PROVE  task'[t].pc = pc /\ task'[t].kind = task[t].kind
  BY <1>1, <1>5 DEF Goto, TaskRecord
<1>6. CASE ReadItem(t) /\ ~Refuse(t)
  <2>1. task[t].pc = "readItem"
        /\ \E rec : task' = [task EXCEPT ![t].pc = "readParty", ![t].rec = rec]
    BY <1>6 DEF ReadItem
  <2>2. task'[t].pc = "readParty" BY <1>1, <2>1 DEF TaskRecord
  <2>3. QED BY <2>1, <2>2 DEF StepsLeft
<1>7. CASE ReadParty(t) /\ ~Refuse(t)
  <2>1. task[t].pc = "readParty" /\ task'[t].pc = "truncFile"
    BY <1>5, <1>7 DEF ReadParty
  <2>2. QED BY <2>1 DEF StepsLeft
<1>8. CASE TruncFile(t)
  <2>1. task[t].pc = "truncFile" /\ task'[t].pc = "writeFile" /\ task'[t].kind = task[t].kind
    BY <1>5, <1>8 DEF TruncFile
  <2>2. QED BY <2>1 DEF StepsLeft
<1>9. CASE WriteFile(t)
  <2>1. task[t].pc = "writeFile" /\ task'[t].pc = "readIndex" /\ task'[t].kind = task[t].kind
    BY <1>5, <1>9 DEF WriteFile
  <2>2. QED BY <2>1 DEF StepsLeft
<1>10. CASE ReadIndex(t) /\ ~Refuse(t) /\ ~AfterSave(t)
  <2>1. task[t].pc = "readIndex"
        /\ \E ids : task' = [task EXCEPT ![t].pc = "truncIndex", ![t].ids = ids]
    BY <1>10 DEF ReadIndex
  <2>2. task'[t].pc = "truncIndex" /\ task'[t].kind = task[t].kind
    BY <1>1, <2>1 DEF TaskRecord
  <2>3. QED BY <2>1, <2>2 DEF StepsLeft
<1>11. CASE (ReadIndex(t) \/ WriteIndex(t)) /\ AfterSave(t)
  BY <1>11, AfterSaveShortens DEF ReadIndex, WriteIndex
<1>12. CASE TruncIndex(t)
  <2>1. task[t].pc = "truncIndex" /\ task'[t].pc = "writeIndex" /\ task'[t].kind = task[t].kind
    BY <1>5, <1>12 DEF TruncIndex
  <2>2. QED BY <2>1 DEF StepsLeft
<1>13. CASE Reread(t) /\ ~Refuse(t) /\ ~Accept(t)
  <2>1. task[t].pc = "reread"
        /\ \E rec : task' = [task EXCEPT ![t].pc = "truncItem", ![t].rec = rec]
    BY <1>13 DEF Reread
  <2>2. task'[t].pc = "truncItem" BY <1>1, <2>1 DEF TaskRecord
  <2>3. QED BY <2>1, <2>2 DEF StepsLeft
<1>14. CASE TruncItem(t)
  <2>1. task[t].pc = "truncItem" /\ task'[t].pc = "writeItem" BY <1>5, <1>14 DEF TruncItem
  <2>2. QED BY <2>1 DEF StepsLeft
<1>15. CASE (Reread(t) \/ WriteItem(t)) /\ Accept(t)
  <2>1. task'[t].pc = "answer" BY <1>1, <1>15 DEF Accept, Idle
  <2>2. task[t].pc \in {"reread", "writeItem"} BY <1>15 DEF Reread, WriteItem
  <2>3. QED BY <2>1, <2>2 DEF StepsLeft
<1>16. CASE WriteItem(t) BY <1>15, <1>16 DEF WriteItem
<1>17. QED
  BY <1>4, <1>6, <1>7, <1>8, <1>9, <1>10, <1>11, <1>12, <1>13, <1>14, <1>15, <1>16
     DEF TaskStep, WriteIndex

\* What a step does to a request: one more of its own operations, its start,
\* its death with the process, or nothing.
RunsOut(t) ==
   /\ TaskStep(t) => StepsLeft(task'[t]) < StepsLeft(task[t])
   /\ ~TaskStep(t) => \/ task'[t] = task[t]
                      \/ StepsLeft(task[t]) = 0
                      \/ Crash

\* However requests overlap, submitEvent ends: a request makes at most twelve
\* file operations and gives its answer, each of its steps leaves it fewer, and
\* no other request gives it more.  (That the steps come is fairness, which TLC checks.)
THEOREM RequestsRunOut ==
   Spec => /\ []\A t \in Task : StepsLeft(task[t]) \in 0..13
           /\ [][\A t \in Task : RunsOut(t)]_vars
<1>1. TypeOK => \A t \in Task : StepsLeft(task[t]) \in 0..13
  BY StepsBound DEF TypeOK
<1>2. TypeOK /\ [Next]_vars => [\A t \in Task : RunsOut(t)]_vars
  <2> SUFFICES ASSUME TypeOK, Next, NEW t \in Task PROVE RunsOut(t)
    OBVIOUS
  <2>1. task \in [Task -> TaskRecord] BY DEF TypeOK
  <2>2. CASE TaskStep(t) BY <2>2, TaskStepShortens DEF RunsOut
  <2>3. ASSUME ~TaskStep(t), NEW u \in Task, TaskStep(u) PROVE RunsOut(t)
    <3>0. t # u BY <2>3
    <3>1. task'[t] = task[t]
      BY <2>1, <2>3, <3>0 DEF TaskStep, ReadItem, ReadParty, TruncFile, WriteFile, ReadIndex, TruncIndex,
         WriteIndex, Reread, TruncItem, WriteItem, Answer, AfterSave, Refuse, Accept, Goto
    <3>2. QED BY <2>3, <3>1 DEF RunsOut
  <2>4. ASSUME ~TaskStep(t),
               NEW u \in Task, NEW e \in Event, NEW sigs \in SigLists, Submit(u, e, sigs)
        PROVE  RunsOut(t)
    <3>1. CASE u = t
      <4>1. StepsLeft(task[t]) = 0 BY <2>4, <3>1 DEF Submit, StepsLeft
      <4>2. QED BY <2>4, <4>1 DEF RunsOut
    <3>2. CASE u # t
      <4>1. task'[t] = task[t] BY <2>1, <2>4, <3>2 DEF Submit
      <4>2. QED BY <2>4, <4>1 DEF RunsOut
    <3>3. QED BY <3>1, <3>2
  <2>5. CASE ~TaskStep(t) /\ Crash BY <2>5 DEF RunsOut
  <2>6. CASE ~TaskStep(t) /\ UNCHANGED task BY <2>6 DEF RunsOut
  <2>7. QED
    BY <2>2, <2>3, <2>4, <2>5, <2>6
       DEF Next, ReadProofItem, ReadProofIndex, ReadProofFile, TruncParty, WriteParty, Tick
<1>3. QED BY <1>1, <1>2, TypeCorrect, PTL DEF Spec
=============================================================================
